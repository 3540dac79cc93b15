----------------------------- MODULE TrustConfig -----------------------------
(***************************************************************************)
(* The trust configuration (signing/trust_config.py), the rotation         *)
(* commands that change its file (modelguard trust add-key, retire-key,    *)
(* revoke-key and remove-key in cli/main.py) and the ModelGuard objects    *)
(* that were constructed from it (sdk.py).  A command loads the file,      *)
(* builds a new configuration, writes a temporary file and renames it; it  *)
(* can die between any two of these steps, and nothing locks the file.     *)
(*                                                                         *)
(* A configuration is a function from fingerprints to entries: a list with *)
(* a repeated fingerprint does not validate.  What a signature claims      *)
(* besides its key (algorithm, signer identity, model_id) is one value,    *)
(* and an entry's algorithm, signer_identity and scope patterns are the    *)
(* set of claims that satisfy them.                                        *)
(***************************************************************************)
EXTENDS Integers

CONSTANTS
    Keys,           \* fingerprints
    Claims,         \* what a signature claims besides its key
    Scopes,         \* sets of claims that entries accept
    Windows,        \* <<not_before, not_after>> pairs, each a time or None
    Operators,      \* processes running rotation commands
    Guards,         \* ModelGuard objects
    None,           \* no file, no bound, no object
    Torn,           \* a file that is only partly written
    MaxCommands,    \* bound: commands begun
    MaxTime         \* bound: the clock

Status == {"active", "retired", "revoked"}

\* _validate_window(): not_before must not be after not_after.
ValidWindow(w) == w[1] # None /\ w[2] # None => w[1] <= w[2]
Entries == [status : Status, window : {w \in Windows : ValidWindow(w)}, accepts : Scopes]

VARIABLES
    file,       \* the configuration on disk
    now,        \* the clock
    pc,         \* where an operator stands in its command
    tmp,        \* its temporary file
    job,        \* the configuration it is saving, and what to report
    guard,      \* per object: None, or [loaded, trust]
    standing,   \* keys whose revoke-key returned, with no remove-key and no
                \* overlapping command since
    commands    \* counter for the bound

vars == <<file, now, pc, tmp, job, guard, standing, commands>>

NoConfig == [k \in {} |-> None]
NoJob == [config |-> None, command |-> None, key |-> None]

Init ==
    /\ file = None
    /\ now = 0
    /\ pc = [o \in Operators |-> "idle"]
    /\ tmp = [o \in Operators |-> None]
    /\ job = [o \in Operators |-> NoJob]
    /\ guard = [g \in Guards |-> None]
    /\ standing = {}
    /\ commands = 0

-----------------------------------------------------------------------------
(* Configurations.                                                         *)

With(config, k, entry) ==
    [x \in DOMAIN config \cup {k} |-> IF x = k THEN entry ELSE config[x]]
Without(config, k) == [x \in DOMAIN config \ {k} |-> config[x]]

\* evaluate_trust(): every condition of the key's entry, on the verifier's clock.
evaluate_trust(k, claim, config) ==
    /\ k \in DOMAIN config
    /\ LET entry == config[k] IN
        /\ entry.status = "active"
        /\ entry.window[1] # None => now >= entry.window[1]
        /\ entry.window[2] # None => now <= entry.window[2]
        /\ claim \in entry.accepts

\* build_minimal_trust_config(): unconstrained entries.
Unconstrained == [status |-> "active", window |-> <<None, None>>, accepts |-> Claims]
build_minimal_trust_config(flags) == [k \in flags |-> Unconstrained]

\* merge_trust_configs(): None if a key is configured in two ways.
merge_trust_configs_FirstWins(a, b) ==
    [k \in DOMAIN a \cup DOMAIN b |-> IF k \in DOMAIN a THEN a[k] ELSE b[k]]
merge_trust_configs(a, b) ==
    IF \E k \in DOMAIN a \cap DOMAIN b : a[k] # b[k] THEN None
    ELSE [k \in DOMAIN a \cup DOMAIN b |-> IF k \in DOMAIN b THEN b[k] ELSE a[k]]

-----------------------------------------------------------------------------
(* The rotation commands.                                                  *)

Readable == file # Torn

\* Load the file and build the new configuration in memory.
Command(o, config, command, k) ==
    /\ pc[o] = "idle"
    /\ commands < MaxCommands
    /\ commands' = commands + 1
    /\ pc' = [pc EXCEPT ![o] = "write"]
    /\ job' = [job EXCEPT ![o] = [config |-> config, command |-> command, key |-> k]]
    /\ UNCHANGED <<file, now, tmp, guard, standing>>

\* _load_or_init_trust_config()
Loaded == IF file = None THEN NoConfig ELSE file

\* add-key: a second entry for the key does not validate.
AddKey_Replaces(o, k, entry) ==
    /\ Readable
    /\ Command(o, With(Loaded, k, entry), "add", k)
AddKey(o, k, entry) ==
    /\ Readable
    /\ k \notin DOMAIN Loaded
    /\ Command(o, With(Loaded, k, entry), "add", k)

Known(k) == file # None /\ Readable /\ k \in DOMAIN file

\* retire-key: not_after is the option, or stays.
RetireKey(o, k, until) ==
    /\ Known(k)
    /\ LET window == <<file[k].window[1], IF until # None THEN until ELSE file[k].window[2]>> IN
        /\ ValidWindow(window)
        /\ Command(o, With(file, k, [file[k] EXCEPT !.status = "retired", !.window = window]),
                   "retire", k)

RevokeKey(o, k) ==
    /\ Known(k)
    /\ Command(o, With(file, k, [file[k] EXCEPT !.status = "revoked"]), "revoke", k)

RemoveKey(o, k) ==
    /\ Known(k)
    /\ Command(o, Without(file, k), "remove", k)

\* save_trust_config_file(): write_text() truncates and fills the temporary
\* file, ...
TruncateTmp(o) ==
    /\ pc[o] = "write"
    /\ pc' = [pc EXCEPT ![o] = "fill"]
    /\ tmp' = [tmp EXCEPT ![o] = Torn]
    /\ UNCHANGED <<file, now, job, guard, standing, commands>>

FillTmp(o) ==
    /\ pc[o] = "fill"
    /\ pc' = [pc EXCEPT ![o] = "replace"]
    /\ tmp' = [tmp EXCEPT ![o] = job[o].config]
    /\ UNCHANGED <<file, now, job, guard, standing, commands>>

\* ... tmp_path.replace(path), and the command reports success.
Replace(o) ==
    /\ pc[o] = "replace"
    /\ pc' = [pc EXCEPT ![o] = "idle"]
    /\ file' = tmp[o]
    /\ tmp' = [tmp EXCEPT ![o] = None]
    /\ standing' = IF \E p \in Operators \ {o} : pc[p] # "idle" THEN {}
                   ELSE CASE job[o].command = "revoke" -> standing \cup {job[o].key}
                          [] job[o].command = "remove" -> standing \ {job[o].key}
                          [] OTHER -> standing
    /\ job' = [job EXCEPT ![o] = NoJob]
    /\ UNCHANGED <<now, guard, commands>>

\* The write or the rename fails: finally removes the temporary file.
SaveFails(o) ==
    /\ pc[o] # "idle"
    /\ pc' = [pc EXCEPT ![o] = "idle"]
    /\ tmp' = [tmp EXCEPT ![o] = None]
    /\ job' = [job EXCEPT ![o] = NoJob]
    /\ UNCHANGED <<file, now, guard, standing, commands>>

\* The process dies: the temporary file stays until it is written again.
Crash(o) ==
    /\ pc[o] # "idle"
    /\ pc' = [pc EXCEPT ![o] = "idle"]
    /\ job' = [job EXCEPT ![o] = NoJob]
    /\ UNCHANGED <<file, now, tmp, guard, standing, commands>>

-----------------------------------------------------------------------------
(* Verifiers.                                                              *)

\* ModelGuard(trust_config=load_trust_config_file(path),
\* trusted_key_fingerprints=flags): read once, merged once.
Construct(g, flags) ==
    /\ guard[g] = None
    /\ file # None /\ Readable
    /\ LET merged == merge_trust_configs(build_minimal_trust_config(flags), file) IN
        /\ merged # None
        /\ guard' = [guard EXCEPT ![g] = [loaded |-> file, trust |-> merged]]
    /\ UNCHANGED <<file, now, pc, tmp, job, standing, commands>>

Discard(g) ==
    /\ guard[g] # None
    /\ guard' = [guard EXCEPT ![g] = None]
    /\ UNCHANGED <<file, now, pc, tmp, job, standing, commands>>

Tick ==
    /\ now < MaxTime
    /\ now' = now + 1
    /\ UNCHANGED <<file, pc, tmp, job, guard, standing, commands>>

-----------------------------------------------------------------------------
Times == {w[2] : w \in Windows}

Rotate(o) ==
    \/ \E k \in Keys :
        \/ \E entry \in Entries : AddKey(o, k, entry)
        \/ \E until \in Times : RetireKey(o, k, until)
        \/ RevokeKey(o, k) \/ RemoveKey(o, k)
    \/ TruncateTmp(o) \/ FillTmp(o) \/ Replace(o) \/ SaveFails(o) \/ Crash(o)

Next ==
    \/ \E o \in Operators : Rotate(o)
    \/ \E g \in Guards : Discard(g) \/ \E flags \in SUBSET Keys : Construct(g, flags)
    \/ Tick

Spec == Init /\ [][Next]_vars

-----------------------------------------------------------------------------
(* Properties.                                                             *)

\* While no two commands overlap, a key whose revoke-key returned is trusted
\* by no object constructed afterwards, whatever is added, retired or
\* crashes later, until remove-key deletes its entry.  This needs a file that
\* can be loaded: "a crash or concurrent read never observes a
\* partially-written file", however many commands overlap.
RevocationSticks ==
    /\ Readable
    /\ \A k \in standing, claim \in Claims : Known(k) /\ ~evaluate_trust(k, claim, file)

\* Naming a key on the command line never lifts what the file says of it:
\* an object trusts a key the file lists only as far as the file does.
FlagsCannotOverride ==
    \A g \in Guards : guard[g] # None =>
        \A k \in DOMAIN guard[g].loaded, claim \in Claims :
            evaluate_trust(k, claim, guard[g].trust) => evaluate_trust(k, claim, guard[g].loaded)
=============================================================================
