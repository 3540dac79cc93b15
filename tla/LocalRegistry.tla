---------------------------- MODULE LocalRegistry ----------------------------
(***************************************************************************)
(* The file-backed registry (registry/local.py): one JSON file per         *)
(* registered name, one digest index, and a hash-chained log of revoke and *)
(* unrevoke events.  write_text() truncates a file and then fills it; the  *)
(* process can die, or a write fail, at every point between two steps, and *)
(* nothing repairs what it leaves.  Queries read the files at any moment.  *)
(*                                                                         *)
(* Names stands for the identifiers that pass validate_identifier; any     *)
(* other raises before a file is touched.                                  *)
(***************************************************************************)
EXTENDS ChainFile

CONSTANTS
    Writers,        \* processes using the storage root
    Registrars,     \* those of them that register (documented: one)
    Names,          \* valid model_id + version pairs
    Digests,        \* artifact digests
    None,           \* no record, no index entry
    Torn,           \* a file that was truncated and not filled
    MaxRegisters,   \* bound: register() calls per behaviour
    MaxEvents       \* bound: revoke() and unrevoke() calls per behaviour

VARIABLES
    record,     \* records/<model_id>/<version>.json by name
    index,      \* what digest_index.json says by digest
    indexTorn,  \* digest_index.json does not parse
    log,        \* revocations.log.jsonl
    pc,         \* where a writer stands in its call
    job,        \* the arguments and local variables of its call
    acked,      \* <<name, digest>> pairs whose register() returned
    standing,   \* names whose revoke() returned, no unrevoke written since
    answers,    \* the <<digest, name>> pairs that get_by_digest() could ever give
    begun       \* calls begun so far, by kind (only for the bounds)

files == <<record, index, indexTorn, log>>
vars == <<record, index, indexTorn, log, pc, job, acked, standing, answers, begun>>

Actions == {"revoke", "unrevoke"}
NoIndex == [d \in Digests |-> None]
NoJob == [name |-> None, digest |-> None, index |-> NoIndex, entry |-> None]

Init ==
    /\ record = [n \in Names |-> None]
    /\ index = NoIndex /\ indexTorn = FALSE
    /\ log = << >>
    /\ pc = [w \in Writers |-> "idle"]
    /\ job = [w \in Writers |-> NoJob]
    /\ acked = {} /\ standing = {} /\ answers = {}
    /\ begun = [register |-> 0, event |-> 0]

-----------------------------------------------------------------------------
(* Queries, each over the files as they are.                               *)

Registered(n) == record[n] \in Digests

\* get_by_digest(): read the index, then get() the name it holds.
DigestUnreadable(d) == indexTorn \/ (index[d] # None /\ record[index[d]] = Torn)
get_by_digest(d) == {n \in Names : index[d] = n /\ Registered(n)}

\* The positions of the log's text, oldest first: line, then entry.
Positions == UNION {{i} \X DOMAIN log[i].entries : i \in DOMAIN log}
At(p) == log[p[1]].entries[p[2]].record
Older(p, q) == p[1] < q[1] \/ (p[1] = q[1] /\ p[2] < q[2])

\* is_revoked(): replay the log, the latest action on the name wins.
is_revoked_FirstWins(n) ==
    \E p \in Positions :
        /\ At(p).name = n /\ At(p).action = "revoke"
        /\ \A q \in Positions : At(q).name = n => ~Older(q, p)
is_revoked(n) ==
    \E p \in Positions :
        /\ At(p).name = n /\ At(p).action = "revoke"
        /\ \A q \in Positions : At(q).name = n => ~Older(p, q)

-----------------------------------------------------------------------------
Step(w, from, to) ==
    /\ pc[w] = from
    /\ pc' = [pc EXCEPT ![w] = to]

(* register()                                                              *)

CountRegister ==
    /\ begun.register < MaxRegisters
    /\ begun' = [begun EXCEPT !.register = @ + 1]

RegisterBegin_NoExistsCheck(w, n, d) ==
    /\ w \in Registrars
    /\ Step(w, "idle", "truncateRecord")
    /\ CountRegister
    /\ job' = [job EXCEPT ![w] = [NoJob EXCEPT !.name = n, !.digest = d]]
    /\ UNCHANGED <<files, acked, standing>>
RegisterBegin(w, n, d) ==
    /\ w \in Registrars
    /\ Step(w, "idle", "truncateRecord")
    /\ CountRegister
    /\ record[n] = None
    /\ job' = [job EXCEPT ![w] = [NoJob EXCEPT !.name = n, !.digest = d]]
    /\ UNCHANGED <<files, acked, standing>>

\* version_path.exists(), whatever the file holds: DuplicateRegistrationError.
RegisterDuplicate(w, n) ==
    /\ w \in Registrars /\ pc[w] = "idle"
    /\ CountRegister
    /\ record[n] # None
    /\ UNCHANGED <<files, pc, job, acked, standing>>

\* version_path.write_text(), in its two steps.
TruncateRecord(w) ==
    /\ Step(w, "truncateRecord", "fillRecord")
    /\ record' = [record EXCEPT ![job[w].name] = Torn]
    /\ UNCHANGED <<index, indexTorn, log, job, acked, standing, begun>>

FillRecord(w) ==
    /\ Step(w, "fillRecord", "readIndex")
    /\ record' = [record EXCEPT ![job[w].name] = job[w].digest]
    /\ UNCHANGED <<index, indexTorn, log, job, acked, standing, begun>>

Ack(w) == acked' = acked \cup {<<job[w].name, job[w].digest>>}

\* The index cannot be parsed: register() raises, its record stays.
IndexUnreadable(w) ==
    /\ Step(w, "readIndex", "idle")
    /\ indexTorn
    /\ UNCHANGED <<files, job, acked, standing, begun>>

\* First registration wins: an indexed digest is left alone.
AlreadyIndexed(w) ==
    /\ Step(w, "readIndex", "idle")
    /\ ~indexTorn
    /\ index[job[w].digest] # None
    /\ Ack(w)
    /\ UNCHANGED <<files, job, standing, begun>>

ReadIndex_AlwaysOverwrites(w) ==
    /\ Step(w, "readIndex", "truncateIndex")
    /\ ~indexTorn
    /\ job' = [job EXCEPT ![w].index = [index EXCEPT ![job[w].digest] = job[w].name]]
    /\ UNCHANGED <<files, acked, standing, begun>>
ReadIndex(w) ==
    /\ Step(w, "readIndex", "truncateIndex")
    /\ ~indexTorn
    /\ index[job[w].digest] = None
    /\ job' = [job EXCEPT ![w].index = [index EXCEPT ![job[w].digest] = job[w].name]]
    /\ UNCHANGED <<files, acked, standing, begun>>

\* _write_digest_index(): write_text() again.
TruncateIndex(w) ==
    /\ Step(w, "truncateIndex", "fillIndex")
    /\ indexTorn' = TRUE /\ index' = NoIndex
    /\ UNCHANGED <<record, log, job, acked, standing, begun>>

FillIndex_LosesOthers(w) ==
    /\ Step(w, "fillIndex", "idle")
    /\ indexTorn' = FALSE /\ index' = [NoIndex EXCEPT ![job[w].digest] = job[w].name]
    /\ Ack(w)
    /\ UNCHANGED <<record, log, job, standing, begun>>
FillIndex(w) ==
    /\ Step(w, "fillIndex", "idle")
    /\ indexTorn' = FALSE /\ index' = job[w].index
    /\ Ack(w)
    /\ UNCHANGED <<record, log, job, standing, begun>>

(* revoke() and unrevoke(): append_entry() on the log.                     *)

CountEvent ==
    /\ begun.event < MaxEvents
    /\ begun' = [begun EXCEPT !.event = @ + 1]

EventBegin(w, n, a) ==
    /\ Step(w, "idle", "append")
    /\ CountEvent
    /\ ~LastUnreadable(log)
    /\ job' = [job EXCEPT ![w] =
                  [NoJob EXCEPT !.entry = NextEntry(log, [name |-> n, action |-> a])]]
    /\ UNCHANGED <<files, acked, standing>>

EventRefused(w) ==
    /\ pc[w] = "idle"
    /\ CountEvent
    /\ LastUnreadable(log)
    /\ UNCHANGED <<files, pc, job, acked, standing>>

\* Names standing after this entry's text reached the file.
Overtaken(e) == IF e.record.action = "unrevoke" THEN {e.record.name} ELSE {}

AppendEvent(w) ==
    /\ Step(w, "append", "idle")
    /\ LET e == job[w].entry IN
        /\ log' = AppendText(log, Line(<<e>>, FALSE, TRUE))
        /\ standing' = IF e.record.action = "revoke"
                       THEN standing \cup {e.record.name}
                       ELSE standing \ {e.record.name}
    /\ UNCHANGED <<record, index, indexTorn, job, acked, begun>>

\* The write is cut short, or completes and nobody is told.
AppendFails(w) ==
    /\ Step(w, "append", "idle")
    /\ LET e == job[w].entry IN
        \/ /\ log' = AppendText(log, Line(<< >>, TRUE, FALSE))
           /\ UNCHANGED standing
        \/ \E newline \in BOOLEAN :
            /\ log' = AppendText(log, Line(<<e>>, FALSE, newline))
            /\ standing' = standing \ Overtaken(e)
    /\ UNCHANGED <<record, index, indexTorn, job, acked, begun>>

\* The process dies, or the next write raises before it changed anything.
Crash(w) ==
    /\ pc[w] # "idle"
    /\ pc' = [pc EXCEPT ![w] = "idle"]
    /\ UNCHANGED <<files, job, acked, standing, begun>>

-----------------------------------------------------------------------------
Call(w) ==
    \/ \E n \in Names :
        \/ RegisterDuplicate(w, n)
        \/ \E d \in Digests : RegisterBegin(w, n, d)
        \/ \E a \in Actions : EventBegin(w, n, a)
    \/ EventRefused(w)

Progress(w) ==
    \/ TruncateRecord(w) \/ FillRecord(w)
    \/ IndexUnreadable(w) \/ AlreadyIndexed(w) \/ ReadIndex(w)
    \/ TruncateIndex(w) \/ FillIndex(w)
    \/ AppendEvent(w)

\* Somebody may look digests up after every step.
Observe == answers' = answers \cup UNION {{<<d, n>> : n \in get_by_digest(d)'} : d \in Digests}

Next ==
    /\ \E w \in Writers : Call(w) \/ Progress(w) \/ AppendFails(w) \/ Crash(w)
    /\ Observe
Spec == Init /\ [][Next]_vars

-----------------------------------------------------------------------------
(* Properties.                                                             *)

\* With the one registering process the documentation asks for, the files
\* implement the registry contract although each operation takes several
\* writes, may stop after any of them, and revocations race.
R == INSTANCE Registry WITH
        records <- {<<n, record[n]>> : n \in {m \in Names : Registered(m)}},
        revoked <- {n \in Names : is_revoked(n)}
RegistryContract == R!Spec

\* The comment in register(): once a lookup can find a name under a digest,
\* no later lookup finds another name there, across rewrites of the index,
\* crashes in the middle of one and registrations of the same bytes.
DigestNeverRepointed == \A p, q \in answers : p[1] = q[1] => p[2] = q[2]

\* A registration that returned can be found by its digest: the lookup
\* raises or returns a name registered for exactly these bytes.
AckedDigestResolves ==
    \A r \in acked :
        DigestUnreadable(r[2]) \/ \E n \in get_by_digest(r[2]) : record[n] = r[2]

\* A revocation that returned stays in force until an unrevoke is written:
\* is_revoked() reports it or raises, whatever was written half or by
\* another process meanwhile.
RevocationFailsClosed ==
    \A n \in standing : Unreadable(log) \/ is_revoked(n)
=============================================================================
