------------------------------- MODULE MCKeys -------------------------------
(***************************************************************************)
(* Model-checking instance of what is done with keys: signing with them    *)
(* and verifying signatures, and the rotation of the trust configuration.  *)
(* Neither touches the state of the other: each behaviour is about one.    *)
(***************************************************************************)
EXTENDS Signing, Integers, TLC

CONSTANTS
    Fingerprints, Claims, Scopes, Windows, Operators, Guards, Torn, MaxCommands, MaxTime,
    s1, s2

BuiltIn == {Ed25519, EcdsaP256}         \* DEFAULT_VERIFIERS

\* Unbounded, a window that opens later, and one that is over at time 1.
MCWindows == {<<None, None>>, <<1, None>>, <<None, 0>>}
AnyClaim == {s1, s2}
MCScopes == {AnyClaim, {s1}}

VARIABLES
    part,       \* what this behaviour is about
    file, now, trustPc, tmp, trustJob, guard, standing, commands

Trust == INSTANCE TrustConfig WITH Keys <- Fingerprints, pc <- trustPc, job <- trustJob

\* What TrustConfig needs of its parameters: a validity window is a pair of
\* times, and neither an absent file nor one that is partly written is a
\* configuration.
Moments == Int \cup {None}
TrustEntry == [status : Trust!Status, window : Moments \X Moments, accepts : Scopes]
Configs == UNION {[S -> TrustEntry] : S \in SUBSET Fingerprints}
ASSUME ConfigsAssumption ==
    /\ None \notin Int /\ Windows \subseteq Moments \X Moments
    /\ Torn # None /\ \A S \in SUBSET Fingerprints : {None, Torn} \cap [S -> TrustEntry] = {}
ASSUME TrustBoundsAssumption == MaxCommands \in Nat /\ MaxTime \in Nat

signingVars == vars
trustVars == <<file, now, trustPc, tmp, trustJob, guard, standing, commands>>

NoSigning ==
    /\ named = None /\ cache = None /\ handle = None /\ pc = None /\ job = None
    /\ made = {} /\ returned = {} /\ accepted = None
    /\ allow_legacy_v1 = FALSE /\ calls = 0 /\ moves = 0

KeysInit ==
    /\ \/ part = "signing" /\ Init
       \/ part = "trust" /\ NoSigning
    /\ Trust!Init

KeysNext ==
    /\ UNCHANGED part
    /\ \/ part = "signing" /\ Next /\ UNCHANGED trustVars
       \/ part = "trust" /\ Trust!Next /\ UNCHANGED signingVars

KeysSpec == KeysInit /\ [][KeysNext]_<<part, signingVars, trustVars>>

Symmetry == Permutations(Operators) \cup Permutations(Bodies)

-----------------------------------------------------------------------------
(* The properties of TrustConfig.                                          *)

\* A revoked key stays revoked, and the file can always be loaded.
RevocationSticks == Trust!RevocationSticks
\* Naming a key on the command line never lifts what the file says of it.
FlagsCannotOverride == Trust!FlagsCannotOverride
=============================================================================
