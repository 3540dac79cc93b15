------------------------------ MODULE Registry ------------------------------
(***************************************************************************)
(* What a registry backend promises its callers (registry/protocol.py and  *)
(* the contract its implementations share): a name (model_id + version) is *)
(* registered at most once and then denotes the same artifact digest for   *)
(* ever, and a name is or is not revoked, which only an explicit revoke or *)
(* unrevoke of that name changes.  Every operation takes effect in a       *)
(* single step.  The file-backed and the PostgreSQL registry are both      *)
(* shown to implement this specification.                                  *)
(***************************************************************************)
CONSTANTS
    Names,      \* model_id + version pairs
    Digests     \* artifact digests

VARIABLES
    records,    \* the <<name, digest>> pairs that get() can return
    revoked     \* the names for which is_revoked() is not None

vars == <<records, revoked>>

Registered == {r[1] : r \in records}

Init ==
    /\ records = {}
    /\ revoked = {}

\* register(): refused with DuplicateRegistrationError when the name is taken.
Register(n, d) ==
    /\ n \notin Registered
    /\ records' = records \cup {<<n, d>>}
    /\ UNCHANGED revoked

\* revoke() and unrevoke() are not tied to registration: a name may be
\* revoked before anything is registered under it.
Revoke(n) ==
    /\ revoked' = revoked \cup {n}
    /\ UNCHANGED records

Unrevoke(n) ==
    /\ revoked' = revoked \ {n}
    /\ UNCHANGED records

Next ==
    \E n \in Names :
        \/ \E d \in Digests : Register(n, d)
        \/ Revoke(n)
        \/ Unrevoke(n)

Spec == Init /\ [][Next]_vars
=============================================================================
