------------------------------ MODULE BlobStore ------------------------------
(***************************************************************************)
(* What a content-addressed blob store promises (storage/protocol.py): a   *)
(* blob appears under its digest in one step, holds the bytes of that      *)
(* digest, and stays.  A digest is modelled by the content it names.       *)
(***************************************************************************)
CONSTANT Digests

VARIABLE stored     \* the digests whose bytes can be read

Init == stored = {}

\* put(), when the source has the bytes it claims.
Put(d) == stored' = stored \cup {d}

Next == \E d \in Digests : Put(d)
Spec == Init /\ [][Next]_stored
=============================================================================
