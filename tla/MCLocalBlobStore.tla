-------------------------- MODULE MCLocalBlobStore --------------------------
(* Model-checking instance of LocalBlobStore: threads of one process. *)
EXTENDS LocalBlobStore

CONSTANT p1

OneProcess == [t \in Threads |-> p1]
=============================================================================
