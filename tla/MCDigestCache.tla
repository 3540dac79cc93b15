---------------------------- MODULE MCDigestCache ----------------------------
(* Model-checking instances of DigestCache. *)
EXTENDS DigestCache, TLC

CONSTANTS a1, a2, f1, f2, f3

\* A directory of two files, and an artifact that is one file.
DirectoryAndFile == [a \in {a1, a2} |-> IF a = a1 THEN {f1, f2} ELSE {f3}]

\* All files hold the same in the beginning; edits tell them apart.
AllAlike == {[f \in Files |-> c] : c \in Contents}

Symmetry == Permutations(Contents) \cup Permutations(Hashers)

\* Behaviours in which nothing but hashing takes time.
HashingTakesTime == now' # now => \E h \in Hashers : pc[h] = "hash"
SlowHashSpec == Init /\ [][Next /\ HashingTakesTime]_vars
=============================================================================
