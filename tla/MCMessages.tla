------------------------------ MODULE MCMessages ------------------------------
(* Instances of Messages for TLC: a is a member, o an admin. *)
EXTENDS Messages, TLC

CONSTANTS a, o, r1, r2, m1, m2, m3, k1, k2, t1, t2

Roster == [u \in Users |-> IF u = o THEN "admin" ELSE "member"]

\* Request slots are interchangeable.
Symmetry == Permutations(Requests)
=============================================================================
