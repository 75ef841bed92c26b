---------------------------- MODULE MCMembership ----------------------------
(* Instances of Membership for TLC: three users, of whom o created the chat. *)
EXTENDS Membership, TLC

CONSTANTS o, a, b, r1, r2, c1

\* The users other than the creator, and the request slots, are interchangeable.
Symmetry == Permutations({a, b}) \cup Permutations(Requests)

=============================================================================
