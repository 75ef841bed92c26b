------------------------------- MODULE MCCalls -------------------------------
(* Instances of Calls for TLC: all users are members of the chat at first. *)
EXTENDS Calls, TLC

CONSTANTS a, b, c1, c2, r1, r2

\* Users, calls and request slots are interchangeable.
Symmetry == Permutations(Users) \cup Permutations(CallIds) \cup Permutations(Requests)

\* TLC goes no further where the members have changed or a handler has stopped
\* half-way and, besides, the other has happened or a second call been started.
Bound ==
    \/ chat_members = InitialMembers /\ stopped = {}
    \/ /\ Cardinality(Started) <= 1
       /\ chat_members = InitialMembers \/ stopped = {}
===============================================================================
