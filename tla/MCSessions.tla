----------------------------- MODULE MCSessions -----------------------------
(* An instance of Sessions for TLC; the requests of a tab are alike. *)
EXTENDS Sessions, TLC

Symmetry == Permutations(Requests)
=============================================================================
