------------------------------ MODULE MCRatchet ------------------------------
(* An instance of Ratchet for TLC. *)
EXTENDS Ratchet
==============================================================================
