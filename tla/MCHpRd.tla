------------------------------- MODULE MCHpRd -------------------------------
(* Small instances of the input side of a connection for TLC. *)
EXTENDS HpRd
=============================================================================
