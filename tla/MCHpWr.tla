------------------------------- MODULE MCHpWr -------------------------------
(* Small instances of the output queue for TLC. *)
EXTENDS HpWr
=============================================================================
