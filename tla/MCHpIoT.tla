------------------------------ MODULE MCHpIoT -------------------------------
(* Instances of HpIoT: one or two connections on one listening descriptor.  *)
EXTENDS HpIoT

CONSTANTS c1, c2

OneConn == {c1}
TwoConns == {c1, c2}
=============================================================================
