------------------------------ MODULE MCHpPub -------------------------------
(* Instances of HpPub: one or two topics, one publisher. *)
EXTENDS HpPub

CONSTANTS t1, t2, p1, p2

OneTopic == {t1}
TwoTopics == {t1, t2}
OnePublisher == {p1}
TwoPublishers == {p1, p2}
=============================================================================
