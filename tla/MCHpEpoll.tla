----------------------------- MODULE MCHpEpoll ------------------------------
(* Small instances of the epoll event loop for TLC. *)
EXTENDS HpEpoll

CONSTANTS f1, f2, f3, a1, a2, a3

ThreeFds == {f1, f2, f3}
ThreeAddrs == {a1, a2, a3}
=============================================================================
