--------------------------- MODULE MCRemoteClear ---------------------------
(* Instances of RemoteClear for TLC: two connections of one device. *)
EXTENDS RemoteClear

CONSTANTS c1, c2, d1, r1, r2

OneDevice == [c \in Conns |-> d1]
=============================================================================
