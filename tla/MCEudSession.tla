---------------------------- MODULE MCEudSession ----------------------------
(* Instances of EudSession for TLC. *)
EXTENDS EudSession

CONSTANTS c1, c2, c3, d1, g1, g2

(* Up to three connections of one device over TLS. *)
OneDevice == [c \in Conns |-> d1]
AllSsl == [c \in Conns |-> "ssl"]

(* One connection over TCP, the others over TLS. *)
MixedTransport == [c \in Conns |-> IF c = c1 THEN "tcp" ELSE "ssl"]
=============================================================================
