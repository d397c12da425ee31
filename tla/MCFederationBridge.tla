------------------------- MODULE MCFederationBridge -------------------------
(* Instances of FederationBridge for TLC: a device u1 that is enrolled at two
   servers, and a device u2 that stays at B. *)
EXTENDS FederationBridge

CONSTANTS A, B, C, u1, u2, x, y, z, d, g, h

Roaming == [u \in Uids |-> IF u = u1 THEN {A, B} ELSE {B}]
Staying == [u \in Uids |-> IF u = u1 THEN {A} ELSE {B}]

(* x and y are positions of u1, d its direct message to u2; z a position of
   u2.  Every account is in __ANON__, and in one group. *)
Senders == [c \in Cots |-> IF c = z THEN u2 ELSE u1]
OneGroup == [c \in Cots |-> IF c = d THEN {u2} ELSE {Anon, g}]
TwoGroups == [c \in Cots |-> IF c = d THEN {u2} ELSE {g, h}]
=============================================================================
