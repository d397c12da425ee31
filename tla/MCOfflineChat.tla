--------------------------- MODULE MCOfflineChat ---------------------------
(* Instances of OfflineChat for TLC: two messages to one device, which connects
   twice. Connections are alike and used once, so that c1 is the first. *)
EXTENDS OfflineChat

CONSTANTS m1, m2, u1, u2, c1, c2, c3

InTurn == phase[c2] # "new" => phase[c1] # "new"

MCNext == Next /\ InTurn'

MCSpec == Init /\ [][MCNext]_vars
=============================================================================
