------------------------- MODULE MCGroupMembership -------------------------
(* Two accounts, two groups that administrators make, one shared item. *)
EXTENDS GroupMembership, TLC

CONSTANTS u1, u2, g1, g2, i1, w1, w2

Plain == [locked |-> FALSE, autoJoin |-> FALSE, access |-> "both", days |-> FALSE]
Auto == [locked |-> TRUE, autoJoin |-> TRUE, access |-> "OUT", days |-> TRUE]
Settings == {Plain, Auto}

Alike == Permutations({u1, u2})
AllAlike == Alike \cup Permutations({g1, g2}) \cup Permutations({w1, w2})
=============================================================================
