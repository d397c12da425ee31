------------------------------ MODULE MCTrust ------------------------------
(* Instances of CertRevocation and FederationPolicy for TLC: whom this server and
   its federation hub trust. They share no state and are explored each on its
   own, in one run.

   Certificates: a device d1 whose old certificate c1 (serial s1) it replaces by
   c2 (serial s2), and an old certificate c3 of d2 that shares serial s1. The
   policy: one other server p, a policy P that comes in several forms, and a
   policy Q that uses p. *)
EXTENDS CertRevocation, FederationPolicy

CONSTANTS c1, c2, c3, s1, s2, d1, d2, r1, r2, k1, k2, a1, a2, p, P, Q, n1, n2

Serial3 == [c \in Certs |-> IF c = c2 THEN s2 ELSE s1]
Device3 == [c \in Certs |-> IF c = c3 THEN d2 ELSE d1]

(* The row of c3 names no device. *)
DeviceMissing == [c \in Certs |-> IF c = c3 THEN NoDevice ELSE d1]

(* c2 is enrolled without a client uid. *)
DeviceUnknown == [c \in Certs |-> IF c = c2 THEN NoDevice ELSE d1]

UseOld == [k \in Conns |-> c1]
UseBoth == [k \in Conns |-> IF k = k1 THEN c1 ELSE c2]
-----------------------------------------------------------------------------
Plain == [name |-> P, own |-> "on", groups |-> [c \in Cas |-> 0],
          outs |-> [l \in Links |-> 0], tuned |-> FALSE]
Joined(q) == [q EXCEPT !.groups[p] = 1]

(* Without Raven's own bridge, and a stored policy that has the
   partner and an outgoing node from the native console. *)
Editor == {[Plain EXCEPT !.own = "off"],
           Joined([Plain EXCEPT !.name = Q, !.outs[NoCa] = 1])}
Settings == {Plain, [Plain EXCEPT !.tuned = TRUE]}
-----------------------------------------------------------------------------
VARIABLE part

MCInit ==
    /\ part \in {"certificates", "policy"} /\ Init /\ PolicyInit
    /\ part = "certificates" => active = NoPolicy /\ trusted = {} /\ nick = [c \in Cas |-> AnyNick]

(* Requests are used once and any two are alike: r1 is the first to begin. What r2
   revokes is one row, or a serial without one. *)
InTurn ==
    {r1, r2} \subseteq Requests =>
        /\ rpc[r2] # "idle" => rpc[r1] # "idle"
        /\ Cardinality(target[r2]) < 2

(* Administrators are alike, and nothing is kept of one who is idle: a2 is one who
   begins while another is at work. *)
SecondIsA2 ==
    {a1, a2} \subseteq Admins =>
        (doing[a2] = "idle" /\ doing'[a2] # "idle" => doing[a1] # "idle")

MCNext ==
    /\ \/ part = "certificates" /\ Next /\ InTurn' /\ UNCHANGED policyVars
       \/ part = "policy" /\ PolicyNext /\ SecondIsA2 /\ UNCHANGED vars
    /\ UNCHANGED part

MCSpec == MCInit /\ [][MCNext]_<<vars, policyVars, part>>

(* The handlers run. *)
MCFairSpec == MCSpec /\ Fairness
=============================================================================
