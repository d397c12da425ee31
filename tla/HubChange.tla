----------------------------- MODULE HubChange -----------------------------
(***************************************************************************)
(* What a change of the Federation Hub's policy promises the administrator   *)
(* who asked for it, whatever the hub answers and whoever else is at work.   *)
(*                                                                         *)
(* One request at a time has its turn.  While it has, the policy the hub     *)
(* enforces may be anything: the new one, the old one, one that somebody     *)
(* saved in between.  What counts is the answer:                            *)
(*   "done"     the hub enforces what was asked for,                        *)
(*   "undone"   the hub enforces what it enforced when the turn began,      *)
(*   "unknown"  the administrator is told to look at the hub.               *)
(* Without a turn the enforced policy does not change.                      *)
(***************************************************************************)
CONSTANTS Users, Nobody

VARIABLES
    enforced,  \* what the hub enforces
    turn,      \* [user, from, to], or Nobody
    answer     \* the last answer given

vars == <<enforced, turn, answer>>

Answers == {"none", "done", "undone", "unknown"}

Init ==
    /\ turn = Nobody
    /\ answer = "none"

(* A new request: the last answer is history. *)
Ask ==
    /\ answer' = "none"
    /\ UNCHANGED <<enforced, turn>>

Begin(u) ==
    /\ turn = Nobody
    /\ turn' # Nobody
    /\ turn' = [user |-> u, from |-> enforced, to |-> turn'.to]
    /\ UNCHANGED <<enforced, answer>>

Work ==
    /\ turn # Nobody
    /\ UNCHANGED <<turn, answer>>

End(u, w) ==
    /\ turn # Nobody /\ turn.user = u
    /\ w = "done" => enforced = turn.to
    /\ w = "undone" => enforced = turn.from
    /\ w # "unknown" => UNCHANGED enforced
    /\ turn' = Nobody
    /\ answer' = w

Next ==
    \/ Ask \/ Work
    \/ \E u \in Users : Begin(u) \/ \E w \in Answers \ {"none"} : End(u, w)

Spec == Init /\ [][Next]_vars
=============================================================================
