----------------------------- MODULE DeviceLink -----------------------------
(***************************************************************************)
(* What the rest of the server may rely on of the connections of devices:   *)
(* the abstract specification EudSession implements.  A connection is        *)
(* accepted, may bind a control queue, writes the row of its device and is   *)
(* served until it ends; a device is asked to reconnect through the control  *)
(* queues; and the row may be marked Disconnected at any time, whatever the  *)
(* connections are doing.                                                    *)
(***************************************************************************)
EXTENDS Naturals, FiniteSets

CONSTANTS Conns, Devices, DeviceOf

ASSUME LinkAssumption == DeviceOf \in [Conns -> Devices]

VARIABLES
    phase,    \* handler thread: "open" until the row of the device is saved
    sock,     \* the device's end of the socket
    ctl,      \* the connection has its private control queue
    leaving,  \* connections with a disconnect message in their control queue
    status    \* euds.last_status

linkVars == <<phase, sock, ctl, leaving, status>>

LinkInit ==
    /\ phase = [c \in Conns |-> "new"]
    /\ sock = [c \in Conns |-> "none"]
    /\ ctl = [c \in Conns |-> FALSE]
    /\ leaving = {}
    /\ status = [d \in Devices |-> "none"]

(* Type correctness; disconnect messages are addressed to connections. *)
LinkTypeOK ==
    /\ phase \in [Conns -> {"new", "open", "live", "dead"}]
    /\ sock \in [Conns -> {"none", "up", "gone"}]
    /\ ctl \in [Conns -> BOOLEAN]
    /\ leaving \subseteq Conns
    /\ status \in [Devices -> {"none", "Connected", "Disconnected"}]

MarkedDisconnected(D) ==
    [d \in Devices |-> IF d \in D /\ status[d] # "none"
                       THEN "Disconnected" ELSE status[d]]
-----------------------------------------------------------------------------
LinkAccept(c) ==
    /\ phase[c] = "new"
    /\ phase' = [phase EXCEPT ![c] = "open"]
    /\ sock' = [sock EXCEPT ![c] = "up"]
    /\ UNCHANGED <<ctl, leaving, status>>

LinkBind(c) ==
    /\ phase[c] = "open"
    /\ ctl' = [ctl EXCEPT ![c] = TRUE]
    /\ UNCHANGED <<phase, sock, leaving, status>>

LinkSave(c) ==
    /\ phase[c] = "open"
    /\ phase' = [phase EXCEPT ![c] = "live"]
    /\ status' = [status EXCEPT ![DeviceOf[c]] = "Connected"]
    /\ UNCHANGED <<sock, ctl, leaving>>

(* The handler takes its disconnect message and shuts the socket down. *)
LinkLeave(c) ==
    /\ c \in leaving
    /\ leaving' = leaving \ {c}
    /\ sock' = [sock EXCEPT ![c] = "gone"]
    /\ UNCHANGED <<phase, ctl, status>>

LinkPeerGone(c) ==
    /\ sock[c] = "up"
    /\ sock' = [sock EXCEPT ![c] = "gone"]
    /\ UNCHANGED <<phase, ctl, leaving, status>>

(* The connections S lose their channels and with them their control queues;
   some of them (X) lose their sockets, some (D) their handlers too. *)
LinkEnd(S, X, D) ==
    /\ phase' = [c \in Conns |-> IF c \in D THEN "dead" ELSE phase[c]]
    /\ sock' = [c \in Conns |-> IF c \in X THEN "gone" ELSE sock[c]]
    /\ ctl' = [c \in Conns |-> ctl[c] /\ c \notin S]
    /\ leaving' = leaving \ S

LinkClose(c) ==
    /\ phase[c] # "new"
    /\ \E X \in {{}, {c}}, D \in {{}, {c}} : LinkEnd({c}, X, D)
    /\ status' \in {status, MarkedDisconnected({DeviceOf[c]})}

LinkRestart ==
    /\ \E S \in SUBSET {c \in Conns : phase[c] # "new"} : LinkEnd(S, S, S)
    /\ status' = MarkedDisconnected(Devices)

LinkMark(d) ==
    /\ status' = MarkedDisconnected({d})
    /\ UNCHANGED <<phase, sock, ctl, leaving>>

(* Mutant: one queue that the handlers of a device share. *)
LinkAskOne(d) ==
    LET bound == {c \in Conns : DeviceOf[c] = d /\ ctl[c]} IN
    /\ status[d] = "Connected"
    /\ leaving' = leaving \cup
                    (IF bound = {} THEN {} ELSE {CHOOSE c \in bound : TRUE})
    /\ UNCHANGED <<phase, sock, ctl, status>>

(* Mutant: the message is addressed to the device. *)
LinkAskUid(d) ==
    /\ status[d] = "Connected"
    /\ leaving' = leaving \cup {d}
    /\ UNCHANGED <<phase, sock, ctl, status>>

(* Every control queue of the device gets the message. *)
LinkAsk(d) ==
    /\ status[d] = "Connected"
    /\ leaving' = leaving \cup {c \in Conns : DeviceOf[c] = d /\ ctl[c]}
    /\ UNCHANGED <<phase, sock, ctl, status>>

(* A step of one connection, or of whoever judges a device by its row. *)
LinkStep ==
    \/ \E c \in Conns :
        \/ LinkAccept(c) \/ LinkBind(c) \/ LinkSave(c) \/ LinkLeave(c)
        \/ LinkPeerGone(c) \/ LinkClose(c)
    \/ \E d \in Devices : LinkMark(d)

LinkNext == LinkStep \/ LinkRestart \/ \E d \in Devices : LinkAsk(d)

LinkSpec == LinkInit /\ [][LinkNext]_linkVars
=============================================================================
