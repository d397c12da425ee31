---------------------------- MODULE OfflineChat ----------------------------
(***************************************************************************)
(* Chat for a device that may be offline (raven/offline_chat.py), from the  *)
(* side of one recipient device: the stored rows, the live copy in the      *)
(* device's RabbitMQ queue, the connections that write the backlog and      *)
(* consume the queue, and the evidence (euds.last_rx_at) from which rows are *)
(* stamped delivered without being sent again.                              *)
(*                                                                         *)
(* Time is a counter; what takes less than a tick has no duration.  The     *)
(* three switches say which disturbances the environment produces.          *)
(***************************************************************************)
EXTENDS Integers, FiniteSets

CONSTANTS
    Msgs,          \* chat messages addressed to the device
    TeamMsgs,      \* those sent as team chat (read_groups is set)
    Users,         \* accounts the device's connections authenticate as
    Conns,         \* connections, each used once
    NoUser,        \* model value: no user
    RxGrace,       \* RX_GRACE
    UserTimeout,   \* TCP_USER_TIMEOUT
    Keep,          \* retention of queued chat
    MaxTime,       \* bound on the clock
    MaxLag,        \* longest a live message waits for a running consumer
    MaxChanges,    \* bound on group membership changes
    Overlap,       \* a device may reconnect before the old handler noticed
    ChannelLags,   \* the broker channel may not be open at identification
    DbFails        \* a commit may fail while the backlog is delivered

ASSUME SetAssumption == TeamMsgs \subseteq Msgs /\ NoUser \notin Users
ASSUME TimeAssumption ==
    /\ {RxGrace, UserTimeout, Keep, MaxTime, MaxLag, MaxChanges} \subseteq Nat
    /\ MaxLag <= RxGrace /\ RxGrace <= UserTimeout /\ UserTimeout <= Keep
ASSUME SwitchAssumption == {Overlap, ChannelLags, DbFails} \subseteq BOOLEAN

VARIABLES
    now,
    row,        \* offline_chat_messages: the state of a message's row
    created,    \* created_at
    rowUser,    \* recipient_user_id
    parser,     \* how far cot_parser is with the message
    liveQ,      \* the device's RabbitMQ queue
    bound,      \* which exchanges the queue is bound to
    phase,      \* the handler of a connection
    cuser,      \* the user it is authenticated as
    queue,      \* whether it consumes the device's queue
    peer,       \* the device is still at the other end
    opened,     \* when it identified itself
    todo,       \* the rows pending_messages() returned, not yet written
    unstamped,  \* rows written to the socket, the stamp not yet committed
    lastRx,     \* euds.last_rx_at (-1: NULL)
    eudUser,    \* euds.user_id
    connected,  \* euds.last_status is "Connected"
    readers,    \* users with an enabled OUT membership in the team's group
    changes,
    written,    \* history: <<message, connection>> backlog writes
    received    \* history: <<message, user>> that reached the device

rowVars == <<row, created, rowUser>>
connVars == <<phase, cuser, queue, peer, opened, todo, unstamped>>
eudVars == <<lastRx, eudUser, connected>>
memberVars == <<readers, changes>>
vars == <<now, rowVars, parser, liveQ, bound, connVars, eudVars, memberVars,
          written, received>>

Accounts == Users \cup {NoUser}  \* NoUser: plain TCP
Phases == {"new", "identified", "sending", "live", "closed"}
Open(c) == phase[c] \notin {"new", "closed"}

Init ==
    /\ now = 0
    /\ row = [m \in Msgs |-> "none"]
    /\ created = [m \in Msgs |-> 0]
    /\ rowUser = [m \in Msgs |-> NoUser]
    /\ parser = [m \in Msgs |-> "new"]
    /\ liveQ = {}
    /\ bound = {}
    /\ phase = [c \in Conns |-> "new"]
    /\ cuser = [c \in Conns |-> NoUser]
    /\ queue = [c \in Conns |-> "none"]
    /\ peer = [c \in Conns |-> FALSE]
    /\ opened = [c \in Conns |-> 0]
    /\ todo = [c \in Conns |-> {}]
    /\ unstamped = [c \in Conns |-> {}]
    /\ lastRx = -1
    /\ eudUser \in Accounts
    /\ connected = FALSE
    /\ readers = Users
    /\ changes = 0
    /\ written = {}
    /\ received = {}
-----------------------------------------------------------------------------
(* _addressing for this device: a direct message names it, team chat reaches
   it when its user reads the group. *)
Addressed(m) == m \notin TeamMsgs \/ eudUser \in readers

(* cot_parser.on_message, first: queue_offline_chat stores a row, whatever the
   status of the device says. *)
QueueChat(m) ==
    /\ parser[m] = "new"
    /\ parser' = [parser EXCEPT ![m] = "queued"]
    /\ created' = [created EXCEPT ![m] = now]
    /\ IF Addressed(m)
       THEN /\ row' = [row EXCEPT ![m] = "pending"]
            /\ rowUser' = [rowUser EXCEPT ![m] = eudUser]
       ELSE UNCHANGED <<row, rowUser>>
    /\ UNCHANGED <<now, liveQ, bound, connVars, eudVars, memberVars, written,
                   received>>

(* ... and later route_cot publishes the message; the broker drops it when
   the device's queue is not bound. *)
RouteChat(m) ==
    /\ parser[m] = "queued"
    /\ parser' = [parser EXCEPT ![m] = "routed"]
    /\ liveQ' = IF (IF m \in TeamMsgs THEN "group" ELSE "dms") \in bound
                THEN liveQ \cup {m} ELSE liveQ
    /\ UNCHANGED <<now, rowVars, bound, connVars, eudVars, memberVars, written,
                   received>>
-----------------------------------------------------------------------------
(* parse_device_info on a new connection of the device: bind its queue if the
   channel is open.  If it is not, this connection never binds it. *)
Connect(c, u, channel, q) ==
    /\ phase[c] = "new"
    /\ Overlap \/ \A o \in Conns : ~Open(o)
    /\ channel \/ ChannelLags
    /\ bound' = IF channel
                THEN bound \cup {"dms"} \cup (IF u \in readers THEN {"group"} ELSE {})
                ELSE bound
    /\ phase' = [phase EXCEPT ![c] = "identified"]
    /\ cuser' = [cuser EXCEPT ![c] = u]
    /\ queue' = [queue EXCEPT ![c] = IF channel THEN q ELSE "none"]
    /\ peer' = [peer EXCEPT ![c] = TRUE]
    /\ opened' = [opened EXCEPT ![c] = now]
    /\ UNCHANGED <<now, rowVars, parser, liveQ, todo, unstamped, eudVars,
                   memberVars, written, received>>

(* Mutant: the queue is consumed before the backlog is delivered. *)
IdentifyConsumesFirst(c, u, channel) == Connect(c, u, channel, "consumes")

Identify(c, u, channel) == Connect(c, u, channel, "bound")

(* Mutant: the user the row was queued for is not compared. *)
EntitledByGroup(m, u) == m \in TeamMsgs => u \in readers

(* _entitled: the user the row was queued for, who still reads the group. *)
Entitled(m, u) ==
    /\ rowUser[m] \in {NoUser, u}
    /\ m \in TeamMsgs => u \in readers

(* Rows whose live copy counts as received, given evidence from time t. *)
Settled(t) == {m \in Msgs : row[m] = "pending" /\ created[m] < t}
Stamp(S) == [m \in Msgs |-> IF m \in S THEN "delivered" ELSE row[m]]

(* deliver_pending up to its loop, given the rows to stamp and those among
   which it looks for pending ones.  Entitlement is taken here; the code
   evaluates it at the first message of each group and caches it. *)
ReadBacklog(c, live, rows) ==
    /\ phase[c] = "identified"
    /\ phase' = [phase EXCEPT ![c] = "sending"]
    /\ row' = Stamp(live)
    /\ todo' = [todo EXCEPT ![c] =
                  {m \in rows : /\ row[m] = "pending"
                                /\ created[m] >= now - Keep
                                /\ Entitled(m, cuser[c])}]
    /\ UNCHANGED <<now, created, rowUser, parser, liveQ, bound, cuser, queue,
                   peer, opened, unstamped, eudVars, memberVars, written,
                   received>>

(* _mark_received_live: rows older than the evidence less a grace. *)
ReceivedLive(grace) == IF lastRx = -1 THEN {} ELSE Settled(lastRx - grace)

(* Mutant: RX_GRACE is not subtracted from last_rx_at. *)
StartBacklogNoGrace(c) ==
    LET live == ReceivedLive(0) IN ReadBacklog(c, live, Msgs \ live)

(* Mutant: the pending rows are read before they are stamped. *)
StartBacklogReadsFirst(c) == ReadBacklog(c, ReceivedLive(RxGrace), Msgs)

(* Stamp what the device got live, then read the pending rows. *)
StartBacklog(c) ==
    LET live == ReceivedLive(RxGrace) IN ReadBacklog(c, live, Msgs \ live)

Reaches(m, c) == IF peer[c] THEN {<<m, cuser[c]>>} ELSE {}

(* One turn of the loop: write the oldest row, then stamp and commit it.  A
   write to a peer that is gone may still succeed. *)
WriteRow(c, m) ==
    /\ phase[c] = "sending" /\ unstamped[c] = {}
    /\ m \in todo[c] /\ row[m] # "gone"
    /\ \A o \in todo[c] : created[m] <= created[o]
    /\ todo' = [todo EXCEPT ![c] = @ \ {m}]
    /\ unstamped' = [unstamped EXCEPT ![c] = {m}]
    /\ written' = written \cup {<<m, c>>}
    /\ received' = received \cup Reaches(m, c)
    /\ UNCHANGED <<now, rowVars, parser, liveQ, bound, phase, cuser, queue,
                   peer, opened, eudVars, memberVars>>

StampRow(c) ==
    /\ unstamped[c] # {}
    /\ row' = Stamp({m \in unstamped[c] : row[m] # "gone"})
    /\ unstamped' = [unstamped EXCEPT ![c] = {}]
    /\ UNCHANGED <<now, created, rowUser, parser, liveQ, bound, phase, cuser,
                   queue, peer, opened, todo, eudVars, memberVars, written,
                   received>>

(* A write or a commit fails, or a row was deleted under the loop: the
   exception is caught, the rest is not tried again on this connection. *)
BacklogFails(c) ==
    /\ phase[c] = "sending"
    /\ todo[c] \cup unstamped[c] # {}
    /\ DbFails \/ ~peer[c] \/ \E m \in todo[c] : row[m] = "gone"
    /\ todo' = [todo EXCEPT ![c] = {}]
    /\ unstamped' = [unstamped EXCEPT ![c] = {}]
    /\ UNCHANGED <<now, rowVars, parser, liveQ, bound, phase, cuser, queue,
                   peer, opened, eudVars, memberVars, written, received>>

(* The rest of parse_device_info: consume the queue, save the euds row. *)
GoLive(c) ==
    /\ phase[c] = "sending" /\ todo[c] = {} /\ unstamped[c] = {}
    /\ phase' = [phase EXCEPT ![c] = "live"]
    /\ queue' = [queue EXCEPT ![c] = IF @ = "bound" THEN "consumes" ELSE @]
    /\ eudUser' = cuser[c]
    /\ connected' = TRUE
    /\ UNCHANGED <<now, rowVars, parser, liveQ, bound, cuser, peer, opened,
                   todo, unstamped, lastRx, memberVars, written, received>>

(* on_message: the broker hands the message to one consumer and forgets it
   (auto_ack). *)
LiveDeliver(c, m) ==
    /\ queue[c] = "consumes" /\ m \in liveQ
    /\ liveQ' = liveQ \ {m}
    /\ received' = received \cup Reaches(m, c)
    /\ UNCHANGED <<now, rowVars, parser, bound, connVars, eudVars, memberVars,
                   written>>

(* on_control_message: a newer connection of the device announced itself. *)
StepAside(c) ==
    /\ queue[c] = "consumes"
    /\ \E o \in Conns \ {c} : queue[o] = "consumes" /\ opened[o] >= opened[c]
    /\ queue' = [queue EXCEPT ![c] = "aside"]
    /\ UNCHANGED <<now, rowVars, parser, liveQ, bound, phase, cuser, peer,
                   opened, todo, unstamped, eudVars, memberVars, written,
                   received>>

(* handle_cot -> note_rx; at most every LAST_RX_WRITE_INTERVAL, so any receipt
   may go unrecorded. *)
NoteRx(c) ==
    /\ phase[c] = "live" /\ peer[c]
    /\ lastRx' = now
    /\ UNCHANGED <<now, rowVars, parser, liveQ, bound, connVars, eudUser,
                   connected, memberVars, written, received>>

PeerGone(c) ==
    /\ peer[c]
    /\ peer' = [peer EXCEPT ![c] = FALSE]
    /\ UNCHANGED <<now, rowVars, parser, liveQ, bound, phase, cuser, queue,
                   opened, todo, unstamped, eudVars, memberVars, written,
                   received>>

Forget(c) ==
    /\ phase' = [phase EXCEPT ![c] = "closed"]
    /\ queue' = [queue EXCEPT ![c] = "none"]
    /\ peer' = [peer EXCEPT ![c] = FALSE]
    /\ todo' = [todo EXCEPT ![c] = {}]
    /\ unstamped' = [unstamped EXCEPT ![c] = {}]
    /\ UNCHANGED <<now, rowVars, parser, liveQ, cuser, opened, lastRx, eudUser,
                   memberVars, written, received>>

(* close_connection once the dead peer is noticed. *)
CloseConnection(c) ==
    /\ phase[c] = "live" /\ ~peer[c]
    /\ IF queue[c] = "aside" THEN UNCHANGED <<bound, connected>>
       ELSE /\ bound' = IF queue[c] = "none" THEN bound ELSE {}
            /\ connected' = FALSE
    /\ Forget(c)

(* The process of the connection is killed. *)
HandlerDies(c) ==
    /\ Open(c)
    /\ UNCHANGED <<bound, connected>>
    /\ Forget(c)
-----------------------------------------------------------------------------
(* settle_live_deliveries, part of the retention job. *)
Settle ==
    /\ connected /\ lastRx # -1
    /\ Settled(lastRx - UserTimeout) # {}
    /\ row' = Stamp(Settled(lastRx - UserTimeout))
    /\ UNCHANGED <<now, created, rowUser, parser, liveQ, bound, connVars,
                   eudVars, memberVars, written, received>>

(* The retention job removes rows older than the setting. *)
Purge ==
    LET old == {m \in Msgs : /\ row[m] \in {"pending", "delivered"}
                             /\ created[m] < now - Keep} IN
    /\ old # {}
    /\ row' = [m \in Msgs |-> IF m \in old THEN "gone" ELSE row[m]]
    /\ UNCHANGED <<now, created, rowUser, parser, liveQ, bound, connVars,
                   eudVars, memberVars, written, received>>

(* drop_queue: the device's certificate was revoked. *)
DropQueue ==
    /\ \E m \in Msgs : row[m] = "pending"
    /\ row' = [m \in Msgs |-> IF row[m] = "pending" THEN "gone" ELSE row[m]]
    /\ UNCHANGED <<now, created, rowUser, parser, liveQ, bound, connVars,
                   eudVars, memberVars, written, received>>

(* A membership is removed or granted; the binding of the user's devices
   follows (group_policy.unbind_euds, the group API's queue_bind). *)
ChangeMembership(u) ==
    /\ changes < MaxChanges
    /\ changes' = changes + 1
    /\ readers' = IF u \in readers THEN readers \ {u} ELSE readers \cup {u}
    /\ bound' = IF eudUser # u THEN bound
                ELSE IF u \in readers THEN bound \ {"group"}
                ELSE IF bound = {} THEN bound ELSE bound \cup {"group"}
    /\ UNCHANGED <<now, rowVars, parser, liveQ, connVars, eudVars, written,
                   received>>

(* What does not outlast a tick: the routing of a parsed message, the
   identification of a connection, two consumers of one queue.  A consumer
   takes a live message within MaxLag. *)
Prompt ==
    /\ \A m \in Msgs : parser[m] # "queued"
    /\ \A c \in Conns : phase[c] \notin {"identified", "sending"}
    /\ \A c \in Conns : queue[c] = "consumes" =>
          /\ \A o \in Conns : queue[o] = "consumes" => o = c
          /\ \A m \in liveQ : now < created[m] + MaxLag

Tick ==
    /\ now < MaxTime
    /\ Prompt
    /\ now' = now + 1
    /\ UNCHANGED <<rowVars, parser, liveQ, bound, connVars, eudVars, memberVars,
                   written, received>>

Next ==
    \/ \E m \in Msgs : QueueChat(m) \/ RouteChat(m)
    \/ \E c \in Conns :
        \/ \E u \in Accounts, channel \in BOOLEAN : Identify(c, u, channel)
        \/ \E m \in Msgs : WriteRow(c, m) \/ LiveDeliver(c, m)
        \/ StartBacklog(c) \/ StampRow(c) \/ BacklogFails(c) \/ GoLive(c)
        \/ StepAside(c) \/ NoteRx(c) \/ PeerGone(c) \/ CloseConnection(c)
        \/ HandlerDies(c)
    \/ Settle \/ Purge \/ DropQueue
    \/ \E u \in Users : ChangeMembership(u)
    \/ Tick

Spec == Init /\ [][Next]_vars
-----------------------------------------------------------------------------
TypeOK ==
    /\ now \in 0..MaxTime
    /\ row \in [Msgs -> {"none", "pending", "delivered", "gone"}]
    /\ created \in [Msgs -> 0..MaxTime]
    /\ rowUser \in [Msgs -> Accounts]
    /\ parser \in [Msgs -> {"new", "queued", "routed"}]
    /\ liveQ \subseteq Msgs
    /\ bound \subseteq {"dms", "group"}
    /\ phase \in [Conns -> Phases]
    /\ cuser \in [Conns -> Accounts]
    /\ queue \in [Conns -> {"none", "bound", "consumes", "aside"}]
    /\ peer \in [Conns -> BOOLEAN]
    /\ opened \in [Conns -> 0..MaxTime]
    /\ todo \in [Conns -> SUBSET Msgs]
    /\ unstamped \in [Conns -> SUBSET Msgs]
    /\ lastRx \in -1..MaxTime
    /\ eudUser \in Accounts
    /\ connected \in BOOLEAN
    /\ readers \subseteq Users
    /\ changes \in 0..MaxChanges
    /\ written \subseteq Msgs \X Conns
    /\ received \subseteq Msgs \X Accounts

(* deliver_pending and settle_live_deliveries: a row is stamped delivered only
   if its message was written to a connection of the user it is for, reached
   the device live under that user, still waits in the device's queue or was
   too old to be delivered.  The
   last_rx_at evidence "can lag; that only means more messages are
   resent, never fewer". *)
DeliveredIsNotLost ==
    \A m \in Msgs : row[m] = "delivered" =>
        LET mine == IF rowUser[m] = NoUser THEN Accounts ELSE {rowUser[m]} IN
        \/ m \in liveQ
        \/ created[m] < now - Keep
        \/ \E u \in mine : <<m, u>> \in received
        \/ \E c \in Conns : <<m, c>> \in written /\ cuser[c] \in mine

(* parse_device_info, "the offline chat backlog goes out before the live queues
   are consumed, so it reaches the device ahead of anything newer": a live
   message never overtakes an older one that was pending when the connection
   identified itself, unexpired, and that the user may read. *)
BacklogBeforeLive ==
    [][\A c \in Conns, m \in Msgs : LiveDeliver(c, m) /\ peer[c] =>
        \A o \in Msgs :
            /\ row[o] = "pending" /\ created[o] < opened[c]
            /\ created[o] >= opened[c] - Keep
            /\ created[o] < created[m] /\ Entitled(o, cuser[c])
            /\ o \notin liveQ
            => \E x \in Conns : <<o, x>> \in written]_vars

(* deliver_pending: a row is never written once it was stamped, neither by the
   retention job nor by the cut-off, while its connection works through the
   list it read. *)
NeverResentAfterStamp ==
    [][\A c \in Conns, m \in Msgs : WriteRow(c, m) => row[m] = "pending"]_vars

(* deliver_pending: whatever happens to the device's account, its memberships
   and its connections meanwhile, a row is only written to a connection of the
   user the device had when the message was queued. *)
BacklogForItsUser ==
    \A m \in Msgs, c \in Conns :
        <<m, c>> \in written => rowUser[m] \in {NoUser, cuser[c]}
=============================================================================
