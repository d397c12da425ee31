----------------------------- MODULE EudSession -----------------------------
(***************************************************************************)
(* The life of the connections of devices (EUDs) to the streaming server:  *)
(* identification, the supersede protocol between the handler processes of *)
(* one device, the broker bindings and consumers of the device's queue, and *)
(* the row that says whether the device is connected.                       *)
(*                                                                         *)
(* Every connection is a process of its own (ForkingTCPServer) with two     *)
(* threads: the handler thread (recv loop, identification) and the pika     *)
(* ioloop (control and live messages).  Processes share only the broker and *)
(* the database.  A connection is named by its conn_token, so a member of   *)
(* Conns is used once.                                                      *)
(***************************************************************************)
EXTENDS Naturals, FiniteSets

CONSTANTS
    Conns,          \* connections, named by conn_token
    Devices,        \* device uids
    DeviceOf,       \* the device a connection identifies itself as
    TransportOf,    \* the service a connection arrives at
    Relays,         \* connections whose platform is ICU / Meshtastic / DMRCOT
    Memberships,    \* groups in which the (TLS) user has an OUT membership
    Enabled,        \* those of them that are enabled
    MaxRestarts,    \* bound: restarts of a streaming service
    MaxRequests     \* bound: administrator requests to reconnect a device

Anon == "__ANON__"
DmKey == "dms"
MissionKey == "missions"
Transports == {"tcp", "ssl"}

ASSUME ConnAssumption ==
    /\ DeviceOf \in [Conns -> Devices]
    /\ TransportOf \in [Conns -> Transports]
    /\ Relays \subseteq Conns
ASSUME GroupAssumption ==
    /\ Enabled \subseteq Memberships
    /\ {Anon, DmKey, MissionKey} \cap Memberships = {}
ASSUME BoundAssumption == MaxRestarts \in Nat /\ MaxRequests \in Nat

VARIABLES
    pc,          \* handler thread: how far the identification got
    closing,     \* close_connection: how far it got
    chan,        \* the handler's RabbitMQ channel
    sock,        \* the device's end of the socket
    shutdown,    \* EudHandler.shutdown
    superseded,  \* EudHandler.superseded
    consuming,   \* consumer_tags: consumers on the shared uid/callsign queues
    ctlBound,    \* private control queue bound to eud_control by uid
    uid,         \* EudHandler.uid is set
    boundQueues, \* EudHandler.bound_queues is filled
    bindings,    \* broker: <<device, key>> bindings of the device queues
    control,     \* broker: messages in the private control queues
    parserQ,     \* broker: "disconnected" messages queued for cot_parser
    status,      \* euds.last_status
    stale,       \* euds.last_event_time is three minutes old
    restarts, requests

idVars == <<uid, boundQueues>>
chanVars == <<chan, consuming, ctlBound, control>>
closeVars == <<closing, shutdown>>
rowVars == <<status, stale>>
countVars == <<restarts, requests>>
vars == <<pc, idVars, chanVars, closeVars, sock, superseded, bindings,
          parserQ, rowVars, countVars>>

(* The handler thread: "row" is inside parse_device_info, between the broker
   part and the euds row; "dead" is a thread or process that ended. *)
PCs == {"new", "open", "bound", "ctl", "row", "live", "dead"}
Keys == {Anon, DmKey, MissionKey} \cup Memberships
ControlMsgs == [to : Conns, action : {"supersede", "disconnect"},
                except : Conns \cup {"none"}]
ParserMsgs == [conn : Conns, uid : BOOLEAN]

(* Group keys the identification binds, and the ones it records in
   bound_queues: a disabled membership is recorded though never bound. *)
GroupKeys(c) ==
    IF TransportOf[c] = "tcp" \/ Memberships = {} THEN {Anon} ELSE Enabled
RecordedKeys(c) ==
    IF TransportOf[c] = "tcp" \/ Memberships = {} THEN {Anon} ELSE Memberships

QueueKeys(c) == {DmKey, MissionKey} \cup GroupKeys(c)

(* unbind_rabbitmq_queues: the missions key always, then bound_queues. *)
UnbindKeys(c) ==
    {MissionKey} \cup
    (IF boundQueues[c] THEN {DmKey} \cup RecordedKeys(c) ELSE {})

Binding(c, keys) == {DeviceOf[c]} \X keys

-----------------------------------------------------------------------------
Init ==
    /\ pc = [c \in Conns |-> "new"]
    /\ closing = [c \in Conns |-> "no"]
    /\ chan = [c \in Conns |-> "none"]
    /\ sock = [c \in Conns |-> "none"]
    /\ shutdown = [c \in Conns |-> FALSE]
    /\ superseded = [c \in Conns |-> FALSE]
    /\ consuming = [c \in Conns |-> FALSE]
    /\ ctlBound = [c \in Conns |-> FALSE]
    /\ uid = [c \in Conns |-> FALSE]
    /\ boundQueues = [c \in Conns |-> FALSE]
    /\ bindings = {}
    /\ control = {}
    /\ parserQ = {}
    /\ status = [d \in Devices |-> "none"]
    /\ stale = [d \in Devices |-> FALSE]
    /\ restarts = 0
    /\ requests = 0
-----------------------------------------------------------------------------
(* A connection whose process still serves its device. *)
Active(c) == pc[c] \notin {"new", "dead"} /\ ~shutdown[c]

SameDevice(c) == {o \in Conns : DeviceOf[o] = DeviceOf[c]}

(* The channel of c is gone: its consumers are cancelled and its exclusive
   control queue is deleted with the messages in it. *)
DropChannel(c) ==
    /\ chan' = [chan EXCEPT ![c] = IF @ = "open" THEN "closed" ELSE @]
    /\ consuming' = [consuming EXCEPT ![c] = FALSE]
    /\ ctlBound' = [ctlBound EXCEPT ![c] = FALSE]
    /\ control' = {m \in control : m.to # c}

(* setup: the connection is accepted; its channel opens later, on the ioloop. *)
Accept(c) ==
    /\ pc[c] = "new"
    /\ pc' = [pc EXCEPT ![c] = "open"]
    /\ sock' = [sock EXCEPT ![c] = "up"]
    /\ UNCHANGED <<idVars, chanVars, closeVars, superseded, bindings, parserQ,
                   rowVars, countVars>>

ChannelOpen(c) ==
    /\ Active(c)
    /\ chan[c] = "none"
    /\ chan' = [chan EXCEPT ![c] = "open"]
    /\ UNCHANGED <<pc, idVars, consuming, ctlBound, control, closeVars, sock,
                   superseded, bindings, parserQ, rowVars, countVars>>

(* parse_device_info, first part, when the channel is open: declare and bind
   the device's queues, deliver the chat backlog, start consuming. *)
IdentifyWithQueues(c) ==
    /\ pc[c] = "open" /\ Active(c) /\ sock[c] = "up"
    /\ chan[c] = "open" /\ c \notin Relays
    /\ uid' = [uid EXCEPT ![c] = TRUE]
    /\ boundQueues' = [boundQueues EXCEPT ![c] = TRUE]
    /\ bindings' = bindings \cup Binding(c, QueueKeys(c))
    /\ consuming' = [consuming EXCEPT ![c] = TRUE]
    /\ pc' = [pc EXCEPT ![c] = "bound"]
    /\ UNCHANGED <<chan, ctlBound, control, closeVars, sock, superseded,
                   parserQ, rowVars, countVars>>

(* ... and when it is not, or the device only relays: no queue is bound, now
   or later, since parse_device_info never runs again once uid is set. *)
IdentifyWithoutQueues(c) ==
    /\ pc[c] = "open" /\ Active(c) /\ sock[c] = "up"
    /\ chan[c] # "open" \/ c \in Relays
    /\ uid' = [uid EXCEPT ![c] = TRUE]
    /\ pc' = [pc EXCEPT ![c] = "row"]
    /\ UNCHANGED <<boundQueues, chanVars, closeVars, sock, superseded,
                   bindings, parserQ, rowVars, countVars>>

BindControl(c) ==
    /\ pc[c] = "bound" /\ chan[c] = "open"
    /\ ctlBound' = [ctlBound EXCEPT ![c] = TRUE]
    /\ pc' = [pc EXCEPT ![c] = "ctl"]
    /\ UNCHANGED <<idVars, chan, consuming, control, closeVars, sock,
                   superseded, bindings, parserQ, rowVars, countVars>>

(* Publishing to eud_control reaches every control queue bound by the uid,
   the sender's own too. *)
ToDevice(d, action, except) ==
    {[to |-> o, action |-> action, except |-> except] :
        o \in {x \in Conns : DeviceOf[x] = d /\ ctlBound[x]}}

Announce(c) ==
    /\ pc[c] = "ctl" /\ chan[c] = "open"
    /\ control' = control \cup ToDevice(DeviceOf[c], "supersede", c)
    /\ pc' = [pc EXCEPT ![c] = "row"]
    /\ UNCHANGED <<idVars, chan, consuming, ctlBound, closeVars, sock,
                   superseded, bindings, parserQ, rowVars, countVars>>

(* A broker call on a channel that is no longer open raises out of handle():
   the handler thread ends before it saved the row. *)
IdentifyFails(c) ==
    /\ pc[c] \in {"bound", "ctl"} /\ chan[c] # "open"
    /\ pc' = [pc EXCEPT ![c] = "dead"]
    /\ UNCHANGED <<idVars, chanVars, closeVars, sock, superseded, bindings,
                   parserQ, rowVars, countVars>>

(* parse_device_info, second part: the euds row.  It does not look at
   shutdown, so it also runs when the ioloop closed the connection meanwhile. *)
SaveRow(c) ==
    LET d == DeviceOf[c] IN
    /\ pc[c] = "row"
    /\ pc' = [pc EXCEPT ![c] = "live"]
    /\ status' = [status EXCEPT ![d] = "Connected"]
    /\ stale' = [stale EXCEPT ![d] = FALSE]
    /\ UNCHANGED <<idVars, chanVars, closeVars, sock, superseded, bindings,
                   parserQ, countVars>>
-----------------------------------------------------------------------------
(* Mutant: the consumers are not cancelled. *)
SupersedeKeepsConsuming(m) ==
    LET c == m.to IN
    /\ m.action = "supersede"
    /\ control' = control \ {m}
    /\ superseded' = [superseded EXCEPT ![c] = @ \/ m.except # c]
    /\ UNCHANGED <<pc, idVars, chan, consuming, ctlBound, closeVars, sock,
                   bindings, parserQ, rowVars, countVars>>

(* Mutant: "except" is not looked at. *)
SupersedeEveryone(m) ==
    LET c == m.to IN
    /\ m.action = "supersede"
    /\ control' = control \ {m}
    /\ superseded' = [superseded EXCEPT ![c] = TRUE]
    /\ consuming' = [consuming EXCEPT ![c] = FALSE]
    /\ UNCHANGED <<pc, idVars, chan, ctlBound, closeVars, sock, bindings,
                   parserQ, rowVars, countVars>>

(* on_control_message, action "supersede": ignored by the sender itself. *)
HandleSupersede(m) ==
    LET c == m.to IN
    /\ m.action = "supersede"
    /\ control' = control \ {m}
    /\ superseded' = [superseded EXCEPT ![c] = @ \/ m.except # c]
    /\ consuming' = [consuming EXCEPT ![c] = @ /\ m.except = c]
    /\ UNCHANGED <<pc, idVars, chan, ctlBound, closeVars, sock, bindings,
                   parserQ, rowVars, countVars>>

(* Mutant: the handler steps aside and leaves the socket open. *)
HandleDisconnectStepsAside(m) ==
    LET c == m.to IN
    /\ m.action = "disconnect"
    /\ control' = control \ {m}
    /\ superseded' = [superseded EXCEPT ![c] = TRUE]
    /\ consuming' = [consuming EXCEPT ![c] = FALSE]
    /\ UNCHANGED <<pc, idVars, chan, ctlBound, closeVars, sock, bindings,
                   parserQ, rowVars, countVars>>

(* ... and action "disconnect": step aside and shut the socket down. *)
HandleDisconnect(m) ==
    LET c == m.to IN
    /\ m.action = "disconnect"
    /\ control' = control \ {m}
    /\ superseded' = [superseded EXCEPT ![c] = TRUE]
    /\ consuming' = [consuming EXCEPT ![c] = FALSE]
    /\ sock' = [sock EXCEPT ![c] = "gone"]
    /\ UNCHANGED <<pc, idVars, chan, ctlBound, closeVars, bindings, parserQ,
                   rowVars, countVars>>

(* The device's end closes or vanishes. *)
PeerGone(c) ==
    /\ sock[c] = "up"
    /\ sock' = [sock EXCEPT ![c] = "gone"]
    /\ UNCHANGED <<pc, idVars, chanVars, closeVars, superseded, bindings,
                   parserQ, rowVars, countVars>>

(* close_connection is called by the handler thread when recv() ends (the
   keepalive bounds how long that takes), or by the ioloop when a live message
   is a kick or cannot be written. *)
MayClose(c) ==
    /\ closing[c] = "no" /\ Active(c)
    /\ (pc[c] \in {"open", "live"} /\ sock[c] = "gone") \/ consuming[c]

CloseSuperseded(c) ==
    /\ MayClose(c) /\ superseded[c]
    /\ DropChannel(c)
    /\ shutdown' = [shutdown EXCEPT ![c] = TRUE]
    /\ UNCHANGED <<pc, idVars, closing, sock, superseded, bindings, parserQ,
                   rowVars, countVars>>

ClosePublish(c) ==
    /\ MayClose(c) /\ ~superseded[c]
    /\ closing' = [closing EXCEPT ![c] = "published"]
    /\ parserQ' = IF chan[c] = "open"
                  THEN parserQ \cup {[conn |-> c, uid |-> uid[c]]} ELSE parserQ
    /\ UNCHANGED <<pc, idVars, chanVars, shutdown, sock, superseded, bindings,
                   rowVars, countVars>>

CloseUnbind(c) ==
    /\ closing[c] = "published"
    /\ closing' = [closing EXCEPT ![c] = "unbound"]
    /\ bindings' = IF uid[c] /\ chan[c] = "open"
                   THEN bindings \ Binding(c, UnbindKeys(c)) ELSE bindings
    /\ UNCHANGED <<pc, idVars, chanVars, shutdown, sock, superseded, parserQ,
                   rowVars, countVars>>

(* An UPDATE of a row that does not exist changes nothing. *)
MarkDisconnected(d) ==
    status' = [status EXCEPT ![d] = IF @ = "none" THEN @ ELSE "Disconnected"]

CloseStatus(c) ==
    /\ closing[c] = "unbound"
    /\ closing' = [closing EXCEPT ![c] = "done"]
    /\ IF uid[c] THEN MarkDisconnected(DeviceOf[c]) ELSE UNCHANGED status
    /\ DropChannel(c)
    /\ shutdown' = [shutdown EXCEPT ![c] = TRUE]
    /\ sock' = [sock EXCEPT ![c] = "gone"]
    /\ UNCHANGED <<pc, idVars, superseded, bindings, parserQ, stale,
                   countVars>>

(* on_channel_close, the broker closed the channel: shutdown is set, so
   close_connection will do nothing for this connection. *)
ChannelLost(c) ==
    /\ chan[c] = "open"
    /\ DropChannel(c)
    /\ shutdown' = [shutdown EXCEPT ![c] = TRUE]
    /\ UNCHANGED <<pc, idVars, closing, sock, superseded, bindings, parserQ,
                   rowVars, countVars>>

(* The process of a connection is killed. *)
HandlerDies(c) ==
    /\ Active(c)
    /\ DropChannel(c)
    /\ pc' = [pc EXCEPT ![c] = "dead"]
    /\ closing' = [closing EXCEPT ![c] = "no"]
    /\ shutdown' = [shutdown EXCEPT ![c] = TRUE]
    /\ sock' = [sock EXCEPT ![c] = "gone"]
    /\ UNCHANGED <<idVars, superseded, bindings, parserQ, rowVars, countVars>>
-----------------------------------------------------------------------------
(* cot_parser, send_disconnect_cot.  For a connection with a user the code
   calls queue_bind for every enabled group, for an anonymous one
   queue_unbind. *)
ParserDisconnect(m) ==
    LET c == m.conn IN
    /\ m \in parserQ
    /\ parserQ' = parserQ \ {m}
    /\ IF ~m.uid THEN UNCHANGED <<bindings, status, stale>>
       ELSE /\ bindings' = IF TransportOf[c] = "ssl"
                           THEN bindings \cup Binding(c, Enabled)
                           ELSE bindings \ Binding(c, {Anon})
            /\ MarkDisconnected(DeviceOf[c])
            /\ stale' = [stale EXCEPT ![DeviceOf[c]] = FALSE]
    /\ UNCHANGED <<pc, idVars, chanVars, closeVars, sock, superseded,
                   countVars>>

(* The message expires in the queue, or the worker raises and rejects it. *)
ParserDrops(m) ==
    /\ m \in parserQ
    /\ parserQ' = parserQ \ {m}
    /\ UNCHANGED <<pc, idVars, chanVars, closeVars, sock, superseded, bindings,
                   rowVars, countVars>>

(* Three minutes pass since last_event_time was written. *)
GrowStale(d) ==
    /\ status[d] = "Connected" /\ ~stale[d]
    /\ stale' = [stale EXCEPT ![d] = TRUE]
    /\ UNCHANGED <<pc, idVars, chanVars, closeVars, sock, superseded, bindings,
                   parserQ, status, countVars>>

(* Mutant: the job only looks at devices with no binding left. *)
ReconcileUnboundOnly(d) ==
    /\ status[d] = "Connected" /\ stale[d]
    /\ \A k \in Keys : <<d, k>> \notin bindings
    /\ MarkDisconnected(d)
    /\ UNCHANGED <<pc, idVars, chanVars, closeVars, sock, superseded, bindings,
                   parserQ, stale, countVars>>

(* scheduled_jobs.reconcile_eud_status, for one device. *)
Reconcile(d) ==
    /\ status[d] = "Connected" /\ stale[d]
    /\ MarkDisconnected(d)
    /\ UNCHANGED <<pc, idVars, chanVars, closeVars, sock, superseded, bindings,
                   parserQ, stale, countVars>>

(* The service of one transport restarts: the processes of its connections are
   gone, and it marks every connected device disconnected. *)
Restart(t) ==
    LET gone == {c \in Conns : TransportOf[c] = t /\ pc[c] # "new"} IN
    /\ restarts < MaxRestarts
    /\ restarts' = restarts + 1
    /\ pc' = [c \in Conns |-> IF c \in gone THEN "dead" ELSE pc[c]]
    /\ closing' = [c \in Conns |-> IF c \in gone /\ closing[c] # "done"
                                   THEN "no" ELSE closing[c]]
    /\ shutdown' = [c \in Conns |-> shutdown[c] \/ c \in gone]
    /\ sock' = [c \in Conns |-> IF c \in gone THEN "gone" ELSE sock[c]]
    /\ chan' = [c \in Conns |-> IF c \in gone /\ chan[c] = "open"
                                THEN "closed" ELSE chan[c]]
    /\ consuming' = [c \in Conns |-> consuming[c] /\ c \notin gone]
    /\ ctlBound' = [c \in Conns |-> ctlBound[c] /\ c \notin gone]
    /\ control' = {m \in control : m.to \notin gone}
    /\ status' = [d \in Devices |->
                    IF status[d] = "none" THEN "none" ELSE "Disconnected"]
    /\ UNCHANGED <<idVars, superseded, bindings, parserQ, stale,
                   requests>>

(* clear_user_content with queue_if_offline: a device that looks connected is
   asked to reconnect. *)
RequestReconnect(d) ==
    /\ requests < MaxRequests
    /\ status[d] = "Connected"
    /\ requests' = requests + 1
    /\ control' = control \cup ToDevice(d, "disconnect", "none")
    /\ UNCHANGED <<pc, idVars, chan, consuming, ctlBound, closeVars, sock,
                   superseded, bindings, parserQ, rowVars, restarts>>
-----------------------------------------------------------------------------
Thread(c) ==
    \/ ChannelOpen(c) \/ IdentifyWithQueues(c) \/ IdentifyWithoutQueues(c)
    \/ BindControl(c) \/ Announce(c) \/ IdentifyFails(c) \/ SaveRow(c)
Close(c) ==
    CloseSuperseded(c) \/ ClosePublish(c) \/ CloseUnbind(c) \/ CloseStatus(c)
HandleControl(m) == HandleSupersede(m) \/ HandleDisconnect(m)

Next ==
    \/ \E c \in Conns :
        \/ Accept(c) \/ Thread(c) \/ PeerGone(c) \/ Close(c)
        \/ ChannelLost(c) \/ HandlerDies(c)
    \/ \E m \in control : HandleControl(m)
    \/ \E m \in parserQ : ParserDisconnect(m) \/ ParserDrops(m)
    \/ \E d \in Devices : GrowStale(d) \/ Reconcile(d) \/ RequestReconnect(d)
    \/ \E t \in Transports : Restart(t)

Spec == Init /\ [][Next]_vars

(* What the scheduler and the kernel guarantee: the threads of a handler run,
   recv() ends for a peer that is gone (keepalive), a close that started goes
   on, time passes and the reconcile job runs.  Nothing makes a device connect,
   a channel break or a connection with a live peer close. *)
Fairness ==
    /\ \A c \in Conns :
        /\ WF_vars(Thread(c))
        /\ WF_vars((sock[c] = "gone" \/ closing[c] # "no") /\ Close(c))
    /\ \A d \in Devices : WF_vars(GrowStale(d)) /\ WF_vars(Reconcile(d))

FairSpec == Spec /\ Fairness
-----------------------------------------------------------------------------
(* Type correctness, with the bounds on the administrator's actions. *)
TypeOK ==
    /\ pc \in [Conns -> PCs]
    /\ closing \in [Conns -> {"no", "published", "unbound", "done"}]
    /\ chan \in [Conns -> {"none", "open", "closed"}]
    /\ sock \in [Conns -> {"none", "up", "gone"}]
    /\ shutdown \in [Conns -> BOOLEAN]
    /\ superseded \in [Conns -> BOOLEAN]
    /\ consuming \in [Conns -> BOOLEAN]
    /\ ctlBound \in [Conns -> BOOLEAN]
    /\ uid \in [Conns -> BOOLEAN]
    /\ boundQueues \in [Conns -> BOOLEAN]
    /\ bindings \subseteq Devices \X Keys
    /\ control \subseteq ControlMsgs
    /\ parserQ \subseteq ParserMsgs
    /\ status \in [Devices -> {"none", "Connected", "Disconnected"}]
    /\ stale \in [Devices -> BOOLEAN]
    /\ restarts \in 0..MaxRestarts
    /\ requests \in 0..MaxRequests

(* The identification of c has published its supersede message. *)
Announced(c) == boundQueues[c] /\ pc[c] \in {"row", "live", "dead"}

SupersedeInFlight(c) ==
    \E m \in control : m.to = c /\ m.action = "supersede" /\ m.except # c

(* parse_device_info / on_control_message: whatever the order in which two
   handlers of one device bind their control queues and announce themselves,
   both consume the device's shared queue only while a supersede message is
   still on its way to one of them. *)
CompetingConsumersAreTransient ==
    \A c1, c2 \in Conns :
        /\ c1 # c2 /\ DeviceOf[c1] = DeviceOf[c2]
        /\ consuming[c1] /\ pc[c1] \in {"row", "live"}
        /\ consuming[c2] /\ pc[c2] \in {"row", "live"}
        => SupersedeInFlight(c1) \/ SupersedeInFlight(c2)

(* on_control_message: unless an administrator asked for a reconnect, a handler
   only steps aside for another connection of the same device that announced
   itself, never for its own announcement. *)
StepsAsideOnlyForAnother ==
    \A c \in Conns : superseded[c] /\ requests = 0 =>
        \E o \in SameDevice(c) \ {c} : Announced(o)

(* The comments of close_connection, eud_handler.main and
   reconcile_eud_status: however a device's last connection ended (FIN, dead
   peer, killed process, lost channel, forced reconnect), its row does not say
   Connected for ever. *)
GoneDeviceNotConnected ==
    \A d \in Devices :
        <>[](\A c \in Conns : DeviceOf[c] = d => sock[c] # "up")
            => <>[](status[d] # "Connected")
-----------------------------------------------------------------------------
(* What the rest of the server sees of the connections. *)
Link == INSTANCE DeviceLink WITH
    phase <- [c \in Conns |-> IF pc[c] \in {"bound", "ctl", "row"} THEN "open"
                              ELSE pc[c]],
    ctl <- ctlBound,
    leaving <- {c \in Conns : \E m \in control :
                                m.to = c /\ m.action = "disconnect"}

(* EudHandler, cot_parser, the jobs and the restart, as RemoteClear uses them:
   every step of the session is a step of DeviceLink.  A disconnect message
   reaches exactly the control queues bound at that moment and is lost only
   with its channel, a socket never comes back, and a row says Connected only
   because a handler saved it. *)
ImplementsLink == Link!LinkSpec
-----------------------------------------------------------------------------
(* Statements of the repository's comments that the code does not keep. *)

(* parse_device_info: "Any EARLIER handler for this uid ... steps aside": when
   all handlers of a device are connected and announced and every control
   message has been handled, the last one to announce itself still consumes. *)
SomeoneKeepsConsuming ==
    \A d \in Devices :
        LET of == {c \in Conns : DeviceOf[c] = d /\ pc[c] # "new"}
            on == {c \in of : Announced(c) /\ Active(c) /\ closing[c] = "no"}
        IN  of # {} /\ on = of /\ control = {} /\ requests = 0 =>
                \E c \in on : consuming[c]

(* offline_chat: "a device's queue is only bound to those exchanges while it is
   connected (EudHandler binds on connect and unbinds on disconnect)": once
   every connection of a device was closed the normal way and cot_parser heard
   of it, no group or direct-message key is bound. *)
UnboundWhenDisconnected ==
    \A d \in Devices :
        (\A c \in Conns : DeviceOf[c] = d => pc[c] = "new" \/ closing[c] = "done")
        /\ parserQ = {} => \A k \in Keys : <<d, k>> \notin bindings
=============================================================================
