-------------------------- MODULE FederationBridge --------------------------
(***************************************************************************)
(* The federation daemons of several servers (FigFederateClient) and the    *)
(* hub between them.  A device's CoT goes from its server's cot_parser to    *)
(* the daemon, by the daemon's outbound stream to the hub, and back down to  *)
(* every server, the one it came from included.  Two guards per device uid   *)
(* keep it from going round: recently_sent (an echo is not taken for remote  *)
(* traffic) and recently_injected (remote traffic is not handed back).  Each *)
(* is used up by the first event of the uid that meets it, and lapses after  *)
(* ten seconds; here an event is faster than that on its whole way.          *)
(*                                                                         *)
(* What travels is one set of messages, each with the leg of the way it is   *)
(* on: the daemon's threads, the cot_parser workers and the streams run in    *)
(* any order, and no guard depends on the order of different devices.        *)
(***************************************************************************)
EXTENDS Naturals, FiniteSets

CONSTANTS
    Servers,
    NoServer,      \* model value: not sent yet
    Uids,          \* devices
    HomesOf,       \* servers a device is enrolled at
    Cots,          \* events the devices send, each once
    SenderOf,
    Groups,
    Anon,          \* __ANON__
    KeysOf,        \* groups the sender writes to, or recipients of a message
    Spaced,        \* a device waits until its previous event has settled
    MaxBreaks      \* bound: connections, streams and messages that fail

NoKey == "none"

ASSUME BridgeAssumption ==
    /\ NoServer \notin Servers
    /\ HomesOf \in [Uids -> SUBSET Servers]
    /\ SenderOf \in [Cots -> Uids]
    /\ Anon \in Groups
    /\ Groups \cap Uids = {} /\ NoKey \notin Groups \cup Uids
    /\ KeysOf \in [Cots -> (SUBSET Groups) \cup (SUBSET Uids)]
    /\ Spaced \in BOOLEAN
    /\ MaxBreaks \in Nat

VARIABLES
    at,        \* the server an event was sent at
    net,       \* messages on their way
    sent,      \* _recently_sent
    injected,  \* _recently_injected
    known,     \* _known_remote_members
    dmBound,   \* keys of `dms` the fedhub_dms queue is bound to
    ended,     \* outbound streams that ended with their generator in get()
    breaks,
    arrived,   \* history: <<event, server>> taken for remote
    lost,      \* history: <<event, server>> lost with a connection
    swallowed  \* history: <<event, server>> kept away by a guard

guardVars == <<sent, injected>>
dmVars == <<known, dmBound>>
linkVars == <<ended, breaks>>
historyVars == <<arrived, lost, swallowed>>
vars == <<at, net, guardVars, dmVars, linkVars, historyVars>>

Legs == {"device", "injected", "groups", "dms", "out", "in"}
Messages == [srv : Servers, leg : Legs, cot : Cots, key : Groups \cup Uids \cup {NoKey}]

Message(s, leg, c, k) == [srv |-> s, leg |-> leg, cot |-> c, key |-> k]
Uid(m) == SenderOf[m.cot]
Everywhere(c) == {c} \X Servers
Others(c) == {c} \X (Servers \ {at[c]})

(* An event of the device is somewhere on its way. *)
Busy(u) == \E m \in net : Uid(m) = u

Init ==
    /\ at = [c \in Cots |-> NoServer]
    /\ net = {}
    /\ sent = [s \in Servers |-> {}]
    /\ injected = [s \in Servers |-> {}]
    /\ known = [s \in Servers |-> {}]
    /\ dmBound = [s \in Servers |-> {}]
    /\ ended = [s \in Servers |-> 0]
    /\ breaks = 0
    /\ arrived = {} /\ lost = {} /\ swallowed = {}
-----------------------------------------------------------------------------
(* handle_cot of the device's EudHandler queues the event for cot_parser. *)
DeviceSends(c, s) ==
    /\ at[c] = NoServer
    /\ s \in HomesOf[SenderOf[c]]
    /\ Spaced => ~Busy(SenderOf[c])
    /\ at' = [at EXCEPT ![c] = s]
    /\ net' = net \cup {Message(s, "device", c, NoKey)}
    /\ UNCHANGED <<guardVars, dmVars, linkVars, historyVars>>

(* What reaches the daemon's two queues of a publication to `groups` (bound
   by *.OUT) and to `dms` (bound by the keys of the roster). *)
Publish(s, c, keys) ==
    {Message(s, "groups", c, k) : k \in keys \cap Groups} \cup
    {Message(s, "dms", c, k) : k \in keys \cap dmBound[s]}

(* cot_parser.route_cot: target_groups for a federated event, else the
   recipients or the sender's groups. *)
Route(m) ==
    /\ m.leg \in {"device", "injected"}
    /\ net' = (net \ {m}) \cup
                Publish(m.srv, m.cot,
                        IF m.leg = "injected" THEN {m.key} ELSE KeysOf[m.cot])
    /\ UNCHANGED <<at, guardVars, dmVars, linkVars, historyVars>>

(* _outbound_consumer_loop leaves __ANON__ alone. *)
SkipAnon(m) ==
    /\ m.leg = "groups" /\ m.key = Anon
    /\ net' = net \ {m}
    /\ UNCHANGED <<at, guardVars, dmVars, linkVars, historyVars>>

(* _on_outbound_message: the uid was just injected; its guard is used up.  A
   local event the guard was not meant for is kept from the other servers. *)
SkipInjected(m) ==
    /\ m.leg = "groups" /\ m.key # Anon
    /\ Uid(m) \in injected[m.srv]
    /\ injected' = [injected EXCEPT ![m.srv] = @ \ {Uid(m)}]
    /\ net' = net \ {m}
    /\ swallowed' = IF at[m.cot] = m.srv THEN swallowed \cup Others(m.cot)
                    ELSE swallowed
    /\ UNCHANGED <<at, sent, dmVars, linkVars, arrived, lost>>

(* _recently_sent is set, then the event is put on the outbound queue. *)
Queue(m) ==
    /\ sent' = [sent EXCEPT ![m.srv] = @ \cup {Uid(m)}]
    /\ net' = (net \ {m}) \cup {Message(m.srv, "out", m.cot, m.key)}
    /\ UNCHANGED <<at, injected, dmVars, linkVars, historyVars>>

QueueOutbound(m) ==
    /\ m.leg = "groups" /\ m.key # Anon
    /\ Uid(m) \notin injected[m.srv]
    /\ Queue(m)

(* Mutant: a direct message is not marked as sent. *)
QueueDmUnmarked(m) ==
    /\ m.leg = "dms"
    /\ net' = (net \ {m}) \cup {Message(m.srv, "out", m.cot, m.key)}
    /\ UNCHANGED <<at, guardVars, dmVars, linkVars, historyVars>>

(* _on_dm_message looks at no guard. *)
QueueDm(m) == m.leg = "dms" /\ Queue(m)

(* Mutant: the stream is not opened again once it ended. *)
HandToHubOnce(m) ==
    /\ m.leg = "out" /\ ended[m.srv] = 0
    /\ net' = (net \ {m}) \cup {Message(s, "in", m.cot, m.key) : s \in Servers}
    /\ UNCHANGED <<at, guardVars, dmVars, linkVars, historyVars>>

(* The generator of the open stream takes the event; the hub sends it to every
   server, its sender too. *)
HandToHub(m) ==
    /\ m.leg = "out"
    /\ net' = (net \ {m}) \cup {Message(s, "in", m.cot, m.key) : s \in Servers}
    /\ UNCHANGED <<at, guardVars, dmVars, linkVars, historyVars>>

(* The generator of a stream that ended is still blocked in get() and takes the
   event first; nothing reads from it any more. *)
EndedTakes(m) ==
    /\ m.leg = "out" /\ ended[m.srv] > 0
    /\ ended' = [ended EXCEPT ![m.srv] = @ - 1]
    /\ net' = net \ {m}
    /\ lost' = lost \cup Everywhere(m.cot)
    /\ UNCHANGED <<at, guardVars, dmVars, breaks, arrived, swallowed>>
-----------------------------------------------------------------------------
(* Mutant: the guard is read, not popped. *)
SkipEchoKeepsGuard(m) ==
    /\ m.leg = "in"
    /\ Uid(m) \in sent[m.srv]
    /\ net' = net \ {m}
    /\ swallowed' = IF at[m.cot] # m.srv THEN swallowed \cup {<<m.cot, m.srv>>}
                    ELSE swallowed
    /\ UNCHANGED <<at, guardVars, dmVars, linkVars, arrived, lost>>

(* _handle_federated_event: the uid was handed to the hub a moment ago. *)
SkipEcho(m) ==
    /\ m.leg = "in"
    /\ Uid(m) \in sent[m.srv]
    /\ sent' = [sent EXCEPT ![m.srv] = @ \ {Uid(m)}]
    /\ net' = net \ {m}
    /\ swallowed' = IF at[m.cot] # m.srv THEN swallowed \cup {<<m.cot, m.srv>>}
                    ELSE swallowed
    /\ UNCHANGED <<at, injected, dmVars, linkVars, arrived, lost>>

(* ... otherwise its sender is a remote member from now on. *)
Learn(m) ==
    /\ Uid(m) \notin sent[m.srv]
    /\ known' = [known EXCEPT ![m.srv] = @ \cup {Uid(m)}]
    /\ arrived' = arrived \cup {<<m.cot, m.srv>>}

(* Mutant: an event without a guard of its own. *)
InjectUnguarded(m) ==
    /\ m.leg = "in" /\ m.key \in Groups
    /\ Learn(m)
    /\ net' = (net \ {m}) \cup {Message(m.srv, "injected", m.cot, m.key)}
    /\ UNCHANGED <<at, guardVars, dmBound, linkVars, lost, swallowed>>

(* An event of a group is guarded and given to cot_parser.  The row and the
   account of a remote device (_ensure_federated_eud) change nothing here. *)
Inject(m) ==
    /\ m.leg = "in" /\ m.key \in Groups
    /\ Learn(m)
    /\ injected' = [injected EXCEPT ![m.srv] = @ \cup {Uid(m)}]
    /\ net' = (net \ {m}) \cup {Message(m.srv, "injected", m.cot, m.key)}
    /\ UNCHANGED <<at, sent, dmBound, linkVars, lost, swallowed>>

(* _handle_federated_dm publishes to `dms`, where the recipient's queue may be
   bound, and the daemon's own. *)
DeliverDm(m) ==
    /\ m.leg = "in" /\ m.key \in Uids
    /\ Learn(m)
    /\ net' = (net \ {m}) \cup Publish(m.srv, m.cot, {m.key})
    /\ UNCHANGED <<at, guardVars, dmBound, linkVars, lost, swallowed>>

(* One turn of _dm_outbound_loop. *)
BindDms(s) ==
    /\ dmBound[s] # known[s]
    /\ dmBound' = [dmBound EXCEPT ![s] = known[s]]
    /\ UNCHANGED <<at, net, guardVars, known, linkVars, historyVars>>

(* Ten seconds in which no event of the uid was on its way. *)
SentLapses(s, u) ==
    /\ u \in sent[s] /\ ~Busy(u)
    /\ sent' = [sent EXCEPT ![s] = @ \ {u}]
    /\ UNCHANGED <<at, net, injected, dmVars, linkVars, historyVars>>

InjectedLapses(s, u) ==
    /\ u \in injected[s] /\ ~Busy(u)
    /\ injected' = [injected EXCEPT ![s] = @ \ {u}]
    /\ UNCHANGED <<at, net, sent, dmVars, linkVars, historyVars>>
-----------------------------------------------------------------------------
Break == breaks < MaxBreaks /\ breaks' = breaks + 1

(* Whom the loss of a message concerns: what has arrived before is only lost to
   the server it arrived at. *)
Deprived(m) ==
    IF m.leg \in {"in", "injected"} \/ at[m.cot] # m.srv
    THEN {<<m.cot, m.srv>>} ELSE Everywhere(m.cot)

Lose(S) ==
    /\ net' = net \ S
    /\ lost' = lost \cup UNION {Deprived(m) : m \in S}

(* ServerEventStream ends. *)
OutboundEnds(s) ==
    /\ Break
    /\ ended' = [ended EXCEPT ![s] = @ + 1]
    /\ UNCHANGED <<at, net, guardVars, dmVars, historyVars>>

(* ClientEventStream ends, with what the hub had in it. *)
InboundEnds(s) ==
    /\ Break
    /\ Lose({m \in net : m.srv = s /\ m.leg = "in"})
    /\ UNCHANGED <<at, guardVars, dmVars, ended, arrived, swallowed>>

(* A RabbitMQ connection ends: the daemon's exclusive queue goes with it. *)
ConsumerEnds(s) ==
    /\ Break
    /\ Lose({m \in net : m.srv = s /\ m.leg = "groups"})
    /\ UNCHANGED <<at, guardVars, dmVars, ended, arrived, swallowed>>

DmConsumerEnds(s) ==
    /\ Break
    /\ Lose({m \in net : m.srv = s /\ m.leg = "dms"})
    /\ dmBound' = [dmBound EXCEPT ![s] = {}]
    /\ UNCHANGED <<at, guardVars, known, ended, arrived, swallowed>>

(* The worker rejects the event, or it expires in cot_parser's queue. *)
ParserDrops(m) ==
    /\ Break
    /\ m.leg \in {"device", "injected"}
    /\ Lose({m})
    /\ UNCHANGED <<at, guardVars, dmVars, ended, arrived, swallowed>>

(* basic_publish raises out of _handle_federated_event, after the guard was
   set; the loop over the stream is left, with what was in it. *)
InjectFails(m) ==
    /\ Break
    /\ m.leg = "in"
    /\ Learn(m)
    /\ injected' = IF m.key \in Groups
                   THEN [injected EXCEPT ![m.srv] = @ \cup {Uid(m)}] ELSE injected
    /\ Lose({x \in net : x.srv = m.srv /\ x.leg = "in"})
    /\ UNCHANGED <<at, sent, dmBound, ended, swallowed>>
-----------------------------------------------------------------------------
(* A step of one of the threads and processes an event passes. *)
Carry(m) ==
    \/ Route(m)
    \/ SkipAnon(m) \/ SkipInjected(m) \/ QueueOutbound(m) \/ QueueDm(m)
    \/ HandToHub(m)
    \/ SkipEcho(m) \/ Inject(m) \/ DeliverDm(m)

Next ==
    \/ \E c \in Cots, s \in Servers : DeviceSends(c, s)
    \/ \E m \in net :
        Carry(m) \/ EndedTakes(m) \/ ParserDrops(m) \/ InjectFails(m)
    \/ \E s \in Servers :
        \/ BindDms(s)
        \/ OutboundEnds(s) \/ InboundEnds(s) \/ ConsumerEnds(s)
        \/ DmConsumerEnds(s)
        \/ \E u \in Uids : SentLapses(s, u) \/ InjectedLapses(s, u)

Spec == Init /\ [][Next]_vars

(* The threads run, and the loops reconnect after what ends. *)
Fairness ==
    \A c \in Cots, s \in Servers :
        WF_vars(\E m \in net : m.cot = c /\ m.srv = s /\ Carry(m))

FairSpec == Spec /\ Fairness
-----------------------------------------------------------------------------
TypeOK ==
    /\ at \in [Cots -> Servers \cup {NoServer}]
    /\ net \subseteq Messages
    /\ sent \in [Servers -> SUBSET Uids]
    /\ injected \in [Servers -> SUBSET Uids]
    /\ known \in [Servers -> SUBSET Uids]
    /\ dmBound \in [Servers -> SUBSET Uids]
    /\ ended \in [Servers -> 0..breaks]
    /\ breaks \in 0..MaxBreaks
    /\ arrived \subseteq Cots \X Servers
    /\ lost \subseteq Cots \X Servers
    /\ swallowed \subseteq Cots \X Servers

(* _on_outbound_message, "don't hand it straight back": the hub only gets an
   event from the server its device sent it at, whichever threads, streams and
   workers fail or fall behind. *)
NotHandedBack == \A m \in net : m.leg = "out" => at[m.cot] = m.srv

(* _handle_federated_event, "without this, a local device's own position/DM
   traffic gets treated as newly-arrived federated traffic": an event is never
   taken for remote at the server it was sent at. *)
OwnTrafficIsNotRemote == \A c \in Cots : <<c, at[c]>> \notin arrived

(* _recently_sent, "that's still real, current data from the other server ...
   shouldn't be dropped": a guard only keeps a genuine event away when an event
   of the same device was lost before it met that guard. *)
GuardsSwallowOnlyAfterLoss ==
    \A e \in swallowed : \E x \in lost : SenderOf[x[1]] = SenderOf[e[1]]

(* _server_event_loop and _grpc_loop, "reconnecting in 5s": an event of a
   group arrives at every other server, unless a connection lost it or a guard
   left behind by an earlier loss swallowed it. *)
EventsArrive ==
    \A c \in Cots, s \in Servers :
        (at[c] \notin {NoServer, s} /\ KeysOf[c] \cap (Groups \ {Anon}) # {})
            ~> <<c, s>> \in arrived \cup lost \cup swallowed
=============================================================================
