-------------------------- MODULE EudSessionProofs --------------------------
(***************************************************************************)
(* Proofs about EudSession, for any number of connections and devices.      *)
(***************************************************************************)
EXTENDS EudSession, TLAPS

(* EudSession: every state the handlers, the broker and the rows can reach has
   the shape TypeOK describes. *)
THEOREM Typing == Spec => []TypeOK
<1>1. Init => TypeOK
  BY ConnAssumption, BoundAssumption DEF Init, TypeOK, PCs
<1>2. TypeOK /\ [Next]_vars => TypeOK'
  <2> SUFFICES ASSUME TypeOK, [Next]_vars PROVE TypeOK'
    OBVIOUS
  <2> USE ConnAssumption, BoundAssumption, GroupAssumption
  <2>1. ASSUME NEW c \in Conns, Accept(c) PROVE TypeOK'
    BY <2>1 DEF TypeOK, Accept, PCs, idVars, chanVars, closeVars, rowVars, countVars
  <2>2. ASSUME NEW c \in Conns, ChannelOpen(c) PROVE TypeOK'
    BY <2>2 DEF TypeOK, ChannelOpen, idVars, closeVars, rowVars, countVars
  <2>3. ASSUME NEW c \in Conns, IdentifyWithQueues(c) PROVE TypeOK'
    <3>1. Binding(c, QueueKeys(c)) \subseteq Devices \X Keys
      BY DEF Binding, QueueKeys, GroupKeys, Keys
    <3> QED BY <2>3, <3>1 DEF TypeOK, IdentifyWithQueues, PCs, closeVars, rowVars, countVars
  <2>4. ASSUME NEW c \in Conns, IdentifyWithoutQueues(c) PROVE TypeOK'
    BY <2>4 DEF TypeOK, IdentifyWithoutQueues, PCs, chanVars, closeVars, rowVars, countVars
  <2>5. ASSUME NEW c \in Conns, BindControl(c) PROVE TypeOK'
    BY <2>5 DEF TypeOK, BindControl, PCs, idVars, closeVars, rowVars, countVars
  <2>6. ASSUME NEW c \in Conns, Announce(c) PROVE TypeOK'
    <3>1. ToDevice(DeviceOf[c], "supersede", c) \subseteq ControlMsgs
      BY DEF ToDevice, ControlMsgs
    <3> QED BY <2>6, <3>1 DEF TypeOK, Announce, PCs, idVars, closeVars, rowVars, countVars
  <2>7. ASSUME NEW c \in Conns, IdentifyFails(c) PROVE TypeOK'
    BY <2>7 DEF TypeOK, IdentifyFails, PCs, idVars, chanVars, closeVars, rowVars, countVars
  <2>8. ASSUME NEW c \in Conns, SaveRow(c) PROVE TypeOK'
    BY <2>8 DEF TypeOK, SaveRow, PCs, idVars, chanVars, closeVars, countVars
  <2>9. ASSUME NEW c \in Conns, PeerGone(c) PROVE TypeOK'
    BY <2>9 DEF TypeOK, PeerGone, idVars, chanVars, closeVars, rowVars, countVars
  <2>10. ASSUME NEW c \in Conns, CloseSuperseded(c) PROVE TypeOK'
    BY <2>10 DEF TypeOK, CloseSuperseded, DropChannel, idVars, rowVars, countVars
  <2>11. ASSUME NEW c \in Conns, ClosePublish(c) PROVE TypeOK'
    <3>1. [conn |-> c, uid |-> uid[c]] \in ParserMsgs
      BY DEF TypeOK, ParserMsgs
    <3> QED BY <2>11, <3>1 DEF TypeOK, ClosePublish, idVars, chanVars, rowVars, countVars
  <2>12. ASSUME NEW c \in Conns, CloseUnbind(c) PROVE TypeOK'
    BY <2>12 DEF TypeOK, CloseUnbind, idVars, chanVars, rowVars, countVars
  <2>13. ASSUME NEW c \in Conns, CloseStatus(c) PROVE TypeOK'
    BY <2>13 DEF TypeOK, CloseStatus, MarkDisconnected, DropChannel, idVars, countVars
  <2>14. ASSUME NEW c \in Conns, ChannelLost(c) PROVE TypeOK'
    BY <2>14 DEF TypeOK, ChannelLost, DropChannel, idVars, rowVars, countVars
  <2>15. ASSUME NEW c \in Conns, HandlerDies(c) PROVE TypeOK'
    BY <2>15 DEF TypeOK, HandlerDies, DropChannel, PCs, idVars, rowVars, countVars
  <2>16. ASSUME NEW m \in control, HandleSupersede(m) PROVE TypeOK'
    <3>1. m.to \in Conns
      BY DEF TypeOK, ControlMsgs
    <3> QED BY <2>16, <3>1 DEF TypeOK, HandleSupersede, idVars, closeVars, rowVars, countVars
  <2>17. ASSUME NEW m \in control, HandleDisconnect(m) PROVE TypeOK'
    <3>1. m.to \in Conns
      BY DEF TypeOK, ControlMsgs
    <3> QED BY <2>17, <3>1 DEF TypeOK, HandleDisconnect, idVars, closeVars, rowVars, countVars
  <2>18. ASSUME NEW m \in parserQ, ParserDisconnect(m) PROVE TypeOK'
    <3>1. m.conn \in Conns
      BY DEF TypeOK, ParserMsgs
    <3>2. Binding(m.conn, Enabled) \subseteq Devices \X Keys
      BY <3>1 DEF Binding, Keys
    <3>3. bindings' \subseteq Devices \X Keys
      BY <2>18, <3>1, <3>2 DEF TypeOK, ParserDisconnect
    <3>4. /\ status' \in [Devices -> {"none", "Connected", "Disconnected"}]
          /\ stale' \in [Devices -> BOOLEAN]
      BY <2>18, <3>1 DEF TypeOK, ParserDisconnect, MarkDisconnected
    <3> QED BY <2>18, <3>3, <3>4 DEF TypeOK, ParserDisconnect,
                idVars, chanVars, closeVars, countVars
  <2>19. ASSUME NEW m \in parserQ, ParserDrops(m) PROVE TypeOK'
    BY <2>19 DEF TypeOK, ParserDrops, idVars, chanVars, closeVars, rowVars, countVars
  <2>20. ASSUME NEW d \in Devices, GrowStale(d) PROVE TypeOK'
    BY <2>20 DEF TypeOK, GrowStale, idVars, chanVars, closeVars, countVars
  <2>21. ASSUME NEW d \in Devices, Reconcile(d) PROVE TypeOK'
    BY <2>21 DEF TypeOK, Reconcile, MarkDisconnected, idVars, chanVars, closeVars, countVars
  <2>22. ASSUME NEW d \in Devices, RequestReconnect(d) PROVE TypeOK'
    <3>1. ToDevice(d, "disconnect", "none") \subseteq ControlMsgs
      BY DEF ToDevice, ControlMsgs
    <3> QED BY <2>22, <3>1 DEF TypeOK, RequestReconnect, idVars, closeVars, rowVars
  <2>23. ASSUME NEW t \in Transports, Restart(t) PROVE TypeOK'
    BY <2>23 DEF TypeOK, Restart, PCs, idVars
  <2>24. CASE UNCHANGED vars
    BY <2>24 DEF TypeOK, vars, idVars, chanVars, closeVars, rowVars, countVars
  <2> QED
    BY <2>1, <2>2, <2>3, <2>4, <2>5, <2>6, <2>7, <2>8, <2>9, <2>10, <2>11,
       <2>12, <2>13, <2>14, <2>15, <2>16, <2>17, <2>18, <2>19, <2>20, <2>21, <2>22,
       <2>23, <2>24 DEF Next, Thread, Close, HandleControl
<1> QED BY <1>1, <1>2, PTL DEF Spec
-----------------------------------------------------------------------------
(* The strengthening behind CompetingConsumersAreTransient: a handler consumes
   only once it identified itself, and one that got past BindControl has its
   control queue, so that an announcement made now reaches it. *)
ConsumerReachable ==
    \A c \in Conns : consuming[c] =>
        /\ pc[c] \notin {"new", "open"}
        /\ pc[c] \in {"ctl", "row", "live"} => ctlBound[c]

ConsumerInv == ConsumerReachable /\ CompetingConsumersAreTransient

(* What CompetingConsumersAreTransient reads. *)
consumerVars == <<pc, consuming, ctlBound, control>>

(* A step that leaves pc, the consumers and the control queues alone keeps the
   invariant. *)
LEMMA ConsumerFrame ==
    ASSUME ConsumerInv,
           UNCHANGED consumerVars
    PROVE  ConsumerInv'
  BY DEF ConsumerInv, ConsumerReachable, CompetingConsumersAreTransient, SupersedeInFlight,
         consumerVars

(* A step after which a connection no longer consumes, and that touches no
   other connection's control messages, keeps the invariant. *)
LEMMA ConsumerLeaves ==
    ASSUME TypeOK, ConsumerInv,
           NEW G, G \subseteq Conns,
           \A c \in G : ~consuming'[c],
           \A c \in Conns \ G : /\ pc'[c] = pc[c]
                                /\ consuming'[c] => consuming[c]
                                /\ ctlBound'[c] = ctlBound[c],
           \A m \in control : m.to \notin G => m \in control'
    PROVE  ConsumerInv'
<1>1. ConsumerReachable'
  BY DEF ConsumerInv, ConsumerReachable
<1>2. ASSUME NEW a \in Conns, NEW b \in Conns, a # b, DeviceOf[a] = DeviceOf[b],
             consuming'[a], pc'[a] \in {"row", "live"},
             consuming'[b], pc'[b] \in {"row", "live"}
      PROVE  SupersedeInFlight(a)' \/ SupersedeInFlight(b)'
  <2>1. a \notin G /\ b \notin G
    BY <1>2
  <2>2. SupersedeInFlight(a) \/ SupersedeInFlight(b)
    BY <1>2, <2>1 DEF ConsumerInv, CompetingConsumersAreTransient
  <2> QED BY <2>1, <2>2 DEF SupersedeInFlight
<1> QED BY <1>1, <1>2 DEF ConsumerInv, CompetingConsumersAreTransient

(* parse_device_info / on_control_message, for any number of connections: two
   handlers of a device that both announced themselves both consume its queue
   only while a supersede message is on its way to one of them. *)
THEOREM CompetingConsumers == Spec => []CompetingConsumersAreTransient
<1>1. Init => ConsumerInv
  BY DEF Init, ConsumerInv, ConsumerReachable, CompetingConsumersAreTransient
<1>2. TypeOK /\ ConsumerInv /\ [Next]_vars => ConsumerInv'
  <2> SUFFICES ASSUME TypeOK, ConsumerInv, [Next]_vars PROVE ConsumerInv'
    OBVIOUS
  <2>2. ASSUME NEW c \in Conns,
               \/ ChannelOpen(c) \/ PeerGone(c)
               \/ ClosePublish(c) \/ CloseUnbind(c)
        PROVE  ConsumerInv'
    <3>1. UNCHANGED consumerVars
      BY <2>2 DEF ChannelOpen, PeerGone, ClosePublish, CloseUnbind,
                  consumerVars, chanVars
    <3> QED BY <3>1, ConsumerFrame
  <2>3. ASSUME NEW c \in Conns,
               \/ CloseSuperseded(c) \/ CloseStatus(c) \/ ChannelLost(c)
               \/ HandlerDies(c)
        PROVE  ConsumerInv'
    <3>1. /\ ~consuming'[c]
          /\ \A o \in Conns \ {c} : /\ pc'[o] = pc[o]
                                    /\ consuming'[o] => consuming[o]
                                    /\ ctlBound'[o] = ctlBound[o]
          /\ \A m \in control : m.to \notin {c} => m \in control'
      BY <2>3 DEF CloseSuperseded, CloseStatus, ChannelLost, HandlerDies,
                  DropChannel, TypeOK
    <3> QED BY <3>1, ConsumerLeaves
  <2>4. ASSUME NEW t \in Transports, Restart(t) PROVE ConsumerInv'
    <3> DEFINE G == {c \in Conns : TransportOf[c] = t /\ pc[c] # "new"}
    <3>1. /\ G \subseteq Conns
          /\ \A c \in G : ~consuming'[c]
          /\ \A o \in Conns \ G : /\ pc'[o] = pc[o]
                                  /\ consuming'[o] => consuming[o]
                                  /\ ctlBound'[o] = ctlBound[o]
          /\ \A m \in control : m.to \notin G => m \in control'
      BY <2>4 DEF Restart, TypeOK
    <3> HIDE DEF G
    <3> QED BY <3>1, ConsumerLeaves
  <2>5. ASSUME NEW m \in control, HandleControl(m) PROVE ConsumerInv'
    <3>1. m.to \in Conns
      BY DEF TypeOK, ControlMsgs
    <3>2. CASE m.action = "supersede" /\ m.except = m.to
      <4>1. UNCHANGED <<pc, consuming, ctlBound>> /\ control' = control \ {m}
        BY <2>5, <3>1, <3>2 DEF HandleControl, HandleSupersede, HandleDisconnect, TypeOK
      <4>2. ConsumerReachable'
        BY <4>1 DEF ConsumerInv, ConsumerReachable
      <4>3. \A c \in Conns : SupersedeInFlight(c) => SupersedeInFlight(c)'
        BY <3>2, <4>1 DEF SupersedeInFlight
      <4> QED BY <4>1, <4>2, <4>3 DEF ConsumerInv, CompetingConsumersAreTransient
    <3>3. CASE ~(m.action = "supersede" /\ m.except = m.to)
      <4>1. /\ ~consuming'[m.to]
            /\ \A o \in Conns \ {m.to} : /\ pc'[o] = pc[o]
                                         /\ consuming'[o] => consuming[o]
                                         /\ ctlBound'[o] = ctlBound[o]
            /\ \A x \in control : x.to \notin {m.to} => x \in control'
        BY <2>5, <3>1, <3>3 DEF HandleControl, HandleSupersede, HandleDisconnect, TypeOK
      <4> QED BY <3>1, <4>1, ConsumerLeaves
    <3> QED BY <3>2, <3>3
  <2>6. ASSUME NEW d \in Devices, RequestReconnect(d) PROVE ConsumerInv'
    <3>1. UNCHANGED <<pc, consuming, ctlBound>> /\ control \subseteq control'
      BY <2>6 DEF RequestReconnect
    <3> QED BY <3>1 DEF ConsumerInv, ConsumerReachable, CompetingConsumersAreTransient,
                        SupersedeInFlight
  <2>7. ASSUME NEW c \in Conns,
               Accept(c) \/ IdentifyWithoutQueues(c) \/ IdentifyFails(c) \/ SaveRow(c)
        PROVE  ConsumerInv'
    <3>1. UNCHANGED <<consuming, ctlBound, control>>
      BY <2>7 DEF Accept, IdentifyWithoutQueues, IdentifyFails, SaveRow, chanVars
    <3>2. /\ \A o \in Conns \ {c} : pc'[o] = pc[o]
          /\ \/ pc[c] \in {"new", "open"}
             \/ pc[c] \in {"bound", "ctl"} /\ pc'[c] = "dead"
             \/ pc[c] = "row" /\ pc'[c] = "live"
      BY <2>7 DEF Accept, IdentifyWithoutQueues, IdentifyFails, SaveRow, TypeOK
    <3> QED BY <3>1, <3>2 DEF ConsumerInv, ConsumerReachable, CompetingConsumersAreTransient,
                              SupersedeInFlight
  <2>8. ASSUME NEW c \in Conns, IdentifyWithQueues(c) PROVE ConsumerInv'
    <3>1. /\ UNCHANGED <<ctlBound, control>>
          /\ pc'[c] = "bound"
          /\ \A o \in Conns \ {c} : pc'[o] = pc[o] /\ consuming'[o] = consuming[o]
      BY <2>8 DEF IdentifyWithQueues, TypeOK
    <3> QED BY <3>1 DEF ConsumerInv, ConsumerReachable, CompetingConsumersAreTransient,
                        SupersedeInFlight
  <2>9. ASSUME NEW c \in Conns, BindControl(c) PROVE ConsumerInv'
    <3>1. /\ UNCHANGED <<consuming, control>>
          /\ pc'[c] = "ctl" /\ ctlBound'[c]
          /\ \A o \in Conns \ {c} : pc'[o] = pc[o] /\ ctlBound'[o] = ctlBound[o]
      BY <2>9 DEF BindControl, TypeOK
    <3> QED BY <3>1 DEF ConsumerInv, ConsumerReachable, CompetingConsumersAreTransient,
                        SupersedeInFlight
  <2>10. ASSUME NEW c \in Conns, Announce(c) PROVE ConsumerInv'
    <3>1. /\ UNCHANGED <<consuming, ctlBound>>
          /\ control \subseteq control'
          /\ pc[c] = "ctl" /\ pc'[c] = "row"
          /\ \A o \in Conns \ {c} : pc'[o] = pc[o]
      BY <2>10 DEF Announce, TypeOK
    <3>2. ConsumerReachable'
      BY <3>1 DEF ConsumerInv, ConsumerReachable
    <3>3. \A o \in Conns : SupersedeInFlight(o) => SupersedeInFlight(o)'
      BY <3>1 DEF SupersedeInFlight
    <3>4. ASSUME NEW o \in Conns \ {c}, DeviceOf[o] = DeviceOf[c],
                 consuming[o], pc[o] \in {"row", "live"}
          PROVE  SupersedeInFlight(o)'
      <4>1. ctlBound[o]
        BY <3>4 DEF ConsumerInv, ConsumerReachable
      <4> DEFINE msg == [to |-> o, action |-> "supersede", except |-> c]
      <4>2. msg \in control'
        BY <2>10, <3>4, <4>1 DEF Announce, ToDevice
      <4> QED BY <4>2 DEF SupersedeInFlight
    <3> QED BY <3>1, <3>2, <3>3, <3>4 DEF ConsumerInv, CompetingConsumersAreTransient
  <2>11. ASSUME NEW m \in parserQ, ParserDisconnect(m) \/ ParserDrops(m) PROVE ConsumerInv'
    <3>1. UNCHANGED consumerVars
      BY <2>11 DEF ParserDisconnect, ParserDrops, consumerVars, chanVars
    <3> QED BY <3>1, ConsumerFrame
  <2>12. ASSUME NEW d \in Devices, GrowStale(d) \/ Reconcile(d) PROVE ConsumerInv'
    <3>1. UNCHANGED consumerVars
      BY <2>12 DEF GrowStale, Reconcile, consumerVars, chanVars
    <3> QED BY <3>1, ConsumerFrame
  <2>13. CASE UNCHANGED vars
    <3>1. UNCHANGED consumerVars
      BY <2>13 DEF vars, consumerVars, chanVars
    <3> QED BY <3>1, ConsumerFrame
  <2>14. CASE Next
    <3>1. CASE \E c \in Conns :
                 \/ Accept(c) \/ Thread(c) \/ PeerGone(c)
                 \/ Close(c) \/ ChannelLost(c) \/ HandlerDies(c)
      BY <3>1, <2>2, <2>3, <2>7, <2>8, <2>9, <2>10 DEF Thread, Close
    <3> QED BY <3>1, <2>14, <2>4, <2>5, <2>6, <2>11, <2>12 DEF Next
  <2> QED BY <2>13, <2>14
<1>3. ConsumerInv => CompetingConsumersAreTransient
  BY DEF ConsumerInv
<1> QED BY <1>1, <1>2, <1>3, Typing, PTL DEF Spec
-----------------------------------------------------------------------------
(* The strengthening behind StepsAsideOnlyForAnother: every message in a control
   queue has a sender that the connection should step aside for. *)
ControlHonest ==
    \A m \in control :
        /\ m.action = "disconnect" => requests # 0
        /\ m.action = "supersede" =>
             /\ m.except \in Conns /\ Announced(m.except)
             /\ DeviceOf[m.except] = DeviceOf[m.to]

(* bound_queues is filled before the control queue is bound. *)
BoundRecorded ==
    \A c \in Conns : pc[c] \in {"bound", "ctl"} => boundQueues[c]

AsideInv == ControlHonest /\ BoundRecorded /\ StepsAsideOnlyForAnother

(* What every step keeps of the identifications. *)
Stable ==
    BoundRecorded' /\ \A o \in Conns : Announced(o) => Announced(o)'

(* An announcement is never taken back, and bound_queues never emptied. *)
LEMMA AnnouncedStable ==
    ASSUME TypeOK, BoundRecorded, [Next]_vars
    PROVE  Stable
<1> USE DEF TypeOK, Announced, BoundRecorded, Stable
<1>1. ASSUME NEW c \in Conns,
             Accept(c) \/ Thread(c) \/ PeerGone(c) \/ Close(c)
             \/ ChannelLost(c) \/ HandlerDies(c)
      PROVE  Stable
  <2>1. CASE Accept(c) \/ PeerGone(c) \/ ChannelLost(c)
             \/ HandlerDies(c)
    BY <2>1 DEF Accept, PeerGone, ChannelLost, HandlerDies, Active,
                idVars
  <2>2. CASE Thread(c)
    BY <2>2 DEF Thread, ChannelOpen, IdentifyWithQueues, IdentifyWithoutQueues,
                BindControl, Announce, IdentifyFails, SaveRow, idVars
  <2>3. CASE Close(c)
    BY <2>3 DEF Close, CloseSuperseded, ClosePublish, CloseUnbind, CloseStatus,
                idVars
  <2> QED BY <1>1, <2>1, <2>2, <2>3
<1>2. ASSUME NEW m \in control, HandleControl(m)
      PROVE  Stable
  BY <1>2 DEF HandleControl, HandleSupersede, HandleDisconnect, idVars
<1>3. ASSUME NEW m \in parserQ, ParserDisconnect(m) \/ ParserDrops(m)
      PROVE  Stable
  BY <1>3 DEF ParserDisconnect, ParserDrops, idVars
<1>4. ASSUME NEW d \in Devices, GrowStale(d) \/ Reconcile(d) \/ RequestReconnect(d)
      PROVE  Stable
  BY <1>4 DEF GrowStale, Reconcile, RequestReconnect, idVars
<1>5. ASSUME NEW t \in Transports, Restart(t)
      PROVE  Stable
  BY <1>5 DEF Restart, idVars
<1>6. CASE UNCHANGED vars
  BY <1>6 DEF vars, idVars
<1> QED BY <1>1, <1>2, <1>3, <1>4, <1>5, <1>6 DEF Next

(* A step that adds no control message, supersedes nobody and takes no request
   back keeps the invariant. *)
LEMMA AsideFrame ==
    ASSUME TypeOK, AsideInv, [Next]_vars, superseded' = superseded,
           control' \subseteq control, requests' = requests
    PROVE  AsideInv'
<1>1. BoundRecorded' /\ \A o \in Conns : Announced(o) => Announced(o)'
  BY AnnouncedStable DEF Stable, AsideInv
<1>2. ControlHonest'
  BY <1>1 DEF AsideInv, ControlHonest
<1>3. StepsAsideOnlyForAnother'
  BY <1>1 DEF AsideInv, StepsAsideOnlyForAnother, SameDevice
<1> QED BY <1>1, <1>2, <1>3 DEF AsideInv

(* on_control_message, for any number of connections: without an
   administrator's request a handler steps aside only for another connection
   of the same device that announced itself. *)
THEOREM StepsAside == Spec => []StepsAsideOnlyForAnother
<1>1. Init => AsideInv
  BY DEF Init, AsideInv, ControlHonest, BoundRecorded, StepsAsideOnlyForAnother
<1>2. TypeOK /\ TypeOK' /\ AsideInv /\ [Next]_vars => AsideInv'
  <2> SUFFICES ASSUME TypeOK, TypeOK', AsideInv, [Next]_vars PROVE AsideInv'
    OBVIOUS
  <2>0. BoundRecorded' /\ \A o \in Conns : Announced(o) => Announced(o)'
    BY AnnouncedStable DEF Stable, AsideInv
  <2>1. ASSUME NEW c \in Conns,
               Accept(c) \/ PeerGone(c) \/ Close(c)
               \/ ChannelLost(c) \/ HandlerDies(c)
        PROVE  AsideInv'
    <3>1. /\ superseded' = superseded /\ requests' = requests
          /\ control' \subseteq control
      BY <2>1 DEF Accept, PeerGone, Close, CloseSuperseded,
                  ClosePublish, CloseUnbind, CloseStatus, ChannelLost,
                  HandlerDies, DropChannel, chanVars, countVars
    <3> QED BY <3>1, AsideFrame
  <2>2. ASSUME NEW c \in Conns,
               ChannelOpen(c) \/ IdentifyWithQueues(c) \/ IdentifyWithoutQueues(c)
               \/ BindControl(c) \/ IdentifyFails(c) \/ SaveRow(c)
        PROVE  AsideInv'
    <3>1. /\ superseded' = superseded /\ requests' = requests
          /\ control' \subseteq control
      BY <2>2 DEF ChannelOpen, IdentifyWithQueues, IdentifyWithoutQueues,
                  BindControl, IdentifyFails, SaveRow, chanVars, countVars
    <3> QED BY <3>1, AsideFrame
  <2>3. ASSUME NEW c \in Conns, Announce(c) PROVE AsideInv'
    <3>1. /\ superseded' = superseded /\ requests' = requests
          /\ control' = control \cup ToDevice(DeviceOf[c], "supersede", c)
      BY <2>3 DEF Announce, countVars
    <3>2. StepsAsideOnlyForAnother'
      BY <2>0, <3>1 DEF AsideInv, StepsAsideOnlyForAnother, SameDevice
    <3>3. Announced(c)'
      BY <2>3 DEF Announce, Announced, AsideInv, BoundRecorded, TypeOK, idVars
    <3>4. \A m \in ToDevice(DeviceOf[c], "supersede", c) :
            /\ m.action = "supersede" /\ m.except = c
            /\ DeviceOf[m.to] = DeviceOf[c]
      BY DEF ToDevice
    <3>5. ControlHonest'
      BY <2>0, <3>1, <3>3, <3>4 DEF AsideInv, ControlHonest
    <3> QED BY <2>0, <3>2, <3>5 DEF AsideInv
  <2>4. ASSUME NEW m \in control, HandleControl(m) PROVE AsideInv'
    <3>1. m.to \in Conns
      BY DEF TypeOK, ControlMsgs
    <3>2. control' \subseteq control /\ requests' = requests
      BY <2>4 DEF HandleControl, HandleSupersede, HandleDisconnect, countVars
    <3>3. ControlHonest'
      BY <2>0, <3>2 DEF AsideInv, ControlHonest
    <3>4. ASSUME NEW c \in Conns, superseded'[c], requests' = 0
          PROVE  \E o \in SameDevice(c) \ {c} : Announced(o)'
      <4>1. CASE superseded[c]
        BY <2>0, <3>2, <3>4, <4>1 DEF AsideInv, StepsAsideOnlyForAnother, SameDevice
      <4>2. CASE ~superseded[c]
        <5>1. m.action = "supersede" /\ m.to = c /\ m.except # c
          BY <2>4, <3>1, <3>2, <3>4, <4>2 DEF HandleControl, HandleSupersede,
             HandleDisconnect, AsideInv, ControlHonest, TypeOK
        <5>2. m.except \in SameDevice(c) \ {c} /\ Announced(m.except)'
          BY <2>0, <5>1 DEF AsideInv, ControlHonest, SameDevice
        <5> QED BY <5>2
      <4> QED BY <4>1, <4>2
    <3>5. StepsAsideOnlyForAnother'
      BY <3>4 DEF StepsAsideOnlyForAnother, SameDevice
    <3> QED BY <2>0, <3>3, <3>5 DEF AsideInv
  <2>5. ASSUME NEW m \in parserQ, ParserDisconnect(m) \/ ParserDrops(m)
        PROVE  AsideInv'
    <3>1. superseded' = superseded /\ control' = control /\ requests' = requests
      BY <2>5 DEF ParserDisconnect, ParserDrops, chanVars, countVars
    <3> QED BY <3>1, AsideFrame
  <2>6. ASSUME NEW d \in Devices, GrowStale(d) \/ Reconcile(d) PROVE AsideInv'
    <3>1. superseded' = superseded /\ control' = control /\ requests' = requests
      BY <2>6 DEF GrowStale, Reconcile, chanVars, countVars
    <3> QED BY <3>1, AsideFrame
  <2>7. ASSUME NEW d \in Devices, RequestReconnect(d) PROVE AsideInv'
    <3>1. requests' # 0
      BY <2>7, BoundAssumption DEF RequestReconnect, TypeOK
    <3>2. \A m \in ToDevice(d, "disconnect", "none") : m.action # "supersede"
      BY DEF ToDevice
    <3>3. ControlHonest'
      BY <2>0, <2>7, <3>1, <3>2 DEF RequestReconnect, AsideInv, ControlHonest
    <3> QED BY <2>0, <3>1, <3>3 DEF AsideInv, StepsAsideOnlyForAnother
  <2>8. ASSUME NEW t \in Transports, Restart(t) PROVE AsideInv'
    <3>1. /\ superseded' = superseded /\ requests' = requests
          /\ control' \subseteq control
      BY <2>8 DEF Restart
    <3> QED BY <3>1, AsideFrame
  <2>9. CASE UNCHANGED vars
    <3>1. superseded' = superseded /\ control' = control /\ requests' = requests
      BY <2>9 DEF vars, chanVars, countVars
    <3> QED BY <3>1, AsideFrame
  <2> QED BY <2>1, <2>2, <2>3, <2>4, <2>5, <2>6, <2>7, <2>8, <2>9 DEF Next, Thread
<1>3. AsideInv => StepsAsideOnlyForAnother
  BY DEF AsideInv
<1> QED BY <1>1, <1>2, <1>3, Typing, PTL DEF Spec

-----------------------------------------------------------------------------
(* What the refinement of DeviceLink rests on: only an open channel has a control
   queue, a connection that was not accepted has none, and a connection has at
   most one disconnect message. *)
ControlNeedsChannel ==
    \A c \in Conns : chan[c] # "open" =>
        ~ctlBound[c] /\ \A m \in control : m.to # c
NothingBeforeAccept == \A c \in Conns : pc[c] = "new" => chan[c] = "none" /\ closing[c] = "no"
DisconnectsAlike == \A m \in control : m.action = "disconnect" => m.except = "none"
LinkInv == ControlNeedsChannel /\ NothingBeforeAccept /\ DisconnectsAlike

(* A channel that is dropped takes its control queue along. *)
LEMMA LinkInvDrop ==
    ASSUME TypeOK, LinkInv, NEW c \in Conns, DropChannel(c), pc[c] # "new" \/ chan[c] = "open",
           \A o \in Conns : pc'[o] = "new" => pc[o] = "new" /\ (o # c => closing'[o] = closing[o])
    PROVE  LinkInv'
<1>1. /\ \A o \in Conns : o # c => chan'[o] = chan[o] /\ ctlBound'[o] = ctlBound[o]
      /\ ~ctlBound'[c] /\ chan'[c] # "open"
      /\ control' = {m \in control : m.to # c}
  BY DEF DropChannel, TypeOK
<1>2. pc[c] # "new"
  BY DEF LinkInv, NothingBeforeAccept
<1> QED
  BY <1>1, <1>2 DEF LinkInv, ControlNeedsChannel, NothingBeforeAccept, DisconnectsAlike

LEMMA LinkInvFrame ==
    ASSUME LinkInv, UNCHANGED <<chan, ctlBound, control>>,
           \A o \in Conns : pc'[o] = "new" => pc[o] = "new" /\ closing'[o] = closing[o]
    PROVE  LinkInv'
BY DEF LinkInv, ControlNeedsChannel, NothingBeforeAccept, DisconnectsAlike

(* Messages only go to control queues that are bound. *)
LEMMA LinkInvTells ==
    ASSUME TypeOK, LinkInv, NEW d, NEW action, NEW x, action = "disconnect" => x = "none",
           control' = control \cup ToDevice(d, action, x), UNCHANGED <<chan, ctlBound, closing>>,
           \A o \in Conns : pc'[o] = "new" => pc[o] = "new"
    PROVE  LinkInv'
<1>1. \A m \in ToDevice(d, action, x) : m.to \in Conns /\ ctlBound[m.to] /\ m.action = action /\ m.except = x
  BY DEF ToDevice
<1> QED
  BY <1>1 DEF LinkInv, ControlNeedsChannel, NothingBeforeAccept, DisconnectsAlike

LEMMA LinkInvStep == TypeOK /\ LinkInv /\ [Next]_vars => LinkInv'
<1> SUFFICES ASSUME TypeOK, LinkInv, [Next]_vars PROVE LinkInv'
  OBVIOUS
<1>1. ASSUME NEW c \in Conns,
             Accept(c) \/ IdentifyWithQueues(c) \/ IdentifyWithoutQueues(c) \/ IdentifyFails(c) \/ SaveRow(c)
             \/ PeerGone(c)
      PROVE  LinkInv'
  <2>1. UNCHANGED <<chan, ctlBound, control, closing>> /\ \A o \in Conns : pc'[o] = "new" => pc[o] = "new"
    BY <1>1 DEF Accept, IdentifyWithQueues, IdentifyWithoutQueues, IdentifyFails, SaveRow, PeerGone, TypeOK,
       chanVars, closeVars
  <2> QED
    BY <2>1, LinkInvFrame
<1>2. ASSUME NEW c \in Conns, ChannelOpen(c) PROVE LinkInv'
  <2>1. /\ pc[c] # "new" /\ chan[c] = "none" /\ chan' = [chan EXCEPT ![c] = "open"]
        /\ UNCHANGED <<ctlBound, control, closing, pc>>
    BY <1>2 DEF ChannelOpen, Active, closeVars
  <2> QED
    BY <2>1 DEF LinkInv, ControlNeedsChannel, NothingBeforeAccept, DisconnectsAlike, TypeOK
<1>3. ASSUME NEW c \in Conns, BindControl(c) PROVE LinkInv'
  <2>1. /\ chan[c] = "open" /\ ctlBound' = [ctlBound EXCEPT ![c] = TRUE]
        /\ pc[c] = "bound" /\ pc' = [pc EXCEPT ![c] = "ctl"]
        /\ UNCHANGED <<chan, control, closing>>
    BY <1>3 DEF BindControl, closeVars
  <2> QED
    BY <2>1 DEF LinkInv, ControlNeedsChannel, NothingBeforeAccept, DisconnectsAlike, TypeOK
<1>4. ASSUME NEW c \in Conns, Announce(c) PROVE LinkInv'
  <2>1. /\ control' = control \cup ToDevice(DeviceOf[c], "supersede", c)
        /\ UNCHANGED <<chan, ctlBound, closing>> /\ \A o \in Conns : pc'[o] = "new" => pc[o] = "new"
    BY <1>4 DEF Announce, closeVars, TypeOK
  <2> QED
    BY <2>1, LinkInvTells
<1>5. ASSUME NEW d \in Devices, RequestReconnect(d) PROVE LinkInv'
  <2>1. /\ control' = control \cup ToDevice(d, "disconnect", "none")
        /\ UNCHANGED <<chan, ctlBound, closing, pc>>
    BY <1>5 DEF RequestReconnect, closeVars
  <2> QED
    BY <2>1, LinkInvTells
<1>6. ASSUME NEW c \in Conns, CloseSuperseded(c) \/ CloseStatus(c) \/ ChannelLost(c) \/ HandlerDies(c)
      PROVE  LinkInv'
  <2>1. /\ DropChannel(c) /\ \A o \in Conns : o # c => closing'[o] = closing[o]
        /\ \A o \in Conns : pc'[o] = "new" => pc[o] = "new"
    BY <1>6 DEF CloseSuperseded, CloseStatus, ChannelLost, HandlerDies, TypeOK
  <2>2. pc[c] # "new" \/ chan[c] = "open"
    BY <1>6 DEF CloseSuperseded, MayClose, CloseStatus, ChannelLost, HandlerDies, Active, LinkInv, NothingBeforeAccept
  <2> QED
    BY <2>1, <2>2, LinkInvDrop
<1>7. ASSUME NEW c \in Conns, ClosePublish(c) \/ CloseUnbind(c) PROVE LinkInv'
  <2>1. /\ pc' = pc /\ \A o \in Conns : o # c => closing'[o] = closing[o]
        /\ pc[c] # "new" /\ UNCHANGED <<chan, ctlBound, control>>
    BY <1>7 DEF ClosePublish, MayClose, CloseUnbind, Active, LinkInv, NothingBeforeAccept, TypeOK, chanVars
  <2> QED
    BY <2>1, LinkInvFrame
<1>8. ASSUME NEW m \in control, HandleControl(m) PROVE LinkInv'
  <2>1. UNCHANGED <<chan, ctlBound, closing, pc>> /\ control' \subseteq control
    BY <1>8 DEF HandleControl, HandleSupersede, HandleDisconnect, closeVars
  <2> QED
    BY <2>1 DEF LinkInv, ControlNeedsChannel, NothingBeforeAccept, DisconnectsAlike
<1>9. ASSUME NEW t \in Transports, Restart(t) PROVE LinkInv'
  <2> DEFINE gone == {c \in Conns : TransportOf[c] = t /\ pc[c] # "new"}
  <2>1. \A c \in Conns : c \in gone =>
          pc'[c] = "dead" /\ chan'[c] # "open" /\ ~ctlBound'[c]
    BY <1>9 DEF Restart, TypeOK
  <2>2. \A c \in Conns : c \notin gone =>
          pc'[c] = pc[c] /\ chan'[c] = chan[c] /\ (ctlBound'[c] <=> ctlBound[c]) /\ closing'[c] = closing[c]
    BY <1>9 DEF Restart, TypeOK
  <2>3. control' = {m \in control : m.to \notin gone}
    BY <1>9 DEF Restart
  <2> HIDE DEF gone
  <2> QED
    BY <2>1, <2>2, <2>3 DEF LinkInv, ControlNeedsChannel, NothingBeforeAccept, DisconnectsAlike
<1>10. ASSUME NEW m \in parserQ, ParserDisconnect(m) \/ ParserDrops(m) PROVE LinkInv'
  <2>1. UNCHANGED <<chan, ctlBound, control, closing, pc>>
    BY <1>10 DEF ParserDisconnect, ParserDrops, chanVars, closeVars
  <2> QED
    BY <2>1, LinkInvFrame
<1>11. ASSUME NEW d \in Devices, GrowStale(d) \/ Reconcile(d) PROVE LinkInv'
  <2>1. UNCHANGED <<chan, ctlBound, control, closing, pc>>
    BY <1>11 DEF GrowStale, Reconcile, chanVars, closeVars
  <2> QED
    BY <2>1, LinkInvFrame
<1>12. CASE UNCHANGED vars
  <2>1. UNCHANGED <<chan, ctlBound, control, closing, pc>>
    BY <1>12 DEF vars, chanVars, closeVars
  <2> QED
    BY <2>1, LinkInvFrame
<1> QED
  BY <1>1, <1>2, <1>3, <1>4, <1>5, <1>6, <1>7, <1>8, <1>9, <1>10, <1>11, <1>12 DEF Next, Thread, Close

(* The state of DeviceLink that a state of the sessions stands for. *)
LinkPhase == [c \in Conns |-> IF pc[c] \in {"bound", "ctl", "row"} THEN "open" ELSE pc[c]]
Leaving == {c \in Conns : \E m \in control : m.to = c /\ m.action = "disconnect"}

(* Steps that DeviceLink does not see. *)
LEMMA LinkStutters ==
    ASSUME LinkPhase' = LinkPhase, sock' = sock, ctlBound' = ctlBound, Leaving' = Leaving, status' = status
    PROVE  UNCHANGED Link!linkVars
BY DEF Link!linkVars, LinkPhase, Leaving

(* The steps of one connection. *)
LEMMA ConnectionsAreLinks ==
    ASSUME TypeOK, TypeOK', LinkInv, NEW c \in Conns, Accept(c) \/ Thread(c) \/ PeerGone(c)
    PROVE  Link!LinkNext \/ UNCHANGED Link!linkVars
<1>1. CASE Accept(c)
  <2>1. /\ pc[c] = "new" /\ pc' = [pc EXCEPT ![c] = "open"] /\ sock' = [sock EXCEPT ![c] = "up"]
        /\ UNCHANGED <<ctlBound, control, status>>
    BY <1>1 DEF Accept, chanVars, rowVars
  <2>2. LinkPhase[c] = "new" /\ LinkPhase' = [LinkPhase EXCEPT ![c] = "open"]
    <3>1. LinkPhase[c] = "new"
      BY <2>1 DEF LinkPhase
    <3>2. \A o \in Conns : pc'[o] = IF o = c THEN "open" ELSE pc[o]
      BY <2>1 DEF TypeOK
    <3>3. \A o \in Conns : LinkPhase'[o] = IF o = c THEN "open" ELSE LinkPhase[o]
      BY <3>2 DEF LinkPhase
    <3> QED
      BY <3>1, <3>3 DEF LinkPhase
  <2>3. Link!LinkAccept(c)
    BY <2>1, <2>2 DEF Link!LinkAccept, LinkPhase
  <2> QED
    BY <2>3 DEF Link!LinkNext, Link!LinkStep
<1>2. CASE ChannelOpen(c) \/ IdentifyWithQueues(c) \/ IdentifyWithoutQueues(c)
  <2>1. UNCHANGED <<sock, ctlBound, control, status>>
    BY <1>2 DEF ChannelOpen, IdentifyWithQueues, IdentifyWithoutQueues, chanVars, rowVars
  <2>2. LinkPhase' = LinkPhase
    BY <1>2 DEF ChannelOpen, IdentifyWithQueues, IdentifyWithoutQueues, LinkPhase, TypeOK
  <2> QED
    BY <2>1, <2>2, LinkStutters DEF Leaving
<1>3. CASE BindControl(c)
  <2>1. /\ pc[c] = "bound" /\ pc' = [pc EXCEPT ![c] = "ctl"] /\ ctlBound' = [ctlBound EXCEPT ![c] = TRUE]
        /\ UNCHANGED <<sock, control, status>>
    BY <1>3 DEF BindControl, rowVars
  <2>2. LinkPhase[c] = "open" /\ LinkPhase' = LinkPhase
    BY <2>1 DEF LinkPhase, TypeOK
  <2>3. Link!LinkBind(c)
    BY <2>1, <2>2 DEF Link!LinkBind, LinkPhase
  <2> QED
    BY <2>3 DEF Link!LinkNext, Link!LinkStep
<1>4. CASE Announce(c)
  <2>1. /\ pc[c] = "ctl" /\ pc' = [pc EXCEPT ![c] = "row"]
        /\ control' = control \cup ToDevice(DeviceOf[c], "supersede", c)
        /\ UNCHANGED <<sock, ctlBound, status>>
    BY <1>4 DEF Announce, rowVars
  <2>2. LinkPhase' = LinkPhase
    BY <2>1 DEF LinkPhase, TypeOK
  <2>3. \A m \in ToDevice(DeviceOf[c], "supersede", c) : m.action # "disconnect"
    BY DEF ToDevice
  <2>4. Leaving' = Leaving
    BY <2>1, <2>3 DEF Leaving
  <2> QED
    BY <2>1, <2>2, <2>4, LinkStutters
<1>5. CASE IdentifyFails(c)
  <2>1. /\ pc[c] \in {"bound", "ctl"} /\ chan[c] # "open" /\ pc' = [pc EXCEPT ![c] = "dead"]
        /\ UNCHANGED <<sock, ctlBound, control, status>>
    BY <1>5 DEF IdentifyFails, chanVars, rowVars
  <2>2. ~ctlBound[c] /\ c \notin Leaving
    BY <2>1 DEF LinkInv, ControlNeedsChannel, Leaving
  <2>3. /\ LinkPhase[c] # "new"
        /\ LinkPhase' = [o \in Conns |-> IF o \in {c} THEN "dead" ELSE LinkPhase[o]]
        /\ sock' = [o \in Conns |-> IF o \in {} THEN "gone" ELSE sock[o]]
        /\ ctlBound' = [o \in Conns |-> ctlBound[o] /\ o \notin {c}]
        /\ Leaving' = Leaving \ {c}
    BY <2>1, <2>2 DEF LinkPhase, Leaving, TypeOK
  <2>4. Link!LinkEnd({c}, {}, {c})
    BY <2>3 DEF Link!LinkEnd, LinkPhase, Leaving
  <2>5. Link!LinkClose(c)
    BY <2>1, <2>3, <2>4 DEF Link!LinkClose, LinkPhase
  <2> QED
    BY <2>5 DEF Link!LinkNext, Link!LinkStep
<1>6. CASE SaveRow(c)
  <2>1. /\ pc[c] = "row" /\ pc' = [pc EXCEPT ![c] = "live"] /\ status' = [status EXCEPT ![DeviceOf[c]] = "Connected"]
        /\ UNCHANGED <<sock, ctlBound, control>>
    BY <1>6 DEF SaveRow, chanVars
  <2>2. LinkPhase[c] = "open" /\ LinkPhase' = [LinkPhase EXCEPT ![c] = "live"]
    <3>1. LinkPhase[c] = "open"
      BY <2>1 DEF LinkPhase
    <3>2. \A o \in Conns : pc'[o] = IF o = c THEN "live" ELSE pc[o]
      BY <2>1 DEF TypeOK
    <3>3. \A o \in Conns : LinkPhase'[o] = IF o = c THEN "live" ELSE LinkPhase[o]
      BY <3>2 DEF LinkPhase
    <3> QED
      BY <3>1, <3>3 DEF LinkPhase
  <2>3. Link!LinkSave(c)
    BY <2>1, <2>2 DEF Link!LinkSave, LinkPhase
  <2> QED
    BY <2>3 DEF Link!LinkNext, Link!LinkStep
<1>7. CASE PeerGone(c)
  <2>1. /\ sock[c] = "up" /\ sock' = [sock EXCEPT ![c] = "gone"] /\ UNCHANGED <<pc, ctlBound, control, status>>
    BY <1>7 DEF PeerGone, chanVars, rowVars
  <2>2. Link!LinkPeerGone(c)
    BY <2>1 DEF Link!LinkPeerGone
  <2> QED
    BY <2>2 DEF Link!LinkNext, Link!LinkStep
<1> QED
  BY <1>1, <1>2, <1>3, <1>4, <1>5, <1>6, <1>7 DEF Thread

(* The connection of a dropped channel, its control queue and its messages. *)
LEMMA DropIsEnd ==
    ASSUME TypeOK, NEW c \in Conns, DropChannel(c)
    PROVE  /\ ctlBound' = [o \in Conns |-> ctlBound[o] /\ o \notin {c}]
           /\ Leaving' = Leaving \ {c}
BY DEF DropChannel, TypeOK, Leaving

(* The ways a connection ends. *)
LEMMA ClosesAreLinks ==
    ASSUME TypeOK, TypeOK', LinkInv, NEW c \in Conns, Close(c) \/ ChannelLost(c) \/ HandlerDies(c)
    PROVE  Link!LinkNext \/ UNCHANGED Link!linkVars
<1> USE ConnAssumption
<1>0. LinkPhase[c] # "new" <=> pc[c] # "new"
  BY DEF LinkPhase
<1>1. ASSUME pc[c] # "new", NEW X \in {{}, {c}}, NEW D \in {{}, {c}},
             LinkPhase' = [o \in Conns |-> IF o \in D THEN "dead" ELSE LinkPhase[o]],
             sock' = [o \in Conns |-> IF o \in X THEN "gone" ELSE sock[o]],
             DropChannel(c),
             \/ status' = status
             \/ status' = [d \in Devices |-> IF d \in {DeviceOf[c]} /\ status[d] # "none"
                                             THEN "Disconnected" ELSE status[d]]
      PROVE  Link!LinkNext
  <2>1. /\ ctlBound' = [o \in Conns |-> ctlBound[o] /\ o \notin {c}]
        /\ Leaving' = Leaving \ {c}
    BY <1>1, DropIsEnd
  <2>2. Link!LinkEnd({c}, X, D)
    BY <1>1, <2>1 DEF Link!LinkEnd, LinkPhase, Leaving
  <2>3. LinkPhase[c] # "new"
    BY <1>0, <1>1
  <2>4. status' \in {status, Link!MarkedDisconnected({DeviceOf[c]})}
    BY <1>1 DEF Link!MarkedDisconnected
  <2>5. Link!LinkClose(c)
    BY <2>2, <2>3, <2>4 DEF Link!LinkClose, LinkPhase
  <2> QED
    BY <2>5 DEF Link!LinkNext, Link!LinkStep
<1> DEFINE N == {}
           S == {c}
<1>2. CASE CloseSuperseded(c) \/ ChannelLost(c)
  <2>1. DropChannel(c) /\ pc[c] # "new" /\ UNCHANGED <<pc, sock, status>>
    BY <1>2 DEF CloseSuperseded, MayClose, ChannelLost, Active, LinkInv, NothingBeforeAccept, rowVars
  <2>2. N \in {{}, {c}} /\ \A o \in Conns : o \notin N
    OBVIOUS
  <2> HIDE DEF N
  <2>3. LinkPhase' = [o \in Conns |-> IF o \in N THEN "dead" ELSE LinkPhase[o]]
    BY <2>1, <2>2 DEF LinkPhase
  <2>4. sock' = [o \in Conns |-> IF o \in N THEN "gone" ELSE sock[o]]
    BY <2>1, <2>2 DEF TypeOK
  <2> QED
    BY <1>1, <2>1, <2>2, <2>3, <2>4
<1>3. CASE ClosePublish(c) \/ CloseUnbind(c)
  <2>1. UNCHANGED <<pc, sock, ctlBound, control, status>>
    BY <1>3 DEF ClosePublish, CloseUnbind, chanVars, rowVars
  <2> QED
    BY <2>1, LinkStutters DEF LinkPhase, Leaving
<1>4. CASE CloseStatus(c)
  <2>1. DropChannel(c) /\ pc[c] # "new" /\ pc' = pc /\ sock' = [sock EXCEPT ![c] = "gone"]
    BY <1>4 DEF CloseStatus, LinkInv, NothingBeforeAccept
  <2>2. \/ status' = status
        \/ status' = [d \in Devices |-> IF d \in {DeviceOf[c]} /\ status[d] # "none"
                                        THEN "Disconnected" ELSE status[d]]
    BY <1>4 DEF CloseStatus, MarkDisconnected, TypeOK
  <2>3. /\ N \in {{}, {c}} /\ S \in {{}, {c}}
        /\ \A o \in Conns : o \notin N /\ (o \in S <=> o = c)
    OBVIOUS
  <2> HIDE DEF N, S
  <2>4. LinkPhase' = [o \in Conns |-> IF o \in N THEN "dead" ELSE LinkPhase[o]]
    BY <2>1, <2>3 DEF LinkPhase
  <2>5. sock' = [o \in Conns |-> IF o \in S THEN "gone" ELSE sock[o]]
    BY <2>1, <2>3 DEF TypeOK
  <2> QED
    BY <1>1, <2>1, <2>2, <2>3, <2>4, <2>5
<1>5. CASE HandlerDies(c)
  <2>1. DropChannel(c) /\ pc[c] # "new" /\ pc' = [pc EXCEPT ![c] = "dead"] /\ sock' = [sock EXCEPT ![c] = "gone"]
        /\ status' = status
    BY <1>5 DEF HandlerDies, Active, rowVars
  <2>2. \A o \in Conns : pc'[o] = IF o = c THEN "dead" ELSE pc[o]
    BY <2>1 DEF TypeOK
  <2>3. LinkPhase' = [o \in Conns |-> IF o \in S THEN "dead" ELSE LinkPhase[o]]
    BY <2>2 DEF LinkPhase
  <2>4. /\ sock' = [o \in Conns |-> IF o \in S THEN "gone" ELSE sock[o]]
        /\ S \in {{}, {c}}
    BY <2>1 DEF TypeOK
  <2> HIDE DEF S
  <2> QED
    BY <1>1, <2>1, <2>3, <2>4
<1> QED
  BY <1>2, <1>3, <1>4, <1>5 DEF Close

(* A handled message: a disconnect makes its connection leave. *)
LEMMA MessagesAreLinks ==
    ASSUME TypeOK, TypeOK', LinkInv, NEW m \in control, HandleControl(m)
    PROVE  Link!LinkNext \/ UNCHANGED Link!linkVars
<1>1. m.to \in Conns /\ UNCHANGED <<pc, ctlBound, status>> /\ control' = control \ {m}
  BY DEF HandleControl, HandleSupersede, HandleDisconnect, rowVars, TypeOK, ControlMsgs
<1>2. CASE HandleSupersede(m)
  <2>1. m.action = "supersede" /\ sock' = sock
    BY <1>2 DEF HandleSupersede
  <2>2. Leaving' = Leaving
    BY <1>1, <2>1 DEF Leaving
  <2> QED
    BY <1>1, <2>1, <2>2, LinkStutters DEF LinkPhase
<1>3. CASE HandleDisconnect(m)
  <2>1. m.action = "disconnect" /\ sock' = [sock EXCEPT ![m.to] = "gone"]
    BY <1>3 DEF HandleDisconnect
  <2>2. m.to \in Leaving
    BY <1>1, <2>1 DEF Leaving
  <2>3. ASSUME NEW x \in control, x.to = m.to, x.action = "disconnect" PROVE x = m
    BY <2>1, <2>3 DEF TypeOK, ControlMsgs, LinkInv, DisconnectsAlike
  <2>4. Leaving' = Leaving \ {m.to}
    BY <1>1, <2>1, <2>3 DEF Leaving
  <2>5. Link!LinkLeave(m.to)
    BY <1>1, <2>1, <2>2, <2>4 DEF Link!LinkLeave, Leaving
  <2> QED
    BY <1>1, <2>5 DEF Link!LinkNext, Link!LinkStep
<1> QED
  BY <1>2, <1>3 DEF HandleControl

(* The row is written by others than the connection. *)
LEMMA RowsAreLinks ==
    ASSUME TypeOK, NEW d \in Devices, MarkDisconnected(d) \/ status' = status,
           UNCHANGED <<pc, sock, ctlBound, control>>
    PROVE  Link!LinkNext \/ UNCHANGED Link!linkVars
<1>1. CASE status' = status
  BY <1>1, LinkStutters DEF LinkPhase, Leaving
<1>2. CASE MarkDisconnected(d)
  <2>1. status' = Link!MarkedDisconnected({d})
    BY <1>2 DEF MarkDisconnected, Link!MarkedDisconnected, TypeOK
  <2>2. Link!LinkMark(d)
    BY <2>1 DEF Link!LinkMark
  <2> QED
    BY <2>2 DEF Link!LinkNext, Link!LinkStep
<1> QED
  BY <1>1, <1>2

LEMMA RestartIsLink ==
    ASSUME TypeOK, TypeOK', NEW t \in Transports, Restart(t)
    PROVE  Link!LinkNext
<1> DEFINE gone == {c \in Conns : TransportOf[c] = t /\ pc[c] # "new"}
<1>1. /\ pc' = [c \in Conns |-> IF c \in gone THEN "dead" ELSE pc[c]]
      /\ sock' = [c \in Conns |-> IF c \in gone THEN "gone" ELSE sock[c]]
      /\ ctlBound' = [c \in Conns |-> ctlBound[c] /\ c \notin gone]
      /\ control' = {m \in control : m.to \notin gone}
      /\ status' = [d \in Devices |-> IF status[d] = "none" THEN "none" ELSE "Disconnected"]
  BY DEF Restart
<1>2. gone \in SUBSET {c \in Conns : LinkPhase[c] # "new"}
  BY DEF LinkPhase
<1> HIDE DEF gone
<1>3. LinkPhase' = [c \in Conns |-> IF c \in gone THEN "dead" ELSE LinkPhase[c]]
  BY <1>1 DEF LinkPhase
<1>4. Leaving' = Leaving \ gone
  BY <1>1 DEF Leaving
<1>5. Link!LinkEnd(gone, gone, gone)
  BY <1>1, <1>3, <1>4 DEF Link!LinkEnd, LinkPhase, Leaving
<1>6. status' = Link!MarkedDisconnected(Devices)
  BY <1>1 DEF Link!MarkedDisconnected
<1> DEFINE Gone == SUBSET {c \in Conns : LinkPhase[c] # "new"}
<1>7. \E S \in Gone : Link!LinkEnd(S, S, S)
  <2>1. gone \in Gone
    BY <1>2
  <2> HIDE DEF Gone
  <2> QED
    BY <1>5, <2>1 DEF Link!LinkEnd
<1>8. Link!LinkRestart
  BY <1>6, <1>7 DEF Link!LinkRestart, LinkPhase
<1> QED
  BY <1>8 DEF Link!LinkNext

(* A request to reconnect reaches the control queues bound at that moment. *)
LEMMA RequestIsLink ==
    ASSUME TypeOK, NEW d \in Devices, RequestReconnect(d)
    PROVE  Link!LinkNext
<1>1. /\ status[d] = "Connected" /\ control' = control \cup ToDevice(d, "disconnect", "none")
      /\ UNCHANGED <<pc, ctlBound, sock, status>>
  BY DEF RequestReconnect, rowVars
<1>2. \A c \in Conns : DeviceOf[c] = d /\ ctlBound[c] =>
        [to |-> c, action |-> "disconnect", except |-> "none"] \in control'
  BY <1>1 DEF ToDevice
<1>3. \A m \in ToDevice(d, "disconnect", "none") : m.to \in Conns /\ DeviceOf[m.to] = d /\ ctlBound[m.to]
  BY DEF ToDevice
<1>4. Leaving' = Leaving \cup {c \in Conns : DeviceOf[c] = d /\ ctlBound[c]}
  BY <1>1, <1>2, <1>3 DEF Leaving
<1>5. Link!LinkAsk(d)
  BY <1>1, <1>4 DEF Link!LinkAsk, Leaving
<1> QED
  BY <1>5 DEF Link!LinkNext

(* EudHandler, cot_parser, the jobs, the restart and the administrator: every step
   of the sessions is one of DeviceLink, or is not seen there: a disconnect message
   reaches the control queues bound at that moment and is lost only with its
   channel, a socket never comes back, and a row says Connected only because a
   handler saved it. *)
THEOREM SessionsImplementLinks == Spec => ImplementsLink
<1>1. Init => LinkInv /\ Link!LinkInit
  BY DEF Init, LinkInv, ControlNeedsChannel, NothingBeforeAccept, DisconnectsAlike, Link!LinkInit
<1>2. TypeOK /\ TypeOK' /\ LinkInv /\ [Next]_vars => Link!LinkNext \/ UNCHANGED Link!linkVars
  <2> SUFFICES ASSUME TypeOK, TypeOK', LinkInv, [Next]_vars PROVE Link!LinkNext \/ UNCHANGED Link!linkVars
    OBVIOUS
  <2>1. ASSUME NEW m \in parserQ, ParserDisconnect(m) \/ ParserDrops(m)
        PROVE  Link!LinkNext \/ UNCHANGED Link!linkVars
    <3>1. DeviceOf[m.conn] \in Devices
      BY ConnAssumption DEF TypeOK, ParserMsgs
    <3>2. MarkDisconnected(DeviceOf[m.conn]) \/ status' = status
      BY <2>1 DEF ParserDisconnect, ParserDrops, rowVars
    <3>3. UNCHANGED <<pc, sock, ctlBound, control>>
      BY <2>1 DEF ParserDisconnect, ParserDrops, chanVars
    <3> QED
      BY <3>1, <3>2, <3>3, RowsAreLinks
  <2>2. ASSUME NEW d \in Devices, GrowStale(d) \/ Reconcile(d)
        PROVE  Link!LinkNext \/ UNCHANGED Link!linkVars
    <3>1. (MarkDisconnected(d) \/ status' = status) /\ UNCHANGED <<pc, sock, ctlBound, control>>
      BY <2>2 DEF GrowStale, Reconcile, chanVars
    <3> QED
      BY <3>1, RowsAreLinks
  <2>3. CASE UNCHANGED vars
    <3>1. UNCHANGED <<pc, sock, ctlBound, control, status>>
      BY <2>3 DEF vars, chanVars, rowVars
    <3> QED
      BY <3>1, LinkStutters DEF LinkPhase, Leaving
  <2> QED
    BY <2>1, <2>2, <2>3, ConnectionsAreLinks, ClosesAreLinks, MessagesAreLinks, RestartIsLink, RequestIsLink DEF Next
<1> QED
  BY <1>1, <1>2, LinkInvStep, Typing, PTL DEF Spec, ImplementsLink, Link!LinkSpec
=============================================================================
