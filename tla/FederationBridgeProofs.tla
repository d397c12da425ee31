----------------------- MODULE FederationBridgeProofs -----------------------
(* Theorems of FederationBridge: type correctness, and that the guards keep
   events from going round when the traffic is calm, for any number of
   servers, devices and events. *)
EXTENDS FederationBridge, TLAPS

(* A message on one of the legs has its type. *)
LEMMA MessageType ==
    ASSUME NEW s \in Servers, NEW l \in Legs, NEW c \in Cots,
           NEW k \in Groups \cup Uids \cup {NoKey}
    PROVE  Message(s, l, c, k) \in Messages
BY DEF Message, Messages

(* What is lost concerns servers. *)
LEMMA LoseType ==
    ASSUME TypeOK, NEW S \in SUBSET net, Lose(S)
    PROVE  net' \subseteq Messages /\ lost' \subseteq Cots \X Servers
<1>1. ASSUME NEW m \in S PROVE Deprived(m) \subseteq Cots \X Servers
  BY <1>1 DEF TypeOK, Messages, Deprived, Everywhere
<1> QED BY <1>1 DEF TypeOK, Lose

(* Every state has its type and every bound is kept. *)
THEOREM BridgeTyping == Spec => []TypeOK
<1>1. Init => TypeOK
  BY BridgeAssumption DEF Init, TypeOK
<1>2. TypeOK /\ [Next]_vars => TypeOK'
  <2> SUFFICES ASSUME TypeOK, [Next]_vars PROVE TypeOK'
    OBVIOUS
  <2> USE BridgeAssumption DEF TypeOK
  <2>1. ASSUME NEW c \in Cots, NEW s \in Servers, DeviceSends(c, s) PROVE TypeOK'
    <3>1. Message(s, "device", c, NoKey) \in Messages
      BY DEF Message, Messages, Legs
    <3> QED BY <2>1, <3>1 DEF DeviceSends, guardVars, dmVars, linkVars, historyVars
  <2>2. ASSUME NEW m \in net, Carry(m) PROVE TypeOK'
    <3>1. /\ m.srv \in Servers /\ m.cot \in Cots
          /\ m.key \in Groups \cup Uids \cup {NoKey}
          /\ Uid(m) \in Uids
      BY DEF Messages, Uid
    <3>2. ASSUME NEW keys PROVE Publish(m.srv, m.cot, keys) \subseteq Messages
      BY <3>1, MessageType DEF Publish, Legs
    <3>3. CASE Route(m)
      BY <3>2, <3>3 DEF Route, guardVars, dmVars, linkVars, historyVars
    <3>4. CASE SkipAnon(m)
      BY <3>4 DEF SkipAnon, guardVars, dmVars, linkVars, historyVars
    <3>5. CASE SkipInjected(m)
      BY <3>1, <3>5 DEF SkipInjected, Others, dmVars, linkVars
    <3>6. CASE Queue(m)
      <4>1. Message(m.srv, "out", m.cot, m.key) \in Messages
        BY <3>1, MessageType DEF Legs
      <4> QED BY <3>1, <3>6, <4>1 DEF Queue, dmVars, linkVars, historyVars
    <3>7. CASE HandToHub(m)
      <4>1. \A s \in Servers : Message(s, "in", m.cot, m.key) \in Messages
        BY <3>1, MessageType DEF Legs
      <4> QED BY <3>7, <4>1 DEF HandToHub, guardVars, dmVars, linkVars, historyVars
    <3>8. CASE SkipEcho(m)
      BY <3>1, <3>8 DEF SkipEcho, dmVars, linkVars
    <3>9. CASE Inject(m)
      <4>1. Message(m.srv, "injected", m.cot, m.key) \in Messages
        BY <3>1, MessageType DEF Legs
      <4> QED BY <3>1, <3>9, <4>1 DEF Inject, Learn, linkVars
    <3>10. CASE DeliverDm(m)
      BY <3>1, <3>2, <3>10 DEF DeliverDm, Learn, guardVars, linkVars
    <3> QED
      BY <2>2, <3>3, <3>4, <3>5, <3>6, <3>7, <3>8, <3>9, <3>10
         DEF Carry, QueueOutbound, QueueDm
  <2>3. ASSUME NEW m \in net, EndedTakes(m) PROVE TypeOK'
    <3>1. m.srv \in Servers /\ m.cot \in Cots
      BY DEF Messages
    <3> QED BY <2>3, <3>1 DEF EndedTakes, Everywhere, guardVars, dmVars
  <2>4. ASSUME NEW s \in Servers, BindDms(s) PROVE TypeOK'
    BY <2>4 DEF BindDms, guardVars, linkVars, historyVars
  <2>5. ASSUME NEW s \in Servers, NEW u \in Uids,
               SentLapses(s, u) \/ InjectedLapses(s, u) PROVE TypeOK'
    BY <2>5 DEF SentLapses, InjectedLapses, dmVars, linkVars, historyVars
  <2>6. ASSUME NEW s \in Servers, OutboundEnds(s) PROVE TypeOK'
    BY <2>6 DEF OutboundEnds, Break, guardVars, dmVars, historyVars
  <2>7. ASSUME NEW s \in Servers,
               InboundEnds(s) \/ ConsumerEnds(s) \/ DmConsumerEnds(s) PROVE TypeOK'
    <3>1. PICK S \in SUBSET net : Lose(S)
      BY <2>7 DEF InboundEnds, ConsumerEnds, DmConsumerEnds
    <3> QED BY <2>7, <3>1, LoseType
            DEF InboundEnds, ConsumerEnds, DmConsumerEnds, Break, guardVars, dmVars
  <2>8. ASSUME NEW m \in net, ParserDrops(m) PROVE TypeOK'
    <3>1. PICK S \in SUBSET net : Lose(S)
      BY <2>8 DEF ParserDrops
    <3> QED BY <2>8, <3>1, LoseType DEF ParserDrops, Break, guardVars, dmVars
  <2>9. ASSUME NEW m \in net, InjectFails(m) PROVE TypeOK'
    <3>1. m.srv \in Servers /\ m.cot \in Cots /\ Uid(m) \in Uids
      BY DEF Messages, Uid
    <3>2. PICK S \in SUBSET net : Lose(S)
      BY <2>9 DEF InjectFails
    <3> QED BY <2>9, <3>1, <3>2, LoseType DEF InjectFails, Learn, Break
  <2>10. CASE UNCHANGED vars
    BY <2>10 DEF vars, guardVars, dmVars, linkVars, historyVars
  <2> QED BY <2>1, <2>2, <2>3, <2>4, <2>5, <2>6, <2>7, <2>8, <2>9, <2>10 DEF Next
<1> QED BY <1>1, <1>2, PTL DEF Spec
-----------------------------------------------------------------------------
(* Calm traffic: a device's event has settled before it sends the next one; an
   account writes to one group besides __ANON__, and a direct message has one
   recipient, who is enrolled at one server, of two. *)
Calm ==
    /\ Spaced
    /\ \A c \in Cots : \A k1, k2 \in KeysOf[c] \ {Anon} : k1 = k2
    /\ \A c \in Cots : \A k \in KeysOf[c] \cap Uids :
        /\ \A s1, s2 \in HomesOf[k] : s1 = s2
        /\ \A s1, s2, s3 \in Servers : s1 = s2 \/ s1 = s3 \/ s2 = s3

(* The recipient of a direct message is enrolled elsewhere. *)
Away(m) == \E s \in HomesOf[m.key] : s # at[m.cot]

(* Where a message may be, and which guard waits for it. *)
MessageOK(m) ==
    /\ at[m.cot] \in HomesOf[Uid(m)]
    /\ m.leg = "device" => m.key = NoKey /\ at[m.cot] = m.srv
    /\ m.leg # "device" => m.key \in KeysOf[m.cot]
    /\ m.leg = "groups" =>
        /\ m.key \in Groups
        /\ at[m.cot] # m.srv => m.key # Anon /\ Uid(m) \in injected[m.srv]
    /\ m.leg = "dms" => m.key \in Uids /\ at[m.cot] = m.srv /\ Away(m)
    /\ m.leg \in {"out", "in"} =>
        /\ m.key # Anon
        /\ m.key \in Uids => Away(m)
        /\ at[m.cot] = m.srv => Uid(m) \in sent[m.srv]
    /\ m.leg = "out" => at[m.cot] = m.srv
    /\ m.leg = "injected" =>
        /\ m.key \in Groups \ {Anon} /\ at[m.cot] # m.srv
        /\ Uid(m) \in injected[m.srv]

(* The hub has had the event of the message. *)
Returned(m) ==
    m.leg \in {"in", "injected"} \/ (m.leg = "groups" /\ at[m.cot] # m.srv)

(* Two messages of a device belong to one event, which besides __ANON__ is on
   one leg until the hub has it, and then on one leg at each server. *)
PairOK(m, n) ==
    Uid(m) = Uid(n) /\ m # n =>
        /\ m.cot = n.cot
        /\ m.key # Anon /\ n.key # Anon =>
            Returned(m) /\ Returned(n) /\ m.srv # n.srv

(* A remote member is enrolled at another server. *)
RosterOK ==
    \A s \in Servers : \A u \in known[s] \cup dmBound[s] :
        \E t \in HomesOf[u] : t # s

ArrivedOK ==
    \A c \in Cots, s \in Servers : <<c, s>> \in arrived => at[c] \notin {NoServer, s}

MessagesOK == \A m \in net : MessageOK(m)
PairsOK == \A m, n \in net : PairOK(m, n)
CalmInv == MessagesOK /\ PairsOK /\ RosterOK /\ ArrivedOK

(* A message keeps its place while its event and its guards stay. *)
LEMMA MessageKept ==
    ASSUME NEW n \in net, MessageOK(n),
           at'[n.cot] = at[n.cot],
           Uid(n) \in sent[n.srv] => Uid(n) \in sent'[n.srv],
           Uid(n) \in injected[n.srv] => Uid(n) \in injected'[n.srv]
    PROVE  MessageOK(n)'
BY DEF MessageOK, Away, Uid

(* Fewer messages. *)
LEMMA PairsShrink ==
    ASSUME PairsOK, net' \subseteq net, at' = at
    PROVE  PairsOK'
BY DEF PairsOK, PairOK, Returned, Uid

(* A message m makes way for the messages N of its event. *)
LEMMA PairsReplace ==
    ASSUME PairsOK, NEW m \in net, NEW N,
           net' = (net \ {m}) \cup N, at' = at,
           \A n \in N :
            /\ n.cot = m.cot
            /\ n.key # Anon => m.key # Anon
            /\ n.key # Anon /\ Returned(m) => Returned(n) /\ n.srv = m.srv,
           \A n1, n2 \in N : n1 # n2 /\ n1.key # Anon /\ n2.key # Anon =>
                Returned(n1) /\ Returned(n2) /\ n1.srv # n2.srv
    PROVE  PairsOK'
<1> SUFFICES ASSUME NEW p \in net', NEW q \in net', Uid(p) = Uid(q), p # q
             PROVE  /\ p.cot = q.cot
                    /\ p.key # Anon /\ q.key # Anon =>
                        Returned(p) /\ Returned(q) /\ p.srv # q.srv
  BY DEF PairsOK, PairOK, Returned, Uid
<1>1. CASE p \in net \ {m} /\ q \in net \ {m}
  BY <1>1 DEF PairsOK, PairOK
<1>2. CASE p \in N /\ q \in N
  BY <1>2
<1>3. CASE p \in N /\ q \in net \ {m}
  <2>1. PairOK(m, q) /\ Uid(m) = Uid(q)
    BY <1>3 DEF PairsOK, Uid
  <2> QED BY <1>3, <2>1 DEF PairOK
<1>4. CASE p \in net \ {m} /\ q \in N
  <2>1. PairOK(m, p) /\ Uid(m) = Uid(p)
    BY <1>4 DEF PairsOK, Uid
  <2> QED BY <1>4, <2>1 DEF PairOK
<1> QED BY <1>1, <1>2, <1>3, <1>4

(* What is known of a message that exists. *)
LEMMA MessageFacts ==
    ASSUME TypeOK, CalmInv, NEW m \in net
    PROVE  /\ m.srv \in Servers /\ m.cot \in Cots /\ m.leg \in Legs
           /\ m.key \in Groups \cup Uids \cup {NoKey}
           /\ Uid(m) \in Uids
           /\ at[m.cot] \in Servers /\ at[m.cot] # NoServer
           /\ MessageOK(m)
           /\ \A n \in net : PairOK(m, n) /\ PairOK(n, m)
BY BridgeAssumption DEF TypeOK, Messages, Uid, CalmInv, MessagesOK, PairsOK, MessageOK

(* One step of calm traffic, other than a failure, keeps the invariant. *)
LEMMA CalmSends ==
    ASSUME Calm, TypeOK, CalmInv, NEW c \in Cots, NEW s \in Servers,
           DeviceSends(c, s)
    PROVE  CalmInv'
<1> DEFINE d == Message(s, "device", c, NoKey)
<1> USE BridgeAssumption
<1>1. /\ at[c] = NoServer /\ s \in HomesOf[SenderOf[c]]
      /\ at' = [at EXCEPT ![c] = s] /\ at \in [Cots -> Servers \cup {NoServer}]
      /\ net' = net \cup {d}
      /\ \A n \in net : Uid(n) # SenderOf[c]
      /\ UNCHANGED <<sent, injected, known, dmBound, arrived>>
  BY DEF DeviceSends, Calm, Busy, TypeOK, guardVars, dmVars, linkVars, historyVars
<1>2. d.srv = s /\ d.leg = "device" /\ d.cot = c /\ d.key = NoKey
  BY DEF Message
<1>3. \A n \in net : n.cot # c /\ at'[n.cot] = at[n.cot]
  BY <1>1 DEF Uid
<1>4. MessagesOK'
  <2>1. ASSUME NEW n \in net PROVE MessageOK(n)'
    BY <1>1, <1>3, MessageKept DEF CalmInv, MessagesOK
  <2>2. MessageOK(d)'
    BY <1>1, <1>2 DEF MessageOK, Uid
  <2> QED BY <1>1, <2>1, <2>2 DEF MessagesOK
<1>5. PairsOK'
  <2>1. ASSUME NEW p \in net', NEW q \in net' PROVE PairOK(p, q)'
    <3>1. CASE p \in net /\ q \in net
      BY <1>3, <3>1 DEF CalmInv, PairsOK, PairOK, Returned, Uid
    <3>2. CASE p = d \/ q = d
      BY <1>1, <1>2, <2>1, <3>2 DEF PairOK, Uid
    <3> QED BY <1>1, <3>1, <3>2
  <2> QED BY <2>1 DEF PairsOK
<1>6. RosterOK'
  BY <1>1 DEF CalmInv, RosterOK
<1>7. ArrivedOK'
  BY <1>1 DEF CalmInv, ArrivedOK
<1> QED BY <1>4, <1>5, <1>6, <1>7 DEF CalmInv

(* Messages may be lost at any moment. *)
LEMMA CalmShrinks ==
    ASSUME CalmInv, net' \subseteq net,
           UNCHANGED <<at, known, arrived>>,
           \A s \in Servers : dmBound'[s] \subseteq known[s] \cup dmBound[s],
           \A n \in net' : Uid(n) \in sent[n.srv] => Uid(n) \in sent'[n.srv],
           \A n \in net' : Uid(n) \in injected[n.srv] => Uid(n) \in injected'[n.srv]
    PROVE  CalmInv'
<1>1. MessagesOK'
  BY MessageKept DEF CalmInv, MessagesOK
<1>2. PairsOK'
  BY PairsShrink DEF CalmInv
<1> QED BY <1>1, <1>2 DEF CalmInv, RosterOK, ArrivedOK

(* A message moves on to the messages N, which the guards are ready for. *)
LEMMA CalmMoves ==
    ASSUME CalmInv, NEW m \in net, NEW N,
           net' = (net \ {m}) \cup N, at' = at,
           \A n \in net \ {m} :
            /\ Uid(n) \in sent[n.srv] => Uid(n) \in sent'[n.srv]
            /\ Uid(n) \in injected[n.srv] => Uid(n) \in injected'[n.srv],
           \A n \in N :
            /\ MessageOK(n)'
            /\ n.cot = m.cot
            /\ n.key # Anon => m.key # Anon
            /\ n.key # Anon /\ Returned(m) => Returned(n) /\ n.srv = m.srv,
           \A n1, n2 \in N : n1 # n2 /\ n1.key # Anon /\ n2.key # Anon =>
                Returned(n1) /\ Returned(n2) /\ n1.srv # n2.srv,
           RosterOK', ArrivedOK'
    PROVE  CalmInv'
<1>1. \A n \in net \ {m} : MessageOK(n)'
  BY MessageKept DEF CalmInv, MessagesOK
<1>2. MessagesOK'
  BY <1>1 DEF MessagesOK
<1>3. PairsOK'
  BY PairsReplace DEF CalmInv
<1> QED BY <1>2, <1>3 DEF CalmInv

(* No two keys of an event but __ANON__: cot_parser publishes one message that
   is for another server. *)
LEMMA CalmRoutes ==
    ASSUME Calm, TypeOK, CalmInv, NEW m \in net, Route(m)
    PROVE  CalmInv'
<1> DEFINE keys == IF m.leg = "injected" THEN {m.key} ELSE KeysOf[m.cot]
           N == Publish(m.srv, m.cot, keys)
<1> USE BridgeAssumption
<1>1. /\ net' = (net \ {m}) \cup N
      /\ UNCHANGED <<at, sent, injected, known, dmBound, arrived>>
      /\ m.leg \in {"device", "injected"}
  BY DEF Route, guardVars, dmVars, linkVars, historyVars
<1>2. /\ m.srv \in Servers /\ m.cot \in Cots /\ MessageOK(m)
      /\ m.key # Anon
  BY <1>1, MessageFacts DEF MessageOK
<1>3. keys \subseteq KeysOf[m.cot]
  BY <1>1, <1>2 DEF MessageOK
<1>4. \A n \in N :
        /\ n.cot = m.cot /\ n.srv = m.srv /\ n.key \in keys
        /\ \/ n.leg = "groups" /\ n.key \in Groups
           \/ n.leg = "dms" /\ n.key \in dmBound[m.srv]
  BY DEF Publish, Message
<1>5. \A n \in N : MessageOK(n)'
  <2> SUFFICES ASSUME NEW n \in N PROVE MessageOK(n)'
    OBVIOUS
  <2>1. CASE n.leg = "groups"
    BY <1>1, <1>2, <1>3, <1>4, <2>1 DEF MessageOK, Uid
  <2>2. CASE n.leg = "dms"
    <3>1. n.key \in dmBound[m.srv] /\ n.key \in Uids /\ n.key \in KeysOf[m.cot]
      BY <1>2, <1>3, <1>4, <2>2 DEF TypeOK
    <3>2. m.leg = "device" /\ at[m.cot] = m.srv
      BY <1>1, <1>2, <1>4, <3>1 DEF MessageOK
    <3>3. Away(n)
      BY <1>2, <1>4, <3>1, <3>2 DEF Away, CalmInv, RosterOK
    <3> QED BY <1>1, <1>2, <1>4, <2>2, <3>1, <3>2, <3>3 DEF MessageOK, Away, Uid
  <2> QED BY <1>4, <2>1, <2>2
<1>6. \A n1, n2 \in N : n1.key # Anon /\ n2.key # Anon => n1 = n2
  <2> SUFFICES ASSUME NEW n1 \in N, NEW n2 \in N, n1.key # Anon, n2.key # Anon
               PROVE  n1 = n2
    OBVIOUS
  <2>1. n1.key = n2.key
    <3> HIDE DEF N, keys
    <3>1. n1.key \in KeysOf[m.cot] \ {Anon} /\ n2.key \in KeysOf[m.cot] \ {Anon}
      BY <1>3, <1>4
    <3> QED BY <1>2, <3>1 DEF Calm
  <2>2. n1.leg = n2.leg
    BY <1>2, <1>4, <2>1 DEF TypeOK
  <2> QED BY <2>1, <2>2 DEF Publish, Message
<1>7. \A n \in N : n.key # Anon /\ Returned(m) => Returned(n)
  BY <1>1, <1>2, <1>3, <1>4 DEF Returned, MessageOK, TypeOK
<1>8. RosterOK' /\ ArrivedOK'
  BY <1>1 DEF CalmInv, RosterOK, ArrivedOK
<1> HIDE DEF N, keys
<1>9. \A n \in N :
        /\ MessageOK(n)' /\ n.cot = m.cot
        /\ n.key # Anon => m.key # Anon
        /\ n.key # Anon /\ Returned(m) => Returned(n) /\ n.srv = m.srv
  BY <1>2, <1>4, <1>5, <1>7
<1>10. \A n1, n2 \in N : n1 # n2 /\ n1.key # Anon /\ n2.key # Anon =>
            Returned(n1) /\ Returned(n2) /\ n1.srv # n2.srv
  BY <1>6
<1>11. \A n \in net \ {m} :
        /\ Uid(n) \in sent[n.srv] => Uid(n) \in sent'[n.srv]
        /\ Uid(n) \in injected[n.srv] => Uid(n) \in injected'[n.srv]
  BY <1>1
<1>12. net' = (net \ {m}) \cup N /\ at' = at
  BY <1>1
<1>13. RosterOK' /\ ArrivedOK'
  BY <1>8
<1> QED BY <1>9, <1>10, <1>11, <1>12, <1>13, CalmMoves

(* The daemon's side: the guard an event uses up is needed by no other. *)
LEMMA CalmSkips ==
    ASSUME Calm, TypeOK, CalmInv, NEW m \in net,
           SkipAnon(m) \/ SkipInjected(m) \/ SkipEcho(m)
    PROVE  CalmInv'
<1>1. /\ net' \subseteq net \ {m}
      /\ at' = at /\ known' = known /\ dmBound' = dmBound /\ arrived' = arrived
  BY DEF SkipAnon, SkipInjected, SkipEcho, guardVars, dmVars, linkVars, historyVars
<1>2. /\ m.srv \in Servers /\ MessageOK(m)
      /\ \A n \in net : n.srv \in Servers /\ MessageOK(n) /\ PairOK(m, n)
      /\ sent \in [Servers -> SUBSET Uids] /\ injected \in [Servers -> SUBSET Uids]
  BY MessageFacts DEF TypeOK
<1>3. ASSUME NEW n \in net \ {m}
      PROVE  MessageOK(n)'
  <2>1. CASE SkipAnon(m)
    BY <1>1, <1>2, <2>1, MessageKept DEF SkipAnon, guardVars
  <2>2. CASE SkipInjected(m)
    <3>1. /\ m.leg = "groups" /\ m.key # Anon /\ sent' = sent
          /\ injected' = [injected EXCEPT ![m.srv] = @ \ {Uid(m)}]
      BY <2>2 DEF SkipInjected
    <3>2. CASE Uid(n) # Uid(m) \/ n.srv # m.srv
      BY <1>1, <1>2, <3>1, <3>2, MessageKept
    <3>3. CASE Uid(n) = Uid(m) /\ n.srv = m.srv
      <4>1. n.cot = m.cot /\ ~(n.key # Anon)
        BY <1>2, <3>1, <3>3 DEF PairOK
      <4> QED BY <1>1, <1>2, <3>1, <4>1 DEF MessageOK, Away, Uid
    <3> QED BY <3>2, <3>3
  <2>3. CASE SkipEcho(m)
    <3>1. /\ m.leg = "in" /\ injected' = injected
          /\ sent' = [sent EXCEPT ![m.srv] = @ \ {Uid(m)}]
      BY <2>3 DEF SkipEcho
    <3>2. CASE Uid(n) # Uid(m) \/ n.srv # m.srv
      BY <1>1, <1>2, <3>1, <3>2, MessageKept
    <3>3. CASE Uid(n) = Uid(m) /\ n.srv = m.srv
      <4>1. m.key # Anon
        BY <1>2, <3>1 DEF MessageOK
      <4>2. n.cot = m.cot /\ ~(n.key # Anon)
        BY <1>2, <3>3, <4>1 DEF PairOK
      <4> QED BY <1>1, <1>2, <3>1, <4>2 DEF MessageOK, Away, Uid
    <3> QED BY <3>2, <3>3
  <2> QED BY <2>1, <2>2, <2>3
<1>4. MessagesOK'
  BY <1>1, <1>3 DEF MessagesOK
<1>5. PairsOK'
  BY <1>1, PairsShrink DEF CalmInv
<1> QED BY <1>1, <1>4, <1>5 DEF CalmInv, RosterOK, ArrivedOK

(* What is queued for the hub is local: a federated event finds its guard. *)
LEMMA CalmQueues ==
    ASSUME Calm, TypeOK, CalmInv, NEW m \in net, QueueOutbound(m) \/ QueueDm(m)
    PROVE  CalmInv'
<1> DEFINE n == Message(m.srv, "out", m.cot, m.key)
           N == {n}
<1>1. /\ net' = (net \ {m}) \cup {n}
      /\ sent' = [sent EXCEPT ![m.srv] = @ \cup {Uid(m)}]
      /\ at' = at /\ injected' = injected
      /\ known' = known /\ dmBound' = dmBound /\ arrived' = arrived
  BY DEF QueueOutbound, QueueDm, Queue, dmVars, linkVars, historyVars
<1>2. /\ m.srv \in Servers /\ MessageOK(m)
      /\ sent \in [Servers -> SUBSET Uids]
      /\ \A o \in net : o.srv \in Servers
  BY MessageFacts DEF TypeOK
<1>3. n.srv = m.srv /\ n.leg = "out" /\ n.cot = m.cot /\ n.key = m.key
  BY DEF Message
<1>4. m.key # Anon /\ at[m.cot] = m.srv /\ ~Returned(m)
  BY <1>2, BridgeAssumption DEF QueueOutbound, QueueDm, MessageOK, Returned
<1>5. MessageOK(n)'
  <2>1. m.key \in Uids => Away(m)
    BY <1>2, BridgeAssumption DEF QueueOutbound, QueueDm, MessageOK
  <2>2. m.key \in KeysOf[m.cot]
    BY <1>2 DEF QueueOutbound, QueueDm, MessageOK
  <2> QED BY <1>1, <1>2, <1>3, <1>4, <2>1, <2>2 DEF MessageOK, Away, Uid
<1>6. \A o \in net \ {m} :
        /\ Uid(o) \in sent[o.srv] => Uid(o) \in sent'[o.srv]
        /\ Uid(o) \in injected[o.srv] => Uid(o) \in injected'[o.srv]
  BY <1>1, <1>2
<1>7. RosterOK' /\ ArrivedOK'
  BY <1>1 DEF CalmInv, RosterOK, ArrivedOK
<1> HIDE DEF n
<1>8. \A o \in N :
        /\ MessageOK(o)' /\ o.cot = m.cot
        /\ o.key # Anon => m.key # Anon
        /\ o.key # Anon /\ Returned(m) => Returned(o) /\ o.srv = m.srv
  BY <1>3, <1>4, <1>5
<1>9. \A n1, n2 \in N : n1 # n2 /\ n1.key # Anon /\ n2.key # Anon =>
            Returned(n1) /\ Returned(n2) /\ n1.srv # n2.srv
  OBVIOUS
<1>10. net' = (net \ {m}) \cup N /\ at' = at
  BY <1>1
<1> HIDE DEF N
<1> QED BY <1>6, <1>7, <1>8, <1>9, <1>10, CalmMoves

(* The hub's copies go one to each server. *)
LEMMA CalmHands ==
    ASSUME Calm, TypeOK, CalmInv, NEW m \in net, HandToHub(m)
    PROVE  CalmInv'
<1> DEFINE N == {Message(s, "in", m.cot, m.key) : s \in Servers}
<1>1. /\ net' = (net \ {m}) \cup N /\ m.leg = "out"
      /\ at' = at /\ sent' = sent /\ injected' = injected
      /\ known' = known /\ dmBound' = dmBound /\ arrived' = arrived
  BY DEF HandToHub, guardVars, dmVars, linkVars, historyVars
<1>2. MessageOK(m)
  BY MessageFacts
<1>3. \A n \in N : n.leg = "in" /\ n.cot = m.cot /\ n.key = m.key
  BY DEF Message
<1>4. \A n1, n2 \in N : n1.srv = n2.srv => n1 = n2
  BY DEF Message
<1> HIDE DEF N
<1>5. ASSUME NEW n \in N PROVE MessageOK(n)'
  BY <1>1, <1>2, <1>3 DEF MessageOK, Away, Uid
<1>6. \A n \in net \ {m} :
        /\ Uid(n) \in sent[n.srv] => Uid(n) \in sent'[n.srv]
        /\ Uid(n) \in injected[n.srv] => Uid(n) \in injected'[n.srv]
  BY <1>1
<1>7. RosterOK' /\ ArrivedOK'
  BY <1>1 DEF CalmInv, RosterOK, ArrivedOK
<1>8. ~Returned(m)
  BY <1>1 DEF Returned
<1>9. \A n \in N :
        /\ MessageOK(n)' /\ n.cot = m.cot
        /\ n.key # Anon => m.key # Anon
        /\ n.key # Anon /\ Returned(m) => Returned(n) /\ n.srv = m.srv
  BY <1>3, <1>5, <1>8
<1>10. \A n1, n2 \in N : n1 # n2 /\ n1.key # Anon /\ n2.key # Anon =>
            Returned(n1) /\ Returned(n2) /\ n1.srv # n2.srv
  BY <1>3, <1>4 DEF Returned
<1>11. net' = (net \ {m}) \cup N /\ at' = at
  BY <1>1
<1> QED BY <1>6, <1>7, <1>9, <1>10, <1>11, CalmMoves

(* What Learn records of an event that comes down to a server: its own echo
   would have met the guard. *)
LEMMA CalmLearns ==
    ASSUME TypeOK, CalmInv, NEW m \in net, m.leg = "in", Learn(m),
           at' = at, \A s \in Servers : dmBound'[s] \subseteq dmBound[s]
    PROVE  at[m.cot] # m.srv /\ RosterOK' /\ ArrivedOK'
<1>1. /\ m.srv \in Servers /\ m.cot \in Cots /\ Uid(m) \in Uids
      /\ at[m.cot] \in HomesOf[Uid(m)] /\ at[m.cot] # NoServer
      /\ at[m.cot] = m.srv => Uid(m) \in sent[m.srv]
      /\ known \in [Servers -> SUBSET Uids]
  BY MessageFacts DEF MessageOK, TypeOK
<1>2. at[m.cot] # m.srv
  BY <1>1 DEF Learn
<1>3. RosterOK'
  BY <1>1, <1>2 DEF Learn, CalmInv, RosterOK
<1>4. ArrivedOK'
  BY <1>1, <1>2 DEF Learn, CalmInv, ArrivedOK
<1> QED BY <1>2, <1>3, <1>4

(* An event of a group that comes down finds no guard and sets its own. *)
LEMMA CalmInjects ==
    ASSUME Calm, TypeOK, CalmInv, NEW m \in net, Inject(m)
    PROVE  CalmInv'
<1> DEFINE n == Message(m.srv, "injected", m.cot, m.key)
           N == {n}
<1>1. /\ net' = (net \ {m}) \cup N /\ m.leg = "in" /\ m.key \in Groups
      /\ injected' = [injected EXCEPT ![m.srv] = @ \cup {Uid(m)}]
      /\ at' = at /\ sent' = sent /\ dmBound' = dmBound /\ Learn(m)
  BY DEF Inject
<1>2. /\ m.srv \in Servers /\ MessageOK(m)
      /\ injected \in [Servers -> SUBSET Uids]
      /\ \A o \in net : o.srv \in Servers
  BY MessageFacts DEF TypeOK
<1>3. n.srv = m.srv /\ n.leg = "injected" /\ n.cot = m.cot /\ n.key = m.key
  BY DEF Message
<1> HIDE DEF n
<1>4. at[m.cot] # m.srv /\ RosterOK' /\ ArrivedOK'
  BY <1>1, CalmLearns
<1>5. MessageOK(n)'
  BY <1>1, <1>2, <1>3, <1>4 DEF MessageOK, Away, Uid
<1>6. \A o \in net \ {m} :
        /\ Uid(o) \in sent[o.srv] => Uid(o) \in sent'[o.srv]
        /\ Uid(o) \in injected[o.srv] => Uid(o) \in injected'[o.srv]
  BY <1>1, <1>2
<1>7. \A o \in N :
        /\ MessageOK(o)' /\ o.cot = m.cot
        /\ o.key # Anon => m.key # Anon
        /\ o.key # Anon /\ Returned(m) => Returned(o) /\ o.srv = m.srv
  BY <1>3, <1>5 DEF Returned
<1>8. \A n1, n2 \in N : n1 # n2 /\ n1.key # Anon /\ n2.key # Anon =>
            Returned(n1) /\ Returned(n2) /\ n1.srv # n2.srv
  OBVIOUS
<1>9. net' = (net \ {m}) \cup N /\ at' = at
  BY <1>1
<1>10. RosterOK' /\ ArrivedOK'
  BY <1>4
<1> HIDE DEF N
<1> QED BY <1>6, <1>7, <1>8, <1>9, <1>10, CalmMoves

(* Between two servers, a direct message has come home when it comes down: the
   daemon there is not bound for its recipient. *)
LEMMA CalmDelivers ==
    ASSUME Calm, TypeOK, CalmInv, NEW m \in net, DeliverDm(m)
    PROVE  CalmInv'
<1> USE BridgeAssumption
<1>1. /\ net' = (net \ {m}) \cup Publish(m.srv, m.cot, {m.key})
      /\ m.leg = "in" /\ m.key \in Uids
      /\ at' = at /\ sent' = sent /\ injected' = injected
      /\ dmBound' = dmBound /\ Learn(m)
  BY DEF DeliverDm, guardVars
<1>2. /\ m.srv \in Servers /\ m.cot \in Cots /\ at[m.cot] \in Servers
      /\ m.key \in KeysOf[m.cot] \cap Uids /\ Away(m)
  BY <1>1, MessageFacts DEF MessageOK
<1>3. at[m.cot] # m.srv /\ RosterOK' /\ ArrivedOK'
  BY <1>1, CalmLearns
<1>4. m.key \notin dmBound[m.srv]
  <2> SUFFICES ASSUME m.key \in dmBound[m.srv] PROVE FALSE
    OBVIOUS
  <2>1. PICK s \in HomesOf[m.key] : s # m.srv
    BY <1>2 DEF CalmInv, RosterOK
  <2>2. PICK t \in HomesOf[m.key] : t # at[m.cot]
    BY <1>2 DEF Away
  <2>3. s = t /\ s \in Servers
    BY <1>2 DEF Calm
  <2> QED BY <1>2, <1>3, <2>1, <2>2, <2>3 DEF Calm
<1>5. Publish(m.srv, m.cot, {m.key}) = {}
  BY <1>1, <1>4 DEF Publish
<1>6. net' \subseteq net
  BY <1>1, <1>5
<1>7. MessagesOK'
  BY <1>1, <1>6, MessageKept DEF CalmInv, MessagesOK
<1>8. PairsOK'
  BY <1>1, <1>6, PairsShrink DEF CalmInv
<1> QED BY <1>3, <1>7, <1>8 DEF CalmInv

(* The failures: a message lost, a stream left with a generator behind. *)
LEMMA CalmBreaks ==
    ASSUME Calm, TypeOK, CalmInv,
           \/ \E m \in net : EndedTakes(m) \/ ParserDrops(m) \/ InjectFails(m)
           \/ \E s \in Servers : OutboundEnds(s) \/ InboundEnds(s)
                                    \/ ConsumerEnds(s) \/ DmConsumerEnds(s)
    PROVE  CalmInv'
<1>1. ASSUME NEW m \in net, EndedTakes(m) \/ ParserDrops(m) PROVE CalmInv'
  BY <1>1, CalmShrinks DEF EndedTakes, ParserDrops, Lose, guardVars, dmVars
<1>2. ASSUME NEW s \in Servers,
             OutboundEnds(s) \/ InboundEnds(s) \/ ConsumerEnds(s) PROVE CalmInv'
  BY <1>2, CalmShrinks DEF OutboundEnds, InboundEnds, ConsumerEnds, Lose,
     guardVars, dmVars, historyVars
<1>3. ASSUME NEW s \in Servers, DmConsumerEnds(s) PROVE CalmInv'
  <2>1. \A t \in Servers : dmBound'[t] \subseteq known[t] \cup dmBound[t]
    BY <1>3 DEF DmConsumerEnds, TypeOK
  <2> QED BY <1>3, <2>1, CalmShrinks DEF DmConsumerEnds, Lose, guardVars
<1>4. ASSUME NEW m \in net, InjectFails(m) PROVE CalmInv'
  <2>1. /\ m.leg = "in" /\ Learn(m) /\ net' \subseteq net
        /\ at' = at /\ sent' = sent /\ dmBound' = dmBound
    BY <1>4 DEF InjectFails, Lose
  <2>2. RosterOK' /\ ArrivedOK'
    BY <2>1, CalmLearns
  <2>3. \A n \in net : Uid(n) \in injected[n.srv] => Uid(n) \in injected'[n.srv]
    BY <1>4, MessageFacts DEF InjectFails, TypeOK
  <2>4. MessagesOK'
    BY <2>1, <2>3, MessageKept DEF CalmInv, MessagesOK
  <2>5. PairsOK'
    BY <2>1, PairsShrink DEF CalmInv
  <2> QED BY <2>2, <2>4, <2>5 DEF CalmInv
<1> QED BY <1>1, <1>2, <1>3, <1>4

(* The roster is bound, guards lapse. *)
LEMMA CalmTends ==
    ASSUME Calm, TypeOK, CalmInv, NEW s \in Servers,
           \/ BindDms(s)
           \/ \E u \in Uids : SentLapses(s, u) \/ InjectedLapses(s, u)
    PROVE  CalmInv'
<1>1. ASSUME BindDms(s) PROVE CalmInv'
  <2>1. \A t \in Servers : dmBound'[t] \subseteq known[t] \cup dmBound[t]
    BY <1>1 DEF BindDms, TypeOK
  <2> QED BY <1>1, <2>1, CalmShrinks DEF BindDms, guardVars, historyVars
<1>2. ASSUME NEW u \in Uids, SentLapses(s, u) \/ InjectedLapses(s, u)
      PROVE  CalmInv'
  <2>1. \A n \in net : Uid(n) # u /\ n.srv \in Servers
    BY <1>2, MessageFacts DEF SentLapses, InjectedLapses, Busy
  <2>2. \A n \in net :
            /\ Uid(n) \in sent[n.srv] => Uid(n) \in sent'[n.srv]
            /\ Uid(n) \in injected[n.srv] => Uid(n) \in injected'[n.srv]
    BY <1>2, <2>1 DEF SentLapses, InjectedLapses, TypeOK
  <2> QED BY <1>2, <2>2, CalmShrinks
          DEF SentLapses, InjectedLapses, dmVars, historyVars
<1> QED BY <1>1, <1>2
-----------------------------------------------------------------------------
(* When the traffic is calm, each copy of an event on its way has the guard it
   will meet, and no guard but its own, whatever threads and streams fail. *)
THEOREM CalmInvariant == ASSUME Calm PROVE Spec => []CalmInv
<1>1. Init => CalmInv
  BY BridgeAssumption DEF Init, CalmInv, MessagesOK, PairsOK, RosterOK, ArrivedOK
<1>2. TypeOK /\ CalmInv /\ [Next]_vars => CalmInv'
  <2> SUFFICES ASSUME TypeOK, CalmInv, [Next]_vars PROVE CalmInv'
    OBVIOUS
  <2>1. CASE \E c \in Cots, s \in Servers : DeviceSends(c, s)
    BY <2>1, CalmSends
  <2>2. ASSUME NEW m \in net, Carry(m) PROVE CalmInv'
    BY <2>2, CalmRoutes, CalmSkips, CalmQueues, CalmHands, CalmInjects, CalmDelivers
       DEF Carry
  <2>3. CASE \/ \E m \in net : EndedTakes(m) \/ ParserDrops(m) \/ InjectFails(m)
             \/ \E s \in Servers : OutboundEnds(s) \/ InboundEnds(s)
                                      \/ ConsumerEnds(s) \/ DmConsumerEnds(s)
    BY <2>3, CalmBreaks
  <2>4. CASE \E s \in Servers :
                \/ BindDms(s)
                \/ \E u \in Uids : SentLapses(s, u) \/ InjectedLapses(s, u)
    BY <2>4, CalmTends
  <2>5. CASE UNCHANGED vars
    BY <2>5, CalmShrinks DEF vars, guardVars, dmVars, historyVars
  <2> QED BY <2>1, <2>2, <2>3, <2>4, <2>5 DEF Next
<1> QED BY <1>1, <1>2, BridgeTyping, PTL DEF Spec

(* _on_outbound_message: when the traffic is calm, the hub never gets an event
   back from a server that had it from the hub. *)
THEOREM CalmNotHandedBack == ASSUME Calm PROVE Spec => []NotHandedBack
<1>1. CalmInv => NotHandedBack
  BY DEF CalmInv, MessagesOK, MessageOK, NotHandedBack
<1> QED BY <1>1, CalmInvariant, PTL

(* _handle_federated_event: when the traffic is calm, no server takes its own
   devices' traffic for remote. *)
THEOREM CalmOwnTraffic == ASSUME Calm PROVE Spec => []OwnTrafficIsNotRemote
<1>1. TypeOK /\ CalmInv => OwnTrafficIsNotRemote
  BY DEF TypeOK, CalmInv, ArrivedOK, OwnTrafficIsNotRemote
<1> QED BY <1>1, BridgeTyping, CalmInvariant, PTL

-----------------------------------------------------------------------------
(* A guard that is set waits for a message on its way, or an event of the device
   was lost. *)
LostOf(u) == \E x \in lost : SenderOf[x[1]] = u

MeetsSent(n, s, u) ==
    Uid(n) = u /\ n.srv = s /\ at[n.cot] = s /\ n.leg \in {"out", "in"}
MeetsInjected(n, s, u) ==
    /\ Uid(n) = u /\ n.srv = s /\ at[n.cot] # s
    /\ n.leg \in {"injected", "groups"} /\ n.key # Anon

SentOK == \A s \in Servers : \A u \in sent[s] : LostOf(u) \/ \E n \in net : MeetsSent(n, s, u)
InjectedOK == \A s \in Servers : \A u \in injected[s] : LostOf(u) \/ \E n \in net : MeetsInjected(n, s, u)
GuardsInv == SentOK /\ InjectedOK /\ GuardsSwallowOnlyAfterLoss

(* Guards keep their messages, unless the message left and another came. *)
LEMMA SentKept ==
    ASSUME SentOK, lost \subseteq lost',
           \A n \in net : at'[n.cot] = at[n.cot],
           \A s \in Servers : \A u \in sent'[s] :
              \/ LostOf(u)'
              \/ \E n \in net' : (Uid(n) = u /\ n.srv = s /\ n.leg \in {"out", "in"} /\ at'[n.cot] = s)
              \/ u \in sent[s] /\ \A n \in net : MeetsSent(n, s, u) => n \in net'
    PROVE  SentOK'
BY DEF SentOK, MeetsSent, LostOf, Uid

LEMMA InjectedKept ==
    ASSUME InjectedOK, lost \subseteq lost',
           \A n \in net : at'[n.cot] = at[n.cot],
           \A s \in Servers : \A u \in injected'[s] :
              \/ LostOf(u)'
              \/ \E n \in net' : /\ Uid(n) = u /\ n.srv = s /\ at'[n.cot] # s
                                 /\ n.leg \in {"injected", "groups"} /\ n.key # Anon
              \/ u \in injected[s] /\ \A n \in net : MeetsInjected(n, s, u) => n \in net'
    PROVE  InjectedOK'
BY DEF InjectedOK, MeetsInjected, LostOf, Uid

LEMMA SwallowedKept ==
    ASSUME GuardsSwallowOnlyAfterLoss, lost \subseteq lost', swallowed' = swallowed
    PROVE  GuardsSwallowOnlyAfterLoss'
BY DEF GuardsSwallowOnlyAfterLoss

(* A device that sends has nothing on its way: its guards were left by a loss. *)
LEMMA GuardsSend ==
    ASSUME TypeOK, CalmInv, GuardsInv, NEW c \in Cots, NEW s \in Servers, DeviceSends(c, s)
    PROVE  GuardsInv'
<1>1. /\ at[c] = NoServer /\ at' = [at EXCEPT ![c] = s] /\ at \in [Cots -> Servers \cup {NoServer}]
      /\ net \subseteq net'
      /\ UNCHANGED <<sent, injected, lost, swallowed>>
  BY DEF DeviceSends, TypeOK, guardVars, historyVars
<1>2. \A n \in net : n.cot \in Cots /\ at[n.cot] # NoServer
  BY MessageFacts
<1>3. \A n \in net : at'[n.cot] = at[n.cot]
  BY <1>1, <1>2
<1>4. SentOK'
  BY <1>1, <1>3, SentKept DEF GuardsInv
<1>5. InjectedOK'
  BY <1>1, <1>3, InjectedKept DEF GuardsInv
<1> QED
  BY <1>1, <1>4, <1>5, SwallowedKept DEF GuardsInv

(* The steps on the way to the hub, and the hub's. *)
LEMMA GuardsMove ==
    ASSUME Calm, TypeOK, CalmInv, GuardsInv, NEW m \in net,
           Route(m) \/ SkipAnon(m) \/ QueueOutbound(m) \/ QueueDm(m) \/ HandToHub(m)
    PROVE  GuardsInv'
<1> USE BridgeAssumption
<1>1. at' = at /\ lost' = lost /\ swallowed' = swallowed /\ injected' = injected
      /\ net \ {m} \subseteq net'
  BY DEF Route, SkipAnon, QueueOutbound, QueueDm, Queue, HandToHub, guardVars, historyVars
<1>2. /\ m.srv \in Servers /\ MessageOK(m) /\ Uid(m) \in Uids
      /\ sent \in [Servers -> SUBSET Uids]
  BY MessageFacts DEF TypeOK
<1>3. SentOK'
  <2>1. CASE Route(m) \/ SkipAnon(m)
    <3>1. sent' = sent /\ m.leg \notin {"out", "in"}
      BY <2>1 DEF Route, SkipAnon, guardVars
    <3> QED
      BY <1>1, <3>1, SentKept DEF GuardsInv, MeetsSent
  <2>2. CASE QueueOutbound(m) \/ QueueDm(m)
    <3> DEFINE n == Message(m.srv, "out", m.cot, m.key)
    <3>1. /\ m.leg \notin {"out", "in"} /\ n \in net'
          /\ sent' = [sent EXCEPT ![m.srv] = @ \cup {Uid(m)}]
      BY <2>2 DEF QueueOutbound, QueueDm, Queue
    <3>2. at[m.cot] = m.srv
      BY <1>2, <2>2 DEF QueueOutbound, QueueDm, MessageOK
    <3>3. Uid(n) = Uid(m) /\ n.srv = m.srv /\ n.leg = "out" /\ at'[n.cot] = m.srv
      BY <1>1, <3>2 DEF Message, Uid
    <3>4. \A s \in Servers : \A u \in sent'[s] : u \in sent[s] \/ (s = m.srv /\ u = Uid(m))
      BY <1>2, <3>1
    <3> HIDE DEF n
    <3> QED
      BY <1>1, <3>1, <3>3, <3>4, SentKept DEF GuardsInv, MeetsSent
  <2>3. CASE HandToHub(m)
    <3> DEFINE n == Message(m.srv, "in", m.cot, m.key)
    <3>1. /\ m.leg = "out" /\ n \in net' /\ sent' = sent
      BY <1>2, <2>3 DEF HandToHub, guardVars
    <3>2. at[m.cot] = m.srv
      BY <1>2, <3>1 DEF MessageOK
    <3>3. Uid(n) = Uid(m) /\ n.srv = m.srv /\ n.leg = "in" /\ at'[n.cot] = m.srv
      BY <1>1, <3>2 DEF Message, Uid
    <3> HIDE DEF n
    <3>4. ASSUME NEW s \in Servers, NEW u \in sent'[s]
          PROVE  \/ \E x \in net' : (Uid(x) = u /\ x.srv = s /\ x.leg \in {"out", "in"} /\ at'[x.cot] = s)
                 \/ u \in sent[s] /\ \A x \in net : MeetsSent(x, s, u) => x \in net'
      <4>1. CASE MeetsSent(m, s, u)
        BY <3>1, <3>3, <4>1 DEF MeetsSent
      <4> QED
        BY <1>1, <3>1, <3>4, <4>1
    <3> QED
      BY <1>1, <3>4, SentKept DEF GuardsInv
  <2> QED
    BY <2>1, <2>2, <2>3
<1>4. InjectedOK'
  <2>1. CASE Route(m)
    <3> DEFINE n == Message(m.srv, "groups", m.cot, m.key)
    <3>1. m.leg \in {"device", "injected"}
      BY <2>1 DEF Route
    <3>2. m.leg = "injected" => m.key \in Groups \ {Anon} /\ at[m.cot] # m.srv /\ n \in net'
      BY <1>2, <2>1 DEF Route, Publish, MessageOK
    <3>3. m.leg = "device" => at[m.cot] = m.srv
      BY <1>2 DEF MessageOK
    <3>4. n.cot = m.cot /\ Uid(n) = Uid(m) /\ n.srv = m.srv /\ n.leg = "groups" /\ n.key = m.key
      BY DEF Message, Uid
    <3> HIDE DEF n
    <3>5. ASSUME NEW s \in Servers, NEW u \in injected'[s]
          PROVE  \/ \E x \in net' : /\ Uid(x) = u /\ x.srv = s /\ at'[x.cot] # s
                                    /\ x.leg \in {"injected", "groups"} /\ x.key # Anon
                 \/ u \in injected[s] /\ \A x \in net : MeetsInjected(x, s, u) => x \in net'
      <4>1. CASE MeetsInjected(m, s, u)
        <5>1. m.leg = "injected"
          BY <3>1, <4>1 DEF MeetsInjected
        <5>2. n \in net' /\ Uid(n) = u /\ n.srv = s /\ at'[n.cot] # s /\ n.leg = "groups" /\ n.key # Anon
          BY <1>1, <3>2, <3>4, <4>1, <5>1 DEF MeetsInjected
        <5> QED
          BY <5>2
      <4> QED
        BY <1>1, <3>5, <4>1
    <3> QED
      BY <1>1, <3>5, InjectedKept DEF GuardsInv
  <2>2. CASE ~Route(m)
    <3>1. \A s \in Servers : \A u \in injected[s] : ~MeetsInjected(m, s, u)
      BY <2>2 DEF SkipAnon, QueueOutbound, QueueDm, HandToHub, MeetsInjected
    <3> QED
      BY <1>1, <3>1, InjectedKept DEF GuardsInv
  <2> QED
    BY <2>1, <2>2
<1> QED
  BY <1>1, <1>3, <1>4, SwallowedKept DEF GuardsInv

(* A guard that keeps an event away was set for another one, which was lost: no two
   events of the device are on their way. *)
LEMMA GuardsSkip ==
    ASSUME Calm, TypeOK, CalmInv, GuardsInv, NEW m \in net, SkipInjected(m) \/ SkipEcho(m)
    PROVE  GuardsInv'
<1>1. at' = at /\ lost' = lost /\ net' = net \ {m}
  BY DEF SkipInjected, SkipEcho
<1>2. /\ m.srv \in Servers /\ m.cot \in Cots /\ Uid(m) \in Uids
      /\ sent \in [Servers -> SUBSET Uids] /\ injected \in [Servers -> SUBSET Uids]
      /\ \A n \in net : Uid(n) = Uid(m) => n.cot = m.cot
  BY MessageFacts DEF TypeOK, PairOK
<1>3. CASE SkipInjected(m)
  <2>1. /\ m.leg = "groups" /\ m.key # Anon /\ Uid(m) \in injected[m.srv]
        /\ injected' = [injected EXCEPT ![m.srv] = @ \ {Uid(m)}] /\ sent' = sent
        /\ swallowed' = IF at[m.cot] = m.srv THEN swallowed \cup Others(m.cot) ELSE swallowed
    BY <1>3 DEF SkipInjected
  <2>2. at[m.cot] = m.srv => LostOf(Uid(m))
    BY <1>2, <2>1 DEF GuardsInv, InjectedOK, MeetsInjected
  <2>3. \A e \in Others(m.cot) : SenderOf[e[1]] = Uid(m)
    BY DEF Others, Uid
  <2>4. GuardsSwallowOnlyAfterLoss'
    BY <1>1, <2>1, <2>2, <2>3 DEF GuardsInv, GuardsSwallowOnlyAfterLoss, LostOf
  <2>5. \A s \in Servers, u \in Uids : u \in injected'[s] => u \in injected[s] /\ ~MeetsInjected(m, s, u)
    BY <1>2, <2>1 DEF MeetsInjected
  <2>6. \A s \in Servers : \A u \in injected'[s] :
            u \in injected[s] /\ \A n \in net : MeetsInjected(n, s, u) => n \in net'
    BY <1>1, <1>2, <2>1, <2>5
  <2>7. InjectedOK'
    BY <1>1, <2>6, InjectedKept DEF GuardsInv
  <2>8. SentOK'
    BY <1>1, <2>1, SentKept DEF GuardsInv, MeetsSent
  <2> QED
    BY <2>4, <2>7, <2>8 DEF GuardsInv
<1>4. CASE SkipEcho(m)
  <2>1. /\ m.leg = "in" /\ Uid(m) \in sent[m.srv]
        /\ sent' = [sent EXCEPT ![m.srv] = @ \ {Uid(m)}] /\ injected' = injected
        /\ swallowed' = IF at[m.cot] # m.srv THEN swallowed \cup {<<m.cot, m.srv>>} ELSE swallowed
    BY <1>4 DEF SkipEcho
  <2>2. at[m.cot] # m.srv => LostOf(Uid(m))
    BY <1>2, <2>1 DEF GuardsInv, SentOK, MeetsSent
  <2>3. GuardsSwallowOnlyAfterLoss'
    BY <1>1, <2>1, <2>2 DEF GuardsInv, GuardsSwallowOnlyAfterLoss, LostOf, Uid
  <2>4. \A s \in Servers, u \in Uids : u \in sent'[s] => u \in sent[s] /\ ~MeetsSent(m, s, u)
    BY <1>2, <2>1 DEF MeetsSent
  <2>5. \A s \in Servers : \A u \in sent'[s] : u \in sent[s] /\ \A n \in net : MeetsSent(n, s, u) => n \in net'
    BY <1>1, <1>2, <2>1, <2>4
  <2>6. SentOK'
    BY <1>1, <2>5, SentKept DEF GuardsInv
  <2>7. InjectedOK'
    BY <1>1, <2>1, InjectedKept DEF GuardsInv, MeetsInjected
  <2> QED
    BY <2>3, <2>6, <2>7 DEF GuardsInv
<1> QED
  BY <1>3, <1>4

(* What comes down from the hub and is not an echo. *)
LEMMA GuardsDown ==
    ASSUME Calm, TypeOK, CalmInv, GuardsInv, NEW m \in net, Inject(m) \/ DeliverDm(m)
    PROVE  GuardsInv'
<1> USE BridgeAssumption
<1>1. /\ at' = at /\ lost' = lost /\ swallowed' = swallowed /\ sent' = sent /\ net \ {m} \subseteq net'
      /\ m.leg = "in" /\ Uid(m) \notin sent[m.srv]
  BY DEF Inject, DeliverDm, Learn, guardVars
<1>2. m.srv \in Servers /\ injected \in [Servers -> SUBSET Uids] /\ MessageOK(m)
  BY MessageFacts DEF TypeOK
<1>3. SentOK'
  BY <1>1, SentKept DEF GuardsInv, MeetsSent
<1>4. InjectedOK'
  <2>1. CASE DeliverDm(m)
    <3>1. injected' = injected
      BY <2>1 DEF DeliverDm, guardVars
    <3> QED
      BY <1>1, <3>1, InjectedKept DEF GuardsInv, MeetsInjected
  <2>2. CASE Inject(m)
    <3> DEFINE n == Message(m.srv, "injected", m.cot, m.key)
    <3>1. n \in net' /\ injected' = [injected EXCEPT ![m.srv] = @ \cup {Uid(m)}]
      BY <2>2 DEF Inject
    <3>2. at[m.cot] # m.srv /\ m.key # Anon
      BY <1>1, <1>2 DEF MessageOK
    <3>3. Uid(n) = Uid(m) /\ n.srv = m.srv /\ n.leg = "injected" /\ at'[n.cot] # m.srv /\ n.key # Anon
      BY <1>1, <3>2 DEF Message, Uid
    <3>4. \A s \in Servers : \A u \in injected'[s] : u \in injected[s] \/ (s = m.srv /\ u = Uid(m))
      BY <1>2, <3>1
    <3> HIDE DEF n
    <3> QED
      BY <1>1, <3>1, <3>3, <3>4, InjectedKept DEF GuardsInv, MeetsInjected
  <2> QED
    BY <2>1, <2>2
<1> QED
  BY <1>1, <1>3, <1>4, SwallowedKept DEF GuardsInv

(* A lost message is remembered as a loss of its device. *)
LEMMA LossesCount ==
    ASSUME TypeOK, NEW S \in SUBSET net, lost' = lost \cup UNION {Deprived(n) : n \in S}
    PROVE  lost \subseteq lost' /\ \A n \in S : LostOf(Uid(n))'
<1>1. ASSUME NEW n \in S PROVE \E x \in Deprived(n) : SenderOf[x[1]] = Uid(n)
  <2>1. n.srv \in Servers /\ <<n.cot, n.srv>> \in Deprived(n)
    BY <1>1 DEF TypeOK, Messages, Deprived, Everywhere
  <2>2. SenderOf[<<n.cot, n.srv>>[1]] = Uid(n)
    BY DEF Uid
  <2> QED
    BY <2>1, <2>2
<1>2. \A n \in S : Deprived(n) \subseteq lost'
  OBVIOUS
<1> QED
  BY <1>1, <1>2 DEF LostOf

(* Messages S are lost. *)
LEMMA GuardsLose ==
    ASSUME TypeOK, GuardsInv, NEW S \in SUBSET net, net' = net \ S, at' = at, swallowed' = swallowed,
           lost \subseteq lost', \A n \in S : LostOf(Uid(n))',
           \A s \in Servers : sent'[s] = sent[s] /\ \A u \in injected'[s] : u \in injected[s] \/ LostOf(u)'
    PROVE  GuardsInv'
<1>1. \A s \in Servers : \A u \in sent'[s] :
        LostOf(u)' \/ (u \in sent[s] /\ \A n \in net : MeetsSent(n, s, u) => n \in net')
  BY DEF MeetsSent
<1>2. \A s \in Servers : \A u \in injected'[s] :
        LostOf(u)' \/ (u \in injected[s] /\ \A n \in net : MeetsInjected(n, s, u) => n \in net')
  BY DEF MeetsInjected
<1>3. SentOK'
  BY <1>1, SentKept DEF GuardsInv
<1>4. InjectedOK'
  BY <1>2, InjectedKept DEF GuardsInv
<1> QED
  BY <1>3, <1>4, SwallowedKept DEF GuardsInv

LEMMA GuardsBreak ==
    ASSUME TypeOK, CalmInv, GuardsInv,
           \/ \E m \in net : EndedTakes(m) \/ ParserDrops(m) \/ InjectFails(m)
           \/ \E s \in Servers : OutboundEnds(s) \/ InboundEnds(s)
                                    \/ ConsumerEnds(s) \/ DmConsumerEnds(s)
    PROVE  GuardsInv'
<1>1. ASSUME NEW m \in net, EndedTakes(m) PROVE GuardsInv'
  <2> DEFINE S == {m}
  <2>1. /\ net' = net \ {m} /\ lost' = lost \cup Everywhere(m.cot) /\ at' = at /\ swallowed' = swallowed
        /\ sent' = sent /\ injected' = injected
    BY <1>1 DEF EndedTakes, guardVars
  <2>2. <<m.cot, m.srv>> \in lost'
    BY <2>1, MessageFacts DEF Everywhere
  <2>3. LostOf(Uid(m))'
    BY <2>2 DEF LostOf, Uid
  <2>4. S \in SUBSET net /\ net' = net \ S /\ lost \subseteq lost' /\ \A n \in S : LostOf(Uid(n))'
    BY <2>1, <2>3
  <2>5. \A s \in Servers : sent'[s] = sent[s] /\ \A u \in injected'[s] : u \in injected[s] \/ LostOf(u)'
    BY <2>1
  <2> HIDE DEF S
  <2> QED
    BY <2>1, <2>4, <2>5, GuardsLose
<1>2. ASSUME NEW S \in SUBSET net, Lose(S), at' = at, swallowed' = swallowed,
             \A s \in Servers : sent'[s] = sent[s] /\ \A u \in injected'[s] : u \in injected[s] \/ \E n \in S : u = Uid(n)
      PROVE  GuardsInv'
  <2>1. lost \subseteq lost' /\ \A n \in S : LostOf(Uid(n))'
    BY <1>2, LossesCount DEF Lose
  <2>2. net' = net \ S
    BY <1>2 DEF Lose
  <2> QED
    BY <1>2, <2>1, <2>2, GuardsLose
<1>3. ASSUME NEW m \in net, ParserDrops(m) PROVE GuardsInv'
  BY <1>2, <1>3 DEF ParserDrops, guardVars
<1>4. ASSUME NEW m \in net, InjectFails(m) PROVE GuardsInv'
  <2> DEFINE S == {x \in net : x.srv = m.srv /\ x.leg = "in"}
  <2>1. Lose(S) /\ m \in S /\ at' = at /\ swallowed' = swallowed /\ sent' = sent
        /\ injected' = IF m.key \in Groups THEN [injected EXCEPT ![m.srv] = @ \cup {Uid(m)}] ELSE injected
    BY <1>4 DEF InjectFails
  <2>2. \A s \in Servers : \A u \in injected'[s] : u \in injected[s] \/ u = Uid(m)
    BY <2>1, MessageFacts DEF TypeOK
  <2>3. S \in SUBSET net
    OBVIOUS
  <2> HIDE DEF S
  <2> QED
    BY <1>2, <2>1, <2>2, <2>3
<1>5. ASSUME NEW s \in Servers, OutboundEnds(s) PROVE GuardsInv'
  BY <1>5, SentKept, InjectedKept, SwallowedKept DEF OutboundEnds, guardVars, historyVars, GuardsInv
<1>6. ASSUME NEW s \in Servers, InboundEnds(s) PROVE GuardsInv'
  BY <1>2, <1>6 DEF InboundEnds, guardVars
<1>7. ASSUME NEW s \in Servers, ConsumerEnds(s) PROVE GuardsInv'
  BY <1>2, <1>7 DEF ConsumerEnds, guardVars
<1>8. ASSUME NEW s \in Servers, DmConsumerEnds(s) PROVE GuardsInv'
  BY <1>2, <1>8 DEF DmConsumerEnds, guardVars
<1> QED
  BY <1>1, <1>3, <1>4, <1>5, <1>6, <1>7, <1>8

LEMMA GuardsTend ==
    ASSUME TypeOK, GuardsInv, NEW s \in Servers,
           \/ BindDms(s)
           \/ \E u \in Uids : SentLapses(s, u) \/ InjectedLapses(s, u)
    PROVE  GuardsInv'
<1>1. /\ at' = at /\ net' = net /\ lost' = lost /\ swallowed' = swallowed
      /\ \A t \in Servers : sent'[t] \subseteq sent[t] /\ injected'[t] \subseteq injected[t]
  BY DEF BindDms, SentLapses, InjectedLapses, TypeOK, guardVars, historyVars
<1>2. SentOK'
  BY <1>1, SentKept DEF GuardsInv
<1>3. InjectedOK'
  BY <1>1, InjectedKept DEF GuardsInv
<1> QED
  BY <1>1, <1>2, <1>3, SwallowedKept DEF GuardsInv

(* _recently_sent and _recently_injected: when the traffic is calm, a guard only
   keeps away an event of a device of which an earlier one was lost on its way to
   that guard: without failures no event is swallowed. *)
THEOREM CalmGuardsServeTheirEvent == ASSUME Calm PROVE Spec => []GuardsSwallowOnlyAfterLoss
<1>1. Init => GuardsInv
  BY DEF Init, GuardsInv, SentOK, InjectedOK, GuardsSwallowOnlyAfterLoss
<1>2. TypeOK /\ CalmInv /\ GuardsInv /\ [Next]_vars => GuardsInv'
  <2> SUFFICES ASSUME TypeOK, CalmInv, GuardsInv, [Next]_vars PROVE GuardsInv'
    OBVIOUS
  <2>1. CASE \E c \in Cots, s \in Servers : DeviceSends(c, s)
    BY <2>1, GuardsSend
  <2>2. ASSUME NEW m \in net, Carry(m) PROVE GuardsInv'
    BY <2>2, GuardsMove, GuardsSkip, GuardsDown DEF Carry
  <2>3. CASE \/ \E m \in net : EndedTakes(m) \/ ParserDrops(m) \/ InjectFails(m)
             \/ \E s \in Servers : OutboundEnds(s) \/ InboundEnds(s)
                                      \/ ConsumerEnds(s) \/ DmConsumerEnds(s)
    BY <2>3, GuardsBreak
  <2>4. CASE \E s \in Servers :
                \/ BindDms(s)
                \/ \E u \in Uids : SentLapses(s, u) \/ InjectedLapses(s, u)
    BY <2>4, GuardsTend
  <2>5. CASE UNCHANGED vars
    <3>1. UNCHANGED <<at, net, lost, swallowed, sent, injected>>
      BY <2>5 DEF vars, guardVars, historyVars
    <3> QED
      BY <3>1, SentKept, InjectedKept, SwallowedKept DEF GuardsInv
  <2> QED
    BY <2>1, <2>2, <2>3, <2>4, <2>5 DEF Next
<1>3. GuardsInv => GuardsSwallowOnlyAfterLoss
  BY DEF GuardsInv
<1> QED
  BY <1>1, <1>2, <1>3, BridgeTyping, CalmInvariant, PTL DEF Spec
=============================================================================
