---------------------------- MODULE DeviceProofs ----------------------------
(* Proofs about what reaches a device: the commands kept for it (RemoteClear)
   and the groups its queue is bound to (GroupMembership). *)
EXTENDS RemoteClear, GroupMembership, TLAPS

(* The state of the deliveries: a handler comes to the rows only once its own row
   is saved, what it wrote is what it read, and NotOverlooked. *)
CommandsTypeOK ==
    /\ LinkTypeOK
    /\ toAsk \in [Requests -> SUBSET Devices]
    /\ command \in [Commands -> {"none", "pending", "delivered"}]
    /\ skipped \subseteq Commands
    /\ stage \in [Conns -> Stages]
    /\ seen \in [Conns -> SUBSET Requests]

ReadsWhenLive == \A c \in Conns : phase[c] \in {"new", "open"} => stage[c] = "before"
WroteWhatItRead == \A c \in Conns : stage[c] = "written" => {c} \X seen[c] \subseteq written

ClearInv ==
    /\ CommandsTypeOK
    /\ ReadsWhenLive
    /\ WroteWhatItRead
    /\ DeliveredWasWritten
    /\ NotOverlooked

LEMMA ClearStart == ClearInit => ClearInv
BY LinkAssumption DEF ClearInit, LinkInit, ClearInv, CommandsTypeOK, LinkTypeOK, Stages, ReadsWhenLive,
   WroteWhatItRead, DeliveredWasWritten, NotOverlooked, Asked, Commands

(* The connections go on: rows and deliveries stay, no connection gets its queue or
   its socket once its handler may read. *)
LEMMA LinkKeepsCommands ==
    ASSUME ClearInv, toAsk' = toAsk, command' = command, skipped' = skipped, stage' = stage,
           seen' = seen, written' = written, LinkTypeOK',
           \A c \in Conns :
              /\ phase'[c] \in {"new", "open"} => phase[c] \in {"new", "open"}
              /\ ctl'[c] => ctl[c] \/ phase[c] = "open"
              /\ sock[c] = "gone" /\ sock'[c] # "gone" => phase[c] = "new"
              /\ c \in leaving /\ c \notin leaving' => sock'[c] = "gone" \/ ~ctl'[c]
    PROVE ClearInv'
<1>1. CommandsTypeOK' /\ ReadsWhenLive' /\ WroteWhatItRead' /\ DeliveredWasWritten'
  BY DEF ClearInv, CommandsTypeOK, ReadsWhenLive, WroteWhatItRead, DeliveredWasWritten
<1>2. NotOverlooked'
  <2> SUFFICES ASSUME NEW r \in Requests, NEW c \in Conns, Asked(r, DeviceOf[c]), ctl'[c], stage[c] # "before",
                      r \notin seen[c], command[<<r, DeviceOf[c]>>] # "delivered", sock'[c] # "gone"
               PROVE  c \in leaving'
    BY DEF NotOverlooked, Asked
  <2>1. phase[c] \notin {"new", "open"}
    BY DEF ClearInv, ReadsWhenLive
  <2>2. ctl[c] /\ sock[c] # "gone"
    BY <2>1
  <2>3. c \in leaving
    BY <2>2 DEF ClearInv, NotOverlooked
  <2> QED
    BY <2>3
<1> QED
  BY <1>1, <1>2 DEF ClearInv

LEMMA LinkStepsKeepType ==
    ASSUME LinkTypeOK, LinkStep \/ LinkRestart PROVE LinkTypeOK'
<1>1. \A D : MarkedDisconnected(D) \in [Devices -> {"none", "Connected", "Disconnected"}]
  BY DEF LinkTypeOK, MarkedDisconnected
<1>2. ASSUME NEW S \in SUBSET Conns, NEW X, NEW D, LinkEnd(S, X, D),
             status' \in [Devices -> {"none", "Connected", "Disconnected"}]
      PROVE LinkTypeOK'
  BY <1>2 DEF LinkTypeOK, LinkEnd
<1>3. ASSUME NEW c \in Conns, LinkAccept(c) \/ LinkBind(c) \/ LinkSave(c) \/ LinkLeave(c) \/ LinkPeerGone(c)
      PROVE LinkTypeOK'
  BY <1>3, LinkAssumption DEF LinkTypeOK, LinkAccept, LinkBind, LinkSave, LinkLeave, LinkPeerGone
<1>4. ASSUME NEW c \in Conns, LinkClose(c) PROVE LinkTypeOK'
  BY <1>1, <1>2, <1>4 DEF LinkClose, LinkTypeOK
<1>5. CASE LinkRestart
  BY <1>1, <1>2, <1>5 DEF LinkRestart
<1>6. ASSUME NEW d \in Devices, LinkMark(d) PROVE LinkTypeOK'
  BY <1>1, <1>6 DEF LinkMark, LinkTypeOK
<1> QED
  BY <1>3, <1>4, <1>5, <1>6 DEF LinkStep

LEMMA LinkStepsKeepCommands ==
    ASSUME ClearInv, LinkStep \/ LinkRestart, toAsk' = toAsk, command' = command, skipped' = skipped,
           stage' = stage, seen' = seen, written' = written
    PROVE ClearInv'
<1>t. LinkTypeOK /\ LinkTypeOK'
  BY LinkStepsKeepType DEF ClearInv, CommandsTypeOK
<1> DEFINE Keeps(c) ==
       /\ phase'[c] \in {"new", "open"} => phase[c] \in {"new", "open"}
       /\ ctl'[c] => ctl[c] \/ phase[c] = "open"
       /\ sock[c] = "gone" /\ sock'[c] # "gone" => phase[c] = "new"
       /\ c \in leaving /\ c \notin leaving' => sock'[c] = "gone" \/ ~ctl'[c]
<1>1. ASSUME NEW S \in SUBSET Conns, NEW X, NEW D, LinkEnd(S, X, D) PROVE \A c \in Conns : Keeps(c)
  BY <1>1 DEF LinkEnd
<1>2. ASSUME NEW b \in Conns, LinkAccept(b) \/ LinkBind(b) \/ LinkSave(b) \/ LinkLeave(b) \/ LinkPeerGone(b)
      PROVE \A c \in Conns : Keeps(c)
  <2>1. CASE LinkAccept(b)
    BY <1>t, <2>1 DEF LinkAccept, LinkTypeOK
  <2>2. CASE LinkBind(b)
    BY <1>t, <2>2 DEF LinkBind, LinkTypeOK
  <2>3. CASE LinkSave(b)
    BY <1>t, <2>3 DEF LinkSave, LinkTypeOK
  <2>4. CASE LinkLeave(b)
    BY <1>t, <2>4 DEF LinkLeave, LinkTypeOK
  <2>5. CASE LinkPeerGone(b)
    BY <1>t, <2>5 DEF LinkPeerGone, LinkTypeOK
  <2> QED
    BY <1>2, <2>1, <2>2, <2>3, <2>4, <2>5
<1>3. ASSUME NEW d \in Devices, LinkMark(d) PROVE \A c \in Conns : Keeps(c)
  BY <1>3 DEF LinkMark
<1>4. \A c \in Conns : Keeps(c)
  BY <1>1, <1>2, <1>3 DEF LinkStep, LinkRestart, LinkClose
<1> QED
  BY <1>t, <1>4, LinkKeepsCommands

(* The web process stores the rows of a request and looks at the devices. *)
LEMMA RequestsKeepCommands ==
    ASSUME ClearInv, NEW r \in Requests, StoreClear(r) \/ Ask(r) \/ AskFails(r) PROVE ClearInv'
<1>t. CommandsTypeOK /\ NotOverlooked
  BY DEF ClearInv
<1>1. stage' = stage /\ seen' = seen /\ written' = written /\ phase' = phase /\ sock' = sock /\ ctl' = ctl
  BY DEF StoreClear, Ask, AskReconnect, SkipDevice, LinkAsk, AskFails, linkVars, deliverVars
<1>2. CASE StoreClear(r)
  <2>1. /\ toAsk' = [toAsk EXCEPT ![r] = Devices] /\ skipped' = skipped /\ leaving' = leaving /\ status' = status
        /\ command' = [x \in Commands |-> IF x[1] = r THEN "pending" ELSE command[x]]
        /\ \A d \in Devices : command[<<r, d>>] = "none"
    BY <1>2 DEF StoreClear, linkVars
  <2>2. CommandsTypeOK'
    BY <1>t, <1>1, <2>1 DEF CommandsTypeOK, LinkTypeOK
  <2>3. \A x \in Commands : x[1] = r => command[x] = "none" /\ command'[x] = "pending"
    BY <2>1 DEF Commands
  <2>4. \A x \in Commands : x[1] # r => command'[x] = command[x]
    BY <2>1
  <2>5. DeliveredWasWritten'
    BY <1>1, <2>3, <2>4 DEF ClearInv, DeliveredWasWritten
  <2>6. NotOverlooked'
    <3> SUFFICES ASSUME NEW q \in Requests, NEW c \in Conns, Asked(q, DeviceOf[c])', ctl'[c],
                        stage'[c] # "before"
                 PROVE  \/ q \in seen'[c] \/ command'[<<q, DeviceOf[c]>>] = "delivered"
                        \/ c \in leaving' \/ sock'[c] = "gone"
      BY DEF NotOverlooked
    <3>0. DeviceOf[c] \in Devices /\ <<q, DeviceOf[c]>> \in Commands
      BY LinkAssumption DEF Commands
    <3>1. q # r
      BY <1>t, <2>1, <3>0 DEF Asked, CommandsTypeOK
    <3>2. Asked(q, DeviceOf[c]) /\ command'[<<q, DeviceOf[c]>>] = command[<<q, DeviceOf[c]>>]
      BY <1>t, <2>1, <2>4, <3>0, <3>1 DEF Asked, CommandsTypeOK
    <3> QED
      BY <1>t, <1>1, <2>1, <3>2 DEF NotOverlooked
  <2> QED
    BY <1>1, <2>2, <2>5, <2>6 DEF ClearInv, ReadsWhenLive, WroteWhatItRead
<1>3. ASSUME command' = command, leaving \subseteq leaving', skipped \subseteq skipped', CommandsTypeOK',
             \A q \in Requests, d \in Devices : d \in toAsk[q] /\ d \notin toAsk'[q] =>
                \/ <<q, d>> \in skipped'
                \/ \A c \in Conns : DeviceOf[c] = d /\ ctl[c] => c \in leaving'
      PROVE ClearInv'
  <2>1. NotOverlooked'
    <3> SUFFICES ASSUME NEW q \in Requests, NEW c \in Conns, Asked(q, DeviceOf[c])', ctl'[c],
                        stage'[c] # "before"
                 PROVE  \/ q \in seen'[c] \/ command'[<<q, DeviceOf[c]>>] = "delivered"
                        \/ c \in leaving' \/ sock'[c] = "gone"
      BY DEF NotOverlooked
    <3>0. DeviceOf[c] \in Devices
      BY LinkAssumption
    <3>1. CASE DeviceOf[c] \in toAsk[q]
      BY <1>1, <1>3, <3>0, <3>1 DEF Asked
    <3>2. CASE DeviceOf[c] \notin toAsk[q]
      BY <1>t, <1>1, <1>3, <3>2 DEF Asked, NotOverlooked
    <3> QED
      BY <3>1, <3>2
  <2> QED
    BY <1>1, <1>3, <2>1 DEF ClearInv, ReadsWhenLive, WroteWhatItRead, DeliveredWasWritten
<1>4. ASSUME NEW d \in toAsk[r], AskReconnect(r, d) PROVE ClearInv'
  <2>1. /\ toAsk' = [toAsk EXCEPT ![r] = @ \ {d}] /\ skipped' = skipped /\ command' = command
        /\ leaving' = leaving \cup {c \in Conns : DeviceOf[c] = d /\ ctl[c]} /\ status' = status
    BY <1>4 DEF AskReconnect, LinkAsk
  <2>2. CommandsTypeOK'
    BY <1>t, <1>1, <2>1 DEF CommandsTypeOK, LinkTypeOK
  <2>3. \A q \in Requests, e \in Devices : e \in toAsk[q] /\ e \notin toAsk'[q] => q = r /\ e = d
    BY <1>t, <2>1 DEF CommandsTypeOK
  <2> QED
    BY <1>3, <2>1, <2>2, <2>3
<1>5. ASSUME NEW d \in toAsk[r], SkipDevice(r, d) PROVE ClearInv'
  <2>1. /\ toAsk' = [toAsk EXCEPT ![r] = @ \ {d}] /\ skipped' = skipped \cup {<<r, d>>}
        /\ command' = command /\ leaving' = leaving /\ status' = status
    BY <1>5 DEF SkipDevice, linkVars
  <2>2. CommandsTypeOK' /\ d \in Devices
    BY <1>t, <1>1, <2>1 DEF CommandsTypeOK, LinkTypeOK, Commands
  <2>3. \A q \in Requests, e \in Devices : e \in toAsk[q] /\ e \notin toAsk'[q] => q = r /\ e = d
    BY <1>t, <2>1 DEF CommandsTypeOK
  <2> QED
    BY <1>3, <2>1, <2>2, <2>3
<1>6. CASE AskFails(r)
  <2>1. /\ toAsk' = [toAsk EXCEPT ![r] = {}] /\ skipped' = skipped \cup {r} \X toAsk[r]
        /\ command' = command /\ leaving' = leaving /\ status' = status
    BY <1>6 DEF AskFails, linkVars
  <2>2. CommandsTypeOK'
    BY <1>t, <1>1, <2>1 DEF CommandsTypeOK, LinkTypeOK, Commands
  <2>3. \A q \in Requests, e \in Devices : e \in toAsk[q] /\ e \notin toAsk'[q] => q = r
    BY <1>t, <2>1 DEF CommandsTypeOK
  <2> QED
    BY <1>3, <2>1, <2>2, <2>3
<1> QED
  BY <1>2, <1>4, <1>5, <1>6 DEF Ask

(* A handler delivers: what it read is written before it is stamped. *)
LEMMA DeliveriesKeepCommands ==
    ASSUME ClearInv, NEW b \in Conns, Deliver(b) PROVE ClearInv'
<1>t. CommandsTypeOK /\ ReadsWhenLive /\ WroteWhatItRead /\ DeliveredWasWritten /\ NotOverlooked
  BY DEF ClearInv
<1>d. DeviceOf[b] \in Devices /\ \A r \in Requests : <<r, DeviceOf[b]>> \in Commands
  BY LinkAssumption DEF Commands
<1>1. /\ phase' = phase /\ sock' = sock /\ ctl' = ctl /\ leaving' = leaving /\ status' = status
      /\ toAsk' = toAsk /\ skipped' = skipped /\ phase[b] = "live"
  BY DEF Deliver, Read, Write, WriteFails, Stamp, StampFails, linkVars
<1>2. CASE Read(b)
  <2>1. /\ seen' = [seen EXCEPT ![b] = PendingFor(DeviceOf[b])] /\ command' = command /\ written' = written
        /\ \E st \in {"done", "read"} : stage' = [stage EXCEPT ![b] = st]
        /\ stage[b] = "before"
    BY <1>2 DEF Read
  <2>2. CommandsTypeOK' /\ ReadsWhenLive' /\ WroteWhatItRead' /\ DeliveredWasWritten'
    <3>1. CommandsTypeOK'
      BY <1>t, <1>1, <2>1 DEF CommandsTypeOK, LinkTypeOK, Stages, PendingFor
    <3>2. ReadsWhenLive' /\ DeliveredWasWritten'
      BY <1>t, <1>1, <2>1 DEF CommandsTypeOK, ReadsWhenLive, DeliveredWasWritten
    <3>3. WroteWhatItRead'
      BY <1>t, <2>1 DEF CommandsTypeOK, WroteWhatItRead
    <3> QED
      BY <3>1, <3>2, <3>3
  <2>3. NotOverlooked'
    <3> SUFFICES ASSUME NEW q \in Requests, NEW c \in Conns, Asked(q, DeviceOf[c])', ctl'[c],
                        stage'[c] # "before"
                 PROVE  \/ q \in seen'[c] \/ command'[<<q, DeviceOf[c]>>] = "delivered"
                        \/ c \in leaving' \/ sock'[c] = "gone"
      BY DEF NotOverlooked
    <3>1. CASE c = b
      <4>1. command[<<q, DeviceOf[b]>>] \in {"pending", "delivered"}
        BY <1>t, <1>d, <2>1, <3>1 DEF CommandsTypeOK, Asked
      <4> QED
        BY <1>t, <2>1, <3>1, <4>1 DEF CommandsTypeOK, PendingFor
    <3>2. CASE c # b
      BY <1>t, <1>1, <2>1, <3>2 DEF Asked, NotOverlooked, CommandsTypeOK
    <3> QED
      BY <3>1, <3>2
  <2> QED
    BY <2>2, <2>3 DEF ClearInv
<1>3. ASSUME seen' = seen, command' = command, written \subseteq written', stage[b] # "before",
             NEW st \in Stages \ {"before"}, stage' = [stage EXCEPT ![b] = st],
             st = "written" => {b} \X seen[b] \subseteq written'
      PROVE ClearInv'
  <2>1. CommandsTypeOK' /\ ReadsWhenLive' /\ DeliveredWasWritten'
    BY <1>t, <1>1, <1>3 DEF CommandsTypeOK, LinkTypeOK, Stages, ReadsWhenLive, DeliveredWasWritten
  <2>2. WroteWhatItRead'
    BY <1>t, <1>3 DEF CommandsTypeOK, WroteWhatItRead
  <2>3. NotOverlooked'
    BY <1>t, <1>1, <1>3 DEF CommandsTypeOK, NotOverlooked, Asked
  <2> QED
    BY <2>1, <2>2, <2>3 DEF ClearInv
<1>4. CASE Write(b) \/ WriteFails(b) \/ StampFails(b)
  BY <1>3, <1>4 DEF Write, WriteFails, StampFails, Stages
<1>5. CASE Stamp(b)
  <2>1. /\ seen' = seen /\ written' = written /\ stage[b] = "written" /\ stage' = [stage EXCEPT ![b] = "done"]
        /\ command' = [x \in Commands |-> IF x \in seen[b] \X {DeviceOf[b]} THEN "delivered" ELSE command[x]]
    BY <1>5 DEF Stamp
  <2>2. CommandsTypeOK' /\ ReadsWhenLive' /\ WroteWhatItRead'
    BY <1>t, <1>1, <2>1 DEF CommandsTypeOK, LinkTypeOK, Stages, ReadsWhenLive, WroteWhatItRead
  <2>3. DeliveredWasWritten'
    <3> SUFFICES ASSUME NEW x \in Commands, command'[x] = "delivered"
                 PROVE  \E c \in Conns : DeviceOf[c] = x[2] /\ <<c, x[1]>> \in written
      BY <2>1 DEF DeliveredWasWritten
    <3>1. CASE x \in seen[b] \X {DeviceOf[b]}
      BY <1>t, <2>1, <3>1 DEF WroteWhatItRead
    <3>2. CASE x \notin seen[b] \X {DeviceOf[b]}
      BY <1>t, <2>1, <3>2 DEF DeliveredWasWritten
    <3> QED
      BY <3>1, <3>2
  <2>4. \A q \in Requests, d \in Devices :
            \/ command'[<<q, d>>] = "delivered" /\ command[<<q, d>>] # command'[<<q, d>>]
            \/ command'[<<q, d>>] = command[<<q, d>>]
    BY <2>1 DEF Commands
  <2>5. NotOverlooked'
    <3> SUFFICES ASSUME NEW q \in Requests, NEW c \in Conns, Asked(q, DeviceOf[c])', ctl'[c],
                        stage'[c] # "before"
                 PROVE  \/ q \in seen'[c] \/ command'[<<q, DeviceOf[c]>>] = "delivered"
                        \/ c \in leaving' \/ sock'[c] = "gone"
      BY DEF NotOverlooked
    <3>0. DeviceOf[c] \in Devices
      BY LinkAssumption
    <3>1. CASE command'[<<q, DeviceOf[c]>>] = "delivered"
      BY <3>1
    <3>2. CASE command'[<<q, DeviceOf[c]>>] = command[<<q, DeviceOf[c]>>]
      BY <1>t, <1>1, <2>1, <3>2 DEF NotOverlooked, Asked, CommandsTypeOK
    <3> QED
      BY <2>4, <3>0, <3>1, <3>2
  <2> QED
    BY <2>2, <2>3, <2>5 DEF ClearInv
<1> QED
  BY <1>2, <1>4, <1>5 DEF Deliver

(* Whatever connections, restarts and requests of administrators do: a stamped clear
   command was written to a connection of its device, and a device that was asked to
   reconnect has no serving connection that has not read the command. *)
THEOREM ClearCommandsAreKept == ClearSpec => []CommandsAreKept
<1>1. ClearInv /\ [ClearNext]_allVars => ClearInv'
  <2> SUFFICES ASSUME ClearInv, [ClearNext]_allVars PROVE ClearInv'
    OBVIOUS
  <2>1. CASE UNCHANGED allVars
    <3>1. /\ phase' = phase /\ sock' = sock /\ ctl' = ctl /\ leaving' = leaving /\ status' = status
          /\ toAsk' = toAsk /\ command' = command /\ skipped' = skipped /\ stage' = stage /\ seen' = seen
          /\ written' = written
      BY <2>1 DEF allVars, linkVars, clearVars, deliverVars
    <3> QED
      BY <3>1 DEF ClearInv, CommandsTypeOK, LinkTypeOK, ReadsWhenLive, WroteWhatItRead, DeliveredWasWritten,
         NotOverlooked, Asked
  <2>2. CASE SessionStep
    <3>1. /\ LinkStep \/ LinkRestart
          /\ toAsk' = toAsk /\ command' = command /\ skipped' = skipped
          /\ stage' = stage /\ seen' = seen /\ written' = written
      BY <2>2 DEF SessionStep, clearVars, deliverVars
    <3> QED
      BY <3>1, LinkStepsKeepCommands
  <2> QED
    BY <2>1, <2>2, RequestsKeepCommands, DeliveriesKeepCommands DEF ClearNext
<1>2. ClearInv => CommandsAreKept
  BY DEF ClearInv, CommandsAreKept
<1> QED
  BY <1>1, <1>2, ClearStart, PTL DEF ClearSpec

-----------------------------------------------------------------------------
(* Why a device's queue may hear a group. *)
Unbinds(w, p) == req[w].op = "unbind" /\ p \in req[w].pairs
Switched(p) == <<p[2], "OUT">> \in DOMAIN switch[p[1]].flags
Covered(p) ==
    \/ Entitled(p[1], p[2])
    \/ p \in leftover \cup expiring
    \/ \E w \in Admins : Unbinds(w, p)
    \/ Switched(p)

(* The shape of what the requests and the sessions work on. *)
ShapeOK ==
    /\ DOMAIN row = Rows
    /\ \A k \in Rows : row[k] = [enabled |-> row[k].enabled, until |-> row[k].until]
    /\ DOMAIN req = Admins
    /\ DOMAIN switch = Users
    /\ \A u \in Users : DOMAIN switch[u] = {"open", "defaulted", "read", "flags"}
    /\ dev \in [Users -> [pc : {"off", "binding", "on"}, todo : SUBSET Names, mine : SUBSET Names]]
    /\ bound \subseteq Users \X Names

MembershipInv ==
    /\ ShapeOK
    /\ \A u \in Users : ~switch[u].open => DOMAIN switch[u].flags = {}
    /\ \A p \in bound : Covered(p)

(* A request that did not unbind takes w from `old` to its next step. *)
Moves(w) == req[w].op # "unbind" /\ \E new : req' = [req EXCEPT ![w] = new]

LEMMA StillCovered ==
    ASSUME MembershipInv, ShapeOK', bound' \subseteq bound, switch' = switch,
           \A p \in bound' : p \in leftover \cup expiring => Covered(p)',
           \A p \in bound', w \in Admins : Unbinds(w, p) => Covered(p)',
           \A p \in bound' : Entitled(p[1], p[2]) => Covered(p)'
    PROVE MembershipInv'
<1>1. ASSUME NEW p \in bound' PROVE Covered(p)'
  <2>1. Covered(p)
    BY <1>1 DEF MembershipInv
  <2> QED
    BY <2>1, <1>1 DEF Covered, Switched
<1> QED
  BY <1>1 DEF MembershipInv

(* Rows change, and what ends is about to be unbound or noted. *)
LEMMA RowsChange ==
    ASSUME MembershipInv, ShapeOK', bound' = bound, switch' = switch, leftover \subseteq leftover',
           expiring \subseteq expiring',
           req' = req \/ \E w \in Admins : Moves(w),
           \A p \in bound : Entitled(p[1], p[2]) /\ ~Entitled(p[1], p[2])' =>
              p \in leftover' \cup expiring' \/ \E w \in Admins : Unbinds(w, p)'
    PROVE MembershipInv'
<1>1. ASSUME NEW p \in bound', NEW w \in Admins, Unbinds(w, p) PROVE Covered(p)'
  <2>1. req'[w] = req[w]
    BY <1>1 DEF Moves, Unbinds, MembershipInv, ShapeOK
  <2> QED
    BY <1>1, <2>1 DEF Covered, Unbinds
<1>2. \A p \in bound' : p \in leftover \cup expiring => Covered(p)'
  BY DEF Covered
<1>3. \A p \in bound' : Entitled(p[1], p[2]) => Covered(p)'
  BY DEF Covered
<1> QED
  BY <1>1, <1>2, <1>3, StillCovered

LEMMA AddedKeeps ==
    ASSUME NEW r, DOMAIN r = Rows, \A k \in Rows : r[k] = [enabled |-> r[k].enabled, until |-> r[k].until],
           NEW us, NEW g, NEW a, NEW until
    PROVE  LET r2 == Added(r, us, g, a, until) IN
           /\ DOMAIN r2 = Rows
           /\ \A k \in Rows : r2[k] = [enabled |-> r2[k].enabled, until |-> r2[k].until]
           /\ \A k \in Rows : r[k] # NoRow => r2[k] = r[k]
<1> DEFINE r2 == Added(r, us, g, a, until)
<1>1. \A k \in Rows : r2[k] = [enabled |-> TRUE, until |-> until] \/ r2[k] = r[k]
  BY DEF Added
<1>2. \A k \in Rows : r2[k] = [enabled |-> r2[k].enabled, until |-> r2[k].until]
  BY <1>1
<1> QED
  BY <1>2 DEF Added

(* Joining a group takes nothing from anyone. *)
LEMMA RowsAdded ==
    ASSUME MembershipInv, ShapeOK', bound' = bound, switch' = switch, leftover' = leftover, expiring' = expiring,
           req' = req \/ \E w \in Admins : Moves(w), \A k \in Rows : row[k] # NoRow => row'[k] = row[k]
    PROVE MembershipInv'
<1>1. ASSUME NEW p \in bound, Entitled(p[1], p[2]) PROVE Entitled(p[1], p[2])'
  <2>1. <<p[1], p[2], "OUT">> \in Rows
    BY <1>1 DEF MembershipInv, ShapeOK, Rows, Directions
  <2>2. row[<<p[1], p[2], "OUT">>] # NoRow
    BY <1>1 DEF Entitled, NoRow
  <2> QED
    BY <1>1, <2>1, <2>2 DEF Entitled
<1> QED
  BY <1>1, RowsChange

(* Rows that are removed end only the bindings that Heard names. *)
LEMMA RemovedIsHeard ==
    ASSUME NEW p \in Users \X Names, NEW ks, row' = Removed(row, ks), DOMAIN row = Rows,
           Entitled(p[1], p[2]), ~Entitled(p[1], p[2])'
    PROVE  p \in Heard(ks)
<1>1. <<p[1], p[2], "OUT">> \in Rows
  BY DEF Rows, Directions
<1>2. <<p[1], p[2], "OUT">> \in ks
  BY <1>1 DEF Entitled, Removed
<1>3. p = <<p[1], p[2]>>
  OBVIOUS
<1> DEFINE x == <<p[1], p[2], "OUT">>
<1>4. x[3] = "OUT" /\ <<x[1], x[2]>> = p
  BY <1>3
<1> QED
  BY <1>2, <1>4 DEF Heard

LEMMA RemovedShape ==
    ASSUME NEW ks, ShapeOK, row' = Removed(row, ks)
    PROVE  DOMAIN row' = Rows /\ \A k \in Rows : row'[k] = [enabled |-> row'[k].enabled, until |-> row'[k].until]
BY DEF Removed, ShapeOK, NoRow

(* Requests that only join, or touch no row at all. *)
LEMMA JoiningKeeps ==
    ASSUME MembershipInv, bound' = bound, switch' = switch, leftover' = leftover, expiring' = expiring,
           dev' = dev, req' = req \/ \E w \in Admins : Moves(w),
           row' = row \/ \E us, g, a, until : row' = Added(row, us, g, a, until)
    PROVE MembershipInv'
<1>1. /\ DOMAIN row' = Rows
      /\ \A k \in Rows : row'[k] = [enabled |-> row'[k].enabled, until |-> row'[k].until]
      /\ \A k \in Rows : row[k] # NoRow => row'[k] = row[k]
  <2>1. DOMAIN row = Rows /\ \A k \in Rows : row[k] = [enabled |-> row[k].enabled, until |-> row[k].until]
    BY DEF MembershipInv, ShapeOK
  <2>2. CASE row' = row
    BY <2>1, <2>2
  <2>3. ASSUME NEW us, NEW g, NEW a, NEW until, row' = Added(row, us, g, a, until)
        PROVE  /\ DOMAIN row' = Rows
               /\ \A k \in Rows : row'[k] = [enabled |-> row'[k].enabled, until |-> row'[k].until]
               /\ \A k \in Rows : row[k] # NoRow => row'[k] = row[k]
    BY <2>1, <2>3, AddedKeeps
  <2> QED
    BY <2>2, <2>3
<1>2. DOMAIN req' = Admins
  BY DEF Moves, MembershipInv, ShapeOK
<1>3. ShapeOK'
  BY <1>1, <1>2 DEF MembershipInv, ShapeOK
<1> QED
  BY <1>1, <1>3, RowsAdded

(* Requests that remove rows and then unbind what Heard names. *)
LEMMA RemovingUnbinds ==
    ASSUME MembershipInv, NEW w \in Admins, req[w].op # "unbind", NEW gone, row' = Removed(row, gone),
           req' = [req EXCEPT ![w] = Unbinding(Heard(gone))],
           bound' = bound, switch' = switch, leftover' = leftover, expiring' = expiring, dev' = dev
    PROVE MembershipInv'
<1>1. ShapeOK'
  BY RemovedShape DEF MembershipInv, ShapeOK
<1>2. Moves(w)
  BY DEF Moves
<1>3. ASSUME NEW p \in bound, Entitled(p[1], p[2]), ~Entitled(p[1], p[2])' PROVE Unbinds(w, p)'
  <2>1. p \in Heard(gone)
    BY <1>3, RemovedIsHeard DEF MembershipInv, ShapeOK
  <2> QED
    BY <2>1 DEF Unbinds, Unbinding, MembershipInv, ShapeOK
<1> QED
  BY <1>1, <1>2, <1>3, RowsChange

LEMMA GroupRequestsUnbind ==
    ASSUME MembershipInv, NEW w \in Admins, GroupRequest(w) PROVE MembershipInv'
<1>s. Start(w) => req[w].op # "unbind"
  BY DEF Start, Idle
<1>1. ASSUME NEW g \in Names, NEW p \in Policies, add_group(w, g, p) \/ update_group_policy(w, g, p)
      PROVE MembershipInv'
  BY <1>1, JoiningKeeps DEF add_group, update_group_policy
<1>2. ASSUME NEW g \in Names, apply_group_auto_join(w, g) PROVE MembershipInv'
  BY <1>2, JoiningKeeps DEF apply_group_auto_join
<1>3. ASSUME NEW g \in Names, delete_group(w, g) PROVE MembershipInv'
  <2>1. Moves(w)
    BY <1>s, <1>3 DEF delete_group, Moves
  <2> QED
    BY <1>3, <2>1, JoiningKeeps DEF delete_group
<1>4. ASSUME NEW g, NEW us, NEW a, NEW until, add_user_to_group(w, us, g, a, until) PROVE MembershipInv'
  <2>1. Moves(w)
    BY <1>s, <1>4 DEF add_user_to_group, Moves
  <2> QED
    BY <1>4, <2>1, JoiningKeeps DEF add_user_to_group
<1>5. CASE AddNext(w)
  <2>1. Moves(w)
    BY <1>5 DEF AddNext, Moves
  <2>2. row' = row \/ \E us, g, a, until : row' = Added(row, us, g, a, until)
    BY <1>5 DEF AddNext
  <2> QED
    BY <1>5, <2>1, <2>2, JoiningKeeps DEF AddNext
<1>6. ASSUME NEW u \in Users, NEW g \in Names, NEW a \in Accesses, remove_user_from_group(w, u, g, a)
      PROVE MembershipInv'
  <2> DEFINE gone == {<<u, g, d>> : d \in RowsOf(u, g) \cap ACCESS_DIRECTIONS(a)}
  <2>1. /\ req[w].op # "unbind" /\ row' = Removed(row, gone)
        /\ req' = [req EXCEPT ![w] = Unbinding(Heard(gone))]
        /\ bound' = bound /\ switch' = switch /\ leftover' = leftover /\ expiring' = expiring /\ dev' = dev
    BY <1>s, <1>6 DEF remove_user_from_group
  <2> HIDE DEF gone
  <2> QED
    BY <2>1, RemovingUnbinds
<1>7. CASE DeleteCommit(w)
  <2> DEFINE gone == Dropped(req[w].group)
  <2>1. /\ req[w].op # "unbind" /\ row' = Removed(row, gone)
        /\ req' = [req EXCEPT ![w] = Unbinding(Heard(gone))]
        /\ bound' = bound /\ switch' = switch /\ leftover' = leftover /\ expiring' = expiring /\ dev' = dev
    BY <1>7 DEF DeleteCommit, Drop
  <2> HIDE DEF gone
  <2> QED
    BY <2>1, RemovingUnbinds
<1>8. CASE Unbind(w)
  <2>1. /\ req[w].op = "unbind" /\ req' = [req EXCEPT ![w] = Idle] /\ row' = row /\ switch' = switch
        /\ expiring' = expiring /\ dev' = dev
        /\ \/ bound' = bound \ req[w].pairs /\ leftover' = leftover \ req[w].pairs
           \/ leftover' = leftover \cup (bound \cap req[w].pairs) /\ bound' = bound
    BY <1>8 DEF Unbind
  <2>2. ShapeOK'
    BY <2>1 DEF MembershipInv, ShapeOK
  <2>3. \A p \in bound' : Entitled(p[1], p[2]) => Covered(p)'
    BY <2>1 DEF Covered, Entitled
  <2>4. \A p \in bound' : p \in leftover \cup expiring => Covered(p)'
    BY <2>1 DEF Covered
  <2>5. ASSUME NEW p \in bound', NEW x \in Admins, Unbinds(x, p) PROVE Covered(p)'
    <3>1. CASE x = w
      BY <2>1, <2>5, <3>1 DEF Unbinds, Covered
    <3>2. CASE x # w
      BY <2>1, <2>5, <3>2 DEF Unbinds, Covered, MembershipInv, ShapeOK
    <3> QED
      BY <3>1, <3>2
  <2>6. bound' \subseteq bound
    BY <2>1
  <2> QED
    BY <2>1, <2>2, <2>3, <2>4, <2>5, <2>6, StillCovered
<1>9. ASSUME NEW u \in Users, NEW g \in Names, NEW a \in Accesses \cup {"keep"},
             NEW until \in Given \cup {"keep"}, update_group_member(w, u, g, a, until)
      PROVE MembershipInv'
  <2> DEFINE old == RowsOf(u, g)
             wanted == IF a = "keep" THEN old ELSE ACCESS_DIRECTIONS(a)
             expires == IF until = "keep" THEN OldExpiry(u, g) ELSE until
             gone == {<<u, g, d>> : d \in old \ wanted}
             Kept(k) == k[1] = u /\ k[2] = g /\ k[3] \in old \cap wanted
             widened == IF a = "keep" THEN row ELSE Added(row, {u}, g, a, expires)
  <2>1. /\ req[w].op # "unbind"
        /\ row' = [k \in Rows |-> IF k \in gone THEN NoRow
                                  ELSE IF until # "keep" /\ Kept(k) THEN [row[k] EXCEPT !.until = until]
                                  ELSE widened[k]]
        /\ req' = [req EXCEPT ![w] = Unbinding(Heard(gone))]
        /\ bound' = bound /\ switch' = switch /\ leftover' = leftover /\ expiring' = expiring /\ dev' = dev
    BY <1>s, <1>9 DEF update_group_member
  <2>2. /\ DOMAIN widened = Rows
        /\ \A k \in Rows : widened[k] = [enabled |-> widened[k].enabled, until |-> widened[k].until]
        /\ \A k \in Rows : row[k] # NoRow => widened[k] = row[k]
    <3>1. DOMAIN row = Rows /\ \A k \in Rows : row[k] = [enabled |-> row[k].enabled, until |-> row[k].until]
      BY DEF MembershipInv, ShapeOK
    <3>2. CASE a = "keep"
      BY <3>1, <3>2
    <3>3. CASE a # "keep"
      <4>1. ASSUME NEW us, NEW h, NEW acc, NEW til
            PROVE  /\ DOMAIN Added(row, us, h, acc, til) = Rows
                   /\ \A k \in Rows : Added(row, us, h, acc, til)[k] =
                         [enabled |-> Added(row, us, h, acc, til)[k].enabled,
                          until |-> Added(row, us, h, acc, til)[k].until]
                   /\ \A k \in Rows : row[k] # NoRow => Added(row, us, h, acc, til)[k] = row[k]
        BY <3>1, AddedKeeps
      <4>2. widened = Added(row, {u}, g, a, expires)
        BY <3>3
      <4> HIDE DEF widened, expires
      <4> QED
        BY <4>1, <4>2
    <3> QED
      BY <3>2, <3>3
  <2> HIDE DEF widened, Kept, gone
  <2>3. \A k \in Rows : \/ k \in gone /\ row'[k] = NoRow
                        \/ row'[k] = [row[k] EXCEPT !.until = until]
                        \/ row'[k] = widened[k]
    BY <2>1
  <2>4. ShapeOK'
    <3>1. DOMAIN row' = Rows /\ DOMAIN req' = Admins
      BY <2>1 DEF MembershipInv, ShapeOK
    <3>2. ASSUME NEW k \in Rows PROVE row'[k] = [enabled |-> row'[k].enabled, until |-> row'[k].until]
      <4>1. row[k] = [enabled |-> row[k].enabled, until |-> row[k].until]
        BY DEF MembershipInv, ShapeOK
      <4>2. CASE row'[k] = NoRow
        BY <4>2 DEF NoRow
      <4>3. CASE row'[k] = [row[k] EXCEPT !.until = until]
        BY <4>1, <4>3
      <4>4. CASE row'[k] = widened[k]
        BY <2>2, <4>4
      <4> QED
        BY <2>3, <4>2, <4>3, <4>4
    <3> QED
      BY <2>1, <3>1, <3>2 DEF MembershipInv, ShapeOK
  <2>5. Moves(w)
    BY <2>1 DEF Moves
  <2>6. ASSUME NEW p \in bound, Entitled(p[1], p[2]), ~Entitled(p[1], p[2])' PROVE Unbinds(w, p)'
    <3> DEFINE k == <<p[1], p[2], "OUT">>
    <3>1. k \in Rows /\ p = <<p[1], p[2]>>
      BY DEF MembershipInv, ShapeOK, Rows, Directions
    <3>2. row[k].enabled /\ ~row'[k].enabled
      BY <2>6 DEF Entitled
    <3>3. row[k] # NoRow
      BY <3>2 DEF NoRow
    <3>e. k[3] = "OUT" /\ k[1] = p[1] /\ k[2] = p[2]
      OBVIOUS
    <3> HIDE DEF k
    <3>4. k \in gone
      <4>1. row[k] = [enabled |-> row[k].enabled, until |-> row[k].until]
        BY <3>1 DEF MembershipInv, ShapeOK
      <4>2. CASE row'[k] = [row[k] EXCEPT !.until = until]
        BY <3>2, <4>1, <4>2
      <4>3. CASE row'[k] = widened[k]
        BY <2>2, <3>1, <3>2, <3>3, <4>3
      <4> QED
        BY <2>3, <3>1, <4>2, <4>3
    <3>5. p \in Heard(gone)
      BY <3>1, <3>4, <3>e DEF Heard
    <3> QED
      BY <2>1, <3>5 DEF Unbinds, Unbinding, MembershipInv, ShapeOK
  <2> QED
    BY <2>1, <2>4, <2>5, <2>6, RowsChange
<1> QED
  BY <1>1, <1>2, <1>3, <1>4, <1>5, <1>6, <1>7, <1>8, <1>9 DEF GroupRequest

LEMMA DiagramNotesItsBindings ==
    ASSUME MembershipInv, NEW w \in Admins, DiagramRequest(w) PROVE MembershipInv'
<1>s. Start(w) => req[w].op # "unbind"
  BY DEF Start, Idle
<1>1. ASSUME NEW a, NEW b, NEW type, set_user_visibility(w, a, b, type) PROVE MembershipInv'
  <2>1. Moves(w)
    BY <1>s, <1>1 DEF set_user_visibility, Moves
  <2> QED
    BY <1>1, <2>1, JoiningKeeps DEF set_user_visibility
<1>2. ASSUME NEW e, remove_user_visibility(w, e) PROVE MembershipInv'
  <2>1. Moves(w)
    BY <1>s, <1>2 DEF remove_user_visibility, Moves
  <2> QED
    BY <1>2, <2>1, JoiningKeeps DEF remove_user_visibility
<1>3. ASSUME NEW gone, row' = Removed(row, gone), Orphan(gone), Moves(w) \/ req' = req,
             bound' = bound, switch' = switch, expiring' = expiring, dev' = dev
      PROVE MembershipInv'
  <2>1. ShapeOK'
    BY <1>3, RemovedShape DEF MembershipInv, ShapeOK, Moves
  <2>2. ASSUME NEW p \in bound, Entitled(p[1], p[2]), ~Entitled(p[1], p[2])' PROVE p \in leftover'
    <3>1. p \in Heard(gone)
      BY <1>3, <2>2, RemovedIsHeard DEF MembershipInv, ShapeOK
    <3> QED
      BY <1>3, <3>1 DEF Orphan
  <2>3. leftover \subseteq leftover'
    BY <1>3 DEF Orphan
  <2> QED
    BY <1>3, <2>1, <2>2, <2>3, RowsChange
<1>4. CASE EraseCommit(w)
  <2>1. Moves(w) /\ row' = Removed(row, Dropped(req[w].group)) /\ Orphan(Dropped(req[w].group))
        /\ bound' = bound /\ switch' = switch /\ expiring' = expiring /\ dev' = dev
    BY <1>4 DEF EraseCommit, Drop, Moves
  <2> QED
    BY <1>3, <2>1
<1>5. CASE DrawNext(w)
  <2> DEFINE grant == req[w].grants[req[w].next]
             k == <<grant.user, req[w].group, grant.dir>>
             gone == IF grant.present THEN {} ELSE {k}
  <2>1. /\ Orphan(gone) /\ Moves(w)
        /\ bound' = bound /\ switch' = switch /\ expiring' = expiring /\ dev' = dev
    BY <1>5 DEF DrawNext, Moves
  <2>2. CASE ~grant.present
    <3>1. row' = [row EXCEPT ![k] = NoRow]
      BY <1>5, <2>2 DEF DrawNext
    <3>2. row' = Removed(row, gone)
      BY <2>2, <3>1 DEF Removed, MembershipInv, ShapeOK
    <3> HIDE DEF gone
    <3> QED
      BY <1>3, <2>1, <3>2
  <2>3. CASE grant.present
    <3>0. row' = [row EXCEPT ![k] =
                IF row[k] = NoRow /\ req[w].group \in Group /\ account[grant.user] = "active"
                THEN [enabled |-> TRUE, until |-> "never"] ELSE row[k]]
      BY <1>5, <2>3 DEF DrawNext
    <3>2. leftover' = leftover
      BY <2>1, <2>3 DEF Orphan, Heard
    <3> HIDE DEF k, grant, gone
    <3>1. \A x \in Rows : \/ row'[x] = row[x]
                          \/ row[x] = NoRow /\ row'[x] = [enabled |-> TRUE, until |-> "never"]
      BY <3>0 DEF MembershipInv, ShapeOK
    <3>3. /\ DOMAIN row' = Rows
          /\ \A x \in Rows : row'[x] = [enabled |-> row'[x].enabled, until |-> row'[x].until]
          /\ \A x \in Rows : row[x] # NoRow => row'[x] = row[x]
      BY <3>0, <3>1 DEF MembershipInv, ShapeOK
    <3>4. ShapeOK'
      BY <2>1, <3>3 DEF MembershipInv, ShapeOK, Moves
    <3> QED
      BY <2>1, <3>2, <3>3, <3>4, RowsAdded
  <2> QED
    BY <2>2, <2>3
<1> QED
  BY <1>1, <1>2, <1>4, <1>5 DEF DiagramRequest

LEMMA UserRequestsNoteTheirBindings ==
    ASSUME MembershipInv, NEW w \in Admins, UserRequest(w) PROVE MembershipInv'
<1>1. ASSUME NEW u \in Users, create_user(w, u) PROVE MembershipInv'
  <2> DEFINE anon == Added(row, {u}, Anon, "both", "never")
  <2>1. /\ row' = Joined(u) /\ bound' = bound /\ switch' = switch /\ leftover' = leftover
        /\ expiring' = expiring /\ dev' = dev /\ req' = req
    BY <1>1 DEF create_user
  <2>2. /\ DOMAIN anon = Rows
        /\ \A k \in Rows : anon[k] = [enabled |-> anon[k].enabled, until |-> anon[k].until]
        /\ \A k \in Rows : row[k] # NoRow => anon[k] = row[k]
    <3>1. DOMAIN row = Rows /\ \A k \in Rows : row[k] = [enabled |-> row[k].enabled, until |-> row[k].until]
      BY DEF MembershipInv, ShapeOK
    <3>2. ASSUME NEW us, NEW h, NEW acc, NEW til
          PROVE  /\ DOMAIN Added(row, us, h, acc, til) = Rows
                 /\ \A k \in Rows : Added(row, us, h, acc, til)[k] =
                       [enabled |-> Added(row, us, h, acc, til)[k].enabled,
                        until |-> Added(row, us, h, acc, til)[k].until]
                 /\ \A k \in Rows : row[k] # NoRow => Added(row, us, h, acc, til)[k] = row[k]
      BY <3>1, AddedKeeps
    <3> QED
      BY <3>2
  <2>3. \A k \in Rows : Joined(u)[k] = anon[k] \/ \E g, a, until : Joined(u)[k] = Added(anon, {u}, g, a, until)[k]
    BY DEF Joined
  <2> HIDE DEF anon
  <2>4. ASSUME NEW k \in Rows
        PROVE  /\ row'[k] = [enabled |-> row'[k].enabled, until |-> row'[k].until]
               /\ row[k] # NoRow => row'[k] = row[k]
    <3>1. CASE row'[k] = anon[k]
      BY <2>2, <3>1
    <3>2. ASSUME NEW g, NEW a, NEW until, row'[k] = Added(anon, {u}, g, a, until)[k]
          PROVE  /\ row'[k] = [enabled |-> row'[k].enabled, until |-> row'[k].until]
                 /\ row[k] # NoRow => row'[k] = row[k]
      <4>1. ASSUME NEW us, NEW h, NEW acc, NEW til
            PROVE  /\ DOMAIN Added(anon, us, h, acc, til) = Rows
                   /\ \A x \in Rows : Added(anon, us, h, acc, til)[x] =
                         [enabled |-> Added(anon, us, h, acc, til)[x].enabled,
                          until |-> Added(anon, us, h, acc, til)[x].until]
                   /\ \A x \in Rows : anon[x] # NoRow => Added(anon, us, h, acc, til)[x] = anon[x]
        BY <2>2, AddedKeeps
      <4>2. /\ row'[k] = [enabled |-> row'[k].enabled, until |-> row'[k].until]
            /\ anon[k] # NoRow => row'[k] = anon[k]
        <5> DEFINE us == {u}
        <5>1. row'[k] = Added(anon, us, g, a, until)[k]
          BY <3>2
        <5> HIDE DEF us
        <5> QED
          BY <4>1, <5>1
      <4> QED
        BY <2>2, <4>2
    <3> QED
      BY <2>1, <2>3, <3>1, <3>2
  <2>5. DOMAIN row' = Rows
    BY <2>1 DEF Joined
  <2>6. ShapeOK'
    BY <2>1, <2>4, <2>5 DEF MembershipInv, ShapeOK
  <2> QED
    BY <2>1, <2>4, <2>6, RowsAdded
<1>2. ASSUME NEW u \in Users, delete_user(w, u) PROVE MembershipInv'
  <2> DEFINE gone == {k \in Rows : k[1] = u /\ row[k] # NoRow}
  <2>1. /\ row' = Removed(row, gone) /\ Orphan(gone) /\ req' = req
        /\ bound' = bound /\ switch' = switch /\ expiring' = expiring /\ dev' = dev
    BY <1>2 DEF delete_user
  <2> HIDE DEF gone
  <2>2. ShapeOK'
    BY <2>1, RemovedShape DEF MembershipInv, ShapeOK
  <2>3. ASSUME NEW p \in bound, Entitled(p[1], p[2]), ~Entitled(p[1], p[2])' PROVE p \in leftover'
    <3>1. p \in Heard(gone)
      BY <2>1, <2>3, RemovedIsHeard DEF MembershipInv, ShapeOK
    <3> QED
      BY <2>1, <3>1 DEF Orphan
  <2>4. leftover \subseteq leftover'
    BY <2>1 DEF Orphan
  <2> QED
    BY <2>1, <2>2, <2>3, <2>4, RowsChange
<1>3. ASSUME NEW u, NEW g, NEW d, add_user_to_groups(w, u, g, d) PROVE MembershipInv'
  BY <1>3, JoiningKeeps DEF add_user_to_groups
<1>4. ASSUME NEW i, NEW gs, SetGroups(w, i, gs) PROVE MembershipInv'
  BY <1>4, JoiningKeeps DEF SetGroups
<1> QED
  BY <1>1, <1>2, <1>3, <1>4 DEF UserRequest

LEMMA ExpiryUnbinds ==
    ASSUME MembershipInv, expire_memberships \/ ExpireUnbind \/ \E k \in Rows : Lapse(k)
    PROVE  MembershipInv'
<1>1. CASE expire_memberships
  <2>1. /\ row' = Removed(row, Past) /\ expiring' = Heard(Past) /\ expiring = {} /\ leftover' = leftover
        /\ req' = req /\ bound' = bound /\ switch' = switch /\ dev' = dev
    BY <1>1 DEF expire_memberships
  <2>2. ShapeOK'
    BY <2>1, RemovedShape DEF MembershipInv, ShapeOK
  <2>3. ASSUME NEW p \in bound, Entitled(p[1], p[2]), ~Entitled(p[1], p[2])' PROVE p \in expiring'
    BY <2>1, <2>3, RemovedIsHeard DEF MembershipInv, ShapeOK
  <2> QED
    BY <2>1, <2>2, <2>3, RowsChange
<1>2. CASE ExpireUnbind
  <2>1. PICK q \in expiring :
              /\ expiring' = expiring \ {q}
              /\ \/ bound' = bound \ {q} /\ leftover' = leftover \ {q}
                 \/ leftover' = leftover \cup (bound \cap {q}) /\ bound' = bound
    BY <1>2 DEF ExpireUnbind
  <2>2. row' = row /\ req' = req /\ switch' = switch /\ dev' = dev
    BY <1>2 DEF ExpireUnbind
  <2>3. ShapeOK' /\ bound' \subseteq bound
    BY <2>1, <2>2 DEF MembershipInv, ShapeOK
  <2>4. \A p \in bound' : p \in leftover \cup expiring => p \in leftover' \cup expiring'
    BY <2>1
  <2>5. /\ \A p \in bound', w \in Admins : Unbinds(w, p) => Covered(p)'
        /\ \A p \in bound' : Entitled(p[1], p[2]) => Covered(p)'
    BY <2>2 DEF Covered, Unbinds, Entitled
  <2>6. \A p \in bound' : p \in leftover \cup expiring => Covered(p)'
    BY <2>4 DEF Covered
  <2> QED
    BY <2>2, <2>3, <2>5, <2>6, StillCovered
<1>3. ASSUME NEW k \in Rows, Lapse(k) PROVE MembershipInv'
  <2>1. /\ row' = [row EXCEPT ![k].until = "past"] /\ leftover' = leftover /\ expiring' = expiring
        /\ req' = req /\ bound' = bound /\ switch' = switch /\ dev' = dev
    BY <1>3 DEF Lapse
  <2>2. DOMAIN row' = Rows /\ \A x \in Rows : row'[x] = [enabled |-> row[x].enabled, until |-> row'[x].until]
    BY <2>1 DEF MembershipInv, ShapeOK
  <2>3. ShapeOK' /\ \A x \in Rows : row'[x].enabled = row[x].enabled
    BY <2>1, <2>2 DEF MembershipInv, ShapeOK
  <2>4. \A p \in bound : Entitled(p[1], p[2]) => Entitled(p[1], p[2])'
    BY <2>3 DEF Entitled, Rows, Directions, MembershipInv, ShapeOK
  <2> QED
    BY <2>1, <2>3, <2>4, RowsChange
<1> QED
  BY <1>1, <1>2, <1>3

(* A device's session and its client's switches: what is bound without an enabled row
   is noted, or listed by the switch that is open. *)
LEMMA DevicesNoteTheirBindings ==
    ASSUME MembershipInv, NEW u \in Users, Device(u) PROVE MembershipInv'
<1>r. req' = req /\ expiring' = expiring
  BY DEF Device, Connect, BindNext, Disconnect, SwitchOpen, SwitchRefuse, SwitchCommit, SwitchEnd, SwitchNext
<1>u. \A p, w : Unbinds(w, p) => Unbinds(w, p)'
  BY <1>r DEF Unbinds
<1>1. CASE Connect(u)
  <2>1. row' = row /\ bound' = bound /\ switch' = switch /\ leftover' = leftover
    BY <1>1 DEF Connect
  <2> DEFINE out == {g \in Names : Member(u, g, "OUT")}
             todo == IF out = {} THEN {Anon} ELSE {g \in out : Entitled(u, g)}
             mine == IF out = {} THEN {Anon} ELSE out
  <2>3. dev' = [dev EXCEPT ![u] = [pc |-> "binding", todo |-> todo, mine |-> mine]]
    BY <1>1 DEF Connect
  <2>4. todo \in SUBSET Names /\ mine \in SUBSET Names
    BY DEF Names
  <2> HIDE DEF todo, mine
  <2>2. ShapeOK'
    BY <1>r, <2>1, <2>3, <2>4 DEF MembershipInv, ShapeOK
  <2> QED
    BY <1>r, <2>1, <2>2, RowsAdded
<1>2. CASE BindNext(u)
  <2>1. row' = row /\ switch' = switch
    BY <1>2 DEF BindNext
  <2>2. CASE dev[u].todo = {}
    <3>1. bound' = bound /\ leftover' = leftover /\ dev' = [dev EXCEPT ![u].pc = "on"]
      BY <1>2, <2>2 DEF BindNext
    <3>2. ShapeOK'
      BY <1>r, <2>1, <3>1 DEF MembershipInv, ShapeOK
    <3> QED
      BY <1>r, <2>1, <3>1, <3>2, RowsAdded
  <2>3. CASE dev[u].todo # {}
    <3>1. PICK g \in dev[u].todo :
             /\ dev' = [dev EXCEPT ![u].todo = @ \ {g}]
             /\ bound' = bound \cup {<<u, g>>}
             /\ leftover' = IF Entitled(u, g) THEN leftover ELSE leftover \cup {<<u, g>>}
      BY <1>2, <2>3 DEF BindNext
    <3>2. g \in Names
      BY DEF MembershipInv, ShapeOK
    <3>3. ShapeOK'
      BY <1>r, <2>1, <3>1, <3>2 DEF MembershipInv, ShapeOK
    <3>4. ASSUME NEW p \in bound PROVE Covered(p)'
      <4>1. Covered(p) /\ leftover \subseteq leftover'
        BY <3>1 DEF MembershipInv
      <4> QED
        BY <1>r, <2>1, <4>1 DEF Covered, Entitled, Switched, Unbinds
    <3>5. Covered(<<u, g>>)'
      BY <2>1, <3>1 DEF Covered, Entitled
    <3> QED
      BY <2>1, <3>1, <3>3, <3>4, <3>5 DEF MembershipInv
  <2> QED
    BY <2>2, <2>3
<1>3. CASE Disconnect(u)
  <2>1. /\ row' = row /\ switch' = switch /\ dev' = [dev EXCEPT ![u] = Offline]
        /\ bound' = bound \ ({u} \X dev[u].mine) /\ leftover' = leftover \ ({u} \X dev[u].mine)
    BY <1>3 DEF Disconnect
  <2>2. ShapeOK'
    BY <1>r, <2>1 DEF Offline, MembershipInv, ShapeOK
  <2>3. ASSUME NEW p \in bound' PROVE Covered(p)'
    <3>1. Covered(p) /\ (p \in leftover => p \in leftover')
      BY <2>1 DEF MembershipInv
    <3> QED
      BY <1>r, <2>1, <3>1 DEF Covered, Entitled, Switched, Unbinds
  <2> QED
    BY <2>1, <2>2, <2>3 DEF MembershipInv
<1>4. CASE SwitchOpen(u)
  <2> DEFINE mine == {k \in Names \X Directions : Member(u, k[1], k[2])}
             offered == IF mine = {} THEN {Anon} \X Directions ELSE mine
             opened == [open |-> TRUE, defaulted |-> mine = {},
                        read |-> [k \in offered |-> mine = {} \/ row[<<u, k[1], k[2]>>].enabled],
                        flags |-> [k \in {} |-> TRUE]]
  <2>1. /\ row' = row /\ bound' = bound /\ dev' = dev /\ leftover' = leftover
        /\ switch' = [switch EXCEPT ![u] = opened] /\ ~switch[u].open
    BY <1>4 DEF SwitchOpen
  <2>2. opened.open /\ DOMAIN opened.flags = {} /\ DOMAIN opened = {"open", "defaulted", "read", "flags"}
    OBVIOUS
  <2> HIDE DEF opened
  <2>3. ShapeOK' /\ \A v \in Users : switch'[v] = IF v = u THEN opened ELSE switch[v]
    BY <1>r, <2>1, <2>2 DEF MembershipInv, ShapeOK
  <2>4. DOMAIN switch[u].flags = {}
    BY <2>1 DEF MembershipInv
  <2>5. ASSUME NEW p \in bound PROVE Covered(p)'
    <3>1. Covered(p) /\ p[1] \in Users
      BY DEF MembershipInv, ShapeOK
    <3>2. Switched(p) => Switched(p)'
      BY <2>3, <2>4, <3>1 DEF Switched
    <3> QED
      BY <1>r, <2>1, <3>1, <3>2 DEF Covered, Entitled, Unbinds
  <2> QED
    BY <2>1, <2>2, <2>3, <2>5 DEF MembershipInv
<1>5. ASSUME NEW k \in Names \X Directions, NEW active \in BOOLEAN, SwitchNext(u, k, active) PROVE MembershipInv'
  <2> DEFINE listed == DOMAIN switch[u].flags \cup {k}
             flags == [x \in listed |-> IF x = k THEN active ELSE switch[u].flags[x]]
             pair == <<u, k[1]>>
  <2>1. /\ row' = row /\ dev' = dev /\ switch[u].open /\ switch' = [switch EXCEPT ![u].flags = flags]
        /\ \/ k[2] = "IN" /\ bound' = bound /\ leftover' = leftover
           \/ k[2] # "IN" /\ bound' = bound \cup {pair} /\ leftover' = leftover
           \/ bound' = bound \ {pair} /\ leftover' = leftover \ {pair}
    BY <1>5 DEF SwitchNext
  <2>2. DOMAIN flags = listed /\ pair \in Users \X Names /\ (k[2] # "IN" => k = <<k[1], "OUT">>)
    BY DEF Directions
  <2> HIDE DEF flags
  <2>3. /\ \A v \in Users : v # u => switch'[v] = switch[v]
        /\ switch'[u].flags = flags /\ switch'[u].open = switch[u].open
        /\ DOMAIN switch' = Users /\ \A v \in Users : DOMAIN switch'[v] = DOMAIN switch[v]
    BY <2>1 DEF MembershipInv, ShapeOK
  <2>4. ShapeOK'
    BY <1>r, <2>1, <2>2, <2>3 DEF MembershipInv, ShapeOK
  <2>5. ASSUME NEW p \in bound, p \in bound' PROVE Covered(p)'
    <3>1. Covered(p) /\ p[1] \in Users /\ (p \in leftover => p \in leftover')
      BY <2>1, <2>5 DEF MembershipInv, ShapeOK
    <3>2. Switched(p) => Switched(p)'
      BY <2>2, <2>3, <3>1 DEF Switched
    <3> QED
      BY <1>r, <2>1, <3>1, <3>2 DEF Covered, Entitled, Unbinds
  <2>6. ASSUME k[2] # "IN" PROVE Covered(pair)'
    <3>1. <<pair[2], "OUT">> \in DOMAIN switch'[pair[1]].flags
      BY <2>2, <2>3, <2>6
    <3> QED
      BY <3>1 DEF Covered, Switched
  <2>7. \A p \in bound' : Covered(p)'
    BY <2>1, <2>5, <2>6
  <2> QED
    BY <2>1, <2>3, <2>4, <2>7 DEF MembershipInv
<1>6. ASSUME SwitchEnd(u, row'), DOMAIN row' = Rows,
             \A k \in Rows : row'[k] = [enabled |-> row'[k].enabled, until |-> row'[k].until],
             \A k \in Rows : row'[k] = row[k] \/ (k[1] = u /\ <<k[2], k[3]>> \in DOMAIN switch[u].flags)
      PROVE MembershipInv'
  <2>1. /\ bound' = bound /\ dev' = dev /\ switch' = [switch EXCEPT ![u] = NoSwitch]
        /\ leftover' = leftover \cup
            {<<u, k[1]>> : k \in {x \in DOMAIN switch[u].flags :
                x[2] = "OUT" /\ <<u, x[1]>> \in bound /\ ~row'[<<u, x[1], "OUT">>].enabled}}
    BY <1>6 DEF SwitchEnd
  <2>2. ~NoSwitch.open /\ DOMAIN NoSwitch.flags = {} /\ DOMAIN NoSwitch = {"open", "defaulted", "read", "flags"}
    BY DEF NoSwitch
  <2>3. ShapeOK' /\ \A v \in Users : switch'[v] = IF v = u THEN NoSwitch ELSE switch[v]
    BY <1>6, <1>r, <2>1, <2>2 DEF MembershipInv, ShapeOK
  <2>4. ASSUME NEW p \in bound PROVE Covered(p)'
    <3>1. Covered(p) /\ p \in Users \X Names /\ p = <<p[1], p[2]>>
      BY DEF MembershipInv, ShapeOK
    <3> DEFINE x == <<p[2], "OUT">>
    <3>2. CASE p[1] = u /\ x \in DOMAIN switch[u].flags
      <4>1. Entitled(p[1], p[2])' \/ p \in leftover'
        <5>1. CASE row'[<<u, p[2], "OUT">>].enabled
          BY <3>2, <5>1 DEF Entitled
        <5>2. CASE ~row'[<<u, p[2], "OUT">>].enabled
          <6>1. x[2] = "OUT" /\ x[1] = p[2] /\ <<u, x[1]>> = p
            BY <3>1, <3>2
          <6> QED
            BY <2>1, <3>2, <5>2, <6>1
        <5> QED
          BY <5>1, <5>2
      <4> QED
        BY <4>1 DEF Covered
    <3>3. CASE ~(p[1] = u /\ x \in DOMAIN switch[u].flags)
      <4> DEFINE k == <<p[1], p[2], "OUT">>
      <4>1. k \in Rows /\ k[1] = p[1] /\ <<k[2], k[3]>> = x
        BY <3>1 DEF Rows, Directions
      <4>2. row'[k] = row[k]
        BY <1>6, <3>3, <4>1
      <4>3. Entitled(p[1], p[2]) => Entitled(p[1], p[2])'
        BY <4>2 DEF Entitled
      <4>4. Switched(p) => Switched(p)'
        BY <2>3, <3>1, <3>3 DEF Switched
      <4> QED
        BY <1>r, <2>1, <3>1, <4>3, <4>4 DEF Covered, Unbinds
    <3> QED
      BY <3>2, <3>3
  <2> QED
    BY <2>1, <2>2, <2>3, <2>4 DEF MembershipInv
<1>7. CASE SwitchRefuse(u)
  <2>1. row' = row /\ SwitchEnd(u, row')
    BY <1>7 DEF SwitchRefuse
  <2> QED
    BY <1>6, <2>1 DEF MembershipInv, ShapeOK
<1>8. CASE SwitchCommit(u)
  <2> DEFINE s == switch[u]
             written2 == {k \in DOMAIN s.flags : s.defaulted \/ s.flags[k] # s.read[k]}
             Written(k) == k[1] = u /\ <<k[2], k[3]>> \in written2
  <2>1. /\ SwitchEnd(u, row')
        /\ \/ row' = row
           \/ row' = [k \in Rows |->
                        IF Written(k)
                        THEN [enabled |-> s.flags[<<k[2], k[3]>>],
                              until |-> IF s.defaulted THEN "never" ELSE row[k].until]
                        ELSE row[k]]
    BY <1>8 DEF SwitchCommit
  <2>2. \A k : Written(k) => k[1] = u /\ <<k[2], k[3]>> \in DOMAIN switch[u].flags
    OBVIOUS
  <2> HIDE DEF Written, s
  <2>3. /\ DOMAIN row' = Rows
        /\ \A k \in Rows : row'[k] = [enabled |-> row'[k].enabled, until |-> row'[k].until]
        /\ \A k \in Rows : row'[k] = row[k] \/ (k[1] = u /\ <<k[2], k[3]>> \in DOMAIN switch[u].flags)
    <3>1. CASE row' = row
      BY <3>1 DEF MembershipInv, ShapeOK
    <3>2. ASSUME NEW k \in Rows, row' # row
          PROVE  \/ Written(k) /\ row'[k] = [enabled |-> s.flags[<<k[2], k[3]>>],
                                            until |-> IF s.defaulted THEN "never" ELSE row[k].until]
                 \/ row'[k] = row[k]
      BY <2>1, <3>2
    <3>3. CASE row' # row
      <4>1. DOMAIN row' = Rows
        BY <2>1, <3>3
      <4>2. ASSUME NEW k \in Rows PROVE row'[k] = [enabled |-> row'[k].enabled, until |-> row'[k].until]
        <5>1. CASE row'[k] = row[k]
          BY <5>1 DEF MembershipInv, ShapeOK
        <5>2. CASE row'[k] = [enabled |-> s.flags[<<k[2], k[3]>>],
                              until |-> IF s.defaulted THEN "never" ELSE row[k].until]
          <6> DEFINE e == s.flags[<<k[2], k[3]>>]
                     t == IF s.defaulted THEN "never" ELSE row[k].until
          <6>1. row'[k] = [enabled |-> e, until |-> t]
            BY <5>2
          <6> HIDE DEF e, t
          <6> QED
            BY <6>1
        <5> QED
          BY <3>2, <3>3, <5>1, <5>2
      <4> QED
        BY <2>2, <3>2, <3>3, <4>1, <4>2
    <3> QED
      BY <3>1, <3>3
  <2> QED
    BY <1>6, <2>1, <2>3
<1> QED
  BY <1>1, <1>2, <1>3, <1>4, <1>5, <1>7, <1>8 DEF Device

LEMMA MembershipInvariant == Spec => []MembershipInv
<1>1. Init => MembershipInv
  <2> SUFFICES ASSUME Init PROVE MembershipInv
    OBVIOUS
  <2>1. DOMAIN row = Rows /\ \A k \in Rows : row[k] = [enabled |-> row[k].enabled, until |-> row[k].until]
    <3>1. PICK gs : row = [k \in Rows |-> IF k[2] \in gs /\ account[k[1]] = "active"
                                         THEN [enabled |-> TRUE, until |-> "never"] ELSE NoRow]
      BY DEF Init
    <3> QED
      BY <3>1 DEF NoRow
  <2>2. dev \in [Users -> [pc : {"off", "binding", "on"}, todo : SUBSET Names, mine : SUBSET Names]]
    BY DEF Init, Offline
  <2>3. /\ DOMAIN switch = Users
        /\ \A u \in Users : /\ DOMAIN switch[u] = {"open", "defaulted", "read", "flags"}
                            /\ DOMAIN switch[u].flags = {}
    BY DEF Init, NoSwitch
  <2>4. DOMAIN req = Admins /\ bound = {}
    BY DEF Init
  <2> QED
    BY <2>1, <2>2, <2>3, <2>4 DEF MembershipInv, ShapeOK
<1>2. MembershipInv /\ [Next]_vars => MembershipInv'
  <2> SUFFICES ASSUME MembershipInv, [Next]_vars PROVE MembershipInv'
    OBVIOUS
  <2>1. CASE UNCHANGED vars
    BY <2>1 DEF vars, MembershipInv, ShapeOK, Covered, Entitled, Unbinds, Switched
  <2>2. ASSUME NEW w \in Admins, GroupRequest(w) \/ DiagramRequest(w) \/ UserRequest(w) PROVE MembershipInv'
    BY <2>2, GroupRequestsUnbind, DiagramNotesItsBindings, UserRequestsNoteTheirBindings
  <2>3. ASSUME NEW u \in Owners, Device(u) PROVE MembershipInv'
    BY <2>3, DevicesNoteTheirBindings, OwnersAssumption
  <2>4. ASSUME NEW u \in Users, NEW i \in Items, Upload(u, i) PROVE MembershipInv'
    BY <2>4, JoiningKeeps DEF Upload
  <2> QED
    BY <2>1, <2>2, <2>3, <2>4, ExpiryUnbinds DEF Next
<1> QED
  BY <1>1, <1>2, PTL DEF Spec

(* Whoever changes a membership, and whatever sessions, switches and the broker do:
   a device's queue hears a group only while a receiving membership entitles it, or
   somebody is about to unbind it, or the binding is one of those known to be left. *)
THEOREM BindingsFollowMemberships == Spec => []BoundOnlyWhileMember
<1>1. MembershipInv => BoundOnlyWhileMember
  BY DEF MembershipInv, BoundOnlyWhileMember, Covered, Unbinds, Switched
<1> QED
  BY <1>1, MembershipInvariant, PTL

-----------------------------------------------------------------------------
(* Locked groups. *)

(* With one request of administrators at a time, the group that a request of the
   group API is about is still open when it goes on, and the groups of the diagram
   are never locked; a row that is there has an expiry, which no row that is not
   has. *)
LockInv ==
    /\ DOMAIN account = Users
    /\ Group \subseteq Names
    /\ \A g \in Group \cap Pairwise : ~policy[g].locked
    /\ \A k \in Rows : row[k] # NoRow => row[k].until # "none"
    /\ \A w \in Admins :
         /\ req[w].op \in {"add", "delete"} => Open(req[w].group)
         /\ req[w].op = "add" => req[w].until # "none"
         /\ req[w].op \in {"draw", "erase"} => req[w].group \in Pairwise

(* What LockedStaysFrozen says of a step. *)
FrozenStep ==
    \A g \in Locked(policy) :
        /\ g \in DOMAIN policy'
        /\ g \in Locked(policy') =>
            \A u \in Users, d \in Directions :
                LET k == <<u, g, d>>
                IN /\ row[k] # NoRow /\ row'[k] = NoRow
                        => row[k].until = "past" \/ account'[u] = "deleted"
                   /\ row[k] = NoRow /\ row'[k] # NoRow
                        => account[u] = "new" \/ switch[u].open \/ UserApiAdds

(* A step that changes the rows of open groups only. *)
LEMMA FrozenElsewhere ==
    ASSUME LockInv, Locked(policy) \subseteq DOMAIN policy',
           \A k \in Rows : k[2] \in Locked(policy) => row'[k] = row[k]
    PROVE  FrozenStep
<1>1. ASSUME NEW g \in Locked(policy), NEW u \in Users, NEW d \in Directions
      PROVE  row'[<<u, g, d>>] = row[<<u, g, d>>]
  <2>1. g \in Names
    BY DEF Locked, LockInv, Group
  <2>2. <<u, g, d>> \in Rows
    BY <2>1 DEF Rows
  <2> QED
    BY <2>2
<1> QED
  BY <1>1 DEF FrozenStep

(* Every row was changed for a reason the property names. *)
LEMMA FrozenByRow ==
    ASSUME LockInv, policy' = policy,
           \A k \in Rows : row[k] # NoRow /\ row'[k] = NoRow
                             => row[k].until = "past" \/ account'[k[1]] = "deleted",
           \A k \in Rows : row[k] = NoRow /\ row'[k] # NoRow
                             => account[k[1]] = "new" \/ switch[k[1]].open \/ UserApiAdds
    PROVE  FrozenStep
<1>1. ASSUME NEW g \in Locked(policy), NEW u \in Users, NEW d \in Directions
      PROVE  LET k == <<u, g, d>>
             IN /\ row[k] # NoRow /\ row'[k] = NoRow
                     => row[k].until = "past" \/ account'[u] = "deleted"
                /\ row[k] = NoRow /\ row'[k] # NoRow
                     => account[u] = "new" \/ switch[u].open \/ UserApiAdds
  <2>1. g \in Names
    BY DEF Locked, LockInv, Group
  <2> DEFINE k == <<u, g, d>>
  <2>2. k \in Rows /\ k[1] = u
    BY <2>1 DEF Rows
  <2> QED
    BY <2>2
<1>2. Locked(policy) \subseteq DOMAIN policy'
  BY DEF Locked
<1> QED
  BY <1>1, <1>2 DEF FrozenStep

(* Steps that change rows only. *)
LEMMA LockFrame ==
    ASSUME LockInv, policy' = policy, DOMAIN account' = Users, req' = req,
           \A k \in Rows : row'[k] # NoRow => row'[k].until # "none"
    PROVE  LockInv'
BY DEF LockInv, Open, Group

(* A request goes on to q, in the same groups. *)
LEMMA LockMoves ==
    ASSUME LockInv, MembershipInv, NEW w \in Admins, \A v, x \in Admins : v = x,
           policy' = policy, account' = account,
           NEW q, req' = [req EXCEPT ![w] = q],
           q.op \in {"add", "delete"} => Open(q.group),
           q.op = "add" => q.until # "none",
           q.op \in {"draw", "erase"} => q.group \in Pairwise,
           \A k \in Rows : row'[k] # NoRow => row'[k].until # "none"
    PROVE  LockInv'
<1>1. \A v \in Admins : v = w /\ req'[v] = q
  BY DEF MembershipInv, ShapeOK
<1> QED
  BY <1>1 DEF LockInv, Open, Group

(* The end of a request whose groups changed. *)
LEMMA LockEnds ==
    ASSUME LockInv, MembershipInv, NEW w \in Admins, \A v, x \in Admins : v = x,
           account' = account, NEW q, req' = [req EXCEPT ![w] = q], q.op \in {"idle", "unbind"},
           Group' \subseteq Names, \A g \in (Group \cap Pairwise)' : ~policy'[g].locked,
           \A k \in Rows : row'[k] # NoRow => row'[k].until # "none"
    PROVE  LockInv'
<1>1. \A v \in Admins : v = w /\ req'[v] = q
  BY DEF MembershipInv, ShapeOK
<1> QED
  BY <1>1 DEF LockInv

LEMMA AddedHasExpiry ==
    ASSUME NEW r, NEW us, NEW g, NEW a, NEW until, until # "none",
           \A k \in Rows : r[k] # NoRow => r[k].until # "none", NEW k \in Rows,
           Added(r, us, g, a, until)[k] # NoRow
    PROVE  Added(r, us, g, a, until)[k].until # "none"
BY DEF Added

LEMMA Removes ==
    ASSUME LockInv, NEW ks, NEW k \in Rows, Removed(row, ks)[k] # NoRow
    PROVE  Removed(row, ks)[k] = row[k] /\ row[k].until # "none"
BY DEF Removed, LockInv

(* What a step of the group API does to the groups and rows that are locked. *)
LEMMA GroupRequestsRespectLocks ==
    ASSUME LockInv, MembershipInv, \A v, x \in Admins : v = x, NEW w \in Admins, GroupRequest(w)
    PROVE  LockInv' /\ FrozenStep
<1>0. /\ \A k \in Rows : row[k] # NoRow => row[k].until # "none"
      /\ Group \subseteq Names /\ DOMAIN policy = Group /\ DOMAIN account = Users /\ DOMAIN row = Rows
      /\ \A g : Open(g) => g \notin Locked(policy)
      /\ \A g \in Group \cap Pairwise : ~policy[g].locked
  BY DEF LockInv, Group, MembershipInv, ShapeOK, Open, Locked
<1>a. \A g : default_expiry(g) # "none"
  BY DEF default_expiry
<1>b. \A u, g : OldExpiry(u, g) # "none"
  BY DEF OldExpiry
<1>c. \A S : Unbinding(S).op \in {"idle", "unbind"}
  BY DEF Unbinding, Idle
<1>d. "none" \notin Given
  BY GivenAssumption
(* Where neither a row nor a group changes. *)
<1>e. ASSUME row' = row, policy' = policy PROVE FrozenStep
  BY <1>e, FrozenElsewhere DEF Locked
<1>1. ASSUME NEW g \in Names, NEW p \in Policies, add_group(w, g, p) PROVE LockInv' /\ FrozenStep
  <2>1. /\ g \in Named \ Group /\ row' = row /\ req' = req /\ account' = account
        /\ policy' = [h \in Group \cup {g} |-> IF h = g THEN p ELSE policy[h]]
        /\ req[w] = Idle
    BY <1>1 DEF add_group, Start
  <2>2. g \notin Pairwise /\ g \in Names
    BY <2>1, PairAssumption DEF Names
  <2>3. Group' = Group \cup {g}
    BY <2>1 DEF Group
  <2>4. \A h \in Group' \cap Pairwise : ~policy'[h].locked
    BY <1>0, <2>1, <2>2, <2>3
  <2>5. \A v \in Admins : req[v] = Idle
    BY <2>1
  <2>6. LockInv'
    BY <1>0, <2>1, <2>2, <2>3, <2>4, <2>5 DEF LockInv, Idle
  <2>7. FrozenStep
    BY <1>0, <2>1, <2>3, FrozenElsewhere DEF Group, Locked
  <2> QED
    BY <2>6, <2>7
<1>2. ASSUME NEW g \in Names, NEW p \in Policies, update_group_policy(w, g, p) PROVE LockInv' /\ FrozenStep
  <2>1. /\ g \in Group \ Pairwise /\ row' = row /\ req' = req /\ account' = account
        /\ policy' = [policy EXCEPT ![g] = p] /\ req[w] = Idle
    BY <1>2 DEF update_group_policy, Start
  <2>3. Group' = Group
    BY <2>1 DEF Group
  <2>4. \A h \in Group' \cap Pairwise : ~policy'[h].locked
    BY <1>0, <2>1, <2>3
  <2>5. \A v \in Admins : req[v] = Idle
    BY <2>1
  <2>6. LockInv'
    BY <1>0, <2>1, <2>3, <2>4, <2>5 DEF LockInv, Idle
  <2>7. FrozenStep
    BY <1>0, <2>1, <2>3, FrozenElsewhere DEF Group, Locked
  <2> QED
    BY <2>6, <2>7
<1>3. ASSUME NEW g \in Names, apply_group_auto_join(w, g) PROVE LockInv' /\ FrozenStep
  <2>1. UNCHANGED <<account, policy, req>> /\ Open(g)
    BY <1>3 DEF apply_group_auto_join
  <2> DEFINE us == {u \in Users : account[u] = "active" /\ RowsOf(u, g) = {}}
  <2>2. row' = Added(row, us, g, policy[g].access, default_expiry(g))
    BY <1>3 DEF apply_group_auto_join
  <2> HIDE DEF us
  <2>3. \A k \in Rows : row'[k] # NoRow => row'[k].until # "none"
    BY <1>0, <1>a, <2>2, AddedHasExpiry
  <2>4. \A k \in Rows : k[2] # g => row'[k] = row[k]
    BY <2>2 DEF Added
  <2>5. LockInv'
    BY <1>0, <2>1, <2>3, LockFrame
  <2>6. FrozenStep
    BY <1>0, <2>1, <2>4, FrozenElsewhere DEF Locked
  <2> QED
    BY <2>5, <2>6
<1>4. ASSUME NEW g \in Names, delete_group(w, g) PROVE LockInv' /\ FrozenStep
  <2> DEFINE q == [op |-> "delete", group |-> g]
  <2>1. UNCHANGED <<account, policy, row>> /\ Open(g) /\ req' = [req EXCEPT ![w] = q]
    BY <1>4 DEF delete_group
  <2>2. q.op = "delete" /\ q.group = g
    OBVIOUS
  <2> HIDE DEF q
  <2> QED
    BY <1>0, <1>e, <2>1, <2>2, LockMoves
<1>5. ASSUME NEW g \in Names, NEW us, NEW a, NEW until \in Given \cup {"default"},
             add_user_to_group(w, us, g, a, until)
      PROVE  LockInv' /\ FrozenStep
  <2> DEFINE q == [op |-> "add", users |-> us, group |-> g, access |-> a,
                   until |-> IF until = "default" THEN default_expiry(g) ELSE until]
  <2>1. UNCHANGED <<account, policy, row>> /\ Open(g) /\ req' = [req EXCEPT ![w] = q]
    BY <1>5 DEF add_user_to_group
  <2>2. q.op = "add" /\ q.group = g /\ q.until # "none"
    BY <1>a, <1>d
  <2> HIDE DEF q
  <2> QED
    BY <1>0, <1>e, <2>1, <2>2, LockMoves
<1>6. CASE AddNext(w)
  <2>1. PICK u \in req[w].users :
          LET q == req[w]
              rest == q.users \ {u}
          IN /\ req' = [req EXCEPT ![w] = IF account[u] # "active" \/ rest = {} THEN Idle
                                          ELSE [q EXCEPT !.users = rest]]
             /\ row' = IF account[u] = "active" /\ q.group \in Group
                       THEN Added(row, {u}, q.group, q.access, q.until) ELSE row
    BY <1>6 DEF AddNext
  <2>2. UNCHANGED <<account, policy>> /\ req[w].op = "add" /\ Open(req[w].group) /\ req[w].until # "none"
    BY <1>6 DEF AddNext, LockInv
  <2> DEFINE us == {u}
             rest == req[w].users \ us
             q == IF account[u] # "active" \/ rest = {} THEN Idle ELSE [req[w] EXCEPT !.users = rest]
  <2>3. /\ req' = [req EXCEPT ![w] = q]
        /\ row' = row \/ row' = Added(row, us, req[w].group, req[w].access, req[w].until)
    BY <2>1
  <2>4. q = Idle \/ (q.op = req[w].op /\ q.group = req[w].group /\ q.until = req[w].until)
    OBVIOUS
  <2> HIDE DEF q, us
  <2>5. \A k \in Rows : row'[k] # NoRow => row'[k].until # "none"
    BY <1>0, <2>2, <2>3, AddedHasExpiry
  <2>6. \A k \in Rows : k[2] # req[w].group => row'[k] = row[k]
    BY <2>3 DEF Added
  <2>7. LockInv'
    BY <2>2, <2>3, <2>4, <2>5, LockMoves DEF Idle
  <2>8. FrozenStep
    BY <1>0, <2>2, <2>6, FrozenElsewhere DEF Locked
  <2> QED
    BY <2>7, <2>8
<1>7. ASSUME NEW u \in Users, NEW g \in Names, NEW a, remove_user_from_group(w, u, g, a)
      PROVE  LockInv' /\ FrozenStep
  <2> DEFINE gone == {<<u, g, d>> : d \in RowsOf(u, g) \cap ACCESS_DIRECTIONS(a)}
             q == Unbinding(Heard(gone))
  <2>1. /\ UNCHANGED <<account, policy>> /\ Open(g) /\ row' = Removed(row, gone)
        /\ req' = [req EXCEPT ![w] = q]
    BY <1>7 DEF remove_user_from_group
  <2>2. q.op \in {"idle", "unbind"}
    BY <1>c
  <2>3. \A k \in gone : k[2] = g
    OBVIOUS
  <2> HIDE DEF gone, q
  <2>4. \A k \in Rows : row'[k] # NoRow => row'[k].until # "none"
    BY <2>1, Removes
  <2>5. \A k \in Rows : k[2] # g => row'[k] = row[k]
    BY <2>1, <2>3 DEF Removed
  <2>6. LockInv'
    BY <2>1, <2>2, <2>4, LockMoves
  <2>7. FrozenStep
    BY <1>0, <2>1, <2>5, FrozenElsewhere DEF Locked
  <2> QED
    BY <2>6, <2>7
<1>8. ASSUME NEW u \in Users, NEW g \in Names, NEW a, NEW until \in Given \cup {"keep"},
             update_group_member(w, u, g, a, until)
      PROVE  LockInv' /\ FrozenStep
  <2> DEFINE old == RowsOf(u, g)
             wanted == IF a = "keep" THEN old ELSE ACCESS_DIRECTIONS(a)
             expires == IF until = "keep" THEN OldExpiry(u, g) ELSE until
             gone == {<<u, g, d>> : d \in old \ wanted}
             Kept(k) == k[1] = u /\ k[2] = g /\ k[3] \in old \cap wanted
             us == {u}
             widened == IF a = "keep" THEN row ELSE Added(row, us, g, a, expires)
             q == Unbinding(Heard(gone))
  <2>1. UNCHANGED <<account, policy>> /\ Open(g) /\ req' = [req EXCEPT ![w] = q]
    BY <1>8 DEF update_group_member
  <2>2. row' = [k \in Rows |-> IF k \in gone THEN NoRow
                               ELSE IF until # "keep" /\ Kept(k) THEN [row[k] EXCEPT !.until = until]
                               ELSE widened[k]]
    BY <1>8 DEF update_group_member
  <2>3. q.op \in {"idle", "unbind"}
    BY <1>c
  <2>4. \A k \in gone : k[2] = g
    OBVIOUS
  <2>5. expires # "none" /\ until # "none"
    BY <1>b, <1>d
  <2>6. \A k : Kept(k) => k[2] = g
    OBVIOUS
  <2> HIDE DEF q, gone, Kept, us, expires
  <2>7. \A k \in Rows : /\ k[2] # g => widened[k] = row[k]
                        /\ widened[k] # NoRow => widened[k].until # "none"
    <3>1. ASSUME NEW k \in Rows, Added(row, us, g, a, expires)[k] # NoRow
          PROVE  Added(row, us, g, a, expires)[k].until # "none"
      BY <1>0, <2>5, <3>1, AddedHasExpiry
    <3> QED
      BY <1>0, <3>1 DEF Added
  <2> HIDE DEF widened
  <2>8. \A k \in Rows : row'[k] # NoRow => row'[k].until # "none"
    <3> TAKE k \in Rows
    <3>1. row[k] = [enabled |-> row[k].enabled, until |-> row[k].until]
      BY DEF MembershipInv, ShapeOK
    <3>2. [row[k] EXCEPT !.until = until].until = until
      BY <3>1
    <3> QED
      BY <2>2, <2>5, <2>7, <3>2
  <2>9. \A k \in Rows : k[2] # g => row'[k] = row[k]
    BY <2>2, <2>4, <2>6, <2>7
  <2>10. LockInv'
    BY <2>1, <2>3, <2>8, LockMoves
  <2>11. FrozenStep
    BY <1>0, <2>1, <2>9, FrozenElsewhere DEF Locked
  <2> QED
    BY <2>10, <2>11
<1>9. CASE DeleteCommit(w)
  <2> DEFINE g == req[w].group
             q == Unbinding(Heard(Dropped(g)))
  <2>1. /\ account' = account /\ Open(g) /\ Drop(g) /\ req' = [req EXCEPT ![w] = q]
        /\ q.op \in {"idle", "unbind"}
    BY <1>9, <1>c DEF DeleteCommit, LockInv
  <2>2. /\ row' = Removed(row, Dropped(g)) /\ policy' = [h \in Group \ {g} |-> policy[h]]
        /\ \A k \in Dropped(g) : k[2] = g
    BY <2>1 DEF Drop, Dropped
  <2> HIDE DEF q, g
  <2>3. Group' = Group \ {g}
    BY <2>2 DEF Group
  <2>4. \A k \in Rows : row'[k] # NoRow => row'[k].until # "none"
    BY <2>2, Removes
  <2>5. \A k \in Rows : k[2] # g => row'[k] = row[k]
    BY <2>2 DEF Removed
  <2>6. LockInv'
    BY <1>0, <2>1, <2>2, <2>3, <2>4, LockEnds
  <2>7. FrozenStep
    BY <1>0, <2>1, <2>2, <2>5, FrozenElsewhere DEF Locked
  <2> QED
    BY <2>6, <2>7
<1>10. CASE Unbind(w)
  <2>1. UNCHANGED <<account, policy, row>> /\ req' = [req EXCEPT ![w] = Idle]
    BY <1>10 DEF Unbind
  <2> QED
    BY <1>0, <1>e, <2>1, LockMoves DEF Idle
<1> QED
  BY <1>1, <1>2, <1>3, <1>4, <1>5, <1>6, <1>7, <1>8, <1>9, <1>10 DEF GroupRequest

(* The diagram draws and erases pairwise groups, and those are never locked. *)
LEMMA DiagramRespectsLocks ==
    ASSUME LockInv, MembershipInv, \A v, x \in Admins : v = x, NEW w \in Admins, DiagramRequest(w)
    PROVE  LockInv' /\ FrozenStep
<1>0. /\ \A k \in Rows : row[k] # NoRow => row[k].until # "none"
      /\ Group \subseteq Names /\ DOMAIN policy = Group /\ DOMAIN account = Users /\ DOMAIN row = Rows
      /\ \A g \in Group \cap Pairwise : ~policy[g].locked /\ g \notin Locked(policy)
      /\ \A g : g \in Locked(policy) => g \in Group /\ g \notin Pairwise
  BY DEF LockInv, Group, MembershipInv, ShapeOK, Locked
<1>e. ASSUME row' = row, policy' = policy PROVE FrozenStep
  BY <1>e, FrozenElsewhere DEF Locked
<1>1. ASSUME NEW a \in Users, NEW b \in Users, NEW type, set_user_visibility(w, a, b, type)
      PROVE  LockInv' /\ FrozenStep
  <2> DEFINE e == {a, b}
             q == [op |-> "draw", group |-> e, grants |-> Grants(a, b, type), next |-> 1]
  <2>1. /\ account' = account /\ row' = row /\ req' = [req EXCEPT ![w] = q]
        /\ policy' = [h \in Group \cup {e} |-> IF h \in Group THEN policy[h] ELSE DefaultPolicy]
        /\ a # b
    BY <1>1 DEF set_user_visibility
  <2>2. q.op = "draw" /\ q.group = e /\ e \in Pairwise
    <3>1. <<a, b>> \in {x \in Users \X Users : x[1] # x[2]}
      BY <2>1
    <3>2. e \in Pairwise
      BY <3>1 DEF Pairwise
    <3> QED
      BY <3>2
  <2> HIDE DEF q, e
  <2>3. Group' = Group \cup {e} /\ e \in Names
    BY <2>1, <2>2 DEF Group, Names
  <2>4. \A h \in Group' \cap Pairwise : ~policy'[h].locked
    BY <1>0, <2>1, <2>3 DEF DefaultPolicy
  <2>5. \A v \in Admins : v = w /\ req'[v] = q
    BY <2>1 DEF MembershipInv, ShapeOK
  <2>6. LockInv'
    BY <1>0, <2>1, <2>2, <2>3, <2>4, <2>5 DEF LockInv
  <2>7. FrozenStep
    BY <1>0, <2>1, <2>3, FrozenElsewhere DEF Group
  <2> QED
    BY <2>6, <2>7
<1>2. ASSUME NEW e \in Pairwise, remove_user_visibility(w, e) PROVE LockInv' /\ FrozenStep
  <2> DEFINE q == [op |-> "erase", group |-> e]
  <2>1. UNCHANGED <<account, policy, row>> /\ req' = [req EXCEPT ![w] = q]
    BY <1>2 DEF remove_user_visibility
  <2>2. q.op = "erase" /\ q.group \in Pairwise
    OBVIOUS
  <2> HIDE DEF q
  <2> QED
    BY <1>0, <1>e, <2>1, <2>2, LockMoves
<1>3. CASE DrawNext(w)
  <2> DEFINE r == req[w]
             grant == r.grants[r.next]
             at == <<grant.user, r.group, grant.dir>>
             q == IF r.next = 4 THEN Idle ELSE [r EXCEPT !.next = @ + 1]
             new == IF ~grant.present THEN NoRow
                    ELSE IF row[at] = NoRow /\ r.group \in Group /\ account[grant.user] = "active"
                         THEN [enabled |-> TRUE, until |-> "never"]
                    ELSE row[at]
  <2>1. /\ UNCHANGED <<account, policy>> /\ r.op = "draw" /\ r.group \in Pairwise
        /\ row' = [row EXCEPT ![at] = new] /\ req' = [req EXCEPT ![w] = q]
    BY <1>3 DEF DrawNext, LockInv
  <2>2. q = Idle \/ (q.op = "draw" /\ q.group = r.group)
    BY <2>1
  <2>3. at \in Rows => (new # NoRow => new.until # "none")
    BY <1>0
  <2>4. at[2] = r.group
    OBVIOUS
  <2> HIDE DEF q, new, at
  <2>5. \A k \in Rows : row'[k] # NoRow => row'[k].until # "none"
    BY <1>0, <2>1, <2>3
  <2>6. \A k \in Rows : k[2] \in Locked(policy) => row'[k] = row[k]
    BY <1>0, <2>1, <2>4
  <2>7. LockInv'
    BY <2>1, <2>2, <2>5, LockMoves DEF Idle
  <2>8. FrozenStep
    BY <1>0, <2>1, <2>6, FrozenElsewhere DEF Locked
  <2> QED
    BY <2>7, <2>8
<1>4. CASE EraseCommit(w)
  <2> DEFINE g == req[w].group
  <2>1. /\ account' = account /\ g \in Pairwise /\ Drop(g) /\ req' = [req EXCEPT ![w] = Idle]
    BY <1>4 DEF EraseCommit, LockInv
  <2>2. /\ row' = Removed(row, Dropped(g)) /\ policy' = [h \in Group \ {g} |-> policy[h]]
        /\ \A k \in Dropped(g) : k[2] = g
    BY <2>1 DEF Drop, Dropped
  <2> HIDE DEF g
  <2>3. Group' = Group \ {g}
    BY <2>2 DEF Group
  <2>4. \A k \in Rows : row'[k] # NoRow => row'[k].until # "none"
    BY <2>2, Removes
  <2>5. \A k \in Rows : k[2] # g => row'[k] = row[k]
    BY <2>2 DEF Removed
  <2>6. LockInv'
    BY <1>0, <2>1, <2>2, <2>3, <2>4, LockEnds DEF Idle
  <2>7. FrozenStep
    BY <1>0, <2>1, <2>2, <2>5, FrozenElsewhere DEF Locked
  <2> QED
    BY <2>6, <2>7
<1> QED
  BY <1>1, <1>2, <1>3, <1>4 DEF DiagramRequest

(* The user API creates and deletes accounts, and adds whom it is told to. *)
LEMMA UserRequestsRespectLocks ==
    ASSUME LockInv, MembershipInv, \A v, x \in Admins : v = x, NEW w \in Admins, UserRequest(w)
    PROVE  LockInv' /\ FrozenStep
<1>0. /\ \A k \in Rows : row[k] # NoRow => row[k].until # "none"
      /\ DOMAIN account = Users /\ DOMAIN row = Rows
  BY DEF LockInv, MembershipInv, ShapeOK
<1>1. ASSUME NEW u \in Users, create_user(w, u) PROVE LockInv' /\ FrozenStep
  <2> DEFINE us == {u}
             anon == Added(row, us, Anon, "both", "never")
  <2>1. /\ UNCHANGED <<policy, req>> /\ account[u] = "new" /\ DOMAIN account' = Users
        /\ row' = Joined(u)
    BY <1>0, <1>1 DEF create_user
  <2>2. us = {u}
    OBVIOUS
  <2> HIDE DEF us
  <2>3. ASSUME NEW k \in Rows
        PROVE  /\ anon[k] # NoRow => anon[k].until # "none"
               /\ anon[k] # row[k] => k[1] = u /\ row[k] = NoRow
    BY <1>0, <2>2, AddedHasExpiry DEF Added
  <2>4. ASSUME NEW k \in Rows
        PROVE  /\ row'[k] # NoRow => row'[k].until # "none"
               /\ row'[k] # row[k] => k[1] = u /\ row[k] = NoRow
    <3> DEFINE more == Added(anon, us, k[2], policy[k[2]].access, default_expiry(k[2]))
    <3>1. row'[k] = anon[k] \/ row'[k] = more[k]
      BY <2>1, <2>2, <2>4 DEF Joined
    <3> HIDE DEF anon
    <3>2. default_expiry(k[2]) # "none"
      BY DEF default_expiry
    <3>3. more[k] # NoRow => more[k].until # "none"
      BY <2>3, <2>4, <3>2, AddedHasExpiry
    <3>4. more[k] # anon[k] => k[1] = u /\ anon[k] = NoRow
      BY <2>2, <2>4 DEF Added
    <3> QED
      BY <2>3, <2>4, <3>1, <3>3, <3>4
  <2>5. LockInv'
    BY <2>1, <2>4, LockFrame
  <2>6. FrozenStep
    BY <2>1, <2>4, FrozenByRow
  <2> QED
    BY <2>5, <2>6
<1>2. ASSUME NEW u \in Users, delete_user(w, u) PROVE LockInv' /\ FrozenStep
  <2> DEFINE gone == {k \in Rows : k[1] = u /\ row[k] # NoRow}
  <2>1. /\ UNCHANGED <<policy, req>> /\ account' = [account EXCEPT ![u] = "deleted"]
        /\ row' = Removed(row, gone)
    BY <1>2 DEF delete_user
  <2>2. \A k \in gone : k[1] = u
    OBVIOUS
  <2> HIDE DEF gone
  <2>3. \A k \in Rows : row'[k] # NoRow => row'[k].until # "none"
    BY <2>1, Removes
  <2>4. \A k \in Rows : row'[k] # row[k] => account'[k[1]] = "deleted" /\ row'[k] = NoRow
    BY <1>0, <2>1, <2>2 DEF Removed
  <2>5. LockInv'
    BY <1>0, <2>1, <2>3, LockFrame
  <2>6. FrozenStep
    BY <2>1, <2>4, FrozenByRow
  <2> QED
    BY <2>5, <2>6
<1>3. ASSUME NEW u \in Users, NEW g \in Names, NEW d \in Directions, add_user_to_groups(w, u, g, d)
      PROVE  LockInv' /\ FrozenStep
  <2> DEFINE us == {u}
  <2>1. UNCHANGED <<policy, req, account>> /\ row' = Added(row, us, g, d, "never")
    BY <1>3 DEF add_user_to_groups
  <2>2. UserApiAdds
    BY <1>3 DEF UserApiAdds
  <2> HIDE DEF us
  <2>3. \A k \in Rows : row'[k] # NoRow => row'[k].until # "none"
    BY <1>0, <2>1, AddedHasExpiry
  <2>4. \A k \in Rows : row'[k] # row[k] => row[k] = NoRow
    BY <2>1 DEF Added
  <2>5. LockInv'
    BY <1>0, <2>1, <2>3, LockFrame
  <2>6. FrozenStep
    BY <2>1, <2>2, <2>4, FrozenByRow
  <2> QED
    BY <2>5, <2>6
<1>4. ASSUME NEW i \in Items, NEW gs, SetGroups(w, i, gs) PROVE LockInv' /\ FrozenStep
  <2>1. UNCHANGED <<policy, req, account, row>>
    BY <1>4 DEF SetGroups
  <2> QED
    BY <1>0, <2>1, LockFrame, FrozenElsewhere DEF Locked
<1> QED
  BY <1>1, <1>2, <1>3, <1>4 DEF UserRequest

(* Uploads, the expiry job, sessions and switches. *)
LEMMA OthersRespectLocks ==
    ASSUME LockInv, MembershipInv,
           \/ \E u \in Owners : Device(u)
           \/ \E u \in Users, i \in Items : Upload(u, i)
           \/ \E k \in Rows : Lapse(k)
           \/ expire_memberships \/ ExpireUnbind
    PROVE  LockInv' /\ FrozenStep
<1>0. /\ \A k \in Rows : row[k] # NoRow => row[k].until # "none"
      /\ DOMAIN account = Users /\ DOMAIN row = Rows
      /\ \A k \in Rows : row[k] = [enabled |-> row[k].enabled, until |-> row[k].until]
  BY DEF LockInv, MembershipInv, ShapeOK
<1>1. UNCHANGED <<policy, req, account>>
  BY DEF Device, Connect, BindNext, Disconnect, SwitchOpen, SwitchNext, SwitchRefuse, SwitchCommit,
     SwitchEnd, Upload, Lapse, expire_memberships, ExpireUnbind
<1>2. CASE row' = row
  BY <1>0, <1>1, <1>2, LockFrame, FrozenElsewhere DEF Locked
<1>3. ASSUME NEW k \in Rows, Lapse(k) PROVE LockInv' /\ FrozenStep
  <2>1. row[k].until = "later" /\ row' = [row EXCEPT ![k] = [row[k] EXCEPT !.until = "past"]]
    BY <1>3 DEF Lapse
  <2>2. [row[k] EXCEPT !.until = "past"].until = "past" /\ row[k] # NoRow
        /\ [row[k] EXCEPT !.until = "past"] # NoRow
    BY <1>0, <1>3, <2>1 DEF NoRow
  <2>3. \A x \in Rows : /\ row'[x] # NoRow => row'[x].until # "none"
                        /\ row'[x] = NoRow <=> row[x] = NoRow
    BY <1>0, <2>1, <2>2
  <2> QED
    BY <1>0, <1>1, <2>3, LockFrame, FrozenByRow
<1>4. CASE expire_memberships
  <2>1. row' = Removed(row, Past)
    BY <1>4 DEF expire_memberships
  <2>2. \A k \in Rows : row'[k] # NoRow => row'[k].until # "none"
    BY <2>1, Removes
  <2>3. \A k \in Rows : row'[k] # row[k] => row[k].until = "past" /\ row'[k] = NoRow
    BY <2>1 DEF Removed, Past
  <2> QED
    BY <1>0, <1>1, <2>2, <2>3, LockFrame, FrozenByRow
<1>5. ASSUME NEW u \in Owners, SwitchCommit(u) PROVE LockInv' /\ FrozenStep
  <2> DEFINE s == switch[u]
             decided == {k \in DOMAIN s.flags : s.defaulted \/ s.flags[k] # s.read[k]}
             Fits(k) == IF s.defaulted THEN ~Member(u, k[1], k[2]) /\ account[u] = "active"
                        ELSE Member(u, k[1], k[2])
             Written(k) == k[1] = u /\ <<k[2], k[3]>> \in decided
             New(k) == [enabled |-> s.flags[<<k[2], k[3]>>],
                        until |-> IF s.defaulted THEN "never" ELSE row[k].until]
  <2>1. s.open
    BY <1>5 DEF SwitchCommit
  <2>2. \/ row' = row
        \/ (\A k \in decided : Fits(k)) /\ row' = [k \in Rows |-> IF Written(k) THEN New(k) ELSE row[k]]
    BY <1>5 DEF SwitchCommit
  <2>3. \A k \in Rows : Written(k) /\ (\A x \in decided : Fits(x)) =>
          s.defaulted \/ row[k] # NoRow
    <3> SUFFICES ASSUME NEW k \in Rows, Written(k), \A x \in decided : Fits(x), ~s.defaulted
                 PROVE  row[k] # NoRow
      OBVIOUS
    <3>1. Fits(<<k[2], k[3]>>)
      OBVIOUS
    <3>2. Member(u, k[2], k[3])
      BY <3>1
    <3>3. k = <<u, k[2], k[3]>>
      BY DEF Rows
    <3> QED
      BY <3>2, <3>3 DEF Member
  <2>4. \A k \in Rows : (s.defaulted \/ row[k] # NoRow) => New(k).until # "none" /\ New(k) # NoRow
    BY <1>0 DEF NoRow
  <2>5. \A k : Written(k) => k[1] = u
    OBVIOUS
  <2> HIDE DEF New, Written, decided, Fits
  <2>6. \A k \in Rows : /\ row'[k] # NoRow => row'[k].until # "none"
                        /\ row'[k] # row[k] => k[1] = u /\ row'[k] # NoRow
    BY <1>0, <2>2, <2>3, <2>4, <2>5
  <2> QED
    BY <1>0, <1>1, <2>1, <2>6, LockFrame, FrozenByRow
<1>6. ASSUME NEW u \in Owners, Device(u), ~SwitchCommit(u) PROVE row' = row
  BY <1>6 DEF Device, Connect, BindNext, Disconnect, SwitchOpen, SwitchNext, SwitchRefuse
<1>7. (\E u \in Users, i \in Items : Upload(u, i)) \/ ExpireUnbind => row' = row
  BY DEF Upload, ExpireUnbind
<1> QED
  BY <1>2, <1>3, <1>4, <1>5, <1>6, <1>7

(* GroupMembership: with one request of administrators at a time, whatever devices,
   their switches, uploads and the expiry job do meanwhile, nobody enters or leaves
   a locked group but in the ways that are named. *)
THEOREM LockedGroupsStayFrozen ==
    ASSUME \A v, w \in Admins : v = w
    PROVE  Spec => LockedStaysFrozen
<1>1. Init => LockInv
  <2> SUFFICES ASSUME Init PROVE LockInv
    OBVIOUS
  <2>1. PICK gs : gs \in SUBSET Named /\ policy = [g \in gs \cup {Anon} |-> DefaultPolicy]
    BY DEF Init
  <2>2. Group \subseteq Names /\ \A g \in Group : ~policy[g].locked
    BY <2>1 DEF Group, Names, DefaultPolicy
  <2>3. PICK hs : row = [k \in Rows |-> IF k[2] \in hs /\ account[k[1]] = "active"
                                        THEN [enabled |-> TRUE, until |-> "never"] ELSE NoRow]
    BY DEF Init
  <2>4. \A k \in Rows : row[k] # NoRow => row[k].until # "none"
    BY <2>3
  <2>5. DOMAIN account = Users /\ \A w \in Admins : req[w].op = "idle"
    BY DEF Init, Idle
  <2> QED
    BY <2>2, <2>4, <2>5 DEF LockInv
<1>2. MembershipInv /\ LockInv /\ [Next]_vars => LockInv'
  <2>1. ASSUME LockInv, UNCHANGED vars PROVE LockInv'
    BY <2>1 DEF vars, LockInv, Open, Group
  <2> QED
    BY <2>1, GroupRequestsRespectLocks, DiagramRespectsLocks, UserRequestsRespectLocks,
       OthersRespectLocks DEF Next
<1>3. MembershipInv /\ LockInv /\ [Next]_vars => [FrozenStep]_vars
  BY GroupRequestsRespectLocks, DiagramRespectsLocks, UserRequestsRespectLocks,
     OthersRespectLocks DEF Next
<1> QED
  BY <1>1, <1>2, <1>3, MembershipInvariant, PTL DEF Spec, LockedStaysFrozen, FrozenStep
=============================================================================
