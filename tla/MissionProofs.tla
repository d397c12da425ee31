---------------------------- MODULE MissionProofs ----------------------------
(* Theorems of a mission: what is left of it when it is deleted, its log and the items
   it tells of, and its folders as an ordered forest. *)
EXTENDS Missions, FiniteSetTheorems, WellFoundedInduction, TLAPS

-----------------------------------------------------------------------------
(* What a deleted mission leaves. *)
ItemsTypeOK == item \in [Items -> {"none", "nowhere", "here", "there"}]

\* NothingWithoutMission, and no link is left to a file that may be uploaded again.
NoLinks == Missing => \A l \in linked : l[2] # "here"

MissionInv == ItemsTypeOK /\ NoLinks /\ NothingWithoutMission

LEMMA MissionStart == Init => MissionInv
<1> SUFFICES ASSUME Init PROVE MissionInv
  OBVIOUS
<1>1. /\ roles = NoRoles /\ invited = {} /\ DOMAIN row = {} /\ linked = {} /\ log = <<>>
      /\ item = [i \in Items |-> "none"]
  BY DEF Init, AccessInit, LayersInit, ContentsInit
<1> QED BY <1>1 DEF MissionInv, ItemsTypeOK, NoLinks, NothingWithoutMission, Linked

\* Without the mission no request on its members does anything, but for one that makes it.
LEMMA AccessWithoutMission ==
    ASSUME MissionInv, Access
    PROVE  MissionInv'
<1>t. ItemsTypeOK /\ NoLinks /\ NothingWithoutMission
  BY DEF MissionInv
<1>0. /\ row' = row /\ linked' = linked /\ log' = log /\ item' = item /\ content' = content
      /\ AccessCommit \/ \E r \in Requests : AccessRequest(r)
  BY DEF Access, layerVars, contentVars
<1>1. ASSUME Missing', Missing
      PROVE  roles' = roles /\ invited' = {}
  <2>1. roles = NoRoles /\ invited = {} /\ mission = "none" /\ mission' = "none"
    BY <1>t, <1>1 DEF NothingWithoutMission, Missing
  <2>2. \A d \in Devices : RolesOf(d) = {}
    BY <2>1 DEF RolesOf, NoRoles
  <2>3. CASE AccessCommit
    BY <2>1, <2>2, <2>3 DEF AccessCommit, CreateMission, Invite, Kick, DeleteInvitation, Disconnect,
                            EditMission, IsOwner, Missing
  <2>4. ASSUME NEW r \in Requests, AccessRequest(r)
        PROVE  roles' = roles /\ invited' = {}
    BY <2>1, <2>2, <2>4
       DEF AccessRequest, PutMission, Subscribe, Unsubscribe, OneRoleLess, ChangeRole, IsOwner,
           PutMissionNoSuchGroup, PutMissionGroups, PutMissionOwner, SubscribeRole, SubscribeBind,
           UnsubscribeUnbind, BrokerFails, ChangeRoleAdd, Missing
  <2> QED BY <1>0, <2>3, <2>4
<1>2. ASSUME Missing'
      PROVE  Missing
  <2>1. CASE AccessCommit
    BY <1>2, <2>1 DEF AccessCommit, CreateMission, Invite, Kick, DeleteInvitation, Disconnect,
                      EditMission, Missing
  <2>2. ASSUME NEW r \in Requests, AccessRequest(r)
        PROVE  Missing
    BY <1>2, <2>2
       DEF AccessRequest, PutMission, Subscribe, Unsubscribe, ChangeRole,
           PutMissionNoSuchGroup, PutMissionGroups, PutMissionOwner, SubscribeRole, SubscribeBind,
           UnsubscribeUnbind, BrokerFails, ChangeRoleAdd, Missing
  <2> QED BY <1>0, <2>1, <2>2
<1> QED BY <1>t, <1>0, <1>1, <1>2
        DEF MissionInv, ItemsTypeOK, NoLinks, NothingWithoutMission, Linked, NoRoles

\* Of an empty log nothing is kept.
LEMMA NothingKept == AtPlaces(<<>>, {}) = <<>>
BY FS_EmptySet DEF AtPlaces

\* Nor one on its contents: each looks at the mission's row, or is about the other mission.
LEMMA ContentWithoutMission ==
    ASSUME MissionInv, Content
    PROVE  MissionInv'
<1>t. ItemsTypeOK /\ NoLinks /\ NothingWithoutMission
  BY DEF MissionInv
<1>0. /\ mission' = mission /\ roles' = roles /\ invited' = invited /\ row' = row
      /\ Elsewhere \/ \E w \in Writers : ContentRequest(w)
  BY DEF Content, layerVars, accessVars
<1>1. ItemsTypeOK'
  BY <1>t, <1>0 DEF ItemsTypeOK, Elsewhere, Upload, PutThere, PutItemThere, OtherGone, ContentRequest,
        PutFile, PutFileCommit, PutItem, PutItemFind, PutItemChange, AddPackage, AddPackageLink, AddPackageItem,
        AddPackageOpaque, DeleteContent, DeleteContentChange, PublishFails, ItemsWithout
<1>2. ASSUME Missing
      PROVE  /\ \A l \in linked' : l[2] # "here"
             /\ log' = <<>>
             /\ \A i \in Items : item'[i] # "here"
  <2>1. (\A l \in linked : l[2] # "here") /\ log = <<>> /\ (\A i \in Items : item[i] # "here")
    BY <1>t, <1>2 DEF NoLinks, NothingWithoutMission
  <2>2. CASE Elsewhere
    <3>1. CASE \E f \in Files : Upload(f) \/ PutThere(f)
      BY <2>1, <3>1 DEF Upload, PutThere
    <3>2. CASE \E i \in Items : PutItemThere(i)
      BY <1>t, <2>1, <3>2 DEF PutItemThere, ItemsTypeOK
    <3>3. CASE OtherGone
      <4>1. LogWithout({i \in Items : item[i] = "there"}) = <<>>
        BY <2>1, NothingKept DEF LogWithout
      <4> QED BY <2>1, <3>3, <4>1 DEF OtherGone, ItemsWithout
    <3> QED BY <2>2, <3>1, <3>2, <3>3 DEF Elsewhere
  <2>3. ASSUME NEW w \in Writers, ContentRequest(w)
        PROVE  linked' \subseteq linked /\ log' = log /\ item' = item
    BY <1>2, <2>3 DEF ContentRequest, PutFile, PutFileCommit, PutItem, PutItemFind, PutItemChange, AddPackage,
        AddPackageLink, AddPackageItem, AddPackageOpaque, DeleteContent, DeleteContentChange,
        PublishFails
  <2> QED BY <1>0, <2>1, <2>2, <2>3
<1>3. NoLinks' /\ NothingWithoutMission'
  BY <1>t, <1>0, <1>2 DEF NoLinks, NothingWithoutMission, Missing, Linked, NoRoles
<1> QED BY <1>1, <1>3 DEF MissionInv

\* Each step keeps it, the deletions by taking everything along.
LEMMA MissionStep == MissionInv /\ [Next]_vars => MissionInv'
<1> SUFFICES ASSUME MissionInv, [Next]_vars PROVE MissionInv'
  OBVIOUS
<1>t. ItemsTypeOK /\ NoLinks /\ NothingWithoutMission
  BY DEF MissionInv
<1>1. CASE UNCHANGED vars
  BY <1>1 DEF vars, MissionInv, ItemsTypeOK, NoLinks, NothingWithoutMission, Missing, Linked, NoRoles
<1>2. ASSUME Gone, NoLayers, WebDrops \/ ClientDrops
      PROVE  MissionInv'
  <2>1. ItemsTypeOK' /\ \A i \in Items : item'[i] # "here"
    BY <1>t, <1>2 DEF ItemsTypeOK, WebDrops, ClientDrops, ItemsWithout
  <2>2. (\A l \in linked' : l[2] # "here") /\ log' = <<>>
    BY <1>2 DEF WebDrops, ClientDrops
  <2>3. roles' = NoRoles /\ invited' = {} /\ DOMAIN row' = {}
    BY <1>2 DEF Gone, NoLayers
  <2> QED BY <2>1, <2>2, <2>3 DEF MissionInv, NoLinks, NothingWithoutMission, Linked, NoRoles
<1>3. CASE WebDelete
  BY <1>2, <1>3 DEF WebDelete, WebDeleteMission
<1>4. ASSUME NEW d \in Devices, ClientDelete(d)
      PROVE  MissionInv'
  <2>1. CASE mission' = "none"
    BY <1>2, <1>4, <2>1 DEF ClientDelete, DeleteMission, Missing
  <2>2. CASE mission' # "none"
    BY <1>t, <1>4, <2>2
       DEF ClientDelete, contentVars, MissionInv, ItemsTypeOK, NoLinks, NothingWithoutMission, Missing
  <2> QED BY <2>1, <2>2
<1>5. ASSUME NEW e \in Editors, LayerStarts(e) \/ LayerEnds(e)
      PROVE  MissionInv'
  <2>1. /\ mission' = mission /\ roles' = roles /\ invited' = invited
        /\ linked' = linked /\ log' = log /\ item' = item /\ content' = content
    BY <1>5 DEF LayerStarts, LayerEnds, accessVars, contentVars
  <2>2. Missing => row' = row
    BY <1>5 DEF LayerStarts, MayEdit, LayerEnds, Ends, Failed
  <2> QED BY <1>t, <2>1, <2>2
          DEF MissionInv, ItemsTypeOK, NoLinks, NothingWithoutMission, Missing, Linked, NoRoles
<1> QED BY <1>1, <1>3, <1>4, <1>5, AccessWithoutMission, ContentWithoutMission DEF Next

(* Deleted by a browser or by a client, with whatever requests under way: a mission that
   has no row has no role, invitation, layer, link, item or log either. *)
THEOREM NothingOutlivesItsMission == Spec => []NothingWithoutMission
<1>1. MissionInv => NothingWithoutMission
  BY DEF MissionInv
<1> QED BY <1>1, MissionStart, MissionStep, PTL DEF Spec

-----------------------------------------------------------------------------
(* The log of a mission and the items it tells of. *)

Entries == [type : {"add", "remove"}, file : Files \cup {Nothing}, item : Items \cup {Nothing}]
Adding == {"item", "insert", "refresh"}
Works ==
    {NoWork}
    \cup [op : {"put"}, file : Files, item : {Nothing}, known : BOOLEAN]
    \cup [op : Adding, item : Items, file : Files \cup {Nothing}]
    \cup [op : {"package"}, file : Files, item : Items \cup {Nothing}]
    \cup [op : {"opaque"}, file : Files, item : {Nothing}]
    \cup [op : {"packed"}, file : Files, item : Items]
    \cup [op : {"remove"}, file : Files \cup {Nothing}, item : Items \cup {Nothing}, writes : BOOLEAN]
LogTypeOK == log \in Seq(Entries) /\ work \in [Writers -> Works]

\* A request is about to say that i was added.
WillAdd(i) == \E r \in Writers : work[r].op \in Adding /\ work[r].item = i

OneAdd == \A i \in Items : \A m, n \in AddsOf(i) : m = n
HereIsAdded == \A i \in Items : item[i] = "here" => WillAdd(i) \/ LastAdded(i)

\* What a request has read of its item stays true until it writes: an item that it will not
\* take off the mission is not in it, and the change that it found or missed is there or not.
StaysTrue(r) ==
    /\ work[r].op = "remove" /\ work[r].item # Nothing /\ ~work[r].writes
          => item[work[r].item] # "here"
    /\ work[r].op = "insert" => AddsOf(work[r].item) = {}
    /\ work[r].op = "refresh" /\ item[work[r].item] = "here" => AddsOf(work[r].item) # {}
ReadStaysTrue == \A r \in Writers : StaysTrue(r)

LogInv == LogTypeOK /\ OneAdd /\ HereIsAdded /\ ReadStaysTrue

LEMMA LogStart == Init => LogInv
<1> SUFFICES ASSUME Init PROVE LogInv
  OBVIOUS
<1>1. log = <<>> /\ item = [i \in Items |-> "none"] /\ work = [r \in Writers |-> NoWork]
  BY DEF Init, ContentsInit
<1>2. \A i : AddsOf(i) = {}
  BY <1>1 DEF AddsOf, About
<1>3. LogTypeOK
  BY <1>1 DEF LogTypeOK, Works
<1> QED
  BY <1>1, <1>2, <1>3 DEF LogInv, OneAdd, HereIsAdded, ReadStaysTrue, StaysTrue, NoWork

\* A request goes on or ends, and writes no change.
LEMMA WorkKeepsLogInv ==
    ASSUME ItemsTypeOK, LogInv, OnePerItem', UNCHANGED log, NEW r \in Writers, NEW w \in Works,
           work' = [work EXCEPT ![r] = w],
           ItemsTypeOK',
           \A i \in Items : item'[i] = "here" => item[i] = "here" \/ (w.op = "item" /\ w.item = i),
           \A i \in Items : item'[i] = "here" /\ work[r].op \in Adding /\ work[r].item = i
                              => w.op \in Adding /\ w.item = i,
           w.op = "remove" /\ w.item # Nothing /\ ~w.writes => item'[w.item] # "here",
           w.op = "insert" => AddsOf(w.item) = {},
           w.op = "refresh" => AddsOf(w.item) # {}
    PROVE  LogInv'
<1>t. LogTypeOK /\ OneAdd /\ HereIsAdded /\ ReadStaysTrue
  BY DEF LogInv
<1>1. LogTypeOK'
  BY <1>t DEF LogTypeOK
<1>2. work'[r] = w /\ \A s \in Writers \ {r} : work'[s] = work[s]
  BY <1>t DEF LogTypeOK
<1>3. /\ \A i : AddsOf(i)' = AddsOf(i) /\ About(i)' = About(i) /\ LastAdded(i)' = LastAdded(i)
  BY DEF AddsOf, About, LastAdded
<1>4. OneAdd'
  BY <1>t, <1>3 DEF OneAdd
<1>5. ASSUME NEW i \in Items, item'[i] = "here" PROVE WillAdd(i)' \/ LastAdded(i)'
  <2>1. CASE w.op = "item" /\ w.item = i
    BY <1>2, <2>1 DEF WillAdd, Adding
  <2>2. CASE item[i] = "here" /\ LastAdded(i)
    BY <1>3, <2>2
  <2>3. CASE item[i] = "here" /\ WillAdd(i)
    <3>1. PICK s \in Writers : work[s].op \in Adding /\ work[s].item = i
      BY <2>3 DEF WillAdd
    <3>2. work'[s].op \in Adding /\ work'[s].item = i
      BY <1>2, <1>5, <3>1
    <3> QED
      BY <3>2 DEF WillAdd
  <2> QED
    BY <1>t, <1>5, <2>1, <2>2, <2>3 DEF HereIsAdded
<1>6. ASSUME NEW s \in Writers PROVE StaysTrue(s)'
  <2>1. CASE s = r
    BY <1>2, <1>3, <2>1 DEF StaysTrue
  <2>2. CASE s # r
    <3>1. work'[s] = work[s]
      BY <1>2, <2>2
    <3>2. ASSUME work[s].op \in {"remove", "refresh"}, work[s].item # Nothing,
                 item'[work[s].item] = "here"
          PROVE  item[work[s].item] = "here"
      <4>1. work[s] # NoWork /\ work[s].item \in Items
        BY <1>t, <3>2 DEF LogTypeOK, Works, NoWork, Adding
      <4>2. w.op = "item" => w # NoWork
        BY DEF NoWork
      <4>3. ~(w.op = "item" /\ w.item = work[s].item)
        BY <1>2, <2>2, <3>1, <3>2, <4>1, <4>2 DEF OnePerItem
      <4> QED
        BY <3>2, <4>1, <4>3
    <3>3. work[s].op = "refresh" => work[s].item # Nothing
      BY <1>t, ContentsAssumption DEF LogTypeOK, Works, NoWork, Adding
    <3> QED
      BY <1>t, <1>3, <3>1, <3>2, <3>3 DEF ReadStaysTrue, StaysTrue
  <2> QED
    BY <2>1, <2>2
<1> QED
  BY <1>1, <1>4, <1>5, <1>6 DEF LogInv, HereIsAdded, ReadStaysTrue

\* The log tells of i what it told before, whatever it tells of others.
SameTold(i) ==
    /\ (\A m, n \in AddsOf(i) : m = n) => (\A m, n \in AddsOf(i)' : m = n)
    /\ LastAdded(i) => LastAdded(i)'
    /\ (AddsOf(i) = {}) <=> (AddsOf(i)' = {})

\* So it does if the entries about i are those that were, in their order.
LEMMA EntriesKept ==
    ASSUME log \in Seq(Entries), log' \in Seq(Entries), NEW i,
           NEW D \in SUBSET DOMAIN log', NEW f \in [D -> DOMAIN log],
           \A j, k \in D : j < k => f[j] < f[k],
           \A j \in D : log'[j] = log[f[j]],
           \A j \in DOMAIN log' : log'[j].item = i => j \in D,
           \A n \in About(i) : \E j \in D : f[j] = n
    PROVE  SameTold(i)
<1>1. DOMAIN log \subseteq Nat /\ DOMAIN log' \subseteq Nat
  OBVIOUS
<1>2. \A j \in D : (j \in About(i)' <=> f[j] \in About(i)) /\ (j \in AddsOf(i)' <=> f[j] \in AddsOf(i))
  BY DEF About, AddsOf
<1>3. About(i)' \subseteq D /\ AddsOf(i)' \subseteq About(i)' /\ AddsOf(i) \subseteq About(i)
  BY DEF About, AddsOf
<1>4. \A j, k \in D : f[j] = f[k] => j = k
  <2> SUFFICES ASSUME NEW j \in D, NEW k \in D, f[j] = f[k] PROVE j = k
    OBVIOUS
  <2>1. j \in Nat /\ k \in Nat /\ f[j] \in Nat /\ f[k] \in Nat
    BY <1>1
  <2>2. (j < k => f[j] < f[k]) /\ (k < j => f[k] < f[j])
    OBVIOUS
  <2>3. ~(f[j] < f[k]) /\ ~(f[k] < f[j])
    BY <2>1
  <2> QED
    BY <2>1, <2>2, <2>3
<1>5. ASSUME \A m, n \in AddsOf(i) : m = n, NEW j \in AddsOf(i)', NEW k \in AddsOf(i)' PROVE j = k
  <2>1. f[j] = f[k] /\ j \in D /\ k \in D
    BY <1>2, <1>3, <1>5
  <2> QED
    BY <1>4, <2>1
<1>6. ASSUME LastAdded(i) PROVE LastAdded(i)'
  <2>1. PICK n \in AddsOf(i) : \A m \in About(i) : m <= n
    BY <1>6 DEF LastAdded
  <2>2. PICK j \in D : f[j] = n
    BY <1>3, <2>1
  <2>3. ASSUME NEW k \in About(i)' PROVE k <= j
    <3>1. k \in D /\ f[k] <= f[j]
      BY <1>2, <1>3, <2>1, <2>2
    <3>2. j \in Nat /\ k \in Nat /\ f[j] \in Nat /\ f[k] \in Nat
      BY <1>1, <3>1
    <3>3. ~(j < k)
      BY <3>1, <3>2
    <3> QED
      BY <3>2, <3>3
  <2>4. j \in AddsOf(i)'
    BY <1>2, <2>1, <2>2
  <2> QED
    BY <2>3, <2>4 DEF LastAdded
<1>7. (AddsOf(i) = {}) <=> (AddsOf(i)' = {})
  BY <1>2, <1>3
<1> QED
  BY <1>5, <1>6, <1>7 DEF SameTold

LEMMA AppendedElsewhere ==
    ASSUME log \in Seq(Entries), NEW e \in Entries, log' = Append(log, e), NEW i, e.item # i
    PROVE  log' \in Seq(Entries) /\ SameTold(i)
<1> DEFINE f == [j \in DOMAIN log |-> j]
<1>1. log' \in Seq(Entries) /\ DOMAIN log \subseteq DOMAIN log' /\ f \in [DOMAIN log -> DOMAIN log]
  OBVIOUS
<1>2. \A j \in DOMAIN log : log'[j] = log[f[j]] /\ f[j] = j
  OBVIOUS
<1>3. \A j \in DOMAIN log' : log'[j].item = i => j \in DOMAIN log
  OBVIOUS
<1>4. \A n \in About(i) : n \in DOMAIN log
  BY DEF About
<1> HIDE DEF f
<1> QED
  BY <1>1, <1>2, <1>3, <1>4, EntriesKept

LEMMA AfterTheFirst ==
    ASSUME NEW S, NEW s \in Seq(S), NEW t \in Seq(S)
    PROVE  \A k \in 1..Len(t) : (s \o t)[Len(s) + k] = t[k]
OBVIOUS

LEMMA RefreshedEntries ==
    ASSUME log \in Seq(Entries), NEW n \in DOMAIN log, NEW f \in Files \cup {Nothing},
           log' = Refreshed(n, f)
    PROVE  /\ log' \in Seq(Entries) /\ DOMAIN log' = DOMAIN log
           /\ \A k \in DOMAIN log : k < n => log'[k] = log[k]
           /\ \A k \in DOMAIN log : n <= k /\ k < Len(log) => log'[k] = log[k + 1]
           /\ log'[Len(log)].item = log[n].item /\ log'[Len(log)].type = log[n].type
<1> DEFINE e == IF f = Nothing THEN log[n] ELSE [log[n] EXCEPT !.file = f]
           q == RemoveAt(log, n)
<1>1. e \in Entries /\ e.item = log[n].item /\ e.type = log[n].type
  <2>1. log[n] \in Entries
    OBVIOUS
  <2> QED
    BY <2>1 DEF Entries
<1>2. /\ q \in Seq(Entries) /\ Len(q) = Len(log) - 1
      /\ \A k \in 1..Len(q) : q[k] = IF k < n THEN log[k] ELSE log[k + 1]
  <2> DEFINE a == SubSeq(log, 1, n - 1)
             b == SubSeq(log, n + 1, Len(log))
  <2>1. a \in Seq(Entries) /\ Len(a) = n - 1 /\ \A k \in 1..n-1 : a[k] = log[k]
    OBVIOUS
  <2>2. /\ b \in Seq(Entries) /\ Len(b) = Len(log) - n
        /\ \A k \in 1..Len(log)-n : b[k] = log[k + n]
    OBVIOUS
  <2>3. q = a \o b /\ n \in 1..Len(log) /\ Len(log) \in Nat
    BY DEF RemoveAt
  <2> HIDE DEF a, b, q
  <2>4. q \in Seq(Entries) /\ Len(q) = Len(log) - 1
    BY <2>1, <2>2, <2>3
  <2>5. ASSUME NEW k \in 1..Len(q) PROVE q[k] = IF k < n THEN log[k] ELSE log[k + 1]
    <3>1. CASE k < n
      <4>1. k \in 1..n-1 /\ q[k] = a[k]
        BY <2>1, <2>2, <2>3, <2>4, <3>1
      <4> QED
        BY <2>1, <3>1, <4>1
    <3>2. CASE ~(k < n)
      <4>0. k \in Nat /\ n \in Nat /\ k <= Len(log) - 1 /\ k >= n /\ Len(a) = n - 1
        BY <2>1, <2>3, <2>4, <3>2
      <4>1. k - (n - 1) \in 1..Len(log)-n /\ q[k] = b[k - (n - 1)]
        <5>1. k - (n - 1) \in 1..Len(log)-n 
          BY <2>2, <2>3, <4>0
        <5>2. k - (n - 1) \in 1..Len(b)
          BY <2>2, <5>1
        <5>3. q[Len(a) + (k - (n - 1))] = b[k - (n - 1)]
          <6>1. \A m \in 1..Len(b) : (a \o b)[Len(a) + m] = b[m]
            BY <2>1, <2>2, AfterTheFirst
          <6> QED
            BY <2>3, <5>2, <6>1
        <5>4. Len(a) + (k - (n - 1)) = k
          BY <4>0
        <5> QED
          BY <5>1, <5>3, <5>4
      <4>2. k - (n - 1) + n = k + 1
        BY <2>3
      <4> QED
        BY <2>2, <3>2, <4>1, <4>2
    <3> QED
      BY <3>1, <3>2
  <2> QED
    BY <2>4, <2>5
<1>3. log' = Append(q, e)
  BY DEF Refreshed
<1> HIDE DEF e, q
<1> QED
  BY <1>1, <1>2, <1>3

LEMMA RefreshedElsewhere ==
    ASSUME log \in Seq(Entries), NEW n \in DOMAIN log, NEW f \in Files \cup {Nothing},
           log' = Refreshed(n, f), NEW i, log[n].item # i
    PROVE  SameTold(i)
<1> DEFINE D == 1..Len(log) - 1
           at == [k \in D |-> IF k < n THEN k ELSE k + 1]
<1>1. /\ log' \in Seq(Entries) /\ DOMAIN log' = DOMAIN log
      /\ \A k \in DOMAIN log : k < n => log'[k] = log[k]
      /\ \A k \in DOMAIN log : n <= k /\ k < Len(log) => log'[k] = log[k + 1]
      /\ log'[Len(log)].item = log[n].item
  BY RefreshedEntries
<1>2. D \subseteq DOMAIN log' /\ at \in [D -> DOMAIN log] /\ \A j, k \in D : j < k => at[j] < at[k]
  BY <1>1
<1>3. \A j \in D : log'[j] = log[at[j]]
  BY <1>1
<1>4. \A j \in DOMAIN log' : log'[j].item = i => j \in D
  BY <1>1
<1>5. ASSUME NEW m \in About(i) PROVE \E j \in D : at[j] = m
  <2>1. m \in DOMAIN log /\ m # n
    BY DEF About
  <2>2. CASE m < n
    BY <2>1, <2>2
  <2>3. CASE m > n
    <3>1. m - 1 \in D /\ at[m - 1] = m
      BY <2>1, <2>3
    <3> QED
      BY <3>1
  <2> QED
    BY <2>1, <2>2, <2>3
<1> HIDE DEF D, at
<1>6. log' \in Seq(Entries) /\ D \in SUBSET DOMAIN log' /\ at \in [D -> DOMAIN log]
  BY <1>1, <1>2
<1>7. \A j, k \in D : j < k => at[j] < at[k]
  BY <1>2
<1> QED
  BY <1>3, <1>4, <1>5, <1>6, <1>7, EntriesKept

\* f lists the c places in S in their order; a set of places in a log can be so listed.
Enumerates(S, c, f) ==
    /\ f \in [1..c -> S]
    /\ \A j, k \in 1..c : j < k => f[j] < f[k]
    /\ \A n \in S : \E j \in 1..c : f[j] = n

LEMMA OneMorePlace ==
    ASSUME NEW c \in Nat, NEW n \in Nat, NEW S, n \notin S, \A m \in S : m \in Nat /\ m < n,
           NEW f, Enumerates(S, c, f)
    PROVE  \E g : Enumerates(S \cup {n}, c + 1, g)
<1> DEFINE g == [j \in 1..c+1 |-> IF j = c + 1 THEN n ELSE f[j]]
<1>1. \A j \in 1..c : f[j] \in S /\ f[j] \in Nat /\ f[j] < n /\ g[j] = f[j] /\ j \in 1..c+1
  <2> SUFFICES ASSUME NEW j \in 1..c
               PROVE  f[j] \in S /\ f[j] \in Nat /\ f[j] < n /\ g[j] = f[j] /\ j \in 1..c+1
    OBVIOUS
  <2>1. f[j] \in S
    BY DEF Enumerates
  <2>2. j # c + 1 /\ j \in 1..c+1
    OBVIOUS
  <2> QED
    BY <2>1, <2>2
<1>2. g[c + 1] = n /\ c + 1 \in 1..c+1 /\ \A j \in 1..c+1 : j = c + 1 \/ j \in 1..c
  OBVIOUS
<1>3. g \in [1..c+1 -> S \cup {n}]
  BY <1>1, <1>2
<1> HIDE DEF g
<1>4. ASSUME NEW j \in 1..c+1, NEW k \in 1..c+1, j < k PROVE g[j] < g[k]
  <2>1. j \in 1..c
    BY <1>4
  <2>2. CASE k = c + 1
    BY <1>1, <1>2, <2>1, <2>2
  <2>3. CASE k \in 1..c
    <3>1. f[j] < f[k]
      BY <1>4, <2>1, <2>3 DEF Enumerates
    <3> QED
      BY <1>1, <2>1, <2>3, <3>1
  <2> QED
    BY <1>2, <2>2, <2>3
<1>5. ASSUME NEW m \in S \cup {n} PROVE \E j \in 1..c+1 : g[j] = m
  <2>1. CASE m = n
    BY <1>2, <2>1
  <2>2. CASE m \in S
    <3>1. PICK j \in 1..c : f[j] = m
      BY <2>2 DEF Enumerates
    <3> QED
      BY <1>1, <3>1
  <2> QED
    BY <2>1, <2>2
<1>6. Enumerates(S \cup {n}, c + 1, g)
  BY <1>3, <1>4, <1>5 DEF Enumerates
<1> QED
  BY <1>6

LEMMA PlacesInOrder ==
    ASSUME NEW N \in Nat, NEW S \in SUBSET (1..N)
    PROVE  Cardinality(S) \in Nat /\ \E f : Enumerates(S, Cardinality(S), f)
<1> DEFINE Up(n) == S \cap 1..n
           T == {n \in 0..N : ~ \E f : Enumerates(Up(n), Cardinality(Up(n)), f)}
<1>1. \A n \in Nat : IsFiniteSet(Up(n)) /\ Cardinality(Up(n)) \in Nat
  <2> SUFFICES ASSUME NEW n \in Nat PROVE IsFiniteSet(Up(n)) /\ Cardinality(Up(n)) \in Nat
    OBVIOUS
  <2>1. IsFiniteSet(1..n) /\ Up(n) \subseteq 1..n
    BY FS_Interval
  <2> QED
    BY <2>1, FS_Subset, FS_CardinalityType
<1>2. T = {}
  <2> SUFFICES ASSUME T # {} PROVE FALSE
    OBVIOUS
  <2>1. IsWellFoundedOn(OpToRel(<, Nat), Nat)
    BY NatLessThanWellFounded
  <2>2. T \subseteq Nat
    OBVIOUS
  <2>3. \E x \in T : \A y \in T : ~ (<<y, x>> \in OpToRel(<, Nat))
    <3> HIDE DEF T
    <3> QED
      BY <2>1, <2>2, WFMin
  <2>4. PICK n \in T : \A y \in T : ~ (y < n)
    BY <2>2, <2>3 DEF OpToRel
  <2>5. n \in 0..N /\ ~ \E f : Enumerates(Up(n), Cardinality(Up(n)), f)
    BY <2>4
  <2>6. CASE n = 0
    <3>1. Up(n) = {} /\ Cardinality({}) = 0
      BY <2>6, FS_EmptySet
    <3>2. Enumerates({}, 0, [j \in 1..0 |-> j])
      BY DEF Enumerates
    <3> QED
      BY <2>5, <3>1, <3>2
  <2>7. CASE n # 0
    <3>1. n - 1 \in 0..N /\ n - 1 < n /\ n - 1 \in Nat /\ n \in Nat
      BY <2>5, <2>7
    <3>2. n - 1 \notin T
      BY <2>4, <3>1
    <3>3. PICK f : Enumerates(Up(n - 1), Cardinality(Up(n - 1)), f)
      BY <3>1, <3>2
    <3>4. CASE n \notin S
      <4>1. Up(n) = Up(n - 1)
        BY <3>1, <3>4
      <4> QED
        BY <2>5, <3>3, <4>1
    <3>5. CASE n \in S
      <4>1. /\ Up(n) = Up(n - 1) \cup {n} /\ n \notin Up(n - 1)
            /\ \A m \in Up(n - 1) : m \in Nat /\ m < n
        BY <3>1, <3>5
      <4>2. IsFiniteSet(Up(n - 1)) /\ Cardinality(Up(n - 1)) \in Nat
        BY <1>1, <3>1
      <4> HIDE DEF Up, T
      <4>3. Cardinality(Up(n)) = Cardinality(Up(n - 1)) + 1
        BY <4>1, <4>2, FS_AddElement
      <4>4. \E g : Enumerates(Up(n - 1) \cup {n}, Cardinality(Up(n - 1)) + 1, g)
        BY <3>1, <3>3, <4>1, <4>2, OneMorePlace
      <4> QED
        BY <2>5, <4>1, <4>3, <4>4
    <3> QED
      BY <3>4, <3>5
  <2> QED
    BY <2>6, <2>7
<1>3. Up(N) = S /\ N \in 0..N
  <2>1. N \in 0..N
    OBVIOUS
  <2>2. Up(N) = S
    OBVIOUS
  <2> QED
    BY <2>1, <2>2
<1>4. \E f : Enumerates(Up(N), Cardinality(Up(N)), f)
  BY <1>2, <1>3
<1> QED
  BY <1>1, <1>3, <1>4

LEMMA PlacesAreKept ==
    ASSUME log \in Seq(Entries), NEW S \in SUBSET DOMAIN log, log' = AtPlaces(log, S)
    PROVE  /\ log' \in Seq(Entries)
           /\ \E f \in [DOMAIN log' -> S] :
                 /\ \A j, k \in DOMAIN log' : j < k => f[j] < f[k]
                 /\ \A j \in DOMAIN log' : log'[j] = log[f[j]]
                 /\ \A n \in S : \E j \in DOMAIN log' : f[j] = n
<1> DEFINE Fits(f) == /\ \A j, k \in DOMAIN f : j < k => f[j] < f[k]
                      /\ \A n \in S : \E j \in DOMAIN f : f[j] = n
           at == CHOOSE f \in [1..Cardinality(S) -> S] : Fits(f)
<1>1. Len(log) \in Nat /\ S \in SUBSET (1..Len(log))
  OBVIOUS
<1>2. Cardinality(S) \in Nat /\ \E f \in [1..Cardinality(S) -> S] : Fits(f)
  <2>1. Cardinality(S) \in Nat /\ \E f : Enumerates(S, Cardinality(S), f)
    BY <1>1, PlacesInOrder
  <2>2. PICK f : Enumerates(S, Cardinality(S), f)
    BY <2>1
  <2>3. f \in [1..Cardinality(S) -> S] /\ Fits(f)
    BY <2>2 DEF Enumerates
  <2> HIDE DEF Fits
  <2> QED
    BY <2>1, <2>3
<1>3. at \in [1..Cardinality(S) -> S] /\ Fits(at)
  <2> HIDE DEF Fits
  <2> QED
    BY <1>2
<1>4. log' = [j \in 1..Cardinality(S) |-> log[at[j]]]
  BY DEF AtPlaces
<1> HIDE DEF at
<1>5. \A j \in 1..Cardinality(S) : log[at[j]] \in Entries
  BY <1>1, <1>3
<1>6. log' \in Seq(Entries) /\ DOMAIN log' = 1..Cardinality(S)
  BY <1>2, <1>4, <1>5
<1> QED
  BY <1>3, <1>4, <1>6

\* A request ends with a change about its item, if it has one.
LEMMA ChangeKeepsLogInv ==
    ASSUME LogInv, OnePerItem, NEW r \in Writers, work[r] # NoWork,
           work' = [work EXCEPT ![r] = NoWork], log' \in Seq(Entries),
           NEW x, x = work[r].item,
           \A i \in Items \ {x} : SameTold(i) /\ (item'[i] = "here" => item[i] = "here"),
           x \in Items => (/\ \A m, n \in AddsOf(x)' : m = n
                           /\ item'[x] = "here" => LastAdded(x)')
    PROVE  LogInv'
<1>t. LogTypeOK /\ OneAdd /\ HereIsAdded /\ ReadStaysTrue
  BY DEF LogInv
<1>1. LogTypeOK' /\ work'[r] = NoWork /\ \A s \in Writers \ {r} : work'[s] = work[s]
  BY <1>t DEF LogTypeOK, Works
<1>2. OneAdd'
  <2> SUFFICES ASSUME NEW i \in Items PROVE \A m, n \in AddsOf(i)' : m = n
    BY DEF OneAdd
  <2>1. CASE i = x
    BY <2>1
  <2>2. CASE i # x
    BY <1>t, <2>2 DEF OneAdd, SameTold
  <2> QED
    BY <2>1, <2>2
<1>3. ASSUME NEW i \in Items, item'[i] = "here" PROVE WillAdd(i)' \/ LastAdded(i)'
  <2>1. CASE i = x
    BY <1>3, <2>1
  <2>2. CASE i # x
    <3>1. CASE LastAdded(i)
      BY <2>2, <3>1 DEF SameTold
    <3>2. CASE WillAdd(i)
      BY <1>1, <2>2, <3>2 DEF WillAdd
    <3> QED
      BY <1>t, <1>3, <2>2, <3>1, <3>2 DEF HereIsAdded
  <2> QED
    BY <2>1, <2>2
<1>4. ASSUME NEW s \in Writers PROVE StaysTrue(s)'
  <2>1. CASE s = r
    BY <1>1, <2>1 DEF NoWork, StaysTrue
  <2>2. CASE s # r
    <3>1. PICK y : y = work[s].item
      OBVIOUS
    <3>5. work'[s] = work[s]
      BY <1>1, <2>2
    <3>2. ASSUME work[s].op \in {"insert", "refresh"} \/ (work[s].op = "remove" /\ y # Nothing)
          PROVE  y \in Items \ {x}
      <4>1. work[s] # NoWork /\ y \in Items /\ y # Nothing
        BY <1>t, <3>1, <3>2, ContentsAssumption DEF LogTypeOK, Works, NoWork, Adding
      <4> QED
        BY <2>2, <3>1, <4>1 DEF OnePerItem
    <3>3. y \in Items \ {x} => SameTold(y) /\ (item'[y] = "here" => item[y] = "here")
      OBVIOUS
    <3>4. /\ work[s].op = "remove" /\ y # Nothing /\ ~work[s].writes => item[y] # "here"
          /\ work[s].op = "insert" => AddsOf(y) = {}
          /\ work[s].op = "refresh" /\ item[y] = "here" => AddsOf(y) # {}
      BY <1>t, <3>1 DEF ReadStaysTrue, StaysTrue
    <3>6. work'[s].item = y
      BY <3>1, <3>5
    <3> QED
      BY <3>2, <3>3, <3>4, <3>5, <3>6 DEF SameTold, StaysTrue
  <2> QED
    BY <2>1, <2>2
<1> QED
  BY <1>1, <1>2, <1>3, <1>4 DEF LogInv, HereIsAdded, ReadStaysTrue

\* What the requests of others and the deletion of a mission do: no item comes, and what is
\* told of those that stay is told.
LEMMA LossKeepsLogInv ==
    ASSUME LogInv, UNCHANGED work, log' \in Seq(Entries),
           \A i \in Items : item'[i] = "here" => item[i] = "here" /\ SameTold(i),
           \A i \in Items : AddsOf(i)' = {} \/ SameTold(i)
    PROVE  LogInv'
<1>t. LogTypeOK /\ OneAdd /\ HereIsAdded /\ ReadStaysTrue
  BY DEF LogInv
<1>1. LogTypeOK'
  BY <1>t DEF LogTypeOK
<1>2. OneAdd'
  BY <1>t DEF OneAdd, SameTold
<1>3. HereIsAdded'
  BY <1>t DEF HereIsAdded, SameTold, WillAdd
<1>4. ASSUME NEW s \in Writers PROVE StaysTrue(s)'
  <2>1. PICK y : y = work[s].item /\ y = work'[s].item
    OBVIOUS
  <2>2. work[s].op \in {"insert", "refresh"} \/ (work[s].op = "remove" /\ y # Nothing)
          => y \in Items
    BY <1>t, <2>1 DEF LogTypeOK, Works, NoWork, Adding
  <2>3. /\ work[s].op = "remove" /\ y # Nothing /\ ~work[s].writes => item[y] # "here"
        /\ work[s].op = "insert" => AddsOf(y) = {}
        /\ work[s].op = "refresh" /\ item[y] = "here" => AddsOf(y) # {}
    BY <1>t, <2>1 DEF ReadStaysTrue, StaysTrue
  <2>4. SameTold(y) \/ AddsOf(y)' = {} \/ y \notin Items
    OBVIOUS
  <2> QED
    BY <2>1, <2>2, <2>3, <2>4 DEF SameTold, StaysTrue
<1> QED
  BY <1>1, <1>2, <1>3, <1>4 DEF LogInv, ReadStaysTrue

LEMMA SameLogSame == ASSUME UNCHANGED log PROVE \A i : SameTold(i)
BY DEF SameTold, LastAdded, AddsOf, About

LEMMA ElsewhereKeepsLogInv ==
    ASSUME ItemsTypeOK, LogInv, Elsewhere PROVE LogInv'
<1>t. LogTypeOK
  BY DEF LogInv
<1>0. UNCHANGED work
  BY DEF Elsewhere, Upload, PutThere, PutItemThere, OtherGone
<1>1. ASSUME UNCHANGED log, \A i \in Items : item'[i] = "here" => item[i] = "here" PROVE LogInv'
  BY <1>t, <1>0, <1>1, SameLogSame, LossKeepsLogInv DEF LogTypeOK
<1>2. CASE \E f \in Files : Upload(f) \/ PutThere(f)
  BY <1>1, <1>2 DEF Upload, PutThere
<1>3. CASE \E i \in Items : PutItemThere(i)
  BY <1>1, <1>3 DEF PutItemThere, ItemsTypeOK
<1>4. CASE OtherGone
  <2> DEFINE gone == {i \in Items : item[i] = "there"}
             S == {n \in DOMAIN log : log[n].item \notin gone}
  <2>1. log' = AtPlaces(log, S) /\ item' = ItemsWithout({"there"})
    BY <1>4 DEF OtherGone, LogWithout
  <2>2. /\ log' \in Seq(Entries)
        /\ \E f \in [DOMAIN log' -> S] :
              /\ \A j, k \in DOMAIN log' : j < k => f[j] < f[k]
              /\ \A j \in DOMAIN log' : log'[j] = log[f[j]]
              /\ \A n \in S : \E j \in DOMAIN log' : f[j] = n
    <3>1. log \in Seq(Entries) /\ S \in SUBSET DOMAIN log
      BY <1>t DEF LogTypeOK
    <3> HIDE DEF S
    <3> QED
      BY <2>1, <3>1, PlacesAreKept
  <2>3. PICK f \in [DOMAIN log' -> S] :
           /\ \A j, k \in DOMAIN log' : j < k => f[j] < f[k]
           /\ \A j \in DOMAIN log' : log'[j] = log[f[j]]
           /\ \A n \in S : \E j \in DOMAIN log' : f[j] = n
    BY <2>2
  <2>4. ASSUME NEW i \in Items \ gone PROVE SameTold(i)
    <3>1. f \in [DOMAIN log' -> DOMAIN log] /\ log \in Seq(Entries)
      BY <1>t DEF LogTypeOK
    <3>2. About(i) \subseteq S
      BY <2>4 DEF About
    <3> HIDE DEF S, gone
    <3>3. /\ \A j, k \in DOMAIN log' : j < k => f[j] < f[k]
          /\ \A j \in DOMAIN log' : log'[j] = log[f[j]]
          /\ \A n \in About(i) : \E j \in DOMAIN log' : f[j] = n
      BY <2>3, <3>2
    <3> QED
      BY <2>2, <3>1, <3>3, EntriesKept
  <2>5. ASSUME NEW i \in gone PROVE AddsOf(i)' = {}
    <3>1. \A j \in DOMAIN log' : log'[j].item \notin gone
      BY <2>3
    <3> QED
      BY <3>1, <2>5 DEF AddsOf, About
  <2>6. \A i \in Items : item'[i] = "here" => item[i] = "here" /\ i \notin gone
    BY <2>1 DEF ItemsWithout, ItemsTypeOK
  <2> QED
    BY <1>0, <2>2, <2>4, <2>5, <2>6, LossKeepsLogInv
<1> QED
  BY <1>2, <1>3, <1>4 DEF Elsewhere

\* A request that ends without a change.
LEMMA EndKeepsLogInv ==
    ASSUME ItemsTypeOK, LogInv, OnePerItem', NEW r \in Writers, UNCHANGED <<item, log>>, Closes(r),
           work[r].op \in Adding => item[work[r].item] # "here"
    PROVE  LogInv'
<1>1. NoWork \in Works /\ work' = [work EXCEPT ![r] = NoWork] /\ NoWork.op = "none"
  BY DEF Works, NoWork, Closes
<1>2. /\ NoWork.op # "item" /\ NoWork.op # "insert" /\ NoWork.op # "refresh" /\ NoWork.op # "remove"
  BY <1>1
<1>3. ItemsTypeOK'
  BY DEF ItemsTypeOK
<1> HIDE DEF NoWork
<1> QED
  BY <1>1, <1>2, <1>3, WorkKeepsLogInv

\* A request begins or goes on, and its item comes to the mission at most to be added.
LEMMA StepKeepsLogInv ==
    ASSUME ItemsTypeOK, ItemsTypeOK', LogInv, OnePerItem', NEW r \in Writers, NEW w \in Works,
           work' = [work EXCEPT ![r] = w], UNCHANGED log,
           work[r].op \notin Adding, w.op \notin {"insert", "refresh"},
           \A i \in Items : item'[i] = "here" => item[i] = "here" \/ (w.op = "item" /\ w.item = i),
           w.op = "remove" /\ w.item # Nothing /\ ~w.writes => item'[w.item] # "here"
    PROVE  LogInv'
BY WorkKeepsLogInv

LEMMA RequestKeepsLogInv ==
    ASSUME ItemsTypeOK, ItemsTypeOK', Missing => \A i \in Items : item[i] # "here",
           LogInv, OnePerItem, OnePerItem', NEW r \in Writers, ContentRequest(r)
    PROVE  LogInv'
<1>t. LogTypeOK /\ OneAdd /\ HereIsAdded /\ ReadStaysTrue
  BY DEF LogInv
<1>w. log \in Seq(Entries) /\ work[r] \in Works /\ Nothing \notin Items
  BY <1>t, ContentsAssumption DEF LogTypeOK
<1>n. NoWork.op = "none"
  BY DEF NoWork
<1>1. ASSUME NEW f \in Files, PutFile(r, f) PROVE LogInv'
  <2> DEFINE w == [op |-> "put", file |-> f, item |-> Nothing, known |-> FileIsLogged(f)]
  <2>1. w \in Works /\ w.op = "put"
    BY DEF Works, FileIsLogged
  <2>2. work' = [work EXCEPT ![r] = w] /\ work[r] = NoWork /\ UNCHANGED <<item, log>>
    BY <1>1 DEF PutFile, Accepts
  <2> HIDE DEF w
  <2> QED
    BY <1>n, <2>1, <2>2, StepKeepsLogInv DEF Adding
<1>2. ASSUME NEW i \in Items, PutItem(r, i, Nothing) PROVE LogInv'
  <2> DEFINE w == [op |-> "item", item |-> i, file |-> Nothing]
  <2>1. w \in Works /\ w.op = "item" /\ w.item = i
    BY DEF Works, Adding
  <2>2. work' = [work EXCEPT ![r] = w] /\ work[r] = NoWork /\ log' = log
    BY <1>2 DEF PutItem, Accepts
  <2>3. \A j \in Items : item'[j] = "here" => item[j] = "here" \/ j = i
    BY <1>2 DEF PutItem, ItemsTypeOK
  <2> HIDE DEF w
  <2> QED
    BY <1>n, <2>1, <2>2, <2>3, StepKeepsLogInv DEF Adding
<1>3. ASSUME NEW f \in Files, NEW i \in Items \cup {Nothing}, AddPackage(r, f, i) PROVE LogInv'
  <2> DEFINE w == [op |-> "package", file |-> f, item |-> i]
  <2>1. w \in Works /\ w.op = "package"
    BY DEF Works
  <2>2. work' = [work EXCEPT ![r] = w] /\ work[r] = NoWork /\ UNCHANGED <<item, log>>
    BY <1>3 DEF AddPackage, Accepts
  <2> HIDE DEF w
  <2> QED
    BY <1>n, <2>1, <2>2, StepKeepsLogInv DEF Adding
<1>4. ASSUME NEW f \in Files \cup {Nothing}, NEW i \in Items \cup {Nothing}, DeleteContent(r, f, i)
      PROVE  LogInv'
  <2> DEFINE unlinks == <<f, "here">> \in linked
             w == [op |-> "remove", file |-> f, item |-> i,
                   writes |-> i # Nothing /\ item[i] # "nowhere" /\ ~unlinks]
  <2>1. w \in Works /\ w.op = "remove" /\ w.item = i
        /\ (w.writes <=> i # Nothing /\ item[i] # "nowhere" /\ ~unlinks)
    BY DEF Works
  <2>2. /\ work' = [work EXCEPT ![r] = w] /\ work[r] = NoWork /\ log' = log
        /\ item' = IF unlinks /\ i # Nothing THEN [item EXCEPT ![i] = "nowhere"] ELSE item
    BY <1>4 DEF DeleteContent, Accepts
  <2>3. \A j \in Items : item'[j] = "here" => item[j] = "here"
    BY <2>2 DEF ItemsTypeOK
  <2>4. i # Nothing /\ ~w.writes => item'[i] # "here"
    BY <2>1, <2>2 DEF ItemsTypeOK
  <2> HIDE DEF w
  <2> QED
    BY <1>n, <2>1, <2>2, <2>3, <2>4, StepKeepsLogInv DEF Adding
<1>5. CASE PutFileCommit(r) \/ AddPackageOpaque(r)
  <2> DEFINE e == Entry("add", work[r].file, Nothing)
  <2>1. /\ work[r].op \in {"put", "opaque"} /\ Closes(r) /\ UNCHANGED item
        /\ log' = log \/ log' = Append(log, e)
    BY <1>5 DEF PutFileCommit, AddPackageOpaque
  <2>2. work[r].item = Nothing /\ work[r] # NoWork /\ e \in Entries /\ e.item = Nothing
    BY <1>w, <1>n, <2>1 DEF Works, Adding, NoWork, Entry, Entries
  <2>3. CASE log' = log
    BY <2>1, <2>3, EndKeepsLogInv DEF Adding
  <2>4. CASE log' = Append(log, e)
    <3> HIDE DEF e
    <3>1. \A i \in Items : SameTold(i)
      BY <1>w, <2>2, <2>4, AppendedElsewhere
    <3>2. log' \in Seq(Entries)
      BY <1>w, <2>2, <2>4
    <3> QED
      BY <1>w, <2>1, <2>2, <3>1, <3>2, ChangeKeepsLogInv DEF Closes
  <2> QED
    BY <2>1, <2>3, <2>4
<1>6. CASE PutItemFind(r)
  <2> DEFINE w == [work[r] EXCEPT !.op = IF AddsOf(work[r].item) = {} THEN "insert" ELSE "refresh"]
  <2>1. work[r].op = "item" /\ work' = [work EXCEPT ![r] = w] /\ UNCHANGED <<item, log>>
    BY <1>6 DEF PutItemFind, Proceeds
  <2>2. /\ w \in Works /\ w.item = work[r].item /\ w.op \in {"insert", "refresh"}
        /\ w.op = "insert" <=> AddsOf(work[r].item) = {}
    BY <1>w, <2>1 DEF Works, Adding, NoWork
  <2> HIDE DEF w
  <2> QED
    BY <2>1, <2>2, WorkKeepsLogInv DEF Adding
<1>7. CASE PutItemChange(r)
  <2>x. PICK x : x = work[r].item
    OBVIOUS
  <2> DEFINE Fails == \/ Missing
                      \/ item[x] = "none"
                      \/ work[r].op = "refresh" /\ AddsOf(x) = {}
  <2>1. /\ work[r].op \in {"insert", "refresh"} /\ Closes(r) /\ UNCHANGED item
        /\ \/ Fails /\ UNCHANGED log
           \/ work[r].op = "insert" /\ log' = Append(log, Entry("add", work[r].file, x))
           \/ work[r].op = "refresh" /\ \E n \in AddsOf(x) : log' = Refreshed(n, work[r].file)
    BY <1>7, <2>x DEF PutItemChange
  <2>2. x \in Items /\ work[r].file \in Files \cup {Nothing} /\ work[r] # NoWork
    BY <1>w, <2>1, <2>x DEF Works, Adding, NoWork
  <2>3. CASE Fails /\ UNCHANGED log
    <3>1. item[x] # "here"
      BY <1>t, <2>1, <2>2, <2>3, <2>x DEF ReadStaysTrue, StaysTrue
    <3> QED
      BY <2>1, <2>3, <2>x, <3>1, EndKeepsLogInv
  <2>4. CASE work[r].op = "insert" /\ log' = Append(log, Entry("add", work[r].file, x))
    <3> DEFINE e == Entry("add", work[r].file, x)
    <3>1. e \in Entries /\ e.item = x /\ e.type = "add"
      BY <2>2 DEF Entry, Entries
    <3>2. AddsOf(x) = {} /\ log' = Append(log, e)
      BY <1>t, <2>4, <2>x DEF ReadStaysTrue, StaysTrue
    <3> HIDE DEF e
    <3>3. \A i \in Items \ {x} : SameTold(i)
      BY <1>w, <3>1, <3>2, AppendedElsewhere
    <3>4. /\ log' \in Seq(Entries) /\ DOMAIN log' = 1..Len(log) + 1 /\ Len(log) \in Nat
          /\ log'[Len(log) + 1] = e /\ \A n \in 1..Len(log) : n \in DOMAIN log /\ log'[n] = log[n]
      BY <1>w, <3>1, <3>2
    <3>5. AddsOf(x)' = {Len(log) + 1}
      <4>1. \A n \in 1..Len(log) : n \notin AddsOf(x)'
        BY <3>2, <3>4 DEF AddsOf, About
      <4>2. Len(log) + 1 \in AddsOf(x)' /\ AddsOf(x)' \subseteq 1..Len(log) + 1
        BY <3>1, <3>4 DEF AddsOf, About
      <4> QED
        BY <3>4, <4>1, <4>2
    <3>6. \A m \in About(x)' : m <= Len(log) + 1
      BY <3>4 DEF About
    <3>7. LastAdded(x)'
      BY <3>5, <3>6 DEF LastAdded
    <3> QED
      BY <2>1, <2>2, <2>x, <3>3, <3>4, <3>5, <3>7, ChangeKeepsLogInv DEF Closes
  <2>5. CASE work[r].op = "refresh" /\ \E n \in AddsOf(x) : log' = Refreshed(n, work[r].file)
    <3> DEFINE f == work[r].file
    <3>1. PICK n \in AddsOf(x) : log' = Refreshed(n, f)
      BY <2>5
    <3>2. n \in DOMAIN log /\ log[n].item = x /\ log[n].type = "add"
      BY <3>1 DEF AddsOf, About
    <3>3. \A i \in Items \ {x} : SameTold(i)
      BY <1>w, <2>2, <3>1, <3>2, RefreshedElsewhere
    <3>4. /\ log' \in Seq(Entries) /\ DOMAIN log' = DOMAIN log
          /\ \A k \in DOMAIN log : k < n => log'[k] = log[k]
          /\ \A k \in DOMAIN log : n <= k /\ k < Len(log) => log'[k] = log[k + 1]
          /\ log'[Len(log)].item = x /\ log'[Len(log)].type = "add"
      BY <1>w, <2>2, <3>1, <3>2, RefreshedEntries
    <3>5. Len(log) \in DOMAIN log' /\ DOMAIN log = 1..Len(log) /\ Len(log) \in Nat
      BY <1>w, <3>2, <3>4
    <3>6. \A m \in AddsOf(x) : m = n
      BY <1>t, <2>2, <3>1 DEF OneAdd
    <3>7. \A k \in AddsOf(x)' : k = Len(log)
      <4> SUFFICES ASSUME NEW k \in DOMAIN log, log'[k].item = x, log'[k].type = "add", k # Len(log)
                   PROVE  FALSE
        <5>1. AddsOf(x)' = {k \in DOMAIN log' : log'[k].item = x /\ log'[k].type = "add"}
          BY DEF AddsOf, About
        <5> QED
          BY <3>4, <5>1
      <4>1. k \in 1..Len(log) - 1
        BY <3>5
      <4>2. CASE k < n
        <5>1. k \in AddsOf(x)
          BY <3>4, <4>2 DEF AddsOf, About
        <5> QED
          BY <3>2, <3>5, <3>6, <4>2, <5>1
      <4>3. CASE n <= k
        <5>1. k + 1 \in DOMAIN log /\ log'[k] = log[k + 1]
          BY <3>4, <3>5, <4>1, <4>3
        <5>2. k + 1 \in AddsOf(x)
          BY <5>1 DEF AddsOf, About
        <5> QED
          BY <3>2, <3>5, <3>6, <4>1, <4>3, <5>2
      <4> QED
        BY <3>2, <3>5, <4>1, <4>2, <4>3
    <3>8. Len(log) \in AddsOf(x)' /\ \A m \in About(x)' : m <= Len(log)
      <4>1. Len(log) \in AddsOf(x)'
        BY <3>4, <3>5 DEF AddsOf, About
      <4>2. About(x)' \subseteq 1..Len(log)
        BY <3>4, <3>5 DEF About
      <4> QED
        BY <3>5, <4>1, <4>2
    <3>9. LastAdded(x)' /\ \A j, k \in AddsOf(x)' : j = k
      BY <3>7, <3>8 DEF LastAdded
    <3> QED
      BY <2>1, <2>2, <2>x, <3>3, <3>4, <3>9, ChangeKeepsLogInv DEF Closes
  <2> QED
    BY <2>1, <2>3, <2>4, <2>5
<1>8. CASE DeleteContentChange(r)
  <2>x. PICK x : x = work[r].item
    OBVIOUS
  <2> DEFINE e == Entry("remove", work[r].file, x)
  <2>1. /\ work[r].op = "remove" /\ Closes(r)
        /\ \/ UNCHANGED <<item, log>>
           \/ /\ item' = IF work[r].writes THEN [item EXCEPT ![x] = "nowhere"] ELSE item
              /\ log' = Append(log, e)
    BY <1>8, <2>x DEF DeleteContentChange
  <2>2. /\ e \in Entries /\ e.item = x /\ e.type = "remove" /\ work[r] # NoWork
        /\ x \in Items \cup {Nothing}
    BY <1>w, <2>1, <2>x DEF Works, Adding, NoWork, Entry, Entries
  <2>3. CASE UNCHANGED <<item, log>>
    BY <2>1, <2>3, EndKeepsLogInv DEF Adding
  <2>4. CASE /\ item' = IF work[r].writes THEN [item EXCEPT ![x] = "nowhere"] ELSE item
             /\ log' = Append(log, e)
    <3>1. x \in Items => item'[x] # "here"
      BY <1>t, <1>w, <2>1, <2>4, <2>x DEF ReadStaysTrue, StaysTrue, ItemsTypeOK
    <3>2. \A i \in Items : item'[i] = "here" => item[i] = "here"
      BY <2>4 DEF ItemsTypeOK
    <3> HIDE DEF e
    <3>3. \A i \in Items \ {x} : SameTold(i)
      BY <1>w, <2>2, <2>4, AppendedElsewhere
    <3>4. /\ log' \in Seq(Entries) /\ DOMAIN log' = 1..Len(log) + 1 /\ Len(log) \in Nat
          /\ log'[Len(log) + 1] = e /\ \A n \in 1..Len(log) : n \in DOMAIN log /\ log'[n] = log[n]
      BY <1>w, <2>2, <2>4
    <3>5. AddsOf(x)' \subseteq AddsOf(x)
      <4> SUFFICES ASSUME NEW n \in DOMAIN log', log'[n].item = x, log'[n].type = "add"
                   PROVE  n \in AddsOf(x)
        BY DEF AddsOf, About
      <4>1. n \in 1..Len(log)
        BY <2>2, <3>4
      <4> QED
        BY <3>4, <4>1 DEF AddsOf, About
    <3>6. x \in Items => \A m, n \in AddsOf(x)' : m = n
      BY <1>t, <3>5 DEF OneAdd
    <3> QED
      BY <2>1, <2>2, <2>x, <3>1, <3>2, <3>3, <3>4, <3>6, ChangeKeepsLogInv DEF Closes
  <2> QED
    BY <2>1, <2>3, <2>4
<1>9. CASE PublishFails(r)
  BY <1>9, EndKeepsLogInv DEF PublishFails, Adding
<1>10. CASE AddPackageLink(r)
  <2> DEFINE w == [work[r] EXCEPT !.op = IF work[r].item = Nothing THEN "opaque" ELSE "packed"]
  <2>1. /\ work[r].op = "package" /\ UNCHANGED <<item, log>>
        /\ Closes(r) \/ work' = [work EXCEPT ![r] = w]
    BY <1>10 DEF AddPackageLink, Proceeds
  <2>2. w \in Works /\ w.op \in {"opaque", "packed"}
    BY <1>w, <2>1 DEF Works, Adding, NoWork
  <2>3. CASE Closes(r)
    BY <2>1, <2>3, EndKeepsLogInv DEF Adding
  <2> HIDE DEF w
  <2>4. CASE work' = [work EXCEPT ![r] = w]
    BY <2>1, <2>2, <2>4, StepKeepsLogInv DEF Adding
  <2> QED
    BY <2>1, <2>3, <2>4
<1>11. CASE AddPackageItem(r)
  <2> DEFINE x == work[r].item
             w == [work[r] EXCEPT !.op = "item"]
  <2>1. /\ work[r].op = "packed" /\ UNCHANGED log
        /\ \/ Closes(r) /\ UNCHANGED item
           \/ item' = [item EXCEPT ![x] = "here"] /\ work' = [work EXCEPT ![r] = w]
    BY <1>11 DEF AddPackageItem, Proceeds
  <2>2. w \in Works /\ w.op = "item" /\ w.item = x
    BY <1>w, <2>1 DEF Works, Adding, NoWork
  <2>3. CASE Closes(r) /\ UNCHANGED item
    BY <2>1, <2>3, EndKeepsLogInv DEF Adding
  <2>4. CASE item' = [item EXCEPT ![x] = "here"] /\ work' = [work EXCEPT ![r] = w]
    <3>1. \A i \in Items : item'[i] = "here" => item[i] = "here" \/ i = x
      BY <2>4 DEF ItemsTypeOK
    <3> HIDE DEF w
    <3> QED
      BY <2>1, <2>2, <2>4, <3>1, StepKeepsLogInv DEF Adding
  <2> QED
    BY <2>1, <2>3, <2>4
<1> QED
  BY <1>1, <1>2, <1>3, <1>4, <1>5, <1>6, <1>7, <1>8, <1>9, <1>10, <1>11 DEF ContentRequest

(* While requests about one item come one at a time, and whatever happens to other items,
   to the other missions and to this one: clients that synchronise by the log find each
   item that is here, added last and once. *)
THEOREM ItemsAreInLog == Spec /\ []OnePerItem => []ItemIsInLog
<1>1. LogInv /\ MissionInv /\ MissionInv' /\ OnePerItem /\ OnePerItem' /\ [Next]_vars => LogInv'
  <2> SUFFICES ASSUME LogInv, MissionInv, MissionInv', OnePerItem, OnePerItem', [Next]_vars
               PROVE  LogInv'
    OBVIOUS
  <2>t. /\ ItemsTypeOK /\ ItemsTypeOK' /\ log \in Seq(Entries)
        /\ Missing => \A i \in Items : item[i] # "here"
    BY DEF MissionInv, NothingWithoutMission, LogInv, LogTypeOK
  <2>1. ASSUME UNCHANGED <<item, log, work>> PROVE LogInv'
    BY <2>t, <2>1, SameLogSame, LossKeepsLogInv
  <2>2. ASSUME UNCHANGED work, log' = <<>>, \A i \in Items : item'[i] # "here" PROVE LogInv'
    <3>1. \A i : AddsOf(i)' = {}
      BY <2>2 DEF AddsOf, About
    <3> QED
      BY <2>2, <3>1, LossKeepsLogInv
  <2>3. CASE UNCHANGED vars
    BY <2>1, <2>3 DEF vars
  <2>4. CASE Access \/ \E e \in Editors : LayerStarts(e) \/ LayerEnds(e)
    BY <2>1, <2>4 DEF Access, LayerStarts, LayerEnds, contentVars
  <2>5. CASE WebDelete
    BY <2>t, <2>2, <2>5 DEF WebDelete, WebDrops, ItemsWithout, ItemsTypeOK
  <2>6. CASE \E d \in Devices : ClientDelete(d)
    <3>1. CASE ClientDrops
      BY <2>t, <2>2, <3>1 DEF ClientDrops, ItemsWithout, ItemsTypeOK
    <3>2. CASE UNCHANGED contentVars
      BY <2>1, <3>2 DEF contentVars
    <3> QED
      BY <2>6, <3>1, <3>2 DEF ClientDelete
  <2>7. CASE Content
    BY <2>t, <2>7, ElsewhereKeepsLogInv, RequestKeepsLogInv DEF Content
  <2> QED
    BY <2>3, <2>4, <2>5, <2>6, <2>7 DEF Next
<1>2. LogInv => ItemIsInLog
  <2> SUFFICES ASSUME LogInv, NEW i \in Items, item[i] = "here", ~Busy(i) PROVE LastAdded(i)
    BY DEF LogInv, ItemIsInLog, OneAdd
  <2>1. ~WillAdd(i)
    BY DEF WillAdd, Busy, Adding, NoWork
  <2> QED
    BY <2>1 DEF LogInv, HereIsAdded
<1> QED
  BY <1>1, <1>2, LogStart, MissionStart, MissionStep, PTL DEF Spec

-----------------------------------------------------------------------------
(* The folders. First the layers of one parent: rows whose `after` makes a chain. *)
Places == Layers \cup {Top}

LEMMA ListOfAll ==
  ASSUME NEW T, NEW m \in Nat, NEW f \in [1..m -> T]
  PROVE  f \in Seq(T) /\ Len(f) = m
BY DEF Seq

LEMMA LeastOf ==
  ASSUME NEW T \in SUBSET Nat, T # {}
  PROVE  \E n \in T : \A m \in T : n <= m
<1>1. IsWellFoundedOn(OpToRel(<, Nat), Nat)
  BY NatLessThanWellFounded
<1>2. \E n \in T : \A m \in T : ~ (<<m, n>> \in OpToRel(<, Nat))
  BY <1>1, WFMin
<1>3. \A i, j \in Nat : <<i, j>> \in OpToRel(<, Nat) <=> i < j
  BY DEF OpToRel
<1>4. PICK n \in T : \A m \in T : ~ (<<m, n>> \in OpToRel(<, Nat))
  BY <1>2
<1>5. ASSUME NEW m \in T PROVE n <= m
  <2>1. m \in Nat /\ n \in Nat
    OBVIOUS
  <2>2. ~ (m < n)
    BY <2>1, <1>3, <1>4
  <2> QED BY <2>1, <2>2
<1> QED BY <1>5

(* s lists the layers of S in the order of their rows: each comes after the one
   before it. *)
Pred(s, i) == IF i = 1 THEN Top ELSE s[i - 1]
Chain(t, S, s) ==
    /\ s \in Seq(Layers)
    /\ \A x \in S : \E i \in 1..Len(s) : s[i] = x
    /\ \A i \in 1..Len(s) : s[i] \in S /\ t[s[i]].after = Pred(s, i)
    /\ \A i, j \in 1..Len(s) : s[i] = s[j] => i = j

(* _ordered: rows that form a chain are listed along it. *)
LEMMA OrderedIsChain ==
  ASSUME NEW t, NEW S \in SUBSET Layers, NEW s, Chain(t, S, s)
  PROVE  Ordered(t, S) = s
<1>0. s \in Seq(Layers) /\ Len(s) \in Nat /\ DOMAIN s = 1..Len(s) /\ S = {s[i] : i \in 1..Len(s)}
      /\ s \in [1..Len(s) -> S] /\ \A i \in 1..Len(s) : s[i] # Top
  BY LayersAssumption DEF Chain
<1> DEFINE Follows(z, n) ==
               /\ \A i \in 1..n : t[z[i]].after = IF i = 1 THEN Top ELSE z[i - 1]
               /\ \A i \in n + 1..Len(z) : t[z[i]].after # IF n = 0 THEN Top ELSE z[n]
<1>1. Cardinality(S) = Len(s)
  <2>1. s \in Bijection(1..Len(s), S)
    BY <1>0 DEF Chain, Bijection, Injection, Surjection, IsInjective
  <2>2. IsFiniteSet(S)
    BY FS_Subset, LayersAssumption
  <2>3. ExistsBijection(1..Len(s), S)
    BY <2>1 DEF ExistsBijection
  <2> QED BY <2>3, <1>0, FS_CountingElements
<1>2. s \in SetToSeqs(S)
  BY <1>0, <1>1 DEF SetToSeqs, Chain
<1>3. \E n \in 0..Len(s) : Follows(s, n)
  BY <1>0 DEF Chain, Pred
<1>4. ASSUME NEW z \in SetToSeqs(S), NEW n \in 0..Len(z), Follows(z, n)
      PROVE  z = s
  <2>1. /\ z \in [1..Len(s) -> S] /\ DOMAIN z = 1..Len(s) /\ z \in Seq(S) /\ Len(z) = Len(s)
        /\ \A i, j \in 1..Len(s) : i # j => z[i] # z[j]
    <3>1. /\ z \in [1..Len(s) -> S] /\ \A i, j \in 1..Len(s) : i # j => z[i] # z[j]
      BY <1>1 DEF SetToSeqs
    <3>2. z \in Seq(S) /\ Len(z) = Len(s)
      BY <3>1, <1>0, ListOfAll
    <3> QED BY <3>1, <3>2
  <2>2. ASSUME NEW i \in 1..n, z[i] # s[i] PROVE FALSE
    <3> DEFINE T == {j \in Nat : j \in 1..n /\ z[j] # s[j]}
    <3>1. \E j \in T : \A m \in T : j <= m
      <4>1. T \in SUBSET Nat /\ T # {}
        BY <2>2
      <4> HIDE DEF T
      <4> QED BY <4>1, LeastOf
    <3>2. PICK j \in 1..n : z[j] # s[j] /\ \A m \in 1..n : z[m] # s[m] => j <= m
      BY <3>1
    <3>3. j = 1 \/ (j - 1 \in 1..n /\ z[j - 1] = s[j - 1])
      BY <3>2
    <3>4. t[z[j]].after = Pred(s, j)
      BY <3>2, <3>3, <1>4 DEF Pred
    <3>5. PICK m \in 1..Len(s) : s[m] = z[j]
      BY <1>0, <2>1, <3>2, SMTT(30)
    <3>6. Pred(s, m) = Pred(s, j)
      BY <3>4, <3>5 DEF Chain
    <3>. j \in 1..Len(s) /\ j \in Nat /\ m \in Nat
      BY <3>2, <2>1
    <3>7. m = j
      <4>1. CASE j = 1 \/ m = 1
        <5>1. m # 1 => m - 1 \in 1..Len(s) /\ s[m - 1] # Top
          BY <1>0
        <5>2. j # 1 => j - 1 \in 1..Len(s) /\ s[j - 1] # Top
          BY <1>0
        <5> QED BY <3>6, <4>1, <5>1, <5>2 DEF Pred
      <4>2. CASE j # 1 /\ m # 1
        <5>1. s[m - 1] = s[j - 1] /\ m - 1 \in 1..Len(s) /\ j - 1 \in 1..Len(s)
          BY <3>6, <1>0, <4>2, SMTT(30) DEF Pred
        <5> QED BY <5>1, <1>0 DEF Chain
      <4> QED BY <4>1, <4>2
    <3> QED BY <3>2, <3>5, <3>7
  <2>3. ASSUME n # Len(s) PROVE FALSE
    <3>1. n + 1 \in 1..Len(s) /\ s[n + 1] \in S
      BY <2>1, <2>3, <1>0
    <3>2. PICK m \in 1..Len(s) : z[m] = s[n + 1]
      <4>1. Cardinality(S) = Len(s) /\ IsFiniteSet(S)
        BY <1>1, FS_Subset, LayersAssumption
      <4>2. z \in Injection(1..Len(s), S)
        BY <2>1 DEF Injection, IsInjective
      <4>3. z \in Surjection(1..Len(s), S)
        <5>1. Cardinality(1..Len(s)) = Len(s)
          <6>1. 1 \in Int /\ Len(s) \in Int
            BY <1>0
          <6>2. Cardinality(1..Len(s)) = IF 1 > Len(s) THEN 0 ELSE Len(s) - 1 + 1
            BY ONLY <6>1, FS_Interval
          <6> QED BY <6>2, <1>0
        <5> QED BY <4>1, <4>2, <5>1, FS_Injection
      <4> QED BY <4>3, <3>1 DEF Surjection
    <3>3. m \in n + 1..Len(s)
      BY <2>2, <3>1, <3>2, <2>1 DEF Chain
    <3>4. t[z[m]].after # IF n = 0 THEN Top ELSE z[n]
      BY <3>3, <1>4, <2>1
    <3>5. t[s[n + 1]].after = IF n = 0 THEN Top ELSE s[n]
      BY <3>1 DEF Chain, Pred
    <3> QED BY <3>2, <3>4, <3>5, <2>2
  <2> QED BY <2>1, <2>2, <2>3, <1>0
<1> HIDE DEF Follows
<1>5. \E z \in SetToSeqs(S) : \E n \in 0..Len(z) : Follows(z, n)
  BY <1>2, <1>3
<1>6. Ordered(t, S) = CHOOSE z \in SetToSeqs(S) : \E n \in 0..Len(z) : Follows(z, n)
  BY DEF Ordered, Follows
<1>7. PICK z \in SetToSeqs(S) : z = Ordered(t, S) /\ \E n \in 0..Len(z) : Follows(z, n)
  BY <1>5, <1>6
<1> QED BY <1>4, <1>7

LEMMA ChainSame ==
  ASSUME NEW t, NEW u, NEW S, NEW s, Chain(t, S, s),
         \A x \in S : u[x].after = t[x].after
  PROVE  Chain(u, S, s)
BY DEF Chain

(* _unlink: what came after the layer l comes after its predecessor. *)
LEMMA ChainWithout ==
  ASSUME NEW t, NEW S \in SUBSET Layers, NEW s, Chain(t, S, s), NEW l \in S, NEW u,
         \A x \in S \ {l} : u[x].after = IF t[x].after = l THEN t[l].after ELSE t[x].after
  PROVE  \E r : /\ Chain(u, S \ {l}, r)
                /\ \A x, y \in S \ {l} : Tree!Before(s, x, y) => Tree!Before(r, x, y)
<1>0. /\ Len(s) \in Nat /\ s \in Seq(Layers) /\ DOMAIN s = 1..Len(s)
      /\ \A i \in 1..Len(s) : s[i] \in S /\ s[i] \in Layers /\ s[i] # Top
      /\ \A i, j \in 1..Len(s) : s[i] = s[j] => i = j
      /\ \A i \in 1..Len(s) : t[s[i]].after = Pred(s, i)
  BY LayersAssumption DEF Chain
<1>1. PICK k \in 1..Len(s) : s[k] = l
  BY DEF Chain
<1> DEFINE N == Len(s) - 1
           Old(j) == IF j < k THEN j ELSE j + 1
           r == [j \in 1..N |-> s[Old(j)]]
<1>2. /\ N \in Nat
      /\ \A j \in 1..N : Old(j) \in 1..Len(s) /\ Old(j) # k
      /\ \A i, j \in 1..N : Old(i) = Old(j) => i = j
      /\ \A i, j \in 1..N : Old(i) < Old(j) <=> i < j
      /\ \A i \in 1..Len(s) : i # k => \E j \in 1..N : Old(j) = i
  <2>1. N \in Nat /\ k \in Nat
    BY <1>0
  <2>2. ASSUME NEW i \in 1..Len(s), i # k PROVE \E j \in 1..N : Old(j) = i
    <3>1. CASE i < k
      BY <3>1, <1>0
    <3>2. CASE i > k
      <4>1. i - 1 \in 1..N /\ Old(i - 1) = i
        BY <3>2, <1>0
      <4> QED BY <4>1
    <3> QED BY <3>1, <3>2, <2>2, <1>0
  <2> QED BY <2>1, <2>2, <1>0
<1>3. /\ DOMAIN r = 1..N /\ r \in Seq(Layers) /\ Len(r) = N
      /\ \A j \in 1..N : r[j] = s[Old(j)]
  <2>1. r \in [1..N -> Layers]
    BY <1>0, <1>2
  <2>2. \A j \in 1..N : r[j] = s[Old(j)]
    OBVIOUS
  <2> HIDE DEF N, Old, r
  <2>3. r \in Seq(Layers) /\ Len(r) = N /\ DOMAIN r = 1..N
    BY <2>1, <1>2 DEF Seq
  <2> QED BY <2>2, <2>3
<1>4. \A j \in 1..N : j > 1 => /\ j - 1 \in 1..N
                               /\ Old(j) = (IF j = k THEN Old(j - 1) + 2 ELSE Old(j - 1) + 1)
  BY <1>0, <1>2
<1>5. \A j \in 1..N : j = 1 => Old(j) = IF k = 1 THEN 2 ELSE 1
  BY <1>0, <1>2
<1> HIDE DEF N, Old, r
<1>6. ASSUME NEW j \in 1..N PROVE u[r[j]].after = Pred(r, j)
  <2>1. /\ r[j] = s[Old(j)] /\ r[j] \in S \ {l}
        /\ Old(j) \in 1..Len(s) /\ Old(j) \in Nat /\ j \in Nat /\ k \in Nat
        /\ u[r[j]].after = IF t[r[j]].after = l THEN t[l].after ELSE t[r[j]].after
        /\ t[r[j]].after = Pred(s, Old(j)) /\ t[l].after = Pred(s, k)
    BY <1>0, <1>1, <1>2, <1>3
  <2>2. CASE j = 1 /\ k = 1
    <3>1. Old(j) = 2 /\ Pred(s, 2) = l /\ Pred(s, k) = Top /\ Pred(r, j) = Top
      BY <2>2, <1>1, <1>5 DEF Pred
    <3> QED BY <3>1, <2>1
  <2>3. CASE j = 1 /\ k # 1
    <3>1. Old(j) = 1 /\ Pred(s, 1) = Top /\ Pred(r, j) = Top /\ l # Top
      BY <2>3, <1>5, LayersAssumption DEF Pred
    <3> QED BY <3>1, <2>1
  <2>4. CASE j > 1
    <3>1. /\ j - 1 \in 1..N /\ j # 1 /\ Old(j - 1) \in 1..Len(s) /\ Old(j - 1) # k
          /\ Pred(r, j) = r[j - 1] /\ r[j - 1] = s[Old(j - 1)] /\ Old(j) # 1
          /\ Old(j) = (IF j = k THEN Old(j - 1) + 2 ELSE Old(j - 1) + 1)
      BY <2>4, <1>2, <1>3, <1>4, <2>1, SMTT(30) DEF Pred
    <3>2. CASE j = k
      <4>1. Old(j - 1) = k - 1 /\ Old(j) = k + 1 /\ k # 1
        BY <3>1, <3>2, <2>4, <2>1 DEF Old
      <4>2. Pred(s, Old(j)) = l /\ Pred(s, k) = s[k - 1]
        BY <4>1, <1>1, <2>1 DEF Pred
      <4> QED BY <4>1, <4>2, <3>1, <2>1
    <3>3. CASE j # k
      <4>1. Pred(s, Old(j)) = s[Old(j - 1)]
        BY <3>1, <3>3, <1>0 DEF Pred
      <4>2. s[Old(j - 1)] # l
        BY <3>1, <1>0, <1>1
      <4> QED BY <4>1, <4>2, <3>1, <2>1
    <3> QED BY <3>2, <3>3
  <2> QED BY <2>1, <2>2, <2>3, <2>4
<1>7. \A x \in S \ {l} : \E j \in 1..N : r[j] = x
  <2> TAKE x \in S \ {l}
  <2>1. PICK i \in 1..Len(s) : s[i] = x
    BY DEF Chain
  <2>2. PICK j \in 1..N : Old(j) = i
    BY <2>1, <1>1, <1>2
  <2> QED BY <2>1, <2>2, <1>3
<1>8. Chain(u, S \ {l}, r)
  <2>1. \A j \in 1..N : r[j] \in S \ {l}
    BY <1>0, <1>1, <1>2, <1>3
  <2>2. \A i, j \in 1..N : r[i] = r[j] => i = j
    BY <1>0, <1>2, <1>3
  <2> QED BY <2>1, <2>2, <1>3, <1>6, <1>7 DEF Chain
<1>9. ASSUME NEW x \in S \ {l}, NEW y \in S \ {l}, Tree!Before(s, x, y)
      PROVE  Tree!Before(r, x, y)
  <2>1. PICK i \in 1..Len(s), j \in 1..Len(s) : i < j /\ s[i] = x /\ s[j] = y
    BY <1>0, <1>9 DEF Tree!Before
  <2>2. PICK i2 \in 1..N, j2 \in 1..N : Old(i2) = i /\ Old(j2) = j
    BY <1>2, <2>1, <1>1
  <2>3. i2 < j2 /\ r[i2] = x /\ r[j2] = y
    BY <1>2, <1>3, <2>1, <2>2
  <2> QED BY <2>3, <1>3 DEF Tree!Before
<1> QED BY <1>8, <1>9

(* _link: l comes after a, and what came after a comes after l. *)
PutIn(u, n, S, l, a) ==
    /\ n[l].after = a
    /\ \A x \in S : n[x].after = IF u[x].after = a THEN l ELSE u[x].after
KeptOrder(r, s, S) == \A x, y \in S : Tree!Before(r, x, y) => Tree!Before(s, x, y)
NextTo(s, S, l, a) ==
    a # Top => \A y \in S \ {a} :
        /\ Tree!Before(s, l, y) => Tree!Before(s, a, y)
        /\ Tree!Before(s, y, l) => Tree!Before(s, y, a)

LEMMA ChainWith ==
  ASSUME NEW u, NEW S \in SUBSET Layers, NEW r, Chain(u, S, r), NEW l \in Layers \ S,
         NEW a \in S \cup {Top}, NEW n, PutIn(u, n, S, l, a)
  PROVE  \E s : Chain(n, S \cup {l}, s) /\ KeptOrder(r, s, S) /\ NextTo(s, S, l, a)
<1> n[l].after = a /\ \A x \in S : n[x].after = IF u[x].after = a THEN l ELSE u[x].after
  BY DEF PutIn
<1>0. /\ Len(r) \in Nat /\ r \in Seq(Layers) /\ DOMAIN r = 1..Len(r)
      /\ \A i \in 1..Len(r) : r[i] \in S /\ r[i] \in Layers /\ r[i] # Top /\ r[i] # l
      /\ \A i, j \in 1..Len(r) : r[i] = r[j] => i = j
      /\ \A i \in 1..Len(r) : u[r[i]].after = Pred(r, i)
  BY LayersAssumption DEF Chain
<1>1. PICK k \in 0..Len(r) : a = IF k = 0 THEN Top ELSE r[k]
  <2>1. CASE a = Top
    BY <2>1, <1>0
  <2>2. CASE a # Top
    <3>1. PICK k \in 1..Len(r) : r[k] = a
      BY <2>2 DEF Chain
    <3> QED BY <3>1, <1>0
  <2> QED BY <2>1, <2>2
<1> DEFINE N == Len(r) + 1
           New(j) == IF j <= k THEN j ELSE j + 1
           s == [j \in 1..N |-> IF j <= k THEN r[j] ELSE IF j = k + 1 THEN l ELSE r[j - 1]]
<1>2. /\ N \in Nat /\ k \in Nat /\ k + 1 \in 1..N
      /\ \A i \in 1..Len(r) : New(i) \in 1..N /\ New(i) # k + 1
      /\ \A i, j \in 1..Len(r) : i < j => New(i) < New(j)
      /\ \A j \in 1..N : j # k + 1 => \E i \in 1..Len(r) : New(i) = j
  <2>1. ASSUME NEW j \in 1..N, j # k + 1 PROVE \E i \in 1..Len(r) : New(i) = j
    <3>1. CASE j <= k
      BY <3>1, <1>0
    <3>2. CASE j > k
      <4>1. j - 1 \in 1..Len(r) /\ New(j - 1) = j
        BY <3>2, <2>1, <1>0
      <4> QED BY <4>1
    <3> QED BY <3>1, <3>2, <1>0
  <2> QED BY <2>1, <1>0
<1>3. /\ DOMAIN s = 1..N /\ s \in Seq(Layers) /\ Len(s) = N
      /\ s[k + 1] = l
      /\ \A i \in 1..Len(r) : s[New(i)] = r[i]
  <2>1. \A j \in 1..N : (IF j <= k THEN r[j] ELSE IF j = k + 1 THEN l ELSE r[j - 1]) \in Layers
    BY <1>0
  <2>2. s \in [1..N -> Layers]
    BY <2>1
  <2>3. s[k + 1] = l
    BY <1>2
  <2>4. ASSUME NEW i \in 1..Len(r) PROVE s[New(i)] = r[i]
    BY <1>0, <1>2
  <2> HIDE DEF N, New, s
  <2>5. s \in Seq(Layers) /\ Len(s) = N /\ DOMAIN s = 1..N
    BY <2>2, <1>2 DEF Seq
  <2> QED BY <2>3, <2>4, <2>5
<1>4. \A i \in 1..Len(r) : i # 1 => /\ i - 1 \in 1..Len(r)
                                    /\ New(i) = New(i - 1) + (IF i = k + 1 THEN 2 ELSE 1)
  BY <1>0, <1>2
<1>5. /\ k # 0 => k \in 1..Len(r) /\ New(k) = k
      /\ \A i \in 1..Len(r) : i = k + 1 => New(i) = k + 2
      /\ \A i \in 1..Len(r) : i = 1 /\ k # 0 => New(i) = 1
      /\ \A i \in 1..Len(r) : New(i) \in Nat /\ (New(i) = 1 => i = 1)
  BY <1>0, <1>2
<1> HIDE DEF N, New, s
<1>6. ASSUME NEW j \in 1..N PROVE n[s[j]].after = Pred(s, j)
  <2>1. CASE j = k + 1
    <3>1. CASE k = 0
      BY <2>1, <3>1, <1>1, <1>3 DEF Pred
    <3>2. CASE k # 0
      <4>1. s[k] = r[k] /\ k + 1 # 1 /\ k + 1 - 1 = k
        BY <3>2, <1>2, <1>3, <1>5
      <4> QED BY <4>1, <2>1, <3>2, <1>1, <1>3 DEF Pred
    <3> QED BY <3>1, <3>2
  <2>2. CASE j # k + 1
    <3>1. PICK i \in 1..Len(r) : New(i) = j
      BY <2>2, <1>2
    <3>2. /\ s[j] = r[i] /\ r[i] \in S /\ u[r[i]].after = Pred(r, i)
          /\ n[r[i]].after = IF u[r[i]].after = a THEN l ELSE u[r[i]].after
          /\ i \in Nat /\ j \in Nat
      BY <3>1, <1>0, <1>2, <1>3
    <3>3. Pred(r, i) = a <=> i = k + 1
      <4>1. CASE i = 1
        <5>1. Pred(r, i) = Top
          BY <4>1 DEF Pred
        <5>2. k # 0 => a # Top
          BY <1>0, <1>1, <1>5
        <5> QED BY <5>1, <5>2, <1>1, <1>2, <4>1
      <4>2. CASE i # 1
        <5>1. Pred(r, i) = r[i - 1] /\ i - 1 \in 1..Len(r)
          BY <4>2, <1>4 DEF Pred
        <5>2. CASE k = 0
          BY <5>1, <5>2, <1>0, <1>1, <4>2
        <5>3. CASE k # 0
          <6>1. a = r[k] /\ k \in 1..Len(r)
            BY <5>3, <1>1, <1>5
          <6>2. r[i - 1] = r[k] <=> i - 1 = k
            BY <6>1, <5>1, <1>0
          <6> QED BY <6>1, <6>2, <5>1, <1>2, <3>2
        <5> QED BY <5>2, <5>3
      <4> QED BY <4>1, <4>2
    <3>4. CASE i = k + 1
      <4>1. j = k + 2 /\ Pred(s, j) = l
        <5>1. j = k + 2
          BY <3>4, <3>1, <1>5
        <5>2. j # 1 /\ j - 1 = k + 1
          BY <5>1, <1>2
        <5> QED BY <5>1, <5>2, <1>3 DEF Pred
      <4> QED BY <4>1, <3>2, <3>3, <3>4
    <3>5. CASE i # k + 1
      <4>1. n[s[j]].after = Pred(r, i)
        BY <3>2, <3>3, <3>5
      <4>2. CASE i = 1
        <5>1. k # 0
          BY <3>5, <4>2, <1>2
        <5>2. j = 1
          BY <5>1, <4>2, <1>5, <3>1
        <5> QED BY <4>1, <4>2, <5>2 DEF Pred
      <4>3. CASE i # 1
        <5>1. i - 1 \in 1..Len(r) /\ j = New(i - 1) + 1 /\ New(i - 1) \in 1..N /\ New(i - 1) \in Nat
          BY <4>3, <3>5, <3>1, <1>4, <1>2, <1>5
        <5>2. s[New(i - 1)] = r[i - 1]
          BY <5>1, <1>3
        <5>3. ASSUME NEW m \in 1..N, j = m + 1 PROVE j # 1 /\ j - 1 = m
          BY <5>3, <1>2
        <5>4. j # 1 /\ j - 1 = New(i - 1)
          BY <5>1, <5>3
        <5> QED BY <4>1, <4>3, <5>2, <5>4 DEF Pred
      <4> QED BY <4>2, <4>3
    <3> QED BY <3>4, <3>5
  <2> QED BY <2>1, <2>2
<1>7. \A x \in S \cup {l} : \E j \in 1..N : s[j] = x
  <2>1. ASSUME NEW x \in S PROVE \E j \in 1..N : s[j] = x
    <3>1. PICK i \in 1..Len(r) : r[i] = x
      BY DEF Chain
    <3> QED BY <3>1, <1>2, <1>3
  <2> QED BY <2>1, <1>2, <1>3
<1>8. Chain(n, S \cup {l}, s)
  <2>1. \A j \in 1..N : s[j] \in S \cup {l}
    <3> TAKE j \in 1..N
    <3>1. CASE j = k + 1
      BY <3>1, <1>3
    <3>2. CASE j # k + 1
      <4>1. PICK i \in 1..Len(r) : New(i) = j
        BY <3>2, <1>2
      <4> QED BY <4>1, <1>0, <1>3
    <3> QED BY <3>1, <3>2
  <2>2. ASSUME NEW i \in 1..N, NEW j \in 1..N, s[i] = s[j] PROVE i = j
    <3>1. ASSUME NEW h \in 1..N, s[h] = l PROVE h = k + 1
      <4> SUFFICES ASSUME h # k + 1 PROVE FALSE
        OBVIOUS
      <4>1. PICK g \in 1..Len(r) : New(g) = h
        BY <1>2
      <4> QED BY <4>1, <1>0, <1>3, <3>1
    <3>2. CASE i = k + 1 \/ j = k + 1
      BY <3>1, <3>2, <2>2, <1>3
    <3>3. CASE i # k + 1 /\ j # k + 1
      <4>1. PICK g \in 1..Len(r), h \in 1..Len(r) : New(g) = i /\ New(h) = j
        BY <3>3, <1>2
      <4> QED BY <4>1, <2>2, <1>0, <1>3
    <3> QED BY <3>2, <3>3
  <2> QED BY <2>1, <2>2, <1>3, <1>6, <1>7 DEF Chain
<1>9. ASSUME NEW x \in S, NEW y \in S, Tree!Before(r, x, y) PROVE Tree!Before(s, x, y)
  <2>1. PICK i \in 1..Len(r), j \in 1..Len(r) : i < j /\ r[i] = x /\ r[j] = y
    BY <1>0, <1>9 DEF Tree!Before
  <2>2. /\ New(i) \in 1..N /\ New(j) \in 1..N /\ New(i) < New(j)
        /\ s[New(i)] = x /\ s[New(j)] = y
    BY <2>1, <1>2, <1>3
  <2> QED BY <2>2, <1>3 DEF Tree!Before
<1>10. ASSUME a # Top, NEW y \in S \ {a}
       PROVE  /\ Tree!Before(s, l, y) => Tree!Before(s, a, y)
              /\ Tree!Before(s, y, l) => Tree!Before(s, y, a)
  <2>1. k \in 1..N /\ s[k] = a /\ k < k + 1 /\ s[k + 1] = l
    BY <1>10, <1>1, <1>2, <1>3, <1>5
  <2>2. \A i, j \in 1..N : s[i] = s[j] => i = j
    BY <1>8, <1>3 DEF Chain
  <2>3. ASSUME Tree!Before(s, l, y) PROVE Tree!Before(s, a, y)
    <3>1. PICK i \in 1..N, j \in 1..N : i < j /\ s[i] = l /\ s[j] = y
      BY <2>3, <1>3 DEF Tree!Before
    <3>2. i = k + 1
      BY <3>1, <2>1, <2>2, <1>2
    <3>3. k < j
      BY <3>1, <3>2, <1>2
    <3> QED BY <3>1, <3>3, <2>1, <1>3 DEF Tree!Before
  <2>4. ASSUME Tree!Before(s, y, l) PROVE Tree!Before(s, y, a)
    <3>1. PICK i \in 1..N, j \in 1..N : i < j /\ s[i] = y /\ s[j] = l
      BY <2>4, <1>3 DEF Tree!Before
    <3>2. j = k + 1
      BY <3>1, <2>1, <2>2, <1>2
    <3>3. i # k
      BY <3>1, <2>1, <1>10
    <3>4. i < k
      BY <3>1, <3>2, <3>3, <1>2
    <3> QED BY <3>1, <3>4, <2>1, <1>3 DEF Tree!Before
  <2> QED BY <2>3, <2>4
<1> QED BY <1>8, <1>9, <1>10 DEF KeptOrder, NextTo

(* _last_sibling: nobody comes after the last. *)
LEMMA AfterLast ==
  ASSUME NEW u, NEW S \in SUBSET Layers, NEW r, Chain(u, S, r),
         NEW a, a = IF r = <<>> THEN Top ELSE r[Len(r)]
  PROVE  a \in S \cup {Top} /\ \A x \in S : u[x].after # a
<1>0. /\ Len(r) \in Nat /\ r \in Seq(Layers)
      /\ \A i \in 1..Len(r) : r[i] \in S /\ r[i] # Top
      /\ \A i, j \in 1..Len(r) : r[i] = r[j] => i = j
  BY LayersAssumption DEF Chain
<1>1. CASE r = <<>>
  <2>1. S = {}
    BY <1>1 DEF Chain
  <2> QED BY <2>1, <1>1
<1>2. CASE r # <<>>
  <2>1. Len(r) \in 1..Len(r)
    BY <1>0, <1>2
  <2>2. ASSUME NEW x \in S PROVE u[x].after # a
    <3>1. PICK i \in 1..Len(r) : r[i] = x /\ u[x].after = Pred(r, i)
      BY DEF Chain
    <3>2. CASE i = 1
      BY <3>1, <3>2, <1>0, <1>2, <2>1 DEF Pred
    <3>3. CASE i # 1
      <4>1. i - 1 \in 1..Len(r) /\ i - 1 # Len(r) /\ Pred(r, i) = r[i - 1]
        BY <3>3, <1>0 DEF Pred
      <4> QED BY <4>1, <3>1, <1>0, <1>2, <2>1
    <3> QED BY <3>2, <3>3
  <2> QED BY <2>1, <2>2, <1>0, <1>2
<1> QED BY <1>1, <1>2

(* The rows are a table of layers with parents that exist, and those of one parent
   form a chain. *)
Table(t) == /\ DOMAIN t \subseteq Layers /\ t \in [DOMAIN t -> Row]
            /\ \A x \in DOMAIN t : Exists(t, t[x].parent)
Chained(t) == \A p \in Places : \E s : Chain(t, Siblings(t, p), s)
KidsOf(t) == [p \in Places |-> IF Exists(t, p) THEN Ordered(t, Siblings(t, p)) ELSE <<>>]

LEMMA KidsAreChain ==
  ASSUME NEW t, Table(t), NEW p \in Places, NEW s, Chain(t, Siblings(t, p), s)
  PROVE  KidsOf(t)[p] = s
<1>1. Siblings(t, p) \in SUBSET Layers
  BY DEF Table, Siblings
<1>2. CASE Exists(t, p)
  BY <1>1, <1>2, OrderedIsChain DEF KidsOf
<1>3. CASE ~Exists(t, p)
  <2>1. Siblings(t, p) = {}
    BY <1>3 DEF Table, Siblings
  <2>2. s \in Seq(Layers) /\ Len(s) \in Nat /\ \A i \in 1..Len(s) : FALSE
    BY <2>1 DEF Chain
  <2>3. s = <<>>
    <3>1. ~(Len(s) >= 1)
      BY <2>2
    <3>2. Len(s) = 0
      BY <2>2, <3>1
    <3> QED BY <2>2, <3>2
  <2> QED BY <1>3, <2>3 DEF KidsOf
<1> QED BY <1>2, <1>3

LEMMA KidsFacts ==
  ASSUME NEW t, Table(t), Chained(t)
  PROVE  /\ \A p \in Places : Chain(t, Siblings(t, p), KidsOf(t)[p])
         /\ \A p \in Places : Range(KidsOf(t)[p]) = Siblings(t, p)
         /\ Tree!Forest(KidsOf(t))
         /\ Tree!Present(KidsOf(t)) = {Top} \cup DOMAIN t
<1>1. ASSUME NEW p \in Places PROVE Chain(t, Siblings(t, p), KidsOf(t)[p])
  BY KidsAreChain DEF Chained
<1>2. ASSUME NEW p \in Places
      PROVE  /\ DOMAIN KidsOf(t)[p] = 1..Len(KidsOf(t)[p])
             /\ Range(KidsOf(t)[p]) = Siblings(t, p)
  <2> DEFINE s == KidsOf(t)[p]
  <2>1. Chain(t, Siblings(t, p), s)
    BY <1>1
  <2> HIDE DEF s
  <2>2. DOMAIN s = 1..Len(s)
    BY <2>1 DEF Chain
  <2>3. Range(s) = Siblings(t, p)
    BY <2>1, <2>2 DEF Chain, Range
  <2> QED BY <2>2, <2>3 DEF s
<1>3. Tree!Forest(KidsOf(t))
  <2> SUFFICES ASSUME NEW p \in Places, NEW q \in Places,
                      NEW i \in DOMAIN KidsOf(t)[p], NEW j \in DOMAIN KidsOf(t)[q],
                      KidsOf(t)[p][i] = KidsOf(t)[q][j]
               PROVE  p = q /\ i = j
    BY DEF Tree!Forest, Tree!Places, Places
  <2>1. /\ i \in 1..Len(KidsOf(t)[p]) /\ j \in 1..Len(KidsOf(t)[q])
        /\ KidsOf(t)[p][i] \in Siblings(t, p) /\ KidsOf(t)[q][j] \in Siblings(t, q)
    BY <1>1, <1>2 DEF Chain
  <2>2. p = q
    BY <2>1 DEF Siblings
  <2> QED BY <2>1, <2>2, <1>1 DEF Chain
<1>4. Tree!Present(KidsOf(t)) = {Top} \cup DOMAIN t
  <2>1. \A x \in DOMAIN t : t[x].parent \in Places
    BY DEF Table, Row, Places
  <2>2. \A x \in DOMAIN t : \E p \in Places : x \in Siblings(t, p)
    BY <2>1 DEF Siblings
  <2>3. UNION {Range(KidsOf(t)[p]) : p \in Places} = UNION {Siblings(t, p) : p \in Places}
    BY <1>2
  <2> QED BY <2>2, <2>3 DEF Tree!Present, Tree!Places, Tree!Range, Range, Places, Siblings
<1> QED BY <1>1, <1>2, <1>3, <1>4

(* The walk from a layer through its parents. *)
LEMMA AncestorsClosed ==
  ASSUME NEW t, Table(t), NEW x \in DOMAIN t
  PROVE  /\ x \in Ancestors(t, x) /\ Ancestors(t, x) \subseteq DOMAIN t
         /\ \A y \in Ancestors(t, x) : t[y].parent \in Ancestors(t, x) \cup {Top}
<1>1. x \in Layers /\ DOMAIN t \in SUBSET Layers
  BY DEF Table
<1>2. \A y \in DOMAIN t : t[y].parent \in DOMAIN t \cup {Top}
  BY DEF Table, Exists
<1>3. Ancestors(t, x) \subseteq DOMAIN t
  BY <1>1, <1>2 DEF Ancestors
<1>4. ASSUME NEW y \in Ancestors(t, x), t[y].parent # Top PROVE t[y].parent \in Ancestors(t, x)
  <2>1. t[y].parent \in Layers
    BY <1>1, <1>2, <1>3, <1>4
  <2>2. ASSUME NEW S \in SUBSET Layers,
               x \in S /\ \A z \in S \cap DOMAIN t : t[z].parent \in S \cup {Top}
        PROVE  t[y].parent \in S
    <3>1. y \in S
      BY <2>2 DEF Ancestors
    <3> QED BY <3>1, <2>2, <1>3, <1>4
  <2> QED BY <2>1, <2>2 DEF Ancestors
<1> QED BY <1>1, <1>3, <1>4 DEF Ancestors

LEMMA AncestorsLeast ==
  ASSUME NEW t, NEW x, NEW S \in SUBSET Layers, x \in S,
         \A y \in S \cap DOMAIN t : t[y].parent \in S \cup {Top}
  PROVE  Ancestors(t, x) \subseteq S
BY DEF Ancestors

LEMMA AncestorsOfParent ==
  ASSUME NEW t, Table(t), NEW x \in DOMAIN t
  PROVE  /\ t[x].parent = Top => Ancestors(t, x) = {x}
         /\ t[x].parent # Top => /\ t[x].parent \in DOMAIN t
                                 /\ Ancestors(t, x) = {x} \cup Ancestors(t, t[x].parent)
<1>0. x \in Layers /\ DOMAIN t \in SUBSET Layers /\ x \in Ancestors(t, x)
  BY AncestorsClosed DEF Table
<1>1. CASE t[x].parent = Top
  <2>1. Ancestors(t, x) \subseteq {x}
    <3>1. {x} \in SUBSET Layers /\ x \in {x} /\ \A y \in {x} \cap DOMAIN t : t[y].parent \in {x} \cup {Top}
      BY <1>0, <1>1
    <3> QED BY <3>1, AncestorsLeast
  <2> QED BY <2>1, <1>0, <1>1
<1>2. CASE t[x].parent # Top
  <2> DEFINE p == t[x].parent
  <2>1. p \in DOMAIN t
    BY <1>2 DEF Table, Exists
  <2> HIDE DEF p
  <2>2. /\ p \in Ancestors(t, p) /\ Ancestors(t, p) \subseteq DOMAIN t
        /\ \A y \in Ancestors(t, p) : t[y].parent \in Ancestors(t, p) \cup {Top}
    BY <2>1, AncestorsClosed
  <2>3. Ancestors(t, x) \subseteq {x} \cup Ancestors(t, p)
    <3> DEFINE S == {x} \cup Ancestors(t, p)
    <3>1. S \in SUBSET Layers /\ x \in S /\ \A y \in S \cap DOMAIN t : t[y].parent \in S \cup {Top}
      BY <2>2, <1>0 DEF p
    <3> HIDE DEF S
    <3>2. Ancestors(t, x) \subseteq S
      BY <3>1, AncestorsLeast
    <3> QED BY <3>2 DEF S
  <2>4. Ancestors(t, p) \subseteq Ancestors(t, x)
    <3>1. /\ Ancestors(t, x) \subseteq DOMAIN t
          /\ \A y \in Ancestors(t, x) : t[y].parent \in Ancestors(t, x) \cup {Top}
      BY AncestorsClosed
    <3>2. p \in Ancestors(t, x)
      BY <3>1, <1>0, <1>2 DEF p
    <3> QED BY <3>1, <3>2, <1>0, AncestorsLeast
  <2>5. Ancestors(t, x) = {x} \cup Ancestors(t, p)
    BY <2>3, <2>4, <1>0
  <2> QED BY <1>2, <2>1, <2>5 DEF p
<1> QED BY <1>1, <1>2

(* A layer that is not above p can be moved without changing what is above p. *)
LEMMA AncestorsKept ==
  ASSUME NEW t, Table(t), NEW n, Table(n), DOMAIN n = DOMAIN t, NEW l,
         \A x \in DOMAIN t \ {l} : n[x].parent = t[x].parent,
         NEW p \in DOMAIN t, l \notin Ancestors(t, p)
  PROVE  Ancestors(n, p) = Ancestors(t, p)
<1>1. Ancestors(n, p) \subseteq Ancestors(t, p)
  <2>1. /\ p \in Ancestors(t, p) /\ Ancestors(t, p) \subseteq DOMAIN t
        /\ \A y \in Ancestors(t, p) : t[y].parent \in Ancestors(t, p) \cup {Top}
    BY AncestorsClosed
  <2>2. \A y \in Ancestors(t, p) : n[y].parent \in Ancestors(t, p) \cup {Top}
    BY <2>1
  <2>3. Ancestors(t, p) \in SUBSET Layers
    BY <2>1 DEF Table
  <2> QED BY <2>1, <2>2, <2>3, AncestorsLeast
<1>2. Ancestors(t, p) \subseteq Ancestors(n, p)
  <2>1. /\ p \in Ancestors(n, p) /\ Ancestors(n, p) \subseteq DOMAIN n
        /\ \A y \in Ancestors(n, p) : n[y].parent \in Ancestors(n, p) \cup {Top}
    BY AncestorsClosed
  <2>2. \A y \in Ancestors(n, p) : t[y].parent \in Ancestors(n, p) \cup {Top}
    BY <1>1, <2>1
  <2>3. Ancestors(n, p) \in SUBSET Layers
    BY <2>1 DEF Table
  <2> QED BY <2>1, <2>2, <2>3, AncestorsLeast
<1> QED BY <1>1, <1>2

(* What is below layers are the layers they are above of. *)
LEMMA BelowIs ==
  ASSUME NEW t, Table(t), Chained(t), NEW L \in SUBSET DOMAIN t
  PROVE  Tree!Below(KidsOf(t), L) = {y \in DOMAIN t : \E x \in L : x \in Ancestors(t, y)}
<1> DEFINE B == Tree!Below(KidsOf(t), L)
           A == {y \in DOMAIN t : \E x \in L : x \in Ancestors(t, y)}
<1>0. /\ DOMAIN t \subseteq Layers /\ Top \notin Layers
      /\ \A p \in Layers : Range(KidsOf(t)[p]) = {x \in DOMAIN t : t[x].parent = p}
  BY KidsFacts, LayersAssumption DEF Siblings, Places, Table
<1>1. B \subseteq A
  <2>1. A \in SUBSET Layers
    BY <1>0
  <2>2. L \subseteq A
    BY AncestorsClosed
  <2>3. ASSUME NEW y \in A PROVE Range(KidsOf(t)[y]) \subseteq A
    <3> SUFFICES ASSUME NEW z \in DOMAIN t, t[z].parent = y PROVE z \in A
      BY <1>0, <2>1
    <3>1. y # Top
      BY <1>0, <2>1
    <3>2. Ancestors(t, y) \subseteq Ancestors(t, z)
      BY <3>1, AncestorsOfParent
    <3> QED BY <3>2
  <2> HIDE DEF A
  <2> QED BY <2>1, <2>2, <2>3 DEF Tree!Below, Tree!Range, Range
<1>2. A \subseteq B
  <2>1. L \subseteq B
    BY <1>0 DEF Tree!Below, Tree!Range, Range
  <2>2. ASSUME NEW z \in DOMAIN t, t[z].parent \in B PROVE z \in B
    <3> DEFINE y == t[z].parent
    <3>1. y \in Layers /\ z \in Range(KidsOf(t)[y]) /\ z \in Layers
      BY <2>2, <1>0 DEF Tree!Below, Tree!Range, Range
    <3>2. ASSUME NEW S \in SUBSET Layers, L \subseteq S, \A x \in S : Range(KidsOf(t)[x]) \subseteq S
          PROVE  z \in S
      <4>1. y \in S
        BY <2>2, <3>2 DEF Tree!Below, Tree!Range, Range
      <4> QED BY <4>1, <3>1, <3>2
    <3> QED BY <3>1, <3>2 DEF Tree!Below, Tree!Range, Range
  <2>3. ASSUME NEW x \in L, NEW y \in DOMAIN t, x \in Ancestors(t, y) PROVE y \in B
    <3> SUFFICES ASSUME y \notin B PROVE FALSE
      OBVIOUS
    <3> DEFINE S == DOMAIN t \ B
    <3>1. y \in S /\ S \in SUBSET Layers
      BY <1>0
    <3>2. \A z \in S \cap DOMAIN t : t[z].parent \in S \cup {Top}
      BY <2>2 DEF Table, Exists
    <3>3. Ancestors(t, y) \subseteq S
      <4> HIDE DEF S
      <4> QED BY <3>1, <3>2, AncestorsLeast
    <3> QED BY <3>3, <2>1, <2>3
  <2> QED BY <2>3
<1> QED BY <1>1, <1>2

(* The order of the layers of one parent. *)
LEMMA BeforeIsOrder ==
  ASSUME NEW t, Table(t), Chained(t), NEW p \in Places,
         NEW x \in Siblings(t, p), NEW y \in Siblings(t, p)
  PROVE  /\ x # y => Tree!Before(KidsOf(t)[p], x, y) \/ Tree!Before(KidsOf(t)[p], y, x)
         /\ ~(Tree!Before(KidsOf(t)[p], x, y) /\ Tree!Before(KidsOf(t)[p], y, x))
<1> DEFINE s == KidsOf(t)[p]
<1>1. Chain(t, Siblings(t, p), s)
  BY KidsFacts
<1> HIDE DEF s
<1>2. /\ DOMAIN s = 1..Len(s) /\ Len(s) \in Nat
      /\ \A i, j \in DOMAIN s : s[i] = s[j] => i = j
      /\ \E i, j \in DOMAIN s : s[i] = x /\ s[j] = y
  BY <1>1 DEF Chain
<1>3. x # y => Tree!Before(s, x, y) \/ Tree!Before(s, y, x)
  BY <1>2 DEF Tree!Before
<1>4. ~(Tree!Before(s, x, y) /\ Tree!Before(s, y, x))
  BY <1>2 DEF Tree!Before
<1> QED BY <1>3, <1>4 DEF s

(* The table t with the layer l off its chain: what the rows of u say of the others. *)
Loose(t, l, u) ==
    \A q \in Places : \E r :
        /\ Chain(u, Siblings(t, q) \ {l}, r)
        /\ \A x, y \in Siblings(t, q) \ {l} :
              Tree!Before(KidsOf(t)[q], x, y) => Tree!Before(r, x, y)

\* Nothing off the chain comes after l, not even l.
LEMMA NotAfterItself ==
  ASSUME NEW t, Table(t), Chained(t), NEW l \in DOMAIN t
  PROVE  t[l].after # l /\ t[l].parent \in Places /\ t[l].after \in Places /\ l \in Layers
         /\ Exists(t, t[l].parent)
<1>1. t[l].parent \in Places /\ t[l].after \in Places /\ l \in Layers /\ Exists(t, t[l].parent)
  BY DEF Table, Row, Places
<1>2. PICK s : Chain(t, Siblings(t, t[l].parent), s)
  BY <1>1 DEF Chained
<1>3. l \in Siblings(t, t[l].parent)
  BY DEF Siblings
<1>4. PICK i \in 1..Len(s) : s[i] = l
  BY <1>2, <1>3 DEF Chain
<1>5. Len(s) \in Nat /\ t[l].after = Pred(s, i) /\ (\A j \in 1..Len(s) : s[j] = l => j = i)
  BY <1>2, <1>4 DEF Chain
<1>6. CASE i = 1
  BY <1>1, <1>5, <1>6, LayersAssumption DEF Pred
<1>7. CASE i # 1
  <2>1. i - 1 \in 1..Len(s) /\ i - 1 # i
    BY <1>5, <1>7
  <2>2. s[i - 1] # l
    BY <2>1, <1>5
  <2> QED BY <2>2, <1>1, <1>5, <1>7 DEF Pred
<1> QED BY <1>6, <1>7, <1>1

(* _unlink takes a layer off its chain. *)
LEMMA UnlinkedIsLoose ==
  ASSUME NEW t, Table(t), Chained(t), NEW l \in DOMAIN t
  PROVE  /\ Loose(t, l, Unlinked(t, l, t[l]))
         /\ DOMAIN Unlinked(t, l, t[l]) = DOMAIN t
         /\ \A x \in DOMAIN t :
               /\ Unlinked(t, l, t[l])[x].parent = t[x].parent
               /\ Unlinked(t, l, t[l])[x] \in Row
         /\ Unlinked(t, l, t[l])[l] = t[l]
<1> DEFINE u == Unlinked(t, l, t[l])
<1>1. /\ t[l].after # l /\ t[l].parent \in Places /\ t[l].after \in Places /\ l \in Layers
      /\ DOMAIN t \subseteq Layers /\ \A x \in DOMAIN t : t[x] \in Row
  BY NotAfterItself DEF Table
<1>2. DOMAIN u = DOMAIN t
  BY DEF Unlinked
<1>3. ASSUME NEW x \in DOMAIN t
      PROVE  /\ u[x].parent = t[x].parent /\ u[x] \in Row
             /\ u[x].after = IF t[x].parent = t[l].parent /\ t[x].after = l THEN t[l].after ELSE t[x].after
  BY <1>1 DEF Unlinked, Row, Places
<1>4. u[l] = t[l]
  BY <1>1 DEF Unlinked
<1> HIDE DEF u
<1>5. ASSUME NEW q \in Places
      PROVE  \E r : /\ Chain(u, Siblings(t, q) \ {l}, r)
                    /\ \A x, y \in Siblings(t, q) \ {l} :
                          Tree!Before(KidsOf(t)[q], x, y) => Tree!Before(r, x, y)
  <2> DEFINE S == Siblings(t, q)
             s == KidsOf(t)[q]
  <2>1. Chain(t, S, s)
    BY KidsFacts
  <2>2. \A x \in S : x \in DOMAIN t /\ t[x].parent = q
    BY DEF Siblings
  <2>3. S \in SUBSET Layers
    BY <2>2, <1>1
  <2>4. CASE q = t[l].parent
    <3>1. l \in S
      BY <2>4 DEF Siblings
    <3>2. \A x \in S \ {l} : u[x].after = IF t[x].after = l THEN t[l].after ELSE t[x].after
      BY <2>2, <2>4, <1>3
    <3> HIDE DEF S, s
    <3>3. \E r : /\ Chain(u, S \ {l}, r)
                 /\ \A x, y \in S \ {l} : Tree!Before(s, x, y) => Tree!Before(r, x, y)
      BY <3>1, <3>2, <2>1, <2>3, ChainWithout, SMTT(30)
    <3> QED BY <3>3 DEF S, s
  <2>5. CASE q # t[l].parent
    <3>1. l \notin S
      BY <2>5 DEF Siblings
    <3>2. \A x \in S : u[x].after = t[x].after
      BY <2>2, <2>5, <1>3
    <3> HIDE DEF S, s
    <3>3. Chain(u, S, s) /\ S \ {l} = S
      BY <3>1, <3>2, <2>1, ChainSame
    <3> QED BY <3>3 DEF S, s
  <2> QED BY <2>4, <2>5
<1> QED BY <1>2, <1>3, <1>4, <1>5 DEF Loose, u

\* _link: the row of l, and the layers after a in p now after l.
LinkedTo(t, u, l, p, a) ==
    [x \in DOMAIN t \cup {l} |->
        IF x = l THEN [parent |-> p, after |-> a]
        ELSE IF t[x].parent = p /\ u[x].after = a THEN [parent |-> p, after |-> l]
        ELSE [parent |-> t[x].parent, after |-> u[x].after]]

\* l is next to a: what is before or after it and is not a is so of a.
Beside(t, p, l, a) ==
    a # Top => \A y \in Siblings(t, p) \ {l, a} :
        /\ Tree!Before(KidsOf(t)[p], l, y) => Tree!Before(KidsOf(t)[p], a, y)
        /\ Tree!Before(KidsOf(t)[p], y, l) => Tree!Before(KidsOf(t)[p], y, a)

(* The table w is t with the layer l put next to a in p. *)
PutAt(t, w, l, p, a) ==
    /\ Table(w) /\ Chained(w) /\ DOMAIN w = DOMAIN t \cup {l}
    /\ \A x \in DOMAIN t \ {l} : w[x].parent = t[x].parent
    /\ Tree!Unmoved(KidsOf(t), KidsOf(w), {l})
    /\ l \in Siblings(w, p) /\ Beside(w, p, l, a)

LEMMA LinkedIsChained ==
  ASSUME NEW t, Table(t), Chained(t), NEW l \in Layers, NEW u, Loose(t, l, u),
         \A x \in DOMAIN t \ {l} : u[x].after \in Places,
         NEW p \in Places, Exists(t, p), NEW a \in (Siblings(t, p) \ {l}) \cup {Top}
  PROVE  PutAt(t, LinkedTo(t, u, l, p, a), l, p, a)
<1> DEFINE n == LinkedTo(t, u, l, p, a)
<1>1. /\ DOMAIN n = DOMAIN t \cup {l} /\ DOMAIN t \subseteq Layers
      /\ n[l] = [parent |-> p, after |-> a]
      /\ a \in Places
      /\ \A x \in DOMAIN t \ {l} :
            /\ n[x].parent = t[x].parent /\ n[x] \in Row
            /\ n[x].after = IF t[x].parent = p /\ u[x].after = a THEN l ELSE u[x].after
            /\ t[x].parent \in Places /\ Exists(t, t[x].parent)
  <2>1. DOMAIN n = DOMAIN t \cup {l} /\ DOMAIN t \subseteq Layers /\ a \in Places
        /\ n[l] = [parent |-> p, after |-> a]
    BY DEF LinkedTo, Table, Siblings, Places
  <2>2. ASSUME NEW x \in DOMAIN t \ {l}
        PROVE  /\ n[x].parent = t[x].parent /\ n[x] \in Row
               /\ n[x].after = IF t[x].parent = p /\ u[x].after = a THEN l ELSE u[x].after
               /\ t[x].parent \in Places /\ Exists(t, t[x].parent)
    <3>1. t[x].parent \in Places /\ Exists(t, t[x].parent)
      BY DEF Table, Row, Places
    <3>2. n[x] = IF t[x].parent = p /\ u[x].after = a THEN [parent |-> p, after |-> l]
                 ELSE [parent |-> t[x].parent, after |-> u[x].after]
      BY DEF LinkedTo
    <3> HIDE DEF n
    <3> QED BY <3>1, <3>2 DEF Row, Places
  <2> QED BY <2>1, <2>2
<1>f. n \in [DOMAIN n -> Row]
  <2>1. n = [x \in DOMAIN n |-> n[x]]
    BY DEF LinkedTo
  <2>2. \A x \in DOMAIN n : n[x] \in Row
    BY <1>1 DEF Row, Places
  <2> HIDE DEF n
  <2> QED BY <2>1, <2>2
<1> HIDE DEF n
<1>2. Table(n)
  BY <1>1, <1>f DEF Table, Exists, Places
<1>3. \A q \in Places : Siblings(n, q) = IF q = p THEN (Siblings(t, q) \ {l}) \cup {l} ELSE Siblings(t, q) \ {l}
  <2> SUFFICES ASSUME NEW q \in Places, NEW x
               PROVE  x \in Siblings(n, q) <=>
                         x \in IF q = p THEN (Siblings(t, q) \ {l}) \cup {l} ELSE Siblings(t, q) \ {l}
    BY Zenon
  <2>1. CASE x = l
    BY <2>1, <1>1 DEF Siblings
  <2>2. CASE x # l
    BY <2>2, <1>1 DEF Siblings
  <2> QED BY <2>1, <2>2
<1>4. ASSUME NEW q \in Places
      PROVE  \E s : /\ Chain(n, Siblings(n, q), s)
                    /\ \A x, y \in Siblings(t, q) \ {l} :
                          Tree!Before(KidsOf(t)[q], x, y) => Tree!Before(s, x, y)
                    /\ q = p => (a # Top => \A y \in Siblings(n, p) \ {l, a} :
                          /\ Tree!Before(s, l, y) => Tree!Before(s, a, y)
                          /\ Tree!Before(s, y, l) => Tree!Before(s, y, a))
  <2> DEFINE S == Siblings(t, q) \ {l}
  <2>1. PICK r : /\ Chain(u, S, r)
                 /\ \A x, y \in S : Tree!Before(KidsOf(t)[q], x, y) => Tree!Before(r, x, y)
    BY DEF Loose
  <2>2. S \in SUBSET Layers /\ \A x \in S : x \in DOMAIN t \ {l} /\ t[x].parent = q
    BY <1>1 DEF Siblings
  <2>3. CASE q = p
    <3>1. \A x \in S : n[x].after = IF u[x].after = a THEN l ELSE u[x].after
      BY <2>2, <2>3, <1>1
    <3>2. l \in Layers \ S /\ n[l].after = a /\ a \in S \cup {Top}
      BY <1>1, <2>3
    <3>3. Siblings(n, q) = S \cup {l}
      BY <1>3, <2>3
    <3> HIDE DEF S
    <3>a. /\ S \in SUBSET Layers /\ Chain(u, S, r) /\ l \in Layers \ S
          /\ a \in S \cup {Top} /\ PutIn(u, n, S, l, a)
      BY <2>1, <2>2, <3>1, <3>2 DEF PutIn
    <3>s. PICK s : Chain(n, S \cup {l}, s) /\ KeptOrder(r, s, S) /\ NextTo(s, S, l, a)
      BY <3>a, ChainWith
    <3>4. /\ Chain(n, S \cup {l}, s)
          /\ \A x, y \in S : Tree!Before(r, x, y) => Tree!Before(s, x, y)
      BY <3>s DEF KeptOrder
    <3>c. a # Top => \A y \in S \ {a} :
                        /\ Tree!Before(s, l, y) => Tree!Before(s, a, y)
                        /\ Tree!Before(s, y, l) => Tree!Before(s, y, a)
      BY <3>s DEF NextTo
    <3>5. \A y \in Siblings(n, p) \ {l, a} : y \in S \ {a}
      BY <3>3, <2>3
    <3>6. /\ Chain(n, Siblings(n, q), s)
          /\ \A x, y \in S : Tree!Before(KidsOf(t)[q], x, y) => Tree!Before(s, x, y)
      BY <3>3, <3>4, <2>1
    <3>7. a # Top => \A y \in Siblings(n, p) \ {l, a} :
                        /\ Tree!Before(s, l, y) => Tree!Before(s, a, y)
                        /\ Tree!Before(s, y, l) => Tree!Before(s, y, a)
      BY <3>c, <3>5
    <3> QED BY <3>6, <3>7 DEF S
  <2>4. CASE q # p
    <3>1. \A x \in S : n[x].after = u[x].after
      BY <2>2, <2>4, <1>1
    <3>2. Siblings(n, q) = S
      BY <1>3, <2>4
    <3> HIDE DEF S
    <3>3. Chain(n, S, r)
      BY <2>1, <3>1, ChainSame
    <3> QED BY <2>1, <2>4, <3>2, <3>3 DEF S
  <2> QED BY <2>3, <2>4
<1>5. Chained(n)
  BY <1>4 DEF Chained
<1>6. ASSUME NEW q \in Places
      PROVE  /\ \A x, y \in Siblings(t, q) \ {l} :
                   Tree!Before(KidsOf(t)[q], x, y) => Tree!Before(KidsOf(n)[q], x, y)
             /\ q = p => Beside(n, p, l, a)
             /\ Range(KidsOf(n)[q]) \ {l} = Range(KidsOf(t)[q]) \ {l}
             /\ Range(KidsOf(t)[q]) = Siblings(t, q)
  <2>1. PICK s : /\ Chain(n, Siblings(n, q), s)
                 /\ \A x, y \in Siblings(t, q) \ {l} :
                       Tree!Before(KidsOf(t)[q], x, y) => Tree!Before(s, x, y)
                 /\ q = p => (a # Top => \A y \in Siblings(n, p) \ {l, a} :
                       /\ Tree!Before(s, l, y) => Tree!Before(s, a, y)
                       /\ Tree!Before(s, y, l) => Tree!Before(s, y, a))
    BY <1>4
  <2>2. KidsOf(n)[q] = s
    BY <2>1, <1>2, KidsAreChain
  <2>3. Range(KidsOf(n)[q]) = Siblings(n, q) /\ Range(KidsOf(t)[q]) = Siblings(t, q)
    BY <1>2, <1>5, KidsFacts
  <2>4. Range(KidsOf(n)[q]) \ {l} = Range(KidsOf(t)[q]) \ {l}
    BY <2>3, <1>3
  <2>5. q = p => Beside(n, p, l, a)
    BY <2>1, <2>2 DEF Beside
  <2> QED BY <2>1, <2>2, <2>3, <2>4, <2>5
<1>7. Tree!Unmoved(KidsOf(t), KidsOf(n), {l})
  BY <1>6 DEF Tree!Unmoved, Tree!Places, Places, Tree!Range, Range
<1>8. Beside(n, p, l, a)
  BY <1>6
<1>9. l \in Siblings(n, p)
  BY <1>1 DEF Siblings
<1> QED BY <1>1, <1>2, <1>5, <1>7, <1>8, <1>9 DEF n, PutAt

LEMMA RowIs ==
  ASSUME NEW z \in Row, NEW b
  PROVE  /\ z = [parent |-> z.parent, after |-> z.after]
         /\ [z EXCEPT !.after = b] = [parent |-> z.parent, after |-> b]
BY DEF Row

(* _last_sibling, of layers that are on a chain without l. *)
LEMMA LastOfLoose ==
  ASSUME NEW t, Table(t), NEW l, NEW u, Loose(t, l, u), NEW p \in Places,
         Siblings(u, p) = Siblings(t, p)
  PROVE  /\ LastSibling(u, p, l) \in (Siblings(t, p) \ {l}) \cup {Top}
         /\ \A x \in Siblings(t, p) \ {l} : u[x].after # LastSibling(u, p, l)
<1> DEFINE S == Siblings(t, p) \ {l}
           a == LastSibling(u, p, l)
<1>1. PICK r : Chain(u, S, r)
  BY DEF Loose
<1>2. S \in SUBSET Layers
  BY DEF Table, Siblings
<1>3. a = IF r = <<>> THEN Top ELSE r[Len(r)]
  <2>1. Ordered(u, S) = r
    <3> HIDE DEF S
    <3> QED BY <1>1, <1>2, OrderedIsChain
  <2> QED BY <2>1 DEF LastSibling
<1> HIDE DEF S, a
<1>4. a \in S \cup {Top} /\ \A x \in S : u[x].after # a
  BY <1>1, <1>2, <1>3, AfterLast
<1> QED BY <1>4 DEF S, a

(* create_mission_layer's commit. *)
Added(t, l, p, a, last) ==
    [x \in DOMAIN t \cup {l} |-> IF x = l THEN [parent |-> p, after |-> a]
                                ELSE (IF last THEN t ELSE Parted(t, l, p, a))[x]]

LEMMA AddedIsLinked ==
  ASSUME NEW t, Table(t), Chained(t), NEW l \in Layers, l \notin DOMAIN t, NEW p \in Places,
         Exists(t, p), NEW last \in BOOLEAN, NEW a,
         last => a = LastSibling(t, p, l), ~last => a \in Siblings(t, p)
  PROVE  /\ Loose(t, l, t) /\ a \in (Siblings(t, p) \ {l}) \cup {Top}
         /\ \A x \in DOMAIN t \ {l} : t[x].after \in Places
         /\ Added(t, l, p, a, last) = LinkedTo(t, t, l, p, a)
<1>1. \A q \in Places : Siblings(t, q) \ {l} = Siblings(t, q)
  BY DEF Siblings
<1>2. Loose(t, l, t)
  BY <1>1, KidsFacts DEF Loose
<1>3. a \in (Siblings(t, p) \ {l}) \cup {Top}
  BY <1>1, <1>2, LastOfLoose
<1>4. last => \A x \in DOMAIN t : t[x].parent = p => t[x].after # a
  <2>1. last => \A x \in Siblings(t, p) \ {l} : t[x].after # a
    BY <1>2, LastOfLoose
  <2> QED BY <2>1, <1>1 DEF Siblings
<1>5. \A x \in DOMAIN t : t[x] \in Row
  BY DEF Table
<1>6. ASSUME NEW x \in DOMAIN t
      PROVE  (IF last THEN t ELSE Parted(t, l, p, a))[x]
                = IF t[x].parent = p /\ t[x].after = a THEN [parent |-> p, after |-> l]
                  ELSE [parent |-> t[x].parent, after |-> t[x].after]
  <2>1. x # l /\ t[x] = [parent |-> t[x].parent, after |-> t[x].after]
        /\ [t[x] EXCEPT !.after = l] = [parent |-> t[x].parent, after |-> l]
    BY <1>5, RowIs
  <2>2. CASE last
    BY <2>1, <2>2, <1>4
  <2>3. CASE ~last
    <3>1. Parted(t, l, p, a)[x] = IF t[x].parent = p /\ t[x].after = a
                                  THEN [t[x] EXCEPT !.after = l] ELSE t[x]
      BY <2>1 DEF Parted
    <3> QED BY <2>1, <2>3, <3>1
  <2> QED BY <2>2, <2>3
<1>7. \A x \in DOMAIN t \ {l} : t[x].after \in Places
  BY <1>5 DEF Row, Places
<1>8. Added(t, l, p, a, last) = LinkedTo(t, t, l, p, a)
  <2>1. \A x \in DOMAIN t \cup {l} : x # l => x \in DOMAIN t
    OBVIOUS
  <2> QED BY <2>1, <1>6, Zenon DEF Added, LinkedTo
<1> QED BY <1>2, <1>3, <1>7, <1>8

(* A layer that is unlinked, linked and stored: move_mission_layer's commit and one
   turn of reparent_mission_layers. *)
LEMMA StoredIsLinked ==
  ASSUME NEW t, Table(t), Chained(t), NEW l \in DOMAIN t, NEW p \in Places, Exists(t, p),
         NEW a \in (Siblings(t, p) \ {l}) \cup {Top}, NEW v,
         \/ v = Parted(Unlinked(t, l, t[l]), l, p, a)
         \/ v = Unlinked(t, l, t[l]) /\ a = LastSibling(v, p, l)
  PROVE  Stored(v, l, t[l], p, a) = LinkedTo(t, Unlinked(t, l, t[l]), l, p, a)
<1> DEFINE u == Unlinked(t, l, t[l])
<1>1. /\ Loose(t, l, u) /\ DOMAIN u = DOMAIN t
      /\ \A x \in DOMAIN t : u[x].parent = t[x].parent /\ u[x] \in Row
      /\ u[l] = t[l]
  BY UnlinkedIsLoose
<1> HIDE DEF u
<1>2. Siblings(u, p) = Siblings(t, p)
  BY <1>1 DEF Siblings
<1>3. DOMAIN v = DOMAIN t /\ v[l] = t[l]
  BY <1>1 DEF Parted, u
<1>4. ASSUME NEW x \in DOMAIN t \ {l}
      PROVE  v[x] = IF t[x].parent = p /\ u[x].after = a THEN [parent |-> p, after |-> l]
                    ELSE [parent |-> t[x].parent, after |-> u[x].after]
  <2>1. /\ u[x] = [parent |-> t[x].parent, after |-> u[x].after]
        /\ [u[x] EXCEPT !.after = l] = [parent |-> t[x].parent, after |-> l]
    BY <1>1, RowIs
  <2>2. CASE v = Parted(u, l, p, a)
    <3>1. v[x] = IF t[x].parent = p /\ u[x].after = a THEN [u[x] EXCEPT !.after = l] ELSE u[x]
      BY <2>2, <1>1 DEF Parted
    <3> QED BY <2>1, <3>1
  <2>3. CASE v = u /\ a = LastSibling(v, p, l)
    <3>1. t[x].parent = p => u[x].after # a
      BY <2>3, <1>1, <1>2, LastOfLoose DEF Siblings
    <3> QED BY <2>1, <2>3, <3>1
  <2> QED BY <2>2, <2>3 DEF u
<1>5. t[l] \in Row
  BY DEF Table
<1>6. [parent |-> IF p = t[l].parent THEN v[l].parent ELSE p,
       after |-> IF a = t[l].after THEN v[l].after ELSE a] = [parent |-> p, after |-> a]
  BY <1>3
<1>7. Stored(v, l, t[l], p, a) = [x \in DOMAIN t |-> IF x = l THEN [parent |-> p, after |-> a] ELSE v[x]]
  <2>1. Stored(v, l, t[l], p, a) =
          [x \in DOMAIN v |-> IF x = l THEN [parent |-> IF p = t[l].parent THEN v[l].parent ELSE p,
                                             after |-> IF a = t[l].after THEN v[l].after ELSE a]
                              ELSE v[x]]
    BY DEF Stored
  <2> QED BY <2>1, <1>3, <1>6
<1>8. LinkedTo(t, u, l, p, a) = [x \in DOMAIN t |-> IF x = l THEN [parent |-> p, after |-> a] ELSE v[x]]
  <2>1. DOMAIN t \cup {l} = DOMAIN t
    OBVIOUS
  <2> QED BY <2>1, <1>4, Zenon DEF LinkedTo
<1> QED BY <1>7, <1>8 DEF u

LEMMA StoredIsMoved ==
  ASSUME NEW t, Table(t), Chained(t), NEW l \in DOMAIN t, NEW p \in Places, Exists(t, p),
         NEW a \in (Siblings(t, p) \ {l}) \cup {Top}, NEW v,
         \/ v = Parted(Unlinked(t, l, t[l]), l, p, a)
         \/ v = Unlinked(t, l, t[l]) /\ a = LastSibling(v, p, l)
  PROVE  PutAt(t, Stored(v, l, t[l], p, a), l, p, a)
<1> DEFINE u == Unlinked(t, l, t[l])
           n == LinkedTo(t, u, l, p, a)
<1>1. /\ Loose(t, l, u) /\ l \in Layers
      /\ \A x \in DOMAIN t \ {l} : u[x].after \in Places
  <2>1. Loose(t, l, u) /\ \A x \in DOMAIN t : u[x] \in Row
    BY UnlinkedIsLoose
  <2>2. l \in Layers
    BY NotAfterItself
  <2> HIDE DEF u
  <2> QED BY <2>1, <2>2 DEF Row, Places
<1>2. Stored(v, l, t[l], p, a) = n
  BY StoredIsLinked
<1> HIDE DEF u
<1>4. PutAt(t, n, l, p, a)
  BY <1>1, LinkedIsChained
<1> QED BY <1>2, <1>4

LEMMA TurnMoves ==
  ASSUME NEW t, Table(t), Chained(t), NEW l \in DOMAIN t, NEW p \in Places, NEW a \in Places,
         Placeable(t, l, p, a), NEW last \in BOOLEAN
  PROVE  \E w, b : /\ Reparented(t, l, t[l], p, a, last) = {w}
                   /\ PutAt(t, w, l, p, b) /\ (~last => b = a)
<1> DEFINE u == Unlinked(t, l, t[l])
<1>1. Exists(t, p) /\ a \in (Siblings(t, p) \ {l}) \cup {Top}
  BY DEF Placeable
<1>2. CASE last
  <2> DEFINE b == LastSibling(u, p, l)
             w == Stored(u, l, t[l], p, b)
  <2>1. Loose(t, l, u) /\ Siblings(u, p) = Siblings(t, p)
    <3>1. /\ Loose(t, l, u) /\ DOMAIN u = DOMAIN t
          /\ \A x \in DOMAIN t : u[x].parent = t[x].parent
      BY UnlinkedIsLoose
    <3> HIDE DEF u
    <3> QED BY <3>1 DEF Siblings
  <2>2. b \in (Siblings(t, p) \ {l}) \cup {Top}
    <3> HIDE DEF u
    <3> QED BY <2>1, LastOfLoose
  <2>3. PutAt(t, w, l, p, b)
    BY <1>1, <2>2, StoredIsMoved
  <2>4. Reparented(t, l, t[l], p, a, last) = {w}
    BY <1>1, <1>2 DEF Reparented
  <2> HIDE DEF w, b
  <2> QED BY <2>3, <2>4, <1>2
<1>3. CASE ~last
  <2> DEFINE w == Stored(Parted(u, l, p, a), l, t[l], p, a)
  <2>1. PutAt(t, w, l, p, a)
    BY <1>1, StoredIsMoved
  <2>2. Reparented(t, l, t[l], p, a, last) = {w}
    BY <1>1, <1>3 DEF Reparented
  <2> HIDE DEF w
  <2> QED BY <2>1, <2>2, <1>3
<1> QED BY <1>2, <1>3

(* The table w is t with the layers of L together in p. *)
AllMoved(t, w, L, p) ==
    /\ Table(w) /\ Chained(w) /\ DOMAIN w = DOMAIN t
    /\ Tree!Unmoved(KidsOf(t), KidsOf(w), L)
    /\ L \subseteq Siblings(w, p) /\ Tree!Together(KidsOf(w)[p], L)
    /\ p # Top => Ancestors(w, p) = Ancestors(t, p) /\ L \cap Ancestors(t, p) = {}

LEMMA OneMoved ==
  ASSUME NEW t, Table(t), Chained(t), NEW w, NEW l \in DOMAIN t, NEW p \in Places,
         Exists(t, p), NEW a, PutAt(t, w, l, p, a), p # Top => l \notin Ancestors(t, p)
  PROVE  AllMoved(t, w, {l}, p)
<1>1. Table(w) /\ Chained(w) /\ DOMAIN w = DOMAIN t /\ l \in Siblings(w, p)
  BY DEF PutAt
<1>2. Tree!Together(KidsOf(w)[p], {l})
  <2>1. ASSUME NEW y \in Range(KidsOf(w)[p])
        PROVE  ~(Tree!Before(KidsOf(w)[p], l, y) /\ Tree!Before(KidsOf(w)[p], y, l))
    <3>1. y \in Siblings(w, p)
      BY <1>1, KidsFacts
    <3> QED BY <3>1, <1>1, BeforeIsOrder
  <2> QED BY <2>1 DEF Tree!Together, Tree!Range, Range
<1>3. ASSUME p # Top PROVE Ancestors(w, p) = Ancestors(t, p) /\ {l} \cap Ancestors(t, p) = {}
  <2>1. p \in DOMAIN t /\ l \notin Ancestors(t, p)
    BY <1>3 DEF Exists
  <2>2. \A x \in DOMAIN t \ {l} : w[x].parent = t[x].parent
    BY DEF PutAt
  <2> QED BY <2>1, <2>2, <1>1, AncestorsKept
<1> QED BY <1>1, <1>2, <1>3 DEF AllMoved, PutAt

LEMMA OneMoreMoved ==
  ASSUME NEW t, NEW w, NEW L, NEW p \in Places, Exists(t, p), AllMoved(t, w, L, p),
         NEW v, NEW l \in DOMAIN w, NEW a \in L \ {l}, a # Top, PutAt(w, v, l, p, a),
         p # Top => l \notin Ancestors(w, p)
  PROVE  AllMoved(t, v, L \cup {l}, p)
<1>1. /\ Table(w) /\ Chained(w) /\ DOMAIN w = DOMAIN t /\ L \subseteq Siblings(w, p)
      /\ Table(v) /\ Chained(v) /\ DOMAIN v = DOMAIN w /\ l \in Siblings(v, p)
      /\ \A x \in DOMAIN w \ {l} : v[x].parent = w[x].parent
  BY DEF AllMoved, PutAt
<1>2. AllMoved(w, v, {l}, p)
  <2>1. Exists(w, p)
    BY <1>1 DEF Exists
  <2> QED BY <2>1, <1>1, OneMoved
<1>3. /\ \A q \in Places : Range(KidsOf(w)[q]) = Siblings(w, q)
      /\ \A q \in Places : Range(KidsOf(v)[q]) = Siblings(v, q)
  BY <1>1, KidsFacts
<1>4. Tree!Unmoved(KidsOf(t), KidsOf(w), L) /\ Tree!Unmoved(KidsOf(w), KidsOf(v), {l})
  BY DEF AllMoved, PutAt
<1>5. Tree!Unmoved(KidsOf(t), KidsOf(v), L \cup {l})
  <2> SUFFICES ASSUME NEW q \in Places
               PROVE  /\ Tree!Range(KidsOf(v)[q]) \ (L \cup {l}) = Tree!Range(KidsOf(t)[q]) \ (L \cup {l})
                      /\ \A x, y \in Tree!Range(KidsOf(t)[q]) \ (L \cup {l}) :
                            Tree!Before(KidsOf(t)[q], x, y) => Tree!Before(KidsOf(v)[q], x, y)
    BY DEF Tree!Unmoved, Tree!Places, Places
  <2>1. /\ Tree!Range(KidsOf(w)[q]) \ L = Tree!Range(KidsOf(t)[q]) \ L
        /\ \A x, y \in Tree!Range(KidsOf(t)[q]) \ L :
              Tree!Before(KidsOf(t)[q], x, y) => Tree!Before(KidsOf(w)[q], x, y)
        /\ Tree!Range(KidsOf(v)[q]) \ {l} = Tree!Range(KidsOf(w)[q]) \ {l}
        /\ \A x, y \in Tree!Range(KidsOf(w)[q]) \ {l} :
              Tree!Before(KidsOf(w)[q], x, y) => Tree!Before(KidsOf(v)[q], x, y)
    BY <1>4 DEF Tree!Unmoved, Tree!Places, Places
  <2>2. Tree!Range(KidsOf(v)[q]) \ (L \cup {l}) = Tree!Range(KidsOf(t)[q]) \ (L \cup {l})
    BY <2>1
  <2>3. ASSUME NEW x \in Tree!Range(KidsOf(t)[q]) \ (L \cup {l}),
               NEW y \in Tree!Range(KidsOf(t)[q]) \ (L \cup {l}),
               Tree!Before(KidsOf(t)[q], x, y)
        PROVE  Tree!Before(KidsOf(v)[q], x, y)
    <3>1. x \in Tree!Range(KidsOf(t)[q]) \ L /\ y \in Tree!Range(KidsOf(t)[q]) \ L
      OBVIOUS
    <3>2. x \in Tree!Range(KidsOf(w)[q]) \ {l} /\ y \in Tree!Range(KidsOf(w)[q]) \ {l}
      BY <2>1
    <3> QED BY <3>1, <3>2, <2>1, <2>3
  <2> QED BY <2>2, <2>3
<1>6. L \cup {l} \subseteq Siblings(v, p)
  BY <1>1 DEF Siblings
<1>7. Tree!Together(KidsOf(v)[p], L \cup {l})
  <2> DEFINE k == KidsOf(w)[p]
             n == KidsOf(v)[p]
             B(s, x, y) == Tree!Before(s, x, y)
  <2> SUFFICES ASSUME NEW x \in L \cup {l}, NEW z \in L \cup {l},
                      NEW y \in Siblings(v, p) \ (L \cup {l}), B(n, x, y), B(n, y, z)
               PROVE  FALSE
    BY <1>3 DEF Tree!Together, Tree!Range, Range
  <2>1. /\ B(n, l, y) => B(n, a, y)
        /\ B(n, y, l) => B(n, y, a)
    BY DEF PutAt, Beside
  <2>2. PICK f \in L \ {l} : B(n, f, y)
    BY <2>1
  <2>3. PICK g \in L \ {l} : B(n, y, g)
    BY <2>1
  <2>4. y \in Siblings(w, p) /\ y # l
    BY <1>1 DEF Siblings
  <2>5. \A c \in L \ {l} : /\ c \in Siblings(w, p) /\ c \in Siblings(v, p) /\ c # y
                           /\ B(n, c, y) => B(k, c, y)
                           /\ B(n, y, c) => B(k, y, c)
    <3> SUFFICES ASSUME NEW c \in L \ {l}
                 PROVE  /\ c \in Siblings(w, p) /\ c \in Siblings(v, p) /\ c # y
                        /\ B(n, c, y) => B(k, c, y)
                        /\ B(n, y, c) => B(k, y, c)
      OBVIOUS
    <3>1. c \in Siblings(w, p) /\ c \in Siblings(v, p) /\ c # y
      BY <1>1, <1>6
    <3>2. /\ B(k, c, y) \/ B(k, y, c)
          /\ ~(B(n, c, y) /\ B(n, y, c))
      BY <3>1, <2>4, <1>1, BeforeIsOrder
    <3>3. \A x1, y1 \in Siblings(w, p) \ {l} : B(k, x1, y1) => B(n, x1, y1)
      BY <1>3, <1>4 DEF Tree!Unmoved, Tree!Places, Places, Tree!Range, Range
    <3>4. (B(k, c, y) => B(n, c, y)) /\ (B(k, y, c) => B(n, y, c))
      BY <3>1, <3>3, <2>4
    <3> QED BY <3>1, <3>2, <3>4
  <2>6. B(k, f, y) /\ B(k, y, g)
    BY <2>2, <2>3, <2>5
  <2>7. Tree!Together(k, L) /\ y \in Tree!Range(k)
    BY <2>4, <1>3 DEF AllMoved, Tree!Range, Range
  <2>8. y \in L
    BY <2>6, <2>7, <2>2, <2>3 DEF Tree!Together
  <2> QED BY <2>8
<1>8. p # Top => Ancestors(v, p) = Ancestors(t, p) /\ (L \cup {l}) \cap Ancestors(t, p) = {}
  BY <1>2 DEF AllMoved
<1> QED BY <1>1, <1>5, <1>6, <1>7, <1>8 DEF AllMoved

(* The loop of reparent_mission_layers, as far as its m-th turn. *)
Turns(t, e, m, f) ==
    f = [n \in 1..m |->
            IF n = 1 THEN Reparented(t, e.ls[1], e.old, e.parent, e.after, e.last)
            ELSE UNION {ReparentedNext(u, e.ls[n], e.parent, e.ls[n - 1]) : u \in f[n - 1]}]

LEMMA TurnsExist ==
  ASSUME NEW t, NEW e, NEW N \in Nat
  PROVE  \E f : Turns(t, e, N, f)
<1> DEFINE T == {m \in Nat : ~ \E f : Turns(t, e, m, f)}
<1> SUFFICES ASSUME T # {} PROVE FALSE
  OBVIOUS
<1>1. PICK m \in T : \A k \in T : m <= k
  <2> T \in SUBSET Nat
    OBVIOUS
  <2> HIDE DEF T
  <2> QED BY LeastOf
<1>2. CASE m = 0
  <2> DEFINE g == [n \in 1..0 |-> {}]
  <2>1. ASSUME NEW n \in 1..0 PROVE FALSE
    OBVIOUS
  <2>2. Turns(t, e, 0, g)
    BY <2>1 DEF Turns
  <2> QED BY <1>2, <2>2
<1>3. CASE m # 0
  <2>1. m - 1 \in Nat /\ m - 1 \notin T
    BY <1>1, <1>3
  <2>2. PICK f : Turns(t, e, m - 1, f)
    BY <2>1
  <2> DEFINE Turn(n, h) ==
               IF n = 1 THEN Reparented(t, e.ls[1], e.old, e.parent, e.after, e.last)
               ELSE UNION {ReparentedNext(u, e.ls[n], e.parent, e.ls[n - 1]) : u \in h[n - 1]}
             g == [n \in 1..m |-> IF n = m THEN Turn(m, f) ELSE f[n]]
  <2>3. \A n \in 1..m - 1 : f[n] = Turn(n, f)
    BY <2>2 DEF Turns
  <2>a. ASSUME NEW n \in 1..m PROVE g[n] = Turn(n, f)
    <3>1. CASE n = m
      BY <3>1
    <3>2. CASE n # m
      <4>1. n \in 1..m - 1 /\ g[n] = f[n]
        BY <3>2
      <4> HIDE DEF Turn, g
      <4> QED BY <4>1, <2>3
    <3> QED BY <3>1, <3>2
  <2>b. ASSUME NEW n \in 1..m, n # 1 PROVE g[n - 1] = f[n - 1]
    <3>1. n - 1 \in 1..m /\ n - 1 # m
      BY <2>b
    <3> QED BY <3>1
  <2>4. ASSUME NEW n \in 1..m PROVE g[n] = Turn(n, g)
    <3>1. CASE n = 1
      <4>1. Turn(n, f) = Turn(n, g)
        BY <3>1
      <4> QED BY <4>1, <2>a
    <3>2. CASE n # 1
      <4> HIDE DEF g
      <4>1. Turn(n, f) = Turn(n, g)
        BY <3>2, <2>b
      <4> QED BY <4>1, <2>a
    <3> QED BY <3>1, <3>2
  <2>5. Turns(t, e, m, g)
    <3>1. g = [n \in 1..m |-> g[n]]
      OBVIOUS
    <3> HIDE DEF g
    <3> QED BY <3>1, <2>4 DEF Turns
  <2> HIDE DEF g
  <2> QED BY <2>5, <1>1
<1> QED BY <1>2, <1>3

LEMMA AllIsLastTurn ==
  ASSUME NEW t, NEW e, NEW N \in Nat, N = Len(e.ls)
  PROVE  \E f : Turns(t, e, N, f) /\ ReparentedAll(t, e) = f[N]
<1> DEFINE f == CHOOSE f : Turns(t, e, N, f)
<1>1. Turns(t, e, N, f)
  BY TurnsExist
<1>2. ReparentedAll(t, e) = f[N]
  BY DEF ReparentedAll, Turns
<1> QED BY <1>1, <1>2

(* reparent_mission_layers' commit puts all its layers together, or fails. *)
AsRead(t, e, N) ==
    /\ e.ls \in [1..N -> Layers] /\ e.ls[1] \in DOMAIN t /\ e.old = t[e.ls[1]]
    /\ e.parent \in Places /\ e.after \in Places /\ e.last \in BOOLEAN
    /\ Placeable(t, e.ls[1], e.parent, e.after)

LEMMA AllAreMoved ==
  ASSUME NEW t, Table(t), Chained(t), NEW e, NEW N \in Nat \ {0}, AsRead(t, e, N)
  PROVE  \/ ReparentedAll(t, e) = {}
         \/ \E w : ReparentedAll(t, e) = {w} /\ AllMoved(t, w, {e.ls[i] : i \in 1..N}, e.parent)
<1> DEFINE ls == e.ls
           p == e.parent
           a == e.after
<1>a. /\ ls \in [1..N -> Layers] /\ ls[1] \in DOMAIN t /\ e.old = t[ls[1]]
      /\ p \in Places /\ a \in Places /\ e.last \in BOOLEAN
      /\ Placeable(t, ls[1], p, a)
      /\ e.ls = ls /\ e.parent = p /\ e.after = a
  BY DEF AsRead
<1> HIDE DEF ls, p, a
<1> /\ ls \in [1..N -> Layers] /\ ls[1] \in DOMAIN t /\ e.old = t[ls[1]]
    /\ p \in Places /\ a \in Places /\ e.last \in BOOLEAN
    /\ Placeable(t, ls[1], p, a)
    /\ e.ls = ls /\ e.parent = p /\ e.after = a
  BY <1>a
<1> DEFINE First(n) == {ls[i] : i \in 1..n}
<1>0. Len(e.ls) = N /\ \A i \in 1..N : ls[i] \in Layers /\ ls[i] # Top
  <2>1. ls \in Seq(Layers) /\ Len(ls) = N
    BY DEF Seq
  <2> QED BY <2>1, LayersAssumption
<1>1. PICK f : Turns(t, e, N, f) /\ ReparentedAll(t, e) = f[N]
  BY <1>0, AllIsLastTurn
<1>2. /\ f[1] = Reparented(t, ls[1], t[ls[1]], p, a, e.last)
      /\ \A n \in 1..N : n # 1 => f[n] = UNION {ReparentedNext(u, ls[n], p, ls[n - 1]) : u \in f[n - 1]}
  <2>1. f = [n \in 1..N |->
               IF n = 1 THEN Reparented(t, e.ls[1], e.old, e.parent, e.after, e.last)
               ELSE UNION {ReparentedNext(u, e.ls[n], e.parent, e.ls[n - 1]) : u \in f[n - 1]}]
    BY <1>1 DEF Turns
  <2>2. 1 \in 1..N
    OBVIOUS
  <2>3. f[1] = Reparented(t, e.ls[1], e.old, e.parent, e.after, e.last)
    BY <2>1, <2>2
  <2>4. ASSUME NEW n \in 1..N, n # 1
        PROVE  f[n] = UNION {ReparentedNext(u, e.ls[n], e.parent, e.ls[n - 1]) : u \in f[n - 1]}
    BY <2>1, <2>4
  <2> QED BY <2>3, <2>4
<1> DEFINE Right(n) == f[n] = {} \/ \E w : f[n] = {w} /\ AllMoved(t, w, First(n), p)
<1>3. Right(1)
  <2> DEFINE l == ls[1]
  <2>1. p # Top => l \notin Ancestors(t, p)
    BY DEF Placeable
  <2>2. Exists(t, p)
    BY DEF Placeable
  <2> HIDE DEF l
  <2>3. PICK w, b : /\ Reparented(t, l, t[l], p, a, e.last) = {w}
                    /\ PutAt(t, w, l, p, b)
    BY TurnMoves DEF l
  <2>4. AllMoved(t, w, {l}, p)
    BY <2>1, <2>2, <2>3, OneMoved DEF l
  <2>5. First(1) = {l}
    BY DEF l
  <2> HIDE DEF First
  <2> QED BY <2>3, <2>4, <2>5, <1>2 DEF l
<1>4. ASSUME NEW n \in 1..N, n # 1, Right(n - 1) PROVE Right(n)
  <2>1. n - 1 \in 1..N /\ f[n] = UNION {ReparentedNext(u, ls[n], p, ls[n - 1]) : u \in f[n - 1]}
    BY <1>2, <1>4
  <2>2. CASE f[n - 1] = {}
    BY <2>1, <2>2
  <2>3. CASE f[n - 1] # {}
    <3> HIDE DEF First
    <3>1. PICK w : f[n - 1] = {w} /\ AllMoved(t, w, First(n - 1), p)
      BY <1>4, <2>3
    <3> DEFINE l == ls[n]
               b == ls[n - 1]
    <3>2. f[n] = ReparentedNext(w, l, p, b)
      BY <3>1, <2>1
    <3>3. l \in Layers /\ b \in Layers /\ b # Top /\ b \in Places
      BY <2>1, <1>0 DEF Places
    <3>b. b \in First(n - 1) /\ First(n) = First(n - 1) \cup {l}
      <4>1. \A i \in 1..n : i = n \/ i \in 1..n - 1
        OBVIOUS
      <4>2. 1..n - 1 \subseteq 1..n /\ n \in 1..n /\ n - 1 \in 1..n - 1
        BY <2>1
      <4> QED BY <4>1, <4>2 DEF First
    <3> HIDE DEF l, b
    <3>4. CASE l \in DOMAIN w /\ Placeable(w, l, p, b)
      <4>1. Table(w) /\ Chained(w)
        BY <3>1 DEF AllMoved
      <4> DEFINE v == Stored(Parted(Unlinked(w, l, w[l]), l, p, b), l, w[l], p, b)
      <4>2. Exists(w, p) /\ b \in (Siblings(w, p) \ {l}) \cup {Top}
        BY <3>3, <3>4 DEF Placeable
      <4>a. PutAt(w, v, l, p, b)
        BY <3>4, <4>1, <4>2, StoredIsMoved
      <4>b. f[n] = {v}
        BY <3>2, <3>4, <4>2 DEF ReparentedNext, Reparented
      <4> HIDE DEF v
      <4>3. f[n] = {v} /\ PutAt(w, v, l, p, b)
        BY <4>a, <4>b
      <4>4. /\ b # l /\ (p # Top => l \notin Ancestors(w, p))
        BY <3>3, <3>4 DEF Placeable
      <4>5. Exists(t, p)
        BY DEF Placeable
      <4>6. AllMoved(t, v, First(n - 1) \cup {l}, p)
        BY <3>1, <3>3, <3>b, <3>4, <4>3, <4>4, <4>5, OneMoreMoved
      <4> QED BY <4>3, <4>6, <3>b
    <3>5. CASE ~(l \in DOMAIN w /\ Placeable(w, l, p, b))
      BY <3>2, <3>5 DEF ReparentedNext, Failed
    <3> QED BY <3>4, <3>5
  <2> QED BY <2>2, <2>3
<1>5. Right(N)
  <2> DEFINE T == {n \in 1..N : ~Right(n)}
  <2> HIDE DEF Right
  <2> SUFFICES ASSUME T # {} PROVE FALSE
    <3>1. N \in 1..N
      OBVIOUS
    <3> QED BY <3>1
  <2>1. PICK n \in T : \A m \in T : n <= m
    <3>1. T \in SUBSET Nat
      <4>1. 1..N \subseteq Nat
        OBVIOUS
      <4> QED BY <4>1
    <3> HIDE DEF T
    <3> QED BY <3>1, LeastOf
  <2>2. n \in 1..N /\ n # 1
    BY <1>3
  <2>3. n - 1 \in 1..N /\ n - 1 \notin T
    BY <2>1, <2>2
  <2> QED BY <2>1, <2>2, <2>3, <1>4
<1> QED BY <1>5, <1>1, <1>a

(* What a commit does to the rows is what LayerTree says of the forest. *)
LEMMA CreateIsChange ==
  ASSUME NEW t, Table(t), Chained(t), NEW l \in Layers, l \notin DOMAIN t,
         NEW p \in Places, Exists(t, p), NEW w, NEW a, PutAt(t, w, l, p, a)
  PROVE  Tree!Change(KidsOf(t), KidsOf(w))
<1>1. Table(w) /\ Chained(w) /\ Tree!Unmoved(KidsOf(t), KidsOf(w), {l}) /\ l \in Siblings(w, p)
  BY DEF PutAt
<1>2. /\ Tree!Forest(KidsOf(w)) /\ Range(KidsOf(w)[p]) = Siblings(w, p)
      /\ Tree!Present(KidsOf(t)) = {Top} \cup DOMAIN t
  BY <1>1, KidsFacts
<1>3. l \in Tree!Range(KidsOf(w)[p])
  BY <1>1, <1>2 DEF Tree!Range, Range
<1>4. l \notin Tree!Present(KidsOf(t)) /\ p \in Tree!Present(KidsOf(t))
  BY <1>2, LayersAssumption DEF Exists
<1>5. Tree!Create(KidsOf(t), KidsOf(w), l, p)
  BY <1>1, <1>3, <1>4 DEF Tree!Create
<1> QED BY <1>2, <1>3, <1>5 DEF Tree!Change, Tree!Places, Places

LEMMA MoveIsChange ==
  ASSUME NEW t, Table(t), Chained(t), NEW p \in Places, Exists(t, p), NEW w,
         NEW L \in SUBSET DOMAIN t, L # {}, AllMoved(t, w, L, p)
  PROVE  Tree!Change(KidsOf(t), KidsOf(w))
<1>1. /\ Table(w) /\ Chained(w) /\ Tree!Unmoved(KidsOf(t), KidsOf(w), L)
      /\ L \subseteq Siblings(w, p) /\ Tree!Together(KidsOf(w)[p], L)
      /\ p # Top => L \cap Ancestors(t, p) = {}
  BY DEF AllMoved
<1>2. /\ Tree!Forest(KidsOf(w)) /\ Range(KidsOf(w)[p]) = Siblings(w, p)
      /\ Tree!Present(KidsOf(t)) = {Top} \cup DOMAIN t
  BY <1>1, KidsFacts
<1>3. L \subseteq Tree!Range(KidsOf(w)[p])
  BY <1>1, <1>2 DEF Tree!Range, Range
<1>4. p \in Tree!Present(KidsOf(t)) /\ L \subseteq Tree!Present(KidsOf(t))
  BY <1>2 DEF Exists
<1>5. p \notin Tree!Below(KidsOf(t), L)
  <2>1. Tree!Below(KidsOf(t), L) = {y \in DOMAIN t : \E x \in L : x \in Ancestors(t, y)}
    BY BelowIs
  <2>2. DOMAIN t \subseteq Layers
    BY DEF Table
  <2> QED BY <2>1, <2>2, <1>1, LayersAssumption
<1>6. Tree!Move(KidsOf(t), KidsOf(w), L, p)
  BY <1>1, <1>3, <1>4, <1>5 DEF Tree!Move
<1>7. p \in Tree!Places /\ L \in (SUBSET Tree!Range(KidsOf(w)[p])) \ {{}}
  BY <1>3 DEF Tree!Places, Places
<1>8. \E q \in Tree!Places : \E M \in (SUBSET Tree!Range(KidsOf(w)[q])) \ {{}} :
         Tree!Move(KidsOf(t), KidsOf(w), M, q)
  BY <1>6, <1>7
<1> QED BY <1>2, <1>8 DEF Tree!Change

(* delete_mission_layer's commit. *)
Taken(t, l) == [x \in DOMAIN t \ Subtree(t, l) |-> Unlinked(t, l, t[l])[x]]

LEMMA DeleteIsChange ==
  ASSUME NEW t, Table(t), Chained(t), NEW l \in DOMAIN t
  PROVE  /\ Table(Taken(t, l)) /\ Chained(Taken(t, l))
         /\ Tree!Change(KidsOf(t), KidsOf(Taken(t, l)))
<1> DEFINE u == Unlinked(t, l, t[l])
           gone == Subtree(t, l)
           n == Taken(t, l)
<1>1. /\ Loose(t, l, u) /\ DOMAIN u = DOMAIN t
      /\ \A x \in DOMAIN t : u[x].parent = t[x].parent /\ u[x] \in Row
  BY UnlinkedIsLoose
<1> HIDE DEF u
<1>2. /\ gone = {x \in DOMAIN t : l \in Ancestors(t, x)} /\ l \in gone
      /\ DOMAIN t \subseteq Layers
  BY AncestorsClosed DEF Subtree, Table
<1>3. /\ DOMAIN n = DOMAIN t \ gone
      /\ \A x \in DOMAIN t \ gone : n[x] = u[x]
      /\ n = [x \in DOMAIN n |-> n[x]]
  BY DEF Taken, u
<1> HIDE DEF n, gone
<1>4. ASSUME NEW x \in DOMAIN t \ gone PROVE t[x].parent \in Places \ gone /\ Exists(t, t[x].parent)
  <2>1. t[x].parent \in Places /\ Exists(t, t[x].parent)
    BY DEF Table, Row, Places
  <2>2. CASE t[x].parent = Top
    BY <2>1, <2>2, <1>2, LayersAssumption
  <2>3. CASE t[x].parent # Top
    <3>1. Ancestors(t, t[x].parent) \subseteq Ancestors(t, x)
      BY <2>3, AncestorsOfParent
    <3> QED BY <3>1, <2>1, <1>2
  <2> QED BY <2>2, <2>3
<1>5. Table(n)
  <2>1. \A x \in DOMAIN n : n[x] \in Row /\ Exists(n, n[x].parent)
    BY <1>1, <1>3, <1>4 DEF Exists
  <2> QED BY <2>1, <1>2, <1>3 DEF Table
<1>6. ASSUME NEW q \in Places, q \in gone PROVE Siblings(n, q) = {}
  BY <1>6, <1>1, <1>3, <1>4 DEF Siblings
<1>7. ASSUME NEW q \in Places \ gone
      PROVE  Siblings(n, q) = Siblings(t, q) \ {l} /\ Siblings(t, q) \ gone = Siblings(t, q) \ {l}
  <2>1. ASSUME NEW x \in Siblings(t, q), x # l PROVE x \notin gone
    <3>1. x \in DOMAIN t /\ t[x].parent = q
      BY DEF Siblings
    <3>2. CASE q = Top
      <4>1. Ancestors(t, x) = {x}
        BY <3>1, <3>2, AncestorsOfParent
      <4> QED BY <4>1, <2>1, <1>2
    <3>3. CASE q # Top
      <4>1. q \in DOMAIN t /\ Ancestors(t, x) = {x} \cup Ancestors(t, q)
        BY <3>1, <3>3, AncestorsOfParent
      <4> QED BY <4>1, <2>1, <1>2
    <3> QED BY <3>2, <3>3
  <2>2. Siblings(n, q) = Siblings(t, q) \ gone
    BY <1>1, <1>3 DEF Siblings
  <2> QED BY <2>1, <2>2, <1>2
<1>8. ASSUME NEW q \in Places \ gone
      PROVE  \E r : /\ Chain(n, Siblings(n, q), r)
                    /\ \A x, y \in Siblings(t, q) \ {l} :
                          Tree!Before(KidsOf(t)[q], x, y) => Tree!Before(r, x, y)
  <2>1. PICK r : /\ Chain(u, Siblings(t, q) \ {l}, r)
                 /\ \A x, y \in Siblings(t, q) \ {l} :
                       Tree!Before(KidsOf(t)[q], x, y) => Tree!Before(r, x, y)
    BY <1>1 DEF Loose
  <2>2. \A x \in Siblings(n, q) : n[x].after = u[x].after
    BY <1>3 DEF Siblings
  <2>3. Chain(n, Siblings(n, q), r)
    BY <2>1, <2>2, <1>7, ChainSame
  <2> QED BY <2>1, <2>3
<1>9. Chained(n)
  <2> SUFFICES ASSUME NEW q \in Places PROVE \E s : Chain(n, Siblings(n, q), s)
    BY DEF Chained
  <2>1. CASE q \in gone
    <3>1. Chain(n, {}, <<>>)
      <4>1. <<>> \in Seq(Layers) /\ Len(<<>>) = 0 /\ \A i \in 1..0 : FALSE
        OBVIOUS
      <4> QED BY <4>1 DEF Chain
    <3> QED BY <3>1, <2>1, <1>6
  <2>2. CASE q \notin gone
    BY <2>2, <1>8
  <2> QED BY <2>1, <2>2
<1>10. /\ \A q \in Places : Range(KidsOf(n)[q]) = Siblings(n, q)
       /\ Tree!Forest(KidsOf(n))
       /\ \A q \in Places : Range(KidsOf(t)[q]) = Siblings(t, q)
       /\ Tree!Present(KidsOf(t)) = {Top} \cup DOMAIN t
  BY <1>5, <1>9, KidsFacts
<1>11. Tree!Below(KidsOf(t), {l}) = gone
  <2>1. Tree!Below(KidsOf(t), {l}) = {y \in DOMAIN t : \E x \in {l} : x \in Ancestors(t, y)}
    BY BelowIs
  <2> QED BY <2>1, <1>2
<1> DEFINE k == [p \in Places |-> IF p \in gone THEN <<>> ELSE KidsOf(t)[p]]
<1>12. ASSUME NEW q \in Places
       PROVE  /\ Range(KidsOf(n)[q]) \ gone = Range(k[q]) \ gone
              /\ \A x, y \in Range(k[q]) \ gone :
                    Tree!Before(k[q], x, y) => Tree!Before(KidsOf(n)[q], x, y)
  <2>1. CASE q \in gone
    <3>1. Range(k[q]) = {}
      BY <2>1 DEF Range
    <3> QED BY <3>1, <2>1, <1>6, <1>10
  <2>2. CASE q \notin gone
    <3>1. k[q] = KidsOf(t)[q]
      BY <2>2
    <3> HIDE DEF k
    <3>2. PICK r : /\ Chain(n, Siblings(n, q), r)
                   /\ \A x, y \in Siblings(t, q) \ {l} :
                         Tree!Before(KidsOf(t)[q], x, y) => Tree!Before(r, x, y)
      BY <2>2, <1>8
    <3>3. KidsOf(n)[q] = r
      BY <3>2, <1>5, KidsAreChain
    <3>4. Siblings(n, q) = Siblings(t, q) \ {l} /\ Siblings(t, q) \ gone = Siblings(t, q) \ {l}
      BY <2>2, <1>7
    <3>5. Range(KidsOf(n)[q]) = Siblings(n, q) /\ Range(k[q]) = Siblings(t, q)
      BY <3>1, <1>10
    <3>6. Range(KidsOf(n)[q]) \ gone = Range(k[q]) \ gone
      BY <3>4, <3>5
    <3>7. \A x, y \in Range(k[q]) \ gone :
             Tree!Before(k[q], x, y) => Tree!Before(KidsOf(n)[q], x, y)
      BY <3>1, <3>2, <3>3, <3>4, <3>5
    <3> QED BY <3>6, <3>7
  <2> QED BY <2>1, <2>2
<1>13. Tree!Unmoved(k, KidsOf(n), gone)
  <2> HIDE DEF k
  <2> QED BY <1>12 DEF Tree!Unmoved, Tree!Places, Places, Tree!Range, Range
<1>14. \A q \in Places : Tree!Range(KidsOf(n)[q]) \cap gone = {}
  BY <1>10, <1>3 DEF Tree!Range, Range, Siblings
<1>15. Tree!Delete(KidsOf(t), KidsOf(n), l)
  <2>1. Tree!Places = Places
    BY DEF Tree!Places, Places
  <2> QED BY <2>1, <1>10, <1>11, <1>13, <1>14 DEF Tree!Delete
<1> QED BY <1>2, <1>5, <1>9, <1>10, <1>15 DEF Tree!Change, n

(* What a request has read is still so of the rows t. *)
Ready(t, e) ==
    \/ /\ e.op = "create"
       /\ e.l \in Layers \ DOMAIN t /\ e.parent \in Places /\ Exists(t, e.parent)
       /\ e.last \in BOOLEAN
       /\ e.last => e.after = LastSibling(t, e.parent, e.l)
       /\ ~e.last => e.after \in Siblings(t, e.parent)
    \/ /\ e.op = "move"
       /\ e.l \in DOMAIN t /\ e.old = t[e.l] /\ e.after \in Places
       /\ Placeable(t, e.l, e.old.parent, e.after)
    \/ /\ e.op = "reparent"
       /\ \E N \in Nat \ {0} : e.ls \in [1..N -> Layers]
       /\ e.ls[1] \in DOMAIN t /\ e.old = t[e.ls[1]]
       /\ e.parent \in Places /\ e.after \in Places /\ e.last \in BOOLEAN
       /\ Placeable(t, e.ls[1], e.parent, e.after)
    \/ e.op = "delete" /\ e.l \in DOMAIN t /\ e.old = t[e.l]

Follows(t, w) == Table(w) /\ Chained(w) /\ Tree!Change(KidsOf(t), KidsOf(w))

LEMMA FollowsItself ==
  ASSUME NEW t, Table(t), Chained(t)
  PROVE  Follows(t, t)
BY DEF Follows, Tree!Change

LEMMA NoRows ==
  ASSUME NEW t, t = [l \in {} |-> Top]
  PROVE  Table(t) /\ Chained(t) /\ KidsOf(t) = Tree!Empty
<1>1. DOMAIN t = {} /\ t \in [{} -> Row]
  OBVIOUS
<1>2. Table(t)
  BY <1>1 DEF Table
<1>3. ASSUME NEW p \in Places PROVE Chain(t, Siblings(t, p), <<>>)
  <2>1. Siblings(t, p) = {}
    BY <1>1 DEF Siblings
  <2>2. <<>> \in Seq(Layers) /\ Len(<<>>) = 0 /\ \A i \in 1..0 : FALSE
    OBVIOUS
  <2> QED BY <2>1, <2>2 DEF Chain
<1>4. \A p \in Places : KidsOf(t)[p] = <<>>
  BY <1>2, <1>3, KidsAreChain
<1>5. KidsOf(t) = [p \in Places |-> KidsOf(t)[p]]
  BY DEF KidsOf
<1>6. KidsOf(t) = [p \in Places |-> <<>>]
  BY <1>4, <1>5, Zenon
<1> QED BY <1>2, <1>3, <1>6 DEF Chained, Tree!Empty, Tree!Places, Places

LEMMA CreateFollows ==
  ASSUME NEW t, Table(t), Chained(t), NEW e, Ready(t, e), e.op = "create"
  PROVE  Follows(t, Added(t, e.l, e.parent, e.after, e.last))
<1> DEFINE w == Added(t, e.l, e.parent, e.after, e.last)
<1>1. /\ e.l \in Layers /\ e.l \notin DOMAIN t /\ e.parent \in Places /\ Exists(t, e.parent)
      /\ e.last \in BOOLEAN
      /\ e.last => e.after = LastSibling(t, e.parent, e.l)
      /\ ~e.last => e.after \in Siblings(t, e.parent)
  BY DEF Ready
<1>2. /\ Loose(t, e.l, t) /\ e.after \in (Siblings(t, e.parent) \ {e.l}) \cup {Top}
      /\ \A x \in DOMAIN t \ {e.l} : t[x].after \in Places
      /\ w = LinkedTo(t, t, e.l, e.parent, e.after)
  BY <1>1, AddedIsLinked
<1> HIDE DEF w
<1>3. PutAt(t, w, e.l, e.parent, e.after)
  BY <1>1, <1>2, LinkedIsChained
<1>4. Tree!Change(KidsOf(t), KidsOf(w))
  BY <1>1, <1>3, CreateIsChange
<1> QED BY <1>3, <1>4 DEF Follows, PutAt, w

LEMMA MoveFollows ==
  ASSUME NEW t, Table(t), Chained(t), NEW e, Ready(t, e), e.op = "move"
  PROVE  Follows(t, Stored(Parted(Unlinked(t, e.l, e.old), e.l, e.old.parent, e.after),
                           e.l, e.old, e.old.parent, e.after))
<1> DEFINE p == e.old.parent
           w == Stored(Parted(Unlinked(t, e.l, e.old), e.l, p, e.after), e.l, e.old, p, e.after)
<1>1. /\ e.l \in DOMAIN t /\ e.old = t[e.l] /\ e.after \in Places
      /\ Placeable(t, e.l, p, e.after)
  BY DEF Ready
<1>2. /\ p \in Places /\ Exists(t, p) /\ (p # Top => e.l \notin Ancestors(t, p))
      /\ e.after \in (Siblings(t, p) \ {e.l}) \cup {Top}
  BY <1>1, NotAfterItself DEF Placeable
<1>3. PutAt(t, w, e.l, p, e.after)
  <2> HIDE DEF p
  <2> QED BY <1>1, <1>2, StoredIsMoved
<1> HIDE DEF w, p
<1>4. AllMoved(t, w, {e.l}, p)
  BY <1>1, <1>2, <1>3, OneMoved
<1>5. {e.l} \in SUBSET DOMAIN t /\ {e.l} # {}
  BY <1>1
<1>6. Tree!Change(KidsOf(t), KidsOf(w))
  BY <1>2, <1>4, <1>5, MoveIsChange
<1> QED BY <1>3, <1>6 DEF Follows, PutAt, w, p

LEMMA ReparentFollows ==
  ASSUME NEW t, Table(t), Chained(t), NEW e, Ready(t, e), e.op = "reparent",
         NEW w \in ReparentedAll(t, e)
  PROVE  Follows(t, w)
<1>1. /\ e.ls[1] \in DOMAIN t /\ e.old = t[e.ls[1]]
      /\ e.parent \in Places /\ e.after \in Places /\ e.last \in BOOLEAN
      /\ Placeable(t, e.ls[1], e.parent, e.after)
  BY DEF Ready
<1>2. PICK N \in Nat \ {0} : e.ls \in [1..N -> Layers]
  BY DEF Ready
<1> DEFINE L == {e.ls[i] : i \in 1..N}
           p == e.parent
<1>3. \/ ReparentedAll(t, e) = {}
      \/ \E v : ReparentedAll(t, e) = {v} /\ AllMoved(t, v, L, p)
  <2>1. AsRead(t, e, N)
    BY <1>1, <1>2 DEF AsRead
  <2> QED BY <2>1, AllAreMoved
<1>4. AllMoved(t, w, L, p)
  <2> HIDE DEF L, p
  <2> QED BY <1>3
<1>5. Exists(t, p) /\ p \in Places
  BY <1>1 DEF Placeable
<1>6. L # {}
  <2>1. 1 \in 1..N
    OBVIOUS
  <2>2. e.ls[1] \in L
    BY <2>1
  <2> QED BY <2>2
<1> HIDE DEF L, p
<1>7. Table(w) /\ Chained(w) /\ L \in SUBSET DOMAIN t
  BY <1>4 DEF AllMoved, Siblings
<1>8. Tree!Change(KidsOf(t), KidsOf(w))
  BY <1>4, <1>5, <1>6, <1>7, MoveIsChange
<1> QED BY <1>7, <1>8 DEF Follows

(* The inductive invariant: what the one request under way has read still holds. *)
TableInv ==
    /\ Table(row) /\ Chained(row)
    /\ edit = [r \in Editors |-> edit[r]]
    /\ \A r \in Editors : edit[r] = NoEdit \/ Missing \/ Ready(row, edit[r])

LEMMA TableInvInit == Init => TableInv /\ layer_tree = Tree!Empty
<1> SUFFICES ASSUME Init PROVE TableInv /\ layer_tree = Tree!Empty
  OBVIOUS
<1>1. row = [l \in {} |-> Top] /\ edit = [r \in Editors |-> NoEdit]
  BY DEF Init, LayersInit
<1>2. Table(row) /\ Chained(row) /\ KidsOf(row) = Tree!Empty
  BY <1>1, NoRows
<1>3. layer_tree = KidsOf(row)
  BY DEF layer_tree, KidsOf, Places
<1> QED BY <1>1, <1>2, <1>3 DEF TableInv

LEMMA StartIsReady ==
  ASSUME TableInv, NEW r \in Editors, StartLayer(r)
  PROVE  UNCHANGED row /\ edit' = [edit EXCEPT ![r] = edit'[r]] /\ Ready(row, edit'[r])
<1>1. edit = [s \in Editors |-> edit[s]] /\ Table(row)
  BY DEF TableInv
<1>2. ASSUME NEW e, Starts(r, e)
      PROVE  UNCHANGED row /\ edit' = [edit EXCEPT ![r] = edit'[r]] /\ edit'[r] = e
  BY <1>1, <1>2 DEF Starts
<1>3. ASSUME NEW l \in Layers, NEW p \in Layers \cup {Top}, NEW a \in Layers \cup {Top},
             StartCreate(r, l, p, a)
      PROVE  UNCHANGED row /\ edit' = [edit EXCEPT ![r] = edit'[r]] /\ Ready(row, edit'[r])
  <2> DEFINE e == [op |-> "create", l |-> l, parent |-> p, last |-> a = Top,
                   after |-> IF a = Top THEN LastSibling(row, p, l) ELSE a]
  <2>1. Starts(r, e) /\ l \notin DOMAIN row /\ Placeable(row, Top, p, a)
    BY <1>3 DEF StartCreate
  <2>2. Exists(row, p) /\ (a # Top => a \in Siblings(row, p))
    BY <2>1 DEF Placeable
  <2>3. /\ e.op = "create" /\ e.l = l /\ e.parent = p /\ e.last = (a = Top)
        /\ e.after = IF a = Top THEN LastSibling(row, p, l) ELSE a
    OBVIOUS
  <2> HIDE DEF e
  <2>4. Ready(row, e)
    BY <2>1, <2>2, <2>3 DEF Ready, Places
  <2> QED BY <2>1, <2>4, <1>2
<1>4. ASSUME NEW l \in Layers, NEW a \in Layers \cup {Top}, StartMove(r, l, a)
      PROVE  UNCHANGED row /\ edit' = [edit EXCEPT ![r] = edit'[r]] /\ Ready(row, edit'[r])
  <2> DEFINE e == [op |-> "move", l |-> l, old |-> row[l], after |-> a]
  <2>1. Starts(r, e) /\ l \in DOMAIN row /\ Placeable(row, l, row[l].parent, a)
    BY <1>4 DEF StartMove
  <2>2. e.op = "move" /\ e.l = l /\ e.old = row[l] /\ e.after = a
    OBVIOUS
  <2> HIDE DEF e
  <2>3. Ready(row, e)
    BY <2>1, <2>2 DEF Ready, Places
  <2> QED BY <2>1, <2>3, <1>2
<1>5. ASSUME NEW ls \in Lists, NEW p \in Layers \cup {Top}, NEW a \in Layers \cup {Top},
             StartReparent(r, ls, p, a)
      PROVE  UNCHANGED row /\ edit' = [edit EXCEPT ![r] = edit'[r]] /\ Ready(row, edit'[r])
  <2> DEFINE e == [op |-> "reparent", ls |-> ls, old |-> row[ls[1]], parent |-> p, after |-> a,
                   last |-> a = Top]
  <2>1. Starts(r, e) /\ ls[1] \in DOMAIN row /\ Placeable(row, ls[1], p, a)
    BY <1>5 DEF StartReparent
  <2>2. \E N \in Nat \ {0} : ls \in [1..N -> Layers]
    <3>1. PICK N \in 1..MaxMoved : ls \in [1..N -> Layers]
      BY DEF Lists
    <3>2. N \in Nat \ {0}
      BY LayersAssumption
    <3> QED BY <3>1, <3>2
  <2>3. /\ e.op = "reparent" /\ e.ls = ls /\ e.old = row[ls[1]] /\ e.parent = p /\ e.after = a
        /\ e.last = (a = Top)
    OBVIOUS
  <2> HIDE DEF e
  <2>4. Ready(row, e)
    BY <2>1, <2>2, <2>3 DEF Ready, Places
  <2> QED BY <2>1, <2>4, <1>2
<1>6. ASSUME NEW l \in Layers, StartDelete(r, l)
      PROVE  UNCHANGED row /\ edit' = [edit EXCEPT ![r] = edit'[r]] /\ Ready(row, edit'[r])
  <2> DEFINE e == [op |-> "delete", l |-> l, old |-> row[l]]
  <2>1. Starts(r, e) /\ l \in DOMAIN row
    BY <1>6 DEF StartDelete
  <2>2. e.op = "delete" /\ e.l = l /\ e.old = row[l]
    OBVIOUS
  <2> HIDE DEF e
  <2>3. Ready(row, e)
    BY <2>1, <2>2 DEF Ready
  <2> QED BY <2>1, <2>3, <1>2
<1> QED BY <1>3, <1>4, <1>5, <1>6 DEF StartLayer

LEMMA EndFollows ==
  ASSUME Table(row), Chained(row), NEW r \in Editors, Ready(row, edit[r]), EndLayer(r)
  PROVE  edit' = [edit EXCEPT ![r] = NoEdit] /\ Follows(row, row')
<1> DEFINE e == edit[r]
<1>1. ASSUME NEW T, Ends(r, T), \A w \in T : Follows(row, w)
      PROVE  edit' = [edit EXCEPT ![r] = NoEdit] /\ Follows(row, row')
  <2>1. row' \in IF T = {} THEN {row} ELSE T
    BY <1>1 DEF Ends, Failed
  <2>2. Follows(row, row)
    BY FollowsItself
  <2>3. Follows(row, row')
    BY <2>1, <2>2, <1>1
  <2> QED BY <2>3, <1>1 DEF Ends
<1>2. ASSUME EndCreate(r)
      PROVE  edit' = [edit EXCEPT ![r] = NoEdit] /\ Follows(row, row')
  <2> DEFINE w == Added(row, e.l, e.parent, e.after, e.last)
  <2>1. e.op = "create" /\ e.l \notin DOMAIN row /\ Exists(row, e.parent)
    BY <1>2 DEF Ready, EndCreate
  <2>2. Ends(r, {w})
    BY <1>2, <2>1 DEF EndCreate, Added
  <2>3. Follows(row, w)
    BY <2>1, CreateFollows
  <2> HIDE DEF w
  <2> QED BY <2>2, <2>3, <1>1
<1>3. ASSUME EndMove(r)
      PROVE  edit' = [edit EXCEPT ![r] = NoEdit] /\ Follows(row, row')
  <2> DEFINE w == Stored(Parted(Unlinked(row, e.l, e.old), e.l, e.old.parent, e.after),
                         e.l, e.old, e.old.parent, e.after)
  <2>1. e.op = "move" /\ e.l \in DOMAIN row
    BY <1>3 DEF Ready, EndMove
  <2>2. Ends(r, {w})
    BY <1>3, <2>1 DEF EndMove
  <2>3. Follows(row, w)
    BY <2>1, MoveFollows
  <2> HIDE DEF w
  <2> QED BY <2>2, <2>3, <1>1
<1>4. ASSUME EndReparent(r)
      PROVE  edit' = [edit EXCEPT ![r] = NoEdit] /\ Follows(row, row')
  <2>1. e.op = "reparent" /\ Ends(r, ReparentedAll(row, e))
    BY <1>4 DEF EndReparent
  <2>2. \A w \in ReparentedAll(row, e) : Follows(row, w)
    BY <2>1, ReparentFollows
  <2> QED BY <2>1, <2>2, <1>1
<1>5. ASSUME EndDelete(r)
      PROVE  edit' = [edit EXCEPT ![r] = NoEdit] /\ Follows(row, row')
  <2>1. e.op = "delete" /\ e.l \in DOMAIN row /\ e.old = row[e.l]
    BY <1>5 DEF Ready, EndDelete
  <2>2. Ends(r, {Taken(row, e.l)})
    BY <1>5, <2>1 DEF EndDelete, Taken
  <2>3. Follows(row, Taken(row, e.l))
    BY <2>1, DeleteIsChange DEF Follows
  <2> QED BY <2>2, <2>3, <1>1
<1> QED BY <1>2, <1>3, <1>4, <1>5 DEF EndLayer

LEMMA TableStep ==
  ASSUME \A r, s \in Editors : r = s, TableInv, [Next]_vars
  PROVE  TableInv' /\ (Follows(row, row') \/ KidsOf(row') = Tree!Empty)
<1>0. /\ Table(row) /\ Chained(row) /\ edit = [r \in Editors |-> edit[r]]
      /\ \A r \in Editors : edit[r] = NoEdit \/ Missing \/ Ready(row, edit[r])
  BY DEF TableInv
<1>1. Follows(row, row)
  BY <1>0, FollowsItself
<1>2. ASSUME Table(row'), Chained(row'), edit' = [r \in Editors |-> edit'[r]],
             \A r \in Editors : edit'[r] = NoEdit \/ Missing' \/ Ready(row', edit'[r])
      PROVE  TableInv'
  BY <1>2 DEF TableInv
<1>3. ASSUME UNCHANGED layerVars, \A r \in Editors : edit[r] = NoEdit \/ Missing' \/ ~Missing
      PROVE  TableInv' /\ Follows(row, row')
  <2>1. row' = row /\ edit' = edit
    BY <1>3 DEF layerVars
  <2>2. \A r \in Editors : edit'[r] = NoEdit \/ Missing' \/ Ready(row', edit'[r])
    BY <2>1, <1>0, <1>3
  <2> QED BY <2>1, <2>2, <1>0, <1>1, <1>2
<1>4. ASSUME NoLayers, mission' = "none"
      PROVE  TableInv' /\ KidsOf(row') = Tree!Empty
  <2>1. row' = [l \in {} |-> Top] /\ edit' = edit
    BY <1>4 DEF NoLayers
  <2>2. Table(row') /\ Chained(row') /\ KidsOf(row') = Tree!Empty
    BY <2>1, NoRows
  <2>3. Missing'
    BY <1>4 DEF Missing
  <2> QED BY <2>1, <2>2, <2>3, <1>0, <1>2
<1>5. CASE Access
  <2>1. UNCHANGED layerVars /\ (Missing /\ mission' # "none" => \A r \in Editors : edit[r] = NoEdit)
    BY <1>5 DEF Access, NoneOutlasts
  <2>2. \A r \in Editors : edit[r] = NoEdit \/ Missing' \/ ~Missing
    BY <2>1 DEF Missing
  <2> QED BY <2>1, <2>2, <1>3
<1>6. CASE WebDelete
  <2>1. NoLayers /\ mission' = "none"
    BY <1>6 DEF WebDelete, WebDeleteMission, Gone
  <2> QED BY <2>1, <1>4
<1>7. ASSUME NEW d \in Devices, ClientDelete(d)
      PROVE  TableInv' /\ (Follows(row, row') \/ KidsOf(row') = Tree!Empty)
  <2>1. CASE mission' = "none"
    <3>1. NoLayers
      BY <1>7, <2>1 DEF ClientDelete
    <3> QED BY <2>1, <3>1, <1>4
  <2>2. CASE mission' # "none"
    <3>1. UNCHANGED layerVars /\ ~Missing
      BY <1>7, <2>2 DEF ClientDelete, DeleteMission
    <3> QED BY <3>1, <1>3
  <2> QED BY <2>1, <2>2
<1>8. CASE Content
  <2>1. UNCHANGED layerVars /\ mission' = mission
    BY <1>8 DEF Content, accessVars
  <2>2. \A r \in Editors : edit[r] = NoEdit \/ Missing' \/ ~Missing
    BY <2>1 DEF Missing
  <2> QED BY <2>1, <2>2, <1>3
<1>9. ASSUME NEW r \in Editors, LayerStarts(r) PROVE TableInv' /\ Follows(row, row')
  <2>1. StartLayer(r) /\ mission' = mission
    BY <1>9 DEF LayerStarts, accessVars
  <2>2. row' = row /\ edit' = [edit EXCEPT ![r] = edit'[r]] /\ Ready(row, edit'[r])
    BY <2>1, StartIsReady
  <2>3. \A s \in Editors : s = r
    OBVIOUS
  <2>4. edit' = [s \in Editors |-> edit'[s]]
    BY <2>2, <1>0
  <2>5. \A s \in Editors : edit'[s] = NoEdit \/ Missing' \/ Ready(row', edit'[s])
    BY <2>2, <2>3
  <2> QED BY <2>2, <2>4, <2>5, <1>0, <1>1, <1>2
<1>10. ASSUME NEW r \in Editors, LayerEnds(r) PROVE TableInv' /\ Follows(row, row')
  <2>1. edit' = [edit EXCEPT ![r] = NoEdit] /\ Follows(row, row')
    <3>1. CASE Missing
      <4>1. Ends(r, Failed)
        BY <1>10, <3>1 DEF LayerEnds
      <4>2. edit' = [edit EXCEPT ![r] = NoEdit] /\ row' = row
        BY <4>1 DEF Ends, Failed
      <4> QED BY <4>2, <1>1
    <3>2. CASE ~Missing
      <4>1. EndLayer(r)
        BY <1>10, <3>2 DEF LayerEnds
      <4>2. edit[r] # NoEdit
        BY <4>1 DEF EndLayer, EndCreate, EndMove, EndReparent, EndDelete, NoEdit
      <4>3. Ready(row, edit[r])
        BY <4>2, <3>2, <1>0
      <4> QED BY <4>1, <4>3, <1>0, EndFollows
    <3> QED BY <3>1, <3>2
  <2>2. \A s \in Editors : s = r
    OBVIOUS
  <2>3. edit' = [s \in Editors |-> edit'[s]] /\ \A s \in Editors : edit'[s] = NoEdit
    BY <2>1, <2>2, <1>0
  <2>4. Table(row') /\ Chained(row')
    BY <2>1 DEF Follows
  <2> QED BY <2>1, <2>3, <2>4, <1>2
<1>11. CASE UNCHANGED vars
  <2>1. UNCHANGED layerVars /\ mission' = mission
    BY <1>11 DEF vars, layerVars
  <2>2. \A r \in Editors : edit[r] = NoEdit \/ Missing' \/ ~Missing
    BY <2>1 DEF Missing
  <2> QED BY <2>1, <2>2, <1>3
<1> QED BY <1>5, <1>6, <1>7, <1>8, <1>9, <1>10, <1>11 DEF Next

(* The folders of a mission are an ordered forest, and a request does to it just
   what it is asked to (create_mission_layer, move_mission_layer,
   reparent_mission_layers, delete_mission_layer, and the deletion of the mission),
   where requests on the folders come one at a time: the rows' chains of `after`
   implement LayerTree. *)
THEOREM LayersAreATree ==
  ASSUME \A r, s \in Editors : r = s
  PROVE  Spec => IsALayerTree
<1>1. Init => TableInv /\ Tree!Init
  BY TableInvInit DEF Tree!Init
<1>2. TableInv /\ [Next]_vars => TableInv'
  BY TableStep
<1>3. TableInv /\ [Next]_vars => [Tree!Next]_layer_tree
  <2> SUFFICES ASSUME TableInv, [Next]_vars PROVE Tree!Next
    OBVIOUS
  <2>1. Follows(row, row') \/ KidsOf(row') = Tree!Empty
    BY TableStep
  <2>2. layer_tree = KidsOf(row) /\ layer_tree' = KidsOf(row')
    BY DEF layer_tree, KidsOf, Places, Exists, Ordered, Siblings
  <2>3. Tree!Change(KidsOf(row), KidsOf(row'))
    BY <2>1 DEF Follows, Tree!Change
  <2> QED BY <2>2, <2>3 DEF Tree!Next
<1> QED BY <1>1, <1>2, <1>3, PTL DEF Spec, IsALayerTree, Tree!Spec
=============================================================================
