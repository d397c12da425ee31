------------------------- MODULE AdministrationProofs -------------------------
(* Proofs about what administrators see to: accounts with their tokens and
   connections (AccountDevices), the link to tak.gov, the scheduled jobs, the
   certificates, and the device profiles; for any number of accounts, requests,
   devices, jobs and profiles. *)
EXTENDS AccountDevices, TakGovLink, Scheduler, CertificateIssuance, DeviceProfiles,
        FiniteSetTheorems, WellFoundedInduction, TLAPS

-----------------------------------------------------------------------------
(* Accounts. *)

(* AccountDevices: accounts, requests, token rows, enrollments and connections keep
   the shape TypeOK describes; flags and temporary passwords are those of accounts
   that exist, and so are the owners of devices. *)
THEOREM AccountTyping == Spec => []TypeOK
<1>1. Init => TypeOK
  BY NameAssumption, AccountBoundAssumption, DeviceBoundAssumption
  DEF Init, AccountInit, TypeOK, AccountTypeOK, Requests, Idle, Roles,
      TokenRows, Enrollments, NoRow, NoEnrollment, Offline, JWTs
<1>2. TypeOK /\ [Next]_vars => TypeOK'
  <2> SUFFICES ASSUME TypeOK, [Next]_vars PROVE TypeOK'
    OBVIOUS
  <2> USE NameAssumption, AccountBoundAssumption, DeviceBoundAssumption
  <2> DEFINE DevicesOK ==
        /\ row \in [TokenIds -> TokenRows \cup {NoRow}]
        /\ issued \subseteq JWTs
        /\ enroll \in [Phones -> Enrollments]
        /\ accepted \subseteq JWTs \X Nat
        /\ conn \in [Devices -> [stage : {"none", "checked"} \cup Reachable,
                                 user : Names \cup {"none"}, gen : Nat]]
        /\ kick \subseteq Devices
        /\ unheard \subseteq Devices
        OwnersOK == owner \in [Devices -> exists \cup {"none"}]
  <2>0. ASSUME NEW w \in Workers, request[w].step # "idle"
        PROVE  request[w] \in [step : {"checked", "set", "kick"}, op : Ops, on : Names,
                               roles : SUBSET Roles, gen : Nat]
    <3>1. request[w] \in Requests /\ request[w] # Idle
      BY <2>0 DEF TypeOK, AccountTypeOK, Idle
    <3> QED BY <3>1 DEF Requests
  <2>a. ASSUME NEW w \in Workers, Answer(w) PROVE request' \in [Workers -> Requests]
    BY <2>a DEF TypeOK, AccountTypeOK, Answer, Requests
  <2>b. ASSUME NEW w \in Workers, request[w].step # "idle", NEW x \in {"set", "kick"},
               NEW g \in Nat
        PROVE  [request[w] EXCEPT !.step = x, !.gen = g] \in Requests
    <3>1. ASSUME NEW q \in [step : {"checked", "set", "kick"}, op : Ops, on : Names,
                            roles : SUBSET Roles, gen : Nat]
          PROVE  [q EXCEPT !.step = x, !.gen = g] \in Requests
      BY DEF Requests
    <3> QED BY <2>0, <2>b, <3>1
  <2>1. CASE AccountStep /\ UNCHANGED deviceVars
    <3>0. DevicesOK' /\ owner' = owner
      BY <2>1 DEF TypeOK, deviceVars, tokenVars, connVars
    <3>1. AccountTypeOK' /\ exists \subseteq exists'
      <4>1. ASSUME NEW w \in Workers, NEW op \in Ops, NEW by \in Names, NEW n \in Names,
                   NEW R \in SUBSET Roles, Start(w, op, by, n, R)
            PROVE  AccountTypeOK' /\ exists \subseteq exists'
        BY <4>1 DEF TypeOK, AccountTypeOK, Start, Requests, accountVars, flagVars
      <4>2. ASSUME NEW w \in Workers, Serve(w)
            PROVE  AccountTypeOK' /\ exists \subseteq exists'
        <5>1. CASE NoSuchAccount(w)
          BY <5>1, <2>a DEF TypeOK, AccountTypeOK, NoSuchAccount, accountVars, flagVars
        <5>2. CASE Create(w)
          BY <5>2, <2>0, <2>a DEF TypeOK, AccountTypeOK, Create, Due
        <5>3. CASE Reset(w)
          <6>1. request' \in [Workers -> Requests]
            <7> DEFINE q == [request[w] EXCEPT !.step = "set", !.gen = gen[request[w].on]]
            <7>1. request[w].step = "checked" /\ gen[request[w].on] \in Nat
              BY <5>3 DEF TypeOK, AccountTypeOK, Reset, Due
            <7>2. q \in Requests
              BY <7>1, <2>b
            <7>3. request' = [request EXCEPT ![w] = q] \/ Answer(w)
              BY <5>3 DEF Reset
            <7> HIDE DEF q
            <7> QED BY <7>2, <7>3, <2>a DEF TypeOK, AccountTypeOK
          <6> QED BY <5>3, <6>1 DEF TypeOK, AccountTypeOK, Reset
        <5>4. CASE ResetFlag(w)
          BY <5>4, <2>a DEF TypeOK, AccountTypeOK, ResetFlag
        <5>5. CASE ForceChange(w)
          BY <5>5, <2>a DEF TypeOK, AccountTypeOK, ForceChange
        <5>6. CASE Deactivate(w)
          <6>1. request' \in [Workers -> Requests]
            <7> DEFINE q == [request[w] EXCEPT !.step = "kick", !.gen = gen[request[w].on]]
            <7>1. request[w].step = "checked" /\ gen[request[w].on] \in Nat
              BY <5>6 DEF TypeOK, AccountTypeOK, Deactivate, Due
            <7>2. q \in Requests
              BY <7>1, <2>b
            <7>3. request' = [request EXCEPT ![w] = q] \/ Answer(w)
              BY <5>6 DEF Deactivate
            <7> HIDE DEF q
            <7> QED BY <7>2, <7>3, <2>a DEF TypeOK, AccountTypeOK
          <6> QED BY <5>6, <6>1 DEF TypeOK, AccountTypeOK, Deactivate, flagVars
        <5>7. CASE Activate(w)
          BY <5>7, <2>0, <2>a DEF TypeOK, AccountTypeOK, Activate, Due, flagVars
        <5>8. CASE SetRole(w)
          BY <5>8, <2>0, <2>a DEF TypeOK, AccountTypeOK, SetRole, Due, flagVars, Leftovers
        <5> QED BY <4>2, <5>1, <5>2, <5>3, <5>4, <5>5, <5>6, <5>7, <5>8 DEF Serve
      <4>3. ASSUME NEW n \in Names, OwnPassword(n)
            PROVE  AccountTypeOK' /\ exists \subseteq exists'
        BY <4>3 DEF TypeOK, AccountTypeOK, OwnPassword, requestVars
      <4> QED BY <2>1, <4>1, <4>2, <4>3 DEF AccountStep
    <3>2. OwnersOK'
      BY <3>0, <3>1 DEF TypeOK
    <3> QED BY <3>0, <3>1, <3>2 DEF TypeOK
  <2>2. ASSUME NEW w \in Workers, DeleteUser(w) PROVE TypeOK'
    <3>1. AccountTypeOK' /\ exists' = exists \ {request[w].on} /\ request[w].on \in Names
      BY <2>2, <2>0, <2>a DEF TypeOK, AccountTypeOK, DeleteUser, Delete, Due
    <3>2. row' \in [TokenIds -> TokenRows \cup {NoRow}]
      <4>1. ASSUME NEW x \in TokenRows PROVE [x EXCEPT !.owner = "null"] \in TokenRows
        BY DEF TokenRows
      <4>2. ASSUME NEW t \in TokenIds, row[t].owner = request[w].on
            PROVE  row[t] \in TokenRows
        BY <3>1, <4>2 DEF TypeOK, NoRow
      <4> QED BY <2>2, <4>1, <4>2 DEF TypeOK, DeleteUser
    <3>3. DevicesOK'
      BY <2>2, <3>2 DEF TypeOK, DeleteUser, connVars
    <3>4. OwnersOK'
      BY <2>2, <3>1 DEF TypeOK, DeleteUser
    <3> QED BY <3>1, <3>3, <3>4 DEF TypeOK
  <2>3. ASSUME NEW w \in Workers, Kick(w) \/ KickFails(w) PROVE TypeOK'
    BY <2>3, <2>a DEF TypeOK, AccountTypeOK, Kick, KickFails, accountVars, flagVars,
       tokenVars
  <2>4. ASSUME TokenStep PROVE TypeOK'
    <3>1. AccountTypeOK' /\ exists' = exists /\ UNCHANGED connVars
      BY <2>4 DEF TypeOK, AccountTypeOK, TokenStep, NewToken, DeleteToken, VerifyToken,
         VerifyPassword, Use, Sign, adminVars, accountVars, flagVars, requestVars
    <3>2. ASSUME NEW by \in Names, NEW n \in Names, NEW t \in TokenIds, NEW off \in BOOLEAN,
                 NewToken(by, n, t, off)
          PROVE  DevicesOK' /\ owner' = owner
      <4>1. gen[n] \in Nat /\ row[t].version \in 0..(MaxVersions - 1) /\ row[t].uses \in Nat
        BY <3>2 DEF TypeOK, AccountTypeOK, NewToken, TokenRows, NoRow
      <4>3. row' \in [TokenIds -> TokenRows \cup {NoRow}]
        BY <3>2, <4>1 DEF TypeOK, NewToken, TokenRows
      <4>4. issued' \subseteq JWTs
        BY <3>2, <4>1 DEF TypeOK, NewToken, JWTs
      <4> QED BY <3>2, <4>3, <4>4 DEF TypeOK, NewToken, connVars
    <3>3. ASSUME NEW by \in Names, NEW t \in TokenIds, DeleteToken(by, t)
          PROVE  DevicesOK' /\ owner' = owner
      BY <3>3 DEF TypeOK, DeleteToken, connVars
    <3>4. ASSUME NEW e \in Phones, NEW d \in Devices, NEW j \in issued, VerifyToken(e, j, d)
          PROVE  DevicesOK' /\ owner' = owner
      <4>1. j \in JWTs /\ gen[j.sub] \in Nat /\ row[j.id].uses \in Nat
        BY DEF TypeOK, AccountTypeOK, JWTs, TokenRows, NoRow
      <4>2. [step |-> "use", for |-> j.sub, dev |-> d, id |-> j.id, seen |-> row[j.id].uses]
              \in Enrollments
        BY <4>1 DEF Enrollments, JWTs
      <4> QED BY <3>4, <4>1, <4>2 DEF TypeOK, VerifyToken, connVars
    <3>5. ASSUME NEW e \in Phones, NEW d \in Devices, NEW n \in Names, VerifyPassword(e, n, d)
          PROVE  DevicesOK' /\ owner' = owner
      BY <3>5 DEF TypeOK, VerifyPassword, Enrollments, connVars
    <3>6. ASSUME NEW e \in Phones, Use(e) PROVE DevicesOK' /\ owner' = owner
      <4>1. enroll[e] \in [step : {"use"}, for : Names, dev : Devices, id : TokenIds, seen : Nat]
        BY <3>6 DEF TypeOK, Use, Enrollments, NoEnrollment
      <4>2. [step |-> "sign", for |-> enroll[e].for, dev |-> enroll[e].dev] \in Enrollments
        BY <4>1 DEF Enrollments
      <4>3. NoEnrollment \in Enrollments
        BY DEF Enrollments
      <4> DEFINE t == enroll[e].id
      <4>4. CASE row[t] = NoRow
        BY <3>6, <4>3, <4>4 DEF TypeOK, Use, connVars
      <4>5. CASE row[t] # NoRow
        <5>1. row' = [row EXCEPT ![t].uses = enroll[e].seen + 1]
          BY <3>6, <4>5 DEF Use
        <5>2. row[t] \in TokenRows
          BY <4>1, <4>5 DEF TypeOK
        <5>3. row' \in [TokenIds -> TokenRows \cup {NoRow}]
          BY <4>1, <5>1, <5>2 DEF TypeOK, TokenRows
        <5> QED BY <3>6, <4>2, <4>5, <5>3 DEF TypeOK, Use, connVars
      <4> QED BY <4>4, <4>5
    <3>7. ASSUME NEW e \in Phones, Sign(e) PROVE DevicesOK' /\ OwnersOK'
      <4>1. DevicesOK'
        BY <3>7 DEF TypeOK, Sign, Enrollments, connVars
      <4>2. OwnersOK'
        BY <3>7, <3>1 DEF TypeOK, Sign
      <4> QED BY <4>1, <4>2
    <3>8. DevicesOK' /\ OwnersOK'
      <4>1. owner' = owner => OwnersOK'
        BY <3>1 DEF TypeOK
      <4> QED BY <2>4, <3>2, <3>3, <3>4, <3>5, <3>6, <3>7, <4>1 DEF TokenStep
    <3> QED BY <3>1, <3>8 DEF TypeOK
  <2>5. ASSUME NEW d \in Devices,
               \/ \E by, n \in Names : AssignDevice(by, n, d)
               \/ \E n \in Names : Connect(d, n)
               \/ Bind(d) \/ Save(d) \/ Kicked(d) \/ Disconnect(d)
        PROVE  TypeOK'
    <3>1. AccountTypeOK' /\ exists' = exists /\ UNCHANGED tokenVars
      BY <2>5 DEF TypeOK, AccountTypeOK, AssignDevice, Connect, Bind, Save, Kicked, Disconnect,
         adminVars, accountVars, flagVars, requestVars
    <3>2. DevicesOK'
      BY <2>5, <3>1 DEF TypeOK, AccountTypeOK, AssignDevice, Connect, Bind, Save, Kicked,
         Disconnect, SetStage, Offline, Reachable, tokenVars, connVars
    <3>3. OwnersOK'
      BY <2>5, <3>1 DEF TypeOK, AssignDevice, Connect, Bind, Save, Kicked, Disconnect
    <3> QED BY <3>1, <3>2, <3>3 DEF TypeOK
  <2>6. CASE UNCHANGED vars
    BY <2>6 DEF TypeOK, AccountTypeOK, vars, adminVars, accountVars, flagVars, requestVars,
       deviceVars, tokenVars, connVars
  <2> QED BY <2>1, <2>2, <2>3, <2>4, <2>5, <2>6 DEF Next, DeviceStep
<1> QED BY <1>1, <1>2, PTL DEF Spec

(* What serves tokens and devices leaves the accounts and the requests alone, and
   what serves accounts, but for a deletion and a kick, the tokens and devices. *)
LEMMA ServingDevices == TokenStep \/ DeviceStep => UNCHANGED adminVars
<1>1. TokenStep => UNCHANGED adminVars
  BY DEF TokenStep, NewToken, DeleteToken, VerifyToken, VerifyPassword, Use, Sign
<1>2. DeviceStep => UNCHANGED adminVars
  BY DEF DeviceStep, AssignDevice, Connect, Bind, Save, Kicked, Disconnect
<1> QED BY <1>1, <1>2

(* A request that is under way is about an account of a name. *)
LEMMA RequestsAreAboutNames ==
    ASSUME TypeOK, NEW w \in Workers, request[w].step # "idle"
    PROVE  request[w] \in [step : {"checked", "set", "kick"}, op : Ops, on : Names,
                           roles : SUBSET Roles, gen : Nat]
<1>1. request[w] \in Requests /\ request[w] # Idle
  BY DEF TypeOK, AccountTypeOK, Idle
<1> QED BY <1>1 DEF Requests

(* What a request that goes on to a second step is, and what the others are. *)
LEMMA SecondStep ==
    ASSUME TypeOK, NEW w \in Workers, request[w].step # "idle", NEW s, NEW g,
           request' = [request EXCEPT ![w] = [@ EXCEPT !.step = s, !.gen = g]]
    PROVE  /\ \A x \in Workers : request'[x].op = request[x].op /\ request'[x].on = request[x].on
           /\ \A x \in Workers \ {w} : request'[x] = request[x]
           /\ request'[w].step = s /\ request'[w].gen = g
<1>1. request[w] \in [step : {"checked", "set", "kick"}, op : Ops, on : Names,
                      roles : SUBSET Roles, gen : Nat]
  BY RequestsAreAboutNames
<1> QED BY <1>1 DEF TypeOK, AccountTypeOK

(* No request that deletes, deactivates or changes the role is about a protected
   account: they are refused to others, and to the account itself. *)
ProtectedAreSpared ==
    \A w \in Workers : request[w].op \in SelfRefused => request[w].on \notin Protected

(* RAVEN_PROTECTED_USERNAMES: in every order of the requests, a protected founder
   stays an active administrator. *)
THEOREM ProtectedAdministratorStays == Spec => []AdministratorStays
<1> DEFINE Inv == ProtectedAreSpared /\ AdministratorStays
<1>1. Init => Inv
  BY NameAssumption
  DEF Init, AccountInit, ProtectedAreSpared, AdministratorStays, Idle, SelfRefused
<1>2. TypeOK /\ Inv /\ [Next]_vars => Inv'
  <2> SUFFICES ASSUME TypeOK, Inv, [Next]_vars PROVE Inv'
    OBVIOUS
  <2>0. ASSUME NEW w \in Workers, Answer(w) PROVE ProtectedAreSpared'
    BY <2>0 DEF ProtectedAreSpared, TypeOK, AccountTypeOK, Answer, Idle, SelfRefused
  <2>1. ASSUME NEW w \in Workers, NEW op \in Ops, NEW by \in Names, NEW n \in Names,
               NEW R \in SUBSET Roles, Start(w, op, by, n, R)
        PROVE  Inv'
    BY <2>1 DEF Start, ProtectedAreSpared, AdministratorStays, TypeOK, AccountTypeOK,
       SelfRefused, Shielded, accountVars, flagVars
  <2>2. ASSUME NEW w \in Workers, Serve(w) PROVE Inv'
    <3>1. CASE NoSuchAccount(w)
      BY <3>1, <2>0 DEF NoSuchAccount, AdministratorStays, accountVars
    <3>2. CASE Create(w)
      BY <3>2, <2>0 DEF Create, AdministratorStays, TypeOK, AccountTypeOK
    <3>3. CASE Reset(w)
      <4>1. AdministratorStays'
        BY <3>3 DEF Reset, AdministratorStays
      <4>2. ProtectedAreSpared'
        <5> DEFINE g == gen[request[w].on]
        <5>1. CASE request' = [request EXCEPT ![w] = [@ EXCEPT !.step = "set", !.gen = g]]
          <6> HIDE DEF g
          <6>1. \A x \in Workers : request'[x].op = request[x].op /\ request'[x].on = request[x].on
            BY <3>3, <5>1, SecondStep DEF Reset, Due
          <6> QED BY <6>1 DEF ProtectedAreSpared
        <5> QED BY <3>3, <5>1, <2>0 DEF Reset
      <4> QED BY <4>1, <4>2
    <3>4. CASE ResetFlag(w)
      BY <3>4, <2>0 DEF ResetFlag, AdministratorStays
    <3>5. CASE ForceChange(w)
      BY <3>5, <2>0 DEF ForceChange, AdministratorStays
    <3>6. CASE Deactivate(w)
      <4>1. AdministratorStays'
        BY <3>6 DEF Deactivate, Due, AdministratorStays, ProtectedAreSpared, SelfRefused
      <4>2. ProtectedAreSpared'
        <5> DEFINE g == gen[request[w].on]
        <5>1. CASE request' = [request EXCEPT ![w] = [@ EXCEPT !.step = "kick", !.gen = g]]
          <6> HIDE DEF g
          <6>1. \A x \in Workers : request'[x].op = request[x].op /\ request'[x].on = request[x].on
            BY <3>6, <5>1, SecondStep DEF Deactivate, Due
          <6> QED BY <6>1 DEF ProtectedAreSpared
        <5> QED BY <3>6, <5>1, <2>0 DEF Deactivate
      <4> QED BY <4>1, <4>2
    <3>7. CASE Activate(w)
      BY <3>7, <2>0 DEF Activate, AdministratorStays
    <3>8. CASE SetRole(w)
      <4>1. AdministratorStays'
        BY <3>8 DEF SetRole, Due, AdministratorStays, ProtectedAreSpared, SelfRefused,
           TypeOK, AccountTypeOK
      <4> QED BY <3>8, <4>1, <2>0 DEF SetRole
    <3> QED BY <2>2, <3>1, <3>2, <3>3, <3>4, <3>5, <3>6, <3>7, <3>8 DEF Serve
  <2>3. ASSUME NEW n \in Names, OwnPassword(n) PROVE Inv'
    BY <2>3 DEF OwnPassword, ProtectedAreSpared, AdministratorStays, requestVars
  <2>4. ASSUME NEW w \in Workers, DeleteUser(w) PROVE Inv'
    BY <2>4, <2>0 DEF DeleteUser, Delete, Due, AdministratorStays, ProtectedAreSpared, SelfRefused
  <2>5. ASSUME NEW w \in Workers, Kick(w) \/ KickFails(w) PROVE Inv'
    BY <2>5, <2>0 DEF Kick, KickFails, AdministratorStays, accountVars
  <2>6. CASE UNCHANGED adminVars
    BY <2>6 DEF adminVars, accountVars, requestVars, AdministratorStays, ProtectedAreSpared
  <2> QED BY <2>1, <2>2, <2>3, <2>4, <2>5, <2>6, ServingDevices DEF Next, AccountStep, vars
<1>3. Inv => AdministratorStays
  OBVIOUS
<1> QED BY <1>1, <1>2, <1>3, AccountTyping, PTL DEF Spec

(* A temporary password without its flag is one whose reset has yet to set it. *)
FlagReturns ==
    \A n \in temp \ flagged : \E w \in Workers :
        request[w].step = "set" /\ request[w].on = n /\ request[w].gen = gen[n]

(* admin_reset_password: a temporary password has to be changed, whatever other
   requests about the account and its user do between the commits of a reset. *)
THEOREM TemporaryIsFlagged == Spec => []TempIsFlagged
<1>1. Init => FlagReturns
  BY DEF Init, AccountInit, FlagReturns
<1>2. TypeOK /\ FlagReturns /\ [Next]_vars => FlagReturns'
  <2> SUFFICES ASSUME TypeOK, FlagReturns, [Next]_vars PROVE FlagReturns'
    OBVIOUS
  <2>0. ASSUME NEW w \in Workers, Answer(w), request[w].step # "set",
               temp' \ flagged' \subseteq temp \ flagged,
               \A n \in temp' : gen'[n] = gen[n]
        PROVE  FlagReturns'
    BY <2>0 DEF FlagReturns, TypeOK, AccountTypeOK, Answer
  <2>1. ASSUME NEW w \in Workers, NEW op \in Ops, NEW by \in Names, NEW n \in Names,
               NEW R \in SUBSET Roles, Start(w, op, by, n, R)
        PROVE  FlagReturns'
    BY <2>1 DEF Start, FlagReturns, TypeOK, AccountTypeOK, accountVars, flagVars
  <2>2. ASSUME NEW w \in Workers, Serve(w) PROVE FlagReturns'
    <3> DEFINE a == request[w].on
    <3>1. CASE NoSuchAccount(w)
      BY <3>1, <2>0 DEF NoSuchAccount, accountVars, flagVars
    <3>2. CASE Create(w)
      <4>1. \A n \in temp' \ flagged' : n # a /\ gen'[n] = gen[n] /\ n \in temp \ flagged
        BY <3>2 DEF Create, TypeOK, AccountTypeOK
      <4> QED BY <3>2, <4>1 DEF Create, Due, Answer, FlagReturns, TypeOK, AccountTypeOK
    <3>3. CASE Reset(w)
      <4>1. temp' = temp \cup {a} /\ gen' = gen /\ request[w].step = "checked"
        BY <3>3 DEF Reset, Due
      <4>2. CASE a \in flagged
        <5> DEFINE g == gen[a]
        <5>1. /\ flagged' = flagged \ {a}
              /\ request' = [request EXCEPT ![w] = [@ EXCEPT !.step = "set", !.gen = g]]
          BY <3>3, <4>2 DEF Reset
        <5>2. /\ \A x \in Workers : request'[x].on = request[x].on
              /\ \A x \in Workers \ {w} : request'[x] = request[x]
              /\ request'[w].step = "set" /\ request'[w].gen = gen[a]
          <6> HIDE DEF g
          <6>1. /\ \A x \in Workers : request'[x].on = request[x].on
                /\ \A x \in Workers \ {w} : request'[x] = request[x]
                /\ request'[w].step = "set" /\ request'[w].gen = g
            BY <4>1, <5>1, SecondStep
          <6> QED BY <6>1 DEF g
        <5> QED BY <4>1, <5>1, <5>2 DEF FlagReturns
      <4>3. CASE a \notin flagged
        BY <3>3, <4>1, <4>3, <2>0 DEF Reset
      <4> QED BY <4>2, <4>3
    <3>4. CASE ResetFlag(w)
      <4>1. temp' = temp /\ gen' = gen /\ request[w].step = "set" /\ Answer(w)
        BY <3>4 DEF ResetFlag
      <4>2. flagged \subseteq flagged' /\ (a \in temp /\ request[w].gen = gen[a] => a \in flagged')
        BY <3>4 DEF ResetFlag, TypeOK, AccountTypeOK
      <4> QED BY <4>1, <4>2 DEF FlagReturns, Answer, TypeOK, AccountTypeOK
    <3>5. CASE ForceChange(w)
      BY <3>5, <2>0 DEF ForceChange, Due
    <3>6. CASE Deactivate(w)
      <4>1. temp' = temp /\ flagged' = flagged /\ gen' = gen /\ request[w].step = "checked"
        BY <3>6 DEF Deactivate, Due, flagVars
      <4>2. CASE Answer(w)
        BY <4>1, <4>2, <2>0
      <4>3. CASE ~Answer(w)
        <5> DEFINE g == gen[a]
        <5>1. request' = [request EXCEPT ![w] = [@ EXCEPT !.step = "kick", !.gen = g]]
          BY <3>6, <4>3 DEF Deactivate
        <5>2. \A x \in Workers \ {w} : request'[x] = request[x]
          <6> HIDE DEF g
          <6> QED BY <4>1, <5>1, SecondStep
        <5> QED BY <4>1, <5>2 DEF FlagReturns
      <4> QED BY <4>2, <4>3
    <3>7. CASE Activate(w)
      BY <3>7, <2>0 DEF Activate, Due, flagVars
    <3>8. CASE SetRole(w)
      BY <3>8, <2>0 DEF SetRole, Due, flagVars
    <3> QED BY <2>2, <3>1, <3>2, <3>3, <3>4, <3>5, <3>6, <3>7, <3>8 DEF Serve
  <2>3. ASSUME NEW n \in Names, OwnPassword(n) PROVE FlagReturns'
    BY <2>3 DEF OwnPassword, FlagReturns, requestVars
  <2>4. ASSUME NEW w \in Workers, DeleteUser(w) PROVE FlagReturns'
    BY <2>4, <2>0 DEF DeleteUser, Delete, Due
  <2>5. ASSUME NEW w \in Workers, Kick(w) \/ KickFails(w) PROVE FlagReturns'
    BY <2>5, <2>0 DEF Kick, KickFails, accountVars, flagVars
  <2>6. CASE UNCHANGED adminVars
    BY <2>6 DEF adminVars, accountVars, flagVars, requestVars, FlagReturns
  <2> QED BY <2>1, <2>2, <2>3, <2>4, <2>5, <2>6, ServingDevices DEF Next, AccountStep, vars
<1>3. FlagReturns => TempIsFlagged
  BY DEF FlagReturns, TempIsFlagged
<1> QED BY <1>1, <1>2, <1>3, AccountTyping, PTL DEF Spec

(* No request but a deletion takes a name's account away, and only the making of a new
   one changes which account it is. *)
LEMMA AccountsStay ==
    ASSUME TypeOK, AccountStep
    PROVE  exists \subseteq exists' /\ \A n \in exists : gen'[n] = gen[n]
<1>1. ASSUME NEW w \in Workers, Create(w)
      PROVE  exists \subseteq exists' /\ \A n \in exists : gen'[n] = gen[n]
  BY <1>1 DEF Create, TypeOK, AccountTypeOK
<1>2. ASSUME NEW w \in Workers, Serve(w), ~Create(w)
      PROVE  UNCHANGED <<exists, gen>>
  BY <1>2 DEF Serve, NoSuchAccount, Reset, ResetFlag, ForceChange, Deactivate, Activate, SetRole,
     accountVars
<1>3. ASSUME NEW w \in Workers, NEW op \in Ops, NEW by \in Names, NEW n \in Names,
             NEW R \in SUBSET Roles, Start(w, op, by, n, R)
      PROVE  UNCHANGED <<exists, gen>>
  BY <1>3 DEF Start, accountVars
<1>4. ASSUME NEW n \in Names, OwnPassword(n) PROVE UNCHANGED <<exists, gen>>
  BY <1>4 DEF OwnPassword
<1> QED BY <1>1, <1>2, <1>3, <1>4 DEF AccountStep

(* A token that a row still vouches for is one of the account that has the name now:
   deleting the account nulls the row's owner, and generating again outdates what was
   issued before. *)
VouchedTokens ==
    /\ \A j \in issued : row[j.id] # NoRow => j.version <= row[j.id].version
    /\ \A j \in issued : RowOf(j) /\ row[j.id].owner = j.sub => j.sub \in exists /\ j.gen = gen[j.sub]
    /\ TokenServesItsAccount

(* verify_token: in every order of enrollments, deletions and new accounts, a token is
   only accepted for the account it was issued for. *)
THEOREM TokensServeTheirAccount == Spec => []TokenServesItsAccount
<1>1. Init => VouchedTokens
  BY DEF Init, VouchedTokens, TokenServesItsAccount
<1>2. TypeOK /\ TypeOK' /\ VouchedTokens /\ [Next]_vars => VouchedTokens'
  <2> SUFFICES ASSUME TypeOK, TypeOK', VouchedTokens, [Next]_vars PROVE VouchedTokens'
    OBVIOUS
  <2> USE NameAssumption, DeviceBoundAssumption
  <2>0. ASSUME NEW j \in issued
        PROVE  /\ j.id \in TokenIds /\ j.sub \in Names /\ j.version \in 1..MaxVersions
               /\ row[j.id] \in TokenRows \cup {NoRow}
               /\ row[j.id].version \in 0..MaxVersions
    BY DEF TypeOK, JWTs, TokenRows, NoRow
  <2>1. ASSUME row' = row, issued' = issued, accepted' = accepted,
               exists \subseteq exists', \A n \in exists : gen'[n] = gen[n]
        PROVE  VouchedTokens'
    BY <2>0, <2>1 DEF VouchedTokens, TokenServesItsAccount, RowOf, NoRow
  <2>2. CASE AccountStep /\ UNCHANGED deviceVars
    BY <2>1, <2>2, AccountsStay DEF deviceVars, tokenVars
  <2>3. ASSUME NEW w \in Workers, DeleteUser(w) PROVE VouchedTokens'
    <3> DEFINE a == request[w].on
    <3>1. /\ exists' = exists \ {a} /\ gen' = gen /\ a \in Names
          /\ issued' = issued /\ accepted' = accepted
      BY <2>3 DEF DeleteUser, Delete, TypeOK, AccountTypeOK
    <3>2. ASSUME NEW t \in TokenIds, row[t].owner = a
          PROVE  /\ row'[t].owner = "null" /\ row'[t].version = row[t].version
                 /\ row[t] # NoRow /\ row'[t] # NoRow
      <4>1. row[t] \in TokenRows
        BY <3>1, <3>2 DEF TypeOK, NoRow
      <4>2. row'[t] = [row[t] EXCEPT !.owner = "null"]
        BY <2>3, <3>2 DEF DeleteUser
      <4> QED BY <3>1, <3>2, <4>1, <4>2 DEF TokenRows, NoRow
    <3>3. ASSUME NEW t \in TokenIds, row[t].owner # a PROVE row'[t] = row[t]
      BY <2>3, <3>3 DEF DeleteUser
    <3> HIDE DEF a
    <3> QED BY <2>0, <3>1, <3>2, <3>3 DEF VouchedTokens, TokenServesItsAccount, RowOf
  <2>4. ASSUME NEW w \in Workers, Kick(w) \/ KickFails(w) PROVE VouchedTokens'
    BY <2>1, <2>4 DEF Kick, KickFails, accountVars, tokenVars
  <2>5. ASSUME NEW by \in Names, NEW n \in Names, NEW t \in TokenIds, NEW off \in BOOLEAN,
               NewToken(by, n, t, off)
        PROVE  VouchedTokens'
    <3> DEFINE j0 == [id |-> t, version |-> row[t].version + 1, sub |-> n, gen |-> gen[n]]
    <3>1. /\ row[t].version \in 0..MaxVersions /\ n \in exists
          /\ row'[t].version = row[t].version + 1 /\ row'[t].owner = n
          /\ \A x \in TokenIds \ {t} : row'[x] = row[x]
          /\ issued' = issued \cup {j0}
          /\ accepted' = accepted /\ exists' = exists /\ gen' = gen
      BY <2>5 DEF NewToken, TypeOK, TokenRows, NoRow, adminVars, accountVars
    <3>2. \A j \in issued : j.id = t => row[t] # NoRow
      BY <2>5 DEF NewToken, NoRow, TypeOK, TokenRows
    <3>3. ASSUME NEW j \in issued
          PROVE  /\ row'[j.id] # NoRow => j.version <= row'[j.id].version
                 /\ RowOf(j)' /\ row'[j.id].owner = j.sub => j.sub \in exists /\ j.gen = gen[j.sub]
      <4>1. CASE j.id = t
        BY <2>0, <3>1, <3>2, <4>1 DEF VouchedTokens, RowOf
      <4>2. CASE j.id # t
        BY <2>0, <3>1, <4>2 DEF VouchedTokens, RowOf
      <4> QED BY <4>1, <4>2
    <3>4. /\ j0.version <= row'[j0.id].version /\ j0.sub \in exists /\ j0.gen = gen[j0.sub]
      BY <3>1
    <3> HIDE DEF j0
    <3> QED BY <3>1, <3>3, <3>4 DEF VouchedTokens, TokenServesItsAccount
  <2>6. ASSUME NEW by \in Names, NEW t \in TokenIds, DeleteToken(by, t) PROVE VouchedTokens'
    <3>1. /\ row'[t] = NoRow /\ \A x \in TokenIds \ {t} : row'[x] = row[x]
          /\ issued' = issued /\ accepted' = accepted /\ exists' = exists /\ gen' = gen
      BY <2>6 DEF DeleteToken, TypeOK, adminVars, accountVars
    <3> QED BY <2>0, <3>1 DEF VouchedTokens, TokenServesItsAccount, RowOf
  <2>7. ASSUME NEW e \in Phones, NEW d \in Devices, NEW j \in issued, VerifyToken(e, j, d)
        PROVE  VouchedTokens'
    <3>1. /\ accepted' = accepted \cup {<<j, gen[j.sub]>>} /\ j.gen = gen[j.sub]
          /\ row' = row /\ issued' = issued /\ exists' = exists /\ gen' = gen
      BY <2>7 DEF VerifyToken, Accepts, VouchedTokens, adminVars, accountVars
    <3> QED BY <3>1 DEF VouchedTokens, TokenServesItsAccount, RowOf
  <2>8. ASSUME NEW e \in Phones, Use(e) PROVE VouchedTokens'
    <3> DEFINE t == enroll[e].id
    <3>1. enroll[e] \in [step : {"use"}, for : Names, dev : Devices, id : TokenIds, seen : Nat]
      BY <2>8 DEF TypeOK, Use, Enrollments, NoEnrollment
    <3>2. CASE row[t] = NoRow
      BY <2>1, <2>8, <3>2 DEF Use, adminVars, accountVars
    <3>3. CASE row[t] # NoRow
      <4>1. row' = [row EXCEPT ![t].uses = enroll[e].seen + 1] /\ row[t] \in TokenRows
        BY <2>8, <3>1, <3>3 DEF Use, TypeOK
      <4>2. \A x \in TokenIds : row'[x].owner = row[x].owner /\ row'[x].version = row[x].version
        BY <3>1, <4>1 DEF TypeOK, TokenRows
      <4>3. \A x \in TokenIds : row[x] # NoRow <=> row'[x] # NoRow
        <5>1. \A x \in TokenIds \ {t} : row'[x] = row[x]
          BY <3>1, <4>1 DEF TypeOK
        <5>2. row[t].owner # NoRow.owner
          BY <3>3, <4>1 DEF TokenRows, NoRow
        <5> QED BY <3>3, <4>2, <5>1, <5>2
      <4>4. issued' = issued /\ accepted' = accepted /\ exists' = exists /\ gen' = gen
        BY <2>8 DEF Use, adminVars, accountVars
      <4> QED BY <2>0, <4>2, <4>3, <4>4 DEF VouchedTokens, TokenServesItsAccount, RowOf
    <3> QED BY <3>2, <3>3
  <2>9. ASSUME NEW e \in Phones,
               Sign(e) \/ \E d \in Devices, n \in Names : VerifyPassword(e, n, d)
        PROVE  VouchedTokens'
    BY <2>1, <2>9 DEF Sign, VerifyPassword, adminVars, accountVars
  <2>10. CASE DeviceStep
    BY <2>1, <2>10 DEF DeviceStep, AssignDevice, Connect, Bind, Save, Kicked, Disconnect,
       adminVars, accountVars, tokenVars
  <2>11. CASE UNCHANGED vars
    BY <2>1, <2>11 DEF vars, adminVars, accountVars, deviceVars, tokenVars
  <2> QED BY <2>2, <2>3, <2>4, <2>5, <2>6, <2>7, <2>8, <2>9, <2>10, <2>11 DEF Next, TokenStep
<1>3. VouchedTokens => TokenServesItsAccount
  BY DEF VouchedTokens
<1> QED BY <1>1, <1>2, <1>3, AccountTyping, PTL DEF Spec

(* A connection of an account that is deactivated has its kick, or a kick that could
   not reach it went out, or the request that deactivated it has yet to kick. *)
KickDue(n) == \E w \in Workers :
    request[w].step = "kick" /\ request[w].on = n /\ request[w].gen = gen[n]
KickedOrDue ==
    \A d \in Devices :
        LET n == conn[d].user IN
        conn[d].stage # "none" /\ n \in exists \ active /\ gen[n] = conn[d].gen /\ ~KickDue(n)
        => d \in kick \cup unheard

(* deactivate_user: whatever connects, identifies itself, activates or deactivates
   meanwhile, a connection served for a deactivated account has its kick waiting,
   unless the kick could not reach it. *)
THEOREM KickWaits == Spec => []KickedWhenServed
<1>1. Init => KickedOrDue
  BY DEF Init, KickedOrDue, Offline
<1>2. TypeOK /\ KickedOrDue /\ [Next]_vars => KickedOrDue'
  <2> SUFFICES ASSUME TypeOK, KickedOrDue, [Next]_vars PROVE KickedOrDue'
    OBVIOUS
  <2>1. ASSUME UNCHANGED connVars, exists' \ active' \subseteq exists \ active,
               \A n \in exists' \ active' : gen'[n] = gen[n] /\ (KickDue(n) => KickDue(n)')
        PROVE  KickedOrDue'
    BY <2>1 DEF KickedOrDue, connVars
  <2>2. ASSUME NEW w \in Workers, request[w].step # "kick",
               \A x \in Workers \ {w} : request'[x] = request[x],
               NEW n, gen'[n] = gen[n], KickDue(n)
        PROVE  KickDue(n)'
    BY <2>2 DEF KickDue
  <2>3. ASSUME NEW w \in Workers, Answer(w)
        PROVE  \A x \in Workers \ {w} : request'[x] = request[x]
    BY <2>3 DEF Answer, TypeOK, AccountTypeOK
  <2>4. ASSUME NEW w \in Workers, NEW op \in Ops, NEW by \in Names, NEW n \in Names,
               NEW R \in SUBSET Roles, Start(w, op, by, n, R), UNCHANGED connVars
        PROVE  KickedOrDue'
    <3>1. /\ request[w].step # "kick" /\ \A x \in Workers \ {w} : request'[x] = request[x]
          /\ UNCHANGED <<exists, active, gen>>
      BY <2>4 DEF Start, TypeOK, AccountTypeOK, accountVars
    <3> QED BY <2>1, <2>2, <2>4, <3>1
  <2>5. ASSUME NEW w \in Workers, Serve(w), UNCHANGED connVars PROVE KickedOrDue'
    <3> DEFINE a == request[w].on
    <3>1. CASE Create(w)
      <4>1. /\ exists' \ active' \subseteq exists \ active
            /\ \A n \in exists' \ active' : gen'[n] = gen[n]
            /\ request[w].step # "kick" /\ Answer(w)
        BY <3>1 DEF Create, Due, TypeOK, AccountTypeOK
      <4> QED BY <2>1, <2>2, <2>3, <2>5, <4>1
    <3>2. CASE Reset(w)
      <4>1. /\ UNCHANGED <<exists, active, gen>> /\ request[w].step = "checked"
        BY <3>2 DEF Reset, Due
      <4> DEFINE g == gen[a]
      <4>2. Answer(w) \/ request' = [request EXCEPT ![w] = [@ EXCEPT !.step = "set", !.gen = g]]
        BY <3>2 DEF Reset
      <4>3. \A x \in Workers \ {w} : request'[x] = request[x]
        <5> HIDE DEF g
        <5>1. CASE request' = [request EXCEPT ![w] = [@ EXCEPT !.step = "set", !.gen = g]]
          BY <4>1, <5>1, SecondStep
        <5> QED BY <2>3, <4>2, <5>1
      <4> QED BY <2>1, <2>2, <2>5, <4>1, <4>3
    <3>3. CASE Deactivate(w)
      <4>1. /\ UNCHANGED <<exists, gen>> /\ active' = active \ {a}
            /\ request[w].step = "checked" /\ a \in Names
        BY <3>3 DEF Deactivate, Due, TypeOK, AccountTypeOK
      <4>2. CASE a \notin active
        <5>1. Answer(w) /\ active' = active
          BY <3>3, <4>1, <4>2 DEF Deactivate
        <5> QED BY <2>1, <2>2, <2>3, <2>5, <4>1, <5>1
      <4>3. CASE a \in active
        <5> DEFINE g == gen[a]
        <5>1. request' = [request EXCEPT ![w] = [@ EXCEPT !.step = "kick", !.gen = g]]
          BY <3>3, <4>3 DEF Deactivate
        <5>2. /\ \A x \in Workers \ {w} : request'[x] = request[x]
              /\ request'[w].step = "kick" /\ request'[w].on = a /\ request'[w].gen = gen[a]
          <6> HIDE DEF g
          <6>1. /\ \A x \in Workers \ {w} : request'[x] = request[x]
                /\ request'[w].step = "kick" /\ request'[w].on = a /\ request'[w].gen = g
            BY <4>1, <5>1, SecondStep
          <6> QED BY <6>1 DEF g
        <5>3. \A n : n = a => KickDue(n)'
          BY <4>1, <5>2 DEF KickDue
        <5>4. \A n \in exists : KickDue(n) => KickDue(n)'
          BY <2>2, <4>1, <5>2
        <5>5. ASSUME NEW d \in Devices, NEW n \in exists \ active', n = conn[d].user,
                     conn[d].stage # "none", gen[n] = conn[d].gen, ~KickDue(n)'
              PROVE  d \in kick \cup unheard
          <6>1. n # a
            BY <5>3, <5>5
          <6>2. n \in exists \ active /\ ~KickDue(n)
            BY <4>1, <5>4, <5>5, <6>1
          <6> QED BY <5>5, <6>2 DEF KickedOrDue
        <5> HIDE DEF a
        <5> QED BY <2>5, <4>1, <5>5 DEF KickedOrDue, connVars
      <4> QED BY <4>2, <4>3
    <3>4. CASE NoSuchAccount(w) \/ ResetFlag(w) \/ ForceChange(w) \/ Activate(w) \/ SetRole(w)
      <4>1. /\ exists' = exists /\ gen' = gen /\ active \subseteq active'
            /\ request[w].step # "kick" /\ Answer(w)
        BY <3>4 DEF NoSuchAccount, ResetFlag, ForceChange, Activate, SetRole, Due, accountVars
      <4> QED BY <2>1, <2>2, <2>3, <2>5, <4>1
    <3> QED BY <2>5, <3>1, <3>2, <3>3, <3>4 DEF Serve
  <2>6. ASSUME NEW n \in Names, OwnPassword(n), UNCHANGED connVars PROVE KickedOrDue'
    BY <2>1, <2>6 DEF OwnPassword, KickDue, requestVars
  <2>7. ASSUME NEW w \in Workers, DeleteUser(w) PROVE KickedOrDue'
    <3>1. /\ exists' \subseteq exists /\ UNCHANGED <<active, gen>> /\ UNCHANGED connVars
          /\ request[w].step # "kick" /\ Answer(w)
      BY <2>7 DEF DeleteUser, Delete, Due
    <3> QED BY <2>1, <2>2, <2>3, <3>1
  <2>8. ASSUME NEW w \in Workers, Kick(w) \/ KickFails(w) PROVE KickedOrDue'
    <3> DEFINE a == request[w].on
    <3>1. /\ UNCHANGED <<exists, active, gen, conn>>
          /\ kick \subseteq kick' /\ unheard \subseteq unheard'
          /\ \A d \in Devices : OfAccount(d, a, request[w].gen) => d \in kick' \cup unheard'
          /\ Answer(w)
      BY <2>8 DEF Kick, KickFails, accountVars
    <3>2. ASSUME NEW n, KickDue(n), ~KickDue(n)' PROVE n = a /\ request[w].gen = gen[n]
      BY <2>3, <3>1, <3>2 DEF KickDue
    <3> QED BY <3>1, <3>2 DEF KickedOrDue, OfAccount
  <2>9. CASE TokenStep
    BY <2>1, <2>9, ServingDevices DEF TokenStep, NewToken, DeleteToken, VerifyToken, VerifyPassword,
       Use, Sign, adminVars, accountVars, requestVars, KickDue
  <2>10. ASSUME NEW d \in Devices,
                \/ \E by, n \in Names : AssignDevice(by, n, d)
                \/ \E n \in Names : Connect(d, n)
                \/ Bind(d) \/ Save(d) \/ Kicked(d) \/ Disconnect(d)
         PROVE  KickedOrDue'
    <3>1. /\ UNCHANGED <<exists, active, gen>> /\ \A n : KickDue(n)' <=> KickDue(n)
      BY <2>10, ServingDevices DEF DeviceStep, adminVars, accountVars, requestVars, KickDue
    <3>2. CASE \E by, n \in Names : AssignDevice(by, n, d)
      BY <2>1, <3>1, <3>2 DEF AssignDevice
    <3>3. ASSUME NEW n \in Names, Connect(d, n) PROVE KickedOrDue'
      <4>1. /\ conn'[d].user = n /\ n \in active /\ UNCHANGED <<kick, unheard>>
            /\ \A x \in Devices \ {d} : conn'[x] = conn[x]
        BY <3>3 DEF Connect, TypeOK
      <4> QED BY <3>1, <4>1 DEF KickedOrDue
    <3>4. CASE Bind(d) \/ Save(d)
      <4>1. /\ conn[d].stage # "none" /\ UNCHANGED <<kick, unheard>>
            /\ conn'[d].user = conn[d].user /\ conn'[d].gen = conn[d].gen
            /\ \A x \in Devices \ {d} : conn'[x] = conn[x]
        BY <3>4 DEF Bind, Save, SetStage, TypeOK
      <4> QED BY <3>1, <4>1 DEF KickedOrDue
    <3>5. CASE Kicked(d) \/ Disconnect(d)
      <4>1. /\ conn'[d].stage = "none" /\ kick \ {d} \subseteq kick' /\ unheard \ {d} \subseteq unheard'
            /\ \A x \in Devices \ {d} : conn'[x] = conn[x]
        BY <3>5 DEF Kicked, Disconnect, Offline, TypeOK
      <4> QED BY <3>1, <4>1 DEF KickedOrDue
    <3> QED BY <2>10, <3>2, <3>3, <3>4, <3>5
  <2>11. CASE UNCHANGED vars
    BY <2>1, <2>11 DEF vars, adminVars, accountVars, requestVars, deviceVars, KickDue
  <2> QED BY <2>4, <2>5, <2>6, <2>7, <2>8, <2>9, <2>10, <2>11
          DEF Next, AccountStep, DeviceStep, deviceVars
<1>3. KickedOrDue => KickedWhenServed
  BY DEF KickedOrDue, KickedWhenServed, KickDue
<1> QED BY <1>1, <1>2, <1>3, AccountTyping, PTL DEF Spec

-----------------------------------------------------------------------------
(* The link to tak.gov. *)

Tokens == (Sessions \X Nat) \cup {NoToken}
LinkTypeOK ==
    /\ session \in [Sessions -> Int]
    /\ config \in [linked : BOOLEAN, token : Tokens]
    /\ saved \in [linked : BOOLEAN, token : Tokens]
    /\ lock \in Callers \cup {NoCaller}
    /\ call \in [Callers -> [op : {"none", "wait", "link", "posted", "answered"},
                             token : Tokens, reply : Tokens]]
    /\ presented \subseteq Sessions \X Nat

(* A token tak.gov would take, and one that may be sent. *)
Taken(t) == t[1] \in Sessions /\ session[t[1]] = t[2] /\ t \notin presented
Sendable(t) == t = NoToken \/ t \in excused \/ Taken(t)

(* One request at a time is at tak.gov with a token. *)
AtTakGov(r) == call[r].op \in {"posted", "answered"}
LockHeld == \A r \in Callers : AtTakGov(r) <=> lock = r

(* What tak.gov was shown is used up. *)
UsedUp == \A t \in presented :
    /\ session[t[1]] # Unused
    /\ session[t[1]] = Ended \/ t[2] < session[t[1]]

(* A first token on its way is of a session nothing else is of. *)
FirstTokens ==
    \A r \in Callers : call[r].op = "link" =>
        LET t == call[r].reply IN
        /\ t[1] \in Sessions /\ t[2] = 0 /\ session[t[1]] = 0 /\ t \notin presented
        /\ t[1] \notin {config.token[1], saved.token[1]}
        /\ \A q \in Callers \ {r} :
              /\ call[q].op = "link" => call[q].reply[1] # t[1]
              /\ AtTakGov(q) => call[q].token[1] # t[1]

Begun(t) == t = NoToken \/ session[t[1]] # Unused
AllBegun ==
    /\ Begun(config.token) /\ Begun(saved.token)
    /\ \A r \in Callers : AtTakGov(r) => Begun(call[r].token)

(* The answer tak.gov gave is the next token, or the token was not good. *)
Answers ==
    \A r \in Callers :
        /\ call[r].op = "posted" => Sendable(call[r].token)
        /\ call[r].op = "answered" =>
              IF call[r].reply = NoToken THEN call[r].token = NoToken \/ call[r].token \in excused
              ELSE Taken(call[r].reply) /\ call[r].reply[1] = call[r].token[1]
        /\ AtTakGov(r) =>
              call[r].token = config.token \/ call[r].token[1] # config.token[1]

(* The token of the configuration may be sent, or is about to be replaced. *)
ConfigSendable ==
    /\ \/ Sendable(config.token)
       \/ \E r \in Callers : /\ call[r].op = "answered" /\ call[r].reply # NoToken
                             /\ call[r].token = config.token
    /\ saved = config \/ saved.token \in excused

LinkInv ==
    /\ LinkTypeOK /\ LockHeld /\ UsedUp /\ FirstTokens /\ AllBegun /\ Answers
    /\ ConfigSendable /\ PresentedOnce

LEMMA LinkStart == LinkInit => LinkInv
BY LinkAssumption
DEF LinkInit, LinkInv, LinkTypeOK, LockHeld, UsedUp, FirstTokens, AllBegun, Answers,
    ConfigSendable, PresentedOnce, AtTakGov, Begun, Sendable, Resting, Unlinked, Tokens,
    NoToken, Token, NoCaller, Unused

LEMMA LinkTypes == LinkTypeOK /\ [LinkNext]_linkVars => LinkTypeOK'
<1> SUFFICES ASSUME LinkTypeOK, [LinkNext]_linkVars PROVE LinkTypeOK'
  OBVIOUS
<1> USE LinkAssumption DEF LinkTypeOK
<1>0. NoToken \in Tokens /\ \A s \in Sessions, n \in Nat : Token(s, n) \in Tokens
  BY DEF Tokens, Token
<1>1. Resting \in [op : {"none", "wait", "link", "posted", "answered"}, token : Tokens, reply : Tokens]
  BY <1>0 DEF Resting
<1>2. ASSUME NEW r \in Callers, GetInitialToken(r) PROVE LinkTypeOK'
  BY <1>0, <1>2 DEF GetInitialToken, Goes, History
<1>3. ASSUME NEW r \in Callers, Linked(r) PROVE LinkTypeOK'
  <2> DEFINE c == [linked |-> TRUE, token |-> call[r].reply]
  <2>1. c \in [linked : BOOLEAN, token : Tokens]
    OBVIOUS
  <2>2. config' = c /\ saved' \in {c, saved}
    BY <1>3 DEF Linked, SaveSetting
  <2> HIDE DEF c
  <2> QED BY <1>1, <1>3, <2>1, <2>2 DEF Linked, Goes
<1>4. ASSUME NEW r \in Callers, GetNewToken(r) \/ GetPlugins(r) PROVE LinkTypeOK'
  BY <1>0, <1>4 DEF GetNewToken, GetPlugins, Goes, History, Resting
<1>5. ASSUME NEW r \in Callers, UseCached(r) PROVE LinkTypeOK'
  BY <1>1, <1>5 DEF UseCached, Goes, History
<1>6. ASSUME NEW r \in Callers, Post(r) PROVE LinkTypeOK'
  BY <1>0, <1>6 DEF Post, Goes, History
<1>7. ASSUME NEW r \in Callers, TakGovAnswers(r) PROVE LinkTypeOK'
  <2> DEFINE t == call[r].token
  <2>1. t \in Tokens
    OBVIOUS
  <2>2. t # NoToken => t[1] \in Sessions /\ t[2] \in Nat /\ t \in Sessions \X Nat
    BY <2>1 DEF Tokens
  <2>3. session' \in [Sessions -> Int]
    BY <1>7, <2>2 DEF TakGovAnswers, Ended
  <2>4. presented' \subseteq Sessions \X Nat
    BY <1>7, <2>2 DEF TakGovAnswers
  <2>5. t # NoToken => Token(t[1], t[2] + 1) \in Tokens
    BY <1>0, <2>2
  <2>6. \E reply \in Tokens : Goes(r, [op |-> "answered", token |-> t, reply |-> reply])
    BY <1>0, <1>7, <2>5 DEF TakGovAnswers
  <2> HIDE DEF t
  <2> QED BY <1>7, <2>1, <2>3, <2>4, <2>6 DEF TakGovAnswers, Goes
<1>8. ASSUME NEW r \in Callers, Renewed(r) PROVE LinkTypeOK'
  BY <1>1, <1>8 DEF Renewed, SaveSetting, Goes
<1>9. ASSUME NEW r \in Callers, AnswerLost(r) PROVE LinkTypeOK'
  BY <1>1, <1>9 DEF AnswerLost, Goes
<1>10. CASE Unlink
  <2>1. Unlinked \in [linked : BOOLEAN, token : Tokens]
    BY <1>0 DEF Unlinked
  <2>2. config' = Unlinked /\ saved' \in {Unlinked, saved}
    BY <1>10 DEF Unlink, SaveSetting
  <2> QED BY <1>10, <2>1, <2>2 DEF Unlink
<1>11. CASE Expire
  BY <1>11 DEF Expire, History
<1>12. CASE WebRestarts
  BY <1>1, <1>12 DEF WebRestarts
<1>13. CASE UNCHANGED linkVars
  BY <1>13 DEF linkVars
<1> QED BY <1>2, <1>3, <1>4, <1>5, <1>6, <1>7, <1>8, <1>9, <1>10, <1>11, <1>12, <1>13 DEF LinkNext

(* Each step keeps LinkInv. *)
LEMMA LinkSteps == LinkInv /\ [LinkNext]_linkVars => LinkInv'
<1> SUFFICES ASSUME LinkInv, [LinkNext]_linkVars PROVE LinkInv'
  OBVIOUS
<1>0. LinkTypeOK /\ LinkTypeOK'
  BY LinkTypes DEF LinkInv
<1> USE LinkAssumption
<1>a. \A r \in Callers : r # NoCaller
  BY DEF NoCaller
(* A request that was not at tak.gov, nor linking, and still is not. *)
<1>1. ASSUME session' = session, config' = config, saved' = saved, lock' = lock,
             presented' = presented, twice' = twice, excused' = excused,
             \A x \in Callers :
                \/ call'[x] = call[x]
                \/ call[x].op \in {"none", "wait"} /\ call'[x].op \in {"none", "wait"}
      PROVE  LinkInv'
  BY <1>0, <1>1
  DEF LinkInv, LockHeld, UsedUp, FirstTokens, AllBegun, Answers, ConfigSendable,
       PresentedOnce, AtTakGov, Begun, Sendable, Taken
<1>2. ASSUME NEW r \in Callers, GetInitialToken(r) PROVE LinkInv'
  <2>1. PICK s \in Sessions :
            /\ session[s] = Unused
            /\ session' = [session EXCEPT ![s] = 0]
            /\ Goes(r, [op |-> "link", token |-> NoToken, reply |-> Token(s, 0)])
    BY <1>2 DEF GetInitialToken
  <2>2. /\ UNCHANGED <<config, saved, lock, presented, twice, excused>>
        /\ call[r].op = "none"
        /\ call'[r].op = "link" /\ call'[r].reply = <<s, 0>>
        /\ \A x \in Callers \ {r} : call'[x] = call[x]
        /\ session'[s] = 0 /\ \A x \in Sessions \ {s} : session'[x] = session[x]
    BY <1>0, <1>2, <2>1 DEF GetInitialToken, History, Goes, Resting, LinkTypeOK, Token
  <2>3. <<s, 0>> \notin presented /\ s # 0 /\ Unused # 0
    BY <2>1 DEF LinkInv, UsedUp, Unused, Sessions
  <2>4. /\ config.token \in Tokens /\ saved.token \in Tokens
        /\ \A x \in Callers : call[x].token \in Tokens
    BY <1>0 DEF LinkTypeOK
  <2>5. \A t \in Tokens : Begun(t) => t[1] # s
    BY <2>1, <2>3 DEF Begun, NoToken, Token
  <2>6. config.token[1] # s /\ saved.token[1] # s
        /\ \A x \in Callers : AtTakGov(x) => call[x].token[1] # s
    BY <2>4, <2>5 DEF LinkInv, AllBegun
  <2>7. LockHeld'
    BY <2>2, <1>a DEF LinkInv, LockHeld, AtTakGov
  <2>8. UsedUp' /\ PresentedOnce'
    BY <1>0, <2>1, <2>2 DEF LinkInv, UsedUp, PresentedOnce, LinkTypeOK
  <2>9. FirstTokens'
    <3>1. \A x \in Callers : call[x].op = "link" => call[x].reply[1] # s /\ call[x].reply[1] \in Sessions
      BY <2>1, <2>3 DEF LinkInv, FirstTokens
    <3> QED BY <2>2, <2>3, <2>6, <3>1 DEF LinkInv, FirstTokens, AtTakGov
  <2>10. AllBegun'
    BY <2>2, <2>3, <2>4, <2>6 DEF LinkInv, AllBegun, Begun, AtTakGov, Tokens, NoToken, Token
  <2>11. Answers'
    <3>1. \A x \in Callers : call[x].op = "answered" /\ call[x].reply # NoToken => call[x].reply[1] # s
      BY <2>6 DEF LinkInv, Answers, AtTakGov
    <3>2. \A t : Taken(t) /\ t[1] # s => Taken(t)'
      BY <2>2 DEF Taken
    <3>3. \A x \in Callers : call[x].op = "posted" => call[x].token[1] # s
      BY <2>6 DEF AtTakGov
    <3> QED BY <2>2, <2>4, <3>1, <3>2, <3>3 DEF LinkInv, Answers, Sendable, AtTakGov
  <2>12. ConfigSendable'
    BY <2>2, <2>6 DEF LinkInv, ConfigSendable, Sendable, Taken
  <2> QED BY <1>0, <2>7, <2>8, <2>9, <2>10, <2>11, <2>12 DEF LinkInv
<1>3. ASSUME NEW r \in Callers, Linked(r) PROVE LinkInv'
  <2> DEFINE t == call[r].reply
  <2>1. /\ UNCHANGED <<session, lock, presented, twice>>
        /\ call[r].op = "link" /\ call'[r] = Resting
        /\ \A x \in Callers \ {r} : call'[x] = call[x]
        /\ config'.token = t
        /\ excused \subseteq excused'
        /\ saved' = config' \/ (saved' = saved /\ saved.token \in excused')
    BY <1>0, <1>3 DEF Linked, SaveSetting, Goes, LinkTypeOK
  <2>2. /\ t[1] \in Sessions /\ t[2] = 0 /\ session[t[1]] = 0 /\ t \notin presented
        /\ \A x \in Callers \ {r} :
              /\ call[x].op = "link" => call[x].reply[1] # t[1]
              /\ AtTakGov(x) => call[x].token[1] # t[1]
    BY <2>1 DEF LinkInv, FirstTokens
  <2> HIDE DEF t
  <2>3. LockHeld' /\ UsedUp'
    BY <2>1, <1>a DEF LinkInv, LockHeld, UsedUp, AtTakGov, Resting
  <2>4. FirstTokens'
    BY <2>1, <2>2 DEF LinkInv, FirstTokens, AtTakGov, Resting
  <2>5. AllBegun'
    BY <2>1, <2>2 DEF LinkInv, AllBegun, Begun, AtTakGov, Resting, Unused
  <2>6. Answers'
    BY <2>1, <2>2 DEF LinkInv, Answers, Sendable, Taken, AtTakGov, Resting
  <2>7. ConfigSendable' /\ PresentedOnce'
    BY <2>1, <2>2 DEF LinkInv, ConfigSendable, Sendable, Taken, PresentedOnce
  <2> QED BY <1>0, <2>3, <2>4, <2>5, <2>6, <2>7 DEF LinkInv
<1>4. ASSUME NEW r \in Callers, GetNewToken(r) \/ GetPlugins(r) PROVE LinkInv'
  BY <1>0, <1>1, <1>4 DEF GetNewToken, GetPlugins, Goes, History, Resting, LinkTypeOK
<1>5. ASSUME NEW r \in Callers, UseCached(r) PROVE LinkInv'
  BY <1>0, <1>1, <1>5 DEF UseCached, Goes, History, Resting, LinkTypeOK
<1>6. ASSUME NEW r \in Callers, Post(r) PROVE LinkInv'
  <2>1. /\ UNCHANGED <<session, config, saved, presented, twice, excused>>
        /\ call[r].op = "wait" /\ lock = NoCaller /\ lock' = r
        /\ call'[r].op = "posted" /\ call'[r].token = config.token
        /\ \A x \in Callers \ {r} : call'[x] = call[x]
    BY <1>0, <1>6 DEF Post, Goes, History, LinkTypeOK
  <2>2. \A x \in Callers : ~AtTakGov(x)
    BY <1>a, <2>1 DEF LinkInv, LockHeld
  <2>3. Sendable(config.token)
    BY <2>2 DEF LinkInv, ConfigSendable, AtTakGov
  <2>4. LockHeld' /\ UsedUp' /\ PresentedOnce' /\ AllBegun'
    BY <2>1, <2>2, <1>a DEF LinkInv, LockHeld, UsedUp, PresentedOnce, AllBegun, AtTakGov, Begun
  <2>5. FirstTokens'
    BY <2>1, <2>2 DEF LinkInv, FirstTokens, AtTakGov
  <2>6. Answers' /\ ConfigSendable'
    BY <2>1, <2>2, <2>3 DEF LinkInv, Answers, ConfigSendable, Sendable, Taken, AtTakGov
  <2> QED BY <1>0, <2>4, <2>5, <2>6 DEF LinkInv
<1>7. ASSUME NEW r \in Callers, TakGovAnswers(r) PROVE LinkInv'
  <2> DEFINE t == call[r].token
             good == t # NoToken /\ session[t[1]] = t[2]
             reply == IF good THEN Token(t[1], t[2] + 1) ELSE NoToken
  <2>1. /\ UNCHANGED <<config, saved, lock, excused>>
        /\ call[r].op = "posted" /\ call'[r] = [op |-> "answered", token |-> t, reply |-> reply]
        /\ \A x \in Callers \ {r} : call'[x] = call[x]
        /\ session' = IF t = NoToken THEN session
                      ELSE [session EXCEPT ![t[1]] = IF good THEN t[2] + 1 ELSE Ended]
        /\ presented' = IF t = NoToken THEN presented ELSE presented \cup {t}
        /\ twice' = twice \cup (presented \cap {t})
    BY <1>0, <1>7 DEF TakGovAnswers, Goes, LinkTypeOK
  <2>2. /\ Sendable(t)
        /\ t = NoToken \/ (t[1] \in Sessions /\ t[2] \in Nat /\ t = <<t[1], t[2]>>)
        /\ t # NoToken => session[t[1]] # Unused
        /\ t = config.token \/ t[1] # config.token[1]
    BY <1>0, <2>1 DEF LinkInv, Answers, AllBegun, Begun, AtTakGov, LinkTypeOK, Tokens
  <2>3. NoToken = <<0, 0>> /\ 0 \notin Sessions /\ NoToken \notin presented
    BY <1>0 DEF NoToken, Token, Sessions, LinkTypeOK
  <2>4. \A x \in Callers \ {r} : ~AtTakGov(x)
    BY <2>1 DEF LinkInv, LockHeld, AtTakGov
  <2>5. /\ good => t[1] \in Sessions /\ session'[t[1]] = t[2] + 1 /\ reply = <<t[1], t[2] + 1>>
        /\ ~good => reply = NoToken /\ (t = NoToken \/ t \in excused)
        /\ t # NoToken /\ ~good => session'[t[1]] = Ended
        /\ \A s \in Sessions : t = NoToken \/ s # t[1] => session'[s] = session[s]
    BY <1>0, <2>1, <2>2 DEF Sendable, Taken, Token, LinkTypeOK
  <2>6. call'[r].op = "answered" /\ call'[r].token = t /\ call'[r].reply = reply
    BY <2>1
  <2> HIDE DEF t, good, reply
  <2>7. LockHeld'
    BY <2>1, <2>6 DEF LinkInv, LockHeld, AtTakGov
  <2>8. UsedUp'
    <3>1. ASSUME NEW u \in presented' PROVE session'[u[1]] # Unused /\ (session'[u[1]] = Ended \/ u[2] < session'[u[1]])
      <4>1. u[1] \in Sessions /\ u[2] \in Nat
        BY <1>0 DEF LinkTypeOK
      <4>2. u \in presented \/ (u = t /\ t # NoToken)
        BY <2>1
      <4>3. u \in presented => session[u[1]] # Unused /\ (session[u[1]] = Ended \/ u[2] < session[u[1]])
        BY DEF LinkInv, UsedUp
      <4>4. session[u[1]] \in Int /\ Ended # Unused
        BY <1>0, <4>1 DEF LinkTypeOK, Ended, Unused
      <4>5. good => session[t[1]] = t[2]
        BY DEF good
      <4> QED BY <2>2, <2>5, <4>1, <4>2, <4>3, <4>4, <4>5 DEF Ended, Unused
    <3> QED BY <3>1 DEF UsedUp
  <2>9. PresentedOnce'
    BY <2>1, <2>2, <2>3 DEF LinkInv, PresentedOnce, Sendable, Taken
  <2>10. FirstTokens'
    <3>1. ASSUME NEW x \in Callers, call[x].op = "link"
          PROVE  x # r /\ call[x].reply[1] # t[1] /\ call[x].reply # t
      BY <2>1, <3>1 DEF LinkInv, FirstTokens, AtTakGov, t
    <3> QED BY <2>1, <2>4, <2>5, <2>6, <3>1 DEF LinkInv, FirstTokens, AtTakGov
  <2>11. AllBegun'
    BY <1>0, <2>1, <2>2, <2>4, <2>5, <2>6 DEF LinkInv, AllBegun, AtTakGov, Begun, LinkTypeOK, Tokens,
       Ended, Unused
  <2>12. Answers'
    <3>1. good => reply \notin presented'
      <4>1. good => reply \notin presented /\ reply # t
        BY <1>0, <2>2, <2>5 DEF LinkInv, UsedUp, LinkTypeOK, Ended, good
      <4> QED BY <2>1, <4>1
    <3>2. IF reply = NoToken THEN t = NoToken \/ t \in excused
          ELSE /\ reply[1] \in Sessions /\ session'[reply[1]] = reply[2] /\ reply \notin presented'
               /\ reply[1] = t[1]
      BY <2>1, <2>3, <2>5, <2>6, <3>1
    <3> QED BY <2>1, <2>2, <2>4, <2>6, <3>2 DEF Answers, AtTakGov, Taken
  <2>13. ConfigSendable'
    <3>1. saved = config \/ saved.token \in excused
      BY DEF LinkInv, ConfigSendable
    <3>2. Sendable(config.token)
      BY <2>1, <2>4 DEF LinkInv, ConfigSendable, AtTakGov
    <3>3. CASE config.token = t
      <4>1. good => reply # NoToken
        BY <2>3, <2>5
      <4> QED BY <2>1, <2>5, <2>6, <3>1, <3>3, <4>1 DEF ConfigSendable, Sendable
    <3>4. CASE config.token # t
      BY <2>1, <2>2, <2>5, <3>1, <3>2, <3>4 DEF ConfigSendable, Sendable, Taken
    <3> QED BY <3>3, <3>4
  <2> QED BY <1>0, <2>7, <2>8, <2>9, <2>10, <2>11, <2>12, <2>13 DEF LinkInv
<1>8. ASSUME NEW r \in Callers, Renewed(r) PROVE LinkInv'
  <2> DEFINE t == call[r].reply
  <2>1. /\ UNCHANGED <<session, presented, twice>>
        /\ call[r].op = "answered" /\ call'[r] = Resting /\ lock' = NoCaller
        /\ \A x \in Callers \ {r} : call'[x] = call[x]
        /\ excused \subseteq excused'
        /\ IF t = NoToken THEN UNCHANGED <<config, saved, excused>>
           ELSE config'.token = t /\ (saved' = config' \/ (saved' = saved /\ saved.token \in excused'))
    BY <1>0, <1>8 DEF Renewed, SaveSetting, Goes, LinkTypeOK
  <2>2. \A x \in Callers \ {r} : ~AtTakGov(x)
    BY <2>1 DEF LinkInv, LockHeld, AtTakGov
  <2>3. \A x \in Callers : ~AtTakGov(x)'
    BY <2>1, <2>2 DEF AtTakGov, Resting
  <2>4. t # NoToken => Taken(t) /\ t[1] = call[r].token[1]
    BY <2>1 DEF LinkInv, Answers
  <2>5. t # NoToken => \A x \in Callers : call[x].op = "link" => x # r /\ call[x].reply[1] # t[1]
    BY <2>1, <2>4 DEF LinkInv, FirstTokens, AtTakGov
  <2>6. t = NoToken => Sendable(config.token)
    BY <2>1, <2>2 DEF LinkInv, ConfigSendable, AtTakGov
  <2>7. t # NoToken => session[t[1]] # Unused
    BY <1>0, <2>4 DEF Taken, LinkTypeOK, Tokens, Unused
  <2> HIDE DEF t
  <2>8. LockHeld' /\ UsedUp' /\ PresentedOnce'
    BY <1>a, <2>1, <2>3 DEF LinkInv, LockHeld, UsedUp, PresentedOnce
  <2>9. FirstTokens'
    BY <2>1, <2>3, <2>5 DEF LinkInv, FirstTokens, Resting
  <2>10. AllBegun' /\ Answers'
    BY <2>1, <2>3, <2>7 DEF LinkInv, AllBegun, Answers, AtTakGov, Begun
  <2>11. ConfigSendable'
    BY <2>1, <2>4, <2>6 DEF LinkInv, ConfigSendable, Sendable, Taken
  <2> QED BY <1>0, <2>8, <2>9, <2>10, <2>11 DEF LinkInv
<1>9. ASSUME NEW r \in Callers, AnswerLost(r) PROVE LinkInv'
  <2>1. /\ UNCHANGED <<session, config, saved, presented, twice>>
        /\ call'[r] = Resting /\ lock' = IF lock = r THEN NoCaller ELSE lock
        /\ \A x \in Callers \ {r} : call'[x] = call[x]
        /\ excused' = excused \cup {call[r].token}
    BY <1>0, <1>9 DEF AnswerLost, Goes, LinkTypeOK
  <2>2. LockHeld' /\ UsedUp' /\ PresentedOnce'
    BY <1>a, <2>1 DEF LinkInv, LockHeld, UsedUp, PresentedOnce, AtTakGov, Resting
  <2>3. FirstTokens' /\ AllBegun'
    BY <2>1 DEF LinkInv, FirstTokens, AllBegun, AtTakGov, Begun, Resting
  <2>4. Answers'
    BY <2>1 DEF LinkInv, Answers, Sendable, Taken, AtTakGov, Resting
  <2>5. ConfigSendable'
    BY <2>1 DEF LinkInv, ConfigSendable, Sendable, Taken
  <2> QED BY <1>0, <2>2, <2>3, <2>4, <2>5 DEF LinkInv
<1>10. CASE Unlink
  <2>1. /\ UNCHANGED <<session, lock, call, presented, twice>>
        /\ config'.token = NoToken /\ excused \subseteq excused'
        /\ saved' = config' \/ (saved' = saved /\ saved.token \in excused')
    BY <1>10 DEF Unlink, SaveSetting, Unlinked
  <2>2. \A x \in Callers : call[x].token = NoToken \/ call[x].token[1] \in Sessions
    BY <1>0 DEF LinkTypeOK, Tokens
  <2>3. NoToken[1] \notin Sessions
    BY DEF NoToken, Token, Sessions
  <2>4. LockHeld' /\ UsedUp' /\ PresentedOnce' /\ AllBegun'
    BY <2>1 DEF LinkInv, LockHeld, UsedUp, PresentedOnce, AllBegun, AtTakGov, Begun
  <2>5. FirstTokens'
    BY <2>1, <2>3 DEF LinkInv, FirstTokens, AtTakGov
  <2>6. Answers' /\ ConfigSendable'
    BY <2>1, <2>2, <2>3 DEF LinkInv, Answers, ConfigSendable, Sendable, Taken, AtTakGov
  <2> QED BY <1>0, <2>4, <2>5, <2>6 DEF LinkInv
<1>11. CASE Expire
  BY <1>1, <1>11 DEF Expire, History
<1>12. CASE WebRestarts
  <2>1. /\ UNCHANGED <<session, saved, presented, twice>>
        /\ config' = saved /\ lock' = NoCaller
        /\ \A x \in Callers : call'[x] = Resting /\ call[x].token \in excused'
        /\ excused \subseteq excused'
    BY <1>12 DEF WebRestarts
  <2>2. \A x \in Callers : ~AtTakGov(x)' /\ call'[x].op = "none"
    BY <2>1 DEF AtTakGov, Resting
  <2>3. LockHeld' /\ UsedUp' /\ PresentedOnce' /\ AllBegun'
    BY <1>a, <2>1, <2>2 DEF LinkInv, LockHeld, UsedUp, PresentedOnce, AllBegun, Begun
  <2>4. FirstTokens' /\ Answers'
    BY <2>2 DEF FirstTokens, Answers
  <2>5. ConfigSendable'
    BY <2>1 DEF LinkInv, ConfigSendable, Sendable, Taken
  <2> QED BY <1>0, <2>3, <2>4, <2>5 DEF LinkInv
<1>13. CASE UNCHANGED linkVars
  <2>1. /\ session' = session /\ config' = config /\ saved' = saved /\ lock' = lock
        /\ presented' = presented /\ twice' = twice /\ excused' = excused
        /\ call' = call
    BY <1>13 DEF linkVars
  <2> QED BY <1>1, <2>1
<1> QED BY <1>2, <1>3, <1>4, <1>5, <1>6, <1>7, <1>8, <1>9, <1>10, <1>11, <1>12, <1>13 DEF LinkNext

(* get_new_access_token: whoever links, unlinks or renews, and wherever the process
   ends, no refresh token is used twice unless its answer was lost or its successor
   could not be saved. *)
THEOREM RefreshTokensPresentedOnce == LinkSpec => []PresentedOnce
<1>1. LinkInv => PresentedOnce
  BY DEF LinkInv
<1> QED BY LinkStart, LinkSteps, <1>1, PTL DEF LinkSpec

-----------------------------------------------------------------------------
(* The scheduled jobs. *)
Timetable == [trigger : {"repeating", "date"}, next : Nat]
SchedulerTypeOK ==
    /\ store = [id \in Jobs |-> store[id]]
    /\ \A id \in Jobs : store[id] \in Timetable
    /\ now \in Times
    /\ asked \in [Admins -> {NoRequest} \cup [op : {"schedule"}, job : BuiltIn, resume : BOOLEAN,
                                            paused : BOOLEAN]]

(* A stopped job is paused, and whoever looks at it saw it so and does not ask for it
   to go on; a job with a date for a trigger was modified to have it. *)
StaysStopped ==
    /\ \A id \in Jobs \cap stopped : store[id].next = Paused
    /\ \A a \in Admins : asked[a].op = "schedule" /\ asked[a].job \in stopped =>
          asked[a].resume = FALSE /\ asked[a].paused = TRUE
DatedAreKnown == \A id \in Jobs \cap BuiltIn : store[id].trigger = "date" => id \in dated
SchedulerInv == SchedulerTypeOK /\ StaysStopped /\ DatedAreKnown /\ PausedStaysPaused

(* What Put and Drop make of the store. *)
LEMMA PutJob ==
    ASSUME NEW id, NEW job, Put(id, job)
    PROVE  /\ Jobs' = Jobs \cup {id} /\ store' = [x \in Jobs' |-> store'[x]]
           /\ store'[id] = job /\ \A x \in Jobs \ {id} : store'[x] = store[x]
BY DEF Put, Jobs

LEMMA DropJobs ==
    ASSUME NEW ids, Drop(ids)
    PROVE  /\ Jobs' = Jobs \ ids /\ store' = [x \in Jobs' |-> store'[x]]
           /\ \A x \in Jobs' : store'[x] = store[x]
BY DEF Drop, Jobs

LEMMA SchedulerSteps == SchedulerInv /\ [SchedulerNext]_schedulerVars => SchedulerInv'
<1> SUFFICES ASSUME SchedulerInv, [SchedulerNext]_schedulerVars PROVE SchedulerInv'
  OBVIOUS
<1> USE SchedulerAssumption
<1> DEFINE Asking == [op : {"schedule"}, job : BuiltIn, resume : BOOLEAN, paused : BOOLEAN]
<1>0. /\ now \in 0..MaxTicks /\ now + 1 \in Nat
      /\ Paused \in Nat /\ Never \in Nat /\ now < Paused /\ now + 1 # Never
  BY DEF SchedulerInv, SchedulerTypeOK, Times, Paused, Never
<1>a. Paused' = Paused /\ Never' = Never
  BY DEF Paused, Never
<1>1. CASE ProcessJobs
  <2> DEFINE due == {id \in Jobs : store[id].next <= now}
  <2>1. /\ store' = [id \in {x \in Jobs : x \notin due \/ Following(store[x]) # Never} |->
                        IF id \in due THEN [store[id] EXCEPT !.next = Following(store[id])]
                        ELSE store[id]]
        /\ ran' = ran \cup (due \cap stopped)
        /\ UNCHANGED <<now, asked, stopped, dated>>
    BY <1>1 DEF ProcessJobs
  <2>2. due \cap stopped = {}
    BY <1>0 DEF SchedulerInv, StaysStopped, Paused
  <2>3. /\ Jobs' = {x \in Jobs : x \notin due \/ Following(store[x]) # Never}
        /\ store' = [x \in Jobs' |-> store'[x]]
    BY <2>1 DEF Jobs
  <2>4. ASSUME NEW id \in Jobs'
        PROVE  /\ store'[id] \in Timetable /\ store'[id].trigger = store[id].trigger
               /\ id \notin due => store'[id] = store[id]
    <3>1. id \in Jobs /\ store[id] \in Timetable
      BY <2>3 DEF SchedulerInv, SchedulerTypeOK
    <3>2. Following(store[id]) \in Nat
      BY <1>0 DEF Following
    <3>3. ASSUME NEW q \in Timetable, NEW n \in Nat
          PROVE  [q EXCEPT !.next = n] \in Timetable /\ [q EXCEPT !.next = n].trigger = q.trigger
      BY DEF Timetable
    <3>4. store'[id] = IF id \in due THEN [store[id] EXCEPT !.next = Following(store[id])] ELSE store[id]
      BY <2>1, <2>3
    <3> QED BY <3>1, <3>2, <3>3, <3>4
  <2>5. \A id \in Jobs \cap BuiltIn : id \in Jobs' \/ id \in dated
    BY <1>0, <2>3 DEF SchedulerInv, DatedAreKnown, Following, SchedulerTypeOK, Timetable
  <2> HIDE DEF due
  <2>6. SchedulerTypeOK'
    BY <2>1, <2>3, <2>4 DEF SchedulerInv, SchedulerTypeOK
  <2>7. StaysStopped'
    BY <1>a, <2>1, <2>2, <2>3, <2>4 DEF SchedulerInv, StaysStopped
  <2>8. DatedAreKnown' /\ PausedStaysPaused'
    BY <2>1, <2>2, <2>3, <2>4, <2>5 DEF SchedulerInv, DatedAreKnown, PausedStaysPaused
  <2> QED BY <2>6, <2>7, <2>8 DEF SchedulerInv
<1>2. CASE ClockTicks
  <2>1. now' \in Times /\ UNCHANGED <<store, asked, stopped, ran, dated>>
    BY <1>0, <1>2 DEF ClockTicks, Times
  <2> QED BY <1>a, <2>1 DEF SchedulerInv, SchedulerTypeOK, StaysStopped, DatedAreKnown, PausedStaysPaused, Jobs
<1>3. CASE ProcessStarts
  <2>1. /\ Jobs' = Jobs \cup BuiltIn /\ store' = [x \in Jobs' |-> store'[x]]
        /\ \A id \in Jobs : store'[id] = store[id]
        /\ \A id \in BuiltIn \ Jobs : store'[id] = Configured(id)
        /\ asked' = [a \in Admins |-> NoRequest]
        /\ stopped' = (stopped \cap Jobs) \cup (PausedFirst \ Jobs)
        /\ dated' = dated \cap Jobs /\ UNCHANGED <<now, ran>>
    BY <1>3 DEF ProcessStarts, Jobs
  <2>2. ASSUME NEW id PROVE /\ Configured(id) \in Timetable
                            /\ Configured(id).trigger = "repeating"
                            /\ id \in PausedFirst => Configured(id).next = Paused
    BY <1>0 DEF Configured, Timetable
  <2>3. SchedulerTypeOK'
    BY <2>1, <2>2 DEF SchedulerInv, SchedulerTypeOK
  <2>4. StaysStopped'
    BY <1>a, <2>1, <2>2 DEF SchedulerInv, StaysStopped, NoRequest
  <2>5. DatedAreKnown' /\ PausedStaysPaused'
    BY <2>1, <2>2 DEF SchedulerInv, DatedAreKnown, PausedStaysPaused
  <2> QED BY <2>3, <2>4, <2>5 DEF SchedulerInv
<1>4. ASSUME NEW a \in Admins, NEW j \in BuiltIn, NEW resume \in BOOLEAN, LookAtJob(a, j, resume)
      PROVE  SchedulerInv'
  <2> DEFINE p == (store[j].next = Paused)
             q == [op |-> "schedule", job |-> j, resume |-> resume, paused |-> p]
  <2>1. /\ asked' = [asked EXCEPT ![a] = q] /\ j \in Jobs
        /\ stopped' = IF resume THEN stopped \ {j} ELSE stopped
        /\ UNCHANGED <<store, now, ran, dated>>
    BY <1>4 DEF LookAtJob, Does
  <2>2. q \in Asking
    OBVIOUS
  <2>3. j \in stopped' => q.resume = FALSE /\ q.paused = TRUE
    BY <2>1 DEF SchedulerInv, StaysStopped
  <2>4. q.job = j
    OBVIOUS
  <2> HIDE DEF q
  <2>5. SchedulerTypeOK'
    BY <2>1, <2>2 DEF SchedulerInv, SchedulerTypeOK, Jobs
  <2>6. StaysStopped'
    BY <1>a, <2>1, <2>3, <2>4 DEF SchedulerInv, StaysStopped, SchedulerTypeOK, Jobs
  <2>7. DatedAreKnown' /\ PausedStaysPaused'
    BY <2>1 DEF SchedulerInv, DatedAreKnown, PausedStaysPaused, Jobs
  <2> QED BY <2>5, <2>6, <2>7 DEF SchedulerInv
(* What puts one job in the store: it keeps its place there, its pause where it is
   stopped, and its trigger unless that repeats or was noted. *)
<1>5. ASSUME NEW id \in Jobs, NEW job \in Timetable, Put(id, job),
             stopped' \subseteq stopped \cup {id},
             id \in stopped' => job.next = Paused,
             job.trigger = "date" /\ id \in BuiltIn => id \in dated',
             dated \subseteq dated', ran' = ran, now' = now,
             asked' \in [Admins -> {NoRequest} \cup Asking],
             \A a \in Admins :
                /\ asked'[a] \in {NoRequest, asked[a]}
                /\ id \in stopped' \ stopped /\ asked[a].op = "schedule" => asked[a].job # id
      PROVE  SchedulerInv'
  <2>1. /\ Jobs' = Jobs /\ store' = [x \in Jobs' |-> store'[x]]
        /\ store'[id] = job /\ \A x \in Jobs \ {id} : store'[x] = store[x]
    <3>1. Jobs \cup {id} = Jobs
      OBVIOUS
    <3>2. Put(id, job)
      BY <1>5
    <3> HIDE DEF Asking
    <3> QED BY <3>1, <3>2, PutJob
  <2>2. SchedulerTypeOK'
    BY <1>5, <2>1 DEF SchedulerInv, SchedulerTypeOK
  <2>3. StaysStopped'
    BY <1>5, <1>a, <2>1 DEF SchedulerInv, StaysStopped, NoRequest
  <2>4. DatedAreKnown' /\ PausedStaysPaused'
    BY <1>5, <2>1 DEF SchedulerInv, DatedAreKnown, PausedStaysPaused
  <2> QED BY <2>2, <2>3, <2>4 DEF SchedulerInv
<1>6. ASSUME NEW a \in Admins, ScheduleJob(a) PROVE SchedulerInv'
  <2> DEFINE q == asked[a]
  <2>1. q \in Asking
    BY <1>6 DEF ScheduleJob, SchedulerInv, SchedulerTypeOK, NoRequest
  <2>2. /\ asked' = [asked EXCEPT ![a] = NoRequest] /\ UNCHANGED <<now, stopped, ran, dated>>
    BY <1>6 DEF ScheduleJob, Does
  <2>3. /\ asked' \in [Admins -> {NoRequest} \cup Asking]
        /\ \A x \in Admins : asked'[x] \in {NoRequest, asked[x]}
    BY <2>2 DEF SchedulerInv, SchedulerTypeOK
  <2>4. CASE q.job \notin Jobs
    <3>1. store' = store
      BY <1>6, <2>4 DEF ScheduleJob
    <3> QED BY <1>a, <2>2, <2>3, <3>1 DEF SchedulerInv, SchedulerTypeOK, StaysStopped, DatedAreKnown,
         PausedStaysPaused, Jobs, NoRequest
  <2>5. CASE q.job \in Jobs
    <3>1. store[q.job] \in Timetable
      BY <2>5 DEF SchedulerInv, SchedulerTypeOK
    <3>2. CASE ~q.resume /\ q.paused
      <4> DEFINE job == [store[q.job] EXCEPT !.trigger = "repeating"]
      <4>1. job \in Timetable /\ job.trigger = "repeating" /\ job.next = store[q.job].next
        BY <3>1 DEF Timetable
      <4>2. Put(q.job, job)
        BY <1>6, <2>5, <3>2 DEF ScheduleJob
      <4>3. q.job \in stopped => store[q.job].next = Paused
        BY <2>5 DEF SchedulerInv, StaysStopped
      <4> HIDE DEF job, q
      <4> QED BY <1>5, <2>2, <2>3, <2>5, <4>1, <4>2, <4>3
    <3>3. CASE ~(~q.resume /\ q.paused)
      <4> DEFINE job == [trigger |-> "repeating", next |-> now + 1]
      <4>1. job \in Timetable /\ job.trigger = "repeating"
        BY <1>0 DEF Timetable
      <4>2. Put(q.job, job)
        BY <1>6, <2>5, <3>3 DEF ScheduleJob
      <4>3. q.job \notin stopped
        BY <1>6, <3>3 DEF ScheduleJob, SchedulerInv, StaysStopped
      <4> HIDE DEF job, q
      <4> QED BY <1>5, <2>2, <2>3, <2>5, <4>1, <4>2, <4>3
    <3> QED BY <3>2, <3>3
  <2> QED BY <2>4, <2>5
<1>7. ASSUME NEW j \in BuiltIn, NEW t \in Times, ScheduleOnce(j, t) PROVE SchedulerInv'
  <2> DEFINE id == <<j, t>>  job == [trigger |-> "date", next |-> t]
  <2>1. /\ Put(id, job) /\ stopped' = stopped \ {id} /\ UNCHANGED <<now, asked, ran, dated>>
    BY <1>7 DEF ScheduleOnce
  <2>2. id \notin BuiltIn /\ job \in Timetable
    BY DEF Times, Timetable
  <2> HIDE DEF id, job
  <2>3. /\ Jobs' = Jobs \cup {id} /\ store' = [x \in Jobs' |-> store'[x]]
        /\ store'[id] = job /\ \A x \in Jobs \ {id} : store'[x] = store[x]
    BY <2>1, PutJob
  <2>4. SchedulerTypeOK'
    BY <2>1, <2>2, <2>3 DEF SchedulerInv, SchedulerTypeOK
  <2>5. StaysStopped'
    BY <1>a, <2>1, <2>3 DEF SchedulerInv, StaysStopped
  <2>6. DatedAreKnown' /\ PausedStaysPaused'
    BY <2>1, <2>2, <2>3 DEF SchedulerInv, DatedAreKnown, PausedStaysPaused
  <2> QED BY <2>4, <2>5, <2>6 DEF SchedulerInv
<1>8. ASSUME NEW id \in Jobs, CancelJob(id) PROVE SchedulerInv'
  <2>1. /\ Jobs' = Jobs \ {id} /\ store' = [x \in Jobs' |-> store'[x]]
        /\ \A x \in Jobs' : store'[x] = store[x]
        /\ UNCHANGED <<now, asked, stopped, ran, dated>>
    BY <1>8, DropJobs DEF CancelJob
  <2>2. id \notin BuiltIn
    BY <1>8 DEF CancelJob, is_one_off_job_id, OneOffs, Times
  <2> QED BY <1>a, <2>1, <2>2 DEF SchedulerInv, SchedulerTypeOK, StaysStopped, DatedAreKnown, PausedStaysPaused
<1>9. ASSUME NEW id \in Jobs PROVE store[id] \in Timetable
  BY DEF SchedulerInv, SchedulerTypeOK
<1>10. ASSUME NEW id \in Jobs, NEW n \in Nat
       PROVE  /\ [store[id] EXCEPT !.next = n] \in Timetable
              /\ [store[id] EXCEPT !.next = n].next = n
              /\ [store[id] EXCEPT !.next = n].trigger = store[id].trigger
  BY <1>9 DEF Timetable
<1>11. ASSUME NEW id \in Jobs, PauseJob(id) PROVE SchedulerInv'
  <2> DEFINE job == [store[id] EXCEPT !.next = Paused]
  <2>1. /\ Put(id, job) /\ stopped' = (IF Looking(id) THEN stopped ELSE stopped \cup {id})
        /\ UNCHANGED <<now, asked, ran, dated>>
    BY <1>11 DEF PauseJob
  <2>2. job \in Timetable /\ job.next = Paused /\ job.trigger = store[id].trigger
    BY <1>0, <1>10
  <2>3. job.trigger = "date" /\ id \in BuiltIn => id \in dated
    BY <2>2 DEF SchedulerInv, DatedAreKnown
  <2> HIDE DEF job
  <2>4. id \in stopped' \ stopped => \A a \in Admins : asked[a].op = "schedule" => asked[a].job # id
    BY <2>1 DEF Looking
  <2>5. asked' = asked /\ asked \in [Admins -> {NoRequest} \cup Asking]
    BY <2>1 DEF SchedulerInv, SchedulerTypeOK
  <2> HIDE DEF Asking
  <2> QED BY <1>5, <2>1, <2>2, <2>3, <2>4, <2>5
<1>12. ASSUME NEW id \in Jobs, ResumeJob(id) PROVE SchedulerInv'
  <2> DEFINE job == [store[id] EXCEPT !.next = now + 1]
  <2>1. Put(id, job) /\ stopped' = stopped \ {id} /\ UNCHANGED <<now, asked, ran, dated>>
    BY <1>12 DEF ResumeJob
  <2>2. job \in Timetable /\ job.trigger = store[id].trigger
    BY <1>0, <1>10
  <2>3. job.trigger = "date" /\ id \in BuiltIn => id \in dated
    BY <2>2 DEF SchedulerInv, DatedAreKnown
  <2> HIDE DEF job
  <2>5. asked' = asked /\ asked \in [Admins -> {NoRequest} \cup Asking]
    BY <2>1 DEF SchedulerInv, SchedulerTypeOK
  <2> HIDE DEF Asking
  <2> QED BY <1>5, <2>1, <2>2, <2>3, <2>5
<1>13. ASSUME NEW id \in Jobs, NEW trigger \in {"repeating", "date"}, ModifyJob(id, trigger)
       PROVE  SchedulerInv'
  <2> DEFINE job == [store[id] EXCEPT !.trigger = trigger]
  <2>1. /\ Put(id, job) /\ dated' = (IF trigger = "date" THEN dated \cup ({id} \cap BuiltIn) ELSE dated)
        /\ UNCHANGED <<now, asked, stopped, ran>>
    BY <1>13 DEF ModifyJob
  <2>2. job \in Timetable /\ job.trigger = trigger /\ job.next = store[id].next
    BY <1>9 DEF Timetable
  <2>3. id \in stopped => store[id].next = Paused
    BY DEF SchedulerInv, StaysStopped
  <2> HIDE DEF job
  <2>5. asked' = asked /\ asked \in [Admins -> {NoRequest} \cup Asking]
    BY <2>1 DEF SchedulerInv, SchedulerTypeOK
  <2> HIDE DEF Asking
  <2> QED BY <1>5, <2>1, <2>2, <2>3, <2>5
<1>14. CASE UNCHANGED schedulerVars
  BY <1>14, <1>a DEF schedulerVars, SchedulerInv, SchedulerTypeOK, StaysStopped, DatedAreKnown,
     PausedStaysPaused, Jobs
<1> QED BY <1>1, <1>2, <1>3, <1>4, <1>6, <1>7, <1>8, <1>11, <1>12, <1>13, <1>14 DEF SchedulerNext

(* schedule_job, pause_job and the rest: a job that was paused, the ones that wipe
   data from the start, does not run on its schedule before somebody lets it, and no
   configured job is lost but for modify_job, in every order of requests, runs and
   starts. *)
THEOREM PausedJobsStayPaused == SchedulerSpec => []PausedStaysPaused
<1>1. SchedulerInit => SchedulerInv
  BY SchedulerAssumption
  DEF SchedulerInit, SchedulerInv, SchedulerTypeOK, StaysStopped, DatedAreKnown, PausedStaysPaused,
      Jobs, Configured, Times, Timetable, NoRequest, Paused
<1>2. SchedulerInv => PausedStaysPaused
  BY DEF SchedulerInv
<1> QED BY <1>1, <1>2, SchedulerSteps, PTL DEF SchedulerSpec

-----------------------------------------------------------------------------
(* The certificates. *)
Serials == Nat \cup {Unknown}
Files == [key : Slots \cup {Nobody}, serial : Serials, age : {"none", "old", "new"}]
IssuanceJobs ==
    [op : {"none", "enroll", "package", "backfill"},
     step : {"none", "sign", "key", "read", "p12", "zip", "record"},
     mixed : BOOLEAN, row : Nat, given : Files, serial : Serials]
CertRows == [op : {"enroll", "package"}, serial : Serials, given : Files, mixed : BOOLEAN]
IssuanceTypeOK ==
    /\ dir \in [csr : Slots \cup {Nobody}, key : Slots \cup {Nobody}, pem : Files, p12 : Files]
    /\ rows \in Seq(CertRows)
    /\ req \in [Slots -> IssuanceJobs]
    /\ serials \in Nat

LEMMA IssuanceStart == IssuanceInit => IssuanceTypeOK
<1>1. NoFile \in Files /\ \A n \in Nat : Legacy(n) \in Files
  BY DEF NoFile, Legacy, Files, Serials
<1>2. \A n \in Nat : OldRow(n) \in CertRows
  BY <1>1 DEF OldRow, CertRows, Serials
<1>3. NoJob \in IssuanceJobs
  BY <1>1 DEF NoJob, Job, IssuanceJobs, Serials
<1>4. Empty \in [csr : Slots \cup {Nobody}, key : Slots \cup {Nobody}, pem : Files, p12 : Files]
  BY <1>1 DEF Empty
<1>5. [Empty EXCEPT !.pem = Legacy(2)]
        \in [csr : Slots \cup {Nobody}, key : Slots \cup {Nobody}, pem : Files, p12 : Files]
  BY <1>1 DEF Empty
<1>6. <<>> \in Seq(CertRows) /\ <<OldRow(1), OldRow(2)>> \in Seq(CertRows)
  <2>1. OldRow(1) \in CertRows /\ OldRow(2) \in CertRows
    BY <1>2
  <2> QED BY <2>1
<1>7. ASSUME IssuanceInit PROVE dir \in [csr : Slots \cup {Nobody}, key : Slots \cup {Nobody},
                                        pem : Files, p12 : Files]
  BY <1>4, <1>5, <1>7 DEF IssuanceInit
<1>8. ASSUME IssuanceInit PROVE rows \in Seq(CertRows)
  BY <1>6, <1>8 DEF IssuanceInit
<1>9. ASSUME IssuanceInit PROVE req \in [Slots -> IssuanceJobs] /\ serials \in Nat
  BY <1>3, <1>9 DEF IssuanceInit
<1> QED BY <1>7, <1>8, <1>9 DEF IssuanceTypeOK

(* What a request that mixes with the others does to them. *)
LEMMA Mixing ==
    ASSUME IssuanceTypeOK, NEW r \in Slots, NEW q \in IssuanceJobs, AdvanceMixing(r, q)
    PROVE  /\ req' \in [Slots -> IssuanceJobs] /\ req'[r] = q
           /\ \A x \in Slots \ {r} :
                 IF req[x].op \in {"enroll", "package"}
                 THEN req'[x] = [req[x] EXCEPT !.mixed = TRUE] ELSE req'[x] = req[x]
<1>1. ASSUME NEW x \in Slots PROVE [req[x] EXCEPT !.mixed = TRUE] \in IssuanceJobs
  <2>1. ASSUME NEW y \in IssuanceJobs PROVE [y EXCEPT !.mixed = TRUE] \in IssuanceJobs
    BY DEF IssuanceJobs
  <2> QED BY <2>1 DEF IssuanceTypeOK
<1>2. \A x \in Slots : req'[x] = IF x = r THEN q
                               ELSE IF req[x].op \in {"enroll", "package"}
                                    THEN [req[x] EXCEPT !.mixed = TRUE] ELSE req[x]
  BY DEF AdvanceMixing
<1>3. \A x \in Slots : req'[x] \in IssuanceJobs
  BY <1>1, <1>2 DEF IssuanceTypeOK
<1>4. req' = [x \in Slots |-> req'[x]]
  BY DEF AdvanceMixing
<1> QED BY <1>2, <1>3, <1>4

LEMMA IssuanceTypes == IssuanceTypeOK /\ [IssuanceNext]_issuanceVars => IssuanceTypeOK'
<1> SUFFICES ASSUME IssuanceTypeOK, [IssuanceNext]_issuanceVars PROVE IssuanceTypeOK'
  OBVIOUS
<1>0. NoFile \in Files
  BY DEF NoFile, Files, Serials
<1>1. NoJob \in IssuanceJobs
  BY <1>0 DEF NoJob, Job, IssuanceJobs, Serials
<1>2. ASSUME NEW r \in Slots, NEW q \in IssuanceJobs, Advance(r, q)
      PROVE  req' \in [Slots -> IssuanceJobs]
  BY <1>2 DEF Advance, IssuanceTypeOK
<1>3. ASSUME NEW r \in Slots
      PROVE  /\ req[r] \in IssuanceJobs /\ req[r].given \in Files /\ req[r].serial \in Serials
             /\ req[r].mixed \in BOOLEAN
  BY DEF IssuanceTypeOK, IssuanceJobs
<1>4. ASSUME NEW q \in IssuanceJobs, NEW s \in {"sign", "read", "p12", "zip", "record"}
      PROVE  /\ [q EXCEPT !.step = s] \in IssuanceJobs
             /\ \A f \in Files : [q EXCEPT !.step = s, !.given = f] \in IssuanceJobs
             /\ \A f \in Files, n \in Serials :
                   [q EXCEPT !.step = s, !.given = f, !.serial = n] \in IssuanceJobs
  BY DEF IssuanceJobs
<1>5. \A op \in {"enroll", "package"}, step \in {"sign", "key"}, b \in BOOLEAN :
        Job(op, step, b) \in IssuanceJobs
  BY <1>0 DEF Job, IssuanceJobs, Serials
<1>6. dir.pem \in Files /\ dir.p12 \in Files /\ dir.pem.serial \in Serials
  BY DEF IssuanceTypeOK, Files
<1>7. CASE StartServer \/ CreateCa \/ CreateFails \/ EnsureCrl \/ EnsureFails \/ RefreshMissingCrl
  BY <1>7 DEF StartServer, CreateCa, CreateFails, EnsureCrl, EnsureFails, RefreshMissingCrl,
     Unchanged, IssuanceTypeOK
<1>8. ASSUME NEW r \in Slots, WriteCsr(r) PROVE IssuanceTypeOK'
  <2>1. Job("enroll", "sign", Others(r)) \in IssuanceJobs
    BY <1>5 DEF Others
  <2>2. req' \in [Slots -> IssuanceJobs]
    BY <1>8, <2>1, Mixing DEF WriteCsr
  <2> QED BY <1>8, <2>2 DEF WriteCsr, IssuanceTypeOK
<1>9. ASSUME NEW r \in Slots, RemakeDirectory(r) PROVE IssuanceTypeOK'
  <2>1. Job("package", "key", Others(r)) \in IssuanceJobs
    BY <1>5 DEF Others
  <2>2. req' \in [Slots -> IssuanceJobs]
    BY <1>9, <2>1, Mixing DEF RemakeDirectory
  <2> QED BY <1>0, <1>9, <2>2 DEF RemakeDirectory, IssuanceTypeOK, Empty
<1>10. ASSUME NEW r \in Slots, NewKey(r) PROVE IssuanceTypeOK'
  <2>1. req' \in [Slots -> IssuanceJobs]
    BY <1>3, <1>4, <1>10, Mixing DEF NewKey
  <2> QED BY <1>10, <2>1 DEF NewKey, IssuanceTypeOK
<1>11. ASSUME NEW r \in Slots, OpensslSigns(r) PROVE IssuanceTypeOK'
  <2>1. req' \in [Slots -> IssuanceJobs]
    <3>1. \A s \in {"read", "p12"} : [req[r] EXCEPT !.step = s] \in IssuanceJobs
      BY <1>3, <1>4
    <3> QED BY <1>11, <3>1, Mixing DEF OpensslSigns
  <2>2. [key |-> dir.csr, serial |-> serials + 1, age |-> "new"] \in Files
    BY DEF IssuanceTypeOK, Files, Serials
  <2> QED BY <1>11, <2>1, <2>2 DEF OpensslSigns, IssuanceTypeOK
<1>12. ASSUME NEW r \in Slots, OpensslFails(r) PROVE IssuanceTypeOK'
  BY <1>1, <1>2, <1>12 DEF OpensslFails, Fail, IssuanceTypeOK
<1>13. ASSUME NEW r \in Slots, ReadPem(r) PROVE IssuanceTypeOK'
  BY <1>2, <1>3, <1>4, <1>6, <1>13 DEF ReadPem, IssuanceTypeOK
<1>14. ASSUME NEW r \in Slots, RecordEnrolled(r) PROVE IssuanceTypeOK'
  <2>1. [op |-> "enroll", serial |-> req[r].given.serial, given |-> req[r].given,
         mixed |-> req[r].mixed] \in CertRows
    BY <1>3 DEF CertRows, Files
  <2> QED BY <1>1, <1>2, <1>14, <2>1 DEF RecordEnrolled, IssuanceTypeOK
<1>15. ASSUME NEW r \in Slots, ExportP12(r) PROVE IssuanceTypeOK'
  BY <1>2, <1>3, <1>4, <1>6, <1>15 DEF ExportP12, IssuanceTypeOK
<1>16. ASSUME NEW r \in Slots, PackUp(r) PROVE IssuanceTypeOK'
  BY <1>2, <1>3, <1>4, <1>6, <1>16 DEF PackUp, IssuanceTypeOK
<1>17. ASSUME NEW r \in Slots, RecordPackage(r) PROVE IssuanceTypeOK'
  <2>1. [op |-> "package", serial |-> req[r].serial, given |-> req[r].given,
         mixed |-> req[r].mixed] \in CertRows
    BY <1>3 DEF CertRows
  <2> QED BY <1>1, <1>2, <1>17, <2>1 DEF RecordPackage, IssuanceTypeOK
<1>18. ASSUME NEW r \in Slots, NEW i \in DOMAIN rows, LookUpLater(r, i) PROVE IssuanceTypeOK'
  <2>0. i \in Nat
    BY DEF IssuanceTypeOK
  <2>1. [NoJob EXCEPT !.op = "backfill", !.row = i] \in IssuanceJobs
    BY <1>1, <2>0 DEF IssuanceJobs
  <2> QED BY <1>2, <1>18, <2>1 DEF LookUpLater, Begin, Advance, IssuanceTypeOK
<1>19. ASSUME NEW r \in Slots, BackfillSerial(r) PROVE IssuanceTypeOK'
  <2>1. \A x \in CertRows, n \in Serials : [x EXCEPT !.serial = n] \in CertRows
    BY DEF CertRows
  <2>2. [rows EXCEPT ![req[r].row].serial = dir.pem.serial] \in Seq(CertRows)
    <3>1. rows \in [1..Len(rows) -> CertRows] /\ Len(rows) \in Nat
      BY DEF IssuanceTypeOK
    <3>2. [rows EXCEPT ![req[r].row].serial = dir.pem.serial] \in [1..Len(rows) -> CertRows]
      BY <1>6, <2>1, <3>1
    <3> QED BY <3>1, <3>2
  <2> QED BY <1>1, <1>2, <1>19, <2>2 DEF BackfillSerial, IssuanceTypeOK
<1>20. CASE UNCHANGED issuanceVars
  BY <1>20 DEF issuanceVars, IssuanceTypeOK
<1> QED BY <1>7, <1>8, <1>9, <1>10, <1>11, <1>12, <1>13, <1>14, <1>15, <1>16, <1>17, <1>18, <1>19, <1>20
        DEF IssuanceNext

\* An age on disk tells the two releases apart.
FileOnDisk ==
    /\ dir.pem = NoFile \/ dir.pem.serial \in Nat
    /\ dir.pem.age = "old" => dir.pem = Legacy(2)
UnmixedExport ==
    \A r \in Slots : At(r, "package", "zip") /\ ~req[r].mixed => dir.p12 = dir.pem
ToBeRecorded ==
    \A r \in Slots :
        /\ At(r, "enroll", "record") => req[r].given.serial \in Nat
        /\ At(r, "package", "record") =>
              req[r].serial \in Nat /\ (req[r].mixed \/ req[r].serial = req[r].given.serial)
UnknownIsLegacy ==
    \A i \in DOMAIN rows : rows[i].serial = Unknown =>
        i \in {1, 2} /\ 2 \in DOMAIN rows /\ rows[i].given = Legacy(i)
LookedUpIsLegacy ==
    \A r \in Slots : req[r].op = "backfill" =>
        req[r].row \in DOMAIN rows /\ rows[req[r].row].given = Legacy(2)
IssuanceInv ==
    /\ IssuanceTypeOK /\ FileOnDisk /\ UnmixedExport /\ ToBeRecorded
    /\ UnknownIsLegacy /\ LookedUpIsLegacy /\ RowNamesItsCertificate

(* A request goes on, or mixes with the others: what those have in hand stays. *)
LEMMA OthersKeepTheirs ==
    ASSUME IssuanceTypeOK, NEW r \in Slots, NEW q \in IssuanceJobs,
           Advance(r, q) \/ AdvanceMixing(r, q)
    PROVE  /\ req'[r] = q
           /\ \A x \in Slots \ {r} :
                 /\ req'[x].op = req[x].op /\ req'[x].step = req[x].step
                 /\ req'[x].row = req[x].row /\ req'[x].given = req[x].given
                 /\ req'[x].serial = req[x].serial
                 /\ req[x].mixed => req'[x].mixed
<1>1. CASE Advance(r, q)
  BY <1>1 DEF Advance, IssuanceTypeOK
<1>2. CASE AdvanceMixing(r, q)
  <2>1. ASSUME NEW y \in IssuanceJobs, NEW z, z = [y EXCEPT !.mixed = TRUE]
        PROVE  /\ z.op = y.op /\ z.step = y.step /\ z.row = y.row /\ z.given = y.given
               /\ z.serial = y.serial /\ z.mixed
    BY <2>1 DEF IssuanceJobs
  <2>2. \A x \in Slots : req[x] \in IssuanceJobs
    BY DEF IssuanceTypeOK
  <2>3. /\ req'[r] = q
        /\ \A x \in Slots \ {r} : req'[x] = req[x] \/ req'[x] = [req[x] EXCEPT !.mixed = TRUE]
    BY <1>2, Mixing
  <2>4. ASSUME NEW x \in Slots \ {r}, req'[x] = [req[x] EXCEPT !.mixed = TRUE]
        PROVE  /\ req'[x].op = req[x].op /\ req'[x].step = req[x].step
               /\ req'[x].row = req[x].row /\ req'[x].given = req[x].given
               /\ req'[x].serial = req[x].serial /\ req'[x].mixed
    <3>1. req[x] \in IssuanceJobs
      BY <2>2
    <3> QED BY <2>1, <2>4, <3>1
  <2> QED BY <2>3, <2>4
<1> QED BY <1>1, <1>2

LEMMA MixingIsNoted ==
    ASSUME IssuanceTypeOK, NEW r \in Slots, NEW q \in IssuanceJobs, AdvanceMixing(r, q)
    PROVE  \A x \in Slots \ {r} : req[x].op \in {"enroll", "package"} => req'[x].mixed
<1>1. ASSUME NEW y \in IssuanceJobs, NEW z, z = [y EXCEPT !.mixed = TRUE] PROVE z.mixed
  BY <1>1 DEF IssuanceJobs
<1>2. \A x \in Slots : req[x] \in IssuanceJobs
  BY DEF IssuanceTypeOK
<1> QED BY <1>1, <1>2, Mixing

(* A request that goes on, while the files and the rows stay, disturbs nothing but
   what its own next step promises. *)
LEMMA GoingOn ==
    ASSUME IssuanceInv, IssuanceTypeOK', NEW r \in Slots, NEW q \in IssuanceJobs,
           Advance(r, q), dir' = dir, rows' = rows,
           q.op = "package" /\ q.step = "zip" /\ ~q.mixed => dir.p12 = dir.pem,
           q.op = "enroll" /\ q.step = "record" => q.given.serial \in Nat,
           q.op = "package" /\ q.step = "record" =>
               q.serial \in Nat /\ (q.mixed \/ q.serial = q.given.serial),
           q.op = "backfill" => q.row \in DOMAIN rows /\ rows[q.row].given = Legacy(2)
    PROVE  IssuanceInv'
<1>1. req'[r] = q /\ \A x \in Slots \ {r} : req'[x] = req[x]
  BY DEF Advance, IssuanceInv, IssuanceTypeOK
<1>2. FileOnDisk' /\ UnknownIsLegacy' /\ RowNamesItsCertificate'
  BY DEF IssuanceInv, FileOnDisk, UnknownIsLegacy, RowNamesItsCertificate
<1>3. UnmixedExport'
  BY <1>1 DEF IssuanceInv, UnmixedExport, At
<1>4. ToBeRecorded'
  BY <1>1 DEF IssuanceInv, ToBeRecorded, At
<1>5. LookedUpIsLegacy'
  BY <1>1 DEF IssuanceInv, LookedUpIsLegacy
<1> QED BY <1>2, <1>3, <1>4, <1>5 DEF IssuanceInv

LEMMA IssuanceSteps == IssuanceInv /\ [IssuanceNext]_issuanceVars => IssuanceInv'
<1> SUFFICES ASSUME IssuanceInv, [IssuanceNext]_issuanceVars PROVE IssuanceInv'
  OBVIOUS
<1>t. IssuanceTypeOK /\ IssuanceTypeOK'
  BY IssuanceTypes DEF IssuanceInv
<1>1. NoFile \in Files /\ NoJob \in IssuanceJobs /\ Unknown \notin Nat
  BY IssuanceAssumption DEF NoFile, Files, Serials, NoJob, Job, IssuanceJobs
<1>2. ASSUME NEW r \in Slots
      PROVE  req[r] \in IssuanceJobs /\ req[r].given \in Files /\ req[r].mixed \in BOOLEAN
  BY <1>t DEF IssuanceTypeOK, IssuanceJobs
<1>3. ASSUME NEW y \in IssuanceJobs, NEW s \in {"sign", "read", "p12", "zip", "record"}, NEW z,
             z = [y EXCEPT !.step = s]
      PROVE  z \in IssuanceJobs /\ z.op = y.op /\ z.step = s
  BY <1>3 DEF IssuanceJobs
<1>4. dir.pem \in Files /\ dir.p12 \in Files /\ dir.pem.serial \in Serials
  BY <1>t DEF IssuanceTypeOK, Files
<1>5. NoJob.op = "none"
  BY DEF NoJob, Job
<1>6. rows \in Seq(CertRows) /\ Len(rows) \in Nat /\ DOMAIN rows = 1..Len(rows)
  BY <1>t DEF IssuanceTypeOK

<1>7. CASE StartServer \/ CreateCa \/ CreateFails \/ EnsureCrl \/ EnsureFails \/ RefreshMissingCrl
  BY <1>7, <1>t DEF StartServer, CreateCa, CreateFails, EnsureCrl, EnsureFails, RefreshMissingCrl,
     Unchanged, IssuanceInv,
     FileOnDisk, UnmixedExport, ToBeRecorded, UnknownIsLegacy, LookedUpIsLegacy,
     RowNamesItsCertificate, At

\* A request that mixes, and itself is neither to be packed up nor to be recorded.
<1>8. ASSUME NEW r \in Slots, NEW q \in IssuanceJobs, AdvanceMixing(r, q), rows' = rows,
             q.op \in {"enroll", "package"}, q.step \in {"sign", "key", "read", "p12"},
             FileOnDisk'
      PROVE  IssuanceInv'
  <2>1. /\ req'[r] = q
        /\ \A x \in Slots \ {r} :
              /\ req'[x].op = req[x].op /\ req'[x].step = req[x].step
              /\ req'[x].row = req[x].row /\ req'[x].given = req[x].given
              /\ req'[x].serial = req[x].serial
              /\ req[x].mixed => req'[x].mixed
              /\ req[x].op \in {"enroll", "package"} => req'[x].mixed
    BY <1>8, <1>t, OthersKeepTheirs, MixingIsNoted
  <2>2. UnmixedExport'
    BY <1>8, <2>1 DEF UnmixedExport, At
  <2>3. ToBeRecorded'
    BY <1>8, <2>1 DEF ToBeRecorded, At, IssuanceInv
  <2>4. LookedUpIsLegacy'
    BY <1>8, <2>1 DEF LookedUpIsLegacy, IssuanceInv
  <2> QED BY <1>8, <1>t, <2>2, <2>3, <2>4 DEF IssuanceInv, UnknownIsLegacy, RowNamesItsCertificate
<1>9. ASSUME NEW r \in Slots, WriteCsr(r) PROVE IssuanceInv'
  <2> DEFINE q == Job("enroll", "sign", Others(r))
  <2>1. q \in IssuanceJobs /\ q.op = "enroll" /\ q.step = "sign"
    BY <1>1 DEF Job, IssuanceJobs, Serials, Others
  <2>2. AdvanceMixing(r, q) /\ rows' = rows /\ dir' = [dir EXCEPT !.csr = r]
    BY <1>9 DEF WriteCsr
  <2>3. FileOnDisk'
    BY <2>2, <1>t DEF FileOnDisk, IssuanceInv, IssuanceTypeOK
  <2> QED BY <1>8, <2>1, <2>2, <2>3
<1>10. ASSUME NEW r \in Slots, RemakeDirectory(r) PROVE IssuanceInv'
  <2> DEFINE q == Job("package", "key", Others(r))
  <2>1. q \in IssuanceJobs /\ q.op = "package" /\ q.step = "key"
    BY <1>1 DEF Job, IssuanceJobs, Serials, Others
  <2>2. AdvanceMixing(r, q) /\ rows' = rows /\ dir' = Empty
    BY <1>10 DEF RemakeDirectory
  <2>3. FileOnDisk'
    BY <2>2 DEF FileOnDisk, Empty, NoFile
  <2> QED BY <1>8, <2>1, <2>2, <2>3
<1>11. ASSUME NEW r \in Slots, NewKey(r) PROVE IssuanceInv'
  <2> DEFINE q == [req[r] EXCEPT !.step = "sign"]
  <2>1. q \in IssuanceJobs /\ q.op = "package" /\ q.step = "sign"
    <3>1. req[r].op = "package" /\ req[r] \in IssuanceJobs
      BY <1>2, <1>11 DEF NewKey, At
    <3>2. \A z : z = q => z \in IssuanceJobs /\ z.op = req[r].op /\ z.step = "sign"
      BY <1>3, <3>1
    <3> QED BY <3>1, <3>2
  <2>2. AdvanceMixing(r, q) /\ rows' = rows /\ dir' = [dir EXCEPT !.key = r, !.csr = r]
    BY <1>11 DEF NewKey
  <2>3. FileOnDisk'
    BY <2>2, <1>t DEF FileOnDisk, IssuanceInv, IssuanceTypeOK
  <2> QED BY <1>8, <2>1, <2>2, <2>3
<1>12. ASSUME NEW r \in Slots, OpensslSigns(r) PROVE IssuanceInv'
  <2> DEFINE s == IF req[r].op = "enroll" THEN "read" ELSE "p12"
             q == [req[r] EXCEPT !.step = s]
             pem == [key |-> dir.csr, serial |-> serials + 1, age |-> "new"]
  <2>0. s \in {"read", "p12"}
    OBVIOUS
  <2>1. q \in IssuanceJobs /\ q.op = req[r].op /\ q.step = s
    <3>1. req[r] \in IssuanceJobs
      BY <1>2
    <3>2. \A z : z = q => z \in IssuanceJobs /\ z.op = req[r].op /\ z.step = s
      BY <1>3, <2>0, <3>1
    <3> QED BY <3>2
  <2>2. AdvanceMixing(r, q) /\ rows' = rows /\ dir' = [dir EXCEPT !.pem = pem]
    BY <1>12 DEF OpensslSigns
  <2>3. FileOnDisk'
    <3>1. dir'.pem = pem
      BY <2>2, <1>t DEF IssuanceTypeOK
    <3>2. pem.serial \in Nat /\ pem.age # "old"
      BY <1>t DEF IssuanceTypeOK
    <3> QED BY <3>1, <3>2 DEF FileOnDisk
  <2>4. req[r].op \in {"enroll", "package"}
    BY <1>12 DEF OpensslSigns
  <2> QED BY <1>8, <2>0, <2>1, <2>2, <2>3, <2>4

<1>13. ASSUME NEW r \in Slots, OpensslFails(r) PROVE IssuanceInv'
  BY <1>1, <1>5, <1>13, <1>t, GoingOn DEF OpensslFails, Fail
<1>14. ASSUME NEW r \in Slots, ReadPem(r) PROVE IssuanceInv'
  <2> DEFINE q == [req[r] EXCEPT !.step = "record", !.given = dir.pem]
  <2>1. q \in IssuanceJobs /\ q.op = "enroll" /\ q.step = "record" /\ q.given = dir.pem
    <3>1. ASSUME NEW y \in IssuanceJobs, NEW z, z = [y EXCEPT !.step = "record", !.given = dir.pem]
          PROVE  z \in IssuanceJobs /\ z.op = y.op /\ z.step = "record" /\ z.given = dir.pem
      BY <1>4, <3>1 DEF IssuanceJobs
    <3>2. req[r] \in IssuanceJobs /\ req[r].op = "enroll"
      BY <1>2, <1>14 DEF ReadPem, At
    <3> QED BY <3>1, <3>2
  <2>2. Advance(r, q) /\ dir' = dir /\ rows' = rows /\ dir.pem.serial \in Nat
    BY <1>14 DEF ReadPem, IssuanceInv, FileOnDisk
  <2> HIDE DEF q
  <2> QED BY <2>1, <2>2, <1>t, GoingOn
<1>15. ASSUME NEW r \in Slots, PackUp(r) PROVE IssuanceInv'
  <2> DEFINE q == [req[r] EXCEPT !.step = "record", !.given = dir.p12, !.serial = dir.pem.serial]
  <2>1. /\ q \in IssuanceJobs /\ q.op = "package" /\ q.step = "record" /\ q.given = dir.p12
        /\ q.serial = dir.pem.serial /\ q.mixed = req[r].mixed
    <3>1. ASSUME NEW y \in IssuanceJobs, NEW z,
                 z = [y EXCEPT !.step = "record", !.given = dir.p12, !.serial = dir.pem.serial]
          PROVE  /\ z \in IssuanceJobs /\ z.op = y.op /\ z.step = "record" /\ z.given = dir.p12
                 /\ z.serial = dir.pem.serial /\ z.mixed = y.mixed
      BY <1>4, <3>1 DEF IssuanceJobs
    <3>2. req[r] \in IssuanceJobs /\ req[r].op = "package"
      BY <1>2, <1>15 DEF PackUp, At
    <3> QED BY <3>1, <3>2
  <2>2. Advance(r, q) /\ dir' = dir /\ rows' = rows /\ dir.pem.serial \in Nat
    BY <1>15 DEF PackUp, IssuanceInv, FileOnDisk
  <2>3. q.mixed \/ dir.p12 = dir.pem
    BY <1>15, <2>1 DEF PackUp, IssuanceInv, UnmixedExport
  <2> HIDE DEF q
  <2> QED BY <2>1, <2>2, <2>3, <1>t, GoingOn
<1>16. ASSUME NEW r \in Slots, NEW i \in DOMAIN rows, LookUpLater(r, i) PROVE IssuanceInv'
  <2> DEFINE q == [NoJob EXCEPT !.op = "backfill", !.row = i]
  <2>1. q \in IssuanceJobs /\ q.op = "backfill" /\ q.row = i
    <3>1. ASSUME NEW y \in IssuanceJobs, NEW z, z = [y EXCEPT !.op = "backfill", !.row = i]
          PROVE  z \in IssuanceJobs /\ z.op = "backfill" /\ z.row = i
      <4>1. i \in Nat
        BY <1>6
      <4> QED BY <3>1, <4>1 DEF IssuanceJobs
    <3> QED BY <1>1, <3>1
  <2>2. Advance(r, q) /\ dir' = dir /\ rows' = rows
    BY <1>16 DEF LookUpLater, Begin, Advance
  <2>3. rows[i].given = Legacy(2)
    BY <1>6, <1>16 DEF LookUpLater, IssuanceInv, UnknownIsLegacy
  <2> HIDE DEF q
  <2> QED BY <2>1, <2>2, <2>3, <1>t, GoingOn

<1>17. ASSUME NEW r \in Slots, ExportP12(r) PROVE IssuanceInv'
  <2>1. req'[r] = [req[r] EXCEPT !.step = "zip"] /\ \A x \in Slots \ {r} : req'[x] = req[x]
    BY <1>17, <1>t DEF ExportP12, Advance, IssuanceTypeOK
  <2>2. req'[r].op = "package" /\ req'[r].step = "zip"
    <3>1. req[r] \in IssuanceJobs /\ req[r].op = "package"
      BY <1>2, <1>17 DEF ExportP12, At
    <3> QED BY <1>3, <2>1, <3>1
  <2>3. dir'.pem = dir.pem /\ dir'.p12 = dir.pem /\ rows' = rows
    BY <1>17, <1>t DEF ExportP12, IssuanceTypeOK
  <2>4. UnmixedExport'
    BY <2>3 DEF UnmixedExport
  <2>5. ToBeRecorded' /\ LookedUpIsLegacy'
    BY <2>1, <2>2, <2>3 DEF IssuanceInv, ToBeRecorded, LookedUpIsLegacy, At
  <2> QED BY <2>3, <2>4, <2>5, <1>t
          DEF IssuanceInv, FileOnDisk, UnknownIsLegacy, RowNamesItsCertificate

\* A row is added, whose serial number is known and right but for a mixed package.
<1>18. ASSUME NEW r \in Slots, NEW entry \in CertRows, Advance(r, NoJob), dir' = dir,
              rows' = Append(rows, entry), entry.serial # Unknown,
              entry.serial = entry.given.serial \/ (entry.op = "package" /\ entry.mixed)
       PROVE  IssuanceInv'
  <2>1. req'[r] = NoJob /\ \A x \in Slots \ {r} : req'[x] = req[x]
    BY <1>18, <1>t DEF Advance, IssuanceTypeOK
  <2>2. /\ DOMAIN rows' = 1..(Len(rows) + 1) /\ rows'[Len(rows) + 1] = entry
        /\ \A i \in DOMAIN rows : i \in DOMAIN rows' /\ rows'[i] = rows[i]
    BY <1>6, <1>18
  <2>3. FileOnDisk' /\ UnmixedExport' /\ ToBeRecorded'
    BY <1>5, <1>18, <2>1 DEF IssuanceInv, FileOnDisk, UnmixedExport, ToBeRecorded, At
  <2>4. UnknownIsLegacy'
    BY <1>6, <1>18, <2>2 DEF IssuanceInv, UnknownIsLegacy
  <2>5. LookedUpIsLegacy'
    BY <1>5, <2>1, <2>2 DEF IssuanceInv, LookedUpIsLegacy
  <2>6. RowNamesItsCertificate'
    BY <1>6, <1>18, <2>2 DEF IssuanceInv, RowNamesItsCertificate
  <2> QED BY <2>3, <2>4, <2>5, <2>6, <1>t DEF IssuanceInv
<1>19. ASSUME NEW r \in Slots, RecordEnrolled(r) PROVE IssuanceInv'
  <2> DEFINE entry == [op |-> "enroll", serial |-> req[r].given.serial, given |-> req[r].given,
                     mixed |-> req[r].mixed]
  <2>1. entry \in CertRows
    BY <1>2 DEF CertRows, Files
  <2>2. entry.serial \in Nat
    BY <1>19 DEF RecordEnrolled, IssuanceInv, ToBeRecorded
  <2>3. Advance(r, NoJob) /\ dir' = dir /\ rows' = Append(rows, entry) /\ entry.serial = entry.given.serial
    BY <1>19 DEF RecordEnrolled
  <2>4. entry.serial # Unknown
    BY <1>1, <2>2
  <2> HIDE DEF entry
  <2> QED BY <1>18, <2>1, <2>3, <2>4
<1>20. ASSUME NEW r \in Slots, RecordPackage(r) PROVE IssuanceInv'
  <2> DEFINE entry == [op |-> "package", serial |-> req[r].serial, given |-> req[r].given,
                     mixed |-> req[r].mixed]
  <2>1. entry \in CertRows
    BY <1>2 DEF CertRows, IssuanceJobs
  <2>2. entry.serial \in Nat /\ (entry.mixed \/ entry.serial = entry.given.serial)
    BY <1>20 DEF RecordPackage, IssuanceInv, ToBeRecorded
  <2>3. Advance(r, NoJob) /\ dir' = dir /\ rows' = Append(rows, entry) /\ entry.op = "package"
    BY <1>20 DEF RecordPackage
  <2>4. entry.serial # Unknown
    BY <1>1, <2>2
  <2> HIDE DEF entry
  <2> QED BY <1>18, <2>1, <2>2, <2>3, <2>4
<1>21. ASSUME NEW r \in Slots, BackfillSerial(r) PROVE IssuanceInv'
  <2> DEFINE i == req[r].row
             trusted == /\ dir.pem.age = rows[i].given.age
                        /\ \A j \in DOMAIN rows \ {i} : rows[j].serial # dir.pem.serial
  <2>1. req'[r] = NoJob /\ \A x \in Slots \ {r} : req'[x] = req[x]
    BY <1>21, <1>t DEF BackfillSerial, Advance, IssuanceTypeOK
  <2>2. dir' = dir /\ i \in DOMAIN rows /\ rows[i].given = Legacy(2)
    BY <1>21 DEF BackfillSerial, IssuanceInv, LookedUpIsLegacy
  <2>3. rows' = IF trusted THEN [rows EXCEPT ![i].serial = dir.pem.serial] ELSE rows
    BY <1>21 DEF BackfillSerial
  <2>4. trusted => dir.pem.serial = 2
    BY <2>2 DEF IssuanceInv, FileOnDisk, Legacy
  <2>5. /\ DOMAIN rows' = DOMAIN rows
        /\ \A j \in DOMAIN rows : /\ rows'[j].given = rows[j].given /\ rows'[j].op = rows[j].op
                                  /\ rows'[j].mixed = rows[j].mixed
                                  /\ j # i => rows'[j].serial = rows[j].serial
        /\ rows'[i].serial \in {rows[i].serial, 2}
    <3>1. \A j \in DOMAIN rows : rows[j] \in CertRows
      BY <1>6
    <3>2. ASSUME NEW y \in CertRows, NEW z, z = [y EXCEPT !.serial = 2]
          PROVE  z.given = y.given /\ z.op = y.op /\ z.mixed = y.mixed /\ z.serial = 2
      BY <3>2 DEF CertRows
    <3>3. CASE trusted
      <4>1. /\ DOMAIN rows' = DOMAIN rows /\ rows'[i] = [rows[i] EXCEPT !.serial = 2]
            /\ \A j \in DOMAIN rows \ {i} : rows'[j] = rows[j]
        BY <1>6, <2>2, <2>3, <2>4, <3>3
      <4>2. rows[i] \in CertRows
        BY <2>2, <3>1
      <4>3. /\ rows'[i].given = rows[i].given /\ rows'[i].op = rows[i].op
            /\ rows'[i].mixed = rows[i].mixed /\ rows'[i].serial = 2
        BY <3>2, <4>1, <4>2
      <4> QED BY <4>1, <4>3
    <3>4. CASE ~trusted
      BY <2>3, <3>4
    <3> QED BY <3>3, <3>4
  <2> HIDE DEF i, trusted
  <2>6. FileOnDisk' /\ UnmixedExport' /\ ToBeRecorded'
    BY <1>5, <2>1, <2>2 DEF IssuanceInv, FileOnDisk, UnmixedExport, ToBeRecorded, At
  <2>7. UnknownIsLegacy'
    BY <2>5, <1>1 DEF IssuanceInv, UnknownIsLegacy
  <2>8. LookedUpIsLegacy'
    BY <1>5, <2>1, <2>5 DEF IssuanceInv, LookedUpIsLegacy
  <2>9. RowNamesItsCertificate'
    BY <2>2, <2>5 DEF IssuanceInv, RowNamesItsCertificate, Legacy
  <2> QED BY <2>6, <2>7, <2>8, <2>9, <1>t DEF IssuanceInv
<1>22. CASE UNCHANGED issuanceVars
  BY <1>22, <1>t DEF issuanceVars, IssuanceInv, FileOnDisk, UnmixedExport, ToBeRecorded,
     UnknownIsLegacy, LookedUpIsLegacy, RowNamesItsCertificate, At
<1> QED BY <1>7, <1>9, <1>10, <1>11, <1>12, <1>13, <1>14, <1>15, <1>16, <1>17, <1>19, <1>20, <1>21,
           <1>22 DEF IssuanceNext

(* sign_csr, generate_zip and _serial_from_disk: whatever requests of one account run
   at once, and on whatever files an older release left, the serial number in a row is
   that of the certificate its holder has, but for a package that was mixed up with
   another request: so revoking the row revokes that certificate. *)
THEOREM RowsNameTheirCertificates == IssuanceSpec => []RowNamesItsCertificate
<1>1. IssuanceInit => IssuanceInv
  <2> SUFFICES ASSUME IssuanceInit PROVE IssuanceInv
    OBVIOUS
  <2>1. /\ IssuanceTypeOK /\ req = [r \in Slots |-> NoJob] /\ NoJob.op = "none"
    BY IssuanceStart DEF IssuanceInit, NoJob, Job
  <2>2. UnmixedExport /\ ToBeRecorded /\ LookedUpIsLegacy
    BY <2>1 DEF UnmixedExport, ToBeRecorded, LookedUpIsLegacy, At
  <2>3. CASE dir = Empty /\ rows = <<>>
    BY <2>1, <2>2, <2>3 DEF IssuanceInv, FileOnDisk, UnknownIsLegacy, RowNamesItsCertificate,
       Empty, NoFile
  <2>4. CASE dir = [Empty EXCEPT !.pem = Legacy(2)] /\ rows = <<OldRow(1), OldRow(2)>>
    <3>1. dir.pem = Legacy(2) /\ Legacy(2).serial = 2
      BY <2>4 DEF Empty, Legacy
    <3>2. DOMAIN rows = {1, 2} /\ rows[1] = OldRow(1) /\ rows[2] = OldRow(2)
      BY <2>4
    <3> QED BY <2>1, <2>2, <3>1, <3>2 DEF IssuanceInv, FileOnDisk, UnknownIsLegacy,
            RowNamesItsCertificate, OldRow
  <2> QED BY <2>3, <2>4 DEF IssuanceInit
<1>2. IssuanceInv => RowNamesItsCertificate
  BY DEF IssuanceInv
<1> QED BY <1>1, <1>2, IssuanceSteps, PTL DEF IssuanceSpec
-----------------------------------------------------------------------------
(* Device profiles. *)
Kinds == {"everyone", "group", "user", "device"}
ProfileRows == [on : BOOLEAN, targets : SUBSET Kinds, at : Nat,
                sets : [Keys -> Values \cup {Nothing}]]
Entries == [from : Ids \cup {0}, value : Values \cup {Nothing}]

ProfilesTypeOK ==
    /\ profile \in [Ids -> ProfileRows]
    /\ member \in BOOLEAN
    /\ clock \in Nat
    /\ saving \in [id : Ids, to : ProfileRows, made : Nat] \cup {NoSave}
    /\ device \in [Keys -> Values \cup {Nothing}]
    /\ lastSync \in Nat
    /\ syncing \in [began : Nat, read : [Keys -> Entries]]
    /\ passed \subseteq Keys

\* No update is ahead of the clock, the save under way is the latest of its profile,
\* and a sync begins no earlier than the one before it.
TimesInOrder ==
    /\ clock > 0 /\ lastSync <= clock /\ syncing.began <= clock
    /\ \A p \in Ids : /\ profile[p].at <= clock
                      /\ profile[p].on => profile[p].at > 0
    /\ saving # NoSave => /\ saving.to.at = saving.made
                          /\ saving.made \in 1..clock
                          /\ profile[saving.id].at <= saving.made
    /\ syncing.began > 0 => lastSync <= syncing.began

\* While a request is under way, a key either comes from a profile updated since it
\* began, or is as the request read it: then the device has it, or is sent it.
ReadOrUpdated ==
    syncing.began > 0 =>
        \A k \in Keys : Resolved[k] # NoEntry =>
            \/ k \in passed
            \/ UpdatedAt(Resolved[k]) >= syncing.began
            \/ /\ Resolved[k] = syncing.read[k]
               /\ \/ device[k] = Resolved[k].value
                  \/ lastSync = 0
                  \/ UpdatedAt(Resolved[k]) >= lastSync

SyncInv == ProfilesTypeOK /\ TimesInOrder /\ ReadOrUpdated /\ LackedWillCome

\* A profile is compared by its targets that match: of a set that is not empty, the
\* most specific is one of the four.
LevelOf(T) == CHOOSE n \in 0..3 : /\ \E t \in T : Specificity[t] = n
                                  /\ \A t \in T : Specificity[t] <= n
MatchedOf(f, m, p) == {t \in f[p].targets : t = "group" => m}
BeforeOf(f, m, p, q) ==
    LET l == LevelOf(MatchedOf(f, m, p)) h == LevelOf(MatchedOf(f, m, q))
    IN \/ l < h
       \/ l = h /\ f[p].at < f[q].at
       \/ l = h /\ f[p].at = f[q].at /\ p < q
SettingOf(f, m, k) ==
    {p \in Ids : f[p].on /\ MatchedOf(f, m, p) # {} /\ f[p].sets[k] # Nothing}
FirstOf(f, m, S) == CHOOSE p \in S : \A q \in S : q = p \/ BeforeOf(f, m, q, p)
EntryOf(f, m, k) ==
    IF SettingOf(f, m, k) = {} THEN NoEntry
    ELSE [from |-> FirstOf(f, m, SettingOf(f, m, k)),
          value |-> f[FirstOf(f, m, SettingOf(f, m, k))].sets[k]]

LEMMA LevelIsNumber ==
  ASSUME NEW T \in SUBSET Kinds, T # {}
  PROVE  LevelOf(T) \in 0..3
<1>1. \E n \in 0..3 : (\E t \in T : Specificity[t] = n) /\ (\A t \in T : Specificity[t] <= n)
  <2>1. CASE "device" \in T
    BY <2>1 DEF Kinds, Specificity
  <2>2. CASE "device" \notin T /\ "user" \in T
    BY <2>2 DEF Kinds, Specificity
  <2>3. CASE "device" \notin T /\ "user" \notin T /\ "group" \in T
    BY <2>3 DEF Kinds, Specificity
  <2>4. CASE T = {"everyone"}
    BY <2>4 DEF Specificity
  <2> QED BY <2>1, <2>2, <2>3, <2>4 DEF Kinds
<1> QED BY <1>1 DEF LevelOf

(* matching_profiles: of the profiles that set a key there is a last one, because
   there are finitely many and no two are alike in level, update time and id. *)
LEMMA LastExists ==
  ASSUME NEW f \in [Ids -> ProfileRows], NEW m \in BOOLEAN, NEW k \in Keys,
         SettingOf(f, m, k) # {}
  PROVE  FirstOf(f, m, SettingOf(f, m, k)) \in SettingOf(f, m, k)
<1> DEFINE S == SettingOf(f, m, k)
           L == [p \in S |-> LevelOf(MatchedOf(f, m, p))]
           Earlier(p, q) == \/ L[p] < L[q]
                            \/ L[p] = L[q] /\ f[p].at < f[q].at
                            \/ L[p] = L[q] /\ f[p].at = f[q].at /\ p < q
           After(p) == {q \in S : BeforeOf(f, m, p, q)}
           Few == {n \in Nat : \E p \in S : Cardinality(After(p)) = n}
<1>1. /\ S \subseteq Ids /\ S # {} /\ IsFiniteSet(S)
      /\ \A p \in S : p \in Nat /\ f[p].at \in Nat /\ L[p] \in 0..3
  <2>1. S \subseteq Ids /\ S # {}
    BY DEF SettingOf
  <2>2. IsFiniteSet(S)
    BY <2>1, FS_Subset, ProfilesAssumption
  <2>3. ASSUME NEW p \in S PROVE p \in Nat /\ f[p].at \in Nat /\ L[p] \in 0..3
    <3>1. p \in Ids /\ f[p] \in ProfileRows /\ MatchedOf(f, m, p) # {}
      BY <2>3 DEF SettingOf
    <3>2. MatchedOf(f, m, p) \in SUBSET Kinds
      BY <3>1 DEF MatchedOf, ProfileRows
    <3>3. LevelOf(MatchedOf(f, m, p)) \in 0..3
      BY <3>1, <3>2, LevelIsNumber
    <3> QED BY <3>1, <3>3, <2>3, ProfilesAssumption DEF ProfileRows
  <2> QED BY <2>1, <2>2, <2>3
<1>2. \A p, q \in S : BeforeOf(f, m, p, q) <=> Earlier(p, q)
  <2>1. \A p \in S : L[p] = LevelOf(MatchedOf(f, m, p))
    OBVIOUS
  <2> HIDE DEF S, L
  <2> QED BY <2>1 DEF BeforeOf
<1> HIDE DEF S, L
<1>3. ASSUME NEW p \in S, NEW q \in S, BeforeOf(f, m, p, q)
      PROVE  After(q) \subseteq After(p) /\ After(q) # After(p)
  <2>1. \A r \in S : BeforeOf(f, m, q, r) => BeforeOf(f, m, p, r)
    BY <1>1, <1>2, <1>3
  <2>2. ~ BeforeOf(f, m, q, q)
    BY <1>1, <1>2
  <2> QED BY <1>3, <2>1, <2>2
<1>4. \A p \in S : IsFiniteSet(After(p)) /\ Cardinality(After(p)) \in Nat
  <2> TAKE p \in S
  <2>1. After(p) \subseteq S
    OBVIOUS
  <2>2. IsFiniteSet(After(p))
    BY <2>1, <1>1, FS_Subset
  <2> QED BY <2>2, FS_CardinalityType
<1>5. PICK n \in Few : \A j \in Few : n <= j
  <2>1. Few # {} /\ Few \subseteq Nat
    BY <1>1, <1>4
  <2> HIDE DEF Few
  <2>2. IsWellFoundedOn(OpToRel(<, Nat), Nat)
    BY NatLessThanWellFounded
  <2>3. \E n \in Few : \A j \in Few : ~ (<<j, n>> \in OpToRel(<, Nat))
    BY <2>1, <2>2, WFMin
  <2>4. \A i, j \in Nat : <<i, j>> \in OpToRel(<, Nat) <=> i < j
    BY DEF OpToRel
  <2>5. PICK n \in Few : \A j \in Few : ~ (<<j, n>> \in OpToRel(<, Nat))
    BY <2>3
  <2>6. ASSUME NEW j \in Few PROVE n <= j
    <3>1. j \in Nat /\ n \in Nat
      BY <2>1
    <3>2. ~ (j < n)
      BY <3>1, <2>4, <2>5
    <3> QED BY <3>1, <3>2
  <2> QED BY <2>6
<1>6. PICK p \in S : Cardinality(After(p)) = n
  BY <1>5
<1>7. ASSUME NEW q \in S, q # p PROVE BeforeOf(f, m, q, p)
  <2>1. ~ BeforeOf(f, m, p, q)
    <3> SUFFICES ASSUME BeforeOf(f, m, p, q) PROVE FALSE
      OBVIOUS
    <3>1. Cardinality(After(q)) < Cardinality(After(p))
      <4>1. After(q) \subseteq After(p) /\ After(q) # After(p) /\ IsFiniteSet(After(p))
        BY <1>3, <1>4
      <4> QED BY <4>1, FS_Subset, <1>4
    <3>2. Cardinality(After(q)) \in Few
      BY <1>4
    <3>3. n <= Cardinality(After(q))
      BY <3>2, <1>5
    <3>4. Cardinality(After(q)) \in Nat /\ Cardinality(After(p)) \in Nat
      BY <1>4
    <3> HIDE DEF After
    <3> QED BY <3>1, <3>3, <3>4, <1>6
  <2>2. p # q /\ p \in Nat /\ q \in Nat /\ f[p].at \in Nat /\ f[q].at \in Nat
        /\ L[p] \in 0..3 /\ L[q] \in 0..3
    BY <1>1, <1>7
  <2>3. ~ Earlier(p, q)
    BY <2>1, <1>2
  <2>4. Earlier(q, p)
    BY <2>2, <2>3
  <2> QED BY <2>4, <1>2
<1>8. \E x \in S : \A q \in S : q = x \/ BeforeOf(f, m, q, x)
  BY <1>7
<1> QED BY <1>8 DEF FirstOf, S

LEMMA ResolvedIs ==
  Resolved = [k \in Keys |-> EntryOf(profile, member, k)]
<1>1. \A p \in Ids : Matched(p) = MatchedOf(profile, member, p)
  BY DEF Matched, MatchedOf
<1>2. \A p, q \in Ids : Before(p, q) <=> BeforeOf(profile, member, p, q)
  BY DEF Before, BeforeOf, Level, LevelOf, Matched, MatchedOf
<1>3. \A k \in Keys : Setting(k) = SettingOf(profile, member, k)
  BY <1>1 DEF Setting, Matching, SettingOf
<1>4. \A S \in SUBSET Ids : LastOf(S) = FirstOf(profile, member, S)
  BY DEF LastOf, FirstOf, Before, BeforeOf, Level, LevelOf, Matched, MatchedOf
<1>5. \A k \in Keys : SettingOf(profile, member, k) \in SUBSET Ids
  BY DEF SettingOf
<1> QED BY <1>3, <1>4, <1>5 DEF Resolved, EntryOf

LEMMA ResolvedFacts ==
  ASSUME ProfilesTypeOK, TimesInOrder
  PROVE  /\ Resolved \in [Keys -> Entries]
         /\ \A k \in Keys : Resolved[k] # NoEntry =>
              Resolved[k].from \in Ids /\ profile[Resolved[k].from].at \in Nat \ {0}
<1> SUFFICES ASSUME NEW k \in Keys
             PROVE  /\ EntryOf(profile, member, k) \in Entries
                    /\ EntryOf(profile, member, k) # NoEntry =>
                         /\ EntryOf(profile, member, k).from \in Ids
                         /\ profile[EntryOf(profile, member, k).from].at \in Nat \ {0}
  BY ResolvedIs
<1> DEFINE S == SettingOf(profile, member, k)
           p == FirstOf(profile, member, S)
<1>1. CASE S = {}
  BY <1>1 DEF EntryOf, NoEntry, Entries
<1>2. CASE S # {}
  <2>1. p \in S
    BY <1>2, LastExists DEF ProfilesTypeOK
  <2>2. p \in Ids /\ profile[p].on /\ profile[p] \in ProfileRows
    BY <2>1 DEF SettingOf, ProfilesTypeOK
  <2>3. profile[p].at \in Nat \ {0} /\ profile[p].sets[k] \in Values \cup {Nothing}
    BY <2>2 DEF ProfileRows, TimesInOrder
  <2>4. EntryOf(profile, member, k) = [from |-> p, value |-> profile[p].sets[k]]
    BY <1>2 DEF EntryOf
  <2> HIDE DEF p
  <2> QED BY <2>2, <2>3, <2>4 DEF Entries
<1> QED BY <1>1, <1>2

LEMMA ResolvedSame ==
  ASSUME profile' = profile, member' = member
  PROVE  Resolved' = Resolved
<1>1. Resolved = [k \in Keys |-> EntryOf(profile, member, k)]
  BY ResolvedIs
<1>2. (Resolved = [k \in Keys |-> EntryOf(profile, member, k)])'
  BY ResolvedIs, PTL
<1> QED BY <1>1, <1>2

LEMMA CommitTo ==
  ASSUME ProfilesTypeOK, TimesInOrder, saving # NoSave, Commit
  PROVE  /\ saving.id \in Ids /\ saving.to \in ProfileRows /\ saving.made \in 1..clock
         /\ saving.to.at = saving.made /\ profile[saving.id].at <= saving.made
         /\ profile' \in [Ids -> ProfileRows]
         /\ profile'[saving.id] = saving.to
         /\ \A p \in Ids : p # saving.id => profile'[p] = profile[p]
<1>1. saving \in [id : Ids, to : ProfileRows, made : Nat]
  BY DEF ProfilesTypeOK
<1>2. profile' = [profile EXCEPT ![saving.id] = saving.to] /\ profile \in [Ids -> ProfileRows]
  BY DEF Commit, ProfilesTypeOK
<1> QED BY <1>1, <1>2 DEF TimesInOrder

(* Stamp: the save under way is stamped with the time it is made. *)
LEMMA StampKeeps ==
  ASSUME ProfilesTypeOK, TimesInOrder, NEW p \in Ids, NEW to \in ProfileRows, Stamp(p, to),
         UNCHANGED <<profile, member, clock, device, lastSync, syncing, passed>>
  PROVE  ProfilesTypeOK' /\ TimesInOrder'
<1>1. saving' = [id |-> p, made |-> clock, to |-> [to EXCEPT !.at = clock]] /\ clock \in Nat
  BY DEF Stamp, ProfilesTypeOK
<1>2. [to EXCEPT !.at = clock] \in ProfileRows /\ [to EXCEPT !.at = clock].at = clock
  BY <1>1 DEF ProfileRows
<1> DEFINE new == [to EXCEPT !.at = clock]
<1> HIDE DEF new
<1>3. /\ saving' \in [id : Ids, to : ProfileRows, made : Nat]
      /\ saving'.id = p /\ saving'.made = clock /\ saving'.to.at = clock
  BY <1>1, <1>2 DEF new
<1>4. ProfilesTypeOK'
  BY <1>3 DEF ProfilesTypeOK
<1>5. TimesInOrder'
  BY <1>3, <1>1 DEF TimesInOrder
<1> QED BY <1>4, <1>5

LEMMA ProfilesTypingAndTimes ==
  ASSUME ProfilesTypeOK, TimesInOrder, [ProfilesNext]_profilesVars
  PROVE  ProfilesTypeOK' /\ TimesInOrder'
<1>0. Blank \in ProfileRows /\ Unread \in [began : Nat, read : [Keys -> Entries]]
      /\ Unread.began = 0
  BY DEF Blank, ProfileRows, Unread, Entries, NoEntry
<1>1. ASSUME NEW p \in Ids, Edit(p) PROVE ProfilesTypeOK' /\ TimesInOrder'
  <2>1. PICK on \in BOOLEAN, targets \in Audiences, sets \in [Keys -> Values \cup {Nothing}] :
          Stamp(p, [on |-> on, targets |-> targets, sets |-> sets, at |-> profile[p].at])
    BY <1>1 DEF Edit
  <2>2. profile[p].at \in Nat /\ targets \in SUBSET Kinds
    BY ProfilesAssumption DEF ProfilesTypeOK, ProfileRows, Kinds
  <2>3. [on |-> on, targets |-> targets, sets |-> sets, at |-> profile[p].at] \in ProfileRows
    BY <2>2 DEF ProfileRows
  <2>4. UNCHANGED <<profile, member, clock, device, lastSync, syncing, passed>>
    BY <1>1 DEF Edit
  <2> QED BY <2>1, <2>3, <2>4, StampKeeps
<1>2. ASSUME NEW p \in Ids, EditFile(p) PROVE ProfilesTypeOK' /\ TimesInOrder'
  <2>1. PICK k \in Keys, v \in Values \cup {Nothing} :
          Stamp(p, [profile[p] EXCEPT !.sets[k] = v])
    BY <1>2 DEF EditFile
  <2>2. [profile[p] EXCEPT !.sets[k] = v] \in ProfileRows
    BY DEF ProfilesTypeOK, ProfileRows
  <2>3. UNCHANGED <<profile, member, clock, device, lastSync, syncing, passed>>
    BY <1>2 DEF EditFile
  <2> QED BY <2>1, <2>2, <2>3, StampKeeps
<1>3. ASSUME Commit PROVE ProfilesTypeOK' /\ TimesInOrder'
  <2>1. saving # NoSave
    BY <1>3 DEF Commit
  <2>2. /\ saving.id \in Ids /\ saving.to \in ProfileRows /\ saving.made \in 1..clock
        /\ saving.to.at = saving.made
        /\ profile' \in [Ids -> ProfileRows]
        /\ profile'[saving.id] = saving.to
        /\ \A p \in Ids : p # saving.id => profile'[p] = profile[p]
    BY <1>3, <2>1, CommitTo
  <2>3. saving' = NoSave /\ UNCHANGED <<member, clock, device, lastSync, syncing>>
        /\ passed' \subseteq Keys
    BY <1>3 DEF Commit, Notice
  <2>4. ProfilesTypeOK'
    BY <2>2, <2>3 DEF ProfilesTypeOK
  <2>5. \A p \in Ids : profile'[p].at <= clock /\ (profile'[p].on => profile'[p].at > 0)
    BY <2>2 DEF TimesInOrder, ProfilesTypeOK
  <2>6. TimesInOrder'
    BY <2>3, <2>5 DEF TimesInOrder
  <2> QED BY <2>4, <2>6
<1>4. ASSUME NEW p \in Ids, DeleteProfile(p) PROVE ProfilesTypeOK' /\ TimesInOrder'
  <2>1. /\ profile' = [profile EXCEPT ![p] = Blank] /\ saving = NoSave
        /\ UNCHANGED <<member, clock, saving, device, lastSync, syncing>>
        /\ passed' \subseteq Keys
    BY <1>4 DEF DeleteProfile, Notice
  <2>2. ProfilesTypeOK'
    BY <2>1, <1>0 DEF ProfilesTypeOK
  <2>3. \A q \in Ids : profile'[q].at <= clock /\ (profile'[q].on => profile'[q].at > 0)
    BY <2>1 DEF TimesInOrder, ProfilesTypeOK, Blank
  <2>4. TimesInOrder'
    BY <2>1, <2>3 DEF TimesInOrder
  <2> QED BY <2>2, <2>4
<1>5. CASE JoinOrLeave
  <2>1. /\ member' = ~member /\ UNCHANGED <<profile, clock, saving, device, lastSync, syncing>>
        /\ passed' \subseteq Keys
    BY <1>5 DEF JoinOrLeave, Notice
  <2>2. member' \in BOOLEAN
    BY <2>1
  <2> QED BY <2>1, <2>2 DEF ProfilesTypeOK, TimesInOrder
<1>6. CASE Tick
  <2>1. /\ clock' = clock + 1 /\ clock \in Nat
        /\ UNCHANGED <<profile, member, saving, device, lastSync, syncing, passed>>
    BY <1>6 DEF Tick, ProfilesTypeOK
  <2>2. ProfilesTypeOK'
    BY <2>1 DEF ProfilesTypeOK
  <2>3. lastSync \in Nat /\ syncing.began \in Nat /\ \A p \in Ids : profile[p].at \in Nat
    BY DEF ProfilesTypeOK, ProfileRows
  <2>4. saving # NoSave => saving.made \in 1..clock'
    BY <2>1 DEF TimesInOrder
  <2>5. TimesInOrder'
    BY <2>1, <2>3, <2>4 DEF TimesInOrder
  <2> QED BY <2>2, <2>5
<1>7. CASE SyncReads
  <2>1. Resolved \in [Keys -> Entries]
    BY ResolvedFacts
  <2> QED BY <1>7, <2>1 DEF SyncReads, ProfilesTypeOK, TimesInOrder
<1>8. CASE SyncSends
  <2>1. /\ lastSync' = syncing.began /\ syncing' = Unread /\ passed' \subseteq Keys
        /\ UNCHANGED <<profile, member, clock, saving, saves>>
    BY <1>8 DEF SyncSends, ProfilesTypeOK, Close
  <2>2. device' \in [Keys -> Values \cup {Nothing}]
    <3>1. \A k \in Keys : syncing.read[k].value \in Values \cup {Nothing}
                          /\ device[k] \in Values \cup {Nothing}
      BY DEF ProfilesTypeOK, Entries
    <3> QED BY <3>1, <1>8 DEF SyncSends
  <2> QED BY <2>1, <2>2, <1>0 DEF ProfilesTypeOK, TimesInOrder
<1>9. CASE SyncFails
  BY <1>9, <1>0 DEF SyncFails, ProfilesTypeOK, TimesInOrder
<1>10. CASE UNCHANGED profilesVars
  BY <1>10 DEF profilesVars, ProfilesTypeOK, TimesInOrder
<1> QED
  BY <1>1, <1>2, <1>3, <1>4, <1>5, <1>6, <1>7, <1>8, <1>9, <1>10 DEF ProfilesNext

(* What is changed is noted: a key that has another value than before comes from a
   profile updated since the device last asked, or has passed it by. *)
LEMMA ChangeIsNoted ==
  ASSUME ProfilesTypeOK, TimesInOrder, ProfilesTypeOK', TimesInOrder',
         ReadOrUpdated, LackedWillCome,
         NEW p, NEW stamp, Notice(p, stamp),
         p \in Ids => stamp = profile'[p].at, p \in Ids \cup {0},
         \A q \in Ids : profile'[q].at > 0 => profile'[q].at >= profile[q].at,
         UNCHANGED <<device, lastSync, syncing>>
  PROVE  ReadOrUpdated' /\ LackedWillCome'
<1>1. /\ Resolved \in [Keys -> Entries]
      /\ \A k \in Keys : Resolved[k] # NoEntry =>
           Resolved[k].from \in Ids /\ profile[Resolved[k].from].at \in Nat \ {0}
  BY ResolvedFacts
<1>2. (/\ Resolved \in [Keys -> Entries]
       /\ \A k \in Keys : Resolved[k] # NoEntry =>
            Resolved[k].from \in Ids /\ profile[Resolved[k].from].at \in Nat \ {0})'
  BY ResolvedFacts, PTL
<1> DEFINE after == Resolved'
<1>3. \A k \in Keys : after[k] # NoEntry =>
         /\ after[k].from \in Ids
         /\ profile'[after[k].from].at \in Nat \ {0}
  BY <1>2
<1>4. lastSync \in Nat /\ syncing.began \in Nat /\ Began \in Nat
  BY DEF ProfilesTypeOK, Began
<1>5. ASSUME NEW k \in Keys, after[k] # NoEntry, k \in passed \/ after[k] # Resolved[k]
      PROVE  k \in passed' \/ profile'[after[k].from].at >= Began
  <2>1. CASE after[k].from = p
    BY <1>3, <1>4, <1>5, <2>1 DEF Notice
  <2>2. CASE after[k].from # p
    BY <1>3, <1>4, <1>5, <2>2 DEF Notice
  <2> QED BY <2>1, <2>2
<1>6. ASSUME NEW k \in Keys, after[k] # NoEntry, after[k] = Resolved[k]
      PROVE  /\ UpdatedAt(Resolved[k]) \in Nat /\ profile'[after[k].from].at \in Nat
             /\ UpdatedAt(Resolved[k]) <= profile'[after[k].from].at
  BY <1>1, <1>3, <1>6 DEF UpdatedAt
<1> HIDE DEF after
<1>7. ASSUME syncing.began > 0, NEW k \in Keys, after[k] # NoEntry
      PROVE  \/ k \in passed'
             \/ profile'[after[k].from].at >= syncing.began
             \/ /\ after[k] = syncing.read[k]
                /\ \/ device[k] = after[k].value
                   \/ lastSync = 0
                   \/ profile'[after[k].from].at >= lastSync
  <2>1. CASE k \in passed \/ after[k] # Resolved[k]
    BY <1>5, <1>7, <2>1 DEF Began
  <2>2. CASE k \notin passed /\ after[k] = Resolved[k]
    <3>1. \/ UpdatedAt(Resolved[k]) >= syncing.began
          \/ /\ Resolved[k] = syncing.read[k]
             /\ \/ device[k] = Resolved[k].value
                \/ lastSync = 0
                \/ UpdatedAt(Resolved[k]) >= lastSync
      BY <1>7, <2>2 DEF ReadOrUpdated
    <3>2. /\ UpdatedAt(Resolved[k]) \in Nat /\ profile'[after[k].from].at \in Nat
          /\ UpdatedAt(Resolved[k]) <= profile'[after[k].from].at
      BY <1>6, <1>7, <2>2
    <3> HIDE DEF UpdatedAt
    <3> QED BY <2>2, <3>1, <3>2, <1>4
  <2> QED BY <2>1, <2>2
<1>8. ASSUME lastSync > 0, syncing.began = 0, NEW k \in Keys, after[k] # NoEntry
      PROVE  \/ device[k] = after[k].value
             \/ profile'[after[k].from].at >= lastSync
             \/ k \in passed'
  <2>1. CASE k \in passed \/ after[k] # Resolved[k]
    BY <1>5, <1>8, <2>1 DEF Began
  <2>2. CASE k \notin passed /\ after[k] = Resolved[k]
    <3>1. device[k] = Resolved[k].value \/ UpdatedAt(Resolved[k]) >= lastSync
      BY <1>8, <2>2 DEF LackedWillCome
    <3>2. /\ UpdatedAt(Resolved[k]) \in Nat /\ profile'[after[k].from].at \in Nat
          /\ UpdatedAt(Resolved[k]) <= profile'[after[k].from].at
      BY <1>6, <1>8, <2>2
    <3> QED BY <2>2, <3>1, <3>2, <1>4
  <2> QED BY <2>1, <2>2
<1>9. device' = device /\ lastSync' = lastSync /\ syncing' = syncing
  OBVIOUS
<1>10. ReadOrUpdated'
  BY <1>7, <1>9 DEF ReadOrUpdated, UpdatedAt, after
<1>11. LackedWillCome'
  BY <1>8, <1>9 DEF LackedWillCome, UpdatedAt, after
<1> QED BY <1>10, <1>11

LEMMA SyncStep ==
  ASSUME SyncInv, [ProfilesNext]_profilesVars
  PROVE  SyncInv'
<1> USE DEF SyncInv
<1>0. ProfilesTypeOK' /\ TimesInOrder'
  BY ProfilesTypingAndTimes
<1>a. /\ Resolved \in [Keys -> Entries]
      /\ \A k \in Keys : Resolved[k] # NoEntry =>
           Resolved[k].from \in Ids /\ profile[Resolved[k].from].at \in Nat \ {0}
  BY ResolvedFacts
<1>b. lastSync \in Nat /\ syncing.began \in Nat /\ clock \in Nat
  BY DEF ProfilesTypeOK
<1>c. ASSUME UNCHANGED <<profile, member, device, lastSync, syncing, passed>>
      PROVE  ReadOrUpdated' /\ LackedWillCome'
  <2>1. Resolved' = Resolved
    BY <1>c, ResolvedSame
  <2> QED BY <2>1, <1>c DEF ReadOrUpdated, LackedWillCome, UpdatedAt
<1>1. ASSUME NEW p \in Ids, Edit(p) \/ EditFile(p) PROVE ReadOrUpdated' /\ LackedWillCome'
  BY <1>1, <1>c DEF Edit, EditFile
<1>2. ASSUME Commit PROVE ReadOrUpdated' /\ LackedWillCome'
  <2>1. saving # NoSave /\ Notice(saving.id, saving.made)
        /\ UNCHANGED <<device, lastSync, syncing>>
    BY <1>2 DEF Commit
  <2>2. /\ saving.id \in Ids /\ saving.made \in 1..clock
        /\ saving.to.at = saving.made /\ profile[saving.id].at <= saving.made
        /\ profile'[saving.id] = saving.to
        /\ \A p \in Ids : p # saving.id => profile'[p] = profile[p]
    BY <1>2, <2>1, CommitTo
  <2>3. \A q \in Ids : profile[q].at \in Nat
    BY DEF ProfilesTypeOK, ProfileRows
  <2>4. \A q \in Ids : profile'[q].at > 0 => profile'[q].at >= profile[q].at
    BY <2>2, <2>3
  <2>5. saving.made = profile'[saving.id].at
    BY <2>2
  <2> QED BY <1>0, <2>1, <2>2, <2>4, <2>5, ChangeIsNoted
<1>3. ASSUME NEW p \in Ids, DeleteProfile(p) PROVE ReadOrUpdated' /\ LackedWillCome'
  <2>1. /\ Notice(0, 0) /\ UNCHANGED <<device, lastSync, syncing>>
        /\ profile' = [profile EXCEPT ![p] = Blank]
    BY <1>3 DEF DeleteProfile
  <2>2. \A q \in Ids : profile'[q].at > 0 => profile'[q].at >= profile[q].at
    BY <2>1 DEF ProfilesTypeOK, ProfileRows, Blank
  <2>3. 0 \notin Ids
    BY ProfilesAssumption
  <2> QED BY <1>0, <2>1, <2>2, <2>3, ChangeIsNoted
<1>4. CASE JoinOrLeave
  <2>1. Notice(0, 0) /\ UNCHANGED <<profile, device, lastSync, syncing>>
    BY <1>4 DEF JoinOrLeave
  <2>2. \A q \in Ids : profile'[q].at > 0 => profile'[q].at >= profile[q].at
    BY <2>1 DEF ProfilesTypeOK, ProfileRows
  <2>3. 0 \notin Ids
    BY ProfilesAssumption
  <2> QED BY <1>0, <2>1, <2>2, <2>3, ChangeIsNoted
<1>5. CASE Tick
  <2>1. UNCHANGED <<profile, member, device, lastSync, syncing, passed>>
    BY <1>5 DEF Tick
  <2> QED BY <2>1, <1>0, <1>c
<1>6. CASE SyncReads
  <2>1. /\ syncing.began = 0 /\ syncing' = [began |-> clock, read |-> Resolved] /\ clock > 0
        /\ UNCHANGED <<profile, member, device, lastSync, passed>>
    BY <1>6 DEF SyncReads, TimesInOrder
  <2>2. Resolved' = Resolved
    BY <2>1, ResolvedSame
  <2>3. \A k \in Keys : Resolved[k] # NoEntry =>
           \/ lastSync = 0
           \/ device[k] = Resolved[k].value
           \/ UpdatedAt(Resolved[k]) >= lastSync
           \/ k \in passed
    BY <2>1, <1>b DEF LackedWillCome
  <2>4. syncing'.began > 0 /\ syncing'.began # 0 /\ syncing'.read = Resolved
    BY <2>1, <1>b
  <2>5. LackedWillCome'
    BY <2>4 DEF LackedWillCome
  <2>6. ReadOrUpdated'
    BY <2>1, <2>2, <2>3, <2>4 DEF ReadOrUpdated, UpdatedAt
  <2> QED BY <1>0, <2>5, <2>6
<1>7. CASE SyncSends
  <2>1. /\ syncing.began > 0 /\ lastSync' = syncing.began /\ syncing' = Unread
        /\ UNCHANGED <<profile, member>>
        /\ passed' = {k \in passed \cup Close : device'[k] # Resolved[k].value}
    BY <1>7 DEF SyncSends
  <2>a. PICK secago \in {syncing.began - lastSync, syncing.began - lastSync - 1} :
          \A k \in Keys :
            device'[k] = IF /\ syncing.read[k] # NoEntry
                            /\ lastSync > 0 /\ secago > 0 =>
                                 Recent(syncing.read[k], clock - secago)
                         THEN syncing.read[k].value ELSE device[k]
    BY <1>7 DEF SyncSends
  <2>b. /\ secago \in Int /\ lastSync <= syncing.began /\ syncing.began <= clock
        /\ clock - secago <= lastSync + (clock - syncing.began) + 1
    BY <2>1, <1>b DEF TimesInOrder
  <2>2. Resolved' = Resolved /\ Unread.began = 0
    BY <2>1, ResolvedSame DEF Unread
  <2>3. ASSUME NEW k \in Keys, Resolved[k] # NoEntry
        PROVE  \/ device'[k] = Resolved[k].value
               \/ UpdatedAt(Resolved[k]) >= syncing.began
               \/ k \in passed'
    <3>1. CASE k \in passed
      BY <2>1, <3>1
    <3>2. CASE /\ Resolved[k] = syncing.read[k]
               /\ \/ device[k] = Resolved[k].value
                  \/ lastSync = 0
                  \/ UpdatedAt(Resolved[k]) >= lastSync
      <4>1. device[k] = Resolved[k].value => device'[k] = Resolved[k].value
        BY <2>a, <3>2
      <4>2. lastSync = 0 => device'[k] = Resolved[k].value
        BY <2>a, <3>2, <2>3
      <4>3. ASSUME UpdatedAt(Resolved[k]) >= lastSync, k \notin Close
            PROVE  device'[k] = Resolved[k].value
        <5>1. UpdatedAt(Resolved[k]) \in Nat
          BY <1>a, <2>3 DEF UpdatedAt
        <5>2. UpdatedAt(Resolved[k]) > lastSync + (clock - syncing.began)
          BY <5>1, <4>3, <3>2, <2>3, <2>b, <1>b DEF Close
        <5>3. UpdatedAt(Resolved[k]) >= clock - secago
          BY <5>1, <5>2, <2>b, <1>b
        <5>4. Recent(syncing.read[k], clock - secago)
          BY <5>3, <3>2 DEF Recent
        <5> QED BY <5>4, <2>a, <3>2, <2>3
      <4> QED BY <4>1, <4>2, <4>3, <3>2, <2>1
    <3> QED BY <3>1, <3>2, <2>1, <2>3 DEF ReadOrUpdated
  <2>4. syncing'.began = 0 /\ ~ (syncing'.began > 0)
    BY <2>1, <2>2
  <2>5. ReadOrUpdated'
    BY <2>4 DEF ReadOrUpdated
  <2>6. LackedWillCome'
    BY <2>1, <2>2, <2>3 DEF LackedWillCome, UpdatedAt
  <2> QED BY <1>0, <2>5, <2>6
<1>8. CASE SyncFails
  <2>1. /\ syncing.began > 0 /\ syncing' = Unread /\ Unread.began = 0
        /\ UNCHANGED <<profile, member, device, lastSync, passed>>
    BY <1>8 DEF SyncFails, Unread
  <2>2. Resolved' = Resolved
    BY <2>1, ResolvedSame
  <2>3. lastSync <= syncing.began
    BY <2>1 DEF TimesInOrder
  <2>4. ASSUME NEW k \in Keys, Resolved[k] # NoEntry, lastSync > 0
        PROVE  \/ device[k] = Resolved[k].value
               \/ UpdatedAt(Resolved[k]) >= lastSync
               \/ k \in passed
    <3>1. UpdatedAt(Resolved[k]) \in Nat
      BY <2>4, <1>a DEF UpdatedAt
    <3> QED BY <3>1, <2>1, <2>3, <2>4, <1>b DEF ReadOrUpdated
  <2>5. syncing'.began = 0 /\ ~ (syncing'.began > 0)
    BY <2>1
  <2>6. ReadOrUpdated'
    BY <2>5 DEF ReadOrUpdated
  <2>7. LackedWillCome'
    BY <2>1, <2>2, <2>4 DEF LackedWillCome, UpdatedAt
  <2> QED BY <1>0, <2>6, <2>7
<1>9. CASE UNCHANGED profilesVars
  <2>1. UNCHANGED <<profile, member, device, lastSync, syncing, passed>>
    BY <1>9 DEF profilesVars
  <2> QED BY <2>1, <1>0, <1>c
<1>10. ReadOrUpdated' /\ LackedWillCome'
  BY <1>1, <1>2, <1>3, <1>4, <1>5, <1>6, <1>7, <1>8, <1>9 DEF ProfilesNext
<1> QED BY <1>0, <1>10

(* resolve_settings, resolve_files, _recently_updated: whatever administrators save,
   delete or regroup while a device asks, and however often its package is lost, what
   the device lacks of its merge is of a profile updated since it last asked, but for
   the keys that passed it by: those without such an update, and those updated so soon
   after a sync that the window of the next one may begin later. *)
THEOREM LackedSettingsWillCome ==
  ProfilesInit /\ [][ProfilesNext]_profilesVars => []LackedWillCome
<1>1. ProfilesInit => SyncInv
  <2> SUFFICES ASSUME ProfilesInit PROVE SyncInv
    OBVIOUS
  <2>1. Blank \in ProfileRows /\ ~Blank.on /\ Blank.at = 0
        /\ Unread \in [began : Nat, read : [Keys -> Entries]] /\ Unread.began = 0
    BY DEF Blank, ProfileRows, Unread, Entries, NoEntry
  <2>2. ProfilesTypeOK
    BY <2>1 DEF ProfilesInit, ProfilesTypeOK
  <2>3. TimesInOrder
    BY <2>1 DEF ProfilesInit, TimesInOrder
  <2> QED BY <2>1, <2>2, <2>3 DEF ProfilesInit, SyncInv, ReadOrUpdated, LackedWillCome
<1>2. SyncInv => LackedWillCome
  BY DEF SyncInv
<1> QED BY <1>1, <1>2, SyncStep, PTL
=============================================================================
