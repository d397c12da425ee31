---------------------------- MODULE TrustProofs ----------------------------
(***************************************************************************)
(* Proofs about whom this server and its federation hub trust:               *)
(* CertRevocation, for any number of certificates, requests and connections,  *)
(* and FederationPolicy, for any number of requests, servers and policies.    *)
(***************************************************************************)
EXTENDS CertRevocation, FederationPolicy, TLAPS

(* CertRevocation: the files, rows, requests and handlers keep the shape TypeOK
   describes; no row is marked revoked that does not exist. *)
THEOREM RevocationTyping == Spec => []TypeOK
<1>1. Init => TypeOK
  BY CertAssumption DEF Init, TypeOK
<1>2. TypeOK /\ [Next]_vars => TypeOK'
  <2> SUFFICES ASSUME TypeOK, [Next]_vars PROVE TypeOK'
    OBVIOUS
  <2> USE CertAssumption
  <2>1. ASSUME NEW c \in Certs, EnrollCheck(c) PROVE TypeOK'
    BY <2>1 DEF TypeOK, EnrollCheck, fileVars, serverVars, rowVars, blockVars,
       requestVars, connVars, queueVars
  <2>2. ASSUME NEW c \in Certs, EnrollRecord(c) PROVE TypeOK'
    BY <2>2 DEF TypeOK, EnrollRecord, fileVars, serverVars, blockVars,
       requestVars, connVars, queueVars
  <2>3. ASSUME NEW d \in Devices, AllowEnrollment(d) PROVE TypeOK'
    BY <2>3 DEF TypeOK, AllowEnrollment, fileVars, serverVars, rowVars,
       requestVars, connVars, queueVars
  <2>4. ASSUME NEW r \in Requests, NEW S \in SUBSET recorded, PickRows(r, S)
        PROVE TypeOK'
    <3>1. SerialsOf(S) \subseteq Serials
      BY DEF SerialsOf, TypeOK
    <3> QED BY <2>4, <3>1 DEF TypeOK, PickRows, Step, fileVars, serverVars,
                rowVars, blockVars, connVars, queueVars
  <2>5. ASSUME NEW r \in Requests, NEW s \in Serials, PickSerial(r, s) PROVE TypeOK'
    BY <2>5 DEF TypeOK, PickSerial, Step, fileVars, serverVars, rowVars,
       blockVars, connVars, queueVars
  <2>6. ASSUME NEW r \in Requests, WriteIndex(r) PROVE TypeOK'
    BY <2>6 DEF TypeOK, WriteIndex, Step, serverVars, rowVars, blockVars,
       connVars, queueVars
  <2>7. ASSUME NEW r \in Requests, Gencrl(r) PROVE TypeOK'
    BY <2>7 DEF TypeOK, Gencrl, Step, rowVars, blockVars, connVars, queueVars
  <2>8. ASSUME NEW r \in Requests, MarkRows(r) PROVE TypeOK'
    BY <2>8 DEF TypeOK, MarkRows, Step, fileVars, serverVars, blockVars,
       connVars, queueVars
  <2>9. ASSUME NEW r \in Requests, BlockEnrollment(r) PROVE TypeOK'
    BY <2>9 DEF TypeOK, BlockEnrollment, Block, Step, fileVars, serverVars,
       rowVars, connVars, queueVars
  <2>10. ASSUME NEW r \in Requests, NEW S \in SUBSET serials[r], Kick(r, S)
         PROVE TypeOK'
    <3>1. control' \subseteq Conns \X Serials
      BY <2>10 DEF TypeOK, Kick, Serial
    <3> QED BY <2>10, <3>1 DEF TypeOK, Kick, fileVars, serverVars, rowVars, blockVars
  <2>11. ASSUME NEW r \in Requests, RequestFails(r) PROVE TypeOK'
    BY <2>11 DEF TypeOK, RequestFails, serverVars, rowVars, blockVars,
       connVars, queueVars
  <2>12. CASE RefreshCrl
    BY <2>12 DEF TypeOK, RefreshCrl, rowVars, blockVars, requestVars, connVars,
       queueVars
  <2>13. ASSUME NEW k \in Conns, Accept(k) PROVE TypeOK'
    <3>1. loaded' \subseteq Serials
      BY <2>13 DEF TypeOK, Accept
    <3> QED BY <2>13, <3>1 DEF TypeOK, Accept, fileVars, rowVars, blockVars,
                requestVars, queueVars
  <2>14. ASSUME NEW k \in Conns, Handshake(k) PROVE TypeOK'
    <3>1. CASE Serial(k) \in ctx[k]
      BY <2>14, <3>1 DEF TypeOK, Handshake, CloseConnection, Unshared,
         fileVars, serverVars, rowVars, blockVars, requestVars
    <3>2. CASE Serial(k) \notin ctx[k]
      BY <2>14, <3>2 DEF TypeOK, Handshake, Unshared, fileVars, serverVars,
         rowVars, blockVars, requestVars, queueVars
    <3> QED BY <3>1, <3>2
  <2>15. ASSUME NEW k \in Conns, CheckIndex(k) PROVE TypeOK'
    BY <2>15 DEF TypeOK, CheckIndex, CloseConnection, Unshared, fileVars,
       serverVars, rowVars, blockVars, requestVars
  <2>16. ASSUME NEW k \in Conns, ChannelOpen(k) PROVE TypeOK'
    BY <2>16 DEF TypeOK, ChannelOpen, Unshared, fileVars, serverVars, rowVars,
       blockVars, requestVars
  <2>17. ASSUME NEW k \in Conns, BindControl(k) PROVE TypeOK'
    BY <2>17 DEF TypeOK, BindControl, Unshared, fileVars, serverVars, rowVars,
       blockVars, requestVars
  <2>18. ASSUME NEW k \in Conns, BrokerBinds(k) PROVE TypeOK'
    BY <2>18 DEF TypeOK, BrokerBinds, Unshared, fileVars, serverVars, rowVars,
       blockVars, requestVars
  <2>19. ASSUME NEW k \in Conns, Recheck(k) PROVE TypeOK'
    BY <2>19 DEF TypeOK, Recheck, CloseConnection, Unshared, fileVars,
       serverVars, rowVars, blockVars, requestVars, queueVars
  <2>20. ASSUME NEW m \in control, HandleRevoke(m) PROVE TypeOK'
    <3>1. m[1] \in Conns
      BY DEF TypeOK
    <3> QED BY <2>20, <3>1 DEF TypeOK, HandleRevoke, CloseConnection, Unshared,
                fileVars, serverVars, rowVars, blockVars, requestVars
  <2>21. ASSUME NEW k \in Conns, Supersede(k) PROVE TypeOK'
    BY <2>21 DEF TypeOK, Supersede, Unshared, fileVars, serverVars, rowVars,
       blockVars, requestVars, queueVars
  <2>22. ASSUME NEW k \in Conns, ChannelLost(k) PROVE TypeOK'
    BY <2>22 DEF TypeOK, ChannelLost, Unshared, fileVars, serverVars, rowVars,
       blockVars, requestVars
  <2>23. ASSUME NEW k \in Conns, PeerLeaves(k) PROVE TypeOK'
    BY <2>23 DEF TypeOK, PeerLeaves, Unshared, fileVars, serverVars, rowVars,
       blockVars, requestVars
  <2>24. CASE UNCHANGED vars
    BY <2>24 DEF TypeOK, vars, fileVars, serverVars, rowVars, blockVars,
       requestVars, connVars, queueVars
  <2> QED
    BY <2>1, <2>2, <2>3, <2>4, <2>5, <2>6, <2>7, <2>8, <2>9, <2>10, <2>11,
       <2>12, <2>13, <2>14, <2>15, <2>16, <2>17, <2>18, <2>19, <2>20, <2>21,
       <2>22, <2>23, <2>24 DEF Next, Request, Handler
<1> QED BY <1>1, <1>2, PTL DEF Spec
-----------------------------------------------------------------------------
(* The strengthening behind RevokedIsInCrl: the CRL is never ahead of the index,
   only the holder of the lock is between the two, and the serials of a request
   that has left the lock are in the CRL. *)
CrlInv ==
    /\ crl \subseteq index
    /\ \A r \in Requests :
        /\ rpc[r] = "locked" => serials[r] \subseteq index
        /\ rpc[r] \in {"listed", "marked", "blocked", "done"} => serials[r] \subseteq crl
    /\ RevokedIsInCrl

crlVars == <<index, crl, rpc, serials, marked, kicked>>

(* A step that leaves index, CRL, requests and marks alone keeps CrlInv. *)
LEMMA CrlFrame == CrlInv /\ UNCHANGED crlVars => CrlInv'
  BY DEF CrlInv, RevokedIsInCrl, SerialsOf, crlVars

(* Every step keeps CrlInv: a request marks and kicks only after its CRL. *)
LEMMA CrlStep == TypeOK /\ CrlInv /\ [Next]_vars => CrlInv'
<1> SUFFICES ASSUME TypeOK, CrlInv, [Next]_vars PROVE CrlInv'
  OBVIOUS
<1> USE DEF TypeOK
<1>1. ASSUME NEW c \in Certs, EnrollCheck(c) \/ EnrollRecord(c) PROVE CrlInv'
  BY <1>1, CrlFrame DEF EnrollCheck, EnrollRecord, crlVars, fileVars, rowVars,
     requestVars
<1>2. ASSUME NEW d \in Devices, AllowEnrollment(d) PROVE CrlInv'
  BY <1>2, CrlFrame DEF AllowEnrollment, crlVars, fileVars, rowVars, requestVars
<1>3. ASSUME NEW r \in Requests, NEW S \in SUBSET recorded, PickRows(r, S)
      PROVE CrlInv'
  BY <1>3 DEF CrlInv, RevokedIsInCrl, SerialsOf, PickRows, Step, fileVars, rowVars
<1>4. ASSUME NEW r \in Requests, NEW s \in Serials, PickSerial(r, s) PROVE CrlInv'
  BY <1>4 DEF CrlInv, RevokedIsInCrl, SerialsOf, PickSerial, Step, fileVars, rowVars
<1>5. ASSUME NEW r \in Requests, WriteIndex(r) PROVE CrlInv'
  BY <1>5 DEF CrlInv, RevokedIsInCrl, SerialsOf, WriteIndex, Step, rowVars
<1>6. ASSUME NEW r \in Requests, Gencrl(r) PROVE CrlInv'
  BY <1>6 DEF CrlInv, RevokedIsInCrl, SerialsOf, Gencrl, Step, rowVars
<1>7. ASSUME NEW r \in Requests, MarkRows(r) PROVE CrlInv'
  BY <1>7 DEF CrlInv, RevokedIsInCrl, SerialsOf, MarkRows, Step, fileVars
<1>8. ASSUME NEW r \in Requests, BlockEnrollment(r) PROVE CrlInv'
  BY <1>8 DEF CrlInv, RevokedIsInCrl, SerialsOf, BlockEnrollment, Block, Step,
     fileVars, rowVars
<1>9. ASSUME NEW r \in Requests, NEW S \in SUBSET serials[r], Kick(r, S)
      PROVE CrlInv'
  BY <1>9 DEF CrlInv, RevokedIsInCrl, SerialsOf, Kick, fileVars, rowVars
<1>10. ASSUME NEW r \in Requests, RequestFails(r) PROVE CrlInv'
  BY <1>10 DEF CrlInv, RevokedIsInCrl, SerialsOf, RequestFails, rowVars
<1>11. CASE RefreshCrl
  BY <1>11 DEF CrlInv, RevokedIsInCrl, SerialsOf, RefreshCrl, rowVars, requestVars
<1>12. ASSUME NEW k \in Conns, Accept(k) PROVE CrlInv'
  BY <1>12, CrlFrame DEF Accept, crlVars, fileVars, rowVars, requestVars
<1>13. ASSUME Unshared' = Unshared PROVE CrlInv'
  BY <1>13, CrlFrame DEF Unshared, crlVars, fileVars, rowVars, requestVars
<1>14. ASSUME NEW k \in Conns, Handler(k) PROVE CrlInv'
  BY <1>13, <1>14 DEF Handler, Handshake, CheckIndex, ChannelOpen, BindControl,
     BrokerBinds, Recheck
<1>15. ASSUME NEW m \in control, HandleRevoke(m) PROVE CrlInv'
  BY <1>13, <1>15 DEF HandleRevoke
<1>16. ASSUME NEW k \in Conns, Supersede(k) \/ ChannelLost(k) \/ PeerLeaves(k)
       PROVE CrlInv'
  BY <1>13, <1>16 DEF Supersede, ChannelLost, PeerLeaves
<1>17. CASE UNCHANGED vars
  BY <1>17, CrlFrame DEF vars, crlVars, fileVars, rowVars, requestVars
<1> QED
  BY <1>1, <1>2, <1>3, <1>4, <1>5, <1>6, <1>7, <1>8, <1>9, <1>10, <1>11, <1>12,
     <1>14, <1>15, <1>16, <1>17 DEF Next, Request

(* revoke_certificates: whatever other requests, failures and CRL refreshes
   happen meanwhile, a row is only marked and a session only told to leave when
   the CRL already refuses the certificate. *)
THEOREM MarkedAfterCrl == Spec => []RevokedIsInCrl
<1>1. Init => CrlInv
  BY DEF Init, CrlInv, RevokedIsInCrl, SerialsOf
<1>2. CrlInv => RevokedIsInCrl
  BY DEF CrlInv
<1> QED BY <1>1, <1>2, CrlStep, RevocationTyping, PTL DEF Spec
-----------------------------------------------------------------------------
(* The strengthening behind KickedSessionsAreOnTheirWayOut: a handler that has
   read the index again has its queue bound, so that a later kick reaches it,
   and did not find its serial in the index, so that no kick came before. *)
SessionOk(k) ==
    /\ pc[k] \in {"new", "accepted"} => ctl[k] = "no" /\ ~rechecked[k]
    /\ ctl[k] \in {"asked", "sent", "bound"} => pc[k] \in {"shaken", "serving"}
    /\ pc[k] \in {"shaken", "serving"} /\ rechecked[k] =>
        /\ ctl[k] = "bound"
        /\ Serial(k) \in kicked => <<k, Serial(k)>> \in control

SessionInv == \A k \in Conns : SessionOk(k)

sessionVars == <<pc, ctl, control, rechecked, kicked>>

(* A step that leaves handlers and kicks alone keeps SessionInv. *)
LEMMA SessionFrame == SessionInv /\ UNCHANGED sessionVars => SessionInv'
  BY DEF SessionInv, SessionOk, sessionVars, Serial

(* What the close of one handler leaves of the other handlers. *)
LEMMA SessionCloses ==
    ASSUME TypeOK, SessionInv, NEW k \in Conns,
           pc' = [pc EXCEPT ![k] = pc'[k]], pc'[k] \in {"lingering", "closed"},
           ctl' = [ctl EXCEPT ![k] = "no"],
           control' = {m \in control : m[1] # k},
           UNCHANGED kicked,
           \A o \in Conns \ {k} : rechecked'[o] = rechecked[o]
    PROVE  SessionInv'
<1> SUFFICES ASSUME NEW o \in Conns PROVE SessionOk(o)'
  BY DEF SessionInv
<1>1. CASE o = k
  BY <1>1 DEF TypeOK, SessionOk
<1>2. CASE o # k
  BY <1>2 DEF TypeOK, SessionInv, SessionOk, Serial
<1> QED BY <1>1, <1>2

(* Every step keeps SessionInv: no session misses the kick of its serial. *)
LEMMA SessionStep ==
    BrokerKeepsUp /\ TypeOK /\ CrlInv /\ SessionInv /\ [Next]_vars => SessionInv'
<1> SUFFICES ASSUME BrokerKeepsUp, TypeOK, CrlInv, SessionInv, [Next]_vars
             PROVE  SessionInv'
  OBVIOUS
<1>0. kicked \subseteq index
  BY DEF CrlInv, RevokedIsInCrl
<1>1. ASSUME UNCHANGED <<connVars, kicked>> PROVE SessionInv'
  BY <1>1, SessionFrame DEF connVars, queueVars, sessionVars
<1>2. ASSUME NEW c \in Certs, EnrollCheck(c) \/ EnrollRecord(c) PROVE SessionInv'
  BY <1>1, <1>2 DEF EnrollCheck, EnrollRecord
<1>3. ASSUME NEW d \in Devices, AllowEnrollment(d) PROVE SessionInv'
  BY <1>1, <1>3 DEF AllowEnrollment
<1>4. ASSUME NEW r \in Requests, NEW S \in SUBSET serials[r], Kick(r, S)
      PROVE SessionInv'
  <2> SUFFICES ASSUME NEW k \in Conns PROVE SessionOk(k)'
    BY DEF SessionInv
  <2>1. /\ UNCHANGED <<pc, ctl, rechecked>>
        /\ kicked' = kicked \cup S
        /\ control \subseteq control'
        /\ ctl[k] = "bound" /\ Serial(k) \in S => <<k, Serial(k)>> \in control'
    BY <1>4 DEF Kick, Serial
  <2> QED BY <2>1 DEF SessionInv, SessionOk, Serial
<1>5. ASSUME NEW r \in Requests, Request(r) PROVE SessionInv'
  BY <1>1, <1>4, <1>5 DEF Request, PickRows, PickSerial, WriteIndex, Gencrl,
     MarkRows, BlockEnrollment, Block, RequestFails
<1>6. CASE RefreshCrl
  BY <1>1, <1>6 DEF RefreshCrl
<1>7. ASSUME NEW k \in Conns, Accept(k) PROVE SessionInv'
  BY <1>7 DEF Accept, TypeOK, SessionInv, SessionOk, Serial, queueVars
<1>8. ASSUME NEW k \in Conns, CloseConnection(k), UNCHANGED kicked,
             \A o \in Conns \ {k} : rechecked'[o] = rechecked[o]
      PROVE SessionInv'
  BY <1>8, SessionCloses DEF CloseConnection, TypeOK
<1>9. ASSUME NEW k \in Conns, Handshake(k) PROVE SessionInv'
  <2>1. CASE Serial(k) \in ctx[k]
    BY <1>8, <1>9, <2>1 DEF Handshake, Unshared
  <2>2. CASE Serial(k) \notin ctx[k]
    BY <1>9, <2>2 DEF Handshake, Unshared, queueVars, TypeOK, SessionInv,
       SessionOk, Serial
  <2> QED BY <2>1, <2>2
<1>10. ASSUME NEW k \in Conns, CheckIndex(k) PROVE SessionInv'
  <2>1. CASE Serial(k) \in index
    BY <1>8, <1>10, <2>1 DEF CheckIndex, Unshared
  <2>2. CASE Serial(k) \notin index
    BY <1>10, <2>2 DEF CheckIndex, Unshared, TypeOK, SessionInv, SessionOk, Serial
  <2> QED BY <2>1, <2>2
<1>11. ASSUME NEW k \in Conns, ChannelOpen(k) PROVE SessionInv'
  BY <1>11 DEF ChannelOpen, Unshared, TypeOK, SessionInv, SessionOk, Serial
<1>12. ASSUME NEW k \in Conns, BindControl(k) PROVE SessionInv'
  BY <1>12 DEF BindControl, Unshared, TypeOK, SessionInv, SessionOk, Serial
<1>13. ASSUME NEW k \in Conns, BrokerBinds(k) PROVE SessionInv'
  BY <1>13 DEF BrokerBinds, Unshared, TypeOK, SessionInv, SessionOk, Serial
<1>14. ASSUME NEW k \in Conns, Recheck(k) PROVE SessionInv'
  <2>1. CASE Serial(k) \in index
    BY <1>8, <1>14, <2>1 DEF Recheck, MayRecheck, Unshared, TypeOK
  <2>2. CASE Serial(k) \notin index
    BY <1>0, <1>14, <2>2 DEF Recheck, MayRecheck, Unshared, queueVars, TypeOK, SessionInv,
       SessionOk, Serial
  <2> QED BY <2>1, <2>2
<1>15. ASSUME NEW m \in control, HandleRevoke(m) PROVE SessionInv'
  <2>1. m[1] \in Conns
    BY DEF TypeOK
  <2> QED BY <1>8, <1>15, <2>1 DEF HandleRevoke, Unshared
<1>16. ASSUME NEW k \in Conns, Supersede(k) PROVE SessionInv'
  BY <1>16, SessionFrame DEF Supersede, Unshared, queueVars, sessionVars
<1>17. ASSUME NEW k \in Conns, ChannelLost(k) \/ PeerLeaves(k) PROVE SessionInv'
  BY <1>17, SessionCloses DEF ChannelLost, PeerLeaves, Unshared, TypeOK
<1>18. CASE UNCHANGED vars
  BY <1>1, <1>18 DEF vars
<1> QED
  BY <1>2, <1>3, <1>5, <1>6, <1>7, <1>9, <1>10, <1>11, <1>12, <1>13, <1>14,
     <1>15, <1>16, <1>17, <1>18 DEF Next, Handler

(* bind_cert_control_queue: a session whose serial was kicked has the message
   in its queue or its second look at the index ahead, when the broker has
   handled the binding before the index is read. *)
THEOREM KickedSessionsLeave ==
    BrokerKeepsUp /\ Spec => []KickedSessionsAreOnTheirWayOut
<1> SUFFICES ASSUME BrokerKeepsUp PROVE Spec => []KickedSessionsAreOnTheirWayOut
  OBVIOUS
<1>1. Init => CrlInv /\ SessionInv
  BY DEF Init, CrlInv, RevokedIsInCrl, SerialsOf, SessionInv, SessionOk
<1>2. TypeOK /\ CrlInv /\ SessionInv /\ [Next]_vars => CrlInv' /\ SessionInv'
  BY CrlStep, SessionStep
<1>3. SessionInv => KickedSessionsAreOnTheirWayOut
  BY DEF SessionInv, SessionOk, KickedSessionsAreOnTheirWayOut
<1> QED BY <1>1, <1>2, <1>3, RevocationTyping, PTL DEF Spec
-----------------------------------------------------------------------------
(* The strengthening behind RevokedDeviceIsBlocked: requests revoke rows, and a
   row exists only after its enrollment, so that no enrollment makes one of
   them its device's newest row again. *)
BlockInv ==
    /\ \A c \in recorded : enroll[c] = "done"
    /\ \A r \in Requests : target[r] \subseteq recorded
    /\ RevokedDeviceIsBlocked

blockingVars == <<recorded, newest, enroll, blocked, lifted, rpc, target>>

(* A step that leaves rows, blocks and requests alone keeps BlockInv. *)
LEMMA BlockFrame == BlockInv /\ UNCHANGED blockingVars => BlockInv'
  BY DEF BlockInv, RevokedDeviceIsBlocked, blockingVars

(* Every step keeps BlockInv: a newest row that was revoked blocks its device. *)
LEMMA BlockStep == TypeOK /\ BlockInv /\ [Next]_vars => BlockInv'
<1> SUFFICES ASSUME TypeOK, BlockInv, [Next]_vars PROVE BlockInv'
  OBVIOUS
<1>1. ASSUME NEW c \in Certs, EnrollCheck(c) PROVE BlockInv'
  BY <1>1 DEF EnrollCheck, TypeOK, BlockInv, RevokedDeviceIsBlocked, rowVars,
     blockVars, requestVars
<1>2. ASSUME NEW c \in Certs, EnrollRecord(c) PROVE BlockInv'
  <2>1. c \notin recorded
    BY <1>2 DEF EnrollRecord, BlockInv
  <2>2. RevokedDeviceIsBlocked'
    BY <1>2, <2>1, CertAssumption DEF EnrollRecord, TypeOK, BlockInv,
       RevokedDeviceIsBlocked, blockVars, requestVars
  <2> QED BY <1>2, <2>2 DEF EnrollRecord, TypeOK, BlockInv, requestVars
<1>3. ASSUME NEW d \in Devices, AllowEnrollment(d) PROVE BlockInv'
  BY <1>3 DEF AllowEnrollment, BlockInv, RevokedDeviceIsBlocked, rowVars, requestVars
<1>4. ASSUME NEW r \in Requests, NEW S \in SUBSET recorded, PickRows(r, S)
      PROVE BlockInv'
  BY <1>4 DEF PickRows, Step, TypeOK, BlockInv, RevokedDeviceIsBlocked, rowVars, blockVars
<1>5. ASSUME NEW r \in Requests, NEW s \in Serials, PickSerial(r, s) PROVE BlockInv'
  BY <1>5 DEF PickSerial, Step, TypeOK, BlockInv, RevokedDeviceIsBlocked, rowVars, blockVars
<1>6. ASSUME NEW r \in Requests, WriteIndex(r) PROVE BlockInv'
  BY <1>6 DEF WriteIndex, Step, TypeOK, BlockInv, RevokedDeviceIsBlocked, rowVars, blockVars
<1>7. ASSUME NEW r \in Requests, Gencrl(r) PROVE BlockInv'
  BY <1>7 DEF Gencrl, Step, TypeOK, BlockInv, RevokedDeviceIsBlocked, rowVars, blockVars
<1>8. ASSUME NEW r \in Requests, MarkRows(r) PROVE BlockInv'
  BY <1>8 DEF MarkRows, Step, TypeOK, BlockInv, RevokedDeviceIsBlocked, blockVars
<1>9. ASSUME NEW r \in Requests, BlockEnrollment(r) PROVE BlockInv'
  <2>1. blocked \cup lifted \subseteq blocked' \cup lifted'
    BY <1>9 DEF BlockEnrollment, Block
  <2>2. \A c \in target[r] : DeviceOf[c] \in Devices /\ newest[DeviceOf[c]] = c
            => DeviceOf[c] \in blocked'
    BY <1>9 DEF BlockEnrollment, Block
  <2> QED BY <1>9, <2>1, <2>2 DEF BlockEnrollment, Block, Step, TypeOK, BlockInv,
              RevokedDeviceIsBlocked, rowVars
<1>10. ASSUME NEW r \in Requests, NEW S \in SUBSET serials[r], Kick(r, S)
       PROVE BlockInv'
  BY <1>10 DEF Kick, TypeOK, BlockInv, RevokedDeviceIsBlocked, rowVars, blockVars
<1>11. ASSUME NEW r \in Requests, RequestFails(r) PROVE BlockInv'
  BY <1>11 DEF RequestFails, TypeOK, BlockInv, RevokedDeviceIsBlocked, rowVars, blockVars
<1>12. CASE RefreshCrl
  BY <1>12, BlockFrame DEF RefreshCrl, blockingVars, rowVars, blockVars, requestVars
<1>13. ASSUME NEW k \in Conns, Accept(k) PROVE BlockInv'
  BY <1>13, BlockFrame DEF Accept, blockingVars, rowVars, blockVars, requestVars
<1>14. ASSUME Unshared' = Unshared PROVE BlockInv'
  BY <1>14, BlockFrame DEF Unshared, blockingVars, rowVars, blockVars, requestVars
<1>15. ASSUME NEW k \in Conns, Handler(k) PROVE BlockInv'
  BY <1>14, <1>15 DEF Handler, Handshake, CheckIndex, ChannelOpen, BindControl,
     BrokerBinds, Recheck
<1>16. ASSUME NEW m \in control, HandleRevoke(m) PROVE BlockInv'
  BY <1>14, <1>16 DEF HandleRevoke
<1>17. ASSUME NEW k \in Conns, Supersede(k) \/ ChannelLost(k) \/ PeerLeaves(k)
       PROVE BlockInv'
  BY <1>14, <1>17 DEF Supersede, ChannelLost, PeerLeaves
<1>18. CASE UNCHANGED vars
  BY <1>18, BlockFrame DEF vars, blockingVars, rowVars, blockVars, requestVars
<1> QED
  BY <1>1, <1>2, <1>3, <1>4, <1>5, <1>6, <1>7, <1>8, <1>9, <1>10, <1>11, <1>12,
     <1>13, <1>15, <1>16, <1>17, <1>18 DEF Next, Request

(* _block_enrollment: a device stays blocked after its newest certificate was
   revoked, unless an administrator lifts the block or it enrolled anew. *)
THEOREM RevokedDevicesBlocked == Spec => []RevokedDeviceIsBlocked
<1>1. Init => BlockInv
  BY CertAssumption DEF Init, BlockInv, RevokedDeviceIsBlocked
<1>2. BlockInv => RevokedDeviceIsBlocked
  BY DEF BlockInv
<1> QED BY <1>1, <1>2, BlockStep, RevocationTyping, PTL DEF Spec
-----------------------------------------------------------------------------
(* What was revoked is refused: the files before the rows, the rows before the
   block, and no session overlooked where the broker keeps up. *)
THEOREM RevocationHolds == Spec => []RevokedIsRefused
<1>1. BrokerKeepsUp => (Spec => []KickedSessionsAreOnTheirWayOut)
  BY KickedSessionsLeave
<1>2. CASE BrokerKeepsUp
  <2>1. Spec => []KickedSessionsAreOnTheirWayOut
    BY <1>1, <1>2
  <2>2. RevokedIsInCrl /\ RevokedDeviceIsBlocked /\ KickedSessionsAreOnTheirWayOut
          => RevokedIsRefused
    BY DEF RevokedIsRefused
  <2> QED BY <2>1, <2>2, MarkedAfterCrl, RevokedDevicesBlocked, PTL
<1>3. CASE ~BrokerKeepsUp
  <2>1. RevokedIsInCrl /\ RevokedDeviceIsBlocked => RevokedIsRefused
    BY <1>3 DEF RevokedIsRefused
  <2> QED BY <2>1, MarkedAfterCrl, RevokedDevicesBlocked, PTL
<1> QED BY <1>2, <1>3

-----------------------------------------------------------------------------
(* FederationPolicy. *)

(* What the pure functions make of a policy is a policy. *)
LEMMA PolicyShapes ==
    ASSUME NEW p \in Policies
    PROVE  /\ EnsureOwn(p) \in Policies
           /\ \A c \in Cas, dials \in BOOLEAN :
                p.groups[c] < MaxNodes /\ p.outs[c] < MaxNodes => AddPartner(p, c, dials) \in Policies
           /\ \A l \in Links : RemovePartner(p, l) \in Policies
           /\ \A l \in Links : \A n \in Dials(p, l), t \in Tunings : Changed(p, l, n, t) \in Policies
<1> USE PolicyAssumption DEF Policies, Links
<1>1. EnsureOwn(p) \in Policies
  BY DEF EnsureOwn
<1>2. ASSUME NEW c \in Cas, NEW dials \in BOOLEAN, p.groups[c] < MaxNodes, p.outs[c] < MaxNodes
      PROVE  AddPartner(p, c, dials) \in Policies
  <2>1. p.groups[c] + 1 \in 0..MaxNodes /\ p.outs[c] + 1 \in 0..MaxNodes
    BY <1>2
  <2> QED
    BY <2>1, <1>1 DEF AddPartner, EnsureOwn
<1>3. ASSUME NEW l \in Links PROVE RemovePartner(p, l) \in Policies
  <2>1. Less(p.outs[l]) \in 0..MaxNodes
    BY <1>3 DEF Less
  <2> DEFINE left == [c \in Cas |-> IF c = l THEN 0 ELSE p.groups[c]]
             outs == [p.outs EXCEPT ![l] = Less(p.outs[l])]
  <2>2. left \in [Cas -> 0..MaxNodes] /\ outs \in [Links -> 0..MaxNodes]
    BY <2>1
  <2>3. RemovePartner(p, l) = [p EXCEPT !.groups = left, !.outs[l] = Less(p.outs[l])]
    BY Zenon DEF RemovePartner
  <2> HIDE DEF left
  <2> QED
    BY <2>1, <2>2, <2>3
<1>4. ASSUME NEW l \in Links, NEW n \in Dials(p, l), NEW t \in Tunings
      PROVE  Changed(p, l, n, t) \in Policies
  <2>1. p.outs[l] \in 0..MaxNodes /\ 1 \in 0..MaxNodes
    OBVIOUS
  <2>2. p.outs[l] > 0 => p.outs[l] - 1 \in 0..MaxNodes
    BY <2>1
  <2>3. n \in 0..MaxNodes
    BY <1>4, <2>1, <2>2 DEF Dials
  <2> QED
    BY <1>4, <2>3 DEF Changed, EnsureOwn
<1> QED
  BY <1>1, <1>2, <1>3, <1>4

(* A policy that has the nodes of another one uses the same CAs. *)
LEMMA SameNodesSameUses ==
    ASSUME NEW p \in PolicyOrNone, NEW q \in PolicyOrNone, Shape(p) = Shape(q),
           p # NoPolicy, q # NoPolicy, NEW c
    PROVE  Uses(p, c) <=> Uses(q, c)
BY DEF Shape, Uses

(* What a request has read and decided stays true as long as it holds the lock, for
   the requests that take no lock leave the enforced policy alone: until it has
   activated, the hub enforces what it read; when it takes its own changes back, the
   hub enforces those nodes again; when it drops a partner's CA, the nodes it asked
   for; and a CA that is dropped without being forced is in use by none. *)
RequestOK(a) ==
    /\ doing[a] \in Changing => job[a].next # NoPolicy
    /\ doing[a] = "trust" => job[a].ca \in Cas
    /\ doing[a] \in Before \cup {"save"} => active = job[a].prev
    /\ doing[a] \in {"resave", "reactivate", "reconfirm"} => job[a].prev # NoPolicy
    /\ doing[a] \in Undoing =>
         /\ Shape(active) = Shape(job[a].prev)
         /\ job[a].prev = NoPolicy => active = NoPolicy
    /\ doing[a] = "dropCa" => Applied(job[a].next)
    /\ doing[a] = "drop" => job[a].force \/ ~Uses(active, job[a].ca)

PolicyInv == PolicyTypeOK /\ \A a \in Admins : RequestOK(a)

Steps == Changing \cup {"idle", "locked", "drop"}

(* The step of a request that has the lock, or takes it: nobody else is at work. *)
LEMMA AloneWithTheLock ==
    ASSUME PolicyTypeOK, NEW a \in Admins, policy_lock \in {a, Nobody},
           NEW to \in Steps, doing' = [doing EXCEPT ![a] = to],
           policy_lock' = a \/ (policy_lock' = Nobody /\ to = "idle"),
           job' \in [Admins -> Jobs], answer' \in {"none", "failed", "done", "undone", "unknown"},
           trusted' \subseteq Cas, nick' \in [Cas -> Nicks],
           stored' \in [Names -> PolicyOrNone], active' \in PolicyOrNone,
           RequestOK(a)'
    PROVE  PolicyInv'
<1>1. \A x \in Admins : x # a => doing[x] = "idle" /\ doing'[x] = "idle"
  BY PolicyAssumption DEF PolicyTypeOK
<1>2. PolicyTypeOK'
  BY <1>1 DEF PolicyTypeOK, Steps
<1>3. ASSUME NEW x \in Admins, x # a PROVE RequestOK(x)'
  BY <1>1, <1>3 DEF RequestOK, Changing, Before, Applying, Undoing
<1> QED
  BY <1>2, <1>3 DEF PolicyInv

(* A request starts to work with the policy it read as the one enforced. *)
LEMMA StartKeeps ==
    ASSUME PolicyInv, NEW a \in Admins, NEW j \in Jobs, NEW to \in Before \cup {"save", "drop"},
           Start(a, j, to),
           to # "drop" => j.prev = active /\ j.next # NoPolicy,
           to = "trust" => j.ca \in Cas,
           to = "drop" => j.force \/ ~Uses(active, j.ca)
    PROVE  PolicyInv'
<1>1. /\ PolicyTypeOK /\ doing[a] = "locked" /\ policy_lock = a
      /\ doing' = [doing EXCEPT ![a] = to] /\ job' = [job EXCEPT ![a] = j]
      /\ UNCHANGED <<policy_lock, answer, trusted, nick, stored, active>>
  BY DEF PolicyInv, PolicyTypeOK, Start, hub
<1>2. to \in Steps
  BY DEF Steps, Changing, Before, Applying, Undoing
<1>3. doing'[a] = to /\ job'[a] = j
  BY <1>1 DEF PolicyTypeOK
<1>4. RequestOK(a)'
  BY <1>1, <1>3 DEF RequestOK, Changing, Before, Applying, Undoing
<1>5. job' \in [Admins -> Jobs]
  BY <1>1 DEF PolicyTypeOK
<1> QED
  BY <1>1, <1>2, <1>4, <1>5, AloneWithTheLock DEF PolicyTypeOK

LEMMA EmptyJob == NoJob \in Jobs /\ EmptyPolicy \in Policies
<1>1. AnyNick \in Nicks
  BY PolicyAssumption DEF AnyNick
<1>2. EmptyPolicy \in Policies
  BY PolicyAssumption DEF EmptyPolicy, Policies
<1> QED
  BY <1>1, <1>2 DEF NoJob, Jobs, Links, PolicyOrNone

LEMMA PolicyToChange == active \in PolicyOrNone => ToChange \in Policies
BY EmptyJob DEF ToChange, PolicyOrNone

(* What a request starts with. *)
Starts(a) ==
    \E j \in Jobs, to \in Before \cup {"save", "drop"} :
        /\ Start(a, j, to)
        /\ to # "drop" => j.prev = active /\ j.next # NoPolicy
        /\ to = "trust" => j.ca \in Cas
        /\ to = "drop" => j.force \/ ~Uses(active, j.ca)

LEMMA BeginningStarts ==
    ASSUME PolicyInv, NEW a \in Admins, Begin(a)
    PROVE  Lock(a) \/ Refuse(a) \/ Starts(a)
<1> USE PolicyAssumption
<1>0. /\ PolicyTypeOK /\ active \in PolicyOrNone /\ NoJob \in Jobs /\ ToChange \in Policies
      /\ NoCa \in Links /\ Cas \subseteq Links /\ Policies \subseteq PolicyOrNone
      /\ nick \in [Cas -> Nicks]
  BY EmptyJob, PolicyToChange DEF PolicyInv, PolicyTypeOK, Links, PolicyOrNone
<1>1. CASE StartRepair(a)
  <2> DEFINE j == [NoJob EXCEPT !.prev = active, !.next = EnsureOwn(ToChange)]
  <2>1. EnsureOwn(ToChange) \in Policies
    BY <1>0, PolicyShapes
  <2>2. j \in Jobs /\ j.prev = active /\ j.next = EnsureOwn(ToChange)
    BY <1>0, <2>1 DEF Jobs
  <2>3. Start(a, j, "save")
    BY <1>1 DEF StartRepair
  <2> HIDE DEF j
  <2> QED
    BY <2>1, <2>2, <2>3 DEF Starts
<1>2. ASSUME NEW c \in Cas, NEW dials \in BOOLEAN, NEW name \in Nicks, StartCreate(a, c, dials, name)
      PROVE  Starts(a)
  <2> DEFINE j == [NoJob EXCEPT !.ca = c, !.prev = active, !.next = AddPartner(ToChange, c, dials)]
             k == [j EXCEPT !.name = name, !.old = nick[c]]
             to == IF c \in trusted THEN "renameNew" ELSE "trust"
  <2>1. AddPartner(ToChange, c, dials) \in Policies
    BY <1>0, <1>2, PolicyShapes DEF StartCreate
  <2>2. j \in Jobs /\ j.prev = active /\ j.next = AddPartner(ToChange, c, dials)
    BY <1>0, <2>1 DEF Jobs
  <2>3. k \in Jobs /\ k.prev = active /\ k.next = AddPartner(ToChange, c, dials) /\ k.ca = c
    BY <1>0, <2>2 DEF Jobs
  <2>4. Start(a, j, "save") \/ Start(a, k, to)
    BY <1>2 DEF StartCreate
  <2>5. to \in Before
    BY DEF Before
  <2> HIDE DEF j, k, to
  <2>6. CASE Start(a, j, "save")
    BY <2>1, <2>2, <2>6 DEF Starts
  <2>7. CASE Start(a, k, to)
    <3>1. to # "drop"
      BY <2>5 DEF Before
    <3> QED
      BY <2>1, <2>3, <2>5, <2>7, <3>1 DEF Starts
  <2> QED
    BY <2>4, <2>6, <2>7
<1>3. ASSUME NEW l \in Links, NEW name \in Nicks, StartUpdate(a, l, name)
      PROVE  Starts(a)
  <2>1. active \in Policies
    BY <1>0, <1>3 DEF StartUpdate, PolicyOrNone
  <2>2. PICK n \in Dials(active, l), t \in Tunings :
           LET i == [NoJob EXCEPT !.prev = active, !.next = Changed(active, l, n, t)]
           IN  IF l \in trusted /\ active.groups[l] > 0 /\ nick[l] # name
               THEN Start(a, [i EXCEPT !.ca = l, !.name = name, !.old = nick[l]], "rename")
               ELSE Start(a, i, "save")
    BY <1>3 DEF StartUpdate
  <2> DEFINE j == [NoJob EXCEPT !.prev = active, !.next = Changed(active, l, n, t)]
             k == [j EXCEPT !.ca = l, !.name = name, !.old = nick[l]]
  <2>3. Changed(active, l, n, t) \in Policies
    BY <2>1, PolicyShapes
  <2>4. j \in Jobs /\ j.prev = active /\ j.next = Changed(active, l, n, t)
    BY <1>0, <2>3 DEF Jobs
  <2>5. l \in trusted => k \in Jobs /\ k.prev = active /\ k.next = Changed(active, l, n, t)
    <3>1. l \in trusted => nick[l] \in Nicks
      BY <1>0 DEF PolicyTypeOK
    <3> QED
      BY <1>0, <2>4, <3>1 DEF Jobs
  <2>6. Start(a, j, "save") \/ (l \in trusted /\ Start(a, k, "rename"))
    BY <2>2
  <2> HIDE DEF j, k
  <2>7. CASE Start(a, j, "save")
    BY <2>3, <2>4, <2>7 DEF Starts
  <2>8. CASE l \in trusted /\ Start(a, k, "rename")
    BY <2>3, <2>5, <2>8 DEF Starts, Before
  <2> QED
    BY <2>6, <2>7, <2>8
<1>4. ASSUME NEW l \in Links, NEW keep \in BOOLEAN, StartDelete(a, l, keep)
      PROVE  Starts(a)
  <2> DEFINE j == [NoJob EXCEPT !.prev = active, !.next = RemovePartner(active, l)]
             k == [j EXCEPT !.ca = l, !.drops = TRUE]
  <2>1. RemovePartner(active, l) \in Policies
    BY <1>0, <1>4, PolicyShapes DEF StartDelete, PolicyOrNone
  <2>2. j \in Jobs /\ j.prev = active /\ j.next = RemovePartner(active, l)
    BY <1>0, <2>1 DEF Jobs
  <2>3. k \in Jobs /\ k.prev = active /\ k.next = RemovePartner(active, l)
    BY <2>2 DEF Jobs
  <2>4. Start(a, j, "save") \/ Start(a, k, "save")
    BY <1>4 DEF StartDelete
  <2> HIDE DEF j, k
  <2>5. CASE Start(a, j, "save")
    BY <2>1, <2>2, <2>5 DEF Starts
  <2>6. CASE Start(a, k, "save")
    BY <2>1, <2>3, <2>6 DEF Starts
  <2> QED
    BY <2>4, <2>5, <2>6
<1>5. ASSUME NEW n \in Names, NEW force \in BOOLEAN, StartActivate(a, n, force)
      PROVE  Starts(a)
  <2> DEFINE j == [NoJob EXCEPT !.prev = active, !.next = stored[n]]
  <2>1. stored[n] \in Policies
    BY <1>0, <1>5 DEF StartActivate, PolicyTypeOK, PolicyOrNone
  <2>2. j \in Jobs /\ j.prev = active /\ j.next = stored[n]
    BY <1>0, <2>1 DEF Jobs
  <2>3. Start(a, j, "save")
    BY <1>5 DEF StartActivate
  <2> HIDE DEF j
  <2> QED
    BY <2>1, <2>2, <2>3 DEF Starts
<1>6. ASSUME NEW p \in Drafts, NEW force \in BOOLEAN, StartSave(a, p, force)
      PROVE  Starts(a)
  <2> DEFINE j == [NoJob EXCEPT !.prev = active, !.next = p]
  <2>1. p \in Policies
    BY <1>6
  <2>2. j \in Jobs /\ j.prev = active /\ j.next = p
    BY <1>0, <2>1 DEF Jobs
  <2>3. Start(a, j, "save")
    BY <1>6 DEF StartSave
  <2> HIDE DEF j
  <2> QED
    BY <2>1, <2>2, <2>3 DEF Starts
<1>7. ASSUME NEW c \in Cas, NEW force \in BOOLEAN, StartDropCa(a, c, force)
      PROVE  Starts(a)
  <2> DEFINE j == [NoJob EXCEPT !.ca = c, !.force = force]
  <2>1. j \in Jobs /\ j.ca = c /\ j.force = force
    BY <1>0 DEF Jobs
  <2>2. Start(a, j, "drop") /\ (force \/ ~Uses(active, c))
    BY <1>7 DEF StartDropCa
  <2> HIDE DEF j
  <2> QED
    BY <2>1, <2>2 DEF Starts
<1> QED
  BY <1>1, <1>2, <1>3, <1>4, <1>5, <1>6, <1>7 DEF Begin

LEMMA BeginningKeeps ==
    ASSUME PolicyInv, NEW a \in Admins, Begin(a)
    PROVE  PolicyInv'
<1> USE PolicyAssumption
<1>0. /\ PolicyTypeOK /\ active \in PolicyOrNone /\ NoJob \in Jobs /\ ToChange \in Policies
      /\ NoCa \in Links /\ Cas \subseteq Links /\ Policies \subseteq PolicyOrNone
      /\ nick \in [Cas -> Nicks]
  BY EmptyJob, PolicyToChange DEF PolicyInv, PolicyTypeOK, Links, PolicyOrNone
<1>1. CASE Lock(a)
  <2>1. /\ doing[a] = "idle" /\ policy_lock = Nobody /\ policy_lock' = a
        /\ doing' = [doing EXCEPT ![a] = "locked"] /\ answer' = "none"
        /\ UNCHANGED <<job, trusted, nick, stored, active>>
    BY <1>1 DEF Lock, hub
  <2>2. doing'[a] = "locked"
    BY <2>1, <1>0 DEF PolicyTypeOK
  <2>3. RequestOK(a)'
    BY <2>2 DEF RequestOK, Changing, Before, Applying, Undoing
  <2> QED
    BY <1>0, <2>1, <2>3, AloneWithTheLock DEF PolicyTypeOK, Steps
<1>2. CASE Refuse(a)
  <2>1. /\ doing[a] = "locked" /\ policy_lock' = Nobody /\ answer' = "none"
        /\ doing' = [doing EXCEPT ![a] = "idle"] /\ job' = [job EXCEPT ![a] = NoJob]
        /\ UNCHANGED <<trusted, nick, stored, active>>
    BY <1>2 DEF Refuse, Answer, hub
  <2>2. doing'[a] = "idle" /\ policy_lock = a
    BY <2>1, <1>0 DEF PolicyTypeOK
  <2>3. RequestOK(a)'
    BY <2>2 DEF RequestOK, Changing, Before, Applying, Undoing
  <2> QED
    BY <1>0, <2>1, <2>2, <2>3, AloneWithTheLock DEF PolicyTypeOK, Steps
<1>3. CASE Starts(a)
  BY <1>3, StartKeeps DEF Starts
<1> QED
  BY <1>1, <1>2, <1>3, BeginningStarts

(* A request that is at work goes to its next step, or answers. *)
LEMMA GotoKeeps ==
    ASSUME PolicyInv, NEW a \in Admins, doing[a] # "idle", NEW to \in Steps \ {"idle"},
           doing' = [doing EXCEPT ![a] = to], job' \in [Admins -> Jobs],
           UNCHANGED <<policy_lock, answer>>,
           trusted' \subseteq Cas, nick' \in [Cas -> Nicks],
           stored' \in [Names -> PolicyOrNone], active' \in PolicyOrNone,
           doing'[a] = to => RequestOK(a)'
    PROVE  PolicyInv'
BY AloneWithTheLock DEF PolicyInv, PolicyTypeOK

LEMMA AnswerKeeps ==
    ASSUME PolicyInv, NEW a \in Admins, doing[a] # "idle",
           NEW how \in {"none", "failed", "done", "undone", "unknown"}, Answer(a, how),
           trusted' \subseteq Cas, nick' \in [Cas -> Nicks],
           stored' \in [Names -> PolicyOrNone], active' \in PolicyOrNone
    PROVE  PolicyInv'
<1>1. /\ policy_lock = a /\ policy_lock' = Nobody /\ doing' = [doing EXCEPT ![a] = "idle"]
      /\ job' \in [Admins -> Jobs] /\ answer' = how
  BY EmptyJob DEF Answer, PolicyInv, PolicyTypeOK
<1>2. doing'[a] = "idle"
  BY <1>1 DEF PolicyInv, PolicyTypeOK
<1>3. RequestOK(a)'
  BY <1>2 DEF RequestOK, Changing, Before, Applying, Undoing
<1> QED
  BY <1>1, <1>3, AloneWithTheLock DEF PolicyInv, Steps

(* Saving does not touch the enforced policy; activating enforces a stored one. *)
LEMMA HubCalls ==
    ASSUME PolicyTypeOK, NEW r, NEW p \in Policies
    PROVE  /\ \A a : SaveOf(a, p, r) => /\ stored' \in [Names -> PolicyOrNone]
                                       /\ UNCHANGED <<trusted, nick, active>>
           /\ ActivateOf(p, r) => active' \in PolicyOrNone /\ UNCHANGED <<trusted, nick, stored>>
<1>1. p.name \in Names /\ p \in PolicyOrNone
  BY DEF Policies, PolicyOrNone
<1> QED
  BY <1>1 DEF SaveOf, ActivateOf, PolicyTypeOK

(* What is true of a request that is about to undo its changes, or answers. *)
LEMMA UndoKeeps ==
    ASSUME PolicyInv, NEW a \in Admins, doing[a] \in Applying, Undo(a),
           Shape(active) = Shape(job[a].prev), job[a].prev = NoPolicy => active = NoPolicy,
           UNCHANGED <<trusted, nick, active>>, stored' \in [Names -> PolicyOrNone]
    PROVE  PolicyInv'
<1>0. PolicyTypeOK /\ doing[a] # "idle" /\ RequestOK(a) /\ doing[a] \in Changing
  BY DEF PolicyInv, Applying, Changing
<1>1. ASSUME NEW to \in Undoing, Goto(a, to) PROVE PolicyInv'
  <2>1. /\ doing' = [doing EXCEPT ![a] = to] /\ to \in Steps \ {"idle"}
        /\ UNCHANGED <<policy_lock, job, answer>>
    BY <1>1 DEF Goto, Undoing, Steps, Changing
  <2>2. doing'[a] = to => RequestOK(a)'
    BY <1>0, <1>1, <2>1 DEF RequestOK, Changing, Before, Applying, Undoing
  <2> QED
    BY <1>0, <2>1, <2>2, GotoKeeps DEF PolicyTypeOK
<1>2. CASE Answer(a, "undone")
  BY <1>0, <1>2, AnswerKeeps DEF PolicyTypeOK
<1> QED
  BY <1>1, <1>2 DEF Undo, Undoing

LEMMA FailKeeps ==
    ASSUME PolicyInv, NEW a \in Admins, doing[a] \in {"save", "activate", "confirm"},
           Fail(a, doing[a]), doing[a] = "save" => active' = active,
           UNCHANGED <<trusted, nick>>, stored' \in [Names -> PolicyOrNone], active' \in PolicyOrNone
    PROVE  PolicyInv'
<1>0. PolicyTypeOK /\ doing[a] # "idle" /\ RequestOK(a) /\ doing[a] \in Changing \cap Applying
  BY DEF PolicyInv, Applying, Changing
<1>1. CASE job[a].prev # NoPolicy
  <2>1. /\ doing' = [doing EXCEPT ![a] = "resave"] /\ "resave" \in Steps \ {"idle"}
        /\ UNCHANGED <<policy_lock, job, answer>>
    BY <1>1 DEF Fail, Goto, Steps, Changing, Applying
  <2>2. doing'[a] = "resave" => RequestOK(a)'
    BY <1>0, <1>1, <2>1 DEF RequestOK, Changing, Before, Applying, Undoing
  <2> QED
    BY <1>0, <2>1, <2>2, GotoKeeps DEF PolicyTypeOK
<1>2. CASE job[a].prev = NoPolicy /\ doing[a] = "save"
  BY <1>0, <1>2, UndoKeeps DEF Fail, RequestOK
<1>3. CASE job[a].prev = NoPolicy /\ doing[a] # "save"
  <2>1. Answer(a, "unknown")
    BY <1>3 DEF Fail
  <2> QED
    BY <1>0, <2>1, AnswerKeeps DEF PolicyTypeOK
<1> QED
  BY <1>1, <1>2, <1>3

LEMMA ContinuingKeeps ==
    ASSUME PolicyInv, NEW a \in Admins, Continue(a)
    PROVE  PolicyInv'
<1>0. /\ PolicyTypeOK /\ RequestOK(a) /\ job[a] \in Jobs
      /\ trusted \subseteq Cas /\ nick \in [Cas -> Nicks]
      /\ stored \in [Names -> PolicyOrNone] /\ active \in PolicyOrNone
      /\ doing[a] \in Changing => job[a].next \in Policies
      /\ job[a].prev # NoPolicy => job[a].prev \in Policies
      /\ job[a].name \in Nicks /\ job[a].old \in Nicks
  BY DEF PolicyInv, PolicyTypeOK, RequestOK, Jobs, PolicyOrNone
(* A step that only goes on, with the job j. *)
<1>a. ASSUME NEW to \in Steps \ {"idle"}, doing[a] # "idle", doing' = [doing EXCEPT ![a] = to],
             NEW j \in Jobs, job' = [job EXCEPT ![a] = j], UNCHANGED <<policy_lock, answer>>,
             trusted' \subseteq Cas, nick' \in [Cas -> Nicks],
             stored' \in [Names -> PolicyOrNone], active' \in PolicyOrNone,
             doing'[a] = to /\ job'[a] = j => RequestOK(a)'
      PROVE  PolicyInv'
  <2>1. job'[a] = j /\ job' \in [Admins -> Jobs]
    BY <1>0, <1>a DEF PolicyTypeOK
  <2> QED
    BY <1>a, <2>1, GotoKeeps
<1> USE DEF Steps, Changing, Before, Applying, Undoing
<1>1. CASE Trust(a)
  <2>1. /\ doing[a] = "trust" /\ UNCHANGED <<stored, active>>
        /\ trusted' \subseteq Cas /\ nick' \in [Cas -> Nicks]
        /\ Goto(a, "reread") \/ Answer(a, "failed")
    <3>1. PICK r \in Replies :
             /\ IF Acts(r)
                THEN /\ trusted' = trusted \cup {job[a].ca}
                     /\ nick' = [nick EXCEPT ![job[a].ca] = job[a].name]
                ELSE UNCHANGED <<trusted, nick>>
             /\ IF Heard(r) THEN Goto(a, "reread") ELSE Answer(a, "failed")
      BY <1>1 DEF Trust
    <3> QED
      BY <1>0, <1>1, <3>1 DEF Trust, RequestOK
  <2>2. CASE Goto(a, "reread")
    BY <1>0, <2>1, <2>2, GotoKeeps DEF Goto, RequestOK, PolicyTypeOK
  <2> QED
    BY <1>0, <2>1, <2>2, AnswerKeeps
<1>2. CASE Reread(a)
  <2>1. doing[a] = "reread" /\ UNCHANGED <<trusted, nick, stored, active>>
    BY <1>2 DEF Reread, hub
  <2>2. CASE Answer(a, "failed")
    BY <1>0, <2>1, <2>2, AnswerKeeps
  <2>3. CASE job' = [job EXCEPT ![a].added = TRUE] /\ doing' = [doing EXCEPT ![a] = "save"]
             /\ UNCHANGED <<policy_lock, answer>>
    <3> DEFINE j == [job[a] EXCEPT !.added = TRUE]
    <3>1. j \in Jobs /\ j.prev = job[a].prev /\ j.next = job[a].next /\ job' = [job EXCEPT ![a] = j]
      BY <1>0, <2>3 DEF Jobs
    <3> HIDE DEF j
    <3>2. ASSUME doing'[a] = "save", job'[a] = j PROVE RequestOK(a)'
      BY <1>0, <2>1, <3>1, <3>2 DEF RequestOK
    <3>3. "save" \in Steps \ {"idle"} /\ doing[a] # "idle"
      BY <2>1
    <3>4. /\ trusted' \subseteq Cas /\ nick' \in [Cas -> Nicks]
          /\ stored' \in [Names -> PolicyOrNone] /\ active' \in PolicyOrNone
      BY <1>0, <2>1
    <3> QED
      BY <1>a, <2>3, <3>1, <3>2, <3>3, <3>4
  <2> QED
    BY <1>2, <2>2, <2>3 DEF Reread
<1>3. CASE RenameNew(a)
  <2>1. PICK r \in Replies : Renaming(a, r, job[a].name) /\ job' = [job EXCEPT ![a].renamed = Heard(r)]
    BY <1>3 DEF RenameNew
  <2>2. /\ doing[a] = "renameNew" /\ doing' = [doing EXCEPT ![a] = "save"]
        /\ UNCHANGED <<policy_lock, answer, trusted, stored, active>>
        /\ nick' \in [Cas -> Nicks]
    BY <1>0, <1>3, <2>1 DEF RenameNew, Renaming
  <2> DEFINE j == [job[a] EXCEPT !.renamed = Heard(r)]
  <2>3. Heard(r) \in BOOLEAN
    BY DEF Heard
  <2>4. j \in Jobs /\ j.prev = job[a].prev /\ j.next = job[a].next /\ job' = [job EXCEPT ![a] = j]
    BY <1>0, <2>1, <2>3 DEF Jobs
  <2> HIDE DEF j
  <2> QED
    BY <1>0, <1>a, <2>2, <2>4 DEF RequestOK
<1>4. CASE Rename(a)
  <2>1. PICK r \in Replies :
          /\ Renaming(a, r, job[a].name)
          /\ IF Heard(r) THEN /\ job' = [job EXCEPT ![a].renamed = TRUE]
                              /\ doing' = [doing EXCEPT ![a] = "save"]
                              /\ UNCHANGED <<policy_lock, answer>>
             ELSE Answer(a, "failed")
    BY <1>4 DEF Rename
  <2>2. /\ doing[a] = "rename" /\ UNCHANGED <<trusted, stored, active>>
        /\ nick' \in [Cas -> Nicks]
    BY <1>0, <1>4, <2>1 DEF Rename, Renaming
  <2>3. CASE Answer(a, "failed")
    BY <1>0, <2>2, <2>3, AnswerKeeps
  <2>4. CASE job' = [job EXCEPT ![a].renamed = TRUE] /\ doing' = [doing EXCEPT ![a] = "save"]
             /\ UNCHANGED <<policy_lock, answer>>
    <3> DEFINE j == [job[a] EXCEPT !.renamed = TRUE]
    <3>1. j \in Jobs /\ j.prev = job[a].prev /\ j.next = job[a].next /\ job' = [job EXCEPT ![a] = j]
      BY <1>0, <2>4 DEF Jobs
    <3> HIDE DEF j
    <3>2. doing'[a] = "save" /\ job'[a] = j => RequestOK(a)'
      BY <1>0, <2>2, <3>1 DEF RequestOK
    <3>3. trusted' \subseteq Cas /\ stored' \in [Names -> PolicyOrNone] /\ active' \in PolicyOrNone
      BY <1>0, <2>2
    <3> QED
      BY <1>a, <2>2, <2>4, <3>1, <3>2, <3>3
  <2> QED
    BY <2>1, <2>3, <2>4
<1>5. CASE Save(a)
  <2>1. PICK r \in Replies : /\ SaveOf(a, job[a].next, r)
                             /\ IF Heard(r) THEN Goto(a, "activate") ELSE Fail(a, "save")
    BY <1>5 DEF Save
  <2>2. /\ doing[a] = "save" /\ UNCHANGED <<trusted, nick, active>>
        /\ stored' \in [Names -> PolicyOrNone]
    BY <1>0, <1>5, <2>1, HubCalls DEF Save
  <2>3. CASE Goto(a, "activate")
    BY <1>0, <2>2, <2>3, GotoKeeps DEF Goto, RequestOK, PolicyTypeOK
  <2> QED
    BY <1>0, <2>1, <2>2, <2>3, FailKeeps
<1>6. CASE Activate(a)
  <2>1. PICK r \in Replies : /\ ActivateOf(job[a].next, r)
                             /\ IF Heard(r) THEN Goto(a, "confirm") ELSE Fail(a, "activate")
    BY <1>6 DEF Activate
  <2>2. /\ doing[a] = "activate" /\ UNCHANGED <<trusted, nick, stored>>
        /\ active' \in PolicyOrNone
    BY <1>0, <1>6, <2>1, HubCalls DEF Activate
  <2>3. CASE Goto(a, "confirm")
    BY <1>0, <2>2, <2>3, GotoKeeps DEF Goto, RequestOK, PolicyTypeOK
  <2> QED
    BY <1>0, <2>1, <2>2, <2>3, FailKeeps
<1>7. CASE Confirm(a)
  <2>1. doing[a] = "confirm" /\ UNCHANGED <<trusted, nick, stored, active>>
    BY <1>7 DEF Confirm, hub
  <2>2. CASE Applied(job[a].next) /\ Goto(a, "dropCa")
    BY <1>0, <2>1, <2>2, GotoKeeps DEF Goto, RequestOK, Applied, PolicyTypeOK
  <2>3. CASE Answer(a, "done")
    BY <1>0, <2>1, <2>3, AnswerKeeps
  <2>4. CASE Fail(a, "confirm")
    BY <1>0, <2>1, <2>4, FailKeeps
  <2> QED
    BY <1>7, <2>2, <2>3, <2>4 DEF Confirm
<1>8. CASE Resave(a)
  <2>1. PICK r \in Replies : /\ SaveOf(a, job[a].prev, r)
                             /\ IF Heard(r) THEN Goto(a, "reactivate") ELSE Answer(a, "unknown")
    BY <1>8 DEF Resave
  <2>2. doing[a] = "resave" /\ job[a].prev \in Policies
    BY <1>0, <1>8 DEF Resave, RequestOK
  <2>3. UNCHANGED <<trusted, nick, active>> /\ stored' \in [Names -> PolicyOrNone]
    BY <1>0, <2>1, <2>2, HubCalls
  <2>4. CASE Goto(a, "reactivate")
    BY <1>0, <2>2, <2>3, <2>4, GotoKeeps DEF Goto, RequestOK, PolicyTypeOK
  <2> QED
    BY <1>0, <2>1, <2>2, <2>3, <2>4, AnswerKeeps
<1>9. CASE Reactivate(a)
  <2>1. PICK r \in Replies : /\ ActivateOf(job[a].prev, r)
                             /\ IF Heard(r) THEN Goto(a, "reconfirm") ELSE Answer(a, "unknown")
    BY <1>9 DEF Reactivate
  <2>2. doing[a] = "reactivate" /\ job[a].prev \in Policies
    BY <1>0, <1>9 DEF Reactivate, RequestOK
  <2>3. UNCHANGED <<trusted, nick, stored>> /\ active' \in PolicyOrNone
    BY <1>0, <2>1, <2>2, HubCalls
  <2>4. CASE Goto(a, "reconfirm")
    BY <1>0, <2>2, <2>3, <2>4, GotoKeeps DEF Goto, RequestOK, PolicyTypeOK
  <2> QED
    BY <1>0, <2>1, <2>2, <2>3, <2>4, AnswerKeeps
<1>10. CASE Reconfirm(a)
  <2>1. doing[a] = "reconfirm" /\ UNCHANGED <<trusted, nick, stored, active>>
    BY <1>10 DEF Reconfirm, hub
  <2>2. job[a].prev # NoPolicy
    BY <1>0, <2>1 DEF RequestOK
  <2>3. CASE Shape(active) = Shape(job[a].prev) /\ Undo(a)
    BY <1>0, <2>1, <2>2, <2>3, UndoKeeps
  <2>4. CASE Answer(a, "unknown")
    BY <1>0, <2>1, <2>4, AnswerKeeps
  <2> QED
    BY <1>10, <2>3, <2>4 DEF Reconfirm
<1>11. CASE Check(a)
  <2>1. doing[a] = "check" /\ UNCHANGED <<trusted, nick, stored, active>>
    BY <1>11 DEF Check, hub
  <2>2. CASE Goto(a, "untrust")
    BY <1>0, <2>1, <2>2, GotoKeeps DEF Goto, RequestOK, PolicyTypeOK
  <2>3. CASE Answer(a, "unknown")
    BY <1>0, <2>1, <2>3, AnswerKeeps
  <2> QED
    BY <1>11, <2>2, <2>3 DEF Check
<1>12. CASE Untrust(a) \/ Unname(a) \/ DropPartnersCa(a) \/ DropCa(a)
  <2>1. /\ UNCHANGED <<stored, active>> /\ trusted' \subseteq Cas /\ nick' \in [Cas -> Nicks]
        /\ doing[a] # "idle"
    BY <1>0, <1>12 DEF Untrust, Unname, DropPartnersCa, DropCa, Untrusting, Renaming, hub
  <2>2. \E how \in {"undone", "done", "none"} : Answer(a, how)
    BY <1>12 DEF Untrust, Unname, DropPartnersCa, DropCa
  <2> QED
    BY <1>0, <2>1, <2>2, AnswerKeeps
<1> QED
  BY <1>1, <1>2, <1>3, <1>4, <1>5, <1>6, <1>7, <1>8, <1>9, <1>10, <1>11, <1>12 DEF Continue

(* What is passed on without the lock leaves the requests and the enforced policy. *)
LEMMA UnlockedKeeps ==
    ASSUME PolicyInv, Unlocked
    PROVE  PolicyInv' /\ UNCHANGED <<doing, job, answer, active>> /\ trusted \subseteq trusted'
<1>1. /\ UNCHANGED <<policy_lock, doing, job, answer, active>> /\ trusted \subseteq trusted'
      /\ trusted' \subseteq Cas
  BY DEF Unlocked, SaveOnly, DeleteStored, AddCaOnly, RenameOnly, Proxied, PolicyInv, PolicyTypeOK
<1>2. nick' \in [Cas -> Nicks]
  BY DEF Unlocked, SaveOnly, DeleteStored, AddCaOnly, RenameOnly, PolicyInv, PolicyTypeOK
<1>3. stored' \in [Names -> PolicyOrNone]
  BY PolicyAssumption
     DEF Unlocked, SaveOnly, DeleteStored, AddCaOnly, RenameOnly, PolicyInv, PolicyTypeOK, PolicyOrNone
<1> QED
  BY <1>1, <1>2, <1>3 DEF PolicyInv, PolicyTypeOK, RequestOK, Applied

LEMMA PolicyInvariant == PolicySpec => []PolicyInv
<1>1. PolicyInit => PolicyInv
  <2> SUFFICES ASSUME PolicyInit PROVE PolicyInv
    OBVIOUS
  <2>1. \A a \in Admins : doing[a] = "idle"
    BY DEF PolicyInit
  <2>2. PolicyTypeOK
    <3>1. active \in PolicyOrNone /\ stored \in [Names -> PolicyOrNone]
      BY PolicyAssumption DEF PolicyInit, PolicyOrNone
    <3> QED
      BY <2>1, <3>1, EmptyJob DEF PolicyInit, PolicyTypeOK
  <2> QED
    BY <2>1, <2>2 DEF PolicyInv, RequestOK, Changing, Before, Applying, Undoing
<1>2. PolicyInv /\ [PolicyNext]_policyVars => PolicyInv'
  <2>1. ASSUME PolicyInv, UNCHANGED policyVars PROVE PolicyInv'
    BY <2>1 DEF PolicyInv, PolicyTypeOK, RequestOK, Applied, policyVars, hub
  <2> QED
    BY <2>1, BeginningKeeps, ContinuingKeeps, UnlockedKeeps DEF PolicyNext
<1> QED
  BY <1>1, <1>2, PTL DEF PolicySpec

(* FederationPolicy: every variable has its type, and only the request that holds
   _POLICY_LOCK is at work. *)
THEOREM PolicyTyping == PolicySpec => []PolicyTypeOK
BY PolicyInvariant, PTL DEF PolicyInv

-----------------------------------------------------------------------------
(* The steps of a request as turns of HubChange. *)

(* It goes on and keeps what it read and decided. *)
GoesOn(a) ==
    /\ doing[a] \in Changing
    /\ \E to \in Changing : doing' = [doing EXCEPT ![a] = to]
    /\ job'[a].prev = job[a].prev /\ job'[a].next = job[a].next
    /\ answer' = answer

(* It answers truly. *)
Ends(a, how) ==
    /\ doing[a] \in Changing
    /\ Answer(a, how)
    /\ how = "done" => Applied(job[a].next) /\ active' = active
    /\ how \in {"failed", "undone"} => Shape(active) = Shape(job[a].prev) /\ active' = active

(* It drops a CA, which is no change of the policy. *)
EndsDrop(a) == doing[a] = "drop" /\ Answer(a, "none") /\ active' = active

Ending(a) == GoesOn(a) \/ EndsDrop(a) \/ \E how \in {"failed", "done", "undone", "unknown"} : Ends(a, how)

LEMMA GotoGoesOn ==
    ASSUME NEW a \in Admins, doing[a] \in Changing, NEW to \in Changing, Goto(a, to)
    PROVE  Ending(a)
BY DEF Goto, GoesOn, Ending

LEMMA FailEnds ==
    ASSUME PolicyInv, NEW a \in Admins, doing[a] \in Changing, NEW stage, Fail(a, stage),
           stage = "save" => doing[a] = "save" /\ active' = active
    PROVE  Ending(a)
<1>1. CASE Goto(a, "resave") \/ Goto(a, "check") \/ Goto(a, "unname")
  BY <1>1, GotoGoesOn DEF Changing, Applying, Undoing
<1>2. CASE Answer(a, "unknown")
  BY <1>2 DEF Ends, Ending
<1>3. CASE stage = "save" /\ Answer(a, "undone")
  <2>1. active = job[a].prev
    BY <1>3 DEF PolicyInv, RequestOK
  <2>2. Ends(a, "undone")
    BY <1>3, <2>1 DEF Ends
  <2> QED
    BY <2>2 DEF Ending
<1> QED
  BY <1>1, <1>2, <1>3 DEF Fail, Undo

LEMMA ContinuingEnds ==
    ASSUME PolicyInv, NEW a \in Admins, Continue(a)
    PROVE  Ending(a)
<1>0. PolicyTypeOK /\ RequestOK(a) /\ active \in PolicyOrNone /\ job[a] \in Jobs
  BY DEF PolicyInv, PolicyTypeOK
<1>a. {"reread", "save", "activate", "confirm", "dropCa", "reactivate", "reconfirm", "untrust"} \subseteq Changing
  BY DEF Changing, Before, Applying, Undoing
<1>1. CASE Trust(a) \/ Reread(a) \/ RenameNew(a) \/ Rename(a)
  <2>1. doing[a] \in Changing /\ active = job[a].prev /\ active' = active
    BY <1>0, <1>1 DEF Trust, Reread, RenameNew, Rename, Renaming, hub, RequestOK, Changing, Before
  <2>2. CASE Answer(a, "failed")
    <3>1. Ends(a, "failed")
      BY <2>1, <2>2 DEF Ends
    <3> QED
      BY <3>1 DEF Ending
  <2>3. CASE Goto(a, "reread")
    BY <1>a, <2>1, <2>3, GotoGoesOn
  <2>4. ASSUME doing' = [doing EXCEPT ![a] = "save"], answer' = answer,
               job' = [job EXCEPT ![a].added = TRUE] \/ \E b : job' = [job EXCEPT ![a].renamed = b]
        PROVE  Ending(a)
    <3>1. job'[a].prev = job[a].prev /\ job'[a].next = job[a].next
      BY <1>0, <2>4 DEF PolicyTypeOK, Jobs
    <3> QED
      BY <1>a, <2>1, <2>4, <3>1 DEF GoesOn, Ending
  <2> QED
    BY <1>1, <2>2, <2>3, <2>4 DEF Trust, Reread, RenameNew, Rename
<1>2. CASE Save(a)
  <2>1. doing[a] = "save" /\ active' = active /\ (Goto(a, "activate") \/ Fail(a, "save"))
    BY <1>2 DEF Save, SaveOf
  <2> QED
    BY <1>a, <2>1, GotoGoesOn, FailEnds
<1>3. CASE Activate(a)
  <2>1. doing[a] = "activate" /\ (Goto(a, "confirm") \/ Fail(a, "activate"))
    BY <1>3 DEF Activate
  <2> QED
    BY <1>a, <2>1, GotoGoesOn, FailEnds
<1>4. CASE Confirm(a)
  <2>1. doing[a] = "confirm" /\ active' = active
    BY <1>4 DEF Confirm, hub
  <2>2. CASE Applied(job[a].next) /\ Answer(a, "done")
    <3>1. Ends(a, "done")
      BY <1>a, <2>1, <2>2 DEF Ends
    <3> QED
      BY <3>1 DEF Ending
  <2> QED
    BY <1>4, <1>a, <2>1, <2>2, GotoGoesOn, FailEnds DEF Confirm
<1>5. CASE Resave(a) \/ Reactivate(a)
  <2>1. doing[a] \in Changing /\ (Goto(a, "reactivate") \/ Goto(a, "reconfirm") \/ Answer(a, "unknown"))
    BY <1>5 DEF Resave, Reactivate, Changing, Applying
  <2>2. CASE Answer(a, "unknown")
    BY <2>1, <2>2 DEF Ends, Ending
  <2> QED
    BY <1>a, <2>1, <2>2, GotoGoesOn
<1>6. CASE Reconfirm(a) \/ Check(a) \/ Untrust(a) \/ Unname(a)
  <2>1. doing[a] \in Changing /\ active' = active
    BY <1>6 DEF Reconfirm, Check, Untrust, Unname, Untrusting, Renaming, hub, Changing, Applying, Undoing
  <2>2. CASE Answer(a, "unknown")
    BY <2>1, <2>2 DEF Ends, Ending
  <2>3. CASE Goto(a, "check") \/ Goto(a, "unname") \/ Goto(a, "untrust")
    BY <2>1, <2>3, GotoGoesOn DEF Changing, Undoing
  <2>4. CASE Shape(active) = Shape(job[a].prev) /\ Answer(a, "undone")
    <3>1. Ends(a, "undone")
      BY <2>1, <2>4 DEF Ends
    <3> QED
      BY <3>1 DEF Ending
  <2> QED
    BY <1>0, <1>6, <2>2, <2>3, <2>4 DEF Reconfirm, Check, Untrust, Unname, Undo, RequestOK, Undoing
<1>7. CASE DropPartnersCa(a)
  <2>1. doing[a] = "dropCa" /\ active' = active /\ Answer(a, "done") /\ Applied(job[a].next)
    BY <1>0, <1>7 DEF DropPartnersCa, Untrusting, hub, RequestOK
  <2>2. Ends(a, "done")
    BY <1>a, <2>1 DEF Ends
  <2> QED
    BY <2>2 DEF Ending
<1>8. CASE DropCa(a)
  BY <1>8 DEF DropCa, Untrusting, EndsDrop, Ending
<1> QED
  BY <1>1, <1>2, <1>3, <1>4, <1>5, <1>6, <1>7, <1>8 DEF Continue

(* What a request that begins does to the lock, and what it remembers. *)
Beginning(a) ==
    /\ active' = active
    /\ \/ /\ doing[a] \notin Changing
          /\ \E to \in {"locked", "idle"} : doing' = [doing EXCEPT ![a] = to]
          /\ doing[a] # "idle" \/ doing'[a] # "idle"
          /\ answer' = "none"
       \/ /\ doing[a] = "locked" /\ answer' = answer
          /\ \E j \in Jobs, to \in Before \cup {"save", "drop"} :
               /\ to # "drop" => j.prev = active
               /\ doing' = [doing EXCEPT ![a] = to] /\ job' = [job EXCEPT ![a] = j]

LEMMA BeginningBegins ==
    ASSUME PolicyInv, NEW a \in Admins, Begin(a)
    PROVE  Beginning(a)
<1>0. a \in DOMAIN doing
  BY DEF PolicyInv, PolicyTypeOK
<1>1. CASE Lock(a)
  BY <1>0, <1>1 DEF Lock, Beginning, hub, Changing, Before, Applying, Undoing
<1>2. CASE Refuse(a)
  BY <1>2 DEF Refuse, Answer, Beginning, hub, Changing, Before, Applying, Undoing
<1>3. CASE Starts(a)
  BY <1>3 DEF Starts, Start, Beginning, hub
<1> QED
  BY <1>1, <1>2, <1>3, BeginningStarts

-----------------------------------------------------------------------------
(* BridgesStay. *)

(* Nobody's CA leaves the truststore but by these three steps. *)
LEMMA WhoUntrusts ==
    ASSUME NEW a \in Admins, Begin(a) \/ Continue(a)
    PROVE  \/ trusted \subseteq trusted'
           \/ /\ Untrust(a) \/ DropCa(a) \/ (DropPartnersCa(a) /\ CaFree(a))
              /\ trusted' = trusted \ {job[a].ca} /\ active' = active
<1>1. ASSUME Begin(a) PROVE trusted' = trusted
  BY <1>1 DEF Begin, Lock, Refuse, StartRepair, StartCreate, StartUpdate, StartDelete, StartActivate,
     StartSave, StartDropCa, Start, hub
<1>2. CASE Trust(a) \/ Reread(a) \/ RenameNew(a) \/ Rename(a) \/ Save(a) \/ Activate(a) \/ Confirm(a)
           \/ Resave(a) \/ Reactivate(a) \/ Reconfirm(a) \/ Check(a) \/ Unname(a)
  BY <1>2 DEF Trust, Reread, RenameNew, Rename, Renaming, Save, SaveOf, Activate, ActivateOf, Confirm,
     Resave, Reactivate, Reconfirm, Check, Unname, hub
<1>3. ASSUME NEW r, Untrusting(a, r)
      PROVE  trusted' \in {trusted, trusted \ {job[a].ca}} /\ active' = active
  BY <1>3 DEF Untrusting
<1>4. CASE Untrust(a) \/ DropCa(a)
  <2>1. \E r \in Replies : Untrusting(a, r)
    BY <1>4 DEF Untrust, DropCa
  <2>2. trusted' \in {trusted, trusted \ {job[a].ca}} /\ active' = active
    BY <1>3, <2>1
  <2>3. CASE trusted' = trusted
    BY <2>3
  <2>4. CASE trusted' = trusted \ {job[a].ca}
    BY <1>4, <2>2, <2>4
  <2> QED
    BY <2>2, <2>3, <2>4
<1>5. CASE DropPartnersCa(a)
  <2>1. UNCHANGED hub \/ (CaFree(a) /\ \E r \in Replies : Untrusting(a, r))
    BY <1>5 DEF DropPartnersCa
  <2> QED
    BY <1>3, <1>5, <2>1 DEF hub
<1> QED
  BY <1>1, <1>2, <1>4, <1>5 DEF Continue

LEMMA NothingIsCutOff ==
    ASSUME PolicyInv, PolicyNext, NEW c \in trusted \ trusted', Uses(active, c)
    PROVE  \E a \in Admins : \/ doing[a] = "drop" /\ job[a].force
                             \/ doing[a] = "untrust" /\ Uses(job[a].prev, c)
<1>1. PICK a \in Admins : Begin(a) \/ Continue(a)
  BY UnlockedKeeps DEF PolicyNext
<1>2. /\ Untrust(a) \/ DropCa(a) \/ (DropPartnersCa(a) /\ CaFree(a))
      /\ c = job[a].ca /\ active' = active
  BY <1>1, WhoUntrusts
<1>3. RequestOK(a) /\ active \in PolicyOrNone /\ active # NoPolicy /\ job[a].prev \in PolicyOrNone
      /\ job[a].next \in PolicyOrNone
  BY DEF PolicyInv, PolicyTypeOK, Jobs, Uses
<1>4. CASE Untrust(a)
  <2>1. /\ doing[a] = "untrust" /\ job[a].prev # NoPolicy
        /\ Shape(active) = Shape(job[a].prev)
    BY <1>3, <1>4 DEF Untrust, RequestOK, Undoing
  <2> QED
    BY <1>3, <2>1, SameNodesSameUses
<1>5. CASE DropCa(a)
  BY <1>2, <1>3, <1>5 DEF DropCa, RequestOK
<1>6. CASE DropPartnersCa(a) /\ CaFree(a)
  <2>1. doing[a] = "dropCa" /\ Shape(active) = Shape(job[a].next) /\ job[a].next # NoPolicy
    BY <1>3, <1>6 DEF DropPartnersCa, RequestOK, Applied, Changing
  <2>2. ~Uses(job[a].next, c)
    BY <1>2, <1>6 DEF CaFree
  <2> QED
    BY <1>3, <2>1, <2>2, SameNodesSameUses
<1> QED
  BY <1>2, <1>4, <1>5, <1>6

(* While one request is at work no other moves. *)
LEMMA OnlyTheHolderMoves ==
    ASSUME PolicyInv, NEW a \in Admins, NEW b \in Admins, doing[a] # "idle",
           Begin(b) \/ Continue(b)
    PROVE  a = b
<1>1. SUFFICES ASSUME a # b PROVE FALSE
  OBVIOUS
<1>2. policy_lock = a /\ doing[b] = "idle" /\ policy_lock # Nobody
  BY <1>1, PolicyAssumption DEF PolicyInv, PolicyTypeOK
<1>3. CASE Begin(b)
  BY <1>2, <1>3 DEF Begin, Lock, Refuse, StartRepair, StartCreate, StartUpdate, StartDelete,
     StartActivate, StartSave, StartDropCa, Start, Answer
<1>4. CASE Continue(b)
  <2>1. Ending(b)
    BY <1>4, ContinuingEnds
  <2> QED
    BY <1>2, <2>1 DEF Ending, GoesOn, Ends, EndsDrop, Changing, Before, Applying, Undoing
<1> QED
  BY <1>3, <1>4

LEMMA DoneKeepsTheBridge ==
    ASSUME PolicyInv, PolicyNext, NEW a \in Admins,
           doing[a] # "idle", doing'[a] = "idle", answer' = "done", OwnOn(job[a].next)
    PROVE  OwnOn(active')
<1>1. ~Unlocked
  BY UnlockedKeeps
<1>2. Begin(a) \/ Continue(a)
  BY <1>1, OnlyTheHolderMoves DEF PolicyNext
<1>0. a \in DOMAIN doing
  BY DEF PolicyInv, PolicyTypeOK
<1>3. CASE Begin(a)
  <2>1. Beginning(a)
    BY <1>3, BeginningBegins
  <2> QED
    BY <1>0, <2>1 DEF Beginning, Before
<1>4. CASE Continue(a)
  <2>1. Ending(a)
    BY <1>4, ContinuingEnds
  <2>2. ~GoesOn(a)
    BY <1>0 DEF GoesOn, Changing, Before, Applying, Undoing
  <2>3. Ends(a, "done")
    BY <2>1, <2>2 DEF Ending, EndsDrop, Ends, Answer
  <2> QED
    BY <2>3 DEF Ends, Applied
<1> QED
  BY <1>2, <1>3, <1>4

(* FederationPolicy: no request cuts another server off, or this one, that was not
   asked to, whichever calls to the hub failed, timed out or were ignored. *)
THEOREM NoBridgeIsCut == PolicySpec => BridgesStay
<1>1. ASSUME PolicyInv, [PolicyNext]_policyVars
      PROVE  [/\ \A c \in trusted \ trusted' :
                    Uses(active, c) =>
                      \E a \in Admins : \/ doing[a] = "drop" /\ job[a].force
                                        \/ doing[a] = "untrust" /\ Uses(job[a].prev, c)
              /\ \A a \in Admins :
                    doing[a] # "idle" /\ doing'[a] = "idle" /\ answer' = "done" /\ OwnOn(job[a].next)
                      => OwnOn(active')]_policyVars
  BY <1>1, NothingIsCutOff, DoneKeepsTheBridge
<1> QED
  BY <1>1, PolicyInvariant, PTL DEF PolicySpec, BridgesStay
-----------------------------------------------------------------------------
(* FederationPolicy implements HubChange. *)

LEMMA TurnIs ==
    ASSUME PolicyInv, NEW a \in Admins, doing[a] \in Changing
    PROVE  turnOf = [user |-> a, from |-> Shape(job[a].prev), to |-> Shape(job[a].next)]
<1>1. \A x \in Admins : doing[x] \in Changing <=> x = a
  BY DEF PolicyInv, PolicyTypeOK, Changing, Before, Applying, Undoing
<1>2. (CHOOSE x \in Admins : doing[x] \in Changing) = a
  BY <1>1
<1> QED
  BY <1>1, <1>2 DEF turnOf

LEMMA TurnIsNext ==
    ASSUME PolicyInv', NEW a \in Admins, doing'[a] \in Changing
    PROVE  turnOf' = [user |-> a, from |-> Shape(job'[a].prev), to |-> Shape(job'[a].next)]
<1>1. \A x \in Admins : doing'[x] \in Changing <=> x = a
  BY DEF PolicyInv, PolicyTypeOK, Changing, Before, Applying, Undoing
<1>2. (CHOOSE x \in Admins : doing'[x] \in Changing) = a
  BY <1>1
<1> QED
  BY <1>1, <1>2 DEF turnOf, Shape

LEMMA TurnOfOne ==
    ASSUME PolicyInv, NEW a \in Admins, doing[a] \in Changing
    PROVE  turnOf # Nobody /\ turnOf.user = a /\ turnOf.from = Shape(job[a].prev)
           /\ turnOf.to = Shape(job[a].next)
<1>1. Shape(job[a].prev) \in Shapes /\ Shape(job[a].next) \in Shapes
  BY DEF Shapes, PolicyInv, PolicyTypeOK, Jobs
<1> QED
  BY <1>1, TurnIs, TurnAssumption

LEMMA TurnOfNone ==
    ASSUME \A a \in Admins : doing[a] \notin Changing
    PROVE  turnOf = Nobody
BY DEF turnOf

LEMMA TurnOfNoneNext ==
    ASSUME \A a \in Admins : doing'[a] \notin Changing
    PROVE  turnOf' = Nobody
BY DEF turnOf

(* A step that changes neither the requests nor the enforced policy. *)
LEMMA NoTurnMoves ==
    ASSUME UNCHANGED <<doing, job, answer, active>>
    PROVE  UNCHANGED Change!vars
BY DEF Change!vars, turnOf, answerOf, Shape

(* The request that moves is the only one with a turn, before and after. *)
LEMMA OthersHaveNoTurn ==
    ASSUME PolicyInv, PolicyInv', NEW a \in Admins, doing[a] # "idle" \/ doing'[a] # "idle",
           NEW to, doing' = [doing EXCEPT ![a] = to]
    PROVE  \A x \in Admins : x # a => doing[x] \notin Changing /\ doing'[x] \notin Changing
<1>1. \A x \in Admins : x # a => doing'[x] = doing[x]
  BY DEF PolicyInv, PolicyTypeOK
<1>2. \A x \in Admins : x # a => doing[x] = "idle"
  BY <1>1 DEF PolicyInv, PolicyTypeOK
<1> QED
  BY <1>1, <1>2 DEF Changing, Before, Applying, Undoing

LEMMA BeginningIsTurn ==
    ASSUME PolicyInv, PolicyInv', NEW a \in Admins, Beginning(a)
    PROVE  Change!Next \/ UNCHANGED Change!vars
<1>0. a \in DOMAIN doing /\ a \in DOMAIN job /\ Shape(active)' = Shape(active)
  BY DEF PolicyInv, PolicyTypeOK, Beginning, Shape
<1>1. CASE /\ doing[a] \notin Changing
           /\ \E to \in {"locked", "idle"} : doing' = [doing EXCEPT ![a] = to]
           /\ doing[a] # "idle" \/ doing'[a] # "idle"
           /\ answer' = "none"
  <2>1. doing'[a] \notin Changing
    BY <1>0, <1>1 DEF Changing, Before, Applying, Undoing
  <2>2. \A x \in Admins : doing[x] \notin Changing /\ doing'[x] \notin Changing
    BY <1>1, <2>1, OthersHaveNoTurn
  <2>3. turnOf = Nobody /\ turnOf' = Nobody
    BY <2>2, TurnOfNone, TurnOfNoneNext
  <2>4. answerOf' = "none"
    BY <1>1 DEF answerOf
  <2> QED
    BY <1>0, <2>3, <2>4 DEF Change!Next, Change!Ask
<1>2. ASSUME NEW j \in Jobs, NEW to \in Before \cup {"save", "drop"},
             doing[a] = "locked", answer' = answer, to # "drop" => j.prev = active,
             doing' = [doing EXCEPT ![a] = to], job' = [job EXCEPT ![a] = j]
      PROVE  Change!Next \/ UNCHANGED Change!vars
  <2>1. /\ doing'[a] = to /\ job'[a] = j /\ answerOf' = answerOf
        /\ doing[a] \notin Changing /\ (to # "drop" => to \in Changing) /\ "drop" \notin Changing
    BY <1>0, <1>2 DEF answerOf, Changing, Before, Applying, Undoing
  <2>2. \A x \in Admins : x # a => doing[x] \notin Changing /\ doing'[x] \notin Changing
    BY <1>2, OthersHaveNoTurn
  <2>3. turnOf = Nobody
    BY <2>1, <2>2, TurnOfNone
  <2>4. CASE to = "drop"
    <3>1. turnOf' = Nobody
      BY <2>1, <2>2, <2>4, TurnOfNoneNext
    <3> QED
      BY <1>0, <2>1, <2>3, <3>1 DEF Change!vars
  <2>5. CASE to # "drop"
    <3>1. turnOf' = [user |-> a, from |-> Shape(active), to |-> Shape(j.next)]
      BY <1>2, <2>1, <2>5, TurnIsNext
    <3>2. turnOf' # Nobody
      <4>1. Shape(active) \in Shapes /\ Shape(j.next) \in Shapes
        BY <1>2 DEF Shapes, PolicyInv, PolicyTypeOK, Jobs
      <4> QED
        BY <3>1, <4>1, TurnAssumption
    <3>3. Change!Begin(a)
      BY <1>0, <2>1, <2>3, <3>1, <3>2 DEF Change!Begin
    <3> QED
      BY <3>3 DEF Change!Next
  <2> QED
    BY <2>4, <2>5
<1> QED
  BY <1>1, <1>2 DEF Beginning

LEMMA EndingIsTurn ==
    ASSUME PolicyInv, PolicyInv', NEW a \in Admins, Ending(a)
    PROVE  Change!Next \/ UNCHANGED Change!vars
<1>0. a \in DOMAIN doing
  BY DEF PolicyInv, PolicyTypeOK
<1>1. CASE GoesOn(a)
  <2>1. doing[a] \in Changing /\ doing'[a] \in Changing /\ answerOf' = answerOf
    BY <1>0, <1>1 DEF GoesOn, answerOf
  <2>2. turnOf # Nobody
    BY <2>1, TurnOfOne
  <2>3. turnOf' = turnOf
    BY <1>1, <2>1, TurnIs, TurnIsNext DEF GoesOn
  <2> QED
    BY <2>1, <2>2, <2>3 DEF Change!Next, Change!Work
<1>2. ASSUME NEW how, Answer(a, how), doing[a] # "idle" PROVE turnOf' = Nobody /\ answer' = how
  <2>1. doing'[a] = "idle" /\ doing' = [doing EXCEPT ![a] = "idle"]
    BY <1>0, <1>2 DEF Answer
  <2>2. \A x \in Admins : doing'[x] \notin Changing
    BY <1>2, <2>1, OthersHaveNoTurn DEF Changing, Before, Applying, Undoing
  <2> QED
    BY <1>2, <2>2, TurnOfNoneNext DEF Answer
<1>3. CASE EndsDrop(a)
  <2>1. doing' = [doing EXCEPT ![a] = "idle"] /\ doing[a] = "drop" /\ active' = active
    BY <1>3 DEF EndsDrop, Answer
  <2>2. \A x \in Admins : doing[x] \notin Changing
    BY <2>1, OthersHaveNoTurn DEF Changing, Before, Applying, Undoing
  <2>3. turnOf = Nobody /\ turnOf' = Nobody /\ answerOf' = "none"
    BY <1>2, <1>3, <2>1, <2>2, TurnOfNone DEF EndsDrop, answerOf
  <2> QED
    BY <2>1, <2>3 DEF Change!Next, Change!Ask, Shape
<1>4. ASSUME NEW how \in {"failed", "done", "undone", "unknown"}, Ends(a, how)
      PROVE  Change!Next
  <2>1. /\ doing[a] \in Changing /\ doing[a] # "idle" /\ Answer(a, how)
        /\ how = "done" => Applied(job[a].next) /\ active' = active
        /\ how \in {"failed", "undone"} => Shape(active) = Shape(job[a].prev) /\ active' = active
    BY <1>4 DEF Ends, Changing, Before, Applying, Undoing
  <2>2. turnOf' = Nobody /\ answer' = how
    BY <1>2, <2>1
  <2>3. turnOf # Nobody /\ turnOf.user = a /\ turnOf.from = Shape(job[a].prev)
        /\ turnOf.to = Shape(job[a].next)
    BY <2>1, TurnOfOne
  <2> DEFINE w == IF how = "failed" THEN "undone" ELSE how
  <2>4. w \in Change!Answers \ {"none"} /\ answerOf' = w
    BY <2>2 DEF Change!Answers, answerOf
  <2>5. active' = active => Shape(active)' = Shape(active)
    BY DEF Shape
  <2>6. /\ w = "done" => how = "done"
        /\ w = "undone" => how \in {"failed", "undone"}
        /\ w # "unknown" => how \in {"done", "failed", "undone"}
    OBVIOUS
  <2> HIDE DEF w
  <2>7. Change!End(a, w)
    BY <2>1, <2>2, <2>3, <2>4, <2>5, <2>6 DEF Change!End, Applied
  <2> QED
    BY <2>4, <2>7 DEF Change!Next
<1> QED
  BY <1>1, <1>3, <1>4 DEF Ending

(* FederationPolicy implements HubChange: the answer of every change is true of the
   nodes of the policy the hub enforces, whatever the hub answers, for any number
   of requests, servers, policies and settings. *)
THEOREM AnswersAreTrue == PolicySpec => Implements
<1>1. PolicyInit => Change!Init
  <2> SUFFICES ASSUME PolicyInit PROVE Change!Init
    OBVIOUS
  <2>1. \A a \in Admins : doing[a] \notin Changing
    BY DEF PolicyInit, Changing, Before, Applying, Undoing
  <2>2. turnOf = Nobody
    BY <2>1, TurnOfNone
  <2>3. answerOf = "none"
    BY DEF PolicyInit, answerOf
  <2> QED
    BY <2>2, <2>3 DEF Change!Init
<1>2. PolicyInv /\ PolicyInv' /\ [PolicyNext]_policyVars => [Change!Next]_(Change!vars)
  <2>1. ASSUME PolicyInv, PolicyInv', [PolicyNext]_policyVars PROVE Change!Next \/ UNCHANGED Change!vars
    <3>1. CASE UNCHANGED policyVars
      BY <3>1, NoTurnMoves DEF policyVars, hub
    <3>2. CASE Unlocked
      BY <2>1, <3>2, UnlockedKeeps, NoTurnMoves
    <3>3. ASSUME NEW a \in Admins, Begin(a) PROVE Change!Next \/ UNCHANGED Change!vars
      BY <2>1, <3>3, BeginningBegins, BeginningIsTurn
    <3>4. ASSUME NEW a \in Admins, Continue(a) PROVE Change!Next \/ UNCHANGED Change!vars
      BY <2>1, <3>4, ContinuingEnds, EndingIsTurn
    <3> QED
      BY <2>1, <3>1, <3>2, <3>3, <3>4 DEF PolicyNext
  <2> QED
    BY <2>1
<1> QED
  BY <1>1, <1>2, PolicyInvariant, PTL DEF PolicySpec, Implements, Change!Spec
=============================================================================
