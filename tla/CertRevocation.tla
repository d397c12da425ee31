-------------------------- MODULE CertRevocation --------------------------
(***************************************************************************)
(* Revoking client certificates: the requests of administrators             *)
(* (certificate_api, cert_revocation), the CA's index and CRL on disk, the   *)
(* database rows, enrollment for a new certificate, and the handler          *)
(* processes of the TLS streaming port that live sessions are served by.     *)
(*                                                                         *)
(* Requests, enrollments and connections are processes that share the CA     *)
(* folder, the database and the broker; every access to one of them is a     *)
(* step of its own.  A request that fails or is killed just stops.           *)
(***************************************************************************)
EXTENDS Naturals, FiniteSets

CONSTANTS
    Certs,         \* certificates that exist or may be enrolled for
    Legacy,        \* those with a row from the start; serials may collide
    Serials,
    SerialOf,
    Devices,
    NoDevice,      \* model value: enrolled without a client uid, gets no row
    DeviceOf,      \* the device a certificate is issued to
    NoCert,        \* model value: the device has no row
    Requests,      \* revocation requests, each used once
    NoRequest,     \* model value: the CA lock is free
    Conns,         \* TLS connections, each used once
    CertOf,        \* the certificate a connection presents
    BrokerKeepsUp  \* the broker has handled a bind before the index is read

ASSUME CertAssumption ==
    /\ Legacy \subseteq Certs
    /\ SerialOf \in [Certs -> Serials]
    /\ DeviceOf \in [Certs -> Devices \cup {NoDevice}]
    /\ CertOf \in [Conns -> Certs]
    /\ NoDevice \notin Devices /\ NoCert \notin Certs
    /\ NoRequest \notin Requests
    /\ BrokerKeepsUp \in BOOLEAN
    /\ \A c \in Certs \ Legacy, o \in Certs :
            SerialOf[o] = SerialOf[c] => o = c

VARIABLES
    index,       \* crl_index.txt: serials marked R
    crl,         \* ca.crl
    lock,        \* crl.lock
    loaded,      \* the CRL in the streaming port's SSL context
    fresh,       \* _crl_key is the key of ca.crl
    recorded,    \* certificates with a row
    newest,      \* the newest row of a device
    marked,      \* rows with revoked_at
    blocked,     \* enrollment_blocks
    lifted,      \* history: unblocked by an administrator since
    enroll,      \* sign_csr_v2, per certificate
    rpc,         \* a revocation request
    target,      \* the rows it revokes
    serials,     \* their serials
    pc,          \* the handler of a connection
    ctx,         \* the CRL it was forked with
    chan,        \* its RabbitMQ channel
    ctl,         \* cert_control_bound, and what the broker made of it
    rechecked,   \* bind_cert_control_queue has read the index
    superseded,  \* EudHandler.superseded
    control,     \* revoke messages in the private control queues
    kicked       \* history: serials whose sessions were told to leave

fileVars == <<index, crl, lock>>
serverVars == <<loaded, fresh>>
rowVars == <<recorded, newest, marked>>
blockVars == <<blocked, lifted>>
requestVars == <<rpc, target, serials>>
queueVars == <<chan, ctl, control>>
connVars == <<pc, ctx, queueVars, rechecked, superseded>>
vars == <<fileVars, serverVars, rowVars, blockVars, enroll, requestVars,
          connVars, kicked>>

Serial(k) == SerialOf[CertOf[k]]
SerialsOf(S) == {SerialOf[c] : c \in S}
RowsOf(d) == {c \in recorded : DeviceOf[c] = d}

Init ==
    /\ index = {} /\ crl = {} /\ lock = NoRequest
    /\ loaded = {} /\ fresh = TRUE
    /\ recorded = Legacy
    /\ newest \in {f \in [Devices -> Legacy \cup {NoCert}] : \A d \in Devices :
                    IF \E c \in Legacy : DeviceOf[c] = d
                    THEN f[d] \in Legacy /\ DeviceOf[f[d]] = d
                    ELSE f[d] = NoCert}
    /\ marked = {}
    /\ blocked = {} /\ lifted = {}
    /\ enroll = [c \in Certs |-> IF c \in Legacy THEN "done" ELSE "none"]
    /\ rpc = [r \in Requests |-> "idle"]
    /\ target = [r \in Requests |-> {}]
    /\ serials = [r \in Requests |-> {}]
    /\ pc = [k \in Conns |-> "new"]
    /\ ctx = [k \in Conns |-> {}]
    /\ chan = [k \in Conns |-> "none"]
    /\ ctl = [k \in Conns |-> "no"]
    /\ rechecked = [k \in Conns |-> FALSE]
    /\ superseded = [k \in Conns |-> FALSE]
    /\ control = {}
    /\ kicked = {}
-----------------------------------------------------------------------------
(* sign_csr_v2: the device is checked against the blocks ... *)
EnrollCheck(c) ==
    /\ enroll[c] = "none"
    /\ DeviceOf[c] \notin blocked
    /\ enroll' = [enroll EXCEPT ![c] = "checked"]
    /\ UNCHANGED <<fileVars, serverVars, rowVars, blockVars, requestVars,
                   connVars, kicked>>

(* ... and once openssl has signed, the row is added (for a client uid) and
   the certificate returned. *)
EnrollRecord(c) ==
    /\ enroll[c] = "checked"
    /\ enroll' = [enroll EXCEPT ![c] = "done"]
    /\ IF DeviceOf[c] = NoDevice THEN UNCHANGED <<recorded, newest>>
       ELSE /\ recorded' = recorded \cup {c}
            /\ newest' = [newest EXCEPT ![DeviceOf[c]] = c]
    /\ UNCHANGED <<fileVars, serverVars, marked, blockVars, requestVars,
                   connVars, kicked>>

AllowEnrollment(d) ==
    /\ d \in blocked
    /\ blocked' = blocked \ {d}
    /\ lifted' = lifted \cup {d}
    /\ UNCHANGED <<fileVars, serverVars, rowVars, enroll, requestVars,
                   connVars, kicked>>
-----------------------------------------------------------------------------
Step(r, from, to) == rpc[r] = from /\ rpc' = [rpc EXCEPT ![r] = to]

(* revoke_certificate, revoke_user_certificates, revoke_certificate_by_serial:
   the rows are read, those revoked already are left out. *)
PickRows(r, S) ==
    /\ Step(r, "idle", "picked")
    /\ S \subseteq recorded \ marked /\ S # {}
    /\ target' = [target EXCEPT ![r] = S]
    /\ serials' = [serials EXCEPT ![r] = SerialsOf(S)]
    /\ UNCHANGED <<fileVars, serverVars, rowVars, blockVars, enroll, connVars,
                   kicked>>

(* ... by the serial of a certificate that has no row. *)
PickSerial(r, s) ==
    /\ Step(r, "idle", "picked")
    /\ s \notin index \cup SerialsOf(recorded)
    /\ serials' = [serials EXCEPT ![r] = {s}]
    /\ UNCHANGED <<fileVars, serverVars, rowVars, blockVars, enroll, target,
                   connVars, kicked>>

(* cert_revocation.revoke: under the lock, the index ... *)
WriteIndex(r) ==
    /\ Step(r, "picked", "locked")
    /\ lock = NoRequest
    /\ lock' = r
    /\ index' = index \cup serials[r]
    /\ UNCHANGED <<crl, serverVars, rowVars, blockVars, enroll, target,
                   serials, connVars, kicked>>

(* ... and then the CRL made from it. *)
Gencrl(r) ==
    /\ Step(r, "locked", "listed")
    /\ lock' = NoRequest
    /\ crl' = index
    /\ fresh' = FALSE
    /\ UNCHANGED <<index, loaded, rowVars, blockVars, enroll, target, serials,
                   connVars, kicked>>

(* ensure_crl, by the refresh_crl job or the streaming port: the CRL is about
   to expire. *)
RefreshCrl ==
    /\ lock = NoRequest
    /\ crl' = index
    /\ fresh' = FALSE
    /\ UNCHANGED <<index, lock, loaded, rowVars, blockVars, enroll,
                   requestVars, connVars, kicked>>

(* revoke_certificates: every row with one of the serials.  The chat queued
   for the devices is dropped too, see OfflineChat. *)
MarkRows(r) ==
    /\ Step(r, "listed", "marked")
    /\ target[r] # {}
    /\ marked' = marked \cup {c \in recorded : SerialOf[c] \in serials[r]}
    /\ UNCHANGED <<fileVars, serverVars, recorded, newest, blockVars, enroll,
                   target, serials, connVars, kicked>>

(* _block_enrollment, for S rows of a request. *)
Block(r, S) ==
    /\ Step(r, "marked", "blocked")
    /\ blocked' = blocked \cup {DeviceOf[c] : c \in S}
    /\ lifted' = lifted \ {DeviceOf[c] : c \in S}
    /\ UNCHANGED <<fileVars, serverVars, rowVars, enroll, target, serials,
                   connVars, kicked>>

(* Only the newest row of a device blocks it. *)
BlockEnrollment(r) ==
    Block(r, {c \in target[r] : DeviceOf[c] \in Devices /\ newest[DeviceOf[c]] = c})

(* kick_revoked_sessions: reaches the control queues bound by the serials, or
   by the first ones S if the broker is lost.  It never raises. *)
Kick(r, S) ==
    /\ rpc[r] = "blocked" \/ (rpc[r] = "listed" /\ target[r] = {})
    /\ S \subseteq serials[r]
    /\ rpc' = [rpc EXCEPT ![r] = IF S = serials[r] THEN "done" ELSE "failed"]
    /\ control' = control \cup
            {<<k, Serial(k)>> : k \in {x \in Conns : /\ ctl[x] = "bound"
                                                     /\ Serial(x) \in S}}
    /\ kicked' = kicked \cup S
    /\ UNCHANGED <<fileVars, serverVars, rowVars, blockVars, enroll, target,
                   serials, pc, ctx, chan, ctl, rechecked, superseded>>

(* openssl or the database fails, or the worker is killed; a lock it holds is
   released. *)
RequestFails(r) ==
    /\ rpc[r] \notin {"idle", "done", "failed"}
    /\ rpc' = [rpc EXCEPT ![r] = "failed"]
    /\ lock' = IF lock = r THEN NoRequest ELSE lock
    /\ UNCHANGED <<index, crl, serverVars, rowVars, blockVars, enroll, target,
                   serials, connVars, kicked>>
-----------------------------------------------------------------------------
(* get_request, with _refresh_ssl_context: a context that cannot be built
   leaves the previous one, and is not built again for this ca.crl. *)
Accept(k) ==
    /\ pc[k] = "new"
    /\ enroll[CertOf[k]] = "done"
    /\ loaded' \in IF fresh THEN {loaded} ELSE {loaded, crl}
    /\ fresh' = TRUE
    /\ ctx' = [ctx EXCEPT ![k] = loaded']
    /\ pc' = [pc EXCEPT ![k] = "accepted"]
    /\ UNCHANGED <<fileVars, rowVars, blockVars, enroll, requestVars,
                   queueVars, rechecked, superseded, kicked>>

(* close_connection.  A superseded handler does not close the socket: its
   thread stays in recv() until the device sends or leaves. *)
CloseConnection(k) ==
    /\ pc' = [pc EXCEPT ![k] = IF superseded[k] THEN "lingering" ELSE "closed"]
    /\ chan' = [chan EXCEPT ![k] = "closed"]
    /\ ctl' = [ctl EXCEPT ![k] = "no"]
    /\ control' = {m \in control : m[1] # k}

Unshared == <<fileVars, serverVars, rowVars, blockVars, enroll, requestVars,
              kicked>>

(* setup: the handshake is verified against the context's CRL ... *)
Handshake(k) ==
    /\ pc[k] = "accepted"
    /\ IF Serial(k) \in ctx[k] THEN CloseConnection(k)
       ELSE pc' = [pc EXCEPT ![k] = "shaken"] /\ UNCHANGED queueVars
    /\ UNCHANGED <<Unshared, ctx, rechecked, superseded>>

(* ... then against the index, and the binding is requested. *)
CheckIndex(k) ==
    /\ pc[k] = "shaken"
    /\ IF Serial(k) \in index THEN CloseConnection(k)
       ELSE /\ pc' = [pc EXCEPT ![k] = "serving"]
            /\ ctl' = [ctl EXCEPT ![k] = IF @ = "no" THEN "asked" ELSE @]
            /\ UNCHANGED <<chan, control>>
    /\ UNCHANGED <<Unshared, ctx, rechecked, superseded>>

(* on_channel_open binds when the serial is known. *)
ChannelOpen(k) ==
    /\ pc[k] \in {"accepted", "shaken", "serving"} /\ chan[k] = "none"
    /\ chan' = [chan EXCEPT ![k] = "open"]
    /\ ctl' = [ctl EXCEPT ![k] =
                IF @ = "no" /\ pc[k] # "accepted" THEN "asked" ELSE @]
    /\ UNCHANGED <<Unshared, pc, ctx, control, rechecked, superseded>>

(* bind_cert_control_queue: the queue is declared and bound ... *)
BindControl(k) ==
    /\ ctl[k] = "asked" /\ chan[k] = "open"
    /\ ctl' = [ctl EXCEPT ![k] = "sent"]
    /\ UNCHANGED <<Unshared, pc, ctx, chan, control, rechecked, superseded>>

BrokerBinds(k) ==
    /\ ctl[k] = "sent"
    /\ ctl' = [ctl EXCEPT ![k] = "bound"]
    /\ UNCHANGED <<Unshared, pc, ctx, chan, control, rechecked, superseded>>

(* ... after which, whether or not the broker has come to it ... *)
MayRecheck(k) ==
    /\ ctl[k] = "bound" \/ (ctl[k] = "sent" /\ ~BrokerKeepsUp)
    /\ ~rechecked[k]

(* Mutant: the index is not read again. *)
RecheckNothing(k) ==
    /\ MayRecheck(k)
    /\ rechecked' = [rechecked EXCEPT ![k] = TRUE]
    /\ UNCHANGED <<Unshared, pc, ctx, queueVars, superseded>>

(* ... the index is read again. *)
Recheck(k) ==
    /\ MayRecheck(k)
    /\ rechecked' = [rechecked EXCEPT ![k] = TRUE]
    /\ IF Serial(k) \in index THEN CloseConnection(k)
       ELSE UNCHANGED <<pc, queueVars>>
    /\ UNCHANGED <<Unshared, ctx, superseded>>

(* Mutant: the uid, which the message does not have, is compared first. *)
RevokeIgnored(m) ==
    /\ m \in control
    /\ control' = control \ {m}
    /\ UNCHANGED <<Unshared, pc, ctx, chan, ctl, rechecked, superseded>>

(* on_control_message, action "revoke". *)
HandleRevoke(m) ==
    /\ m \in control
    /\ CloseConnection(m[1])
    /\ UNCHANGED <<Unshared, ctx, rechecked, superseded>>

(* on_control_message, action "supersede", from another connection of the
   device, which may be one over TCP and then is not in Conns. *)
Supersede(k) ==
    /\ pc[k] = "serving" /\ chan[k] = "open"
    /\ superseded' = [superseded EXCEPT ![k] = TRUE]
    /\ UNCHANGED <<Unshared, pc, ctx, queueVars, rechecked>>

(* on_channel_close: shutdown is set, the socket is left alone. *)
ChannelLost(k) ==
    /\ chan[k] = "open"
    /\ pc' = [pc EXCEPT ![k] = IF @ = "serving" THEN "lingering" ELSE "closed"]
    /\ chan' = [chan EXCEPT ![k] = "closed"]
    /\ ctl' = [ctl EXCEPT ![k] = "no"]
    /\ control' = {m \in control : m[1] # k}
    /\ UNCHANGED <<Unshared, ctx, rechecked, superseded>>

(* The device leaves, or sends to a handler that has been shut down. *)
PeerLeaves(k) ==
    /\ pc[k] \notin {"new", "closed"}
    /\ pc' = [pc EXCEPT ![k] = "closed"]
    /\ chan' = [chan EXCEPT ![k] = "closed"]
    /\ ctl' = [ctl EXCEPT ![k] = "no"]
    /\ control' = {m \in control : m[1] # k}
    /\ UNCHANGED <<Unshared, ctx, rechecked, superseded>>
-----------------------------------------------------------------------------
Request(r) ==
    \/ \E S \in SUBSET recorded : PickRows(r, S)
    \/ \E s \in Serials : PickSerial(r, s)
    \/ WriteIndex(r) \/ Gencrl(r) \/ MarkRows(r) \/ BlockEnrollment(r)
    \/ (\E S \in SUBSET serials[r] : Kick(r, S)) \/ RequestFails(r)

(* The threads of a handler, and the broker's side of its queue. *)
Handler(k) ==
    \/ Handshake(k) \/ CheckIndex(k) \/ ChannelOpen(k) \/ BindControl(k)
    \/ BrokerBinds(k) \/ Recheck(k)

Next ==
    \/ \E c \in Certs : EnrollCheck(c) \/ EnrollRecord(c)
    \/ \E d \in Devices : AllowEnrollment(d)
    \/ \E r \in Requests : Request(r)
    \/ RefreshCrl
    \/ \E k \in Conns : Accept(k) \/ Handler(k)
    \/ \E m \in control : HandleRevoke(m)
    \/ \E k \in Conns : Supersede(k) \/ ChannelLost(k) \/ PeerLeaves(k)

Spec == Init /\ [][Next]_vars

(* The handlers run, the broker answers and delivers; nothing makes an
   administrator act, a request finish or a device leave. *)
Fairness ==
    \A k \in Conns :
        WF_vars(Handler(k)) /\ WF_vars(\E m \in control : m[1] = k /\ HandleRevoke(m))

FairSpec == Spec /\ Fairness
-----------------------------------------------------------------------------
TypeOK ==
    /\ index \subseteq Serials /\ crl \subseteq Serials
    /\ lock \in Requests \cup {NoRequest}
    /\ loaded \subseteq Serials /\ fresh \in BOOLEAN
    /\ recorded \subseteq Certs /\ marked \subseteq recorded
    /\ newest \in [Devices -> Certs \cup {NoCert}]
    /\ blocked \subseteq Devices /\ lifted \subseteq Devices
    /\ enroll \in [Certs -> {"none", "checked", "done"}]
    /\ rpc \in [Requests -> {"idle", "picked", "locked", "listed", "marked",
                             "blocked", "done", "failed"}]
    /\ target \in [Requests -> SUBSET Certs]
    /\ serials \in [Requests -> SUBSET Serials]
    /\ pc \in [Conns -> {"new", "accepted", "shaken", "serving", "lingering",
                         "closed"}]
    /\ ctx \in [Conns -> SUBSET Serials]
    /\ chan \in [Conns -> {"none", "open", "closed"}]
    /\ ctl \in [Conns -> {"no", "asked", "sent", "bound"}]
    /\ rechecked \in [Conns -> BOOLEAN]
    /\ superseded \in [Conns -> BOOLEAN]
    /\ control \subseteq Conns \X Serials
    /\ kicked \subseteq Serials

(* bind_cert_control_queue, "a revocation published before this binding
   existed was unroutable; catch it here": however a handshake, the opening of
   the channel and a revocation interleave, a session whose serial was kicked
   has the message in its queue or has its second look at the index ahead.
   (Not so without BrokerKeepsUp.) *)
KickedSessionsAreOnTheirWayOut ==
    \A k \in Conns : pc[k] = "serving" /\ Serial(k) \in kicked =>
        <<k, Serial(k)>> \in control \/ ~rechecked[k]

(* revoke_certificates: a row is only marked, and a session only told to leave,
   when the CRL on disk already refuses the certificate, whatever other
   requests, failures and CRL refreshes happen meanwhile. *)
RevokedIsInCrl == SerialsOf(marked) \cup kicked \subseteq crl

(* _block_enrollment: once a request has passed it, each device of its
   certificates is blocked, unless an administrator allowed it to enroll or it
   has enrolled for a newer certificate. *)
RevokedDeviceIsBlocked ==
    \A r \in Requests : rpc[r] \in {"blocked", "done"} =>
        \A c \in target[r] :
            DeviceOf[c] \in Devices /\ newest[DeviceOf[c]] = c
                => DeviceOf[c] \in blocked \cup lifted

(* What was revoked is refused, in the order files, rows, block, sessions: the three
   together. *)
RevokedIsRefused ==
    /\ RevokedIsInCrl
    /\ RevokedDeviceIsBlocked
    /\ BrokerKeepsUp => KickedSessionsAreOnTheirWayOut

(* kick_revoked_sessions, "this reaches exactly the connection(s) on that
   cert": once a serial was kicked, its sessions end and no reconnect is served,
   even by an SSL context that still has the old CRL. *)
KickedSessionsEnd ==
    \A s \in Serials :
        [](s \in kicked => <>[](\A k \in Conns : Serial(k) = s => pc[k] # "serving"))
=============================================================================
