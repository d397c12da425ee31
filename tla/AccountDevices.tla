--------------------------- MODULE AccountDevices ---------------------------
(***************************************************************************)
(* The enrollment tokens and the devices of the accounts: QR tokens (JWTs    *)
(* checked against a row), certificate enrollment with a token or a          *)
(* password, the owner of a device, its streaming connection, and the kick   *)
(* that goes out when its account is deactivated.                           *)
(***************************************************************************)
EXTENDS Accounts

CONSTANTS
    Devices,
    TokenIds,    \* rows of the tokens table
    Phones,      \* enrollments under way at a time
    MaxUses,     \* the "max" claim of the tokens
    MaxVersions  \* bound: how often a token is generated again

ASSUME DeviceBoundAssumption == MaxUses \in Nat \ {0} /\ MaxVersions \in Nat \ {0}

VARIABLES
    row,       \* tokens: the row of a token, or NoRow
    issued,    \* the JWTs that were handed out
    enroll,    \* signClient requests under way
    accepted,  \* history: <<JWT, generation of the account it enrolled for>>
    owner,     \* euds.user_id, as the name of the account
    conn,      \* the streaming connection of a device
    kick,      \* devices with a kick message in their queue
    unheard    \* history: connections a kick of their account did not reach

tokenVars == <<row, issued, enroll, accepted>>
connVars == <<conn, kick, unheard>>
deviceVars == <<tokenVars, owner, connVars>>
vars == <<adminVars, deviceVars>>

NoRow == [owner |-> "none", version |-> 0, uses |-> 0, disabled |-> FALSE]
TokenRows == [owner : Names \cup {"null"}, version : 1..MaxVersions,
              uses : Nat, disabled : BOOLEAN]
JWTs == [id : TokenIds, version : 1..MaxVersions, sub : Names, gen : Nat]

(* The token hash covers every claim, so a row has one valid JWT at a time. *)
RowOf(j) == j.id \in TokenIds /\ row[j.id] # NoRow /\ row[j.id].version = j.version

NoEnrollment == [step |-> "idle"]
Enrollments ==
    {NoEnrollment}
    \cup [step : {"use"}, for : Names, dev : Devices, id : TokenIds, seen : Nat]
    \cup [step : {"sign"}, for : Names, dev : Devices]
Offline == [stage |-> "none", user |-> "none", gen |-> 0]
Reachable == {"bound", "served"}

Init ==
    /\ AccountInit
    /\ row = [t \in TokenIds |-> NoRow]
    /\ issued = {}
    /\ enroll = [e \in Phones |-> NoEnrollment]
    /\ accepted = {}
    /\ owner = [d \in Devices |-> "none"]
    /\ conn = [d \in Devices |-> Offline]
    /\ kick = {}
    /\ unheard = {}
-----------------------------------------------------------------------------
(* delete_user: the session nulls the references to the account. *)
DeleteUser(w) ==
    LET n == request[w].on IN
    /\ Delete(w)
    /\ row' = [t \in TokenIds |-> IF row[t].owner = n
                                  THEN [row[t] EXCEPT !.owner = "null"]
                                  ELSE row[t]]
    /\ owner' = [d \in Devices |-> IF owner[d] = n THEN "none" ELSE owner[d]]
    /\ UNCHANGED <<issued, enroll, accepted, connVars>>

OfAccount(d, n, g) == conn[d].stage # "none" /\ conn[d].user = n /\ conn[d].gen = g

(* deactivate_user, after its commit: a message to the queue of every device
   of the account, which only a connection that bound it receives. *)
Kick(w) ==
    LET n == request[w].on
        heard == {d \in Devices : owner[d] = n /\ conn[d].stage \in Reachable}
        served == {d \in Devices : OfAccount(d, n, request[w].gen)}
    IN
    /\ request[w].step = "kick"
    /\ kick' = kick \cup heard
    /\ unheard' = unheard \cup (served \ heard)
    /\ Answer(w)
    /\ UNCHANGED <<accountVars, made, tokenVars, owner, conn>>

(* The broker cannot be reached: the request succeeds all the same. *)
KickFails(w) ==
    /\ request[w].step = "kick"
    /\ unheard' = unheard \cup
            {d \in Devices : OfAccount(d, request[w].on, request[w].gen)}
    /\ Answer(w)
    /\ UNCHANGED <<accountVars, made, tokenVars, owner, conn, kick>>
-----------------------------------------------------------------------------
(* new_atak_qr_string: the row of the name is generated again, or a new one is
   inserted, which the foreign key refuses without an account. *)
NewToken(by, n, t, off) ==
    /\ LoggedIn(by) /\ (n = by \/ Administrator(by)) /\ n \in exists
    /\ IF \E u \in TokenIds : row[u].owner = n
       THEN row[t].owner = n /\ row[t].version < MaxVersions
       ELSE row[t] = NoRow /\ t \notin {j.id : j \in issued}
    /\ row' = [row EXCEPT ![t] = [owner |-> n, version |-> @.version + 1,
                                  uses |-> @.uses, disabled |-> off]]
    /\ issued' = issued \cup {[id |-> t, version |-> row[t].version + 1,
                               sub |-> n, gen |-> gen[n]]}
    /\ UNCHANGED <<adminVars, enroll, accepted, owner, connVars>>

DeleteToken(by, t) ==
    /\ LoggedIn(by) /\ (row[t].owner = by \/ Administrator(by))
    /\ row[t].owner \in Names
    /\ row' = [row EXCEPT ![t] = NoRow]
    /\ UNCHANGED <<adminVars, issued, enroll, accepted, owner, connVars>>

(* Mutant: the owner of the row is not compared with the subject. *)
AcceptsBySubject(j) ==
    /\ j.sub \in exists /\ RowOf(j)
    /\ ~row[j.id].disabled
    /\ row[j.id].uses < MaxUses

(* basic_auth and verify_token, up to the use. *)
Accepts(j) ==
    /\ j.sub \in exists /\ RowOf(j)
    /\ row[j.id].owner = j.sub
    /\ ~row[j.id].disabled
    /\ row[j.id].uses < MaxUses

VerifyToken(e, j, d) ==
    /\ enroll[e] = NoEnrollment
    /\ Accepts(j)
    /\ enroll' = [enroll EXCEPT ![e] =
                    [step |-> "use", for |-> j.sub, dev |-> d, id |-> j.id,
                     seen |-> row[j.id].uses]]
    /\ accepted' = accepted \cup {<<j, gen[j.sub]>>}
    /\ UNCHANGED <<adminVars, row, issued, owner, connVars>>

(* The use is written as the count that was read plus one; a row that is gone
   refuses the enrollment. *)
Use(e) ==
    LET t == enroll[e].id IN
    /\ enroll[e].step = "use"
    /\ IF row[t] = NoRow
       THEN row' = row /\ enroll' = [enroll EXCEPT ![e] = NoEnrollment]
       ELSE /\ row' = [row EXCEPT ![t].uses = enroll[e].seen + 1]
            /\ enroll' = [enroll EXCEPT ![e] =
                 [step |-> "sign", for |-> enroll[e].for, dev |-> enroll[e].dev]]
    /\ UNCHANGED <<adminVars, issued, accepted, owner, connVars>>

VerifyPassword(e, n, d) ==
    /\ enroll[e] = NoEnrollment
    /\ n \in exists
    /\ enroll' = [enroll EXCEPT ![e] = [step |-> "sign", for |-> n, dev |-> d]]
    /\ UNCHANGED <<adminVars, row, issued, accepted, owner, connVars>>

(* sign_csr_v2: the device keeps the owner it has, and a new one gets the
   account that has the name by now. *)
Sign(e) ==
    LET n == enroll[e].for
        d == enroll[e].dev
    IN
    /\ enroll[e].step = "sign"
    /\ owner' = IF owner[d] = "none" /\ n \in exists
                THEN [owner EXCEPT ![d] = n] ELSE owner
    /\ enroll' = [enroll EXCEPT ![e] = NoEnrollment]
    /\ UNCHANGED <<adminVars, row, issued, accepted, connVars>>

(* assign_eud_to_user. *)
AssignDevice(by, n, d) ==
    /\ LoggedIn(by) /\ n \in exists
    /\ n = by \/ Administrator(by)
    /\ owner[d] \in {"none", by} \/ Administrator(by)
    /\ owner' = [owner EXCEPT ![d] = n]
    /\ UNCHANGED <<adminVars, tokenVars, connVars>>
-----------------------------------------------------------------------------
SetStage(d, s) == conn' = [conn EXCEPT ![d].stage = s]

(* Mutant: handle_auth does not look at user.active. *)
ConnectAnyone(d, n) ==
    /\ conn[d] = Offline
    /\ n \in exists
    /\ conn' = [conn EXCEPT ![d] = [stage |-> "checked", user |-> n, gen |-> gen[n]]]
    /\ owner' \in {owner, [owner EXCEPT ![d] = n]}
    /\ UNCHANGED <<adminVars, tokenVars, kick, unheard>>

(* handle_auth: with an <auth> message the device is associated at once, with
   a certificate alone only when it identified itself. *)
Connect(d, n) ==
    /\ conn[d] = Offline
    /\ n \in exists \cap active
    /\ conn' = [conn EXCEPT ![d] = [stage |-> "checked", user |-> n, gen |-> gen[n]]]
    /\ owner' \in {owner, [owner EXCEPT ![d] = n]}
    /\ UNCHANGED <<adminVars, tokenVars, kick, unheard>>

(* parse_device_info: the queue is bound, then the row saved with its user. *)
Bind(d) ==
    /\ conn[d].stage = "checked"
    /\ SetStage(d, "bound")
    /\ UNCHANGED <<adminVars, tokenVars, owner, kick, unheard>>

Save(d) ==
    LET n == conn[d].user IN
    /\ conn[d].stage = "bound"
    /\ n \in exists /\ gen[n] = conn[d].gen
    /\ SetStage(d, "served")
    /\ owner' = [owner EXCEPT ![d] = n]
    /\ UNCHANGED <<adminVars, tokenVars, kick, unheard>>

(* on_message takes the kick, even one that was left by an earlier connection. *)
Kicked(d) ==
    /\ d \in kick /\ conn[d].stage \in Reachable
    /\ conn' = [conn EXCEPT ![d] = Offline]
    /\ kick' = kick \ {d}
    /\ unheard' = unheard \ {d}
    /\ UNCHANGED <<adminVars, tokenVars, owner>>

(* The connection ends for any other reason; the queue of the device keeps
   what is in it. *)
Disconnect(d) ==
    /\ conn[d] # Offline
    /\ conn' = [conn EXCEPT ![d] = Offline]
    /\ unheard' = unheard \ {d}
    /\ UNCHANGED <<adminVars, tokenVars, owner, kick>>

TokenStep ==
    \/ \E by, n \in Names, t \in TokenIds, off \in BOOLEAN : NewToken(by, n, t, off)
    \/ \E by \in Names, t \in TokenIds : DeleteToken(by, t)
    \/ \E e \in Phones, d \in Devices :
        \/ \E j \in issued : VerifyToken(e, j, d)
        \/ \E n \in Names : VerifyPassword(e, n, d)
    \/ \E e \in Phones : Use(e) \/ Sign(e)

DeviceStep ==
    \E d \in Devices :
        \/ \E by, n \in Names : AssignDevice(by, n, d)
        \/ \E n \in Names : Connect(d, n)
        \/ Bind(d) \/ Save(d) \/ Kicked(d) \/ Disconnect(d)

Next ==
    \/ AccountStep /\ UNCHANGED deviceVars
    \/ \E w \in Workers : DeleteUser(w) \/ Kick(w) \/ KickFails(w)
    \/ TokenStep
    \/ DeviceStep

Spec == Init /\ [][Next]_vars
-----------------------------------------------------------------------------
(* Type correctness, of the accounts too. *)
TypeOK ==
    /\ AccountTypeOK
    /\ row \in [TokenIds -> TokenRows \cup {NoRow}]
    /\ issued \subseteq JWTs
    /\ enroll \in [Phones -> Enrollments]
    /\ accepted \subseteq JWTs \X Nat
    /\ owner \in [Devices -> exists \cup {"none"}]
    /\ conn \in [Devices -> [stage : {"none", "checked"} \cup Reachable,
                             user : Names \cup {"none"}, gen : Nat]]
    /\ kick \subseteq Devices
    /\ unheard \subseteq Devices

(* verify_token, "Token owner does not match token subject": a token is only
   ever accepted for the account it was issued for, never for a later account
   of the same name. *)
TokenServesItsAccount == \A x \in accepted : x[1].gen = x[2]

(* deactivate_user: "Kick every one of the user's EUDs off now": a connection
   that is served for a deactivated account has its kick in the queue, unless
   its device was not bound yet, or was somebody else's, when the kick went out. *)
KickedWhenServed ==
    \A d \in Devices :
        LET n == conn[d].user IN
        /\ conn[d].stage = "served"
        /\ n \in exists \ active /\ gen[n] = conn[d].gen
        /\ \A w \in Workers : request[w].step = "kick" => request[w].on # n
        => d \in kick \/ d \in unheard
=============================================================================
