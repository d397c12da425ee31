--------------------------- MODULE FederatedDevices ---------------------------
(****************************************************************************)
(* What the federation daemon does in the database for the events of other   *)
(* servers' devices: a row in euds, without which the CoT parser would not   *)
(* store the event, and an account (never to be logged in with) that groups  *)
(* can be given to.  Rows and accounts are committed one by one, and local   *)
(* devices, administrators and the purge of all data change both meanwhile.  *)
(*                                                                           *)
(* One thread reads the hub's stream event by event; an exception that       *)
(* leaves the handler ends the stream, and with it what the hub sends until  *)
(* the daemon asks again.  Which events are echoes is the module             *)
(* FederationBridge's matter; how a name is made unique is left out.         *)
(****************************************************************************)
EXTENDS Integers, FiniteSets

CONSTANTS
    Remote,       \* uids of devices of other servers
    Local,        \* uids of devices that enrolled here
    Callsigns,
    Nothing,      \* NULL
    MaxAccounts,  \* bound: accounts made
    MaxFails      \* bound: failed commits and crashes

ASSUME DevicesAssumption ==
    /\ Remote \cap Local = {} /\ Nothing \notin Callsigns \cup Nat
    /\ MaxAccounts \in Nat /\ MaxFails \in Nat

VARIABLES
    euds,      \* uid -> NoRow or [callsign, user]
    accounts,  \* ids of the federated accounts there are
    placeholder, \* those still named for their device's uid
    made,      \* accounts made so far
    event,     \* the event at hand
    stream,    \* "up", "down"
    excused,   \* history: accounts whose row failed, came or went in between
    faulty,    \* history: whether the stream ended by a fault of the database
    fails

devicesVars ==
    <<euds, accounts, placeholder, made, event, stream, excused, faulty, fails>>

-----------------------------------------------------------------------------
KnownUids == Remote \cup Local
NoRow == [there |-> FALSE, callsign |-> Nothing, user |-> Nothing]
Row(c, a) == [there |-> TRUE, callsign |-> c, user |-> a]
\* A local device's own account is none of the daemon's.
Owner == 0
\* A row whose callsign is its own uid.
Raw(u) == u
NoEvent == [uid |-> Nothing, callsign |-> Nothing, user |-> Nothing, known |-> FALSE,
            renames |-> FALSE, had |-> Nothing, step |-> "none"]

Taken(c, u) == c # Nothing /\ \E v \in KnownUids \ {u} : euds[v].there /\ euds[v].callsign = c

\* A release before this one made an account named for the uid.
DevicesInit ==
    \/ /\ euds = [u \in KnownUids |-> NoRow]
       /\ accounts = {} /\ placeholder = {} /\ made = 0
       /\ event = NoEvent /\ stream = "up" /\ excused = {} /\ faulty = FALSE /\ fails = 0
    \/ /\ \E u \in Remote : euds = [v \in KnownUids |-> IF v = u THEN Row(Raw(u), 1) ELSE NoRow]
       /\ accounts = {1} /\ placeholder = {1} /\ made = 1
       /\ event = NoEvent /\ stream = "up" /\ excused = {} /\ faulty = FALSE /\ fails = 0

To(step) == event' = [event EXCEPT !.step = step]
History == UNCHANGED <<excused, faulty, fails>>
Fault == fails < MaxFails /\ fails' = fails + 1
\* The account of the event at hand is left without its row.
Excuse == excused' = excused \cup ({event.user} \ {Nothing})

-----------------------------------------------------------------------------
(* _ensure_federated_eud. *)

\* The row is looked up; c is what _resolve'd callsign the event, or one before,
\* carries, if any.
Receive(u, c, offline) ==
    LET row == euds[u]
        name == IF c # Nothing /\ row.callsign = Raw(u) THEN c ELSE row.callsign
        wants == row.user = Nothing /\ name # Raw(u)
        changed == name # row.callsign
    IN  /\ stream = "up" /\ event = NoEvent
        /\ event' = [uid |-> u, callsign |-> IF row.there THEN name ELSE c, user |-> Nothing,
                     known |-> row.there, renames |-> row.there /\ changed, had |-> row.user,
                     step |-> CASE row.there /\ wants -> "account"
                                [] row.there /\ changed /\ ~wants -> "callsign"
                                [] row.there /\ ~changed /\ ~wants -> "forward"
                                [] ~row.there /\ c # Nothing -> "account"
                                [] ~row.there /\ c = Nothing /\ ~offline -> "row"
                                [] OTHER -> "forward"]
        /\ UNCHANGED <<euds, accounts, placeholder, made, stream>> /\ History

\* The row's new callsign cannot be written: another row has it, or the row is gone.
Unwritable == event.renames /\ (Taken(event.callsign, event.uid) \/ ~euds[event.uid].there)

\* An administrator deleted the account meanwhile.
AccountLeft == event.user \in accounts \cup {Nothing}

Renamed == IF event.renames THEN [euds EXCEPT ![event.uid].callsign = event.callsign] ELSE euds

\* _ensure_federated_user: looking for a free name flushes the row's new callsign,
\* which the commit of the account then commits, too.
EnsureUser ==
    /\ event.step = "account" /\ ~Unwritable /\ made < MaxAccounts
    /\ made' = made + 1
    /\ accounts' = accounts \cup {made'}
    /\ euds' = Renamed
    /\ event' = [event EXCEPT !.user = made', !.step = IF event.known THEN "user" ELSE "row"]
    /\ UNCHANGED <<placeholder, stream>> /\ History

\* The flush is outside of the try: its error leaves the handler, and the stream ends.
EnsureUserRaises ==
    /\ event.step = "account" /\ Unwritable
    /\ event' = NoEvent /\ stream' = "down"
    /\ UNCHANGED <<euds, accounts, placeholder, made>> /\ History

EnsureUserFails ==
    /\ event.step = "account" /\ ~Unwritable /\ Fault
    /\ To(IF event.known THEN "forward" ELSE "row")
    /\ UNCHANGED <<euds, accounts, placeholder, made, stream, excused, faulty>>

\* The row that was there gets its account.
SetUser ==
    /\ event.step = "user"
    /\ IF euds[event.uid].there /\ AccountLeft
       THEN euds' = [euds EXCEPT ![event.uid].user = event.user] /\ UNCHANGED excused
       ELSE Excuse /\ UNCHANGED euds
    /\ To("forward")
    /\ UNCHANGED <<accounts, placeholder, made, stream, faulty, fails>>

\* An account that was there gets its name with the callsign.
SetCallsign ==
    /\ event.step = "callsign"
    /\ IF Unwritable THEN UNCHANGED <<euds, placeholder>>
       ELSE euds' = Renamed /\ placeholder' = placeholder \ {event.had}
    /\ To("forward")
    /\ UNCHANGED <<accounts, made, stream>> /\ History

\* Mutant: the second try forgets the account.
InsertRowAlone ==
    LET u == event.uid
    IN  /\ event.step = "row"
        /\ IF euds[u].there \/ ~AccountLeft THEN Excuse /\ UNCHANGED euds
           ELSE /\ euds' = [euds EXCEPT ![u] =
                      IF event.callsign = Nothing THEN Row(Raw(u), event.user)
                      ELSE IF Taken(event.callsign, u) THEN Row(Nothing, Nothing)
                      ELSE Row(event.callsign, event.user)]
                /\ UNCHANGED excused
        /\ To("forward")
        /\ UNCHANGED <<accounts, placeholder, made, stream, faulty, fails>>

\* A new row: with the callsign or, if that is taken, without. A row that came in
\* between fails both.
InsertRow ==
    LET u == event.uid
    IN  /\ event.step = "row"
        /\ IF euds[u].there \/ ~AccountLeft THEN Excuse /\ UNCHANGED euds
           ELSE /\ euds' = [euds EXCEPT ![u] =
                      IF event.callsign = Nothing THEN Row(Raw(u), event.user)
                      ELSE IF Taken(event.callsign, u) THEN Row(Nothing, event.user)
                      ELSE Row(event.callsign, event.user)]
                /\ UNCHANGED excused
        /\ To("forward")
        /\ UNCHANGED <<accounts, placeholder, made, stream, faulty, fails>>

RowFails ==
    /\ event.step \in {"user", "callsign", "row"} /\ Fault
    /\ Excuse
    /\ To("forward")
    /\ UNCHANGED <<euds, accounts, placeholder, made, stream, faulty>>

\* _publish_to_cot_parser
Forward ==
    /\ event.step = "forward"
    /\ event' = NoEvent
    /\ UNCHANGED <<euds, accounts, placeholder, made, stream>> /\ History

\* The query fails, the broker is gone, the daemon is killed.
Breaks ==
    /\ event # NoEvent /\ Fault
    /\ Excuse
    /\ event' = NoEvent /\ stream' = "down" /\ faulty' = TRUE
    /\ UNCHANGED <<euds, accounts, placeholder, made>>

\* After five seconds.
Subscribe ==
    /\ stream = "down"
    /\ stream' = "up" /\ faulty' = FALSE
    /\ UNCHANGED <<euds, accounts, placeholder, made, event, excused, fails>>

-----------------------------------------------------------------------------
(* The others. *)

\* A device enrolls here or connects: the row is its user's, whose it was before.
Enroll(u) ==
    /\ euds' = [euds EXCEPT ![u] = IF @.there THEN [@ EXCEPT !.user = Owner] ELSE Row(Nothing, Owner)]
    /\ excused' = excused \cup ({euds[u].user} \cap accounts)
    /\ UNCHANGED <<accounts, placeholder, made, event, stream, faulty, fails>>

TellCallsign(u, c) ==
    /\ euds[u].there /\ euds[u].user = Owner /\ ~Taken(c, u)
    /\ euds' = [euds EXCEPT ![u].callsign = c]
    /\ UNCHANGED <<accounts, placeholder, made, event, stream>> /\ History

\* The rows of its devices stay.
DeleteUser(a) ==
    /\ a \in accounts
    /\ accounts' = accounts \ {a} /\ placeholder' = placeholder \ {a}
    /\ euds' = [u \in KnownUids |-> IF euds[u].user = a THEN [euds[u] EXCEPT !.user = Nothing]
                               ELSE euds[u]]
    /\ UNCHANGED <<made, event, stream>> /\ History

\* purge_data deletes all devices, and leaves the accounts.
PurgeData ==
    /\ euds' = [u \in KnownUids |-> NoRow]
    /\ excused' = excused \cup {a \in accounts : \E u \in KnownUids : euds[u].user = a}
    /\ UNCHANGED <<accounts, placeholder, made, event, stream, faulty, fails>>

DevicesNext ==
    \/ \E u \in Remote, c \in Callsigns \cup {Nothing}, off \in BOOLEAN : Receive(u, c, off)
    \/ EnsureUser \/ EnsureUserRaises \/ EnsureUserFails \/ SetUser \/ SetCallsign
    \/ InsertRow \/ RowFails \/ Forward \/ Breaks \/ Subscribe
    \/ \E u \in KnownUids : Enroll(u) \/ \E c \in Callsigns : TellCallsign(u, c)
    \/ \E a \in accounts : DeleteUser(a)
    \/ PurgeData

DevicesSpec == DevicesInit /\ [][DevicesNext]_devicesVars

-----------------------------------------------------------------------------
\* An account made for a device is that device's, although it is committed first: one
\* is only left without where the database failed, or where the row came, went or got
\* another owner.
AccountHasItsDevice ==
    \A a \in accounts :
        \/ \E u \in KnownUids : euds[u].user = a
        \/ event # NoEvent /\ event.user = a
        \/ a \in excused

\* Not so: a callsign that another device has is no reason to end the stream ("still
\* register the uid so cot_parser accepts it, just without a friendly callsign").
StreamEndsByFaults == stream = "down" => faulty
=============================================================================
