---------------------------- MODULE RemoteClear ----------------------------
(***************************************************************************)
(* Stored clear-content commands (clear_user_content, queue_if_offline), on *)
(* top of the connections of DeviceLink: the web process commits one row    *)
(* for every device of the user, then asks the devices whose row says       *)
(* Connected to reconnect; the handler of a connection reads the device's   *)
(* undelivered rows right after its euds row is saved, writes one command   *)
(* to its own socket and stamps the rows it read.                           *)
(*                                                                         *)
(* Devices are the enrolled devices of the user.  The live mode of the      *)
(* request only publishes a message with a lifetime and keeps nothing.      *)
(***************************************************************************)
EXTENDS DeviceLink

CONSTANTS
    Requests,      \* clear requests of administrators, each made once
    MaxRestarts    \* bound: restarts of the streaming service

VARIABLES
    toAsk,    \* web process: devices a request has still to look at
    command,  \* pending_clear_commands: one row per request and device
    skipped,  \* history: devices that did not look connected to a request
    stage,    \* handler thread: how far the delivery of a connection got
    seen,     \* requests whose rows the delivery of a connection read
    written,  \* history: <<connection, request>> written to the socket
    restarts

deliverVars == <<stage, seen, written>>
clearVars == <<toAsk, command, skipped, deliverVars, restarts>>
allVars == <<linkVars, clearVars>>

Commands == Requests \X Devices
Stages == {"before", "read", "written", "done", "failed"}

ClearInit ==
    /\ LinkInit
    /\ toAsk = [r \in Requests |-> {}]
    /\ command = [x \in Commands |-> "none"]
    /\ skipped = {}
    /\ stage = [c \in Conns |-> "before"]
    /\ seen = [c \in Conns |-> {}]
    /\ written = {}
    /\ restarts = 0
-----------------------------------------------------------------------------
(* clear_user_content: the rows of all devices are committed together. *)
StoreClear(r) ==
    /\ \A d \in Devices : command[<<r, d>>] = "none"
    /\ command' = [x \in Commands |-> IF x[1] = r THEN "pending" ELSE command[x]]
    /\ toAsk' = [toAsk EXCEPT ![r] = Devices]
    /\ UNCHANGED <<linkVars, skipped, deliverVars, restarts>>

(* The commit expired the devices it had read, so last_status is read again
   for each of them, when its turn comes. *)
AskReconnect(r, d) ==
    /\ d \in toAsk[r]
    /\ toAsk' = [toAsk EXCEPT ![r] = @ \ {d}]
    /\ LinkAsk(d)
    /\ UNCHANGED <<command, skipped, deliverVars, restarts>>

SkipDevice(r, d) ==
    /\ d \in toAsk[r]
    /\ status[d] # "Connected"
    /\ toAsk' = [toAsk EXCEPT ![r] = @ \ {d}]
    /\ skipped' = skipped \cup {<<r, d>>}
    /\ UNCHANGED <<linkVars, command, deliverVars, restarts>>

(* The broker cannot be reached: the request answers 500, the rows stay. *)
AskFails(r) ==
    /\ toAsk[r] # {}
    /\ toAsk' = [toAsk EXCEPT ![r] = {}]
    /\ skipped' = skipped \cup {r} \X toAsk[r]
    /\ UNCHANGED <<linkVars, command, deliverVars, restarts>>
-----------------------------------------------------------------------------
PendingFor(d) == {r \in Requests : command[<<r, d>>] = "pending"}

(* Mutant: one row for each connection. *)
ReadOne(c) ==
    /\ phase[c] = "live" /\ stage[c] = "before"
    /\ seen' = [seen EXCEPT ![c] =
                  IF PendingFor(DeviceOf[c]) = {} THEN {}
                  ELSE {CHOOSE r \in PendingFor(DeviceOf[c]) : TRUE}]
    /\ stage' = [stage EXCEPT ![c] = IF seen'[c] = {} THEN "done" ELSE "read"]
    /\ UNCHANGED <<linkVars, toAsk, command, skipped, written, restarts>>

(* parse_device_info, after the euds row: the undelivered rows of the device.
   Like SaveRow it does not look at shutdown. *)
Read(c) ==
    /\ phase[c] = "live" /\ stage[c] = "before"
    /\ seen' = [seen EXCEPT ![c] = PendingFor(DeviceOf[c])]
    /\ stage' = [stage EXCEPT ![c] =
                   IF PendingFor(DeviceOf[c]) = {} THEN "done" ELSE "read"]
    /\ UNCHANGED <<linkVars, toAsk, command, skipped, written, restarts>>

(* One command for all the rows that were read.  A peer that is gone may still
   take it: the write only reaches the kernel. *)
Write(c) ==
    /\ phase[c] = "live" /\ stage[c] = "read"
    /\ stage' = [stage EXCEPT ![c] = "written"]
    /\ written' = written \cup ({c} \X seen[c])
    /\ UNCHANGED <<linkVars, toAsk, command, skipped, seen, restarts>>

(* sendall raises, since the socket was shut down, closed or reset. *)
WriteFails(c) ==
    /\ phase[c] = "live" /\ stage[c] = "read" /\ sock[c] = "gone"
    /\ stage' = [stage EXCEPT ![c] = "failed"]
    /\ UNCHANGED <<linkVars, toAsk, command, skipped, seen, written, restarts>>

Stamp(c) ==
    /\ phase[c] = "live" /\ stage[c] = "written"
    /\ stage' = [stage EXCEPT ![c] = "done"]
    /\ command' = [x \in Commands |-> IF x \in seen[c] \X {DeviceOf[c]}
                              THEN "delivered" ELSE command[x]]
    /\ UNCHANGED <<linkVars, toAsk, skipped, seen, written, restarts>>

(* The commit fails: the rows stay for the next connection. *)
StampFails(c) ==
    /\ phase[c] = "live" /\ stage[c] = "written"
    /\ stage' = [stage EXCEPT ![c] = "failed"]
    /\ UNCHANGED <<linkVars, toAsk, command, skipped, seen, written, restarts>>
-----------------------------------------------------------------------------
(* The connections go on meanwhile, a connection may end in the middle of its
   delivery, and an ended connection's thread may still be in it. *)
SessionStep ==
    \/ LinkStep /\ UNCHANGED clearVars
    \/ /\ LinkRestart
       /\ restarts < MaxRestarts
       /\ restarts' = restarts + 1
       /\ UNCHANGED <<toAsk, command, skipped, deliverVars>>

Ask(r) == \E d \in toAsk[r] : AskReconnect(r, d) \/ SkipDevice(r, d)
Deliver(c) == Read(c) \/ Write(c) \/ WriteFails(c) \/ Stamp(c) \/ StampFails(c)

ClearNext ==
    \/ SessionStep
    \/ \E r \in Requests : StoreClear(r) \/ Ask(r) \/ AskFails(r)
    \/ \E c \in Conns : Deliver(c)

ClearSpec == ClearInit /\ [][ClearNext]_allVars

(* A request that was stored is seen through; the thread of a handler saves the
   row and goes through the delivery; its ioloop takes the control messages
   (they live ten seconds, far longer than it needs for one). *)
ClearFairness ==
    /\ \A c \in Conns :
        /\ WF_allVars(LinkSave(c) /\ UNCHANGED clearVars)
        /\ WF_allVars(LinkLeave(c) /\ UNCHANGED clearVars)
        /\ WF_allVars(Deliver(c))
    /\ \A r \in Requests : WF_allVars(Ask(r) \/ AskFails(r))

FairClearSpec == ClearSpec /\ ClearFairness
-----------------------------------------------------------------------------
(* Type correctness, of the connections too. *)
ClearTypeOK ==
    /\ LinkTypeOK
    /\ toAsk \in [Requests -> SUBSET Devices]
    /\ command \in [Commands -> {"none", "pending", "delivered"}]
    /\ skipped \subseteq Commands
    /\ stage \in [Conns -> Stages]
    /\ seen \in [Conns -> SUBSET Requests]
    /\ written \subseteq Conns \X Requests
    /\ restarts \in 0..MaxRestarts

(* parse_device_info: "Rows are stamped delivered only after the write
   succeeded": whatever was stored while a delivery was under way, a stamped
   row is one whose command was written to a connection of its device. *)
DeliveredWasWritten ==
    \A x \in Commands : command[x] = "delivered" =>
        \E c \in Conns : DeviceOf[c] = x[2] /\ <<c, x[1]>> \in written

(* A request that took its turn at d while the row said Connected. *)
Asked(r, d) ==
    command[<<r, d>>] # "none" /\ d \notin toAsk[r] /\ <<r, d>> \notin skipped

(* clear_user_content: "the row must be committed before any reconnect it
   triggers can look for it": once a device was asked to reconnect, each of its
   connections with a control queue read the row, has yet to, or is on its way
   out. *)
NotOverlooked ==
    \A r \in Requests, c \in Conns :
        Asked(r, DeviceOf[c]) /\ ctl[c] /\ stage[c] # "before" =>
            \/ r \in seen[c] \/ command[<<r, DeviceOf[c]>>] = "delivered"
            \/ c \in leaving \/ sock[c] = "gone"

(* Both: a clear command is neither taken for delivered nor overlooked. *)
CommandsAreKept == DeliveredWasWritten /\ NotOverlooked

(* "stored, then deliver on the next connection, forcing that connection for
   devices that look online": a row of a device that was asked to reconnect
   stays pending for ever only if no connection of the device with a control
   queue stays up, apart from one whose delivery failed. *)
WaitsOnlyForDevice ==
    \A r \in Requests, d \in Devices :
        <>[](command[<<r, d>>] = "pending" /\ Asked(r, d)) =>
        <>[](\A c \in Conns : DeviceOf[c] = d /\ ctl[c] /\ sock[c] = "up"
                                => stage[c] = "failed")
=============================================================================
