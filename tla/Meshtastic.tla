----------------------------- MODULE Meshtastic -----------------------------
(* TAK devices on the meshes of Meshtastic radios. The row of a device has the node id
   it is known by there: the CoT parser publishes its positions and chat as from that
   id, and who answers a text writes to it. The controller finds the recipients of a
   text in its memory, which it fills from the rows when it starts, giving an id to
   those without one, and which packets of radios add to.

   Handlers of connections give ids to the same rows; they, the parser and the
   controller are processes of their own. An id is drawn from 2^32 and taken not to be
   drawn twice. A gateway does not publish what it took from the broker (its firmware).

   Left out: telemetry, encryption, the delivery to TAK devices, copies of packets to
   other channels (the controller drops what it receives of them: their keys end in
   "outgoing"), what another device relays, and the deletion of rows. *)
EXTENDS Naturals, FiniteSets

CONSTANTS
    Radios,      \* node ids of radios
    Uids,        \* uids of TAK devices
    PluginOf,    \* radio -> the uid of the device with the ATAK plugin at it, or NoUid
    NoUid,
    Ids, NoId,   \* node ids to draw; their number is a bound
    Short,       \* node ids that begin with the digit zero
    Streams,     \* connections of devices that say what they are
    MaxPackets, MaxStarts  \* bounds

ASSUME MeshtasticAssumption ==
    /\ PluginOf \in [Radios -> Uids \cup {NoUid}]
    /\ NoUid \notin Uids \cup Radios /\ NoId \notin Ids \cup Radios
    /\ Radios \cap Uids = {} /\ MaxPackets \in Nat /\ MaxStarts \in Nat

VARIABLES
    eud,         \* rows: uid -> platform
    mid,         \* rows: uid -> meshtastic_id
    devices,     \* the controller's memory: key -> [mid, padded, uid]
    stage,       \* of the controller: "loading", then "running"
    alive,       \* the thread of its connection, which runs from the first moment
    toLoad,      \* rows of the query that are not in memory yet
    seen,        \* their ids as the query read them
    filling,     \* the row that is given an id, or NoUid
    connecting,  \* stream -> the device and the id its row had when it was read
    given,       \* ids drawn so far
    aired,       \* [uid, id]: as what the parser published which device
    reply,       \* of the text the last step handled: its recipient, and who got it
    late,        \* ghost: ids given since the controller read the rows, and those of
                 \*   radios it heard of while it went through them
    met,         \* ghost: devices whose id was given twice, as neither saw the other's
    starts, packets

meshtasticVars == <<eud, mid, devices, stage, alive, toLoad, seen, filling, connecting,
                    given, aired, reply, late, met, starts, packets>>
idVars == <<eud, mid, given, met>>
memoryVars == <<devices, stage, alive, toLoad, seen, filling>>

Keys == Radios \cup Uids
NoDevice == [mid |-> NoId, padded |-> TRUE, uid |-> NoUid]
Idle == [uid |-> NoUid, mid |-> NoId]
NoReply == [to |-> NoId, uids |-> {}]

\* A server that starts with no rows.
MeshtasticInit ==
    /\ eud = [k \in Keys |-> "none"] /\ mid = [k \in Keys |-> NoId]
    /\ devices = [k \in Keys |-> NoDevice] /\ stage = "running" /\ alive = TRUE
    /\ toLoad = {} /\ seen = mid /\ filling = NoUid
    /\ connecting = [c \in Streams |-> Idle]
    /\ given = {} /\ aired = {} /\ reply = NoReply
    /\ late = {} /\ met = {} /\ starts = 1 /\ packets = 0
-----------------------------------------------------------------------------
(* get_euds reads all rows, then goes through them in no order... *)
Start ==
    /\ starts < MaxStarts
    /\ starts' = starts + 1
    /\ stage' = "loading" /\ alive' = TRUE /\ devices' = [k \in Keys |-> NoDevice]
    /\ toLoad' = {k \in Keys : eud[k] # "none"} /\ seen' = mid /\ filling' = NoUid
    /\ late' = {} /\ reply' = NoReply
    /\ UNCHANGED <<idVars, connecting, aired, packets>>

(* ... and notes each under its uid, with its id as it was read, or read again since a
   commit has expired it, and without leading zeros. *)
LoadRow(k) ==
    /\ stage = "loading" /\ filling = NoUid /\ k \in toLoad
    /\ \E n \in {seen[k], mid[k]} :
          \/ /\ n = NoId
             /\ filling' = k
             /\ UNCHANGED <<devices, toLoad>>
          \/ /\ n # NoId
             /\ devices' = [devices EXCEPT ![k] = [mid |-> n, padded |-> FALSE, uid |-> k]]
             /\ toLoad' = toLoad \ {k}
             /\ UNCHANGED filling
    /\ reply' = NoReply
    /\ UNCHANGED <<idVars, stage, alive, seen, connecting, aired, late, starts, packets>>

(* A row without an id is given one and committed, whatever has been committed since
   it was read; then it is read again. *)
FillRow ==
    /\ filling # NoUid
    /\ \E n \in Ids \ given :
          /\ mid' = [mid EXCEPT ![filling] = n]
          /\ seen' = [seen EXCEPT ![filling] = n]
          /\ given' = given \cup {n}
    /\ met' = IF mid[filling] = NoId THEN met ELSE met \cup {filling}
    /\ filling' = NoUid /\ reply' = NoReply
    /\ UNCHANGED <<eud, devices, stage, alive, toLoad, connecting, aired, late, starts, packets>>

(* get_channels ends the start. *)
Loaded ==
    /\ stage = "loading" /\ toLoad = {}
    /\ stage' = "running" /\ reply' = NoReply
    /\ UNCHANGED <<idVars, devices, alive, toLoad, seen, filling, connecting, aired, late,
                   starts, packets>>
-----------------------------------------------------------------------------
(* handle_auth: a device that names itself has a row, but nothing in it. *)
NewRow(u) ==
    /\ eud[u] = "none"
    /\ eud' = [eud EXCEPT ![u] = "bare"]
    /\ reply' = NoReply
    /\ UNCHANGED <<mid, given, met, memoryVars, connecting, aired, late, starts, packets>>

(* parse_device_info: get_or_create_eud reads the row... *)
ConnectReads(c, u) ==
    /\ connecting[c] = Idle
    /\ connecting' = [connecting EXCEPT ![c] = [uid |-> u, mid |-> mid[u]]]
    /\ eud' = [eud EXCEPT ![u] = IF @ = "none" THEN "bare" ELSE @]
    /\ reply' = NoReply
    /\ UNCHANGED <<mid, given, met, memoryVars, aired, late, starts, packets>>

Draws(c, n) ==
    LET u == connecting[c].uid IN
    /\ mid' = [mid EXCEPT ![u] = n]
    /\ given' = given \cup {n} /\ late' = late \cup {n}
    /\ met' = IF connecting[c].mid = NoId /\ mid[u] # NoId THEN met \cup {u} ELSE met

Committed(c) ==
    /\ eud' = [eud EXCEPT ![connecting[c].uid] = "ATAK"]
    /\ connecting' = [connecting EXCEPT ![c] = Idle]
    /\ reply' = NoReply
    /\ UNCHANGED <<memoryVars, aired, starts, packets>>

(* Mutant: a device has a new id with every connection. *)
ConnectCommitsAnew(c) ==
    /\ connecting[c] # Idle
    /\ \E n \in Ids \ given : Draws(c, n)
    /\ Committed(c)

(* ... an id is drawn where it had none; what has changed is committed, or all that
   was read, if the callsign is another device's. *)
ConnectCommits(c) ==
    /\ connecting[c] # Idle
    /\ \/ /\ connecting[c].mid = NoId
          /\ \E n \in Ids \ given : Draws(c, n)
       \/ /\ connecting[c].mid # NoId
          /\ mid' \in {mid, [mid EXCEPT ![connecting[c].uid] = connecting[c].mid]}
          /\ UNCHANGED <<given, met, late>>
    /\ Committed(c)

ConnectBreaks(c) ==
    /\ connecting[c] # Idle
    /\ connecting' = [connecting EXCEPT ![c] = Idle]
    /\ reply' = NoReply
    /\ UNCHANGED <<idVars, memoryVars, aired, late, starts, packets>>

Airs(u) ==
    /\ mid[u] # NoId
    /\ aired' = aired \cup {[uid |-> u, id |-> mid[u]]}
    /\ reply' = NoReply
    /\ UNCHANGED <<idVars, memoryVars, connecting, late, starts, packets>>

(* parse_point: now and then, unless the row is a radio's. *)
ParsePoint(u) == eud[u] \notin {"none", "Meshtastic"} /\ Airs(u)

(* parse_geochat: whoever wrote it, if the row has a team. *)
ParseGeochat(u) == eud[u] # "none" /\ Airs(u)
-----------------------------------------------------------------------------
(* A packet of a radio: what on_message and protobuf_to_cot do with any. A radio that
   is not in memory is noted, by its node id with all its digits. *)
OnMessage ==
    /\ alive /\ packets < MaxPackets
    /\ packets' = packets + 1
    /\ UNCHANGED <<stage, toLoad, seen, filling, connecting, given, aired, met, starts>>

Known(r) ==
    IF devices[r] # NoDevice THEN devices
    ELSE [devices EXCEPT ![r] = [mid |-> r, padded |-> TRUE, uid |-> NoUid]]

NotedLate(r) == IF stage = "loading" THEN late \cup {r} ELSE late

(* insert_or_update_eud: a row for the uid, with the platform and the id of the radio;
   one that is there keeps its id, and for a position all it has. The callsign may be
   another device's: then nothing is written. *)
Save(u, m, update) ==
    \/ /\ eud' = [eud EXCEPT ![u] = IF @ = "none" \/ update THEN "Meshtastic" ELSE @]
       /\ mid' = [mid EXCEPT ![u] = IF eud[u] = "none" THEN m ELSE @]
    \/ UNCHANGED <<eud, mid>>

OnMessagePosition(r, update) ==
    /\ OnMessage
    /\ devices' = Known(r) /\ late' = NotedLate(r)
    /\ Save(r, devices'[r].mid, update)
    /\ reply' = NoReply
    /\ UNCHANGED alive

(* node_info, of the plugin: the radio stands for the device that it names. *)
OnMessagePlugin(r) ==
    /\ OnMessage
    /\ PluginOf[r] # NoUid
    /\ devices' = [Known(r) EXCEPT ![r].uid = PluginOf[r]] /\ late' = NotedLate(r)
    /\ Save(PluginOf[r], devices'[r].mid, TRUE)
    /\ reply' = NoReply
    /\ UNCHANGED alive

(* The devices in memory with this id. *)
Matches(d, n) == {k \in Keys : d[k].mid = n /\ (d[k].padded \/ n \notin Short)}
Found(d, n) == {d[k].uid : k \in Matches(d, n)} \ {NoUid}

(* Who gets a text for this id: nobody, if the first that has it is a radio without a
   uid, which may come before a device only if it was noted before that was. *)
Recipients(d, n) ==
    {Found(d, n)} \cup {X \in {{}} : n \in late /\ \E k \in Matches(d, n) : d[k].uid = NoUid}

UidOf(d, r) == IF d[r].uid = NoUid THEN r ELSE d[r].uid

(* text_message: to everyone (NoId), or to whoever has the id. The CoT is built from the
   entry of the sender's uid. Where there is none, as before the next start after a
   device with the plugin named itself, or where memory grows under the search, the
   exception leaves the callback of the connection and ends its thread. *)
OnMessageText(r, to) ==
    /\ OnMessage
    /\ devices' = Known(r) /\ late' = NotedLate(r)
    /\ \/ /\ devices'[UidOf(devices', r)] = NoDevice \/ stage = "loading"
          /\ alive' = FALSE /\ reply' = NoReply
       \/ /\ devices'[UidOf(devices', r)] # NoDevice
          /\ \E uids \in Recipients(devices', to) : reply' = [to |-> to, uids |-> uids]
          /\ UNCHANGED alive
    /\ UNCHANGED <<eud, mid>>

MeshtasticNext ==
    \/ Start \/ FillRow \/ Loaded
    \/ \E k \in Keys : LoadRow(k)
    \/ \E u \in Uids : NewRow(u) \/ ParsePoint(u) \/ ParseGeochat(u)
    \/ \E c \in Streams :
          \/ \E u \in Uids : ConnectReads(c, u)
          \/ ConnectCommits(c) \/ ConnectBreaks(c)
    \/ \E r \in Radios :
          \/ \E update \in BOOLEAN : OnMessagePosition(r, update)
          \/ OnMessagePlugin(r)
          \/ \E to \in Radios \cup {NoId} \cup {a.id : a \in aired} : OnMessageText(r, to)

MeshtasticSpec == MeshtasticInit /\ [][MeshtasticNext]_meshtasticVars
-----------------------------------------------------------------------------
(* A text to the id that a device was ever published under reaches the device, over
   starts of the controller and connections at the same time. The exceptions: ids that
   begin with zero, which memory and packets write differently; ids given since the
   controller has read the rows, and of radios heard meanwhile; and devices that were
   given an id twice. *)
RepliesFindTheirDevice ==
    stage = "running" =>
        \A a \in aired : a.id = reply.to =>
            \/ a.uid \in reply.uids
            \/ a.id \in Short \cup late
            \/ a.uid \in met

(* "Set a Meshtastic ID for TAK EUDs to be identified by in the Meshtastic network":
   the same without exceptions. *)
KnownByItsId ==
    stage = "running" => \A a \in aired : a.id = reply.to => a.uid \in reply.uids
=============================================================================
