---------------------------- MODULE CotRecords ----------------------------
(* What cot_parser keeps of the messages it takes from its queue, and what the
   retention job (retention.py) removes again.

   cot_parser stores a message step by step, each in a transaction of its own:
   the CoT, its point, the record it is about (chat, alert, CasEvac, marker,
   range and bearing line), and acknowledges it only when it has been routed.
   The job deletes batch by batch, type by type, in between. Rows refer to each
   other: points.cot_id, and point_id and cot_id of the records, cascade.

   Times: a row carries the device's time, or Broken when that is implausible
   (before 2000, over a day ahead, missing), and `got`, the server's time when it
   was stored, which the code does not keep: it is there for the properties. *)
EXTENDS Integers, FiniteSets, FiniteSetsExt, Sequences

CONSTANTS
    Scripts,     \* sequences of messages [kind, fix] a device may send
    KeepOf,      \* retention by type, in ticks of the clock; 0 keeps forever
    Lag,         \* the age of a timely message when it is parsed: clock error and queue
    Batch,       \* BATCH_SIZE
    MaxClock,    \* bound on the clock
    MaxCrashes   \* bound on deaths of the cot_parser process and failing purges

Kinds == {"chat", "alert", "cancel", "casevac", "marker", "line"}
Types == {"cot", "chat", "alert", "casevac", "marker"}

ASSUME RecordsAssumption ==
    /\ \A s \in Scripts : s \in Seq([kind : Kinds, fix : BOOLEAN])
    /\ KeepOf \in [Types -> Nat]
    /\ Lag \in Nat /\ Batch \in Nat \ {0} /\ MaxClock \in Nat /\ MaxCrashes \in Nat

Broken == -1
None == 0

VARIABLES
    clock,    \* the server's time
    script,   \* what the device still sends, the message being parsed first
    parser,   \* [step, time, cot, point]: on_message and its local variables
    serial,   \* the last id given to a row
    crashes,
    late,     \* whether a message older than Lag has been stored
    cots,     \* rows of cot: [id, time, got]
    points,   \* rows of points: [id, cot, time, got]
    rows,     \* rows of the records
    job       \* [table, start, boundary, ids]: apply_retention

recordsVars == <<clock, script, parser, serial, crashes, late, cots, points, rows, job>>
storeVars == <<cots, points, rows>>

Idle == [step |-> "idle", time |-> Broken, cot |-> None, point |-> None]

(* The tables in the order the job takes them, and the type each belongs to. *)
Tables == <<"points", "cots", "chat", "alert", "casevac", "marker", "line">>
TypeOf(t) == IF t \in {"points", "cots"} THEN "cot" ELSE IF t = "line" THEN "marker" ELSE t
Unset == -1
Resting == [table |-> 0, start |-> 0, boundary |-> Unset, ids |-> {}]

RecordsInit ==
    /\ clock = 1 /\ serial = 0 /\ crashes = 0 /\ late = FALSE
    /\ script \in Scripts
    /\ parser = Idle
    /\ cots = {} /\ points = {} /\ rows = {}
    /\ job = Resting

Of(kind) == {r \in rows : r.kind = kind}
Ids(S) == {r.id : r \in S}
-----------------------------------------------------------------------------
(* cot_parser. `time` of a message is the device's clock when it sent it. *)

Message == Head(script)
(* A device that was offline, or whose clock is wrong but plausible, sends a
   message of time Old. *)
Old == 0
DeviceTimes == {Broken, Old} \cup {t \in 1..clock : clock - t <= Lag}

Done == parser' = Idle /\ script' = Tail(script)

(* insert_cot. *)
InsertCot ==
    /\ parser.step = "idle" /\ script # <<>>
    /\ \E t \in DeviceTimes :
          /\ parser' = [parser EXCEPT !.step = "cot", !.time = t, !.cot = serial + 1]
          /\ cots' = cots \cup {[id |-> serial + 1, time |-> t, got |-> clock]}
          /\ late' = (late \/ (t = Old /\ clock > Lag))
    /\ serial' = serial + 1
    /\ UNCHANGED <<clock, script, crashes, points, rows, job>>

(* An exception leaves on_message through its handler: the message is refused
   and not given back to the queue. *)
Nack ==
    /\ Done
    /\ UNCHANGED <<clock, serial, crashes, late, storeVars, job>>

(* parse_point: a message without a fix has no point. *)
ParsePoint ==
    /\ parser.step = "cot"
    /\ IF Message.fix THEN
          /\ parser.cot \in Ids(cots)
          /\ points' = points \cup
                {[id |-> serial + 1, cot |-> parser.cot, time |-> parser.time, got |-> clock]}
          /\ parser' = [parser EXCEPT !.step = "point", !.point = serial + 1]
          /\ serial' = serial + 1
       ELSE
          /\ parser' = [parser EXCEPT !.step = "point"]
          /\ UNCHANGED <<points, serial>>
    /\ UNCHANGED <<clock, script, crashes, late, cots, rows, job>>

(* The CoT went meanwhile: the point's foreign key is refused. *)
PointFails ==
    /\ parser.step = "cot" /\ Message.fix /\ parser.cot \notin Ids(cots)
    /\ Nack

(* Whether the foreign keys of a record hold. *)
PointHolds == parser.point = None \/ parser.point \in Ids(points)
RefsHold == parser.cot \in Ids(cots) /\ PointHolds

(* A chat is aged by its CoT's id, other records by their own. Rows of a kind
   that has a uid of its own share uid 0; a chat is one of its message. *)
NewRow(kind) ==
    [kind |-> kind, uid |-> IF kind = "chat" THEN Len(script) ELSE 0,
     id |-> IF kind = "chat" THEN parser.cot ELSE serial + 1,
     cot |-> parser.cot, point |-> parser.point, time |-> parser.time,
     last |-> parser.time, got |-> clock, open |-> kind = "alert"]

Parsing(kind) ==
    /\ parser.step = "point" /\ Message.kind = kind
    /\ parser' = [parser EXCEPT !.step = "stored"]
    /\ UNCHANGED <<clock, script, crashes, late, cots, points, job>>

Insert(kind) == rows' = rows \cup {NewRow(kind)} /\ serial' = serial + 1
Ignore == UNCHANGED <<rows, serial>>

(* parse_geochat: an IntegrityError, a known uid's or a key's, is rolled back. *)
ParseChat ==
    /\ Parsing("chat")
    /\ IF RefsHold /\ ~ \E r \in Of("chat") : r.uid = Len(script) THEN Insert("chat") ELSE Ignore

(* parse_alert, a new emergency: every message makes a row. *)
ParseAlert == Parsing("alert") /\ RefsHold /\ Insert("alert")

(* parse_alert, the end of an emergency: the device's latest open alert by start
   time, rows of equal times in any order. *)
ParseCancel ==
    /\ Parsing("cancel")
    /\ LET open == {r \in Of("alert") : r.open} IN
       IF open = {} THEN Ignore
       ELSE \E r \in {a \in open : \A o \in open : o.time <= a.time} :
               /\ rows' = (rows \ {r}) \cup {[r EXCEPT !.open = FALSE]}
               /\ UNCHANGED serial

(* parse_casevac: a known uid has its fields updated, neither its time nor its
   point; without one, and a key that is refused, there is nothing to update. *)
ParseCasevac ==
    /\ Parsing("casevac")
    /\ IF Of("casevac") = {} THEN IF RefsHold THEN Insert("casevac") ELSE Ignore
       ELSE /\ rows' = {IF r.kind = "casevac" THEN [r EXCEPT !.last = parser.time] ELSE r : r \in rows}
            /\ UNCHANGED serial

(* parse_marker: a known uid gets the new point, its cot_id is not among the
   fields that serialize() gives; a key that is refused is only logged. *)
ParseMarker ==
    /\ Parsing("marker")
    /\ IF Of("marker") = {} THEN IF RefsHold THEN Insert("marker") ELSE Ignore
       ELSE IF ~ PointHolds THEN Ignore
       ELSE /\ rows' = {IF r.kind = "marker" THEN [r EXCEPT !.point = parser.point, !.last = parser.time]
                        ELSE r : r \in rows}
            /\ UNCHANGED serial

(* parse_rbline: needs its point; a known uid gets the new time, neither the new
   point nor the new CoT. *)
ParseLine ==
    /\ Parsing("line")
    /\ parser.point \in Ids(points)
    /\ IF Of("line") = {} THEN Insert("line")
       ELSE /\ rows' = {IF r.kind = "line" THEN [r EXCEPT !.time = parser.time, !.last = parser.time]
                        ELSE r : r \in rows}
            /\ UNCHANGED serial

(* An alert whose keys are refused and a line without its point raise. *)
RecordFails ==
    /\ parser.step = "point"
    /\ \/ Message.kind = "alert" /\ ~ RefsHold
       \/ Message.kind = "line" /\ parser.point \notin Ids(points)
    /\ Nack

(* route_cot and basic_ack. *)
Route ==
    /\ parser.step = "stored"
    /\ Done
    /\ UNCHANGED <<clock, serial, crashes, late, storeVars, job>>

(* The process dies; the broker gives the message to the next one, which starts
   it again. *)
ParserDies ==
    /\ parser.step # "idle" /\ crashes < MaxCrashes
    /\ crashes' = crashes + 1
    /\ parser' = Idle
    /\ UNCHANGED <<clock, script, serial, late, storeVars, job>>
-----------------------------------------------------------------------------
(* apply_retention. *)

PlausibleOld(S, cutoff) == {r \in S : r.time # Broken /\ r.time < cutoff}

(* The highest id among rows known to be old, worked out before a deletion. *)
Boundary(S, cutoff) == Max({0} \cup Ids(PlausibleOld(S, cutoff)))

(* _aged *)
Aged(S, cutoff, boundary) ==
    PlausibleOld(S, cutoff) \cup {r \in S : r.time = Broken /\ r.id < boundary}

(* The rows whose times and ids decide over table t. *)
AgedBy(t) == CASE t = "points" -> points [] t \in {"cots", "marker"} -> cots [] OTHER -> Of(t)

(* Mutant: the CoT of a point that is kept is forgotten. *)
KeptCotsDirect == {r.cot : r \in rows}

(* referenced_points and referenced_cots: what something kept is built on. *)
KeptPoints == {r.point : r \in rows}
KeptCots == {r.cot : r \in rows} \cup {p.cot : p \in {q \in points : q.id \in KeptPoints}}

(* What a run that started then may delete of table i. A type that is kept
   forever is skipped; the boundary of a table is that of its first batch. *)
Start == IF job.table = 0 THEN clock ELSE job.start
CutoffOf(i) == Start - KeepOf[TypeOf(Tables[i])]
BoundaryOf(i) ==
    IF i = job.table /\ job.boundary # Unset THEN job.boundary
    ELSE Boundary(AgedBy(Tables[i]), CutoffOf(i))

Selected(i) ==
    LET t == Tables[i]
        old == Ids(Aged(AgedBy(t), CutoffOf(i), BoundaryOf(i)))
    IN IF KeepOf[TypeOf(t)] = 0 THEN {}
       ELSE CASE t = "points" -> old \ KeptPoints
              [] t = "cots"   -> old \ KeptCots
              [] t = "marker" -> Ids({r \in Of("marker") : r.cot \in old})
              [] OTHER        -> old

RecordsUnchanged == UNCHANGED <<clock, script, parser, serial, crashes, late>>

(* _delete_in_batches reads the ids of a batch, in no particular order. The first
   one starts the run; a table where there is nothing to delete takes no step. *)
SelectBatch ==
    /\ job.ids = {}
    /\ \E i \in Max({job.table, 1})..Len(Tables) :
          /\ Selected(i) # {}
          /\ \A k \in Max({job.table, 1})..(i - 1) : Selected(k) = {}
          /\ \E ids \in kSubset(Min({Batch, Cardinality(Selected(i))}), Selected(i)) :
                job' = [table |-> i, start |-> Start, boundary |-> BoundaryOf(i), ids |-> ids]
    /\ RecordsUnchanged /\ UNCHANGED storeVars

(* The run is over. *)
EndRun ==
    /\ job.table # 0 /\ job.ids = {}
    /\ \A i \in job.table..Len(Tables) : Selected(i) = {}
    /\ job' = Resting
    /\ RecordsUnchanged /\ UNCHANGED storeVars

(* The tables from i on are left to do. *)
GoOn(i) == job' = [job EXCEPT !.table = i, !.ids = {}, !.boundary = Unset]

(* Deletes rows by id, and by the foreign keys what is built on them: a chat's
   keys do not cascade and refuse the deletion instead. *)
DeleteRows(t, ids) ==
    LET goneCots == IF t = "cots" THEN ids ELSE {}
        left == {p \in points : p.cot \notin goneCots /\ (t = "points" => p.id \notin ids)}
        built == {r \in rows : r.cot \in goneCots \/ r.point \in Ids(points) \ Ids(left)}
    IN /\ built \cap Of("chat") = {}
       /\ cots' = {c \in cots : c.id \notin goneCots}
       /\ points' = left
       /\ rows' = rows \ (built \cup {r \in Of(t) : r.id \in ids})

(* ... and deletes and commits them. It goes on with a full batch unless its
   time is up. *)
DeleteBatch ==
    /\ job.ids # {}
    /\ DeleteRows(Tables[job.table], job.ids)
    /\ \/ Cardinality(job.ids) = Batch /\ job' = [job EXCEPT !.ids = {}]
       \/ GoOn(job.table + 1)
    /\ RecordsUnchanged

(* A purge fails and is rolled back: its type is given up, the others still run. *)
PurgeFails ==
    /\ job.ids # {}
    /\ crashes < MaxCrashes
    /\ crashes' = crashes + 1
    /\ GoOn(CASE job.table = 1 -> 3 [] job.table = 6 -> 8 [] OTHER -> job.table + 1)
    /\ UNCHANGED <<clock, script, parser, serial, late, storeVars>>

(* A tick is hours, a message is parsed within one. *)
Tick ==
    /\ clock < MaxClock /\ parser = Idle
    /\ clock' = clock + 1
    /\ UNCHANGED <<script, parser, serial, crashes, late, storeVars, job>>

RecordsNext ==
    \/ InsertCot \/ ParsePoint \/ PointFails \/ RecordFails \/ Route \/ ParserDies
    \/ ParseChat \/ ParseAlert \/ ParseCancel \/ ParseCasevac \/ ParseMarker \/ ParseLine
    \/ SelectBatch \/ DeleteBatch \/ PurgeFails \/ EndRun
    \/ Tick

RecordsSpec == RecordsInit /\ [][RecordsNext]_recordsVars
-----------------------------------------------------------------------------
Vanished(S, T) == {r \in S : ~ \E s \in T : s.id = r.id}

(* A purge takes what it should. Nothing fresh goes: a row that leaves the store has
   been in it for longer than its type is kept, up to the error of the device's
   clock, also when the device dates it to 1970 or 2099 and it is aged by the order
   of receipt, and whatever the deletion of a batch cascades to (retention.py: a
   broken clock must not "lose fresh rows on the next run").  And the purge of CoTs
   and positions takes no record along: while the parser stores the CoT, the point
   and the record one by one, and a marker moves on to the point of a later CoT, no
   batch holds a row that a record is built on when it is deleted ("The latest
   position of anything still kept ... never removed by this setting"). *)
NothingFreshGoes ==
    /\ ~ late' =>
          /\ \A r \in Vanished(cots, cots') \cup Vanished(points, points') :
                clock - r.got > KeepOf["cot"] - Lag
          /\ \A k \in Kinds : \A r \in Vanished(Of(k), Of(k)') :
                clock - r.got > KeepOf[TypeOf(k)] - Lag
    /\ ~ late /\ job.table \in {1, 2} /\ cots' \cup points' # cots \cup points
          /\ UNCHANGED parser => UNCHANGED rows

FreshStays == [][NothingFreshGoes]_recordsVars

(* What the setting says of markers: they go "by when they were last updated".
   The row keeps the CoT of its first message, so a marker that its device moved
   a moment ago goes by the time of the first. *)
MarkerGoesByItsLastUpdate ==
    [][\A r \in Vanished(Of("marker"), Of("marker")') :
          r.last = Broken \/ r.last < clock - KeepOf["marker"]]_recordsVars
=============================================================================
