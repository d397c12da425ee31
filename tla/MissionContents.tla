---------------------------- MODULE MissionContents ----------------------------
(****************************************************************************)
(* What is in a mission: the files linked to it, the map items in it, and the *)
(* log of changes that clients synchronise by. Files and items are shared by  *)
(* all missions: a file may be linked to several, an item is in one (its uid  *)
(* is the key of its row), so a second mission, "there", stands for the       *)
(* others; only the log of the one of MissionAccess, "here", is kept.         *)
(*                                                                           *)
(* Every handler commits in several steps, and publishes the change before or *)
(* after it is committed; the broker may fail then, which ends the request.   *)
(*                                                                           *)
(* The time of a change is that of its commit (an event with an older start    *)
(* sorts before it). Left out: the bytes on disk, keywords, the details and    *)
(* CoT rows of items.                                                          *)
(****************************************************************************)
EXTENDS MissionAccess, Sequences, SequencesExt

CONSTANTS
    Files,     \* uploaded files, by hash
    Items,     \* map items, by uid
    Nothing,   \* no file, or no item
    Writers,   \* slots for requests under way
    MaxLog     \* bound: rows of the log at which no request starts

ASSUME ContentsAssumption == Nothing \notin Files \cup Items /\ MaxLog \in Nat

VARIABLES
    other,    \* the row of the mission "there"
    content,  \* mission_content: the files that have a row
    linked,   \* mission_content_mission: <<file, mission>>
    item,     \* mission_uids: "none", "nowhere" (taken off its mission), or the mission
    log,      \* mission_changes of "here", in the order of their timestamps
    work      \* Writers -> request under way

contentVars == <<other, content, linked, item, log, work>>

-----------------------------------------------------------------------------
Entry(t, f, i) == [type |-> t, file |-> f, item |-> i]
NoWork == [op |-> "none"]

\* Where the log tells of item i, and where it tells that i was added.
About(i) == {n \in DOMAIN log : log[n].item = i}
AddsOf(i) == {n \in About(i) : log[n].type = "add"}

FileIsLogged(f) == \E e \in Range(log) : e.file = f
Linked(m) == {f \in content : <<f, m>> \in linked}
Shared == Linked("here") \cap Linked("there")

ContentsInit ==
    /\ other \in {"ungrouped", "grouped"}
    /\ content = {} /\ linked = {}
    /\ item = [i \in Items |-> "none"]
    /\ log = <<>>
    /\ work = [r \in Writers |-> NoWork]

Accepts(r, w) ==
    /\ work[r] = NoWork /\ Len(log) < MaxLog
    /\ work' = [work EXCEPT ![r] = w]
Proceeds(r, w) == work' = [work EXCEPT ![r] = w]
Closes(r) == work' = [work EXCEPT ![r] = NoWork]

-----------------------------------------------------------------------------
(* Files. *)

\* upload_content: a row for a hash that has none.
Upload(f) ==
    /\ content' = content \cup {f}
    /\ UNCHANGED <<other, linked, item, log, work>>

\* mission_contents with a hash: the link and, for a file the log does not
\* mention, the change are prepared; the change is published ...
PutFile(r, f) ==
    /\ ~Missing /\ tokens # {}
    /\ f \in content
    /\ Accepts(r, [op |-> "put", file |-> f, item |-> Nothing, known |-> FileIsLogged(f)])
    /\ UNCHANGED <<other, content, linked, item, log>>

\* ... and both are committed, or neither.
PutFileCommit(r) ==
    LET f == work[r].file
    IN  /\ work[r].op = "put"
        /\ Closes(r)
        /\ IF Missing \/ f \notin content THEN UNCHANGED <<linked, log>>
           ELSE /\ linked' = linked \cup {<<f, "here">>}
                /\ log' = IF work[r].known THEN log ELSE Append(log, Entry("add", f, Nothing))
        /\ UNCHANGED <<other, content, item>>

\* The same for the other mission, whose log is not kept.
PutThere(f) ==
    /\ other # "none" /\ f \in content
    /\ linked' = linked \cup {<<f, "there">>}
    /\ UNCHANGED <<other, content, item, log, work>>

-----------------------------------------------------------------------------
(* Map items: upsert_mission_uid_and_change, called by mission_contents with a *)
(* uid (f is Nothing), by the CoT parser, and by add_content for the items of  *)
(* a package.                                                                  *)

\* The row is inserted or, wherever it is, moved here.
PutItem(r, i, f) ==
    /\ ~Missing
    /\ Accepts(r, [op |-> "item", item |-> i, file |-> f])
    /\ item' = [item EXCEPT ![i] = "here"]
    /\ UNCHANGED <<other, content, linked, log>>

\* The item's ADD change is looked for ...
PutItemFind(r) ==
    LET w == work[r]
    IN  /\ w.op = "item"
        /\ Proceeds(r, [w EXCEPT !.op = IF AddsOf(w.item) = {} THEN "insert" ELSE "refresh"])
        /\ UNCHANGED <<other, content, linked, item, log>>

\* The log with the change at n refreshed, which gives it a later time.
Refreshed(n, f) ==
    Append(RemoveAt(log, n), IF f = Nothing THEN log[n] ELSE [log[n] EXCEPT !.file = f])

\* ... and made or refreshed. The commit fails if the row of the mission or of the
\* item has gone, or the change that was found.
PutItemChange(r) ==
    LET w == work[r]
        Fails == \/ Missing
                 \/ item[w.item] = "none"
                 \/ w.op = "refresh" /\ AddsOf(w.item) = {}
    IN  /\ w.op \in {"insert", "refresh"}
        /\ Closes(r)
        /\ \/ Fails /\ UNCHANGED log
           \/ ~Fails /\ w.op = "insert" /\ log' = Append(log, Entry("add", w.file, w.item))
           \/ ~Fails /\ w.op = "refresh" /\ \E n \in AddsOf(w.item) : log' = Refreshed(n, w.file)
        /\ UNCHANGED <<other, content, linked, item>>

\* The same for the other mission.
PutItemThere(i) ==
    /\ other # "none"
    /\ item' = [item EXCEPT ![i] = "there"]
    /\ UNCHANGED <<other, content, linked, log, work>>

\* add_content: the package's row and its link are committed, and then its item
\* is put, or the package is logged as a file if it has none.
AddPackage(r, f, i) ==
    /\ ~Missing
    /\ Accepts(r, [op |-> "package", file |-> f, item |-> i])
    /\ content' = content \cup {f}
    /\ UNCHANGED <<other, linked, item, log>>

AddPackageLink(r) ==
    LET w == work[r]
    IN  /\ w.op = "package"
        /\ IF Missing \/ w.file \notin content THEN Closes(r) /\ UNCHANGED linked
           ELSE /\ linked' = linked \cup {<<w.file, "here">>}
                /\ Proceeds(r, [w EXCEPT !.op = IF w.item = Nothing THEN "opaque" ELSE "packed"])
        /\ UNCHANGED <<other, content, item, log>>

AddPackageItem(r) ==
    LET w == work[r]
    IN  /\ w.op = "packed"
        /\ IF Missing THEN Closes(r) /\ UNCHANGED item
           ELSE item' = [item EXCEPT ![w.item] = "here"] /\ Proceeds(r, [w EXCEPT !.op = "item"])
        /\ UNCHANGED <<other, content, linked, log>>

AddPackageOpaque(r) ==
    LET f == work[r].file
    IN  /\ work[r].op = "opaque"
        /\ Closes(r)
        /\ log' = IF Missing \/ f \notin content \/ FileIsLogged(f) THEN log
                  ELSE Append(log, Entry("add", f, Nothing))
        /\ UNCHANGED <<other, content, linked, item>>

-----------------------------------------------------------------------------
(* delete_content with a uid, a hash or both. *)

\* The rows are read; an item is found by its uid alone, in whatever mission. A
\* file's link is deleted and committed, and with it the item's row.
DeleteContent(r, f, i) ==
    LET unlinks == <<f, "here">> \in linked
    IN  /\ ~Missing /\ tokens # {}
        /\ f # Nothing \/ i # Nothing
        /\ f # Nothing => f \in content
        /\ i # Nothing => item[i] # "none"
        /\ Accepts(r, [op |-> "remove", file |-> f, item |-> i,
                      writes |-> i # Nothing /\ item[i] # "nowhere" /\ ~unlinks])
        /\ linked' = linked \ {<<f, "here">>}
        /\ item' = IF unlinks /\ i # Nothing THEN [item EXCEPT ![i] = "nowhere"] ELSE item
        /\ UNCHANGED <<other, content, log>>

\* Mutant: the item keeps its row's mission.
DeleteContentChangeKept(r) ==
    LET w == work[r]
        Fails == \/ Missing
                 \/ w.file # Nothing /\ w.file \notin content
                 \/ w.item # Nothing /\ item[w.item] = "none"
    IN  /\ w.op = "remove"
        /\ Closes(r)
        /\ log' = IF Fails THEN log ELSE Append(log, Entry("remove", w.file, w.item))
        /\ UNCHANGED <<other, content, linked, item>>

\* The change has been published; it and the item's row are committed. An item
\* that was on no mission when it was read is not written.
DeleteContentChange(r) ==
    LET w == work[r]
        Fails == \/ Missing
                 \/ w.file # Nothing /\ w.file \notin content
                 \/ w.item # Nothing /\ item[w.item] = "none"
    IN  /\ w.op = "remove"
        /\ Closes(r)
        /\ IF Fails THEN UNCHANGED <<item, log>>
           ELSE /\ item' = IF w.writes THEN [item EXCEPT ![w.item] = "nowhere"] ELSE item
                /\ log' = Append(log, Entry("remove", w.file, w.item))
        /\ UNCHANGED <<other, content, linked>>

\* The broker cannot be reached before the commit of a file, or before that of a
\* removal: what was not committed is lost.
PublishFails(r) ==
    /\ work[r].op \in {"put", "remove"}
    /\ Closes(r)
    /\ UNCHANGED <<other, content, linked, item, log>>

-----------------------------------------------------------------------------
(* What deleting a mission takes along. Deleting the row of an item deletes its *)
(* changes in every log.                                                        *)

ItemsWithout(ms) == [i \in Items |-> IF item[i] \in ms THEN "none" ELSE item[i]]
\* The entries of a log whose places are in S, in their order.
AtPlaces(entries, S) ==
    LET at == CHOOSE f \in [1..Cardinality(S) -> S] :
                 /\ \A j, k \in DOMAIN f : j < k => f[j] < f[k]
                 /\ \A n \in S : \E j \in DOMAIN f : f[j] = n
    IN  [j \in 1..Cardinality(S) |-> entries[at[j]]]

LogWithout(is) == AtPlaces(log, {n \in DOMAIN log : log[n].item \notin is})

\* The browsers' way: the links, items and log of this mission.
WebDrops ==
    /\ linked' = {l \in linked : l[2] # "here"}
    /\ item' = ItemsWithout({"here"})
    /\ log' = <<>>
    /\ UNCHANGED <<other, content, work>>

\* The clients' way: the mission's files too, wherever they are linked, and with
\* a shared file the other mission, its items and its files. If that one is in a
\* group, its row cannot go and the whole deletion fails.
ClientDrops ==
    LET both == Shared # {}
        places == IF both THEN {"here", "there"} ELSE {"here"}
        files == UNION {Linked(m) : m \in places}
    IN  /\ ~(both /\ other = "grouped")
        /\ content' = content \ files
        /\ linked' = {l \in linked : l[1] \notin files /\ l[2] \notin places}
        /\ item' = ItemsWithout(places)
        /\ log' = <<>>
        /\ other' = IF both THEN "none" ELSE other
        /\ UNCHANGED work

\* A browser deletes the other mission.
OtherGone ==
    /\ other # "none"
    /\ other' = "none"
    /\ linked' = {l \in linked : l[2] # "there"}
    /\ item' = ItemsWithout({"there"})
    /\ log' = LogWithout({i \in Items : item[i] = "there"})
    /\ UNCHANGED <<content, work>>

ContentRequest(r) ==
    \/ \E f \in Files : PutFile(r, f)
    \/ \E i \in Items : PutItem(r, i, Nothing)
    \/ \E f \in Files, i \in Items \cup {Nothing} : AddPackage(r, f, i)
    \/ \E f \in Files \cup {Nothing}, i \in Items \cup {Nothing} : DeleteContent(r, f, i)
    \/ PutFileCommit(r) \/ PutItemFind(r) \/ PutItemChange(r) \/ DeleteContentChange(r) \/ PublishFails(r)
    \/ AddPackageLink(r) \/ AddPackageItem(r) \/ AddPackageOpaque(r)

Elsewhere ==
    \/ \E f \in Files : Upload(f) \/ PutThere(f)
    \/ \E i \in Items : PutItemThere(i)
    \/ OtherGone

-----------------------------------------------------------------------------
ContentsTypeOK ==
    /\ other \in {"none", "ungrouped", "grouped"}
    /\ content \subseteq Files
    /\ linked \subseteq content \X {"here", "there"}
    /\ item \in [Items -> {"none", "nowhere", "here", "there"}]
    /\ log \in Seq([type : {"add", "remove"}, file : Files \cup {Nothing},
                    item : Items \cup {Nothing}])
    /\ \A r \in Writers :
          work[r].op \in {"none", "put", "item", "insert", "refresh", "package", "packed",
                         "opaque", "remove"}

Busy(i) == \E r \in Writers : work[r] # NoWork /\ work[r].item = i

\* Was last added.
LastAdded(i) == \E n \in AddsOf(i) : \A m \in About(i) : m <= n

\* A client that synchronises by the log finds every item of the mission in it: an
\* item that is here, and that no request is busy with, was last added; and there is
\* "exactly one ... MissionChange row per (mission_name, item_uid)", the rows of
\* removals apart.
ItemIsInLog ==
    \A i \in Items :
        /\ item[i] = "here" /\ ~Busy(i) => LastAdded(i)
        /\ \A m, n \in AddsOf(i) : m = n

\* One request at a time for each item.
OnePerItem ==
    \A r, s \in Writers :
        /\ work[r] # NoWork /\ work[s] # NoWork
        /\ work[r].item = work[s].item /\ work[r].item # Nothing
        => r = s
=============================================================================
