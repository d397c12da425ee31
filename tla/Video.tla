------------------------------- MODULE Video -------------------------------
(* Video streams: rows of video_streams, the paths MediaMTX is configured with,
   and what keeps the two together: requests of the web interface and of TAK
   clients, __video details of CoT messages, MediaMTX's own authorization calls
   (external_auth) and its webhooks. Rows outlive MediaMTX, its paths do not.

   Requests and webhooks are served concurrently and each takes several steps: it
   reads, calls MediaMTX and commits, in the order of its handler. The columns
   that only describe a feed (alias, port, XML) and recordings are left out. Groups
   are reduced to one, whose members are in it both ways; administrators count as
   members. *)
EXTENDS Integers, FiniteSets

CONSTANTS
    StreamPaths,  \* paths, the primary key of video_streams
    FeedIds,      \* uids that clients choose for a feed
    Viewers,      \* users
    InGroup,      \* those in the group
    Callers,      \* requests under way at a time ...
    FeedEditors,  \* ... and those that may carry a uid
    MaxAsks       \* bound on what comes from outside

ASSUME VideoAssumption ==
    /\ InGroup \subseteq Viewers /\ FeedEditors \subseteq Callers
    /\ \A p \in StreamPaths : <<"new", p>> \notin FeedIds
    /\ MaxAsks \in Nat

VARIABLES
    feed,     \* video_streams, by path
    conf,     \* settings MediaMTX has for a path, or "absent"
    airing,   \* paths that are published
    ask,      \* a request: its handler and where it is
    hooks,    \* webhooks of MediaMTX, waiting or under way
    asks

videoVars == <<feed, conf, airing, ask, hooks, asks>>

NoFeed == [uid |-> <<>>, owner |-> "nobody", grouped |-> FALSE, ready |-> FALSE,
           copied |-> FALSE, settings |-> "absent"]
Feeds == {p \in StreamPaths : feed[p] # NoFeed}
NoAsk == [op |-> "none", by |-> "nobody", path |-> "none", uid |-> <<>>, at |-> "end", new |-> FALSE]

(* A uuid4 of its own: no other row has it. *)
FreshId(p) == <<"new", p>>
HasUid(u) == {p \in Feeds : feed[p].uid = u}

(* A row as its handler fills it, with the groups of the uploader. *)
NewFeed(uid, u, owner, settings) ==
    [uid |-> uid, owner |-> owner, grouped |-> u \in InGroup, ready |-> FALSE,
     copied |-> FALSE, settings |-> settings]

CanSee(p, u) == ~feed[p].grouped \/ u \in InGroup
CanPublish(p, u) ==
    \/ feed[p].owner = u
    \/ IF feed[p].grouped THEN u \in InGroup ELSE feed[p].owner = "nobody"

VideoInit ==
    /\ feed = [p \in StreamPaths |-> NoFeed]
    /\ conf = [p \in StreamPaths |-> "absent"]
    /\ airing = {} /\ hooks = {} /\ asks = 0
    /\ ask = [c \in Callers |-> NoAsk]
-----------------------------------------------------------------------------
Asked == asks < MaxAsks /\ asks' = asks + 1
AskGoes(c, at) == ask' = [ask EXCEPT ![c].at = at]
AskEnds(c) == ask' = [ask EXCEPT ![c] = NoAsk]
Tells(c, ops) == ask[c].op \in ops /\ ask[c].at = "tell"

(* A handler has read what it decides by, and goes on at `at`. *)
Opens(c, op, u, p, uid, at, new) ==
    /\ ask[c] = NoAsk
    /\ Asked
    /\ ask' = [ask EXCEPT ![c] = [op |-> op, by |-> u, path |-> p, uid |-> uid, at |-> at, new |-> new]]
    /\ UNCHANGED <<feed, conf, airing, hooks>>

(* add_update_stream: MediaMTX is told first, the row is saved when it agreed. A row
   made by a CoT has no settings that could be read. *)
AskUpdate(c, u, p) ==
    /\ p \in Feeds /\ CanSee(p, u) /\ feed[p].settings # "unset"
    /\ Opens(c, "update", u, p, feed[p].uid, "tell", FALSE)

AskAdd(c, u, p) ==
    /\ p \in Feeds => CanSee(p, u) /\ feed[p].settings # "unset"
    /\ Opens(c, "add", u, p, FreshId(p), "tell", p \notin Feeds)

(* Mutant: the feed that has the uid is only looked for if the path is taken. *)
AskFeedByPath(c, u, p, uid) ==
    /\ p \in Feeds => CanSee(p, u) /\ \A q \in HasUid(uid) : CanSee(q, u) /\ q = p
    /\ Opens(c, "vcm", u, p, uid, "save", p \notin Feeds)

(* POST /Marti/vcm: the feed is looked for by path and by uid. (One without a uid
   keeps the row's, or gets a uid of its own.) *)
AskFeed(c, u, p, uid) ==
    /\ p \in Feeds => CanSee(p, u)
    /\ \A q \in HasUid(uid) : CanSee(q, u) /\ q = p
    /\ Opens(c, "vcm", u, p, uid, "save", p \notin Feeds)

(* POST /Marti/api/video: a feed with that uid, or that path, stays as it is. *)
AskPost(c, u, p, uid) ==
    /\ HasUid(uid) = {} /\ p \notin Feeds
    /\ Opens(c, "post", u, p, uid, "save", TRUE)

(* upsert_cot_video: a CoT only adds a feed; of an existing one it changes what is
   left out here, if it is the sender's to change. *)
AskCot(c, u, p, uid) ==
    /\ HasUid(uid) = {} /\ p \notin Feeds
    /\ Opens(c, "cot", u, p, uid, "save", TRUE)

(* Deletions by the web interface and by a TAK client. *)
AskDelete(c, u, p) ==
    /\ p \in Feeds /\ CanSee(p, u)
    /\ \E op \in {"delete", "unlist"} : Opens(c, op, u, p, feed[p].uid, "tell", FALSE)

(* external_auth: publishing on a new path registers it. *)
AskPublish(c, u, p) ==
    /\ p \notin airing
    /\ p \in Feeds => CanPublish(p, u)
    /\ Opens(c, "publish", u, p, FreshId(p), IF p \in Feeds THEN "allow" ELSE "save", p \notin Feeds)
-----------------------------------------------------------------------------
(* MediaMTX refuses to add a path it has and to change one it has not. *)
TellMediaMTX(c) ==
    /\ Tells(c, {"add", "update"})
    /\ LET p == ask[c].path IN
       IF (conf[p] = "absent") = (ask[c].op = "add")
       THEN conf' = [conf EXCEPT ![p] = "edited"] /\ AskGoes(c, "save")
       ELSE UNCHANGED conf /\ AskEnds(c)
    /\ UNCHANGED <<feed, airing, hooks, asks>>

(* It drops a path's publisher with the path, and says so. *)
TellDeletion(c) ==
    /\ Tells(c, {"delete", "unlist"})
    /\ LET p == ask[c].path IN
       /\ conf' = [conf EXCEPT ![p] = "absent"]
       /\ airing' = airing \ {p}
       /\ hooks' = IF p \in airing THEN hooks \cup {[event |-> "notready", path |-> p, at |-> "new"]}
                   ELSE hooks
    /\ AskGoes(c, "drop")
    /\ UNCHANGED <<feed, asks>>

(* It cannot be reached: only a TAK client's deletion goes on. *)
TellFails(c) ==
    /\ ask[c].at = "tell"
    /\ Asked
    /\ IF ask[c].op = "unlist" THEN AskGoes(c, "drop") ELSE AskEnds(c)
    /\ UNCHANGED <<feed, conf, airing, hooks>>

(* What a request inserts, and how it goes on. *)
Inserted(c) ==
    LET r == ask[c] IN
    CASE r.op = "add"     -> NewFeed(r.uid, r.by, r.by, "edited")
      [] r.op = "vcm"     -> NewFeed(r.uid, r.by, "nobody", "base")
      [] r.op = "cot"     -> NewFeed(r.uid, r.by, r.by, "unset")
      [] OTHER            -> NewFeed(r.uid, r.by, r.by, "base")

(* The insertion: a row of that path made meanwhile refuses it. A publisher's is then
   allowed all the same, with MediaMTX told the settings of that row. *)
SaveNew(c) ==
    /\ ask[c].at = "save" /\ ask[c].new
    /\ LET p == ask[c].path IN
       IF p \in Feeds
       THEN /\ UNCHANGED feed
            /\ IF ask[c].op = "publish" THEN AskGoes(c, "register") ELSE AskEnds(c)
       ELSE /\ feed' = [feed EXCEPT ![p] = Inserted(c)]
            /\ IF ask[c].op \in {"post", "publish"} THEN AskGoes(c, "register") ELSE AskEnds(c)
    /\ UNCHANGED <<conf, airing, hooks, asks>>

(* A row that is gone cannot be updated: the request fails. *)
SaveOld(c) ==
    /\ ask[c].at = "save" /\ ~ask[c].new
    /\ LET p == ask[c].path IN
       IF p \notin Feeds THEN UNCHANGED feed
       ELSE feed' = [feed EXCEPT ![p] =
                IF ask[c].op = "update" \/ ask[c].op = "add" THEN [@ EXCEPT !.settings = "edited"]
                ELSE [@ EXCEPT !.uid = ask[c].uid]]
    /\ AskEnds(c)
    /\ UNCHANGED <<conf, airing, hooks, asks>>

(* The path of the inserted row is added to MediaMTX; a refusal is logged. *)
Register(c) ==
    /\ ask[c].at = "register"
    /\ LET p == ask[c].path IN
       \/ /\ conf[p] = "absent"
          /\ conf' = [conf EXCEPT ![p] = IF feed[p].settings = "edited" THEN "edited" ELSE "base"]
       \/ UNCHANGED conf
    /\ IF ask[c].op = "publish" THEN AskGoes(c, "allow") ELSE AskEnds(c)
    /\ UNCHANGED <<feed, airing, hooks, asks>>

(* The publisher is let in, and MediaMTX reports the stream; or it is gone. *)
Allow(c) ==
    /\ ask[c].at = "allow"
    /\ LET p == ask[c].path IN
       \/ /\ p \notin airing
          /\ airing' = airing \cup {p}
          /\ hooks' = hooks \cup {[event |-> "ready", path |-> p, at |-> "new"]}
       \/ UNCHANGED <<airing, hooks>>
    /\ AskEnds(c)
    /\ UNCHANGED <<feed, conf, asks>>

DropFeed(c) ==
    /\ ask[c].at = "drop"
    /\ feed' = [feed EXCEPT ![ask[c].path] = NoFeed]
    /\ AskEnds(c)
    /\ UNCHANGED <<conf, airing, hooks, asks>>

(* An administrator says which groups see a stream. *)
EditGroups(p) ==
    /\ p \in Feeds
    /\ Asked
    /\ \E g \in BOOLEAN : feed' = [feed EXCEPT ![p].grouped = g]
    /\ UNCHANGED <<conf, airing, ask, hooks>>
-----------------------------------------------------------------------------
(* MediaMTX pulls a configured source, or loses its publisher. *)
SourceStarts(p) ==
    /\ conf[p] # "absent" /\ p \notin airing
    /\ Asked
    /\ airing' = airing \cup {p}
    /\ hooks' = hooks \cup {[event |-> "ready", path |-> p, at |-> "new"]}
    /\ UNCHANGED <<feed, conf, ask>>

SourceStops(p) ==
    /\ p \in airing
    /\ Asked
    /\ airing' = airing \ {p}
    /\ hooks' = hooks \cup {[event |-> "notready", path |-> p, at |-> "new"]}
    /\ UNCHANGED <<feed, conf, ask>>

(* It restarts: the paths it was told are gone, and it asks for them. *)
Restarts ==
    /\ Asked
    /\ conf' = [p \in StreamPaths |-> "absent"]
    /\ airing' = {}
    /\ hooks' = {h \in hooks : h.event # "startup"} \cup
                {[event |-> "startup", path |-> "all", at |-> "new"]}
    /\ UNCHANGED <<feed, ask>>

HookGoes(h, at) == hooks' = (hooks \ {h}) \cup {[h EXCEPT !.at = at]}
HookEnds(h) == hooks' = hooks \ {h}

(* The webhook of a stream that came or went marks its row; without one it makes
   one, of nobody's groups. *)
HookMarks(h) ==
    /\ h.event \in {"ready", "notready"} /\ h.at = "new"
    /\ IF h.path \in Feeds
       THEN /\ feed' = [feed EXCEPT ![h.path].ready = (h.event = "ready")]
            /\ HookGoes(h, "patch")
       ELSE /\ feed' = [feed EXCEPT ![h.path] =
                  [NewFeed(FreshId(h.path), "nobody", "nobody", "base")
                       EXCEPT !.ready = (h.event = "ready")]]
            /\ HookGoes(h, "copy")
    /\ UNCHANGED <<conf, airing, ask, asks>>

(* It tells MediaMTX the row's settings, read when they are sent. No row, no settings
   to read and no MediaMTX is an error. *)
HookPatches(h) ==
    /\ h.event \in {"ready", "notready"} /\ h.at = "patch"
    /\ \/ /\ h.path \in Feeds /\ feed[h.path].settings # "unset"
          /\ conf' = IF conf[h.path] = "absent" THEN conf
                     ELSE [conf EXCEPT ![h.path] = feed[h.path].settings]
          /\ HookGoes(h, "copy")
       \/ UNCHANGED conf /\ HookEnds(h)
    /\ UNCHANGED <<feed, airing, ask, asks>>

(* Last it notes whether a copy for browsers was started. *)
HookCopies(h) ==
    /\ h.event \in {"ready", "notready"} /\ h.at = "copy"
    /\ IF h.path \notin Feeds THEN UNCHANGED feed
       ELSE \E copy \in {h.event = "ready", FALSE} : feed' = [feed EXCEPT ![h.path].copied = copy]
    /\ HookEnds(h)
    /\ UNCHANGED <<conf, airing, ask, asks>>

(* The start-up webhook reads the rows and adds their paths, up to the first whose
   settings cannot be read. (One step: it calls MediaMTX once for each.) *)
StartupAdds(h) ==
    /\ h.event = "startup" /\ h.at = "new"
    /\ \E done \in SUBSET Feeds :
          /\ \A p \in done : feed[p].settings # "unset"
          /\ done = Feeds \/ \E p \in Feeds \ done : feed[p].settings = "unset"
          /\ conf' = [p \in StreamPaths |->
                        IF p \in done /\ conf[p] = "absent" THEN feed[p].settings ELSE conf[p]]
          /\ IF done = Feeds THEN HookGoes(h, "list") ELSE HookEnds(h)
    /\ UNCHANGED <<feed, airing, ask, asks>>

(* Then every stream that is on air and has no row gets one. *)
StartupLists(h) ==
    /\ h.event = "startup" /\ h.at = "list"
    /\ feed' = [p \in StreamPaths |->
                  IF p \in airing \ Feeds THEN NewFeed(FreshId(p), "nobody", "nobody", "base")
                  ELSE feed[p]]
    /\ HookEnds(h)
    /\ UNCHANGED <<conf, airing, ask, asks>>
-----------------------------------------------------------------------------
VideoNext ==
    \/ \E c \in Callers, u \in Viewers, p \in StreamPaths :
          AskUpdate(c, u, p) \/ AskAdd(c, u, p) \/ AskDelete(c, u, p) \/ AskPublish(c, u, p)
    \/ \E c \in FeedEditors, u \in Viewers, p \in StreamPaths :
          \E uid \in FeedIds \cup {feed[q].uid : q \in Feeds} :
             AskFeed(c, u, p, uid) \/ AskPost(c, u, p, uid) \/ AskCot(c, u, p, uid)
    \/ \E c \in Callers :
          \/ TellMediaMTX(c) \/ TellDeletion(c) \/ TellFails(c) \/ SaveNew(c) \/ SaveOld(c)
          \/ Register(c) \/ Allow(c) \/ DropFeed(c)
    \/ \E p \in StreamPaths : EditGroups(p) \/ SourceStarts(p) \/ SourceStops(p)
    \/ Restarts
    \/ \E h \in hooks :
          HookMarks(h) \/ HookPatches(h) \/ HookCopies(h) \/ StartupAdds(h) \/ StartupLists(h)

VideoSpec == VideoInit /\ [][VideoNext]_videoVars
-----------------------------------------------------------------------------
(* Two feeds never have one uid: TAK clients key their list of feeds on it and delete
   by it, and no constraint of the table keeps it unique. Rows come from six handlers
   and uids are chosen by clients in three. It holds while no two requests that carry
   a uid run at once (FeedEditors has one member). *)
UidNamesOneFeed == \A p \in Feeds, q \in Feeds : feed[p].uid = feed[q].uid => p = q
=============================================================================
