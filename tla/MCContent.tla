------------------------------ MODULE MCContent ------------------------------
(* Instances for TLC of what the server stores for its devices: missions, the
   records of their messages, data packages, the files of device profiles and video
   feeds.
   None shares state with another, so that each is explored on its own: one run,
   the sum of the state spaces. *)
EXTENDS Missions, CotRecords, DataPackages, ProfileFiles, Video, TLC

CONSTANTS d1, a, b, c, f1, f2, i1, h, u1, u2, u3, x1, x2, q1, q2, p1, p2, path,
    s1, s2, v1, v2, web, tak

VARIABLE part
\* Bound: a second and a third layer, and any content, are only made where nothing
\* else goes on with the mission: one owner, no invitation, no request under way.
\* What the others do then is still taken, one step far.
Quiet ==
    /\ invited = {} /\ removed = {} /\ bound = {}
    /\ \A r \in Requests : call[r] = NoCall
    /\ roles \in {NoRoles, [NoRoles EXCEPT ![<<d1, "MISSION_OWNER">>] = 1]}
Calm == Quiet /\ mission = "ungrouped" /\ tokens = {d1}

Bare == Cardinality(DOMAIN row) = 0 /\ \A e \in Editors : edit[e] = NoEdit
Untouched ==
    content = {} /\ (\A i \in Items : item[i] = "none") /\ \A w \in Writers : work[w] = NoWork

Few ==
    /\ Cardinality(DOMAIN row) < 2 \/ Calm
    /\ (Untouched /\ other = "grouped") \/ (Bare /\ Quiet)
-----------------------------------------------------------------------------
(* What devices send: a message and another one for the same record, or two
   messages that are parsed by turns with the purge; with a position or without. *)
With(k) == [kind |-> k, fix |-> TRUE]
Without(k) == [kind |-> k, fix |-> FALSE]
Traffic == {
    <<With("marker"), With("marker")>>, <<With("chat"), Without("marker")>>,
    <<With("alert"), With("cancel")>>, <<With("line"), With("line")>>,
    <<With("casevac"), With("casevac")>>, <<Without("line"), Without("alert")>> }
OneTick == [t \in Types |-> 1]

(* The two paths of video streams are alike, and so are the two editors of profiles. *)
Alike == Permutations({s1, s2}) \cup Permutations({q1, q2})

(* Bound: a third request, stream or CoT comes when the first two are served. *)
InPeace == asks = 2 /\ asks' = 3 => \A r \in Callers : ask[r] = NoAsk
-----------------------------------------------------------------------------
MCInit ==
    /\ part \in {"missions", "records", "packages", "files", "video"}
    /\ Init /\ RecordsInit /\ PackagesInit /\ FilesInit /\ VideoInit
    /\ part # "missions" => other = "grouped"
    /\ part # "records" => script = <<With("line"), With("line")>>
    /\ part # "files" => alive = {p1}

MCNext ==
    /\ \/ part = "missions" /\ Next /\ UNCHANGED <<recordsVars, packagesVars, filesVars, videoVars>>
       \/ part = "records" /\ RecordsNext /\ UNCHANGED <<vars, packagesVars, filesVars, videoVars>>
       \/ part = "packages" /\ PackagesNext /\ UNCHANGED <<vars, recordsVars, filesVars, videoVars>>
       \/ part = "files" /\ FilesNext /\ UNCHANGED <<vars, recordsVars, packagesVars, videoVars>>
       \/ part = "video" /\ VideoNext /\ InPeace /\ UNCHANGED <<vars, recordsVars, packagesVars, filesVars>>
    /\ UNCHANGED part

MCSpec == MCInit /\ [][MCNext]_<<vars, recordsVars, packagesVars, filesVars, videoVars, part>>
=============================================================================
