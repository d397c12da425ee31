---------------------------- MODULE ProfileFiles ----------------------------
(* The files of device profiles: a row of device_profile_files and its bytes under
   a name of their own. Administrators upload and remove files, delete and copy
   profiles at the same time; every request reads the rows first, and the session
   knows only what it read when it commits. *)
EXTENDS Integers, FiniteSets

CONSTANTS
    Editing,   \* requests of administrators
    Profiles,   \* profiles there may be
    NoProfile,  \* the profile of a request that has read none
    Paths,      \* paths in the zip
    MaxNames,   \* bound on stored names given out
    MaxBreaks   \* bound on commits that fail

ASSUME FilesAssumption == NoProfile \notin Profiles /\ MaxNames \in Nat /\ MaxBreaks \in Nat

VARIABLES
    alive,    \* profiles with a row
    files,    \* rows: [profile, path, name]
    stored,   \* names that have bytes on disk
    names,    \* the last name given
    request,  \* [step, kind, profile, seen, new, drop] of every request
    breaks

filesVars == <<alive, files, stored, names, request, breaks>>

Asleep == [step |-> "new", kind |-> "none", profile |-> NoProfile, seen |-> {}, new |-> {}, drop |-> {}]
FilesOf(p) == {f \in files : f.profile = p}
NamesOf(F) == {f.name : f \in F}

FilesInit ==
    /\ \E p \in Profiles : alive = {p}
    /\ files = {} /\ stored = {} /\ names = 0 /\ breaks = 0
    /\ request = [r \in Editing |-> Asleep]

Put(r, v) == request' = [request EXCEPT ![r] = v]
Finish(r) == Put(r, Asleep)

(* delete_stored_files, once what the request dropped is committed. *)
Leave(r, drop) == IF drop = {} THEN Finish(r) ELSE Put(r, [Asleep EXCEPT !.step = "drop", !.drop = drop])

(* Mutant: the bytes of a replaced file are removed with the upload's own step. *)
ReplaceAtOnce(r) ==
    /\ request[r].step = "write" /\ request[r].kind = "upload" /\ names < MaxNames
    /\ names' = names + 1
    /\ \E path \in Paths :
          LET old == {f \in request[r].seen : f.path = path} IN
          /\ stored' = (stored \ NamesOf(old)) \cup {names + 1}
          /\ Put(r, [request[r] EXCEPT !.step = "commit", !.drop = NamesOf(old),
                       !.new = {[profile |-> request[r].profile, path |-> path, name |-> names + 1]}])
    /\ UNCHANGED <<alive, files, breaks>>
-----------------------------------------------------------------------------
(* Every request starts by reading its profile and the rows of its files. *)
Look(r) ==
    /\ request[r].step = "new"
    /\ \E p \in alive, k \in {"upload", "remove", "delete", "copy"} :
          /\ k = "remove" => FilesOf(p) # {}
          /\ Put(r, [step |-> IF k \in {"upload", "copy"} THEN "write" ELSE "commit", kind |-> k,
                     profile |-> p, seen |-> FilesOf(p), new |-> {}, drop |-> {}])
    /\ UNCHANGED <<alive, files, stored, names, breaks>>

(* upload_profile_files, add_profile_file: the bytes come first, under a new
   name; the row at the same path is to be replaced. *)
WriteUpload(r) ==
    /\ request[r].step = "write" /\ request[r].kind = "upload" /\ names < MaxNames
    /\ names' = names + 1
    /\ stored' = stored \cup {names + 1}
    /\ \E path \in Paths :
          Put(r, [request[r] EXCEPT !.step = "commit",
                    !.drop = NamesOf({f \in request[r].seen : f.path = path}),
                    !.new = {[profile |-> request[r].profile, path |-> path, name |-> names + 1]}])
    /\ UNCHANGED <<alive, files, breaks>>

(* Its commit deletes the row it replaces, if that is still there, and inserts
   its own: another row at the path refuses it, and its bytes are removed. *)
CommitUpload(r) ==
    /\ request[r].step = "commit" /\ request[r].kind = "upload"
    /\ request[r].profile \in alive
    /\ LET new == CHOOSE f \in request[r].new : TRUE
           rest == {f \in files : f.name \notin request[r].drop}
       IN IF \E f \in rest : f.profile = new.profile /\ f.path = new.path
          THEN Leave(r, {new.name}) /\ UNCHANGED files
          ELSE Leave(r, request[r].drop) /\ files' = rest \cup {new}
    /\ UNCHANGED <<alive, stored, names, breaks>>

(* The profile went meanwhile: the update of its time matches no row, an error
   that is not expected; the bytes stay. *)
UploadLost(r) ==
    /\ request[r].step = "commit" /\ request[r].kind = "upload"
    /\ request[r].profile \notin alive
    /\ Finish(r)
    /\ UNCHANGED <<alive, files, stored, names, breaks>>

(* duplicate_profile_set: copies the bytes of every file it read, and gives up,
   its copies removed, when one of them is gone. *)
WriteCopy(r) ==
    /\ request[r].step = "write" /\ request[r].kind = "copy"
    /\ names + Cardinality(request[r].seen) <= MaxNames
    /\ IF NamesOf(request[r].seen) \subseteq stored THEN
          /\ \E p \in Profiles \ alive, number \in [request[r].seen -> (names + 1)..(names + Cardinality(request[r].seen))] :
                /\ \A f, g \in request[r].seen : number[f] = number[g] => f = g
                /\ Put(r, [request[r] EXCEPT !.step = "commit", !.profile = p,
                             !.new = {[profile |-> p, path |-> f.path, name |-> number[f]] : f \in request[r].seen}])
          /\ names' = names + Cardinality(request[r].seen)
          /\ stored' = stored \cup ((names + 1)..names')
       ELSE Finish(r) /\ UNCHANGED <<names, stored>>
    /\ UNCHANGED <<alive, files, breaks>>

(* Its commit: a profile of the same name that came first refuses it. *)
CommitCopy(r) ==
    /\ request[r].step = "commit" /\ request[r].kind = "copy"
    /\ IF request[r].profile \in alive
       THEN Leave(r, NamesOf(request[r].new)) /\ UNCHANGED <<alive, files>>
       ELSE /\ alive' = alive \cup {request[r].profile}
            /\ files' = files \cup request[r].new
            /\ Finish(r)
    /\ UNCHANGED <<stored, names, breaks>>

(* delete_profile_file: the row may be gone already; its profile may not. *)
CommitRemove(r) ==
    /\ request[r].step = "commit" /\ request[r].kind = "remove"
    /\ IF request[r].profile \in alive
       THEN \E f \in request[r].seen : files' = files \ {f} /\ Leave(r, {f.name})
       ELSE Finish(r) /\ UNCHANGED files
    /\ UNCHANGED <<alive, stored, names, breaks>>

(* delete_profile_set: the rows it knows, and by the foreign key those it does
   not, whose bytes stay. *)
CommitDelete(r) ==
    /\ request[r].step = "commit" /\ request[r].kind = "delete"
    /\ alive' = alive \ {request[r].profile}
    /\ files' = files \ FilesOf(request[r].profile)
    /\ Leave(r, NamesOf(request[r].seen))
    /\ UNCHANGED <<stored, names, breaks>>

(* A commit fails, or the process dies before it: an upload's or a copy's bytes
   may stay, no row is changed and nothing is dropped. *)
CommitFails(r) ==
    /\ request[r].step = "commit" /\ breaks < MaxBreaks
    /\ breaks' = breaks + 1
    /\ Finish(r)
    /\ \/ UNCHANGED stored
       \/ request[r].new # {} /\ stored' = stored \ NamesOf(request[r].new)
    /\ UNCHANGED <<alive, files, names>>

Drop(r) ==
    /\ request[r].step = "drop"
    /\ stored' = stored \ request[r].drop
    /\ Finish(r)
    /\ UNCHANGED <<alive, files, names, breaks>>

FilesNext ==
    \E r \in Editing :
        \/ Look(r) \/ WriteUpload(r) \/ CommitUpload(r) \/ UploadLost(r)
        \/ WriteCopy(r) \/ CommitCopy(r) \/ CommitRemove(r) \/ CommitDelete(r)
        \/ CommitFails(r) \/ Drop(r)

FilesSpec == FilesInit /\ [][FilesNext]_filesVars
-----------------------------------------------------------------------------
(* Every file of a profile that a device can be given has its bytes, whatever
   uploads, replacements, removals, deletions and copies come between each
   other's reading, writing and commit, and whichever of these fails. A file that
   is missing would only be left out of the device's package and logged. *)
FileHasItsBytes == NamesOf(files) \subseteq stored
=============================================================================
