--------------------------- MODULE DataPackages ---------------------------
(* Data packages: a row of data_packages and UPLOAD_FOLDER/<hash>.zip, written by
   uploads and removed by deletions and the retention job. The name of a file is
   the hash of its bytes, so that every upload of the same bytes uses one file,
   and nothing but the order of their steps keeps a row and its file together.

   Requests are served concurrently. Who may see a package is left out: the
   uploads here are by callers who may. *)
EXTENDS Integers, FiniteSets

CONSTANTS
    Packages,   \* contents, by their hash
    Uploads,    \* upload requests
    Removals,   \* deletions by a user or an administrator, and runs of the job
    MaxFails    \* bound on commits that fail

ASSUME PackagesAssumption == MaxFails \in Nat

VARIABLES
    packages,      \* packages: [hash, id]; hash is unique
    disk,      \* hashes whose file exists
    upload,    \* [step, hash]: where an upload is
    removal,   \* [step, row]: where a removal is
    ids,       \* the last id given
    fails,
    torn       \* hashes whose file went while they were uploaded again

packagesVars == <<packages, disk, upload, removal, ids, fails, torn>>

NoRow == [hash |-> "none", id |-> 0]
Hashes == {r.hash : r \in packages}

PackagesInit ==
    /\ packages = {} /\ disk = {} /\ torn = {} /\ ids = 0 /\ fails = 0
    /\ upload \in [Uploads -> [step : {"new"}, hash : Packages]]
    /\ removal = [d \in Removals |-> [step |-> "new", row |-> NoRow]]
-----------------------------------------------------------------------------
Step(u, s) == upload' = [upload EXCEPT ![u].step = s]

(* _store_package_bytes: looks for a row. Its bytes are wanted either way. *)
LookUp(u) ==
    /\ upload[u].step = "new"
    /\ Step(u, IF upload[u].hash \in Hashes THEN "known" ELSE "unknown")
    /\ UNCHANGED <<packages, disk, removal, ids, fails, torn>>

(* ... and writes the file unless there is one. A known package is done. *)
StoreBytes(u) ==
    /\ upload[u].step \in {"known", "unknown"}
    /\ disk' = disk \cup {upload[u].hash}
    /\ Step(u, IF upload[u].step = "known" THEN "done" ELSE "stored")
    /\ UNCHANGED <<packages, removal, ids, fails, torn>>

(* save_data_package_to_db: a row of the hash that came first refuses this one. *)
SaveRow(u) ==
    /\ upload[u].step = "stored"
    /\ IF upload[u].hash \in Hashes THEN UNCHANGED <<packages, ids>>
       ELSE /\ packages' = packages \cup {[hash |-> upload[u].hash, id |-> ids + 1]}
            /\ ids' = ids + 1
    /\ Step(u, "done")
    /\ UNCHANGED <<disk, removal, fails, torn>>

(* Its commit fails: the file stays behind. *)
SaveFails(u) ==
    /\ upload[u].step = "stored" /\ fails < MaxFails
    /\ fails' = fails + 1
    /\ Step(u, "done")
    /\ UNCHANGED <<packages, disk, removal, ids, torn>>
-----------------------------------------------------------------------------
(* Mutant: the file goes first, the row when that is done. *)
FindAndUnlink(d) ==
    /\ removal[d].step = "new"
    /\ \E r \in packages :
          /\ removal' = [removal EXCEPT ![d] = [step |-> "found", row |-> r]]
          /\ disk' = disk \ {r.hash}
    /\ UNCHANGED <<packages, upload, ids, fails, torn>>

(* delete_data_package reads the row; the job selects it for a batch. *)
FindRow(d) ==
    /\ removal[d].step = "new"
    /\ \E r \in packages : removal' = [removal EXCEPT ![d] = [step |-> "found", row |-> r]]
    /\ UNCHANGED <<packages, disk, upload, ids, fails, torn>>

(* The deletion is committed; that the row is gone already is no error. *)
DeleteRow(d) ==
    /\ removal[d].step = "found"
    /\ packages' = packages \ {removal[d].row}
    /\ removal' = [removal EXCEPT ![d].step = "deleted"]
    /\ UNCHANGED <<disk, upload, ids, fails, torn>>

(* ... or fails, and the file is left alone. *)
DeleteFails(d) ==
    /\ removal[d].step = "found" /\ fails < MaxFails
    /\ fails' = fails + 1
    /\ removal' = [removal EXCEPT ![d] = [step |-> "done", row |-> NoRow]]
    /\ UNCHANGED <<packages, disk, upload, ids, torn>>

(* The same bytes are a package again, or are about to be. *)
UploadedAgain(h, old) ==
    \/ \E r \in packages : r.hash = h /\ r # old
    \/ \E u \in Uploads : upload[u].hash = h /\ upload[u].step \in {"unknown", "stored"}

(* The file that `old` named is removed: os.remove, _remove_file. *)
Unlink(old) ==
    /\ disk' = disk \ {old.hash}
    /\ torn' = IF UploadedAgain(old.hash, old) THEN torn \cup {old.hash} ELSE torn

(* Only then is the file removed. *)
RemoveFile(d) ==
    /\ removal[d].step = "deleted"
    /\ Unlink(removal[d].row)
    /\ removal' = [removal EXCEPT ![d] = [step |-> "done", row |-> NoRow]]
    /\ UNCHANGED <<packages, upload, ids, fails>>

PackagesNext ==
    \/ \E u \in Uploads : LookUp(u) \/ StoreBytes(u) \/ SaveRow(u) \/ SaveFails(u)
    \/ \E d \in Removals : FindRow(d) \/ DeleteRow(d) \/ DeleteFails(d) \/ RemoveFile(d)

PackagesSpec == PackagesInit /\ [][PackagesNext]_packagesVars
-----------------------------------------------------------------------------
(* A package that can be downloaded has its file: uploads of the same bytes, a
   deletion and the job in any order, with commits that fail ("so a failed commit
   never leaves a row whose file is gone"). The exception is a file removed after
   its row while the same bytes are uploaded again: the upload found it there. *)
RowHasItsFile == Hashes \subseteq disk \cup torn

(* Without the exception: it is violated, see the README. *)
RowAlwaysHasItsFile == Hashes \subseteq disk
=============================================================================
