---------------------------- MODULE ContentProofs ----------------------------
(* Theorems of what the server stores for its devices, each with the inductive
   invariant it rests on: the files of data packages and of device profiles, the uids
   of video feeds, and what the purge removes. *)
EXTENDS DataPackages, ProfileFiles, Video, CotRecords, FiniteSetTheorems,
        WellFoundedInduction, TLAPS

-----------------------------------------------------------------------------
(* Data packages. *)
PackageRows == [hash : Packages, id : Nat]
PackagesTypeOK ==
    /\ packages \subseteq PackageRows
    /\ upload \in [Uploads -> [step : {"new", "known", "unknown", "stored", "done"}, hash : Packages]]
    /\ removal \in [Removals -> [step : {"new", "found", "deleted", "done"},
                                 row : PackageRows \cup {NoRow}]]
    /\ ids \in Nat

\* An id is never given twice, so that a row that was deleted does not come back.
DeletedIsGone ==
    /\ \A r \in packages : r.id <= ids
    /\ \A d \in Removals :
          /\ removal[d].row.id <= ids
          /\ removal[d].step = "deleted" => removal[d].row \notin packages

\* An upload that is to insert its row found or wrote its file.
StoredHasItsFile ==
    \A u \in Uploads : upload[u].step = "stored" => upload[u].hash \in disk \cup torn

PackagesInv == PackagesTypeOK /\ DeletedIsGone /\ StoredHasItsFile /\ RowHasItsFile

LEMMA PackagesStart == PackagesInit => PackagesInv
<1> SUFFICES ASSUME PackagesInit PROVE PackagesInv
  OBVIOUS
<1>1. NoRow \in PackageRows \cup {NoRow} /\ NoRow.id = 0
  BY DEF NoRow
<1>2. removal \in [Removals -> [step : {"new", "found", "deleted", "done"},
                                row : PackageRows \cup {NoRow}]]
      /\ \A d \in Removals : removal[d].step = "new" /\ removal[d].row = NoRow
  BY DEF PackagesInit
<1>3. PackagesTypeOK
  BY <1>2 DEF PackagesTypeOK, PackagesInit
<1>4. DeletedIsGone
  BY <1>1, <1>2 DEF DeletedIsGone, PackagesInit
<1>5. StoredHasItsFile /\ RowHasItsFile
  BY DEF StoredHasItsFile, RowHasItsFile, Hashes, PackagesInit
<1> QED BY <1>3, <1>4, <1>5 DEF PackagesInv

LEMMA UploadSteps ==
    ASSUME PackagesInv, NEW u \in Uploads, LookUp(u) \/ StoreBytes(u) \/ SaveRow(u) \/ SaveFails(u)
    PROVE  PackagesInv'
<1> DEFINE H == upload[u].hash
<1>t. PackagesTypeOK /\ DeletedIsGone /\ StoredHasItsFile /\ RowHasItsFile
  BY DEF PackagesInv
<1>1. PICK s \in {"known", "unknown", "stored", "done"} :
        /\ Step(u, s) /\ removal' = removal /\ torn' = torn
        /\ s = "stored" => H \in disk'
  BY DEF LookUp, StoreBytes, SaveRow, SaveFails
<1>2. /\ \/ disk' = disk
         \/ disk' = disk \cup {H}
      /\ \/ packages' = packages /\ ids' = ids
         \/ /\ packages' = packages \cup {[hash |-> H, id |-> ids + 1]} /\ ids' = ids + 1
            /\ upload[u].step = "stored"
  BY DEF LookUp, StoreBytes, SaveRow, SaveFails
<1>3. /\ upload' \in [Uploads -> [step : {"new", "known", "unknown", "stored", "done"}, hash : Packages]]
      /\ \A v \in Uploads \ {u} : upload'[v] = upload[v]
      /\ upload'[u].step = s /\ upload'[u].hash = H /\ H \in Packages
  BY <1>t, <1>1 DEF PackagesTypeOK, Step
<1> HIDE DEF H
<1>4. /\ ids' \in Nat /\ ids <= ids' /\ packages' \subseteq PackageRows
      /\ \A r \in packages' : r \in packages \/ (r.hash = H /\ r.id = ids + 1 /\ ids' = ids + 1)
  BY <1>t, <1>2, <1>3 DEF PackagesTypeOK, PackageRows
<1>5. PackagesTypeOK'
  BY <1>t, <1>1, <1>3, <1>4 DEF PackagesTypeOK
<1>6. DeletedIsGone'
  <2>1. ASSUME NEW r \in packages' PROVE r.id <= ids'
    <3>1. CASE r \in packages
      BY <1>t, <1>4, <3>1 DEF PackagesTypeOK, PackageRows, DeletedIsGone
    <3> QED BY <1>t, <1>4, <2>1, <3>1 DEF PackagesTypeOK
  <2>2. ASSUME NEW d \in Removals
        PROVE  /\ removal[d].row.id <= ids'
               /\ removal[d].step = "deleted" => removal[d].row \notin packages'
    <3>1. removal[d].row.id \in Nat /\ removal[d].row.id <= ids
      BY <1>t DEF PackagesTypeOK, PackageRows, NoRow, DeletedIsGone
    <3>2. removal[d].row.id <= ids' /\ removal[d].row.id # ids + 1
      BY <1>t, <1>4, <3>1 DEF PackagesTypeOK
    <3> QED BY <1>t, <1>4, <3>2 DEF DeletedIsGone
  <2> QED BY <1>1, <2>1, <2>2 DEF DeletedIsGone
<1>7. StoredHasItsFile'
  BY <1>t, <1>1, <1>2, <1>3 DEF StoredHasItsFile
<1>8. RowHasItsFile'
  <2>1. upload[u].step = "stored" => H \in disk \cup torn
    BY <1>t DEF StoredHasItsFile, H
  <2> QED BY <1>t, <1>1, <1>2, <1>4, <2>1 DEF RowHasItsFile, Hashes
<1> QED BY <1>5, <1>6, <1>7, <1>8 DEF PackagesInv

LEMMA RemovalSteps ==
    ASSUME PackagesInv, NEW d \in Removals,
           FindRow(d) \/ DeleteRow(d) \/ DeleteFails(d) \/ RemoveFile(d)
    PROVE  PackagesInv'
<1>t. PackagesTypeOK /\ DeletedIsGone /\ StoredHasItsFile /\ RowHasItsFile
  BY DEF PackagesInv
<1>0. upload' = upload /\ ids' = ids
  BY DEF FindRow, DeleteRow, DeleteFails, RemoveFile
<1>1. PICK s \in {"found", "deleted", "done"}, o \in PackageRows \cup {NoRow} :
        /\ removal' = [removal EXCEPT ![d] = [step |-> s, row |-> o]]
        /\ o.id <= ids /\ packages' \subseteq packages
        /\ s = "deleted" => o \notin packages'
  <2>1. CASE FindRow(d)
    BY <1>t, <2>1 DEF FindRow, PackagesTypeOK, DeletedIsGone
  <2>2. CASE DeleteRow(d)
    <3>1. removal' = [removal EXCEPT ![d] = [step |-> "deleted", row |-> removal[d].row]]
      <4>1. ASSUME NEW x \in [step : {"new", "found", "deleted", "done"}, row : PackageRows \cup {NoRow}]
            PROVE  [x EXCEPT !.step = "deleted"] = [step |-> "deleted", row |-> x.row]
        OBVIOUS
      <4>2. removal[d] \in [step : {"new", "found", "deleted", "done"}, row : PackageRows \cup {NoRow}]
        BY <1>t DEF PackagesTypeOK
      <4>3. removal' = [removal EXCEPT ![d] = [removal[d] EXCEPT !.step = "deleted"]]
        BY <2>2 DEF DeleteRow
      <4> QED BY <4>1, <4>2, <4>3
    <3> QED BY <1>t, <2>2, <3>1 DEF DeleteRow, PackagesTypeOK, DeletedIsGone
  <2>3. CASE DeleteFails(d) \/ RemoveFile(d)
    BY <1>t, <2>3 DEF DeleteFails, RemoveFile, NoRow, PackagesTypeOK
  <2> QED BY <2>1, <2>2, <2>3
<1>2. /\ removal' \in [Removals -> [step : {"new", "found", "deleted", "done"},
                                    row : PackageRows \cup {NoRow}]]
      /\ \A e \in Removals \ {d} : removal'[e] = removal[e]
      /\ removal'[d].step = s /\ removal'[d].row = o
  BY <1>t, <1>1 DEF PackagesTypeOK
<1>3. PackagesTypeOK' /\ DeletedIsGone'
  BY <1>t, <1>0, <1>1, <1>2 DEF PackagesTypeOK, DeletedIsGone
<1>4. StoredHasItsFile' /\ RowHasItsFile'
  <2>1. CASE UNCHANGED <<disk, torn>>
    BY <1>t, <1>0, <1>1, <2>1 DEF StoredHasItsFile, RowHasItsFile, Hashes
  <2>2. CASE RemoveFile(d)
    <3> DEFINE old == removal[d].row
    <3>1. /\ old \notin packages /\ packages' = packages
          /\ disk' = disk \ {old.hash}
          /\ torn' = IF UploadedAgain(old.hash, old) THEN torn \cup {old.hash} ELSE torn
      BY <1>t, <2>2 DEF RemoveFile, Unlink, DeletedIsGone
    <3> HIDE DEF old
    <3>2. \A r \in packages : r.hash = old.hash => old.hash \in torn'
      BY <3>1 DEF UploadedAgain
    <3>3. \A u \in Uploads : upload[u].hash = old.hash /\ upload[u].step = "stored" => old.hash \in torn'
      BY <3>1 DEF UploadedAgain
    <3>4. disk \cup torn \subseteq disk' \cup torn' \cup {old.hash}
      BY <3>1
    <3>5. StoredHasItsFile'
      BY <1>t, <1>0, <3>3, <3>4 DEF StoredHasItsFile
    <3>6. RowHasItsFile'
      BY <1>t, <3>1, <3>2, <3>4 DEF RowHasItsFile, Hashes
    <3> QED BY <3>5, <3>6
  <2> QED BY <2>1, <2>2 DEF FindRow, DeleteRow, DeleteFails
<1> QED BY <1>3, <1>4 DEF PackagesInv

(* Uploads of the same bytes, deletions and the retention job, in any order and with
   commits that fail, for any number of them: a package that has a row has its file, but
   for one whose file went while its bytes were uploaded again. *)
THEOREM PackagesHaveTheirFiles == PackagesSpec => []RowHasItsFile
<1>1. PackagesInv /\ [PackagesNext]_packagesVars => PackagesInv'
  <2> SUFFICES ASSUME PackagesInv, [PackagesNext]_packagesVars PROVE PackagesInv'
    OBVIOUS
  <2>1. CASE UNCHANGED packagesVars
    BY <2>1 DEF packagesVars, PackagesInv, PackagesTypeOK, DeletedIsGone, StoredHasItsFile,
                RowHasItsFile, Hashes
  <2> QED BY <2>1, UploadSteps, RemovalSteps DEF PackagesNext
<1>2. PackagesInv => RowHasItsFile
  BY DEF PackagesInv
<1> QED BY <1>1, <1>2, PackagesStart, PTL DEF PackagesSpec

-----------------------------------------------------------------------------
(* The files of device profiles. *)
FileRows == [profile : Profiles, path : Paths, name : Nat]
EditRecords ==
    [step : {"new", "write", "commit", "drop"}, kind : {"none", "upload", "remove", "delete", "copy"},
     profile : Profiles \cup {NoProfile}, seen : SUBSET FileRows, new : SUBSET FileRows, drop : SUBSET Nat]
FilesTypeOK ==
    /\ alive \subseteq Profiles
    /\ files \subseteq FileRows /\ IsFiniteSet(files)
    /\ names \in Nat
    /\ request \in [Editing -> EditRecords]
    /\ \A r \in Editing : IsFiniteSet(request[r].seen) /\ IsFiniteSet(request[r].new)

\* Every name is one that was given out, and is given out once.
NamesAreGiven ==
    /\ \A f \in files : f.name <= names
    /\ \A r \in Editing :
          /\ \A f \in request[r].seen \cup request[r].new : f.name <= names
          /\ \A n \in request[r].drop : n <= names
    /\ \A f, g \in files : f.name = g.name => f = g

\* What a request is to insert is its own: nobody else has it, knows it or drops it.
NewIsItsOwn ==
    \A r \in Editing : \A f \in request[r].new :
        /\ f.name \in stored
        /\ \A g \in files : f.name # g.name
        /\ \A g \in request[r].new : f.name = g.name => f = g
        /\ \A s \in Editing :
              /\ \A g \in request[s].seen : f.name # g.name
              /\ f.name \notin request[s].drop
              /\ s # r => \A g \in request[s].new : f.name # g.name

\* What a request knows, it knows right, and an upload has its row to insert; what a
\* request is to remove has no row left.
KnownIsRight ==
    \A r \in Editing :
        /\ \A f \in request[r].seen, g \in files : f.name = g.name => f = g
        /\ request[r].kind = "delete" => \A f \in request[r].seen : f.profile = request[r].profile
        /\ request[r].step = "commit" /\ request[r].kind = "upload" => request[r].new # {}
        /\ request[r].step \in {"write", "commit"} => request[r].profile \in Profiles
        /\ request[r].step = "drop" => \A g \in files : g.name \notin request[r].drop

FilesInv == FilesTypeOK /\ NamesAreGiven /\ NewIsItsOwn /\ KnownIsRight /\ FileHasItsBytes

LEMMA FilesStart == FilesInit => FilesInv
<1> SUFFICES ASSUME FilesInit PROVE FilesInv
  OBVIOUS
<1>1. Asleep \in EditRecords /\ Asleep.seen = {} /\ Asleep.new = {} /\ Asleep.drop = {}
      /\ Asleep.kind = "none" /\ Asleep.step = "new"
  BY DEF Asleep, EditRecords
<1>2. \A r \in Editing : request[r] = Asleep
  BY DEF FilesInit
<1>3. FilesTypeOK
  BY <1>1, <1>2, FS_EmptySet DEF FilesInit, FilesTypeOK
<1>4. NamesAreGiven /\ NewIsItsOwn /\ KnownIsRight /\ FileHasItsBytes
  BY <1>1, <1>2 DEF FilesInit, NamesAreGiven, NewIsItsOwn, KnownIsRight, FileHasItsBytes, NamesOf
<1> QED BY <1>3, <1>4 DEF FilesInv

\* A step of request r leaves it as v. It inserts rows of its own only, takes new names
\* from beyond the last one, and is to drop what it knew, had made or was to drop.
LEMMA RequestSteps ==
    ASSUME FilesInv, NEW r \in Editing, NEW v \in EditRecords, Put(r, v),
           alive' \subseteq Profiles, files' \subseteq FileRows, IsFiniteSet(files'),
           names' \in Nat, names <= names', IsFiniteSet(v.seen), IsFiniteSet(v.new),
           v.seen \subseteq files \/ v.seen \subseteq request[r].seen,
           v.kind = "delete" => \A f \in v.seen : f.profile = v.profile,
           v.step = "commit" /\ v.kind = "upload" => v.new # {},
           v.step \in {"write", "commit"} => v.profile \in Profiles,
           \A g \in files' : g \in files \/ (g \in request[r].new /\ v.new = {}),
           \A f \in v.new : \/ f \in request[r].new /\ v.drop \cap NamesOf(request[r].new) = {}
                            \/ names < f.name /\ f.name <= names',
           \A f, g \in v.new : f.name = g.name => f = g,
           v.drop \subseteq NamesOf(request[r].seen) \cup NamesOf(request[r].new) \cup request[r].drop,
           v.step = "drop" => \A g \in files' : g.name \notin v.drop,
           NamesOf(files') \subseteq stored', NamesOf(v.new) \subseteq stored',
           \A s \in Editing \ {r} : NamesOf(request[s].new) \subseteq stored'
    PROVE  FilesInv'
<1>t. FilesTypeOK /\ NamesAreGiven /\ NewIsItsOwn /\ KnownIsRight /\ FileHasItsBytes
  BY DEF FilesInv
<1>1. /\ request' \in [Editing -> EditRecords] /\ request'[r] = v
      /\ \A s \in Editing \ {r} : request'[s] = request[s]
  BY <1>t DEF Put, FilesTypeOK
<1>2. /\ \A f \in FileRows : f.name \in Nat
      /\ \A s \in Editing : request[s].seen \subseteq FileRows /\ request[s].new \subseteq FileRows
                            /\ request[s].drop \subseteq Nat
      /\ v.seen \subseteq FileRows /\ v.new \subseteq FileRows /\ v.drop \subseteq Nat
      /\ files \subseteq FileRows /\ names \in Nat
  BY <1>t DEF FilesTypeOK, EditRecords, FileRows
<1>3. FilesTypeOK'
  BY <1>t, <1>1 DEF FilesTypeOK
<1>n. ASSUME NEW n \in Nat, n <= names
      PROVE  n <= names'
  BY <1>2, <1>n
<1>4. NamesAreGiven'
  <2>1. ASSUME NEW f \in files' PROVE f.name <= names'
    BY <1>t, <1>2, <1>n DEF NamesAreGiven
  <2>2. ASSUME NEW f \in v.seen \cup v.new PROVE f.name <= names'
    BY <1>t, <1>2, <1>n DEF NamesAreGiven
  <2>3. ASSUME NEW n \in v.drop PROVE n <= names'
    BY <1>t, <1>2, <1>n DEF NamesAreGiven, NamesOf
  <2>4. ASSUME NEW s \in Editing \ {r}
        PROVE  /\ \A f \in request[s].seen \cup request[s].new : f.name <= names'
               /\ \A n \in request[s].drop : n <= names'
    BY <1>t, <1>2, <1>n DEF NamesAreGiven
  <2>5. \A f, g \in files' : f.name = g.name => f = g
    BY <1>t DEF NamesAreGiven, NewIsItsOwn
  <2> QED BY <1>1, <2>1, <2>2, <2>3, <2>4, <2>5 DEF NamesAreGiven
<1>5. NewIsItsOwn'
  <2>1. ASSUME NEW f \in v.new
        PROVE  /\ f.name \in stored'
               /\ \A g \in files' : f.name # g.name
               /\ \A g \in v.seen : f.name # g.name
               /\ f.name \notin v.drop
               /\ \A s \in Editing \ {r} : /\ \A g \in request[s].seen : f.name # g.name
                                           /\ f.name \notin request[s].drop
                                           /\ \A g \in request[s].new : f.name # g.name
    <3>1. f.name \in stored'
      BY DEF NamesOf
    <3>2. CASE f \in request[r].new /\ v.drop \cap NamesOf(request[r].new) = {}
      BY <1>t, <3>1, <3>2 DEF NewIsItsOwn, NamesOf
    <3>3. CASE names < f.name
      <4>1. \A n \in Nat : n <= names => n # f.name
        BY <1>2, <3>3
      <4>2. /\ \A g \in files : f.name # g.name
            /\ \A s \in Editing : /\ \A g \in request[s].seen : f.name # g.name
                                  /\ f.name \notin request[s].drop
                                  /\ \A g \in request[s].new : f.name # g.name
        BY <1>t, <1>2, <4>1 DEF NamesAreGiven
      <4> QED BY <3>1, <4>2 DEF NamesOf
    <3> QED BY <3>2, <3>3
  <2>2. ASSUME NEW s \in Editing \ {r}, NEW f \in request[s].new
        PROVE  /\ f.name \in stored'
               /\ \A g \in files' : f.name # g.name
               /\ \A g \in request[s].new : f.name = g.name => f = g
               /\ \A g \in v.seen : f.name # g.name
               /\ f.name \notin v.drop
               /\ \A g \in v.new : f.name # g.name
               /\ \A q \in Editing \ {r} : /\ \A g \in request[q].seen : f.name # g.name
                                           /\ f.name \notin request[q].drop
                                           /\ q # s => \A g \in request[q].new : f.name # g.name
    <3>1. f.name \in stored'
      BY DEF NamesOf
    <3>2. /\ \A g \in files : f.name # g.name
          /\ \A g \in request[s].new : f.name = g.name => f = g
          /\ \A q \in Editing : /\ \A g \in request[q].seen : f.name # g.name
                                /\ f.name \notin request[q].drop
                                /\ q # s => \A g \in request[q].new : f.name # g.name
      BY <1>t DEF NewIsItsOwn
    <3>3. \A g \in v.new : f.name # g.name
      BY <2>1
    <3> QED BY <3>1, <3>2, <3>3 DEF NamesOf
  <2> QED BY <1>1, <2>1, <2>2 DEF NewIsItsOwn
<1>6. KnownIsRight'
  <2>1. ASSUME NEW s \in Editing, NEW f \in request[s].seen, NEW g \in files', f.name = g.name
        PROVE  f = g
    BY <1>t, <2>1 DEF KnownIsRight, NewIsItsOwn
  <2>2. ASSUME NEW f \in v.seen, NEW g \in files', f.name = g.name
        PROVE  f = g
    BY <1>t, <2>1, <2>2 DEF NamesAreGiven, NewIsItsOwn
  <2>3. ASSUME NEW s \in Editing, request[s].step = "drop", s # r, NEW g \in files'
        PROVE  g.name \notin request[s].drop
    BY <1>t, <2>3 DEF KnownIsRight, NewIsItsOwn
  <2> QED BY <1>t, <1>1, <2>1, <2>2, <2>3 DEF KnownIsRight
<1>7. FileHasItsBytes'
  BY DEF FileHasItsBytes, NamesOf
<1> QED BY <1>3, <1>4, <1>5, <1>6, <1>7 DEF FilesInv

\* How a request ends: with what it is to remove, if anything.
LEMMA Leaves ==
    ASSUME NEW r \in Editing, NEW drop \in SUBSET Nat, Leave(r, drop)
    PROVE  \E v \in EditRecords :
               /\ Put(r, v) /\ v.seen = {} /\ v.new = {} /\ v.kind = "none" /\ v.drop = drop
               /\ v.step \in {"new", "drop"}
<1>1. Asleep \in EditRecords /\ Asleep.seen = {} /\ Asleep.new = {} /\ Asleep.drop = {}
      /\ Asleep.kind = "none" /\ Asleep.step = "new"
  BY DEF Asleep, EditRecords
<1>2. ASSUME NEW v, v = [Asleep EXCEPT !.step = "drop", !.drop = drop]
      PROVE  /\ v \in EditRecords /\ v.seen = {} /\ v.new = {} /\ v.kind = "none"
             /\ v.drop = drop /\ v.step = "drop"
  BY <1>2 DEF Asleep, EditRecords
<1>3. CASE drop = {}
  BY <1>1, <1>3 DEF Leave, Finish
<1>4. CASE drop # {}
  BY <1>2, <1>4 DEF Leave
<1> QED BY <1>3, <1>4

LEMMA LookStep ==
    ASSUME FilesInv, NEW r \in Editing, Look(r)
    PROVE  FilesInv'
<1>t. FilesTypeOK /\ NamesAreGiven /\ NewIsItsOwn /\ KnownIsRight /\ FileHasItsBytes
  BY DEF FilesInv
<1>0. alive' = alive /\ files' = files /\ stored' = stored /\ names' = names
  BY DEF Look
<1>1. PICK p \in alive, k \in {"upload", "remove", "delete", "copy"} :
        Put(r, [step |-> IF k \in {"upload", "copy"} THEN "write" ELSE "commit", kind |-> k,
                profile |-> p, seen |-> FilesOf(p), new |-> {}, drop |-> {}])
  BY DEF Look
<1> DEFINE v == [step |-> IF k \in {"upload", "copy"} THEN "write" ELSE "commit", kind |-> k,
                 profile |-> p, seen |-> FilesOf(p), new |-> {}, drop |-> {}]
<1>2. /\ FilesOf(p) \subseteq files /\ \A f \in FilesOf(p) : f.profile = p
      /\ IsFiniteSet(FilesOf(p)) /\ FilesOf(p) \subseteq FileRows /\ p \in Profiles
  BY <1>t, FS_Subset DEF FilesOf, FilesTypeOK
<1>3. v \in EditRecords
  BY <1>2 DEF EditRecords
<1>4. /\ v.seen = FilesOf(p) /\ v.new = {} /\ v.drop = {} /\ v.profile = p /\ v.step # "drop"
      /\ p \in Profiles
      /\ ~(v.step = "commit" /\ v.kind = "upload")
  BY <1>2
<1>5. Put(r, v)
  BY <1>1
<1> HIDE DEF v
<1>6. names \in Nat /\ names <= names /\ alive \subseteq Profiles /\ files \subseteq FileRows
      /\ IsFiniteSet(files)
  BY <1>t DEF FilesTypeOK
<1>7. NamesOf(files) \subseteq stored /\ NamesOf(v.new) \subseteq stored
      /\ \A s \in Editing \ {r} : NamesOf(request[s].new) \subseteq stored
  BY <1>t, <1>4 DEF FileHasItsBytes, NewIsItsOwn, NamesOf
<1> QED BY <1>0, <1>2, <1>3, <1>4, <1>5, <1>6, <1>7, FS_EmptySet, RequestSteps

LEMMA WriteUploadStep ==
    ASSUME FilesInv, NEW r \in Editing, WriteUpload(r)
    PROVE  FilesInv'
<1>t. FilesTypeOK /\ NamesAreGiven /\ NewIsItsOwn /\ KnownIsRight /\ FileHasItsBytes
  BY DEF FilesInv
<1>0. /\ alive' = alive /\ files' = files /\ stored' = stored \cup {names + 1} /\ names' = names + 1
      /\ request[r].step = "write" /\ request[r].kind = "upload"
  BY DEF WriteUpload
<1> DEFINE x == request[r]
<1>1. PICK path, v :
        /\ path \in Paths
        /\ Put(r, v)
        /\ v = [x EXCEPT !.step = "commit",
                  !.drop = NamesOf({f \in x.seen : f.path = path}),
                  !.new = {[profile |-> x.profile, path |-> path, name |-> names + 1]}]
  BY DEF WriteUpload
<1> DEFINE mine == [profile |-> x.profile, path |-> path, name |-> names + 1]
           D == NamesOf({f \in x.seen : f.path = path})
<1>2. x \in EditRecords /\ names \in Nat /\ IsFiniteSet(x.seen) /\ x.kind = "upload"
      /\ x.profile \in Profiles
  BY <1>t, <1>0 DEF FilesTypeOK, KnownIsRight
<1>4. Put(r, v) /\ v = [x EXCEPT !.step = "commit", !.drop = D, !.new = {mine}]
  BY <1>1
<1>5. mine \in FileRows /\ mine.name = names + 1
  BY <1>1, <1>2 DEF EditRecords, FileRows
<1>6. D \subseteq NamesOf(request[r].seen) /\ D \subseteq Nat
  BY <1>2 DEF NamesOf, EditRecords, FileRows
<1>x. x = request[r]
  OBVIOUS
<1> HIDE DEF mine, D, x
<1>7. /\ v \in EditRecords
      /\ v.seen = x.seen /\ v.new = {mine} /\ v.drop = D /\ v.step = "commit" /\ v.kind = x.kind
      /\ v.profile = x.profile
  <2>1. {mine} \in SUBSET FileRows /\ D \in SUBSET Nat
    BY <1>5, <1>6
  <2> QED BY <1>2, <1>4, <2>1 DEF EditRecords
<1>8. /\ v.seen = request[r].seen /\ v.new = {mine} /\ v.drop = D /\ v.step = "commit"
      /\ v.kind = "upload" /\ v.profile \in Profiles
  BY <1>2, <1>7, <1>x
<1>9. /\ names < mine.name /\ mine.name <= names' /\ names' \in Nat /\ names <= names'
  BY <1>0, <1>2, <1>5
<1>10. /\ NamesOf(files') \subseteq stored' /\ NamesOf(v.new) \subseteq stored'
       /\ \A s \in Editing \ {r} : NamesOf(request[s].new) \subseteq stored'
  BY <1>t, <1>0, <1>5, <1>8 DEF FileHasItsBytes, NewIsItsOwn, NamesOf
<1>11. alive' \subseteq Profiles /\ files' \subseteq FileRows /\ IsFiniteSet(files')
       /\ IsFiniteSet(v.seen) /\ IsFiniteSet(v.new)
  BY <1>t, <1>0, <1>8, FS_Singleton DEF FilesTypeOK
<1> QED BY <1>0, <1>4, <1>6, <1>7, <1>8, <1>9, <1>10, <1>11, RequestSteps

LEMMA AsTheyAre ==
    ASSUME FilesInv
    PROVE  /\ alive \subseteq Profiles /\ files \subseteq FileRows /\ IsFiniteSet(files)
           /\ names \in Nat /\ names <= names /\ NamesOf(files) \subseteq stored
           /\ \A s \in Editing :
                 /\ NamesOf(request[s].new) \subseteq stored
                 /\ request[s] \in EditRecords
                 /\ request[s].seen \subseteq FileRows /\ request[s].new \subseteq FileRows
                 /\ request[s].drop \subseteq Nat
                 /\ IsFiniteSet(request[s].seen) /\ IsFiniteSet(request[s].new)
                 /\ NamesOf(request[s].seen) \subseteq Nat /\ NamesOf(request[s].new) \subseteq Nat
<1>1. FilesTypeOK /\ NewIsItsOwn /\ FileHasItsBytes
  BY DEF FilesInv
<1> QED BY <1>1 DEF FilesTypeOK, NewIsItsOwn, FileHasItsBytes, NamesOf, EditRecords, FileRows

\* A request ends: what it leaves to be removed has no row.
LEMMA LeaveStep ==
    ASSUME FilesInv, NEW r \in Editing, NEW drop, Leave(r, drop),
           alive' \subseteq Profiles, files' \subseteq files \cup request[r].new, names' = names,
           drop \subseteq NamesOf(request[r].seen) \cup NamesOf(request[r].new) \cup request[r].drop,
           \A g \in files' : g.name \notin drop,
           NamesOf(files') \subseteq stored',
           \A s \in Editing \ {r} : NamesOf(request[s].new) \subseteq stored'
    PROVE  FilesInv'
<1>1. drop \in SUBSET Nat
  BY AsTheyAre
<1>2. PICK v \in EditRecords :
        /\ Put(r, v) /\ v.seen = {} /\ v.new = {} /\ v.kind = "none" /\ v.drop = drop
        /\ v.step \in {"new", "drop"}
  BY <1>1, Leaves
<1>3. IsFiniteSet(files') /\ files' \subseteq FileRows
  <2>1. IsFiniteSet(files \cup request[r].new)
    BY AsTheyAre, FS_Union
  <2> QED BY <2>1, AsTheyAre, FS_Subset
<1>4. names' \in Nat /\ names <= names' /\ IsFiniteSet(v.seen) /\ IsFiniteSet(v.new)
      /\ NamesOf(v.new) \subseteq stored'
  BY <1>2, AsTheyAre, FS_EmptySet DEF NamesOf
<1> QED BY <1>2, <1>3, <1>4, RequestSteps

LEMMA CommitUploadStep ==
    ASSUME FilesInv, NEW r \in Editing, CommitUpload(r)
    PROVE  FilesInv'
<1>t. FilesTypeOK /\ NamesAreGiven /\ NewIsItsOwn /\ KnownIsRight /\ FileHasItsBytes
  BY DEF FilesInv
<1> DEFINE mine == CHOOSE f \in request[r].new : TRUE
           rest == {f \in files : f.name \notin request[r].drop}
<1>0. /\ alive' = alive /\ stored' = stored /\ names' = names
      /\ request[r].step = "commit" /\ request[r].kind = "upload"
      /\ \/ Leave(r, {mine.name}) /\ files' = files
         \/ Leave(r, request[r].drop) /\ files' = rest \cup {mine}
  BY DEF CommitUpload
<1>1. mine \in request[r].new
  BY <1>t, <1>0 DEF KnownIsRight
<1>2. rest \subseteq files /\ \A f \in rest : f.name \notin request[r].drop
  OBVIOUS
<1> HIDE DEF mine, rest
<1>3. \A s \in Editing \ {r} : NamesOf(request[s].new) \subseteq stored'
  BY <1>0, AsTheyAre
<1>4. CASE Leave(r, {mine.name}) /\ files' = files
  <2>1. \A g \in files' : g.name \notin {mine.name}
    BY <1>t, <1>1, <1>4 DEF NewIsItsOwn
  <2>2. {mine.name} \subseteq NamesOf(request[r].new)
    BY <1>1 DEF NamesOf
  <2>3. NamesOf(files') \subseteq stored' /\ alive' \subseteq Profiles
    BY <1>0, <1>4, AsTheyAre
  <2> QED BY <1>0, <1>3, <1>4, <2>1, <2>2, <2>3, LeaveStep
<1>5. CASE Leave(r, request[r].drop) /\ files' = rest \cup {mine}
  <2>1. \A g \in files' : g.name \notin request[r].drop
    BY <1>t, <1>1, <1>2, <1>5 DEF NewIsItsOwn
  <2>2. NamesOf(files') \subseteq stored'
    BY <1>t, <1>0, <1>1, <1>2, <1>5 DEF NewIsItsOwn, FileHasItsBytes, NamesOf
  <2>3. alive' \subseteq Profiles /\ files' \subseteq files \cup request[r].new
    BY <1>0, <1>1, <1>2, <1>5, AsTheyAre
  <2> QED BY <1>0, <1>3, <1>5, <2>1, <2>2, <2>3, LeaveStep
<1> QED BY <1>0, <1>4, <1>5

\* An upload or a removal finds its profile gone, a commit fails, a copy gives up.
LEMMA FinishStep ==
    ASSUME FilesInv, NEW r \in Editing, Finish(r), alive' = alive, files' = files, names' = names,
           stored' = stored \/ stored' = stored \ NamesOf(request[r].new)
    PROVE  FilesInv'
<1>1. Leave(r, {})
  BY DEF Leave
<1>2. NewIsItsOwn
  BY DEF FilesInv
<1>3. NamesOf(files') \subseteq stored'
      /\ \A s \in Editing \ {r} : NamesOf(request[s].new) \subseteq stored'
  BY <1>2, AsTheyAre DEF NewIsItsOwn, NamesOf
<1> QED BY <1>1, <1>3, AsTheyAre, LeaveStep

LEMMA DropStep ==
    ASSUME FilesInv, NEW r \in Editing, Drop(r)
    PROVE  FilesInv'
<1>1. /\ Leave(r, {}) /\ alive' = alive /\ files' = files /\ names' = names
      /\ stored' = stored \ request[r].drop /\ request[r].step = "drop"
  BY DEF Drop, Leave
<1>2. NewIsItsOwn /\ KnownIsRight
  BY DEF FilesInv
<1>3. NamesOf(files') \subseteq stored'
      /\ \A s \in Editing \ {r} : NamesOf(request[s].new) \subseteq stored'
  BY <1>1, <1>2, AsTheyAre DEF NewIsItsOwn, KnownIsRight, NamesOf
<1> QED BY <1>1, <1>3, AsTheyAre, LeaveStep

LEMMA CommitRemoveStep ==
    ASSUME FilesInv, NEW r \in Editing, CommitRemove(r)
    PROVE  FilesInv'
<1>0. /\ alive' = alive /\ stored' = stored /\ names' = names
      /\ \/ \E f \in request[r].seen : files' = files \ {f} /\ Leave(r, {f.name})
         \/ Finish(r) /\ files' = files
  BY DEF CommitRemove
<1>1. CASE Finish(r) /\ files' = files
  BY <1>0, <1>1, FinishStep
<1>2. ASSUME NEW f \in request[r].seen, files' = files \ {f}, Leave(r, {f.name})
      PROVE  FilesInv'
  <2>1. \A g \in files' : g.name \notin {f.name}
    BY <1>2 DEF FilesInv, KnownIsRight
  <2>2. {f.name} \subseteq NamesOf(request[r].seen) /\ files' \subseteq files
    BY <1>2 DEF NamesOf
  <2>3. NamesOf(files') \subseteq stored' /\ alive' \subseteq Profiles
        /\ \A s \in Editing \ {r} : NamesOf(request[s].new) \subseteq stored'
    BY <1>0, <2>2, AsTheyAre DEF NamesOf
  <2> QED BY <1>0, <1>2, <2>1, <2>2, <2>3, LeaveStep
<1> QED BY <1>0, <1>1, <1>2

LEMMA CommitDeleteStep ==
    ASSUME FilesInv, NEW r \in Editing, CommitDelete(r)
    PROVE  FilesInv'
<1>0. /\ alive' = alive \ {request[r].profile} /\ files' = files \ FilesOf(request[r].profile)
      /\ Leave(r, NamesOf(request[r].seen)) /\ stored' = stored /\ names' = names
      /\ request[r].kind = "delete"
  BY DEF CommitDelete
<1>1. \A g \in files' : g.name \notin NamesOf(request[r].seen)
  BY <1>0 DEF FilesInv, KnownIsRight, NamesOf, FilesOf
<1>2. NamesOf(files') \subseteq stored' /\ alive' \subseteq Profiles /\ files' \subseteq files
      /\ \A s \in Editing \ {r} : NamesOf(request[s].new) \subseteq stored'
  BY <1>0, AsTheyAre DEF NamesOf
<1> QED BY <1>0, <1>1, <1>2, LeaveStep

LEMMA CommitCopyStep ==
    ASSUME FilesInv, NEW r \in Editing, CommitCopy(r)
    PROVE  FilesInv'
<1>0. /\ stored' = stored /\ names' = names
      /\ \/ Leave(r, NamesOf(request[r].new)) /\ files' = files
         \/ Leave(r, {}) /\ files' = files \cup request[r].new
      /\ alive' = alive \/ alive' = alive \cup {request[r].profile}
      /\ request[r].step = "commit"
  BY DEF CommitCopy, Leave
<1>1. NewIsItsOwn /\ KnownIsRight
  BY DEF FilesInv
<1>2. NamesOf(files') \subseteq stored'
      /\ \A s \in Editing \ {r} : NamesOf(request[s].new) \subseteq stored'
  BY <1>0, AsTheyAre DEF NamesOf
<1>3. \A g \in files : g.name \notin NamesOf(request[r].new)
  BY <1>1 DEF NewIsItsOwn, NamesOf
<1>4. alive' \subseteq Profiles
  BY <1>0, <1>1, AsTheyAre DEF KnownIsRight
<1> QED BY <1>0, <1>2, <1>3, <1>4, LeaveStep

LEMMA WriteCopyStep ==
    ASSUME FilesInv, NEW r \in Editing, WriteCopy(r)
    PROVE  FilesInv'
<1> DEFINE x == request[r]
           k == Cardinality(request[r].seen)
<1>t. FilesTypeOK /\ NamesAreGiven /\ NewIsItsOwn /\ KnownIsRight /\ FileHasItsBytes
  BY DEF FilesInv
<1>0. alive' = alive /\ files' = files /\ x.step = "write" /\ x.kind = "copy"
  BY DEF WriteCopy
<1>1. CASE Finish(r) /\ UNCHANGED <<names, stored>>
  BY <1>0, <1>1, FinishStep
<1>2. ASSUME NEW p \in Profiles \ alive, NEW number \in [x.seen -> (names + 1)..(names + k)], NEW v,
             \A f, g \in x.seen : number[f] = number[g] => f = g,
             Put(r, v),
             v = [x EXCEPT !.step = "commit", !.profile = p,
                    !.new = {[profile |-> p, path |-> f.path, name |-> number[f]] : f \in x.seen}],
             names' = names + k, stored' = stored \cup ((names + 1)..names')
      PROVE  FilesInv'
  <2> DEFINE copy == [f \in x.seen |-> [profile |-> p, path |-> f.path, name |-> number[f]]]
             S == {[profile |-> p, path |-> f.path, name |-> number[f]] : f \in x.seen}
  <2>1. x \in EditRecords /\ names \in Nat /\ k \in Nat /\ x.seen \subseteq FileRows
        /\ IsFiniteSet(x.seen)
    BY AsTheyAre, FS_CardinalityType
  <2>2. IsFiniteSet(S)
    <3>1. copy \in Surjection(x.seen, S)
      BY DEF Surjection
    <3> QED BY <2>1, <3>1, FS_Surjection
  <2>3. names' \in Nat /\ names <= names' /\ \A n \in (names + 1)..names' : n \in Nat /\ names < n /\ n <= names'
    BY <1>2, <2>1
  <2>4. ASSUME NEW c \in S
        PROVE  /\ c \in FileRows /\ names < c.name /\ c.name <= names' /\ c.name \in stored'
               /\ \A d \in S : c.name = d.name => c = d
    <3>1. PICK f \in x.seen : c = [profile |-> p, path |-> f.path, name |-> number[f]]
      OBVIOUS
    <3>2. number[f] \in (names + 1)..names'
      BY <1>2
    <3>3. c.name = number[f] /\ c \in FileRows
      BY <2>1, <2>3, <3>1, <3>2 DEF FileRows
    <3>4. ASSUME NEW d \in S, c.name = d.name PROVE c = d
      <4>1. PICK g \in x.seen : d = [profile |-> p, path |-> g.path, name |-> number[g]]
        OBVIOUS
      <4>2. f = g
        BY <1>2, <3>1, <3>4, <4>1
      <4> QED BY <3>1, <4>1, <4>2
    <3> QED BY <1>2, <2>3, <3>2, <3>3, <3>4
  <2>x. x = request[r] /\ v = [x EXCEPT !.step = "commit", !.profile = p, !.new = S]
    BY <1>2
  <2> HIDE DEF x, S, k, copy
  <2>5. /\ v \in EditRecords /\ v.seen = x.seen /\ v.new = S /\ v.drop = x.drop /\ v.step = "commit"
        /\ v.kind = x.kind /\ v.profile = p
    <3>1. S \in SUBSET FileRows /\ p \in Profiles
      BY <2>4
    <3> QED BY <2>1, <2>x, <3>1 DEF EditRecords
  <2>6. /\ NamesOf(files') \subseteq stored' /\ NamesOf(v.new) \subseteq stored'
        /\ \A s \in Editing \ {r} : NamesOf(request[s].new) \subseteq stored'
    <3>1. NamesOf(S) \subseteq stored'
      BY <2>4 DEF NamesOf
    <3> QED BY <1>0, <1>2, <2>5, <3>1, AsTheyAre
  <2>7. /\ IsFiniteSet(v.seen) /\ IsFiniteSet(v.new) /\ v.seen \subseteq request[r].seen
        /\ v.kind # "delete" /\ v.kind # "upload" /\ v.profile \in Profiles /\ v.step # "drop"
        /\ v.drop \subseteq request[r].drop
    BY <1>0, <2>1, <2>2, <2>5, <2>x
  <2>8. /\ \A f \in v.new : names < f.name /\ f.name <= names'
        /\ \A f, g \in v.new : f.name = g.name => f = g
    BY <2>4, <2>5
  <2>9. alive' \subseteq Profiles /\ files' \subseteq FileRows /\ IsFiniteSet(files') /\ files' = files
    BY <1>0, AsTheyAre
  <2> QED BY <1>2, <2>3, <2>5, <2>6, <2>7, <2>8, <2>9, RequestSteps
<1> QED BY <1>1, <1>2 DEF WriteCopy

(* Uploads, replacements, removals, deletions and copies of device profiles by any number
   of administrators at a time, whose commits may fail: a row has its bytes. *)
THEOREM FilesHaveTheirBytes == FilesSpec => []FileHasItsBytes
<1>1. FilesInv /\ [FilesNext]_filesVars => FilesInv'
  <2> SUFFICES ASSUME FilesInv, [FilesNext]_filesVars PROVE FilesInv'
    OBVIOUS
  <2>1. CASE UNCHANGED filesVars
    BY <2>1 DEF filesVars, FilesInv, FilesTypeOK, NamesAreGiven, NewIsItsOwn, KnownIsRight,
                FileHasItsBytes, NamesOf
  <2>2. ASSUME NEW r \in Editing, UploadLost(r) \/ CommitFails(r)
        PROVE  FilesInv'
    BY <2>2, FinishStep DEF UploadLost, CommitFails
  <2> QED BY <2>1, <2>2, LookStep, WriteUploadStep, CommitUploadStep, WriteCopyStep, CommitCopyStep,
             CommitRemoveStep, CommitDeleteStep, DropStep DEF FilesNext
<1>2. FilesInv => FileHasItsBytes
  BY DEF FilesInv
<1> QED BY <1>1, <1>2, FilesStart, PTL DEF FilesSpec

-----------------------------------------------------------------------------
(* The uids of video feeds. *)
Uids == FeedIds \cup {FreshId(p) : p \in StreamPaths} \cup {<<>>}

StreamRows ==
    [uid : Uids, owner : Viewers \cup {"nobody"}, grouped : BOOLEAN, ready : BOOLEAN,
     copied : BOOLEAN, settings : {"absent", "edited", "base", "unset"}]
AskRows ==
    [op : {"none", "update", "add", "vcm", "post", "cot", "delete", "unlist", "publish"},
     by : Viewers \cup {"nobody"}, path : StreamPaths \cup {"none"}, uid : Uids,
     at : {"tell", "save", "register", "allow", "drop", "end"}, new : BOOLEAN]
HookRows ==
    [event : {"ready", "notready", "startup"}, path : StreamPaths \cup {"all"},
     at : {"new", "patch", "copy", "list"}]

VideoTypeOK ==
    /\ feed \in [StreamPaths -> StreamRows]
    /\ ask \in [Callers -> AskRows]
    /\ hooks \subseteq HookRows
    /\ \A h \in hooks : h.event \in {"ready", "notready"} => h.path \in StreamPaths

(* A uid that was made for a path is on no other one. *)
MadeForIt(uid, p) == \A q \in StreamPaths : uid = FreshId(q) => q = p

(* What a request is about to store: a uid made for its path, or one that no other
   row has, which then is an editor's. *)
StoresItsOwn(c) ==
    LET r == ask[c] IN
    /\ r.op # "none" => r.path \in StreamPaths /\ MadeForIt(r.uid, r.path)
    /\ r.op \in {"add", "publish"} => r.uid = FreshId(r.path)
    /\ r.op = "update" => ~r.new
    /\ r.op \in {"delete", "unlist"} => r.at # "save"
    /\ r.op = "none" => r.at = "end"
    /\ r.op \in {"vcm", "post", "cot"} /\ r.at = "save"
          => c \in FeedEditors /\ \A q \in Feeds : feed[q].uid = r.uid => q = r.path

VideoInv ==
    /\ VideoTypeOK
    /\ \A c \in Callers : StoresItsOwn(c)
    /\ \A p \in Feeds : MadeForIt(feed[p].uid, p)
    /\ UidNamesOneFeed

(* What most steps do: rows keep their uids or get one made for their path, and a
   request ends or goes on with what it has. *)
KeepsOrMakesUids ==
    \A p \in Feeds' : (p \in Feeds /\ feed'[p].uid = feed[p].uid) \/ feed'[p].uid = FreshId(p)
EndsOrGoesOn(c) ==
    \/ ask'[c] = NoAsk
    \/ ask'[c] = ask[c]
    \/ \E at \in {"save", "register", "allow", "drop"} :
          /\ ask'[c] = [ask[c] EXCEPT !.at = at] /\ ask[c].op # "none"
          /\ at = "save" => ask[c].op \in {"add", "update"}

LEMMA FreshIdsDiffer ==
    ASSUME NEW p, NEW q, FreshId(p) = FreshId(q) PROVE p = q
BY DEF FreshId

LEMMA FeedsKeepTheirUids ==
    ASSUME VideoInv, VideoTypeOK', KeepsOrMakesUids, \A c \in Callers : EndsOrGoesOn(c)
    PROVE VideoInv'
<1>1. \A p \in Feeds' : MadeForIt(feed[p].uid, p)'
  BY FreshIdsDiffer DEF VideoInv, KeepsOrMakesUids, MadeForIt, Feeds
<1>2. UidNamesOneFeed'
  <2> SUFFICES ASSUME NEW p \in Feeds', NEW q \in Feeds', feed'[p].uid = feed'[q].uid PROVE p = q
    BY DEF UidNamesOneFeed
  <2>0. p \in StreamPaths /\ q \in StreamPaths
    BY DEF Feeds
  <2> QED
    BY <2>0, <1>1 DEF VideoInv, KeepsOrMakesUids, UidNamesOneFeed, MadeForIt
<1>3. ASSUME NEW c \in Callers PROVE StoresItsOwn(c)'
  <2>1. CASE ask'[c] = NoAsk
    BY <2>1 DEF StoresItsOwn, NoAsk
  <2>2. ASSUME ask[c].op \in {"vcm", "post", "cot"}, ask[c].at = "save"
        PROVE \A q \in Feeds' : feed'[q].uid = ask[c].uid => q = ask[c].path
    <3>1. \A q \in Feeds : feed[q].uid = ask[c].uid => q = ask[c].path
      BY <2>2, <1>3 DEF VideoInv, StoresItsOwn
    <3>2. \A q \in StreamPaths : ask[c].uid = FreshId(q) => q = ask[c].path
      BY <2>2, <1>3 DEF VideoInv, StoresItsOwn, MadeForIt
    <3> QED
      BY <3>1, <3>2 DEF KeepsOrMakesUids, Feeds
  <2>3. CASE ask'[c] = ask[c]
    BY <2>2, <2>3, <1>3 DEF VideoInv, StoresItsOwn, MadeForIt
  <2>4. ASSUME NEW at \in {"save", "register", "allow", "drop"}, ask'[c] = [ask[c] EXCEPT !.at = at],
               ask[c].op # "none", at = "save" => ask[c].op \in {"add", "update"}
        PROVE StoresItsOwn(c)'
    <3>1. ask'[c].op = ask[c].op /\ ask'[c].path = ask[c].path /\ ask'[c].uid = ask[c].uid
          /\ ask'[c].new = ask[c].new /\ ask'[c].at = at
      BY <2>4, <1>3 DEF VideoInv, VideoTypeOK, StreamRows, AskRows, HookRows
    <3> QED
      BY <2>4, <3>1, <1>3 DEF VideoInv, StoresItsOwn, MadeForIt
  <2> QED
    BY <2>1, <2>3, <2>4, <1>3 DEF EndsOrGoesOn
<1> QED
  BY <1>1, <1>2, <1>3 DEF VideoInv

(* A request opens: its uid is the row's, one made for the path, or one of no other row. *)
LEMMA OpenedWithItsOwn ==
    ASSUME VideoInv, VideoTypeOK', NEW c \in Callers, NEW op, NEW u, NEW p \in StreamPaths, NEW uid,
           NEW at, NEW new, Opens(c, op, u, p, uid, at, new),
           MadeForIt(uid, p), op \in {"add", "publish"} => uid = FreshId(p), op = "update" => ~new,
           op # "none", op \in {"delete", "unlist"} => at # "save",
           op \in {"vcm", "post", "cot"} =>
              c \in FeedEditors /\ \A q \in Feeds : feed[q].uid = uid => q = p
    PROVE VideoInv'
<1>1. feed' = feed /\ ask' = [ask EXCEPT ![c] = [op |-> op, by |-> u, path |-> p, uid |-> uid,
                                                 at |-> at, new |-> new]]
  BY DEF Opens
<1>2. ASSUME NEW d \in Callers PROVE StoresItsOwn(d)'
  <2>1. CASE d # c
    BY <1>1, <1>2, <2>1 DEF VideoInv, VideoTypeOK, StreamRows, AskRows, HookRows, StoresItsOwn, MadeForIt, Feeds
  <2>2. CASE d = c
    <3>1. ask'[d] = [op |-> op, by |-> u, path |-> p, uid |-> uid, at |-> at, new |-> new]
      BY <1>1, <2>2 DEF VideoInv, VideoTypeOK, StreamRows, AskRows, HookRows
    <3> QED
      BY <1>1, <2>2, <3>1 DEF StoresItsOwn, MadeForIt, Feeds
  <2> QED
    BY <2>1, <2>2
<1> QED
  BY <1>1, <1>2 DEF VideoInv, UidNamesOneFeed, MadeForIt, Feeds

(* The insertion or the update of a row, with the uid of its request. *)
LEMMA StoredKeepsUids ==
    ASSUME VideoInv, VideoTypeOK', \A c, d \in FeedEditors : c = d, NEW c \in Callers,
           SaveNew(c) \/ SaveOld(c)
    PROVE VideoInv'
<1> DEFINE r == ask[c]
<1>0. /\ r.at = "save" /\ r.path \in StreamPaths /\ MadeForIt(r.uid, r.path)
      /\ r.op \in {"add", "publish"} => r.uid = FreshId(r.path)
      /\ r.op \in {"vcm", "post", "cot"} => c \in FeedEditors
      /\ r.op \in {"vcm", "post", "cot"} => \A q \in Feeds : feed[q].uid = r.uid => q = r.path
      /\ r.op \in {"add", "publish", "update", "vcm", "post", "cot"}
      /\ r.op = "update" => ~r.new
  <2>1. r.op # "none"
    BY DEF SaveNew, SaveOld, VideoInv, StoresItsOwn
  <2>2. r \in AskRows
    BY DEF VideoInv, VideoTypeOK, StreamRows, AskRows, HookRows
  <2>3. r.op \in {"none", "update", "add", "vcm", "post", "cot", "delete", "unlist", "publish"}
    BY <2>2 DEF AskRows
  <2> QED
    BY <2>1, <2>3 DEF SaveNew, SaveOld, VideoInv, StoresItsOwn
<1>1. \A d \in Callers : EndsOrGoesOn(d)
  BY DEF SaveNew, SaveOld, AskGoes, AskEnds, EndsOrGoesOn, VideoInv, VideoTypeOK, StreamRows, AskRows, HookRows, StoresItsOwn
<1>2. CASE KeepsOrMakesUids
  BY <1>1, <1>2, FeedsKeepTheirUids
<1>3. CASE \A p \in Feeds' : p \in Feeds /\ feed'[p].uid = feed[p].uid
  BY <1>2, <1>3 DEF KeepsOrMakesUids
<1>4. ASSUME r.op \in {"vcm", "post", "cot"}, ask' = [ask EXCEPT ![c] = NoAsk]
             \/ ask' = [ask EXCEPT ![c] = [@ EXCEPT !.at = "register"]],
             feed'[r.path].uid = r.uid,
             \A p \in Feeds' : p # r.path => p \in Feeds /\ feed'[p] = feed[p]
      PROVE VideoInv'
  <2>1. \A p \in Feeds' : MadeForIt(feed[p].uid, p)'
    BY <1>0, <1>4 DEF VideoInv, MadeForIt
  <2>2. UidNamesOneFeed'
    BY <1>0, <1>4 DEF VideoInv, UidNamesOneFeed
  <2>3. ASSUME NEW d \in Callers PROVE StoresItsOwn(d)'
    <3>1. CASE d = c
      <4>1. ask'[d] = NoAsk \/ (ask'[d].at = "register" /\ ask'[d].op = r.op
               /\ ask'[d].path = r.path /\ ask'[d].uid = r.uid /\ ask'[d].new = r.new)
        BY <1>4, <3>1 DEF VideoInv, VideoTypeOK, StreamRows, AskRows, HookRows
      <4> QED
        BY <4>1, <1>0, <1>4 DEF StoresItsOwn, NoAsk, MadeForIt
    <3>2. CASE d # c
      <4>1. ask'[d] = ask[d]
        BY <1>4, <3>2 DEF VideoInv, VideoTypeOK, StreamRows, AskRows, HookRows
      <4>2. ~(ask[d].op \in {"vcm", "post", "cot"} /\ ask[d].at = "save")
        BY <1>0, <1>4, <3>2 DEF VideoInv, StoresItsOwn
      <4> QED
        BY <4>1, <4>2 DEF VideoInv, StoresItsOwn, MadeForIt
    <3> QED
      BY <3>1, <3>2
  <2> QED
    BY <2>1, <2>2, <2>3 DEF VideoInv
<1>5. CASE SaveNew(c)
  <2>1. CASE r.path \in Feeds
    BY <1>3, <1>5, <2>1 DEF SaveNew, Feeds
  <2>2. CASE r.path \notin Feeds
    <3>1. feed' = [feed EXCEPT ![r.path] = Inserted(c)] /\ Inserted(c).uid = r.uid
      BY <1>5, <2>2 DEF SaveNew, Inserted, NewFeed
    <3>2. feed'[r.path].uid = r.uid /\ \A p \in Feeds' : p # r.path => p \in Feeds /\ feed'[p] = feed[p]
      BY <1>0, <3>1 DEF VideoInv, VideoTypeOK, StreamRows, AskRows, HookRows, Feeds
    <3>3. CASE r.op \in {"add", "publish"}
      BY <1>0, <1>2, <3>2, <3>3 DEF KeepsOrMakesUids
    <3>4. CASE r.op \in {"vcm", "post", "cot"}
      BY <1>4, <1>5, <2>2, <3>2, <3>4 DEF SaveNew, AskGoes, AskEnds
    <3>5. r.op # "update"
      BY <1>0, <1>5 DEF SaveNew
    <3> QED
      BY <1>0, <3>3, <3>4, <3>5
  <2> QED
    BY <2>1, <2>2
<1>6. CASE SaveOld(c)
  <2>1. CASE r.path \notin Feeds
    BY <1>3, <1>6, <2>1 DEF SaveOld, Feeds
  <2>2. CASE r.path \in Feeds /\ r.op \in {"add", "update"}
    <3>1. feed' = [feed EXCEPT ![r.path] = [@ EXCEPT !.settings = "edited"]]
      BY <1>6, <2>2 DEF SaveOld
    <3>2. feed'[r.path].uid = feed[r.path].uid
          /\ \A p \in Feeds' : p # r.path => p \in Feeds /\ feed'[p] = feed[p]
      BY <1>0, <3>1 DEF VideoInv, VideoTypeOK, StreamRows, AskRows, HookRows, Feeds
    <3> QED
      BY <1>3, <2>2, <3>2
  <2>3. CASE r.path \in Feeds /\ r.op \notin {"add", "update"}
    <3>1. feed' = [feed EXCEPT ![r.path] = [@ EXCEPT !.uid = r.uid]]
      BY <1>6, <2>3 DEF SaveOld
    <3>2. feed'[r.path].uid = r.uid /\ \A p \in Feeds' : p # r.path => p \in Feeds /\ feed'[p] = feed[p]
      BY <1>0, <3>1 DEF VideoInv, VideoTypeOK, StreamRows, AskRows, HookRows, Feeds
    <3>3. CASE r.op = "publish"
      BY <1>0, <1>2, <3>2, <3>3 DEF KeepsOrMakesUids
    <3>4. CASE r.op \in {"vcm", "post", "cot"}
      BY <1>4, <1>6, <3>2, <3>4 DEF SaveOld, AskEnds
    <3> QED
      BY <1>0, <2>3, <3>3, <3>4
  <2> QED
    BY <2>1, <2>2, <2>3
<1> QED
  BY <1>5, <1>6

LEMMA VideoTypeStep ==
    ASSUME VideoInv, [VideoNext]_videoVars PROVE VideoTypeOK'
<1>t. VideoTypeOK /\ \A c \in Callers : ask[c].op # "none" => ask[c].path \in StreamPaths
  BY DEF VideoInv, StoresItsOwn
<1>n. NoFeed \in StreamRows
  BY DEF NoFeed, Uids, StreamRows
<1>m. \A uid \in Uids, u, o \in Viewers \cup {"nobody"}, s \in {"edited", "base", "unset"} :
         NewFeed(uid, u, o, s) \in StreamRows
  BY DEF NewFeed, StreamRows
<1>f. \A p \in StreamPaths : FreshId(p) \in Uids
  BY DEF Uids
<1>a. NoAsk \in AskRows
  BY DEF NoAsk, Uids, AskRows
<1>1. CASE UNCHANGED videoVars
  BY <1>1, <1>t DEF videoVars, VideoTypeOK
<1>2. ASSUME NEW c \in Callers, NEW u \in Viewers, NEW p \in StreamPaths, NEW uid \in Uids,
             NEW op \in {"update", "add", "vcm", "post", "cot", "delete", "unlist", "publish"},
             NEW at \in {"tell", "save", "register", "allow", "drop", "end"}, NEW new \in BOOLEAN,
             Opens(c, op, u, p, uid, at, new)
      PROVE VideoTypeOK'
  BY <1>2, <1>t DEF Opens, VideoTypeOK, StreamRows, AskRows, HookRows
<1>u. \A p \in StreamPaths : feed[p].uid \in Uids
  BY <1>t DEF VideoTypeOK, StreamRows, AskRows, HookRows
<1>3. ASSUME NEW c \in Callers, NEW u \in Viewers, NEW p \in StreamPaths,
             AskUpdate(c, u, p) \/ AskAdd(c, u, p) \/ AskDelete(c, u, p) \/ AskPublish(c, u, p)
      PROVE VideoTypeOK'
  BY <1>2, <1>3, <1>u, <1>f DEF AskUpdate, AskAdd, AskDelete, AskPublish
<1>4. ASSUME NEW c \in FeedEditors, NEW u \in Viewers, NEW p \in StreamPaths,
             NEW uid \in FeedIds \cup {feed[q].uid : q \in Feeds},
             AskFeed(c, u, p, uid) \/ AskPost(c, u, p, uid) \/ AskCot(c, u, p, uid)
      PROVE VideoTypeOK'
  <2>1. uid \in Uids /\ c \in Callers
    BY <1>u, VideoAssumption DEF Uids, Feeds
  <2> QED
    BY <1>2, <1>4, <2>1 DEF AskFeed, AskPost, AskCot
<1>5. ASSUME NEW c \in Callers,
             NEW at \in {"save", "register", "allow", "drop"}, AskGoes(c, at) \/ AskEnds(c)
      PROVE ask' \in [Callers -> AskRows]
  BY <1>5, <1>t, <1>a DEF AskGoes, AskEnds, VideoTypeOK, StreamRows, AskRows, HookRows
<1>6. ASSUME NEW c \in Callers, TellMediaMTX(c) \/ TellDeletion(c) \/ TellFails(c) \/ Register(c) \/ Allow(c)
      PROVE VideoTypeOK'
  <2>1. ask[c].at # "end" /\ ask[c].path \in StreamPaths /\ feed' = feed
    BY <1>6 DEF TellMediaMTX, TellDeletion, TellFails, Tells, Register, Allow, VideoInv, StoresItsOwn
  <2>2. ask' \in [Callers -> AskRows]
    BY <1>5, <1>6 DEF TellMediaMTX, TellDeletion, TellFails, Register, Allow
  <2>3. \A h \in hooks' : \/ h \in hooks
                           \/ \E e \in {"ready", "notready"} :
                                 h = [event |-> e, path |-> ask[c].path, at |-> "new"]
    BY <1>6 DEF TellMediaMTX, TellDeletion, TellFails, Register, Allow
  <2> QED
    BY <1>t, <2>1, <2>2, <2>3 DEF VideoTypeOK, HookRows
<1>7. ASSUME NEW c \in Callers, SaveNew(c) \/ SaveOld(c) \/ DropFeed(c) PROVE VideoTypeOK'
  <2>1. ask[c].at # "end" /\ ask[c].path \in StreamPaths /\ hooks' = hooks
    BY <1>7 DEF SaveNew, SaveOld, DropFeed, VideoInv, StoresItsOwn
  <2>2. ask' \in [Callers -> AskRows]
    BY <1>5, <1>7 DEF SaveNew, SaveOld, DropFeed
  <2>3. ask[c].uid \in Uids /\ ask[c].by \in Viewers \cup {"nobody"}
    BY <1>t DEF VideoTypeOK, StreamRows, AskRows, HookRows
  <2>4. CASE SaveNew(c)
    <3>1. Inserted(c) \in StreamRows
      BY <2>3, <1>m DEF Inserted
    <3> QED
      BY <1>t, <2>1, <2>2, <2>4, <3>1 DEF SaveNew, VideoTypeOK
  <2>5. CASE SaveOld(c)
    <3> DEFINE p == ask[c].path
    <3>1. \/ feed' = feed
          \/ feed' = [feed EXCEPT ![p] = [feed[p] EXCEPT !.settings = "edited"]]
          \/ feed' = [feed EXCEPT ![p] = [feed[p] EXCEPT !.uid = ask[c].uid]]
      BY <2>1, <2>5 DEF SaveOld
    <3>2. p \in StreamPaths
      BY <2>1
    <3> HIDE DEF p
    <3>3. feed[p] \in StreamRows
      BY <1>t, <3>2 DEF VideoTypeOK, StreamRows, AskRows, HookRows
    <3>4. [feed[p] EXCEPT !.settings = "edited"] \in StreamRows /\ [feed[p] EXCEPT !.uid = ask[c].uid] \in StreamRows
      BY <2>3, <3>3 DEF StreamRows
    <3>5. feed' \in [StreamPaths -> StreamRows]
      BY <1>t, <3>1, <3>2, <3>4 DEF VideoTypeOK
    <3> QED
      BY <1>t, <2>1, <2>2, <3>5 DEF VideoTypeOK
  <2>6. CASE DropFeed(c)
    BY <1>t, <1>n, <2>1, <2>2, <2>6 DEF DropFeed, VideoTypeOK
  <2> QED
    BY <1>7, <2>4, <2>5, <2>6
<1>8. ASSUME NEW p \in StreamPaths, EditGroups(p) \/ SourceStarts(p) \/ SourceStops(p) PROVE VideoTypeOK'
  <2>1. CASE EditGroups(p)
    BY <1>t, <2>1 DEF EditGroups, VideoTypeOK, StreamRows, AskRows, HookRows
  <2>2. CASE SourceStarts(p) \/ SourceStops(p)
    BY <1>t, <2>2 DEF SourceStarts, SourceStops, VideoTypeOK, StreamRows, AskRows, HookRows
  <2> QED
    BY <1>8, <2>1, <2>2
<1>9. CASE Restarts
  BY <1>t, <1>9 DEF Restarts, VideoTypeOK, StreamRows, AskRows, HookRows
<1>10. ASSUME NEW h \in hooks,
              HookMarks(h) \/ HookPatches(h) \/ HookCopies(h) \/ StartupAdds(h) \/ StartupLists(h)
       PROVE VideoTypeOK'
  <2>1. ask' = ask
    BY <1>10 DEF HookMarks, HookPatches, HookCopies, StartupAdds, StartupLists
  <2>2. \A g \in hooks' : g \in hooks \/ \E at \in {"patch", "copy", "list"} : g = [h EXCEPT !.at = at]
    BY <1>10 DEF HookMarks, HookPatches, HookCopies, StartupAdds, StartupLists, HookGoes, HookEnds
  <2>h. h \in HookRows
        /\ (h.event \in {"ready", "notready"} => h.path \in StreamPaths)
    BY <1>t DEF VideoTypeOK, StreamRows, AskRows, HookRows
  <2>3. /\ hooks' \subseteq HookRows
        /\ \A g \in hooks' : g.event \in {"ready", "notready"} => g.path \in StreamPaths
    <3> SUFFICES ASSUME NEW g \in hooks'
                 PROVE  /\ g \in HookRows
                        /\ g.event \in {"ready", "notready"} => g.path \in StreamPaths
      OBVIOUS
    <3>1. CASE g \in hooks
      BY <1>t, <3>1 DEF VideoTypeOK, StreamRows, AskRows, HookRows
    <3>2. ASSUME NEW at \in {"patch", "copy", "list"}, g = [h EXCEPT !.at = at]
          PROVE  /\ g \in HookRows
                 /\ g.event \in {"ready", "notready"} => g.path \in StreamPaths
      BY <2>h, <3>2 DEF HookRows
    <3> QED
      BY <2>2, <3>1, <3>2
  <2>4. feed' \in [StreamPaths -> StreamRows]
    <3>1. CASE HookMarks(h)
      <4>1. h.path \in StreamPaths /\ (h.event = "ready") \in BOOLEAN
        BY <2>h, <3>1 DEF HookMarks
      <4>2. NewFeed(FreshId(h.path), "nobody", "nobody", "base") \in StreamRows
        BY <1>m, <1>f, <4>1
      <4>3. [NewFeed(FreshId(h.path), "nobody", "nobody", "base") EXCEPT !.ready = (h.event = "ready")] \in StreamRows
        BY <4>1, <4>2 DEF StreamRows
      <4> QED
        BY <1>t, <3>1, <4>1, <4>3 DEF HookMarks, VideoTypeOK, StreamRows, AskRows, HookRows
    <3>2. CASE HookCopies(h)
      <4>1. feed' = feed \/ \E copy \in BOOLEAN : feed' = [feed EXCEPT ![h.path].copied = copy]
        BY <3>2 DEF HookCopies
      <4>2. ASSUME h.path \in StreamPaths, NEW copy \in BOOLEAN
            PROVE [feed EXCEPT ![h.path] = [feed[h.path] EXCEPT !.copied = copy]] \in [StreamPaths -> StreamRows]
        <5>1. feed[h.path] \in StreamRows
          BY <1>t, <4>2 DEF VideoTypeOK, StreamRows, AskRows, HookRows
        <5>2. [feed[h.path] EXCEPT !.copied = copy] \in StreamRows
          BY <4>2, <5>1 DEF StreamRows
        <5> QED
          BY <1>t, <4>2, <5>2 DEF VideoTypeOK
      <4> QED
        BY <1>t, <2>h, <3>2, <4>1, <4>2 DEF VideoTypeOK, StreamRows, AskRows, HookRows, HookCopies
    <3>3. CASE HookPatches(h) \/ StartupAdds(h)
      BY <1>t, <3>3 DEF HookPatches, StartupAdds, VideoTypeOK
    <3>4. CASE StartupLists(h)
      BY <1>t, <1>m, <1>f, <3>4 DEF StartupLists, VideoTypeOK
    <3> QED
      BY <1>10, <3>1, <3>2, <3>3, <3>4
  <2> QED
    BY <1>t, <2>1, <2>3, <2>4 DEF VideoTypeOK
<1> QED
  BY <1>1, <1>3, <1>4, <1>6, <1>7, <1>8, <1>9, <1>10 DEF VideoNext

(* While requests that carry a uid are served one at a time, no two feeds have one uid,
   whatever requests, webhooks and authorization calls run besides. *)
THEOREM UidsAreUnique ==
    ASSUME \A c, d \in FeedEditors : c = d PROVE VideoSpec => []UidNamesOneFeed
<1>1. VideoInit => VideoInv
  BY DEF VideoInit, VideoInv, VideoTypeOK, StreamRows, AskRows, HookRows, Uids, NoFeed, NoAsk, StoresItsOwn, Feeds, UidNamesOneFeed
<1>2. VideoInv /\ [VideoNext]_videoVars => VideoInv'
  <2> SUFFICES ASSUME VideoInv, [VideoNext]_videoVars PROVE VideoInv'
    OBVIOUS
  <2>t. VideoTypeOK' /\ VideoTypeOK
    BY VideoTypeStep DEF VideoInv
  <2>m. \A p \in Feeds : MadeForIt(feed[p].uid, p)
    BY DEF VideoInv
  <2>f. \A p \in StreamPaths : MadeForIt(FreshId(p), p)
    BY FreshIdsDiffer DEF MadeForIt
  <2>1. CASE UNCHANGED videoVars
    BY <2>t, <2>1, FeedsKeepTheirUids DEF videoVars, KeepsOrMakesUids, EndsOrGoesOn, Feeds
  <2>2. ASSUME NEW c \in Callers, NEW u \in Viewers, NEW p \in StreamPaths,
               AskUpdate(c, u, p) \/ AskAdd(c, u, p) \/ AskDelete(c, u, p) \/ AskPublish(c, u, p)
        PROVE VideoInv'
    <3>1. CASE AskUpdate(c, u, p)
      BY <2>t, <2>m, <3>1, OpenedWithItsOwn DEF AskUpdate
    <3>2. CASE AskAdd(c, u, p)
      BY <2>t, <2>f, <3>2, OpenedWithItsOwn DEF AskAdd
    <3>3. CASE AskDelete(c, u, p)
      <4>1. MadeForIt(feed[p].uid, p)
        BY <2>m, <3>3 DEF AskDelete
      <4>2. ASSUME NEW op \in {"delete", "unlist"}, Opens(c, op, u, p, feed[p].uid, "tell", FALSE)
            PROVE VideoInv'
        <5>1. /\ op \notin {"add", "publish"} /\ op # "update" /\ op # "none"
              /\ op \notin {"vcm", "post", "cot"} /\ "tell" # "save"
          BY <4>2
        <5> QED
          BY <2>t, <4>1, <4>2, <5>1, OpenedWithItsOwn
      <4> QED
        BY <3>3, <4>2 DEF AskDelete
    <3>4. CASE AskPublish(c, u, p)
      BY <2>t, <2>f, <3>4, OpenedWithItsOwn DEF AskPublish
    <3> QED
      BY <2>2, <3>1, <3>2, <3>3, <3>4
  <2>3. ASSUME NEW c \in FeedEditors, NEW u \in Viewers, NEW p \in StreamPaths,
               NEW uid \in FeedIds \cup {feed[q].uid : q \in Feeds},
               AskFeed(c, u, p, uid) \/ AskPost(c, u, p, uid) \/ AskCot(c, u, p, uid)
        PROVE VideoInv'
    <3>1. c \in Callers /\ \A q \in Feeds : feed[q].uid = uid => q = p
      BY <2>3, VideoAssumption DEF AskFeed, AskPost, AskCot, HasUid
    <3>2. MadeForIt(uid, p)
      BY <2>m, <3>1, VideoAssumption DEF MadeForIt, FreshId
    <3>3. \E op \in {"vcm", "post", "cot"}, new \in BOOLEAN : Opens(c, op, u, p, uid, "save", new)
      BY <2>3 DEF AskFeed, AskPost, AskCot
    <3> QED
      BY <2>t, <3>1, <3>2, <3>3, <2>3, OpenedWithItsOwn
  <2>4. ASSUME NEW c \in Callers,
               \/ TellMediaMTX(c) \/ TellDeletion(c) \/ TellFails(c)
               \/ Register(c) \/ Allow(c) \/ DropFeed(c)
        PROVE VideoInv'
    <3>1. ask[c].op # "none" /\ ask[c].path \in StreamPaths
      BY <2>4 DEF TellMediaMTX, TellDeletion, TellFails, Tells, Register, Allow, DropFeed, VideoInv,
         StoresItsOwn
    <3>2. \/ AskEnds(c)
          \/ AskGoes(c, "save") /\ ask[c].op \in {"add", "update"}
          \/ \E at \in {"allow", "drop"} : AskGoes(c, at)
      BY <2>4 DEF TellMediaMTX, TellDeletion, TellFails, Tells, Register, Allow, DropFeed
    <3>3. \A d \in Callers : EndsOrGoesOn(d)
      BY <3>1, <3>2, <2>t DEF AskEnds, AskGoes, EndsOrGoesOn, VideoTypeOK, StreamRows, AskRows, HookRows
    <3>4. feed' = feed \/ feed' = [feed EXCEPT ![ask[c].path] = NoFeed]
      BY <2>4 DEF TellMediaMTX, TellDeletion, TellFails, Register, Allow, DropFeed
    <3>5. KeepsOrMakesUids
      BY <3>1, <3>4, <2>t DEF KeepsOrMakesUids, Feeds, VideoTypeOK, StreamRows, AskRows, HookRows
    <3> QED
      BY <2>t, <3>3, <3>5, FeedsKeepTheirUids
  <2>5. ASSUME NEW c \in Callers, SaveNew(c) \/ SaveOld(c) PROVE VideoInv'
    BY <2>t, <2>5, StoredKeepsUids
  <2>6. ASSUME ask' = ask, KeepsOrMakesUids PROVE VideoInv'
    BY <2>t, <2>6, FeedsKeepTheirUids DEF EndsOrGoesOn
  <2>7. ASSUME NEW p \in StreamPaths, EditGroups(p) \/ SourceStarts(p) \/ SourceStops(p) PROVE VideoInv'
    <3>1. /\ ask' = ask
          /\ \/ feed' = feed
             \/ p \in Feeds /\ (\E g \in BOOLEAN : feed' = [feed EXCEPT ![p].grouped = g])
      <4>1. CASE EditGroups(p)
        BY <4>1 DEF EditGroups
      <4>2. CASE SourceStarts(p) \/ SourceStops(p)
        BY <4>2 DEF SourceStarts, SourceStops
      <4> QED
        BY <2>7, <4>1, <4>2
    <3>2. KeepsOrMakesUids
      BY <3>1, <2>t DEF KeepsOrMakesUids, Feeds, VideoTypeOK, StreamRows, AskRows, HookRows
    <3> QED
      BY <2>6, <3>1, <3>2
  <2>8. CASE Restarts
    BY <2>6, <2>8 DEF Restarts, KeepsOrMakesUids, Feeds
  <2>9. ASSUME NEW h \in hooks,
               HookMarks(h) \/ HookPatches(h) \/ HookCopies(h) \/ StartupAdds(h) \/ StartupLists(h)
        PROVE VideoInv'
    <3>1. ask' = ask
      BY <2>9 DEF HookMarks, HookPatches, HookCopies, StartupAdds, StartupLists
    <3>2. CASE HookMarks(h) /\ h.path \in Feeds
      <4>1. feed' = [feed EXCEPT ![h.path].ready = (h.event = "ready")]
        BY <3>2 DEF HookMarks
      <4> QED
        BY <2>6, <3>1, <3>2, <4>1, <2>t DEF KeepsOrMakesUids, Feeds, VideoTypeOK, StreamRows, AskRows, HookRows
    <3>3. CASE HookMarks(h) /\ h.path \notin Feeds
      <4>1. feed' = [feed EXCEPT ![h.path] = [NewFeed(FreshId(h.path), "nobody", "nobody", "base")
                                                EXCEPT !.ready = (h.event = "ready")]]
        BY <3>3 DEF HookMarks
      <4> QED
        BY <2>6, <3>1, <4>1, <2>t DEF KeepsOrMakesUids, Feeds, VideoTypeOK, StreamRows, AskRows, HookRows, NewFeed
    <3>4. CASE HookCopies(h)
      <4>1. feed' = feed \/ (h.path \in Feeds /\ \E copy \in BOOLEAN : feed' = [feed EXCEPT ![h.path].copied = copy])
        BY <3>4 DEF HookCopies
      <4> QED
        <5>1. CASE feed' = feed
          BY <2>6, <3>1, <5>1 DEF KeepsOrMakesUids, Feeds
        <5>2. ASSUME h.path \in Feeds, NEW copy \in BOOLEAN, feed' = [feed EXCEPT ![h.path].copied = copy]
              PROVE VideoInv'
          BY <2>6, <3>1, <5>2, <2>t DEF KeepsOrMakesUids, Feeds, VideoTypeOK, StreamRows, AskRows, HookRows
        <5> QED
          BY <4>1, <5>1, <5>2
    <3>5. CASE HookPatches(h) \/ StartupAdds(h)
      BY <2>6, <3>1, <3>5 DEF HookPatches, StartupAdds, KeepsOrMakesUids, Feeds
    <3>6. CASE StartupLists(h)
      BY <2>6, <3>1, <3>6 DEF StartupLists, KeepsOrMakesUids, Feeds, NewFeed
    <3> QED
      BY <2>9, <3>2, <3>3, <3>4, <3>5, <3>6
  <2> QED
    BY <2>1, <2>2, <2>3, <2>4, <2>5, <2>7, <2>8, <2>9 DEF VideoNext
<1>3. VideoInv => UidNamesOneFeed
  BY DEF VideoInv
<1> QED
  BY <1>1, <1>2, <1>3, PTL DEF VideoSpec
-----------------------------------------------------------------------------
(* The purge of records. *)

CotRows == [id : Nat, time : Int, got : Nat]
PointRows == [id : Nat, cot : Nat, time : Int, got : Nat]
RecordKinds == Kinds \ {"cancel"}
RecordRows == [kind : RecordKinds, uid : Nat, id : Nat, cot : Nat, point : Nat,
               time : Int, last : Int, got : Nat, open : BOOLEAN]
RecordsTypeOK ==
    /\ clock \in Nat /\ serial \in Nat /\ late \in BOOLEAN
    /\ script \in Seq([kind : Kinds, fix : BOOLEAN])
    /\ parser \in [step : {"idle", "cot", "point", "stored"}, time : Int, cot : Nat, point : Nat]
    /\ cots \subseteq CotRows /\ points \subseteq PointRows /\ rows \subseteq RecordRows
    /\ job \in [table : 0..8, start : Nat, boundary : Int, ids : SUBSET Nat]

\* A time that is not broken is at most Lag before the row was stored ...
InTime(time, got) == ~ late => time = Broken \/ time >= got - Lag
StoredInTime(S) == \A r \in S : r.id \in 1..serial /\ r.got <= clock /\ InTime(r.time, r.got)
\* ... and rows were stored in the order of their ids (ids that are equal are one row's).
InOrder(S) == \A r, s \in S : r.id <= s.id => r.got <= s.got
RowsInOrder ==
    /\ StoredInTime(cots) /\ StoredInTime(points) /\ StoredInTime(rows)
    /\ InOrder(cots) /\ InOrder(points) /\ \A k \in RecordKinds : InOrder(Of(k))

\* What refers to a CoT was stored no later in its tick than the CoT.
Links ==
    /\ \A p \in points, c \in cots : p.cot = c.id => p.got <= c.got
    /\ \A r \in rows, c \in cots : r.cot = c.id => r.got <= c.got

\* The rows the parser has just made are of this tick. A chat has its CoT's id and is
\* the last of the chats.
Unrecorded == parser.step \in {"cot", "point"}
JustStored ==
    /\ parser.step # "idle" =>
          /\ script # <<>>
          /\ parser.cot \in 1..serial
          /\ \A c \in cots : c.id = parser.cot => c.got = clock
          /\ \A p \in points : p.id = parser.point => p.cot = parser.cot
          /\ \A p \in points : p.id = parser.point => p.got = clock
          /\ InTime(parser.time, clock)
    /\ Unrecorded => \A r \in Of("chat") : r.id < parser.cot
    /\ parser.step \in {"idle", "cot"} => parser.point = None

\* Kept for so long before the run that nothing timely about it is fresh.
Overdue(r, t) == job.start - r.got > KeepOf[TypeOf(t)] - Lag

\* Up to the boundary of the table at work everything is overdue.
BoundaryInv ==
    ~ late /\ job.table \in 1..7 /\ job.boundary # Unset =>
       LET t == Tables[job.table] IN
       /\ \A r \in AgedBy(t) : r.id < job.boundary => Overdue(r, t)
       /\ job.boundary \in 0..serial
       /\ t = "chat" /\ Unrecorded => job.boundary < parser.cot

\* What a batch lists is overdue, and so is what goes with it; nothing that is kept,
\* or being made, is built on it.
BatchOfPoints ==
    /\ \A p \in points : p.id \in job.ids => Overdue(p, "points")
    /\ \A r \in rows : r.point \notin job.ids
    /\ parser.step # "idle" => parser.point \notin job.ids
BatchOfCots ==
    /\ \A c \in cots : c.id \in job.ids => Overdue(c, "cots")
    /\ \A p \in points : p.cot \in job.ids => Overdue(p, "cots") /\ \A r \in rows : r.point # p.id
    /\ \A r \in rows : r.cot \notin job.ids
    /\ parser.step # "idle" => parser.cot \notin job.ids
BatchOfRecords(t) ==
    /\ \A r \in Of(t) : r.id \in job.ids => Overdue(r, t)
    /\ t = "chat" /\ Unrecorded => \A n \in job.ids : n < parser.cot
BatchOf(t) ==
    /\ t = "points" => BatchOfPoints
    /\ t = "cots" => BatchOfCots
    /\ t \notin {"points", "cots"} => BatchOfRecords(t)
BatchInv ==
    ~ late /\ job.ids # {} =>
       /\ KeepOf[TypeOf(Tables[job.table])] # 0
       /\ job.ids \subseteq 1..serial
       /\ BatchOf(Tables[job.table])

JobInv ==
    /\ job.start <= clock /\ (job.ids # {} => job.table \in 1..7)
    /\ BoundaryInv /\ BatchInv

RecordsInv == RecordsTypeOK /\ RowsInOrder /\ Links /\ JustStored /\ JobInv

\* Messages are parsed before CoTs of their age are purged.
ParsedInTime == KeepOf["cot"] # 0 => Lag <= KeepOf["cot"]

LEMMA RecordsStart == RecordsInit => RecordsInv
<1> SUFFICES ASSUME RecordsInit PROVE RecordsInv
  OBVIOUS
<1>1. RecordsTypeOK
  <2>1. script \in Seq([kind : Kinds, fix : BOOLEAN])
    BY RecordsAssumption DEF RecordsInit
  <2>2. /\ parser \in [step : {"idle", "cot", "point", "stored"}, time : Int, cot : Nat, point : Nat]
        /\ job \in [table : 0..8, start : Nat, boundary : Int, ids : SUBSET Nat]
    BY DEF RecordsInit, Idle, Resting, Broken, None, Unset
  <2> QED
    BY <2>1, <2>2 DEF RecordsInit, RecordsTypeOK
<1>2. RowsInOrder /\ Links
  BY DEF RecordsInit, RowsInOrder, StoredInTime, InOrder, Of, Links
<1>3. JustStored
  BY DEF RecordsInit, JustStored, Idle, Unrecorded
<1>4. JobInv
  BY DEF RecordsInit, JobInv, Resting, BoundaryInv, BatchInv
<1> QED
  BY <1>1, <1>2, <1>3, <1>4 DEF RecordsInv

(* A set of numbers up to n that is not empty has a greatest. *)
LEMMA BoundedHasMax ==
    ASSUME NEW n \in Nat, NEW S, S \subseteq 0..n, S # {}
    PROVE  Max(S) \in S /\ \A y \in S : Max(S) >= y
<1> DEFINE T == {k \in 0..n : n - k \in S}
<1>1. T \subseteq Nat /\ T # {}
  <2>1. PICK s \in S : s \in 0..n
    OBVIOUS
  <2>2. n - s \in 0..n /\ n - (n - s) = s
    BY <2>1
  <2> QED
    BY <2>1, <2>2
<1>2. IsWellFoundedOn(OpToRel(<, Nat), Nat)
  BY NatLessThanWellFounded
<1>3. \E x \in T : \A y \in T : ~ (<<y, x>> \in OpToRel(<, Nat))
  <2> HIDE DEF T
  <2> QED
    BY <1>1, <1>2, WFMin
<1>4. PICK x \in T : \A y \in T : ~ (y < x)
  BY <1>1, <1>3 DEF OpToRel
<1>5. n - x \in S /\ x \in 0..n
  OBVIOUS
<1>6. ASSUME NEW y \in S PROVE n - x >= y
  <2>1. y \in 0..n /\ n - y \in 0..n /\ n - (n - y) = y
    OBVIOUS
  <2>2. n - y \in T
    BY <2>1
  <2>3. ~ (n - y < x)
    BY <1>4, <2>2
  <2> QED
    BY <1>5, <2>1, <2>3
<1> QED
  BY <1>5, <1>6 DEF Max

(* The rows that decide over a table, and the boundary among them. *)
LEMMA AgedRowsInOrder ==
    ASSUME RecordsInv, NEW i \in 1..7
    PROVE  LET S == AgedBy(Tables[i]) IN
           /\ \A r \in S : r.id \in 1..serial /\ r.got \in Nat /\ r.time \in Int /\ InTime(r.time, r.got)
           /\ \A r, s \in S : r.id <= s.id => r.got <= s.got
<1> DEFINE t == Tables[i]
           S == AgedBy(t)
<1>t. RecordsTypeOK /\ RowsInOrder
  BY DEF RecordsInv
<1>1. CASE t = "points"
  BY <1>t, <1>1 DEF AgedBy, RecordsTypeOK, RowsInOrder, StoredInTime, InOrder, PointRows
<1>2. CASE t \in {"cots", "marker"}
  BY <1>t, <1>2 DEF AgedBy, RecordsTypeOK, RowsInOrder, StoredInTime, InOrder, CotRows
<1>3. CASE t \in RecordKinds \ {"marker"}
  <2>1. S = Of(t)
    BY <1>3 DEF AgedBy, RecordKinds, Kinds
  <2> QED
    BY <1>t, <1>3, <2>1 DEF Of, RecordsTypeOK, RowsInOrder, StoredInTime, InOrder, RecordRows
<1> QED
  BY <1>1, <1>2, <1>3 DEF Tables, RecordKinds, Kinds

LEMMA BoundaryIsOfARow ==
    ASSUME RecordsInv, NEW i \in 1..7
    PROVE  LET S == AgedBy(Tables[i]) IN
           /\ BoundaryOf(i) \in Int
           /\ ~ (i = job.table /\ job.boundary # Unset) =>
                 /\ BoundaryOf(i) \in 0..serial
                 /\ \/ BoundaryOf(i) = 0
                    \/ \E s \in S : s \in PlausibleOld(S, CutoffOf(i)) /\ s.id = BoundaryOf(i)
<1> DEFINE S == AgedBy(Tables[i])
           old == {0} \cup Ids(PlausibleOld(S, CutoffOf(i)))
<1>1. job.boundary \in Int /\ serial \in Nat
  BY DEF RecordsInv, RecordsTypeOK
<1>2. CASE i = job.table /\ job.boundary # Unset
  BY <1>1, <1>2 DEF BoundaryOf
<1>3. CASE ~ (i = job.table /\ job.boundary # Unset)
  <2>1. BoundaryOf(i) = Max(old)
    BY <1>3 DEF BoundaryOf, Boundary
  <2>2. old \subseteq 0..serial /\ old # {}
    BY <1>1, AgedRowsInOrder DEF Ids, PlausibleOld
  <2>3. BoundaryOf(i) \in old
    BY <1>1, <2>1, <2>2, BoundedHasMax
  <2>4. BoundaryOf(i) = 0 \/ \E s \in S : s \in PlausibleOld(S, CutoffOf(i)) /\ s.id = BoundaryOf(i)
    BY <2>3 DEF Ids, PlausibleOld
  <2> QED
    BY <1>1, <2>2, <2>3, <2>4
<1> QED
  BY <1>2, <1>3

(* What _aged finds in a table was stored longer before the run than its type is kept,
   whether it goes by its time or by its place among rows that do. *)
LEMMA AgedIsOverdue ==
    ASSUME RecordsInv, ~ late, NEW i \in 1..7
    PROVE  LET t == Tables[i]
               b == BoundaryOf(i)
           IN  /\ b \in 0..serial
               /\ t = "chat" /\ Unrecorded => b < parser.cot
               /\ \A r \in AgedBy(t) : r.id < b => Start - r.got > KeepOf[TypeOf(t)] - Lag
               /\ \A r \in Aged(AgedBy(t), CutoffOf(i), b) :
                     r \in AgedBy(t) /\ Start - r.got > KeepOf[TypeOf(t)] - Lag
<1> DEFINE t == Tables[i]
           b == BoundaryOf(i)
           S == AgedBy(t)
           keep == KeepOf[TypeOf(t)]
<1>1. /\ RecordsTypeOK /\ RowsInOrder /\ JustStored /\ BoundaryInv /\ Start \in Nat
      /\ Lag \in Nat /\ keep \in Nat /\ CutoffOf(i) = Start - keep
  <2>1. RecordsTypeOK /\ RowsInOrder /\ JustStored /\ BoundaryInv
    BY DEF RecordsInv, JobInv
  <2>2. Start \in Nat
    BY <2>1 DEF Start, RecordsTypeOK
  <2>3. TypeOf(t) \in Types
    BY DEF TypeOf, Tables, Types
  <2> QED
    BY <2>1, <2>2, <2>3, RecordsAssumption DEF CutoffOf
<1>2. /\ \A r \in S : r.id \in 1..serial /\ r.got \in Nat /\ r.time \in Int /\ InTime(r.time, r.got)
      /\ \A r, s \in S : r.id <= s.id => r.got <= s.got
  BY AgedRowsInOrder
<1>3. ASSUME NEW r \in S, r \in PlausibleOld(S, CutoffOf(i)) PROVE Start - r.got > keep - Lag
  BY <1>1, <1>2, <1>3 DEF PlausibleOld, InTime
<1>4. /\ b \in 0..serial
      /\ t = "chat" /\ Unrecorded => b < parser.cot
      /\ \A r \in S : r.id < b => Start - r.got > keep - Lag
  <2>1. CASE i = job.table /\ job.boundary # Unset
    <3>1. b = job.boundary /\ Start = job.start /\ job.table \in 1..7 /\ t = Tables[job.table]
      BY <2>1 DEF BoundaryOf, Start
    <3> QED
      BY <1>1, <2>1, <3>1 DEF BoundaryInv, Overdue
  <2>2. CASE ~ (i = job.table /\ job.boundary # Unset)
    <3>1. /\ b \in 0..serial
          /\ b = 0 \/ \E s \in S : s \in PlausibleOld(S, CutoffOf(i)) /\ s.id = b
      BY <2>2, BoundaryIsOfARow
    <3>2. ASSUME NEW r \in S, r.id < b PROVE Start - r.got > keep - Lag
      <4>1. PICK s \in S : s \in PlausibleOld(S, CutoffOf(i)) /\ s.id = b
        BY <1>2, <3>1, <3>2
      <4>2. r.got <= s.got /\ Start - s.got > keep - Lag
        BY <1>2, <1>3, <3>2, <4>1
      <4> QED
        BY <1>1, <1>2, <4>1, <4>2
    <3>3. ASSUME t = "chat", Unrecorded PROVE b < parser.cot
      <4>1. S = Of("chat")
        BY <3>3 DEF AgedBy
      <4>2. parser.cot \in 1..serial /\ \A r \in S : r.id < parser.cot
        BY <1>1, <3>3, <4>1 DEF JustStored, Unrecorded
      <4> QED
        BY <1>1, <3>1, <4>2 DEF RecordsTypeOK
    <3> QED
      BY <3>1, <3>2, <3>3
  <2> QED
    BY <2>1, <2>2
<1>5. \A r \in Aged(S, CutoffOf(i), b) : r \in S /\ Start - r.got > keep - Lag
  BY <1>3, <1>4 DEF Aged, PlausibleOld
<1> QED
  BY <1>4, <1>5

(* A batch as it is read. *)
LEMMA SelectKeepsRecordsInv ==
    ASSUME RecordsInv, ParsedInTime, SelectBatch PROVE RecordsInv'
<1>0. PICK i \in Max({job.table, 1})..Len(Tables) :
         /\ Selected(i) # {}
         /\ \E batch \in SUBSET Selected(i) :
               job' = [table |-> i, start |-> Start, boundary |-> BoundaryOf(i), ids |-> batch]
  BY DEF SelectBatch, kSubset
<1>1. PICK batch \in SUBSET Selected(i) :
         job' = [table |-> i, start |-> Start, boundary |-> BoundaryOf(i), ids |-> batch]
  BY <1>0
<1>2. /\ RecordsTypeOK /\ RowsInOrder /\ Links /\ JustStored /\ job.start <= clock
      /\ UNCHANGED <<clock, script, parser, serial, crashes, late, cots, points, rows>>
  BY DEF RecordsInv, JobInv, SelectBatch, RecordsUnchanged, storeVars
<1>3. i \in 1..7
  <2>1. {job.table, 1} \subseteq 0..8 /\ 1 \in {job.table, 1}
    BY <1>2 DEF RecordsTypeOK
  <2>2. Max({job.table, 1}) \in 0..8 /\ Max({job.table, 1}) >= 1
    BY <2>1, BoundedHasMax
  <2> QED
    BY <2>2 DEF Tables
<1> DEFINE t == Tables[i]
           S == AgedBy(t)
           b == BoundaryOf(i)
           keep == KeepOf[TypeOf(t)]
           old == Aged(S, CutoffOf(i), b)
<1>4. /\ batch \subseteq Selected(i) /\ keep # 0
      /\ t = "points" => batch \subseteq Ids(old) \ KeptPoints
      /\ t = "cots" => batch \subseteq Ids(old) \ KeptCots
      /\ t = "marker" => batch \subseteq Ids({r \in Of("marker") : r.cot \in Ids(old)})
      /\ t \notin {"points", "cots", "marker"} => batch \subseteq Ids(old)
  <2>1. keep # 0
    BY <1>0 DEF Selected
  <2>2. /\ t = "points" => Selected(i) = Ids(old) \ KeptPoints
        /\ t = "cots" => Selected(i) = Ids(old) \ KeptCots
    BY <2>1 DEF Selected
  <2>3. t = "marker" => Selected(i) = Ids({r \in Of("marker") : r.cot \in Ids(old)})
    BY <2>1 DEF Selected
  <2>4. t \notin {"points", "cots", "marker"} => Selected(i) = Ids(old)
    BY <2>1 DEF Selected
  <2> QED
    BY <2>1, <2>2, <2>3, <2>4
<1>5. /\ Start \in Nat /\ Start <= clock /\ clock \in Nat /\ keep \in Nat /\ Lag \in Nat
      /\ b \in Int /\ keep = KeepOf[TypeOf(Tables[i])]
  <2>1. TypeOf(t) \in Types
    BY <1>3 DEF TypeOf, Tables, Types
  <2>2. b \in Int
    BY <1>3, BoundaryIsOfARow
  <2> QED
    BY <1>2, <2>1, <2>2, RecordsAssumption DEF Start, RecordsTypeOK
<1>6. batch \subseteq 1..serial
  <2>1. \A r \in S : r.id \in 1..serial
    BY <1>3, AgedRowsInOrder
  <2>2. \A r \in rows : r.id \in 1..serial
    BY <1>2 DEF RowsInOrder, StoredInTime
  <2> QED
    BY <1>4, <2>1, <2>2 DEF Ids, Aged, PlausibleOld, Of
<1>7. RecordsTypeOK'
  BY <1>1, <1>2, <1>3, <1>5, <1>6 DEF RecordsTypeOK
<1>8. RowsInOrder' /\ Links' /\ JustStored'
  BY <1>2 DEF RowsInOrder, StoredInTime, InOrder, InTime, Of, Links, JustStored, Unrecorded
<1>9. ASSUME ~ late PROVE BoundaryInv' /\ BatchInv'
  <2>1. /\ b \in 0..serial
        /\ t = "chat" /\ Unrecorded => b < parser.cot
        /\ \A r \in S : r.id < b => Start - r.got > keep - Lag
        /\ \A r \in old : r \in S /\ Start - r.got > keep - Lag
    BY <1>3, <1>9, AgedIsOverdue
  <2>2. /\ job'.table = i /\ job'.start = Start /\ job'.boundary = b /\ job'.ids = batch
        /\ S' = S /\ Unrecorded' = Unrecorded /\ parser' = parser /\ serial' = serial
    BY <1>1, <1>2 DEF AgedBy, Of, Unrecorded
  <2>3. BoundaryInv'
    BY <2>1, <2>2 DEF BoundaryInv, Overdue
  <2>4. TypeOf(t) = "cot" => keep >= Lag
    BY <1>4, <1>5 DEF ParsedInTime
  <2>5. ASSUME BatchOf(t)' PROVE BoundaryInv' /\ BatchInv'
    BY <2>3, <1>2, <1>3, <1>4, <1>6, <2>2, <2>5 DEF BatchInv
  <2>6. CASE t = "points"
    <3>1. S = points /\ TypeOf(t) = "cot"
      BY <2>6 DEF AgedBy, TypeOf
    <3>2. ASSUME NEW n \in batch
          PROVE  \E q \in points : q.id = n /\ Start - q.got > keep - Lag
      BY <1>4, <2>1, <2>6, <3>1, <3>2 DEF Ids
    <3>3. ASSUME NEW p \in points, p.id \in batch PROVE Start - p.got > keep - Lag
      <4>1. PICK q \in points : q.id = p.id /\ Start - q.got > keep - Lag
        BY <3>2, <3>3
      <4>2. p.got <= q.got /\ p.got \in Nat /\ q.got \in Nat
        BY <1>2, <4>1 DEF RowsInOrder, InOrder, RecordsTypeOK, PointRows
      <4> QED
        BY <1>5, <4>1, <4>2
    <3>4. ASSUME parser.step # "idle" PROVE parser.point \notin batch
      BY <1>2, <1>5, <2>4, <3>1, <3>2, <3>4 DEF JustStored
    <3>5. \A r \in rows : r.point \notin batch
      BY <1>4, <2>6 DEF KeptPoints
    <3> QED
      <4>1. BatchOfPoints'
        BY <1>2, <2>2, <2>6, <3>3, <3>4, <3>5 DEF BatchOfPoints, Overdue
      <4> QED
        BY <2>5, <2>6, <4>1 DEF BatchOf
  <2>7. CASE t = "cots"
    <3>1. S = cots /\ TypeOf(t) = "cot"
      BY <2>7 DEF AgedBy, TypeOf
    <3>2. ASSUME NEW n \in batch
          PROVE  \E q \in cots : q.id = n /\ Start - q.got > keep - Lag
      BY <1>4, <2>1, <2>7, <3>1, <3>2 DEF Ids
    <3>3. ASSUME NEW c \in cots, c.id \in batch PROVE Start - c.got > keep - Lag
      <4>1. PICK q \in cots : q.id = c.id /\ Start - q.got > keep - Lag
        BY <3>2, <3>3
      <4>2. c.got <= q.got /\ c.got \in Nat /\ q.got \in Nat
        BY <1>2, <4>1 DEF RowsInOrder, InOrder, RecordsTypeOK, CotRows
      <4> QED
        BY <1>5, <4>1, <4>2
    <3>4. ASSUME NEW p \in points, p.cot \in batch
          PROVE  Start - p.got > keep - Lag /\ \A r \in rows : r.point # p.id
      <4>1. PICK q \in cots : q.id = p.cot /\ Start - q.got > keep - Lag
        BY <3>2, <3>4
      <4>2. p.got <= q.got /\ p.got \in Nat /\ q.got \in Nat
        BY <1>2, <4>1 DEF Links, RecordsTypeOK, PointRows, CotRows
      <4>3. p.id \notin KeptPoints
        BY <1>4, <2>7, <3>4 DEF KeptCots
      <4>4. \A r \in rows : r.point # p.id
        BY <4>3 DEF KeptPoints
      <4>5. Start - p.got > keep - Lag
        BY <1>5, <4>1, <4>2
      <4> QED
        BY <4>4, <4>5
    <3>5. ASSUME parser.step # "idle" PROVE parser.cot \notin batch
      BY <1>2, <1>5, <2>4, <3>1, <3>2, <3>5 DEF JustStored
    <3>6. \A r \in rows : r.cot \notin batch
      BY <1>4, <2>7 DEF KeptCots
    <3> QED
      <4>1. BatchOfCots'
        BY <1>2, <2>2, <2>7, <3>3, <3>4, <3>5, <3>6 DEF BatchOfCots, Overdue
      <4> QED
        BY <2>5, <2>7, <4>1 DEF BatchOf
  <2>8. ASSUME t \notin {"points", "cots"}, \A r \in Of(t) : r.id \in batch => Start - r.got > keep - Lag,
               t = "chat" /\ Unrecorded => \A n \in batch : n < parser.cot
        PROVE BoundaryInv' /\ BatchInv'
    <3>1. BatchOfRecords(t)'
      BY <1>2, <2>2, <2>8 DEF BatchOfRecords, Overdue, Of
    <3> QED
      BY <2>5, <2>8, <3>1 DEF BatchOf
  <2>9. CASE t = "marker"
    <3>1. S = cots
      BY <2>9 DEF AgedBy
    <3>2. ASSUME NEW r \in Of("marker"), r.id \in batch PROVE Start - r.got > keep - Lag
      <4>1. PICK m \in Of("marker") : m.id = r.id /\ m.cot \in Ids(old)
        BY <1>4, <2>9, <3>2 DEF Ids
      <4>2. PICK q \in cots : q.id = m.cot /\ Start - q.got > keep - Lag
        BY <2>1, <3>1, <4>1 DEF Ids
      <4>3. r.got <= m.got /\ m.got <= q.got /\ r.got \in Nat /\ m.got \in Nat /\ q.got \in Nat
        <5>1. r \in rows /\ m \in rows /\ r.id \in Nat /\ m.id \in Nat
          BY <1>2 DEF RecordsTypeOK, RecordRows, Of
        <5>2. InOrder(Of("marker"))
          BY <1>2 DEF RowsInOrder, RecordKinds, Kinds
        <5>3. r.got <= m.got
          BY <4>1, <5>1, <5>2, <1>2 DEF InOrder
        <5>4. m.got <= q.got
          BY <1>2, <4>1, <4>2, <5>1 DEF Links
        <5> QED
          BY <1>2, <4>2, <5>1, <5>3, <5>4 DEF RecordsTypeOK, RecordRows, CotRows
      <4> QED
        BY <1>5, <4>2, <4>3
    <3> QED
      BY <2>8, <2>9, <3>2
  <2>10. CASE t \notin {"points", "cots", "marker"}
    <3>1. S = Of(t) /\ t \in RecordKinds /\ batch \subseteq Ids(old)
      BY <1>3, <1>4, <2>10 DEF AgedBy, Tables, RecordKinds, Kinds
    <3>2. ASSUME NEW n \in batch
          PROVE  \E q \in Of(t) : q.id = n /\ Start - q.got > keep - Lag
      BY <2>1, <3>1, <3>2 DEF Ids
    <3>3. ASSUME NEW r \in Of(t), r.id \in batch PROVE Start - r.got > keep - Lag
      <4>1. PICK q \in Of(t) : q.id = r.id /\ Start - q.got > keep - Lag
        BY <3>2, <3>3
      <4>2. r.got <= q.got /\ r.got \in Nat /\ q.got \in Nat
        <5>1. r \in rows /\ q \in rows /\ r.id \in Nat /\ q.id \in Nat
          BY <1>2 DEF RecordsTypeOK, RecordRows, Of
        <5>2. InOrder(Of(t))
          BY <1>2, <3>1 DEF RowsInOrder
        <5>3. r.got <= q.got
          BY <4>1, <5>1, <5>2 DEF InOrder
        <5> QED
          BY <1>2, <5>1, <5>3 DEF RecordsTypeOK, RecordRows
      <4> QED
        BY <1>5, <4>1, <4>2
    <3>4. ASSUME t = "chat", Unrecorded, NEW n \in batch PROVE n < parser.cot
      BY <1>2, <3>2, <3>4 DEF JustStored
    <3> QED
      BY <2>8, <2>10, <3>3, <3>4
  <2> QED
    BY <2>6, <2>7, <2>9, <2>10
<1>10. BoundaryInv' /\ BatchInv' /\ job'.start <= clock' /\ job'.table \in 1..7
  <2>1. late' = late /\ job'.start = Start /\ clock' = clock /\ job'.table \in 1..7
    BY <1>1, <1>2, <1>3
  <2> QED
    BY <1>5, <1>9, <2>1 DEF BoundaryInv, BatchInv
<1> QED
  BY <1>7, <1>8, <1>10 DEF RecordsInv, JobInv

(* Taking rows away, with the end of a batch. *)
LEMMA LessKeepsRecordsInv ==
    ASSUME RecordsInv, UNCHANGED <<clock, script, parser, serial, late>>,
           cots' \subseteq cots, points' \subseteq points, rows' \subseteq rows,
           job' \in [table : 0..8, start : Nat, boundary : Int, ids : {{}}], job'.start <= clock,
           job'.boundary = Unset \/ job' = [job EXCEPT !.ids = {}]
    PROVE  RecordsInv'
<1>t. RecordsTypeOK /\ RowsInOrder /\ Links /\ JustStored /\ JobInv
  BY DEF RecordsInv
<1>1. RecordsTypeOK'
  BY <1>t DEF RecordsTypeOK
<1>2. RowsInOrder'
  BY <1>t DEF RowsInOrder, StoredInTime, InOrder, InTime, Of
<1>3. Links' /\ JustStored'
  BY <1>t DEF Links, JustStored, InTime, Unrecorded, Of
<1>4. BoundaryInv'
  <2>1. CASE job'.boundary = Unset
    BY <2>1 DEF BoundaryInv
  <2>2. CASE job' = [job EXCEPT !.ids = {}]
    <3> DEFINE t == Tables[job.table]
    <3>1. job'.table = job.table /\ job'.boundary = job.boundary /\ job'.start = job.start
      BY <1>t, <2>2 DEF RecordsTypeOK
    <3>2. \A x : AgedBy(x)' \subseteq AgedBy(x)
      BY DEF AgedBy, Of
    <3>3. BoundaryInv
      BY <1>t DEF JobInv
    <3>4. t' = t
      BY <3>1
    <3> QED
      BY <3>1, <3>2, <3>3, <3>4 DEF BoundaryInv, Overdue, Unrecorded
  <2> QED
    BY <2>1, <2>2
<1>5. job'.ids = {} /\ BatchInv'
  BY DEF BatchInv
<1> QED
  BY <1>1, <1>2, <1>3, <1>4, <1>5 DEF RecordsInv, JobInv

LEMMA JobKeepsRecordsInv ==
    ASSUME RecordsInv, DeleteBatch \/ PurgeFails \/ EndRun PROVE RecordsInv'
<1>t. RecordsTypeOK /\ job.start <= clock /\ (job.ids # {} => job.table \in 1..7)
  BY DEF RecordsInv, JobInv
<1>1. UNCHANGED <<clock, script, parser, serial, late>>
  BY DEF DeleteBatch, PurgeFails, EndRun, RecordsUnchanged
<1>2. cots' \subseteq cots /\ points' \subseteq points /\ rows' \subseteq rows
  BY DEF DeleteBatch, DeleteRows, PurgeFails, EndRun, storeVars
<1>3. \/ job' = [job EXCEPT !.ids = {}]
      \/ job' = Resting
      \/ \E i \in 0..8 : GoOn(i)
  BY <1>t DEF DeleteBatch, PurgeFails, EndRun, RecordsTypeOK
<1>4. /\ job' \in [table : 0..8, start : Nat, boundary : Int, ids : {{}}] /\ job'.start <= clock
      /\ job'.boundary = Unset \/ job' = [job EXCEPT !.ids = {}]
  <2>1. CASE job' = [job EXCEPT !.ids = {}]
    BY <1>t, <2>1 DEF RecordsTypeOK
  <2>2. CASE job' = Resting
    BY <1>t, <2>2 DEF RecordsTypeOK, Resting, Unset
  <2>3. ASSUME NEW i \in 0..8, GoOn(i)
        PROVE  /\ job' \in [table : 0..8, start : Nat, boundary : Int, ids : {{}}]
               /\ job'.start <= clock /\ job'.boundary = Unset
    <3>1. job' = [table |-> i, start |-> job.start, boundary |-> Unset, ids |-> {}]
      BY <1>t, <2>3 DEF RecordsTypeOK, GoOn
    <3>2. job.start \in Nat /\ Unset \in Int
      BY <1>t DEF RecordsTypeOK, Unset
    <3> QED
      BY <1>t, <3>1, <3>2
  <2> QED
    BY <1>3, <2>1, <2>2, <2>3
<1> QED
  BY <1>1, <1>2, <1>4, LessKeepsRecordsInv

(* Parsing goes on beside the job: what a message adds is newer than the boundary and
   the batch, and is built on rows of this tick. *)
SameRow(r, q) ==
    /\ r.id = q.id /\ r.kind = q.kind /\ r.got = q.got /\ r.cot = q.cot
    /\ r.point = q.point \/ (parser.step # "idle" /\ r.point = parser.point)
AddedRow(r) ==
    /\ Unrecorded /\ r.cot = parser.cot /\ r.point = parser.point
    /\ r.id > serial \/ (r.kind = "chat" /\ r.id = parser.cot)
Adds ==
    /\ job' = job /\ serial' \in Nat /\ serial' >= serial /\ clock' = clock /\ (late => late')
    /\ \A c \in cots' : c \in cots \/ c.id > serial
    /\ \A p \in points' : p \in points \/ (p.id > serial /\ p.cot = parser.cot /\ parser.step # "idle")
    /\ \A r \in rows' : (\E q \in rows : SameRow(r, q)) \/ AddedRow(r)
    /\ parser'.step # "idle" =>
          \/ parser'.cot = serial + 1 /\ parser'.point = None
          \/ /\ parser.step # "idle" /\ parser'.cot = parser.cot
             /\ parser'.point \in {parser.point, serial + 1}
             /\ Unrecorded' => Unrecorded

LEMMA AddsKeepsJobInv ==
    ASSUME RecordsInv, Adds, RecordsTypeOK' PROVE JobInv'
<1> DEFINE t == Tables[job.table]
<1>t. /\ RecordsTypeOK /\ RowsInOrder /\ JustStored /\ BoundaryInv /\ BatchInv
      /\ job' = job /\ serial \in Nat /\ serial' \in Nat /\ serial' >= serial
      /\ job.start <= clock /\ (job.ids # {} => job.table \in 1..7)
  BY DEF RecordsInv, JobInv, Adds, RecordsTypeOK
<1>1. Unrecorded' => parser'.cot = serial + 1 \/ (Unrecorded /\ parser'.cot = parser.cot)
  <2>1. Unrecorded' => parser'.step # "idle"
    BY DEF Unrecorded
  <2> QED
    BY <2>1 DEF Adds
<1>2. ASSUME NEW r \in rows'
      PROVE  (\E q \in Of(r.kind) : SameRow(r, q)) \/ AddedRow(r)
  BY <1>2 DEF Adds, Of, SameRow
<1>3. ASSUME ~ late', job.table \in 1..7, job.boundary # Unset PROVE BoundaryInv'
  <2>1. /\ \A r \in AgedBy(t) : r.id < job.boundary => Overdue(r, t)
        /\ job.boundary \in 0..serial
        /\ t = "chat" /\ Unrecorded => job.boundary < parser.cot
    BY <1>3, <1>t DEF BoundaryInv, Adds
  <2>2. ASSUME NEW r \in AgedBy(t)', r.id < job.boundary PROVE Overdue(r, t)
    <3>1. CASE t = "points"
      BY <1>t, <2>1, <2>2, <3>1 DEF AgedBy, Adds, RecordsTypeOK, PointRows
    <3>2. CASE t \in {"cots", "marker"}
      <4>1. AgedBy(t) = cots /\ r \in cots'
        BY <1>t, <2>2, <3>2 DEF AgedBy
      <4>2. r.id \in Nat
        BY <4>1 DEF RecordsTypeOK, CotRows
      <4>3. r \in AgedBy(t)
        BY <1>t, <2>1, <2>2, <4>1, <4>2 DEF Adds
      <4> QED
        BY <2>1, <2>2, <4>3
    <3>3. CASE t \notin {"points", "cots", "marker"}
      <4>1. AgedBy(t) = Of(t) /\ r \in rows' /\ r.kind = t
        BY <1>t, <2>2, <3>3 DEF AgedBy, Of
      <4>2. CASE \E q \in Of(t) : SameRow(r, q)
        BY <2>1, <2>2, <4>1, <4>2 DEF SameRow, Overdue
      <4>3. CASE AddedRow(r)
        <5>1. r.id > serial \/ (t = "chat" /\ Unrecorded /\ r.id = parser.cot)
          BY <4>1, <4>3 DEF AddedRow
        <5>2. r.id \in Nat /\ parser.cot \in Nat
          BY <1>t, <4>1 DEF RecordsTypeOK, RecordRows
        <5> QED
          BY <1>t, <2>1, <2>2, <5>1, <5>2
      <4> QED
        BY <1>2, <4>1, <4>2, <4>3
    <3> QED
      BY <3>1, <3>2, <3>3
  <2>3. t = "chat" /\ Unrecorded' => job.boundary < parser'.cot
    BY <1>1, <1>t, <2>1
  <2>4. t' = t /\ job'.boundary \in 0..serial'
    BY <1>t, <2>1
  <2> QED
    BY <1>t, <2>2, <2>3, <2>4 DEF BoundaryInv, Overdue
<1>4. ASSUME ~ late', job.ids # {} PROVE BatchInv'
  <2>1. /\ KeepOf[TypeOf(t)] # 0 /\ job.ids \subseteq 1..serial /\ BatchOf(t) /\ t' = t
    BY <1>4, <1>t DEF BatchInv, Adds
  <2>2. CASE t = "points"
    <3>1. BatchOfPoints
      BY <2>1, <2>2 DEF BatchOf
    <3>2. BatchOfPoints'
      <4>1. \A p \in points' : p.id \in job.ids => Overdue(p, "points")
        BY <1>t, <2>1, <3>1 DEF BatchOfPoints, Adds
      <4>2. \A r \in rows' : r.point \notin job.ids
        BY <3>1 DEF BatchOfPoints, Adds, SameRow, AddedRow, Unrecorded
      <4>3. parser'.step # "idle" => parser'.point \notin job.ids
        BY <1>t, <2>1, <3>1 DEF BatchOfPoints, Adds, None
      <4> QED
        BY <1>t, <4>1, <4>2, <4>3 DEF BatchOfPoints, Overdue
    <3> QED
      BY <1>t, <2>1, <2>2, <3>2 DEF BatchInv, BatchOf
  <2>3. CASE t = "cots"
    <3>1. BatchOfCots
      BY <2>1, <2>3 DEF BatchOf
    <3>2. BatchOfCots'
      <4>1. \A c \in cots' : c.id \in job.ids => Overdue(c, "cots")
        BY <1>t, <2>1, <3>1 DEF BatchOfCots, Adds
      <4>2. \A r \in rows' : r.cot \notin job.ids
        BY <3>1 DEF BatchOfCots, Adds, SameRow, AddedRow, Unrecorded
      <4>3. parser'.step # "idle" => parser'.cot \notin job.ids
        BY <1>t, <2>1, <3>1 DEF BatchOfCots, Adds
      <4>4. ASSUME NEW p \in points', p.cot \in job.ids
            PROVE  p \in points /\ Overdue(p, "cots") /\ (parser.step # "idle" => p.cot # parser.cot)
        BY <3>1, <4>4 DEF BatchOfCots, Adds
      <4>5. ASSUME NEW p \in points', p.cot \in job.ids, NEW r \in rows' PROVE r.point # p.id
        <5>1. parser.step # "idle" => p.id # parser.point
          BY <1>t, <4>4, <4>5 DEF JustStored
        <5>2. \A q \in rows : q.point # p.id
          BY <3>1, <4>4, <4>5 DEF BatchOfCots
        <5> QED
          BY <4>5, <5>1, <5>2 DEF Adds, SameRow, AddedRow, Unrecorded
      <4> QED
        BY <1>t, <4>1, <4>2, <4>3, <4>4, <4>5 DEF BatchOfCots, Overdue
    <3> QED
      BY <1>t, <2>1, <2>3, <3>2 DEF BatchInv, BatchOf
  <2>4. CASE t \notin {"points", "cots"}
    <3>1. BatchOfRecords(t)
      BY <2>1, <2>4 DEF BatchOf
    <3>2. ASSUME NEW r \in rows', r.kind = t, r.id \in job.ids PROVE Overdue(r, t)
      <4>1. CASE \E q \in Of(t) : SameRow(r, q)
        BY <3>1, <3>2, <4>1 DEF BatchOfRecords, SameRow, Overdue
      <4>2. CASE AddedRow(r)
        <5>1. r.id > serial \/ (t = "chat" /\ Unrecorded /\ r.id = parser.cot)
          BY <3>2, <4>2 DEF AddedRow
        <5>2. parser.cot \in Nat
          BY <1>t DEF RecordsTypeOK
        <5> QED
          BY <1>t, <2>1, <3>1, <3>2, <5>1, <5>2 DEF BatchOfRecords
      <4> QED
        BY <1>2, <3>2, <4>1, <4>2
    <3>3. t = "chat" /\ Unrecorded' => \A n \in job.ids : n < parser'.cot
      BY <1>1, <1>t, <2>1, <3>1 DEF BatchOfRecords
    <3>4. BatchOfRecords(t)'
      BY <1>t, <2>1, <3>2, <3>3 DEF BatchOfRecords, Overdue, Of
    <3> QED
      BY <1>t, <2>1, <2>4, <3>4 DEF BatchInv, BatchOf
  <2> QED
    BY <2>2, <2>3, <2>4
<1>5. BoundaryInv' /\ BatchInv'
  BY <1>t, <1>3, <1>4 DEF BoundaryInv, BatchInv
<1> QED
  BY <1>t, <1>5 DEF JobInv, Adds

(* A message's CoT. *)
LEMMA InsertCotKeepsRecordsInv ==
    ASSUME RecordsInv, InsertCot PROVE RecordsInv'
<1>t. RecordsTypeOK /\ RowsInOrder /\ Links /\ JustStored /\ JobInv /\ Lag \in Nat
  BY RecordsAssumption DEF RecordsInv
<1>1. PICK t \in DeviceTimes :
        /\ parser' = [parser EXCEPT !.step = "cot", !.time = t, !.cot = serial + 1]
        /\ cots' = cots \cup {[id |-> serial + 1, time |-> t, got |-> clock]}
        /\ late' = (late \/ (t = Old /\ clock > Lag))
  BY DEF InsertCot
<1>2. /\ serial' = serial + 1 /\ parser.step = "idle" /\ script # <<>>
      /\ UNCHANGED <<clock, script, crashes, points, rows, job>>
  BY DEF InsertCot
<1>3. t \in Int /\ (~ late' => ~ late /\ (t = Broken \/ t >= clock - Lag))
  <2>1. t \in Int /\ (t # Old => t = Broken \/ t >= clock - Lag)
    BY <1>t DEF DeviceTimes, Broken, Old, RecordsTypeOK
  <2>2. ~ late' => ~ late /\ (t = Old => ~ (clock > Lag))
    BY <1>1
  <2>3. t = Old /\ ~ (clock > Lag) => t >= clock - Lag
    BY <1>t DEF Old, RecordsTypeOK
  <2> QED
    BY <2>1, <2>2, <2>3
<1>4. RecordsTypeOK'
  <2>1. late' \in BOOLEAN
    BY <1>1, <1>t DEF RecordsTypeOK
  <2>2. parser' \in [step : {"idle", "cot", "point", "stored"}, time : Int, cot : Nat, point : Nat]
    <3>1. parser' = [step |-> "cot", time |-> t, cot |-> serial + 1, point |-> parser.point]
      BY <1>t, <1>1 DEF RecordsTypeOK
    <3> QED
      BY <1>t, <1>3, <3>1 DEF RecordsTypeOK
  <2>3. cots' \subseteq CotRows
    BY <1>t, <1>1, <1>3 DEF RecordsTypeOK, CotRows
  <2> QED
    BY <1>t, <1>2, <2>1, <2>2, <2>3 DEF RecordsTypeOK
<1>5. RowsInOrder'
  <2>1. StoredInTime(cots)' /\ StoredInTime(points)' /\ StoredInTime(rows)'
    <3>1. \A S : StoredInTime(S) => \A r \in S : r.id \in 1..serial' /\ r.got <= clock' /\ InTime(r.time, r.got)'
      BY <1>t, <1>2, <1>3 DEF StoredInTime, InTime, RecordsTypeOK
    <3>2. \A r \in cots' \ cots : r.id \in 1..serial' /\ r.got <= clock' /\ InTime(r.time, r.got)'
      BY <1>t, <1>1, <1>2, <1>3 DEF InTime, RecordsTypeOK
    <3>3. points' = points /\ rows' = rows /\ StoredInTime(cots) /\ StoredInTime(points) /\ StoredInTime(rows)
      BY <1>t, <1>2 DEF RowsInOrder
    <3> QED
      BY <3>1, <3>2, <3>3 DEF StoredInTime
  <2>2. InOrder(cots)'
    BY <1>t, <1>1, <1>2 DEF RowsInOrder, StoredInTime, InOrder, RecordsTypeOK, CotRows
  <2>3. InOrder(points)' /\ \A k \in RecordKinds : InOrder(Of(k))'
    BY <1>t, <1>2 DEF RowsInOrder, InOrder, Of
  <2> QED
    BY <2>1, <2>2, <2>3 DEF RowsInOrder
<1>6. Links'
  BY <1>t, <1>1, <1>2 DEF Links, RowsInOrder, StoredInTime
<1>7. JustStored'
  <2>1. parser' = [parser EXCEPT !.step = "cot", !.time = t, !.cot = serial + 1]
    BY <1>1
  <2>2. parser'.step = "cot" /\ parser'.cot = serial + 1 /\ parser'.time = t /\ parser'.point = parser.point
    BY <1>t, <2>1 DEF RecordsTypeOK
  <2>3. parser.point = None
    BY <1>t, <1>2 DEF JustStored
  <2>4. parser'.cot \in 1..serial' /\ \A c \in cots' : c.id = parser'.cot => c.got = clock'
    BY <1>t, <1>1, <1>2, <2>2 DEF RowsInOrder, StoredInTime, RecordsTypeOK, CotRows
  <2>5. \A p \in points' : p.id # parser'.point
    BY <1>t, <1>2, <2>2, <2>3 DEF RowsInOrder, StoredInTime, None
  <2>6. InTime(parser.time, clock)'
    BY <1>2, <1>3, <2>2 DEF InTime
  <2>7. \A r \in Of("chat")' : r.id < parser'.cot
    BY <1>t, <1>2, <2>2 DEF RowsInOrder, StoredInTime, Of, RecordsTypeOK, RecordRows
  <2> QED
    BY <1>2, <2>2, <2>3, <2>4, <2>5, <2>6, <2>7 DEF JustStored
<1>8. JobInv'
  <2>1. parser'.cot = serial + 1 /\ parser'.point = None /\ (late => late')
    BY <1>t, <1>1, <1>2 DEF RecordsTypeOK, JustStored
  <2>2. \A r \in rows' : \E q \in rows : SameRow(r, q)
    <3>1. \A r \in rows : SameRow(r, r)
      BY DEF SameRow
    <3> QED
      BY <1>2, <3>1
  <2>3. Adds
    BY <1>t, <1>1, <1>2, <2>1, <2>2 DEF Adds, RecordsTypeOK
  <2> QED
    BY <1>4, <2>3, AddsKeepsJobInv
<1> QED
  BY <1>4, <1>5, <1>6, <1>7, <1>8 DEF RecordsInv

(* The end of a message, in whatever way, and the clock. *)
LEMMA EndKeepsRecordsInv ==
    ASSUME RecordsInv, PointFails \/ RecordFails \/ Route \/ ParserDies PROVE RecordsInv'
<1>t. RecordsTypeOK /\ RowsInOrder /\ Links /\ JustStored /\ JobInv
  BY DEF RecordsInv
<1>1. /\ parser' = Idle /\ script' \in {script, Tail(script)} /\ parser.step # "idle"
      /\ UNCHANGED <<clock, serial, late, cots, points, rows, job>>
  BY <1>t DEF PointFails, RecordFails, Nack, Route, ParserDies, Done, storeVars
<1>2. parser'.step = "idle" /\ parser'.point = None
  BY <1>1 DEF Idle
<1>3. RecordsTypeOK'
  <2>1. script' \in Seq([kind : Kinds, fix : BOOLEAN])
    <3>1. script \in Seq([kind : Kinds, fix : BOOLEAN]) /\ script # <<>>
      BY <1>t, <1>1 DEF RecordsTypeOK, JustStored
    <3>2. Tail(script) \in Seq([kind : Kinds, fix : BOOLEAN])
      BY <3>1
    <3> QED
      BY <1>1, <3>1, <3>2
  <2>2. parser' \in [step : {"idle", "cot", "point", "stored"}, time : Int, cot : Nat, point : Nat]
    BY <1>1 DEF Idle, Broken, None
  <2> QED
    BY <1>t, <1>1, <2>1, <2>2 DEF RecordsTypeOK
<1>4. RowsInOrder' /\ Links'
  BY <1>t, <1>1 DEF RowsInOrder, StoredInTime, InOrder, InTime, Of, Links
<1>5. JustStored'
  BY <1>2 DEF JustStored, Unrecorded
<1>6. \A r \in rows : SameRow(r, r)
  BY DEF SameRow
<1>7. Adds
  BY <1>t, <1>1, <1>2, <1>6 DEF Adds, RecordsTypeOK
<1> QED
  BY <1>3, <1>4, <1>5, <1>7, AddsKeepsJobInv DEF RecordsInv

LEMMA TickKeepsRecordsInv ==
    ASSUME RecordsInv, Tick PROVE RecordsInv'
<1>t. RecordsTypeOK /\ RowsInOrder /\ Links /\ JustStored /\ JobInv
  BY DEF RecordsInv
<1>1. /\ clock' = clock + 1 /\ parser.step = "idle" /\ clock \in Nat
      /\ UNCHANGED <<script, parser, serial, late, cots, points, rows, job>>
  BY <1>t DEF Tick, storeVars, Idle, RecordsTypeOK
<1>2. RecordsTypeOK'
  BY <1>t, <1>1 DEF RecordsTypeOK
<1>3. RowsInOrder'
  <2>1. \A x \in cots \cup points \cup rows : x.got \in Nat
    BY <1>t DEF RecordsTypeOK, CotRows, PointRows, RecordRows
  <2> QED
    BY <1>t, <1>1, <2>1 DEF RowsInOrder, StoredInTime, InOrder, InTime, Of
<1>4. Links' /\ JustStored'
  BY <1>t, <1>1 DEF Links, JustStored, InTime, Unrecorded
<1>5. BoundaryInv' /\ BatchInv'
  BY <1>t, <1>1 DEF JobInv, BoundaryInv, BatchInv, BatchOf, BatchOfPoints, BatchOfCots, BatchOfRecords,
     Overdue, AgedBy, Of, Unrecorded
<1>6. job'.start <= clock' /\ (job'.ids # {} => job'.table \in 1..7)
  BY <1>t, <1>1 DEF JobInv, RecordsTypeOK
<1> QED
  BY <1>2, <1>3, <1>4, <1>5, <1>6 DEF RecordsInv, JobInv

(* A message's point. *)
LEMMA ParsePointKeepsRecordsInv ==
    ASSUME RecordsInv, ParsePoint PROVE RecordsInv'
<1> DEFINE P == [id |-> serial + 1, cot |-> parser.cot, time |-> parser.time, got |-> clock]
<1>t. RecordsTypeOK /\ RowsInOrder /\ Links /\ JustStored /\ JobInv
  BY DEF RecordsInv
<1>1. /\ parser.step = "cot" /\ parser.point = None
      /\ UNCHANGED <<clock, script, late, cots, rows, job>>
  BY <1>t DEF ParsePoint, JustStored
<1>2. \/ /\ points' = points \cup {P} /\ serial' = serial + 1
         /\ parser' = [parser EXCEPT !.step = "point", !.point = serial + 1]
      \/ /\ points' = points /\ serial' = serial
         /\ parser' = [parser EXCEPT !.step = "point"]
  BY DEF ParsePoint
<1>3. /\ parser' \in [step : {"point"}, time : {parser.time}, cot : {parser.cot}, point : {None, serial + 1}]
      /\ serial \in Nat /\ serial' \in {serial, serial + 1}
      /\ parser'.point = serial + 1 => serial' = serial + 1
  <2>1. serial \in Nat /\ serial' \in {serial, serial + 1} /\ (serial' # serial => serial' = serial + 1)
    BY <1>t, <1>2 DEF RecordsTypeOK
  <2>2. \/ serial' = serial + 1 /\ parser' = [step |-> "point", time |-> parser.time,
                                             cot |-> parser.cot, point |-> serial + 1]
        \/ parser' = [step |-> "point", time |-> parser.time, cot |-> parser.cot, point |-> None]
    BY <1>t, <1>1, <1>2 DEF RecordsTypeOK
  <2> QED
    BY <2>1, <2>2 DEF None
<1>4. RecordsTypeOK'
  <2>1. P \in PointRows
    BY <1>t DEF RecordsTypeOK, PointRows
  <2>2. points' \subseteq PointRows
    BY <1>t, <1>2, <2>1 DEF RecordsTypeOK
  <2> QED
    BY <1>t, <1>1, <1>3, <2>2 DEF RecordsTypeOK, None
<1>5. /\ parser.cot \in 1..serial /\ script # <<>>
      /\ \A c \in cots : c.id = parser.cot => c.got = clock
      /\ InTime(parser.time, clock)
      /\ \A r \in Of("chat") : r.id < parser.cot
  BY <1>t, <1>1 DEF JustStored, Unrecorded
<1>6. RowsInOrder'
  <2>1. \A S : StoredInTime(S) => \A r \in S : r.id \in 1..serial' /\ r.got <= clock' /\ InTime(r.time, r.got)'
    BY <1>1, <1>3 DEF StoredInTime, InTime
  <2>2. \A r \in points' \ points : r = P /\ serial' = serial + 1
    BY <1>2
  <2>3. \A r \in points' \ points : r.id \in 1..serial' /\ r.got <= clock' /\ InTime(r.time, r.got)'
    BY <1>t, <1>1, <1>3, <1>5, <2>2 DEF InTime, RecordsTypeOK
  <2>4. StoredInTime(cots)' /\ StoredInTime(points)' /\ StoredInTime(rows)'
    BY <1>t, <1>1, <2>1, <2>3 DEF RowsInOrder, StoredInTime
  <2>5. InOrder(points)'
    BY <1>t, <1>2 DEF RowsInOrder, StoredInTime, InOrder, RecordsTypeOK, PointRows
  <2>6. InOrder(cots)' /\ \A k \in RecordKinds : InOrder(Of(k))'
    BY <1>t, <1>1 DEF RowsInOrder, InOrder, Of
  <2> QED
    BY <2>4, <2>5, <2>6 DEF RowsInOrder
<1>7. Links'
  BY <1>t, <1>1, <1>2, <1>5 DEF Links, RecordsTypeOK, CotRows
<1>8. JustStored'
  <2>1. \A p \in points' : p.id = parser'.point => p.cot = parser.cot /\ p.got = clock
    BY <1>t, <1>2, <1>3 DEF RowsInOrder, StoredInTime, None, RecordsTypeOK, PointRows
  <2> QED
    BY <1>1, <1>3, <1>5, <2>1 DEF JustStored, Unrecorded, InTime, Of
<1>9. JobInv'
  <2>1. \A r \in rows : SameRow(r, r)
    BY DEF SameRow
  <2>2. \A p \in points' : p \in points \/ (p.id > serial /\ p.cot = parser.cot)
    BY <1>2, <1>3
  <2>3. Unrecorded /\ parser'.cot = parser.cot /\ parser'.point \in {parser.point, serial + 1}
    BY <1>1, <1>3 DEF Unrecorded
  <2>4. Adds
    BY <1>t, <1>1, <1>3, <2>1, <2>2, <2>3 DEF Adds, RecordsTypeOK
  <2> QED
    BY <1>4, <2>4, AddsKeepsJobInv
<1> QED
  BY <1>4, <1>6, <1>7, <1>8, <1>9 DEF RecordsInv

(* A message's record: a row of its own, or what it changes in those there are. *)
Changes == \A r \in rows' : \E q \in rows : SameRow(r, q) /\ r.time \in {q.time, parser.time}

LEMMA RecordKeepsRecordsInv ==
    ASSUME RecordsInv, NEW k \in Kinds, Parsing(k), rows' \subseteq RecordRows,
           \/ serial' = serial /\ Changes
           \/ k \in RecordKinds /\ Insert(k)
    PROVE  RecordsInv'
<1>t. RecordsTypeOK /\ RowsInOrder /\ Links /\ JustStored /\ JobInv
  BY DEF RecordsInv
<1>1. /\ parser.step = "point" /\ parser' = [parser EXCEPT !.step = "stored"]
      /\ UNCHANGED <<clock, script, late, cots, points, job>>
      /\ serial' \in {serial, serial + 1} /\ serial \in Nat
  BY <1>t DEF Parsing, Insert, RecordsTypeOK
<1>2. /\ parser' \in [step : {"stored"}, time : Int, cot : Nat, point : Nat]
      /\ parser'.time = parser.time /\ parser'.cot = parser.cot /\ parser'.point = parser.point
  BY <1>t, <1>1 DEF RecordsTypeOK
<1>3. RecordsTypeOK'
  BY <1>t, <1>1, <1>2 DEF RecordsTypeOK
<1>4. /\ parser.cot \in 1..serial /\ script # <<>> /\ InTime(parser.time, clock)
      /\ \A c \in cots : c.id = parser.cot => c.got = clock
      /\ \A p \in points : p.id = parser.point => p.cot = parser.cot /\ p.got = clock
      /\ \A r \in Of("chat") : r.id < parser.cot
  BY <1>t, <1>1 DEF JustStored, Unrecorded
<1>5. JustStored'
  BY <1>1, <1>2, <1>4 DEF JustStored, Unrecorded, InTime
<1>6. /\ StoredInTime(cots)' /\ StoredInTime(points)' /\ InOrder(cots)' /\ InOrder(points)'
      /\ \A p \in points', c \in cots' : p.cot = c.id => p.got <= c.got
  BY <1>t, <1>1 DEF RowsInOrder, StoredInTime, InOrder, InTime, Links
<1>7. CASE serial' = serial /\ Changes
  <2>1. Adds
    BY <1>t, <1>1, <1>2, <1>7 DEF Adds, Changes, Unrecorded
  <2>2. ASSUME NEW r \in rows'
        PROVE  r.id \in 1..serial' /\ r.got <= clock' /\ InTime(r.time, r.got)'
    <3>1. PICK q \in rows : SameRow(r, q) /\ r.time \in {q.time, parser.time}
      BY <1>7, <2>2 DEF Changes
    <3>2. q.id \in 1..serial /\ q.got <= clock /\ InTime(q.time, q.got) /\ q.got \in Nat /\ clock \in Nat
      BY <1>t DEF RowsInOrder, StoredInTime, RecordsTypeOK, RecordRows
    <3>3. Lag \in Nat /\ parser.time \in Int
      BY <1>t, RecordsAssumption DEF RecordsTypeOK
    <3>4. InTime(parser.time, q.got)
      BY <1>4, <3>2, <3>3 DEF InTime, Broken
    <3> QED
      BY <1>1, <1>7, <3>1, <3>2, <3>4 DEF SameRow, InTime
  <2>3. ASSUME NEW x \in RecordKinds PROVE InOrder(Of(x))'
    <3>1. InOrder(Of(x))
      BY <1>t DEF RowsInOrder
    <3>2. \A r \in Of(x)' : \E q \in Of(x) : r.id = q.id /\ r.got = q.got
      BY <1>7 DEF Changes, SameRow, Of
    <3> QED
      BY <3>1, <3>2 DEF InOrder
  <2>4. \A r \in rows', c \in cots' : r.cot = c.id => r.got <= c.got
    BY <1>t, <1>1, <1>7 DEF Links, Changes, SameRow
  <2> QED
    BY <1>3, <1>5, <1>6, <2>1, <2>2, <2>3, <2>4, AddsKeepsJobInv DEF RecordsInv, RowsInOrder, StoredInTime, Links
<1>8. CASE k \in RecordKinds /\ Insert(k)
  <2> DEFINE N == NewRow(k)
  <2>1. /\ rows' = rows \cup {N} /\ serial' = serial + 1
        /\ N.kind = k /\ N.cot = parser.cot /\ N.point = parser.point /\ N.got = clock /\ N.time = parser.time
        /\ N.id = IF k = "chat" THEN parser.cot ELSE serial + 1
    BY <1>8 DEF Insert, NewRow
  <2> HIDE DEF N
  <2>2. N.id \in 1..serial' /\ (N.id > serial \/ (k = "chat" /\ N.id = parser.cot))
    BY <1>1, <1>4, <2>1
  <2>3. Adds
    <3>1. \A r \in rows : SameRow(r, r)
      BY DEF SameRow
    <3>2. AddedRow(N)
      BY <1>1, <2>1, <2>2 DEF AddedRow, Unrecorded
    <3> QED
      BY <1>t, <1>1, <1>2, <2>1, <3>1, <3>2 DEF Adds, Unrecorded
  <2>4. \A r \in rows' : r.id \in 1..serial' /\ r.got <= clock' /\ InTime(r.time, r.got)'
    <3>1. \A r \in rows : r.id \in 1..serial /\ r.got <= clock /\ InTime(r.time, r.got)
      BY <1>t DEF RowsInOrder, StoredInTime
    <3>2. clock \in Nat
      BY <1>t DEF RecordsTypeOK
    <3> QED
      BY <1>1, <1>4, <2>1, <2>2, <3>1, <3>2 DEF InTime
  <2>5. ASSUME NEW x \in RecordKinds PROVE InOrder(Of(x))'
    <3>1. InOrder(Of(x)) /\ \A r \in Of(x) : r.id \in 1..serial /\ r.got <= clock /\ r.got \in Nat
      BY <1>t DEF RowsInOrder, StoredInTime, Of, RecordsTypeOK, RecordRows
    <3>2. Of(x)' = IF x = k THEN Of(x) \cup {N} ELSE Of(x)
      BY <2>1 DEF Of
    <3>3. x = k => \A r \in Of(x) : r.id < N.id
      BY <1>1, <1>4, <2>1, <3>1
    <3>4. clock \in Nat /\ N.id \in Nat
      BY <1>t, <2>2 DEF RecordsTypeOK
    <3> QED
      BY <2>1, <3>1, <3>2, <3>3, <3>4 DEF InOrder
  <2>6. \A r \in rows', c \in cots' : r.cot = c.id => r.got <= c.got
    BY <1>t, <1>1, <1>4, <2>1 DEF Links, RecordsTypeOK
  <2> QED
    BY <1>3, <1>5, <1>6, <2>3, <2>4, <2>5, <2>6, AddsKeepsJobInv DEF RecordsInv, RowsInOrder, StoredInTime, Links
<1> QED
  BY <1>7, <1>8

LEMMA ParseKeepsRecordsInv ==
    ASSUME RecordsInv,
           \/ ParseChat \/ ParseAlert \/ ParseCancel \/ ParseCasevac \/ ParseMarker \/ ParseLine
    PROVE  RecordsInv' /\ (\A r \in rows : \E s \in rows' : s.id = r.id /\ s.kind = r.kind)
<1>t. RecordsTypeOK
  BY DEF RecordsInv
<1>1. \A r \in rows : SameRow(r, r)
  BY DEF SameRow
<1>2. rows \subseteq RecordRows /\ parser.cot \in Nat /\ parser.point \in Nat /\ parser.time \in Int
  BY <1>t DEF RecordsTypeOK
<1>3. ASSUME NEW k \in RecordKinds, Parsing(k), Insert(k)
      PROVE  RecordsInv' /\ (\A r \in rows : \E s \in rows' : s.id = r.id /\ s.kind = r.kind)
  <2>1. NewRow(k) \in RecordRows
    BY <1>t, <1>3 DEF NewRow, RecordRows, RecordsTypeOK
  <2>2. rows' \subseteq RecordRows /\ rows \subseteq rows'
    BY <1>2, <1>3, <2>1 DEF Insert
  <2> QED
    BY <1>3, <2>2, RecordKeepsRecordsInv DEF RecordKinds
<1>4. ASSUME NEW k \in Kinds, Parsing(k), serial' = serial, rows' \subseteq RecordRows, Changes,
             \A r \in rows : \E s \in rows' : SameRow(s, r)
      PROVE  RecordsInv' /\ (\A r \in rows : \E s \in rows' : s.id = r.id /\ s.kind = r.kind)
  BY <1>4, RecordKeepsRecordsInv DEF SameRow
<1>5. ASSUME NEW k \in Kinds, Parsing(k), Ignore
      PROVE  RecordsInv' /\ (\A r \in rows : \E s \in rows' : s.id = r.id /\ s.kind = r.kind)
  <2>1. rows' = rows /\ serial' = serial
    BY <1>5 DEF Ignore
  <2>2. Changes
    BY <1>1, <2>1 DEF Changes
  <2> QED
    BY <1>1, <1>2, <1>4, <1>5, <2>1, <2>2
<1>6. CASE ParseChat
  BY <1>3, <1>5, <1>6 DEF ParseChat, RecordKinds, Kinds
<1>7. CASE ParseAlert
  BY <1>3, <1>7 DEF ParseAlert, RecordKinds, Kinds
<1>8. CASE ParseCancel
  <2>1. CASE Ignore
    BY <1>5, <1>8, <2>1 DEF ParseCancel, Kinds
  <2>2. CASE ~ Ignore
    <3>1. PICK r \in rows : rows' = (rows \ {r}) \cup {[r EXCEPT !.open = FALSE]} /\ serial' = serial
      BY <1>8, <2>2 DEF ParseCancel, Of
    <3>2. /\ [r EXCEPT !.open = FALSE] \in RecordRows /\ SameRow([r EXCEPT !.open = FALSE], r)
          /\ [r EXCEPT !.open = FALSE].time = r.time
      BY <1>2 DEF RecordRows, SameRow
    <3>3. Changes /\ rows' \subseteq RecordRows /\ \A q \in rows : \E s \in rows' : SameRow(s, q)
      BY <1>1, <1>2, <3>1, <3>2 DEF Changes
    <3> QED
      BY <1>4, <1>8, <3>1, <3>3 DEF ParseCancel, Kinds
  <2> QED
    BY <2>1, <2>2
<1>9. CASE ParseCasevac
  <2>1. CASE Ignore \/ Insert("casevac")
    BY <1>3, <1>5, <1>9, <2>1 DEF ParseCasevac, RecordKinds, Kinds
  <2>2. CASE ~ (Ignore \/ Insert("casevac"))
    <3> DEFINE new(r) == IF r.kind = "casevac" THEN [r EXCEPT !.last = parser.time] ELSE r
    <3>1. rows' = {new(r) : r \in rows} /\ serial' = serial
      BY <1>9, <2>2 DEF ParseCasevac
    <3>2. \A r \in rows : new(r) \in RecordRows /\ SameRow(new(r), r) /\ new(r).time = r.time
      BY <1>2 DEF RecordRows, SameRow
    <3> HIDE DEF new
    <3>3. Changes /\ rows' \subseteq RecordRows /\ \A q \in rows : \E s \in rows' : SameRow(s, q)
      BY <3>1, <3>2 DEF Changes
    <3> QED
      BY <1>4, <1>9, <3>1, <3>3 DEF ParseCasevac, Kinds
  <2> QED
    BY <2>1, <2>2
<1>10. CASE ParseMarker
  <2>1. CASE Ignore \/ Insert("marker")
    BY <1>3, <1>5, <1>10, <2>1 DEF ParseMarker, RecordKinds, Kinds
  <2>2. CASE ~ (Ignore \/ Insert("marker"))
    <3> DEFINE new(r) == IF r.kind = "marker" THEN [r EXCEPT !.point = parser.point, !.last = parser.time] ELSE r
    <3>1. rows' = {new(r) : r \in rows} /\ serial' = serial /\ parser.step # "idle"
      BY <1>10, <2>2 DEF ParseMarker, Parsing
    <3>2. \A r \in rows : new(r) \in RecordRows /\ SameRow(new(r), r) /\ new(r).time = r.time
      BY <1>2, <3>1 DEF RecordRows, SameRow
    <3> HIDE DEF new
    <3>3. Changes /\ rows' \subseteq RecordRows /\ \A q \in rows : \E s \in rows' : SameRow(s, q)
      BY <3>1, <3>2 DEF Changes
    <3> QED
      BY <1>4, <1>10, <3>1, <3>3 DEF ParseMarker, Kinds
  <2> QED
    BY <2>1, <2>2
<1>11. CASE ParseLine
  <2>1. CASE Insert("line")
    BY <1>3, <1>11, <2>1 DEF ParseLine, RecordKinds, Kinds
  <2>2. CASE ~ Insert("line")
    <3> DEFINE new(r) == IF r.kind = "line" THEN [r EXCEPT !.time = parser.time, !.last = parser.time] ELSE r
    <3>1. rows' = {new(r) : r \in rows} /\ serial' = serial
      BY <1>11, <2>2 DEF ParseLine
    <3>2. \A r \in rows : new(r) \in RecordRows /\ SameRow(new(r), r) /\ new(r).time \in {r.time, parser.time}
      BY <1>2 DEF RecordRows, SameRow
    <3> HIDE DEF new
    <3>3. Changes /\ rows' \subseteq RecordRows /\ \A q \in rows : \E s \in rows' : SameRow(s, q)
      BY <3>1, <3>2 DEF Changes
    <3> QED
      BY <1>4, <1>11, <3>1, <3>3 DEF ParseLine, Kinds
  <2> QED
    BY <2>1, <2>2
<1> QED
  BY <1>6, <1>7, <1>8, <1>9, <1>10, <1>11

(* A step of the parser takes no row away and a batch only what is overdue. *)
LEMMA BatchTakesNothingFresh ==
    ASSUME RecordsInv, ~ late, DeleteBatch
    PROVE  NothingFreshGoes
<1> DEFINE t == Tables[job.table]
           gone == IF t = "cots" THEN job.ids ELSE {}
           left == {p \in points : p.cot \notin gone /\ (t = "points" => p.id \notin job.ids)}
           built == {r \in rows : r.cot \in gone \/ r.point \in Ids(points) \ Ids(left)}
<1>1. /\ cots' = {c \in cots : c.id \notin gone} /\ points' = left
      /\ rows' = rows \ (built \cup {r \in Of(t) : r.id \in job.ids})
  BY DEF DeleteBatch, DeleteRows
<1>2. /\ job.table \in 1..7 /\ BatchOf(t) /\ job.start \in Nat /\ clock \in Nat /\ job.start <= clock
      /\ cots \subseteq CotRows /\ points \subseteq PointRows /\ rows \subseteq RecordRows
  BY DEF DeleteBatch, RecordsInv, JobInv, BatchInv, RecordsTypeOK
<1>3. ASSUME NEW x \in CotRows \cup PointRows \cup RecordRows, NEW s \in {"points", "cots"} \cup RecordKinds,
             Overdue(x, s)
      PROVE  clock - x.got > KeepOf[TypeOf(s)] - Lag
  <2>1. TypeOf(s) \in Types /\ x.got \in Nat
    BY <1>3 DEF TypeOf, Types, RecordKinds, Kinds, CotRows, PointRows, RecordRows
  <2> QED
    BY <1>2, <1>3, <2>1, RecordsAssumption DEF Overdue
<1>4. \A p \in points : p \notin left => p.cot \in gone \/ (t = "points" /\ p.id \in job.ids)
  OBVIOUS
<1>5. CASE t = "points"
  <2>1. BatchOfPoints /\ gone = {}
    BY <1>2, <1>5 DEF BatchOf
  <2>2. \A r \in rows : r.point \notin Ids(points) \ Ids(left)
    BY <1>4, <2>1 DEF BatchOfPoints, Ids
  <2>3. rows' = rows /\ cots' = cots
    BY <1>1, <1>2, <1>5, <2>1, <2>2 DEF Of, RecordRows, RecordKinds, Kinds
  <2>4. \A p \in Vanished(points, points') : p \in points /\ Overdue(p, "points")
    BY <1>1, <1>4, <2>1 DEF Vanished, BatchOfPoints
  <2>5. \A p \in Vanished(points, points') : clock - p.got > KeepOf["cot"] - Lag
    BY <1>2, <1>3, <2>4 DEF TypeOf
  <2> QED
    BY <2>3, <2>5 DEF NothingFreshGoes, Vanished, Of
<1>6. CASE t = "cots"
  <2>1. BatchOfCots /\ gone = job.ids
    BY <1>2, <1>6 DEF BatchOf
  <2>2. \A r \in rows : r.cot \notin gone /\ r.point \notin Ids(points) \ Ids(left)
    BY <1>4, <1>6, <2>1 DEF BatchOfCots, Ids
  <2>3. rows' = rows
    BY <1>1, <1>2, <1>6, <2>2 DEF Of, RecordRows, RecordKinds, Kinds
  <2>4. /\ \A p \in Vanished(points, points') : p \in points /\ Overdue(p, "cots")
        /\ \A c \in Vanished(cots, cots') : c \in cots /\ Overdue(c, "cots")
    BY <1>1, <1>4, <1>6, <2>1 DEF Vanished, BatchOfCots
  <2>5. \A r \in Vanished(cots, cots') \cup Vanished(points, points') : clock - r.got > KeepOf["cot"] - Lag
    BY <1>2, <1>3, <2>4 DEF TypeOf
  <2> QED
    BY <2>3, <2>5 DEF NothingFreshGoes, Vanished, Of
<1>7. CASE t \notin {"points", "cots"}
  <2>1. BatchOfRecords(t) /\ gone = {} /\ left = points /\ t \in RecordKinds
    BY <1>2, <1>7 DEF BatchOf, Tables, RecordKinds, Kinds
  <2>2. built = {}
    BY <2>1
  <2>3. cots' = cots /\ points' = points /\ rows' = rows \ {r \in Of(t) : r.id \in job.ids}
    BY <1>1, <2>1, <2>2
  <2>4. ASSUME NEW k \in Kinds, NEW r \in Vanished(Of(k), Of(k)')
        PROVE  r \in rows /\ k = t /\ Overdue(r, t)
    BY <2>1, <2>3, <2>4 DEF Vanished, Of, BatchOfRecords
  <2>5. \A k \in Kinds : \A r \in Vanished(Of(k), Of(k)') : clock - r.got > KeepOf[TypeOf(k)] - Lag
    BY <1>2, <1>3, <2>1, <2>4
  <2>6. job.table \notin {1, 2}
    BY <1>7 DEF Tables
  <2> QED
    BY <2>3, <2>5, <2>6 DEF NothingFreshGoes, Vanished
<1> QED
  BY <1>5, <1>6, <1>7

LEMMA RecordsStep ==
    ASSUME RecordsInv, ParsedInTime, [RecordsNext]_recordsVars
    PROVE  RecordsInv' /\ [NothingFreshGoes]_recordsVars
<1>t. RecordsTypeOK
  BY DEF RecordsInv
<1>1. ASSUME cots \subseteq cots', points \subseteq points',
             \A r \in rows : \E s \in rows' : s.id = r.id /\ s.kind = r.kind,
             cots' \cup points' = cots \cup points \/ parser' # parser
      PROVE  NothingFreshGoes
  <2>1. Vanished(cots, cots') = {} /\ Vanished(points, points') = {}
    BY <1>1 DEF Vanished
  <2>2. \A k \in Kinds : Vanished(Of(k), Of(k)') = {}
    BY <1>1 DEF Vanished, Of
  <2> QED
    BY <1>1, <2>1, <2>2 DEF NothingFreshGoes
<1>2. CASE UNCHANGED recordsVars
  <2>1. RecordsTypeOK' /\ RowsInOrder' /\ Links' /\ JustStored'
    BY <1>2 DEF recordsVars, RecordsInv, RecordsTypeOK, RowsInOrder, StoredInTime, InOrder, InTime, Of, Links, JustStored, Unrecorded
  <2>2. JobInv'
    BY <1>2 DEF recordsVars, RecordsInv, JobInv, BoundaryInv, BatchInv, BatchOf, BatchOfPoints, BatchOfCots,
       BatchOfRecords, Overdue, AgedBy, Of, Unrecorded
  <2> QED
    BY <1>2, <2>1, <2>2 DEF RecordsInv
<1>3. CASE InsertCot
  <2>1. parser'.step # parser.step /\ points' = points /\ rows' = rows /\ cots \subseteq cots'
    BY <1>t, <1>3 DEF InsertCot, RecordsTypeOK
  <2> QED
    BY <1>1, <1>3, <2>1, InsertCotKeepsRecordsInv
<1>4. CASE ParsePoint
  <2>1. parser'.step # parser.step /\ cots' = cots /\ rows' = rows /\ points \subseteq points'
    BY <1>t, <1>4 DEF ParsePoint, RecordsTypeOK
  <2> QED
    BY <1>1, <1>4, <2>1, ParsePointKeepsRecordsInv
<1>5. CASE PointFails \/ RecordFails \/ Route \/ ParserDies
  <2>1. UNCHANGED storeVars
    BY <1>5 DEF PointFails, RecordFails, Nack, Route, ParserDies
  <2> QED
    BY <1>1, <1>5, <2>1, EndKeepsRecordsInv DEF storeVars
<1>6. CASE ParseChat \/ ParseAlert \/ ParseCancel \/ ParseCasevac \/ ParseMarker \/ ParseLine
  <2>1. cots' = cots /\ points' = points
    BY <1>6 DEF ParseChat, ParseAlert, ParseCancel, ParseCasevac, ParseMarker, ParseLine, Parsing
  <2> QED
    BY <1>1, <1>6, <2>1, ParseKeepsRecordsInv
<1>7. CASE SelectBatch \/ PurgeFails \/ EndRun
  <2>1. UNCHANGED storeVars
    BY <1>7 DEF SelectBatch, PurgeFails, EndRun
  <2> QED
    BY <1>1, <1>7, <2>1, SelectKeepsRecordsInv, JobKeepsRecordsInv DEF storeVars
<1>8. CASE DeleteBatch
  <2>1. late' = late
    BY <1>8 DEF DeleteBatch, RecordsUnchanged
  <2>2. NothingFreshGoes
    BY <1>8, <2>1, BatchTakesNothingFresh DEF NothingFreshGoes
  <2> QED
    BY <1>8, <2>2, JobKeepsRecordsInv
<1>9. CASE Tick
  <2>1. UNCHANGED storeVars
    BY <1>9 DEF Tick
  <2> QED
    BY <1>1, <1>9, <2>1, TickKeepsRecordsInv DEF storeVars
<1> QED
  BY <1>2, <1>3, <1>4, <1>5, <1>6, <1>7, <1>8, <1>9 DEF RecordsNext

(* Whatever devices send, however their clocks are wrong, and however the parser, the
   job and their failures take turns: a purge removes nothing that was stored within the
   time it is kept for, and takes no record along. *)
THEOREM FreshRowsStay == ASSUME ParsedInTime PROVE RecordsSpec => FreshStays
<1>1. RecordsInit => RecordsInv
  BY RecordsStart
<1>2. RecordsInv /\ [RecordsNext]_recordsVars => RecordsInv' /\ [NothingFreshGoes]_recordsVars
  BY RecordsStep
<1> QED
  BY <1>1, <1>2, PTL DEF RecordsSpec, FreshStays
=============================================================================
