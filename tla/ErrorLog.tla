------------------------------ MODULE ErrorLog ------------------------------
(* What an administrator's page gets of the log of one service: the entries that
   polls return, while the service writes, rotates and loses its files. A poll lists
   the folder, notes how far each file goes (the cursor), reads what is new since the
   cursor of the poll before, and answers; a file is opened by its path every time,
   and known by its inode.

   A file is the number of its complete lines; every line is an entry that the page
   asks for. `text` tells the files that were ever written apart, so that an entry
   is a file's text and its place. The web application serves one poll at a time and
   the services write in processes of their own. *)
EXTENDS Integers, FiniteSets

CONSTANTS
    Inodes,      \* numbers a file system gives; a free one is used again
    Live, Backup, \* <source>.log, and the last <source>.log.<date>
    Limit,       \* entries a poll returns at most
    MaxLines,    \* bound on the lines of a file
    MaxTexts     \* bound on the files ever written

ASSUME ErrorLogAssumption ==
    /\ "none" \notin Inodes /\ Live # Backup
    /\ Limit \in Nat \ {0} /\ MaxLines \in Nat /\ MaxTexts \in Nat

VARIABLES
    dir,      \* path -> inode of the file there, or "none"
    file,     \* inode -> [text, lines] of the file that has it
    texts,    \* files ever written
    poll,     \* the poll under way: where it is, and what it found for each path
    cursor,   \* what the page sends with its next poll: inode -> [end, head]
    shown,    \* entries the page was sent
    lost      \* texts the poll mistook for others, or cut

errorLogVars == <<dir, file, texts, poll, cursor, shown, lost>>

LogPaths == {Live, Backup}
NoFile == [text |-> 0, lines |-> 0]
Unknown == [ino |-> "none", name |-> 0, size |-> 0, end |-> 0, head |-> <<>>]
NoPoll == [at |-> "idle", info |-> [p \in LogPaths |-> Unknown]]
Existing == {dir[p] : p \in LogPaths} \ {"none"}

(* CRC32 of a file's first bytes, at most the first `n` lines: nothing tells two
   empty heads apart. *)
HeadCrc(f, n) == IF n = 0 THEN <<>> ELSE <<f.text>>
At(p) == file[dir[p]]

(* The name a file has in the folder: a backup has the date of its text. *)
Name(p) == IF p = Live THEN 0 ELSE At(p).text

(* The page has the cursor of an earlier poll; its first has none, and reads all. *)
NotNoted == [end |-> 0, head |-> <<>>]

ErrorLogInit ==
    /\ \E i \in Inodes :
          /\ dir = [p \in LogPaths |-> IF p = Live THEN i ELSE "none"]
          /\ file = [j \in Inodes |-> IF j = i THEN [text |-> 1, lines |-> 0] ELSE NoFile]
    /\ texts = 1
    /\ poll = NoPoll
    /\ cursor = [i \in Inodes |-> NotNoted]
    /\ shown = {} /\ lost = {}
-----------------------------------------------------------------------------
(* A service writes a line, to the file it has open: the live one, or one that was
   rotated away meanwhile. *)
WriteLine(i) ==
    /\ i \in Existing /\ file[i].lines < MaxLines
    /\ file' = [file EXCEPT ![i].lines = @ + 1]
    /\ UNCHANGED <<dir, texts, poll, cursor, shown, lost>>

(* The oldest backup goes, the live file takes its place, and a new one is made; its
   inode may be the one just freed. *)
Rotate ==
    /\ texts < MaxTexts
    /\ texts' = texts + 1
    /\ \E i \in Inodes \ {dir[Live]} :
          /\ dir' = [p \in LogPaths |-> IF p = Live THEN i ELSE dir[Live]]
          /\ file' = [j \in Inodes |->
                        IF j = i THEN [text |-> texts', lines |-> 0]
                        ELSE IF j = dir[Live] THEN file[j] ELSE NoFile]
    /\ UNCHANGED <<poll, cursor, shown, lost>>

(* copytruncate: the file is emptied under its inode and written again. *)
Truncate ==
    /\ texts < MaxTexts
    /\ texts' = texts + 1
    /\ file' = [file EXCEPT ![dir[Live]] = [text |-> texts', lines |-> 0]]
    /\ UNCHANGED <<dir, poll, cursor, shown, lost>>
-----------------------------------------------------------------------------
(* discover_files: the inode and the size of what is at each path. *)
Discover ==
    /\ poll.at = "idle"
    /\ poll' = [at |-> "listed", info |-> [p \in LogPaths |->
           IF dir[p] = "none" THEN Unknown
           ELSE [Unknown EXCEPT !.ino = dir[p], !.name = Name(p), !.size = At(p).lines]]]
    /\ UNCHANGED <<dir, file, texts, cursor, shown, lost>>

(* The path that was listed can be opened; what is there now may be another file. *)
Present(p) == poll.info[p].ino # "none" /\ poll.info[p].name = Name(p)

(* snapshot: how far the complete lines go and the head up to there, of whatever is at
   the path now. A file that cannot be opened is not in the new cursor. *)
Snapshot ==
    /\ poll.at = "listed"
    /\ poll' = [at |-> "noted", info |-> [p \in LogPaths |->
           IF ~Present(p) THEN Unknown
           ELSE LET end == IF poll.info[p].size < At(p).lines THEN poll.info[p].size ELSE At(p).lines
                IN [poll.info[p] EXCEPT !.end = end, !.head = HeadCrc(At(p), end)]]]
    /\ UNCHANGED <<dir, file, texts, cursor, shown, lost>>

(* Mutant: an inode that is in the cursor is the file that was there. *)
StartByInode(p) ==
    LET info == poll.info[p]  noted == cursor[info.ino] IN
    IF noted.end <= info.end THEN noted.end ELSE 0

(* Where a poll begins to read the file at a path: after what the cursor notes, if it
   is of this file, else at the start. *)
StartOf(p) ==
    LET info == poll.info[p]  noted == cursor[info.ino] IN
    IF noted.end = info.end /\ noted.head = info.head THEN info.end
    ELSE IF noted.end < info.end /\ HeadCrc(At(p), noted.end) = noted.head THEN noted.end
    ELSE 0

(* What read_backwards finds: the lines of the file that is there now. *)
ReadLines(p) ==
    IF ~Present(p) THEN {}
    ELSE {<<At(p).text, n>> : n \in (StartOf(p) + 1) ..
             (IF poll.info[p].end < At(p).lines THEN poll.info[p].end ELSE At(p).lines)}

(* The newest entries: of the newest file, and there the last. *)
Newer(x, y) == x[1] > y[1] \/ (x[1] = y[1] /\ x[2] > y[2])
Newest(S) == {x \in S : Cardinality({y \in S : Newer(y, x)}) < Limit}

(* What the poll noted at a path is not what it reads there: the files moved. *)
Mistaken(p) ==
    Present(p) /\ (dir[p] # poll.info[p].ino \/ HeadCrc(At(p), poll.info[p].end) # poll.info[p].head)

(* The answer: the newest entries and the new cursor, which covers what it left out. *)
Answer ==
    /\ poll.at = "noted"
    /\ LET found == UNION {ReadLines(p) : p \in LogPaths} IN
       /\ shown' = shown \cup Newest(found)
       /\ lost' = lost \cup {x[1] : x \in found \ Newest(found)}
                       \cup {file[poll.info[p].ino].text : p \in {q \in LogPaths : Mistaken(q)}}
    /\ cursor' = [i \in Inodes |->
           IF \E p \in LogPaths : poll.info[p].ino = i
           THEN LET info == poll.info[CHOOSE p \in LogPaths : poll.info[p].ino = i]
                IN [end |-> info.end, head |-> info.head]
           ELSE NotNoted]
    /\ poll' = NoPoll
    /\ UNCHANGED <<dir, file, texts>>
-----------------------------------------------------------------------------
ErrorLogNext ==
    \/ \E i \in Inodes : WriteLine(i)
    \/ Rotate \/ Truncate \/ Discover \/ Snapshot \/ Answer

ErrorLogSpec == ErrorLogInit /\ [][ErrorLogNext]_errorLogVars
-----------------------------------------------------------------------------
(* What the page's cursor has passed, the page was sent: whatever is written, rotated,
   deleted, truncated or put under an old inode between its polls and while they run.
   The exceptions are entries over a poll's limit, and files that were moved between
   the two times one poll opened them. *)
PassedWasShown ==
    \A i \in Existing : \A n \in 1 .. cursor[i].end :
        \/ n > file[i].lines
        \/ HeadCrc(file[i], cursor[i].end) # cursor[i].head
        \/ file[i].text \in lost
        \/ <<file[i].text, n>> \in shown

(* "Rotation renames files, which keeps the inode, so it is handled naturally": not so
   for one during a poll. *)
PassedWasShownAlways ==
    \A i \in Existing : \A n \in 1 .. cursor[i].end :
        \/ n > file[i].lines
        \/ HeadCrc(file[i], cursor[i].end) # cursor[i].head
        \/ <<file[i].text, n>> \in shown
=============================================================================
