---------------------------- MODULE TrafficProofs ----------------------------
(* Theorems about what passes the server and what is noted of it: the counters of
   Metrics, the log of ErrorLog, the rows of FederatedDevices, the ids of Meshtastic
   and the messages of OfflineChat, for every value of their constants. *)
EXTENDS Metrics, ErrorLog, FederatedDevices, Meshtastic, OfflineChat, FiniteSetTheorems,
        SequenceTheorems, TLAPS

(* The counters. *)
FlushStates == [at : {"idle", "read", "written", "over"}, seen : Int, delta : Int]
MetricsTypeOK ==
    /\ counted \in Int /\ values \in Int /\ flushed \in Int /\ table \in Int /\ unseen \in Int
    /\ flush \in [Flushers -> FlushStates]
    /\ doubtful \in BOOLEAN

\* As long as nothing is in doubt, at most one flush is under way, and it has the growth
\* since what was noted last.
OneFlush ==
    doubtful \/
    /\ \A f, g \in Flushers : {flush[f].at, flush[g].at} \subseteq {"read", "written"} => f = g
    /\ \A f \in Flushers :
          flush[f].at \in {"read", "written"} => flush[f].delta = flush[f].seen - flushed

MetricsInv == MetricsTypeOK /\ OneFlush /\ CountedOnce

\* What is written and not noted, told without a choice.
LEMMA Written ==
    ASSUME MetricsTypeOK, OneFlush, ~doubtful
    PROVE  /\ \A f \in Flushers : flush[f].at = "written" =>
                  Unwritten = values - flushed - flush[f].delta
           /\ (\A f \in Flushers : flush[f].at # "written") => Unwritten = values - flushed
<1>1. ASSUME NEW f \in Flushers, flush[f].at = "written"
      PROVE  Unwritten = values - flushed - flush[f].delta
  <2>1. \A g \in Flushers : flush[g].at = "written" => g = f
    BY <1>1 DEF OneFlush
  <2>2. (CHOOSE g \in Flushers : flush[g].at = "written") = f
    BY <1>1, <2>1
  <2> QED BY <1>1, <2>2 DEF Unwritten
<1>2. ASSUME \A f \in Flushers : flush[f].at # "written" PROVE Unwritten = values - flushed
  BY <1>2 DEF Unwritten, MetricsTypeOK
<1> QED BY <1>1, <1>2

\* The same after a step.
LEMMA WrittenThen ==
    ASSUME MetricsTypeOK', OneFlush', ~doubtful'
    PROVE  /\ \A f \in Flushers : flush'[f].at = "written" =>
                  Unwritten' = values' - flushed' - flush'[f].delta
           /\ (\A f \in Flushers : flush'[f].at # "written") => Unwritten' = values' - flushed'
<1>1. ASSUME NEW f \in Flushers, flush'[f].at = "written"
      PROVE  Unwritten' = values' - flushed' - flush'[f].delta
  <2>1. \A g \in Flushers : flush'[g].at = "written" => g = f
    BY <1>1 DEF OneFlush
  <2>2. (CHOOSE g \in Flushers : flush'[g].at = "written") = f
    BY <1>1, <2>1
  <2> QED BY <1>1, <2>2 DEF Unwritten
<1>2. ASSUME \A f \in Flushers : flush'[f].at # "written" PROVE Unwritten' = values' - flushed'
  BY <1>2 DEF Unwritten, MetricsTypeOK
<1> QED BY <1>1, <1>2

LEMMA MetricsSteps == MetricsInv /\ [MetricsNext]_metricsVars => MetricsInv'
<1> SUFFICES ASSUME MetricsInv, [MetricsNext]_metricsVars PROVE MetricsInv'
  OBVIOUS
<1>t. MetricsTypeOK /\ OneFlush
  BY DEF MetricsInv
<1>u. Unwritten \in Int
  <2>1. CASE \E f \in Flushers : flush[f].at = "written"
    <3>1. (CHOOSE f \in Flushers : flush[f].at = "written") \in Flushers
      BY <2>1
    <3> QED BY <1>t, <2>1, <3>1 DEF Unwritten, MetricsTypeOK, FlushStates
  <2>2. CASE ~\E f \in Flushers : flush[f].at = "written"
    BY <1>t, <2>2 DEF Unwritten, MetricsTypeOK
  <2> QED BY <2>1, <2>2
<1>0. ASSUME NEW f \in Flushers, flush[f].at \in {"read", "written"}, ~doubtful
      PROVE  \A g \in Flushers \ {f} : flush[g].at \notin {"read", "written"}
  BY <1>0, <1>t DEF OneFlush
<1>z. NoFlush \in FlushStates /\ NoFlush.at = "idle"
  BY DEF NoFlush, FlushStates
<1>o. \A f \in Flushers : Over(f) \in FlushStates /\ Over(f).at \in {"idle", "over"}
  BY DEF Over, NoFlush, FlushStates
<1>f. ASSUME NEW f \in Flushers
      PROVE  flush[f] \in FlushStates /\ flush[f].delta \in Int /\ flush[f].seen \in Int
  BY <1>t DEF MetricsTypeOK, FlushStates
<1>1. CASE Inc
  <2>1. MetricsTypeOK' /\ OneFlush'
    BY <1>1, <1>t DEF Inc, MetricsTypeOK, OneFlush
  <2>2. ~doubtful => Unwritten' = Unwritten + (values' - values)
    <3>1. ASSUME ~doubtful, NEW f \in Flushers, flush[f].at = "written"
          PROVE  Unwritten' = Unwritten + (values' - values)
      <4>1. Unwritten = values - flushed - flush[f].delta
        BY <1>t, <3>1, Written
      <4>2. Unwritten' = values' - flushed' - flush'[f].delta
        BY <1>1, <2>1, <3>1, WrittenThen DEF Inc
      <4> QED BY <1>1, <1>t, <1>f, <2>1, <4>1, <4>2 DEF Inc, MetricsTypeOK
    <3>2. ASSUME ~doubtful, \A f \in Flushers : flush[f].at # "written"
          PROVE  Unwritten' = Unwritten + (values' - values)
      <4>1. Unwritten = values - flushed
        BY <1>t, <3>2, Written
      <4>2. Unwritten' = values' - flushed'
        BY <1>1, <2>1, <3>2, WrittenThen DEF Inc
      <4> QED BY <1>1, <1>t, <2>1, <4>1, <4>2 DEF Inc, MetricsTypeOK
    <3> QED BY <3>1, <3>2
  <2> QED BY <1>1, <1>t, <1>u, <2>1, <2>2 DEF Inc, MetricsInv, MetricsTypeOK, CountedOnce
<1>2. CASE Restart
  <2>1. MetricsTypeOK' /\ OneFlush'
    BY <1>2, <1>t, <1>u, <1>z DEF Restart, MetricsTypeOK, OneFlush
  <2>2. Unwritten' = 0
    BY <1>2, <1>z DEF Restart, Unwritten
  <2> QED BY <1>2, <1>t, <1>u, <2>1, <2>2 DEF Restart, MetricsInv, MetricsTypeOK, CountedOnce
<1>3. ASSUME NEW f \in Flushers, BeginFlush(f) PROVE MetricsInv'
  <2> DEFINE new == [at |-> "read", seen |-> values, delta |-> values - flushed]
  <2>1. new \in FlushStates
    BY <1>t DEF FlushStates, MetricsTypeOK
  <2>2. flush' = [flush EXCEPT ![f] = new]
    BY <1>3 DEF BeginFlush
  <2>3. MetricsTypeOK'
    BY <1>3, <1>t, <2>1, <2>2 DEF BeginFlush, MetricsTypeOK
  <2>4. OneFlush'
    <3>1. ASSUME ~doubtful' PROVE \A g \in Flushers : flush[g].at = "idle"
      BY <1>3, <3>1, <1>t DEF BeginFlush, MetricsTypeOK
    <3>2. flush'[f] = new /\ \A g \in Flushers \ {f} : flush'[g] = flush[g]
      BY <1>t, <2>2 DEF MetricsTypeOK
    <3>3. ASSUME ~doubtful', NEW g \in Flushers, flush'[g].at \in {"read", "written"}
          PROVE  g = f /\ flush'[g].delta = flush'[g].seen - flushed'
      BY <1>3, <3>1, <3>2, <3>3 DEF BeginFlush
    <3> QED BY <3>3 DEF OneFlush
  <2>5. ASSUME ~doubtful' PROVE Unwritten' = Unwritten
    <3>1. ~doubtful /\ \A g \in Flushers : flush[g].at = "idle"
      BY <1>3, <2>5, <1>t DEF BeginFlush, MetricsTypeOK
    <3>2. \A g \in Flushers : flush'[g].at # "written"
      BY <2>2, <3>1, <1>t DEF MetricsTypeOK
    <3> QED BY <1>3, <1>t, <2>3, <2>4, <2>5, <3>1, <3>2, Written, WrittenThen DEF BeginFlush
  <2> QED BY <1>3, <2>3, <2>4, <2>5 DEF BeginFlush, MetricsInv, CountedOnce
<1>4. ASSUME NEW f \in Flushers, Commit(f) PROVE MetricsInv'
  <2>0. flush[f].at = "read" /\ table' = table + flush[f].delta
    BY <1>4 DEF Commit
  <2>1. /\ flush'[f].at = "written" /\ flush'[f].delta = flush[f].delta
        /\ flush'[f].seen = flush[f].seen /\ flush'[f] \in FlushStates
        /\ \A g \in Flushers \ {f} : flush'[g] = flush[g]
        /\ flush' = [g \in Flushers |-> flush'[g]]
    BY <1>4, <1>t DEF Commit, MetricsTypeOK, FlushStates
  <2>2. MetricsTypeOK'
    <3>1. flush' \in [Flushers -> FlushStates]
      BY <1>f, <2>1
    <3> QED BY <1>4, <1>t, <1>f, <3>1 DEF Commit, MetricsTypeOK
  <2>3. OneFlush'
    BY <1>4, <1>t, <2>0, <2>1 DEF Commit, OneFlush
  <2>4. ASSUME ~doubtful PROVE Unwritten' = Unwritten - flush[f].delta
    <3>1. Unwritten = values - flushed
      <4>1. \A g \in Flushers : flush[g].at # "written"
        BY <1>0, <2>0, <2>4
      <4> QED BY <1>t, <2>4, <4>1, Written
    <3>2. Unwritten' = values' - flushed' - flush'[f].delta
      BY <1>4, <2>1, <2>2, <2>3, <2>4, WrittenThen DEF Commit
    <3> QED BY <1>4, <2>1, <3>1, <3>2 DEF Commit
  <2> QED BY <1>4, <1>t, <1>u, <1>f, <2>0, <2>2, <2>3, <2>4 DEF Commit, MetricsInv, MetricsTypeOK, CountedOnce
\* A flush that is over, in this way or that.
<1>5. ASSUME NEW f \in Flushers, flush' = [flush EXCEPT ![f] = Over(f)], flushed' \in Int,
             doubtful' \in BOOLEAN, UNCHANGED <<counted, values, table, unseen>>,
             doubtful => doubtful',
             ~doubtful' => \/ flush[f].at = "read" /\ flushed' = flushed
                           \/ flush[f].at = "written" /\ flushed' = flush[f].seen
      PROVE  MetricsInv'
  <2>1. MetricsTypeOK'
    BY <1>5, <1>t, <1>o DEF MetricsTypeOK
  <2>2. flush'[f] = Over(f) /\ \A g \in Flushers \ {f} : flush'[g] = flush[g]
    BY <1>5, <1>t DEF MetricsTypeOK
  <2>3. ~doubtful' => \A g \in Flushers : flush'[g].at \notin {"read", "written"}
    BY <1>0, <1>5, <1>o, <2>2
  <2>4. OneFlush'
    BY <2>3 DEF OneFlush
  <2>5. ASSUME ~doubtful' PROVE Unwritten' = Unwritten
    <3>1. Unwritten' = values - flushed'
      BY <1>5, <2>1, <2>3, <2>4, <2>5, WrittenThen
    <3>2. CASE flush[f].at = "read" /\ flushed' = flushed
      <4>1. \A g \in Flushers : flush[g].at # "written"
        BY <1>0, <1>5, <2>5, <3>2
      <4> QED BY <1>5, <1>t, <2>5, <3>1, <3>2, <4>1, Written
    <3>3. CASE flush[f].at = "written" /\ flushed' = flush[f].seen
      <4>1. Unwritten = values - flushed - flush[f].delta
        BY <1>5, <1>t, <2>5, <3>3, Written
      <4>2. flush[f].delta = flush[f].seen - flushed
        BY <1>5, <1>t, <2>5, <3>3 DEF OneFlush
      <4> QED BY <1>t, <1>f, <3>1, <3>3, <4>1, <4>2 DEF MetricsTypeOK
    <3> QED BY <1>5, <2>5, <3>2, <3>3
  <2> QED BY <1>5, <2>1, <2>4, <2>5 DEF MetricsInv, CountedOnce
<1>6. ASSUME NEW f \in Flushers, CommitFails(f) \/ AnswerLost(f) \/ Note(f) PROVE MetricsInv'
  <2>1. CASE CommitFails(f)
    BY <1>5, <1>t, <2>1 DEF CommitFails, MetricsTypeOK
  <2>2. CASE AnswerLost(f)
    BY <1>5, <1>t, <2>2 DEF AnswerLost, MetricsTypeOK
  <2>3. CASE Note(f)
    BY <1>5, <1>t, <1>f, <2>3 DEF Note, MetricsTypeOK
  <2> QED BY <1>6, <2>1, <2>2, <2>3
<1>7. CASE UNCHANGED metricsVars
  BY <1>7 DEF metricsVars, MetricsInv, MetricsTypeOK, OneFlush, CountedOnce, Unwritten
<1> QED BY <1>1, <1>2, <1>3, <1>4, <1>6, <1>7 DEF MetricsNext

(* metrics.py: every message is counted once, in the table, in memory or in none, through
   every order of counting, flushing, failed writes and restarts, unless two flushes
   overlapped or the answer to a commit was lost. *)
THEOREM MessagesAreCountedOnce == MetricsSpec => []CountedOnce
<1>1. MetricsInit => MetricsInv
  <2> SUFFICES ASSUME MetricsInit PROVE MetricsInv
    OBVIOUS
  <2>1. MetricsTypeOK /\ OneFlush
    <3>1. NoFlush \in FlushStates /\ NoFlush.at = "idle"
      BY DEF FlushStates, NoFlush
    <3>2. MetricsTypeOK
      <4>1. flush \in [Flushers -> FlushStates]
        BY <3>1 DEF MetricsInit
      <4>2. counted \in Int /\ values \in Int /\ flushed \in Int /\ table \in Int /\ unseen \in Int
        BY DEF MetricsInit
      <4>3. doubtful \in BOOLEAN
        BY DEF MetricsInit
      <4> QED BY <4>1, <4>2, <4>3 DEF MetricsTypeOK
    <3>3. \A f \in Flushers : flush[f].at = "idle"
      BY <3>1 DEF MetricsInit
    <3> QED BY <3>2, <3>3 DEF OneFlush
  <2>2. \A f \in Flushers : flush[f].at # "written"
    BY DEF MetricsInit, NoFlush
  <2>3. Unwritten = 0
    BY <2>1, <2>2, Written DEF MetricsInit
  <2> QED BY <2>1, <2>3 DEF MetricsInit, MetricsInv, CountedOnce
<1>2. MetricsInv => CountedOnce
  BY DEF MetricsInv
<1> QED BY <1>1, <1>2, MetricsSteps, PTL DEF MetricsSpec

(* The log. *)
Heads == {<<>>} \cup {<<n>> : n \in Nat}
PollInfo == [ino : Inodes \cup {"none"}, name : Nat, size : Nat, end : Nat, head : Heads]
ErrorLogTypeOK ==
    /\ dir \in [LogPaths -> Inodes \cup {"none"}]
    /\ file \in [Inodes -> [text : Nat, lines : Nat]]
    /\ texts \in Nat \ {0}
    /\ poll \in [at : {"idle", "listed", "noted"}, info : [LogPaths -> PollInfo]]
    /\ cursor \in [Inodes -> [end : Nat, head : Heads]]

\* The live file is the newest, the backup is older, and there is no other.
NewestIsLive ==
    /\ dir[Live] \in Inodes /\ dir[Live] # dir[Backup]
    /\ file[dir[Live]].text = texts
    /\ dir[Backup] # "none" => file[dir[Backup]].text \in 1 .. (texts - 1)
    /\ \A i \in Inodes : file[i].text # 0 => i \in {dir[Live], dir[Backup]}

\* What a poll has listed are two files; the backup had been the live one.
ListedApart ==
    /\ poll.info[Live].ino = poll.info[Backup].ino => poll.info[Live].ino = "none"
    /\ poll.info[Live].name = 0
    /\ poll.info[Backup].ino # "none" => dir[Backup] # "none" /\ poll.info[Backup].name < texts

\* What it noted of a file is true of it as long as there is such a file.
NotedIsThere ==
    \A p \in LogPaths : poll.info[p].end # 0 =>
        /\ poll.at = "noted" /\ poll.info[p].ino # "none"
        /\ \E n \in 1 .. texts : poll.info[p].head = <<n>>
        /\ \A i \in Inodes : poll.info[p].head = <<file[i].text>> => file[i].lines >= poll.info[p].end
        /\ p = Backup => poll.info[p].head = <<poll.info[p].name>>

\* What the cursor has passed of a file that is still under its inode, was shown.
PassedOfIts ==
    \A i \in Inodes : cursor[i].end # 0 =>
        /\ \E n \in 1 .. texts : cursor[i].head = <<n>>
        /\ cursor[i].head = <<file[i].text>> =>
              \/ file[i].text \in lost
              \/ \A n \in 1 .. cursor[i].end : <<file[i].text, n>> \in shown

ErrorLogInv == ErrorLogTypeOK /\ NewestIsLive /\ ListedApart /\ NotedIsThere /\ PassedOfIts

LEMMA ErrorLogStart == ErrorLogInit => ErrorLogInv
<1> SUFFICES ASSUME ErrorLogInit PROVE ErrorLogInv
  OBVIOUS
<1> USE ErrorLogAssumption
<1>1. PICK i \in Inodes :
        /\ dir = [p \in LogPaths |-> IF p = Live THEN i ELSE "none"]
        /\ file = [j \in Inodes |-> IF j = i THEN [text |-> 1, lines |-> 0] ELSE NoFile]
  BY DEF ErrorLogInit
<1>2. /\ texts = 1 /\ poll = NoPoll /\ cursor = [j \in Inodes |-> NotNoted]
  BY DEF ErrorLogInit
<1>3. dir[Live] = i /\ dir[Backup] = "none" /\ dir \in [LogPaths -> Inodes \cup {"none"}]
  BY <1>1 DEF LogPaths
<1>4. /\ file[i].text = 1 /\ \A j \in Inodes \ {i} : file[j].text = 0
      /\ file \in [Inodes -> [text : Nat, lines : Nat]]
  BY <1>1 DEF NoFile
<1>5. /\ poll.at = "idle" /\ \A p \in LogPaths : poll.info[p] = Unknown
      /\ Unknown \in PollInfo /\ poll \in [at : {"idle", "listed", "noted"}, info : [LogPaths -> PollInfo]]
  <2>1. Unknown \in PollInfo
    BY DEF Unknown, PollInfo, Heads
  <2> QED BY <1>2, <2>1 DEF NoPoll
<1>6. /\ NotNoted.end = 0 /\ NotNoted \in [end : Nat, head : Heads]
      /\ Unknown.ino = "none" /\ Unknown.end = 0 /\ Unknown.name = 0
  BY DEF NotNoted, Heads, Unknown
<1>7. \A j \in Inodes : cursor[j].end = 0
  BY <1>2, <1>6
<1>8. ErrorLogTypeOK
  BY <1>2, <1>3, <1>4, <1>5, <1>6 DEF ErrorLogTypeOK
<1>9. NewestIsLive
  BY <1>2, <1>3, <1>4 DEF NewestIsLive
<1>10. ListedApart /\ NotedIsThere /\ PassedOfIts
  BY <1>3, <1>5, <1>6, <1>7 DEF ListedApart, NotedIsThere, PassedOfIts, LogPaths
<1> QED BY <1>8, <1>9, <1>10 DEF ErrorLogInv

(* Files that are written, rotated or truncated: texts only come anew, and a text keeps
   its lines as long as there is a file of it. *)
LEMMA FilesMove ==
    ASSUME ErrorLogInv, NewestIsLive', texts' \in Nat \ {0}, texts' >= texts,
           dir' \in [LogPaths -> Inodes \cup {"none"}],
           file' \in [Inodes -> [text : Nat, lines : Nat]],
           dir[Backup] # "none" => dir'[Backup] # "none",
           \A i \in Inodes : \/ file'[i].text \in {0} \cup (texts + 1) .. texts'
                             \/ /\ file'[i].text = file[i].text
                                /\ file'[i].lines >= file[i].lines,
           UNCHANGED <<poll, cursor, shown, lost>>
    PROVE  ErrorLogInv'
<1>1. ErrorLogTypeOK'
  BY DEF ErrorLogInv, ErrorLogTypeOK
<1>2. ListedApart'
  BY DEF ErrorLogInv, ErrorLogTypeOK, ListedApart, PollInfo, LogPaths
<1>3. NotedIsThere'
  <2>1. ASSUME NEW p \in LogPaths, poll.info[p].end # 0
        PROVE  /\ poll.at = "noted" /\ poll.info[p].ino # "none"
               /\ \E n \in 1 .. texts' : poll.info[p].head = <<n>>
               /\ \A i \in Inodes : poll.info[p].head = <<file'[i].text>> =>
                     file'[i].lines >= poll.info[p].end
               /\ p = Backup => poll.info[p].head = <<poll.info[p].name>>
    <3>1. PICK n \in 1 .. texts : poll.info[p].head = <<n>>
      BY <2>1 DEF ErrorLogInv, NotedIsThere
    <3>2. ASSUME NEW i \in Inodes, poll.info[p].head = <<file'[i].text>>
          PROVE  file'[i].lines >= poll.info[p].end
      <4>1. file'[i].text = n
        BY <3>1, <3>2
      <4>2. file'[i].text = file[i].text /\ file'[i].lines >= file[i].lines
        BY <3>1, <4>1 DEF ErrorLogInv, ErrorLogTypeOK
      <4>3. file[i].lines >= poll.info[p].end
        BY <2>1, <3>2, <4>2 DEF ErrorLogInv, NotedIsThere
      <4>4. file[i].lines \in Nat /\ file'[i].lines \in Nat /\ poll.info[p].end \in Nat
        BY DEF ErrorLogInv, ErrorLogTypeOK, PollInfo
      <4> QED BY <4>2, <4>3, <4>4
    <3>3. n \in 1 .. texts'
      BY <3>1 DEF ErrorLogInv, ErrorLogTypeOK
    <3> QED BY <2>1, <3>1, <3>2, <3>3 DEF ErrorLogInv, NotedIsThere
  <2> QED BY <2>1 DEF NotedIsThere
<1>4. PassedOfIts'
  <2>1. ASSUME NEW i \in Inodes, cursor[i].end # 0
        PROVE  /\ \E n \in 1 .. texts' : cursor[i].head = <<n>>
               /\ cursor[i].head = <<file'[i].text>> =>
                     \/ file'[i].text \in lost
                     \/ \A n \in 1 .. cursor[i].end : <<file'[i].text, n>> \in shown
    <3>1. PICK n \in 1 .. texts : cursor[i].head = <<n>>
      BY <2>1 DEF ErrorLogInv, PassedOfIts
    <3>2. ASSUME cursor[i].head = <<file'[i].text>> PROVE file'[i].text = file[i].text
      BY <3>1, <3>2 DEF ErrorLogInv, ErrorLogTypeOK
    <3>3. n \in 1 .. texts'
      BY <3>1 DEF ErrorLogInv, ErrorLogTypeOK
    <3> QED BY <2>1, <3>1, <3>2, <3>3 DEF ErrorLogInv, PassedOfIts
  <2> QED BY <2>1 DEF PassedOfIts
<1> QED BY <1>1, <1>2, <1>3, <1>4 DEF ErrorLogInv

\* The three ways in which files move.
LEMMA ServiceSteps ==
    ASSUME ErrorLogInv, (\E i \in Inodes : WriteLine(i)) \/ Rotate \/ Truncate
    PROVE  ErrorLogInv'
<1> USE ErrorLogAssumption
<1>0. /\ dir \in [LogPaths -> Inodes \cup {"none"}] /\ file \in [Inodes -> [text : Nat, lines : Nat]]
      /\ texts \in Nat \ {0} /\ dir[Live] \in Inodes /\ dir[Live] # dir[Backup]
      /\ file[dir[Live]].text = texts
      /\ dir[Backup] # "none" => dir[Backup] \in Inodes /\ file[dir[Backup]].text \in 1 .. (texts - 1)
      /\ \A i \in Inodes : file[i].text # 0 => i \in {dir[Live], dir[Backup]}
      /\ \A i \in Inodes : file[i].text \in Nat /\ file[i].lines \in Nat
  BY DEF ErrorLogInv, ErrorLogTypeOK, NewestIsLive, LogPaths
<1>1. ASSUME NEW i \in Inodes, WriteLine(i) PROVE ErrorLogInv'
  <2>1. file' = [file EXCEPT ![i].lines = @ + 1] /\ UNCHANGED <<dir, texts, poll, cursor, shown, lost>>
    BY <1>1 DEF WriteLine
  <2>2. \A x \in [text : Nat, lines : Nat] : \A z : z = [x EXCEPT !.lines = x.lines + 1] =>
           z \in [text : Nat, lines : Nat] /\ z.text = x.text /\ z.lines = x.lines + 1
    OBVIOUS
  <2>3. /\ file' \in [Inodes -> [text : Nat, lines : Nat]]
        /\ \A j \in Inodes : file'[j].text = file[j].text /\ file'[j].lines >= file[j].lines
    <3>1. file' = [file EXCEPT ![i] = [file[i] EXCEPT !.lines = file[i].lines + 1]]
      BY <1>0, <2>1
    <3>2. file'[i] = [file[i] EXCEPT !.lines = file[i].lines + 1]
      BY <1>0, <3>1
    <3>3. /\ file'[i] \in [text : Nat, lines : Nat] /\ file'[i].text = file[i].text
          /\ file'[i].lines = file[i].lines + 1
      BY <1>0, <2>2, <3>2
    <3>4. \A j \in Inodes \ {i} : file'[j] = file[j]
      BY <1>0, <3>1
    <3>5. file' = [j \in Inodes |-> file'[j]]
      BY <1>0, <3>1
    <3> QED BY <1>0, <3>3, <3>4, <3>5
  <2>4. NewestIsLive'
    BY <1>0, <2>1, <2>3 DEF NewestIsLive
  <2> QED BY <1>0, <2>1, <2>3, <2>4, FilesMove
<1>2. CASE Rotate
  <2>1. PICK i \in Inodes \ {dir[Live]} :
          /\ dir' = [p \in LogPaths |-> IF p = Live THEN i ELSE dir[Live]]
          /\ file' = [j \in Inodes |->
                        IF j = i THEN [text |-> texts', lines |-> 0]
                        ELSE IF j = dir[Live] THEN file[j] ELSE NoFile]
    BY <1>2 DEF Rotate
  <2>2. texts' = texts + 1 /\ UNCHANGED <<poll, cursor, shown, lost>>
    BY <1>2 DEF Rotate
  <2>3. /\ dir'[Live] = i /\ dir'[Backup] = dir[Live] /\ dir' \in [LogPaths -> Inodes \cup {"none"}]
    BY <1>0, <2>1 DEF LogPaths
  <2>4. /\ file' \in [Inodes -> [text : Nat, lines : Nat]]
        /\ file'[i].text = texts' /\ file'[dir[Live]] = file[dir[Live]]
        /\ \A j \in Inodes \ {i, dir[Live]} : file'[j].text = 0
    BY <1>0, <2>1, <2>2 DEF NoFile
  <2>5. NewestIsLive'
    BY <1>0, <2>2, <2>3, <2>4 DEF NewestIsLive
  <2>6. \A j \in Inodes : \/ file'[j].text \in {0} \cup (texts + 1) .. texts'
                          \/ file'[j].text = file[j].text /\ file'[j].lines >= file[j].lines
    BY <1>0, <2>2, <2>4
  <2> QED BY <1>0, <2>2, <2>3, <2>4, <2>5, <2>6, FilesMove
<1>3. CASE Truncate
  <2>1. /\ texts' = texts + 1 /\ UNCHANGED <<dir, poll, cursor, shown, lost>>
        /\ file' = [file EXCEPT ![dir[Live]] = [text |-> texts', lines |-> 0]]
    BY <1>3 DEF Truncate
  <2>2. /\ file' \in [Inodes -> [text : Nat, lines : Nat]] /\ file'[dir[Live]].text = texts'
        /\ \A j \in Inodes \ {dir[Live]} : file'[j] = file[j]
    BY <1>0, <2>1
  <2>3. NewestIsLive'
    BY <1>0, <2>1, <2>2 DEF NewestIsLive
  <2>4. \A j \in Inodes : \/ file'[j].text \in {0} \cup (texts + 1) .. texts'
                          \/ file'[j].text = file[j].text /\ file'[j].lines >= file[j].lines
    BY <1>0, <2>1, <2>2
  <2> QED BY <1>0, <2>1, <2>2, <2>3, <2>4, FilesMove
<1> QED BY <1>1, <1>2, <1>3

LEMMA DiscoverSteps == ErrorLogInv /\ Discover => ErrorLogInv'
<1> SUFFICES ASSUME ErrorLogInv, Discover PROVE ErrorLogInv'
  OBVIOUS
<1> USE ErrorLogAssumption
<1>t. ErrorLogTypeOK /\ NewestIsLive
  BY DEF ErrorLogInv
<1>1. /\ poll' = [at |-> "listed", info |-> [p \in LogPaths |->
           IF dir[p] = "none" THEN Unknown
           ELSE [Unknown EXCEPT !.ino = dir[p], !.name = Name(p), !.size = At(p).lines]]]
      /\ UNCHANGED <<dir, file, texts, cursor, shown, lost>>
  BY DEF Discover
<1>2. ASSUME NEW p \in LogPaths
      PROVE  /\ poll'.info[p] \in PollInfo /\ poll'.info[p].end = 0
             /\ poll'.info[p].ino = dir[p]
             /\ poll'.info[p].name = IF dir[p] = "none" THEN 0 ELSE Name(p)
  <2>1. Unknown \in PollInfo /\ Unknown.ino = "none" /\ Unknown.name = 0 /\ Unknown.end = 0
    BY DEF Unknown, PollInfo, Heads
  <2>2. CASE dir[p] = "none"
    BY <1>1, <2>1, <2>2
  <2>3. CASE dir[p] # "none"
    <3>1. poll'.info[p] = [Unknown EXCEPT !.ino = dir[p], !.name = Name(p), !.size = At(p).lines]
      BY <1>1, <2>3
    <3>2. dir[p] \in Inodes /\ Name(p) \in Nat /\ At(p).lines \in Nat
      BY <1>t, <2>3 DEF ErrorLogTypeOK, Name, At
    <3>3. \A x \in PollInfo : \A z : z = [x EXCEPT !.ino = dir[p], !.name = Name(p), !.size = At(p).lines]
             => z \in PollInfo /\ z.ino = dir[p] /\ z.name = Name(p) /\ z.end = x.end
      BY <3>2 DEF PollInfo
    <3> QED BY <2>1, <2>3, <3>1, <3>3
  <2> QED BY <2>2, <2>3
<1>3. ErrorLogTypeOK'
  BY <1>1, <1>2, <1>t DEF ErrorLogTypeOK
<1>4. ListedApart'
  <2>1. dir[Live] # dir[Backup] /\ Name(Live) = 0
        /\ (dir[Backup] # "none" => Name(Backup) < texts)
    BY <1>t DEF NewestIsLive, Name, At, ErrorLogTypeOK
  <2> QED BY <1>1, <1>2, <2>1 DEF ListedApart, LogPaths
<1>5. NotedIsThere'
  BY <1>2 DEF NotedIsThere
<1>6. NewestIsLive' /\ PassedOfIts'
  BY <1>1 DEF ErrorLogInv, NewestIsLive, PassedOfIts
<1> QED BY <1>3, <1>4, <1>5, <1>6 DEF ErrorLogInv

LEMMA SnapshotSteps == ErrorLogInv /\ Snapshot => ErrorLogInv'
<1> SUFFICES ASSUME ErrorLogInv, Snapshot PROVE ErrorLogInv'
  OBVIOUS
<1> USE ErrorLogAssumption
<1>t. ErrorLogTypeOK /\ NewestIsLive /\ ListedApart
  BY DEF ErrorLogInv
<1>n. /\ \A i \in Inodes : file[i].text \in Nat /\ file[i].lines \in Nat
      /\ dir[Live] \in Inodes /\ dir[Backup] \in Inodes \cup {"none"} /\ texts \in Nat
      /\ \A p \in LogPaths : poll.info[p] \in PollInfo
  BY <1>t DEF ErrorLogTypeOK, NewestIsLive, LogPaths
<1> DEFINE end(p) == IF poll.info[p].size < At(p).lines THEN poll.info[p].size ELSE At(p).lines
<1>1. /\ poll' = [at |-> "noted", info |-> [p \in LogPaths |->
           IF ~Present(p) THEN Unknown
           ELSE [poll.info[p] EXCEPT !.end = end(p), !.head = HeadCrc(At(p), end(p))]]]
      /\ UNCHANGED <<dir, file, texts, cursor, shown, lost>>
  BY DEF Snapshot
<1>2. ASSUME NEW p \in LogPaths, Present(p)
      PROVE  /\ dir[p] \in Inodes /\ end(p) \in Nat /\ end(p) <= At(p).lines
             /\ At(p).text \in 1 .. texts
             /\ HeadCrc(At(p), end(p)) \in Heads
  <2>1. dir[p] \in Inodes
    BY <1>2, <1>t DEF Present, ListedApart, NewestIsLive, LogPaths, ErrorLogTypeOK
  <2>2. At(p).text \in 1 .. texts /\ At(p).lines \in Nat
    BY <1>t, <1>n, <2>1 DEF At, NewestIsLive, LogPaths, ErrorLogTypeOK
  <2>3. poll.info[p].size \in Nat
    BY <1>n DEF PollInfo
  <2> QED BY <2>1, <2>2, <2>3 DEF HeadCrc, Heads
<1>3. ASSUME NEW p \in LogPaths, Present(p)
      PROVE  /\ poll'.info[p] \in PollInfo
             /\ poll'.info[p].ino = poll.info[p].ino /\ poll'.info[p].name = poll.info[p].name
             /\ poll'.info[p].end = end(p) /\ poll'.info[p].head = HeadCrc(At(p), end(p))
  <2>2. poll'.info[p] = [poll.info[p] EXCEPT !.end = end(p), !.head = HeadCrc(At(p), end(p))]
    BY <1>1, <1>3
  <2> HIDE DEF end
  <2>3. poll.info[p] \in PollInfo /\ end(p) \in Nat /\ HeadCrc(At(p), end(p)) \in Heads
    BY <1>2, <1>3, <1>n
  <2>4. ASSUME NEW x \in PollInfo, NEW z,
               z = [x EXCEPT !.end = end(p), !.head = HeadCrc(At(p), end(p))]
        PROVE  /\ z \in PollInfo /\ z.ino = x.ino /\ z.name = x.name
               /\ z.end = end(p) /\ z.head = HeadCrc(At(p), end(p))
    BY <2>3, <2>4 DEF PollInfo
  <2> QED BY <2>2, <2>3, <2>4
<1>4. ASSUME NEW p \in LogPaths, ~Present(p)
      PROVE  /\ poll'.info[p] \in PollInfo /\ poll'.info[p].ino = "none"
             /\ poll'.info[p].name = 0 /\ poll'.info[p].end = 0
  BY <1>1, <1>4 DEF Unknown, PollInfo, Heads
<1> HIDE DEF end
<1>5. ErrorLogTypeOK'
  <2>1. \A p \in LogPaths : poll'.info[p] \in PollInfo
    BY <1>3, <1>4
  <2> QED BY <1>1, <1>t, <2>1 DEF ErrorLogTypeOK
<1>6. ListedApart'
  <2>1. Live \in LogPaths /\ Backup \in LogPaths
    BY DEF LogPaths
  <2> QED BY <1>1, <1>3, <1>4, <1>t, <2>1 DEF ListedApart
<1>7. NotedIsThere'
  <2>1. ASSUME NEW p \in LogPaths, poll'.info[p].end # 0
        PROVE  /\ poll'.at = "noted" /\ poll'.info[p].ino # "none"
               /\ \E n \in 1 .. texts : poll'.info[p].head = <<n>>
               /\ \A i \in Inodes : poll'.info[p].head = <<file[i].text>> =>
                     file[i].lines >= poll'.info[p].end
               /\ p = Backup => poll'.info[p].head = <<poll'.info[p].name>>
    <3>1. Present(p)
      BY <1>4, <2>1
    <3>2. poll'.info[p].head = <<At(p).text>>
      BY <1>3, <2>1, <3>1 DEF HeadCrc
    <3>3. ASSUME NEW i \in Inodes, poll'.info[p].head = <<file[i].text>>
          PROVE  file[i].lines >= poll'.info[p].end
      <4>1. file[i].text = file[dir[p]].text
        BY <3>2, <3>3 DEF At
      <4>2. i = dir[p]
        BY <1>2, <1>n, <1>t, <3>1, <4>1 DEF NewestIsLive, LogPaths, At
      <4> QED BY <1>2, <1>3, <1>n, <3>1, <4>2 DEF At
    <3>4. p = Backup => poll'.info[p].name = At(p).text
      BY <1>3, <3>1 DEF Present, Name
    <3>5. poll'.at = "noted" /\ poll'.info[p].ino # "none"
      BY <1>1, <1>3, <3>1 DEF Present
    <3> QED BY <1>2, <3>1, <3>2, <3>3, <3>4, <3>5
  <2> QED BY <1>1, <2>1 DEF NotedIsThere
<1>8. NewestIsLive' /\ PassedOfIts'
  BY <1>1 DEF ErrorLogInv, NewestIsLive, PassedOfIts
<1> QED BY <1>5, <1>6, <1>7, <1>8 DEF ErrorLogInv

(* The poll answers: what it noted of a file that is still there, it has read from where
   the last cursor ended, or it is one of those that were cut or mistaken. *)
LEMMA AnswerSteps == ErrorLogInv /\ Answer => ErrorLogInv'
<1> SUFFICES ASSUME ErrorLogInv, Answer PROVE ErrorLogInv'
  OBVIOUS
<1> USE ErrorLogAssumption
<1>t. ErrorLogTypeOK /\ NewestIsLive /\ ListedApart /\ NotedIsThere /\ PassedOfIts
  BY DEF ErrorLogInv
<1> DEFINE found == UNION {ReadLines(p) : p \in LogPaths}
<1>1. /\ poll.at = "noted" /\ shown' = shown \cup Newest(found)
      /\ lost' = lost \cup {x[1] : x \in found \ Newest(found)}
                      \cup {file[poll.info[p].ino].text : p \in {q \in LogPaths : Mistaken(q)}}
      /\ cursor' = [i \in Inodes |->
             IF \E p \in LogPaths : poll.info[p].ino = i
             THEN LET info == poll.info[CHOOSE p \in LogPaths : poll.info[p].ino = i]
                  IN [end |-> info.end, head |-> info.head]
             ELSE NotNoted]
      /\ poll' = NoPoll /\ UNCHANGED <<dir, file, texts>>
  BY DEF Answer
<1>n. /\ \A i \in Inodes : file[i].text \in Nat /\ file[i].lines \in Nat /\ cursor[i].end \in Nat
      /\ \A p \in LogPaths : poll.info[p].end \in Nat /\ poll.info[p].head \in Heads
      /\ texts \in Nat
  BY <1>t DEF ErrorLogTypeOK, PollInfo
<1>2. ErrorLogTypeOK'
  <2>1. NoPoll \in [at : {"idle", "listed", "noted"}, info : [LogPaths -> PollInfo]]
    <3>1. Unknown \in PollInfo
      BY DEF Unknown, PollInfo, Heads
    <3> QED BY <3>1 DEF NoPoll
  <2>2. NotNoted \in [end : Nat, head : Heads]
    BY DEF NotNoted, Heads
  <2>3. cursor' \in [Inodes -> [end : Nat, head : Heads]]
    <3>1. ASSUME NEW i \in Inodes PROVE cursor'[i] \in [end : Nat, head : Heads]
      <4>1. CASE \E p \in LogPaths : poll.info[p].ino = i
        <5> DEFINE q == CHOOSE p \in LogPaths : poll.info[p].ino = i
        <5>1. q \in LogPaths
          BY <4>1
        <5>2. cursor'[i] = [end |-> poll.info[q].end, head |-> poll.info[q].head]
          BY <1>1, <4>1
        <5> HIDE DEF q
        <5> QED BY <1>n, <5>1, <5>2
      <4>2. CASE ~\E p \in LogPaths : poll.info[p].ino = i
        BY <1>1, <2>2, <4>2
      <4> QED BY <4>1, <4>2
    <3> QED BY <1>1, <3>1
  <2> QED BY <1>1, <1>t, <2>1, <2>3 DEF ErrorLogTypeOK
<1>3. ListedApart' /\ NotedIsThere' /\ NewestIsLive'
  <2>1. \A p \in LogPaths : NoPoll.info[p].end = 0 /\ NoPoll.info[p].ino = "none" /\ NoPoll.info[p].name = 0
    BY DEF NoPoll, Unknown
  <2> QED BY <1>1, <1>t, <2>1 DEF ListedApart, NotedIsThere, NewestIsLive, LogPaths
<1> HIDE DEF found
<1>4. ASSUME NEW p \in LogPaths, NEW i \in Inodes, poll.info[p].ino = i, poll.info[p].end # 0,
             poll.info[p].head = <<file[i].text>>
      PROVE  \/ file[i].text \in lost'
             \/ \A n \in 1 .. poll.info[p].end : <<file[i].text, n>> \in shown'
  <2> DEFINE t == file[i].text
             end == poll.info[p].end
  <2>0. t \in 1 .. texts /\ end \in Nat \ {0}
    BY <1>4, <1>n, <1>t DEF NotedIsThere
  <2>1. Present(p)
    <3>1. CASE p = Live
      BY <1>4, <1>t, <3>1 DEF Present, Name, ListedApart
    <3>2. CASE p = Backup
      <4>1. poll.info[p].name = t /\ t < texts /\ dir[Backup] # "none"
        BY <1>4, <1>t, <3>2 DEF NotedIsThere, ListedApart
      <4>2. i = dir[Backup]
        BY <1>t, <2>0, <4>1 DEF NewestIsLive
      <4> QED BY <1>4, <3>2, <4>1, <4>2 DEF Present, Name, At
    <3> QED BY <3>1, <3>2 DEF LogPaths
  <2>2. CASE Mistaken(p)
    BY <1>1, <1>4, <2>2
  <2>3. CASE ~Mistaken(p)
    <3>1. dir[p] = i /\ HeadCrc(At(p), end) = <<t>> /\ At(p) = file[i]
      BY <1>4, <2>1, <2>3 DEF Mistaken, At
    <3>2. At(p).lines >= end
      BY <1>4, <1>t, <3>1 DEF NotedIsThere
    <3>3. ReadLines(p) = {<<t, n>> : n \in (StartOf(p) + 1) .. end}
      <4>1. (IF poll.info[p].end < At(p).lines THEN poll.info[p].end ELSE At(p).lines) = end
        BY <1>n, <3>1, <3>2
      <4> QED BY <2>1, <3>1, <4>1 DEF ReadLines
    <3>4. ReadLines(p) \subseteq found
      BY DEF found
    <3>5. \A n \in (StartOf(p) + 1) .. end : <<t, n>> \in shown' \/ t \in lost'
      <4>1. \A x \in found : x \in Newest(found) \/ x[1] \in lost'
        BY <1>1
      <4>2. ASSUME NEW n \in (StartOf(p) + 1) .. end PROVE <<t, n>> \in shown' \/ t \in lost'
        <5>1. <<t, n>> \in found
          BY <3>3, <3>4
        <5>2. <<t, n>> \in Newest(found) \/ <<t, n>>[1] \in lost'
          BY <4>1, <5>1
        <5> QED BY <1>1, <5>2
      <4> QED BY <4>2
    <3>6. /\ StartOf(p) \in Nat
          /\ StartOf(p) # 0 => /\ cursor[i].end = StartOf(p) /\ cursor[i].head = <<t>>
      <4> DEFINE noted == cursor[i]
      <4>1. StartOf(p) = IF noted.end = end /\ noted.head = <<t>> THEN end
                         ELSE IF noted.end < end /\ HeadCrc(At(p), noted.end) = noted.head
                              THEN noted.end ELSE 0
        BY <1>4 DEF StartOf
      <4>2. noted.end # 0 /\ HeadCrc(At(p), noted.end) = noted.head => noted.head = <<t>>
        BY <3>1 DEF HeadCrc
      <4> HIDE DEF noted
      <4>3. noted.end \in Nat
        BY <1>n DEF noted
      <4> QED BY <2>0, <4>1, <4>2, <4>3 DEF noted
    <3>7. t \in lost \/ \A n \in 1 .. StartOf(p) : <<t, n>> \in shown
      <4>1. CASE StartOf(p) = 0
        BY <4>1
      <4>2. CASE StartOf(p) # 0
        BY <1>t, <3>6, <4>2 DEF PassedOfIts
      <4> QED BY <4>1, <4>2
    <3>8. shown \subseteq shown' /\ lost \subseteq lost'
      BY <1>1
    <3> HIDE DEF t, end
    <3>9. ASSUME t \notin lost', NEW n \in 1 .. end PROVE <<t, n>> \in shown'
      <4>1. n \in 1 .. StartOf(p) \/ n \in (StartOf(p) + 1) .. end
        BY <2>0, <3>6
      <4> QED BY <3>5, <3>7, <3>8, <3>9, <4>1
    <3> QED BY <3>9 DEF t, end
  <2> QED BY <2>2, <2>3
<1>5. PassedOfIts'
  <2>1. ASSUME NEW i \in Inodes, cursor'[i].end # 0
        PROVE  /\ \E n \in 1 .. texts : cursor'[i].head = <<n>>
               /\ cursor'[i].head = <<file[i].text>> =>
                     \/ file[i].text \in lost'
                     \/ \A n \in 1 .. cursor'[i].end : <<file[i].text, n>> \in shown'
    <3>1. \E p \in LogPaths : poll.info[p].ino = i
      BY <1>1, <2>1 DEF NotNoted
    <3>2. PICK p \in LogPaths : /\ poll.info[p].ino = i
                                /\ cursor'[i].end = poll.info[p].end
                                /\ cursor'[i].head = poll.info[p].head
      <4> DEFINE q == CHOOSE p \in LogPaths : poll.info[p].ino = i
      <4>1. q \in LogPaths /\ poll.info[q].ino = i
        BY <3>1
      <4>2. cursor'[i] = [end |-> poll.info[q].end, head |-> poll.info[q].head]
        BY <1>1, <3>1
      <4> HIDE DEF q
      <4> QED BY <4>1, <4>2
    <3>3. \E n \in 1 .. texts : poll.info[p].head = <<n>>
      BY <1>t, <2>1, <3>2 DEF NotedIsThere
    <3> QED BY <1>4, <2>1, <3>2, <3>3
  <2> QED BY <1>1, <2>1 DEF PassedOfIts
<1> QED BY <1>2, <1>3, <1>5 DEF ErrorLogInv

(* error_log_api.py: whatever is written, rotated, truncated or put under an old inode
   between the polls and while they run, what the page's cursor has passed of a file
   that is there, the page was sent; but for what a poll cut or mistook. *)
THEOREM PassedLinesWereShown == ErrorLogSpec => []PassedWasShown
<1>1. ErrorLogInv /\ [ErrorLogNext]_errorLogVars => ErrorLogInv'
  <2>1. ErrorLogInv /\ UNCHANGED errorLogVars => ErrorLogInv'
    BY DEF errorLogVars, ErrorLogInv, ErrorLogTypeOK, NewestIsLive, ListedApart, NotedIsThere, PassedOfIts
  <2> QED BY <2>1, ServiceSteps, DiscoverSteps, SnapshotSteps, AnswerSteps DEF ErrorLogNext
<1>2. ErrorLogInv => PassedWasShown
  <2> SUFFICES ASSUME ErrorLogInv PROVE PassedWasShown
    OBVIOUS
  <2> SUFFICES ASSUME NEW i \in Inodes, NEW n \in 1 .. cursor[i].end,
                      n <= file[i].lines, HeadCrc(file[i], cursor[i].end) = cursor[i].head,
                      file[i].text \notin lost
               PROVE  <<file[i].text, n>> \in shown
    <3>1. Existing \subseteq Inodes
      BY DEF ErrorLogInv, ErrorLogTypeOK, Existing
    <3>2. \A i \in Inodes : \A n \in 1 .. cursor[i].end : n \in Int /\ file[i].lines \in Int
      BY DEF ErrorLogInv, ErrorLogTypeOK
    <3> QED BY <3>1, <3>2 DEF PassedWasShown
  <2>1. cursor[i].end # 0
    BY DEF ErrorLogInv, ErrorLogTypeOK
  <2>2. cursor[i].head = <<file[i].text>>
    BY <2>1 DEF HeadCrc
  <2> QED BY <2>1, <2>2 DEF ErrorLogInv, PassedOfIts
<1> QED BY <1>1, <1>2, ErrorLogStart, PTL DEF ErrorLogSpec

-----------------------------------------------------------------------------
(* The devices of other servers. *)
EudNames == Callsigns \cup KnownUids \cup {Nothing}
EudRows == [there : BOOLEAN, callsign : EudNames, user : Nat \cup {Nothing}]
Events == [uid : KnownUids \cup {Nothing}, callsign : EudNames, user : Nat \cup {Nothing},
           known : BOOLEAN, renames : BOOLEAN, had : Nat \cup {Nothing},
           step : {"none", "account", "user", "callsign", "row", "forward"}]
DevicesTypeOK ==
    /\ euds \in [KnownUids -> EudRows]
    /\ made \in Nat /\ accounts \subseteq 1 .. made
    /\ event \in Events

\* What the daemon knows of the row at hand stays true enough: its own thread is the only
\* one to give it a federated account.
AtHand ==
    /\ \A u \in KnownUids : ~euds[u].there => euds[u].user = Nothing
    /\ event.step # "none" => event.uid \in KnownUids
    /\ event.step \in {"account", "callsign"} => event.user = Nothing
    /\ event.step \in {"account", "user"} /\ event.known => euds[event.uid].user \in {Nothing, Owner}
    /\ event.step = "user" => event.known /\ event.user # Nothing

\* An account waits for its row in two steps only.
Accounted ==
    \A a \in accounts : \/ \E u \in KnownUids : euds[u].user = a
                        \/ event.step \in {"user", "row"} /\ event.user = a
                        \/ a \in excused

DevicesInv == DevicesTypeOK /\ AtHand /\ Accounted

LEMMA EventStep ==
    ASSUME NEW e \in Events, NEW s \in {"none", "account", "user", "callsign", "row", "forward"},
           NEW z, z = [e EXCEPT !.step = s]
    PROVE  z \in Events /\ z.step = s /\ z.uid = e.uid /\ z.user = e.user /\ z.known = e.known
  BY DEF Events

LEMMA RowFields ==
    ASSUME NEW r \in EudRows, NEW z
    PROVE  /\ \A c \in EudNames : z = [r EXCEPT !.callsign = c] =>
                 z \in EudRows /\ z.there = r.there /\ z.user = r.user
           /\ \A n \in Nat \cup {Nothing} : z = [r EXCEPT !.user = n] =>
                 z \in EudRows /\ z.there = r.there /\ z.user = n
  BY DEF EudRows

LEMMA DevicesStart == DevicesInit => DevicesInv
<1> SUFFICES ASSUME DevicesInit PROVE DevicesInv
  OBVIOUS
<1>1. /\ NoRow \in EudRows /\ ~NoRow.there /\ NoRow.user = Nothing
      /\ \A u \in KnownUids : /\ Row(Raw(u), 1) \in EudRows /\ Row(Raw(u), 1).there
                              /\ Row(Raw(u), 1).user = 1
  BY DEF NoRow, Row, Raw, EudRows, EudNames
<1>2. event = NoEvent /\ NoEvent \in Events /\ NoEvent.step = "none"
  BY DEF DevicesInit, NoEvent, Events, EudNames
<1>3. CASE euds = [u \in KnownUids |-> NoRow] /\ accounts = {} /\ made = 0
  BY <1>1, <1>2, <1>3 DEF DevicesInv, DevicesTypeOK, AtHand, Accounted
<1>4. CASE /\ \E u \in Remote : euds = [v \in KnownUids |-> IF v = u THEN Row(Raw(u), 1) ELSE NoRow]
           /\ accounts = {1} /\ made = 1
  <2>1. PICK u \in Remote : euds = [v \in KnownUids |-> IF v = u THEN Row(Raw(u), 1) ELSE NoRow]
    BY <1>4
  <2>2. u \in KnownUids
    BY DEF KnownUids
  <2> QED BY <1>1, <1>2, <1>4, <2>1, <2>2 DEF DevicesInv, DevicesTypeOK, AtHand, Accounted
<1> QED BY <1>3, <1>4 DEF DevicesInit

\* The daemon's steps that leave the rows and the accounts alone.
LEMMA EventGoesOn ==
    ASSUME DevicesInv, event' \in Events, UNCHANGED <<euds, accounts, made>>, excused \subseteq excused',
           event'.step # "none" => event'.uid \in KnownUids,
           event'.step \in {"account", "callsign"} => event'.user = Nothing,
           event'.step \in {"account", "user"} /\ event'.known =>
               euds[event'.uid].user \in {Nothing, Owner},
           event'.step = "user" => event'.known /\ event'.user # Nothing,
           event.step \in {"user", "row"} /\ event.user \in accounts =>
               \/ event'.step \in {"user", "row"} /\ event'.user = event.user
               \/ event.user \in excused'
    PROVE  DevicesInv'
<1>1. DevicesTypeOK'
  BY DEF DevicesInv, DevicesTypeOK
<1>2. AtHand'
  BY DEF DevicesInv, AtHand
<1>3. Accounted'
  BY DEF DevicesInv, Accounted
<1> QED BY <1>1, <1>2, <1>3 DEF DevicesInv

\* What the others do to rows: no federated account comes to one, and what goes is excused.
LEMMA OthersSteps ==
    ASSUME DevicesInv, euds' \in [KnownUids -> EudRows], accounts' \subseteq accounts, made' = made,
           event' = event, excused \subseteq excused',
           \A u \in KnownUids :
               /\ ~euds'[u].there => euds'[u].user = Nothing
               /\ \/ euds'[u].user = euds[u].user
                  \/ /\ euds'[u].user \in {Nothing, Owner}
                     /\ euds[u].user \in accounts' => euds[u].user \in excused'
    PROVE  DevicesInv'
<1>1. DevicesTypeOK'
  BY DEF DevicesInv, DevicesTypeOK
<1>2. AtHand'
  BY DEF DevicesInv, AtHand
<1>3. Accounted'
  <2>1. ASSUME NEW a \in accounts'
        PROVE  \/ \E u \in KnownUids : euds'[u].user = a
               \/ event.step \in {"user", "row"} /\ event.user = a
               \/ a \in excused'
    <3>1. CASE \E u \in KnownUids : euds[u].user = a
      <4>1. PICK u \in KnownUids : euds[u].user = a
        BY <3>1
      <4> QED BY <4>1
    <3>2. CASE ~\E u \in KnownUids : euds[u].user = a
      BY <3>2 DEF DevicesInv, Accounted
    <3> QED BY <3>1, <3>2
  <2> QED BY <2>1 DEF Accounted
<1> QED BY <1>1, <1>2, <1>3 DEF DevicesInv

LEMMA DevicesSteps == DevicesInv /\ [DevicesNext]_devicesVars => DevicesInv'
<1> SUFFICES ASSUME DevicesInv, [DevicesNext]_devicesVars PROVE DevicesInv'
  OBVIOUS
<1> USE DevicesAssumption
<1>t. DevicesTypeOK /\ AtHand /\ Accounted
  BY DEF DevicesInv
<1>n. NoEvent \in Events /\ NoEvent.step = "none" /\ NoEvent.user = Nothing
  BY DEF NoEvent, Events, EudNames
<1>e. /\ event \in Events /\ event.callsign \in EudNames /\ event.user \in Nat \cup {Nothing}
      /\ event.known \in BOOLEAN
      /\ \A u \in KnownUids : euds[u] \in EudRows /\ euds[u].callsign \in EudNames
                              /\ euds[u].user \in Nat \cup {Nothing} /\ euds[u].there \in BOOLEAN
  BY <1>t DEF DevicesTypeOK, Events, EudRows
<1>x. Excuse => excused \subseteq excused' /\ (event.user \in accounts => event.user \in excused')
  <2>1. event.user \in accounts => event.user # Nothing
    <3>1. \A a \in 1 .. made : a # Nothing
      BY <1>t DEF DevicesTypeOK
    <3> QED BY <1>t, <3>1 DEF DevicesTypeOK
  <2> QED BY <2>1 DEF Excuse
<1>r. event.step # "none" /\ ~Unwritable =>
        /\ Renamed \in [KnownUids -> EudRows]
        /\ \A u \in KnownUids : Renamed[u].user = euds[u].user /\ Renamed[u].there = euds[u].there
  <2> SUFFICES ASSUME event.step # "none", ~Unwritable
               PROVE  /\ Renamed \in [KnownUids -> EudRows]
                      /\ \A u \in KnownUids : Renamed[u].user = euds[u].user
                                              /\ Renamed[u].there = euds[u].there
    OBVIOUS
  <2>1. CASE ~event.renames
    BY <2>1, <1>t DEF Renamed, DevicesTypeOK
  <2>2. CASE event.renames
    <3> DEFINE new == [euds[event.uid] EXCEPT !.callsign = event.callsign]
    <3>1. event.uid \in KnownUids
      BY <1>t DEF AtHand
    <3>2. Renamed = [euds EXCEPT ![event.uid] = new]
      BY <1>t, <2>2, <3>1 DEF Renamed, DevicesTypeOK
    <3>3. new \in EudRows /\ new.there = euds[event.uid].there /\ new.user = euds[event.uid].user
      <4>1. euds[event.uid] \in EudRows /\ event.callsign \in EudNames
        BY <1>e, <3>1
      <4> QED BY <4>1, RowFields
    <3> HIDE DEF new
    <3> QED BY <1>t, <3>1, <3>2, <3>3 DEF DevicesTypeOK
  <2> QED BY <2>1, <2>2
<1>1. ASSUME NEW u \in Remote, NEW c \in Callsigns \cup {Nothing}, NEW offline \in BOOLEAN,
             Receive(u, c, offline)
      PROVE  DevicesInv'
  <2> DEFINE wants == euds[u].user = Nothing
                      /\ (IF c # Nothing /\ euds[u].callsign = Raw(u) THEN c ELSE euds[u].callsign) # Raw(u)
  <2>0. u \in KnownUids
    BY DEF KnownUids
  <2>1. /\ event = NoEvent /\ UNCHANGED <<euds, accounts, placeholder, made, excused>>
        /\ event'.uid = u /\ event'.user = Nothing /\ event'.known = euds[u].there
        /\ event'.step \in {"account", "callsign", "forward", "row"}
        /\ event'.step = "account" /\ euds[u].there => wants
    BY <1>1 DEF Receive, History
  <2>2. event' \in Events
    <3>1. c \in EudNames
      BY DEF EudNames
    <3> QED BY <1>1, <1>e, <2>0, <3>1 DEF Receive, Events
  <2> QED BY <1>n, <2>0, <2>1, <2>2, EventGoesOn
<1>2. CASE EnsureUser
  <2>1. /\ event.step = "account" /\ ~Unwritable /\ made' = made + 1
        /\ accounts' = accounts \cup {made'} /\ euds' = Renamed /\ excused' = excused
        /\ event' = [event EXCEPT !.user = made', !.step = IF event.known THEN "user" ELSE "row"]
    BY <1>2 DEF EnsureUser, History
  <2>2. made' \in Nat /\ made' # Nothing /\ accounts' \subseteq 1 .. made'
    BY <1>t, <2>1 DEF DevicesTypeOK
  <2>3. /\ event' \in Events /\ event'.step = (IF event.known THEN "user" ELSE "row")
        /\ event'.uid = event.uid /\ event'.user = made' /\ event'.known = event.known
    <3> DEFINE s == IF event.known THEN "user" ELSE "row"
    <3>1. event \in Events /\ s \in {"account", "user", "row"} /\ made' \in Nat
          /\ event' = [event EXCEPT !.user = made', !.step = s]
      BY <1>e, <2>1, <2>2
    <3> HIDE DEF s
    <3>2. /\ event' \in Events /\ event'.step = s /\ event'.uid = event.uid
          /\ event'.user = made' /\ event'.known = event.known
      <4>1. ASSUME NEW e \in Events, NEW z, z = [e EXCEPT !.user = made', !.step = s]
            PROVE  z \in Events /\ z.step = s /\ z.uid = e.uid /\ z.user = made' /\ z.known = e.known
        BY <3>1, <4>1 DEF Events
      <4> QED BY <3>1, <4>1
    <3> QED BY <3>2 DEF s
  <2>4. DevicesTypeOK'
    BY <1>r, <2>1, <2>2, <2>3 DEF DevicesTypeOK
  <2>5. AtHand'
    BY <1>r, <1>t, <1>e, <2>1, <2>2, <2>3 DEF AtHand
  <2>6. Accounted'
    BY <1>r, <1>t, <2>1, <2>3 DEF Accounted
  <2> QED BY <2>4, <2>5, <2>6 DEF DevicesInv
<1>3. CASE EnsureUserRaises
  BY <1>3, <1>n, EventGoesOn DEF EnsureUserRaises, History
<1>4. CASE EnsureUserFails
  <2>1. event.step = "account" /\ UNCHANGED <<euds, accounts, made, excused>>
        /\ event' = [event EXCEPT !.step = IF event.known THEN "forward" ELSE "row"]
    BY <1>4 DEF EnsureUserFails, To
  <2>2. event' \in Events /\ event'.step \in {"forward", "row"} /\ event'.uid = event.uid
        /\ event'.user = event.user
    <3> DEFINE s == IF event.known THEN "forward" ELSE "row"
    <3>1. event \in Events /\ s \in {"forward", "row"} /\ event' = [event EXCEPT !.step = s]
      BY <1>e, <2>1
    <3> HIDE DEF s
    <3> QED BY <3>1, EventStep
  <2> QED BY <1>t, <2>1, <2>2, EventGoesOn DEF AtHand
\* The last step before an event is forwarded.
<1>f. ASSUME To("forward")
      PROVE  /\ event' \in Events /\ event'.step = "forward" /\ event'.uid = event.uid
             /\ event'.user = event.user /\ event'.known = event.known
  <2>1. event \in Events /\ event' = [event EXCEPT !.step = "forward"]
    BY <1>e, <1>f DEF To
  <2> QED BY <2>1, EventStep
\* It is done without the row being written.
<1>g. ASSUME event.step \in {"user", "callsign", "row"}, To("forward"), excused \subseteq excused',
             event.step = "callsign" \/ Excuse,
             UNCHANGED <<euds, accounts, made>>
      PROVE  DevicesInv'
  BY <1>f, <1>g, <1>t, <1>x, EventGoesOn DEF AtHand
\* It is done, and the row has the account.
<1>h. ASSUME event.step \in {"user", "row", "callsign"}, To("forward"), excused' = excused,
             UNCHANGED <<accounts, made>>, euds' \in [KnownUids -> EudRows],
             \A u \in KnownUids : ~euds'[u].there => euds'[u].user = Nothing,
             \A u \in KnownUids \ {event.uid} : euds'[u].user = euds[u].user,
             event.step = "callsign" => euds'[event.uid].user = euds[event.uid].user,
             event.step # "callsign" => euds'[event.uid].user = event.user,
             event.step # "callsign" => euds[event.uid].user \in {Nothing, Owner}
      PROVE  DevicesInv'
  <2>0. event.uid \in KnownUids /\ (event.step = "callsign" => event.user = Nothing)
    BY <1>h, <1>t DEF AtHand
  <2>1. DevicesTypeOK'
    BY <1>f, <1>h, <1>t DEF DevicesTypeOK
  <2>2. AtHand'
    BY <1>f, <1>h, <2>0 DEF AtHand
  <2>3. ASSUME NEW a \in accounts'
        PROVE  (\E u \in KnownUids : euds'[u].user = a) \/ a \in excused'
    <3>1. a \in accounts /\ a # Nothing /\ a # Owner
      BY <1>h, <1>t DEF DevicesTypeOK, Owner
    <3>2. CASE \E u \in KnownUids : euds[u].user = a
      <4>1. PICK u \in KnownUids : euds[u].user = a
        BY <3>2
      <4>2. CASE u # event.uid
        BY <1>h, <4>1, <4>2
      <4>3. CASE u = event.uid
        BY <1>h, <2>0, <3>1, <4>1, <4>3
      <4> QED BY <4>2, <4>3
    <3>3. CASE event.step \in {"user", "row"} /\ event.user = a
      BY <1>h, <2>0, <3>3
    <3> QED BY <1>h, <1>t, <3>1, <3>2, <3>3 DEF Accounted
  <2>4. Accounted'
    BY <2>3 DEF Accounted
  <2> QED BY <2>1, <2>2, <2>4 DEF DevicesInv
<1>5. CASE SetUser
  <2>1. event.step = "user" /\ To("forward") /\ UNCHANGED <<accounts, made>> /\ event.uid \in KnownUids
        /\ euds[event.uid].user \in {Nothing, Owner}
    BY <1>5, <1>t DEF SetUser, AtHand
  <2>2. CASE euds[event.uid].there /\ AccountLeft
    <3> DEFINE new == [euds[event.uid] EXCEPT !.user = event.user]
    <3>1. euds' = [euds EXCEPT ![event.uid] = new] /\ excused' = excused
      BY <1>5, <1>t, <2>1, <2>2 DEF SetUser, DevicesTypeOK
    <3>2. new \in EudRows /\ new.there = euds[event.uid].there /\ new.user = event.user
      BY <1>e, <2>1, RowFields
    <3> HIDE DEF new
    <3>3. /\ euds' \in [KnownUids -> EudRows] /\ euds'[event.uid] = new
          /\ \A u \in KnownUids \ {event.uid} : euds'[u] = euds[u]
      BY <1>t, <2>1, <3>1, <3>2 DEF DevicesTypeOK
    <3> QED BY <1>h, <1>t, <2>1, <2>2, <3>1, <3>2, <3>3 DEF AtHand
  <2>3. CASE ~(euds[event.uid].there /\ AccountLeft)
    BY <1>5, <1>g, <1>x, <2>1, <2>3 DEF SetUser
  <2> QED BY <2>2, <2>3
<1>6. CASE SetCallsign
  <2>1. event.step = "callsign" /\ To("forward") /\ UNCHANGED <<accounts, made, excused>>
        /\ event.uid \in KnownUids
    BY <1>6, <1>t DEF SetCallsign, AtHand, History
  <2>2. CASE Unwritable
    BY <1>6, <1>g, <2>1, <2>2 DEF SetCallsign
  <2>3. CASE ~Unwritable
    <3>1. euds' = Renamed
      BY <1>6, <2>3 DEF SetCallsign
    <3> QED BY <1>h, <1>r, <1>t, <2>1, <2>3, <3>1 DEF AtHand
  <2> QED BY <2>2, <2>3
<1>7. CASE InsertRow
  <2> DEFINE u == event.uid
  <2>1. event.step = "row" /\ To("forward") /\ UNCHANGED <<accounts, made>> /\ u \in KnownUids
    BY <1>7, <1>t DEF InsertRow, AtHand
  <2>2. CASE euds[u].there \/ ~AccountLeft
    BY <1>7, <1>g, <1>x, <2>1, <2>2 DEF InsertRow
  <2>3. CASE ~(euds[u].there \/ ~AccountLeft)
    <3> DEFINE new == IF event.callsign = Nothing THEN Row(Raw(u), event.user)
                      ELSE IF Taken(event.callsign, u) THEN Row(Nothing, event.user)
                      ELSE Row(event.callsign, event.user)
    <3>1. euds' = [euds EXCEPT ![u] = new] /\ excused' = excused
      BY <1>7, <2>3 DEF InsertRow
    <3>2. new \in EudRows /\ new.there /\ new.user = event.user
      BY <1>e, <2>1 DEF Row, Raw, EudRows, EudNames
    <3> HIDE DEF new
    <3>3. /\ euds' \in [KnownUids -> EudRows] /\ euds'[u] = new
          /\ \A v \in KnownUids \ {u} : euds'[v] = euds[v]
      BY <1>t, <2>1, <3>1, <3>2 DEF DevicesTypeOK
    <3>4. euds[u].user = Nothing
      BY <1>t, <2>1, <2>3 DEF AtHand
    <3> QED BY <1>h, <1>t, <2>1, <3>1, <3>2, <3>3, <3>4 DEF AtHand
  <2> QED BY <2>2, <2>3
<1>8. CASE RowFails
  BY <1>8, <1>g, <1>x DEF RowFails
<1>9. CASE Forward \/ Breaks
  BY <1>9, <1>n, <1>x, EventGoesOn DEF Forward, Breaks, History
<1>10. CASE Subscribe
  BY <1>10, <1>t, <1>e, EventGoesOn DEF Subscribe, AtHand
<1>11. ASSUME NEW u \in KnownUids, Enroll(u) PROVE DevicesInv'
  <2> DEFINE new == IF euds[u].there THEN [euds[u] EXCEPT !.user = Owner] ELSE Row(Nothing, Owner)
  <2>1. euds' = [euds EXCEPT ![u] = new] /\ excused' = excused \cup ({euds[u].user} \cap accounts)
        /\ UNCHANGED <<accounts, made, event>>
    BY <1>11, <1>t DEF Enroll, DevicesTypeOK
  <2>2. new \in EudRows /\ new.there /\ new.user = Owner
    <3>1. CASE euds[u].there
      <4>1. Owner \in Nat \cup {Nothing}
        BY DEF Owner
      <4> QED BY <1>e, <3>1, <4>1, RowFields
    <3>2. CASE ~euds[u].there
      BY <3>2 DEF Row, EudRows, EudNames, Owner
    <3> QED BY <3>1, <3>2
  <2> HIDE DEF new
  <2>3. /\ euds' \in [KnownUids -> EudRows] /\ euds'[u] = new
        /\ \A v \in KnownUids \ {u} : euds'[v] = euds[v]
    BY <1>t, <2>1, <2>2 DEF DevicesTypeOK
  <2> QED BY <1>t, <2>1, <2>2, <2>3, OthersSteps DEF AtHand
<1>12. ASSUME NEW u \in KnownUids, NEW c \in Callsigns, TellCallsign(u, c) PROVE DevicesInv'
  <2> DEFINE new == [euds[u] EXCEPT !.callsign = c]
  <2>1. euds' = [euds EXCEPT ![u] = new] /\ UNCHANGED <<accounts, made, event, excused>>
    BY <1>12, <1>t DEF TellCallsign, DevicesTypeOK, History
  <2>2. new \in EudRows /\ new.there = euds[u].there /\ new.user = euds[u].user
    <3>1. c \in EudNames
      BY DEF EudNames
    <3> QED BY <1>e, <3>1, RowFields
  <2> HIDE DEF new
  <2>3. /\ euds' \in [KnownUids -> EudRows] /\ euds'[u] = new
        /\ \A v \in KnownUids \ {u} : euds'[v] = euds[v]
    BY <1>t, <2>1, <2>2 DEF DevicesTypeOK
  <2> QED BY <1>t, <2>1, <2>2, <2>3, OthersSteps DEF AtHand
<1>13. ASSUME NEW a \in accounts, DeleteUser(a) PROVE DevicesInv'
  <2>1. /\ accounts' = accounts \ {a} /\ UNCHANGED <<made, event, excused>>
        /\ euds' = [u \in KnownUids |-> IF euds[u].user = a THEN [euds[u] EXCEPT !.user = Nothing]
                                        ELSE euds[u]]
    BY <1>13 DEF DeleteUser, History
  <2>2. ASSUME NEW u \in KnownUids
        PROVE  /\ euds'[u] \in EudRows /\ euds'[u].there = euds[u].there
               /\ euds'[u].user = IF euds[u].user = a THEN Nothing ELSE euds[u].user
    <3>1. CASE euds[u].user = a
      <4>1. euds'[u] = [euds[u] EXCEPT !.user = Nothing]
        BY <2>1, <3>1
      <4> QED BY <1>e, <3>1, <4>1, RowFields
    <3>2. CASE euds[u].user # a
      BY <1>e, <2>1, <3>2
    <3> QED BY <3>1, <3>2
  <2>3. euds' \in [KnownUids -> EudRows]
    BY <2>1, <2>2
  <2> QED BY <1>t, <2>1, <2>2, <2>3, OthersSteps DEF AtHand
<1>14. CASE PurgeData
  <2>1. /\ euds' = [u \in KnownUids |-> NoRow] /\ UNCHANGED <<accounts, made, event>>
        /\ excused' = excused \cup {a \in accounts : \E u \in KnownUids : euds[u].user = a}
    BY <1>14 DEF PurgeData
  <2>2. NoRow \in EudRows /\ ~NoRow.there /\ NoRow.user = Nothing
    BY DEF NoRow, EudRows, EudNames
  <2> QED BY <2>1, <2>2, OthersSteps
<1>15. CASE UNCHANGED devicesVars
  BY <1>15, <1>t, <1>e, EventGoesOn DEF devicesVars, AtHand
<1> QED BY <1>1, <1>2, <1>3, <1>4, <1>5, <1>6, <1>7, <1>8, <1>9, <1>10, <1>11, <1>12, <1>13, <1>14,
           <1>15 DEF DevicesNext

(* _ensure_federated_eud and _ensure_federated_user: whatever local devices, administrators
   and a purge do between their commits, an account made for a device is the one of its
   row, or still to be, or its row failed, came or went meanwhile. *)
THEOREM AccountsHaveTheirDevices == DevicesSpec => []AccountHasItsDevice
<1>1. DevicesInv => AccountHasItsDevice
  BY DEF DevicesInv, Accounted, AccountHasItsDevice, NoEvent
<1> QED BY <1>1, DevicesStart, DevicesSteps, PTL DEF DevicesSpec

-----------------------------------------------------------------------------
(* Texts of radios to devices. *)
MeshIds == Ids \cup Radios \cup {NoId}
Entries == [mid : MeshIds, padded : BOOLEAN, uid : Keys \cup {NoUid}]
MeshtasticTypeOK ==
    /\ eud \in [Keys -> {"none", "bare", "ATAK", "Meshtastic"}]
    /\ mid \in [Keys -> MeshIds] /\ seen \in [Keys -> MeshIds]
    /\ devices \in [Keys -> Entries]
    /\ stage \in {"loading", "running"}
    /\ toLoad \subseteq Keys
    /\ connecting \in [Streams -> [uid : Uids \cup {NoUid}, mid : MeshIds]]
    /\ aired \subseteq [uid : Uids, id : MeshIds]

\* The controller has gone through all rows before it runs, and a row without an id is a
\* TAK device's.
RowsInTurn ==
    /\ stage = "running" => toLoad = {} /\ filling = NoUid
    /\ filling # NoUid => filling \in toLoad \cap Uids
    /\ \A u \in toLoad \cap Uids : devices[u] = NoDevice
    /\ \A k \in Keys : mid[k] # NoId \/ k \in toLoad => eud[k] # "none"

\* A radio's entry and row have its own node id.
RadiosAreThemselves ==
    \A r \in Radios :
        /\ eud[r] # "none" => mid[r] = r
        /\ r \in toLoad => seen[r] = r
        /\ devices[r] # NoDevice =>
              devices[r].mid = r /\ devices[r].uid \in {NoUid, r, PluginOf[r]}

\* An id that was published or is to be committed is the row's, unless the device was
\* given another.
IdsStay ==
    /\ \A a \in aired : a.id # NoId /\ (mid[a.uid] = a.id \/ a.uid \in met)
    /\ \A c \in Streams : connecting[c] # Idle =>
          /\ connecting[c].uid \in Uids
          /\ connecting[c].mid # NoId =>
                connecting[c].mid = mid[connecting[c].uid] \/ connecting[c].uid \in met

\* The id of a row is in memory, or will be, or was given since it was filled.
Remembered(u) ==
    \/ mid[u] \in late \cup {NoId} \/ u \in met
    \/ u \in toLoad /\ seen[u] = mid[u]
    \/ devices[u].mid = mid[u] /\ devices[u].uid = u
    \/ stage = "running" /\ \E r \in Radios : devices[r].mid = mid[u] /\ devices[r].uid = u

RememberedInv ==
    /\ MeshtasticTypeOK /\ RowsInTurn /\ RadiosAreThemselves /\ IdsStay
    /\ \A u \in Uids : Remembered(u)

LEMMA MeshtasticStart == MeshtasticInit => RememberedInv /\ RepliesFindTheirDevice
<1> USE MeshtasticAssumption DEF MeshtasticInit, Keys, NoDevice, Idle
<1> SUFFICES ASSUME MeshtasticInit PROVE RememberedInv /\ RepliesFindTheirDevice
  OBVIOUS
<1>1. MeshtasticTypeOK
  BY DEF MeshtasticTypeOK, MeshIds, Entries
<1>2. RowsInTurn /\ IdsStay /\ RepliesFindTheirDevice
  BY DEF RowsInTurn, IdsStay, RepliesFindTheirDevice
<1>3. RadiosAreThemselves
  BY DEF RadiosAreThemselves
<1>4. \A u \in Uids : Remembered(u)
  BY DEF Remembered
<1> QED BY <1>1, <1>2, <1>3, <1>4 DEF RememberedInv

LEMMA LoadingStarts == RememberedInv /\ Start => RememberedInv'
<1> SUFFICES ASSUME RememberedInv, Start PROVE RememberedInv'
  OBVIOUS
<1> USE MeshtasticAssumption DEF RememberedInv, Start, idVars
<1>1. MeshtasticTypeOK'
  BY DEF MeshtasticTypeOK, MeshIds, Entries, NoDevice
<1>2. RowsInTurn' /\ IdsStay'
  BY DEF MeshtasticTypeOK, RowsInTurn, IdsStay, Keys
<1>3. RadiosAreThemselves'
  BY DEF MeshtasticTypeOK, RadiosAreThemselves, Keys
<1>4. \A u \in Uids : Remembered(u)'
  BY DEF MeshtasticTypeOK, RowsInTurn, Remembered, Keys
<1> QED BY <1>1, <1>2, <1>3, <1>4

LEMMA LoadRowStep == ASSUME RememberedInv, NEW k \in Keys, LoadRow(k) PROVE RememberedInv'
<1> USE MeshtasticAssumption DEF RememberedInv, idVars
<1>0. PICK n \in {seen[k], mid[k]} :
         \/ n = NoId /\ filling' = k /\ UNCHANGED <<devices, toLoad>>
         \/ /\ n # NoId
            /\ devices' = [devices EXCEPT ![k] = [mid |-> n, padded |-> FALSE, uid |-> k]]
            /\ toLoad' = toLoad \ {k} /\ UNCHANGED filling
  BY DEF LoadRow
<1>u. /\ stage = "loading" /\ stage' = stage /\ filling = NoUid /\ k \in toLoad
      /\ UNCHANGED <<eud, mid, given, met, seen, connecting, aired, late>>
  BY DEF LoadRow
<1>r. k \in Radios => n = k
  BY <1>u DEF RowsInTurn, RadiosAreThemselves, Keys
<1>1. MeshtasticTypeOK'
  <2>1. [mid |-> n, padded |-> FALSE, uid |-> k] \in Entries
    BY DEF MeshtasticTypeOK, Entries
  <2>2. devices' \in [Keys -> Entries]
    BY <1>0, <2>1 DEF MeshtasticTypeOK
  <2> QED BY <1>0, <1>u, <2>2 DEF MeshtasticTypeOK
<1>2. RowsInTurn'
  BY <1>0, <1>u, <1>r DEF MeshtasticTypeOK, RowsInTurn, Keys
<1>3. IdsStay'
  BY <1>u DEF IdsStay
<1>4. RadiosAreThemselves'
  BY <1>0, <1>u, <1>r DEF MeshtasticTypeOK, RadiosAreThemselves, Keys
<1>5. ASSUME NEW u \in Uids PROVE Remembered(u)'
  <2>1. Remembered(u)
    OBVIOUS
  <2>2. CASE n = NoId
    BY <1>0, <1>u, <2>1, <2>2 DEF Remembered
  <2>3. CASE n # NoId /\ k # u
    BY <1>0, <1>u, <2>1, <2>3 DEF MeshtasticTypeOK, Remembered, Keys
  <2>4. CASE n # NoId /\ k = u
    <3>1. devices[u] = NoDevice
      BY <1>u, <2>4 DEF RowsInTurn
    <3>2. devices'[u].mid = n /\ devices'[u].uid = u
      BY <1>0, <2>4 DEF MeshtasticTypeOK
    <3> QED BY <1>0, <1>u, <2>1, <2>4, <3>1, <3>2 DEF Remembered, NoDevice
  <2> QED BY <2>2, <2>3, <2>4
<1> QED BY <1>1, <1>2, <1>3, <1>4, <1>5

LEMMA FillRowStep == RememberedInv /\ FillRow => RememberedInv'
<1> SUFFICES ASSUME RememberedInv, FillRow PROVE RememberedInv'
  OBVIOUS
<1> USE MeshtasticAssumption DEF RememberedInv
<1>0. PICK n \in Ids : /\ mid' = [mid EXCEPT ![filling] = n]
                       /\ seen' = [seen EXCEPT ![filling] = n]
  BY DEF FillRow
<1>u. /\ filling # NoUid /\ filling' = NoUid
      /\ met' = IF mid[filling] = NoId THEN met ELSE met \cup {filling}
      /\ UNCHANGED <<eud, devices, stage, toLoad, connecting, aired, late>>
  BY DEF FillRow
<1>f. filling \in toLoad \cap Uids /\ filling \notin Radios /\ n # NoId
  BY <1>u DEF RowsInTurn
<1>1. MeshtasticTypeOK'
  BY <1>0, <1>u DEF MeshtasticTypeOK, MeshIds
<1>2. RowsInTurn'
  BY <1>0, <1>u, <1>f DEF MeshtasticTypeOK, RowsInTurn, Keys
<1>3. IdsStay'
  BY <1>0, <1>u, <1>f DEF MeshtasticTypeOK, IdsStay, Keys
<1>4. RadiosAreThemselves'
  BY <1>0, <1>u, <1>f DEF MeshtasticTypeOK, RadiosAreThemselves, Keys
<1>5. ASSUME NEW u \in Uids PROVE Remembered(u)'
  <2>1. Remembered(u)
    OBVIOUS
  <2>2. CASE u = filling
    BY <1>0, <1>u, <1>f, <2>2 DEF MeshtasticTypeOK, Remembered, Keys
  <2>3. CASE u # filling
    BY <1>0, <1>u, <2>1, <2>3 DEF MeshtasticTypeOK, Remembered, Keys
  <2> QED BY <2>2, <2>3
<1> QED BY <1>1, <1>2, <1>3, <1>4, <1>5

\* What changes no id, entry or list.
LEMMA RowsOnly ==
    ASSUME RememberedInv,
           eud' \in [Keys -> {"none", "bare", "ATAK", "Meshtastic"}],
           \A k \in Keys : eud[k] # "none" => eud'[k] # "none",
           \A r \in Radios : eud'[r] = eud[r],
           aired' \subseteq aired \cup {[uid |-> u, id |-> mid[u]] : u \in {v \in Uids : mid[v] # NoId}},
           \A c \in Streams : connecting'[c] \in
              {connecting[c], Idle} \cup {[uid |-> u, mid |-> mid[u]] : u \in Uids},
           connecting' \in [Streams -> [uid : Uids \cup {NoUid}, mid : MeshIds]],
           UNCHANGED <<mid, given, met, memoryVars, late>>
    PROVE  RememberedInv'
<1> USE MeshtasticAssumption DEF RememberedInv, memoryVars
<1>1. MeshtasticTypeOK'
  BY DEF MeshtasticTypeOK, MeshIds, Keys
<1>2. RowsInTurn'
  BY DEF RowsInTurn, MeshtasticTypeOK
<1>3. IdsStay'
  BY DEF IdsStay, Idle
<1>4. RadiosAreThemselves'
  BY DEF RadiosAreThemselves
<1>5. \A u \in Uids : Remembered(u)'
  BY DEF Remembered
<1> QED BY <1>1, <1>2, <1>3, <1>4, <1>5

LEMMA ReadsAndReports ==
    ASSUME RememberedInv,
           \/ Loaded
           \/ \E u \in Uids : NewRow(u) \/ ParsePoint(u) \/ ParseGeochat(u)
           \/ \E c \in Streams : ConnectBreaks(c) \/ \E u \in Uids : ConnectReads(c, u)
    PROVE  RememberedInv'
<1> USE MeshtasticAssumption
<1>1. CASE Loaded
  BY <1>1 DEF RememberedInv, Loaded, idVars, MeshtasticTypeOK, RowsInTurn, IdsStay,
              RadiosAreThemselves, Remembered
<1>2. CASE \E u \in Uids : NewRow(u)
  <2>1. PICK u \in Uids : NewRow(u)
    BY <1>2
  <2> QED BY <2>1, RowsOnly DEF RememberedInv, NewRow, MeshtasticTypeOK, Keys
<1>3. CASE \E u \in Uids : ParsePoint(u) \/ ParseGeochat(u)
  <2>1. PICK u \in Uids : Airs(u)
    BY <1>3 DEF ParsePoint, ParseGeochat
  <2> QED BY <2>1, RowsOnly DEF RememberedInv, Airs, idVars, MeshtasticTypeOK
<1>4. CASE \E c \in Streams : ConnectBreaks(c)
  <2>1. PICK c \in Streams : ConnectBreaks(c)
    BY <1>4
  <2> QED BY <2>1, RowsOnly DEF RememberedInv, ConnectBreaks, idVars, MeshtasticTypeOK, Idle, MeshIds
<1>5. CASE \E c \in Streams, u \in Uids : ConnectReads(c, u)
  <2>1. PICK c \in Streams, u \in Uids : ConnectReads(c, u)
    BY <1>5
  <2> QED BY <2>1, RowsOnly DEF RememberedInv, ConnectReads, MeshtasticTypeOK, Keys
<1> QED BY <1>1, <1>2, <1>3, <1>4, <1>5

LEMMA CommitStep ==
    ASSUME RememberedInv, NEW c \in Streams, ConnectCommits(c) PROVE RememberedInv'
<1> USE MeshtasticAssumption DEF RememberedInv
<1> DEFINE u == connecting[c].uid
<1>0. /\ connecting[c] # Idle /\ u \in Uids /\ u \in Keys /\ u \notin Radios
      /\ eud' = [eud EXCEPT ![u] = "ATAK"]
      /\ connecting' = [connecting EXCEPT ![c] = Idle]
      /\ UNCHANGED <<devices, stage, alive, toLoad, seen, filling, aired>>
  BY DEF ConnectCommits, Committed, memoryVars, IdsStay, Keys
<1>m. \/ /\ connecting[c].mid = NoId
         /\ \E n \in Ids : /\ mid' = [mid EXCEPT ![u] = n] /\ late' = late \cup {n}
         /\ met' = IF mid[u] # NoId THEN met \cup {u} ELSE met
      \/ /\ connecting[c].mid # NoId
         /\ mid' = mid \/ mid' = [mid EXCEPT ![u] = connecting[c].mid]
         /\ UNCHANGED <<met, late>>
  BY DEF ConnectCommits, Draws
<1>i. /\ mid' \in [Keys -> MeshIds] /\ met \subseteq met' /\ late \subseteq late'
      /\ \A k \in Keys : k # u => mid'[k] = mid[k]
      /\ \/ mid'[u] = mid[u] \/ u \in met'
         \/ mid[u] = NoId /\ mid'[u] \in late'
  <2>1. CASE connecting[c].mid = NoId
    BY <1>0, <1>m, <2>1 DEF MeshtasticTypeOK, MeshIds
  <2>2. CASE connecting[c].mid # NoId
    <3>1. connecting[c].mid \in MeshIds
      BY DEF MeshtasticTypeOK
    <3>2. connecting[c].mid = mid[u] \/ u \in met
      BY <1>0, <2>2 DEF IdsStay
    <3> QED BY <1>0, <1>m, <2>2, <3>1, <3>2 DEF MeshtasticTypeOK
  <2> QED BY <2>1, <2>2
<1>1. MeshtasticTypeOK'
  BY <1>0, <1>i DEF MeshtasticTypeOK, MeshIds, Idle
<1>2. RowsInTurn'
  BY <1>0, <1>i DEF RowsInTurn, MeshtasticTypeOK
<1>3. IdsStay'
  <2>1. ASSUME NEW a \in aired
        PROVE  a.id # NoId /\ (mid'[a.uid] = a.id \/ a.uid \in met')
    <3>1. a.uid \in Keys /\ a.id # NoId /\ (mid[a.uid] = a.id \/ a.uid \in met)
      BY DEF MeshtasticTypeOK, IdsStay, Keys
    <3> QED BY <3>1, <1>i
  <2>2. ASSUME NEW d \in Streams, connecting'[d] # Idle
        PROVE  /\ connecting'[d].uid \in Uids
               /\ connecting'[d].mid # NoId =>
                     connecting'[d].mid = mid'[connecting'[d].uid] \/ connecting'[d].uid \in met'
    <3>1. d # c /\ connecting'[d] = connecting[d]
      BY <2>2, <1>0 DEF MeshtasticTypeOK
    <3>2. /\ connecting[d].uid \in Uids /\ connecting[d].uid \in Keys
          /\ connecting[d].mid # NoId =>
                 connecting[d].mid = mid[connecting[d].uid] \/ connecting[d].uid \in met
      BY <2>2, <3>1 DEF IdsStay, Keys
    <3> QED BY <3>1, <3>2, <1>i
  <2> QED BY <2>1, <2>2, <1>0 DEF IdsStay
<1>4. RadiosAreThemselves'
  BY <1>0, <1>i DEF RadiosAreThemselves, MeshtasticTypeOK, Keys
<1>5. ASSUME NEW v \in Uids PROVE Remembered(v)'
  <2>1. Remembered(v) /\ v \in Keys
    BY DEF Keys
  <2>2. mid'[v] = mid[v] \/ v \in met' \/ mid'[v] \in late'
    BY <2>1, <1>i
  <2> QED BY <2>1, <2>2, <1>0, <1>i DEF Remembered
<1> QED BY <1>1, <1>2, <1>3, <1>4, <1>5

\* What a packet does with the row of its device, and the entry of its radio.
LEMMA KnownRadio ==
    ASSUME RememberedInv, NEW r \in Radios
    PROVE  /\ Known(r) \in [Keys -> Entries]
           /\ \A k \in Keys : k # r => Known(r)[k] = devices[k]
           /\ devices[r] # NoDevice => Known(r) = devices
           /\ Known(r)[r] # NoDevice /\ Known(r)[r].mid = r
           /\ Known(r)[r].uid \in {NoUid, r, PluginOf[r]}
BY MeshtasticAssumption DEF RememberedInv, MeshtasticTypeOK, RadiosAreThemselves, Known,
   Entries, MeshIds, Keys, NoDevice

LEMMA PacketStep ==
    ASSUME RememberedInv, NEW r \in Radios, NEW u \in {r, PluginOf[r]} \ {NoUid},
           NEW d \in {NoUid, PluginOf[r]}, NEW update \in BOOLEAN,
           UNCHANGED <<stage, toLoad, seen, filling, connecting, given, aired, met>>,
           devices' = IF d = NoUid THEN Known(r) ELSE [Known(r) EXCEPT ![r].uid = d],
           late' = NotedLate(r),
           u # r => u = d,
           Save(u, devices'[r].mid, update)
    PROVE  RememberedInv'
<1> USE MeshtasticAssumption
<1>u. u \in Keys /\ r \in Keys /\ r \notin Uids
  BY DEF Keys
<1>d. /\ devices' \in [Keys -> Entries]
      /\ \A k \in Keys : k # r => devices'[k] = devices[k]
      /\ devices'[r].mid = r
      /\ devices'[r].uid \in {NoUid, r, PluginOf[r]}
      /\ d # NoUid => devices'[r].uid = d
      /\ d = NoUid /\ devices[r] # NoDevice => devices'[r] = devices[r]
  <2>1. CASE d = NoUid
    BY <2>1, <1>u, KnownRadio
  <2>2. CASE d # NoUid
    <3>1. d \in Keys
      BY <2>2 DEF Keys
    <3> QED BY <2>2, <3>1, <1>u, KnownRadio DEF Entries
  <2> QED BY <2>1, <2>2
<1>l. late \subseteq late' /\ (stage = "loading" => r \in late')
  BY DEF NotedLate
<1>s. /\ eud' \in [Keys -> {"none", "bare", "ATAK", "Meshtastic"}] /\ mid' \in [Keys -> MeshIds]
      /\ \A k \in Keys : eud[k] # "none" => eud'[k] # "none" /\ mid'[k] = mid[k]
      /\ \A k \in Keys : k # u => eud'[k] = eud[k] /\ mid'[k] = mid[k]
      /\ mid'[u] = mid[u] \/ (eud'[u] # "none" /\ mid'[u] = r)
      /\ eud'[u] # "none" => eud[u] # "none" \/ mid'[u] = r
  <2>1. r \in MeshIds /\ devices'[r].mid = r
    BY <1>d DEF MeshIds
  <2>2. /\ eud \in [Keys -> {"none", "bare", "ATAK", "Meshtastic"}]
        /\ mid \in [Keys -> MeshIds]
    BY DEF RememberedInv, MeshtasticTypeOK
  <2>3. CASE UNCHANGED <<eud, mid>>
    BY <2>2, <2>3
  <2>4. CASE /\ eud' = [eud EXCEPT ![u] = IF @ = "none" \/ update THEN "Meshtastic" ELSE @]
             /\ mid' = [mid EXCEPT ![u] = IF eud[u] = "none" THEN devices'[r].mid ELSE @]
    BY <1>u, <2>1, <2>2, <2>4
  <2> QED BY <2>3, <2>4 DEF Save
<1>n. \A k \in Keys : mid[k] # NoId => eud[k] # "none"
  BY DEF RememberedInv, RowsInTurn
<1>1. MeshtasticTypeOK'
  BY <1>d, <1>s DEF RememberedInv, MeshtasticTypeOK
<1>2. RowsInTurn'
  <2>1. \A k \in Keys : mid'[k] # NoId \/ k \in toLoad => eud'[k] # "none"
    BY <1>s DEF RememberedInv, RowsInTurn
  <2> QED BY <2>1, <1>d, <1>u DEF RememberedInv, RowsInTurn, Keys
<1>3. IdsStay'
  <2>1. ASSUME NEW a \in aired
        PROVE  a.id # NoId /\ (mid'[a.uid] = a.id \/ a.uid \in met)
    <3>1. a.uid \in Keys /\ a.id # NoId /\ (mid[a.uid] = a.id \/ a.uid \in met)
      BY DEF RememberedInv, MeshtasticTypeOK, IdsStay, Keys
    <3> QED BY <3>1, <1>s, <1>n
  <2>2. ASSUME NEW c \in Streams, connecting[c] # Idle
        PROVE  /\ connecting[c].uid \in Uids
               /\ connecting[c].mid # NoId =>
                     connecting[c].mid = mid'[connecting[c].uid] \/ connecting[c].uid \in met
    <3>1. /\ connecting[c].uid \in Uids /\ connecting[c].uid \in Keys
          /\ connecting[c].mid # NoId =>
                 connecting[c].mid = mid[connecting[c].uid] \/ connecting[c].uid \in met
      BY <2>2 DEF RememberedInv, IdsStay, Keys
    <3> QED BY <3>1, <1>s, <1>n
  <2> QED BY <2>1, <2>2 DEF IdsStay
<1>4. RadiosAreThemselves'
  <2> SUFFICES ASSUME NEW q \in Radios
               PROVE  /\ eud'[q] # "none" => mid'[q] = q
                      /\ q \in toLoad => seen[q] = q
                      /\ devices'[q] # NoDevice =>
                            /\ devices'[q].mid = q
                            /\ devices'[q].uid \in {NoUid, q, PluginOf[q]}
    BY DEF RadiosAreThemselves
  <2>1. /\ q \in Keys /\ eud[q] # "none" => mid[q] = q
        /\ q \in toLoad => seen[q] = q
        /\ devices[q] # NoDevice =>
              devices[q].mid = q /\ devices[q].uid \in {NoUid, q, PluginOf[q]}
    BY DEF RememberedInv, RadiosAreThemselves, Keys
  <2>2. q = u => q = r
    OBVIOUS
  <2>3. q \in Keys
    BY DEF Keys
  <2>4. eud'[q] # "none" => mid'[q] = q
    BY <2>1, <2>2, <2>3, <1>s
  <2>5. devices'[q] # NoDevice =>
           devices'[q].mid = q /\ devices'[q].uid \in {NoUid, q, PluginOf[q]}
    BY <2>1, <2>3, <1>d
  <2> QED BY <2>1, <2>4, <2>5
<1>5. ASSUME NEW v \in Uids PROVE Remembered(v)'
  <2>1. Remembered(v) /\ v \in Keys /\ v # r
    BY DEF RememberedInv, Keys
  <2>2. CASE mid'[v] # mid[v]
    <3>1. v = u /\ mid'[v] = r /\ devices'[r].uid = v /\ devices'[r].mid = r
      BY <2>1, <2>2, <1>s, <1>d
    <3>2. stage \in {"loading", "running"}
      BY DEF RememberedInv, MeshtasticTypeOK
    <3> QED BY <3>1, <3>2, <1>l DEF Remembered
  <2>3. CASE mid'[v] = mid[v] /\ \E q \in Radios : devices[q].mid = mid[v] /\ devices[q].uid = v
    <3>1. PICK q \in Radios : devices[q].mid = mid[v] /\ devices[q].uid = v
      BY <2>3
    <3>2. q # r => devices'[q] = devices[q]
      BY <1>d DEF Keys
    <3>3. q = r => devices'[q].mid = mid[v] /\ devices'[q].uid = v
      <4> SUFFICES ASSUME q = r PROVE devices'[q].mid = mid[v] /\ devices'[q].uid = v
        OBVIOUS
      <4>1. devices[r] # NoDevice
        BY <3>1 DEF NoDevice
      <4>2. v = PluginOf[r] /\ devices[r].mid = r
        BY <4>1, <3>1, <2>1 DEF RememberedInv, RadiosAreThemselves
      <4> QED BY <4>1, <4>2, <3>1, <1>d
    <3>4. \E p \in Radios : devices'[p].mid = mid'[v] /\ devices'[p].uid = v
      BY <2>3, <3>1, <3>2, <3>3
    <3> QED BY <2>1, <2>3, <3>4, <1>l, <1>d DEF Remembered
  <2>4. CASE mid'[v] = mid[v] /\ ~\E q \in Radios : devices[q].mid = mid[v] /\ devices[q].uid = v
    BY <2>1, <2>4, <1>l, <1>d DEF Remembered
  <2> QED BY <2>2, <2>3, <2>4
<1> QED BY <1>1, <1>2, <1>3, <1>4, <1>5 DEF RememberedInv

LEMMA RememberedSteps == RememberedInv /\ [MeshtasticNext]_meshtasticVars => RememberedInv'
<1> SUFFICES ASSUME RememberedInv, [MeshtasticNext]_meshtasticVars PROVE RememberedInv'
  OBVIOUS
<1>1. CASE Start \/ FillRow \/ \E k \in Keys : LoadRow(k)
  BY <1>1, LoadingStarts, FillRowStep, LoadRowStep
<1>2. CASE \/ Loaded
           \/ \E u \in Uids : NewRow(u) \/ ParsePoint(u) \/ ParseGeochat(u)
           \/ \E c \in Streams : ConnectBreaks(c) \/ \E u \in Uids : ConnectReads(c, u)
  BY <1>2, ReadsAndReports
<1>3. CASE \E c \in Streams : ConnectCommits(c)
  BY <1>3, CommitStep
<1>4. ASSUME NEW r \in Radios, NEW update \in BOOLEAN, OnMessagePosition(r, update)
      PROVE  RememberedInv'
  <2>1. r # NoUid
    BY MeshtasticAssumption
  <2> QED BY <1>4, <2>1, PacketStep DEF OnMessagePosition, OnMessage
<1>5. ASSUME NEW r \in Radios, OnMessagePlugin(r) PROVE RememberedInv'
  BY <1>5, PacketStep DEF OnMessagePlugin, OnMessage
<1>6. ASSUME NEW r \in Radios, NEW to, OnMessageText(r, to) PROVE RememberedInv'
  <2>1. /\ r # NoUid /\ devices' = Known(r) /\ late' = NotedLate(r)
        /\ UNCHANGED <<stage, toLoad, seen, filling, connecting, given, aired, met, eud, mid>>
    BY <1>6, MeshtasticAssumption DEF OnMessageText, OnMessage
  <2>2. Save(r, devices'[r].mid, FALSE)
    BY <2>1 DEF Save
  <2> QED BY <2>1, <2>2, PacketStep
<1>7. CASE UNCHANGED meshtasticVars
  BY <1>7 DEF meshtasticVars, RememberedInv, MeshtasticTypeOK, RowsInTurn, IdsStay,
              RadiosAreThemselves, Remembered
<1> QED BY <1>1, <1>2, <1>3, <1>4, <1>5, <1>6, <1>7 DEF MeshtasticNext

LEMMA RepliesStep ==
    RememberedInv /\ RememberedInv' /\ RepliesFindTheirDevice /\ [MeshtasticNext]_meshtasticVars
      => RepliesFindTheirDevice'
<1> SUFFICES ASSUME RememberedInv, RememberedInv', RepliesFindTheirDevice,
                    [MeshtasticNext]_meshtasticVars
             PROVE  RepliesFindTheirDevice'
  OBVIOUS
<1>1. CASE reply' = NoReply
  BY <1>1 DEF RememberedInv, IdsStay, NoReply, RepliesFindTheirDevice
<1>2. CASE UNCHANGED meshtasticVars
  BY <1>2 DEF meshtasticVars, RepliesFindTheirDevice
<1>3. ASSUME NEW r \in Radios, NEW to, OnMessageText(r, to), reply' # NoReply,
             stage' = "running", NEW a \in aired', a.id = reply'.to
      PROVE  a.uid \in reply'.uids \/ a.id \in Short \cup late' \/ a.uid \in met'
  <2> SUFFICES ASSUME a.id \notin Short \cup late', a.uid \notin met'
               PROVE  a.uid \in reply'.uids
    OBVIOUS
  <2>1. PICK uids \in Recipients(devices', to) : reply' = [to |-> to, uids |-> uids]
    BY <1>3 DEF OnMessageText
  <2>2. stage = "running" /\ late' = late /\ a.id = to
    BY <1>3, <2>1 DEF OnMessageText, OnMessage, NotedLate
  <2>3. uids = Found(devices', to)
    BY <2>1, <2>2 DEF Recipients
  <2>4. a.uid \in Uids /\ a.uid # NoUid /\ mid'[a.uid] = to /\ to # NoId
    BY <2>2, MeshtasticAssumption DEF RememberedInv, MeshtasticTypeOK, IdsStay
  <2>5. \E k \in Keys : devices'[k].mid = to /\ devices'[k].uid = a.uid
    BY <1>3, <2>2, <2>4 DEF RememberedInv, Remembered, RowsInTurn, Keys
  <2> QED BY <2>1, <2>2, <2>3, <2>4, <2>5 DEF Found, Matches
<1>4. \/ reply' = NoReply \/ UNCHANGED meshtasticVars
      \/ \E r \in Radios : \E to : OnMessageText(r, to)
  BY DEF MeshtasticNext, Start, FillRow, Loaded, LoadRow, NewRow, ParsePoint, ParseGeochat, Airs,
         ConnectReads, ConnectCommits, Committed, ConnectBreaks, OnMessagePosition,
         OnMessagePlugin
<1> QED BY <1>1, <1>2, <1>3, <1>4 DEF RepliesFindTheirDevice

(* on_message and get_euds with parse_device_info: whatever rows are read, ids drawn and
   packets heard in between, and over every start of the controller, a text to an id a
   device was published under finds it, but for ids with a leading zero, ids the
   controller's memory is too old for, and devices that were given two. *)
THEOREM RepliesReachTheirDevice == MeshtasticSpec => []RepliesFindTheirDevice
<1> QED BY MeshtasticStart, RememberedSteps, RepliesStep, PTL DEF MeshtasticSpec

-----------------------------------------------------------------------------
(* The messages for users who are not connected. *)
(* OfflineChat: rows, queue, connections and clock keep the shape TypeOK
   describes. *)
THEOREM ChatTyping == Spec => []TypeOK
<1>1. Init => TypeOK
  <2>1. MaxTime \in Nat /\ MaxChanges \in Nat
    BY TimeAssumption
  <2>2. 0 \in 0..MaxTime /\ 0 \in 0..MaxChanges /\ -1 \in -1..MaxTime
    BY <2>1
  <2>3. Init => lastRx \in -1..MaxTime
    BY <2>2 DEF Init
  <2> SUFFICES ASSUME Init PROVE TypeOK
    OBVIOUS
  <2>4. /\ now \in 0..MaxTime
        /\ row \in [Msgs -> {"none", "pending", "delivered", "gone"}]
        /\ created \in [Msgs -> 0..MaxTime]
        /\ rowUser \in [Msgs -> Accounts]
        /\ parser \in [Msgs -> {"new", "queued", "routed"}]
        /\ liveQ \subseteq Msgs /\ bound \subseteq {"dms", "group"}
    BY <2>2 DEF Init, Accounts
  <2>5. /\ phase \in [Conns -> Phases]
        /\ cuser \in [Conns -> Accounts]
        /\ queue \in [Conns -> {"none", "bound", "consumes", "aside"}]
        /\ peer \in [Conns -> BOOLEAN]
        /\ opened \in [Conns -> 0..MaxTime]
        /\ todo \in [Conns -> SUBSET Msgs]
        /\ unstamped \in [Conns -> SUBSET Msgs]
    BY <2>2 DEF Init, Accounts, Phases
  <2> QED BY <2>2, <2>3, <2>4, <2>5 DEF Init, TypeOK
<1>2. TypeOK /\ [Next]_vars => TypeOK'
  <2> SUFFICES ASSUME TypeOK, [Next]_vars PROVE TypeOK'
    OBVIOUS
  <2> USE TimeAssumption, SetAssumption
  <2>1. ASSUME NEW m \in Msgs, QueueChat(m) PROVE TypeOK'
    BY <2>1 DEF TypeOK, QueueChat, connVars, eudVars, memberVars
  <2>2. ASSUME NEW m \in Msgs, RouteChat(m) PROVE TypeOK'
    BY <2>2 DEF TypeOK, RouteChat, rowVars, connVars, eudVars, memberVars
  <2>3. ASSUME NEW c \in Conns, NEW u \in Accounts, NEW channel \in BOOLEAN,
               Identify(c, u, channel)
        PROVE TypeOK'
    <3>1. bound' \subseteq {"dms", "group"}
      BY <2>3 DEF TypeOK, Identify, Connect
    <3> QED BY <2>3, <3>1 DEF TypeOK, Identify, Connect, Phases, rowVars,
                eudVars, memberVars
  <2>4. ASSUME NEW S \in SUBSET Msgs
        PROVE Stamp(S) \in [Msgs -> {"none", "pending", "delivered", "gone"}]
    BY DEF TypeOK, Stamp
  <2>5. \A t : Settled(t) \subseteq Msgs
    BY DEF Settled
  <2>6. ASSUME NEW c \in Conns, StartBacklog(c) PROVE TypeOK'
    BY <2>4, <2>5, <2>6 DEF TypeOK, StartBacklog, ReadBacklog, ReceivedLive,
       Phases, eudVars, memberVars
  <2>7. ASSUME NEW c \in Conns, NEW m \in Msgs
        PROVE Reaches(m, c) \subseteq Msgs \X Accounts
    BY DEF TypeOK, Reaches
  <2>8. ASSUME NEW c \in Conns, NEW m \in Msgs, WriteRow(c, m) PROVE TypeOK'
    BY <2>7, <2>8 DEF TypeOK, WriteRow, rowVars, eudVars, memberVars
  <2>9. ASSUME NEW c \in Conns, StampRow(c) PROVE TypeOK'
    <3>1. {m \in unstamped[c] : row[m] # "gone"} \in SUBSET Msgs
      BY DEF TypeOK
    <3> QED BY <2>4, <2>9, <3>1 DEF TypeOK, StampRow, eudVars, memberVars
  <2>10. ASSUME NEW c \in Conns, BacklogFails(c) PROVE TypeOK'
    BY <2>10 DEF TypeOK, BacklogFails, rowVars, eudVars, memberVars
  <2>11. ASSUME NEW c \in Conns, GoLive(c) PROVE TypeOK'
    BY <2>11 DEF TypeOK, GoLive, Phases, rowVars, memberVars
  <2>12. ASSUME NEW c \in Conns, NEW m \in Msgs, LiveDeliver(c, m) PROVE TypeOK'
    BY <2>7, <2>12 DEF TypeOK, LiveDeliver, rowVars, connVars, eudVars, memberVars
  <2>13. ASSUME NEW c \in Conns, StepAside(c) PROVE TypeOK'
    BY <2>13 DEF TypeOK, StepAside, rowVars, eudVars, memberVars
  <2>14. ASSUME NEW c \in Conns, NoteRx(c) PROVE TypeOK'
    BY <2>14 DEF TypeOK, NoteRx, rowVars, connVars, memberVars
  <2>15. ASSUME NEW c \in Conns, PeerGone(c) PROVE TypeOK'
    BY <2>15 DEF TypeOK, PeerGone, rowVars, eudVars, memberVars
  <2>16. ASSUME NEW c \in Conns, CloseConnection(c) PROVE TypeOK'
    <3>1. bound' \subseteq {"dms", "group"} /\ connected' \in BOOLEAN
      BY <2>16 DEF TypeOK, CloseConnection
    <3> QED BY <2>16, <3>1 DEF TypeOK, CloseConnection, Forget, Phases, rowVars,
                memberVars
  <2>17. ASSUME NEW c \in Conns, HandlerDies(c) PROVE TypeOK'
    BY <2>17 DEF TypeOK, HandlerDies, Forget, Phases, rowVars, memberVars
  <2>18. CASE Settle
    BY <2>4, <2>5, <2>18 DEF TypeOK, Settle, connVars, eudVars, memberVars
  <2>19. CASE Purge
    BY <2>19 DEF TypeOK, Purge, connVars, eudVars, memberVars
  <2>20. CASE DropQueue
    BY <2>20 DEF TypeOK, DropQueue, connVars, eudVars, memberVars
  <2>21. ASSUME NEW u \in Users, ChangeMembership(u) PROVE TypeOK'
    <3>1. bound' \subseteq {"dms", "group"}
      BY <2>21 DEF TypeOK, ChangeMembership
    <3> QED BY <2>21, <3>1 DEF TypeOK, ChangeMembership, rowVars, connVars, eudVars
  <2>22. CASE Tick
    BY <2>22 DEF TypeOK, Tick, rowVars, connVars, eudVars, memberVars
  <2>23. CASE UNCHANGED vars
    BY <2>23 DEF TypeOK, vars, rowVars, connVars, eudVars, memberVars
  <2> QED
    BY <2>1, <2>2, <2>3, <2>6, <2>8, <2>9, <2>10, <2>11, <2>12, <2>13, <2>14,
       <2>15, <2>16, <2>17, <2>18, <2>19, <2>20, <2>21, <2>22, <2>23 DEF Next
<1> QED BY <1>1, <1>2, PTL DEF Spec
-----------------------------------------------------------------------------
(* The strengthening behind BacklogForItsUser: the user of a row is fixed
   before any connection lists the row, the user of a connection before it
   lists any row, and a listed row is for the user of the connection. *)
ForUser(m, c) == rowUser[m] \in {NoUser, cuser[c]}

UserInv ==
    /\ \A m \in Msgs : parser[m] = "new" =>
        /\ row[m] = "none"
        /\ \A c \in Conns : m \notin todo[c] \cup unstamped[c] /\ <<m, c>> \notin written
    /\ \A c \in Conns : phase[c] = "new" =>
        /\ todo[c] = {}
        /\ \A m \in Msgs : <<m, c>> \notin written
    /\ \A c \in Conns, m \in Msgs :
        m \in todo[c] \/ <<m, c>> \in written => ForUser(m, c)

userVars == <<row, rowUser, parser, phase, cuser, todo, unstamped, written>>

(* A step that leaves rows, backlogs and accounts alone keeps UserInv. *)
LEMMA UserFrame == UserInv /\ UNCHANGED userVars => UserInv'
  BY DEF UserInv, ForUser, userVars

(* Stamping rows, or deleting them, only touches rows that exist. *)
LEMMA RowsFrame ==
    ASSUME UserInv,
           \A m \in Msgs : row[m] = "none" => row'[m] = "none",
           UNCHANGED <<rowUser, parser, phase, cuser, todo, unstamped, written>>
    PROVE  UserInv'
  BY DEF UserInv, ForUser

(* A connection that only gives up rows. *)
LEMMA ListFrame ==
    ASSUME TypeOK, UserInv, NEW c \in Conns,
           UNCHANGED <<row, rowUser, parser, cuser, written>>,
           \A o \in Conns : /\ todo'[o] \subseteq todo[o]
                            /\ unstamped'[o] \subseteq unstamped[o]
                            /\ phase'[o] = "new" => phase[o] = "new"
    PROVE  UserInv'
  BY DEF TypeOK, UserInv, ForUser

(* Every step keeps UserInv: a backlog only holds messages of its user. *)
LEMMA UserStep == TypeOK /\ UserInv /\ [Next]_vars => UserInv'
<1> SUFFICES ASSUME TypeOK, UserInv, [Next]_vars PROVE UserInv'
  OBVIOUS
<1>1. ASSUME NEW m \in Msgs, QueueChat(m) PROVE UserInv'
  <2>1. UNCHANGED <<phase, cuser, todo, unstamped, written>>
    BY <1>1 DEF QueueChat, connVars
  <2>2. \A o \in Msgs \ {m} : /\ rowUser'[o] = rowUser[o]
                              /\ row'[o] = row[o]
                              /\ parser'[o] = parser[o]
    BY <1>1 DEF QueueChat, TypeOK
  <2>3. parser[m] = "new" /\ parser'[m] # "new"
    BY <1>1 DEF QueueChat, TypeOK
  <2> QED BY <2>1, <2>2, <2>3 DEF UserInv, ForUser
<1>2. ASSUME NEW m \in Msgs, RouteChat(m) PROVE UserInv'
  BY <1>2 DEF RouteChat, TypeOK, UserInv, ForUser, rowVars, connVars
<1>3. ASSUME NEW c \in Conns, NEW u \in Accounts, NEW channel \in BOOLEAN,
             Identify(c, u, channel)
      PROVE UserInv'
  <2>1. /\ UNCHANGED <<row, rowUser, parser, todo, unstamped, written>>
        /\ phase[c] = "new" /\ phase'[c] # "new"
        /\ \A o \in Conns \ {c} : cuser'[o] = cuser[o] /\ phase'[o] = phase[o]
    BY <1>3 DEF Identify, Connect, TypeOK, rowVars
  <2> QED BY <2>1 DEF UserInv, ForUser
<1>4. ASSUME NEW c \in Conns, StartBacklog(c) PROVE UserInv'
  <2> DEFINE live == ReceivedLive(RxGrace)
  <2>1. /\ UNCHANGED <<rowUser, parser, cuser, unstamped, written>>
        /\ phase[c] = "identified" /\ phase' = [phase EXCEPT ![c] = "sending"]
        /\ row' = Stamp(live)
        /\ \A o \in Conns \ {c} : todo'[o] = todo[o]
        /\ \A m \in todo'[c] : m \in Msgs /\ row[m] = "pending" /\ ForUser(m, c)
    BY <1>4 DEF StartBacklog, ReadBacklog, Entitled, ForUser, TypeOK
  <2>2. \A m \in live : row[m] = "pending"
    BY DEF ReceivedLive, Settled
  <2>3. \A m \in Msgs : row[m] = "none" => row'[m] = "none"
    BY <2>1, <2>2 DEF Stamp
  <2> HIDE DEF live
  <2> QED BY <2>1, <2>3 DEF UserInv, ForUser, TypeOK
<1>5. ASSUME NEW c \in Conns, NEW m \in Msgs, WriteRow(c, m) PROVE UserInv'
  <2>1. /\ UNCHANGED <<row, rowUser, parser, phase, cuser>>
        /\ m \in todo[c]
        /\ written' = written \cup {<<m, c>>}
        /\ \A o \in Conns : /\ todo'[o] \subseteq todo[o]
                            /\ unstamped'[o] \subseteq unstamped[o] \cup
                                    (IF o = c THEN {m} ELSE {})
    BY <1>5 DEF WriteRow, TypeOK, rowVars
  <2> QED BY <2>1 DEF UserInv, ForUser
<1>6. ASSUME NEW c \in Conns, StampRow(c) PROVE UserInv'
  <2>1. \A m \in unstamped[c] : parser[m] # "new"
    BY DEF UserInv, TypeOK
  <2>2. /\ UNCHANGED <<rowUser, parser, phase, cuser, todo, written>>
        /\ \A o \in Conns : unstamped'[o] \subseteq unstamped[o]
        /\ \A m \in Msgs : m \notin unstamped[c] => row'[m] = row[m]
    BY <1>6 DEF StampRow, Stamp, TypeOK
  <2> QED BY <2>1, <2>2 DEF UserInv, ForUser
<1>7. ASSUME NEW c \in Conns, BacklogFails(c) PROVE UserInv'
  BY <1>7, ListFrame DEF BacklogFails, TypeOK, rowVars
<1>8. ASSUME NEW c \in Conns, GoLive(c) PROVE UserInv'
  BY <1>8, ListFrame DEF GoLive, TypeOK, rowVars
<1>9. ASSUME NEW c \in Conns, NEW m \in Msgs, LiveDeliver(c, m) PROVE UserInv'
  BY <1>9, UserFrame DEF LiveDeliver, userVars, rowVars, connVars
<1>10. ASSUME NEW c \in Conns, StepAside(c) \/ NoteRx(c) \/ PeerGone(c)
       PROVE UserInv'
  BY <1>10, UserFrame DEF StepAside, NoteRx, PeerGone, userVars, rowVars, connVars
<1>11. ASSUME NEW c \in Conns, CloseConnection(c) \/ HandlerDies(c) PROVE UserInv'
  BY <1>11, ListFrame DEF CloseConnection, HandlerDies, Forget, TypeOK, rowVars
<1>12. CASE Settle
  BY <1>12, RowsFrame DEF Settle, Stamp, Settled, connVars
<1>13. CASE Purge
  BY <1>13, RowsFrame DEF Purge, connVars
<1>14. CASE DropQueue
  BY <1>14, RowsFrame DEF DropQueue, connVars
<1>15. ASSUME NEW u \in Users, ChangeMembership(u) PROVE UserInv'
  BY <1>15, UserFrame DEF ChangeMembership, userVars, rowVars, connVars
<1>16. CASE Tick
  BY <1>16, UserFrame DEF Tick, userVars, rowVars, connVars
<1>17. CASE UNCHANGED vars
  BY <1>17, UserFrame DEF vars, userVars, rowVars, connVars
<1> QED
  BY <1>1, <1>2, <1>3, <1>4, <1>5, <1>6, <1>7, <1>8, <1>9, <1>10, <1>11, <1>12,
     <1>13, <1>14, <1>15, <1>16, <1>17 DEF Next

(* deliver_pending: whatever happens to the device's account, its memberships
   and its connections, a stored message is only written to a connection of the
   user the device had when the message was queued. *)
THEOREM BacklogOnlyForItsUser == Spec => []BacklogForItsUser
<1>1. Init => UserInv
  BY DEF Init, UserInv, ForUser
<1>2. UserInv => BacklogForItsUser
  BY DEF UserInv, ForUser, BacklogForItsUser
<1> QED BY <1>1, <1>2, UserStep, ChatTyping, PTL DEF Spec

-----------------------------------------------------------------------------
(* What follows needs the disturbances that lose messages to be absent: the device
   always connects as the same account (none: plain TCP), one connection at a time,
   each with its broker channel, and commits do not fail. *)
Undisturbed == Users = {} /\ ~Overlap /\ ~ChannelLags /\ ~DbFails

Sending(c) == phase[c] \in {"identified", "sending"}

(* The connections: one at a time, bound to the direct messages, consuming only
   while it is live, and working through its backlog within one tick. *)
ConnectionInv ==
    /\ \A c, o \in Conns : Open(c) /\ Open(o) => c = o
    /\ \A c \in Conns : ~Open(c) => ~peer[c] /\ queue[c] = "none"
    /\ \A c \in Conns : phase[c] # "sending" => todo[c] = {} /\ unstamped[c] = {}
    /\ \A c \in Conns : Sending(c) => opened[c] = now /\ queue[c] # "consumes"
    /\ \A c \in Conns : opened[c] <= now
    /\ lastRx <= now

(* The rows: when they were made, and what a connection still has to write. *)
RowInv ==
    /\ \A m \in Msgs : parser[m] = "new" => row[m] = "none"
    /\ \A m \in Msgs : row[m] # "none" => created[m] <= now
    /\ \A m \in Msgs : parser[m] = "queued" => created[m] = now
    /\ \A c \in Conns, m \in Msgs : m \in todo[c] =>
        /\ row[m] \in {"pending", "gone"} /\ m \notin unstamped[c]
        /\ created[m] >= lastRx - RxGrace /\ created[m] >= now - Keep
        /\ row[m] = "gone" => \A o \in todo[c] : row[o] = "gone"
    /\ \A c \in Conns, m \in Msgs : m \in unstamped[c] => <<m, c>> \in written /\ row[m] # "none"

(* The device's queue takes direct messages, and its connection will consume it. *)
Bound == \A c \in Conns :
    /\ Open(c) => "dms" \in bound
    /\ Sending(c) => queue[c] = "bound"
    /\ phase[c] = "live" => queue[c] = "consumes"
Direct == \A m \in Msgs : row[m] # "none" => m \notin TeamMsgs

(* The message reached the device or was written to it, or was too old. *)
Had(m) ==
    \/ created[m] < now - Keep
    \/ \E u \in Accounts : <<m, u>> \in received
    \/ \E c \in Conns : <<m, c>> \in written

Stored(m) == row[m] \in {"pending", "delivered"}

(* While a connection has its device at the other end, what the device has not had
   is listed, or is on its way to the connection's queue and recent. *)
Reached ==
    \A c \in Conns : peer[c] /\ phase[c] \in {"sending", "live"} =>
        \A m \in Msgs : Stored(m) =>
            \/ m \in todo[c]
            \/ Had(m)
            \/ (m \in liveQ \/ parser[m] = "queued") /\ created[m] >= now - MaxLag

(* Evidence of the device covers only what it had, and so does a stamp. *)
Evidence == \A m \in Msgs : Stored(m) /\ created[m] < lastRx - RxGrace => Had(m)
StampedWasHad == \A m \in Msgs : row[m] = "delivered" => Had(m)

(* The rows pending when a connection identified itself are listed or written. *)
BacklogFirst ==
    \A c \in Conns : peer[c] /\ phase[c] \in {"sending", "live"} =>
        \A o \in Msgs :
            /\ row[o] = "pending" /\ created[o] < opened[c]
            /\ created[o] >= opened[c] - Keep /\ Entitled(o, cuser[c])
            => o \in todo[c] \/ \E x \in Conns : <<o, x>> \in written

DeliveryInv == Bound /\ Direct /\ Reached /\ Evidence /\ StampedWasHad /\ BacklogFirst

LEMMA TimesAreNats ==
    /\ RxGrace \in Nat /\ UserTimeout \in Nat /\ Keep \in Nat /\ MaxTime \in Nat /\ MaxLag \in Nat
    /\ MaxLag <= RxGrace /\ RxGrace <= UserTimeout /\ UserTimeout <= Keep
BY TimeAssumption

LEMMA ConnectionStep ==
    ASSUME ~Overlap, TypeOK, TypeOK', ConnectionInv, [Next]_vars PROVE ConnectionInv'
<1>n. now \in Nat /\ now' \in Nat /\ lastRx \in Int /\ opened \in [Conns -> Nat]
  BY TimesAreNats DEF TypeOK
<1>1. ASSUME UNCHANGED <<phase, peer, queue, todo, unstamped, opened>>, now' >= now, lastRx' <= now',
             now' # now => \A c \in Conns : ~Sending(c)
      PROVE ConnectionInv'
  BY <1>1, <1>n DEF ConnectionInv, Open, Sending
<1>2. ASSUME NEW c \in Conns, NEW u \in Accounts, NEW channel \in BOOLEAN, Identify(c, u, channel)
      PROVE ConnectionInv'
  <2>1. /\ \A o \in Conns : ~Open(o)
        /\ phase' = [phase EXCEPT ![c] = "identified"]
        /\ queue' = [queue EXCEPT ![c] = IF channel THEN "bound" ELSE "none"]
        /\ peer' = [peer EXCEPT ![c] = TRUE] /\ opened' = [opened EXCEPT ![c] = now]
        /\ todo' = todo /\ unstamped' = unstamped /\ now' = now /\ lastRx' = lastRx
    BY <1>2 DEF Identify, Connect, eudVars
  <2>2. \A o \in Conns : ~Open(o) => phase[o] # "sending" /\ phase[o] # "identified"
    BY DEF Open
  <2>3. (\A o \in Conns : o # c => ~Open(o)') /\ Open(c)'
    BY <2>1 DEF Open, TypeOK
  <2> QED
    BY <2>1, <2>2, <2>3, <1>n DEF ConnectionInv, Sending, TypeOK
<1>3. ASSUME NEW c \in Conns, StartBacklog(c) PROVE ConnectionInv'
  <2>1. /\ phase[c] = "identified" /\ phase' = [phase EXCEPT ![c] = "sending"] /\ queue' = queue /\ peer' = peer
        /\ unstamped' = unstamped /\ opened' = opened /\ now' = now /\ lastRx' = lastRx
        /\ \A o \in Conns : o # c => todo'[o] = todo[o]
    BY <1>3 DEF StartBacklog, ReadBacklog, eudVars, TypeOK
  <2>2. \A o \in Conns : (Open(o)' <=> Open(o)) /\ (Sending(o)' <=> Sending(o))
    BY <2>1 DEF Open, Sending, TypeOK
  <2> QED
    BY <2>1, <2>2 DEF ConnectionInv, TypeOK
<1>4. ASSUME NEW c \in Conns, NEW m \in Msgs, WriteRow(c, m) PROVE ConnectionInv'
  <2>1. /\ phase[c] = "sending" /\ UNCHANGED <<phase, peer, queue, opened, now, lastRx>>
        /\ \A o \in Conns : o # c => todo'[o] = todo[o] /\ unstamped'[o] = unstamped[o]
    BY <1>4 DEF WriteRow, eudVars, TypeOK
  <2> QED
    BY <2>1 DEF ConnectionInv, Open, Sending
<1>5. ASSUME NEW c \in Conns, StampRow(c) \/ BacklogFails(c) PROVE ConnectionInv'
  <2>1. /\ UNCHANGED <<phase, peer, queue, opened, now, lastRx>>
        /\ \A o \in Conns : todo'[o] \subseteq todo[o] /\ unstamped'[o] \subseteq unstamped[o]
    BY <1>5 DEF StampRow, BacklogFails, eudVars, TypeOK
  <2> QED
    BY <2>1 DEF ConnectionInv, Open, Sending
<1>6. ASSUME NEW c \in Conns, GoLive(c) PROVE ConnectionInv'
  <2>1. /\ phase[c] = "sending" /\ todo[c] = {} /\ unstamped[c] = {} /\ phase' = [phase EXCEPT ![c] = "live"]
        /\ queue' = [queue EXCEPT ![c] = IF @ = "bound" THEN "consumes" ELSE @]
        /\ UNCHANGED <<peer, todo, unstamped, opened, now, lastRx>>
    BY <1>6 DEF GoLive
  <2>2. /\ \A o \in Conns : Open(o)' <=> Open(o)
        /\ Open(c)
        /\ \A o \in Conns : Sending(o)' => Sending(o) /\ o # c
    BY <2>1 DEF Open, Sending, TypeOK
  <2> QED
    BY <2>1, <2>2 DEF ConnectionInv, TypeOK
<1>7. ASSUME NEW c \in Conns, StepAside(c) PROVE ConnectionInv'
  <2>1. /\ queue[c] = "consumes" /\ queue' = [queue EXCEPT ![c] = "aside"]
        /\ UNCHANGED <<phase, peer, todo, unstamped, opened, now, lastRx>>
    BY <1>7 DEF StepAside, eudVars
  <2> QED
    BY <2>1 DEF ConnectionInv, Open, Sending, TypeOK
<1>8. ASSUME NEW c \in Conns, PeerGone(c) PROVE ConnectionInv'
  <2>1. /\ peer' = [peer EXCEPT ![c] = FALSE]
        /\ UNCHANGED <<phase, queue, todo, unstamped, opened, now, lastRx>>
    BY <1>8 DEF PeerGone, eudVars
  <2> QED
    BY <2>1 DEF ConnectionInv, Open, Sending, TypeOK
<1>9. ASSUME NEW c \in Conns, CloseConnection(c) \/ HandlerDies(c) PROVE ConnectionInv'
  <2>1. /\ phase' = [phase EXCEPT ![c] = "closed"] /\ queue' = [queue EXCEPT ![c] = "none"]
        /\ peer' = [peer EXCEPT ![c] = FALSE] /\ todo' = [todo EXCEPT ![c] = {}]
        /\ unstamped' = [unstamped EXCEPT ![c] = {}] /\ opened' = opened /\ now' = now /\ lastRx' = lastRx
    BY <1>9 DEF CloseConnection, HandlerDies, Forget
  <2>2. /\ \A o \in Conns : Open(o)' => Open(o)
        /\ \A o \in Conns : Sending(o)' => Sending(o) /\ o # c
        /\ \A o \in Conns : ~Open(o)' => o = c \/ ~Open(o)
    BY <2>1 DEF Open, Sending, TypeOK
  <2> QED
    BY <2>1, <2>2 DEF ConnectionInv, TypeOK
<1>10. ASSUME NEW c \in Conns, NoteRx(c) PROVE ConnectionInv'
  BY <1>1, <1>10, <1>n DEF NoteRx, connVars
<1>11. CASE Tick
  <2>1. now' = now + 1 /\ UNCHANGED <<phase, peer, queue, todo, unstamped, opened, lastRx>>
        /\ \A c \in Conns : ~Sending(c)
    BY <1>11 DEF Tick, Prompt, Sending, connVars, eudVars
  <2>2. lastRx' <= now'
    BY <2>1, <1>n DEF ConnectionInv
  <2> QED
    BY <1>1, <2>1, <2>2, <1>n
<1>12. ASSUME UNCHANGED <<phase, peer, queue, todo, unstamped, opened, now, lastRx>> PROVE ConnectionInv'
  BY <1>12 DEF ConnectionInv, Open, Sending
<1>13. ASSUME NEW m \in Msgs, QueueChat(m) \/ RouteChat(m) PROVE ConnectionInv'
  BY <1>12, <1>13 DEF QueueChat, RouteChat, connVars, eudVars
<1>14. ASSUME NEW c \in Conns, NEW m \in Msgs, LiveDeliver(c, m) PROVE ConnectionInv'
  BY <1>12, <1>14 DEF LiveDeliver, connVars, eudVars
<1>15. CASE Settle \/ Purge \/ DropQueue
  BY <1>12, <1>15 DEF Settle, Purge, DropQueue, connVars, eudVars
<1>16. ASSUME NEW u \in Users, ChangeMembership(u) PROVE ConnectionInv'
  BY <1>12, <1>16 DEF ChangeMembership, connVars, eudVars
<1>17. CASE UNCHANGED vars
  BY <1>12, <1>17 DEF vars, connVars, eudVars
<1> QED
  BY <1>2, <1>3, <1>4, <1>5, <1>6, <1>7, <1>8, <1>9, <1>10, <1>11, <1>13, <1>14, <1>15, <1>16, <1>17 DEF Next

(* What a connection works through belongs to one connection. *)
LEMMA OneBacklog ==
    ASSUME ConnectionInv, NEW c \in Conns, phase[c] \in {"identified", "sending", "live"}
    PROVE  \A o \in Conns : o # c => todo[o] = {} /\ unstamped[o] = {}
BY DEF ConnectionInv, Open

LEMMA RowStep ==
    ASSUME ~Overlap, TypeOK, TypeOK', ConnectionInv, RowInv, [Next]_vars PROVE RowInv'
<1>n. /\ now \in Nat /\ now' \in Nat /\ lastRx \in Int /\ created \in [Msgs -> Nat] /\ created' \in [Msgs -> Nat]
      /\ todo \in [Conns -> SUBSET Msgs] /\ unstamped \in [Conns -> SUBSET Msgs]
      /\ todo' \in [Conns -> SUBSET Msgs] /\ unstamped' \in [Conns -> SUBSET Msgs]
      /\ row \in [Msgs -> {"none", "pending", "delivered", "gone"}]
      /\ row' \in [Msgs -> {"none", "pending", "delivered", "gone"}]
  BY TimesAreNats DEF TypeOK
<1>1. ASSUME UNCHANGED <<row, created, parser, written, now, lastRx>>,
             \A c \in Conns : todo'[c] \subseteq todo[c] /\ unstamped'[c] \subseteq unstamped[c]
      PROVE RowInv'
  BY <1>1, <1>n DEF RowInv
<1>2. ASSUME NEW m \in Msgs, QueueChat(m) PROVE RowInv'
  <2>1. /\ parser[m] = "new" /\ parser' = [parser EXCEPT ![m] = "queued"] /\ created' = [created EXCEPT ![m] = now]
        /\ \A o \in Msgs : o # m => row'[o] = row[o]
        /\ UNCHANGED <<todo, unstamped, written, now, lastRx>>
    BY <1>2 DEF QueueChat, connVars, eudVars, TypeOK
  <2>2. /\ row[m] = "none"
        /\ \A c \in Conns : m \notin todo[c] /\ m \notin unstamped[c]
    BY <2>1 DEF RowInv
  <2>3. /\ \A o \in Msgs : o # m => created'[o] = created[o] /\ parser'[o] = parser[o]
        /\ created'[m] = now /\ parser'[m] = "queued"
    BY <2>1 DEF TypeOK
  <2> QED
    BY <2>1, <2>2, <2>3, <1>n DEF RowInv
<1>3. ASSUME NEW m \in Msgs, RouteChat(m) PROVE RowInv'
  <2>1. /\ parser[m] = "queued" /\ parser' = [parser EXCEPT ![m] = "routed"]
        /\ UNCHANGED <<row, created, todo, unstamped, written, now, lastRx>>
    BY <1>3 DEF RouteChat, rowVars, connVars, eudVars
  <2> QED
    BY <2>1, <1>n DEF RowInv, TypeOK
<1>4. ASSUME NEW c \in Conns, StartBacklog(c) PROVE RowInv'
  <2> DEFINE live == ReceivedLive(RxGrace)
  <2>1. /\ phase[c] = "identified" /\ row' = Stamp(live)
        /\ todo' = [todo EXCEPT ![c] = {m \in Msgs \ live : /\ row[m] = "pending" /\ created[m] >= now - Keep
                                                            /\ Entitled(m, cuser[c])}]
        /\ UNCHANGED <<created, parser, unstamped, written, now, lastRx>>
    BY <1>4 DEF StartBacklog, ReadBacklog, eudVars
  <2>2. \A m \in Msgs : /\ m \in live => row[m] = "pending"
                        /\ row[m] = "pending" /\ m \notin live /\ lastRx # -1 => created[m] >= lastRx - RxGrace
    BY TimesAreNats, <1>n DEF ReceivedLive, Settled
  <2>3. \A m \in Msgs : row[m] = "pending" /\ m \notin live => created[m] >= lastRx - RxGrace
    BY <2>2, TimesAreNats, <1>n
  <2>4. \A o \in Conns : unstamped[o] = {} /\ (o # c => todo'[o] = {})
    <3>1. \A o \in Conns : o # c => todo[o] = {} /\ unstamped[o] = {}
      BY <2>1, OneBacklog
    <3>2. unstamped[c] = {}
      BY <2>1 DEF ConnectionInv
    <3> QED
      BY <2>1, <3>1, <3>2, <1>n
  <2>5. \A m \in Msgs : row'[m] = IF m \in live THEN "delivered" ELSE row[m]
    BY <2>1 DEF Stamp
  <2>6. \A m \in todo'[c] : m \notin live /\ row[m] = "pending" /\ created[m] >= now - Keep
    BY <2>1, <1>n
  <2> HIDE DEF live
  <2>7. \A m \in Msgs : (row'[m] = "none") <=> (row[m] = "none")
    BY <2>2, <2>5
  <2> QED
    BY <2>1, <2>3, <2>4, <2>5, <2>6, <2>7, <1>n DEF RowInv
<1>5. ASSUME NEW c \in Conns, NEW m \in Msgs, WriteRow(c, m) PROVE RowInv'
  <2>1. /\ m \in todo[c] /\ row[m] # "gone"
        /\ todo' = [todo EXCEPT ![c] = @ \ {m}] /\ unstamped' = [unstamped EXCEPT ![c] = {m}]
        /\ written' = written \cup {<<m, c>>}
        /\ UNCHANGED <<row, created, parser, now, lastRx>>
    BY <1>5 DEF WriteRow, rowVars, eudVars
  <2>2. row[m] = "pending"
    BY <2>1 DEF RowInv
  <2>3. /\ todo'[c] = todo[c] \ {m} /\ unstamped'[c] = {m}
        /\ \A o \in Conns : o # c => todo'[o] = todo[o] /\ unstamped'[o] = unstamped[o]
    BY <2>1, <1>n
  <2> QED
    BY <2>1, <2>2, <2>3, <1>n DEF RowInv
<1>6. ASSUME NEW c \in Conns, StampRow(c) PROVE RowInv'
  <2>1. /\ unstamped[c] # {} /\ row' = Stamp({m \in unstamped[c] : row[m] # "gone"})
        /\ unstamped' = [unstamped EXCEPT ![c] = {}]
        /\ UNCHANGED <<created, parser, todo, written, now, lastRx>>
    BY <1>6 DEF StampRow, eudVars
  <2>2. phase[c] = "sending"
    BY <2>1 DEF ConnectionInv
  <2>3. \A o \in Conns : o # c => todo[o] = {} /\ unstamped[o] = {}
    BY <2>2, OneBacklog
  <2>4. \A m \in Msgs : row'[m] = IF m \in unstamped[c] /\ row[m] # "gone" THEN "delivered" ELSE row[m]
    BY <2>1 DEF Stamp
  <2>5. \A o \in Conns : unstamped'[o] = {}
    BY <2>1, <2>3, <1>n
  <2>6. \A o \in Conns, m \in Msgs : m \in todo[o] => o = c /\ m \notin unstamped[c] /\ row'[m] = row[m]
    BY <2>3, <2>4 DEF RowInv
  <2>7. \A m \in Msgs : (row'[m] = "none") <=> (row[m] = "none")
    BY <2>4 DEF RowInv
  <2> QED
    BY <2>1, <2>5, <2>6, <2>7, <1>n DEF RowInv
<1>7. ASSUME NEW c \in Conns, BacklogFails(c) PROVE RowInv'
  <2>1. /\ UNCHANGED <<row, created, parser, written, now, lastRx>>
        /\ \A o \in Conns : todo'[o] \subseteq todo[o] /\ unstamped'[o] \subseteq unstamped[o]
    BY <1>7, <1>n DEF BacklogFails, rowVars, eudVars
  <2> QED
    BY <1>1, <2>1
<1>8. ASSUME NEW c \in Conns, GoLive(c) \/ StepAside(c) \/ PeerGone(c) \/ (\E m \in Msgs : LiveDeliver(c, m))
             \/ (\E u \in Accounts, channel \in BOOLEAN : Identify(c, u, channel))
      PROVE RowInv'
  <2>1. UNCHANGED <<row, created, parser, written, now, lastRx, todo, unstamped>>
    BY <1>8 DEF GoLive, StepAside, PeerGone, LiveDeliver, Identify, Connect, rowVars, eudVars, connVars
  <2> QED
    BY <1>1, <2>1
<1>9. ASSUME NEW c \in Conns, CloseConnection(c) \/ HandlerDies(c) PROVE RowInv'
  <2>1. /\ UNCHANGED <<row, created, parser, written, now, lastRx>>
        /\ \A o \in Conns : todo'[o] \subseteq todo[o] /\ unstamped'[o] \subseteq unstamped[o]
    BY <1>9, <1>n DEF CloseConnection, HandlerDies, Forget, rowVars
  <2> QED
    BY <1>1, <2>1
<1>10. ASSUME \A c \in Conns : todo[c] = {} /\ unstamped[c] = {},
              UNCHANGED <<row, created, parser, written, todo, unstamped>>, now' >= now,
              now' # now => \A m \in Msgs : parser[m] # "queued"
       PROVE RowInv'
  BY <1>10, <1>n DEF RowInv
<1>11. ASSUME NEW c \in Conns, NoteRx(c) PROVE RowInv'
  <2>1. phase[c] = "live" /\ now' = now /\ UNCHANGED <<row, created, parser, written, todo, unstamped>>
    BY <1>11 DEF NoteRx, rowVars, connVars
  <2>2. \A o \in Conns : o # c => todo[o] = {} /\ unstamped[o] = {}
    BY <2>1, OneBacklog
  <2>3. todo[c] = {} /\ unstamped[c] = {}
    BY <2>1 DEF ConnectionInv
  <2> QED
    BY <1>10, <2>1, <2>2, <2>3, <1>n
<1>12. CASE Tick
  <2>1. /\ now' = now + 1 /\ UNCHANGED <<row, created, parser, written, todo, unstamped>>
        /\ \A m \in Msgs : parser[m] # "queued"
        /\ \A c \in Conns : phase[c] # "sending"
    BY <1>12 DEF Tick, Prompt, rowVars, connVars
  <2>2. \A c \in Conns : todo[c] = {} /\ unstamped[c] = {}
    BY <2>1 DEF ConnectionInv
  <2> QED
    BY <1>10, <2>1, <2>2, <1>n
<1>13. CASE Settle
  <2>1. /\ lastRx # -1 /\ row' = Stamp(Settled(lastRx - UserTimeout))
        /\ UNCHANGED <<created, parser, todo, unstamped, written, now, lastRx>>
    BY <1>13 DEF Settle, connVars, eudVars
  <2>2. \A m \in Msgs : row'[m] = row[m]
                        \/ (row[m] = "pending" /\ row'[m] = "delivered" /\ created[m] < lastRx - UserTimeout)
    BY <2>1 DEF Stamp, Settled
  <2>3. \A m \in Msgs : created[m] < lastRx - UserTimeout => ~(created[m] >= lastRx - RxGrace)
    BY TimesAreNats, <1>n
  <2>4. \A c \in Conns, m \in Msgs : m \in todo[c] => row'[m] = row[m]
    BY <2>2, <2>3 DEF RowInv
  <2> QED
    BY <2>1, <2>2, <2>4, <1>n DEF RowInv
<1>14. CASE Purge
  <2>1. /\ \A m \in Msgs : row'[m] = row[m]
                        \/ (row[m] \in {"pending", "delivered"} /\ row'[m] = "gone" /\ created[m] < now - Keep)
        /\ UNCHANGED <<created, parser, todo, unstamped, written, now, lastRx>>
    BY <1>14 DEF Purge, connVars, eudVars
  <2>2. \A m \in Msgs : created[m] < now - Keep => ~(created[m] >= now - Keep)
    BY TimesAreNats, <1>n
  <2>3. \A c \in Conns, m \in Msgs : m \in todo[c] => row'[m] = row[m]
    BY <2>1, <2>2 DEF RowInv
  <2> QED
    BY <2>1, <2>3, <1>n DEF RowInv
<1>15. CASE DropQueue
  <2>1. /\ \A m \in Msgs : row'[m] = IF row[m] = "pending" THEN "gone" ELSE row[m]
        /\ UNCHANGED <<created, parser, todo, unstamped, written, now, lastRx>>
    BY <1>15 DEF DropQueue, connVars, eudVars
  <2>2. \A c \in Conns, m \in Msgs : m \in todo[c] => row'[m] = "gone"
    BY <2>1 DEF RowInv
  <2> QED
    BY <2>1, <2>2, <1>n DEF RowInv
<1>16. ASSUME NEW u \in Users, ChangeMembership(u) PROVE RowInv'
  <2>1. UNCHANGED <<row, created, parser, written, now, lastRx, todo, unstamped>>
    BY <1>16 DEF ChangeMembership, rowVars, connVars, eudVars
  <2> QED
    BY <1>1, <2>1
<1>17. CASE UNCHANGED vars
  <2>1. UNCHANGED <<row, created, parser, written, now, lastRx, todo, unstamped>>
    BY <1>17 DEF vars, rowVars, connVars, eudVars
  <2> QED
    BY <1>1, <2>1
<1> QED
  BY <1>2, <1>3, <1>4, <1>5, <1>6, <1>7, <1>8, <1>9, <1>11, <1>12, <1>13, <1>14, <1>15, <1>16, <1>17 DEF Next

(* deliver_pending: while its connection works through the list it read, no row
   of it is written after it was stamped - by the retention job, by the cut-off
   or by another connection - as long as the device has one connection at a
   time. *)
THEOREM NothingIsResent ==
    ASSUME ~Overlap PROVE Spec => NeverResentAfterStamp
<1>1. Init => ConnectionInv /\ RowInv
  BY TimesAreNats DEF Init, ConnectionInv, RowInv, Open, Sending
<1>2. TypeOK /\ TypeOK' /\ ConnectionInv /\ RowInv /\ [Next]_vars => ConnectionInv' /\ RowInv'
  BY ConnectionStep, RowStep
<1>3. RowInv => \A c \in Conns, m \in Msgs : WriteRow(c, m) => row[m] = "pending"
  BY DEF RowInv, WriteRow
<1> QED
  BY <1>1, <1>2, <1>3, ChatTyping, PTL DEF Spec, NeverResentAfterStamp

(* Every step: time passes, histories grow, a row keeps its time, and only
   queue_offline_chat makes rows. *)
LEMMA Growth ==
    ASSUME TypeOK, TypeOK', RowInv, [Next]_vars
    PROVE  /\ now' >= now /\ received \subseteq received' /\ written \subseteq written'
           /\ \A m \in Msgs : parser[m] # "new" => created'[m] = created[m]
           /\ (\E m \in Msgs : QueueChat(m)) \/ (created' = created /\ \A m \in Msgs : row[m] = "none" => row'[m] = "none")
<1> DEFINE Grows == /\ now' >= now /\ received \subseteq received' /\ written \subseteq written'
                    /\ \A m \in Msgs : parser[m] # "new" => created'[m] = created[m]
           Keeps == created' = created /\ \A m \in Msgs : row[m] = "none" => row'[m] = "none"
<1>n. now \in Nat
  BY TimesAreNats DEF TypeOK
<1>1. ASSUME NEW m \in Msgs, QueueChat(m) PROVE Grows
  BY <1>1, <1>n DEF QueueChat, TypeOK
<1>2. ASSUME NEW m \in Msgs, RouteChat(m) PROVE Grows /\ Keeps
  BY <1>2, <1>n DEF RouteChat, rowVars
<1>3. ASSUME NEW c \in Conns, NEW u \in Accounts, NEW channel \in BOOLEAN, Identify(c, u, channel) PROVE Grows /\ Keeps
  BY <1>3, <1>n DEF Identify, Connect, rowVars
<1>4. ASSUME NEW c \in Conns, StartBacklog(c) PROVE Grows /\ Keeps
  BY <1>4, <1>n DEF StartBacklog, ReadBacklog, ReceivedLive, Settled, Stamp
<1>5. ASSUME NEW c \in Conns, NEW m \in Msgs, WriteRow(c, m) \/ LiveDeliver(c, m) PROVE Grows /\ Keeps
  BY <1>5, <1>n DEF WriteRow, LiveDeliver, rowVars
<1>6. ASSUME NEW c \in Conns, StampRow(c) PROVE Grows /\ Keeps
  <2>1. /\ row' = Stamp({m \in unstamped[c] : row[m] # "gone"}) /\ created' = created
        /\ UNCHANGED <<now, received, written>>
    BY <1>6 DEF StampRow
  <2>2. \A m \in Msgs : m \in unstamped[c] => row[m] # "none"
    BY DEF RowInv
  <2> QED
    BY <2>1, <2>2, <1>n DEF Stamp
<1>7. ASSUME NEW c \in Conns, BacklogFails(c) \/ GoLive(c) \/ StepAside(c) \/ NoteRx(c) \/ PeerGone(c)
                              \/ CloseConnection(c) \/ HandlerDies(c)
      PROVE Grows /\ Keeps
  BY <1>7, <1>n DEF BacklogFails, GoLive, StepAside, NoteRx, PeerGone, CloseConnection, HandlerDies, Forget, rowVars
<1>8. CASE Settle \/ Purge \/ DropQueue
  BY <1>8, <1>n DEF Settle, Purge, DropQueue, Settled, Stamp
<1>9. (\E u \in Users : ChangeMembership(u)) \/ Tick \/ UNCHANGED vars => Grows /\ Keeps
  BY <1>n DEF ChangeMembership, Tick, vars, rowVars
<1> QED
  BY <1>1, <1>2, <1>3, <1>4, <1>5, <1>6, <1>7, <1>8, <1>9 DEF Next

(* What the device had, it had. *)
LEMMA HadStays ==
    ASSUME TypeOK, TypeOK', RowInv, [Next]_vars, NEW m \in Msgs, Had(m), parser[m] # "new"
    PROVE  Had(m)'
<1>1. /\ now' >= now /\ received \subseteq received' /\ written \subseteq written' /\ created'[m] = created[m]
  BY Growth
<1>2. now \in Nat /\ now' \in Nat /\ created[m] \in Nat
  BY TimesAreNats DEF TypeOK
<1>3. CASE created[m] < now - Keep
  <2>1. created'[m] < now' - Keep
    BY <1>1, <1>2, <1>3, TimesAreNats
  <2> QED
    BY <2>1 DEF Had
<1> QED
  BY <1>1, <1>3 DEF Had

LEMMA NoAccounts ==
    ASSUME Undisturbed, TypeOK
    PROVE  /\ Accounts = {NoUser} /\ readers = {} /\ eudUser = NoUser
           /\ \A c \in Conns : cuser[c] = NoUser
           /\ \A m \in Msgs : rowUser[m] = NoUser
BY DEF Undisturbed, TypeOK, Accounts

(* The queue of a connection is bound and consumed. *)
LEMMA BoundStep ==
    ASSUME Undisturbed, TypeOK, TypeOK', ConnectionInv, Bound, [Next]_vars PROVE Bound'
<1>1. ASSUME UNCHANGED <<phase, queue>>, bound \subseteq bound' PROVE Bound'
  BY <1>1 DEF Bound, Open, Sending
<1>2. ASSUME NEW c \in Conns, NEW u \in Accounts, NEW channel \in BOOLEAN, Identify(c, u, channel) PROVE Bound'
  <2>1. /\ \A o \in Conns : ~Open(o)
        /\ "dms" \in bound'
        /\ phase' = [phase EXCEPT ![c] = "identified"]
        /\ queue' = [queue EXCEPT ![c] = "bound"]
    BY <1>2 DEF Identify, Connect, Undisturbed
  <2>2. phase'[c] = "identified" /\ queue'[c] = "bound"
        /\ \A o \in Conns : o # c => phase'[o] \in {"new", "closed"}
    BY <2>1 DEF Open, TypeOK
  <2> QED
    BY <2>1, <2>2 DEF Bound, Open, Sending
<1>3. ASSUME NEW c \in Conns, StartBacklog(c) PROVE Bound'
  <2>1. /\ phase[c] = "identified" /\ phase' = [phase EXCEPT ![c] = "sending"] /\ queue' = queue /\ bound' = bound
    BY <1>3 DEF StartBacklog, ReadBacklog
  <2> QED
    BY <2>1 DEF Bound, Open, Sending, TypeOK
<1>4. ASSUME NEW c \in Conns, GoLive(c) PROVE Bound'
  <2>1. /\ phase[c] = "sending" /\ phase' = [phase EXCEPT ![c] = "live"] /\ bound' = bound
        /\ queue' = [queue EXCEPT ![c] = IF @ = "bound" THEN "consumes" ELSE @]
    BY <1>4 DEF GoLive
  <2>2. queue[c] = "bound" /\ "dms" \in bound
    BY <2>1 DEF Bound, Open, Sending
  <2> QED
    BY <2>1, <2>2 DEF Bound, Open, Sending, TypeOK
<1>5. ASSUME NEW c \in Conns, StepAside(c) PROVE FALSE
  BY <1>5 DEF StepAside, ConnectionInv
<1>6. ASSUME NEW c \in Conns, CloseConnection(c) \/ HandlerDies(c) PROVE Bound'
  <2>1. Open(c) /\ phase' = [phase EXCEPT ![c] = "closed"]
    BY <1>6 DEF CloseConnection, HandlerDies, Forget, Open
  <2>2. \A o \in Conns : phase'[o] \in {"new", "closed"}
    BY <2>1 DEF ConnectionInv, Open, TypeOK
  <2> QED
    BY <2>2 DEF Bound, Open, Sending
<1>7. ASSUME NEW c \in Conns, NEW m \in Msgs, WriteRow(c, m) \/ LiveDeliver(c, m) \/ RouteChat(m) \/ QueueChat(m)
      PROVE Bound'
  BY <1>1, <1>7 DEF WriteRow, LiveDeliver, RouteChat, QueueChat, connVars
<1>8. ASSUME NEW c \in Conns, StampRow(c) \/ BacklogFails(c) \/ NoteRx(c) \/ PeerGone(c) PROVE Bound'
  BY <1>1, <1>8 DEF StampRow, BacklogFails, NoteRx, PeerGone, connVars
<1>9. ASSUME Settle \/ Purge \/ DropQueue \/ Tick \/ UNCHANGED vars PROVE Bound'
  BY <1>1, <1>9 DEF Settle, Purge, DropQueue, Tick, vars, connVars
<1>10. ASSUME NEW m \in Msgs, RouteChat(m) \/ QueueChat(m) PROVE Bound'
  BY <1>1, <1>10 DEF RouteChat, QueueChat, connVars
<1>11. ~ \E u \in Users : ChangeMembership(u)
  BY DEF Undisturbed
<1> QED
  BY <1>2, <1>3, <1>4, <1>5, <1>6, <1>7, <1>8, <1>9, <1>10, <1>11 DEF Next

(* Only direct messages get a row. *)
LEMMA DirectStep ==
    ASSUME Undisturbed, TypeOK, TypeOK', RowInv, Direct, [Next]_vars PROVE Direct'
<1>1. ASSUME NEW m \in Msgs, QueueChat(m) PROVE Direct'
  <2>1. \A o \in Msgs : o # m => row'[o] = row[o]
    BY <1>1 DEF QueueChat, TypeOK
  <2>2. m \in TeamMsgs => ~Addressed(m)
    BY NoAccounts DEF Addressed
  <2>3. ~Addressed(m) => row' = row
    BY <1>1 DEF QueueChat
  <2> QED
    BY <2>1, <2>2, <2>3 DEF Direct
<1> QED
  BY <1>1, Growth DEF Direct

(* A list is given up on an unbroken connection only when its rows were deleted. *)
LEMMA GivenUp ==
    ASSUME Undisturbed, RowInv, TypeOK, NEW c \in Conns, BacklogFails(c), peer[c]
    PROVE  \A m \in todo[c] : row[m] = "gone"
<1>1. \E m \in todo[c] : row[m] = "gone"
  BY DEF BacklogFails, Undisturbed
<1> QED
  BY <1>1 DEF RowInv, TypeOK

(* Reached, for the steps that neither make rows nor take a message off its way. *)
LEMMA ReachedFrame ==
    ASSUME TypeOK, TypeOK', RowInv, [Next]_vars, Reached, now' = now, parser' = parser, liveQ \subseteq liveQ',
           \A m \in Msgs : row'[m] \in {"pending", "delivered"} => row[m] \in {"pending", "delivered"},
           \A c \in Conns : peer'[c] /\ phase'[c] \in {"sending", "live"} =>
              /\ peer[c] /\ phase[c] \in {"sending", "live"}
              /\ \A m \in Msgs : m \in todo[c] => m \in todo'[c] \/ Had(m)' \/ row[m] = "gone"
    PROVE  Reached'
<1>1. \A m \in Msgs : row[m] \in {"pending", "delivered"} => parser[m] # "new" /\ created'[m] = created[m]
  BY Growth DEF RowInv
<1>2. \A m \in Msgs : row[m] \in {"pending", "delivered"} /\ Had(m) => Had(m)'
  BY <1>1, HadStays
<1> SUFFICES ASSUME NEW c \in Conns, peer'[c], phase'[c] \in {"sending", "live"},
                    NEW m \in Msgs, row'[m] \in {"pending", "delivered"}
             PROVE  m \in todo'[c] \/ Had(m)' \/ ((m \in liveQ' \/ parser'[m] = "queued") /\ created'[m] >= now' - MaxLag)
  BY DEF Reached, Stored
<1>3. /\ peer[c] /\ phase[c] \in {"sending", "live"}
      /\ row[m] \in {"pending", "delivered"}
      /\ m \in todo[c] => m \in todo'[c] \/ Had(m)'
  OBVIOUS
<1>4. m \in todo[c] \/ Had(m) \/ ((m \in liveQ \/ parser[m] = "queued") /\ created[m] >= now - MaxLag)
  BY <1>3 DEF Reached, Stored
<1> QED
  BY <1>1, <1>2, <1>3, <1>4

LEMMA ReachedStep ==
    ASSUME Undisturbed, TypeOK, TypeOK', ConnectionInv, RowInv, DeliveryInv, [Next]_vars PROVE Reached'
<1>n. now \in Nat /\ now' \in Nat /\ created \in [Msgs -> Nat] /\ lastRx \in Int
      /\ todo \in [Conns -> SUBSET Msgs] /\ unstamped \in [Conns -> SUBSET Msgs]
      /\ phase \in [Conns -> Phases] /\ peer \in [Conns -> BOOLEAN]
      /\ row \in [Msgs -> {"none", "pending", "delivered", "gone"}] /\ parser \in [Msgs -> {"new", "queued", "routed"}]
  BY TimesAreNats DEF TypeOK
<1>i. Reached /\ Bound /\ Direct /\ Evidence /\ StampedWasHad
  BY DEF DeliveryInv
<1>h. \A m \in Msgs : row[m] \in {"pending", "delivered"} => parser[m] # "new" /\ created'[m] = created[m]
  BY Growth DEF RowInv
<1>k. \A m \in Msgs : row[m] \in {"pending", "delivered"} /\ Had(m) => Had(m)'
  BY <1>h, HadStays
<1>1. ASSUME NEW m \in Msgs, QueueChat(m) PROVE Reached'
  <2>1. /\ created' = [created EXCEPT ![m] = now] /\ parser' = [parser EXCEPT ![m] = "queued"]
        /\ \A o \in Msgs : o # m => row'[o] = row[o]
        /\ UNCHANGED <<now, liveQ, todo, peer, phase>>
    BY <1>1 DEF QueueChat, connVars, TypeOK
  <2>2. parser'[m] = "queued" /\ created'[m] >= now - MaxLag
        /\ \A o \in Msgs : o # m => parser'[o] = parser[o] /\ created'[o] = created[o]
    BY <2>1, <1>n, TimesAreNats
  <2> SUFFICES ASSUME NEW c \in Conns, peer[c], phase[c] \in {"sending", "live"},
                      NEW o \in Msgs, o # m, row[o] \in {"pending", "delivered"}
               PROVE  o \in todo[c] \/ Had(o)' \/ ((o \in liveQ \/ parser[o] = "queued") /\ created[o] >= now - MaxLag)
    BY <2>1, <2>2 DEF Reached, Stored
  <2>3. o \in todo[c] \/ Had(o) \/ ((o \in liveQ \/ parser[o] = "queued") /\ created[o] >= now - MaxLag)
    BY <1>i DEF Reached, Stored
  <2> QED
    BY <2>3, <1>k
<1>2. ASSUME NEW m \in Msgs, RouteChat(m) PROVE Reached'
  <2>1. /\ parser[m] = "queued" /\ parser' = [parser EXCEPT ![m] = "routed"]
        /\ liveQ' = IF (IF m \in TeamMsgs THEN "group" ELSE "dms") \in bound THEN liveQ \cup {m} ELSE liveQ
        /\ UNCHANGED <<now, row, created, todo, peer, phase>>
    BY <1>2 DEF RouteChat, connVars, rowVars
  <2>2. \A o \in Msgs : o # m => parser'[o] = parser[o]
    BY <2>1, <1>n
  <2> SUFFICES ASSUME NEW c \in Conns, peer[c], phase[c] \in {"sending", "live"},
                      NEW o \in Msgs, row[o] \in {"pending", "delivered"}
               PROVE  o \in todo[c] \/ Had(o)' \/ ((o \in liveQ' \/ parser'[o] = "queued") /\ created[o] >= now - MaxLag)
    BY <2>1 DEF Reached, Stored
  <2>3. o \in todo[c] \/ Had(o) \/ ((o \in liveQ \/ parser[o] = "queued") /\ created[o] >= now - MaxLag)
    BY <1>i DEF Reached, Stored
  <2>4. "dms" \in bound /\ o \notin TeamMsgs
    BY <1>i DEF Bound, Direct, Open
  <2>5. o \in liveQ \/ o = m => o \in liveQ'
    BY <2>1, <2>4
  <2> QED
    BY <2>2, <2>3, <2>5, <1>k
<1>3. ASSUME NEW c \in Conns, NEW u \in Accounts, NEW channel \in BOOLEAN, Identify(c, u, channel) PROVE Reached'
  <2>1. /\ \A o \in Conns : ~Open(o)
        /\ phase' = [phase EXCEPT ![c] = "identified"]
    BY <1>3 DEF Identify, Connect, Undisturbed
  <2>2. \A o \in Conns : phase'[o] \notin {"sending", "live"}
    BY <2>1, <1>n DEF Open
  <2> QED
    BY <2>2 DEF Reached
<1>4. ASSUME NEW c \in Conns, StartBacklog(c) PROVE Reached'
  <2> DEFINE live == ReceivedLive(RxGrace)
  <2>1. /\ phase[c] = "identified" /\ row' = Stamp(live)
        /\ phase' = [phase EXCEPT ![c] = "sending"]
        /\ todo' = [todo EXCEPT ![c] = {m \in Msgs \ live : /\ row[m] = "pending" /\ created[m] >= now - Keep
                                                            /\ Entitled(m, cuser[c])}]
        /\ UNCHANGED <<created, now>>
    BY <1>4 DEF StartBacklog, ReadBacklog
  <2>2. \A m \in live : row[m] = "pending" /\ Had(m)
    BY <1>i DEF ReceivedLive, Settled, Evidence, Stored
  <2>3. \A m \in Msgs : row'[m] = IF m \in live THEN "delivered" ELSE row[m]
    BY <2>1 DEF Stamp
  <2> HIDE DEF live
  <2>4. \A o \in Conns : phase'[o] \in {"sending", "live"} => o = c
    BY <2>1, <1>n DEF ConnectionInv, Open
  <2>5. \A m \in Msgs : row[m] # "none" => Entitled(m, cuser[c])
    BY <1>i, NoAccounts DEF Entitled, Direct
  <2> SUFFICES ASSUME NEW m \in Msgs, row'[m] \in {"pending", "delivered"} PROVE m \in todo'[c] \/ Had(m)'
    BY <2>4 DEF Reached, Stored
  <2>6. CASE row[m] = "delivered"
    BY <2>6, <1>i, <1>k DEF StampedWasHad
  <2>7. CASE m \in live
    BY <2>2, <2>7, <1>k
  <2>8. CASE row[m] = "pending" /\ m \notin live
    <3>1. CASE created[m] < now - Keep
      <4>1. Had(m)
        BY <3>1 DEF Had
      <4> QED
        BY <4>1, <2>8, <1>k
    <3>2. CASE ~(created[m] < now - Keep)
      <4>1. created[m] >= now - Keep
        BY <3>2, <1>n, TimesAreNats
      <4>2. m \in todo'[c]
        BY <4>1, <2>1, <2>5, <2>8, <1>n
      <4> QED
        BY <4>2
    <3> QED
      BY <3>1, <3>2
  <2> QED
    BY <2>3, <2>6, <2>7, <2>8
<1>5. ASSUME NEW c \in Conns, NEW m \in Msgs, WriteRow(c, m) PROVE Reached'
  <2>1. /\ todo' = [todo EXCEPT ![c] = @ \ {m}] /\ written' = written \cup {<<m, c>>}
        /\ UNCHANGED <<row, now, parser, liveQ, peer, phase>>
    BY <1>5 DEF WriteRow, rowVars
  <2>2. Had(m)'
    BY <2>1 DEF Had
  <2>3. \A o \in Conns, x \in Msgs : x \in todo[o] => x \in todo'[o] \/ x = m
    BY <2>1, <1>n
  <2>4. \A o \in Conns, x \in Msgs : x \in todo[o] => x \in todo'[o] \/ Had(x)'
    BY <2>2, <2>3
  <2> QED
    BY <1>i, <2>1, <2>4, ReachedFrame
<1>6. ASSUME NEW c \in Conns, StampRow(c) PROVE Reached'
  <2>1. /\ row' = Stamp({m \in unstamped[c] : row[m] # "gone"})
        /\ UNCHANGED <<now, parser, liveQ, peer, phase, todo>>
    BY <1>6 DEF StampRow
  <2>2. \A m \in Msgs : row'[m] \in {"pending", "delivered"} => row[m] \in {"pending", "delivered"}
    BY <2>1, <1>n DEF Stamp, RowInv
  <2> QED
    BY <1>i, <2>1, <2>2, ReachedFrame
<1>7. ASSUME NEW c \in Conns, BacklogFails(c) PROVE Reached'
  <2>1. /\ todo' = [todo EXCEPT ![c] = {}]
        /\ UNCHANGED <<row, now, parser, liveQ, peer, phase>>
    BY <1>7 DEF BacklogFails, rowVars
  <2>2. peer[c] => \A m \in todo[c] : row[m] = "gone"
    BY <1>7, GivenUp
  <2>3. \A o \in Conns, m \in Msgs : peer[o] /\ m \in todo[o] => m \in todo'[o] \/ row[m] = "gone"
    BY <2>1, <2>2, <1>n
  <2> QED
    BY <1>i, <2>1, <2>3, ReachedFrame
<1>8. ASSUME NEW c \in Conns, GoLive(c) PROVE Reached'
  <2>1. /\ phase[c] = "sending" /\ phase' = [phase EXCEPT ![c] = "live"]
        /\ UNCHANGED <<row, now, parser, liveQ, peer, todo>>
    BY <1>8 DEF GoLive, rowVars
  <2>2. \A o \in Conns : phase'[o] \in {"sending", "live"} => phase[o] \in {"sending", "live"}
    BY <2>1, <1>n
  <2> QED
    BY <1>i, <2>1, <2>2, ReachedFrame
<1>9. ASSUME NEW c \in Conns, NEW m \in Msgs, LiveDeliver(c, m) PROVE Reached'
  <2>1. /\ queue[c] = "consumes" /\ liveQ' = liveQ \ {m} /\ received' = received \cup Reaches(m, c)
        /\ UNCHANGED <<row, created, now, parser, peer, phase, todo>>
    BY <1>9 DEF LiveDeliver, rowVars, connVars
  <2>2. Open(c)
    BY <2>1 DEF ConnectionInv
  <2> SUFFICES ASSUME NEW d \in Conns, peer[d], phase[d] \in {"sending", "live"},
                      NEW o \in Msgs, row[o] \in {"pending", "delivered"}
               PROVE  o \in todo[d] \/ Had(o)' \/ ((o \in liveQ' \/ parser[o] = "queued") /\ created[o] >= now - MaxLag)
    BY <2>1 DEF Reached, Stored
  <2>3. o \in todo[d] \/ Had(o) \/ ((o \in liveQ \/ parser[o] = "queued") /\ created[o] >= now - MaxLag)
    BY <1>i DEF Reached, Stored
  <2>4. peer[c]
    BY <2>2 DEF ConnectionInv, Open
  <2>5. <<m, NoUser>> \in received'
    BY <2>1, <2>4, NoAccounts DEF Reaches
  <2>6. Had(m)'
    BY <2>5 DEF Had, Accounts
  <2>7. o # m /\ o \in liveQ => o \in liveQ'
    BY <2>1
  <2> QED
    BY <2>3, <2>6, <2>7, <1>k
<1>10. ASSUME NEW c \in Conns, StepAside(c) \/ NoteRx(c) \/ PeerGone(c) PROVE Reached'
  <2>1. /\ UNCHANGED <<row, now, parser, liveQ, phase, todo>>
        /\ \A o \in Conns : peer'[o] => peer[o]
    BY <1>10, <1>n DEF StepAside, NoteRx, PeerGone, rowVars, connVars
  <2> QED
    BY <1>i, <2>1, ReachedFrame
<1>11. ASSUME NEW c \in Conns, CloseConnection(c) \/ HandlerDies(c) PROVE Reached'
  <2>1. /\ UNCHANGED <<row, now, parser, liveQ>>
        /\ phase' = [phase EXCEPT ![c] = "closed"] /\ todo' = [todo EXCEPT ![c] = {}]
        /\ peer' = [peer EXCEPT ![c] = FALSE]
    BY <1>11 DEF CloseConnection, HandlerDies, Forget, rowVars
  <2>2. \A o \in Conns : peer'[o] => o # c /\ peer[o] /\ phase'[o] = phase[o] /\ todo'[o] = todo[o]
    BY <2>1, <1>n
  <2> QED
    BY <1>i, <2>1, <2>2, ReachedFrame
<1>12. CASE Settle \/ Purge \/ DropQueue
  <2>1. UNCHANGED <<now, parser, liveQ, peer, phase, todo>>
    BY <1>12 DEF Settle, Purge, DropQueue, connVars
  <2>2. \A m \in Msgs : row'[m] \in {"pending", "delivered"} => row[m] \in {"pending", "delivered"}
    BY <1>12 DEF Settle, Purge, DropQueue, Stamp, Settled
  <2> QED
    BY <1>i, <2>1, <2>2, ReachedFrame
<1>13. CASE Tick
  <2>1. /\ Prompt /\ now' = now + 1 /\ UNCHANGED <<row, created, parser, liveQ, peer, phase, todo>>
    BY <1>13 DEF Tick, rowVars, connVars
  <2> SUFFICES ASSUME NEW d \in Conns, peer[d], phase[d] \in {"sending", "live"},
                      NEW o \in Msgs, row[o] \in {"pending", "delivered"}
               PROVE  o \in todo[d] \/ Had(o)' \/ ((o \in liveQ \/ parser[o] = "queued") /\ created[o] >= now' - MaxLag)
    BY <2>1 DEF Reached, Stored
  <2>3. o \in todo[d] \/ Had(o) \/ ((o \in liveQ \/ parser[o] = "queued") /\ created[o] >= now - MaxLag)
    BY <1>i DEF Reached, Stored
  <2>4. phase[d] = "live" /\ parser[o] # "queued"
    BY <2>1 DEF Prompt
  <2>5. queue[d] = "consumes"
    BY <2>4, <1>i DEF Bound
  <2>6. o \in liveQ => now < created[o] + MaxLag
    BY <2>1, <2>5 DEF Prompt
  <2>7. o \in liveQ => created[o] >= now' - MaxLag
    BY <2>1, <2>6, <1>n, TimesAreNats
  <2> QED
    BY <2>3, <2>4, <2>7, <1>k
<1>14. CASE UNCHANGED vars
  <2>1. UNCHANGED <<row, now, parser, liveQ, peer, phase, todo>>
    BY <1>14 DEF vars, rowVars, connVars
  <2> QED
    BY <1>i, <2>1, ReachedFrame
<1>15. ~ \E u \in Users : ChangeMembership(u)
  BY DEF Undisturbed
<1> QED
  BY <1>1, <1>2, <1>3, <1>4, <1>5, <1>6, <1>7, <1>8, <1>9, <1>10, <1>11, <1>12, <1>13, <1>14, <1>15 DEF Next

(* Evidence and stamps only cover what the device had. *)
LEMMA EvidenceStep ==
    ASSUME Undisturbed, TypeOK, TypeOK', ConnectionInv, RowInv, DeliveryInv, [Next]_vars
    PROVE  Evidence' /\ StampedWasHad'
<1>n. now \in Nat /\ now' \in Nat /\ created \in [Msgs -> Nat] /\ lastRx \in Int
      /\ row \in [Msgs -> {"none", "pending", "delivered", "gone"}]
  BY TimesAreNats DEF TypeOK
<1>i. Reached /\ Evidence /\ StampedWasHad
  BY DEF DeliveryInv
<1>h. \A m \in Msgs : row[m] \in {"pending", "delivered"} => parser[m] # "new" /\ created'[m] = created[m]
  BY Growth DEF RowInv
<1>k. \A m \in Msgs : row[m] \in {"pending", "delivered"} /\ Had(m) => Had(m)'
  BY <1>h, HadStays
<1>1. ASSUME lastRx' = lastRx,
             \A m \in Msgs : row'[m] \in {"pending", "delivered"} => row[m] \in {"pending", "delivered"}
      PROVE  Evidence'
  BY <1>1, <1>i, <1>h, <1>k DEF Evidence, Stored
<1>2. ASSUME \A m \in Msgs : row'[m] = "delivered" => row[m] = "delivered"
      PROVE  StampedWasHad'
  BY <1>2, <1>i, <1>k DEF StampedWasHad
<1>3. ASSUME NEW m \in Msgs, QueueChat(m) PROVE Evidence' /\ StampedWasHad'
  <2>1. /\ created' = [created EXCEPT ![m] = now] /\ lastRx' = lastRx
        /\ \A o \in Msgs : o # m => row'[o] = row[o]
        /\ parser[m] = "new" /\ row' \in {row, [row EXCEPT ![m] = "pending"]}
    BY <1>3 DEF QueueChat, eudVars, TypeOK
  <2>2. row'[m] # "delivered"
    BY <2>1, <1>n DEF RowInv
  <2>3. ~(created'[m] < lastRx' - RxGrace)
    BY <2>1, <1>n, TimesAreNats DEF ConnectionInv
  <2>4. Evidence'
    BY <2>1, <2>3, <1>i, <1>h, <1>k DEF Evidence, Stored
  <2> QED
    BY <1>2, <2>1, <2>2, <2>4
<1>4. ASSUME NEW c \in Conns, NoteRx(c) PROVE Evidence' /\ StampedWasHad'
  <2>1. phase[c] = "live" /\ peer[c] /\ lastRx' = now /\ row' = row
    BY <1>4 DEF NoteRx, rowVars
  <2>2. todo[c] = {}
    BY <2>1 DEF ConnectionInv
  <2>3. \A m \in Msgs : row[m] \in {"pending", "delivered"} /\ created[m] < now - RxGrace => Had(m)
    <3> SUFFICES ASSUME NEW m \in Msgs, row[m] \in {"pending", "delivered"}, created[m] < now - RxGrace PROVE Had(m)
      OBVIOUS
    <3>1. m \in todo[c] \/ Had(m) \/ created[m] >= now - MaxLag
      BY <2>1, <1>i DEF Reached, Stored
    <3>2. ~(created[m] >= now - MaxLag)
      BY <1>n, TimesAreNats
    <3> QED
      BY <2>2, <3>1, <3>2
  <2>4. Evidence'
    BY <2>1, <2>3, <1>h, <1>k DEF Evidence, Stored
  <2> QED
    BY <1>2, <2>1, <2>4
<1>5. ASSUME NEW c \in Conns, StartBacklog(c) PROVE Evidence' /\ StampedWasHad'
  <2>1. /\ row' = Stamp(ReceivedLive(RxGrace)) /\ lastRx' = lastRx
    BY <1>5 DEF StartBacklog, ReadBacklog, eudVars
  <2>2. \A m \in ReceivedLive(RxGrace) : m \in Msgs /\ row[m] = "pending" /\ Had(m)
    BY <1>i DEF ReceivedLive, Settled, Evidence, Stored
  <2>3. \A m \in Msgs : row'[m] = row[m] \/ (row[m] = "pending" /\ Had(m) /\ row'[m] = "delivered")
    BY <2>1, <2>2 DEF Stamp
  <2>4. StampedWasHad'
    BY <2>3, <1>i, <1>k DEF StampedWasHad
  <2> QED
    BY <1>1, <2>1, <2>3, <2>4
<1>6. ASSUME NEW c \in Conns, StampRow(c) PROVE Evidence' /\ StampedWasHad'
  <2>1. /\ row' = Stamp({m \in unstamped[c] : row[m] # "gone"}) /\ lastRx' = lastRx
    BY <1>6 DEF StampRow, eudVars
  <2>2. \A m \in Msgs : m \in unstamped[c] /\ row[m] # "gone" => row[m] \in {"pending", "delivered"} /\ Had(m)
    BY <1>n DEF RowInv, Had
  <2>3. \A m \in Msgs : row'[m] = row[m] \/ (row[m] \in {"pending", "delivered"} /\ Had(m) /\ row'[m] = "delivered")
    BY <2>1, <2>2 DEF Stamp
  <2>4. StampedWasHad'
    BY <2>3, <1>i, <1>k DEF StampedWasHad
  <2> QED
    BY <1>1, <2>1, <2>3, <2>4
<1>7. CASE Settle
  <2>1. /\ row' = Stamp(Settled(lastRx - UserTimeout)) /\ lastRx' = lastRx
    BY <1>7 DEF Settle, eudVars
  <2>2. \A m \in Msgs : created[m] < lastRx - UserTimeout => created[m] < lastRx - RxGrace
    BY <1>n, TimesAreNats
  <2>3. \A m \in Settled(lastRx - UserTimeout) : m \in Msgs /\ row[m] = "pending" /\ Had(m)
    BY <2>2, <1>i DEF Settled, Evidence, Stored
  <2>4. \A m \in Msgs : row'[m] = row[m] \/ (row[m] = "pending" /\ Had(m) /\ row'[m] = "delivered")
    BY <2>1, <2>3 DEF Stamp
  <2>5. StampedWasHad'
    BY <2>4, <1>i, <1>k DEF StampedWasHad
  <2> QED
    BY <1>1, <2>1, <2>4, <2>5
<1>8. CASE Purge \/ DropQueue
  <2>1. lastRx' = lastRx /\ \A m \in Msgs : row'[m] = row[m] \/ row'[m] = "gone"
    BY <1>8 DEF Purge, DropQueue, eudVars
  <2> QED
    BY <1>1, <1>2, <2>1
<1>9. ASSUME lastRx' = lastRx, row' = row PROVE Evidence' /\ StampedWasHad'
  BY <1>1, <1>2, <1>9
<1>10. ASSUME NEW m \in Msgs, RouteChat(m) PROVE Evidence' /\ StampedWasHad'
  BY <1>9, <1>10 DEF RouteChat, rowVars, eudVars
<1>11. ASSUME NEW c \in Conns, NEW u \in Accounts, NEW channel \in BOOLEAN, Identify(c, u, channel)
       PROVE Evidence' /\ StampedWasHad'
  BY <1>9, <1>11 DEF Identify, Connect, rowVars, eudVars
<1>12. ASSUME NEW c \in Conns, NEW m \in Msgs, WriteRow(c, m) \/ LiveDeliver(c, m) PROVE Evidence' /\ StampedWasHad'
  BY <1>9, <1>12 DEF WriteRow, LiveDeliver, rowVars, eudVars
<1>13. ASSUME NEW c \in Conns, BacklogFails(c) \/ GoLive(c) \/ StepAside(c) \/ PeerGone(c) \/ CloseConnection(c) \/ HandlerDies(c)
       PROVE Evidence' /\ StampedWasHad'
  BY <1>9, <1>13 DEF BacklogFails, GoLive, StepAside, PeerGone, CloseConnection, HandlerDies, Forget, rowVars, eudVars
<1>14. ASSUME Tick \/ UNCHANGED vars PROVE Evidence' /\ StampedWasHad'
  BY <1>9, <1>14 DEF Tick, vars, rowVars, eudVars
<1>15. ~ \E u \in Users : ChangeMembership(u)
  BY DEF Undisturbed
<1> QED
  BY <1>3, <1>4, <1>5, <1>6, <1>7, <1>8, <1>10, <1>11, <1>12, <1>13, <1>14, <1>15 DEF Next

(* What was pending at identification stays listed until it is written. *)
LEMMA BacklogStep ==
    ASSUME Undisturbed, TypeOK, TypeOK', ConnectionInv, RowInv, DeliveryInv, [Next]_vars PROVE BacklogFirst'
<1>n. now \in Nat /\ now' \in Nat /\ created \in [Msgs -> Nat] /\ lastRx \in Int /\ opened \in [Conns -> Nat]
      /\ todo \in [Conns -> SUBSET Msgs]
      /\ phase \in [Conns -> Phases] /\ peer \in [Conns -> BOOLEAN]
      /\ row \in [Msgs -> {"none", "pending", "delivered", "gone"}]
  BY TimesAreNats DEF TypeOK
<1>i. BacklogFirst /\ Direct
  BY DEF DeliveryInv
<1> DEFINE Since(m) == \E x \in Conns : <<m, x>> \in written'
<1>a. \A c \in Conns, m \in Msgs : row[m] # "none" => Entitled(m, cuser[c])
  BY <1>i, NoAccounts DEF Entitled, Direct
<1>b. BacklogFirst' <=>
        \A c \in Conns : peer'[c] /\ phase'[c] \in {"sending", "live"} =>
          \A o \in Msgs : /\ row'[o] = "pending" /\ created'[o] < opened'[c] /\ created'[o] >= opened'[c] - Keep
                          /\ (Entitled(o, cuser[c]))'
                          => o \in todo'[c] \/ Since(o)
  BY DEF BacklogFirst
<1>c. written \subseteq written'
  BY Growth
<1>1. ASSUME opened' = opened, created' = created,
             \A m \in Msgs : row'[m] = "pending" => row[m] = "pending",
             \A c \in Conns : peer'[c] /\ phase'[c] \in {"sending", "live"} =>
               /\ peer[c] /\ phase[c] \in {"sending", "live"}
               /\ \A m \in Msgs : m \in todo[c] => m \in todo'[c] \/ Since(m) \/ row[m] = "gone"
      PROVE  BacklogFirst'
  <2> SUFFICES ASSUME NEW c \in Conns, peer'[c], phase'[c] \in {"sending", "live"}, NEW o \in Msgs,
                      row'[o] = "pending", created[o] < opened[c], created[o] >= opened[c] - Keep
               PROVE  o \in todo'[c] \/ Since(o)
    BY <1>1, <1>b
  <2>1. peer[c] /\ phase[c] \in {"sending", "live"} /\ row[o] = "pending" /\ Entitled(o, cuser[c])
    BY <1>1, <1>a
  <2>2. o \in todo[c] \/ \E x \in Conns : <<o, x>> \in written
    BY <2>1, <1>i DEF BacklogFirst
  <2> QED
    BY <1>1, <1>c, <2>1, <2>2
<1>2. ASSUME NEW m \in Msgs, QueueChat(m) PROVE BacklogFirst'
  <2>1. /\ created' = [created EXCEPT ![m] = now] /\ UNCHANGED <<opened, peer, phase, todo>>
        /\ \A o \in Msgs : o # m => row'[o] = row[o]
    BY <1>2 DEF QueueChat, connVars, TypeOK
  <2> SUFFICES ASSUME NEW c \in Conns, peer[c], phase[c] \in {"sending", "live"}, NEW o \in Msgs,
                      row'[o] = "pending", created'[o] < opened[c], created'[o] >= opened[c] - Keep
               PROVE  o \in todo[c] \/ Since(o)
    BY <1>b, <2>1
  <2>2. o # m
    BY <2>1, <1>n DEF ConnectionInv
  <2>3. row[o] = "pending" /\ created'[o] = created[o] /\ Entitled(o, cuser[c])
    BY <2>1, <2>2, <1>n, <1>a
  <2>4. o \in todo[c] \/ \E x \in Conns : <<o, x>> \in written
    BY <2>3, <1>i DEF BacklogFirst
  <2> QED
    BY <1>c, <2>4
<1>3. ASSUME NEW c \in Conns, StartBacklog(c) PROVE BacklogFirst'
  <2> DEFINE live == ReceivedLive(RxGrace)
  <2>1. /\ phase[c] = "identified" /\ row' = Stamp(live) /\ phase' = [phase EXCEPT ![c] = "sending"]
        /\ todo' = [todo EXCEPT ![c] = {m \in Msgs \ live : /\ row[m] = "pending" /\ created[m] >= now - Keep
                                                            /\ Entitled(m, cuser[c])}]
        /\ UNCHANGED <<created, opened>>
    BY <1>3 DEF StartBacklog, ReadBacklog
  <2>2. \A m \in Msgs : row'[m] = IF m \in live THEN "delivered" ELSE row[m]
    BY <2>1 DEF Stamp
  <2> HIDE DEF live
  <2>3. \A o \in Conns : phase'[o] \in {"sending", "live"} => o = c
    BY <2>1, <1>n DEF ConnectionInv, Open
  <2>4. opened[c] = now
    BY <2>1 DEF ConnectionInv, Sending
  <2>5. \A o \in Msgs : row'[o] = "pending" /\ created[o] >= now - Keep => o \in todo'[c]
    BY <2>1, <2>2, <1>a, <1>n
  <2> QED
    BY <1>b, <2>1, <2>3, <2>4, <2>5
<1>4. ASSUME NEW c \in Conns, NEW u \in Accounts, NEW channel \in BOOLEAN, Identify(c, u, channel) PROVE BacklogFirst'
  <2>1. (\A o \in Conns : ~Open(o)) /\ phase' = [phase EXCEPT ![c] = "identified"]
    BY <1>4 DEF Identify, Connect, Undisturbed
  <2>2. \A o \in Conns : phase'[o] \notin {"sending", "live"}
    BY <2>1, <1>n DEF Open
  <2> QED
    BY <1>b, <2>2
<1>5. ASSUME NEW c \in Conns, NEW m \in Msgs, WriteRow(c, m) PROVE BacklogFirst'
  <2>1. /\ todo' = [todo EXCEPT ![c] = @ \ {m}] /\ written' = written \cup {<<m, c>>}
        /\ UNCHANGED <<row, created, opened, peer, phase>>
    BY <1>5 DEF WriteRow, rowVars
  <2>2. Since(m) /\ \A o \in Conns, x \in Msgs : x \in todo[o] => x \in todo'[o] \/ x = m
    BY <2>1, <1>n
  <2> QED
    BY <1>1, <2>1, <2>2
<1>6. ASSUME NEW c \in Conns, BacklogFails(c) PROVE BacklogFirst'
  <2>1. /\ todo' = [todo EXCEPT ![c] = {}] /\ UNCHANGED <<row, created, opened, peer, phase>>
    BY <1>6 DEF BacklogFails, rowVars
  <2>2. peer[c] => \A m \in todo[c] : row[m] = "gone"
    BY <1>6, GivenUp
  <2>3. \A o \in Conns, m \in Msgs : peer[o] /\ m \in todo[o] => m \in todo'[o] \/ row[m] = "gone"
    BY <2>1, <2>2, <1>n
  <2> QED
    BY <1>1, <2>1, <2>3
<1>7. ASSUME NEW c \in Conns, GoLive(c) PROVE BacklogFirst'
  <2>1. /\ phase[c] = "sending" /\ phase' = [phase EXCEPT ![c] = "live"]
        /\ UNCHANGED <<row, created, opened, peer, todo>>
    BY <1>7 DEF GoLive, rowVars
  <2>2. \A o \in Conns : phase'[o] \in {"sending", "live"} => phase[o] \in {"sending", "live"}
    BY <2>1, <1>n
  <2> QED
    BY <1>1, <2>1, <2>2
<1>8. ASSUME NEW c \in Conns, CloseConnection(c) \/ HandlerDies(c) PROVE BacklogFirst'
  <2>1. /\ UNCHANGED <<row, created, opened>>
        /\ phase' = [phase EXCEPT ![c] = "closed"] /\ todo' = [todo EXCEPT ![c] = {}]
        /\ peer' = [peer EXCEPT ![c] = FALSE]
    BY <1>8 DEF CloseConnection, HandlerDies, Forget, rowVars
  <2>2. \A o \in Conns : peer'[o] => o # c /\ peer[o] /\ phase'[o] = phase[o] /\ todo'[o] = todo[o]
    BY <2>1, <1>n
  <2> QED
    BY <1>1, <2>1, <2>2
<1>9. ASSUME NEW c \in Conns, StampRow(c) PROVE BacklogFirst'
  <2>1. /\ row' = Stamp({m \in unstamped[c] : row[m] # "gone"}) /\ UNCHANGED <<created, opened, peer, phase, todo>>
    BY <1>9 DEF StampRow
  <2>2. \A m \in Msgs : row'[m] = "pending" => row[m] = "pending"
    BY <2>1 DEF Stamp
  <2> QED
    BY <1>1, <2>1, <2>2
<1>10. CASE Settle \/ Purge \/ DropQueue
  <2>1. UNCHANGED <<created, opened, peer, phase, todo>>
    BY <1>10 DEF Settle, Purge, DropQueue, connVars
  <2>2. \A m \in Msgs : row'[m] = "pending" => row[m] = "pending"
    BY <1>10 DEF Settle, Purge, DropQueue, Stamp
  <2> QED
    BY <1>1, <2>1, <2>2
<1>11. ASSUME NEW c \in Conns, StepAside(c) \/ NoteRx(c) \/ PeerGone(c) PROVE BacklogFirst'
  <2>1. /\ UNCHANGED <<row, created, opened, phase, todo>>
        /\ \A o \in Conns : peer'[o] => peer[o]
    BY <1>11, <1>n DEF StepAside, NoteRx, PeerGone, rowVars, connVars
  <2> QED
    BY <1>1, <2>1
<1>12. ASSUME UNCHANGED <<row, created, opened, peer, phase, todo>> PROVE BacklogFirst'
  BY <1>1, <1>12
<1>13. ASSUME NEW m \in Msgs, RouteChat(m) PROVE BacklogFirst'
  BY <1>12, <1>13 DEF RouteChat, rowVars, connVars
<1>14. ASSUME NEW c \in Conns, NEW m \in Msgs, LiveDeliver(c, m) PROVE BacklogFirst'
  BY <1>12, <1>14 DEF LiveDeliver, rowVars, connVars
<1>15. ASSUME Tick \/ UNCHANGED vars PROVE BacklogFirst'
  BY <1>12, <1>15 DEF Tick, vars, rowVars, connVars
<1>16. ~ \E u \in Users : ChangeMembership(u)
  BY DEF Undisturbed
<1> HIDE DEF Since
<1> QED
  BY <1>2, <1>3, <1>4, <1>5, <1>6, <1>7, <1>8, <1>9, <1>10, <1>11, <1>13, <1>14, <1>15, <1>16 DEF Next

LEMMA DeliveryInvariant ==
    ASSUME Undisturbed PROVE Spec => [](TypeOK /\ ConnectionInv /\ RowInv /\ DeliveryInv)
<1>1. Init => ConnectionInv /\ RowInv
  BY TimesAreNats DEF Init, ConnectionInv, RowInv, Open, Sending
<1>2. Init => DeliveryInv
  BY DEF Init, DeliveryInv, Bound, Direct, Reached, Evidence, StampedWasHad, BacklogFirst, Stored, Open, Sending
<1>3. TypeOK /\ TypeOK' /\ ConnectionInv /\ RowInv /\ DeliveryInv /\ [Next]_vars
      => ConnectionInv' /\ RowInv' /\ DeliveryInv'
  <2> SUFFICES ASSUME TypeOK, TypeOK', ConnectionInv, RowInv, DeliveryInv, [Next]_vars
               PROVE  ConnectionInv' /\ RowInv' /\ DeliveryInv'
    OBVIOUS
  <2>1. ~Overlap
    BY DEF Undisturbed
  <2>2. ConnectionInv' /\ RowInv'
    BY <2>1, ConnectionStep, RowStep
  <2>3. Bound' /\ Direct'
    BY BoundStep, DirectStep DEF DeliveryInv
  <2> QED
    BY <2>2, <2>3, ReachedStep, EvidenceStep, BacklogStep DEF DeliveryInv
<1> QED
  BY <1>1, <1>2, <1>3, ChatTyping, PTL DEF Spec

(* deliver_pending, _mark_received_live and settle_live_deliveries: undisturbed, a
   message stamped delivered reached the device, was written to a connection of
   it, or had outlived its retention: the evidence of euds.last_rx_at, less its
   grace, never covers a message that is still on its way. *)
THEOREM NothingUndeliveredIsStamped ==
    ASSUME Undisturbed PROVE Spec => []DeliveredIsNotLost
<1>1. TypeOK /\ DeliveryInv => DeliveredIsNotLost
  <2> SUFFICES ASSUME TypeOK, DeliveryInv, NEW m \in Msgs, row[m] = "delivered"
               PROVE  \/ created[m] < now - Keep
                      \/ \E u \in Accounts : <<m, u>> \in received
                      \/ \E c \in Conns : <<m, c>> \in written /\ cuser[c] \in Accounts
    BY NoAccounts DEF DeliveredIsNotLost
  <2>1. Had(m)
    BY DEF DeliveryInv, StampedWasHad
  <2> QED
    BY <2>1 DEF Had, TypeOK
<1> QED
  BY <1>1, DeliveryInvariant, PTL

(* parse_device_info: undisturbed, no live message overtakes an older one that was
   pending, unexpired, when its connection identified itself. *)
THEOREM BacklogPrecedesLive ==
    ASSUME Undisturbed PROVE Spec => BacklogBeforeLive
<1>1. TypeOK /\ ConnectionInv /\ DeliveryInv =>
        \A c \in Conns, m \in Msgs : LiveDeliver(c, m) /\ peer[c] =>
            \A o \in Msgs :
                /\ row[o] = "pending" /\ created[o] < opened[c]
                /\ created[o] >= opened[c] - Keep
                /\ created[o] < created[m] /\ Entitled(o, cuser[c])
                /\ o \notin liveQ
                => \E x \in Conns : <<o, x>> \in written
  <2> SUFFICES ASSUME TypeOK, ConnectionInv, DeliveryInv, NEW c \in Conns, NEW m \in Msgs, LiveDeliver(c, m), peer[c],
                      NEW o \in Msgs, row[o] = "pending", created[o] < opened[c],
                      created[o] >= opened[c] - Keep, Entitled(o, cuser[c])
               PROVE  \E x \in Conns : <<o, x>> \in written
    OBVIOUS
  <2>1. queue[c] = "consumes"
    BY DEF LiveDeliver
  <2>2. phase[c] = "live"
    BY <2>1 DEF ConnectionInv, Open, Sending, TypeOK, Phases
  <2>3. todo[c] = {}
    BY <2>2 DEF ConnectionInv
  <2> QED
    BY <2>2, <2>3 DEF DeliveryInv, BacklogFirst
<1> QED
  BY <1>1, DeliveryInvariant, PTL DEF BacklogBeforeLive
=============================================================================
