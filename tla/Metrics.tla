------------------------------ MODULE Metrics ------------------------------
(* One counter of a service that forks its workers: they count in shared memory, and
   a thread of their parent adds the growth since its last flush to the row of
   metric_counters. Several services have rows of their own and add to them in one
   statement, so that one service and one series show what there is to show. *)
EXTENDS Integers

CONSTANTS
    MaxCount,   \* bound on what is counted
    MaxLives,   \* bound on restarts of the service
    MaxErrors   \* bound on writes that fail

ASSUME MetricsAssumption == MaxCount \in Nat /\ MaxLives \in Nat /\ MaxErrors \in Nat

VARIABLES
    counted,   \* messages there were, ever
    values,    \* the shared slot
    flushed,   \* what the flusher believes the table has of this life
    table,     \* the row's value
    flush,     \* flushes under way, of the thread and of stop(): [at, seen, delta]
    unseen,    \* counted by none: dropped by inc(), or lost with a process
    lives, errors,
    doubtful   \* two flushes overlapped, or a commit's outcome was not learnt

metricsVars == <<counted, values, flushed, table, flush, unseen, lives, errors, doubtful>>

Flushers == {"thread", "stop"}
NoFlush == [at |-> "idle", seen |-> 0, delta |-> 0]

MetricsInit ==
    /\ counted = 0 /\ values = 0 /\ flushed = 0 /\ table = 0 /\ unseen = 0
    /\ flush = [f \in Flushers |-> NoFlush]
    /\ lives = 1 /\ errors = 0 /\ doubtful = FALSE
-----------------------------------------------------------------------------
Running == flush["stop"].at # "over"

(* inc: a worker that does not get the lock within INC_LOCK_TIMEOUT drops the count. *)
Inc ==
    /\ Running /\ counted < MaxCount
    /\ counted' = counted + 1
    /\ \/ values' = values + 1 /\ UNCHANGED unseen
       \/ unseen' = unseen + 1 /\ UNCHANGED values
    /\ UNCHANGED <<flushed, table, flush, lives, errors, doubtful>>

(* flush: the growth since what was flushed last. stop() flushes in the main thread,
   whatever the flusher's thread does. *)
BeginFlush(f) ==
    /\ Running /\ flush[f].at = "idle"
    /\ flush' = [flush EXCEPT ![f] = [at |-> "read", seen |-> values, delta |-> values - flushed]]
    /\ doubtful' = (doubtful \/ \E g \in Flushers : flush[g].at # "idle")
    /\ UNCHANGED <<counted, values, flushed, table, unseen, lives, errors>>

(* write: value = value + delta, committed as a whole. *)
Commit(f) ==
    /\ flush[f].at = "read"
    /\ table' = table + flush[f].delta
    /\ flush' = [flush EXCEPT ![f].at = "written"]
    /\ UNCHANGED <<counted, values, flushed, unseen, lives, errors, doubtful>>

Over(f) == IF f = "stop" THEN [NoFlush EXCEPT !.at = "over"] ELSE NoFlush

(* Mutant: what was read counts as flushed whether it was written or not. *)
CommitFailsNoted(f) ==
    /\ flush[f].at = "read" /\ errors < MaxErrors
    /\ errors' = errors + 1
    /\ flushed' = flush[f].seen
    /\ flush' = [flush EXCEPT ![f] = Over(f)]
    /\ UNCHANGED <<counted, values, table, unseen, lives, doubtful>>

(* The write fails, and the next flush has the same growth again. *)
CommitFails(f) ==
    /\ flush[f].at = "read" /\ errors < MaxErrors
    /\ errors' = errors + 1
    /\ flush' = [flush EXCEPT ![f] = Over(f)]
    /\ UNCHANGED <<counted, values, flushed, table, unseen, lives, doubtful>>

(* It was committed, but the connection broke before that was known. *)
AnswerLost(f) ==
    /\ flush[f].at = "written" /\ errors < MaxErrors
    /\ errors' = errors + 1
    /\ doubtful' = TRUE
    /\ flush' = [flush EXCEPT ![f] = Over(f)]
    /\ UNCHANGED <<counted, values, flushed, table, unseen, lives>>

(* Only now is it what the table has. *)
Note(f) ==
    /\ flush[f].at = "written"
    /\ flushed' = flush[f].seen
    /\ flush' = [flush EXCEPT ![f] = Over(f)]
    /\ UNCHANGED <<counted, values, table, unseen, lives, errors, doubtful>>

(* The growth of this life that the table has not got. *)
Unwritten ==
    values - flushed - (IF \E f \in Flushers : flush[f].at = "written"
                        THEN flush[CHOOSE f \in Flushers : flush[f].at = "written"].delta ELSE 0)

(* The process ends, after stop() or without: a signal other than an interrupt runs no
   stop(). The next one counts from zero. *)
Restart ==
    /\ lives < MaxLives
    /\ lives' = lives + 1
    /\ unseen' = unseen + Unwritten
    /\ values' = 0 /\ flushed' = 0
    /\ flush' = [f \in Flushers |-> NoFlush]
    /\ UNCHANGED <<counted, table, errors, doubtful>>

MetricsNext ==
    \/ Inc \/ Restart
    \/ \E f \in Flushers : BeginFlush(f) \/ Commit(f) \/ CommitFails(f) \/ AnswerLost(f) \/ Note(f)

MetricsSpec == MetricsInit /\ [][MetricsNext]_metricsVars
-----------------------------------------------------------------------------
(* Every message is counted once: in the table, in memory and still to be flushed, or
   in none of them because its count was dropped or died with its process. Nothing is
   added twice by flushes that fail and are repeated, or by a restart. *)
CountedOnce == doubtful \/ counted = table + Unwritten + unseen
=============================================================================
