--------------------------- MODULE SyncScheduler ---------------------------
(***************************************************************************)
(* Who runs Syncer.Run, when, and in which mode: scheduleSync (main.go),   *)
(* the handler startSync (server.go), the body of Run (syncer.go), and     *)
(* planSync, beginSync and finishSync on the table sync_runs (store.go).   *)
(*                                                                         *)
(* One scheduler goroutine and any number of goroutines started by POST    *)
(* /api/sync call Run; an atomic flag lets one of them in.  What a run     *)
(* does to the data is a single step here, which may commit orders and may *)
(* fail.                                                                   *)
(*                                                                         *)
(* Time is counted in units.  The code only compares how long ago the last *)
(* full sync was started with two thresholds, so sinceFull is that age,    *)
(* which stops at the larger one; nothing else of the past is kept, and    *)
(* time goes on for ever.                                                  *)
(***************************************************************************)
EXTENDS Naturals, FiniteSets

CONSTANTS
  Scheduler,    \* the goroutine of scheduleSync
  Manual,       \* the goroutines POST /api/sync may start
  Interval,     \* SyncInterval
  EmptyRetry,   \* emptyStoreFullRetryDelay
  FullInterval, \* fullSyncInterval
  MaxBackoff,   \* the 30 minutes of syncRetryDelay
  NoFull,       \* no full sync was ever started
  FailureCap,   \* bound: failures are counted up to here
  MaxRestarts   \* bound: restarts of the process in one behaviour

Runner == {Scheduler} \cup Manual

\* syncRetryDelay: the delay after n iterations of its loop.
RetryDelayOf(interval, maxBackoff, n) ==
  LET cap == IF interval > maxBackoff THEN interval ELSE maxBackoff
      delay[i \in 0..n] ==
        IF i = 0 THEN interval
        ELSE IF delay[i - 1] >= cap THEN delay[i - 1]
        ELSE IF delay[i - 1] > cap \div 2 THEN cap
        ELSE 2 * delay[i - 1]
  IN  IF delay[n] > cap THEN cap ELSE delay[n]

RetryDelay == [n \in 0..FailureCap |-> RetryDelayOf(Interval, MaxBackoff, n)]

\* The last assumption makes FailureCap harmless: the delay has stopped growing.
ASSUME SchedulerAssumption ==
  /\ Scheduler \notin Manual
  /\ Interval \in Nat \ {0} /\ EmptyRetry \in Nat \ {0} /\ MaxBackoff \in Nat
  /\ FullInterval \in Nat /\ EmptyRetry <= FullInterval
  /\ NoFull \notin Nat
  /\ FailureCap \in Nat \ {0} /\ MaxRestarts \in Nat

ASSUME FailureCapAssumption ==
  RetryDelay[FailureCap] = RetryDelayOf(Interval, MaxBackoff, FailureCap + 1)

VARIABLES
  \* the database
  stored,     \* normalized_orders is not empty
  sinceFull,  \* age of the last sync_runs row whose mode is full, or NoFull
  lastRun,    \* the last row of sync_runs: [status, mode], status "none" at first
  \* the process
  running,    \* Syncer.running
  pc,         \* where each caller of Run is
  mode,       \* plan.Mode of each caller
  failed,     \* err # nil of each caller
  failures,   \* consecutiveFailures of the scheduler
  wait,       \* units until the scheduler's timer fires
  \* history
  abandoned,  \* the last row of sync_runs will never be finished
  restarts

storeVars   == <<stored, sinceFull, lastRun>>
processVars == <<running, pc, mode, failed, failures, wait>>
schedVars   == <<storeVars, processVars, abandoned, restarts>>

Modes == {"full", "incremental"}
Statuses == {"none", "running", "succeeded", "failed"}

\* "waiting" is outside of Run; the other steps are inside it, in this order.
Steps == {"waiting", "called", "planning", "beginning", "working", "finishing"}

InRun(r) == pc[r] \notin {"waiting", "called"}

HasRow(r) == pc[r] \in {"working", "finishing"}

----------------------------------------------------------------------------

Init ==
  /\ stored = FALSE
  /\ sinceFull = NoFull
  /\ lastRun = [status |-> "none", mode |-> "full"]
  /\ running = FALSE
  /\ pc = [r \in Runner |-> IF r = Scheduler THEN "called" ELSE "waiting"]
  /\ mode = [r \in Runner |-> "none"]
  /\ failed = [r \in Runner |-> FALSE]
  /\ failures = 0
  /\ wait = 0
  /\ abandoned = FALSE
  /\ restarts = 0

\* startSync: 409 while a sync runs, and otherwise a new goroutine.
StartSync(m) ==
  /\ pc[m] = "waiting"
  /\ ~ running
  /\ pc' = [pc EXCEPT ![m] = "called"]
  /\ UNCHANGED <<storeVars, running, mode, failed, failures, wait, abandoned, restarts>>

\* Seeded bug: the scheduler gives up after FailureCap failures.
TimerFiresUntilTired ==
  /\ pc[Scheduler] = "waiting"
  /\ wait = 0
  /\ failures < FailureCap
  /\ pc' = [pc EXCEPT ![Scheduler] = "called"]
  /\ UNCHANGED <<storeVars, running, mode, failed, failures, wait, abandoned, restarts>>

TimerFires ==
  /\ pc[Scheduler] = "waiting"
  /\ wait = 0
  /\ pc' = [pc EXCEPT ![Scheduler] = "called"]
  /\ UNCHANGED <<storeVars, running, mode, failed, failures, wait, abandoned, restarts>>

\* r is back from Run, whose locals are gone: the scheduler counts its failures
\* and sets its timer.
Returns(r, delay, count) ==
  /\ pc' = [pc EXCEPT ![r] = "waiting"]
  /\ mode' = [mode EXCEPT ![r] = "none"]
  /\ failed' = [failed EXCEPT ![r] = FALSE]
  /\ IF r = Scheduler THEN wait' = delay /\ failures' = count
                      ELSE UNCHANGED <<wait, failures>>

MoreFailures == IF failures < FailureCap THEN failures + 1 ELSE FailureCap

ReturnsFailure(r) == Returns(r, RetryDelay[MoreFailures], MoreFailures)

\* Seeded bug: Run relies on the check of startSync.
EnterUnguarded(r) ==
  /\ pc[r] = "called"
  /\ running' = TRUE
  /\ pc' = [pc EXCEPT ![r] = "planning"]
  /\ UNCHANGED <<storeVars, mode, failed, failures, wait, abandoned, restarts>>

\* running.CompareAndSwap(false, true)
Enter(r) ==
  /\ pc[r] = "called"
  /\ ~ running
  /\ running' = TRUE
  /\ pc' = [pc EXCEPT ![r] = "planning"]
  /\ UNCHANGED <<storeVars, mode, failed, failures, wait, abandoned, restarts>>

\* It is true already: errSyncRunning, which the scheduler takes for a success.
TurnedAway(r) ==
  /\ pc[r] = "called"
  /\ running
  /\ Returns(r, Interval, 0)
  /\ UNCHANGED <<storeVars, running, abandoned, restarts>>

\* Seeded bug: an empty store is synced in full at once.
FullIsDueWhenEmpty ==
  IF sinceFull = NoFull \/ ~ stored THEN TRUE ELSE sinceFull >= FullInterval

\* Seeded bug: one full sync is enough.
FullIsDueOnce == sinceFull = NoFull

\* decideSyncMode
FullIsDue ==
  IF sinceFull = NoFull THEN TRUE
  ELSE sinceFull >= (IF stored THEN FullInterval ELSE EmptyRetry)

MayRun == FullIsDue \/ stored

PlanSync(r) ==
  /\ pc[r] = "planning"
  /\ MayRun
  /\ mode' = [mode EXCEPT ![r] = IF FullIsDue THEN "full" ELSE "incremental"]
  /\ pc' = [pc EXCEPT ![r] = "beginning"]
  /\ UNCHANGED <<storeVars, running, failed, failures, wait, abandoned, restarts>>

\* Seeded bug: the early return is before the deferred release of the flag.
PlanDefersHolding(r) ==
  /\ pc[r] = "planning"
  /\ ~ MayRun
  /\ LET retryAfter == EmptyRetry - sinceFull
     IN  Returns(r, IF Interval > retryAfter THEN Interval ELSE retryAfter, failures)
  /\ UNCHANGED <<storeVars, running, abandoned, restarts>>

\* syncDeferredError: nothing is stored and the last full sync is too recent.
PlanDefers(r) ==
  /\ pc[r] = "planning"
  /\ ~ MayRun
  /\ running' = FALSE
  /\ LET retryAfter == EmptyRetry - sinceFull
     IN  Returns(r, IF Interval > retryAfter THEN Interval ELSE retryAfter, failures)
  /\ UNCHANGED <<storeVars, abandoned, restarts>>

\* The database is out of reach while Run plans or begins: there is no row.
FailsEarly(r) ==
  /\ pc[r] \in {"planning", "beginning"}
  /\ running' = FALSE
  /\ ReturnsFailure(r)
  /\ UNCHANGED <<storeVars, abandoned, restarts>>

BeginSync(r) ==
  /\ pc[r] = "beginning"
  /\ lastRun' = [status |-> "running", mode |-> mode[r]]
  /\ sinceFull' = IF mode[r] = "full" THEN 0 ELSE sinceFull
  /\ abandoned' = FALSE
  /\ pc' = [pc EXCEPT ![r] = "working"]
  /\ UNCHANGED <<stored, running, mode, failed, failures, wait, restarts>>

\* The sources are read and written.  Each of them may fail, whatever the
\* others committed; orders are never deleted.
Work(r, commits, fails) ==
  /\ pc[r] = "working"
  /\ stored' = (stored \/ commits)
  /\ failed' = [failed EXCEPT ![r] = fails]
  /\ pc' = [pc EXCEPT ![r] = "finishing"]
  /\ UNCHANGED <<sinceFull, lastRun, running, mode, failures, wait, abandoned, restarts>>

\* Seeded bug: the row is finished only when the sync succeeded.
FinishSuccess(r, reached) ==
  /\ pc[r] = "finishing"
  /\ IF reached
       THEN /\ lastRun' = IF failed[r] THEN lastRun
                                       ELSE [lastRun EXCEPT !.status = "succeeded"]
            /\ UNCHANGED abandoned
       ELSE /\ abandoned' = TRUE
            /\ UNCHANGED lastRun
  /\ running' = FALSE
  /\ IF failed[r] THEN ReturnsFailure(r) ELSE Returns(r, Interval, 0)
  /\ UNCHANGED <<stored, sinceFull, restarts>>

\* The deferred functions: the row first, which may not be reached, then the
\* flag.
Finish(r, reached) ==
  /\ pc[r] = "finishing"
  /\ IF reached
       THEN /\ lastRun' = [lastRun EXCEPT !.status = IF failed[r] THEN "failed"
                                                                  ELSE "succeeded"]
            /\ UNCHANGED abandoned
       ELSE /\ abandoned' = TRUE
            /\ UNCHANGED lastRun
  /\ running' = FALSE
  /\ IF failed[r] THEN ReturnsFailure(r) ELSE Returns(r, Interval, 0)
  /\ UNCHANGED <<stored, sinceFull, restarts>>

\* One unit of time: timers and ages.
Tick ==
  /\ wait' = IF wait > 0 THEN wait - 1 ELSE 0
  /\ sinceFull' = IF sinceFull = NoFull \/ sinceFull = FullInterval
                    THEN sinceFull ELSE sinceFull + 1
  /\ UNCHANGED <<stored, lastRun, running, pc, mode, failed, failures, abandoned, restarts>>

\* The process stops and starts: the flag, the callers and the counter are
\* gone, the rows stay, and the scheduler syncs at once.
Restart ==
  /\ restarts < MaxRestarts
  /\ restarts' = restarts + 1
  /\ abandoned' = (abandoned \/ \E r \in Runner : HasRow(r))
  /\ running' = FALSE
  /\ pc' = [r \in Runner |-> IF r = Scheduler THEN "called" ELSE "waiting"]
  /\ mode' = [r \in Runner |-> "none"]
  /\ failed' = [r \in Runner |-> FALSE]
  /\ failures' = 0
  /\ wait' = 0
  /\ UNCHANGED storeVars

RunStep(r) ==
  \/ Enter(r)
  \/ TurnedAway(r)
  \/ PlanSync(r)
  \/ PlanDefers(r)
  \/ FailsEarly(r)
  \/ BeginSync(r)
  \/ \E commits, fails \in BOOLEAN : Work(r, commits, fails)
  \/ \E reached \in BOOLEAN : Finish(r, reached)

Next ==
  \/ \E m \in Manual : StartSync(m)
  \/ TimerFires
  \/ \E r \in Runner : RunStep(r)
  \/ Tick
  \/ Restart

\* Go runs its goroutines, Run is bounded by a context of ten minutes, and
\* timers fire.  Nobody has to press the button.
Fairness ==
  /\ WF_schedVars(Tick)
  /\ WF_schedVars(TimerFires)
  /\ \A r \in Runner : WF_schedVars(RunStep(r))

Spec == Init /\ [][Next]_schedVars /\ Fairness

----------------------------------------------------------------------------
\* Properties.

\* One sync at a time, however many were accepted while none was running, and
\* the flag is up exactly as long as it lasts (server.go:482-486 checks the
\* flag long before the goroutine it starts takes it).
OneRunAtATime ==
  /\ \A r, q \in Runner : InRun(r) /\ InRun(q) => r = q
  /\ running <=> \E r \in Runner : InRun(r)

\* The row of the sync that is working is the last one and is in its mode, and
\* a last row that says running belongs to a sync that is working, unless the
\* process or the database went away before it was finished: what GET
\* /api/sync/status shows as the last run is the last run.
StatusIsHonest ==
  /\ \A r \in Runner : HasRow(r) =>
       lastRun = [status |-> "running", mode |-> mode[r]] /\ ~ abandoned
  /\ lastRun.status = "running" => abandoned \/ \E r \in Runner : HasRow(r)

Begins(r) == pc[r] = "beginning" /\ pc'[r] = "working"

\* A full sync that was started, whether it failed, was cut short or never
\* finished, is not started again before its time (README.md:27), whoever asks
\* for it; and what is incremental follows a full sync that was started.
FullSyncsAreSpaced ==
  [][ \A r \in Runner : Begins(r) =>
        IF mode[r] = "full"
          THEN \/ sinceFull = NoFull
               \/ sinceFull >= (IF stored THEN FullInterval ELSE EmptyRetry)
          ELSE stored /\ sinceFull # NoFull
    ]_schedVars

\* Whatever fails, the flag does not stay up.
FlagIsReleased == running ~> ~ running

\* Whatever fails, the scheduler tries again.
SchedulerNeverStops == []<>(pc[Scheduler] = "called")

\* As long as syncs get as far as their row, full ones keep coming.
FullSyncsRecur ==
  []<>(\E r \in Runner : HasRow(r)) => []<>(sinceFull = 0)

=============================================================================
