------------------------ MODULE SyncScheduler_proofs ------------------------
(***************************************************************************)
(* What SyncScheduler guarantees for every set of callers, every choice of *)
(* the intervals and every number of restarts.                             *)
(*                                                                         *)
(* OneRunAtATime is inductive with the types of what it reads.             *)
(* StatusIsHonest needs it: the row a run finishes is the last one because *)
(* nobody else can have inserted one.  FullSyncsAreSpaced needs PlanIsValid: *)
(* what a run planned is still right when it inserts its row, because only *)
(* a run can store orders or start a full sync, and time only makes a full *)
(* sync more due.                                                          *)
(***************************************************************************)
EXTENDS SyncScheduler, TLAPS

\* The types of what the invariants read.
ControlTypes ==
  /\ stored \in BOOLEAN
  /\ sinceFull \in Nat \cup {NoFull}
  /\ lastRun \in [status : Statuses, mode : Modes]
  /\ running \in BOOLEAN
  /\ pc \in [Runner -> Steps]
  /\ mode \in [Runner -> Modes \cup {"none"}]
  /\ failed \in [Runner -> BOOLEAN]
  /\ abandoned \in BOOLEAN

\* A run that is about to insert its row may do so in the mode it planned.
PlanIsValid ==
  \A r \in Runner :
    /\ pc[r] = "beginning" =>
         /\ mode[r] \in Modes
         /\ mode[r] = "full" => FullIsDue
         /\ mode[r] = "incremental" => stored /\ sinceFull # NoFull
    /\ HasRow(r) => mode[r] \in Modes

IInv == ControlTypes /\ OneRunAtATime /\ StatusIsHonest /\ PlanIsValid

LEMMA InitIInv == Init => IInv
<1> SUFFICES ASSUME Init PROVE IInv
  OBVIOUS
<1>1. ControlTypes
  BY DEF Init, ControlTypes, Runner, Steps, Modes, Statuses
<1>2. \A r \in Runner : pc[r] \in {"waiting", "called"}
  BY DEF Init, Runner
<1>3. OneRunAtATime
  BY <1>2 DEF Init, OneRunAtATime, InRun
<1>4. StatusIsHonest
  BY <1>2 DEF Init, StatusIsHonest, HasRow
<1>5. PlanIsValid
  BY <1>2 DEF PlanIsValid, HasRow
<1>6. QED
  BY <1>1, <1>3, <1>4, <1>5 DEF IInv

\* Types, one action at a time.
LEMMA TypesStep == IInv /\ [Next]_schedVars => ControlTypes'
<1> SUFFICES ASSUME IInv, [Next]_schedVars PROVE ControlTypes'
  OBVIOUS
<1> USE SchedulerAssumption DEF IInv, ControlTypes, Runner, Steps, Modes, Statuses, storeVars
<1>1. CASE UNCHANGED schedVars
  BY <1>1 DEF schedVars, processVars
<1>2. CASE \E m \in Manual : StartSync(m)
  BY <1>2 DEF StartSync
<1>3. CASE TimerFires
  BY <1>3 DEF TimerFires
<1>4. ASSUME NEW r \in Runner, RunStep(r) PROVE ControlTypes'
  <2>1. CASE Enter(r)
    BY <2>1 DEF Enter
  <2>2. CASE TurnedAway(r)
    BY <2>2 DEF TurnedAway, Returns
  <2>3. CASE PlanSync(r)
    BY <2>3 DEF PlanSync
  <2>4. CASE PlanDefers(r)
    BY <2>4 DEF PlanDefers, Returns
  <2>5. CASE FailsEarly(r)
    BY <2>5 DEF FailsEarly, ReturnsFailure, Returns
  <2>6. CASE BeginSync(r)
    BY <2>6 DEF BeginSync, PlanIsValid
  <2>7. ASSUME NEW c \in BOOLEAN, NEW f \in BOOLEAN, Work(r, c, f)
        PROVE  ControlTypes'
    BY <2>7 DEF Work
  <2>8. ASSUME NEW reached \in BOOLEAN, Finish(r, reached) PROVE ControlTypes'
    BY <2>8 DEF Finish, ReturnsFailure, Returns
  <2>9. QED
    BY <1>4, <2>1, <2>2, <2>3, <2>4, <2>5, <2>6, <2>7, <2>8 DEF RunStep
<1>5. CASE Tick
  BY <1>5 DEF Tick
<1>6. CASE Restart
  BY <1>6 DEF Restart
<1>7. QED
  BY <1>1, <1>2, <1>3, <1>4, <1>5, <1>6 DEF Next

\* The flag and the callers: inside, one enters when the flag is down and the
\* one who is in takes it down when it leaves.
LEMMA OneRunStep == IInv /\ [Next]_schedVars => OneRunAtATime'
<1> SUFFICES ASSUME IInv, [Next]_schedVars PROVE OneRunAtATime'
  OBVIOUS
<1> USE DEF IInv, ControlTypes, OneRunAtATime
\* What the steps have in common: r alone moves.
<1>0. ASSUME NEW r \in Runner, NEW to, pc' = [pc EXCEPT ![r] = to]
      PROVE  /\ InRun(r)' <=> to \notin {"waiting", "called"}
             /\ \A q \in Runner : q # r => (InRun(q)' <=> InRun(q))
  BY <1>0 DEF InRun
<1>1. CASE UNCHANGED schedVars
  BY <1>1 DEF schedVars, processVars, InRun
<1>2. ASSUME NEW r \in Runner, pc[r] \in {"waiting", "called"},
             pc' = [pc EXCEPT ![r] = "called"] \/ pc' = [pc EXCEPT ![r] = "waiting"],
             running' = running
      PROVE  OneRunAtATime'
  <2>1. ~ InRun(r) /\ ~ InRun(r)'
    BY <1>0, <1>2 DEF InRun
  <2>2. \A q \in Runner : InRun(q)' <=> InRun(q)
    BY <1>0, <1>2, <2>1
  <2>3. QED
    BY <1>2, <2>2
<1>3. ASSUME NEW r \in Runner, InRun(r), running' = running,
             NEW to, to \notin {"waiting", "called"}, pc' = [pc EXCEPT ![r] = to]
      PROVE  OneRunAtATime'
  <2>1. \A q \in Runner : InRun(q)' <=> InRun(q)
    BY <1>0, <1>3
  <2>2. QED
    BY <1>3, <2>1
<1>4. ASSUME NEW r \in Runner, InRun(r), running' = FALSE,
             pc' = [pc EXCEPT ![r] = "waiting"]
      PROVE  OneRunAtATime'
  <2>1. \A q \in Runner : ~ InRun(q)'
    BY <1>0, <1>4
  <2>2. QED
    BY <1>4, <2>1
<1>5. CASE \E m \in Manual : StartSync(m)
  BY <1>2, <1>5 DEF StartSync, Runner
<1>6. CASE TimerFires
  BY <1>2, <1>6 DEF TimerFires, Runner
<1>7. CASE Tick
  BY <1>7 DEF Tick, InRun
<1>8. CASE Restart
  <2>1. \A q \in Runner : ~ InRun(q)'
    BY <1>8 DEF Restart, InRun
  <2>2. QED
    BY <1>8, <2>1 DEF Restart
<1>9. ASSUME NEW r \in Runner, RunStep(r) PROVE OneRunAtATime'
  <2>1. CASE Enter(r)
    <3>1. \A q \in Runner : ~ InRun(q)
      BY <2>1 DEF Enter
    <3>2. /\ InRun(r)'
          /\ \A q \in Runner : q # r => ~ InRun(q)'
      BY <2>1, <3>1 DEF Enter, InRun
    <3>3. running'
      BY <2>1 DEF Enter
    <3>4. QED
      BY <3>2, <3>3
  <2>2. CASE TurnedAway(r)
    BY <1>2, <2>2 DEF TurnedAway, Returns
  <2>3. CASE PlanSync(r)
    BY <1>3, <2>3 DEF PlanSync, InRun
  <2>4. CASE PlanDefers(r)
    BY <1>4, <2>4 DEF PlanDefers, Returns, InRun
  <2>5. CASE FailsEarly(r)
    BY <1>4, <2>5 DEF FailsEarly, ReturnsFailure, Returns, InRun
  <2>6. CASE BeginSync(r)
    BY <1>3, <2>6 DEF BeginSync, InRun
  <2>7. ASSUME NEW c \in BOOLEAN, NEW f \in BOOLEAN, Work(r, c, f)
        PROVE  OneRunAtATime'
    BY <1>3, <2>7 DEF Work, InRun
  <2>8. ASSUME NEW reached \in BOOLEAN, Finish(r, reached) PROVE OneRunAtATime'
    BY <1>4, <2>8 DEF Finish, ReturnsFailure, Returns, InRun
  <2>9. QED
    BY <1>9, <2>1, <2>2, <2>3, <2>4, <2>5, <2>6, <2>7, <2>8 DEF RunStep
<1>10. QED
  BY <1>1, <1>5, <1>6, <1>7, <1>8, <1>9 DEF Next

\* The row of a run: what the others do leaves it alone, for they have none.
LEMMA StatusStep == IInv /\ [Next]_schedVars => StatusIsHonest'
<1> SUFFICES ASSUME IInv, [Next]_schedVars PROVE StatusIsHonest'
  OBVIOUS
<1> USE DEF IInv, ControlTypes, StatusIsHonest
<1>0. ASSUME NEW r \in Runner, NEW to, pc' = [pc EXCEPT ![r] = to]
      PROVE  /\ HasRow(r)' <=> to \in {"working", "finishing"}
             /\ \A q \in Runner : q # r => (HasRow(q)' <=> HasRow(q))
  BY <1>0 DEF HasRow
<1>1. \A r, q \in Runner : HasRow(r) /\ InRun(q) => r = q
  BY DEF OneRunAtATime, InRun, HasRow
\* A step of a caller that has no row and gets none.
<1>2. ASSUME NEW r \in Runner, ~ HasRow(r), NEW to, to \notin {"working", "finishing"},
             pc' = [pc EXCEPT ![r] = to], NEW x, mode' = [mode EXCEPT ![r] = x],
             lastRun' = lastRun, abandoned' = abandoned
      PROVE  StatusIsHonest'
  <2>1. \A q \in Runner : HasRow(q)' <=> HasRow(q)
    BY <1>0, <1>2
  <2>2. \A q \in Runner : HasRow(q) => mode'[q] = mode[q]
    BY <1>2
  <2>3. QED
    BY <1>2, <2>1, <2>2
<1>3. ASSUME NEW r \in Runner, ~ HasRow(r), NEW to, to \notin {"working", "finishing"},
             pc' = [pc EXCEPT ![r] = to], mode' = mode,
             lastRun' = lastRun, abandoned' = abandoned
      PROVE  StatusIsHonest'
  <2>1. \A q \in Runner : HasRow(q)' <=> HasRow(q)
    BY <1>0, <1>3
  <2>2. QED
    BY <1>3, <2>1
<1>4. CASE UNCHANGED schedVars
  BY <1>4 DEF schedVars, processVars, storeVars, HasRow
<1>5. CASE \E m \in Manual : StartSync(m)
  BY <1>3, <1>5 DEF StartSync, Runner, HasRow, storeVars
<1>6. CASE TimerFires
  BY <1>3, <1>6 DEF TimerFires, Runner, HasRow, storeVars
<1>7. CASE Tick
  BY <1>7 DEF Tick, HasRow
<1>8. CASE Restart
  <2>1. \A q \in Runner : ~ HasRow(q)'
    BY <1>8 DEF Restart, HasRow
  <2>2. lastRun' = lastRun
    BY <1>8 DEF Restart, storeVars
  <2>3. lastRun'.status = "running" => abandoned'
    BY <1>8, <2>2 DEF Restart
  <2>4. QED
    BY <2>1, <2>3
<1>9. ASSUME NEW r \in Runner, RunStep(r) PROVE StatusIsHonest'
  <2>1. CASE Enter(r)
    BY <1>3, <2>1 DEF Enter, HasRow, storeVars
  <2>2. CASE TurnedAway(r)
    BY <1>2, <2>2 DEF TurnedAway, Returns, HasRow, storeVars
  <2>3. CASE PlanSync(r)
    <3>1. PICK x : mode' = [mode EXCEPT ![r] = x]
      BY <2>3 DEF PlanSync
    <3>2. QED
      BY <1>2, <2>3, <3>1 DEF PlanSync, HasRow, storeVars
  <2>4. CASE PlanDefers(r)
    BY <1>2, <2>4 DEF PlanDefers, Returns, HasRow, storeVars
  <2>5. CASE FailsEarly(r)
    BY <1>2, <2>5 DEF FailsEarly, ReturnsFailure, Returns, HasRow, storeVars
  <2>6. CASE BeginSync(r)
    <3>1. HasRow(r)' /\ lastRun' = [status |-> "running", mode |-> mode'[r]]
      BY <1>0, <2>6 DEF BeginSync
    <3>2. ~ abandoned'
      BY <2>6 DEF BeginSync
    <3>3. \A q \in Runner : HasRow(q)' => q = r
      BY <1>0, <1>1, <2>6 DEF BeginSync, InRun
    <3>4. QED
      BY <3>1, <3>2, <3>3
  <2>7. ASSUME NEW c \in BOOLEAN, NEW f \in BOOLEAN, Work(r, c, f)
        PROVE  StatusIsHonest'
    <3>1. \A q \in Runner : HasRow(q)' <=> HasRow(q)
      BY <2>7 DEF Work, HasRow
    <3>2. QED
      BY <2>7, <3>1 DEF Work
  <2>8. ASSUME NEW reached \in BOOLEAN, Finish(r, reached) PROVE StatusIsHonest'
    <3>1. pc' = [pc EXCEPT ![r] = "waiting"]
      BY <2>8 DEF Finish, ReturnsFailure, Returns
    <3>2. \A q \in Runner : ~ HasRow(q)'
      <4>1. InRun(r)
        BY <2>8 DEF Finish, InRun
      <4>2. \A q \in Runner : q # r => ~ HasRow(q)
        BY <1>1, <4>1
      <4>3. QED
        BY <3>1, <4>2 DEF HasRow
    <3>3. CASE reached
      <4>1. lastRun'.status \in {"failed", "succeeded"}
        BY <2>8, <3>3 DEF Finish
      <4>2. QED
        BY <3>2, <4>1
    <3>4. CASE ~ reached
      <4>1. abandoned'
        BY <2>8, <3>4 DEF Finish
      <4>2. QED
        BY <3>2, <4>1
    <3>5. QED
      BY <3>3, <3>4
  <2>9. QED
    BY <1>9, <2>1, <2>2, <2>3, <2>4, <2>5, <2>6, <2>7, <2>8 DEF RunStep
<1>10. QED
  BY <1>4, <1>5, <1>6, <1>7, <1>8, <1>9 DEF Next

\* What was planned stays right.
LEMMA PlanStep == IInv /\ [Next]_schedVars => PlanIsValid'
<1> SUFFICES ASSUME IInv, [Next]_schedVars PROVE PlanIsValid'
  OBVIOUS
<1> USE SchedulerAssumption DEF IInv, ControlTypes
\* A caller that is about to begin, or has its row, after a step that is not
\* its own: only a step of somebody inside Run could disturb its plan.
<1>0. ASSUME NEW q \in Runner, pc'[q] = pc[q], mode'[q] = mode[q],
             stored' = stored, sinceFull' = sinceFull
      PROVE  /\ pc'[q] = "beginning" =>
                  /\ mode'[q] \in Modes
                  /\ mode'[q] = "full" => FullIsDue'
                  /\ mode'[q] = "incremental" => stored' /\ sinceFull' # NoFull
             /\ HasRow(q)' => mode'[q] \in Modes
  BY <1>0 DEF PlanIsValid, HasRow, FullIsDue
<1>1. ASSUME NEW r \in Runner, NEW to, to \notin {"beginning", "working", "finishing"},
             pc' = [pc EXCEPT ![r] = to],
             mode' = mode \/ \E x : mode' = [mode EXCEPT ![r] = x],
             stored' = stored, sinceFull' = sinceFull
      PROVE  PlanIsValid'
  <2>1. pc'[r] = to
    BY <1>1
  <2>2. \A q \in Runner : q # r => pc'[q] = pc[q] /\ mode'[q] = mode[q]
    BY <1>1
  <2>3. QED
    BY <1>0, <1>1, <2>1, <2>2 DEF PlanIsValid, HasRow
<1>2. CASE UNCHANGED schedVars
  BY <1>0, <1>2 DEF schedVars, processVars, storeVars, PlanIsValid
<1>3. CASE \E m \in Manual : StartSync(m)
  BY <1>1, <1>3 DEF StartSync, Runner, storeVars
<1>4. CASE TimerFires
  BY <1>1, <1>4 DEF TimerFires, Runner, storeVars
<1>5. CASE Tick
  <2>1. FullIsDue => FullIsDue'
    <3>1. CASE sinceFull = NoFull
      BY <1>5, <3>1 DEF Tick, FullIsDue
    <3>2. CASE sinceFull # NoFull
      <4>1. sinceFull \in Nat /\ sinceFull' \in Nat /\ sinceFull' >= sinceFull
        BY <1>5, <3>2 DEF Tick
      <4>2. QED
        BY <1>5, <3>2, <4>1 DEF Tick, FullIsDue
    <3>3. QED
      BY <3>1, <3>2
  <2>2. sinceFull # NoFull => sinceFull' # NoFull
    BY <1>5 DEF Tick
  <2>3. QED
    BY <1>5, <2>1, <2>2 DEF Tick, PlanIsValid, HasRow
<1>6. CASE Restart
  BY <1>6 DEF Restart, PlanIsValid, HasRow
<1>7. ASSUME NEW r \in Runner, RunStep(r) PROVE PlanIsValid'
  <2>1. CASE Enter(r)
    BY <1>1, <2>1 DEF Enter, storeVars
  <2>2. CASE TurnedAway(r)
    BY <1>1, <2>2 DEF TurnedAway, Returns, storeVars
  <2>3. CASE PlanSync(r)
    <3>1. \A q \in Runner : q # r => pc'[q] = pc[q] /\ mode'[q] = mode[q]
      BY <2>3 DEF PlanSync
    <3>2. /\ pc'[r] = "beginning"
          /\ mode'[r] = IF FullIsDue THEN "full" ELSE "incremental"
      BY <2>3 DEF PlanSync
    <3>3. stored' = stored /\ sinceFull' = sinceFull /\ (FullIsDue \/ stored)
      BY <2>3 DEF PlanSync, MayRun, storeVars
    <3>4. /\ mode'[r] \in Modes
          /\ mode'[r] = "full" => FullIsDue'
          /\ mode'[r] = "incremental" => stored' /\ sinceFull' # NoFull
      <4>1. CASE FullIsDue
        BY <3>2, <3>3, <4>1 DEF Modes, FullIsDue
      <4>2. CASE ~ FullIsDue
        BY <3>2, <3>3, <4>2 DEF Modes, FullIsDue
      <4>3. QED
        BY <4>1, <4>2
    <3>5. QED
      BY <1>0, <3>1, <3>2, <3>3, <3>4 DEF PlanIsValid, HasRow
  <2>4. CASE PlanDefers(r)
    BY <1>1, <2>4 DEF PlanDefers, Returns, storeVars
  <2>5. CASE FailsEarly(r)
    BY <1>1, <2>5 DEF FailsEarly, ReturnsFailure, Returns, storeVars
  <2>6. ASSUME BeginSync(r)
                 \/ (\E c, f \in BOOLEAN : Work(r, c, f))
                 \/ (\E reached \in BOOLEAN : Finish(r, reached))
        PROVE  PlanIsValid'
    <3>1. InRun(r)
      BY <2>6 DEF BeginSync, Work, Finish, InRun
    <3>2. \A q \in Runner : pc'[q] # "beginning"
      <4>1. \A q \in Runner : q # r => ~ InRun(q)
        BY <3>1 DEF OneRunAtATime
      <4>2. \A q \in Runner : q # r => pc'[q] = pc[q]
        BY <2>6 DEF BeginSync, Work, Finish, ReturnsFailure, Returns
      <4>3. pc'[r] # "beginning"
        BY <2>6 DEF BeginSync, Work, Finish, ReturnsFailure, Returns
      <4>4. QED
        BY <4>1, <4>2, <4>3 DEF InRun
    <3>3. \A q \in Runner : HasRow(q)' => mode'[q] \in Modes
      BY <2>6 DEF BeginSync, Work, Finish, ReturnsFailure, Returns, HasRow, PlanIsValid
    <3>4. QED
      BY <3>2, <3>3 DEF PlanIsValid
  <2>7. QED
    BY <1>7, <2>1, <2>2, <2>3, <2>4, <2>5, <2>6 DEF RunStep
<1>8. QED
  BY <1>2, <1>3, <1>4, <1>5, <1>6, <1>7 DEF Next

\* The inductive invariant.
THEOREM Invariance == Spec => []IInv
<1>1. IInv /\ [Next]_schedVars => IInv'
  BY TypesStep, OneRunStep, StatusStep, PlanStep DEF IInv
<1>2. QED
  BY InitIInv, <1>1, PTL DEF Spec

\* Whatever the callers do, at most one of them is inside Run.
THEOREM RunsAreExclusive == Spec => []OneRunAtATime
BY Invariance, PTL DEF IInv

\* The last row of sync_runs tells the truth unless it was abandoned.
THEOREM LastRunIsHonest == Spec => []StatusIsHonest
BY Invariance, PTL DEF IInv

\* Full syncs keep their distance, whatever happened to the last one.
THEOREM FullSyncSpacing == Spec => FullSyncsAreSpaced
<1> DEFINE Spaced ==
      \A r \in Runner : Begins(r) =>
        IF mode[r] = "full"
          THEN \/ sinceFull = NoFull
               \/ sinceFull >= (IF stored THEN FullInterval ELSE EmptyRetry)
          ELSE stored /\ sinceFull # NoFull
<1>1. IInv => Spaced
  <2> SUFFICES ASSUME IInv, NEW r \in Runner, Begins(r)
               PROVE  IF mode[r] = "full"
                        THEN \/ sinceFull = NoFull
                             \/ sinceFull >= (IF stored THEN FullInterval ELSE EmptyRetry)
                        ELSE stored /\ sinceFull # NoFull
    OBVIOUS
  <2>1. CASE mode[r] = "full"
    BY <2>1 DEF IInv, PlanIsValid, Begins, FullIsDue
  <2>2. CASE mode[r] # "full"
    BY <2>2 DEF IInv, PlanIsValid, Begins, Modes
  <2>3. QED
    BY <2>1, <2>2
<1>2. IInv => [Spaced]_schedVars
  BY <1>1
<1>3. QED
  BY Invariance, <1>2, PTL DEF FullSyncsAreSpaced

=============================================================================
