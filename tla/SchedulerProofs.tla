--------------------------- MODULE SchedulerProofs ---------------------------
(* What the runs of Scheduler check on small instances, proved for any      *)
(* number of jobs, goroutines, slots and requests.                          *)
EXTENDS Scheduler, FiniteSetTheorems, WellFoundedInduction, TLAPS

-----------------------------------------------------------------------------
(* The operators *)

\* The "oldest" queued job nextQueuedJob returns is one of the queued jobs:
\* among the intervals 1..k, k \in S, one has no other below it.
LEMMA OldestIsMember ==
  ASSUME NEW S, S \subseteq Job, S # {}
  PROVE  Oldest(S) \in S
<1> DEFINE Down == {1..k : k \in S}
<1>1. IsFiniteSet(Job)
  BY FS_Interval, SchedulerAssumption DEF Job, SchedulerAssumption
<1>2. Down \subseteq FiniteSubsetsOf(Job)
  <2>1. \A k \in S : 1..k \subseteq Job
    BY SchedulerAssumption DEF Job, SchedulerAssumption
  <2> QED
    BY <1>1, <2>1, FS_FiniteSubsetsOfFinite
<1>3. PICK D \in Down : \A E \in Down : <<E, D>> \notin StrictSubsetOrdering(Job)
  <2>1. IsWellFoundedOn(StrictSubsetOrdering(Job), FiniteSubsetsOf(Job))
    BY FS_StrictSubsetOrderingWellFounded
  <2>2. Down # {}
    OBVIOUS
  <2> HIDE DEF Down
  <2> QED
    BY <1>2, <2>1, <2>2, WFMin
<1>4. PICK m \in S : D = 1..m
  OBVIOUS
<1>5. ASSUME NEW k \in S PROVE m <= k
  <2>1. m \in 1..NumJobs /\ k \in 1..NumJobs
    BY DEF Job
  <2>2. <<1..k, 1..m>> \notin StrictSubsetOrdering(Job)
    BY <1>3, <1>4
  <2>3. 1..k \subseteq Job /\ 1..m \subseteq Job
    BY <2>1, SchedulerAssumption DEF Job, SchedulerAssumption
  <2>4. ~(1..k \subseteq 1..m) \/ 1..k = 1..m
    BY <2>2, <2>3 DEF StrictSubsetOrdering
  <2>5. CASE k < m
    <3>1. 1..k \subseteq 1..m /\ m \in 1..m /\ m \notin 1..k
      BY <2>1, <2>5, SchedulerAssumption DEF SchedulerAssumption
    <3> QED
      BY <2>4, <3>1
  <2> QED
    BY <2>1, <2>5, SchedulerAssumption DEF SchedulerAssumption
<1> QED
  BY <1>5 DEF Oldest

\* UpdateJob keeps the table a table, whatever becomes of the row.
LEMMA UpdateJobType ==
  ASSUME NEW rows \in [Job -> Row], NEW j, NEW r, j \in Job => r \in Row
  PROVE  UpdateJob(rows, j, r) \in [Job -> Row]
BY DEF UpdateJob

LEMMA FinishedRowType ==
  ASSUME NEW r \in Row, NEW outcome \in {"completed", "failed", "canceled"}
  PROVE  FinishedRow(r, outcome) \in Row
<1>1. CASE outcome = "completed"
  BY <1>1, SchedulerAssumption DEF SchedulerAssumption, FinishedRow, Row, Status
<1>2. CASE outcome = "canceled"
  BY <1>2 DEF FinishedRow, Row, Status
<1>3. CASE outcome = "failed" /\ RetriesAfter(r)
  <2>1. r.tries + 1 \in 0..MaxTries
    BY <1>3, SchedulerAssumption DEF SchedulerAssumption, RetriesAfter, Row
  <2> QED
    BY <1>3, <2>1 DEF FinishedRow, Row, Status
<1>4. CASE outcome = "failed" /\ ~RetriesAfter(r)
  BY <1>4 DEF FinishedRow, Row, Status
<1> QED
  BY <1>1, <1>2, <1>3, <1>4

LEMMA FinishJobType ==
  ASSUME TypeOK, NEW j, NEW outcome \in {"completed", "failed", "canceled"},
         FinishJob(j, outcome)
  PROVE  /\ row' \in [Job -> Row]
         /\ timers' \in [Job -> Nat]
<1>1. j \in Job => FinishedRow(row[j], outcome) \in Row
  BY FinishedRowType DEF TypeOK
<1>2. row' \in [Job -> Row]
  BY <1>1, UpdateJobType DEF FinishJob, TypeOK
<1>3. CASE UNCHANGED timers
  BY <1>2, <1>3 DEF TypeOK
<1>4. CASE timers' = [timers EXCEPT ![j] = @ + 1]
  <2>1. timers' \in [Job -> Nat]
    <3>1. j \in Job => timers[j] + 1 \in Nat
      BY DEF TypeOK
    <3>2. timers \in [Job -> Nat]
      BY DEF TypeOK
    <3> QED
      BY ONLY <1>4, <3>1, <3>2
  <2> QED
    BY <1>2, <1>4, <2>1 DEF TypeOK
<1> QED
  BY <1>3, <1>4 DEF FinishJob

LEMMA AcquireSlotType ==
  ASSUME TypeOK, NEW t \in Thread, NEW j \in 0..NumJobs, NEW nested \in BOOLEAN,
         AcquireSlot(t, j, nested)
  PROVE  run' \in [Run -> RunState] /\ rt' \in [Job -> Run \cup {None}]
<1>1. PICK r \in Unused :
        /\ run' = [run EXCEPT ![r] = [NoRun EXCEPT !.phase = "placeholder", !.job = j,
                                                  !.by = t, !.nested = nested]]
        /\ rt' = [rt EXCEPT ![j] = r]
  BY DEF AcquireSlot
<1>2. [NoRun EXCEPT !.phase = "placeholder", !.job = j, !.by = t, !.nested = nested] \in RunState
  BY DEF NoRun, RunState, Phase
<1> QED
  BY <1>1, <1>2 DEF TypeOK, Unused

LEMMA IdleTypes ==
  Idle \in HandlerState /\ NoPass \in PassState /\ NoRun \in RunState /\ NoRow \in Row
BY SchedulerAssumption DEF SchedulerAssumption, Idle, HandlerState, HandlerPc, Op, NoPass,
   PassState, NoRun, RunState, Phase, NoRow, Row, Status

LEMMA ReturnFromStartType ==
  ASSUME TypeOK, NEW t, NEW nested, ReturnFromStart(t, nested)
  PROVE  /\ th' \in [Handler \cup {Boot} -> HandlerState]
         /\ pass' \in [Thread -> PassState]
<1>1. ASSUME NEW p \in PassState PROVE [p EXCEPT !.pc = "loop", !.job = 0] \in PassState
  <2>1. 0 \in 0..NumJobs
    BY SchedulerAssumption DEF SchedulerAssumption
  <2> QED
    BY <2>1 DEF PassState
<1>2. /\ th \in [Handler \cup {Boot} -> HandlerState]
      /\ pass \in [Thread -> PassState]
  BY DEF TypeOK
<1>3. CASE nested
  <2>1. /\ pass' = [pass EXCEPT ![t] = [@ EXCEPT !.pc = "loop", !.job = 0]]
        /\ UNCHANGED th
    BY <1>3 DEF ReturnFromStart
  <2>2. t \in Thread => [pass[t] EXCEPT !.pc = "loop", !.job = 0] \in PassState
    BY <1>1, <1>2
  <2> QED
    BY ONLY <1>2, <2>1, <2>2
<1>4. CASE ~nested
  <2>1. th' = [th EXCEPT ![t] = Idle] /\ UNCHANGED pass
    BY <1>4 DEF ReturnFromStart
  <2> QED
    BY ONLY <1>2, <2>1, IdleTypes
<1> QED
  BY <1>3, <1>4

-----------------------------------------------------------------------------
(* Types *)

\* The edits the actions make to a runtime, a pass, a goroutine or a row.
LEMMA RunEdits ==
  ASSUME NEW s \in RunState, NEW p \in Phase
  PROVE  /\ [s EXCEPT !.phase = p] \in RunState
         /\ [s EXCEPT !.cancelled = TRUE] \in RunState
         /\ [s EXCEPT !.phase = p, !.cancelled = FALSE] \in RunState
         /\ [s EXCEPT !.phase = p, !.by = None, !.nested = FALSE] \in RunState
BY DEF RunState

LEMMA PassEdits ==
  ASSUME NEW p \in PassState, NEW pc \in {"off", "enter", "loop", "start", "starting", "exit"}
  PROVE  [p EXCEPT !.pc = pc] \in PassState
BY DEF PassState

LEMMA HandlerEdits ==
  ASSUME NEW s \in HandlerState, NEW pc \in HandlerPc
  PROVE  /\ [s EXCEPT !.pc = pc] \in HandlerState
         /\ \A r \in Run \cup {None} : [s EXCEPT !.pc = pc, !.run = r] \in HandlerState
BY DEF HandlerState

LEMMA PassMoves ==
  ASSUME TypeOK, NEW t, NEW pc \in {"off", "enter", "loop", "start", "starting", "exit"},
         pass' = [pass EXCEPT ![t].pc = pc]
  PROVE  pass' \in [Thread -> PassState]
<1>1. t \in Thread => [pass[t] EXCEPT !.pc = pc] \in PassState
  BY PassEdits DEF TypeOK
<1>2. pass \in [Thread -> PassState]
  BY DEF TypeOK
<1> QED
  BY ONLY <1>1, <1>2, pass' = [pass EXCEPT ![t].pc = pc]

LEMMA RowEdits ==
  ASSUME NEW r \in Row, NEW st \in Status
  PROVE  [r EXCEPT !.st = st] \in Row /\ [r EXCEPT !.st = st, !.due = FALSE] \in Row
BY DEF Row

LEMMA TypeInit == Init => TypeOK
<1> SUFFICES ASSUME Init PROVE TypeOK
  OBVIOUS
<1>1. PICK left \in Leftover :
        /\ row = [j \in Job |-> [NoRow EXCEPT !.st = left[j]]]
        /\ created = Cardinality({j \in Job : left[j] # "absent"})
  BY DEF Init
<1>2. row \in [Job -> Row]
  <2>1. \A st \in Status : [NoRow EXCEPT !.st = st] \in Row
    BY IdleTypes, RowEdits
  <2>2. left \in [Job -> Status]
    BY SchedulerAssumption DEF SchedulerAssumption
  <2> QED
    BY <1>1, <2>1, <2>2
<1>3. created \in 0..NumJobs
  <2>1. IsFiniteSet(Job) /\ Cardinality(Job) = NumJobs
    BY FS_Interval, SchedulerAssumption DEF Job, SchedulerAssumption
  <2>2. {j \in Job : left[j] # "absent"} \in SUBSET Job
    OBVIOUS
  <2> QED
    BY <1>1, <2>1, <2>2, FS_Subset, FS_CardinalityType, SchedulerAssumption
    DEF SchedulerAssumption
<1>4. ops \in 0..MaxOps /\ deaths \in Nat
  BY SchedulerAssumption DEF Init, SchedulerAssumption
<1> QED
  BY <1>2, <1>3, <1>4, IdleTypes DEF Init, TypeOK

\* A goroutine sent about a job of the table, as it stands in the store.
LEMMA CallType ==
  ASSUME TypeOK, NEW h \in Handler, NEW j \in Job, NEW op \in Op, NEW pc \in HandlerPc,
         Call(h, op, pc, j)
  PROVE  th' \in [Handler \cup {Boot} -> HandlerState]
<1> DEFINE new == [pc |-> pc, op |-> op, job |-> j,
                   tries |-> IF op = "retry" THEN 0 ELSE row[j].tries, run |-> None]
<1>1. row[j].tries \in 0..MaxTries /\ 0 \in 0..MaxTries /\ j \in 0..NumJobs
  BY SchedulerAssumption DEF TypeOK, Row, Job, SchedulerAssumption
<1>2. new \in HandlerState
  BY <1>1 DEF HandlerState
<1>3. th' = [th EXCEPT ![h] = new]
  BY DEF Call
<1> HIDE DEF new
<1> QED
  BY <1>2, <1>3 DEF TypeOK

\* A goroutine about to call start for a job.
LEMMA GoType ==
  ASSUME NEW j \in 0..NumJobs, NEW op \in Op
  PROVE  [Idle EXCEPT !.pc = "start", !.op = op, !.job = j] \in HandlerState
BY IdleTypes DEF HandlerState, HandlerPc

LEMMA TypeStep == TypeOK /\ JobsKnown /\ [Next]_vars => TypeOK'
<1> SUFFICES ASSUME TypeOK, JobsKnown, [Next]_vars PROVE TypeOK'
  OBVIOUS
<1>1. ASSUME NEW r \in Run, SetRuntime(r) PROVE TypeOK'
  <2>1. run' \in [Run -> RunState]
    BY <1>1, RunEdits DEF SetRuntime, TypeOK, Phase
  <2> QED
    BY <1>1, <2>1 DEF SetRuntime, TypeOK
<1>2. ASSUME NEW r \in Run, MarkActive(r) PROVE TypeOK'
  <2>1. run' \in [Run -> RunState]
    BY <1>2, RunEdits DEF MarkActive, TypeOK, Phase
  <2>2. run[r].job \in Job => [row[run[r].job] EXCEPT !.st = "active", !.due = FALSE] \in Row
    BY RowEdits DEF TypeOK, Status
  <2>3. row' \in [Job -> Row]
    BY <1>2, <2>2, UpdateJobType DEF MarkActive, TypeOK, UpdateStatus
  <2>4. th' \in [Handler \cup {Boot} -> HandlerState] /\ pass' \in [Thread -> PassState]
    BY <1>2, ReturnFromStartType DEF MarkActive
  <2> QED
    BY <1>2, <2>1, <2>2, <2>3, <2>4 DEF MarkActive, TypeOK
<1>3. ASSUME NEW r \in Run, StartFails(r) PROVE TypeOK'
  <2>1. run' \in [Run -> RunState]
    BY <1>3, RunEdits DEF StartFails, TypeOK, Phase
  <2>2. pass' \in [Thread -> PassState]
    <3>1. CASE pass' = [pass EXCEPT ![run[r].by].pc = "enter"]
      BY <3>1, PassMoves
    <3>2. CASE UNCHANGED pass
      BY <3>2 DEF TypeOK
    <3> QED
      BY <1>3, <3>1, <3>2 DEF StartFails
  <2>3. rt' \in [Job -> Run \cup {None}]
    BY <1>3 DEF StartFails, TypeOK
  <2>4. tryAgain' \in BOOLEAN
    BY <1>3 DEF StartFails, TypeOK
  <2> QED
    BY <1>3, <2>1, <2>2, <2>3, <2>4 DEF StartFails, TypeOK
<1>4. ASSUME NEW r \in Run, FailFinish(r) PROVE TypeOK'
  <2>1. [NoRun EXCEPT !.phase = "abandoned"] \in RunState
    BY RunEdits, IdleTypes DEF Phase
  <2>2. run' \in [Run -> RunState]
    BY <1>4, <2>1, IdleTypes DEF FailFinish, TypeOK
  <2>3. row' \in [Job -> Row] /\ timers' \in [Job -> Nat]
    BY <1>4, FinishJobType DEF FailFinish
  <2>4. th' \in [Handler \cup {Boot} -> HandlerState] /\ pass' \in [Thread -> PassState]
    BY <1>4, ReturnFromStartType DEF FailFinish
  <2> QED
    BY <1>4, <2>1, <2>2, <2>3, <2>4 DEF FailFinish, TypeOK
<1>5. ASSUME NEW r \in Run, WorkEnds(r) PROVE TypeOK'
  <2>1. run' \in [Run -> RunState]
    BY <1>5, RunEdits DEF WorkEnds, TypeOK, Phase
  <2>2. row' \in [Job -> Row] /\ timers' \in [Job -> Nat]
    BY <1>5, FinishJobType DEF WorkEnds
  <2> QED
    BY <1>5, <2>1, <2>2 DEF WorkEnds, TypeOK
<1>6. ASSUME NEW r \in Run, ClearRuntime(r) PROVE TypeOK'
  <2>1. run' \in [Run -> RunState]
    BY <1>6, RunEdits DEF ClearRuntime, TypeOK, Phase
  <2>2. pass' \in [Thread -> PassState]
    BY <1>6, PassEdits DEF ClearRuntime, TypeOK
  <2>3. rt' \in [Job -> Run \cup {None}]
    BY <1>6 DEF ClearRuntime, TypeOK
  <2> QED
    BY <1>6, <2>1, <2>2, <2>3 DEF ClearRuntime, TypeOK
<1>7. ASSUME NEW r \in Run, CloseDone(r) PROVE TypeOK'
  <2>1. run' \in [Run -> RunState]
    BY <1>7, IdleTypes DEF CloseDone, TypeOK
  <2> QED
    BY <1>7, <2>1 DEF CloseDone, TypeOK
<1>8. ASSUME NEW t \in Thread, PassEnter(t) PROVE TypeOK'
  <2>1. [NoPass EXCEPT !.pc = "loop"] \in PassState
    BY IdleTypes, PassEdits
  <2>2. pass' \in [Thread -> PassState]
    BY <1>8, <2>1, IdleTypes DEF PassEnter, TypeOK
  <2>3. tryRunning' \in BOOLEAN /\ tryAgain' \in BOOLEAN
    BY <1>8 DEF PassEnter, TypeOK
  <2> QED
    BY <1>8, <2>1, <2>2, <2>3 DEF PassEnter, PassUnchanged, TypeOK
<1>9. ASSUME NEW t \in Thread, PassPick(t) PROVE TypeOK'
  <2>1. pass' \in [Thread -> PassState]
    <3> DEFINE S == Startable(pass[t].attempted)
    <3>1. CASE Full \/ S = {}
      <4>1. [NoPass EXCEPT !.pc = "exit"] \in PassState
        BY IdleTypes, PassEdits
      <4> QED
        BY <1>9, <3>1, <4>1 DEF PassPick, TypeOK
    <3>2. CASE ~(Full \/ S = {})
      <4>1. S \subseteq Job
        BY DEF Startable
      <4>2. Oldest(S) \in Job
        BY <3>2, <4>1, OldestIsMember
      <4>3. pass[t].attempted \in SUBSET Job
        BY DEF TypeOK, PassState
      <4>4. [pc |-> "start", job |-> Oldest(S),
             attempted |-> pass[t].attempted \cup {Oldest(S)}] \in PassState
        BY <4>2, <4>3 DEF PassState, Job
      <4> QED
        BY <1>9, <3>2, <4>4 DEF PassPick, TypeOK
    <3> QED
      BY <3>1, <3>2
  <2> QED
    BY <1>9, <2>1 DEF PassPick, PassUnchanged, TypeOK
<1>10. ASSUME NEW t \in Thread, PassStart(t) PROVE TypeOK'
  <2>1. run' \in [Run -> RunState] /\ rt' \in [Job -> Run \cup {None}]
    <3>1. pass[t].job \in 0..NumJobs
      BY DEF TypeOK, PassState
    <3> QED
      BY <1>10, <3>1, AcquireSlotType DEF PassStart, TypeOK
  <2>2. [NoPass EXCEPT !.pc = "exit"] \in PassState
    BY IdleTypes, PassEdits
  <2>3. pass' \in [Thread -> PassState]
    BY <1>10, <2>2, PassMoves DEF PassStart, TypeOK
  <2> QED
    BY <1>10, <2>1, <2>2, <2>3 DEF PassStart, PassUnchanged, TypeOK
<1>11. ASSUME NEW t \in Thread, PassExit(t) PROVE TypeOK'
  <2>1. [NoPass EXCEPT !.pc = "enter"] \in PassState
    BY IdleTypes, PassEdits
  <2>2. pass' \in [Thread -> PassState]
    BY <1>11, <2>1, IdleTypes DEF PassExit, TypeOK
  <2> QED
    BY <1>11, <2>1, <2>2 DEF PassExit, PassUnchanged, TypeOK
<1>12. ASSUME NEW h \in Handler, LookupRuntime(h) PROVE TypeOK'
  <2>1. th[h] \in HandlerState /\ th[h].job \in 0..NumJobs
    BY DEF TypeOK, HandlerState
  <2>2. rt[th[h].job] \in Run \cup {None}
    BY <1>12 DEF TypeOK, JobsKnown, LookupRuntime
  <2>3. th' \in [Handler \cup {Boot} -> HandlerState]
    <3>1. {"write", "final", "wait"} \subseteq HandlerPc
      BY DEF HandlerPc
    <3>2. CASE rt[th[h].job] = None
      <4>1. \A pc \in {"write", "final"} : [th[h] EXCEPT !.pc = pc] \in HandlerState
        BY <2>1, <3>1, HandlerEdits
      <4> QED
        BY <1>12, <3>2, <4>1 DEF LookupRuntime, TypeOK
    <3>3. CASE rt[th[h].job] # None
      <4>1. [th[h] EXCEPT !.pc = "wait", !.run = rt[th[h].job]] \in HandlerState
        BY <2>1, <2>2, <3>1, HandlerEdits
      <4> QED
        BY <1>12, <3>3, <4>1 DEF LookupRuntime, TypeOK
    <3> QED
      BY <3>2, <3>3
  <2>4. run' \in [Run -> RunState]
    <3>1. rt[th[h].job] \in Run => [run[rt[th[h].job]] EXCEPT !.cancelled = TRUE] \in RunState
      BY DEF TypeOK, RunState
    <3> QED
      BY <1>12, <2>2, <3>1 DEF LookupRuntime, TypeOK
  <2> QED
    BY <1>12, <2>1, <2>2, <2>3, <2>4 DEF LookupRuntime, HandlerUnchanged, TypeOK
<1>13. ASSUME NEW h \in Handler, WaitForStop(h) PROVE TypeOK'
  <2>1. "final" \in HandlerPc /\ th[h] \in HandlerState
    BY DEF TypeOK, HandlerPc
  <2>2. th' \in [Handler \cup {Boot} -> HandlerState]
    BY <1>13, <2>1, HandlerEdits, IdleTypes DEF WaitForStop, TypeOK
  <2>3. run' \in [Run -> RunState]
    BY <1>13, IdleTypes DEF WaitForStop, TypeOK
  <2> QED
    BY <1>13, <2>1, <2>2, <2>3 DEF WaitForStop, HandlerUnchanged, TypeOK
<1>14. ASSUME NEW h \in Handler, PauseWrite(h) PROVE TypeOK'
  <2>1. row' \in [Job -> Row]
    <3>1. [st |-> "paused", tries |-> th[h].tries, due |-> FALSE] \in Row
      BY DEF TypeOK, HandlerState, Row, Status
    <3> QED
      BY <1>14, <3>1, UpdateJobType DEF PauseWrite, TypeOK
  <2>2. th' \in [Handler \cup {Boot} -> HandlerState]
    BY <1>14, IdleTypes DEF PauseWrite, TypeOK
  <2> QED
    BY <1>14, <2>1, <2>2 DEF PauseWrite, HandlerUnchanged, TypeOK
<1>15. ASSUME NEW h \in Handler, Finalise(h) PROVE TypeOK'
  <2>1. th[h].job \in Job => [row[th[h].job] EXCEPT !.st = "canceled", !.due = FALSE] \in Row
    BY RowEdits DEF TypeOK, Status
  <2>2. row' \in [Job -> Row]
    BY <1>15, <2>1, UpdateJobType, IdleTypes DEF Finalise, TypeOK, UpdateStatus
  <2>3. th' \in [Handler \cup {Boot} -> HandlerState]
    BY <1>15, IdleTypes DEF Finalise, TypeOK
  <2> QED
    BY <1>15, <2>1, <2>2, <2>3 DEF Finalise, HandlerUnchanged, TypeOK
<1>16. ASSUME NEW h \in Handler, Requeue(h) PROVE TypeOK'
  <2>1. row' \in [Job -> Row]
    <3>1. [st |-> "queued", tries |-> th[h].tries, due |-> FALSE] \in Row
      BY DEF TypeOK, HandlerState, Row, Status
    <3> QED
      BY <1>16, <3>1, UpdateJobType DEF Requeue, TypeOK
  <2>2. "start" \in HandlerPc /\ th[h] \in HandlerState
    BY DEF TypeOK, HandlerPc
  <2>3. th' \in [Handler \cup {Boot} -> HandlerState]
    <3>1. [th[h] EXCEPT !.pc = "start"] \in HandlerState
      BY <2>2, HandlerEdits
    <3> QED
      BY <1>16, <3>1, IdleTypes DEF Requeue, TypeOK
  <2> QED
    BY <1>16, <2>1, <2>2, <2>3 DEF Requeue, HandlerUnchanged, TypeOK
<1>17. ASSUME NEW h \in Handler, SettingsApplied(h) PROVE TypeOK'
  <2>1. th' \in [Handler \cup {Boot} -> HandlerState]
    BY <1>17, IdleTypes DEF SettingsApplied, TypeOK
  <2> QED
    BY <1>17, <2>1 DEF SettingsApplied, HandlerUnchanged, TypeOK
<1>18. ASSUME NEW h \in Handler, NEW j \in Job,
              Pause(h, j) \/ Resume(h, j) \/ Retry(h, j) \/ Cancel(h, j) \/ Remove(h, j)
       PROVE  TypeOK'
  <2>1. PICK op \in Op, pc \in HandlerPc, allowed \in SUBSET Status : Request(h, op, pc, j, allowed)
    <3>1. CASE Pause(h, j)
      BY <3>1 DEF Pause, Op, HandlerPc, Status
    <3>2. CASE Resume(h, j)
      BY <3>2 DEF Resume, Op, HandlerPc, Status
    <3>3. CASE Retry(h, j)
      BY <3>3 DEF Retry, Stopped, Op, HandlerPc, Status
    <3>4. CASE Cancel(h, j)
      BY <3>4 DEF Cancel, Op, HandlerPc
    <3>5. CASE Remove(h, j)
      BY <3>5 DEF Remove, Op, HandlerPc
    <3> QED
      BY <1>18, <3>1, <3>2, <3>3, <3>4, <3>5
  <2>2. th' \in [Handler \cup {Boot} -> HandlerState]
    BY <2>1, CallType DEF Request
  <2>3. ops' \in 0..MaxOps
    BY <2>1, SchedulerAssumption DEF Request, TypeOK, SchedulerAssumption
  <2> QED
    BY <1>18, <2>1, <2>2, <2>3 DEF Request, HandlerUnchanged, TypeOK
<1>19. ASSUME NEW h \in Handler, Add(h) PROVE TypeOK'
  <2>1. created + 1 \in Job /\ created + 1 \in 0..NumJobs
    BY <1>19, SchedulerAssumption DEF Add, TypeOK, Job, SchedulerAssumption
  <2>2. [st |-> "queued", tries |-> 0, due |-> FALSE] \in Row
    BY SchedulerAssumption DEF Row, Status, SchedulerAssumption
  <2>3. row' \in [Job -> Row]
    BY <1>19, <2>2 DEF Add, TypeOK
  <2>4. th' \in [Handler \cup {Boot} -> HandlerState]
    BY <1>19, <2>1, GoType DEF Add, TypeOK, Op
  <2>5. ops' \in 0..MaxOps
    BY <1>19, SchedulerAssumption DEF Add, TypeOK, SchedulerAssumption
  <2> QED
    BY <1>19, <2>1, <2>2, <2>3, <2>4, <2>5 DEF Add, HandlerUnchanged, TypeOK
<1>20. ASSUME NEW h \in Handler, NEW c \in CapSet, ApplySettings(h, c) PROVE TypeOK'
  <2>1. [Idle EXCEPT !.pc = "settings", !.op = "settings"] \in HandlerState
    BY IdleTypes DEF HandlerState, HandlerPc, Op
  <2>2. th' \in [Handler \cup {Boot} -> HandlerState]
    BY <1>20, <2>1 DEF ApplySettings, TypeOK
  <2>3. pass' \in [Thread -> PassState]
    BY <1>20, PassEdits DEF ApplySettings, TypeOK
  <2>4. ops' \in 0..MaxOps
    BY <1>20, SchedulerAssumption DEF ApplySettings, TypeOK, SchedulerAssumption
  <2> QED
    BY <1>20, <2>1, <2>2, <2>3, <2>4 DEF ApplySettings, TypeOK
<1>21. ASSUME NEW t \in Handler \cup {Boot}, Start(t) PROVE TypeOK'
  <2>1. run' \in [Run -> RunState] /\ rt' \in [Job -> Run \cup {None}]
    <3>1. th[t].job \in 0..NumJobs /\ t \in Thread
      BY DEF TypeOK, HandlerState, Thread
    <3> QED
      BY <1>21, <3>1, AcquireSlotType DEF Start, TypeOK
  <2>2. "starting" \in HandlerPc
    BY DEF HandlerPc
  <2>3. th' \in [Handler \cup {Boot} -> HandlerState]
    <3>1. [th[t] EXCEPT !.pc = "starting"] \in HandlerState
      BY <2>2, HandlerEdits DEF TypeOK
    <3> QED
      BY <1>21, <3>1, IdleTypes DEF Start, TypeOK
  <2> QED
    BY <1>21, <2>1, <2>2, <2>3 DEF Start, HandlerUnchanged, TypeOK
<1>22. ASSUME NEW h \in Handler, NEW j \in Job, TimerFires(h, j) PROVE TypeOK'
  <2>1. th' \in [Handler \cup {Boot} -> HandlerState]
    BY <1>22, CallType DEF TimerFires, TypeOK, Op, HandlerPc
  <2>2. timers' \in [Job -> Nat]
    <3>1. timers[j] - 1 \in Nat
      BY <1>22 DEF TimerFires, TypeOK
    <3> QED
      BY <1>22, <3>1 DEF TimerFires, TypeOK
  <2> QED
    BY <1>22, <2>1, <2>2 DEF TimerFires, HandlerUnchanged, TypeOK
<1>23. ASSUME Dies PROVE TypeOK'
  <2>1. rt' \in [Job -> Run \cup {None}] /\ run' \in [Run -> RunState]
    BY <1>23, IdleTypes DEF Dies
  <2>2. th' \in [Handler \cup {Boot} -> HandlerState] /\ pass' \in [Thread -> PassState]
    BY <1>23, IdleTypes DEF Dies
  <2>3. timers' \in [Job -> Nat] /\ bootRows' \in [Job -> Row]
    BY <1>23, IdleTypes DEF Dies
  <2>4. /\ up' \in {"down", "booting", "serving"}
        /\ tryRunning' \in BOOLEAN /\ tryAgain' \in BOOLEAN
        /\ bootTodo' \subseteq Job
    BY <1>23 DEF Dies
  <2>5. deaths' \in Nat
    <3>1. deaths \in Nat
      BY DEF TypeOK
    <3> QED
      BY <1>23, <3>1 DEF Dies
  <2> QED
    BY <1>23, <2>1, <2>2, <2>3, <2>4, <2>5 DEF Dies, TypeOK
<1>24. ASSUME BootNext PROVE TypeOK'
  <2>1. PICK j \in Job : /\ bootTodo' = bootTodo \ {j}
         /\ \/ th' = th
            \/ th' = [th EXCEPT ![Boot] = [Idle EXCEPT !.pc = "start", !.op = "boot", !.job = j]]
         /\ \/ row' = row
            \/ row' = UpdateJob(row, j, [bootRows[j] EXCEPT !.st = "queued"])
    <3>1. Oldest(bootTodo) \in Job
      BY <1>24, OldestIsMember DEF BootNext, TypeOK
    <3> QED
      BY <1>24, <3>1 DEF BootNext
  <2>2. [Idle EXCEPT !.pc = "start", !.op = "boot", !.job = j] \in HandlerState
    <3>1. j \in 0..NumJobs /\ "boot" \in Op
      BY SchedulerAssumption DEF Op, Job, SchedulerAssumption
    <3> QED
      BY <3>1, GoType
  <2>3. th' \in [Handler \cup {Boot} -> HandlerState]
    BY <2>1, <2>2 DEF TypeOK
  <2>4. [bootRows[j] EXCEPT !.st = "queued"] \in Row
    BY RowEdits DEF TypeOK, Status
  <2>5. row' \in [Job -> Row]
    BY <2>1, <2>4, UpdateJobType DEF TypeOK
  <2> QED
    BY <1>24, <2>1, <2>2, <2>3, <2>4, <2>5 DEF BootNext, TypeOK
<1>25. ASSUME BootDone PROVE TypeOK'
  <2>1. bootRows' \in [Job -> Row]
    BY <1>25, IdleTypes DEF BootDone
  <2> QED
    BY <1>25, <2>1 DEF BootDone, TypeOK
<1>26. ASSUME Restart PROVE TypeOK'
  BY <1>26 DEF Restart, TypeOK
<1>27. CASE UNCHANGED vars
  BY <1>27 DEF vars, stateVars, TypeOK
<1> QED
  BY <1>1, <1>2, <1>3, <1>4, <1>5, <1>6, <1>7, <1>8, <1>9, <1>10, <1>11, <1>12, <1>13, <1>14,
     <1>15, <1>16, <1>17, <1>18, <1>19, <1>20, <1>21, <1>22, <1>23, <1>24, <1>25, <1>26, <1>27
  DEF Next, RunStep, PassStep, HandlerStep, NewRequest, BootStep, NilCancel, Crash

-----------------------------------------------------------------------------
(* Who knows of which job *)

LEMMA JobsInit == Init => JobsKnown
BY DEF Init, JobsKnown, Idle, NoPass

\* What start's caller goes back to: idle, or the loop of its pass.
LEMMA ReturnFromStartJobs ==
  ASSUME TypeOK, JobsKnown, NEW t, NEW nested, ReturnFromStart(t, nested)
  PROVE  JobsKnown'
<1>1. CASE nested
  <2>1. /\ pass' = [pass EXCEPT ![t] = [pass[t] EXCEPT !.pc = "loop", !.job = 0]]
        /\ UNCHANGED th
    BY <1>1 DEF ReturnFromStart
  <2>2. ASSUME NEW p \in PassState PROVE [p EXCEPT !.pc = "loop", !.job = 0].pc = "loop"
    BY DEF PassState
  <2>3. ASSUME NEW u \in Thread, pass'[u].pc \in {"start", "starting"} PROVE pass'[u].job \in Job
    <3>1. pass[u] \in PassState /\ pass \in [Thread -> PassState]
      BY DEF TypeOK
    <3>2. u # t
      BY <2>1, <2>2, <2>3, <3>1
    <3> QED
      BY <2>1, <2>3, <3>1, <3>2 DEF JobsKnown
  <2> QED
    BY <2>1, <2>3 DEF JobsKnown
<1>2. CASE ~nested
  BY <1>2 DEF ReturnFromStart, JobsKnown, TypeOK, Idle
<1> QED
  BY <1>1, <1>2

LEMMA JobsStep == TypeOK /\ JobsKnown /\ [Next]_vars => JobsKnown'
<1> SUFFICES ASSUME TypeOK, JobsKnown, [Next]_vars PROVE JobsKnown'
  OBVIOUS
<1>1. ASSUME UNCHANGED <<th, pass>> PROVE JobsKnown'
  BY <1>1 DEF JobsKnown
<1>2. ASSUME NEW r \in Run, MarkActive(r) \/ FailFinish(r) PROVE JobsKnown'
  BY <1>2, ReturnFromStartJobs DEF MarkActive, FailFinish
<1>3. ASSUME NEW r \in Run, StartFails(r) \/ ClearRuntime(r) PROVE JobsKnown'
  BY <1>3 DEF StartFails, ClearRuntime, JobsKnown, TypeOK, PassState
<1>4. ASSUME NEW t \in Thread, PassEnter(t) \/ PassExit(t) PROVE JobsKnown'
  BY <1>4 DEF PassEnter, PassExit, PassUnchanged, JobsKnown, TypeOK, NoPass
<1>5. ASSUME NEW t \in Thread, PassPick(t) PROVE JobsKnown'
  <2> DEFINE S == Startable(pass[t].attempted)
  <2>1. S # {} => Oldest(S) \in Job
    BY OldestIsMember DEF Startable
  <2> HIDE DEF S
  <2>2. \/ pass' = [pass EXCEPT ![t] = [NoPass EXCEPT !.pc = "exit"]]
        \/ /\ S # {}
           /\ pass' = [pass EXCEPT ![t] = [pc |-> "start", job |-> Oldest(S),
                                           attempted |-> @.attempted \cup {Oldest(S)}]]
    BY <1>5 DEF PassPick, S
  <2> QED
    BY <1>5, <2>1, <2>2 DEF PassPick, PassUnchanged, JobsKnown, TypeOK, NoPass
<1>6. ASSUME NEW t \in Thread, PassStart(t) PROVE JobsKnown'
  <2>1. CASE pass' = [pass EXCEPT ![t].pc = "starting"]
    <3>1. pass[t].pc = "start" /\ UNCHANGED th
      BY <1>6 DEF PassStart, PassUnchanged
    <3> QED
      BY <2>1, <3>1 DEF JobsKnown, TypeOK, PassState
  <2>2. CASE pass' = [pass EXCEPT ![t] = [NoPass EXCEPT !.pc = "exit"]]
    BY <1>6, <2>2 DEF PassStart, PassUnchanged, JobsKnown, TypeOK, NoPass
  <2> QED
    BY <1>6, <2>1, <2>2 DEF PassStart
<1>7. ASSUME NEW h \in Handler, NEW j \in Job, NEW op, NEW pc, Call(h, op, pc, j), UNCHANGED pass
      PROVE  JobsKnown'
  BY <1>7 DEF Call, JobsKnown, TypeOK
<1>8. ASSUME NEW h \in Handler, NEW j \in Job,
             Pause(h, j) \/ Resume(h, j) \/ Retry(h, j) \/ Cancel(h, j) \/ Remove(h, j)
             \/ TimerFires(h, j)
      PROVE  JobsKnown'
  BY <1>1, <1>7, <1>8 DEF Pause, Resume, Retry, Cancel, Remove, Request, TimerFires
<1>9. ASSUME NEW h \in Handler, Add(h) PROVE JobsKnown'
  <2>1. created + 1 \in Job
    BY <1>9, SchedulerAssumption DEF Add, TypeOK, Job, SchedulerAssumption
  <2> QED
    BY <1>9, <2>1 DEF Add, JobsKnown, TypeOK, Idle
<1>10. ASSUME NEW h \in Handler, NEW c \in CapSet, ApplySettings(h, c) PROVE JobsKnown'
  BY <1>10 DEF ApplySettings, JobsKnown, TypeOK, Idle
<1>11. ASSUME NEW h \in Handler,
              LookupRuntime(h) \/ WaitForStop(h) \/ PauseWrite(h) \/ Finalise(h)
              \/ Requeue(h) \/ SettingsApplied(h)
       PROVE  JobsKnown'
  <2>1. CASE LookupRuntime(h)
    BY <2>1 DEF LookupRuntime, HandlerUnchanged, JobsKnown, TypeOK, HandlerState
  <2>2. CASE WaitForStop(h)
    BY <2>2 DEF WaitForStop, HandlerUnchanged, JobsKnown, TypeOK, HandlerState, Idle
  <2>3. CASE Requeue(h)
    BY <2>3 DEF Requeue, HandlerUnchanged, JobsKnown, TypeOK, HandlerState, Idle
  <2>4. CASE PauseWrite(h) \/ Finalise(h) \/ SettingsApplied(h)
    BY <2>4 DEF PauseWrite, Finalise, SettingsApplied, JobsKnown, TypeOK, Idle
  <2> QED
    BY <1>11, <2>1, <2>2, <2>3, <2>4
<1>12. ASSUME NEW t \in Handler \cup {Boot}, Start(t) PROVE JobsKnown'
  <2>1. th[t].pc = "start" /\ UNCHANGED pass
    BY <1>12 DEF Start
  <2>2. CASE th' = [th EXCEPT ![t].pc = "starting"]
    BY <2>1, <2>2 DEF JobsKnown, TypeOK, HandlerState
  <2>3. CASE th' = [th EXCEPT ![t] = Idle]
    BY <2>1, <2>3 DEF JobsKnown, TypeOK, Idle
  <2> QED
    BY <1>12, <2>2, <2>3 DEF Start
<1>13. ASSUME Dies PROVE JobsKnown'
  BY <1>13 DEF Dies, JobsKnown, Idle, NoPass
<1>14. ASSUME BootNext PROVE JobsKnown'
  <2>1. Oldest(bootTodo) \in Job
    BY <1>14, OldestIsMember DEF BootNext, TypeOK
  <2> QED
    BY <1>14, <2>1 DEF BootNext, JobsKnown, TypeOK, Idle
<1>15. ASSUME NEW r \in Run, SetRuntime(r) \/ WorkEnds(r) \/ CloseDone(r)
       PROVE  UNCHANGED <<th, pass>>
  BY <1>15 DEF SetRuntime, WorkEnds, CloseDone
<1>16. BootDone \/ Restart \/ UNCHANGED vars => UNCHANGED <<th, pass>>
  BY DEF BootDone, Restart, vars, stateVars
<1> QED
  BY <1>1, <1>2, <1>3, <1>4, <1>5, <1>6, <1>8, <1>9, <1>10, <1>11, <1>12, <1>13, <1>14,
     <1>15, <1>16
  DEF Next, RunStep, PassStep, HandlerStep, NewRequest, BootStep, NilCancel, Crash

\* Every variable keeps its type, in every behaviour of the queue, whatever
\* the number of jobs, goroutines and requests (Scheduler's TypeOK).
THEOREM SchedulerTypes == Spec => []TypeOK
<1>1. Init => TypeOK /\ JobsKnown
  BY TypeInit, JobsInit
<1>2. TypeOK /\ JobsKnown /\ [Next]_vars => (TypeOK /\ JobsKnown)'
  BY TypeStep, JobsStep
<1> QED
  BY <1>1, <1>2, PTL DEF Spec

-----------------------------------------------------------------------------
(* The map of runtimes *)

\* acquireSlot takes a free slot for a job that has none, with a fresh struct.
LEMMA SlotTaken ==
  ASSUME TypeOK, SlotInv, NEW t \in Thread, NEW j \in Job, NEW nested \in BOOLEAN,
         AcquireSlot(t, j, nested)
  PROVE  /\ SlotInv'
         /\ \E r \in Run, s \in RunState :
              /\ run[r].phase = "closed" /\ run' = [run EXCEPT ![r] = s]
              /\ s.phase = "placeholder" /\ s.by = t /\ s.nested = nested
<1>1. PICK r \in Unused :
        /\ run' = [run EXCEPT ![r] = [NoRun EXCEPT !.phase = "placeholder", !.job = j,
                                                  !.by = t, !.nested = nested]]
        /\ rt' = [rt EXCEPT ![j] = r]
  BY DEF AcquireSlot
<1>2. r \in Run /\ run[r].phase = "closed" /\ rt[j] = None
  BY DEF Unused, AcquireSlot
<1>3. run'[r].phase = "placeholder" /\ run'[r].job = j /\ rt'[j] = r
  BY <1>1, <1>2 DEF TypeOK, NoRun
<1>4. \A s \in Run \ {r} : run'[s] = run[s]
  BY <1>1 DEF TypeOK
<1>5. r # None /\ \A k \in Job : rt[k] \in Run \cup {None}
  BY <1>2, SchedulerAssumption DEF SchedulerAssumption, TypeOK
<1>6. \A k \in Job \ {j} : rt'[k] = rt[k] /\ rt[k] # r
  BY <1>1, <1>2, <1>5 DEF TypeOK, SlotInv, Live
<1>7. ASSUME NEW k \in Job, rt'[k] # None
      PROVE  run'[rt'[k]].job = k /\ run'[rt'[k]].phase \in Live
  BY <1>3, <1>4, <1>5, <1>6, <1>7 DEF SlotInv, Live
<1>8. ASSUME NEW s \in Run, run'[s].phase \in Live
      PROVE  run'[s].job \in Job /\ rt'[run'[s].job] = s
  <2>1. CASE s = r
    BY <1>3, <2>1
  <2>2. CASE s # r
    <3>1. run[s].job \in Job /\ rt[run[s].job] = s
      BY <1>4, <1>8, <2>2 DEF SlotInv
    <3>2. run[s].job # j
      BY <1>2, <1>5, <3>1, SchedulerAssumption DEF SchedulerAssumption
    <3> QED
      BY <1>4, <1>6, <2>2, <3>1, <3>2
  <2> QED
    BY <2>1, <2>2
<1>9. SlotInv'
  BY <1>7, <1>8 DEF SlotInv
<1>10. \E q \in Run, s \in RunState :
         /\ run[q].phase = "closed" /\ run' = [run EXCEPT ![q] = s]
         /\ s.phase = "placeholder" /\ s.by = t /\ s.nested = nested
  <2> DEFINE s == [NoRun EXCEPT !.phase = "placeholder", !.job = j, !.by = t, !.nested = nested]
  <2>1. s.phase = "placeholder" /\ s.by = t /\ s.nested = nested
    BY DEF NoRun
  <2>2. s \in RunState
    <3>1. j \in 0..NumJobs
      BY DEF Job
    <3> QED
      BY <3>1 DEF NoRun, RunState, Phase
  <2>3. run' = [run EXCEPT ![r] = s]
    BY <1>1
  <2> HIDE DEF s
  <2> QED
    BY <1>2, <2>1, <2>2, <2>3
<1> QED
  BY <1>9, <1>10

\* A struct changes, its job does not, and it stays in or out of the map.
LEMMA SlotKept ==
  ASSUME TypeOK, SlotInv, NEW r \in Run, NEW s,
         run' = [run EXCEPT ![r] = s], UNCHANGED rt,
         run[r].phase \in Live <=> s.phase \in Live,
         s.phase \in Live => s.job = run[r].job
  PROVE  SlotInv'
BY DEF SlotInv, TypeOK

\* clearRuntime takes out the entry that stands for the struct.
LEMMA SlotGivenBack ==
  ASSUME TypeOK, SlotInv, NEW r \in Run, NEW s,
         run' = [run EXCEPT ![r] = s], rt' = [rt EXCEPT ![run[r].job] = None],
         run[r].phase \in Live, s.phase \notin Live
  PROVE  SlotInv'
BY DEF SlotInv, TypeOK

LEMMA SlotInit == Init => SlotInv
BY DEF Init, SlotInv, NoRun, Live

LEMMA SlotStep == TypeOK /\ JobsKnown /\ SlotInv /\ [Next]_vars => SlotInv'
<1> SUFFICES ASSUME TypeOK, JobsKnown, SlotInv, [Next]_vars PROVE SlotInv'
  OBVIOUS
<1>1. ASSUME UNCHANGED <<rt, run>> PROVE SlotInv'
  BY <1>1 DEF SlotInv
<1>2. ASSUME NEW r \in Run, SetRuntime(r) PROVE SlotInv'
  BY <1>2, SlotKept DEF SetRuntime, TypeOK, RunState, Live
<1>3. ASSUME NEW r \in Run, MarkActive(r) PROVE SlotInv'
  <2> DEFINE s == [run[r] EXCEPT !.phase = "working", !.by = None, !.nested = FALSE]
  <2>1. s.phase = "working" /\ s.job = run[r].job
    BY DEF TypeOK, RunState
  <2>2. run[r].phase = "registered" /\ run' = [run EXCEPT ![r] = s] /\ UNCHANGED rt
    BY <1>3 DEF MarkActive
  <2> HIDE DEF s
  <2> QED
    BY <2>1, <2>2, SlotKept DEF Live
<1>4. ASSUME NEW r \in Run, StartFails(r) PROVE SlotInv'
  <2> DEFINE s == [run[r] EXCEPT !.phase = "failing"]
  <2>1. s.phase = "failing"
    BY DEF TypeOK, RunState
  <2>2. /\ run[r].phase \in {"placeholder", "registered"}
        /\ run' = [run EXCEPT ![r] = s] /\ rt' = [rt EXCEPT ![run[r].job] = None]
    BY <1>4 DEF StartFails
  <2> HIDE DEF s
  <2> QED
    BY <2>1, <2>2, SlotGivenBack DEF Live
<1>5. ASSUME NEW r \in Run, FailFinish(r) PROVE SlotInv'
  BY <1>5, SlotKept DEF FailFinish, TypeOK, NoRun, Live
<1>6. ASSUME NEW r \in Run, WorkEnds(r) PROVE SlotInv'
  <2> DEFINE s == [run[r] EXCEPT !.phase = "finished", !.cancelled = FALSE]
  <2>1. s.phase = "finished" /\ s.job = run[r].job
    BY DEF TypeOK, RunState
  <2>2. run[r].phase = "working" /\ run' = [run EXCEPT ![r] = s] /\ UNCHANGED rt
    BY <1>6 DEF WorkEnds
  <2> HIDE DEF s
  <2> QED
    BY <2>1, <2>2, SlotKept DEF Live
<1>7. ASSUME NEW r \in Run, ClearRuntime(r) PROVE SlotInv'
  BY <1>7, SlotGivenBack DEF ClearRuntime, TypeOK, RunState, Live
<1>8. ASSUME NEW r \in Run, CloseDone(r) PROVE SlotInv'
  BY <1>8, SlotKept DEF CloseDone, NoRun, Live
<1>9. ASSUME NEW t \in Thread, PassStart(t) PROVE SlotInv'
  <2>1. pass[t].job \in Job
    BY <1>9 DEF PassStart, JobsKnown
  <2> QED
    BY <1>1, <1>9, <2>1, SlotTaken DEF PassStart
<1>10. ASSUME NEW t \in Handler \cup {Boot}, Start(t) PROVE SlotInv'
  <2>1. th[t].job \in Job
    BY <1>10 DEF Start, JobsKnown
  <2> QED
    BY <1>1, <1>10, <2>1, SlotTaken DEF Start, Thread
<1>11. ASSUME NEW h \in Handler, LookupRuntime(h) PROVE SlotInv'
  <2>1. CASE rt[th[h].job] = None
    BY <1>1, <1>11, <2>1 DEF LookupRuntime, HandlerUnchanged
  <2>2. CASE rt[th[h].job] # None
    <3> DEFINE r == rt[th[h].job]
    <3>1. r \in Run
      BY <1>11, <2>2 DEF LookupRuntime, JobsKnown, TypeOK
    <3>2. run' = [run EXCEPT ![r] = [run[r] EXCEPT !.cancelled = TRUE]] /\ UNCHANGED rt
      BY <1>11, <2>2 DEF LookupRuntime, HandlerUnchanged
    <3>3. /\ [run[r] EXCEPT !.cancelled = TRUE].phase = run[r].phase
          /\ [run[r] EXCEPT !.cancelled = TRUE].job = run[r].job
      BY <3>1 DEF TypeOK, RunState
    <3> HIDE DEF r
    <3> QED
      BY <3>1, <3>2, <3>3, SlotKept
  <2> QED
    BY <2>1, <2>2
<1>12. ASSUME NEW h \in Handler, WaitForStop(h) PROVE SlotInv'
  <2> DEFINE r == th[h].run
  <2>1. UNCHANGED rt
    BY <1>12 DEF WaitForStop, HandlerUnchanged
  <2>2. CASE UNCHANGED run
    BY <1>1, <2>1, <2>2
  <2>3. CASE run[r].phase = "abandoned" /\ run' = [run EXCEPT ![r] = NoRun]
    <3>1. CASE r \in Run
      BY <2>1, <2>3, <3>1, SlotKept DEF NoRun, Live
    <3>2. CASE r \notin Run
      BY <1>1, <2>1, <2>3, <3>2 DEF TypeOK
    <3> QED
      BY <3>1, <3>2
  <2> QED
    BY <1>12, <2>2, <2>3 DEF WaitForStop
<1>13. ASSUME Dies PROVE SlotInv'
  BY <1>13 DEF Dies, SlotInv, NoRun, Live
<1>14. ASSUME NEW t \in Thread, PassEnter(t) \/ PassPick(t) \/ PassExit(t)
       PROVE  UNCHANGED <<rt, run>>
  BY <1>14 DEF PassEnter, PassPick, PassExit
<1>15. ASSUME NEW h \in Handler, PauseWrite(h) \/ Finalise(h) \/ Requeue(h) \/ SettingsApplied(h)
       PROVE  UNCHANGED <<rt, run>>
  BY <1>15 DEF PauseWrite, Finalise, Requeue, SettingsApplied
<1>16. ASSUME NEW h \in Handler, NewRequest(h) \/ \E j \in Job : TimerFires(h, j)
       PROVE  UNCHANGED <<rt, run>>
  BY <1>16 DEF NewRequest, Pause, Resume, Retry, Cancel, Remove, Request, Add, ApplySettings,
               TimerFires
<1>17. BootNext \/ BootDone \/ Restart \/ UNCHANGED vars => UNCHANGED <<rt, run>>
  BY DEF BootNext, BootDone, Restart, vars, stateVars
<1> QED
  BY <1>1, <1>2, <1>3, <1>4, <1>5, <1>6, <1>7, <1>8, <1>9, <1>10, <1>11, <1>12, <1>13, <1>14,
     <1>15, <1>16, <1>17
  DEF Next, RunStep, PassStep, HandlerStep, BootStep, NilCancel, Crash

\* No job is ever downloaded by two workers, and each worker can be reached
\* through d.runtimes to be cancelled (OneWorkerPerJob), with any limit on
\* slots and any interleaving of starts, ends, requests, failures and deaths.
THEOREM SchedulerOneWorker == Spec => []OneWorkerPerJob
<1>1. Init => TypeOK /\ JobsKnown /\ SlotInv
  BY TypeInit, JobsInit, SlotInit
<1>2. TypeOK /\ JobsKnown /\ SlotInv /\ [Next]_vars => (TypeOK /\ JobsKnown /\ SlotInv)'
  BY TypeStep, JobsStep, SlotStep
<1>3. SlotInv => OneWorkerPerJob
  BY DEF SlotInv, OneWorkerPerJob, Live
<1> QED
  BY <1>1, <1>2, <1>3, PTL DEF Spec

-----------------------------------------------------------------------------
(* The queue implements the slot pool *)

LEMMA PoolInit == Init => Pool!PoolInit
<1> SUFFICES ASSUME Init PROVE Pool!PoolInit
  OBVIOUS
<1>1. cap \in Nat
  BY SchedulerAssumption DEF SchedulerAssumption, Init
<1>2. Running = {}
  BY DEF Init, Running
<1>3. \A j \in Job : WorkersOn(j) = {}
  BY DEF Init, WorkersOn, NoRun
<1> QED
  BY <1>1, <1>2, <1>3 DEF Pool!PoolInit

\* Who works is a matter of the structs' phases alone.
LEMMA WorkersKept ==
  ASSUME \A r \in Run : /\ run'[r].phase = "working" <=> run[r].phase = "working"
                        /\ run[r].phase = "working" => run'[r].job = run[r].job
  PROVE  [j \in Job |-> WorkersOn(j)]' = [j \in Job |-> WorkersOn(j)]
BY DEF WorkersOn

LEMMA OthersKept ==
  ASSUME TypeOK, NEW r \in Run, NEW s, run' = [run EXCEPT ![r] = s],
         run[r].phase # "working", s.phase # "working"
  PROVE  [j \in Job |-> WorkersOn(j)]' = [j \in Job |-> WorkersOn(j)]
<1>1. \A q \in Run : run'[q] = IF q = r THEN s ELSE run[q]
  BY DEF TypeOK
<1> QED
  BY <1>1, WorkersKept

\* A job's worker is the struct its entry is, or there is none.
LEMMA WorkersOnEntry ==
  ASSUME SlotInv, NEW r \in Run, run[r].phase \in Live
  PROVE  WorkersOn(run[r].job) = IF run[r].phase = "working" THEN {r} ELSE {}
BY DEF SlotInv, WorkersOn, Live

LEMMA StartReserves ==
  ASSUME TypeOK, SlotInv, NEW t \in Thread, NEW j \in Job, NEW nested \in BOOLEAN,
         AcquireSlot(t, j, nested), UNCHANGED cap
  PROVE  Pool!Reserve(j)
<1>1. j \notin Running
  BY DEF AcquireSlot, Running
<1>2. cap = 0 \/ Cardinality(Running) < cap
  <2>1. IsFiniteSet(Job)
    BY FS_Interval, SchedulerAssumption DEF Job, SchedulerAssumption
  <2>2. Running \in SUBSET Job
    BY DEF Running
  <2>3. Cardinality(Running) \in Nat
    BY <2>1, <2>2, FS_Subset, FS_CardinalityType
  <2>4. cap \in Nat
    BY SchedulerAssumption DEF TypeOK, SchedulerAssumption
  <2> QED
    BY <2>3, <2>4 DEF AcquireSlot, Full
<1>3. Running' = Running \cup {j}
  <2>1. PICK r \in Unused : rt' = [rt EXCEPT ![j] = r]
    BY DEF AcquireSlot
  <2>2. r # None
    BY SchedulerAssumption DEF SchedulerAssumption, Unused
  <2> QED
    BY <2>1, <2>2 DEF Running, TypeOK
<1>4. [k \in Job |-> WorkersOn(k)]' = [k \in Job |-> WorkersOn(k)]
  <2>1. PICK r \in Run, s \in RunState :
          /\ run[r].phase = "closed" /\ run' = [run EXCEPT ![r] = s]
          /\ s.phase = "placeholder"
    BY SlotTaken
  <2> QED
    BY <2>1, OthersKept
<1> QED
  BY <1>1, <1>2, <1>3, <1>4 DEF Pool!Reserve, Pool!Cardinality, Cardinality

LEMMA ClearReleases ==
  ASSUME TypeOK, SlotInv, NEW r \in Run, NEW s,
         run' = [run EXCEPT ![r] = s], rt' = [rt EXCEPT ![run[r].job] = None], UNCHANGED cap,
         run[r].phase \in Live \ {"working"}, s.phase # "working"
  PROVE  Pool!Release(run[r].job) /\ run[r].job \in Job
<1>1. run[r].job \in Job /\ rt[run[r].job] = r
  BY DEF SlotInv
<1>2. run[r].job \in Running
  BY <1>1, SchedulerAssumption DEF Running, SchedulerAssumption
<1>3. Running' = Running \ {run[r].job}
  BY <1>1 DEF Running, TypeOK
<1>4. WorkersOn(run[r].job) = {}
  BY WorkersOnEntry
<1>5. [k \in Job |-> WorkersOn(k)]' = [k \in Job |-> WorkersOn(k)]
  BY OthersKept
<1> QED
  BY <1>1, <1>2, <1>3, <1>4, <1>5 DEF Pool!Release

\* One step of the queue is one step of the pool, or none.
LEMMA PoolStep ==
  TypeOK /\ JobsKnown /\ SlotInv /\ [Next]_vars => [Pool!PoolNext]_(Pool!poolVars)
<1> DEFINE working == [j \in Job |-> WorkersOn(j)]
<1> SUFFICES ASSUME TypeOK, JobsKnown, SlotInv, [Next]_vars
             PROVE  [Pool!PoolNext]_(Pool!poolVars)
  OBVIOUS
<1> HIDE DEF working
<1>1. ASSUME UNCHANGED <<cap, rt>>, working' = working PROVE [Pool!PoolNext]_(Pool!poolVars)
  BY <1>1 DEF Pool!poolVars, Running, working
<1>2. ASSUME NEW r \in Run, MarkActive(r) PROVE [Pool!PoolNext]_(Pool!poolVars)
  <2> DEFINE s == [run[r] EXCEPT !.phase = "working", !.by = None, !.nested = FALSE]
             k == run[r].job
  <2>1. s.phase = "working" /\ s.job = k
    BY DEF TypeOK, RunState
  <2>2. /\ run[r].phase = "registered" /\ run' = [run EXCEPT ![r] = s]
        /\ UNCHANGED <<rt, cap>>
    BY <1>2 DEF MarkActive
  <2>3. k \in Job /\ k \in Running /\ WorkersOn(k) = {}
    <3>1. run[r].phase \in Live /\ run[r].phase # "working"
      BY <2>2 DEF Live
    <3>2. k \in Job /\ rt[k] = r
      BY <3>1 DEF SlotInv
    <3>3. WorkersOn(k) = {}
      BY <3>1, WorkersOnEntry
    <3> QED
      BY <3>2, <3>3, SchedulerAssumption DEF Running, SchedulerAssumption
  <2>4. Running' = Running
    BY <2>2 DEF Running
  <2>5. \A q \in Run : run'[q] = IF q = r THEN s ELSE run[q]
    BY <2>2 DEF TypeOK
  <2> HIDE DEF s
  <2>6. \A j \in Job : WorkersOn(j)' = IF j = k THEN {r} ELSE WorkersOn(j)
    BY <2>1, <2>2, <2>3, <2>5 DEF WorkersOn
  <2>7. [j \in Job |-> WorkersOn(j)]' = [[j \in Job |-> WorkersOn(j)] EXCEPT ![k] = {r}]
    BY <2>3, <2>6
  <2>8. Pool!Begin(k, r)
    BY <2>2, <2>3, <2>4, <2>7 DEF Pool!Begin
  <2> QED
    BY <2>3, <2>8 DEF Pool!PoolNext
<1>3. ASSUME NEW r \in Run, WorkEnds(r) PROVE [Pool!PoolNext]_(Pool!poolVars)
  <2> DEFINE s == [run[r] EXCEPT !.phase = "finished", !.cancelled = FALSE]
             k == run[r].job
  <2>1. s.phase = "finished"
    BY DEF TypeOK, RunState
  <2>2. /\ run[r].phase = "working" /\ run' = [run EXCEPT ![r] = s]
        /\ UNCHANGED <<rt, cap>>
    BY <1>3 DEF WorkEnds
  <2>3. k \in Job /\ WorkersOn(k) = {r}
    BY <2>2, WorkersOnEntry DEF SlotInv, Live
  <2>4. Running' = Running
    BY <2>2 DEF Running
  <2>5. \A q \in Run : run'[q] = IF q = r THEN s ELSE run[q]
    BY <2>2 DEF TypeOK
  <2> HIDE DEF s
  <2>6. \A j \in Job : WorkersOn(j)' = IF j = k THEN {} ELSE WorkersOn(j)
    BY <2>1, <2>2, <2>3, <2>5 DEF WorkersOn
  <2>7. [j \in Job |-> WorkersOn(j)]' = [[j \in Job |-> WorkersOn(j)] EXCEPT ![k] = {}]
    BY <2>3, <2>6
  <2>8. Pool!End(k)
    BY <2>2, <2>3, <2>4, <2>7 DEF Pool!End
  <2> QED
    BY <2>3, <2>8 DEF Pool!PoolNext
<1>4. ASSUME NEW r \in Run, StartFails(r) \/ ClearRuntime(r)
      PROVE  [Pool!PoolNext]_(Pool!poolVars)
  <2>1. PICK phase \in {"failing", "cleared"} :
          /\ run' = [run EXCEPT ![r] = [run[r] EXCEPT !.phase = phase]]
          /\ rt' = [rt EXCEPT ![run[r].job] = None]
          /\ UNCHANGED cap
    BY <1>4 DEF StartFails, ClearRuntime
  <2> DEFINE s == [run[r] EXCEPT !.phase = phase]
  <2>2. s.phase # "working"
    BY DEF TypeOK, RunState
  <2>3. run[r].phase \in Live \ {"working"}
    BY <1>4 DEF StartFails, ClearRuntime, Live
  <2> HIDE DEF s
  <2>4. run' = [run EXCEPT ![r] = s]
    BY <2>1 DEF s
  <2>5. Pool!Release(run[r].job) /\ run[r].job \in Job
    BY <2>1, <2>2, <2>3, <2>4, ClearReleases
  <2> QED
    BY <2>5 DEF Pool!PoolNext
<1>5. ASSUME NEW t \in Thread, PassStart(t) PROVE [Pool!PoolNext]_(Pool!poolVars)
  <2>1. pass[t].job \in Job /\ UNCHANGED cap
    BY <1>5 DEF PassStart, PassUnchanged, JobsKnown
  <2>2. CASE AcquireSlot(t, pass[t].job, TRUE)
    <3>1. Pool!Reserve(pass[t].job)
      BY <2>1, <2>2, StartReserves
    <3> QED
      BY <2>1, <3>1 DEF Pool!PoolNext
  <2>3. CASE UNCHANGED <<rt, run>>
    BY <1>1, <2>1, <2>3 DEF working, WorkersOn
  <2> QED
    BY <1>5, <2>2, <2>3 DEF PassStart
<1>6. ASSUME NEW t \in Handler \cup {Boot}, Start(t) PROVE [Pool!PoolNext]_(Pool!poolVars)
  <2>1. th[t].job \in Job /\ t \in Thread /\ UNCHANGED cap
    BY <1>6 DEF Start, HandlerUnchanged, JobsKnown, Thread
  <2>2. CASE AcquireSlot(t, th[t].job, FALSE)
    <3>1. Pool!Reserve(th[t].job)
      BY <2>1, <2>2, StartReserves
    <3> QED
      BY <2>1, <3>1 DEF Pool!PoolNext
  <2>3. CASE UNCHANGED <<rt, run>>
    BY <1>1, <2>1, <2>3 DEF working, WorkersOn
  <2> QED
    BY <1>6, <2>2, <2>3 DEF Start
<1>7. ASSUME Dies PROVE [Pool!PoolNext]_(Pool!poolVars)
  <2>1. Running' = {}
    BY <1>7 DEF Dies, Running
  <2>2. \A j \in Job : WorkersOn(j)' = {}
    BY <1>7 DEF Dies, WorkersOn, NoRun
  <2>3. Pool!LoseAll
    BY <1>7, <2>1, <2>2 DEF Dies, Pool!LoseAll
  <2> QED
    BY <2>3 DEF Pool!PoolNext
<1>8. ASSUME NEW h \in Handler, NEW c \in CapSet, ApplySettings(h, c)
      PROVE  [Pool!PoolNext]_(Pool!poolVars)
  <2>1. cap' \in Nat
    BY <1>8, SchedulerAssumption DEF ApplySettings, SchedulerAssumption
  <2>2. Running' = Running /\ \A j \in Job : WorkersOn(j)' = WorkersOn(j)
    BY <1>8 DEF ApplySettings, Running, WorkersOn
  <2>3. Pool!SetLimit
    BY <2>1, <2>2 DEF Pool!SetLimit
  <2> QED
    BY <2>3 DEF Pool!PoolNext
<1>9. ASSUME NEW r \in Run, NEW s, run' = [run EXCEPT ![r] = s], UNCHANGED <<cap, rt>>,
             run[r].phase # "working", s.phase # "working"
      PROVE  [Pool!PoolNext]_(Pool!poolVars)
  BY <1>1, <1>9, OthersKept DEF working
<1>10. ASSUME NEW r \in Run, SetRuntime(r) \/ FailFinish(r) \/ CloseDone(r)
       PROVE  [Pool!PoolNext]_(Pool!poolVars)
  <2>1. \A p \in {"registered", "abandoned"} : /\ [run[r] EXCEPT !.phase = p].phase = p
                                               /\ [NoRun EXCEPT !.phase = p].phase = p
    BY DEF TypeOK, RunState, NoRun
  <2>2. CASE SetRuntime(r)
    BY <1>9, <2>1, <2>2 DEF SetRuntime
  <2>3. CASE FailFinish(r)
    <3>1. PICK s \in {NoRun, [NoRun EXCEPT !.phase = "abandoned"]} :
            run' = [run EXCEPT ![r] = s]
      BY <2>3 DEF FailFinish
    <3>2. s.phase # "working"
      BY <2>1, <3>1 DEF NoRun
    <3>3. run[r].phase # "working" /\ UNCHANGED <<cap, rt>>
      BY <2>3 DEF FailFinish
    <3> QED
      BY <1>9, <3>1, <3>2, <3>3
  <2>4. CASE CloseDone(r)
    <3>1. run[r].phase # "working" /\ run' = [run EXCEPT ![r] = NoRun] /\ UNCHANGED <<cap, rt>>
      BY <2>4 DEF CloseDone
    <3>2. NoRun.phase # "working"
      BY DEF NoRun
    <3> QED
      BY <1>9, <3>1, <3>2
  <2> QED
    BY <1>10, <2>2, <2>3, <2>4
<1>11. ASSUME NEW h \in Handler, LookupRuntime(h) PROVE [Pool!PoolNext]_(Pool!poolVars)
  <2>1. UNCHANGED <<cap, rt>>
    BY <1>11 DEF LookupRuntime, HandlerUnchanged
  <2>2. CASE UNCHANGED run
    BY <1>1, <2>1, <2>2 DEF working, WorkersOn
  <2>3. CASE run' = [run EXCEPT ![rt[th[h].job]].cancelled = TRUE]
    <3>1. \A q \in Run : run'[q].phase = run[q].phase /\ run'[q].job = run[q].job
      BY <2>3 DEF TypeOK, RunState
    <3> QED
      BY <1>1, <2>1, <3>1, WorkersKept DEF working
  <2> QED
    BY <1>11, <2>2, <2>3 DEF LookupRuntime
<1>12. ASSUME NEW h \in Handler, WaitForStop(h) PROVE [Pool!PoolNext]_(Pool!poolVars)
  <2> DEFINE r == th[h].run
  <2>1. UNCHANGED <<cap, rt>>
    BY <1>12 DEF WaitForStop, HandlerUnchanged
  <2>2. CASE run' = [run EXCEPT ![r] = NoRun] /\ run[r].phase = "abandoned" /\ r \in Run
    <3>1. NoRun.phase # "working" /\ run[r].phase # "working"
      BY <2>2 DEF NoRun
    <3> HIDE DEF r
    <3> QED
      BY <1>9, <2>1, <2>2, <3>1
  <2>3. CASE UNCHANGED run \/ (run' = [run EXCEPT ![r] = NoRun] /\ r \notin Run)
    <3>1. run' = run
      BY <2>3 DEF TypeOK
    <3> QED
      BY <1>1, <2>1, <3>1 DEF working, WorkersOn
  <2> QED
    BY <1>12, <2>2, <2>3 DEF WaitForStop
<1>13. ASSUME UNCHANGED <<cap, rt, run>> PROVE [Pool!PoolNext]_(Pool!poolVars)
  BY <1>1, <1>13 DEF working, WorkersOn
<1>14. ASSUME NEW t \in Thread, PassEnter(t) \/ PassPick(t) \/ PassExit(t)
       PROVE  UNCHANGED <<cap, rt, run>>
  BY <1>14 DEF PassEnter, PassPick, PassExit, PassUnchanged
<1>15. ASSUME NEW h \in Handler, PauseWrite(h) \/ Finalise(h) \/ Requeue(h) \/ SettingsApplied(h)
       PROVE  UNCHANGED <<cap, rt, run>>
  BY <1>15 DEF PauseWrite, Finalise, Requeue, SettingsApplied, HandlerUnchanged
<1>16. ASSUME NEW h \in Handler, NEW j \in Job,
              Pause(h, j) \/ Resume(h, j) \/ Retry(h, j) \/ Cancel(h, j) \/ Remove(h, j)
              \/ TimerFires(h, j)
       PROVE  UNCHANGED <<cap, rt, run>>
  BY <1>16 DEF Pause, Resume, Retry, Cancel, Remove, Request, TimerFires, HandlerUnchanged
<1>17. ASSUME NEW h \in Handler, Add(h) PROVE UNCHANGED <<cap, rt, run>>
  BY <1>17 DEF Add, HandlerUnchanged
<1>18. BootNext \/ BootDone \/ Restart \/ UNCHANGED vars => UNCHANGED <<cap, rt, run>>
  BY DEF BootNext, BootDone, Restart, vars, stateVars
<1> QED
  BY <1>2, <1>3, <1>4, <1>5, <1>6, <1>7, <1>8, <1>10, <1>11, <1>12, <1>13, <1>14,
     <1>15, <1>16, <1>17, <1>18
  DEF Next, RunStep, PassStep, HandlerStep, NewRequest, BootStep, NilCancel, Crash

\* The queue implements the slot pool: a slot is granted only while fewer
\* than MaxConcurrent are held, one per job, and every download runs inside
\* one (acquireSlot, launch's teardown, clearRuntime).
THEOREM SchedulerImplementsPool == Spec => ImplementsPool
<1>1. Init => TypeOK /\ JobsKnown /\ SlotInv /\ Pool!PoolInit
  BY TypeInit, JobsInit, SlotInit, PoolInit
<1>2. TypeOK /\ JobsKnown /\ SlotInv /\ [Next]_vars
      => (TypeOK /\ JobsKnown /\ SlotInv)' /\ [Pool!PoolNext]_(Pool!poolVars)
  BY TypeStep, JobsStep, SlotStep, PoolStep
<1> QED
  BY <1>1, <1>2, PTL DEF Spec, ImplementsPool, Pool!PoolSpec

-----------------------------------------------------------------------------
(* An active row has a runtime *)

\* A row that is rewritten with a status other than active is not active, and no
\* other row changes.
LEMMA NotMadeActive ==
  ASSUME NEW rows \in [Job -> Row], NEW j, NEW r, r.st # "active"
  PROVE  \A k \in Job : UpdateJob(rows, j, r)[k].st = "active" => rows[k].st = "active"
BY DEF UpdateJob

\* ... and if it is the job's own that is rewritten, it is not active afterwards.
LEMMA MadeInactive ==
  ASSUME NEW rows \in [Job -> Row], NEW j \in Job, NEW r, r.st # "active"
  PROVE  UpdateJob(rows, j, r)[j].st # "active"
BY DEF UpdateJob

LEMMA FinishedIsInactive ==
  ASSUME NEW r \in Row, NEW outcome \in {"completed", "failed", "canceled"}
  PROVE  FinishedRow(r, outcome).st # "active"
BY DEF FinishedRow, Row

\* What finishJob does to the rows when the store takes its write.
LEMMA FinishJobInactive ==
  ASSUME ~StoreMayFail, TypeOK, NEW j \in Job, NEW outcome \in {"completed", "failed", "canceled"},
         FinishJob(j, outcome)
  PROVE  /\ row'[j].st # "active"
         /\ \A k \in Job : row'[k].st = "active" => row[k].st = "active"
<1>1. row' = UpdateJob(row, j, FinishedRow(row[j], outcome))
  BY DEF FinishJob
<1>2. FinishedRow(row[j], outcome).st # "active"
  BY FinishedIsInactive DEF TypeOK
<1> QED
  BY <1>1, <1>2, NotMadeActive, MadeInactive DEF TypeOK

\* A step keeps the invariant that makes no row active, takes no runtime out of the
\* map, and ends no worker.
LEMMA ActiveKept ==
  ASSUME ActiveInv, SlotInv, UNCHANGED <<up, bootRows, bootTodo>>,
         \A k \in Job : row'[k].st = "active" => row[k].st = "active",
         \A k \in Job : rt[k] # None => rt'[k] # None,
         \A r \in Run : run'[r].phase = "finished" =>
           run[r].phase = "finished" /\ run'[r].job = run[r].job
  PROVE  ActiveInv'
<1>1. ASSUME NEW j \in Job, row'[j].st = "active"
      PROVE  rt'[j] # None \/ up' = "down"
             \/ (up' = "booting" /\ j \in bootTodo' /\ bootRows'[j].st = "active")
  BY <1>1 DEF ActiveInv
<1>2. ASSUME NEW r \in Run, run'[r].phase = "finished" PROVE row'[run'[r].job].st # "active"
  BY <1>2 DEF ActiveInv, SlotInv, Live
<1> QED
  BY <1>1, <1>2 DEF ActiveInv

LEMMA ActiveInit == Init => ActiveInv
BY DEF Init, ActiveInv, NoRun

\* One struct changes, and does not become finished.
LEMMA StructChanges ==
  ASSUME TypeOK, NEW r, NEW s, run' = [run EXCEPT ![r] = s], s.phase # "finished"
  PROVE  \A q \in Run : run'[q].phase = "finished" =>
          run[q].phase = "finished" /\ run'[q].job = run[q].job
BY DEF TypeOK

LEMMA ActiveStep ==
  ~StoreMayFail /\ TypeOK /\ JobsKnown /\ SlotInv /\ ActiveInv /\ [Next]_vars => ActiveInv'
<1> SUFFICES ASSUME ~StoreMayFail, TypeOK, JobsKnown, SlotInv, ActiveInv, [Next]_vars
             PROVE  ActiveInv'
  OBVIOUS
<1>1. ASSUME UNCHANGED <<rt, run, up, bootRows, bootTodo>>,
             \A k \in Job : row'[k].st = "active" => row[k].st = "active"
      PROVE  ActiveInv'
  BY <1>1, ActiveKept
<1>2. ASSUME NEW r \in Run, SetRuntime(r) PROVE ActiveInv'
  <2> DEFINE s == [run[r] EXCEPT !.phase = "registered"]
  <2>1. s.phase = "registered"
    BY DEF TypeOK, RunState
  <2>2. run' = [run EXCEPT ![r] = s] /\ UNCHANGED <<row, rt, up, bootRows, bootTodo>>
    BY <1>2 DEF SetRuntime
  <2> HIDE DEF s
  <2> QED
    BY <2>1, <2>2, StructChanges, ActiveKept
<1>3. ASSUME NEW r \in Run, MarkActive(r) PROVE ActiveInv'
  <2> DEFINE s == [run[r] EXCEPT !.phase = "working", !.by = None, !.nested = FALSE]
             j == run[r].job
  <2>1. s.phase = "working"
    BY DEF TypeOK, RunState
  <2>2. /\ run[r].phase = "registered" /\ run' = [run EXCEPT ![r] = s]
        /\ UNCHANGED <<rt, up, bootRows, bootTodo>>
    BY <1>3 DEF MarkActive
  <2>3. j \in Job /\ rt[j] = r /\ r # None
    BY <2>2, SchedulerAssumption DEF SlotInv, Live, SchedulerAssumption
  <2>4. \A k \in Job \ {j} : row'[k] = row[k]
    BY <1>3 DEF MarkActive, UpdateStatus, UpdateJob, TypeOK
  <2>5. \A q \in Run : run'[q].phase = "finished" => q # r /\ run'[q] = run[q]
    BY <2>1, <2>2 DEF TypeOK
  <2>6. \A q \in Run : run'[q].phase = "finished" => run[q].job \in Job \ {j}
    BY <2>3, <2>5 DEF SlotInv, Live
  <2> HIDE DEF s, j
  <2>7. \A q \in Run : run'[q].phase = "finished" => row'[run'[q].job].st # "active"
    BY <2>4, <2>5, <2>6 DEF ActiveInv
  <2>8. ASSUME NEW k \in Job, row'[k].st = "active"
        PROVE  rt'[k] # None \/ up' = "down"
               \/ (up' = "booting" /\ k \in bootTodo' /\ bootRows'[k].st = "active")
    BY <2>2, <2>3, <2>4, <2>8 DEF ActiveInv
  <2> QED
    BY <2>7, <2>8 DEF ActiveInv
<1>4. ASSUME NEW r \in Run, FailFinish(r) PROVE ActiveInv'
  <2>1. run[r].job \in 0..NumJobs
    BY DEF TypeOK, RunState
  <2>2. \A k \in Job : row'[k].st = "active" => row[k].st = "active"
    <3>1. CASE run[r].job \in Job
      BY <1>4, <3>1, FinishJobInactive DEF FailFinish
    <3>2. CASE run[r].job \notin Job
      BY <1>4, <3>2 DEF FailFinish, FinishJob, UpdateJob, TypeOK
    <3> QED
      BY <3>1, <3>2
  <2>3. \A q \in Run : run'[q].phase = "finished" =>
          run[q].phase = "finished" /\ run'[q].job = run[q].job
    BY <1>4 DEF FailFinish, NoRun, TypeOK
  <2> QED
    BY <1>4, <2>2, <2>3, ActiveKept DEF FailFinish
<1>5. ASSUME NEW r \in Run, WorkEnds(r) PROVE ActiveInv'
  <2> DEFINE s == [run[r] EXCEPT !.phase = "finished", !.cancelled = FALSE]
             j == run[r].job
  <2>1. s.phase = "finished" /\ s.job = j
    BY DEF TypeOK, RunState
  <2>2. /\ run[r].phase = "working" /\ run' = [run EXCEPT ![r] = s]
        /\ UNCHANGED <<rt, up, bootRows, bootTodo>>
    BY <1>5 DEF WorkEnds
  <2>3. j \in Job
    BY <2>2 DEF SlotInv, Live
  <2>4. row'[j].st # "active" /\ \A k \in Job : row'[k].st = "active" => row[k].st = "active"
    BY <1>5, <2>3, FinishJobInactive DEF WorkEnds
  <2>5. \A q \in Run : q # r => run'[q] = run[q]
    BY <2>2 DEF TypeOK
  <2>6. run'[r] = s
    BY <2>2 DEF TypeOK
  <2> HIDE DEF s, j
  <2>7. \A q \in Run : run'[q].phase = "finished" => row'[run'[q].job].st # "active"
    BY <2>1, <2>4, <2>5, <2>6 DEF ActiveInv, SlotInv, Live
  <2>8. ASSUME NEW k \in Job, row'[k].st = "active"
        PROVE  rt'[k] # None \/ up' = "down"
               \/ (up' = "booting" /\ k \in bootTodo' /\ bootRows'[k].st = "active")
    BY <2>2, <2>4, <2>8 DEF ActiveInv
  <2> QED
    BY <2>7, <2>8 DEF ActiveInv
<1>6. ASSUME NEW r \in Run, ClearRuntime(r) PROVE ActiveInv'
  <2> DEFINE s == [run[r] EXCEPT !.phase = "cleared"]
             j == run[r].job
  <2>1. s.phase = "cleared"
    BY DEF TypeOK, RunState
  <2>2. /\ run[r].phase = "finished" /\ run' = [run EXCEPT ![r] = s]
        /\ rt' = [rt EXCEPT ![j] = None] /\ UNCHANGED <<row, up, bootRows, bootTodo>>
    BY <1>6 DEF ClearRuntime
  <2>3. row[j].st # "active"
    BY <2>2 DEF ActiveInv
  <2> HIDE DEF s
  <2>4. \A q \in Run : run'[q].phase = "finished" =>
          run[q].phase = "finished" /\ run'[q].job = run[q].job
    BY <2>1, <2>2, StructChanges
  <2> HIDE DEF j
  <2>5. \A q \in Run : run'[q].phase = "finished" => row'[run'[q].job].st # "active"
    BY <2>2, <2>4 DEF ActiveInv
  <2>6. ASSUME NEW k \in Job, row'[k].st = "active"
        PROVE  rt'[k] # None \/ up' = "down"
               \/ (up' = "booting" /\ k \in bootTodo' /\ bootRows'[k].st = "active")
    <3>1. k # j /\ rt'[k] = rt[k]
      BY <2>2, <2>3, <2>6 DEF TypeOK
    <3> QED
      BY <2>2, <2>6, <3>1 DEF ActiveInv
  <2> QED
    BY <2>5, <2>6 DEF ActiveInv
<1>7. ASSUME NEW r \in Run, CloseDone(r) PROVE ActiveInv'
  <2>1. NoRun.phase # "finished"
    BY DEF NoRun
  <2>2. run' = [run EXCEPT ![r] = NoRun] /\ UNCHANGED <<row, rt, up, bootRows, bootTodo>>
    BY <1>7 DEF CloseDone
  <2> QED
    BY <2>1, <2>2, StructChanges, ActiveKept
<1>8. ASSUME NEW t \in Thread, NEW j \in Job, NEW nested \in BOOLEAN, AcquireSlot(t, j, nested),
             UNCHANGED <<row, up, bootRows, bootTodo>>
      PROVE  ActiveInv'
  <2>1. PICK q \in Run, s \in RunState :
          run[q].phase = "closed" /\ run' = [run EXCEPT ![q] = s] /\ s.phase = "placeholder"
    BY <1>8, SlotTaken
  <2>2. \A k \in Job : rt[k] # None => rt'[k] # None
    BY <1>8 DEF AcquireSlot, TypeOK
  <2> QED
    BY <1>8, <2>1, <2>2, StructChanges, ActiveKept
<1>9. ASSUME NEW t \in Thread, PassStart(t) PROVE ActiveInv'
  <2>1. pass[t].job \in Job
    BY <1>9 DEF PassStart, JobsKnown
  <2> QED
    BY <1>1, <1>8, <1>9, <2>1 DEF PassStart, PassUnchanged
<1>10. ASSUME NEW t \in Handler \cup {Boot}, Start(t) PROVE ActiveInv'
  <2>1. th[t].job \in Job
    BY <1>10 DEF Start, JobsKnown
  <2> QED
    BY <1>1, <1>8, <1>10, <2>1 DEF Start, HandlerUnchanged, Thread
<1>11. ASSUME NEW h \in Handler, LookupRuntime(h) PROVE ActiveInv'
  <2>1. \A q \in Run : run'[q].phase = run[q].phase /\ run'[q].job = run[q].job
    BY <1>11 DEF LookupRuntime, TypeOK, RunState
  <2> QED
    BY <1>11, <2>1, ActiveKept DEF LookupRuntime, HandlerUnchanged
<1>12. ASSUME NEW h \in Handler, WaitForStop(h) PROVE ActiveInv'
  <2>1. \A q \in Run : run'[q].phase = "finished" =>
          run[q].phase = "finished" /\ run'[q].job = run[q].job
    BY <1>12 DEF WaitForStop, TypeOK, NoRun
  <2> QED
    BY <1>12, <2>1, ActiveKept DEF WaitForStop, HandlerUnchanged
<1>13. ASSUME NEW h \in Handler, PauseWrite(h) \/ Finalise(h) \/ Requeue(h) PROVE ActiveInv'
  <2>1. UNCHANGED <<rt, run, up, bootRows, bootTodo>>
    BY <1>13 DEF PauseWrite, Finalise, Requeue, HandlerUnchanged
  <2>2. \A k \in Job : row'[k].st = "active" => row[k].st = "active"
    <3>1. CASE PauseWrite(h)
      BY <3>1, NotMadeActive DEF PauseWrite, TypeOK
    <3>2. CASE Finalise(h)
      <4>1. th[h].job \in Job /\ NoRow.st # "active"
        BY <3>2 DEF Finalise, JobsKnown, NoRow
      <4> DEFINE s == [row[th[h].job] EXCEPT !.st = "canceled", !.due = FALSE]
      <4>2. s.st # "active"
        BY <4>1 DEF TypeOK, Row
      <4>3. CASE row' = UpdateStatus(row, th[h].job, "canceled")
        <5>1. row' = UpdateJob(row, th[h].job, s)
          BY <4>3 DEF UpdateStatus
        <5> HIDE DEF s
        <5> QED
          BY <4>2, <5>1, NotMadeActive DEF TypeOK
      <4>4. CASE row' = [row EXCEPT ![th[h].job] = NoRow]
        BY <4>1, <4>4 DEF TypeOK
      <4> QED
        BY <3>2, <4>3, <4>4 DEF Finalise
    <3>3. CASE Requeue(h)
      BY <3>3, NotMadeActive DEF Requeue, TypeOK
    <3> QED
      BY <1>13, <3>1, <3>2, <3>3
  <2> QED
    BY <1>1, <2>1, <2>2
<1>14. ASSUME NEW h \in Handler, Add(h) PROVE ActiveInv'
  <2>1. \A k \in Job : row'[k].st = "active" => row[k].st = "active"
    BY <1>14 DEF Add, TypeOK
  <2> QED
    BY <1>1, <1>14, <2>1 DEF Add, HandlerUnchanged
<1>15. ASSUME BootNext PROVE ActiveInv'
  <2> DEFINE j == Oldest(bootTodo)
             s == [bootRows[j] EXCEPT !.st = "queued"]
  <2>1. /\ UNCHANGED <<rt, run, up, bootRows>> /\ bootTodo' = bootTodo \ {j} /\ up = "booting"
        /\ \/ bootRows[j].st = "queued" /\ UNCHANGED row
           \/ bootRows[j].st = "active" /\ row' = UpdateJob(row, j, s)
    BY <1>15 DEF BootNext
  <2>2. j \in bootTodo /\ j \in Job
    BY <1>15, OldestIsMember DEF BootNext, TypeOK
  <2>3. s.st = "queued"
    BY <2>2 DEF TypeOK, Row
  <2> HIDE DEF j, s
  <2>4. \A k \in Job : row'[k].st = "active" => row[k].st = "active"
    BY <2>1, <2>3, NotMadeActive DEF TypeOK
  <2>5. row'[j].st = "active" => bootRows[j].st = "queued"
    BY <2>1, <2>2, <2>3, MadeInactive DEF TypeOK
  <2>6. ASSUME NEW k \in Job, row'[k].st = "active"
        PROVE  rt'[k] # None \/ up' = "down"
               \/ (up' = "booting" /\ k \in bootTodo' /\ bootRows'[k].st = "active")
    BY <2>1, <2>4, <2>5, <2>6 DEF ActiveInv
  <2>7. \A q \in Run : run'[q].phase = "finished" => row'[run'[q].job].st # "active"
    BY <2>1, <2>4 DEF ActiveInv, SlotInv, Live
  <2> QED
    BY <2>6, <2>7 DEF ActiveInv
<1>16. ASSUME BootDone PROVE ActiveInv'
  BY <1>16 DEF BootDone, ActiveInv
<1>17. ASSUME Restart PROVE ActiveInv'
  BY <1>17 DEF Restart, ActiveInv
<1>18. ASSUME Dies PROVE ActiveInv'
  BY <1>18 DEF Dies, ActiveInv, NoRun
<1>19. ASSUME NEW t \in Thread, PassEnter(t) \/ PassPick(t) \/ PassExit(t) PROVE ActiveInv'
  BY <1>1, <1>19 DEF PassEnter, PassPick, PassExit, PassUnchanged
<1>20. ASSUME NEW h \in Handler, NEW j \in Job,
              Pause(h, j) \/ Resume(h, j) \/ Retry(h, j) \/ Cancel(h, j) \/ Remove(h, j)
              \/ TimerFires(h, j)
       PROVE  ActiveInv'
  BY <1>1, <1>20 DEF Pause, Resume, Retry, Cancel, Remove, Request, TimerFires, HandlerUnchanged
<1>21. ASSUME NEW h \in Handler, SettingsApplied(h) \/ \E c \in CapSet : ApplySettings(h, c)
       PROVE  ActiveInv'
  BY <1>1, <1>21 DEF SettingsApplied, ApplySettings, HandlerUnchanged
<1>22. UNCHANGED vars => ActiveInv'
  BY <1>1 DEF vars, stateVars
<1>23. \A r \in Run : ~StartFails(r)
  BY DEF StartFails
<1> QED
  BY <1>2, <1>3, <1>4, <1>5, <1>6, <1>7, <1>9, <1>10, <1>11, <1>12, <1>13, <1>14, <1>15, <1>16,
     <1>17, <1>18, <1>19, <1>20, <1>21, <1>22, <1>23
  DEF Next, RunStep, PassStep, HandlerStep, NewRequest, BootStep, NilCancel, Crash

\* A row that says active has a runtime, or a boot scan that is still to come to it
\* (ActiveRowHasRuntime), with any number of requests, timers and deaths, as long as the
\* store takes what is written: finishJob comes before clearRuntime on every path.
THEOREM ActiveRowHasRuntimeHolds == ~StoreMayFail /\ Spec => []ActiveRowHasRuntime
<1>1. ~StoreMayFail /\ Init => ~StoreMayFail /\ TypeOK /\ JobsKnown /\ SlotInv /\ ActiveInv
  BY TypeInit, JobsInit, SlotInit, ActiveInit
<1>2. (~StoreMayFail /\ TypeOK /\ JobsKnown /\ SlotInv /\ ActiveInv) /\ [Next]_vars
      => (~StoreMayFail /\ TypeOK /\ JobsKnown /\ SlotInv /\ ActiveInv)'
  BY TypeStep, JobsStep, SlotStep, ActiveStep
<1>3. ActiveInv => ActiveRowHasRuntime
  BY DEF ActiveInv, ActiveRowHasRuntime
<1> QED
  BY <1>1, <1>2, <1>3, PTL DEF Spec

-----------------------------------------------------------------------------
(* A promised retry comes *)

\* A step keeps OneStart if it starts nothing and moves no goroutine out of start.
LEMMA OneStartKept ==
  ASSUME OneStart,
         \A q \in Run : run'[q].phase \in Starting /\ ~run'[q].nested =>
           run[q].phase \in Starting /\ ~run[q].nested /\ run'[q].by = run[q].by,
         \A t \in Handler \cup {Boot} : th[t].pc = "starting" => th'[t].pc = "starting"
  PROVE  OneStart'
BY DEF OneStart

\* start returns: the struct is no longer being started, and its goroutine goes on.
LEMMA StartReturns ==
  ASSUME TypeOK, OneStart, NEW r \in Run, run[r].phase \in Starting,
         ReturnFromStart(run[r].by, run[r].nested),
         NEW s, run' = [run EXCEPT ![r] = s], s.phase \notin Starting
  PROVE  /\ OneStart'
         /\ \A h \in Handler : th[h].pc # "starting" => th'[h] = th[h]
<1>1. \A q \in Run : run'[q].phase \in Starting => q # r /\ run'[q] = run[q]
  BY DEF TypeOK
<1>2. CASE run[r].nested
  <2>1. UNCHANGED th
    BY <1>2 DEF ReturnFromStart
  <2> QED
    BY <1>1, <2>1, OneStartKept
<1>3. CASE ~run[r].nested
  <2> DEFINE t == run[r].by
  <2>1. th' = [th EXCEPT ![t] = Idle]
    BY <1>3 DEF ReturnFromStart
  <2>2. t \in Handler \cup {Boot} /\ th[t].pc = "starting"
    BY <1>3 DEF OneStart
  <2>3. \A q \in Run : run'[q].phase \in Starting /\ ~run'[q].nested => run[q].by # t
    BY <1>1, <1>3 DEF OneStart
  <2> HIDE DEF t
  <2>4. \A u \in Handler \cup {Boot} : u # t => th'[u] = th[u]
    BY <2>1 DEF TypeOK
  <2>5. OneStart'
    BY <1>1, <2>3, <2>4 DEF OneStart
  <2> QED
    BY <2>2, <2>4, <2>5
<1> QED
  BY <1>2, <1>3

LEMMA OneStartInit == Init => OneStart
BY DEF Init, OneStart, Starting, NoRun

\* One struct changes, and is not being started afterwards.
LEMMA StructIsNotStarting ==
  ASSUME TypeOK, NEW r, NEW s, run' = [run EXCEPT ![r] = s], s.phase \notin Starting
  PROVE  \A q \in Run : run'[q].phase \in Starting /\ ~run'[q].nested =>
           run[q].phase \in Starting /\ ~run[q].nested /\ run'[q].by = run[q].by
BY DEF TypeOK

LEMMA OneStartStep ==
  TypeOK /\ JobsKnown /\ SlotInv /\ OneStart /\ [Next]_vars => OneStart'
<1> SUFFICES ASSUME TypeOK, JobsKnown, SlotInv, OneStart, [Next]_vars PROVE OneStart'
  OBVIOUS
<1>1. ASSUME UNCHANGED run,
             \A t \in Handler \cup {Boot} : th[t].pc = "starting" => th'[t].pc = "starting"
      PROVE  OneStart'
  BY <1>1, OneStartKept
<1>2. ASSUME NEW r \in Run, SetRuntime(r) \/ StartFails(r) PROVE OneStart'
  <2>1. UNCHANGED th /\ run[r].phase \in Starting
        /\ \E p \in Starting : run' = [run EXCEPT ![r].phase = p]
    BY <1>2 DEF SetRuntime, StartFails, Starting
  <2>2. \A q \in Run : run'[q].phase \in Starting /\ ~run'[q].nested =>
          run[q].phase \in Starting /\ ~run[q].nested /\ run'[q].by = run[q].by
    BY <2>1 DEF TypeOK, RunState
  <2> QED
    BY <2>1, <2>2, OneStartKept
<1>3. ASSUME NEW r \in Run, MarkActive(r) PROVE OneStart'
  <2> DEFINE s == [run[r] EXCEPT !.phase = "working", !.by = None, !.nested = FALSE]
  <2>1. s.phase = "working"
    BY DEF TypeOK, RunState
  <2>2. /\ run[r].phase = "registered" /\ run' = [run EXCEPT ![r] = s]
        /\ ReturnFromStart(run[r].by, run[r].nested)
    BY <1>3 DEF MarkActive
  <2> HIDE DEF s
  <2> QED
    BY <2>1, <2>2, StartReturns DEF Starting
<1>4. ASSUME NEW r \in Run, FailFinish(r) PROVE OneStart'
  <2> DEFINE s == IF Waiters(r) = {} THEN NoRun ELSE [NoRun EXCEPT !.phase = "abandoned"]
  <2>1. s.phase \notin Starting
    BY DEF NoRun, Starting
  <2>2. /\ run[r].phase = "failing" /\ run' = [run EXCEPT ![r] = s]
        /\ ReturnFromStart(run[r].by, run[r].nested)
    BY <1>4 DEF FailFinish
  <2> HIDE DEF s
  <2> QED
    BY <2>1, <2>2, StartReturns DEF Starting
<1>5. ASSUME NEW r \in Run, WorkEnds(r) \/ ClearRuntime(r) \/ CloseDone(r) PROVE OneStart'
  <2>1. PICK s : s.phase \notin Starting /\ run' = [run EXCEPT ![r] = s]
    <3>1. CASE WorkEnds(r)
      <4>1. [run[r] EXCEPT !.phase = "finished", !.cancelled = FALSE].phase = "finished"
        BY DEF TypeOK, RunState
      <4> QED
        BY <3>1, <4>1 DEF WorkEnds, Starting
    <3>2. CASE ClearRuntime(r)
      <4>1. [run[r] EXCEPT !.phase = "cleared"].phase = "cleared"
        BY DEF TypeOK, RunState
      <4> QED
        BY <3>2, <4>1 DEF ClearRuntime, Starting
    <3>3. CASE CloseDone(r)
      BY <3>3 DEF CloseDone, NoRun, Starting
    <3> QED
      BY <1>5, <3>1, <3>2, <3>3
  <2>2. UNCHANGED th
    BY <1>5 DEF WorkEnds, ClearRuntime, CloseDone
  <2> QED
    BY <2>1, <2>2, StructIsNotStarting, OneStartKept
<1>6. ASSUME NEW t \in Thread, PassStart(t) PROVE OneStart'
  <2>1. UNCHANGED th /\ pass[t].job \in Job
    BY <1>6 DEF PassStart, PassUnchanged, JobsKnown
  <2>2. CASE UNCHANGED run
    BY <1>1, <2>1, <2>2
  <2>3. CASE AcquireSlot(t, pass[t].job, TRUE)
    <3>1. PICK q \in Run, s \in RunState :
            run' = [run EXCEPT ![q] = s] /\ s.nested = TRUE
      BY <2>1, <2>3, SlotTaken
    <3>2. \A p \in Run : run'[p].phase \in Starting /\ ~run'[p].nested => run'[p] = run[p]
      BY <3>1 DEF TypeOK
    <3> QED
      BY <2>1, <3>2, OneStartKept
  <2> QED
    BY <1>6, <2>2, <2>3 DEF PassStart
<1>7. ASSUME NEW t \in Handler \cup {Boot}, Start(t) PROVE OneStart'
  <2>1. th[t].pc = "start" /\ th[t].job \in Job
    BY <1>7 DEF Start, JobsKnown
  <2>2. CASE th' = [th EXCEPT ![t] = Idle] /\ UNCHANGED run
    BY <1>1, <2>1, <2>2 DEF TypeOK
  <2>3. CASE AcquireSlot(t, th[t].job, FALSE) /\ th' = [th EXCEPT ![t].pc = "starting"]
    <3>1. PICK q \in Run, s \in RunState :
            /\ run[q].phase = "closed" /\ run' = [run EXCEPT ![q] = s]
            /\ s.phase = "placeholder" /\ s.by = t /\ s.nested = FALSE
      <4> DEFINE j == th[t].job
      <4>1. t \in Thread /\ j \in Job /\ AcquireSlot(t, j, FALSE)
        BY <2>1, <2>3 DEF Thread
      <4> HIDE DEF j
      <4> QED
        BY <4>1, SlotTaken
    <3>2. run'[q].by = t /\ \A p \in Run \ {q} : run'[p] = run[p]
      BY <3>1 DEF TypeOK
    <3>3. th'[t].pc = "starting" /\ \A u \in Handler \cup {Boot} : u # t => th'[u] = th[u]
      BY <2>3 DEF TypeOK, HandlerState
    <3>4. \A p \in Run \ {q} : run'[p].phase \in Starting /\ ~run'[p].nested => run[p].by # t
      BY <2>1, <3>2 DEF OneStart
    <3> QED
      BY <3>2, <3>3, <3>4 DEF OneStart
  <2> QED
    BY <1>7, <2>2, <2>3 DEF Start
<1>8. ASSUME NEW h \in Handler, LookupRuntime(h) PROVE OneStart'
  <2>1. \A q \in Run : run'[q].phase = run[q].phase /\ run'[q].by = run[q].by
                     /\ run'[q].nested = run[q].nested
    BY <1>8 DEF LookupRuntime, TypeOK, RunState
  <2>2. \A t \in Handler \cup {Boot} : th[t].pc = "starting" => th'[t].pc = "starting"
    BY <1>8 DEF LookupRuntime, TypeOK
  <2> QED
    BY <2>1, <2>2, OneStartKept
<1>9. ASSUME NEW h \in Handler, WaitForStop(h) PROVE OneStart'
  <2>1. \A q \in Run : run'[q].phase \in Starting => run'[q] = run[q]
    BY <1>9 DEF WaitForStop, TypeOK, NoRun, Starting
  <2>2. \A t \in Handler \cup {Boot} : th[t].pc = "starting" => th'[t].pc = "starting"
    BY <1>9 DEF WaitForStop, TypeOK
  <2> QED
    BY <2>1, <2>2, OneStartKept
<1>10. ASSUME NEW h \in Handler, PauseWrite(h) \/ Finalise(h) \/ Requeue(h) \/ SettingsApplied(h)
       PROVE  OneStart'
  <2>1. UNCHANGED run /\ th[h].pc # "starting"
    BY <1>10 DEF PauseWrite, Finalise, Requeue, SettingsApplied, HandlerUnchanged
  <2>2. \A t \in Handler \cup {Boot} : t # h => th'[t] = th[t]
    BY <1>10 DEF PauseWrite, Finalise, Requeue, SettingsApplied, TypeOK
  <2> QED
    BY <1>1, <2>1, <2>2
<1>11. ASSUME NEW h \in Handler, NewRequest(h) \/ \E j \in Job : TimerFires(h, j) PROVE OneStart'
  <2>1. UNCHANGED run /\ th[h].pc = "idle"
    BY <1>11 DEF NewRequest, Pause, Resume, Retry, Cancel, Remove, Request, Add, ApplySettings,
                 TimerFires, HandlerUnchanged
  <2>2. \A t \in Handler \cup {Boot} : t # h => th'[t] = th[t]
    BY <1>11 DEF NewRequest, Pause, Resume, Retry, Cancel, Remove, Request, Call, Add, ApplySettings,
                 TimerFires, TypeOK
  <2> QED
    BY <1>1, <2>1, <2>2
<1>12. ASSUME BootNext PROVE OneStart'
  <2>1. UNCHANGED run /\ th[Boot].pc = "idle"
    BY <1>12 DEF BootNext
  <2>2. \A t \in Handler \cup {Boot} : t # Boot => th'[t] = th[t]
    BY <1>12 DEF BootNext, TypeOK
  <2> QED
    BY <1>1, <2>1, <2>2
<1>13. ASSUME Dies PROVE OneStart'
  BY <1>13 DEF Dies, OneStart, Starting, NoRun
<1>14. ASSUME NEW t \in Thread, PassEnter(t) \/ PassPick(t) \/ PassExit(t) PROVE UNCHANGED <<run, th>>
  BY <1>14 DEF PassEnter, PassPick, PassExit, PassUnchanged
<1>15. BootDone \/ Restart \/ UNCHANGED vars => UNCHANGED <<run, th>>
  BY DEF BootDone, Restart, vars, stateVars
<1> QED
  BY <1>1, <1>2, <1>3, <1>4, <1>5, <1>6, <1>7, <1>8, <1>9, <1>10, <1>11, <1>12, <1>13, <1>14, <1>15
  DEF Next, RunStep, PassStep, HandlerStep, BootStep, NilCancel, Crash

\* A row that announces an auto-retry.
Promised(rows, j) == rows[j].st = "failed" /\ rows[j].due

\* A step keeps the promises that makes none without setting a timer, forgets no timer
\* and lets every fired one go on.
LEMMA PromiseKept ==
  ASSUME PromisedRetryComes, UNCHANGED deaths,
         \A k \in Job : Promised(row', k) => Promised(row, k) \/ timers'[k] > 0,
         \A k \in Job : timers[k] > 0 => timers'[k] > 0,
         \A h \in Handler : th[h].op = "timer" /\ th[h].pc = "write" => th'[h] = th[h]
  PROVE  PromisedRetryComes'
BY DEF PromisedRetryComes, Promised

\* finishJob sets the timer it announces.
LEMMA FinishJobPromise ==
  ASSUME ~StoreMayFail, TypeOK, NEW j \in Job, NEW outcome \in {"completed", "failed", "canceled"},
         FinishJob(j, outcome)
  PROVE  /\ \A k \in Job : Promised(row', k) => Promised(row, k) \/ timers'[k] > 0
         /\ \A k \in Job : timers[k] > 0 => timers'[k] > 0
<1> DEFINE s == FinishedRow(row[j], outcome)
<1>1. row' = UpdateJob(row, j, s) /\ row[j] \in Row
  BY DEF FinishJob, TypeOK
<1>2. timers' = [timers EXCEPT ![j] = @ + 1] \/ timers' = timers
  BY DEF FinishJob
<1>3. timers \in [Job -> Nat]
  BY DEF TypeOK
<1>4. \A k \in Job : timers[k] > 0 => timers'[k] > 0
  BY ONLY <1>2, <1>3, j \in Job
<1>5. \A k \in Job : k # j => row'[k] = row[k]
  BY <1>1 DEF UpdateJob, TypeOK
<1>6. s.st = "failed" /\ s.due => outcome = "failed" /\ RetriesAfter(row[j])
  BY <1>1 DEF FinishedRow, Row
<1> HIDE DEF s
<1>7. row'[j] = s \/ row[j].st = "absent"
  BY <1>1 DEF UpdateJob, TypeOK
<1>8. Promised(row', j) => row[j].st # "absent" /\ outcome = "failed" /\ RetriesAfter(row[j])
  <2>1. row[j].st = "absent" => row'[j] = row[j]
    BY <1>1 DEF UpdateJob
  <2> QED
    BY <1>6, <1>7, <2>1 DEF Promised
<1>9. Promised(row', j) => timers'[j] = timers[j] + 1
  BY <1>3, <1>8 DEF FinishJob
<1>10. timers[j] \in Nat
  BY <1>3
<1>11. Promised(row', j) => timers'[j] > 0
  BY ONLY <1>9, <1>10
<1> QED
  BY <1>4, <1>5, <1>11 DEF Promised

\* A row that is rewritten with another status than failed promises nothing.
LEMMA NoPromise ==
  ASSUME NEW rows \in [Job -> Row], NEW j, NEW r, r.st # "failed"
  PROVE  \A k \in Job : Promised(UpdateJob(rows, j, r), k) => Promised(rows, k)
BY DEF UpdateJob, Promised

LEMMA PromiseInit == Init => PromisedRetryComes
BY DEF Init, PromisedRetryComes, NoRow

LEMMA PromiseStep ==
  ~StoreMayFail /\ TypeOK /\ JobsKnown /\ SlotInv /\ OneStart /\ PromisedRetryComes /\ [Next]_vars
    => PromisedRetryComes'
<1> SUFFICES ASSUME ~StoreMayFail, TypeOK, JobsKnown, SlotInv, OneStart, PromisedRetryComes, [Next]_vars
             PROVE  PromisedRetryComes'
  OBVIOUS
<1>1. ASSUME UNCHANGED <<deaths, timers>>,
             \A k \in Job : Promised(row', k) => Promised(row, k),
             \A h \in Handler : th[h].op = "timer" /\ th[h].pc = "write" => th'[h] = th[h]
      PROVE  PromisedRetryComes'
  BY <1>1, PromiseKept
<1>2. ASSUME UNCHANGED <<deaths, timers, row>>,
             \A h \in Handler : th[h].op = "timer" /\ th[h].pc = "write" => th'[h] = th[h]
      PROVE  PromisedRetryComes'
  BY <1>1, <1>2 DEF Promised
<1>3. ASSUME NEW r \in Run, MarkActive(r) PROVE PromisedRetryComes'
  <2> DEFINE s == [run[r] EXCEPT !.phase = "working", !.by = None, !.nested = FALSE]
             a == [row[run[r].job] EXCEPT !.st = "active", !.due = FALSE]
  <2>1. s.phase = "working"
    BY DEF TypeOK, RunState
  <2>2. /\ run[r].phase = "registered" /\ run' = [run EXCEPT ![r] = s]
        /\ ReturnFromStart(run[r].by, run[r].nested)
        /\ row' = UpdateJob(row, run[r].job, a) /\ UNCHANGED <<deaths, timers>>
    BY <1>3 DEF MarkActive, UpdateStatus
  <2>3. a.st = "active"
    BY <2>2 DEF SlotInv, Live, TypeOK, Row
  <2> HIDE DEF s, a
  <2>4. \A h \in Handler : th[h].pc # "starting" => th'[h] = th[h]
    BY <2>1, <2>2, StartReturns DEF Starting
  <2>5. \A k \in Job : Promised(row', k) => Promised(row, k)
    BY <2>2, <2>3, NoPromise DEF TypeOK
  <2> QED
    BY <1>1, <2>2, <2>4, <2>5
<1>4. ASSUME NEW r \in Run, FailFinish(r) PROVE PromisedRetryComes'
  <2> DEFINE s == IF Waiters(r) = {} THEN NoRun ELSE [NoRun EXCEPT !.phase = "abandoned"]
  <2>1. s.phase \notin Starting
    BY DEF NoRun, Starting
  <2>2. /\ run[r].phase = "failing" /\ run' = [run EXCEPT ![r] = s]
        /\ ReturnFromStart(run[r].by, run[r].nested)
        /\ FinishJob(run[r].job, "failed") /\ UNCHANGED deaths
    BY <1>4 DEF FailFinish
  <2> HIDE DEF s
  <2>3. \A h \in Handler : th[h].pc # "starting" => th'[h] = th[h]
    BY <2>1, <2>2, StartReturns DEF Starting
  <2>4. CASE run[r].job \in Job
    <3>1. /\ \A k \in Job : Promised(row', k) => Promised(row, k) \/ timers'[k] > 0
          /\ \A k \in Job : timers[k] > 0 => timers'[k] > 0
      BY <2>2, <2>4, FinishJobPromise
    <3> QED
      BY <2>2, <2>3, <3>1, PromiseKept
  <2>5. CASE run[r].job \notin Job
    <3>1. timers' = timers /\ row' = row
      BY <2>2, <2>5 DEF FinishJob, UpdateJob, TypeOK
    <3> QED
      BY <1>2, <2>2, <2>3, <3>1
  <2> QED
    BY <2>4, <2>5
<1>5. ASSUME NEW r \in Run, WorkEnds(r) PROVE PromisedRetryComes'
  <2>1. run[r].job \in Job /\ UNCHANGED <<deaths, th>>
    BY <1>5 DEF WorkEnds, SlotInv, Live
  <2>2. PICK outcome \in {"completed", "failed", "canceled"} : FinishJob(run[r].job, outcome)
    BY <1>5 DEF WorkEnds
  <2> DEFINE j == run[r].job
  <2>3. j \in Job /\ FinishJob(j, outcome)
    BY <2>1, <2>2
  <2> HIDE DEF j
  <2>4. /\ \A k \in Job : Promised(row', k) => Promised(row, k) \/ timers'[k] > 0
        /\ \A k \in Job : timers[k] > 0 => timers'[k] > 0
    BY <2>3, FinishJobPromise
  <2> QED
    BY <2>1, <2>4, PromiseKept
<1>6. ASSUME NEW h \in Handler, NEW j \in Job, TimerFires(h, j) PROVE PromisedRetryComes'
  <2>1. /\ th[h].pc = "idle" /\ timers' = [timers EXCEPT ![j] = @ - 1] /\ UNCHANGED <<row, deaths>>
    BY <1>6 DEF TimerFires, HandlerUnchanged
  <2>2. \A g \in Handler : g # h => th'[g] = th[g]
    BY <1>6 DEF TimerFires, Call, TypeOK
  <2>3. row[j].st = "failed" => th'[h].op = "timer" /\ th'[h].job = j /\ th'[h].pc = "write"
    BY <1>6 DEF TimerFires, Call, TypeOK
  <2>4. \A k \in Job : k # j => timers'[k] = timers[k]
    BY <2>1 DEF TypeOK
  <2> QED
    BY <2>1, <2>2, <2>3, <2>4 DEF PromisedRetryComes
<1>7. ASSUME NEW h \in Handler, Requeue(h) PROVE PromisedRetryComes'
  <2> DEFINE j == th[h].job
             s == [st |-> "queued", tries |-> th[h].tries, due |-> FALSE]
  <2>1. /\ row' = UpdateJob(row, j, s) /\ th[h].pc = "write" /\ UNCHANGED <<timers, deaths>>
        /\ j \in Job /\ s.st = "queued"
    BY <1>7 DEF Requeue, HandlerUnchanged, JobsKnown
  <2>2. \A g \in Handler : g # h => th'[g] = th[g]
    BY <1>7 DEF Requeue, TypeOK
  <2>3. \A g \in Handler : th[g].job # j => th'[g] = th[g]
    BY <2>2
  <2> HIDE DEF s, j
  <2>4. ~Promised(row', j) /\ \A k \in Job : k # j => row'[k] = row[k]
    BY <2>1 DEF UpdateJob, Promised, TypeOK
  <2> QED
    BY <2>1, <2>3, <2>4 DEF PromisedRetryComes, Promised
<1>8. ASSUME NEW h \in Handler, PauseWrite(h) \/ Finalise(h) PROVE PromisedRetryComes'
  <2>1. /\ UNCHANGED <<timers, deaths>> /\ ~(th[h].op = "timer" /\ th[h].pc = "write")
        /\ th[h].job \in Job
    BY <1>8 DEF PauseWrite, Finalise, HandlerUnchanged, JobsKnown
  <2>2. \A g \in Handler : g # h => th'[g] = th[g]
    BY <1>8 DEF PauseWrite, Finalise, TypeOK
  <2>3. \A k \in Job : Promised(row', k) => Promised(row, k)
    <3> DEFINE s == [st |-> "paused", tries |-> th[h].tries, due |-> FALSE]
               c == [row[th[h].job] EXCEPT !.st = "canceled", !.due = FALSE]
    <3>1. s.st # "failed" /\ c.st # "failed" /\ NoRow.st # "failed"
      BY <2>1 DEF TypeOK, Row, NoRow
    <3>2. \/ row' = UpdateJob(row, th[h].job, s) \/ row' = UpdateJob(row, th[h].job, c)
          \/ row' = [row EXCEPT ![th[h].job] = NoRow]
      BY <1>8 DEF PauseWrite, Finalise, UpdateStatus
    <3> HIDE DEF s, c
    <3>3. CASE row' = UpdateJob(row, th[h].job, s)
      BY <3>1, <3>3, NoPromise DEF TypeOK
    <3>4. CASE row' = UpdateJob(row, th[h].job, c)
      BY <3>1, <3>4, NoPromise DEF TypeOK
    <3>5. CASE row' = [row EXCEPT ![th[h].job] = NoRow]
      BY <2>1, <3>1, <3>5 DEF Promised, TypeOK
    <3> QED
      BY <3>2, <3>3, <3>4, <3>5
  <2> QED
    BY <1>1, <2>1, <2>2, <2>3
<1>9. ASSUME NEW h \in Handler, LookupRuntime(h) \/ WaitForStop(h) \/ SettingsApplied(h)
      PROVE  PromisedRetryComes'
  <2>1. UNCHANGED <<row, timers, deaths>> /\ th[h].pc # "write"
    BY <1>9 DEF LookupRuntime, WaitForStop, SettingsApplied, HandlerUnchanged
  <2>2. \A g \in Handler : g # h => th'[g] = th[g]
    BY <1>9 DEF LookupRuntime, WaitForStop, SettingsApplied, TypeOK
  <2> QED
    BY <1>2, <2>1, <2>2
<1>10. ASSUME NEW h \in Handler, NewRequest(h) PROVE PromisedRetryComes'
  <2>1. UNCHANGED <<timers, deaths>> /\ th[h].pc = "idle"
    BY <1>10 DEF NewRequest, Pause, Resume, Retry, Cancel, Remove, Request, Add, ApplySettings,
                 HandlerUnchanged
  <2>2. \A g \in Handler : g # h => th'[g] = th[g]
    BY <1>10 DEF NewRequest, Pause, Resume, Retry, Cancel, Remove, Request, Call, Add, ApplySettings,
                 TypeOK
  <2>3. \A k \in Job : Promised(row', k) => Promised(row, k)
    <3>1. CASE Add(h)
      BY <3>1 DEF Add, Promised, TypeOK
    <3>2. CASE UNCHANGED row
      BY <3>2 DEF Promised
    <3> QED
      BY <1>10, <3>1, <3>2 DEF NewRequest, Pause, Resume, Retry, Cancel, Remove, Request, ApplySettings
  <2> QED
    BY <1>1, <2>1, <2>2, <2>3
<1>11. ASSUME NEW t \in Handler \cup {Boot}, Start(t) PROVE PromisedRetryComes'
  <2>1. UNCHANGED <<row, timers, deaths>> /\ th[t].pc # "write"
    BY <1>11 DEF Start, HandlerUnchanged
  <2>2. \A g \in Handler : g # t => th'[g] = th[g]
    BY <1>11 DEF Start, TypeOK
  <2> QED
    BY <1>2, <2>1, <2>2
<1>12. ASSUME BootNext PROVE PromisedRetryComes'
  <2> DEFINE j == Oldest(bootTodo)
             s == [bootRows[j] EXCEPT !.st = "queued"]
  <2>1. UNCHANGED <<timers, deaths>> /\ (UNCHANGED row \/ row' = UpdateJob(row, j, s))
    BY <1>12 DEF BootNext
  <2>2. j \in Job
    BY <1>12, OldestIsMember DEF BootNext, TypeOK
  <2>3. s.st = "queued"
    BY <2>2 DEF TypeOK, Row
  <2> HIDE DEF j, s
  <2>4. \A k \in Job : Promised(row', k) => Promised(row, k)
    <3>1. CASE UNCHANGED row
      BY <3>1 DEF Promised
    <3>2. CASE row' = UpdateJob(row, j, s)
      BY <2>3, <3>2, NoPromise DEF TypeOK
    <3> QED
      BY <2>1, <3>1, <3>2
  <2>5. \A g \in Handler : th'[g] = th[g]
    BY <1>12, SchedulerAssumption DEF BootNext, TypeOK, SchedulerAssumption
  <2> QED
    BY <1>1, <2>1, <2>4, <2>5
<1>13. ASSUME Dies PROVE PromisedRetryComes'
  <2>1. deaths' # 0
    BY <1>13 DEF Dies, TypeOK
  <2> QED
    BY <2>1 DEF PromisedRetryComes
<1>14. ASSUME NEW r \in Run, SetRuntime(r) \/ ClearRuntime(r) \/ CloseDone(r)
       PROVE  UNCHANGED <<deaths, timers, row, th>>
  BY <1>14 DEF SetRuntime, ClearRuntime, CloseDone
<1>15. ASSUME NEW t \in Thread, PassStep(t) PROVE UNCHANGED <<deaths, timers, row, th>>
  BY <1>15 DEF PassStep, PassEnter, PassPick, PassStart, PassExit, PassUnchanged
<1>16. BootDone \/ Restart \/ UNCHANGED vars => UNCHANGED <<deaths, timers, row, th>>
  BY DEF BootDone, Restart, vars, stateVars
<1>17. \A r \in Run : ~StartFails(r)
  BY DEF StartFails
<1> QED
  BY <1>2, <1>3, <1>4, <1>5, <1>6, <1>7, <1>8, <1>9, <1>10, <1>11, <1>12, <1>13, <1>14, <1>15,
     <1>16, <1>17
  DEF Next, RunStep, HandlerStep, BootStep, NilCancel, Crash

\* An announced retry has a timer, or a fired timer on its way to requeue the job
\* (PromisedRetryComes), whatever else is done to the job, in a daemon that has not died
\* and whose store takes what is written (finishJob, scheduleAutoRetry).
THEOREM PromisedRetryComesHolds == ~StoreMayFail /\ Spec => []PromisedRetryComes
<1> DEFINE Inv == ~StoreMayFail /\ TypeOK /\ JobsKnown /\ SlotInv /\ OneStart /\ PromisedRetryComes
<1>1. ~StoreMayFail /\ Init => Inv
  BY TypeInit, JobsInit, SlotInit, OneStartInit, PromiseInit
<1>2. Inv /\ [Next]_vars => Inv'
  BY TypeStep, JobsStep, SlotStep, OneStartStep, PromiseStep
<1>3. Inv => PromisedRetryComes
  OBVIOUS
<1> QED
  BY <1>1, <1>2, <1>3, PTL DEF Spec

=============================================================================
