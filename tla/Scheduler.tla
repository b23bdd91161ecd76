------------------------------ MODULE Scheduler ------------------------------
(***************************************************************************)
(* The daemon's job queue (internal/daemon: queue.go, lifecycle.go,        *)
(* server.go, settings.go) over the jobs table of internal/store.          *)
(*                                                                         *)
(* Every goroutine that touches a job is a thread here: the ones that      *)
(* serve a request or run a fired auto-retry timer (Handler), the one that *)
(* boots the daemon (Boot), and one worker per runtime (Run).  A step is   *)
(* what a thread does between two points where another one can run: one    *)
(* SQL statement, or one critical section of d.mu, d.tryMu or d.retryMu.   *)
(*                                                                         *)
(* Jobs are of the types whose worker alone persists what a pause did to   *)
(* it (url, social, webdav); torrents, for which pause rewrites the row    *)
(* itself and which can seed, are not here.                                *)
(***************************************************************************)
EXTENDS Integers, FiniteSets

CONSTANTS
  NumJobs,      \* bound: how many jobs are ever created
  Handler,      \* goroutines serving requests or running a fired timer
  Run,          \* runtime structs, each with the worker goroutine it gets
  Boot,         \* the goroutine that runs Serve
  None,         \* nil
  Leftover,     \* the statuses an earlier daemon may have left: functions on Job
  CapSet,       \* the values of the MaxConcurrent setting; 0 is unlimited
  MaxTries,     \* AutoRetryMaxAttempts; 0 stands for AutoRetry switched off
  StopTimeout,  \* can a worker outlive waitForStop's five seconds?
  Requests,     \* bound: the kinds of request made
  MaxOps,       \* bound: how many are made
  StoreMayFail, \* can a write to the store fail (a full disk), or a start panic?
  MaxCrashes    \* bound: daemon processes that die

Job == 1..NumJobs

Status == {"absent", "queued", "active", "paused", "completed", "failed", "canceled"}

ASSUME SchedulerAssumption ==
  /\ NumJobs \in Nat
  /\ MaxTries \in Nat /\ MaxOps \in Nat /\ MaxCrashes \in Nat
  /\ CapSet \subseteq Nat
  /\ Leftover \subseteq [Job -> Status]
  /\ \A left \in Leftover, j, k \in Job : left[j] = "absent" /\ k > j => left[k] = "absent"
  /\ Requests \subseteq {"pause", "resume", "retry", "cancel", "remove", "add", "settings"}
  /\ StopTimeout \in BOOLEAN /\ StoreMayFail \in BOOLEAN
  /\ Boot \notin Handler
  /\ (Handler \cup {Boot}) \cap Run = {}
  /\ None \notin Handler \cup {Boot} \cup Run

VARIABLES
  row,        \* the jobs table: status, retry_count, and whether error_msg promises a retry
  created,    \* how many job ids have been handed out
  cap,        \* the cached MaxConcurrent
  rt,         \* d.runtimes
  run,        \* the runtime structs and how far their goroutine has got
  th,         \* where each handler goroutine, and Serve's, is
  pass,       \* each thread's tryStartQueued frame
  tryRunning, \* d.tryRunning
  tryAgain,   \* d.tryAgain
  timers,     \* per job, the auto-retry timers that have not fired
  up,         \* "down", "booting" (before Accept) or "serving"
  bootRows,   \* the rows ListJobs gave resumeInterruptedJobs
  bootTodo,   \* the jobs its loop has still to visit
  ops,        \* how many requests have been made
  deaths      \* how often the process has died

stateVars == <<row, created, cap, rt, run, th, pass, tryRunning, tryAgain,
               timers, up, bootRows, bootTodo>>
vars == <<stateVars, ops, deaths>>

-----------------------------------------------------------------------------
(* Types *)

Row == [st: Status, tries: 0..MaxTries, due: BOOLEAN]

NoRow == [st |-> "absent", tries |-> 0, due |-> FALSE]

Thread == Handler \cup {Boot} \cup Run

\* placeholder: acquireSlot's reservation, without a cancel func
\* registered:  launch's runtime is in the map, its worker not yet started
\* failing:     starting went wrong, the runtime is out of the map again
\* working, finished (outcome persisted), cleared (out of the map)
\* closed:      done is closed; also the phase of a struct nobody uses
\* abandoned:   done will never be closed, and somebody waits on it
Phase == {"placeholder", "registered", "failing", "working", "finished",
          "cleared", "closed", "abandoned"}

RunState == [phase: Phase, job: 0..NumJobs, by: Thread \cup {None},
             nested: BOOLEAN, cancelled: BOOLEAN]

NoRun == [phase |-> "closed", job |-> 0, by |-> None, nested |-> FALSE, cancelled |-> FALSE]

Op == {"none", "pause", "resume", "retry", "cancel", "remove", "add", "settings", "timer", "boot"}

HandlerPc == {"idle", "runtime", "write", "wait", "final", "start", "starting", "settings"}

HandlerState == [pc: HandlerPc, op: Op, job: 0..NumJobs, tries: 0..MaxTries, run: Run \cup {None}]

Idle == [pc |-> "idle", op |-> "none", job |-> 0, tries |-> 0, run |-> None]

PassState == [pc: {"off", "enter", "loop", "start", "starting", "exit"},
              job: 0..NumJobs, attempted: SUBSET Job]

NoPass == [pc |-> "off", job |-> 0, attempted |-> {}]

\* The jobs table, d.runtimes and every goroutine's place are of their types;
\* retry_count never exceeds AutoRetryMaxAttempts (finishJob).
TypeOK ==
  /\ row \in [Job -> Row]
  /\ created \in 0..NumJobs
  /\ cap \in CapSet
  /\ rt \in [Job -> Run \cup {None}]
  /\ run \in [Run -> RunState]
  /\ th \in [Handler \cup {Boot} -> HandlerState]
  /\ pass \in [Thread -> PassState]
  /\ tryRunning \in BOOLEAN /\ tryAgain \in BOOLEAN
  /\ timers \in [Job -> Nat]
  /\ up \in {"down", "booting", "serving"}
  /\ bootRows \in [Job -> Row]
  /\ bootTodo \subseteq Job
  /\ ops \in 0..MaxOps /\ deaths \in Nat

-----------------------------------------------------------------------------
(* The store *)

\* UpdateJob rewrites every column of the row, and nothing if it is gone.
UpdateJob(rows, j, r) == IF rows[j].st = "absent" THEN rows ELSE [rows EXCEPT ![j] = r]

\* UpdateStatus touches status and error_msg only.
UpdateStatus(rows, j, st) == UpdateJob(rows, j, [rows[j] EXCEPT !.st = st, !.due = FALSE])

-----------------------------------------------------------------------------
(* Slots *)

Running == {j \in Job : rt[j] # None}

\* Mutant: one slot too many.
FullLate == cap > 0 /\ Cardinality(Running) > cap

Full == cap > 0 /\ Cardinality(Running) >= cap

Waiters(r) == {h \in Handler \cup {Boot} : th[h].run = r}

\* Runtime structs are all alike; a new one is any that nobody knows of.
Unused == {r \in Run : run[r].phase = "closed" /\ Waiters(r) = {}}

\* Mutant: the map is not asked whether the job already runs.
AcquireSlotTwice(t, j, nested) ==
  /\ ~Full
  /\ Unused # {}
  /\ LET r == CHOOSE r \in Unused : TRUE IN
       /\ run' = [run EXCEPT ![r] = [NoRun EXCEPT !.phase = "placeholder", !.job = j,
                                                  !.by = t, !.nested = nested]]
       /\ rt' = [rt EXCEPT ![j] = r]

\* acquireSlot, granted: the placeholder goes into the map.
AcquireSlot(t, j, nested) ==
  /\ rt[j] = None
  /\ ~Full
  /\ Unused # {}
  /\ LET r == CHOOSE r \in Unused : TRUE IN
       /\ run' = [run EXCEPT ![r] = [NoRun EXCEPT !.phase = "placeholder", !.job = j,
                                                  !.by = t, !.nested = nested]]
       /\ rt' = [rt EXCEPT ![j] = r]

SlotRefused(j) == rt[j] # None \/ Full

\* The thread that called start goes on: a pass loops, anyone else is done.
ReturnFromStart(t, nested) ==
  IF nested THEN /\ pass' = [pass EXCEPT ![t] = [@ EXCEPT !.pc = "loop", !.job = 0]]
                 /\ UNCHANGED th
            ELSE /\ th' = [th EXCEPT ![t] = Idle]
                 /\ UNCHANGED pass

-----------------------------------------------------------------------------
(* The outcome of a job *)

RetriesAfter(r) == r.tries < MaxTries

FinishedRow(r, outcome) ==
  CASE outcome = "completed" -> [st |-> "completed", tries |-> 0, due |-> FALSE]
    [] outcome = "canceled"  -> [r EXCEPT !.st = "paused"]
    [] outcome = "failed"    ->
         IF RetriesAfter(r) THEN [st |-> "failed", tries |-> r.tries + 1, due |-> TRUE]
                            ELSE [r EXCEPT !.st = "failed", !.due = FALSE]

\* Mutant: as finishJob's comment has it, a cancelled worker leaves the row to pause.
FinishJobUnlessCanceled(j, outcome) ==
  /\ row' = IF outcome = "canceled" THEN row ELSE UpdateJob(row, j, FinishedRow(row[j], outcome))
  /\ IF row[j].st # "absent" /\ outcome = "failed" /\ RetriesAfter(row[j])
     THEN timers' = [timers EXCEPT ![j] = @ + 1]
     ELSE UNCHANGED timers

\* finishJob: a row that is gone ends it; a write that fails does not stop
\* the auto-retry from being scheduled.
FinishJob(j, outcome) ==
  /\ \/ row' = UpdateJob(row, j, FinishedRow(row[j], outcome))
     \/ StoreMayFail /\ UNCHANGED row
  /\ IF row[j].st # "absent" /\ outcome = "failed" /\ RetriesAfter(row[j])
     THEN timers' = [timers EXCEPT ![j] = @ + 1]
     ELSE UNCHANGED timers

-----------------------------------------------------------------------------
(* A job being started, and its worker *)

\* launch: the real runtime replaces the placeholder.
SetRuntime(r) ==
  /\ run[r].phase = "placeholder"
  /\ run' = [run EXCEPT ![r].phase = "registered"]
  /\ UNCHANGED <<row, created, cap, rt, th, pass, tryRunning, tryAgain, timers,
                 up, bootRows, bootTodo, ops, deaths>>

\* markActive succeeds, the worker goroutine starts, start returns.
MarkActive(r) ==
  /\ run[r].phase = "registered"
  /\ row' = UpdateStatus(row, run[r].job, "active")
  /\ run' = [run EXCEPT ![r] = [@ EXCEPT !.phase = "working", !.by = None,
                                              !.nested = FALSE]]
  /\ ReturnFromStart(run[r].by, run[r].nested)
  /\ UNCHANGED <<created, cap, rt, tryRunning, tryAgain, timers,
                 up, bootRows, bootTodo, ops, deaths>>

\* markActive's write fails, or the starter panics: clearRuntime first, its
\* tryStartQueued included; inside a pass that call only asks for another round.
StartFails(r) ==
  /\ run[r].phase \in {"placeholder", "registered"}
  /\ StoreMayFail
  /\ run' = [run EXCEPT ![r].phase = "failing"]
  /\ rt' = [rt EXCEPT ![run[r].job] = None]
  /\ IF run[r].nested
     THEN tryAgain' = TRUE /\ UNCHANGED pass
     ELSE pass' = [pass EXCEPT ![run[r].by].pc = "enter"] /\ UNCHANGED tryAgain
  /\ UNCHANGED <<row, created, cap, th, tryRunning, timers,
                 up, bootRows, bootTodo, ops, deaths>>

\* ... then finishJob, and start returns.  Nothing closes done.
FailFinish(r) ==
  /\ run[r].phase = "failing"
  /\ run[r].nested \/ pass[run[r].by].pc = "off"
  /\ FinishJob(run[r].job, "failed")
  /\ run' = [run EXCEPT ![r] = IF Waiters(r) = {} THEN NoRun
                               ELSE [NoRun EXCEPT !.phase = "abandoned"]]
  /\ ReturnFromStart(run[r].by, run[r].nested)
  /\ UNCHANGED <<created, cap, rt, tryRunning, tryAgain,
                 up, bootRows, bootTodo, ops, deaths>>

\* The worker comes to an end and reports it; it can only see
\* context.Canceled once its cancel func has been called.
WorkEnds(r) ==
  /\ run[r].phase = "working"
  /\ \E outcome \in {"completed", "failed", "canceled"} :
       /\ outcome = "canceled" => run[r].cancelled
       /\ FinishJob(run[r].job, outcome)
  /\ run' = [run EXCEPT ![r] = [@ EXCEPT !.phase = "finished", !.cancelled = FALSE]]
  /\ UNCHANGED <<created, cap, rt, th, pass, tryRunning, tryAgain,
                 up, bootRows, bootTodo, ops, deaths>>

\* clearRuntime in the worker's teardown; tryStartQueued follows.
ClearRuntime(r) ==
  /\ run[r].phase = "finished"
  /\ rt' = [rt EXCEPT ![run[r].job] = None]
  /\ run' = [run EXCEPT ![r].phase = "cleared"]
  /\ pass' = [pass EXCEPT ![r].pc = "enter"]
  /\ UNCHANGED <<row, created, cap, th, tryRunning, tryAgain, timers,
                 up, bootRows, bootTodo, ops, deaths>>

\* Mutant: done is not closed if somebody waits (a panic past the defers).
CloseDoneLost(r) ==
  /\ run[r].phase = "cleared"
  /\ pass[r].pc = "off"
  /\ run' = [run EXCEPT ![r] = IF Waiters(r) = {} THEN NoRun
                               ELSE [NoRun EXCEPT !.phase = "abandoned"]]
  /\ UNCHANGED <<row, created, cap, rt, th, pass, tryRunning, tryAgain, timers,
                 up, bootRows, bootTodo, ops, deaths>>

\* close(rt.done), once the pass the worker made (if any) is over.
CloseDone(r) ==
  /\ run[r].phase = "cleared"
  /\ pass[r].pc = "off"
  /\ run' = [run EXCEPT ![r] = NoRun]
  /\ UNCHANGED <<row, created, cap, rt, th, pass, tryRunning, tryAgain, timers,
                 up, bootRows, bootTodo, ops, deaths>>

-----------------------------------------------------------------------------
(* tryStartQueued *)

PassUnchanged == UNCHANGED <<row, created, cap, th, timers, up, bootRows, bootTodo,
                             ops, deaths>>

\* Mutant: a second pass just goes away.
PassEnterDropped(t) ==
  /\ pass[t].pc = "enter"
  /\ IF tryRunning
     THEN /\ pass' = [pass EXCEPT ![t] = NoPass]
          /\ UNCHANGED <<tryRunning, tryAgain>>
     ELSE /\ tryRunning' = TRUE
          /\ pass' = [pass EXCEPT ![t] = [NoPass EXCEPT !.pc = "loop"]]
          /\ UNCHANGED tryAgain
  /\ PassUnchanged /\ UNCHANGED <<rt, run>>

\* The re-entrancy guard: a second pass only asks for another round.
PassEnter(t) ==
  /\ pass[t].pc = "enter"
  /\ IF tryRunning
     THEN /\ tryAgain' = TRUE
          /\ pass' = [pass EXCEPT ![t] = NoPass]
          /\ UNCHANGED tryRunning
     ELSE /\ tryRunning' = TRUE
          /\ pass' = [pass EXCEPT ![t] = [NoPass EXCEPT !.pc = "loop"]]
          /\ UNCHANGED tryAgain
  /\ PassUnchanged /\ UNCHANGED <<rt, run>>

\* nextQueuedJob: the oldest queued job that holds no runtime.
Startable(skip) == {j \in Job \ skip : row[j].st = "queued" /\ rt[j] = None}

Oldest(S) == CHOOSE j \in S : \A k \in S : j <= k

\* One turn of the loop, up to start.
PassPick(t) ==
  /\ pass[t].pc = "loop"
  /\ LET S == Startable(pass[t].attempted) IN
       pass' = [pass EXCEPT ![t] =
                  IF Full \/ S = {} THEN [NoPass EXCEPT !.pc = "exit"]
                  ELSE [pc |-> "start", job |-> Oldest(S),
                        attempted |-> @.attempted \cup {Oldest(S)}]]
  /\ PassUnchanged /\ UNCHANGED <<rt, run, tryRunning, tryAgain>>

PassStart(t) ==
  /\ pass[t].pc = "start"
  /\ \/ /\ AcquireSlot(t, pass[t].job, TRUE)
        /\ pass' = [pass EXCEPT ![t].pc = "starting"]
     \/ /\ SlotRefused(pass[t].job)
        /\ pass' = [pass EXCEPT ![t] = [NoPass EXCEPT !.pc = "exit"]]
        /\ UNCHANGED <<rt, run>>
  /\ PassUnchanged /\ UNCHANGED <<tryRunning, tryAgain>>

PassExit(t) ==
  /\ pass[t].pc = "exit"
  /\ tryRunning' = FALSE
  /\ tryAgain' = FALSE
  /\ pass' = [pass EXCEPT ![t] = IF tryAgain THEN [NoPass EXCEPT !.pc = "enter"] ELSE NoPass]
  /\ PassUnchanged /\ UNCHANGED <<rt, run>>

-----------------------------------------------------------------------------
(* Requests and fired timers *)

HandlerUnchanged == UNCHANGED <<cap, tryRunning, tryAgain, up, bootRows, bootTodo, deaths>>

Call(h, op, pc, j) ==
  th' = [th EXCEPT ![h] = [pc |-> pc, op |-> op, job |-> j,
                           tries |-> IF op = "retry" THEN 0 ELSE row[j].tries, run |-> None]]

\* A request on job j is read from the store, and its status checked.
Request(h, op, pc, j, allowed) ==
  /\ up = "serving" /\ ops < MaxOps /\ op \in Requests
  /\ th[h].pc = "idle"
  /\ row[j].st \in allowed
  /\ Call(h, op, pc, j)
  /\ ops' = ops + 1
  /\ HandlerUnchanged /\ UNCHANGED <<row, created, rt, run, pass, timers>>

Stopped == {"paused", "completed", "failed", "canceled"}

Pause(h, j)  == Request(h, "pause",  "runtime", j, {"active", "queued"})
Resume(h, j) == Request(h, "resume", "write",   j, {"paused", "failed"})
Retry(h, j)  == Request(h, "retry",  "write",   j, Stopped)
Cancel(h, j) == Request(h, "cancel", "runtime", j, Status \ {"absent"})
Remove(h, j) == Request(h, "remove", "runtime", j, Status \ {"absent"})

\* createJob: the row is inserted queued; start follows.
Add(h) ==
  /\ up = "serving" /\ ops < MaxOps /\ "add" \in Requests
  /\ created < NumJobs
  /\ th[h].pc = "idle"
  /\ LET j == created + 1 IN
       /\ row' = [row EXCEPT ![j] = [st |-> "queued", tries |-> 0, due |-> FALSE]]
       /\ th' = [th EXCEPT ![h] = [Idle EXCEPT !.pc = "start", !.op = "add", !.job = j]]
  /\ created' = created + 1
  /\ ops' = ops + 1
  /\ HandlerUnchanged /\ UNCHANGED <<rt, run, pass, timers>>

\* applySettings with a new MaxConcurrent: saved and cached, then tryStartQueued.
ApplySettings(h, c) ==
  /\ up = "serving" /\ ops < MaxOps /\ "settings" \in Requests
  /\ th[h].pc = "idle" /\ c # cap
  /\ cap' = c
  /\ th' = [th EXCEPT ![h] = [Idle EXCEPT !.pc = "settings", !.op = "settings"]]
  /\ pass' = [pass EXCEPT ![h].pc = "enter"]
  /\ ops' = ops + 1
  /\ UNCHANGED <<row, created, rt, run, tryRunning, tryAgain, timers,
                 up, bootRows, bootTodo, deaths>>

SettingsApplied(h) ==
  /\ th[h].pc = "settings" /\ pass[h].pc = "off"
  /\ th' = [th EXCEPT ![h] = Idle]
  /\ HandlerUnchanged /\ UNCHANGED <<row, created, rt, run, pass, timers, ops>>

\* Mutant: a timer that fires while the failed run is being torn down gives up.
TimerFiresIfIdle(h, j) ==
  /\ up # "down" /\ th[h].pc = "idle"
  /\ timers[j] > 0
  /\ timers' = [timers EXCEPT ![j] = @ - 1]
  /\ IF row[j].st = "failed" /\ rt[j] = None THEN Call(h, "timer", "write", j) ELSE UNCHANGED th
  /\ HandlerUnchanged /\ UNCHANGED <<row, created, rt, run, pass, ops>>

\* scheduleAutoRetry's func: forgets the timer, and goes on if the job is still failed.
TimerFires(h, j) ==
  /\ up # "down" /\ th[h].pc = "idle"
  /\ timers[j] > 0
  /\ timers' = [timers EXCEPT ![j] = @ - 1]
  /\ IF row[j].st = "failed" THEN Call(h, "timer", "write", j) ELSE UNCHANGED th
  /\ HandlerUnchanged /\ UNCHANGED <<row, created, rt, run, pass, ops>>

\* pause, cancel and remove look the runtime up, cancel it and wait for it.
\* A placeholder has no cancel func: see NilCancel.
LookupRuntime(h) ==
  /\ th[h].pc = "runtime"
  /\ LET r == rt[th[h].job] IN
       IF r = None
       THEN /\ th' = [th EXCEPT ![h].pc = IF th[h].op = "pause" THEN "write" ELSE "final"]
            /\ UNCHANGED run
       ELSE /\ run[r].phase # "placeholder"
            /\ run' = [run EXCEPT ![r].cancelled = TRUE]
            /\ th' = [th EXCEPT ![h].pc = "wait", ![h].run = r]
  /\ HandlerUnchanged /\ UNCHANGED <<row, created, rt, pass, timers, ops>>

\* waitForStop: done is closed, or five seconds have gone by.
WaitForStop(h) ==
  /\ th[h].pc = "wait"
  /\ LET r == th[h].run IN
       /\ run[r].phase = "closed" \/ StopTimeout
       /\ run' = IF run[r].phase = "abandoned" /\ Waiters(r) = {h}
                 THEN [run EXCEPT ![r] = NoRun] ELSE run
       /\ th' = [th EXCEPT ![h] = IF th[h].op = "pause" THEN Idle
                                  ELSE [@ EXCEPT !.pc = "final", !.run = None]]
  /\ HandlerUnchanged /\ UNCHANGED <<row, created, rt, pass, timers, ops>>

\* pause of a job without a runtime rewrites the row it read.
PauseWrite(h) ==
  /\ th[h].pc = "write" /\ th[h].op = "pause"
  /\ \/ /\ row' = UpdateJob(row, th[h].job, [st |-> "paused", tries |-> th[h].tries, due |-> FALSE])
     \/ StoreMayFail /\ UNCHANGED row
  /\ th' = [th EXCEPT ![h] = Idle]
  /\ HandlerUnchanged /\ UNCHANGED <<created, rt, run, pass, timers, ops>>

\* cancel re-reads the row and writes canceled; remove deletes it.
Finalise(h) ==
  /\ th[h].pc = "final"
  /\ \/ /\ th[h].op = "cancel"
        /\ row' = UpdateStatus(row, th[h].job, "canceled")
     \/ /\ th[h].op = "remove"
        /\ row' = [row EXCEPT ![th[h].job] = NoRow]
     \/ StoreMayFail /\ UNCHANGED row
  /\ th' = [th EXCEPT ![h] = Idle]
  /\ HandlerUnchanged /\ UNCHANGED <<created, rt, run, pass, timers, ops>>

\* resume, retry and a fired timer rewrite the row they read as queued.
Requeue(h) ==
  /\ th[h].pc = "write" /\ th[h].op \in {"resume", "retry", "timer"}
  /\ \/ /\ row' = UpdateJob(row, th[h].job, [st |-> "queued", tries |-> th[h].tries, due |-> FALSE])
        /\ th' = [th EXCEPT ![h].pc = "start"]
     \/ /\ StoreMayFail /\ UNCHANGED row
        /\ th' = [th EXCEPT ![h] = Idle]
  /\ HandlerUnchanged /\ UNCHANGED <<created, rt, run, pass, timers, ops>>

\* start, called by a request, a timer or the boot scan.
Start(t) ==
  /\ th[t].pc = "start"
  /\ \/ /\ AcquireSlot(t, th[t].job, FALSE)
        /\ th' = [th EXCEPT ![t].pc = "starting"]
     \/ /\ SlotRefused(th[t].job)
        /\ th' = [th EXCEPT ![t] = Idle]
        /\ UNCHANGED <<rt, run>>
  /\ HandlerUnchanged /\ UNCHANGED <<row, created, pass, timers, ops>>

-----------------------------------------------------------------------------
(* The process *)

\* The process is gone: only the store is left.
Dies ==
  /\ up' = "down"
  /\ rt' = [j \in Job |-> None]
  /\ run' = [r \in Run |-> NoRun]
  /\ th' = [h \in Handler \cup {Boot} |-> Idle]
  /\ pass' = [t \in Thread |-> NoPass]
  /\ tryRunning' = FALSE /\ tryAgain' = FALSE
  /\ timers' = [j \in Job |-> 0]
  /\ bootTodo' = {} /\ bootRows' = [j \in Job |-> NoRow]
  /\ deaths' = deaths + 1
  /\ UNCHANGED <<row, created, cap, ops>>

\* A kill, a reboot, or a shutdown, whose Close stops the timers and ends the workers.
Crash == up # "down" /\ deaths < MaxCrashes /\ Dies

CallsNil(h) ==
  /\ th[h].pc = "runtime"
  /\ rt[th[h].job] # None
  /\ run[rt[th[h].job]].phase = "placeholder"

\* Calling a placeholder's nil cancel func panics; nothing recovers in the
\* goroutines handleConn runs on, so the process dies.
NilCancel(h) == CallsNil(h) /\ Dies

\* NewDaemon, and Serve up to resumeInterruptedJobs's ListJobs.
Restart ==
  /\ up = "down"
  /\ up' = "booting"
  /\ bootRows' = row
  /\ bootTodo' = {j \in Job : row[j].st \in {"active", "queued"}}
  /\ UNCHANGED <<row, created, cap, rt, run, th, pass, tryRunning, tryAgain,
                 timers, ops, deaths>>

\* Mutant: an interrupted job is started as it stands.
BootNextAsIs ==
  /\ up = "booting" /\ th[Boot].pc = "idle" /\ bootTodo # {}
  /\ LET j == Oldest(bootTodo) IN
       /\ bootTodo' = bootTodo \ {j}
       /\ th' = [th EXCEPT ![Boot] = [Idle EXCEPT !.pc = "start", !.op = "boot", !.job = j]]
  /\ UNCHANGED <<row, created, cap, rt, run, pass, tryRunning, tryAgain, timers,
                 up, bootRows, ops, deaths>>

\* One turn of the scan: a job left active is rewritten as queued, then start.
BootNext ==
  /\ up = "booting" /\ th[Boot].pc = "idle" /\ bootTodo # {}
  /\ LET j == Oldest(bootTodo)
         go == th' = [th EXCEPT ![Boot] = [Idle EXCEPT !.pc = "start", !.op = "boot", !.job = j]]
     IN /\ bootTodo' = bootTodo \ {j}
        /\ \/ bootRows[j].st = "queued" /\ go /\ UNCHANGED <<row>>
           \/ /\ bootRows[j].st = "active" /\ go
              /\ row' = UpdateJob(row, j, [bootRows[j] EXCEPT !.st = "queued"])
           \/ bootRows[j].st = "active" /\ StoreMayFail /\ UNCHANGED <<row, th>>
  /\ UNCHANGED <<created, cap, rt, run, pass, tryRunning, tryAgain, timers,
                 up, bootRows, ops, deaths>>

\* The scan is over; Serve begins to Accept.
BootDone ==
  /\ up = "booting" /\ th[Boot].pc = "idle" /\ bootTodo = {}
  /\ up' = "serving"
  /\ bootRows' = [j \in Job |-> NoRow]
  /\ UNCHANGED <<row, created, cap, rt, run, th, pass, tryRunning, tryAgain, timers,
                 bootTodo, ops, deaths>>

-----------------------------------------------------------------------------
\* A daemon about to be started over the rows an earlier one left.
Init ==
  /\ \E left \in Leftover :
       /\ row = [j \in Job |-> [NoRow EXCEPT !.st = left[j]]]
       /\ created = Cardinality({j \in Job : left[j] # "absent"})
  /\ cap \in CapSet
  /\ rt = [j \in Job |-> None]
  /\ run = [r \in Run |-> NoRun]
  /\ th = [h \in Handler \cup {Boot} |-> Idle]
  /\ pass = [t \in Thread |-> NoPass]
  /\ tryRunning = FALSE /\ tryAgain = FALSE
  /\ timers = [j \in Job |-> 0]
  /\ up = "down"
  /\ bootRows = [j \in Job |-> NoRow] /\ bootTodo = {}
  /\ ops = 0 /\ deaths = 0

RunStep(r) ==
  SetRuntime(r) \/ MarkActive(r) \/ StartFails(r) \/ FailFinish(r)
  \/ WorkEnds(r) \/ ClearRuntime(r) \/ CloseDone(r)

PassStep(t) == PassEnter(t) \/ PassPick(t) \/ PassStart(t) \/ PassExit(t)

HandlerStep(h) ==
  LookupRuntime(h) \/ NilCancel(h) \/ WaitForStop(h) \/ PauseWrite(h) \/ Finalise(h)
  \/ Requeue(h) \/ SettingsApplied(h)

NewRequest(h) ==
  \/ \E j \in Job : Pause(h, j) \/ Resume(h, j) \/ Retry(h, j) \/ Cancel(h, j) \/ Remove(h, j)
  \/ Add(h)
  \/ \E c \in CapSet : ApplySettings(h, c)

BootStep == BootNext \/ BootDone

Next ==
  \/ \E r \in Run : RunStep(r)
  \/ \E t \in Thread : PassStep(t)
  \/ \E h \in Handler : HandlerStep(h) \/ NewRequest(h)
  \/ \E t \in Handler \cup {Boot} : Start(t)
  \/ \E h \in Handler, j \in Job : TimerFires(h, j)
  \/ BootStep \/ Restart \/ Crash

\* What the Go scheduler, the timers and the network grant: goroutines that
\* can go on do, a download ends one day, a timer fires.  Requests, deaths
\* and restarts are up to people.
Fairness ==
  /\ \A r \in Run : WF_vars(RunStep(r))
  /\ \A t \in Thread : WF_vars(PassStep(t))
  /\ \A h \in Handler : WF_vars(HandlerStep(h))
  /\ \A t \in Handler \cup {Boot} : WF_vars(Start(t))
  /\ \A j \in Job : WF_vars(\E h \in Handler : TimerFires(h, j))
  /\ WF_vars(BootStep)

Spec == Init /\ [][Next]_vars
FairSpec == Spec /\ Fairness

-----------------------------------------------------------------------------
(* Properties *)

\* No job is downloaded twice at once, and whatever is being downloaded can
\* be reached through d.runtimes to be cancelled (acquireSlot's id check, and
\* clearRuntime coming after the work): lose either and two workers write
\* one file, or a worker nobody can stop.
OneWorkerPerJob ==
  \A r \in Run : run[r].phase = "working" => rt[run[r].job] = r

\* A row says active only while a runtime stands for it: whoever ends a run
\* persists its outcome before clearRuntime, on every path, and the boot scan
\* normalises what a dead daemon left.  Holds when every store write succeeds.
ActiveRowHasRuntime ==
  \A j \in Job :
    row[j].st = "active" => \/ rt[j] # None
                            \/ up = "down"
                            \/ up = "booting" /\ j \in bootTodo

\* A failed row whose message announces an auto-retry has one coming
\* (finishJob, scheduleAutoRetry) while the daemon that announced it lives: a
\* timer that will fire, or a fired one on its way to requeue it.  Whatever
\* resumes, retries or cancels the job in between must not lose it.
PromisedRetryComes ==
  \A j \in Job :
    deaths = 0 /\ row[j].st = "failed" /\ row[j].due =>
      \/ timers[j] > 0
      \/ \E h \in Handler : th[h].op = "timer" /\ th[h].job = j /\ th[h].pc = "write"

\* Every job left waiting starts in the end, or somebody takes it out of the
\* queue (README: "start automatically, oldest first, as running ones finish -
\* nothing is dropped"): no wake-up of tryStartQueued is lost.
QueuedJobLeaves ==
  \A j \in Job : row[j].st = "queued" ~> (row[j].st # "queued" \/ up = "down")

\* What a dead daemon left downloading comes to an outcome under the next
\* one (resumeInterruptedJobs), whether there is a slot for it or not.
InterruptedJobSettles ==
  \A j \in Job :
    up = "booting" /\ row[j].st = "active" ~>
      row[j].st \notin {"active", "queued"} \/ up = "down"

\* Every request returns: whoever waits for a worker's done is woken.
RequestsReturn ==
  \A h \in Handler : th[h].pc # "idle" ~> th[h].pc = "idle"

WorkersOn(j) == {r \in Run : run[r].phase = "working" /\ run[r].job = j}

Pool == INSTANCE SlotPool WITH
  Jobs <- Job, Workers <- Run,
  limit <- cap, held <- Running, working <- [j \in Job |-> WorkersOn(j)]

\* The queue implements the slot pool.
ImplementsPool == Pool!PoolSpec

-----------------------------------------------------------------------------
(* Why they hold: inductive invariants *)

\* The phases of a runtime that is in the map.
Live == {"placeholder", "registered", "working", "finished"}

\* A goroutine, or a pass, that is about a job knows which.
JobsKnown ==
  /\ \A h \in Handler \cup {Boot} : th[h].pc \notin {"idle", "settings"} => th[h].job \in Job
  /\ \A t \in Thread : pass[t].pc \in {"start", "starting"} => pass[t].job \in Job

\* d.runtimes and the runtime structs point at each other: a job's entry is
\* its own, and a struct no entry stands for is not started or worked on
\* (acquireSlot, setRuntime and clearRuntime, each one critical section of d.mu).
SlotInv ==
  /\ \A j \in Job : rt[j] # None => run[rt[j]].job = j /\ run[rt[j]].phase \in Live
  /\ \A r \in Run : run[r].phase \in Live => run[r].job \in Job /\ rt[run[r].job] = r

\* Why an active row has a runtime: a worker persists its outcome before it leaves
\* the map, and the boot scan reads as active every row it still has to normalise.
ActiveInv ==
  /\ \A j \in Job :
       row[j].st = "active" => \/ rt[j] # None
                               \/ up = "down"
                               \/ up = "booting" /\ j \in bootTodo /\ bootRows[j].st = "active"
  /\ \A r \in Run : run[r].phase = "finished" => row[run[r].job].st # "active"

\* The phases in which the thread that called start has not returned from it.
Starting == {"placeholder", "registered", "failing"}

\* A goroutine starts one job at a time: a struct it is starting is its only one, and
\* it goes on with nothing else until start returns.
OneStart ==
  \A r \in Run : run[r].phase \in Starting /\ ~run[r].nested =>
    /\ run[r].by \in Handler \cup {Boot} /\ th[run[r].by].pc = "starting"
    /\ \A s \in Run \ {r} :
         run[s].phase \in Starting /\ ~run[s].nested => run[s].by # run[r].by

-----------------------------------------------------------------------------
(* What comments and documents say, and the code does not keep *)

\* pause "stops an active job's goroutine and waits for it": nobody calls the
\* cancel func a reservation does not have.
NoNilCancel == \A h \in Handler : ~CallsNil(h)

=============================================================================
