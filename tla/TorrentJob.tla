----------------------------- MODULE TorrentJob -----------------------------
(***************************************************************************)
(* One torrent job over godl's own BitTorrent client (internal/daemon:     *)
(* start_torrent.go, seed.go, torrentselect.go and the torrent branches of *)
(* lifecycle.go; internal/torrentmgr).  The job's worker, the seeders it   *)
(* may leave behind, a request about it, a request that lists the files of *)
(* the same torrent, and the client library are concurrent.                *)
(*                                                                         *)
(* How a worker gets its slot and how waitForStop gives up is Scheduler's; *)
(* here a start is one step and a worker told to stop does.  Of a file     *)
(* only matters whether it is all there.                                   *)
(***************************************************************************)
EXTENDS FiniteSets, Naturals

CONSTANTS
  File,        \* the torrent's files
  Choices,     \* the selections a user makes, as the files they match
  Seeder,      \* the goroutines of startSeeding
  None,        \* no seeder, no selection
  SeedChoices, \* does the job seed once it is done? (JobOptions.Seeds)
  Requests,    \* the kinds of request made
  AddMayFail,  \* can Manager.Add fail?
  MaxOps,      \* bound: how many requests are made
  MaxCrashes   \* bound: deaths of the daemon

TorrentAssumption ==
  /\ Choices \subseteq SUBSET File /\ None \notin Seeder
  /\ SeedChoices \subseteq BOOLEAN
  /\ Requests \subseteq {"pause", "resume", "retry", "cancel", "remove", "select", "list"}
ASSUME TorrentAssumption

VARIABLES
  row,      \* the job's row: its status and its --files
  data,     \* the files that are all there on disk
  entry,    \* Manager.active: is the job in it, and is its torrent in the client?
  client,   \* is the torrent in the client?
  wanted,   \* Manager.wanted; None: the whole torrent
  worker,   \* the runtime's goroutine: where it is, is it cancelled, what it has read
  seeds,    \* JobOptions.Seeds of this job
  seeder,   \* where each seeder is
  seeding,  \* Daemon.seeders
  req,      \* the request being served
  lister,   \* where torrentChoice is in ListFiles
  past,     \* history: has selectFiles been asked for, was the job queued under a worker?
  ops, crashes

vars == <<row, data, entry, client, wanted, worker, seeds, seeder, seeding, req, lister, past, ops, crashes>>

Status == {"absent", "queued", "active", "paused", "completed", "seeding", "failed", "canceled"}
Row == [st: Status, spec: Choices]

NoWorker == [pc |-> "none", cancelled |-> FALSE, sel |-> {}, job |-> [st |-> "absent", spec |-> {}]]
NoRequest == [pc |-> "idle", op |-> "none", sel |-> {}, job |-> [st |-> "absent", spec |-> {}], seeder |-> None]

WorkerPc == {"none", "add", "info", "select", "record", "recording", "tick", "finish",
             "seed", "seeding", "release", "drop", "fail"}
RequestPc == {"idle", "choose", "unseed", "unseeding", "unseeded", "stop", "wait", "write", "start"}

TypeOK ==
  /\ row.st \in Status /\ data \subseteq File
  /\ entry \in {"none", "live", "dead"} /\ client \in BOOLEAN
  /\ worker.pc \in WorkerPc /\ req.pc \in RequestPc
  /\ seeder \in [Seeder -> {"none", "waiting", "running", "limit", "dropped"}]
  /\ seeding \in Seeder \cup {None}
  /\ lister \in {"idle", "borrows", "owns"} /\ past \subseteq {"select", "requeued"}

-----------------------------------------------------------------------------
(* The manager *)

\* A torrent that leaves the client is dead for whoever still holds it.
Dropped == IF entry = "live" THEN "dead" ELSE entry

\* Manager.Pause, and Cancel: out of the manager, and out of the client if the
\* job's torrent is the one that is there.
Release ==
  /\ entry' = "none" /\ wanted' = None
  /\ client' = (client /\ entry # "live")
  /\ lister' = IF entry = "live" /\ lister = "owns" THEN "borrows" ELSE lister

\* The files the client fetches for the job.
Fetching == IF wanted = None THEN File ELSE wanted

Done == entry # "none" /\ Fetching # {} /\ Fetching \subseteq data

\* The library downloads a file of a torrent that is in the client and has been
\* told which it wants.
Fetch(f) ==
  /\ client /\ entry = "live"
  /\ wanted # None /\ f \in wanted \ data
  /\ data' = data \cup {f}
  /\ UNCHANGED <<row, entry, client, wanted, worker, seeds, seeder, seeding, req, lister, ops,
                 crashes, past>>

-----------------------------------------------------------------------------
(* The worker (startTorrent) *)

Worker(pc) == worker' = [worker EXCEPT !.pc = pc]

\* start: a job that has no worker gets one and is active.
StartedRow(r) == [r EXCEPT !.st = "active"]
NewWorker(r) == [pc |-> "add", cancelled |-> FALSE, sel |-> r.spec, job |-> r]

Start(r) ==
  IF worker.pc = "none"
  THEN worker' = NewWorker(r) /\ row' = StartedRow(r)
  ELSE row' = r /\ UNCHANGED worker

\* clearRuntime and its pass over the queue: the worker is gone, and if its own
\* job has been queued meanwhile it starts again.
Exit(r) ==
  IF r.st = "queued" THEN worker' = NewWorker(r) /\ row' = StartedRow(r)
  ELSE worker' = NoWorker /\ row' = r

Add ==
  /\ worker.pc = "add"
  /\ \/ entry' = "live" /\ client' = TRUE /\ Worker("info")
     \/ AddMayFail /\ Worker("fail") /\ UNCHANGED <<entry, client>>
  /\ UNCHANGED <<row, data, wanted, seeds, seeder, seeding, req, lister, ops, crashes, past>>

GotInfo ==
  /\ worker.pc = "info" /\ entry # "dead"
  /\ Worker("select")
  /\ UNCHANGED <<row, data, entry, client, wanted, seeds, seeder, seeding, req, lister, ops,
                 crashes, past>>

\* ctx.Done, where the worker looks: it leaves the row to whoever cancelled it.
Stopped ==
  /\ worker.pc \in {"info", "tick"} /\ worker.cancelled
  /\ Exit(row)
  /\ UNCHANGED <<data, entry, client, wanted, seeds, seeder, seeding, req, lister, ops, crashes, past>>

\* Manager.Select: a torrent that is no longer in the manager, or files that do
\* not match, fail the job.
SelectFiles ==
  /\ worker.pc = "select"
  /\ IF entry = "none" THEN Worker("drop") /\ UNCHANGED wanted
     ELSE /\ wanted' = worker.sel
          /\ Worker(IF worker.sel = {} THEN "drop" ELSE "record")
  /\ UNCHANGED <<row, data, entry, client, seeds, seeder, seeding, req, lister, ops, crashes, past>>

Drop ==
  /\ worker.pc = "drop"
  /\ Release /\ Worker("fail")
  /\ UNCHANGED <<row, data, seeds, seeder, seeding, req, ops, crashes, past>>

Fail ==
  /\ worker.pc = "fail"
  /\ Exit(IF row.st = "absent" THEN row ELSE [row EXCEPT !.st = "failed"])
  /\ UNCHANGED <<data, entry, client, wanted, seeds, seeder, seeding, req, lister, ops, crashes, past>>

\* The info hash and the content's name are written with the whole row as it was.
RecordRead ==
  /\ worker.pc = "record"
  /\ worker' = [worker EXCEPT !.pc = "recording", !.job = row]
  /\ UNCHANGED <<row, data, entry, client, wanted, seeds, seeder, seeding, req, lister, ops,
                 crashes, past>>

RecordWrite ==
  /\ worker.pc = "recording"
  /\ row' = IF row.st = "absent" THEN row ELSE worker.job
  /\ Worker("tick")
  /\ UNCHANGED <<data, entry, client, wanted, seeds, seeder, seeding, req, lister, ops, crashes, past>>

\* Mutant: what is there is taken for what is wanted.
TickAnyFile ==
  /\ worker.pc = "tick" /\ entry # "none" /\ data # {}
  /\ Worker("finish")
  /\ UNCHANGED <<row, data, entry, client, wanted, seeds, seeder, seeding, req, lister, ops,
                 crashes, past>>

Tick ==
  /\ worker.pc = "tick" /\ Done
  /\ Worker("finish")
  /\ UNCHANGED <<row, data, entry, client, wanted, seeds, seeder, seeding, req, lister, ops,
                 crashes, past>>

Finish ==
  /\ worker.pc = "finish"
  /\ row' = IF row.st = "absent" THEN row ELSE [row EXCEPT !.st = "completed"]
  /\ Worker(IF seeds THEN "seed" ELSE "release")
  /\ UNCHANGED <<data, entry, client, wanted, seeds, seeder, seeding, req, lister, ops, crashes, past>>

ReleaseDone ==
  /\ worker.pc = "release"
  /\ Release /\ Exit(row)
  /\ UNCHANGED <<data, seeds, seeder, seeding, req, ops, crashes, past>>

-----------------------------------------------------------------------------
(* Seeding (seed.go) *)

\* startSeeding puts the seeder in the map...
Seed(s) ==
  /\ worker.pc = "seed" /\ seeder[s] = "none"
  /\ seeding' = s
  /\ seeder' = [seeder EXCEPT ![s] = "waiting"]
  /\ Worker("seeding")
  /\ UNCHANGED <<row, data, entry, client, wanted, seeds, req, lister, ops, crashes, past>>

\* ...then writes the status and starts the goroutine; the worker is done.
SeedingStarts(s) ==
  /\ worker.pc = "seeding" /\ seeder[s] = "waiting"
  /\ seeder' = [seeder EXCEPT ![s] = "running"]
  /\ Exit(IF row.st = "absent" THEN row ELSE [row EXCEPT !.st = "seeding"])
  /\ UNCHANGED <<data, entry, client, wanted, seeds, seeding, req, lister, ops, crashes, past>>

\* A limit is met: whatever seeder the map has for the job leaves it.
LimitMet(s) ==
  /\ seeder[s] = "running"
  /\ seeding' = None
  /\ seeder' = [seeder EXCEPT ![s] = "limit"]
  /\ UNCHANGED <<row, data, entry, client, wanted, worker, seeds, req, lister, ops, crashes, past>>

SeederDrops(s) ==
  /\ seeder[s] = "limit"
  /\ Release
  /\ seeder' = [seeder EXCEPT ![s] = "dropped"]
  /\ UNCHANGED <<row, data, worker, seeds, seeding, req, ops, crashes, past>>

SeederCompletes(s) ==
  /\ seeder[s] = "dropped"
  /\ seeder' = [seeder EXCEPT ![s] = "none"]
  /\ row' = IF row.st = "absent" THEN row ELSE [row EXCEPT !.st = "completed"]
  /\ UNCHANGED <<data, entry, client, wanted, worker, seeds, seeding, req, lister, ops, crashes, past>>

-----------------------------------------------------------------------------
(* Requests *)

Req(pc) == req' = [req EXCEPT !.pc = pc]
Reply == req' = NoRequest

\* What a request does first with the row it has read.
First(op, st) ==
  IF op = "pause" THEN IF st = "seeding" THEN "unseed" ELSE IF st \in {"active", "queued"} THEN "stop" ELSE "idle"
  ELSE IF op = "cancel" THEN IF st = "seeding" THEN "unseed" ELSE "stop"
  ELSE IF op = "resume" THEN IF st \in {"paused", "failed"} THEN "start" ELSE "idle"
  ELSE IF op = "select" THEN "choose"
  ELSE "unseed"

Request(op, sel) ==
  /\ req.pc = "idle" /\ ops < MaxOps /\ row.st # "absent"
  /\ op \in Requests \ {"list"} /\ sel \in (IF op = "select" THEN Choices ELSE {{}})
  /\ First(op, row.st) # "idle"
  /\ ops' = ops + 1
  /\ req' = [pc |-> First(op, row.st), op |-> op, sel |-> sel, job |-> row, seeder |-> None]
  /\ past' = past \cup ({op} \cap {"select"})
  /\ UNCHANGED <<row, data, entry, client, wanted, worker, seeds, seeder, seeding, lister, crashes>>

\* selectFiles switches a running torrent at once, or puts the choice back.
Choose ==
  /\ req.pc = "choose"
  /\ LET known == entry # "none" /\ worker.pc # "info"
         finished == req.job.st \in {"completed", "seeding"} IN
     /\ IF known /\ req.sel = {} THEN Reply ELSE Req(IF finished THEN "unseed" ELSE "write")
     /\ wanted' = IF known THEN IF req.sel = {} THEN req.job.spec ELSE req.sel ELSE wanted
  /\ UNCHANGED <<row, data, entry, client, worker, seeds, seeder, seeding, lister, ops, crashes, past>>

\* What comes after stopSeeding, by what it found.
AfterUnseeding(found) ==
  LET job == IF found /\ req.op = "retry" THEN row' ELSE req.job IN
  CASE req.op \in {"pause", "cancel"} -> Reply
    [] req.op = "remove" -> req' = [req EXCEPT !.pc = "stop"]
    [] req.op = "retry"  -> IF job.st \in {"active", "queued"} THEN Reply
                            ELSE req' = [req EXCEPT !.pc = "start", !.job = job]
    [] req.op = "select" -> req' = [req EXCEPT !.pc = "start"]

\* stopSeeding takes the seeder out of the map and cancels it...
Unseed ==
  /\ req.pc = "unseed"
  /\ seeding' = None
  /\ IF seeding = None THEN UNCHANGED row /\ AfterUnseeding(FALSE)
     ELSE UNCHANGED row /\ req' = [req EXCEPT !.pc = "unseeding", !.seeder = seeding]
  /\ UNCHANGED <<data, entry, client, wanted, worker, seeds, seeder, lister, ops, crashes, past>>

\* Mutant: a seeder looks for itself in the map before it obeys.
SeederStopsListed(s) ==
  /\ req.seeder = s /\ seeder[s] = "running" /\ seeding = s
  /\ seeder' = [seeder EXCEPT ![s] = "none"]
  /\ UNCHANGED <<row, data, entry, client, wanted, worker, seeds, seeding, req, lister, ops,
                 crashes, past>>

\* ...which ends it when it looks, unless it has reached its limit there...
SeederStops(s) ==
  /\ req.seeder = s /\ seeder[s] = "running"
  /\ seeder' = [seeder EXCEPT ![s] = "none"]
  /\ UNCHANGED <<row, data, entry, client, wanted, worker, seeds, seeding, req, lister, ops,
                 crashes, past>>

Unseeding ==
  /\ req.pc = "unseeding" /\ seeder[req.seeder] = "none"
  /\ req' = [req EXCEPT !.pc = "unseeded", !.seeder = None]
  /\ UNCHANGED <<row, data, entry, client, wanted, worker, seeds, seeder, seeding, lister, ops,
                 crashes, past>>

\* ...and leaves the torrent completed and out of the client.
Unseeded ==
  /\ req.pc = "unseeded"
  /\ Release
  /\ row' = [row EXCEPT !.st = "completed"]
  /\ AfterUnseeding(TRUE)
  /\ UNCHANGED <<data, worker, seeds, seeder, seeding, ops, crashes, past>>

\* Mutant: the status is written without waiting for the worker.
StopUnwaited ==
  /\ req.pc = "stop"
  /\ Release
  /\ worker' = IF worker.pc = "none" THEN worker ELSE [worker EXCEPT !.cancelled = TRUE]
  /\ Req("write")
  /\ UNCHANGED <<row, data, seeds, seeder, seeding, ops, crashes, past>>

\* pause, cancel and remove: the torrent out of the client, the worker told.
Stop ==
  /\ req.pc = "stop"
  /\ Release
  /\ worker' = IF worker.pc = "none" THEN worker ELSE [worker EXCEPT !.cancelled = TRUE]
  /\ Req(IF worker.pc = "none" THEN "write" ELSE "wait")
  /\ UNCHANGED <<row, data, seeds, seeder, seeding, ops, crashes, past>>

Waited ==
  /\ req.pc = "wait" /\ ~worker.cancelled
  /\ Req("write")
  /\ UNCHANGED <<row, data, entry, client, wanted, worker, seeds, seeder, seeding, lister, ops,
                 crashes, past>>

Write ==
  /\ req.pc = "write"
  /\ row' = CASE req.op = "pause"  -> [row EXCEPT !.st = "paused"]
              [] req.op = "cancel" -> [row EXCEPT !.st = "canceled"]
              [] req.op = "remove" -> [row EXCEPT !.st = "absent"]
              [] req.op = "select" -> [st |-> req.job.st, spec |-> req.sel]
  /\ Reply
  /\ UNCHANGED <<data, entry, client, wanted, worker, seeds, seeder, seeding, lister, ops,
                 crashes, past>>

\* resume, retry, and selectFiles on a finished torrent: the whole row, queued,
\* and start.
Startup ==
  /\ req.pc = "start"
  /\ Start([st |-> "queued", spec |-> IF req.op = "select" THEN req.sel ELSE req.job.spec])
  /\ Reply
  /\ past' = past \cup (IF worker.pc = "none" THEN {} ELSE {"requeued"})
  /\ UNCHANGED <<data, entry, client, wanted, seeds, seeder, seeding, lister, ops, crashes>>

\* torrentChoice of a job whose files are not known: ListFiles adds the torrent
\* to the client unless it is there...
List ==
  /\ "list" \in Requests /\ lister = "idle" /\ ops < MaxOps
  /\ entry = "none" \/ worker.pc = "info"
  /\ ops' = ops + 1
  /\ lister' = IF client THEN "borrows" ELSE "owns"
  /\ client' = TRUE
  /\ UNCHANGED <<row, data, entry, wanted, worker, seeds, seeder, seeding, req, crashes, past>>

\* ...and drops it again when it has the list, or has waited long enough.
Listed ==
  /\ lister # "idle"
  /\ lister' = "idle"
  /\ IF lister = "owns" THEN client' = FALSE /\ entry' = Dropped ELSE UNCHANGED <<client, entry>>
  /\ UNCHANGED <<row, data, wanted, worker, seeds, seeder, seeding, req, ops, crashes, past>>

\* Mutant: what was seeding is left as it is.
CrashKeepsSeeding ==
  /\ crashes < MaxCrashes
  /\ crashes' = crashes + 1
  /\ entry' = "none" /\ wanted' = None /\ client' = FALSE
  /\ seeder' = [s \in Seeder |-> "none"] /\ seeding' = None
  /\ req' = NoRequest /\ lister' = "idle"
  /\ CASE row.st \in {"active", "queued"} -> worker' = NewWorker(row) /\ row' = StartedRow(row)
       [] OTHER -> worker' = NoWorker /\ UNCHANGED row
  /\ UNCHANGED <<data, seeds, ops, past>>

\* The daemon dies, or is stopped, and the next one settles what it finds.
Crash ==
  /\ crashes < MaxCrashes
  /\ crashes' = crashes + 1
  /\ entry' = "none" /\ wanted' = None /\ client' = FALSE
  /\ seeder' = [s \in Seeder |-> "none"] /\ seeding' = None
  /\ req' = NoRequest /\ lister' = "idle"
  /\ CASE row.st = "seeding" -> row' = [row EXCEPT !.st = "completed"] /\ worker' = NoWorker
       [] row.st \in {"active", "queued"} -> worker' = NewWorker(row) /\ row' = StartedRow(row)
       [] OTHER -> worker' = NoWorker /\ UNCHANGED row
  /\ UNCHANGED <<data, seeds, ops, past>>

-----------------------------------------------------------------------------
Init ==
  /\ row \in [st: {"active", "paused"}, spec: Choices \ {{}}]
  /\ data = {} /\ entry = "none" /\ client = FALSE /\ wanted = None
  /\ worker = IF row.st = "active" THEN NewWorker(row) ELSE NoWorker
  /\ seeds \in SeedChoices
  /\ seeder = [s \in Seeder |-> "none"] /\ seeding = None
  /\ req = NoRequest /\ lister = "idle" /\ past = {} /\ ops = 0 /\ crashes = 0

WorkerStep ==
  \/ Add \/ GotInfo \/ Stopped \/ SelectFiles \/ Drop \/ Fail
  \/ RecordRead \/ RecordWrite \/ Tick \/ Finish \/ ReleaseDone
  \/ \E s \in Seeder : Seed(s) \/ SeedingStarts(s)

RequestStep ==
  Choose \/ Unseed \/ Unseeding \/ Unseeded \/ Stop \/ Waited \/ Write \/ Startup \/ Listed

Next ==
  \/ WorkerStep \/ RequestStep
  \/ \E f \in File : Fetch(f)
  \/ \E s \in Seeder : LimitMet(s) \/ SeederStops(s) \/ SeederDrops(s) \/ SeederCompletes(s)
  \/ \E op \in Requests, sel \in Choices \cup {{}} : Request(op, sel)
  \/ List \/ Crash

Spec == Init /\ [][Next]_vars

Fairness ==
  /\ WF_vars(WorkerStep) /\ WF_vars(RequestStep)
  /\ \A f \in File : WF_vars(Fetch(f))
  /\ \A s \in Seeder : WF_vars(SeederStops(s) \/ SeederDrops(s) \/ SeederCompletes(s))

FairSpec == Spec /\ Fairness

-----------------------------------------------------------------------------
(* Properties *)

\* A job that says it is seeding has a goroutine that looks after it, or a request
\* that is just taking it out; none is left seeding by a death of the daemon
\* (seed.go: reconcileSeeding, and stopSeeding against a limit that is met).
SeedingHasSeeder ==
  row.st = "seeding" =>
    (\E s \in Seeder : seeder[s] # "none") \/ req.pc \in {"unseeding", "unseeded"}

\* A job that never seeds and was paused or canceled stays so until somebody asks
\* for something else: its worker has had its last word by then (finishJob's
\* comment: "exactly one writer").  Jobs that seed are left out, because a seeder
\* that has just met its limit writes completed over whatever came after it, and
\* jobs that were queued again under a worker that had only its torrent left to
\* release, which starts them again behind the request that waits for it.
StoppedStays ==
  [][~seeds /\ "requeued" \notin past
     /\ row.st \in {"paused", "canceled"} /\ row' # row => req.pc # "idle"]_vars

\* What is reported completed or seeding has every file of its --files, through
\* pauses, seeders that end, listings and deaths of the daemon.  selectFiles can
\* widen the selection of a worker that has already seen its last file arrive, so
\* the claim is for jobs whose selection nobody changed.
CompletedHasFiles ==
  "select" \notin past /\ row.st \in {"completed", "seeding"} => row.spec \subseteq data

\* Pause, resume, retry, cancel, remove and selectFiles return, seeder or not:
\* stopSeeding waits for a goroutine that may meet its limit at that moment.
RequestsReturn == req.pc # "idle" ~> req.pc = "idle"

=============================================================================
