----------------------------- MODULE WebDAVJob -----------------------------
(***************************************************************************)
(* One webdav job from attempt to attempt (internal/daemon: webdav.go, and *)
(* the calls of lifecycle.go around it; internal/webdav: download.go): it  *)
(* walks the remote folder, downloads the files an earlier attempt has not *)
(* recorded, a few at a time, and records each in the row as it is done.   *)
(*                                                                         *)
(* The goroutine that launch started and one goroutine per file are the    *)
(* threads, with those of the walk.  A file is counted in blocks, a block  *)
(* being what one Read returns.  The tree on the server does not change; a *)
(* remote path that is a file is a folder of one.  Waiting in the host     *)
(* gate, in a limiter or for the server is part of the step it ends in.    *)
(***************************************************************************)
EXTENDS WebDAVWalk

CONSTANTS
  Size,         \* for each file, its blocks
  Concurrency,  \* webdavDownloadConcurrency
  StatMayFail,  \* can the PROPFIND of the job's own path fail?
  Breaks,       \* the files whose GET may fail of itself
  IgnoresRange, \* can the server answer a ranged GET with the whole file?
  Losable,      \* the files somebody may delete from the disk
  MaxOps,       \* bound: pauses, resumes, retries and lost files
  MaxKills      \* bound: deaths of the daemon

File == DOMAIN Size

\* A set of folders with everything in it.
Closed(S) == \A d \in S : Subfolders[d] \subseteq S

\* Every file is in some folder below the root.
JobAssumption ==
  /\ Size \in [File -> Nat] /\ FilesIn \in [Folder -> SUBSET File]
  /\ None \notin File \cup {"failed", "canceled"}
  /\ \A S \in SUBSET Folder :
       Root \in S /\ Closed(S) => File \subseteq UNION {FilesIn[d] : d \in S}
ASSUME JobAssumption

VARIABLES
  row,       \* the job's status and resolved_paths
  disk,      \* the length of each local file, -1 if there is none
  main,      \* where the job's goroutine is
  ctx,       \* has the attempt been cancelled?
  paused,    \* did somebody ask for that?
  known,     \* resolved_paths when the attempt began
  todo,      \* the pending files not started yet
  fl,        \* where each file's goroutine is
  err,       \* firstErr: None, "failed" or "canceled"
  read,      \* the resolved_paths that AppendResolvedPath has read
  locked,    \* resolvedMu: the file whose goroutine holds it
  ops, kills

attempt == <<ctx, paused, known, todo, fl, err, read, locked>>
vars == <<walkVars, row, disk, main, attempt, ops, kills>>

FileStage == {"none", "begun", "body", "done", "record", "recording"}

TypeOK ==
  /\ row \in [st: {"active", "paused", "failed", "completed"}, resolved: SUBSET File]
  /\ disk \in [File -> Int] /\ \A f \in File : disk[f] \in -1..Size[f]
  /\ main \in {"off", "stat", "walk", "spawn", "slot", "join"}
  /\ fl \in [File -> FileStage]
  /\ err \in {None, "failed", "canceled"}
  /\ active \in 0..Cardinality(Worker)

-----------------------------------------------------------------------------
(* The attempt ends *)

NoAttempt ==
  /\ main' = "off" /\ ctx' = FALSE /\ paused' = FALSE
  /\ known' = {} /\ todo' = {}
  /\ fl' = [f \in File |-> "none"]
  /\ err' = None /\ read' = {} /\ locked' = None

\* finishJob with this outcome; the runtime is cleared.
Finish(outcome) ==
  /\ row' = [row EXCEPT !.st = outcome]
  /\ EndWalk /\ NoAttempt
  /\ UNCHANGED <<disk, ops, kills>>

Failed == IF ctx THEN "paused" ELSE "failed"

-----------------------------------------------------------------------------
(* startWebDAV *)

StatFails ==
  /\ main = "stat"
  /\ \/ ctx /\ Finish("paused")
     \/ StatMayFail /\ Finish("failed")

Stat ==
  /\ main = "stat"
  /\ main' = "walk"
  /\ StartWalk(ctx)
  /\ UNCHANGED <<row, disk, attempt, ops, kills>>

Walk ==
  /\ main = "walk"
  /\ WalkStep
  /\ UNCHANGED <<row, disk, main, attempt, ops, kills>>

\* The walk has failed, by its own error or by the attempt's end.
WalkFails ==
  /\ main = "walk" /\ Walked
  /\ firstErr # None \/ ctx
  /\ Finish(Failed)

\* Mutant: what is recorded is downloaded again.
PendingAll == files

\* pendingWebDAVFiles: those that are not recorded, or no longer there.
Pending == {f \in files : f \notin known \/ disk[f] = -1}

WalkDone ==
  /\ main = "walk" /\ Walked
  /\ firstErr = None /\ ~ctx
  /\ main' = "spawn"
  /\ todo' = Pending
  /\ EndWalk
  /\ UNCHANGED <<row, disk, ctx, paused, known, fl, err, read, locked, ops, kills>>

\* downloadWebDAVFiles' loop: its test of ctx, then the wait for sem.
Spawn ==
  /\ main = "spawn"
  /\ main' = IF ctx \/ todo = {} THEN "join" ELSE "slot"
  /\ UNCHANGED <<walkVars, row, disk, attempt, ops, kills>>

Downloading == {f \in File : fl[f] \notin {"none", "done"}}

TakeSlot(f) ==
  /\ main = "slot" /\ f \in todo
  /\ Cardinality(Downloading) < Concurrency
  /\ main' = "spawn"
  /\ todo' = todo \ {f}
  /\ fl' = [fl EXCEPT ![f] = "begun"]
  /\ UNCHANGED <<walkVars, row, disk, ctx, paused, known, err, read, locked, ops, kills>>

\* Mutant: a failed file does not fail the job.
OutcomeIgnoringErr == IF ctx /\ err = None THEN "paused" ELSE "completed"

\* The switch at the end of startWebDAV.
Outcome ==
  IF err # None THEN IF err = "canceled" \/ ctx THEN "paused" ELSE "failed"
  ELSE IF ctx THEN "paused" ELSE "completed"

Join ==
  /\ main = "join" /\ Downloading = {}
  /\ Finish(Outcome)

-----------------------------------------------------------------------------
(* Download, a file's goroutine *)

\* The file's goroutine ends with an error, which cancels the whole job if it
\* is the first.
FileFails(f) ==
  /\ fl' = [fl EXCEPT ![f] = "done"]
  /\ err' = IF err # None THEN err ELSE IF ctx THEN "canceled" ELSE "failed"
  /\ ctx' = TRUE
  /\ UNCHANGED <<walkVars, row, main, paused, known, todo, read, locked, ops, kills>>

\* The whole file is coming: seekForStatus truncates what there is.
Whole(f) == disk' = [disk EXCEPT ![f] = 0]

\* The file is created if need be and the GET goes out, for the rest of it if
\* there is something already.  A complete file leaves nothing to ask for.
Respond(f) ==
  /\ fl[f] = "begun"
  /\ \/ /\ disk[f] < 1 \/ IgnoresRange
        /\ Whole(f)
        /\ fl' = [fl EXCEPT ![f] = "body"]
        /\ UNCHANGED <<walkVars, row, main, ctx, paused, known, todo, err, read, locked, ops, kills>>
     \/ /\ disk[f] \in 1..Size[f] - 1
        /\ fl' = [fl EXCEPT ![f] = "body"]
        /\ UNCHANGED <<walkVars, row, disk, main, ctx, paused, known, todo, err, read, locked,
                       ops, kills>>
     \/ /\ disk[f] = Size[f] \/ f \in Breaks \/ ctx
        /\ disk' = [disk EXCEPT ![f] = IF @ = -1 THEN 0 ELSE @]
        /\ FileFails(f)

\* One turn of bodyCopy.run's loop: a block, an error, or the end.
ReadBlock(f) ==
  /\ fl[f] = "body"
  /\ disk[f] < Size[f]
  /\ disk' = [disk EXCEPT ![f] = @ + 1]
  /\ UNCHANGED <<walkVars, row, main, attempt, ops, kills>>

ReadFails(f) ==
  /\ fl[f] = "body"
  /\ f \in Breaks \/ ctx
  /\ FileFails(f) /\ UNCHANGED disk

BodyEnds(f) ==
  /\ fl[f] = "body"
  /\ disk[f] = Size[f]
  /\ fl' = [fl EXCEPT ![f] = "record"]
  /\ UNCHANGED <<walkVars, row, disk, main, ctx, paused, known, todo, err, read, locked, ops, kills>>

\* Mutant: the row is read before the mutex is taken.
RecordReadUnlocked(f) ==
  /\ fl[f] = "record"
  /\ read' = row.resolved
  /\ fl' = [fl EXCEPT ![f] = "recording"]
  /\ UNCHANGED <<walkVars, row, disk, main, ctx, paused, known, todo, err, locked, ops, kills>>

\* AppendResolvedPath locks resolvedMu and reads the row...
RecordRead(f) ==
  /\ fl[f] = "record" /\ locked = None
  /\ locked' = f
  /\ read' = row.resolved
  /\ fl' = [fl EXCEPT ![f] = "recording"]
  /\ UNCHANGED <<walkVars, row, disk, main, ctx, paused, known, todo, err, ops, kills>>

\* ...and writes the column back.
RecordWrite(f) ==
  /\ fl[f] = "recording"
  /\ row' = [row EXCEPT !.resolved = read \cup {f}]
  /\ locked' = None /\ read' = {}
  /\ fl' = [fl EXCEPT ![f] = "done"]
  /\ UNCHANGED <<walkVars, disk, main, ctx, paused, known, todo, err, ops, kills>>

-----------------------------------------------------------------------------
(* Requests, and what happens to the machine *)

BeginAttempt(resolved) ==
  /\ row' = [st |-> "active", resolved |-> resolved]
  /\ main' = "stat" /\ ctx' = FALSE /\ paused' = FALSE
  /\ known' = resolved
  /\ todo' = {} /\ fl' = [f \in File |-> "none"]
  /\ err' = None /\ read' = {} /\ locked' = None

\* pause: rt.cancel; the worker's own finishJob writes the row.
Pause ==
  /\ main # "off" /\ ~paused /\ ops < MaxOps
  /\ paused' = TRUE /\ ctx' = TRUE
  /\ wctx' = (main = "walk" \/ wctx)
  /\ ops' = ops + 1
  /\ UNCHANGED <<queue, active, files, firstErr, watcher, at, row, disk, main, known, todo, fl,
                 err, read, locked, kills>>

Resume ==
  /\ main = "off" /\ row.st \in {"paused", "failed"} /\ ops < MaxOps
  /\ BeginAttempt(row.resolved)
  /\ ops' = ops + 1
  /\ UNCHANGED <<walkVars, disk, kills>>

\* retry, by hand or by the auto-retry timer: resetForRetry deletes the files
\* that are recorded.
Retry ==
  /\ main = "off" /\ row.st # "active" /\ ops < MaxOps
  /\ disk' = [f \in File |-> IF f \in row.resolved THEN -1 ELSE disk[f]]
  /\ BeginAttempt({})
  /\ ops' = ops + 1
  /\ UNCHANGED <<walkVars, kills>>

\* Somebody deletes a local file.
Lost(f) ==
  /\ f \in Losable
  /\ main = "off" /\ disk[f] # -1 /\ ops < MaxOps
  /\ disk' = [disk EXCEPT ![f] = -1]
  /\ ops' = ops + 1
  /\ UNCHANGED <<walkVars, row, main, attempt, kills>>

\* The daemon dies; the next one finds the row active and starts the job.
Kill ==
  /\ main # "off" /\ kills < MaxKills
  /\ kills' = kills + 1
  /\ BeginAttempt(row.resolved)
  /\ EndWalk
  /\ UNCHANGED <<disk, ops>>

-----------------------------------------------------------------------------
Init ==
  /\ NoWalk
  /\ row = [st |-> "active", resolved |-> {}]
  /\ disk = [f \in File |-> -1]
  /\ main = "stat" /\ ctx = FALSE /\ paused = FALSE
  /\ known = {} /\ todo = {}
  /\ fl = [f \in File |-> "none"]
  /\ err = None /\ read = {} /\ locked = None
  /\ ops = 0 /\ kills = 0

FileStep(f) ==
  Respond(f) \/ ReadBlock(f) \/ ReadFails(f) \/ BodyEnds(f) \/ RecordRead(f) \/ RecordWrite(f)

MainStep ==
  \/ StatFails \/ Stat \/ WalkFails \/ WalkDone \/ Spawn \/ Join
  \/ \E f \in File : TakeSlot(f)

Proceed == MainStep \/ Walk \/ \E f \in File : FileStep(f)

Next ==
  \/ Proceed
  \/ Pause \/ Resume \/ Retry \/ Kill
  \/ \E f \in File : Lost(f)

Spec == Init /\ [][Next]_vars

\* The goroutines run and the server answers or the request fails.
FairSpec == Spec /\ WF_vars(Proceed)

-----------------------------------------------------------------------------
(* Properties *)

\* A job that is reported complete has every file of the remote folder that
\* nobody deletes meanwhile, whole, on disk when it says so (startWebDAV's last
\* case), whatever was resumed, recorded by an earlier attempt or sent twice.
CompletesWithEveryFile ==
  [][row'.st = "completed" /\ row.st # "completed" =>
       \A f \in File \ Losable : disk'[f] = Size[f]]_vars

\* ...and every one of them is recorded, so that retry and remove --purge find
\* them: no record is lost between two files that finish together
\* (AppendResolvedPath under resolvedMu).
CompletesRecorded == row.st = "completed" => row.resolved = File

\* What an attempt has recorded no later attempt spoils, a pause or a kill at
\* any point notwithstanding: only a retry, or losing it, changes a recorded file
\* (pendingWebDAVFiles skips it).
RecordedStays ==
  [][\A f \in row.resolved :
       disk[f] = Size[f] => disk'[f] = Size[f] \/ ops' # ops]_vars

\* A walk that ends without an error has found the whole tree, and the error it
\* ends with is the first failure of its own, not a consequence of cancelling
\* the others (Walk: "recording it would mask the real error").
WalkIsSound ==
  Walked /\ main = "walk" =>
    /\ firstErr = None /\ ~ctx => files = File
    /\ firstErr # None => firstErr \in Fragile

\* An attempt ends, paused or not: no worker of the walk is left waiting for a
\* broadcast, no file's goroutine for a slot or for resolvedMu.
AttemptEnds == main # "off" ~> main = "off"

\* A job is paused because somebody paused it; one whose file failed is failed,
\* and retried ("a job that fails (not one you paused or canceled) is
\* automatically retried").
OnlyAPausePauses ==
  [][row'.st = "paused" /\ row.st = "active" => paused]_vars

=============================================================================
