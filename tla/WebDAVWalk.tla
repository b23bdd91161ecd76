----------------------------- MODULE WebDAVWalk -----------------------------
(***************************************************************************)
(* Client.Walk (internal/webdav: webdav.go): a pool of workers drains a    *)
(* shared queue of folders, each listed with one PROPFIND whose answer may *)
(* queue more.  They wait on one condition variable, which nothing wakes   *)
(* but their own broadcasts and, once the context is over, the goroutine   *)
(* that watches it.                                                        *)
(*                                                                         *)
(* A step is one critical section of mu, or what a worker does after it    *)
(* has unlocked mu (cancel, Broadcast).                                    *)
(***************************************************************************)
EXTENDS Naturals, SequencesExt

CONSTANTS
  Worker,      \* the walkConcurrency workers
  Folder,      \* the folders of the tree on the server
  Subfolders,  \* for each folder, the ones in it
  FilesIn,     \* for each folder, the files in it
  Root,        \* where the walk starts
  Fragile,     \* the folders whose PROPFIND may fail of itself
  None         \* a nil error

WalkAssumption ==
  /\ IsFiniteSet(Worker) /\ Worker # {} /\ IsFiniteSet(Folder) /\ None \notin Folder
  /\ Root \in Folder /\ Subfolders \in [Folder -> SUBSET Folder]
ASSUME WalkAssumption

VARIABLES
  queue,     \* the folders found but not yet listed
  active,    \* workers inside a PROPFIND
  files,     \* what has been found
  firstErr,  \* None, the folder whose own failure it is, or "canceled"
  wctx,      \* is the walk's context over?
  watcher,   \* has the goroutine that waits for wctx still to broadcast?
  at         \* where each worker is, and the folder it lists

walkVars == <<queue, active, files, firstErr, wctx, watcher, at>>

\* check: about to lock mu; waiting: in cond.Wait; listing: in a PROPFIND;
\* told: has queued what it found, not broadcast yet; failed: has not called
\* cancel yet; leaving: about to broadcast for the last time.
Stage == {"check", "waiting", "listing", "told", "failed", "leaving", "gone"}

NoWorker == [stage |-> "gone", folder |-> Root]

\* Walk is called; the context it is given may be over already.
StartWalk(over) ==
  /\ queue' = <<Root>> /\ active' = 0 /\ files' = {}
  /\ firstErr' = None
  /\ wctx' = over /\ watcher' = TRUE
  /\ at' = [w \in Worker |-> [stage |-> "check", folder |-> Root]]

\* No walk is running.
NoWalk ==
  /\ queue = <<>> /\ active = 0 /\ files = {}
  /\ firstErr = None
  /\ wctx = FALSE /\ watcher = FALSE
  /\ at = [w \in Worker |-> NoWorker]

EndWalk ==
  /\ queue' = <<>> /\ active' = 0 /\ files' = {}
  /\ firstErr' = None
  /\ wctx' = FALSE /\ watcher' = FALSE
  /\ at' = [w \in Worker |-> NoWorker]

Go(w, stage) == at' = [at EXCEPT ![w].stage = stage]

\* cond.Broadcast, the worker itself going on to stage.
Broadcast(w, stage) ==
  at' = [v \in Worker |->
          IF v = w THEN [at[v] EXCEPT !.stage = stage]
          ELSE IF at[v].stage = "waiting" THEN [at[v] EXCEPT !.stage = "check"] ELSE at[v]]

Over == firstErr # None \/ wctx

\* The loop's first critical section: wait, leave, or take the newest folder.
Check(w) ==
  /\ at[w].stage = "check"
  /\ \/ /\ queue = <<>> /\ active > 0 /\ ~Over
        /\ Go(w, "waiting") /\ UNCHANGED <<queue, active>>
     \/ /\ Over \/ (queue = <<>> /\ active = 0)
        /\ Go(w, "leaving") /\ UNCHANGED <<queue, active>>
     \/ /\ queue # <<>> /\ ~Over
        /\ at' = [at EXCEPT ![w] = [stage |-> "listing", folder |-> Last(queue)]]
        /\ queue' = Front(queue)
        /\ active' = active + 1
  /\ UNCHANGED <<files, firstErr, wctx, watcher>>

\* Mutant: a listing that has succeeded is still counted as under way.
ListedStillActive(w) ==
  /\ at[w].stage = "listing"
  /\ queue' = queue \o SetToSeq(Subfolders[at[w].folder])
  /\ files' = files \cup FilesIn[at[w].folder]
  /\ Go(w, "told")
  /\ UNCHANGED <<active, firstErr, wctx, watcher>>

\* List answers: the folder's own entry is left out of what it holds.
Listed(w) ==
  /\ at[w].stage = "listing"
  /\ active' = active - 1
  /\ queue' = queue \o SetToSeq(Subfolders[at[w].folder])
  /\ files' = files \cup FilesIn[at[w].folder]
  /\ Go(w, "told")
  /\ UNCHANGED <<firstErr, wctx, watcher>>

\* Mutant: cancel comes before the error is looked at.
ListFailsCancelFirst(w) ==
  /\ at[w].stage = "listing"
  /\ at[w].folder \in Fragile \/ wctx
  /\ active' = active - 1
  /\ wctx' = TRUE
  /\ Go(w, "failed")
  /\ UNCHANGED <<queue, files, firstErr, watcher>>

\* List fails, of itself (propfindTimeout included) or because wctx is over;
\* the latter is nobody's error.
ListFails(w) ==
  /\ at[w].stage = "listing"
  /\ at[w].folder \in Fragile \/ wctx
  /\ active' = active - 1
  /\ firstErr' = IF ~wctx /\ firstErr = None THEN at[w].folder ELSE firstErr
  /\ Go(w, "failed")
  /\ UNCHANGED <<queue, files, wctx, watcher>>

CancelWalk(w) ==
  /\ at[w].stage = "failed"
  /\ wctx' = TRUE
  /\ Go(w, "leaving")
  /\ UNCHANGED <<queue, active, files, firstErr, watcher>>

Tell(w) ==
  /\ at[w].stage = "told"
  /\ Broadcast(w, "check")
  /\ UNCHANGED <<queue, active, files, firstErr, wctx, watcher>>

Leave(w) ==
  /\ at[w].stage = "leaving"
  /\ Broadcast(w, "gone")
  /\ UNCHANGED <<queue, active, files, firstErr, wctx, watcher>>

\* The goroutine that waits for wctx wakes whoever waits.
WatcherWakes ==
  /\ watcher /\ wctx
  /\ watcher' = FALSE
  /\ at' = [w \in Worker |-> IF at[w].stage = "waiting" THEN [at[w] EXCEPT !.stage = "check"] ELSE at[w]]
  /\ UNCHANGED <<queue, active, files, firstErr, wctx>>

WalkStep ==
  \/ \E w \in Worker : Check(w) \/ Listed(w) \/ ListFails(w) \/ CancelWalk(w) \/ Tell(w) \/ Leave(w)
  \/ WatcherWakes

\* wg.Wait returns.
Walked == \A w \in Worker : at[w].stage = "gone"
=============================================================================
