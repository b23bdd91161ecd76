----------------------------- MODULE TorBoxJob -----------------------------
(***************************************************************************)
(* Torrent jobs that go through a TorBox account (internal/daemon:         *)
(* start_torbox.go and the calls of lifecycle.go around it;                *)
(* internal/torbox).  Every job here is of the same torrent, which the     *)
(* account holds at most once: adding it again gives the copy that is      *)
(* there.  The account belongs to TorBox and is modelled from how the code *)
(* uses it.                                                                *)
(*                                                                         *)
(* A step is one API call, one file fetched by internal/downloader, or a   *)
(* write to the row with what the worker does up to its next wait.         *)
(***************************************************************************)
EXTENDS FiniteSets, Integers

CONSTANTS
  TbJob,       \* the jobs
  TbFile,      \* the torrent's files, all of them chosen
  FileSlots,   \* torboxFileConcurrency
  MaxFailures, \* torboxMaxFailures
  Refuses,     \* may TorBox refuse the torrent outright, or fail to fetch it?
  Flaky,       \* may a call fail for now?
  TbMaxOps,    \* bound: pauses, resumes, retries, removals, and copies gone
  TbMaxCrashes \* bound: deaths of the daemon

ASSUME TbAssumption == MaxFailures \in Nat

VARIABLES
  account,  \* TorBox's copy: what state it is in, and its id
  tbRow,    \* per job: status and Options.TorBoxID
  local,    \* per job and file: nothing, part of it with its sidecar, or all
  tb,       \* per job: where its worker is
  deleting, \* the ids that forgetTorBox's goroutines are about to delete
  keep,     \* Settings.TorBoxKeep
  tbOps, tbCrashes

tbVars == <<account, tbRow, local, tb, deleting, keep, tbOps, tbCrashes>>

NoTb == [pc |-> "off", id |-> 0, failures |-> 0, readded |-> FALSE, cancelled |-> FALSE, fetching |-> {}]

\* add: about to add the torrent; find: waits in TorBox's queue; save: has an id;
\* poll: waits until the files are ready; fetch: downloads them; delete, clear:
\* frees the account; finish: about to report.
TbPc == {"off", "add", "find", "save", "poll", "fetch", "failing", "delete", "clear", "finish"}

TbTypeOK ==
  /\ account.state \in {"gone", "queued", "working", "ready", "failed"} /\ account.id \in Nat
  /\ \A j \in TbJob : tbRow[j].st \in {"absent", "active", "paused", "completed", "failed"}
  /\ \A j \in TbJob : tb[j].pc \in TbPc /\ tb[j].failures \in 0..MaxFailures
  /\ local \in [TbJob -> [TbFile -> {"none", "part", "all"}]]

-----------------------------------------------------------------------------
(* The account (external) *)

\* A torrent in the account has an id once it has left the queue.
Known == account.state \in {"working", "ready", "failed"}

AddedTo == IF account.state = "gone" THEN {"queued", "working", "ready"} ELSE {account.state}

\* createtorrent: the torrent is there now; 0 when it is queued.
Accept(state) ==
  account' = [state |-> state,
              id |-> IF ~Known /\ state # "queued" THEN account.id + 1 ELSE account.id]

TorBoxWorks ==
  /\ \/ /\ account.state = "queued"
        /\ account' = [state |-> "working", id |-> account.id + 1]
     \/ /\ account.state = "working"
        /\ \E s \in {"ready"} \cup (IF Refuses THEN {"failed"} ELSE {}) :
             account' = [account EXCEPT !.state = s]
  /\ UNCHANGED <<tbRow, local, tb, deleting, keep, tbOps, tbCrashes>>

\* controltorrent: the copy of this id is gone; any other is left alone.
Deleted(id) == IF Known /\ account.id = id THEN [account EXCEPT !.state = "gone"] ELSE account

-----------------------------------------------------------------------------
(* The worker *)

TbGo(j, pc) == tb' = [tb EXCEPT ![j].pc = pc]

Off(j, outcome) ==
  /\ tb' = [tb EXCEPT ![j] = NoTb]
  /\ tbRow' = [tbRow EXCEPT ![j].st = outcome]

\* stop(err): whatever the error was, a cancelled job is paused.
TbStop(j, outcome) == Off(j, IF tb[j].cancelled THEN "paused" ELSE outcome)

\* One more call in a row has failed.
Failure(j) ==
  IF tb[j].failures + 1 >= MaxFailures THEN TbStop(j, "failed")
  ELSE tb' = [tb EXCEPT ![j].failures = @ + 1] /\ UNCHANGED tbRow

TbStarted(id) == [NoTb EXCEPT !.pc = IF id = 0 THEN "add" ELSE "poll", !.id = id]

TbAdd(j) ==
  /\ tb[j].pc = "add" /\ ~tb[j].cancelled
  /\ \/ \E state \in AddedTo :
          /\ Accept(state)
          /\ tb' = [tb EXCEPT ![j].pc = IF state = "queued" THEN "find" ELSE "save",
                              ![j].id = IF state = "queued" THEN 0 ELSE account'.id]
          /\ UNCHANGED tbRow
     \/ Refuses /\ TbStop(j, "failed") /\ UNCHANGED account
  /\ UNCHANGED <<local, deleting, keep, tbOps, tbCrashes>>

\* FindByHash: the queued torrent has got its id, or not yet.
TbFind(j) ==
  /\ tb[j].pc = "find" /\ ~tb[j].cancelled
  /\ Known
  /\ tb' = [tb EXCEPT ![j].pc = "save", ![j].id = account.id]
  /\ UNCHANGED <<account, tbRow, local, deleting, keep, tbOps, tbCrashes>>

TbSave(j) ==
  /\ tb[j].pc = "save"
  /\ tbRow' = [tbRow EXCEPT ![j].id = tb[j].id]
  /\ TbGo(j, "poll")
  /\ UNCHANGED <<account, local, deleting, keep, tbOps, tbCrashes>>

\* Mutant: a torrent that was deleted from the account is added again each time.
TbPollReadding(j) ==
  /\ tb[j].pc = "poll" /\ ~tb[j].cancelled
  /\ \/ /\ Known /\ account.id = tb[j].id
        /\ account.state = "ready"
        /\ tb' = [tb EXCEPT ![j].pc = "fetch", ![j].failures = 0] /\ UNCHANGED tbRow
     \/ /\ ~Known \/ account.id # tb[j].id
        /\ tb' = [tb EXCEPT ![j].pc = "add", ![j].id = 0] /\ UNCHANGED tbRow
  /\ UNCHANGED <<account, local, deleting, keep, tbOps, tbCrashes>>

\* Client.Torrent: its files are ready, it has failed there, or it is gone: added
\* again, once.
TbPoll(j) ==
  /\ tb[j].pc = "poll" /\ ~tb[j].cancelled
  /\ \/ /\ Known /\ account.id = tb[j].id
        /\ \/ account.state = "ready"
              /\ tb' = [tb EXCEPT ![j].pc = "fetch", ![j].failures = 0] /\ UNCHANGED tbRow
           \/ account.state = "working"
              /\ tb' = [tb EXCEPT ![j].failures = 0] /\ UNCHANGED tbRow
           \/ account.state = "failed" /\ TbStop(j, "failed")
     \/ /\ ~Known \/ account.id # tb[j].id
        /\ IF tb[j].readded THEN Failure(j)
           ELSE tb' = [tb EXCEPT ![j].pc = "add", ![j].id = 0, ![j].readded = TRUE] /\ UNCHANGED tbRow
  /\ UNCHANGED <<account, local, deleting, keep, tbOps, tbCrashes>>

\* A call fails for now: the network, or TorBox is busy.
TbCallFails(j) ==
  /\ Flaky
  /\ tb[j].pc \in {"add", "find", "poll"} /\ ~tb[j].cancelled
  /\ Failure(j)
  /\ UNCHANGED <<account, local, deleting, keep, tbOps, tbCrashes>>

\* ctx.Done while the worker waits.
TbStopped(j) ==
  /\ tb[j].pc \in {"add", "find", "poll"} /\ tb[j].cancelled
  /\ Off(j, "paused")
  /\ UNCHANGED <<account, local, deleting, keep, tbOps, tbCrashes>>

\* Mutant: a file of the right length is taken for a complete one.
CompleteByLength(j, f) == local[j][f] # "none"

\* torboxFileComplete: of the right length, and no sidecar beside it.
Complete(j, f) == local[j][f] = "all"

Left(j) == {f \in TbFile : ~Complete(j, f)}

\* torboxDownload gives a file one of its slots: Link, then downloader.Run, which
\* makes the file and its sidecar first.
FetchBegins(j, f) ==
  /\ tb[j].pc = "fetch" /\ ~tb[j].cancelled
  /\ f \in Left(j) \ tb[j].fetching /\ Cardinality(tb[j].fetching) < FileSlots
  /\ account.state = "ready" /\ account.id = tb[j].id
  /\ tb' = [tb EXCEPT ![j].fetching = @ \cup {f}]
  /\ local' = [local EXCEPT ![j][f] = "part"]
  /\ UNCHANGED <<account, tbRow, deleting, keep, tbOps, tbCrashes>>

FetchEnds(j, f) ==
  /\ f \in tb[j].fetching
  /\ tb' = [tb EXCEPT ![j].fetching = @ \ {f}]
  /\ local' = [local EXCEPT ![j][f] = "all"]
  /\ UNCHANGED <<account, tbRow, deleting, keep, tbOps, tbCrashes>>

\* The attempt is cancelled, or there is no link to a file: the other files stop
\* too...
FetchFails(j, f) ==
  /\ tb[j].pc = "fetch"
  /\ f \in Left(j)
  /\ tb[j].cancelled \/ account.state # "ready" \/ account.id # tb[j].id
  /\ tb' = [tb EXCEPT ![j].pc = "failing", ![j].fetching = {}]
  /\ UNCHANGED <<account, tbRow, local, deleting, keep, tbOps, tbCrashes>>

\* ...or the download of one fails of itself.
FetchBreaks(j, f) ==
  /\ Flaky /\ f \in tb[j].fetching
  /\ tb' = [tb EXCEPT ![j].pc = "failing", ![j].fetching = {}]
  /\ UNCHANGED <<account, tbRow, local, deleting, keep, tbOps, tbCrashes>>

TbFails(j) ==
  /\ tb[j].pc = "failing"
  /\ TbStop(j, "failed")
  /\ UNCHANGED <<account, local, deleting, keep, tbOps, tbCrashes>>

\* wg.Wait, then the test of ctx.
TbFetched(j) ==
  /\ tb[j].pc = "fetch" /\ tb[j].fetching = {} /\ Left(j) = {}
  /\ IF tb[j].cancelled THEN Off(j, "paused")
     ELSE TbGo(j, IF keep THEN "finish" ELSE "delete") /\ UNCHANGED tbRow
  /\ UNCHANGED <<account, local, deleting, keep, tbOps, tbCrashes>>

\* The account's slot is freed: best effort.
TbDelete(j) ==
  /\ tb[j].pc = "delete"
  /\ \/ account' = Deleted(tb[j].id) /\ TbGo(j, "clear")
     \/ Flaky /\ TbGo(j, "finish") /\ UNCHANGED account
  /\ UNCHANGED <<tbRow, local, deleting, keep, tbOps, tbCrashes>>

TbClear(j) ==
  /\ tb[j].pc = "clear"
  /\ tbRow' = [tbRow EXCEPT ![j].id = 0]
  /\ TbGo(j, "finish")
  /\ UNCHANGED <<account, local, deleting, keep, tbOps, tbCrashes>>

TbFinish(j) ==
  /\ tb[j].pc = "finish"
  /\ Off(j, "completed")
  /\ UNCHANGED <<account, local, deleting, keep, tbOps, tbCrashes>>

-----------------------------------------------------------------------------
(* Requests; a request that stops a worker has waited for it before it goes on *)

TbPause(j) ==
  /\ tb[j].pc # "off" /\ ~tb[j].cancelled /\ tbOps < TbMaxOps
  /\ tb' = [tb EXCEPT ![j].cancelled = TRUE]
  /\ tbOps' = tbOps + 1
  /\ UNCHANGED <<account, tbRow, local, deleting, keep, tbCrashes>>

TbResume(j) ==
  /\ tb[j].pc = "off" /\ tbRow[j].st \in {"paused", "failed"} /\ tbOps < TbMaxOps
  /\ tbRow' = [tbRow EXCEPT ![j].st = "active"]
  /\ tb' = [tb EXCEPT ![j] = TbStarted(tbRow[j].id)]
  /\ tbOps' = tbOps + 1
  /\ UNCHANGED <<account, local, deleting, keep, tbCrashes>>

\* forgetTorBox has nothing to do.
Forgotten(j) == tbRow[j].id = 0 \/ keep

\* retry: the copy is deleted before the torrent is added afresh.
TbRetry(j) ==
  /\ tb[j].pc = "off" /\ tbRow[j].st # "absent" /\ tbOps < TbMaxOps
  /\ account' \in {IF Forgotten(j) THEN account ELSE Deleted(tbRow[j].id)} \cup (IF Flaky THEN {account} ELSE {})
  /\ tbRow' = [tbRow EXCEPT ![j] = [st |-> "active", id |-> 0]]
  /\ tb' = [tb EXCEPT ![j] = TbStarted(0)]
  /\ tbOps' = tbOps + 1
  /\ UNCHANGED <<local, deleting, keep, tbCrashes>>

\* remove: the copy is deleted in the background.
TbRemove(j) ==
  /\ tb[j].pc = "off" /\ tbRow[j].st # "absent" /\ tbOps < TbMaxOps
  /\ deleting' = IF Forgotten(j) THEN deleting ELSE deleting \cup {tbRow[j].id}
  /\ tbRow' = [tbRow EXCEPT ![j] = [st |-> "absent", id |-> 0]]
  /\ tbOps' = tbOps + 1
  /\ UNCHANGED <<account, local, tb, keep, tbCrashes>>

DeleteBehind(id) ==
  /\ id \in deleting
  /\ deleting' = deleting \ {id}
  /\ account' \in {Deleted(id)} \cup (IF Flaky THEN {account} ELSE {})
  /\ UNCHANGED <<tbRow, local, tb, keep, tbOps, tbCrashes>>

\* Somebody deletes the torrent on TorBox's own pages.
AccountCleared ==
  /\ account.state # "gone" /\ tbOps < TbMaxOps
  /\ account' = [account EXCEPT !.state = "gone"]
  /\ tbOps' = tbOps + 1
  /\ UNCHANGED <<tbRow, local, tb, deleting, keep, tbCrashes>>

TbCrash ==
  /\ tbCrashes < TbMaxCrashes
  /\ tbCrashes' = tbCrashes + 1
  /\ tb' = [j \in TbJob |-> IF tbRow[j].st = "active" THEN TbStarted(tbRow[j].id) ELSE NoTb]
  /\ deleting' = {}
  /\ UNCHANGED <<account, tbRow, local, keep, tbOps>>

-----------------------------------------------------------------------------
TbInit ==
  /\ account = [state |-> "gone", id |-> 0]
  /\ tbRow \in [TbJob -> [st: {"active", "paused"}, id: {0}]]
  /\ local = [j \in TbJob |-> [f \in TbFile |-> "none"]]
  /\ tb = [j \in TbJob |-> IF tbRow[j].st = "active" THEN TbStarted(0) ELSE NoTb]
  /\ deleting = {} /\ keep \in BOOLEAN
  /\ tbOps = 0 /\ tbCrashes = 0

TbWork(j) ==
  \/ TbAdd(j) \/ TbFind(j) \/ TbSave(j) \/ TbPoll(j) \/ TbStopped(j) \/ TbFails(j)
  \/ \E f \in TbFile : FetchBegins(j, f) \/ FetchEnds(j, f) \/ FetchFails(j, f)
  \/ TbFetched(j) \/ TbDelete(j) \/ TbClear(j) \/ TbFinish(j)

TbNext ==
  \/ \E j \in TbJob : TbWork(j) \/ TbCallFails(j) \/ \E f \in TbFile : FetchBreaks(j, f)
  \/ \E j \in TbJob : TbPause(j) \/ TbResume(j) \/ TbRetry(j) \/ TbRemove(j)
  \/ TorBoxWorks \/ AccountCleared \/ TbCrash
  \/ \E id \in deleting : DeleteBehind(id)

TbSpec == TbInit /\ [][TbNext]_tbVars

TbFairness ==
  /\ \A j \in TbJob : WF_tbVars(TbWork(j))
  /\ WF_tbVars(TorBoxWorks)

TbFairSpec == TbSpec /\ TbFairness

-----------------------------------------------------------------------------
(* Properties *)

\* A job that is reported complete has every chosen file whole, whatever was
\* paused, killed or deleted from the account on the way: a file that is only
\* allocated is not taken for one that is there (torboxFileComplete).
TbCompletedHasFiles ==
  \A j \in TbJob : tbRow[j].st = "completed" => \A f \in TbFile : local[j][f] = "all"

\* A worker ends once TorBox has settled, however often the torrent is taken from
\* under it; only one whose torrent somebody took out of TorBox's queue polls for
\* an id that never comes (torboxWaitReady's inner loop has no way out of that).
TbAttemptEnds ==
  \A j \in TbJob :
    tb[j].pc # "off" ~> tb[j].pc = "off" \/ (tb[j].pc = "find" /\ account.state = "gone")
=============================================================================
