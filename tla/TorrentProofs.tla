---------------------------- MODULE TorrentProofs ----------------------------
(***************************************************************************)
(* Proofs about torrent jobs: at a TorBox account (TorBoxJob) and over     *)
(* godl's own client (TorrentJob), for any files, jobs, seeders, requests  *)
(* and deaths of the daemon.                                               *)
(***************************************************************************)
EXTENDS TorrentJob, TorBoxJob, TLAPS

(* TorBoxJob *)

TbStatus == {"absent", "active", "paused", "completed", "failed"}
LocalState == {"none", "part", "all"}

TbWorker == [pc : TbPc, id : Nat, failures : 0..MaxFailures, readded : BOOLEAN,
             cancelled : BOOLEAN, fetching : SUBSET TbFile]

Account == [state : {"gone", "queued", "working", "ready", "failed"}, id : Nat]

TbTypes ==
  /\ account \in Account
  /\ tbRow \in [TbJob -> [st : TbStatus, id : Nat]]
  /\ tb \in [TbJob -> TbWorker]
  /\ local \in [TbJob -> [TbFile -> LocalState]]

AllThere(j) == \A f \in TbFile : local[j][f] = "all"

\* The strengthening: a job that says it is completed has no worker that could begin a
\* file again, a worker that is past the fetch has left no file out, and only a worker
\* in the fetch has files under way.
FetchedIsThere(j) ==
  /\ tbRow[j].st = "completed" => tb[j].pc = "off" /\ AllThere(j)
  /\ tb[j].pc \in {"delete", "clear", "finish"} => AllThere(j)
  /\ tb[j].fetching # {} => tb[j].pc = "fetch"

TbInv == TbTypes /\ \A j \in TbJob : FetchedIsThere(j)

-----------------------------------------------------------------------------

LEMMA NoTbFits == NoTb \in TbWorker /\ NoTb.pc = "off" /\ NoTb.fetching = {}
BY TbAssumption DEF NoTb, TbWorker, TbPc, TbAssumption

LEMMA StartedFits ==
  ASSUME NEW id \in Nat
  PROVE  /\ TbStarted(id) \in TbWorker /\ TbStarted(id).fetching = {}
         /\ TbStarted(id).pc \in {"add", "poll"}
<1> DEFINE pc == IF id = 0 THEN "add" ELSE "poll"
<1>1. TbStarted(id) = [NoTb EXCEPT !.pc = pc, !.id = id]
  BY DEF TbStarted
<1>2. pc \in {"add", "poll"} /\ pc \in TbPc
  BY DEF TbPc
<1> HIDE DEF pc
<1> QED BY <1>1, <1>2, NoTbFits DEF TbWorker

\* A step that writes one job's row and its worker's state keeps the invariant when what
\* it writes does.
LEMMA TbStepOfOne ==
  ASSUME TbInv, NEW j \in TbJob, NEW w \in TbWorker, NEW r \in [st : TbStatus, id : Nat],
         tb' = [tb EXCEPT ![j] = w], tbRow' = [tbRow EXCEPT ![j] = r],
         account' \in Account, local' = local,
         r.st = "completed" => w.pc = "off" /\ AllThere(j),
         w.pc \in {"delete", "clear", "finish"} => AllThere(j),
         w.fetching # {} => w.pc = "fetch"
  PROVE  TbInv'
<1>1. TbTypes'
  BY DEF TbInv, TbTypes
<1>2. ASSUME NEW i \in TbJob PROVE FetchedIsThere(i)'
  BY DEF TbInv, TbTypes, FetchedIsThere, AllThere
<1> QED BY <1>1, <1>2 DEF TbInv

\* The same for a step that leaves the row alone.
LEMMA TbStepOfWorker ==
  ASSUME TbInv, NEW j \in TbJob, NEW w \in TbWorker,
         tb' = [tb EXCEPT ![j] = w], UNCHANGED <<tbRow, local>>, account' \in Account,
         w.pc # "off" => tb[j].pc # "off",
         w.pc = "off" => w.fetching = {},
         w.pc \in {"delete", "clear", "finish"} => AllThere(j),
         w.fetching # {} => w.pc = "fetch"
  PROVE  TbInv'
<1>1. TbTypes'
  BY DEF TbInv, TbTypes
<1>2. ASSUME NEW i \in TbJob PROVE FetchedIsThere(i)'
  BY DEF TbInv, TbTypes, FetchedIsThere, AllThere
<1> QED BY <1>1, <1>2 DEF TbInv

LEMMA OffKeeps ==
  ASSUME TbInv, NEW j \in TbJob, NEW outcome \in TbStatus, Off(j, outcome),
         account' \in Account, local' = local, outcome = "completed" => AllThere(j)
  PROVE  TbInv'
<1> DEFINE r == [tbRow[j] EXCEPT !.st = outcome]
<1>1. r \in [st : TbStatus, id : Nat] /\ r.st = outcome
  BY DEF TbInv, TbTypes
<1>2. tb' = [tb EXCEPT ![j] = NoTb] /\ tbRow' = [tbRow EXCEPT ![j] = r]
  BY DEF Off
<1> HIDE DEF r
<1> QED BY <1>1, <1>2, NoTbFits, TbStepOfOne

-----------------------------------------------------------------------------
(* The steps *)

LEMMA TbInitFits == TbInit => TbInv
<1> SUFFICES ASSUME TbInit PROVE TbInv
  OBVIOUS
<1>1. \A j \in TbJob : /\ tb[j] \in TbWorker /\ tb[j].fetching = {}
                      /\ tb[j].pc \in {"add", "poll", "off"}
  BY NoTbFits, StartedFits DEF TbInit
<1>2. tb \in [TbJob -> TbWorker]
  BY <1>1 DEF TbInit
<1>3. TbTypes
  BY <1>2 DEF TbInit, TbTypes, Account, TbStatus, LocalState
<1>4. \A j \in TbJob : FetchedIsThere(j)
  BY <1>1 DEF TbInit, FetchedIsThere
<1> QED BY <1>3, <1>4 DEF TbInv

\* One more failed call: the worker waits, or is done.
LEMMA FailureKeeps ==
  ASSUME TbInv, NEW j \in TbJob, Failure(j), tb[j].pc \in {"add", "find", "poll"},
         UNCHANGED <<account, local>>
  PROVE  TbInv'
<1> USE DEF TbInv, TbTypes
<1>1. CASE tb[j].failures + 1 >= MaxFailures
  BY <1>1, OffKeeps DEF Failure, TbStop, TbStatus
<1>2. CASE ~(tb[j].failures + 1 >= MaxFailures)
  <2> DEFINE w == [tb[j] EXCEPT !.failures = @ + 1]
  <2>1. tb' = [tb EXCEPT ![j] = w]
    BY <1>2 DEF Failure
  <2>2. tb[j] \in TbWorker /\ FetchedIsThere(j)
    OBVIOUS
  <2>3. w \in TbWorker /\ w.pc = tb[j].pc /\ w.fetching = {}
    BY <1>2, <2>2, TbAssumption DEF TbWorker, FetchedIsThere, TbAssumption
  <2> HIDE DEF w
  <2> QED BY <1>2, <2>1, <2>3, TbStepOfWorker DEF Failure
<1> QED BY <1>1, <1>2

LEMMA TbAddKeeps ==
  ASSUME TbInv, NEW j \in TbJob, TbAdd(j)
  PROVE  TbInv'
<1> USE DEF TbInv, TbTypes
<1>1. CASE Refuses /\ TbStop(j, "failed") /\ UNCHANGED account
  BY <1>1, OffKeeps DEF TbAdd, TbStop, TbStatus
<1>2. ASSUME NEW state \in AddedTo, Accept(state),
             tb' = [tb EXCEPT ![j].pc = IF state = "queued" THEN "find" ELSE "save",
                              ![j].id = IF state = "queued" THEN 0 ELSE account'.id],
             UNCHANGED tbRow
      PROVE  TbInv'
  <2> DEFINE pc == IF state = "queued" THEN "find" ELSE "save"
             id == IF state = "queued" THEN 0 ELSE account'.id
             w == [tb[j] EXCEPT !.pc = pc, !.id = id]
  <2>1. account' \in Account
    BY <1>2 DEF Accept, AddedTo, Account
  <2>2. tb' = [tb EXCEPT ![j] = w]
    BY <1>2
  <2>3. pc \in {"find", "save"} /\ pc \in TbPc /\ id \in Nat
    BY <2>1 DEF TbPc, Account
  <2>4. tb[j] \in TbWorker /\ tb[j].fetching = {} /\ tb[j].pc # "off"
    BY DEF TbAdd, FetchedIsThere
  <2> HIDE DEF pc, id
  <2>5. w \in TbWorker /\ w.pc = pc /\ w.fetching = {}
    BY <2>3, <2>4 DEF TbWorker
  <2> HIDE DEF w
  <2> QED BY <1>2, <2>1, <2>2, <2>3, <2>4, <2>5, TbStepOfWorker DEF TbAdd
<1> QED BY <1>1, <1>2 DEF TbAdd

LEMMA TbFindKeeps ==
  ASSUME TbInv, NEW j \in TbJob, TbFind(j)
  PROVE  TbInv'
<1> DEFINE w == [tb[j] EXCEPT !.pc = "save", !.id = account.id]
<1>1. tb' = [tb EXCEPT ![j] = w] /\ tb[j].pc = "find"
  BY DEF TbFind
<1>2. tb[j] \in TbWorker /\ account \in Account /\ tb[j].fetching = {}
  BY <1>1 DEF TbInv, TbTypes, FetchedIsThere
<1>3. w \in TbWorker /\ w.pc = "save" /\ w.fetching = {}
  BY <1>2 DEF TbWorker, TbPc, Account
<1> HIDE DEF w
<1> QED BY <1>1, <1>2, <1>3, TbStepOfWorker DEF TbFind

\* A worker that goes on to its next wait, with nothing under way.
LEMMA TbGoKeeps ==
  ASSUME TbInv, NEW j \in TbJob, NEW pc \in TbPc \ {"off"}, TbGo(j, pc),
         tb[j].pc # "off", tb[j].fetching = {}, account' \in Account, local' = local,
         NEW r \in [st : TbStatus, id : Nat], tbRow' = [tbRow EXCEPT ![j] = r],
         r.st = tbRow[j].st, pc \in {"delete", "clear", "finish"} => AllThere(j)
  PROVE  TbInv'
<1> DEFINE w == [tb[j] EXCEPT !.pc = pc]
<1>1. tb' = [tb EXCEPT ![j] = w] /\ r.st # "completed"
  BY DEF TbGo, TbInv, FetchedIsThere
<1>2. tb[j] \in TbWorker
  BY DEF TbInv, TbTypes
<1>3. w \in TbWorker /\ w.pc = pc /\ w.fetching = {}
  BY <1>2 DEF TbWorker
<1> HIDE DEF w
<1> QED BY <1>1, <1>3, TbStepOfOne

\* The same when the row is left alone.
LEMMA TbWaitsNext ==
  ASSUME TbInv, NEW j \in TbJob, NEW pc \in TbPc \ {"off"}, TbGo(j, pc),
         tb[j].pc # "off", tb[j].fetching = {}, account' \in Account,
         UNCHANGED <<local, tbRow>>, pc \in {"delete", "clear", "finish"} => AllThere(j)
  PROVE  TbInv'
<1>1. tbRow[j] \in [st : TbStatus, id : Nat] /\ tbRow' = [tbRow EXCEPT ![j] = tbRow[j]]
  BY DEF TbInv, TbTypes
<1> QED BY <1>1, TbGoKeeps

LEMMA TbPollKeeps ==
  ASSUME TbInv, NEW j \in TbJob, TbPoll(j)
  PROVE  TbInv'
<1>1. /\ tb[j] \in TbWorker /\ account \in Account /\ account' = account
      /\ tb[j].fetching = {} /\ tb[j].pc = "poll" /\ local' = local
      /\ 0 \in 0..MaxFailures /\ "fetch" \in TbPc /\ "add" \in TbPc /\ 0 \in Nat
  BY TbAssumption DEF TbInv, TbTypes, TbPoll, FetchedIsThere, TbAssumption, TbPc
<1>2. CASE TbStop(j, "failed")
  BY <1>1, <1>2, OffKeeps DEF TbStop, TbStatus
<1>3. CASE Failure(j)
  BY <1>1, <1>3, FailureKeeps
<1>4. CASE tb' = [tb EXCEPT ![j].pc = "fetch", ![j].failures = 0] /\ UNCHANGED tbRow
  <2> DEFINE w == [tb[j] EXCEPT !.pc = "fetch", !.failures = 0]
  <2>1. tb' = [tb EXCEPT ![j] = w]
    BY <1>4
  <2>2. w \in TbWorker /\ w.pc = "fetch" /\ w.fetching = {}
    BY <1>1 DEF TbWorker
  <2> HIDE DEF w
  <2> QED BY <1>1, <1>4, <2>1, <2>2, TbStepOfWorker
<1>5. CASE tb' = [tb EXCEPT ![j].failures = 0] /\ UNCHANGED tbRow
  <2> DEFINE w == [tb[j] EXCEPT !.failures = 0]
  <2>1. tb' = [tb EXCEPT ![j] = w]
    BY <1>5
  <2>2. w \in TbWorker /\ w.pc = "poll" /\ w.fetching = {}
    BY <1>1 DEF TbWorker
  <2> HIDE DEF w
  <2> QED BY <1>1, <1>5, <2>1, <2>2, TbStepOfWorker
<1>6. CASE /\ tb' = [tb EXCEPT ![j].pc = "add", ![j].id = 0, ![j].readded = TRUE]
           /\ UNCHANGED tbRow
  <2> DEFINE w == [tb[j] EXCEPT !.pc = "add", !.id = 0, !.readded = TRUE]
  <2>1. tb' = [tb EXCEPT ![j] = w]
    BY <1>6
  <2>2. w \in TbWorker /\ w.pc = "add" /\ w.fetching = {}
    BY <1>1 DEF TbWorker
  <2> HIDE DEF w
  <2> QED BY <1>1, <1>6, <2>1, <2>2, TbStepOfWorker
<1> QED BY <1>2, <1>3, <1>4, <1>5, <1>6 DEF TbPoll

\* A step of one file's fetch: it may only add to what is there, and a file that is begun
\* again belongs to a worker in the fetch.
LEMMA FileStepKeeps ==
  ASSUME TbInv, NEW j \in TbJob, NEW f \in TbFile, NEW part \in LocalState,
         NEW w \in TbWorker, w.pc = "fetch", tb[j].pc = "fetch",
         tb' = [tb EXCEPT ![j] = w], local' = [local EXCEPT ![j][f] = part],
         UNCHANGED <<tbRow, account>>
  PROVE  TbInv'
<1>1. TbTypes'
  BY DEF TbInv, TbTypes
<1>2. ASSUME NEW i \in TbJob PROVE FetchedIsThere(i)'
  <2>1. FetchedIsThere(i) /\ FetchedIsThere(j)
    BY DEF TbInv
  <2>2. CASE i = j
    BY <2>1, <2>2 DEF TbInv, TbTypes, FetchedIsThere
  <2>3. CASE i # j
    <3>1. tb'[i] = tb[i] /\ local'[i] = local[i]
      BY <2>3 DEF TbInv, TbTypes
    <3> QED BY <2>1, <3>1 DEF FetchedIsThere, AllThere
  <2> QED BY <2>2, <2>3
<1> QED BY <1>1, <1>2 DEF TbInv

LEMMA FetchBeginsKeeps ==
  ASSUME TbInv, NEW j \in TbJob, NEW f \in TbFile, FetchBegins(j, f) \/ FetchEnds(j, f)
  PROVE  TbInv'
<1> DEFINE part == IF FetchBegins(j, f) THEN "part" ELSE "all"
           fetching == IF FetchBegins(j, f) THEN tb[j].fetching \cup {f} ELSE tb[j].fetching \ {f}
<1>0. /\ tb' = [tb EXCEPT ![j].fetching = fetching]
      /\ local' = [local EXCEPT ![j][f] = part]
  BY DEF FetchBegins, FetchEnds
<1> DEFINE w == [tb[j] EXCEPT !.fetching = fetching]
<1>1. tb[j] \in TbWorker /\ tb[j].pc = "fetch"
  BY DEF FetchBegins, FetchEnds, TbInv, TbTypes, FetchedIsThere
<1>2. part \in LocalState /\ fetching \in SUBSET TbFile
  BY <1>1 DEF LocalState, TbWorker
<1> HIDE DEF part, fetching
<1>3. tb' = [tb EXCEPT ![j] = w] /\ w \in TbWorker /\ w.pc = "fetch"
  BY <1>0, <1>1, <1>2 DEF TbWorker
<1> HIDE DEF w
<1> QED BY <1>0, <1>1, <1>2, <1>3, FileStepKeeps DEF FetchBegins, FetchEnds

LEMMA FetchFailsKeeps ==
  ASSUME TbInv, NEW j \in TbJob, NEW f \in TbFile, FetchFails(j, f) \/ FetchBreaks(j, f)
  PROVE  TbInv'
<1> DEFINE w == [tb[j] EXCEPT !.pc = "failing", !.fetching = {}]
<1>1. tb[j] \in TbWorker /\ tb[j].pc = "fetch" /\ "failing" \in TbPc
  BY DEF FetchFails, FetchBreaks, TbInv, TbTypes, FetchedIsThere, TbPc
<1>2. tb' = [tb EXCEPT ![j] = w]
  BY DEF FetchFails, FetchBreaks
<1>3. w \in TbWorker /\ w.pc = "failing" /\ w.fetching = {}
  BY <1>1 DEF TbWorker
<1> HIDE DEF w
<1> QED BY <1>1, <1>2, <1>3, TbStepOfWorker DEF FetchFails, FetchBreaks, TbInv, TbTypes

LEMMA TbFetchedKeeps ==
  ASSUME TbInv, NEW j \in TbJob, TbFetched(j)
  PROVE  TbInv'
<1>1. AllThere(j)
  BY DEF TbFetched, Left, Complete, AllThere
<1>2. CASE Off(j, "paused")
  BY <1>2, OffKeeps DEF TbFetched, TbInv, TbTypes, TbStatus
<1>3. CASE TbGo(j, IF keep THEN "finish" ELSE "delete") /\ UNCHANGED tbRow
  <2> DEFINE pc == IF keep THEN "finish" ELSE "delete"
  <2>1. pc \in TbPc \ {"off"} /\ TbGo(j, pc)
    BY <1>3 DEF TbPc
  <2> HIDE DEF pc
  <2> QED BY <1>1, <1>3, <2>1, TbWaitsNext DEF TbFetched, TbInv, TbTypes
<1> QED BY <1>2, <1>3 DEF TbFetched

LEMMA TbSaveKeeps ==
  ASSUME TbInv, NEW j \in TbJob, TbSave(j) \/ TbClear(j)
  PROVE  TbInv'
<1> DEFINE id == IF tb[j].pc = "save" THEN tb[j].id ELSE 0
           pc == IF tb[j].pc = "save" THEN "poll" ELSE "finish"
           r == [tbRow[j] EXCEPT !.id = id]
<1>1. /\ tb[j] \in TbWorker /\ tbRow[j] \in [st : TbStatus, id : Nat] /\ FetchedIsThere(j)
      /\ account \in Account
  BY DEF TbInv, TbTypes
<1>2. TbGo(j, pc) /\ tbRow' = [tbRow EXCEPT ![j] = r] /\ tb[j].pc \in {"save", "clear"}
  BY DEF TbSave, TbClear
<1>3. id \in Nat /\ pc \in TbPc \ {"off"} /\ pc # "delete"
  BY <1>1 DEF TbWorker, TbPc
<1>4. pc \in {"delete", "clear", "finish"} => AllThere(j)
  BY <1>1, <1>2 DEF FetchedIsThere
<1>5. tb[j].fetching = {} /\ tb[j].pc # "off"
  BY <1>1, <1>2 DEF FetchedIsThere
<1> HIDE DEF id, pc
<1>6. r \in [st : TbStatus, id : Nat] /\ r.st = tbRow[j].st
  BY <1>1, <1>3
<1> HIDE DEF r
<1> QED BY <1>1, <1>2, <1>3, <1>4, <1>5, <1>6, TbGoKeeps DEF TbSave, TbClear

LEMMA TbDeleteKeeps ==
  ASSUME TbInv, NEW j \in TbJob, TbDelete(j)
  PROVE  TbInv'
<1>1. FetchedIsThere(j) /\ account \in Account /\ tb[j].pc = "delete"
  BY DEF TbInv, TbTypes, TbDelete
<1>2. account' \in Account
  BY <1>1 DEF TbDelete, Deleted, Account
<1>3. PICK pc \in {"clear", "finish"} : TbGo(j, pc)
  BY DEF TbDelete
<1>4. pc \in TbPc \ {"off"} /\ AllThere(j) /\ tb[j].fetching = {}
  BY <1>1 DEF FetchedIsThere, TbPc
<1> QED BY <1>1, <1>2, <1>3, <1>4, TbWaitsNext DEF TbDelete

\* A request or a death of the daemon starts a job again from its row: no file is under
\* way, and the row no longer says completed.
LEMMA TbStartKeeps ==
  ASSUME TbInv, NEW j \in TbJob, NEW id \in Nat, NEW n \in Nat,
         tb' = [tb EXCEPT ![j] = TbStarted(id)],
         tbRow' = [tbRow EXCEPT ![j] = [st |-> "active", id |-> n]],
         account' \in Account, local' = local
  PROVE  TbInv'
<1> DEFINE w == TbStarted(id)
           r == [st |-> "active", id |-> n]
<1>1. w \in TbWorker /\ w.fetching = {} /\ w.pc \in {"add", "poll"}
  BY StartedFits
<1>2. r \in [st : TbStatus, id : Nat] /\ r.st = "active"
  BY DEF TbStatus
<1> HIDE DEF w, r
<1> QED BY <1>1, <1>2, TbStepOfOne DEF w, r

LEMMA RequestsKeep ==
  ASSUME TbInv, NEW j \in TbJob, TbPause(j) \/ TbResume(j) \/ TbRetry(j) \/ TbRemove(j)
  PROVE  TbInv'
<1>1. /\ tb[j] \in TbWorker /\ tbRow[j] \in [st : TbStatus, id : Nat] /\ account \in Account
      /\ FetchedIsThere(j) /\ local' = local
  BY DEF TbInv, TbTypes, TbPause, TbResume, TbRetry, TbRemove
<1>2. CASE TbPause(j)
  <2> DEFINE w == [tb[j] EXCEPT !.cancelled = TRUE]
  <2>1. tb' = [tb EXCEPT ![j] = w] /\ UNCHANGED <<tbRow, account>>
    BY <1>2 DEF TbPause
  <2>2. w \in TbWorker /\ w.pc = tb[j].pc /\ w.fetching = tb[j].fetching /\ w.pc # "off"
    BY <1>1, <1>2 DEF TbWorker, TbPause
  <2> HIDE DEF w
  <2> QED BY <1>1, <2>1, <2>2, TbStepOfWorker DEF FetchedIsThere
<1>3. CASE TbResume(j)
  <2> DEFINE n == tbRow[j].id
  <2>1. tbRow' = [tbRow EXCEPT ![j] = [st |-> "active", id |-> n]] /\ n \in Nat
    <3> DEFINE r == [tbRow[j] EXCEPT !.st = "active"]
    <3>1. tbRow' = [tbRow EXCEPT ![j] = r]
      BY <1>3 DEF TbResume
    <3>2. r = [st |-> "active", id |-> n] /\ n \in Nat
      BY <1>1
    <3> HIDE DEF r, n
    <3> QED BY <3>1, <3>2
  <2> QED BY <1>1, <1>3, <2>1, TbStartKeeps DEF TbResume
<1>4. CASE TbRetry(j)
  <2>1. account' \in Account
    BY <1>1, <1>4 DEF TbRetry, Deleted, Account
  <2> QED BY <1>1, <1>4, <2>1, TbStartKeeps DEF TbRetry
<1>5. CASE TbRemove(j)
  <2> DEFINE r == [st |-> "absent", id |-> 0]
             w == tb[j]
  <2>1. tbRow' = [tbRow EXCEPT ![j] = r] /\ tb' = [tb EXCEPT ![j] = w] /\ account' = account
    BY <1>5 DEF TbRemove, TbInv, TbTypes
  <2>2. r \in [st : TbStatus, id : Nat] /\ r.st # "completed"
    BY DEF TbStatus
  <2>3. w.fetching = {} /\ w.pc = "off" /\ w \in TbWorker
    BY <1>1, <1>5 DEF TbRemove, FetchedIsThere
  <2> HIDE DEF r, w
  <2> QED BY <1>1, <2>1, <2>2, <2>3, TbStepOfOne
<1> QED BY <1>2, <1>3, <1>4, <1>5

LEMMA TbCrashKeeps ==
  ASSUME TbInv, TbCrash
  PROVE  TbInv'
<1>1. \A j \in TbJob : tbRow[j] \in [st : TbStatus, id : Nat] /\ tb'[j] \in TbWorker
                      /\ tb'[j].fetching = {} /\ tb'[j].pc \in {"add", "poll", "off"}
                      /\ (tbRow[j].st # "active" => tb'[j].pc = "off")
  BY NoTbFits, StartedFits DEF TbCrash, TbInv, TbTypes
<1>2. tb' \in [TbJob -> TbWorker]
  BY <1>1 DEF TbCrash
<1>3. TbTypes'
  BY <1>2 DEF TbCrash, TbInv, TbTypes
<1>4. ASSUME NEW j \in TbJob PROVE FetchedIsThere(j)'
  BY <1>1 DEF TbCrash, TbInv, FetchedIsThere, AllThere
<1> QED BY <1>3, <1>4 DEF TbInv

\* What TorBox does, and what is done to the account behind the jobs' backs.
LEMMA AccountStepKeeps ==
  ASSUME TbInv, TorBoxWorks \/ AccountCleared \/ \E id \in deleting : DeleteBehind(id)
  PROVE  TbInv'
<1>1. account \in Account
  BY DEF TbInv, TbTypes
<1>2. account' \in Account
  <2>1. CASE TorBoxWorks
    BY <1>1, <2>1 DEF TorBoxWorks, Account
  <2>2. CASE AccountCleared
    BY <1>1, <2>2 DEF AccountCleared, Account
  <2>3. CASE \E id \in deleting : DeleteBehind(id)
    BY <1>1, <2>3 DEF DeleteBehind, Deleted, Account
  <2> QED BY <2>1, <2>2, <2>3
<1>3. UNCHANGED <<tbRow, tb, local>>
  BY DEF TorBoxWorks, AccountCleared, DeleteBehind
<1> QED BY <1>2, <1>3 DEF TbInv, TbTypes, FetchedIsThere, AllThere

LEMMA TbNextKeeps == TbInv /\ [TbNext]_tbVars => TbInv'
<1> SUFFICES ASSUME TbInv, [TbNext]_tbVars PROVE TbInv'
  OBVIOUS
<1>1. CASE UNCHANGED tbVars
  BY <1>1 DEF tbVars, TbInv, TbTypes, FetchedIsThere, AllThere
<1>2. ASSUME NEW j \in TbJob, TbWork(j) PROVE TbInv'
  <2>1. CASE TbStopped(j)
    BY <2>1, OffKeeps DEF TbStopped, TbInv, TbTypes, TbStatus
  <2>2. CASE TbFails(j)
    BY <2>2, OffKeeps DEF TbFails, TbStop, TbInv, TbTypes, TbStatus
  <2>3. CASE TbFinish(j)
    BY <2>3, OffKeeps DEF TbFinish, TbInv, TbTypes, TbStatus, FetchedIsThere
  <2> QED BY <1>2, <2>1, <2>2, <2>3, TbAddKeeps, TbFindKeeps, TbSaveKeeps, TbPollKeeps,
             FetchBeginsKeeps, FetchFailsKeeps, TbFetchedKeeps, TbDeleteKeeps DEF TbWork
<1>3. ASSUME NEW j \in TbJob, TbCallFails(j) PROVE TbInv'
  BY <1>3, FailureKeeps DEF TbCallFails
<1> QED BY <1>1, <1>2, <1>3, FetchFailsKeeps, RequestsKeep, TbCrashKeeps, AccountStepKeeps
        DEF TbNext

\* Every state has TbInv.
THEOREM TbInvHolds == TbSpec => []TbInv
<1> QED BY TbInitFits, TbNextKeeps, PTL DEF TbSpec

\* A TorBox job that is reported complete has every file, whatever was paused, killed,
\* retried or deleted from the account on the way (torboxDownload, torboxFileComplete).
THEOREM TbCompletedHasFilesHolds == TbSpec => []TbCompletedHasFiles
<1>1. TbInv => TbCompletedHasFiles
  BY DEF TbInv, FetchedIsThere, AllThere, TbCompletedHasFiles
<1> QED BY <1>1, TbInvHolds, PTL

-----------------------------------------------------------------------------
(* TorrentJob *)

AnyRow == [st : Status, spec : SUBSET File]

AnyWorker == [pc : WorkerPc, cancelled : BOOLEAN, sel : SUBSET File, job : AnyRow]

Op == {"none", "pause", "resume", "retry", "cancel", "remove", "select"}

AnyRequest == [pc : RequestPc, op : Op, sel : SUBSET File, job : AnyRow, seeder : Seeder \cup {None}]

SeederState == {"none", "waiting", "running", "limit", "dropped"}

TorrentTypes ==
  /\ row \in AnyRow /\ data \subseteq File
  /\ worker \in AnyWorker /\ req \in AnyRequest
  /\ seeds \in BOOLEAN /\ seeder \in [Seeder -> SeederState] /\ seeding \in Seeder \cup {None}
  /\ past \subseteq {"select", "requeued"}

Unseeds == {"pause", "cancel", "remove", "retry", "select"}
Stops == {"pause", "cancel", "remove"}

\* What a request is when it is at each of its steps.
RequestFits ==
  /\ req.pc \in {"unseed", "unseeding", "unseeded"} => req.op \in Unseeds
  /\ req.pc \in {"stop", "wait"} => req.op \in Stops
  /\ req.pc = "write" => req.op \in Stops \cup {"select"}
  /\ req.pc = "choose" => req.op = "select"
  /\ req.seeder # None => req.pc = "unseeding"

\* Who may write "seeding": only a worker that is done with the job, so no worker is left
\* and no copy of the row that says so waits to be written.
SeedingIsLast ==
  /\ row.st = "seeding" => worker.pc = "none"
  /\ worker.pc = "recording" => worker.job.st # "seeding"
  /\ req.pc = "write" /\ req.op = "select" => req.job.st # "seeding"
  /\ SeedingHasSeeder

AtRest == {"paused", "canceled"}

\* A job that never seeds and was not queued under its worker: a stopped row has no worker,
\* nor has one that a request is about to write, and a worker that a request waits for is
\* told to go.
StoppedIsAlone ==
  /\ row.st # "queued" /\ (row.st \in AtRest => worker.pc = "none")
  /\ worker.pc = "recording" => worker.job.st \notin AtRest \cup {"queued"}
  /\ req.pc = "wait" /\ worker.pc # "none" => worker.cancelled
  /\ req.pc = "write" /\ req.op \in Stops => worker.pc = "none"
  /\ req.op = "select" /\ req.pc \in {"choose", "write"} =>
       req.job.st # "queued" /\ (req.job.st \in AtRest => worker.pc = "none")

NeverSeeds == (\A s \in Seeder : seeder[s] = "none") /\ worker.pc \notin {"seed", "seeding"}

\* A job whose selection nobody changed: everybody who holds a copy of it has the row's, and
\* whoever has seen the torrent done, or acts on that, stands on files that are there.
OneSelection ==
  /\ req.pc # "idle" => req.op # "select" /\ req.job.spec = row.spec
  /\ worker.pc # "none" => worker.sel = row.spec
  /\ worker.pc = "recording" =>
       /\ worker.job.spec = row.spec
       /\ worker.job.st \in {"completed", "seeding"} => row.spec \subseteq data
  /\ wanted \in {None, row.spec}
  /\ \/ row.st \in {"completed", "seeding"} \/ seeding # None
     \/ worker.pc \in {"finish", "seed", "seeding", "release"}
     \/ req.pc \in {"unseeding", "unseeded"} \/ \E s \in Seeder : seeder[s] # "none"
     => row.spec \subseteq data

TorrentInv ==
  /\ TorrentTypes /\ RequestFits /\ SeedingIsLast
  /\ ~seeds => NeverSeeds
  /\ ~seeds /\ "requeued" \notin past => StoppedIsAlone
  /\ "select" \notin past => OneSelection

-----------------------------------------------------------------------------
(* What the operators of the model write *)

LEMMA NoWorkerFits == NoWorker \in AnyWorker /\ NoWorker.pc = "none"
<1> DEFINE job == [st |-> "absent", spec |-> {}]
<1>1. job \in AnyRow
  BY DEF AnyRow, Status
<1> HIDE DEF job
<1>2. [pc |-> "none", cancelled |-> FALSE, sel |-> {}, job |-> job] \in AnyWorker
  BY <1>1 DEF AnyWorker, WorkerPc
<1> QED BY <1>2 DEF NoWorker, job

LEMMA NoRequestFits == NoRequest \in AnyRequest /\ NoRequest.pc = "idle" /\ NoRequest.seeder = None
<1> DEFINE job == [st |-> "absent", spec |-> {}]
<1>1. job \in AnyRow
  BY DEF AnyRow, Status
<1> HIDE DEF job
<1>2. [pc |-> "idle", op |-> "none", sel |-> {}, job |-> job, seeder |-> None] \in AnyRequest
  BY <1>1 DEF AnyRequest, RequestPc, Op
<1> QED BY <1>2 DEF NoRequest, job

LEMMA NewWorkerFits ==
  ASSUME NEW r \in AnyRow
  PROVE  /\ NewWorker(r) \in AnyWorker
         /\ NewWorker(r).pc = "add" /\ NewWorker(r).sel = r.spec
         /\ StartedRow(r) \in AnyRow /\ StartedRow(r).st = "active" /\ StartedRow(r).spec = r.spec
<1>1. r.spec \in SUBSET File
  BY DEF AnyRow
<1>2. [pc |-> "add", cancelled |-> FALSE, sel |-> r.spec, job |-> r] \in AnyWorker
  BY <1>1 DEF AnyWorker, WorkerPc
<1>3. [r EXCEPT !.st = "active"] \in AnyRow
  BY DEF AnyRow, Status
<1> QED BY <1>1, <1>2, <1>3 DEF NewWorker, StartedRow, AnyRow

\* clearRuntime: no worker and the row as told, or, for a row that was queued, a new worker.
LEMMA ExitFits ==
  ASSUME NEW r \in AnyRow, Exit(r)
  PROVE  /\ worker' \in AnyWorker /\ row' \in AnyRow /\ row'.spec = r.spec
         /\ \/ r.st # "queued" /\ worker'.pc = "none" /\ row' = r
            \/ r.st = "queued" /\ worker'.pc = "add" /\ row'.st = "active" /\ worker'.sel = r.spec
<1>1. CASE r.st = "queued"
  BY <1>1, NewWorkerFits DEF Exit
<1>2. CASE r.st # "queued"
  BY <1>2, NoWorkerFits DEF Exit
<1> QED BY <1>1, <1>2

LEMMA WorkerFits ==
  ASSUME TorrentTypes, NEW pc \in WorkerPc, worker' = [worker EXCEPT !.pc = pc]
  PROVE  /\ worker' \in AnyWorker /\ worker'.pc = pc /\ worker'.sel = worker.sel
         /\ worker'.job = worker.job /\ worker'.cancelled = worker.cancelled
BY DEF TorrentTypes, AnyWorker

LEMMA ReqFits ==
  ASSUME TorrentTypes, NEW pc \in RequestPc, req' = [req EXCEPT !.pc = pc]
  PROVE  /\ req' \in AnyRequest /\ req'.pc = pc /\ req'.op = req.op /\ req'.sel = req.sel
         /\ req'.job = req.job /\ req'.seeder = req.seeder
BY DEF TorrentTypes, AnyRequest

LEMMA AfterFits ==
  ASSUME TorrentTypes, req.op \in Unseeds, row' \in AnyRow, NEW found \in BOOLEAN,
         AfterUnseeding(found)
  PROVE  /\ req' \in AnyRequest /\ req'.seeder \in {None, req.seeder}
         /\ req'.pc \in {"idle", "stop", "start"}
         /\ req'.pc = "stop" => req'.op = "remove"
         /\ req'.pc # "idle" => req'.op = req.op /\ req'.job.spec \in {req.job.spec, row'.spec}
<1> DEFINE job == IF found /\ req.op = "retry" THEN row' ELSE req.job
<1>1. req \in AnyRequest /\ {"stop", "start"} \subseteq RequestPc
  BY DEF TorrentTypes, RequestPc
<1>2. job \in AnyRow /\ job.spec \in {req.job.spec, row'.spec}
  BY <1>1 DEF AnyRequest
<1>3. \/ req' = NoRequest
      \/ req' = [req EXCEPT !.pc = "stop"] /\ req.op = "remove"
      \/ req' = [req EXCEPT !.pc = "start", !.job = job] /\ req.op = "retry"
      \/ req' = [req EXCEPT !.pc = "start"] /\ req.op = "select"
  BY DEF AfterUnseeding, Unseeds, Reply
<1> HIDE DEF job
<1>4. CASE req' = NoRequest
  BY <1>4, NoRequestFits
<1>5. CASE req' = [req EXCEPT !.pc = "stop"] /\ req.op = "remove"
  BY <1>1, <1>5 DEF AnyRequest
<1>6. CASE req' = [req EXCEPT !.pc = "start", !.job = job] /\ req.op = "retry"
  BY <1>1, <1>2, <1>6 DEF AnyRequest
<1>7. CASE req' = [req EXCEPT !.pc = "start"] /\ req.op = "select"
  BY <1>1, <1>7 DEF AnyRequest
<1> QED BY <1>3, <1>4, <1>5, <1>6, <1>7

\* Writing a status leaves the row's files.
LEMMA RowFits ==
  ASSUME NEW r \in AnyRow, NEW st \in Status
  PROVE  LET n == [r EXCEPT !.st = st] IN n \in AnyRow /\ n.st = st /\ n.spec = r.spec
BY DEF AnyRow

-----------------------------------------------------------------------------
(* The worker's steps *)

\* A worker moves on and writes nothing but, at most, which files are wanted.
LEMMA MovesOn ==
  ASSUME TorrentInv, NEW pc \in WorkerPc, Worker(pc), worker.pc # "none",
         pc \notin {"none", "recording", "seed", "seeding", "release"},
         pc = "finish" /\ "select" \notin past => row.spec \subseteq data,
         wanted' \in {wanted, None, worker.sel},
         UNCHANGED <<row, data, seeds, seeder, seeding, req, past>>
  PROVE  TorrentInv'
<1>1. /\ worker' \in AnyWorker /\ worker'.pc = pc /\ worker'.sel = worker.sel
      /\ worker'.job = worker.job /\ worker'.cancelled = worker.cancelled
  BY WorkerFits DEF TorrentInv, Worker
<1>2. TorrentTypes' /\ RequestFits'
  BY <1>1 DEF TorrentInv, TorrentTypes, RequestFits
<1>3. SeedingIsLast'
  BY <1>1 DEF TorrentInv, SeedingIsLast, SeedingHasSeeder
<1>4. ~seeds => NeverSeeds'
  BY <1>1 DEF TorrentInv, NeverSeeds
<1>5. ~seeds /\ "requeued" \notin past => StoppedIsAlone'
  BY <1>1 DEF TorrentInv, StoppedIsAlone
<1>6. "select" \notin past => OneSelection'
  BY <1>1 DEF TorrentInv, OneSelection
<1> QED BY <1>2, <1>3, <1>4, <1>5, <1>6 DEF TorrentInv

LEMMA QuietStepsKeep ==
  ASSUME TorrentInv, Add \/ GotInfo \/ SelectFiles \/ Drop \/ Tick
  PROVE  TorrentInv'
<1> USE DEF WorkerPc
<1>1. CASE Add
  BY <1>1, MovesOn DEF Add
<1>2. CASE GotInfo
  BY <1>2, MovesOn DEF GotInfo
<1>3. CASE SelectFiles
  BY <1>3, MovesOn DEF SelectFiles
<1>4. CASE Drop
  BY <1>4, MovesOn DEF Drop, Release
<1>5. CASE Tick
  <2>1. "select" \notin past => row.spec \subseteq data
    BY <1>5 DEF Tick, Done, Fetching, TorrentInv, OneSelection, TorrentTypes, AnyRow
  <2> QED BY <1>5, <2>1, MovesOn DEF Tick
<1> QED BY <1>1, <1>2, <1>3, <1>4, <1>5

\* A worker that is done leaves the row as it is, or failed, or seeding with a seeder.
LEMMA ExitKeeps ==
  ASSUME TorrentInv, NEW r \in AnyRow, Exit(r), worker.pc # "none", r.spec = row.spec,
         r.st \in {row.st, "failed", "seeding"}, r.st = "seeding" => seeds,
         row.st = "absent" => r.st = "absent",
         r.st = "seeding" => \E s \in Seeder : seeder'[s] # "none",
         seeder' \in [Seeder -> SeederState], ~seeds => seeder' = seeder,
         "select" \notin past /\ (r.st = "seeding" \/ seeder' # seeder) => row.spec \subseteq data,
         wanted' \in {wanted, None}, UNCHANGED <<data, seeds, seeding, req, past>>
  PROVE  TorrentInv'
<1>1. /\ worker' \in AnyWorker /\ row' \in AnyRow /\ row'.spec = r.spec
      /\ \/ r.st # "queued" /\ worker'.pc = "none" /\ row' = r
         \/ r.st = "queued" /\ worker'.pc = "add" /\ row'.st = "active" /\ worker'.sel = r.spec
  BY ExitFits
<1>2. TorrentTypes' /\ RequestFits'
  BY <1>1 DEF TorrentInv, TorrentTypes, RequestFits
<1>3. SeedingIsLast'
  BY <1>1 DEF TorrentInv, SeedingIsLast, SeedingHasSeeder
<1>4. ~seeds => NeverSeeds'
  BY <1>1 DEF TorrentInv, NeverSeeds
<1>5. ~seeds /\ "requeued" \notin past => StoppedIsAlone'
  BY <1>1 DEF TorrentInv, StoppedIsAlone, AtRest
<1>6. "select" \notin past => OneSelection'
  BY <1>1 DEF TorrentInv, OneSelection
<1> QED BY <1>2, <1>3, <1>4, <1>5, <1>6 DEF TorrentInv

LEMMA LastStepsKeep ==
  ASSUME TorrentInv, Stopped \/ Fail \/ ReleaseDone
  PROVE  TorrentInv'
<1>1. row \in AnyRow /\ seeder \in [Seeder -> SeederState]
  BY DEF TorrentInv, TorrentTypes
<1>2. row.st # "seeding" \/ worker.pc = "none"
  BY DEF TorrentInv, SeedingIsLast
<1>3. CASE Stopped
  BY <1>1, <1>2, <1>3, ExitKeeps DEF Stopped
<1>4. CASE ReleaseDone
  BY <1>1, <1>2, <1>4, ExitKeeps DEF ReleaseDone, Release
<1>5. CASE Fail
  <2> DEFINE r == IF row.st = "absent" THEN row ELSE [row EXCEPT !.st = "failed"]
  <2>1. r \in AnyRow /\ r.spec = row.spec /\ r.st \in {row.st, "failed"}
        /\ (row.st = "absent" => r.st = "absent") /\ "failed" \in Status
    BY <1>1 DEF AnyRow, Status
  <2>2. Exit(r) /\ worker.pc = "fail"
    BY <1>5 DEF Fail
  <2> HIDE DEF r
  <2> QED BY <1>1, <1>2, <1>5, <2>1, <2>2, ExitKeeps DEF Fail
<1> QED BY <1>3, <1>4, <1>5

LEMMA SeedingStartsKeeps ==
  ASSUME TorrentInv, NEW s \in Seeder, SeedingStarts(s)
  PROVE  TorrentInv'
<1> DEFINE r == IF row.st = "absent" THEN row ELSE [row EXCEPT !.st = "seeding"]
<1>1. row \in AnyRow /\ seeder \in [Seeder -> SeederState]
  BY DEF TorrentInv, TorrentTypes
<1>2. /\ r \in AnyRow /\ r.spec = row.spec /\ r.st \in {row.st, "seeding"}
      /\ row.st = "absent" => r.st = "absent"
  BY <1>1 DEF AnyRow, Status
<1>3. seeder' \in [Seeder -> SeederState] /\ seeder'[s] # "none"
  BY <1>1 DEF SeedingStarts, SeederState
<1>4. seeds /\ ("select" \notin past => row.spec \subseteq data)
  BY DEF SeedingStarts, TorrentInv, TorrentTypes, NeverSeeds, OneSelection
<1>5. Exit(r)
  BY DEF SeedingStarts
<1> HIDE DEF r
<1> QED BY <1>1, <1>2, <1>3, <1>4, <1>5, ExitKeeps DEF SeedingStarts

LEMMA RecordReadKeeps ==
  ASSUME TorrentInv, RecordRead
  PROVE  TorrentInv'
<1>1. row \in AnyRow /\ worker \in AnyWorker /\ worker.pc = "record"
  BY DEF TorrentInv, TorrentTypes, RecordRead
<1>2. /\ worker' \in AnyWorker /\ worker'.pc = "recording" /\ worker'.sel = worker.sel
      /\ worker'.job = row /\ worker'.cancelled = worker.cancelled
  BY <1>1 DEF RecordRead, AnyWorker, WorkerPc
<1>3. UNCHANGED <<row, data, wanted, seeds, seeder, seeding, req, past>>
  BY DEF RecordRead
<1>4. TorrentTypes' /\ RequestFits'
  BY <1>2, <1>3 DEF TorrentInv, TorrentTypes, RequestFits
<1>5. SeedingIsLast'
  BY <1>1, <1>2, <1>3 DEF TorrentInv, SeedingIsLast, SeedingHasSeeder
<1>6. ~seeds => NeverSeeds'
  BY <1>1, <1>2, <1>3 DEF TorrentInv, NeverSeeds
<1>7. ~seeds /\ "requeued" \notin past => StoppedIsAlone'
  BY <1>1, <1>2, <1>3 DEF TorrentInv, StoppedIsAlone
<1>8. "select" \notin past => OneSelection'
  BY <1>1, <1>2, <1>3 DEF TorrentInv, OneSelection
<1> QED BY <1>3, <1>4, <1>5, <1>6, <1>7, <1>8 DEF TorrentInv

\* A worker moves on and writes the row: the copy it has read, or completed.
LEMMA WritesRow ==
  ASSUME TorrentInv, NEW pc \in WorkerPc, Worker(pc), worker.pc # "none",
         pc \notin {"none", "recording", "seeding"}, pc = "seed" => seeds,
         row' \in AnyRow, row'.st # "seeding",
         ~seeds /\ "requeued" \notin past => row'.st \notin AtRest \cup {"queued"},
         "select" \notin past =>
           /\ row'.spec = row.spec
           /\ row'.st = "completed" \/ pc \in {"finish", "seed", "release"} => row.spec \subseteq data,
         UNCHANGED <<data, wanted, seeds, seeder, seeding, req, past>>
  PROVE  TorrentInv'
<1>1. /\ worker' \in AnyWorker /\ worker'.pc = pc /\ worker'.sel = worker.sel
      /\ worker'.job = worker.job /\ worker'.cancelled = worker.cancelled
  BY WorkerFits DEF TorrentInv, Worker
<1>2. TorrentTypes' /\ RequestFits'
  BY <1>1 DEF TorrentInv, TorrentTypes, RequestFits
<1>3. SeedingIsLast'
  BY <1>1 DEF TorrentInv, SeedingIsLast, SeedingHasSeeder
<1>4. ~seeds => NeverSeeds'
  BY <1>1 DEF TorrentInv, NeverSeeds
<1>5. ~seeds /\ "requeued" \notin past => StoppedIsAlone'
  BY <1>1 DEF TorrentInv, StoppedIsAlone
<1>6. "select" \notin past => OneSelection'
  BY <1>1 DEF TorrentInv, OneSelection
<1> QED BY <1>2, <1>3, <1>4, <1>5, <1>6 DEF TorrentInv

LEMMA RowWritesKeep ==
  ASSUME TorrentInv, RecordWrite \/ Finish
  PROVE  TorrentInv'
<1>1. row \in AnyRow /\ worker.job \in AnyRow /\ (row.st = "seeding" => worker.pc = "none")
  BY DEF TorrentInv, TorrentTypes, AnyWorker, SeedingIsLast
<1>2. CASE RecordWrite
  <2>1. worker.pc = "recording" /\ row' \in {row, worker.job} /\ row.st # "seeding"
        /\ (row' = row => row.st = "absent" \/ row = worker.job)
    BY <1>1, <1>2 DEF RecordWrite
  <2>2. ~seeds /\ "requeued" \notin past => row'.st \notin AtRest \cup {"queued"}
    BY <2>1 DEF TorrentInv, StoppedIsAlone, AtRest
  <2>3. row'.st # "seeding" /\ row' \in AnyRow
    BY <1>1, <2>1 DEF TorrentInv, TorrentTypes, AnyWorker, SeedingIsLast
  <2>4. "select" \notin past =>
          /\ row'.spec = row.spec
          /\ row'.st = "completed" => row.spec \subseteq data
    BY <2>1 DEF TorrentInv, OneSelection
  <2>5. Worker("tick") /\ "tick" \in WorkerPc
    BY <1>2 DEF RecordWrite, WorkerPc
  <2>6. UNCHANGED <<data, wanted, seeds, seeder, seeding, req, past>>
    BY <1>2 DEF RecordWrite
  <2> QED BY <2>1, <2>2, <2>3, <2>4, <2>5, <2>6, WritesRow
<1>3. CASE Finish
  <2> DEFINE pc == IF seeds THEN "seed" ELSE "release"
  <2>1. row \in AnyRow /\ worker.pc = "finish" /\ row.st # "seeding" /\ Worker(pc)
    BY <1>3 DEF TorrentInv, TorrentTypes, SeedingIsLast, Finish
  <2>2. row' \in AnyRow /\ row'.spec = row.spec /\ row'.st \in {"absent", "completed"}
    BY <1>3, <2>1 DEF Finish, AnyRow, Status
  <2>3. "select" \notin past => row.spec \subseteq data
    BY <2>1 DEF TorrentInv, OneSelection
  <2>4. pc \in WorkerPc /\ pc \in {"seed", "release"} /\ (pc = "seed" => seeds)
    BY DEF WorkerPc, TorrentInv, TorrentTypes
  <2> HIDE DEF pc
  <2> QED BY <1>3, <2>1, <2>2, <2>3, <2>4, WritesRow DEF Finish, AtRest
<1> QED BY <1>2, <1>3

LEMMA SeedKeeps ==
  ASSUME TorrentInv, NEW s \in Seeder, Seed(s)
  PROVE  TorrentInv'
<1>1. worker.pc = "seed" /\ "seeding" \in WorkerPc /\ worker' = [worker EXCEPT !.pc = "seeding"]
  BY DEF Seed, Worker, WorkerPc
<1>2. /\ worker' \in AnyWorker /\ worker'.pc = "seeding" /\ worker'.sel = worker.sel
      /\ worker'.job = worker.job /\ worker'.cancelled = worker.cancelled
  BY <1>1, WorkerFits DEF TorrentInv
<1>3. UNCHANGED <<row, data, wanted, seeds, req, past>> /\ seeds
  BY <1>1 DEF Seed, TorrentInv, TorrentTypes, NeverSeeds
<1>4. seeding' = s /\ seeder' \in [Seeder -> SeederState]
  BY DEF Seed, TorrentInv, TorrentTypes, SeederState
<1>5. TorrentTypes' /\ RequestFits'
  BY <1>2, <1>3, <1>4 DEF TorrentInv, TorrentTypes, RequestFits
<1>6. SeedingIsLast'
  BY <1>1, <1>2, <1>3 DEF TorrentInv, SeedingIsLast, SeedingHasSeeder
<1>7. "select" \notin past => OneSelection'
  BY <1>1, <1>2, <1>3 DEF TorrentInv, OneSelection
<1> QED BY <1>3, <1>5, <1>6, <1>7 DEF TorrentInv

-----------------------------------------------------------------------------
(* The seeders' steps *)

\* A seeder goes from one state of its life to the next, or ends: with the row completed, or
\* under a request that waits for it.
LEMMA SeederSteps ==
  ASSUME TorrentInv, NEW s \in Seeder, NEW state \in SeederState,
         seeder' = [seeder EXCEPT ![s] = state], seeder[s] # "none",
         state = "none" => row'.st # "seeding" \/ req.pc = "unseeding",
         seeding' \in {seeding, None}, wanted' \in {wanted, None},
         row' \in AnyRow, row'.spec = row.spec, row'.st \in {row.st, "completed"},
         UNCHANGED <<data, worker, seeds, req, past>>
  PROVE  TorrentInv'
<1>1. seeds /\ ("select" \notin past => row.spec \subseteq data)
  BY DEF TorrentInv, TorrentTypes, NeverSeeds, OneSelection
<1>2. seeder \in [Seeder -> SeederState] /\ seeder' \in [Seeder -> SeederState]
      /\ seeder'[s] = state
  BY DEF TorrentInv, TorrentTypes
<1>3. TorrentTypes' /\ RequestFits'
  BY <1>2 DEF TorrentInv, TorrentTypes, RequestFits
<1>4. SeedingIsLast'
  BY <1>2 DEF TorrentInv, SeedingIsLast, SeedingHasSeeder
<1>5. "select" \notin past => OneSelection'
  BY <1>1, <1>2 DEF TorrentInv, OneSelection
<1> QED BY <1>1, <1>3, <1>4, <1>5 DEF TorrentInv

LEMMA SeedersKeep ==
  ASSUME TorrentInv, NEW s \in Seeder,
         LimitMet(s) \/ SeederStops(s) \/ SeederDrops(s) \/ SeederCompletes(s)
  PROVE  TorrentInv'
<1>1. row \in AnyRow /\ {"none", "limit", "dropped"} \subseteq SeederState
  BY DEF TorrentInv, TorrentTypes, SeederState
<1>2. CASE LimitMet(s)
  BY <1>1, <1>2, SeederSteps DEF LimitMet
<1>3. CASE SeederStops(s)
  <2>1. req.pc = "unseeding"
    BY <1>3, TorrentAssumption DEF SeederStops, TorrentInv, RequestFits, TorrentAssumption
  <2> QED BY <1>1, <1>3, <2>1, SeederSteps DEF SeederStops
<1>4. CASE SeederDrops(s)
  BY <1>1, <1>4, SeederSteps DEF SeederDrops, Release
<1>5. CASE SeederCompletes(s)
  <2>1. row' \in AnyRow /\ row'.spec = row.spec /\ row'.st \in {row.st, "completed"}
        /\ row'.st # "seeding"
    BY <1>1, <1>5 DEF SeederCompletes, AnyRow, Status
  <2> QED BY <1>1, <1>5, <2>1, SeederSteps DEF SeederCompletes
<1> QED BY <1>2, <1>3, <1>4, <1>5

-----------------------------------------------------------------------------
(* The requests' steps *)

LEMMA RequestKeeps ==
  ASSUME TorrentInv, NEW op \in Requests, NEW sel \in Choices \cup {{}}, Request(op, sel)
  PROVE  TorrentInv'
<1>1. /\ op \in Op \ {"none"} /\ sel \in SUBSET File /\ row \in AnyRow
  BY TorrentAssumption DEF Request, TorrentAssumption, Op, TorrentInv, TorrentTypes
<1>2. /\ First(op, row.st) \in {"unseed", "stop", "start", "choose"}
      /\ First(op, row.st) = "unseed" => op \in Unseeds
      /\ First(op, row.st) = "stop" => op \in Stops
      /\ First(op, row.st) = "choose" <=> op = "select"
  BY <1>1 DEF Request, First, Unseeds, Stops, Op
<1> DEFINE pc == First(op, row.st)
<1>3. /\ req' = [pc |-> pc, op |-> op, sel |-> sel, job |-> row, seeder |-> None]
      /\ UNCHANGED <<row, data, wanted, worker, seeds, seeder, seeding>>
      /\ past' = past \cup ({op} \cap {"select"}) /\ req.pc = "idle"
  BY DEF Request
<1>4. pc \in RequestPc
  BY <1>2 DEF RequestPc
<1> HIDE DEF pc
<1>5. /\ req' \in AnyRequest /\ req'.pc = pc /\ req'.op = op /\ req'.job = row
      /\ req'.seeder = None
  BY <1>1, <1>3, <1>4 DEF AnyRequest
<1>6. pc \in {"unseed", "stop", "start", "choose"} /\ (pc = "choose" <=> op = "select")
      /\ (pc = "unseed" => op \in Unseeds) /\ (pc = "stop" => op \in Stops)
  BY <1>2 DEF pc
<1>7. TorrentTypes' /\ RequestFits'
  BY <1>3, <1>5, <1>6 DEF TorrentInv, TorrentTypes, RequestFits
<1>8. SeedingIsLast'
  BY <1>3, <1>5, <1>6 DEF TorrentInv, SeedingIsLast, SeedingHasSeeder
<1>9. ~seeds => NeverSeeds'
  BY <1>3 DEF TorrentInv, NeverSeeds
<1>10. ~seeds /\ "requeued" \notin past => StoppedIsAlone'
  BY <1>3, <1>5, <1>6 DEF TorrentInv, StoppedIsAlone
<1>11. "select" \notin past' => OneSelection'
  BY <1>3, <1>5, <1>6 DEF TorrentInv, OneSelection
<1> QED BY <1>3, <1>7, <1>8, <1>9, <1>10, <1>11 DEF TorrentInv

\* A request goes on to its next step, or answers, and writes neither the row nor the worker.
LEMMA RequestGoesOn ==
  ASSUME TorrentInv, req' \in AnyRequest, req.pc # "idle",
         RequestFits', wanted' \in {wanted, None} \/ req.op = "select",
         seeding' \in {seeding, None},
         req.pc \in {"unseeding", "unseeded"} /\ row.st = "seeding" => req'.pc = "unseeded",
         req'.pc \in {"unseeding", "unseeded"} => req.pc = "unseeding" \/ seeding # None,
         req'.pc # "idle" => req'.op = req.op /\ req'.job.spec \in {req.job.spec, row.spec},
         req'.pc = "wait" => worker.pc = "none" \/ worker.cancelled,
         req'.pc # "choose",
         req'.pc = "write" /\ req'.op \in Stops =>
           worker.pc = "none" \/ (req.pc = "wait" /\ ~worker.cancelled),
         req'.pc = "write" /\ req'.op = "select" =>
           /\ req.pc = "choose" /\ req'.job = req.job /\ req.job.st # "seeding",
         UNCHANGED <<row, data, worker, seeds, seeder, past>>
  PROVE  TorrentInv'
<1>1. TorrentTypes'
  BY DEF TorrentInv, TorrentTypes
<1>2. SeedingIsLast'
  BY DEF TorrentInv, SeedingIsLast, SeedingHasSeeder
<1>3. ~seeds => NeverSeeds'
  BY DEF TorrentInv, NeverSeeds
<1>4. ~seeds /\ "requeued" \notin past => StoppedIsAlone'
  BY DEF TorrentInv, StoppedIsAlone
<1>5. "select" \notin past => OneSelection'
  BY DEF TorrentInv, OneSelection
<1> QED BY <1>1, <1>2, <1>3, <1>4, <1>5 DEF TorrentInv

LEMMA ChooseKeeps ==
  ASSUME TorrentInv, Choose
  PROVE  TorrentInv'
<1>1. /\ req.pc = "choose" /\ req.op = "select" /\ req.seeder = None
      /\ req \in AnyRequest /\ {"unseed", "write"} \subseteq RequestPc
  BY DEF Choose, TorrentInv, RequestFits, TorrentTypes, RequestPc
<1>2. UNCHANGED <<row, data, worker, seeds, seeder, seeding, past>>
  BY DEF Choose
<1>3. CASE Reply
  <2>1. req' \in AnyRequest /\ req'.pc = "idle" /\ req'.seeder = None
    BY <1>3, NoRequestFits DEF Reply
  <2>2. RequestFits'
    BY <2>1 DEF RequestFits
  <2> QED BY <1>1, <1>2, <2>1, <2>2, RequestGoesOn
<1>4. CASE Req("unseed") \/ (Req("write") /\ req.job.st \notin {"completed", "seeding"})
  <2> DEFINE pc == IF Req("unseed") THEN "unseed" ELSE "write"
  <2>1. pc \in RequestPc /\ req' = [req EXCEPT !.pc = pc]
    BY <1>1, <1>4 DEF Req
  <2>2. pc \in {"unseed", "write"} /\ (pc = "write" => req.job.st # "seeding")
    BY <1>4
  <2> HIDE DEF pc
  <2>3. /\ req' \in AnyRequest /\ req'.pc = pc /\ req'.op = req.op
        /\ req'.job = req.job /\ req'.seeder = req.seeder
    BY <2>1, ReqFits DEF TorrentInv
  <2>4. RequestFits'
    BY <1>1, <2>2, <2>3 DEF RequestFits, Unseeds
  <2>5. req'.op \notin Stops
    BY <1>1, <2>3 DEF Stops
  <2> QED BY <1>1, <1>2, <2>2, <2>3, <2>4, <2>5, RequestGoesOn
<1> QED BY <1>3, <1>4 DEF Choose

LEMMA UnseedKeeps ==
  ASSUME TorrentInv, Unseed
  PROVE  TorrentInv'
<1>1. /\ req.pc = "unseed" /\ req.op \in Unseeds /\ req.seeder = None /\ req \in AnyRequest
      /\ seeding \in Seeder \cup {None} /\ "unseeding" \in RequestPc /\ row' \in AnyRow
  BY DEF Unseed, TorrentInv, RequestFits, TorrentTypes, RequestPc
<1>2. UNCHANGED <<row, data, wanted, worker, seeds, seeder, past>> /\ seeding' = None
  BY DEF Unseed
<1>3. CASE seeding = None
  <2>1. AfterUnseeding(FALSE)
    BY <1>3 DEF Unseed
  <2>2. /\ req' \in AnyRequest /\ req'.seeder \in {None, req.seeder}
        /\ req'.pc \in {"idle", "stop", "start"} /\ (req'.pc = "stop" => req'.op = "remove")
        /\ (req'.pc # "idle" => req'.op = req.op /\ req'.job.spec \in {req.job.spec, row'.spec})
    BY <1>1, <2>1, AfterFits DEF TorrentInv
  <2>3. RequestFits'
    BY <1>1, <2>2 DEF RequestFits, Stops
  <2> QED BY <1>1, <1>2, <2>2, <2>3, RequestGoesOn
<1>4. CASE seeding # None
  <2>1. req' = [req EXCEPT !.pc = "unseeding", !.seeder = seeding]
    BY <1>4 DEF Unseed
  <2>2. req' \in AnyRequest /\ req'.pc = "unseeding" /\ req'.op = req.op /\ req'.job = req.job
    BY <1>1, <2>1 DEF AnyRequest
  <2>3. RequestFits'
    BY <1>1, <2>2 DEF RequestFits
  <2> QED BY <1>1, <1>2, <1>4, <2>2, <2>3, RequestGoesOn
<1> QED BY <1>3, <1>4

LEMMA UnseedingKeeps ==
  ASSUME TorrentInv, Unseeding
  PROVE  TorrentInv'
<1>1. /\ req.pc = "unseeding" /\ req.op \in Unseeds /\ req \in AnyRequest
      /\ "unseeded" \in RequestPc
  BY DEF Unseeding, TorrentInv, RequestFits, TorrentTypes, RequestPc
<1>2. UNCHANGED <<row, data, wanted, worker, seeds, seeder, seeding, past>>
  BY DEF Unseeding
<1>3. /\ req' \in AnyRequest /\ req'.pc = "unseeded" /\ req'.op = req.op
      /\ req'.job = req.job /\ req'.seeder = None
  BY <1>1 DEF Unseeding, AnyRequest
<1>4. RequestFits'
  BY <1>1, <1>3 DEF RequestFits
<1> QED BY <1>1, <1>2, <1>3, <1>4, RequestGoesOn

LEMMA UnseededKeeps ==
  ASSUME TorrentInv, Unseeded
  PROVE  TorrentInv'
<1>1. /\ req.pc = "unseeded" /\ req.op \in Unseeds /\ req.seeder = None /\ row \in AnyRow
      /\ "completed" \in Status
  BY DEF Unseeded, TorrentInv, RequestFits, TorrentTypes, Status
<1>2. UNCHANGED <<data, worker, seeds, seeder, seeding, past>> /\ wanted' = None
  BY DEF Unseeded, Release
<1>3. row' \in AnyRow /\ row'.st = "completed" /\ row'.spec = row.spec
  BY <1>1, RowFits DEF Unseeded
<1>4. AfterUnseeding(TRUE)
  BY DEF Unseeded
<1>5. /\ req' \in AnyRequest /\ req'.seeder \in {None, req.seeder}
      /\ req'.pc \in {"idle", "stop", "start"} /\ (req'.pc = "stop" => req'.op = "remove")
      /\ (req'.pc # "idle" => req'.op = req.op /\ req'.job.spec \in {req.job.spec, row'.spec})
  BY <1>1, <1>3, <1>4, AfterFits DEF TorrentInv
<1>6. TorrentTypes' /\ RequestFits'
  BY <1>1, <1>2, <1>3, <1>5 DEF TorrentInv, TorrentTypes, RequestFits, Stops
<1>7. SeedingIsLast'
  BY <1>2, <1>3, <1>5 DEF TorrentInv, SeedingIsLast, SeedingHasSeeder
<1>8. ~seeds => NeverSeeds'
  BY <1>2 DEF TorrentInv, NeverSeeds
<1>9. ~seeds /\ "requeued" \notin past => StoppedIsAlone'
  BY <1>2, <1>3, <1>5 DEF TorrentInv, StoppedIsAlone, AtRest
<1>10. "select" \notin past => OneSelection'
  BY <1>1, <1>2, <1>3, <1>5 DEF TorrentInv, OneSelection
<1> QED BY <1>2, <1>6, <1>7, <1>8, <1>9, <1>10 DEF TorrentInv

LEMMA StopKeeps ==
  ASSUME TorrentInv, Stop
  PROVE  TorrentInv'
<1> DEFINE pc == IF worker.pc = "none" THEN "write" ELSE "wait"
<1>1. /\ req.pc = "stop" /\ req.op \in Stops /\ req.seeder = None /\ worker \in AnyWorker
      /\ req' = [req EXCEPT !.pc = pc] /\ pc \in RequestPc
      /\ (worker.pc = "none" <=> pc = "write") /\ pc \in {"write", "wait"}
  BY DEF Stop, Req, TorrentInv, RequestFits, TorrentTypes, RequestPc
<1>2. UNCHANGED <<row, data, seeds, seeder, seeding, past>> /\ wanted' = None
  BY DEF Stop, Release
<1>3. /\ worker' \in AnyWorker /\ worker'.pc = worker.pc /\ worker'.sel = worker.sel
      /\ worker'.job = worker.job /\ (worker.pc # "none" => worker'.cancelled)
  BY <1>1 DEF Stop, AnyWorker
<1> HIDE DEF pc
<1>4. /\ req' \in AnyRequest /\ req'.pc = pc /\ req'.op = req.op
      /\ req'.job = req.job /\ req'.seeder = req.seeder
  BY <1>1, ReqFits DEF TorrentInv
<1>5. TorrentTypes' /\ RequestFits'
  BY <1>1, <1>2, <1>3, <1>4 DEF TorrentInv, TorrentTypes, RequestFits
<1>6. SeedingIsLast'
  BY <1>1, <1>2, <1>3, <1>4 DEF TorrentInv, SeedingIsLast, SeedingHasSeeder, Stops
<1>7. ~seeds => NeverSeeds'
  BY <1>2, <1>3 DEF TorrentInv, NeverSeeds
<1>8. ~seeds /\ "requeued" \notin past => StoppedIsAlone'
  BY <1>1, <1>2, <1>3, <1>4 DEF TorrentInv, StoppedIsAlone, Stops
<1>9. "select" \notin past => OneSelection'
  BY <1>1, <1>2, <1>3, <1>4 DEF TorrentInv, OneSelection
<1> QED BY <1>2, <1>5, <1>6, <1>7, <1>8, <1>9 DEF TorrentInv

LEMMA WaitedKeeps ==
  ASSUME TorrentInv, Waited
  PROVE  TorrentInv'
<1>1. /\ req.pc = "wait" /\ req.op \in Stops /\ req.seeder = None /\ ~worker.cancelled
      /\ req' = [req EXCEPT !.pc = "write"] /\ "write" \in RequestPc
  BY DEF Waited, Req, TorrentInv, RequestFits, TorrentTypes, RequestPc
<1>2. UNCHANGED <<row, data, wanted, worker, seeds, seeder, seeding, past>>
  BY DEF Waited
<1>3. /\ req' \in AnyRequest /\ req'.pc = "write" /\ req'.op = req.op
      /\ req'.job = req.job /\ req'.seeder = req.seeder
  BY <1>1, ReqFits DEF TorrentInv
<1>4. RequestFits' /\ req.op # "select"
  BY <1>1, <1>3 DEF RequestFits, Stops
<1> QED BY <1>1, <1>2, <1>3, <1>4, RequestGoesOn

LEMMA WriteKeeps ==
  ASSUME TorrentInv, Write
  PROVE  TorrentInv'
<1>1. /\ req.pc = "write" /\ req.op \in Stops \cup {"select"} /\ row \in AnyRow
      /\ req.job \in AnyRow /\ req.sel \in SUBSET File
      /\ {"paused", "canceled", "absent"} \subseteq Status
  BY DEF Write, TorrentInv, RequestFits, TorrentTypes, AnyRequest, Status
<1>2. UNCHANGED <<data, wanted, worker, seeds, seeder, seeding, past>>
  BY DEF Write
<1>3. req' \in AnyRequest /\ req'.pc = "idle" /\ req'.seeder = None
  BY NoRequestFits DEF Write, Reply
<1>4. /\ row' \in AnyRow
      /\ req.op \in Stops => row'.spec = row.spec /\ row'.st \in AtRest \cup {"absent"}
      /\ req.op = "select" => row'.st = req.job.st
  <2>1. CASE req.op = "pause"
    BY <1>1, <2>1, RowFits DEF Write, AtRest
  <2>2. CASE req.op = "cancel"
    BY <1>1, <2>2, RowFits DEF Write, AtRest
  <2>3. CASE req.op = "remove"
    BY <1>1, <2>3, RowFits DEF Write, AtRest
  <2>4. CASE req.op = "select"
    BY <1>1, <2>4 DEF Write, AnyRow, Stops
  <2> QED BY <1>1, <2>1, <2>2, <2>3, <2>4 DEF Stops
<1>5. TorrentTypes' /\ RequestFits'
  BY <1>2, <1>3, <1>4 DEF TorrentInv, TorrentTypes, RequestFits
<1>6. SeedingIsLast'
  BY <1>1, <1>2, <1>3, <1>4 DEF TorrentInv, SeedingIsLast, SeedingHasSeeder, AtRest
<1>7. ~seeds => NeverSeeds'
  BY <1>2 DEF TorrentInv, NeverSeeds
<1>8. ~seeds /\ "requeued" \notin past => StoppedIsAlone'
  BY <1>1, <1>2, <1>3, <1>4 DEF TorrentInv, StoppedIsAlone, AtRest
<1>9. "select" \notin past => OneSelection'
  BY <1>1, <1>2, <1>3, <1>4 DEF TorrentInv, OneSelection, AtRest
<1> QED BY <1>2, <1>5, <1>6, <1>7, <1>8, <1>9 DEF TorrentInv

LEMMA StartupKeeps ==
  ASSUME TorrentInv, Startup
  PROVE  TorrentInv'
<1> DEFINE spec == IF req.op = "select" THEN req.sel ELSE req.job.spec
           r == [st |-> "queued", spec |-> spec]
<1>1. spec \in SUBSET File /\ req.pc = "start" /\ Start(r)
  BY DEF TorrentInv, TorrentTypes, AnyRequest, AnyRow, Startup
<1>2. "select" \notin past => spec = row.spec
  BY <1>1 DEF TorrentInv, OneSelection
<1> HIDE DEF spec
<1>3. r \in AnyRow /\ r.st = "queued" /\ r.spec = spec
  BY <1>1 DEF AnyRow, Status
<1> HIDE DEF r
<1>4. UNCHANGED <<data, wanted, seeds, seeder, seeding>>
      /\ past' = past \cup (IF worker.pc = "none" THEN {} ELSE {"requeued"})
  BY DEF Startup
<1>5. req' \in AnyRequest /\ req'.pc = "idle" /\ req'.seeder = None
  BY NoRequestFits DEF Startup, Reply
<1>6. /\ worker' \in AnyWorker /\ row' \in AnyRow /\ row'.spec = spec
      /\ row'.st \in {"active", "queued"}
      /\ \/ /\ worker.pc = "none" /\ row'.st = "active"
            /\ worker'.pc = "add" /\ worker'.sel = spec
         \/ worker.pc # "none" /\ worker' = worker
  <2>1. worker \in AnyWorker
    BY DEF TorrentInv, TorrentTypes
  <2> QED BY <1>1, <1>3, <2>1, NewWorkerFits DEF Start
<1>7. TorrentTypes' /\ RequestFits'
  BY <1>4, <1>5, <1>6 DEF TorrentInv, TorrentTypes, RequestFits
<1>8. SeedingIsLast'
  BY <1>4, <1>5, <1>6 DEF TorrentInv, SeedingIsLast, SeedingHasSeeder
<1>9. ~seeds => NeverSeeds'
  BY <1>4, <1>6 DEF TorrentInv, NeverSeeds
<1>10. ~seeds /\ "requeued" \notin past' => StoppedIsAlone'
  BY <1>4, <1>5, <1>6 DEF TorrentInv, StoppedIsAlone, AtRest
<1>11. "select" \notin past => OneSelection'
  BY <1>2, <1>4, <1>5, <1>6 DEF TorrentInv, OneSelection
<1> QED BY <1>4, <1>7, <1>8, <1>9, <1>10, <1>11 DEF TorrentInv

-----------------------------------------------------------------------------
(* The client, a listing, a death of the daemon *)

LEMMA ClientKeeps ==
  ASSUME TorrentInv, List \/ Listed \/ \E f \in File : Fetch(f)
  PROVE  TorrentInv'
<1>1. /\ UNCHANGED <<row, wanted, worker, seeds, seeder, seeding, req, past>>
      /\ data \subseteq data' /\ data' \subseteq File
  BY DEF List, Listed, Fetch, TorrentInv, TorrentTypes
<1>2. TorrentTypes' /\ RequestFits'
  BY <1>1 DEF TorrentInv, TorrentTypes, RequestFits
<1>3. SeedingIsLast'
  BY <1>1 DEF TorrentInv, SeedingIsLast, SeedingHasSeeder
<1>4. ~seeds => NeverSeeds'
  BY <1>1 DEF TorrentInv, NeverSeeds
<1>5. ~seeds /\ "requeued" \notin past => StoppedIsAlone'
  BY <1>1 DEF TorrentInv, StoppedIsAlone
<1>6. "select" \notin past => OneSelection'
  BY <1>1 DEF TorrentInv, OneSelection
<1> QED BY <1>1, <1>2, <1>3, <1>4, <1>5, <1>6 DEF TorrentInv

LEMMA CrashKeeps ==
  ASSUME TorrentInv, Crash
  PROVE  TorrentInv'
<1>1. /\ UNCHANGED <<data, seeds, past>> /\ wanted' = None /\ seeding' = None
      /\ seeder' = [s \in Seeder |-> "none"] /\ row \in AnyRow /\ "completed" \in Status
  BY DEF Crash, TorrentInv, TorrentTypes, Status
<1>2. req' \in AnyRequest /\ req'.pc = "idle" /\ req'.seeder = None
  BY NoRequestFits DEF Crash
<1>3. /\ worker' \in AnyWorker /\ row' \in AnyRow /\ row'.spec = row.spec
      /\ \/ row.st = "seeding" /\ row'.st = "completed" /\ worker'.pc = "none"
         \/ row'.st = "active" /\ worker'.pc = "add" /\ worker'.sel = row.spec
         \/ row.st # "seeding" /\ row' = row /\ worker'.pc = "none"
  <2>1. CASE row.st = "seeding"
    <3>1. row' = [row EXCEPT !.st = "completed"] /\ worker' = NoWorker
      BY <2>1 DEF Crash
    <3> QED BY <1>1, <2>1, <3>1, RowFits, NoWorkerFits
  <2>2. CASE row.st \in {"active", "queued"}
    BY <1>1, <2>2, NewWorkerFits DEF Crash
  <2>3. CASE row.st \notin {"seeding", "active", "queued"}
    BY <1>1, <2>3, NoWorkerFits DEF Crash
  <2> QED BY <2>1, <2>2, <2>3
<1>4. TorrentTypes' /\ RequestFits'
  BY <1>1, <1>2, <1>3 DEF TorrentInv, TorrentTypes, RequestFits, SeederState
<1>5. SeedingIsLast'
  BY <1>1, <1>2, <1>3 DEF TorrentInv, SeedingIsLast, SeedingHasSeeder
<1>6. ~seeds => NeverSeeds'
  BY <1>1, <1>3 DEF TorrentInv, NeverSeeds
<1>7. ~seeds /\ "requeued" \notin past => StoppedIsAlone'
  BY <1>1, <1>2, <1>3 DEF TorrentInv, StoppedIsAlone, AtRest
<1>8. "select" \notin past => OneSelection'
  BY <1>1, <1>2, <1>3 DEF TorrentInv, OneSelection
<1> QED BY <1>1, <1>4, <1>5, <1>6, <1>7, <1>8 DEF TorrentInv

LEMMA TorrentInitFits == Init => TorrentInv
<1> SUFFICES ASSUME Init PROVE TorrentInv
  OBVIOUS
<1>1. /\ row \in AnyRow /\ row.st \in {"active", "paused"} /\ data = {} /\ wanted = None
      /\ seeder = [s \in Seeder |-> "none"] /\ seeding = None /\ past = {} /\ seeds \in BOOLEAN
  BY TorrentAssumption DEF Init, AnyRow, Status, TorrentAssumption
<1>2. req \in AnyRequest /\ req.pc = "idle" /\ req.seeder = None
  BY NoRequestFits DEF Init
<1>3. /\ worker \in AnyWorker
      /\ IF row.st = "active" THEN worker.pc = "add" /\ worker.sel = row.spec ELSE worker.pc = "none"
  BY <1>1, NewWorkerFits, NoWorkerFits DEF Init
<1>4. TorrentTypes /\ RequestFits
  BY <1>1, <1>2, <1>3 DEF TorrentTypes, RequestFits, SeederState
<1>5. SeedingIsLast /\ NeverSeeds
  BY <1>1, <1>2, <1>3 DEF SeedingIsLast, SeedingHasSeeder, NeverSeeds
<1>6. StoppedIsAlone
  BY <1>1, <1>2, <1>3 DEF StoppedIsAlone, AtRest
<1>7. OneSelection
  BY <1>1, <1>2, <1>3 DEF OneSelection
<1> QED BY <1>4, <1>5, <1>6, <1>7 DEF TorrentInv

LEMMA TorrentNextKeeps == TorrentInv /\ [Next]_vars => TorrentInv'
<1> SUFFICES ASSUME TorrentInv, [Next]_vars PROVE TorrentInv'
  OBVIOUS
<1>1. CASE UNCHANGED vars
  <2>1. UNCHANGED <<row, data, wanted, worker, seeds, seeder, seeding, req, past>>
    BY <1>1 DEF vars
  <2> QED BY <2>1 DEF TorrentInv, TorrentTypes, RequestFits, SeedingIsLast, SeedingHasSeeder,
                      NeverSeeds, StoppedIsAlone, OneSelection
<1>2. CASE WorkerStep
  BY <1>2, QuietStepsKeep, LastStepsKeep, SeedingStartsKeeps, RecordReadKeeps, RowWritesKeep,
     SeedKeeps DEF WorkerStep
<1>3. CASE RequestStep
  BY <1>3, ChooseKeeps, UnseedKeeps, UnseedingKeeps, UnseededKeeps, StopKeeps, WaitedKeeps,
     WriteKeeps, StartupKeeps, ClientKeeps DEF RequestStep
<1> QED BY <1>1, <1>2, <1>3, ClientKeeps, SeedersKeep, RequestKeeps, CrashKeeps DEF Next

\* Every state has TorrentInv.
THEOREM TorrentInvHolds == Spec => []TorrentInv
<1> QED BY TorrentInitFits, TorrentNextKeeps, PTL DEF Spec

\* A torrent job whose row says "seeding" has a seeder that is alive, or a request that is
\* just taking it out: no order of limits met, requests and deaths of the daemon leaves the
\* status behind (startSeeding, stopSeeding, reconcileSeeding).
THEOREM SeedingHasSeederHolds == Spec => []SeedingHasSeeder
<1>1. TorrentInv => SeedingHasSeeder
  BY DEF TorrentInv, SeedingIsLast
<1> QED BY <1>1, TorrentInvHolds, PTL

\* A torrent job whose selection nobody changed and that is reported completed or seeding has
\* every file of its selection (startTorrent's test of Manager.Progress).
THEOREM CompletedHasFilesHolds == Spec => []CompletedHasFiles
<1>1. TorrentInv => CompletedHasFiles
  BY DEF TorrentInv, OneSelection, CompletedHasFiles
<1> QED BY <1>1, TorrentInvHolds, PTL

\* The row of a paused or canceled job that never seeds changes only while a request about
\* it is served: no worker has a last word left (finishJob, waitForStop).
THEOREM StoppedStaysHolds == Spec => StoppedStays
<1> DEFINE Stays == ~seeds /\ "requeued" \notin past /\ row.st \in {"paused", "canceled"} /\ row' # row
                      => req.pc # "idle"
<1>1. TorrentInv /\ [Next]_vars => [Stays]_vars
  <2> SUFFICES ASSUME TorrentInv, Next, ~seeds, "requeued" \notin past,
                      row.st \in {"paused", "canceled"}, row' # row, req.pc = "idle"
               PROVE  FALSE
    OBVIOUS
  <2>1. worker.pc = "none" /\ \A s \in Seeder : seeder[s] = "none"
    BY DEF TorrentInv, StoppedIsAlone, AtRest, NeverSeeds
  <2>2. ~WorkerStep
    BY <2>1 DEF WorkerStep, Add, GotInfo, Stopped, SelectFiles, Drop, Fail, RecordRead,
                RecordWrite, Tick, Finish, ReleaseDone, Seed, SeedingStarts
  <2>3. ~RequestStep
    BY DEF RequestStep, Choose, Unseed, Unseeding, Unseeded, Stop, Waited, Write, Startup, Listed
  <2>4. ~(\E s \in Seeder : LimitMet(s) \/ SeederStops(s) \/ SeederDrops(s) \/ SeederCompletes(s))
    BY <2>1 DEF LimitMet, SeederStops, SeederDrops, SeederCompletes
  <2>5. ~(List \/ Crash) /\ ~(\E f \in File : Fetch(f))
    BY DEF List, Crash, Fetch
  <2>6. ~(\E op \in Requests, sel \in Choices \cup {{}} : Request(op, sel))
    BY DEF Request
  <2> QED BY <2>2, <2>3, <2>4, <2>5, <2>6 DEF Next
<1>2. StoppedStays <=> [][Stays]_vars
  BY DEF StoppedStays
<1> QED BY <1>1, <1>2, TorrentInvHolds, PTL DEF Spec
=============================================================================
