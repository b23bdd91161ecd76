------------------------------ MODULE Downloader ------------------------------
(***************************************************************************)
(* One url job from attempt to attempt (internal/downloader, and           *)
(* start_url.go and the calls of lifecycle.go around it): the output file, *)
(* the sidecar that says what each chunk has, the resume offset in the     *)
(* row, a pause or a kill at any point, and a server that may answer       *)
(* every request differently.                                              *)
(*                                                                         *)
(* The main goroutine of Run, one goroutine per chunk and the ticker are   *)
(* the threads.  The file is counted in blocks, a block being what one     *)
(* Read returns; of a block only matters whether it holds the server's     *)
(* bytes.  The server's file does not change, and a body that ends early   *)
(* is noticed (it has a length); headers and limiters fail as reads do.    *)
(***************************************************************************)
EXTENDS Integers, FiniteSets, Functions

CONSTANTS
  Total,        \* the server's file, in blocks
  Concurrency,  \* the chunks of a job that wants more than one
  Servers,      \* the servers to try: each a set of what probe may find out
  Statuses,     \* how a server may answer a GET
  None,         \* no sidecar, nothing marshalled
  MaxOps,       \* bound: pauses, resumes and retries
  MaxKills      \* bound: deaths of the daemon

Probed == [ranges: BOOLEAN, sized: BOOLEAN]

ASSUME DownloaderAssumption ==
  /\ Total \in Nat \ {0} /\ Concurrency \in Nat \ {0}
  /\ Servers \subseteq SUBSET Probed
  /\ Statuses \subseteq {"partial", "whole", "other"}
  /\ MaxOps \in Nat /\ MaxKills \in Nat
  /\ None \notin [1..Concurrency -> Nat]

VARIABLES
  row,      \* the job's status and resume_offset
  file,     \* the output: its length (-1: no file) and its good blocks
  sidecar,  \* how many blocks of each chunk it records
  sha,      \* does the job have a sha256?
  chunked,  \* is its concurrency above 1?
  server,   \* what probe may find out about this server
  main,     \* where Run is
  ctx,      \* has the attempt been cancelled?
  from,     \* StartOffset
  ranges,   \* runSingle's supportsRange
  mem,      \* per chunk, its Done
  chunk,    \* where each chunk's goroutine is
  err,      \* the first error in errCh
  ignored,  \* rangeIgnored
  tick,     \* what the ticker has marshalled and not written yet
  pos,      \* runSingle's written
  body,     \* what the response holds: the rest of the file, or something else
  res,      \* what Run returns
  ops, kills

params == <<sha, chunked, server>>
chunking == <<mem, chunk, err, ignored, tick>>
stream == <<ranges, pos, body>>
vars == <<row, file, sidecar, params, main, ctx, from, chunking, stream, res, ops, kills>>

-----------------------------------------------------------------------------
(* The file and its chunks *)

Block == 1..Total
Chunk == 1..Concurrency

NoFile == [len |-> -1, good |-> {}]
Empty  == [len |-> 0,  good |-> {}]

\* Block b is written: the file grows if it has to.
Written(b) == [len |-> IF file.len < b THEN b ELSE file.len, good |-> file.good \cup {b}]

ChunkSize == Total \div Concurrency
Start(c)  == (c - 1) * ChunkSize
End(c)    == IF c = Concurrency THEN Total ELSE c * ChunkSize

Size(c)   == End(c) - Start(c)

\* The blocks that per-chunk counts speak of.
Claimed(counts) == UNION {Start(c) + 1 .. Start(c) + counts[c] : c \in Chunk}

Satisfied(c) == mem[c] >= Size(c)

Whole == file.len = Total /\ file.good = Block

-----------------------------------------------------------------------------
(* Types *)

Counts == [Chunk -> 0..Total]

RowState == [st: {"queued", "active", "paused", "failed", "completed"}, offset: 0..Total]

\* stop: the chunks are over; judge: and saved; drop: ranges were ignored
MainPc == {"idle", "probe", "load", "chunks", "stop", "judge", "drop", "open", "get", "copy",
           "verify", "finish"}

Result == [done: 0..Total, completed: BOOLEAN, err: {"none", "failed", "canceled"}]

NoResult == [done |-> 0, completed |-> FALSE, err |-> "none"]

\* File, counts and goroutines are of their types; no chunk is counted past
\* its end (fetchChunk's clamp), and no offset lies past the file.
TypeOK ==
  /\ row \in RowState
  /\ file \in [len: -1..Total, good: SUBSET Block]
  /\ sidecar \in Counts \cup {None}
  /\ sha \in BOOLEAN /\ chunked \in BOOLEAN /\ server \in Servers
  /\ main \in MainPc /\ ctx \in BOOLEAN /\ from \in 0..Total /\ ranges \in BOOLEAN
  /\ mem \in Counts /\ \A c \in Chunk : mem[c] <= Size(c)
  /\ chunk \in [Chunk -> {"off", "ask", "read", "wrote"}]
  /\ err \in {"none", "failed", "canceled"} /\ ignored \in BOOLEAN
  /\ tick \in Counts \cup {None}
  /\ pos \in 0..Total /\ body \in {"file", "page"}
  /\ res \in Result
  /\ ops \in 0..MaxOps /\ kills \in 0..MaxKills

-----------------------------------------------------------------------------
(* Run: probe, and the end *)

\* A request or a read that fails does so because of the context if that is over.
Broken == IF ctx THEN "canceled" ELSE "failed"

Return(done, e) ==
  /\ res' = [done |-> done, completed |-> FALSE, err |-> e]
  /\ main' = "finish"

\* What Run and its goroutines knew is gone.
RunIsOver ==
  /\ main' = "idle" /\ ctx' = FALSE /\ from' = 0 /\ res' = NoResult
  /\ mem' = [c \in Chunk |-> 0] /\ chunk' = [c \in Chunk |-> "off"]
  /\ err' = "none" /\ ignored' = FALSE /\ tick' = None
  /\ ranges' = FALSE /\ pos' = 0 /\ body' = "file"

\* launch: the row is active, the worker runs with what the row said.
Begin ==
  /\ row.st = "queued" /\ main = "idle"
  /\ row' = [row EXCEPT !.st = "active"]
  /\ from' = row.offset
  /\ main' = "probe" /\ ctx' = FALSE
  /\ UNCHANGED <<file, sidecar, params, chunking, stream, res, ops, kills>>

Probe ==
  /\ main = "probe"
  /\ \/ \E p \in server :
          /\ ranges' = p.ranges
          /\ main' = IF chunked /\ p.ranges /\ p.sized THEN "load" ELSE "open"
          /\ UNCHANGED res
     \/ Return(0, Broken) /\ UNCHANGED ranges
  /\ UNCHANGED <<row, file, sidecar, params, ctx, from, chunking, pos, body, ops, kills>>

\* verifyChecksum: a mismatch deletes the file.
Verify ==
  /\ main = "verify"
  /\ \/ /\ ~sha \/ Whole
        /\ main' = "finish"
        /\ UNCHANGED <<file, sidecar, res>>
     \/ /\ sha /\ ~Whole
        /\ file' = NoFile /\ sidecar' = None
        /\ Return(0, "failed")
  /\ UNCHANGED <<row, params, ctx, from, chunking, stream, ops, kills>>

\* finishJob: a url job's resume offset is what Run has done.
FinishJob ==
  /\ main = "finish"
  /\ row' = [st |-> CASE res.completed -> "completed"
                      [] res.err = "canceled" -> "paused"
                      [] OTHER -> "failed",
             offset |-> res.done]
  /\ RunIsOver
  /\ UNCHANGED <<file, sidecar, params, ops, kills>>

-----------------------------------------------------------------------------
(* runChunked *)

\* loadOrInitSidecar, and the goroutines it takes: a chunk that is satisfied
\* needs none.  With a sidecar the file is not created.
Load ==
  /\ main = "load"
  /\ \/ /\ sidecar # None /\ file.len = -1
        /\ Return(0, "failed")
        /\ UNCHANGED <<file, chunking>>
     \/ /\ sidecar = None \/ file.len # -1
        /\ file' = IF sidecar = None THEN [file EXCEPT !.len = Total] ELSE file
        /\ mem' = IF sidecar = None THEN [c \in Chunk |-> 0] ELSE sidecar
        /\ chunk' = [c \in Chunk |-> IF mem'[c] >= Size(c) THEN "off" ELSE "ask"]
        /\ main' = "chunks"
        /\ err' = "none" /\ ignored' = FALSE /\ tick' = None
        /\ UNCHANGED res
  /\ UNCHANGED <<row, sidecar, params, ctx, from, stream, ops, kills>>

ChunksUnchanged == UNCHANGED <<row, params, ctx, from, stream, res, ops, kills>>

\* A goroutine ends with an error; errCh has room for all of them, the first counts.
Fails(c, e) ==
  /\ err' = IF err = "none" THEN e ELSE err
  /\ chunk' = [chunk EXCEPT ![c] = "off"]
  /\ UNCHANGED ignored

\* fetchChunk ends without one: satisfied, cut short, or told to stop.
Ends(c) ==
  /\ chunk' = [chunk EXCEPT ![c] = "off"]
  /\ UNCHANGED <<err, ignored>>

Ask(c) ==
  /\ chunk[c] = "ask"
  /\ \/ "partial" \in Statuses
        /\ chunk' = [chunk EXCEPT ![c] = "read"]
        /\ UNCHANGED <<err, ignored>>
     \/ "whole" \in Statuses
        /\ ignored' = TRUE
        /\ chunk' = [chunk EXCEPT ![c] = "off"]
        /\ UNCHANGED err
     \/ "other" \in Statuses /\ Fails(c, "failed")
     \/ IF ctx \/ ignored THEN Ends(c) ELSE Fails(c, "failed")
  /\ UNCHANGED <<file, sidecar, main, mem, tick>> /\ ChunksUnchanged

\* Mutant: a block is counted before it is written.
ReadCounting(c) ==
  /\ chunk[c] = "read"
  /\ mem' = [mem EXCEPT ![c] = @ + 1]
  /\ chunk' = [chunk EXCEPT ![c] = "wrote"]
  /\ UNCHANGED <<file, sidecar, main, err, ignored, tick>> /\ ChunksUnchanged

\* The next block goes to its place in the file; or the limiter, the write or
\* the connection fails, or the context is over.
Read(c) ==
  /\ chunk[c] = "read"
  /\ \/ /\ file' = Written(Start(c) + mem[c] + 1)
        /\ chunk' = [chunk EXCEPT ![c] = "wrote"]
        /\ UNCHANGED <<err, ignored>>
     \/ Fails(c, "failed") /\ UNCHANGED file
     \/ (ctx \/ ignored) /\ Fails(c, "canceled") /\ UNCHANGED file
     \/ Ends(c) /\ UNCHANGED file
  /\ UNCHANGED <<sidecar, main, mem, tick>> /\ ChunksUnchanged

\* ... and is counted; at the chunk's end the goroutine is done.
Count(c) ==
  /\ chunk[c] = "wrote"
  /\ mem' = [mem EXCEPT ![c] = @ + 1]
  /\ chunk' = [chunk EXCEPT ![c] = IF mem[c] + 1 >= Size(c) THEN "off" ELSE "read"]
  /\ UNCHANGED <<file, sidecar, main, err, ignored, tick>> /\ ChunksUnchanged

\* The ticker marshals the counts under the mutex ...
Tick ==
  /\ main = "chunks" /\ tick = None
  /\ tick' = mem
  /\ UNCHANGED <<file, sidecar, main, mem, chunk, err, ignored>> /\ ChunksUnchanged

\* ... and replaces the sidecar by them, if the disk lets it.
TickWrite ==
  /\ tick # None
  /\ sidecar' \in {tick, sidecar}
  /\ tick' = None
  /\ UNCHANGED <<file, main, mem, chunk, err, ignored>> /\ ChunksUnchanged

\* wg.Wait: every chunk's goroutine is done.
Join ==
  /\ main = "chunks"
  /\ \A c \in Chunk : chunk[c] = "off"
  /\ main' = "stop"
  /\ UNCHANGED <<file, sidecar, chunking>> /\ ChunksUnchanged

\* stopTicker waits for a tick in flight; then the last save, which may fail
\* too.  Of ranges that were ignored nothing is saved.
Save ==
  /\ main = "stop" /\ tick = None
  /\ \/ ignored /\ main' = "drop" /\ UNCHANGED sidecar
     \/ ~ignored /\ main' = "judge" /\ sidecar' \in {mem, sidecar}
  /\ UNCHANGED <<file, chunking>> /\ ChunksUnchanged

\* Mutant: the chunks' counts are not compared with what was asked for.
JudgeHasty ==
  /\ main = "judge"
  /\ \/ err # "none" /\ Return(SumFunction(mem), err) /\ UNCHANGED sidecar
     \/ err = "none" /\ ctx /\ Return(SumFunction(mem), "canceled") /\ UNCHANGED sidecar
     \/ /\ err = "none" /\ ~ctx
        /\ sidecar' = None
        /\ res' = [done |-> Total, completed |-> TRUE, err |-> "none"]
        /\ main' = "verify"
  /\ UNCHANGED <<row, file, params, ctx, from, chunking, stream, ops, kills>>

\* An error, a cancellation, a chunk cut short, or the whole file.
Judge ==
  /\ main = "judge"
  /\ \/ err # "none" /\ Return(SumFunction(mem), err) /\ UNCHANGED sidecar
     \/ err = "none" /\ ctx /\ Return(SumFunction(mem), "canceled") /\ UNCHANGED sidecar
     \/ /\ err = "none" /\ ~ctx /\ ~(\A c \in Chunk : Satisfied(c))
        /\ Return(SumFunction(mem), "failed") /\ UNCHANGED sidecar
     \/ /\ err = "none" /\ ~ctx /\ \A c \in Chunk : Satisfied(c)
        /\ sidecar' = None
        /\ res' = [done |-> Total, completed |-> TRUE, err |-> "none"]
        /\ main' = "verify"
  /\ UNCHANGED <<row, file, params, ctx, from, chunking, stream, ops, kills>>

\* Mutant: an ignored range is tried again.
DropAndProbe ==
  /\ main = "drop"
  /\ sidecar' = None
  /\ main' = "probe" /\ from' = 0 /\ ranges' = FALSE
  /\ UNCHANGED <<row, file, params, ctx, chunking, pos, body, res, ops, kills>>

\* Ranges were ignored: no sidecar, and all over again as a single stream.
Drop ==
  /\ main = "drop"
  /\ sidecar' = None
  /\ main' = "open" /\ from' = 0 /\ ranges' = FALSE
  /\ UNCHANGED <<row, file, params, ctx, chunking, pos, body, res, ops, kills>>

-----------------------------------------------------------------------------
(* runSingle *)

\* The file is continued if it is long enough, and emptied otherwise.
Open ==
  /\ main = "open"
  /\ pos' = IF ranges /\ file.len >= from THEN from ELSE 0
  /\ file' = IF pos' = 0 THEN Empty ELSE file
  /\ main' = "get"
  /\ UNCHANGED <<row, sidecar, params, ctx, from, chunking, ranges, body, res, ops, kills>>

\* The response.  One that is not partial, whatever its status, restarts a
\* download that asked for a range, and its body is what is copied; there is
\* no range to be had past the end.
Get ==
  /\ main = "get"
  /\ \/ /\ pos > 0 /\ pos < Total /\ "partial" \in Statuses
        /\ main' = "copy" /\ body' = "file"
        /\ UNCHANGED <<file, pos, res>>
     \/ /\ pos > 0 /\ ("other" \in Statuses \/ pos = Total)
        /\ file' = Empty /\ pos' = 0
        /\ main' = "copy" /\ body' = "page"
        /\ UNCHANGED res
     \/ /\ "whole" \in Statuses \/ pos = 0
        /\ file' = Empty /\ pos' = 0
        /\ main' = "copy" /\ body' = "file"
        /\ UNCHANGED res
     \/ pos = 0 /\ "other" \in Statuses /\ Return(0, "failed") /\ UNCHANGED <<file, pos, body>>
     \/ Return(pos, Broken) /\ UNCHANGED <<file, pos, body>>
  /\ UNCHANGED <<row, sidecar, params, ctx, from, chunking, ranges, ops, kills>>

\* The copying loop: the next block, the end of the body, or an error.
Copy ==
  /\ main = "copy"
  /\ \/ /\ body = "file" /\ pos < Total
        /\ file' = Written(pos + 1) /\ pos' = pos + 1
        /\ UNCHANGED <<main, res>>
     \/ /\ body = "page" /\ pos = 0
        /\ file' = [len |-> 1, good |-> {}] /\ pos' = 1
        /\ UNCHANGED <<main, res>>
     \/ /\ pos = IF body = "file" THEN Total ELSE 1
        /\ main' = "verify"
        /\ res' = [done |-> pos, completed |-> TRUE, err |-> "none"]
        /\ UNCHANGED <<file, pos>>
     \/ Return(pos, Broken) /\ UNCHANGED <<file, pos>>
  /\ UNCHANGED <<row, sidecar, params, ctx, from, chunking, ranges, body, ops, kills>>

\* Progress: a job that is not chunked has its resume offset stored on the way.
Report ==
  /\ main = "copy" /\ ~chunked /\ row.offset # pos
  /\ row' = [row EXCEPT !.offset = pos]
  /\ UNCHANGED <<file, sidecar, params, main, ctx, from, chunking, stream, res, ops, kills>>

-----------------------------------------------------------------------------
(* Requests, and the end of the process *)

Pause ==
  /\ row.st = "active" /\ ~ctx /\ ops < MaxOps
  /\ ctx' = TRUE /\ ops' = ops + 1
  /\ UNCHANGED <<row, file, sidecar, params, main, from, chunking, stream, res, kills>>

Resume ==
  /\ row.st \in {"paused", "failed"} /\ ops < MaxOps
  /\ row' = [row EXCEPT !.st = "queued"]
  /\ ops' = ops + 1
  /\ UNCHANGED <<file, sidecar, params, main, ctx, from, chunking, stream, res, kills>>

\* resetForRetry, for a retry by hand or by timer.
Retry ==
  /\ row.st \in {"paused", "failed", "completed"} /\ ops < MaxOps
  /\ sidecar' = None /\ file' = NoFile
  /\ row' = [st |-> "queued", offset |-> 0]
  /\ ops' = ops + 1
  /\ UNCHANGED <<params, main, ctx, from, chunking, stream, res, kills>>

\* A kill, and the next daemon's boot scan.  The deletions of verifyChecksum
\* can be cut in two.
Kill ==
  /\ main # "idle" /\ kills < MaxKills
  /\ row' = [row EXCEPT !.st = "queued"]
  /\ RunIsOver
  /\ \/ file' = file
     \/ main = "verify" /\ sha /\ ~Whole /\ file' = NoFile
  /\ kills' = kills + 1
  /\ UNCHANGED <<sidecar, params, ops>>

\* A kill between resetForRetry's deletions and the update of the row.
RetryKilled ==
  /\ row.st \in {"paused", "failed", "completed"} /\ ops < MaxOps /\ kills < MaxKills
  /\ sidecar' = None /\ file' \in {file, NoFile}
  /\ ops' = ops + 1 /\ kills' = kills + 1
  /\ UNCHANGED <<row, params, main, ctx, from, chunking, stream, res>>

-----------------------------------------------------------------------------
\* A job just created, for an output that is not there.
Init ==
  /\ row = [st |-> "queued", offset |-> 0]
  /\ file = NoFile /\ sidecar = None
  /\ sha \in BOOLEAN /\ chunked \in BOOLEAN /\ server \in Servers
  /\ main = "idle" /\ ctx = FALSE /\ from = 0 /\ res = NoResult
  /\ mem = [c \in Chunk |-> 0] /\ chunk = [c \in Chunk |-> "off"]
  /\ err = "none" /\ ignored = FALSE /\ tick = None
  /\ ranges = FALSE /\ pos = 0 /\ body = "file"
  /\ ops = 0 /\ kills = 0

MainStep ==
  Begin \/ Probe \/ Load \/ Join \/ Save \/ Judge \/ Drop \/ Open \/ Get \/ Copy \/ Verify \/ FinishJob

ChunkStep(c) == Ask(c) \/ Read(c) \/ Count(c)

Next ==
  \/ MainStep \/ Tick \/ TickWrite \/ Report
  \/ \E c \in Chunk : ChunkStep(c)
  \/ Pause \/ Resume \/ Retry \/ Kill \/ RetryKilled

\* Goroutines that can go on do, and servers answer or the connection fails.
Fairness ==
  /\ WF_vars(MainStep)
  /\ \A c \in Chunk : WF_vars(ChunkStep(c))
  /\ WF_vars(TickWrite)

Spec == Init /\ [][Next]_vars
FairSpec == Spec /\ Fairness

-----------------------------------------------------------------------------
(* Properties *)

\* A server that serves ranges, and says so at every probe, to a chunked job.
Chunkable == chunked /\ \A p \in server : p.ranges /\ p.sized

\* A download reported complete is the server's file, whatever was paused,
\* killed, cut short or answered oddly on the way: always if the job has a
\* sha256, and without one for a chunked job on a server that serves ranges,
\* even if it ignores them now and then (Run, fetchChunk, Judge's count).
\* Only a retry that was killed after its deletions leaves a completed row
\* with no file at all.
CompletedIsWhole ==
  row.st = "completed" /\ (sha \/ Chunkable) => Whole \/ file = NoFile

\* An attempt comes to an end, cancelled or not: ignored ranges included,
\* which "has to be abandoned entirely rather than retried" (errRangeIgnored).
AttemptEnds == main # "idle" ~> main = "idle"

Resumable == INSTANCE ResumableFile WITH
  Blocks  <- Block,
  held    <- IF Chunkable THEN file.good ELSE {},
  claimed <- IF Chunkable /\ sidecar # None THEN Claimed(sidecar) ELSE {}

\* File and sidecar of such a job are a resumable file: a kill at any point
\* finds a sidecar that claims nothing the file does not have and that is
\* never behind an earlier one.
ImplementsResumableFile == Resumable!FileSpec

\* One record of the counts is no further than another; its blocks are there.
Behind(a, b) == a # None => \A c \in Chunk : a[c] <= b[c]
Held(counts) == counts # None => Claimed(counts) \subseteq file.good

\* Why it holds: what the counts speak of is in the file, in memory, in the
\* ticker's hands and on disk, each no further than the one before (Done is
\* raised after WriteAt, runChunked saves only after stopTicker).
Checkpointed ==
  /\ Held(sidecar) /\ Held(tick)
  /\ main \in {"chunks", "stop", "judge"} =>
       /\ Held(mem) /\ Behind(sidecar, mem) /\ Behind(tick, mem)
       /\ \A c \in Chunk : chunk[c] = "wrote" => Start(c) + mem[c] + 1 \in file.good
  /\ tick # None => main \in {"chunks", "stop"} /\ Behind(sidecar, tick)
  /\ main \in {"open", "get", "copy", "verify"} => sidecar = None

SidecarInv == Chunkable => Checkpointed

-----------------------------------------------------------------------------
(* What comments say, and the code does not keep *)

=============================================================================
