--------------------------- MODULE DownloaderProofs ---------------------------
(***************************************************************************)
(* What a kill finds of a chunked download, proved for files and chunks of *)
(* any number: SidecarInv, and that file and sidecar implement             *)
(* ResumableFile; then that what is reported complete is whole, and that   *)
(* no count or resume offset lies past the file.                           *)
(***************************************************************************)
EXTENDS Downloader, FiniteSetTheorems, NaturalsInduction, WellFoundedInduction, TLAPS

USE DownloaderAssumption

-----------------------------------------------------------------------------
(* The chunks *)

LEMMA ChunkSizeBound ==
  ChunkSize \in Nat /\ Concurrency * ChunkSize <= Total
  BY SMT DEF ChunkSize

LEMMA TimesMonotone ==
  ASSUME NEW s \in Nat, NEW m \in Nat, NEW n \in Nat, m <= n
  PROVE  m * s \in Nat /\ m * s <= n * s
  BY SMT

\* Chunks lie within the file.
LEMMA ChunkBounds ==
  ASSUME NEW c \in Chunk
  PROVE  /\ Start(c) \in Nat /\ Size(c) \in Nat
         /\ Start(c) + Size(c) <= Total
<1>1. ChunkSize \in Nat /\ Concurrency * ChunkSize <= Total
  BY ChunkSizeBound
<1>2. /\ c \in Nat /\ c - 1 \in Nat /\ c <= Concurrency
      /\ c - 1 <= c /\ c - 1 <= Concurrency /\ Concurrency \in Nat
  BY DEF Chunk
<1>3. /\ (c - 1) * ChunkSize \in Nat /\ (c - 1) * ChunkSize <= c * ChunkSize
      /\ (c - 1) * ChunkSize <= Concurrency * ChunkSize
  BY <1>1, <1>2, TimesMonotone
<1>4. c * ChunkSize \in Nat /\ c * ChunkSize <= Concurrency * ChunkSize
  BY <1>1, <1>2, TimesMonotone
<1>5. Concurrency * ChunkSize \in Nat
  BY <1>1, <1>2, TimesMonotone
<1> QED
  BY <1>1, <1>3, <1>4, <1>5 DEF Start, End, Size

\* The counts of all chunks, none past its chunk's end.
Within(counts) == counts \in Counts /\ \A c \in Chunk : counts[c] <= Size(c)

LEMMA ZeroWithin ==
  /\ Within([c \in Chunk |-> 0])
  /\ Claimed([c \in Chunk |-> 0]) = {}
<1>1. ASSUME NEW c \in Chunk
      PROVE  0 <= Size(c) /\ Start(c) + 1 .. Start(c) + 0 = {}
  BY ChunkBounds
<1> QED
  BY <1>1 DEF Within, Counts, Claimed

\* Counts that are not behind others claim what those claim.
LEMMA ClaimedMonotone ==
  ASSUME NEW a \in Counts, NEW b \in Counts, \A c \in Chunk : a[c] <= b[c]
  PROVE  Claimed(a) \subseteq Claimed(b)
<1> SUFFICES ASSUME NEW c \in Chunk, NEW x \in Start(c) + 1 .. Start(c) + a[c]
             PROVE  x \in Start(c) + 1 .. Start(c) + b[c]
  BY DEF Claimed
<1> QED
  BY ChunkBounds DEF Counts

\* None, a count of nothing, is not a record of counts.
LEMMA CountsNotNone ==
  ASSUME NEW counts \in Counts
  PROVE  counts # None
  BY DEF Counts, Chunk

\* The block after those counted is in the file, and its count claims it.
LEMMA NextBlock ==
  ASSUME NEW counts, Within(counts), NEW c \in Chunk, counts[c] < Size(c)
  PROVE  LET more == [counts EXCEPT ![c] = @ + 1] IN
         /\ Start(c) + counts[c] + 1 \in Block
         /\ Within(more)
         /\ \A d \in Chunk : counts[d] <= more[d]
         /\ Claimed(more) \subseteq Claimed(counts) \cup {Start(c) + counts[c] + 1}
<1> DEFINE more == [counts EXCEPT ![c] = @ + 1]
<1>1. /\ counts \in [Chunk -> 0..Total]
      /\ \A d \in Chunk : counts[d] \in 0..Total /\ counts[d] <= Size(d)
  BY DEF Within, Counts
<1>2. Start(c) \in Nat /\ Size(c) \in Nat /\ Start(c) + Size(c) <= Total
  BY ChunkBounds
<1>3. more[c] = counts[c] + 1 /\ \A d \in Chunk \ {c} : more[d] = counts[d]
  BY <1>1
<1>4. /\ counts[c] + 1 \in 0..Total /\ counts[c] + 1 <= Size(c)
      /\ Start(c) + counts[c] + 1 \in Block
  BY <1>1, <1>2 DEF Block
<1>5. more \in Counts
  BY <1>1, <1>3, <1>4 DEF Counts
<1>6. \A d \in Chunk : more[d] <= Size(d) /\ counts[d] <= more[d]
  BY <1>1, <1>3, <1>4
<1>7. ASSUME NEW d \in Chunk, NEW x \in Start(d) + 1 .. Start(d) + more[d]
      PROVE  x \in Start(d) + 1 .. Start(d) + counts[d] \/ x = Start(c) + counts[c] + 1
  <2>1. Start(d) \in Nat
    BY ChunkBounds
  <2>2. CASE d = c
    BY <1>1, <1>3, <2>1, <2>2
  <2>3. CASE d # c
    BY <1>3, <2>3
  <2> QED BY <2>2, <2>3
<1>8. Claimed(more) \subseteq Claimed(counts) \cup {Start(c) + counts[c] + 1}
  BY <1>7 DEF Claimed
<1> QED
  BY <1>4, <1>5, <1>6, <1>8 DEF Within

-----------------------------------------------------------------------------
(* The inductive invariant *)

\* Where Run and its goroutines are, and what they hold.
Goroutines ==
  /\ main \in MainPc
  /\ file \in [len: Int, good: SUBSET Block]
  /\ sidecar # None => Within(sidecar)
  /\ tick # None => Within(tick)
  /\ Within(mem)
  /\ chunk \in [Chunk -> {"off", "ask", "read", "wrote"}]
  /\ \A c \in Chunk : chunk[c] # "off" => main = "chunks" /\ mem[c] < Size(c)
  /\ main \in {"open", "get", "copy"} => ~ranges
  /\ main \in {"get", "copy"} => pos \in 0..Total

IInv == Chunkable => Goroutines /\ Checkpointed

LEMMA InitIInv == Init => IInv
<1> SUFFICES ASSUME Init
             PROVE  Goroutines /\ Checkpointed
  BY DEF IInv
<1>1. mem = [c \in Chunk |-> 0] /\ Within(mem) /\ main = "idle" /\ tick = None /\ sidecar = None
  BY ZeroWithin DEF Init
<1>2. file \in [len: Int, good: SUBSET Block]
  BY DEF Init, NoFile
<1>3. chunk = [c \in Chunk |-> "off"]
  BY DEF Init
<1>4. Goroutines
  BY <1>1, <1>2, <1>3 DEF Goroutines, MainPc
<1>5. Checkpointed
  BY <1>1 DEF Checkpointed, Held, Behind
<1> QED
  BY <1>4, <1>5

\* Steps that leave the file, the sidecar and the chunks alone.
LEMMA QuietStep ==
  ASSUME Goroutines, Checkpointed,
         UNCHANGED <<file, sidecar, chunking>>,
         main' \in {"probe", "load", "finish", main},
         main' = main \/ main \notin {"chunks", "stop"},
         main' \in {"open", "get", "copy"} => UNCHANGED <<ranges, pos>>
  PROVE  Goroutines' /\ Checkpointed'
<1>1. UNCHANGED <<file, sidecar, mem, chunk, tick>>
  BY DEF chunking
<1>2. Goroutines'
  BY <1>1 DEF Goroutines, Within, Counts, MainPc
<1>3. Checkpointed'
  BY <1>1 DEF Checkpointed, Held, Behind, Claimed, Goroutines
<1> QED
  BY <1>2, <1>3

\* Steps after which no attempt runs; a sidecar that stays has its file.
LEMMA OverStep ==
  ASSUME Goroutines, Checkpointed,
         main' = "idle",
         mem' = [c \in Chunk |-> 0] /\ chunk' = [c \in Chunk |-> "off"] /\ tick' = None,
         sidecar' \in {sidecar, None},
         file' = file \/ (sidecar' = None /\ file' = NoFile)
  PROVE  Goroutines' /\ Checkpointed'
<1>1. Within(mem)'
  BY ZeroWithin DEF Within, Counts
<1>2. file' \in [len: Int, good: SUBSET Block]
  BY DEF Goroutines, NoFile
<1>3. sidecar' # None => Within(sidecar)'
  BY DEF Goroutines, Within, Counts
<1>4. Goroutines'
  BY <1>1, <1>2, <1>3 DEF Goroutines, MainPc
<1>5. Held(sidecar)'
  BY DEF Checkpointed, Held, Claimed
<1>6. Checkpointed'
  BY <1>5 DEF Checkpointed, Held, Behind
<1> QED
  BY <1>4, <1>6

LEMMA LoadKeeps ==
  ASSUME Goroutines, Checkpointed, Load
  PROVE  Goroutines' /\ Checkpointed'
<1> USE DEF Load
<1>1. main = "load" /\ tick = None /\ UNCHANGED <<sidecar, stream>>
  BY DEF Checkpointed
<1>2. CASE main' = "finish" /\ UNCHANGED <<file, chunking>>
  BY <1>1, <1>2, QuietStep DEF stream
<1>3. CASE /\ file' = IF sidecar = None THEN [file EXCEPT !.len = Total] ELSE file
           /\ mem' = IF sidecar = None THEN [c \in Chunk |-> 0] ELSE sidecar
           /\ chunk' = [c \in Chunk |-> IF mem'[c] >= Size(c) THEN "off" ELSE "ask"]
           /\ main' = "chunks" /\ tick' = None
  <2>1. Within(mem') /\ Claimed(mem') \subseteq file.good /\ file.good = file'.good
    <3>1. CASE sidecar = None
      BY <1>3, <3>1, ZeroWithin DEF Goroutines
    <3>2. CASE sidecar # None
      BY <1>3, <3>2 DEF Goroutines, Checkpointed, Held
    <3> QED BY <3>1, <3>2
  <2>2. file' \in [len: Int, good: SUBSET Block]
    BY <1>3 DEF Goroutines
  <2>3. \A c \in Chunk : chunk'[c] # "off" => mem'[c] < Size(c)
    BY <1>3, <2>1, ChunkBounds DEF Within, Counts
  <2>4. chunk' \in [Chunk -> {"off", "ask", "read", "wrote"}]
    BY <1>3
  <2>5. Goroutines'
    BY <1>1, <1>3, <2>1, <2>2, <2>3, <2>4 DEF Goroutines, Within, Counts, MainPc
  <2>6. Held(mem)' /\ Held(sidecar)' /\ Held(tick)'
    BY <1>1, <1>3, <2>1 DEF Held, Claimed, Checkpointed
  <2>7. sidecar # None => sidecar = mem' /\ sidecar \in Counts
    BY <1>3 DEF Goroutines, Within
  <2>8. Behind(sidecar, mem)' /\ Behind(tick, mem)'
    BY <1>1, <1>3, <2>7 DEF Behind, Counts
  <2>9. \A c \in Chunk : chunk'[c] # "wrote"
    BY <1>3
  <2> QED
    BY <1>3, <2>5, <2>6, <2>8, <2>9 DEF Checkpointed
<1> QED
  BY <1>2, <1>3 DEF Return

LEMMA AskKeeps ==
  ASSUME Goroutines, Checkpointed, NEW c \in Chunk, Ask(c)
  PROVE  Goroutines' /\ Checkpointed'
<1>1. /\ chunk[c] = "ask"
      /\ chunk' = [chunk EXCEPT ![c] = "read"] \/ chunk' = [chunk EXCEPT ![c] = "off"]
      /\ UNCHANGED <<file, sidecar, main, mem, tick, ranges, pos>>
  BY DEF Ask, Fails, Ends, ChunksUnchanged, stream
<1>2. /\ chunk' \in [Chunk -> {"off", "ask", "read", "wrote"}]
      /\ \A d \in Chunk : chunk'[d] # "off" => chunk[d] # "off"
      /\ \A d \in Chunk : chunk'[d] = "wrote" => chunk[d] = "wrote"
  BY <1>1 DEF Goroutines
<1>3. Goroutines'
  BY <1>1, <1>2 DEF Goroutines, Within, Counts
<1>4. Checkpointed'
  BY <1>1, <1>2 DEF Checkpointed, Held, Behind, Claimed
<1> QED
  BY <1>3, <1>4

\* A block read is written where the next count will claim it.
LEMMA ReadKeeps ==
  ASSUME Goroutines, Checkpointed, NEW c \in Chunk, Read(c)
  PROVE  Goroutines' /\ Checkpointed'
<1> DEFINE b == Start(c) + mem[c] + 1
<1>1. /\ chunk[c] = "read"
      /\ \/ file' = Written(b) /\ chunk' = [chunk EXCEPT ![c] = "wrote"]
         \/ file' = file /\ chunk' = [chunk EXCEPT ![c] = "off"]
      /\ UNCHANGED <<sidecar, main, mem, tick, ranges, pos>>
  BY DEF Read, Fails, Ends, ChunksUnchanged, stream
<1>2. main = "chunks" /\ b \in Block
  BY <1>1, NextBlock DEF Goroutines
<1>3. /\ file' \in [len: Int, good: SUBSET Block]
      /\ file.good \subseteq file'.good
      /\ file' = Written(b) => b \in file'.good
  BY <1>1, <1>2 DEF Goroutines, Written, Block
<1>4. /\ chunk' \in [Chunk -> {"off", "ask", "read", "wrote"}]
      /\ \A d \in Chunk : chunk'[d] # "off" => chunk[d] # "off"
      /\ \A d \in Chunk : chunk'[d] = "wrote" => chunk[d] = "wrote" \/ (d = c /\ file' = Written(b))
  BY <1>1 DEF Goroutines
<1>5. Goroutines'
  BY <1>1, <1>3, <1>4 DEF Goroutines, Within, Counts
<1>6. Held(sidecar)' /\ Held(tick)' /\ Held(mem)'
  BY <1>1, <1>2, <1>3 DEF Checkpointed, Held, Claimed
<1>7. \A d \in Chunk : chunk'[d] = "wrote" => Start(d) + mem'[d] + 1 \in file'.good
  BY <1>1, <1>2, <1>3, <1>4 DEF Checkpointed
<1>8. Checkpointed'
  BY <1>1, <1>2, <1>6, <1>7 DEF Checkpointed, Behind
<1> QED
  BY <1>5, <1>8

\* The count claims the block just written, and is ahead of all records.
LEMMA CountKeeps ==
  ASSUME Goroutines, Checkpointed, NEW c \in Chunk, Count(c)
  PROVE  Goroutines' /\ Checkpointed'
<1>1. /\ chunk[c] = "wrote"
      /\ mem' = [mem EXCEPT ![c] = @ + 1]
      /\ chunk' = [chunk EXCEPT ![c] = IF mem[c] + 1 >= Size(c) THEN "off" ELSE "read"]
      /\ UNCHANGED <<file, sidecar, main, tick, ranges, pos>>
  BY DEF Count, ChunksUnchanged, stream
<1>2. main = "chunks" /\ mem[c] < Size(c) /\ Start(c) + mem[c] + 1 \in file.good
  BY <1>1 DEF Goroutines, Checkpointed
<1>3. /\ Within(mem')
      /\ \A d \in Chunk : mem[d] <= mem'[d]
      /\ Claimed(mem') \subseteq Claimed(mem) \cup {Start(c) + mem[c] + 1}
  BY <1>1, <1>2, NextBlock DEF Goroutines
<1>4. /\ mem \in [Chunk -> 0..Total]
      /\ mem'[c] = mem[c] + 1
      /\ \A d \in Chunk \ {c} : mem'[d] = mem[d]
  BY <1>1 DEF Goroutines, Within, Counts
<1>5. /\ chunk' \in [Chunk -> {"off", "ask", "read", "wrote"}]
      /\ chunk'[c] # "wrote"
      /\ \A d \in Chunk \ {c} : chunk'[d] = chunk[d]
  BY <1>1 DEF Goroutines
<1>6. chunk'[c] # "off" => mem'[c] < Size(c)
  <2>1. Size(c) \in Nat /\ mem[c] \in Nat
    BY <1>4, ChunkBounds
  <2>2. chunk'[c] # "off" => ~(mem[c] + 1 >= Size(c))
    BY <1>1 DEF Goroutines
  <2> QED BY <1>4, <2>1, <2>2
<1>7. \A d \in Chunk : chunk'[d] # "off" => main' = "chunks" /\ mem'[d] < Size(d)
  BY <1>1, <1>2, <1>4, <1>5, <1>6 DEF Goroutines
<1>8. Goroutines'
  BY <1>1, <1>3, <1>5, <1>7 DEF Goroutines, Within, Counts
<1>9. Held(mem) => Held(mem)'
  BY <1>1, <1>2, <1>3, CountsNotNone DEF Held, Claimed, Goroutines, Within
<1>10. /\ Behind(sidecar, mem) => Behind(sidecar, mem)'
       /\ Behind(tick, mem) => Behind(tick, mem)'
  BY <1>1, <1>3 DEF Behind, Goroutines, Within, Counts
<1>11. \A d \in Chunk : chunk'[d] = "wrote" => Start(d) + mem'[d] + 1 \in file'.good
  BY <1>1, <1>2, <1>4, <1>5 DEF Checkpointed
<1>12. Checkpointed'
  BY <1>1, <1>2, <1>9, <1>10, <1>11 DEF Checkpointed, Held, Behind, Claimed
<1> QED
  BY <1>8, <1>12

LEMMA TickKeeps ==
  ASSUME Goroutines, Checkpointed, Tick
  PROVE  Goroutines' /\ Checkpointed'
<1>1. /\ main = "chunks" /\ tick = None /\ tick' = mem
      /\ UNCHANGED <<file, sidecar, main, mem, chunk, ranges, pos>>
  BY DEF Tick, ChunksUnchanged, stream
<1>2. Goroutines'
  BY <1>1 DEF Goroutines, Within, Counts
<1>3. Held(tick)' /\ Behind(sidecar, tick)'
  BY <1>1 DEF Checkpointed, Held, Behind, Claimed
<1>4. Behind(tick, mem)'
  BY <1>1 DEF Goroutines, Within, Counts, Behind
<1>5. Checkpointed'
  BY <1>1, <1>3, <1>4 DEF Checkpointed, Held, Behind, Claimed
<1> QED
  BY <1>2, <1>5

\* What a tick marshalled is still no less than the sidecar when it replaces it.
LEMMA TickWriteKeeps ==
  ASSUME Goroutines, Checkpointed, TickWrite
  PROVE  Goroutines' /\ Checkpointed'
<1>1. /\ tick # None /\ main \in {"chunks", "stop"}
      /\ sidecar' \in {tick, sidecar} /\ tick' = None
      /\ UNCHANGED <<file, main, mem, chunk, ranges, pos>>
  BY DEF TickWrite, ChunksUnchanged, stream, Checkpointed
<1>2. Goroutines'
  BY <1>1 DEF Goroutines, Within, Counts
<1>3. Held(sidecar)' /\ Behind(sidecar, mem)'
  BY <1>1 DEF Checkpointed, Held, Behind, Claimed
<1>4. Checkpointed'
  BY <1>1, <1>3 DEF Checkpointed, Held, Behind, Claimed
<1> QED
  BY <1>2, <1>4

LEMMA JoinKeeps ==
  ASSUME Goroutines, Checkpointed, Join
  PROVE  Goroutines' /\ Checkpointed'
<1>1. /\ main = "chunks" /\ main' = "stop"
      /\ \A c \in Chunk : chunk[c] = "off"
      /\ UNCHANGED <<file, sidecar, mem, chunk, tick, ranges, pos>>
  BY DEF Join, ChunksUnchanged, chunking, stream
<1>2. Goroutines'
  BY <1>1 DEF Goroutines, Within, Counts, MainPc
<1>3. Checkpointed'
  BY <1>1 DEF Checkpointed, Held, Behind, Claimed
<1> QED
  BY <1>2, <1>3

\* No tick is in flight that could overtake the last save.
LEMMA SaveKeeps ==
  ASSUME Goroutines, Checkpointed, Save
  PROVE  Goroutines' /\ Checkpointed'
<1>1. /\ main = "stop" /\ tick = None
      /\ \/ main' = "drop" /\ sidecar' = sidecar
         \/ main' = "judge" /\ sidecar' \in {mem, sidecar}
      /\ UNCHANGED <<file, mem, chunk, tick, ranges, pos>>
  BY DEF Save, ChunksUnchanged, chunking, stream
<1>2. Goroutines'
  BY <1>1 DEF Goroutines, Within, Counts, MainPc
<1>3. Held(sidecar)' /\ Held(mem)' /\ Held(tick)' /\ Behind(tick, mem)'
  BY <1>1 DEF Checkpointed, Held, Behind, Claimed
<1>4. Behind(sidecar, mem)'
  BY <1>1 DEF Checkpointed, Goroutines, Within, Counts, Behind
<1>5. Checkpointed'
  BY <1>1, <1>3, <1>4 DEF Checkpointed, Goroutines
<1> QED
  BY <1>2, <1>5

LEMMA JudgeKeeps ==
  ASSUME Goroutines, Checkpointed, Judge
  PROVE  Goroutines' /\ Checkpointed'
<1>1. /\ main = "judge" /\ tick = None
      /\ \/ main' = "finish" /\ sidecar' = sidecar
         \/ main' = "verify" /\ sidecar' = None
      /\ UNCHANGED <<file, mem, chunk, tick, ranges, pos>>
  BY DEF Judge, Return, chunking, stream, Checkpointed
<1>2. Goroutines'
  BY <1>1 DEF Goroutines, Within, Counts, MainPc
<1>3. Checkpointed'
  BY <1>1 DEF Checkpointed, Held, Behind, Claimed
<1> QED
  BY <1>2, <1>3

\* The steps of the single stream that follows ignored ranges: there is no
\* sidecar, and the file may hold anything.
LEMMA StreamKeeps ==
  ASSUME Goroutines, Checkpointed, Drop \/ Open \/ Get \/ Copy \/ Verify
  PROVE  Goroutines' /\ Checkpointed'
<1>1. /\ main \notin {"chunks", "stop", "judge"} /\ tick = None /\ sidecar' = None
      /\ UNCHANGED <<mem, chunk, tick>>
  BY DEF Drop, Open, Get, Copy, Verify, chunking, Checkpointed
<1>2. /\ main' \in MainPc \ {"chunks", "stop", "judge"}
      /\ main' \in {"open", "get", "copy"} => ~ranges'
      /\ main' \in {"get", "copy"} => pos' \in 0..Total
      /\ file' \in [len: Int, good: SUBSET Block]
  <2>1. CASE Drop
    BY <2>1 DEF Drop, Goroutines, MainPc
  <2>2. CASE Open
    BY <2>2 DEF Open, Goroutines, MainPc, Empty
  <2>3. CASE Get
    BY <2>3 DEF Get, Return, Goroutines, MainPc, Empty
  <2>4. CASE Copy
    <3>1. /\ main = "copy" /\ ~ranges /\ ~ranges' /\ pos \in 0..Total
          /\ main' \in {"copy", "verify", "finish"}
      BY <2>4 DEF Copy, Return, Goroutines
    <3>2. CASE pos < Total /\ file' = Written(pos + 1) /\ pos' = pos + 1
      BY <3>1, <3>2 DEF Written, Block, Goroutines, MainPc
    <3>3. CASE file' = [len |-> 1, good |-> {}] /\ pos' = 1
      BY <3>1, <3>3 DEF MainPc
    <3>4. CASE UNCHANGED <<file, pos>>
      BY <3>1, <3>4 DEF Goroutines, MainPc
    <3> QED
      BY <2>4, <3>2, <3>3, <3>4 DEF Copy
  <2>5. CASE Verify
    BY <2>5 DEF Verify, Return, Goroutines, MainPc, NoFile
  <2> QED
    BY <2>1, <2>2, <2>3, <2>4, <2>5
<1>3. Goroutines'
  BY <1>1, <1>2 DEF Goroutines, Within, Counts
<1>4. Checkpointed'
  BY <1>1, <1>2 DEF Checkpointed, Held, Behind
<1> QED
  BY <1>3, <1>4

\* What the job wants and what its server is never changes.
LEMMA ParamsStay ==
  ASSUME [Next]_vars
  PROVE  Chunkable' = Chunkable
<1>1. CASE MainStep
  BY <1>1 DEF MainStep, Begin, Probe, Load, Join, Save, Judge, Drop, Open, Get, Copy, Verify,
              FinishJob, ChunksUnchanged, params, Chunkable
<1>2. ASSUME NEW c \in Chunk, ChunkStep(c)
      PROVE  Chunkable' = Chunkable
  BY <1>2 DEF ChunkStep, Ask, Read, Count, ChunksUnchanged, params, Chunkable
<1>3. CASE Tick \/ TickWrite \/ Report \/ Pause \/ Resume \/ Retry \/ Kill \/ RetryKilled
  BY <1>3 DEF Tick, TickWrite, Report, Pause, Resume, Retry, Kill, RetryKilled, ChunksUnchanged,
              params, Chunkable
<1>4. CASE UNCHANGED vars
  BY <1>4 DEF vars, params, Chunkable
<1> QED
  BY <1>1, <1>2, <1>3, <1>4 DEF Next

\* A probe finds what a chunkable job needs, or fails.
LEMMA ProbeKeeps ==
  ASSUME Goroutines, Checkpointed, Chunkable, Probe
  PROVE  Goroutines' /\ Checkpointed'
<1>1. main = "probe" /\ main' \in {"load", "finish"} /\ UNCHANGED <<file, sidecar, chunking>>
  BY DEF Probe, Return, Chunkable
<1> QED
  BY <1>1, QuietStep

\* Requests that delete nothing, the start of an attempt, and progress.
LEMMA RequestKeeps ==
  ASSUME Goroutines, Checkpointed, Pause \/ Resume \/ Report \/ Begin
  PROVE  Goroutines' /\ Checkpointed'
<1>1. /\ UNCHANGED <<file, sidecar, chunking, ranges, pos>>
      /\ main' = main \/ (main = "idle" /\ main' = "probe")
  BY DEF Pause, Resume, Report, Begin, stream
<1> QED
  BY <1>1, QuietStep

\* An attempt runs for an active row only, so a retry finds none.
RowIdle ==
  /\ row = [st |-> row.st, offset |-> row.offset]
  /\ main # "idle" => row.st = "active"

LEMMA RowIdleStep ==
  ASSUME RowIdle, [Next]_vars
  PROVE  RowIdle'
<1> USE DEF RowIdle
<1>1. CASE Begin \/ Report \/ Resume \/ Retry
  BY <1>1 DEF Begin, Report, Resume, Retry
<1>2. CASE FinishJob \/ Kill
  BY <1>2 DEF FinishJob, Kill, RunIsOver
<1>3. CASE Probe \/ Load \/ Join \/ Save \/ Judge \/ Drop \/ Open \/ Get \/ Copy \/ Verify
  <2>1. row' = row /\ main # "idle"
    BY <1>3 DEF Probe, Load, Join, Save, Judge, Drop, Open, Get, Copy, Verify, ChunksUnchanged
  <2> QED
    BY <2>1
<1>4. ASSUME NEW c \in Chunk, ChunkStep(c)
      PROVE  RowIdle'
  BY <1>4 DEF ChunkStep, Ask, Read, Count, ChunksUnchanged
<1>5. CASE Tick \/ TickWrite \/ Pause \/ RetryKilled
  BY <1>5 DEF Tick, TickWrite, Pause, RetryKilled, ChunksUnchanged
<1>6. CASE UNCHANGED vars
  BY <1>6 DEF vars
<1> QED
  BY <1>1, <1>2, <1>3, <1>4, <1>5, <1>6 DEF Next, MainStep

\* The end of an attempt; a kill, which can leave verifyChecksum's deletions
\* half done, finds no sidecar then.
LEMMA EndKeeps ==
  ASSUME Goroutines, Checkpointed, FinishJob \/ Kill
  PROVE  Goroutines' /\ Checkpointed'
<1>1. /\ main' = "idle" /\ mem' = [c \in Chunk |-> 0] /\ chunk' = [c \in Chunk |-> "off"]
      /\ tick' = None /\ sidecar' = sidecar
  BY DEF FinishJob, Kill, RunIsOver
<1>2. file' = file \/ (sidecar' = None /\ file' = NoFile)
  BY <1>1 DEF FinishJob, Kill, Checkpointed
<1> QED
  BY <1>1, <1>2, OverStep

\* What a retry deletes no attempt is writing.
LEMMA RetryKeeps ==
  ASSUME Goroutines, Checkpointed, RowIdle, Retry \/ RetryKilled
  PROVE  Goroutines' /\ Checkpointed'
<1>1. /\ main = "idle" /\ main' = "idle" /\ sidecar' = None /\ file' \in {file, NoFile}
      /\ UNCHANGED <<mem, chunk, tick, ranges, pos>>
  BY DEF Retry, RetryKilled, RowIdle, chunking, stream
<1>2. tick = None
  BY <1>1 DEF Checkpointed
<1>3. Goroutines'
  BY <1>1, <1>2 DEF Goroutines, Within, Counts, NoFile
<1>4. Checkpointed'
  BY <1>1, <1>2 DEF Checkpointed, Held, Behind
<1> QED
  BY <1>3, <1>4

LEMMA NextIInv ==
  ASSUME IInv, RowIdle, [Next]_vars
  PROVE  IInv'
<1> SUFFICES ASSUME Goroutines, Checkpointed, Chunkable
             PROVE  Goroutines' /\ Checkpointed'
  BY ParamsStay DEF IInv
<1>1. CASE MainStep
  BY <1>1, RequestKeeps, ProbeKeeps, LoadKeeps, JoinKeeps, SaveKeeps, JudgeKeeps, StreamKeeps,
     EndKeeps DEF MainStep
<1>2. ASSUME NEW c \in Chunk, ChunkStep(c)
      PROVE  Goroutines' /\ Checkpointed'
  BY <1>2, AskKeeps, ReadKeeps, CountKeeps DEF ChunkStep
<1>3. CASE Tick \/ TickWrite
  BY <1>3, TickKeeps, TickWriteKeeps
<1>4. CASE Report \/ Pause \/ Resume
  BY <1>4, RequestKeeps
<1>5. CASE Retry \/ RetryKilled \/ Kill
  BY <1>5, RetryKeeps, EndKeeps
<1>6. CASE UNCHANGED vars
  BY <1>6, QuietStep DEF vars, stream
<1> QED
  BY <1>1, <1>2, <1>3, <1>4, <1>5, <1>6 DEF Next

LEMMA Inductive == Spec => [](IInv /\ RowIdle)
<1>1. Init => IInv /\ RowIdle
  BY InitIInv DEF Init, RowIdle
<1>2. IInv /\ RowIdle /\ [Next]_vars => (IInv /\ RowIdle)'
  BY NextIInv, RowIdleStep
<1> QED
  BY <1>1, <1>2, PTL DEF Spec

\* At every point a kill may come (fetchChunk, the ticker, runChunked's last
\* save) the counts on disk, in the ticker's hands and in memory speak of
\* written blocks only, each no further than the next.
THEOREM SidecarInvHolds == Spec => []SidecarInv
<1>1. IInv => SidecarInv
  BY DEF IInv, SidecarInv
<1> QED
  BY <1>1, Inductive, PTL

-----------------------------------------------------------------------------
(* File and sidecar are a resumable file *)

FileStep == [Resumable!FileNext]_(Resumable!fileVars)

LEMMA StaysMaps ==
  ASSUME Chunkable' = Chunkable, file'.good = file.good, sidecar' = sidecar
  PROVE  FileStep
  BY DEF FileStep, Resumable!fileVars, Claimed

LEMMA ReceiveMaps ==
  ASSUME Chunkable, Chunkable', NEW b \in Block,
         file'.good = file.good \cup {b}, sidecar' = sidecar
  PROVE  FileStep
<1>1. Resumable!Receive(b)
  BY DEF Resumable!Receive, Claimed
<1> QED
  BY <1>1 DEF FileStep, Resumable!FileNext

LEMMA SaveMaps ==
  ASSUME Chunkable, Chunkable', NEW counts \in Counts, sidecar' = counts,
         sidecar # None => sidecar \in Counts,
         Claimed(counts) \subseteq file.good, Behind(sidecar, counts),
         file'.good = file.good
  PROVE  FileStep
<1>1. sidecar # None => Claimed(sidecar) \subseteq Claimed(counts)
  BY ClaimedMonotone DEF Behind
<1>2. sidecar' # None /\ Claimed(sidecar)' = Claimed(counts)
  BY CountsNotNone DEF Claimed
<1>3. Resumable!Save
  BY <1>1, <1>2 DEF Resumable!Save
<1> QED
  BY <1>3 DEF FileStep, Resumable!FileNext

LEMMA ForgetMaps ==
  ASSUME Chunkable, Chunkable', sidecar' = None, file'.good \in {file.good, {}}
  PROVE  FileStep
<1>1. CASE file'.good = file.good
  <2>1. Resumable!Forget
    BY <1>1 DEF Resumable!Forget
  <2> QED
    BY <2>1 DEF FileStep, Resumable!FileNext
<1>2. CASE file'.good = {}
  <2>1. Resumable!StartOver
    BY <1>2 DEF Resumable!StartOver
  <2> QED
    BY <2>1 DEF FileStep, Resumable!FileNext
<1> QED
  BY <1>1, <1>2

LEMMA InitMaps == Init => Resumable!FileInit
  BY DEF Init, NoFile, Resumable!FileInit

\* The steps of a chunked attempt.
LEMMA ChunkedStepMaps ==
  ASSUME Goroutines, Checkpointed, Chunkable, Chunkable',
         Load \/ Join \/ Save \/ Judge \/ Tick \/ TickWrite
         \/ \E c \in Chunk : ChunkStep(c)
  PROVE  FileStep
<1>1. CASE Load
  <2>1. file'.good = file.good /\ sidecar' = sidecar
    BY <1>1 DEF Load, Goroutines
  <2> QED
    BY <2>1, StaysMaps
<1>2. CASE Join \/ Tick
  BY <1>2, StaysMaps DEF Join, Tick
<1>3. CASE Save
  <2>1. main = "stop" /\ file' = file /\ (sidecar' = sidecar \/ sidecar' = mem)
    BY <1>3 DEF Save
  <2>2. mem \in Counts /\ (sidecar # None => sidecar \in Counts)
    BY DEF Goroutines, Within
  <2>3. Claimed(mem) \subseteq file.good /\ Behind(sidecar, mem)
    BY <2>1, <2>2, CountsNotNone DEF Checkpointed, Held
  <2> QED
    BY <2>1, <2>2, <2>3, SaveMaps, StaysMaps
<1>4. CASE TickWrite
  <2>1. tick # None /\ file' = file /\ (sidecar' = sidecar \/ sidecar' = tick)
    BY <1>4 DEF TickWrite
  <2>2. tick \in Counts /\ (sidecar # None => sidecar \in Counts)
    BY <2>1 DEF Goroutines, Within
  <2>3. Claimed(tick) \subseteq file.good /\ Behind(sidecar, tick)
    BY <2>1 DEF Checkpointed, Held
  <2> QED
    BY <2>1, <2>2, <2>3, SaveMaps, StaysMaps
<1>5. CASE Judge
  BY <1>5, StaysMaps, ForgetMaps DEF Judge
<1>6. ASSUME NEW c \in Chunk, ChunkStep(c)
      PROVE  FileStep
  <2>1. CASE Ask(c) \/ Count(c)
    BY <2>1, StaysMaps DEF Ask, Count
  <2>2. CASE Read(c)
    <3>1. Start(c) + mem[c] + 1 \in Block
      BY <2>2, NextBlock DEF Read, Goroutines
    <3>2. /\ sidecar' = sidecar
          /\ \/ file'.good = file.good \cup {Start(c) + mem[c] + 1}
             \/ file'.good = file.good
      BY <2>2 DEF Read, Written
    <3> QED
      BY <3>1, <3>2, ReceiveMaps, StaysMaps
  <2> QED
    BY <1>6, <2>1, <2>2 DEF ChunkStep
<1> QED
  BY <1>1, <1>2, <1>3, <1>4, <1>5, <1>6

\* The steps of a single stream, and those that delete.
LEMMA OtherStepMaps ==
  ASSUME Goroutines, Checkpointed, Chunkable, Chunkable',
         Drop \/ Open \/ Get \/ Copy \/ Verify \/ FinishJob \/ Kill \/ Retry \/ RetryKilled
  PROVE  FileStep
<1>1. CASE Drop
  BY <1>1, ForgetMaps DEF Drop
<1>2. CASE Open \/ Get \/ Verify
  <2>1. /\ sidecar = None /\ sidecar' = None
        /\ file' = file \/ file' = Empty \/ file' = NoFile
    BY <1>2 DEF Open, Get, Verify, Checkpointed
  <2>2. file'.good \in {file.good, {}}
    BY <2>1 DEF Empty, NoFile
  <2> QED
    BY <2>1, <2>2, ForgetMaps
<1>3. CASE Copy
  <2>1. sidecar = None /\ sidecar' = sidecar /\ pos \in 0..Total
    BY <1>3 DEF Copy, Checkpointed, Goroutines
  <2>2. CASE pos < Total /\ file' = Written(pos + 1)
    <3>1. pos + 1 \in Block /\ file'.good = file.good \cup {pos + 1}
      BY <2>1, <2>2 DEF Block, Written
    <3> QED
      BY <2>1, <3>1, ReceiveMaps
  <2>3. CASE file' = [len |-> 1, good |-> {}]
    BY <2>1, <2>3, ForgetMaps
  <2>4. CASE file' = file
    BY <2>1, <2>4, StaysMaps
  <2> QED
    BY <1>3, <2>2, <2>3, <2>4 DEF Copy
<1>4. CASE FinishJob
  BY <1>4, StaysMaps DEF FinishJob
<1>5. CASE Kill
  <2>1. /\ sidecar' = sidecar
        /\ file' = file \/ (sidecar = None /\ file' = NoFile)
    BY <1>5 DEF Kill, Checkpointed
  <2> QED
    BY <2>1, StaysMaps, ForgetMaps DEF NoFile
<1>6. CASE Retry \/ RetryKilled
  BY <1>6, ForgetMaps DEF Retry, RetryKilled, NoFile
<1> QED
  BY <1>1, <1>2, <1>3, <1>4, <1>5, <1>6

LEMMA NextMaps ==
  ASSUME IInv, [Next]_vars
  PROVE  FileStep
<1>1. Chunkable' = Chunkable
  BY ParamsStay
<1>2. CASE ~Chunkable
  BY <1>1, <1>2 DEF FileStep, Resumable!fileVars
<1>3. CASE Chunkable
  <2>1. Goroutines /\ Checkpointed /\ Chunkable'
    BY <1>1, <1>3 DEF IInv
  <2>2. CASE Begin \/ Probe \/ Report \/ Pause \/ Resume \/ UNCHANGED vars
    BY <1>1, <2>2, StaysMaps DEF Begin, Probe, Report, Pause, Resume, vars
  <2> QED
    BY <1>3, <2>1, <2>2, ChunkedStepMaps, OtherStepMaps DEF Next, MainStep
<1> QED
  BY <1>2, <1>3

\* Whatever is paused, killed, cut short, refused or retried: the sidecar of a
\* chunked download on a server that serves ranges claims only blocks the
\* file has, and claims are only ever dropped all together, never one by one.
THEOREM ImplementsResumableFileHolds == Spec => ImplementsResumableFile
<1>1. IInv /\ [Next]_vars => [Resumable!FileNext]_(Resumable!fileVars)
  BY NextMaps DEF FileStep
<1> QED
  BY <1>1, InitMaps, Inductive, PTL DEF Spec, ImplementsResumableFile, Resumable!FileSpec

-----------------------------------------------------------------------------
(* What is reported complete *)

LEMMA TimesReflects ==
  ASSUME NEW s \in Nat, NEW m \in Nat, NEW n \in Nat, m * s < n * s
  PROVE  m < n
<1> SUFFICES ASSUME n <= m
             PROVE  FALSE
  OBVIOUS
<1>1. n * s \in Nat /\ m * s \in Nat /\ n * s <= m * s
  BY TimesMonotone
<1> QED
  BY <1>1

LEMMA DivisionBounds ==
  ASSUME NEW a \in Nat, NEW s \in Nat \ {0}
  PROVE  /\ a \div s \in Nat
         /\ (a \div s) * s <= a /\ a < ((a \div s) + 1) * s
  BY SMT

\* Every block is in some chunk.
LEMMA ChunksCover ==
  ASSUME NEW b \in Block
  PROVE  \E c \in Chunk : b \in Start(c) + 1 .. Start(c) + Size(c)
<1>1. /\ ChunkSize \in Nat /\ Concurrency \in Chunk /\ Concurrency - 1 \in Nat
      /\ b \in Nat /\ b - 1 \in Nat /\ b <= Total
  BY ChunkSizeBound DEF Chunk, Block
<1>2. (Concurrency - 1) * ChunkSize \in Nat
  BY <1>1, TimesMonotone
<1>3. CASE (Concurrency - 1) * ChunkSize < b
  <2>1. Start(Concurrency) = (Concurrency - 1) * ChunkSize
    BY DEF Start
  <2>2. Start(Concurrency) + Size(Concurrency) = Total
    BY <1>2, <2>1 DEF Size, End
  <2> QED
    BY <1>1, <1>2, <1>3, <2>1, <2>2
<1>4. CASE b <= (Concurrency - 1) * ChunkSize
  <2> DEFINE q == (b - 1) \div ChunkSize
  <2>1. ChunkSize # 0
    BY <1>1, <1>4
  <2>2. q \in Nat /\ q * ChunkSize <= b - 1 /\ b - 1 < (q + 1) * ChunkSize
    BY <1>1, <2>1, DivisionBounds
  <2> HIDE DEF q
  <2>3. q + 1 \in Nat /\ q * ChunkSize \in Nat /\ (q + 1) * ChunkSize \in Nat
    BY <1>1, <2>2, TimesMonotone
  <2>4. q < Concurrency - 1
    BY <1>1, <1>2, <1>4, <2>2, <2>3, TimesReflects
  <2>5. q + 1 \in Chunk /\ q + 1 # Concurrency
    BY <1>1, <2>2, <2>4 DEF Chunk
  <2>6. Start(q + 1) = q * ChunkSize /\ Start(q + 1) + Size(q + 1) = (q + 1) * ChunkSize
    <3>1. (q + 1) - 1 = q
      BY <2>2
    <3> QED
      BY <2>3, <2>5, <3>1 DEF Start, Size, End
  <2> QED
    BY <1>1, <2>2, <2>3, <2>5, <2>6
<1> QED
  BY <1>1, <1>2, <1>3, <1>4

\* If all chunks are satisfied, their counts claim the whole file.
LEMMA SatisfiedClaimsAll ==
  ASSUME Within(mem), \A c \in Chunk : Satisfied(c)
  PROVE  Block \subseteq Claimed(mem)
<1> SUFFICES ASSUME NEW b \in Block
             PROVE  b \in Claimed(mem)
  OBVIOUS
<1>1. PICK c \in Chunk : b \in Start(c) + 1 .. Start(c) + Size(c)
  BY ChunksCover
<1>2. mem[c] = Size(c)
  BY ChunkBounds DEF Within, Counts, Satisfied
<1> QED
  BY <1>1, <1>2 DEF Claimed

\* Goroutines work on chunks while Run waits for them, whatever the server.
ChunksRun ==
  /\ chunk \in [Chunk -> {"off", "ask", "read", "wrote"}]
  /\ \A c \in Chunk : chunk[c] # "off" => main = "chunks"

LEMMA ChunksRunStep ==
  ASSUME ChunksRun, RowIdle, [Next]_vars
  PROVE  ChunksRun'
<1> USE DEF ChunksRun
<1>1. CASE Load
  <2>1. CASE chunk' = chunk /\ main' = "finish"
    <3>1. \A c \in Chunk : chunk[c] = "off"
      BY <1>1 DEF Load
    <3> QED
      BY <2>1, <3>1
  <2>2. CASE /\ main' = "chunks"
             /\ chunk' = [c \in Chunk |-> IF mem'[c] >= Size(c) THEN "off" ELSE "ask"]
    BY <2>2
  <2> QED
    BY <1>1, <2>1, <2>2 DEF Load, Return, chunking
<1>2. CASE Join
  BY <1>2 DEF Join, chunking
<1>3. CASE Begin \/ Probe \/ Save \/ Judge \/ Drop \/ Open \/ Get \/ Copy \/ Verify
  <2>1. chunk' = chunk /\ main # "chunks"
    BY <1>3 DEF Begin, Probe, Save, Judge, Drop, Open, Get, Copy, Verify, chunking
  <2> QED
    BY <2>1
<1>4. CASE FinishJob \/ Kill
  BY <1>4 DEF FinishJob, Kill, RunIsOver
<1>5. ASSUME NEW c \in Chunk, ChunkStep(c)
      PROVE  ChunksRun'
  <2>1. CASE Ask(c)
    BY <2>1 DEF Ask, Fails, Ends
  <2>2. CASE Read(c)
    BY <2>2 DEF Read, Fails, Ends
  <2>3. CASE Count(c)
    BY <2>3 DEF Count
  <2> QED
    BY <1>5, <2>1, <2>2, <2>3 DEF ChunkStep
<1>6. CASE Tick \/ TickWrite \/ Report \/ Pause \/ Resume \/ Retry \/ RetryKilled
  BY <1>6 DEF Tick, TickWrite, Report, Pause, Resume, Retry, RetryKilled, chunking
<1>7. CASE UNCHANGED vars
  BY <1>7 DEF vars, chunking
<1> QED
  BY <1>1, <1>2, <1>3, <1>4, <1>5, <1>6, <1>7 DEF Next, MainStep

\* What is in the file of a chunked download, at its full length from the
\* start, and of the single stream that follows ignored ranges.
InFile ==
  /\ sidecar # None => file.len = Total
  /\ main \in {"chunks", "stop", "judge"} => file.len = Total
  /\ main = "get" => pos = 0
  /\ main = "copy" => body = "file" /\ file = [len |-> pos, good |-> 1..pos]
  /\ main = "verify" => Whole

\* Nothing but the whole file is reported.
Reported ==
  /\ main = "finish" /\ res.completed => Whole
  /\ row.st = "completed" => Whole \/ file = NoFile

CInv == (Chunkable => InFile) /\ (sha \/ Chunkable => Reported)

LEMMA InitCInv == Init => CInv
  BY DEF Init, CInv, InFile, Reported, NoResult

LEMMA InFileStep ==
  ASSUME Goroutines, Checkpointed, InFile, RowIdle, Chunkable, [Next]_vars
  PROVE  InFile'
<1> USE DEF InFile
<1>1. CASE Begin \/ Probe \/ Join \/ Save \/ Drop \/ Tick \/ TickWrite \/ Report \/ Pause \/ Resume
      \/ UNCHANGED vars
  <2>1. file' = file /\ pos' = pos /\ body' = body
    BY <1>1 DEF Begin, Probe, Join, Save, Drop, Tick, TickWrite, Report, Pause, Resume, vars,
                ChunksUnchanged, stream
  <2>2. main' \in {"get", "copy", "verify"} => main' = main
    BY <1>1 DEF Begin, Probe, Join, Save, Drop, Tick, TickWrite, Report, Pause, Resume, vars,
                ChunksUnchanged, Return, Chunkable
  <2>3. main' \in {"chunks", "stop", "judge"} => main \in {"chunks", "stop", "judge"}
    BY <1>1 DEF Begin, Probe, Join, Save, Drop, Tick, TickWrite, Report, Pause, Resume, vars,
                ChunksUnchanged, Return, Chunkable
  <2>4. sidecar' # None => sidecar # None \/ main \in {"chunks", "stop"}
    BY <1>1 DEF Begin, Probe, Join, Save, Drop, Tick, TickWrite, Report, Pause, Resume, vars,
                ChunksUnchanged, Checkpointed
  <2> QED
    BY <2>1, <2>2, <2>3, <2>4 DEF Whole
<1>2. CASE Load
  BY <1>2 DEF Load, Return, Goroutines
<1>3. CASE Judge
  <2>1. main = "judge" /\ UNCHANGED <<file, mem>> /\ main' \in {"finish", "verify"}
        /\ sidecar' \in {sidecar, None}
    BY <1>3 DEF Judge, Return, chunking
  <2>2. ASSUME main' = "verify"
        PROVE  Whole
    <3>1. \A c \in Chunk : Satisfied(c)
      BY <1>3, <2>2 DEF Judge, Return
    <3>2. Block \subseteq file.good
      BY <2>1, <3>1, SatisfiedClaimsAll, CountsNotNone DEF Goroutines, Within, Checkpointed, Held
    <3> QED
      BY <2>1, <3>2 DEF Goroutines, Whole
  <2> QED
    BY <2>1, <2>2 DEF Whole
<1>4. CASE Open
  BY <1>4 DEF Open, Goroutines, Checkpointed
<1>5. CASE Get
  <2>1. main = "get" /\ pos = 0 /\ sidecar = None /\ sidecar' = None
    BY <1>5 DEF Get, Checkpointed
  <2>2. \/ main' = "copy" /\ body' = "file" /\ file' = Empty /\ pos' = 0
        \/ main' = "finish"
    BY <1>5, <2>1 DEF Get, Return
  <2>3. 1..0 = {}
    OBVIOUS
  <2> QED
    BY <2>1, <2>2, <2>3 DEF Empty
<1>6. CASE Copy
  <2>1. /\ main = "copy" /\ body = "file" /\ body' = body /\ pos \in 0..Total
        /\ file = [len |-> pos, good |-> 1..pos] /\ sidecar' = None
    BY <1>6 DEF Copy, Checkpointed, Goroutines
  <2>2. CASE pos < Total /\ file' = Written(pos + 1) /\ pos' = pos + 1 /\ main' = main
    <3>1. (1..pos) \cup {pos + 1} = 1..(pos + 1)
      BY <2>1
    <3>2. file.len = pos /\ file.good = 1..pos /\ file.len < pos + 1
      BY <2>1
    <3>3. file' = [len |-> pos + 1, good |-> 1..(pos + 1)]
      BY <2>2, <3>1, <3>2 DEF Written
    <3> QED
      BY <2>1, <2>2, <3>3
  <2>3. CASE pos = Total /\ main' = "verify" /\ file' = file
    BY <2>1, <2>3 DEF Whole, Block
  <2>4. CASE main' = "finish"
    BY <2>1, <2>4
  <2> QED
    BY <1>6, <2>1, <2>2, <2>3, <2>4 DEF Copy, Return
<1>7. CASE Verify
  BY <1>7 DEF Verify, Return, Checkpointed
<1>8. CASE FinishJob \/ Kill
  BY <1>8 DEF FinishJob, Kill, RunIsOver, Checkpointed
<1>9. CASE Retry \/ RetryKilled
  <2>1. main = "idle" /\ main' = "idle" /\ sidecar' = None
    BY <1>9 DEF Retry, RetryKilled, RowIdle
  <2> QED
    BY <2>1
<1>10. ASSUME NEW c \in Chunk, ChunkStep(c)
       PROVE  InFile'
  <2>1. main = "chunks" /\ main' = main /\ sidecar' = sidecar
    BY <1>10 DEF ChunkStep, Ask, Read, Count, Goroutines
  <2>2. file'.len = file.len
    <3>1. CASE Read(c)
      <4>1. Start(c) + mem[c] + 1 \in Block
        BY <3>1, NextBlock DEF Read, Goroutines
      <4> QED
        BY <2>1, <3>1, <4>1 DEF Read, Written, Block
    <3>2. CASE Ask(c) \/ Count(c)
      BY <3>2 DEF Ask, Count
    <3> QED
      BY <1>10, <3>1, <3>2 DEF ChunkStep
  <2> QED
    BY <2>1, <2>2
<1> QED
  BY <1>1, <1>2, <1>3, <1>4, <1>5, <1>6, <1>7, <1>8, <1>9, <1>10 DEF Next, MainStep

\* The report is made after the file has been judged, or its sha256 checked,
\* and no attempt runs for a row that has it.
LEMMA ReportedStep ==
  ASSUME ChunksRun, RowIdle, Reported, Chunkable => InFile, sha \/ Chunkable, [Next]_vars
  PROVE  Reported'
<1> USE DEF Reported
<1>1. CASE Begin \/ Probe \/ Join \/ Save \/ Drop \/ Tick \/ TickWrite \/ Report \/ Pause \/ Resume
      \/ UNCHANGED vars
  <2>1. file' = file
    BY <1>1 DEF Begin, Probe, Join, Save, Drop, Tick, TickWrite, Report, Pause, Resume, vars,
                ChunksUnchanged
  <2>2. main' = "finish" /\ res'.completed => main = "finish" /\ res' = res
    BY <1>1 DEF Begin, Probe, Join, Save, Drop, Tick, TickWrite, Report, Pause, Resume, vars,
                ChunksUnchanged, Return
  <2>3. row'.st = "completed" => row.st = "completed"
    BY <1>1 DEF Begin, Probe, Join, Save, Drop, Tick, TickWrite, Report, Pause, Resume, vars,
                ChunksUnchanged, RowIdle
  <2> QED
    BY <2>1, <2>2, <2>3 DEF Whole
<1>2. CASE Load \/ Judge \/ Open \/ Get \/ Copy
  <2>1. row.st # "completed" /\ row' = row
    BY <1>2 DEF Load, Judge, Open, Get, Copy, RowIdle
  <2>2. main' = "finish" => ~res'.completed
    BY <1>2 DEF Load, Judge, Open, Get, Copy, Return
  <2> QED
    BY <2>1, <2>2
<1>3. CASE Verify
  <2>1. row.st # "completed" /\ row' = row
    BY <1>3 DEF Verify, RowIdle
  <2>2. \/ main' = "finish" /\ ~res'.completed
        \/ file' = file /\ (~sha \/ Whole)
    BY <1>3 DEF Verify, Return
  <2>3. Chunkable => Whole
    BY <1>3 DEF Verify, InFile
  <2> QED
    BY <2>1, <2>2, <2>3 DEF Whole
<1>4. CASE FinishJob
  <2>1. main = "finish" /\ main' = "idle" /\ file' = file
    BY <1>4 DEF FinishJob, RunIsOver
  <2>2. row'.st = "completed" => res.completed
    BY <1>4 DEF FinishJob
  <2> QED
    BY <2>1, <2>2 DEF Whole
<1>5. CASE Kill
  <2>1. main' = "idle" /\ row'.st = "queued"
    BY <1>5 DEF Kill, RunIsOver, RowIdle
  <2> QED
    BY <2>1
<1>6. CASE Retry \/ RetryKilled
  <2>1. main' = "idle" /\ file' \in {file, NoFile}
    BY <1>6 DEF Retry, RetryKilled, RowIdle
  <2>2. row'.st = "completed" => row.st = "completed"
    BY <1>6 DEF Retry, RetryKilled
  <2> QED
    BY <2>1, <2>2 DEF Whole, NoFile
<1>7. ASSUME NEW c \in Chunk, ChunkStep(c)
      PROVE  Reported'
  <2>1. main = "chunks" /\ main' = main /\ row' = row
    BY <1>7 DEF ChunkStep, Ask, Read, Count, ChunksUnchanged, ChunksRun
  <2>2. row.st # "completed"
    BY <2>1 DEF RowIdle
  <2> QED
    BY <2>1, <2>2
<1> QED
  BY <1>1, <1>2, <1>3, <1>4, <1>5, <1>6, <1>7 DEF Next, MainStep

LEMMA NextCInv ==
  ASSUME IInv, RowIdle, ChunksRun, CInv, [Next]_vars
  PROVE  CInv'
<1>1. Chunkable' = Chunkable /\ sha' = sha
  <2>1. sha' = sha
    <3>1. CASE MainStep
      BY <3>1 DEF MainStep, Begin, Probe, Load, Join, Save, Judge, Drop, Open, Get, Copy, Verify,
                  FinishJob, ChunksUnchanged, params
    <3>2. ASSUME NEW c \in Chunk, ChunkStep(c)
          PROVE  sha' = sha
      BY <3>2 DEF ChunkStep, Ask, Read, Count, ChunksUnchanged, params
    <3>3. CASE Tick \/ TickWrite \/ Report \/ Pause \/ Resume \/ Retry \/ Kill \/ RetryKilled
               \/ UNCHANGED vars
      BY <3>3 DEF Tick, TickWrite, Report, Pause, Resume, Retry, Kill, RetryKilled,
                  ChunksUnchanged, vars, params
    <3> QED
      BY <3>1, <3>2, <3>3 DEF Next
  <2> QED
    BY <2>1, ParamsStay
<1>2. Chunkable => InFile'
  BY InFileStep DEF CInv, IInv
<1>3. sha \/ Chunkable => Reported'
  BY ReportedStep DEF CInv
<1> QED
  BY <1>1, <1>2, <1>3 DEF CInv

\* A download is reported complete only if its file is the server's: the
\* chunks cover the file, each is counted to its end, and of a job with a
\* sha256 nothing else passes (runChunked's last loop, verifyChecksum).
THEOREM CompletedIsWholeHolds == Spec => []CompletedIsWhole
<1>1. Init => ChunksRun /\ CInv
  BY InitCInv DEF Init, ChunksRun
<1>2. IInv /\ RowIdle /\ ChunksRun /\ CInv /\ [Next]_vars => ChunksRun' /\ CInv'
  BY ChunksRunStep, NextCInv
<1>3. CInv => CompletedIsWhole
  BY DEF CInv, Reported, CompletedIsWhole
<1> QED
  BY <1>1, <1>2, <1>3, Inductive, PTL DEF Spec

-----------------------------------------------------------------------------
(* The sum that a cancelled attempt returns *)

\* A set of numbers that is not empty has a least one.
LEMMA LeastNumber ==
  ASSUME NEW T, T \subseteq Nat, T # {}
  PROVE  \E m \in T : \A k \in T : m <= k
<1>1. PICK m \in T : \A k \in T : ~ (<<k, m>> \in OpToRel(<, Nat))
  BY NatLessThanWellFounded, WFMin
<1>2. ASSUME NEW k \in T PROVE m <= k
  <2>1. ~ (<<k, m>> \in {ss \in Nat \X Nat : ss[1] < ss[2]})
    BY <1>1 DEF OpToRel
  <2> QED BY <2>1
<1> QED BY <1>2

\* The chunk taken first from s, and the recursion that adds up the counts.
OneOf(s) == CHOOSE x \in s : TRUE
Sums(counts, S, f) ==
  f = [s \in SUBSET S |-> IF s = {} THEN 0 ELSE counts[OneOf(s)] + f[s \ {OneOf(s)}]]

\* That recursion, for sets of up to n chunks.
SumsUpTo(counts, S, n, f) ==
  /\ f = [s \in SUBSET S |-> f[s]]
  /\ \A s \in SUBSET S : Cardinality(s) <= n =>
       f[s] = IF s = {} THEN 0 ELSE counts[OneOf(s)] + f[s \ {OneOf(s)}]

\* Taking one out of a finite set.
LEMMA OneLess ==
  ASSUME NEW S, IsFiniteSet(S), NEW s \in SUBSET S, s # {}
  PROVE  /\ OneOf(s) \in s /\ s \ {OneOf(s)} \in SUBSET S
         /\ Cardinality(s) \in Nat /\ Cardinality(s \ {OneOf(s)}) = Cardinality(s) - 1
<1>1. OneOf(s) \in s
  BY DEF OneOf
<1>2. IsFiniteSet(s)
  BY FS_Subset
<1> QED BY <1>1, <1>2, FS_RemoveElement, FS_CardinalityType

\* There is such an f for every n: the least n without one would have one for n - 1.
LEMMA SumsUpToExist ==
  ASSUME NEW counts, NEW S, IsFiniteSet(S), NEW n \in Nat
  PROVE  \E f : SumsUpTo(counts, S, n, f)
<1> DEFINE Bad == {k \in Nat : ~\E f : SumsUpTo(counts, S, k, f)}
<1> SUFFICES ASSUME Bad # {} PROVE FALSE
  OBVIOUS
<1>1. PICK m \in Bad : \A k \in Bad : m <= k
  <2>1. Bad \subseteq Nat
    OBVIOUS
  <2> HIDE DEF Bad
  <2> QED BY <2>1, LeastNumber
<1>2. \A s \in SUBSET S : Cardinality(s) \in Nat /\ (Cardinality(s) = 0 <=> s = {})
  BY FS_Subset, FS_CardinalityType, FS_EmptySet
<1>3. CASE m = 0
  <2> DEFINE f == [s \in SUBSET S |-> 0]
  <2>1. /\ f = [s \in SUBSET S |-> f[s]] /\ \A s \in SUBSET S : f[s] = 0
    OBVIOUS
  <2> HIDE DEF f
  <2>2. ASSUME NEW s \in SUBSET S, Cardinality(s) <= 0
        PROVE  s = {} /\ f[s] = 0
    <3>1. Cardinality(s) \in Nat /\ (Cardinality(s) = 0 => s = {})
      BY <1>2
    <3>2. Cardinality(s) = 0
      BY <2>2, <3>1
    <3>3. f[s] = 0
      BY <2>1, Zenon
    <3> QED BY <3>1, <3>2, <3>3
  <2>3. SumsUpTo(counts, S, 0, f)
    BY <2>1, <2>2, Zenon DEF SumsUpTo
  <2> QED BY <1>3, <2>3
<1>4. CASE m # 0
  <2>1. m \in Nat /\ m - 1 \in Nat /\ ~ (m <= m - 1)
    BY <1>4
  <2>2. PICK g : SumsUpTo(counts, S, m - 1, g)
    BY <1>1, <2>1
  <2> DEFINE f == [s \in SUBSET S |->
                     IF s = {} THEN 0
                     ELSE IF Cardinality(s) = m THEN counts[OneOf(s)] + g[s \ {OneOf(s)}] ELSE g[s]]
  <2>3. f = [s \in SUBSET S |-> f[s]]
    OBVIOUS
  <2>4. \A s \in SUBSET S : f[s] = IF s = {} THEN 0
                     ELSE IF Cardinality(s) = m THEN counts[OneOf(s)] + g[s \ {OneOf(s)}] ELSE g[s]
    OBVIOUS
  <2> HIDE DEF f
  <2>5. ASSUME NEW s \in SUBSET S, Cardinality(s) < m PROVE f[s] = g[s]
    <3>1. Cardinality(s) # m /\ Cardinality(s) <= m - 1
      BY <1>2, <2>1, <2>5
    <3>2. s = {} => g[s] = 0
      BY <2>2, <3>1 DEF SumsUpTo
    <3> QED BY <2>4, <3>1, <3>2
  <2>6. ASSUME NEW s \in SUBSET S, Cardinality(s) <= m
        PROVE  f[s] = IF s = {} THEN 0 ELSE counts[OneOf(s)] + f[s \ {OneOf(s)}]
    <3>1. CASE s = {}
      BY <2>4, <3>1
    <3>2. CASE s # {}
      <4>1. /\ Cardinality(s) \in Nat /\ Cardinality(s \ {OneOf(s)}) = Cardinality(s) - 1
            /\ s \ {OneOf(s)} \in SUBSET S
        BY <3>2, OneLess
      <4>2. f[s \ {OneOf(s)}] = g[s \ {OneOf(s)}]
        BY <2>1, <2>5, <2>6, <4>1
      <4>3. CASE Cardinality(s) = m
        BY <2>4, <3>2, <4>2, <4>3
      <4>4. CASE Cardinality(s) # m
        <5>1. Cardinality(s) < m /\ Cardinality(s) <= m - 1
          BY <2>1, <2>6, <4>1, <4>4
        <5>2. g[s] = counts[OneOf(s)] + g[s \ {OneOf(s)}]
          BY <2>2, <3>2, <5>1 DEF SumsUpTo
        <5> QED BY <2>5, <3>2, <4>2, <5>1, <5>2
      <4> QED BY <4>3, <4>4
    <3> QED BY <3>1, <3>2
  <2>7. SumsUpTo(counts, S, m, f)
    BY <2>3, <2>6 DEF SumsUpTo
  <2> QED BY <2>7
<1> QED BY <1>3, <1>4

\* So there is one for all sets of chunks at once ...
LEMMA SumsExist ==
  ASSUME NEW counts, NEW S, IsFiniteSet(S)
  PROVE  \E f : Sums(counts, S, f)
<1>1. Cardinality(S) \in Nat
  BY FS_CardinalityType
<1>2. PICK f : SumsUpTo(counts, S, Cardinality(S), f)
  BY <1>1, SumsUpToExist
<1>3. \A s \in SUBSET S : f[s] = IF s = {} THEN 0 ELSE counts[OneOf(s)] + f[s \ {OneOf(s)}]
  BY <1>2, FS_Subset DEF SumsUpTo
<1>4. f = [s \in SUBSET S |-> f[s]]
  BY <1>2 DEF SumsUpTo
<1>5. f = [s \in SUBSET S |-> IF s = {} THEN 0 ELSE counts[OneOf(s)] + f[s \ {OneOf(s)}]]
  BY <1>3, <1>4
<1> QED BY <1>5 DEF Sums

\* ... and SumFunction, which chooses one, is what that one gives.
LEMMA SumIs ==
  ASSUME NEW counts \in [Chunk -> Nat]
  PROVE  \E f : Sums(counts, Chunk, f) /\ SumFunction(counts) = f[Chunk]
<1>1. DOMAIN counts = Chunk
  OBVIOUS
<1> DEFINE F == CHOOSE f : f = [s \in SUBSET Chunk |-> IF s = {} THEN 0
                  ELSE counts[CHOOSE x \in s : TRUE] + f[s \ {CHOOSE x \in s : TRUE}]]
<1>2. SumFunction(counts) = F[Chunk]
  BY <1>1 DEF SumFunction, SumFunctionOnSet, FoldFunctionOnSet, MapThenFoldSet
<1>3. F = CHOOSE f : Sums(counts, Chunk, f)
  BY DEF Sums, OneOf
<1>4. IsFiniteSet(Chunk)
  BY FS_Interval DEF Chunk
<1> HIDE DEF F
<1> QED BY <1>2, <1>3, <1>4, SumsExist

\* The blocks that the counts of the chunks in s speak of.
ClaimedOf(counts, s) == UNION {Start(c) + 1 .. Start(c) + counts[c] : c \in s}

\* One chunk ends before the next begins.
LEMMA ChunksApart ==
  ASSUME NEW c \in Chunk, NEW d \in Chunk, c < d
  PROVE  Start(c) + Size(c) <= Start(d)
<1>1. /\ ChunkSize \in Nat /\ c \in Nat /\ d - 1 \in Nat /\ c <= d - 1 /\ c # Concurrency
      /\ c - 1 \in Nat
  BY ChunkSizeBound DEF Chunk
<1>2. c * ChunkSize \in Nat /\ c * ChunkSize <= (d - 1) * ChunkSize /\ (d - 1) * ChunkSize \in Nat
      /\ (c - 1) * ChunkSize \in Nat
  BY <1>1, TimesMonotone
<1>3. Start(c) + Size(c) = c * ChunkSize /\ Start(d) = (d - 1) * ChunkSize
  BY <1>1, <1>2 DEF Start, Size, End
<1> QED BY <1>2, <1>3

\* What one chunk claims and what the others claim have no block in common.
LEMMA OneChunksClaim ==
  ASSUME NEW counts, Within(counts), NEW s \in SUBSET Chunk, NEW c \in s
  PROVE  /\ ClaimedOf(counts, s)
              = (Start(c) + 1 .. Start(c) + counts[c]) \cup ClaimedOf(counts, s \ {c})
         /\ (Start(c) + 1 .. Start(c) + counts[c]) \cap ClaimedOf(counts, s \ {c}) = {}
         /\ IsFiniteSet(Start(c) + 1 .. Start(c) + counts[c])
         /\ Cardinality(Start(c) + 1 .. Start(c) + counts[c]) = counts[c]
<1>1. c \in Chunk /\ counts[c] \in Nat /\ counts[c] <= Size(c) /\ Start(c) \in Nat /\ Size(c) \in Nat
  BY ChunkBounds DEF Within, Counts
<1>2. ASSUME NEW d \in s \ {c}, NEW x \in Start(c) + 1 .. Start(c) + counts[c],
             x \in Start(d) + 1 .. Start(d) + counts[d]
      PROVE  FALSE
  <2>1. d \in Chunk /\ counts[d] \in Nat /\ counts[d] <= Size(d) /\ Start(d) \in Nat /\ Size(d) \in Nat
    BY ChunkBounds DEF Within, Counts
  <2>2. c < d \/ d < c
    BY <1>1, <2>1 DEF Chunk
  <2>3. Start(c) + Size(c) <= Start(d) \/ Start(d) + Size(d) <= Start(c)
    BY <1>1, <2>1, <2>2, ChunksApart
  <2> QED BY <1>1, <1>2, <2>1, <2>3
<1>3. (Start(c) + 1 .. Start(c) + counts[c]) \cap ClaimedOf(counts, s \ {c}) = {}
  BY <1>2 DEF ClaimedOf
<1>4. ClaimedOf(counts, s) = (Start(c) + 1 .. Start(c) + counts[c]) \cup ClaimedOf(counts, s \ {c})
  BY DEF ClaimedOf
<1>5. /\ IsFiniteSet(Start(c) + 1 .. Start(c) + counts[c])
      /\ Cardinality(Start(c) + 1 .. Start(c) + counts[c]) = counts[c]
  <2> DEFINE a == Start(c) + 1
             b == Start(c) + counts[c]
  <2>1. a \in Int /\ b \in Int /\ counts[c] = IF a > b THEN 0 ELSE b - a + 1
    BY <1>1
  <2> HIDE DEF a, b
  <2>2. IsFiniteSet(a .. b) /\ Cardinality(a .. b) = counts[c]
    BY <2>1, FS_Interval
  <2> QED BY <2>2 DEF a, b
<1> QED BY <1>3, <1>4, <1>5

\* The sum of the counts is the number of blocks they claim, so it is within the file.
LEMMA SumCountsClaims ==
  ASSUME NEW counts, Within(counts)
  PROVE  SumFunction(counts) = Cardinality(Claimed(counts)) /\ SumFunction(counts) \in 0..Total
<1>0. counts \in [Chunk -> Nat] /\ IsFiniteSet(Chunk)
  <2>1. counts \in [Chunk -> Nat]
    BY DEF Within, Counts
  <2>2. IsFiniteSet(Chunk)
    BY FS_Interval DEF Chunk
  <2> QED BY <2>1, <2>2
<1>1. PICK f : Sums(counts, Chunk, f) /\ SumFunction(counts) = f[Chunk]
  BY <1>0, SumIs
<1>2. \A s \in SUBSET Chunk : f[s] = IF s = {} THEN 0 ELSE counts[OneOf(s)] + f[s \ {OneOf(s)}]
  BY <1>1 DEF Sums
<1> DEFINE Good(s) == IsFiniteSet(ClaimedOf(counts, s)) /\ f[s] = Cardinality(ClaimedOf(counts, s))
           Bad == {Cardinality(s) : s \in {t \in SUBSET Chunk : ~Good(t)}}
<1>3. \A s \in SUBSET Chunk : Good(s)
  <2> SUFFICES ASSUME Bad # {} PROVE FALSE
    OBVIOUS
  <2>1. Bad \subseteq Nat
    BY <1>0, FS_Subset, FS_CardinalityType
  <2>2. PICK m \in Bad : \A k \in Bad : m <= k
    <3> HIDE DEF Bad
    <3> QED BY <2>1, LeastNumber
  <2>3. PICK s \in SUBSET Chunk : ~Good(s) /\ m = Cardinality(s)
    OBVIOUS
  <2>4. CASE s = {}
    <3>1. ClaimedOf(counts, {}) = {} /\ f[{}] = 0
      BY <1>2 DEF ClaimedOf
    <3> QED BY <2>3, <2>4, <3>1, FS_EmptySet
  <2>5. CASE s # {}
    <3> DEFINE c == OneOf(s)
               t == s \ {c}
               own == Start(c) + 1 .. Start(c) + counts[c]
    <3>1. c \in s /\ t \in SUBSET Chunk /\ m \in Nat /\ Cardinality(t) = m - 1
      BY <1>0, <2>3, <2>5, OneLess
    <3>2. Good(t)
      <4>1. ~(m <= Cardinality(t))
        BY <3>1
      <4> QED BY <2>2, <3>1, <4>1
    <3>3. /\ ClaimedOf(counts, s) = own \cup ClaimedOf(counts, t)
          /\ own \cap ClaimedOf(counts, t) = {}
          /\ IsFiniteSet(own) /\ Cardinality(own) = counts[c]
      BY <3>1, OneChunksClaim
    <3>4. f[s] = counts[c] + f[t]
      BY <1>2, <2>5
    <3> HIDE DEF own, t, c
    <3>5. /\ IsFiniteSet(ClaimedOf(counts, s))
          /\ Cardinality(ClaimedOf(counts, s)) = Cardinality(own) + Cardinality(ClaimedOf(counts, t))
      <4>1. Cardinality(own \cap ClaimedOf(counts, t)) = 0
        BY <3>3, FS_EmptySet
      <4>2. Cardinality(own) \in Nat /\ Cardinality(ClaimedOf(counts, t)) \in Nat
        BY <3>2, <3>3, FS_CardinalityType
      <4>3. IsFiniteSet(own) /\ IsFiniteSet(ClaimedOf(counts, t))
        BY <3>2, <3>3
      <4> HIDE DEF Good
      <4>4. /\ IsFiniteSet(own \cup ClaimedOf(counts, t))
            /\ Cardinality(own \cup ClaimedOf(counts, t))
                 = Cardinality(own) + Cardinality(ClaimedOf(counts, t))
                   - Cardinality(own \cap ClaimedOf(counts, t))
        BY <4>3, FS_Union, Zenon
      <4> QED BY <3>3, <4>1, <4>2, <4>4
    <3> QED BY <2>3, <3>2, <3>3, <3>4, <3>5
  <2> QED BY <2>4, <2>5
<1>4. ClaimedOf(counts, Chunk) = Claimed(counts)
  BY DEF ClaimedOf, Claimed
<1>5. Claimed(counts) \subseteq Block
  <2> SUFFICES ASSUME NEW c \in Chunk, NEW x \in Start(c) + 1 .. Start(c) + counts[c] PROVE x \in Block
    BY DEF Claimed
  <2> QED BY ChunkBounds DEF Within, Counts, Block
<1>6. IsFiniteSet(Block) /\ Cardinality(Block) = Total
  BY FS_Interval DEF Block
<1>7. Cardinality(Claimed(counts)) \in Nat /\ Cardinality(Claimed(counts)) <= Total
  BY <1>5, <1>6, FS_Subset, FS_CardinalityType
<1>8. SumFunction(counts) = Cardinality(Claimed(counts))
  BY <1>1, <1>3, <1>4
<1> QED BY <1>7, <1>8

-----------------------------------------------------------------------------
(* Types *)

\* The strengthening: what is on disk or in the ticker's hands is no further than the chunks
\* go either, and a chunk with a goroutine is not counted to its end.
Counted ==
  /\ sidecar # None => Within(sidecar)
  /\ tick # None => Within(tick)
  /\ \A c \in Chunk : chunk[c] # "off" => mem[c] < Size(c)

TInv == TypeOK /\ Counted

LEMMA NoFileIsFile == NoFile \in [len: -1..Total, good: SUBSET Block]
                      /\ Empty \in [len: -1..Total, good: SUBSET Block]
BY DEF NoFile, Empty

LEMMA WrittenIsFile ==
  ASSUME file \in [len: -1..Total, good: SUBSET Block], NEW b \in Block
  PROVE  Written(b) \in [len: -1..Total, good: SUBSET Block]
BY DEF Written, Block

LEMMA RowIs ==
  ASSUME NEW s \in {"queued", "active", "paused", "failed", "completed"}, NEW n \in 0..Total
  PROVE  /\ [st |-> s, offset |-> n] \in RowState
         /\ row \in RowState => /\ [row EXCEPT !.st = s] \in RowState
                                /\ [row EXCEPT !.offset = n] \in RowState
                                /\ row.st \in {"queued", "active", "paused", "failed", "completed"}
                                /\ row.offset \in 0..Total
BY DEF RowState

\* A result with bytes of the file.
LEMMA ResultIs ==
  ASSUME NEW n \in 0..Total, NEW b \in BOOLEAN, NEW e \in {"none", "failed", "canceled"}
  PROVE  [done |-> n, completed |-> b, err |-> e] \in Result
BY DEF Result

\* What Return returns is a result.
LEMMA ReturnIs ==
  ASSUME NEW n \in 0..Total, NEW e \in {"none", "failed", "canceled"}, Return(n, e)
  PROVE  res' \in Result /\ main' \in MainPc
BY ResultIs DEF Return, MainPc

LEMMA BrokenIs == Broken \in {"none", "failed", "canceled"} /\ 0 \in 0..Total /\ Total \in 0..Total
BY DEF Broken

LEMMA InitTInv == Init => TInv
<1> SUFFICES ASSUME Init PROVE TInv
  OBVIOUS
<1>1. Within(mem) /\ mem \in Counts
  BY ZeroWithin DEF Init, Within
<1>2. NoResult \in Result /\ row \in RowState
  BY RowIs DEF NoResult, Result, Init
<1>3. chunk = [c \in Chunk |-> "off"] /\ sidecar = None /\ tick = None
  BY DEF Init
<1>4. Counted
  BY <1>3 DEF Counted
<1>5. TypeOK
  <2>1. /\ file \in [len: -1..Total, good: SUBSET Block] /\ sidecar \in Counts \cup {None}
        /\ sha \in BOOLEAN /\ chunked \in BOOLEAN /\ server \in Servers
    BY NoFileIsFile DEF Init
  <2>2. main \in MainPc /\ ctx \in BOOLEAN /\ from \in 0..Total /\ ranges \in BOOLEAN
    BY BrokenIs DEF Init, MainPc
  <2>3. /\ chunk \in [Chunk -> {"off", "ask", "read", "wrote"}]
        /\ err \in {"none", "failed", "canceled"} /\ ignored \in BOOLEAN
        /\ tick \in Counts \cup {None} /\ pos \in 0..Total /\ body \in {"file", "page"}
        /\ res \in Result
    BY <1>2, <1>3, BrokenIs DEF Init
  <2>4. ops \in 0..MaxOps /\ kills \in 0..MaxKills
    BY DEF Init
  <2> QED BY <1>1, <1>2, <2>1, <2>2, <2>3, <2>4 DEF TypeOK, Within
<1> QED BY <1>4, <1>5 DEF TInv

\* Steps that leave the chunks, what they have and what is recorded of it.
LEMMA MainStepTypes ==
  ASSUME TInv,
         UNCHANGED <<params, chunking>>, sidecar' \in {sidecar, None},
         row' \in RowState, file' \in [len: -1..Total, good: SUBSET Block],
         main' \in MainPc, ctx' \in BOOLEAN, from' \in 0..Total, ranges' \in BOOLEAN,
         pos' \in 0..Total, body' \in {"file", "page"}, res' \in Result,
         ops' \in 0..MaxOps, kills' \in 0..MaxKills
  PROVE  TInv'
<1>1. UNCHANGED <<sha, chunked, server, mem, chunk, err, ignored, tick>>
  BY DEF params, chunking
<1>2. TypeOK'
  BY <1>1 DEF TInv, TypeOK
<1>3. Counted'
  BY <1>1 DEF TInv, Counted, Within
<1> QED BY <1>2, <1>3 DEF TInv

\* Steps of the chunks' goroutines and of the ticker.
LEMMA ChunkStepTypes ==
  ASSUME TInv, UNCHANGED <<row, params, ctx, from, stream, res, ops, kills>>,
         main' \in MainPc, file' \in [len: -1..Total, good: SUBSET Block],
         Within(mem'), sidecar' # None => Within(sidecar'), tick' # None => Within(tick'),
         chunk' \in [Chunk -> {"off", "ask", "read", "wrote"}],
         \A c \in Chunk : chunk'[c] # "off" => mem'[c] < Size(c),
         err' \in {"none", "failed", "canceled"}, ignored' \in BOOLEAN
  PROVE  TInv'
<1>1. UNCHANGED <<row, sha, chunked, server, ctx, from, ranges, pos, body, res, ops, kills>>
  BY DEF params, stream
<1>2. sidecar' \in Counts \cup {None} /\ tick' \in Counts \cup {None}
  BY DEF Within
<1>3. TypeOK'
  BY <1>1, <1>2 DEF TInv, TypeOK, Within
<1>4. Counted'
  BY <1>1 DEF TInv, Counted, Within
<1> QED BY <1>3, <1>4 DEF TInv

\* Run is over: what it knew is gone.
LEMMA OverTypes ==
  ASSUME TInv, RunIsOver, UNCHANGED <<params, sidecar>>,
         row' \in RowState, file' \in [len: -1..Total, good: SUBSET Block],
         ops' \in 0..MaxOps, kills' \in 0..MaxKills
  PROVE  TInv'
<1>1. Within(mem') /\ \A c \in Chunk : chunk'[c] = "off"
  BY ZeroWithin DEF RunIsOver
<1>2. NoResult \in Result
  BY DEF NoResult, Result
<1>3. TypeOK'
  <2>1. UNCHANGED <<sha, chunked, server, sidecar>>
    BY DEF params
  <2>2. /\ sidecar' \in Counts \cup {None} /\ sha' \in BOOLEAN /\ chunked' \in BOOLEAN
        /\ server' \in Servers
    BY <2>1 DEF TInv, TypeOK
  <2>3. /\ main' \in MainPc /\ ctx' \in BOOLEAN /\ from' \in 0..Total /\ ranges' \in BOOLEAN
        /\ mem' \in Counts /\ \A c \in Chunk : mem'[c] <= Size(c)
    <3>1. mem' \in Counts /\ \A c \in Chunk : mem'[c] <= Size(c)
      BY <1>1 DEF Within
    <3> QED BY <3>1, BrokenIs DEF RunIsOver, MainPc
  <2>4. /\ chunk' \in [Chunk -> {"off", "ask", "read", "wrote"}]
        /\ err' \in {"none", "failed", "canceled"} /\ ignored' \in BOOLEAN
        /\ tick' \in Counts \cup {None} /\ pos' \in 0..Total /\ body' \in {"file", "page"}
        /\ res' \in Result
    BY <1>2, BrokenIs DEF RunIsOver
  <2> QED BY <2>2, <2>3, <2>4 DEF TypeOK
<1>4. Counted'
  BY <1>1 DEF TInv, Counted, RunIsOver, Within
<1> QED BY <1>3, <1>4 DEF TInv

\* Every step keeps the types.
LEMMA NextTInv ==
  ASSUME TInv, [Next]_vars
  PROVE  TInv'
<1>0. /\ row \in RowState /\ file \in [len: -1..Total, good: SUBSET Block]
      /\ main \in MainPc /\ ctx \in BOOLEAN /\ from \in 0..Total /\ ranges \in BOOLEAN
      /\ pos \in 0..Total /\ body \in {"file", "page"} /\ res \in Result
      /\ ops \in 0..MaxOps /\ kills \in 0..MaxKills
      /\ Within(mem) /\ chunk \in [Chunk -> {"off", "ask", "read", "wrote"}]
      /\ err \in {"none", "failed", "canceled"} /\ ignored \in BOOLEAN
      /\ sidecar # None => Within(sidecar)
      /\ tick # None => Within(tick)
      /\ \A c \in Chunk : chunk[c] # "off" => mem[c] < Size(c)
  BY DEF TInv, TypeOK, Counted, Within
<1>1. CASE Begin
  <2>1. row' \in RowState /\ from' \in 0..Total
    BY <1>0, <1>1 DEF Begin, RowState
  <2> QED BY <1>0, <1>1, <2>1, MainStepTypes DEF Begin, MainPc, stream
<1>2. CASE Probe
  <2>1. res' = res \/ Return(0, Broken)
    BY <1>2 DEF Probe
  <2>2. res' \in Result
    BY <1>0, <2>1, ReturnIs, BrokenIs
  <2>3. ranges' \in BOOLEAN /\ main' \in MainPc
    <3>1. \A p \in server : p.ranges \in BOOLEAN
      BY DEF TInv, TypeOK, Probed
    <3> QED BY <1>0, <1>2, <3>1 DEF Probe, Return, MainPc
  <2> QED BY <1>0, <1>2, <2>2, <2>3, MainStepTypes DEF Probe
<1>3. CASE Load
  <2>1. CASE Return(0, "failed") /\ UNCHANGED <<file, chunking>>
    <3>1. res' \in Result /\ main' \in MainPc
      BY <2>1, ReturnIs, BrokenIs
    <3> QED BY <1>0, <1>3, <2>1, <3>1, MainStepTypes DEF Load, stream
  <2>2. CASE /\ file' = IF sidecar = None THEN [file EXCEPT !.len = Total] ELSE file
             /\ mem' = IF sidecar = None THEN [c \in Chunk |-> 0] ELSE sidecar
             /\ chunk' = [c \in Chunk |-> IF mem'[c] >= Size(c) THEN "off" ELSE "ask"]
             /\ main' = "chunks" /\ err' = "none" /\ ignored' = FALSE /\ tick' = None
             /\ UNCHANGED res
    <3>1. file' \in [len: -1..Total, good: SUBSET Block]
      BY <1>0, <2>2
    <3>2. Within(mem')
      BY <1>0, <2>2, ZeroWithin
    <3>3. /\ chunk' \in [Chunk -> {"off", "ask", "read", "wrote"}]
          /\ \A c \in Chunk : chunk'[c] # "off" => ~(mem'[c] >= Size(c))
      BY <2>2
    <3>4. \A c \in Chunk : mem'[c] \in Nat /\ Size(c) \in Nat
      BY <3>2, ChunkBounds DEF Within, Counts
    <3>5. \A c \in Chunk : chunk'[c] # "off" => mem'[c] < Size(c)
      BY <3>3, <3>4
    <3>6. UNCHANGED <<row, params, ctx, from, stream, res, ops, kills, sidecar>>
      BY <1>3, <2>2 DEF Load
    <3> QED BY <1>0, <2>2, <3>1, <3>2, <3>3, <3>5, <3>6, ChunkStepTypes DEF MainPc
  <2> QED BY <1>3, <2>1, <2>2 DEF Load
<1>4. CASE Join
  BY <1>0, <1>4, MainStepTypes DEF Join, ChunksUnchanged, MainPc, stream
<1>5. CASE Save
  <2>1. /\ UNCHANGED <<row, params, ctx, from, stream, res, ops, kills, file, chunking>>
        /\ main' \in MainPc /\ sidecar' \in {mem, sidecar}
    BY <1>5 DEF Save, ChunksUnchanged, MainPc
  <2> QED BY <1>0, <2>1, ChunkStepTypes DEF chunking
<1>6. CASE Judge
  <2>1. SumFunction(mem) \in 0..Total
    BY <1>0, SumCountsClaims
  <2>2. \E n \in 0..Total, b \in BOOLEAN, e \in {"none", "failed", "canceled"} :
          res' = [done |-> n, completed |-> b, err |-> e]
    <3>1. \/ res' = [done |-> SumFunction(mem), completed |-> FALSE, err |-> err]
          \/ res' = [done |-> SumFunction(mem), completed |-> FALSE, err |-> "canceled"]
          \/ res' = [done |-> SumFunction(mem), completed |-> FALSE, err |-> "failed"]
          \/ res' = [done |-> Total, completed |-> TRUE, err |-> "none"]
      BY <1>6, Zenon DEF Judge, Return
    <3>2. Total \in 0..Total
      OBVIOUS
    <3> DEFINE n == SumFunction(mem)
    <3> HIDE DEF n
    <3>3. n \in 0..Total
      BY <2>1 DEF n
    <3>4. \/ res' = [done |-> n, completed |-> FALSE, err |-> err]
          \/ res' = [done |-> n, completed |-> FALSE, err |-> "canceled"]
          \/ res' = [done |-> n, completed |-> FALSE, err |-> "failed"]
          \/ res' = [done |-> Total, completed |-> TRUE, err |-> "none"]
      BY <3>1, Zenon DEF n
    <3> QED BY <1>0, <3>2, <3>3, <3>4
  <2>3. res' \in Result
    BY <2>2, ResultIs
  <2>4. main' \in MainPc /\ sidecar' \in {sidecar, None}
    BY <1>6, Zenon DEF Judge, Return, MainPc
  <2>5. UNCHANGED <<row, file, params, ctx, from, chunking, stream, ops, kills>>
    BY <1>6, Zenon DEF Judge
  <2> QED BY <1>0, <2>3, <2>4, <2>5, MainStepTypes DEF stream
<1>7. CASE Drop
  <2>1. main' \in MainPc /\ from' \in 0..Total /\ ranges' \in BOOLEAN
    BY <1>7, BrokenIs DEF Drop, MainPc
  <2> QED BY <1>0, <1>7, <2>1, MainStepTypes DEF Drop
<1>8. CASE Open
  <2>1. pos' \in 0..Total /\ file' \in [len: -1..Total, good: SUBSET Block] /\ main' \in MainPc
    BY <1>0, <1>8, NoFileIsFile DEF Open, MainPc
  <2> QED BY <1>0, <1>8, <2>1, MainStepTypes DEF Open
<1>9. CASE Get
  <2>1. /\ pos' \in 0..Total /\ file' \in [len: -1..Total, good: SUBSET Block]
        /\ main' \in MainPc /\ body' \in {"file", "page"}
    BY <1>0, <1>9, NoFileIsFile DEF Get, Return, MainPc
  <2>2. res' = res \/ Return(0, "failed") \/ Return(pos, Broken)
    BY <1>9 DEF Get
  <2>3. res' \in Result
    BY <1>0, <2>2, ReturnIs, BrokenIs
  <2> QED BY <1>0, <1>9, <2>1, <2>3, MainStepTypes DEF Get
<1>10. CASE Copy
  <2>1. pos' \in 0..Total /\ main' \in MainPc
    BY <1>0, <1>10 DEF Copy, Return, MainPc
  <2>2. file' \in [len: -1..Total, good: SUBSET Block]
    <3>1. CASE pos < Total /\ file' = Written(pos + 1)
      BY <1>0, <3>1, WrittenIsFile DEF Block
    <3>2. CASE file' = [len |-> 1, good |-> {}]
      BY <3>2
    <3>3. CASE file' = file
      BY <1>0, <3>3
    <3> QED BY <1>10, <3>1, <3>2, <3>3 DEF Copy
  <2>3. \/ res' = res
        \/ \E b \in BOOLEAN, e \in {"none", "failed", "canceled"} :
             res' = [done |-> pos, completed |-> b, err |-> e]
    BY <1>10 DEF Copy, Return, Broken
  <2>4. res' \in Result
    BY <1>0, <2>3, ResultIs
  <2> QED BY <1>0, <1>10, <2>1, <2>2, <2>4, MainStepTypes DEF Copy
<1>11. CASE Verify
  <2>1. /\ file' \in [len: -1..Total, good: SUBSET Block] /\ main' \in MainPc
        /\ sidecar' \in {sidecar, None}
    BY <1>0, <1>11, NoFileIsFile DEF Verify, Return, MainPc
  <2>2. res' = res \/ Return(0, "failed")
    BY <1>11 DEF Verify
  <2>3. res' \in Result
    BY <1>0, <2>2, ReturnIs, BrokenIs
  <2> QED BY <1>0, <1>11, <2>1, <2>3, MainStepTypes DEF Verify, stream
<1>12. CASE FinishJob
  <2>1. row' \in RowState
    BY <1>0, <1>12 DEF FinishJob, RowState, Result
  <2> QED BY <1>0, <1>12, <2>1, OverTypes DEF FinishJob
<1>13. CASE Tick \/ TickWrite
  <2>1. /\ UNCHANGED <<row, params, ctx, from, stream, res, ops, kills, file, main, mem, chunk, err, ignored>>
        /\ tick' \in {mem, None} /\ sidecar' \in {tick, sidecar}
        /\ sidecar' = tick => tick # None \/ sidecar = None \/ sidecar' = sidecar
    BY <1>13 DEF Tick, TickWrite, ChunksUnchanged
  <2>2. (sidecar' # None => Within(sidecar')) /\ (tick' # None => Within(tick'))
    BY <1>0, <2>1
  <2> QED BY <1>0, <2>1, <2>2, ChunkStepTypes
<1>14. CASE Report
  <2>1. row' \in RowState
    BY <1>0, <1>14 DEF Report, RowState
  <2> QED BY <1>0, <1>14, <2>1, MainStepTypes DEF Report, stream
<1>15. ASSUME NEW c \in Chunk, ChunkStep(c)
       PROVE  TInv'
  <2>0. UNCHANGED <<row, params, ctx, from, stream, res, ops, kills, main, sidecar, tick>>
    BY <1>15 DEF ChunkStep, Ask, Read, Count, ChunksUnchanged
  <2>1. CASE Ask(c)
    <3>1. /\ chunk' \in [Chunk -> {"off", "ask", "read", "wrote"}]
          /\ \A d \in Chunk : chunk'[d] # "off" => chunk[d] # "off"
          /\ err' \in {"none", "failed", "canceled"} /\ ignored' \in BOOLEAN
          /\ file' = file /\ mem' = mem
      BY <1>0, <2>1 DEF Ask, Fails, Ends
    <3> QED BY <1>0, <2>0, <3>1, ChunkStepTypes
  <2>2. CASE Read(c)
    <3>1. /\ chunk' \in [Chunk -> {"off", "ask", "read", "wrote"}]
          /\ \A d \in Chunk : chunk'[d] # "off" => chunk[d] # "off"
          /\ err' \in {"none", "failed", "canceled"} /\ ignored' \in BOOLEAN
          /\ mem' = mem
      BY <1>0, <2>2 DEF Read, Fails, Ends
    <3>2. Start(c) + mem[c] + 1 \in Block
      BY <1>0, <2>2, NextBlock DEF Read
    <3>3. file' \in {file, Written(Start(c) + mem[c] + 1)}
      BY <2>2 DEF Read
    <3>4. file' \in [len: -1..Total, good: SUBSET Block]
      BY <1>0, <3>2, <3>3, WrittenIsFile
    <3> QED BY <1>0, <2>0, <3>1, <3>4, ChunkStepTypes
  <2>3. CASE Count(c)
    <3>1. /\ chunk[c] = "wrote" /\ mem' = [mem EXCEPT ![c] = @ + 1]
          /\ chunk' = [chunk EXCEPT ![c] = IF mem[c] + 1 >= Size(c) THEN "off" ELSE "read"]
          /\ UNCHANGED <<file, err, ignored>>
      BY <2>3 DEF Count
    <3>2. Within(mem')
      BY <1>0, <3>1, NextBlock
    <3>3. chunk' \in [Chunk -> {"off", "ask", "read", "wrote"}]
      BY <1>0, <3>1
    <3>4. mem \in [Chunk -> 0..Total] /\ Size(c) \in Nat
      BY <1>0, ChunkBounds DEF Within, Counts
    <3>5. ASSUME NEW d \in Chunk, chunk'[d] # "off" PROVE mem'[d] < Size(d)
      <4>1. CASE d = c
        <5>1. ~(mem[c] + 1 >= Size(c))
          BY <1>0, <3>1, <3>5, <4>1
        <5>2. mem'[c] = mem[c] + 1 /\ mem[c] \in Nat
          BY <3>1, <3>4
        <5> QED BY <3>4, <4>1, <5>1, <5>2
      <4>2. CASE d # c
        <5>1. chunk'[d] = chunk[d] /\ mem'[d] = mem[d]
          BY <1>0, <3>1, <3>4, <4>2
        <5> QED BY <1>0, <3>5, <5>1
      <4> QED BY <4>1, <4>2
    <3> QED BY <1>0, <2>0, <3>1, <3>2, <3>3, <3>5, ChunkStepTypes
  <2> QED BY <1>15, <2>1, <2>2, <2>3 DEF ChunkStep
<1>16. CASE Pause \/ Resume \/ Retry \/ RetryKilled
  <2>1. /\ row' \in RowState /\ file' \in [len: -1..Total, good: SUBSET Block]
        /\ ops' \in 0..MaxOps /\ kills' \in 0..MaxKills /\ ctx' \in BOOLEAN
    <3>1. row' = row \/ row' = [row EXCEPT !.st = "queued"] \/ row' = [st |-> "queued", offset |-> 0]
      BY <1>16 DEF Pause, Resume, Retry, RetryKilled
    <3>2. row' \in RowState
      BY <1>0, <3>1, RowIs, BrokenIs
    <3>3. file' \in {file, NoFile} /\ ctx' \in {TRUE, ctx}
      BY <1>16 DEF Pause, Resume, Retry, RetryKilled
    <3>4. ops' = ops + 1 /\ ops < MaxOps /\ (kills' = kills \/ (kills' = kills + 1 /\ kills < MaxKills))
      BY <1>16 DEF Pause, Resume, Retry, RetryKilled
    <3>5. ops' \in 0..MaxOps /\ kills' \in 0..MaxKills
      BY <1>0, <3>4
    <3> QED BY <1>0, <3>2, <3>3, <3>5, NoFileIsFile
  <2>2. /\ UNCHANGED <<params, chunking, main, from, stream, res>>
        /\ sidecar' \in {sidecar, None}
    BY <1>16 DEF Pause, Resume, Retry, RetryKilled
  <2> QED BY <1>0, <2>1, <2>2, MainStepTypes DEF stream
<1>17. CASE Kill
  <2>1. /\ row' \in RowState /\ file' \in [len: -1..Total, good: SUBSET Block]
        /\ ops' \in 0..MaxOps /\ kills' \in 0..MaxKills
    BY <1>0, <1>17, NoFileIsFile DEF Kill, RowState
  <2> QED BY <1>17, <2>1, OverTypes DEF Kill
<1>18. CASE UNCHANGED vars
  BY <1>0, <1>18, MainStepTypes DEF vars, stream
<1> QED
  BY <1>1, <1>2, <1>3, <1>4, <1>5, <1>6, <1>7, <1>8, <1>9, <1>10, <1>11, <1>12, <1>13, <1>14,
     <1>15, <1>16, <1>17, <1>18 DEF Next, MainStep

\* TypeOK: no chunk is counted past its end (fetchChunk's clamp), and no resume offset lies
\* past the file, the sum that a chunked attempt reports included (runChunked).
THEOREM DownloaderTypes == Spec => []TypeOK
<1>1. TInv => TypeOK
  BY DEF TInv
<1> QED BY InitTInv, NextTInv, <1>1, PTL DEF Spec
=============================================================================
