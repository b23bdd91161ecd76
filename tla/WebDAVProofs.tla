---------------------------- MODULE WebDAVProofs ----------------------------
(***************************************************************************)
(* Proofs about a webdav job (WebDAVJob) and the walk it begins with       *)
(* (WebDAVWalk): for any finite tree of folders, any number of workers,    *)
(* any files and any pauses, retries, losses and deaths of the daemon.     *)
(***************************************************************************)
EXTENDS WebDAVJob, FiniteSetTheorems, SequenceTheorems, TLAPS

(* Sequences *)

\* SetToSeq puts every element of a finite set in the sequence, and nothing else.
LEMMA SetToSeqFits ==
  ASSUME NEW S, IsFiniteSet(S)
  PROVE  SetToSeq(S) \in Seq(S) /\ Range(SetToSeq(S)) = S
<1> DEFINE n == Cardinality(S)
<1>1. n \in Nat /\ ExistsBijection(1..n, S)
  BY FS_CardinalityType
<1>2. PICK b \in Bijection(1..n, S) : TRUE
  BY <1>1 DEF ExistsBijection
<1>3. b \in [1..n -> S] /\ IsInjective(b)
  BY <1>2 DEF Bijection, Injection
<1> DEFINE q == SetToSeq(S)
<1>4. q \in [1..n -> S] /\ IsInjective(q)
  BY <1>3 DEF SetToSeq
<1>5. q \in Injection(1..n, S)
  BY <1>4 DEF Injection
<1>6. Cardinality(1..n) = n
  BY <1>1, FS_Interval
<1>7. q \in Surjection(1..n, S)
  BY <1>5, <1>6, FS_Injection
<1>8. q \in Seq(S)
  BY <1>1, <1>4
<1> QED BY <1>4, <1>7, <1>8 DEF Surjection, Range

LEMMA FrontFits ==
  ASSUME NEW D, NEW q \in Seq(D), q # <<>>
  PROVE  /\ Front(q) \in Seq(D) /\ Last(q) \in D
         /\ Range(q) = Range(Front(q)) \cup {Last(q)}
<1>1. Len(q) \in Nat /\ Len(q) > 0 /\ DOMAIN q = 1..Len(q)
  OBVIOUS
<1>2. Front(q) \in Seq(D) /\ Len(Front(q)) = Len(q) - 1
      /\ \A i \in 1..(Len(q) - 1) : Front(q)[i] = q[i]
  BY <1>1 DEF Front
<1>3. Last(q) \in D
  BY <1>1 DEF Last
<1>4. DOMAIN Front(q) = 1..(Len(q) - 1)
  BY <1>1, <1>2
<1> QED BY <1>1, <1>2, <1>3, <1>4 DEF Last, Range

LEMMA ConcatRange ==
  ASSUME NEW D, NEW q \in Seq(D), NEW t \in Seq(D)
  PROVE  q \o t \in Seq(D) /\ Range(q \o t) = Range(q) \cup Range(t)
<1>1. /\ q \o t \in Seq(D) /\ Len(q \o t) = Len(q) + Len(t) /\ Len(q) \in Nat /\ Len(t) \in Nat
      /\ DOMAIN (q \o t) = 1..(Len(q) + Len(t)) /\ DOMAIN q = 1..Len(q) /\ DOMAIN t = 1..Len(t)
      /\ \A i \in 1..(Len(q) + Len(t)) :
           (q \o t)[i] = IF i <= Len(q) THEN q[i] ELSE t[i - Len(q)]
  OBVIOUS
<1>2. ASSUME NEW x \in Range(q) PROVE x \in Range(q \o t)
  BY <1>1 DEF Range
<1>3. ASSUME NEW x \in Range(t) PROVE x \in Range(q \o t)
  <2>1. PICK i \in 1..Len(t) : t[i] = x
    BY <1>1 DEF Range
  <2>2. i + Len(q) \in 1..(Len(q) + Len(t)) /\ (q \o t)[i + Len(q)] = x
    BY <1>1, <2>1
  <2> QED BY <1>1, <2>2 DEF Range
<1>4. ASSUME NEW x \in Range(q \o t) PROVE x \in Range(q) \cup Range(t)
  <2>1. PICK i \in 1..(Len(q) + Len(t)) : (q \o t)[i] = x
    BY <1>1 DEF Range
  <2>2. CASE i <= Len(q)
    BY <1>1, <2>1, <2>2 DEF Range
  <2>3. CASE ~(i <= Len(q))
    <3>1. i - Len(q) \in 1..Len(t) /\ t[i - Len(q)] = x
      BY <1>1, <2>1, <2>3
    <3> QED BY <1>1, <3>1 DEF Range
  <2> QED BY <2>2, <2>3
<1> QED BY <1>1, <1>2, <1>3, <1>4

-----------------------------------------------------------------------------
(* The walk *)

WalkTypes ==
  /\ queue \in Seq(Folder) /\ active \in Nat /\ files \subseteq File
  /\ firstErr \in Fragile \cup {None} /\ wctx \in BOOLEAN
  /\ at \in [Worker -> [stage : Stage, folder : Folder]]

Listing == {w \in Worker : at[w].stage = "listing"}

\* The folders that are queued or being listed.
Underway == Range(queue) \cup {at[w].folder : w \in Listing}

\* What is not found yet lies below a folder that is under way.
Covered ==
  \A S \in SUBSET Folder :
    Closed(S) /\ Underway \subseteq S => File \subseteq files \cup UNION {FilesIn[d] : d \in S}

\* active counts the workers in a PROPFIND; one that has failed has ended the walk; none
\* leaves a walk that is not over while there is a folder under way.
WalkInv ==
  /\ WalkTypes
  /\ active = Cardinality(Listing)
  /\ \A w \in Worker : at[w].stage = "failed" => Over
  /\ ~Over /\ (\E w \in Worker : at[w].stage \in {"leaving", "gone"}) => queue = <<>> /\ Listing = {}
  /\ ~Over => Covered

(* The attempt *)

JobTypes ==
  /\ row \in [st : {"active", "paused", "failed", "completed"}, resolved : SUBSET File]
  /\ disk \in [File -> Int] /\ \A f \in File : disk[f] \in -1..Size[f]
  /\ main \in {"off", "stat", "walk", "spawn", "slot", "join"}
  /\ ctx \in BOOLEAN /\ known \subseteq File /\ todo \subseteq File
  /\ fl \in [File -> FileStage] /\ err \in {None, "failed", "canceled"}
  /\ read \subseteq File /\ locked \in File \cup {None} /\ ops \in Nat

\* Where the job's goroutine is, and what the attempt has then.
AttemptFits ==
  /\ main = "off" <=> row.st # "active"
  /\ main \in {"off", "stat", "walk"} => todo = {} /\ \A f \in File : fl[f] = "none"
  /\ main \in {"stat", "walk"} => err = None /\ known = row.resolved
  /\ main # "off" => known \subseteq row.resolved
  /\ main = "walk" => WalkInv /\ (wctx => ctx \/ firstErr # None)
  /\ main \in {"spawn", "slot", "join"} =>
       \A f \in File : f \in todo \/ fl[f] # "none" \/ f \in known
  /\ main = "join" => ctx \/ todo = {}

\* resolvedMu: whoever has read the row holds the mutex, and the row is as it was read.
OneRecords ==
  /\ \A f \in File : fl[f] = "recording" <=> locked = f
  /\ locked # None => read = row.resolved

\* What is recorded is there, and nobody is about to fetch it again unless it was lost.
RecordedIsThere(f) ==
  /\ fl[f] = "done" /\ err = None => f \in row.resolved
  /\ f \in todo => fl[f] = "none"
  /\ f \in row.resolved \ Losable => disk[f] = Size[f]
  /\ f \in row.resolved /\ (f \in todo \/ fl[f] = "begun") => disk[f] = -1
  /\ fl[f] \in {"record", "recording"} => disk[f] = Size[f]

JobInv ==
  /\ JobTypes /\ AttemptFits /\ OneRecords
  /\ \A f \in File : RecordedIsThere(f)
  /\ CompletesRecorded

-----------------------------------------------------------------------------
(* The walk's steps *)

At == [Worker -> [stage : Stage, folder : Folder]]

LEMMA ListingFinite == IsFiniteSet(Listing) /\ Cardinality(Listing) \in Nat
<1>1. Listing \in SUBSET Worker /\ IsFiniteSet(Worker)
  BY WalkAssumption DEF Listing, WalkAssumption
<1> QED BY <1>1, FS_Subset, FS_CardinalityType

\* A step in which nobody begins or ends a listing.
LEMMA StageStep ==
  ASSUME WalkInv, at' \in At, wctx' \in BOOLEAN, wctx => wctx',
         UNCHANGED <<queue, active, files, firstErr>>,
         \A v \in Worker : /\ at'[v].folder = at[v].folder
                           /\ at'[v].stage = "listing" <=> at[v].stage = "listing"
                           /\ at'[v].stage = "failed" => at[v].stage = "failed",
         ~Over' /\ (\E v \in Worker : at'[v].stage \in {"leaving", "gone"})
           => queue = <<>> /\ Listing = {}
  PROVE  WalkInv'
<1>1. Listing' = Listing /\ Underway' = Underway
  BY DEF Listing, Underway
<1>2. Over => Over'
  BY DEF Over, WalkInv, WalkTypes
<1>3. WalkTypes'
  BY DEF WalkInv, WalkTypes, At
<1>4. ~Over' => Covered'
  BY <1>1, <1>2 DEF WalkInv, Covered
<1>5. \A v \in Worker : at'[v].stage = "failed" => Over'
  BY <1>2 DEF WalkInv
<1> QED BY <1>1, <1>2, <1>3, <1>4, <1>5 DEF WalkInv

LEMMA AtFits ==
  ASSUME WalkInv, NEW w \in Worker
  PROVE  at \in At /\ at[w].stage \in Stage /\ at[w].folder \in Folder
BY DEF WalkInv, WalkTypes, At

\* The worker is where it was, or has been woken.
StageOrWoken(v) ==
  at'[v].stage = at[v].stage \/ (at[v].stage = "waiting" /\ at'[v].stage = "check")

\* One worker goes to a stage, and wakes whoever waits or not.
LEMMA GoFits ==
  ASSUME WalkInv, NEW w \in Worker, NEW stage \in Stage, Go(w, stage) \/ Broadcast(w, stage)
  PROVE  /\ at' \in At /\ at'[w].stage = stage
         /\ \A v \in Worker : /\ at'[v].folder = at[v].folder
                               /\ (v # w => StageOrWoken(v))
<1>1. at \in At /\ "check" \in Stage
  BY AtFits DEF Stage
<1>2. CASE Go(w, stage)
  BY <1>1, <1>2 DEF Go, At, StageOrWoken
<1>3. CASE Broadcast(w, stage)
  <2>1. ASSUME NEW v \in Worker
        PROVE  /\ at'[v] \in [stage : Stage, folder : Folder]
               /\ at'[v].folder = at[v].folder
               /\ v = w => at'[v].stage = stage
               /\ (v # w => StageOrWoken(v))
    <3>1. at[v] \in [stage : Stage, folder : Folder]
      BY <1>1 DEF At
    <3>2. at'[v] \in {at[v], [at[v] EXCEPT !.stage = stage], [at[v] EXCEPT !.stage = "check"]}
      BY <1>3 DEF Broadcast
    <3>3. v = w => at'[v] = [at[v] EXCEPT !.stage = stage]
      BY <1>3 DEF Broadcast
    <3>4. \/ v = w \/ at'[v] = at[v]
          \/ at[v].stage = "waiting" /\ at'[v] = [at[v] EXCEPT !.stage = "check"]
      BY <1>3 DEF Broadcast
    <3> QED BY <1>1, <3>1, <3>2, <3>3, <3>4 DEF StageOrWoken
  <2>2. at' \in At
    BY <1>3, <2>1 DEF Broadcast, At
  <2> QED BY <2>1, <2>2
<1> QED BY <1>2, <1>3

LEMMA CheckKeeps ==
  ASSUME WalkInv, NEW w \in Worker, Check(w)
  PROVE  WalkInv'
<1>0. at[w].stage = "check" /\ UNCHANGED <<files, firstErr, wctx>> /\ wctx \in BOOLEAN
  BY DEF Check, WalkInv, WalkTypes
<1>1. CASE queue = <<>> /\ active > 0 /\ ~Over /\ Go(w, "waiting") /\ UNCHANGED <<queue, active>>
  <2>1. "waiting" \in Stage /\ Over' = Over
    BY <1>0 DEF Stage, Over
  <2>2. /\ at' \in At /\ at'[w].stage = "waiting"
        /\ \A v \in Worker : /\ at'[v].folder = at[v].folder
                              /\ (v # w => StageOrWoken(v))
    BY <1>1, <2>1, GoFits
  <2>3. ~Over' /\ (\E v \in Worker : at'[v].stage \in {"leaving", "gone"})
          => queue = <<>> /\ Listing = {}
    BY <1>0, <2>1, <2>2 DEF WalkInv, StageOrWoken
  <2> QED BY <1>0, <1>1, <2>2, <2>3, StageStep DEF StageOrWoken
<1>2. CASE /\ Over \/ (queue = <<>> /\ active = 0)
           /\ Go(w, "leaving") /\ UNCHANGED <<queue, active>>
  <2>1. "leaving" \in Stage /\ Over' = Over
    BY <1>0 DEF Stage, Over
  <2>2. /\ at' \in At /\ at'[w].stage = "leaving"
        /\ \A v \in Worker : /\ at'[v].folder = at[v].folder
                              /\ (v # w => StageOrWoken(v))
    BY <1>2, <2>1, GoFits
  <2>3. active = 0 => Listing = {}
    BY ListingFinite, FS_EmptySet DEF WalkInv
  <2>4. ~Over' => queue = <<>> /\ Listing = {}
    BY <1>2, <2>1, <2>3
  <2> QED BY <1>0, <1>2, <2>2, <2>4, StageStep DEF StageOrWoken
<1>3. CASE /\ queue # <<>> /\ ~Over
           /\ at' = [at EXCEPT ![w] = [stage |-> "listing", folder |-> Last(queue)]]
           /\ queue' = Front(queue) /\ active' = active + 1
  <2>1. /\ queue' \in Seq(Folder) /\ Last(queue) \in Folder
        /\ Range(queue) = Range(queue') \cup {Last(queue)}
    BY <1>3, FrontFits DEF WalkInv, WalkTypes
  <2>2. at \in At /\ "listing" \in Stage
    BY AtFits DEF Stage
  <2>3. /\ at' \in At /\ at'[w].stage = "listing" /\ at'[w].folder = Last(queue)
        /\ \A v \in Worker \ {w} : at'[v] = at[v]
    BY <1>3, <2>1, <2>2 DEF At
  <2>4. w \notin Listing /\ Listing' = Listing \cup {w}
    BY <1>0, <2>3 DEF Listing
  <2>5. active' = Cardinality(Listing')
    BY <1>3, <2>4, ListingFinite, FS_AddElement DEF WalkInv
  <2>6. Underway \subseteq Underway'
    BY <2>1, <2>3, <2>4 DEF Underway, Listing
  <2>7. Over' = Over /\ ~Over
    BY <1>0, <1>3 DEF Over
  <2>8. Covered'
    BY <1>0, <2>6, <2>7 DEF WalkInv, Covered
  <2>9. WalkTypes'
    BY <1>0, <1>3, <2>1, <2>3 DEF WalkInv, WalkTypes, At
  <2>10. ~\E v \in Worker : at'[v].stage \in {"leaving", "gone", "failed"}
    BY <1>3, <2>3 DEF WalkInv
  <2> QED BY <2>5, <2>7, <2>8, <2>9, <2>10 DEF WalkInv
<1> QED BY <1>1, <1>2, <1>3 DEF Check

\* One worker's listing ends.
LEMMA ListingEnds ==
  ASSUME WalkInv, NEW w \in Worker, at[w].stage = "listing", NEW stage \in Stage \ {"listing"},
         Go(w, stage), active' = active - 1
  PROVE  /\ at' \in At /\ at'[w].stage = stage
         /\ \A v \in Worker : at'[v].folder = at[v].folder /\ (v # w => at'[v] = at[v])
         /\ Listing' = Listing \ {w} /\ active' = Cardinality(Listing') /\ active' \in Nat
<1>1. at \in At
  BY AtFits
<1>2. /\ at' \in At /\ at'[w].stage = stage
      /\ \A v \in Worker : at'[v].folder = at[v].folder /\ (v # w => at'[v] = at[v])
  BY <1>1 DEF Go, At
<1>3. w \in Listing /\ Listing' = Listing \ {w}
  BY <1>2 DEF Listing
<1>4. IsFiniteSet(Listing \ {w}) /\ Cardinality(Listing \ {w}) = Cardinality(Listing) - 1
  BY <1>3, ListingFinite, FS_RemoveElement
<1>5. Cardinality(Listing \ {w}) \in Nat
  BY <1>4, FS_CardinalityType
<1> QED BY <1>2, <1>3, <1>4, <1>5 DEF WalkInv

LEMMA ListedKeeps ==
  ASSUME WalkInv, NEW w \in Worker, Listed(w)
  PROVE  WalkInv'
<1> DEFINE x == at[w].folder
<1>1. at[w].stage = "listing" /\ UNCHANGED <<firstErr, wctx>> /\ "told" \in Stage \ {"listing"}
  BY DEF Listed, Stage
<1>2. /\ at' \in At /\ at'[w].stage = "told"
      /\ \A v \in Worker : at'[v].folder = at[v].folder /\ (v # w => at'[v] = at[v])
      /\ Listing' = Listing \ {w} /\ active' = Cardinality(Listing') /\ active' \in Nat
  BY <1>1, ListingEnds DEF Listed
<1>3. x \in Folder /\ Subfolders[x] \in SUBSET Folder /\ IsFiniteSet(Subfolders[x])
      /\ FilesIn[x] \subseteq File
  BY AtFits, WalkAssumption, JobAssumption, FS_Subset DEF WalkAssumption, JobAssumption
<1>4. queue \in Seq(Folder) /\ files' = files \cup FilesIn[x]
  BY DEF WalkInv, WalkTypes, Listed
<1>5. queue' \in Seq(Folder) /\ Range(queue') = Range(queue) \cup Subfolders[x]
  <2> DEFINE t == SetToSeq(Subfolders[x])
  <2>1. t \in Seq(Subfolders[x]) /\ Range(t) = Subfolders[x]
    BY <1>3, SetToSeqFits
  <2>2. t \in Seq(Folder)
    BY <1>3, <2>1
  <2>3. queue' = queue \o t
    BY DEF Listed
  <2> HIDE DEF t
  <2> QED BY <1>4, <2>1, <2>2, <2>3, ConcatRange
<1>6. WalkTypes'
  BY <1>1, <1>2, <1>3, <1>4, <1>5 DEF WalkInv, WalkTypes, At
<1>7. Over' = Over
  BY <1>1 DEF Over
<1>8. \A v \in Worker : at'[v].stage = "failed" => Over'
  BY <1>2, <1>7 DEF WalkInv
<1>9. ~(~Over' /\ \E v \in Worker : at'[v].stage \in {"leaving", "gone"})
  BY <1>1, <1>2, <1>7 DEF WalkInv, Listing
<1>10. Underway \subseteq Underway' \cup {x} /\ Subfolders[x] \subseteq Underway'
  BY <1>2, <1>5 DEF Underway, Listing
<1>11. ASSUME ~Over' PROVE Covered'
  <2> SUFFICES ASSUME NEW S \in SUBSET Folder, Closed(S), Underway' \subseteq S
               PROVE  File \subseteq files' \cup UNION {FilesIn[d] : d \in S}
    BY DEF Covered, Closed
  <2> DEFINE U == S \cup {x}
  <2>1. U \in SUBSET Folder /\ Closed(U) /\ Underway \subseteq U
    BY <1>3, <1>10 DEF Closed
  <2>2. Covered
    BY <1>7, <1>11 DEF WalkInv
  <2>3. File \subseteq files \cup UNION {FilesIn[d] : d \in U}
    BY <2>1, <2>2 DEF Covered
  <2>4. UNION {FilesIn[d] : d \in U} \subseteq FilesIn[x] \cup UNION {FilesIn[d] : d \in S}
    OBVIOUS
  <2> QED BY <1>4, <2>3, <2>4
<1> QED BY <1>2, <1>6, <1>8, <1>9, <1>11 DEF WalkInv

LEMMA ListFailsKeeps ==
  ASSUME WalkInv, NEW w \in Worker, ListFails(w)
  PROVE  WalkInv'
<1>1. /\ at[w].stage = "listing" /\ UNCHANGED <<queue, files, wctx>>
      /\ "failed" \in Stage \ {"listing"} /\ active' = active - 1 /\ Go(w, "failed")
  BY DEF ListFails, Stage
<1>2. /\ at' \in At /\ at'[w].stage = "failed"
      /\ Listing' = Listing \ {w} /\ active' = Cardinality(Listing') /\ active' \in Nat
  BY <1>1, ListingEnds
<1>3. firstErr' \in Fragile \cup {None} /\ Over'
  <2>1. at[w].folder # None
    BY AtFits, WalkAssumption DEF WalkAssumption
  <2> QED BY <1>1, <2>1 DEF ListFails, Over, WalkInv, WalkTypes
<1>4. WalkTypes'
  BY <1>1, <1>2, <1>3 DEF WalkInv, WalkTypes, At
<1> QED BY <1>2, <1>3, <1>4 DEF WalkInv

LEMMA CancelWalkKeeps ==
  ASSUME WalkInv, NEW w \in Worker, CancelWalk(w)
  PROVE  WalkInv'
<1>1. /\ at[w].stage = "failed" /\ wctx' = TRUE /\ Go(w, "leaving") /\ "leaving" \in Stage
      /\ UNCHANGED <<queue, active, files, firstErr>>
  BY DEF CancelWalk, Stage
<1>2. /\ at' \in At /\ at'[w].stage = "leaving"
      /\ \A v \in Worker : at'[v].folder = at[v].folder /\ (v # w => StageOrWoken(v))
  BY <1>1, GoFits
<1>3. Over'
  BY <1>1 DEF Over
<1> QED BY <1>1, <1>2, <1>3, StageStep DEF StageOrWoken

LEMMA TellKeeps ==
  ASSUME WalkInv, NEW w \in Worker, Tell(w) \/ Leave(w)
  PROVE  WalkInv'
<1> DEFINE stage == IF Tell(w) THEN "check" ELSE "gone"
<1>1. /\ at[w].stage \in {"told", "leaving"} /\ stage \in Stage /\ Broadcast(w, stage)
      /\ UNCHANGED <<queue, active, files, firstErr, wctx>> /\ stage \in {"check", "gone"}
      /\ (stage = "gone" => at[w].stage = "leaving")
  BY DEF Tell, Leave, Stage
<1> HIDE DEF stage
<1>2. /\ at' \in At /\ at'[w].stage = stage
      /\ \A v \in Worker : at'[v].folder = at[v].folder /\ (v # w => StageOrWoken(v))
  BY <1>1, GoFits
<1>3. Over' = Over /\ wctx \in BOOLEAN
  BY <1>1 DEF Over, WalkInv, WalkTypes
<1>4. ASSUME ~Over', NEW v \in Worker, at'[v].stage \in {"leaving", "gone"}
      PROVE  queue = <<>> /\ Listing = {}
  <2>1. at[v].stage \in {"leaving", "gone"}
    BY <1>1, <1>2, <1>4 DEF StageOrWoken
  <2> QED BY <1>3, <1>4, <2>1 DEF WalkInv
<1> QED BY <1>1, <1>2, <1>3, <1>4, StageStep DEF StageOrWoken

LEMMA WatcherKeeps ==
  ASSUME WalkInv, WatcherWakes
  PROVE  WalkInv'
<1>1. wctx /\ UNCHANGED <<queue, active, files, firstErr, wctx>> /\ wctx \in BOOLEAN
  BY DEF WatcherWakes, WalkInv, WalkTypes
<1>2. ASSUME NEW v \in Worker
      PROVE  /\ at'[v] \in [stage : Stage, folder : Folder] /\ at'[v].folder = at[v].folder
             /\ StageOrWoken(v)
  <2>1. at[v] \in [stage : Stage, folder : Folder] /\ "check" \in Stage
    BY AtFits DEF At, Stage
  <2>2. \/ at'[v] = at[v]
        \/ at[v].stage = "waiting" /\ at'[v] = [at[v] EXCEPT !.stage = "check"]
    BY DEF WatcherWakes
  <2> QED BY <2>1, <2>2 DEF StageOrWoken
<1>3. at' \in At
  BY <1>2 DEF WatcherWakes, At
<1>4. Over'
  BY <1>1 DEF Over
<1> QED BY <1>1, <1>2, <1>3, <1>4, StageStep DEF StageOrWoken

\* The walk keeps its invariant, and its context ends only with the attempt's or with an
\* error of its own.
LEMMA WalkStepKeeps ==
  ASSUME WalkInv, WalkStep
  PROVE  WalkInv' /\ (wctx' => wctx \/ firstErr' # None)
<1>1. WalkInv'
  BY CheckKeeps, ListedKeeps, ListFailsKeeps, CancelWalkKeeps, TellKeeps, WatcherKeeps DEF WalkStep
<1>2. ASSUME wctx', ~wctx PROVE firstErr' # None
  <2>1. PICK w \in Worker : CancelWalk(w)
    BY <1>2 DEF WalkStep, Check, Listed, ListFails, Tell, Leave, WatcherWakes
  <2> QED BY <1>2, <2>1 DEF CancelWalk, WalkInv, Over
<1> QED BY <1>1, <1>2 DEF WalkInv, WalkTypes

LEMMA StartWalkFits ==
  ASSUME NEW over \in BOOLEAN, StartWalk(over)
  PROVE  WalkInv' /\ firstErr' = None /\ wctx' = over
<1>1. /\ queue' = <<Root>> /\ active' = 0 /\ files' = {} /\ firstErr' = None /\ wctx' = over
      /\ Root \in Folder
  BY WalkAssumption DEF StartWalk, WalkAssumption
<1>2. at' \in At /\ \A w \in Worker : at'[w].stage = "check"
  BY <1>1 DEF StartWalk, At, Stage
<1>3. Listing' = {} /\ Root \in Range(queue')
  BY <1>1, <1>2 DEF Listing, Range
<1>4. WalkTypes'
  BY <1>1, <1>2 DEF WalkTypes, At
<1>5. Covered'
  BY <1>1, <1>3, JobAssumption DEF Covered, Underway, JobAssumption, Closed
<1>6. active' = Cardinality(Listing')
  BY <1>1, <1>3, FS_EmptySet
<1> QED BY <1>1, <1>2, <1>4, <1>5, <1>6 DEF WalkInv

\* What the walk is for: all workers gone and no error, everything is found.
LEMMA WalkedFindsAll ==
  ASSUME WalkInv, Walked, ~Over
  PROVE  files = File
<1>1. PICK w \in Worker : at[w].stage = "gone"
  BY WalkAssumption DEF WalkAssumption, Walked
<1>2. queue = <<>> /\ Listing = {}
  BY <1>1 DEF WalkInv
<1>3. Underway = {}
  BY <1>2 DEF Underway, Range
<1>4. File \subseteq files \cup UNION {FilesIn[d] : d \in {}}
  BY <1>3 DEF WalkInv, Covered, Closed
<1> QED BY <1>4 DEF WalkInv, WalkTypes

-----------------------------------------------------------------------------
(* The attempt's steps *)

LEMMA SizeFits ==
  ASSUME NEW f \in File
  PROVE  Size[f] \in Nat /\ -1 \in Int /\ -1 \in -1..Size[f] /\ Size[f] # -1
<1>1. Size[f] \in Nat
  BY JobAssumption DEF JobAssumption
<1> QED BY <1>1

LEMMA JobInitFits == Init => JobInv
<1> SUFFICES ASSUME Init PROVE JobInv
  OBVIOUS
<1>0. disk \in [File -> Int] /\ \A f \in File : disk[f] \in -1..Size[f]
  BY SizeFits DEF Init
<1>1. JobTypes
  BY <1>0 DEF Init, JobTypes, FileStage
<1>2. AttemptFits /\ OneRecords
  BY JobAssumption DEF Init, AttemptFits, OneRecords, JobAssumption
<1>3. \A f \in File : RecordedIsThere(f)
  BY DEF Init, RecordedIsThere
<1> QED BY <1>1, <1>2, <1>3 DEF JobInv, CompletesRecorded, Init

Outcomes == {"paused", "failed", "completed"}

\* The end of an attempt.
LEMMA FinishKeeps ==
  ASSUME JobInv, NEW outcome \in Outcomes, Finish(outcome),
         outcome = "completed" => row.resolved = File
  PROVE  JobInv'
<1>1. /\ main' = "off" /\ ctx' = FALSE /\ known' = {} /\ todo' = {} /\ err' = None /\ read' = {}
      /\ locked' = None /\ disk' = disk /\ ops' = ops /\ fl' = [f \in File |-> "none"]
  BY DEF Finish, NoAttempt
<1>2. row' = [row EXCEPT !.st = outcome]
  BY DEF Finish
<1>3. row' \in [st : {"active", "paused", "failed", "completed"}, resolved : SUBSET File]
      /\ row'.st = outcome /\ row'.resolved = row.resolved
  BY <1>2 DEF JobInv, JobTypes, Outcomes
<1>4. fl' \in [File -> FileStage] /\ \A f \in File : fl'[f] = "none"
  BY <1>1 DEF FileStage
<1>5. JobTypes'
  BY <1>1, <1>3, <1>4 DEF JobInv, JobTypes
<1>6. AttemptFits' /\ OneRecords'
  BY <1>1, <1>3, <1>4, JobAssumption DEF AttemptFits, OneRecords, Outcomes, JobAssumption
<1>7. \A f \in File : RecordedIsThere(f)'
  BY <1>1, <1>3, <1>4 DEF JobInv, RecordedIsThere
<1> QED BY <1>3, <1>5, <1>6, <1>7 DEF JobInv, CompletesRecorded

\* The beginning of one: with what is recorded, all of it there, or with nothing.
LEMMA BeginKeeps ==
  ASSUME JobInv, NEW resolved \in SUBSET File, BeginAttempt(resolved), ops' \in Nat,
         disk' \in [File -> Int], \A f \in File : disk'[f] \in -1..Size[f],
         \A f \in resolved \ Losable : disk'[f] = Size[f]
  PROVE  JobInv'
<1>1. /\ main' = "stat" /\ ctx' = FALSE /\ known' = resolved /\ todo' = {} /\ err' = None
      /\ read' = {} /\ locked' = None /\ fl' = [f \in File |-> "none"]
      /\ row' = [st |-> "active", resolved |-> resolved]
  BY DEF BeginAttempt
<1>2. row' \in [st : {"active", "paused", "failed", "completed"}, resolved : SUBSET File]
      /\ row'.st = "active" /\ row'.resolved = resolved
  BY <1>1
<1>3. fl' \in [File -> FileStage] /\ \A f \in File : fl'[f] = "none"
  BY <1>1 DEF FileStage
<1>4. JobTypes'
  BY <1>1, <1>2, <1>3 DEF JobInv, JobTypes
<1>5. AttemptFits' /\ OneRecords'
  BY <1>1, <1>2, <1>3, JobAssumption DEF AttemptFits, OneRecords, JobAssumption
<1>6. \A f \in File : RecordedIsThere(f)'
  BY <1>1, <1>2, <1>3 DEF RecordedIsThere
<1> QED BY <1>2, <1>4, <1>5, <1>6 DEF JobInv, CompletesRecorded

LEMMA RequestsKeep ==
  ASSUME JobInv, Resume \/ Retry \/ Kill
  PROVE  JobInv'
<1>1. /\ row.resolved \in SUBSET File /\ disk \in [File -> Int] /\ ops \in Nat
      /\ \A f \in File : disk[f] \in -1..Size[f]
      /\ \A f \in row.resolved \ Losable : disk[f] = Size[f]
  BY DEF JobInv, JobTypes, RecordedIsThere
<1>2. CASE Resume \/ Kill
  BY <1>1, <1>2, BeginKeeps DEF Resume, Kill
<1>3. CASE Retry
  <2>1. disk' = [f \in File |-> IF f \in row.resolved THEN -1 ELSE disk[f]]
    BY <1>3 DEF Retry
  <2>2. \A f \in File : disk'[f] \in Int /\ disk'[f] \in -1..Size[f]
    BY <1>1, <2>1, JobAssumption DEF JobAssumption
  <2>3. disk' \in [File -> Int]
    BY <2>1, <2>2
  <2> QED BY <1>1, <1>3, <2>2, <2>3, BeginKeeps DEF Retry
<1> QED BY <1>2, <1>3

LEMMA LostKeeps ==
  ASSUME JobInv, NEW f \in File, Lost(f)
  PROVE  JobInv'
<1>1. /\ UNCHANGED <<walkVars, row, main, ctx, known, todo, fl, err, read, locked>>
      /\ main = "off" /\ f \in Losable /\ disk' = [disk EXCEPT ![f] = -1] /\ ops' = ops + 1
  BY DEF Lost, attempt
<1>2. disk' \in [File -> Int] /\ \A g \in File : disk'[g] \in -1..Size[g] /\ (g # f => disk'[g] = disk[g])
  <2>1. disk \in [File -> Int] /\ \A g \in File : disk[g] \in -1..Size[g]
    BY DEF JobInv, JobTypes
  <2> QED BY <1>1, <2>1, SizeFits
<1>3. JobTypes'
  BY <1>1, <1>2 DEF JobInv, JobTypes
<1>4. AttemptFits' /\ OneRecords'
  BY <1>1 DEF JobInv, AttemptFits, OneRecords
<1>5. \A g \in File : RecordedIsThere(g)'
  BY <1>1, <1>2 DEF JobInv, RecordedIsThere, AttemptFits
<1> QED BY <1>1, <1>3, <1>4, <1>5 DEF JobInv, CompletesRecorded

LEMMA PauseKeeps ==
  ASSUME JobInv, Pause
  PROVE  JobInv'
<1>1. /\ UNCHANGED <<queue, active, files, firstErr, at, row, disk, main, known, todo, fl, err, read, locked>>
      /\ main # "off" /\ ctx' = TRUE /\ wctx' = (main = "walk" \/ wctx) /\ ops' = ops + 1
  BY DEF Pause
<1>2. ASSUME main = "walk" PROVE WalkInv'
  <2>1. WalkInv /\ wctx' = TRUE /\ at \in At
    BY <1>1, <1>2 DEF JobInv, AttemptFits, WalkInv, WalkTypes, At
  <2>2. Over'
    BY <2>1 DEF Over
  <2> QED BY <1>1, <2>1, <2>2, StageStep
<1>3. JobTypes'
  BY <1>1 DEF JobInv, JobTypes
<1>4. AttemptFits' /\ OneRecords'
  BY <1>1, <1>2 DEF JobInv, AttemptFits, OneRecords
<1>5. \A f \in File : RecordedIsThere(f)'
  BY <1>1 DEF JobInv, RecordedIsThere
<1> QED BY <1>1, <1>3, <1>4, <1>5 DEF JobInv, CompletesRecorded

LEMMA StatKeeps ==
  ASSUME JobInv, Stat
  PROVE  JobInv'
<1>1. /\ UNCHANGED <<row, disk, ctx, known, todo, fl, err, read, locked, ops>>
      /\ main = "stat" /\ main' = "walk" /\ StartWalk(ctx) /\ ctx \in BOOLEAN
  BY DEF Stat, attempt, JobInv, JobTypes
<1>2. WalkInv' /\ wctx' = ctx
  BY <1>1, StartWalkFits
<1>3. JobTypes'
  BY <1>1 DEF JobInv, JobTypes
<1>4. AttemptFits' /\ OneRecords'
  BY <1>1, <1>2 DEF JobInv, AttemptFits, OneRecords
<1>5. \A f \in File : RecordedIsThere(f)'
  BY <1>1 DEF JobInv, RecordedIsThere
<1> QED BY <1>1, <1>3, <1>4, <1>5 DEF JobInv, CompletesRecorded

LEMMA WalkKeeps ==
  ASSUME JobInv, Walk
  PROVE  JobInv'
<1>1. /\ UNCHANGED <<row, disk, main, ctx, known, todo, fl, err, read, locked, ops>>
      /\ main = "walk" /\ WalkStep /\ WalkInv /\ (wctx => ctx \/ firstErr # None)
  BY DEF Walk, attempt, JobInv, AttemptFits
<1>2. WalkInv' /\ (wctx' => wctx \/ firstErr' # None)
  BY <1>1, WalkStepKeeps
<1>3. firstErr # None => firstErr' # None
  BY <1>1, WalkAssumption DEF WalkStep, Check, Listed, ListFails, CancelWalk, Tell, Leave, WatcherWakes
<1>4. JobTypes'
  BY <1>1 DEF JobInv, JobTypes
<1>5. AttemptFits' /\ OneRecords'
  BY <1>1, <1>2, <1>3 DEF JobInv, AttemptFits, OneRecords
<1>6. \A f \in File : RecordedIsThere(f)'
  BY <1>1 DEF JobInv, RecordedIsThere
<1> QED BY <1>1, <1>4, <1>5, <1>6 DEF JobInv, CompletesRecorded

LEMMA WalkDoneKeeps ==
  ASSUME JobInv, WalkDone
  PROVE  JobInv'
<1>1. /\ UNCHANGED <<row, disk, ctx, known, fl, err, read, locked, ops>>
      /\ main = "walk" /\ main' = "spawn" /\ Walked /\ firstErr = None /\ ~ctx /\ todo' = Pending
  BY DEF WalkDone
<1>2. WalkInv /\ known = row.resolved /\ \A f \in File : fl[f] = "none"
  BY <1>1 DEF JobInv, AttemptFits
<1>3. ~Over
  BY <1>1, <1>2 DEF JobInv, AttemptFits, Over
<1>4. todo' = {f \in File : f \notin known \/ disk[f] = -1}
  BY <1>1, <1>2, <1>3, WalkedFindsAll DEF Pending
<1>5. JobTypes'
  BY <1>1, <1>4 DEF JobInv, JobTypes
<1>6. AttemptFits' /\ OneRecords'
  BY <1>1, <1>2, <1>4 DEF JobInv, AttemptFits, OneRecords
<1>7. \A f \in File : RecordedIsThere(f)'
  BY <1>1, <1>2, <1>4 DEF JobInv, RecordedIsThere
<1> QED BY <1>1, <1>5, <1>6, <1>7 DEF JobInv, CompletesRecorded

LEMMA SpawnKeeps ==
  ASSUME JobInv, Spawn
  PROVE  JobInv'
<1>1. /\ UNCHANGED <<row, disk, ctx, known, todo, fl, err, read, locked, ops>> /\ main = "spawn"
      /\ main' = "slot" \/ (main' = "join" /\ (ctx \/ todo = {}))
  BY DEF Spawn, attempt
<1>2. JobTypes'
  BY <1>1 DEF JobInv, JobTypes
<1>3. AttemptFits' /\ OneRecords'
  BY <1>1 DEF JobInv, AttemptFits, OneRecords
<1>4. \A f \in File : RecordedIsThere(f)'
  BY <1>1 DEF JobInv, RecordedIsThere
<1> QED BY <1>1, <1>2, <1>3, <1>4 DEF JobInv, CompletesRecorded

LEMMA TakeSlotKeeps ==
  ASSUME JobInv, NEW f \in File, TakeSlot(f)
  PROVE  JobInv'
<1>1. /\ UNCHANGED <<row, disk, ctx, known, err, read, locked, ops>> /\ main = "slot" /\ main' = "spawn"
      /\ f \in todo /\ todo' = todo \ {f} /\ fl' = [fl EXCEPT ![f] = "begun"]
  BY DEF TakeSlot
<1>2. fl \in [File -> FileStage] /\ fl[f] = "none" /\ "begun" \in FileStage
  BY <1>1 DEF JobInv, JobTypes, RecordedIsThere, FileStage
<1>3. fl' \in [File -> FileStage] /\ fl'[f] = "begun" /\ \A g \in File \ {f} : fl'[g] = fl[g]
  BY <1>1, <1>2
<1>4. JobTypes'
  BY <1>1, <1>3 DEF JobInv, JobTypes
<1>5. AttemptFits'
  BY <1>1, <1>3 DEF JobInv, AttemptFits
<1>6. OneRecords'
  BY <1>1, <1>2, <1>3 DEF JobInv, OneRecords
<1>7. \A g \in File : RecordedIsThere(g)'
  BY <1>1, <1>2, <1>3 DEF JobInv, RecordedIsThere
<1> QED BY <1>1, <1>4, <1>5, <1>6, <1>7 DEF JobInv, CompletesRecorded

LEMMA JoinKeeps ==
  ASSUME JobInv, Join
  PROVE  JobInv' /\ (Outcome = "completed" => row.resolved = File)
<1>1. main = "join" /\ Downloading = {} /\ Finish(Outcome)
  BY DEF Join
<1>2. Outcome \in Outcomes
  BY DEF Outcome, Outcomes
<1>3. ASSUME Outcome = "completed" PROVE row.resolved = File
  <2>1. err = None /\ ~ctx
    BY <1>3 DEF Outcome
  <2>2. todo = {} /\ known \subseteq row.resolved /\ row.resolved \subseteq File
    BY <1>1, <2>1 DEF JobInv, JobTypes, AttemptFits
  <2>3. ASSUME NEW f \in File PROVE f \in row.resolved
    <3>1. fl[f] = "done" \/ f \in known
      BY <1>1, <2>2 DEF JobInv, AttemptFits, Downloading
    <3> QED BY <2>1, <2>2, <3>1 DEF JobInv, RecordedIsThere
  <2> QED BY <2>2, <2>3
<1> QED BY <1>1, <1>2, <1>3, FinishKeeps

-----------------------------------------------------------------------------
(* A file's steps *)

\* A file's goroutine goes on, before it has anything to record.
LEMMA FileGoesOn ==
  ASSUME JobInv, NEW f \in File, NEW stage \in {"body", "done", "record"}, NEW n \in Int,
         fl[f] \in {"begun", "body"}, n \in -1..Size[f],
         fl' = [fl EXCEPT ![f] = stage], disk' = [disk EXCEPT ![f] = n],
         f \in row.resolved \ Losable => n = Size[f],
         stage = "record" => n = Size[f], stage = "done" => err' # None,
         err' \in {None, "failed", "canceled"}, err # None => err' = err,
         ctx' \in BOOLEAN, ctx => ctx',
         UNCHANGED <<row, main, known, todo, read, locked, ops>>
  PROVE  JobInv'
<1>1. main \in {"spawn", "slot", "join"} /\ f \notin todo
  BY DEF JobInv, JobTypes, AttemptFits, RecordedIsThere
<1>2. fl \in [File -> FileStage] /\ stage \in FileStage /\ disk \in [File -> Int]
  BY DEF JobInv, JobTypes, FileStage
<1>3. /\ fl' \in [File -> FileStage] /\ fl'[f] = stage /\ disk' \in [File -> Int] /\ disk'[f] = n
      /\ \A g \in File \ {f} : fl'[g] = fl[g] /\ disk'[g] = disk[g]
  BY <1>2
<1>4. \A g \in File : disk'[g] \in -1..Size[g]
  BY <1>3 DEF JobInv, JobTypes
<1>5. JobTypes'
  BY <1>3, <1>4 DEF JobInv, JobTypes
<1>6. AttemptFits'
  BY <1>1, <1>3 DEF JobInv, AttemptFits
<1>7. OneRecords'
  BY <1>3 DEF JobInv, OneRecords
<1>8. ASSUME NEW g \in File PROVE RecordedIsThere(g)'
  <2>1. CASE g = f
    BY <1>1, <1>3, <2>1 DEF JobInv, RecordedIsThere
  <2>2. CASE g # f
    BY <1>3, <2>2 DEF JobInv, RecordedIsThere
  <2> QED BY <2>1, <2>2
<1> QED BY <1>5, <1>6, <1>7, <1>8 DEF JobInv, CompletesRecorded

\* A file whose goroutine is about to ask for it is not on disk if it is recorded.
LEMMA BegunIsNew ==
  ASSUME JobInv, NEW f \in File, fl[f] = "begun", f \in row.resolved
  PROVE  f \in Losable /\ disk[f] = -1
<1>1. disk[f] = -1 /\ (f \notin Losable => disk[f] = Size[f])
  BY DEF JobInv, RecordedIsThere
<1> QED BY <1>1, SizeFits

LEMMA RespondKeeps ==
  ASSUME JobInv, NEW f \in File, Respond(f)
  PROVE  JobInv'
<1>1. /\ fl[f] = "begun" /\ disk \in [File -> Int] /\ disk[f] \in -1..Size[f] /\ disk[f] \in Int
      /\ Size[f] \in Nat /\ ctx \in BOOLEAN /\ err \in {None, "failed", "canceled"}
  BY SizeFits DEF Respond, JobInv, JobTypes
<1>2. f \notin row.resolved \ Losable
  BY <1>1, BegunIsNew
<1>3. 0 \in -1..Size[f] /\ 0 \in Int
  BY <1>1
<1>4. CASE /\ Whole(f) /\ fl' = [fl EXCEPT ![f] = "body"]
           /\ UNCHANGED <<row, main, ctx, known, todo, err, read, locked, ops>>
  BY <1>1, <1>2, <1>3, <1>4, FileGoesOn DEF Whole
<1>5. CASE /\ fl' = [fl EXCEPT ![f] = "body"]
           /\ UNCHANGED <<row, disk, main, ctx, known, todo, err, read, locked, ops>>
  <2>1. disk' = [disk EXCEPT ![f] = disk[f]]
    BY <1>1, <1>5
  <2> QED BY <1>1, <1>2, <1>5, <2>1, FileGoesOn
<1>6. CASE disk' = [disk EXCEPT ![f] = IF @ = -1 THEN 0 ELSE @] /\ FileFails(f)
  <2> DEFINE n == IF disk[f] = -1 THEN 0 ELSE disk[f]
  <2>1. n \in -1..Size[f] /\ n \in Int /\ disk' = [disk EXCEPT ![f] = n]
    BY <1>1, <1>3, <1>6
  <2>2. err' # None /\ err' \in {None, "failed", "canceled"} /\ (err # None => err' = err)
    BY <1>1, <1>6, JobAssumption DEF FileFails, JobAssumption
  <2> HIDE DEF n
  <2> QED BY <1>1, <1>2, <1>6, <2>1, <2>2, FileGoesOn DEF FileFails
<1> QED BY <1>4, <1>5, <1>6 DEF Respond

LEMMA BodyKeeps ==
  ASSUME JobInv, NEW f \in File, ReadBlock(f) \/ ReadFails(f) \/ BodyEnds(f)
  PROVE  JobInv'
<1>1. /\ fl[f] = "body" /\ disk \in [File -> Int] /\ disk[f] \in -1..Size[f] /\ disk[f] \in Int
      /\ Size[f] \in Nat /\ ctx \in BOOLEAN /\ err \in {None, "failed", "canceled"}
      /\ fl \in [File -> FileStage]
  BY SizeFits DEF ReadBlock, ReadFails, BodyEnds, JobInv, JobTypes
<1>2. f \in row.resolved \ Losable => disk[f] = Size[f]
  BY DEF JobInv, RecordedIsThere
<1>3. CASE ReadBlock(f)
  <2> DEFINE n == disk[f] + 1
  <2>1. n \in -1..Size[f] /\ n \in Int /\ disk[f] # Size[f]
    BY <1>1, <1>3 DEF ReadBlock
  <2>2. disk' = [disk EXCEPT ![f] = n] /\ fl' = [fl EXCEPT ![f] = "body"]
        /\ UNCHANGED <<row, main, ctx, known, todo, err, read, locked, ops>>
    BY <1>1, <1>3 DEF ReadBlock, attempt
  <2> HIDE DEF n
  <2> QED BY <1>1, <1>2, <2>1, <2>2, FileGoesOn
<1>4. CASE ReadFails(f)
  <2>1. disk' = [disk EXCEPT ![f] = disk[f]]
    BY <1>1, <1>4 DEF ReadFails
  <2>2. err' # None /\ err' \in {None, "failed", "canceled"} /\ (err # None => err' = err)
    BY <1>1, <1>4, JobAssumption DEF ReadFails, FileFails, JobAssumption
  <2> QED BY <1>1, <1>2, <1>4, <2>1, <2>2, FileGoesOn DEF ReadFails, FileFails
<1>5. CASE BodyEnds(f)
  <2>1. disk' = [disk EXCEPT ![f] = disk[f]]
    BY <1>1, <1>5 DEF BodyEnds
  <2> QED BY <1>1, <1>2, <1>5, <2>1, FileGoesOn DEF BodyEnds
<1> QED BY <1>3, <1>4, <1>5

LEMMA RecordReadKeeps ==
  ASSUME JobInv, NEW f \in File, RecordRead(f)
  PROVE  JobInv'
<1>1. /\ UNCHANGED <<row, disk, main, ctx, known, todo, err, ops>> /\ fl[f] = "record"
      /\ locked = None /\ locked' = f /\ read' = row.resolved /\ fl' = [fl EXCEPT ![f] = "recording"]
  BY DEF RecordRead
<1>2. fl \in [File -> FileStage] /\ "recording" \in FileStage /\ None \notin File
      /\ main \in {"spawn", "slot", "join"}
  BY <1>1, JobAssumption DEF JobInv, JobTypes, FileStage, JobAssumption, AttemptFits
<1>3. fl' \in [File -> FileStage] /\ fl'[f] = "recording" /\ \A g \in File \ {f} : fl'[g] = fl[g]
  BY <1>1, <1>2
<1>4. JobTypes'
  BY <1>1, <1>3 DEF JobInv, JobTypes
<1>5. AttemptFits'
  BY <1>1, <1>2, <1>3 DEF JobInv, AttemptFits
<1>6. OneRecords'
  BY <1>1, <1>2, <1>3 DEF JobInv, OneRecords
<1>7. \A g \in File : RecordedIsThere(g)'
  BY <1>1, <1>3 DEF JobInv, RecordedIsThere
<1> QED BY <1>1, <1>4, <1>5, <1>6, <1>7 DEF JobInv, CompletesRecorded

LEMMA RecordWriteKeeps ==
  ASSUME JobInv, NEW f \in File, RecordWrite(f)
  PROVE  JobInv'
<1>1. /\ UNCHANGED <<disk, main, ctx, known, todo, err, ops>> /\ fl[f] = "recording"
      /\ locked' = None /\ read' = {} /\ fl' = [fl EXCEPT ![f] = "done"]
      /\ row' = [row EXCEPT !.resolved = read \cup {f}]
  BY DEF RecordWrite
<1>2. fl \in [File -> FileStage] /\ "done" \in FileStage /\ None \notin File
      /\ main \in {"spawn", "slot", "join"} /\ row.st = "active" /\ f \notin todo
  BY <1>1, JobAssumption DEF JobInv, JobTypes, FileStage, JobAssumption, AttemptFits, RecordedIsThere
<1>3. locked = f /\ read = row.resolved
  BY <1>1, <1>2 DEF JobInv, OneRecords
<1>4. row' \in [st : {"active", "paused", "failed", "completed"}, resolved : SUBSET File]
      /\ row'.st = "active" /\ row'.resolved = row.resolved \cup {f}
  BY <1>1, <1>2, <1>3 DEF JobInv, JobTypes
<1>5. fl' \in [File -> FileStage] /\ fl'[f] = "done" /\ \A g \in File \ {f} : fl'[g] = fl[g]
  BY <1>1, <1>2
<1>6. JobTypes'
  BY <1>1, <1>4, <1>5 DEF JobInv, JobTypes
<1>7. AttemptFits'
  BY <1>1, <1>2, <1>4, <1>5 DEF JobInv, AttemptFits
<1>8. OneRecords'
  BY <1>1, <1>2, <1>3, <1>5 DEF JobInv, OneRecords
<1>9. ASSUME NEW g \in File PROVE RecordedIsThere(g)'
  <2>1. CASE g = f
    BY <1>1, <1>2, <1>4, <1>5, <2>1 DEF JobInv, RecordedIsThere
  <2>2. CASE g # f
    BY <1>1, <1>4, <1>5, <2>2 DEF JobInv, RecordedIsThere
  <2> QED BY <2>1, <2>2
<1> QED BY <1>4, <1>6, <1>7, <1>8, <1>9 DEF JobInv, CompletesRecorded

-----------------------------------------------------------------------------

LEMMA JobNextKeeps == JobInv /\ [Next]_vars => JobInv'
<1> SUFFICES ASSUME JobInv, [Next]_vars PROVE JobInv'
  OBVIOUS
<1>1. CASE UNCHANGED vars
  <2>1. UNCHANGED <<queue, active, files, firstErr, wctx, at, row, disk, main, ctx, known, todo,
                    fl, err, read, locked, ops>>
    BY <1>1 DEF vars, walkVars, attempt
  <2>2. UNCHANGED <<WalkInv, Over>>
    BY <2>1 DEF WalkInv, WalkTypes, Listing, Over, Covered, Underway
  <2> QED BY <2>1, <2>2 DEF JobInv, JobTypes, AttemptFits, OneRecords, RecordedIsThere,
                            CompletesRecorded
<1>2. CASE StatFails
  BY <1>2, FinishKeeps DEF StatFails, Outcomes
<1>3. CASE WalkFails
  BY <1>3, FinishKeeps DEF WalkFails, Failed, Outcomes
<1>4. CASE MainStep
  BY <1>2, <1>3, <1>4, StatKeeps, WalkDoneKeeps, SpawnKeeps, JoinKeeps, TakeSlotKeeps DEF MainStep
<1>5. ASSUME NEW f \in File, FileStep(f) PROVE JobInv'
  BY <1>5, RespondKeeps, BodyKeeps, RecordReadKeeps, RecordWriteKeeps DEF FileStep
<1> QED BY <1>1, <1>4, <1>5, WalkKeeps, PauseKeeps, RequestsKeep, LostKeeps DEF Next, Proceed

\* Every state has JobInv.
THEOREM JobInvHolds == Spec => []JobInv
<1> QED BY JobInitFits, JobNextKeeps, PTL DEF Spec

\* A walk that ends without an error has found every file below the root, whatever the tree
\* and however many workers; the error it ends with is one that happened of itself (Walk).
THEOREM WalkIsSoundHolds == Spec => []WalkIsSound
<1>1. JobInv => WalkIsSound
  <2> SUFFICES ASSUME JobInv, Walked, main = "walk"
               PROVE  /\ firstErr = None /\ ~ctx => files = File
                      /\ firstErr # None => firstErr \in Fragile
    BY DEF WalkIsSound
  <2>1. WalkInv /\ (wctx => ctx \/ firstErr # None)
    BY DEF JobInv, AttemptFits
  <2>2. firstErr = None /\ ~ctx => ~Over
    BY <2>1 DEF Over
  <2>3. firstErr # None => firstErr \in Fragile
    BY <2>1 DEF WalkInv, WalkTypes
  <2> QED BY <2>1, <2>2, <2>3, WalkedFindsAll
<1> QED BY <1>1, JobInvHolds, PTL

\* A job that is reported complete has every file in resolved_paths: no two files that end
\* together lose a record (AppendResolvedPath under resolvedMu).
THEOREM CompletesRecordedHolds == Spec => []CompletesRecorded
<1>1. JobInv => CompletesRecorded
  BY DEF JobInv
<1> QED BY <1>1, JobInvHolds, PTL

\* When a job is reported complete, every file that nobody deletes is whole on disk.
THEOREM CompletesWithEveryFileHolds == Spec => CompletesWithEveryFile
<1> DEFINE IsWhole == row'.st = "completed" /\ row.st # "completed" =>
                       \A f \in File \ Losable : disk'[f] = Size[f]
<1>1. JobInv /\ [Next]_vars => [IsWhole]_vars
  <2> SUFFICES ASSUME JobInv, Next, row'.st = "completed", row.st # "completed",
                      NEW f \in File \ Losable
               PROVE  disk'[f] = Size[f]
    OBVIOUS
  <2>1. JobInv'
    BY JobNextKeeps
  <2>2. f \in row'.resolved
    BY <2>1 DEF JobInv, CompletesRecorded
  <2> QED BY <2>1, <2>2 DEF JobInv, RecordedIsThere
<1>2. CompletesWithEveryFile <=> [][IsWhole]_vars
  BY DEF CompletesWithEveryFile
<1> QED BY <1>1, <1>2, JobInvHolds, PTL DEF Spec

\* A recorded file that is whole stays whole until it is lost or a retry begins the job
\* afresh: no later attempt truncates it (pendingWebDAVFiles).
THEOREM RecordedStaysHolds == Spec => RecordedStays
<1> DEFINE Stay == \A f \in row.resolved :
                     disk[f] = Size[f] => disk'[f] = Size[f] \/ ops' # ops
<1>1. JobInv /\ [Next]_vars => [Stay]_vars
  <2> SUFFICES ASSUME JobInv, Next, NEW f \in row.resolved, disk[f] = Size[f]
               PROVE  disk'[f] = Size[f] \/ ops' # ops
    OBVIOUS
  <2>1. f \in File /\ ops \in Nat /\ disk \in [File -> Int] /\ fl[f] # "begun"
    BY BegunIsNew, SizeFits DEF JobInv, JobTypes
  <2>2. CASE disk' = disk
    BY <2>2
  <2>3. ASSUME NEW g \in File, Respond(g) \/ ReadBlock(g) PROVE disk'[f] = Size[f]
    <3>1. g # f
      BY <2>1, <2>3, SizeFits DEF Respond, ReadBlock
    <3> QED BY <2>1, <2>3, <3>1 DEF Respond, ReadBlock, Whole
  <2>4. CASE Retry \/ \E g \in File : Lost(g)
    BY <2>1, <2>4 DEF Retry, Lost
  <2>5. CASE MainStep
    BY <2>2, <2>5 DEF MainStep, StatFails, Stat, WalkFails, WalkDone, Spawn, Join, TakeSlot, Finish
  <2>6. ASSUME NEW g \in File, FileStep(g) PROVE disk' = disk \/ Respond(g) \/ ReadBlock(g)
    BY <2>6 DEF FileStep, ReadFails, BodyEnds, RecordRead, RecordWrite
  <2>7. CASE Walk \/ Pause \/ Resume \/ Kill
    BY <2>2, <2>7 DEF Walk, Pause, Resume, Kill
  <2> QED BY <2>2, <2>3, <2>4, <2>5, <2>6, <2>7 DEF Next, Proceed
<1>2. RecordedStays <=> [][Stay]_vars
  BY DEF RecordedStays
<1> QED BY <1>1, <1>2, JobInvHolds, PTL DEF Spec
=============================================================================
