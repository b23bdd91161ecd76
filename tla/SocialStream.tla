---------------------------- MODULE SocialStream ----------------------------
(***************************************************************************)
(* A social job and the client that watches it (internal/daemon:           *)
(* start_social.go, the log subscriptions of dispatch.go, StreamSocial of  *)
(* client.go): the worker publishes yt-dlp's lines to every subscribed     *)
(* channel, a full channel drops them, and the connection's goroutine      *)
(* pumps those of its job to the client until the last one says done.      *)
(***************************************************************************)
EXTENDS Naturals, Sequences

CONSTANTS
  ChanCap,    \* capacity of a subscriber's channel
  MaxLines,   \* bound: lines a run of yt-dlp prints
  MaxOthers,  \* bound: messages of other jobs
  MaxSocOps   \* bound: pauses, resumes and removals

VARIABLES
  handler,   \* the connection's goroutine in dispatch
  chan,      \* its channel, a sequence of messages
  dropped,   \* history: has publishLog dropped a message it could not take?
  soc,       \* the job's row: status, and the output files recorded in it
  ytdlp,     \* the worker: where it is, the lines left, was it cancelled?
  ran,       \* history: has a worker run since the job was added?
  disk,      \* is the output file there?
  said,      \* history: the job's messages since it was added, in order
  wire,      \* what the daemon has written to the connection
  viewer,    \* the client: waiting for the job, streaming, or gone
  seen,      \* the messages the client has read
  others, socOps

socVars == <<handler, chan, dropped, soc, ytdlp, ran, disk, said, wire, viewer, seen, others, socOps>>

Line == "line"
Done == "done"
Other == "other"

NoWorker == [pc |-> "off", lines |-> 0, cancelled |-> FALSE]

SocTypeOK ==
  /\ handler \in {"none", "subscribed", "pump", "off"}
  /\ Len(chan) <= ChanCap
  /\ soc.st \in {"absent", "queued", "active", "paused", "failed", "completed"} /\ soc.file \in BOOLEAN
  /\ ytdlp.pc \in {"off", "ensure", "run", "check"}
  /\ viewer \in {"none", "waiting", "streaming", "gone"}

-----------------------------------------------------------------------------
(* Publishing *)

Subscribed == handler \in {"subscribed", "pump"}

\* publishLog: a channel that is full does not get the message.
Publish(msg) ==
  IF ~Subscribed THEN UNCHANGED <<chan, dropped>>
  ELSE IF Len(chan) < ChanCap THEN chan' = Append(chan, msg) /\ UNCHANGED dropped
  ELSE dropped' = TRUE /\ UNCHANGED chan

Says(msg) == Publish(msg) /\ said' = Append(said, msg)

\* Messages of other jobs go to every channel too.
OtherJobSays ==
  /\ Subscribed /\ others < MaxOthers /\ others' = others + 1
  /\ Publish(Other)
  /\ UNCHANGED <<handler, soc, ytdlp, ran, disk, said, wire, viewer, seen, socOps>>

-----------------------------------------------------------------------------
(* The connection *)

AddSocial ==
  /\ viewer = "none" /\ handler = "none"
  /\ viewer' = "waiting" /\ handler' = "subscribed"
  /\ UNCHANGED <<chan, dropped, soc, ytdlp, ran, disk, said, wire, seen, others, socOps>>

StartRun ==
  /\ ytdlp' = [pc |-> "ensure", lines |-> MaxLines, cancelled |-> FALSE]
  /\ ran' = TRUE

\* Mutant: the log is subscribed to only once the job has been started.
StartThenSubscribe ==
  /\ handler = "subscribed" /\ soc.st = "absent" /\ viewer # "gone"
  /\ soc' = [soc EXCEPT !.st = "active"] /\ StartRun
  /\ wire' = <<"job">>
  /\ handler' = "late"
  /\ UNCHANGED <<chan, dropped, disk, said, viewer, seen, others, socOps>>

SubscribeLate ==
  /\ handler = "late" /\ handler' = "pump"
  /\ UNCHANGED <<chan, dropped, soc, ytdlp, ran, disk, said, wire, viewer, seen, others, socOps>>

AddLate == StartThenSubscribe \/ SubscribeLate

\* do(add_social): the job is created and started, or left to the queue, and the
\* answer written before the pump begins; or it is refused.
Add ==
  /\ handler = "subscribed"
  /\ \/ /\ handler' = "pump"
        /\ \/ soc' = [soc EXCEPT !.st = "active"] /\ StartRun
           \/ soc' = [soc EXCEPT !.st = "queued"] /\ UNCHANGED <<ytdlp, ran>>
        /\ wire' = <<"job">>
     \/ handler' = "off" /\ wire' = <<"error">> /\ UNCHANGED <<soc, ytdlp, ran>>
  /\ UNCHANGED <<chan, dropped, disk, said, viewer, seen, others, socOps>>

\* pumpLogs: one message, written if it is this job's and the client is there.
Pump ==
  /\ handler = "pump" /\ chan # <<>>
  /\ chan' = Tail(chan)
  /\ \/ Head(chan) = Other /\ UNCHANGED <<handler, wire>>
     \/ Head(chan) # Other /\ viewer = "gone" /\ handler' = "off" /\ UNCHANGED wire
     \/ /\ Head(chan) # Other /\ viewer # "gone"
        /\ wire' = Append(wire, Head(chan))
        /\ handler' = IF Head(chan) = Done THEN "off" ELSE handler
  /\ UNCHANGED <<dropped, soc, ytdlp, ran, disk, said, viewer, seen, others, socOps>>

\* StreamSocial: the job, then its lines until done.
Receive ==
  /\ viewer \in {"waiting", "streaming"} /\ wire # <<>>
  /\ wire' = Tail(wire)
  /\ seen' = IF Head(wire) \in {Line, Done} THEN Append(seen, Head(wire)) ELSE seen
  /\ viewer' = IF Head(wire) \in {"error", Done} THEN "gone" ELSE "streaming"
  /\ UNCHANGED <<handler, chan, dropped, soc, ytdlp, ran, disk, said, others, socOps>>

\* Ctrl-C closes the connection; the job goes on.
Interrupt ==
  /\ viewer \in {"waiting", "streaming"}
  /\ viewer' = "gone"
  /\ UNCHANGED <<handler, chan, dropped, soc, ytdlp, ran, disk, said, wire, seen, others, socOps>>

-----------------------------------------------------------------------------
(* The worker *)

\* publishLog of the last message, then finishJob, then the end of the worker.
EndRun(outcome) ==
  /\ Says(Done)
  /\ soc' = [soc EXCEPT !.st = outcome]
  /\ ytdlp' = NoWorker

\* ytdlp.Ensure: the binary is there, or the attempt ends.
EnsureYtDlp ==
  /\ ytdlp.pc = "ensure"
  /\ \/ ytdlp' = [ytdlp EXCEPT !.pc = "run"] /\ UNCHANGED <<chan, dropped, said, soc>>
     \/ EndRun(IF ytdlp.cancelled THEN "paused" ELSE "failed")
  /\ UNCHANGED <<handler, ran, disk, wire, viewer, seen, others, socOps>>

\* A line for the log, or the path of an output file, which is recorded instead.
PrintLine ==
  /\ ytdlp.pc = "run" /\ ytdlp.lines > 0
  /\ ytdlp' = [ytdlp EXCEPT !.lines = @ - 1]
  /\ \/ Says(Line) /\ UNCHANGED <<soc, disk>>
     \/ /\ soc' = [soc EXCEPT !.file = TRUE]
        /\ disk' \in {disk, TRUE}
        /\ UNCHANGED <<chan, dropped, said>>
  /\ UNCHANGED <<handler, ran, wire, viewer, seen, others, socOps>>

\* cmd.Run returns: killed through the context, with an error, or with success.
ProcessExits ==
  /\ ytdlp.pc = "run"
  /\ \/ /\ ytdlp.cancelled
        /\ EndRun("paused")
     \/ /\ ~ytdlp.cancelled
        /\ EndRun("failed")
     \/ ytdlp' = [ytdlp EXCEPT !.pc = "check"] /\ UNCHANGED <<chan, dropped, said, soc>>
  /\ UNCHANGED <<handler, ran, disk, wire, viewer, seen, others, socOps>>

\* socialOutputSize: one of the recorded files must be there.
CheckOutput ==
  /\ ytdlp.pc = "check"
  /\ EndRun(IF soc.file /\ disk THEN "completed" ELSE "failed")
  /\ UNCHANGED <<handler, ran, disk, wire, viewer, seen, others, socOps>>

-----------------------------------------------------------------------------
(* Requests of other clients *)

Op == socOps < MaxSocOps /\ socOps' = socOps + 1

CancelRun == ytdlp.pc # "off" /\ ~ytdlp.cancelled /\ ytdlp' = [ytdlp EXCEPT !.cancelled = TRUE]

\* A queued job that is paused never says anything.
PauseSocial ==
  /\ Op
  /\ \/ soc.st = "active" /\ CancelRun /\ UNCHANGED soc
     \/ soc.st = "queued" /\ soc' = [soc EXCEPT !.st = "paused"] /\ UNCHANGED ytdlp
  /\ UNCHANGED <<handler, chan, dropped, ran, disk, said, wire, viewer, seen, others>>

ResumeSocial ==
  /\ Op /\ soc.st \in {"paused", "failed"} /\ ytdlp.pc = "off"
  /\ soc' = [soc EXCEPT !.st = "active"] /\ StartRun
  /\ UNCHANGED <<handler, chan, dropped, disk, said, wire, viewer, seen, others>>

\* The queue reaches the job.
StartQueued ==
  /\ soc.st = "queued"
  /\ soc' = [soc EXCEPT !.st = "active"] /\ StartRun
  /\ UNCHANGED <<handler, chan, dropped, disk, said, wire, viewer, seen, others, socOps>>

Connection == Add \/ Pump \/ Receive
Worker == EnsureYtDlp \/ PrintLine \/ ProcessExits \/ CheckOutput

SocInit ==
  /\ handler = "none" /\ chan = <<>> /\ dropped = FALSE
  /\ soc = [st |-> "absent", file |-> FALSE] /\ ytdlp = NoWorker /\ ran = FALSE /\ disk = FALSE
  /\ said = <<>> /\ wire = <<>> /\ viewer = "none" /\ seen = <<>> /\ others = 0 /\ socOps = 0

SocNext ==
  \/ AddSocial \/ Connection \/ Interrupt \/ OtherJobSays \/ Worker
  \/ PauseSocial \/ ResumeSocial \/ StartQueued

\* Both ends of a connection and a worker go on; yt-dlp ends; the queue moves.
SocFairness ==
  /\ WF_socVars(Add) /\ WF_socVars(Pump) /\ WF_socVars(Receive)
  /\ WF_socVars(Worker) /\ WF_socVars(StartQueued)

SocSpec == SocInit /\ [][SocNext]_socVars /\ SocFairness

-----------------------------------------------------------------------------
(* Properties *)

FirstRun(s) ==
  IF \E i \in 1..Len(s) : s[i] = Done
  THEN SubSeq(s, 1, CHOOSE i \in 1..Len(s) : s[i] = Done /\ \A k \in 1..(i - 1) : s[k] # Done)
  ELSE s

\* A client that has been told the run is over has seen every line of it, in order,
\* unless its channel was full at some point: the subscription is there before the
\* job starts, other jobs' lines are left out and the last message comes last.
StreamIsWhole ==
  (~dropped /\ seen # <<>> /\ seen[Len(seen)] = Done) => seen = FirstRun(said)

\* A stream ends, unless a message was dropped (the last one may be among them) or
\* the job was taken out of the queue before it ever ran.
StreamEnds ==
  (handler = "pump") ~> (handler = "off" \/ dropped \/ (~ran /\ soc.st # "queued") \/ viewer = "gone")

=============================================================================
