---------------------------- MODULE SnapshotFeed ----------------------------
(***************************************************************************)
(* The job list as a dashboard gets it: SubscribeRetrying of               *)
(* internal/daemon/client.go holds a connection to the daemon, which sends *)
(* the list twice a second when it has changed (streamSnapshots of         *)
(* dispatch.go), and dials again when it drops.                            *)
(***************************************************************************)
EXTENDS Naturals, Sequences

CONSTANTS
  MaxChanges,  \* bound: changes of the job list
  MaxBoots,    \* bound: restarts of the daemon
  MaxReadFails \* bound: reads of the list that fail

VARIABLES
  list,      \* the job list, as a version
  serving,   \* is the daemon up?
  boots, readFails,
  stream,    \* the daemon's end: is it streaming, and lastSent
  pipe,      \* the connection: snapshots on their way, and whether it is broken
  board,     \* the client: dialling, reading or backing off
  shown      \* what the dashboard shows

boardVars == <<list, serving, boots, readFails, stream, pipe, board, shown>>

\* The list that snapshot() gives when the store cannot be read: no jobs at all.
Unread == 0
Nothing == MaxChanges + 2

BoardTypeOK ==
  /\ list \in 1..(MaxChanges + 1)
  /\ stream.on \in BOOLEAN /\ stream.last \in 0..Nothing
  /\ pipe.broken \in BOOLEAN
  /\ board \in {"closed", "dial", "read", "backoff"} /\ shown \in 0..Nothing

Snapshots == IF readFails < MaxReadFails THEN {list, Unread} ELSE {list}

Reading(v) == readFails' = IF v = Unread THEN readFails + 1 ELSE readFails

ListChanges ==
  /\ list <= MaxChanges /\ list' = list + 1
  /\ UNCHANGED <<serving, boots, readFails, stream, pipe, board, shown>>

NoStream == [on |-> FALSE, last |-> Nothing]

OpenBoard ==
  /\ board = "closed" /\ board' = "dial"
  /\ UNCHANGED <<list, serving, boots, readFails, stream, pipe, shown>>

\* Mutant: a new connection counts as having got the list of the moment.
DialKnowing ==
  /\ board = "dial" /\ serving
  /\ board' = "read" /\ pipe' = [sent |-> <<>>, broken |-> FALSE] /\ stream' = [on |-> TRUE, last |-> list]
  /\ UNCHANGED <<list, serving, boots, readFails, shown>>

\* subscribeOnce: a connection of its own, on which nothing has been sent.
Dial ==
  /\ board = "dial" /\ serving
  /\ board' = "read" /\ pipe' = [sent |-> <<>>, broken |-> FALSE] /\ stream' = [on |-> TRUE, last |-> Nothing]
  /\ UNCHANGED <<list, serving, boots, readFails, shown>>

\* streamSnapshots, at once and at every tick: the list, if it is not what went last.
SendSnapshot ==
  /\ stream.on /\ Len(pipe.sent) < 2
  /\ \E v \in Snapshots :
       /\ v # stream.last /\ Reading(v)
       /\ stream' = [stream EXCEPT !.last = v]
       /\ pipe' = [pipe EXCEPT !.sent = Append(@, v)]
  /\ UNCHANGED <<list, serving, boots, board, shown>>

ShowSnapshot ==
  /\ board = "read" /\ pipe.sent # <<>>
  /\ shown' = Head(pipe.sent) /\ pipe' = [pipe EXCEPT !.sent = Tail(@)]
  /\ UNCHANGED <<list, serving, boots, readFails, stream, board>>

ReadEnds ==
  /\ board = "read" /\ pipe.broken
  /\ board' = "backoff"
  /\ UNCHANGED <<list, serving, boots, readFails, stream, pipe, shown>>

BackoffOver ==
  /\ board = "backoff" /\ board' = "dial"
  /\ UNCHANGED <<list, serving, boots, readFails, stream, pipe, shown>>

DialFails ==
  /\ board = "dial" /\ ~serving
  /\ board' = "backoff"
  /\ UNCHANGED <<list, serving, boots, readFails, stream, pipe, shown>>

\* The daemon dies: connections break, what was on its way may or may not be read.
DaemonDies ==
  /\ serving /\ boots < MaxBoots
  /\ serving' = FALSE /\ stream' = NoStream
  /\ pipe' \in {[pipe EXCEPT !.broken = TRUE], [sent |-> <<>>, broken |-> TRUE]}
  /\ UNCHANGED <<list, boots, readFails, board, shown>>

DaemonBoots ==
  /\ ~serving
  /\ serving' = TRUE /\ boots' = boots + 1
  /\ UNCHANGED <<list, readFails, stream, pipe, board, shown>>

BoardInit ==
  /\ list = 1 /\ serving = TRUE /\ boots = 0 /\ readFails = 0
  /\ stream = NoStream /\ pipe = [sent |-> <<>>, broken |-> FALSE] /\ board = "closed" /\ shown = Nothing

BoardNext ==
  \/ ListChanges \/ DaemonDies \/ DaemonBoots \/ OpenBoard
  \/ Dial \/ DialFails \/ SendSnapshot \/ ShowSnapshot \/ ReadEnds \/ BackoffOver

\* Timers fire, connections deliver, and somebody starts the daemon again.
BoardFairness ==
  /\ WF_boardVars(DaemonBoots) /\ WF_boardVars(Dial) /\ WF_boardVars(DialFails)
  /\ WF_boardVars(SendSnapshot) /\ WF_boardVars(ShowSnapshot)
  /\ WF_boardVars(ReadEnds) /\ WF_boardVars(BackoffOver)

BoardSpec == BoardInit /\ [][BoardNext]_boardVars /\ BoardFairness

-----------------------------------------------------------------------------
(* Properties *)

\* A dashboard that is open ends up showing the list as it is, whatever restarts of
\* the daemon and failed reads there have been: every connection gets the list of
\* the moment first (streamSnapshots), and a dropped one is dialled again.
BoardCatchesUp == <>[](board = "closed" \/ shown = list)

=============================================================================
