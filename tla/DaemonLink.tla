----------------------------- MODULE DaemonLink -----------------------------
(***************************************************************************)
(* Starting, replacing and stopping the daemon (internal/daemon:           *)
(* EnsureRunning, stopDaemon, Stop and Restart of client.go; Serve,        *)
(* stopServing and Close of server.go).                                    *)
(*                                                                         *)
(* Nothing but the socket says that a daemon is running.  Its path is a    *)
(* name in a directory: a daemon removes whatever is there before it binds *)
(* its own, and again, twice, when it goes, whoever's socket that is by    *)
(* then.  A daemon whose socket has lost its name runs on unreachable.     *)
(***************************************************************************)
EXTENDS Naturals

CONSTANTS
  Daemon,        \* processes
  LinkClient,    \* commands that start, replace or stop the daemon
  NoSock,
  ClientVersion, \* the version of the commands, and of the daemons they start
  OldVersions,   \* versions of the daemon that is there at the beginning; 0 for one
                 \* too old to report any
  PingTimesOut,  \* may a daemon be too busy to answer a ping in time?
  MaxCmds,       \* bound: commands given
  MaxDaemonDeaths

LinkAssumption ==
  /\ ClientVersion \in Nat \ {0} /\ OldVersions \subseteq Nat
  /\ NoSock \notin Daemon /\ PingTimesOut \in BOOLEAN /\ MaxDaemonDeaths \in Nat /\ MaxCmds \in Nat
ASSUME LinkAssumption

VARIABLES
  sock,     \* whose socket the path names
  daemon,   \* per process: its phase, its version, has it been asked to stop?
  cmd,      \* per command: what it is for, where it is, the version it found
  cmds, deaths

linkVars == <<sock, daemon, cmd, cmds, deaths>>

Off == [phase |-> "off", ver |-> 0, stopping |-> FALSE]
NoCmd == [op |-> "none", pc |-> "idle", ver |-> 0]

LinkTypeOK ==
  /\ sock \in Daemon \cup {NoSock}
  /\ daemon \in [Daemon -> [phase : {"off", "starting", "bare", "listening", "closed", "closing"},
                            ver : 0..5, stopping : BOOLEAN]]
  /\ cmd \in [LinkClient -> [op : {"none", "ensure", "stop", "restart"},
                             pc : {"idle", "ping", "ask", "quiet", "spawn", "await", "ok", "failed"}, ver : 0..5]]

-----------------------------------------------------------------------------
(* What a command sees *)

Listening == {d \in Daemon : sock = d /\ daemon[d].phase = "listening"}

Answers(ok) == IF ok THEN Listening # {} ELSE Listening = {} \/ PingTimesOut

\* olderVersion, with 0 for "".
Older(ver) == ver < ClientVersion

Go(c, pc) == cmd' = [cmd EXCEPT ![c].pc = pc]

-----------------------------------------------------------------------------
(* Commands *)

Call(c, op) ==
  /\ cmds < MaxCmds /\ cmds' = cmds + 1
  /\ cmd[c].pc = "idle" /\ cmd' = [cmd EXCEPT ![c] = [op |-> op, pc |-> "ping", ver |-> 0]]
  /\ UNCHANGED <<sock, daemon, deaths>>

\* EnsureRunning, Stop and Restart begin with a ping.
Found(c) ==
  /\ cmd[c].pc = "ping" /\ Answers(TRUE)
  /\ \E d \in Listening :
       LET ver == daemon[d].ver IN
       cmd' = [cmd EXCEPT ![c].ver = ver,
                          ![c].pc = IF cmd[c].op = "ensure" /\ ~Older(ver) THEN "ok" ELSE "ask"]
  /\ UNCHANGED <<sock, daemon, cmds, deaths>>

\* Where a command goes on when no daemon answers any more; Restart then is an
\* EnsureRunning, with a ping of its own.
Onward(c) ==
  CASE cmd[c].op = "ensure"  -> [cmd[c] EXCEPT !.pc = "spawn"]
    [] cmd[c].op = "stop"    -> [cmd[c] EXCEPT !.pc = "ok"]
    [] cmd[c].op = "restart" -> [cmd[c] EXCEPT !.pc = "ping", !.op = "ensure"]

FoundNone(c) ==
  /\ cmd[c].pc = "ping" /\ Answers(FALSE)
  /\ cmd' = [cmd EXCEPT ![c] = Onward(c)]
  /\ UNCHANGED <<sock, daemon, cmds, deaths>>

\* stopDaemon: shutdown goes to whoever listens by now; it answers before it acts.
AskShutdown(c) ==
  /\ cmd[c].pc = "ask" /\ cmd[c].ver # 0
  /\ \E d \in Listening : daemon' = [daemon EXCEPT ![d].stopping = TRUE]
  /\ Go(c, "quiet")
  /\ UNCHANGED <<sock, cmds, deaths>>

\* A daemon that does not know shutdown gets a signal.
Terminate(c) ==
  /\ cmd[c].pc = "ask" /\ cmd[c].ver = 0
  /\ \E d \in Listening : daemon' = [daemon EXCEPT ![d] = Off]
  /\ Go(c, "quiet")
  /\ UNCHANGED <<sock, cmds, deaths>>

\* Neither reached it.
NobodyThere(c) ==
  /\ cmd[c].pc = "ask" /\ Listening = {}
  /\ Go(c, "failed")
  /\ UNCHANGED <<sock, daemon, cmds, deaths>>

\* Mutant: the answer to shutdown is taken for its end.
QuietAtOnce(c) ==
  /\ cmd[c].pc = "quiet"
  /\ cmd' = [cmd EXCEPT ![c] = Onward(c)]
  /\ UNCHANGED <<sock, daemon, cmds, deaths>>

\* The wait for it to be gone: until a ping gets no answer.
Quiet(c) ==
  /\ cmd[c].pc = "quiet" /\ Answers(FALSE)
  /\ cmd' = [cmd EXCEPT ![c] = Onward(c)]
  /\ UNCHANGED <<sock, daemon, cmds, deaths>>

Spawn(c) ==
  /\ cmd[c].pc = "spawn"
  /\ \E d \in Daemon :
       /\ daemon[d].phase = "off" /\ sock # d
       /\ daemon' = [daemon EXCEPT ![d] = [phase |-> "starting", ver |-> ClientVersion, stopping |-> FALSE]]
  /\ Go(c, "await")
  /\ UNCHANGED <<sock, cmds, deaths>>

\* Any answer will do, whatever its version.
Await(c) ==
  /\ cmd[c].pc = "await" /\ Answers(TRUE)
  /\ \E d \in Listening : cmd' = [cmd EXCEPT ![c].pc = "ok", ![c].ver = daemon[d].ver]
  /\ UNCHANGED <<sock, daemon, cmds, deaths>>

\* Ten seconds for the old daemon to stop, five for the new one to answer.
GivesUp(c) ==
  /\ cmd[c].pc \in {"quiet", "await"} /\ Go(c, "failed")
  /\ UNCHANGED <<sock, daemon, cmds, deaths>>

Return(c) ==
  /\ cmd[c].pc \in {"ok", "failed"} /\ cmd' = [cmd EXCEPT ![c] = NoCmd]
  /\ UNCHANGED <<sock, daemon, cmds, deaths>>

-----------------------------------------------------------------------------
(* The daemon *)

Phase(d, from, to) == daemon[d].phase = from /\ daemon' = [daemon EXCEPT ![d].phase = to]

\* Serve: the name goes, whoever's it is; then a listener is bound to it, unless
\* another daemon has been faster.
RemoveStale(d) ==
  /\ Phase(d, "starting", "bare") /\ sock' = NoSock
  /\ UNCHANGED <<cmd, cmds, deaths>>

Bind(d) ==
  /\ \/ sock = NoSock /\ Phase(d, "bare", "listening") /\ sock' = d
     \/ sock # NoSock /\ Phase(d, "bare", "off") /\ UNCHANGED sock
  /\ UNCHANGED <<cmd, cmds, deaths>>

\* stopServing: closing the listener unlinks its path.
StopServing(d) ==
  /\ daemon[d].stopping
  /\ Phase(d, "listening", "closed") /\ sock' = NoSock
  /\ UNCHANGED <<cmd, cmds, deaths>>

\* Serve's deferred removal, after which Close ends what still runs.
ServeReturns(d) ==
  /\ Phase(d, "closed", "closing") /\ sock' = NoSock
  /\ UNCHANGED <<cmd, cmds, deaths>>

DaemonExits(d) ==
  /\ Phase(d, "closing", "off")
  /\ UNCHANGED <<sock, cmd, cmds, deaths>>

\* The name stays when the process is killed.
DaemonKilled(d) ==
  /\ daemon[d].phase # "off" /\ deaths < MaxDaemonDeaths /\ deaths' = deaths + 1
  /\ daemon' = [daemon EXCEPT ![d] = Off]
  /\ UNCHANGED <<sock, cmd, cmds>>

\* Nothing runs, or a daemon of some version listens.
LinkInit ==
  /\ cmd = [c \in LinkClient |-> NoCmd] /\ cmds = 0 /\ deaths = 0
  /\ \/ sock = NoSock /\ daemon = [d \in Daemon |-> Off]
     \/ \E old \in Daemon, ver \in OldVersions :
          /\ sock = old
          /\ daemon = [d \in Daemon |->
                         IF d = old THEN [phase |-> "listening", ver |-> ver, stopping |-> FALSE] ELSE Off]

Command(c) ==
  \/ Found(c) \/ FoundNone(c) \/ AskShutdown(c) \/ Terminate(c) \/ NobodyThere(c) \/ Quiet(c)
  \/ Spawn(c) \/ Await(c) \/ GivesUp(c) \/ Return(c)

DaemonStep(d) == RemoveStale(d) \/ Bind(d) \/ StopServing(d) \/ ServeReturns(d) \/ DaemonExits(d)

LinkNext ==
  \/ \E c \in LinkClient : Command(c) \/ \E op \in {"ensure", "stop", "restart"} : Call(c, op)
  \/ \E d \in Daemon : DaemonStep(d) \/ DaemonKilled(d)

LinkSpec == LinkInit /\ [][LinkNext]_linkVars

-----------------------------------------------------------------------------
(* Properties *)

\* A command that goes on after EnsureRunning has been answered by a daemon that is
\* not older than itself, although the wait for the new daemon takes any answer:
\* the old one was waited for until it no longer answered, and nobody brings it
\* back.  For commands of one version, and pings that are answered in time.
EnsuredIsCurrent ==
  \A c \in LinkClient : (cmd[c].pc = "ok" /\ cmd[c].op = "ensure") => ~Older(cmd[c].ver)

=============================================================================
