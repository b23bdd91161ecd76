------------------------------ MODULE MCService ------------------------------
(***************************************************************************)
(* The daemon beside its jobs: the tools it installs, the worker it runs   *)
(* yt-dlp for, the streams and pages that follow its jobs, the commands    *)
(* that start and stop it, and the connections every process writes.       *)
(* None touches the state of another, so a behaviour is one of theirs,     *)
(* the others' variables staying as they are.                              *)
(***************************************************************************)
EXTENDS ManagedTools, SocialStream, SnapshotFeed, Broadcaster, DaemonLink, StoredConnections

VARIABLE part

allVars == <<toolVars, socVars, boardVars, tabVars, linkVars, connVars, part>>

\* Initially nothing of a part is under way; a tool of the name "none" is nobody's, and
\* an interface that is closed follows nothing: fairness asks nothing of either.
MCInit ==
  /\ part \in {"tools", "social", "board", "tabs", "link", "connections"}
  /\ IF part = "tools" THEN tool \in Tool ELSE tool = "none"
  /\ ToolInit /\ SocInit /\ BoardInit /\ TabInit /\ ConnInit
  /\ LinkInit /\ (part # "link" => sock = NoSock)

MCNext ==
  \/ part = "tools" /\ ToolNext
     /\ UNCHANGED <<socVars, boardVars, tabVars, linkVars, connVars, part>>
  \/ part = "social" /\ SocNext
     /\ UNCHANGED <<toolVars, boardVars, tabVars, linkVars, connVars, part>>
  \/ part = "board" /\ BoardNext
     /\ UNCHANGED <<toolVars, socVars, tabVars, linkVars, connVars, part>>
  \/ part = "tabs" /\ TabNext
     /\ UNCHANGED <<toolVars, socVars, boardVars, linkVars, connVars, part>>
  \/ part = "link" /\ LinkNext
     /\ UNCHANGED <<toolVars, socVars, boardVars, tabVars, connVars, part>>
  \/ part = "connections" /\ ConnNext
     /\ UNCHANGED <<toolVars, socVars, boardVars, tabVars, linkVars, part>>

MCSpec ==
  /\ MCInit /\ [][MCNext]_allVars
  /\ ToolFairness /\ SocFairness /\ BoardFairness /\ TabFairness
=============================================================================
