----------------------------- MODULE MCTorrents -----------------------------
(***************************************************************************)
(* Both ways to run a torrent job, side by side: a behaviour is one of the *)
(* client's (TorrentJob) or one of a TorBox account's (TorBoxJob), and the *)
(* variables of the other stay as they are.                                *)
(***************************************************************************)
EXTENDS TorrentJob, TorBoxJob

VARIABLE part

allVars == <<vars, tbVars, part>>

TwoFilesChoices == {{"f"}, {"f", "g"}, {}}

\* The jobs of the other part are paused, so its fairness asks for nothing.
MCInit ==
  /\ Init /\ TbInit
  /\ \/ /\ part = "client" /\ row.st = "active"
        /\ keep = FALSE /\ \A j \in TbJob : tbRow[j].st = "paused"
     \/ /\ part = "torbox" /\ row = [st |-> "paused", spec |-> File] /\ seeds = FALSE
        /\ \A j \in TbJob : tbRow[j].st = "active"

MCNext ==
  \/ part = "client" /\ Next /\ UNCHANGED <<tbVars, part>>
  \/ part = "torbox" /\ TbNext /\ UNCHANGED <<vars, part>>

MCSpec == MCInit /\ [][MCNext]_allVars /\ Fairness /\ TbFairness
=============================================================================
