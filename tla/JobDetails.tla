----------------------------- MODULE JobDetails -----------------------------
(***************************************************************************)
(* A torrent's details in the terminal interface (tui/details.go): the     *)
(* overlay re-reads the job's files while the job runs, and collects the   *)
(* ticks that choose among them until they are applied.  The daemon        *)
(* answers from the torrent client, or from the disk (daemon/jobfiles.go); *)
(* the dashboard's own snapshot of the job comes apart from the answers.   *)
(***************************************************************************)
EXTENDS Naturals, FiniteSets, Functions

CONSTANTS
  Files,   \* how many files the torrent has, numbered from 0 in the order of their paths
  MaxShown, MaxApplied, MaxJobMoves, MaxMail \* bounds

VARIABLES
  tor,     \* the job at the daemon: its status, the files wanted, and those on disk
  seen,    \* its status in the dashboard's last snapshot
  ov,      \* detailsState, or NoOverlay
  mail,    \* what is on its way to or from the daemon, and the timers
  happened    \* what happened so far, against the bounds

detailVars == <<tor, seen, ov, mail, happened>>

File == 0 .. Files - 1
JobStatus == {"active", "paused", "completed", "removed"}
Finished(s) == s \in {"completed", "removed"}

Row == [index : File, file : File, skipped : BOOLEAN]
NoOverlay == [id |-> 0, rows |-> {}, live |-> FALSE, choice |-> FALSE, choosing |-> FALSE,
              settled |-> FALSE, pick |-> <<>>]
Kinds == {"load", "loaded", "tick", "choice", "chosen", "apply", "applied"}

DetailsTypeOK ==
  /\ tor.status \in JobStatus /\ tor.wanted \subseteq File /\ tor.disk \subseteq File
  /\ seen \in JobStatus /\ ov.rows \subseteq Row
  /\ DOMAIN ov.pick \subseteq File /\ \A i \in DOMAIN ov.pick : ov.pick[i] \in BOOLEAN
  /\ \A x \in mail : x.kind \in Kinds

Bounded(what, most) == happened[what] < most /\ happened' = [happened EXCEPT ![what] = @ + 1]

\* One more message of an overlay on its way beside the others, equal ones included.
Sent(rest, kind, of, data) ==
  LET n == CHOOSE k \in 0 .. Cardinality(rest) : \A x \in rest : x.n # k
  IN  rest \cup {[kind |-> kind, of |-> of, n |-> n, data |-> data]}

NoData == [ok |-> TRUE]

-----------------------------------------------------------------------------
(* The daemon *)

AllRows == {[index |-> f, file |-> f, skipped |-> f \notin tor.wanted] : f \in File}

\* filesOnDisk: what is there, by path, numbered by its place in that list.
DiskRows ==
  {[index |-> Cardinality({g \in tor.disk : g < f}), file |-> f, skipped |-> FALSE] : f \in tor.disk}

\* jobFileList and CmdJobFiles: live while the list is the running torrent's whole one.
JobFiles ==
  [ok |-> tor.status # "removed", live |-> tor.status = "active",
   rows |-> IF tor.status = "active" THEN AllRows ELSE DiskRows]

\* selectFiles: a running torrent switches at once; a finished one starts again.
Selected(want) ==
  tor' = [tor EXCEPT !.wanted = want, !.status = IF @ = "completed" THEN "active" ELSE @]

\* A request is answered; the link may fail, as may the reading of a magnet's files.
Answer(x) ==
  /\ \/ /\ x.kind = "load" /\ mail' = Sent(mail \ {x}, "loaded", x.of, JobFiles) /\ UNCHANGED tor
     \/ /\ x.kind = "choice" /\ UNCHANGED tor
        /\ mail' = Sent(mail \ {x}, "chosen", x.of, [ok |-> tor.status # "removed", rows |-> AllRows])
     \/ /\ x.kind = "apply" /\ mail' = Sent(mail \ {x}, "applied", x.of, [ok |-> tor.status # "removed"])
        /\ IF tor.status # "removed" THEN Selected(x.data.want) ELSE UNCHANGED tor
  /\ UNCHANGED <<seen, ov, happened>>

Reply == [load |-> "loaded", choice |-> "chosen", apply |-> "applied"]

RequestFails(x) ==
  /\ x.kind \in DOMAIN Reply
  /\ mail' = Sent(mail \ {x}, Reply[x.kind], x.of, [ok |-> FALSE])
  /\ UNCHANGED <<tor, seen, ov, happened>>

\* webSelectFiles: the page chooses as well.
PageSelects(want) ==
  /\ tor.status # "removed" /\ Bounded("applied", MaxApplied)
  /\ Selected(want) /\ UNCHANGED <<seen, ov, mail>>

\* The job's own steps: a file arrives, it is paused, resumed or removed, or has them all.
JobMoves ==
  /\ Bounded("moves", MaxJobMoves)
  /\ \/ /\ tor.status = "active"
        /\ \/ \E f \in tor.wanted \ tor.disk : tor' = [tor EXCEPT !.disk = @ \cup {f}]
           \/ tor' = [tor EXCEPT !.status = "paused"]
           \/ tor.wanted \subseteq tor.disk /\ tor' = [tor EXCEPT !.status = "completed"]
     \/ tor.status = "paused" /\ tor' = [tor EXCEPT !.status = "active"]
     \/ tor.status # "removed" /\ tor' = [tor EXCEPT !.status = "removed"]
  /\ UNCHANGED <<seen, ov, mail>>

\* applyJobs: the dashboard's snapshot.
DashboardSees ==
  /\ seen' = tor.status /\ seen # tor.status
  /\ UNCHANGED <<tor, ov, mail, happened>>

-----------------------------------------------------------------------------
(* The overlay's replies and timers *)

\* wants and setWant: a tick that says what the torrent has already is none.
Wants(pick, r) == IF r.index \in DOMAIN pick THEN pick[r.index] ELSE ~r.skipped
SetWant(pick, r, v) ==
  [i \in IF v = ~r.skipped THEN DOMAIN pick \ {r.index} ELSE DOMAIN pick \cup {r.index} |->
     IF i = r.index THEN v ELSE pick[i]]

\* prunePick: over the list that has come.
Pruned(pick, rows) ==
  Restrict(pick, {i \in DOMAIN pick : \A r \in rows : r.index = i => pick[i] = r.skipped})

Selectable == ov.live \/ ov.choice

\* An error shows above the list that was; a list being chosen from stays until the torrent runs.
Taken(data) ==
  IF ~data.ok \/ (ov.choice /\ ~data.live) THEN ov
  ELSE [ov EXCEPT !.rows = data.rows, !.live = data.live, !.choice = FALSE,
                  !.pick = Pruned(@, data.rows)]

\* detailsLoaded: then again in a second, until the dashboard has the job finished or gone.
DetailsLoaded(x) ==
  LET rest == mail \ {x} IN
  /\ x.kind = "loaded"
  /\ IF ov.id # x.of THEN ov' = ov /\ mail' = rest
     ELSE /\ ov' = [Taken(x.data) EXCEPT !.settled = @ \/ Finished(seen)]
          /\ mail' = IF Finished(seen) THEN rest ELSE Sent(rest, "tick", x.of, NoData)
  /\ UNCHANGED <<tor, seen, happened>>

DetailsTick(x) ==
  /\ x.kind = "tick"
  /\ mail' = IF ov.id = x.of THEN Sent(mail \ {x}, "load", x.of, NoData) ELSE mail \ {x}
  /\ UNCHANGED <<tor, seen, ov, happened>>

DetailsChoiceLoaded(x) ==
  /\ x.kind = "chosen" /\ mail' = mail \ {x}
  /\ ov' = IF ov.id # x.of THEN ov
           ELSE IF ~x.data.ok THEN [ov EXCEPT !.choosing = FALSE]
           ELSE [ov EXCEPT !.choosing = FALSE, !.rows = x.data.rows, !.choice = TRUE,
                           !.pick = Pruned(@, x.data.rows)]
  /\ UNCHANGED <<tor, seen, happened>>

\* Mutant: applying starts the refresh, whether or not it had stopped.
DetailsAppliedAnyway(x) ==
  /\ x.kind = "applied"
  /\ IF ov.id = x.of /\ x.data.ok
     THEN ov' = [ov EXCEPT !.pick = <<>>, !.settled = FALSE] /\ mail' = Sent(mail \ {x}, "tick", x.of, NoData)
     ELSE ov' = ov /\ mail' = mail \ {x}
  /\ UNCHANGED <<tor, seen, happened>>

\* detailsApplied: an overlay that had stopped refreshing starts again.
DetailsApplied(x) ==
  /\ x.kind = "applied"
  /\ IF ov.id = x.of /\ x.data.ok
     THEN /\ ov' = [ov EXCEPT !.pick = <<>>, !.settled = FALSE]
          /\ mail' = IF ov.settled THEN Sent(mail \ {x}, "tick", x.of, NoData) ELSE mail \ {x}
     ELSE ov' = ov /\ mail' = mail \ {x}
  /\ UNCHANGED <<tor, seen, happened>>

-----------------------------------------------------------------------------
(* The keys *)

OpenDetails ==
  /\ ov.id = 0 /\ seen # "removed" /\ Cardinality(mail) < MaxMail /\ Bounded("opened", MaxShown)
  /\ ov' = [NoOverlay EXCEPT !.id = happened.opened + 1]
  /\ mail' = Sent(mail, "load", happened.opened + 1, NoData)
  /\ UNCHANGED <<tor, seen>>

CloseDetails == ov.id # 0 /\ ov' = NoOverlay /\ UNCHANGED <<tor, seen, mail, happened>>

\* "c": the whole list of a torrent that is not running.
ChooseFiles ==
  /\ ov.id # 0 /\ ~Selectable /\ ~ov.choosing /\ seen # "removed"
  /\ Cardinality(mail) < MaxMail
  /\ ov' = [ov EXCEPT !.choosing = TRUE] /\ mail' = Sent(mail, "choice", ov.id, NoData)
  /\ UNCHANGED <<tor, seen, happened>>

\* Space at the cursor, and "u".
Ticks ==
  /\ ov.id # 0 /\ Selectable
  /\ \/ \E r \in ov.rows : ov' = [ov EXCEPT !.pick = SetWant(@, r, ~Wants(@, r))]
     \/ ov.pick # <<>> /\ ov' = [ov EXCEPT !.pick = <<>>]
  /\ UNCHANGED <<tor, seen, mail, happened>>

\* "s": the choice as ticked, when there is a change and a file in it.
Apply ==
  LET spec == {r.index : r \in {s \in ov.rows : Wants(ov.pick, s)}} IN
  /\ ov.id # 0 /\ Selectable /\ ov.pick # <<>> /\ spec # {}
  /\ Cardinality(mail) < MaxMail /\ Bounded("applied", MaxApplied)
  /\ mail' = Sent(mail, "apply", ov.id, [want |-> spec])
  /\ UNCHANGED <<tor, seen, ov>>

DetailsInit ==
  /\ tor \in [status : {"active", "paused"}, wanted : {File}, disk : SUBSET File]
  /\ seen = tor.status /\ ov = NoOverlay /\ mail = {}
  /\ happened = [opened |-> 0, applied |-> 0, moves |-> 0]

DetailsNext ==
  \/ JobMoves \/ DashboardSees \/ OpenDetails \/ CloseDetails \/ ChooseFiles \/ Ticks \/ Apply
  \/ \E want \in SUBSET File \ {{}} : PageSelects(want)
  \/ \E x \in mail : \/ Answer(x) \/ RequestFails(x) \/ DetailsLoaded(x) \/ DetailsTick(x)
                     \/ DetailsChoiceLoaded(x) \/ DetailsApplied(x)

DetailsSpec == DetailsInit /\ [][DetailsNext]_detailVars

-----------------------------------------------------------------------------
(* Properties *)

\* An open overlay re-reads its list along one chain, a read or a timer at a time, and along
\* none once it has settled: closing, opening again, applying twice and starting a finished
\* job again never leave two chains running, nor an overlay that no longer follows its job
\* (details.go:121-178).
OneRefresh ==
  ov.id # 0 =>
    Cardinality({x \in mail : x.of = ov.id /\ x.kind \in {"load", "loaded", "tick"}})
      = IF ov.settled THEN 0 ELSE 1

=============================================================================
