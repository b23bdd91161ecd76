----------------------------- MODULE Broadcaster -----------------------------
(***************************************************************************)
(* The feed of the web interface's tabs (internal/webui/events.go): one    *)
(* goroutine produces the job list while there is a tab, and a tab that    *)
(* falls behind skips to the latest.  The goroutine of tabs that are all   *)
(* closed may outlive them by one round.                                   *)
(***************************************************************************)
EXTENDS Naturals, Sequences, FiniteSets

CONSTANTS
  Tabs,
  MaxEdits,     \* bound: changes of the job list
  MaxProduceFails, \* bound: reads of the list that fail
  MaxTabOps     \* bound: tabs opened and closed

VARIABLES
  jobs,         \* the job list, as a version
  produceFails,
  open,         \* the tabs subscribed
  slot,         \* per tab: its channel of one
  tabShown,     \* per tab: what it shows
  last,         \* the payload sent last
  runs,         \* the goroutines in run: where, stopped or not, with which payload
  tabOps

tabVars == <<jobs, produceFails, open, slot, tabShown, last, runs, tabOps>>

NoPayload == MaxEdits + 2

TabTypeOK ==
  /\ jobs \in 1..(MaxEdits + 1) /\ last \in 0..NoPayload
  /\ open \subseteq Tabs /\ \A t \in Tabs : Len(slot[t]) <= 1

\* produce: the list, or no jobs at all when the store cannot be read.
Payloads == IF produceFails < MaxProduceFails THEN {jobs, 0} ELSE {jobs}

Producing(v) == produceFails' = IF v = 0 THEN produceFails + 1 ELSE produceFails

JobsChange ==
  /\ jobs <= MaxEdits /\ jobs' = jobs + 1
  /\ UNCHANGED <<produceFails, open, slot, tabShown, last, runs, tabOps>>

\* A goroutine: the last one started is current until its stop is closed.
Fresh == CHOOSE i \in 1..(Cardinality(runs) + 1) : \A r \in runs : r.id # i

TabOp == tabOps < MaxTabOps /\ tabOps' = tabOps + 1

\* Mutant: a second goroutine is not started while an earlier one has not returned.
OpenTabOneRun(t) ==
  /\ TabOp /\ t \notin open
  /\ open' = open \cup {t}
  /\ \/ /\ open = {}
        /\ \E v \in Payloads : Producing(v) /\ last' = v
        /\ runs' = IF runs = {} THEN {[id |-> Fresh, at |-> "tick", stopped |-> FALSE, payload |-> NoPayload]} ELSE runs
     \/ open # {} /\ UNCHANGED <<last, runs, produceFails>>
  /\ slot' = [slot EXCEPT ![t] = <<last'>>]
  /\ UNCHANGED <<jobs, tabShown>>

\* Subscribe: the first tab has the list produced and the goroutine started.
OpenTab(t) ==
  /\ TabOp /\ t \notin open
  /\ open' = open \cup {t}
  /\ \/ /\ open = {}
        /\ \E v \in Payloads : Producing(v) /\ last' = v
        /\ runs' = runs \cup {[id |-> Fresh, at |-> "tick", stopped |-> FALSE, payload |-> NoPayload]}
     \/ open # {} /\ UNCHANGED <<last, runs, produceFails>>
  /\ slot' = [slot EXCEPT ![t] = <<last'>>]
  /\ UNCHANGED <<jobs, tabShown>>

\* The last one to go closes stop.
CloseTab(t) ==
  /\ TabOp /\ t \in open
  /\ open' = open \ {t} /\ slot' = [slot EXCEPT ![t] = <<>>]
  /\ runs' = IF open = {t} THEN {[r EXCEPT !.stopped = TRUE] : r \in runs} ELSE runs
  /\ UNCHANGED <<jobs, produceFails, tabShown, last>>

\* run's select: stopped, or a tick (either, when both are there), then produce.
RunStops(r) ==
  /\ r.at = "tick" /\ r.stopped
  /\ runs' = runs \ {r}
  /\ UNCHANGED <<jobs, produceFails, open, slot, tabShown, last, tabOps>>

RunProduces(r) ==
  /\ r.at = "tick"
  /\ \E v \in Payloads :
       Producing(v) /\ runs' = (runs \ {r}) \cup {[r EXCEPT !.at = "lock", !.payload = v]}
  /\ UNCHANGED <<jobs, open, slot, tabShown, last, tabOps>>

\* Under mu: a payload that is not the last one replaces what a tab has not read.
RunSends(r) ==
  /\ r.at = "lock"
  /\ last' = r.payload
  /\ slot' = [t \in Tabs |-> IF t \in open /\ r.payload # last THEN <<r.payload>> ELSE slot[t]]
  /\ runs' = (runs \ {r}) \cup {[r EXCEPT !.at = "tick", !.payload = NoPayload]}
  /\ UNCHANGED <<jobs, produceFails, open, tabShown, tabOps>>

\* ServeEvents.
ShowPayload(t) ==
  /\ t \in open /\ slot[t] # <<>>
  /\ tabShown' = [tabShown EXCEPT ![t] = slot[t][1]] /\ slot' = [slot EXCEPT ![t] = <<>>]
  /\ UNCHANGED <<jobs, produceFails, open, last, runs, tabOps>>

TabInit ==
  /\ jobs = 1 /\ produceFails = 0
  /\ open = {} /\ slot = [t \in Tabs |-> <<>>] /\ tabShown = [t \in Tabs |-> NoPayload]
  /\ last = NoPayload /\ runs = {} /\ tabOps = 0

TabNext ==
  \/ JobsChange
  \/ \E t \in Tabs : OpenTab(t) \/ CloseTab(t) \/ ShowPayload(t)
  \/ \E r \in runs : RunStops(r) \/ RunProduces(r) \/ RunSends(r)

\* Tickers fire, goroutines run and connections deliver.
TabFairness ==
  /\ WF_tabVars(\E r \in runs : r.stopped /\ (RunStops(r) \/ RunSends(r)))
  /\ WF_tabVars(\E r \in runs : ~r.stopped /\ RunProduces(r))
  /\ WF_tabVars(\E r \in runs : ~r.stopped /\ RunSends(r))
  /\ \A t \in Tabs : WF_tabVars(ShowPayload(t))

TabSpec == TabInit /\ [][TabNext]_tabVars /\ TabFairness

-----------------------------------------------------------------------------
(* Properties *)

\* A tab that stays open ends up showing the list as it is, although the goroutine
\* of earlier tabs may have sent it something older in between (run, after the
\* select and before mu).
TabsCatchUp == <>[](\A t \in open : tabShown[t] = jobs)

=============================================================================
