---------------------------- MODULE NewJobWizard ----------------------------
(***************************************************************************)
(* Starting a download in the terminal interface (tui/newjob.go,           *)
(* torrentpick.go, actions.go): a wizard that asks the daemon for its      *)
(* TorBox settings and for a torrent's files while the keys go on.         *)
(***************************************************************************)
EXTENDS Naturals

CONSTANTS
  Torrent,  \* magnets and .torrent paths
  FilesOf,  \* how many files each has
  OtherLink,     \* the other links
  MaxWizards, MaxListsAsked \* bounds

ASSUME FilesKnown == FilesOf \in [Torrent -> Nat]

VARIABLES
  nj,      \* newJobState, or NoWizard
  pend,    \* replies on their way to the wizard, and requests on theirs to the daemon
  jobs,    \* the jobs started
  begun    \* what happened so far, against the bounds

wizardVars == <<nj, pend, jobs, begun>>

JobType == {"url", "social", "torrent", "play"}
HasPresets(t) == t \in {"social", "play"} \* newJobHasPresets
LinksOf(t) == IF t = "torrent" THEN Torrent ELSE OtherLink

NoLink == "" \* until one is entered

NoPick == [id |-> 0, of |-> NoLink, loading |-> FALSE, err |-> FALSE, n |-> 0, sel |-> {}]
NoWizard == [id |-> 0, step |-> "closed", type |-> "url", link |-> NoLink, pick |-> NoPick,
             ready |-> FALSE, viaTorBox |-> FALSE]

WizardTypeOK ==
  /\ nj.type \in JobType
  /\ nj.step \in {"closed", "type", "preset", "link", "via", "files", "output", "rate"}
  /\ nj.pick.sel \subseteq 1 .. nj.pick.n

BeginRequest(what, most) == begun[what] < most /\ begun' = [begun EXCEPT ![what] = @ + 1]

-----------------------------------------------------------------------------
(* The daemon's side *)

\* The TorBox settings: a key that works, and preferred.  They may change at any time, so
\* each reading may find any.
BoxSettings == [ready : BOOLEAN, prefers : BOOLEAN]

\* resolveVia: how a torrent is fetched, or that it cannot be.
ResolveVia(via, box) ==
  CASE via = "torbox" -> IF box.ready THEN "torbox" ELSE "error"
    [] via = "p2p" -> "p2p"
    [] OTHER -> IF box.prefers /\ box.ready THEN "torbox" ELSE "p2p"

\* CmdAddURL, CmdAddSocial and CmdAddTorrent.
Added(r, box) ==
  IF r.type # "torrent" THEN jobs \cup {r}
  ELSE IF ResolveVia(r.via, box) = "error" THEN jobs
  ELSE jobs \cup {[r EXCEPT !.via = ResolveVia(r.via, box)]}

-----------------------------------------------------------------------------
(* The wizard's replies *)

\* newJobSettingsLoaded: its wizard may be gone.
SettingsLoaded(x) ==
  /\ x.kind = "settings" /\ pend' = pend \ {x}
  /\ \E ok \in BOOLEAN, box \in BoxSettings :  \* failing, no choice is offered
       nj' = IF nj.id # x.of THEN nj
             ELSE [nj EXCEPT !.ready = ok /\ box.ready, !.viaTorBox = ok /\ box.ready /\ box.prefers]
  /\ UNCHANGED <<jobs, begun>>

Output(w) == [w EXCEPT !.step = "output"] \* advanceToOutput

Picking == nj.step \in {"files", "via"}

\* torrentFilesLoaded: every file ticked; one file leaves nothing to choose.
TakeFiles(x) ==
  LET w == [nj EXCEPT !.pick.loading = FALSE, !.pick.n = FilesOf[x.link], !.pick.sel = 1 .. FilesOf[x.link]]
  IN  IF FilesOf[x.link] <= 1 /\ nj.step = "files" THEN Output(w) ELSE w

\* Mutant: any list is taken for the one that is waited for.
FilesLoadedForAny(x) ==
  /\ x.kind = "files" /\ pend' = pend \ {x}
  /\ \E ok \in BOOLEAN :
       nj' = IF nj.pick = NoPick \/ ~Picking THEN nj
             ELSE IF ~ok THEN [nj EXCEPT !.pick.loading = FALSE, !.pick.err = TRUE]
             ELSE TakeFiles(x)
  /\ UNCHANGED <<jobs, begun>>

FilesLoaded(x) ==
  /\ x.kind = "files" /\ pend' = pend \ {x}
  /\ \E ok \in BOOLEAN :
       nj' = IF nj.pick.id # x.of \/ ~Picking THEN nj
             ELSE IF ~ok THEN [nj EXCEPT !.pick.loading = FALSE, !.pick.err = TRUE]
             ELSE TakeFiles(x)
  /\ UNCHANGED <<jobs, begun>>

\* startNewJob's request arrives, or never does.
StartArrives(x) ==
  /\ x.kind = "start" /\ pend' = pend \ {x}
  /\ \E box \in BoxSettings : jobs' \in {jobs, Added(x.job, box)}
  /\ UNCHANGED <<nj, begun>>

-----------------------------------------------------------------------------
(* The wizard's keys *)

OpenWizard ==
  /\ nj.step = "closed" /\ BeginRequest("wizards", MaxWizards)
  /\ nj' = [NoWizard EXCEPT !.id = begun.wizards + 1, !.step = "type"]
  /\ pend' = pend \cup {[kind |-> "settings", of |-> begun.wizards + 1]}
  /\ UNCHANGED <<jobs>>

Goes(w) == nj' = w /\ UNCHANGED <<pend, jobs, begun>>
To(step) == Goes([nj EXCEPT !.step = step])

PickType ==
  /\ nj.step = "type"
  /\ \E t \in JobType :
       Goes([nj EXCEPT !.type = t, !.step = IF HasPresets(t) THEN "preset" ELSE "link"])

PickPreset == nj.step = "preset" /\ To("link")

EnterLink ==
  /\ nj.step = "link"
  /\ \E l \in LinksOf(nj.type) :
       CASE nj.type = "play" -> Goes(NoWizard)
         [] nj.type = "torrent" ->
              LET id == begun.lists + 1 IN
              /\ BeginRequest("lists", MaxListsAsked)
              /\ nj' = [nj EXCEPT !.link = l, !.step = IF nj.ready THEN "via" ELSE "files",
                                  !.pick = [NoPick EXCEPT !.id = id, !.of = l, !.loading = TRUE]]
              /\ pend' = pend \cup {[kind |-> "files", of |-> id, link |-> l]}
              /\ UNCHANGED <<jobs>>
         [] OTHER -> Goes(Output([nj EXCEPT !.link = l]))

SwitchVia == nj.step = "via" /\ Goes([nj EXCEPT !.viaTorBox = ~@])

\* leaveVia.
LeaveVia ==
  /\ nj.step = "via"
  /\ IF nj.pick # NoPick /\ ~nj.pick.loading /\ ~nj.pick.err /\ nj.pick.n <= 1
     THEN Goes(Output(nj)) ELSE To("files")

ListArrived == ~nj.pick.loading /\ ~nj.pick.err

TickFile ==
  /\ nj.step = "files" /\ ListArrived
  /\ \E i \in 1 .. nj.pick.n :
       Goes([nj EXCEPT !.pick.sel = IF i \in @ THEN @ \ {i} ELSE @ \cup {i}])

\* Without the list every file is meant.
LeaveFiles ==
  /\ nj.step = "files"
  /\ IF ListArrived THEN nj.pick.sel # {} /\ Goes(Output(nj)) ELSE Goes(Output([nj EXCEPT !.pick = NoPick]))

StepBack ==
  \/ nj.step = "type" /\ Goes(NoWizard)
  \/ nj.step = "preset" /\ To("type")
  \/ nj.step = "link" /\ To(IF HasPresets(nj.type) THEN "preset" ELSE "type")
  \/ nj.step = "via" /\ Goes([nj EXCEPT !.pick = NoPick, !.step = "link"])
  \/ /\ nj.step = "files"
     /\ IF nj.ready THEN To("via") ELSE Goes([nj EXCEPT !.pick = NoPick, !.step = "link"])
  \/ /\ nj.step = "output"
     /\ To(IF nj.pick.n > 1 THEN "files" ELSE IF nj.ready /\ nj.pick # NoPick THEN "via" ELSE "link")
  \/ nj.step = "rate" /\ To("output")

EnterOutput == nj.step = "output" /\ To("rate")

\* spec: the numbers ticked; all of them, or no list, is everything.
Spec(p) == IF p.loading \/ p.sel = 1 .. p.n THEN {} ELSE p.sel
Via(w) == IF ~w.ready THEN "" ELSE IF w.viaTorBox THEN "torbox" ELSE "p2p"

EnterRate ==
  /\ nj.step = "rate" /\ nj' = NoWizard
  /\ pend' = pend \cup
       {[kind |-> "start", of |-> nj.id,
         job |-> [type |-> nj.type, link |-> nj.link, files |-> Spec(nj.pick), listOf |-> nj.pick.of,
                  via |-> IF nj.type = "torrent" THEN Via(nj) ELSE ""]]}
  /\ UNCHANGED <<jobs, begun>>

WizardInit ==
  /\ nj = NoWizard /\ pend = {} /\ jobs = {}
  /\ begun = [wizards |-> 0, lists |-> 0]

WizardNext ==
  \/ OpenWizard \/ PickType \/ PickPreset \/ EnterLink \/ SwitchVia \/ LeaveVia
  \/ TickFile \/ LeaveFiles \/ StepBack \/ EnterOutput \/ EnterRate
  \/ \E x \in pend : SettingsLoaded(x) \/ FilesLoaded(x) \/ StartArrives(x)

WizardSpec == WizardInit /\ [][WizardNext]_wizardVars

-----------------------------------------------------------------------------
(* Properties *)

\* The files a torrent is started with were ticked in its own list: a list that comes late,
\* after the wizard went back and took another link, changes nothing, and while files are
\* ticked there are at least two to choose from (torrentpick.go:64-86, newjob.go:85-94).
ChoiceIsOfLink ==
  /\ nj.step = "files" /\ ListArrived => nj.pick.n >= 2 /\ nj.pick.n = FilesOf[nj.pick.of]
  /\ \A j \in jobs : j.files # {} =>
       j.type = "torrent" /\ j.listOf = j.link /\ j.files \subseteq 1 .. FilesOf[j.link]

=============================================================================
