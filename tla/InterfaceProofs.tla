-------------------------- MODULE InterfaceProofs ---------------------------
(***************************************************************************)
(* The terminal interface, whatever the order in which keys, timers and    *)
(* replies arrive: the browser shows a folder's own entries and queues     *)
(* them for the connection they were read from, the files a torrent is     *)
(* started with are of that torrent, a torrent's details are re-read along *)
(* one chain, and the list's cursor stays on its job.                      *)
(***************************************************************************)
EXTENDS WebDAVBrowser, NewJobWizard, JobDetails, Dashboard, FiniteSetTheorems, TLAPS

-----------------------------------------------------------------------------
(* The WebDAV browser *)

\* The browser is a record of these fields; a path can be any name Above gives.
Shape ==
  /\ DOMAIN wb = {"step", "session", "conn", "path", "entries", "cache", "selected",
                  "loading", "pending", "err", "query"}
  /\ wb = [f \in DOMAIN wb |-> wb[f]]
  /\ wb.session \in Nat
  /\ browsed \in [sessions : Nat, listings : Nat, fails : Nat]

\* The strengthening: a session has one connection for its whole life, sessions are never
\* reused, and no listing is of a session that has not been opened.
SessionsKeepTheirConn ==
  /\ \A l \in listings : l.session \in Nat /\ l.session <= browsed.sessions
  /\ wb.session <= browsed.sessions
  /\ \A l \in listings : l.session = wb.session =>
       /\ wb.step # "pick"
       /\ wb.step = "browse" => l.conn = wb.conn
  /\ wb.step = "pick" => wb.entries = {} /\ wb.selected = {}

BrowseInv == Shape /\ SessionsKeepTheirConn /\ ListingIsOfPath

LEMMA NoBrowserIs ==
  /\ NoBrowser.step = "closed" /\ NoBrowser.session = 0
  /\ NoBrowser.entries = {} /\ NoBrowser.selected = {}
  /\ DOMAIN NoBrowser = {"step", "session", "conn", "path", "entries", "cache", "selected",
                         "loading", "pending", "err", "query"}
  /\ NoBrowser = [f \in DOMAIN NoBrowser |-> NoBrowser[f]]
BY DEF NoBrowser

\* A setting of fields that leaves the session, the connection and what is shown alone.
LEMMA Unmoved ==
  ASSUME BrowseInv, wb'.step = wb.step, wb'.session = wb.session, wb'.conn = wb.conn,
         wb'.path = wb.path, wb'.entries = wb.entries, wb'.selected \subseteq wb.selected \cup wb.entries,
         DOMAIN wb' = DOMAIN wb, wb' = [f \in DOMAIN wb' |-> wb'[f]],
         browsed' \in [sessions : Nat, listings : Nat, fails : Nat], browsed'.sessions = browsed.sessions,
         queued' = queued, wb.step # "pick",
         \A l \in listings' : l \in listings \/ (l.session = wb.session /\ l.conn = wb.conn)
  PROVE  BrowseInv'
<1>1. Shape'
  BY DEF BrowseInv, Shape
<1>2. SessionsKeepTheirConn'
  BY DEF BrowseInv, SessionsKeepTheirConn, Shape
<1>3. ListingIsOfPath'
  BY DEF BrowseInv, ListingIsOfPath
<1> QED BY <1>1, <1>2, <1>3 DEF BrowseInv

LEMMA OnIsOfConn ==
  ASSUME NEW c, NEW dir PROVE \A e \in On(c, dir) : e.conn = c
BY DEF On

LEMMA BrowseInvInit == BrowseInit => BrowseInv
<1> SUFFICES ASSUME BrowseInit PROVE BrowseInv
  OBVIOUS
<1>1. Shape
  BY NoBrowserIs DEF BrowseInit, Shape
<1>2. SessionsKeepTheirConn
  BY NoBrowserIs DEF BrowseInit, SessionsKeepTheirConn
<1>3. ListingIsOfPath
  BY NoBrowserIs DEF BrowseInit, ListingIsOfPath
<1> QED BY <1>1, <1>2, <1>3 DEF BrowseInv

-----------------------------------------------------------------------------
(* The keys *)

\* The browser closes, with or without something queued from it.
LEMMA Closing ==
  ASSUME BrowseInv, wb' = NoBrowser, listings' = listings, browsed' = browsed,
         \A t \in queued' : t.from = t.conn
  PROVE  BrowseInv'
<1>1. Shape'
  BY NoBrowserIs DEF BrowseInv, Shape
<1>2. SessionsKeepTheirConn'
  BY NoBrowserIs DEF BrowseInv, SessionsKeepTheirConn, Shape
<1>3. ListingIsOfPath'
  BY NoBrowserIs DEF ListingIsOfPath
<1> QED BY <1>1, <1>2, <1>3 DEF BrowseInv

LEMMA QueueCloses ==
  ASSUME BrowseInv, NEW targets, \A t \in targets : t.conn = wb.conn, Queue(targets)
  PROVE  BrowseInv'
<1>1. \A t \in queued' : t.from = t.conn
  BY DEF BrowseInv, ListingIsOfPath, Queue
<1> QED BY <1>1, Closing DEF Queue

LEMMA OpenBrowserKeeps == BrowseInv /\ OpenBrowser => BrowseInv'
<1> SUFFICES ASSUME BrowseInv, OpenBrowser PROVE BrowseInv'
  OBVIOUS
<1>1. /\ wb' = [NoBrowser EXCEPT !.step = "pick", !.session = browsed.sessions + 1]
      /\ browsed' = [browsed EXCEPT !.sessions = @ + 1]
      /\ listings' = listings /\ queued' = queued
  BY DEF OpenBrowser, Count
<1>2. /\ wb'.session = browsed.sessions + 1 /\ wb'.step = "pick" /\ browsed.sessions \in Nat
      /\ wb'.entries = {} /\ wb'.selected = {} /\ DOMAIN wb' = DOMAIN NoBrowser
      /\ wb' = [f \in DOMAIN wb' |-> wb'[f]]
  BY <1>1, NoBrowserIs DEF BrowseInv, Shape
<1>3. browsed'.sessions = browsed.sessions + 1 /\ browsed' \in [sessions : Nat, listings : Nat, fails : Nat]
  BY <1>1 DEF BrowseInv, Shape
<1>4. Shape'
  BY <1>2, <1>3, NoBrowserIs DEF Shape
<1>5. SessionsKeepTheirConn'
  BY <1>1, <1>2, <1>3 DEF BrowseInv, SessionsKeepTheirConn
<1>6. ListingIsOfPath'
  BY <1>1, <1>2 DEF BrowseInv, ListingIsOfPath
<1> QED BY <1>4, <1>5, <1>6 DEF BrowseInv

LEMMA PickConnKeeps ==
  ASSUME BrowseInv, NEW c \in Conn, PickConn(c) PROVE BrowseInv'
<1>1. /\ wb.step = "pick"
      /\ wb' = [wb EXCEPT !.step = "browse", !.conn = c, !.loading = TRUE, !.pending = "/"]
      /\ listings' = listings \cup {[session |-> wb.session, conn |-> c, dir |-> "/"]}
      /\ queued' = queued /\ browsed' = browsed
  BY DEF PickConn
<1>2. /\ wb'.step = "browse" /\ wb'.conn = c /\ wb'.session = wb.session
      /\ wb'.entries = {} /\ wb'.selected = {} /\ DOMAIN wb' = DOMAIN wb
      /\ wb' = [f \in DOMAIN wb' |-> wb'[f]]
  BY <1>1 DEF BrowseInv, Shape, SessionsKeepTheirConn
<1>3. Shape'
  BY <1>1, <1>2 DEF BrowseInv, Shape
<1>4. SessionsKeepTheirConn'
  BY <1>1, <1>2 DEF BrowseInv, SessionsKeepTheirConn, Shape
<1>5. ListingIsOfPath'
  BY <1>1, <1>2 DEF BrowseInv, ListingIsOfPath
<1> QED BY <1>3, <1>4, <1>5 DEF BrowseInv

LEMMA EscapeKeeps == BrowseInv /\ Escape => BrowseInv'
BY Closing DEF Escape, BrowseInv, ListingIsOfPath

\* A folder out of the cache is shown under its own path; another is asked for.
LEMMA OpenDirKeeps ==
  ASSUME BrowseInv, wb.step = "browse", NEW dir, OpenDir(dir) PROVE BrowseInv'
<1>1. CASE /\ wb' = [wb EXCEPT !.path = dir, !.entries = On(wb.conn, dir), !.err = FALSE, !.query = FALSE]
           /\ UNCHANGED <<listings, queued, browsed>>
  <2>1. /\ wb'.step = wb.step /\ wb'.session = wb.session /\ wb'.conn = wb.conn /\ wb'.path = dir
        /\ wb'.entries = On(wb.conn, dir) /\ wb'.selected = wb.selected
        /\ DOMAIN wb' = DOMAIN wb /\ wb' = [f \in DOMAIN wb' |-> wb'[f]]
    BY <1>1 DEF BrowseInv, Shape
  <2>2. Shape'
    BY <1>1, <2>1 DEF BrowseInv, Shape
  <2>3. SessionsKeepTheirConn'
    BY <1>1, <2>1 DEF BrowseInv, SessionsKeepTheirConn
  <2>4. ListingIsOfPath'
    BY <1>1, <2>1, OnIsOfConn DEF BrowseInv, ListingIsOfPath
  <2> QED BY <2>2, <2>3, <2>4 DEF BrowseInv
<1>2. CASE /\ Count("listings", MaxListings)
           /\ wb' = [wb EXCEPT !.loading = TRUE, !.pending = dir, !.query = FALSE]
           /\ List(dir) /\ UNCHANGED queued
  <2>1. /\ wb'.step = wb.step /\ wb'.session = wb.session /\ wb'.conn = wb.conn /\ wb'.path = wb.path
        /\ wb'.entries = wb.entries /\ wb'.selected = wb.selected
        /\ DOMAIN wb' = DOMAIN wb /\ wb' = [f \in DOMAIN wb' |-> wb'[f]]
    BY <1>2 DEF BrowseInv, Shape
  <2>2. browsed' = [browsed EXCEPT !.listings = @ + 1]
    BY <1>2 DEF Count
  <2>3. browsed' \in [sessions : Nat, listings : Nat, fails : Nat] /\ browsed'.sessions = browsed.sessions
    BY <2>2 DEF BrowseInv, Shape
  <2>4. \A l \in listings' : l \in listings \/ (l.session = wb.session /\ l.conn = wb.conn)
    BY <1>2 DEF List
  <2> QED BY <1>2, <2>1, <2>3, <2>4, Unmoved
<1> QED BY <1>1, <1>2 DEF OpenDir

LEMMA LeftKeeps == BrowseInv /\ Left => BrowseInv'
BY OpenDirKeeps DEF Left

LEMMA EnterKeeps == BrowseInv /\ Enter => BrowseInv'
BY OpenDirKeeps DEF Enter

LEMMA SearchKeeps == BrowseInv /\ Search => BrowseInv'
<1> SUFFICES ASSUME BrowseInv, Search PROVE BrowseInv'
  OBVIOUS
<1>1. wb' = [wb EXCEPT !.query = ~@] /\ UNCHANGED <<listings, queued, browsed>> /\ wb.step = "browse"
  BY DEF Search
<1>2. /\ wb'.step = wb.step /\ wb'.session = wb.session /\ wb'.conn = wb.conn /\ wb'.path = wb.path
      /\ wb'.entries = wb.entries /\ wb'.selected = wb.selected
      /\ DOMAIN wb' = DOMAIN wb /\ wb' = [f \in DOMAIN wb' |-> wb'[f]]
  BY <1>1 DEF BrowseInv, Shape
<1> QED BY <1>1, <1>2, Unmoved DEF BrowseInv, Shape

\* What is ticked is among what is shown.
LEMMA SpaceKeeps == BrowseInv /\ Space => BrowseInv'
<1> SUFFICES ASSUME BrowseInv, Space PROVE BrowseInv'
  OBVIOUS
<1>1. PICK e \in Current :
        wb' = [wb EXCEPT !.selected = IF e \in @ THEN @ \ {e} ELSE @ \cup {e}]
  BY DEF Space
<1>2. e \in wb.entries
  BY DEF Current, Visible
<1>3. /\ wb'.step = wb.step /\ wb'.session = wb.session /\ wb'.conn = wb.conn /\ wb'.path = wb.path
      /\ wb'.entries = wb.entries /\ wb'.selected \subseteq wb.selected \cup wb.entries
      /\ DOMAIN wb' = DOMAIN wb /\ wb' = [f \in DOMAIN wb' |-> wb'[f]]
  BY <1>1, <1>2 DEF BrowseInv, Shape
<1>4. wb.step = "browse" /\ UNCHANGED <<listings, queued, browsed>>
  BY DEF Space
<1> QED BY <1>3, <1>4, Unmoved DEF BrowseInv, Shape

LEMMA DownloadKeeps == BrowseInv /\ Download => BrowseInv'
<1> SUFFICES ASSUME BrowseInv, Download PROVE BrowseInv'
  OBVIOUS
<1>1. \A e \in wb.selected \cup Current : e.conn = wb.conn
  BY DEF BrowseInv, ListingIsOfPath, Download, Current, Visible
<1>2. CASE Queue(wb.selected)
  BY <1>1, <1>2, QueueCloses
<1>3. ASSUME NEW e \in Current, Queue({e}) PROVE BrowseInv'
  <2>1. \A t \in {e} : t.conn = wb.conn
    BY <1>1
  <2> QED BY <1>3, <2>1, QueueCloses
<1> QED BY <1>2, <1>3 DEF Download

LEMMA DownloadHereKeeps == BrowseInv /\ DownloadHere => BrowseInv'
<1> SUFFICES ASSUME BrowseInv, DownloadHere PROVE BrowseInv'
  OBVIOUS
<1> DEFINE here == {[conn |-> wb.conn, path |-> wb.path]}
<1>1. \A t \in here : t.conn = wb.conn
  OBVIOUS
<1>2. Queue(here)
  BY DEF DownloadHere
<1> HIDE DEF here
<1> QED BY <1>1, <1>2, QueueCloses

LEMMA PlayKeeps == BrowseInv /\ Play => BrowseInv'
BY Closing DEF Play, BrowseInv, ListingIsOfPath

-----------------------------------------------------------------------------
(* The replies *)

\* A reply that leaves the browser as it is.
LEMMA Dropped ==
  ASSUME BrowseInv, wb' = wb, listings' \subseteq listings, queued' = queued,
         browsed' \in [sessions : Nat, listings : Nat, fails : Nat], browsed'.sessions = browsed.sessions
  PROVE  BrowseInv'
<1>1. Shape'
  BY DEF BrowseInv, Shape
<1>2. SessionsKeepTheirConn'
  BY DEF BrowseInv, SessionsKeepTheirConn
<1>3. ListingIsOfPath'
  BY DEF BrowseInv, ListingIsOfPath
<1> QED BY <1>1, <1>2, <1>3 DEF BrowseInv

\* The one waited for is of the browser's session, hence of its connection.
LEMMA ListedKeeps ==
  ASSUME BrowseInv, NEW l \in listings, Listed(l) PROVE BrowseInv'
<1>1. listings' = listings \ {l} /\ queued' = queued /\ browsed' = browsed
  BY DEF Listed
<1>2. CASE ~WaitedFor(l)
  <2>1. wb' = wb
    BY <1>2 DEF Listed
  <2> QED BY <1>1, <2>1, Dropped DEF BrowseInv, Shape
<1>3. CASE WaitedFor(l)
  <2>1. wb.step = "browse" /\ l.session = wb.session /\ l.conn = wb.conn
    BY <1>3 DEF WaitedFor, BrowseInv, SessionsKeepTheirConn
  <2>2. wb' = [wb EXCEPT !.loading = FALSE, !.err = FALSE, !.path = l.dir, !.entries = On(l.conn, l.dir),
                         !.cache = @ \cup ({l.dir} \ {Dot})]
    BY <1>3 DEF Listed
  <2>3. /\ wb'.step = wb.step /\ wb'.session = wb.session /\ wb'.conn = wb.conn /\ wb'.path = l.dir
        /\ wb'.entries = On(wb.conn, l.dir) /\ wb'.selected = wb.selected
        /\ DOMAIN wb' = DOMAIN wb /\ wb' = [f \in DOMAIN wb' |-> wb'[f]]
    BY <2>1, <2>2 DEF BrowseInv, Shape
  <2>4. Shape'
    BY <1>1, <2>3 DEF BrowseInv, Shape
  <2>5. SessionsKeepTheirConn'
    BY <1>1, <2>1, <2>3 DEF BrowseInv, SessionsKeepTheirConn
  <2>6. ListingIsOfPath'
    BY <1>1, <2>1, <2>3, OnIsOfConn DEF BrowseInv, ListingIsOfPath
  <2> QED BY <2>4, <2>5, <2>6 DEF BrowseInv
<1> QED BY <1>2, <1>3

LEMMA ListFailsKeeps ==
  ASSUME BrowseInv, NEW l \in listings, ListFails(l) PROVE BrowseInv'
<1>1. /\ listings' \subseteq listings /\ queued' = queued
      /\ browsed' = [browsed EXCEPT !.fails = @ + 1]
  BY DEF ListFails, Count
<1>2. browsed' \in [sessions : Nat, listings : Nat, fails : Nat] /\ browsed'.sessions = browsed.sessions
  BY <1>1 DEF BrowseInv, Shape
<1>3. CASE ~WaitedFor(l)
  <2>1. wb' = wb
    BY <1>3 DEF ListFails
  <2> QED BY <1>1, <1>2, <2>1, Dropped
<1>4. CASE WaitedFor(l)
  <2>1. wb' = [wb EXCEPT !.loading = FALSE, !.err = TRUE] /\ wb.step = "browse"
    BY <1>4 DEF ListFails, WaitedFor
  <2>2. /\ wb'.step = wb.step /\ wb'.session = wb.session /\ wb'.conn = wb.conn /\ wb'.path = wb.path
        /\ wb'.entries = wb.entries /\ wb'.selected = wb.selected
        /\ DOMAIN wb' = DOMAIN wb /\ wb' = [f \in DOMAIN wb' |-> wb'[f]]
    BY <2>1 DEF BrowseInv, Shape
  <2> QED BY <1>1, <1>2, <2>1, <2>2, Unmoved
<1> QED BY <1>3, <1>4

-----------------------------------------------------------------------------

LEMMA BrowseInvStep == BrowseInv /\ [BrowseNext]_browseVars => BrowseInv'
<1> SUFFICES ASSUME BrowseInv, [BrowseNext]_browseVars PROVE BrowseInv'
  OBVIOUS
<1>1. CASE UNCHANGED browseVars
  BY <1>1, Dropped DEF browseVars, BrowseInv, Shape
<1>2. CASE OpenBrowser \/ Escape \/ Left \/ Enter \/ Search \/ Space \/ Download \/ DownloadHere \/ Play
  BY <1>2, OpenBrowserKeeps, EscapeKeeps, LeftKeeps, EnterKeeps, SearchKeeps, SpaceKeeps,
     DownloadKeeps, DownloadHereKeeps, PlayKeeps
<1>3. ASSUME NEW c \in Conn, PickConn(c) PROVE BrowseInv'
  BY <1>3, PickConnKeeps
<1>4. ASSUME NEW l \in listings, Listed(l) \/ ListFails(l) PROVE BrowseInv'
  BY <1>4, ListedKeeps, ListFailsKeeps
<1> QED BY <1>1, <1>2, <1>3, <1>4 DEF BrowseNext

\* ListingIsOfPath: a listing that answers after the browser was closed, reopened on another
\* connection or moved to another folder is dropped (the webdavListedMsg case, tui/update.go:143,
\* asks for the session and the folder), so what is shown and queued is of the connection
\* and the path above it.
THEOREM ListingIsOfPathHolds == BrowseSpec => []ListingIsOfPath
<1>1. BrowseInv => ListingIsOfPath
  BY DEF BrowseInv
<1> QED BY BrowseInvInit, BrowseInvStep, <1>1, PTL DEF BrowseSpec

-----------------------------------------------------------------------------
(* The wizard for a new job *)

Steps == {"closed", "type", "preset", "link", "via", "files", "output", "rate"}

Pick ==
  [id : Nat, of : Torrent \cup {NoLink}, loading : BOOLEAN, err : BOOLEAN, n : Nat, sel : SUBSET Nat]

\* ready and viaTorBox decide nothing here: any value will do.
IsWizard(w) ==
  /\ DOMAIN w = {"id", "step", "type", "link", "pick", "ready", "viaTorBox"}
  /\ w = [f \in DOMAIN w |-> w[f]]
  /\ w.step \in Steps /\ w.pick \in Pick

Arrived(p) == p.id # 0 /\ ~p.loading /\ ~p.err

\* A list is as long as its torrent, and until it arrives there is nothing to tick.
PickFits(p) ==
  /\ p.id = 0 <=> p = NoPick
  /\ p.id # 0 => p.of \in Torrent
  /\ Arrived(p) => p.n = FilesOf[p.of]
  /\ ~Arrived(p) => p.n = 0
  /\ p.loading => ~p.err
  /\ p.sel \subseteq 1 .. p.n
  /\ p.n <= 1 => p.sel = 1 .. p.n

\* Where each kind of pick may be: one with a choice only behind its own link, one that has
\* not arrived only where the list is waited for; a pick of one file may be left behind.
PickFollows(w) ==
  /\ w.pick.n > 1 => w.type = "torrent" /\ w.link = w.pick.of /\ w.step \in {"via", "files", "output", "rate"}
  /\ w.pick.id # 0 /\ ~Arrived(w.pick) =>
       w.type = "torrent" /\ w.link = w.pick.of /\ w.step \in {"via", "files"}
  /\ w.step \in {"via", "files"} => w.pick.id # 0
  /\ w.step = "files" => ~Arrived(w.pick) \/ w.pick.n > 1

WizardFits(w) == IsWizard(w) /\ PickFits(w.pick) /\ PickFollows(w)

JobFits(j) ==
  /\ DOMAIN j = {"type", "link", "files", "listOf", "via"} /\ j = [f \in DOMAIN j |-> j[f]]
  /\ j.files # {} =>
       j.type = "torrent" /\ j.listOf = j.link /\ j.files \subseteq 1 .. FilesOf[j.link]

\* A list on its way is of the pick it was asked for: numbers are not used twice.
RepliesFit ==
  /\ \A x \in pend : x.kind = "files" =>
       /\ x = [kind |-> "files", of |-> x.of, link |-> x.link]
       /\ x.of \in Nat /\ 0 < x.of /\ x.of <= begun.lists /\ x.link \in Torrent
       /\ x.of = nj.pick.id => x.link = nj.pick.of /\ nj.pick.loading
  /\ nj.pick.id <= begun.lists
  /\ \A x \in pend : x.kind = "start" => JobFits(x.job)

WizardInv ==
  /\ begun \in [wizards : Nat, lists : Nat]
  /\ WizardFits(nj) /\ RepliesFit
  /\ \A j \in jobs : JobFits(j)

-----------------------------------------------------------------------------

LEMMA NoWizardFits == WizardFits(NoWizard) /\ NoWizard.pick = NoPick /\ NoPick.id = 0
<1>1. /\ NoPick \in Pick /\ NoPick.id = 0 /\ NoPick.loading = FALSE /\ NoPick.n = 0 /\ NoPick.sel = {}
  BY DEF NoPick, Pick
<1>2. /\ NoWizard.pick = NoPick /\ NoWizard.step = "closed"
      /\ DOMAIN NoWizard = {"id", "step", "type", "link", "pick", "ready", "viaTorBox"}
      /\ NoWizard = [f \in DOMAIN NoWizard |-> NoWizard[f]]
  BY DEF NoWizard
<1>3. PickFits(NoPick)
  BY <1>1 DEF PickFits, Arrived
<1> QED BY <1>1, <1>2, <1>3 DEF WizardFits, IsWizard, PickFollows, Arrived, Steps

\* A wizard with no pick fits wherever a list is not what it waits for.
LEMMA NoPickWherever ==
  ASSUME NEW w, DOMAIN w = {"id", "step", "type", "link", "pick", "ready", "viaTorBox"},
         w = [f \in DOMAIN w |-> w[f]], w.pick = NoPick, w.step \in {"link", "output"}
  PROVE  WizardFits(w)
<1>1. NoPick \in Pick /\ PickFits(NoPick) /\ NoPick.id = 0
  BY NoWizardFits DEF WizardFits, IsWizard
<1>2. ~(NoPick.n > 1)
  BY DEF NoPick
<1> QED BY <1>1, <1>2 DEF WizardFits, IsWizard, PickFollows, Steps

LEMMA InvGivesChoice == WizardInv => ChoiceIsOfLink
<1> SUFFICES ASSUME WizardInv PROVE ChoiceIsOfLink
  OBVIOUS
<1>1. ASSUME nj.step = "files", ListArrived PROVE nj.pick.n >= 2 /\ nj.pick.n = FilesOf[nj.pick.of]
  <2>1. Arrived(nj.pick)
    BY <1>1 DEF WizardInv, WizardFits, PickFollows, ListArrived, Arrived
  <2>2. nj.pick.n > 1 /\ nj.pick.n \in Nat
    BY <1>1, <2>1 DEF WizardInv, WizardFits, PickFollows, IsWizard, Pick
  <2> QED BY <2>1, <2>2 DEF WizardInv, WizardFits, PickFits
<1> QED BY <1>1 DEF ChoiceIsOfLink, WizardInv, JobFits

LEMMA WizardInvInit == WizardInit => WizardInv
BY NoWizardFits DEF WizardInit, WizardInv, RepliesFit

\* A step of the wizard that asks the daemon for nothing and forgets or keeps its pick.
LEMMA GoesKeeps ==
  ASSUME WizardInv, NEW w, WizardFits(w), Goes(w),
         \/ w.pick.id = nj.pick.id /\ w.pick.of = nj.pick.of /\ w.pick.loading = nj.pick.loading
         \/ w.pick = NoPick
  PROVE  WizardInv'
<1>1. nj' = w /\ pend' = pend /\ jobs' = jobs /\ begun' = begun
  BY DEF Goes
<1>2. RepliesFit'
  BY <1>1, NoWizardFits DEF WizardInv, RepliesFit
<1> QED BY <1>1, <1>2 DEF WizardInv

\* The same of a step that only changes where the wizard is.
LEMMA ToKeeps ==
  ASSUME WizardInv, NEW step \in Steps, To(step),
         nj.pick.n > 1 => step \in {"via", "files", "output", "rate"},
         nj.pick.id # 0 /\ ~Arrived(nj.pick) => step \in {"via", "files"},
         step \in {"via", "files"} => nj.pick.id # 0,
         step = "files" => ~Arrived(nj.pick) \/ nj.pick.n > 1
  PROVE  WizardInv'
<1> DEFINE w == [nj EXCEPT !.step = step]
<1>1. /\ w.step = step /\ w.type = nj.type /\ w.link = nj.link /\ w.pick = nj.pick
      /\ DOMAIN w = DOMAIN nj /\ w = [f \in DOMAIN w |-> w[f]]
  BY DEF WizardInv, WizardFits, IsWizard
<1>2. Goes(w)
  BY DEF To
<1> HIDE DEF w
<1>3. WizardFits(w)
  BY <1>1 DEF WizardInv, WizardFits, IsWizard, PickFollows
<1> QED BY <1>1, <1>2, <1>3, GoesKeeps

-----------------------------------------------------------------------------
(* The keys *)

LEMMA OpenWizardKeeps == WizardInv /\ OpenWizard => WizardInv'
<1> SUFFICES ASSUME WizardInv, OpenWizard PROVE WizardInv'
  OBVIOUS
<1>1. /\ nj' = [NoWizard EXCEPT !.id = begun.wizards + 1, !.step = "type"]
      /\ pend' = pend \cup {[kind |-> "settings", of |-> begun.wizards + 1]}
      /\ jobs' = jobs /\ begun' = [begun EXCEPT !.wizards = @ + 1]
  BY DEF OpenWizard, BeginRequest
<1>2. /\ nj'.step = "type" /\ nj'.pick = NoPick
      /\ DOMAIN nj' = DOMAIN NoWizard /\ nj' = [f \in DOMAIN nj' |-> nj'[f]]
  BY <1>1, NoWizardFits DEF WizardFits, IsWizard
<1>3. WizardFits(nj')
  BY <1>2, NoWizardFits DEF WizardFits, IsWizard, PickFollows, PickFits, Arrived, Steps
<1>4. begun' \in [wizards : Nat, lists : Nat] /\ begun'.lists = begun.lists
  BY <1>1 DEF WizardInv
<1>5. \A x \in pend' : x.kind # "settings" => x \in pend
  BY <1>1
<1>6. RepliesFit'
  <2>1. \A x \in pend' : x.kind = "files" =>
          x \in pend /\ x.of # nj'.pick.id
    BY <1>2, <1>5, NoWizardFits DEF WizardInv, RepliesFit
  <2> QED BY <1>2, <1>4, <1>5, <2>1, NoWizardFits DEF WizardInv, RepliesFit
<1> QED BY <1>1, <1>3, <1>4, <1>6 DEF WizardInv

LEMMA PickTypeKeeps == WizardInv /\ PickType => WizardInv'
<1> SUFFICES ASSUME WizardInv, PickType PROVE WizardInv'
  OBVIOUS
<1>1. PICK t \in JobType :
        nj.step = "type" /\ Goes([nj EXCEPT !.type = t, !.step = IF HasPresets(t) THEN "preset" ELSE "link"])
  BY DEF PickType
<1> DEFINE w == [nj EXCEPT !.type = t, !.step = IF HasPresets(t) THEN "preset" ELSE "link"]
<1>2. /\ w.step \in {"preset", "link"} /\ w.pick = nj.pick
      /\ DOMAIN w = DOMAIN nj /\ w = [f \in DOMAIN w |-> w[f]]
  BY DEF WizardInv, WizardFits, IsWizard
<1>3. Goes(w)
  BY <1>1
<1> HIDE DEF w
<1>4. WizardFits(w)
  BY <1>1, <1>2 DEF WizardInv, WizardFits, IsWizard, PickFollows, Steps
<1> QED BY <1>2, <1>3, <1>4, GoesKeeps

LEMMA PickPresetKeeps == WizardInv /\ PickPreset => WizardInv'
BY ToKeeps DEF PickPreset, WizardInv, WizardFits, PickFollows, Steps

\* Entering a torrent's link takes a new number; another link finds no choice to carry over.
LEMMA EnterLinkKeeps == WizardInv /\ EnterLink => WizardInv'
<1> SUFFICES ASSUME WizardInv, EnterLink PROVE WizardInv'
  OBVIOUS
<1>1. PICK l \in LinksOf(nj.type) :
        CASE nj.type = "play" -> Goes(NoWizard)
          [] nj.type = "torrent" ->
               LET id == begun.lists + 1 IN
               /\ BeginRequest("lists", MaxListsAsked)
               /\ nj' = [nj EXCEPT !.link = l, !.step = IF nj.ready THEN "via" ELSE "files",
                                   !.pick = [NoPick EXCEPT !.id = id, !.of = l, !.loading = TRUE]]
               /\ pend' = pend \cup {[kind |-> "files", of |-> id, link |-> l]}
               /\ UNCHANGED <<jobs>>
          [] OTHER -> Goes(Output([nj EXCEPT !.link = l]))
  BY DEF EnterLink
<1>2. nj.step = "link"
  BY DEF EnterLink
<1>3. CASE nj.type = "play"
  BY <1>1, <1>3, NoWizardFits, GoesKeeps
<1>4. CASE nj.type = "torrent"
  <2> DEFINE id == begun.lists + 1
             p == [NoPick EXCEPT !.id = id, !.of = l, !.loading = TRUE]
  <2>1. /\ nj' = [nj EXCEPT !.link = l, !.step = IF nj.ready THEN "via" ELSE "files", !.pick = p]
        /\ pend' = pend \cup {[kind |-> "files", of |-> id, link |-> l]}
        /\ jobs' = jobs /\ begun' = [begun EXCEPT !.lists = @ + 1] /\ l \in Torrent
    BY <1>1, <1>4 DEF BeginRequest, LinksOf
  <2>2. begun.lists \in Nat /\ id \in Nat /\ id > 0 /\ id > begun.lists
    BY DEF WizardInv
  <2>3. /\ p.id = id /\ p.of = l /\ p.loading = TRUE /\ p.err = FALSE /\ p.n = 0 /\ p.sel = {} /\ p \in Pick
    BY <2>1, <2>2 DEF NoPick, Pick
  <2> HIDE DEF p, id
  <2>4. PickFits(p) /\ ~Arrived(p)
    <3>1. p # NoPick /\ p.id # 0 /\ ~Arrived(p)
      BY <2>2, <2>3, NoWizardFits DEF Arrived
    <3>2. p.sel = 1 .. p.n
      BY <2>3
    <3> QED BY <2>1, <2>3, <3>1, <3>2 DEF PickFits
  <2>5. /\ nj'.link = l /\ nj'.step \in {"via", "files"} /\ nj'.pick = p /\ nj'.type = "torrent"
        /\ DOMAIN nj' = DOMAIN nj /\ nj' = [f \in DOMAIN nj' |-> nj'[f]]
    BY <1>4, <2>1 DEF WizardInv, WizardFits, IsWizard
  <2>6. WizardFits(nj')
    BY <2>2, <2>3, <2>4, <2>5 DEF WizardInv, WizardFits, IsWizard, PickFollows, Steps
  <2>7. begun' \in [wizards : Nat, lists : Nat] /\ begun'.lists = id
    BY <2>1 DEF WizardInv, id
  <2>8. RepliesFit'
    <3>1. \A x \in pend : x.kind = "files" =>
            x.of \in Nat /\ 0 < x.of /\ x.of <= id /\ x.of # id /\ x.link \in Torrent
            /\ x = [kind |-> "files", of |-> x.of, link |-> x.link]
      BY <2>2 DEF WizardInv, RepliesFit
    <3> DEFINE y == [kind |-> "files", of |-> id, link |-> l]
    <3>2. y.kind = "files" /\ y.of = id /\ y.link = l /\ y = [kind |-> "files", of |-> y.of, link |-> y.link]
      OBVIOUS
    <3>3. pend' = pend \cup {y}
      BY <2>1
    <3> HIDE DEF y
    <3>4. \A x \in pend' : x.kind = "files" =>
            /\ x = [kind |-> "files", of |-> x.of, link |-> x.link]
            /\ x.of \in Nat /\ 0 < x.of /\ x.of <= begun'.lists /\ x.link \in Torrent
            /\ x.of = nj'.pick.id => x.link = nj'.pick.of /\ nj'.pick.loading
      BY <2>1, <2>2, <2>3, <2>5, <2>7, <3>1, <3>2, <3>3
    <3>5. \A x \in pend' : x.kind = "start" => JobFits(x.job)
      BY <3>2, <3>3 DEF WizardInv, RepliesFit
    <3>6. nj'.pick.id <= begun'.lists
      BY <2>2, <2>3, <2>5, <2>7
    <3> QED BY <3>4, <3>5, <3>6 DEF RepliesFit
  <2> QED BY <2>1, <2>6, <2>7, <2>8 DEF WizardInv
<1>5. CASE nj.type # "play" /\ nj.type # "torrent"
  <2> DEFINE w == Output([nj EXCEPT !.link = l])
  <2>1. /\ w.step = "output" /\ w.pick = nj.pick
        /\ DOMAIN w = DOMAIN nj /\ w = [f \in DOMAIN w |-> w[f]]
    BY DEF WizardInv, WizardFits, IsWizard, Output
  <2>2. Goes(w)
    BY <1>1, <1>5
  <2> HIDE DEF w
  <2>3. WizardFits(w)
    BY <1>2, <2>1 DEF WizardInv, WizardFits, IsWizard, PickFollows, Steps
  <2> QED BY <2>1, <2>2, <2>3, GoesKeeps
<1> QED BY <1>3, <1>4, <1>5

LEMMA SwitchViaKeeps == WizardInv /\ SwitchVia => WizardInv'
<1> SUFFICES ASSUME WizardInv, SwitchVia PROVE WizardInv'
  OBVIOUS
<1> DEFINE w == [nj EXCEPT !.viaTorBox = ~@]
<1>1. /\ w.step = nj.step /\ w.type = nj.type /\ w.link = nj.link /\ w.pick = nj.pick
      /\ DOMAIN w = DOMAIN nj /\ w = [f \in DOMAIN w |-> w[f]]
  BY DEF WizardInv, WizardFits, IsWizard
<1>2. Goes(w)
  BY DEF SwitchVia
<1> HIDE DEF w
<1>3. WizardFits(w)
  BY <1>1 DEF WizardInv, WizardFits, IsWizard, PickFollows
<1> QED BY <1>1, <1>2, <1>3, GoesKeeps

LEMMA LeaveViaKeeps == WizardInv /\ LeaveVia => WizardInv'
<1> SUFFICES ASSUME WizardInv, LeaveVia PROVE WizardInv'
  OBVIOUS
<1>1. nj.step = "via" /\ nj.pick.id # 0 /\ nj.pick # NoPick /\ nj.pick.n \in Nat
  BY DEF LeaveVia, WizardInv, WizardFits, PickFollows, PickFits, IsWizard, Pick
<1>2. CASE Arrived(nj.pick) /\ nj.pick.n <= 1
  <2>1. To("output")
    BY <1>1, <1>2 DEF LeaveVia, Arrived, Output, To
  <2>2. ~(nj.pick.n > 1)
    BY <1>1, <1>2
  <2> QED BY <1>2, <2>1, <2>2, ToKeeps DEF Steps
<1>3. CASE ~(Arrived(nj.pick) /\ nj.pick.n <= 1)
  <2>1. To("files")
    BY <1>1, <1>3 DEF LeaveVia, Arrived
  <2>2. ~Arrived(nj.pick) \/ nj.pick.n > 1
    BY <1>1, <1>3
  <2> QED BY <1>1, <2>1, <2>2, ToKeeps DEF Steps
<1> QED BY <1>2, <1>3

\* Ticks are only taken from a list with a choice.
LEMMA TickFileKeeps == WizardInv /\ TickFile => WizardInv'
<1> SUFFICES ASSUME WizardInv, TickFile PROVE WizardInv'
  OBVIOUS
<1>1. PICK i \in 1 .. nj.pick.n :
        Goes([nj EXCEPT !.pick.sel = IF i \in @ THEN @ \ {i} ELSE @ \cup {i}])
  BY DEF TickFile
<1> DEFINE sel == IF i \in nj.pick.sel THEN nj.pick.sel \ {i} ELSE nj.pick.sel \cup {i}
           p == [nj.pick EXCEPT !.sel = sel]
           w == [nj EXCEPT !.pick = p]
<1>2. Goes(w)
  BY <1>1
<1>3. nj.step = "files" /\ Arrived(nj.pick) /\ nj.pick.n > 1 /\ nj.pick \in Pick
  BY DEF TickFile, ListArrived, WizardInv, WizardFits, PickFollows, IsWizard, Arrived
<1>4. sel \subseteq 1 .. nj.pick.n /\ sel \in SUBSET Nat
  BY <1>3 DEF WizardInv, WizardFits, PickFits, Pick
<1> HIDE DEF sel
<1>5. /\ p.id = nj.pick.id /\ p.of = nj.pick.of /\ p.loading = nj.pick.loading /\ p.err = nj.pick.err
      /\ p.n = nj.pick.n /\ p.sel = sel /\ p \in Pick
  BY <1>3, <1>4 DEF Pick
<1> HIDE DEF p
<1>6. /\ w.step = "files" /\ w.type = nj.type /\ w.link = nj.link /\ w.pick = p
      /\ DOMAIN w = DOMAIN nj /\ w = [f \in DOMAIN w |-> w[f]]
  BY <1>3 DEF WizardInv, WizardFits, IsWizard
<1> HIDE DEF w
<1>7. PickFits(p) /\ Arrived(p)
  <2>1. p.id # 0 /\ p # NoPick /\ Arrived(p)
    BY <1>3, <1>5, NoWizardFits DEF Arrived
  <2>2. ~(p.n <= 1)
    BY <1>3, <1>5 DEF Pick
  <2> QED BY <1>3, <1>4, <1>5, <2>1, <2>2 DEF WizardInv, WizardFits, PickFits
<1>8. WizardFits(w)
  BY <1>3, <1>5, <1>6, <1>7 DEF WizardInv, WizardFits, IsWizard, PickFollows
<1> QED BY <1>2, <1>5, <1>6, <1>8, GoesKeeps

\* Going on without the list forgets it, so a list that comes later finds no pick.
LEMMA LeaveFilesKeeps == WizardInv /\ LeaveFiles => WizardInv'
<1> SUFFICES ASSUME WizardInv, LeaveFiles PROVE WizardInv'
  OBVIOUS
<1>1. nj.step = "files" /\ nj.pick.id # 0 /\ (~Arrived(nj.pick) \/ nj.pick.n > 1)
  BY DEF LeaveFiles, WizardInv, WizardFits, PickFollows
<1>2. CASE ListArrived
  <2>1. To("output")
    BY <1>2 DEF LeaveFiles, Output, To
  <2>2. Arrived(nj.pick)
    BY <1>1, <1>2 DEF ListArrived, Arrived
  <2> QED BY <2>1, <2>2, ToKeeps DEF Steps
<1>3. CASE ~ListArrived
  <2> DEFINE w == Output([nj EXCEPT !.pick = NoPick])
  <2>1. /\ w.step = "output" /\ w.pick = NoPick
        /\ DOMAIN w = DOMAIN nj /\ w = [f \in DOMAIN w |-> w[f]]
    BY DEF WizardInv, WizardFits, IsWizard, Output
  <2>2. Goes(w)
    BY <1>3 DEF LeaveFiles
  <2> HIDE DEF w
  <2>3. WizardFits(w)
    BY <2>1, NoPickWherever DEF WizardInv, WizardFits, IsWizard
  <2> QED BY <2>1, <2>2, <2>3, GoesKeeps
<1> QED BY <1>2, <1>3

LEMMA StepBackKeeps == WizardInv /\ StepBack => WizardInv'
<1> SUFFICES ASSUME WizardInv, StepBack PROVE WizardInv'
  OBVIOUS
<1>0. nj.pick \in Pick /\ PickFits(nj.pick) /\ PickFollows(nj)
  BY DEF WizardInv, WizardFits, IsWizard
<1>1. CASE nj.step = "type" /\ Goes(NoWizard)
  BY <1>1, NoWizardFits, GoesKeeps
<1>2. CASE nj.step = "preset" /\ To("type")
  BY <1>0, <1>2, ToKeeps DEF PickFollows, Steps
<1>3. CASE nj.step = "link" /\ To(IF HasPresets(nj.type) THEN "preset" ELSE "type")
  BY <1>0, <1>3, ToKeeps DEF PickFollows, Steps
<1>4. CASE Goes([nj EXCEPT !.pick = NoPick, !.step = "link"])
  <2> DEFINE w == [nj EXCEPT !.pick = NoPick, !.step = "link"]
  <2>1. /\ w.step = "link" /\ w.pick = NoPick
        /\ DOMAIN w = DOMAIN nj /\ w = [f \in DOMAIN w |-> w[f]]
    BY DEF WizardInv, WizardFits, IsWizard
  <2>2. Goes(w)
    BY <1>4
  <2> HIDE DEF w
  <2>3. WizardFits(w)
    BY <2>1, NoPickWherever DEF WizardInv, WizardFits, IsWizard
  <2> QED BY <2>1, <2>2, <2>3, GoesKeeps
<1>5. CASE nj.step = "files" /\ To("via")
  BY <1>0, <1>5, ToKeeps DEF PickFollows, Steps
<1>6. CASE /\ nj.step = "output"
           /\ To(IF nj.pick.n > 1 THEN "files" ELSE IF nj.ready /\ nj.pick # NoPick THEN "via" ELSE "link")
  <2>1. nj.pick.id # 0 => Arrived(nj.pick)
    BY <1>0, <1>6 DEF PickFollows
  <2>2. CASE nj.pick.n > 1
    <3>1. nj.pick.id # 0
      BY <1>0, <2>2 DEF PickFits, Arrived
    <3> QED BY <1>6, <2>1, <2>2, <3>1, ToKeeps DEF Steps
  <2>3. CASE ~(nj.pick.n > 1) /\ nj.ready /\ nj.pick # NoPick
    <3>1. nj.pick.id # 0
      BY <1>0, <2>3 DEF PickFits
    <3> QED BY <1>6, <2>1, <2>3, <3>1, ToKeeps DEF Steps
  <2>4. CASE ~(nj.pick.n > 1) /\ ~(nj.ready /\ nj.pick # NoPick)
    BY <1>6, <2>1, <2>4, ToKeeps DEF Steps
  <2> QED BY <2>2, <2>3, <2>4
<1>7. CASE nj.step = "rate" /\ To("output")
  BY <1>0, <1>7, ToKeeps DEF PickFollows, Steps
<1> QED BY <1>1, <1>2, <1>3, <1>4, <1>5, <1>6, <1>7 DEF StepBack

LEMMA EnterOutputKeeps == WizardInv /\ EnterOutput => WizardInv'
BY ToKeeps DEF EnterOutput, WizardInv, WizardFits, PickFollows, Steps

\* What is ticked of a list with a choice is of the link the job starts with.
LEMMA EnterRateKeeps == WizardInv /\ EnterRate => WizardInv'
<1> SUFFICES ASSUME WizardInv, EnterRate PROVE WizardInv'
  OBVIOUS
<1> DEFINE j == [type |-> nj.type, link |-> nj.link, files |-> Spec(nj.pick), listOf |-> nj.pick.of,
                 via |-> IF nj.type = "torrent" THEN Via(nj) ELSE ""]
           x == [kind |-> "start", of |-> nj.id, job |-> j]
<1>1. nj' = NoWizard /\ pend' = pend \cup {x} /\ jobs' = jobs /\ begun' = begun
  BY DEF EnterRate
<1>2. nj.pick \in Pick /\ PickFits(nj.pick) /\ PickFollows(nj)
  BY DEF WizardInv, WizardFits, IsWizard
<1>3. ASSUME Spec(nj.pick) # {}
      PROVE  /\ nj.type = "torrent" /\ nj.pick.of = nj.link
             /\ Spec(nj.pick) \subseteq 1 .. FilesOf[nj.link]
  <2>1. nj.pick.n > 1 /\ Spec(nj.pick) = nj.pick.sel
    BY <1>2, <1>3 DEF Spec, PickFits, Pick
  <2>2. Arrived(nj.pick)
    BY <1>2, <2>1 DEF PickFits
  <2> QED BY <1>2, <2>1, <2>2 DEF PickFits, PickFollows
<1>4. JobFits(j)
  <2>1. /\ DOMAIN j = {"type", "link", "files", "listOf", "via"} /\ j = [f \in DOMAIN j |-> j[f]]
    OBVIOUS
  <2>2. /\ j.type = nj.type /\ j.link = nj.link /\ j.files = Spec(nj.pick) /\ j.listOf = nj.pick.of
    OBVIOUS
  <2> HIDE DEF j
  <2> QED BY <1>3, <2>1, <2>2 DEF JobFits
<1> HIDE DEF j
<1>5. x.kind = "start" /\ x.job = j
  OBVIOUS
<1> HIDE DEF x
<1>6. RepliesFit'
  BY <1>1, <1>4, <1>5, NoWizardFits DEF WizardInv, RepliesFit
<1> QED BY <1>1, <1>6, NoWizardFits DEF WizardInv

-----------------------------------------------------------------------------
(* The replies *)

LEMMA SettingsLoadedKeeps ==
  ASSUME WizardInv, NEW x \in pend, SettingsLoaded(x) PROVE WizardInv'
<1>1. PICK ok \in BOOLEAN, box \in BoxSettings :
        nj' = IF nj.id # x.of THEN nj
              ELSE [nj EXCEPT !.ready = ok /\ box.ready, !.viaTorBox = ok /\ box.ready /\ box.prefers]
  BY DEF SettingsLoaded
<1>2. x.kind = "settings" /\ pend' = pend \ {x} /\ jobs' = jobs /\ begun' = begun
  BY DEF SettingsLoaded
<1>3. /\ nj'.step = nj.step /\ nj'.type = nj.type /\ nj'.link = nj.link /\ nj'.pick = nj.pick
      /\ DOMAIN nj' = DOMAIN nj /\ nj' = [f \in DOMAIN nj' |-> nj'[f]]
  BY <1>1 DEF WizardInv, WizardFits, IsWizard
<1>4. WizardFits(nj')
  BY <1>3 DEF WizardInv, WizardFits, IsWizard, PickFollows
<1>5. RepliesFit'
  BY <1>2, <1>3 DEF WizardInv, RepliesFit
<1> QED BY <1>2, <1>4, <1>5 DEF WizardInv

\* A list for a pick the wizard has left is dropped; its own is as long as its torrent.
LEMMA FilesLoadedKeeps ==
  ASSUME WizardInv, NEW x \in pend, FilesLoaded(x) PROVE WizardInv'
<1>1. PICK ok \in BOOLEAN :
        nj' = IF nj.pick.id # x.of \/ ~Picking THEN nj
              ELSE IF ~ok THEN [nj EXCEPT !.pick.loading = FALSE, !.pick.err = TRUE]
              ELSE TakeFiles(x)
  BY DEF FilesLoaded
<1>2. x.kind = "files" /\ pend' = pend \ {x} /\ jobs' = jobs /\ begun' = begun
  BY DEF FilesLoaded
<1>3. /\ x.link \in Torrent /\ x.of # 0
      /\ x.of = nj.pick.id => x.link = nj.pick.of /\ nj.pick.loading
  BY <1>2 DEF WizardInv, RepliesFit
<1>4. nj.pick \in Pick /\ PickFits(nj.pick) /\ PickFollows(nj)
  BY DEF WizardInv, WizardFits, IsWizard
<1>5. CASE nj.pick.id # x.of \/ ~Picking
  <2>1. nj' = nj
    BY <1>1, <1>5
  <2>2. RepliesFit'
    BY <1>2, <2>1 DEF WizardInv, RepliesFit
  <2> QED BY <1>2, <2>1, <2>2 DEF WizardInv
<1>6. CASE nj.pick.id = x.of /\ Picking
  <2>1. /\ nj.pick.loading /\ nj.pick.id # 0 /\ ~Arrived(nj.pick) /\ x.link = nj.pick.of
        /\ nj.pick.n = 0 /\ nj.pick.sel = {} /\ nj.type = "torrent" /\ nj.link = nj.pick.of
        /\ nj.step \in {"via", "files"}
    BY <1>3, <1>4, <1>6 DEF PickFits, PickFollows, Arrived
  \* no other reply of this number is left
  <2>2. \A y \in pend' : y.kind = "files" => y.of # nj.pick.id
    BY <1>2, <1>3, <1>6, <2>1 DEF WizardInv, RepliesFit
  <2>3. ASSUME nj'.pick.id = nj.pick.id PROVE RepliesFit'
    BY <1>2, <2>2, <2>3 DEF WizardInv, RepliesFit
  <2>4. CASE ~ok
    <3> DEFINE p == [nj.pick EXCEPT !.loading = FALSE, !.err = TRUE]
    <3>1. nj' = [nj EXCEPT !.pick = p]
      BY <1>1, <1>4, <1>6, <2>4 DEF WizardInv, WizardFits, IsWizard, Pick
    <3>2. /\ p.id = nj.pick.id /\ p.of = nj.pick.of /\ p.err = TRUE /\ p.loading = FALSE
          /\ p.n = 0 /\ p.sel = {} /\ p \in Pick
      BY <1>4, <2>1 DEF Pick
    <3> HIDE DEF p
    <3>3. /\ nj'.step = nj.step /\ nj'.type = nj.type /\ nj'.link = nj.link /\ nj'.pick = p
          /\ DOMAIN nj' = DOMAIN nj /\ nj' = [f \in DOMAIN nj' |-> nj'[f]]
      BY <3>1 DEF WizardInv, WizardFits, IsWizard
    <3>4. PickFits(p) /\ ~Arrived(p)
      <4>1. ~Arrived(p) /\ p # NoPick /\ p.sel = 1 .. p.n
        BY <2>1, <3>2, NoWizardFits DEF Arrived
      <4> QED BY <1>4, <2>1, <3>2, <4>1 DEF PickFits
    <3>5. WizardFits(nj')
      BY <2>1, <3>2, <3>3, <3>4 DEF WizardInv, WizardFits, IsWizard, PickFollows
    <3>6. RepliesFit'
      BY <2>3, <3>2, <3>3
    <3> QED BY <1>2, <3>5, <3>6 DEF WizardInv
  <2>5. CASE ok
    <3> DEFINE p == [nj.pick EXCEPT !.loading = FALSE, !.n = FilesOf[x.link], !.sel = 1 .. FilesOf[x.link]]
               w == [nj EXCEPT !.pick = p]
    <3>1. nj' = IF FilesOf[x.link] <= 1 /\ nj.step = "files" THEN Output(w) ELSE w
      <4>1. w = [nj EXCEPT !.pick.loading = FALSE, !.pick.n = FilesOf[x.link],
                           !.pick.sel = 1 .. FilesOf[x.link]]
        BY <1>4 DEF WizardInv, WizardFits, IsWizard, Pick
      <4> QED BY <1>1, <1>6, <2>5, <4>1 DEF TakeFiles
    <3>2. FilesOf[x.link] \in Nat
      BY <1>3, FilesKnown
    <3>3. /\ p.id = nj.pick.id /\ p.of = nj.pick.of /\ p.loading = FALSE /\ p.err = nj.pick.err
          /\ p.n = FilesOf[x.link] /\ p.sel = 1 .. p.n /\ p \in Pick
      <4> DEFINE n == FilesOf[x.link]
                 all == 1 .. n
      <4>1. n \in Nat /\ all \in SUBSET Nat
        BY <3>2
      <4>2. p = [nj.pick EXCEPT !.loading = FALSE, !.n = n, !.sel = all]
        OBVIOUS
      <4> HIDE DEF all, p
      <4>3. /\ p.id = nj.pick.id /\ p.of = nj.pick.of /\ p.loading = FALSE /\ p.err = nj.pick.err
            /\ p.n = n /\ p.sel = all
        BY <1>4, <4>2 DEF Pick
      <4>4. p \in Pick
        BY <1>4, <4>1, <4>2 DEF Pick
      <4> QED BY <4>3, <4>4 DEF all
    <3> HIDE DEF p
    <3>4. /\ w.step = nj.step /\ w.type = nj.type /\ w.link = nj.link /\ w.pick = p
          /\ DOMAIN w = DOMAIN nj /\ w = [f \in DOMAIN w |-> w[f]]
      BY DEF WizardInv, WizardFits, IsWizard
    <3> HIDE DEF w
    <3>5. /\ nj'.step = IF p.n <= 1 /\ nj.step = "files" THEN "output" ELSE nj.step
          /\ nj'.type = nj.type /\ nj'.link = nj.link /\ nj'.pick = p
          /\ DOMAIN nj' = DOMAIN nj /\ nj' = [f \in DOMAIN nj' |-> nj'[f]]
      BY <3>1, <3>3, <3>4 DEF Output, WizardInv, WizardFits, IsWizard
    <3>6. PickFits(p) /\ Arrived(p)
      <4>1. ~nj.pick.err
        BY <1>4, <2>1 DEF PickFits
      <4>2. Arrived(p) /\ p # NoPick
        BY <2>1, <3>3, <4>1, NoWizardFits DEF Arrived
      <4> QED BY <1>3, <2>1, <3>3, <4>2 DEF PickFits
    <3>7. WizardFits(nj')
      BY <2>1, <3>2, <3>3, <3>5, <3>6 DEF WizardInv, WizardFits, IsWizard, PickFollows, Steps
    <3>8. RepliesFit'
      BY <2>3, <3>3, <3>5
    <3> QED BY <1>2, <3>7, <3>8 DEF WizardInv
  <2> QED BY <2>4, <2>5
<1> QED BY <1>5, <1>6

\* The daemon may settle how a torrent is fetched, never which files.
LEMMA StartArrivesKeeps ==
  ASSUME WizardInv, NEW x \in pend, StartArrives(x) PROVE WizardInv'
<1>1. x.kind = "start" /\ pend' = pend \ {x} /\ nj' = nj /\ begun' = begun
  BY DEF StartArrives
<1>2. PICK box \in BoxSettings : jobs' \in {jobs, Added(x.job, box)}
  BY DEF StartArrives
<1>3. JobFits(x.job)
  BY <1>1 DEF WizardInv, RepliesFit
<1> DEFINE settled == [x.job EXCEPT !.via = ResolveVia(x.job.via, box)]
<1>4. JobFits(settled)
  <2>1. /\ settled.type = x.job.type /\ settled.link = x.job.link /\ settled.files = x.job.files
        /\ settled.listOf = x.job.listOf
        /\ DOMAIN settled = DOMAIN x.job /\ settled = [f \in DOMAIN settled |-> settled[f]]
    BY <1>3 DEF JobFits
  <2> HIDE DEF settled
  <2> QED BY <1>3, <2>1 DEF JobFits
<1>5. jobs' \subseteq jobs \cup {x.job, settled}
  BY <1>2 DEF Added
<1> HIDE DEF settled
<1>6. \A j \in jobs' : JobFits(j)
  BY <1>3, <1>4, <1>5 DEF WizardInv
<1>7. RepliesFit'
  BY <1>1 DEF WizardInv, RepliesFit
<1> QED BY <1>1, <1>6, <1>7 DEF WizardInv

-----------------------------------------------------------------------------

LEMMA WizardInvStep == WizardInv /\ [WizardNext]_wizardVars => WizardInv'
<1> SUFFICES ASSUME WizardInv, [WizardNext]_wizardVars PROVE WizardInv'
  OBVIOUS
<1>1. CASE UNCHANGED wizardVars
  BY <1>1 DEF wizardVars, WizardInv, WizardFits, IsWizard, PickFits, PickFollows, Arrived, RepliesFit
<1>2. CASE OpenWizard \/ PickType \/ PickPreset \/ EnterLink \/ SwitchVia \/ LeaveVia
  BY <1>2, OpenWizardKeeps, PickTypeKeeps, PickPresetKeeps, EnterLinkKeeps, SwitchViaKeeps, LeaveViaKeeps
<1>3. CASE TickFile \/ LeaveFiles \/ StepBack \/ EnterOutput \/ EnterRate
  BY <1>3, TickFileKeeps, LeaveFilesKeeps, StepBackKeeps, EnterOutputKeeps, EnterRateKeeps
<1>4. ASSUME NEW x \in pend, SettingsLoaded(x) \/ FilesLoaded(x) \/ StartArrives(x) PROVE WizardInv'
  BY <1>4, SettingsLoadedKeeps, FilesLoadedKeeps, StartArrivesKeeps
<1> QED BY <1>1, <1>2, <1>3, <1>4 DEF WizardNext

\* ChoiceIsOfLink: the files a torrent starts with were ticked in its own list, though the
\* wizard goes back and takes another link while a list is on its way (torrentFilesLoaded asks
\* whether the wizard still has the pick the list was for, torrentpick.go:64), and a torrent with a single
\* file never waits for a choice.
THEOREM ChoiceIsOfLinkHolds == WizardSpec => []ChoiceIsOfLink
BY WizardInvInit, WizardInvStep, InvGivesChoice, PTL DEF WizardSpec

-----------------------------------------------------------------------------
(* A torrent's details *)

\* The messages that carry an overlay's refresh: a read on its way, its answer, or a timer.
Chain(m, id) == {x \in m : x.of = id /\ x.kind \in {"load", "loaded", "tick"}}

\* What settled says of the chain, without counting.
Follows(m, id, settled) == IF settled THEN Chain(m, id) = {} ELSE \E x : Chain(m, id) = {x}

DetailsShape ==
  /\ DOMAIN ov = {"id", "rows", "live", "choice", "choosing", "settled", "pick"}
  /\ ov = [f \in DOMAIN ov |-> ov[f]]
  /\ ov.id \in Nat /\ ov.settled \in BOOLEAN
  /\ happened \in [opened : Nat, applied : Nat, moves : Nat]

\* The strengthening: an overlay's number is never given again, so a message of one that
\* was closed is never of the next.
OverlaysAreNumbered ==
  /\ ov.id <= happened.opened
  /\ \A x \in mail : x.of \in Nat /\ x.of <= happened.opened

DetailsInv ==
  DetailsShape /\ OverlaysAreNumbered /\ (ov.id # 0 => Follows(mail, ov.id, ov.settled))

LEMMA SentIs ==
  ASSUME NEW rest, NEW kind, NEW of, NEW data
  PROVE  \E y : Sent(rest, kind, of, data) = rest \cup {y} /\ y.kind = kind /\ y.of = of
<1> DEFINE n == CHOOSE k \in 0 .. Cardinality(rest) : \A x \in rest : x.n # k
           y == [kind |-> kind, of |-> of, n |-> n, data |-> data]
<1>1. Sent(rest, kind, of, data) = rest \cup {y}
  BY DEF Sent
<1>2. y.kind = kind /\ y.of = of
  OBVIOUS
<1> HIDE DEF y
<1> QED BY <1>1, <1>2

LEMMA NoOverlayIs ==
  /\ NoOverlay.id = 0 /\ NoOverlay.settled = FALSE /\ NoOverlay.settled \in BOOLEAN
  /\ DOMAIN NoOverlay = {"id", "rows", "live", "choice", "choosing", "settled", "pick"}
  /\ NoOverlay = [f \in DOMAIN NoOverlay |-> NoOverlay[f]]
BY DEF NoOverlay

\* A message that is not of the chain comes and goes without touching it.
LEMMA AsideFollows ==
  ASSUME NEW m, NEW id, NEW settled \in BOOLEAN, Follows(m, id, settled),
         NEW x, NEW y, x \notin Chain(m, id), ~(y.of = id /\ y.kind \in {"load", "loaded", "tick"})
  PROVE  /\ Follows(m \ {x}, id, settled)
         /\ Follows(m \cup {y}, id, settled)
         /\ Follows((m \ {x}) \cup {y}, id, settled)
<1>1. Chain(m \ {x}, id) = Chain(m, id)
  BY DEF Chain
<1>2. Chain(m \cup {y}, id) = Chain(m, id)
  BY DEF Chain
<1>3. Chain((m \ {x}) \cup {y}, id) = Chain(m, id)
  BY DEF Chain
<1> QED BY <1>1, <1>2, <1>3 DEF Follows

\* A message of the chain is all of it: the overlay has not settled, and nothing is left
\* once the message is gone.
LEMMA LinkIsAll ==
  ASSUME NEW m, NEW id, NEW settled \in BOOLEAN, Follows(m, id, settled), NEW x \in Chain(m, id)
  PROVE  ~settled /\ Chain(m \ {x}, id) = {}
<1>1. ~settled
  BY DEF Follows
<1>2. PICK z : Chain(m, id) = {z}
  BY <1>1 DEF Follows
<1>3. Chain(m, id) = {x}
  BY <1>2
<1>4. Chain(m \ {x}, id) = Chain(m, id) \ {x}
  BY DEF Chain
<1> QED BY <1>1, <1>3, <1>4

LEMMA ChainStarts ==
  ASSUME NEW m, NEW id, Chain(m, id) = {}, NEW y, y.of = id, y.kind \in {"load", "loaded", "tick"}
  PROVE  Follows(m \cup {y}, id, FALSE)
<1>1. Chain(m \cup {y}, id) = {y}
  BY DEF Chain
<1> QED BY <1>1 DEF Follows

\* The chain's own messages follow each other; any other answer is aside.
LEMMA PassesOn ==
  ASSUME NEW m, NEW id, NEW settled \in BOOLEAN, Follows(m, id, settled),
         NEW x \in m, NEW y, y.of = x.of,
         (x.kind \in {"load", "loaded", "tick"}) = (y.kind \in {"load", "loaded", "tick"})
  PROVE  Follows((m \ {x}) \cup {y}, id, settled)
<1>1. CASE x \in Chain(m, id)
  <2>1. ~settled /\ Chain(m \ {x}, id) = {}
    BY <1>1, LinkIsAll
  <2>2. y.of = id /\ y.kind \in {"load", "loaded", "tick"}
    BY <1>1 DEF Chain
  <2>3. Follows((m \ {x}) \cup {y}, id, FALSE)
    BY <2>1, <2>2, ChainStarts
  <2>4. settled = FALSE
    BY <2>1
  <2> QED BY <2>3, <2>4
<1>2. CASE x \notin Chain(m, id)
  <2>1. ~(y.of = id /\ y.kind \in {"load", "loaded", "tick"})
    BY <1>2 DEF Chain
  <2> QED BY <1>2, <2>1, AsideFollows
<1> QED BY <1>1, <1>2

LEMMA DetailsInitInv == DetailsInit => DetailsInv
<1> SUFFICES ASSUME DetailsInit PROVE DetailsInv
  OBVIOUS
<1>1. ov = NoOverlay /\ mail = {} /\ happened = [opened |-> 0, applied |-> 0, moves |-> 0]
  BY DEF DetailsInit
<1>2. happened \in [opened : Nat, applied : Nat, moves : Nat] /\ happened.opened = 0
  BY <1>1
<1>3. DetailsShape
  BY <1>1, <1>2, NoOverlayIs DEF DetailsShape
<1>4. OverlaysAreNumbered /\ ov.id = 0
  BY <1>1, <1>2, NoOverlayIs DEF OverlaysAreNumbered
<1> QED BY <1>3, <1>4 DEF DetailsInv

\* An action that leaves the overlay's number and its chain alone.
LEMMA NothingSent ==
  ASSUME DetailsInv, mail' = mail, ov' = ov,
         happened' \in [opened : Nat, applied : Nat, moves : Nat], happened'.opened = happened.opened
  PROVE  DetailsInv'
BY DEF DetailsInv, DetailsShape, OverlaysAreNumbered, Follows, Chain

LEMMA BoundedIs ==
  ASSUME DetailsInv, NEW what \in {"opened", "applied", "moves"}, NEW most, Bounded(what, most)
  PROVE  /\ happened' \in [opened : Nat, applied : Nat, moves : Nat]
         /\ happened'[what] = happened[what] + 1
         /\ what # "opened" => happened'.opened = happened.opened
BY DEF DetailsInv, DetailsShape, Bounded

\* A request is answered, with an answer of its own overlay.
LEMMA AnswersKeep ==
  ASSUME DetailsInv, NEW x \in mail, NEW kind, NEW data,
         mail' = Sent(mail \ {x}, kind, x.of, data), ov' = ov, happened' = happened,
         (x.kind \in {"load", "loaded", "tick"}) = (kind \in {"load", "loaded", "tick"})
  PROVE  DetailsInv'
<1>1. PICK y : mail' = (mail \ {x}) \cup {y} /\ y.kind = kind /\ y.of = x.of
  BY SentIs
<1>2. OverlaysAreNumbered'
  BY <1>1 DEF DetailsInv, OverlaysAreNumbered
<1>3. ASSUME ov.id # 0 PROVE Follows(mail', ov.id, ov.settled)
  <2>1. Follows(mail, ov.id, ov.settled) /\ ov.settled \in BOOLEAN
    BY <1>3 DEF DetailsInv, DetailsShape
  <2>2. (x.kind \in {"load", "loaded", "tick"}) = (y.kind \in {"load", "loaded", "tick"})
    BY <1>1
  <2>3. Follows((mail \ {x}) \cup {y}, ov.id, ov.settled)
    BY <1>1, <2>1, <2>2, PassesOn
  <2> QED BY <1>1, <2>3
<1>4. DetailsShape'
  BY DEF DetailsInv, DetailsShape
<1> QED BY <1>2, <1>3, <1>4 DEF DetailsInv

LEMMA AnswerKeeps ==
  ASSUME DetailsInv, NEW x \in mail, Answer(x)
  PROVE  DetailsInv'
<1>1. ov' = ov /\ happened' = happened
  BY DEF Answer
<1>2. \E kind, data : /\ mail' = Sent(mail \ {x}, kind, x.of, data)
                      /\ (x.kind \in {"load", "loaded", "tick"}) = (kind \in {"load", "loaded", "tick"})
  <2>1. CASE x.kind = "load" /\ mail' = Sent(mail \ {x}, "loaded", x.of, JobFiles)
    BY <2>1
  <2>2. CASE /\ x.kind = "choice"
             /\ mail' = Sent(mail \ {x}, "chosen", x.of, [ok |-> tor.status # "removed", rows |-> AllRows])
    <3>1. (x.kind \in {"load", "loaded", "tick"}) = ("chosen" \in {"load", "loaded", "tick"})
      BY <2>2
    <3> QED BY <2>2, <3>1, Zenon
  <2>3. CASE /\ x.kind = "apply"
             /\ mail' = Sent(mail \ {x}, "applied", x.of, [ok |-> tor.status # "removed"])
    <3>1. (x.kind \in {"load", "loaded", "tick"}) = ("applied" \in {"load", "loaded", "tick"})
      BY <2>3
    <3> QED BY <2>3, <3>1, Zenon
  <2> QED BY <2>1, <2>2, <2>3 DEF Answer
<1> QED BY <1>1, <1>2, AnswersKeep

LEMMA RequestFailsKeeps ==
  ASSUME DetailsInv, NEW x \in mail, RequestFails(x)
  PROVE  DetailsInv'
<1>1. mail' = Sent(mail \ {x}, Reply[x.kind], x.of, [ok |-> FALSE]) /\ ov' = ov /\ happened' = happened
  BY DEF RequestFails
<1>2. (x.kind \in {"load", "loaded", "tick"}) = (Reply[x.kind] \in {"load", "loaded", "tick"})
  <2>1. x.kind \in {"load", "choice", "apply"}
    BY DEF RequestFails, Reply
  <2> QED BY <2>1 DEF Reply
<1> QED BY <1>1, <1>2, AnswersKeep

LEMMA TakenIs ==
  ASSUME DetailsInv, NEW data
  PROVE  /\ Taken(data).id = ov.id /\ Taken(data).settled = ov.settled
         /\ DOMAIN Taken(data) = DOMAIN ov
         /\ Taken(data) = [f \in DOMAIN Taken(data) |-> Taken(data)[f]]
BY DEF DetailsInv, DetailsShape, Taken

LEMMA DetailsLoadedKeeps ==
  ASSUME DetailsInv, NEW x \in mail, DetailsLoaded(x)
  PROVE  DetailsInv'
<1>1. CASE ov.id # x.of
  <2>1. mail' = mail \ {x} /\ ov' = ov /\ happened' = happened
    BY <1>1 DEF DetailsLoaded
  <2>2. Chain(mail', ov.id) = Chain(mail, ov.id)
    BY <1>1, <2>1 DEF Chain
  <2> QED BY <2>1, <2>2 DEF DetailsInv, DetailsShape, OverlaysAreNumbered, Follows
<1>2. CASE ov.id = x.of
  <2> DEFINE T == Taken(x.data)
  <2>1. /\ ov' = [T EXCEPT !.settled = @ \/ Finished(seen)]
        /\ mail' = IF Finished(seen) THEN mail \ {x} ELSE Sent(mail \ {x}, "tick", x.of, NoData)
        /\ happened' = happened /\ x.kind = "loaded"
    BY <1>2 DEF DetailsLoaded
  <2>2. /\ T.id = ov.id /\ T.settled = ov.settled /\ DOMAIN T = DOMAIN ov
        /\ T = [f \in DOMAIN T |-> T[f]]
    BY TakenIs
  <2> HIDE DEF T
  <2>3. /\ DOMAIN ov' = DOMAIN ov /\ ov' = [f \in DOMAIN ov' |-> ov'[f]]
        /\ ov'.id = ov.id /\ ov'.settled = (ov.settled \/ Finished(seen))
    BY <2>1, <2>2 DEF DetailsInv, DetailsShape
  <2>4. DetailsShape'
    BY <2>1, <2>3 DEF DetailsInv, DetailsShape
  <2>5. ASSUME ov.id # 0 PROVE ~ov.settled /\ Chain(mail \ {x}, ov.id) = {}
    <3>1. x \in Chain(mail, ov.id)
      BY <1>2, <2>1 DEF Chain
    <3>2. Follows(mail, ov.id, ov.settled) /\ ov.settled \in BOOLEAN
      BY <2>5 DEF DetailsInv, DetailsShape
    <3> QED BY <3>1, <3>2, LinkIsAll
  <2>6. CASE Finished(seen)
    <3>1. mail' = mail \ {x} /\ ov'.settled
      BY <2>1, <2>3, <2>6
    <3>2. OverlaysAreNumbered'
      BY <2>1, <2>3, <3>1 DEF DetailsInv, OverlaysAreNumbered
    <3>3. ov'.id # 0 => Follows(mail', ov'.id, ov'.settled)
      BY <2>3, <2>5, <3>1 DEF Follows
    <3> QED BY <2>4, <3>2, <3>3 DEF DetailsInv
  <2>7. CASE ~Finished(seen)
    <3>1. PICK y : mail' = (mail \ {x}) \cup {y} /\ y.kind = "tick" /\ y.of = x.of
      BY <2>1, <2>7, SentIs
    <3>2. OverlaysAreNumbered'
      BY <2>1, <2>3, <3>1 DEF DetailsInv, OverlaysAreNumbered
    <3>3. ASSUME ov'.id # 0 PROVE Follows(mail', ov'.id, ov'.settled)
      <4>1. ov'.settled = FALSE
        BY <2>3, <2>5, <2>7, <3>3
      <4>2. Follows((mail \ {x}) \cup {y}, ov.id, FALSE)
        BY <1>2, <2>3, <2>5, <3>1, <3>3, ChainStarts
      <4> QED BY <2>3, <3>1, <4>1, <4>2
    <3> QED BY <2>4, <3>2, <3>3 DEF DetailsInv
  <2> QED BY <2>6, <2>7
<1> QED BY <1>1, <1>2

LEMMA DetailsTickKeeps ==
  ASSUME DetailsInv, NEW x \in mail, DetailsTick(x)
  PROVE  DetailsInv'
<1>1. CASE ov.id = x.of
  <2>1. mail' = Sent(mail \ {x}, "load", x.of, NoData) /\ ov' = ov /\ happened' = happened
    BY <1>1 DEF DetailsTick
  <2>2. (x.kind \in {"load", "loaded", "tick"}) = ("load" \in {"load", "loaded", "tick"})
    BY DEF DetailsTick
  <2> QED BY <2>1, <2>2, AnswersKeep
<1>2. CASE ov.id # x.of
  <2>1. mail' = mail \ {x} /\ ov' = ov /\ happened' = happened
    BY <1>2 DEF DetailsTick
  <2>2. Chain(mail', ov.id) = Chain(mail, ov.id)
    BY <1>2, <2>1 DEF Chain
  <2> QED BY <2>1, <2>2 DEF DetailsInv, DetailsShape, OverlaysAreNumbered, Follows
<1> QED BY <1>1, <1>2

LEMMA DetailsChoiceLoadedKeeps ==
  ASSUME DetailsInv, NEW x \in mail, DetailsChoiceLoaded(x)
  PROVE  DetailsInv'
<1>1. mail' = mail \ {x} /\ happened' = happened /\ x.kind = "chosen"
  BY DEF DetailsChoiceLoaded
<1>2. /\ DOMAIN ov' = DOMAIN ov /\ ov' = [f \in DOMAIN ov' |-> ov'[f]]
      /\ ov'.id = ov.id /\ ov'.settled = ov.settled
  BY DEF DetailsChoiceLoaded, DetailsInv, DetailsShape
<1>3. Chain(mail', ov.id) = Chain(mail, ov.id)
  BY <1>1 DEF Chain
<1> QED BY <1>1, <1>2, <1>3 DEF DetailsInv, DetailsShape, OverlaysAreNumbered, Follows

LEMMA DetailsAppliedKeeps ==
  ASSUME DetailsInv, NEW x \in mail, DetailsApplied(x)
  PROVE  DetailsInv'
<1>1. x.kind = "applied" /\ happened' = happened /\ Chain(mail \ {x}, ov.id) = Chain(mail, ov.id)
  BY DEF DetailsApplied, Chain
<1>2. CASE ~(ov.id = x.of /\ x.data.ok)
  <2>1. ov' = ov /\ mail' = mail \ {x}
    BY <1>2 DEF DetailsApplied
  <2> QED BY <1>1, <2>1 DEF DetailsInv, DetailsShape, OverlaysAreNumbered, Follows
<1>3. CASE ov.id = x.of /\ x.data.ok
  <2>1. ov' = [ov EXCEPT !.pick = <<>>, !.settled = FALSE]
    BY <1>3 DEF DetailsApplied
  <2>2. /\ DOMAIN ov' = DOMAIN ov /\ ov' = [f \in DOMAIN ov' |-> ov'[f]]
        /\ ov'.id = ov.id /\ ov'.settled = FALSE
    BY <2>1 DEF DetailsInv, DetailsShape
  <2>3. DetailsShape'
    BY <1>1, <2>2 DEF DetailsInv, DetailsShape
  <2>4. CASE ov.settled
    <3>1. PICK y : mail' = (mail \ {x}) \cup {y} /\ y.kind = "tick" /\ y.of = x.of
      BY <1>3, <2>4, SentIs DEF DetailsApplied
    <3>2. OverlaysAreNumbered'
      BY <1>1, <2>2, <3>1 DEF DetailsInv, OverlaysAreNumbered
    <3>3. ASSUME ov'.id # 0 PROVE Follows(mail', ov'.id, ov'.settled)
      <4>1. Chain(mail \ {x}, ov.id) = {}
        BY <1>1, <2>2, <2>4, <3>3 DEF DetailsInv, Follows
      <4>2. Follows((mail \ {x}) \cup {y}, ov.id, FALSE)
        BY <1>3, <3>1, <4>1, ChainStarts
      <4> QED BY <2>2, <3>1, <4>2
    <3> QED BY <2>3, <3>2, <3>3 DEF DetailsInv
  <2>5. CASE ~ov.settled
    <3>1. mail' = mail \ {x}
      BY <1>3, <2>5 DEF DetailsApplied
    <3> QED BY <1>1, <2>2, <2>3, <2>5, <3>1 DEF DetailsInv, OverlaysAreNumbered, Follows
  <2> QED BY <2>4, <2>5
<1> QED BY <1>2, <1>3

LEMMA OpenDetailsKeeps ==
  ASSUME DetailsInv, OpenDetails
  PROVE  DetailsInv'
<1> DEFINE id == happened.opened + 1
<1>1. /\ happened' \in [opened : Nat, applied : Nat, moves : Nat] /\ happened'.opened = id
      /\ happened.opened \in Nat
  BY BoundedIs DEF OpenDetails, DetailsInv, DetailsShape
<1>2. /\ DOMAIN ov' = {"id", "rows", "live", "choice", "choosing", "settled", "pick"}
      /\ ov' = [f \in DOMAIN ov' |-> ov'[f]] /\ ov'.id = id /\ ov'.settled = FALSE
  BY NoOverlayIs DEF OpenDetails
<1>3. PICK y : mail' = mail \cup {y} /\ y.kind = "load" /\ y.of = id
  BY SentIs DEF OpenDetails
<1>4. DetailsShape'
  BY <1>1, <1>2 DEF DetailsShape
<1>5. \A x \in mail : x.of \in Nat /\ x.of < id
  BY <1>1 DEF DetailsInv, OverlaysAreNumbered
<1>6. OverlaysAreNumbered'
  BY <1>1, <1>2, <1>3, <1>5 DEF OverlaysAreNumbered
<1>7. Chain(mail, id) = {}
  BY <1>1, <1>5 DEF Chain
<1> HIDE DEF id
<1>8. Follows(mail \cup {y}, id, FALSE)
  BY <1>3, <1>7, ChainStarts
<1> QED BY <1>2, <1>3, <1>4, <1>6, <1>8 DEF DetailsInv

LEMMA CloseDetailsKeeps ==
  ASSUME DetailsInv, CloseDetails
  PROVE  DetailsInv'
<1>1. ov' = NoOverlay /\ mail' = mail /\ happened' = happened
  BY DEF CloseDetails
<1>2. DetailsShape'
  BY <1>1, NoOverlayIs DEF DetailsInv, DetailsShape
<1>3. happened.opened \in Nat
  BY DEF DetailsInv, DetailsShape
<1>4. OverlaysAreNumbered' /\ ov'.id = 0
  BY <1>1, <1>3, NoOverlayIs DEF DetailsInv, OverlaysAreNumbered
<1> QED BY <1>2, <1>4 DEF DetailsInv

\* A request that is none of the chain's.
LEMMA AsksAside ==
  ASSUME DetailsInv, NEW kind \in {"choice", "apply"}, NEW data, mail' = Sent(mail, kind, ov.id, data),
         happened' \in [opened : Nat, applied : Nat, moves : Nat], happened'.opened = happened.opened,
         DOMAIN ov' = DOMAIN ov, ov' = [f \in DOMAIN ov' |-> ov'[f]],
         ov'.id = ov.id, ov'.settled = ov.settled
  PROVE  DetailsInv'
<1>1. PICK y : mail' = mail \cup {y} /\ y.kind = kind /\ y.of = ov.id
  BY SentIs
<1>2. Chain(mail', ov.id) = Chain(mail, ov.id)
  BY <1>1 DEF Chain
<1>3. OverlaysAreNumbered'
  BY <1>1 DEF DetailsInv, DetailsShape, OverlaysAreNumbered
<1> QED BY <1>2, <1>3 DEF DetailsInv, DetailsShape, Follows

LEMMA ChooseFilesKeeps ==
  ASSUME DetailsInv, ChooseFiles
  PROVE  DetailsInv'
<1>1. mail' = Sent(mail, "choice", ov.id, NoData) /\ happened' = happened
  BY DEF ChooseFiles
<1>2. /\ DOMAIN ov' = DOMAIN ov /\ ov' = [f \in DOMAIN ov' |-> ov'[f]]
      /\ ov'.id = ov.id /\ ov'.settled = ov.settled
      /\ happened \in [opened : Nat, applied : Nat, moves : Nat]
  BY DEF ChooseFiles, DetailsInv, DetailsShape
<1> QED BY <1>1, <1>2, AsksAside

LEMMA TicksKeeps ==
  ASSUME DetailsInv, Ticks
  PROVE  DetailsInv'
<1>1. mail' = mail /\ happened' = happened
  BY DEF Ticks
<1>2. \E pick : ov' = [ov EXCEPT !.pick = pick]
  BY DEF Ticks
<1>3. /\ DOMAIN ov' = DOMAIN ov /\ ov' = [f \in DOMAIN ov' |-> ov'[f]]
      /\ ov'.id = ov.id /\ ov'.settled = ov.settled
  BY <1>2 DEF DetailsInv, DetailsShape
<1> QED BY <1>1, <1>3 DEF DetailsInv, DetailsShape, OverlaysAreNumbered

LEMMA ApplyKeeps ==
  ASSUME DetailsInv, Apply
  PROVE  DetailsInv'
<1> DEFINE want == {r.index : r \in {s \in ov.rows : Wants(ov.pick, s)}}
<1>1. mail' = Sent(mail, "apply", ov.id, [want |-> want]) /\ ov' = ov
  BY DEF Apply
<1>2. happened' \in [opened : Nat, applied : Nat, moves : Nat] /\ happened'.opened = happened.opened
  BY BoundedIs DEF Apply
<1>3. DOMAIN ov' = DOMAIN ov /\ ov' = [f \in DOMAIN ov' |-> ov'[f]]
      /\ ov'.id = ov.id /\ ov'.settled = ov.settled
  BY <1>1 DEF DetailsInv, DetailsShape
<1> HIDE DEF want
<1> QED BY <1>1, <1>2, <1>3, AsksAside

LEMMA DetailsNextKeeps ==
  ASSUME DetailsInv, [DetailsNext]_detailVars
  PROVE  DetailsInv'
<1>1. CASE JobMoves
  <2>1. Bounded("moves", MaxJobMoves) /\ mail' = mail /\ ov' = ov
    BY <1>1 DEF JobMoves
  <2> QED BY <2>1, BoundedIs, NothingSent
<1>2. CASE \E want \in SUBSET File \ {{}} : PageSelects(want)
  <2>1. Bounded("applied", MaxApplied) /\ mail' = mail /\ ov' = ov
    BY <1>2 DEF PageSelects
  <2> QED BY <2>1, BoundedIs, NothingSent
<1>3. CASE DashboardSees \/ UNCHANGED detailVars
  <2>1. happened' = happened /\ mail' = mail /\ ov' = ov
    BY <1>3 DEF DashboardSees, detailVars
  <2>2. happened \in [opened : Nat, applied : Nat, moves : Nat]
    BY DEF DetailsInv, DetailsShape
  <2> QED BY <2>1, <2>2, NothingSent
<1>4. CASE OpenDetails \/ CloseDetails \/ ChooseFiles \/ Ticks \/ Apply
  BY <1>4, OpenDetailsKeeps, CloseDetailsKeeps, ChooseFilesKeeps, TicksKeeps, ApplyKeeps
<1>5. CASE \E x \in mail : \/ Answer(x) \/ RequestFails(x) \/ DetailsLoaded(x) \/ DetailsTick(x)
                           \/ DetailsChoiceLoaded(x) \/ DetailsApplied(x)
  BY <1>5, AnswerKeeps, RequestFailsKeeps, DetailsLoadedKeeps, DetailsTickKeeps,
     DetailsChoiceLoadedKeeps, DetailsAppliedKeeps
<1> QED BY <1>1, <1>2, <1>3, <1>4, <1>5 DEF DetailsNext

\* However often a torrent's details are opened, closed and applied, and in whatever order
\* the answers and the timers come, each overlay is followed by the messages of one chain, and
\* by none once it has settled; a number given to an overlay is never given again.
THEOREM DetailsInvHolds == DetailsSpec => []DetailsInv
<1>1. DetailsInv /\ [DetailsNext]_detailVars => DetailsInv'
  BY DetailsNextKeeps
<1> QED BY <1>1, DetailsInitInv, PTL DEF DetailsSpec

\* An open overlay re-reads its list along one chain, and along none once it has settled
\* (details.go:121-178): opening, closing and applying again never leave two running.
THEOREM OneRefreshHolds == DetailsSpec => []OneRefresh
<1>1. DetailsInv => OneRefresh
  <2>1. SUFFICES ASSUME DetailsInv, ov.id # 0
                 PROVE  Cardinality(Chain(mail, ov.id)) = IF ov.settled THEN 0 ELSE 1
    BY DEF OneRefresh, Chain
  <2>2. Follows(mail, ov.id, ov.settled) /\ ov.settled \in BOOLEAN
    BY <2>1 DEF DetailsInv, DetailsShape
  <2>3. CASE ov.settled
    BY <2>2, <2>3, FS_EmptySet DEF Follows
  <2>4. CASE ~ov.settled
    <3>1. PICK x : Chain(mail, ov.id) = {x}
      BY <2>2, <2>4 DEF Follows
    <3>2. Cardinality({x}) = 1
      BY FS_Singleton
    <3> QED BY <2>4, <3>1, <3>2
  <2> QED BY <2>3, <2>4
<1> QED BY <1>1, DetailsInvHolds, PTL

-----------------------------------------------------------------------------
(* The list of jobs *)

\* A strict total order of the numbers up to n, and the place each has in it.
Orders(Lt, n) ==
  /\ \A i \in 1 .. n : <<i, i>> \notin Lt
  /\ \A i, j \in 1 .. n : i # j => <<i, j>> \in Lt \/ <<j, i>> \in Lt
  /\ \A i, j, k \in 1 .. n : <<i, j>> \in Lt /\ <<j, k>> \in Lt => <<i, k>> \in Lt
PlaceIn(Lt, n) == [i \in 1 .. n |-> 1 + Cardinality({k \in 1 .. n : <<k, i>> \in Lt})]

\* Each number has a place of its own, and no place is empty.
LEMMA PlacesAreAll ==
  ASSUME NEW n \in Nat, NEW Lt, Orders(Lt, n)
  PROVE  PlaceIn(Lt, n) \in Injection(1 .. n, 1 .. n) /\ PlaceIn(Lt, n) \in Surjection(1 .. n, 1 .. n)
<1> DEFINE place == PlaceIn(Lt, n)
<1> DEFINE low(i) == {k \in 1 .. n : <<k, i>> \in Lt}
<1>1. IsFiniteSet(1 .. n) /\ Cardinality(1 .. n) = n
  BY FS_Interval
<1>2. ASSUME NEW i \in 1 .. n
      PROVE  IsFiniteSet(low(i)) /\ Cardinality(low(i)) \in 0 .. n - 1
  <2>1. IsFiniteSet(low(i)) /\ Cardinality(low(i)) <= n /\ (n = Cardinality(low(i)) => low(i) = 1 .. n)
    <3>1. low(i) \in SUBSET (1 .. n)
      OBVIOUS
    <3> HIDE DEF low
    <3> QED BY <1>1, <3>1, FS_Subset
  <2>2. low(i) # 1 .. n
    BY DEF Orders
  <2>3. Cardinality(low(i)) \in Nat
    <3> HIDE DEF low
    <3> QED BY <2>1, FS_CardinalityType
  <2> HIDE DEF low
  <2> QED BY <2>1, <2>2, <2>3
<1>3. ASSUME NEW i \in 1 .. n, NEW j \in 1 .. n, <<i, j>> \in Lt
      PROVE  Cardinality(low(i)) # Cardinality(low(j))
  <2>1. low(i) \in SUBSET low(j)
    BY <1>3 DEF Orders
  <2>2. i \in low(j) /\ i \notin low(i)
    BY <1>3 DEF Orders
  <2>3. low(i) # low(j)
    BY <2>2
  <2>4. IsFiniteSet(low(j))
    BY <1>2
  <2> HIDE DEF low
  <2> QED BY <2>1, <2>3, <2>4, FS_Subset
<1>4. \A i \in 1 .. n : place[i] = 1 + Cardinality(low(i)) /\ place[i] \in 1 .. n
  <2> SUFFICES ASSUME NEW i \in 1 .. n PROVE place[i] = 1 + Cardinality(low(i)) /\ place[i] \in 1 .. n
    OBVIOUS
  <2>1. place[i] = 1 + Cardinality(low(i))
    BY DEF PlaceIn
  <2>2. Cardinality(low(i)) \in 0 .. n - 1
    BY <1>2
  <2> HIDE DEF low
  <2> QED BY <2>1, <2>2
<1>5. place \in [1 .. n -> 1 .. n]
  BY <1>4 DEF PlaceIn
<1>6. ASSUME NEW i \in 1 .. n, NEW j \in 1 .. n, i # j PROVE place[i] # place[j]
  <2>1. Cardinality(low(i)) # Cardinality(low(j))
    BY <1>3, <1>6 DEF Orders
  <2>2. Cardinality(low(i)) \in 0 .. n - 1 /\ Cardinality(low(j)) \in 0 .. n - 1
    BY <1>2
  <2>3. place[i] = 1 + Cardinality(low(i)) /\ place[j] = 1 + Cardinality(low(j))
    BY <1>4
  <2> HIDE DEF low
  <2> QED BY <2>1, <2>2, <2>3
<1> HIDE DEF low
<1>7. place \in Injection(1 .. n, 1 .. n)
  <2>1. \A i, j \in 1 .. n : place[i] = place[j] => i = j
    BY <1>6
  <2> QED BY <1>5, <2>1, Zenon DEF Injection, IsInjective
<1> HIDE DEF place
<1> QED BY <1>1, <1>7, FS_Injection DEF place

\* Rows are a list's jobs, each once.
Permutes(rows, raw) ==
  \E q \in Injection(1 .. Len(raw), 1 .. Len(raw)) :
    /\ q \in Surjection(1 .. Len(raw), 1 .. Len(raw))
    /\ rows = [i \in 1 .. Len(raw) |-> raw[q[i]]]

Job == [id : Nat, status : Status]

LEMMA ReverseIs ==
  ASSUME NEW raw \in Seq(Job)
  PROVE  /\ Reverse(raw) \in Seq(Job) /\ DOMAIN Reverse(raw) = 1 .. Len(raw)
         /\ \A i \in 1 .. Len(raw) : Reverse(raw)[i] = raw[(Len(raw) - i) + 1]
BY DEF Reverse

\* sortJobs: no job is lost, and none is shown twice, in any order and either way round.
LEMMA SortPermutes ==
  ASSUME NEW raw \in Seq(Job), NEW by, NEW rev \in BOOLEAN
  PROVE  Permutes(SortJobs(raw, by, rev), raw)
<1> DEFINE n == Len(raw)
           newest == Reverse(raw)
           back == [i \in 1 .. n |-> (n - i) + 1]
<1>0. n \in Nat /\ DOMAIN raw = 1 .. n /\ raw = [i \in 1 .. n |-> raw[i]]
  OBVIOUS
<1>1. newest \in Seq(Job) /\ DOMAIN newest = 1 .. n /\ \A i \in 1 .. n : newest[i] = raw[(n - i) + 1]
  BY ReverseIs
<1>2. back \in Injection(1 .. n, 1 .. n) /\ back \in Surjection(1 .. n, 1 .. n)
  <2>1. back \in [1 .. n -> 1 .. n] /\ \A i, j \in 1 .. n : back[i] = back[j] => i = j
    BY <1>0
  <2>2. \A i \in 1 .. n : back[(n - i) + 1] = i /\ (n - i) + 1 \in 1 .. n
    BY <1>0
  <2> HIDE DEF back
  <2> QED BY <2>1, <2>2 DEF Injection, IsInjective, Surjection
<1>3. CASE by = "newest" /\ rev
  <2> DEFINE q == [i \in 1 .. n |-> i]
  <2>1. q \in Injection(1 .. n, 1 .. n) /\ q \in Surjection(1 .. n, 1 .. n)
    BY DEF Injection, IsInjective, Surjection
  <2>2. SortJobs(raw, by, rev) = raw
    BY <1>3 DEF SortJobs
  <2>3. raw = [i \in 1 .. n |-> raw[q[i]]]
    BY <1>0
  <2> HIDE DEF q
  <2> QED BY <2>1, <2>2, <2>3 DEF Permutes
<1>4. CASE by = "newest" /\ ~rev
  <2>1. SortJobs(raw, by, rev) = newest
    BY <1>4 DEF SortJobs
  <2>2. newest = [i \in 1 .. n |-> raw[back[i]]]
    BY <1>0, <1>1
  <2> HIDE DEF back
  <2> QED BY <1>2, <2>1, <2>2 DEF Permutes
<1>5. CASE by # "newest"
  <2> DEFINE r == [i \in 1 .. n |-> IF rev THEN 0 - Rank(newest[i].status) ELSE Rank(newest[i].status)]
             Lt == {ss \in (1 .. n) \X (1 .. n) :
                      r[ss[1]] < r[ss[2]] \/ (ss[1] < ss[2] /\ ~(r[ss[2]] < r[ss[1]]))}
             place == PlaceIn(Lt, n)
             at == [p \in 1 .. n |-> CHOOSE i \in 1 .. n : place[i] = p]
             Before(a, b) == IF rev THEN Rank(b.status) < Rank(a.status) ELSE Rank(a.status) < Rank(b.status)
             low(i) == {k \in DOMAIN newest :
                          Before(newest[k], newest[i]) \/ (k < i /\ ~Before(newest[i], newest[k]))}
  <2>1. \A s : Rank(s) \in Nat
    BY DEF Rank
  <2>2. \A i \in 1 .. n : r[i] \in Int
    BY <2>1
  <2>3. ASSUME NEW i \in 1 .. n, NEW k \in 1 .. n
        PROVE  /\ Before(newest[k], newest[i]) <=> (r[k] < r[i])
               /\ Before(newest[i], newest[k]) <=> (r[i] < r[k])
    <3>1. Rank(newest[i].status) \in Nat /\ Rank(newest[k].status) \in Nat
      BY <2>1
    <3> QED BY <3>1
  <2>4. ASSUME NEW i \in 1 .. n PROVE low(i) = {k \in 1 .. n : <<k, i>> \in Lt}
    <3>1. ASSUME NEW k \in 1 .. n
          PROVE  (Before(newest[k], newest[i]) \/ (k < i /\ ~Before(newest[i], newest[k])))
                 <=> <<k, i>> \in Lt
      <4> HIDE DEF r, Before
      <4> QED BY <2>3
    <3> HIDE DEF Lt, Before
    <3> QED BY <1>1, <3>1
  <2>5. Orders(Lt, n)
    <3> HIDE DEF r
    <3> QED BY <1>0, <2>2 DEF Orders
  <2>6. place \in Injection(1 .. n, 1 .. n) /\ place \in Surjection(1 .. n, 1 .. n)
    <3>1. n \in Nat
      BY <1>0
    <3> HIDE DEF n, Lt
    <3> QED BY <2>5, <3>1, PlacesAreAll
  <2>7. \A i \in 1 .. n : 1 + Cardinality(low(i)) = place[i]
    <3> HIDE DEF Lt, low
    <3> QED BY <2>4 DEF PlaceIn
  <2>8. SortJobs(raw, by, rev)
          = [p \in DOMAIN raw |-> newest[CHOOSE i \in DOMAIN newest : 1 + Cardinality(low(i)) = p]]
    BY <1>5 DEF SortJobs
  <2> HIDE DEF low, place, newest
  <2>9. \A p \in 1 .. n : at[p] \in 1 .. n /\ place[at[p]] = p
    BY <2>6 DEF Surjection
  <2>10. \A p \in 1 .. n : (CHOOSE i \in DOMAIN newest : 1 + Cardinality(low(i)) = p) = at[p]
    BY <1>1, <2>7
  <2>11. SortJobs(raw, by, rev) = [p \in 1 .. n |-> newest[at[p]]]
    BY <1>0, <2>8, <2>10
  <2> DEFINE q == [p \in 1 .. n |-> back[at[p]]]
  <2>12. \A p \in 1 .. n : newest[at[p]] = raw[q[p]]
    BY <1>0, <1>1, <2>9
  <2>13. q \in Injection(1 .. n, 1 .. n)
    <3> HIDE DEF at, back
    <3>1. q \in [1 .. n -> 1 .. n]
      BY <1>2, <2>9 DEF Injection
    <3>2. ASSUME NEW x \in 1 .. n, NEW y \in 1 .. n, q[x] = q[y] PROVE x = y
      <4>1. at[x] = at[y]
        BY <1>2, <2>9, <3>2 DEF Injection, IsInjective
      <4> QED BY <2>9, <4>1
    <3> HIDE DEF q
    <3> QED BY <3>1, <3>2 DEF Injection, IsInjective
  <2> HIDE DEF at, q
  <2>14. q \in Surjection(1 .. n, 1 .. n)
    <3>1. IsFiniteSet(1 .. n)
      <4>1. 1 \in Int /\ n \in Int
        BY <1>0
      <4> HIDE DEF n
      <4> QED BY <4>1, FS_Interval
    <3> QED BY <2>13, <3>1, FS_Injection
  <2>15. SortJobs(raw, by, rev) = [p \in 1 .. n |-> raw[q[p]]]
    BY <2>11, <2>12
  <2> QED BY <2>13, <2>14, <2>15 DEF Permutes
<1> QED BY <1>3, <1>4, <1>5

-----------------------------------------------------------------------------
\* What the list is drawn from is a record of these fields.
Tabular(t) ==
  /\ DOMAIN t = {"raw", "rows", "cursor", "selected", "by", "rev", "asks", "footer", "err"}
  /\ t = [f \in DOMAIN t |-> t[f]]

DashShape ==
  /\ Tabular(table) /\ table.rev \in BOOLEAN
  /\ listOps \in [bulks : Nat, moves : Nat]
  /\ listed \in Seq(Job) /\ table.raw \in Seq(Job)

\* The rows are the jobs of the last snapshot, each once.
DashInv == DashShape /\ Permutes(table.rows, table.raw)

LEMMA ApplyJobsIs ==
  ASSUME NEW t, Tabular(t), NEW raw
  PROVE  /\ Tabular(ApplyJobs(t, raw))
         /\ ApplyJobs(t, raw).cursor = CursorById(t, ApplyJobs(t, raw).rows)
         /\ ApplyJobs(t, raw).rows = SortJobs(raw, t.by, t.rev)
         /\ ApplyJobs(t, raw).raw = raw /\ ApplyJobs(t, raw).rev = t.rev
<1> DEFINE rows == SortJobs(raw, t.by, t.rev)
           sel == PruneSelected(t, rows)
           cur == CursorById(t, rows)
           u == [t EXCEPT !.raw = raw, !.rows = rows, !.err = FALSE, !.selected = sel, !.cursor = cur]
<1>1. ApplyJobs(t, raw) = u
  BY DEF ApplyJobs
<1>2. CursorById(t, rows) = cur /\ SortJobs(raw, t.by, t.rev) = rows
  OBVIOUS
<1> HIDE DEF rows, sel, cur
<1>3. Tabular(u) /\ u.rows = rows /\ u.cursor = cur /\ u.raw = raw /\ u.rev = t.rev
  BY DEF Tabular
<1> HIDE DEF u
<1> QED BY <1>1, <1>2, <1>3

\* A job under the cursor that is still in the rows is under the cursor again.
LEMMA CursorByIdStays ==
  ASSUME NEW t, NEW rows, NEW j \in CursorJob(t), j.id \in Ids(rows)
  PROVE  CursorById(t, rows) \in DOMAIN rows /\ rows[CursorById(t, rows)].id = j.id
<1> DEFINE Same == {i \in DOMAIN rows : \E k \in CursorJob(t) : rows[i].id = k.id}
<1>1. PICK i \in DOMAIN rows : rows[i].id = j.id
  BY DEF Ids
<1>2. i \in Same
  BY <1>1
<1>3. rows # <<>>
  BY <1>1
<1>4. CursorById(t, rows) = CHOOSE x \in Same : TRUE
  BY <1>2, <1>3 DEF CursorById
<1>5. (CHOOSE x \in Same : TRUE) \in Same
  BY <1>2
<1>6. CursorById(t, rows) \in Same
  BY <1>4, <1>5
<1>7. \A k \in CursorJob(t) : k = j
  BY DEF CursorJob
<1> QED BY <1>6, <1>7

\* What an action does to the list: it leaves it alone but for the cursor, which moves by its
\* own key, or takes a list and puts the cursor by the job it was on.
SameList == table'.rows = table.rows /\ table'.raw = table.raw /\ table'.rev = table.rev
StaysOnRow == SameList /\ table'.cursor = table.cursor
FollowsJob ==
  \E t, raw : /\ Tabular(t) /\ t.rows = table.rows /\ t.cursor = table.cursor /\ t.rev \in BOOLEAN
              /\ raw \in {listed, table.raw} /\ table' = ApplyJobs(t, raw)

LEMMA TableStep ==
  ASSUME DashShape, [DashNext]_dashVars
  PROVE  \/ Tabular(table') /\ (StaysOnRow \/ (MoveCursor /\ SameList))
         \/ FollowsJob
<1>1. CASE table' = table
  BY <1>1 DEF DashShape, StaysOnRow, SameList
<1>2. CASE MoveCursor
  <2>1. \E i, f : table' = [table EXCEPT !.cursor = i, !.footer = f]
    BY <1>2, Zenon DEF MoveCursor, Key
  <2>2. Tabular(table') /\ SameList
    BY <2>1 DEF DashShape, Tabular, SameList
  <2> QED BY <1>2, <2>2
<1>3. CASE JobsArrive
  <2>1. table' = ApplyJobs(table, listed)
    BY <1>3 DEF JobsArrive
  <2>2. listed \in {listed, table.raw}
    OBVIOUS
  <2> QED BY <2>1, <2>2, Zenon DEF FollowsJob, DashShape
<1>4. CASE Sort
  <2>1. \/ \E v, f : table' = ApplyJobs([table EXCEPT !.by = v, !.footer = f], table.raw)
        \/ table' = ApplyJobs([table EXCEPT !.rev = ~@, !.footer = ""], table.raw)
    BY <1>4, Zenon DEF Sort, Key
  <2>2. ASSUME NEW t, Tabular(t) /\ t.rows = table.rows /\ t.cursor = table.cursor /\ t.rev \in BOOLEAN,
               table' = ApplyJobs(t, table.raw)
        PROVE  FollowsJob
    <3>1. table.raw \in {listed, table.raw}
      OBVIOUS
    <3> QED BY <2>2, <3>1, Zenon DEF FollowsJob
  <2>3. ASSUME NEW v, NEW f, table' = ApplyJobs([table EXCEPT !.by = v, !.footer = f], table.raw)
        PROVE  FollowsJob
    <3> DEFINE t == [table EXCEPT !.by = v, !.footer = f]
    <3>1. Tabular(t) /\ t.rows = table.rows /\ t.cursor = table.cursor /\ t.rev \in BOOLEAN
      BY DEF DashShape, Tabular
    <3>2. table' = ApplyJobs(t, table.raw)
      BY <2>3
    <3> HIDE DEF t
    <3> QED BY <2>2, <3>1, <3>2
  <2>4. ASSUME NEW v \in BOOLEAN, NEW f, table' = ApplyJobs([table EXCEPT !.rev = v, !.footer = f], table.raw)
        PROVE  FollowsJob
    <3> DEFINE t == [table EXCEPT !.rev = v, !.footer = f]
    <3>1. Tabular(t) /\ t.rows = table.rows /\ t.cursor = table.cursor /\ t.rev \in BOOLEAN
      BY DEF DashShape, Tabular
    <3>2. table' = ApplyJobs(t, table.raw)
      BY <2>4
    <3> HIDE DEF t
    <3> QED BY <2>2, <3>1, <3>2
  <2>5. ASSUME table' = ApplyJobs([table EXCEPT !.rev = ~@, !.footer = ""], table.raw)
        PROVE  FollowsJob
    <3> DEFINE w == ~table.rev
               z == ""
    <3>1. table' = ApplyJobs([table EXCEPT !.rev = w, !.footer = z], table.raw)
      BY <2>5, Zenon
    <3>2. w \in BOOLEAN
      OBVIOUS
    <3> HIDE DEF w, z
    <3> QED BY <2>4, <3>1, <3>2, Zenon
  <2>6. FollowsJob
    BY <2>1, <2>3, <2>5, Zenon
  <2> QED BY <2>6
<1>5. CASE AnimTick \/ ListMoves \/ UNCHANGED dashVars \/ \E b \in bulk : BulkStep(b)
  <2>1. table' = table
    BY <1>5 DEF AnimTick, ListMoves, dashVars, BulkStep
  <2> QED BY <1>1, <2>1
<1>6. CASE SubscriptionFails
  <2>1. table' = [table EXCEPT !.err = TRUE]
    BY <1>6 DEF SubscriptionFails
  <2> QED BY <2>1 DEF DashShape, Tabular, StaysOnRow, SameList
<1>7. CASE Check
  <2>1. \E s, f : table' = [table EXCEPT !.footer = f, !.selected = s]
    BY <1>7, Zenon DEF Check, Key
  <2> QED BY <2>1 DEF DashShape, Tabular, StaysOnRow, SameList
<1>8. CASE AskRemove \/ Decline
  <2>1. \/ \E a, f : table' = [table EXCEPT !.footer = f, !.asks = a]
        \/ \E a, f : table' = [table EXCEPT !.asks = a, !.footer = f]
    BY <1>8, Zenon DEF AskRemove, Decline, Key
  <2> QED BY <2>1 DEF DashShape, Tabular, StaysOnRow, SameList
<1>9. CASE Act
  <2>1. \E s, f : table' = [[table EXCEPT !.footer = f] EXCEPT !.selected = s]
    BY <1>9, Zenon DEF Act, Send
  <2> QED BY <2>1 DEF DashShape, Tabular, StaysOnRow, SameList
<1>10. CASE Confirm
  <2>1. \E s, a, f : table' = [[table EXCEPT !.asks = a, !.footer = f] EXCEPT !.selected = s]
    BY <1>10, Zenon DEF Confirm, Send
  <2> QED BY <2>1 DEF DashShape, Tabular, StaysOnRow, SameList
<1>11. CASE \E b \in bulk : BulkDone(b)
  <2>1. \E f : table' = [table EXCEPT !.footer = f]
    BY <1>11, Zenon DEF BulkDone
  <2> QED BY <2>1 DEF DashShape, Tabular, StaysOnRow, SameList
<1> QED BY <1>2, <1>3, <1>4, <1>5, <1>6, <1>7, <1>8, <1>9, <1>10, <1>11 DEF DashNext

\* The daemon's list is one of jobs, whatever it does to them.
LEMMA ListStep ==
  ASSUME DashShape, [DashNext]_dashVars
  PROVE  listed' \in Seq(Job) /\ listOps' \in [bulks : Nat, moves : Nat]
<1>1. /\ listed \in Seq(Job) /\ listOps \in [bulks : Nat, moves : Nat]
      /\ Len(listed) \in Nat /\ DOMAIN listed = 1 .. Len(listed)
  BY DEF DashShape
<1>2. ASSUME NEW what \in {"bulks", "moves"}, NEW most, Op(what, most)
      PROVE  listOps' \in [bulks : Nat, moves : Nat]
  BY <1>1, <1>2 DEF Op
<1>3. \A i \in 1 .. Len(listed) : listed[i] \in Job
  BY <1>1
<1>4. ASSUME NEW id, NEW s \in Status PROVE Become(id, s) \in Seq(Job)
  <2>1. \A i \in 1 .. Len(listed) : [listed[i] EXCEPT !.status = s] \in Job
    BY <1>3 DEF Job
  <2>2. \A i \in 1 .. Len(listed) :
          (IF listed[i].id = id THEN [listed[i] EXCEPT !.status = s] ELSE listed[i]) \in Job
    BY <1>3, <2>1
  <2> QED BY <1>1, <2>2 DEF Become
<1>5. ASSUME NEW id PROVE Without(id) \in Seq(Job)
  <2>1. CASE id \notin Ids(listed)
    BY <1>1, <2>1 DEF Without
  <2>2. CASE id \in Ids(listed)
    <3> DEFINE at == CHOOSE i \in DOMAIN listed : listed[i].id = id
    <3>1. \E i \in DOMAIN listed : listed[i].id = id
      BY <2>2 DEF Ids
    <3>2. at \in 1 .. Len(listed)
      BY <1>1, <3>1
    <3>3. Without(id) = SubSeq(listed, 1, at - 1) \o SubSeq(listed, at + 1, Len(listed))
      BY <2>2 DEF Without, RemoveAt
    <3> HIDE DEF at
    <3>4. SubSeq(listed, 1, at - 1) \in Seq(Job) /\ SubSeq(listed, at + 1, Len(listed)) \in Seq(Job)
      BY <1>1, <3>2
    <3> QED BY <3>3, <3>4
  <2> QED BY <2>1, <2>2
<1>6. CASE \E b \in bulk : BulkStep(b)
  <2>1. listed' = listed \/ (\E id : listed' = Without(id)) \/ (\E id : listed' = Become(id, "paused"))
          \/ (\E id : listed' = Become(id, "active"))
    BY <1>6, Zenon DEF BulkStep
  <2>2. "paused" \in Status /\ "active" \in Status
    BY DEF Status, Moving
  <2>3. listOps' = listOps
    BY <1>6 DEF BulkStep
  <2> QED BY <1>1, <1>4, <1>5, <2>1, <2>2, <2>3
<1>7. CASE ListMoves
  <2>1. \/ listed' = Append(listed, [id |-> listOps.moves + 1, status |-> "active"])
        \/ \E i \in DOMAIN listed : \E s \in Status \ {listed[i].status} : listed' = Become(listed[i].id, s)
        \/ \E i \in DOMAIN listed : listed' = Without(listed[i].id)
    BY <1>7 DEF ListMoves
  <2>2. [id |-> listOps.moves + 1, status |-> "active"] \in Job
    BY <1>1 DEF Job, Status, Moving
  <2>3. listOps' \in [bulks : Nat, moves : Nat]
    BY <1>2, <1>7 DEF ListMoves
  <2>4. CASE listed' = Append(listed, [id |-> listOps.moves + 1, status |-> "active"])
    <3> DEFINE new == [id |-> listOps.moves + 1, status |-> "active"]
    <3>1. listed' = Append(listed, new) /\ new \in Job
      BY <2>2, <2>4
    <3> HIDE DEF new
    <3> QED BY <1>1, <2>3, <3>1
  <2>5. CASE \E i \in DOMAIN listed : \E s \in Status \ {listed[i].status} : listed' = Become(listed[i].id, s)
    BY <1>4, <2>3, <2>5
  <2>6. CASE \E i \in DOMAIN listed : listed' = Without(listed[i].id)
    BY <1>5, <2>3, <2>6
  <2> QED BY <2>1, <2>4, <2>5, <2>6
<1>8. CASE Act \/ Confirm
  <2>1. listed' = listed /\ Op("bulks", MaxBulks)
    BY <1>8 DEF Act, Confirm, Send
  <2> QED BY <1>1, <1>2, <2>1
<1>9. CASE \/ JobsArrive \/ AnimTick \/ SubscriptionFails \/ MoveCursor \/ Sort \/ Check
           \/ AskRemove \/ Decline \/ UNCHANGED dashVars \/ \E b \in bulk : BulkDone(b)
  <2>1. listed' = listed /\ listOps' = listOps
    BY <1>9, Zenon DEF JobsArrive, AnimTick, SubscriptionFails, MoveCursor, Sort, Check, AskRemove, Decline,
       dashVars, BulkDone, Key
  <2> QED BY <1>1, <2>1
<1> QED BY <1>6, <1>7, <1>8, <1>9 DEF DashNext

LEMMA DashInitInv == DashInit => DashInv
<1> SUFFICES ASSUME DashInit PROVE DashInv
  OBVIOUS
<1>1. \E f : table = [raw |-> <<>>, rows |-> <<>>, cursor |-> 0, selected |-> {},
              by |-> "newest", rev |-> FALSE, asks |-> None, footer |-> f, err |-> FALSE]
  BY Zenon DEF DashInit
<1>2. Tabular(table)
  BY <1>1 DEF Tabular
<1>3. table.raw = <<>> /\ table.rows = <<>>
  BY <1>1
<1>4. table.rev \in BOOLEAN
  BY <1>1
<1>5. listed = <<>> /\ listOps \in [bulks : Nat, moves : Nat]
  BY DEF DashInit
<1>6. Permutes(<<>>, <<>>)
  <2> DEFINE q == [i \in 1 .. 0 |-> i]
  <2>1. q \in Injection(1 .. 0, 1 .. 0) /\ q \in Surjection(1 .. 0, 1 .. 0)
    BY DEF Injection, IsInjective, Surjection
  <2>2. Len(<<>>) = 0 /\ <<>> = [i \in 1 .. 0 |-> <<>>[q[i]]]
    OBVIOUS
  <2> HIDE DEF q
  <2> QED BY <2>1, <2>2 DEF Permutes
<1>7. <<>> \in Seq(Job)
  OBVIOUS
<1>8. DashShape
  BY <1>2, <1>5, <1>3, <1>7, <1>4 DEF DashShape
<1> QED BY <1>6, <1>3, <1>8 DEF DashInv

LEMMA DashNextKeeps ==
  ASSUME DashInv, [DashNext]_dashVars
  PROVE  DashInv'
<1>1. DashShape /\ Permutes(table.rows, table.raw)
  BY DEF DashInv
<1>2. listed' \in Seq(Job) /\ listOps' \in [bulks : Nat, moves : Nat]
  BY <1>1, ListStep
<1>3. CASE Tabular(table') /\ SameList
  BY <1>1, <1>2, <1>3 DEF DashInv, DashShape, SameList
<1>4. CASE FollowsJob
  <2>1. PICK t, raw : /\ Tabular(t) /\ t.rows = table.rows /\ t.cursor = table.cursor /\ t.rev \in BOOLEAN
                      /\ raw \in {listed, table.raw} /\ table' = ApplyJobs(t, raw)
    BY <1>4 DEF FollowsJob
  <2>2. raw \in Seq(Job)
    BY <1>1, <2>1 DEF DashShape
  <2>3. /\ Tabular(table') /\ table'.raw = raw /\ table'.rev = t.rev
        /\ table'.rows = SortJobs(raw, t.by, t.rev)
    BY <2>1, ApplyJobsIs
  <2>4. Permutes(SortJobs(raw, t.by, t.rev), raw)
    BY <2>1, <2>2, SortPermutes
  <2> QED BY <1>2, <2>1, <2>2, <2>3, <2>4 DEF DashInv, DashShape
<1> QED BY <1>1, <1>3, <1>4, TableStep DEF StaysOnRow

LEMMA SameIds ==
  ASSUME NEW raw \in Seq(Job), NEW rows, Permutes(rows, raw)
  PROVE  Ids(rows) = Ids(raw)
<1>1. PICK q \in Injection(1 .. Len(raw), 1 .. Len(raw)) :
        /\ q \in Surjection(1 .. Len(raw), 1 .. Len(raw))
        /\ rows = [i \in 1 .. Len(raw) |-> raw[q[i]]]
  BY DEF Permutes
<1>2. /\ \A i \in 1 .. Len(raw) : q[i] \in 1 .. Len(raw)
      /\ \A i \in 1 .. Len(raw) : \E k \in 1 .. Len(raw) : q[k] = i
  BY <1>1 DEF Surjection
<1>3. DOMAIN rows = 1 .. Len(raw) /\ DOMAIN raw = 1 .. Len(raw)
      /\ \A i \in 1 .. Len(raw) : rows[i] = raw[q[i]]
  BY <1>1
<1>4. Ids(rows) \subseteq Ids(raw)
  BY <1>2, <1>3 DEF Ids
<1>5. Ids(raw) \subseteq Ids(rows)
  <2> SUFFICES ASSUME NEW i \in 1 .. Len(raw) PROVE raw[i].id \in Ids(rows)
    BY <1>3 DEF Ids
  <2>1. PICK k \in 1 .. Len(raw) : q[k] = i
    BY <1>2
  <2>2. rows[k] = raw[i] /\ k \in DOMAIN rows
    BY <1>3, <2>1
  <2> QED BY <2>2 DEF Ids
<1> QED BY <1>4, <1>5

\* In every order, either way round and through every snapshot, the rows are the jobs the
\* daemon last listed, each of them once (sort.go, update.go:19-25).
THEOREM RowsAreTheJobs == DashSpec => []DashInv
<1>1. DashInv /\ [DashNext]_dashVars => DashInv'
  BY DashNextKeeps
<1> QED BY <1>1, DashInitInv, PTL DEF DashSpec

\* The cursor stays on its job as long as the list has it, through snapshots and sorting
\* (update.go:19-25): whatever the rows were, the row the cursor goes to is that job's.
THEOREM CursorStaysHolds == DashSpec => CursorStays
<1> DEFINE Stays == \A j \in CursorJob(table) :
             j.id \in Ids(table'.rows) /\ ~MoveCursor => \E k \in CursorJob(table') : k.id = j.id
<1>1. DashShape /\ [DashNext]_dashVars => [Stays]_dashVars
  <2> SUFFICES ASSUME DashShape, [DashNext]_dashVars, NEW j \in CursorJob(table),
                      j.id \in Ids(table'.rows), ~MoveCursor
               PROVE  \E k \in CursorJob(table') : k.id = j.id
    OBVIOUS
  <2>1. StaysOnRow \/ FollowsJob
    BY TableStep
  <2>2. CASE StaysOnRow
    BY <2>2 DEF StaysOnRow, SameList, CursorJob
  <2>3. CASE FollowsJob
    <3>1. PICK t, raw : /\ Tabular(t) /\ t.rows = table.rows /\ t.cursor = table.cursor
                        /\ table' = ApplyJobs(t, raw)
      BY <2>3 DEF FollowsJob
    <3>2. j \in CursorJob(t)
      BY <3>1 DEF CursorJob
    <3>3. table'.cursor = CursorById(t, table'.rows)
      BY <3>1, ApplyJobsIs
    <3>4. table'.cursor \in DOMAIN table'.rows /\ table'.rows[table'.cursor].id = j.id
      BY <3>2, <3>3, CursorByIdStays
    <3> QED BY <3>4 DEF CursorJob
  <2> QED BY <2>1, <2>2, <2>3
<1>2. CursorStays <=> [][Stays]_dashVars
  BY DEF CursorStays
<1>3. DashInv => DashShape
  BY DEF DashInv
<1> QED BY <1>1, <1>2, <1>3, RowsAreTheJobs, PTL DEF DashSpec

\* The cursor leaves its job only when the daemon's list no longer has it, or by its own key:
\* sorting never hides a job from the cursor.
CursorLeavesGone ==
  [][ \A j \in CursorJob(table) :
        j.id \in Ids(table'.raw) /\ ~MoveCursor => \E k \in CursorJob(table') : k.id = j.id ]_dashVars

\* As above, with the daemon's list in the place of the rows (table.go, update.go:19-25).
THEOREM CursorLeavesGoneHolds == DashSpec => CursorLeavesGone
<1> DEFINE Stays == \A j \in CursorJob(table) :
             j.id \in Ids(table'.rows) /\ ~MoveCursor => \E k \in CursorJob(table') : k.id = j.id
           Leaves == \A j \in CursorJob(table) :
             j.id \in Ids(table'.raw) /\ ~MoveCursor => \E k \in CursorJob(table') : k.id = j.id
<1>1. DashInv' => Ids(table'.rows) = Ids(table'.raw)
  <2>1. DashInv' => table'.raw \in Seq(Job) /\ Permutes(table'.rows, table'.raw)
    BY DEF DashInv, DashShape
  <2> QED BY <2>1, SameIds
<1>2. DashInv' /\ [Stays]_dashVars => [Leaves]_dashVars
  BY <1>1
<1>3. CursorStays <=> [][Stays]_dashVars
  BY DEF CursorStays
<1>4. CursorLeavesGone <=> [][Leaves]_dashVars
  BY DEF CursorLeavesGone
<1> QED BY <1>2, <1>3, <1>4, RowsAreTheJobs, CursorStaysHolds, PTL

=============================================================================
