--------------------------- MODULE WebDAVBrowser ---------------------------
(***************************************************************************)
(* The terminal interface's WebDAV browser (tui/browse.go, and its         *)
(* messages in tui/update.go): a session is opened, a connection picked,   *)
(* folders are listed over the network while keys go on arriving, and      *)
(* files and folders are queued for download.  What is on a server is      *)
(* taken to stay as it is.                                                 *)
(***************************************************************************)
EXTENDS Naturals, FiniteSets

CONSTANTS
  Conn,          \* the saved connections
  Kids,          \* the tree: per folder, what is in it; under each name it goes by
  Above,         \* per name of a folder, path.Dir of it, which ends in no slash
  Folders,       \* which of it are folders
  MaxSessionsOpened, MaxListings, MaxListFails \* bounds

VARIABLES
  wb,       \* webdavBrowseState, or NoBrowser
  listings, \* listings on their way, each of a session, connection and folder
  queued,   \* the downloads asked for: connection and path
  browsed   \* what happened so far, against the bounds

browseVars == <<wb, listings, queued, browsed>>

NoConn == ""  \* wb.connName until a connection is picked
Nowhere == "" \* wb.path until the first listing has come
Dot == "."    \* path.Dir of it

\* entries, cache and selection carry the connection they were read from.
NoBrowser == [step |-> "closed", session |-> 0, conn |-> NoConn, path |-> Nowhere, entries |-> {},
              cache |-> {}, selected |-> {}, loading |-> FALSE, pending |-> Nowhere, err |-> FALSE, query |-> FALSE]

BrowseTypeOK ==
  /\ wb.step \in {"closed", "pick", "browse"} /\ wb.cache \subseteq DOMAIN Kids
  /\ wb.path \in DOMAIN Kids \cup {Nowhere, Dot}
  /\ \A l \in listings : l.dir \in DOMAIN Kids \cup {Dot} /\ l.conn \in Conn

Count(what, most) == browsed[what] < most /\ browsed' = [browsed EXCEPT ![what] = @ + 1]

\* client.List; "." is the folder the connection starts in.
On(conn, dir) == {[conn |-> conn, path |-> k] : k \in Kids[IF dir = Dot THEN "/" ELSE dir]}

\* visibleEntries: narrowed to a search, here to what is in no folder of folders.
Visible == IF wb.query THEN {e \in wb.entries : e.path \notin Folders} ELSE wb.entries

\* The entry under the cursor, when the listing is settled; an error does not unsettle it.
Current == IF wb.loading THEN {} ELSE Visible

OpenBrowser ==
  /\ wb.step = "closed" /\ Count("sessions", MaxSessionsOpened)
  /\ wb' = [NoBrowser EXCEPT !.step = "pick", !.session = browsed.sessions + 1]
  /\ UNCHANGED <<listings, queued>>

List(dir) == listings' = listings \cup {[session |-> wb.session, conn |-> wb.conn, dir |-> dir]}

\* webdavPickConnKey.
PickConn(c) ==
  /\ wb.step = "pick"
  /\ wb' = [wb EXCEPT !.step = "browse", !.conn = c, !.loading = TRUE, !.pending = "/"]
  /\ listings' = listings \cup {[session |-> wb.session, conn |-> c, dir |-> "/"]}
  /\ UNCHANGED <<queued, browsed>>

Escape ==
  /\ wb.step # "closed" /\ wb' = NoBrowser
  /\ UNCHANGED <<listings, queued, browsed>>

\* openWebDAVDir: from the cache, or by a listing.
OpenDir(dir) ==
  \/ /\ dir \in wb.cache
     /\ wb' = [wb EXCEPT !.path = dir, !.entries = On(wb.conn, dir), !.err = FALSE, !.query = FALSE]
     /\ UNCHANGED <<listings, queued, browsed>>
  \/ /\ dir \notin wb.cache /\ Count("listings", MaxListings)
     /\ wb' = [wb EXCEPT !.loading = TRUE, !.pending = dir, !.query = FALSE]
     /\ List(dir) /\ UNCHANGED queued

Up == IF wb.path \in {Nowhere, Dot} THEN Dot ELSE Above[wb.path]

Left == wb.step = "browse" /\ ~wb.loading /\ wb.path # "/" /\ OpenDir(Up)

Enter == wb.step = "browse" /\ \E e \in Current : e.path \in Folders /\ OpenDir(e.path)

Search ==
  /\ wb.step = "browse" /\ ~wb.loading
  /\ wb' = [wb EXCEPT !.query = ~@]
  /\ UNCHANGED <<listings, queued, browsed>>

Space ==
  /\ wb.step = "browse"
  /\ \E e \in Current :
       wb' = [wb EXCEPT !.selected = IF e \in @ THEN @ \ {e} ELSE @ \cup {e}]
  /\ UNCHANGED <<listings, queued, browsed>>

\* startBrowseDownloads: one job for each target, by the connection's name.
Queue(targets) ==
  /\ targets # {}
  /\ queued' = queued \cup {[conn |-> wb.conn, from |-> t.conn, path |-> t.path] : t \in targets}
  /\ wb' = NoBrowser
  /\ UNCHANGED <<listings, browsed>>

\* "d": what is selected, or the entry under the cursor.
Download ==
  /\ wb.step = "browse"
  /\ IF wb.selected # {} THEN Queue(wb.selected) ELSE \E e \in Current : Queue({e})

\* "D": the folder itself.
DownloadHere ==
  /\ wb.step = "browse" /\ ~wb.loading
  /\ Queue({[conn |-> wb.conn, path |-> wb.path]})

\* "o": a file of it, played from the server.
Play ==
  /\ wb.step = "browse" /\ \E e \in Current : e.path \notin Folders
  /\ wb' = NoBrowser /\ UNCHANGED <<listings, queued, browsed>>

-----------------------------------------------------------------------------
(* The replies *)

\* Mutant: any reply is taken for the one that is waited for.
WaitedForAny(l) == wb.step = "browse" /\ wb.loading

WaitedFor(l) == wb.step = "browse" /\ wb.session = l.session /\ wb.loading /\ wb.pending = l.dir

Listed(l) ==
  /\ wb' = IF WaitedFor(l)
           THEN [wb EXCEPT !.loading = FALSE, !.err = FALSE, !.path = l.dir, !.entries = On(l.conn, l.dir),
                           !.cache = @ \cup ({l.dir} \ {Dot})]
           ELSE wb
  /\ listings' = listings \ {l}
  /\ UNCHANGED <<queued, browsed>>

ListFails(l) ==
  /\ Count("fails", MaxListFails)
  /\ wb' = IF WaitedFor(l) THEN [wb EXCEPT !.loading = FALSE, !.err = TRUE] ELSE wb
  /\ listings' = listings \ {l}
  /\ UNCHANGED queued

BrowseInit ==
  /\ wb = NoBrowser /\ listings = {} /\ queued = {}
  /\ browsed = [sessions |-> 0, listings |-> 0, fails |-> 0]

BrowseNext ==
  \/ OpenBrowser \/ Escape \/ Left \/ Enter \/ Search \/ Space \/ Download \/ DownloadHere \/ Play
  \/ \E c \in Conn : PickConn(c)
  \/ \E l \in listings : Listed(l) \/ ListFails(l)

BrowseSpec == BrowseInit /\ [][BrowseNext]_browseVars

-----------------------------------------------------------------------------
(* Properties *)

\* What the browser shows under a path of a connection is that folder of that connection,
\* and what is queued from it was read from the connection it is queued for: a late reply
\* to a browser that was closed, or that has moved on, changes nothing (browse.go:111-115).
ListingIsOfPath ==
  /\ wb.step = "browse" => \A e \in wb.entries \cup wb.selected : e.conn = wb.conn
  /\ wb.step = "browse" /\ wb.entries # {} => wb.entries = On(wb.conn, wb.path)
  /\ \A t \in queued : t.from = t.conn

=============================================================================
