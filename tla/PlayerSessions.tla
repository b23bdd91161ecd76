--------------------------- MODULE PlayerSessions ---------------------------
(***************************************************************************)
(* The page's player (internal/webui/player.go) and what it plays of a     *)
(* torrent job (daemon/webapi.go, daemon/stream.go): sessions of which the *)
(* least recently used goes first, requests that each run an ffmpeg within *)
(* a few slots, links that play a session elsewhere, and the addresses of  *)
(* the relay a web link is read through, which are forgotten after a time. *)
(* While the torrent runs its files have the torrent's numbers; once it is *)
(* done they are numbered by name, and only the chosen ones are left.      *)
(***************************************************************************)
EXTENDS Naturals, FiniteSets, Sequences

CONSTANTS
  TorrentOrder, \* the torrent's files, each named by a number, in the torrent's order
  Chosen,       \* the places in it of the files the job downloads
  Req,          \* requests of viewers
  MaxStreams, MaxSessions,
  TTL,          \* linkTTL, in ticks
  MaxOpens,     \* bound: sessions opened
  MaxTicks, MaxJobSteps \* bounds: ticks, and changes of the job

PlayAssumption == TorrentOrder \in Seq(Nat) /\ Chosen \subseteq 1..Len(TorrentOrder)
ASSUME PlayAssumption

VARIABLES
  phase,      \* of the job: its torrent runs, is paused, or is finished
  shown,      \* the list of files the page has, and the phase it was made in
  recent,     \* the live sessions, least recently used first
  session,    \* per session ever opened: what it plays, and its viaRelay
  links, targets,
  req,        \* per request: where it is, of which session, through which target
  slots,
  clock, jobSteps

playVars == <<phase, shown, recent, session, links, targets, req, slots, clock, jobSteps>>

Opened == Len(session)

Live == {recent[i] : i \in 1..Len(recent)}

\* A request for a stream, or (seek) only for where one would start.
IdleReq == [at |-> "idle", of |-> 0, via |-> 0, seek |-> FALSE]

NoTarget == 0

PlayTypeOK ==
  /\ phase \in {"running", "paused", "finished"} /\ Live \subseteq 1..Opened
  /\ slots \in 0..MaxStreams /\ clock \in 0..MaxTicks
  /\ \A q \in Req : req[q].at \in {"idle", "input", "register", "store", "acquire", "run"}

-----------------------------------------------------------------------------
(* The job's files *)

\* Mutant: the running torrent's files are counted as they are listed.
ListingByPlace(p) ==
  {[file |-> Cardinality({j \in Chosen : j <= i}), name |-> TorrentOrder[i]] : i \in Chosen}

\* jobFiles: a running torrent's chosen files by their index in it, a finished one's
\* files on disk sorted by name; a paused one has no list.
Listing(p) ==
  CASE p = "running" -> {[file |-> i, name |-> TorrentOrder[i]] : i \in Chosen}
    [] p = "finished" ->
         {[file |-> Cardinality({j \in Chosen : TorrentOrder[j] <= TorrentOrder[i]}),
           name |-> TorrentOrder[i]] : i \in Chosen}
    [] OTHER -> {}

\* resolveMedia: the running torrent's file by its index, the finished one's path.
Resolved(file) ==
  IF phase = "running" THEN TorrentOrder[file]
  ELSE (CHOOSE f \in Listing(phase) : f.file = file).name

JobStep ==
  /\ jobSteps < MaxJobSteps /\ jobSteps' = jobSteps + 1
  /\ \/ phase = "running" /\ phase' \in {"paused", "finished"}
     \/ phase = "paused" /\ phase' = "running"
  /\ UNCHANGED <<shown, recent, session, links, targets, req, slots, clock>>

ListFiles ==
  /\ Listing(phase) # {} /\ shown' = [phase |-> phase, files |-> Listing(phase)]
  /\ UNCHANGED <<phase, recent, session, links, targets, req, slots, clock, jobSteps>>

-----------------------------------------------------------------------------
(* Sessions and links *)

\* evictLocked, with the moments a session was used all different.
Evicted ==
  IF Len(recent) >= MaxSessions THEN SubSeq(recent, Len(recent) - MaxSessions + 2, Len(recent)) ELSE recent

Unexpired(set) == {x \in set : clock - x.made < TTL}

Open(s) ==
  /\ Opened < MaxOpens
  /\ session' = Append(session, s)
  /\ recent' = Append(Evicted, Opened + 1)
  /\ links' = Unexpired(links)
  /\ UNCHANGED <<phase, shown, targets, req, slots, clock, jobSteps>>

OpenFile ==
  \E f \in shown.files :
    /\ \E g \in Listing(phase) : g.file = f.file
    /\ Open([kind |-> "file", picked |-> f.name, listed |-> shown.phase, opened |-> phase,
             plays |-> Resolved(f.file), viaRelay |-> NoTarget])

OpenLink ==
  Open([kind |-> "link", picked |-> 0, listed |-> phase, opened |-> phase, plays |-> 0, viaRelay |-> NoTarget])

Touched(s) == Append(SelectSeq(recent, LAMBDA r : r # s), s)

HandleLink(s) ==
  /\ Cardinality(links) < 1
  /\ recent' = Touched(s) /\ links' = links \cup {[of |-> s, made |-> clock]}
  /\ UNCHANGED <<phase, shown, session, targets, req, slots, clock, jobSteps>>

\* sessionFor: a request of a session that is gone is answered 404.  handleSeek takes
\* the same way as handleStream up to the ffmpeg.
HandleStream(q, s) ==
  /\ req[q].at = "idle"
  /\ recent' = Touched(s)
  /\ \E seek \in BOOLEAN : req' = [req EXCEPT ![q] = [IdleReq EXCEPT !.at = "input", !.of = s, !.seek = seek]]
  /\ UNCHANGED <<phase, shown, session, links, targets, slots, clock, jobSteps>>

\* The subtitles of a file are taken out of it by an ffmpeg; a web link has its own.
HandleSubs(q, s) ==
  /\ req[q].at = "idle"
  /\ recent' = Touched(s)
  /\ req' = IF session[s].kind = "link" THEN req ELSE [req EXCEPT ![q] = [IdleReq EXCEPT !.at = "acquire", !.of = s]]
  /\ UNCHANGED <<phase, shown, session, links, targets, slots, clock, jobSteps>>

\* A link's file goes out as it is; a web link is remuxed.
ExternalLink(q, l) ==
  /\ req[q].at = "idle" /\ clock - l.made < TTL /\ l.of \in Live
  /\ recent' = Touched(l.of)
  /\ req' = IF session[l.of].kind = "file" THEN req
            ELSE [req EXCEPT ![q] = [IdleReq EXCEPT !.at = "input", !.of = l.of]]
  /\ UNCHANGED <<phase, shown, session, links, targets, slots, clock, jobSteps>>

-----------------------------------------------------------------------------
(* A request *)

\* With its addresses, a stream needs a slot, and a seek only an ffprobe.
Routed(r, via) == IF r.seek THEN IdleReq ELSE [r EXCEPT !.at = "acquire", !.via = via]

\* input: the session's addresses at the relay, made by the first request that finds none.
Input(q) ==
  LET s == session[req[q].of] IN
  /\ req[q].at = "input"
  /\ IF s.kind = "file" \/ s.viaRelay # NoTarget
     THEN req' = [req EXCEPT ![q] = Routed(@, s.viaRelay)]
     ELSE req' = [req EXCEPT ![q].at = "register"]
  /\ UNCHANGED <<phase, shown, recent, session, links, targets, slots, clock, jobSteps>>

NextTarget == CHOOSE t \in 1..(Cardinality(targets) + 1) : \A x \in targets : x.id # t

\* relay.url: addresses past their time are forgotten.
Register(q) ==
  /\ req[q].at = "register"
  /\ targets' = Unexpired(targets) \cup {[id |-> NextTarget, of |-> req[q].of, made |-> clock]}
  /\ req' = [req EXCEPT ![q].at = "store", ![q].via = NextTarget]
  /\ UNCHANGED <<phase, shown, recent, session, links, slots, clock, jobSteps>>

Store(q) ==
  /\ req[q].at = "store"
  /\ session' = [session EXCEPT ![req[q].of].viaRelay = req[q].via]
  /\ req' = [req EXCEPT ![q] = Routed(@, req[q].via)]
  /\ UNCHANGED <<phase, shown, recent, links, targets, slots, clock, jobSteps>>

Acquire(q) ==
  /\ req[q].at = "acquire" /\ slots < MaxStreams
  /\ slots' = slots + 1 /\ req' = [req EXCEPT ![q].at = "run"]
  /\ UNCHANGED <<phase, shown, recent, session, links, targets, clock, jobSteps>>

\* Three seconds without a slot, or the viewer is gone.
GiveUp(q) ==
  /\ req[q].at = "acquire"
  /\ req' = [req EXCEPT ![q] = IdleReq]
  /\ UNCHANGED <<phase, shown, recent, session, links, targets, slots, clock, jobSteps>>

\* ffmpeg does not start, or ends before its first byte.
PipeFails(q) ==
  /\ req[q].at = "run"
  /\ slots' = slots - 1 /\ req' = [req EXCEPT ![q] = IdleReq]
  /\ UNCHANGED <<phase, shown, recent, session, links, targets, clock, jobSteps>>

\* All of it is sent; it can be, as long as what it reads is there: the torrent running,
\* or the addresses known to the relay.
Readable(q) ==
  LET s == session[req[q].of] IN
  IF s.kind = "link" THEN \E t \in targets : t.id = req[q].via /\ t.of = req[q].of
  ELSE s.opened = "finished" \/ phase = "running"

PipeEnds(q) ==
  /\ req[q].at = "run" /\ Readable(q)
  /\ slots' = slots - 1 /\ req' = [req EXCEPT ![q] = IdleReq]
  /\ UNCHANGED <<phase, shown, recent, session, links, targets, clock, jobSteps>>

Tick ==
  /\ clock < MaxTicks /\ clock' = clock + 1
  /\ UNCHANGED <<phase, shown, recent, session, links, targets, req, slots, jobSteps>>

-----------------------------------------------------------------------------
(* Specification *)

PlayInit ==
  /\ phase = "running" /\ shown = [phase |-> "running", files |-> {}]
  /\ recent = <<>> /\ session = <<>> /\ links = {} /\ targets = {}
  /\ req = [q \in Req |-> IdleReq] /\ slots = 0 /\ clock = 0 /\ jobSteps = 0

PlayNext ==
  \/ JobStep \/ ListFiles \/ OpenFile \/ OpenLink \/ Tick
  \/ \E s \in Live : HandleLink(s) \/ \E q \in Req : HandleStream(q, s) \/ HandleSubs(q, s)
  \/ \E q \in Req, l \in links : ExternalLink(q, l)
  \/ \E q \in Req : Input(q) \/ Register(q) \/ Store(q) \/ Acquire(q) \/ GiveUp(q) \/ PipeFails(q) \/ PipeEnds(q)

PlaySpec == PlayInit /\ [][PlayNext]_playVars

-----------------------------------------------------------------------------
(* Properties *)

\* What a session plays is the file picked in the page's list, as long as the job was in
\* the same state when the list was made and when the number came back.
PlaysThePicked ==
  \A i \in 1..Opened : session[i].listed = session[i].opened => session[i].plays = session[i].picked

=============================================================================
