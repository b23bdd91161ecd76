---------------------------- MODULE RelayStream ----------------------------
(***************************************************************************)
(* The relay between ffmpeg and a site that slows down long requests       *)
(* (internal/webui/relay.go): one request of ffmpeg is answered by a run   *)
(* of requests of a few bytes each, whose total length the first answer    *)
(* tells.  Byte i of the stream is the number i.                           *)
(***************************************************************************)
EXTENDS Integers, Sequences

CONSTANTS
  StreamLen, \* bytes the site has
  Chunk,     \* http_chunk_size
  Sites,     \* how the site answers: "ranges", "short" (fewer bytes than asked for),
             \* "untold" (ranges, without the total), "whole" (every time)
  MaxBreaks  \* bound: pieces cut short by the network, and requests that fail

RelayAssumption == StreamLen \in Nat \ {0} /\ Chunk \in Nat \ {0} /\ MaxBreaks \in Nat
ASSUME RelayAssumption

VARIABLES
  site,
  ask,      \* ffmpeg's request: start, end (-1: to the end), was there a Range?, head
  total,    \* relayTarget.length, 0 until it is known
  reply,    \* the status sent, and the Content-Length (-1: none)
  piece,    \* bytes of the piece being copied
  pos,      \* position after the last byte copied
  relayed,     \* the bytes ffmpeg has got
  relay,    \* where serve is
  breaks

relayVars == <<site, ask, total, reply, piece, pos, relayed, relay, breaks>>

RelayTypeOK ==
  /\ ask.start \in 0..(StreamLen + 1) /\ ask.end \in -1..(StreamLen + 1)
  /\ total \in 0..StreamLen /\ reply.status \in {0, 200, 206, 502} /\ pos \in 0..(2 * StreamLen + 1)
  /\ relay \in {"idle", "first", "copy", "next", "ended", "broken"}

Min2(a, b) == IF a < b THEN a ELSE b

Span(a, b) == [i \in 1..(b - a + 1) |-> a + i - 1]

\* fetch: the last byte asked for.
LastByte(p, end) == IF end >= 0 /\ end < p + Chunk - 1 THEN end ELSE p + Chunk - 1

\* The site's answer (external).
SiteAnswers(p, last) ==
  CASE site = "whole" -> [status |-> 200, bytes |-> Span(0, StreamLen - 1), total |-> StreamLen]
    [] site # "whole" /\ p >= StreamLen -> [status |-> 416, bytes |-> <<>>, total |-> 0]
    [] site = "ranges" /\ p < StreamLen ->
         [status |-> 206, bytes |-> Span(p, Min2(last, StreamLen - 1)), total |-> StreamLen]
    [] site = "short" /\ p < StreamLen -> [status |-> 206, bytes |-> <<p>>, total |-> StreamLen]
    [] site = "untold" /\ p < StreamLen ->
         [status |-> 206, bytes |-> Span(p, Min2(last, StreamLen - 1)), total |-> 0]

\* The total is taken from a 206 that tells it, or from a 200 to a request from 0.
Told(a, p) == IF a.total > 0 /\ (a.status = 206 \/ p = 0) THEN a.total ELSE total

\* parseRange: one range with a start, or else the whole stream; HEAD asks for it too.
Request ==
  /\ relay = "idle"
  /\ \E start \in 0..StreamLen, end \in -1..StreamLen, ranged, head \in BOOLEAN :
       /\ end = -1 \/ end >= start
       /\ ranged \/ (start = 0 /\ end = -1)
       /\ ask' = [start |-> IF head THEN 0 ELSE start, end |-> IF head THEN -1 ELSE end,
                  ranged |-> ranged, head |-> head]
       /\ pos' = ask'.start
  /\ relay' = "first"
  /\ UNCHANGED <<site, total, reply, piece, relayed, breaks>>

\* Mutant: an end beyond the stream is believed.
EndAsAsked(end, length) == IF end < 0 THEN length - 1 ELSE end

EndOf(end, length) == IF end < 0 \/ (length > 0 /\ end >= length) THEN length - 1 ELSE end

\* The first piece, and the headers it allows.
FirstPiece ==
  LET a == SiteAnswers(pos, LastByte(pos, ask.end))
      length == Told(a, pos)
      end == EndOf(ask.end, length) IN
  /\ relay = "first"
  /\ \/ /\ a.status \in {200, 206}
        /\ total' = length /\ ask' = [ask EXCEPT !.end = end]
        /\ reply' = [status |-> IF ask.ranged /\ length > 0 THEN 206 ELSE 200,
                     length |-> IF length > 0 THEN end - ask.start + 1 ELSE -1]
        /\ piece' = a.bytes /\ relay' = IF ask.head THEN "ended" ELSE "copy"
     \/ /\ a.status = 416
        /\ reply' = [status |-> 502, length |-> -1] /\ relay' = "ended"
        /\ UNCHANGED <<total, ask, piece>>
  /\ UNCHANGED <<site, pos, relayed, breaks>>

\* io.Copy of a piece; net/http refuses what exceeds the length it has promised.
Room == IF reply.length < 0 THEN Len(piece) ELSE reply.length - Len(relayed)

CopyPiece ==
  /\ relay = "copy"
  /\ LET n == Min2(Len(piece), Room) IN
       /\ relayed' = relayed \o SubSeq(piece, 1, n)
       /\ pos' = pos + n
       /\ relay' = IF n < Len(piece) THEN "broken" ELSE IF total <= 0 \/ pos + n > ask.end THEN "ended" ELSE "next"
  /\ piece' = <<>>
  /\ UNCHANGED <<site, ask, total, reply, breaks>>

NextPiece ==
  LET a == SiteAnswers(pos, LastByte(pos, ask.end)) IN
  /\ relay = "next"
  /\ relay' = IF a.status = 416 THEN "broken" ELSE "copy"
  /\ total' = Told(a, pos) /\ piece' = a.bytes
  /\ UNCHANGED <<site, ask, reply, pos, relayed, breaks>>

\* A piece is cut short, a request for one fails, or ffmpeg goes away.
Breaks ==
  /\ relay \in {"copy", "next"} /\ breaks < MaxBreaks /\ breaks' = breaks + 1
  /\ relay' = "broken"
  /\ \E n \in 0..Min2(Len(piece), Room) : relayed' = relayed \o SubSeq(piece, 1, n) /\ pos' = pos + n
  /\ piece' = <<>>
  /\ UNCHANGED <<site, ask, total, reply>>

\* ffmpeg asks again: the target keeps what it has learned.
RelayOver ==
  /\ relay \in {"ended", "broken"}
  /\ relay' = "idle" /\ relayed' = <<>> /\ piece' = <<>> /\ pos' = 0
  /\ ask' = [start |-> 0, end |-> -1, ranged |-> FALSE, head |-> FALSE] /\ reply' = [status |-> 0, length |-> -1]
  /\ UNCHANGED <<site, total, breaks>>

RelayInit ==
  /\ site \in Sites
  /\ ask = [start |-> 0, end |-> -1, ranged |-> FALSE, head |-> FALSE] /\ total = 0 /\ reply = [status |-> 0, length |-> -1]
  /\ piece = <<>> /\ pos = 0 /\ relayed = <<>> /\ relay = "idle" /\ breaks = 0

RelayNext == Request \/ FirstPiece \/ CopyPiece \/ NextPiece \/ Breaks \/ RelayOver

RelaySpec == RelayInit /\ [][RelayNext]_relayVars

-----------------------------------------------------------------------------
(* Properties *)

\* From a site that serves ranges and tells the total, however short its pieces, what
\* ffmpeg gets are the bytes it asked for, in order and without a gap or a repeat,
\* and an answer that is over without a break is as long as its headers promised.
RelayedExactly ==
  (site \in {"ranges", "short"} /\ ~ask.head) =>
    /\ \A i \in 1..Len(relayed) : relayed[i] = ask.start + i - 1
    /\ (relay = "ended" /\ reply.status # 502) =>
         Len(relayed) = reply.length /\ reply.length = Min2(ask.end, StreamLen - 1) - ask.start + 1
    /\ (relay = "broken") => breaks > 0

=============================================================================
