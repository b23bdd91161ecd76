--------------------------- MODULE ServiceProofs ----------------------------
(***************************************************************************)
(* The daemon beside its jobs. As long as two programs do not write        *)
(* connections.json at once, the file has what was last saved; as long as  *)
(* a daemon that listens answers a ping in time, a command that ensured a  *)
(* daemon talks to one of its own version or a newer one; as long as calls *)
(* do not overlap, a tool that is run is whole and verified; a subscriber  *)
(* is told a social job's lines in order, each once; and a dashboard or a  *)
(* tab is never left waiting on something that nobody will send.           *)
(***************************************************************************)
EXTENDS StoredConnections, DaemonLink, ManagedTools, SocialStream, SnapshotFeed, Broadcaster,
        FiniteSetTheorems, TLAPS

-----------------------------------------------------------------------------
(* Saved connections: one file, replaced by whoever changes it *)

\* A program's copy of the file, and where it has got with it.
WriterState ==
  [at : {"idle", "opened", "written"}, op : {"add", "remove"}, name : ConnName,
   data : SUBSET ConnName, fd : Inodes \cup {0}]

FileTypes ==
  /\ json \in Inodes \cup {0} /\ tmp \in Inodes \cup {0}
  /\ inode \in [Inodes -> (SUBSET ConnName) \cup {Torn}]
  /\ writer \in [ConnWriter -> WriterState]
  /\ acked \subseteq ConnName

Writes(w) == writer[w].at # "idle"

\* What a writer holds when it began from what was saved.
Intended(w) ==
  IF writer[w].op = "add" THEN acked \cup {writer[w].name} ELSE acked \ {writer[w].name}

\* The strengthening: one writer, the temporary name is its file's and never the file's own.
OneWriter ==
  /\ \A v, w \in ConnWriter : Writes(v) /\ Writes(w) => v = w
  /\ json # 0 => json # tmp
  /\ \A w \in ConnWriter : ~Writes(w) => writer[w].fd = 0
  /\ \A w \in ConnWriter : Writes(w) =>
       /\ writer[w].fd = tmp /\ tmp # 0
       /\ writer[w].data = Intended(w)
       /\ writer[w].at = "written" => inode[tmp] = writer[w].data

ConnInv == ~ConnOverlap /\ FileTypes /\ OneWriter /\ SavedIsThere

-----------------------------------------------------------------------------

LEMMA TwoInodes == 1 \in Inodes /\ 2 \in Inodes /\ 0 \notin Inodes
<1>1. Cardinality(ConnWriter) \in Nat
  BY WritersFinite, FS_CardinalityType
<1> QED BY <1>1 DEF Inodes

\* IdleWriter is a state of a writer: there is a name to choose.
LEMMA IdleIsState == IdleWriter \in WriterState /\ IdleWriter.at = "idle"
<1>1. (CHOOSE n \in ConnName : TRUE) \in ConnName
  BY ConnNamed
<1> QED BY <1>1 DEF IdleWriter, WriterState

\* With nobody writing, a new temporary file is neither the file nor "none".
LEMMA TemporaryIsApart ==
  ASSUME FileTypes, json # 0 => json # tmp, \A v \in ConnWriter : writer[v].fd = 0
  PROVE  Temporary \in Inodes /\ Temporary # json /\ Temporary # 0
<1>1. CASE tmp # 0
  BY <1>1, TwoInodes DEF Temporary, FileTypes
<1>2. CASE tmp = 0
  <2> DEFINE used == {json, tmp} \cup {writer[w].fd : w \in ConnWriter}
  <2>1. used \subseteq {0, json}
    BY <1>2
  <2>2. \E i \in Inodes : i \notin used
    BY <2>1, TwoInodes
  <2>3. Free \in Inodes /\ Free \notin used
    BY <2>2 DEF Free
  <2> QED BY <1>2, <2>3, TwoInodes DEF Temporary
<1> QED BY <1>1, <1>2

\* Before anything is saved the file is not there, and nothing has been promised.
LEMMA ConnInvInit == ~ConnOverlap /\ ConnInit => ConnInv
<1> SUFFICES ASSUME ~ConnOverlap, ConnInit PROVE ConnInv
  OBVIOUS
<1>1. FileTypes
  BY IdleIsState DEF ConnInit, FileTypes
<1>2. OneWriter
  BY IdleIsState DEF ConnInit, OneWriter, Writes, IdleWriter
<1> QED BY <1>1, <1>2 DEF ConnInit, ConnInv, SavedIsThere, Saved

-----------------------------------------------------------------------------
(* One lemma for each thing a writer does *)

LEMMA BeginWriteKeeps ==
  ASSUME ConnInv, NEW w \in ConnWriter, BeginWrite(w) PROVE ConnInv'
<1>1. PICK n \in ConnName, op \in {"add", "remove"} :
        writer' = [writer EXCEPT ![w] = [at |-> "opened", op |-> op, name |-> n,
                     data |-> IF op = "add" THEN Saved \cup {n} ELSE Saved \ {n},
                     fd |-> Temporary]]
  BY DEF BeginWrite
<1>2. /\ \A v \in ConnWriter : ~Writes(v) /\ writer[v].fd = 0
      /\ json' = json /\ acked' = acked
  BY DEF BeginWrite, ConnInv, OneWriter, Writes
<1>3. Temporary \in Inodes /\ Temporary # json /\ Temporary # 0
  BY <1>2, TemporaryIsApart DEF ConnInv, OneWriter
<1>4. Saved = acked /\ acked \subseteq ConnName
  BY DEF ConnInv, SavedIsThere, FileTypes
<1>5. writer \in [ConnWriter -> WriterState]
  BY DEF ConnInv, FileTypes
<1>6. /\ writer'[w].at = "opened" /\ writer'[w].op = op /\ writer'[w].name = n
      /\ writer'[w].fd = Temporary
      /\ writer'[w].data = IF op = "add" THEN acked \cup {n} ELSE acked \ {n}
      /\ \A v \in ConnWriter : v # w => writer'[v] = writer[v]
  BY <1>1, <1>4, <1>5
<1>7. writer'[w] \in WriterState
  <2>1. Temporary \in Inodes \cup {0}
    BY <1>3
  <2>2. (IF op = "add" THEN Saved \cup {n} ELSE Saved \ {n}) \in SUBSET ConnName
    BY <1>4
  <2>3. writer'[w] = [at |-> "opened", op |-> op, name |-> n,
                     data |-> IF op = "add" THEN Saved \cup {n} ELSE Saved \ {n},
                     fd |-> Temporary]
    BY <1>1, <1>5
  <2> QED BY <2>1, <2>2, <2>3 DEF WriterState
<1>8. tmp' = Temporary /\ inode' = [inode EXCEPT ![Temporary] = Torn]
  BY <1>6 DEF BeginWrite
<1>9. FileTypes'
  <2>1. writer' \in [ConnWriter -> WriterState]
    BY <1>1, <1>5, <1>6, <1>7
  <2>2. inode' \in [Inodes -> (SUBSET ConnName) \cup {Torn}]
    BY <1>3, <1>8 DEF ConnInv, FileTypes
  <2> QED BY <1>2, <1>3, <1>4, <1>8, <2>1, <2>2 DEF ConnInv, FileTypes
<1>10. OneWriter'
  BY <1>2, <1>3, <1>6, <1>8 DEF OneWriter, Writes, Intended
<1>11. SavedIsThere'
  BY <1>2, <1>3, <1>8 DEF ConnInv, FileTypes, SavedIsThere, Saved
<1> QED BY <1>9, <1>10, <1>11 DEF ConnInv

LEMMA WriteKeeps ==
  ASSUME ConnInv, NEW w \in ConnWriter, Write(w) PROVE ConnInv'
<1>1. /\ writer[w].at = "opened" /\ Writes(w)
      /\ writer' = [writer EXCEPT ![w].at = "written"]
      /\ inode' = [inode EXCEPT ![writer[w].fd] = writer[w].data]
      /\ json' = json /\ tmp' = tmp /\ acked' = acked
  BY DEF Write, Writes
<1>2. writer[w].fd = tmp /\ tmp # 0 /\ json # tmp /\ tmp \in Inodes
  BY <1>1 DEF ConnInv, OneWriter, FileTypes
<1>3. writer \in [ConnWriter -> WriterState] /\ inode \in [Inodes -> (SUBSET ConnName) \cup {Torn}]
  BY DEF ConnInv, FileTypes
<1>4. writer[w] \in WriterState
  BY <1>3
<1>5. FileTypes'
  <2>1. [writer[w] EXCEPT !.at = "written"] \in WriterState
    BY <1>4 DEF WriterState
  <2>2. writer' \in [ConnWriter -> WriterState]
    BY <1>1, <1>3, <2>1
  <2>3. inode' \in [Inodes -> (SUBSET ConnName) \cup {Torn}]
    BY <1>1, <1>2, <1>3, <1>4 DEF WriterState
  <2> QED BY <1>1, <2>2, <2>3 DEF ConnInv, FileTypes
<1>6. \A v \in ConnWriter :
        /\ v # w => writer'[v] = writer[v]
        /\ writer'[w].at = "written" /\ writer'[w].fd = writer[w].fd /\ writer'[w].data = writer[w].data
        /\ writer'[w].op = writer[w].op /\ writer'[w].name = writer[w].name
  BY <1>1, <1>3, <1>4 DEF WriterState
<1>7. inode'[tmp] = writer[w].data
  BY <1>1, <1>2, <1>3
<1>8. OneWriter'
  <2>1. \A v \in ConnWriter : ~Writes(v) \/ v = w
    BY <1>1 DEF ConnInv, OneWriter
  <2>2. \A v \in ConnWriter : Writes(v)' => v = w
    BY <1>6, <2>1 DEF Writes
  <2>3. \A v \in ConnWriter : ~Writes(v)' => writer'[v].fd = 0
    BY <1>6 DEF ConnInv, OneWriter, Writes
  <2>4. /\ writer'[w].fd = tmp' /\ tmp' # 0
        /\ writer'[w].data = Intended(w)'
        /\ inode'[tmp'] = writer'[w].data
    BY <1>1, <1>2, <1>6, <1>7 DEF ConnInv, OneWriter, Intended
  <2> QED BY <1>1, <1>2, <2>2, <2>3, <2>4 DEF OneWriter
<1>9. SavedIsThere'
  BY <1>1, <1>2, <1>3 DEF ConnInv, FileTypes, SavedIsThere, Saved
<1> QED BY <1>5, <1>8, <1>9 DEF ConnInv

LEMMA RenameOverKeeps ==
  ASSUME ConnInv, NEW w \in ConnWriter, RenameOver(w) PROVE ConnInv'
<1>1. /\ writer[w].at = "written" /\ Writes(w)
      /\ writer' = [writer EXCEPT ![w] = IdleWriter] /\ inode' = inode
  BY DEF RenameOver, Writes
<1>2. /\ writer[w].fd = tmp /\ tmp # 0 /\ writer[w].data = Intended(w)
      /\ inode[tmp] = writer[w].data
  BY <1>1 DEF ConnInv, OneWriter
<1>3. json' = tmp /\ tmp' = 0 /\ acked' = Intended(w)
  BY <1>2 DEF RenameOver, Intended
<1>4. writer \in [ConnWriter -> WriterState] /\ writer[w] \in WriterState
  BY DEF ConnInv, FileTypes
<1>5. FileTypes'
  <2>1. writer' \in [ConnWriter -> WriterState]
    BY <1>1, <1>4, IdleIsState
  <2>2. acked' \subseteq ConnName
    BY <1>3, <1>4 DEF Intended, ConnInv, FileTypes, WriterState
  <2> QED BY <1>1, <1>3, <2>1, <2>2 DEF ConnInv, FileTypes
<1>6. \A v \in ConnWriter : writer'[v].at = "idle" /\ writer'[v].fd = 0
  BY <1>1, <1>4, IdleIsState DEF ConnInv, OneWriter, Writes, IdleWriter
<1>7. OneWriter'
  BY <1>3, <1>6 DEF OneWriter, Writes
<1>8. SavedIsThere'
  BY <1>1, <1>2, <1>3 DEF SavedIsThere, Saved
<1> QED BY <1>5, <1>7, <1>8 DEF ConnInv

LEMMA KillWriterKeeps ==
  ASSUME ConnInv, NEW w \in ConnWriter, KillWriter(w) PROVE ConnInv'
<1>1. /\ Writes(w) /\ writer' = [writer EXCEPT ![w] = IdleWriter]
      /\ UNCHANGED <<json, tmp, inode, acked>>
  BY DEF KillWriter, Writes
<1>2. writer \in [ConnWriter -> WriterState]
  BY DEF ConnInv, FileTypes
<1>3. FileTypes'
  <2>1. writer' \in [ConnWriter -> WriterState]
    BY <1>1, <1>2, IdleIsState
  <2> QED BY <1>1, <2>1 DEF ConnInv, FileTypes
<1>4. \A v \in ConnWriter : writer'[v].at = "idle" /\ writer'[v].fd = 0
  BY <1>1, <1>2, IdleIsState DEF ConnInv, OneWriter, Writes, IdleWriter
<1>5. OneWriter'
  BY <1>1, <1>4 DEF ConnInv, OneWriter, Writes
<1>6. SavedIsThere'
  BY <1>1 DEF ConnInv, SavedIsThere, Saved
<1> QED BY <1>3, <1>5, <1>6 DEF ConnInv

LEMMA ConnInvStep == ConnInv /\ [ConnNext]_connVars => ConnInv'
<1> SUFFICES ASSUME ConnInv, [ConnNext]_connVars PROVE ConnInv'
  OBVIOUS
<1>1. CASE UNCHANGED connVars
  BY <1>1 DEF ConnInv, FileTypes, OneWriter, SavedIsThere, Saved, Writes, Intended, connVars
<1>2. ASSUME NEW w \in ConnWriter, BeginWrite(w) PROVE ConnInv'
  BY <1>2, BeginWriteKeeps
<1>3. ASSUME NEW w \in ConnWriter, Write(w) PROVE ConnInv'
  BY <1>3, WriteKeeps
<1>4. ASSUME NEW w \in ConnWriter, RenameOver(w) PROVE ConnInv'
  BY <1>4, RenameOverKeeps
<1>5. ASSUME NEW w \in ConnWriter, KillWriter(w) PROVE ConnInv'
  BY <1>5, KillWriterKeeps
<1> QED BY <1>1, <1>2, <1>3, <1>4, <1>5 DEF ConnNext

\* SavedIsThere: whoever reads connections.json between two writes, and after a writer was
\* killed anywhere in save, finds exactly the connections that were last reported saved,
\* in a file that parses (connections.save: write a temporary file, then rename it).
THEOREM SavedIsThereHolds == ~ConnOverlap /\ ConnSpec => []SavedIsThere
<1>1. ConnInv => SavedIsThere
  BY DEF ConnInv
<1> QED BY ConnInvInit, ConnInvStep, <1>1, PTL DEF ConnSpec

\* The same of the file itself: it never is one that does not parse.
THEOREM FileParses == ~ConnOverlap /\ ConnSpec => [](Saved # Torn)
<1>1. ConnInv => Saved # Torn
  BY ConnNamed DEF ConnInv, FileTypes, SavedIsThere, Torn
<1> QED BY ConnInvInit, ConnInvStep, <1>1, PTL DEF ConnSpec

-----------------------------------------------------------------------------
(* Starting and stopping the daemon *)

\* A daemon older than the commands has the socket's name.
OldThere == \E d \in Listening : Older(daemon[d].ver)

LinkTypes ==
  /\ DOMAIN daemon = Daemon /\ daemon = [d \in Daemon |-> daemon[d]]
  /\ \A d \in Daemon : /\ DOMAIN daemon[d] = {"phase", "ver", "stopping"}
                       /\ daemon[d] = [f \in DOMAIN daemon[d] |-> daemon[d][f]]
  /\ cmd = [c \in LinkClient |-> cmd[c]]
  /\ \A c \in LinkClient : /\ DOMAIN cmd[c] = {"op", "pc", "ver"}
                           /\ cmd[c] = [f \in DOMAIN cmd[c] |-> cmd[c][f]]
                           /\ cmd[c].pc # "idle" => cmd[c].op \in {"ensure", "stop", "restart"}

\* The strengthening: only daemons of the commands' version are on their way to the socket,
\* so once no old one has it none ever will; and a command starts a daemon only when it
\* has seen that none has it.
NoneComesBack ==
  /\ \A d \in Daemon : daemon[d].phase \in {"starting", "bare"} => daemon[d].ver = ClientVersion
  /\ OldThere => \A c \in LinkClient : cmd[c].pc \notin {"spawn", "await"}

LinkInv == ~PingTimesOut /\ LinkTypes /\ NoneComesBack /\ EnsuredIsCurrent

LEMMA OwnIsNotOlder == ~Older(ClientVersion)
BY LinkAssumption DEF Older, LinkAssumption

LEMMA LinkInvInit == ~PingTimesOut /\ LinkInit => LinkInv
<1> SUFFICES ASSUME ~PingTimesOut, LinkInit PROVE LinkInv
  OBVIOUS
<1>1. /\ \A c \in LinkClient : cmd[c].pc = "idle"
      /\ \A d \in Daemon : daemon[d].phase \in {"off", "listening"}
  BY DEF LinkInit, NoCmd, Off
<1>2. LinkTypes
  BY DEF LinkInit, LinkTypes, NoCmd, Off
<1> QED BY <1>1, <1>2 DEF LinkInv, NoneComesBack, EnsuredIsCurrent

-----------------------------------------------------------------------------
(* Commands *)

\* A command that goes somewhere else: to start a daemon only when no old one is there, and
\* to its end only with one that is not older.
LEMMA CommandGoes ==
  ASSUME LinkInv, NEW c \in LinkClient, NEW r,
         DOMAIN r = {"op", "pc", "ver"}, r = [f \in DOMAIN r |-> r[f]],
         r.pc # "idle" => r.op \in {"ensure", "stop", "restart"},
         cmd' = [cmd EXCEPT ![c] = r], sock' = sock, daemon' = daemon,
         r.pc \in {"spawn", "await"} => ~OldThere,
         r.pc = "ok" /\ r.op = "ensure" => ~Older(r.ver)
  PROVE  LinkInv'
<1>1. /\ cmd'[c] = r /\ \A e \in LinkClient : e # c => cmd'[e] = cmd[e]
      /\ cmd' = [e \in LinkClient |-> cmd'[e]]
  BY DEF LinkInv, LinkTypes
<1>2. LinkTypes'
  BY <1>1 DEF LinkInv, LinkTypes
<1>3. OldThere' <=> OldThere
  BY DEF OldThere, Listening
<1>4. NoneComesBack'
  BY <1>1, <1>3 DEF LinkInv, NoneComesBack
<1>5. EnsuredIsCurrent'
  BY <1>1 DEF LinkInv, EnsuredIsCurrent
<1> QED BY <1>2, <1>4, <1>5 DEF LinkInv

\* The same when all that changes is where it is.
LEMMA Goes ==
  ASSUME LinkInv, NEW c \in LinkClient, NEW pc, cmd[c].pc # "idle", Go(c, pc), sock' = sock, daemon' = daemon,
         pc \notin {"spawn", "await", "ok"} \/ (pc = "await" /\ ~OldThere)
  PROVE  LinkInv'
<1> DEFINE r == [cmd[c] EXCEPT !.pc = pc]
<1>1. DOMAIN r = {"op", "pc", "ver"} /\ r = [f \in DOMAIN r |-> r[f]] /\ r.pc = pc /\ r.op = cmd[c].op
  BY DEF LinkInv, LinkTypes
<1>2. cmd' = [cmd EXCEPT ![c] = r]
  BY DEF Go
<1>3. r.op \in {"ensure", "stop", "restart"}
  BY <1>1 DEF LinkInv, LinkTypes
<1> HIDE DEF r
<1> QED BY <1>1, <1>2, <1>3, CommandGoes

LEMMA OnwardGoes ==
  ASSUME LinkInv, NEW c \in LinkClient, cmd[c].pc # "idle", Answers(FALSE),
         cmd' = [cmd EXCEPT ![c] = Onward(c)], sock' = sock, daemon' = daemon
  PROVE  LinkInv'
<1>1. ~OldThere
  BY DEF LinkInv, Answers, OldThere
<1>2. /\ DOMAIN cmd[c] = {"op", "pc", "ver"} /\ cmd[c] = [f \in DOMAIN cmd[c] |-> cmd[c][f]]
      /\ cmd[c].op \in {"ensure", "stop", "restart"}
  BY DEF LinkInv, LinkTypes
<1>3. /\ DOMAIN Onward(c) = {"op", "pc", "ver"} /\ Onward(c) = [f \in DOMAIN Onward(c) |-> Onward(c)[f]]
      /\ Onward(c).pc = "ok" => Onward(c).op # "ensure"
      /\ Onward(c).op \in {"ensure", "stop", "restart"}
  <2>1. CASE cmd[c].op = "ensure"
    BY <1>2, <2>1 DEF Onward
  <2>2. CASE cmd[c].op = "stop"
    BY <1>2, <2>2 DEF Onward
  <2>3. CASE cmd[c].op = "restart"
    BY <1>2, <2>3 DEF Onward
  <2> QED BY <1>2, <2>1, <2>2, <2>3
<1> QED BY <1>1, <1>3, CommandGoes

\* A daemon moves on, perhaps with a command that does not end: no old one gets the socket.
LEMMA DaemonMoves ==
  ASSUME LinkInv, LinkTypes', OldThere' => OldThere,
         \A d \in Daemon : daemon'[d].phase \in {"starting", "bare"} => daemon'[d].ver = ClientVersion,
         \A c \in LinkClient : \/ cmd'[c] = cmd[c]
                               \/ cmd'[c].pc \notin {"spawn", "await", "ok"}
                               \/ cmd'[c].pc = "await" /\ cmd[c].pc = "spawn"
  PROVE  LinkInv'
<1>1. NoneComesBack'
  BY DEF LinkInv, NoneComesBack
<1>2. EnsuredIsCurrent'
  BY DEF LinkInv, EnsuredIsCurrent
<1> QED BY <1>1, <1>2 DEF LinkInv

LEMMA CallKeeps ==
  ASSUME LinkInv, NEW c \in LinkClient, NEW op \in {"ensure", "stop", "restart"}, Call(c, op)
  PROVE  LinkInv'
<1> DEFINE r == [op |-> op, pc |-> "ping", ver |-> 0]
<1>1. DOMAIN r = {"op", "pc", "ver"} /\ r = [f \in DOMAIN r |-> r[f]] /\ r.pc = "ping" /\ r.op = op
  OBVIOUS
<1>2. cmd' = [cmd EXCEPT ![c] = r] /\ sock' = sock /\ daemon' = daemon
  BY DEF Call
<1> HIDE DEF r
<1> QED BY <1>1, <1>2, CommandGoes

LEMMA FoundKeeps == ASSUME LinkInv, NEW c \in LinkClient, Found(c) PROVE LinkInv'
<1>1. PICK d \in Listening :
        cmd' = [cmd EXCEPT ![c].ver = daemon[d].ver,
                           ![c].pc = IF cmd[c].op = "ensure" /\ ~Older(daemon[d].ver) THEN "ok" ELSE "ask"]
  BY DEF Found
<1> DEFINE r == [cmd[c] EXCEPT !.ver = daemon[d].ver,
                               !.pc = IF cmd[c].op = "ensure" /\ ~Older(daemon[d].ver) THEN "ok" ELSE "ask"]
<1>2. /\ DOMAIN r = {"op", "pc", "ver"} /\ r = [f \in DOMAIN r |-> r[f]]
      /\ r.ver = daemon[d].ver /\ r.op = cmd[c].op
      /\ r.pc = IF cmd[c].op = "ensure" /\ ~Older(daemon[d].ver) THEN "ok" ELSE "ask"
  BY DEF LinkInv, LinkTypes
<1>3. cmd' = [cmd EXCEPT ![c] = r]
  BY <1>1 DEF LinkInv, LinkTypes
<1>4. /\ sock' = sock /\ daemon' = daemon
      /\ cmd[c].op \in {"ensure", "stop", "restart"}
  BY DEF Found, LinkInv, LinkTypes
<1> HIDE DEF r
<1> QED BY <1>2, <1>3, <1>4, CommandGoes

LEMMA FoundNoneKeeps == ASSUME LinkInv, NEW c \in LinkClient, FoundNone(c) PROVE LinkInv'
BY OnwardGoes DEF FoundNone

LEMMA QuietKeeps == ASSUME LinkInv, NEW c \in LinkClient, Quiet(c) PROVE LinkInv'
BY OnwardGoes DEF Quiet

LEMMA NobodyThereKeeps == ASSUME LinkInv, NEW c \in LinkClient, NobodyThere(c) PROVE LinkInv'
BY Goes DEF NobodyThere

LEMMA GivesUpKeeps == ASSUME LinkInv, NEW c \in LinkClient, GivesUp(c) PROVE LinkInv'
BY Goes DEF GivesUp

\* Where a command goes while a daemon moves, both stay of their types.
LEMMA GoTypes ==
  ASSUME LinkTypes, NEW c \in LinkClient, NEW pc, Go(c, pc), cmd[c].pc # "idle",
         NEW d \in Daemon, NEW r, DOMAIN r = {"phase", "ver", "stopping"}, r = [f \in DOMAIN r |-> r[f]],
         daemon' = [daemon EXCEPT ![d] = r]
  PROVE  /\ LinkTypes' /\ cmd'[c].pc = pc /\ \A e \in LinkClient : e # c => cmd'[e] = cmd[e]
         /\ daemon'[d] = r /\ \A e \in Daemon : e # d => daemon'[e] = daemon[e]
<1>1. /\ cmd' = [e \in LinkClient |-> cmd'[e]] /\ \A e \in LinkClient : e # c => cmd'[e] = cmd[e]
      /\ cmd'[c] = [cmd[c] EXCEPT !.pc = pc]
  BY DEF Go, LinkTypes
<1>2. /\ DOMAIN cmd'[c] = {"op", "pc", "ver"} /\ cmd'[c] = [f \in DOMAIN cmd'[c] |-> cmd'[c][f]]
      /\ cmd'[c].pc = pc /\ cmd'[c].op = cmd[c].op
  BY <1>1 DEF LinkTypes
<1>3. /\ daemon'[d] = r /\ \A e \in Daemon : e # d => daemon'[e] = daemon[e]
      /\ DOMAIN daemon' = Daemon /\ daemon' = [e \in Daemon |-> daemon'[e]]
  BY DEF LinkTypes
<1> QED BY <1>1, <1>2, <1>3 DEF LinkTypes

LEMMA AskShutdownKeeps == ASSUME LinkInv, NEW c \in LinkClient, AskShutdown(c) PROVE LinkInv'
<1>1. PICK d \in Listening : daemon' = [daemon EXCEPT ![d].stopping = TRUE]
  BY DEF AskShutdown
<1> DEFINE r == [daemon[d] EXCEPT !.stopping = TRUE]
<1>2. d \in Daemon /\ daemon[d].phase = "listening" /\ sock' = sock /\ Go(c, "quiet") /\ cmd[c].pc # "idle"
  BY DEF AskShutdown, Listening
<1>3. /\ DOMAIN r = {"phase", "ver", "stopping"} /\ r = [f \in DOMAIN r |-> r[f]]
      /\ r.phase = "listening" /\ r.ver = daemon[d].ver
  BY <1>2 DEF LinkInv, LinkTypes
<1>4. daemon' = [daemon EXCEPT ![d] = r]
  BY <1>1
<1> HIDE DEF r
<1>5. /\ LinkTypes' /\ cmd'[c].pc = "quiet" /\ \A e \in LinkClient : e # c => cmd'[e] = cmd[e]
      /\ daemon'[d] = r /\ \A e \in Daemon : e # d => daemon'[e] = daemon[e]
  BY <1>2, <1>3, <1>4, GoTypes DEF LinkInv
<1>6. OldThere' => OldThere
  BY <1>2, <1>3, <1>5 DEF OldThere, Listening, Older
<1> QED BY <1>3, <1>5, <1>6, DaemonMoves DEF LinkInv, NoneComesBack

LEMMA TerminateKeeps == ASSUME LinkInv, NEW c \in LinkClient, Terminate(c) PROVE LinkInv'
<1>1. PICK d \in Listening : daemon' = [daemon EXCEPT ![d] = Off]
  BY DEF Terminate
<1>2. d \in Daemon /\ sock' = sock /\ Go(c, "quiet") /\ cmd[c].pc # "idle"
  BY DEF Terminate, Listening
<1>3. DOMAIN Off = {"phase", "ver", "stopping"} /\ Off = [f \in DOMAIN Off |-> Off[f]] /\ Off.phase = "off"
  BY DEF Off
<1>4. /\ LinkTypes' /\ cmd'[c].pc = "quiet" /\ \A e \in LinkClient : e # c => cmd'[e] = cmd[e]
      /\ daemon'[d] = Off /\ \A e \in Daemon : e # d => daemon'[e] = daemon[e]
  BY <1>1, <1>2, <1>3, GoTypes DEF LinkInv
<1>5. OldThere' => OldThere
  BY <1>2, <1>3, <1>4 DEF OldThere, Listening, Older
<1> QED BY <1>3, <1>4, <1>5, DaemonMoves DEF LinkInv, NoneComesBack

\* The daemon a command starts is of its own version.
LEMMA SpawnKeeps == ASSUME LinkInv, NEW c \in LinkClient, Spawn(c) PROVE LinkInv'
<1> DEFINE r == [phase |-> "starting", ver |-> ClientVersion, stopping |-> FALSE]
<1>1. PICK d \in Daemon : daemon' = [daemon EXCEPT ![d] = r]
  BY DEF Spawn
<1>2. cmd[c].pc = "spawn" /\ sock' = sock /\ Go(c, "await")
  BY DEF Spawn
<1>3. /\ DOMAIN r = {"phase", "ver", "stopping"} /\ r = [f \in DOMAIN r |-> r[f]]
      /\ r.phase = "starting" /\ r.ver = ClientVersion
  OBVIOUS
<1> HIDE DEF r
<1>4. /\ LinkTypes' /\ cmd'[c].pc = "await" /\ \A e \in LinkClient : e # c => cmd'[e] = cmd[e]
      /\ daemon'[d] = r /\ \A e \in Daemon : e # d => daemon'[e] = daemon[e]
  BY <1>1, <1>2, <1>3, GoTypes DEF LinkInv
<1>5. OldThere' => OldThere
  BY <1>2, <1>3, <1>4 DEF OldThere, Listening, Older
<1> QED BY <1>2, <1>3, <1>4, <1>5, DaemonMoves DEF LinkInv, NoneComesBack

\* Whoever answers a command that waits for the daemon it started is not an old one.
LEMMA AwaitKeeps == ASSUME LinkInv, NEW c \in LinkClient, Await(c) PROVE LinkInv'
<1>1. PICK d \in Listening : cmd' = [cmd EXCEPT ![c].pc = "ok", ![c].ver = daemon[d].ver]
  BY DEF Await
<1> DEFINE r == [cmd[c] EXCEPT !.pc = "ok", !.ver = daemon[d].ver]
<1>2. /\ DOMAIN r = {"op", "pc", "ver"} /\ r = [f \in DOMAIN r |-> r[f]]
      /\ r.ver = daemon[d].ver /\ r.op = cmd[c].op /\ r.pc = "ok"
  BY DEF LinkInv, LinkTypes
<1>3. cmd' = [cmd EXCEPT ![c] = r]
  BY <1>1 DEF LinkInv, LinkTypes
<1>4. /\ cmd[c].pc = "await" /\ sock' = sock /\ daemon' = daemon
      /\ cmd[c].op \in {"ensure", "stop", "restart"}
  BY DEF Await, LinkInv, LinkTypes
<1>5. ~Older(daemon[d].ver)
  BY <1>4 DEF LinkInv, NoneComesBack, OldThere
<1> HIDE DEF r
<1> QED BY <1>2, <1>3, <1>4, <1>5, CommandGoes

LEMMA ReturnKeeps == ASSUME LinkInv, NEW c \in LinkClient, Return(c) PROVE LinkInv'
<1>1. cmd' = [cmd EXCEPT ![c] = NoCmd] /\ sock' = sock /\ daemon' = daemon
  BY DEF Return
<1>2. /\ DOMAIN NoCmd = {"op", "pc", "ver"} /\ NoCmd = [f \in DOMAIN NoCmd |-> NoCmd[f]]
      /\ NoCmd.pc = "idle"
  BY DEF NoCmd
<1> QED BY <1>1, <1>2, CommandGoes

-----------------------------------------------------------------------------
(* Daemons *)

\* A daemon that changes its phase alone: the socket goes, or becomes its own when it comes
\* from "bare", or stays when it does not begin to listen.
LEMMA DaemonGoes ==
  ASSUME LinkInv, NEW d \in Daemon, NEW r, daemon' = [daemon EXCEPT ![d] = r], cmd' = cmd,
         DOMAIN r = {"phase", "ver", "stopping"}, r = [f \in DOMAIN r |-> r[f]],
         r.phase \in {"starting", "bare"} => r.ver = ClientVersion,
         sock' = NoSock \/ (sock' = d /\ ~Older(r.ver)) \/ (sock' = sock /\ r.phase # "listening")
  PROVE  LinkInv'
<1>1. /\ daemon'[d] = r /\ \A e \in Daemon : e # d => daemon'[e] = daemon[e]
      /\ DOMAIN daemon' = Daemon /\ daemon' = [e \in Daemon |-> daemon'[e]]
  BY DEF LinkInv, LinkTypes
<1>2. LinkTypes'
  BY <1>1 DEF LinkInv, LinkTypes
<1>3. OldThere' => OldThere
  <2> SUFFICES ASSUME NEW e \in Daemon, sock' = e, daemon'[e].phase = "listening", Older(daemon'[e].ver)
               PROVE  OldThere
    BY DEF OldThere, Listening, Older
  <2>1. e # NoSock
    BY LinkAssumption DEF LinkAssumption
  <2>2. e # d /\ sock = e
    BY <1>1, <2>1
  <2> QED BY <1>1, <2>2 DEF OldThere, Listening
<1> QED BY <1>1, <1>2, <1>3, DaemonMoves DEF LinkInv, NoneComesBack

\* What Phase(d, from, to) makes of a daemon.
LEMMA PhaseMakes ==
  ASSUME LinkTypes, NEW d \in Daemon, NEW from, NEW to, Phase(d, from, to)
  PROVE  \E r : /\ daemon' = [daemon EXCEPT ![d] = r]
                /\ DOMAIN r = {"phase", "ver", "stopping"} /\ r = [f \in DOMAIN r |-> r[f]]
                /\ r.phase = to /\ r.ver = daemon[d].ver /\ daemon[d].phase = from
<1> DEFINE r == [daemon[d] EXCEPT !.phase = to]
<1>1. /\ DOMAIN r = {"phase", "ver", "stopping"} /\ r = [f \in DOMAIN r |-> r[f]]
      /\ r.phase = to /\ r.ver = daemon[d].ver
  BY DEF LinkTypes
<1>2. daemon' = [daemon EXCEPT ![d] = r] /\ daemon[d].phase = from
  BY DEF Phase
<1> HIDE DEF r
<1> QED BY <1>1, <1>2

LEMMA DaemonStepKeeps == ASSUME LinkInv, NEW d \in Daemon, DaemonStep(d) PROVE LinkInv'
<1>1. LinkTypes /\ (daemon[d].phase \in {"starting", "bare"} => daemon[d].ver = ClientVersion)
  BY DEF LinkInv, NoneComesBack
<1>2. CASE RemoveStale(d)
  <2>1. Phase(d, "starting", "bare") /\ sock' = NoSock /\ cmd' = cmd
    BY <1>2 DEF RemoveStale
  <2> QED BY <1>1, <2>1, PhaseMakes, DaemonGoes
<1>3. CASE Bind(d)
  <2>1. CASE Phase(d, "bare", "listening") /\ sock' = d /\ cmd' = cmd
    BY <1>1, <2>1, PhaseMakes, DaemonGoes, OwnIsNotOlder
  <2>2. CASE Phase(d, "bare", "off") /\ sock' = sock /\ cmd' = cmd
    BY <1>1, <2>2, PhaseMakes, DaemonGoes
  <2> QED BY <1>3, <2>1, <2>2 DEF Bind
<1>4. CASE StopServing(d)
  <2>1. Phase(d, "listening", "closed") /\ sock' = NoSock /\ cmd' = cmd
    BY <1>4 DEF StopServing
  <2> QED BY <1>1, <2>1, PhaseMakes, DaemonGoes
<1>5. CASE ServeReturns(d)
  <2>1. Phase(d, "closed", "closing") /\ sock' = NoSock /\ cmd' = cmd
    BY <1>5 DEF ServeReturns
  <2> QED BY <1>1, <2>1, PhaseMakes, DaemonGoes
<1>6. CASE DaemonExits(d)
  <2>1. Phase(d, "closing", "off") /\ sock' = sock /\ cmd' = cmd
    BY <1>6 DEF DaemonExits
  <2> QED BY <1>1, <2>1, PhaseMakes, DaemonGoes
<1> QED BY <1>2, <1>3, <1>4, <1>5, <1>6 DEF DaemonStep

LEMMA DaemonKilledKeeps == ASSUME LinkInv, NEW d \in Daemon, DaemonKilled(d) PROVE LinkInv'
<1>1. daemon' = [daemon EXCEPT ![d] = Off] /\ sock' = sock /\ cmd' = cmd
  BY DEF DaemonKilled
<1>2. DOMAIN Off = {"phase", "ver", "stopping"} /\ Off = [f \in DOMAIN Off |-> Off[f]] /\ Off.phase = "off"
  BY DEF Off
<1> QED BY <1>1, <1>2, DaemonGoes

-----------------------------------------------------------------------------

LEMMA LinkInvStep == LinkInv /\ [LinkNext]_linkVars => LinkInv'
<1> SUFFICES ASSUME LinkInv, [LinkNext]_linkVars PROVE LinkInv'
  OBVIOUS
<1>1. CASE UNCHANGED linkVars
  BY <1>1 DEF linkVars, LinkInv, LinkTypes, NoneComesBack, OldThere, Listening, EnsuredIsCurrent
<1>2. ASSUME NEW c \in LinkClient, Command(c) PROVE LinkInv'
  BY <1>2, FoundKeeps, FoundNoneKeeps, AskShutdownKeeps, TerminateKeeps, NobodyThereKeeps, QuietKeeps,
     SpawnKeeps, AwaitKeeps, GivesUpKeeps, ReturnKeeps DEF Command
<1>3. ASSUME NEW c \in LinkClient, NEW op \in {"ensure", "stop", "restart"}, Call(c, op) PROVE LinkInv'
  BY <1>3, CallKeeps
<1>4. ASSUME NEW d \in Daemon, DaemonStep(d) \/ DaemonKilled(d) PROVE LinkInv'
  BY <1>4, DaemonStepKeeps, DaemonKilledKeeps
<1> QED BY <1>1, <1>2, <1>3, <1>4 DEF LinkNext

\* EnsuredIsCurrent: EnsureRunning's wait for the daemon it started takes any answer, yet an
\* older daemon never gives it: the command saw nobody answer before it started its own, and
\* only daemons of the commands' version bind the socket again (client.go, EnsureRunning).
THEOREM EnsuredIsCurrentHolds == ~PingTimesOut /\ LinkSpec => []EnsuredIsCurrent
<1>1. LinkInv => EnsuredIsCurrent
  BY DEF LinkInv
<1> QED BY LinkInvInit, LinkInvStep, <1>1, PTL DEF LinkSpec

-----------------------------------------------------------------------------
(* Verified tools *)

\* A call, wherever it is.
ToolCalls ==
  [pc : {"idle", "digest", "fetch", "unpack", "write", "served"},
   why : {"none", "install", "update", "force"}, want : 0..MaxRelease, got : 0..MaxRelease,
   left : SUBSET Binary, at : {Part(b) : b \in Binary} \cup {Gone}, pos : 0..Blocks]

ToolTypes ==
  /\ tool \in Tool /\ tool \notin Overlapping /\ latest \in 1..MaxRelease
  /\ caller \in [Callers -> ToolCalls]
  /\ files = [n \in DOMAIN files |-> files[n]]
  /\ \A n \in DOMAIN files : files[n] \in [1..Blocks -> 0..MaxRelease]

\* A call that has looked a release up knows which; only one that is writing has a file
\* open, that file is there under its temporary name, and its first blocks are written.
CallFits(v) ==
  /\ v.pc \in {"fetch", "unpack", "write"} => v.want # 0
  /\ v.pc # "write" => v.at = Gone
  /\ v.pc = "write" => /\ v.at # Gone /\ v.at \in DOMAIN files
                       /\ \A i \in 1..v.pos : files[v.at][i] = v.got

\* The strengthening: one call at a time, each as far as its file.
OneCall ==
  /\ \A c, d \in Busy : c = d
  /\ \A c \in Callers : CallFits(caller[c])

ToolInv == ToolTypes /\ OneCall /\ InstalledIsVerified

-----------------------------------------------------------------------------

LEMMA NamesApart ==
  /\ \A a, b : Dest(a) # Part(b)
  /\ \A a, b : Dest(a) = Dest(b) => a = b
  /\ \A a, b : Part(a) = Part(b) => a = b
  /\ \A a : Dest(a) # Gone
  /\ \A a : Part(a)[1] = a
BY DEF Dest, Part, Gone

LEMMA PartIsThere ==
  ASSUME tool \in Tool, NEW b \in Binary
  PROVE  Part(b) # Gone
BY DEF Part, Gone, Binary, Tool

LEMMA PutIs ==
  ASSUME NEW f, NEW n, NEW v
  PROVE  /\ Put(f, n, v) = [m \in DOMAIN Put(f, n, v) |-> Put(f, n, v)[m]]
         /\ DOMAIN Put(f, n, v) = DOMAIN f \cup {n}
         /\ Put(f, n, v)[n] = v
         /\ \A m \in DOMAIN f : m # n => Put(f, n, v)[m] = f[m]
BY DEF Put

\* What is in place stays verified by a step that leaves the installed names alone.
LEMMA InstalledStays ==
  ASSUME InstalledIsVerified, Binary' = Binary,
         \A a \in Binary : Dest(a) \in DOMAIN files' => /\ Dest(a) \in DOMAIN files
                                                       /\ files'[Dest(a)] = files[Dest(a)]
  PROVE  InstalledIsVerified'
<1> SUFFICES ASSUME NEW b \in Binary, Dest(b) \in DOMAIN files'
             PROVE  \E r \in 1..MaxRelease : files'[Dest(b)] = Whole(r)
  BY DEF InstalledIsVerified, Present, Is, Dest, Whole
<1>1. \E r \in 1..MaxRelease : files[Dest(b)] = Whole(r)
  BY DEF InstalledIsVerified, Present, Is
<1> QED BY <1>1

LEMMA WholeIs ==
  ASSUME NEW r \in 0..MaxRelease
  PROVE  /\ Whole(r) \in [1..Blocks -> 0..MaxRelease]
         /\ \A i \in 1..Blocks : Whole(r)[i] = r
BY DEF Whole

\* However a call ends, it holds nothing.
LEMMA EndedIs ==
  ASSUME NEW why, NEW ok \in BOOLEAN
  PROVE  /\ Ended(why, ok) \in ToolCalls /\ NoCall \in ToolCalls
         /\ CallFits(Ended(why, ok)) /\ CallFits(NoCall)
         /\ Ended(why, ok).pc \in {"idle", "served"} /\ NoCall.pc = "idle"
<1>1. NoCall \in ToolCalls /\ [NoCall EXCEPT !.pc = "served"] \in ToolCalls
  BY ToolAssumption DEF NoCall, ToolCalls, ToolAssumption
<1>2. NoCall.pc = "idle" /\ [NoCall EXCEPT !.pc = "served"].pc = "served"
      /\ NoCall.at = Gone /\ [NoCall EXCEPT !.pc = "served"].at = Gone
  BY DEF NoCall
<1> QED BY <1>1, <1>2 DEF Ended, CallFits

LEMMA ToolInitHolds == ASSUME tool \in Tool, tool \notin Overlapping, ToolInit PROVE ToolInv
<1>1. latest \in 1..MaxRelease
  BY ToolAssumption DEF ToolInit, ToolAssumption
<1>2. caller \in [Callers -> ToolCalls] /\ \A c \in Callers : caller[c] = NoCall
  BY EndedIs DEF ToolInit
<1>3. CASE tool \in {"godl", "rpm"}
  <2>1. files = [n \in {Main} |-> Whole(1)]
    BY <1>3 DEF ToolInit
  <2>2. Whole(1) \in [1..Blocks -> 0..MaxRelease] /\ 1 \in 1..MaxRelease
    BY WholeIs, ToolAssumption DEF ToolAssumption
  <2>3. ToolTypes
    BY <1>1, <1>2, <2>1, <2>2 DEF ToolTypes
  <2>4. InstalledIsVerified
    BY <2>1, <2>2 DEF InstalledIsVerified, Present, Is
  <2> QED BY <1>2, <2>3, <2>4, EndedIs DEF ToolInv, OneCall, Busy
<1>4. CASE tool \notin {"godl", "rpm"}
  <2>1. files = <<>>
    BY <1>4 DEF ToolInit
  <2>2. DOMAIN files = {} /\ files = [n \in DOMAIN files |-> files[n]]
    BY <2>1
  <2>3. ToolTypes
    BY <1>1, <1>2, <2>2 DEF ToolTypes
  <2>4. InstalledIsVerified
    BY <2>2 DEF InstalledIsVerified, Present
  <2> QED BY <1>2, <2>3, <2>4, EndedIs DEF ToolInv, OneCall, Busy
<1> QED BY <1>3, <1>4

\* A step that moves one call and leaves every file alone.
LEMMA CallMoves ==
  ASSUME ToolInv, NEW c \in Callers, NEW v \in ToolCalls, CallFits(v), v.pc # "write",
         c \in Busy \/ Busy = {} \/ v.pc \in {"idle", "served"},
         caller' = [caller EXCEPT ![c] = v],
         tool' = tool, latest' = latest, files' = files
  PROVE  ToolInv'
<1>1. caller \in [Callers -> ToolCalls] /\ caller' \in [Callers -> ToolCalls]
  BY DEF ToolInv, ToolTypes
<1>2. caller'[c] = v /\ \A d \in Callers : d # c => caller'[d] = caller[d]
  BY <1>1
<1>3. Binary' = Binary /\ ToolCalls' = ToolCalls
  BY DEF Binary, ToolCalls
<1>4. ToolTypes'
  BY <1>1, <1>3 DEF ToolInv, ToolTypes
<1>5. \A d \in Callers : CallFits(caller[d])'
  BY <1>2 DEF ToolInv, OneCall, CallFits
<1>6. \A d, e \in Busy' : d = e
  BY <1>2 DEF ToolInv, OneCall, Busy
<1>7. InstalledIsVerified'
  BY <1>3 DEF ToolInv, InstalledIsVerified, Present, Is, Dest, Whole
<1> QED BY <1>4, <1>5, <1>6, <1>7 DEF ToolInv, OneCall

\* A call that may enter does so when no other is there.
LEMMA EntersAlone ==
  ASSUME ToolInv, NEW c \in Callers, MayEnter(c)
  PROVE  Busy = {} /\ caller[c].pc = "idle" /\ caller[c] \in ToolCalls /\ caller[c].at = Gone
BY DEF ToolInv, ToolTypes, OneCall, CallFits, MayEnter

LEMMA BeginKeeps ==
  ASSUME ToolInv, NEW c \in Callers, MayEnter(c), NEW why \in {"install", "update", "force"},
         Begin(c, why), tool' = tool, latest' = latest, files' = files
  PROVE  ToolInv'
<1> DEFINE v == [NoCall EXCEPT !.pc = "digest", !.why = why]
<1>1. v \in ToolCalls
  BY EndedIs DEF ToolCalls
<1>2. v.pc = "digest" /\ v.at = Gone
  BY DEF NoCall
<1>3. CallFits(v)
  BY <1>2 DEF CallFits
<1>4. caller' = [caller EXCEPT ![c] = v]
  BY DEF Begin
<1>5. Busy = {}
  BY EntersAlone
<1> HIDE DEF v
<1> QED BY <1>1, <1>2, <1>3, <1>4, <1>5, CallMoves

LEMMA ServeKeeps ==
  ASSUME ToolInv, NEW c \in Callers, MayEnter(c), caller' = [caller EXCEPT ![c].pc = "served"],
         tool' = tool, latest' = latest, files' = files
  PROVE  ToolInv'
<1> DEFINE v == [caller[c] EXCEPT !.pc = "served"]
<1>1. caller[c] \in ToolCalls /\ caller[c].at = Gone
  BY EntersAlone
<1>2. v \in ToolCalls /\ v.pc = "served" /\ v.at = Gone
  BY <1>1 DEF ToolCalls
<1>3. CallFits(v)
  BY <1>2 DEF CallFits
<1>4. caller' = [caller EXCEPT ![c] = v]
  OBVIOUS
<1> HIDE DEF v
<1> QED BY <1>2, <1>3, <1>4, CallMoves

LEMMA ToolCallKept ==
  ASSUME ToolInv, NEW c \in Callers, ToolCall(c) \/ ForceUpdateTool(c)
  PROVE  ToolInv'
<1>1. CASE EnsureYtdlp(c) \/ EnsureFfmpeg(c)
  <2>1. MayEnter(c) /\ tool' = tool /\ latest' = latest /\ files' = files
    BY <1>1 DEF EnsureYtdlp, EnsureFfmpeg
  <2>2. Begin(c, "install") \/ Begin(c, "update") \/ caller' = [caller EXCEPT ![c].pc = "served"]
    BY <1>1 DEF EnsureYtdlp, EnsureFfmpeg, EnsureInstalled
  <2> QED BY <2>1, <2>2, BeginKeeps, ServeKeeps
<1>2. CASE FindDeno(c)
  <2>1. MayEnter(c) /\ tool' = tool /\ latest' = latest /\ files' = files
    BY <1>2 DEF FindDeno
  <2>2. Begin(c, "install") \/ caller' = [caller EXCEPT ![c].pc = "served"]
    BY <1>2 DEF FindDeno
  <2> QED BY <2>1, <2>2, BeginKeeps, ServeKeeps
<1>3. CASE ForceUpdateTool(c)
  BY <1>3, BeginKeeps DEF ForceUpdateTool
<1>4. CASE ForceUpdateGodl(c)
  <2> DEFINE v == [NoCall EXCEPT !.pc = "digest", !.why = "force", !.want = latest]
  <2>1. latest \in 0..MaxRelease
    BY ToolAssumption DEF ToolInv, ToolTypes, ToolAssumption
  <2>2. v \in ToolCalls
    BY <2>1, EndedIs DEF ToolCalls
  <2>3. v.pc = "digest" /\ v.at = Gone
    BY DEF NoCall
  <2>4. CallFits(v)
    BY <2>3 DEF CallFits
  <2>5. caller' = [caller EXCEPT ![c] = v] /\ tool' = tool /\ latest' = latest /\ files' = files
    BY <1>4 DEF ForceUpdateGodl
  <2>6. Busy = {}
    BY <1>4, EntersAlone DEF ForceUpdateGodl
  <2> HIDE DEF v
  <2> QED BY <2>2, <2>3, <2>4, <2>5, <2>6, CallMoves
<1> QED BY <1>1, <1>2, <1>3, <1>4 DEF ToolCall

\* A call that ends with its files as they are.
LEMMA EndKeeps ==
  ASSUME ToolInv, NEW c \in Callers, NEW why, NEW ok \in BOOLEAN,
         caller' = [caller EXCEPT ![c] = Ended(why, ok)],
         tool' = tool, latest' = latest, files' = files
  PROVE  ToolInv'
<1> DEFINE v == Ended(why, ok)
<1>1. v \in ToolCalls /\ CallFits(v) /\ v.pc \in {"idle", "served"}
  BY EndedIs
<1>2. caller' = [caller EXCEPT ![c] = v] /\ v.pc # "write"
  BY <1>1
<1> HIDE DEF v
<1> QED BY <1>1, <1>2, CallMoves

\* Looking a release up, and fetching an archive.
LEMMA LookupKeeps ==
  ASSUME ToolInv, NEW c \in Callers,
         AssetDigest(c) \/ OldAsset(c) \/ Stage(c) \/ LookupFails(c) \/ UseTool(c)
  PROVE  ToolInv'
<1>1. /\ tool' = tool /\ latest' = latest /\ files' = files
  BY DEF AssetDigest, OldAsset, Stage, LookupFails, UseTool
<1>2. caller \in [Callers -> ToolCalls] /\ caller[c] \in ToolCalls /\ CallFits(caller[c])
      /\ latest \in 0..MaxRelease /\ latest # 0
  BY ToolAssumption DEF ToolInv, ToolTypes, OneCall, ToolAssumption
<1>3. CASE OldAsset(c)
  BY <1>1, <1>3, EndKeeps DEF OldAsset
<1>4. CASE LookupFails(c)
  BY <1>1, <1>4, EndKeeps DEF LookupFails, Fails
<1>5. CASE UseTool(c)
  <2>1. caller' = [caller EXCEPT ![c] = NoCall]
    BY <1>5 DEF UseTool
  <2>2. NoCall \in ToolCalls /\ CallFits(NoCall) /\ NoCall.pc = "idle"
    BY EndedIs
  <2> QED BY <1>1, <2>1, <2>2, CallMoves
<1>6. CASE AssetDigest(c)
  <2>1. caller[c].pc = "digest" /\ c \in Busy
    BY <1>6 DEF AssetDigest, Busy
  <2>2. CASE Current(c)
    <3>1. caller' = [caller EXCEPT ![c] = Ended(caller[c].why, TRUE)]
      BY <1>6, <2>2 DEF AssetDigest
    <3> QED BY <1>1, <3>1, EndKeeps
  <2>3. CASE ~Current(c)
    <3> DEFINE v == [caller[c] EXCEPT !.pc = "fetch", !.want = latest]
    <3>1. v \in ToolCalls /\ v.pc = "fetch" /\ v.at = caller[c].at /\ v.want = latest
      BY <1>2 DEF ToolCalls
    <3>2. CallFits(v)
      BY <1>2, <2>1, <3>1 DEF CallFits
    <3>3. caller' = [caller EXCEPT ![c] = v]
      BY <1>6, <2>3 DEF AssetDigest
    <3> HIDE DEF v
    <3> QED BY <1>1, <2>1, <3>1, <3>2, <3>3, CallMoves
  <2> QED BY <2>2, <2>3
<1>7. CASE Stage(c)
  <2>1. caller[c].pc = "fetch" /\ c \in Busy
    BY <1>7 DEF Stage, Busy
  <2>2. CASE latest # caller[c].want
    <3>1. caller' = [caller EXCEPT ![c] = Ended(caller[c].why, FALSE)]
      BY <1>7, <2>2 DEF Stage
    <3> QED BY <1>1, <3>1, EndKeeps
  <2>3. CASE latest = caller[c].want
    <3> DEFINE v == [caller[c] EXCEPT !.pc = "unpack", !.got = latest, !.left = Binary]
    <3>1. v \in ToolCalls /\ v.pc = "unpack" /\ v.at = caller[c].at /\ v.want = latest
      BY <1>2, <2>3 DEF ToolCalls
    <3>2. CallFits(v)
      BY <1>2, <2>1, <3>1 DEF CallFits
    <3>3. caller' = [caller EXCEPT ![c] = v]
      BY <1>7, <2>3 DEF Stage
    <3> HIDE DEF v
    <3> QED BY <1>1, <2>1, <3>1, <3>2, <3>3, CallMoves
  <2> QED BY <2>2, <2>3
<1> QED BY <1>3, <1>4, <1>5, <1>6, <1>7

\* Opening a temporary file, under a name no other call has open.
LEMMA OpenedKeeps ==
  ASSUME ToolInv, NEW c \in Busy, NEW b \in Binary, NEW got \in 0..MaxRelease,
         caller[c].want # 0, Opened(c, Part(b), got), tool' = tool, latest' = latest
  PROVE  ToolInv'
<1> DEFINE v == [caller[c] EXCEPT !.pc = "write", !.got = got, !.at = Part(b), !.pos = 0]
<1>1. c \in Callers /\ caller \in [Callers -> ToolCalls] /\ caller[c] \in ToolCalls /\ tool \in Tool
  BY DEF ToolInv, ToolTypes, Busy
<1>2. v \in ToolCalls /\ v.pc = "write" /\ v.want = caller[c].want /\ v.at = Part(b) /\ v.pos = 0
  <2>1. 0 \in 0..Blocks
    BY ToolAssumption DEF ToolAssumption
  <2>2. Part(b) \in {Part(a) : a \in Binary} \cup {Gone}
    OBVIOUS
  <2> HIDE DEF Part
  <2> QED BY <1>1, <2>1, <2>2 DEF ToolCalls
<1>3. caller' = [caller EXCEPT ![c] = v] /\ files' = Put(files, Part(b), Hollow)
  BY DEF Opened
<1> HIDE DEF v
<1>4. caller' \in [Callers -> ToolCalls] /\ caller'[c] = v /\ \A d \in Callers : d # c => caller'[d] = caller[d]
  BY <1>1, <1>2, <1>3
<1>5. Binary' = Binary /\ ToolCalls' = ToolCalls
  BY DEF Binary, ToolCalls
<1>6. Hollow \in [1..Blocks -> 0..MaxRelease]
  <2>1. 0 \in 0..MaxRelease
    BY ToolAssumption DEF ToolAssumption
  <2> QED BY <2>1 DEF Hollow, Whole
<1>7. /\ files' = [m \in DOMAIN files' |-> files'[m]]
      /\ DOMAIN files' = DOMAIN files \cup {Part(b)} /\ files'[Part(b)] = Hollow
      /\ \A m \in DOMAIN files : m # Part(b) => files'[m] = files[m]
  BY <1>3 DEF Put
<1>8. ToolTypes'
  <2>1. \A n \in DOMAIN files' : files'[n] \in [1..Blocks -> 0..MaxRelease]
    BY <1>6, <1>7 DEF ToolInv, ToolTypes
  <2> QED BY <1>4, <1>5, <1>7, <2>1 DEF ToolInv, ToolTypes
<1>9. \A d \in Callers : d # c => d \notin Busy /\ caller[d].pc # "write"
  BY DEF ToolInv, OneCall, Busy
<1>10. CallFits(caller[c])'
  <2>1. \A i \in 1..0 : FALSE
    OBVIOUS
  <2> QED BY <1>1, <1>2, <1>4, <1>7, <2>1, PartIsThere DEF CallFits
<1>11. \A d \in Callers : d # c => CallFits(caller[d])'
  BY <1>4, <1>9 DEF ToolInv, OneCall, CallFits
<1>12. \A d, e \in Busy' : d = e
  BY <1>4, <1>9 DEF Busy
<1>13. InstalledIsVerified'
  <2>1. \A a \in Binary : Dest(a)' = Dest(a) /\ Dest(a) # Part(b)
    BY NamesApart DEF Dest
  <2>2. \A a \in Binary : Dest(a) \in DOMAIN files' => /\ Dest(a) \in DOMAIN files
                                                     /\ files'[Dest(a)] = files[Dest(a)]
    BY <1>7, <2>1
  <2> QED BY <1>5, <2>2, InstalledStays DEF ToolInv
<1> QED BY <1>8, <1>10, <1>11, <1>12, <1>13 DEF ToolInv, OneCall

LEMMA OpenKeeps ==
  ASSUME ToolInv, NEW c \in Callers, Open(c) \/ \E b \in Binary : Unpack(c, b)
  PROVE  ToolInv'
<1>1. caller[c] \in ToolCalls /\ CallFits(caller[c]) /\ latest \in 0..MaxRelease
  BY ToolAssumption DEF ToolInv, ToolTypes, OneCall, ToolAssumption
<1>2. CASE Open(c)
  <2>1. c \in Busy /\ caller[c].want # 0 /\ Opened(c, Part(tool), Sent(c))
        /\ tool' = tool /\ latest' = latest
    BY <1>1, <1>2 DEF Open, Busy, CallFits
  <2>2. tool \in Binary
    BY <1>2 DEF Open, Binary
  <2>3. Sent(c) \in 0..MaxRelease
    BY <1>1 DEF Sent, ToolCalls
  <2> QED BY <2>1, <2>2, <2>3, OpenedKeeps
<1>3. ASSUME NEW b \in Binary, Unpack(c, b) PROVE ToolInv'
  <2>1. c \in Busy /\ caller[c].want # 0 /\ Opened(c, Part(b), caller[c].got)
        /\ tool' = tool /\ latest' = latest
    BY <1>1, <1>3 DEF Unpack, Busy, CallFits
  <2>2. caller[c].got \in 0..MaxRelease
    BY <1>1 DEF ToolCalls
  <2> QED BY <2>1, <2>2, OpenedKeeps
<1> QED BY <1>2, <1>3

\* The file a call is writing is that of the binary it is at.
LEMMA WritesPart ==
  ASSUME ToolInv, NEW c \in Callers, caller[c].pc = "write"
  PROVE  /\ c \in Busy /\ caller[c] \in ToolCalls
         /\ \E b \in Binary : caller[c].at = Part(b)
         /\ \A b \in Binary : Writing(c, b) => caller[c].at = Part(b)
         /\ \A d \in Callers : d # c => d \notin Busy /\ caller[d].pc # "write" /\ caller[d].at = Gone
<1>1. caller[c] \in ToolCalls /\ CallFits(caller[c]) /\ tool \in Tool
  BY DEF ToolInv, ToolTypes, OneCall
<1>2. \E b \in Binary : caller[c].at = Part(b)
  BY <1>1 DEF ToolCalls, CallFits
<1>3. \A b \in Binary : Writing(c, b) => caller[c].at = Part(b)
  <2>1. CASE tool = "ffmpeg"
    BY <1>2, <2>1, NamesApart DEF Writing
  <2>2. CASE tool # "ffmpeg"
    BY <1>2, <2>2 DEF Binary
  <2> QED BY <2>1, <2>2
<1>4. \A d \in Callers : d # c => d \notin Busy /\ caller[d].pc # "write" /\ caller[d].at = Gone
  BY DEF ToolInv, OneCall, Busy, CallFits
<1> QED BY <1>1, <1>2, <1>3, <1>4 DEF Busy

LEMMA WriteBlockKeeps == ASSUME ToolInv, NEW c \in Callers, WriteBlock(c) PROVE ToolInv'
<1> DEFINE at == caller[c].at  i == caller[c].pos + 1  v == [caller[c] EXCEPT !.pos = i]
           new == [files[at] EXCEPT ![i] = caller[c].got]
<1>1. /\ caller[c].pc = "write" /\ i <= Blocks /\ tool' = tool /\ latest' = latest
      /\ files' = (IF at = Gone THEN files ELSE [files EXCEPT ![at][i] = caller[c].got])
      /\ caller' = [caller EXCEPT ![c].pos = i]
  BY DEF WriteBlock
<1>2. /\ c \in Busy /\ caller[c] \in ToolCalls /\ caller \in [Callers -> ToolCalls]
      /\ \A d \in Callers : d # c => d \notin Busy /\ caller[d].pc # "write" /\ caller[d].at = Gone
      /\ CallFits(caller[c]) /\ files = [n \in DOMAIN files |-> files[n]]
      /\ \A n \in DOMAIN files : files[n] \in [1..Blocks -> 0..MaxRelease]
  BY <1>1, WritesPart DEF ToolInv, ToolTypes, OneCall
<1>3. PICK b \in Binary : at = Part(b)
  BY <1>1, WritesPart
<1>4. at # Gone /\ at \in DOMAIN files /\ \A k \in 1..caller[c].pos : files[at][k] = caller[c].got
  BY <1>1, <1>2 DEF CallFits
<1>5. i \in 1..Blocks /\ caller[c].got \in 0..MaxRelease /\ caller[c].pos \in Nat
  BY <1>1, <1>2, ToolAssumption DEF ToolCalls, ToolAssumption
<1>6. v \in ToolCalls /\ v.pc = "write" /\ v.at = at /\ v.got = caller[c].got /\ v.want = caller[c].want /\ v.pos = i
  <2>1. i \in 0..Blocks
    BY <1>5, ToolAssumption DEF ToolAssumption
  <2> HIDE DEF i
  <2> QED BY <1>1, <1>2, <2>1 DEF ToolCalls
<1>7. caller' \in [Callers -> ToolCalls] /\ caller'[c] = v /\ \A d \in Callers : d # c => caller'[d] = caller[d]
  <2>1. caller' = [caller EXCEPT ![c] = v]
    BY <1>1
  <2> HIDE DEF v
  <2> QED BY <1>2, <1>6, <2>1
<1>8. new \in [1..Blocks -> 0..MaxRelease] /\ \A k \in 1..i : new[k] = caller[c].got
  <2>1. files[at] \in [1..Blocks -> 0..MaxRelease]
    BY <1>2, <1>4
  <2>2. \A k \in 1..i : k = i \/ k \in 1..caller[c].pos
    BY <1>5
  <2>3. \A k \in 1..i : k \in 1..Blocks
    BY <1>5, ToolAssumption DEF ToolAssumption
  <2> HIDE DEF i, at
  <2> QED BY <1>4, <1>5, <2>1, <2>2, <2>3
<1>9. /\ files' = [files EXCEPT ![at] = new] /\ DOMAIN files' = DOMAIN files /\ files'[at] = new
      /\ \A n \in DOMAIN files : n # at => files'[n] = files[n]
      /\ files' = [n \in DOMAIN files' |-> files'[n]]
  <2>1. files' = [files EXCEPT ![at] = new]
    BY <1>1, <1>4
  <2> HIDE DEF new, at
  <2> QED BY <1>2, <1>4, <2>1
<1> HIDE DEF v, new, at, i
<1>10. Binary' = Binary /\ ToolCalls' = ToolCalls
  BY <1>1 DEF Binary, ToolCalls
<1>11. ToolTypes'
  <2>1. \A n \in DOMAIN files' : files'[n] \in [1..Blocks -> 0..MaxRelease]
    BY <1>2, <1>8, <1>9
  <2> QED BY <1>1, <1>7, <1>9, <1>10, <2>1 DEF ToolInv, ToolTypes
<1>12. CallFits(caller[c])'
  <2>1. v.want # 0
    BY <1>1, <1>2, <1>6 DEF CallFits
  <2>2. \A k \in 1..v.pos : files'[v.at][k] = v.got
    <3>1. v.pos = i /\ v.got = caller[c].got /\ files'[v.at] = new
      BY <1>6, <1>9
    <3>2. \A k \in 1..i : new[k] = caller[c].got
      BY <1>8
    <3> QED BY <3>1, <3>2
  <2>3. v.at # Gone /\ v.at \in DOMAIN files'
    BY <1>4, <1>6, <1>9
  <2> QED BY <1>6, <1>7, <2>1, <2>2, <2>3 DEF CallFits, Gone
<1>13. \A d \in Callers : d # c => CallFits(caller[d])'
  BY <1>2, <1>7 DEF ToolInv, OneCall, CallFits
<1>14. \A d, e \in Busy' : d = e
  BY <1>2, <1>7 DEF Busy
<1>15. InstalledIsVerified'
  <2>1. \A a \in Binary : Dest(a) # at
    BY <1>3, NamesApart
  <2> QED BY <1>9, <1>10, <2>1, InstalledStays DEF ToolInv
<1> QED BY <1>11, <1>12, <1>13, <1>14, <1>15 DEF ToolInv, OneCall

\* The package manager's own rename.
LEMMA InstallRPMKeeps == ASSUME ToolInv, NEW c \in Callers, InstallRPM(c) PROVE ToolInv'
<1>1. /\ caller[c].pc = "fetch" /\ tool = "rpm" /\ tool' = tool /\ latest' = latest
      /\ files' = Put(files, Main, Whole(caller[c].want))
      /\ caller' = [caller EXCEPT ![c] = NoCall]
  BY DEF InstallRPM
<1>2. /\ caller \in [Callers -> ToolCalls] /\ caller[c] \in ToolCalls /\ CallFits(caller[c])
      /\ \A n \in DOMAIN files : files[n] \in [1..Blocks -> 0..MaxRelease]
  BY DEF ToolInv, ToolTypes, OneCall
<1> DEFINE r == caller[c].want
<1>3. r \in 1..MaxRelease
  BY <1>1, <1>2, ToolAssumption DEF CallFits, ToolCalls, ToolAssumption
<1>4. NoCall \in ToolCalls /\ CallFits(NoCall) /\ NoCall.pc = "idle" /\ NoCall.at = Gone
  BY EndedIs DEF NoCall
<1>5. caller' \in [Callers -> ToolCalls] /\ caller'[c] = NoCall /\ \A d \in Callers : d # c => caller'[d] = caller[d]
  BY <1>1, <1>2, <1>4
<1>6. /\ files' = [m \in DOMAIN files' |-> files'[m]]
      /\ DOMAIN files' = DOMAIN files \cup {Main} /\ files'[Main] = Whole(r)
      /\ \A m \in DOMAIN files : m # Main => files'[m] = files[m]
  BY <1>1 DEF Put
<1>7. Whole(r) \in [1..Blocks -> 0..MaxRelease]
  BY <1>3, WholeIs
<1> HIDE DEF r
<1>8. Binary' = Binary /\ ToolCalls' = ToolCalls /\ Main' = Main
  BY <1>1 DEF Binary, ToolCalls, Main, Dest
<1>9. ToolTypes'
  <2>1. \A n \in DOMAIN files' : files'[n] \in [1..Blocks -> 0..MaxRelease]
    BY <1>2, <1>6, <1>7
  <2> QED BY <1>1, <1>5, <1>6, <1>8, <2>1 DEF ToolInv, ToolTypes
<1>10. \A d \in Callers : d # c => d \notin Busy
  BY <1>1 DEF ToolInv, OneCall, Busy
<1>11. \A d \in Callers : CallFits(caller[d])'
  BY <1>4, <1>5, <1>10 DEF ToolInv, OneCall, CallFits, Busy
<1>12. \A d, e \in Busy' : d = e
  BY <1>4, <1>5, <1>10 DEF Busy
<1>13. InstalledIsVerified'
  <2>1. Binary = {tool}
    BY <1>1 DEF Binary
  <2>2. \A b \in Binary : Dest(b) = Main
    BY <2>1 DEF Main
  <2> QED BY <1>3, <1>6, <1>8, <2>2 DEF InstalledIsVerified, Present, Is, Whole, Dest, Main
<1> QED BY <1>9, <1>11, <1>12, <1>13 DEF ToolInv, OneCall

\* With one call at a time, nobody else has the file that is removed or renamed open.
LEMMA NobodyElseHasIt ==
  ASSUME ToolInv, NEW c \in Callers, caller[c].pc = "write", NEW b \in Binary, NEW to \in {Gone, Dest(b)},
         NEW v, caller' = [Renamed(c, Part(b), to) EXCEPT ![c] = v]
  PROVE  caller' = [caller EXCEPT ![c] = v]
<1>1. caller \in [Callers -> ToolCalls] /\ tool \in Tool
  BY DEF ToolInv, ToolTypes
<1>2. \A d \in Callers : d # c => caller[d].at = Gone
  BY WritesPart
<1>3. Part(b) # Gone /\ Dest(b) # Gone
  BY <1>1, PartIsThere, NamesApart
<1>4. \A d \in Callers : d # c => [caller[d] EXCEPT !.at = Gone] = caller[d]
  BY <1>1, <1>2 DEF ToolCalls
<1>5. \A d \in Callers : d # c => Renamed(c, Part(b), to)[d] = caller[d]
  BY <1>2, <1>3, <1>4 DEF Renamed
<1>6. Renamed(c, Part(b), to) = [d \in Callers |-> Renamed(c, Part(b), to)[d]]
  BY DEF Renamed
<1> QED BY <1>1, <1>5, <1>6

\* A step of the only writer that lets go of its file: what is left of the files is in order.
LEMMA LetsGo ==
  ASSUME ToolInv, NEW c \in Callers, caller[c].pc = "write", NEW v \in ToolCalls, CallFits(v), v.pc # "write",
         caller' = [caller EXCEPT ![c] = v], tool' = tool, latest' = latest,
         files' = [n \in DOMAIN files' |-> files'[n]],
         \A n \in DOMAIN files' : files'[n] \in [1..Blocks -> 0..MaxRelease],
         InstalledIsVerified'
  PROVE  ToolInv'
<1>1. caller \in [Callers -> ToolCalls]
  BY DEF ToolInv, ToolTypes
<1>2. caller' \in [Callers -> ToolCalls] /\ caller'[c] = v /\ \A d \in Callers : d # c => caller'[d] = caller[d]
  BY <1>1
<1>3. Binary' = Binary /\ ToolCalls' = ToolCalls
  BY DEF Binary, ToolCalls
<1>4. ToolTypes'
  BY <1>2, <1>3 DEF ToolInv, ToolTypes
<1>5. \A d \in Callers : d # c => d \notin Busy /\ caller[d].pc # "write"
  BY WritesPart
<1>6. \A d \in Callers : d # c => CallFits(caller[d])'
  BY <1>2, <1>5 DEF ToolInv, OneCall, CallFits
<1>7. CallFits(caller[c])'
  BY <1>2 DEF CallFits
<1>8. \A d, e \in Busy' : d = e
  BY <1>2, <1>5 DEF Busy
<1> QED BY <1>4, <1>6, <1>7, <1>8 DEF ToolInv, OneCall

LEMMA WithoutIs ==
  ASSUME ToolInv, NEW n
  PROVE  /\ Without(n) = [m \in DOMAIN Without(n) |-> Without(n)[m]]
         /\ DOMAIN Without(n) = DOMAIN files \ {n}
         /\ \A m \in DOMAIN files : m # n => Without(n)[m] = files[m]
         /\ \A m \in DOMAIN Without(n) : Without(n)[m] \in [1..Blocks -> 0..MaxRelease]
BY DEF Without, ToolInv, ToolTypes

LEMMA RemovePartKeeps ==
  ASSUME ToolInv, NEW c \in Callers, NEW b \in Binary, WriteFails(c, b) \/ Mismatch(c, b)
  PROVE  ToolInv'
<1> DEFINE v == Ended(caller[c].why, FALSE)  n == Part(b)
<1>1. /\ caller[c].pc = "write" /\ files' = Without(n)
      /\ caller' = [Renamed(c, Part(b), Gone) EXCEPT ![c] = v]
      /\ tool' = tool /\ latest' = latest
  BY DEF WriteFails, Mismatch, RemovePart, Writing
<1>2. v \in ToolCalls /\ CallFits(v) /\ v.pc # "write"
  BY EndedIs
<1> HIDE DEF v
<1>3. caller' = [caller EXCEPT ![c] = v]
  BY <1>1, NobodyElseHasIt
<1>4. \A a \in Binary : Dest(a) # n
  BY NamesApart
<1> HIDE DEF n
<1>5. /\ files' = [m \in DOMAIN files' |-> files'[m]]
      /\ DOMAIN files' = DOMAIN files \ {n}
      /\ \A m \in DOMAIN files : m # n => files'[m] = files[m]
      /\ \A m \in DOMAIN files' : files'[m] \in [1..Blocks -> 0..MaxRelease]
  BY <1>1, WithoutIs
<1>6. Binary' = Binary
  BY <1>1 DEF Binary
<1>7. InstalledIsVerified'
  BY <1>4, <1>5, <1>6, InstalledStays DEF ToolInv
<1> QED BY <1>1, <1>2, <1>3, <1>5, <1>7, LetsGo

\* The rename puts what is written from its first block to its last.
LEMMA RenameKeeps == ASSUME ToolInv, NEW c \in Callers, NEW b \in Binary, Rename(c, b) PROVE ToolInv'
<1> DEFINE left == caller[c].left \ {b}
           next == [caller[c] EXCEPT !.pc = "unpack", !.left = left, !.at = Gone]
           v == IF left = {} THEN Ended(caller[c].why, TRUE) ELSE next
<1>1. /\ Writing(c, b) /\ caller[c].pc = "write" /\ caller[c].pos = Blocks /\ caller[c].got = caller[c].want
      /\ tool' = tool /\ latest' = latest
  BY DEF Rename, Writing
<1>2. caller[c] \in ToolCalls /\ CallFits(caller[c]) /\ caller[c].at = Part(b) /\ tool \in Tool
  BY <1>1, WritesPart DEF ToolInv, ToolTypes, OneCall
<1>3. Present(Part(b)) /\ \A i \in 1..Blocks : files[Part(b)][i] = caller[c].got
  BY <1>1, <1>2 DEF CallFits, Present
<1>4. /\ files' = Put(Without(Part(b)), Dest(b), files[Part(b)])
      /\ caller' = [Renamed(c, Part(b), Dest(b)) EXCEPT ![c] = v]
  BY <1>3 DEF Rename
<1>5. v \in ToolCalls /\ CallFits(v) /\ v.pc # "write"
  <2>1. next \in ToolCalls /\ next.pc = "unpack" /\ next.at = Gone /\ next.want = caller[c].want
    BY <1>2 DEF ToolCalls
  <2>2. CallFits(next)
    BY <1>1, <1>2, <2>1 DEF CallFits
  <2> HIDE DEF next, left
  <2> QED BY <2>1, <2>2, EndedIs
<1> HIDE DEF v
<1>6. caller' = [caller EXCEPT ![c] = v]
  BY <1>1, <1>4, NobodyElseHasIt
<1>7. caller[c].want \in 1..MaxRelease
  BY <1>1, <1>2, ToolAssumption DEF CallFits, ToolCalls, ToolAssumption
<1>8. files[Part(b)] = Whole(caller[c].want)
  <2>1. files[Part(b)] \in [1..Blocks -> 0..MaxRelease]
    BY <1>3 DEF ToolInv, ToolTypes, Present
  <2> QED BY <1>1, <1>3, <2>1 DEF Whole
<1> DEFINE rest == Without(Part(b))  new == files[Part(b)]
<1>9. /\ DOMAIN rest = DOMAIN files \ {Part(b)}
      /\ \A m \in DOMAIN files : m # Part(b) => rest[m] = files[m]
      /\ \A m \in DOMAIN rest : rest[m] \in [1..Blocks -> 0..MaxRelease]
  BY WithoutIs
<1>10. new \in [1..Blocks -> 0..MaxRelease]
  BY <1>3 DEF ToolInv, ToolTypes, Present
<1>11. files' = Put(rest, Dest(b), new)
  BY <1>4
<1> HIDE DEF rest, new
<1>12. /\ files' = [m \in DOMAIN files' |-> files'[m]]
       /\ DOMAIN files' = DOMAIN rest \cup {Dest(b)} /\ files'[Dest(b)] = new
       /\ \A m \in DOMAIN rest : m # Dest(b) => files'[m] = rest[m]
  BY <1>11 DEF Put
<1>13. \A m \in DOMAIN files' : files'[m] \in [1..Blocks -> 0..MaxRelease]
  BY <1>9, <1>10, <1>12
<1>14. Binary' = Binary
  BY <1>1 DEF Binary
<1>15. InstalledIsVerified'
  <2> SUFFICES ASSUME NEW a \in Binary, Dest(a) \in DOMAIN files'
               PROVE  \E r \in 1..MaxRelease : files'[Dest(a)] = Whole(r)
    BY <1>14 DEF InstalledIsVerified, Present, Is, Whole, Dest
  <2>1. CASE a = b
    BY <1>7, <1>8, <1>12, <2>1 DEF new
  <2>2. CASE a # b
    <3>1. Dest(a) # Dest(b) /\ Dest(a) # Part(b)
      BY <2>2, NamesApart
    <3>2. Dest(a) \in DOMAIN files /\ files'[Dest(a)] = files[Dest(a)]
      BY <1>9, <1>12, <3>1
    <3> QED BY <3>2 DEF ToolInv, InstalledIsVerified, Present, Is
  <2> QED BY <2>1, <2>2
<1> QED BY <1>1, <1>5, <1>6, <1>12, <1>13, <1>15, LetsGo

LEMMA SurroundingsKeep == ASSUME ToolInv, StampExpires \/ Release \/ KillCallers PROVE ToolInv'
<1>1. tool' = tool /\ files' = files /\ latest' \in 1..MaxRelease
  BY ToolAssumption DEF StampExpires, Release, KillCallers, ToolInv, ToolTypes, ToolAssumption
<1>2. Binary' = Binary /\ ToolCalls' = ToolCalls
  BY <1>1 DEF Binary, ToolCalls
<1>3. InstalledIsVerified'
  BY <1>1, <1>2, InstalledStays DEF ToolInv
<1>4. CASE StampExpires \/ Release
  <2>1. caller' = caller
    BY <1>4 DEF StampExpires, Release
  <2> QED BY <1>1, <1>2, <1>3, <2>1 DEF ToolInv, ToolTypes, OneCall, Busy, CallFits
<1>5. CASE KillCallers
  <2>1. caller' = [c \in Callers |-> NoCall]
    BY <1>5 DEF KillCallers
  <2>2. NoCall \in ToolCalls /\ NoCall.pc = "idle" /\ NoCall.at = Gone
    BY EndedIs DEF NoCall
  <2>3. caller' \in [Callers -> ToolCalls] /\ \A c \in Callers : caller'[c].pc = "idle" /\ caller'[c].at = Gone
    BY <2>1, <2>2
  <2>4. OneCall'
    BY <2>3 DEF OneCall, Busy, CallFits
  <2> QED BY <1>1, <1>2, <1>3, <2>3, <2>4 DEF ToolInv, ToolTypes
<1> QED BY <1>4, <1>5

\* With one call at a time, the invariant holds from the first step on: of deno and of an rpm
\* always, of the other tools as long as nobody else installs them.
THEOREM ToolInvHolds == tool \notin Overlapping /\ ToolSpec => []ToolInv
<1>1. tool \notin Overlapping /\ tool \in Tool /\ ToolInit => ToolInv
  BY ToolInitHolds
<1>2. ToolInv /\ [ToolNext]_toolVars => ToolInv'
  <2> SUFFICES ASSUME ToolInv, [ToolNext]_toolVars PROVE ToolInv'
    OBVIOUS
  <2>1. CASE UNCHANGED toolVars
    <3>1. Binary' = Binary /\ ToolCalls' = ToolCalls
      BY <2>1 DEF toolVars, Binary, ToolCalls
    <3>2. InstalledIsVerified'
      BY <2>1, <3>1, InstalledStays DEF ToolInv, toolVars
    <3> QED BY <2>1, <3>1, <3>2 DEF toolVars, ToolInv, ToolTypes, OneCall, Busy, CallFits
  <2>2. CASE StampExpires \/ Release \/ KillCallers
    BY <2>2, SurroundingsKeep
  <2>3. ASSUME NEW c \in Callers, ToolCall(c) \/ ForceUpdateTool(c) \/ ToolStep(c) \/ ToolFailure(c)
        PROVE  ToolInv'
    <3>1. CASE ToolCall(c) \/ ForceUpdateTool(c)
      BY <3>1, ToolCallKept
    <3>2. CASE AssetDigest(c) \/ OldAsset(c) \/ Stage(c) \/ LookupFails(c) \/ UseTool(c)
      BY <3>2, LookupKeeps
    <3>3. CASE Open(c) \/ \E b \in Binary : Unpack(c, b)
      BY <3>3, OpenKeeps
    <3>4. CASE InstallRPM(c)
      BY <3>4, InstallRPMKeeps
    <3>5. CASE WriteBlock(c)
      BY <3>5, WriteBlockKeeps
    <3>6. ASSUME NEW b \in Binary, WriteFails(c, b) \/ Mismatch(c, b) PROVE ToolInv'
      BY <3>6, RemovePartKeeps
    <3>7. ASSUME NEW b \in Binary, Rename(c, b) PROVE ToolInv'
      BY <3>7, RenameKeeps
    <3> QED BY <2>3, <3>1, <3>2, <3>3, <3>4, <3>5, <3>6, <3>7 DEF ToolStep, ToolFailure
  <2> QED BY <2>1, <2>2, <2>3 DEF ToolNext
<1> QED BY <1>1, <1>2, PTL DEF ToolSpec

\* InstalledIsVerified (DownloadVerified, writeExecutable): a binary in place is one release's
\* from its first block to its last, for any number of callers, releases, kills and failures.
THEOREM InstalledIsVerifiedHolds == tool \notin Overlapping /\ ToolSpec => []InstalledIsVerified
<1>1. ToolInv => InstalledIsVerified
  BY DEF ToolInv
<1> QED BY <1>1, ToolInvHolds, PTL

-----------------------------------------------------------------------------
(* A social download's lines *)

Own == {Line, Done}

SocRow == [st : {"absent", "queued", "active", "paused", "failed", "completed"}, file : BOOLEAN]

SocTypes ==
  /\ soc \in SocRow
  /\ said \in Seq(Own) /\ seen \in Seq(Own)
  /\ wire \in Seq({"job", "error"} \cup Own) /\ chan \in Seq({Other} \cup Own)

\* 1 while the daemon's answer to the request is still in front of the lines.
Ahead == IF wire # <<>> /\ wire[1] \in {"job", "error"} THEN 1 ELSE 0

\* The job's messages that have left the channel.
Delivered == Len(seen) + Len(wire) - Ahead

\* What the client has read, and then what is on the connection, is how the job began.
InOrder ==
  /\ \A j \in 2..Len(wire) : wire[j] \in Own
  /\ Delivered <= Len(said)
  /\ \A i \in 1..Len(seen) : seen[i] = said[i]
  /\ \A j \in 1..Len(wire) : j > Ahead => wire[j] = said[Len(seen) + j - Ahead]

\* Where each message of the channel is in what was said: p[i] counts the job's own up to
\* the i-th, other jobs' messages adding nothing.
Follows(p, ch, all, from) ==
  /\ p \in [0..Len(ch) -> Nat]
  /\ p[0] = from /\ p[Len(ch)] = Len(all)
  /\ \A i \in 1..Len(ch) :
       IF ch[i] = Other THEN p[i] = p[i - 1]
       ELSE p[i] = p[i - 1] + 1 /\ p[i] \in 1..Len(all) /\ all[p[i]] = ch[i]

\* The strengthening: nothing is said before the subscription, nothing is read after done,
\* and what the channel has goes on where the connection ends.
StreamInv ==
  /\ SocTypes
  /\ handler = "none" => chan = <<>>
  /\ handler \in {"none", "subscribed"} =>
       soc.st = "absent" /\ said = <<>> /\ wire = <<>> /\ seen = <<>>
  /\ soc.st = "absent" => ytdlp.pc = "off"
  /\ \A i \in 1..Len(seen) : seen[i] = Done => i = Len(seen) /\ viewer = "gone"
  /\ ~dropped => InOrder
  /\ ~dropped /\ Subscribed => \E p : Follows(p, chan, said, Delivered)

-----------------------------------------------------------------------------

LEMMA MessagesApart == Line # Done /\ Line # Other /\ Done # Other
                       /\ Own \cap {"job", "error"} = {} /\ Other \notin Own
BY DEF Line, Done, Other, Own

LEMMA StreamInitHolds == ASSUME SocInit PROVE StreamInv
<1>1. SocTypes
  BY DEF SocInit, SocTypes, SocRow
<1>2. ~Subscribed
  BY DEF SocInit, Subscribed
<1>3. Len(seen) = 0 /\ Len(wire) = 0 /\ Len(said) = 0 /\ Ahead = 0
  BY DEF SocInit, Ahead
<1>4. InOrder
  BY <1>3 DEF InOrder, Delivered
<1> QED BY <1>1, <1>2, <1>3, <1>4 DEF StreamInv, SocInit, NoWorker

\* The first run ends with the first done.
LEMMA StreamInvMeans == ASSUME StreamInv PROVE StreamIsWhole
<1> SUFFICES ASSUME ~dropped, seen # <<>>, seen[Len(seen)] = Done PROVE seen = FirstRun(said)
  BY DEF StreamIsWhole
<1> DEFINE n == Len(seen)
           First(i) == said[i] = Done /\ \A k \in 1..(i - 1) : said[k] # Done
<1>1. /\ seen \in Seq(Own) /\ said \in Seq(Own) /\ n \in Nat \ {0}
      /\ Len(said) \in Nat /\ wire \in Seq({"job", "error"} \cup Own) /\ Len(wire) \in Nat
  BY DEF StreamInv, SocTypes
<1>2. n <= Len(said) /\ \A i \in 1..n : seen[i] = said[i]
  <2>1. InOrder
    BY DEF StreamInv
  <2>2. Ahead <= Len(wire) /\ Ahead \in {0, 1}
    BY <1>1 DEF Ahead
  <2> QED BY <1>1, <2>1, <2>2 DEF InOrder, Delivered
<1>3. \A i \in 1..(n - 1) : seen[i] # Done
  BY <1>1 DEF StreamInv
<1>4. n \in 1..Len(said) /\ First(n)
  BY <1>1, <1>2, <1>3
<1>5. \A i \in 1..Len(said) : First(i) => i = n
  <2> SUFFICES ASSUME NEW i \in 1..Len(said), First(i) PROVE i = n
    OBVIOUS
  <2>1. ~(i < n)
    BY <1>1, <1>2, <1>3
  <2>2. ~(n < i)
    BY <1>1, <1>4
  <2> QED BY <1>1, <2>1, <2>2
<1>6. (CHOOSE i \in 1..Len(said) : First(i)) = n
  <2> HIDE DEF First, n
  <2> QED BY <1>4, <1>5
<1>7. FirstRun(said) = SubSeq(said, 1, n)
  BY <1>4, <1>6 DEF FirstRun
<1>8. SubSeq(said, 1, n) = seen
  BY <1>1, <1>2
<1> QED BY <1>7, <1>8

\* A step that leaves the connection and what was said as they are.
LEMMA StreamStays ==
  ASSUME StreamInv, soc' \in SocRow,
         soc'.st = "absent" <=> soc.st = "absent", soc.st = "absent" => ytdlp' = ytdlp,
         handler' = handler, viewer' \in {viewer, "gone"},
         UNCHANGED <<chan, dropped, said, wire, seen>>
  PROVE  StreamInv'
<1>1. SocTypes'
  BY DEF StreamInv, SocTypes
<1>2. Subscribed' = Subscribed /\ Delivered' = Delivered /\ Ahead' = Ahead /\ InOrder' = InOrder
  BY DEF Subscribed, Delivered, Ahead, InOrder
<1>3. \A p : Follows(p, chan', said', Delivered') <=> Follows(p, chan, said, Delivered)
  BY <1>2
<1> QED BY <1>1, <1>2, <1>3 DEF StreamInv

\* publishLog of a message of the job's own.
LEMMA SaysKeeps ==
  ASSUME StreamInv, NEW msg \in Own, Says(msg), soc.st # "absent",
         soc' \in SocRow,
         soc'.st # "absent", handler' = handler, UNCHANGED <<wire, viewer, seen>>
  PROVE  StreamInv'
<1>1. /\ said \in Seq(Own) /\ said' = Append(said, msg) /\ said' \in Seq(Own)
      /\ Len(said) \in Nat /\ Len(said') = Len(said) + 1 /\ said'[Len(said) + 1] = msg
      /\ \A i \in 1..Len(said) : said'[i] = said[i]
      /\ seen \in Seq(Own) /\ wire \in Seq({"job", "error"} \cup Own) /\ chan \in Seq({Other} \cup Own)
      /\ Len(seen) \in Nat /\ Len(wire) \in Nat /\ Len(chan) \in Nat
  BY DEF StreamInv, SocTypes, Says
<1>2. \/ chan' = chan /\ dropped' = dropped /\ ~Subscribed
      \/ chan' = Append(chan, msg) /\ dropped' = dropped /\ Subscribed
      \/ chan' = chan /\ dropped' = TRUE
  BY DEF Says, Publish
<1>3. SocTypes'
  <2>1. Append(chan, msg) \in Seq({Other} \cup Own)
    BY <1>1
  <2>2. chan' \in Seq({Other} \cup Own)
    BY <1>1, <1>2, <2>1
  <2> QED BY <1>1, <2>2 DEF SocTypes
<1>4. Subscribed' = Subscribed /\ Delivered' = Delivered /\ Ahead' = Ahead /\ Ahead \in {0, 1}
      /\ Ahead <= Len(wire) /\ handler \notin {"none", "subscribed"}
  BY <1>1 DEF Subscribed, Delivered, Ahead, StreamInv
<1>5. ~dropped' => ~dropped
  BY <1>2
<1>6. ~dropped' => InOrder'
  <2> SUFFICES ASSUME ~dropped' PROVE InOrder'
    OBVIOUS
  <2>1. InOrder
    BY <1>5 DEF StreamInv
  <2>2. \A j \in 1..Len(wire) : j > Ahead => wire[j] = said'[Len(seen) + j - Ahead]
    <3> TAKE j \in 1..Len(wire)
    <3> HAVE j > Ahead
    <3>1. Len(seen) + j - Ahead \in 1..Len(said)
      BY <1>1, <1>4, <2>1 DEF InOrder, Delivered
    <3> QED BY <1>1, <2>1, <3>1 DEF InOrder
  <2>3. \A i \in 1..Len(seen) : i \in 1..Len(said)
    BY <1>1, <1>4, <2>1 DEF InOrder, Delivered
  <2>4. Delivered <= Len(said')
    BY <1>1, <1>4, <2>1 DEF InOrder, Delivered
  <2> QED BY <1>1, <1>4, <2>1, <2>2, <2>3, <2>4 DEF InOrder
<1>7. ~dropped' /\ Subscribed' => \E p : Follows(p, chan', said', Delivered')
  <2> SUFFICES ASSUME ~dropped', Subscribed' PROVE \E p : Follows(p, chan', said', Delivered')
    OBVIOUS
  <2>1. chan' = Append(chan, msg) /\ ~dropped
    BY <1>2, <1>4, <1>5
  <2>2. PICK p : Follows(p, chan, said, Delivered)
    BY <1>4, <2>1 DEF StreamInv
  <2> DEFINE n == Len(chan)  q == [i \in 0..(n + 1) |-> IF i = n + 1 THEN Len(said) + 1 ELSE p[i]]
  <2>3. /\ Len(chan') = n + 1 /\ chan'[n + 1] = msg /\ \A i \in 1..n : chan'[i] = chan[i]
    BY <1>1, <2>1
  <2>4. /\ p \in [0..n -> Nat] /\ p[0] = Delivered /\ p[n] = Len(said)
        /\ \A i \in 1..n : IF chan[i] = Other THEN p[i] = p[i - 1]
                           ELSE p[i] = p[i - 1] + 1 /\ p[i] \in 1..Len(said) /\ said[p[i]] = chan[i]
    BY <2>2 DEF Follows
  <2>5. q \in [0..(n + 1) -> Nat] /\ q[0] = Delivered /\ q[n + 1] = Len(said) + 1 /\ q[n] = Len(said)
        /\ \A i \in 0..n : q[i] = p[i]
    BY <1>1, <2>4
  <2>6. msg # Other
    BY MessagesApart
  <2> HIDE DEF q
  <2>7. ASSUME NEW i \in 1..(n + 1)
        PROVE  IF chan'[i] = Other THEN q[i] = q[i - 1]
               ELSE q[i] = q[i - 1] + 1 /\ q[i] \in 1..Len(said') /\ said'[q[i]] = chan'[i]
    <3>1. CASE i = n + 1
      <4>1. i - 1 = n
        BY <1>1, <3>1
      <4> QED BY <1>1, <2>3, <2>5, <2>6, <3>1, <4>1
    <3>2. CASE i # n + 1
      <4>1. i \in 1..n /\ i - 1 \in 0..n /\ i \in 0..n
        BY <1>1, <3>2
      <4>2. q[i] = p[i] /\ q[i - 1] = p[i - 1] /\ chan'[i] = chan[i]
        BY <2>3, <2>5, <4>1
      <4>3. CASE chan[i] = Other
        BY <2>4, <4>1, <4>2, <4>3
      <4>4. CASE chan[i] # Other
        <5>1. p[i] = p[i - 1] + 1 /\ p[i] \in 1..Len(said) /\ said[p[i]] = chan[i]
          BY <2>4, <4>1, <4>4
        <5> QED BY <1>1, <4>2, <4>4, <5>1
      <4> QED BY <4>3, <4>4
    <3> QED BY <3>1, <3>2
  <2>8. Follows(q, chan', said', Delivered')
    <3>1. q[Len(chan')] = Len(said') /\ q[0] = Delivered' /\ q \in [0..Len(chan') -> Nat]
      BY <1>1, <1>4, <2>3, <2>5
    <3>2. \A i \in 1..Len(chan') :
            IF chan'[i] = Other THEN q[i] = q[i - 1]
            ELSE q[i] = q[i - 1] + 1 /\ q[i] \in 1..Len(said') /\ said'[q[i]] = chan'[i]
      BY <2>3, <2>7
    <3> QED BY <3>1, <3>2 DEF Follows
  <2> QED BY <2>8
<1> QED BY <1>1, <1>3, <1>4, <1>6, <1>7 DEF StreamInv

\* A message of another job.
LEMMA OtherKeeps == ASSUME StreamInv, OtherJobSays PROVE StreamInv'
<1>1. /\ said \in Seq(Own) /\ said' = said /\ seen' = seen /\ wire' = wire /\ handler' = handler
      /\ soc' = soc /\ ytdlp' = ytdlp /\ viewer' = viewer
      /\ chan \in Seq({Other} \cup Own) /\ Len(chan) \in Nat /\ Subscribed
  BY DEF StreamInv, SocTypes, OtherJobSays
<1>2. \/ chan' = Append(chan, Other) /\ dropped' = dropped
      \/ chan' = chan /\ dropped' = TRUE
  BY <1>1 DEF OtherJobSays, Publish
<1>3. SocTypes'
  <2>1. Append(chan, Other) \in Seq({Other} \cup Own)
    BY <1>1
  <2> QED BY <1>1, <1>2, <2>1 DEF StreamInv, SocTypes
<1>4. Subscribed' = Subscribed /\ Delivered' = Delivered /\ Ahead' = Ahead /\ InOrder' = InOrder
      /\ handler # "none"
  BY <1>1 DEF Subscribed, Delivered, Ahead, InOrder
<1>5. ~dropped' => \E p : Follows(p, chan', said', Delivered')
  <2> SUFFICES ASSUME ~dropped' PROVE \E p : Follows(p, chan', said', Delivered')
    OBVIOUS
  <2>1. chan' = Append(chan, Other) /\ ~dropped
    BY <1>2
  <2>2. PICK p : Follows(p, chan, said, Delivered)
    BY <1>1, <2>1 DEF StreamInv
  <2> DEFINE n == Len(chan)  q == [i \in 0..(n + 1) |-> IF i = n + 1 THEN p[n] ELSE p[i]]
  <2>3. /\ Len(chan') = n + 1 /\ chan'[n + 1] = Other /\ \A i \in 1..n : chan'[i] = chan[i]
    BY <1>1, <2>1
  <2>4. /\ p \in [0..n -> Nat] /\ p[0] = Delivered /\ p[n] = Len(said)
        /\ \A i \in 1..n : IF chan[i] = Other THEN p[i] = p[i - 1]
                           ELSE p[i] = p[i - 1] + 1 /\ p[i] \in 1..Len(said) /\ said[p[i]] = chan[i]
    BY <2>2 DEF Follows
  <2>5. q \in [0..(n + 1) -> Nat] /\ q[0] = Delivered /\ q[n + 1] = Len(said) /\ q[n] = Len(said)
        /\ \A i \in 0..n : q[i] = p[i]
    BY <1>1, <2>4
  <2> HIDE DEF q
  <2>6. ASSUME NEW i \in 1..(n + 1)
        PROVE  IF chan'[i] = Other THEN q[i] = q[i - 1]
               ELSE q[i] = q[i - 1] + 1 /\ q[i] \in 1..Len(said) /\ said[q[i]] = chan'[i]
    <3>1. CASE i = n + 1
      <4>1. i - 1 = n
        BY <1>1, <3>1
      <4> QED BY <2>3, <2>5, <3>1, <4>1
    <3>2. CASE i # n + 1
      <4>1. i \in 1..n /\ i - 1 \in 0..n /\ i \in 0..n
        BY <1>1, <3>2
      <4>2. q[i] = p[i] /\ q[i - 1] = p[i - 1] /\ chan'[i] = chan[i]
        BY <2>3, <2>5, <4>1
      <4> QED BY <2>4, <4>1, <4>2
    <3> QED BY <3>1, <3>2
  <2>7. Follows(q, chan', said', Delivered')
    <3>1. q[Len(chan')] = Len(said') /\ q[0] = Delivered' /\ q \in [0..Len(chan') -> Nat]
      BY <1>1, <1>4, <2>3, <2>5
    <3>2. \A i \in 1..Len(chan') :
            IF chan'[i] = Other THEN q[i] = q[i - 1]
            ELSE q[i] = q[i - 1] + 1 /\ q[i] \in 1..Len(said') /\ said'[q[i]] = chan'[i]
      BY <1>1, <2>3, <2>6
    <3> QED BY <3>1, <3>2 DEF Follows
  <2> QED BY <2>7
<1>6. ~dropped' => ~dropped
  BY <1>2
<1> QED BY <1>1, <1>3, <1>4, <1>5, <1>6 DEF StreamInv

\* The request: the subscription, and then the job or a refusal.
LEMMA AddKeeps == ASSUME StreamInv, AddSocial \/ Add PROVE StreamInv'
<1>1. /\ handler \in {"none", "subscribed"} /\ soc.st = "absent" /\ soc \in SocRow
      /\ said = <<>> /\ wire = <<>> /\ seen = <<>>
      /\ said' = <<>> /\ seen' = <<>> /\ chan' = chan /\ dropped' = dropped
      /\ (handler = "none" => chan = <<>>) /\ chan \in Seq({Other} \cup Own) /\ Len(chan) \in Nat
  BY DEF AddSocial, Add, StreamInv, SocTypes
<1>2. wire' \in {<<>>, <<"job">>, <<"error">>} /\ Len(wire') <= 1 /\ Delivered = 0 /\ Delivered' = 0
      /\ (handler' # "off" => wire' # <<"error">>) /\ Len(wire') \in Nat /\ Ahead' = Len(wire')
      /\ (handler' \in {"none", "subscribed"} => wire' = <<>> /\ soc' = soc)
  <2>1. CASE AddSocial
    <3>1. wire' = <<>> /\ soc' = soc
      BY <1>1, <2>1 DEF AddSocial
    <3> QED BY <1>1, <3>1 DEF Delivered, Ahead
  <2>2. CASE Add
    <3>1. (wire' = <<"job">> /\ handler' = "pump") \/ (wire' = <<"error">> /\ handler' = "off")
      BY <2>2 DEF Add
    <3>2. Len(<<"job">>) = 1 /\ <<"job">>[1] = "job" /\ <<"job">> # <<>>
          /\ Len(<<"error">>) = 1 /\ <<"error">>[1] = "error" /\ <<"error">> # <<>>
      OBVIOUS
    <3>3. Len(wire') = 1 /\ wire' # <<>> /\ wire'[1] \in {"job", "error"}
      BY <3>1, <3>2
    <3>4. Ahead' = 1 /\ Ahead = 0
      BY <1>1, <3>3 DEF Ahead
    <3>5. Delivered' = 0 /\ Delivered = 0
      BY <1>1, <3>3, <3>4 DEF Delivered
    <3>6. wire' = <<"error">> => handler' = "off"
      BY <3>1, <3>2
    <3> QED BY <3>1, <3>3, <3>4, <3>5, <3>6
  <2> QED BY <2>1, <2>2
<1>3. SocTypes'
  <2>1. soc' \in SocRow
    BY <1>1 DEF AddSocial, Add, SocRow
  <2>2. wire' \in Seq({"job", "error"} \cup Own)
    <3>1. <<>> \in Seq({"job", "error"} \cup Own) /\ <<"job">> \in Seq({"job", "error"} \cup Own)
      OBVIOUS
    <3>2. <<"error">> \in Seq({"job", "error"} \cup Own)
      OBVIOUS
    <3> QED BY <1>2, <3>1, <3>2
  <2> QED BY <1>1, <2>1, <2>2 DEF SocTypes
<1>4. soc'.st = "absent" => ytdlp'.pc = "off"
  <2>1. ytdlp.pc = "off"
    BY <1>1 DEF StreamInv
  <2> QED BY <1>1, <2>1 DEF AddSocial, Add, SocRow
<1>5. handler' # "none"
  BY DEF AddSocial, Add
<1>6. InOrder'
  BY <1>1, <1>2 DEF InOrder
<1>7. ~dropped' /\ Subscribed' => \E p : Follows(p, chan', said', Delivered')
  <2> SUFFICES ASSUME ~dropped' PROVE \E p : Follows(p, chan', said', Delivered')
    OBVIOUS
  <2>1. CASE handler = "none"
    <3> DEFINE q == [i \in 0..0 |-> 0]
    <3>1. Len(chan') = 0 /\ Len(said') = 0
      BY <1>1, <2>1
    <3>2. q \in [0..0 -> Nat] /\ q[0] = 0
      OBVIOUS
    <3> HIDE DEF q
    <3>3. Follows(q, chan', said', Delivered')
      BY <1>2, <3>1, <3>2 DEF Follows
    <3> QED BY <3>3
  <2>2. CASE handler = "subscribed"
    <3>1. PICK p : Follows(p, chan, said, Delivered)
      BY <1>1, <2>2 DEF StreamInv, Subscribed
    <3>2. Follows(p, chan', said', Delivered')
      BY <1>1, <1>2, <3>1 DEF Follows
    <3> QED BY <3>2
  <2> QED BY <1>1, <2>1, <2>2
<1>8. Len(seen') = 0
  BY <1>1
<1>9. handler' \in {"none", "subscribed"} => soc'.st = "absent" /\ wire' = <<>>
  BY <1>1, <1>2
<1> QED BY <1>1, <1>3, <1>4, <1>5, <1>6, <1>7, <1>8, <1>9 DEF StreamInv

\* pumpLogs: the first message of the channel leaves it, for the connection if it is the job's.
LEMMA PumpKeeps == ASSUME StreamInv, Pump PROVE StreamInv'
<1> DEFINE msg == Head(chan)
<1>1. /\ handler = "pump" /\ chan # <<>> /\ chan' = Tail(chan)
      /\ dropped' = dropped /\ soc' = soc /\ ytdlp' = ytdlp /\ said' = said /\ viewer' = viewer /\ seen' = seen
      /\ \/ msg = Other /\ handler' = handler /\ wire' = wire
         \/ msg # Other /\ handler' = "off" /\ wire' = wire
         \/ msg # Other /\ wire' = Append(wire, msg) /\ handler' \in {"pump", "off"}
  BY DEF Pump
<1>2. /\ said \in Seq(Own) /\ seen \in Seq(Own) /\ wire \in Seq({"job", "error"} \cup Own)
      /\ chan \in Seq({Other} \cup Own)
      /\ Len(said) \in Nat /\ Len(seen) \in Nat /\ Len(wire) \in Nat /\ Len(chan) \in Nat \ {0}
  BY <1>1 DEF StreamInv, SocTypes
<1>3. /\ msg = chan[1] /\ msg \in {Other} \cup Own /\ chan' \in Seq({Other} \cup Own)
      /\ Len(chan') = Len(chan) - 1 /\ \A i \in 1..Len(chan') : chan'[i] = chan[i + 1]
  BY <1>1, <1>2
<1> HIDE DEF msg
<1>4. SocTypes'
  <2>1. msg # Other => Append(wire, msg) \in Seq({"job", "error"} \cup Own)
    BY <1>2, <1>3
  <2> QED BY <1>1, <1>2, <1>3, <2>1 DEF StreamInv, SocTypes
<1>5. Ahead \in {0, 1} /\ Ahead <= Len(wire)
  BY <1>2 DEF Ahead
<1>6. CASE wire' = wire
  <2>1. Delivered' = Delivered /\ Ahead' = Ahead /\ InOrder' = InOrder
    BY <1>1, <1>6 DEF Delivered, Ahead, InOrder
  <2>2. ~dropped /\ Subscribed' => \E p : Follows(p, chan', said', Delivered')
    <3> SUFFICES ASSUME ~dropped, Subscribed' PROVE \E p : Follows(p, chan', said', Delivered')
      OBVIOUS
    <3>1. chan[1] = Other
      <4>1. wire # Append(wire, msg)
        BY <1>2, <1>3
      <4> QED BY <1>1, <1>3, <1>6, <4>1 DEF Subscribed
    <3>2. PICK p : Follows(p, chan, said, Delivered)
      BY <1>1 DEF StreamInv, Subscribed
    <3> DEFINE q == [i \in 0..Len(chan') |-> p[i + 1]]
    <3>3. /\ p \in [0..Len(chan) -> Nat] /\ p[0] = Delivered /\ p[Len(chan)] = Len(said)
          /\ \A i \in 1..Len(chan) : IF chan[i] = Other THEN p[i] = p[i - 1]
                             ELSE p[i] = p[i - 1] + 1 /\ p[i] \in 1..Len(said) /\ said[p[i]] = chan[i]
      BY <3>2 DEF Follows
    <3>4. p[1] = Delivered
      <4>1. 1 \in 1..Len(chan) /\ 1 - 1 = 0
        BY <1>2
      <4>2. p[1] = p[1 - 1]
        BY <3>1, <3>3, <4>1
      <4> QED BY <3>3, <4>1, <4>2
    <3>5. /\ q \in [0..Len(chan') -> Nat] /\ q[0] = Delivered /\ q[Len(chan')] = Len(said)
          /\ \A i \in 0..Len(chan') : q[i] = p[i + 1]
      BY <1>2, <1>3, <3>3, <3>4
    <3> HIDE DEF q
    <3>6. ASSUME NEW i \in 1..Len(chan')
          PROVE  IF chan'[i] = Other THEN q[i] = q[i - 1]
                 ELSE q[i] = q[i - 1] + 1 /\ q[i] \in 1..Len(said) /\ said[q[i]] = chan'[i]
      <4>1. i + 1 \in 1..Len(chan) /\ i \in 0..Len(chan') /\ i - 1 \in 0..Len(chan') /\ (i + 1) - 1 = i
            /\ (i - 1) + 1 = i
        BY <1>2, <1>3
      <4>2. chan'[i] = chan[i + 1] /\ q[i] = p[i + 1] /\ q[i - 1] = p[i]
        BY <1>3, <3>5, <4>1
      <4>3. IF chan[i + 1] = Other THEN p[i + 1] = p[i]
            ELSE p[i + 1] = p[i] + 1 /\ p[i + 1] \in 1..Len(said) /\ said[p[i + 1]] = chan[i + 1]
        BY <3>3, <4>1
      <4> QED BY <4>2, <4>3
    <3>7. Follows(q, chan', said', Delivered')
      BY <1>1, <2>1, <3>5, <3>6 DEF Follows
    <3> QED BY <3>7
  <2> QED BY <1>1, <1>4, <1>6, <2>1, <2>2 DEF StreamInv
<1>7. CASE msg # Other /\ wire' = Append(wire, msg) /\ handler' \in {"pump", "off"}
  <2>1. /\ Len(wire') = Len(wire) + 1 /\ wire'[Len(wire) + 1] = msg /\ wire' # <<>>
        /\ \A j \in 1..Len(wire) : wire'[j] = wire[j]
    BY <1>2, <1>7
  <2>2. msg \in Own /\ msg \notin {"job", "error"}
    BY <1>3, <1>7, MessagesApart
  <2>3. Ahead' = Ahead
    <3>1. CASE wire = <<>>
      <4>1. Len(wire) = 0 /\ wire'[1] = msg
        BY <2>1, <3>1
      <4> QED BY <2>1, <2>2, <3>1, <4>1 DEF Ahead
    <3>2. CASE wire # <<>>
      <4>1. wire'[1] = wire[1]
        BY <1>2, <2>1, <3>2
      <4> QED BY <2>1, <3>2, <4>1 DEF Ahead
    <3> QED BY <3>1, <3>2
  <2>4. Delivered' = Delivered + 1
    BY <1>1, <1>2, <1>5, <2>1, <2>3 DEF Delivered
  <2>5. ASSUME ~dropped PROVE InOrder' /\ \E p : Follows(p, chan', said', Delivered')
    <3>1. PICK p : Follows(p, chan, said, Delivered)
      BY <1>1, <2>5 DEF StreamInv, Subscribed
    <3>2. /\ p \in [0..Len(chan) -> Nat] /\ p[0] = Delivered /\ p[Len(chan)] = Len(said)
          /\ \A i \in 1..Len(chan) : IF chan[i] = Other THEN p[i] = p[i - 1]
                             ELSE p[i] = p[i - 1] + 1 /\ p[i] \in 1..Len(said) /\ said[p[i]] = chan[i]
      BY <3>1 DEF Follows
    <3>3. p[1] = Delivered + 1 /\ p[1] \in 1..Len(said) /\ said[p[1]] = msg
      <4>1. 1 \in 1..Len(chan) /\ 1 - 1 = 0
        BY <1>2
      <4>2. p[1] = p[1 - 1] + 1 /\ p[1] \in 1..Len(said) /\ said[p[1]] = chan[1]
        BY <1>3, <1>7, <3>2, <4>1
      <4> QED BY <1>3, <3>2, <4>1, <4>2
    <3>4. InOrder
      BY <2>5 DEF StreamInv
    <3>5. InOrder'
      <4>1. \A j \in 2..Len(wire') : wire'[j] \in Own
        <5> TAKE j \in 2..Len(wire')
        <5>1. CASE j = Len(wire) + 1
          BY <2>1, <2>2, <5>1
        <5>2. CASE j # Len(wire) + 1
          <6>1. j \in 2..Len(wire) /\ j \in 1..Len(wire)
            BY <1>2, <2>1, <5>2
          <6> QED BY <2>1, <3>4, <6>1 DEF InOrder
        <5> QED BY <5>1, <5>2
      <4>2. Delivered' <= Len(said')
        BY <1>1, <1>2, <2>4, <3>3
      <4>3. \A i \in 1..Len(seen') : seen'[i] = said'[i]
        BY <1>1, <3>4 DEF InOrder
      <4>4. \A j \in 1..Len(wire') : j > Ahead' => wire'[j] = said'[Len(seen') + j - Ahead']
        <5> TAKE j \in 1..Len(wire')
        <5> HAVE j > Ahead'
        <5>1. CASE j = Len(wire) + 1
          <6>1. Len(seen') + j - Ahead' = Delivered + 1
            BY <1>1, <1>2, <1>5, <2>3, <5>1 DEF Delivered
          <6> QED BY <1>1, <2>1, <3>3, <5>1, <6>1
        <5>2. CASE j # Len(wire) + 1
          <6>1. j \in 1..Len(wire)
            BY <1>2, <2>1, <5>2
          <6> QED BY <1>1, <2>1, <2>3, <3>4, <6>1 DEF InOrder
        <5> QED BY <5>1, <5>2
      <4> QED BY <4>1, <4>2, <4>3, <4>4 DEF InOrder
    <3> DEFINE q == [i \in 0..Len(chan') |-> p[i + 1]]
    <3>6. /\ q \in [0..Len(chan') -> Nat] /\ q[0] = Delivered + 1 /\ q[Len(chan')] = Len(said)
          /\ \A i \in 0..Len(chan') : q[i] = p[i + 1]
      BY <1>2, <1>3, <3>2, <3>3
    <3> HIDE DEF q
    <3>7. ASSUME NEW i \in 1..Len(chan')
          PROVE  IF chan'[i] = Other THEN q[i] = q[i - 1]
                 ELSE q[i] = q[i - 1] + 1 /\ q[i] \in 1..Len(said) /\ said[q[i]] = chan'[i]
      <4>1. i + 1 \in 1..Len(chan) /\ i \in 0..Len(chan') /\ i - 1 \in 0..Len(chan') /\ (i + 1) - 1 = i
            /\ (i - 1) + 1 = i
        BY <1>2, <1>3
      <4>2. chan'[i] = chan[i + 1] /\ q[i] = p[i + 1] /\ q[i - 1] = p[i]
        BY <1>3, <3>6, <4>1
      <4>3. IF chan[i + 1] = Other THEN p[i + 1] = p[i]
            ELSE p[i + 1] = p[i] + 1 /\ p[i + 1] \in 1..Len(said) /\ said[p[i + 1]] = chan[i + 1]
        BY <3>2, <4>1
      <4> QED BY <4>2, <4>3
    <3>8. Follows(q, chan', said', Delivered')
      BY <1>1, <2>4, <3>6, <3>7 DEF Follows
    <3> QED BY <3>5, <3>8
  <2> QED BY <1>1, <1>4, <1>7, <2>5 DEF StreamInv
<1> QED BY <1>1, <1>6, <1>7

\* StreamSocial: the client reads what is first on the connection.
LEMMA ReceiveKeeps == ASSUME StreamInv, Receive PROVE StreamInv'
<1> DEFINE msg == Head(wire)
<1>1. /\ viewer \in {"waiting", "streaming"} /\ wire # <<>> /\ wire' = Tail(wire)
      /\ seen' = (IF msg \in Own THEN Append(seen, msg) ELSE seen)
      /\ viewer' = (IF msg \in {"error", Done} THEN "gone" ELSE "streaming")
      /\ handler' = handler /\ chan' = chan /\ dropped' = dropped /\ soc' = soc /\ ytdlp' = ytdlp /\ said' = said
  BY DEF Receive, Own
<1>2. /\ said \in Seq(Own) /\ seen \in Seq(Own) /\ wire \in Seq({"job", "error"} \cup Own)
      /\ Len(said) \in Nat /\ Len(seen) \in Nat /\ Len(wire) \in Nat \ {0}
  BY <1>1 DEF StreamInv, SocTypes
<1>3. /\ msg = wire[1] /\ msg \in {"job", "error"} \cup Own /\ wire' \in Seq({"job", "error"} \cup Own)
      /\ Len(wire') = Len(wire) - 1 /\ \A i \in 1..Len(wire') : wire'[i] = wire[i + 1]
  BY <1>1, <1>2
<1> HIDE DEF msg
<1>4. handler \notin {"none", "subscribed"}
  BY <1>1 DEF StreamInv
<1>5. \A i \in 1..Len(seen) : seen[i] # Done
  BY <1>1 DEF StreamInv
<1>6. Done \notin {"job"} /\ Done \in Own /\ Own \cap {"job", "error"} = {}
  BY MessagesApart DEF Own, Done
<1>7. Ahead = IF msg \in Own THEN 0 ELSE 1
  BY <1>1, <1>3, <1>6 DEF Ahead
<1>8. CASE msg \in Own
  <2>1. /\ seen' = Append(seen, msg) /\ seen' \in Seq(Own) /\ Len(seen') = Len(seen) + 1
        /\ seen'[Len(seen) + 1] = msg /\ \A i \in 1..Len(seen) : seen'[i] = seen[i]
    BY <1>1, <1>2, <1>8
  <2>2. SocTypes'
    BY <1>1, <1>2, <1>3, <2>1 DEF StreamInv, SocTypes
  <2>3. \A i \in 1..Len(seen') : seen'[i] = Done => i = Len(seen') /\ viewer' = "gone"
    <3> TAKE i \in 1..Len(seen')
    <3>1. CASE i = Len(seen) + 1
      BY <1>1, <2>1, <3>1
    <3>2. CASE i # Len(seen) + 1
      <4>1. i \in 1..Len(seen)
        BY <1>2, <2>1, <3>2
      <4> QED BY <1>5, <2>1, <4>1
    <3> QED BY <3>1, <3>2
  <2>4. ASSUME ~dropped PROVE InOrder' /\ Delivered' = Delivered
    <3>1. InOrder
      BY <2>4 DEF StreamInv
    <3>2. Ahead = 0
      BY <1>7, <1>8
    <3>3. Ahead' = 0
      <4>1. CASE wire' = <<>>
        BY <4>1 DEF Ahead
      <4>2. CASE wire' # <<>>
        <5>1. 1 \in 1..Len(wire') /\ 2 \in 2..Len(wire) /\ wire'[1] = wire[2]
          BY <1>2, <1>3, <4>2
        <5>2. wire'[1] \in Own
          BY <3>1, <5>1 DEF InOrder
        <5> QED BY <1>6, <5>2 DEF Ahead
      <4> QED BY <4>1, <4>2
    <3>4. Delivered' = Delivered
      BY <1>2, <1>3, <2>1, <3>2, <3>3 DEF Delivered
    <3>5. msg = said[Len(seen) + 1]
      <4>1. 1 \in 1..Len(wire) /\ 1 > Ahead /\ Len(seen) + 1 - Ahead = Len(seen) + 1
        BY <1>2, <3>2
      <4> QED BY <1>3, <3>1, <4>1 DEF InOrder
    <3>6. \A i \in 1..Len(seen') : seen'[i] = said[i]
      <4> TAKE i \in 1..Len(seen')
      <4>1. CASE i = Len(seen) + 1
        BY <2>1, <3>5, <4>1
      <4>2. CASE i # Len(seen) + 1
        <5>1. i \in 1..Len(seen)
          BY <1>2, <2>1, <4>2
        <5> QED BY <2>1, <3>1, <5>1 DEF InOrder
      <4> QED BY <4>1, <4>2
    <3>7. \A j \in 1..Len(wire') : wire'[j] = said[Len(seen') + j - Ahead']
      <4> TAKE j \in 1..Len(wire')
      <4>1. j + 1 \in 1..Len(wire) /\ j + 1 > Ahead /\ Len(seen) + (j + 1) - Ahead = Len(seen') + j - Ahead'
        BY <1>2, <1>3, <2>1, <3>2, <3>3
      <4> QED BY <1>3, <3>1, <4>1 DEF InOrder
    <3>8. \A j \in 2..Len(wire') : wire'[j] \in Own
      <4> TAKE j \in 2..Len(wire')
      <4>1. j + 1 \in 2..Len(wire) /\ j \in 1..Len(wire')
        BY <1>2, <1>3
      <4> QED BY <1>3, <3>1, <4>1 DEF InOrder
    <3> QED BY <1>1, <3>1, <3>4, <3>6, <3>7, <3>8 DEF InOrder
  <2>5. ~dropped' /\ Subscribed' => \E p : Follows(p, chan', said', Delivered')
    BY <1>1, <2>4 DEF StreamInv, Subscribed
  <2> QED BY <1>1, <1>4, <2>2, <2>3, <2>4, <2>5 DEF StreamInv
<1>9. CASE msg \notin Own
  <2>1. seen' = seen
    BY <1>1, <1>9
  <2>2. SocTypes'
    BY <1>1, <1>2, <1>3, <2>1 DEF StreamInv, SocTypes
  <2>4. ASSUME ~dropped PROVE InOrder' /\ Delivered' = Delivered
    <3>1. InOrder
      BY <2>4 DEF StreamInv
    <3>2. Ahead = 1
      BY <1>7, <1>9
    <3>3. Ahead' = 0
      <4>1. CASE wire' = <<>>
        BY <4>1 DEF Ahead
      <4>2. CASE wire' # <<>>
        <5>1. 1 \in 1..Len(wire') /\ 2 \in 2..Len(wire) /\ wire'[1] = wire[2]
          BY <1>2, <1>3, <4>2
        <5>2. wire'[1] \in Own
          BY <3>1, <5>1 DEF InOrder
        <5> QED BY <1>6, <5>2 DEF Ahead
      <4> QED BY <4>1, <4>2
    <3>4. Delivered' = Delivered
      BY <1>2, <1>3, <2>1, <3>2, <3>3 DEF Delivered
    <3>7. \A j \in 1..Len(wire') : wire'[j] = said[Len(seen') + j - Ahead']
      <4> TAKE j \in 1..Len(wire')
      <4>1. j + 1 \in 1..Len(wire) /\ j + 1 > Ahead /\ Len(seen) + (j + 1) - Ahead = Len(seen') + j - Ahead'
        BY <1>2, <1>3, <2>1, <3>2, <3>3
      <4> QED BY <1>3, <3>1, <4>1 DEF InOrder
    <3>8. \A j \in 2..Len(wire') : wire'[j] \in Own
      <4> TAKE j \in 2..Len(wire')
      <4>1. j + 1 \in 2..Len(wire) /\ j \in 1..Len(wire')
        BY <1>2, <1>3
      <4> QED BY <1>3, <3>1, <4>1 DEF InOrder
    <3> QED BY <1>1, <2>1, <3>1, <3>4, <3>7, <3>8 DEF InOrder
  <2>5. ~dropped' /\ Subscribed' => \E p : Follows(p, chan', said', Delivered')
    BY <1>1, <2>4 DEF StreamInv, Subscribed
  <2> QED BY <1>1, <1>4, <1>5, <2>1, <2>2, <2>4, <2>5 DEF StreamInv
<1> QED BY <1>8, <1>9

\* The worker, and the requests of other clients.
LEMMA WorkerKeeps ==
  ASSUME StreamInv, Worker \/ PauseSocial \/ ResumeSocial \/ StartQueued \/ Interrupt PROVE StreamInv'
<1>1. soc \in SocRow /\ (soc.st = "absent" => ytdlp.pc = "off")
  BY DEF StreamInv, SocTypes
<1>2. ASSUME NEW outcome \in {"paused", "failed", "completed"}, EndRun(outcome), soc.st # "absent",
             handler' = handler, UNCHANGED <<wire, viewer, seen>>
      PROVE  StreamInv'
  <2>1. soc' \in SocRow /\ soc'.st # "absent"
    BY <1>1, <1>2 DEF EndRun, SocRow
  <2> QED BY <1>2, <2>1, SaysKeeps DEF EndRun, Own
<1>3. CASE EnsureYtDlp
  <2>1. soc.st # "absent" /\ handler' = handler /\ UNCHANGED <<wire, viewer, seen>>
    BY <1>1, <1>3 DEF EnsureYtDlp
  <2>2. CASE EndRun(IF ytdlp.cancelled THEN "paused" ELSE "failed")
    BY <1>2, <2>1, <2>2
  <2>3. CASE UNCHANGED <<chan, dropped, said, soc>>
    BY <1>1, <2>1, <2>3, StreamStays
  <2> QED BY <1>3, <2>2, <2>3 DEF EnsureYtDlp
<1>4. CASE PrintLine
  <2>1. soc.st # "absent" /\ handler' = handler /\ UNCHANGED <<wire, viewer, seen>>
    BY <1>1, <1>4 DEF PrintLine
  <2>2. CASE Says(Line) /\ soc' = soc
    BY <1>1, <2>1, <2>2, SaysKeeps DEF Own
  <2>3. CASE soc' = [soc EXCEPT !.file = TRUE] /\ UNCHANGED <<chan, dropped, said>>
    <3>1. soc' \in SocRow /\ soc'.st = soc.st
      BY <1>1, <2>3 DEF SocRow
    <3> QED BY <2>1, <2>3, <3>1, StreamStays
  <2> QED BY <1>4, <2>2, <2>3 DEF PrintLine
<1>5. CASE ProcessExits
  <2>1. soc.st # "absent" /\ handler' = handler /\ UNCHANGED <<wire, viewer, seen>>
    BY <1>1, <1>5 DEF ProcessExits
  <2>2. CASE EndRun("paused") \/ EndRun("failed")
    BY <1>2, <2>1, <2>2
  <2>3. CASE UNCHANGED <<chan, dropped, said, soc>>
    BY <1>1, <2>1, <2>3, StreamStays
  <2> QED BY <1>5, <2>2, <2>3 DEF ProcessExits
<1>6. CASE CheckOutput
  <2>1. soc.st # "absent" /\ handler' = handler /\ UNCHANGED <<wire, viewer, seen>>
    BY <1>1, <1>6 DEF CheckOutput
  <2> QED BY <1>2, <1>6, <2>1 DEF CheckOutput
<1>7. CASE PauseSocial \/ ResumeSocial \/ StartQueued \/ Interrupt
  <2>1. /\ handler' = handler /\ viewer' \in {viewer, "gone"}
        /\ UNCHANGED <<chan, dropped, said, wire, seen>>
    BY <1>7 DEF PauseSocial, ResumeSocial, StartQueued, Interrupt
  <2>2. soc' = soc \/ (soc.st # "absent" /\ (soc' = [soc EXCEPT !.st = "paused"] \/ soc' = [soc EXCEPT !.st = "active"]))
    BY <1>7 DEF PauseSocial, ResumeSocial, StartQueued, Interrupt
  <2>3. soc' \in SocRow /\ (soc'.st = "absent" <=> soc.st = "absent")
    BY <1>1, <2>2 DEF SocRow
  <2>4. soc.st = "absent" => ytdlp' = ytdlp
    BY <1>7 DEF PauseSocial, ResumeSocial, StartQueued, Interrupt
  <2> QED BY <2>1, <2>3, <2>4, StreamStays
<1> QED BY <1>3, <1>4, <1>5, <1>6, <1>7 DEF Worker

\* StreamInv holds from the first step on, whatever is paused, resumed or interrupted.
THEOREM StreamInvHolds == SocSpec => []StreamInv
<1>1. SocInit => StreamInv
  BY StreamInitHolds
<1>2. StreamInv /\ [SocNext]_socVars => StreamInv'
  <2> SUFFICES ASSUME StreamInv, [SocNext]_socVars PROVE StreamInv'
    OBVIOUS
  <2>1. CASE UNCHANGED socVars
    <3>1. UNCHANGED <<handler, chan, dropped, soc, ytdlp, said, wire, viewer, seen>>
      BY <2>1 DEF socVars
    <3> QED BY <3>1, StreamStays DEF StreamInv, SocTypes
  <2>2. CASE AddSocial \/ Add
    BY <2>2, AddKeeps
  <2>3. CASE Pump
    BY <2>3, PumpKeeps
  <2>4. CASE Receive
    BY <2>4, ReceiveKeeps
  <2>5. CASE OtherJobSays
    BY <2>5, OtherKeeps
  <2>6. CASE Worker \/ PauseSocial \/ ResumeSocial \/ StartQueued \/ Interrupt
    BY <2>6, WorkerKeeps
  <2> QED BY <2>1, <2>2, <2>3, <2>4, <2>5, <2>6 DEF SocNext, Connection
<1> QED BY <1>1, <1>2, PTL DEF SocSpec

\* StreamIsWhole (start_social.go, publishLog, pumpLogs): a client that has been told the run
\* is over has seen every line of it in order, for any channel and any number of lines, unless
\* the channel was full at some point.
THEOREM StreamIsWholeHolds == SocSpec => []StreamIsWhole
<1>1. StreamInv => StreamIsWhole
  BY StreamInvMeans
<1> QED BY <1>1, StreamInvHolds, PTL

-----------------------------------------------------------------------------
(* The job list on its way to a dashboard and to the page *)

\* What a dashboard will show when it has read what was sent.
WillShow == IF pipe.sent = <<>> THEN shown ELSE pipe.sent[Len(pipe.sent)]

BoardTypes ==
  /\ list \in Nat /\ shown \in Nat /\ pipe \in [sent : Seq(Nat), broken : BOOLEAN]
  /\ stream \in [on : BOOLEAN, last : Nat]

\* A dashboard never waits on a connection that nobody serves: it is streamed to, or the
\* connection is broken. What was sent last is what it will show.
BoardIsFed ==
  /\ stream.on <=> board = "read" /\ ~pipe.broken
  /\ stream.on => serving
  /\ stream.on /\ stream.last # Nothing => WillShow = stream.last

BoardInv == BoardTypes /\ BoardIsFed

\* What is last in a sequence stays so when its head is taken.
LEMMA LastStays ==
  ASSUME NEW q \in Seq(Nat), q # <<>>
  PROVE  /\ Tail(q) \in Seq(Nat) /\ Head(q) \in Nat
         /\ Tail(q) = <<>> => Head(q) = q[Len(q)]
         /\ Tail(q) # <<>> => Tail(q)[Len(Tail(q))] = q[Len(q)]
<1>1. Len(q) \in Nat /\ Len(q) > 0 /\ Tail(q) \in Seq(Nat) /\ Head(q) = q[1] /\ q[1] \in Nat
      /\ Len(Tail(q)) = Len(q) - 1
  OBVIOUS
<1>2. CASE Tail(q) = <<>>
  <2>1. Len(Tail(q)) = 0
    <3>1. Len(<<>>) = 0
      OBVIOUS
    <3> QED BY <1>2, <3>1, Zenon
  <2>2. Len(q) = 1
    <3>1. Len(q) - 1 = 0
      BY <1>1, <2>1, Zenon
    <3>2. \A n \in Nat : n - 1 = 0 => n = 1
      OBVIOUS
    <3> QED BY <1>1, <3>1, <3>2, Zenon
  <2>3. q[Len(q)] = q[1]
    BY <2>2, Zenon
  <2> QED BY <1>1, <1>2, <2>3, Zenon
<1>3. CASE Tail(q) # <<>>
  <2>1. Len(q) - 1 \in 1..Len(Tail(q))
    BY <1>1, <1>3
  <2>2. Tail(q)[Len(q) - 1] = q[Len(q)]
    BY <1>1, <2>1
  <2> QED BY <1>1, <1>3, <2>2
<1> QED BY <1>1, <1>2, <1>3

LEMMA LastAdded ==
  ASSUME NEW q \in Seq(Nat), NEW v \in Nat
  PROVE  /\ Append(q, v) \in Seq(Nat) /\ Append(q, v) # <<>>
         /\ Append(q, v)[Len(Append(q, v))] = v
<1>1. Len(Append(q, v)) = Len(q) + 1 /\ Len(q) \in Nat /\ Append(q, v)[Len(q) + 1] = v
  OBVIOUS
<1>2. Append(q, v) # <<>>
  BY <1>1
<1> QED BY <1>1, <1>2

LEMMA BoardInvInit == MaxChanges \in Nat /\ BoardInit => BoardInv
<1> SUFFICES ASSUME MaxChanges \in Nat, BoardInit PROVE BoardInv
  OBVIOUS
<1>1. /\ stream = [on |-> FALSE, last |-> Nothing] /\ pipe = [sent |-> <<>>, broken |-> FALSE]
      /\ Nothing \in Nat /\ list = 1 /\ shown = Nothing /\ board = "closed"
  BY DEF BoardInit, NoStream, Nothing
<1>2. <<>> \in Seq(Nat)
  OBVIOUS
<1> QED BY <1>1, <1>2 DEF BoardInv, BoardTypes, BoardIsFed

LEMMA BoardInvStep ==
  ASSUME MaxChanges \in Nat, BoardInv, [BoardNext]_boardVars
  PROVE  BoardInv'
<1>0. /\ list \in Nat /\ shown \in Nat /\ pipe.sent \in Seq(Nat) /\ pipe.broken \in BOOLEAN
      /\ stream.on \in BOOLEAN /\ stream.last \in Nat /\ Nothing \in Nat
      /\ pipe = [sent |-> pipe.sent, broken |-> pipe.broken]
  BY DEF BoardInv, BoardTypes, Nothing
<1>1. CASE ListChanges \/ DaemonBoots \/ UNCHANGED boardVars
  <2>1. list' \in Nat /\ UNCHANGED <<stream, pipe, board, shown>> /\ (serving => serving')
    BY <1>0, <1>1 DEF ListChanges, DaemonBoots, boardVars
  <2> QED BY <2>1 DEF BoardInv, BoardTypes, BoardIsFed, WillShow, Nothing
<1>2. CASE OpenBoard \/ DialFails \/ BackoffOver \/ ReadEnds
  <2>1. /\ UNCHANGED <<list, serving, stream, pipe, shown>> /\ board' # "read"
        /\ board = "read" => pipe.broken
    BY <1>2 DEF OpenBoard, DialFails, BackoffOver, ReadEnds
  <2> QED BY <2>1 DEF BoardInv, BoardTypes, BoardIsFed, WillShow, Nothing
<1>3. CASE Dial
  <2>1. <<>> \in Seq(Nat)
    OBVIOUS
  <2> QED BY <1>0, <1>3, <2>1 DEF Dial, BoardInv, BoardTypes, BoardIsFed, WillShow, Nothing
<1>4. CASE SendSnapshot
  <2>1. PICK v \in Snapshots : /\ v # stream.last
                               /\ stream' = [stream EXCEPT !.last = v]
                               /\ pipe' = [pipe EXCEPT !.sent = Append(@, v)]
    BY <1>4 DEF SendSnapshot
  <2>2. v \in Nat
    BY <1>0 DEF Snapshots, Unread
  <2>3. /\ pipe' = [sent |-> Append(pipe.sent, v), broken |-> pipe.broken]
        /\ stream' = [on |-> stream.on, last |-> v]
    BY <2>1, <1>0 DEF BoardInv, BoardTypes
  <2>4. Append(pipe.sent, v) \in Seq(Nat) /\ Append(pipe.sent, v) # <<>>
        /\ Append(pipe.sent, v)[Len(Append(pipe.sent, v))] = v
    BY <1>0, <2>2, LastAdded
  <2>5. BoardTypes' /\ WillShow' = v
    BY <1>0, <1>4, <2>2, <2>3, <2>4 DEF BoardTypes, WillShow, SendSnapshot
  <2>6. UNCHANGED <<serving, board>> /\ stream'.on = stream.on /\ stream'.last = v
        /\ pipe'.broken = pipe.broken
    BY <1>4, <2>3 DEF SendSnapshot
  <2> QED BY <2>5, <2>6 DEF BoardInv, BoardIsFed
<1>5. CASE ShowSnapshot
  <2>1. /\ pipe.sent # <<>> /\ shown' = Head(pipe.sent)
        /\ pipe' = [sent |-> Tail(pipe.sent), broken |-> pipe.broken]
        /\ UNCHANGED <<list, serving, stream, board>>
    BY <1>0, <1>5 DEF ShowSnapshot
  <2>2. Tail(pipe.sent) \in Seq(Nat) /\ Head(pipe.sent) \in Nat
    BY <1>0, <2>1, LastStays
  <2>3. WillShow' = WillShow
    <3>1. /\ Tail(pipe.sent) = <<>> => Head(pipe.sent) = pipe.sent[Len(pipe.sent)]
          /\ Tail(pipe.sent) # <<>> => Tail(pipe.sent)[Len(Tail(pipe.sent))] = pipe.sent[Len(pipe.sent)]
      BY <1>0, <2>1, LastStays
    <3>2. pipe'.sent = Tail(pipe.sent)
      BY <2>1
    <3> QED BY <2>1, <3>1, <3>2, Zenon DEF WillShow
  <2> QED BY <1>0, <2>1, <2>2, <2>3 DEF BoardInv, BoardTypes, BoardIsFed, Nothing
<1>6. CASE DaemonDies
  <2>1. /\ stream' = [on |-> FALSE, last |-> Nothing] /\ UNCHANGED <<list, shown>>
        /\ pipe' \in {[sent |-> pipe.sent, broken |-> TRUE], [sent |-> <<>>, broken |-> TRUE]}
    BY <1>0, <1>6 DEF DaemonDies, NoStream
  <2>2. <<>> \in Seq(Nat)
    OBVIOUS
  <2>3. pipe' \in [sent : Seq(Nat), broken : BOOLEAN] /\ pipe'.broken = TRUE
    <3>1. CASE pipe' = [sent |-> pipe.sent, broken |-> TRUE]
      BY <1>0, <3>1
    <3>2. CASE pipe' = [sent |-> <<>>, broken |-> TRUE]
      BY <2>2, <3>2
    <3> QED BY <2>1, <3>1, <3>2
  <2>4. stream'.on = FALSE /\ stream' \in [on : BOOLEAN, last : Nat]
    BY <1>0, <2>1
  <2> QED BY <1>0, <2>1, <2>3, <2>4 DEF BoardInv, BoardTypes, BoardIsFed
<1> QED BY <1>1, <1>2, <1>3, <1>4, <1>5, <1>6 DEF BoardNext

\* What BoardCatchesUp rests on (SubscribeRetrying, streamSnapshots): a dashboard that reads
\* is streamed to or has a broken connection, which makes it dial again, and what it has
\* shown once it has read everything is what was sent last on that connection.
THEOREM BoardIsFedHolds == MaxChanges \in Nat /\ BoardSpec => []BoardIsFed
<1>1. MaxChanges \in Nat /\ BoardInit => MaxChanges \in Nat /\ BoardInv
  BY BoardInvInit
<1>2. (MaxChanges \in Nat /\ BoardInv) /\ [BoardNext]_boardVars => (MaxChanges \in Nat /\ BoardInv)'
  BY BoardInvStep
<1>3. BoardInv => BoardIsFed
  BY DEF BoardInv
<1> QED BY <1>1, <1>2, <1>3, PTL DEF BoardSpec

-----------------------------------------------------------------------------
(* The job list on its way to the tabs *)

\* Every open tab has been given the payload sent last, and either shows it or has it
\* waiting; while a tab is open one goroutine goes on, and none of earlier tabs does.
TabsAreFed ==
  /\ \A t \in open : slot[t] = <<last>> \/ (slot[t] = <<>> /\ tabShown[t] = last)
  /\ \A r, s \in runs : ~r.stopped /\ ~s.stopped => r = s
  /\ open # {} <=> \E r \in runs : ~r.stopped

TabInv ==
  /\ slot = [t \in Tabs |-> slot[t]] /\ tabShown = [t \in Tabs |-> tabShown[t]]
  /\ open \subseteq Tabs
  /\ \A r \in runs : r.stopped \in BOOLEAN /\ "stopped" \in DOMAIN r
  /\ TabsAreFed

\* One goroutine goes one step further.
LEMMA RunGoesOn ==
  ASSUME TabInv, NEW r \in runs, NEW q, q.stopped = r.stopped,
         "stopped" \in DOMAIN q,
         runs' = (runs \ {r}) \cup {q}, open' = open
  PROVE  /\ \A s \in runs' : s.stopped \in BOOLEAN /\ "stopped" \in DOMAIN s
         /\ \A s, u \in runs' : ~s.stopped /\ ~u.stopped => s = u
         /\ open' # {} <=> \E s \in runs' : ~s.stopped
<1>1. \A s, u \in runs : ~s.stopped /\ ~u.stopped => s = u
  BY DEF TabInv, TabsAreFed
<1>2. open # {} <=> \E s \in runs : ~s.stopped
  BY DEF TabInv, TabsAreFed
<1>3. \A s \in runs : s.stopped \in BOOLEAN /\ "stopped" \in DOMAIN s
  BY DEF TabInv
<1>4. \A s, u \in runs' : ~s.stopped /\ ~u.stopped => s = u
  BY <1>1
<1>5. (\E s \in runs : ~s.stopped) <=> \E s \in runs' : ~s.stopped
  OBVIOUS
<1>6. \A s \in runs' : s.stopped \in BOOLEAN /\ "stopped" \in DOMAIN s
  BY <1>3
<1> QED BY <1>2, <1>4, <1>5, <1>6

LEMMA TabInvStep ==
  ASSUME TabInv, [TabNext]_tabVars
  PROVE  TabInv'
<1>0. /\ slot = [t \in Tabs |-> slot[t]] /\ tabShown = [t \in Tabs |-> tabShown[t]] /\ open \subseteq Tabs
      /\ \A r \in runs : r.stopped \in BOOLEAN /\ "stopped" \in DOMAIN r
      /\ \A t \in open : slot[t] = <<last>> \/ (slot[t] = <<>> /\ tabShown[t] = last)
      /\ \A r, s \in runs : ~r.stopped /\ ~s.stopped => r = s
      /\ open # {} <=> \E r \in runs : ~r.stopped
  BY DEF TabInv, TabsAreFed
<1>1. CASE JobsChange \/ UNCHANGED tabVars
  <2>1. UNCHANGED <<open, slot, tabShown, last, runs>>
    BY <1>1 DEF JobsChange, tabVars
  <2> QED BY <2>1 DEF TabInv, TabsAreFed
<1>2. ASSUME NEW t \in Tabs, OpenTab(t) PROVE TabInv'
  <2>1. /\ t \notin open /\ open' = open \cup {t} /\ slot' = [slot EXCEPT ![t] = <<last'>>]
        /\ tabShown' = tabShown
    BY <1>2 DEF OpenTab
  <2>2. /\ slot' = [u \in Tabs |-> slot'[u]] /\ slot'[t] = <<last'>>
        /\ \A u \in Tabs : u # t => slot'[u] = slot[u]
    BY <1>0, <2>1
  <2>3. CASE open = {}
    <3>1. PICK q : runs' = runs \cup {q} /\ q.stopped = FALSE /\ "stopped" \in DOMAIN q
      <4> DEFINE q == [id |-> Fresh, at |-> "tick", stopped |-> FALSE, payload |-> NoPayload]
      <4>1. runs' = runs \cup {q}
        BY <1>2, <2>3 DEF OpenTab
      <4>2. q.stopped = FALSE /\ "stopped" \in DOMAIN q
        OBVIOUS
      <4> HIDE DEF q
      <4> QED BY <4>1, <4>2
    <3>2. \A r \in runs : r.stopped
      BY <1>0, <2>3
    <3>3. /\ \A r, s \in runs' : ~r.stopped /\ ~s.stopped => r = s
          /\ \E r \in runs' : ~r.stopped
          /\ \A r \in runs' : r.stopped \in BOOLEAN /\ "stopped" \in DOMAIN r
      BY <1>0, <3>1, <3>2
    <3>4. open' = {t}
      BY <2>1, <2>3
    <3> QED BY <1>0, <2>1, <2>2, <3>3, <3>4 DEF TabInv, TabsAreFed
  <2>4. CASE open # {}
    <3>1. UNCHANGED <<last, runs>>
      BY <1>2, <2>4 DEF OpenTab
    <3>2. \A u \in open' : slot'[u] = <<last'>> \/ (slot'[u] = <<>> /\ tabShown'[u] = last')
      BY <1>0, <2>1, <2>2, <3>1
    <3>3. /\ open' \subseteq Tabs /\ tabShown' = [u \in Tabs |-> tabShown'[u]]
          /\ open' # {} <=> \E r \in runs' : ~r.stopped
      BY <1>0, <2>1, <2>4, <3>1
    <3> QED BY <1>0, <2>2, <3>1, <3>2, <3>3 DEF TabInv, TabsAreFed
  <2> QED BY <2>3, <2>4
<1>3. ASSUME NEW t \in Tabs, CloseTab(t) PROVE TabInv'
  <2>1. /\ t \in open /\ open' = open \ {t} /\ slot' = [slot EXCEPT ![t] = <<>>]
        /\ UNCHANGED <<tabShown, last>>
        /\ runs' = IF open = {t} THEN {[r EXCEPT !.stopped = TRUE] : r \in runs} ELSE runs
    BY <1>3 DEF CloseTab
  <2>2. slot' = [u \in Tabs |-> slot'[u]] /\ \A u \in Tabs : u # t => slot'[u] = slot[u]
    BY <1>0, <2>1
  <2>3. /\ \A u \in open' : slot'[u] = <<last'>> \/ (slot'[u] = <<>> /\ tabShown'[u] = last')
        /\ open' \subseteq Tabs /\ tabShown' = [u \in Tabs |-> tabShown'[u]]
    BY <1>0, <2>1, <2>2
  <2>4. CASE open = {t}
    <3>1. \A r \in runs' : r.stopped = TRUE /\ "stopped" \in DOMAIN r
      <4>1. \A r \in runs : /\ [r EXCEPT !.stopped = TRUE].stopped = TRUE
                            /\ "stopped" \in DOMAIN [r EXCEPT !.stopped = TRUE]
        BY <1>0
      <4> QED BY <2>1, <2>4, <4>1
    <3>2. open' = {}
      BY <2>1, <2>4
    <3>3. \A r \in runs' : r.stopped \in BOOLEAN
      BY <3>1
    <3> QED BY <2>2, <2>3, <3>1, <3>2, <3>3 DEF TabInv, TabsAreFed
  <2>5. CASE open # {t}
    <3>1. open' # {} /\ open # {} /\ runs' = runs
      BY <2>1, <2>5
    <3> QED BY <1>0, <2>2, <2>3, <3>1 DEF TabInv, TabsAreFed
  <2> QED BY <2>4, <2>5
<1>4. ASSUME NEW t \in Tabs, ShowPayload(t) PROVE TabInv'
  <2>1. /\ t \in open /\ slot[t] # <<>> /\ UNCHANGED <<open, last, runs>>
        /\ tabShown' = [tabShown EXCEPT ![t] = slot[t][1]] /\ slot' = [slot EXCEPT ![t] = <<>>]
    BY <1>4 DEF ShowPayload
  <2>2. slot[t] = <<last>> /\ slot[t][1] = last
    <3>1. slot[t] = <<last>>
      BY <1>0, <2>1
    <3>2. <<last>>[1] = last
      OBVIOUS
    <3> QED BY <3>1, <3>2, Zenon
  <2>3. /\ slot' = [u \in Tabs |-> slot'[u]] /\ slot'[t] = <<>>
        /\ \A u \in Tabs : u # t => slot'[u] = slot[u]
    BY <1>0, <2>1
  <2>4. /\ tabShown' = [u \in Tabs |-> tabShown'[u]] /\ tabShown'[t] = last
        /\ \A u \in Tabs : u # t => tabShown'[u] = tabShown[u]
    BY <1>0, <2>1, <2>2
  <2>5. \A u \in open' : slot'[u] = <<last'>> \/ (slot'[u] = <<>> /\ tabShown'[u] = last')
    BY <1>0, <2>1, <2>3, <2>4
  <2> QED BY <1>0, <2>1, <2>3, <2>4, <2>5 DEF TabInv, TabsAreFed
<1>5. ASSUME NEW r \in runs, RunStops(r) PROVE TabInv'
  <2>1. r.stopped /\ runs' = runs \ {r} /\ UNCHANGED <<open, slot, tabShown, last>>
    BY <1>5 DEF RunStops
  <2>2. (\E s \in runs : ~s.stopped) <=> \E s \in runs' : ~s.stopped
    BY <2>1
  <2> QED BY <1>0, <2>1, <2>2 DEF TabInv, TabsAreFed
<1>6. ASSUME NEW r \in runs, RunProduces(r) PROVE TabInv'
  <2>1. PICK v : runs' = (runs \ {r}) \cup {[r EXCEPT !.at = "lock", !.payload = v]}
    BY <1>6 DEF RunProduces
  <2> DEFINE q == [r EXCEPT !.at = "lock", !.payload = v]
  <2>2. q.stopped = r.stopped /\ "stopped" \in DOMAIN q
    BY <1>0
  <2>3. runs' = (runs \ {r}) \cup {q} /\ UNCHANGED <<open, slot, tabShown, last>>
    BY <1>6, <2>1 DEF RunProduces
  <2> HIDE DEF q
  <2> QED BY <1>0, <2>2, <2>3, RunGoesOn DEF TabInv, TabsAreFed
<1>7. ASSUME NEW r \in runs, RunSends(r) PROVE TabInv'
  <2> DEFINE q == [r EXCEPT !.at = "tick", !.payload = NoPayload]
  <2>1. /\ runs' = (runs \ {r}) \cup {q} /\ UNCHANGED <<open, tabShown>> /\ last' = r.payload
        /\ slot' = [t \in Tabs |-> IF t \in open /\ r.payload # last THEN <<r.payload>> ELSE slot[t]]
    BY <1>7 DEF RunSends
  <2>2. q.stopped = r.stopped /\ "stopped" \in DOMAIN q
    BY <1>0
  <2>3. \A t \in open' : slot'[t] = <<last'>> \/ (slot'[t] = <<>> /\ tabShown'[t] = last')
    BY <1>0, <2>1
  <2>4. slot' = [t \in Tabs |-> slot'[t]]
    BY <2>1
  <2> HIDE DEF q
  <2> QED BY <1>0, <2>1, <2>2, <2>3, <2>4, RunGoesOn DEF TabInv, TabsAreFed
<1> QED BY <1>1, <1>2, <1>3, <1>4, <1>5, <1>6, <1>7 DEF TabNext

\* What TabsCatchUp rests on (events.go, Subscribe and run): an open tab shows the list that
\* was sent last or has it waiting in its channel, whichever goroutine sent it, and while a
\* tab is open exactly one goroutine goes on producing, however tabs come and go.
THEOREM TabsAreFedHolds == TabSpec => []TabsAreFed
<1>1. TabInit => TabInv
  BY DEF TabInit, TabInv, TabsAreFed
<1>2. TabInv /\ [TabNext]_tabVars => TabInv'
  BY TabInvStep
<1>3. TabInv => TabsAreFed
  BY DEF TabInv
<1> QED BY <1>1, <1>2, <1>3, PTL DEF TabSpec

=============================================================================
