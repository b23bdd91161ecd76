------------------------- MODULE StoredConnections -------------------------
(***************************************************************************)
(* connections.json (internal/connections), written by whoever adds or     *)
(* removes a connection: the form and the picker of the terminal interface *)
(* (tui/connform.go, tui/browse.go), the page (daemon/webapi.go) and the   *)
(* command line (cmd/connection.go).  A writer reads it all, writes a copy *)
(* under one temporary name and renames it, and can be killed in between.  *)
(***************************************************************************)
EXTENDS Naturals, FiniteSets

CONSTANTS
  ConnName,      \* names of connections
  ConnWriter,    \* programs that write the file
  ConnOverlap,   \* bound: may two of them write at once
  MaxConnOps, MaxConnKills \* bounds: additions and removals, writers killed

ASSUME ConnNamed == ConnName # {} /\ "torn" \notin ConnName
ASSUME WritersFinite == IsFiniteSet(ConnWriter)

VARIABLES
  json, tmp,     \* the inode under each name; 0: none
  inode,         \* per inode: the connections in it, or what is torn
  writer,        \* per writer: where it is, what it writes, through which inode
  acked,         \* the connections as the writers have been told they are saved
  connOps, connKills

connVars == <<json, tmp, inode, writer, acked, connOps, connKills>>

Inodes == 1..(Cardinality(ConnWriter) + 2)

\* A file that does not parse: cut off, or empty.
Torn == {"torn"}

IdleWriter == [at |-> "idle", op |-> "add", name |-> CHOOSE n \in ConnName : TRUE, data |-> {}, fd |-> 0]

ConnTypeOK ==
  /\ json \in Inodes \cup {0} /\ tmp \in Inodes \cup {0}
  /\ \A i \in Inodes : inode[i] \subseteq ConnName \/ inode[i] = Torn
  /\ acked \subseteq ConnName
  /\ \A w \in ConnWriter : writer[w].at \in {"idle", "opened", "written"}

Saved == IF json = 0 THEN {} ELSE inode[json]

\* An inode nobody has: neither a name nor an open file.
Free == CHOOSE i \in Inodes : i \notin {json, tmp} \cup {writer[w].fd : w \in ConnWriter}

\* Mutant: the file is written in place.
InPlace == IF json = 0 THEN Free ELSE json

\* What os.WriteFile opens, and empties, under the temporary name.
Temporary == IF tmp = 0 THEN Free ELSE tmp

\* load, and what Add (over an existing one of the name, too) or Remove makes of it.
\* A file that does not parse, or a name that is not there, is an error.
BeginWrite(w) ==
  /\ writer[w].at = "idle" /\ connOps < MaxConnOps
  /\ ConnOverlap \/ \A v \in ConnWriter : writer[v].at = "idle"
  /\ Saved # Torn
  /\ \E n \in ConnName, op \in {"add", "remove"} :
       /\ op = "remove" => n \in Saved
       /\ writer' = [writer EXCEPT ![w] = [at |-> "opened", op |-> op, name |-> n,
                       data |-> IF op = "add" THEN Saved \cup {n} ELSE Saved \ {n},
                       fd |-> Temporary]]
  /\ tmp' = writer'[w].fd
  /\ inode' = [inode EXCEPT ![writer'[w].fd] = Torn]
  /\ connOps' = connOps + 1
  /\ UNCHANGED <<json, acked, connKills>>

\* The rest of os.WriteFile.
Write(w) ==
  /\ writer[w].at = "opened"
  /\ inode' = [inode EXCEPT ![writer[w].fd] = writer[w].data]
  /\ writer' = [writer EXCEPT ![w].at = "written"]
  /\ UNCHANGED <<json, tmp, acked, connOps, connKills>>

\* The rename, of whatever has the temporary name now; without one it is an error.
RenameOver(w) ==
  /\ writer[w].at = "written"
  /\ writer' = [writer EXCEPT ![w] = IdleWriter]
  /\ \/ /\ tmp # 0 /\ json' = tmp /\ tmp' = 0
        /\ acked' = IF writer[w].op = "add" THEN acked \cup {writer[w].name} ELSE acked \ {writer[w].name}
     \/ tmp = 0 /\ UNCHANGED <<json, tmp, acked>>
  /\ UNCHANGED <<inode, connOps, connKills>>

KillWriter(w) ==
  /\ writer[w].at # "idle" /\ connKills < MaxConnKills
  /\ connKills' = connKills + 1 /\ writer' = [writer EXCEPT ![w] = IdleWriter]
  /\ UNCHANGED <<json, tmp, inode, acked, connOps>>

ConnInit ==
  /\ json = 0 /\ tmp = 0 /\ inode = [i \in Inodes |-> {}]
  /\ writer = [w \in ConnWriter |-> IdleWriter] /\ acked = {} /\ connOps = 0 /\ connKills = 0

ConnNext == \E w \in ConnWriter : BeginWrite(w) \/ Write(w) \/ RenameOver(w) \/ KillWriter(w)

ConnSpec == ConnInit /\ [][ConnNext]_connVars

-----------------------------------------------------------------------------
(* Properties *)

\* The file always parses and has what was last saved, although a writer can be killed
\* anywhere (save: "a crash mid-write can't leave connections.json truncated/corrupt").
SavedIsThere == Saved = acked

=============================================================================
