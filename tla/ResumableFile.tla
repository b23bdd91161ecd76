----------------------------- MODULE ResumableFile -----------------------------
(***************************************************************************)
(* What a resumable download promises of its checkpoint: it claims only    *)
(* blocks that are in the file, it never takes a claim back piecemeal, and *)
(* blocks are only thrown away once nothing claims them.  Downloader       *)
(* implements this for a server that serves ranges.                        *)
(***************************************************************************)
CONSTANT Blocks

VARIABLES
  held,    \* the blocks the file has
  claimed  \* the blocks the checkpoint on disk says it has

fileVars == <<held, claimed>>

FileInit == held = {} /\ claimed = {}

Receive(b) ==
  /\ held' = held \cup {b}
  /\ UNCHANGED claimed

Save ==
  /\ claimed' \in SUBSET held
  /\ claimed \subseteq claimed'
  /\ UNCHANGED held

Forget ==
  /\ claimed' = {}
  /\ UNCHANGED held

StartOver ==
  /\ claimed' = {}
  /\ held' = {}

FileNext ==
  \/ \E b \in Blocks : Receive(b)
  \/ Save \/ Forget \/ StartOver

FileSpec == FileInit /\ [][FileNext]_fileVars
=============================================================================
