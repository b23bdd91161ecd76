------------------------------- MODULE MCFront -------------------------------
(***************************************************************************)
(* What people work with: the settings of the page and of the terminal     *)
(* interface, the page's player and the relay it reads through, links      *)
(* added by the batch, and the terminal interface's browser, details,      *)
(* wizard and job table.  None touches the state of another, so a          *)
(* behaviour is one of theirs, the others' variables staying as they are.  *)
(***************************************************************************)
EXTENDS DaemonSettings, PlayerSessions, RelayStream, LinkBatch,
        WebDAVBrowser, JobDetails, NewJobWizard, Dashboard

VARIABLE part

allVars ==
  <<setVars, playVars, relayVars, batchVars, browseVars, detailVars, wizardVars, dashVars, part>>

\* Any of the player's viewers can stand for another.
Viewers == Permutations(Req)

\* The torrent lists its three files in another order than their names'.
TorrentFiles == <<3, 1, 2>>

\* A folder with a file and a folder beside it; Kids with and without the slash a server's
\* folder may end in.
Tree == [d \in {"/", "/a/", "/a", "/a/b/"} |->
          CASE d = "/" -> {"/a/", "/f"}
            [] d \in {"/a/", "/a"} -> {"/a/b/", "/a/g"}
            [] OTHER -> {"/a/b/h"}]
TreeFolders == {"/a/", "/a/b/"}
TreeAbove == [d \in DOMAIN Tree |-> IF d = "/a/b/" THEN "/a" ELSE "/"]

\* One torrent of a single file, and one of two.
FilesIn == [t \in Torrent |-> IF t = "t1" THEN 1 ELSE 2]

\* Two links of one name, of which the second is served under that name with a number.
NamesOfURLs == [l \in Link |-> IF l = "u3" THEN <<1>> ELSE <<0>>]
NamesOfServers == [l \in Link |-> IF l = "u2" THEN <<0, 2>> ELSE <<0>>]

MCInit ==
  /\ part \in {"settings", "player", "relay", "batch", "browser", "details", "wizard", "table"}
  /\ SetInit /\ (part # "settings" => rows = DefaultSettings /\ taken = {})
  /\ RelayInit /\ (part # "relay" => site = "whole")
  /\ DetailsInit /\ (part # "details" => tor = [status |-> "active", wanted |-> File, disk |-> {}])
  /\ PlayInit /\ WizardInit /\ BatchInit /\ BrowseInit /\ DashInit

\* The other parts stay as they are.
Only(p) ==
  /\ IF p = "settings" THEN TRUE ELSE UNCHANGED setVars
  /\ IF p = "player" THEN TRUE ELSE UNCHANGED playVars
  /\ IF p = "relay" THEN TRUE ELSE UNCHANGED relayVars
  /\ IF p = "batch" THEN TRUE ELSE UNCHANGED batchVars
  /\ IF p = "browser" THEN TRUE ELSE UNCHANGED browseVars
  /\ IF p = "details" THEN TRUE ELSE UNCHANGED detailVars
  /\ IF p = "wizard" THEN TRUE ELSE UNCHANGED wizardVars
  /\ IF p = "table" THEN TRUE ELSE UNCHANGED dashVars
  /\ UNCHANGED part

MCNext ==
  \/ part = "settings" /\ SetNext /\ Only("settings")
  \/ part = "player" /\ PlayNext /\ Only("player")
  \/ part = "relay" /\ RelayNext /\ Only("relay")
  \/ part = "batch" /\ BatchNext /\ Only("batch")
  \/ part = "browser" /\ BrowseNext /\ Only("browser")
  \/ part = "details" /\ DetailsNext /\ Only("details")
  \/ part = "wizard" /\ WizardNext /\ Only("wizard")
  \/ part = "table" /\ DashNext /\ Only("table")

MCSpec == MCInit /\ [][MCNext]_allVars
=============================================================================
