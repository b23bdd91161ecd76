---------------------------- MODULE ManagedTools ----------------------------
(***************************************************************************)
(* The programs godl keeps for itself (internal/ytdlp, ffmpeg, jsruntime,  *)
(* selfupdate and the ghrelease they share): a release is looked up,       *)
(* fetched to a temporary name, verified and renamed into place, by        *)
(* callers in one or several processes that may be killed at any step,     *)
(* while new releases come out.                                            *)
(*                                                                         *)
(* A file is the release each of its blocks comes from.  A writer that     *)
(* has a file open goes on writing to it under whatever name it has by     *)
(* then, as with a file descriptor.                                        *)
(***************************************************************************)
EXTENDS Naturals, FiniteSets

CONSTANTS
  Callers,     \* calls of Ensure, Find and ForceUpdate
  Overlapping, \* the tools that two callers may be installing at once
  Blocks,      \* length of a binary
  MaxRelease, MaxKills, MaxFails

ToolAssumption ==
  /\ Overlapping \subseteq {"yt-dlp", "ffmpeg", "godl"}
  /\ Blocks \in Nat \ {0} /\ MaxRelease \in Nat \ {0}
  /\ MaxKills \in Nat /\ MaxFails \in Nat
ASSUME ToolAssumption

VARIABLES
  tool,     \* the tool a behaviour is about, "none" in one about no tool
  latest,   \* the newest release
  files,    \* name |-> contents, of the files there are
  stamp,    \* is <tool>.checked there and recent?
  recorded, \* ffmpeg.version: the release installed, 0 for none
  caller,   \* per caller: where it is
  kills, fails

toolVars == <<tool, latest, files, stamp, recorded, caller, kills, fails>>

Tool == {"yt-dlp", "ffmpeg", "deno", "godl", "rpm"}

Binary == IF tool = "ffmpeg" THEN {"ffmpeg", "ffprobe"} ELSE {tool}

Dest(b) == <<b, "installed">>
Part(b) == <<b, "part">>
Main == Dest(tool)

Whole(r) == [i \in 1..Blocks |-> r]
Hollow == Whole(0)

Present(n) == n \in DOMAIN files
Is(n, r) == Present(n) /\ files[n] = Whole(r)

\* why: install (nothing there yet), update (what is there will do if it fails)
\* or force (godl update).  left: the archive's members still to be unpacked.
\* at: the name of the file being written, Gone once it has none.
Gone == <<"none", "part">>

NoCall == [pc |-> "idle", why |-> "none", want |-> 0, got |-> 0, left |-> {}, at |-> Gone, pos |-> 0]

ToolTypeOK ==
  /\ tool \in Tool \cup {"none"} /\ latest \in 1..MaxRelease
  /\ DOMAIN files \subseteq {Dest(b) : b \in Binary} \cup {Part(b) : b \in Binary}
  /\ \A n \in DOMAIN files : files[n] \in [1..Blocks -> 0..MaxRelease]
  /\ stamp \in BOOLEAN /\ recorded \in 0..MaxRelease
  /\ \A c \in Callers : caller[c].pc \in {"idle", "digest", "fetch", "unpack", "write", "served"}

-----------------------------------------------------------------------------
(* Files *)

Without(n) == [m \in DOMAIN files \ {n} |-> files[m]]

Put(fs, n, v) == [m \in DOMAIN fs \cup {n} |-> IF m = n THEN v ELSE fs[m]]

\* Every other caller that holds n open goes on with the name it becomes.
Renamed(c, n, to) ==
  [d \in Callers |->
     IF d # c /\ caller[d].at = n THEN [caller[d] EXCEPT !.at = to]
     ELSE IF d # c /\ caller[d].at = to THEN [caller[d] EXCEPT !.at = Gone]
     ELSE caller[d]]

-----------------------------------------------------------------------------
(* A call ends *)

\* Ensure gives the caller the binary if there is one; godl update only reports.
Ended(why, ok) ==
  IF why = "update" \/ (why = "install" /\ ok) THEN [NoCall EXCEPT !.pc = "served"] ELSE NoCall

Fails(c) ==
  /\ fails < MaxFails /\ fails' = fails + 1
  /\ caller' = [caller EXCEPT ![c] = Ended(@.why, FALSE)]

-----------------------------------------------------------------------------
(* A call begins *)

Busy == {c \in Callers : caller[c].pc \notin {"idle", "served"}}

\* deno's callers hold mu from here to the end of the call.
MayEnter(c) == caller[c].pc = "idle" /\ (Busy = {} \/ tool \in Overlapping)

Begin(c, why) == caller' = [caller EXCEPT ![c] = [NoCall EXCEPT !.pc = "digest", !.why = why]]

\* maybeUpdate: the stamp is renewed before the check it stands for.
EnsureInstalled(c) ==
  \/ stamp /\ caller' = [caller EXCEPT ![c].pc = "served"] /\ UNCHANGED stamp
  \/ ~stamp /\ stamp' = TRUE /\ Begin(c, "update")

EnsureYtdlp(c) ==
  /\ tool = "yt-dlp" /\ MayEnter(c)
  /\ \/ Present(Main) /\ EnsureInstalled(c)
     \/ ~Present(Main) /\ Begin(c, "install") /\ UNCHANGED stamp
  /\ UNCHANGED <<tool, latest, files, recorded, kills, fails>>

EnsureFfmpeg(c) ==
  /\ tool = "ffmpeg" /\ MayEnter(c)
  /\ \/ Present(Main) /\ EnsureInstalled(c)
     \/ ~Present(Main) /\ Begin(c, "install") /\ UNCHANGED stamp
  /\ UNCHANGED <<tool, latest, files, recorded, kills, fails>>

FindDeno(c) ==
  /\ tool = "deno" /\ MayEnter(c)
  /\ \/ Present(Main) /\ caller' = [caller EXCEPT ![c].pc = "served"]
     \/ ~Present(Main) /\ Begin(c, "install")
  /\ UNCHANGED <<tool, latest, files, stamp, recorded, kills, fails>>

\* godl update of yt-dlp and ffmpeg.
ForceUpdateTool(c) ==
  /\ tool \in {"yt-dlp", "ffmpeg"} /\ MayEnter(c)
  /\ Present(Main)
  /\ stamp' = TRUE
  /\ Begin(c, "force")
  /\ UNCHANGED <<tool, latest, files, recorded, kills, fails>>

\* godl update of itself: the tag first, then the digest and the file of that tag.
ForceUpdateGodl(c) ==
  /\ tool \in {"godl", "rpm"} /\ MayEnter(c)
  /\ ~Is(Main, latest)
  /\ caller' = [caller EXCEPT ![c] = [NoCall EXCEPT !.pc = "digest", !.why = "force", !.want = latest]]
  /\ UNCHANGED <<tool, latest, files, stamp, recorded, kills, fails>>

-----------------------------------------------------------------------------
(* Looking up and fetching a release *)

\* Is the latest release the one installed?  yt-dlp is hashed; of ffmpeg's archive
\* only what was recorded is known.
Current(c) ==
  /\ caller[c].why # "install"
  /\ \/ tool = "yt-dlp" /\ Is(Main, latest)
     \/ tool = "ffmpeg" /\ recorded = latest

\* The digest of an asset that carries its version in its name is not found once
\* there is a newer release.
AssetDigest(c) ==
  /\ caller[c].pc = "digest"
  /\ tool \in {"godl", "rpm"} => caller[c].want = latest
  /\ caller' = [caller EXCEPT ![c] = IF Current(c) THEN Ended(@.why, TRUE)
                                     ELSE [@ EXCEPT !.pc = "fetch", !.want = latest]]
  /\ UNCHANGED <<tool, latest, files, stamp, recorded, kills, fails>>

OldAsset(c) ==
  /\ caller[c].pc = "digest"
  /\ tool \in {"godl", "rpm"} /\ caller[c].want # latest
  /\ caller' = [caller EXCEPT ![c] = Ended(@.why, FALSE)]
  /\ UNCHANGED <<tool, latest, files, stamp, recorded, kills, fails>>

\* What the server sends: the latest release by now, or the tag's.
Sent(c) == IF tool \in {"godl", "rpm"} THEN caller[c].want ELSE latest

Opened(c, n, got) ==
  /\ files' = Put(files, n, Hollow)
  /\ caller' = [caller EXCEPT ![c] = [@ EXCEPT !.pc = "write", !.got = got, !.at = n, !.pos = 0]]

\* Mutant: the download goes straight to the file in use.
OpenInPlace(c) ==
  /\ caller[c].pc = "fetch" /\ tool \in {"yt-dlp", "godl"}
  /\ Opened(c, Main, Sent(c))
  /\ UNCHANGED <<tool, latest, stamp, recorded, kills, fails>>

\* DownloadVerified: the temporary file has one name per tool, and is truncated.
Open(c) ==
  /\ caller[c].pc = "fetch" /\ tool \in {"yt-dlp", "godl"}
  /\ Opened(c, Part(tool), Sent(c))
  /\ UNCHANGED <<tool, latest, stamp, recorded, kills, fails>>

\* Mutant: the release is recorded as soon as its archive is there.
StageRecorded(c) ==
  /\ caller[c].pc = "fetch" /\ tool \in {"ffmpeg", "deno"}
  /\ caller' = [caller EXCEPT ![c] =
                  IF latest = @.want THEN [@ EXCEPT !.pc = "unpack", !.got = latest, !.left = Binary]
                  ELSE Ended(@.why, FALSE)]
  /\ recorded' = IF latest = caller[c].want THEN latest ELSE recorded
  /\ UNCHANGED <<tool, latest, files, stamp, kills, fails>>

\* An archive goes to a file of its own and is verified before it is unpacked.
Stage(c) ==
  /\ caller[c].pc = "fetch" /\ tool \in {"ffmpeg", "deno"}
  /\ caller' = [caller EXCEPT ![c] =
                  IF latest = @.want THEN [@ EXCEPT !.pc = "unpack", !.got = latest, !.left = Binary]
                  ELSE Ended(@.why, FALSE)]
  /\ UNCHANGED <<tool, latest, files, stamp, recorded, kills, fails>>

\* The package manager replaces godl by rename, like every tool here.
InstallRPM(c) ==
  /\ caller[c].pc = "fetch" /\ tool = "rpm"
  /\ files' = Put(files, Main, Whole(caller[c].want))
  /\ caller' = [caller EXCEPT ![c] = NoCall]
  /\ UNCHANGED <<tool, latest, stamp, recorded, kills, fails>>

\* A lookup, a request, a package manager or a disk that fails.
LookupFails(c) ==
  /\ caller[c].pc \in {"digest", "fetch", "unpack"}
  /\ Fails(c)
  /\ UNCHANGED <<tool, latest, files, stamp, recorded, kills>>

-----------------------------------------------------------------------------
(* Writing a binary and putting it in place *)

\* extractTarXz, extractZip: members come in the archive's order.
Unpack(c, b) ==
  /\ caller[c].pc = "unpack" /\ b \in caller[c].left
  /\ Opened(c, Part(b), caller[c].got)
  /\ UNCHANGED <<tool, latest, stamp, recorded, kills, fails>>

WriteBlock(c) ==
  LET at == caller[c].at  i == caller[c].pos + 1 IN
  /\ caller[c].pc = "write" /\ i <= Blocks
  /\ files' = IF at = Gone THEN files ELSE [files EXCEPT ![at][i] = caller[c].got]
  /\ caller' = [caller EXCEPT ![c].pos = i]
  /\ UNCHANGED <<tool, latest, stamp, recorded, kills, fails>>

\* os.Remove of the temporary name, whoever's file that is by now.
RemovePart(c, b) ==
  /\ files' = Without(Part(b))
  /\ caller' = [Renamed(c, Part(b), Gone) EXCEPT ![c] = Ended(caller[c].why, FALSE)]

\* The binary a caller is writing.
Writing(c, b) == caller[c].pc = "write" /\ (tool = "ffmpeg" => b \in caller[c].left /\ caller[c].at[1] = b)

WriteFails(c, b) ==
  /\ Writing(c, b)
  /\ fails < MaxFails /\ fails' = fails + 1
  /\ RemovePart(c, b)
  /\ UNCHANGED <<tool, latest, stamp, recorded, kills>>

\* What was received is not what was asked for.
Mismatch(c, b) ==
  /\ Writing(c, b) /\ caller[c].pos = Blocks /\ caller[c].got # caller[c].want
  /\ RemovePart(c, b)
  /\ UNCHANGED <<tool, latest, stamp, recorded, kills, fails>>

\* ffmpeg records what it installed once all of it is in place, and has then checked.
Recorded(c, left) == IF tool = "ffmpeg" /\ left = {} THEN caller[c].want ELSE recorded

Stamped(c, left) == stamp \/ (tool \in {"yt-dlp", "ffmpeg"} /\ left = {} /\ caller[c].why = "install")

\* writeExecutable, DownloadVerified: the rename, which needs the temporary name.
Rename(c, b) ==
  LET left == caller[c].left \ {b} IN
  /\ Writing(c, b) /\ caller[c].pos = Blocks /\ caller[c].got = caller[c].want
  /\ \/ /\ Present(Part(b))
        /\ files' = Put(Without(Part(b)), Dest(b), files[Part(b)])
        /\ caller' = [Renamed(c, Part(b), Dest(b)) EXCEPT
                        ![c] = IF left = {} THEN Ended(caller[c].why, TRUE)
                               ELSE [caller[c] EXCEPT !.pc = "unpack", !.left = left, !.at = Gone]]
        /\ recorded' = Recorded(c, left)
        /\ stamp' = Stamped(c, left)
     \/ /\ ~Present(Part(b))
        /\ caller' = [caller EXCEPT ![c] = Ended(@.why, FALSE)]
        /\ UNCHANGED <<files, recorded, stamp>>
  /\ UNCHANGED <<tool, latest, kills, fails>>

-----------------------------------------------------------------------------
(* The surroundings *)

UseTool(c) ==
  /\ caller[c].pc = "served"
  /\ caller' = [caller EXCEPT ![c] = NoCall]
  /\ UNCHANGED <<tool, latest, files, stamp, recorded, kills, fails>>

StampExpires ==
  /\ stamp /\ stamp' = FALSE
  /\ UNCHANGED <<tool, latest, files, recorded, caller, kills, fails>>

Release ==
  /\ tool # "none" /\ latest < MaxRelease /\ latest' = latest + 1
  /\ UNCHANGED <<tool, files, stamp, recorded, caller, kills, fails>>

KillCallers ==
  /\ Busy # {} /\ kills < MaxKills /\ kills' = kills + 1
  /\ caller' = [c \in Callers |-> NoCall]
  /\ UNCHANGED <<tool, latest, files, stamp, recorded, fails>>

ToolCall(c) ==
  EnsureYtdlp(c) \/ EnsureFfmpeg(c) \/ FindDeno(c) \/ ForceUpdateGodl(c)

ToolStep(c) ==
  \/ AssetDigest(c) \/ OldAsset(c) \/ Open(c) \/ Stage(c) \/ InstallRPM(c) \/ WriteBlock(c) \/ UseTool(c)
  \/ \E b \in Binary : Unpack(c, b) \/ Mismatch(c, b) \/ Rename(c, b)

ToolFailure(c) == LookupFails(c) \/ \E b \in Binary : WriteFails(c, b)

ToolInit ==
  /\ latest = 1 /\ stamp = FALSE /\ recorded = 0 /\ kills = 0 /\ fails = 0
  /\ files = IF tool \in {"godl", "rpm"} THEN [n \in {Main} |-> Whole(1)] ELSE <<>>
  /\ caller = [c \in Callers |-> NoCall]

ToolNext ==
  \/ \E c \in Callers : ToolCall(c) \/ ForceUpdateTool(c) \/ ToolStep(c) \/ ToolFailure(c)
  \/ StampExpires \/ Release \/ KillCallers

\* A call goes on until it ends, the tool keeps being asked for and its check keeps
\* coming due.
ToolFairness ==
  /\ \A c \in Callers : WF_toolVars(ToolStep(c)) /\ WF_toolVars(ToolCall(c))
  /\ WF_toolVars(StampExpires)

ToolSpec == tool \in Tool /\ ToolInit /\ [][ToolNext]_toolVars /\ ToolFairness

-----------------------------------------------------------------------------
(* Properties *)

\* A binary in place is one release's, from its first block to its last, whatever
\* failed, was killed or was released on the way: DownloadVerified and
\* writeExecutable only ever rename what they have written and verified.
InstalledIsVerified ==
  \A b \in Binary : Present(Dest(b)) => \E r \in 1..MaxRelease : Is(Dest(b), r)

\* Whatever was killed or failed, and however often, a tool that goes on being asked
\* for is in the end complete and, but for deno, which is never updated, current.
ToolsCatchUp ==
  tool # "none" =>
    <>[](\A b \in Binary : IF tool = "deno" THEN Present(Dest(b)) ELSE Is(Dest(b), latest))

=============================================================================
