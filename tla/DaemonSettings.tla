--------------------------- MODULE DaemonSettings ---------------------------
(***************************************************************************)
(* The daemon's settings, from the tab or the page they are edited in      *)
(* (tui/settings.go, daemon/webapi.go) through applySettings               *)
(* (daemon/settings.go) to the rows of the settings table                  *)
(* (store/settings.go), the copy in memory and the web interface's         *)
(* listener and certificate (daemon/webui.go, webcert).  "https" is        *)
(* WebUIHTTPS, for an interface open to the network; the other fields, and *)
(* the rate limiter re-rated with the copy, are like "attempts".  A save   *)
(* is refused, goes wrong half way, or dies with the daemon between any    *)
(* two of its steps.                                                       *)
(***************************************************************************)
EXTENDS Naturals

CONSTANTS
  Editor,        \* the Settings tab ("tab") and the page ("page")
  Port,          \* the ports somebody asks for
  Overlap,       \* bound: may an edit be made while another is being saved
  MaxChangesMade,\* bound: edits
  MaxSetTroubles \* bound: writes that fail, and deaths of the daemon

VARIABLES
  rows, cached,
  web,           \* d.web: what the running server was started with, or NoWeb
  certs,         \* the certificate's file and its key's: which pair each is of
  up,
  taken,         \* ports another program listens on
  editor,        \* per editor: open or not, which session, loading, its current
  calls,         \* loads and saves on their way
  spoilt,        \* the last save to have ended broke off half way
  setOps         \* what happened so far, against the bounds

setVars == <<rows, cached, web, certs, up, taken, editor, calls, spoilt, setOps>>

Fields == {"webui", "port", "https", "attempts"}

\* store.Settings: the fields that tell the copies apart.
Settings == [webui : BOOLEAN, port : Port \cup {0}, https : BOOLEAN, attempts : {0, 3}]

\* Go's zero value: what a tab holds before its first reply.
ZeroSettings == [webui |-> FALSE, port |-> 0, https |-> FALSE, attempts |-> 0]

Default == CHOOSE p \in Port : \A q \in Port : p <= q

ASSUME DefaultIsPort == Default \in Port

DefaultSettings == [ZeroSettings EXCEPT !.attempts = 3, !.port = Default]

NoWeb == [port |-> 0, https |-> FALSE, cert |-> 0, key |-> 0]

KeyOf(s) == [port |-> IF s.port = 0 THEN Default ELSE s.port, https |-> s.https]

WebKey == [port |-> web.port, https |-> web.https]

Saving == {c \in calls : c.kind = "save" /\ c.at \notin {"ok", "refused"}}

SetTypeOK ==
  /\ {rows, cached} \subseteq Settings
  /\ \A e \in Editor : editor[e].base \in Settings
  /\ \A c \in calls : c.want \in Settings /\ c.left \subseteq Fields
  /\ certs.cert \in Nat /\ certs.key \in Nat /\ taken \subseteq Port

Counted(what, most) == setOps[what] < most /\ setOps' = [setOps EXCEPT ![what] = @ + 1]

Step(c, at) == calls' = (calls \ {c}) \cup {[c EXCEPT !.at = at]}

-----------------------------------------------------------------------------
(* The editor *)

Session(e) == editor[e].session

OpenEditor(e) ==
  /\ e # "page" /\ ~editor[e].open /\ Session(e) < 2
  /\ editor' = [editor EXCEPT ![e] = [open |-> TRUE, session |-> @.session + 1, base |-> ZeroSettings]]
  /\ calls' = calls \cup {[by |-> e, session |-> Session(e) + 1, kind |-> "load", want |-> ZeroSettings,
                           at |-> "call", left |-> {}]}
  /\ UNCHANGED <<rows, cached, web, certs, up, taken, spoilt, setOps>>

\* webState: the page comes with the settings as they are when it is loaded.
OpenPage(e) ==
  /\ e = "page" /\ ~editor[e].open /\ up /\ web # NoWeb
  /\ editor' = [editor EXCEPT ![e] = [open |-> TRUE, session |-> 1, base |-> cached]]
  /\ UNCHANGED <<rows, cached, web, certs, up, taken, calls, spoilt, setOps>>

CloseEditor(e) ==
  /\ e # "page" /\ editor[e].open
  /\ editor' = [editor EXCEPT ![e].open = FALSE, ![e].base = ZeroSettings]
  /\ UNCHANGED <<rows, cached, web, certs, up, taken, calls, spoilt, setOps>>

\* An edit is one field changed on top of the editor's current, loaded or not; the
\* page has no control for https.
Edit(e, f) ==
  /\ editor[e].open /\ (e = "page" => f # "https")
  /\ Overlap \/ \A c \in calls : c.kind = "load"
  /\ Counted("edits", MaxChangesMade)
  /\ \E s \in Settings :
       /\ s[f] # editor[e].base[f] /\ \A g \in Fields \ {f} : s[g] = editor[e].base[g]
       /\ (f = "port" => s.port # 0)
       /\ calls' = calls \cup {[by |-> e, session |-> Session(e), kind |-> "save", want |-> s,
                                at |-> IF up THEN "call" ELSE "refused", left |-> {}]}
  /\ UNCHANGED <<rows, cached, web, certs, up, taken, editor, spoilt>>

\* settingsResult: dropped when the tab was closed, or reopened, meanwhile.
Replied(c) ==
  /\ c.at \in {"ok", "refused"}
  /\ calls' = calls \ {c}
  /\ editor' = IF editor[c.by].open /\ Session(c.by) = c.session /\ c.at = "ok"
               THEN [editor EXCEPT ![c.by].base = c.want] ELSE editor
  /\ UNCHANGED <<rows, cached, web, certs, up, taken, spoilt, setOps>>

Load(c) ==
  /\ up /\ c.at = "call" /\ c.kind = "load"
  /\ calls' = (calls \ {c}) \cup {[c EXCEPT !.at = "ok", !.want = cached]}
  /\ UNCHANGED <<rows, cached, web, certs, up, taken, editor, spoilt, setOps>>

-----------------------------------------------------------------------------
(* applySettings *)

\* The page's https is what the daemon has, whatever the page sends.
Asked(c) == IF c.by = "page" THEN [c.want EXCEPT !.https = cached.https] ELSE c.want

Validate(c) ==
  /\ up /\ c.at = "call" /\ c.kind = "save"
  /\ calls' = (calls \ {c}) \cup
              {[c EXCEPT !.want = Asked(c), !.at = IF c.want.attempts < 1 THEN "refused" ELSE "sync"]}
  /\ UNCHANGED <<rows, cached, web, certs, up, taken, editor, spoilt, setOps>>

\* Mutant: the certificate's own file is all that is looked at.
UsableByCert == certs.cert # 0

\* usable: the two files are of one pair (expiry and addresses left aside).
Usable == certs.cert # 0 /\ certs.cert = certs.key

Fresh == IF certs.cert > certs.key THEN certs.cert + 1 ELSE certs.key + 1

\* webcert.Load, and the server it is for.
Served(s) ==
  [port |-> KeyOf(s).port, https |-> s.https,
   cert |-> IF ~s.https THEN 0 ELSE IF Usable THEN certs.cert ELSE Fresh,
   key |-> IF ~s.https THEN 0 ELSE IF Usable THEN certs.key ELSE Fresh]

Stored(s) == IF s.https /\ ~Usable THEN [cert |-> Fresh, key |-> Fresh] ELSE certs

\* syncWebUI, as (what runs, the files, accepted).  The old server is stopped first.
Sync(s, web2, certs2, ok) ==
  IF s.webui /\ web # NoWeb /\ WebKey = KeyOf(s) THEN web2 = web /\ certs2 = certs /\ ok
  ELSE IF ~s.webui THEN web2 = NoWeb /\ certs2 = certs /\ ok
  ELSE IF KeyOf(s).port \in taken THEN web2 = NoWeb /\ certs2 = certs /\ ~ok
  ELSE web2 = Served(s) /\ certs2 = Stored(s) /\ ok

\* Mutant: one of the settings' keys is missing from what SaveSettings writes.
FieldsSavedButPort == Fields \ {"port"}

FieldsSaved == Fields

SyncWebUI(c) ==
  /\ up /\ c.at = "sync"
  /\ \E ok \in BOOLEAN :
       /\ Sync(c.want, web', certs', ok)
       /\ calls' = (calls \ {c}) \cup
                   {[c EXCEPT !.at = IF ok THEN "write" ELSE "refused", !.left = IF ok THEN FieldsSaved ELSE {}]}
  /\ UNCHANGED <<rows, cached, up, taken, editor, spoilt, setOps>>

\* SaveSettings: one upsert per field, in whatever order the map gives them.
WriteRow(c, f) ==
  /\ up /\ c.at = "write" /\ f \in c.left
  /\ rows' = [rows EXCEPT ![f] = c.want[f]]
  /\ calls' = (calls \ {c}) \cup
              {[c EXCEPT !.left = @ \ {f}, !.at = IF c.left = {f} THEN "cache" ELSE "write"]}
  /\ UNCHANGED <<cached, web, certs, up, taken, editor, spoilt, setOps>>

WriteFails(c) ==
  /\ up /\ c.at = "write" /\ Counted("troubles", MaxSetTroubles)
  /\ Step(c, "refused") /\ spoilt' = TRUE
  /\ UNCHANGED <<rows, cached, web, certs, up, taken, editor>>

\* setCachedSettings and applyGlobalRateLimit.
SetCached(c) ==
  /\ up /\ c.at = "cache"
  /\ cached' = c.want /\ Step(c, "ok") /\ spoilt' = FALSE
  /\ UNCHANGED <<rows, web, certs, up, taken, editor, setOps>>

-----------------------------------------------------------------------------
(* The daemon's end and start *)

\* Killed: at worst between the two files of a new certificate.
Kill ==
  /\ up /\ Counted("troubles", MaxSetTroubles)
  /\ up' = FALSE /\ web' = NoWeb
  /\ calls' = {IF c.at \in {"ok", "refused"} THEN c ELSE [c EXCEPT !.at = "refused", !.left = {}] : c \in calls}
  /\ \/ certs' = certs
     \/ /\ \E c \in calls : c.at = "sync" /\ c.want.webui /\ c.want.https /\ KeyOf(c.want).port \notin taken
        /\ ~Usable /\ certs' = [certs EXCEPT !.cert = Fresh]
  /\ UNCHANGED <<rows, cached, taken, editor, spoilt>>

\* Serve: what is saved is what runs, except on a port that is taken.
Boot ==
  /\ ~up /\ up' = TRUE
  /\ cached' = rows /\ spoilt' = FALSE
  /\ \E ok \in BOOLEAN : Sync(rows, web', certs', ok)
  /\ UNCHANGED <<rows, taken, editor, calls, setOps>>

-----------------------------------------------------------------------------
(* Specification *)

\* A daemon that came up with what was saved before.
SetInit ==
  /\ rows \in {DefaultSettings, [DefaultSettings EXCEPT !.webui = TRUE]} /\ cached = rows
  /\ taken \in {{}} \cup {{p} : p \in Port \ {Default}}
  /\ web = (IF rows.webui THEN [NoWeb EXCEPT !.port = Default] ELSE NoWeb)
  /\ certs = [cert |-> 0, key |-> 0] /\ up = TRUE
  /\ editor = [e \in Editor |-> [open |-> FALSE, session |-> 0, base |-> ZeroSettings]]
  /\ calls = {} /\ spoilt = FALSE
  /\ setOps = [edits |-> 0, troubles |-> 0]

SetNext ==
  \/ Kill \/ Boot
  \/ \E e \in Editor : OpenEditor(e) \/ OpenPage(e) \/ CloseEditor(e) \/ \E f \in Fields : Edit(e, f)
  \/ \E c \in calls :
       \/ Replied(c) \/ Load(c) \/ Validate(c) \/ SyncWebUI(c)
       \/ (\E f \in Fields : WriteRow(c, f)) \/ WriteFails(c) \/ SetCached(c)

SetSpec == SetInit /\ [][SetNext]_setVars

-----------------------------------------------------------------------------
(* Properties *)

\* The three copies agree whenever no save is under way, also after the daemon died in
\* the middle of one: the table, the copy in memory, and the web interface when it runs
\* (applySettings, GetSettings and SaveSettings keyed alike).  A save that
\* broke off leaves them apart until the next one or the next start.
SettingsAgree ==
  up /\ Saving = {} /\ ~spoilt =>
    /\ rows = cached
    /\ web # NoWeb => cached.webui /\ WebKey = KeyOf(cached)

\* The certificate the interface serves is one its key is for, although the daemon may
\* have died after writing the one file and before the other (webcert.generate).
ServedPairMatches == web # NoWeb /\ web.https => web.cert = web.key /\ web.cert # 0

=============================================================================
