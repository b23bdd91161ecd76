---------------------------- MODULE WebUIProofs -----------------------------
(***************************************************************************)
(* The settings and what the page works with. The rows, the copy in memory *)
(* and the interface agree whenever no save is under way, and the          *)
(* interface never serves a certificate with another's key, for edits that *)
(* wait for each other; a player opens the file that was picked; a relayed *)
(* stream has the bytes asked for, in order; and the links of a batch are  *)
(* saved to files of their own.                                            *)
(***************************************************************************)
EXTENDS DaemonSettings, PlayerSessions, RelayStream, LinkBatch, FiniteSetTheorems,
        SequenceTheorems, TLAPS

-----------------------------------------------------------------------------
(* Settings *)

Ended == {"ok", "refused"}

\* A load or a save on its way.
IsCall(c) ==
  /\ DOMAIN c = {"by", "session", "kind", "want", "at", "left"} /\ c = [f \in DOMAIN c |-> c[f]]
  /\ c.want \in Settings
  /\ c.kind \in {"load", "save"}
  /\ c.kind = "load" => c.at \in {"call"} \cup Ended

SetTypes ==
  /\ rows \in Settings /\ cached \in Settings
  /\ certs \in [cert : Nat, key : Nat]
  /\ \A c \in calls : IsCall(c)

\* What runs is what s asks for, or nothing runs.
Runs(s) == web # NoWeb => s.webui /\ WebKey = KeyOf(s)

Storing == {c \in calls : c.at \in {"write", "cache"}}

\* The strengthening: there is one save; while it writes the rows, the interface is already
\* what it wants, and the rows are, but for those that are left.
OneSave ==
  /\ \A c, d \in calls : c.kind = "save" /\ d.kind = "save" => c = d
  /\ ~up => \A c \in calls : c.kind = "save" => c.at \in Ended
  /\ \A c \in Storing :
       /\ c.kind = "save" /\ Runs(c.want)
       /\ c.at = "write" => \A f \in Fields \ c.left : rows[f] = c.want[f]
       /\ c.at = "cache" => rows = c.want

Agreed == up /\ ~spoilt /\ Storing = {} => rows = cached /\ Runs(cached)

SetInv == ~Overlap /\ SetTypes /\ OneSave /\ Agreed /\ ServedPairMatches

-----------------------------------------------------------------------------

LEMMA InvGivesAgree == SetInv => SettingsAgree
<1> SUFFICES ASSUME SetInv, up, Saving = {}, ~spoilt
             PROVE  rows = cached /\ (web # NoWeb => cached.webui /\ WebKey = KeyOf(cached))
  BY DEF SettingsAgree
<1>1. Storing = {}
  BY DEF SetInv, OneSave, Storing, Saving
<1> QED BY <1>1 DEF SetInv, Agreed, Runs

\* Whatever syncWebUI is asked for, what runs then is that, with a pair that matches.
LEMMA SyncMakes ==
  ASSUME certs \in [cert : Nat, key : Nat], ServedPairMatches, NEW s \in Settings, NEW ok \in BOOLEAN,
         Sync(s, web', certs', ok)
  PROVE  /\ certs' \in [cert : Nat, key : Nat] /\ ServedPairMatches'
         /\ web' # NoWeb => s.webui /\ WebKey' = KeyOf(s)
         /\ ~ok => web' = NoWeb
<1>0. ~ok => web' = NoWeb
  BY DEF Sync
<1>1. CASE s.webui /\ web # NoWeb /\ WebKey = KeyOf(s)
  BY <1>1 DEF Sync, WebKey, ServedPairMatches
<1>2. CASE web' = NoWeb /\ certs' = certs
  BY <1>2 DEF ServedPairMatches
<1>3. CASE s.webui /\ web' = Served(s) /\ certs' = Stored(s)
  <2>1. Fresh \in Nat /\ Fresh # 0
    BY DEF Fresh
  <2>2. certs' \in [cert : Nat, key : Nat]
    BY <1>3, <2>1 DEF Stored
  <2>3. /\ web'.port = KeyOf(s).port /\ web'.https = s.https
        /\ web'.cert = IF ~s.https THEN 0 ELSE IF Usable THEN certs.cert ELSE Fresh
        /\ web'.key = IF ~s.https THEN 0 ELSE IF Usable THEN certs.key ELSE Fresh
    BY <1>3 DEF Served
  <2>4. ServedPairMatches'
    BY <2>1, <2>3 DEF ServedPairMatches, Usable
  <2>5. WebKey' = KeyOf(s)
    BY <2>3 DEF WebKey, KeyOf
  <2> QED BY <1>0, <1>3, <2>2, <2>4, <2>5
<1> QED BY <1>0, <1>1, <1>2, <1>3 DEF Sync

LEMMA DefaultsAreSettings ==
  /\ ZeroSettings \in Settings /\ DefaultSettings \in Settings
  /\ [DefaultSettings EXCEPT !.webui = TRUE] \in Settings
  /\ DefaultSettings.port = Default /\ DefaultSettings.webui = FALSE /\ DefaultSettings.https = FALSE
BY DefaultIsPort DEF ZeroSettings, DefaultSettings, Settings

LEMMA SetInvInit == ~Overlap /\ SetInit => SetInv
<1> SUFFICES ASSUME ~Overlap, SetInit PROVE SetInv
  OBVIOUS
<1>1. /\ rows \in Settings /\ cached = rows /\ rows.port = Default /\ rows.https = FALSE
      /\ certs \in [cert : Nat, key : Nat] /\ calls = {}
  BY DefaultsAreSettings DEF SetInit, DefaultSettings, ZeroSettings
<1>2. ServedPairMatches
  BY DEF SetInit, ServedPairMatches, NoWeb
<1>3. Runs(cached)
  <2>1. CASE ~rows.webui
    BY <2>1 DEF SetInit, Runs
  <2>2. CASE rows.webui
    <3>1. web = [NoWeb EXCEPT !.port = Default]
      BY <2>2 DEF SetInit
    <3>2. web.port = Default /\ web.https = FALSE
      BY <3>1 DEF NoWeb
    <3> QED BY <1>1, <2>2, <3>2 DEF Runs, WebKey, KeyOf
  <2> QED BY <2>1, <2>2
<1> QED BY <1>1, <1>2, <1>3 DEF SetInv, SetTypes, OneSave, Agreed, Storing

-----------------------------------------------------------------------------
(* Steps that write nothing *)

\* Calls come, go and move, and nothing they write does.
LEMMA CallsMove ==
  ASSUME SetInv, UNCHANGED <<rows, cached, web, certs, up, spoilt>>,
         \A c \in calls' : IsCall(c),
         \A c, d \in calls' : c.kind = "save" /\ d.kind = "save" => c = d,
         ~up => \A c \in calls' : c.kind = "save" => c.at \in Ended,
         {c \in calls' : c.at \in {"write", "cache"}} = Storing
  PROVE  SetInv'
<1>1. SetTypes'
  BY DEF SetInv, SetTypes
<1>2. Storing' = Storing
  BY DEF Storing
<1>3. OneSave'
  BY <1>2 DEF SetInv, OneSave, Runs, WebKey
<1>4. Agreed' /\ ServedPairMatches'
  BY <1>2 DEF SetInv, Agreed, Runs, WebKey, ServedPairMatches
<1> QED BY <1>1, <1>3, <1>4 DEF SetInv

LEMMA OpenEditorKeeps == ASSUME SetInv, NEW e \in Editor, OpenEditor(e) PROVE SetInv'
<1> DEFINE x == [by |-> e, session |-> Session(e) + 1, kind |-> "load", want |-> ZeroSettings,
                 at |-> "call", left |-> {}]
<1>1. IsCall(x) /\ x.kind = "load" /\ x.at = "call"
  BY DefaultsAreSettings DEF IsCall
<1>2. calls' = calls \cup {x} /\ UNCHANGED <<rows, cached, web, certs, up, spoilt>>
  BY DEF OpenEditor
<1> HIDE DEF x
<1>3. {c \in calls' : c.at \in {"write", "cache"}} = Storing
  BY <1>1, <1>2 DEF Storing
<1> QED BY <1>1, <1>2, <1>3, CallsMove DEF SetInv, SetTypes, OneSave

LEMMA OpenPageKeeps == ASSUME SetInv, NEW e \in Editor, OpenPage(e) \/ CloseEditor(e) PROVE SetInv'
<1>1. calls' = calls /\ UNCHANGED <<rows, cached, web, certs, up, spoilt>>
  BY DEF OpenPage, CloseEditor
<1> QED BY <1>1, CallsMove DEF SetInv, SetTypes, OneSave, Storing

\* A new save finds no other: edits wait for each other.
LEMMA EditKeeps == ASSUME SetInv, NEW e \in Editor, NEW f \in Fields, Edit(e, f) PROVE SetInv'
<1>1. PICK s \in Settings :
        calls' = calls \cup {[by |-> e, session |-> Session(e), kind |-> "save", want |-> s,
                              at |-> IF up THEN "call" ELSE "refused", left |-> {}]}
  BY DEF Edit
<1> DEFINE x == [by |-> e, session |-> Session(e), kind |-> "save", want |-> s,
                 at |-> IF up THEN "call" ELSE "refused", left |-> {}]
<1>2. IsCall(x) /\ x.kind = "save" /\ x.at \in {"call", "refused"} /\ (~up => x.at = "refused")
  BY DEF IsCall
<1>3. calls' = calls \cup {x} /\ UNCHANGED <<rows, cached, web, certs, up, spoilt>>
  BY <1>1 DEF Edit
<1>4. \A c \in calls : c.kind = "load"
  BY DEF Edit, SetInv
<1> HIDE DEF x
<1>5. {c \in calls' : c.at \in {"write", "cache"}} = Storing
  BY <1>2, <1>3 DEF Storing
<1> QED BY <1>2, <1>3, <1>4, <1>5, CallsMove DEF SetInv, SetTypes, OneSave, Ended

LEMMA RepliedKeeps == ASSUME SetInv, NEW c \in calls, Replied(c) PROVE SetInv'
<1>1. calls' = calls \ {c} /\ UNCHANGED <<rows, cached, web, certs, up, spoilt>> /\ c.at \in Ended
  BY DEF Replied, Ended
<1>2. {x \in calls' : x.at \in {"write", "cache"}} = Storing
  BY <1>1 DEF Storing, Ended
<1> QED BY <1>1, <1>2, CallsMove DEF SetInv, SetTypes, OneSave

\* A call takes one step: it stays one of its kind, and of the saves there is still one.
LEMMA CallGoes ==
  ASSUME SetInv, NEW c \in calls, NEW x, IsCall(x), x.kind = c.kind, calls' = (calls \ {c}) \cup {x}
  PROVE  /\ \A y \in calls' : IsCall(y)
         /\ \A y, z \in calls' : y.kind = "save" /\ z.kind = "save" => y = z
BY DEF SetInv, SetTypes, OneSave

LEMMA LoadKeeps == ASSUME SetInv, NEW c \in calls, Load(c) PROVE SetInv'
<1> DEFINE x == [c EXCEPT !.at = "ok", !.want = cached]
<1>1. IsCall(c) /\ c.kind = "load" /\ c.at = "call" /\ cached \in Settings /\ up
  BY DEF Load, SetInv, SetTypes
<1>2. /\ DOMAIN x = DOMAIN c /\ x = [f \in DOMAIN x |-> x[f]]
      /\ x.kind = "load" /\ x.at = "ok" /\ x.want = cached
  BY <1>1 DEF IsCall
<1>3. calls' = (calls \ {c}) \cup {x} /\ UNCHANGED <<rows, cached, web, certs, up, spoilt>>
  BY DEF Load
<1> HIDE DEF x
<1>4. IsCall(x)
  BY <1>1, <1>2 DEF IsCall, Ended
<1>5. {y \in calls' : y.at \in {"write", "cache"}} = Storing
  BY <1>1, <1>2, <1>3 DEF Storing
<1> QED BY <1>1, <1>2, <1>3, <1>4, <1>5, CallGoes, CallsMove

LEMMA ValidateKeeps == ASSUME SetInv, NEW c \in calls, Validate(c) PROVE SetInv'
<1> DEFINE at == IF c.want.attempts < 1 THEN "refused" ELSE "sync"
           x == [c EXCEPT !.want = Asked(c), !.at = at]
<1>1. IsCall(c) /\ c.kind = "save" /\ c.at = "call" /\ cached \in Settings /\ up
  BY DEF Validate, SetInv, SetTypes
<1>2. Asked(c) \in Settings
  <2>1. [c.want EXCEPT !.https = cached.https] \in Settings
    BY <1>1 DEF IsCall, Settings
  <2> QED BY <1>1, <2>1 DEF Asked, IsCall
<1>3. calls' = (calls \ {c}) \cup {x} /\ UNCHANGED <<rows, cached, web, certs, up, spoilt>>
  BY DEF Validate
<1>4. at \in {"refused", "sync"}
  OBVIOUS
<1> HIDE DEF at
<1>5. /\ DOMAIN x = DOMAIN c /\ x = [f \in DOMAIN x |-> x[f]]
      /\ x.kind = "save" /\ x.at = at /\ x.want = Asked(c)
  BY <1>1 DEF IsCall
<1> HIDE DEF x
<1>6. IsCall(x)
  BY <1>1, <1>2, <1>5 DEF IsCall
<1>7. {y \in calls' : y.at \in {"write", "cache"}} = Storing
  BY <1>1, <1>3, <1>4, <1>5 DEF Storing
<1> QED BY <1>1, <1>3, <1>5, <1>6, <1>7, CallGoes, CallsMove

-----------------------------------------------------------------------------
(* The steps of a save *)

\* Among the calls only the save that takes the step may be storing.
LEMMA OneStoring ==
  ASSUME SetInv, NEW c \in calls, c.kind = "save", NEW x, IsCall(x), x.kind = "save",
         calls' = (calls \ {c}) \cup {x}
  PROVE  /\ \A y \in calls' : y.kind = "save" => y = x
         /\ \A y \in Storing' : y = x
         /\ \A y \in Storing : y = c
<1>1. \A y \in calls : y.kind = "save" => y = c
  BY DEF SetInv, OneSave
<1>2. \A y \in calls' : y.kind = "save" => y = x
  BY <1>1
<1>3. \A y \in calls : y.at \in {"write", "cache"} => y.kind = "save"
  BY DEF SetInv, OneSave, Storing
<1> QED BY <1>1, <1>2, <1>3 DEF Storing

LEMMA SyncWebUIKeeps == ASSUME SetInv, NEW c \in calls, SyncWebUI(c) PROVE SetInv'
<1>1. PICK ok \in BOOLEAN :
        /\ Sync(c.want, web', certs', ok)
        /\ calls' = (calls \ {c}) \cup
             {[c EXCEPT !.at = IF ok THEN "write" ELSE "refused", !.left = IF ok THEN FieldsSaved ELSE {}]}
  BY DEF SyncWebUI
<1> DEFINE at == IF ok THEN "write" ELSE "refused"
           left == IF ok THEN FieldsSaved ELSE {}
           x == [c EXCEPT !.at = at, !.left = left]
<1>2. c.at = "sync" /\ up /\ UNCHANGED <<rows, cached, up, spoilt>> /\ IsCall(c)
  BY DEF SyncWebUI, SetInv, SetTypes
<1>3. c.kind = "save"
  BY <1>2 DEF IsCall, Ended
<1>4. /\ certs' \in [cert : Nat, key : Nat] /\ ServedPairMatches'
      /\ web' # NoWeb => c.want.webui /\ WebKey' = KeyOf(c.want)
      /\ ~ok => web' = NoWeb
  BY <1>1, <1>2, SyncMakes DEF SetInv, SetTypes, IsCall
<1>5. calls' = (calls \ {c}) \cup {x}
  BY <1>1
<1>6. (ok => at = "write" /\ left = Fields) /\ (~ok => at = "refused")
  BY DEF FieldsSaved
<1> HIDE DEF at, left
<1>7. /\ DOMAIN x = DOMAIN c /\ x = [f \in DOMAIN x |-> x[f]]
      /\ x.kind = "save" /\ x.at = at /\ x.want = c.want /\ x.left = left
  BY <1>2, <1>3 DEF IsCall
<1> HIDE DEF x
<1>8. IsCall(x)
  BY <1>2, <1>7 DEF IsCall
<1>9. /\ \A y \in calls' : y.kind = "save" => y = x
      /\ \A y \in Storing' : y = x
      /\ Storing = {}
  BY <1>2, <1>3, <1>5, <1>7, <1>8, OneStoring DEF Storing
<1>10. SetTypes'
  BY <1>2, <1>3, <1>4, <1>5, <1>7, <1>8, CallGoes DEF SetInv, SetTypes
<1>11. CASE ok
  <2>1. OneSave'
    BY <1>2, <1>4, <1>6, <1>7, <1>9, <1>11 DEF OneSave, Runs
  <2>2. x \in Storing'
    BY <1>5, <1>6, <1>7, <1>11 DEF Storing
  <2>3. Agreed'
    BY <2>2 DEF Agreed
  <2> QED BY <1>4, <1>10, <2>1, <2>3 DEF SetInv
<1>12. CASE ~ok
  <2>1. Storing' = {}
    BY <1>6, <1>7, <1>9, <1>12 DEF Storing
  <2>2. OneSave'
    BY <1>2, <1>9, <2>1 DEF OneSave
  <2>3. Agreed'
    BY <1>2, <1>4, <1>9, <1>12 DEF SetInv, Agreed, Runs
  <2> QED BY <1>4, <1>10, <2>2, <2>3 DEF SetInv
<1> QED BY <1>11, <1>12

\* Settings that agree on every field are the same settings.
LEMMA FieldByField ==
  ASSUME NEW r \in Settings, NEW s \in Settings, \A f \in Fields : r[f] = s[f]
  PROVE  r = s
<1>1. r.webui = s.webui /\ r.port = s.port /\ r.https = s.https /\ r.attempts = s.attempts
  BY DEF Fields
<1> QED BY <1>1 DEF Settings

\* The row that is written is one less that differs from what is wanted.
LEMMA WriteRowKeeps == ASSUME SetInv, NEW c \in calls, NEW f \in Fields, WriteRow(c, f) PROVE SetInv'
<1> DEFINE at == IF c.left = {f} THEN "cache" ELSE "write"
           x == [c EXCEPT !.left = @ \ {f}, !.at = at]
<1>1. /\ c.at = "write" /\ up /\ f \in c.left /\ UNCHANGED <<cached, web, certs, up, spoilt>> /\ IsCall(c)
      /\ rows' = [rows EXCEPT ![f] = c.want[f]] /\ rows \in Settings /\ c.want \in Settings
  BY DEF WriteRow, SetInv, SetTypes, IsCall
<1>2. c.kind = "save" /\ c \in Storing /\ Runs(c.want) /\ \A g \in Fields \ c.left : rows[g] = c.want[g]
  BY <1>1 DEF SetInv, OneSave, Storing
<1>3. calls' = (calls \ {c}) \cup {x}
  BY DEF WriteRow
<1>4. at \in {"cache", "write"} /\ (at = "cache" => c.left = {f})
  OBVIOUS
<1> HIDE DEF at
<1>5. /\ DOMAIN x = DOMAIN c /\ x = [g \in DOMAIN x |-> x[g]]
      /\ x.kind = "save" /\ x.at = at /\ x.want = c.want /\ x.left = c.left \ {f}
  BY <1>1, <1>2 DEF IsCall
<1> HIDE DEF x
<1>6. IsCall(x)
  BY <1>1, <1>5 DEF IsCall
<1>7. /\ rows' \in Settings
      /\ \A g \in Fields : rows'[g] = IF g = f THEN c.want[g] ELSE rows[g]
  <2>1. CASE f = "webui"
    BY <1>1, <2>1 DEF Settings, Fields
  <2>2. CASE f = "port"
    BY <1>1, <2>2 DEF Settings, Fields
  <2>3. CASE f = "https"
    BY <1>1, <2>3 DEF Settings, Fields
  <2>4. CASE f = "attempts"
    BY <1>1, <2>4 DEF Settings, Fields
  <2> QED BY <2>1, <2>2, <2>3, <2>4 DEF Fields
<1>8. \A g \in Fields \ x.left : rows'[g] = x.want[g]
  BY <1>2, <1>5, <1>7
<1>9. at = "cache" => rows' = x.want
  <2> SUFFICES ASSUME at = "cache" PROVE rows' = x.want
    OBVIOUS
  <2>1. \A g \in Fields : rows'[g] = x.want[g]
    BY <1>4, <1>5, <1>8
  <2> DEFINE r == rows'
             s == x.want
  <2>2. r \in Settings /\ s \in Settings /\ \A g \in Fields : r[g] = s[g]
    BY <1>1, <1>5, <1>7, <2>1
  <2> HIDE DEF r, s
  <2>3. r = s
    BY <2>2, FieldByField
  <2> QED BY <2>3 DEF r, s
<1>10. /\ \A y \in calls' : y.kind = "save" => y = x
       /\ \A y \in Storing' : y = x
       /\ x \in Storing'
  BY <1>2, <1>3, <1>4, <1>5, <1>6, OneStoring DEF Storing
<1>11. SetTypes'
  BY <1>1, <1>2, <1>3, <1>5, <1>6, <1>7, CallGoes DEF SetInv, SetTypes
<1>12. OneSave'
  <2>1. Runs(x.want)'
    BY <1>1, <1>2, <1>3, <1>5 DEF Runs, WebKey
  <2> QED BY <1>1, <1>4, <1>5, <1>8, <1>9, <1>10, <2>1 DEF OneSave
<1>13. Agreed' /\ ServedPairMatches'
  BY <1>1, <1>10 DEF SetInv, Agreed, ServedPairMatches
<1> QED BY <1>11, <1>12, <1>13 DEF SetInv

LEMMA WriteFailsKeeps == ASSUME SetInv, NEW c \in calls, WriteFails(c) PROVE SetInv'
<1> DEFINE x == [c EXCEPT !.at = "refused"]
<1>1. c.at = "write" /\ spoilt' = TRUE /\ UNCHANGED <<rows, cached, web, certs, up>> /\ IsCall(c)
  BY DEF WriteFails, SetInv, SetTypes
<1>2. c.kind = "save" /\ calls' = (calls \ {c}) \cup {x}
  BY <1>1 DEF SetInv, OneSave, Storing, WriteFails, Step
<1>3. /\ DOMAIN x = DOMAIN c /\ x = [g \in DOMAIN x |-> x[g]]
      /\ x.kind = "save" /\ x.at = "refused" /\ x.want = c.want
  BY <1>1, <1>2 DEF IsCall
<1> HIDE DEF x
<1>4. IsCall(x)
  BY <1>1, <1>3 DEF IsCall
<1>5. /\ \A y \in calls' : y.kind = "save" => y = x
      /\ Storing' = {}
  BY <1>2, <1>3, <1>4, OneStoring DEF Storing
<1>6. SetTypes' /\ OneSave'
  BY <1>1, <1>2, <1>3, <1>4, <1>5, CallGoes DEF SetInv, SetTypes, OneSave, Ended
<1>7. Agreed' /\ ServedPairMatches'
  BY <1>1 DEF SetInv, Agreed, ServedPairMatches
<1> QED BY <1>6, <1>7 DEF SetInv

\* With every row written, the copy in memory follows: the three agree again.
LEMMA SetCachedKeeps == ASSUME SetInv, NEW c \in calls, SetCached(c) PROVE SetInv'
<1> DEFINE x == [c EXCEPT !.at = "ok"]
<1>1. /\ c.at = "cache" /\ up /\ cached' = c.want /\ spoilt' = FALSE
      /\ UNCHANGED <<rows, web, certs, up>> /\ IsCall(c)
  BY DEF SetCached, SetInv, SetTypes
<1>2. c.kind = "save" /\ calls' = (calls \ {c}) \cup {x} /\ Runs(c.want) /\ rows = c.want
  BY <1>1 DEF SetInv, OneSave, Storing, SetCached, Step
<1>3. /\ DOMAIN x = DOMAIN c /\ x = [g \in DOMAIN x |-> x[g]]
      /\ x.kind = "save" /\ x.at = "ok" /\ x.want = c.want
  BY <1>1, <1>2 DEF IsCall
<1> HIDE DEF x
<1>4. IsCall(x)
  BY <1>1, <1>3 DEF IsCall
<1>5. /\ \A y \in calls' : y.kind = "save" => y = x
      /\ Storing' = {}
  BY <1>2, <1>3, <1>4, OneStoring DEF Storing
<1>6. SetTypes'
  BY <1>1, <1>2, <1>3, <1>4, CallGoes DEF SetInv, SetTypes, IsCall
<1>7. OneSave'
  BY <1>1, <1>3, <1>5 DEF OneSave
<1>8. Agreed' /\ ServedPairMatches'
  BY <1>1, <1>2 DEF SetInv, Agreed, ServedPairMatches, Runs, WebKey
<1> QED BY <1>6, <1>7, <1>8 DEF SetInv

-----------------------------------------------------------------------------
(* The daemon's end and start *)

LEMMA KillKeeps == ASSUME SetInv, Kill PROVE SetInv'
<1> DEFINE Over(c) == IF c.at \in {"ok", "refused"} THEN c ELSE [c EXCEPT !.at = "refused", !.left = {}]
<1>1. /\ up' = FALSE /\ web' = NoWeb /\ UNCHANGED <<rows, cached, spoilt>>
      /\ calls' = {Over(c) : c \in calls}
      /\ certs' = certs \/ certs' = [certs EXCEPT !.cert = Fresh]
  BY DEF Kill
<1>2. \A c \in calls : IsCall(Over(c)) /\ Over(c).kind = c.kind /\ Over(c).at \in Ended
  <2> SUFFICES ASSUME NEW c \in calls
               PROVE  IsCall(Over(c)) /\ Over(c).kind = c.kind /\ Over(c).at \in Ended
    OBVIOUS
  <2>1. IsCall(c)
    BY DEF SetInv, SetTypes
  <2>2. CASE c.at \in {"ok", "refused"}
    BY <2>1, <2>2 DEF Ended
  <2>3. CASE c.at \notin {"ok", "refused"}
    <3> DEFINE x == [c EXCEPT !.at = "refused", !.left = {}]
    <3>1. /\ DOMAIN x = DOMAIN c /\ x = [f \in DOMAIN x |-> x[f]]
          /\ x.kind = c.kind /\ x.at = "refused" /\ x.want = c.want
      BY <2>1 DEF IsCall
    <3>2. Over(c) = x
      BY <2>3
    <3> HIDE DEF x, Over
    <3> QED BY <2>1, <3>1, <3>2 DEF IsCall, Ended
  <2> QED BY <2>2, <2>3
<1> HIDE DEF Over
<1>3. Fresh \in Nat
  BY DEF Fresh, SetInv, SetTypes
<1>4. certs' \in [cert : Nat, key : Nat]
  BY <1>1, <1>3 DEF SetInv, SetTypes
<1>5. SetTypes'
  BY <1>1, <1>2, <1>4 DEF SetInv, SetTypes
<1>6. OneSave'
  <2>1. \A y \in calls' : \E c \in calls : y = Over(c) /\ y.kind = c.kind /\ y.at \in Ended
    BY <1>1, <1>2
  <2>2. \A y, z \in calls' : y.kind = "save" /\ z.kind = "save" => y = z
    BY <2>1 DEF SetInv, OneSave
  <2>3. Storing' = {}
    BY <2>1 DEF Storing, Ended
  <2> QED BY <2>1, <2>2, <2>3 DEF OneSave
<1>7. Agreed' /\ ServedPairMatches'
  BY <1>1 DEF Agreed, ServedPairMatches
<1> QED BY <1>5, <1>6, <1>7 DEF SetInv

\* What is saved is what runs, whatever a save that died has left.
LEMMA BootKeeps == ASSUME SetInv, Boot PROVE SetInv'
<1>1. PICK ok \in BOOLEAN : Sync(rows, web', certs', ok)
  BY DEF Boot
<1>2. ~up /\ up' = TRUE /\ cached' = rows /\ spoilt' = FALSE /\ rows' = rows /\ calls' = calls
  BY DEF Boot
<1>3. /\ certs' \in [cert : Nat, key : Nat] /\ ServedPairMatches'
      /\ web' # NoWeb => rows.webui /\ WebKey' = KeyOf(rows)
  BY <1>1, SyncMakes DEF SetInv, SetTypes
<1>4. Storing' = {} /\ Storing = {}
  BY <1>2 DEF SetInv, OneSave, Storing, Ended
<1>5. SetTypes' /\ OneSave'
  BY <1>2, <1>3, <1>4 DEF SetInv, SetTypes, OneSave
<1>6. Agreed'
  BY <1>2, <1>3 DEF Agreed, Runs
<1> QED BY <1>3, <1>5, <1>6 DEF SetInv

-----------------------------------------------------------------------------

LEMMA SetInvStep == SetInv /\ [SetNext]_setVars => SetInv'
<1> SUFFICES ASSUME SetInv, [SetNext]_setVars PROVE SetInv'
  OBVIOUS
<1>1. CASE UNCHANGED setVars
  BY <1>1, CallsMove DEF setVars, SetInv, SetTypes, OneSave, Storing
<1>2. CASE Kill \/ Boot
  BY <1>2, KillKeeps, BootKeeps
<1>3. ASSUME NEW e \in Editor, OpenEditor(e) \/ OpenPage(e) \/ CloseEditor(e) \/ \E f \in Fields : Edit(e, f)
      PROVE  SetInv'
  BY <1>3, OpenEditorKeeps, OpenPageKeeps, EditKeeps
<1>4. ASSUME NEW c \in calls, Replied(c) \/ Load(c) \/ Validate(c) \/ SyncWebUI(c)
      PROVE  SetInv'
  BY <1>4, RepliedKeeps, LoadKeeps, ValidateKeeps, SyncWebUIKeeps
<1>5. ASSUME NEW c \in calls, (\E f \in Fields : WriteRow(c, f)) \/ WriteFails(c) \/ SetCached(c)
      PROVE  SetInv'
  BY <1>5, WriteRowKeeps, WriteFailsKeeps, SetCachedKeeps
<1> QED BY <1>1, <1>2, <1>3, <1>4, <1>5 DEF SetNext

\* SettingsAgree: between two saves, the rows (SaveSettings), the copy in memory
\* (setCachedSettings) and the interface that runs (syncWebUI) are of one setting, also when
\* the save before was refused or the daemon died in it and came back.
THEOREM SettingsAgreeHolds == ~Overlap /\ SetSpec => []SettingsAgree
BY SetInvInit, SetInvStep, InvGivesAgree, PTL DEF SetSpec

\* ServedPairMatches: a certificate is served only with its own key, although they are two
\* files and the daemon may die between them (webcert: usable, generate).
THEOREM ServedPairMatchesHolds == ~Overlap /\ SetSpec => []ServedPairMatches
<1>1. SetInv => ServedPairMatches
  BY DEF SetInv
<1> QED BY SetInvInit, SetInvStep, <1>1, PTL DEF SetSpec

-----------------------------------------------------------------------------
(* Relayed streams *)

\* A site that serves ranges and tells their total.
Ranged == site \in {"ranges", "short"}

NoAsk == [start |-> 0, end |-> -1, ranged |-> FALSE, head |-> FALSE]

IsAsk(a) ==
  /\ a \in [start : 0..StreamLen, end : -1..StreamLen, ranged : BOOLEAN, head : BOOLEAN]
  /\ a.end = -1 \/ a.end >= a.start

\* The last byte ffmpeg is promised.
LastOf(end) == IF end < 0 \/ end >= StreamLen THEN StreamLen - 1 ELSE end

\* The bytes from a, as many as there are.
From(bytes, a) == bytes \in Seq(Int) /\ \A i \in 1..Len(bytes) : bytes[i] = a + i - 1

\* The strengthening, per place: once the headers are out, the request's end is the last byte
\* there is to send, and what is sent and the piece at hand go up to it and no further.
Promised ==
  /\ ask.end \in ask.start..(StreamLen - 1) /\ total = StreamLen
  /\ reply.status \in {200, 206} /\ reply.length = ask.end - ask.start + 1

RelayInv ==
  /\ breaks \in Nat /\ total \in {0, StreamLen}
  /\ IsAsk(ask) /\ pos \in Int /\ From(relayed, ask.start) /\ Len(relayed) = pos - ask.start
  /\ relay \in {"idle", "first", "copy", "next", "ended", "broken"}
  /\ relay \in {"idle", "first"} => relayed = <<>>
  /\ relay \in {"copy", "next", "broken"} => ~ask.head
  /\ relay \in {"copy", "next"} =>
       /\ Promised /\ pos <= ask.end
       /\ From(piece, pos) /\ pos + Len(piece) <= ask.end + 1
  /\ relay = "copy" => Len(piece) > 0
  /\ relay = "ended" /\ ~ask.head /\ reply.status # 502 => Promised /\ pos = ask.end + 1
  /\ relay = "broken" => breaks > 0

-----------------------------------------------------------------------------

LEMMA SpanIs ==
  ASSUME NEW a \in Nat, NEW b \in Int, b >= a - 1
  PROVE  From(Span(a, b), a) /\ Len(Span(a, b)) = b - a + 1
<1>1. b - a + 1 \in Nat
  OBVIOUS
<1>2. Span(a, b) \in [1..(b - a + 1) -> Int]
  BY DEF Span
<1>3. Span(a, b) \in Seq(Int) /\ Len(Span(a, b)) = b - a + 1
  BY <1>1, <1>2
<1>4. \A i \in 1..(b - a + 1) : Span(a, b)[i] = a + i - 1
  BY <1>1 DEF Span
<1> QED BY <1>3, <1>4 DEF From

\* A site that serves ranges sends bytes from where it was asked to, at least one and none
\* beyond what was asked for.
LEMMA RangedAnswers ==
  ASSUME Ranged, NEW p \in Nat, NEW end \in -1..StreamLen, end >= 0 => p <= end, p < StreamLen
  PROVE  LET a == SiteAnswers(p, LastByte(p, end)) IN
         /\ a.status = 206 /\ a.total = StreamLen
         /\ From(a.bytes, p) /\ Len(a.bytes) > 0 /\ p + Len(a.bytes) <= LastOf(end) + 1
<1> DEFINE last == LastByte(p, end)  a == SiteAnswers(p, last)  hi == Min2(last, StreamLen - 1)
<1>1. StreamLen \in Nat /\ Chunk \in Nat \ {0}
  BY RelayAssumption DEF RelayAssumption
<1>2. last \in Int /\ last >= p /\ (end >= 0 => last <= end)
  BY <1>1 DEF LastByte
<1>3. hi \in Int /\ hi >= p /\ hi <= LastOf(end)
  BY <1>1, <1>2 DEF Min2, LastOf
<1>4. CASE site = "ranges"
  <2>1. a = [status |-> 206, bytes |-> Span(p, hi), total |-> StreamLen]
    BY <1>1, <1>4 DEF SiteAnswers
  <2>2. From(Span(p, hi), p) /\ Len(Span(p, hi)) = hi - p + 1
    <3> HIDE DEF hi
    <3> QED BY <1>3, SpanIs
  <2>3. LastOf(end) \in Int
    BY <1>1 DEF LastOf
  <2> HIDE DEF hi
  <2> QED BY <1>3, <2>1, <2>2, <2>3
<1>5. CASE site = "short"
  <2>1. a = [status |-> 206, bytes |-> <<p>>, total |-> StreamLen]
    BY <1>1, <1>5 DEF SiteAnswers
  <2>2. From(<<p>>, p) /\ Len(<<p>>) = 1
    BY DEF From
  <2>3. p <= LastOf(end) /\ LastOf(end) \in Int
    BY <1>1 DEF LastOf
  <2> QED BY <2>1, <2>2, <2>3
<1> QED BY <1>4, <1>5 DEF Ranged

LEMMA BeyondTheEnd ==
  ASSUME Ranged, NEW p \in Nat, NEW last, p >= StreamLen
  PROVE  SiteAnswers(p, last).status = 416
<1>1. StreamLen \in Nat /\ site # "whole" /\ ~(p < StreamLen)
  BY RelayAssumption DEF RelayAssumption, Ranged
<1>2. SiteAnswers(p, last) = [status |-> 416, bytes |-> <<>>, total |-> 0]
  BY <1>1 DEF SiteAnswers
<1> QED BY <1>2

\* The bytes sent so far and the first of a piece that goes on where they end.
LEMMA GoesOn ==
  ASSUME NEW a \in Int, NEW got, From(got, a), NEW more, NEW b, b = a + Len(got), From(more, b),
         NEW n \in 0..Len(more), NEW new, new = got \o SubSeq(more, 1, n)
  PROVE  From(new, a) /\ Len(new) = Len(got) + n
<1> DEFINE cut == SubSeq(more, 1, n)  all == got \o cut
<1>1. got \in Seq(Int) /\ more \in Seq(Int) /\ Len(got) \in Nat /\ Len(more) \in Nat /\ n \in Nat
  BY DEF From
<1>2. cut \in Seq(Int) /\ Len(cut) = n /\ \A i \in 1..n : cut[i] = more[i]
  BY <1>1
<1>3. \A i \in 1..n : cut[i] = a + Len(got) + i - 1
  BY <1>1, <1>2 DEF From
<1> HIDE DEF cut
<1>4. /\ all \in Seq(Int) /\ Len(all) = Len(got) + n
      /\ \A i \in 1..Len(got) : all[i] = got[i]
      /\ \A i \in (Len(got) + 1)..(Len(got) + n) : all[i] = cut[i - Len(got)]
  <2>1. all \in Seq(Int) /\ Len(all) = Len(got) + n
    BY <1>1, <1>2, ConcatProperties
  <2>2. \A i \in 1..Len(got) : all[i] = got[i]
    BY <1>1, <1>2, ConcatProperties
  <2>3. \A i \in (Len(got) + 1)..(Len(got) + n) : all[i] = cut[i - Len(got)]
    BY <1>1, <1>2, ConcatProperties
  <2> QED BY <2>1, <2>2, <2>3
<1> HIDE DEF all
<1>5. \A i \in 1..Len(all) : all[i] = a + i - 1
  <2> TAKE i \in 1..Len(all)
  <2>1. CASE i <= Len(got)
    BY <1>1, <1>4, <2>1 DEF From
  <2>2. CASE i > Len(got)
    <3>1. i - Len(got) \in 1..n /\ i \in (Len(got) + 1)..(Len(got) + n)
      BY <1>1, <1>4, <2>2
    <3>2. all[i] = a + Len(got) + (i - Len(got)) - 1
      BY <1>3, <1>4, <3>1
    <3> QED BY <1>1, <3>2
  <2> QED BY <1>1, <2>1, <2>2
<1>6. From(all, a) /\ Len(all) = Len(got) + n
  BY <1>4, <1>5 DEF From
<1> QED BY <1>6 DEF all, cut

LEMMA RelayInvMeans == ASSUME Ranged => RelayInv PROVE RelayedExactly
<1> SUFFICES ASSUME RelayInv, ~ask.head
             PROVE  /\ \A i \in 1..Len(relayed) : relayed[i] = ask.start + i - 1
                    /\ (relay = "ended" /\ reply.status # 502) =>
                         Len(relayed) = reply.length /\ reply.length = Min2(ask.end, StreamLen - 1) - ask.start + 1
                    /\ (relay = "broken") => breaks > 0
  BY DEF RelayedExactly, Ranged
<1>1. StreamLen \in Nat \ {0}
  BY RelayAssumption DEF RelayAssumption
<1>2. relay = "ended" /\ reply.status # 502 => 
        Len(relayed) = reply.length /\ reply.length = Min2(ask.end, StreamLen - 1) - ask.start + 1
  BY <1>1 DEF RelayInv, Promised, Min2, IsAsk
<1> QED BY <1>2 DEF RelayInv, From

LEMMA RelayInitHolds == ASSUME RelayInit PROVE RelayInv
<1>1. StreamLen \in Nat \ {0}
  BY RelayAssumption DEF RelayAssumption
<1>2. ask = NoAsk /\ NoAsk.start = 0 /\ IsAsk(NoAsk)
  BY <1>1 DEF RelayInit, NoAsk, IsAsk
<1>3. From(relayed, ask.start) /\ Len(relayed) = 0
  BY <1>2 DEF RelayInit, From
<1>4. breaks = 0 /\ total = 0 /\ pos = 0 /\ relay = "idle" /\ relayed = <<>> /\ ask.start = 0
  BY <1>2 DEF RelayInit
<1> QED BY <1>1, <1>2, <1>3, <1>4 DEF RelayInv

LEMMA RequestKeeps == ASSUME RelayInv, Request PROVE RelayInv'
<1>1. PICK start \in 0..StreamLen, end \in -1..StreamLen, ranged \in BOOLEAN, head \in BOOLEAN :
        /\ end = -1 \/ end >= start
        /\ ask' = [start |-> IF head THEN 0 ELSE start, end |-> IF head THEN -1 ELSE end,
                   ranged |-> ranged, head |-> head]
        /\ pos' = ask'.start
  BY DEF Request
<1>2. relay = "idle" /\ relay' = "first" /\ UNCHANGED <<total, relayed, breaks>> /\ relayed = <<>>
  BY DEF Request, RelayInv
<1>3. StreamLen \in Nat
  BY RelayAssumption DEF RelayAssumption
<1>4. IsAsk(ask') /\ pos' \in Int
  BY <1>1, <1>3 DEF IsAsk
<1>5. From(relayed', ask'.start) /\ Len(relayed') = 0
  BY <1>2 DEF From
<1> QED BY <1>1, <1>2, <1>4, <1>5 DEF RelayInv, IsAsk

LEMMA FirstPieceKeeps == ASSUME RelayInv, Ranged, FirstPiece PROVE RelayInv'
<1> DEFINE a == SiteAnswers(pos, LastByte(pos, ask.end))
           length == Told(a, pos)
           end == EndOf(ask.end, length)
<1>1. /\ StreamLen \in Nat \ {0} /\ relay = "first" /\ relayed = <<>> /\ IsAsk(ask) /\ breaks \in Nat
      /\ pos = ask.start /\ pos \in Nat /\ total \in {0, StreamLen} /\ UNCHANGED <<pos, relayed, breaks>>
      /\ ask.end \in -1..StreamLen /\ (ask.end = -1 \/ ask.end >= ask.start)
  <2>1. relayed = <<>> => Len(relayed) = 0
    OBVIOUS
  <2> QED BY <2>1, RelayAssumption DEF RelayAssumption, RelayInv, FirstPiece, IsAsk
<1>2. CASE pos >= StreamLen
  <2>1. a.status = 416
    BY <1>1, <1>2, BeyondTheEnd
  <2>2. reply' = [status |-> 502, length |-> -1] /\ relay' = "ended" /\ UNCHANGED <<total, ask, piece>>
    BY <2>1 DEF FirstPiece
  <2>3. reply'.status = 502
    BY <2>2
  <2> QED BY <1>1, <2>2, <2>3 DEF RelayInv
<1>3. CASE pos < StreamLen
  <2>1. /\ a.status = 206 /\ a.total = StreamLen /\ From(a.bytes, pos) /\ Len(a.bytes) > 0
        /\ pos + Len(a.bytes) <= LastOf(ask.end) + 1
    <3>1. ask.end >= 0 => pos <= ask.end
      BY <1>1
    <3>2. pos \in Nat /\ pos < StreamLen /\ ask.end \in -1..StreamLen
      BY <1>1, <1>3
    <3>3. Ranged
      OBVIOUS
    <3> HIDE DEF length, end
    <3>4. a.status = 206 /\ a.total = StreamLen
      BY <3>1, <3>2, <3>3, RangedAnswers
    <3>5. From(a.bytes, pos) /\ Len(a.bytes) > 0
      BY <3>1, <3>2, <3>3, RangedAnswers
    <3>6. pos + Len(a.bytes) <= LastOf(ask.end) + 1
      <4>1. pos \in Int /\ Len(a.bytes) \in Int /\ LastOf(ask.end) \in Int
        BY <1>1, <3>2, <3>5 DEF From, LastOf
      <4> QED BY <3>1, <3>2, <3>3, <4>1, RangedAnswers
    <3> QED BY <3>4, <3>5, <3>6
  <2>2. length = StreamLen
    BY <1>1, <2>1 DEF Told
  <2>3. end = LastOf(ask.end) /\ end \in ask.start..(StreamLen - 1) /\ end \in -1..StreamLen
    BY <1>1, <1>3, <2>2 DEF EndOf, LastOf
  <2>4. /\ total' = length /\ ask' = [ask EXCEPT !.end = end]
        /\ reply' = [status |-> IF ask.ranged /\ length > 0 THEN 206 ELSE 200,
                     length |-> IF length > 0 THEN end - ask.start + 1 ELSE -1]
        /\ piece' = a.bytes /\ relay' = IF ask.head THEN "ended" ELSE "copy"
    BY <2>1 DEF FirstPiece
  <2> HIDE DEF a, length, end
  <2>5. /\ reply'.status \in {200, 206} /\ reply'.length = end - ask.start + 1
    BY <1>1, <2>2, <2>4
  <2>6. /\ IsAsk(ask') /\ ask'.start = ask.start /\ ask'.end = end /\ ask'.head = ask.head
    BY <1>1, <2>3, <2>4 DEF IsAsk
  <2>7. Promised'
    BY <2>2, <2>3, <2>4, <2>5, <2>6 DEF Promised
  <2>8. pos' <= ask'.end /\ pos' + Len(piece') <= ask'.end + 1 /\ From(piece', pos') /\ Len(piece') > 0
    BY <1>1, <2>1, <2>3, <2>4, <2>6
  <2>9. relay' \in {"ended", "copy"} /\ (relay' = "copy" => ~ask'.head) /\ (~ask'.head => relay' = "copy")
    BY <2>4, <2>6
  <2> QED BY <1>1, <2>2, <2>4, <2>6, <2>7, <2>8, <2>9 DEF RelayInv
<1> QED BY <1>1, <1>2, <1>3

\* In a promised answer there is always room for the piece at hand.
LEMMA RoomForIt ==
  ASSUME RelayInv, relay \in {"copy", "next"}
  PROVE  Len(piece) \in Nat /\ Min2(Len(piece), Room) = Len(piece)
<1>1. /\ StreamLen \in Nat /\ ask.start \in Nat /\ ask.end \in ask.start..(StreamLen - 1) /\ pos \in Int
      /\ reply.length = ask.end - ask.start + 1 /\ Len(relayed) = pos - ask.start
      /\ Len(piece) \in Nat /\ pos + Len(piece) <= ask.end + 1
  BY RelayAssumption DEF RelayAssumption, RelayInv, Promised, IsAsk, From
<1>2. Room = ask.end + 1 - pos
  <2>1. reply.length \in Nat /\ ~(reply.length < 0) /\ ask.end \in Int
    BY <1>1
  <2>2. Room = reply.length - Len(relayed)
    BY <2>1 DEF Room
  <2>3. \A s, e, p \in Int : (e - s + 1) - (p - s) = e + 1 - p
    OBVIOUS
  <2>4. Room = (ask.end - ask.start + 1) - (pos - ask.start) /\ ask.start \in Int
    BY <1>1, <2>2
  <2> HIDE DEF Room
  <2> QED BY <1>1, <2>1, <2>3, <2>4
<1> QED BY <1>1, <1>2 DEF Min2

LEMMA CopyKeeps == ASSUME RelayInv, CopyPiece PROVE RelayInv'
<1> DEFINE n == Len(piece)
<1>1. /\ relay = "copy" /\ Promised /\ From(relayed, ask.start) /\ Len(relayed) = pos - ask.start
      /\ From(piece, pos) /\ n > 0 /\ pos + n <= ask.end + 1 /\ ~ask.head /\ pos \in Int
      /\ breaks \in Nat /\ IsAsk(ask)
  BY DEF CopyPiece, RelayInv
<1>2. n \in Nat /\ Min2(Len(piece), Room) = n
  BY <1>1, RoomForIt
<1>3. /\ relayed' = relayed \o SubSeq(piece, 1, n) /\ pos' = pos + n /\ piece' = <<>>
      /\ relay' = (IF total <= 0 \/ pos + n > ask.end THEN "ended" ELSE "next")
      /\ UNCHANGED <<ask, total, reply, breaks>>
  BY <1>2 DEF CopyPiece
<1>4. StreamLen \in Nat \ {0} /\ ask.start \in Int /\ ask.end \in Int /\ total = StreamLen
  BY <1>1, RelayAssumption DEF RelayAssumption, IsAsk, Promised
<1>5. From(relayed', ask.start) /\ Len(relayed') = Len(relayed) + n
  <2>1. pos = ask.start + Len(relayed) /\ From(piece, pos) /\ n \in 0..Len(piece)
    <3>1. pos = ask.start + Len(relayed)
      BY <1>1, <1>4
    <3> QED BY <1>1, <1>2, <3>1
  <2> HIDE DEF n
  <2>2. From(relayed, ask.start) /\ ask.start \in Int /\ relayed' = relayed \o SubSeq(piece, 1, n)
    BY <1>1, <1>3, <1>4
  <2>3. From(relayed', ask.start)
    BY <2>1, <2>2, GoesOn
  <2>4. Len(relayed) \in Int /\ n \in Int /\ Len(relayed') \in Int
    BY <1>2, <2>2, <2>3 DEF From
  <2>5. Len(relayed') = Len(relayed) + n
    BY <2>1, <2>2, <2>4, GoesOn
  <2> QED BY <2>3, <2>5
<1> HIDE DEF n
<1>6. pos' \in Int /\ Len(relayed') = pos' - ask.start
  BY <1>1, <1>2, <1>3, <1>4, <1>5
<1>7. Promised'
  BY <1>1, <1>3 DEF Promised
<1>8. /\ (relay' = "ended" => pos' = ask.end + 1)
      /\ (relay' = "next" => pos' <= ask.end)
      /\ relay' \in {"ended", "next"}
  <2>1. relay' = IF pos + n > ask.end THEN "ended" ELSE "next"
    BY <1>3, <1>4
  <2>2. \A p, e \in Int : p <= e + 1 => (p > e => p = e + 1) /\ (~(p > e) => p <= e)
    OBVIOUS
  <2>3. pos + n \in Int /\ pos + n <= ask.end + 1
    BY <1>1, <1>2
  <2> QED BY <1>3, <1>4, <2>1, <2>2, <2>3
<1>9. From(piece', pos') /\ Len(piece') = 0
  BY <1>3 DEF From
<1>10. ask' = ask /\ total' = StreamLen /\ breaks' = breaks /\ reply' = reply
  BY <1>3, <1>4
<1>11. relay' # "broken" /\ relay' # "copy" /\ relay' \notin {"idle", "first"}
  BY <1>8
<1>12. relay' = "next" => pos' + Len(piece') <= ask.end + 1
  BY <1>4, <1>6, <1>8, <1>9
<1> QED BY <1>1, <1>4, <1>5, <1>6, <1>7, <1>8, <1>9, <1>10, <1>11, <1>12 DEF RelayInv

LEMMA NextKeeps == ASSUME RelayInv, Ranged, NextPiece PROVE RelayInv'
<1> DEFINE a == SiteAnswers(pos, LastByte(pos, ask.end))
<1>1. /\ relay = "next" /\ Promised /\ pos <= ask.end /\ ~ask.head /\ pos \in Int /\ IsAsk(ask)
      /\ Len(relayed) = pos - ask.start /\ From(relayed, ask.start)
      /\ StreamLen \in Nat \ {0} /\ ask.end \in ask.start..(StreamLen - 1)
  BY RelayAssumption DEF RelayAssumption, RelayInv, NextPiece, Promised
<1>2. pos \in Nat /\ pos < StreamLen /\ ask.end \in -1..StreamLen /\ LastOf(ask.end) = ask.end
  <2>1. ask.start \in Nat /\ Len(relayed) \in Nat
    BY <1>1 DEF IsAsk, From
  <2> QED BY <1>1, <2>1 DEF LastOf
<1>3. /\ a.status = 206 /\ a.total = StreamLen /\ From(a.bytes, pos) /\ Len(a.bytes) > 0
      /\ pos + Len(a.bytes) <= LastOf(ask.end) + 1
  BY <1>1, <1>2, RangedAnswers
<1>4. /\ relay' = "copy" /\ total' = Told(a, pos) /\ piece' = a.bytes
      /\ UNCHANGED <<ask, reply, pos, relayed, breaks>>
  BY <1>3 DEF NextPiece
<1> HIDE DEF a
<1>5. total' = StreamLen
  BY <1>1, <1>3, <1>4 DEF Told
<1>6. Promised'
  BY <1>1, <1>4, <1>5 DEF Promised
<1> QED BY <1>1, <1>2, <1>3, <1>4, <1>5, <1>6 DEF RelayInv

LEMMA BreaksKeep == ASSUME RelayInv, Breaks PROVE RelayInv'
<1>1. /\ relay \in {"copy", "next"} /\ relay' = "broken" /\ breaks' = breaks + 1 /\ breaks \in Nat
      /\ UNCHANGED <<ask, total, reply>> /\ ~ask.head /\ From(relayed, ask.start) /\ IsAsk(ask)
      /\ Len(relayed) = pos - ask.start /\ pos \in Int /\ ask.start \in Int /\ Len(relayed) \in Nat
  BY DEF Breaks, RelayInv, IsAsk, From
<1>2. PICK n \in 0..Min2(Len(piece), Room) : relayed' = relayed \o SubSeq(piece, 1, n) /\ pos' = pos + n
  BY DEF Breaks
<1>3. n \in Int /\ From(relayed', ask.start) /\ Len(relayed') = Len(relayed) + n
  <2>1. From(piece, pos) /\ Len(piece) \in Nat /\ n \in 0..Len(piece)
    BY <1>1, RoomForIt DEF RelayInv
  <2>2. pos = ask.start + Len(relayed) /\ From(piece, pos)
    <3>1. pos = ask.start + Len(relayed)
      BY <1>1
    <3> QED BY <2>1, <3>1
  <2>3. From(relayed, ask.start) /\ ask.start \in Int /\ relayed' = relayed \o SubSeq(piece, 1, n)
    BY <1>1, <1>2
  <2>4. From(relayed', ask.start)
    BY <2>1, <2>2, <2>3, GoesOn
  <2>5. Len(relayed) \in Int /\ n \in Int /\ Len(relayed') \in Int
    BY <2>1, <2>3, <2>4 DEF From
  <2>6. Len(relayed') = Len(relayed) + n
    BY <2>1, <2>2, <2>3, <2>5, GoesOn
  <2> QED BY <2>4, <2>5, <2>6
<1>4. pos' \in Int /\ Len(relayed') = pos' - ask.start
  BY <1>1, <1>2, <1>3
<1> QED BY <1>1, <1>3, <1>4 DEF RelayInv

LEMMA OverKeeps == ASSUME RelayInv, RelayOver PROVE RelayInv'
<1>1. StreamLen \in Nat \ {0}
  BY RelayAssumption DEF RelayAssumption
<1>2. ask' = NoAsk /\ NoAsk.start = 0 /\ IsAsk(NoAsk)
  BY <1>1 DEF RelayOver, NoAsk, IsAsk
<1>3. From(relayed', ask'.start) /\ Len(relayed') = 0
  BY <1>2 DEF RelayOver, From
<1>4. breaks' = breaks /\ total' = total /\ pos' = 0 /\ relay' = "idle" /\ relayed' = <<>> /\ ask'.start = 0
  BY <1>2 DEF RelayOver
<1> QED BY <1>1, <1>2, <1>3, <1>4 DEF RelayInv

\* From a site that serves ranges, the invariant holds from the first request on.
THEOREM RelayInvHolds == RelaySpec => [](Ranged => RelayInv)
<1> DEFINE Inv == Ranged => RelayInv
<1>1. RelayInit => Inv
  BY RelayInitHolds
<1>2. Inv /\ [RelayNext]_relayVars => Inv'
  <2> SUFFICES ASSUME Inv, [RelayNext]_relayVars, Ranged' PROVE RelayInv'
    OBVIOUS
  <2>1. site' = site
    BY DEF RelayNext, relayVars, Request, FirstPiece, CopyPiece, NextPiece, Breaks, RelayOver
  <2>2. Ranged /\ RelayInv
    BY <2>1 DEF Ranged
  <2>3. CASE UNCHANGED relayVars
    BY <2>2, <2>3 DEF relayVars, RelayInv, Promised
  <2> QED BY <2>2, <2>3, RequestKeeps, FirstPieceKeeps, CopyKeeps, NextKeeps, BreaksKeep, OverKeeps
          DEF RelayNext
<1> QED BY <1>1, <1>2, PTL DEF RelaySpec

\* RelayedExactly (relay.go): the bytes ffmpeg asked for, in order and without a gap or a repeat,
\* as many as the headers promised, for streams and pieces of any length and however often the
\* network breaks.
THEOREM RelayedExactlyHolds == RelaySpec => []RelayedExactly
<1>1. (Ranged => RelayInv) => RelayedExactly
  BY RelayInvMeans
<1> QED BY <1>1, RelayInvHolds, PTL

-----------------------------------------------------------------------------
(* The page's player *)

SessionFields == {"kind", "picked", "listed", "opened", "plays", "viaRelay"}

IsSession(s) == DOMAIN s = SessionFields /\ s = [f \in SessionFields |-> s[f]]

\* The strengthening: the page's list is the one of the phase it was made in, so that a
\* number is looked up in the list it was taken from.
PlayInv ==
  /\ shown = [phase |-> shown.phase, files |-> shown.files]
  /\ shown.files \subseteq Listing(shown.phase)
  /\ \E S : session \in Seq(S)
  /\ \A i \in 1..Opened : IsSession(session[i])
  /\ PlaysThePicked

-----------------------------------------------------------------------------

LEMMA ChosenFinite == IsFiniteSet(Chosen)
<1>1. IsFiniteSet(1..Len(TorrentOrder))
  BY PlayAssumption, FS_Interval DEF PlayAssumption
<1> QED BY <1>1, PlayAssumption, FS_Subset DEF PlayAssumption

\* Two files with one number in the finished job's list have one name: the places by name
\* tell names apart.
LEMMA OnePerPlace ==
  ASSUME NEW i \in Chosen, NEW k \in Chosen,
         Cardinality({j \in Chosen : TorrentOrder[j] <= TorrentOrder[i]})
           = Cardinality({j \in Chosen : TorrentOrder[j] <= TorrentOrder[k]})
  PROVE  TorrentOrder[i] = TorrentOrder[k]
<1> DEFINE Upto(n) == {j \in Chosen : TorrentOrder[j] <= n}
<1>1. \A j \in Chosen : TorrentOrder[j] \in Nat
  BY PlayAssumption DEF PlayAssumption
<1>2. \A n : IsFiniteSet(Upto(n))
  BY ChosenFinite, FS_Subset
<1>3. ASSUME NEW a \in Chosen, NEW b \in Chosen, TorrentOrder[a] < TorrentOrder[b],
             Cardinality(Upto(TorrentOrder[a])) = Cardinality(Upto(TorrentOrder[b]))
      PROVE  FALSE
  <2>1. Upto(TorrentOrder[a]) \subseteq Upto(TorrentOrder[b])
    BY <1>1, <1>3
  <2>2. Upto(TorrentOrder[a]) = Upto(TorrentOrder[b])
    <3> HIDE DEF Upto
    <3> QED BY <1>2, <1>3, <2>1, FS_Subset
  <2>3. b \in Upto(TorrentOrder[b]) /\ b \notin Upto(TorrentOrder[a])
    BY <1>1, <1>3
  <2> QED BY <2>2, <2>3
<1>4. Cardinality(Upto(TorrentOrder[i])) = Cardinality(Upto(TorrentOrder[k]))
  OBVIOUS
<1> HIDE DEF Upto
<1>5. ~(TorrentOrder[i] < TorrentOrder[k]) /\ ~(TorrentOrder[k] < TorrentOrder[i])
  BY <1>3, <1>4
<1> QED BY <1>1, <1>5

\* resolveMedia finds the file that jobFiles listed under the number.
LEMMA ResolvesWhatIsListed ==
  ASSUME NEW f \in Listing(phase)
  PROVE  Resolved(f.file) = f.name
<1>1. CASE phase = "running"
  <2>1. PICK i \in Chosen : f = [file |-> i, name |-> TorrentOrder[i]]
    BY <1>1 DEF Listing
  <2> QED BY <1>1, <2>1 DEF Resolved
<1>2. CASE phase = "finished"
  <2> DEFINE place(i) == Cardinality({j \in Chosen : TorrentOrder[j] <= TorrentOrder[i]})
             g == CHOOSE x \in Listing(phase) : x.file = f.file
  <2>1. Listing(phase) = {[file |-> place(i), name |-> TorrentOrder[i]] : i \in Chosen}
    BY <1>2 DEF Listing
  <2>2. \A i, k \in Chosen : place(i) = place(k) => TorrentOrder[i] = TorrentOrder[k]
    BY OnePerPlace
  <2> HIDE DEF place
  <2>3. \A x, y \in Listing(phase) : x.file = y.file => x.name = y.name
    BY <2>1, <2>2
  <2>4. g \in Listing(phase) /\ g.file = f.file
    OBVIOUS
  <2>5. g.name = f.name
    <3> HIDE DEF g
    <3> QED BY <2>3, <2>4
  <2>6. Resolved(f.file) = g.name
    BY <1>2 DEF Resolved
  <2> QED BY <2>5, <2>6
<1>3. CASE phase \notin {"running", "finished"}
  BY <1>3 DEF Listing
<1> QED BY <1>1, <1>2, <1>3

LEMMA PlayInitHolds == ASSUME PlayInit PROVE PlayInv
<1>1. Opened = 0 /\ session \in Seq({})
  BY DEF PlayInit, Opened
<1>2. shown = [phase |-> "running", files |-> {}]
  BY DEF PlayInit
<1> QED BY <1>1, <1>2 DEF PlayInv, PlaysThePicked

\* A step that opens no session and makes no list.
LEMMA NothingPicked ==
  ASSUME PlayInv, shown' = shown, session' = session
  PROVE  PlayInv'
<1>1. Listing(shown.phase)' = Listing(shown.phase)
  BY DEF Listing
<1> QED BY <1>1 DEF PlayInv, PlaysThePicked, Opened

LEMMA ListFilesKeeps == ASSUME PlayInv, ListFiles PROVE PlayInv'
<1>1. shown' = [phase |-> phase, files |-> Listing(phase)] /\ session' = session
  BY DEF ListFiles
<1>2. shown'.phase = phase /\ shown'.files = Listing(phase)
  BY <1>1
<1>3. Listing(shown.phase)' = Listing(phase)
  BY <1>2 DEF Listing
<1> QED BY <1>1, <1>2, <1>3 DEF PlayInv, PlaysThePicked, Opened

LEMMA OpenKeeps ==
  ASSUME PlayInv, NEW s, IsSession(s), s.listed = s.opened => s.plays = s.picked, Open(s)
  PROVE  PlayInv'
<1>1. session' = Append(session, s) /\ shown' = shown
  BY DEF Open
<1>2. PICK S : session \in Seq(S)
  BY DEF PlayInv
<1>3. session \in Seq(S \cup {s})
  BY <1>2
<1>4. /\ session' \in Seq(S \cup {s}) /\ Len(session) \in Nat /\ Len(session') = Len(session) + 1
      /\ session'[Len(session) + 1] = s /\ \A i \in 1..Len(session) : session'[i] = session[i]
  BY <1>1, <1>3
<1>5. \A i \in 1..Opened' : IsSession(session'[i]) /\ (session'[i].listed = session'[i].opened => session'[i].plays = session'[i].picked)
  <2> TAKE i \in 1..Opened'
  <2>1. CASE i = Len(session) + 1
    BY <1>4, <2>1
  <2>2. CASE i # Len(session) + 1
    <3>1. i \in 1..Opened
      BY <1>4, <2>2 DEF Opened
    <3>2. session'[i] = session[i]
      BY <1>4, <3>1 DEF Opened
    <3> QED BY <3>1, <3>2 DEF PlayInv, PlaysThePicked
  <2> QED BY <2>1, <2>2
<1>6. Listing(shown.phase)' = Listing(shown.phase)
  BY <1>1 DEF Listing
<1>7. \E T : session' \in Seq(T)
  BY <1>4
<1> QED BY <1>1, <1>5, <1>6, <1>7 DEF PlayInv, PlaysThePicked, IsSession

LEMMA OpenFileKeeps == ASSUME PlayInv, OpenFile \/ OpenLink PROVE PlayInv'
<1>1. CASE OpenFile
  <2>1. PICK f \in shown.files :
          Open([kind |-> "file", picked |-> f.name, listed |-> shown.phase, opened |-> phase,
                plays |-> Resolved(f.file), viaRelay |-> NoTarget])
    BY <1>1 DEF OpenFile
  <2> DEFINE s == [kind |-> "file", picked |-> f.name, listed |-> shown.phase, opened |-> phase,
                   plays |-> Resolved(f.file), viaRelay |-> NoTarget]
  <2>2. IsSession(s)
    BY DEF IsSession, SessionFields
  <2>3. s.listed = s.opened => s.plays = s.picked
    <3>1. ASSUME shown.phase = phase PROVE Resolved(f.file) = f.name
      <4>1. f \in Listing(phase)
        BY <3>1 DEF PlayInv
      <4> QED BY <4>1, ResolvesWhatIsListed
    <3> QED BY <3>1
  <2>4. Open(s)
    BY <2>1
  <2> HIDE DEF s
  <2> QED BY <2>2, <2>3, <2>4, OpenKeeps
<1>2. CASE OpenLink
  <2> DEFINE s == [kind |-> "link", picked |-> 0, listed |-> phase, opened |-> phase, plays |-> 0,
                   viaRelay |-> NoTarget]
  <2>1. IsSession(s) /\ s.plays = s.picked
    BY DEF IsSession, SessionFields
  <2>2. Open(s)
    BY <1>2 DEF OpenLink
  <2> HIDE DEF s
  <2> QED BY <2>1, <2>2, OpenKeeps
<1> QED BY <1>1, <1>2

LEMMA StoreKeeps == ASSUME PlayInv, NEW q \in Req, Store(q) PROVE PlayInv'
<1> DEFINE k == req[q].of  v == req[q].via  new == [session[k] EXCEPT !.viaRelay = v]
<1>1. shown' = shown /\ session' = [session EXCEPT ![k].viaRelay = v]
  BY DEF Store
<1>2. PICK S : session \in Seq(S)
  BY DEF PlayInv
<1>3. CASE k \notin 1..Opened
  <2>1. session' = session
    BY <1>1, <1>2, <1>3 DEF Opened
  <2> QED BY <1>1, <2>1, NothingPicked
<1>4. CASE k \in 1..Opened
  <2>1. IsSession(session[k])
    BY <1>4 DEF PlayInv
  <2>2. /\ IsSession(new) /\ new.listed = session[k].listed /\ new.opened = session[k].opened
        /\ new.plays = session[k].plays /\ new.picked = session[k].picked
    BY <2>1 DEF IsSession, SessionFields
  <2>3. session' = [session EXCEPT ![k] = new]
    BY <1>1
  <2> HIDE DEF new, k
  <2>4. session \in Seq(S \cup {new})
    BY <1>2
  <2>5. session' \in Seq(S \cup {new}) /\ Len(session') = Len(session) /\ session'[k] = new
        /\ \A i \in 1..Len(session) : i # k => session'[i] = session[i]
    BY <1>4, <2>3, <2>4 DEF Opened
  <2>6. \A i \in 1..Opened' : IsSession(session'[i]) /\ (session'[i].listed = session'[i].opened => session'[i].plays = session'[i].picked)
    BY <1>4, <2>2, <2>5 DEF PlayInv, PlaysThePicked, Opened
  <2>7. Listing(shown.phase)' = Listing(shown.phase)
    BY <1>1 DEF Listing
  <2>8. \E T : session' \in Seq(T)
    BY <2>5
  <2> QED BY <1>1, <2>6, <2>7, <2>8 DEF PlayInv, PlaysThePicked, IsSession
<1> QED BY <1>3, <1>4

\* The invariant holds from the first step on.
THEOREM PlayInvHolds == PlaySpec => []PlayInv
<1>1. PlayInit => PlayInv
  BY PlayInitHolds
<1>2. PlayInv /\ [PlayNext]_playVars => PlayInv'
  <2> SUFFICES ASSUME PlayInv, [PlayNext]_playVars PROVE PlayInv'
    OBVIOUS
  <2>1. CASE UNCHANGED playVars \/ JobStep \/ Tick
    BY <2>1, NothingPicked DEF playVars, JobStep, Tick
  <2>2. CASE ListFiles
    BY <2>2, ListFilesKeeps
  <2>3. CASE OpenFile \/ OpenLink
    BY <2>3, OpenFileKeeps
  <2>4. CASE \E s \in Live : HandleLink(s) \/ \E q \in Req : HandleStream(q, s) \/ HandleSubs(q, s)
    BY <2>4, NothingPicked DEF HandleLink, HandleStream, HandleSubs
  <2>5. CASE \E q \in Req, l \in links : ExternalLink(q, l)
    BY <2>5, NothingPicked DEF ExternalLink
  <2>6. ASSUME NEW q \in Req, Store(q) PROVE PlayInv'
    BY <2>6, StoreKeeps
  <2>7. ASSUME NEW q \in Req, Input(q) \/ Register(q) \/ Acquire(q) \/ GiveUp(q) \/ PipeFails(q) \/ PipeEnds(q)
        PROVE  PlayInv'
    BY <2>7, NothingPicked DEF Input, Register, Acquire, GiveUp, PipeFails, PipeEnds
  <2> QED BY <2>1, <2>2, <2>3, <2>4, <2>5, <2>6, <2>7 DEF PlayNext
<1> QED BY <1>1, <1>2, PTL DEF PlaySpec

\* PlaysThePicked (jobFiles, resolveMedia): a session plays the file picked in the page's list
\* as long as the job was in the same state, for any torrent and any choice of its files.
THEOREM PlaysThePickedHolds == PlaySpec => []PlaysThePicked
<1>1. PlayInv => PlaysThePicked
  BY DEF PlayInv
<1> QED BY <1>1, PlayInvHolds, PTL

-----------------------------------------------------------------------------
(* A batch of links *)

\* A set of numbers has a least one: induction, without the operator it is usually stated with.
LEMMA LeastNumber ==
  ASSUME NEW T, T \subseteq Nat, T # {}
  PROVE  \E m \in T : \A k \in T : m <= k
<1>1. PICK m \in T : \A k \in T : ~ (<<k, m>> \in OpToRel(<, Nat))
  BY NatLessThanWellFounded, WFMin
<1>2. ASSUME NEW k \in T PROVE m <= k
  <2>1. ~ (<<k, m>> \in {ss \in Nat \X Nat : ss[1] < ss[2]})
    BY <1>1 DEF OpToRel
  <2> QED BY <2>1
<1> QED BY <1>2

\* One of the numbered names is free, of any number of used ones.
LEMMA OneIsFree ==
  ASSUME NEW used, IsFiniteSet(used), NEW name \in Name
  PROVE  \E k \in 2 .. Cardinality(used) + 2 : Append(name, k) \notin used
<1> SUFFICES ASSUME \A k \in 2 .. Cardinality(used) + 2 : Append(name, k) \in used
             PROVE  FALSE
  OBVIOUS
<1> DEFINE c == Cardinality(used)
           tries == [k \in 2 .. c + 2 |-> Append(name, k)]
<1>1. c \in Nat
  BY FS_CardinalityType
<1>2. tries \in [2 .. c + 2 -> used]
  OBVIOUS
<1>3. IsFiniteSet(2 .. c + 2) /\ Cardinality(2 .. c + 2) = c + 1
  BY <1>1, FS_Interval
<1>4. \A x, y \in 2 .. c + 2 : tries[x] = tries[y] => x = y
  <2> SUFFICES ASSUME NEW x \in 2 .. c + 2, NEW y \in 2 .. c + 2, Append(name, x) = Append(name, y)
               PROVE  x = y
    OBVIOUS
  <2>1. Len(name) + 1 \in Nat
    BY DEF Name
  <2>2. Append(name, x)[Len(name) + 1] = x /\ Append(name, y)[Len(name) + 1] = y
    BY <1>1 DEF Name
  <2> QED BY <2>2
<1> HIDE DEF tries
<1>5. c < c + 1
  BY <1>1
<1>6. \E x, y \in 2 .. c + 2 : x # y /\ tries[x] = tries[y]
  BY <1>2, <1>3, <1>5, FS_PigeonHole
<1> QED BY <1>4, <1>6

\* UniqueName: the name it gives is a name, and is not used.
LEMMA UniqueNameIsFree ==
  ASSUME NEW used, IsFiniteSet(used), NEW name \in Name
  PROVE  UniqueName(used, name) \in Name /\ UniqueName(used, name) \notin used
<1>1. CASE name \notin used
  BY <1>1 DEF UniqueName
<1>2. CASE name \in used
  <2> DEFINE Free == {k \in 2 .. Cardinality(used) + 2 : Append(name, k) \notin used}
             least == CHOOSE k \in Free : \A j \in Free : k <= j
  <2>1. UniqueName(used, name) = Append(name, least)
    BY <1>2 DEF UniqueName
  <2>2. Free # {}
    BY OneIsFree
  <2>3. Free \subseteq Nat
    BY FS_CardinalityType
  <2>4. \E k \in Free : \A j \in Free : k <= j
    <3> HIDE DEF Free
    <3> QED BY <2>2, <2>3, LeastNumber
  <2>5. least \in Free
    <3> HIDE DEF Free
    <3> QED BY <2>4
  <2>6. least \in Nat /\ Append(name, least) \notin used
    BY <2>3, <2>5
  <2> HIDE DEF least
  <2> QED BY <2>1, <2>6 DEF Name
<1> QED BY <1>1, <1>2

-----------------------------------------------------------------------------
\* What URLOutputs computes, link after link.
Outputs(names, k, f) ==
  f = [i \in 1 .. k |-> UniqueName({f[j] : j \in 1 .. i - 1}, names[i])]

\* There is such a list for every number of names.
LEMMA OutputsExist ==
  ASSUME NEW names, NEW n \in Nat
  PROVE  \E f : Outputs(names, n, f)
<1> DEFINE Bad == {k \in Nat : ~\E f : Outputs(names, k, f)}
<1> SUFFICES ASSUME Bad # {} PROVE FALSE
  OBVIOUS
<1>1. Bad \subseteq Nat
  OBVIOUS
<1>2. PICK m \in Bad : \A k \in Bad : m <= k
  <2> HIDE DEF Bad
  <2> QED BY <1>1, LeastNumber
<1>3. CASE m = 0
  <2> DEFINE g == [i \in 1 .. 0 |-> i]
  <2>1. g = [i \in 1 .. 0 |-> UniqueName({g[j] : j \in 1 .. i - 1}, names[i])]
    OBVIOUS
  <2> HIDE DEF g
  <2>2. Outputs(names, 0, g)
    BY <2>1 DEF Outputs
  <2> QED BY <1>3, <2>2
<1>4. CASE m # 0
  <2>1. m \in Nat /\ m - 1 \in Nat /\ ~ (m <= m - 1)
    BY <1>4
  <2>2. PICK g : Outputs(names, m - 1, g)
    BY <1>2, <2>1
  <2>3. /\ DOMAIN g = 1 .. m - 1
        /\ \A i \in 1 .. m - 1 : g[i] = UniqueName({g[j] : j \in 1 .. i - 1}, names[i])
    BY <2>2 DEF Outputs
  <2> DEFINE h == [i \in 1 .. m |-> IF i = m THEN UniqueName({g[j] : j \in 1 .. m - 1}, names[m])
                                   ELSE g[i]]
  <2>4. ASSUME NEW i \in 1 .. m PROVE {h[j] : j \in 1 .. i - 1} = {g[j] : j \in 1 .. i - 1}
    <3>1. \A j \in 1 .. i - 1 : h[j] = g[j]
      BY <2>1
    <3> HIDE DEF h
    <3> QED BY <3>1
  <2>5. ASSUME NEW i \in 1 .. m PROVE h[i] = UniqueName({h[j] : j \in 1 .. i - 1}, names[i])
    <3>1. CASE i = m
      <4>1. h[m] = UniqueName({g[j] : j \in 1 .. m - 1}, names[m])
        BY <2>1
      <4> HIDE DEF h
      <4> QED BY <2>4, <3>1, <4>1
    <3>2. CASE i # m
      <4>1. h[i] = g[i] /\ i \in 1 .. m - 1
        BY <2>1, <3>2
      <4> HIDE DEF h
      <4>2. h[i] = UniqueName({g[j] : j \in 1 .. i - 1}, names[i])
        BY <2>3, <4>1
      <4> QED BY <2>4, <4>2
    <3> QED BY <3>1, <3>2
  <2>6. DOMAIN h = 1 .. m /\ h = [i \in 1 .. m |-> h[i]]
    OBVIOUS
  <2> HIDE DEF h
  <2>7. h = [i \in 1 .. m |-> UniqueName({h[j] : j \in 1 .. i - 1}, names[i])]
    BY <2>5, <2>6
  <2>8. Outputs(names, m, h)
    BY <2>7 DEF Outputs
  <2> QED BY <2>8
<1> QED BY <1>3, <1>4

LEMMA URLOutputsIs ==
  ASSUME NEW n \in Nat, NEW names \in [1 .. n -> Name]
  PROVE  Outputs(names, n, URLOutputs(names))
<1>1. URLOutputs(names) = CHOOSE f : f = [i \in DOMAIN names |-> UniqueName({f[j] : j \in 1 .. i - 1}, names[i])]
  BY DEF URLOutputs
<1>2. DOMAIN names = 1 .. n
  OBVIOUS
<1>3. URLOutputs(names) = CHOOSE f : Outputs(names, n, f)
  BY <1>1, <1>2 DEF Outputs
<1> QED BY <1>3, OutputsExist

\* URLOutputs: every link has a name, and no two have the same.
LEMMA URLOutputsApart ==
  ASSUME NEW n \in Nat, NEW names \in [1 .. n -> Name]
  PROVE  /\ URLOutputs(names) \in [1 .. n -> Name]
         /\ \A i, j \in 1 .. n : i # j => URLOutputs(names)[i] # URLOutputs(names)[j]
<1> DEFINE f == URLOutputs(names)
           before(i) == {f[j] : j \in 1 .. i - 1}
<1>1. Outputs(names, n, f)
  BY URLOutputsIs
<1> HIDE DEF f
<1>2. ASSUME NEW i \in 1 .. n PROVE IsFiniteSet(before(i))
  <2> DEFINE g == [j \in 1 .. i - 1 |-> f[j]]
  <2>1. g \in Surjection(1 .. i - 1, before(i))
    BY DEF Surjection
  <2>2. IsFiniteSet(1 .. i - 1)
    BY FS_Interval
  <2> HIDE DEF g, before
  <2> QED BY <2>1, <2>2, FS_Surjection
<1>3. ASSUME NEW i \in 1 .. n PROVE f[i] \in Name /\ f[i] \notin before(i)
  <2>1. f[i] = UniqueName(before(i), names[i])
    BY <1>1 DEF Outputs
  <2>2. names[i] \in Name
    OBVIOUS
  <2> HIDE DEF before
  <2> QED BY <1>2, <2>1, <2>2, UniqueNameIsFree
<1>4. DOMAIN f = 1 .. n /\ f = [i \in 1 .. n |-> f[i]]
  BY <1>1 DEF Outputs
<1>5. f \in [1 .. n -> Name]
  BY <1>3, <1>4
<1>6. ASSUME NEW i \in 1 .. n, NEW j \in 1 .. n, j < i PROVE f[j] # f[i]
  BY <1>3, <1>6
<1>7. \A i, j \in 1 .. n : i # j => f[i] # f[j]
  BY <1>6
<1> QED BY <1>5, <1>7 DEF f

-----------------------------------------------------------------------------
Requests == Seq([link : Link, out : Name])
Batches == [id : Nat, reqs : Requests, next : Nat \ {0}, started : SUBSET Nat, failed : SUBSET Nat]
Jobs == [batch : Nat, n : Nat, link : Link, out : Name]

BatchTypes ==
  /\ batch \in [Client -> Batches] /\ added \in SUBSET Jobs
  /\ sent \in [batches : Nat, lost : Nat]

\* The requests of a batch are of different files.
Apart(reqs) == \A i, j \in DOMAIN reqs : i # j => reqs[i].out # reqs[j].out

\* No batch has the number of another, nor of one that was reported; only those sent have jobs.
BatchesAreNumbered ==
  /\ \A c \in Client : batch[c].id <= sent.batches /\ (batch[c].id = 0 => batch[c] = NoBatch)
  /\ \A c, d \in Client : c # d /\ batch[c].id = batch[d].id => batch[c].id = 0
  /\ \A a \in added : a.batch <= sent.batches /\ a.batch # 0

\* A job of a batch that is under way is that of a request it has sent.
JobsAreSent ==
  \A c \in Client : \A a \in added : a.batch = batch[c].id =>
    /\ a.n \in DOMAIN batch[c].reqs /\ a.n < batch[c].next
    /\ a.link = batch[c].reqs[a.n].link /\ a.out = batch[c].reqs[a.n].out

BatchInv ==
  /\ BatchTypes /\ (\A c \in Client : Apart(batch[c].reqs))
  /\ BatchesAreNumbered /\ JobsAreSent /\ BatchKeepsApart

\* A batch with some of its fields changed is a batch.
LEMMA BatchesClosed ==
  ASSUME NEW b \in Batches, NEW k \in Nat \ {0}, NEW r \in Requests, NEW S \in SUBSET Nat
  PROVE  /\ [b EXCEPT !.id = k, !.reqs = r] \in Batches
         /\ [b EXCEPT !.next = k, !.started = S] \in Batches
         /\ [b EXCEPT !.next = k, !.failed = S] \in Batches
BY DEF Batches

LEMMA NoBatchIs == NoBatch \in Batches /\ NoBatch.id = 0 /\ NoBatch.started = {} /\ Apart(NoBatch.reqs)
BY DEF NoBatch, Batches, Requests, Apart

LEMMA BatchInitInv == BatchInit => BatchInv
<1> SUFFICES ASSUME BatchInit PROVE BatchInv
  OBVIOUS
<1>1. batch = [c \in Client |-> NoBatch] /\ added = {} /\ sent \in [batches : Nat, lost : Nat] /\ sent.batches = 0
  BY DEF BatchInit
<1>2. \A c \in Client : batch[c] = NoBatch
  BY <1>1
<1>3. BatchTypes
  BY <1>1, NoBatchIs DEF BatchTypes
<1>4. BatchesAreNumbered
  BY <1>1, <1>2, NoBatchIs DEF BatchesAreNumbered
<1>5. JobsAreSent
  BY <1>1 DEF JobsAreSent
<1>6. BatchKeepsApart
  BY <1>1, <1>2, NoBatchIs DEF BatchKeepsApart
<1> QED BY <1>2, <1>3, <1>4, <1>5, <1>6, NoBatchIs DEF BatchInv

LEMMA StartBatchKeeps ==
  ASSUME BatchInv, NEW c \in Client, StartBatch(c)
  PROVE  BatchInv'
<1> DEFINE Starting(n, urls, names) ==
             /\ \A i \in 1 .. n : names[i] \in FromURL(urls[i])
             /\ batch' = [batch EXCEPT ![c].id = sent.batches + 1,
                  ![c].reqs = [i \in 1 .. n |-> [link |-> urls[i], out |-> URLOutputs(names)[i]]]]
           Named == UNION {FromURL(l) : l \in Link}
<1>1. \E n \in 1 .. MaxLinks : \E urls \in [1 .. n -> Link] : \E names \in [1 .. n -> Named] :
        Starting(n, urls, names)
  BY DEF StartBatch
<1> HIDE DEF Starting
<1>a. PICK n \in 1 .. MaxLinks : \E urls \in [1 .. n -> Link] : \E names \in [1 .. n -> Named] :
        Starting(n, urls, names)
  BY <1>1
<1>b. PICK urls \in [1 .. n -> Link] : \E names \in [1 .. n -> Named] : Starting(n, urls, names)
  BY <1>a
<1>c. PICK names \in [1 .. n -> Named] : Starting(n, urls, names)
  BY <1>b
<1> DEFINE outs == URLOutputs(names)
           reqs == [i \in 1 .. n |-> [link |-> urls[i], out |-> outs[i]]]
<1>2. n \in Nat
  BY BatchAssumption DEF BatchAssumption
<1>3. names \in [1 .. n -> Name]
  <2>1. \A l \in Link : FromURL(l) \subseteq Name
    BY BatchAssumption DEF BatchAssumption, FromURL
  <2> QED BY <2>1
<1>4. outs \in [1 .. n -> Name] /\ \A i, j \in 1 .. n : i # j => outs[i] # outs[j]
  BY <1>2, <1>3, URLOutputsApart
<1>5. batch' = [batch EXCEPT ![c].id = sent.batches + 1, ![c].reqs = reqs]
  BY <1>c DEF Starting
<1> HIDE DEF outs
<1>6. reqs \in Requests
  BY <1>2, <1>4 DEF Requests
<1>7. Apart(reqs)
  BY <1>4 DEF Apart
<1> HIDE DEF reqs
<1>8. added' = added /\ sent' = [sent EXCEPT !.batches = @ + 1] /\ batch[c] = NoBatch
  BY DEF StartBatch
<1>9. BatchTypes /\ sent.batches \in Nat
  BY DEF BatchInv, BatchTypes
<1>10. sent' \in [batches : Nat, lost : Nat] /\ sent'.batches = sent.batches + 1
  BY <1>8, <1>9 DEF BatchTypes
<1>11. /\ batch'[c].id = sent.batches + 1 /\ batch'[c].reqs = reqs /\ batch'[c].started = {}
       /\ \A d \in Client : d # c => batch'[d] = batch[d]
  BY <1>5, <1>8, <1>9, NoBatchIs DEF BatchTypes, Batches
<1>12. BatchTypes'
  <2> DEFINE b == [batch[c] EXCEPT !.id = sent.batches + 1, !.reqs = reqs]
  <2>a. batch[c] \in Batches /\ sent.batches + 1 \in Nat \ {0}
    BY <1>9 DEF BatchTypes
  <2>b. b \in Batches
    BY <1>6, <2>a, BatchesClosed
  <2>c. batch' = [batch EXCEPT ![c] = b]
    BY <1>5, <1>9 DEF BatchTypes
  <2> HIDE DEF b
  <2>1. batch' \in [Client -> Batches]
    BY <1>9, <2>b, <2>c DEF BatchTypes
  <2> QED BY <2>1, <1>8, <1>9, <1>10 DEF BatchTypes
<1>13. \A d \in Client : Apart(batch'[d].reqs)
  BY <1>7, <1>11 DEF BatchInv
<1>14. \A d \in Client : batch[d].id \in Nat /\ batch[d].id <= sent.batches
  BY <1>9 DEF BatchInv, BatchTypes, BatchesAreNumbered, Batches
<1>15. \A a \in added : a.batch \in Nat /\ a.batch <= sent.batches
  BY <1>9 DEF BatchInv, BatchTypes, BatchesAreNumbered, Jobs
<1>16. BatchesAreNumbered'
  <2>1. ASSUME NEW d \in Client PROVE batch'[d].id <= sent'.batches /\ (batch'[d].id = 0 => batch'[d] = NoBatch)
    <3>1. CASE d = c
      BY <1>9, <1>10, <1>11, <3>1
    <3>2. CASE d # c
      BY <1>9, <1>10, <1>11, <1>14, <3>2 DEF BatchInv, BatchesAreNumbered
    <3> QED BY <3>1, <3>2
  <2>2. ASSUME NEW d \in Client, NEW e \in Client, d # e, batch'[d].id = batch'[e].id PROVE batch'[d].id = 0
    <3>1. CASE d # c /\ e # c
      BY <1>11, <2>2, <3>1 DEF BatchInv, BatchesAreNumbered
    <3>2. CASE d = c \/ e = c
      BY <1>9, <1>11, <1>14, <2>2, <3>2
    <3> QED BY <3>1, <3>2
  <2>3. \A a \in added' : a.batch <= sent'.batches /\ a.batch # 0
    BY <1>8, <1>9, <1>10, <1>15 DEF BatchInv, BatchesAreNumbered
  <2> QED BY <2>1, <2>2, <2>3 DEF BatchesAreNumbered
<1>17. JobsAreSent'
  <2> SUFFICES ASSUME NEW d \in Client, NEW a \in added, a.batch = batch'[d].id
               PROVE  /\ a.n \in DOMAIN batch'[d].reqs /\ a.n < batch'[d].next
                      /\ a.link = batch'[d].reqs[a.n].link /\ a.out = batch'[d].reqs[a.n].out
    BY <1>8 DEF JobsAreSent
  <2>1. d # c
    BY <1>9, <1>11, <1>15
  <2> QED BY <1>11, <2>1 DEF BatchInv, JobsAreSent
<1>18. BatchKeepsApart'
  BY <1>8, <1>11 DEF BatchInv, BatchKeepsApart
<1> QED BY <1>12, <1>13, <1>16, <1>17, <1>18 DEF BatchInv

\* A request is answered: what that does to the batch.
LEMMA AnsweredIs ==
  ASSUME BatchInv, NEW c \in Client, NEW what \in {"started", "failed"}, Sending(c), Answered(c, what)
  PROVE  /\ batch' \in [Client -> Batches] /\ \A d \in Client : d # c => batch'[d] = batch[d]
         /\ batch'[c].id = batch[c].id /\ batch'[c].reqs = batch[c].reqs
         /\ batch'[c].next = batch[c].next + 1
         /\ batch'[c].started = IF what = "started" THEN batch[c].started \cup {batch[c].next}
                                ELSE batch[c].started
         /\ batch[c].next \in DOMAIN batch[c].reqs /\ batch[c].next \in Nat
         /\ batch[c].id # 0 /\ batch[c].id \in Nat
<1>1. batch \in [Client -> Batches]
  BY DEF BatchInv, BatchTypes
<1>2. batch' = [batch EXCEPT ![c].next = @ + 1, ![c][what] = @ \cup {batch[c].next}]
  BY DEF Answered
<1>3. batch[c].reqs \in Seq([link : Link, out : Name]) /\ batch[c].next \in Nat \ {0} /\ batch[c].id \in Nat
  BY <1>1 DEF Batches, Requests
<1>4. batch[c].next \in DOMAIN batch[c].reqs
  BY <1>3 DEF Sending
<1>5. batch[c].id # 0
  <2>1. batch[c] # NoBatch
    BY <1>4 DEF NoBatch
  <2> QED BY <2>1 DEF BatchInv, BatchesAreNumbered
<1>6. CASE what = "started"
  <2> DEFINE b == [batch[c] EXCEPT !.next = @ + 1, !.started = @ \cup {batch[c].next}]
  <2>1. batch' = [batch EXCEPT ![c] = b]
    BY <1>1, <1>2, <1>6
  <2>2. /\ b \in Batches /\ b.id = batch[c].id /\ b.reqs = batch[c].reqs /\ b.next = batch[c].next + 1
        /\ b.started = batch[c].started \cup {batch[c].next}
    <3>1. /\ batch[c] \in Batches /\ batch[c].next + 1 \in Nat \ {0}
          /\ batch[c].started \cup {batch[c].next} \in SUBSET Nat
      BY <1>1, <1>3 DEF Batches
    <3>2. batch[c].reqs \in Requests
      BY <1>3 DEF Requests
    <3>3. b \in Batches
      BY <3>1, <3>2, BatchesClosed
    <3> QED BY <3>1, <3>3 DEF Batches
  <2> HIDE DEF b
  <2>3. batch' \in [Client -> Batches] /\ batch'[c] = b /\ \A d \in Client : d # c => batch'[d] = batch[d]
    BY <1>1, <2>1, <2>2
  <2> QED BY <1>3, <1>4, <1>5, <1>6, <2>2, <2>3
<1>7. CASE what = "failed"
  <2> DEFINE b == [batch[c] EXCEPT !.next = @ + 1, !.failed = @ \cup {batch[c].next}]
  <2>1. batch' = [batch EXCEPT ![c] = b]
    BY <1>1, <1>2, <1>7
  <2>2. /\ b \in Batches /\ b.id = batch[c].id /\ b.reqs = batch[c].reqs /\ b.next = batch[c].next + 1
        /\ b.started = batch[c].started
    <3>1. /\ batch[c] \in Batches /\ batch[c].next + 1 \in Nat \ {0}
          /\ batch[c].failed \cup {batch[c].next} \in SUBSET Nat
      BY <1>1, <1>3 DEF Batches
    <3>2. batch[c].reqs \in Requests
      BY <1>3 DEF Requests
    <3>3. b \in Batches
      BY <3>1, <3>2, BatchesClosed
    <3> QED BY <3>1, <3>3 DEF Batches
  <2> HIDE DEF b
  <2>3. batch' \in [Client -> Batches] /\ batch'[c] = b /\ \A d \in Client : d # c => batch'[d] = batch[d]
    BY <1>1, <2>1, <2>2
  <2> QED BY <1>3, <1>4, <1>5, <1>7, <2>2, <2>3
<1> QED BY <1>6, <1>7

\* The job of a request that is answered is of a file no other job of the batch has.
LEMMA MakesJob ==
  ASSUME BatchInv, NEW c \in Client, NEW what \in {"started", "failed"}, Sending(c), Answered(c, what),
         added' = added \cup {[batch |-> batch[c].id, n |-> batch[c].next,
                    link |-> batch[c].reqs[batch[c].next].link, out |-> batch[c].reqs[batch[c].next].out]},
         sent' \in [batches : Nat, lost : Nat], sent'.batches = sent.batches
  PROVE  BatchInv'
<1> DEFINE new == [batch |-> batch[c].id, n |-> batch[c].next,
                   link |-> batch[c].reqs[batch[c].next].link, out |-> batch[c].reqs[batch[c].next].out]
<1>1. /\ batch' \in [Client -> Batches] /\ \A d \in Client : d # c => batch'[d] = batch[d]
      /\ batch'[c].id = batch[c].id /\ batch'[c].reqs = batch[c].reqs
      /\ batch'[c].next = batch[c].next + 1
      /\ batch'[c].started = IF what = "started" THEN batch[c].started \cup {batch[c].next}
                             ELSE batch[c].started
      /\ batch[c].next \in DOMAIN batch[c].reqs /\ batch[c].next \in Nat
      /\ batch[c].id # 0 /\ batch[c].id \in Nat
  BY AnsweredIs
<1>2. /\ batch \in [Client -> Batches] /\ added \in SUBSET Jobs
      /\ \A d \in Client : batch[d].reqs \in Seq([link : Link, out : Name])
  BY DEF BatchInv, BatchTypes, Batches, Requests
<1>3. batch[c].reqs[batch[c].next] \in [link : Link, out : Name]
  <2>1. \A S : \A s \in Seq(S) : \A i \in DOMAIN s : s[i] \in S
    OBVIOUS
  <2> QED BY <1>1, <1>2, <2>1, Zenon
<1>4. new \in Jobs
  BY <1>1, <1>3 DEF Jobs
<1>5. /\ new.batch = batch[c].id /\ new.n = batch[c].next
      /\ new.link = batch[c].reqs[new.n].link /\ new.out = batch[c].reqs[new.n].out
  OBVIOUS
<1>6. added' = added \cup {new}
  OBVIOUS
<1> HIDE DEF new
<1>7. BatchTypes'
  BY <1>1, <1>2, <1>4, <1>6 DEF BatchTypes
<1>8. \A d \in Client : Apart(batch'[d].reqs)
  BY <1>1 DEF BatchInv
<1>9. \A d \in Client : batch'[d].id = batch[d].id /\ batch'[d].reqs = batch[d].reqs
  BY <1>1
<1>10. BatchesAreNumbered'
  <2>1. \A d \in Client : batch'[d].id <= sent'.batches /\ (batch'[d].id = 0 => batch'[d] = NoBatch)
    BY <1>1 DEF BatchInv, BatchesAreNumbered
  <2>2. \A d, e \in Client : d # e /\ batch'[d].id = batch'[e].id => batch'[d].id = 0
    BY <1>9 DEF BatchInv, BatchesAreNumbered
  <2>3. \A a \in added' : a.batch <= sent'.batches /\ a.batch # 0
    BY <1>1, <1>5, <1>6 DEF BatchInv, BatchesAreNumbered
  <2> QED BY <2>1, <2>2, <2>3 DEF BatchesAreNumbered
<1>11. ASSUME NEW d \in Client, d # c PROVE batch[d].id # batch[c].id
  BY <1>1, <1>11 DEF BatchInv, BatchesAreNumbered
<1>12. JobsAreSent'
  <2> SUFFICES ASSUME NEW d \in Client, NEW a \in added', a.batch = batch[d].id
               PROVE  /\ a.n \in DOMAIN batch[d].reqs /\ a.n < batch'[d].next
                      /\ a.link = batch[d].reqs[a.n].link /\ a.out = batch[d].reqs[a.n].out
    BY <1>9 DEF JobsAreSent
  <2>1. CASE a = new
    <3>1. d = c
      BY <1>5, <1>11, <2>1
    <3> QED BY <1>1, <1>5, <2>1, <3>1
  <2>2. CASE a \in added
    <3>1. /\ a.n \in DOMAIN batch[d].reqs /\ a.n < batch[d].next /\ a.n \in Nat
          /\ a.link = batch[d].reqs[a.n].link /\ a.out = batch[d].reqs[a.n].out
      BY <1>2, <2>2 DEF BatchInv, JobsAreSent, Jobs
    <3>2. CASE d = c
      BY <1>1, <3>1, <3>2
    <3>3. CASE d # c
      BY <1>1, <3>1, <3>3
    <3> QED BY <3>2, <3>3
  <2> QED BY <1>6, <2>1, <2>2
<1>13. BatchKeepsApart'
  <2>1. ASSUME NEW a \in added, a.batch = new.batch PROVE a.out # new.out
    <3>1. /\ a.n \in DOMAIN batch[c].reqs /\ a.n < batch[c].next /\ a.n \in Nat
          /\ a.out = batch[c].reqs[a.n].out
      BY <1>2, <1>5, <2>1 DEF BatchInv, JobsAreSent, Jobs
    <3>2. a.n # batch[c].next
      BY <1>1, <3>1
    <3>3. batch[c].reqs[a.n].out # batch[c].reqs[batch[c].next].out
      BY <1>1, <3>1, <3>2 DEF BatchInv, Apart
    <3> QED BY <1>5, <3>1, <3>3
  <2>2. \A a, b \in added' : a.batch = b.batch /\ a.out = b.out => a = b
    BY <1>6, <2>1 DEF BatchInv, BatchKeepsApart
  <2>3. ASSUME NEW d \in Client, NEW i \in batch'[d].started
        PROVE  \E a \in added' : a.batch = batch'[d].id /\ a.n = i
    <3>1. CASE i \in batch[d].started
      <4>1. \E a \in added : a.batch = batch[d].id /\ a.n = i
        BY <3>1 DEF BatchInv, BatchKeepsApart
      <4> QED BY <1>6, <1>9, <4>1
    <3>2. CASE i \notin batch[d].started
      <4>1. d = c /\ i = batch[c].next
        BY <1>1, <2>3, <3>2
      <4> QED BY <1>1, <1>5, <1>6, <4>1
    <3> QED BY <3>1, <3>2
  <2> QED BY <2>2, <2>3 DEF BatchKeepsApart
<1> QED BY <1>7, <1>8, <1>10, <1>12, <1>13 DEF BatchInv

LEMMA StartsKeeps ==
  ASSUME BatchInv, NEW c \in Client, Starts(c)
  PROVE  BatchInv'
<1>1. sent' \in [batches : Nat, lost : Nat] /\ sent'.batches = sent.batches
  BY DEF Starts, BatchInv, BatchTypes
<1> QED BY <1>1, MakesJob DEF Starts

LEMMA AnswerLostKeeps ==
  ASSUME BatchInv, NEW c \in Client, AnswerLost(c)
  PROVE  BatchInv'
<1>1. sent' \in [batches : Nat, lost : Nat] /\ sent'.batches = sent.batches
  BY DEF AnswerLost, BatchInv, BatchTypes
<1> QED BY <1>1, MakesJob DEF AnswerLost

LEMMA RefusedKeeps ==
  ASSUME BatchInv, NEW c \in Client, Refused(c)
  PROVE  BatchInv'
<1>1. /\ batch' \in [Client -> Batches] /\ \A d \in Client : d # c => batch'[d] = batch[d]
      /\ batch'[c].id = batch[c].id /\ batch'[c].reqs = batch[c].reqs
      /\ batch'[c].next = batch[c].next + 1 /\ batch'[c].started = batch[c].started
      /\ batch[c].next \in Nat /\ batch[c].id # 0
  BY AnsweredIs DEF Refused
<1>2. added' = added /\ sent' = sent
  BY DEF Refused
<1>3. \A d \in Client : /\ batch'[d].id = batch[d].id /\ batch'[d].reqs = batch[d].reqs
                        /\ batch'[d].started = batch[d].started
  BY <1>1
<1>4. BatchTypes' /\ \A d \in Client : Apart(batch'[d].reqs)
  BY <1>1, <1>2, <1>3 DEF BatchInv, BatchTypes
<1>5. BatchesAreNumbered'
  BY <1>1, <1>2, <1>3 DEF BatchInv, BatchesAreNumbered
<1>6. JobsAreSent'
  <2> SUFFICES ASSUME NEW d \in Client, NEW a \in added, a.batch = batch[d].id
               PROVE  /\ a.n \in DOMAIN batch[d].reqs /\ a.n < batch'[d].next
                      /\ a.link = batch[d].reqs[a.n].link /\ a.out = batch[d].reqs[a.n].out
    BY <1>2, <1>3 DEF JobsAreSent
  <2>1. /\ a.n \in DOMAIN batch[d].reqs /\ a.n < batch[d].next /\ a.n \in Nat
        /\ a.link = batch[d].reqs[a.n].link /\ a.out = batch[d].reqs[a.n].out
    BY DEF BatchInv, BatchTypes, JobsAreSent, Jobs
  <2>2. CASE d = c
    BY <1>1, <2>1, <2>2
  <2>3. CASE d # c
    BY <1>1, <2>1, <2>3
  <2> QED BY <2>2, <2>3
<1>7. BatchKeepsApart'
  BY <1>2, <1>3 DEF BatchInv, BatchKeepsApart
<1> QED BY <1>4, <1>5, <1>6, <1>7 DEF BatchInv

LEMMA ReportsKeeps ==
  ASSUME BatchInv, NEW c \in Client, Reports(c)
  PROVE  BatchInv'
<1>1. batch' = [batch EXCEPT ![c] = NoBatch] /\ added' = added /\ sent' = sent
  BY DEF Reports
<1>2. BatchTypes
  BY DEF BatchInv
<1>3. batch'[c] = NoBatch /\ \A d \in Client : d # c => batch'[d] = batch[d]
  BY <1>1, <1>2 DEF BatchTypes
<1>4. BatchTypes' /\ \A d \in Client : Apart(batch'[d].reqs)
  BY <1>1, <1>2, <1>3, NoBatchIs DEF BatchInv, BatchTypes
<1>5. BatchesAreNumbered'
  <2>1. sent.batches \in Nat
    BY <1>2 DEF BatchTypes
  <2> QED BY <1>1, <1>3, <2>1, NoBatchIs DEF BatchInv, BatchesAreNumbered
<1>6. JobsAreSent'
  BY <1>1, <1>3, NoBatchIs DEF BatchInv, BatchesAreNumbered, JobsAreSent
<1>7. BatchKeepsApart'
  BY <1>1, <1>3, NoBatchIs DEF BatchInv, BatchKeepsApart
<1> QED BY <1>4, <1>5, <1>6, <1>7 DEF BatchInv

\* The links of a batch that is under way have names of their own, and its jobs, past and to
\* come, are of its requests: a batch's number is never given again.
THEOREM BatchInvHolds == BatchSpec => []BatchInv
<1>1. BatchInv /\ [BatchNext]_batchVars => BatchInv'
  <2> SUFFICES ASSUME BatchInv, [BatchNext]_batchVars PROVE BatchInv'
    OBVIOUS
  <2>1. CASE UNCHANGED batchVars
    BY <2>1 DEF batchVars, BatchInv, BatchTypes, BatchesAreNumbered, JobsAreSent, BatchKeepsApart
  <2>2. ASSUME NEW c \in Client,
               StartBatch(c) \/ Starts(c) \/ Refused(c) \/ AnswerLost(c) \/ Reports(c)
        PROVE  BatchInv'
    BY <2>2, StartBatchKeeps, StartsKeeps, RefusedKeeps, AnswerLostKeeps, ReportsKeeps
  <2> QED BY <2>1, <2>2 DEF BatchNext
<1> QED BY <1>1, BatchInitInv, PTL DEF BatchSpec

\* No two links of a batch are saved to one file, whatever they are called by their URLs and
\* their servers, and each that is reported as started has its job (jobreq.go:61-76).
THEOREM BatchKeepsApartHolds == BatchSpec => []BatchKeepsApart
<1>1. BatchInv => BatchKeepsApart
  BY DEF BatchInv
<1> QED BY <1>1, BatchInvHolds, PTL

=============================================================================
