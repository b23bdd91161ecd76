------------------------------ MODULE Dashboard ------------------------------
(***************************************************************************)
(* The terminal interface's list of jobs (tui/update.go, table.go,         *)
(* sort.go, anim.go, actions.go): snapshots of the daemon's jobs arrive    *)
(* while a cursor, checkmarks and a question about removal refer to them,  *)
(* actions on several jobs are on their way, and a loop of frames moves    *)
(* what is drawn.                                                          *)
(***************************************************************************)
EXTENDS Naturals, FiniteSets, SequencesExt

CONSTANTS MaxJobs, MaxListMoves, MaxBulks \* bounds

VARIABLES
  listed,  \* the daemon's jobs, oldest first
  table,   \* statusModel: rows, cursor, selected, sort, what is asked, the footer
  bulk,    \* the actions on their way, each with the jobs left to act on
  anim,    \* animState: whether something eases, whether it ticks, and the ticks in flight
  listOps  \* what happened so far, against the bounds

dashVars == <<listed, table, bulk, anim, listOps>>

Moving == {"active", "seeding"}
Status == Moving \cup {"paused", "completed"}
Order == {"newest", "status"}  \* of jobSort's seven
None == [ids |-> <<>>, purge |-> FALSE]

DashTypeOK ==
  /\ \A i \in DOMAIN listed : listed[i].id \in 1 .. MaxJobs /\ listed[i].status \in Status
  /\ table.by \in Order /\ table.cursor \in 0 .. MaxJobs /\ table.footer \in {"", "asks", "other"}
  /\ anim.flying \in Nat

Op(what, most) == listOps[what] < most /\ listOps' = [listOps EXCEPT ![what] = @ + 1]
Ids(rows) == {rows[i].id : i \in DOMAIN rows}

-----------------------------------------------------------------------------
(* Sorting, the cursor and the checkmarks *)

Rank(s) == CASE s = "active" -> 0 [] s = "seeding" -> 2 [] s = "paused" -> 3 [] OTHER -> 6 \* statusRank

\* sortJobs: equals stay newest first, whichever way round.
SortJobs(raw, by, rev) ==
  LET newest == Reverse(raw)
      Before(a, b) == IF rev THEN Rank(b.status) < Rank(a.status) ELSE Rank(a.status) < Rank(b.status)
      Place(i) == 1 + Cardinality({k \in DOMAIN newest :
                        Before(newest[k], newest[i]) \/ (k < i /\ ~Before(newest[i], newest[k]))})
  IN  IF by = "newest" THEN IF rev THEN raw ELSE newest
      ELSE [p \in DOMAIN raw |-> newest[CHOOSE i \in DOMAIN newest : Place(i) = p]]

\* cursorJob: the table clamps its cursor, to none when there are no rows.
CursorJob(t) == IF t.cursor \in DOMAIN t.rows THEN {t.rows[t.cursor]} ELSE {}

PruneSelected(t, rows) == t.selected \cap Ids(rows)

\* Mutant: the cursor stays on its row.
CursorByRow(t, rows) ==
  IF t.cursor > Len(rows) THEN Len(rows) ELSE IF t.cursor = 0 /\ rows # <<>> THEN 1 ELSE t.cursor

\* The cursor stays on its job, or goes to the top.
CursorById(t, rows) ==
  LET Same == {i \in DOMAIN rows : \E j \in CursorJob(t) : rows[i].id = j.id}
  IN  IF rows = <<>> THEN 0 ELSE IF Same = {} THEN 1 ELSE CHOOSE i \in Same : TRUE

\* applyJobs.
ApplyJobs(t, raw) ==
  LET rows == SortJobs(raw, t.by, t.rev)
  IN  [t EXCEPT !.raw = raw, !.rows = rows, !.err = FALSE,
                !.selected = PruneSelected(t, rows), !.cursor = CursorById(t, rows)]

\* actionTargets: what is checked, in the order shown, or the job under the cursor.
ActionTargets(t) ==
  IF t.selected # {}
  THEN LET rows == SelectSeq(t.rows, LAMBDA r : r.id \in t.selected) IN [i \in DOMAIN rows |-> rows[i].id]
  ELSE IF CursorJob(t) = {} THEN <<>> ELSE <<t.rows[t.cursor].id>>

-----------------------------------------------------------------------------
(* The frames *)

NeedsFrames(rows, easing) == easing \/ \E i \in DOMAIN rows : rows[i].status \in Moving

\* kick: starts the loop if it is needed and not running.
Kick(rows, easing) ==
  LET starts == ~anim.ticking /\ NeedsFrames(rows, easing)
  IN  anim' = [easing |-> easing, ticking |-> anim.ticking \/ starts,
               flying |-> anim.flying + IF starts THEN 1 ELSE 0]

\* A snapshot: what it changes in a row eases there.
JobsArrive ==
  /\ table.raw # listed \/ table.err
  /\ table' = ApplyJobs(table, listed)
  /\ \E easing \in {anim.easing, table.raw # listed} : Kick(table'.rows, easing)
  /\ UNCHANGED <<listed, bulk, listOps>>

\* A frame: the springs come to rest in some frame or other.
AnimTick ==
  /\ anim.flying > 0
  /\ \E easing \in {FALSE, anim.easing} :
       LET again == NeedsFrames(table.rows, easing)
       IN  anim' = [easing |-> easing, ticking |-> again, flying |-> IF again THEN anim.flying ELSE anim.flying - 1]
  /\ UNCHANGED <<listed, table, bulk, listOps>>

SubscriptionFails ==
  /\ ~table.err /\ table' = [table EXCEPT !.err = TRUE]
  /\ UNCHANGED <<listed, bulk, anim, listOps>>

-----------------------------------------------------------------------------
(* The keys *)

Key(t) == table' = t /\ UNCHANGED <<listed, bulk, anim, listOps>>
Idle == table.asks = None

MoveCursor == Idle /\ \E i \in DOMAIN table.rows : Key([table EXCEPT !.cursor = i, !.footer = ""])

\* "t" and "T".
Sort ==
  /\ Idle
  /\ \/ \E by \in Order \ {table.by} : Key(ApplyJobs([table EXCEPT !.by = by, !.footer = ""], table.raw))
     \/ Key(ApplyJobs([table EXCEPT !.rev = ~@, !.footer = ""], table.raw))

Check ==
  /\ Idle
  /\ \E j \in CursorJob(table) :
       Key([table EXCEPT !.footer = "",
                         !.selected = IF j.id \in @ THEN @ \ {j.id} ELSE @ \cup {j.id}])

Send(cmd, ids, t) ==
  /\ ids # <<>> /\ Op("bulks", MaxBulks)
  /\ bulk' = bulk \cup {[n |-> listOps.bulks, cmd |-> cmd, left |-> ids]}
  /\ table' = [t EXCEPT !.selected = {}]
  /\ UNCHANGED <<listed, anim>>

\* doBulkJobAction, of "p", "r", "x" and "R".
Act == Idle /\ \E cmd \in {"pause", "resume"} : Send(cmd, ActionTargets(table), [table EXCEPT !.footer = ""])

\* promptRemove, of "d" and "D".
AskRemove ==
  /\ Idle /\ ActionTargets(table) # <<>>
  /\ \E purge \in BOOLEAN :
       Key([table EXCEPT !.footer = "asks", !.asks = [ids |-> ActionTargets(table), purge |-> purge]])

\* resolveRemove and doBulkRemove; any key but y is a no.
Confirm == ~Idle /\ Send("remove", table.asks.ids, [table EXCEPT !.asks = None, !.footer = ""])
Decline == ~Idle /\ Key([table EXCEPT !.asks = None, !.footer = "other"])

-----------------------------------------------------------------------------
(* The daemon *)

Without(id) ==
  IF id \in Ids(listed) THEN RemoveAt(listed, CHOOSE i \in DOMAIN listed : listed[i].id = id) ELSE listed
Become(id, s) ==
  [i \in DOMAIN listed |-> IF listed[i].id = id THEN [listed[i] EXCEPT !.status = s] ELSE listed[i]]

\* One job of an action after the other; one that fails stops no other.
BulkStep(b) ==
  /\ b.left # <<>>
  /\ bulk' = (bulk \ {b}) \cup {[b EXCEPT !.left = Tail(@)]}
  /\ LET id == Head(b.left) IN
     listed' \in {listed, CASE b.cmd = "remove" -> Without(id) [] b.cmd = "pause" -> Become(id, "paused")
                            [] OTHER -> Become(id, "active")}
  /\ UNCHANGED <<table, anim, listOps>>

\* bulkActionDoneMsg: its result in the footer; nothing for a single job that went well.
BulkDone(b) ==
  /\ b.left = <<>> /\ bulk' = bulk \ {b}
  /\ \E footer \in {"", "other"} : table' = [table EXCEPT !.footer = footer]
  /\ UNCHANGED <<listed, anim, listOps>>

\* webJobsAction and the jobs' own steps: added, moved on, removed elsewhere.
ListMoves ==
  /\ Op("moves", MaxListMoves)
  /\ \/ listOps.moves < MaxJobs /\ listed' = Append(listed, [id |-> listOps.moves + 1, status |-> "active"])
     \/ \E i \in DOMAIN listed : \E s \in Status \ {listed[i].status} : listed' = Become(listed[i].id, s)
     \/ \E i \in DOMAIN listed : listed' = Without(listed[i].id)
  /\ UNCHANGED <<table, bulk, anim>>

DashInit ==
  /\ listed = <<>> /\ bulk = {}
  /\ table = [raw |-> <<>>, rows |-> <<>>, cursor |-> 0, selected |-> {}, by |-> "newest", rev |-> FALSE,
              asks |-> None, footer |-> "", err |-> FALSE]
  /\ anim = [easing |-> FALSE, ticking |-> FALSE, flying |-> 0]
  /\ listOps = [bulks |-> 0, moves |-> 0]

DashNext ==
  \/ JobsArrive \/ AnimTick \/ SubscriptionFails \/ MoveCursor \/ Sort \/ Check \/ Act
  \/ AskRemove \/ Confirm \/ Decline \/ ListMoves
  \/ \E b \in bulk : BulkStep(b) \/ BulkDone(b)

DashSpec == DashInit /\ [][DashNext]_dashVars

-----------------------------------------------------------------------------
(* Properties *)

\* The cursor stays on its job as long as the list has it, through snapshots and sorting
\* (update.go:19-25); it moves only by its own key.
CursorStays ==
  [][ \A j \in CursorJob(table) :
        j.id \in Ids(table'.rows) /\ ~MoveCursor => \E k \in CursorJob(table') : k.id = j.id ]_dashVars

\* dashboard_test.go:105: the question about removal is on the screen until it is answered.
PromptIsShown == table.asks # None => table.footer = "asks"

=============================================================================
