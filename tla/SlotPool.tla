------------------------------- MODULE SlotPool -------------------------------
(***************************************************************************)
(* What the queue promises of its concurrency slots, with no threads in    *)
(* it: a job holds at most one slot, a slot is only granted while fewer    *)
(* than the limit are held, a download runs only for a job that holds a    *)
(* slot, and never twice for one job.  Scheduler implements this.          *)
(***************************************************************************)
EXTENDS Integers, FiniteSets

CONSTANTS Jobs, Workers

VARIABLES
  limit,   \* how many slots there are, 0 for no limit
  held,    \* the jobs that hold one
  working  \* per job, the workers downloading it

poolVars == <<limit, held, working>>

PoolInit ==
  /\ limit \in Nat
  /\ held = {}
  /\ working = [j \in Jobs |-> {}]

Reserve(j) ==
  /\ j \notin held
  /\ limit = 0 \/ Cardinality(held) < limit
  /\ held' = held \cup {j}
  /\ UNCHANGED <<limit, working>>

Begin(j, w) ==
  /\ j \in held /\ working[j] = {}
  /\ working' = [working EXCEPT ![j] = {w}]
  /\ UNCHANGED <<limit, held>>

End(j) ==
  /\ working[j] # {}
  /\ working' = [working EXCEPT ![j] = {}]
  /\ UNCHANGED <<limit, held>>

Release(j) ==
  /\ j \in held /\ working[j] = {}
  /\ held' = held \ {j}
  /\ UNCHANGED <<limit, working>>

\* The process dies: everything is given back at once.
LoseAll ==
  /\ held' = {}
  /\ working' = [j \in Jobs |-> {}]
  /\ UNCHANGED limit

\* A lowered limit takes no slot away.
SetLimit ==
  /\ limit' \in Nat
  /\ UNCHANGED <<held, working>>

PoolNext ==
  \/ \E j \in Jobs : Reserve(j) \/ End(j) \/ Release(j)
  \/ \E j \in Jobs, w \in Workers : Begin(j, w)
  \/ LoseAll \/ SetLimit

PoolSpec == PoolInit /\ [][PoolNext]_poolVars
=============================================================================
