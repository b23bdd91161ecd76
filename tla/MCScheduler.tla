----------------------------- MODULE MCScheduler -----------------------------
(* Scheduler on small instances: what an earlier daemon left in the store,  *)
(* and the goroutines that are interchangeable.                             *)
EXTENDS Scheduler, TLC

Alike == Permutations(Handler)

OnePaused == {<<"paused">>}
QueuedAndPaused == {<<"queued", "paused">>}
TwoActiveToCome == {<<"active", "active", "absent">>}
=============================================================================
