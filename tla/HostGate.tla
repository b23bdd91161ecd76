------------------------------- MODULE HostGate -------------------------------
(***************************************************************************)
(* The gate that caps the requests in flight to one WebDAV host            *)
(* (internal/webdav: hostgate.go) and the 429 retries that go through it   *)
(* (retry.go).                                                             *)
(*                                                                         *)
(* A client is a goroutine that makes one request after another: a Walk's  *)
(* PROPFINDs, a folder download's GETs, of any job on that host.  Each     *)
(* critical section of the gate's mutex is one step.  Time is reduced to   *)
(* what acquire asks of it: is a cool-down in force, and has there been a  *)
(* quiet spell since the last throttling.                                  *)
(***************************************************************************)
EXTENDS Integers, Sequences, FiniteSets

CONSTANTS
  Client,        \* the goroutines
  DefaultLimit,  \* hostGateDefaultLimit
  MinLimit,      \* hostGateMinLimit
  RetryMax,      \* retry429Max
  CancelSeenAt,  \* the waits at which a cancelled context may be noticed
  MaxRequests    \* bound: how many requests are made

ASSUME HostGateAssumption ==
  /\ IsFiniteSet(Client)
  /\ DefaultLimit \in Nat /\ MinLimit \in Nat /\ MaxRequests \in Nat
  /\ RetryMax \in Nat \ {0}
  /\ 0 < MinLimit /\ MinLimit <= DefaultLimit
  /\ CancelSeenAt \subseteq {"queued", "woken", "cooling", "retrying"}

VARIABLES
  limit,     \* the ceiling: halved by a 429, widened after a quiet spell
  inFlight,  \* slots taken
  waiters,   \* the goroutines whose channels are queued, oldest first
  cool,      \* is coolUntil in the future?
  quiet,     \* was the last throttling hostGateRecoverAfter ago?
  pc,        \* where each goroutine is
  attempt,   \* which attempt of doRetrying429 it is on, from 0
  requests   \* how many requests have been begun

vars == <<limit, inFlight, waiters, cool, quiet, pc, attempt, requests>>

\* acquire: about to lock the gate; cooling: asleep until the cool-down it saw
\* is over; queued: waits for its channel; woken: its channel is closed, it has
\* not run yet; sending: holds a slot; limited: has a 429, released its slot;
\* retrying: sleeps before the next attempt.
Pc == {"idle", "acquire", "cooling", "queued", "woken", "sending", "limited", "retrying"}

\* The gate and its clients are of their types; the ceiling stays between
\* the minimum and the default (acquire, throttled).
TypeOK ==
  /\ limit \in MinLimit..DefaultLimit
  /\ inFlight \in Nat
  /\ waiters \in Seq(Client)
  /\ cool \in BOOLEAN /\ quiet \in BOOLEAN
  /\ pc \in [Client -> Pc]
  /\ attempt \in [Client -> 0..RetryMax - 1]
  /\ requests \in 0..MaxRequests

-----------------------------------------------------------------------------
(* The gate *)

Widened == IF limit < DefaultLimit /\ quiet THEN limit + 1 ELSE limit

\* Mutant: the ceiling reaches zero.
HalvedToZero == limit \div 2

Halved == IF limit \div 2 < MinLimit THEN MinLimit ELSE limit \div 2

\* wakeOne, the caller's own program counter already moved on.
WakeOne(at) ==
  IF waiters = <<>>
  THEN pc' = at /\ UNCHANGED waiters
  ELSE /\ pc' = [at EXCEPT ![Head(waiters)] = "woken"]
       /\ waiters' = Tail(waiters)

\* One turn of acquire's loop.
Acquire(c) ==
  /\ pc[c] = "acquire"
  /\ limit' = Widened
  /\ quiet' = (quiet /\ limit' = limit)
  /\ \/ /\ cool
        /\ pc' = [pc EXCEPT ![c] = "cooling"]
        /\ UNCHANGED <<inFlight, waiters>>
     \/ /\ ~cool /\ inFlight < limit'
        /\ inFlight' = inFlight + 1
        /\ pc' = [pc EXCEPT ![c] = "sending"]
        /\ UNCHANGED waiters
     \/ /\ ~cool /\ inFlight >= limit'
        /\ waiters' = Append(waiters, c)
        /\ pc' = [pc EXCEPT ![c] = "queued"]
        /\ UNCHANGED inFlight
  /\ UNCHANGED <<cool, attempt, requests>>

\* The sleep acquire made because of a cool-down, or its wait for its
\* channel, is over: it loops.
Loop(c) ==
  /\ \/ pc[c] = "cooling" /\ ~cool
     \/ pc[c] = "woken"
  /\ pc' = [pc EXCEPT ![c] = "acquire"]
  /\ UNCHANGED <<limit, inFlight, waiters, cool, quiet, attempt, requests>>

Without(i) == SubSeq(waiters, 1, i - 1) \o SubSeq(waiters, i + 1, Len(waiters))

\* Mutant: a wake-up that comes too late for its waiter is dropped.
CancelWaiterDropping(c) ==
  \/ \E i \in 1..Len(waiters) :
       /\ waiters[i] = c
       /\ waiters' = Without(i)
       /\ pc' = [pc EXCEPT ![c] = "idle"]
  \/ pc[c] = "woken" /\ pc' = [pc EXCEPT ![c] = "idle"] /\ UNCHANGED waiters

\* cancelWaiter: out of the queue, or the wake-up is passed on.
CancelWaiter(c) ==
  \/ \E i \in 1..Len(waiters) :
       /\ waiters[i] = c
       /\ waiters' = Without(i)
       /\ pc' = [pc EXCEPT ![c] = "idle"]
  \/ pc[c] = "woken" /\ WakeOne([pc EXCEPT ![c] = "idle"])

\* The context is over, and one of the selects notices.
Canceled(c) ==
  /\ pc[c] \in CancelSeenAt
  /\ IF pc[c] \in {"queued", "woken"}
     THEN CancelWaiter(c)
     ELSE pc' = [pc EXCEPT ![c] = "idle"] /\ UNCHANGED waiters
  /\ UNCHANGED <<limit, inFlight, cool, quiet, attempt, requests>>

-----------------------------------------------------------------------------
(* doRetrying429 *)

Begin(c) ==
  /\ pc[c] = "idle" /\ requests < MaxRequests
  /\ pc' = [pc EXCEPT ![c] = "acquire"]
  /\ attempt' = [attempt EXCEPT ![c] = 0]
  /\ requests' = requests + 1
  /\ UNCHANGED <<limit, inFlight, waiters, cool, quiet>>

\* do has returned a 429 or anything else, an error included; release.
Respond(c) ==
  /\ pc[c] = "sending"
  /\ inFlight' = inFlight - 1
  /\ \E next \in {"idle", "limited"} : WakeOne([pc EXCEPT ![c] = next])
  /\ UNCHANGED <<limit, cool, quiet, attempt, requests>>

\* throttled; a Retry-After of zero starts no cool-down.
Throttled(c) ==
  /\ pc[c] = "limited"
  /\ limit' = Halved
  /\ quiet' = FALSE
  /\ cool' \in {cool, TRUE}
  /\ pc' = [pc EXCEPT ![c] = "retrying"]
  /\ UNCHANGED <<inFlight, waiters, attempt, requests>>

\* The pause after an attempt is over: the next one, unless it was the last.
Again(c) ==
  /\ pc[c] = "retrying"
  /\ \/ /\ attempt[c] + 1 < RetryMax
        /\ attempt' = [attempt EXCEPT ![c] = @ + 1]
        /\ pc' = [pc EXCEPT ![c] = "acquire"]
     \/ /\ attempt[c] + 1 >= RetryMax
        /\ pc' = [pc EXCEPT ![c] = "idle"]
        /\ UNCHANGED attempt
  /\ UNCHANGED <<limit, inFlight, waiters, cool, quiet, requests>>

-----------------------------------------------------------------------------
(* Time *)

CoolDownEnds ==
  /\ cool /\ cool' = FALSE
  /\ UNCHANGED <<limit, inFlight, waiters, quiet, pc, attempt, requests>>

QuietSpell ==
  /\ ~quiet /\ quiet' = TRUE
  /\ UNCHANGED <<limit, inFlight, waiters, cool, pc, attempt, requests>>

-----------------------------------------------------------------------------
Init ==
  /\ limit = DefaultLimit
  /\ inFlight = 0
  /\ waiters = <<>>
  /\ cool = FALSE /\ quiet = FALSE
  /\ pc = [c \in Client |-> "idle"]
  /\ attempt = [c \in Client |-> 0]
  /\ requests = 0

Proceed(c) == Acquire(c) \/ Loop(c) \/ Respond(c) \/ Throttled(c) \/ Again(c)

Next ==
  \/ \E c \in Client : Proceed(c) \/ Begin(c) \/ Canceled(c)
  \/ CoolDownEnds \/ QuietSpell

\* Goroutines that can run do, servers answer (or the request fails), and a
\* cool-down passes.  Whether a request is made or given up is not up to the gate.
Fairness ==
  /\ \A c \in Client : WF_vars(Proceed(c))
  /\ WF_vars(CoolDownEnds)

Spec == Init /\ [][Next]_vars
FairSpec == Spec /\ Fairness

-----------------------------------------------------------------------------
(* Properties *)

Sending == {c \in Client : pc[c] = "sending"}

\* Every slot counted is held by one request, given back exactly once however
\* the request ends (release), and there are never more than the default.
SlotsCounted == inFlight = Cardinality(Sending) /\ inFlight <= DefaultLimit

\* Those who will look at the gate again without being woken.
Awake == {c \in Client : pc[c] \in {"acquire", "cooling", "woken"}}

\* Whoever is queued has somebody to wake it: a slot is in use, whose release
\* wakes one, or a wake-up is on its way to somebody who will use it or pass it
\* on (cancelWaiter: "handed to the next waiter rather than being lost").
WaiterHasWaker == waiters # <<>> => inFlight > 0 \/ Awake # {}

\* acquire "blocks until this host has a free slot and any cool-down ... has
\* elapsed", and no longer: overtaking, narrowing and re-queueing notwithstanding.
AcquireReturns ==
  \A c \in Client :
    pc[c] \in {"acquire", "cooling", "queued", "woken"} ~> pc[c] \in {"sending", "idle"}

\* Why they hold: the queue holds exactly those that wait in it, once each.
QueueInv ==
  /\ \A i \in 1..Len(waiters) : pc[waiters[i]] = "queued"
  /\ \A i, j \in 1..Len(waiters) : waiters[i] = waiters[j] => i = j
  /\ \A c \in Client : pc[c] = "queued" => \E i \in 1..Len(waiters) : waiters[i] = c
=============================================================================
