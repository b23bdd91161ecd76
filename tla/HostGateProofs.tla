---------------------------- MODULE HostGateProofs ----------------------------
(***************************************************************************)
(* The gate's counters and its queue, for any number of clients, any       *)
(* limits and any number of retries.                                       *)
(***************************************************************************)
EXTENDS HostGate, FiniteSetTheorems, SequenceTheorems, TLAPS

\* The three hold together: a release finds a slot to give back because the
\* slots are counted, and wakes somebody who holds none because of the queue.
GateInv == TypeOK /\ QueueInv /\ SlotsCounted

-----------------------------------------------------------------------------
(* The queue *)

LEMMA WithoutFacts ==
  ASSUME waiters \in Seq(Client), NEW i \in 1..Len(waiters)
  PROVE  /\ Without(i) \in Seq(Client)
         /\ Len(Without(i)) = Len(waiters) - 1
         /\ \A k \in 1..Len(waiters) - 1 :
              Without(i)[k] = IF k < i THEN waiters[k] ELSE waiters[k + 1]
<1> DEFINE a == SubSeq(waiters, 1, i - 1)
           b == SubSeq(waiters, i + 1, Len(waiters))
<1>1. Len(waiters) \in Nat /\ \A k \in 1..Len(waiters) : waiters[k] \in Client
  OBVIOUS
<1>2. /\ a \in Seq(Client) /\ Len(a) = i - 1
      /\ \A k \in 1..i - 1 : a[k] = waiters[k]
  <2>1. \A k \in 1..i - 1 : waiters[k] \in Client
    BY <1>1
  <2> QED
    BY <1>1, <2>1, SubSeqProperties
<1>3. /\ b \in Seq(Client) /\ Len(b) = Len(waiters) - i
      /\ \A k \in 1..Len(waiters) - i : b[k] = waiters[i + k]
  <2>1. \A k \in i + 1..Len(waiters) : waiters[k] \in Client
    BY <1>1
  <2>2. /\ b \in Seq(Client)
        /\ Len(b) = IF i + 1 <= Len(waiters) THEN Len(waiters) - (i + 1) + 1 ELSE 0
        /\ \A k \in 1..Len(waiters) - (i + 1) + 1 : b[k] = waiters[i + 1 + k - 1]
    BY <1>1, <2>1, SubSeqProperties
  <2> QED
    BY <1>1, <2>2
<1>4. /\ a \o b \in Seq(Client)
      /\ Len(a \o b) = Len(a) + Len(b)
      /\ \A k \in 1..Len(a) + Len(b) : (a \o b)[k] = IF k <= Len(a) THEN a[k] ELSE b[k - Len(a)]
  BY <1>2, <1>3, ConcatProperties
<1>5. Without(i) = a \o b
  BY DEF Without
<1> HIDE DEF a, b
<1>6. Len(a) + Len(b) = Len(waiters) - 1
  BY <1>1, <1>2, <1>3
<1>7. ASSUME NEW k \in 1..Len(waiters) - 1
      PROVE  (a \o b)[k] = IF k < i THEN waiters[k] ELSE waiters[k + 1]
  <2>1. (a \o b)[k] = IF k <= i - 1 THEN a[k] ELSE b[k - (i - 1)]
    BY <1>2, <1>4, <1>6
  <2>2. CASE k < i
    <3>1. k \in 1..i - 1 /\ k <= i - 1
      BY <1>1, <2>2
    <3> QED
      BY <1>2, <2>1, <2>2, <3>1
  <2>3. CASE k >= i
    <3>1. k - (i - 1) \in 1..Len(waiters) - i /\ i + (k - (i - 1)) = k + 1
      BY <1>1, <2>3
    <3>2. b[k - (i - 1)] = waiters[k + 1]
      BY <1>3, <3>1
    <3>3. ~(k <= i - 1) /\ ~(k < i)
      BY <1>1, <2>3
    <3>4. (a \o b)[k] = b[k - (i - 1)]
      BY <2>1, <3>3
    <3> QED
      BY <3>2, <3>3, <3>4
  <2>4. k < i \/ k >= i
    BY <1>1
  <2> QED
    BY <2>2, <2>3, <2>4
<1> QED
  BY <1>4, <1>5, <1>6, <1>7

LEMMA TailFacts ==
  ASSUME waiters \in Seq(Client), waiters # <<>>
  PROVE  /\ Head(waiters) = waiters[1] /\ Head(waiters) \in Client
         /\ 1 \in 1..Len(waiters) /\ Len(waiters) \in Nat
         /\ Tail(waiters) \in Seq(Client)
         /\ Len(Tail(waiters)) = Len(waiters) - 1
         /\ \A k \in 1..Len(waiters) - 1 : Tail(waiters)[k] = waiters[k + 1]
OBVIOUS

\* A wake-up given by somebody who is not queued, and does not become it.
LEMMA WakeOneFacts ==
  ASSUME TypeOK, QueueInv, NEW c \in Client, pc[c] # "queued",
         NEW next \in Pc \ {"queued"}, WakeOne([pc EXCEPT ![c] = next])
  PROVE  /\ pc' \in [Client -> Pc] /\ waiters' \in Seq(Client) /\ QueueInv'
         /\ \A d \in Client : pc'[d] = "sending" <=>
              IF d = c THEN next = "sending" ELSE pc[d] = "sending"
         /\ waiters' # <<>> => \E d \in Client : pc'[d] = "woken"
<1>1. pc \in [Client -> Pc] /\ waiters \in Seq(Client) /\ Len(waiters) \in Nat
  BY DEF TypeOK
<1>2. CASE waiters = <<>>
  <2>1. pc' = [pc EXCEPT ![c] = next] /\ waiters' = waiters
    BY <1>2 DEF WakeOne
  <2> QED
    BY <1>1, <1>2, <2>1 DEF QueueInv
<1>3. CASE waiters # <<>>
  <2> DEFINE h == Head(waiters)
  <2>1. waiters' = Tail(waiters) /\ pc' = [[pc EXCEPT ![c] = next] EXCEPT ![h] = "woken"]
    BY <1>3 DEF WakeOne
  <2>2. h = waiters[1] /\ h \in Client /\ pc[h] = "queued" /\ h # c
    BY <1>1, <1>3, TailFacts DEF QueueInv
  <2>3. /\ pc' \in [Client -> Pc]
        /\ \A d \in Client : pc'[d] = IF d = h THEN "woken" ELSE IF d = c THEN next ELSE pc[d]
    BY <1>1, <2>1, <2>2 DEF Pc
  <2>4. /\ waiters' \in Seq(Client) /\ Len(waiters') = Len(waiters) - 1
        /\ \A k \in 1..Len(waiters) - 1 : waiters'[k] = waiters[k + 1]
    BY <1>1, <1>3, <2>1, TailFacts
  <2> HIDE DEF h
  <2>5. QueueInv'
    <3>1. ASSUME NEW k \in 1..Len(waiters') PROVE pc'[waiters'[k]] = "queued"
      <4>1. k + 1 \in 1..Len(waiters) /\ waiters'[k] = waiters[k + 1] /\ 1 \in 1..Len(waiters)
        BY <1>1, <2>4
      <4>2. waiters[k + 1] \in Client /\ pc[waiters[k + 1]] = "queued" /\ waiters[k + 1] # h
        BY <1>1, <2>2, <4>1 DEF QueueInv
      <4> QED
        BY <2>3, <4>1, <4>2
    <3>2. ASSUME NEW k \in 1..Len(waiters'), NEW m \in 1..Len(waiters'), waiters'[k] = waiters'[m]
          PROVE  k = m
      <4>1. k + 1 \in 1..Len(waiters) /\ m + 1 \in 1..Len(waiters)
        BY <1>1, <2>4
      <4>2. waiters[k + 1] = waiters[m + 1]
        BY <2>4, <3>2
      <4>3. k + 1 = m + 1
        BY <4>1, <4>2 DEF QueueInv
      <4> QED
        BY <1>1, <2>4, <4>3
    <3>3. ASSUME NEW d \in Client, pc'[d] = "queued"
          PROVE  \E k \in 1..Len(waiters') : waiters'[k] = d
      <4>1. d # h /\ pc[d] = "queued"
        BY <2>3, <3>3
      <4>2. PICK k \in 1..Len(waiters) : waiters[k] = d
        BY <4>1 DEF QueueInv
      <4>3. k - 1 \in 1..Len(waiters) - 1 /\ waiters'[k - 1] = waiters[(k - 1) + 1] /\ (k - 1) + 1 = k
        BY <1>1, <2>2, <2>4, <4>1, <4>2
      <4> QED
        BY <2>4, <4>2, <4>3
    <3> QED
      BY <3>1, <3>2, <3>3 DEF QueueInv
  <2> QED
    BY <2>2, <2>3, <2>4, <2>5
<1> QED
  BY <1>2, <1>3

\* A waiter's channel is taken out of the queue.
LEMMA LeaveFacts ==
  ASSUME TypeOK, QueueInv, NEW c \in Client, NEW i \in 1..Len(waiters), waiters[i] = c,
         waiters' = Without(i), pc' = [pc EXCEPT ![c] = "idle"]
  PROVE  pc' \in [Client -> Pc] /\ waiters' \in Seq(Client) /\ QueueInv'
<1>1. pc \in [Client -> Pc] /\ waiters \in Seq(Client) /\ Len(waiters) \in Nat
  BY DEF TypeOK
<1>2. /\ waiters' \in Seq(Client) /\ Len(waiters') = Len(waiters) - 1
      /\ \A k \in 1..Len(waiters) - 1 : waiters'[k] = IF k < i THEN waiters[k] ELSE waiters[k + 1]
  BY <1>1, WithoutFacts
<1>3. /\ pc' \in [Client -> Pc]
      /\ \A d \in Client : pc'[d] = IF d = c THEN "idle" ELSE pc[d]
  BY <1>1 DEF Pc
<1> DEFINE old(k) == IF k < i THEN k ELSE k + 1
<1>4. ASSUME NEW k \in 1..Len(waiters')
      PROVE  /\ old(k) \in 1..Len(waiters) /\ old(k) # i
             /\ waiters'[k] = waiters[old(k)] /\ waiters[old(k)] # c
  <2>1. old(k) \in 1..Len(waiters) /\ old(k) # i
    BY <1>1, <1>2
  <2>2. waiters'[k] = waiters[old(k)]
    BY <1>1, <1>2
  <2> QED
    BY <2>1, <2>2 DEF QueueInv
<1>5. ASSUME NEW k \in 1..Len(waiters') PROVE pc'[waiters'[k]] = "queued"
  <2>1. waiters'[k] \in Client /\ waiters'[k] # c
    BY <1>1, <1>4
  <2>2. pc[waiters'[k]] = "queued"
    BY <1>4 DEF QueueInv
  <2> QED
    BY <1>3, <2>1, <2>2
<1>6. ASSUME NEW k \in 1..Len(waiters'), NEW m \in 1..Len(waiters'), waiters'[k] = waiters'[m]
      PROVE  k = m
  <2>1. waiters[old(k)] = waiters[old(m)]
    BY <1>4, <1>6
  <2>2. old(k) = old(m)
    BY <1>4, <2>1 DEF QueueInv
  <2> QED
    BY <1>1, <1>2, <2>2
<1>7. ASSUME NEW d \in Client, pc'[d] = "queued"
      PROVE  \E k \in 1..Len(waiters') : waiters'[k] = d
  <2>1. d # c /\ pc[d] = "queued"
    BY <1>3, <1>7
  <2>2. PICK n \in 1..Len(waiters) : waiters[n] = d
    BY <2>1 DEF QueueInv
  <2>3. CASE n < i
    <3>1. n \in 1..Len(waiters) - 1
      BY <1>1, <2>3
    <3> QED
      BY <1>2, <2>2, <2>3, <3>1
  <2>4. CASE n > i
    <3>1. n - 1 \in 1..Len(waiters) - 1 /\ ~(n - 1 < i) /\ (n - 1) + 1 = n
      BY <1>1, <2>4
    <3>2. waiters'[n - 1] = waiters[(n - 1) + 1]
      BY <1>2, <3>1
    <3> QED
      BY <1>2, <2>2, <3>1, <3>2
  <2> QED
    BY <1>1, <2>1, <2>2, <2>3, <2>4
<1> QED
  BY <1>2, <1>3, <1>5, <1>6, <1>7 DEF QueueInv

\* acquire at the ceiling: a channel joins the queue.
LEMMA JoinFacts ==
  ASSUME TypeOK, QueueInv, NEW c \in Client, pc[c] # "queued",
         waiters' = Append(waiters, c), pc' = [pc EXCEPT ![c] = "queued"]
  PROVE  pc' \in [Client -> Pc] /\ waiters' \in Seq(Client) /\ QueueInv'
<1>1. pc \in [Client -> Pc] /\ waiters \in Seq(Client) /\ Len(waiters) \in Nat
  BY DEF TypeOK
<1>2. /\ waiters' \in Seq(Client) /\ Len(waiters') = Len(waiters) + 1
      /\ \A k \in 1..Len(waiters) : waiters'[k] = waiters[k]
      /\ waiters'[Len(waiters) + 1] = c
  BY <1>1
<1>3. /\ pc' \in [Client -> Pc]
      /\ \A d \in Client : pc'[d] = IF d = c THEN "queued" ELSE pc[d]
  BY <1>1 DEF Pc
<1>4. \A k \in 1..Len(waiters) : waiters[k] \in Client /\ waiters[k] # c /\ pc[waiters[k]] = "queued"
  BY <1>1 DEF QueueInv
<1>5. \A k \in 1..Len(waiters') : k \in 1..Len(waiters) \/ k = Len(waiters) + 1
  BY <1>1, <1>2
<1>6. \A k \in 1..Len(waiters') : pc'[waiters'[k]] = "queued"
  BY <1>2, <1>3, <1>4, <1>5
<1>7. \A k, m \in 1..Len(waiters') : waiters'[k] = waiters'[m] => k = m
  BY <1>2, <1>4, <1>5 DEF QueueInv
<1>8. \A d \in Client : pc'[d] = "queued" => \E k \in 1..Len(waiters') : waiters'[k] = d
  <2>1. 1..Len(waiters) \subseteq 1..Len(waiters') /\ Len(waiters) + 1 \in 1..Len(waiters')
    BY <1>1, <1>2
  <2> QED
    BY <1>2, <1>3, <2>1 DEF QueueInv
<1> QED
  BY <1>2, <1>3, <1>6, <1>7, <1>8 DEF QueueInv

\* The queue is not touched by a goroutine that neither is in it nor joins it.
LEMMA OutsideFacts ==
  ASSUME TypeOK, QueueInv, NEW c \in Client, pc[c] # "queued", NEW next \in Pc \ {"queued"},
         UNCHANGED waiters, pc' = [pc EXCEPT ![c] = next]
  PROVE  pc' \in [Client -> Pc] /\ waiters' \in Seq(Client) /\ QueueInv'
BY DEF TypeOK, QueueInv

-----------------------------------------------------------------------------
(* The slots *)

LEMMA SendingFinite == IsFiniteSet(Sending) /\ Cardinality(Sending) \in Nat
<1>1. Sending \in SUBSET Client
  BY DEF Sending
<1> QED
  BY <1>1, HostGateAssumption, FS_Subset, FS_CardinalityType DEF HostGateAssumption

\* Nobody starts or stops sending.
LEMMA SameSending ==
  ASSUME SlotsCounted, inFlight' = inFlight,
         \A d \in Client : pc'[d] = "sending" <=> pc[d] = "sending"
  PROVE  SlotsCounted'
<1>1. Sending' = Sending
  BY DEF Sending
<1> QED
  BY <1>1 DEF SlotsCounted

\* One more does.
LEMMA MoreSending ==
  ASSUME SlotsCounted, NEW c \in Client, pc[c] # "sending",
         inFlight' = inFlight + 1, inFlight' <= DefaultLimit,
         \A d \in Client : pc'[d] = "sending" <=> (d = c \/ pc[d] = "sending")
  PROVE  SlotsCounted'
<1>1. Sending' = Sending \cup {c} /\ c \notin Sending
  BY DEF Sending
<1>2. Cardinality(Sending \cup {c}) = Cardinality(Sending) + 1
  BY <1>1, SendingFinite, FS_AddElement
<1> QED
  BY <1>1, <1>2 DEF SlotsCounted

\* One fewer does, and there was a slot to give back.
LEMMA FewerSending ==
  ASSUME SlotsCounted, NEW c \in Client, pc[c] = "sending", inFlight' = inFlight - 1,
         \A d \in Client : pc'[d] = "sending" <=> (d # c /\ pc[d] = "sending")
  PROVE  SlotsCounted' /\ inFlight' \in Nat
<1>1. Sending' = Sending \ {c} /\ c \in Sending
  BY DEF Sending
<1>2. Cardinality(Sending \ {c}) = Cardinality(Sending) - 1
  BY <1>1, SendingFinite, FS_RemoveElement
<1>3. Cardinality(Sending) \in Nat /\ Cardinality(Sending) # 0
  BY <1>1, SendingFinite, FS_EmptySet
<1> QED
  BY <1>1, <1>2, <1>3, HostGateAssumption DEF SlotsCounted, HostGateAssumption

\* Widening and halving stay between the two limits.
LEMMA LimitFacts ==
  ASSUME TypeOK
  PROVE  /\ Widened \in MinLimit..DefaultLimit
         /\ Halved \in MinLimit..DefaultLimit
BY HostGateAssumption DEF HostGateAssumption, TypeOK, Widened, Halved

-----------------------------------------------------------------------------
LEMMA GateInit == Init => GateInv
<1> SUFFICES ASSUME Init PROVE GateInv
  OBVIOUS
<1>1. Sending = {}
  BY DEF Init, Sending
<1>2. SlotsCounted
  BY <1>1, FS_EmptySet, HostGateAssumption DEF Init, SlotsCounted, HostGateAssumption
<1>3. QueueInv
  BY DEF Init, QueueInv
<1>4. TypeOK
  <2>1. limit \in MinLimit..DefaultLimit /\ 0 \in 0..RetryMax - 1 /\ requests \in 0..MaxRequests
    BY HostGateAssumption DEF Init, HostGateAssumption
  <2>2. waiters \in Seq(Client) /\ inFlight \in Nat /\ cool \in BOOLEAN /\ quiet \in BOOLEAN
    BY EmptySeq DEF Init
  <2>3. pc \in [Client -> Pc] /\ attempt \in [Client -> 0..RetryMax - 1]
    BY <2>1 DEF Init, Pc
  <2> QED
    BY <2>1, <2>2, <2>3 DEF TypeOK
<1> QED
  BY <1>2, <1>3, <1>4 DEF GateInv

LEMMA AcquireStep ==
  ASSUME GateInv, NEW c \in Client, Acquire(c)
  PROVE  GateInv'
<1>1. TypeOK /\ QueueInv /\ SlotsCounted /\ pc[c] = "acquire"
  BY DEF GateInv, Acquire
<1>2. /\ limit' \in MinLimit..DefaultLimit /\ quiet' \in BOOLEAN
      /\ UNCHANGED <<cool, attempt, requests>>
  BY <1>1, LimitFacts DEF Acquire
<1>3. CASE pc' = [pc EXCEPT ![c] = "cooling"] /\ UNCHANGED <<inFlight, waiters>>
  <2>1. pc' \in [Client -> Pc] /\ waiters' \in Seq(Client) /\ QueueInv'
    BY <1>1, <1>3, OutsideFacts DEF Pc
  <2>2. SlotsCounted'
    BY <1>1, <1>3, SameSending DEF TypeOK
  <2> QED
    BY <1>1, <1>2, <1>3, <2>1, <2>2 DEF GateInv, TypeOK
<1>4. CASE /\ inFlight < limit' /\ inFlight' = inFlight + 1
           /\ pc' = [pc EXCEPT ![c] = "sending"] /\ UNCHANGED waiters
  <2>1. pc' \in [Client -> Pc] /\ waiters' \in Seq(Client) /\ QueueInv'
    BY <1>1, <1>4, OutsideFacts DEF Pc
  <2>2. inFlight' \in Nat /\ inFlight' <= DefaultLimit
    BY <1>1, <1>2, <1>4, HostGateAssumption DEF TypeOK, HostGateAssumption
  <2>3. \A d \in Client : pc'[d] = "sending" <=> (d = c \/ pc[d] = "sending")
    BY <1>1, <1>4 DEF TypeOK
  <2>4. SlotsCounted'
    BY <1>1, <1>4, <2>2, <2>3, MoreSending
  <2> QED
    BY <1>1, <1>2, <2>1, <2>2, <2>4 DEF GateInv, TypeOK
<1>5. CASE /\ waiters' = Append(waiters, c) /\ pc' = [pc EXCEPT ![c] = "queued"]
           /\ UNCHANGED inFlight
  <2>1. pc' \in [Client -> Pc] /\ waiters' \in Seq(Client) /\ QueueInv'
    BY <1>1, <1>5, JoinFacts
  <2>2. SlotsCounted'
    BY <1>1, <1>5, SameSending DEF TypeOK
  <2> QED
    BY <1>1, <1>2, <1>5, <2>1, <2>2 DEF GateInv, TypeOK
<1> QED
  BY <1>3, <1>4, <1>5 DEF Acquire

LEMMA RespondStep ==
  ASSUME GateInv, NEW c \in Client, Respond(c)
  PROVE  GateInv'
<1>1. TypeOK /\ QueueInv /\ SlotsCounted /\ pc[c] = "sending"
  BY DEF GateInv, Respond
<1>2. PICK next \in {"idle", "limited"} : WakeOne([pc EXCEPT ![c] = next])
  BY DEF Respond
<1>3. next \in Pc \ {"queued"} /\ next # "sending"
  BY DEF Pc
<1>4. /\ pc' \in [Client -> Pc] /\ waiters' \in Seq(Client) /\ QueueInv'
      /\ \A d \in Client : pc'[d] = "sending" <=>
           IF d = c THEN next = "sending" ELSE pc[d] = "sending"
  BY <1>1, <1>2, <1>3, WakeOneFacts
<1>5. SlotsCounted' /\ inFlight' \in Nat
  <2>1. inFlight' = inFlight - 1
    BY DEF Respond
  <2>2. \A d \in Client : pc'[d] = "sending" <=> (d # c /\ pc[d] = "sending")
    BY <1>3, <1>4
  <2> QED
    BY <1>1, <2>1, <2>2, FewerSending
<1> QED
  BY <1>1, <1>4, <1>5 DEF Respond, GateInv, TypeOK

LEMMA CanceledStep ==
  ASSUME GateInv, NEW c \in Client, Canceled(c)
  PROVE  GateInv'
<1>1. /\ TypeOK /\ QueueInv /\ SlotsCounted
      /\ pc[c] \in {"queued", "woken", "cooling", "retrying"}
      /\ UNCHANGED <<limit, inFlight, cool, quiet, attempt, requests>>
  BY HostGateAssumption DEF GateInv, Canceled, HostGateAssumption
<1>2. SUFFICES /\ pc' \in [Client -> Pc] /\ waiters' \in Seq(Client) /\ QueueInv'
               /\ \A d \in Client : pc'[d] = "sending" <=> pc[d] = "sending"
  <2>1. SlotsCounted'
    BY <1>1, <1>2, SameSending
  <2> QED
    BY <1>1, <1>2, <2>1 DEF GateInv, TypeOK
<1>3. CASE \E i \in 1..Len(waiters) :
             waiters[i] = c /\ waiters' = Without(i) /\ pc' = [pc EXCEPT ![c] = "idle"]
  <2>1. pc' \in [Client -> Pc] /\ waiters' \in Seq(Client) /\ QueueInv'
    BY <1>1, <1>3, LeaveFacts
  <2> QED
    BY <1>1, <1>3, <2>1 DEF TypeOK
<1>4. CASE pc[c] = "woken" /\ WakeOne([pc EXCEPT ![c] = "idle"])
  <2>1. "idle" \in Pc \ {"queued"}
    BY DEF Pc
  <2>2. /\ pc' \in [Client -> Pc] /\ waiters' \in Seq(Client) /\ QueueInv'
        /\ \A d \in Client : pc'[d] = "sending" <=>
             IF d = c THEN "idle" = "sending" ELSE pc[d] = "sending"
    BY <1>1, <1>4, <2>1, WakeOneFacts
  <2> QED
    BY <1>4, <2>2
<1>5. CASE pc[c] # "queued" /\ pc' = [pc EXCEPT ![c] = "idle"] /\ UNCHANGED waiters
  <2>1. pc' \in [Client -> Pc] /\ waiters' \in Seq(Client) /\ QueueInv'
    BY <1>1, <1>5, OutsideFacts DEF Pc
  <2> QED
    BY <1>1, <1>5, <2>1 DEF TypeOK
<1> QED
  BY <1>1, <1>3, <1>4, <1>5 DEF Canceled, CancelWaiter

\* The other steps of one goroutine move it from one place outside the queue
\* and the slots to another.
LEMMA OtherSteps ==
  ASSUME GateInv, NEW c \in Client, Loop(c) \/ Throttled(c) \/ Again(c) \/ Begin(c)
  PROVE  GateInv'
<1>1. TypeOK /\ QueueInv /\ SlotsCounted
  BY DEF GateInv
<1>2. PICK next \in {"acquire", "retrying", "idle"} : pc' = [pc EXCEPT ![c] = next]
  BY DEF Loop, Throttled, Again, Begin
<1>3. pc[c] \notin {"queued", "sending"} /\ UNCHANGED <<inFlight, waiters>>
  BY DEF Loop, Throttled, Again, Begin
<1>4. pc' \in [Client -> Pc] /\ waiters' \in Seq(Client) /\ QueueInv'
  BY <1>1, <1>2, <1>3, OutsideFacts DEF Pc
<1>5. SlotsCounted'
  BY <1>1, <1>2, <1>3, SameSending DEF TypeOK
<1>6. limit' \in MinLimit..DefaultLimit /\ cool' \in BOOLEAN /\ quiet' \in BOOLEAN
  BY <1>1, LimitFacts DEF Loop, Throttled, Again, Begin, TypeOK
<1>7. attempt' \in [Client -> 0..RetryMax - 1]
  <2>1. attempt \in [Client -> 0..RetryMax - 1] /\ RetryMax \in Nat \ {0}
    BY <1>1, HostGateAssumption DEF TypeOK, HostGateAssumption
  <2>2. CASE UNCHANGED attempt
    BY <2>1, <2>2
  <2>3. CASE attempt' = [attempt EXCEPT ![c] = 0]
    BY <2>1, <2>3
  <2>4. CASE attempt[c] + 1 < RetryMax /\ attempt' = [attempt EXCEPT ![c] = @ + 1]
    BY <2>1, <2>4
  <2> QED
    BY <2>2, <2>3, <2>4 DEF Loop, Throttled, Again, Begin
<1>8. requests' \in 0..MaxRequests
  <2>1. requests \in 0..MaxRequests /\ MaxRequests \in Nat
    BY <1>1, HostGateAssumption DEF TypeOK, HostGateAssumption
  <2>2. \/ UNCHANGED requests
        \/ requests < MaxRequests /\ requests' = requests + 1
    BY DEF Loop, Throttled, Again, Begin
  <2> QED
    BY <2>1, <2>2
<1> QED
  BY <1>1, <1>3, <1>4, <1>5, <1>6, <1>7, <1>8 DEF GateInv, TypeOK

LEMMA GateStep == GateInv /\ [Next]_vars => GateInv'
<1> SUFFICES ASSUME GateInv, [Next]_vars PROVE GateInv'
  OBVIOUS
<1>1. ASSUME CoolDownEnds \/ QuietSpell \/ UNCHANGED vars PROVE GateInv'
  <2>1. /\ limit' = limit /\ inFlight' = inFlight /\ waiters' = waiters
        /\ pc' = pc /\ attempt' = attempt /\ requests' = requests
    BY <1>1 DEF CoolDownEnds, QuietSpell, vars
  <2>2. cool' \in BOOLEAN /\ quiet' \in BOOLEAN
    BY <1>1 DEF CoolDownEnds, QuietSpell, vars, GateInv, TypeOK
  <2>3. QueueInv'
    BY <2>1 DEF GateInv, QueueInv
  <2>4. SlotsCounted'
    BY <2>1, SameSending DEF GateInv
  <2> QED
    BY <2>1, <2>2, <2>3, <2>4 DEF GateInv, TypeOK
<1> QED
  BY <1>1, AcquireStep, RespondStep, CanceledStep, OtherSteps DEF Next, Proceed

LEMMA GateAlways == Spec => []GateInv
BY GateInit, GateStep, PTL DEF Spec

\* The ceiling never leaves hostGateMinLimit..hostGateDefaultLimit, whatever
\* throttled and acquire do to it, and the retry loop stays below retry429Max.
THEOREM GateTypes == Spec => []TypeOK
<1>1. GateInv => TypeOK
  BY DEF GateInv
<1> QED
  BY <1>1, GateAlways, PTL

\* A slot is held by one request, given back exactly once, and there are never
\* more of them than the default (acquire, release, wakeOne, cancelWaiter).
THEOREM GateSlotsCounted == Spec => []SlotsCounted
<1>1. GateInv => SlotsCounted
  BY DEF GateInv
<1> QED
  BY <1>1, GateAlways, PTL

-----------------------------------------------------------------------------
(* The wake-ups *)

\* The steps that wake somebody or leave the awake awake.
LEMMA WakerStep ==
  ASSUME "cooling" \notin CancelSeenAt, GateInv, WaiterHasWaker, [Next]_vars
  PROVE  WaiterHasWaker'
<1>1. /\ TypeOK /\ QueueInv /\ SlotsCounted
      /\ pc \in [Client -> Pc] /\ waiters \in Seq(Client) /\ inFlight \in Nat
  BY DEF GateInv, TypeOK
<1> SUFFICES ASSUME waiters' # <<>> PROVE inFlight' > 0 \/ Awake' # {}
  BY DEF WaiterHasWaker
<1>2. ASSUME inFlight' = inFlight, waiters # <<>>,
             \A d \in Client : d \in Awake => d \in Awake'
      PROVE  inFlight' > 0 \/ Awake' # {}
  <2>1. inFlight > 0 \/ \E d \in Client : d \in Awake
    BY <1>2 DEF WaiterHasWaker, Awake
  <2> QED
    BY <1>2, <2>1
<1>3. ASSUME NEW c \in Client, Acquire(c) PROVE inFlight' > 0 \/ Awake' # {}
  <2>1. CASE pc' = [pc EXCEPT ![c] = "cooling"]
    <3>1. c \in Awake'
      BY <1>1, <2>1 DEF Awake
    <3> QED
      BY <3>1
  <2>2. CASE inFlight' = inFlight + 1
    BY <1>1, <2>2
  <2>3. CASE inFlight >= limit' /\ UNCHANGED inFlight
    <3>1. limit' \in Nat /\ limit' > 0
      BY <1>1, <1>3, LimitFacts, HostGateAssumption DEF Acquire, HostGateAssumption
    <3> QED
      BY <1>1, <2>3, <3>1
  <2> QED
    BY <1>3, <2>1, <2>2, <2>3 DEF Acquire
<1>4. ASSUME NEW c \in Client, pc[c] # "queued", NEW next \in Pc \ {"queued"},
             WakeOne([pc EXCEPT ![c] = next])
      PROVE  inFlight' > 0 \/ Awake' # {}
  <2>1. PICK d \in Client : pc'[d] = "woken"
    BY <1>1, <1>4, WakeOneFacts
  <2>2. d \in Awake'
    BY <2>1 DEF Awake
  <2> QED
    BY <2>2
<1>5. ASSUME NEW c \in Client, Respond(c) PROVE inFlight' > 0 \/ Awake' # {}
  <2>1. PICK next \in {"idle", "limited"} : WakeOne([pc EXCEPT ![c] = next])
    BY <1>5 DEF Respond
  <2>2. next \in Pc \ {"queued"} /\ pc[c] # "queued"
    BY <1>5 DEF Pc, Respond
  <2> QED
    BY <1>4, <2>1, <2>2
<1>6. ASSUME NEW c \in Client, Canceled(c) PROVE inFlight' > 0 \/ Awake' # {}
  <2>1. pc[c] \in {"queued", "woken", "retrying"} /\ UNCHANGED inFlight
    BY <1>6, HostGateAssumption DEF Canceled, HostGateAssumption
  <2>2. CASE pc[c] = "woken" /\ WakeOne([pc EXCEPT ![c] = "idle"])
    <3>1. "idle" \in Pc \ {"queued"}
      BY DEF Pc
    <3> QED
      BY <1>4, <2>2, <3>1
  <2>3. CASE \E i \in 1..Len(waiters) :
               waiters[i] = c /\ waiters' = Without(i) /\ pc' = [pc EXCEPT ![c] = "idle"]
    <3>1. waiters # <<>> /\ pc[c] = "queued"
      BY <1>1, <2>3 DEF QueueInv
    <3>2. \A d \in Client : d \in Awake => d \in Awake'
      BY <1>1, <2>3, <3>1 DEF Awake
    <3> QED
      BY <1>2, <2>1, <3>1, <3>2
  <2>4. CASE pc[c] = "retrying" /\ pc' = [pc EXCEPT ![c] = "idle"] /\ UNCHANGED waiters
    <3>1. \A d \in Client : d \in Awake => d \in Awake'
      BY <1>1, <2>4 DEF Awake
    <3> QED
      BY <1>2, <2>1, <2>4, <3>1
  <2> QED
    BY <1>6, <2>1, <2>2, <2>3, <2>4 DEF Canceled, CancelWaiter
<1>7. ASSUME NEW c \in Client, Loop(c) \/ Throttled(c) \/ Again(c) \/ Begin(c)
      PROVE  inFlight' > 0 \/ Awake' # {}
  <2>1. UNCHANGED <<inFlight, waiters>>
    BY <1>7 DEF Loop, Throttled, Again, Begin
  <2>2. \A d \in Client : d \in Awake => d \in Awake'
    BY <1>1, <1>7 DEF Awake, Loop, Throttled, Again, Begin
  <2> QED
    BY <1>2, <2>1, <2>2
<1>8. ASSUME CoolDownEnds \/ QuietSpell \/ UNCHANGED vars
      PROVE  inFlight' > 0 \/ Awake' # {}
  <2>1. inFlight' = inFlight /\ waiters' = waiters /\ pc' = pc
    BY <1>8 DEF CoolDownEnds, QuietSpell, vars
  <2>2. \A d \in Client : d \in Awake => d \in Awake'
    BY <2>1 DEF Awake
  <2> QED
    BY <1>2, <2>1, <2>2
<1> QED
  BY <1>3, <1>5, <1>6, <1>7, <1>8 DEF Next, Proceed

\* If no context is cancelled during a cool-down, a queued waiter always has
\* somebody to wake it: narrowing, widening, retries, newcomers who overtake
\* and waiters who give up in the queue lose no wake-up (wakeOne, cancelWaiter).
THEOREM GateWaiterHasWaker ==
  ASSUME "cooling" \notin CancelSeenAt
  PROVE  Spec => []WaiterHasWaker
<1>1. Init => WaiterHasWaker
  BY DEF Init, WaiterHasWaker
<1>2. GateInv /\ WaiterHasWaker /\ [Next]_vars => WaiterHasWaker'
  BY WakerStep
<1> QED
  BY <1>1, <1>2, GateAlways, PTL DEF Spec
=============================================================================
