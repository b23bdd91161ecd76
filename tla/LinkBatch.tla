------------------------------ MODULE LinkBatch ------------------------------
(***************************************************************************)
(* Starting several links at once: from the page's form (daemon/webapi.go) *)
(* and from the command line's list of links (cmd/batch.go, cmd/url.go).   *)
(* Each link of a batch is named, after its URL or by its server           *)
(* (urlname), and told apart from the others (jobreq); then each is        *)
(* started by a request of its own, and one that fails stops no other.     *)
(***************************************************************************)
EXTENDS Naturals, FiniteSets, Sequences

CONSTANTS
  Link,     \* the links
  URLName,  \* per link, the last part of its path, as a Name
  ServerName, \* per link, what its server calls it
  HasExt,   \* the links whose own name has an extension
  MaxLinks, MaxBatches, MaxLostAnswers \* bounds

VARIABLES
  batch,    \* per client: its batch's requests, those not sent yet, and the report so far
  added,    \* the jobs at the daemon: batch, link and output
  sent      \* what happened so far, against the bounds

\* A name's parts are numbered: its text as the link has it, then what tells it apart.
Name == Seq(Nat)

BatchAssumption ==
  /\ URLName \in [Link -> Name] /\ ServerName \in [Link -> Name]
  /\ HasExt \subseteq Link /\ MaxLinks \in Nat

ASSUME BatchAssumption

batchVars == <<batch, added, sent>>

Client == {"page", "cli"}
NoBatch == [id |-> 0, reqs |-> <<>>, next |-> 1, started |-> {}, failed |-> {}]

BatchTypeOK ==
  \A c \in Client : /\ batch[c].next \in 1 .. Len(batch[c].reqs) + 1
                    /\ batch[c].started \cap batch[c].failed = {}

\* FromURL: a name with no extension is asked of the server, which may not answer.
FromURL(l) == IF l \in HasExt THEN {URLName[l]} ELSE {URLName[l], ServerName[l]}

\* Mutant: a name that was given to an earlier link is given again.
TakeName(taken, name) == name

\* UniqueName: "name", or "name (2)", "name (3)", ...
UniqueName(taken, name) ==
  IF name \notin taken THEN name
  ELSE LET Free == {k \in 2 .. Cardinality(taken) + 2 : Append(name, k) \notin taken}
       IN  Append(name, CHOOSE k \in Free : \A j \in Free : k <= j)

\* URLOutputs: each link's name, told apart from those the links before it have taken.
URLOutputs(names) ==
  LET outs[i \in DOMAIN names] == UniqueName({outs[j] : j \in 1 .. i - 1}, names[i])
  IN  outs

\* buildAddRequests, and the command line's: every link is named before the first is started.
StartBatch(c) ==
  /\ batch[c] = NoBatch /\ sent.batches < MaxBatches
  /\ \E n \in 1 .. MaxLinks : \E links \in [1 .. n -> Link] :
     \E names \in [1 .. n -> UNION {FromURL(l) : l \in Link}] :
       /\ \A i \in 1 .. n : names[i] \in FromURL(links[i])
       /\ batch' = [batch EXCEPT ![c].id = sent.batches + 1,
            ![c].reqs = [i \in 1 .. n |-> [link |-> links[i], out |-> URLOutputs(names)[i]]]]
  /\ sent' = [sent EXCEPT !.batches = @ + 1]
  /\ UNCHANGED added

Sending(c) == batch[c].next <= Len(batch[c].reqs)
Answered(c, what) == batch' = [batch EXCEPT ![c].next = @ + 1, ![c][what] = @ \cup {batch[c].next}]

\* A request is answered with the job it made.
Starts(c) ==
  /\ Sending(c) /\ Answered(c, "started")
  /\ LET r == batch[c].reqs[batch[c].next] IN
     added' = added \cup {[batch |-> batch[c].id, n |-> batch[c].next, link |-> r.link, out |-> r.out]}
  /\ UNCHANGED sent

\* It is refused, or never gets there.
Refused(c) == Sending(c) /\ Answered(c, "failed") /\ UNCHANGED <<added, sent>>

\* The job is made, and the command line does not hear of it.
AnswerLost(c) ==
  /\ c = "cli" /\ Sending(c) /\ sent.lost < MaxLostAnswers /\ Answered(c, "failed")
  /\ LET r == batch[c].reqs[batch[c].next] IN
     added' = added \cup {[batch |-> batch[c].id, n |-> batch[c].next, link |-> r.link, out |-> r.out]}
  /\ sent' = [sent EXCEPT !.lost = @ + 1]

Reports(c) ==
  /\ batch[c] # NoBatch /\ ~Sending(c)
  /\ batch' = [batch EXCEPT ![c] = NoBatch]
  /\ UNCHANGED <<added, sent>>

BatchInit ==
  /\ batch = [c \in Client |-> NoBatch] /\ added = {}
  /\ sent = [batches |-> 0, lost |-> 0]

BatchNext ==
  \E c \in Client : StartBatch(c) \/ Starts(c) \/ Refused(c) \/ AnswerLost(c) \/ Reports(c)

BatchSpec == BatchInit /\ [][BatchNext]_batchVars

-----------------------------------------------------------------------------
(* Properties *)

\* No two links of a batch are saved to one file, whatever their names and whichever of them
\* fail, and each link that is reported as started has its job (jobreq.go:61-76).
BatchKeepsApart ==
  /\ \A a, b \in added : a.batch = b.batch /\ a.out = b.out => a = b
  /\ \A c \in Client : \A i \in batch[c].started :
       \E a \in added : a.batch = batch[c].id /\ a.n = i

=============================================================================
