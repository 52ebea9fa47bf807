---------------------------- MODULE EvidenceExport ----------------------------
(***************************************************************************)
(* Export of the outbox to one evidence sink: the exporter loop of         *)
(* cmd/thinkpixelag/main.go, Exporter.ExportOne (internal/evidence) and    *)
(* EvidenceDeliveryStore (internal/adapters/postgres).  Every replica runs *)
(* one exporter; they share the sink's checkpoint row.                     *)
(*                                                                         *)
(* A statement that reads on its snapshot and updates later is two steps:  *)
(* the claim compares the row it read again, the receipt relies on unique  *)
(* constraints.  A delivery may arrive after its exporter gave up on it,   *)
(* leases run out, replies get lost and exporters restart; MaxFaults       *)
(* bounds how often.  The hash of an event is modelled as the chain it     *)
(* ends: different contents, predecessors or positions never share one.    *)
(***************************************************************************)
EXTENDS Integers, Sequences, FiniteSets

CONSTANTS
    Message,     \* numbered by (occurred_at, id)
    Exporter,
    Token,       \* numbers standing for random identifiers
    BatchSize,   \* candidate identifiers an exporter keeps (64 in the code)
    MaxFaults,   \* bound on failures
    None

ASSUME ExportAssumption ==
    /\ Message \subseteq Nat
    /\ Token \subseteq Nat
    /\ BatchSize \in Nat \ {0}
    /\ MaxFaults \in Nat
    /\ None \notin Nat \cup Exporter

VARIABLES
    outbox,      \* outbox_messages
    published,   \* those with published_at set
    checkpoint,  \* the sink's row of evidence_sink_checkpoints
    leased,      \* claimed_until lies in the future
    receipts,    \* evidence_delivery_receipts
    pending,     \* pendingIDs of each exporter
    step,        \* where each exporter is in ExportOne
    wire,        \* requests on their way to the sink
    chain,       \* what the sink accepted, in order
    faults       \* failures so far

vars == <<outbox, published, checkpoint, leased, receipts, pending, step, wire, chain, faults>>
store == <<outbox, published, checkpoint, leased, receipts>>

Hash == Seq(Message)
Checkpoint == [last_sequence : Nat, last_event_hash : Hash,
               claim_token : Token \cup {None}, claimed_event : Message \cup {None}]
Delivery == [sequence : Nat \ {0}, previous : Hash, event : Message]
Receipt == [event : Message, sequence : Nat \ {0}, previous : Hash, hash : Hash]
Request == [from : Exporter \cup {None}, delivery : Delivery]
Idle == [pc |-> "idle"]
Step ==
    {Idle}
    \cup [pc : {"refill", "read"}, attempt : {1, 2}]
    \cup [pc : {"claim"}, attempt : {1, 2}, row : Checkpoint, event : Message]
    \cup [pc : {"send", "wait", "complete", "commit", "release"},
          token : Token, delivery : Delivery]

(* The tables' types with their CHECK constraints: a claim has its token   *)
(* and event together, and a first event has no predecessor.               *)
TypeOK ==
    /\ outbox \subseteq Message
    /\ published \subseteq outbox
    /\ checkpoint \in Checkpoint
    /\ (checkpoint.claim_token = None) = (checkpoint.claimed_event = None)
    /\ (checkpoint.last_sequence = 0) = (checkpoint.last_event_hash = <<>>)
    /\ leased \in BOOLEAN
    /\ receipts \subseteq Receipt
    /\ \A r \in receipts : (r.sequence = 1) = (r.previous = <<>>)
    /\ pending \in [Exporter -> SUBSET Message]
    /\ step \in [Exporter -> Step]
    /\ wire \subseteq Request
    /\ chain \in Hash
    /\ faults \in 0..MaxFaults

(* The checkpoint as refillPending inserts it before the first claim.      *)
Init ==
    /\ outbox = {}
    /\ published = {}
    /\ checkpoint = [last_sequence |-> 0, last_event_hash |-> <<>>,
                     claim_token |-> None, claimed_event |-> None]
    /\ leased = FALSE
    /\ receipts = {}
    /\ pending = [x \in Exporter |-> {}]
    /\ step = [x \in Exporter |-> Idle]
    /\ wire = {}
    /\ chain = <<>>
    /\ faults = 0

----------------------------------------------------------------------------
Received(m) == \E r \in receipts : r.event = m
Earliest(S) == {m \in S : \A n \in S : m <= n}
FirstOf(k, S) == {m \in S : Cardinality({n \in S : n < m}) < k}

Holds(x) == step[x].pc \in {"send", "wait", "complete", "commit", "release"}
Remembered ==
    {checkpoint.claim_token}
    \cup {step[x].token : x \in {y \in Exporter : Holds(y)}}
    \cup {step[x].row.claim_token : x \in {y \in Exporter : step[y].pc = "claim"}}
(* A new random identifier differs from every one still remembered; which  *)
(* one it is does not matter.                                              *)
NewID == Earliest(Token \ Remembered)

(* A transaction somewhere commits a message.  Transactions overlap, so a  *)
(* message may appear after one with a later occurred_at.                  *)
CommitMessage(m) ==
    /\ m \notin outbox
    /\ outbox' = outbox \cup {m}
    /\ UNCHANGED <<published, checkpoint, leased, receipts, pending, step, wire, chain, faults>>

Goto(x, s) == step' = [step EXCEPT ![x] = s]

Attempt(n, hints) == [pc |-> IF hints = {} THEN "refill" ELSE "read", attempt |-> n]

BeginExport(x) ==
    /\ step[x] = Idle
    /\ Goto(x, Attempt(1, pending[x]))
    /\ UNCHANGED <<store, pending, wire, chain, faults>>

refillPending(x) ==
    /\ step[x].pc = "refill"
    /\ pending' = [pending EXCEPT ![x] = FirstOf(BatchSize, {m \in outbox : ~Received(m)})]
    /\ Goto(x, [pc |-> "read", attempt |-> step[x].attempt])
    /\ UNCHANGED <<store, wire, chain, faults>>

(* The rest of Claim's loop after claimCandidate returned nothing.         *)
NothingClaimed(x) ==
    /\ pending' = [pending EXCEPT ![x] = {}]
    /\ Goto(x, IF pending[x] # {} /\ step[x].attempt = 1
               THEN Attempt(2, {})
               ELSE Idle)

(* The candidate query: the outstanding event if there is one, the hints   *)
(* otherwise.                                                              *)
NoReclaim(row, hints) == IF row.claimed_event # None THEN {} ELSE hints
Choice(row, hints) == IF row.claimed_event # None THEN {row.claimed_event} ELSE hints
Candidate(hints) ==
    IF leased THEN {} ELSE Earliest({m \in Choice(checkpoint, hints) \cap outbox : ~Received(m)})

ReadCandidate(x) ==
    /\ step[x].pc = "read"
    /\ \/ /\ Candidate(pending[x]) = {}
          /\ NothingClaimed(x)
       \/ /\ \E m \in Candidate(pending[x]) :
                Goto(x, [pc |-> "claim", attempt |-> step[x].attempt,
                         row |-> checkpoint, event |-> m])
          /\ UNCHANGED pending
    /\ UNCHANGED <<store, wire, chain, faults>>

NewDelivery(row, m) ==
    [sequence |-> row.last_sequence + 1, previous |-> row.last_event_hash, event |-> m]
EventHash(d) == Append(d.previous, d.event)

(* The claim's UPDATE, which compares the row with the one it read.        *)
SameSequence(row) == checkpoint.last_sequence = row.last_sequence
Unclaimed(row) ==
    /\ SameSequence(row)
    /\ checkpoint.claim_token = row.claim_token
    /\ checkpoint.claimed_event = row.claimed_event

claimCandidate(x) ==
    LET s == step[x] IN
    /\ s.pc = "claim"
    /\ \/ /\ Unclaimed(s.row)
          /\ \E t \in NewID :
                /\ checkpoint' = [checkpoint EXCEPT !.claim_token = t, !.claimed_event = s.event]
                /\ Goto(x, [pc |-> "send", token |-> t,
                            delivery |-> NewDelivery(checkpoint, s.event)])
          /\ leased' = TRUE
          /\ pending' = [pending EXCEPT ![x] = @ \ {s.event}]
       \/ /\ ~Unclaimed(s.row)
          /\ NothingClaimed(x)
          /\ UNCHANGED <<checkpoint, leased>>
    /\ UNCHANGED <<outbox, published, receipts, wire, chain, faults>>

SendDelivery(x) ==
    /\ step[x].pc = "send"
    /\ wire' = wire \cup {[from |-> x, delivery |-> step[x].delivery]}
    /\ Goto(x, [step[x] EXCEPT !.pc = "wait"])
    /\ UNCHANGED <<store, pending, chain, faults>>

----------------------------------------------------------------------------
(* The sink (external): it appends the next event of its chain, answers a  *)
(* repeated one with the same receipt, and refuses any other.              *)
Appends(d) == d.sequence = Len(chain) + 1 /\ d.previous = chain
Repeats(d) ==
    /\ d.sequence \in DOMAIN chain
    /\ EventHash(d) = SubSeq(chain, 1, d.sequence)

(* The answer reaches the exporter if it still waits; Export returns the   *)
(* validated receipt, or an error.                                         *)
Answer(r) ==
    IF r.from = None THEN UNCHANGED step
    ELSE Goto(r.from, [step[r.from] EXCEPT !.pc = IF Appends(r.delivery) \/ Repeats(r.delivery)
                                                 THEN "complete" ELSE "release"])

Export(r) ==
    /\ r \in wire
    /\ wire' = wire \ {r}
    /\ chain' = IF Appends(r.delivery) THEN EventHash(r.delivery) ELSE chain
    /\ Answer(r)
    /\ UNCHANGED <<store, pending, faults>>

(* No request is under way and no answer came: Export returns an error.    *)
Outstanding(x) == [from |-> x, delivery |-> step[x].delivery] \in wire
ExportFails(x) ==
    /\ step[x].pc = "wait"
    /\ ~Outstanding(x)
    /\ Goto(x, [step[x] EXCEPT !.pc = "release"])
    /\ UNCHANGED <<store, pending, wire, chain, faults>>

----------------------------------------------------------------------------
(* Complete, first half: the token, event and position on the snapshot.    *)
OwnClaim(s) ==
    /\ checkpoint.claim_token = s.token
    /\ checkpoint.claimed_event = s.delivery.event
    /\ checkpoint.last_sequence + 1 = s.delivery.sequence

CheckClaim(x) ==
    /\ step[x].pc = "complete"
    /\ Goto(x, IF OwnClaim(step[x]) THEN [step[x] EXCEPT !.pc = "commit"] ELSE Idle)
    /\ UNCHANGED <<store, pending, wire, chain, faults>>

(* Complete, second half: the receipt, published_at and the checkpoint,    *)
(* which is found by sink_id alone.                                        *)
Unconstrained(d) == TRUE
Unique(d) == \A r \in receipts : r.event # d.event /\ r.sequence # d.sequence
ReceiptFor(d) ==
    [event |-> d.event, sequence |-> d.sequence, previous |-> d.previous, hash |-> EventHash(d)]
Advanced(d) == [last_sequence |-> d.sequence, last_event_hash |-> EventHash(d),
                claim_token |-> None, claimed_event |-> None]

Complete(x) ==
    LET d == step[x].delivery IN
    /\ step[x].pc = "commit"
    /\ \/ /\ Unique(d)
          /\ receipts' = receipts \cup {ReceiptFor(d)}
          /\ published' = published \cup {d.event}
          /\ checkpoint' = Advanced(d)
          /\ leased' = FALSE
       \/ /\ ~Unique(d)
          /\ UNCHANGED <<receipts, published, checkpoint, leased>>
    /\ Goto(x, Idle)
    /\ UNCHANGED <<outbox, pending, wire, chain, faults>>

(* Release expires the lease under a new token and keeps the event.        *)
Released(t) == [checkpoint EXCEPT !.claim_token = t]

Release(x) ==
    LET s == step[x] IN
    /\ s.pc = "release"
    /\ \/ /\ checkpoint.claim_token = s.token /\ checkpoint.claimed_event = s.delivery.event
          /\ \E t \in NewID : checkpoint' = Released(t)
          /\ leased' = FALSE
       \/ /\ checkpoint.claim_token # s.token \/ checkpoint.claimed_event # s.delivery.event
          /\ UNCHANGED <<checkpoint, leased>>
    /\ Goto(x, Idle)
    /\ UNCHANGED <<outbox, published, receipts, pending, wire, chain, faults>>

----------------------------------------------------------------------------
Orphaned(x) == {IF r.from = x THEN [r EXCEPT !.from = None] ELSE r : r \in wire}
Fault == faults < MaxFaults /\ faults' = faults + 1

(* The HTTP client gives up on a request the sink may still receive.       *)
TimeOut(x) ==
    /\ Fault
    /\ step[x].pc = "wait" /\ Outstanding(x)
    /\ Goto(x, [step[x] EXCEPT !.pc = "release"])
    /\ wire' = Orphaned(x)
    /\ UNCHANGED <<store, pending, chain>>

(* A request is lost, or accepted and its answer lost. *)
LoseRequest(r) ==
    /\ Fault
    /\ r \in wire
    /\ wire' = wire \ {r}
    /\ chain' \in {chain} \cup (IF Appends(r.delivery) THEN {EventHash(r.delivery)} ELSE {})
    /\ UNCHANGED <<store, pending, step>>

(* A statement fails: ExportOne returns its error. *)
StatementFails(x) ==
    /\ Fault
    /\ step[x].pc \in {"refill", "read", "claim", "complete", "commit", "release"}
    /\ Goto(x, Idle)
    /\ UNCHANGED <<store, pending, wire, chain>>

(* The process dies, at any point of ExportOne, and starts again.          *)
Restart(x) ==
    /\ Fault
    /\ step[x] # Idle \/ pending[x] # {}
    /\ Goto(x, Idle)
    /\ pending' = [pending EXCEPT ![x] = {}]
    /\ wire' = Orphaned(x)
    /\ UNCHANGED <<store, chain>>

(* claimed_until passes.  The lease is twice the HTTP timeout, so for an   *)
(* owner that still works on its claim this is a failure as well.          *)
Abandoned == \A x \in Exporter : Holds(x) => step[x].token # checkpoint.claim_token
LeaseExpires ==
    /\ leased
    /\ leased' = FALSE
    /\ \/ Abandoned /\ UNCHANGED faults
       \/ ~Abandoned /\ Fault
    /\ UNCHANGED <<outbox, published, checkpoint, receipts, pending, step, wire, chain>>

----------------------------------------------------------------------------
ExportOne(x) ==
    \/ BeginExport(x) \/ refillPending(x) \/ ReadCandidate(x) \/ claimCandidate(x)
    \/ SendDelivery(x) \/ ExportFails(x) \/ CheckClaim(x) \/ Complete(x) \/ Release(x)

Next ==
    \/ \E m \in Message : CommitMessage(m)
    \/ \E x \in Exporter : ExportOne(x) \/ TimeOut(x) \/ StatementFails(x) \/ Restart(x)
    \/ \E r \in wire : Export(r) \/ LoseRequest(r)
    \/ LeaseExpires

(* The loop in main.go runs until shutdown and the sink answers; an        *)
(* abandoned lease runs out.  Nobody has to commit messages.               *)
Fairness ==
    /\ \A x \in Exporter : WF_vars(ExportOne(x))
    /\ WF_vars(\E r \in wire : Export(r))
    /\ WF_vars(Abandoned /\ LeaseExpires)

Spec == Init /\ [][Next]_vars /\ Fairness

----------------------------------------------------------------------------
(* The receipts are the acknowledged part of the sink's chain, event by    *)
(* event, with the hashes the sink holds, and the checkpoint is their end. *)
ReceiptsMatchChain ==
    LET n == checkpoint.last_sequence IN
    /\ n <= Len(chain)
    /\ checkpoint.last_event_hash = SubSeq(chain, 1, n)
    /\ receipts = {[event |-> chain[i], sequence |-> i, previous |-> SubSeq(chain, 1, i - 1),
                    hash |-> SubSeq(chain, 1, i)] : i \in 1..n}
    /\ published = {chain[i] : i \in 1..n}

(* Store and sink never diverge: what Complete has stored is the sink's    *)
(* chain, and no request on the wire, however late, asks the sink to fork  *)
(* it, for each is the next event or an exact repetition ("a later event   *)
(* must not replace this sequence", Release).                              *)
NoFork ==
    /\ ReceiptsMatchChain
    /\ \A r \in wire : Appends(r.delivery) \/ Repeats(r.delivery)

(* Every committed message is exported and its receipt stored, once        *)
(* failures end: no exporter starves on stale hints, a dead lease or a     *)
(* lost claim.                                                             *)
EveryMessageExported == \A m \in Message : m \in outbox ~> Received(m)

(* Exporters, store and sink together implement the abstract chain.        *)
Abstract == INSTANCE EvidenceChain WITH acked <- checkpoint.last_sequence
ImplementsChain == Abstract!Spec
=============================================================================
