------------------------ MODULE EvidenceExportProofs ------------------------
(***************************************************************************)
(* Store and sink never diverge, for any number of exporters, messages and *)
(* failures, and the exporters implement the safety part of EvidenceChain. *)
(*                                                                         *)
(* The argument: the sink's chain is the acknowledged one (the             *)
(* checkpoint's hash) or one event longer, and then the extra event is the *)
(* one the checkpoint names as claimed.  Every delivery, held or under     *)
(* way, either repeats an acknowledged position or carries that event to   *)
(* the next one.  Release, takeover and restart keep the claimed event, so *)
(* nothing else can ever be sent for its position.                         *)
(***************************************************************************)
EXTENDS EvidenceExport, SequenceTheorems, TLAPS

Acked == checkpoint.last_event_hash
Claimed == checkpoint.claimed_event
Position == checkpoint.last_sequence

(* What a delivery may be, relative to the checkpoint.                     *)
Old(d) ==
    /\ d.sequence \in 1..Position
    /\ EventHash(d) = SubSeq(Acked, 1, d.sequence)
Current(d) ==
    /\ d.sequence = Position + 1
    /\ d.previous = Acked
    /\ d.event = Claimed

(* The types the argument needs.                                           *)
ExportTypes ==
    /\ outbox \subseteq Message
    /\ checkpoint \in Checkpoint
    /\ pending \in [Exporter -> SUBSET Message]
    /\ step \in [Exporter -> Step]
    /\ wire \subseteq Request

(* The sink's chain is the acknowledged one, or that and the claimed       *)
(* event, which is not in it yet.                                          *)
ChainInv ==
    /\ Len(Acked) = Position
    /\ \/ chain = Acked
       \/ Claimed # None /\ chain = Append(Acked, Claimed)
    /\ Claimed # None => Claimed \in outbox /\ \A i \in 1..Position : Acked[i] # Claimed

(* Receipts and published_at, as Complete leaves them.                     *)
AckReceipt(i) ==
    [event |-> Acked[i], sequence |-> i, previous |-> SubSeq(Acked, 1, i - 1),
     hash |-> SubSeq(Acked, 1, i)]
ReceiptInv ==
    /\ receipts = {AckReceipt(i) : i \in 1..Position}
    /\ published = {Acked[i] : i \in 1..Position}

(* What an exporter is about to claim: the outstanding event if the row it *)
(* read has one, and nothing received while the position is the same.      *)
FitsClaim(s) ==
    s.pc = "claim" =>
        /\ s.event \in outbox
        /\ s.row.last_sequence <= Position
        /\ s.row.claimed_event # None => s.event = s.row.claimed_event
        /\ s.row.last_sequence = Position => \A i \in 1..Position : Acked[i] # s.event

(* What a delivery in an exporter's hands is; from the answer on the sink  *)
(* has accepted it.                                                        *)
Holding == {"send", "wait", "complete", "commit", "release"}
Fits(d) == Old(d) \/ Current(d)
FitsHeld(s) ==
    /\ s.pc \in Holding => Fits(s.delivery)
    /\ s.pc \in {"complete", "commit"} => Old(s.delivery) \/ chain = EventHash(s.delivery)

StepInv == \A x \in Exporter : FitsClaim(step[x]) /\ FitsHeld(step[x])

(* Deliveries on the wire, and who waits for them.                         *)
AwaitedBy(r, x) == step[x].pc = "wait" /\ step[x].delivery = r.delivery
WireInv == \A r \in wire : Fits(r.delivery) /\ (r.from # None => AwaitedBy(r, r.from))

ExportInv == ExportTypes /\ ChainInv /\ ReceiptInv /\ StepInv /\ WireInv

-----------------------------------------------------------------------------
(* A prefix of a sequence does not change when the sequence grows.         *)
LEMMA PrefixKept ==
    ASSUME NEW S, NEW s \in Seq(S), NEW e \in S, NEW i \in 0..Len(s)
    PROVE  SubSeq(Append(s, e), 1, i) = SubSeq(s, 1, i)
<1> DEFINE t == Append(s, e)
<1>1. /\ t \in Seq(S) /\ Len(t) = Len(s) + 1
      /\ \A j \in 1..Len(s) : t[j] = s[j]
  BY AppendProperties
<1>2. \A j \in 1..i : t[j] = s[j] /\ s[j] \in S /\ t[j] \in S
  BY <1>1, ElementOfSeq
<1>3. /\ SubSeq(t, 1, i) \in Seq(S)
      /\ Len(SubSeq(t, 1, i)) = i
      /\ \A j \in 1..i : SubSeq(t, 1, i)[j] = t[j]
  BY <1>2, SubSeqProperties
<1>4. /\ SubSeq(s, 1, i) \in Seq(S)
      /\ Len(SubSeq(s, 1, i)) = i
      /\ \A j \in 1..i : SubSeq(s, 1, i)[j] = s[j]
  BY <1>2, SubSeqProperties
<1> QED
  BY <1>2, <1>3, <1>4, SeqEqual, Zenon

(* A step that holds a delivery keeps it, and its type, when it moves on.  *)
LEMMA HeldStep ==
    ASSUME NEW s \in Step, s.pc \in Holding, NEW p \in Holding
    PROVE  /\ s.delivery \in Delivery
           /\ s.token \in Token
           /\ [s EXCEPT !.pc = p] \in Step
           /\ [s EXCEPT !.pc = p].pc = p
           /\ [s EXCEPT !.pc = p].delivery = s.delivery
<1>1. s \in [pc : Holding, token : Token, delivery : Delivery]
  BY DEF Step, Holding, Idle
<1>2. [s EXCEPT !.pc = p] = [pc |-> p, token |-> s.token, delivery |-> s.delivery]
  BY <1>1
<1> QED
  BY <1>1, <1>2, Zenon DEF Step, Holding

(* An exporter moves on by itself: nothing shared but the wire changes.    *)
LEMMA Move ==
    ASSUME ExportInv, NEW x \in Exporter, NEW s \in Step,
           step' = [step EXCEPT ![x] = s],
           outbox' = outbox, published' = published, checkpoint' = checkpoint,
           receipts' = receipts, chain' = chain,
           pending' \in [Exporter -> SUBSET Message],
           FitsClaim(s), FitsHeld(s),
           wire' \subseteq Request,
           \A r \in wire' : /\ Fits(r.delivery)
                            /\ r.from # None => AwaitedBy(r, r.from)'
    PROVE  ExportInv'
<1>1. ExportTypes'
  BY Zenon DEF ExportInv, ExportTypes
<1>2. ChainInv' /\ ReceiptInv'
  BY Zenon DEF ExportInv, ChainInv, ReceiptInv, AckReceipt, Acked, Claimed, Position
<1>3. StepInv'
  <2> SUFFICES ASSUME NEW y \in Exporter
               PROVE  FitsClaim(step[y])' /\ FitsHeld(step[y])'
    BY Zenon DEF StepInv
  <2>1. FitsClaim(step'[y]) /\ FitsHeld(step'[y])
    BY Zenon DEF ExportInv, ExportTypes, StepInv
  <2> QED
    BY <2>1 DEF FitsClaim, FitsHeld, Fits, Old, Current, Acked, Claimed, Position
<1>4. WireInv'
  BY Zenon DEF WireInv, Fits, Old, Current, Acked, Claimed, Position
<1> QED
  BY <1>1, <1>2, <1>3, <1>4, Zenon DEF ExportInv

(* It moves to a step without a candidate or a delivery.                   *)
LEMMA MoveQuietly ==
    ASSUME ExportInv, NEW x \in Exporter, step[x].pc # "wait", NEW s \in Step,
           s.pc \in {"idle", "refill", "read"},
           step' = [step EXCEPT ![x] = s],
           outbox' = outbox, published' = published, checkpoint' = checkpoint,
           receipts' = receipts, chain' = chain, wire' = wire,
           pending' \in [Exporter -> SUBSET Message]
    PROVE  ExportInv'
<1>1. FitsClaim(s) /\ FitsHeld(s)
  BY Zenon DEF FitsClaim, FitsHeld, Holding
<1>2. ASSUME NEW r \in wire'
      PROVE  Fits(r.delivery) /\ (r.from # None => AwaitedBy(r, r.from)')
  BY <1>2, Zenon DEF ExportInv, ExportTypes, WireInv, AwaitedBy, Request
<1>3. wire' \subseteq Request
  BY Zenon DEF ExportInv, ExportTypes
<1> QED
  BY <1>1, <1>2, <1>3, Move, Zenon

(* Types of the steps that carry neither.                                  *)
LEMMA QuietSteps ==
    /\ Idle \in Step /\ Idle.pc = "idle"
    /\ \A n \in {1, 2} : \A hints :
          Attempt(n, hints) \in Step /\ Attempt(n, hints).pc \in {"refill", "read"}
    /\ \A n \in {1, 2} :
          [pc |-> "read", attempt |-> n] \in Step /\ [pc |-> "read", attempt |-> n].pc = "read"
  BY Zenon DEF Idle, Step, Attempt

(* Claim's loop, after it found nothing to claim.                          *)
LEMMA NothingClaimedStep ==
    ASSUME ExportInv, NEW x \in Exporter, NothingClaimed(x), step[x].pc # "wait",
           outbox' = outbox, published' = published, checkpoint' = checkpoint,
           receipts' = receipts, chain' = chain, wire' = wire
    PROVE  ExportInv'
<1>1. pending' \in [Exporter -> SUBSET Message]
  BY Zenon DEF NothingClaimed, ExportInv, ExportTypes
<1>2. PICK s \in {Attempt(2, {}), Idle} : step' = [step EXCEPT ![x] = s]
  BY Zenon DEF NothingClaimed, Goto
<1>3. s \in Step /\ s.pc \in {"idle", "refill", "read"}
  BY <1>2, QuietSteps
<1> QED
  BY <1>1, <1>2, <1>3, MoveQuietly, Zenon

(* Where an exporter with neither candidate nor delivery stands.           *)
LEMMA StepTypes ==
    ASSUME NEW s \in Step
    PROVE  /\ s.pc \in {"refill", "read", "claim"} => s.attempt \in {1, 2}
           /\ s.pc = "claim" => s.row \in Checkpoint /\ s.event \in Message
           /\ s.pc \in {"idle", "refill", "read", "claim"} \cup Holding
  BY DEF Step, Idle, Holding

(* An attempt to export begins: only the exporter's step changes.          *)
LEMMA BeginExportInv ==
    ASSUME ExportInv, NEW x \in Exporter, BeginExport(x)
    PROVE  ExportInv'
<1>1. Attempt(1, pending[x]) \in Step /\ Attempt(1, pending[x]).pc \in {"refill", "read"}
  BY QuietSteps, Zenon
<1>2. step[x].pc # "wait"
  BY QuietSteps, Zenon DEF BeginExport
<1>3. /\ step' = [step EXCEPT ![x] = Attempt(1, pending[x])]
      /\ outbox' = outbox /\ published' = published /\ checkpoint' = checkpoint
      /\ receipts' = receipts /\ chain' = chain /\ wire' = wire
      /\ pending' \in [Exporter -> SUBSET Message]
  BY Zenon DEF BeginExport, Goto, store, ExportInv, ExportTypes
<1> QED
  BY <1>1, <1>2, <1>3, MoveQuietly, Zenon

(* refillPending replaces the exporter's hints; nothing relies on them.    *)
LEMMA RefillInv ==
    ASSUME ExportInv, NEW x \in Exporter, refillPending(x)
    PROVE  ExportInv'
<1>1. step[x] \in Step /\ step[x].pc = "refill"
  BY Zenon DEF refillPending, ExportInv, ExportTypes
<1> DEFINE s == [pc |-> "read", attempt |-> step[x].attempt]
<1>2. s \in Step /\ s.pc = "read"
  BY <1>1, StepTypes, QuietSteps, Zenon
<1>3. FirstOf(BatchSize, {m \in outbox : ~Received(m)}) \in SUBSET Message
  BY Zenon DEF FirstOf, ExportInv, ExportTypes
<1>4. /\ step' = [step EXCEPT ![x] = s]
      /\ outbox' = outbox /\ published' = published /\ checkpoint' = checkpoint
      /\ receipts' = receipts /\ chain' = chain /\ wire' = wire
      /\ pending' \in [Exporter -> SUBSET Message]
  BY <1>3, Zenon DEF refillPending, Goto, store, ExportInv, ExportTypes
<1> HIDE DEF s
<1> QED
  BY <1>1, <1>2, <1>4, MoveQuietly, Zenon

(* Every acknowledged position has its receipt.                            *)
LEMMA AckReceipts ==
    ASSUME ExportInv
    PROVE  \A i \in 1..Position : /\ AckReceipt(i) \in receipts
                                  /\ AckReceipt(i).event = Acked[i]
                                  /\ AckReceipt(i).sequence = i
<1>1. \A i : AckReceipt(i).event = Acked[i] /\ AckReceipt(i).sequence = i
  BY Zenon DEF AckReceipt
<1>2. \A i \in 1..Position : AckReceipt(i) \in receipts
  BY Zenon DEF ExportInv, ReceiptInv
<1> QED
  BY <1>1, <1>2, Zenon

(* A candidate is committed, unreceived, and the outstanding event if      *)
(* there is one.                                                           *)
LEMMA CandidateFits ==
    ASSUME ExportInv, NEW hints \in SUBSET Message, NEW m \in Candidate(hints)
    PROVE  /\ m \in outbox
           /\ Claimed # None => m = Claimed
           /\ \A i \in 1..Position : Acked[i] # m
<1>1. m \in Choice(checkpoint, hints) \cap outbox /\ ~Received(m)
  BY Zenon DEF Candidate, Earliest
<1>2. \A i \in 1..Position : AckReceipt(i) \in receipts /\ AckReceipt(i).event = Acked[i]
  BY AckReceipts, Zenon
<1>3. \A i \in 1..Position : Acked[i] # m
  BY <1>1, <1>2, Zenon DEF Received
<1> QED
  BY <1>1, <1>3, Zenon DEF Choice, Claimed

(* claimCandidate's reads, which the claim itself checks again.            *)
LEMMA ReadCandidateInv ==
    ASSUME ExportInv, NEW x \in Exporter, ReadCandidate(x)
    PROVE  ExportInv'
<1>1. /\ outbox' = outbox /\ published' = published /\ checkpoint' = checkpoint
      /\ receipts' = receipts /\ chain' = chain /\ wire' = wire
      /\ step[x].pc = "read" /\ step[x] \in Step
  BY Zenon DEF ReadCandidate, store, ExportInv, ExportTypes
<1>2. CASE NothingClaimed(x)
  BY <1>1, <1>2, NothingClaimedStep, Zenon
<1>3. CASE /\ \E m \in Candidate(pending[x]) :
                 Goto(x, [pc |-> "claim", attempt |-> step[x].attempt,
                          row |-> checkpoint, event |-> m])
           /\ UNCHANGED pending
  <2>1. PICK m \in Candidate(pending[x]) :
           Goto(x, [pc |-> "claim", attempt |-> step[x].attempt,
                    row |-> checkpoint, event |-> m])
    BY <1>3, Zenon
  <2> DEFINE s == [pc |-> "claim", attempt |-> step[x].attempt,
                   row |-> checkpoint, event |-> m]
  <2>2. /\ m \in outbox
        /\ Claimed # None => m = Claimed
        /\ \A i \in 1..Position : Acked[i] # m
    BY CandidateFits, Zenon DEF ExportInv, ExportTypes
  <2>3. s \in Step /\ s.pc = "claim" /\ s.row = checkpoint /\ s.event = m
    BY <1>1, <2>2, StepTypes, Zenon DEF Step, ExportInv, ExportTypes
  <2>4. FitsClaim(s)
    BY <2>2, <2>3 DEF FitsClaim, Claimed, Position, Checkpoint, ExportInv, ExportTypes
  <2>5. FitsHeld(s)
    BY <2>3, Zenon DEF FitsHeld, Holding
  <2>6. /\ step' = [step EXCEPT ![x] = s]
        /\ pending' \in [Exporter -> SUBSET Message] /\ wire' \subseteq Request
    BY <1>1, <1>3, <2>1, Zenon DEF Goto, ExportInv, ExportTypes
  <2> HIDE DEF s
  <2>7. ASSUME NEW r \in wire'
        PROVE  Fits(r.delivery) /\ (r.from # None => AwaitedBy(r, r.from)')
    BY <1>1, <2>6, <2>7, Zenon DEF ExportInv, ExportTypes, WireInv, AwaitedBy, Request
  <2> QED
    BY <1>1, <2>3, <2>4, <2>5, <2>6, <2>7, Move, Zenon
<1> QED
  BY <1>2, <1>3, Zenon DEF ReadCandidate

-----------------------------------------------------------------------------
(* What the types say of the checkpoint.                                   *)
LEMMA CheckpointTypes ==
    ASSUME ExportInv
    PROVE  /\ Position \in Nat /\ Acked \in Seq(Message) /\ Len(Acked) = Position
           /\ Claimed \in Message \cup {None} /\ None \notin Message
  BY ExportAssumption, Zenon
     DEF ExportInv, ExportTypes, ChainInv, Checkpoint, Hash, Position, Acked, Claimed

(* The claim changes hands, or an event is claimed where none was: no      *)
(* delivery loses its place.                                               *)
LEMMA Reclaim ==
    ASSUME ExportInv, checkpoint' \in Checkpoint,
           Acked' = Acked, Position' = Position,
           \/ Claimed' = Claimed
           \/ /\ Claimed = None
              /\ Claimed' \in outbox /\ \A i \in 1..Position : Acked[i] # Claimed',
           outbox' = outbox, published' = published, receipts' = receipts, chain' = chain
    PROVE  /\ ChainInv' /\ ReceiptInv'
           /\ \A d \in Delivery : Fits(d) => Fits(d)'
           /\ \A s \in Step : FitsClaim(s) /\ FitsHeld(s) => FitsClaim(s)' /\ FitsHeld(s)'
<1>1. ChainInv'
  BY Zenon DEF ExportInv, ChainInv
<1>2. ReceiptInv'
  BY Zenon DEF ExportInv, ReceiptInv, AckReceipt
<1>3. ASSUME NEW d \in Delivery, Fits(d)
      PROVE  Fits(d)'
  <2>1. CASE Old(d)
    BY <2>1, Zenon DEF Fits, Old
  <2>2. CASE Current(d)
    <3>1. d.event \in Message
      BY Zenon DEF Delivery
    <3>2. Claimed' = Claimed
      BY <2>2, <3>1, CheckpointTypes, Zenon DEF Current
    <3> QED
      BY <2>2, <3>2, Zenon DEF Fits, Current
  <2> QED
    BY <1>3, <2>1, <2>2, Zenon DEF Fits
<1>4. ASSUME NEW s \in Step, FitsClaim(s), FitsHeld(s)
      PROVE  FitsClaim(s)' /\ FitsHeld(s)'
  <2>1. FitsClaim(s)'
    BY <1>4, Zenon DEF FitsClaim
  <2>2. s.pc \in Holding => s.delivery \in Delivery
    BY HeldStep, Zenon
  <2>3. FitsHeld(s)'
    BY <1>3, <1>4, <2>2, Zenon DEF FitsHeld, Old, Holding
  <2> QED
    BY <2>1, <2>3, Zenon
<1> QED
  BY <1>1, <1>2, <1>3, <1>4, Zenon

(* One exporter's step with it.                                            *)
LEMMA ReclaimStep ==
    ASSUME ExportInv, NEW x \in Exporter, NEW s \in Step, step[x].pc # "wait",
           step' = [step EXCEPT ![x] = s], FitsClaim(s)', FitsHeld(s)',
           checkpoint' \in Checkpoint,
           Acked' = Acked, Position' = Position,
           \/ Claimed' = Claimed
           \/ /\ Claimed = None
              /\ Claimed' \in outbox /\ \A i \in 1..Position : Acked[i] # Claimed',
           outbox' = outbox, published' = published, receipts' = receipts, chain' = chain,
           wire' = wire, pending' \in [Exporter -> SUBSET Message]
    PROVE  ExportInv'
<1>1. ExportTypes'
  BY Zenon DEF ExportInv, ExportTypes
<1>2. /\ ChainInv' /\ ReceiptInv'
      /\ \A d \in Delivery : Fits(d) => Fits(d)'
      /\ \A q \in Step : FitsClaim(q) /\ FitsHeld(q) => FitsClaim(q)' /\ FitsHeld(q)'
  BY Reclaim, Zenon
<1>3. StepInv'
  <2> SUFFICES ASSUME NEW y \in Exporter
               PROVE  FitsClaim(step[y])' /\ FitsHeld(step[y])'
    BY Zenon DEF StepInv
  <2>1. CASE y = x
    <3>1. step'[y] = s
      BY <2>1, Zenon DEF ExportInv, ExportTypes
    <3> QED
      BY <3>1, Zenon DEF FitsClaim, FitsHeld
  <2>2. CASE y # x
    <3>1. step'[y] = step[y] /\ step[y] \in Step /\ FitsClaim(step[y]) /\ FitsHeld(step[y])
      BY <2>2, Zenon DEF ExportInv, ExportTypes, StepInv
    <3> DEFINE q == step[y]
    <3>2. ASSUME NEW z \in Step, z = q
          PROVE  FitsClaim(z)' /\ FitsHeld(z)'
      BY <1>2, <3>1, <3>2, Zenon
    <3>3. PICK z \in Step : z = q
      BY <3>1, Zenon
    <3>4. FitsClaim(z)' /\ FitsHeld(z)' /\ step'[y] = z
      BY <3>1, <3>2, <3>3, Zenon
    <3> QED
      BY <3>4, Zenon DEF FitsClaim, FitsHeld
  <2> QED
    BY <2>1, <2>2, Zenon
<1>4. WireInv'
  <2> SUFFICES ASSUME NEW r \in wire
               PROVE  Fits(r.delivery)' /\ (r.from # None => AwaitedBy(r, r.from)')
    BY Zenon DEF WireInv
  <2>1. Fits(r.delivery) /\ (r.from # None => AwaitedBy(r, r.from)) /\ r \in Request
    BY Zenon DEF ExportInv, ExportTypes, WireInv
  <2>2. r.delivery \in Delivery /\ r.from \in Exporter \cup {None}
    BY <2>1, Zenon DEF Request
  <2> QED
    BY <1>2, <2>1, <2>2, Zenon DEF AwaitedBy, ExportInv, ExportTypes
<1> QED
  BY <1>1, <1>2, <1>3, <1>4, Zenon DEF ExportInv

(* The claim: the outstanding event again, or a first one.                 *)
LEMMA ClaimInv ==
    ASSUME ExportInv, NEW x \in Exporter, claimCandidate(x)
    PROVE  ExportInv'
<1> DEFINE s == step[x]
<1>0. /\ s \in Step /\ s.pc = "claim"
      /\ outbox' = outbox /\ published' = published /\ receipts' = receipts
      /\ chain' = chain /\ wire' = wire
  BY Zenon DEF claimCandidate, ExportInv, ExportTypes
<1>1. s.row \in Checkpoint /\ s.event \in Message /\ FitsClaim(s)
  BY <1>0, StepTypes, Zenon DEF ExportInv, StepInv
<1>2. CASE ~Unclaimed(s.row)
  <2>1. NothingClaimed(x) /\ checkpoint' = checkpoint
    BY <1>2, Zenon DEF claimCandidate
  <2> QED
    BY <1>0, <2>1, NothingClaimedStep, Zenon
<1>3. CASE Unclaimed(s.row)
  <2>1. PICK t \in NewID :
           /\ checkpoint' = [checkpoint EXCEPT !.claim_token = t, !.claimed_event = s.event]
           /\ Goto(x, [pc |-> "send", token |-> t,
                       delivery |-> NewDelivery(checkpoint, s.event)])
    BY <1>3, Zenon DEF claimCandidate
  <2>2. t \in Token
    BY Zenon DEF NewID, Earliest
  <2>3. checkpoint \in Checkpoint
    BY Zenon DEF ExportInv, ExportTypes
  <2>4. /\ checkpoint' \in Checkpoint
        /\ Acked' = Acked /\ Position' = Position /\ Claimed' = s.event
    BY <1>1, <2>1, <2>2, <2>3, Zenon DEF Checkpoint, Acked, Position, Claimed
  <2>5. /\ s.row.last_sequence = Position
        /\ s.row.claimed_event = Claimed
    BY <1>3, Zenon DEF Unclaimed, SameSequence, Position, Claimed
  <2>6. \/ Claimed' = Claimed
        \/ /\ Claimed = None
           /\ Claimed' \in outbox /\ \A i \in 1..Position : Acked[i] # Claimed'
    BY <1>0, <1>1, <2>4, <2>5, Zenon DEF FitsClaim
  <2> DEFINE d == NewDelivery(checkpoint, s.event)
  <2>7. /\ d \in Delivery /\ d.sequence = Position + 1
        /\ d.previous = Acked /\ d.event = s.event
    BY <1>1, <2>3, CheckpointTypes
       DEF NewDelivery, Delivery, Hash, Position, Acked
  <2> HIDE DEF d
  <2>8. PICK n \in Step : n = [pc |-> "send", token |-> t, delivery |-> d]
    BY <2>2, <2>7, Zenon DEF Step
  <2>9. step' = [step EXCEPT ![x] = n] /\ pending' \in [Exporter -> SUBSET Message]
    <3>1. pending' = [pending EXCEPT ![x] = @ \ {s.event}]
      BY <1>3, Zenon DEF claimCandidate
    <3>2. step' = [step EXCEPT ![x] = n]
      BY <2>1, <2>8, Zenon DEF d, Goto
    <3>3. pending' \in [Exporter -> SUBSET Message]
      BY <3>1, Zenon DEF ExportInv, ExportTypes
    <3> QED
      BY <3>2, <3>3, Zenon
  <2>10. FitsClaim(n)'
    BY <2>8, Zenon DEF FitsClaim
  <2>11. FitsHeld(n)'
    <3>1. Current(n.delivery)'
      BY <2>4, <2>7, <2>8, Zenon DEF Current
    <3> QED
      BY <2>8, <3>1, Zenon DEF FitsHeld, Fits
  <2> QED
    BY <1>0, <2>4, <2>6, <2>8, <2>9, <2>10, <2>11, ReclaimStep, Zenon
<1> QED
  BY <1>2, <1>3, Zenon

(* Release renews the token; whoever lost the claim only goes idle.        *)
LEMMA ReleaseInv ==
    ASSUME ExportInv, NEW x \in Exporter, Release(x)
    PROVE  ExportInv'
<1>1. /\ step[x].pc # "wait" /\ step' = [step EXCEPT ![x] = Idle]
      /\ outbox' = outbox /\ published' = published /\ receipts' = receipts
      /\ chain' = chain /\ wire' = wire
      /\ pending' \in [Exporter -> SUBSET Message]
  BY Zenon DEF Release, Goto, ExportInv, ExportTypes
<1>2. CASE \E t \in NewID : checkpoint' = Released(t)
  <2>1. PICK t \in NewID : checkpoint' = Released(t)
    BY <1>2, Zenon
  <2>2. t \in Token
    BY Zenon DEF NewID, Earliest
  <2>3. checkpoint \in Checkpoint
    BY Zenon DEF ExportInv, ExportTypes
  <2>4. /\ checkpoint' \in Checkpoint
        /\ Acked' = Acked /\ Position' = Position /\ Claimed' = Claimed
    BY <2>1, <2>2, <2>3, Zenon DEF Released, Checkpoint, Acked, Position, Claimed
  <2>5. FitsClaim(Idle)' /\ FitsHeld(Idle)' /\ Idle \in Step
    BY QuietSteps, Zenon DEF FitsClaim, FitsHeld, Holding
  <2> QED
    BY <1>1, <2>4, <2>5, ReclaimStep, Zenon
<1>3. CASE UNCHANGED <<checkpoint, leased>>
  BY <1>1, <1>3, QuietSteps, MoveQuietly, Zenon
<1> QED
  BY <1>2, <1>3, Zenon DEF Release

-----------------------------------------------------------------------------
(* The request leaves: its delivery is the one the exporter holds.         *)
LEMMA SendInv ==
    ASSUME ExportInv, NEW x \in Exporter, SendDelivery(x)
    PROVE  ExportInv'
<1> DEFINE s == [step[x] EXCEPT !.pc = "wait"]
           q == [from |-> x, delivery |-> step[x].delivery]
<1>1. /\ step[x] \in Step /\ step[x].pc = "send" /\ FitsHeld(step[x])
      /\ step' = [step EXCEPT ![x] = s] /\ wire' = wire \cup {q}
      /\ outbox' = outbox /\ published' = published /\ checkpoint' = checkpoint
      /\ receipts' = receipts /\ chain' = chain
      /\ pending' \in [Exporter -> SUBSET Message]
  BY Zenon DEF SendDelivery, Goto, store, ExportInv, ExportTypes, StepInv
<1>2. /\ s \in Step /\ s.pc = "wait" /\ s.delivery = step[x].delivery
      /\ step[x].delivery \in Delivery
  BY <1>1, HeldStep, Zenon DEF Holding
<1>3. q \in Request /\ q.from = x /\ q.delivery = step[x].delivery
  BY <1>2, Zenon DEF Request
<1> HIDE DEF s, q
<1>4. Fits(step[x].delivery)
  BY <1>1, Zenon DEF FitsHeld, Holding
<1>5. FitsClaim(s) /\ FitsHeld(s)
  BY <1>2, <1>4, Zenon DEF FitsClaim, FitsHeld
<1>6. step'[x] = s
  BY <1>1, Zenon DEF ExportInv, ExportTypes
<1>7. ASSUME NEW r \in wire'
      PROVE  r \in Request /\ Fits(r.delivery) /\ (r.from # None => AwaitedBy(r, r.from)')
  <2>1. CASE r = q
    BY <1>2, <1>3, <1>4, <1>6, <2>1, Zenon DEF AwaitedBy
  <2>2. CASE r \in wire
    BY <1>1, <2>2, Zenon DEF ExportInv, ExportTypes, WireInv, AwaitedBy, Request
  <2> QED
    BY <1>1, <2>1, <2>2, Zenon
<1> QED
  BY <1>1, <1>2, <1>5, <1>7, Move, Zenon

(* An exporter that waits gives up, and no request names it any more.      *)
LEMMA GiveUp ==
    ASSUME ExportInv, NEW x \in Exporter, NEW s \in Step,
           step' = [step EXCEPT ![x] = s],
           \/ s = Idle
           \/ step[x].pc = "wait" /\ s = [step[x] EXCEPT !.pc = "release"],
           outbox' = outbox, published' = published, checkpoint' = checkpoint,
           receipts' = receipts, chain' = chain,
           pending' \in [Exporter -> SUBSET Message],
           \A r \in wire' : /\ \E q \in wire : q.delivery = r.delivery
                            /\ r.from # None => r \in wire /\ r.from # x
                            /\ r \in Request
    PROVE  ExportInv'
<1>1. FitsClaim(s) /\ FitsHeld(s)
  <2>1. CASE s = Idle
    BY <2>1, QuietSteps, Zenon DEF FitsClaim, FitsHeld, Holding
  <2>2. CASE step[x].pc = "wait" /\ s = [step[x] EXCEPT !.pc = "release"]
    <3>1. step[x] \in Step /\ FitsHeld(step[x]) /\ step[x].pc \in Holding
      BY <2>2, Zenon DEF ExportInv, ExportTypes, StepInv, Holding
    <3>2. s.pc = "release" /\ s.delivery = step[x].delivery
      BY <2>2, <3>1, HeldStep, Zenon DEF Holding
    <3> QED
      BY <3>1, <3>2, Zenon DEF FitsClaim, FitsHeld
  <2> QED
    BY <2>1, <2>2, Zenon
<1>2. ASSUME NEW r \in wire'
      PROVE  Fits(r.delivery) /\ (r.from # None => AwaitedBy(r, r.from)')
  <2>1. Fits(r.delivery)
    BY Zenon DEF ExportInv, WireInv
  <2>2. ASSUME r.from # None
        PROVE  AwaitedBy(r, r.from)'
    <3>1. r \in wire /\ r.from # x /\ AwaitedBy(r, r.from) /\ r.from \in Exporter
      BY <2>2, Zenon DEF ExportInv, ExportTypes, WireInv, Request
    <3> QED
      BY <3>1, Zenon DEF AwaitedBy, ExportInv, ExportTypes
  <2> QED
    BY <2>1, <2>2, Zenon
<1> QED
  BY <1>1, <1>2, Move, Zenon

(* A refused or unanswered delivery leaves chain and claim alone.          *)
LEMMA ExportFailsInv ==
    ASSUME ExportInv, NEW x \in Exporter, ExportFails(x)
    PROVE  ExportInv'
<1> DEFINE s == [step[x] EXCEPT !.pc = "release"]
<1>1. /\ step[x] \in Step /\ step[x].pc = "wait"
      /\ step' = [step EXCEPT ![x] = s] /\ wire' = wire
      /\ outbox' = outbox /\ published' = published /\ checkpoint' = checkpoint
      /\ receipts' = receipts /\ chain' = chain
      /\ pending' \in [Exporter -> SUBSET Message]
  BY Zenon DEF ExportFails, Goto, store, ExportInv, ExportTypes
<1>2. s \in Step
  BY <1>1, HeldStep, Zenon DEF Holding
<1>3. ASSUME NEW r \in wire, r.from # None
      PROVE  r.from # x
  <2>1. r \in Request /\ AwaitedBy(r, r.from)
    BY <1>3, Zenon DEF ExportInv, ExportTypes, WireInv
  <2>2. r.from = x => r = [from |-> x, delivery |-> step[x].delivery]
    BY <2>1, Zenon DEF AwaitedBy, Request
  <2> QED
    BY <2>2, Zenon DEF ExportFails, Outstanding
<1>4. wire \subseteq Request
  BY Zenon DEF ExportInv, ExportTypes
<1> HIDE DEF s
<1>5. \A r \in wire' : /\ \E q \in wire : q.delivery = r.delivery
                       /\ r.from # None => r \in wire /\ r.from # x
                       /\ r \in Request
  BY <1>1, <1>3, <1>4, Zenon
<1> QED
  BY <1>1, <1>2, <1>5, GiveUp, Zenon DEF s

(* What Orphaned leaves on the wire.                                       *)
LEMMA OrphanedWire ==
    ASSUME ExportInv, NEW x \in Exporter, NEW r \in Orphaned(x)
    PROVE  /\ \E q \in wire : q.delivery = r.delivery
           /\ r.from # None => r \in wire /\ r.from # x
           /\ r \in Request
<1>1. PICK q \in wire : r = IF q.from = x THEN [q EXCEPT !.from = None] ELSE q
  BY Zenon DEF Orphaned
<1>2. q \in Request
  BY Zenon DEF ExportInv, ExportTypes
<1>3. CASE q.from = x
  <2>1. r = [from |-> None, delivery |-> q.delivery]
    BY <1>1, <1>2, <1>3, Zenon DEF Request
  <2> QED
    BY <1>2, <2>1, Zenon DEF Request
<1>4. CASE q.from # x
  BY <1>1, <1>2, <1>4, Zenon
<1> QED
  BY <1>3, <1>4, Zenon

(* Time-outs, lost requests, failed statements, restarts, dead leases.     *)
LEMMA FaultInv ==
    ASSUME ExportInv, NEW x \in Exporter, TimeOut(x) \/ StatementFails(x) \/ Restart(x)
    PROVE  ExportInv'
<1>0. /\ outbox' = outbox /\ published' = published /\ checkpoint' = checkpoint
      /\ receipts' = receipts /\ chain' = chain
      /\ pending' \in [Exporter -> SUBSET Message]
      /\ step[x] \in Step
  BY Zenon DEF TimeOut, StatementFails, Restart, store, ExportInv, ExportTypes
<1>1. CASE TimeOut(x)
  <2> DEFINE s == [step[x] EXCEPT !.pc = "release"]
  <2>1. step[x].pc = "wait" /\ step' = [step EXCEPT ![x] = s] /\ wire' = Orphaned(x)
    BY <1>1, Zenon DEF TimeOut, Goto
  <2>2. s \in Step
    BY <1>0, <2>1, HeldStep, Zenon DEF Holding
  <2> HIDE DEF s
  <2>3. \A r \in wire' : /\ \E q \in wire : q.delivery = r.delivery
                         /\ r.from # None => r \in wire /\ r.from # x
                         /\ r \in Request
    BY <2>1, OrphanedWire, Zenon
  <2> QED
    BY <1>0, <2>1, <2>2, <2>3, GiveUp, Zenon DEF s
<1>2. CASE StatementFails(x)
  BY <1>0, <1>2, QuietSteps, MoveQuietly, Zenon DEF StatementFails, Goto
<1>3. CASE Restart(x)
  <2>1. step' = [step EXCEPT ![x] = Idle] /\ wire' = Orphaned(x)
    BY <1>3, Zenon DEF Restart, Goto
  <2>2. \A r \in wire' : /\ \E q \in wire : q.delivery = r.delivery
                         /\ r.from # None => r \in wire /\ r.from # x
                         /\ r \in Request
    BY <2>1, OrphanedWire, Zenon
  <2> QED
    BY <1>0, <2>1, <2>2, QuietSteps, GiveUp, Zenon
<1> QED
  BY <1>1, <1>2, <1>3, Zenon

-----------------------------------------------------------------------------
(* The sink only ever appends the claimed event to the acknowledged chain. *)
LEMMA SinkAppends ==
    ASSUME ExportInv, NEW d \in Delivery, Fits(d), Appends(d)
    PROVE  chain = Acked /\ Claimed # None /\ EventHash(d) = Append(Acked, Claimed)
<1>1. Position \in Nat /\ Len(Acked) = Position /\ Acked \in Seq(Message) /\ None \notin Message
  BY CheckpointTypes, Zenon
<1>2. Len(chain) = Position \/ Len(chain) = Position + 1
  BY <1>1, CheckpointTypes, AppendProperties DEF ExportInv, ChainInv
<1>3. ~Old(d)
  BY <1>1, <1>2 DEF Old, Appends
<1>4. Current(d) /\ d.event \in Message
  BY <1>3, Zenon DEF Fits, Delivery
<1> QED
  BY <1>1, <1>4, Zenon DEF Current, Appends, EventHash

(* The sink's chain after a request: as it was, or the claimed event was   *)
(* appended.                                                               *)
LEMMA ChainGrows ==
    ASSUME ExportInv, chain' = chain \/ (Claimed # None /\ chain' = Append(Acked, Claimed)),
           outbox' = outbox, published' = published, checkpoint' = checkpoint,
           receipts' = receipts
    PROVE  /\ ChainInv' /\ ReceiptInv'
           /\ \A d : Fits(d)' <=> Fits(d)
           /\ \A s : FitsClaim(s)' <=> FitsClaim(s)
           /\ \A s : FitsHeld(s) => FitsHeld(s)'
<1>1. ChainInv'
  BY Zenon DEF ExportInv, ChainInv, Acked, Claimed, Position
<1>2. ReceiptInv'
  BY Zenon DEF ExportInv, ReceiptInv, AckReceipt, Acked, Position
<1>3. \A d : (Old(d)' <=> Old(d)) /\ (Current(d)' <=> Current(d))
  BY Zenon DEF Old, Current, Acked, Claimed, Position
<1>4. \A s : FitsClaim(s)' <=> FitsClaim(s)
  BY Zenon DEF FitsClaim, Acked, Position
<1>5. ASSUME NEW s, FitsHeld(s)
      PROVE  FitsHeld(s)'
  <2>1. s.pc \in Holding => Fits(s.delivery)'
    BY <1>3, <1>5, Zenon DEF FitsHeld, Fits
  <2>2. ASSUME s.pc \in {"complete", "commit"}
        PROVE  Old(s.delivery)' \/ chain' = EventHash(s.delivery)
    <3>1. Old(s.delivery) \/ (Current(s.delivery) /\ chain = EventHash(s.delivery))
      BY <1>5, <2>2, Zenon DEF FitsHeld, Fits, Holding
    <3>2. CASE Old(s.delivery)
      BY <1>3, <3>2, Zenon
    <3>3. CASE Current(s.delivery) /\ chain = EventHash(s.delivery)
      BY <3>3, Zenon DEF Current, EventHash
    <3> QED
      BY <3>1, <3>2, <3>3, Zenon
  <2> QED
    BY <2>1, <2>2, Zenon DEF FitsHeld
<1> QED
  BY <1>1, <1>2, <1>3, <1>4, <1>5, Zenon DEF Fits

(* A request reaches the sink, and its answer the exporter that waits.     *)
LEMMA SinkInv ==
    ASSUME ExportInv, NEW r \in wire, Export(r) \/ LoseRequest(r)
    PROVE  ExportInv'
<1> DEFINE d == r.delivery
<1>1. /\ r \in Request /\ d \in Delivery /\ Fits(d) /\ r.from \in Exporter \cup {None}
      /\ outbox' = outbox /\ published' = published /\ checkpoint' = checkpoint
      /\ receipts' = receipts /\ pending' = pending /\ wire' = wire \ {r}
      /\ wire \subseteq Request /\ step \in [Exporter -> Step]
  BY Zenon DEF Export, LoseRequest, store, ExportInv, ExportTypes, WireInv, Request
<1>2. chain' = chain \/ (Appends(d) /\ chain' = EventHash(d))
  BY Zenon DEF Export, LoseRequest
<1>3. chain' = chain \/ (Claimed # None /\ chain' = Append(Acked, Claimed))
  BY <1>1, <1>2, SinkAppends, Zenon
<1>4. /\ ChainInv' /\ ReceiptInv'
      /\ \A e : Fits(e)' <=> Fits(e)
      /\ \A s : FitsClaim(s)' <=> FitsClaim(s)
      /\ \A s : FitsHeld(s) => FitsHeld(s)'
  BY <1>1, <1>3, ChainGrows, Zenon
<1>5. CASE step' = step
  <2>1. ExportTypes'
    BY <1>1, <1>5, Zenon DEF ExportInv, ExportTypes
  <2>2. StepInv'
    BY <1>4, <1>5, Zenon DEF ExportInv, StepInv
  <2>3. WireInv'
    BY <1>1, <1>4, <1>5, Zenon DEF ExportInv, WireInv, AwaitedBy
  <2> QED
    BY <1>4, <2>1, <2>2, <2>3, Zenon DEF ExportInv
<1>6. CASE r.from # None /\ Export(r)
  <2> DEFINE x == r.from
             p == IF Appends(d) \/ Repeats(d) THEN "complete" ELSE "release"
  <2>1. x \in Exporter /\ step[x] \in Step /\ step[x].pc = "wait" /\ step[x].delivery = d
    BY <1>1, <1>6, Zenon DEF ExportInv, WireInv, AwaitedBy
  <2>p. p \in {"complete", "release"} /\ (p = "complete" => Appends(d) \/ Repeats(d))
    BY Zenon
  <2>g. step' = [step EXCEPT ![x] = [step[x] EXCEPT !.pc = p]]
    BY <1>6, Zenon DEF Export, Answer, Goto
  <2> HIDE DEF p
  <2>h. step[x].pc \in Holding /\ p \in Holding
    BY <2>1, <2>p, Zenon DEF Holding
  <2>2. PICK s \in Step : /\ s = [step[x] EXCEPT !.pc = p]
                          /\ s.pc = p /\ s.delivery = d
    <3>1. /\ [step[x] EXCEPT !.pc = p] \in Step
          /\ [step[x] EXCEPT !.pc = p].pc = p
          /\ [step[x] EXCEPT !.pc = p].delivery = step[x].delivery
      BY <2>1, <2>h, HeldStep, Zenon
    <3> QED
      BY <2>1, <3>1, Zenon
  <2>3. step' = [step EXCEPT ![x] = s]
    BY <2>g, <2>2, Zenon
  <2>4. ASSUME Appends(d) \/ Repeats(d)
        PROVE  Old(d) \/ chain' = EventHash(d)
    <3>1. CASE Appends(d)
      BY <1>6, <3>1, Zenon DEF Export
    <3>2. CASE ~Appends(d) /\ Repeats(d) /\ Current(d)
      <4>1. Len(chain) # Position
        BY <3>2, CheckpointTypes, LenProperties DEF Repeats, Current
      <4>2. chain = Append(Acked, Claimed)
        BY <4>1, CheckpointTypes, Zenon DEF ExportInv, ChainInv
      <4> QED
        BY <1>6, <3>2, <4>2, Zenon DEF Export, Current, EventHash
    <3> QED
      BY <1>1, <2>4, <3>1, <3>2, Zenon DEF Fits
  <2>5. FitsClaim(s)'
    BY <2>2, <2>p, Zenon DEF FitsClaim
  <2>7. FitsHeld(s)'
    <3>1. Fits(s.delivery)'
      BY <1>1, <1>4, <2>2, Zenon
    <3>2. s.pc \in {"complete", "commit"} => Old(s.delivery)' \/ chain' = EventHash(s.delivery)
      BY <1>1, <2>2, <2>4, <2>p, Zenon DEF Old, Acked, Position
    <3> QED
      BY <3>1, <3>2, Zenon DEF FitsHeld
  <2> HIDE DEF x
  <2>8. ExportTypes'
    BY <1>1, <2>1, <2>3, Zenon DEF ExportInv, ExportTypes
  <2>9. StepInv'
    <3> SUFFICES ASSUME NEW y \in Exporter
                 PROVE  FitsClaim(step[y])' /\ FitsHeld(step[y])'
      BY Zenon DEF StepInv
    <3>1. CASE y = x
      <4>1. step'[y] = s
        BY <1>1, <2>3, <3>1, ZenonT(30)
      <4> QED
        BY <2>5, <2>7, <4>1, Zenon DEF FitsClaim, FitsHeld
    <3>2. CASE y # x
      <4>1. PICK z : z = step[y] /\ z = step'[y] /\ FitsClaim(z) /\ FitsHeld(z)
        BY <1>1, <2>3, <3>2, Zenon DEF ExportInv, StepInv
      <4>2. FitsClaim(z)' /\ FitsHeld(z)'
        BY <1>4, <4>1, Zenon
      <4> QED
        BY <4>1, <4>2, Zenon DEF FitsClaim, FitsHeld
    <3> QED
      BY <3>1, <3>2, Zenon
  <2>10. WireInv'
    <3> SUFFICES ASSUME NEW q \in wire, q # r, q.from # None
                 PROVE  AwaitedBy(q, q.from)'
      BY <1>1, <1>4, Zenon DEF ExportInv, WireInv
    <3>1. q \in Request /\ q.from \in Exporter /\ AwaitedBy(q, q.from)
      BY <1>1, Zenon DEF ExportInv, WireInv, Request
    <3>2. q.from # x
      BY <1>1, <2>1, <3>1 DEF AwaitedBy, Request, x
    <3> QED
      BY <1>1, <2>1, <2>3, <3>1, <3>2, Zenon DEF AwaitedBy
  <2> QED
    BY <1>4, <2>8, <2>9, <2>10, Zenon DEF ExportInv
<1> QED
  BY <1>5, <1>6, Zenon DEF Export, LoseRequest, Answer

-----------------------------------------------------------------------------
(* Complete's first statement compares the claim token.                    *)
LEMMA CheckClaimInv ==
    ASSUME ExportInv, NEW x \in Exporter, CheckClaim(x)
    PROVE  ExportInv'
<1>1. /\ step[x] \in Step /\ step[x].pc = "complete" /\ FitsHeld(step[x])
      /\ outbox' = outbox /\ published' = published /\ checkpoint' = checkpoint
      /\ receipts' = receipts /\ chain' = chain /\ wire' = wire
      /\ pending' \in [Exporter -> SUBSET Message]
  BY Zenon DEF CheckClaim, store, ExportInv, ExportTypes, StepInv
<1>2. CASE step' = [step EXCEPT ![x] = Idle]
  BY <1>1, <1>2, QuietSteps, MoveQuietly, Zenon
<1>3. CASE step' = [step EXCEPT ![x] = [step[x] EXCEPT !.pc = "commit"]]
  <2> DEFINE s == [step[x] EXCEPT !.pc = "commit"]
  <2>1. s \in Step /\ s.pc = "commit" /\ s.delivery = step[x].delivery
    BY <1>1, HeldStep, Zenon DEF Holding
  <2>2. step' = [step EXCEPT ![x] = s]
    BY <1>3, Zenon
  <2> HIDE DEF s
  <2>3. FitsClaim(s) /\ FitsHeld(s)
    BY <1>1, <2>1, Zenon DEF FitsClaim, FitsHeld, Holding
  <2>4. wire' \subseteq Request
    BY <1>1, Zenon DEF ExportInv, ExportTypes
  <2>5. ASSUME NEW r \in wire'
        PROVE  Fits(r.delivery) /\ (r.from # None => AwaitedBy(r, r.from)')
    BY <1>1, <2>2, <2>5, Zenon DEF ExportInv, ExportTypes, WireInv, AwaitedBy, Request
  <2> QED
    BY <1>1, <2>1, <2>2, <2>3, <2>4, <2>5, Move, Zenon
<1> QED
  BY <1>2, <1>3, Zenon DEF CheckClaim, Goto

(* The unique constraints let Complete through only with the next event of *)
(* the acknowledged chain, which the sink has accepted.                    *)
LEMMA CompletesCurrent ==
    ASSUME ExportInv, NEW d \in Delivery, Fits(d), Old(d) \/ chain = EventHash(d), Unique(d)
    PROVE  Current(d) /\ chain = EventHash(d)
<1>1. ~Old(d)
  BY AckReceipts, Zenon DEF Old, Unique
<1> QED
  BY <1>1, Zenon DEF Fits

(* When the position advances, what was current becomes old.               *)
LEMMA Advance ==
    ASSUME ExportInv, NEW d \in Delivery, Current(d), chain = EventHash(d),
           checkpoint' = Advanced(d), outbox' = outbox, chain' = chain,
           receipts' = receipts \cup {ReceiptFor(d)}, published' = published \cup {d.event}
    PROVE  /\ checkpoint' \in Checkpoint /\ ChainInv' /\ ReceiptInv'
           /\ \A e \in Delivery : Fits(e) => Old(e)'
           /\ \A s \in Step : FitsClaim(s) => FitsClaim(s)'
<1>1. /\ Position \in Nat /\ Acked \in Seq(Message) /\ Len(Acked) = Position
      /\ None \notin Message
  BY CheckpointTypes, Zenon
<1>2. /\ d.event \in Message /\ d.event = Claimed
      /\ d.previous = Acked /\ d.sequence = Position + 1
  BY Zenon DEF Current, Delivery
<1>3. /\ Position' = Position + 1 /\ Claimed' = None
      /\ Acked' = Append(Acked, d.event) /\ chain = Append(Acked, d.event)
  BY <1>2, Zenon DEF Advanced, Position, Claimed, Acked, EventHash
<1>4. /\ Acked' \in Seq(Message) /\ Len(Acked') = Position + 1 /\ Acked' # <<>>
      /\ \A i \in 1..Position : Acked'[i] = Acked[i]
      /\ Acked'[Position + 1] = d.event
  BY <1>1, <1>2, <1>3, AppendProperties
<1>5. /\ \A i \in 0..Position : SubSeq(Acked', 1, i) = SubSeq(Acked, 1, i)
      /\ SubSeq(Acked', 1, Position) = Acked
      /\ SubSeq(Acked', 1, Position + 1) = Acked'
  <2>1. \A i \in 0..Position : SubSeq(Acked', 1, i) = SubSeq(Acked, 1, i)
    BY <1>1, <1>2, <1>3, PrefixKept
  <2>2. SubSeq(Acked, 1, Position) = Acked
    BY <1>1, SubSeqFull, Zenon
  <2>3. SubSeq(Acked', 1, Position + 1) = Acked'
    BY <1>4, SubSeqFull, Zenon
  <2> QED
    BY <1>1, <2>1, <2>2, <2>3
<1>6. checkpoint' \in Checkpoint
  <2>1. Append(d.previous, d.event) \in Hash
    BY <1>1, <1>2, AppendProperties, Zenon DEF Hash
  <2> QED
    BY <1>1, <1>2, <2>1 DEF Advanced, Checkpoint, EventHash
<1>7. ChainInv'
  BY <1>3, <1>4, Zenon DEF ChainInv
<1>8. ReceiptInv'
  <2>1. ASSUME NEW i \in 1..Position
        PROVE  AckReceipt(i)' = AckReceipt(i)
    <3>1. i \in 0..Position /\ i - 1 \in 0..Position
      BY <1>1
    <3>2. /\ Acked'[i] = Acked[i]
          /\ SubSeq(Acked', 1, i - 1) = SubSeq(Acked, 1, i - 1)
          /\ SubSeq(Acked', 1, i) = SubSeq(Acked, 1, i)
      BY <1>4, <1>5, <3>1, Zenon
    <3> QED
      BY <3>2, Zenon DEF AckReceipt
  <2>2. PICK k : k = Position + 1
    BY Zenon
  <2>3. AckReceipt(k)' = ReceiptFor(d)
    <3>1. /\ Acked'[k] = d.event /\ k = d.sequence /\ k - 1 = Position
          /\ SubSeq(Acked', 1, k) = EventHash(d)
      BY <1>1, <1>2, <1>3, <1>4, <1>5, <2>2, SMTT(30) DEF EventHash
    <3>2. SubSeq(Acked', 1, k - 1) = d.previous
      BY <1>2, <1>5, <3>1, Zenon
    <3> QED
      BY <3>1, <3>2, Zenon DEF AckReceipt, ReceiptFor
  <2>4. 1..Position' = (1..Position) \cup {k}
    BY <1>1, <1>3, <2>2
  <2>5. receipts' = {AckReceipt(i)' : i \in 1..Position'}
    BY <2>1, <2>3, <2>4, Zenon DEF ExportInv, ReceiptInv
  <2>6. published' = {Acked'[i] : i \in 1..Position'}
    BY <1>4, <2>2, <2>4 DEF ExportInv, ReceiptInv
  <2> QED
    BY <2>5, <2>6, Zenon DEF ReceiptInv
<1>9. ASSUME NEW e \in Delivery, Fits(e)
      PROVE  Old(e)'
  <2>1. CASE Old(e)
    BY <1>1, <1>3, <1>5, <2>1 DEF Old
  <2>2. CASE Current(e)
    <3>1. e.sequence = Position' /\ EventHash(e) = Acked'
      BY <1>2, <1>3, <2>2, Zenon DEF Current, EventHash
    <3> QED
      BY <1>1, <1>3, <1>5, <3>1 DEF Old
  <2> QED
    BY <1>9, <2>1, <2>2, Zenon DEF Fits
<1>10. ASSUME NEW s \in Step, FitsClaim(s)
       PROVE  FitsClaim(s)'
  <2>1. s.pc = "claim" => s.row.last_sequence \in Nat
    BY StepTypes, Zenon DEF Checkpoint
  <2> QED
    BY <1>1, <1>3, <1>10, <2>1, SMTT(30) DEF FitsClaim
<1> QED
  BY <1>6, <1>7, <1>8, <1>9, <1>10, Zenon

(* Complete's receipt and checkpoint, when the receipt is new.             *)
LEMMA CompleteInv ==
    ASSUME ExportInv, NEW x \in Exporter, Complete(x)
    PROVE  ExportInv'
<1>1. /\ step[x] \in Step /\ step[x].pc = "commit" /\ FitsHeld(step[x])
      /\ step' = [step EXCEPT ![x] = Idle]
      /\ outbox' = outbox /\ chain' = chain /\ wire' = wire
      /\ pending' \in [Exporter -> SUBSET Message]
  BY Zenon DEF Complete, Goto, ExportInv, ExportTypes, StepInv
<1>2. CASE UNCHANGED <<receipts, published, checkpoint, leased>>
  BY <1>1, <1>2, QuietSteps, MoveQuietly, Zenon
<1>3. CASE /\ Unique(step[x].delivery)
           /\ receipts' = receipts \cup {ReceiptFor(step[x].delivery)}
           /\ published' = published \cup {step[x].delivery.event}
           /\ checkpoint' = Advanced(step[x].delivery)
  <2>1. step[x].delivery \in Delivery
    BY <1>1, HeldStep, Zenon DEF Holding
  <2>2. PICK d \in Delivery : d = step[x].delivery
    BY <2>1, Zenon
  <2>3. Fits(d) /\ (Old(d) \/ chain = EventHash(d))
    BY <1>1, <2>2, Zenon DEF FitsHeld, Holding
  <2>4. Current(d) /\ chain = EventHash(d)
    BY <1>3, <2>2, <2>3, CompletesCurrent, Zenon
  <2>5. /\ checkpoint' \in Checkpoint /\ ChainInv' /\ ReceiptInv'
        /\ \A e \in Delivery : Fits(e) => Old(e)'
        /\ \A s \in Step : FitsClaim(s) => FitsClaim(s)'
    BY <1>1, <1>3, <2>2, <2>4, Advance, Zenon
  <2>6. ExportTypes'
    BY <1>1, <2>5, QuietSteps, Zenon DEF ExportInv, ExportTypes
  <2>7. StepInv'
    <3> SUFFICES ASSUME NEW y \in Exporter
                 PROVE  FitsClaim(step[y])' /\ FitsHeld(step[y])'
      BY Zenon DEF StepInv
    <3>1. CASE y = x
      <4>1. step'[y] = Idle
        BY <1>1, <3>1, ZenonT(30) DEF ExportInv, ExportTypes
      <4> QED
        BY <4>1, QuietSteps, Zenon DEF FitsClaim, FitsHeld, Holding
    <3>2. CASE y # x
      <4>1. PICK z \in Step : z = step[y] /\ z = step'[y] /\ FitsClaim(z) /\ FitsHeld(z)
        BY <1>1, <3>2, ZenonT(30) DEF ExportInv, ExportTypes, StepInv
      <4>2. FitsClaim(z)'
        BY <2>5, <4>1, Zenon
      <4>3. z.pc \in Holding => Old(z.delivery)'
        BY <2>5, <4>1, HeldStep, Zenon DEF FitsHeld
      <4>4. FitsHeld(z)'
        BY <4>3, Zenon DEF FitsHeld, Fits, Holding
      <4> QED
        BY <4>1, <4>2, <4>4, Zenon DEF FitsClaim, FitsHeld
    <3> QED
      BY <3>1, <3>2, Zenon
  <2>8. WireInv'
    <3> SUFFICES ASSUME NEW r \in wire
                 PROVE  Fits(r.delivery)' /\ (r.from # None => AwaitedBy(r, r.from)')
      BY <1>1, Zenon DEF WireInv
    <3>1. /\ Fits(r.delivery) /\ (r.from # None => AwaitedBy(r, r.from))
          /\ r.delivery \in Delivery /\ r.from \in Exporter \cup {None}
      BY Zenon DEF ExportInv, ExportTypes, WireInv, Request
    <3>2. Fits(r.delivery)'
      BY <2>5, <3>1, Zenon DEF Fits
    <3>3. r.from # None => AwaitedBy(r, r.from)'
      BY <1>1, <3>1, Zenon DEF AwaitedBy, ExportInv, ExportTypes
    <3> QED
      BY <3>2, <3>3, Zenon
  <2> QED
    BY <2>5, <2>6, <2>7, <2>8, Zenon DEF ExportInv
<1> QED
  BY <1>2, <1>3, Zenon DEF Complete

(* A message is committed, or only the lease or the fault count changes.   *)
LEMMA EnvironmentInv ==
    ASSUME ExportInv, outbox \subseteq outbox', outbox' \subseteq Message,
           UNCHANGED <<published, checkpoint, receipts, pending, step, wire, chain>>
    PROVE  ExportInv'
<1>1. ExportTypes'
  BY Zenon DEF ExportInv, ExportTypes
<1>2. ChainInv'
  BY Zenon DEF ExportInv, ChainInv, Acked, Claimed, Position
<1>3. ReceiptInv'
  BY Zenon DEF ExportInv, ReceiptInv, AckReceipt, Acked, Position
<1>4. \A d : Fits(d)' <=> Fits(d)
  BY Zenon DEF Fits, Old, Current, Acked, Claimed, Position
<1>5. \A s : FitsClaim(s) => FitsClaim(s)'
  BY Zenon DEF FitsClaim, Acked, Position
<1>6. \A s : FitsHeld(s) => FitsHeld(s)'
  BY <1>4, Zenon DEF FitsHeld, Old, Acked, Position
<1>7. StepInv'
  BY <1>5, <1>6, Zenon DEF ExportInv, StepInv
<1>8. WireInv'
  BY <1>4, Zenon DEF ExportInv, WireInv, AwaitedBy
<1> QED
  BY <1>1, <1>2, <1>3, <1>7, <1>8, Zenon DEF ExportInv

(* The invariant holds when nothing was claimed or exported.               *)
LEMMA InitExportInv ==
    ASSUME Init
    PROVE  ExportInv
<1>1. ExportTypes
  BY QuietSteps DEF Init, ExportTypes, Checkpoint, Hash
<1>2. Position = 0 /\ Acked = <<>> /\ Claimed = None /\ chain = <<>>
  BY Zenon DEF Init, Position, Acked, Claimed
<1>3. ChainInv
  BY <1>2, EmptySeq, Zenon DEF ChainInv
<1>4. ReceiptInv
  BY <1>2, SMTT(30) DEF Init, ReceiptInv
<1>5. StepInv /\ WireInv
  BY QuietSteps, Zenon DEF Init, StepInv, WireInv, FitsClaim, FitsHeld, Holding
<1> QED
  BY <1>1, <1>3, <1>4, <1>5, Zenon DEF ExportInv

(* Every step of the specification preserves the invariant.                *)
LEMMA NextExportInv ==
    ASSUME ExportInv, [Next]_vars
    PROVE  ExportInv'
<1>1. ASSUME NEW m \in Message, CommitMessage(m)
      PROVE  ExportInv'
  BY <1>1, EnvironmentInv, Zenon DEF CommitMessage, ExportInv, ExportTypes
<1>2. ASSUME NEW x \in Exporter, ExportOne(x)
      PROVE  ExportInv'
  BY <1>2, BeginExportInv, RefillInv, ReadCandidateInv, ClaimInv, SendInv, ExportFailsInv,
     CheckClaimInv, CompleteInv, ReleaseInv, Zenon DEF ExportOne
<1>3. ASSUME NEW x \in Exporter, TimeOut(x) \/ StatementFails(x) \/ Restart(x)
      PROVE  ExportInv'
  BY <1>3, FaultInv, Zenon
<1>4. ASSUME NEW r \in wire, Export(r) \/ LoseRequest(r)
      PROVE  ExportInv'
  BY <1>4, SinkInv, Zenon
<1>5. CASE LeaseExpires
  BY <1>5, EnvironmentInv, Zenon DEF LeaseExpires, ExportInv, ExportTypes
<1>6. CASE UNCHANGED vars
  BY <1>6, EnvironmentInv, Zenon DEF vars, ExportInv, ExportTypes
<1> QED
  BY <1>1, <1>2, <1>3, <1>4, <1>5, <1>6, Zenon DEF Next

-----------------------------------------------------------------------------
(* The acknowledged chain is a prefix of the sink's.                       *)
LEMMA AckedIsPrefix ==
    ASSUME ExportInv
    PROVE  /\ chain \in Seq(Message) /\ Position <= Len(chain)
           /\ \A i \in 0..Position : SubSeq(chain, 1, i) = SubSeq(Acked, 1, i)
           /\ \A i \in 1..Position : chain[i] = Acked[i]
<1>1. CASE chain = Acked
  BY <1>1, CheckpointTypes
<1>2. CASE Claimed # None /\ chain = Append(Acked, Claimed)
  <2>1. Claimed \in Message
    BY <1>2, CheckpointTypes, Zenon
  <2> QED
    BY <1>2, <2>1, CheckpointTypes, AppendProperties, PrefixKept
<1> QED
  BY <1>1, <1>2, Zenon DEF ExportInv, ChainInv

(* What is in flight fits the chain; the sink never refuses it.            *)
LEMMA InvImpliesNoFork ==
    ASSUME ExportInv
    PROVE  NoFork
<1>1. /\ Position \in Nat /\ Acked \in Seq(Message) /\ Len(Acked) = Position
      /\ Claimed \in Message \cup {None} /\ None \notin Message
  BY CheckpointTypes, Zenon
<1>2. /\ chain \in Seq(Message) /\ Position <= Len(chain) /\ Len(chain) \in Nat
      /\ \A i \in 0..Position : SubSeq(chain, 1, i) = SubSeq(Acked, 1, i)
      /\ \A i \in 1..Position : chain[i] = Acked[i]
  BY AckedIsPrefix, LenProperties, Zenon
<1>3. ReceiptsMatchChain
  <2>1. SubSeq(chain, 1, Position) = Acked
    BY <1>1, <1>2, SubSeqFull
  <2> DEFINE R(i) == [event |-> chain[i], sequence |-> i, previous |-> SubSeq(chain, 1, i - 1),
                      hash |-> SubSeq(chain, 1, i)]
  <2>2. ASSUME NEW i \in 1..Position
        PROVE  R(i) = AckReceipt(i)
    <3>1. i \in 0..Position /\ i - 1 \in 0..Position
      BY <1>1
    <3>2. /\ chain[i] = Acked[i]
          /\ SubSeq(chain, 1, i - 1) = SubSeq(Acked, 1, i - 1)
          /\ SubSeq(chain, 1, i) = SubSeq(Acked, 1, i)
      BY <1>2, <3>1, Zenon
    <3> QED
      BY <3>2, Zenon DEF AckReceipt
  <2>3. receipts = {R(i) : i \in 1..Position}
    BY <2>2, Zenon DEF ExportInv, ReceiptInv
  <2>4. published = {chain[i] : i \in 1..Position}
    BY <1>2, Zenon DEF ExportInv, ReceiptInv
  <2> QED
    BY <1>2, <2>1, <2>3, <2>4, Zenon DEF ReceiptsMatchChain, Position, Acked
<1>4. ASSUME NEW r \in wire
      PROVE  Appends(r.delivery) \/ Repeats(r.delivery)
  <2>1. PICK d \in Delivery : d = r.delivery /\ Fits(d)
    BY Zenon DEF ExportInv, ExportTypes, WireInv, Request
  <2>2. CASE Old(d)
    <3>1. d.sequence \in 1..Len(chain) /\ d.sequence \in 0..Position
      BY <1>1, <1>2, <2>2, SMTT(30) DEF Old
    <3>2. EventHash(d) = SubSeq(chain, 1, d.sequence)
      BY <1>2, <2>2, <3>1, Zenon DEF Old
    <3> QED
      BY <1>2, <2>1, <3>1, <3>2, LenProperties, Zenon DEF Repeats
  <2>3. CASE Current(d) /\ chain = Acked
    BY <1>1, <2>1, <2>3, Zenon DEF Appends, Current
  <2>4. CASE Current(d) /\ chain = Append(Acked, Claimed)
    <3>1. EventHash(d) = chain /\ d.event \in Message
      BY <2>4, Zenon DEF Current, EventHash, Delivery
    <3>2. Len(chain) = Position + 1 /\ d.sequence = Len(chain)
      BY <1>1, <2>4, <3>1, AppendProperties DEF Current
    <3>3. SubSeq(chain, 1, d.sequence) = chain
      BY <1>2, <3>2, SubSeqFull, Zenon
    <3> QED
      BY <1>1, <1>2, <2>1, <3>1, <3>2, <3>3, LenProperties, SMTT(30) DEF Repeats
  <2> QED
    BY <2>1, <2>2, <2>3, <2>4, Zenon DEF Fits, ExportInv, ChainInv
<1> QED
  BY <1>3, <1>4, Zenon DEF NoFork

(* Exporters, store and sink never diverge, whatever is lost, late or      *)
(* restarted: receipts and checkpoint repeat the sink's chain, and no      *)
(* request asks the sink to fork it (Claim, Complete and Release of        *)
(* EvidenceDeliveryStore).                                                 *)
THEOREM SinkNeverForks == Spec => []NoFork
<1>1. Init => ExportInv
  BY InitExportInv, Zenon
<1>2. ExportInv /\ [Next]_vars => ExportInv'
  BY NextExportInv, Zenon
<1>3. ExportInv => NoFork
  BY InvImpliesNoFork, Zenon
<1> QED
  BY <1>1, <1>2, <1>3, PTL DEF Spec

-----------------------------------------------------------------------------
(* Without its liveness: every step of the exporters is a step of the      *)
(* abstract chain, or changes nothing of it.                               *)
AbstractVars == <<outbox, chain, checkpoint.last_sequence>>
ChainSafety == Abstract!Init /\ [][Abstract!Next]_AbstractVars

(* The sink appends what the abstract chain appends, or repeats it.        *)
LEMMA SinkStepImplements ==
    ASSUME ExportInv, NEW r \in wire, Export(r) \/ LoseRequest(r)
    PROVE  [Abstract!Next]_AbstractVars
<1>1. r.delivery \in Delivery /\ Fits(r.delivery)
  BY Zenon DEF ExportInv, ExportTypes, WireInv, Request
<1>2. outbox' = outbox /\ checkpoint' = checkpoint
  BY Zenon DEF Export, LoseRequest, store
<1>3. CASE chain' = chain
  BY <1>2, <1>3, Zenon DEF AbstractVars
<1>4. CASE Appends(r.delivery) /\ chain' = EventHash(r.delivery)
  <2>1. /\ chain = Acked /\ Claimed # None /\ chain' = Append(chain, Claimed)
    BY <1>1, <1>4, SinkAppends, Zenon
  <2>2. Claimed \in outbox /\ \A i \in 1..Position : Acked[i] # Claimed
    BY <2>1, Zenon DEF ExportInv, ChainInv
  <2>3. checkpoint.last_sequence = Len(chain) /\ DOMAIN chain = 1..Position
    BY <2>1, CheckpointTypes, LenProperties, Zenon DEF Position
  <2>4. Claimed \in outbox \ Abstract!Accepted
    BY <2>1, <2>2, <2>3, Zenon DEF Abstract!Accepted
  <2>5. Abstract!Accept
    BY <1>2, <2>1, <2>3, <2>4, Zenon DEF Abstract!Accept
  <2> QED
    BY <2>5, Zenon DEF Abstract!Next
<1> QED
  BY <1>3, <1>4, Zenon DEF Export, LoseRequest

(* A new receipt acknowledges the abstract chain's next position.          *)
LEMMA CompleteImplements ==
    ASSUME ExportInv, NEW x \in Exporter, Complete(x)
    PROVE  [Abstract!Next]_AbstractVars
<1>1. /\ step[x] \in Step /\ step[x].pc = "commit" /\ FitsHeld(step[x])
      /\ outbox' = outbox /\ chain' = chain
  BY Zenon DEF Complete, ExportInv, ExportTypes, StepInv
<1>2. CASE UNCHANGED checkpoint
  BY <1>1, <1>2, Zenon DEF AbstractVars
<1>3. CASE Unique(step[x].delivery) /\ checkpoint' = Advanced(step[x].delivery)
  <2>1. PICK d \in Delivery : d = step[x].delivery
    BY <1>1, HeldStep, ZenonT(30) DEF Holding
  <2>2. Fits(d) /\ (Old(d) \/ chain = EventHash(d))
    BY <1>1, <2>1, Zenon DEF FitsHeld, Holding
  <2>3. Current(d) /\ chain = EventHash(d)
    BY <1>3, <2>1, <2>2, CompletesCurrent, Zenon
  <2>4. checkpoint'.last_sequence = checkpoint.last_sequence + 1
    BY <1>3, <2>1, <2>3, Zenon DEF Advanced, Current, Position
  <2>5. d.event \in Message /\ chain = Append(Acked, d.event)
    BY <2>3, Zenon DEF Current, EventHash, Delivery
  <2>6. checkpoint.last_sequence < Len(chain)
    BY <2>5, CheckpointTypes, AppendProperties, SMTT(30) DEF Position
  <2> QED
    BY <1>1, <2>4, <2>6, Zenon DEF Abstract!Next, Abstract!Acknowledge
<1> QED
  BY <1>2, <1>3, Zenon DEF Complete

(* Every other step commits a message or leaves the chain alone.           *)
LEMMA StepImplements ==
    ASSUME ExportInv, [Next]_vars
    PROVE  [Abstract!Next]_AbstractVars
<1>1. ASSUME NEW m \in Message, CommitMessage(m)
      PROVE  [Abstract!Next]_AbstractVars
  BY <1>1, Zenon DEF CommitMessage, Abstract!Next, Abstract!Commit
<1>2. ASSUME NEW x \in Exporter, Complete(x)
      PROVE  [Abstract!Next]_AbstractVars
  BY <1>2, CompleteImplements, Zenon
<1>3. ASSUME NEW r \in wire, Export(r) \/ LoseRequest(r)
      PROVE  [Abstract!Next]_AbstractVars
  BY <1>3, SinkStepImplements, Zenon
<1>4. ASSUME NEW x \in Exporter, claimCandidate(x)
      PROVE  UNCHANGED AbstractVars
  <2>1. checkpoint \in Checkpoint
    BY Zenon DEF ExportInv, ExportTypes
  <2> QED
    BY <1>4, <2>1, Zenon DEF claimCandidate, AbstractVars, Checkpoint
<1>5. ASSUME NEW x \in Exporter, Release(x)
      PROVE  UNCHANGED AbstractVars
  <2>1. checkpoint \in Checkpoint
    BY Zenon DEF ExportInv, ExportTypes
  <2> QED
    BY <1>5, <2>1, Zenon DEF Release, Released, AbstractVars, Checkpoint
<1>6. ASSUME NEW x \in Exporter,
             \/ BeginExport(x) \/ refillPending(x) \/ ReadCandidate(x) \/ SendDelivery(x)
             \/ ExportFails(x) \/ CheckClaim(x) \/ TimeOut(x) \/ StatementFails(x) \/ Restart(x)
      PROVE  UNCHANGED AbstractVars
  BY <1>6, Zenon DEF BeginExport, refillPending, ReadCandidate, SendDelivery, ExportFails, CheckClaim,
     TimeOut, StatementFails, Restart, store, AbstractVars
<1>7. LeaseExpires \/ UNCHANGED vars => UNCHANGED AbstractVars
  BY Zenon DEF LeaseExpires, vars, AbstractVars
<1> QED
  BY <1>1, <1>2, <1>3, <1>4, <1>5, <1>6, <1>7, Zenon DEF Next, ExportOne

(* The exporters implement the safety part of EvidenceChain: the sink      *)
(* accepts only committed messages, each at most once and one ahead of     *)
(* what is acknowledged, and acknowledgement (the checkpoint's             *)
(* last_sequence) follows one by one.                                      *)
THEOREM ExportImplementsChain == Spec => ChainSafety
<1>1. Init => ExportInv
  BY InitExportInv, Zenon
<1>2. Init => Abstract!Init
  BY DEF Init, Abstract!Init
<1>3. ExportInv /\ [Next]_vars => ExportInv'
  BY NextExportInv, Zenon
<1>4. ExportInv /\ [Next]_vars => [Abstract!Next]_AbstractVars
  BY StepImplements, Zenon
<1> QED
  BY <1>1, <1>2, <1>3, <1>4, PTL DEF Spec, ChainSafety
=============================================================================
