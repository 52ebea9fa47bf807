----------------------------- MODULE EdgeProofs -----------------------------
(***************************************************************************)
(* Proofs about the components at the edge of the service: the event       *)
(* stream, the outbox, the process around them, the verification keys of   *)
(* tokens, and the admission of agents and of their runs.                  *)
(***************************************************************************)
EXTENDS RunEvents, Outbox, ProcessLifecycle, TokenVerifier, AgentAdmission, TLAPS

(***************************************************************************)
(* The event stream of a run.                                              *)
(***************************************************************************)
StreamSpec == StreamInit /\ [][StreamNext]_streamVars

(* Nothing between two events of S is missing from S.                      *)
Gapless(S) == \A a, b \in S : \A d \in Nat : a < d /\ d < b => d \in S

(* Nothing between position p and an event of S is missing from S.         *)
Follows(S, p) == \A b \in S : p < b /\ \A d \in Nat : p < d /\ d < b => d \in S

(* The handler's position is the client's cursor; what is still to be      *)
(* written has no gap and, for a client with a cursor, follows it.         *)
PositionInv ==
    /\ latest \in Nat /\ cursor \in Nat
    /\ stream \in [pc : {"closed", "authorize", "window", "rows", "relist", "emit"},
                   connecting : BOOLEAN, after : Nat, floor : Nat, pending : SUBSET Nat]
    /\ stream.pc # "closed" => stream.after = cursor
    /\ stream.pc = "relist" => cursor = 0
    /\ 0 \notin stream.pending
    /\ Gapless(stream.pending)
    /\ cursor # 0 /\ stream.pc # "closed" => Follows(stream.pending, cursor)
    /\ stream.pc # "emit" => stream.pending = {}

(* Only a batch whose authorisation preceded the withdrawal is listed      *)
(* after it.                                                               *)
WithdrawalInv ==
    /\ overdue \in Nat /\ allowed \in BOOLEAN
    /\ overdue <= 1
    /\ allowed => overdue = 0
    /\ stream.pc \in {"window", "rows", "relist"} => overdue = 0

-----------------------------------------------------------------------------
(* A batch is a run of consecutive events right after a position.          *)
LEMMA RowsAreConsecutive ==
    ASSUME latest \in Nat, NEW p \in Nat
    PROVE  /\ RowsAfter(p) \subseteq Nat
           /\ 0 \notin RowsAfter(p)
           /\ Gapless(RowsAfter(p))
           /\ Follows(RowsAfter(p), p)
BY RunEventsAssumption DEF RowsAfter, Gapless, Follows

(* The invariant holds of a run that was just admitted.                    *)
LEMMA PositionInit == StreamInit => PositionInv
BY DEF StreamInit, PositionInv, Closed, Gapless, Follows

(* Every step keeps the position, and moves a cursor by at most one event. *)
LEMMA PositionStep ==
    ASSUME PositionInv, [StreamNext]_streamVars
    PROVE  /\ PositionInv'
           /\ cursor # 0 => cursor' \in {0, cursor, cursor + 1}
<1> USE RunEventsAssumption
<1>1. CASE AppendRunEvents
  BY <1>1 DEF AppendRunEvents, PositionInv
<1>2. CASE WithdrawAccess
  BY <1>2, Zenon DEF WithdrawAccess, PositionInv
<1>3. CASE Connect
  BY <1>3, Zenon DEF Connect, Closed, PositionInv, Gapless, Follows
<1>4. CASE Disconnect
  BY <1>4, Zenon DEF Disconnect, Closed, PositionInv, Gapless, Follows
<1>5. CASE Authorize
  BY <1>5, Zenon DEF Authorize, Closed, PositionInv, Gapless, Follows
<1>6. CASE ReadWindow
  <2>1. retentionFloor \in Nat
    BY DEF PositionInv, retentionFloor
  <2> QED BY <1>6, <2>1, Zenon DEF ReadWindow, PositionInv
<1>7. CASE ListRunEvents
  <2>1. stream.pc = "rows" /\ stream.after \in Nat /\ stream.after = cursor /\ latest \in Nat
    BY <1>7, Zenon DEF ListRunEvents, PositionInv
  <2>2. CASE StartsAtFloor(stream.after, stream.floor)
    BY <1>7, <2>1, <2>2 DEF ListRunEvents, StartsAtFloor, PositionInv
  <2>3. CASE ~StartsAtFloor(stream.after, stream.floor) /\ stream.after < stream.floor
    <3>1. stream' = Closed /\ cursor' \in {0, cursor} /\ UNCHANGED latest
      BY <1>7, <2>1, <2>3, Zenon DEF ListRunEvents
    <3> QED BY <2>1, <3>1 DEF Closed, PositionInv, Gapless, Follows
  <2>4. CASE ~StartsAtFloor(stream.after, stream.floor) /\ ~(stream.after < stream.floor)
    <3>1. /\ stream' = [stream EXCEPT !.pc = "emit", !.connecting = FALSE,
                                      !.pending = RowsAfter(stream.after)]
          /\ UNCHANGED <<cursor, latest>>
      BY <1>7, <2>4, Zenon DEF ListRunEvents
    <3> QED BY <2>1, <3>1, RowsAreConsecutive, Zenon DEF PositionInv
  <2> QED BY <2>2, <2>3, <2>4, Zenon
<1>8. CASE ListFromFloor
  <2>1. /\ cursor = 0 /\ stream.floor \in Nat /\ latest \in Nat
        /\ stream' = [stream EXCEPT !.pc = "emit", !.connecting = FALSE,
                                    !.pending = RowsAfter(stream.floor)]
        /\ UNCHANGED <<cursor, latest>>
    BY <1>8, Zenon DEF ListFromFloor, PositionInv
  <2>2. stream.pc = "relist" /\ stream.after = cursor
    BY <1>8, Zenon DEF ListFromFloor, PositionInv
  <2>3. /\ RowsAfter(stream.floor) \in SUBSET Nat /\ 0 \notin RowsAfter(stream.floor)
        /\ Gapless(RowsAfter(stream.floor))
    BY <2>1, RowsAreConsecutive, Zenon
  <2> QED BY <2>1, <2>2, <2>3, Zenon DEF PositionInv
<1>9. CASE encodeSSEEvent
  <2>1. PICK e \in stream.pending :
          /\ \A later \in stream.pending : e <= later
          /\ stream' = [stream EXCEPT !.pending = @ \ {e}, !.after = e]
          /\ cursor' = e
    BY <1>9, Zenon DEF encodeSSEEvent
  <2>2. e \in Nat \ {0} /\ stream.pending \subseteq Nat /\ UNCHANGED latest
    BY <1>9, <2>1, Zenon DEF PositionInv, encodeSSEEvent
  <2>3. cursor # 0 => e = cursor + 1
    BY <1>9, <2>1, <2>2 DEF PositionInv, Follows, encodeSSEEvent
  <2>4. Gapless(stream.pending \ {e}) /\ Follows(stream.pending \ {e}, e)
    BY <2>1, <2>2 DEF PositionInv, Gapless, Follows
  <2> QED BY <1>9, <2>1, <2>2, <2>3, <2>4, Zenon DEF PositionInv, encodeSSEEvent
<1>10. CASE Poll
  BY <1>10, Zenon DEF Poll, PositionInv
<1>11. CASE UNCHANGED streamVars
  BY <1>11, Zenon DEF streamVars, PositionInv
<1> QED BY <1>1, <1>2, <1>3, <1>4, <1>5, <1>6, <1>7, <1>8, <1>9, <1>10, <1>11, Zenon DEF StreamNext

(* NoSilentGap for every instance: cut-offs, reconnections, retention and  *)
(* appends in any order never make the stream handler skip an event        *)
(* without answering 410 first.                                            *)
THEOREM StreamHasNoSilentGap == StreamSpec => NoSilentGap
<1>1. StreamSpec => []PositionInv
  BY PositionInit, PositionStep, PTL DEF StreamSpec
<1>2. PositionInv /\ [StreamNext]_streamVars
        => [cursor # 0 => cursor' \in {0, cursor, cursor + 1}]_streamVars
  BY PositionStep, Zenon
<1> QED BY <1>1, <1>2, PTL DEF StreamSpec, NoSilentGap

-----------------------------------------------------------------------------
(* Every step keeps the count of batches listed since the withdrawal.      *)
LEMMA WithdrawalStep ==
    ASSUME PositionInv, WithdrawalInv, [StreamNext]_streamVars
    PROVE  WithdrawalInv'
<1>0. stream \in [pc : {"closed", "authorize", "window", "rows", "relist", "emit"},
                  connecting : BOOLEAN, after : Nat, floor : Nat, pending : SUBSET Nat]
  BY Zenon DEF PositionInv
<1>1. CASE AppendRunEvents
  BY <1>1, Zenon DEF AppendRunEvents, WithdrawalInv
<1>2. CASE WithdrawAccess
  <2>1. allowed /\ allowed' = FALSE /\ UNCHANGED <<stream, overdue>>
    BY <1>2, Zenon DEF WithdrawAccess
  <2> QED BY <2>1, Zenon DEF WithdrawalInv
<1>3. CASE Authorize
  BY <1>0, <1>3, Zenon DEF Authorize, Authorized, Closed, WithdrawalInv
<1>4. CASE ReadWindow
  BY <1>0, <1>4, Zenon DEF ReadWindow, WithdrawalInv
<1>5. CASE ListRunEvents
  <2>1. stream.pc = "rows" /\ overdue = 0 /\ UNCHANGED allowed
    BY <1>5, Zenon DEF ListRunEvents, WithdrawalInv
  <2>2. \/ stream'.pc = "relist" /\ UNCHANGED overdue
        \/ stream'.pc = "closed" /\ UNCHANGED overdue
        \/ stream'.pc = "emit" /\ Counted
    <3>1. CASE StartsAtFloor(stream.after, stream.floor)
      BY <1>0, <1>5, <3>1, Zenon DEF ListRunEvents
    <3>2. CASE ~StartsAtFloor(stream.after, stream.floor) /\ stream.after < stream.floor
      BY <1>5, <3>2 DEF ListRunEvents, Closed
    <3>3. CASE ~StartsAtFloor(stream.after, stream.floor) /\ ~(stream.after < stream.floor)
      BY <1>0, <1>5, <3>3, Zenon DEF ListRunEvents
    <3> QED BY <3>1, <3>2, <3>3, Zenon
  <2> QED BY <2>1, <2>2 DEF Counted, WithdrawalInv
<1>6. CASE ListFromFloor
  <2>1. overdue = 0 /\ UNCHANGED allowed /\ stream'.pc = "emit" /\ Counted
    BY <1>0, <1>6, Zenon DEF ListFromFloor, WithdrawalInv
  <2> QED BY <2>1 DEF Counted, WithdrawalInv
<1>7. CASE encodeSSEEvent
  <2>1. stream'.pc = "emit" /\ UNCHANGED <<allowed, overdue>>
    BY <1>0, <1>7, Zenon DEF encodeSSEEvent
  <2> QED BY <2>1, Zenon DEF WithdrawalInv
<1>8. CASE Poll
  BY <1>0, <1>8, Zenon DEF Poll, WithdrawalInv
<1>9. CASE UNCHANGED streamVars
  BY <1>9, Zenon DEF streamVars, WithdrawalInv
<1>10. CASE Connect
  <2>1. stream'.pc = "authorize" /\ UNCHANGED <<allowed, overdue>>
    BY <1>10, Zenon DEF Connect, Closed
  <2> QED BY <2>1, Zenon DEF WithdrawalInv
<1>11. CASE Disconnect
  <2>1. stream'.pc = "closed" /\ UNCHANGED <<allowed, overdue>>
    BY <1>11, Zenon DEF Disconnect, Closed
  <2> QED BY <2>1, Zenon DEF WithdrawalInv
<1> QED BY <1>1, <1>2, <1>3, <1>4, <1>5, <1>6, <1>7, <1>8, <1>9, <1>10, <1>11, Zenon DEF StreamNext

(* WithdrawalEndsStream for every instance: the handler authorises every   *)
(* poll, so at most the batch under way is listed after a withdrawal.      *)
THEOREM WithdrawnStreamEnds == StreamSpec => []WithdrawalEndsStream
<1>1. StreamInit => WithdrawalInv
  BY DEF StreamInit, WithdrawalInv, Closed
<1>2. WithdrawalInv => WithdrawalEndsStream
  BY Zenon DEF WithdrawalInv, WithdrawalEndsStream
<1> QED BY <1>1, <1>2, PositionInit, PositionStep, WithdrawalStep, PTL DEF StreamSpec

-----------------------------------------------------------------------------
(***************************************************************************)
(* The outbox and its publishers.                                          *)
(***************************************************************************)
OutboxSpec == OutboxInit /\ [][OutboxNext]_outboxVars

(* The rows and the claims have their types; a claim that was made stays   *)
(* behind the attempt counter of its row, so a token is never drawn twice. *)
OutboxInv ==
    /\ outbox \in [DOMAIN outbox -> Row] /\ DOMAIN outbox \subseteq Message
    /\ batch \in [Publisher -> SUBSET Claim]
    /\ \A p \in Publisher : \A c \in batch[p] :
          c.message \in DOMAIN outbox /\ c.token <= outbox[c.message].attempts

(* A live claim passes to nobody while its holder has not dealt with it.   *)
Exclusive ==
    \A m \in DOMAIN outbox :
        outbox[m].live /\ outbox'[m].token # outbox[m].token =>
            LET c == [message |-> m, token |-> outbox[m].token]
            IN  \E p \in Publisher : c \in batch[p] /\ c \notin batch'[p]

(* Recording an outcome changes a row for the holder of its claim only.    *)
LEMMA RecordedKeeps ==
    ASSUME OutboxInv, NEW p \in Publisher, NEW c \in batch[p],
           NEW status \in {"resting", "published", "dead"},
           outbox' = Recorded(c, status), Done(p, c)
    PROVE  OutboxInv' /\ Exclusive
<1>1. /\ c \in Claim /\ c = [message |-> c.message, token |-> c.token]
      /\ c.message \in DOMAIN outbox
  BY DEF OutboxInv, Claim
<1>2. /\ batch' \in [Publisher -> SUBSET Claim]
      /\ c \notin batch'[p]
      /\ \A q \in Publisher : batch'[q] \subseteq batch[q]
  BY Zenon DEF OutboxInv, Done
<1>3. /\ DOMAIN outbox' = DOMAIN outbox
      /\ outbox' \in [DOMAIN outbox -> Row]
      /\ \A m \in DOMAIN outbox :
            /\ outbox'[m].attempts = outbox[m].attempts
            /\ outbox'[m].token # outbox[m].token => m = c.message /\ outbox[m].token = c.token
  BY <1>1, ZenonT(30) DEF OutboxInv, Recorded, ClaimHeld, Row, NoToken
<1>4. OutboxInv'
  BY <1>2, <1>3, Zenon DEF OutboxInv
<1>5. Exclusive
  BY <1>1, <1>2, <1>3 DEF Exclusive
<1> QED BY <1>4, <1>5, Zenon

(* Every step keeps the invariant, and passes on no live claim.            *)
LEMMA OutboxStep == OutboxInv /\ [OutboxNext]_outboxVars => OutboxInv' /\ Exclusive
<1> SUFFICES ASSUME OutboxInv, [OutboxNext]_outboxVars PROVE OutboxInv' /\ Exclusive
  BY Zenon
<1>1. ASSUME NEW m \in Message, CommitMessage(m) PROVE OutboxInv' /\ Exclusive
  <2>1. /\ DOMAIN outbox' = DOMAIN outbox \cup {m}
        /\ outbox' \in [DOMAIN outbox' -> Row]
        /\ \A n \in DOMAIN outbox : outbox'[n] = outbox[n]
        /\ batch' = batch
    BY <1>1, Zenon DEF CommitMessage, OutboxInv, NewRow, Row, NoToken
  <2> QED BY <2>1, Zenon DEF OutboxInv, Exclusive
<1>2. ASSUME NEW m \in Message, ClaimRunsOut(m) \/ retryDelayEnds(m)
      PROVE  OutboxInv' /\ Exclusive
  <2>1. /\ DOMAIN outbox' = DOMAIN outbox
        /\ outbox' \in [DOMAIN outbox -> Row]
        /\ \A n \in DOMAIN outbox :
              outbox'[n].token = outbox[n].token /\ outbox'[n].attempts = outbox[n].attempts
        /\ batch' = batch
    <3>1. CASE ClaimRunsOut(m)
      BY <3>1, Zenon DEF ClaimRunsOut, OutboxInv, Row
    <3>2. CASE retryDelayEnds(m)
      BY <3>2 DEF retryDelayEnds, OutboxInv, Row
    <3> QED BY <1>2, <3>1, <3>2, Zenon
  <2> QED BY <2>1, Zenon DEF OutboxInv, Exclusive
<1>3. ASSUME NEW p \in Publisher, claim(p) PROVE OutboxInv' /\ Exclusive
  <2>1. PICK taken \in SUBSET {m \in DOMAIN outbox : Claimable(m)} :
          /\ outbox' = [m \in DOMAIN outbox |->
                IF m \in taken
                THEN [outbox[m] EXCEPT !.attempts = @ + 1, !.token = outbox[m].attempts + 1,
                                       !.live = TRUE]
                ELSE outbox[m]]
          /\ batch' = [batch EXCEPT ![p] =
                {[message |-> m, token |-> outbox'[m].token] : m \in taken}]
    BY <1>3, Zenon DEF claim
  <2>2. /\ DOMAIN outbox' = DOMAIN outbox
        /\ outbox' \in [DOMAIN outbox -> Row]
        /\ \A m \in DOMAIN outbox :
              /\ outbox'[m].attempts >= outbox[m].attempts
              /\ m \notin taken => outbox'[m] = outbox[m]
              /\ m \in taken => outbox'[m].token = outbox'[m].attempts
    <3>1. ASSUME NEW m \in DOMAIN outbox
          PROVE  /\ outbox'[m] \in Row
                 /\ outbox'[m].attempts >= outbox[m].attempts
                 /\ m \notin taken => outbox'[m] = outbox[m]
                 /\ m \in taken => outbox'[m].token = outbox'[m].attempts
      <4>1. outbox[m] \in Row
        BY Zenon DEF OutboxInv
      <4>2. CASE m \in taken
        <5>1. outbox'[m] = [outbox[m] EXCEPT !.attempts = @ + 1,
                                             !.token = outbox[m].attempts + 1, !.live = TRUE]
          BY <2>1, <4>2, Zenon
        <5>2. outbox'[m] = [status |-> outbox[m].status, token |-> outbox[m].attempts + 1,
                            live |-> TRUE, attempts |-> outbox[m].attempts + 1]
          BY <4>1, <5>1, Zenon DEF Row
        <5> QED BY <4>1, <4>2, <5>2 DEF Row
      <4>3. CASE m \notin taken
        <5>1. outbox'[m] = outbox[m]
          BY <2>1, <4>3, Zenon
        <5> QED BY <4>1, <4>3, <5>1 DEF Row
      <4> QED BY <4>2, <4>3, Zenon
    <3> QED BY <2>1, <3>1, Zenon
  <2>3. /\ batch' \in [Publisher -> SUBSET Claim]
        /\ \A q \in Publisher : \A c \in batch'[q] :
              /\ c.message \in DOMAIN outbox
              /\ c \in batch[q] \/ c.token = outbox'[c.message].attempts
    <3>1. \A m \in taken :
            /\ m \in DOMAIN outbox /\ m \in Message
            /\ outbox'[m].token = outbox'[m].attempts /\ outbox'[m].token \in Nat
      BY <2>1, <2>2, Zenon DEF OutboxInv, Row
    <3>2. \A c \in batch'[p] :
            /\ c \in Claim /\ c.message \in DOMAIN outbox
            /\ c.token = outbox'[c.message].attempts
      <4>1. batch'[p] = {[message |-> m, token |-> outbox'[m].token] : m \in taken}
        BY <2>1, Zenon DEF OutboxInv
      <4> QED BY <3>1, <4>1 DEF Claim
    <3>3. batch' \in [Publisher -> SUBSET Claim]
      BY <2>1, <3>2, Zenon DEF OutboxInv
    <3>4. \A q \in Publisher : q # p => batch'[q] = batch[q]
      BY <2>1, Zenon DEF OutboxInv
    <3> QED BY <3>2, <3>3, <3>4, Zenon DEF OutboxInv
  <2>4. OutboxInv'
    BY <2>2, <2>3 DEF OutboxInv, Row, Claim
  <2>5. Exclusive
    BY <2>1, <2>2, Zenon DEF Exclusive, Claimable
  <2> QED BY <2>4, <2>5, Zenon
<1>4. ASSUME NEW p \in Publisher, PublishNext(p) PROVE OutboxInv' /\ Exclusive
  <2>1. PICK c \in batch[p] :
          \/ \E outcome \in Outcome : Send(p, c, outcome)
          \/ markPublished(p, c)
          \/ \E permanent \in BOOLEAN : markFailed(p, c, permanent)
          \/ UpdateFails(p, c)
    BY <1>4, Zenon DEF PublishNext
  <2>2. CASE markPublished(p, c)
    BY <2>2, RecordedKeeps, Zenon DEF markPublished
  <2>3. ASSUME NEW permanent \in BOOLEAN, markFailed(p, c, permanent)
        PROVE  OutboxInv' /\ Exclusive
    BY <2>3, RecordedKeeps, Zenon DEF markFailed
  <2>4. CASE UpdateFails(p, c)
    BY <2>4, Zenon DEF UpdateFails, Done, OutboxInv, Exclusive
  <2>5. ASSUME NEW outcome \in Outcome, Send(p, c, outcome)
        PROVE  OutboxInv' /\ Exclusive
    BY <2>5, Zenon DEF Send, OutboxInv, Exclusive
  <2> QED BY <2>1, <2>2, <2>3, <2>4, <2>5, Zenon
<1>5. ASSUME NEW p \in Publisher, PublisherCrash(p) PROVE OutboxInv' /\ Exclusive
  BY <1>5, Zenon DEF PublisherCrash, OutboxInv, Exclusive
<1>6. CASE UNCHANGED outboxVars
  BY <1>6, Zenon DEF outboxVars, OutboxInv, Exclusive
<1> QED BY <1>1, <1>2, <1>3, <1>4, <1>5, <1>6, Zenon DEF OutboxNext

(* While a claim on a message is live, only a publisher that holds exactly *)
(* this claim publishes, fails or releases the message; a publisher that   *)
(* outlived its lease changes nothing.                                     *)
THEOREM LiveClaimsAreExclusive == OutboxSpec => LiveClaimIsExclusive
<1>1. OutboxInit => OutboxInv
  BY Zenon DEF OutboxInit, OutboxInv
<1>2. OutboxInv /\ [OutboxNext]_outboxVars => [Exclusive]_outboxVars
  BY OutboxStep, Zenon
<1>3. [][Exclusive]_outboxVars => LiveClaimIsExclusive
  BY PTL DEF LiveClaimIsExclusive, Exclusive
<1> QED BY <1>1, <1>2, <1>3, OutboxStep, PTL DEF OutboxSpec

(* What a publisher is about to record is what the sink told it, and what  *)
(* is settled was settled for cause.                                       *)
HandInv ==
    \A p \in Publisher :
        /\ inHand[p].outcome = "accepted" => inHand[p].claim.message \in accepted
        /\ inHand[p].outcome = "rejected" => inHand[p].claim.message \in rejected

SinkInv ==
    /\ inHand \in [Publisher -> {Nothing} \cup Sent]
    /\ HandInv
    /\ SettledForCause

(* A row that changes its status is not settled, or settled for cause.     *)
LEMMA SettledKeeps ==
    ASSUME SettledForCause, accepted \subseteq accepted', rejected \subseteq rejected',
           \A m \in DOMAIN outbox' :
               \/ outbox'[m].status \in {"ready", "resting"}
               \/ /\ m \in DOMAIN outbox
                  /\ outbox'[m].status = outbox[m].status
                  /\ outbox'[m].attempts = outbox[m].attempts
               \/ outbox'[m].status = "published" /\ m \in accepted'
               \/ /\ outbox'[m].status = "dead"
                  /\ m \in rejected' \/ outbox'[m].attempts >= MaxAttempts
    PROVE  SettledForCause'
BY Zenon DEF SettledForCause

(* An outcome that is put on record is the one in hand.                    *)
LEMMA RecordedForCause ==
    ASSUME OutboxInv, SinkInv, NEW p \in Publisher, NEW c \in batch[p],
           NEW status \in {"resting", "published", "dead"},
           outbox' = Recorded(c, status), Done(p, c), UNCHANGED sinkVars,
           status = "published" => c.message \in accepted,
           status = "dead" => c.message \in rejected \/ c.token >= MaxAttempts
    PROVE  SinkInv'
<1>1. /\ c.message \in DOMAIN outbox /\ c.token \in Nat
      /\ outbox[c.message].attempts \in Nat /\ c.token <= outbox[c.message].attempts
  <2>1. /\ c \in Claim /\ c.message \in DOMAIN outbox
        /\ c.token <= outbox[c.message].attempts
    BY Zenon DEF OutboxInv
  <2>2. outbox[c.message] \in Row
    BY <2>1, Zenon DEF OutboxInv
  <2>3. c.token \in Nat
    BY <2>1, Zenon DEF Claim
  <2>4. outbox[c.message].attempts \in Nat
    BY <2>2, Zenon DEF Row
  <2> QED BY <2>1, <2>3, <2>4, Zenon
<1>2. status = "dead" => c.message \in rejected \/ outbox[c.message].attempts >= MaxAttempts
  BY <1>1, OutboxAssumption
<1>3. /\ accepted' = accepted /\ rejected' = rejected
      /\ inHand' = [inHand EXCEPT ![p] = Nothing]
  BY Zenon DEF sinkVars, Done
<1>4. /\ DOMAIN outbox' = DOMAIN outbox
      /\ \A m \in DOMAIN outbox :
            \/ /\ m = c.message /\ outbox'[m].status = status
               /\ outbox'[m].attempts = outbox[m].attempts
            \/ outbox'[m] = outbox[m]
  BY <1>1, ZenonT(30) DEF OutboxInv, Recorded, Row
<1>5. SettledForCause'
  <2>1. \A m \in DOMAIN outbox' :
               \/ outbox'[m].status \in {"ready", "resting"}
               \/ /\ m \in DOMAIN outbox
                  /\ outbox'[m].status = outbox[m].status
                  /\ outbox'[m].attempts = outbox[m].attempts
               \/ outbox'[m].status = "published" /\ m \in accepted'
               \/ /\ outbox'[m].status = "dead"
                  /\ m \in rejected' \/ outbox'[m].attempts >= MaxAttempts
    BY <1>2, <1>3, <1>4, Zenon
  <2> QED BY <1>3, <2>1, SettledKeeps, Zenon DEF SinkInv
<1>6. inHand' \in [Publisher -> {Nothing} \cup Sent] /\ HandInv'
  BY <1>3, Zenon DEF SinkInv, HandInv, Nothing
<1> QED BY <1>5, <1>6, Zenon DEF SinkInv

(* Every step of the outbox, its publishers and the sink keeps SinkInv.    *)
LEMMA SinkStep == OutboxInv /\ SinkInv /\ [OutboxNext]_outboxVars => SinkInv'
<1> SUFFICES ASSUME OutboxInv, SinkInv, [OutboxNext]_outboxVars PROVE SinkInv'
  BY Zenon
<1>1. ASSUME UNCHANGED <<inHand, sinkVars>>,
             \A m \in DOMAIN outbox' :
                 \/ outbox'[m].status \in {"ready", "resting"}
                 \/ /\ m \in DOMAIN outbox
                    /\ outbox'[m].status = outbox[m].status
                    /\ outbox'[m].attempts = outbox[m].attempts
      PROVE  SinkInv'
  <2>1. inHand' = inHand /\ accepted' = accepted /\ rejected' = rejected
    BY <1>1, Zenon DEF sinkVars
  <2>2. SettledForCause'
    BY <1>1, <2>1, SettledKeeps, Zenon DEF SinkInv
  <2> QED BY <2>1, <2>2, Zenon DEF SinkInv, HandInv
<1>2. ASSUME NEW m \in Message, CommitMessage(m) PROVE SinkInv'
  <2>1. /\ \A n \in DOMAIN outbox' : n \in DOMAIN outbox \/ n = m
        /\ \A n \in DOMAIN outbox : outbox'[n] = outbox[n]
        /\ outbox'[m].status = "ready"
    BY <1>2, Zenon DEF CommitMessage, NewRow
  <2> QED BY <1>1, <1>2, <2>1, Zenon DEF CommitMessage
<1>3. ASSUME NEW m \in Message, ClaimRunsOut(m) \/ retryDelayEnds(m) PROVE SinkInv'
  <2>1. /\ DOMAIN outbox' = DOMAIN outbox
        /\ \A n \in DOMAIN outbox :
              \/ outbox'[n].status = "ready"
              \/ /\ outbox'[n].status = outbox[n].status
                 /\ outbox'[n].attempts = outbox[n].attempts
        /\ UNCHANGED <<inHand, sinkVars>>
    <3>1. CASE ClaimRunsOut(m)
      BY <3>1, Zenon DEF ClaimRunsOut, OutboxInv, Row
    <3>2. CASE retryDelayEnds(m)
      BY <3>2, Zenon DEF retryDelayEnds, OutboxInv, Row
    <3> QED BY <1>3, <3>1, <3>2, Zenon
  <2> QED BY <1>1, <2>1, Zenon
<1>4. ASSUME NEW p \in Publisher, claim(p) PROVE SinkInv'
  <2>1. PICK taken \in SUBSET {m \in DOMAIN outbox : Claimable(m)} :
          outbox' = [m \in DOMAIN outbox |->
                IF m \in taken
                THEN [outbox[m] EXCEPT !.attempts = @ + 1, !.token = outbox[m].attempts + 1,
                                       !.live = TRUE]
                ELSE outbox[m]]
    BY <1>4, Zenon DEF claim
  <2>2. ASSUME NEW m \in DOMAIN outbox
        PROVE  \/ outbox'[m].status = "ready"
               \/ outbox'[m] = outbox[m]
    <3>1. CASE m \in taken
      <4>1. outbox'[m] = [outbox[m] EXCEPT !.attempts = @ + 1,
                                           !.token = outbox[m].attempts + 1, !.live = TRUE]
        BY <2>1, <3>1, Zenon
      <4>2. outbox[m] \in Row /\ outbox[m].status = "ready"
        BY <3>1, Zenon DEF OutboxInv, Claimable
      <4> QED BY <4>1, <4>2, Zenon DEF Row
    <3>2. CASE m \notin taken
      BY <2>1, <3>2, Zenon
    <3> QED BY <3>1, <3>2, Zenon
  <2>3. DOMAIN outbox' = DOMAIN outbox /\ UNCHANGED <<inHand, sinkVars>>
    BY <1>4, <2>1, Zenon DEF claim
  <2> QED BY <1>1, <2>2, <2>3, Zenon
<1>5. ASSUME NEW p \in Publisher, PublishNext(p) PROVE SinkInv'
  <2>1. PICK c \in batch[p] :
          \/ \E outcome \in Outcome : Send(p, c, outcome)
          \/ markPublished(p, c)
          \/ \E permanent \in BOOLEAN : markFailed(p, c, permanent)
          \/ UpdateFails(p, c)
    BY <1>5, Zenon DEF PublishNext
  <2>2. CASE markPublished(p, c)
    <3>1. inHand[p].outcome = "accepted" /\ inHand[p].claim = c
      <4>1. inHand[p] = [claim |-> c, outcome |-> "accepted"]
        BY <2>2, Zenon DEF markPublished
      <4> QED BY <4>1
    <3>2. c.message \in accepted
      BY <3>1, Zenon DEF SinkInv, HandInv
    <3> QED BY <2>2, <3>2, RecordedForCause, Zenon DEF markPublished
  <2>3. ASSUME NEW permanent \in BOOLEAN, markFailed(p, c, permanent)
        PROVE  SinkInv'
    <3>1. CASE Dead(c, permanent)
      <4>1. c.message \in rejected \/ c.token >= MaxAttempts
        <5>1. CASE permanent
          <6>1. inHand[p].outcome = "rejected" /\ inHand[p].claim = c
            <7>1. inHand[p] = [claim |-> c, outcome |-> "rejected"]
              BY <2>3, <5>1, Zenon DEF markFailed
            <7> QED BY <7>1
          <6> QED BY <6>1, Zenon DEF SinkInv, HandInv
        <5> QED BY <3>1, <5>1, Zenon DEF Dead
      <4>2. /\ outbox' = Recorded(c, "dead") /\ Done(p, c) /\ UNCHANGED sinkVars
        BY <2>3, <3>1, Zenon DEF markFailed
      <4> QED BY <4>1, <4>2, RecordedForCause, Zenon
    <3>2. CASE ~ Dead(c, permanent)
      <4>1. /\ outbox' = Recorded(c, "resting") /\ Done(p, c) /\ UNCHANGED sinkVars
        BY <2>3, <3>2, Zenon DEF markFailed
      <4> QED BY <4>1, RecordedForCause, Zenon
    <3> QED BY <3>1, <3>2, Zenon
  <2>4. CASE UpdateFails(p, c)
    <3>1. /\ outbox' = outbox /\ accepted' = accepted /\ rejected' = rejected
          /\ inHand' = [inHand EXCEPT ![p] = Nothing]
      BY <2>4, Zenon DEF UpdateFails, Done, sinkVars
    <3> QED BY <3>1, Zenon DEF SinkInv, HandInv, SettledForCause, Nothing
  <2>5. ASSUME NEW outcome \in Outcome, Send(p, c, outcome) PROVE SinkInv'
    <3>1. /\ outbox' = outbox /\ c \in Claim
          /\ inHand' = [inHand EXCEPT ![p] = [claim |-> c, outcome |-> outcome]]
          /\ accepted \subseteq accepted' /\ rejected \subseteq rejected'
          /\ outcome = "accepted" => c.message \in accepted'
          /\ outcome = "rejected" => c.message \in rejected'
      BY <2>5, Zenon DEF Send, sinkVars, OutboxInv
    <3>2. SettledForCause'
      BY <3>1, Zenon DEF SinkInv, SettledForCause
    <3>3. inHand' \in [Publisher -> {Nothing} \cup Sent]
      BY <3>1, Zenon DEF SinkInv, Sent
    <3>4. HandInv'
      BY <3>1, Zenon DEF SinkInv, HandInv
    <3> QED BY <3>2, <3>3, <3>4, Zenon DEF SinkInv
  <2> QED BY <2>1, <2>2, <2>3, <2>4, <2>5, Zenon
<1>6. ASSUME NEW p \in Publisher, PublisherCrash(p) PROVE SinkInv'
  <2>1. /\ outbox' = outbox /\ accepted' = accepted /\ rejected' = rejected
        /\ inHand' = [inHand EXCEPT ![p] = Nothing]
    BY <1>6, Zenon DEF PublisherCrash, sinkVars
  <2> QED BY <2>1, Zenon DEF SinkInv, HandInv, SettledForCause, Nothing
<1>7. CASE UNCHANGED outboxVars
  BY <1>7, Zenon DEF outboxVars, sinkVars, SinkInv, HandInv, SettledForCause
<1> QED BY <1>2, <1>3, <1>4, <1>5, <1>6, <1>7, Zenon DEF OutboxNext

(* What is marked published the sink has taken; what is dead-lettered it   *)
(* has refused for good, or the message had all its attempts (the WHERE    *)
(* clauses of markPublished and markFailed, and the count claim keeps).    *)
THEOREM MessagesSettleForCause == OutboxSpec => []SettledForCause
<1>1. OutboxInit => OutboxInv
  BY Zenon DEF OutboxInit, OutboxInv
<1>2. OutboxInit => SinkInv
  <2> SUFFICES ASSUME OutboxInit PROVE SinkInv
    BY Zenon
  <2>1. inHand \in [Publisher -> {Nothing} \cup Sent] /\ HandInv
    BY Zenon DEF OutboxInit, HandInv, Nothing
  <2>2. DOMAIN outbox = {}
    BY Zenon DEF OutboxInit
  <2> QED BY <2>1, <2>2, Zenon DEF SinkInv, SettledForCause
<1>3. SinkInv => SettledForCause
  BY Zenon DEF SinkInv
<1> QED BY <1>1, <1>2, <1>3, OutboxStep, SinkStep, PTL DEF OutboxSpec

-----------------------------------------------------------------------------
(***************************************************************************)
(* The serving process.                                                    *)
(***************************************************************************)
ProcessSpec == ProcessInit /\ [][ProcessNext]_processVars

Due(s) == IF s \in Server /\ serve[s] # "returned" THEN 1 ELSE 0

(* run waits for as many results as goroutines have not returned yet or    *)
(* have left in the channel, so after the last one no listener is left;    *)
(* what precedes the goroutines and what follows the wait has none.        *)
ProcessInv ==
    /\ ProcessTypeOK
    /\ pool = "closed" => main = "returned"
    /\ main = "startup" => exporter = "none"
    /\ main \in {"closePool", "returned"} => exporter \in {"none", "done"}
    /\ main \in {"startup", "listening"} =>
          results = 0 /\ \A s \in Server : serve[s] = "none"
    /\ main \in {"waiting", "drain", "close", "await", "collect"} =>
          serverCount = results + Due("public") + Due("trusted")
    /\ main \in {"unwind", "closePool", "returned"} =>
          \A s \in Server : serve[s] \in {"none", "returned"}

(* The servers are the public one and perhaps the trusted one.             *)
LEMMA Servers == Server \subseteq {"public", "trusted"} /\ "public" \in Server
BY Zenon DEF Server

(* Starting, stopping and unwinding, one deferred call after the other.    *)
LEMMA ProcessInvMain == ProcessInv /\ MainNext => ProcessInv'
<1> SUFFICES ASSUME ProcessInv, MainNext PROVE ProcessInv'
  BY Zenon
<1> USE Servers DEF ProcessInv, ProcessTypeOK, Due
<1>1. CASE OpenPool
  BY <1>1, Zenon DEF OpenPool
<1>2. CASE StartWorkers
  BY <1>2, Zenon DEF StartWorkers
<1>3. CASE Listen
  <2>1. CASE main' = "waiting" /\ serve' = [s \in Server |-> "spawned"]
             /\ serverCount' = IF Trusted THEN 2 ELSE 1
    <3>1. serverCount' = (results + Due("public") + Due("trusted"))'
      BY <1>3, <2>1 DEF Listen, Server
    <3> QED BY <1>3, <2>1, <3>1 DEF Listen
  <2>2. CASE main' = "unwind" /\ UNCHANGED <<serve, serverCount>>
    BY <1>3, <2>2, Zenon DEF Listen
  <2> QED BY <1>3, <2>1, <2>2, Zenon DEF Listen
<1>4. CASE StopRequested
  BY <1>4 DEF StopRequested, Remaining
<1>5. CASE Drain
  BY <1>5, Zenon DEF Drain
<1>6. CASE Close
  BY <1>6, Zenon DEF Close
<1>7. CASE Await
  BY <1>7, Zenon DEF Await
<1>8. CASE Collect
  BY <1>8 DEF Collect
<1>9. CASE StopWorkers
  BY <1>9, Zenon DEF StopWorkers
<1>10. CASE WaitWorkers
  BY <1>10, Zenon DEF WaitWorkers, WorkersDone
<1>11. CASE ClosePool
  BY <1>11, ZenonT(30) DEF ClosePool
<1> QED BY <1>1, <1>2, <1>3, <1>4, <1>5, <1>6, <1>7, <1>8, <1>9, <1>10, <1>11, Zenon DEF MainNext

(* The goroutines: a listener's result is sent as its Serve returns.       *)
LEMMA ProcessInvStep == ProcessInv /\ [ProcessNext]_processVars => ProcessInv'
<1> SUFFICES ASSUME ProcessInv, [ProcessNext]_processVars PROVE ProcessInv'
  BY Zenon
<1> USE Servers DEF ProcessInv, ProcessTypeOK, Due
<1>1. CASE WorkerNext
  BY <1>1 DEF WorkerNext, ExportOne, Pause
<1>2. CASE Signalled
  BY <1>2 DEF Signalled
<1>3. ASSUME NEW s \in Server, ServeNext(s) \/ ServeEnds(s) PROVE ProcessInv'
  <2>1. CASE MarkReady(s)
    BY <2>1 DEF MarkReady
  <2>2. CASE HttpServe(s)
    BY <2>2 DEF HttpServe
  <2>3. CASE ServeEnds(s)
    BY <2>3 DEF ServeEnds
  <2>4. CASE ServeReturns(s)
    <3>1. /\ s \in {"public", "trusted"} /\ serve[s] = "ended"
          /\ serve' = [serve EXCEPT ![s] = "returned"]
          /\ results' = results + 1 /\ UNCHANGED <<main, serverCount>>
      BY <2>4, Zenon DEF ServeReturns
    <3>2. /\ main \in {"waiting", "drain", "close", "await", "collect"}
          /\ serverCount = results + Due("public") + Due("trusted")
      BY <3>1, Zenon
    <3>3. /\ Due(s) = 1 /\ Due(s)' = 0
          /\ \A t \in {"public", "trusted"} : t # s => Due(t)' = Due(t) /\ Due(t) \in {0, 1}
      BY <3>1, Zenon
    <3>4. results' \in 0..2 /\ serverCount' = (results + Due("public") + Due("trusted"))'
      BY <3>1, <3>2, <3>3
    <3> QED BY <2>4, <3>1, <3>2, <3>4, ZenonT(30) DEF ServeReturns, ClearReadiness
  <2> QED BY <1>3, <2>1, <2>2, <2>3, <2>4, Zenon DEF ServeNext
<1>4. CASE UNCHANGED processVars
  BY <1>4 DEF processVars
<1> QED BY <1>1, <1>2, <1>3, <1>4, ProcessInvMain, Zenon DEF ProcessNext

(* The pool is closed after the exporter has ended and after every         *)
(* listener's goroutine has returned, on every way out of run.             *)
THEOREM PoolOutlivesItsUsers == ProcessSpec => []PoolClosedLast
<1>1. ProcessInit => ProcessInv
  <2> SUFFICES ASSUME ProcessInit PROVE ProcessInv
    BY Zenon
  <2>1. ctxDone \in BOOLEAN /\ stopWorkers \in BOOLEAN /\ ready \in BOOLEAN
    BY Zenon DEF ProcessInit
  <2>2. /\ serve \in [Server -> {"none", "spawned", "marked", "serving", "ended", "returned"}]
        /\ http \in [Server -> {"open", "closing", "shut"}]
        /\ \A s \in Server : serve[s] = "none"
    BY Zenon DEF ProcessInit
  <2>3. results \in 0..2 /\ serverCount \in 0..2 /\ main = "startup" /\ results = 0
    BY DEF ProcessInit
  <2> QED BY <2>1, <2>2, <2>3, Zenon DEF ProcessInit, ProcessInv, ProcessTypeOK
<1>2. ProcessInv => PoolClosedLast
  BY Zenon DEF ProcessInv, PoolClosedLast
<1> QED BY <1>1, <1>2, ProcessInvStep, PTL DEF ProcessSpec

-----------------------------------------------------------------------------
(***************************************************************************)
(* Retired signing keys.                                                   *)
(***************************************************************************)
VerifierSpec == VerifierInit /\ [][VerifierNext]_verifierVars

(* A request that stores a document does so within FetchTime of the        *)
(* answer, and the document's keys were still published then.              *)
Timely(k) ==
    /\ k.at <= instant /\ instant <= k.at + FetchTime
    /\ \A kid \in k.document : k.at <= retired[kid]
    /\ k.ttl <= JWKSStaleTTL

(* A key that was found is within the bound.                               *)
Bounded(k) == k.now < retired[k.kid] + FetchTime + JWKSStaleTTL

CallInv(k) ==
    /\ k.pc # "idle" => k.now <= instant
    /\ k.pc = "store" => Timely(k)
    /\ k.pc = "found" => Bounded(k)

(* The stale horizon is at most one stale interval ahead of the clock and, *)
(* for each key in the cache, of its retirement and the fetch.             *)
CacheInv ==
    /\ expiresAt <= staleAt
    /\ staleAt <= instant + JWKSStaleTTL
    /\ \A kid \in keys : staleAt <= retired[kid] + FetchTime + JWKSStaleTTL

VerifierInv ==
    /\ VerifierTypeOK
    /\ instant <= MaxInstant
    /\ \A kid \in published : retired[kid] = NotYet
    /\ CacheInv
    /\ \A c \in Call : CallInv(call[c])

-----------------------------------------------------------------------------
(* The clamped advice lies within the configured bounds.                   *)
LEMMA ClampedBounds ==
    ASSUME NEW ttl \in Nat
    PROVE  Clamped(ttl) \in Nat /\ Clamped(ttl) <= JWKSStaleTTL
BY TTLAssumption DEF Clamped

(* The invariant holds once New has fetched the first document.            *)
LEMMA VerifierInvInit == VerifierInit => VerifierInv
<1> SUFFICES ASSUME VerifierInit PROVE VerifierInv
  BY Zenon
<1>1. expiresAt \in Nat /\ expiresAt <= JWKSStaleTTL
  BY ClampedBounds, TTLAssumption, Zenon DEF VerifierInit
<1>2. VerifierTypeOK
  BY <1>1, TTLAssumption DEF VerifierInit, VerifierTypeOK, NotYet
<1>3. CacheInv
  BY <1>1, TTLAssumption DEF VerifierInit, CacheInv, NotYet
<1>4. \A c \in Call : CallInv(call[c])
  BY Zenon DEF VerifierInit, CallInv, NoCall
<1> QED BY <1>2, <1>3, <1>4, TTLAssumption DEF VerifierInv, VerifierInit

(* A step of one request that leaves the cache alone keeps the invariant   *)
(* if the request's own record keeps it.                                   *)
LEMMA OneCall ==
    ASSUME VerifierInv, NEW c \in Call, NEW k \in {NoCall} \cup Looking \cup Storing,
           call' = [call EXCEPT ![c] = k],
           UNCHANGED <<instant, published, retired, keys, expiresAt, staleAt>>,
           CallInv(k)
    PROVE  VerifierInv'
<1>1. VerifierTypeOK'
  BY Zenon DEF VerifierInv, VerifierTypeOK
<1>2. CallInv(k)'
  BY Zenon DEF CallInv, Timely, Bounded
<1>3. ASSUME NEW d \in Call PROVE CallInv(call[d])'
  <2>1. CASE d = c
    BY <1>2, <2>1, Zenon DEF VerifierInv, VerifierTypeOK
  <2>2. CASE d # c
    BY <2>2, Zenon DEF VerifierInv, VerifierTypeOK, CallInv, Timely, Bounded
  <2> QED BY <2>1, <2>2, Zenon
<1> QED BY <1>1, <1>3, Zenon DEF VerifierInv, CacheInv

-----------------------------------------------------------------------------
(* The provider and the clock keep the invariant.                          *)
LEMMA ProviderStep ==
    ASSUME VerifierInv,
           VerifierTick \/ \E kid \in Kid : AddKey(kid) \/ RetireKey(kid)
    PROVE  VerifierInv'
<1> USE TTLAssumption
<1>1. CASE VerifierTick
  <2>1. VerifierTypeOK' /\ CacheInv' /\ (instant <= MaxInstant)'
    BY <1>1 DEF VerifierInv, VerifierTick, VerifierTypeOK, CacheInv
  <2>2. ASSUME NEW c \in Call PROVE CallInv(call[c])'
    <3>1. call[c] \in {NoCall} \cup Looking \cup Storing /\ CallInv(call[c])
      BY Zenon DEF VerifierInv, VerifierTypeOK
    <3>2. CASE call[c].pc = "store"
      BY <1>1, <3>1, <3>2, SMTT(30) DEF VerifierInv, VerifierTick, VerifierTypeOK, CallInv, Timely,
                              NoCall, Looking, Storing
    <3>3. CASE call[c].pc # "store"
      BY <1>1, <3>1, <3>3, SMTT(30) DEF VerifierInv, VerifierTick, VerifierTypeOK, CallInv, Bounded,
                              NoCall, Looking, Storing
    <3> QED BY <3>2, <3>3, Zenon
  <2> QED BY <1>1, <2>1, <2>2, Zenon DEF VerifierInv, VerifierTick
<1>2. ASSUME NEW kid \in Kid, AddKey(kid) PROVE VerifierInv'
  BY <1>2, Zenon DEF VerifierInv, AddKey, VerifierTypeOK, CacheInv, CallInv, Timely, Bounded
<1>3. ASSUME NEW kid \in Kid, RetireKey(kid) PROVE VerifierInv'
  <2>1. VerifierTypeOK' /\ (instant <= MaxInstant)'
    BY <1>3, Zenon DEF VerifierInv, RetireKey, VerifierTypeOK
  <2>2. \A other \in Kid : retired'[other] = IF other = kid THEN instant ELSE retired[other]
    BY <1>3, Zenon DEF VerifierInv, RetireKey, VerifierTypeOK
  <2>3. (\A other \in published : retired[other] = NotYet)'
    BY <1>3, <2>2, Zenon DEF VerifierInv, RetireKey, VerifierTypeOK, NotYet
  <2>4. CacheInv'
    BY <1>3, <2>2 DEF VerifierInv, RetireKey, VerifierTypeOK, CacheInv
  <2>5. ASSUME NEW c \in Call PROVE CallInv(call[c])'
    <3>1. call[c] \in {NoCall} \cup Looking \cup Storing /\ CallInv(call[c]) /\ UNCHANGED call
      BY <1>3, Zenon DEF VerifierInv, VerifierTypeOK, RetireKey
    <3>2. CASE call[c] \in Storing
      BY <1>3, <2>2, <3>1, <3>2, Zenon
         DEF VerifierInv, RetireKey, VerifierTypeOK, CallInv, Timely, Storing
    <3>3. CASE call[c] \in Looking
      BY <1>3, <2>2, <3>1, <3>3, SMTT(30) DEF VerifierInv, RetireKey, VerifierTypeOK,
                                    CallInv, Bounded, Looking
    <3>4. CASE call[c] = NoCall
      BY <3>1, <3>4 DEF CallInv, NoCall
    <3> QED BY <3>1, <3>2, <3>3, <3>4, Zenon
  <2> QED BY <2>1, <2>3, <2>4, <2>5, Zenon DEF VerifierInv
<1> QED BY <1>1, <1>2, <1>3, Zenon

(* So does every step of a request.                                        *)
LEMMA CallStep ==
    ASSUME VerifierInv, NEW c \in Call,
           \/ \E kid \in Kid : Verify(c, kid)
           \/ getJSON(c) \/ refresh(c) \/ key(c) \/ mapClaims(c)
    PROVE  VerifierInv'
<1> USE TTLAssumption
<1>0. /\ call[c] \in {NoCall} \cup Looking \cup Storing /\ CallInv(call[c])
      /\ instant \in Nat /\ staleAt \in Nat /\ expiresAt \in Nat
  BY Zenon DEF VerifierInv, VerifierTypeOK
<1>1. ASSUME NEW kid \in Kid, Verify(c, kid) PROVE VerifierInv'
  <2> DEFINE hit == [pc |-> "found", kid |-> kid, now |-> instant]
             miss == [pc |-> "fetch", kid |-> kid, now |-> instant]
  <2>0. hit \in Looking /\ miss \in Looking
    BY <1>0, SMTT(30) DEF Looking
  <2>a. instant <= instant
    BY <1>0, SMTT(30)
  <2>1. hit \in Looking /\ miss \in Looking /\ CallInv(miss)
    BY <2>0, <2>a, SMTT(30) DEF CallInv
  <2>2. CASE kid \in keys /\ instant < expiresAt
    <3>1. CallInv(hit)
      BY <1>0, <2>2 DEF CallInv, Bounded, VerifierInv, VerifierTypeOK, CacheInv
    <3> QED BY <1>1, <2>1, <2>2, <3>1, OneCall, Zenon DEF Verify
  <2>3. CASE ~(kid \in keys /\ instant < expiresAt)
    BY <1>1, <2>1, <2>3, OneCall, Zenon DEF Verify
  <2> QED BY <2>2, <2>3, ZenonT(30)
<1>2. CASE getJSON(c)
  <2>1. call[c] \in Looking /\ call[c].pc = "fetch"
    BY <1>0, <1>2 DEF getJSON, NoCall, Looking, Storing
  <2>2. CASE call' = [call EXCEPT ![c].pc = "recheck"]
    <3> DEFINE k == [call[c] EXCEPT !.pc = "recheck"]
    <3>1. k \in Looking /\ CallInv(k)
      BY <1>0, <2>1, Zenon DEF Looking, CallInv
    <3>2. call' = [call EXCEPT ![c] = k]
      BY <2>2, Zenon
    <3> QED BY <1>2, <3>1, <3>2, OneCall, Zenon DEF getJSON
  <2>3. ASSUME NEW ttl \in AdvisedTTL,
               call' = [call EXCEPT ![c] =
                  [pc |-> "store", kid |-> @.kid, now |-> @.now, document |-> published,
                   ttl |-> Clamped(ttl), at |-> instant]]
        PROVE  VerifierInv'
    <3> DEFINE k == [pc |-> "store", kid |-> call[c].kid, now |-> call[c].now,
                     document |-> published, ttl |-> Clamped(ttl), at |-> instant]
    <3>1. Clamped(ttl) \in Nat /\ Clamped(ttl) <= JWKSStaleTTL
      BY ClampedBounds, Zenon
    <3>2. k \in Storing
      <4>1. call[c].kid \in Kid /\ call[c].now \in Nat
        BY <2>1, Zenon DEF Looking
      <4>2. published \in SUBSET Kid
        BY Zenon DEF VerifierInv, VerifierTypeOK
      <4> QED BY <1>0, <3>1, <4>1, <4>2, ZenonT(30) DEF Storing
    <3>a. /\ published \subseteq Kid /\ instant <= MaxInstant
          /\ \A kid \in published : retired[kid] = NotYet
      BY Zenon DEF VerifierInv, VerifierTypeOK
    <3>b. \A kid \in published : instant <= retired[kid]
      BY <1>0, <3>a DEF NotYet
    <3>c. call[c].now <= instant
      BY <1>0, <2>1, Zenon DEF CallInv
    <3>d. /\ k.pc = "store" /\ k.now = call[c].now /\ k.document = published
          /\ k.ttl = Clamped(ttl) /\ k.at = instant
      BY Zenon
    <3>e. Timely(k)
      BY <1>0, <3>1, <3>b, <3>d DEF Timely
    <3>3. CallInv(k)
      BY <3>c, <3>d, <3>e, Zenon DEF CallInv
    <3>4. call' = [call EXCEPT ![c] = k]
      BY <2>3, Zenon
    <3> HIDE DEF k
    <3> QED BY <1>2, <3>2, <3>3, <3>4, OneCall, Zenon DEF getJSON
  <2> QED BY <1>2, <2>2, <2>3, Zenon DEF getJSON
<1>3. CASE refresh(c)
  <2>1. call[c] \in Storing /\ Timely(call[c])
    BY <1>0, <1>3 DEF refresh, NoCall, Looking, Storing, CallInv
  <2> DEFINE k == [pc |-> "recheck", kid |-> call[c].kid, now |-> call[c].now]
  <2>2. k \in Looking /\ call' = [call EXCEPT ![c] = k] /\ call'[c] = k
    BY <1>3, <2>1, Zenon DEF refresh, Looking, Storing, VerifierInv, VerifierTypeOK
  <2>3. VerifierTypeOK'
    BY <1>3, <2>1, <2>2, SMTT(30) DEF refresh, Storing, VerifierInv, VerifierTypeOK
  <2>4. CacheInv'
    BY <1>3, <2>1, SMTT(30) DEF refresh, Storing, VerifierInv, VerifierTypeOK, CacheInv, Timely
  <2>5. CallInv(k)'
    BY <1>0, <1>3, <2>1 DEF refresh, CallInv, Storing
  <2>6. ASSUME NEW d \in Call PROVE CallInv(call[d])'
    <3>1. CASE d = c
      BY <2>2, <2>5, <3>1
    <3>2. CASE d # c
      BY <1>3, <2>2, <3>2, Zenon
         DEF refresh, VerifierInv, VerifierTypeOK, CallInv, Timely, Bounded
    <3> QED BY <3>1, <3>2, Zenon
  <2> QED BY <1>3, <2>3, <2>4, <2>6, Zenon DEF VerifierInv, refresh
<1>4. CASE key(c)
  <2>1. call[c] \in Looking /\ call[c].pc = "recheck"
    BY <1>0, <1>4 DEF key, NoCall, Looking, Storing
  <2> DEFINE k == [pc |-> "found", kid |-> call[c].kid, now |-> call[c].now]
  <2>2. CASE WithinStale(call[c].kid, call[c].now)
    <3>1. k \in Looking /\ CallInv(k)
      BY <1>0, <2>1, <2>2 DEF WithinStale, Looking, CallInv, Bounded, VerifierInv,
                              VerifierTypeOK, CacheInv
    <3>2. call' = [call EXCEPT ![c] = k]
      BY <1>4, <2>2, Zenon DEF key
    <3> QED BY <1>4, <3>1, <3>2, OneCall, ZenonT(30) DEF key
  <2>3. CASE ~WithinStale(call[c].kid, call[c].now)
    <3>1. call' = [call EXCEPT ![c] = NoCall] /\ CallInv(NoCall)
      BY <1>4, <2>3, Zenon DEF key, CallInv, NoCall
    <3> QED BY <1>4, <3>1, OneCall, Zenon DEF key
  <2> QED BY <2>2, <2>3, Zenon
<1>5. CASE mapClaims(c)
  <2>1. call' = [call EXCEPT ![c] = NoCall] /\ CallInv(NoCall)
    BY <1>5, Zenon DEF mapClaims, CallInv, NoCall
  <2> QED BY <1>5, <2>1, OneCall, Zenon DEF mapClaims
<1> QED BY <1>1, <1>2, <1>3, <1>4, <1>5, Zenon

(* RetiredKeyExpires for every instance: overlapping refreshes, outages    *)
(* and late stores never stretch the use of a retired key past the stale   *)
(* interval plus the time a document takes to be stored.                   *)
THEOREM RetiredKeysExpire == VerifierSpec => []RetiredKeyExpires
<1>1. VerifierInv /\ [VerifierNext]_verifierVars => VerifierInv'
  <2> SUFFICES ASSUME VerifierInv, [VerifierNext]_verifierVars PROVE VerifierInv'
    BY Zenon
  <2>1. CASE UNCHANGED verifierVars
    BY <2>1, Zenon DEF verifierVars, VerifierInv, VerifierTypeOK, CacheInv, CallInv, Timely, Bounded
  <2> QED BY <2>1, ProviderStep, CallStep, Zenon DEF VerifierNext
<1>2. VerifierInv => RetiredKeyExpires
  BY Zenon DEF VerifierInv, CallInv, Bounded, RetiredKeyExpires
<1> QED BY <1>1, <1>2, VerifierInvInit, PTL DEF VerifierSpec

(***************************************************************************)
(* Agent admission, for every set of requests in flight, every lease and   *)
(* lifetime of the idempotency record, and every history of decisions      *)
(* about the versions.                                                     *)
(***************************************************************************)

(* An update in flight expects an earlier row, or is allowed from the      *)
(* present one.                                                            *)
UpdatesInv ==
    \A u \in updates :
        /\ u.expected <= agent.updated_at
        /\ u.expected = agent.updated_at => CanTransitionTo(agent.status, u.status)

(* The record was acquired in the past, by the newest token.  A run was    *)
(* admitted under the present acquisition, which then is completed, or     *)
(* under one at least a lifetime before it.  The stored response names a   *)
(* run for the stored request.                                             *)
Admitted(i) ==
    \/ record.state = "COMPLETED" /\ i = Len(runs) /\ record.expires = runs[i].acquired + TTL
    \/ runs[i].acquired + TTL + TTL <= record.expires

RecordInv ==
    /\ record = NoRecord => runs = <<>>
    /\ record # NoRecord =>
          /\ TTL <= record.expires /\ record.expires <= clock + TTL
          /\ record.owner = tokens
          /\ \A i \in DOMAIN runs : Admitted(i)
          /\ record.state = "COMPLETED" =>
                record.response \in DOMAIN runs /\ runs[record.response].request = record.hash

(* A request in flight found or made a record; while it owns the record,   *)
(* the record is for that request.                                         *)
AttemptInv(x) ==
    /\ x # Idle => record # NoRecord
    /\ x.pc \in {"acquired", "resolved", "failing"} =>
          x.token <= tokens /\ (Owns(record, x.token) => x.request = record.hash)

AdmissionInv ==
    /\ TypeOK
    /\ UpdatesInv
    /\ RecordInv
    /\ \A a \in Attempt : AttemptInv(attempt[a])
    /\ OneRunPerKey
    /\ ReplayIsFaithful
    /\ RevokedVersionsStayOut

(* The transaction A preserves the invariant.                              *)
Keeps(A) == AdmissionInv /\ A => AdmissionInv'

(* A request's statement leaves the clock and the registry alone.          *)
Alone(A) == A /\ UNCHANGED <<clock, registryVars>>

(* What the requests share, and what only changes when a run is admitted   *)
(* or a response is sent.                                                  *)
SharedInv ==
    /\ record \in {NoRecord} \cup RecordOf(Request, Nat)
    /\ tokens \in 0..MaxTokens
    /\ RecordInv

CommittedInv ==
    /\ runs \in Seq(Run)
    /\ answers \subseteq [request : Request, run : DOMAIN runs]
    /\ OneRunPerKey
    /\ ReplayIsFaithful
    /\ RevokedVersionsStayOut

AttemptsInv ==
    /\ attempt \in [Attempt -> AttemptState]
    /\ \A a \in Attempt : AttemptInv(attempt[a])

(* A request's step leaves the clock and the registry alone, so the rest   *)
(* of the invariant is all it can disturb.                                 *)
LEMMA RequestStep ==
    ASSUME AdmissionInv, UNCHANGED <<clock, registryVars>>,
           SharedInv', CommittedInv', AttemptsInv'
    PROVE  AdmissionInv'
<1>1. clock \in 0..MaxTime /\ RegistryTypeOK /\ UpdatesInv
  BY Zenon DEF AdmissionInv, TypeOK
<1>2. (clock \in 0..MaxTime)' /\ RegistryTypeOK' /\ UpdatesInv'
  BY <1>1, Zenon DEF registryVars, RegistryTypeOK, UpdatesInv, CanTransitionTo
<1> QED
  BY <1>2, Zenon DEF AdmissionInv, TypeOK, SharedInv, CommittedInv, AttemptsInv

(* The groups, and the rest, from the whole.                               *)
LEMMA Parts ==
    AdmissionInv => /\ SharedInv /\ CommittedInv /\ AttemptsInv /\ UpdatesInv
                    /\ clock \in Nat /\ tokens \in Nat /\ RegistryTypeOK
BY AdmissionAssumption DEF AdmissionInv, TypeOK, SharedInv, CommittedInv, AttemptsInv

(* One request moves on, and neither the record nor the tokens change.     *)
LEMMA OneAttempt ==
    ASSUME AttemptsInv, NEW a \in Attempt, NEW x \in AttemptState, AttemptInv(x),
           attempt' = [attempt EXCEPT ![a] = x], UNCHANGED <<record, tokens>>
    PROVE  AttemptsInv'
<1>1. attempt' \in [Attempt -> AttemptState]
  BY Zenon DEF AttemptsInv
<1>2. \A y : AttemptInv(y) => AttemptInv(y)'
  BY Zenon DEF AttemptInv, Owns
<1>3. \A b \in Attempt : attempt'[b] = IF b = a THEN x ELSE attempt[b]
  BY Zenon DEF AttemptsInv
<1>4. ASSUME NEW b \in Attempt PROVE AttemptInv(attempt[b])'
  <2>1. PICK y : y = attempt'[b]
    BY Zenon
  <2>2. AttemptInv(y)
    BY <1>3, <2>1, Zenon DEF AttemptsInv
  <2> QED
    BY <1>2, <2>1, <2>2, Zenon DEF AttemptInv
<1> QED
  BY <1>1, <1>4, Zenon DEF AttemptsInv

(* The record is replaced or settled and one request moves on: whatever    *)
(* the others hold owns nothing any more.                                  *)
LEMMA MovedRecord ==
    ASSUME AttemptsInv, NEW a \in Attempt, NEW x \in AttemptState, AttemptInv(x)',
           attempt' = [attempt EXCEPT ![a] = x], record' # NoRecord,
           tokens \in Nat, tokens' \in Nat, tokens <= tokens',
           \A k \in Nat : k <= tokens => ~Owns(record', k)
    PROVE  AttemptsInv'
<1>1. attempt' \in [Attempt -> AttemptState]
  BY Zenon DEF AttemptsInv
<1>2. \A y \in AttemptState : AttemptInv(y) => AttemptInv(y)'
  <2>1. \A y \in AttemptState : y.pc \in {"acquired", "resolved", "failing"} => y.token \in Nat
    BY DEF AttemptState, Idle
  <2> QED
    BY <2>1 DEF AttemptInv
<1>3. \A b \in Attempt : attempt'[b] = IF b = a THEN x ELSE attempt[b]
  BY Zenon DEF AttemptsInv
<1>4. ASSUME NEW b \in Attempt PROVE AttemptInv(attempt[b])'
  <2>1. PICK y : y = attempt'[b]
    BY Zenon
  <2>2. AttemptInv(y)'
    BY <1>2, <1>3, <2>1, Zenon DEF AttemptsInv
  <2> QED
    BY <2>1, <2>2, Zenon DEF AttemptInv
<1> QED
  BY <1>1, <1>4, Zenon DEF AttemptsInv

(* A request that is over holds nothing.                                   *)
LEMMA IdleAttempt == Idle \in AttemptState /\ AttemptInv(Idle) /\ AttemptInv(Idle)'
<1>1. Idle.pc = "idle"
  BY Zenon DEF Idle
<1> QED
  BY <1>1, Zenon DEF AttemptState, AttemptInv

(* Nothing but the attempt changes: the committed part follows.            *)
LEMMA SameRuns == CommittedInv /\ UNCHANGED <<runs, answers>> => CommittedInv'
BY Zenon DEF CommittedInv, OneRunPerKey, ReplayIsFaithful, RevokedVersionsStayOut

(* Likewise what the requests share.                                       *)
LEMMA SameRecord == SharedInv /\ UNCHANGED <<clock, record, tokens, runs>> => SharedInv'
BY Zenon DEF SharedInv, RecordInv, Admitted

(* A request that is given up changes only itself.                         *)
LEMMA AbandonKeeps ==
    ASSUME NEW a \in Attempt PROVE Keeps(Alone(Abandon(a)))
<1>a. SUFFICES ASSUME AdmissionInv, Abandon(a), UNCHANGED <<clock, registryVars>>
               PROVE  AdmissionInv'
  BY Zenon DEF Keeps, Alone
<1>1. SharedInv' /\ CommittedInv'
  BY <1>a, Parts, SameRuns, SameRecord, Zenon DEF Abandon
<1>2. AttemptsInv'
  BY <1>a, Parts, IdleAttempt, OneAttempt, Zenon DEF Abandon
<1> QED
  BY <1>a, <1>1, <1>2, RequestStep, Zenon

(* A version is resolved from those registered; the request keeps its      *)
(* token.                                                                  *)
LEMMA ResolveKeeps ==
    ASSUME NEW a \in Attempt PROVE Keeps(Alone(Resolve(a)))
<1>a. SUFFICES ASSUME AdmissionInv, Resolve(a), UNCHANGED <<clock, registryVars>>
               PROVE  AdmissionInv'
  BY Zenon DEF Keeps, Alone
<1>1. SharedInv' /\ CommittedInv'
  BY <1>a, Parts, SameRuns, SameRecord, Zenon DEF Resolve
<1>2. AttemptsInv'
  <2>1. PICK old : old = attempt[a]
    BY Zenon
  <2>2. old \in AttemptState /\ AttemptInv(old) /\ old.pc = "acquired"
    BY <1>a, <2>1, Parts, Zenon DEF Resolve, AttemptsInv
  <2>3. old.request \in Request /\ old.token \in Nat
    BY <2>2 DEF AttemptState, Idle
  <2>4. PICK v \in Candidates(old.request) :
           attempt' = [attempt EXCEPT ![a] =
              [pc |-> "resolved", request |-> old.request, token |-> old.token,
               version |-> v, mode |-> SelectionMode(old.request, v)]]
    BY <1>a, <2>1, Zenon DEF Resolve
  <2>5. PICK x : x = [pc |-> "resolved", request |-> old.request, token |-> old.token,
                      version |-> v, mode |-> SelectionMode(old.request, v)]
    BY Zenon
  <2>6. v \in Version /\ SelectionMode(old.request, v) \in Mode
    BY <1>a, <2>4, Parts, Zenon DEF Candidates, RegistryTypeOK, SelectionMode, Mode
  <2>7. x \in AttemptState
    BY <2>3, <2>5, <2>6, Zenon DEF AttemptState
  <2>8. /\ x.pc = "resolved" /\ x.request = old.request /\ x.token = old.token
        /\ x # Idle /\ old # Idle
    BY <2>2, <2>5 DEF Idle
  <2>9. AttemptInv(x)
    BY <2>2, <2>8, Zenon DEF AttemptInv
  <2> QED
    BY <1>a, <2>4, <2>5, <2>7, <2>9, Parts, OneAttempt, Zenon DEF Resolve
<1> QED
  BY <1>a, <1>1, <1>2, RequestStep, Zenon

(* A replay sends the response that the record stores for this request.    *)
LEMMA ReadContendedKeeps ==
    ASSUME NEW a \in Attempt PROVE Keeps(Alone(ReadContended(a)))
<1>a. SUFFICES ASSUME AdmissionInv, ReadContended(a), UNCHANGED <<clock, registryVars>>
               PROVE  AdmissionInv'
  BY Zenon DEF Keeps, Alone
<1>1. SharedInv'
  BY <1>a, Parts, SameRecord, Zenon DEF ReadContended
<1>2. AttemptsInv'
  BY <1>a, Parts, IdleAttempt, OneAttempt, Zenon DEF ReadContended
<1>3. CommittedInv'
  <2>1. PICK old : old = attempt[a]
    BY Zenon
  <2>2. old \in AttemptState /\ AttemptInv(old) /\ old.pc = "contended"
    BY <1>a, <2>1, Parts, Zenon DEF ReadContended, AttemptsInv
  <2>3. old.request \in Request /\ record # NoRecord
    <3>1. old # Idle /\ old.request \in Request
      BY <2>2 DEF AttemptState, Idle
    <3> QED
      BY <2>2, <3>1, Zenon DEF AttemptInv
  <2>4. CASE ContendedOutcome(record, old.request) = "REPLAY"
    <3>1. record.state = "COMPLETED" /\ record.hash = old.request
      BY <2>4, Zenon DEF ContendedOutcome
    <3>2. record.response \in DOMAIN runs /\ runs[record.response].request = old.request
      BY <1>a, <2>3, <3>1, Parts, Zenon DEF SharedInv, RecordInv
    <3>3. PICK x : x = [request |-> old.request, run |-> record.response]
      BY Zenon
    <3>4. answers' = answers \cup {x} /\ runs' = runs
      BY <1>a, <2>1, <2>4, <3>3, Zenon DEF ReadContended
    <3>5. x \in [request : Request, run : DOMAIN runs] /\ runs[x.run].request = x.request
      BY <2>3, <3>2, <3>3, Zenon
    <3> QED
      BY <1>a, <3>4, <3>5, Parts, Zenon
         DEF CommittedInv, OneRunPerKey, ReplayIsFaithful, RevokedVersionsStayOut
  <2>5. CASE ContendedOutcome(record, old.request) # "REPLAY"
    BY <1>a, <2>1, <2>5, Parts, SameRuns, Zenon DEF ReadContended
  <2> QED
    BY <2>4, <2>5, Zenon
<1> QED
  BY <1>a, <1>1, <1>2, <1>3, RequestStep, Zenon

(* Only the owner's failure changes the record, and then the state alone:  *)
(* no run has been admitted under that acquisition.                        *)
LEMMA FailKeeps ==
    ASSUME NEW a \in Attempt PROVE Keeps(Alone(FailIdempotency(a)))
<1>a. SUFFICES ASSUME AdmissionInv, FailIdempotency(a), UNCHANGED <<clock, registryVars>>
               PROVE  AdmissionInv'
  BY Zenon DEF Keeps, Alone
<1>1. CommittedInv'
  BY <1>a, Parts, SameRuns, Zenon DEF FailIdempotency
<1>2. PICK k : k = attempt[a].token
  BY Zenon
<1>3. CASE ~Owns(record, k)
  <2>1. UNCHANGED record
    BY <1>a, <1>2, <1>3, Zenon DEF FailIdempotency, FailedRecord
  <2> QED
    BY <1>a, <1>1, <2>1, Parts, SameRecord, IdleAttempt, OneAttempt, RequestStep, Zenon
       DEF FailIdempotency
<1>4. CASE Owns(record, k)
  <2>1. record # NoRecord /\ record.state = "IN_PROGRESS"
    BY <1>4, Zenon DEF Owns
  <2>2. record \in RecordOf(Request, Nat)
    BY <1>a, <2>1, Parts, Zenon DEF SharedInv
  <2>3. record' = [record EXCEPT !.state = "FAILED", !.locked = clock]
    BY <1>a, <1>2, <1>4, Zenon DEF FailIdempotency, FailedRecord
  <2>4. /\ record'.state = "FAILED" /\ record'.expires = record.expires
        /\ record'.owner = record.owner /\ record'.hash = record.hash
        /\ record' \in RecordOf(Request, Nat)
    BY <1>a, <2>2, <2>3, Parts, Zenon DEF RecordOf
  <2>5. record' # NoRecord
    BY <2>4, AdmissionAssumption, Zenon
  <2>6. SharedInv'
    <3>1. \A i \in DOMAIN runs : runs[i].acquired + TTL + TTL <= record.expires
      BY <1>a, <2>1, Parts, Zenon DEF SharedInv, RecordInv, Admitted
    <3> QED
      BY <1>a, <2>1, <2>4, <2>5, <3>1, Parts, Zenon
         DEF SharedInv, RecordInv, Admitted, FailIdempotency
  <2>7. \A k2 : ~Owns(record', k2)
    BY <2>4, Zenon DEF Owns
  <2>8. AttemptsInv'
    <3>1. attempt' = [attempt EXCEPT ![a] = Idle] /\ tokens' = tokens
      BY <1>a, Zenon DEF FailIdempotency
    <3>2. tokens \in Nat /\ tokens' \in Nat /\ tokens <= tokens' /\ AttemptsInv
      BY <1>a, <3>1, Parts
    <3> QED
      BY <2>5, <2>7, <3>1, <3>2, IdleAttempt, MovedRecord, Zenon
  <2> QED
    BY <1>a, <1>1, <2>6, <2>8, RequestStep, Zenon
<1> QED
  BY <1>3, <1>4, Zenon

(* A run's acquisition is a time.                                          *)
LEMMA Acquisitions == ASSUME AdmissionInv, NEW i \in DOMAIN runs PROVE runs[i].acquired \in Nat
<1>1. runs \in Seq(Run)
  BY Parts, Zenon DEF CommittedInv
<1>2. runs[i] \in Run
  BY <1>1
<1> QED
  BY <1>2, Zenon DEF Run

(* The key is taken over from an expired row, whose runs are then at least *)
(* a lifetime old, or from one under which no run was admitted.  Only the  *)
(* new token owns the new row.                                             *)
LEMMA TakeoverAge ==
    ASSUME AdmissionInv, NEW q \in Request, Acquirable(record, q, clock),
           NEW i \in DOMAIN runs
    PROVE  runs[i].acquired + TTL <= clock
<1>1. PICK t : t = runs[i].acquired
  BY Zenon
<1>2. t \in Nat
  BY <1>1, Acquisitions, Zenon
<1>3. CASE record = NoRecord
  BY <1>3, Parts DEF SharedInv, RecordInv
<1>4. CASE record # NoRecord
  <2>1. /\ record \in RecordOf(Request, Nat) /\ record.expires <= clock + TTL
        /\ Admitted(i)
    BY <1>4, Parts, Zenon DEF SharedInv, RecordInv
  <2>2. record.expires \in Nat /\ clock \in Nat
    BY <2>1, Parts, Zenon DEF RecordOf
  <2>3. CASE record.expires <= clock
    BY <1>1, <1>2, <2>1, <2>2, <2>3, AdmissionAssumption DEF Admitted
  <2>4. CASE record.state # "COMPLETED"
    BY <1>1, <1>2, <2>1, <2>2, <2>4, AdmissionAssumption DEF Admitted
  <2>5. record.expires <= clock \/ record.state # "COMPLETED"
    BY <1>4, Zenon DEF Acquirable
  <2> QED
    BY <2>3, <2>4, <2>5, Zenon
<1> QED
  BY <1>3, <1>4, Zenon

(* Acquiring the record gives a fresh token, and takes no completed record *)
(* before it expires.                                                      *)
LEMMA AcquireKeeps ==
    ASSUME NEW a \in Attempt, NEW q \in Request PROVE Keeps(Alone(AcquireIdempotency(a, q)))
<1>a. SUFFICES ASSUME AdmissionInv, AcquireIdempotency(a, q), UNCHANGED <<clock, registryVars>>
               PROVE  AdmissionInv'
  BY Zenon DEF Keeps, Alone
<1>1. CommittedInv' /\ runs' = runs
  BY <1>a, Parts, SameRuns, Zenon DEF AcquireIdempotency
<1>2. tokens \in 0..MaxTokens /\ tokens \in Nat /\ clock \in Nat /\ AttemptsInv /\ SharedInv
  BY <1>a, Parts, Zenon DEF SharedInv
<1>3. CASE ~Acquirable(record, q, clock)
  <2>1. /\ attempt' = [attempt EXCEPT ![a] = [pc |-> "contended", request |-> q]]
        /\ UNCHANGED <<record, tokens, clock, runs>>
    BY <1>a, <1>1, <1>3, Zenon DEF AcquireIdempotency
  <2>2. PICK x : x = [pc |-> "contended", request |-> q]
    BY Zenon
  <2>3. x \in AttemptState /\ x.pc = "contended"
    BY <2>2, Zenon DEF AttemptState
  <2>4. record # NoRecord
    BY <1>3, Zenon DEF Acquirable
  <2>5. AttemptInv(x)
    BY <2>3, <2>4, Zenon DEF AttemptInv
  <2>6. AttemptsInv'
    BY <1>2, <2>1, <2>2, <2>3, <2>5, OneAttempt, Zenon
  <2> QED
    BY <1>a, <1>1, <1>2, <2>1, <2>6, SameRecord, RequestStep, Zenon
<1>4. CASE Acquirable(record, q, clock)
  <2>1. PICK x : x = [pc |-> "acquired", request |-> q, token |-> tokens + 1]
    BY Zenon
  <2>2. /\ tokens < MaxTokens /\ tokens' = tokens + 1
        /\ record' = AcquiredRecord(q, tokens + 1, clock, Lease, TTL)
        /\ attempt' = [attempt EXCEPT ![a] = x]
    BY <1>a, <1>4, <2>1, Zenon DEF AcquireIdempotency
  <2>3. /\ record'.state = "IN_PROGRESS" /\ record'.expires = clock + TTL
        /\ record'.owner = tokens + 1 /\ record'.hash = q
        /\ record' \in RecordOf(Request, Nat)
    BY <1>2, <2>2, AdmissionAssumption DEF AcquiredRecord, RecordOf
  <2>4. record' # NoRecord
    BY <2>3, AdmissionAssumption, Zenon
  <2>5. SharedInv'
    <3>1. tokens' \in 0..MaxTokens /\ TTL <= clock + TTL /\ clock' = clock
      BY <1>a, <1>2, <2>2, AdmissionAssumption
    <3>2. ASSUME NEW i \in DOMAIN runs PROVE runs[i].acquired + TTL + TTL <= clock + TTL
      <4>1. runs[i].acquired \in Nat
        BY <1>a, Acquisitions, Zenon
      <4> QED
        BY <1>a, <1>2, <1>4, <4>1, TakeoverAge, AdmissionAssumption
    <3> QED
      BY <1>1, <1>2, <2>2, <2>3, <2>4, <3>1, <3>2, AdmissionAssumption
         DEF SharedInv, RecordInv, Admitted
  <2>6. x \in AttemptState /\ x.token = tokens' /\ x.request = record'.hash
    BY <1>2, <2>1, <2>2, <2>3 DEF AttemptState
  <2>7. AttemptInv(x)'
    BY <1>2, <2>2, <2>4, <2>6 DEF AttemptInv
  <2>8. \A k \in Nat : k <= tokens => ~Owns(record', k)
    BY <1>2, <2>3 DEF Owns
  <2>9. tokens' \in Nat /\ tokens <= tokens'
    BY <1>2, <2>2
  <2>10. AttemptsInv'
    BY <1>2, <2>2, <2>4, <2>6, <2>7, <2>8, <2>9, MovedRecord, Zenon
  <2> QED
    BY <1>a, <1>1, <2>5, <2>10, RequestStep, Zenon
<1> QED
  BY <1>3, <1>4, Zenon

(* Decisions are ordered by numbers.                                       *)
LEMMA DecisionRows == \A e \in DecisionRow : e.at \in Nat /\ e.id \in Nat
<1>1. DecisionId \cup {0} \subseteq Nat
  BY RegistryAssumption
<1> QED
  BY <1>1, Zenon DEF DecisionRow

(* A REVOKED or REJECTED decision that is later than every other decision  *)
(* about its version is the version's state.                               *)
LEMMA TerminalIsState ==
    ASSUME NEW rows \in SUBSET DecisionRow, InOrder(rows),
           NEW d \in rows, d.decision \in Terminal
    PROVE  StateIn(rows, d.version) \in Terminal
<1> DEFINE about == {e \in rows : e.version = d.version}
           Newest(c) == \A e \in about \ {c} : Later(c, e)
<1>1. d \in about /\ about \subseteq rows
  BY Zenon
<1>2. Newest(d)
  BY Zenon DEF InOrder
<1>3. PICK c : c = CHOOSE e \in about : Newest(e)
  BY Zenon
<1>4. c \in about /\ Newest(c)
  BY <1>1, <1>2, <1>3, Zenon
<1>5. c = d
  <2>1. SUFFICES ASSUME c # d PROVE FALSE
    BY Zenon
  <2>2. Later(c, d) /\ Later(d, c)
    BY <1>1, <1>2, <1>4, <2>1
  <2>3. \A e \in DecisionRow : e.at \in Nat /\ e.id \in Nat
    BY DecisionRows, Zenon
  <2>4. c \in DecisionRow /\ d \in DecisionRow
    BY <1>1, <1>4, Zenon
  <2> QED
    BY <2>2, <2>3, <2>4 DEF Later
<1>6. StateIn(rows, d.version) = c.decision
  BY <1>1, <1>3, Zenon DEF StateIn
<1> QED
  BY <1>5, <1>6, Zenon

(* Admission looks at the version's decisions again, so a version whose    *)
(* terminal decision came in order is not admitted.                        *)
LEMMA AdmittedIsNotTerminal ==
    ASSUME RegistryTypeOK, NEW v, NEW m, StillEligible(v, m), InOrder(decisions),
           NEW d \in decisions, d.version = v
    PROVE  d.decision \notin Terminal
<1>1. SUFFICES ASSUME d.decision \in Terminal PROVE FALSE
  BY Zenon
<1>2. decisions \in SUBSET DecisionRow
  BY Zenon DEF RegistryTypeOK
<1>3. AgentVersionEligibility(v) \in Terminal
  BY <1>1, <1>2, TerminalIsState, Zenon DEF AgentVersionEligibility
<1> QED
  BY <1>3, Zenon DEF StillEligible, Terminal

(* One transaction admits the run and completes the record.  The record    *)
(* was IN_PROGRESS, so every earlier run is a lifetime older than this     *)
(* acquisition.                                                            *)
LEMMA AdmitCommits ==
    ASSUME AdmissionInv, NEW run \in Run, NEW x \in [request : Request, run : Nat],
           runs' = Append(runs, run), answers' = answers \/ answers' = answers \cup {x},
           x.request = run.request, x.run = Len(runs) + 1,
           \A i \in DOMAIN runs : runs[i].acquired + TTL <= run.acquired,
           InOrder(run.decided) =>
              \A d \in run.decided : d.version = run.version => d.decision \notin Terminal
    PROVE  CommittedInv'
<1>1. /\ runs \in Seq(Run) /\ answers \subseteq [request : Request, run : DOMAIN runs]
      /\ OneRunPerKey /\ ReplayIsFaithful /\ RevokedVersionsStayOut
  BY Parts, Zenon DEF CommittedInv
<1>2. /\ runs' \in Seq(Run) /\ Len(runs) \in Nat /\ Len(runs') = Len(runs) + 1
      /\ DOMAIN runs = 1..Len(runs) /\ DOMAIN runs' = 1..Len(runs')
  BY <1>1
<1>3. /\ \A i \in DOMAIN runs : runs'[i] = runs[i]
      /\ runs'[Len(runs) + 1] = run
  BY <1>1
<1>4. \A i \in DOMAIN runs' : i \in DOMAIN runs \/ i = Len(runs) + 1
  BY <1>2
<1>5. OneRunPerKey'
  <2>1. SUFFICES ASSUME NEW i \in DOMAIN runs', NEW j \in DOMAIN runs', i < j
                 PROVE  runs'[j].acquired >= runs'[i].acquired + TTL
    BY Zenon DEF OneRunPerKey
  <2>2. i \in DOMAIN runs
    BY <1>2, <2>1
  <2>3. CASE j \in DOMAIN runs
    BY <1>1, <1>3, <2>1, <2>2, <2>3, Zenon DEF OneRunPerKey
  <2>4. CASE j = Len(runs) + 1
    <3>1. runs[i].acquired \in Nat /\ run.acquired \in Nat
      BY <2>2, Acquisitions, Zenon DEF Run
    <3> QED
      BY <1>3, <2>2, <2>4, <3>1, AdmissionAssumption, Zenon
  <2> QED
    BY <1>4, <2>1, <2>3, <2>4, Zenon
<1>6. answers' \subseteq [request : Request, run : DOMAIN runs']
  <2>1. x \in [request : Request, run : DOMAIN runs']
    BY <1>2
  <2>2. [request : Request, run : DOMAIN runs] \subseteq [request : Request, run : DOMAIN runs']
    BY <1>2
  <2> QED
    BY <1>1, <2>1, <2>2, Zenon
<1>7. ReplayIsFaithful'
  <2>1. \A y \in answers : runs'[y.run].request = y.request
    BY <1>1, <1>3, Zenon DEF ReplayIsFaithful
  <2> QED
    BY <1>3, <2>1, ZenonT(30) DEF ReplayIsFaithful
<1>8. RevokedVersionsStayOut'
  <2>1. SUFFICES ASSUME NEW i \in DOMAIN runs', InOrder(runs'[i].decided),
                        NEW d \in runs'[i].decided, d.version = runs'[i].version
                 PROVE  d.decision \notin Terminal
    BY Zenon DEF RevokedVersionsStayOut, InOrder, Later, Terminal
  <2>2. CASE i \in DOMAIN runs
    BY <1>1, <1>3, <2>1, <2>2, Zenon DEF RevokedVersionsStayOut
  <2>3. CASE i = Len(runs) + 1
    BY <1>3, <2>1, <2>3, Zenon
  <2> QED
    BY <1>4, <2>2, <2>3, Zenon
<1> QED
  BY <1>2, <1>5, <1>6, <1>7, <1>8, Zenon DEF CommittedInv

(* The transaction of AdmitRunIdempotently as a whole.                     *)
LEMMA AdmitKeeps ==
    ASSUME NEW a \in Attempt PROVE Keeps(Alone(AdmitRunIdempotently(a)))
<1>a. SUFFICES ASSUME AdmissionInv, AdmitRunIdempotently(a), UNCHANGED <<clock, registryVars>>
               PROVE  AdmissionInv'
  BY Zenon DEF Keeps, Alone
<1>1. PICK old : old = attempt[a]
  BY Zenon
<1>2. /\ old \in AttemptState /\ AttemptInv(old) /\ old.pc = "resolved"
      /\ Owns(record, old.token) /\ StillEligible(old.version, old.mode)
      /\ tokens' = tokens
  BY <1>a, <1>1, Parts, Zenon DEF AdmitRunIdempotently, AttemptsInv
<1>3. /\ old.request \in Request /\ old.version \in Version /\ old.mode \in Mode
      /\ old.token \in Nat
  BY <1>2 DEF AttemptState, Idle
<1>4. old.request = record.hash /\ old.token <= tokens
  BY <1>2, Zenon DEF AttemptInv
<1>5. record # NoRecord /\ record.state = "IN_PROGRESS" /\ record \in RecordOf(Request, Nat)
  BY <1>a, <1>2, Parts, Zenon DEF SharedInv, Owns
<1>6. PICK e : e = record.expires
  BY Zenon
<1>7. /\ e \in Nat /\ TTL <= e /\ e <= clock + TTL /\ record.owner = tokens
      /\ e - TTL \in Nat /\ TTL \in Nat /\ clock \in Nat
  <2>1. e \in Nat
    BY <1>5, <1>6, Zenon DEF RecordOf
  <2>2. TTL <= e /\ e <= clock + TTL /\ record.owner = tokens
    BY <1>a, <1>5, <1>6, Parts, Zenon DEF SharedInv, RecordInv
  <2> QED
    BY <1>a, <2>1, <2>2, AdmissionAssumption, Parts
<1>8. \A i \in DOMAIN runs : runs[i].acquired + TTL + TTL <= e
  BY <1>a, <1>5, <1>6, Parts, Zenon DEF SharedInv, RecordInv, Admitted
<1>9. PICK n : n = Len(runs) + 1
  BY Zenon
<1>10. n \in Nat /\ runs \in Seq(Run) /\ DOMAIN runs = 1..Len(runs)
  BY <1>a, <1>9, Parts DEF CommittedInv
<1>11. PICK run : run = [request |-> old.request, version |-> old.version,
                         mode |-> old.mode, acquired |-> e - TTL, decided |-> decisions]
  BY Zenon
<1>12. /\ run.request = old.request /\ run.version = old.version
       /\ run.acquired = e - TTL /\ run.decided = decisions
  BY <1>11, Zenon
<1>13. run \in Run
  BY <1>a, <1>3, <1>7, <1>11, Parts, Zenon DEF Run, RegistryTypeOK
<1>14. PICK x : x = [request |-> old.request, run |-> n]
  BY Zenon
<1>15. PICK y : y = [pc |-> "failing", request |-> old.request, token |-> old.token]
  BY Zenon
<1>16. /\ runs' = Append(runs, run)
       /\ record' = CompletedRecord(record, Len(runs'), clock)
       /\ \/ answers' = answers \cup {[request |-> old.request, run |-> Len(runs')]}
             /\ attempt' = [attempt EXCEPT ![a] = Idle]
          \/ answers' = answers /\ attempt' = [attempt EXCEPT ![a] = y]
  BY <1>a, <1>1, <1>6, <1>11, <1>15, Zenon DEF AdmitRunIdempotently
<1>17. Len(runs') = n /\ DOMAIN runs' = 1..n
  BY <1>9, <1>10, <1>13, <1>16
<1>18. CommittedInv'
  <2>1. x \in [request : Request, run : Nat] /\ x.request = run.request /\ x.run = Len(runs) + 1
    BY <1>3, <1>9, <1>10, <1>12, <1>14, Zenon
  <2>2. answers' = answers \/ answers' = answers \cup {x}
    BY <1>14, <1>16, <1>17, Zenon
  <2>3. ASSUME NEW i \in DOMAIN runs PROVE runs[i].acquired + TTL <= run.acquired
    <3>1. runs[i].acquired \in Nat
      BY <1>a, Acquisitions, Zenon
    <3> QED
      BY <1>7, <1>8, <1>12, <3>1
  <2>4. RegistryTypeOK
    BY <1>a, Parts, Zenon
  <2>5. InOrder(run.decided) =>
           \A d \in run.decided : d.version = run.version => d.decision \notin Terminal
    BY <1>2, <1>12, <2>4, AdmittedIsNotTerminal, Zenon
  <2> QED
    BY <1>a, <1>13, <1>16, <2>1, <2>2, <2>3, <2>5, AdmitCommits, Zenon
<1>19. /\ record'.state = "COMPLETED" /\ record'.expires = e /\ record'.owner = tokens
       /\ record'.hash = old.request /\ record'.response = n
       /\ record' \in RecordOf(Request, Nat)
  BY <1>4, <1>5, <1>6, <1>7, <1>10, <1>16, <1>17, Zenon DEF CompletedRecord, RecordOf
<1>20. record' # NoRecord
  BY <1>19, AdmissionAssumption, Zenon
<1>21. SharedInv'
  <2>1. tokens' \in 0..MaxTokens /\ clock' = clock
    BY <1>a, <1>2, Parts, Zenon DEF SharedInv
  <2>2. /\ \A i \in DOMAIN runs : runs'[i] = runs[i]
        /\ runs'[n] = run
    BY <1>9, <1>10, <1>13, <1>16
  <2>3. n \in DOMAIN runs' /\ \A i \in DOMAIN runs' : i \in DOMAIN runs \/ i = n
    BY <1>9, <1>10, <1>17
  <2>4. ASSUME NEW i \in DOMAIN runs' PROVE Admitted(i)'
    <3>1. CASE i \in DOMAIN runs
      BY <1>8, <1>19, <2>2, <3>1, Zenon DEF Admitted
    <3>2. CASE i = n
      BY <1>7, <1>12, <1>17, <1>19, <2>2, <3>2 DEF Admitted
    <3> QED
      BY <2>3, <3>1, <3>2, Zenon
  <2>5. runs'[record'.response].request = record'.hash /\ record'.response \in DOMAIN runs'
    BY <1>12, <1>19, <2>2, <2>3, Zenon
  <2>6. RecordInv'
    BY <1>2, <1>7, <1>19, <1>20, <2>1, <2>4, <2>5, Zenon DEF RecordInv
  <2> QED
    BY <1>19, <2>1, <2>6, Zenon DEF SharedInv
<1>22. AttemptsInv'
  <2>1. \A k : ~Owns(record', k)
    BY <1>19, Zenon DEF Owns
  <2>2. tokens \in Nat /\ tokens' \in Nat /\ tokens <= tokens' /\ AttemptsInv
    BY <1>a, <1>2, Parts
  <2>3. y \in AttemptState /\ y.token = old.token
    BY <1>3, <1>15, Zenon DEF AttemptState
  <2>4. AttemptInv(y)'
    BY <1>2, <1>4, <1>20, <2>1, <2>3, Zenon DEF AttemptInv
  <2> QED
    BY <1>16, <1>20, <2>1, <2>2, <2>3, <2>4, IdleAttempt, MovedRecord, Zenon
<1> QED
  BY <1>a, <1>18, <1>21, <1>22, RequestStep, Zenon

(* Time passes: the record's end stays at most a lifetime away.            *)
LEMMA TickKeeps == Keeps(Tick)
<1>a. SUFFICES ASSUME AdmissionInv, Tick PROVE AdmissionInv'
  BY Zenon DEF Keeps
<1>1. /\ SharedInv /\ CommittedInv /\ AttemptsInv /\ UpdatesInv /\ RegistryTypeOK
      /\ clock \in Nat
  BY <1>a, Parts, Zenon
<1>2. /\ clock' = clock + 1 /\ clock < MaxTime
      /\ UNCHANGED <<agent, updates, begun, registered, pending, decisions>>
      /\ UNCHANGED <<record, tokens, attempt, runs, answers>>
  BY <1>a, Zenon DEF Tick, registryVars, admissionVars
<1>3. (clock \in 0..MaxTime)'
  BY <1>1, <1>2, AdmissionAssumption
<1>4. RegistryTypeOK' /\ UpdatesInv'
  BY <1>1, <1>2, Zenon DEF RegistryTypeOK, UpdatesInv, CanTransitionTo
<1>5. SharedInv'
  <2>1. record # NoRecord => record.expires \in Nat
    BY <1>1, Zenon DEF SharedInv, RecordOf
  <2> QED
    BY <1>1, <1>2, <2>1, AdmissionAssumption DEF SharedInv, RecordInv, Admitted
<1>6. CommittedInv'
  BY <1>1, <1>2, SameRuns, Zenon
<1>7. AttemptsInv'
  BY <1>1, <1>2, Zenon DEF AttemptsInv, AttemptInv, Owns
<1> QED
  BY <1>3, <1>4, <1>5, <1>6, <1>7, Zenon
     DEF AdmissionInv, TypeOK, SharedInv, CommittedInv, AttemptsInv

(* An update writes over the row it read or not at all, so a retired agent *)
(* stays retired; nothing else writes the agent's status.                  *)
LEMMA RegistryStep ==
    ASSUME RegistryTypeOK, UpdatesInv, clock \in Nat, RegistryNext
    PROVE  /\ RegistryTypeOK' /\ UpdatesInv'
           /\ agent.status = "RETIRED" => agent'.status = "RETIRED"
<1>1. ASSUME NEW s \in AgentStatus \cap Wanted, BeginUpdate(s)
      PROVE  RegistryTypeOK' /\ UpdatesInv' /\ agent' = agent
  <2>1. PICK u : u = [expected |-> agent.updated_at, status |-> s]
    BY Zenon
  <2>2. /\ agent' = agent /\ updates' = updates \cup {u} /\ begun' = begun + 1
        /\ begun < MaxUpdates /\ CanTransitionTo(agent.status, s)
        /\ UNCHANGED <<registered, pending, decisions>>
    BY <1>1, <2>1, Zenon DEF BeginUpdate
  <2>3. u \in [expected : Nat, status : AgentStatus] /\ agent.updated_at \in Nat
    BY <2>1, Zenon DEF RegistryTypeOK
  <2>4. u.expected = agent.updated_at /\ u.status = s
    BY <2>1, Zenon
  <2>5. RegistryTypeOK'
    BY <2>2, <2>3, RegistryAssumption DEF RegistryTypeOK
  <2>6. UpdatesInv'
    BY <2>2, <2>3, <2>4 DEF UpdatesInv, CanTransitionTo
  <2> QED
    BY <2>2, <2>5, <2>6, Zenon
<1>2. ASSUME NEW u \in updates, UpdateAgent(u)
      PROVE  /\ RegistryTypeOK' /\ UpdatesInv'
             /\ agent.status = "RETIRED" => agent'.status = "RETIRED"
  <2>1. /\ u \in [expected : Nat, status : AgentStatus]
        /\ agent \in [status : AgentStatus, updated_at : Nat]
        /\ updates \subseteq [expected : Nat, status : AgentStatus]
    BY Zenon DEF RegistryTypeOK
  <2>2. /\ updates' = updates \ {u} /\ UNCHANGED <<begun, registered, pending, decisions>>
        /\ \/ agent' = agent
           \/ /\ agent' = [status |-> u.status, updated_at |-> agent.updated_at + 1]
              /\ agent.updated_at = u.expected
    BY <1>2, Zenon DEF UpdateAgent, UpdateGuard
  <2>3. CASE agent' = agent
    BY <2>1, <2>2, <2>3, Zenon DEF RegistryTypeOK, UpdatesInv, CanTransitionTo
  <2>4. CASE /\ agent' = [status |-> u.status, updated_at |-> agent.updated_at + 1]
             /\ agent.updated_at = u.expected
    <3>1. /\ agent'.status = u.status /\ agent'.updated_at = agent.updated_at + 1
          /\ agent' \in [status : AgentStatus, updated_at : Nat] /\ agent.updated_at \in Nat
      BY <2>1, <2>4
    <3>2. CanTransitionTo(agent.status, u.status)
      BY <2>4, Zenon DEF UpdatesInv
    <3>3. \A w \in updates : w.expected \in Nat /\ w.expected <= agent.updated_at
      BY <2>1, Zenon DEF UpdatesInv
    <3>4. UpdatesInv'
      BY <2>2, <3>1, <3>3 DEF UpdatesInv
    <3>5. RegistryTypeOK'
      BY <2>1, <2>2, <3>1, Zenon DEF RegistryTypeOK
    <3> QED
      BY <3>1, <3>2, <3>4, <3>5, Zenon DEF CanTransitionTo
  <2> QED
    BY <2>2, <2>3, <2>4, Zenon
<1>3. ASSUME NEW v \in Version, RegisterAgentVersion(v)
      PROVE  RegistryTypeOK' /\ UpdatesInv' /\ agent' = agent
  BY <1>3, Zenon DEF RegisterAgentVersion, RegistryTypeOK, UpdatesInv, CanTransitionTo
<1>4. ASSUME NEW v \in Version, NEW x \in Decision, NEW i \in DecisionId,
             BeginDecision(v, x, i)
      PROVE  RegistryTypeOK' /\ UpdatesInv' /\ agent' = agent
  <2>1. [version |-> v, decision |-> x, at |-> clock, id |-> i] \in DecisionRow
    BY Zenon DEF DecisionRow
  <2> QED
    BY <1>4, <2>1, Zenon DEF BeginDecision, RegistryTypeOK, UpdatesInv, CanTransitionTo
<1>5. ASSUME NEW d \in pending, RecordAgentVersionDecision(d)
      PROVE  RegistryTypeOK' /\ UpdatesInv' /\ agent' = agent
  BY <1>5, Zenon DEF RecordAgentVersionDecision, RegistryTypeOK, UpdatesInv, CanTransitionTo
<1> QED
  BY <1>1, <1>2, <1>3, <1>4, <1>5, Zenon DEF RegistryNext

(* The registry does not touch what admission has stored.                  *)
LEMMA RegistryKeeps == Keeps(RegistryNext /\ UNCHANGED <<clock, admissionVars>>)
<1>a. SUFFICES ASSUME AdmissionInv, RegistryNext, UNCHANGED <<clock, admissionVars>>
               PROVE  AdmissionInv'
  BY Zenon DEF Keeps
<1>1. /\ SharedInv /\ CommittedInv /\ AttemptsInv /\ UpdatesInv /\ RegistryTypeOK
      /\ clock \in Nat /\ clock \in 0..MaxTime
  BY <1>a, Parts, Zenon DEF AdmissionInv, TypeOK
<1>2. /\ clock' = clock /\ record' = record /\ tokens' = tokens
      /\ attempt' = attempt /\ runs' = runs /\ answers' = answers
  BY <1>a, Zenon DEF admissionVars
<1>3. RegistryTypeOK' /\ UpdatesInv'
  BY <1>a, <1>1, RegistryStep, Zenon
<1>4. SharedInv' /\ CommittedInv'
  BY <1>1, <1>2, SameRecord, SameRuns, Zenon
<1>5. AttemptsInv'
  BY <1>1, <1>2, Zenon DEF AttemptsInv, AttemptInv, Owns
<1> QED
  BY <1>1, <1>2, <1>3, <1>4, <1>5, Zenon
     DEF AdmissionInv, TypeOK, SharedInv, CommittedInv, AttemptsInv

(* Before the first request there is neither a record nor a run.           *)
LEMMA InitAdmission == Init => AdmissionInv
<1>a. SUFFICES ASSUME Init PROVE AdmissionInv
  BY Zenon
<1>1. /\ clock = 0 /\ record = NoRecord /\ tokens = 0 /\ runs = <<>> /\ answers = {}
      /\ attempt = [b \in Attempt |-> Idle] /\ updates = {}
  BY <1>a, Zenon DEF Init, RegistryInit
<1>2. RegistryTypeOK
  <2>1. [version : Provisioned, decision : {"APPROVED"}, at : {0}, id : {0}]
           \subseteq DecisionRow
    BY RegistryAssumption DEF DecisionRow, Decision
  <2> QED
    BY <1>a, <2>1, RegistryAssumption DEF Init, RegistryInit, RegistryTypeOK, AgentStatus
<1>3. TypeOK
  BY <1>1, <1>2, IdleAttempt, AdmissionAssumption DEF TypeOK
<1>4. \A b \in Attempt : AttemptInv(attempt[b])
  BY <1>1, IdleAttempt, Zenon
<1>5. DOMAIN runs = {}
  BY <1>1
<1> QED
  BY <1>1, <1>3, <1>4, <1>5, Zenon
     DEF AdmissionInv, UpdatesInv, RecordInv, OneRunPerKey, ReplayIsFaithful,
         RevokedVersionsStayOut

(* Every step keeps the invariant.                                         *)
LEMMA NextKeeps == AdmissionInv /\ [Next]_vars => AdmissionInv'
<1>a. SUFFICES ASSUME AdmissionInv, [Next]_vars PROVE AdmissionInv'
  BY Zenon
<1>1. CASE Next
  <2>1. \/ Tick
        \/ RegistryNext /\ UNCHANGED <<clock, admissionVars>>
        \/ \E a \in Attempt :
              \/ \E q \in Request : Alone(AcquireIdempotency(a, q))
              \/ Alone(ReadContended(a)) \/ Alone(Resolve(a))
              \/ Alone(AdmitRunIdempotently(a)) \/ Alone(FailIdempotency(a))
              \/ Alone(Abandon(a))
    BY <1>1, Zenon DEF Next, Alone
  <2> QED
    BY <1>a, <2>1, TickKeeps, RegistryKeeps, AcquireKeeps, ReadContendedKeeps, ResolveKeeps,
       AdmitKeeps, FailKeeps, AbandonKeeps, Zenon DEF Keeps
<1>2. CASE UNCHANGED vars
  <2>1. UNCHANGED <<clock, registryVars>> /\ UNCHANGED <<record, tokens, attempt, runs, answers>>
    BY <1>2, Zenon DEF vars, admissionVars
  <2>2. SharedInv' /\ CommittedInv'
    BY <1>a, <2>1, Parts, SameRecord, SameRuns, Zenon
  <2>3. AttemptsInv'
    BY <1>a, <2>1, Parts, Zenon DEF AttemptsInv, AttemptInv, Owns
  <2> QED
    BY <1>a, <2>1, <2>2, <2>3, RequestStep, Zenon
<1> QED
  BY <1>a, <1>1, <1>2, Zenon

(* The inductive invariant holds in every reachable state: in particular   *)
(* every run was admitted under an acquisition of the key at least a       *)
(* lifetime before the next one, and whoever owns the record owns it for   *)
(* its own request.                                                        *)
THEOREM AdmissionInvariant == Spec => []AdmissionInv
BY InitAdmission, NextKeeps, PTL DEF Spec

(* AdmitRunIdempotently never admits one key twice within a lifetime of    *)
(* its record: not after a lost acknowledgement, a takeover of an expired  *)
(* lease, or a retry.                                                      *)
THEOREM OneRun == Spec => []OneRunPerKey
<1>1. AdmissionInv => OneRunPerKey
  BY Zenon DEF AdmissionInv
<1> QED
  BY <1>1, AdmissionInvariant, PTL

(* Every 201, also one replayed from the record, names a run that was      *)
(* admitted for the same request.                                          *)
THEOREM FaithfulReplays == Spec => []ReplayIsFaithful
<1>1. AdmissionInv => ReplayIsFaithful
  BY Zenon DEF AdmissionInv
<1> QED
  BY <1>1, AdmissionInvariant, PTL

(* AdmitRun's second look at the decisions keeps out a version that was    *)
(* revoked or rejected between its resolution and the admission.           *)
THEOREM RevokedStayOut == Spec => []RevokedVersionsStayOut
<1>1. AdmissionInv => RevokedVersionsStayOut
  BY Zenon DEF AdmissionInv
<1> QED
  BY <1>1, AdmissionInvariant, PTL

(* UpdateAgent never restores a retired agent, however many updates read   *)
(* the row before it was retired.                                          *)
THEOREM RetiredAgentsStayRetired == Spec => RetiredIsFinal
<1>1. ASSUME AdmissionInv, [Next]_vars
      PROVE  agent.status = "RETIRED" => agent'.status = "RETIRED"
  <2>1. RegistryNext \/ UNCHANGED agent
    <3>1. CASE Next
      BY <3>1, Zenon DEF Next, Tick, registryVars
    <3> QED
      BY <1>1, <3>1, Zenon DEF vars, registryVars
  <2> QED
    BY <1>1, <2>1, Parts, RegistryStep, Zenon
<1> QED
  BY <1>1, AdmissionInvariant, PTL DEF Spec, RetiredIsFinal

=============================================================================
