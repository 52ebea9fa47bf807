------------------------------- MODULE Outbox -------------------------------
(***************************************************************************)
(* The transactional outbox and its publishers:                            *)
(* internal/adapters/postgres/outbox.go.  Every transaction that changes a *)
(* run inserts its messages; publishers claim batches, send one message    *)
(* after the other and record each outcome before the next is sent.        *)
(*                                                                         *)
(* Time is what it decides: a claim is live or has run out (claimed_until),*)
(* a failed message rests or is available again (available_at).  A claim   *)
(* draws a new claim_token and increments attempt_count, so the number of  *)
(* the attempt stands for the token.                                       *)
(***************************************************************************)
EXTENDS Naturals, FiniteSets

CONSTANTS
    Message,         \* rows of outbox_messages
    Publisher,       \* publisher processes
    PublishBatchSize,
    MaxAttempts,
    MaxOutboxFaults  \* bound: crashes, failed statements, leases that run out under a live holder

ASSUME OutboxAssumption ==
    /\ PublishBatchSize \in Nat \ {0}
    /\ MaxAttempts \in Nat \ {0}
    /\ MaxOutboxFaults \in Nat

VARIABLES
    outbox,       \* the rows that were committed
    batch,        \* claims each publisher still has to deal with, as [message, token]
    inHand,       \* what each publisher has sent and not recorded yet, as [claim, outcome]
    accepted,     \* the sink: messages it has taken
    rejected,     \* the sink: messages it has refused for good
    outboxFaults

sinkVars == <<accepted, rejected>>
outboxVars == <<outbox, batch, inHand, sinkVars, outboxFaults>>

NoToken == 0
Nothing == [outcome |-> "none"]
Outcome == {"accepted", "failed", "rejected"}
Row == [status : {"ready", "resting", "published", "dead"}, token : Nat, live : BOOLEAN,
        attempts : Nat]
Claim == [message : Message, token : Nat]
Sent == [claim : Claim, outcome : Outcome]

OutboxTypeOK ==
    /\ outbox \in [DOMAIN outbox -> Row] /\ DOMAIN outbox \subseteq Message
    /\ batch \in [Publisher -> SUBSET Claim]
    /\ inHand \in [Publisher -> {Nothing} \cup Sent]
    /\ accepted \subseteq Message /\ rejected \subseteq Message
    /\ outboxFaults \in 0..MaxOutboxFaults

OutboxInit ==
    /\ outbox = [m \in {} |-> NoToken]
    /\ batch = [p \in Publisher |-> {}]
    /\ inHand = [p \in Publisher |-> Nothing]
    /\ accepted = {} /\ rejected = {}
    /\ outboxFaults = 0

-----------------------------------------------------------------------------
NewRow == [status |-> "ready", token |-> NoToken, live |-> FALSE, attempts |-> 0]

(* A transaction commits with its message.                                 *)
CommitMessage(m) ==
    /\ m \notin DOMAIN outbox
    /\ outbox' = [n \in DOMAIN outbox \cup {m} |-> IF n = m THEN NewRow ELSE outbox[n]]
    /\ UNCHANGED <<batch, inHand, sinkVars, outboxFaults>>

Claimable(m) == outbox[m].status = "ready" /\ ~outbox[m].live

(* claim, one statement.  SKIP LOCKED passes over rows another statement   *)
(* holds at that moment, so the batch is any part of what is claimable.    *)
claim(p) ==
    /\ batch[p] = {}
    /\ \E taken \in SUBSET {m \in DOMAIN outbox : Claimable(m)} :
          /\ Cardinality(taken) \in 1..PublishBatchSize
          /\ outbox' = [m \in DOMAIN outbox |->
                IF m \in taken
                THEN [outbox[m] EXCEPT !.attempts = @ + 1, !.token = outbox[m].attempts + 1,
                                       !.live = TRUE]
                ELSE outbox[m]]
          /\ batch' = [batch EXCEPT ![p] =
                {[message |-> m, token |-> outbox'[m].token] : m \in taken}]
    /\ UNCHANGED <<inHand, sinkVars, outboxFaults>>

(* sink.Send (external), without a lock: the claim may run out meanwhile.  *)
(* The sink takes the message, refuses it for good (PublishError with      *)
(* Permanent), or the call fails, before or after the message was taken.   *)
Send(p, c, outcome) ==
    /\ c \in batch[p]
    /\ inHand[p] = Nothing
    /\ inHand' = [inHand EXCEPT ![p] = [claim |-> c, outcome |-> outcome]]
    /\ \/ outcome # "rejected" /\ accepted' = accepted \cup {c.message} /\ UNCHANGED rejected
       \/ outcome = "rejected" /\ rejected' = rejected \cup {c.message} /\ UNCHANGED accepted
       \/ outcome = "failed" /\ UNCHANGED sinkVars
    /\ UNCHANGED <<outbox, batch, outboxFaults>>

(* Slip: the outcome is recorded by message identifier alone.              *)
ClaimHeldByAnyone(c) == outbox[c.message].status \in {"ready", "resting"}

(* The WHERE clause of both updates; a lost claim changes nothing.         *)
ClaimHeld(c) ==
    /\ outbox[c.message].token = c.token
    /\ outbox[c.message].status \in {"ready", "resting"}

Recorded(c, status) ==
    IF ClaimHeld(c)
    THEN [outbox EXCEPT ![c.message] =
             [@ EXCEPT !.status = status, !.token = NoToken, !.live = FALSE]]
    ELSE outbox

Done(p, c) ==
    /\ batch' = [batch EXCEPT ![p] = @ \ {c}]
    /\ inHand' = [inHand EXCEPT ![p] = Nothing]

(* Send succeeded, markPublished.                                          *)
markPublished(p, c) ==
    /\ inHand[p] = [claim |-> c, outcome |-> "accepted"]
    /\ outbox' = Recorded(c, "published")
    /\ Done(p, c)
    /\ UNCHANGED <<sinkVars, outboxFaults>>

(* Slip: the attempt after this one is counted.                            *)
DeadOneEarly(c, permanent) == permanent \/ c.token + 1 >= MaxAttempts

Dead(c, permanent) == permanent \/ c.token >= MaxAttempts

(* Send failed: markFailed.                                                *)
markFailed(p, c, permanent) ==
    /\ inHand[p] = [claim |-> c, outcome |-> IF permanent THEN "rejected" ELSE "failed"]
    /\ outbox' = Recorded(c, IF Dead(c, permanent) THEN "dead" ELSE "resting")
    /\ Done(p, c)
    /\ UNCHANGED <<sinkVars, outboxFaults>>

-----------------------------------------------------------------------------
OutboxFault == outboxFaults < MaxOutboxFaults /\ outboxFaults' = outboxFaults + 1

(* The update after Send failed: PublishBatch notes the error and goes on. *)
UpdateFails(p, c) ==
    /\ OutboxFault
    /\ inHand[p] \in [claim : {c}, outcome : Outcome]
    /\ Done(p, c)
    /\ UNCHANGED <<outbox, sinkVars>>

(* The process dies; its claims stay in the rows.                          *)
PublisherCrash(p) ==
    /\ OutboxFault
    /\ batch[p] # {}
    /\ batch' = [batch EXCEPT ![p] = {}]
    /\ inHand' = [inHand EXCEPT ![p] = Nothing]
    /\ UNCHANGED <<outbox, sinkVars>>

Deserted(m) ==
    \A p \in Publisher : [message |-> m, token |-> outbox[m].token] \notin batch[p]

(* claimed_until passes; under a slow holder this counts as a failure.     *)
ClaimRunsOut(m) ==
    /\ m \in DOMAIN outbox
    /\ outbox[m].live
    /\ IF Deserted(m) THEN UNCHANGED outboxFaults ELSE OutboxFault
    /\ outbox' = [outbox EXCEPT ![m].live = FALSE]
    /\ UNCHANGED <<batch, inHand, sinkVars>>

(* available_at passes, retryDelay after the failure.                      *)
retryDelayEnds(m) ==
    /\ m \in DOMAIN outbox
    /\ outbox[m].status = "resting"
    /\ outbox' = [outbox EXCEPT ![m].status = "ready"]
    /\ UNCHANGED <<batch, inHand, sinkVars, outboxFaults>>

PublishNext(p) ==
    \E c \in batch[p] :
        \/ \E outcome \in Outcome : Send(p, c, outcome)
        \/ markPublished(p, c)
        \/ \E permanent \in BOOLEAN : markFailed(p, c, permanent)
        \/ UpdateFails(p, c)

OutboxNext ==
    \/ \E m \in Message : CommitMessage(m) \/ ClaimRunsOut(m) \/ retryDelayEnds(m)
    \/ \E p \in Publisher : claim(p) \/ PublishNext(p) \/ PublisherCrash(p)

-----------------------------------------------------------------------------
(* A publisher that outlived its lease never touches the message of the    *)
(* next holder: while a claim is live, only a publisher that holds exactly *)
(* this claim publishes, fails or releases the message.                    *)
LiveClaimIsExclusive ==
    [][\A m \in DOMAIN outbox :
          outbox[m].live /\ outbox'[m].token # outbox[m].token =>
              LET c == [message |-> m, token |-> outbox[m].token]
              IN  \E p \in Publisher : c \in batch[p] /\ c \notin batch'[p]]_outboxVars

(* No message leaves the queue without cause, whatever crashes, outlives   *)
(* its lease or fails to be recorded: what is marked published the sink    *)
(* has taken, and what is dead-lettered it has refused for good, or the    *)
(* message had all its attempts.                                           *)
SettledForCause ==
    \A m \in DOMAIN outbox :
        /\ outbox[m].status = "published" => m \in accepted
        /\ outbox[m].status = "dead" => m \in rejected \/ outbox[m].attempts >= MaxAttempts

=============================================================================
