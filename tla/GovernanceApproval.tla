--------------------------- MODULE GovernanceApproval ---------------------------
(***************************************************************************)
(* Four-eyes approvals (internal/domain/governance_approval.go, the service *)
(* in internal/application and its PostgreSQL store).                      *)
(*                                                                         *)
(* An approval is a request row with at most one decision row and at most  *)
(* one consumption row, all append-only; its index in approvals is its     *)
(* identifier.  A digest is the tuple it is computed from: SHA-256 is taken *)
(* to be collision-free.  Instants are naturals read from one clock.       *)
(***************************************************************************)
EXTENDS Integers, Sequences, FiniteSets

CONSTANTS
    Principal,        \* authenticated people
    Nobody,           \* no approver yet
    Lifetime,         \* validity of an approval request
    MaxApprovals,     \* bound: approval requests
    MaxTime           \* bound: the last instant

ASSUME ApprovalAssumption == Lifetime \in Nat /\ MaxTime \in Nat

VARIABLES
    clock,
    approvals         \* governance_approval_requests, _decisions, _consumptions

ApprovalState == {"PENDING", "APPROVED", "REJECTED", "CONSUMED"}

\* domain.GovernanceApproval as a request creates it.
NewApproval(action, digest, requester, reason, provider, at) ==
    [action |-> action, digest |-> digest, requester |-> requester,
     reason |-> reason, provider |-> provider, state |-> "PENDING",
     requested |-> at, expires |-> at + Lifetime,
     approver |-> Nobody, decided |-> at]

\* Slip: the approver may be the requester.
DecidableByAnyone(a, approver, at) ==
    /\ a.state = "PENDING"
    /\ a.requested <= at /\ at < a.expires

\* GovernanceApproval.Decide, with the predicate of the INSERT that records it.
Decidable(a, approver, at) ==
    /\ a.state = "PENDING"
    /\ approver # a.requester
    /\ a.requested <= at /\ at < a.expires

Decided(a, approver, approved, at) ==
    [a EXCEPT !.state = IF approved THEN "APPROVED" ELSE "REJECTED",
              !.approver = approver, !.decided = at]

\* Slip: a consumed approval is not told apart from an approved one.
ConsumableAgain(a, digest, at) ==
    /\ a.state \in {"APPROVED", "CONSUMED"}
    /\ a.digest = digest
    /\ a.decided <= at /\ at < a.expires

\* GovernanceApproval.Consume under the row lock of the consuming transaction.
Consumable(a, digest, at) ==
    /\ a.state = "APPROVED"
    /\ a.digest = digest
    /\ a.decided <= at /\ at < a.expires

Consumed(a) == [a EXCEPT !.state = "CONSUMED"]

CreateApproval(a) ==
    /\ Len(approvals) < MaxApprovals
    /\ approvals' = Append(approvals, a)

DecideApproval(i, approver, approved, at) ==
    /\ Decidable(approvals[i], approver, at)
    /\ approvals' = [approvals EXCEPT ![i] = Decided(@, approver, approved, at)]

ConsumeApproval(i, digest, at) ==
    /\ Consumable(approvals[i], digest, at)
    /\ approvals' = [approvals EXCEPT ![i] = Consumed(@)]

\* GovernanceApprovalService.Request with an external provider.
RequestGovernanceApproval(p, action, digest) ==
    CreateApproval(NewApproval(action, digest, p, "requested", "external", clock))

\* GovernanceApprovalService.RecordDecision: the provider verified an assertion
\* bound to the request's reference and digest.  Its DecidedAt is the provider's
\* word and is not compared with the service's clock.
RecordDecision(i, approver, approved, at) ==
    /\ approvals[i].provider = "external"
    /\ DecideApproval(i, approver, approved, at)

\* GovernanceApprovalService.Consume reads the clock first, then consumes.
Consume(i, at) ==
    /\ at <= clock
    /\ ConsumeApproval(i, approvals[i].digest, at)
=============================================================================
