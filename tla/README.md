# ThinkPixelAG in TLA+

Models, model-checking runs and machine-checked proofs for the agent governance
control plane in this repository: who owns a run and what happens to its budget,
who may be admitted and which commands are answered how, who may change the rules,
how revocations reach those who enforce them, and how evidence, messages and
events leave the system, under concurrency, crashes, stale reads and late or lost
messages.

## The system

ThinkPixelAG admits runs of registered agents, hands them to workers, meters what
they consume, and can stop them. PostgreSQL is authoritative (READ COMMITTED,
`SELECT ... FOR UPDATE`, `SKIP LOCKED`, advisory locks); Valkey only accelerates; OPA
decides policy; an external identity provider signs tokens; evidence goes to an
independent sink. Any number of API replicas run the same handlers against the
same database.

| Part | Code | Actors and state | Model |
|---|---|---|---|
| Run lifecycle | `domain/run.go` | state, version, transition and actor tables | `RunLifecycle` |
| Resource accounting | `adapters/postgres/resource_*.go`, `run_admission.go` | envelopes, balances, reservations, settlements; callers, usage producers, reconciler | `ResourceAccounting`, `ResourceLedger` |
| Run workers | `run_worker.go` | leases, fencing tokens; workers, service calls | `RunWorker` |
| Cancellation, signals | `run_cancel.go`, `run_signal.go` | run row, signals, stored answers | `RunCommands` |
| Idempotent admission | `idempotency.go`, `run_admission.go`, `version_resolution.go` | idempotency record, runs; attempts | `Idempotency`, `AgentAdmission` |
| Agent registry | `agent_registry.go`, `agent_version_registry.go`, `agent_approval_registry.go` | agent row, versions, decisions | `AgentRegistry` |
| Approvals, break-glass | `governance_approval.go`, `break_glass.go` | approvals, grants and their events | `GovernanceApproval`, `BreakGlass` |
| Policy administration | `policy_administration.go`, `policy_editor.go`, `role_mappings.go`, `integrations.go`, `operator_recovery.go` | bundles, activations, drafts, mappings | `PolicyAdministration` |
| Revocation | `revocation*.go` | log, epochs, gateway checkpoint, tracker | `RevocationLog`, `RevocationDistribution`, `RevocationFreshness` |
| Policy decisions | `policy/cache.go`, `policy/revocation.go`, `runtime_security.go` | two caches, generations, tracker | `PolicyDecisions` |
| Token keys | `oidc/verifier.go` | key cache with two horizons | `TokenVerifier` |
| Evidence export | `evidence/export.go`, `evidence_export.go`, `evidencehttp/sink.go` | checkpoint, receipts; exporters, sink | `EvidenceExport`, `EvidenceChain` |
| Outbox | `outbox.go` | claims, attempts, dead letters | `Outbox` |
| Run event stream | `run_events.go` | cursor over `run_events` | `RunEvents` |
| Process | `main.go`, `httpserver/server.go` | listeners, readiness, pool, worker | `ProcessLifecycle` |

`PROJECT.json` has the complete list with the reason for each part left out, the
source lines of every definition, and the hazards each property is aimed at.

Where parts meet. Every handler that moves a run uses the table in `RunLifecycle`.
Resource transactions also move runs (exhaustion pauses or fails one, extension
resumes one, reconciliation times one out): `ResourceAccounting` models what they do to
balances and run states, `RunWorker` what the same transactions do to leases, fencing
tokens, versions and events. Admission and commands share the idempotency records;
admission reads what the registry decided (`AgentAdmission` extends both). Approvals
are consumed by policy administration and by break-glass grants (`Governance` composes
the three). The revocation log feeds the gateways' streams
(`RevocationDistribution`), and the tracker of `RevocationFreshness` is used by gateways
and by the decisions of a process. Every committed transaction leaves outbox
messages, which are the input of `EvidenceExport` and `Outbox`.

## Modules

Throughout: one transaction that locks what it reads before it writes is one action;
a transaction that returns an error is rolled back and is no step; a statement whose
predicate is evaluated on a snapshot before it waits for a lock is two steps; a
value read before a transaction (a clock, a role, a row) is kept from the read to the
use. Digests and hashes are the values they are computed from, random tokens are
numbers nobody remembers.

**RunLifecycle** – states, terminal states, the transition table (`Step`), the actor
table, and `Accepts`, the conditions under which `RunLifecycle.Transition` accepts a
change (version, clock, actor, table).

**ResourceAccounting** – a run and its envelope share a name. The variables are the
columns of the resource tables (`granted`, `available`, `consumed`, `allocated`,
`reservation`, `reserved`, ...), vectors are functions on `Dimension`. Actions: `AdmitRun`,
`AdmitChildRun` (with `ReserveChildResources` and `enforceChildTopology`),
`MutateWorkerRun`, `CancelRun`, `RecordTrustedUsage` (with exhaustion), `ExtendResources`,
`SettleReservation`, `ReconcileNextReservation`, and `ReservationExpires` for the passing
of `expires_at`. Replays of a committed request are stuttering. `late` is a history
variable used only to state properties. Left out: audit rows, the
requester-is-not-approver guard of extensions, envelope version exhaustion, the
throughput windows. **ResourceLedger** holds the properties that sum over ledgers or
the tree.

**RunWorker** – a service call reads its (possibly skewed) clock and checks revocations
(`BeginClaim`, `BeginHeartbeat`, `BeginOperate`), commits a transaction later (`ClaimRun`,
`HeartbeatRun`, `MutateWorkerRun`), and its reply arrives later still (`Deliver`) or never
(`CallEnds`); workers crash and lose what they hold. The other transactions on the run
row are `CancelRun`, `AppendRunSignal`, `applyBudgetExhaustion`, `ExtendResources` and
`ReconcileTimeout`. `Revoke` and `Lift` change the authority, with effective times in the past
or the future. Any eligible run may be
claimed, as `SKIP LOCKED` allows.

**RunCommands** – signal and cancel requests on one run. A request acquires its
idempotency record, is authorised, commits the command, and stores the answer in a
second transaction; it can stop anywhere, outlive the lease of its record, and be
retried.

**Idempotency** – acquire, contend, complete and fail of one record, as functions on the
record. **AgentRegistry** – updates of an agent prepared from an earlier read and guarded
by `updated_at`; decisions about a version, stamped before the version's lock;
eligibility. **AgentAdmission** – the admission handler on top of both: version resolution,
then `AdmitRunIdempotently` with the stored response in the same transaction, lease
takeover, lost acknowledgements and abandoned requests.

**GovernanceApproval** – request, decision, expiry and single consumption.
**PolicyAdministration** – an operation is authorised in a context (clock, active policy,
role mapping) that was current at some earlier moment, and its transaction rechecks
what the code rechecks: upload, drafts, promotion, activation, rollback, mapping
updates, recovery, integrations. The mapping revision is always compared, as in a process
that keeps its mappings in the database. **BreakGlass** – issue, use, revoke and expire; the
last three are one statement each, whose predicate is older than its insert; an event
records how much of the grant its statement had seen. **Governance**
composes them.

**TokenVerifier** – lookups and refreshes of the key cache with its two horizons
(expired, stale) against an identity provider that publishes and retires keys.

**RevocationLog** – create and lift as transactions that take the singleton epoch row;
timestamps older than their position in the log; retention. **RevocationFreshness** – the
tracker's `record`, gap handling and snapshot. **RevocationDistribution** – a gateway that
follows the stream, falls behind, reconciles by delta or snapshot, acknowledges, crashes
and restarts. The handler of the stream checks the retention boundary, reads a page, writes
an event and saves the checkpoint in steps of their own. A reconciliation reads the head
first; the statements after it (active set, boundary, changes, checkpoint) are taken as one
later step, so a change is seen between the head and the rest but not between those. Epochs count the changes of the log; that the activation of
a policy raises the policy epoch too is left out.

**PolicyDecisions** – decisions of one process taken apart at their reads: tracker,
cache generation, local cache, Valkey, epochs, active revocations, store; against refreshes,
notifications, and revocations of this process and of other replicas. Valkey is shared:
another replica may at any time store a decision it made before the revocation, under any
generation (`PeerStores`). A restart needs no action: a restarted process is a new one, and
what its predecessor stored are entries of another process. Production composes the live
authority only; the cached composition is the one the package offers.

**EvidenceExport** – exporters run `ExportOne` step by step: `BeginExport`, `refillPending`,
`ReadCandidate` and `claimCandidate` (one statement whose snapshot read and conditional
update are two steps), `SendDelivery`, the sink's `Export`, `CheckClaim` and `Complete` (again
one statement in two steps, kept safe by the receipts' unique constraints),
`Release`. `TimeOut`, `LoseRequest`, `StatementFails`, `Restart` and an expiring lease are the
failures. The sink is external: it appends the next event, repeats the receipt of a
known one and refuses the rest. **EvidenceChain** – the abstract specification: committed
messages, the sink's chain, and how much of it is acknowledged.

**Outbox** – claim, send, mark published or failed, retry delay, dead letter, lease
expiry, failed updates, crashes; what the sink took or refused for good is remembered. **RunEvents** – one client of the event stream: connect, authorise, the
two statements of a batch, polls, cut-offs and reconnects, retention. **ProcessLifecycle** –
`run` in `main.go` and `Server`: start, readiness, serve errors, draining and the deferred
calls in their order.

`MC*` modules give values and symmetry sets for TLC. The theorems and their lemmas are in
**ResourceAccountingProofs**, **ResourceLedgerProofs** (which builds on it), **RunWorkerProofs**,
**GovernanceProofs**, **RevocationProofs**, **EvidenceExportProofs**, **RequestProofs**
(`PolicyDecisions` and `RunCommands`) and **EdgeProofs** (`RunEvents`, `Outbox`,
`ProcessLifecycle`, `TokenVerifier` and `AgentAdmission`).

## Runs

`tlc -config X.cfg M` in this directory; each passing run takes up to three minutes
on two cores.

| Run (cfg) | Instance | Shows |
|---|---|---|
| `MCResourceAccounting` | 3 envelopes, 1 dimension, 2 usage events, 1 extension, `MaxInt64` = 3 | conservation per envelope and over the tree, exactly-once settlement, open allocation = open children, consumption recomputable from the ledgers, closed children frozen |
| `MCTopology` | 4 envelopes, 2 structural grants | narrowing delegation, child counts and depth, settlement never refused by the parent |
| `MCRunWorker` | 1 run, 2 workers, 2 calls in flight, 2 claims, effective times before and after the commit, `MaxInt64` = 4 | one owner per token, every change of owner fenced, terminal rows final, a revocation ends the lease within one lease duration of its commit or of its effective time |
| `MCEvidenceExport` | 2 exporters, 2 messages, batch of 2, 2 failures | no fork, every message exported, `EvidenceChain` implemented |
| `MCAdmissionPath` | admission: 2 attempts with one key, 2 versions, 2 updates, 1 decision on top of the provisioned one; decisions: 2 requests, 2 generations, 1 entry of another replica at a time | one run per key, faithful replays, no run for a revoked version, no retired agent restored; stale allows bounded, high-risk writes live, an acknowledged revocation enforced |
| `MCGovernance` | 2 administrators, 2 digests, 1 approval, 4 operations; 2 keys, 2 calls, 4 instants | reviewed state is the one replaced, role in force at commit, four eyes, one approval one change, an ended grant only drains; a retired key expires |
| `MCRevocation` | 2 changes over 2 tenants and the global scope, retention 1, timestamps up to 1 late, 1 fault, page size 1 | nothing skipped, equal epochs mean an equal view, every revocation arrives |
| `MCDelivery` | commands: 5 requests, 2 attempts; stream: 6 events, retention 2; outbox: 2 messages, 2 publishers; one process | final answers, answers name their event, no silent gap, withdrawal ends the stream, exclusive claims, messages settle for cause, the pool closes last, shutdown completes |

`MCAdmissionPath`, `MCGovernance` and `MCDelivery` put components side by side that share no state. The
variable `part`, chosen initially and never changed, says which of them a behaviour is
about; the others rest. This loses nothing, since none of them reads what another
writes, and it avoids multiplying their state spaces.

Why these bounds are enough to be interesting. Three envelopes give a chain of three
and two siblings, so a child can be a parent, and settle before or after its own
child. Amounts 0..2 with `MaxInt64` = 3 reach exhaustion and overflow; `MaxInt64` bounds
the integer columns exactly as 2^63-1 does, so a small value makes the boundary
reachable. Two calls of two workers give every overlap of a stale and a current
owner. Two exporters with two failures allow a takeover during a takeover, and two
messages a stale hint for the other's work. Two attempts with one key and a lease
shorter than the record's lifetime allow a takeover while the first attempt is still
running. One approval is what two consumers race for. A page and a delta of one
entry make a gateway fall behind and reconcile in several rounds; another tenant's
changes take sequence numbers of the same log; a retention of one tick against two ticks of
time makes entries leave the log while a gateway is behind. Decisions that roll a version back
(`DEPRECATED`) are not among the decisions of `MCAdmissionPath`; the proofs have them. Six events with a retention of two
let a cursor expire while its client is away. `MaxTime`, `MaxClaims`, `MaxFaults`, `MaxOps`
and the other `Max` constants, the key sets and the batch sizes are bounds of the
instances; the code's values are larger or absent. Deadlock checking is off where there may be
nothing left to do; exporters poll forever, so there it is on.

### Fairness

Three specifications state fairness.

- `EvidenceExport`: each exporter's loop (`main.go`) runs until shutdown and every wait in
  it has a timeout, hence weak fairness of `ExportOne`; the sink answers a request that
  reaches it; a lease nobody works under runs out. The lease is twice the HTTP
  timeout, so a lease that runs out under a working owner counts as a failure, and
  failures are finitely many: with unboundedly many, owners could depose one another
  for ever.
- `RevocationDistribution` (`FairSpec`): a transaction that has begun ends, and a gateway
  that may reconcile keeps doing so. The gateway is outside `src/`; the contract in
  `docs/contracts/revocation.md` asks this of it. Nothing is assumed of the stream.
- `ProcessLifecycle`: goroutines are scheduled, and an accept loop whose listener was
  closed returns.

The reconciler of reservations, the worker service and the commands are called from
outside, and no production code calls the outbox publisher: nothing in the code justifies fairness for them, and none is assumed.

## Disagreements between documents and code

The first four are runs whose property states the document's sentence and which TLC
violates.

| Run | Document | Code |
|---|---|---|
| `TerminalChildSettles` | `docs/contracts/resource-accounting.md:172,202`: reconciliation finds terminal children with open reservations, no lost credit | a child extended beyond what it consumed has `available > reserved`; `resource_settlement.go:138` and `resource_reconciliation.go:108` refuse it for ever |
| `NoOversubscription` | `:198`: no interleaving oversubscribes | `resource_reservation.go` checks neither the parent's run state nor its own reservation, and a settled child keeps its balance: returned capacity can be reserved again |
| `ScheduledRevocation` | `docs/contracts/domain-model.md:245`: a revocation becomes active at its effective time | a snapshot leaves out revocations not yet in effect but its position covers them (`revocation_distribution.go:81,84`); the gateway that stored that position is not told until another snapshot |
| `SharedSignalKey` | `docs/api/run-lifecycle.md:11-14`, `docs/security/threat-model.md:40`, `docs/adr/0006-run-lifecycle-and-replay.md:26`: a key is scoped by principal and bound to the request's content | `run_signal.go:45` finds an earlier signal by run and key alone: another caller, or other content once the idempotency record is gone, is answered 202 with the first signal's event, and its own signal is recorded nowhere |

`TreeConservation` is therefore stated under `late = {}` (no child was reserved from a
closed envelope), `MCRevocation` has no scheduled revocations (`Delay = {0}`), and
`SignalAnswerNamesItsEvent` is about callers that keep a key to themselves and to one content.

Met while modelling, kept in the models as the code has them, with no run of their own:

- A deadline-only extension resumes a paused exhausted run
  (`resource_extension.go:89`); `resource-accounting.md:153` says it resumes "only after the
  credit commits".
- Heartbeat and operate do not match agent scopes (`application/run_worker.go:106`);
  `revocation.md:27` denies on any effective revocation. `RevocationEndsLease` is stated
  for the scopes that are matched.
- A decision's `created_at` is read before the version's lock
  (`agent_approval_registry.go:58`), so a revocation that waited can be older than the
  approval it follows and the version stays eligible; `domain-model.md:65` says `REVOKED` is never
  eligible. `RevokedVersionsStayOut` assumes that decisions are recorded in the order of their
  timestamps.
- The serve goroutine can set readiness again while the server drains, against the
  comment at `server.go:20`; and on the serve-error path the background refreshers
  (`main.go:106,118`) are still on their context when the pool closes. `StopCompletes` is
  about readiness once the process has stopped, and `PoolClosedLast` about listeners and the
  exporter; neither catches these.
- The cache generation is local to a process but is all that a key in the shared Valkey holds
  of it (`policy/cache.go:229-232`). After a revocation was acknowledged, an entry that another
  replica stored under the same generation can still be served; the comment at
  `cache.go:51-56` and `docs/adr/0008-revocation-freshness-and-reconciliation.md:34-36` say that
  generations make stale entries unreachable. `AcknowledgedIsEnforced` is therefore about what
  the acknowledging process decided itself; entries of others are within `StaleAllowBounded`.
- A break-glass use can commit after the grant's terminal event, since its predicate is
  older than its insert. `EndedGrantOnlyDrains` says how far this goes.
- A signal named `cancel:k` makes a cancellation with key `k` fail, and the retry of a
  committed signal is refused once the run has ended (`run_signal.go:38-43`).
- The outbox counts attempts when it claims, so a message that was accepted but not
  marked can be dead-lettered by a later attempt.
- A key published while a lookup is under way can be reported unknown if a concurrent
  refresh stores an older document last.

## Proofs

Checked by TLAPS (`tlapm`), for every value of the constants that satisfies the
modules' named assumptions: any number of envelopes, dimensions, runs, workers,
exporters, messages, events, keys and calls, any `MaxInt64`.

Every action A of a proof module with many actions has a lemma `Keeps(A)`: A preserves
the inductive invariant. The lemma about `Next` only combines them.

**Resources** (`ResourceAccountingProofs`).
`Conservation` alone is not inductive: settlement credits a parent by the split of the
child's reserved vector, so one must know that an open child has no settlement yet,
that the split adds up, and that unused envelope names are untouched. The inductive
invariant is
`IInv == TypeOK /\ Fresh /\ Rooted /\ Conservation /\ SettledExactlyOnce /\ DelegationNarrows`,
proved with one step per action. From it: `TypeCorrect` (in particular no negative
balance), `ConservationHolds`, `SettlementIsUnique`, `DelegationOnlyNarrows`, and the
action properties `LifecycleHolds`, `ClosedChildIsFrozen` and
`CreditComesFromOneChild`.

**Ledgers and trees** (`ResourceAccountingProofs`, `ResourceLedgerProofs`). `LedgerInv` adds to
`IInv` that the usage ledgers are finite, that what an envelope has allocated is the sum of
what its open children hold reserved (`AllocationBacked`), that what it consumed is what the
ledgers charge to it (`ConsumptionExplained`), that only children have reserved amounts, that
a closed child has no allocation left in what it returned unless a child was reserved from it
later (`ReturnedWhole`), that child counts and depths are within the grants
(`TopologyWithinLimits`), and that over all envelopes what was issued equals what was metered
plus what is held (`BooksBalance`, from which `TreeConservation` follows). Every transaction touches at most a child and
its parent, so each lemma says which one or two summands move and in which direction, and the
sum follows. From it: `AllocationIsBacked`, `ConsumptionIsExplained`, `TreeIsConserved`,
`TopologyStaysWithinLimits`, and `CreditIsNeverRefused`: the parent's allocation covers each
open child's share because it is the sum of them all. The step lemmas take the laws of
finite sums as a hypothesis (`FiniteLaws`), which `FiniteLawsHold` then proves:
`SumFunctionOnSet` is a recursion over subsets in the order `CHOOSE` takes their members, so
that the sum does not depend on the order, splits and respects equality is shown for a
smallest subset that would violate it. The only assumption is that there are finitely many
envelopes (`FiniteAssumption`).

**Ownership** (`RunWorkerProofs`). Uniqueness of the owner needs to
know where leases come from:
`WInv == TypeOK /\ OwnedRunIsLive /\ IssuedOnly /\ IdentifiesClaim /\ TokenIdentifiesLease`
says that every circulating lease was issued, that its number determines its run,
worker and token, and that its token is never ahead of the row. From it:
`WorkerTypeCorrect`, `SoleOwnership`, `TokensIdentifyLeases`, `OwnedRunsAreLive`,
`TerminalRunsAreFinal`, `OwnershipAlwaysFenced`, and `NewestEventsAreCurrent`.

**Revoked leases** (`RunWorkerProofs`). `RevokedLeasesEnd` is about calls that passed their
check before the revocation and commit long after it. `EndInv` adds to `WInv` that no time in
use is ahead of the clock by more than the skew, and that a heartbeat under way carries a time
before the commit, skew included, or before the effective time of every revocation of its
run, worker and tenant. Uniqueness of lease identifiers (`WInv`) is needed
to know whose lease a renewed row carries. The run has no skew and revokes the run
only, to keep its size down; the theorem has any skew, any effective times and every target.

**Evidence** (`EvidenceExportProofs`). That the sink is never asked to fork says nothing
about requests that left long ago. `ExportInv` adds, to types and the agreement of
checkpoint, receipts and chain, that the chain is at most one event ahead of the
checkpoint and that this event is the outstanding one, and that every delivery held by
an exporter or in flight either is in the acknowledged chain or equals the outstanding
event at the next position. From it: `SinkNeverForks`, and
`ExportImplementsChain`, the step simulation of `EvidenceChain` (the safety part of
`ImplementsChain`).

**Event stream** (`EdgeProofs`). `PositionInv`: on an open stream the server's position
is the client's cursor, and what is about to be sent is a run of consecutive events right
after it; only a client without a cursor can be in the second listing.
`WithdrawalInv`: the statements between an authorisation and its batch run before
anything was listed after a withdrawal. From them: `StreamHasNoSilentGap`,
`WithdrawnStreamEnds`.

**Token keys** (`EdgeProofs`). A refresh may store its document after another
call's newer one, so the invariant is about calls too: the keys in a document that is
about to be stored were published when the provider answered, which is at most
`FetchTime` ago; and the stale horizon is at most one stale interval ahead of the clock
and, for each cached key, of its retirement and one fetch. From it: `RetiredKeysExpire`, a retired key is not
found later than the stale interval plus one fetch after its retirement. The
assumption is that a document is stored within `FetchTime` of the provider's answer
(`DiscoveryTimeout`).

**Outbox** (`EdgeProofs`). `OutboxInv`: every claim a publisher holds names a row and is not
ahead of its attempt counter, which is the next token. So a claim that lapsed is never
mistaken for a later one, and `LiveClaimsAreExclusive` follows step by step.
`MessagesSettleForCause` needs besides that what a publisher is about to record is what the
sink answered, and that a claim it may record under is the row's present one, so that the
attempts it counted are the row's.

**Process** (`EdgeProofs`). That `run` returns after every serve goroutine is a matter of
counting: `ProcessInv` says that while `run` waits, the number of results it still expects
is the number in the channel plus the number of goroutines that have not sent theirs, and
that the exporter is over before the pool is closed. From it: `PoolOutlivesItsUsers`.

**Admission** (`EdgeProofs`). A second run for a key could come from an attempt
whose lease a later one took over, so the invariant relates runs, record and attempts.
`AdmissionInv` says that the record belongs to the newest token; that each run was admitted
under the present acquisition, which then is completed, or at least a lifetime before it;
that the stored response names a run of the stored request; that whoever owns the record
owns it for their own request; and that an update of the agent either expects a row that
has since changed or is allowed from the present one. From it: `OneRun`,
`FaithfulReplays`, `RevokedStayOut` and the action property `RetiredAgentsStayRetired`.
The assumptions are that a lease is not longer than the lifetime of the record, and that
identifiers of decisions are ordered like numbers. (`RevokedVersionsStayOut` itself speaks
of decisions whose timestamps follow their order.)

**Governance** (`GovernanceProofs`). Each row of the three histories names what it replaced
and, if privileged, its approval, which is consumed from then on and cannot be consumed
again. `GovernanceInv` says this of activations, role mappings and grants: the approval a
row names is consumed, was decided by another and is for this very change, and no two rows
of any kind name the same one. Of grants it says too that every statement in flight took its
snapshot before the end of its grant, if that has come, and is dated as its event demands.
From it: `FourEyes`, `ApprovalsUsedOnce`, `ReviewedIsReplaced`, `RolesInForceAtCommit` and
`EndedGrantsOnlyDrain`. The only assumption is that
the bound on the clock and the lifetime are naturals.

**Revocation** (`RevocationProofs`). What a gateway is told comes from pages of the log, and
what it may skip depends on what it remembers. `RInv` says five things. Of the log: the row of
`security_epochs` is held until the commit, so entries become visible in the order of their
numbers and of their security epochs, and no number at or below a visible one is still to come.
Of the tracker: while it has a state it stands at the persisted cursor, and every entry of the
tenant beyond it has a later security epoch. Of the stream: a tracker without a state (after a
restart) accepts whatever comes first, so that must be the entry right after the persisted
cursor; a gap event is the last thing on a connection. Of the time between the retention check of a
page and its read: the check still holds, since what commits in between is younger than the
boundary. Of a reconciliation in flight: the
revocations in force up to the head it names are in its active set, or, for a delta, in the
view or among its changes, although the head, the changes and the active set are read by
different statements. The lemmas about reads are `FirstInOrderFacts` (a page starts with the
lowest entry and is everything if it is not full: every rank below the cardinality is taken)
and `NothingGone` (a cursor that retention has not passed lost no entry after it, if
timestamps follow the sequence). From it: `RevocationsAreNotSkipped` and
`CurrentEpochsAreEnough`. The assumptions are that retention, page size and longest delta are
naturals and that a change is committed within the retention of its timestamp
(`MaxLag <= Retention`; the code takes any positive retention and does not enforce this). Revocations may be scheduled; the properties
themselves speak of those effective when created.

**Commands** (`RequestProofs`). An answer may come from the service, from the record, or
from an attempt that took the record over, so `CommandsInv` says of results in all three
places that they are right: a cancel result is that of a terminal run, a signal result
names the event stored with the signal's key. It adds that a key has one signal row, that the row
names its event, and that every such event has its row. From it:
`CancelAnswersAreFinal` and, for a key that one caller uses for one content,
`SignalAnswersNameTheirEvent`.

**Policy decisions** (`RequestProofs`). A stale allow takes a chain of old reads: a load
that began before the revocation, recorded by the tracker, read by a request, stored in a
cache, found by another request. `DecisionsInv` bounds each link: a load without the
revocation read before it and is recorded within `MaxLoad`; a tracker without it
observed within `MaxLoad` of it; a cached decision carries the old epochs and, if this process
made it, a generation that ends with the acknowledgement; and a request carries old epochs
only if it began within the bound, whoever stored the entry it finds. From it: `StaleAllowsAreBounded`,
`HighRiskWritesAreLive` and `AcknowledgedRevocationsAreEnforced`.

Only model-checked: liveness under fairness (`EveryMessageExported`,
`EveryRevocationArrives`, `StopCompletes`), and with it the liveness part
of `ImplementsChain`, which is out of the prover's reach. Every safety property that a
passing run checks is proved.

## Not modelled

- Throughput windows and the Valkey hint: the hint can only refuse, and a window is a
  counter per interval that no balance depends on.
- Harness guidance, run queries and agent discovery: read-only projections. The access
  check of run queries is used by `RunEvents`, the choice of a version by `AgentAdmission`.
- HTTP plumbing and configuration: decoding, problems, headers, settings.
- The OPA client, bundle validation, cryptography, signatures and token claims: external
  evaluation, or pure functions over bytes. Models use their verdict.
- Operator tooling, provisioning, migrations and the console. What provisioning leaves
  behind is an initial state; constraints of the migrations appear where a module relies
  on them.
- The readiness report over several tenants and `policy.Freshness` (`bundle.go`);
  expiry of revocations, for which no code appends a change.
- Lock-order deadlocks between resource transactions (`resource_extension.go:97` locks a
  run after its envelope): transactions are atomic here, and PostgreSQL aborts one of two
  deadlocked transactions, which is the rollback that is no step.
