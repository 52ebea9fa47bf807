---------------------------- MODULE PolicyDecisions ----------------------------
(***************************************************************************)
(* Decisions of one process on one agent of one tenant, from the freshness *)
(* boundary through the decision cache to the revocation authority         *)
(* (internal/application/revocation_freshness_enforcement.go,              *)
(* internal/policy/cache.go and revocation.go), while the process refreshes *)
(* its security state (runtime_security.go) and the agent may be revoked,  *)
(* by this process or by another replica.                                  *)
(*                                                                         *)
(* No lock spans a decision: it takes a snapshot of the tracker, then a    *)
(* cache generation, then looks into the local cache, then into Valkey,    *)
(* then reads the epochs of the authority, then its active revocations,    *)
(* and stores what it computed.  Requests interleave at those points.  The *)
(* policy itself (external) allows and grants a time to live; a decision   *)
(* denied for any other reason is not of interest here.                    *)
(*                                                                         *)
(* Valkey is shared: the other replicas store their decisions in it, under *)
(* generations that each process counts for itself and that say nothing    *)
(* about the process.  It may forget or be away at any time.  A process    *)
(* that restarts is a new one: it knows nothing, its generation is 0, and  *)
(* what its predecessor left in Valkey are entries of another process.     *)
(***************************************************************************)
EXTENDS RevocationFreshness, FiniteSets

CONSTANTS
    Evaluation,  \* requests, each tried again until it is allowed
    MaxAge,      \* freshness bound of the bounded class
    MaxTTL,      \* longest life of a cached decision
    MaxLoad,     \* longest time a load of the security state takes
    MaxLocalEntries,          \* room in the local cache
    MaxClock, MaxGeneration,  \* bounds
    MaxShared    \* bound: entries of other processes in Valkey when a replica adds one

ASSUME DecisionsAssumption ==
    /\ MaxAge \in Nat /\ MaxTTL \in Nat /\ MaxLoad \in Nat
    /\ MaxClock \in Nat /\ MaxGeneration \in Nat
    /\ MaxShared \in Nat /\ MaxLocalEntries \in Nat \ {0}

VARIABLES
    elapsed,     \* time since the process started
    authority,   \* revoked or not, when, and the epochs of the tenant
    acked,       \* the generation under which this process answered the revocation
                 \* it committed, or Never
    tracker,
    load,        \* the refresh in flight
    generation,  \* cache generation of the tenant
    local,       \* instance-local decisions by key
    remote,      \* decisions in Valkey by key; of both kinds, own says (history, read
                 \* by no guard) that this process stored the entry
    req          \* requests

decisionVars == <<elapsed, authority, acked, tracker, load, generation, local, remote, req>>

Never == -1
NoLoad == [phase |-> "IDLE"]
Free == [pc |-> "FREE"]

DecisionsInit ==
    /\ elapsed = 0
    /\ authority = [revoked |-> FALSE, at |-> Never, epochs |-> ZeroEpochs]
    /\ acked = Never
    /\ tracker = NewTracker
    /\ load = NoLoad
    /\ generation = 0
    /\ local = {}
    /\ remote = {}
    /\ req = [r \in Evaluation |-> Free]

-----------------------------------------------------------------------------
(* The authority and the refresh of the security state.                    *)

Bumped(epochs) == [f \in EpochField |-> IF f = "policy" THEN epochs[f] ELSE epochs[f] + 1]

\* A revocation of the agent commits, on this replica or another.
CommitRevocation ==
    /\ ~ authority.revoked
    /\ authority' = [revoked |-> TRUE, at |-> elapsed, epochs |-> Bumped(authority.epochs)]
    /\ UNCHANGED <<elapsed, acked, tracker, load, generation, local, remote, req>>

\* InvalidateTenant: the generation moves, the local entries go.
InvalidateTenant ==
    /\ generation < MaxGeneration
    /\ generation' = generation + 1
    /\ local' = {}

\* RevocationService after its commit: invalidateResult, then the answer.
AcknowledgeRevocation ==
    /\ authority.revoked
    /\ acked = Never
    /\ InvalidateTenant
    /\ acked' = generation'
    /\ UNCHANGED <<elapsed, authority, tracker, load, remote, req>>

\* LoadRuntimeSecurityState.
LoadState ==
    /\ load.phase = "IDLE"
    /\ generation < MaxGeneration
    /\ load' = [phase |-> "LOADED", at |-> elapsed, seq |-> authority.epochs.security,
                epochs |-> authority.epochs]
    /\ UNCHANGED <<elapsed, authority, acked, tracker, generation, local, remote, req>>

\* Refresh records what it loaded; the notification follows outside the lock.
RecordState ==
    /\ load.phase = "LOADED"
    /\ tracker' = Recorded(tracker, load.seq, load.epochs, FALSE, elapsed)
    /\ load' = IF RecordOutcome(tracker, load.seq, load.epochs, FALSE) = "ACCEPTED"
               THEN [phase |-> "NOTIFY"] ELSE NoLoad
    /\ UNCHANGED <<elapsed, authority, acked, generation, local, remote, req>>

NotifyCaches ==
    /\ load.phase = "NOTIFY"
    /\ load' = NoLoad
    /\ InvalidateTenant
    /\ UNCHANGED <<elapsed, authority, acked, tracker, remote, req>>

\* The load failed: lastErr is set, the tracker keeps ageing.
FailLoad ==
    /\ load.phase = "LOADED"
    /\ load' = NoLoad
    /\ UNCHANGED <<elapsed, authority, acked, tracker, generation, local, remote, req>>

-----------------------------------------------------------------------------
(* A decision.                                                             *)

\* A request allowed: what its caller could know when it began, and whether the
\* decision is one of this process or was found where another had left it.
Allow(begun, own) == [pc |-> "ALLOWED", begun |-> begun, own |-> own]

\* Slip: the age of the state is not compared with the bound.
StateServes == HasAuthoritativeState(tracker)

\* FreshnessEnforcingEvaluator: what bounded classes require of the snapshot.
Serves == HasAuthoritativeState(tracker) /\ Age(tracker, elapsed) <= MaxAge

\* Slip: the cache does not step aside for authoritative decisions.
AlwaysCached(class) == "LOOKUP"

\* CachedEvaluator passes an authoritative decision straight on.
FirstStep(class) == IF class = "HIGH" THEN "EPOCHS" ELSE "LOOKUP"

\* The freshness boundary: high-risk writes go live, others carry the snapshot.
BeginEvaluation(r) ==
    /\ req[r].pc = "FREE"
    /\ \E class \in {"HIGH", "NORMAL"} :
       LET begun == [class |-> class, at |-> IF authority.revoked THEN elapsed ELSE Never,
                     acked |-> acked # Never]
           bounded == class = "NORMAL" IN
       req' = [req EXCEPT ![r] =
           IF bounded /\ ~ Serves THEN Free
           ELSE [begun |-> begun, pc |-> FirstStep(class), key |-> <<>>,
                 epochs |-> IF bounded THEN tracker.epochs ELSE ZeroEpochs,
                 age |-> IF bounded THEN Age(tracker, elapsed) ELSE 0]]
    /\ UNCHANGED <<elapsed, authority, acked, tracker, load, generation, local, remote>>

\* The class stands for the bound, which is part of the key.
cacheKey(d, gen) ==
    <<d.begun.class, gen, d.epochs.security, d.epochs.policy, d.epochs.revocation, d.epochs.agent>>

\* localGet and decode: the entry has not expired.
Live(e) == elapsed < e.expires

Smaller(a, b) == IF a <= b THEN a ELSE b

\* The life of a decision in a cache, within the remaining freshness.
ttl(age) == Smaller(MaxTTL, MaxAge - age)

\* localSet: a full cache evicts an arbitrary entry first.
localSet(entry) ==
    \E kept \in IF Cardinality(local) < MaxLocalEntries
               THEN {local} ELSE {local \ {e} : e \in local} :
        local' = {e \in kept : e.key # entry.key} \union {entry}

\* cacheGeneration, and the key every later step of the request uses.
ReadGeneration(r) ==
    /\ req[r].pc = "LOOKUP"
    /\ LET d == req[r] IN
       req' = [req EXCEPT ![r] = [d EXCEPT !.pc = "LOCAL", !.key = cacheKey(d, generation)]]
    /\ UNCHANGED <<elapsed, authority, acked, tracker, load, generation, local, remote>>

\* localGet.
LookLocal(r) ==
    /\ req[r].pc = "LOCAL"
    /\ LET d == req[r]
           hits == {e \in local : e.key = d.key /\ Live(e)} IN
       \/ \E e \in hits : req' = [req EXCEPT ![r] = Allow(d.begun, e.own)]
       \/ /\ hits = {}
          /\ req' = [req EXCEPT ![r] = [d EXCEPT !.pc = "REMOTE"]]
    /\ UNCHANGED <<elapsed, authority, acked, tracker, load, generation, local, remote>>

\* Get: a hit moves into the process, a miss or an error goes on to the authority.
LookRemote(r) ==
    /\ req[r].pc = "REMOTE"
    /\ LET d == req[r] IN
       \/ \E e \in remote :
          /\ e.key = d.key /\ Live(e)
          /\ localSet([e EXCEPT !.expires = Smaller(@, elapsed + ttl(d.age))])
          /\ req' = [req EXCEPT ![r] = Allow(d.begun, e.own)]
       \/ /\ req' = [req EXCEPT ![r] = [d EXCEPT !.pc = "EPOCHS"]]
          /\ UNCHANGED local
    /\ UNCHANGED <<elapsed, authority, acked, tracker, load, generation, remote>>

\* AuthoritativeRevocations, first statement: a bounded class must match exactly.
ReadEpochs(r) ==
    /\ req[r].pc = "EPOCHS"
    /\ LET d == req[r] IN
       req' = [req EXCEPT ![r] =
           IF d.begun.class = "NORMAL" /\ d.epochs # authority.epochs
           THEN Free ELSE [d EXCEPT !.pc = "ACTIVE"]]
    /\ UNCHANGED <<elapsed, authority, acked, tracker, load, generation, local, remote>>

\* Its second statement, and the policy.
ReadActive(r) ==
    /\ req[r].pc = "ACTIVE"
    /\ req' = [req EXCEPT ![r] =
           IF authority.revoked THEN Free
           ELSE IF @.key = <<>> THEN Allow(@.begun, TRUE)
           ELSE [@ EXCEPT !.pc = "STORE"]]
    /\ UNCHANGED <<elapsed, authority, acked, tracker, load, generation, local, remote>>

\* Slip: the entry is stored under the generation of the moment.
KeyAtStore(d) == cacheKey(d, generation)

\* The key of the entry is the one computed before the live call.
KeyOf(d) == d.key

\* Set puts an entry in the place of the one with its key.
Set(entry) == {e \in remote : e.key # entry.key} \union {entry}

\* Both caches take the decision; Valkey may drop the write.
Store(r) ==
    /\ req[r].pc = "STORE"
    /\ LET d == req[r]
           entry == [key |-> KeyOf(d), expires |-> elapsed + ttl(d.age), own |-> TRUE] IN
       IF ttl(d.age) <= 0
       THEN UNCHANGED <<local, remote>>
       ELSE localSet(entry) /\ remote' \in {remote, Set(entry)}
    /\ req' = [req EXCEPT ![r] = Allow(@.begun, TRUE)]
    /\ UNCHANGED <<elapsed, authority, acked, tracker, load, generation>>

\* Another replica stores what it decided before the revocation, however late:
\* under the epochs of that time and whatever generation it has counted to.
PeerStores ==
    /\ Cardinality({e \in remote : ~ e.own}) < MaxShared
    /\ \E gen \in 0..MaxGeneration, life \in 1..Smaller(MaxTTL, MaxAge) :
       LET decision == [begun |-> [class |-> "NORMAL"], epochs |-> ZeroEpochs] IN
       remote' = Set([key |-> cacheKey(decision, gen), expires |-> elapsed + life, own |-> FALSE])
    /\ UNCHANGED <<elapsed, authority, acked, tracker, load, generation, local, req>>

\* Entries that have expired are never read again.
DecisionsTick ==
    /\ elapsed < MaxClock
    /\ load.phase = "LOADED" => elapsed - load.at < MaxLoad
    /\ elapsed' = elapsed + 1
    /\ local' = {e \in local : elapsed + 1 < e.expires}
    /\ remote' = {e \in remote : elapsed + 1 < e.expires}
    /\ UNCHANGED <<authority, acked, tracker, load, generation, req>>

Decide(r) ==
    \/ BeginEvaluation(r) \/ ReadGeneration(r) \/ LookLocal(r) \/ LookRemote(r)
    \/ ReadEpochs(r) \/ ReadActive(r) \/ Store(r)

DecisionsNext ==
    \/ CommitRevocation \/ AcknowledgeRevocation
    \/ LoadState \/ RecordState \/ NotifyCaches \/ FailLoad
    \/ \E r \in Evaluation : Decide(r)
    \/ PeerStores \/ DecisionsTick

DecisionsSpec == DecisionsInit /\ [][DecisionsNext]_decisionVars

-----------------------------------------------------------------------------
(* Properties.                                                             *)

\* The requests allowed at this moment.
Allowed == {req[r] : r \in {q \in Evaluation : req[q].pc = "ALLOWED"}}

\* Slow refreshes and caches together never stretch the bound: a bounded class
\* is allowed only when it began at most MaxAge after a revocation it ignores,
\* plus the time the refresh it rests on took between its read and its record.
\* The bound rests on the reader's own tracker, so no entry that another replica
\* leaves in Valkey, under whatever generation, gets around it.
StaleAllowBounded ==
    \A d \in Allowed :
        d.begun.class = "NORMAL" /\ d.begun.at # Never
            => d.begun.at - authority.at <= MaxAge + MaxLoad

\* A high-risk write is never allowed once the revocation had committed when it
\* began: neither cache and no snapshot stands between it and the authority.
HighRiskIsLive ==
    \A d \in Allowed : d.begun.class = "HIGH" => d.begun.at = Never

\* Once the process has answered a revocation, nothing it decided before lets a
\* request through that begins later: not an entry a slow request stores late, not
\* one that came back from Valkey, not the stale epochs its tracker still holds.
\* What can is an entry of another process, found under the same generation.
AcknowledgedIsEnforced ==
    \A d \in Allowed : d.begun.acked => ~ d.own

=============================================================================
