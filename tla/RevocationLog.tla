----------------------------- MODULE RevocationLog -----------------------------
(***************************************************************************)
(* The ordered revocation log of PostgreSQL                                *)
(* (internal/application/revocation.go, internal/adapters/postgres/        *)
(* revocation.go and revocation_distribution.go).  A change is a           *)
(* transaction: it takes the singleton row of security_epochs, and keeps it *)
(* until it commits; only then does it take its sequence number.  A change *)
(* that rolls back burns its number.  The timestamp of an entry is the     *)
(* service's clock, read before the transaction waits for the row; the     *)
(* replicas' clocks may disagree, so a change may carry an older timestamp *)
(* than one that committed before it.                                      *)
(*                                                                         *)
(* A revocation is named by the sequence number of its creation.  The      *)
(* epochs of the authority are counts over the committed entries (the      *)
(* policy epoch, which an activation raises too and which starts at 1, is  *)
(* counted from there); each tenant has one agent, which every AGENT_ID    *)
(* revocation targets.  Expiry of a revocation is left out: no code        *)
(* appends a change for it.                                                *)
(***************************************************************************)
EXTENDS RevocationFreshness, FiniteSets, Sequences, Functions

CONSTANTS
    Target,      \* what may be revoked: [tenant, scope], tenant Nobody for GLOBAL
    Nobody,      \* the tenant of a global revocation
    Retention,   \* how long the log serves an entry
    Delay,       \* how far in the future a revocation may take effect
    MaxLag,      \* how old the timestamp of a change may be when it commits
    MaxSeq,      \* bound on the sequence numbers
    MaxTime      \* bound on the clock

\* A request is cut off after 15 seconds, the log is served for 24 hours.
ASSUME RetentionAssumption == Retention \in Nat /\ MaxLag \in Nat /\ MaxLag <= Retention

VARIABLES
    clock,
    log,         \* committed entries
    pending,     \* entries of transactions still open
    sequence     \* the identity column of revocation_log

logVars == <<log, pending, sequence>>

LogInit ==
    /\ clock = 0
    /\ log = {}
    /\ pending = {}
    /\ sequence = 0

PolicyScope == {"TENANT_ID", "POLICY_VERSION"}
AgentScope == {"AGENT_ID", "AGENT_VERSION"}

Visible(entries, tenant) == {e \in entries : e.tenant \in {tenant, Nobody}}

\* Slip: a global revocation leaves the security epoch alone.
EpochsWithoutGlobal(tenant) ==
    LET mine == {e \in log : e.tenant = tenant}
        of(scopes) == Cardinality({e \in mine : e.scope \in scopes})
    IN  [security |-> Cardinality({e \in log : e.tenant # Nobody}),
         policy |-> of(PolicyScope),
         revocation |-> Cardinality(mine),
         agent |-> of(AgentScope)]

\* The authoritative epoch rows of a tenant.  (An activated policy raises the policy
\* epoch as well; it is no change of the log and no property here reads that epoch.)
Epochs(tenant) ==
    LET of(scopes) == Cardinality({e \in log : e.tenant = tenant /\ e.scope \in scopes})
    IN  [security |-> Cardinality(log),
         policy |-> of(PolicyScope),
         revocation |-> Cardinality({e \in log : e.tenant = tenant}),
         agent |-> of(AgentScope)]

\* incrementRevocationEpochs: a global change carries no tenant epochs, and only
\* an agent's change carries the epoch of the agent.
incrementRevocationEpochs(tenant, scope) ==
    LET current == Epochs(tenant)
        step(b) == IF b THEN 1 ELSE 0
        tenanted == tenant # Nobody
    IN  [security |-> current.security + 1,
         policy |-> IF tenanted THEN current.policy + step(scope \in PolicyScope) ELSE 0,
         revocation |-> IF tenanted THEN current.revocation + 1 ELSE 0,
         agent |-> IF tenanted /\ scope \in AgentScope THEN current.agent + 1 ELSE 0]

Created == {e \in log : e.change = "CREATED"}

\* ORDER BY changed_at DESC LIMIT 1 finds a lift, unless it is older than the creation.
Lifted == {e.rev : e \in {f \in log : /\ f.change = "LIFTED"
                                       /\ \E c \in Created : c.rev = f.rev /\ c.at <= f.at}}

\* Slip: changes do not serialise on the row of security_epochs.
NoEpochLock == TRUE

\* UPDATE security_epochs waits for the transaction that holds the row.
EpochRowFree == pending = {}

Append1(rev, tenant, scope, change, at, from) ==
    /\ EpochRowFree
    /\ sequence < MaxSeq
    /\ sequence' = sequence + 1
    /\ pending' = pending \union
          {[seq |-> sequence + 1, rev |-> rev, tenant |-> tenant, scope |-> scope,
            change |-> change, at |-> at, from |-> from,
            epochs |-> incrementRevocationEpochs(tenant, scope)]}
    /\ UNCHANGED <<clock, log>>

\* CreateRevocation up to the log entry.
CreateRevocation ==
    \E t \in Target, at \in 0 .. clock, d \in Delay :
        /\ clock - at <= MaxLag
        /\ Append1(sequence + 1, t.tenant, t.scope, "CREATED", at, at + d)

\* LiftRevocation up to the log entry: the revocation exists, its row is locked
\* and its last change by timestamp is CREATED.
LiftRevocation ==
    \E e \in Created, at \in 0 .. clock :
        /\ clock - at <= MaxLag
        /\ e.rev \notin Lifted
        /\ \A p \in pending : p.rev # e.rev
        /\ Append1(e.rev, e.tenant, e.scope, "LIFTED", at, e.from)

CommitChange ==
    \E e \in pending :
        /\ clock - e.at <= MaxLag
        /\ log' = log \union {e}
        /\ pending' = pending \ {e}
        /\ UNCHANGED <<clock, sequence>>

RollBackChange ==
    \E e \in pending :
        /\ pending' = pending \ {e}
        /\ UNCHANGED <<clock, log, sequence>>

LogNext == CreateRevocation \/ LiftRevocation \/ CommitChange \/ RollBackChange

-----------------------------------------------------------------------------
(* What the readers of the log ask it.                                     *)

\* ORDER BY sequence LIMIT n.
FirstInOrder(entries, n) ==
    [i \in 1 .. (IF n < Cardinality(entries) THEN n ELSE Cardinality(entries)) |->
        CHOOSE e \in entries : Cardinality({f \in entries : f.seq < e.seq}) = i - 1]

\* Slip: an expired boundary is not noticed.
NeverGone(tenant, after, retainedAfter) == FALSE

\* RevocationChanges: ErrRevocationCursorGone.
CursorGone(tenant, after, retainedAfter) ==
    LET mine == Visible(log, tenant)
        kept == {e \in mine : e.at >= retainedAfter}
    IN  /\ kept # mine
        /\ \A e \in kept : after < e.seq - 1

\* RevocationChanges: the entries after the cursor that retention still serves.
RevocationChanges(tenant, after, limit, retainedAfter) ==
    FirstInOrder({e \in Visible(log, tenant) : e.seq > after /\ e.at >= retainedAfter}, limit)

\* The first statement of RevocationSnapshot.
LastSequence(tenant) ==
    LET mine == {e.seq : e \in Visible(log, tenant)}
    IN  CHOOSE n \in mine \union {0} : \A m \in mine : m <= n

\* Its second statement: the revocations in effect, those lifted left out.
ActiveRevocations(tenant, now) ==
    {e.rev : e \in {f \in Visible(Created, tenant) : f.from <= now}} \ Lifted
=============================================================================
