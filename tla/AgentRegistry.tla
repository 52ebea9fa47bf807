---------------------------- MODULE AgentRegistry ----------------------------
(***************************************************************************)
(* One agent, its immutable versions and the decisions about them:         *)
(* internal/application/agent_registry.go, agent_version_registry.go and   *)
(* agent_approval_registry.go over their adapters in                       *)
(* internal/adapters/postgres.                                             *)
(*                                                                         *)
(* An update of the agent reads the row, checks the move against what it   *)
(* read and writes later, guarded by updated_at.  A decision about a       *)
(* version reads its clock before its transaction waits for the lock on    *)
(* the version; the current state of a version is the decision with the    *)
(* largest created_at, ties broken by id.                                  *)
(***************************************************************************)
EXTENDS Naturals, FiniteSets

CONSTANTS
    Version,       \* content digests
    Provisioned,   \* versions that tenant provisioning registered and approved
    DecisionId,    \* identifiers of decisions, ordered as PostgreSQL orders them
    Wanted,        \* bound: the statuses and decisions operators ever ask for
    MaxUpdates     \* bound: updates of the agent that ever begin

ASSUME RegistryAssumption ==
    Provisioned \subseteq Version /\ DecisionId \subseteq Nat /\ MaxUpdates \in Nat

VARIABLES
    clock,
    agent,         \* [status, updated_at]
    updates,       \* updates of the agent between their read and their write
    begun,         \* history: number of updates begun so far
    registered,    \* agent_versions
    pending,       \* decisions between reading the clock and their transaction
    decisions      \* agent_version_approvals

registryVars == <<agent, updates, begun, registered, pending, decisions>>

AgentStatus == {"ACTIVE", "SUSPENDED", "RETIRED"}
Decision == {"APPROVED", "REJECTED", "DEPRECATED", "REVOKED"}
DecisionRow == [version : Version, decision : Decision, at : Nat, id : DecisionId \cup {0}]

RegistryTypeOK ==
    /\ agent \in [status : AgentStatus, updated_at : Nat]
    /\ updates \subseteq [expected : Nat, status : AgentStatus]
    /\ begun \in 0..MaxUpdates
    /\ registered \subseteq Version
    /\ pending \subseteq DecisionRow
    /\ decisions \subseteq DecisionRow

(* Create inserts an ACTIVE agent; provisioning also registers and         *)
(* approves versions of it.                                                *)
RegistryInit ==
    /\ agent = [status |-> "ACTIVE", updated_at |-> 0]
    /\ updates = {}
    /\ begun = 0
    /\ registered = Provisioned
    /\ pending = {}
    /\ decisions = [version : Provisioned, decision : {"APPROVED"}, at : {0}, id : {0}]

-----------------------------------------------------------------------------
CanTransitionTo(status, next) == status = next \/ status # "RETIRED"

(* Update up to its write.  ExpectedUpdatedAt equals what was just read,   *)
(* or the call ends; the new updated_at must be later, so it is abstracted *)
(* to the number of updates written.                                       *)
BeginUpdate(status) ==
    /\ begun < MaxUpdates
    /\ CanTransitionTo(agent.status, status)
    /\ updates' = updates \cup {[expected |-> agent.updated_at, status |-> status]}
    /\ begun' = begun + 1
    /\ UNCHANGED <<agent, registered, pending, decisions>>

(* Slip: the write does not compare updated_at.                            *)
UpdateAlways(u) == TRUE

UpdateGuard(u) == agent.updated_at = u.expected

UpdateAgent(u) ==
    /\ u \in updates
    /\ agent' = IF UpdateGuard(u)
                THEN [status |-> u.status, updated_at |-> agent.updated_at + 1]
                ELSE agent
    /\ updates' = updates \ {u}
    /\ UNCHANGED <<begun, registered, pending, decisions>>

(* A version is registered once, for an agent that is not retired.         *)
RegisterAgentVersion(v) ==
    /\ v \notin registered
    /\ agent.status # "RETIRED"
    /\ registered' = registered \cup {v}
    /\ UNCHANGED <<agent, updates, begun, pending, decisions>>

-----------------------------------------------------------------------------
Later(d, e) == d.at > e.at \/ (d.at = e.at /\ d.id > e.id)

(* The state of a version over a set of stored decisions.                  *)
StateIn(rows, v) ==
    LET about == {d \in rows : d.version = v}
    IN  IF about = {} THEN "REGISTERED"
        ELSE (CHOOSE d \in about : \A e \in about \ {d} : Later(d, e)).decision

AgentVersionEligibility(v) == StateIn(decisions, v)

CanApply(state, decision) ==
    \/ state = "REGISTERED" /\ decision \in {"APPROVED", "REJECTED"}
    \/ state = "APPROVED" /\ decision \in {"DEPRECATED", "REVOKED"}
    \/ state = "DEPRECATED" /\ decision = "REVOKED"

(* Decide until its transaction: policy allows the decision, then the      *)
(* clock is read.                                                          *)
BeginDecision(v, decision, id) ==
    /\ \A d \in pending \cup decisions : d.id # id
    /\ pending' = pending \cup
          {[version |-> v, decision |-> decision, at |-> clock, id |-> id]}
    /\ UNCHANGED <<agent, updates, begun, registered, decisions>>

(* The transaction holds the version row FOR UPDATE, so transactions about *)
(* one version, and admissions of it (FOR SHARE), follow one another.      *)
RecordAgentVersionDecision(d) ==
    /\ d \in pending
    /\ decisions' = IF /\ d.version \in registered
                       /\ CanApply(AgentVersionEligibility(d.version), d.decision)
                    THEN decisions \cup {d}
                    ELSE decisions
    /\ pending' = pending \ {d}
    /\ UNCHANGED <<agent, updates, begun, registered>>

RegistryNext ==
    \/ \E s \in AgentStatus \cap Wanted : BeginUpdate(s)
    \/ \E u \in updates : UpdateAgent(u)
    \/ \E v \in Version : RegisterAgentVersion(v)
    \/ \E v \in Version, x \in Decision \cap Wanted, i \in DecisionId : BeginDecision(v, x, i)
    \/ \E d \in pending : RecordAgentVersionDecision(d)

=============================================================================
