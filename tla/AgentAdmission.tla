--------------------------- MODULE AgentAdmission ---------------------------
(***************************************************************************)
(* POST /v1/agents/{agent_id}/runs: internal/adapters/httpserver/          *)
(* run_admission.go over internal/application/run_admission.go and         *)
(* version_resolution.go, composed with the agent registry and one         *)
(* idempotency record.                                                     *)
(*                                                                         *)
(* A request acquires the key, resolves a version against policy, and      *)
(* commits one transaction that admits the run and completes the record.   *)
(* Requests with the same key overlap; one may stop anywhere (a crash, a   *)
(* cancelled context), lose the acknowledgement of its commit, or outlive  *)
(* its lease.  A request asks for one version by digest, or for none       *)
(* (Unpinned), and is its own hash.                                        *)
(***************************************************************************)
EXTENDS AgentRegistry, Idempotency, Sequences

CONSTANTS
    Attempt,          \* HTTP requests that can be in flight together
    Request,          \* request bodies sent with the key: versions, or Unpinned
    Unpinned,
    Lease, TTL,       \* of the idempotency record
    MaxTime,          \* bound: the clock stops here
    MaxTokens         \* bound: acquisitions of the key

ASSUME AdmissionAssumption ==
    /\ Request \subseteq Version \cup {Unpinned} /\ Unpinned \notin Version
    /\ Lease \in Nat \ {0} /\ TTL \in Nat /\ Lease <= TTL
    /\ MaxTime \in Nat /\ MaxTokens \in Nat
    /\ NoRecord \notin RecordOf(Request, Nat)

VARIABLES
    record,     \* the idempotency record of the key
    tokens,     \* owner tokens issued so far
    attempt,    \* requests in flight
    runs,       \* admitted runs, in commit order; a run is its position
    answers     \* history: 201 responses, as [request, run]

admissionVars == <<record, tokens, attempt, runs, answers>>
vars == <<clock, registryVars, admissionVars>>

Idle == [pc |-> "idle"]
Mode == {"AUTOMATIC", "PINNED", "ROLLBACK"}
AttemptState ==
    {Idle}
    \cup [pc : {"contended"}, request : Request]
    \cup [pc : {"acquired", "failing"}, request : Request, token : Nat]
    \cup [pc : {"resolved"}, request : Request, token : Nat, version : Version, mode : Mode]
Run == [request : Request, version : Version, mode : Mode, acquired : Nat,
        decided : SUBSET DecisionRow]

TypeOK ==
    /\ clock \in 0..MaxTime
    /\ RegistryTypeOK
    /\ record \in {NoRecord} \cup RecordOf(Request, Nat)
    /\ tokens \in 0..MaxTokens
    /\ attempt \in [Attempt -> AttemptState]
    /\ runs \in Seq(Run)
    /\ answers \subseteq [request : Request, run : DOMAIN runs]

Init ==
    /\ clock = 0
    /\ RegistryInit
    /\ record = NoRecord
    /\ tokens = 0
    /\ attempt = [a \in Attempt |-> Idle]
    /\ runs = <<>>
    /\ answers = {}

-----------------------------------------------------------------------------
(* The handler has validated its input; it reads the clock and runs the    *)
(* upsert of AcquireIdempotency, one statement.                            *)
AcquireIdempotency(a, request) ==
    /\ attempt[a] = Idle
    /\ IF Acquirable(record, request, clock)
       THEN /\ tokens < MaxTokens
            /\ tokens' = tokens + 1
            /\ record' = AcquiredRecord(request, tokens', clock, Lease, TTL)
            /\ attempt' = [attempt EXCEPT ![a] =
                              [pc |-> "acquired", request |-> request, token |-> tokens']]
       ELSE /\ attempt' = [attempt EXCEPT ![a] = [pc |-> "contended", request |-> request]]
            /\ UNCHANGED <<record, tokens>>
    /\ UNCHANGED <<runs, answers>>

(* Its second statement, for a key it could not acquire: a replay answers  *)
(* with the stored response, the other outcomes with a problem.            *)
ReadContended(a) ==
    /\ attempt[a].pc = "contended"
    /\ answers' = IF ContendedOutcome(record, attempt[a].request) = "REPLAY"
                  THEN answers \cup {[request |-> attempt[a].request, run |-> record.response]}
                  ELSE answers
    /\ attempt' = [attempt EXCEPT ![a] = Idle]
    /\ UNCHANGED <<record, tokens, runs>>

-----------------------------------------------------------------------------
(* ListAgentVersionCandidates: of an ACTIVE agent, every approved version, *)
(* or the requested one when it is approved or deprecated.  Both lists     *)
(* also want an APPROVED decision on record.                               *)
Candidates(request) ==
    {v \in registered :
        /\ agent.status = "ACTIVE"
        /\ \E d \in decisions : d.version = v /\ d.decision = "APPROVED"
        /\ IF request = Unpinned
           THEN AgentVersionEligibility(v) = "APPROVED"
           ELSE v = request /\ AgentVersionEligibility(v) \in {"APPROVED", "DEPRECATED"}}

SelectionMode(request, v) ==
    IF request = Unpinned THEN "AUTOMATIC"
    ELSE IF AgentVersionEligibility(v) = "DEPRECATED" THEN "ROLLBACK"
    ELSE "PINNED"

(* prepare and Resolve.  Policy may refuse a candidate: an automatic       *)
(* selection then goes on to an older one, so any candidate can be chosen. *)
Resolve(a) ==
    /\ attempt[a].pc = "acquired"
    /\ \E v \in Candidates(attempt[a].request) :
          attempt' = [attempt EXCEPT ![a] =
             [pc |-> "resolved", request |-> @.request, token |-> @.token,
              version |-> v, mode |-> SelectionMode(@.request, v)]]
    /\ UNCHANGED <<record, tokens, runs, answers>>

(* Slip: what the resolver saw is taken for granted.                       *)
AsResolved(v, mode) == TRUE

(* AdmitRun looks at the version's decisions again under its lock; it does *)
(* not look at the agent.                                                  *)
StillEligible(v, mode) ==
    \/ AgentVersionEligibility(v) = "APPROVED"
    \/ mode = "ROLLBACK" /\ AgentVersionEligibility(v) = "DEPRECATED"

(* AdmitRunIdempotently: ownership of the record, the run, the response,   *)
(* one transaction.  The acknowledgement of the commit may be lost.        *)
AdmitRunIdempotently(a) ==
    /\ attempt[a].pc = "resolved"
    /\ Owns(record, attempt[a].token)
    /\ StillEligible(attempt[a].version, attempt[a].mode)
    /\ runs' = Append(runs, [request |-> attempt[a].request, version |-> attempt[a].version,
                             mode |-> attempt[a].mode, acquired |-> record.expires - TTL,
                             decided |-> decisions])
    /\ record' = CompletedRecord(record, Len(runs'), clock)
    /\ \/ /\ answers' = answers \cup {[request |-> attempt[a].request, run |-> Len(runs')]}
          /\ attempt' = [attempt EXCEPT ![a] = Idle]
       \/ /\ attempt' = [attempt EXCEPT ![a] =
                            [pc |-> "failing", request |-> @.request, token |-> @.token]]
          /\ UNCHANGED answers
    /\ UNCHANGED tokens

(* The handler's error path, also when nothing is eligible, policy denies  *)
(* or is unavailable, or the transaction was rolled back: record the       *)
(* failure, answer with a problem.                                         *)
FailIdempotency(a) ==
    /\ attempt[a].pc \in {"acquired", "resolved", "failing"}
    /\ record' = FailedRecord(record, attempt[a].token, clock)
    /\ attempt' = [attempt EXCEPT ![a] = Idle]
    /\ UNCHANGED <<tokens, runs, answers>>

(* The process dies, or the request's context is cancelled, before the     *)
(* next statement: nobody fails the record.                                *)
Abandon(a) ==
    /\ attempt[a] # Idle
    /\ attempt' = [attempt EXCEPT ![a] = Idle]
    /\ UNCHANGED <<record, tokens, runs, answers>>

Tick ==
    /\ clock < MaxTime
    /\ clock' = clock + 1
    /\ UNCHANGED <<registryVars, admissionVars>>

Next ==
    \/ Tick
    \/ RegistryNext /\ UNCHANGED <<clock, admissionVars>>
    \/ /\ \E a \in Attempt :
             \/ \E q \in Request : AcquireIdempotency(a, q)
             \/ ReadContended(a)
             \/ Resolve(a)
             \/ AdmitRunIdempotently(a)
             \/ FailIdempotency(a)
             \/ Abandon(a)
       /\ UNCHANGED <<clock, registryVars>>

Spec == Init /\ [][Next]_vars

-----------------------------------------------------------------------------
(* Two runs for one key exist only when the second request began after the *)
(* first one's record had expired: retries, lease takeovers and lost       *)
(* acknowledgements never admit a request twice.                           *)
OneRunPerKey ==
    \A i, j \in DOMAIN runs : i < j => runs[j].acquired >= runs[i].acquired + TTL

(* Every 201 response, replayed or not, names the run that was admitted    *)
(* for exactly that request.                                               *)
ReplayIsFaithful ==
    \A x \in answers : runs[x.run].request = x.request

Terminal == {"REJECTED", "REVOKED"}

(* No decision that a REVOKED or REJECTED one waited for at the version's  *)
(* lock carries a later timestamp than it does.                            *)
InOrder(rows) ==
    \A d \in rows : d.decision \in Terminal => \A e \in rows \ {d} :
        e.version = d.version => Later(d, e)

(* While decisions about a version are recorded in the order of their      *)
(* timestamps, no run is admitted for a version whose REVOKED or REJECTED  *)
(* decision had been committed before the run, whatever the resolver saw.  *)
RevokedVersionsStayOut ==
    \A i \in DOMAIN runs : InOrder(runs[i].decided) =>
        \A d \in runs[i].decided : d.version = runs[i].version => d.decision \notin Terminal

(* "Updates cannot restore a retired agent", however the updates overlap.  *)
RetiredIsFinal ==
    [][agent.status = "RETIRED" => agent'.status = "RETIRED"]_vars

=============================================================================
