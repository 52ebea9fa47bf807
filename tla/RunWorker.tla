------------------------------ MODULE RunWorker ------------------------------
(***************************************************************************)
(* Ownership of runs by workers: internal/application/run_worker.go over   *)
(* internal/adapters/postgres/run_worker.go, together with every other     *)
(* transaction that moves a run row (cancellation, signals, budget         *)
(* exhaustion, extension, reconciliation).                                 *)
(*                                                                         *)
(* A service call is several steps: it reads the clock and checks          *)
(* revocations when it begins, commits one transaction later, and its      *)
(* reply reaches the worker later still.  Calls of one worker overlap, any *)
(* of them may end without its transaction or lose its reply (an error, a  *)
(* timeout, a crash of either side), and the time a call works with is the *)
(* one it read at its start.  Each transaction locks the run row and is    *)
(* one action.                                                             *)
(***************************************************************************)
EXTENDS RunLifecycle

CONSTANTS
    Run, Worker,
    Call,            \* service calls that can be in flight together
    SignalKey,       \* idempotency keys of signals
    Tenant, Agent,   \* further targets of a revocation: the runs' tenant, and the
                     \* agent (or agent version) the runs execute
    Revocable,       \* bound: the targets that are ever revoked
    Effective,       \* bound: the effective times revocations are given
    LeaseDuration,
    Skew,            \* how far a replica's clock may be off
    MaxTime,         \* bound: the clock stops here
    MaxClaims,       \* bound: leases that are ever issued
    None

ASSUME TimeAssumption ==
    /\ LeaseDuration \in Nat \ {0}
    /\ Skew \in Nat
    /\ Effective \subseteq Nat
    /\ MaxTime \in Nat
    /\ MaxClaims \in Nat

ASSUME IdentityAssumption ==
    /\ None \notin Run \cup Worker
    /\ None \notin Nat
    /\ Tenant \notin Run \cup Worker
    /\ Revocable \subseteq Run \cup Worker \cup {Tenant, Agent}

VARIABLES
    now,         \* real time
    row,         \* the runs table
    last,        \* run_events: the state and version the last event carries
    signals,     \* run_signals: keys accepted for each run
    issued,      \* leases issued so far; a lease_id is its number
    revoked,     \* active revocations: None, or the effective time and (history,
                 \* read by no action) the real time of the commit
    held,        \* the lease each worker believes to hold, or None
    call         \* calls in flight

vars == <<now, row, last, signals, issued, revoked, held, call>>

Target == Run \cup Worker \cup {Tenant, Agent}
Lease == [run : Run, id : Nat, worker : Worker, fence : Nat, expires : Nat]
Operation == {"START", "COMPLETE", "FAIL", "TIMEOUT"}
Row == [state : RunState, version : 1..MaxInt64, updated : Nat, lease : Nat \cup {None},
        expires : Nat, fence : 0..MaxInt64]
Idle == [kind |-> "idle"]
CallState ==
    {Idle}
    \cup [kind : {"claim"}, worker : Worker, at : Nat]
    \cup [kind : {"heartbeat"}, lease : Lease, at : Nat]
    \cup [kind : {"operate"}, lease : Lease, at : Nat, operation : Operation]
    \cup [kind : {"claimed"}, lease : Lease, at : Nat]
    \cup [kind : {"renewed"}, lease : Lease]

TypeOK ==
    /\ now \in Nat
    /\ row \in [Run -> Row]
    /\ last \in [Run -> [state : RunState, version : Nat]]
    /\ signals \in [Run -> SUBSET SignalKey]
    /\ issued \in Nat
    /\ revoked \in [Target -> [effective : Nat, since : Nat] \cup {None}]
    /\ held \in [Worker -> Lease \cup {None}]
    /\ call \in [Call -> CallState]

(* Runs as AdmitRun leaves them: version 1, no lease, fencing token 0 and  *)
(* the event run.admitted.                                                 *)
Init ==
    /\ now = 0
    /\ row = [r \in Run |-> [state |-> "ADMITTED", version |-> 1, updated |-> 0,
                             lease |-> None, expires |-> 0, fence |-> 0]]
    /\ last = [r \in Run |-> [state |-> "ADMITTED", version |-> 1]]
    /\ signals = [r \in Run |-> {}]
    /\ issued = 0
    /\ revoked = [t \in Target |-> None]
    /\ held = [w \in Worker |-> None]
    /\ call = [c \in Call |-> Idle]

-----------------------------------------------------------------------------
(* Clock readings *)

Reading == {t \in 0..(now + Skew) : t + Skew >= now}

Tick ==
    /\ now < MaxTime
    /\ now' = now + 1
    /\ UNCHANGED <<row, last, signals, issued, revoked, held, call>>

(* The event a transaction appends under the row lock carries the state    *)
(* and version it leaves; sequence numbers follow the order of commits.    *)
AppendEvent(r) ==
    last' = [last EXCEPT ![r] = [state |-> row'[r].state, version |-> row'[r].version]]

(* Slip: the token of the previous owner is used again. *)
SameFencingToken(r) == row[r].fence

NextFencingToken(r) == row[r].fence + 1
FenceLeft(r) == row[r].fence < MaxInt64

(* The row after a transaction that ends ownership without the owner.      *)
Fenced(r, next) == [next EXCEPT !.lease = None, !.expires = 0, !.fence = NextFencingToken(r)]

-----------------------------------------------------------------------------
(* Revocations as the worker service reads them: in force from their       *)
(* effective time on, on the clock of the reader.  A GLOBAL revocation     *)
(* acts like one of the tenant.                                            *)
RevokedAt(t, at) == revoked[t] # None /\ revoked[t].effective <= at

checkWorkerRevocations(targets, at) == \A t \in targets \cup {Tenant} : ~RevokedAt(t, at)

(* The effective time is the administrator's, past or future.              *)
Revoke(t, at) ==
    /\ revoked[t] = None
    /\ revoked' = [revoked EXCEPT ![t] = [effective |-> at, since |-> now]]
    /\ UNCHANGED <<now, row, last, signals, issued, held, call>>

Lift(t) ==
    /\ revoked[t] # None
    /\ revoked' = [revoked EXCEPT ![t] = None]
    /\ UNCHANGED <<now, row, last, signals, issued, held, call>>

-----------------------------------------------------------------------------
(* The worker's calls *)

BeginClaim(c, w, at) ==
    /\ call[c] = Idle
    /\ checkWorkerRevocations({w}, at)
    /\ call' = [call EXCEPT ![c] = [kind |-> "claim", worker |-> w, at |-> at]]
    /\ UNCHANGED <<now, row, last, signals, issued, revoked, held>>

(* Slip: the lease is taken for proof that the worker is not revoked.      *)
UsableWhileLeased(w, at) == held[w] # None /\ at < held[w].expires

(* RunLease.ActiveAt, then the revocation check on the lease's run.        *)
Usable(w, at) ==
    /\ held[w] # None
    /\ at < held[w].expires
    /\ checkWorkerRevocations({w, held[w].run}, at)

BeginHeartbeat(c, w, at) ==
    /\ call[c] = Idle
    /\ Usable(w, at)
    /\ call' = [call EXCEPT ![c] = [kind |-> "heartbeat", lease |-> held[w], at |-> at]]
    /\ UNCHANGED <<now, row, last, signals, issued, revoked, held>>

BeginOperate(c, w, at, operation) ==
    /\ call[c] = Idle
    /\ Usable(w, at)
    /\ call' = [call EXCEPT ![c] = [kind |-> "operate", lease |-> held[w], at |-> at,
                                    operation |-> operation]]
    /\ UNCHANGED <<now, row, last, signals, issued, revoked, held>>

(* ClaimRun: the row must be free on the caller's clock.  The query skips  *)
(* locked rows, so any free run may be the one that is claimed.            *)
Claimable(r, w, at) ==
    /\ row[r].state \in {"ADMITTED", "RUNNING"}
    /\ row[r].lease = None \/ row[r].expires <= at
    /\ \A t \in {Tenant, w, r, Agent} : ~RevokedAt(t, at)
    /\ FenceLeft(r)

ClaimRun(c, r) ==
    /\ call[c].kind = "claim"
    /\ issued < MaxClaims
    /\ Claimable(r, call[c].worker, call[c].at)
    /\ LET expiry == call[c].at + LeaseDuration
           lease == [run |-> r, id |-> issued + 1, worker |-> call[c].worker,
                     fence |-> NextFencingToken(r), expires |-> expiry]
       IN  /\ row' = [row EXCEPT ![r].lease = issued + 1, ![r].expires = expiry,
                                 ![r].fence = NextFencingToken(r)]
           /\ call' = [call EXCEPT ![c] = [kind |-> "claimed", lease |-> lease, at |-> @.at]]
    /\ issued' = issued + 1
    /\ AppendEvent(r)
    /\ UNCHANGED <<now, signals, revoked, held>>

(* The lease presented is the one on the row, and not expired by the       *)
(* caller's clock.                                                         *)
LeaseMatches(lease, at) ==
    /\ row[lease.run].lease = lease.id
    /\ row[lease.run].fence = lease.fence
    /\ row[lease.run].expires > at

HeartbeatRun(c) ==
    /\ call[c].kind = "heartbeat"
    /\ LET lease == call[c].lease
           expiry == call[c].at + LeaseDuration
       IN  /\ expiry > lease.expires
           /\ LeaseMatches(lease, call[c].at)
           /\ ~Terminal(row[lease.run].state)
           /\ row' = [row EXCEPT ![lease.run].expires = expiry]
           /\ call' = [call EXCEPT ![c] = [kind |-> "renewed",
                                           lease |-> [lease EXCEPT !.expires = expiry]]]
           /\ AppendEvent(lease.run)
    /\ UNCHANGED <<now, signals, issued, revoked, held>>

WorkerTarget(operation) ==
    [START |-> <<"RUNNING", "WORKER">>, COMPLETE |-> <<"COMPLETED", "WORKER">>,
     FAIL |-> <<"FAILED", "WORKER">>, TIMEOUT |-> <<"TIMED_OUT", "SYSTEM">>][operation]

MutateWorkerRun(c) ==
    /\ call[c].kind = "operate"
    /\ LET lease == call[c].lease
           r == lease.run
           to == WorkerTarget(call[c].operation)[1]
           actor == WorkerTarget(call[c].operation)[2]
           next == Moved(row[r], to, call[c].at)
       IN  /\ LeaseMatches(lease, call[c].at)
           /\ Accepts(row[r], to, actor, row[r].version, call[c].at)
           /\ row' = [row EXCEPT ![r] =
                         IF Terminal(to) THEN [next EXCEPT !.lease = None, !.expires = 0] ELSE next]
           /\ AppendEvent(r)
    /\ call' = [call EXCEPT ![c] = Idle]
    /\ UNCHANGED <<now, signals, issued, revoked, held>>

(* The reply of ClaimRun passes the second revocation check, made with the *)
(* time the call began with; the reply of a heartbeat is the longer lease. *)
Deliver(c) ==
    /\ \/ /\ call[c].kind = "claimed"
          /\ checkWorkerRevocations({call[c].lease.worker, call[c].lease.run}, call[c].at)
       \/ call[c].kind = "renewed"
    /\ held' = [held EXCEPT ![call[c].lease.worker] = call[c].lease]
    /\ call' = [call EXCEPT ![c] = Idle]
    /\ UNCHANGED <<now, row, last, signals, issued, revoked>>

(* A call ends with an error, or its reply is lost. *)
CallEnds(c) ==
    /\ call[c] # Idle
    /\ call' = [call EXCEPT ![c] = Idle]
    /\ UNCHANGED <<now, row, last, signals, issued, revoked, held>>

(* A worker crashes and restarts without its lease. *)
WorkerCrash(w) ==
    /\ held[w] # None
    /\ held' = [held EXCEPT ![w] = None]
    /\ UNCHANGED <<now, row, last, signals, issued, revoked, call>>

-----------------------------------------------------------------------------
(* Transactions of other actors on the run row, each with the time its     *)
(* service read before.                                                    *)

(* CancelRun stores its request as a signal, under its idempotency key.    *)
CancelRun(r, key, at) ==
    /\ key \notin signals[r]
    /\ Accepts(row[r], "CANCELLED", "CALLER", row[r].version, at)
    /\ FenceLeft(r)
    /\ row' = [row EXCEPT ![r] = Fenced(r, Moved(@, "CANCELLED", at))]
    /\ signals' = [signals EXCEPT ![r] = @ \cup {key}]
    /\ AppendEvent(r)
    /\ UNCHANGED <<now, issued, revoked, held, call>>

(* Slip: terminal runs accept signals. *)
AppendRunSignalAlways(r, key) ==
    /\ key \notin signals[r]
    /\ signals' = [signals EXCEPT ![r] = @ \cup {key}]
    /\ row' = row
    /\ AppendEvent(r)
    /\ UNCHANGED <<now, issued, revoked, held, call>>

(* AppendRunSignal: a repeated key is answered from the first event.       *)
AppendRunSignal(r, key) ==
    /\ ~Terminal(row[r].state)
    /\ key \notin signals[r]
    /\ signals' = [signals EXCEPT ![r] = @ \cup {key}]
    /\ row' = row
    /\ AppendEvent(r)
    /\ UNCHANGED <<now, issued, revoked, held, call>>

(* applyBudgetExhaustion, when a usage event empties a balance: two        *)
(* transitions and two events in one transaction.                          *)
applyBudgetExhaustion(r, disposition, at) ==
    LET exhausted == Moved(row[r], "BUDGET_EXHAUSTED", at)
        to == IF disposition = "PAUSE" THEN "PAUSED_FOR_BUDGET" ELSE "FAILED_BUDGET"
        actor == IF disposition = "PAUSE" THEN "GOVERNOR" ELSE "SYSTEM"
    IN  /\ row[r].state = "RUNNING"
        /\ Accepts(row[r], "BUDGET_EXHAUSTED", "GOVERNOR", row[r].version, at)
        /\ Accepts(exhausted, to, actor, exhausted.version, at)
        /\ FenceLeft(r)
        /\ row' = [row EXCEPT ![r] = Fenced(r, Moved(exhausted, to, at))]
        /\ AppendEvent(r)
        /\ UNCHANGED <<now, signals, issued, revoked, held, call>>

(* ExtendResources: a paused run resumes through a transition; any other   *)
(* live run only has its updated_at overwritten.                           *)
ExtendResources(r, at) ==
    /\ ~Terminal(row[r].state)
    /\ IF row[r].state = "PAUSED_FOR_BUDGET"
       THEN /\ Accepts(row[r], "RUNNING", "GOVERNOR", row[r].version, at)
            /\ row' = [row EXCEPT ![r] = Moved(@, "RUNNING", at)]
       ELSE row' = [row EXCEPT ![r].updated = at]
    /\ AppendEvent(r)
    /\ UNCHANGED <<now, signals, issued, revoked, held, call>>

(* ReconcileNextReservation for the expired reservation of a live child.   *)
ReconcileTimeout(r, at) ==
    /\ row[r].state \in {"ADMITTED", "RUNNING", "PAUSED_FOR_BUDGET"}
    /\ Accepts(row[r], "TIMED_OUT", "SYSTEM", row[r].version, at)
    /\ FenceLeft(r)
    /\ row' = [row EXCEPT ![r] = Fenced(r, Moved(@, "TIMED_OUT", at))]
    /\ AppendEvent(r)
    /\ UNCHANGED <<now, signals, issued, revoked, held, call>>

-----------------------------------------------------------------------------
Next ==
    \/ Tick
    \/ \E c \in Call, w \in Worker, at \in Reading :
          \/ BeginClaim(c, w, at)
          \/ BeginHeartbeat(c, w, at)
          \/ \E operation \in Operation : BeginOperate(c, w, at, operation)
    \/ \E c \in Call, r \in Run : ClaimRun(c, r)
    \/ \E c \in Call : HeartbeatRun(c) \/ MutateWorkerRun(c) \/ Deliver(c) \/ CallEnds(c)
    \/ \E w \in Worker : WorkerCrash(w)
    \/ \E r \in Run, at \in Reading :
          \/ \E key \in SignalKey : CancelRun(r, key, at)
          \/ \E disposition \in {"PAUSE", "FAIL"} : applyBudgetExhaustion(r, disposition, at)
          \/ ExtendResources(r, at)
          \/ ReconcileTimeout(r, at)
    \/ \E r \in Run, key \in SignalKey : AppendRunSignal(r, key)
    \/ \E t \in Revocable, at \in Effective : Revoke(t, at)
    \/ \E t \in Revocable : Lift(t)

Spec == Init /\ [][Next]_vars

-----------------------------------------------------------------------------
(* Properties *)

(* Leases some party still presents: held by a worker or inside a call.    *)
InFlight == {c \in Call : call[c].kind \notin {"idle", "claim"}}
Circulating == {held[w] : w \in {v \in Worker : held[v] # None}}
               \cup {call[c].lease : c \in InFlight}

OnRow(lease) == row[lease.run].lease = lease.id /\ row[lease.run].fence = lease.fence

(* At most one worker presents the current token of a run, whatever stale  *)
(* leases are still in use: the test of HeartbeatRun and MutateWorkerRun,  *)
(* or of any store that compares tokens, admits one owner.                 *)
SoleOwner ==
    \A l, m \in Circulating :
        l.run = m.run /\ l.fence = row[l.run].fence /\ m.fence = row[l.run].fence =>
            l.worker = m.worker /\ l.id = m.id

(* Lease identifier and fencing token never disagree: no lease is ahead of *)
(* the row, and one carries the row's token exactly when it carries the    *)
(* row's identifier or ownership has been given up by its own final        *)
(* operation.  A consumer that compares tokens alone decides as the        *)
(* repository does.                                                        *)
TokenIdentifiesLease ==
    \A l \in Circulating :
        /\ l.fence <= row[l.run].fence
        /\ l.id = row[l.run].lease => l.fence = row[l.run].fence
        /\ l.fence = row[l.run].fence =>
               \/ l.id = row[l.run].lease
               \/ row[l.run].lease = None /\ Terminal(row[l.run].state)

(* A run that some worker owns is one a worker may work on: cancellation,  *)
(* pausing, failing and timing out all take the lease away.                *)
OwnedRunIsLive ==
    \A r \in Run : row[r].lease # None => row[r].state \in {"ADMITTED", "RUNNING"}

(* The newest run event carries the state and version of the run row, so a *)
(* reader that has caught up with the event stream knows the run.          *)
LastEventIsCurrent ==
    \A r \in Run : last[r] = [state |-> row[r].state, version |-> row[r].version]

(* However long calls that passed their revocation check are delayed, the  *)
(* run's lease ends within one lease duration of the revocation of the     *)
(* run, its tenant or its owner: of the time it was committed (and the     *)
(* clock error), or of the time it takes effect, if that is later.         *)
LeaseEndsAfter(r, t) ==
    revoked[t] # None /\ row[r].lease # None =>
        \/ row[r].expires <= revoked[t].since + Skew + LeaseDuration
        \/ row[r].expires <= revoked[t].effective + LeaseDuration

RevocationEndsLease ==
    /\ \A r \in Run, t \in Run \cup {Tenant} : t \in {r, Tenant} => LeaseEndsAfter(r, t)
    /\ \A l \in Circulating : OnRow(l) => LeaseEndsAfter(l.run, l.worker)

(* No transaction changes any column of a terminal run: not a late worker, *)
(* not a late usage event, extension, signal or reconciliation.            *)
FinalStep ==
    \A r \in Run : Terminal(row[r].state) => row'[r] = row[r] /\ signals'[r] = signals[r]

TerminalIsFinal == [][FinalStep]_vars

(* The fencing token never goes back; it advances whenever an owner is     *)
(* replaced or deposed, and only the owner's own final operation gives     *)
(* ownership up without advancing it.                                      *)
FencedStep ==
    \A r \in Run :
        /\ row'[r].fence >= row[r].fence
        /\ row'[r].lease # row[r].lease =>
              \/ row'[r].fence > row[r].fence
              \/ row'[r].lease = None /\ Terminal(row'[r].state)

OwnershipIsFenced == [][FencedStep]_vars

=============================================================================
