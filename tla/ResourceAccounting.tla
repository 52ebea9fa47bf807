------------------------- MODULE ResourceAccounting -------------------------
(***************************************************************************)
(* The resource ledger of internal/adapters/postgres/resource_*.go and the *)
(* run admission that issues it: envelopes with their grants and balances, *)
(* reservations from a parent envelope to a child, trusted usage,          *)
(* extensions, settlement and reconciliation.                              *)
(*                                                                         *)
(* One action is one database transaction.  Every transaction below takes  *)
(* the row locks of everything it reads before it writes (run and          *)
(* envelope, or reservation and run, then the balances), so its effect is  *)
(* atomic; a transaction that returns an error is rolled back and is no    *)
(* step.  A run and its envelope are created together and share one name.  *)
(* Leases, fencing tokens, state versions and run events, which the same   *)
(* transactions maintain, are the subject of RunWorker; audit and outbox   *)
(* rows are appended by every transaction and are left out here.           *)
(***************************************************************************)
EXTENDS RunLifecycle, FiniteSets

CONSTANTS
    Envelope,          \* identifiers of runs and of their envelopes
    Dimension,         \* consumable dimensions of the tenant
    Source,            \* (producer_id, source_event_id) keys of usage events
    ExtensionKey,      \* (actor, idempotency_key) of extensions
    SettlementKey,     \* (actor, idempotency_key) of settlements
    Reconcile,         \* stands for the keys "reconcile:<reservation id>"
    Limits,            \* structural grants: records [active, total, depth]
    GrantValue, ReserveValue, UsageValue, ExtendValue,  \* quantities requests carry
    Operation,         \* operations workers ask for
    None

ASSUME EnvelopeAssumption == None \notin Envelope

ASSUME ReconcileAssumption == Reconcile \notin SettlementKey

ASSUME LimitsAssumption ==
    /\ Limits \subseteq [active : Nat, total : Nat, depth : Nat]
    /\ None \notin Limits

ASSUME OperationAssumption == Operation \subseteq {"START", "COMPLETE", "FAIL", "TIMEOUT"}

ASSUME QuantityAssumption ==
    /\ GrantValue \subseteq 0..MaxInt64
    /\ ReserveValue \subseteq 0..MaxInt64
    /\ UsageValue \subseteq 0..MaxInt64
    /\ ExtendValue \subseteq 0..MaxInt64

VARIABLES
    run,           \* runs.state, or "ABSENT" before admission
    parent,        \* resource_envelopes.parent_envelope_id
    depth,         \* length of the chain of parents above the envelope
    limits,        \* the envelope's structural grants, None when it has none
    rows,          \* dimensions the envelope holds a grant and a balance for
    granted,       \* resource_envelope_grants.granted_value
    extended,      \* sum of the envelope's resource_extension_items.added_value
    available, consumed, allocated,   \* resource_balances
    reservation,   \* resource_reservations.state of the child, "NONE" for a root
    reserved,      \* resource_reservation_items.reserved_value of the child
    expired,       \* children whose reservation's expires_at has passed
    usage,         \* trusted_usage_entries
    extensions,    \* resource_extensions
    settlements,   \* resource_settlements with their items
    late           \* history: children reserved from an already closed envelope

runVars == <<run, parent, depth, limits>>
grantVars == <<rows, granted, extended>>
balances == <<available, consumed, allocated>>
reservationVars == <<reservation, reserved, expired, late>>
vars == <<runVars, grantVars, balances, reservationVars, usage, extensions, settlements>>

Vector == [Dimension -> Nat]
Zero == [d \in Dimension |-> 0]
Plus(u, v) == [d \in Dimension |-> u[d] + v[d]]
Minus(u, v) == [d \in Dimension |-> u[d] - v[d]]
AtMost(u, v) == \A d \in Dimension : u[d] <= v[d]
Fits(v) == \A d \in Dimension : v[d] <= MaxInt64
\* The amounts of a command are positive, in any order and once per dimension.
Support(v) == {d \in Dimension : v[d] > 0}

Closed == {"SETTLED", "EXPIRED_SETTLED"}
IsClosed(e) == reservation[e] \in Closed
ChildrenOf(p) == {c \in Envelope : parent[c] = p /\ reservation[c] # "NONE"}
OpenChildrenOf(p) == {c \in ChildrenOf(p) : reservation[c] = "OPEN"}

TypeOK ==
    /\ run \in [Envelope -> RunState \cup {"ABSENT"}]
    /\ parent \in [Envelope -> Envelope \cup {None}]
    /\ depth \in [Envelope -> Nat]
    /\ limits \in [Envelope -> Limits \cup {None}]
    /\ rows \in [Envelope -> SUBSET Dimension]
    /\ granted \in [Envelope -> Vector]
    /\ extended \in [Envelope -> Vector]
    /\ available \in [Envelope -> Vector]
    /\ consumed \in [Envelope -> Vector]
    /\ allocated \in [Envelope -> Vector]
    /\ reservation \in [Envelope -> {"NONE", "OPEN"} \cup Closed]
    /\ reserved \in [Envelope -> Vector]
    /\ expired \subseteq Envelope
    /\ usage \subseteq [source : Source, run : Envelope, dim : Dimension, quantity : Nat]
    /\ extensions \subseteq [key : ExtensionKey, run : Envelope, added : Vector]
    /\ settlements \subseteq [child : Envelope, key : SettlementKey \cup {Reconcile},
                              state : TerminalState, consumed : Vector, returned : Vector]
    /\ late \subseteq Envelope

Init ==
    /\ run = [e \in Envelope |-> "ABSENT"]
    /\ parent = [e \in Envelope |-> None]
    /\ depth = [e \in Envelope |-> 0]
    /\ limits = [e \in Envelope |-> None]
    /\ rows = [e \in Envelope |-> {}]
    /\ granted = [e \in Envelope |-> Zero]
    /\ extended = [e \in Envelope |-> Zero]
    /\ available = [e \in Envelope |-> Zero]
    /\ consumed = [e \in Envelope |-> Zero]
    /\ allocated = [e \in Envelope |-> Zero]
    /\ reservation = [e \in Envelope |-> "NONE"]
    /\ reserved = [e \in Envelope |-> Zero]
    /\ expired = {}
    /\ usage = {}
    /\ extensions = {}
    /\ settlements = {}
    /\ late = {}

-----------------------------------------------------------------------------
(* Admission *)

(* AdmitRun: run, envelope, grants and balances of a root run appear       *)
(* together; a grant of value 0 still creates its rows.                    *)
AdmitRun(e, D, g, lim) ==
    /\ run[e] = "ABSENT"
    /\ Support(g) \subseteq D
    /\ run' = [run EXCEPT ![e] = "ADMITTED"]
    /\ limits' = [limits EXCEPT ![e] = lim]
    /\ rows' = [rows EXCEPT ![e] = D]
    /\ granted' = [granted EXCEPT ![e] = g]
    /\ available' = [available EXCEPT ![e] = g]
    /\ UNCHANGED <<parent, depth, extended, consumed, allocated, reservationVars,
                   usage, extensions, settlements>>

(* enforceChildTopology: counts and depth against the parent's structural  *)
(* grants, and no structural grant of the child above the parent's.        *)
Narrows(lim, parentLim) ==
    /\ lim.active <= parentLim.active
    /\ lim.total <= parentLim.total
    /\ lim.depth <= parentLim.depth

(* Slips: limits compared one off, or the depth of the parent compared.    *)
enforceTopologyLoosely(p, lim) ==
    /\ limits[p] # None
    /\ lim # None
    /\ Narrows(lim, limits[p])
    /\ Cardinality(OpenChildrenOf(p)) <= limits[p].active
    /\ Cardinality(ChildrenOf(p)) <= limits[p].total
    /\ depth[p] + 1 <= limits[p].depth

enforceParentDepth(p, lim) ==
    /\ limits[p] # None
    /\ lim # None
    /\ Narrows(lim, limits[p])
    /\ Cardinality(OpenChildrenOf(p)) < limits[p].active
    /\ Cardinality(ChildrenOf(p)) < limits[p].total
    /\ depth[p] <= limits[p].depth

enforceChildTopology(p, lim) ==
    /\ limits[p] # None
    /\ lim # None
    /\ Narrows(lim, limits[p])
    /\ Cardinality(OpenChildrenOf(p)) < limits[p].active
    /\ Cardinality(ChildrenOf(p)) < limits[p].total
    /\ depth[p] + 1 <= limits[p].depth

(* ReserveChildResources: what it requires of the parent's locked balances *)
Reservable(p, amounts) ==
    /\ Support(amounts) # {}
    /\ Support(amounts) \subseteq rows[p]
    /\ AtMost(amounts, available[p])
    /\ Fits(Plus(allocated[p], amounts))

(* AdmitChildRun: AdmitRun for the child with the grants (D, g) of its own *)
(* resolution, the parent link, the topology check and the reservation, in *)
(* one transaction.  The reservation inserts the child's grant for each    *)
(* reserved dimension, which must not exist yet.  Neither the state of the *)
(* parent's run nor that of the parent's own reservation is consulted.     *)
AdmitChildRun(p, c, D, g, lim, amounts) ==
    /\ run[p] # "ABSENT"
    /\ run[c] = "ABSENT"
    /\ Support(g) \subseteq D
    /\ enforceChildTopology(p, lim)
    /\ Reservable(p, amounts)
    /\ D \cap Support(amounts) = {}
    /\ run' = [run EXCEPT ![c] = "ADMITTED"]
    /\ parent' = [parent EXCEPT ![c] = p]
    /\ depth' = [depth EXCEPT ![c] = depth[p] + 1]
    /\ limits' = [limits EXCEPT ![c] = lim]
    /\ rows' = [rows EXCEPT ![c] = D \cup Support(amounts)]
    /\ granted' = [granted EXCEPT ![c] = Plus(g, amounts)]
    /\ available' = [available EXCEPT ![p] = Minus(@, amounts), ![c] = Plus(g, amounts)]
    /\ allocated' = [allocated EXCEPT ![p] = Plus(@, amounts)]
    /\ reservation' = [reservation EXCEPT ![c] = "OPEN"]
    /\ reserved' = [reserved EXCEPT ![c] = amounts]
    /\ late' = IF IsClosed(p) THEN late \cup {c} ELSE late
    /\ UNCHANGED <<extended, consumed, expired, usage, extensions, settlements>>

-----------------------------------------------------------------------------
(* Run transitions the ledger observes *)

(* MutateWorkerRun and WorkerRunOperation.Target: a leased worker starts,  *)
(* completes, fails or times out the run.                                  *)
WorkerTarget ==
    [START |-> <<"RUNNING", "WORKER">>, COMPLETE |-> <<"COMPLETED", "WORKER">>,
     FAIL |-> <<"FAILED", "WORKER">>, TIMEOUT |-> <<"TIMED_OUT", "SYSTEM">>]

MayMove(e, to, actor) ==
    /\ run[e] \in RunState
    /\ ~Terminal(run[e])
    /\ transitionAllowed(run[e], to)
    /\ actorAllowed(run[e], to, actor)

MutateWorkerRun(e, operation) ==
    /\ run[e] # "PAUSED_FOR_BUDGET"      \* no lease survives the pause
    /\ MayMove(e, WorkerTarget[operation][1], WorkerTarget[operation][2])
    /\ run' = [run EXCEPT ![e] = WorkerTarget[operation][1]]
    /\ UNCHANGED <<parent, depth, limits, grantVars, balances, reservationVars,
                   usage, extensions, settlements>>

CancelRun(e) ==
    /\ MayMove(e, "CANCELLED", "CALLER")
    /\ run' = [run EXCEPT ![e] = "CANCELLED"]
    /\ UNCHANGED <<parent, depth, limits, grantVars, balances, reservationVars,
                   usage, extensions, settlements>>

-----------------------------------------------------------------------------
(* Metering *)

(* Slip: a repeated source event is applied again. *)
UsageAcceptedAgain(s, e, d, q) ==
    /\ d \in rows[e]
    /\ run[e] = "RUNNING"
    /\ ~IsClosed(e)
    /\ q <= available[e][d]
    /\ consumed[e][d] + q <= MaxInt64

(* RecordTrustedUsage: a source event that is already recorded is answered *)
(* from the ledger (or refused when its content differs), both without a   *)
(* change.  A new one needs a RUNNING run, a reservation that is not       *)
(* closed and enough availability.                                         *)
UsageAccepted(s, e, d, q) ==
    /\ \A u \in usage : u.source # s
    /\ d \in rows[e]
    /\ run[e] = "RUNNING"
    /\ ~IsClosed(e)
    /\ q <= available[e][d]
    /\ consumed[e][d] + q <= MaxInt64

(* applyBudgetExhaustion: BUDGET_EXHAUSTED is passed through within the    *)
(* transaction; the run rests in the state the disposition selects.        *)
applyBudgetExhaustion(e, disposition) ==
    [run EXCEPT ![e] = IF disposition = "PAUSE" THEN "PAUSED_FOR_BUDGET" ELSE "FAILED_BUDGET"]

RecordTrustedUsage(s, e, d, q, disposition) ==
    /\ UsageAccepted(s, e, d, q)
    /\ available' = [available EXCEPT ![e][d] = @ - q]
    /\ consumed' = [consumed EXCEPT ![e][d] = @ + q]
    /\ usage' = usage \cup {[source |-> s, run |-> e, dim |-> d, quantity |-> q]}
    /\ run' = IF available[e][d] = q THEN applyBudgetExhaustion(e, disposition) ELSE run
    /\ UNCHANGED <<parent, depth, limits, grantVars, allocated, reservationVars,
                   extensions, settlements>>

-----------------------------------------------------------------------------
(* Extension *)

(* Slip: a finished run is extended. *)
ExtendableAlways(k, e, added) ==
    /\ \A x \in extensions : x.key # k
    /\ run[e] # "ABSENT"
    /\ Support(added) \subseteq rows[e]
    /\ Fits(Plus(Plus(granted[e], extended[e]), added))
    /\ Fits(Plus(available[e], added))

(* ExtendResources for a run that carries a deadline: additions may be     *)
(* empty when the request extends the deadline only.  A paused run goes    *)
(* back to RUNNING whatever the request adds.                              *)
Extendable(k, e, added) ==
    /\ \A x \in extensions : x.key # k
    /\ run[e] # "ABSENT"
    /\ ~Terminal(run[e])
    /\ Support(added) \subseteq rows[e]
    /\ Fits(Plus(Plus(granted[e], extended[e]), added))
    /\ Fits(Plus(available[e], added))

Resumed(e) == IF run[e] = "PAUSED_FOR_BUDGET" THEN [run EXCEPT ![e] = "RUNNING"] ELSE run

ExtendResources(k, e, added) ==
    /\ Extendable(k, e, added)
    /\ extended' = [extended EXCEPT ![e] = Plus(@, added)]
    /\ available' = [available EXCEPT ![e] = Plus(@, added)]
    /\ extensions' = extensions \cup {[key |-> k, run |-> e, added |-> added]}
    /\ run' = Resumed(e)
    /\ UNCHANGED <<parent, depth, limits, rows, granted, consumed, allocated, reservationVars,
                   usage, settlements>>

-----------------------------------------------------------------------------
(* Settlement and reconciliation *)

(* Slip: open grandchildren are not looked for. *)
BalanceSettlesEarly(c) ==
    \A d \in Support(reserved[c]) : available[c][d] <= reserved[c][d]

(* The items both operations lock: for each reserved dimension the child   *)
(* has nothing allocated and no more available than was reserved.          *)
BalanceSettles(c) ==
    \A d \in Support(reserved[c]) :
        allocated[c][d] = 0 /\ available[c][d] <= reserved[c][d]

Returned(c) == [d \in Dimension |-> IF reserved[c][d] > 0 THEN available[c][d] ELSE 0]

(* Slip: the child's own consumption is charged, extensions included.      *)
ChargedConsumption(c) == consumed[c]

Charged(c) == Minus(reserved[c], Returned(c))

(* The parent's conditional balance update: moves the reserved amount out  *)
(* of allocated_open into available and direct_consumed.                   *)
CreditAccepted(c) ==
    /\ Fits(Plus(available[parent[c]], Returned(c)))
    /\ Fits(Plus(consumed[parent[c]], Charged(c)))
    /\ AtMost(reserved[c], allocated[parent[c]])

(* Slips: nothing is returned; only the charge, or every sibling's share,  *)
(* leaves allocated_open.                                                  *)
CreditWithoutReturn(c) ==
    /\ available' = available
    /\ consumed' = [consumed EXCEPT ![parent[c]] = Plus(@, Charged(c))]
    /\ allocated' = [allocated EXCEPT ![parent[c]] = Minus(@, reserved[c])]

CreditReleasingCharge(c) ==
    /\ available' = [available EXCEPT ![parent[c]] = Plus(@, Returned(c))]
    /\ consumed' = [consumed EXCEPT ![parent[c]] = Plus(@, Charged(c))]
    /\ allocated' = [allocated EXCEPT ![parent[c]] = Minus(@, Charged(c))]

CreditReleasingSiblings(c) ==
    /\ available' = [available EXCEPT ![parent[c]] = Plus(@, Returned(c))]
    /\ consumed' = [consumed EXCEPT ![parent[c]] = Plus(@, Charged(c))]
    /\ allocated' = [allocated EXCEPT ![parent[c]] = Zero]

CreditParent(c) ==
    /\ available' = [available EXCEPT ![parent[c]] = Plus(@, Returned(c))]
    /\ consumed' = [consumed EXCEPT ![parent[c]] = Plus(@, Charged(c))]
    /\ allocated' = [allocated EXCEPT ![parent[c]] = Minus(@, reserved[c])]

(* The unique settlement row of a reservation and its items                *)
InsertSettlement(c, k, state) ==
    /\ \A s \in settlements : s.child # c
    /\ settlements' = settlements \cup
           {[child |-> c, key |-> k, state |-> state,
             consumed |-> Charged(c), returned |-> Returned(c)]}

SettleReservation(c, k) ==
    /\ \A s \in settlements : s.key # k
    /\ reservation[c] = "OPEN"
    /\ Terminal(run[c])
    /\ BalanceSettles(c)
    /\ CreditAccepted(c)
    /\ InsertSettlement(c, k, run[c])
    /\ CreditParent(c)
    /\ reservation' = [reservation EXCEPT ![c] = "SETTLED"]
    /\ UNCHANGED <<runVars, grantVars, reserved, expired, usage, extensions, late>>

(* The reservation's expires_at passes. *)
ReservationExpires(c) ==
    /\ reservation[c] = "OPEN"
    /\ c \notin expired
    /\ expired' = expired \cup {c}
    /\ UNCHANGED <<runVars, grantVars, balances, reservation, reserved, late,
                   usage, extensions, settlements>>

(* ReconcileNextReservation's candidates.  The query takes the first that  *)
(* is not locked by a concurrent transaction, so any of them can be taken. *)
Abandoned(c) ==
    c \in expired /\ run[c] \in {"ADMITTED", "RUNNING", "PAUSED_FOR_BUDGET"}

Reconcilable(c) ==
    /\ reservation[c] = "OPEN"
    /\ run[c] \in TerminalState \ {"REJECTED"} \/ Abandoned(c)
    /\ allocated[c] = Zero

(* The query evaluates its predicate on a snapshot before it has the locks. *)
(* PostgreSQL evaluates it again on the locked reservation and run; the    *)
(* child's balances are read again FOR UPDATE and refused when something   *)
(* is allocated, so a stale snapshot ends in a step that is not taken.     *)
ReconcileNextReservation(c) ==
    /\ Reconcilable(c)
    /\ BalanceSettles(c)
    /\ CreditAccepted(c)
    /\ LET final == IF Terminal(run[c]) THEN run[c] ELSE "TIMED_OUT"
       IN  /\ InsertSettlement(c, Reconcile, final)
           /\ run' = [run EXCEPT ![c] = final]
    /\ CreditParent(c)
    /\ reservation' =
           [reservation EXCEPT ![c] = IF Terminal(run[c]) THEN "SETTLED" ELSE "EXPIRED_SETTLED"]
    /\ UNCHANGED <<parent, depth, limits, grantVars, reserved, expired, usage, extensions, late>>

-----------------------------------------------------------------------------
Next ==
    \/ \E e \in Envelope, D \in SUBSET Dimension, g \in [Dimension -> GrantValue],
          lim \in Limits \cup {None} : AdmitRun(e, D, g, lim)
    \/ \E p, c \in Envelope, D \in SUBSET Dimension, g \in [Dimension -> GrantValue],
          lim \in Limits \cup {None}, amounts \in [Dimension -> ReserveValue] :
          AdmitChildRun(p, c, D, g, lim, amounts)
    \/ \E e \in Envelope, operation \in Operation : MutateWorkerRun(e, operation)
    \/ \E e \in Envelope : CancelRun(e)
    \/ \E s \in Source, e \in Envelope, d \in Dimension, q \in UsageValue,
          disposition \in {"PAUSE", "FAIL"} : RecordTrustedUsage(s, e, d, q, disposition)
    \/ \E k \in ExtensionKey, e \in Envelope, added \in [Dimension -> ExtendValue] :
          ExtendResources(k, e, added)
    \/ \E c \in Envelope, k \in SettlementKey : SettleReservation(c, k)
    \/ \E c \in Envelope : ReservationExpires(c)
    \/ \E c \in Envelope : ReconcileNextReservation(c)

Spec == Init /\ [][Next]_vars

-----------------------------------------------------------------------------
(* Properties *)

(* The conservation equation: for every envelope and dimension what is     *)
(* available, consumed and allocated to open children adds up to what was  *)
(* granted and added by extensions, and fits a signed 64-bit column.  All  *)
(* of admission, reservation, metering, extension and settlement move      *)
(* amounts between these columns.                                          *)
Conservation ==
    \A e \in Envelope, d \in Dimension :
        /\ available[e][d] + consumed[e][d] + allocated[e][d] = granted[e][d] + extended[e][d]
        /\ granted[e][d] + extended[e][d] <= MaxInt64

(* A reservation is settled exactly once, by SettleReservation or by       *)
(* ReconcileNextReservation but never both: a closed reservation has one   *)
(* settlement, taken in the child's final state, whose consumed and        *)
(* returned items split the reserved vector; an open one has none.         *)
SettledExactlyOnce ==
    /\ \A s \in settlements :
          /\ IsClosed(s.child)
          /\ run[s.child] = s.state
          /\ Plus(s.consumed, s.returned) = reserved[s.child]
    /\ \A s, t \in settlements : s.child = t.child => s = t
    /\ \A c \in Envelope : IsClosed(c) => \E s \in settlements : s.child = c

(* Delegation only narrows: a child sits one level below its parent, at a  *)
(* depth the parent's delegation_depth allows, and none of its structural  *)
(* grants exceeds the parent's; so no chain of admissions grows deeper     *)
(* than its root was granted (enforceChildTopology).                       *)
DelegationNarrows ==
    \A c \in Envelope : reservation[c] # "NONE" =>
        /\ parent[c] \in Envelope
        /\ limits[parent[c]] \in Limits
        /\ limits[c] \in Limits
        /\ Narrows(limits[c], limits[parent[c]])
        /\ depth[c] = depth[parent[c]] + 1
        /\ depth[c] <= limits[parent[c]].depth

(* The counts of enforceChildTopology: a parent never has more open        *)
(* children than active_children, nor more children over its lifetime than *)
(* total_children.                                                         *)
TopologyWithinLimits ==
    \A p \in Envelope : ChildrenOf(p) # {} =>
        /\ Cardinality(OpenChildrenOf(p)) <= limits[p].active
        /\ Cardinality(ChildrenOf(p)) <= limits[p].total

UsageOf(e) == {u \in usage : u.run = e}
SettlementsOf(c) == {s \in settlements : s.child = c}

(* A closed reservation is final: no later metering, extension, transition *)
(* or settlement touches the child, so nothing can be spent after its      *)
(* capacity went back to the parent.  The handlers reach this through the  *)
(* child's terminal state, not only through the reservation's.             *)
FrozenStep ==
    \A c \in Envelope : IsClosed(c) =>
        /\ reservation'[c] = reservation[c]
        /\ run'[c] = run[c]
        /\ extended'[c] = extended[c]
        /\ consumed'[c] = consumed[c] \/ \E g \in OpenChildrenOf(c) : reservation'[g] \in Closed
        /\ UsageOf(c)' = UsageOf(c)
        /\ SettlementsOf(c)' = SettlementsOf(c)

ClosedChildFrozen == [][FrozenStep]_vars

(* What is credited back to a parent comes from exactly one child: when    *)
(* open allocation of an envelope falls, one open child of it closes in    *)
(* that step and the fall is that child's reserved vector.                 *)
CreditStep ==
    \A p \in Envelope :
        (\E d \in Dimension : allocated'[p][d] < allocated[p][d]) =>
            \E c \in OpenChildrenOf(p) :
                /\ reservation'[c] \in Closed
                /\ allocated'[p] = Minus(allocated[p], reserved[c])

CreditFromOneChild == [][CreditStep]_vars

(* Every step moves a run only along the lifecycle of domain/run.go, where *)
(* the exhaustion of a budget passes through BUDGET_EXHAUSTED within one   *)
(* transaction; terminal states are never left.                            *)
LifecycleStep ==
    \A e \in Envelope :
        \/ run'[e] = run[e]
        \/ run[e] = "ABSENT" /\ run'[e] = "ADMITTED"
        \/ Step(run[e], run'[e])
        \/ Step(run[e], "BUDGET_EXHAUSTED") /\ Step("BUDGET_EXHAUSTED", run'[e])

LifecycleRespected == [][LifecycleStep]_vars

(* The contract's promise for reconciliation (docs/contracts/              *)
(* resource-accounting.md:172, "finds terminal children with open          *)
(* reservations"; :202, "without lost or duplicated credit"): the          *)
(* reservation of a terminal child without open descendants can be closed. *)
(* ReconcileNextReservation and SettleReservation both refuse it for good  *)
(* when extensions left more available than was reserved.                  *)
TerminalChildSettles ==
    \A c \in Envelope :
        reservation[c] = "OPEN" /\ Terminal(run[c]) /\ allocated[c] = Zero => BalanceSettles(c)

=============================================================================
