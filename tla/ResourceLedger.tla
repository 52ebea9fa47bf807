--------------------------- MODULE ResourceLedger ---------------------------
(***************************************************************************)
(* Properties of ResourceAccounting that add up a ledger or a tree of      *)
(* envelopes.  Every sum is the sum of a function over a finite set.       *)
(***************************************************************************)
EXTENDS ResourceAccounting, Functions

(* Envelope identifiers are UUIDs, of which there are finitely many.       *)
ASSUME FiniteAssumption == IsFiniteSet(Envelope)

(* What allocated_open of a parent stands for: it is the sum of the        *)
(* amounts reserved by its open children.  AdmitChildRun adds a term,      *)
(* SettleReservation and ReconcileNextReservation remove one.              *)
AllocationBacked ==
    \A p \in Envelope, d \in Dimension :
        allocated[p][d] =
            SumFunctionOnSet([c \in Envelope |-> reserved[c][d]], OpenChildrenOf(p))

(* The settlements of the closed children of an envelope *)
ChargesTo(e) == {s \in settlements : parent[s.child] = e}

(* The ledgers suffice to recompute consumption: direct_consumed of an     *)
(* envelope is its trusted usage plus what the settlements of its closed   *)
(* children charged to it.                                                 *)
ConsumptionExplained ==
    \A e \in Envelope, d \in Dimension :
        consumed[e][d] =
            SumFunctionOnSet([u \in usage |-> u.quantity], {u \in UsageOf(e) : u.dim = d})
            + SumFunctionOnSet([s \in settlements |-> s.consumed[d]], ChargesTo(e))

(* Capacity issued from outside the tree of reservations: grants of the    *)
(* resolutions themselves and extensions.                                  *)
Issued(d) ==
    SumFunctionOnSet([e \in Envelope |-> granted[e][d] - reserved[e][d] + extended[e][d]], Envelope)

(* Capacity already metered, and capacity that can still be metered: that  *)
(* of envelopes whose own reservation has not been closed.                 *)
Metered(d) == SumFunctionOnSet([u \in usage |-> u.quantity], {u \in usage : u.dim = d})

AvailableIn(S, d) == SumFunctionOnSet([e \in Envelope |-> available[e][d]], S)

Spendable(d) == AvailableIn({e \in Envelope : ~IsClosed(e)}, d)

(* Settlement returns the reserved dimensions only: what a closed child    *)
(* held in others, granted by its own resolution, goes to nobody.          *)
Forfeited(d) == AvailableIn({e \in Envelope : IsClosed(e) /\ reserved[e][d] = 0}, d)

(* Nothing is created or lost across the whole tree: issued capacity is    *)
(* metered, still spendable in some live envelope, or forfeited, however   *)
(* reservations, extensions, settlements and expiries interleave, as long  *)
(* as no child was reserved from an envelope that is already closed.       *)
TreeConservation ==
    late = {} => \A d \in Dimension : Issued(d) = Metered(d) + Spendable(d) + Forfeited(d)

(* Settlement and reconciliation never fail on the parent's side: while a  *)
(* child's reservation is open, the parent's open allocation covers it and *)
(* the credit cannot overflow, so the conditional update of the parent's   *)
(* balance (CreditAccepted) and the unique settlement row never refuse a   *)
(* child whose own balance settles.                                        *)
CreditNeverRefused ==
    \A c \in Envelope : reservation[c] = "OPEN" /\ BalanceSettles(c) =>
        CreditAccepted(c) /\ \A s \in settlements : s.child # c

(* The contract's promise (docs/contracts/resource-accounting.md:198, "No  *)
(* interleaving oversubscribes consumables"): metered and spendable        *)
(* capacity never exceed what was issued.  A settled child keeps its       *)
(* available balance, and AdmitChildRun looks at neither the parent's run  *)
(* nor its reservation, so capacity already returned can be reserved again.*)
NoOversubscription ==
    \A d \in Dimension : Metered(d) + Spendable(d) <= Issued(d)

=============================================================================
