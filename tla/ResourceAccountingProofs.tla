---------------------- MODULE ResourceAccountingProofs ----------------------
(***************************************************************************)
(* Proofs, for every set of envelopes, dimensions and keys and every bound *)
(* on quantities, of the safety properties of ResourceAccounting.          *)
(*                                                                         *)
(* None of the properties is inductive alone.  IInv adds what connects     *)
(* them: an envelope that is not admitted yet holds nothing and nothing    *)
(* refers to it.  First: admission, the worker's transactions,             *)
(* cancellation, recorded usage and extensions preserve it; then the       *)
(* transactions that settle.                                               *)
(*                                                                         *)
(* The second half says how each transaction changes counts of children    *)
(* and sums over children and ledgers.  The laws of finite sets and of     *)
(* sums over them are the hypothesis FiniteLaws of its lemmas;             *)
(* ResourceLedgerProofs proves FiniteLaws and the theorems.                *)
(***************************************************************************)
EXTENDS ResourceLedger, TLAPS

(* An envelope that does not exist yet has empty balances and no           *)
(* reservation.                                                            *)
Fresh ==
    \A e \in Envelope : run[e] = "ABSENT" =>
        /\ reservation[e] = "NONE"
        /\ \A d \in Dimension :
              /\ granted[e][d] = 0 /\ extended[e][d] = 0
              /\ available[e][d] = 0 /\ consumed[e][d] = 0 /\ allocated[e][d] = 0

(* A reservation leads to an admitted parent other than the child itself.  *)
Rooted ==
    \A c \in Envelope : reservation[c] # "NONE" =>
        parent[c] \in Envelope /\ parent[c] # c /\ run[parent[c]] # "ABSENT"

IInv ==
    /\ TypeOK
    /\ Fresh
    /\ Rooted
    /\ Conservation
    /\ SettledExactlyOnce
    /\ DelegationNarrows

(* The transaction A preserves the invariant.                              *)
Keeps(A) == IInv /\ A => IInv'

-----------------------------------------------------------------------------
(* Vectors *)

(* Plus adds component by component and stays in Vector. *)
LEMMA PlusVector ==
    ASSUME NEW u \in Vector, NEW v \in Vector
    PROVE  /\ Plus(u, v) \in Vector
           /\ \A d \in Dimension : Plus(u, v)[d] = u[d] + v[d]
BY DEF Plus, Vector

(* Minus subtracts component by component and stays in Vector when nothing *)
(* would go below zero.                                                    *)
LEMMA MinusVector ==
    ASSUME NEW u \in Vector, NEW v \in Vector, AtMost(v, u)
    PROVE  /\ Minus(u, v) \in Vector
           /\ \A d \in Dimension : Minus(u, v)[d] = u[d] - v[d]
BY DEF Minus, Vector, AtMost

(* The quantities requests carry are vectors that fit the columns.         *)
LEMMA RequestVector ==
    /\ [Dimension -> GrantValue] \subseteq Vector
    /\ [Dimension -> ReserveValue] \subseteq Vector
    /\ [Dimension -> ExtendValue] \subseteq Vector
    /\ \A g \in [Dimension -> GrantValue], d \in Dimension : g[d] <= MaxInt64
    /\ \A a \in [Dimension -> ReserveValue], d \in Dimension : a[d] <= MaxInt64
<1>1. 0..MaxInt64 \subseteq Nat /\ \A n \in 0..MaxInt64 : n <= MaxInt64
  BY MaxInt64Assumption
<1> QED
  BY <1>1, QuantityAssumption, Zenon DEF Vector

(* A component outside the support is zero. *)
LEMMA OutsideSupport ==
    ASSUME NEW v \in Vector, NEW d \in Dimension, d \notin Support(v)
    PROVE  v[d] = 0
BY DEF Vector, Support

(* The initial state satisfies the invariant. *)
LEMMA InitIInv == Init => IInv
<1> SUFFICES ASSUME Init PROVE IInv
  BY Zenon
<1>1. Zero \in Vector /\ \A d \in Dimension : Zero[d] = 0
  BY Zenon DEF Zero, Vector
<1>2. TypeOK
  BY <1>1, Zenon DEF Init, TypeOK
<1>3. Fresh /\ Conservation
  BY <1>1, MaxInt64Assumption DEF Init, Fresh, Conservation
<1>4. Rooted /\ SettledExactlyOnce /\ DelegationNarrows
  BY Zenon DEF Init, Rooted, SettledExactlyOnce, DelegationNarrows, IsClosed, Closed
<1> QED
  BY <1>2, <1>3, <1>4, Zenon DEF IInv

-----------------------------------------------------------------------------
(* Admission *)

(* AdmitRun preserves the invariant. *)
LEMMA AdmitRunIInv ==
    ASSUME NEW e \in Envelope, NEW D \in SUBSET Dimension,
           NEW g \in [Dimension -> GrantValue], NEW lim \in Limits \cup {None}
    PROVE  Keeps(AdmitRun(e, D, g, lim))
<1> SUFFICES ASSUME IInv, AdmitRun(e, D, g, lim) PROVE IInv'
  BY Zenon DEF Keeps
<1> USE DEF AdmitRun, IInv, reservationVars
<1>1. g \in Vector /\ \A d \in Dimension : g[d] <= MaxInt64
  BY RequestVector, Zenon
<1>2. TypeOK'
  BY <1>1, Zenon DEF TypeOK, RunState
<1>3. Fresh'
  BY DEF Fresh, TypeOK
<1>4. Rooted'
  BY Zenon DEF Rooted, TypeOK
<1>5. Conservation'
  BY <1>1, MaxInt64Assumption DEF Conservation, Fresh, TypeOK, Vector
<1>6. SettledExactlyOnce'
  BY DEF SettledExactlyOnce, TypeOK, IsClosed, TerminalState
<1>7. DelegationNarrows'
  BY DEF DelegationNarrows, Rooted, Fresh, TypeOK
<1> QED
  BY <1>2, <1>3, <1>4, <1>5, <1>6, <1>7, Zenon

(* AdmitChildRun preserves the invariant: what leaves the parent's         *)
(* availability is what its allocation gains and the child is granted.     *)
LEMMA AdmitChildRunIInv ==
    ASSUME NEW p \in Envelope, NEW c \in Envelope, NEW D \in SUBSET Dimension,
           NEW g \in [Dimension -> GrantValue], NEW lim \in Limits \cup {None},
           NEW amounts \in [Dimension -> ReserveValue]
    PROVE  Keeps(AdmitChildRun(p, c, D, g, lim, amounts))
<1> SUFFICES ASSUME IInv, AdmitChildRun(p, c, D, g, lim, amounts) PROVE IInv'
  BY Zenon DEF Keeps
<1>0. TypeOK /\ Fresh /\ Rooted /\ Conservation /\ SettledExactlyOnce /\ DelegationNarrows
  BY Zenon DEF IInv
<1>1. p # c
  BY Zenon DEF AdmitChildRun
<1>2. /\ g \in Vector /\ amounts \in Vector
      /\ available[p] \in Vector /\ allocated[p] \in Vector
      /\ AtMost(amounts, available[p])
  BY <1>0, RequestVector, Zenon DEF TypeOK, AdmitChildRun, Reservable
<1>3. /\ Minus(available[p], amounts) \in Vector
      /\ \A d \in Dimension : Minus(available[p], amounts)[d] = available[p][d] - amounts[d]
  BY <1>2, MinusVector, Zenon
<1>4. /\ Plus(allocated[p], amounts) \in Vector
      /\ \A d \in Dimension : Plus(allocated[p], amounts)[d] = allocated[p][d] + amounts[d]
  BY <1>2, PlusVector, Zenon
<1>5. /\ Plus(g, amounts) \in Vector
      /\ \A d \in Dimension : Plus(g, amounts)[d] = g[d] + amounts[d]
  BY <1>2, PlusVector, Zenon
<1>6. \A d \in Dimension : Plus(g, amounts)[d] <= MaxInt64
  <2> TAKE d \in Dimension
  <2>1. g[d] <= MaxInt64 /\ amounts[d] <= MaxInt64 /\ g[d] \in Nat /\ amounts[d] \in Nat
    BY <1>2, RequestVector, Zenon DEF Vector
  <2>2. d \notin Support(g) \/ d \notin Support(amounts)
    BY Zenon DEF AdmitChildRun
  <2>3. g[d] = 0 \/ amounts[d] = 0
    BY <1>2, <2>2, OutsideSupport, Zenon
  <2> QED
    BY <1>5, <2>1, <2>3, MaxInt64Assumption
<1>7. TypeOK'
  BY <1>0, <1>2, <1>3, <1>4, <1>5 DEF TypeOK, AdmitChildRun, RunState, Support
<1>8. Fresh'
  BY <1>0, <1>1, Zenon DEF Fresh, TypeOK, AdmitChildRun
<1>9. Rooted'
  BY <1>0, <1>1, Zenon DEF Rooted, TypeOK, AdmitChildRun
<1>10. Conservation'
  <2> SUFFICES ASSUME NEW e \in Envelope, NEW d \in Dimension
               PROVE  /\ available'[e][d] + consumed'[e][d] + allocated'[e][d]
                            = granted'[e][d] + extended'[e][d]
                      /\ granted'[e][d] + extended'[e][d] <= MaxInt64
    BY <1>0, Zenon DEF Conservation
  <2>1. CASE e = p
    BY <1>0, <1>1, <1>2, <1>3, <1>4, <2>1 DEF Conservation, TypeOK, AdmitChildRun, Vector
  <2>2. CASE e = c
    BY <1>0, <1>1, <1>2, <1>5, <1>6, <2>2 DEF Conservation, Fresh, TypeOK, AdmitChildRun, Vector
  <2>3. CASE e # p /\ e # c
    BY <1>0, <2>3, Zenon DEF Conservation, TypeOK, AdmitChildRun, Vector
  <2> QED
    BY <2>1, <2>2, <2>3, Zenon
<1>11. SettledExactlyOnce'
  BY <1>0 DEF SettledExactlyOnce, Fresh, TypeOK, IsClosed, Closed, AdmitChildRun
<1>12. DelegationNarrows'
  <2>1. /\ limits[p] \in Limits /\ lim \in Limits
        /\ Narrows(lim, limits[p])
        /\ depth[p] + 1 <= limits[p].depth
    BY <1>0, Zenon DEF AdmitChildRun, enforceChildTopology, TypeOK
  <2>2. \A k \in Envelope : reservation[k] # "NONE" => k # c /\ parent[k] # c
    BY <1>0 DEF Fresh, Rooted, AdmitChildRun
  <2> QED
    BY <1>0, <1>1, <2>1, <2>2, Zenon DEF DelegationNarrows, TypeOK, AdmitChildRun
<1> QED
  BY <1>7, <1>8, <1>9, <1>10, <1>11, <1>12, Zenon DEF IInv

-----------------------------------------------------------------------------
(* Transitions, metering and extension *)

(* A closed child's run is in the terminal state its settlement recorded,  *)
(* so a run that may still move, be metered or extended is not closed.     *)
LEMMA ClosedIsTerminal ==
    ASSUME IInv, NEW c \in Envelope, IsClosed(c)
    PROVE  Terminal(run[c])
BY DEF IInv, TypeOK, SettledExactlyOnce, Terminal

(* A step that only moves runs, from states that are neither absent nor    *)
(* terminal to states of the lifecycle, preserves the invariant.           *)
RunMoves(e, to) ==
    /\ run[e] # "ABSENT" /\ ~Terminal(run[e])
    /\ run' = [run EXCEPT ![e] = to]
    /\ UNCHANGED <<parent, depth, limits, grantVars, balances, reservationVars,
                   usage, extensions, settlements>>

(* A step that only moves a run leaves the balances alone.                 *)
LEMMA RunMoveIInv ==
    ASSUME NEW e \in Envelope, NEW to \in RunState
    PROVE  Keeps(RunMoves(e, to))
<1> SUFFICES ASSUME IInv, RunMoves(e, to) PROVE IInv'
  BY Zenon DEF Keeps
<1> USE DEF RunMoves
<1> USE DEF grantVars, balances, reservationVars
<1>0. TypeOK /\ Fresh /\ Rooted /\ Conservation /\ SettledExactlyOnce /\ DelegationNarrows
  BY Zenon DEF IInv
<1>1. ~IsClosed(e)
  BY <1>0, ClosedIsTerminal, Zenon
<1>2. to # "ABSENT"
  BY Zenon DEF RunState
<1>3. TypeOK'
  BY <1>0, Zenon DEF TypeOK
<1>4. Fresh' /\ Rooted'
  BY <1>0, <1>2, Zenon DEF Fresh, Rooted, TypeOK
<1>5. Conservation'
  BY <1>0, Zenon DEF Conservation
<1>6. SettledExactlyOnce'
  BY <1>0, <1>1, Zenon DEF SettledExactlyOnce, TypeOK, IsClosed
<1>7. DelegationNarrows'
  BY <1>0, Zenon DEF DelegationNarrows
<1> QED
  BY <1>3, <1>4, <1>5, <1>6, <1>7, Zenon DEF IInv

(* MutateWorkerRun preserves the invariant. *)
LEMMA MutateWorkerRunIInv ==
    ASSUME NEW e \in Envelope, NEW operation \in Operation
    PROVE  Keeps(MutateWorkerRun(e, operation))
<1> SUFFICES ASSUME IInv, MutateWorkerRun(e, operation) PROVE IInv'
  BY Zenon DEF Keeps
<1>1. WorkerTarget[operation][1] \in RunState
  BY OperationAssumption DEF WorkerTarget, RunState
<1>2. run[e] # "ABSENT" /\ ~Terminal(run[e])
  BY Zenon DEF MutateWorkerRun, MayMove, RunState
<1> QED
  BY <1>1, <1>2, RunMoveIInv, Zenon DEF Keeps, RunMoves, MutateWorkerRun

(* CancelRun preserves the invariant. *)
LEMMA CancelRunIInv ==
    ASSUME NEW e \in Envelope
    PROVE  Keeps(CancelRun(e))
<1> SUFFICES ASSUME IInv, CancelRun(e) PROVE IInv'
  BY Zenon DEF Keeps
<1>1. "CANCELLED" \in RunState
  BY Zenon DEF RunState
<1>2. run[e] # "ABSENT" /\ ~Terminal(run[e])
  BY Zenon DEF CancelRun, MayMove, RunState
<1> QED
  BY <1>1, <1>2, RunMoveIInv, Zenon DEF Keeps, RunMoves, CancelRun

(* RecordTrustedUsage preserves the invariant: it moves the quantity from  *)
(* availability to consumption of one dimension of a running envelope.     *)
LEMMA RecordTrustedUsageIInv ==
    ASSUME NEW s \in Source, NEW e \in Envelope, NEW d \in Dimension,
           NEW q \in UsageValue, NEW disposition \in {"PAUSE", "FAIL"}
    PROVE  Keeps(RecordTrustedUsage(s, e, d, q, disposition))
<1> SUFFICES ASSUME IInv, RecordTrustedUsage(s, e, d, q, disposition) PROVE IInv'
  BY Zenon DEF Keeps
<1> USE DEF grantVars, reservationVars
<1>0. TypeOK /\ Fresh /\ Rooted /\ Conservation /\ SettledExactlyOnce /\ DelegationNarrows
  BY Zenon DEF IInv
<1>1. /\ run[e] = "RUNNING" /\ ~IsClosed(e)
      /\ q <= available[e][d]
  BY Zenon DEF RecordTrustedUsage, UsageAccepted
<1>2. q \in Nat
  BY QuantityAssumption, MaxInt64Assumption
<1>3. /\ run' \in [Envelope -> RunState \cup {"ABSENT"}]
      /\ run'[e] # "ABSENT"
      /\ \A k \in Envelope : k # e => run'[k] = run[k]
  BY <1>0, <1>1, Zenon DEF RecordTrustedUsage, applyBudgetExhaustion, TypeOK, RunState
<1>4. /\ available' \in [Envelope -> Vector] /\ consumed' \in [Envelope -> Vector]
      /\ available'[e][d] = available[e][d] - q
      /\ consumed'[e][d] = consumed[e][d] + q
      /\ \A k \in Envelope, f \in Dimension : k # e \/ f # d =>
            available'[k][f] = available[k][f] /\ consumed'[k][f] = consumed[k][f]
  BY <1>0, <1>1, <1>2 DEF RecordTrustedUsage, TypeOK, Vector
<1>5. TypeOK'
  <2>1. usage' \subseteq [source : Source, run : Envelope, dim : Dimension, quantity : Nat]
    BY <1>0, <1>2, SMTT(30) DEF RecordTrustedUsage, TypeOK
  <2> QED
    BY <1>0, <1>3, <1>4, <2>1, Zenon DEF RecordTrustedUsage, TypeOK
<1>6. Fresh'
  BY <1>0, <1>1, <1>3, <1>4 DEF Fresh, RecordTrustedUsage
<1>7. Rooted'
  BY <1>0, <1>3, Zenon DEF Rooted, RecordTrustedUsage
<1>8. Conservation'
  BY <1>0, <1>1, <1>2, <1>4, SMTT(30) DEF Conservation, RecordTrustedUsage, TypeOK, Vector
<1>9. SettledExactlyOnce'
  BY <1>0, <1>1, <1>3 DEF SettledExactlyOnce, RecordTrustedUsage, TypeOK, IsClosed
<1>10. DelegationNarrows'
  BY <1>0, Zenon DEF DelegationNarrows, RecordTrustedUsage
<1> QED
  BY <1>5, <1>6, <1>7, <1>8, <1>9, <1>10, Zenon DEF IInv

(* ExtendResources preserves the invariant: the same vector is added to    *)
(* both sides of the conservation equation.                                *)
LEMMA ExtendResourcesIInv ==
    ASSUME NEW k \in ExtensionKey, NEW e \in Envelope,
           NEW added \in [Dimension -> ExtendValue]
    PROVE  Keeps(ExtendResources(k, e, added))
<1> SUFFICES ASSUME IInv, ExtendResources(k, e, added) PROVE IInv'
  BY Zenon DEF Keeps
<1> USE DEF reservationVars
<1>0. TypeOK /\ Fresh /\ Rooted /\ Conservation /\ SettledExactlyOnce /\ DelegationNarrows
  BY ZenonT(30) DEF IInv
<1>1. run[e] # "ABSENT" /\ ~Terminal(run[e]) /\ ~IsClosed(e)
  BY <1>0, ClosedIsTerminal, Zenon DEF ExtendResources, Extendable
<1>2. /\ added \in Vector
      /\ extended[e] \in Vector /\ available[e] \in Vector /\ granted[e] \in Vector
  BY <1>0, RequestVector, Zenon DEF TypeOK
<1>3. /\ run' \in [Envelope -> RunState \cup {"ABSENT"}]
      /\ run'[e] # "ABSENT"
      /\ \A j \in Envelope : j # e => run'[j] = run[j]
  BY <1>0, <1>1, Zenon DEF ExtendResources, Resumed, TypeOK, RunState
<1>4. /\ Plus(extended[e], added) \in Vector /\ Plus(available[e], added) \in Vector
      /\ \A d \in Dimension : /\ Plus(extended[e], added)[d] = extended[e][d] + added[d]
                              /\ Plus(available[e], added)[d] = available[e][d] + added[d]
  BY <1>2, PlusVector
<1>5. \A d \in Dimension : granted[e][d] + extended[e][d] + added[d] <= MaxInt64
  <2>1. Fits(Plus(Plus(granted[e], extended[e]), added))
    BY Zenon DEF ExtendResources, Extendable
  <2>2. /\ Plus(granted[e], extended[e]) \in Vector
        /\ \A d \in Dimension : Plus(granted[e], extended[e])[d] = granted[e][d] + extended[e][d]
    BY <1>2, PlusVector, Zenon
  <2>3. \A d \in Dimension : Plus(Plus(granted[e], extended[e]), added)[d]
                                = Plus(granted[e], extended[e])[d] + added[d]
    BY <1>2, <2>2, PlusVector, Zenon
  <2> QED
    BY <2>1, <2>2, <2>3, Zenon DEF Fits
<1>6. TypeOK'
  <2>1. extensions' \subseteq [key : ExtensionKey, run : Envelope, added : Vector]
    BY <1>0, <1>2 DEF ExtendResources, TypeOK
  <2> QED
    BY <1>0, <1>3, <1>4, <2>1, Zenon DEF ExtendResources, TypeOK
<1>7. Fresh'
  BY <1>0, <1>1, <1>3, ZenonT(30) DEF Fresh, ExtendResources, TypeOK
<1>8. Rooted'
  BY <1>0, <1>3, Zenon DEF Rooted, ExtendResources
<1>9. Conservation'
  BY <1>0, <1>2, <1>4, <1>5 DEF Conservation, ExtendResources, TypeOK, Vector
<1>10. SettledExactlyOnce'
  BY <1>0, <1>1, <1>3, ZenonT(30) DEF SettledExactlyOnce, ExtendResources, TypeOK, IsClosed
<1>11. DelegationNarrows'
  BY <1>0, Zenon DEF DelegationNarrows, ExtendResources
<1> QED
  BY <1>6, <1>7, <1>8, <1>9, <1>10, <1>11, Zenon DEF IInv

-----------------------------------------------------------------------------
(* Settlement and reconciliation *)

(* When the child's balance settles, the charged and the returned vector   *)
(* split the reserved one.                                                 *)
LEMMA SettlementSplits ==
    ASSUME TypeOK, NEW c \in Envelope, BalanceSettles(c)
    PROVE  /\ Returned(c) \in Vector /\ Charged(c) \in Vector
           /\ \A d \in Dimension : Charged(c)[d] + Returned(c)[d] = reserved[c][d]
           /\ Plus(Charged(c), Returned(c)) = reserved[c]
<1>1. /\ reserved[c] \in Vector /\ available[c] \in Vector
  BY Zenon DEF TypeOK
<1>2. /\ Returned(c) \in Vector
      /\ \A d \in Dimension : Returned(c)[d] <= reserved[c][d]
  BY <1>1 DEF Returned, BalanceSettles, Support, Vector
<1>3. /\ Charged(c) \in Vector
      /\ \A d \in Dimension : Charged(c)[d] = reserved[c][d] - Returned(c)[d]
  BY <1>1, <1>2, MinusVector, Zenon DEF Charged, AtMost
<1>4. \A d \in Dimension : Charged(c)[d] + Returned(c)[d] = reserved[c][d]
  BY <1>1, <1>2, <1>3 DEF Vector
<1>5. Plus(Charged(c), Returned(c)) = reserved[c]
  BY <1>1, <1>4, Zenon DEF Plus, Vector
<1> QED
  BY <1>2, <1>3, <1>4, <1>5, Zenon

(* Closing a reservation preserves the invariant, whoever closes it: the   *)
(* parent's allocation falls by what its availability and consumption gain *)
(* together.                                                               *)
Closes(c, k, final, closed) ==
    /\ reservation[c] = "OPEN"
    /\ BalanceSettles(c) /\ CreditAccepted(c)
    /\ InsertSettlement(c, k, final) /\ CreditParent(c)
    /\ run' = [run EXCEPT ![c] = final]
    /\ reservation' = [reservation EXCEPT ![c] = closed]
    /\ UNCHANGED <<parent, depth, limits, grantVars, reserved, expired, usage,
                   extensions, late>>

(* Closing a child: its reservation is settled and the rest credited to    *)
(* the parent.                                                             *)
LEMMA CloseIInv ==
    ASSUME NEW c \in Envelope, NEW k \in SettlementKey \cup {Reconcile},
           NEW final \in TerminalState, NEW closed \in Closed
    PROVE  Keeps(Closes(c, k, final, closed))
<1>a. SUFFICES ASSUME IInv, Closes(c, k, final, closed) PROVE IInv'
  BY Zenon DEF Keeps
<1>b. /\ reservation[c] = "OPEN" /\ BalanceSettles(c) /\ CreditAccepted(c)
      /\ InsertSettlement(c, k, final) /\ CreditParent(c)
  BY <1>a, Zenon DEF Closes
<1>c. /\ run' = [run EXCEPT ![c] = final]
      /\ reservation' = [reservation EXCEPT ![c] = closed]
  BY <1>a, Zenon DEF Closes
<1>d. UNCHANGED <<parent, depth, limits, rows, granted, extended, reserved, expired, usage,
                  extensions, late>>
  BY <1>a, Zenon DEF Closes, grantVars
<1>0. TypeOK /\ Fresh /\ Rooted /\ Conservation /\ SettledExactlyOnce /\ DelegationNarrows
  BY <1>a, Zenon DEF IInv
<1> DEFINE p == parent[c]
<1>1. /\ p \in Envelope /\ p # c /\ run[p] # "ABSENT" /\ run[c] # "ABSENT"
      /\ ~IsClosed(c)
  BY <1>0, <1>b, Zenon DEF Rooted, Fresh, IsClosed, Closed
<1>2. /\ available[p] \in Vector /\ consumed[p] \in Vector /\ allocated[p] \in Vector
      /\ reserved[c] \in Vector
  BY <1>0, <1>1, Zenon DEF TypeOK
<1>3. /\ Returned(c) \in Vector /\ Charged(c) \in Vector
      /\ \A d \in Dimension : Charged(c)[d] + Returned(c)[d] = reserved[c][d]
      /\ Plus(Charged(c), Returned(c)) = reserved[c]
  BY <1>0, <1>b, SettlementSplits, Zenon
<1>4. /\ Plus(available[p], Returned(c)) \in Vector
      /\ Plus(consumed[p], Charged(c)) \in Vector
      /\ Minus(allocated[p], reserved[c]) \in Vector
      /\ \A d \in Dimension :
            /\ Plus(available[p], Returned(c))[d] = available[p][d] + Returned(c)[d]
            /\ Plus(consumed[p], Charged(c))[d] = consumed[p][d] + Charged(c)[d]
            /\ Minus(allocated[p], reserved[c])[d] = allocated[p][d] - reserved[c][d]
  <2> HIDE DEF p
  <2>1. AtMost(reserved[c], allocated[p])
    BY <1>b, Zenon DEF CreditAccepted, p
  <2>2. /\ Plus(available[p], Returned(c)) \in Vector
        /\ \A d \in Dimension :
              Plus(available[p], Returned(c))[d] = available[p][d] + Returned(c)[d]
    BY <1>2, <1>3, PlusVector, Zenon
  <2>3. /\ Plus(consumed[p], Charged(c)) \in Vector
        /\ \A d \in Dimension :
              Plus(consumed[p], Charged(c))[d] = consumed[p][d] + Charged(c)[d]
    BY <1>2, <1>3, PlusVector, Zenon
  <2>4. /\ Minus(allocated[p], reserved[c]) \in Vector
        /\ \A d \in Dimension :
              Minus(allocated[p], reserved[c])[d] = allocated[p][d] - reserved[c][d]
    BY <1>2, <2>1, MinusVector, Zenon
  <2> QED
    BY <2>2, <2>3, <2>4, Zenon
<1>5. /\ available' = [available EXCEPT ![p] = Plus(available[p], Returned(c))]
      /\ consumed' = [consumed EXCEPT ![p] = Plus(consumed[p], Charged(c))]
      /\ allocated' = [allocated EXCEPT ![p] = Minus(allocated[p], reserved[c])]
  BY <1>b, Zenon DEF CreditParent
<1>6. final \in RunState /\ final # "ABSENT"
  BY Zenon DEF TerminalState, RunState
<1>7. TypeOK'
  <2>1. settlements' \subseteq [child : Envelope, key : SettlementKey \cup {Reconcile},
                                state : TerminalState, consumed : Vector, returned : Vector]
    BY <1>0, <1>3, <1>b DEF InsertSettlement, TypeOK
  <2> QED
    BY <1>0, <1>1, <1>4, <1>5, <1>6, <1>c, <1>d, <2>1, Zenon DEF TypeOK
<1>8. Fresh'
  BY <1>0, <1>1, <1>5, <1>6, <1>c, <1>d, Zenon DEF Fresh, TypeOK
<1>9. Rooted'
  <2>1. \A e \in Envelope : reservation'[e] # "NONE" => reservation[e] # "NONE"
    BY <1>0, <1>b, <1>c, Zenon DEF TypeOK
  <2>2. \A e \in Envelope : run[e] # "ABSENT" => run'[e] # "ABSENT"
    BY <1>0, <1>6, <1>c, Zenon DEF TypeOK
  <2>3. Rooted /\ parent' = parent
    BY <1>0, <1>d, ZenonT(30)
  <2> QED
    BY <2>1, <2>2, <2>3, Zenon DEF Rooted
<1>10. Conservation'
  BY <1>0, <1>1, <1>2, <1>3, <1>4, <1>5, <1>d DEF Conservation, TypeOK, Vector
<1>11. SettledExactlyOnce'
  <2> DEFINE new == [child |-> c, key |-> k, state |-> final,
                     consumed |-> Charged(c), returned |-> Returned(c)]
  <2>1. settlements' = settlements \cup {new} /\ \A s \in settlements : s.child # c
    BY <1>b, Zenon DEF InsertSettlement
  <2>2. \A s \in settlements' : /\ IsClosed(s.child)'
                                /\ run'[s.child] = s.state
                                /\ Plus(s.consumed, s.returned) = reserved'[s.child]
    BY <1>0, <1>3, <1>c, <1>d, <2>1 DEF SettledExactlyOnce, IsClosed, TypeOK
  <2>3. \A s, t \in settlements' : s.child = t.child => s = t
    <3>1. \A s, t \in settlements : s.child = t.child => s = t
      BY <1>0, Zenon DEF SettledExactlyOnce
    <3>2. new.child = c
      BY Zenon
    <3> HIDE DEF new
    <3> QED
      BY <2>1, <3>1, <3>2, Zenon
  <2>4. \A e \in Envelope : IsClosed(e)' => \E s \in settlements' : s.child = e
    <3> SUFFICES ASSUME NEW e \in Envelope, IsClosed(e)'
                 PROVE  \E s \in settlements' : s.child = e
      BY Zenon
    <3>1. CASE e = c
      <4>1. new \in settlements' /\ new.child = c
        BY <2>1, Zenon
      <4> QED
        BY <3>1, <4>1, Zenon
    <3>2. CASE e # c
      BY <1>0, <1>c, <2>1, <3>2, Zenon DEF SettledExactlyOnce, IsClosed, TypeOK
    <3> QED
      BY <3>1, <3>2, Zenon
  <2> QED
    BY <2>2, <2>3, <2>4, Zenon DEF SettledExactlyOnce
<1>12. DelegationNarrows'
  BY <1>0, <1>b, <1>c, <1>d, Zenon DEF DelegationNarrows, TypeOK
<1> QED
  BY <1>7, <1>8, <1>9, <1>10, <1>11, <1>12, Zenon DEF IInv

(* SettleReservation preserves the invariant. *)
LEMMA SettleReservationIInv ==
    ASSUME NEW c \in Envelope, NEW k \in SettlementKey
    PROVE  Keeps(SettleReservation(c, k))
<1> SUFFICES ASSUME IInv, SettleReservation(c, k) PROVE IInv'
  BY Zenon DEF Keeps
<1>1. run[c] \in TerminalState /\ "SETTLED" \in Closed
  BY Zenon DEF SettleReservation, Terminal, Closed
<1>2. run' = [run EXCEPT ![c] = run[c]]
  BY Zenon DEF SettleReservation, runVars, IInv, TypeOK
<1> QED
  BY <1>1, <1>2, CloseIInv, Zenon DEF Keeps, Closes, SettleReservation, runVars

(* ReconcileNextReservation preserves the invariant. *)
LEMMA ReconcileNextReservationIInv ==
    ASSUME NEW c \in Envelope
    PROVE  Keeps(ReconcileNextReservation(c))
<1> SUFFICES ASSUME IInv, ReconcileNextReservation(c) PROVE IInv'
  BY Zenon DEF Keeps
<1> DEFINE final == IF Terminal(run[c]) THEN run[c] ELSE "TIMED_OUT"
           closed == IF Terminal(run[c]) THEN "SETTLED" ELSE "EXPIRED_SETTLED"
<1>1. final \in TerminalState /\ closed \in Closed
  BY Zenon DEF Terminal, TerminalState, Closed
<1>2. /\ reservation[c] = "OPEN"
      /\ BalanceSettles(c) /\ CreditAccepted(c)
      /\ InsertSettlement(c, Reconcile, final) /\ CreditParent(c)
      /\ run' = [run EXCEPT ![c] = final]
      /\ reservation' = [reservation EXCEPT ![c] = closed]
      /\ UNCHANGED <<parent, depth, limits, grantVars, reserved, expired, usage,
                     extensions, late>>
  BY ZenonT(30) DEF ReconcileNextReservation, Reconcilable
<1> HIDE DEF final, closed
<1> QED
  BY <1>1, <1>2, CloseIInv, Zenon DEF Keeps, Closes

(* ReservationExpires preserves the invariant. *)
LEMMA ReservationExpiresIInv ==
    ASSUME NEW c \in Envelope
    PROVE  Keeps(ReservationExpires(c))
<1> SUFFICES ASSUME IInv, ReservationExpires(c) PROVE IInv'
  BY Zenon DEF Keeps
<1> QED
  BY SMTT(30) DEF IInv, ReservationExpires, runVars, grantVars, balances, TypeOK, Fresh, Rooted,
         Conservation, SettledExactlyOnce, DelegationNarrows, IsClosed

-----------------------------------------------------------------------------
(* A step that changes no variable preserves the invariant.                *)
LEMMA StutterIInv == Keeps(UNCHANGED vars)
<1> SUFFICES ASSUME IInv, UNCHANGED vars PROVE IInv'
  BY Zenon DEF Keeps
<1> QED
  BY DEF IInv, vars, runVars, grantVars, balances, reservationVars, TypeOK, Fresh, Rooted,
         Conservation, SettledExactlyOnce, DelegationNarrows, IsClosed

(* Every transaction preserves the invariant. *)
LEMMA NextIInv == IInv /\ [Next]_vars => IInv'
<1> SUFFICES ASSUME IInv, [Next]_vars PROVE IInv'
  BY Zenon
<1>1. ASSUME NEW e \in Envelope, NEW D \in SUBSET Dimension, NEW g \in [Dimension -> GrantValue],
             NEW lim \in Limits \cup {None}, AdmitRun(e, D, g, lim)
      PROVE  IInv'
  BY <1>1, AdmitRunIInv, Zenon DEF Keeps
<1>2. ASSUME NEW p \in Envelope, NEW c \in Envelope, NEW D \in SUBSET Dimension,
             NEW g \in [Dimension -> GrantValue], NEW lim \in Limits \cup {None},
             NEW amounts \in [Dimension -> ReserveValue],
             AdmitChildRun(p, c, D, g, lim, amounts)
      PROVE  IInv'
  BY <1>2, AdmitChildRunIInv, Zenon DEF Keeps
<1>3. ASSUME NEW e \in Envelope, NEW operation \in Operation, MutateWorkerRun(e, operation)
      PROVE  IInv'
  BY <1>3, MutateWorkerRunIInv, Zenon DEF Keeps
<1>4. ASSUME NEW e \in Envelope, CancelRun(e) PROVE IInv'
  BY <1>4, CancelRunIInv, Zenon DEF Keeps
<1>5. ASSUME NEW s \in Source, NEW e \in Envelope, NEW d \in Dimension, NEW q \in UsageValue,
             NEW disposition \in {"PAUSE", "FAIL"}, RecordTrustedUsage(s, e, d, q, disposition)
      PROVE  IInv'
  BY <1>5, RecordTrustedUsageIInv, Zenon DEF Keeps
<1>6. ASSUME NEW k \in ExtensionKey, NEW e \in Envelope, NEW added \in [Dimension -> ExtendValue],
             ExtendResources(k, e, added)
      PROVE  IInv'
  BY <1>6, ExtendResourcesIInv, Zenon DEF Keeps
<1>7. ASSUME NEW c \in Envelope, NEW k \in SettlementKey, SettleReservation(c, k) PROVE IInv'
  BY <1>7, SettleReservationIInv, Zenon DEF Keeps
<1>8. ASSUME NEW c \in Envelope, ReservationExpires(c) PROVE IInv'
  BY <1>8, ReservationExpiresIInv, Zenon DEF Keeps
<1>9. ASSUME NEW c \in Envelope, ReconcileNextReservation(c) PROVE IInv'
  BY <1>9, ReconcileNextReservationIInv, Zenon DEF Keeps
<1>10. CASE UNCHANGED vars
  BY <1>10, StutterIInv, Zenon DEF Keeps
<1> QED
  BY <1>1, <1>2, <1>3, <1>4, <1>5, <1>6, <1>7, <1>8, <1>9, <1>10, Zenon DEF Next

(* The invariant holds in every reachable state. *)
THEOREM InvariantHolds == Spec => []IInv
BY InitIInv, NextIInv, PTL DEF Spec

(* Every variable keeps its type; in particular no balance goes negative,  *)
(* although the handlers subtract from availability and from allocation.   *)
THEOREM TypeCorrect == Spec => []TypeOK
<1>1. IInv => TypeOK
  BY Zenon DEF IInv
<1> QED
  BY <1>1, InvariantHolds, PTL

(* The conservation equation holds for every envelope and dimension.       *)
THEOREM ConservationHolds == Spec => []Conservation
<1>1. IInv => Conservation
  BY Zenon DEF IInv
<1> QED
  BY <1>1, InvariantHolds, PTL

(* SettleReservation and ReconcileNextReservation close every reservation  *)
(* at most once, and a closed one has exactly one settlement.              *)
THEOREM SettlementIsUnique == Spec => []SettledExactlyOnce
<1>1. IInv => SettledExactlyOnce
  BY Zenon DEF IInv
<1> QED
  BY <1>1, InvariantHolds, PTL

(* Delegation only narrows, along every chain of admissions.               *)
THEOREM DelegationOnlyNarrows == Spec => []DelegationNarrows
<1>1. IInv => DelegationNarrows
  BY Zenon DEF IInv
<1> QED
  BY <1>1, InvariantHolds, PTL

-----------------------------------------------------------------------------
(* Action properties, from the same invariant: one step of the proof per   *)
(* transaction.                                                            *)

(* Every transaction moves runs along the lifecycle of domain/run.go.      *)
LEMMA NextLifecycle == IInv /\ [Next]_vars => [LifecycleStep]_vars
<1>a. SUFFICES ASSUME IInv, Next PROVE LifecycleStep
  BY Zenon
<1>b. run \in [Envelope -> RunState \cup {"ABSENT"}]
  BY <1>a, Zenon DEF IInv, TypeOK
<1> USE <1>b DEF LifecycleStep
<1>1. ASSUME NEW e \in Envelope, NEW to \in RunState, NEW actor \in RunActor,
             MayMove(e, to, actor), run' = [run EXCEPT ![e] = to]
      PROVE  LifecycleStep
  BY <1>1, Zenon DEF MayMove, Step
<1>2. ASSUME NEW e \in Envelope, NEW D, NEW g, NEW lim, AdmitRun(e, D, g, lim)
      PROVE  LifecycleStep
  BY <1>2, Zenon DEF AdmitRun
<1>3. ASSUME NEW p \in Envelope, NEW c \in Envelope, NEW D, NEW g, NEW lim, NEW amounts,
             AdmitChildRun(p, c, D, g, lim, amounts)
      PROVE  LifecycleStep
  BY <1>3, Zenon DEF AdmitChildRun
<1>4. ASSUME NEW e \in Envelope, NEW operation \in Operation, MutateWorkerRun(e, operation)
      PROVE  LifecycleStep
  <2>1. WorkerTarget[operation][1] \in RunState /\ WorkerTarget[operation][2] \in RunActor
    BY OperationAssumption DEF WorkerTarget, RunState, RunActor
  <2> QED
    BY <1>1, <1>4, <2>1, Zenon DEF MutateWorkerRun
<1>5. ASSUME NEW e \in Envelope, CancelRun(e) PROVE LifecycleStep
  <2>1. "CANCELLED" \in RunState /\ "CALLER" \in RunActor
    BY Zenon DEF RunState, RunActor
  <2> QED
    BY <1>1, <1>5, <2>1, Zenon DEF CancelRun
<1>6. ASSUME NEW s, NEW e \in Envelope, NEW d, NEW q, NEW disposition,
             RecordTrustedUsage(s, e, d, q, disposition)
      PROVE  LifecycleStep
  <2>1. /\ Step("RUNNING", "BUDGET_EXHAUSTED")
        /\ Step("BUDGET_EXHAUSTED", "PAUSED_FOR_BUDGET")
        /\ Step("BUDGET_EXHAUSTED", "FAILED_BUDGET")
    BY Zenon DEF Step, Terminal, TerminalState, transitionAllowed, actorAllowed, RunActor
  <2> QED
    BY <1>6, <2>1 DEF RecordTrustedUsage, UsageAccepted, applyBudgetExhaustion
<1>7. ASSUME NEW k, NEW e \in Envelope, NEW added, ExtendResources(k, e, added)
      PROVE  LifecycleStep
  <2>1. Step("PAUSED_FOR_BUDGET", "RUNNING")
    BY Zenon DEF Step, Terminal, TerminalState, transitionAllowed, actorAllowed, RunActor
  <2> QED
    BY <1>7, <2>1, Zenon DEF ExtendResources, Resumed
<1>8. ASSUME NEW c \in Envelope, NEW k, SettleReservation(c, k) PROVE LifecycleStep
  BY <1>8, Zenon DEF SettleReservation, runVars
<1>9. ASSUME NEW c \in Envelope, ReservationExpires(c) PROVE LifecycleStep
  BY <1>9, Zenon DEF ReservationExpires, runVars
<1>10. ASSUME NEW c \in Envelope, ReconcileNextReservation(c) PROVE LifecycleStep
  <2>1. /\ Step("ADMITTED", "TIMED_OUT") /\ Step("RUNNING", "TIMED_OUT")
        /\ Step("PAUSED_FOR_BUDGET", "TIMED_OUT")
    BY Zenon DEF Step, Terminal, TerminalState, transitionAllowed, actorAllowed, RunActor
  <2>2. Terminal(run[c]) \/ run[c] \in {"ADMITTED", "RUNNING", "PAUSED_FOR_BUDGET"}
    BY <1>10, Zenon DEF ReconcileNextReservation, Reconcilable, Abandoned, Terminal
  <2> QED
    BY <1>10, <2>1, <2>2, Zenon DEF ReconcileNextReservation
<1> HIDE <1>b DEF LifecycleStep
<1> QED
  BY <1>a, <1>2, <1>3, <1>4, <1>5, <1>6, <1>7, <1>8, <1>9, <1>10, Zenon DEF Next

(* A run only moves along the lifecycle, and never leaves a terminal state. *)
THEOREM LifecycleHolds == Spec => LifecycleRespected
BY InvariantHolds, NextLifecycle, PTL DEF Spec, LifecycleRespected

(* A step in which a reservation is closed by whichever operation, seen    *)
(* from any other closed child, satisfies FrozenStep.                      *)
LEMMA CloseFrozen ==
    ASSUME IInv, NEW c \in Envelope, NEW k, NEW final, NEW closed \in Closed,
           reservation[c] = "OPEN",
           InsertSettlement(c, k, final), CreditParent(c),
           run' = [run EXCEPT ![c] = final],
           reservation' = [reservation EXCEPT ![c] = closed],
           UNCHANGED <<parent, grantVars, usage>>
    PROVE  FrozenStep
<1> SUFFICES ASSUME NEW e \in Envelope, IsClosed(e)
             PROVE  /\ reservation'[e] = reservation[e]
                    /\ run'[e] = run[e]
                    /\ extended'[e] = extended[e]
                    /\ consumed'[e] = consumed[e]
                       \/ \E g \in OpenChildrenOf(e) : reservation'[g] \in Closed
                    /\ UsageOf(e)' = UsageOf(e)
                    /\ SettlementsOf(e)' = SettlementsOf(e)
  BY Zenon DEF FrozenStep
<1>1. e # c
  BY Zenon DEF IsClosed, Closed
<1>2. reservation'[e] = reservation[e] /\ run'[e] = run[e] /\ extended'[e] = extended[e]
  BY <1>1, Zenon DEF IInv, TypeOK, grantVars
<1>3. consumed'[e] = consumed[e] \/ \E g \in OpenChildrenOf(e) : reservation'[g] \in Closed
  <2>1. CASE parent[c] = e
    BY <2>1 DEF OpenChildrenOf, ChildrenOf, IInv, TypeOK
  <2>2. CASE parent[c] # e
    BY <2>2, Zenon DEF CreditParent, IInv, TypeOK
  <2> QED
    BY <2>1, <2>2, Zenon
<1>4. UsageOf(e)' = UsageOf(e)
  BY Zenon DEF UsageOf
<1>5. SettlementsOf(e)' = SettlementsOf(e)
  BY <1>1 DEF SettlementsOf, InsertSettlement
<1> QED
  BY <1>2, <1>3, <1>4, <1>5, ZenonT(30)

(* No transaction touches a closed child. *)
LEMMA NextFrozen == IInv /\ [Next]_vars => [FrozenStep]_vars
<1>0. SUFFICES ASSUME IInv, Next PROVE FrozenStep
  BY Zenon
<1>1. \A e \in Envelope : IsClosed(e) =>
          Terminal(run[e]) /\ run[e] \notin {"ABSENT", "RUNNING"}
  BY <1>0, ClosedIsTerminal, Zenon DEF Terminal, TerminalState
<1>2. TypeOK
  BY <1>0, Zenon DEF IInv
<1>3. ASSUME NEW e \in Envelope, NEW D, NEW g, NEW lim, AdmitRun(e, D, g, lim)
      PROVE  FrozenStep
  BY <1>1, <1>2, <1>3, ZenonT(30)
     DEF FrozenStep, AdmitRun, reservationVars, TypeOK, IsClosed, UsageOf, SettlementsOf
<1>4. ASSUME NEW p \in Envelope, NEW c \in Envelope, NEW D, NEW g, NEW lim, NEW amounts,
             AdmitChildRun(p, c, D, g, lim, amounts)
      PROVE  FrozenStep
  BY <1>1, <1>2, <1>4, Zenon
     DEF FrozenStep, AdmitChildRun, TypeOK, IsClosed, UsageOf, SettlementsOf
<1>5. ASSUME NEW e \in Envelope, NEW operation, MutateWorkerRun(e, operation)
      PROVE  FrozenStep
  BY <1>1, <1>2, <1>5, Zenon DEF FrozenStep, MutateWorkerRun, MayMove, reservationVars, grantVars,
     balances, TypeOK, IsClosed, UsageOf, SettlementsOf
<1>6. ASSUME NEW e \in Envelope, CancelRun(e) PROVE FrozenStep
  BY <1>1, <1>2, <1>6, Zenon DEF FrozenStep, CancelRun, MayMove, reservationVars, grantVars,
     balances, TypeOK, IsClosed, UsageOf, SettlementsOf
<1>7. ASSUME NEW s, NEW e \in Envelope, NEW d, NEW q, NEW disposition,
             RecordTrustedUsage(s, e, d, q, disposition)
      PROVE  FrozenStep
  <2>1. run[e] = "RUNNING" /\ ~IsClosed(e)
    BY <1>7, Zenon DEF RecordTrustedUsage, UsageAccepted
  <2>2. \A c \in Envelope : c # e => run'[c] = run[c] /\ consumed'[c] = consumed[c]
    BY <1>2, <1>7, Zenon DEF RecordTrustedUsage, applyBudgetExhaustion, TypeOK
  <2>3. \A c \in Envelope : c # e => UsageOf(c)' = UsageOf(c)
    BY <1>7 DEF RecordTrustedUsage, UsageOf
  <2> QED
    BY <1>7, <2>1, <2>2, <2>3, Zenon
       DEF FrozenStep, RecordTrustedUsage, reservationVars, grantVars, IsClosed, SettlementsOf
<1>8. ASSUME NEW k, NEW e \in Envelope, NEW added, ExtendResources(k, e, added)
      PROVE  FrozenStep
  <2>1. ~IsClosed(e)
    BY <1>1, <1>8, Zenon DEF ExtendResources, Extendable
  <2>2. \A c \in Envelope : c # e => run'[c] = run[c] /\ extended'[c] = extended[c]
    BY <1>2, <1>8, Zenon DEF ExtendResources, Resumed, TypeOK
  <2>3. UNCHANGED <<reservation, consumed, usage, settlements>>
    BY <1>8, Zenon DEF ExtendResources, reservationVars
  <2> QED
    BY <2>1, <2>2, <2>3, ZenonT(30) DEF FrozenStep, IsClosed, UsageOf, SettlementsOf
<1>9. ASSUME NEW c \in Envelope, NEW k, SettleReservation(c, k) PROVE FrozenStep
  <2>1. run' = [run EXCEPT ![c] = run[c]] /\ "SETTLED" \in Closed
    BY <1>2, <1>9, Zenon DEF SettleReservation, runVars, TypeOK, Closed
  <2> QED
    BY <1>0, <1>9, <2>1, CloseFrozen, Zenon DEF SettleReservation, runVars
<1>10. ASSUME NEW c \in Envelope, ReservationExpires(c) PROVE FrozenStep
  BY <1>2, <1>10, Zenon DEF FrozenStep, ReservationExpires, runVars, grantVars, balances,
     IsClosed, UsageOf, SettlementsOf
<1>11. ASSUME NEW c \in Envelope, ReconcileNextReservation(c) PROVE FrozenStep
  <2> DEFINE final == IF Terminal(run[c]) THEN run[c] ELSE "TIMED_OUT"
             closed == IF Terminal(run[c]) THEN "SETTLED" ELSE "EXPIRED_SETTLED"
  <2>1. /\ closed \in Closed
        /\ reservation[c] = "OPEN"
        /\ InsertSettlement(c, Reconcile, final) /\ CreditParent(c)
        /\ run' = [run EXCEPT ![c] = final]
        /\ reservation' = [reservation EXCEPT ![c] = closed]
        /\ UNCHANGED <<parent, grantVars, usage>>
    BY <1>11, Zenon DEF ReconcileNextReservation, Reconcilable, Closed
  <2> HIDE DEF final, closed
  <2> QED
    BY <1>0, <2>1, CloseFrozen, Zenon
<1> QED
  BY <1>0, <1>3, <1>4, <1>5, <1>6, <1>7, <1>8, <1>9, <1>10, <1>11, Zenon DEF Next

(* After its reservation is closed a child is never metered, extended,     *)
(* moved or settled again.                                                 *)
THEOREM ClosedChildIsFrozen == Spec => ClosedChildFrozen
BY InvariantHolds, NextFrozen, PTL DEF Spec, ClosedChildFrozen

(* Closing a reservation lowers the parent's allocation by the child's     *)
(* reserved vector and no other allocation.                                *)
LEMMA CloseCredits ==
    ASSUME TypeOK, NEW c \in Envelope, NEW closed \in Closed,
           reservation[c] = "OPEN", CreditParent(c),
           reservation' = [reservation EXCEPT ![c] = closed]
    PROVE  CreditStep
<1> SUFFICES ASSUME NEW p \in Envelope, NEW d \in Dimension,
                    allocated'[p][d] < allocated[p][d]
             PROVE  \E g \in OpenChildrenOf(p) :
                       /\ reservation'[g] \in Closed
                       /\ allocated'[p] = Minus(allocated[p], reserved[g])
  BY Zenon DEF CreditStep
<1>1. allocated' = [allocated EXCEPT ![parent[c]] = Minus(@, reserved[c])]
  BY Zenon DEF CreditParent
<1>2. p = parent[c]
  <2> SUFFICES ASSUME p # parent[c] PROVE FALSE
    BY Zenon
  <2>1. allocated'[p] = allocated[p] /\ allocated[p][d] \in Nat
    BY <1>1, Zenon DEF TypeOK, Vector
  <2> QED
    BY <2>1
<1>3. allocated'[p] = Minus(allocated[p], reserved[c]) /\ reservation'[c] \in Closed
  BY <1>1, <1>2, Zenon DEF TypeOK
<1>4. c \in OpenChildrenOf(p)
  BY <1>2, Zenon DEF OpenChildrenOf, ChildrenOf
<1> QED
  BY <1>3, <1>4, Zenon

(* Allocation falls in no transaction other than the two that close a      *)
(* reservation.                                                            *)
LEMMA NextCredit == IInv /\ [Next]_vars => [CreditStep]_vars
<1>0. SUFFICES ASSUME IInv, Next PROVE CreditStep
  BY Zenon
<1>1. TypeOK /\ TypeOK'
  BY <1>0, NextIInv, Zenon DEF IInv
<1>a. allocated \in [Envelope -> Vector] /\ allocated' \in [Envelope -> Vector]
  BY <1>1, Zenon DEF TypeOK
<1>b. \A p \in Envelope, d \in Dimension : allocated[p][d] \in Nat /\ allocated'[p][d] \in Nat
  BY <1>a, Zenon DEF Vector
<1>2. ASSUME \A p \in Envelope, d \in Dimension : allocated'[p][d] >= allocated[p][d]
      PROVE  CreditStep
  <2> SUFFICES ASSUME NEW p \in Envelope, NEW d \in Dimension,
                      allocated'[p][d] < allocated[p][d]
               PROVE  FALSE
    BY Zenon DEF CreditStep
  <2>1. allocated[p][d] \in Nat /\ allocated'[p][d] \in Nat
    BY <1>b, Zenon
  <2>2. allocated'[p][d] >= allocated[p][d]
    BY <1>2, Zenon
  <2> QED
    BY <2>1, <2>2
<1>3. ASSUME allocated' = allocated PROVE CreditStep
  <2>1. \A p \in Envelope, d \in Dimension : allocated'[p][d] >= allocated[p][d]
    BY <1>b, <1>3
  <2> QED
    BY <1>2, <2>1, Zenon
<1>4. ASSUME NEW p \in Envelope, NEW c \in Envelope, NEW D \in SUBSET Dimension,
             NEW g \in [Dimension -> GrantValue], NEW lim \in Limits \cup {None},
             NEW amounts \in [Dimension -> ReserveValue],
             AdmitChildRun(p, c, D, g, lim, amounts)
      PROVE  CreditStep
  <2>1. allocated' = [allocated EXCEPT ![p] = Plus(@, amounts)]
    BY <1>4, Zenon DEF AdmitChildRun
  <2>2. allocated[p] \in Vector /\ amounts \in Vector
    BY <1>a, RequestVector, Zenon
  <2>3. \A d \in Dimension : Plus(allocated[p], amounts)[d] >= allocated[p][d]
    <3>1. \A d \in Dimension : Plus(allocated[p], amounts)[d] = allocated[p][d] + amounts[d]
      BY <2>2, PlusVector, Zenon
    <3>2. \A d \in Dimension : allocated[p][d] \in Nat /\ amounts[d] \in Nat
      BY <2>2, Zenon DEF Vector
    <3> QED
      BY <3>1, <3>2
  <2>4. \A e \in Envelope, d \in Dimension : allocated'[e][d] >= allocated[e][d]
    BY <1>a, <1>b, <2>1, <2>3
  <2> QED
    BY <1>2, <2>4, Zenon
<1>5. ASSUME NEW c \in Envelope, NEW k, SettleReservation(c, k) PROVE CreditStep
  <2>1. "SETTLED" \in Closed
    BY Zenon DEF Closed
  <2> QED
    BY <1>1, <1>5, <2>1, CloseCredits, Zenon DEF SettleReservation
<1>6. ASSUME NEW c \in Envelope, ReconcileNextReservation(c) PROVE CreditStep
  <2> DEFINE closed == IF Terminal(run[c]) THEN "SETTLED" ELSE "EXPIRED_SETTLED"
  <2>1. /\ closed \in Closed
        /\ reservation[c] = "OPEN" /\ CreditParent(c)
        /\ reservation' = [reservation EXCEPT ![c] = closed]
    BY <1>6, Zenon DEF ReconcileNextReservation, Reconcilable, Closed
  <2> HIDE DEF closed
  <2> QED
    BY <1>1, <2>1, CloseCredits, Zenon
<1>7. ASSUME NEW e, NEW D, NEW g, NEW lim, AdmitRun(e, D, g, lim) PROVE allocated' = allocated
  BY <1>7, Zenon DEF AdmitRun
<1>8. ASSUME NEW e, NEW operation, MutateWorkerRun(e, operation) PROVE allocated' = allocated
  BY <1>8, Zenon DEF MutateWorkerRun, balances
<1>9. ASSUME NEW e, CancelRun(e) \/ ReservationExpires(e) PROVE allocated' = allocated
  BY <1>9, Zenon DEF CancelRun, ReservationExpires, balances
<1>10. ASSUME NEW s, NEW e, NEW d, NEW q, NEW disposition,
              RecordTrustedUsage(s, e, d, q, disposition)
       PROVE  allocated' = allocated
  BY <1>10, Zenon DEF RecordTrustedUsage
<1>11. ASSUME NEW k, NEW e, NEW added, ExtendResources(k, e, added) PROVE allocated' = allocated
  BY <1>11, Zenon DEF ExtendResources
<1> QED
  BY <1>0, <1>3, <1>4, <1>5, <1>6, <1>7, <1>8, <1>9, <1>10, <1>11, Zenon DEF Next

(* Whatever is credited to a parent comes from one child, in full.         *)
THEOREM CreditComesFromOneChild == Spec => CreditFromOneChild
BY InvariantHolds, NextCredit, PTL DEF Spec, CreditFromOneChild

-----------------------------------------------------------------------------
(* Finite sets and sums over them *)

SubsetLaw ==
    \A S, T : IsFiniteSet(S) /\ T \in SUBSET S =>
        IsFiniteSet(T) /\ Cardinality(T) <= Cardinality(S)

AddElementLaw ==
    \A S, x : IsFiniteSet(S) =>
        /\ IsFiniteSet(S \cup {x})
        /\ x \notin S => Cardinality(S \cup {x}) = Cardinality(S) + 1

CardinalityLaw == IsFiniteSet({}) /\ \A S : IsFiniteSet(S) => Cardinality(S) \in Nat

SumOfNoneLaw == \A f : SumFunctionOnSet(f, {}) = 0

SumTypeLaw ==
    \A f, S, N : IsFiniteSet(S) /\ N \in {Int, Nat} /\ (\A x \in S : f[x] \in N) =>
        SumFunctionOnSet(f, S) \in N

SumRemoveLaw ==
    \A f, S : IsFiniteSet(S) /\ (\A x \in S : f[x] \in Int) =>
        \A a \in S : SumFunctionOnSet(f, S) = f[a] + SumFunctionOnSet(f, S \ {a})

SumSameLaw ==
    \A f, g, S : IsFiniteSet(S) /\ (\A x \in S : f[x] = g[x]) =>
        SumFunctionOnSet(f, S) = SumFunctionOnSet(g, S)

SumSplitLaw ==
    \A f, S, A : IsFiniteSet(S) /\ (\A x \in S : f[x] \in Int) /\ A \in SUBSET S =>
        SumFunctionOnSet(f, S) = SumFunctionOnSet(f, A) + SumFunctionOnSet(f, S \ A)

SumZeroLaw ==
    \A f, S : IsFiniteSet(S) /\ (\A x \in S : f[x] = 0) => SumFunctionOnSet(f, S) = 0

FiniteLaws ==
    /\ SubsetLaw /\ AddElementLaw /\ CardinalityLaw
    /\ SumOfNoneLaw /\ SumTypeLaw /\ SumRemoveLaw /\ SumSameLaw /\ SumSplitLaw /\ SumZeroLaw

(* The laws, one by one, as facts to cite.                                 *)
LEMMA FiniteSubset ==
    ASSUME FiniteLaws, NEW S, IsFiniteSet(S), NEW T \in SUBSET S
    PROVE  IsFiniteSet(T) /\ Cardinality(T) <= Cardinality(S)
BY Zenon DEF FiniteLaws, SubsetLaw

(* One element more.                                                       *)
LEMMA FiniteAdd ==
    ASSUME FiniteLaws, NEW S, IsFiniteSet(S), NEW x
    PROVE  /\ IsFiniteSet(S \cup {x})
           /\ x \notin S => Cardinality(S \cup {x}) = Cardinality(S) + 1
BY Zenon DEF FiniteLaws, AddElementLaw

(* Counts are natural numbers.                                             *)
LEMMA FiniteCount ==
    ASSUME FiniteLaws, NEW S, IsFiniteSet(S)
    PROVE  Cardinality(S) \in Nat
BY Zenon DEF FiniteLaws, CardinalityLaw

(* The empty set is finite and its sum is zero.                            *)
LEMMA SumOfNone ==
    ASSUME FiniteLaws
    PROVE  IsFiniteSet({}) /\ \A f : SumFunctionOnSet(f, {}) = 0
BY Zenon DEF FiniteLaws, SumOfNoneLaw, CardinalityLaw

(* A sum of numbers is a number.                                           *)
LEMMA SumType ==
    ASSUME FiniteLaws, NEW f, NEW S, IsFiniteSet(S), NEW N \in {Int, Nat}, \A x \in S : f[x] \in N
    PROVE  SumFunctionOnSet(f, S) \in N
BY Zenon DEF FiniteLaws, SumTypeLaw

(* One element less takes its summand out of the sum.                      *)
LEMMA SumRemove ==
    ASSUME FiniteLaws, NEW f, NEW S, IsFiniteSet(S), \A x \in S : f[x] \in Int, NEW a \in S
    PROVE  SumFunctionOnSet(f, S) = f[a] + SumFunctionOnSet(f, S \ {a})
<1>1. SumRemoveLaw
  BY Zenon DEF FiniteLaws
<1>2. \A b \in S : SumFunctionOnSet(f, S) = f[b] + SumFunctionOnSet(f, S \ {b})
  BY <1>1, ZenonT(30) DEF SumRemoveLaw
<1> QED
  BY <1>2, Zenon

(* Functions that agree on a set have the same sum over it.                *)
LEMMA SumSame ==
    ASSUME FiniteLaws, NEW f, NEW g, NEW S, IsFiniteSet(S), \A x \in S : f[x] = g[x]
    PROVE  SumFunctionOnSet(f, S) = SumFunctionOnSet(g, S)
BY Zenon DEF FiniteLaws, SumSameLaw

(* A sum over S is the sum over a part of S plus the sum over the rest.    *)
LEMMA SumSplit ==
    ASSUME FiniteLaws, NEW f, NEW S, IsFiniteSet(S), \A x \in S : f[x] \in Int, NEW A \in SUBSET S
    PROVE  SumFunctionOnSet(f, S) = SumFunctionOnSet(f, A) + SumFunctionOnSet(f, S \ A)
<1>1. SumSplitLaw
  BY Zenon DEF FiniteLaws
<1> QED
  BY <1>1, SMTT(30) DEF SumSplitLaw

(* A sum of zeros is zero.                                                 *)
LEMMA SumZero ==
    ASSUME FiniteLaws, NEW f, NEW S, IsFiniteSet(S), \A x \in S : f[x] = 0
    PROVE  SumFunctionOnSet(f, S) = 0
BY Zenon DEF FiniteLaws, SumZeroLaw

(* A new element adds its summand.                                         *)
LEMMA SumAdd ==
    ASSUME FiniteLaws, NEW f, NEW S, IsFiniteSet(S), NEW a, a \notin S,
           \A x \in S \cup {a} : f[x] \in Int
    PROVE  SumFunctionOnSet(f, S \cup {a}) = f[a] + SumFunctionOnSet(f, S)
<1>1. IsFiniteSet(S \cup {a}) /\ a \in S \cup {a} /\ (S \cup {a}) \ {a} = S
  BY FiniteAdd, Zenon
<1> QED
  BY <1>1, SumRemove

(* Changing one summand changes the sum by the difference.                 *)
LEMMA SumChange ==
    ASSUME FiniteLaws, NEW f, NEW g, NEW S, IsFiniteSet(S), NEW a \in S,
           \A x \in S : f[x] \in Int /\ g[x] \in Int,
           \A x \in S \ {a} : f[x] = g[x]
    PROVE  SumFunctionOnSet(g, S) = SumFunctionOnSet(f, S) - f[a] + g[a]
<1> DEFINE rest == S \ {a}
<1>1. IsFiniteSet(rest) /\ \A x \in rest : f[x] \in Int /\ f[x] = g[x]
  BY FiniteSubset, Zenon
<1>2. SumFunctionOnSet(f, S) = f[a] + SumFunctionOnSet(f, rest)
  BY SumRemove
<1>3. SumFunctionOnSet(g, S) = g[a] + SumFunctionOnSet(g, rest)
  BY SumRemove
<1> HIDE DEF rest
<1>4. SumFunctionOnSet(f, rest) = SumFunctionOnSet(g, rest)
  BY <1>1, SumSame, Zenon
<1>5. SumFunctionOnSet(f, rest) \in Int
  BY <1>1, SumType, Zenon
<1> QED
  BY <1>2, <1>3, <1>4, <1>5

(* No summand exceeds a sum of naturals.                                   *)
LEMMA SumBound ==
    ASSUME FiniteLaws, NEW f, NEW S, IsFiniteSet(S), \A x \in S : f[x] \in Nat, NEW a \in S
    PROVE  f[a] <= SumFunctionOnSet(f, S)
<1>1. SumFunctionOnSet(f, S) = f[a] + SumFunctionOnSet(f, S \ {a})
  BY SumRemove
<1>2. SumFunctionOnSet(f, S \ {a}) \in Nat
  <2>1. IsFiniteSet(S \ {a}) /\ \A x \in S \ {a} : f[x] \in Nat
    BY FiniteSubset, Zenon
  <2> QED
    BY <2>1, SumType, Zenon
<1> QED
  BY <1>1, <1>2

(* A change of two summands changes the sum by both differences.           *)
LEMMA SumChangeTwo ==
    ASSUME FiniteLaws, NEW f, NEW g, NEW S, IsFiniteSet(S), NEW a \in S, NEW b \in S, a # b,
           \A x \in S : f[x] \in Int /\ g[x] \in Int,
           \A x \in S \ {a, b} : f[x] = g[x]
    PROVE  SumFunctionOnSet(g, S) = SumFunctionOnSet(f, S) + (g[a] - f[a]) + (g[b] - f[b])
<1> DEFINE h == [x \in S |-> IF x = a THEN g[a] ELSE f[x]]
<1>1. /\ \A x \in S : h[x] \in Int
      /\ h[a] = g[a] /\ h[b] = f[b]
      /\ \A x \in S \ {a} : f[x] = h[x]
      /\ \A x \in S \ {b} : h[x] = g[x]
  BY Zenon
<1> HIDE DEF h
<1>2. SumFunctionOnSet(h, S) = SumFunctionOnSet(f, S) - f[a] + h[a]
  BY <1>1, SumChange
<1>3. SumFunctionOnSet(g, S) = SumFunctionOnSet(h, S) - h[b] + g[b]
  BY <1>1, SumChange
<1>4. SumFunctionOnSet(f, S) \in Int /\ SumFunctionOnSet(h, S) \in Int
  BY <1>1, SumType, Zenon
<1> QED
  BY <1>1, <1>2, <1>3, <1>4

(* A term is added to a sum whose function grows with it.                  *)
LEMMA SumGrow ==
    ASSUME FiniteLaws, NEW f, NEW h, NEW S, IsFiniteSet(S), NEW a, a \notin S, h[a] \in Int,
           \A x \in S : f[x] = h[x] /\ f[x] \in Int
    PROVE  SumFunctionOnSet(h, S \cup {a}) = h[a] + SumFunctionOnSet(f, S)
<1>1. \A x \in S \cup {a} : h[x] \in Int
  BY Zenon
<1>2. SumFunctionOnSet(h, S \cup {a}) = h[a] + SumFunctionOnSet(h, S)
  BY <1>1, SumAdd, Zenon
<1>3. SumFunctionOnSet(f, S) = SumFunctionOnSet(h, S)
  BY SumSame, Zenon
<1> QED
  BY <1>2, <1>3, Zenon

-----------------------------------------------------------------------------
(* The transactions that change the ledger *)

ledgerVars == <<parent, limits, granted, extended, available, consumed, allocated,
                reservation, reserved, usage, settlements, late>>

(* What SettleReservation and ReconcileNextReservation have in common.     *)
Close(c) ==
    /\ reservation[c] = "OPEN"
    /\ BalanceSettles(c)
    /\ CreditAccepted(c)
    /\ \E k, state : InsertSettlement(c, k, state)
    /\ CreditParent(c)
    /\ \E closed \in Closed : reservation' = [reservation EXCEPT ![c] = closed]
    /\ UNCHANGED <<parent, limits, granted, extended, reserved, usage, late>>

AdmitsChild(p, c, g, amounts) ==
    \E D \in SUBSET Dimension, lim \in Limits \cup {None} :
        AdmitChildRun(p, c, D, g, lim, amounts)

(* Every step is one of five transactions on the ledger or leaves it as it *)
(* is.                                                                     *)
LEMMA LedgerTransactions ==
    ASSUME [Next]_vars
    PROVE  \/ \E e \in Envelope, D \in SUBSET Dimension, g \in [Dimension -> GrantValue],
                 lim \in Limits \cup {None} : AdmitRun(e, D, g, lim)
           \/ \E p, c \in Envelope, g \in [Dimension -> GrantValue],
                 amounts \in [Dimension -> ReserveValue] : AdmitsChild(p, c, g, amounts)
           \/ \E s \in Source, e \in Envelope, d \in Dimension, q \in UsageValue,
                 disposition \in {"PAUSE", "FAIL"} : RecordTrustedUsage(s, e, d, q, disposition)
           \/ \E k \in ExtensionKey, e \in Envelope, added \in [Dimension -> ExtendValue] :
                 ExtendResources(k, e, added)
           \/ \E c \in Envelope : Close(c)
           \/ UNCHANGED ledgerVars
<1>1. ASSUME NEW e, NEW operation, MutateWorkerRun(e, operation) PROVE UNCHANGED ledgerVars
  BY <1>1, Zenon DEF MutateWorkerRun, ledgerVars, grantVars, balances, reservationVars
<1>2. ASSUME NEW e, CancelRun(e) PROVE UNCHANGED ledgerVars
  BY <1>2, Zenon DEF CancelRun, ledgerVars, grantVars, balances, reservationVars
<1>3. ASSUME NEW c, ReservationExpires(c) PROVE UNCHANGED ledgerVars
  BY <1>3, Zenon DEF ReservationExpires, ledgerVars, runVars, grantVars, balances
<1>4. CASE UNCHANGED vars
  BY <1>4, Zenon DEF vars, ledgerVars, runVars, grantVars, balances, reservationVars
<1>5. ASSUME NEW c, NEW k, SettleReservation(c, k) PROVE Close(c)
  <2>1. "SETTLED" \in Closed
    BY Zenon DEF Closed
  <2> QED
    BY <1>5, <2>1, Zenon DEF SettleReservation, Close, runVars, grantVars
<1>6. ASSUME NEW c, ReconcileNextReservation(c) PROVE Close(c)
  <2>1. "SETTLED" \in Closed /\ "EXPIRED_SETTLED" \in Closed
    BY Zenon DEF Closed
  <2>2. \E closed \in Closed : reservation' = [reservation EXCEPT ![c] = closed]
    BY <1>6, <2>1, Zenon DEF ReconcileNextReservation
  <2>3. \E k, state : InsertSettlement(c, k, state)
    BY <1>6, Zenon DEF ReconcileNextReservation
  <2> QED
    BY <1>6, <2>2, <2>3, Zenon DEF ReconcileNextReservation, Reconcilable, Close, grantVars
<1>7. CASE \E p, c \in Envelope, D \in SUBSET Dimension, g \in [Dimension -> GrantValue],
              lim \in Limits \cup {None}, amounts \in [Dimension -> ReserveValue] :
              AdmitChildRun(p, c, D, g, lim, amounts)
  BY <1>7, ZenonT(30) DEF AdmitsChild
<1> QED
  BY <1>1, <1>2, <1>3, <1>4, <1>5, <1>6, <1>7, ZenonT(30) DEF Next

(* The amounts of an envelope are natural numbers.                         *)
LEMMA Amounts ==
    ASSUME IInv, NEW e \in Envelope, NEW d \in Dimension
    PROVE  /\ granted[e][d] \in Nat /\ extended[e][d] \in Nat /\ reserved[e][d] \in Nat
           /\ available[e][d] \in Nat /\ consumed[e][d] \in Nat /\ allocated[e][d] \in Nat
<1>1. /\ granted[e] \in Vector /\ extended[e] \in Vector /\ reserved[e] \in Vector
      /\ available[e] \in Vector /\ consumed[e] \in Vector /\ allocated[e] \in Vector
  BY Zenon DEF IInv, TypeOK
<1> QED
  BY <1>1, Zenon DEF Vector

(* The parts of a child's admission that the sums depend on.               *)
ChildAdmitted(p, c, g, amounts) ==
    /\ p # c /\ run[p] # "ABSENT" /\ run[c] = "ABSENT" /\ reservation[c] = "NONE"
    /\ g \in Vector /\ amounts \in Vector
    /\ parent' = [parent EXCEPT ![c] = p]
    /\ reservation' = [reservation EXCEPT ![c] = "OPEN"]
    /\ reserved' = [reserved EXCEPT ![c] = amounts]
    /\ allocated' = [allocated EXCEPT ![p] = Plus(@, amounts)]
    /\ granted' = [granted EXCEPT ![c] = Plus(g, amounts)]
    /\ available' = [available EXCEPT ![p] = Minus(@, amounts), ![c] = Plus(g, amounts)]
    /\ IsClosed(p) => c \in late'
    /\ late \subseteq late'
    /\ UNCHANGED <<extended, consumed, usage, settlements>>
    /\ \E lim : limits' = [limits EXCEPT ![c] = lim]
    /\ limits[p] \in Limits
    /\ Cardinality(OpenChildrenOf(p)) < limits[p].active
    /\ Cardinality(ChildrenOf(p)) < limits[p].total

(* AdmitChildRun has these effects.                                        *)
LEMMA AdmissionOfChild ==
    ASSUME IInv, NEW p \in Envelope, NEW c \in Envelope, NEW g \in [Dimension -> GrantValue],
           NEW amounts \in [Dimension -> ReserveValue], AdmitsChild(p, c, g, amounts)
    PROVE  ChildAdmitted(p, c, g, amounts)
<1>1. PICK D \in SUBSET Dimension, lim \in Limits \cup {None} : AdmitChildRun(p, c, D, g, lim, amounts)
  BY Zenon DEF AdmitsChild
<1>2. g \in Vector /\ amounts \in Vector
  BY RequestVector, Zenon
<1>3. p # c /\ run[p] # "ABSENT" /\ run[c] = "ABSENT"
  BY <1>1, Zenon DEF AdmitChildRun
<1>4. reservation[c] = "NONE"
  BY <1>3, Zenon DEF IInv, Fresh
<1>5. limits[p] \in Limits \cup {None}
  BY Zenon DEF IInv, TypeOK
<1>6. /\ limits[p] \in Limits
      /\ Cardinality(OpenChildrenOf(p)) < limits[p].active
      /\ Cardinality(ChildrenOf(p)) < limits[p].total
  BY <1>1, <1>5, Zenon DEF AdmitChildRun, enforceChildTopology
<1>7. (IsClosed(p) => c \in late') /\ late \subseteq late'
  <2>1. late' = IF IsClosed(p) THEN late \cup {c} ELSE late
    BY <1>1, Zenon DEF AdmitChildRun
  <2> QED
    BY <2>1, Zenon
<1>8. /\ parent' = [parent EXCEPT ![c] = p]
      /\ reservation' = [reservation EXCEPT ![c] = "OPEN"]
      /\ reserved' = [reserved EXCEPT ![c] = amounts]
      /\ allocated' = [allocated EXCEPT ![p] = Plus(@, amounts)]
      /\ granted' = [granted EXCEPT ![c] = Plus(g, amounts)]
      /\ available' = [available EXCEPT ![p] = Minus(@, amounts), ![c] = Plus(g, amounts)]
      /\ UNCHANGED <<extended, consumed, usage, settlements>>
      /\ limits' = [limits EXCEPT ![c] = lim]
  BY <1>1, Zenon DEF AdmitChildRun
<1> QED
  BY <1>2, <1>3, <1>4, <1>6, <1>7, <1>8, Zenon DEF ChildAdmitted

(* What a closing does, component by component.                            *)
Credited(c) ==
    /\ parent[c] \in Envelope /\ parent[c] # c
    /\ reservation[c] = "OPEN" /\ BalanceSettles(c)
    /\ reservation'[c] \in Closed
    /\ \A e \in Envelope \ {c} : reservation'[e] = reservation[e]
    /\ \A e \in Envelope, d \in Dimension :
          /\ available'[e][d] = available[e][d] + (IF e = parent[c] THEN Returned(c)[d] ELSE 0)
          /\ consumed'[e][d] = consumed[e][d] + (IF e = parent[c] THEN Charged(c)[d] ELSE 0)
          /\ allocated'[e][d] = allocated[e][d] - (IF e = parent[c] THEN reserved[c][d] ELSE 0)
    /\ \A d \in Dimension : Charged(c)[d] \in Nat /\ Returned(c)[d] \in Nat
    /\ \A d \in Dimension :
          Returned(c)[d] = IF reserved[c][d] > 0 THEN available[c][d] ELSE 0
    /\ \A d \in Dimension : reserved[c][d] <= allocated[parent[c]][d]
    /\ UNCHANGED <<parent, limits, granted, extended, reserved, usage, late>>

(* SettleReservation and ReconcileNextReservation have these effects.      *)
LEMMA Closing ==
    ASSUME IInv, NEW c \in Envelope, Close(c)
    PROVE  Credited(c)
<1> DEFINE p == parent[c]
<1>1. /\ reservation[c] = "OPEN" /\ BalanceSettles(c) /\ CreditAccepted(c) /\ CreditParent(c)
      /\ \E closed \in Closed : reservation' = [reservation EXCEPT ![c] = closed]
      /\ UNCHANGED <<parent, limits, granted, extended, reserved, usage, late>>
  BY Zenon DEF Close
<1>2. p \in Envelope /\ p # c
  <2>1. reservation[c] # "NONE"
    BY <1>1, Zenon
  <2> QED
    BY <2>1, Zenon DEF IInv, Rooted
<1>3. /\ reservation \in [Envelope -> {"NONE", "OPEN"} \cup Closed]
      /\ available \in [Envelope -> Vector] /\ consumed \in [Envelope -> Vector]
      /\ allocated \in [Envelope -> Vector] /\ reserved \in [Envelope -> Vector]
  BY Zenon DEF IInv, TypeOK
<1>4. reservation'[c] \in Closed /\ \A e \in Envelope \ {c} : reservation'[e] = reservation[e]
  BY <1>1, <1>3, Zenon
<1>5. \A d \in Dimension : reserved[c][d] \in Nat /\ available[c][d] \in Nat
  BY Amounts, Zenon
<1>6. \A d \in Dimension : Returned(c)[d] = IF reserved[c][d] > 0 THEN available[c][d] ELSE 0
  BY Zenon DEF Returned
<1>7. \A d \in Dimension : reserved[c][d] > 0 => available[c][d] <= reserved[c][d]
  BY <1>1, Zenon DEF BalanceSettles, Support
<1>8. \A d \in Dimension : Charged(c)[d] = reserved[c][d] - Returned(c)[d]
  BY Zenon DEF Charged, Minus
<1>9. \A d \in Dimension : Charged(c)[d] \in Nat /\ Returned(c)[d] \in Nat
  BY <1>5, <1>6, <1>7, <1>8
<1>10. \A d \in Dimension : reserved[c][d] <= allocated[p][d]
  BY <1>1, Zenon DEF CreditAccepted, AtMost
<1>11. /\ available' = [available EXCEPT ![p] = Plus(@, Returned(c))]
       /\ consumed' = [consumed EXCEPT ![p] = Plus(@, Charged(c))]
       /\ allocated' = [allocated EXCEPT ![p] = Minus(@, reserved[c])]
  BY <1>1, Zenon DEF CreditParent
<1> HIDE DEF p
<1>12. ASSUME NEW e \in Envelope, NEW d \in Dimension
       PROVE  /\ available'[e][d] = available[e][d] + (IF e = p THEN Returned(c)[d] ELSE 0)
              /\ consumed'[e][d] = consumed[e][d] + (IF e = p THEN Charged(c)[d] ELSE 0)
              /\ allocated'[e][d] = allocated[e][d] - (IF e = p THEN reserved[c][d] ELSE 0)
  <2>1. available[e][d] \in Nat /\ consumed[e][d] \in Nat /\ allocated[e][d] \in Nat
    BY Amounts, Zenon
  <2>2. CASE e = p
    <3>1. /\ available'[e] = Plus(available[p], Returned(c))
          /\ consumed'[e] = Plus(consumed[p], Charged(c))
          /\ allocated'[e] = Minus(allocated[p], reserved[c])
      BY <1>2, <1>3, <1>11, <2>2, Zenon
    <3>2. /\ available'[e][d] = available[p][d] + Returned(c)[d]
          /\ consumed'[e][d] = consumed[p][d] + Charged(c)[d]
          /\ allocated'[e][d] = allocated[p][d] - reserved[c][d]
      BY <3>1, Zenon DEF Plus, Minus
    <3> QED
      BY <2>2, <3>2, Zenon
  <2>3. CASE e # p
    <3>1. available'[e] = available[e] /\ consumed'[e] = consumed[e] /\ allocated'[e] = allocated[e]
      BY <1>2, <1>3, <1>11, <2>3, Zenon
    <3> QED
      BY <2>1, <2>3, <3>1
  <2> QED
    BY <2>2, <2>3, Zenon
<1> QED
  BY <1>1, <1>2, <1>4, <1>6, <1>9, <1>10, <1>12, Zenon DEF p, Credited

-----------------------------------------------------------------------------
(* The children of an envelope *)

(* Sets of children are finite, and the open ones are among them.          *)
LEMMA ChildrenFinite ==
    ASSUME FiniteLaws, NEW p
    PROVE  /\ IsFiniteSet(ChildrenOf(p)) /\ IsFiniteSet(OpenChildrenOf(p))
           /\ ChildrenOf(p) \subseteq Envelope /\ OpenChildrenOf(p) \subseteq ChildrenOf(p)
<1>1. ChildrenOf(p) \in SUBSET Envelope /\ OpenChildrenOf(p) \in SUBSET ChildrenOf(p)
  BY Zenon DEF ChildrenOf, OpenChildrenOf
<1>2. IsFiniteSet(ChildrenOf(p))
  BY <1>1, FiniteAssumption, FiniteSubset, Zenon
<1> QED
  BY <1>1, <1>2, FiniteSubset, Zenon

(* The admission of a child adds it to its parent's children and to        *)
(* nobody else's.                                                          *)
LEMMA AdmissionChildren ==
    ASSUME IInv, NEW p \in Envelope, NEW c \in Envelope,
           p # c, reservation[c] = "NONE",
           parent' = [parent EXCEPT ![c] = p],
           reservation' = [reservation EXCEPT ![c] = "OPEN"]
    PROVE  /\ ChildrenOf(p)' = ChildrenOf(p) \cup {c} /\ c \notin ChildrenOf(p)
           /\ OpenChildrenOf(p)' = OpenChildrenOf(p) \cup {c} /\ c \notin OpenChildrenOf(p)
           /\ \A q \in Envelope \ {p} :
                 /\ ChildrenOf(q)' = ChildrenOf(q) /\ c \notin ChildrenOf(q)
                 /\ OpenChildrenOf(q)' = OpenChildrenOf(q) /\ c \notin OpenChildrenOf(q)
<1>1. /\ parent'[c] = p /\ reservation'[c] = "OPEN"
      /\ \A e \in Envelope \ {c} : parent'[e] = parent[e] /\ reservation'[e] = reservation[e]
  BY Zenon DEF IInv, TypeOK
<1>2. ChildrenOf(p)' = ChildrenOf(p) \cup {c} /\ c \notin ChildrenOf(p)
  BY <1>1, SMT DEF ChildrenOf
<1>3. OpenChildrenOf(p)' = OpenChildrenOf(p) \cup {c} /\ c \notin OpenChildrenOf(p)
  BY <1>1, SMT DEF ChildrenOf, OpenChildrenOf
<1>4. ASSUME NEW q \in Envelope \ {p}
      PROVE  /\ ChildrenOf(q)' = ChildrenOf(q) /\ c \notin ChildrenOf(q)
             /\ OpenChildrenOf(q)' = OpenChildrenOf(q) /\ c \notin OpenChildrenOf(q)
  <2>1. ChildrenOf(q)' = ChildrenOf(q) /\ c \notin ChildrenOf(q)
    BY <1>1, SMT DEF ChildrenOf
  <2>2. OpenChildrenOf(q)' = OpenChildrenOf(q) /\ c \notin OpenChildrenOf(q)
    BY <1>1, SMT DEF ChildrenOf, OpenChildrenOf
  <2> QED
    BY <2>1, <2>2, Zenon
<1> QED
  BY <1>2, <1>3, <1>4, Zenon

(* A closing takes the child out of its parent's open children.            *)
LEMMA ClosingChildren ==
    ASSUME NEW c \in Envelope, reservation[c] = "OPEN", reservation'[c] \in Closed,
           \A e \in Envelope \ {c} : reservation'[e] = reservation[e],
           parent' = parent
    PROVE  /\ \A q \in Envelope : ChildrenOf(q)' = ChildrenOf(q)
           /\ c \in OpenChildrenOf(parent[c])
           /\ OpenChildrenOf(parent[c])' = OpenChildrenOf(parent[c]) \ {c}
           /\ \A q \in Envelope : q # parent[c] => OpenChildrenOf(q)' = OpenChildrenOf(q)
<1>1. "NONE" \notin Closed /\ "OPEN" \notin Closed
  BY Zenon DEF Closed
<1>2. \A q : ChildrenOf(q)' = ChildrenOf(q)
  BY <1>1, SMT DEF ChildrenOf
<1>3. c \in OpenChildrenOf(parent[c])
  BY Zenon DEF ChildrenOf, OpenChildrenOf
<1>4. \A q : OpenChildrenOf(q)' = OpenChildrenOf(q) \ {c}
  BY <1>1, <1>2, SMT DEF OpenChildrenOf, ChildrenOf
<1>5. \A q \in Envelope : q # parent[c] => c \notin OpenChildrenOf(q)
  BY Zenon DEF ChildrenOf, OpenChildrenOf
<1> QED
  BY <1>2, <1>3, <1>4, <1>5, Zenon

(* Steps that change neither parents, reservations nor limits of parents   *)
(* keep the counts.                                                        *)
LEMMA NextTopology == FiniteLaws /\ IInv /\ TopologyWithinLimits /\ [Next]_vars => TopologyWithinLimits'
<1> SUFFICES ASSUME FiniteLaws, IInv, TopologyWithinLimits, [Next]_vars,
                    NEW q \in Envelope, ChildrenOf(q)' # {}
             PROVE  /\ Cardinality(OpenChildrenOf(q)') <= limits'[q].active
                    /\ Cardinality(ChildrenOf(q)') <= limits'[q].total
  BY Zenon DEF TopologyWithinLimits
<1>1. ChildrenOf(q) # {} =>
         /\ Cardinality(OpenChildrenOf(q)) <= limits[q].active
         /\ Cardinality(ChildrenOf(q)) <= limits[q].total
  BY Zenon DEF TopologyWithinLimits
<1>2. ASSUME limits'[q] = limits[q], parent' = parent, reservation' = reservation
      PROVE  /\ Cardinality(OpenChildrenOf(q)') <= limits'[q].active
             /\ Cardinality(ChildrenOf(q)') <= limits'[q].total
  <2>1. ChildrenOf(q)' = ChildrenOf(q) /\ OpenChildrenOf(q)' = OpenChildrenOf(q)
    BY <1>2, Zenon DEF ChildrenOf, OpenChildrenOf
  <2> QED
    BY <1>1, <1>2, <2>1, Zenon
<1>3. \A e \in Envelope : run[e] = "ABSENT" => ChildrenOf(e) = {}
  BY Zenon DEF IInv, Rooted, ChildrenOf
<1>4. limits \in [Envelope -> Limits \cup {None}]
  BY Zenon DEF IInv, TypeOK
<1>5. ASSUME NEW e \in Envelope, NEW D, NEW g, NEW lim, AdmitRun(e, D, g, lim)
      PROVE  /\ Cardinality(OpenChildrenOf(q)') <= limits'[q].active
             /\ Cardinality(ChildrenOf(q)') <= limits'[q].total
  <2>1. /\ run[e] = "ABSENT" /\ limits' = [limits EXCEPT ![e] = lim]
        /\ parent' = parent /\ reservation' = reservation
    BY <1>5, Zenon DEF AdmitRun, reservationVars
  <2>2. ChildrenOf(q)' = ChildrenOf(q)
    BY <2>1, Zenon DEF ChildrenOf
  <2>3. q # e
    BY <1>3, <2>1, <2>2, Zenon
  <2>4. limits'[q] = limits[q]
    BY <1>4, <2>1, <2>3, Zenon
  <2> QED
    BY <1>2, <2>1, <2>4, Zenon
<1>6. ASSUME NEW p \in Envelope, NEW c \in Envelope, NEW g \in [Dimension -> GrantValue],
             NEW amounts \in [Dimension -> ReserveValue], AdmitsChild(p, c, g, amounts)
      PROVE  /\ Cardinality(OpenChildrenOf(q)') <= limits'[q].active
             /\ Cardinality(ChildrenOf(q)') <= limits'[q].total
  <2>1. /\ p # c /\ run[c] = "ABSENT" /\ reservation[c] = "NONE"
        /\ parent' = [parent EXCEPT ![c] = p]
        /\ reservation' = [reservation EXCEPT ![c] = "OPEN"]
        /\ \E lim : limits' = [limits EXCEPT ![c] = lim]
        /\ limits[p] \in Limits
        /\ Cardinality(OpenChildrenOf(p)) < limits[p].active
        /\ Cardinality(ChildrenOf(p)) < limits[p].total
    <3>1. ChildAdmitted(p, c, g, amounts)
      BY <1>6, AdmissionOfChild, Zenon
    <3> QED
      BY <3>1, Zenon DEF ChildAdmitted
  <2>2. /\ ChildrenOf(p)' = ChildrenOf(p) \cup {c} /\ c \notin ChildrenOf(p)
        /\ OpenChildrenOf(p)' = OpenChildrenOf(p) \cup {c} /\ c \notin OpenChildrenOf(p)
        /\ \A r \in Envelope \ {p} :
              ChildrenOf(r)' = ChildrenOf(r) /\ OpenChildrenOf(r)' = OpenChildrenOf(r)
    BY <2>1, AdmissionChildren, Zenon
  <2>3. \A r \in Envelope : r # c => limits'[r] = limits[r]
    BY <1>4, <2>1, Zenon
  <2>4. CASE q = p
    <3>1. /\ Cardinality(ChildrenOf(p) \cup {c}) = Cardinality(ChildrenOf(p)) + 1
          /\ Cardinality(OpenChildrenOf(p) \cup {c}) = Cardinality(OpenChildrenOf(p)) + 1
      BY <2>2, ChildrenFinite, FiniteAdd, Zenon
    <3>2. Cardinality(ChildrenOf(p)) \in Nat /\ Cardinality(OpenChildrenOf(p)) \in Nat
      BY ChildrenFinite, FiniteCount, Zenon
    <3>3. limits[p].active \in Nat /\ limits[p].total \in Nat
      BY <2>1, LimitsAssumption, Zenon
    <3>4. limits'[p] = limits[p]
      BY <2>1, <2>3, Zenon
    <3>5. Cardinality(ChildrenOf(p)) + 1 <= limits[p].total
      BY <2>1, <3>2, <3>3
    <3>6. Cardinality(OpenChildrenOf(p)) + 1 <= limits[p].active
      BY <2>1, <3>2, <3>3
    <3> QED
      BY <2>2, <2>4, <3>1, <3>4, <3>5, <3>6, Zenon
  <2>5. CASE q # p
    <3>1. ChildrenOf(q)' = ChildrenOf(q) /\ OpenChildrenOf(q)' = OpenChildrenOf(q)
      BY <2>2, <2>5, Zenon
    <3>2. q # c
      BY <1>3, <2>1, <3>1, Zenon
    <3> QED
      BY <1>1, <2>3, <3>1, <3>2, Zenon
  <2> QED
    BY <2>4, <2>5, Zenon
<1>7. ASSUME NEW c \in Envelope, Close(c)
      PROVE  /\ Cardinality(OpenChildrenOf(q)') <= limits'[q].active
             /\ Cardinality(ChildrenOf(q)') <= limits'[q].total
  <2>1. /\ reservation[c] = "OPEN" /\ reservation'[c] \in Closed
        /\ \A e \in Envelope \ {c} : reservation'[e] = reservation[e]
        /\ parent' = parent /\ limits' = limits /\ parent[c] \in Envelope
    <3>1. Credited(c)
      BY <1>7, Closing, Zenon
    <3> QED
      BY <3>1, Zenon DEF Credited
  <2>2. /\ ChildrenOf(q)' = ChildrenOf(q)
        /\ OpenChildrenOf(parent[c])' = OpenChildrenOf(parent[c]) \ {c}
        /\ q # parent[c] => OpenChildrenOf(q)' = OpenChildrenOf(q)
    BY <2>1, ClosingChildren, Zenon
  <2>3. OpenChildrenOf(q)' \in SUBSET OpenChildrenOf(q)
    <3>1. CASE q = parent[c]
      <4>1. OpenChildrenOf(q)' = OpenChildrenOf(parent[c])'
        BY <2>1, <3>1, Zenon
      <4> QED
        BY <2>2, <3>1, <4>1, Zenon
    <3>2. CASE q # parent[c]
      BY <2>2, <3>2, Zenon
    <3> QED
      BY <3>1, <3>2, Zenon
  <2>4. Cardinality(OpenChildrenOf(q)') <= Cardinality(OpenChildrenOf(q))
    BY <2>3, ChildrenFinite, FiniteSubset, Zenon
  <2>5. Cardinality(OpenChildrenOf(q)') \in Nat /\ Cardinality(OpenChildrenOf(q)) \in Nat
    BY <2>3, ChildrenFinite, FiniteSubset, FiniteCount, Zenon
  <2>6. ChildrenOf(q) # {}
    BY <2>2, Zenon
  <2>7. PICK x \in ChildrenOf(q) : TRUE
    BY <2>6, Zenon
  <2>8. limits[q] \in Limits
    <3>1. x \in Envelope /\ parent[x] = q /\ reservation[x] # "NONE"
      BY <2>7, Zenon DEF ChildrenOf
    <3> QED
      BY <3>1, Zenon DEF IInv, DelegationNarrows
  <2>9. limits[q].active \in Nat
    BY <2>8, LimitsAssumption, Zenon
  <2>10. Cardinality(OpenChildrenOf(q)) <= limits[q].active
    BY <1>1, <2>6, Zenon
  <2>11. Cardinality(OpenChildrenOf(q)') <= limits[q].active
    BY <2>4, <2>5, <2>9, <2>10
  <2> QED
    BY <1>1, <2>1, <2>2, <2>6, <2>11, Zenon
<1>8. ASSUME NEW s, NEW e, NEW d, NEW x, NEW disposition, RecordTrustedUsage(s, e, d, x, disposition)
      PROVE  limits' = limits /\ parent' = parent /\ reservation' = reservation
  BY <1>8, Zenon DEF RecordTrustedUsage, reservationVars
<1>9. ASSUME NEW k, NEW e, NEW added, ExtendResources(k, e, added)
      PROVE  limits' = limits /\ parent' = parent /\ reservation' = reservation
  BY <1>9, Zenon DEF ExtendResources, reservationVars
<1>10. CASE UNCHANGED ledgerVars
  BY <1>2, <1>10, Zenon DEF ledgerVars
<1>11. /\ (\E s \in Source, e \in Envelope, d \in Dimension, x \in UsageValue,
              disposition \in {"PAUSE", "FAIL"} : RecordTrustedUsage(s, e, d, x, disposition))
          => limits' = limits /\ parent' = parent /\ reservation' = reservation
       /\ (\E k \in ExtensionKey, e \in Envelope, added \in [Dimension -> ExtendValue] :
              ExtendResources(k, e, added))
          => limits' = limits /\ parent' = parent /\ reservation' = reservation
  BY <1>8, <1>9, Zenon
<1> QED
  BY <1>2, <1>5, <1>6, <1>7, <1>10, <1>11, LedgerTransactions, ZenonT(30)

-----------------------------------------------------------------------------
(* Open allocations *)

Backed(p, d) ==
    allocated[p][d] = SumFunctionOnSet([c \in Envelope |-> reserved[c][d]], OpenChildrenOf(p))

(* AdmitChildRun adds the term of the child, a closing removes it, no      *)
(* other transaction touches an allocation or what it is the sum of.       *)
LEMMA NextAllocation == FiniteLaws /\ IInv /\ AllocationBacked /\ [Next]_vars => AllocationBacked'
<1> SUFFICES ASSUME FiniteLaws, IInv, AllocationBacked, [Next]_vars,
                    NEW q \in Envelope, NEW d \in Dimension
             PROVE  Backed(q, d)'
  BY Zenon DEF AllocationBacked, Backed
<1> DEFINE f == [x \in Envelope |-> reserved[x][d]]
           h == [x \in Envelope |-> reserved'[x][d]]
<1>1. allocated[q][d] = SumFunctionOnSet(f, OpenChildrenOf(q))
  BY Zenon DEF AllocationBacked
<1>2. \A x \in Envelope : f[x] = reserved[x][d] /\ h[x] = reserved'[x][d] /\ reserved[x][d] \in Nat
  BY Amounts, Zenon
<1>3. OpenChildrenOf(q) \subseteq Envelope /\ IsFiniteSet(OpenChildrenOf(q))
  BY ChildrenFinite, Zenon
<1>0. ASSUME allocated'[q][d] = SumFunctionOnSet(h, OpenChildrenOf(q)') PROVE Backed(q, d)'
  BY <1>0, Zenon DEF Backed
<1>4. ASSUME parent' = parent, reservation' = reservation, reserved' = reserved,
             allocated' = allocated
      PROVE  Backed(q, d)'
  <2>1. OpenChildrenOf(q)' = OpenChildrenOf(q) /\ h = f
    BY <1>4, Zenon DEF ChildrenOf, OpenChildrenOf
  <2> QED
    BY <1>0, <1>1, <1>4, <2>1, Zenon
<1>5. ASSUME NEW p \in Envelope, NEW c \in Envelope, NEW g \in [Dimension -> GrantValue],
             NEW amounts \in [Dimension -> ReserveValue], AdmitsChild(p, c, g, amounts)
      PROVE  Backed(q, d)'
  <2>1. ChildAdmitted(p, c, g, amounts)
    BY <1>5, AdmissionOfChild, Zenon
  <2>2. /\ p # c /\ reservation[c] = "NONE" /\ amounts \in Vector
        /\ parent' = [parent EXCEPT ![c] = p]
        /\ reservation' = [reservation EXCEPT ![c] = "OPEN"]
        /\ reserved' = [reserved EXCEPT ![c] = amounts]
        /\ allocated' = [allocated EXCEPT ![p] = Plus(@, amounts)]
    BY <2>1, Zenon DEF ChildAdmitted
  <2>3. /\ OpenChildrenOf(p)' = OpenChildrenOf(p) \cup {c} /\ c \notin OpenChildrenOf(p)
        /\ \A r \in Envelope \ {p} :
              OpenChildrenOf(r)' = OpenChildrenOf(r) /\ c \notin OpenChildrenOf(r)
    BY <2>2, AdmissionChildren, Zenon
  <2>4. amounts[d] \in Nat
    BY <2>2, Zenon DEF Vector
  <2>5. h[c] = amounts[d] /\ \A x \in Envelope \ {c} : h[x] = f[x]
    <3>1. reserved \in [Envelope -> Vector]
      BY Zenon DEF IInv, TypeOK
    <3> QED
      BY <2>2, <3>1, Zenon
  <2> HIDE DEF f, h
  <2>6. c \notin OpenChildrenOf(q)
    BY <2>3, Zenon
  <2>7. SumFunctionOnSet(f, OpenChildrenOf(q)) = SumFunctionOnSet(h, OpenChildrenOf(q))
    <3>1. \A x \in OpenChildrenOf(q) : f[x] = h[x]
      BY <1>3, <2>5, <2>6, Zenon
    <3> QED
      BY <1>3, <3>1, SumSame, Zenon
  <2>8. CASE q = p
    <3>1. \A x \in OpenChildrenOf(q) \cup {c} : h[x] \in Int
      BY <1>2, <1>3, <2>4, <2>5
    <3>2. SumFunctionOnSet(h, OpenChildrenOf(q) \cup {c}) = h[c] + SumFunctionOnSet(h, OpenChildrenOf(q))
      BY <1>3, <2>6, <3>1, SumAdd, Zenon
    <3>3. allocated'[p] = Plus(allocated[p], amounts)
      <4>1. allocated \in [Envelope -> Vector]
        BY Zenon DEF IInv, TypeOK
      <4> QED
        BY <2>2, <4>1, Zenon
    <3>4. allocated'[p][d] = allocated[p][d] + amounts[d] /\ allocated[p][d] \in Nat
      BY <3>3, Amounts, Zenon DEF Plus
    <3>5. allocated'[q][d] = amounts[d] + allocated[q][d]
      BY <2>4, <2>8, <3>4
    <3>6. OpenChildrenOf(q)' = OpenChildrenOf(q) \cup {c}
      BY <2>3, <2>8, Zenon
    <3> QED
      BY <1>0, <1>1, <2>5, <2>7, <3>2, <3>5, <3>6, Zenon
  <2>9. CASE q # p
    <3>1. OpenChildrenOf(q)' = OpenChildrenOf(q)
      BY <2>3, <2>9, Zenon
    <3>2. allocated'[q] = allocated[q]
      <4>1. allocated \in [Envelope -> Vector]
        BY Zenon DEF IInv, TypeOK
      <4> QED
        BY <2>2, <2>9, <4>1, Zenon
    <3> QED
      BY <1>0, <1>1, <2>7, <3>1, <3>2, Zenon
  <2> QED
    BY <2>8, <2>9, Zenon
<1>6. ASSUME NEW c \in Envelope, Close(c) PROVE Backed(q, d)'
  <2>1. /\ reservation[c] = "OPEN" /\ reservation'[c] \in Closed
        /\ \A e \in Envelope \ {c} : reservation'[e] = reservation[e]
        /\ allocated'[q][d] = allocated[q][d] - (IF q = parent[c] THEN reserved[c][d] ELSE 0)
        /\ parent' = parent /\ reserved' = reserved /\ parent[c] \in Envelope
    <3>1. Credited(c)
      BY <1>6, Closing, Zenon
    <3> QED
      BY <3>1, Zenon DEF Credited
  <2>2. /\ c \in OpenChildrenOf(parent[c])
        /\ OpenChildrenOf(parent[c])' = OpenChildrenOf(parent[c]) \ {c}
        /\ q # parent[c] => OpenChildrenOf(q)' = OpenChildrenOf(q)
    BY <2>1, ClosingChildren, Zenon
  <2>3. h = f
    BY <2>1, Zenon
  <2>4. allocated[q][d] \in Nat
    BY Amounts, Zenon
  <2>5. f[c] = reserved[c][d] /\ reserved[c][d] \in Nat
    BY <1>2, Zenon
  <2> HIDE DEF f, h
  <2>6. CASE q = parent[c]
    <3>1. OpenChildrenOf(q)' = OpenChildrenOf(q) \ {c} /\ c \in OpenChildrenOf(q)
      <4>1. OpenChildrenOf(q)' = OpenChildrenOf(parent[c])'
        BY <2>1, <2>6, Zenon
      <4> QED
        BY <2>2, <2>6, <4>1, Zenon
    <3>2. \A x \in OpenChildrenOf(q) : f[x] \in Int
      BY <1>2, <1>3
    <3>3. SumFunctionOnSet(f, OpenChildrenOf(q)) = f[c] + SumFunctionOnSet(f, OpenChildrenOf(q) \ {c})
      BY <1>3, <3>1, <3>2, SumRemove
    <3>4. SumFunctionOnSet(f, OpenChildrenOf(q) \ {c}) \in Int
      <4>1. IsFiniteSet(OpenChildrenOf(q) \ {c}) /\ \A x \in OpenChildrenOf(q) \ {c} : f[x] \in Int
        BY <1>3, <3>2, FiniteSubset, Zenon
      <4> QED
        BY <4>1, SumType, Zenon
    <3>5. allocated'[q][d] = allocated[q][d] - reserved[c][d]
      BY <2>1, <2>6, Zenon
    <3>6. allocated'[q][d] = SumFunctionOnSet(f, OpenChildrenOf(q) \ {c})
      BY <1>1, <2>4, <2>5, <3>3, <3>4, <3>5
    <3> QED
      BY <1>0, <2>3, <3>1, <3>6, Zenon
  <2>7. CASE q # parent[c]
    <3>1. allocated'[q][d] = allocated[q][d]
      BY <2>1, <2>4, <2>7
    <3> QED
      BY <1>0, <1>1, <2>2, <2>3, <2>7, <3>1, Zenon
  <2> QED
    BY <2>6, <2>7, Zenon
<1>7. ASSUME NEW e, NEW D, NEW g, NEW lim, AdmitRun(e, D, g, lim) PROVE Backed(q, d)'
  BY <1>4, <1>7, Zenon DEF AdmitRun, reservationVars
<1>8. ASSUME NEW s, NEW e, NEW b, NEW x, NEW disposition, RecordTrustedUsage(s, e, b, x, disposition)
      PROVE  Backed(q, d)'
  BY <1>4, <1>8, Zenon DEF RecordTrustedUsage, reservationVars
<1>9. ASSUME NEW k, NEW e, NEW added, ExtendResources(k, e, added) PROVE Backed(q, d)'
  BY <1>4, <1>9, Zenon DEF ExtendResources, reservationVars
<1>10. CASE UNCHANGED ledgerVars
  BY <1>4, <1>10, Zenon DEF ledgerVars
<1> QED
  BY <1>5, <1>6, <1>7, <1>8, <1>9, <1>10, LedgerTransactions, ZenonT(30)

(* The parent's open allocation covers every open child.                   *)
LEMMA AllocationCovers ==
    ASSUME FiniteLaws, IInv, AllocationBacked, NEW c \in Envelope, reservation[c] = "OPEN",
           NEW d \in Dimension
    PROVE  parent[c] \in Envelope /\ reserved[c][d] <= allocated[parent[c]][d]
<1> DEFINE f == [x \in Envelope |-> reserved[x][d]]
           O == OpenChildrenOf(parent[c])
<1>1. parent[c] \in Envelope
  <2>1. reservation[c] # "NONE"
    BY Zenon
  <2> QED
    BY <2>1, Zenon DEF IInv, Rooted
<1>2. allocated[parent[c]][d] = SumFunctionOnSet(f, O)
  BY <1>1, Zenon DEF AllocationBacked
<1>3. c \in O
  BY Zenon DEF OpenChildrenOf, ChildrenOf
<1>4. IsFiniteSet(O) /\ O \subseteq Envelope
  BY ChildrenFinite, Zenon
<1>5. f[c] = reserved[c][d] /\ \A x \in O : f[x] \in Nat
  BY <1>4, Amounts, Zenon
<1> HIDE DEF f, O
<1>6. f[c] <= SumFunctionOnSet(f, O)
  BY <1>3, <1>4, <1>5, SumBound, Zenon
<1> QED
  BY <1>1, <1>2, <1>5, <1>6, Zenon

(* The conditional update of the parent's balance accepts the credit of    *)
(* every open child whose own balance settles.                             *)
LEMMA CreditAlwaysAccepted == FiniteLaws /\ IInv /\ AllocationBacked => CreditNeverRefused
<1> SUFFICES ASSUME FiniteLaws, IInv, AllocationBacked, NEW c \in Envelope, reservation[c] = "OPEN",
                    BalanceSettles(c)
             PROVE  CreditAccepted(c) /\ \A s \in settlements : s.child # c
  BY Zenon DEF CreditNeverRefused
<1>1. \A s \in settlements : s.child # c
  BY Zenon DEF IInv, SettledExactlyOnce, IsClosed, Closed
<1> DEFINE p == parent[c]
<1>2. p \in Envelope
  <2>1. reservation[c] # "NONE"
    BY Zenon
  <2> QED
    BY <2>1, Zenon DEF IInv, Rooted
<1>3. ASSUME NEW d \in Dimension
      PROVE  /\ Plus(available[p], Returned(c))[d] <= MaxInt64
             /\ Plus(consumed[p], Charged(c))[d] <= MaxInt64
             /\ reserved[c][d] <= allocated[p][d]
  <2>1. reserved[c][d] <= allocated[p][d]
    BY AllocationCovers, Zenon
  <2>2. /\ available[p][d] \in Nat /\ consumed[p][d] \in Nat /\ allocated[p][d] \in Nat
        /\ granted[p][d] \in Nat /\ extended[p][d] \in Nat
        /\ reserved[c][d] \in Nat /\ available[c][d] \in Nat
    BY <1>2, Amounts, Zenon
  <2>3. /\ available[p][d] + consumed[p][d] + allocated[p][d] = granted[p][d] + extended[p][d]
        /\ granted[p][d] + extended[p][d] <= MaxInt64
    BY <1>2, Zenon DEF IInv, Conservation
  <2>4. Returned(c)[d] = IF reserved[c][d] > 0 THEN available[c][d] ELSE 0
    BY Zenon DEF Returned
  <2>5. reserved[c][d] > 0 => available[c][d] <= reserved[c][d]
    BY Zenon DEF BalanceSettles, Support
  <2>6. Charged(c)[d] = reserved[c][d] - Returned(c)[d]
    BY Zenon DEF Charged, Minus
  <2>7. /\ Plus(available[p], Returned(c))[d] = available[p][d] + Returned(c)[d]
        /\ Plus(consumed[p], Charged(c))[d] = consumed[p][d] + Charged(c)[d]
    BY Zenon DEF Plus
  <2>8. /\ Returned(c)[d] \in Nat /\ Returned(c)[d] <= reserved[c][d]
        /\ Charged(c)[d] \in Nat /\ Charged(c)[d] <= reserved[c][d]
    BY <2>2, <2>4, <2>5, <2>6
  <2>9. MaxInt64 \in Int
    BY MaxInt64Assumption
  <2> HIDE DEF p
  <2> QED
    BY <2>1, <2>2, <2>3, <2>7, <2>8, <2>9
<1> QED
  BY <1>1, <1>3, Zenon DEF CreditAccepted, Fits, AtMost

-----------------------------------------------------------------------------
(* Consumption *)

LedgersFinite == IsFiniteSet(usage) /\ IsFiniteSet(settlements)

(* The trusted usage of an envelope in one dimension, and the charges of   *)
(* its closed children                                                     *)
UsageIn(e, d) == {u \in UsageOf(e) : u.dim = d}
UsageSum(e, d) == SumFunctionOnSet([u \in usage |-> u.quantity], UsageIn(e, d))
ChargeSum(e, d) == SumFunctionOnSet([s \in settlements |-> s.consumed[d]], ChargesTo(e))
Explained(e, d) == consumed[e][d] = UsageSum(e, d) + ChargeSum(e, d)

(* The share of (q, d) in an amount x metered at (e, b)                    *)
Share(q, d, e, b, x) == IF q = e /\ d = b THEN x ELSE 0

(* RecordTrustedUsage adds one entry, which was not there.                 *)
RecordedUsage(e, b, x) ==
    \E u \in [source : Source, run : Envelope, dim : Dimension, quantity : Nat] :
        /\ u \notin usage
        /\ u.run = e /\ u.dim = b /\ u.quantity = x
        /\ usage' = usage \cup {u}

(* The entry a trusted usage report adds to the ledger.                    *)
LEMMA UsageEntry ==
    ASSUME NEW s \in Source, NEW e \in Envelope, NEW b \in Dimension, NEW x \in UsageValue,
           NEW disposition, RecordTrustedUsage(s, e, b, x, disposition)
    PROVE  RecordedUsage(e, b, x) /\ x \in Nat
<1> DEFINE u == [source |-> s, run |-> e, dim |-> b, quantity |-> x]
<1>1. x \in Nat
  BY QuantityAssumption, MaxInt64Assumption
<1>2. u \in [source : Source, run : Envelope, dim : Dimension, quantity : Nat]
  BY <1>1, Zenon
<1>3. u.source = s /\ u.run = e /\ u.dim = b /\ u.quantity = x
  BY Zenon
<1>4. (\A v \in usage : v.source # s) /\ usage' = usage \cup {u}
  BY Zenon DEF RecordTrustedUsage, UsageAccepted
<1> HIDE DEF u
<1> QED
  BY <1>1, <1>2, <1>3, <1>4, Zenon DEF RecordedUsage

(* The quantity of a recorded entry joins the sum of its envelope and      *)
(* dimension and no other.                                                 *)
LEMMA UsageSumGrows ==
    ASSUME FiniteLaws, IInv, LedgersFinite, NEW e \in Envelope, NEW b \in Dimension, NEW x \in Nat,
           RecordedUsage(e, b, x), NEW q \in Envelope, NEW d \in Dimension
    PROVE  UsageSum(q, d)' = UsageSum(q, d) + Share(q, d, e, b, x)
<1> DEFINE f == [v \in usage |-> v.quantity]
           h == [v \in usage' |-> v.quantity]
           S == UsageIn(q, d)
<1>1. PICK u \in [source : Source, run : Envelope, dim : Dimension, quantity : Nat] :
         /\ u \notin usage
         /\ u.run = e /\ u.dim = b /\ u.quantity = x
         /\ usage' = usage \cup {u}
  BY Zenon DEF RecordedUsage
<1>2. usage \subseteq [source : Source, run : Envelope, dim : Dimension, quantity : Nat]
  BY Zenon DEF IInv, TypeOK
<1>3. S \subseteq usage /\ u \notin S /\ IsFiniteSet(S)
  <2>1. S \in SUBSET usage
    BY Zenon DEF UsageIn, UsageOf
  <2> QED
    BY <1>1, <2>1, FiniteSubset, Zenon DEF LedgersFinite
<1>4. \A v \in usage : v.quantity \in Nat
  BY <1>2, Zenon
<1>5. /\ \A v \in S : f[v] = h[v] /\ f[v] \in Int
      /\ h[u] = x
  BY <1>1, <1>3, <1>4
<1>6. UsageSum(q, d) = SumFunctionOnSet(f, S) /\ UsageSum(q, d)' = SumFunctionOnSet(h, UsageIn(q, d)')
  BY Zenon DEF UsageSum
<1>7. SumFunctionOnSet(f, S) \in Int
  <2> HIDE DEF f, S
  <2> QED
    BY <1>3, <1>5, SumType, Zenon
<1>8. CASE q = e /\ d = b
  <2>1. UsageIn(q, d)' = S \cup {u}
    BY <1>1, <1>8, Zenon DEF UsageIn, UsageOf
  <2> HIDE DEF f, h, S
  <2>2. SumFunctionOnSet(h, S \cup {u}) = h[u] + SumFunctionOnSet(f, S)
    BY <1>3, <1>5, SumGrow
  <2> QED
    BY <1>5, <1>6, <1>7, <1>8, <2>1, <2>2 DEF Share
<1>9. CASE ~(q = e /\ d = b)
  <2>1. UsageIn(q, d)' = S
    BY <1>1, <1>9, Zenon DEF UsageIn, UsageOf
  <2> HIDE DEF f, h, S
  <2>2. SumFunctionOnSet(f, S) = SumFunctionOnSet(h, S)
    BY <1>3, <1>5, SumSame, Zenon
  <2> QED
    BY <1>6, <1>7, <1>9, <2>1, <2>2 DEF Share
<1> QED
  BY <1>8, <1>9, Zenon

(* The settlement of a closed child joins the charges of its parent and of *)
(* nobody else.                                                            *)
LEMMA ChargeSumGrows ==
    ASSUME FiniteLaws, IInv, LedgersFinite, NEW c \in Envelope, Close(c),
           NEW q \in Envelope, NEW d \in Dimension
    PROVE  ChargeSum(q, d)' = ChargeSum(q, d) + (IF q = parent[c] THEN Charged(c)[d] ELSE 0)
<1> DEFINE f == [t \in settlements |-> t.consumed[d]]
           h == [t \in settlements' |-> t.consumed[d]]
           S == ChargesTo(q)
<1>1. PICK k, state : InsertSettlement(c, k, state)
  BY Zenon DEF Close
<1> DEFINE s == [child |-> c, key |-> k, state |-> state, consumed |-> Charged(c), returned |-> Returned(c)]
<1>2. /\ \A t \in settlements : t.child # c
      /\ settlements' = settlements \cup {s}
  BY <1>1, Zenon DEF InsertSettlement
<1>3. s.child = c /\ s.consumed = Charged(c)
  BY Zenon
<1> HIDE DEF s
<1>4. parent' = parent /\ Charged(c)[d] \in Nat
  <2>1. Credited(c)
    BY Closing, Zenon
  <2> QED
    BY <2>1, Zenon DEF Credited
<1>5. \A t \in settlements : t.consumed[d] \in Nat
  <2>1. \A t \in settlements : t.consumed \in Vector
    BY Zenon DEF IInv, TypeOK
  <2> QED
    BY <2>1, Zenon DEF Vector
<1>6. S \subseteq settlements /\ s \notin S /\ IsFiniteSet(S)
  <2>1. S \in SUBSET settlements
    BY Zenon DEF ChargesTo
  <2>2. s \notin settlements
    BY <1>2, <1>3, Zenon
  <2> QED
    BY <2>1, <2>2, FiniteSubset, Zenon DEF LedgersFinite
<1>7. /\ \A t \in S : f[t] = h[t] /\ f[t] \in Int
      /\ h[s] = Charged(c)[d]
  <2>1. s \in settlements' /\ settlements \subseteq settlements'
    BY <1>2, Zenon
  <2>2. h[s] = Charged(c)[d]
    BY <1>3, <2>1, Zenon
  <2>3. \A t \in settlements : f[t] = t.consumed[d] /\ h[t] = t.consumed[d]
    BY <2>1, Zenon
  <2> HIDE DEF S, f, h
  <2> QED
    BY <1>5, <1>6, <2>2, <2>3
<1>8. /\ ChargeSum(q, d) = SumFunctionOnSet(f, S)
      /\ ChargeSum(q, d)' = SumFunctionOnSet(h, ChargesTo(q)')
  BY Zenon DEF ChargeSum
<1>9. SumFunctionOnSet(f, S) \in Int
  <2> HIDE DEF f, S
  <2> QED
    BY <1>6, <1>7, SumType, Zenon
<1>10. CASE q = parent[c]
  <2>1. ChargesTo(q)' = S \cup {s}
    BY <1>2, <1>3, <1>4, <1>10, Zenon DEF ChargesTo
  <2> HIDE DEF f, h, S
  <2>2. SumFunctionOnSet(h, S \cup {s}) = h[s] + SumFunctionOnSet(f, S)
    <3>1. h[s] \in Int
      BY <1>4, <1>7
    <3> QED
      BY <1>6, <1>7, <3>1, SumGrow
  <2> QED
    BY <1>4, <1>7, <1>8, <1>9, <1>10, <2>1, <2>2, SMTT(30)
<1>11. CASE q # parent[c]
  <2>1. ChargesTo(q)' = S
    BY <1>2, <1>3, <1>4, <1>11, Zenon DEF ChargesTo
  <2> HIDE DEF f, h, S
  <2>2. SumFunctionOnSet(f, S) = SumFunctionOnSet(h, S)
    BY <1>6, <1>7, SumSame, Zenon
  <2> QED
    BY <1>8, <1>9, <1>11, <2>1, <2>2
<1> QED
  BY <1>10, <1>11, Zenon

(* Both sums are integers.                                                 *)
LEMMA LedgerSums ==
    ASSUME FiniteLaws, IInv, LedgersFinite, NEW q \in Envelope, NEW d \in Dimension
    PROVE  UsageSum(q, d) \in Int /\ ChargeSum(q, d) \in Int
<1> DEFINE f == [v \in usage |-> v.quantity]
           h == [t \in settlements |-> t.consumed[d]]
           U == UsageIn(q, d)
           S == ChargesTo(q)
<1>1. U \in SUBSET usage /\ S \in SUBSET settlements
  BY Zenon DEF UsageIn, UsageOf, ChargesTo
<1>2. (\A v \in usage : v.quantity \in Nat) /\ \A t \in settlements : t.consumed \in Vector
  BY Zenon DEF IInv, TypeOK
<1>3. \A t \in settlements : t.consumed[d] \in Nat
  BY <1>2, Zenon DEF Vector
<1>4. (\A v \in usage : f[v] \in Int) /\ \A t \in settlements : h[t] \in Int
  BY <1>2, <1>3
<1>5. IsFiniteSet(U) /\ IsFiniteSet(S)
  BY <1>1, FiniteSubset, Zenon DEF LedgersFinite
<1>6. UsageSum(q, d) = SumFunctionOnSet(f, U) /\ ChargeSum(q, d) = SumFunctionOnSet(h, S)
  BY Zenon DEF UsageSum, ChargeSum
<1> HIDE DEF f, h, U, S
<1>7. SumFunctionOnSet(f, U) \in Int
  BY <1>1, <1>4, <1>5, SumType, Zenon
<1>8. SumFunctionOnSet(h, S) \in Int
  BY <1>1, <1>4, <1>5, SumType, Zenon
<1> QED
  BY <1>6, <1>7, <1>8, Zenon

(* Both ledgers stay finite: every transaction adds at most one row.       *)
LEMMA NextFinite == FiniteLaws /\ LedgersFinite /\ [Next]_vars => LedgersFinite'
<1> SUFFICES ASSUME FiniteLaws, LedgersFinite, [Next]_vars PROVE LedgersFinite'
  BY Zenon
<1>1. ASSUME usage' = usage, settlements' = settlements PROVE LedgersFinite'
  BY <1>1, Zenon DEF LedgersFinite
<1>2. ASSUME NEW e, NEW D, NEW g, NEW lim, AdmitRun(e, D, g, lim) PROVE LedgersFinite'
  BY <1>1, <1>2, Zenon DEF AdmitRun
<1>3. ASSUME NEW p, NEW c, NEW g, NEW amounts, AdmitsChild(p, c, g, amounts) PROVE LedgersFinite'
  BY <1>1, <1>3, Zenon DEF AdmitsChild, AdmitChildRun
<1>4. ASSUME NEW s, NEW e, NEW b, NEW x, NEW disposition, RecordTrustedUsage(s, e, b, x, disposition)
      PROVE  LedgersFinite'
  <2>1. settlements' = settlements /\ \E u : usage' = usage \cup {u}
    BY <1>4, Zenon DEF RecordTrustedUsage
  <2> QED
    BY <2>1, FiniteAdd, Zenon DEF LedgersFinite
<1>5. ASSUME NEW k, NEW e, NEW added, ExtendResources(k, e, added) PROVE LedgersFinite'
  BY <1>1, <1>5, Zenon DEF ExtendResources
<1>6. ASSUME NEW c, Close(c) PROVE LedgersFinite'
  <2>1. usage' = usage /\ \E s : settlements' = settlements \cup {s}
    BY <1>6, Zenon DEF Close, InsertSettlement
  <2> QED
    BY <2>1, FiniteAdd, Zenon DEF LedgersFinite
<1>7. CASE UNCHANGED ledgerVars
  BY <1>1, <1>7, Zenon DEF ledgerVars
<1> QED
  BY <1>2, <1>3, <1>4, <1>5, <1>6, <1>7, LedgerTransactions, ZenonT(30)

(* What RecordTrustedUsage does to the balances, component by component.   *)
Spends(e, b, x) ==
    /\ available' = [available EXCEPT ![e][b] = @ - x]
    /\ consumed' = [consumed EXCEPT ![e][b] = @ + x]

(* What a trusted usage report does to the balances.                       *)
LEMMA UsageBalances ==
    ASSUME IInv, NEW e \in Envelope, NEW b \in Dimension, NEW x \in Nat,
           Spends(e, b, x), NEW q \in Envelope, NEW d \in Dimension
    PROVE  /\ available'[q][d] = available[q][d] - Share(q, d, e, b, x)
           /\ consumed'[q][d] = consumed[q][d] + Share(q, d, e, b, x)
<1>2. available \in [Envelope -> [Dimension -> Nat]] /\ consumed \in [Envelope -> [Dimension -> Nat]]
  BY Zenon DEF IInv, TypeOK, Vector
<1>3. available[q][d] \in Nat /\ consumed[q][d] \in Nat
  BY Amounts, Zenon
<1>4. available'[q][d] = available[q][d] - Share(q, d, e, b, x)
  BY <1>2, <1>3 DEF Share, Spends
<1>5. consumed'[q][d] = consumed[q][d] + Share(q, d, e, b, x)
  BY <1>2, <1>3 DEF Share, Spends
<1> QED
  BY <1>4, <1>5, Zenon

(* Consumption stays explained: metering adds an entry and its quantity, a *)
(* closing adds a settlement and its charge, and the parent of a settled   *)
(* child never changes.                                                    *)
LEMMA NextConsumption ==
    FiniteLaws /\ IInv /\ LedgersFinite /\ ConsumptionExplained /\ [Next]_vars => ConsumptionExplained'
<1> SUFFICES ASSUME FiniteLaws, IInv, LedgersFinite, ConsumptionExplained, [Next]_vars,
                    NEW q \in Envelope, NEW d \in Dimension
             PROVE  Explained(q, d)'
  BY Zenon DEF ConsumptionExplained, Explained, UsageSum, ChargeSum, UsageIn
<1>1. consumed[q][d] = UsageSum(q, d) + ChargeSum(q, d)
  BY Zenon DEF ConsumptionExplained, UsageSum, ChargeSum, UsageIn
<1>2. UsageSum(q, d) \in Int /\ ChargeSum(q, d) \in Int /\ consumed[q][d] \in Nat
  BY LedgerSums, Amounts, Zenon
<1>3. ASSUME usage' = usage PROVE UsageSum(q, d)' = UsageSum(q, d)
  BY <1>3, Zenon DEF UsageSum, UsageIn, UsageOf
<1>4. ASSUME settlements' = settlements, parent' = parent PROVE ChargeSum(q, d)' = ChargeSum(q, d)
  BY <1>4, Zenon DEF ChargeSum, ChargesTo
<1>5. ASSUME consumed' = consumed, usage' = usage, settlements' = settlements, parent' = parent
      PROVE  Explained(q, d)'
  BY <1>1, <1>3, <1>4, <1>5, Zenon DEF Explained
<1>6. ASSUME NEW p \in Envelope, NEW c \in Envelope, NEW g \in [Dimension -> GrantValue],
             NEW amounts \in [Dimension -> ReserveValue], AdmitsChild(p, c, g, amounts)
      PROVE  Explained(q, d)'
  <2>1. ChildAdmitted(p, c, g, amounts)
    BY <1>6, AdmissionOfChild, Zenon
  <2>2. /\ reservation[c] = "NONE" /\ parent' = [parent EXCEPT ![c] = p]
        /\ consumed' = consumed /\ usage' = usage /\ settlements' = settlements
    BY <2>1, Zenon DEF ChildAdmitted
  <2>3. \A s \in settlements : s.child \in Envelope /\ s.child # c
    BY <2>2, Zenon DEF IInv, TypeOK, SettledExactlyOnce, IsClosed, Closed
  <2>4. \A s \in settlements : parent'[s.child] = parent[s.child]
    <3>1. parent \in [Envelope -> Envelope \cup {None}]
      BY Zenon DEF IInv, TypeOK
    <3> QED
      BY <2>2, <2>3, <3>1, Zenon
  <2>5. ChargesTo(q)' = ChargesTo(q)
    BY <2>2, <2>4, Zenon DEF ChargesTo
  <2>6. ChargeSum(q, d)' = ChargeSum(q, d)
    BY <2>2, <2>5, Zenon DEF ChargeSum
  <2> QED
    BY <1>1, <1>3, <2>2, <2>6, Zenon DEF Explained
<1>7. ASSUME NEW s \in Source, NEW e \in Envelope, NEW b \in Dimension, NEW x \in UsageValue,
             NEW disposition, RecordTrustedUsage(s, e, b, x, disposition)
      PROVE  Explained(q, d)'
  <2>1. RecordedUsage(e, b, x) /\ x \in Nat
    BY <1>7, UsageEntry, Zenon
  <2>2. UsageSum(q, d)' = UsageSum(q, d) + Share(q, d, e, b, x)
    BY <2>1, UsageSumGrows, ZenonT(30)
  <2>3. consumed'[q][d] = consumed[q][d] + Share(q, d, e, b, x)
    <3>1. Spends(e, b, x)
      BY <1>7, Zenon DEF RecordTrustedUsage, Spends
    <3> QED
      BY <2>1, <3>1, UsageBalances
  <2>4. ChargeSum(q, d)' = ChargeSum(q, d)
    BY <1>4, <1>7, Zenon DEF RecordTrustedUsage
  <2>5. consumed'[q][d] = UsageSum(q, d)' + ChargeSum(q, d)'
    BY <1>1, <1>2, <2>1, <2>2, <2>3, <2>4 DEF Share
  <2> QED
    BY <2>5, Zenon DEF Explained
<1>8. ASSUME NEW c \in Envelope, Close(c) PROVE Explained(q, d)'
  <2>1. Credited(c)
    BY <1>8, Closing, Zenon
  <2>2. /\ consumed'[q][d] = consumed[q][d] + (IF q = parent[c] THEN Charged(c)[d] ELSE 0)
        /\ Charged(c)[d] \in Nat /\ usage' = usage
    BY <2>1, Zenon DEF Credited
  <2>3. ChargeSum(q, d)' = ChargeSum(q, d) + (IF q = parent[c] THEN Charged(c)[d] ELSE 0)
    BY <1>8, ChargeSumGrows, Zenon
  <2>4. UsageSum(q, d)' = UsageSum(q, d)
    BY <1>3, <2>2, Zenon
  <2>5. consumed'[q][d] = UsageSum(q, d)' + ChargeSum(q, d)'
    BY <1>1, <1>2, <2>2, <2>3, <2>4
  <2> QED
    BY <2>5, Zenon DEF Explained
<1>9. ASSUME NEW e, NEW D, NEW g, NEW lim, AdmitRun(e, D, g, lim) PROVE Explained(q, d)'
  BY <1>5, <1>9, Zenon DEF AdmitRun
<1>10. ASSUME NEW k, NEW e, NEW added, ExtendResources(k, e, added) PROVE Explained(q, d)'
  BY <1>5, <1>10, Zenon DEF ExtendResources
<1>11. CASE UNCHANGED ledgerVars
  BY <1>5, <1>11, Zenon DEF ledgerVars
<1> QED
  BY <1>6, <1>7, <1>8, <1>9, <1>10, <1>11, LedgerTransactions, ZenonT(30)
=============================================================================
