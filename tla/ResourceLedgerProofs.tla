------------------------ MODULE ResourceLedgerProofs ------------------------
(***************************************************************************)
(* Proofs of the properties of ResourceLedger, which add up ledgers and    *)
(* trees of envelopes, and of the counts of TopologyWithinLimits.  First   *)
(* how each transaction changes the sums over the whole tree, given the    *)
(* laws of finite sums (FiniteLaws of ResourceAccountingProofs); then the  *)
(* proof of these laws; then the theorems.                                 *)
(***************************************************************************)
EXTENDS ResourceAccountingProofs, FiniteSetTheorems

-----------------------------------------------------------------------------
(* The tree of envelopes *)

(* A capacity is issued to an envelope by its own grant and by extensions, *)
(* and is kept there unless the closing of the envelope returned it.       *)
Issue(d) == [e \in Envelope |-> granted[e][d] - reserved[e][d] + extended[e][d]]
Kept(d) == [e \in Envelope |-> IF IsClosed(e) /\ reserved[e][d] > 0 THEN 0 ELSE available[e][d]]
Held(d) == SumFunctionOnSet(Kept(d), Envelope)
Books(d) == Issued(d) = Metered(d) + Held(d)

(* Only children have reserved amounts.                                    *)
Unreserved == \A e \in Envelope : reservation[e] = "NONE" => reserved[e] = Zero

(* A closed envelope has no allocation left in the dimensions its closing  *)
(* returned, unless a child was reserved from it afterwards.               *)
ReturnedWhole ==
    late = {} =>
        \A p \in Envelope, d \in Dimension :
            IsClosed(p) /\ reserved[p][d] > 0 => allocated[p][d] = 0

BooksBalance == late = {} => \A d \in Dimension : Books(d)

(* The summands and the sums are integers.                                 *)
LEMMA TreeTypes ==
    ASSUME FiniteLaws, IInv, LedgersFinite, NEW d \in Dimension
    PROVE  /\ \A e \in Envelope : Issue(d)[e] \in Int /\ Kept(d)[e] \in Int
           /\ Issued(d) \in Int /\ Held(d) \in Int /\ Metered(d) \in Int
<1>1. \A e \in Envelope : Issue(d)[e] \in Int /\ Kept(d)[e] \in Int
  <2> SUFFICES ASSUME NEW e \in Envelope PROVE Issue(d)[e] \in Int /\ Kept(d)[e] \in Int
    BY Zenon
  <2>1. /\ granted[e][d] \in Nat /\ extended[e][d] \in Nat /\ reserved[e][d] \in Nat
        /\ available[e][d] \in Nat
    BY Amounts, Zenon
  <2> QED
    BY <2>1 DEF Issue, Kept
<1>2. SumFunctionOnSet(Issue(d), Envelope) \in Int
  BY <1>1, FiniteAssumption, SumType, Zenon
<1>3. SumFunctionOnSet(Kept(d), Envelope) \in Int
  BY <1>1, FiniteAssumption, SumType, Zenon
<1>4. Metered(d) \in Int
  <2> DEFINE f == [v \in usage |-> v.quantity]
             U == {v \in usage : v.dim = d}
  <2>1. U \in SUBSET usage /\ \A v \in usage : v.quantity \in Nat
    BY Zenon DEF IInv, TypeOK
  <2>2. IsFiniteSet(U) /\ \A v \in U : f[v] \in Int
    BY <2>1, FiniteSubset DEF LedgersFinite
  <2>3. Metered(d) = SumFunctionOnSet(f, U)
    BY Zenon DEF Metered
  <2> HIDE DEF f, U
  <2>4. SumFunctionOnSet(f, U) \in Int
    BY <2>2, SumType, Zenon
  <2> QED
    BY <2>3, <2>4, Zenon
<1> QED
  BY <1>1, <1>2, <1>3, <1>4, Zenon DEF Issued, Issue, Held

(* Issued capacity changes with the summand of one envelope.               *)
LEMMA IssuedChanges ==
    ASSUME FiniteLaws, IInv, LedgersFinite, NEW d \in Dimension, NEW e \in Envelope, NEW v \in Int,
           Issue(d)'[e] = Issue(d)[e] + v,
           \A x \in Envelope \ {e} : Issue(d)'[x] = Issue(d)[x]
    PROVE  Issued(d)' = Issued(d) + v
<1>1. (\A x \in Envelope : Issue(d)[x] \in Int) /\ Issued(d) \in Int
  BY TreeTypes, Zenon
<1>2. \A x \in Envelope : Issue(d)[x] \in Int /\ Issue(d)'[x] \in Int
  BY <1>1
<1>3. SumFunctionOnSet(Issue(d)', Envelope)
         = SumFunctionOnSet(Issue(d), Envelope) - Issue(d)[e] + Issue(d)'[e]
  BY <1>2, FiniteAssumption, SumChange
<1>4. /\ Issued(d) = SumFunctionOnSet(Issue(d), Envelope)
      /\ Issued(d)' = SumFunctionOnSet(Issue(d)', Envelope)
  BY Zenon DEF Issued, Issue
<1> QED
  BY <1>1, <1>3, <1>4

(* Capacity kept changes with the summand of one envelope.                 *)
LEMMA HeldChanges ==
    ASSUME FiniteLaws, IInv, LedgersFinite, NEW d \in Dimension, NEW e \in Envelope, NEW v \in Int,
           Kept(d)'[e] = Kept(d)[e] + v,
           \A x \in Envelope \ {e} : Kept(d)'[x] = Kept(d)[x]
    PROVE  Held(d)' = Held(d) + v
<1>1. (\A x \in Envelope : Kept(d)[x] \in Int) /\ Held(d) \in Int
  BY TreeTypes, Zenon
<1>2. \A x \in Envelope : Kept(d)[x] \in Int /\ Kept(d)'[x] \in Int
  BY <1>1
<1>3. SumFunctionOnSet(Kept(d)', Envelope)
         = SumFunctionOnSet(Kept(d), Envelope) - Kept(d)[e] + Kept(d)'[e]
  BY <1>2, FiniteAssumption, SumChange
<1>4. /\ Held(d) = SumFunctionOnSet(Kept(d), Envelope)
      /\ Held(d)' = SumFunctionOnSet(Kept(d)', Envelope)
  BY Zenon DEF Held
<1> QED
  BY <1>1, <1>3, <1>4

(* Capacity kept when the summands of two envelopes change.                *)
LEMMA HeldMoves ==
    ASSUME FiniteLaws, IInv, LedgersFinite, NEW d \in Dimension, NEW e \in Envelope, NEW v \in Int,
           NEW b \in Envelope, NEW w \in Int, e # b,
           Kept(d)'[e] = Kept(d)[e] + v, Kept(d)'[b] = Kept(d)[b] + w,
           \A x \in Envelope \ {e, b} : Kept(d)'[x] = Kept(d)[x]
    PROVE  Held(d)' = Held(d) + v + w
<1>1. (\A x \in Envelope : Kept(d)[x] \in Int) /\ Held(d) \in Int
  BY TreeTypes, Zenon
<1>2. \A x \in Envelope : Kept(d)[x] \in Int /\ Kept(d)'[x] \in Int
  BY <1>1, SMTT(30)
<1>3. SumFunctionOnSet(Kept(d)', Envelope)
         = SumFunctionOnSet(Kept(d), Envelope)
           + (Kept(d)'[e] - Kept(d)[e]) + (Kept(d)'[b] - Kept(d)[b])
  BY <1>2, FiniteAssumption, SumChangeTwo
<1>4. /\ Held(d) = SumFunctionOnSet(Kept(d), Envelope)
      /\ Held(d)' = SumFunctionOnSet(Kept(d)', Envelope)
  BY Zenon DEF Held
<1> QED
  BY <1>1, <1>3, <1>4

(* Kept capacity is what is spendable or forfeited.                        *)
LEMMA HeldSplits ==
    ASSUME FiniteLaws, IInv, NEW d \in Dimension
    PROVE  Held(d) = Spendable(d) + Forfeited(d)
<1> DEFINE f == [e \in Envelope |-> available[e][d]]
           live == {e \in Envelope : ~IsClosed(e)}
           rest == Envelope \ live
           lost == {e \in Envelope : IsClosed(e) /\ reserved[e][d] = 0}
           spent == rest \ lost
           k == Kept(d)
<1>1. Spendable(d) = SumFunctionOnSet(f, live) /\ Forfeited(d) = SumFunctionOnSet(f, lost)
  BY Zenon DEF Spendable, Forfeited, AvailableIn
<1>2. Held(d) = SumFunctionOnSet(k, Envelope)
  BY Zenon DEF Held
<1>3. \A e \in Envelope : available[e][d] \in Nat /\ reserved[e][d] \in Nat
  BY Amounts, Zenon
<1>4. /\ \A e \in Envelope : k[e] \in Int
      /\ \A e \in live : f[e] = k[e]
      /\ \A e \in lost : f[e] = k[e]
      /\ \A e \in spent : k[e] = 0
  BY <1>3 DEF Kept
<1>5. /\ live \in SUBSET Envelope /\ lost \in SUBSET rest
      /\ rest \in SUBSET Envelope /\ spent \in SUBSET Envelope /\ lost \in SUBSET Envelope
  BY Zenon
<1>6. IsFiniteSet(live) /\ IsFiniteSet(rest) /\ IsFiniteSet(lost) /\ IsFiniteSet(spent)
  <2> HIDE DEF live, rest, lost, spent
  <2> QED
    BY <1>5, FiniteAssumption, FiniteSubset, Zenon
<1> HIDE DEF f, live, lost, k
<1>7. SumFunctionOnSet(k, Envelope) = SumFunctionOnSet(k, live) + SumFunctionOnSet(k, rest)
  BY <1>4, <1>5, FiniteAssumption, SumSplit
<1>8. SumFunctionOnSet(k, rest) = SumFunctionOnSet(k, lost) + SumFunctionOnSet(k, spent)
  <2>1. \A e \in rest : k[e] \in Int
    BY <1>4, <1>5, Zenon
  <2> HIDE DEF rest
  <2> QED
    BY <1>5, <1>6, <2>1, SumSplit
<1> HIDE DEF rest, spent
<1>9. SumFunctionOnSet(k, spent) = 0
  BY <1>4, <1>6, SumZero, Zenon
<1>10. SumFunctionOnSet(f, live) = SumFunctionOnSet(k, live)
  BY <1>4, <1>6, SumSame, Zenon
<1>11. SumFunctionOnSet(f, lost) = SumFunctionOnSet(k, lost)
  BY <1>4, <1>6, SumSame, Zenon
<1>12. \A e \in live \cup lost : k[e] \in Int
  BY <1>4, <1>5, Zenon
<1>13. SumFunctionOnSet(k, live) \in Int
  BY <1>6, <1>12, SumType, Zenon
<1>14. SumFunctionOnSet(k, lost) \in Int
  BY <1>6, <1>12, SumType, Zenon
<1> QED
  BY <1>1, <1>2, <1>7, <1>8, <1>9, <1>10, <1>11, <1>13, <1>14

(* Only the admission of a child writes reserved amounts.                  *)
LEMMA NextUnreserved == IInv /\ Unreserved /\ [Next]_vars => Unreserved'
<1> SUFFICES ASSUME IInv, Unreserved, [Next]_vars PROVE Unreserved'
  BY Zenon
<1>1. ASSUME reservation' = reservation, reserved' = reserved PROVE Unreserved'
  BY <1>1, Zenon DEF Unreserved
<1>2. ASSUME NEW e, NEW D, NEW g, NEW lim, AdmitRun(e, D, g, lim) PROVE Unreserved'
  BY <1>1, <1>2, Zenon DEF AdmitRun, reservationVars
<1>3. ASSUME NEW p \in Envelope, NEW c \in Envelope, NEW g \in [Dimension -> GrantValue],
             NEW amounts \in [Dimension -> ReserveValue], AdmitsChild(p, c, g, amounts)
      PROVE  Unreserved'
  <2>1. ChildAdmitted(p, c, g, amounts)
    BY <1>3, AdmissionOfChild, Zenon
  <2>2. /\ reservation' = [reservation EXCEPT ![c] = "OPEN"]
        /\ reserved' = [reserved EXCEPT ![c] = amounts]
    BY <2>1, Zenon DEF ChildAdmitted
  <2>3. reservation \in [Envelope -> {"NONE", "OPEN"} \cup Closed] /\ reserved \in [Envelope -> Vector]
    BY Zenon DEF IInv, TypeOK
  <2> QED
    BY <2>2, <2>3, Zenon DEF Unreserved
<1>4. ASSUME NEW s, NEW e, NEW b, NEW x, NEW disposition, RecordTrustedUsage(s, e, b, x, disposition)
      PROVE  Unreserved'
  BY <1>1, <1>4, Zenon DEF RecordTrustedUsage, reservationVars
<1>5. ASSUME NEW k, NEW e, NEW added, ExtendResources(k, e, added) PROVE Unreserved'
  BY <1>1, <1>5, Zenon DEF ExtendResources, reservationVars
<1>6. ASSUME NEW c \in Envelope, Close(c) PROVE Unreserved'
  <2>1. Credited(c)
    BY <1>6, Closing, Zenon
  <2>2. /\ reservation'[c] \in Closed /\ reserved' = reserved
        /\ \A e \in Envelope \ {c} : reservation'[e] = reservation[e]
    BY <2>1, Zenon DEF Credited
  <2>3. "NONE" \notin Closed
    BY Zenon DEF Closed
  <2> QED
    BY <2>2, <2>3, Zenon DEF Unreserved
<1>7. CASE UNCHANGED ledgerVars
  BY <1>1, <1>7, Zenon DEF ledgerVars
<1> QED
  BY <1>2, <1>3, <1>4, <1>5, <1>6, <1>7, LedgerTransactions, ZenonT(30)

WholeAt(p, d) == IsClosed(p) /\ reserved[p][d] > 0 => allocated[p][d] = 0

(* A closing requires that nothing is allocated in the dimensions it       *)
(* returns, and only an admission counted in late allocates there again.   *)
LEMMA NextReturned == IInv /\ ReturnedWhole /\ [Next]_vars => ReturnedWhole'
<1> SUFFICES ASSUME IInv, ReturnedWhole, [Next]_vars, late' = {},
                    NEW q \in Envelope, NEW d \in Dimension
             PROVE  WholeAt(q, d)'
  BY Zenon DEF ReturnedWhole, WholeAt
<1>1. ASSUME late = {} PROVE WholeAt(q, d)
  BY <1>1, Zenon DEF ReturnedWhole, WholeAt
<1>2. ASSUME late' = late, reservation' = reservation, reserved' = reserved, allocated' = allocated
      PROVE  WholeAt(q, d)'
  BY <1>1, <1>2, Zenon DEF WholeAt, IsClosed
<1>3. ASSUME NEW p \in Envelope, NEW c \in Envelope, NEW g \in [Dimension -> GrantValue],
             NEW amounts \in [Dimension -> ReserveValue], AdmitsChild(p, c, g, amounts)
      PROVE  WholeAt(q, d)'
  <2>1. ChildAdmitted(p, c, g, amounts)
    BY <1>3, AdmissionOfChild, Zenon
  <2>2. /\ reservation' = [reservation EXCEPT ![c] = "OPEN"]
        /\ reserved' = [reserved EXCEPT ![c] = amounts]
        /\ allocated' = [allocated EXCEPT ![p] = Plus(@, amounts)]
        /\ IsClosed(p) => c \in late'
        /\ late \subseteq late'
    BY <2>1, Zenon DEF ChildAdmitted
  <2>3. late = {} /\ ~IsClosed(p)
    BY <2>2, Zenon
  <2>4. /\ reservation \in [Envelope -> {"NONE", "OPEN"} \cup Closed]
        /\ reserved \in [Envelope -> Vector] /\ allocated \in [Envelope -> Vector]
    BY Zenon DEF IInv, TypeOK
  <2>5. "OPEN" \notin Closed
    BY Zenon DEF Closed
  <2>6. CASE q = c
    BY <2>2, <2>4, <2>5, <2>6, Zenon DEF WholeAt, IsClosed
  <2>7. CASE q = p /\ q # c
    BY <2>2, <2>3, <2>4, <2>7, Zenon DEF WholeAt, IsClosed
  <2>8. CASE q # p /\ q # c
    <3>1. reservation'[q] = reservation[q] /\ reserved'[q] = reserved[q] /\ allocated'[q] = allocated[q]
      BY <2>2, <2>4, <2>8, Zenon
    <3> QED
      BY <1>1, <2>3, <3>1, Zenon DEF WholeAt, IsClosed
  <2> QED
    BY <2>6, <2>7, <2>8, Zenon
<1>4. ASSUME NEW c \in Envelope, Close(c) PROVE WholeAt(q, d)'
  <2>1. Credited(c)
    BY <1>4, Closing, Zenon
  <2>2. /\ parent[c] # c /\ BalanceSettles(c) /\ late' = late /\ reserved' = reserved
        /\ \A e \in Envelope \ {c} : reservation'[e] = reservation[e]
        /\ allocated'[q][d] = allocated[q][d] - (IF q = parent[c] THEN reserved[c][d] ELSE 0)
        /\ reserved[c][d] <= allocated[parent[c]][d]
    BY <2>1, Zenon DEF Credited
  <2>3. allocated[q][d] \in Nat /\ reserved[c][d] \in Nat /\ reserved[q][d] \in Nat
    BY Amounts, Zenon
  <2>4. CASE q = c
    <3>1. allocated'[q][d] = allocated[q][d]
      BY <2>2, <2>3, <2>4
    <3>2. reserved[q][d] > 0 => allocated[q][d] = 0
      BY <2>2, <2>4, Zenon DEF BalanceSettles, Support
    <3> QED
      BY <2>2, <3>1, <3>2, Zenon DEF WholeAt
  <2>5. CASE q # c
    <3>1. reservation'[q] = reservation[q]
      BY <2>2, <2>5, Zenon
    <3>2. WholeAt(q, d)
      BY <1>1, <2>2, Zenon
    <3>3. allocated[q][d] = 0 => allocated'[q][d] = 0
      BY <2>2, <2>3
    <3> QED
      BY <2>2, <3>1, <3>2, <3>3, Zenon DEF WholeAt, IsClosed
  <2> QED
    BY <2>4, <2>5, Zenon
<1>5. ASSUME NEW e, NEW D, NEW g, NEW lim, AdmitRun(e, D, g, lim) PROVE WholeAt(q, d)'
  BY <1>2, <1>5, Zenon DEF AdmitRun, reservationVars
<1>6. ASSUME NEW s, NEW e, NEW b, NEW x, NEW disposition, RecordTrustedUsage(s, e, b, x, disposition)
      PROVE  WholeAt(q, d)'
  BY <1>2, <1>6, Zenon DEF RecordTrustedUsage, reservationVars
<1>7. ASSUME NEW k, NEW e, NEW added, ExtendResources(k, e, added) PROVE WholeAt(q, d)'
  BY <1>2, <1>7, Zenon DEF ExtendResources, reservationVars
<1>8. CASE UNCHANGED ledgerVars
  BY <1>2, <1>8, ZenonT(30) DEF ledgerVars
<1> QED
  BY <1>3, <1>4, <1>5, <1>6, <1>7, <1>8, LedgerTransactions, ZenonT(30)

(* The summands of an envelope whose row does not change stay as they are. *)
LEMMA SameSummands ==
    ASSUME NEW d \in Dimension, NEW e \in Envelope
    PROVE  /\ granted'[e][d] = granted[e][d] /\ reserved'[e][d] = reserved[e][d]
              /\ extended'[e][d] = extended[e][d]
              => Issue(d)'[e] = Issue(d)[e]
           /\ (IsClosed(e)' <=> IsClosed(e)) /\ reserved'[e][d] = reserved[e][d]
              /\ available'[e][d] = available[e][d]
              => Kept(d)'[e] = Kept(d)[e]
<1>1. /\ Issue(d)[e] = granted[e][d] - reserved[e][d] + extended[e][d]
      /\ Issue(d)'[e] = granted'[e][d] - reserved'[e][d] + extended'[e][d]
  BY Zenon DEF Issue
<1>2. Kept(d)[e] = IF IsClosed(e) /\ reserved[e][d] > 0 THEN 0 ELSE available[e][d]
  BY Zenon DEF Kept
<1>3. Kept(d)'[e] = IF IsClosed(e)' /\ reserved'[e][d] > 0 THEN 0 ELSE available'[e][d]
  BY Zenon DEF Kept
<1>4. ASSUME granted'[e][d] = granted[e][d], reserved'[e][d] = reserved[e][d],
             extended'[e][d] = extended[e][d]
      PROVE  Issue(d)'[e] = Issue(d)[e]
  BY <1>1, <1>4, Zenon
<1>5. ASSUME IsClosed(e)' <=> IsClosed(e), reserved'[e][d] = reserved[e][d],
             available'[e][d] = available[e][d]
      PROVE  Kept(d)'[e] = Kept(d)[e]
  <2>1. CASE IsClosed(e) /\ reserved[e][d] > 0
    <3>1. IsClosed(e)' /\ reserved'[e][d] > 0
      BY <1>5, <2>1, Zenon
    <3> QED
      BY <1>2, <1>3, <2>1, <3>1, Zenon
  <2>2. CASE ~(IsClosed(e) /\ reserved[e][d] > 0)
    <3>1. ~(IsClosed(e)' /\ reserved'[e][d] > 0)
      BY <1>5, <2>2, Zenon
    <3> QED
      BY <1>2, <1>3, <1>5, <2>2, <3>1, Zenon
  <2> QED
    BY <2>1, <2>2, Zenon
<1> QED
  BY <1>4, <1>5, Zenon

(* What is metered does not change without a usage entry.                  *)
LEMMA SameMetered == ASSUME NEW d, usage' = usage PROVE Metered(d)' = Metered(d)
BY Zenon DEF Metered

(* The summands, written out.                                              *)
LEMMA Summands ==
    ASSUME NEW d \in Dimension, NEW e \in Envelope
    PROVE  /\ Issue(d)[e] = granted[e][d] - reserved[e][d] + extended[e][d]
           /\ Issue(d)'[e] = granted'[e][d] - reserved'[e][d] + extended'[e][d]
           /\ ~IsClosed(e) => Kept(d)[e] = available[e][d]
           /\ ~IsClosed(e)' => Kept(d)'[e] = available'[e][d]
<1>1. /\ Issue(d)[e] = granted[e][d] - reserved[e][d] + extended[e][d]
      /\ Issue(d)'[e] = granted'[e][d] - reserved'[e][d] + extended'[e][d]
  BY Zenon DEF Issue
<1>2. Kept(d)[e] = IF IsClosed(e) /\ reserved[e][d] > 0 THEN 0 ELSE available[e][d]
  BY Zenon DEF Kept
<1>3. Kept(d)'[e] = IF IsClosed(e)' /\ reserved'[e][d] > 0 THEN 0 ELSE available'[e][d]
  BY Zenon DEF Kept
<1> QED
  BY <1>1, <1>2, <1>3, Zenon

(* AdmitRun issues its grant.                                              *)
LEMMA BooksAdmitRun ==
    ASSUME FiniteLaws, IInv, LedgersFinite, NEW d \in Dimension, Books(d), NEW e \in Envelope, NEW D,
           NEW g \in [Dimension -> GrantValue], NEW lim, AdmitRun(e, D, g, lim)
    PROVE  Books(d)'
<1>1. /\ run[e] = "ABSENT"
      /\ granted' = [granted EXCEPT ![e] = g] /\ available' = [available EXCEPT ![e] = g]
      /\ reserved' = reserved /\ extended' = extended /\ reservation' = reservation /\ usage' = usage
  BY Zenon DEF AdmitRun, reservationVars
<1>2. g[d] \in Nat
  BY RequestVector, Zenon DEF Vector
<1>3. /\ reservation[e] = "NONE" /\ granted[e][d] = 0 /\ extended[e][d] = 0 /\ available[e][d] = 0
  BY <1>1, Zenon DEF IInv, Fresh
<1>4. granted \in [Envelope -> Vector] /\ available \in [Envelope -> Vector]
  BY Zenon DEF IInv, TypeOK
<1>5. granted'[e] = g /\ available'[e] = g
  BY <1>1, <1>4, Zenon
<1>6. \A x \in Envelope \ {e} : granted'[x] = granted[x] /\ available'[x] = available[x]
  BY <1>1, <1>4, Zenon
<1>7. ~IsClosed(e) /\ ~IsClosed(e)' /\ \A x : IsClosed(x)' <=> IsClosed(x)
  BY <1>1, <1>3, Zenon DEF IsClosed, Closed
<1>8. reserved[e][d] \in Nat
  BY Amounts, ZenonT(30)
<1>9. Issue(d)'[e] = Issue(d)[e] + g[d]
  <2>1. /\ Issue(d)[e] = granted[e][d] - reserved[e][d] + extended[e][d]
        /\ Issue(d)'[e] = granted'[e][d] - reserved'[e][d] + extended'[e][d]
    BY Summands, ZenonT(30)
  <2> QED
    BY <1>1, <1>2, <1>3, <1>5, <1>8, <2>1
<1>10. Kept(d)'[e] = Kept(d)[e] + g[d]
  BY <1>2, <1>3, <1>5, <1>7, Summands, SMTT(30)
<1>11. \A x \in Envelope \ {e} : Issue(d)'[x] = Issue(d)[x] /\ Kept(d)'[x] = Kept(d)[x]
  BY <1>1, <1>6, <1>7, SameSummands, Zenon
<1>12. g[d] \in Int
  BY <1>2, SMTT(30)
<1>13. Issued(d)' = Issued(d) + g[d]
  BY <1>9, <1>11, <1>12, IssuedChanges, Zenon
<1>14. Held(d)' = Held(d) + g[d]
  BY <1>10, <1>11, <1>12, HeldChanges, Zenon
<1>15. Metered(d)' = Metered(d)
  BY <1>1, SameMetered, Zenon
<1>16. Issued(d) \in Int /\ Held(d) \in Int /\ Metered(d) \in Int
  BY TreeTypes, Zenon
<1> QED
  BY <1>12, <1>13, <1>14, <1>15, <1>16 DEF Books

(* ExtendResources issues what it adds, to a run that is not closed.       *)
LEMMA BooksExtend ==
    ASSUME FiniteLaws, IInv, LedgersFinite, NEW d \in Dimension, Books(d), NEW k, NEW e \in Envelope,
           NEW added \in [Dimension -> ExtendValue], ExtendResources(k, e, added)
    PROVE  Books(d)'
<1>1. /\ ~Terminal(run[e])
      /\ extended' = [extended EXCEPT ![e] = Plus(@, added)]
      /\ available' = [available EXCEPT ![e] = Plus(@, added)]
      /\ reserved' = reserved /\ granted' = granted /\ reservation' = reservation /\ usage' = usage
  BY Zenon DEF ExtendResources, Extendable, reservationVars
<1>2. added[d] \in Nat
  BY RequestVector, Zenon DEF Vector
<1>3. ~IsClosed(e)
  BY <1>1, ClosedIsTerminal, Zenon
<1>4. extended \in [Envelope -> Vector] /\ available \in [Envelope -> Vector]
  BY Zenon DEF IInv, TypeOK
<1>5. extended'[e] = Plus(extended[e], added) /\ available'[e] = Plus(available[e], added)
  BY <1>1, <1>4, Zenon
<1>6. \A x \in Envelope \ {e} : extended'[x] = extended[x] /\ available'[x] = available[x]
  BY <1>1, <1>4, Zenon
<1>7. extended'[e][d] = extended[e][d] + added[d] /\ available'[e][d] = available[e][d] + added[d]
  BY <1>5, Zenon DEF Plus
<1>8. ~IsClosed(e)' /\ \A x : IsClosed(x)' <=> IsClosed(x)
  BY <1>1, <1>3, Zenon DEF IsClosed
<1>9. /\ granted[e][d] \in Nat /\ reserved[e][d] \in Nat /\ extended[e][d] \in Nat
      /\ available[e][d] \in Nat
  BY Amounts, ZenonT(30)
<1>10. Issue(d)'[e] = Issue(d)[e] + added[d]
  <2>1. /\ Issue(d)[e] = granted[e][d] - reserved[e][d] + extended[e][d]
        /\ Issue(d)'[e] = granted'[e][d] - reserved'[e][d] + extended'[e][d]
    BY Summands, ZenonT(30)
  <2> QED
    BY <1>1, <1>2, <1>7, <1>9, <2>1
<1>11. Kept(d)'[e] = Kept(d)[e] + added[d]
  BY <1>3, <1>7, <1>8, Summands, Zenon
<1>12. \A x \in Envelope \ {e} : Issue(d)'[x] = Issue(d)[x] /\ Kept(d)'[x] = Kept(d)[x]
  BY <1>1, <1>6, <1>8, SameSummands, Zenon
<1>13. added[d] \in Int
  BY <1>2, SMTT(30)
<1>14. Issued(d)' = Issued(d) + added[d]
  BY <1>10, <1>12, <1>13, IssuedChanges, Zenon
<1>15. Held(d)' = Held(d) + added[d]
  BY <1>11, <1>12, <1>13, HeldChanges, Zenon
<1>16. Metered(d)' = Metered(d)
  BY <1>1, SameMetered, Zenon
<1>17. Issued(d) \in Int /\ Held(d) \in Int /\ Metered(d) \in Int
  BY TreeTypes, Zenon
<1> QED
  BY <1>13, <1>14, <1>15, <1>16, <1>17 DEF Books

(* RecordTrustedUsage moves the quantity from a live envelope into what is *)
(* metered.                                                                *)
LEMMA MeteredGrows ==
    ASSUME FiniteLaws, IInv, LedgersFinite, NEW e \in Envelope, NEW b \in Dimension, NEW x \in Nat,
           RecordedUsage(e, b, x), NEW d \in Dimension
    PROVE  Metered(d)' = Metered(d) + Share(e, d, e, b, x)
<1> DEFINE f == [v \in usage |-> v.quantity]
           h == [v \in usage' |-> v.quantity]
           S == {v \in usage : v.dim = d}
           T == {v \in usage' : v.dim = d}
<1>1. PICK u \in [source : Source, run : Envelope, dim : Dimension, quantity : Nat] :
         /\ u \notin usage
         /\ u.run = e /\ u.dim = b /\ u.quantity = x
         /\ usage' = usage \cup {u}
  BY Zenon DEF RecordedUsage
<1>2. \A v \in usage : v.quantity \in Nat
  BY Zenon DEF IInv, TypeOK
<1>3. S \subseteq usage /\ u \notin S /\ IsFiniteSet(S)
  <2>1. S \in SUBSET usage
    BY Zenon
  <2> QED
    BY <1>1, <2>1, FiniteSubset, Zenon DEF LedgersFinite
<1>4. /\ \A v \in S : f[v] = h[v] /\ f[v] \in Int
      /\ h[u] = x
  BY <1>1, <1>2, <1>3
<1>5. Metered(d) = SumFunctionOnSet(f, S) /\ Metered(d)' = SumFunctionOnSet(h, T)
  BY ZenonT(30) DEF Metered
<1>6. SumFunctionOnSet(f, S) \in Int
  <2> HIDE DEF f, S
  <2> QED
    BY <1>3, <1>4, SumType, Zenon
<1>7. CASE d = b
  <2>1. T = S \cup {u}
    BY <1>1, <1>7, Zenon
  <2> HIDE DEF f, h, S, T
  <2>2. SumFunctionOnSet(h, S \cup {u}) = h[u] + SumFunctionOnSet(f, S)
    BY <1>3, <1>4, SumGrow
  <2> QED
    BY <1>4, <1>5, <1>6, <1>7, <2>1, <2>2, SMTT(30) DEF Share
<1>8. CASE d # b
  <2>1. T = S
    BY <1>1, <1>8, Zenon
  <2> HIDE DEF f, h, S, T
  <2>2. SumFunctionOnSet(f, S) = SumFunctionOnSet(h, S)
    BY <1>3, <1>4, SumSame, Zenon
  <2> QED
    BY <1>5, <1>6, <1>8, <2>1, <2>2 DEF Share
<1> QED
  BY <1>7, <1>8, Zenon

(* RecordTrustedUsage keeps the books.                                     *)
LEMMA BooksUsage ==
    ASSUME FiniteLaws, IInv, LedgersFinite, NEW d \in Dimension, Books(d), NEW s \in Source, NEW e \in Envelope,
           NEW b \in Dimension, NEW x \in UsageValue, NEW disposition,
           RecordTrustedUsage(s, e, b, x, disposition)
    PROVE  Books(d)'
<1>1. /\ ~IsClosed(e) /\ Spends(e, b, x)
      /\ granted' = granted /\ extended' = extended /\ reserved' = reserved
      /\ reservation' = reservation
  BY Zenon DEF RecordTrustedUsage, UsageAccepted, Spends, grantVars, reservationVars
<1>2. RecordedUsage(e, b, x) /\ x \in Nat
  BY UsageEntry, ZenonT(30)
<1>3. \A q \in Envelope : available'[q][d] = available[q][d] - Share(q, d, e, b, x)
  BY <1>1, <1>2, UsageBalances
<1> DEFINE v == Share(e, d, e, b, x)
<1>4. v \in Nat /\ (0 - v) \in Int
  BY <1>2 DEF Share
<1>5. \A q \in Envelope \ {e} : Share(q, d, e, b, x) = 0
  BY Zenon DEF Share
<1>6. \A q \in Envelope : available[q][d] \in Nat
  BY Amounts, ZenonT(30)
<1> HIDE DEF v
<1>7. available'[e][d] = available[e][d] + (0 - v)
  <2>1. available'[e][d] = available[e][d] - v
    BY <1>3, ZenonT(30) DEF v
  <2> QED
    BY <1>4, <1>6, <2>1
<1>8. \A q \in Envelope \ {e} : available'[q][d] = available[q][d]
  BY <1>3, <1>5, <1>6
<1>9. ~IsClosed(e)' /\ \A q : IsClosed(q)' <=> IsClosed(q)
  BY <1>1, Zenon DEF IsClosed
<1>10. Kept(d)'[e] = Kept(d)[e] + (0 - v)
  BY <1>1, <1>7, <1>9, Summands, ZenonT(30)
<1>11. \A q \in Envelope \ {e} : Kept(d)'[q] = Kept(d)[q]
  BY <1>1, <1>8, <1>9, SameSummands, Zenon
<1>12. Held(d)' = Held(d) + (0 - v)
  BY <1>4, <1>10, <1>11, HeldChanges, Zenon
<1>13. Issued(d)' = Issued(d)
  BY <1>1, Zenon DEF Issued
<1>14. Metered(d)' = Metered(d) + v
  BY <1>2, MeteredGrows, Zenon DEF v
<1>15. Issued(d) \in Int /\ Held(d) \in Int /\ Metered(d) \in Int
  BY TreeTypes, Zenon
<1> QED
  BY <1>4, <1>12, <1>13, <1>14, <1>15 DEF Books

(* AdmitChildRun issues the child's own grant, and moves the reserved      *)
(* amount from a live parent to the child.                                 *)
LEMMA BooksAdmitChild ==
    ASSUME FiniteLaws, IInv, LedgersFinite, Unreserved, NEW d \in Dimension, Books(d),
           NEW p \in Envelope, NEW c \in Envelope, NEW g, NEW amounts,
           ChildAdmitted(p, c, g, amounts), late' = {}
    PROVE  Books(d)'
<1>1. /\ p # c /\ run[c] = "ABSENT" /\ reservation[c] = "NONE"
      /\ g \in Vector /\ amounts \in Vector
      /\ reservation' = [reservation EXCEPT ![c] = "OPEN"]
      /\ reserved' = [reserved EXCEPT ![c] = amounts]
      /\ granted' = [granted EXCEPT ![c] = Plus(g, amounts)]
      /\ available' = [available EXCEPT ![p] = Minus(@, amounts), ![c] = Plus(g, amounts)]
      /\ IsClosed(p) => c \in late'
      /\ extended' = extended /\ usage' = usage
  BY Zenon DEF ChildAdmitted
<1>2. ~IsClosed(p)
  BY <1>1, Zenon
<1>3. g[d] \in Nat /\ amounts[d] \in Nat
  BY <1>1, Zenon DEF Vector
<1>4. /\ granted[c][d] = 0 /\ extended[c][d] = 0 /\ available[c][d] = 0
  BY <1>1, Zenon DEF IInv, Fresh
<1>5. reserved[c][d] = 0
  BY <1>1, Zenon DEF Unreserved, Zero
<1>6. /\ reservation \in [Envelope -> {"NONE", "OPEN"} \cup Closed]
      /\ reserved \in [Envelope -> Vector] /\ granted \in [Envelope -> Vector]
      /\ available \in [Envelope -> Vector]
  BY Zenon DEF IInv, TypeOK
<1>7. /\ reservation'[c] = "OPEN" /\ reserved'[c] = amounts /\ granted'[c] = Plus(g, amounts)
      /\ available'[c] = Plus(g, amounts) /\ available'[p] = Minus(available[p], amounts)
  BY <1>1, <1>6, Zenon
<1>8. /\ granted'[c][d] = g[d] + amounts[d]
      /\ available'[c][d] = g[d] + amounts[d]
      /\ available'[p][d] = available[p][d] - amounts[d]
  BY <1>7, Zenon DEF Plus, Minus
<1>9. \A x \in Envelope \ {c} :
         reservation'[x] = reservation[x] /\ reserved'[x] = reserved[x] /\ granted'[x] = granted[x]
  BY <1>1, <1>6, Zenon
<1>10. \A x \in Envelope \ {p, c} : available'[x] = available[x]
  BY <1>1, <1>6, Zenon
<1>11. /\ ~IsClosed(c) /\ ~IsClosed(c)' /\ ~IsClosed(p)'
       /\ \A x \in Envelope \ {c} : IsClosed(x)' <=> IsClosed(x)
  <2>1. "OPEN" \notin Closed /\ "NONE" \notin Closed
    BY Zenon DEF Closed
  <2>2. \A x \in Envelope \ {c} : IsClosed(x)' <=> IsClosed(x)
    BY <1>9, Zenon DEF IsClosed
  <2> QED
    BY <1>1, <1>2, <1>7, <2>1, <2>2, Zenon DEF IsClosed
<1>12. available[p][d] \in Nat
  BY Amounts, ZenonT(30)
<1>13. Issue(d)'[c] = Issue(d)[c] + g[d]
  <2>1. /\ Issue(d)[c] = granted[c][d] - reserved[c][d] + extended[c][d]
        /\ Issue(d)'[c] = granted'[c][d] - reserved'[c][d] + extended'[c][d]
    BY Summands, Zenon
  <2>2. /\ granted[c][d] = 0 /\ reserved[c][d] = 0 /\ extended[c][d] = 0
        /\ granted'[c][d] = g[d] + amounts[d] /\ reserved'[c][d] = amounts[d] /\ extended'[c][d] = 0
    BY <1>1, <1>4, <1>5, <1>7, <1>8, Zenon
  <2> QED
    BY <1>3, <2>1, <2>2
<1>14. \A x \in Envelope \ {c} : Issue(d)'[x] = Issue(d)[x]
  BY <1>1, <1>9, SameSummands, Zenon
<1>15. Kept(d)'[c] = Kept(d)[c] + (g[d] + amounts[d])
  <2>1. Kept(d)[c] = available[c][d] /\ Kept(d)'[c] = available'[c][d]
    BY <1>11, Summands, ZenonT(30)
  <2>2. Kept(d)[c] = 0 /\ Kept(d)'[c] = g[d] + amounts[d]
    BY <1>4, <1>8, <2>1, Zenon
  <2> QED
    BY <1>3, <2>2
<1>16. Kept(d)'[p] = Kept(d)[p] + (0 - amounts[d])
  <2>1. Kept(d)[p] = available[p][d] /\ Kept(d)'[p] = available'[p][d]
    BY <1>2, <1>11, Summands, ZenonT(30)
  <2> QED
    BY <1>3, <1>8, <1>12, <2>1
<1>17. \A x \in Envelope \ {c, p} : Kept(d)'[x] = Kept(d)[x]
  BY <1>9, <1>10, <1>11, SameSummands, Zenon
<1>18. g[d] \in Int /\ (g[d] + amounts[d]) \in Int /\ (0 - amounts[d]) \in Int
  BY <1>3, SMTT(30)
<1>19. Issued(d)' = Issued(d) + g[d]
  BY <1>13, <1>14, <1>18, IssuedChanges, Zenon
<1>20. Held(d)' = Held(d) + (g[d] + amounts[d]) + (0 - amounts[d])
  BY <1>1, <1>15, <1>16, <1>17, <1>18, HeldMoves, Zenon
<1>21. Metered(d)' = Metered(d)
  BY <1>1, SameMetered, Zenon
<1>22. Issued(d) \in Int /\ Held(d) \in Int /\ Metered(d) \in Int
  BY TreeTypes, Zenon
<1> QED
  BY <1>3, <1>19, <1>20, <1>21, <1>22 DEF Books

(* A closing moves what the child did not spend back to the parent, where  *)
(* it is kept: a parent closed in that dimension had nothing allocated.    *)
LEMMA BooksClose ==
    ASSUME FiniteLaws, IInv, LedgersFinite, ReturnedWhole, NEW d \in Dimension, Books(d),
           NEW c \in Envelope, Credited(c), late' = {}
    PROVE  Books(d)'
<1>0. PICK p \in Envelope : p = parent[c]
  BY Zenon DEF Credited
<1> DEFINE v == Returned(c)[d]
<1>1. /\ p \in Envelope /\ p # c
      /\ reservation[c] = "OPEN" /\ reservation'[c] \in Closed
      /\ \A e \in Envelope \ {c} : reservation'[e] = reservation[e]
      /\ v \in Nat
      /\ v = IF reserved[c][d] > 0 THEN available[c][d] ELSE 0
      /\ reserved[c][d] <= allocated[p][d]
      /\ granted' = granted /\ extended' = extended /\ reserved' = reserved
      /\ usage' = usage /\ late' = late
  BY <1>0, Zenon DEF Credited
<1>2. \A e \in Envelope : available'[e][d] = available[e][d] + (IF e = p THEN v ELSE 0)
  BY <1>0, ZenonT(30) DEF Credited
<1>3. /\ \A e \in Envelope : available[e][d] \in Nat /\ reserved[e][d] \in Nat
      /\ allocated[p][d] \in Nat
  BY <1>1, Amounts, Zenon
<1> HIDE DEF v
<1>4. available'[p][d] = available[p][d] + v
  BY <1>1, <1>2, Zenon
<1>5. \A e \in Envelope \ {p} : available'[e][d] = available[e][d]
  BY <1>2, <1>3, SMTT(30)
<1>6. /\ ~IsClosed(c) /\ IsClosed(c)'
      /\ \A e \in Envelope \ {c} : IsClosed(e)' <=> IsClosed(e)
  <2>1. "OPEN" \notin Closed
    BY Zenon DEF Closed
  <2> QED
    BY <1>1, <2>1, Zenon DEF IsClosed
<1>7. IsClosed(p) /\ reserved[p][d] > 0 => allocated[p][d] = 0
  BY <1>1, Zenon DEF ReturnedWhole
<1>8. \A e \in Envelope :
         /\ Kept(d)[e] = IF IsClosed(e) /\ reserved[e][d] > 0 THEN 0 ELSE available[e][d]
         /\ Kept(d)'[e] = IF IsClosed(e)' /\ reserved'[e][d] > 0 THEN 0 ELSE available'[e][d]
  BY ZenonT(30) DEF Kept
<1>9. Kept(d)'[c] = Kept(d)[c] + (0 - v)
  <2>1. /\ Kept(d)[c] = IF IsClosed(c) /\ reserved[c][d] > 0 THEN 0 ELSE available[c][d]
        /\ Kept(d)'[c] = IF IsClosed(c)' /\ reserved'[c][d] > 0 THEN 0 ELSE available'[c][d]
    BY <1>8, ZenonT(30)
  <2>2. available'[c][d] = available[c][d] /\ available[c][d] \in Nat
    BY <1>1, <1>3, <1>5, Zenon
  <2> QED
    BY <1>1, <1>6, <2>1, <2>2
<1>10. Kept(d)'[p] = Kept(d)[p] + v
  <2>1. /\ Kept(d)[p] = IF IsClosed(p) /\ reserved[p][d] > 0 THEN 0 ELSE available[p][d]
        /\ Kept(d)'[p] = IF IsClosed(p)' /\ reserved'[p][d] > 0 THEN 0 ELSE available'[p][d]
    BY <1>1, <1>8, ZenonT(30)
  <2>2. IsClosed(p)' <=> IsClosed(p)
    BY <1>1, <1>6, Zenon
  <2>3. CASE IsClosed(p) /\ reserved[p][d] > 0
    <3>1. allocated[p][d] = 0
      BY <1>7, <2>3, Zenon
    <3>2. v = 0
      BY <1>1, <1>3, <3>1
    <3>3. Kept(d)'[p] = 0 /\ Kept(d)[p] = 0
      BY <1>1, <2>1, <2>2, <2>3, Zenon
    <3> QED
      BY <3>2, <3>3
  <2>4. CASE ~(IsClosed(p) /\ reserved[p][d] > 0)
    <3>1. Kept(d)'[p] = available'[p][d] /\ Kept(d)[p] = available[p][d]
      BY <1>1, <2>1, <2>2, <2>4, ZenonT(30)
    <3> QED
      BY <1>4, <3>1, Zenon
  <2> QED
    BY <2>3, <2>4, Zenon
<1>11. \A x \in Envelope \ {c, p} : Kept(d)'[x] = Kept(d)[x]
  BY <1>1, <1>5, <1>6, SameSummands, ZenonT(30)
<1>12. v \in Int /\ (0 - v) \in Int
  <2>1. v \in Nat
    BY <1>1, Zenon
  <2> QED
    BY <2>1
<1>13. Held(d)' = Held(d) + (0 - v) + v
  BY <1>1, <1>9, <1>10, <1>11, <1>12, HeldMoves, SMTT(30)
<1>14. Issued(d)' = Issued(d)
  BY <1>1, Zenon DEF Issued
<1>15. Metered(d)' = Metered(d)
  BY <1>1, SameMetered, Zenon
<1>16. Issued(d) \in Int /\ Held(d) \in Int /\ Metered(d) \in Int
  BY TreeTypes, Zenon
<1> QED
  BY <1>12, <1>13, <1>14, <1>15, <1>16 DEF Books

(* Available amounts add up to integers.                                   *)
LEMMA AvailableTypes ==
    ASSUME FiniteLaws, IInv, NEW d \in Dimension
    PROVE  Spendable(d) \in Int /\ Forfeited(d) \in Int
<1> DEFINE f == [e \in Envelope |-> available[e][d]]
           live == {e \in Envelope : ~IsClosed(e)}
           lost == {e \in Envelope : IsClosed(e) /\ reserved[e][d] = 0}
<1>1. Spendable(d) = SumFunctionOnSet(f, live) /\ Forfeited(d) = SumFunctionOnSet(f, lost)
  BY Zenon DEF Spendable, Forfeited, AvailableIn
<1>2. live \in SUBSET Envelope /\ lost \in SUBSET Envelope
  BY Zenon
<1>3. IsFiniteSet(live) /\ IsFiniteSet(lost)
  <2> HIDE DEF live, lost
  <2> QED
    BY <1>2, FiniteAssumption, FiniteSubset, Zenon
<1>4. \A e \in Envelope : f[e] \in Int
  BY Amounts
<1> HIDE DEF f, live, lost
<1>5. SumFunctionOnSet(f, live) \in Int
  BY <1>2, <1>3, <1>4, SumType, Zenon
<1>6. SumFunctionOnSet(f, lost) \in Int
  BY <1>2, <1>3, <1>4, SumType, Zenon
<1> QED
  BY <1>1, <1>5, <1>6, Zenon

(* Every transaction keeps the books, and none empties late.               *)
LEMMA NextBooks ==
    /\ FiniteLaws
    /\ IInv /\ LedgersFinite /\ Unreserved /\ ReturnedWhole /\ BooksBalance
    /\ [Next]_vars
    => BooksBalance'
<1> SUFFICES ASSUME FiniteLaws, IInv, LedgersFinite, Unreserved, ReturnedWhole, BooksBalance, [Next]_vars,
                    late' = {}, NEW d \in Dimension
             PROVE  Books(d)'
  BY Zenon DEF BooksBalance
<1>1. ASSUME late = {} PROVE Books(d)
  BY <1>1, Zenon DEF BooksBalance
<1>2. ASSUME NEW e \in Envelope, NEW D, NEW g \in [Dimension -> GrantValue], NEW lim,
             AdmitRun(e, D, g, lim)
      PROVE  Books(d)'
  <2>1. late' = late
    BY <1>2, Zenon DEF AdmitRun, reservationVars
  <2> QED
    BY <1>1, <1>2, <2>1, BooksAdmitRun, Zenon
<1>3. ASSUME NEW p \in Envelope, NEW c \in Envelope, NEW g \in [Dimension -> GrantValue],
             NEW amounts \in [Dimension -> ReserveValue], AdmitsChild(p, c, g, amounts)
      PROVE  Books(d)'
  <2>1. ChildAdmitted(p, c, g, amounts)
    BY <1>3, AdmissionOfChild, Zenon
  <2>2. late \subseteq late'
    BY <2>1, Zenon DEF ChildAdmitted
  <2>3. late = {}
    BY <2>2, Zenon
  <2> QED
    BY <1>1, <2>1, <2>3, BooksAdmitChild, Zenon
<1>4. ASSUME NEW s \in Source, NEW e \in Envelope, NEW b \in Dimension, NEW x \in UsageValue,
             NEW disposition, RecordTrustedUsage(s, e, b, x, disposition)
      PROVE  Books(d)'
  <2>1. late' = late
    BY <1>4, Zenon DEF RecordTrustedUsage, reservationVars
  <2> QED
    BY <1>1, <1>4, <2>1, BooksUsage, Zenon
<1>5. ASSUME NEW k, NEW e \in Envelope, NEW added \in [Dimension -> ExtendValue],
             ExtendResources(k, e, added)
      PROVE  Books(d)'
  <2>1. late' = late
    BY <1>5, Zenon DEF ExtendResources, reservationVars
  <2> QED
    BY <1>1, <1>5, <2>1, BooksExtend, Zenon
<1>6. ASSUME NEW c \in Envelope, Close(c) PROVE Books(d)'
  <2>1. Credited(c)
    BY <1>6, Closing, Zenon
  <2>2. late' = late
    BY <2>1, Zenon DEF Credited
  <2> QED
    BY <1>1, <2>1, <2>2, BooksClose, Zenon
<1>7. CASE UNCHANGED ledgerVars
  <2>1. /\ late' = late /\ usage' = usage /\ available' = available /\ reservation' = reservation
        /\ granted' = granted /\ reserved' = reserved /\ extended' = extended
    BY <1>7, Zenon DEF ledgerVars
  <2>2. Issued(d)' = Issued(d) /\ Metered(d)' = Metered(d)
    BY <2>1, Zenon DEF Issued, Metered
  <2>3. Held(d)' = Held(d)
    BY <2>1, Zenon DEF Held, Kept, IsClosed
  <2> QED
    BY <1>1, <2>1, <2>2, <2>3, Zenon DEF Books
<1> QED
  BY <1>2, <1>3, <1>4, <1>5, <1>6, <1>7, LedgerTransactions, ZenonT(30)

-----------------------------------------------------------------------------
(* The inductive invariant *)

(* What the properties of the ledgers need of one another.                 *)
LedgerInv ==
    /\ IInv
    /\ LedgersFinite
    /\ Unreserved
    /\ AllocationBacked
    /\ ConsumptionExplained
    /\ ReturnedWhole
    /\ BooksBalance
    /\ TopologyWithinLimits

(* Before the first admission every ledger is empty and every sum is zero. *)
LEMMA InitLedger == FiniteLaws /\ Init => LedgerInv
<1> SUFFICES ASSUME FiniteLaws, Init PROVE LedgerInv
  BY Zenon
<1>1. IInv
  BY InitIInv, Zenon
<1>2. /\ usage = {} /\ settlements = {} /\ late = {}
      /\ \A e \in Envelope :
            /\ granted[e] = Zero /\ extended[e] = Zero /\ available[e] = Zero
            /\ consumed[e] = Zero /\ allocated[e] = Zero /\ reserved[e] = Zero
            /\ reservation[e] = "NONE"
  BY Zenon DEF Init
<1>3. \A d \in Dimension : Zero[d] = 0
  BY Zenon DEF Zero
<1>4. LedgersFinite /\ IsFiniteSet({})
  BY <1>2, SumOfNone, Zenon DEF LedgersFinite
<1>5. \A f : SumFunctionOnSet(f, {}) = 0
  BY <1>4, SumOfNone, Zenon
<1>6. Unreserved
  BY <1>2, Zenon DEF Unreserved
<1>7. \A p : ChildrenOf(p) = {} /\ OpenChildrenOf(p) = {}
  BY <1>2, Zenon DEF ChildrenOf, OpenChildrenOf
<1>8. AllocationBacked
  BY <1>2, <1>3, <1>5, <1>7, Zenon DEF AllocationBacked
<1>9. TopologyWithinLimits
  BY <1>7, Zenon DEF TopologyWithinLimits
<1>10. ConsumptionExplained
  <2> SUFFICES ASSUME NEW e \in Envelope, NEW d \in Dimension PROVE Explained(e, d)
    BY Zenon DEF ConsumptionExplained, Explained, UsageSum, ChargeSum, UsageIn
  <2>1. UsageIn(e, d) = {} /\ ChargesTo(e) = {}
    BY <1>2, Zenon DEF UsageIn, UsageOf, ChargesTo
  <2>2. UsageSum(e, d) = 0 /\ ChargeSum(e, d) = 0
    BY <1>5, <2>1, Zenon DEF UsageSum, ChargeSum
  <2>3. consumed[e][d] = 0
    BY <1>2, <1>3, Zenon
  <2> QED
    BY <2>2, <2>3 DEF Explained
<1>11. ReturnedWhole
  BY <1>2, <1>3, Zenon DEF ReturnedWhole
<1>12. BooksBalance
  <2> SUFFICES ASSUME NEW d \in Dimension PROVE Books(d)
    BY Zenon DEF BooksBalance
  <2>1. \A e \in Envelope :
           granted[e][d] = 0 /\ reserved[e][d] = 0 /\ extended[e][d] = 0 /\ available[e][d] = 0
    BY <1>2, <1>3, ZenonT(30)
  <2>2. \A e \in Envelope : Issue(d)[e] = 0 /\ Kept(d)[e] = 0
    BY <2>1, SMTT(30) DEF Issue, Kept
  <2>3. SumFunctionOnSet(Issue(d), Envelope) = 0
    BY <2>2, FiniteAssumption, SumZero, Zenon
  <2>4. SumFunctionOnSet(Kept(d), Envelope) = 0
    BY <2>2, FiniteAssumption, SumZero, Zenon
  <2>5. {u \in usage : u.dim = d} = {}
    BY <1>2, Zenon
  <2>6. Metered(d) = 0
    BY <1>5, <2>5, Zenon DEF Metered
  <2>7. Issued(d) = 0 /\ Held(d) = 0
    BY <2>3, <2>4, Zenon DEF Issued, Issue, Held
  <2> QED
    BY <2>6, <2>7 DEF Books
<1> QED
  BY <1>1, <1>4, <1>6, <1>8, <1>9, <1>10, <1>11, <1>12, Zenon DEF LedgerInv

(* Every transaction preserves the invariant of the ledger.                *)
LEMMA NextLedger == FiniteLaws /\ LedgerInv /\ [Next]_vars => LedgerInv'
<1> SUFFICES ASSUME FiniteLaws, LedgerInv, [Next]_vars PROVE LedgerInv'
  BY Zenon
<1>1. /\ IInv /\ LedgersFinite /\ Unreserved /\ AllocationBacked /\ ConsumptionExplained
      /\ ReturnedWhole /\ BooksBalance /\ TopologyWithinLimits
  BY Zenon DEF LedgerInv
<1>2. IInv' /\ LedgersFinite' /\ Unreserved'
  BY <1>1, NextIInv, NextFinite, NextUnreserved, Zenon
<1>3. AllocationBacked' /\ ConsumptionExplained'
  BY <1>1, NextAllocation, NextConsumption, Zenon
<1>4. ReturnedWhole' /\ BooksBalance' /\ TopologyWithinLimits'
  BY <1>1, NextReturned, NextBooks, NextTopology, Zenon
<1> QED
  BY <1>2, <1>3, <1>4, Zenon DEF LedgerInv

-----------------------------------------------------------------------------
(* Sums over finite sets.  A fact about every subset of a finite set is    *)
(* shown by contradiction, for a smallest subset that violates it.         *)

(* A nonempty set of subsets of a finite set has a minimal member.         *)
LEMMA MinimalSubset ==
    ASSUME NEW S, IsFiniteSet(S), NEW B, B \subseteq SUBSET S, B # {}
    PROVE  \E T \in B : \A U \in SUBSET T : U # T => U \notin B
<1> DEFINE R == StrictSubsetOrdering(S)
<1>1. IsWellFoundedOn(R, SUBSET S)
  BY FS_StrictSubsetOrderingWellFounded, FS_FiniteSubsetsOfFinite, Zenon
<1>2. PICK T \in B : \A U \in B : <<U, T>> \notin R
  <2> HIDE DEF R
  <2> QED
    BY <1>1, WFMin, Zenon
<1>3. ASSUME NEW U \in SUBSET T, U # T, U \in B PROVE FALSE
  <2>1. <<U, T>> \in R
    BY <1>3, Zenon DEF StrictSubsetOrdering
  <2> QED
    BY <1>2, <1>3, <2>1, Zenon
<1> QED
  BY <1>3, Zenon

(* SumFunctionOnSet adds one summand after the other, in the order Pick    *)
(* takes them from the set.                                                *)
Pick(s) == CHOOSE x \in s : TRUE

(* Pick takes a member.                                                    *)
LEMMA PickIn == ASSUME NEW s, s # {} PROVE Pick(s) \in s
BY Zenon DEF Pick

(* g is the table of the sums of f over the subsets of S.                  *)
Rec(g, f, S) ==
    g = [s \in SUBSET S |-> IF s = {} THEN 0 ELSE f[Pick(s)] + g[s \ {Pick(s)}]]

(* The sum is the value, at S, of a function that satisfies the recursion. *)
LEMMA Unfold ==
    ASSUME NEW f, NEW S
    PROVE  SumFunctionOnSet(f, S) = (CHOOSE g : Rec(g, f, S))[S]
BY Zenon DEF SumFunctionOnSet, FoldFunctionOnSet, MapThenFoldSet, Rec, Pick

(* What the recursion says of one set.                                     *)
LEMMA RecValue ==
    ASSUME NEW f, NEW S, NEW g, Rec(g, f, S), NEW s \in SUBSET S
    PROVE  /\ s = {} => g[s] = 0
           /\ s # {} => g[s] = f[Pick(s)] + g[s \ {Pick(s)}]
<1>1. g[s] = IF s = {} THEN 0 ELSE f[Pick(s)] + g[s \ {Pick(s)}]
  BY Zenon DEF Rec
<1> QED
  BY <1>1, Zenon

(* Two functions that satisfy the recursion agree on common subsets.       *)
LEMMA RecAgree ==
    ASSUME NEW f, NEW S, IsFiniteSet(S), NEW A, NEW g, Rec(g, f, A), NEW B, NEW h, Rec(h, f, B),
           S \subseteq A, S \subseteq B
    PROVE  g[S] = h[S]
<1> DEFINE bad == {s \in SUBSET S : g[s] # h[s]}
<1> SUFFICES ASSUME S \in bad PROVE FALSE
  BY Zenon
<1>1. PICK T \in bad : \A U \in SUBSET T : U # T => U \notin bad
  <2>1. bad \subseteq SUBSET S /\ bad # {}
    BY Zenon
  <2> HIDE DEF bad
  <2>2. \E T \in bad : \A U \in SUBSET T : U # T => U \notin bad
    BY <2>1, MinimalSubset
  <2> QED
    BY <2>2, Zenon
<1>2. T \in SUBSET A /\ T \in SUBSET B /\ g[T] # h[T]
  BY Zenon
<1>3. T # {}
  BY <1>2, RecValue
<1>4. Pick(T) \in T
  BY <1>3, PickIn, Zenon
<1>5. g[T \ {Pick(T)}] = h[T \ {Pick(T)}]
  BY <1>1, <1>4, Zenon
<1>6. g[T] = f[Pick(T)] + g[T \ {Pick(T)}] /\ h[T] = f[Pick(T)] + h[T \ {Pick(T)}]
  BY <1>2, <1>3, RecValue, SMTT(30)
<1> QED
  BY <1>2, <1>5, <1>6, Zenon

(* A function that satisfies the recursion exists over every finite set.   *)
LEMMA RecExists ==
    ASSUME NEW f, NEW S, IsFiniteSet(S)
    PROVE  \E g : Rec(g, f, S)
<1> DEFINE G(s) == CHOOSE g : Rec(g, f, s)
           bad == {s \in SUBSET S : ~ Rec(G(s), f, s)}
<1> SUFFICES ASSUME S \in bad PROVE FALSE
  BY Zenon
<1>1. PICK T \in bad : \A U \in SUBSET T : U # T => U \notin bad
  <2>1. bad \subseteq SUBSET S /\ bad # {}
    BY Zenon
  <2> HIDE DEF bad
  <2> QED
    BY <2>1, MinimalSubset, ZenonT(30)
<1>2. T \in SUBSET S /\ ~ Rec(G(T), f, T)
  BY Zenon
<1>3. \A s \in SUBSET T : s # T => Rec(G(s), f, s)
  BY <1>1, <1>2, Zenon
<1>4. \A s \in SUBSET T : IsFiniteSet(s)
  BY <1>2, FS_Subset, Zenon
<1> HIDE DEF G, bad
<1>5. \A s \in SUBSET T : s # {} /\ s # T =>
         /\ s \ {Pick(s)} \in SUBSET T /\ s \ {Pick(s)} # T /\ s \ {Pick(s)} # s
         /\ G(s)[s] = f[Pick(s)] + G(s \ {Pick(s)})[s \ {Pick(s)}]
  <2> SUFFICES ASSUME NEW s \in SUBSET T, s # {}, s # T
               PROVE /\ s \ {Pick(s)} \in SUBSET T /\ s \ {Pick(s)} # T /\ s \ {Pick(s)} # s
                     /\ G(s)[s] = f[Pick(s)] + G(s \ {Pick(s)})[s \ {Pick(s)}]
    BY Zenon
  <2>1. Pick(s) \in s
    BY PickIn, Zenon
  <2>2. s \ {Pick(s)} \in SUBSET T /\ s \ {Pick(s)} # T /\ s \ {Pick(s)} # s
    BY <2>1, Zenon
  <2>3. Rec(G(s), f, s) /\ Rec(G(s \ {Pick(s)}), f, s \ {Pick(s)})
    BY <1>3, <2>2, Zenon
  <2>4. G(s)[s] = f[Pick(s)] + G(s)[s \ {Pick(s)}]
    BY <2>3, RecValue, SMTT(30)
  <2>5. G(s)[s \ {Pick(s)}] = G(s \ {Pick(s)})[s \ {Pick(s)}]
    <3> DEFINE t == s \ {Pick(s)}
    <3>1. IsFiniteSet(t) /\ t \subseteq s /\ t \subseteq t
      BY <1>4, <2>2, Zenon
    <3> QED
      BY <2>3, <3>1, RecAgree, SMTT(30)
  <2> QED
    BY <2>2, <2>4, <2>5, Zenon
<1>6. \E g : Rec(g, f, T)
  <2> DEFINE rest == T \ {Pick(T)}
             last == IF T = {} THEN 0 ELSE f[Pick(T)] + G(rest)[rest]
             g == [s \in SUBSET T |-> IF s = T THEN last ELSE G(s)[s]]
  <2>1. \A s \in SUBSET T : g[s] = IF s = {} THEN 0 ELSE f[Pick(s)] + g[s \ {Pick(s)}]
    <3> SUFFICES ASSUME NEW s \in SUBSET T
                 PROVE  g[s] = IF s = {} THEN 0 ELSE f[Pick(s)] + g[s \ {Pick(s)}]
      BY Zenon
    <3>1. CASE s = T /\ T = {}
      BY <3>1, Zenon
    <3>2. CASE s = T /\ T # {}
      <4>1. Pick(T) \in T
        BY <3>2, PickIn, Zenon
      <4>2. rest \in SUBSET T /\ rest # T
        BY <4>1, Zenon
      <4> QED
        BY <3>2, <4>2, Zenon
    <3>3. CASE s # T /\ s = {}
      <4>1. G(s)[s] = 0
        BY <1>3, <3>3, RecValue, Zenon
      <4> QED
        BY <3>3, <4>1, Zenon
    <3>4. CASE s # T /\ s # {}
      BY <3>4, <1>5, Zenon
    <3> QED
      BY <3>1, <3>2, <3>3, <3>4, ZenonT(30)
  <2>2. g = [s \in SUBSET T |-> g[s]]
    BY Zenon
  <2> HIDE DEF g
  <2>3. Rec(g, f, T)
    BY <2>1, <2>2, Zenon DEF Rec
  <2> QED
    BY <2>3, Zenon
<1> QED
  BY <1>2, <1>6, Zenon DEF G

(* The recursion equation of the sum.                                      *)
LEMMA SumEquation ==
    ASSUME NEW f, NEW S, IsFiniteSet(S)
    PROVE  /\ S = {} => SumFunctionOnSet(f, S) = 0
           /\ S # {} => SumFunctionOnSet(f, S)
                            = f[Pick(S)] + SumFunctionOnSet(f, S \ {Pick(S)})
<1> DEFINE G(s) == CHOOSE g : Rec(g, f, s)
           rest == S \ {Pick(S)}
<1>1. IsFiniteSet(rest) /\ rest \subseteq S
  BY FS_Subset, Zenon
<1>2. Rec(G(S), f, S) /\ Rec(G(rest), f, rest)
  BY <1>1, RecExists, Zenon
<1>3. SumFunctionOnSet(f, S) = G(S)[S] /\ SumFunctionOnSet(f, rest) = G(rest)[rest]
  BY Unfold, Zenon
<1> HIDE DEF G
<1>4. G(S)[rest] = G(rest)[rest]
  BY <1>1, <1>2, RecAgree, SMTT(30)
<1>5. /\ S = {} => G(S)[S] = 0
      /\ S # {} => G(S)[S] = f[Pick(S)] + G(S)[rest]
  BY <1>2, RecValue
<1> QED
  BY <1>3, <1>4, <1>5, Zenon

(* A sum of integers is an integer, and a sum of naturals a natural.       *)
LEMMA TypeOfSum ==
    ASSUME NEW f, NEW S, IsFiniteSet(S), NEW N \in {Int, Nat}, \A x \in S : f[x] \in N
    PROVE  SumFunctionOnSet(f, S) \in N
<1> DEFINE bad == {s \in SUBSET S : SumFunctionOnSet(f, s) \notin N}
<1> SUFFICES ASSUME S \in bad PROVE FALSE
  BY Zenon
<1>1. PICK T \in bad : \A U \in SUBSET T : U # T => U \notin bad
  <2>1. bad \subseteq SUBSET S /\ bad # {}
    BY Zenon
  <2> HIDE DEF bad
  <2>2. \E T \in bad : \A U \in SUBSET T : U # T => U \notin bad
    BY <2>1, MinimalSubset
  <2> QED
    BY <2>2, Zenon
<1>2. T \in SUBSET S /\ IsFiniteSet(T) /\ SumFunctionOnSet(f, T) \notin N
  BY FS_Subset, Zenon
<1>3. 0 \in N /\ \A u, v \in N : u + v \in N
  OBVIOUS
<1>4. T # {}
  BY <1>2, <1>3, SumEquation, Zenon
<1>5. Pick(T) \in T
  BY <1>4, PickIn, Zenon
<1>6. SumFunctionOnSet(f, T \ {Pick(T)}) \in N
  BY <1>1, <1>5, Zenon
<1>7. SumFunctionOnSet(f, T) = f[Pick(T)] + SumFunctionOnSet(f, T \ {Pick(T)})
  BY <1>2, <1>4, SumEquation, Zenon
<1>8. f[Pick(T)] \in N
  BY <1>2, <1>5, Zenon
<1> QED
  BY <1>2, <1>3, <1>6, <1>7, <1>8, ZenonT(30)

(* Any element may be taken out of a sum.                                  *)
LEMMA SumWithout ==
    ASSUME NEW f, NEW S, IsFiniteSet(S), \A x \in S : f[x] \in Int, NEW a \in S
    PROVE  SumFunctionOnSet(f, S) = f[a] + SumFunctionOnSet(f, S \ {a})
<1> DEFINE splits(s) == \A x \in s : SumFunctionOnSet(f, s) = f[x] + SumFunctionOnSet(f, s \ {x})
           bad == {s \in SUBSET S : ~ splits(s)}
<1> SUFFICES ASSUME S \in bad PROVE FALSE
  BY Zenon
<1>1. PICK T \in bad : \A U \in SUBSET T : U # T => U \notin bad
  <2>1. bad \subseteq SUBSET S /\ bad # {}
    BY Zenon
  <2> HIDE DEF bad
  <2>2. \E T \in bad : \A U \in SUBSET T : U # T => U \notin bad
    BY <2>1, MinimalSubset, SMTT(30)
  <2> QED
    BY <2>2, Zenon
<1>2. T \in SUBSET S /\ IsFiniteSet(T) /\ ~ splits(T)
  BY FS_Subset, Zenon
<1>3. PICK x \in T : SumFunctionOnSet(f, T) # f[x] + SumFunctionOnSet(f, T \ {x})
  BY <1>2, Zenon
<1>4. \A s \in SUBSET T : s # T => splits(s)
  BY <1>1, <1>2, Zenon
<1> HIDE DEF splits
<1> DEFINE y == Pick(T)
<1>5. y \in T
  BY <1>3, PickIn, Zenon
<1>6. SumFunctionOnSet(f, T) = f[y] + SumFunctionOnSet(f, T \ {y})
  BY <1>2, <1>3, SumEquation, Zenon
<1> HIDE DEF y
<1>7. x # y
  BY <1>3, <1>6, Zenon
<1>8. SumFunctionOnSet(f, T \ {y}) = f[x] + SumFunctionOnSet(f, (T \ {y}) \ {x})
  BY <1>3, <1>4, <1>5, <1>7 DEF splits
<1>9. SumFunctionOnSet(f, T \ {x}) = f[y] + SumFunctionOnSet(f, (T \ {x}) \ {y})
  BY <1>3, <1>4, <1>5, <1>7, Zenon DEF splits
<1>10. (T \ {x}) \ {y} = (T \ {y}) \ {x}
  BY Zenon
<1> DEFINE rest == (T \ {y}) \ {x}
<1>11. f[x] \in Int /\ f[y] \in Int /\ SumFunctionOnSet(f, rest) \in Int
  <2>1. IsFiniteSet(rest) /\ \A z \in rest : f[z] \in Int
    BY <1>2, FS_Subset, Zenon
  <2> QED
    BY <1>2, <1>3, <1>5, <2>1, TypeOfSum, Zenon
<1> HIDE DEF rest
<1>12. /\ SumFunctionOnSet(f, T) = f[y] + (f[x] + SumFunctionOnSet(f, rest))
       /\ SumFunctionOnSet(f, T \ {x}) = f[y] + SumFunctionOnSet(f, rest)
  BY <1>6, <1>8, <1>9, <1>10, ZenonT(30) DEF rest
<1> QED
  BY <1>3, <1>11, <1>12, SMTT(30)

(* A sum depends on the summands only.                                     *)
LEMMA SumOfSame ==
    ASSUME NEW f, NEW g, NEW S, IsFiniteSet(S), \A x \in S : f[x] = g[x]
    PROVE  SumFunctionOnSet(f, S) = SumFunctionOnSet(g, S)
<1> DEFINE bad == {s \in SUBSET S : SumFunctionOnSet(f, s) # SumFunctionOnSet(g, s)}
<1> SUFFICES ASSUME S \in bad PROVE FALSE
  BY Zenon
<1>1. PICK T \in bad : \A U \in SUBSET T : U # T => U \notin bad
  <2>1. bad \subseteq SUBSET S /\ bad # {}
    BY Zenon
  <2> HIDE DEF bad
  <2>2. \E T \in bad : \A U \in SUBSET T : U # T => U \notin bad
    BY <2>1, MinimalSubset, SMTT(30)
  <2> QED
    BY <2>2, Zenon
<1>2. T \in SUBSET S /\ IsFiniteSet(T) /\ SumFunctionOnSet(f, T) # SumFunctionOnSet(g, T)
  BY FS_Subset, Zenon
<1>3. T # {}
  BY <1>2, SumEquation, Zenon
<1>4. Pick(T) \in T
  BY <1>3, PickIn, Zenon
<1>5. SumFunctionOnSet(f, T \ {Pick(T)}) = SumFunctionOnSet(g, T \ {Pick(T)})
  BY <1>1, <1>4, Zenon
<1>6. /\ SumFunctionOnSet(f, T) = f[Pick(T)] + SumFunctionOnSet(f, T \ {Pick(T)})
      /\ SumFunctionOnSet(g, T) = g[Pick(T)] + SumFunctionOnSet(g, T \ {Pick(T)})
  BY <1>2, <1>3, SumEquation, Zenon
<1>7. f[Pick(T)] = g[Pick(T)]
  BY <1>2, <1>4, Zenon
<1> QED
  BY <1>2, <1>5, <1>6, <1>7, Zenon

(* A sum over S is the sum over a part of S plus the sum over the rest.    *)
LEMMA SumOfParts ==
    ASSUME NEW f, NEW S, IsFiniteSet(S), \A x \in S : f[x] \in Int, NEW A \in SUBSET S
    PROVE  SumFunctionOnSet(f, S) = SumFunctionOnSet(f, A) + SumFunctionOnSet(f, S \ A)
<1> DEFINE splits(s) == SumFunctionOnSet(f, S) = SumFunctionOnSet(f, s) + SumFunctionOnSet(f, S \ s)
           bad == {s \in SUBSET S : ~ splits(s)}
<1> SUFFICES ASSUME A \in bad PROVE FALSE
  BY Zenon
<1>1. PICK T \in bad : \A U \in SUBSET T : U # T => U \notin bad
  <2>1. bad \subseteq SUBSET S /\ bad # {}
    BY Zenon
  <2> HIDE DEF bad
  <2>2. \E T \in bad : \A U \in SUBSET T : U # T => U \notin bad
    BY <2>1, MinimalSubset
  <2> QED
    BY <2>2, Zenon
<1>2. T # {}
  <2>1. S \ {} = S /\ IsFiniteSet({}) /\ SumFunctionOnSet(f, S) \in Int
    BY TypeOfSum, FS_EmptySet, Zenon
  <2>2. SumFunctionOnSet(f, {}) = 0
    BY <2>1, SumEquation, Zenon
  <2>3. splits({})
    BY <2>1, <2>2
  <2> QED
    BY <2>3, Zenon
<1>3. PICK x : x \in T
  BY <1>2, Zenon
<1> DEFINE U == T \ {x}
           rest == S \ T
<1>4. U \in SUBSET T /\ U # T /\ U \in SUBSET S /\ T \in SUBSET S /\ S \ U = rest \cup {x} /\ x \notin rest
  BY <1>1, <1>3, Zenon
<1>5. splits(U)
  BY <1>1, <1>4, Zenon
<1>6. IsFiniteSet(U) /\ IsFiniteSet(T) /\ IsFiniteSet(rest)
  BY <1>4, FS_Subset, Zenon
<1>7. SumFunctionOnSet(f, T) = f[x] + SumFunctionOnSet(f, U)
  BY <1>3, <1>4, <1>6, SumWithout, SMTT(30)
<1>8. SumFunctionOnSet(f, rest \cup {x}) = f[x] + SumFunctionOnSet(f, rest)
  <2> DEFINE more == rest \cup {x}
  <2>1. more \ {x} = rest /\ x \in more /\ more \in SUBSET S
    BY <1>3, <1>4, Zenon
  <2>2. IsFiniteSet(more) /\ \A y \in more : f[y] \in Int
    BY <2>1, FS_Subset, Zenon
  <2> HIDE DEF more, rest
  <2>3. SumFunctionOnSet(f, more) = f[x] + SumFunctionOnSet(f, more \ {x})
    BY <2>1, <2>2, SumWithout, SMTT(30)
  <2> QED
    BY <2>1, <2>3, Zenon DEF more
<1>9. /\ SumFunctionOnSet(f, U) \in Int /\ SumFunctionOnSet(f, rest) \in Int /\ f[x] \in Int
  BY <1>3, <1>4, <1>6, TypeOfSum, Zenon
<1>10. SumFunctionOnSet(f, S) = SumFunctionOnSet(f, U) + SumFunctionOnSet(f, rest \cup {x})
  BY <1>4, <1>5, Zenon
<1>11. splits(T)
  <2> HIDE DEF U
  <2>1. SumFunctionOnSet(f, S) = SumFunctionOnSet(f, T) + SumFunctionOnSet(f, rest)
    <3> HIDE DEF rest
    <3> QED
      BY <1>7, <1>8, <1>9, <1>10, SMTT(30)
  <2> QED
    BY <2>1, Zenon
<1> QED
  BY <1>1, <1>11, Zenon

(* A sum of zeros is zero.                                                 *)
LEMMA SumOfZeros ==
    ASSUME NEW f, NEW S, IsFiniteSet(S), \A x \in S : f[x] = 0
    PROVE  SumFunctionOnSet(f, S) = 0
<1> DEFINE bad == {s \in SUBSET S : SumFunctionOnSet(f, s) # 0}
<1> SUFFICES ASSUME S \in bad PROVE FALSE
  BY Zenon
<1>1. PICK T \in bad : \A U \in SUBSET T : U # T => U \notin bad
  <2>1. bad \subseteq SUBSET S /\ bad # {}
    BY Zenon
  <2> HIDE DEF bad
  <2>2. \E T \in bad : \A U \in SUBSET T : U # T => U \notin bad
    BY <2>1, MinimalSubset
  <2> QED
    BY <2>2, Zenon
<1>2. T \in SUBSET S /\ IsFiniteSet(T) /\ SumFunctionOnSet(f, T) # 0
  BY <1>1, FS_Subset, Zenon
<1>3. T # {}
  BY <1>2, SumEquation, Zenon
<1>4. PICK x : x \in T
  BY <1>3, Zenon
<1>5. SumFunctionOnSet(f, T) = f[x] + SumFunctionOnSet(f, T \ {x})
  <2>1. \A y \in T : f[y] \in Int
    BY <1>2
  <2> QED
    BY <1>2, <1>4, <2>1, SumWithout, SMTT(30)
<1>6. SumFunctionOnSet(f, T \ {x}) = 0
  <2>1. T \ {x} \in SUBSET T /\ T \ {x} # T /\ T \ {x} \in SUBSET S
    BY <1>2, <1>4, Zenon
  <2> QED
    BY <1>1, <2>1, Zenon
<1> QED
  BY <1>2, <1>4, <1>5, <1>6, SMTT(30)

(* The laws that the lemmas about the steps assume hold.                   *)
LEMMA FiniteLawsHold == FiniteLaws
<1>1. SubsetLaw
  BY FS_Subset, Zenon DEF SubsetLaw
<1>2. AddElementLaw
  <2> SUFFICES ASSUME NEW S, NEW x, IsFiniteSet(S)
               PROVE  /\ IsFiniteSet(S \cup {x})
                      /\ x \notin S => Cardinality(S \cup {x}) = Cardinality(S) + 1
    BY Zenon DEF AddElementLaw
  <2> QED
    BY FS_AddElement, Zenon
<1>3. CardinalityLaw
  BY FS_EmptySet, FS_CardinalityType, Zenon DEF CardinalityLaw
<1>4. SumOfNoneLaw
  <2> SUFFICES ASSUME NEW f PROVE SumFunctionOnSet(f, {}) = 0
    BY Zenon DEF SumOfNoneLaw
  <2>1. IsFiniteSet({})
    BY FS_EmptySet, Zenon
  <2> QED
    BY <2>1, SumEquation, Zenon
<1>5. SumTypeLaw
  BY TypeOfSum, Zenon DEF SumTypeLaw
<1>6. SumRemoveLaw
  BY SumWithout, ZenonT(30) DEF SumRemoveLaw
<1>7. SumSameLaw
  <2> SUFFICES ASSUME NEW f, NEW g, NEW S, IsFiniteSet(S), \A x \in S : f[x] = g[x]
               PROVE  SumFunctionOnSet(f, S) = SumFunctionOnSet(g, S)
    BY DEF SumSameLaw
  <2> QED
    BY SumOfSame
<1>8. SumSplitLaw
  <2> SUFFICES ASSUME NEW f, NEW S, IsFiniteSet(S), \A x \in S : f[x] \in Int, NEW A \in SUBSET S
               PROVE  SumFunctionOnSet(f, S) = SumFunctionOnSet(f, A) + SumFunctionOnSet(f, S \ A)
    BY DEF SumSplitLaw
  <2> QED
    BY SumOfParts
<1>9. SumZeroLaw
  BY SumOfZeros, Zenon DEF SumZeroLaw
<1> QED
  BY <1>1, <1>2, <1>3, <1>4, <1>5, <1>6, <1>7, <1>8, <1>9, ZenonT(30) DEF FiniteLaws

-----------------------------------------------------------------------------
(* The theorems *)

(* The invariant holds in every reachable state.                           *)
THEOREM LedgerInvariantHolds == Spec => []LedgerInv
<1>1. Init => LedgerInv
  BY FiniteLawsHold, InitLedger, Zenon
<1>2. LedgerInv /\ [Next]_vars => LedgerInv'
  BY FiniteLawsHold, NextLedger, Zenon
<1> QED
  BY <1>1, <1>2, PTL DEF Spec

(* The open allocation of every envelope is the sum of what its open       *)
(* children reserved, through any interleaving of admissions, settlements  *)
(* and reconciliations.                                                    *)
THEOREM AllocationIsBacked == Spec => []AllocationBacked
<1>1. LedgerInv => AllocationBacked
  BY Zenon DEF LedgerInv
<1> QED
  BY <1>1, LedgerInvariantHolds, PTL

(* Consumption is always the trusted usage of the envelope plus what the   *)
(* settlements of its children charged to it.                              *)
THEOREM ConsumptionIsExplained == Spec => []ConsumptionExplained
<1>1. LedgerInv => ConsumptionExplained
  BY Zenon DEF LedgerInv
<1> QED
  BY <1>1, LedgerInvariantHolds, PTL

(* Across the whole tree, issued capacity is metered, spendable or         *)
(* forfeited as long as no child was reserved from a closed envelope.      *)
THEOREM TreeIsConserved == Spec => []TreeConservation
<1>1. LedgerInv => TreeConservation
  <2> SUFFICES ASSUME LedgerInv, late = {}, NEW d \in Dimension
               PROVE  Issued(d) = Metered(d) + Spendable(d) + Forfeited(d)
    BY Zenon DEF TreeConservation
  <2>1. IInv /\ LedgersFinite /\ Books(d)
    BY Zenon DEF LedgerInv, BooksBalance
  <2>2. Held(d) = Spendable(d) + Forfeited(d)
    BY <2>1, FiniteLawsHold, HeldSplits, Zenon
  <2>3. Metered(d) \in Int /\ Spendable(d) \in Int /\ Forfeited(d) \in Int
    BY <2>1, FiniteLawsHold, TreeTypes, AvailableTypes, ZenonT(30)
  <2> QED
    BY <2>1, <2>2, <2>3 DEF Books
<1> QED
  BY <1>1, LedgerInvariantHolds, PTL

(* The parent's side of a settlement never refuses a child whose own       *)
(* balance settles: neither the conditional update nor the unique row.     *)
THEOREM CreditIsNeverRefused == Spec => []CreditNeverRefused
<1>1. LedgerInv => CreditNeverRefused
  BY FiniteLawsHold, CreditAlwaysAccepted, ZenonT(30) DEF LedgerInv
<1> QED
  BY <1>1, LedgerInvariantHolds, PTL

(* No parent has more open children, nor more children over its lifetime,  *)
(* than its structural grants allow.                                       *)
THEOREM TopologyStaysWithinLimits == Spec => []TopologyWithinLimits
<1>1. LedgerInv => TopologyWithinLimits
  BY Zenon DEF LedgerInv
<1> QED
  BY <1>1, LedgerInvariantHolds, PTL

=============================================================================
