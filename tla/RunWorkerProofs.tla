--------------------------- MODULE RunWorkerProofs --------------------------
(***************************************************************************)
(* Proofs of the ownership properties of RunWorker for every number of     *)
(* runs, workers and overlapping calls, every lease duration and every     *)
(* clock error.                                                            *)
(*                                                                         *)
(* WInv relates the leases in circulation to the rows: identifiers are     *)
(* never reused, and no lease carries a token ahead of its row.  First:    *)
(* every transaction that issues or renews no lease preserves it; then     *)
(* claims and heartbeats.                                                  *)
(***************************************************************************)
EXTENDS RunWorker, TLAPS

(* Identifiers in use were issued. *)
IssuedOnly ==
    /\ \A l \in Circulating : l.id <= issued
    /\ \A r \in Run : row[r].lease # None => row[r].lease <= issued

(* Two copies of a lease differ in their expiry only, and two leases of    *)
(* one run with the same token are copies.                                 *)
IdentifiesClaim ==
    \A l, m \in Circulating :
        /\ l.id = m.id => l.run = m.run /\ l.worker = m.worker /\ l.fence = m.fence
        /\ l.run = m.run /\ l.fence = m.fence => l.id = m.id

WInv ==
    /\ TypeOK
    /\ OwnedRunIsLive
    /\ IssuedOnly
    /\ IdentifiesClaim
    /\ TokenIdentifiesLease

(* The transaction A preserves the invariant.                              *)
Keeps(A) == WInv /\ A => WInv'

(* Time passes or a revocation changes; a call begins; a call ends, its    *)
(* answer is taken, or its worker crashes.                                 *)
EnvironmentStep ==
    \/ Tick
    \/ \E t \in Revocable, at \in Effective : Revoke(t, at)
    \/ \E t \in Revocable : Lift(t)

BeginStep(c, w, at) ==
    \/ BeginClaim(c, w, at)
    \/ BeginHeartbeat(c, w, at)
    \/ \E operation \in Operation : BeginOperate(c, w, at, operation)

EndStep ==
    \/ \E c \in Call : Deliver(c) \/ CallEnds(c)
    \/ \E w \in Worker : WorkerCrash(w)

-----------------------------------------------------------------------------
(* Everything in circulation is a lease. *)
LEMMA CirculatingLeases == TypeOK => Circulating \subseteq Lease
<1> SUFFICES ASSUME TypeOK PROVE Circulating \subseteq Lease
  BY Zenon
<1>1. \A w \in Worker : held[w] # None => held[w] \in Lease
  BY Zenon DEF TypeOK
<1>2. \A c \in InFlight : call[c].lease \in Lease
  BY DEF TypeOK, InFlight, CallState, Idle
<1> QED
  BY <1>1, <1>2, Zenon DEF Circulating

(* Every clock reading is a time. *)
LEMMA ReadingIsTime == TypeOK => Reading \subseteq Nat
BY TimeAssumption DEF TypeOK, Reading

(* The initial state satisfies the invariant. *)
LEMMA InitWInv == Init => WInv
<1> SUFFICES ASSUME Init PROVE WInv
  BY Zenon
<1>1. TypeOK
  BY MaxInt64Assumption DEF Init, TypeOK, Row, RunState, CallState
<1>2. Circulating = {}
  BY Zenon DEF Init, Circulating, InFlight, Idle
<1> QED
  BY <1>1, <1>2, Zenon DEF Init, WInv, OwnedRunIsLive, IssuedOnly, IdentifiesClaim,
     TokenIdentifiesLease

-----------------------------------------------------------------------------
(* Steps on other state than the rows: calls begin, end, deliver.          *)

(* The invariant survives a step that leaves the rows alone and puts no    *)
(* new lease into circulation.                                             *)
LEMMA RowsAlone ==
    ASSUME WInv, TypeOK', UNCHANGED <<row, issued>>, Circulating' \subseteq Circulating
    PROVE  WInv'
BY DEF WInv, OwnedRunIsLive, IssuedOnly, IdentifiesClaim, TokenIdentifiesLease

(* Circulation does not depend on variables other than held and call.      *)
LEMMA SameCirculation == ASSUME UNCHANGED <<held, call>> PROVE Circulating' = Circulating
BY Zenon DEF Circulating, InFlight

(* Tick, Revoke and Lift preserve the invariant. *)
LEMMA EnvironmentWInv == Keeps(EnvironmentStep)
<1> SUFFICES ASSUME WInv, EnvironmentStep PROVE WInv'
  BY Zenon DEF Keeps
<1>1. UNCHANGED <<row, issued>> /\ UNCHANGED <<held, call>>
  BY Zenon DEF EnvironmentStep, Tick, Revoke, Lift
<1>2. TypeOK'
  <2> USE DEF WInv, TypeOK
  <2>1. CASE Tick
    BY <2>1 DEF Tick
  <2>2. ASSUME NEW t \in Revocable, NEW at \in Effective, Revoke(t, at) PROVE TypeOK'
    BY <2>2, TimeAssumption, Zenon DEF Revoke
  <2>3. ASSUME NEW t \in Revocable, Lift(t) PROVE TypeOK'
    BY <2>3, Zenon DEF Lift
  <2> QED
    BY <2>1, <2>2, <2>3, Zenon DEF EnvironmentStep
<1> QED
  BY <1>1, <1>2, SameCirculation, RowsAlone, Zenon

(* The beginning of a call preserves the invariant: a heartbeat or an      *)
(* operation carries the lease its worker holds.                           *)
LEMMA BeginWInv ==
    ASSUME NEW c \in Call, NEW w \in Worker, NEW at \in Reading
    PROVE  Keeps(BeginStep(c, w, at))
<1> SUFFICES ASSUME WInv, BeginStep(c, w, at) PROVE WInv'
  BY Zenon DEF Keeps
<1>1. TypeOK /\ at \in Nat
  BY ReadingIsTime, Zenon DEF WInv
<1>2. CASE BeginClaim(c, w, at)
  <2>1. TypeOK'
    BY <1>1, <1>2 DEF BeginClaim, TypeOK, CallState
  <2>2. Circulating' \subseteq Circulating
    BY <1>1, <1>2, Zenon DEF BeginClaim, Circulating, InFlight, TypeOK
  <2> QED
    BY <1>2, <2>1, <2>2, RowsAlone, Zenon DEF BeginClaim
<1>3. CASE BeginHeartbeat(c, w, at)
  <2>1. held[w] # None /\ held[w] \in Lease
    BY <1>1, <1>3, Zenon DEF BeginHeartbeat, Usable, TypeOK
  <2>2. TypeOK'
    BY <1>1, <1>3, <2>1, Zenon DEF BeginHeartbeat, TypeOK, CallState
  <2>3. Circulating' \subseteq Circulating
    BY <1>1, <1>3, <2>1, Zenon DEF BeginHeartbeat, Circulating, InFlight, TypeOK
  <2> QED
    BY <1>3, <2>2, <2>3, RowsAlone, Zenon DEF BeginHeartbeat
<1>4. ASSUME NEW operation \in Operation, BeginOperate(c, w, at, operation) PROVE WInv'
  <2>1. held[w] # None /\ held[w] \in Lease
    BY <1>1, <1>4, Zenon DEF BeginOperate, Usable, TypeOK
  <2>2. TypeOK'
    BY <1>1, <1>4, <2>1, Zenon DEF BeginOperate, TypeOK, CallState
  <2>3. Circulating' \subseteq Circulating
    BY <1>1, <1>4, <2>1, Zenon DEF BeginOperate, Circulating, InFlight, TypeOK
  <2> QED
    BY <1>4, <2>2, <2>3, RowsAlone, Zenon DEF BeginOperate
<1> QED
  BY <1>2, <1>3, <1>4, Zenon DEF BeginStep

(* The end of a call, with or without its reply, and the crash of a worker *)
(* preserve the invariant.                                                 *)
LEMMA EndWInv == Keeps(EndStep)
<1> SUFFICES ASSUME WInv, EndStep PROVE WInv'
  BY Zenon DEF Keeps
<1>1. TypeOK
  BY Zenon DEF WInv
<1>2. ASSUME NEW c \in Call, Deliver(c) PROVE WInv'
  <2>1. c \in InFlight /\ call[c].lease \in Lease
    BY <1>1, <1>2 DEF Deliver, InFlight, TypeOK, CallState, Idle
  <2>2. TypeOK'
    BY <1>1, <1>2, <2>1, Zenon DEF Deliver, TypeOK, CallState, Lease
  <2>3. Circulating' \subseteq Circulating
    BY <1>1, <1>2, <2>1, Zenon DEF Deliver, Circulating, InFlight, TypeOK, Idle
  <2> QED
    BY <1>2, <2>2, <2>3, RowsAlone, Zenon DEF Deliver
<1>3. ASSUME NEW c \in Call, CallEnds(c) PROVE WInv'
  <2>1. TypeOK'
    BY <1>1, <1>3, Zenon DEF CallEnds, TypeOK, CallState
  <2>2. Circulating' \subseteq Circulating
    BY <1>1, <1>3, Zenon DEF CallEnds, Circulating, InFlight, TypeOK, Idle
  <2> QED
    BY <1>3, <2>1, <2>2, RowsAlone, Zenon DEF CallEnds
<1>4. ASSUME NEW w \in Worker, WorkerCrash(w) PROVE WInv'
  <2>1. TypeOK'
    BY <1>1, <1>4, Zenon DEF WorkerCrash, TypeOK
  <2>2. Circulating' \subseteq Circulating
    BY <1>1, <1>4, Zenon DEF WorkerCrash, Circulating, InFlight, TypeOK
  <2> QED
    BY <1>4, <2>1, <2>2, RowsAlone, Zenon DEF WorkerCrash
<1> QED
  BY <1>2, <1>3, <1>4, Zenon DEF EndStep

-----------------------------------------------------------------------------
(* Transactions on a row *)

(* The invariant survives a transaction that issues no lease and either    *)
(* deposes the owner with a new token, or keeps token and owner, or takes  *)
(* the owner's lease as the run ends.                                      *)
LEMMA RowChange ==
    ASSUME WInv, TypeOK', issued' = issued, Circulating' \subseteq Circulating,
           NEW r \in Run, NEW new \in Row, row' = [row EXCEPT ![r] = new],
           new.lease # None => new.state \in {"ADMITTED", "RUNNING"},
           \/ new.lease = None /\ new.fence = row[r].fence + 1
           \/ /\ new.fence = row[r].fence
              /\ new.lease = row[r].lease
              /\ ~Terminal(row[r].state)
           \/ new.fence = row[r].fence /\ new.lease = None /\ Terminal(new.state)
    PROVE  WInv'
<1> USE DEF WInv
<1>1. Circulating \subseteq Lease /\ None \notin Nat
  BY CirculatingLeases, IdentityAssumption, Zenon
<1>2. /\ row'[r] = new
      /\ \A q \in Run : q # r => row'[q] = row[q]
  BY Zenon DEF TypeOK
<1>3. OwnedRunIsLive'
  BY <1>2, Zenon DEF OwnedRunIsLive
<1>4. IssuedOnly'
  BY <1>2 DEF IssuedOnly
<1>5. IdentifiesClaim'
  BY Zenon DEF IdentifiesClaim
<1>6. TokenIdentifiesLease'
  <2> SUFFICES ASSUME NEW l \in Circulating
               PROVE  /\ l.fence <= row'[l.run].fence
                      /\ l.id = row'[l.run].lease => l.fence = row'[l.run].fence
                      /\ l.fence = row'[l.run].fence =>
                            \/ l.id = row'[l.run].lease
                            \/ row'[l.run].lease = None /\ Terminal(row'[l.run].state)
    BY Zenon DEF TokenIdentifiesLease
  <2>1. l.id \in Nat /\ l.fence \in Nat /\ l.run \in Run /\ row[r].fence \in Nat
    BY <1>1 DEF Lease, TypeOK, Row
  <2>2. CASE l.run # r
    BY <1>2, <2>1, <2>2, Zenon DEF TokenIdentifiesLease
  <2>3. CASE l.run = r
    <3>1. l.fence <= row[r].fence
      BY <2>3, Zenon DEF TokenIdentifiesLease
    <3>2. CASE new.lease = None /\ new.fence = row[r].fence + 1
      BY <1>1, <1>2, <2>1, <2>3, <3>1, <3>2
    <3>3. CASE new.fence = row[r].fence /\ new.lease = row[r].lease /\ ~Terminal(row[r].state)
      BY <1>2, <2>3, <3>1, <3>3 DEF TokenIdentifiesLease
    <3>4. CASE new.fence = row[r].fence /\ new.lease = None /\ Terminal(new.state)
      BY <1>1, <1>2, <2>1, <2>3, <3>1, <3>4, Zenon
    <3> QED
      BY <3>2, <3>3, <3>4, Zenon
  <2> QED
    BY <2>2, <2>3, Zenon
<1> QED
  BY <1>3, <1>4, <1>5, <1>6, Zenon

(* What a transition makes of a row. *)
LEMMA MovedRow ==
    ASSUME NEW old \in Row, NEW to \in RunState, NEW at \in Nat, old.version < MaxInt64
    PROVE  LET new == Moved(old, to, at) IN
           /\ new \in Row
           /\ new.state = to /\ new.lease = old.lease /\ new.fence = old.fence
           /\ new.version = old.version + 1 /\ new.expires = old.expires
<1> DEFINE moved == [old EXCEPT !.state = to]
           counted == [moved EXCEPT !.version = old.version + 1]
           new == [counted EXCEPT !.updated = at]
<1>1. /\ moved \in Row /\ moved.state = to /\ moved.lease = old.lease
      /\ moved.fence = old.fence /\ moved.expires = old.expires
  BY Zenon DEF Row
<1>2. /\ counted \in Row /\ counted.version = old.version + 1 /\ counted.expires = old.expires
      /\ counted.state = to /\ counted.lease = old.lease /\ counted.fence = old.fence
  <2>1. old.version + 1 \in 1..MaxInt64
    BY MaxInt64Assumption DEF Row
  <2> HIDE DEF moved
  <2> QED
    BY <1>1, <2>1, Zenon DEF Row
<1>3. /\ new \in Row /\ new.version = old.version + 1 /\ new.expires = old.expires
      /\ new.state = to /\ new.lease = old.lease /\ new.fence = old.fence
  <2> HIDE DEF counted
  <2> QED
    BY <1>2, Zenon DEF Row
<1>4. Moved(old, to, at) = new
  BY Zenon DEF Moved, Row
<1> HIDE DEF new
<1> QED
  BY <1>3, <1>4, Zenon

(* What deposing the owner makes of a row. *)
LEMMA FencedRow ==
    ASSUME TypeOK, NEW r \in Run, NEW next \in Row, FenceLeft(r)
    PROVE  /\ Fenced(r, next) \in Row
           /\ Fenced(r, next).lease = None
           /\ Fenced(r, next).fence = row[r].fence + 1
           /\ Fenced(r, next).state = next.state
           /\ Fenced(r, next).version = next.version
<1> DEFINE released == [next EXCEPT !.lease = None]
           cleared == [released EXCEPT !.expires = 0]
           new == [cleared EXCEPT !.fence = row[r].fence + 1]
<1>1. /\ released \in Row /\ released.lease = None
      /\ released.state = next.state /\ released.version = next.version
  BY Zenon DEF Row
<1>2. /\ cleared \in Row /\ cleared.lease = None
      /\ cleared.state = next.state /\ cleared.version = next.version
  <2> HIDE DEF released
  <2> QED
    BY <1>1, Zenon DEF Row
<1>3. /\ new \in Row /\ new.lease = None /\ new.fence = row[r].fence + 1
      /\ new.state = next.state /\ new.version = next.version
  <2>1. row[r].fence + 1 \in 0..MaxInt64
    BY MaxInt64Assumption DEF TypeOK, Row, FenceLeft
  <2> HIDE DEF cleared
  <2> QED
    BY <1>2, <2>1, Zenon DEF Row
<1>4. Fenced(r, next) = new
  BY Zenon DEF Fenced, NextFencingToken, Row
<1> HIDE DEF new
<1> QED
  BY <1>3, <1>4, Zenon

(* An event keeps the type of the log. *)
LEMMA EventType ==
    ASSUME TypeOK, NEW r \in Run, AppendEvent(r), row' \in [Run -> Row]
    PROVE  last' \in [Run -> [state : RunState, version : Nat]]
<1>1. \A q \in Run : row'[q].state \in RunState /\ row'[q].version \in Nat
  BY MaxInt64Assumption DEF Row
<1> QED
  BY <1>1, Zenon DEF AppendEvent, TypeOK

(* Transactions of other actors preserve the invariant: cancellation,      *)
(* exhaustion and reconciliation depose the owner, an extension keeps it.  *)
LEMMA DeposeWInv ==
    ASSUME WInv, NEW r \in Run, NEW next \in Row, FenceLeft(r),
           row' = [row EXCEPT ![r] = Fenced(r, next)], AppendEvent(r),
           signals' \in [Run -> SUBSET SignalKey],
           UNCHANGED <<now, issued, revoked, held, call>>
    PROVE  WInv'
<1>1. TypeOK
  BY Zenon DEF WInv
<1>2. row' \in [Run -> Row]
  BY <1>1, FencedRow, Zenon DEF TypeOK
<1>3. TypeOK'
  BY <1>1, <1>2, EventType, Zenon DEF TypeOK
<1> QED
  BY <1>1, <1>3, FencedRow, SameCirculation, RowChange, Zenon

(* CancelRun preserves the invariant. *)
LEMMA CancelRunWInv ==
    ASSUME NEW r \in Run, NEW key \in SignalKey, NEW at \in Reading
    PROVE  Keeps(CancelRun(r, key, at))
<1> SUFFICES ASSUME WInv, CancelRun(r, key, at) PROVE WInv'
  BY Zenon DEF Keeps
<1>1. row[r] \in Row /\ at \in Nat /\ "CANCELLED" \in RunState
  BY ReadingIsTime, Zenon DEF WInv, TypeOK, RunState
<1>2. Moved(row[r], "CANCELLED", at) \in Row
  BY <1>1, MovedRow, Zenon DEF CancelRun, Accepts
<1>3. signals' \in [Run -> SUBSET SignalKey]
  BY Zenon DEF CancelRun, WInv, TypeOK
<1> QED
  BY <1>2, <1>3, DeposeWInv, Zenon DEF CancelRun

(* The exhaustion of a budget preserves the invariant. *)
LEMMA applyBudgetExhaustionWInv ==
    ASSUME NEW r \in Run, NEW disposition \in {"PAUSE", "FAIL"}, NEW at \in Reading
    PROVE  Keeps(applyBudgetExhaustion(r, disposition, at))
<1> SUFFICES ASSUME WInv, applyBudgetExhaustion(r, disposition, at) PROVE WInv'
  BY Zenon DEF Keeps
<1> DEFINE to == IF disposition = "PAUSE" THEN "PAUSED_FOR_BUDGET" ELSE "FAILED_BUDGET"
<1>1. /\ row[r] \in Row /\ at \in Nat
      /\ "BUDGET_EXHAUSTED" \in RunState /\ to \in RunState
  BY ReadingIsTime, Zenon DEF WInv, TypeOK, RunState
<1>2. Moved(Moved(row[r], "BUDGET_EXHAUSTED", at), to, at) \in Row
  BY <1>1, MovedRow, Zenon DEF applyBudgetExhaustion, Accepts
<1>3. signals' \in [Run -> SUBSET SignalKey]
  BY Zenon DEF applyBudgetExhaustion, WInv, TypeOK
<1> QED
  BY <1>2, <1>3, DeposeWInv, Zenon DEF applyBudgetExhaustion

(* The time-out of an abandoned child preserves the invariant.             *)
LEMMA ReconcileTimeoutWInv ==
    ASSUME NEW r \in Run, NEW at \in Reading
    PROVE  Keeps(ReconcileTimeout(r, at))
<1> SUFFICES ASSUME WInv, ReconcileTimeout(r, at) PROVE WInv'
  BY Zenon DEF Keeps
<1>1. row[r] \in Row /\ at \in Nat /\ "TIMED_OUT" \in RunState
  BY ReadingIsTime, Zenon DEF WInv, TypeOK, RunState
<1>2. Moved(row[r], "TIMED_OUT", at) \in Row
  BY <1>1, MovedRow, Zenon DEF ReconcileTimeout, Accepts
<1>3. signals' \in [Run -> SUBSET SignalKey]
  BY Zenon DEF ReconcileTimeout, WInv, TypeOK
<1> QED
  BY <1>2, <1>3, DeposeWInv, Zenon DEF ReconcileTimeout

(* An extension keeps the owner, and a run that it resumes has none.       *)
LEMMA ExtendResourcesWInv ==
    ASSUME NEW r \in Run, NEW at \in Reading
    PROVE  Keeps(ExtendResources(r, at))
<1> SUFFICES ASSUME WInv, ExtendResources(r, at) PROVE WInv'
  BY Zenon DEF Keeps
<1>1. TypeOK /\ row[r] \in Row /\ at \in Nat /\ "RUNNING" \in RunState
  BY ReadingIsTime, Zenon DEF WInv, TypeOK, RunState
<1> DEFINE new == IF row[r].state = "PAUSED_FOR_BUDGET" THEN Moved(row[r], "RUNNING", at)
                  ELSE [row[r] EXCEPT !.updated = at]
<1>2. /\ new \in Row /\ new.lease = row[r].lease /\ new.fence = row[r].fence
      /\ new.state = IF row[r].state = "PAUSED_FOR_BUDGET" THEN "RUNNING" ELSE row[r].state
  <2>1. CASE row[r].state = "PAUSED_FOR_BUDGET"
    BY <1>1, <2>1, MovedRow DEF ExtendResources, Accepts
  <2>2. CASE row[r].state # "PAUSED_FOR_BUDGET"
    BY <1>1, <2>2, Zenon DEF Row
  <2> QED
    BY <2>1, <2>2, Zenon
<1>3. row' = [row EXCEPT ![r] = new]
  BY <1>1, Zenon DEF ExtendResources, TypeOK
<1>4. TypeOK'
  <2>1. row' \in [Run -> Row]
    BY <1>1, <1>2, <1>3, Zenon DEF TypeOK
  <2> QED
    BY <1>1, <2>1, EventType, Zenon DEF ExtendResources, TypeOK
<1>5. new.lease # None => new.state \in {"ADMITTED", "RUNNING"}
  BY <1>2, Zenon DEF WInv, OwnedRunIsLive
<1>6. ~Terminal(row[r].state) /\ issued' = issued /\ Circulating' = Circulating
  BY SameCirculation, Zenon DEF ExtendResources
<1> HIDE DEF new
<1> QED
  BY <1>2, <1>3, <1>4, <1>5, <1>6, RowChange, Zenon

(* A signal changes no row. *)
LEMMA AppendRunSignalWInv ==
    ASSUME NEW r \in Run, NEW key \in SignalKey
    PROVE  Keeps(AppendRunSignal(r, key))
<1> SUFFICES ASSUME WInv, AppendRunSignal(r, key) PROVE WInv'
  BY Zenon DEF Keeps
<1>1. TypeOK /\ row' \in [Run -> Row]
  BY Zenon DEF WInv, TypeOK, AppendRunSignal
<1>2. TypeOK'
  BY <1>1, EventType, Zenon DEF AppendRunSignal, TypeOK
<1> QED
  BY <1>2, SameCirculation, RowsAlone, Zenon DEF AppendRunSignal

-----------------------------------------------------------------------------
(* Transactions of workers *)

(* A worker's operation keeps its lease, or gives it up as the run ends.   *)
LEMMA MutateWorkerRunWInv ==
    ASSUME NEW c \in Call
    PROVE  Keeps(MutateWorkerRun(c))
<1> SUFFICES ASSUME WInv, MutateWorkerRun(c) PROVE WInv'
  BY Zenon DEF Keeps
<1> DEFINE lease == call[c].lease
           r == lease.run
           to == WorkerTarget(call[c].operation)[1]
           next == Moved(row[r], to, call[c].at)
           new == IF Terminal(to) THEN [[next EXCEPT !.lease = None] EXCEPT !.expires = 0]
                  ELSE next
<1>1. /\ TypeOK
      /\ lease \in Lease /\ call[c].at \in Nat /\ call[c].operation \in Operation
  BY DEF WInv, TypeOK, MutateWorkerRun, CallState, Idle
<1>2. r \in Run /\ row[r] \in Row
  BY <1>1, Zenon DEF TypeOK, Lease
<1>3. to \in {"RUNNING", "COMPLETED", "FAILED", "TIMED_OUT"} /\ to \in RunState
  BY <1>1 DEF WorkerTarget, Operation, RunState
<1>4. /\ next \in Row /\ next.state = to
      /\ next.lease = row[r].lease /\ next.fence = row[r].fence
  BY <1>1, <1>2, <1>3, MovedRow, ZenonT(30) DEF MutateWorkerRun, Accepts
<1>5. /\ new \in Row /\ new.state = to /\ new.fence = row[r].fence
      /\ Terminal(to) => new.lease = None
      /\ ~Terminal(to) => new.lease = row[r].lease
  <2> HIDE DEF next, to
  <2>1. CASE Terminal(to)
    <3> DEFINE released == [next EXCEPT !.lease = None]
    <3>1. /\ released \in Row /\ released.lease = None
          /\ released.state = to /\ released.fence = row[r].fence
      BY <1>4, Zenon DEF Row
    <3> HIDE DEF released
    <3>2. new = [released EXCEPT !.expires = 0]
      BY <2>1, Zenon DEF released
    <3> QED
      BY <2>1, <3>1, <3>2, Zenon DEF Row
  <2>2. CASE ~Terminal(to)
    BY <1>4, <2>2, Zenon
  <2> QED
    BY <2>1, <2>2, Zenon
<1>6. row' = [row EXCEPT ![r] = new] /\ ~Terminal(row[r].state)
  BY Zenon DEF MutateWorkerRun, Accepts
<1>7. TypeOK'
  <2>1. row' \in [Run -> Row]
    BY <1>1, <1>2, <1>5, <1>6, Zenon DEF TypeOK
  <2>2. AppendEvent(r)
    BY Zenon DEF MutateWorkerRun
  <2>3. call' \in [Call -> CallState]
    BY <1>1, Zenon DEF MutateWorkerRun, TypeOK, CallState
  <2> QED
    BY <1>1, <1>2, <2>1, <2>2, <2>3, EventType, Zenon DEF MutateWorkerRun, TypeOK
<1>8. Circulating' \subseteq Circulating /\ issued' = issued
  BY <1>1, ZenonT(30) DEF MutateWorkerRun, Circulating, InFlight, TypeOK, Idle
<1>9. new.lease # None => new.state \in {"ADMITTED", "RUNNING"}
  BY <1>3, <1>5, Zenon DEF Terminal, TerminalState
<1> HIDE DEF new, r, to
<1> QED
  BY <1>2, <1>5, <1>6, <1>7, <1>8, <1>9, RowChange, Zenon

-----------------------------------------------------------------------------
(* A heartbeat circulates a copy of the lease with another expiry.         *)
LEMMA HeartbeatRunWInv ==
    ASSUME NEW c \in Call
    PROVE  Keeps(HeartbeatRun(c))
<1> SUFFICES ASSUME WInv, HeartbeatRun(c) PROVE WInv'
  BY Zenon DEF Keeps
<1> DEFINE lease == call[c].lease
           r == lease.run
           expiry == call[c].at + LeaseDuration
           longer == [lease EXCEPT !.expires = expiry]
           new == [row[r] EXCEPT !.expires = expiry]
<1>1. TypeOK /\ lease \in Lease /\ call[c].at \in Nat /\ c \in InFlight
  BY DEF WInv, TypeOK, HeartbeatRun, CallState, Idle, InFlight
<1>2. r \in Run /\ row[r] \in Row /\ expiry \in Nat
  BY <1>1, TimeAssumption DEF TypeOK, Lease
<1>3. /\ longer \in Lease
      /\ longer.run = r /\ longer.id = lease.id
      /\ longer.worker = lease.worker /\ longer.fence = lease.fence
  BY <1>1, <1>2, Zenon DEF Lease
<1>4. /\ new \in Row /\ new.state = row[r].state
      /\ new.lease = row[r].lease /\ new.fence = row[r].fence
  BY <1>2, Zenon DEF Row
<1>5. /\ row' = [row EXCEPT ![r] = new]
      /\ call' = [call EXCEPT ![c] = [kind |-> "renewed", lease |-> longer]]
      /\ AppendEvent(r)
      /\ UNCHANGED <<now, signals, issued, revoked, held>>
  BY <1>1, <1>2, Zenon DEF HeartbeatRun, TypeOK
<1> HIDE DEF new, longer
<1>6. /\ row'[r] = new
      /\ \A q \in Run : q # r => row'[q] = row[q]
      /\ row' \in [Run -> Row]
  BY <1>1, <1>2, <1>4, <1>5, Zenon DEF TypeOK
<1>7. TypeOK'
  <2>1. call' \in [Call -> CallState]
    BY <1>1, <1>3, <1>5, Zenon DEF TypeOK, CallState
  <2> QED
    BY <1>1, <1>2, <1>5, <1>6, <2>1, EventType, Zenon DEF TypeOK
<1>8. Circulating' \subseteq Circulating \cup {longer} /\ lease \in Circulating
  BY <1>1, <1>5, Zenon DEF Circulating, InFlight, TypeOK
<1>9. \A m \in Circulating' : \E l \in Circulating :
          m.run = l.run /\ m.id = l.id /\ m.worker = l.worker /\ m.fence = l.fence
  BY <1>3, <1>8, Zenon
<1>10. \A q \in Run : /\ row'[q].lease = row[q].lease /\ row'[q].fence = row[q].fence
                      /\ row'[q].state = row[q].state
  BY <1>4, <1>6, Zenon
<1>11. Circulating' \subseteq Lease
  BY <1>1, <1>3, <1>8, CirculatingLeases, Zenon
<1>12. OwnedRunIsLive' /\ IssuedOnly' /\ IdentifiesClaim'
  BY <1>5, <1>9, <1>10 DEF WInv, OwnedRunIsLive, IssuedOnly, IdentifiesClaim
<1>13. TokenIdentifiesLease'
  <2>1. \A m \in Circulating' : m.run \in Run
    BY <1>11, Zenon DEF Lease
  <2> QED
    BY <1>9, <1>10, <2>1 DEF WInv, TokenIdentifiesLease
<1> QED
  BY <1>7, <1>12, <1>13, Zenon DEF WInv

(* A claim issues a lease with a new identifier and a new token.           *)
LEMMA ClaimRunWInv ==
    ASSUME NEW c \in Call, NEW r \in Run
    PROVE  Keeps(ClaimRun(c, r))
<1> SUFFICES ASSUME WInv, ClaimRun(c, r) PROVE WInv'
  BY Zenon DEF Keeps
<1> DEFINE expiry == call[c].at + LeaseDuration
           lease == [run |-> r, id |-> issued + 1, worker |-> call[c].worker,
                     fence |-> row[r].fence + 1, expires |-> expiry]
<1>1. TypeOK /\ call[c].worker \in Worker /\ call[c].at \in Nat
  BY DEF WInv, TypeOK, ClaimRun, CallState, Idle
<1>2. row[r] \in Row /\ expiry \in Nat /\ issued \in Nat /\ row[r].fence \in Nat
  BY <1>1, TimeAssumption DEF TypeOK, Row
<1>3. /\ lease \in Lease /\ lease.run = r /\ lease.id = issued + 1
      /\ lease.fence = row[r].fence + 1
  BY <1>1, <1>2 DEF Lease
<1>4. /\ call' = [call EXCEPT ![c] = [kind |-> "claimed", lease |-> lease, at |-> call[c].at]]
      /\ issued' = issued + 1
      /\ AppendEvent(r)
      /\ UNCHANGED <<now, signals, revoked, held>>
  BY Zenon DEF ClaimRun, NextFencingToken
<1>5. /\ row' \in [Run -> Row]
      /\ row'[r].lease = issued + 1 /\ row'[r].fence = row[r].fence + 1
      /\ row'[r].state = row[r].state
      /\ \A q \in Run : q # r => row'[q] = row[q]
  <2> DEFINE leased == [row[r] EXCEPT !.lease = issued + 1]
             timed == [leased EXCEPT !.expires = expiry]
             new == [timed EXCEPT !.fence = row[r].fence + 1]
  <2>1. leased \in Row /\ leased.lease = issued + 1 /\ leased.state = row[r].state
    BY <1>2 DEF Row
  <2>2. timed \in Row /\ timed.lease = issued + 1 /\ timed.state = row[r].state
    <3> HIDE DEF leased
    <3> QED
      BY <1>2, <2>1, Zenon DEF Row
  <2>3. /\ new \in Row /\ new.lease = issued + 1 /\ new.fence = row[r].fence + 1
        /\ new.state = row[r].state
    <3>1. row[r].fence + 1 \in 0..MaxInt64
      BY <1>2, MaxInt64Assumption DEF ClaimRun, Claimable, FenceLeft
    <3> HIDE DEF timed
    <3> QED
      BY <2>2, <3>1, Zenon DEF Row
  <2>4. row' = [row EXCEPT ![r] = new]
    BY <1>1, <1>2, ZenonT(30) DEF ClaimRun, NextFencingToken, TypeOK, Row
  <2> HIDE DEF new
  <2> QED
    BY <1>1, <2>3, <2>4, Zenon DEF TypeOK
<1>6. TypeOK'
  <2>1. call' \in [Call -> CallState]
    BY <1>1, <1>3, <1>4, Zenon DEF TypeOK, CallState
  <2> QED
    BY <1>1, <1>4, <1>5, <2>1, EventType DEF TypeOK
<1> HIDE DEF lease
<1>7. Circulating' \subseteq Circulating \cup {lease} /\ Circulating \subseteq Lease
  BY <1>1, <1>4, CirculatingLeases, Zenon DEF Circulating, InFlight, TypeOK
<1>8. \A l \in Circulating : /\ l.id \in Nat /\ l.fence \in Nat /\ l.run \in Run
                             /\ l.id <= issued /\ l.fence <= row[l.run].fence
  BY <1>7, Zenon DEF WInv, IssuedOnly, TokenIdentifiesLease, Lease
<1>9. OwnedRunIsLive'
  BY <1>5, Zenon DEF WInv, OwnedRunIsLive, ClaimRun, Claimable
<1>10. IssuedOnly'
  <2>1. \A q \in Run : row[q].lease # None => row[q].lease \in Nat /\ row[q].lease <= issued
    BY <1>1, Zenon DEF WInv, IssuedOnly, TypeOK, Row
  <2> QED
    BY <1>2, <1>3, <1>4, <1>5, <1>7, <1>8, <2>1 DEF IssuedOnly
<1>11. IdentifiesClaim'
  BY <1>2, <1>3, <1>7, <1>8 DEF WInv, IdentifiesClaim
<1>12. TokenIdentifiesLease'
  <2> SUFFICES ASSUME NEW l \in Circulating'
               PROVE  /\ l.fence <= row'[l.run].fence
                      /\ l.id = row'[l.run].lease => l.fence = row'[l.run].fence
                      /\ l.fence = row'[l.run].fence =>
                            \/ l.id = row'[l.run].lease
                            \/ row'[l.run].lease = None /\ Terminal(row'[l.run].state)
    BY Zenon DEF TokenIdentifiesLease
  <2>1. CASE l = lease
    BY <1>2, <1>3, <1>5, <2>1
  <2>2. CASE l \in Circulating /\ l.run = r
    BY <1>2, <1>5, <1>8, <2>2
  <2>3. CASE l \in Circulating /\ l.run # r
    BY <1>5, <1>8, <2>3 DEF WInv, TokenIdentifiesLease
  <2> QED
    BY <1>7, <2>1, <2>2, <2>3, Zenon
<1> QED
  BY <1>6, <1>9, <1>10, <1>11, <1>12, Zenon DEF WInv

-----------------------------------------------------------------------------
(* Every step preserves the invariant. *)
LEMMA NextWInv == WInv /\ [Next]_vars => WInv'
<1> SUFFICES ASSUME WInv, [Next]_vars PROVE WInv'
  BY ZenonT(30)
<1>1. CASE UNCHANGED vars
  <2>1. /\ UNCHANGED <<now, row, last, signals, issued, revoked, held, call>>
        /\ TypeOK /\ OwnedRunIsLive /\ IssuedOnly /\ IdentifiesClaim /\ TokenIdentifiesLease
    BY <1>1, Zenon DEF vars, WInv
  <2>2. Circulating' = Circulating
    BY <2>1, Zenon DEF Circulating, InFlight
  <2>3. TypeOK'
    BY <2>1, Zenon DEF TypeOK
  <2>4. OwnedRunIsLive'
    BY <2>1, Zenon DEF OwnedRunIsLive
  <2>5. IssuedOnly'
    BY <2>1, <2>2, Zenon DEF IssuedOnly
  <2>6. IdentifiesClaim'
    BY <2>1, <2>2, Zenon DEF IdentifiesClaim
  <2>7. TokenIdentifiesLease'
    BY <2>1, <2>2, Zenon DEF TokenIdentifiesLease
  <2> QED
    BY <2>3, <2>4, <2>5, <2>6, <2>7, Zenon DEF WInv
<1>2. ASSUME NEW r \in Run, NEW at \in Reading, NEW key \in SignalKey,
             CancelRun(r, key, at) \/ AppendRunSignal(r, key)
      PROVE  WInv'
  BY <1>2, CancelRunWInv, AppendRunSignalWInv, Zenon DEF Keeps
<1>3. ASSUME NEW r \in Run, NEW at \in Reading, NEW disposition \in {"PAUSE", "FAIL"},
             applyBudgetExhaustion(r, disposition, at)
      PROVE  WInv'
  BY <1>3, applyBudgetExhaustionWInv, Zenon DEF Keeps
<1>4. ASSUME NEW r \in Run, NEW at \in Reading, ExtendResources(r, at) \/ ReconcileTimeout(r, at)
      PROVE  WInv'
  BY <1>4, ExtendResourcesWInv, ReconcileTimeoutWInv, Zenon DEF Keeps
<1>5. ASSUME NEW c \in Call, HeartbeatRun(c) \/ MutateWorkerRun(c) PROVE WInv'
  BY <1>5, HeartbeatRunWInv, MutateWorkerRunWInv, Zenon DEF Keeps
<1>6. ASSUME NEW c \in Call, NEW r \in Run, ClaimRun(c, r) PROVE WInv'
  BY <1>6, ClaimRunWInv, Zenon DEF Keeps
<1>7. ASSUME NEW r \in Run, NEW key \in SignalKey, AppendRunSignal(r, key) PROVE WInv'
  BY <1>7, AppendRunSignalWInv, Zenon DEF Keeps
<1>8. ASSUME NEW c \in Call, NEW w \in Worker, NEW at \in Reading, BeginStep(c, w, at)
      PROVE  WInv'
  BY <1>8, BeginWInv, Zenon DEF Keeps
<1>9. ASSUME EndStep \/ EnvironmentStep PROVE WInv'
  BY <1>9, EndWInv, EnvironmentWInv, Zenon DEF Keeps
<1> QED
  BY <1>1, <1>2, <1>3, <1>4, <1>5, <1>6, <1>7, <1>8, <1>9, Zenon
     DEF Next, BeginStep, EndStep, EnvironmentStep

(* The invariant holds in every reachable state. *)
THEOREM WorkerInvariant == Spec => []WInv
BY InitWInv, NextWInv, PTL DEF Spec

(* Every variable keeps its type. *)
THEOREM WorkerTypeCorrect == Spec => []TypeOK
<1>1. WInv => TypeOK
  BY Zenon DEF WInv
<1> QED
  BY <1>1, WorkerInvariant, PTL

(* At most one worker passes the ownership test of HeartbeatRun and        *)
(* MutateWorkerRun, however claims, retries, expiries and late calls       *)
(* interleave.                                                             *)
THEOREM SoleOwnership == Spec => []SoleOwner
<1>1. WInv => SoleOwner
  BY DEF WInv, SoleOwner, IdentifiesClaim
<1> QED
  BY <1>1, WorkerInvariant, PTL

(* Fencing tokens alone decide ownership as the repository does.           *)
THEOREM TokensIdentifyLeases == Spec => []TokenIdentifiesLease
<1>1. WInv => TokenIdentifiesLease
  BY Zenon DEF WInv
<1> QED
  BY <1>1, WorkerInvariant, PTL

(* A run that is paused, cancelled or over is owned by nobody.             *)
THEOREM OwnedRunsAreLive == Spec => []OwnedRunIsLive
<1>1. WInv => OwnedRunIsLive
  BY Zenon DEF WInv
<1> QED
  BY <1>1, WorkerInvariant, PTL

-----------------------------------------------------------------------------
(* Action properties *)

(* No transaction touches a terminal run: each one either requires a live  *)
(* state itself, or a lease on the row, which a terminal run never has.    *)
LEMMA NextFinal == WInv /\ [Next]_vars => [FinalStep]_vars
<1> SUFFICES ASSUME WInv, Next, NEW r \in Run, Terminal(row[r].state)
             PROVE  row'[r] = row[r] /\ signals'[r] = signals[r]
  BY Zenon DEF FinalStep
<1>1. TypeOK /\ row[r].state \notin {"ADMITTED", "RUNNING", "PAUSED_FOR_BUDGET"}
  BY Zenon DEF WInv, Terminal, TerminalState
<1>2. ASSUME NEW c \in Call, NEW q \in Run, ClaimRun(c, q)
      PROVE  row'[r] = row[r] /\ signals'[r] = signals[r]
  BY <1>1, <1>2, Zenon DEF ClaimRun, Claimable, TypeOK
<1>3. ASSUME NEW c \in Call, HeartbeatRun(c)
      PROVE  row'[r] = row[r] /\ signals'[r] = signals[r]
  BY <1>1, <1>3, Zenon DEF HeartbeatRun, TypeOK
<1>4. ASSUME NEW c \in Call, MutateWorkerRun(c)
      PROVE  row'[r] = row[r] /\ signals'[r] = signals[r]
  BY <1>1, <1>4, Zenon DEF MutateWorkerRun, Accepts, TypeOK
<1>5. ASSUME NEW q \in Run, NEW at,
             \/ \E key \in SignalKey : CancelRun(q, key, at)
             \/ \E disposition \in {"PAUSE", "FAIL"} : applyBudgetExhaustion(q, disposition, at)
             \/ ExtendResources(q, at)
             \/ ReconcileTimeout(q, at)
             \/ \E key \in SignalKey : AppendRunSignal(q, key)
      PROVE  row'[r] = row[r] /\ signals'[r] = signals[r]
  BY <1>1, <1>5 DEF CancelRun, applyBudgetExhaustion, ExtendResources, ReconcileTimeout,
     AppendRunSignal, Accepts, TypeOK
<1> QED
  BY <1>2, <1>3, <1>4, <1>5, Zenon
     DEF Next, Tick, BeginClaim, BeginHeartbeat, BeginOperate, Deliver, CallEnds, WorkerCrash,
         Revoke, Lift

(* A terminal run is never changed again, by whatever call is still late.  *)
THEOREM TerminalRunsAreFinal == Spec => TerminalIsFinal
BY WorkerInvariant, NextFinal, PTL DEF Spec, TerminalIsFinal

(* Replacing one row by a row with a later token, or with the same token   *)
(* and owner, or without owner as the run ends, is a fenced step.          *)
LEMMA RowChangeFenced ==
    ASSUME TypeOK, NEW r \in Run, NEW new \in Row, row' = [row EXCEPT ![r] = new],
           \/ new.fence = row[r].fence + 1
           \/ new.fence = row[r].fence /\ new.lease = row[r].lease
           \/ new.fence = row[r].fence /\ new.lease = None /\ Terminal(new.state)
    PROVE  FencedStep
<1>1. row'[r] = new /\ \A q \in Run : q # r => row'[q] = row[q]
  BY Zenon DEF TypeOK
<1>2. \A q \in Run : row[q].fence \in Nat
  BY DEF TypeOK, Row
<1> QED
  BY <1>1, <1>2 DEF FencedStep

(* Every transaction fences the ownership it takes away. *)
LEMMA NextFenced == WInv /\ [Next]_vars => [FencedStep]_vars
<1> SUFFICES ASSUME WInv, Next PROVE FencedStep
  BY Zenon
<1>1. TypeOK /\ WInv' /\ row' \in [Run -> Row] /\ \A r \in Run : row[r].fence \in Nat
  <2>1. TypeOK /\ WInv'
    BY NextWInv, Zenon DEF WInv
  <2>2. row' \in [Run -> Row]
    BY <2>1, Zenon DEF WInv, TypeOK
  <2>3. row \in [Run -> Row]
    BY <2>1, Zenon DEF TypeOK
  <2>4. \A r \in Run : row[r].fence \in Nat
    BY <2>3 DEF Row
  <2> QED
    BY <2>1, <2>2, <2>4, Zenon
<1>2. ASSUME row' = row PROVE FencedStep
  BY <1>1, <1>2 DEF FencedStep
<1>3. ASSUME NEW r \in Run, NEW next \in Row, FenceLeft(r),
             row' = [row EXCEPT ![r] = Fenced(r, next)]
      PROVE  FencedStep
  BY <1>1, <1>3, FencedRow, RowChangeFenced, Zenon
<1>4. ASSUME NEW c \in Call, NEW r \in Run, ClaimRun(c, r) PROVE FencedStep
  <2>1. /\ row'[r].fence = row[r].fence + 1
        /\ \A q \in Run : q # r => row'[q] = row[q]
    BY <1>1, <1>4, Zenon DEF ClaimRun, NextFencingToken, TypeOK, Row
  <2> QED
    BY <1>1, <2>1 DEF FencedStep
<1>5. ASSUME NEW c \in Call, HeartbeatRun(c) PROVE FencedStep
  <2>1. call[c].lease.run \in Run
    BY <1>1, <1>5, SMTT(30) DEF TypeOK, HeartbeatRun, CallState, Idle, Lease
  <2>2. \A q \in Run : row'[q].fence = row[q].fence /\ row'[q].lease = row[q].lease
    BY <1>1, <1>5, <2>1 DEF HeartbeatRun, TypeOK, Row
  <2> QED
    BY <1>1, <2>2 DEF FencedStep
<1>6. ASSUME NEW c \in Call, MutateWorkerRun(c) PROVE FencedStep
  <2> DEFINE r == call[c].lease.run
             to == WorkerTarget(call[c].operation)[1]
             next == Moved(row[r], to, call[c].at)
  <2>1. /\ call[c].lease \in Lease /\ call[c].at \in Nat /\ call[c].operation \in Operation
        /\ r \in Run /\ row[r] \in Row
    BY <1>1, <1>6 DEF TypeOK, MutateWorkerRun, CallState, Idle, Lease
  <2>2. to \in RunState
    BY <2>1 DEF WorkerTarget, Operation, RunState
  <2>3. /\ next \in Row /\ next.state = to
        /\ next.lease = row[r].lease /\ next.fence = row[r].fence
    <3>1. row[r].version < MaxInt64
      BY <1>6, Zenon DEF MutateWorkerRun, Accepts
    <3> HIDE DEF r, to
    <3> QED
      BY <2>1, <2>2, <3>1, MovedRow
  <2>4. row' = [row EXCEPT ![r] = IF Terminal(to) THEN [next EXCEPT !.lease = None, !.expires = 0]
                                  ELSE next]
    BY <1>6, Zenon DEF MutateWorkerRun
  <2> HIDE DEF next, to
  <2>5. CASE Terminal(to)
    <3> DEFINE released == [next EXCEPT !.lease = None]
               new == [released EXCEPT !.expires = 0]
    <3>1. /\ released \in Row /\ released.lease = None
          /\ released.state = to /\ released.fence = row[r].fence
      BY <2>3, Zenon DEF Row
    <3>2. new \in Row /\ new.lease = None /\ new.state = to /\ new.fence = row[r].fence
      <4> HIDE DEF released
      <4> QED
        BY <3>1, Zenon DEF Row
    <3>3. row' = [row EXCEPT ![r] = new]
      BY <2>4, <2>5, Zenon
    <3> HIDE DEF new
    <3> QED
      BY <1>1, <2>1, <2>5, <3>2, <3>3, RowChangeFenced, Zenon
  <2>6. CASE ~Terminal(to)
    BY <1>1, <2>1, <2>3, <2>4, <2>6, RowChangeFenced, Zenon
  <2> QED
    BY <2>5, <2>6, Zenon
<1>7. ASSUME NEW r \in Run, NEW at \in Reading,
             \/ \E key \in SignalKey : CancelRun(r, key, at)
             \/ \E disposition \in {"PAUSE", "FAIL"} : applyBudgetExhaustion(r, disposition, at)
             \/ ReconcileTimeout(r, at)
      PROVE  FencedStep
  <2>1. /\ row[r] \in Row /\ at \in Nat
        /\ {"CANCELLED", "TIMED_OUT", "BUDGET_EXHAUSTED", "PAUSED_FOR_BUDGET", "FAILED_BUDGET"}
              \subseteq RunState
    BY <1>1, ReadingIsTime, Zenon DEF TypeOK, RunState
  <2>2. \A old \in Row, to \in RunState : old.version < MaxInt64 => Moved(old, to, at) \in Row
    BY <2>1, MovedRow, Zenon
  <2>3. FenceLeft(r) /\ \E next \in Row : row' = [row EXCEPT ![r] = Fenced(r, next)]
    BY <1>7, <2>1, <2>2, Zenon DEF CancelRun, applyBudgetExhaustion, ReconcileTimeout, Accepts
  <2> QED
    BY <1>3, <2>3, Zenon
<1>8. ASSUME NEW r \in Run, NEW at \in Reading, ExtendResources(r, at) PROVE FencedStep
  <2> DEFINE moved == Moved(row[r], "RUNNING", at)
             touched == [row[r] EXCEPT !.updated = at]
  <2>1. row[r] \in Row /\ at \in Nat /\ "RUNNING" \in RunState
    BY <1>1, ReadingIsTime, Zenon DEF TypeOK, RunState
  <2>2. row[r].version < MaxInt64 =>
           moved \in Row /\ moved.fence = row[r].fence /\ moved.lease = row[r].lease
    BY <2>1, MovedRow
  <2>3. touched \in Row /\ touched.fence = row[r].fence /\ touched.lease = row[r].lease
    BY <2>1, Zenon DEF Row
  <2>4. \/ row' = [row EXCEPT ![r] = moved] /\ row[r].version < MaxInt64
        \/ row' = [row EXCEPT ![r] = touched]
    BY <1>1, <1>8, Zenon DEF ExtendResources, Accepts, TypeOK
  <2> HIDE DEF moved, touched
  <2> QED
    BY <1>1, <2>2, <2>3, <2>4, RowChangeFenced, Zenon
<1> QED
  BY <1>2, <1>4, <1>5, <1>6, <1>7, <1>8, Zenon
     DEF Next, Tick, BeginClaim, BeginHeartbeat, BeginOperate, Deliver, CallEnds, WorkerCrash,
         Revoke, Lift, AppendRunSignal

(* Tokens never go back, and no owner is replaced or deposed without a new *)
(* one.                                                                    *)
THEOREM OwnershipAlwaysFenced == Spec => OwnershipIsFenced
BY WorkerInvariant, NextFenced, PTL DEF Spec, OwnershipIsFenced

(* A transaction that changes one row and appends its event leaves every   *)
(* newest event current.                                                   *)
LEMMA EventIsCurrent ==
    ASSUME TypeOK, LastEventIsCurrent, NEW r \in Run, AppendEvent(r),
           \A q \in Run : q # r => row'[q] = row[q]
    PROVE  LastEventIsCurrent'
<1>1. last'[r] = [state |-> row'[r].state, version |-> row'[r].version]
  BY Zenon DEF AppendEvent, TypeOK
<1>2. \A q \in Run : q # r => last'[q] = last[q]
  BY Zenon DEF AppendEvent, TypeOK
<1> QED
  BY <1>1, <1>2, Zenon DEF LastEventIsCurrent

(* The types of what a call carries. *)
LEMMA CallTypes ==
    ASSUME TypeOK, NEW c \in Call
    PROVE  /\ call[c].kind \in {"claim", "heartbeat", "operate"} => call[c].at \in Nat
           /\ call[c].kind = "claim" => call[c].worker \in Worker
           /\ call[c].kind \in {"heartbeat", "operate", "claimed", "renewed"} =>
                 call[c].lease \in Lease
           /\ call[c].kind = "operate" => call[c].operation \in Operation
<1>1. call[c] \in CallState
  BY Zenon DEF TypeOK
<1>2. /\ call[c].kind = "claim" => call[c] \in [kind : {"claim"}, worker : Worker, at : Nat]
      /\ call[c].kind = "heartbeat" => call[c] \in [kind : {"heartbeat"}, lease : Lease, at : Nat]
      /\ call[c].kind = "claimed" => call[c] \in [kind : {"claimed"}, lease : Lease, at : Nat]
  BY <1>1 DEF CallState, Idle
<1>3. /\ call[c].kind = "operate" =>
            call[c] \in [kind : {"operate"}, lease : Lease, at : Nat, operation : Operation]
      /\ call[c].kind = "renewed" => call[c] \in [kind : {"renewed"}, lease : Lease]
  BY <1>1 DEF CallState, Idle
<1> QED
  BY <1>2, <1>3, Zenon

(* Every transaction appends the event of the row it changes.              *)
LEMMA NextCurrent == WInv /\ LastEventIsCurrent /\ [Next]_vars => LastEventIsCurrent'
<1> SUFFICES ASSUME WInv, LastEventIsCurrent, [Next]_vars PROVE LastEventIsCurrent'
  BY Zenon
<1>1. TypeOK /\ row = [q \in Run |-> row[q]]
  BY Zenon DEF WInv, TypeOK
<1>2. ASSUME NEW c \in Call, NEW r \in Run, ClaimRun(c, r) PROVE LastEventIsCurrent'
  BY <1>1, <1>2, EventIsCurrent, Zenon DEF ClaimRun
<1>3. ASSUME NEW c \in Call, HeartbeatRun(c) \/ MutateWorkerRun(c) PROVE LastEventIsCurrent'
  <2>a. call[c].kind \in {"heartbeat", "operate"}
    BY <1>3, Zenon DEF HeartbeatRun, MutateWorkerRun
  <2>1. call[c].lease.run \in Run
    BY <1>1, <2>a, CallTypes, ZenonT(30) DEF Lease
  <2>2. AppendEvent(call[c].lease.run)
    BY <1>3, Zenon DEF HeartbeatRun, MutateWorkerRun
  <2>3. \A q \in Run : q # call[c].lease.run => row'[q] = row[q]
    BY <1>1, <1>3, <2>1, Zenon DEF HeartbeatRun, MutateWorkerRun
  <2> QED
    BY <1>1, <2>1, <2>2, <2>3, EventIsCurrent, ZenonT(30)
<1>4. ASSUME NEW r \in Run, NEW at,
             \/ \E key \in SignalKey : CancelRun(r, key, at)
             \/ \E disposition \in {"PAUSE", "FAIL"} : applyBudgetExhaustion(r, disposition, at)
             \/ ExtendResources(r, at)
             \/ ReconcileTimeout(r, at)
             \/ \E key \in SignalKey : AppendRunSignal(r, key)
      PROVE  LastEventIsCurrent'
  <2>1. AppendEvent(r) /\ \A q \in Run : q # r => row'[q] = row[q]
    BY <1>1, <1>4, Zenon DEF CancelRun, applyBudgetExhaustion, ExtendResources, ReconcileTimeout,
       AppendRunSignal
  <2> QED
    BY <1>1, <2>1, EventIsCurrent, Zenon
<1>5. ASSUME UNCHANGED <<row, last>> PROVE LastEventIsCurrent'
  BY <1>5, Zenon DEF LastEventIsCurrent
<1> QED
  BY <1>2, <1>3, <1>4, <1>5, Zenon
     DEF Next, vars, Tick, BeginClaim, BeginHeartbeat, BeginOperate, Deliver, CallEnds,
         WorkerCrash, Revoke, Lift

(* The newest event of a run always carries the state and version of its   *)
(* row: no transaction on the row forgets its event.                       *)
THEOREM NewestEventsAreCurrent == Spec => []LastEventIsCurrent
<1>1. Init => LastEventIsCurrent
  BY DEF Init, LastEventIsCurrent
<1> QED
  BY <1>1, WorkerInvariant, NextCurrent, PTL DEF Spec

(***************************************************************************)
(* Revoked leases end: a proof of RevocationEndsLease for every clock skew *)
(* and every number of runs, workers and delayed calls.  EndInv adds to    *)
(* WInv how far ahead any time in use can be, and what the check at the    *)
(* start of a heartbeat has established.                                   *)
(***************************************************************************)

(* A time that was read before, or with a clock that had not yet reached,  *)
(* the revocation of a target, or before it takes effect.                  *)
ReadBefore(at, t) ==
    revoked[t] # None => at <= revoked[t].since + Skew \/ at <= revoked[t].effective

(* No recorded time is ahead of the clock by more than its error, and a    *)
(* heartbeat under way has passed the check for its run, tenant and worker *)
(* with its own time.                                                      *)
RevocationTimes ==
    \A t \in Target : revoked[t] # None => revoked[t].since <= now

CallTime(c) ==
    /\ call[c].kind \in {"claim", "heartbeat"} => call[c].at <= now + Skew
    /\ call[c].kind = "heartbeat" =>
          \A t \in {call[c].lease.run, call[c].lease.worker, Tenant} : ReadBefore(call[c].at, t)

LeaseTimes ==
    \A r \in Run : row[r].lease # None => row[r].expires <= now + Skew + LeaseDuration

(* A worker holds leases of its own. *)
OwnLeases == \A w \in Worker : held[w] # None => held[w].worker = w

TimeInv ==
    /\ RevocationTimes
    /\ \A c \in Call : CallTime(c)
    /\ LeaseTimes
    /\ OwnLeases

(* What a transaction that grants nothing may do to a row. *)
NotExtended(r) ==
    \/ row'[r].lease = None
    \/ /\ row'[r].lease = row[r].lease /\ row'[r].fence = row[r].fence
       /\ row'[r].expires = row[r].expires

(* A transaction of somebody other than the owner moves the run.           *)
OtherStep(r, at) ==
    \/ \E key \in SignalKey : CancelRun(r, key, at) \/ AppendRunSignal(r, key)
    \/ \E disposition \in {"PAUSE", "FAIL"} : applyBudgetExhaustion(r, disposition, at)
    \/ ExtendResources(r, at)
    \/ ReconcileTimeout(r, at)

EndInv == WInv /\ TimeInv /\ RevocationEndsLease

(* The types the arithmetic needs. *)
LEMMA TimeTypes ==
    ASSUME TypeOK
    PROVE  /\ now \in Nat /\ Skew \in Nat /\ LeaseDuration \in Nat
           /\ \A r \in Run : row[r].expires \in Nat
           /\ \A t \in Target : revoked[t] # None =>
                 revoked[t].since \in Nat /\ revoked[t].effective \in Nat
           /\ \A l \in Circulating : l.run \in Run /\ l.worker \in Target /\ l.id # None
           /\ Tenant \in Target /\ Run \subseteq Target /\ Worker \subseteq Target
<1>1. \A r \in Run : row[r] \in Row
  BY Zenon DEF TypeOK
<1>2. \A t \in Target : revoked[t] # None => revoked[t] \in [effective : Nat, since : Nat]
  BY Zenon DEF TypeOK
<1>3. \A l \in Circulating : l.run \in Run /\ l.worker \in Worker /\ l.id \in Nat
  BY CirculatingLeases, Zenon DEF Lease
<1> QED
  BY <1>1, <1>2, <1>3, TimeAssumption, IdentityAssumption DEF TypeOK, Row, Target

(* An operation leads to a state. *)
LEMMA TargetState == \A operation \in Operation : WorkerTarget(operation)[1] \in RunState
BY DEF WorkerTarget, Operation, RunState

(* A time that passes the check of a target lies before its revocation.    *)
LEMMA CheckedBefore ==
    ASSUME TypeOK, RevocationTimes, NEW t \in Target, NEW at \in Nat, ~RevokedAt(t, at)
    PROVE  ReadBefore(at, t)
BY TimeTypes DEF RevokedAt, ReadBefore, RevocationTimes

(* A call that rests keeps what is known of its time, as does a call that  *)
(* is no longer on its way to a grant.                                     *)
LEMMA RestingCall ==
    ASSUME UNCHANGED <<now, revoked>>, NEW c \in Call, CallTime(c),
           call'[c] = call[c] \/ call'[c].kind \notin {"claim", "heartbeat"}
    PROVE  CallTime(c)'
BY Zenon DEF CallTime, ReadBefore

(* A step that extends no row, while no revocation changes and nothing new *)
(* circulates, keeps every lease within its bound.                         *)
LEMMA NothingExtended ==
    ASSUME EndInv, UNCHANGED revoked, now' \in {now, now + 1},
           Circulating' \subseteq Circulating, \A r \in Run : NotExtended(r)
    PROVE  LeaseTimes' /\ RevocationEndsLease'
<1>1. TypeOK
  BY Zenon DEF EndInv, WInv
<1>2. \A r \in Run : row'[r].lease # None =>
         /\ row'[r].lease = row[r].lease /\ row'[r].fence = row[r].fence
         /\ row'[r].expires = row[r].expires
  BY Zenon DEF NotExtended
<1>3. LeaseTimes'
  BY <1>1, <1>2, TimeTypes DEF EndInv, TimeInv, LeaseTimes
<1>4. \A r \in Run, t \in Run \cup {Tenant} : t \in {r, Tenant} => LeaseEndsAfter(r, t)'
  BY <1>2 DEF EndInv, RevocationEndsLease, LeaseEndsAfter
<1>5. \A l \in Circulating : OnRow(l)' => LeaseEndsAfter(l.run, l.worker)'
  BY <1>1, <1>2, TimeTypes DEF EndInv, RevocationEndsLease, LeaseEndsAfter, OnRow
<1> QED
  BY <1>3, <1>4, <1>5, Zenon DEF RevocationEndsLease

(* Time passes, and revocations come and go. *)
LEMMA EnvironmentEnds ==
    ASSUME EndInv, EnvironmentStep
    PROVE  TimeInv' /\ RevocationEndsLease'
<1>1. /\ TypeOK /\ TypeOK' /\ TimeInv /\ RevocationEndsLease
      /\ Circulating' = Circulating /\ UNCHANGED <<row, held, call>>
      /\ now' \in {now, now + 1}
  <2>1. UNCHANGED <<row, held, call>> /\ now' \in {now, now + 1}
    BY Zenon DEF EnvironmentStep, Tick, Revoke, Lift
  <2> QED
    BY <2>1, SameCirculation, EnvironmentWInv, Zenon DEF EndInv, WInv, Keeps
<1>2. /\ \A c \in Call : call[c].kind \in {"claim", "heartbeat"} => call[c].at \in Nat
      /\ \A c \in Call : call[c].kind = "heartbeat" =>
            call[c].lease.run \in Run /\ call[c].lease.worker \in Worker
  BY <1>1, CallTypes, Zenon DEF Lease
<1>3. OwnLeases'
  BY <1>1, Zenon DEF TimeInv, OwnLeases
<1>4. CASE UNCHANGED revoked
  <2>1. LeaseTimes' /\ RevocationEndsLease'
    BY <1>1, <1>4, NothingExtended, Zenon DEF NotExtended
  <2>2. RevocationTimes'
    BY <1>1, <1>4, TimeTypes DEF TimeInv, RevocationTimes
  <2>3. \A c \in Call : CallTime(c)'
    BY <1>1, <1>2, <1>4, TimeTypes DEF TimeInv, CallTime, ReadBefore
  <2> QED
    BY <1>3, <2>1, <2>2, <2>3, Zenon DEF TimeInv
<1>5. ASSUME NEW t \in Revocable, NEW at \in Effective, Revoke(t, at)
      PROVE  TimeInv' /\ RevocationEndsLease'
  <2>1. /\ now' = now /\ t \in Target /\ at \in Nat
        /\ revoked'[t] = [effective |-> at, since |-> now]
        /\ \A u \in Target : u # t => revoked'[u] = revoked[u]
    BY <1>1, <1>5, TimeAssumption, IdentityAssumption DEF Revoke, TypeOK, Target
  <2>2. \A r \in Run, u \in Target : LeaseEndsAfter(r, u) => LeaseEndsAfter(r, u)'
    BY <1>1, <2>1, TimeTypes DEF LeaseEndsAfter, TimeInv, LeaseTimes
  <2>3. RevocationEndsLease'
    BY <1>1, <2>2, TimeTypes DEF RevocationEndsLease, OnRow
  <2>4. ASSUME NEW c \in Call PROVE CallTime(c)'
    <3>1. CallTime(c)
      BY <1>1, Zenon DEF TimeInv
    <3>2. \A u \in Target : call[c].kind = "heartbeat" /\ ReadBefore(call[c].at, u)
                              => ReadBefore(call[c].at, u)'
      BY <1>1, <1>2, <2>1, <3>1, TimeTypes DEF ReadBefore, CallTime
    <3>3. call[c].kind = "heartbeat" =>
             {call[c].lease.run, call[c].lease.worker, Tenant} \subseteq Target
      BY <1>1, <1>2, TimeTypes, Zenon
    <3> QED
      BY <1>1, <2>1, <3>1, <3>2, <3>3, Zenon DEF CallTime
  <2>5. RevocationTimes'
    BY <1>1, <2>1, TimeTypes DEF TimeInv, RevocationTimes
  <2>6. LeaseTimes'
    BY <1>1, <2>1, Zenon DEF TimeInv, LeaseTimes
  <2> QED
    BY <1>3, <2>3, <2>4, <2>5, <2>6, Zenon DEF TimeInv
<1>6. ASSUME NEW t \in Revocable, Lift(t)
      PROVE  TimeInv' /\ RevocationEndsLease'
  <2>1. /\ now' = now
        /\ \A u \in Target : revoked'[u] # None => revoked'[u] = revoked[u]
    BY <1>1, <1>6, IdentityAssumption, Zenon DEF Lift, TypeOK, Target
  <2>2. \A r \in Run, u \in Target : LeaseEndsAfter(r, u) => LeaseEndsAfter(r, u)'
    BY <1>1, <2>1, Zenon DEF LeaseEndsAfter
  <2>3. RevocationEndsLease'
    BY <1>1, <2>2, TimeTypes, Zenon DEF RevocationEndsLease, OnRow
  <2>4. ASSUME NEW c \in Call PROVE CallTime(c)'
    <3>1. \A u \in Target : ReadBefore(call[c].at, u) => ReadBefore(call[c].at, u)'
      BY <1>1, <2>1, Zenon DEF ReadBefore
    <3>2. call[c].kind = "heartbeat" =>
             {call[c].lease.run, call[c].lease.worker, Tenant} \subseteq Target
      BY <1>1, <1>2, TimeTypes, Zenon
    <3> QED
      BY <1>1, <2>1, <3>1, <3>2, Zenon DEF TimeInv, CallTime
  <2>5. RevocationTimes' /\ LeaseTimes'
    BY <1>1, <2>1, Zenon DEF TimeInv, RevocationTimes, LeaseTimes
  <2> QED
    BY <1>3, <2>3, <2>4, <2>5, Zenon DEF TimeInv
<1> QED
  BY <1>4, <1>5, <1>6, Zenon DEF EnvironmentStep, Tick

(* A step that extends no row and leaves calls with admissible times.      *)
LEMMA QuietStep ==
    ASSUME EndInv, UNCHANGED <<now, revoked>>, Circulating' \subseteq Circulating,
           \A r \in Run : NotExtended(r), OwnLeases', \A c \in Call : CallTime(c)'
    PROVE  TimeInv' /\ RevocationEndsLease'
<1>1. LeaseTimes' /\ RevocationEndsLease'
  BY NothingExtended, Zenon
<1>2. RevocationTimes'
  BY Zenon DEF EndInv, TimeInv, RevocationTimes
<1> QED
  BY <1>1, <1>2, Zenon DEF TimeInv

(* A call begins: a heartbeat carries the lease its worker holds, and its  *)
(* time lies before whatever revocation it was checked against.            *)
LEMMA BeginEnds ==
    ASSUME EndInv, NEW c \in Call, NEW w \in Worker, NEW at \in Reading,
           BeginStep(c, w, at)
    PROVE  TimeInv' /\ RevocationEndsLease'
<1>1. TypeOK /\ TimeInv
  BY Zenon DEF EndInv, WInv
<1>2. at \in Nat /\ at <= now + Skew
  BY <1>1, ReadingIsTime, TimeTypes DEF Reading
<1>3. UNCHANGED <<now, row, revoked, held>> /\ \A d \in Call : d # c => call'[d] = call[d]
  BY <1>1, Zenon DEF BeginStep, BeginClaim, BeginHeartbeat, BeginOperate, TypeOK
<1>4. OwnLeases' /\ \A r \in Run : NotExtended(r)
  BY <1>1, <1>3, Zenon DEF TimeInv, OwnLeases, NotExtended
<1>5. ASSUME Circulating' \subseteq Circulating, CallTime(c)'
      PROVE  TimeInv' /\ RevocationEndsLease'
  <2>1. \A d \in Call : CallTime(d)'
    BY <1>1, <1>3, <1>5, RestingCall, Zenon DEF TimeInv
  <2> QED
    BY <1>3, <1>4, <1>5, <2>1, QuietStep, Zenon
<1>6. CASE BeginClaim(c, w, at)
  <2>1. Circulating' \subseteq Circulating
    BY <1>1, <1>6, Zenon DEF BeginClaim, Circulating, InFlight, TypeOK
  <2>2. call'[c].kind = "claim" /\ call'[c].at = at
    BY <1>1, <1>6, Zenon DEF BeginClaim, TypeOK
  <2> QED
    BY <1>2, <1>3, <1>5, <2>1, <2>2, Zenon DEF CallTime
<1>7. CASE BeginHeartbeat(c, w, at)
  <2>1. held[w] # None /\ held[w] \in Lease /\ held[w].worker = w
    BY <1>1, <1>7, Zenon DEF BeginHeartbeat, Usable, TypeOK, TimeInv, OwnLeases
  <2>2. Circulating' \subseteq Circulating
    BY <1>1, <1>7, <2>1, Zenon DEF BeginHeartbeat, Circulating, InFlight, TypeOK
  <2>3. call'[c].kind = "heartbeat" /\ call'[c].at = at /\ call'[c].lease = held[w]
    BY <1>1, <1>7, Zenon DEF BeginHeartbeat, TypeOK
  <2>4. \A t \in {held[w].run, w, Tenant} : t \in Target /\ ~RevokedAt(t, at)
    BY <1>1, <1>7, <2>1, TimeTypes, Zenon DEF BeginHeartbeat, Usable, checkWorkerRevocations, Lease
  <2>5. \A t \in {held[w].run, w, Tenant} : ReadBefore(at, t)
    BY <1>1, <1>2, <2>4, CheckedBefore, Zenon DEF TimeInv
  <2>6. CallTime(c)'
    BY <1>2, <1>3, <2>1, <2>3, <2>5, Zenon DEF CallTime, ReadBefore
  <2> QED
    BY <1>5, <2>2, <2>6, Zenon
<1>8. ASSUME NEW operation \in Operation, BeginOperate(c, w, at, operation)
      PROVE  TimeInv' /\ RevocationEndsLease'
  <2>1. held[w] # None
    BY <1>8, Zenon DEF BeginOperate, Usable
  <2>2. Circulating' \subseteq Circulating
    BY <1>1, <1>8, <2>1, Zenon DEF BeginOperate, Circulating, InFlight, TypeOK
  <2>3. call'[c].kind = "operate"
    BY <1>1, <1>8, Zenon DEF BeginOperate, TypeOK
  <2> QED
    BY <1>5, <2>2, <2>3, Zenon DEF CallTime
<1> QED
  BY <1>6, <1>7, <1>8, Zenon DEF BeginStep

(* A call ends, with or without its reply, or a worker crashes. *)
LEMMA EndEnds ==
    ASSUME EndInv, EndStep
    PROVE  TimeInv' /\ RevocationEndsLease'
<1>1. TypeOK /\ TimeInv /\ UNCHANGED <<now, revoked>> /\ \A r \in Run : NotExtended(r)
  BY Zenon DEF EndInv, WInv, EndStep, Deliver, CallEnds, WorkerCrash, NotExtended
<1>2. ASSUME NEW c \in Call, Deliver(c) \/ CallEnds(c) PROVE \A d \in Call : CallTime(d)'
  <2>1. \A d \in Call : call'[d] = call[d] \/ call'[d].kind \notin {"claim", "heartbeat"}
    BY <1>1, <1>2 DEF Deliver, CallEnds, TypeOK, Idle
  <2> QED
    BY <1>1, <2>1, RestingCall, Zenon DEF TimeInv
<1>3. ASSUME NEW c \in Call, Deliver(c) PROVE TimeInv' /\ RevocationEndsLease'
  <2>1. c \in InFlight /\ call[c].lease \in Lease
    BY <1>1, <1>3, CallTypes, Zenon DEF Deliver, InFlight
  <2>2. Circulating' \subseteq Circulating
    BY <1>1, <1>3, <2>1, Zenon DEF Deliver, Circulating, InFlight, TypeOK, Idle
  <2>3. OwnLeases'
    BY <1>1, <1>3, <2>1, Zenon DEF Deliver, TypeOK, Lease, TimeInv, OwnLeases
  <2> QED
    BY <1>1, <1>2, <1>3, <2>2, <2>3, QuietStep, Zenon
<1>4. ASSUME NEW c \in Call, CallEnds(c) PROVE TimeInv' /\ RevocationEndsLease'
  <2>1. Circulating' \subseteq Circulating
    BY <1>1, <1>4, Zenon DEF CallEnds, Circulating, InFlight, TypeOK, Idle
  <2>2. OwnLeases'
    BY <1>1, <1>4, Zenon DEF CallEnds, TimeInv, OwnLeases
  <2> QED
    BY <1>1, <1>2, <1>4, <2>1, <2>2, QuietStep, Zenon
<1>5. ASSUME NEW w \in Worker, WorkerCrash(w) PROVE TimeInv' /\ RevocationEndsLease'
  <2>1. Circulating' \subseteq Circulating
    BY <1>1, <1>5, Zenon DEF WorkerCrash, Circulating, InFlight, TypeOK
  <2>2. OwnLeases'
    BY <1>1, <1>5, Zenon DEF WorkerCrash, TypeOK, TimeInv, OwnLeases
  <2>3. \A c \in Call : CallTime(c)'
    BY <1>1, <1>5, RestingCall, Zenon DEF WorkerCrash, TimeInv
  <2> QED
    BY <1>1, <2>1, <2>2, <2>3, QuietStep, Zenon
<1> QED
  BY <1>3, <1>4, <1>5, Zenon DEF EndStep

(* A transaction that gives one row an expiry one lease duration after a   *)
(* time that lies before every revocation of run, worker and tenant, for a *)
(* lease that only that worker presents.                                   *)
LEMMA GrantEnds ==
    ASSUME EndInv, UNCHANGED <<now, revoked, held>>,
           NEW c \in Call, NEW r \in Run, NEW w \in Worker, NEW at \in Nat, at <= now + Skew,
           \A t \in {r, w, Tenant} : ReadBefore(at, t),
           row'[r].expires = at + LeaseDuration, \A q \in Run : q # r => row'[q] = row[q],
           \A d \in Call : d # c => call'[d] = call[d],
           call'[c].kind \notin {"claim", "heartbeat"},
           \A l \in Circulating' : OnRow(l)' =>
               \/ l.run = r /\ l.worker = w
               \/ l.run # r /\ l \in Circulating
    PROVE  TimeInv' /\ RevocationEndsLease'
<1>1. TypeOK /\ TimeInv /\ RevocationEndsLease
  BY Zenon DEF EndInv, WInv
<1>2. \A t \in {r, w, Tenant} : LeaseEndsAfter(r, t)'
  BY <1>1, TimeTypes DEF LeaseEndsAfter, ReadBefore
<1>3. \A q \in Run, t \in Target : q # r /\ LeaseEndsAfter(q, t) => LeaseEndsAfter(q, t)'
  BY <1>1, Zenon DEF LeaseEndsAfter
<1>4. \A q \in Run, t \in Run \cup {Tenant} : t \in {q, Tenant} => LeaseEndsAfter(q, t)'
  BY <1>1, <1>2, <1>3, TimeTypes DEF RevocationEndsLease
<1>5. \A l \in Circulating' : OnRow(l)' => LeaseEndsAfter(l.run, l.worker)'
  <2> SUFFICES ASSUME NEW l \in Circulating', OnRow(l)', l.run # r, l \in Circulating
               PROVE  LeaseEndsAfter(l.run, l.worker)'
    BY <1>2, Zenon
  <2>1. l.run \in Run /\ l.worker \in Target /\ OnRow(l)
    BY <1>1, TimeTypes, Zenon DEF OnRow
  <2> QED
    BY <1>1, <1>3, <2>1, Zenon DEF RevocationEndsLease
<1>6. LeaseTimes'
  BY <1>1, TimeTypes DEF TimeInv, LeaseTimes
<1>7. RevocationTimes' /\ OwnLeases'
  BY <1>1, Zenon DEF TimeInv, RevocationTimes, OwnLeases
<1>8. \A d \in Call : CallTime(d)'
  BY <1>1, RestingCall, Zenon DEF TimeInv
<1>9. RevocationEndsLease'
  BY <1>4, <1>5, ZenonT(30) DEF RevocationEndsLease
<1> QED
  BY <1>6, <1>7, <1>8, <1>9, Zenon DEF TimeInv

(* ClaimRun checks the revocations again, with the time of its call.       *)
LEMMA ClaimEnds ==
    ASSUME EndInv, NEW c \in Call, NEW r \in Run, ClaimRun(c, r)
    PROVE  TimeInv' /\ RevocationEndsLease'
<1> DEFINE w == call[c].worker
           at == call[c].at
           lease == [run |-> r, id |-> issued + 1, worker |-> w,
                     fence |-> row[r].fence + 1, expires |-> at + LeaseDuration]
<1>1. /\ WInv /\ TypeOK /\ TimeInv /\ call[c].kind = "claim"
      /\ w \in Worker /\ at \in Nat /\ at <= now + Skew
  BY CallTypes, Zenon DEF EndInv, WInv, TimeInv, CallTime, ClaimRun
<1>2. /\ call' = [call EXCEPT ![c] = [kind |-> "claimed", lease |-> lease, at |-> at]]
      /\ UNCHANGED <<now, revoked, held>>
  BY Zenon DEF ClaimRun, NextFencingToken
<1>3. /\ row'[r].lease = issued + 1 /\ row'[r].expires = at + LeaseDuration
      /\ \A q \in Run : q # r => row'[q] = row[q]
  BY <1>1 DEF ClaimRun, TypeOK, Row
<1>4. \A t \in {r, w, Tenant} : ReadBefore(at, t)
  <2>1. \A t \in {r, w, Tenant} : t \in Target /\ ~RevokedAt(t, at)
    BY <1>1, TimeTypes, Zenon DEF ClaimRun, Claimable
  <2> QED
    BY <1>1, <2>1, CheckedBefore, Zenon DEF TimeInv
<1>5. lease.run = r /\ lease.worker = w
  BY Zenon
<1> HIDE DEF lease
<1>6. Circulating' \subseteq Circulating \cup {lease}
  BY <1>1, <1>2, Zenon DEF Circulating, InFlight, TypeOK
<1>7. \A l \in Circulating : l.id \in Nat /\ l.id <= issued
  BY <1>1, CirculatingLeases, Zenon DEF WInv, IssuedOnly, Lease
<1>8. \A l \in Circulating' : OnRow(l)' =>
          \/ l.run = r /\ l.worker = w
          \/ l.run # r /\ l \in Circulating
  <2>1. issued \in Nat
    BY <1>1, Zenon DEF TypeOK
  <2> QED
    BY <1>3, <1>5, <1>6, <1>7, <2>1 DEF OnRow
<1>9. call'[c].kind = "claimed" /\ \A d \in Call : d # c => call'[d] = call[d]
  BY <1>1, <1>2, Zenon DEF TypeOK
<1> HIDE DEF w, at
<1> QED
  BY <1>1, <1>2, <1>3, <1>4, <1>8, <1>9, GrantEnds

(* HeartbeatRun relies on the check at the start of its call.              *)
LEMMA HeartbeatEnds ==
    ASSUME EndInv, NEW c \in Call, HeartbeatRun(c)
    PROVE  TimeInv' /\ RevocationEndsLease'
<1> DEFINE lease == call[c].lease
           at == call[c].at
           r == lease.run
           w == lease.worker
           longer == [lease EXCEPT !.expires = at + LeaseDuration]
<1>1. /\ WInv /\ TypeOK /\ TimeInv /\ call[c].kind = "heartbeat"
      /\ lease \in Lease /\ at \in Nat /\ at <= now + Skew
      /\ \A t \in {r, w, Tenant} : ReadBefore(at, t)
  BY CallTypes, Zenon DEF EndInv, WInv, TimeInv, CallTime, HeartbeatRun
<1>2. /\ call' = [call EXCEPT ![c] = [kind |-> "renewed", lease |-> longer]]
      /\ row' = [row EXCEPT ![r].expires = at + LeaseDuration]
      /\ row[r].lease = lease.id
      /\ UNCHANGED <<now, revoked, held>>
  BY Zenon DEF HeartbeatRun, LeaseMatches
<1>3. r \in Run /\ w \in Worker /\ longer.worker = w /\ longer.run = r
  BY <1>1, Zenon DEF Lease
<1>4. /\ row'[r].expires = at + LeaseDuration /\ row'[r].lease = lease.id
      /\ \A q \in Run : q # r => row'[q] = row[q]
  BY <1>1, <1>2, <1>3 DEF TypeOK, Row
<1> HIDE DEF longer
<1>5. lease \in Circulating /\ Circulating' \subseteq Circulating \cup {longer}
  BY <1>1, <1>2, Zenon DEF Circulating, InFlight, TypeOK
<1>6. \A l \in Circulating : l.id = lease.id => l.worker = w
  BY <1>1, <1>5, Zenon DEF WInv, IdentifiesClaim
<1>7. \A l \in Circulating' : OnRow(l)' =>
          \/ l.run = r /\ l.worker = w
          \/ l.run # r /\ l \in Circulating
  BY <1>3, <1>4, <1>5, <1>6, Zenon DEF OnRow
<1>8. call'[c].kind = "renewed" /\ \A d \in Call : d # c => call'[d] = call[d]
  BY <1>1, <1>2, Zenon DEF TypeOK
<1> HIDE DEF lease, at, r, w
<1> QED
  BY <1>1, <1>2, <1>3, <1>4, <1>7, <1>8, GrantEnds

(* An operation of the owner keeps the expiry, or gives the lease up.      *)
LEMMA OperateEnds ==
    ASSUME EndInv, NEW c \in Call, MutateWorkerRun(c)
    PROVE  TimeInv' /\ RevocationEndsLease'
<1> DEFINE r == call[c].lease.run
           to == WorkerTarget(call[c].operation)[1]
           next == Moved(row[r], to, call[c].at)
<1>1. /\ TypeOK /\ call[c].lease \in Lease /\ call[c].at \in Nat
      /\ call[c].operation \in Operation /\ r \in Run /\ row[r] \in Row
  <2>1. TypeOK /\ call[c].kind = "operate"
    BY Zenon DEF EndInv, WInv, MutateWorkerRun
  <2>2. call[c].lease \in Lease /\ call[c].at \in Nat /\ call[c].operation \in Operation
    BY <2>1, CallTypes, Zenon
  <2> QED
    BY <2>1, <2>2, Zenon DEF TypeOK, Lease
<1>2. /\ next \in Row
      /\ next.lease = row[r].lease /\ next.fence = row[r].fence /\ next.expires = row[r].expires
  <2>1. to \in RunState
    BY <1>1, TargetState, Zenon
  <2>2. row[r].version < MaxInt64
    BY Zenon DEF MutateWorkerRun, Accepts
  <2> HIDE DEF r, to
  <2> QED
    BY <1>1, <2>1, <2>2, MovedRow
<1>3. row' = [row EXCEPT ![r] = IF Terminal(to) THEN [next EXCEPT !.lease = None, !.expires = 0]
                                ELSE next]
  BY Zenon DEF MutateWorkerRun
<1> HIDE DEF next, to
<1>4. [next EXCEPT !.lease = None, !.expires = 0].lease = None
  BY <1>2, Zenon DEF Row
<1>5. \A q \in Run : NotExtended(q)
  BY <1>1, <1>2, <1>3, <1>4, Zenon DEF NotExtended, TypeOK
<1>6. Circulating' \subseteq Circulating
  BY <1>1, Zenon DEF MutateWorkerRun, Circulating, InFlight, TypeOK, Idle
<1>7. UNCHANGED <<now, revoked, held>> /\ call'[c] = Idle
      /\ \A d \in Call : d # c => call'[d] = call[d]
  BY <1>1, Zenon DEF MutateWorkerRun, TypeOK
<1>8. OwnLeases'
  BY <1>7, Zenon DEF EndInv, TimeInv, OwnLeases
<1>9. \A d \in Call : CallTime(d)'
  BY <1>7, RestingCall DEF EndInv, TimeInv, Idle
<1> QED
  BY <1>5, <1>6, <1>7, <1>8, <1>9, QuietStep, Zenon

(* Nobody else's transaction extends a lease. *)
LEMMA OthersEnd ==
    ASSUME EndInv, NEW r \in Run, NEW at \in Reading, OtherStep(r, at)
    PROVE  TimeInv' /\ RevocationEndsLease'
<1>1. /\ TypeOK /\ UNCHANGED <<now, revoked, held>> /\ UNCHANGED <<held, call>>
      /\ row[r] \in Row /\ at \in Nat
  BY ReadingIsTime, Zenon DEF OtherStep, EndInv, WInv, TypeOK, CancelRun, AppendRunSignal,
     applyBudgetExhaustion, ExtendResources, ReconcileTimeout
<1>2. \A old \in Row, to \in RunState : old.version < MaxInt64 =>
          /\ Moved(old, to, at) \in Row /\ Moved(old, to, at).lease = old.lease
          /\ Moved(old, to, at).fence = old.fence /\ Moved(old, to, at).expires = old.expires
  BY <1>1, MovedRow
<1>3. {"CANCELLED", "TIMED_OUT", "BUDGET_EXHAUSTED", "PAUSED_FOR_BUDGET", "FAILED_BUDGET",
       "RUNNING"} \subseteq RunState
  BY Zenon DEF RunState
<1>4. \A q \in Run : NotExtended(q)
  <2>1. ASSUME NEW next \in Row, FenceLeft(r), row' = [row EXCEPT ![r] = Fenced(r, next)]
        PROVE  \A q \in Run : NotExtended(q)
    BY <1>1, <2>1, FencedRow, Zenon DEF NotExtended, TypeOK
  <2>2. CASE \E key \in SignalKey : CancelRun(r, key, at)
    BY <1>1, <1>2, <1>3, <2>1, <2>2, Zenon DEF CancelRun, Accepts
  <2>3. CASE \E disposition \in {"PAUSE", "FAIL"} : applyBudgetExhaustion(r, disposition, at)
    BY <1>1, <1>2, <1>3, <2>1, <2>3, Zenon DEF applyBudgetExhaustion, Accepts
  <2>4. CASE ReconcileTimeout(r, at)
    BY <1>1, <1>2, <1>3, <2>1, <2>4, Zenon DEF ReconcileTimeout, Accepts
  <2>5. CASE ExtendResources(r, at)
    <3> DEFINE moved == Moved(row[r], "RUNNING", at)
               touched == [row[r] EXCEPT !.updated = at]
    <3>1. /\ touched.lease = row[r].lease /\ touched.fence = row[r].fence
          /\ touched.expires = row[r].expires
      BY <1>1, Zenon DEF Row
    <3>2. \/ row' = [row EXCEPT ![r] = moved] /\ row[r].version < MaxInt64
          \/ row' = [row EXCEPT ![r] = touched]
      BY <1>1, <2>5, Zenon DEF ExtendResources, Accepts, TypeOK
    <3>3. row[r].version < MaxInt64 =>
             /\ moved.lease = row[r].lease /\ moved.fence = row[r].fence
             /\ moved.expires = row[r].expires
      BY <1>1, <1>2, <1>3, Zenon
    <3> HIDE DEF moved, touched
    <3>4. NotExtended(r) /\ \A q \in Run : q # r => row'[q] = row[q]
      BY <1>1, <3>1, <3>2, <3>3, Zenon DEF NotExtended, TypeOK
    <3> QED
      BY <3>4, Zenon DEF NotExtended
  <2>6. CASE \E key \in SignalKey : AppendRunSignal(r, key)
    BY <2>6, Zenon DEF AppendRunSignal, NotExtended
  <2> QED
    BY <2>2, <2>3, <2>4, <2>5, <2>6, ZenonT(30) DEF OtherStep
<1>5. OwnLeases'
  BY <1>1, Zenon DEF EndInv, TimeInv, OwnLeases
<1>6. \A c \in Call : CallTime(c)'
  BY <1>1, RestingCall, Zenon DEF EndInv, TimeInv
<1> QED
  BY <1>1, <1>4, <1>5, <1>6, SameCirculation, QuietStep, Zenon

(* Every step keeps leases within the bounds of the revocations. *)
LEMMA NextEnds == EndInv /\ [Next]_vars => EndInv'
<1> SUFFICES ASSUME EndInv, [Next]_vars PROVE TimeInv' /\ RevocationEndsLease'
  BY NextWInv, Zenon DEF EndInv
<1>1. CASE UNCHANGED vars
  <2>1. UNCHANGED <<now, row, revoked>> /\ UNCHANGED <<held, call>>
    BY <1>1, Zenon DEF vars
  <2>2. OwnLeases' /\ \A r \in Run : NotExtended(r)
    BY <2>1, Zenon DEF NotExtended, EndInv, TimeInv, OwnLeases
  <2>3. \A c \in Call : CallTime(c)'
    BY <2>1, RestingCall, Zenon DEF EndInv, TimeInv
  <2> QED
    BY <2>1, <2>2, <2>3, SameCirculation, QuietStep, Zenon
<1>2. ASSUME NEW r \in Run, NEW key \in SignalKey, AppendRunSignal(r, key)
      PROVE  TimeInv' /\ RevocationEndsLease'
  <2>1. now \in Reading
    BY TimeAssumption DEF Reading, EndInv, WInv, TypeOK
  <2> QED
    BY <1>2, <2>1, OthersEnd, Zenon DEF OtherStep
<1> QED
  BY <1>1, <1>2, OthersEnd, EnvironmentEnds, BeginEnds, EndEnds, ClaimEnds, HeartbeatEnds,
     OperateEnds, Zenon DEF Next, OtherStep, EnvironmentStep, BeginStep, EndStep

(* A revocation of the run, its tenant or its worker ends the lease within *)
(* one lease duration and the clock error, for any skew and any number of  *)
(* runs, workers and calls that passed their check before it.              *)
THEOREM RevokedLeasesEnd == Spec => []RevocationEndsLease
<1>1. Init => EndInv
  <2> SUFFICES ASSUME Init PROVE TimeInv /\ RevocationEndsLease
    BY InitWInv, Zenon DEF EndInv
  <2> QED
    BY Zenon DEF Init, TimeInv, RevocationTimes, CallTime, LeaseTimes, OwnLeases,
       RevocationEndsLease, LeaseEndsAfter, Idle, OnRow, Circulating, InFlight
<1>2. EndInv => RevocationEndsLease
  BY Zenon DEF EndInv
<1> QED
  BY <1>1, <1>2, NextEnds, PTL DEF Spec

=============================================================================
