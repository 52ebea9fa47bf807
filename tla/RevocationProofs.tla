-------------------------- MODULE RevocationProofs --------------------------
(***************************************************************************)
(* Proofs that the distribution of revocations skips nothing, for every    *)
(* number of changes, retention, batch size, longest delta and number of   *)
(* faults.  First the reads of the log: what ORDER BY ... LIMIT returns,   *)
(* and when a cursor that is not gone has lost no entry; then what every   *)
(* step keeps of the log, the tracker, the stream and the reconciliation.  *)
(***************************************************************************)
EXTENDS RevocationDistribution, FiniteSetTheorems, TLAPS

(* The singleton row of security_epochs orders the changes: they commit in *)
(* the order of their sequence numbers and of their security epochs.       *)
LogInv ==
    /\ IsFiniteSet(log)
    /\ clock \in Nat /\ sequence \in Nat
    /\ \A e \in log \cup pending :
          /\ e.seq \in Nat /\ 0 < e.seq /\ e.seq <= sequence
          /\ e.at \in Nat /\ e.at <= clock
          /\ e.epochs.security \in Nat
          /\ e # GapEvent
          /\ e.change = "LIFTED" => \E c \in Created : c.rev = e.rev /\ c.seq < e.seq
    /\ \A e, f \in log :
          /\ e.seq = f.seq => e = f
          /\ e.seq < f.seq => e.epochs.security < f.epochs.security
    /\ \A e \in log : e.epochs.security <= Cardinality(log)
    /\ \A p \in pending :
          /\ \A e \in log : e.seq < p.seq
          /\ p.epochs.security = Cardinality(log) + 1
          /\ \A q \in pending : q = p

(* No entry that is still to be committed has a number of at most n.       *)
Behind(n) == n \in Nat /\ (n = 0 \/ \E e \in log : n <= e.seq)

(* A state with security epoch s and sequence n: every entry of the tenant *)
(* beyond n has a later epoch.                                             *)
Counted(s, n) ==
    /\ s \in Nat /\ s <= Cardinality(log)
    /\ \A e \in Visible(log, Home) : n < e.seq => s < e.epochs.security

IsTracker(t) ==
    t = [seq |-> t.seq, epochs |-> t.epochs, observed |-> t.observed, head |-> t.head,
         gap |-> t.gap, has |-> t.has]

(* The tracker, while it has a state, is at the persisted cursor.          *)
TrackerInv ==
    /\ Behind(cursor.seq)
    /\ IsTracker(tracker)
    /\ tracker.has \in BOOLEAN
    /\ tracker.has => tracker.seq = cursor.seq /\ Counted(tracker.epochs.security, tracker.seq)
    /\ ~tracker.has => tracker.seq = 0 /\ tracker.epochs.security = 0

(* e is the first entry of the tenant after n.                             *)
FirstAfter(n, e) ==
    /\ n < e.seq
    /\ TimestampsOrdered => \A f \in Visible(log, Home) : n < f.seq => e.seq <= f.seq

(* A tracker without a state accepts whatever comes first, so that must be *)
(* the entry after the persisted cursor.  A gap event is the last.         *)
StreamInv ==
    /\ session = [phase |-> session.phase, cursor |-> session.cursor,
                   retained |-> session.retained, batch |-> session.batch]
    /\ session.batch \in Seq(log)
    /\ session.phase = "WRITTEN" => session.batch # <<>>
    /\ wire \in Seq(log \cup {GapEvent})
    /\ \A i \in 1 .. Len(wire) : wire[i] = GapEvent => i = Len(wire) /\ ~StreamOpen
    /\ ~tracker.has /\ wire # <<>> /\ Head(wire) # GapEvent => FirstAfter(cursor.seq, Head(wire))
    /\ ~tracker.has /\ wire = <<>> /\ StreamOpen =>
          /\ session.phase # "WRITTEN"
          /\ session.cursor = cursor.seq
          /\ session.batch # <<>> => FirstAfter(cursor.seq, Head(session.batch))

(* A boundary that was passed stays passed until the page is read: what    *)
(* commits in between is not older than the retention of the check.        *)
BoundaryInv ==
    session.phase = "CHECKED" =>
        /\ session.retained \in Int
        /\ session.retained <= clock - Retention
        /\ ~CursorGone(Home, session.cursor, session.retained)

(* A revocation that a state at sequence n must enforce.                   *)
Binds(e, n) == e.seq <= n /\ e.from = e.at /\ InForce(e)

(* A reconciliation covers its head: with the view for a delta, by itself  *)
(* for a snapshot.                                                         *)
ReconInv ==
    /\ recon.phase \in {"IDLE", "HEAD", "REPLY"}
    /\ recon.phase # "IDLE" => Behind(recon.seq) /\ Counted(recon.epochs.security, recon.seq)
    /\ recon.phase = "HEAD" =>
          /\ recon.now \in Nat
          /\ recon.after.seq \in Nat /\ recon.after.seq <= cursor.seq
          /\ \A e \in log : e.seq <= recon.seq => e.at <= recon.now
    /\ recon.phase = "REPLY" =>
          \/ /\ recon.mode = "snapshot"
             /\ \A e \in Visible(Created, Home) : Binds(e, recon.seq) => e.rev \in recon.active
          \/ /\ recon.mode # "snapshot"
             /\ Range(recon.changes) \subseteq log
             /\ TimestampsOrdered =>
                   \A e \in Visible(Created, Home) :
                      Binds(e, recon.seq) => e.rev \in view \/ e \in Range(recon.changes)

RInv == LogInv /\ TrackerInv /\ StreamInv /\ BoundaryInv /\ ReconInv /\ NothingSkipped

-----------------------------------------------------------------------------
(* Reading the log *)

(* What an entry looks like to ORDER BY sequence: numbered, and no number  *)
(* twice.                                                                  *)
Numbered(S) ==
    /\ IsFiniteSet(S)
    /\ \A e \in S : e.seq \in Nat
    /\ \A e, f \in S : e.seq = f.seq => e = f

Lower(S, e) == {f \in S : f.seq < e.seq}

(* The rank of an entry is a number below the size of the set.             *)
LEMMA RankBound ==
    ASSUME NEW S, Numbered(S), NEW e \in S
    PROVE  /\ IsFiniteSet(Lower(S, e)) /\ Cardinality(Lower(S, e)) \in Nat
           /\ Cardinality(S) \in Nat /\ Cardinality(Lower(S, e)) < Cardinality(S)
<1>1. IsFiniteSet(S) /\ e.seq \in Nat
  BY Zenon DEF Numbered
<1>2. Lower(S, e) \in SUBSET S
  BY Zenon DEF Lower
<1>3. ~(e.seq < e.seq)
  BY <1>1
<1>4. Lower(S, e) # S
  BY <1>3, Zenon DEF Lower
<1>5. /\ IsFiniteSet(Lower(S, e)) /\ Cardinality(Lower(S, e)) <= Cardinality(S)
      /\ Cardinality(S) = Cardinality(Lower(S, e)) => S = Lower(S, e)
  BY <1>1, <1>2, FS_Subset, Zenon
<1>6. Cardinality(Lower(S, e)) \in Nat /\ Cardinality(S) \in Nat
  BY <1>1, <1>5, FS_CardinalityType, Zenon
<1> QED
  BY <1>4, <1>5, <1>6

(* Two entries of one rank are the same.                                   *)
LEMMA RankUnique ==
    ASSUME NEW S, Numbered(S), NEW e \in S, NEW f \in S,
           Cardinality(Lower(S, e)) = Cardinality(Lower(S, f))
    PROVE  e = f
<1>1. ASSUME NEW a \in S, NEW b \in S, a.seq < b.seq
      PROVE  Cardinality(Lower(S, a)) # Cardinality(Lower(S, b))
  <2>1. a.seq \in Nat /\ b.seq \in Nat /\ \A x \in S : x.seq \in Nat
    BY Zenon DEF Numbered
  <2>2. a \in Lower(S, b) /\ a \notin Lower(S, a)
    BY <1>1, <2>1 DEF Lower
  <2>3. Lower(S, a) \in SUBSET Lower(S, b)
    BY <1>1, <2>1 DEF Lower
  <2>4. Lower(S, a) # Lower(S, b)
    BY <2>2, Zenon
  <2>5. IsFiniteSet(Lower(S, b))
    BY RankBound, Zenon
  <2> QED
    BY <2>3, <2>4, <2>5, FS_Subset, Zenon
<1>2. e.seq \in Nat /\ f.seq \in Nat
  BY Zenon DEF Numbered
<1>3. e.seq = f.seq
  <2>1. ~(e.seq < f.seq)
    BY <1>1, Zenon
  <2>2. ~(f.seq < e.seq)
    BY <1>1, Zenon
  <2> QED
    BY <1>2, <2>1, <2>2
<1> QED
  BY <1>3, Zenon DEF Numbered

(* There is an entry of every rank.                                        *)
LEMMA RankExists ==
    ASSUME NEW S, Numbered(S), NEW k \in Nat, k < Cardinality(S)
    PROVE  \E e \in S : Cardinality(Lower(S, e)) = k
<1> DEFINE n == Cardinality(S)
           T == 0 .. (n - 1)
           rank == [e \in S |-> Cardinality(Lower(S, e))]
<1>1. IsFiniteSet(S) /\ n \in Nat
  BY FS_CardinalityType, Zenon DEF Numbered
<1>2. \A e \in S : rank[e] \in T
  BY <1>1, RankBound
<1>3. rank \in [S -> T] /\ \A e, f \in S : rank[e] = rank[f] => e = f
  BY <1>2, RankUnique, Zenon
<1>4. rank \in Injection(S, T)
  <2> HIDE DEF rank, T
  <2> QED
    BY <1>3, Zenon DEF Injection, IsInjective
<1>5. IsFiniteSet(T) /\ Cardinality(T) = n
  <2>1. PICK m \in Int : m = n - 1 /\ ~(0 > m) /\ m - 0 + 1 = n /\ 0 \in Int
    BY <1>1
  <2>2. IsFiniteSet(0 .. m) /\ Cardinality(0 .. m) = IF 0 > m THEN 0 ELSE m - 0 + 1
    BY <2>1, FS_Interval, Zenon
  <2> QED
    BY <2>1, <2>2, Zenon
<1>6. k \in T
  BY <1>1
<1> HIDE DEF rank, T
<1>7. rank \in Surjection(S, T)
  BY <1>4, <1>5, FS_Injection, Zenon DEF n
<1>8. \E e \in S : rank[e] = k
  BY <1>6, <1>7, Zenon DEF Surjection
<1> QED
  BY <1>8, Zenon DEF rank

(* ORDER BY sequence LIMIT n returns members of the set, the lowest first, *)
(* and all of them when there are no more than n.                          *)
LEMMA FirstInOrderFacts ==
    ASSUME NEW S, Numbered(S), NEW n \in Nat
    PROVE  /\ FirstInOrder(S, n) \in Seq(S)
           /\ Len(FirstInOrder(S, n)) = (IF n < Cardinality(S) THEN n ELSE Cardinality(S))
           /\ Cardinality(S) <= n => S \subseteq Range(FirstInOrder(S, n))
           /\ FirstInOrder(S, n) # <<>> => \A f \in S : Head(FirstInOrder(S, n)).seq <= f.seq
<1> DEFINE k == IF n < Cardinality(S) THEN n ELSE Cardinality(S)
           s == FirstInOrder(S, n)
           pick(i) == CHOOSE e \in S : Cardinality(Lower(S, e)) = i - 1
<1>1. IsFiniteSet(S) /\ Cardinality(S) \in Nat /\ k \in Nat
  <2>1. IsFiniteSet(S) /\ Cardinality(S) \in Nat
    BY FS_CardinalityType, Zenon DEF Numbered
  <2> QED
    BY <2>1, Zenon
<1>2. s = [i \in 1 .. k |-> pick(i)]
  BY Zenon DEF FirstInOrder, Lower
<1>3. ASSUME NEW i \in 1 .. k PROVE pick(i) \in S /\ Cardinality(Lower(S, pick(i))) = i - 1
  <2>1. i - 1 \in Nat /\ i - 1 < Cardinality(S)
    BY <1>1
  <2>2. \E e \in S : Cardinality(Lower(S, e)) = i - 1
    BY <2>1, RankExists, Zenon
  <2> QED
    BY <2>2, Zenon
<1> HIDE DEF s, pick, k
<1>4. s \in Seq(S) /\ Len(s) = k /\ DOMAIN s = 1 .. k
  BY <1>1, <1>2, <1>3
<1>5. ASSUME Cardinality(S) <= n, NEW e \in S PROVE e \in Range(s)
  <2> DEFINE i == Cardinality(Lower(S, e)) + 1
  <2>1. i \in 1 .. k /\ i - 1 = Cardinality(Lower(S, e))
    BY <1>1, <1>5, RankBound DEF k
  <2> HIDE DEF i
  <2>2. pick(i) \in S /\ Cardinality(Lower(S, pick(i))) = Cardinality(Lower(S, e))
    BY <1>3, <2>1, Zenon
  <2>3. pick(i) = e
    BY <2>2, RankUnique, Zenon
  <2>4. s[i] = e
    BY <1>2, <2>1, <2>3, Zenon
  <2> QED
    BY <1>4, <2>1, <2>4, Zenon DEF Range
<1>6. ASSUME s # <<>>, NEW f \in S PROVE Head(s).seq <= f.seq
  <2>1. 1 \in 1 .. k
    BY <1>1, <1>4, <1>6
  <2>2. s[1] = pick(1) /\ pick(1) \in S /\ Cardinality(Lower(S, pick(1))) = 0
    <3>1. Cardinality(Lower(S, pick(1))) = 1 - 1 /\ pick(1) \in S
      BY <1>3, <2>1, Zenon
    <3>2. s[1] = pick(1)
      BY <1>2, <2>1, Zenon
    <3> QED
      BY <3>1, <3>2
  <2>3. Lower(S, pick(1)) = {}
    <3>1. IsFiniteSet(Lower(S, pick(1)))
      BY <2>2, RankBound, Zenon
    <3> QED
      BY <2>2, <3>1, FS_EmptySet, Zenon
  <2>4. ~(f.seq < pick(1).seq) /\ f.seq \in Nat /\ pick(1).seq \in Nat
    BY <2>2, <2>3, Zenon DEF Lower, Numbered
  <2>5. Head(s) = pick(1)
    BY <1>4, <1>6, <2>2
  <2> QED
    BY <2>4, <2>5
<1> QED
  BY <1>4, <1>5, <1>6, Zenon DEF s, k

(* The changes a cursor selects can be ordered.                            *)
LEMMA LogNumbered ==
    ASSUME LogInv, NEW S \in SUBSET log
    PROVE  Numbered(S)
<1>1. IsFiniteSet(S)
  BY FS_Subset, Zenon DEF LogInv
<1> QED
  BY <1>1, Zenon DEF LogInv, Numbered

(* A cursor that is not gone: retention has dropped no entry after it.     *)
LEMMA NothingGone ==
    ASSUME LogInv, TimestampsOrdered, NEW a \in Nat, NEW r \in Int, ~CursorGone(Home, a, r),
           NEW e \in Visible(log, Home), a < e.seq
    PROVE  e.at >= r
<1> DEFINE mine == Visible(log, Home)
           kept == {f \in mine : f.at >= r}
<1>1. kept = mine \/ \E f \in kept : ~(a < f.seq - 1)
  BY Zenon DEF CursorGone
<1>2. mine \subseteq log
  BY Zenon DEF Visible
<1>3. CASE kept = mine
  BY <1>3, Zenon
<1>4. ASSUME NEW f \in kept, ~(a < f.seq - 1) PROVE e.at >= r
  <2>1. e \in log /\ f \in log /\ f.at >= r
    BY <1>2, <1>4, Zenon
  <2>2. e.seq \in Nat /\ f.seq \in Nat /\ e.at \in Nat /\ f.at \in Nat
    BY <2>1, Zenon DEF LogInv
  <2>3. f.seq <= e.seq
    BY <1>4, <2>2
  <2>4. CASE f.seq = e.seq
    <3>1. f = e
      BY <2>1, <2>4, Zenon DEF LogInv
    <3> QED
      BY <2>1, <3>1, Zenon
  <2>5. CASE f.seq < e.seq
    <3>1. f.at <= e.at
      BY <2>1, <2>5, Zenon DEF TimestampsOrdered
    <3> QED
      BY <2>1, <2>2, <3>1
  <2> QED
    BY <2>2, <2>3, <2>4, <2>5
<1> QED
  BY <1>1, <1>3, <1>4, Zenon

(* The head of the log of the tenant: no entry of it is beyond.            *)
LEMMA LastSequenceFacts ==
    ASSUME LogInv
    PROVE  /\ Behind(LastSequence(Home))
           /\ \A e \in Visible(log, Home) : e.seq <= LastSequence(Home)
<1> DEFINE mine == {e.seq : e \in Visible(log, Home)}
           top(n) == \A m \in mine : m <= n
           below == {sequence - n : n \in mine \cup {0}}
<1>1. \A n \in mine : n \in Nat /\ n <= sequence /\ \E e \in log : n = e.seq
  BY Zenon DEF Visible, LogInv
<1>2. sequence \in Nat
  BY Zenon DEF LogInv
<1>3. \A n \in mine \cup {0} : n \in Nat /\ sequence - n \in Nat
  BY <1>1, <1>2
<1>4. PICK n \in mine \cup {0} : \A m \in mine \cup {0} : ~(sequence - m < sequence - n)
  <2>1. below \in SUBSET Nat /\ below # {}
    BY <1>3, Zenon
  <2>2. \E x \in below : \A y \in below : ~(<<y, x>> \in OpToRel(<, Nat))
    <3> HIDE DEF below
    <3> QED
      BY <2>1, NatLessThanWellFounded, WFMin, Zenon
  <2>3. PICK x \in below : \A y \in below : ~(y < x)
    BY <2>1, <2>2, Zenon DEF OpToRel
  <2> QED
    BY <2>3, Zenon
<1>5. top(n)
  BY <1>2, <1>3, <1>4
<1>6. LastSequence(Home) \in mine \cup {0} /\ top(LastSequence(Home))
  BY <1>5, Zenon DEF LastSequence
<1>7. Behind(LastSequence(Home))
  <2>1. CASE LastSequence(Home) = 0
    BY <2>1 DEF Behind
  <2>2. CASE LastSequence(Home) \in mine
    <3>1. PICK e \in log : LastSequence(Home) = e.seq
      BY <1>1, <2>2, Zenon
    <3>2. e.seq \in Nat /\ e.seq <= e.seq
      BY <1>1, <2>2, <3>1
    <3> QED
      BY <3>1, <3>2, Zenon DEF Behind
  <2> QED
    BY <1>6, <2>1, <2>2, Zenon
<1> QED
  BY <1>6, <1>7, Zenon

-----------------------------------------------------------------------------
(* What a step does to the log *)

(* The log only grows, at its end, and its counts with it.                 *)
LogStep ==
    /\ LogInv /\ LogInv'
    /\ log \subseteq log'
    /\ Cardinality(log) <= Cardinality(log')
    /\ \A e \in log' \ log :
          /\ \A f \in log : f.seq < e.seq
          /\ Cardinality(log) < e.epochs.security
          /\ e.at >= clock - Retention
    /\ clock <= clock'

(* An open transaction takes the next number and the next security epoch.  *)
LEMMA AppendKeepsLog ==
    ASSUME LogInv, NEW rev, NEW tenant, NEW scope, NEW change, NEW at \in 0 .. clock, NEW from,
           Append1(rev, tenant, scope, change, at, from),
           change # "LIFTED" \/ \E c \in Created : c.rev = rev
    PROVE  LogInv'
<1> DEFINE p == [seq |-> sequence + 1, rev |-> rev, tenant |-> tenant, scope |-> scope,
                 change |-> change, at |-> at, from |-> from,
                 epochs |-> incrementRevocationEpochs(tenant, scope)]
<1>1. /\ pending = {} /\ pending' = pending \cup {p} /\ sequence' = sequence + 1
      /\ clock' = clock /\ log' = log
  BY Zenon DEF Append1, EpochRowFree
<1>2. IsFiniteSet(log) /\ clock \in Nat /\ sequence \in Nat /\ Cardinality(log) \in Nat
  BY FS_CardinalityType, Zenon DEF LogInv
<1>3. incrementRevocationEpochs(tenant, scope).security = Cardinality(log) + 1
  BY Zenon DEF incrementRevocationEpochs, Epochs
<1>4. /\ p.seq = sequence + 1 /\ p.at = at /\ p.epochs.security = Cardinality(log) + 1
      /\ p # GapEvent
  BY <1>3, Zenon DEF GapEvent
<1>8. p.change = change /\ p.rev = rev
  BY Zenon
<1> HIDE DEF p
<1>5. \A e \in log : e.seq \in Nat /\ e.seq <= sequence
  BY Zenon DEF LogInv
<1>6. /\ p.seq \in Nat /\ 0 < p.seq /\ p.seq <= sequence' /\ p.at \in Nat /\ p.at <= clock'
      /\ p.epochs.security \in Nat
      /\ sequence' \in Nat
      /\ \A e \in log : e.seq < p.seq /\ e.seq <= sequence'
  BY <1>1, <1>2, <1>4, <1>5
<1>7. pending' = {p}
  BY <1>1, Zenon
<1> QED
  <2>1. ASSUME p.change = "LIFTED"
        PROVE  \E c \in Created : c.rev = p.rev /\ c.seq < p.seq
    <3>1. PICK c \in Created : c.rev = rev
      BY <1>8, <2>1, Zenon
    <3>2. c \in log
      BY Zenon DEF Created
    <3> QED
      BY <1>6, <1>8, <3>1, <3>2, Zenon
  <2>2. Created' = Created
    BY <1>1, Zenon DEF Created
  <2> QED
    BY <1>1, <1>4, <1>6, <1>7, <2>1, <2>2, Zenon DEF LogInv

(* A commit appends the one open transaction, which the row of             *)
(* security_epochs has kept the last.                                      *)
LEMMA CommitKeepsLog ==
    ASSUME LogInv, CommitChange
    PROVE  LogStep
<1>1. PICK p \in pending : log' = log \cup {p} /\ pending' = pending \ {p}
                           /\ clock' = clock /\ sequence' = sequence
                           /\ clock - p.at <= MaxLag
  BY Zenon DEF CommitChange
<1>2. /\ \A e \in log : e.seq < p.seq
      /\ p.epochs.security = Cardinality(log) + 1
      /\ \A q \in pending : q = p
      /\ IsFiniteSet(log)
  BY <1>1, Zenon DEF LogInv
<1>3. p \notin log /\ p.seq \in Nat
  <2>1. p.seq \in Nat
    BY Zenon DEF LogInv
  <2>2. ~(p.seq < p.seq)
    BY <2>1
  <2> QED
    BY <1>2, <2>1, <2>2, Zenon
<1>4. IsFiniteSet(log') /\ Cardinality(log') = Cardinality(log) + 1 /\ Cardinality(log) \in Nat
  BY <1>1, <1>2, <1>3, FS_AddElement, FS_CardinalityType, Zenon
<1>5. pending' = {}
  BY <1>1, <1>2, Zenon
<1>6. /\ Cardinality(log) <= Cardinality(log') /\ Cardinality(log) < p.epochs.security
      /\ p.epochs.security <= Cardinality(log') /\ ~(p.seq < p.seq)
  BY <1>2, <1>3, <1>4
<1>7. /\ \A e \in log : e.seq \in Nat /\ e.epochs.security \in Nat
      /\ \A e \in log : e.epochs.security <= Cardinality(log)
  BY Zenon DEF LogInv
<1>8. \A e \in log : /\ e.epochs.security <= Cardinality(log')
                     /\ e.epochs.security < p.epochs.security
                     /\ ~(e.seq = p.seq) /\ ~(p.seq < e.seq)
  BY <1>2, <1>3, <1>4, <1>7
<1>9. \A e, f \in log' :
         /\ e.seq = f.seq => e = f
         /\ e.seq < f.seq => e.epochs.security < f.epochs.security
  <2> SUFFICES ASSUME NEW e \in log', NEW f \in log'
               PROVE  /\ e.seq = f.seq => e = f
                      /\ e.seq < f.seq => e.epochs.security < f.epochs.security
    BY Zenon
  <2>1. CASE e \in log /\ f \in log
    BY <2>1, Zenon DEF LogInv
  <2>2. CASE e = p /\ f = p
    BY <1>6, <2>2, Zenon
  <2>3. CASE e \in log /\ f = p
    BY <1>8, <2>3, Zenon
  <2>4. CASE e = p /\ f \in log
    BY <1>8, <2>4, Zenon
  <2> QED
    BY <1>1, <2>1, <2>2, <2>3, <2>4, Zenon
<1>10. \A e \in log' : e.epochs.security <= Cardinality(log')
  BY <1>1, <1>6, <1>8, Zenon
<1>11. \A e \in log' \cup pending' : e \in log \cup pending
  BY <1>1, Zenon
<1>12. LogInv'
  <2>1. Created \subseteq Created'
    BY <1>1, Zenon DEF Created
  <2> QED
    BY <1>1, <1>4, <1>5, <1>9, <1>10, <1>11, <2>1, Zenon DEF LogInv
<1>14. p.at >= clock - Retention /\ clock <= clock'
  <2>1. p.at \in Nat /\ clock \in Nat
    BY Zenon DEF LogInv
  <2> QED
    BY <1>1, <2>1, RetentionAssumption
<1>13. log' \ log = {p} /\ log \subseteq log'
  BY <1>1, <1>3, Zenon
<1> QED
  BY <1>2, <1>6, <1>12, <1>13, <1>14, Zenon DEF LogStep

(* Every step leaves the log as it is or appends to it.                    *)
LEMMA NextLog == LogInv /\ [Next]_vars => LogStep
<1> SUFFICES ASSUME LogInv, [Next]_vars PROVE LogStep
  BY Zenon
<1>1. Cardinality(log) \in Nat /\ Cardinality(log) <= Cardinality(log)
  <2>1. Cardinality(log) \in Nat
    BY FS_CardinalityType, Zenon DEF LogInv
  <2> QED
    BY <2>1
<1>2. ASSUME LogInv', log' = log, clock' = clock \/ clock' = clock + 1 PROVE LogStep
  <2>1. clock <= clock'
    <3>1. clock \in Nat
      BY Zenon DEF LogInv
    <3> QED
      BY <1>2, <3>1
  <2> QED
    BY <1>1, <1>2, <2>1, Zenon DEF LogStep
<1>3. CASE CreateRevocation
  <2>1. PICK t \in Target, at \in 0 .. clock, d \in Delay :
           Append1(sequence + 1, t.tenant, t.scope, "CREATED", at, at + d)
    BY <1>3, Zenon DEF CreateRevocation
  <2>2. PICK rev, tenant, scope, change, from :
           /\ rev = sequence + 1 /\ tenant = t.tenant /\ scope = t.scope
           /\ change = "CREATED" /\ from = at + d
    BY Zenon
  <2>3. LogInv' /\ log' = log /\ clock' = clock
    <3>1. change # "LIFTED"
      BY <2>2
    <3>2. Append1(rev, tenant, scope, change, at, from)
      BY <2>1, <2>2, Zenon
    <3>3. LogInv'
      BY <3>1, <3>2, AppendKeepsLog, Zenon
    <3> QED
      BY <3>2, <3>3, Zenon DEF Append1
  <2> QED
    BY <1>2, <2>3, Zenon
<1>4. CASE LiftRevocation
  <2>1. PICK e \in Created, at \in 0 .. clock :
           Append1(e.rev, e.tenant, e.scope, "LIFTED", at, e.from)
    BY <1>4, Zenon DEF LiftRevocation
  <2>2. LogInv' /\ log' = log /\ clock' = clock
    BY <2>1, AppendKeepsLog, Zenon DEF Append1
  <2> QED
    BY <1>2, <2>2, Zenon
<1>5. CASE CommitChange
  BY <1>5, CommitKeepsLog, Zenon
<1>6. CASE RollBackChange
  <2>1. PICK p \in pending : pending' = pending \ {p} /\ clock' = clock /\ log' = log
                             /\ sequence' = sequence
    BY <1>6, Zenon DEF RollBackChange
  <2>2. pending' \subseteq pending
    BY <2>1, Zenon
  <2>3. LogInv'
    BY <2>1, <2>2, Zenon DEF LogInv, Created
  <2> QED
    BY <1>2, <2>1, <2>3, Zenon
<1>7. CASE Tick
  <2>1. clock' = clock + 1 /\ log' = log /\ pending' = pending /\ sequence' = sequence
    BY <1>7, Zenon DEF Tick, logVars
  <2>2. \A e \in log \cup pending : e.at \in Nat /\ e.at <= clock
    BY Zenon DEF LogInv
  <2>3. clock' \in Nat /\ \A e \in log \cup pending : e.at <= clock'
    <3>1. clock \in Nat
      BY Zenon DEF LogInv
    <3> QED
      BY <2>1, <2>2, <3>1
  <2>4. LogInv'
    BY <2>1, <2>3, Zenon DEF LogInv, Created
  <2> QED
    BY <1>2, <2>1, <2>4, Zenon
<1>8. CASE UNCHANGED <<clock, logVars>>
  <2>1. LogInv' /\ log' = log /\ clock' = clock
    BY <1>8, Zenon DEF LogInv, Created, logVars
  <2> QED
    BY <1>2, <2>1, Zenon
<1>9. \/ CreateRevocation \/ LiftRevocation \/ CommitChange \/ RollBackChange \/ Tick
      \/ UNCHANGED <<clock, logVars>>
  BY Zenon DEF Next, Change, LogNext, Serve, Reconcile, Fault, OpenStream, ReadPage, SendEvent,
       CheckpointStream, PollStream, ReceiveEvent, BeginReconcile, ReadChanges, ApplyReconciliation, BreakStream, LoseResponse,
       RestartGateway, vars
<1> QED
  BY <1>3, <1>4, <1>5, <1>6, <1>7, <1>8, <1>9, Zenon

(* What was said of the log stays true of it.                              *)
LEMMA LogStable ==
    ASSUME LogStep
    PROVE  /\ TimestampsOrdered' => TimestampsOrdered
           /\ \A n : Behind(n) => Behind(n)'
           /\ \A n : Behind(n) => \A e \in log' \ log : n < e.seq
           /\ \A s, n : Counted(s, n) => Counted(s, n)'
           /\ \A n, e : e \in log /\ FirstAfter(n, e) => FirstAfter(n, e)'
<1>1. /\ LogInv /\ LogInv' /\ log \subseteq log' /\ Cardinality(log) <= Cardinality(log')
      /\ \A e \in log' \ log : \A f \in log : f.seq < e.seq
      /\ \A e \in log' \ log : Cardinality(log) < e.epochs.security
  BY Zenon DEF LogStep
<1>2. \A e \in log' : e.seq \in Nat /\ 0 < e.seq /\ e.epochs.security \in Nat
  BY <1>1, Zenon DEF LogInv
<1>3. Cardinality(log) \in Nat /\ Cardinality(log') \in Nat
  BY <1>1, FS_CardinalityType, Zenon DEF LogInv
<1>4. TimestampsOrdered' => TimestampsOrdered
  BY <1>1, Zenon DEF TimestampsOrdered
<1>5. \A n : Behind(n) => Behind(n)'
  BY <1>1, Zenon DEF Behind
<1>6. \A n : Behind(n) => \A e \in log' \ log : n < e.seq
  <2> SUFFICES ASSUME NEW n, Behind(n), NEW e \in log' \ log PROVE n < e.seq
    BY Zenon
  <2>1. CASE n = 0
    BY <1>2, <2>1, Zenon
  <2>2. CASE \E f \in log : n <= f.seq
    <3>1. PICK f \in log : n <= f.seq
      BY <2>2, Zenon
    <3>2. f.seq < e.seq /\ f.seq \in Nat /\ e.seq \in Nat /\ n \in Nat
      BY <1>1, <1>2, Zenon DEF Behind
    <3> QED
      BY <3>1, <3>2
  <2> QED
    BY <2>1, <2>2, Zenon DEF Behind
<1>7. \A s, n : Counted(s, n) => Counted(s, n)'
  <2> SUFFICES ASSUME NEW s, NEW n, Counted(s, n) PROVE Counted(s, n)'
    BY Zenon
  <2>1. s \in Nat /\ s <= Cardinality(log)
    BY Zenon DEF Counted
  <2>2. s <= Cardinality(log') /\ \A e \in log' \ log : s < e.epochs.security
    BY <1>1, <1>2, <1>3, <2>1
  <2>3. \A e \in Visible(log, Home)' : n < e.seq => s < e.epochs.security
    BY <2>2, Zenon DEF Counted, Visible
  <2> QED
    BY <2>1, <2>2, <2>3, Zenon DEF Counted
<1>8. ASSUME NEW n, NEW e, e \in log, FirstAfter(n, e) PROVE FirstAfter(n, e)'
  <2>1. \A f \in log' \ log : e.seq <= f.seq
    <3>1. \A f \in log' \ log : e.seq < f.seq /\ f.seq \in Nat /\ e.seq \in Nat
      BY <1>1, <1>2, <1>8, Zenon
    <3> QED
      BY <3>1
  <2> QED
    BY <1>4, <1>8, <2>1, Zenon DEF FirstAfter, Visible
<1> QED
  BY <1>4, <1>5, <1>6, <1>7, <1>8, Zenon

(* A commit binds no state that is behind the log to anything new.         *)
LEMMA BindsStable ==
    ASSUME LogStep
    PROVE  \A n : Behind(n) => \A e \in Visible(Created, Home)' :
              Binds(e, n)' => e \in Visible(Created, Home) /\ Binds(e, n)
<1> SUFFICES ASSUME NEW n, Behind(n), NEW e, e \in Visible(Created, Home)', Binds(e, n)'
             PROVE  e \in Visible(Created, Home) /\ Binds(e, n)
  BY Zenon
<1>1. e \in log' /\ e.change = "CREATED" /\ e.tenant \in {Home, Nobody} /\ e.seq <= n
      /\ e.from = e.at /\ e.rev \notin Lifted'
  BY Zenon DEF Visible, Created, Binds, InForce
<1>2. e \in log
  <2>1. ASSUME e \notin log PROVE FALSE
    <3>1. n < e.seq /\ n \in Nat /\ e.seq \in Nat
      BY <1>1, <2>1, LogStable, Zenon DEF Behind, LogStep, LogInv
    <3> QED
      BY <1>1, <3>1
  <2> QED
    BY <2>1, Zenon
<1>3. Lifted \subseteq Lifted'
  BY Zenon DEF Lifted, Created, LogStep
<1> QED
  BY <1>1, <1>2, <1>3, Zenon DEF Visible, Created, Binds, InForce

(* A cursor and a view that stay where they are skip nothing.              *)
LEMMA SkipStable ==
    ASSUME LogStep, NothingSkipped, Behind(cursor.seq), cursor' = cursor, view \subseteq view'
    PROVE  NothingSkipped'
<1> SUFFICES ASSUME TimestampsOrdered', NEW e \in Visible(Created, Home)', e.seq <= cursor'.seq,
                    e.from = e.at, InForce(e)'
             PROVE  e.rev \in view'
  BY Zenon DEF NothingSkipped
<1>1. PICK n : n = cursor.seq
  BY Zenon
<1>2. Binds(e, n)' /\ Behind(n)
  BY <1>1, Zenon DEF Binds
<1>3. e \in Visible(Created, Home) /\ Binds(e, n)
  BY <1>2, BindsStable, Zenon
<1>4. TimestampsOrdered
  BY LogStable, Zenon
<1> QED
  BY <1>1, <1>3, <1>4, Zenon DEF NothingSkipped, Binds

-----------------------------------------------------------------------------
(* Steps that leave a part alone *)

(* Sequences of a larger set.                                              *)
LEMMA SeqGrows ==
    ASSUME NEW S, NEW T, S \subseteq T
    PROVE  Seq(S) \subseteq Seq(T) /\ Seq(S \cup {GapEvent}) \subseteq Seq(T \cup {GapEvent})
OBVIOUS

(* What occurs in a sequence.                                              *)
LEMMA SeqRange == ASSUME NEW S, NEW s \in Seq(S) PROVE Range(s) \subseteq S
BY DEF Range

(* The first element of a sequence, and what is left.                      *)
LEMMA SeqHead ==
    ASSUME NEW S, NEW s \in Seq(S), s # <<>>
    PROVE  /\ Head(s) \in S /\ Tail(s) \in Seq(S) /\ Head(s) = s[1]
           /\ Len(s) \in Nat /\ 0 < Len(s) /\ Len(Tail(s)) = Len(s) - 1
           /\ \A i \in 1 .. Len(Tail(s)) : i + 1 \in 1 .. Len(s) /\ Tail(s)[i] = s[i + 1]
OBVIOUS

(* A tracker that keeps its state, and a cursor that does not move, keep   *)
(* their invariant.                                                        *)
LEMMA KeptTracker ==
    ASSUME LogStep, TrackerInv, cursor' = cursor,
           IsTracker(tracker'),
           tracker'.has = tracker.has, tracker'.seq = tracker.seq,
           tracker'.epochs = tracker.epochs
    PROVE  TrackerInv'
<1>1. PICK n, s, k : n = cursor.seq /\ s = tracker.epochs.security /\ k = tracker.seq
  BY Zenon
<1>2. Behind(n) /\ (tracker.has => Counted(s, k))
  BY <1>1, Zenon DEF TrackerInv
<1>3. Behind(n)' /\ (tracker.has => Counted(s, k)')
  BY <1>2, LogStable, Zenon
<1>4. n = cursor'.seq /\ s = tracker'.epochs.security /\ k = tracker'.seq
  BY <1>1, Zenon
<1>5. Behind(cursor.seq)' /\ (tracker.has => Counted(tracker.epochs.security, tracker.seq)')
  BY <1>3, <1>4, Zenon DEF Behind, Counted
<1> QED
  BY <1>5, Zenon DEF TrackerInv

(* A tracker and a cursor that do not change keep theirs.                  *)
LEMMA QuietTracker ==
    ASSUME LogStep, TrackerInv, tracker' = tracker, cursor' = cursor
    PROVE  TrackerInv' /\ tracker'.has = tracker.has
<1>1. IsTracker(tracker')
  BY Zenon DEF TrackerInv
<1> QED
  BY <1>1, KeptTracker, Zenon

(* The same for the stream.                                                *)
LEMMA QuietStream ==
    ASSUME LogStep, StreamInv, session' = session, wire' = wire, cursor' = cursor,
           tracker'.has = tracker.has
    PROVE  StreamInv'
<1>1. log \subseteq log'
  BY Zenon DEF LogStep
<1>2. session'.batch \in Seq(log') /\ wire' \in Seq(log' \cup {GapEvent})
  BY <1>1, SeqGrows, Zenon DEF StreamInv
<1>3. ASSUME NEW n, NEW e, e \in log, FirstAfter(n, e) PROVE FirstAfter(n, e)'
  BY <1>3, LogStable, Zenon
<1>4. ASSUME ~tracker.has, wire # <<>>, Head(wire) # GapEvent
      PROVE  FirstAfter(cursor.seq, Head(wire))'
  <2>1. PICK n, e : n = cursor.seq /\ e = Head(wire)
    BY Zenon
  <2>2. e \in log /\ FirstAfter(n, e)
    <3>1. Head(wire) \in log \cup {GapEvent}
      BY <1>4, SeqHead, Zenon DEF StreamInv
    <3> QED
      BY <1>4, <2>1, <3>1, Zenon DEF StreamInv
  <2>3. FirstAfter(n, e)' /\ n = cursor'.seq /\ e = Head(wire')
    BY <1>3, <2>1, <2>2, Zenon
  <2> QED
    BY <2>3, Zenon DEF FirstAfter
<1>5. ASSUME ~tracker.has, wire = <<>>, StreamOpen
      PROVE  /\ session'.phase # "WRITTEN"
             /\ session'.cursor = cursor'.seq
             /\ session'.batch # <<>> => FirstAfter(cursor.seq, Head(session.batch))'
  <2>1. session'.phase # "WRITTEN" /\ session'.cursor = cursor'.seq
    BY <1>5, Zenon DEF StreamInv
  <2>2. ASSUME session.batch # <<>> PROVE FirstAfter(cursor.seq, Head(session.batch))'
    <3>1. PICK n, e : n = cursor.seq /\ e = Head(session.batch)
      BY Zenon
    <3>2. e \in log
      BY <2>2, <3>1, SeqHead, Zenon DEF StreamInv
    <3>3. FirstAfter(n, e)
      BY <1>5, <2>2, <3>1, Zenon DEF StreamInv
    <3>4. FirstAfter(n, e)' /\ n = cursor'.seq /\ e = Head(session'.batch)
      BY <1>3, <3>1, <3>2, <3>3, Zenon
    <3> QED
      BY <3>4, Zenon DEF FirstAfter
  <2> QED
    BY <2>1, <2>2, Zenon
<1> QED
  BY <1>2, <1>4, <1>5, Zenon DEF StreamInv, StreamOpen

(* ... and for the boundary it has passed.                                 *)
LEMMA QuietBoundary ==
    ASSUME LogStep, BoundaryInv, session' = session
    PROVE  BoundaryInv'
<1> SUFFICES ASSUME session.phase = "CHECKED"
             PROVE  /\ session.retained <= clock' - Retention
                    /\ ~CursorGone(Home, session.cursor, session.retained)'
  BY Zenon DEF BoundaryInv
<1>1. PICK a, r : a = session.cursor /\ r = session.retained
  BY Zenon
<1>2. r \in Int /\ r <= clock - Retention /\ ~CursorGone(Home, a, r)
  BY <1>1, Zenon DEF BoundaryInv
<1>3. clock \in Nat /\ clock' \in Nat /\ clock <= clock' /\ log \subseteq log'
  BY Zenon DEF LogStep, LogInv
<1>4. ASSUME NEW e \in log' \ log PROVE e.at >= r
  <2>1. e.at \in Nat /\ e.at >= clock - Retention
    BY Zenon DEF LogStep, LogInv
  <2> QED
    BY <1>2, <1>3, <2>1, RetentionAssumption
<1>5. r <= clock' - Retention
  <2>1. \A c, d \in Nat : r <= c - Retention /\ c <= d => r <= d - Retention
    BY <1>2, RetentionAssumption
  <2> QED
    BY <1>2, <1>3, <2>1, Zenon
<1>6. ~CursorGone(Home, a, r)'
  BY <1>2, <1>3, <1>4, Zenon DEF CursorGone, Visible
<1>7. a = session'.cursor /\ r = session'.retained
  BY <1>1, Zenon
<1> QED
  BY <1>1, <1>5, <1>6, <1>7, Zenon DEF CursorGone

(* The same for the reconciliation: the cursor may move on, and the view   *)
(* keep what is in force.                                                  *)
LEMMA QuietRecon ==
    ASSUME LogStep, ReconInv, recon' = recon, TrackerInv,
           cursor'.seq \in Nat, cursor.seq <= cursor'.seq,
           TimestampsOrdered =>
              \A e \in Visible(Created, Home) : InForce(e) /\ e.rev \in view => e.rev \in view'
    PROVE  ReconInv'
<1>1. PICK n, s : n = recon.seq /\ s = recon.epochs.security
  BY Zenon
<1>2. recon.phase # "IDLE" => Behind(n) /\ Counted(s, n)
  BY <1>1, Zenon DEF ReconInv
<1>3. recon.phase # "IDLE" => Behind(n)' /\ Counted(s, n)'
  BY <1>2, LogStable, Zenon
<1>4. n = recon'.seq /\ s = recon'.epochs.security
  BY <1>1, Zenon
<1>5. recon'.phase # "IDLE" => Behind(recon.seq)' /\ Counted(recon.epochs.security, recon.seq)'
  BY <1>3, <1>4, Zenon DEF Behind, Counted
<1>6. ASSUME recon.phase = "HEAD"
      PROVE  /\ recon.after.seq <= cursor'.seq
             /\ \A e \in log' : e.seq <= recon.seq => e.at <= recon.now
  <2>1. recon.after.seq <= cursor'.seq
    <3>1. recon.after.seq \in Nat /\ recon.after.seq <= cursor.seq /\ cursor.seq \in Nat
      BY <1>6, Zenon DEF ReconInv, TrackerInv, Behind
    <3> QED
      BY <3>1
  <2>2. ASSUME NEW e \in log' \ log, e.seq <= n PROVE FALSE
    <3>1. n < e.seq /\ n \in Nat /\ e.seq \in Nat
      BY <1>2, <1>6, LogStable, Zenon DEF Behind, LogStep, LogInv
    <3> QED
      BY <2>2, <3>1
  <2> QED
    BY <1>1, <1>6, <2>1, <2>2, Zenon DEF ReconInv
<1>7. ASSUME recon.phase # "IDLE", NEW e \in Visible(Created, Home)', Binds(e, n)'
      PROVE  e \in Visible(Created, Home) /\ Binds(e, n)
  BY <1>2, <1>7, BindsStable, Zenon
<1>8. ASSUME NEW e, Binds(e, recon.seq)' PROVE Binds(e, n)'
  BY <1>4, <1>8, Zenon DEF Binds
<1>9. CASE recon.phase # "REPLY"
  BY <1>5, <1>6, <1>9, Zenon DEF ReconInv
<1>10. CASE recon.phase = "REPLY"
  <2>1. recon.phase # "IDLE" /\ recon.phase # "HEAD"
    BY <1>10, Zenon
  <2>2. CASE recon.mode = "snapshot"
    <3>1. \A e \in Visible(Created, Home) : Binds(e, n) => e.rev \in recon.active
      BY <1>1, <1>10, <2>2, Zenon DEF ReconInv
    <3>2. \A e \in Visible(Created, Home)' : Binds(e, recon.seq)' => e.rev \in recon'.active
      BY <1>7, <1>8, <2>1, <3>1, Zenon
    <3> QED
      BY <1>5, <1>10, <2>1, <2>2, <3>2, Zenon DEF ReconInv
  <2>3. CASE recon.mode # "snapshot"
    <3>1. /\ Range(recon.changes) \subseteq log
          /\ TimestampsOrdered =>
               \A e \in Visible(Created, Home) :
                  Binds(e, n) => e.rev \in view \/ e \in Range(recon.changes)
      BY <1>1, <1>10, <2>3, Zenon DEF ReconInv
    <3>2. Range(recon'.changes) \subseteq log'
      BY <3>1, Zenon DEF LogStep
    <3>3. ASSUME TimestampsOrdered', NEW e \in Visible(Created, Home)', Binds(e, recon.seq)'
          PROVE  e.rev \in view' \/ e \in Range(recon'.changes)
      <4>1. e \in Visible(Created, Home) /\ Binds(e, n) /\ TimestampsOrdered
        BY <1>7, <1>8, <2>1, <3>3, LogStable, Zenon
      <4> QED
        BY <3>1, <4>1, Zenon DEF Binds
    <3> QED
      BY <1>5, <1>10, <2>1, <2>3, <3>2, <3>3, Zenon DEF ReconInv
  <2> QED
    BY <2>2, <2>3, Zenon
<1> QED
  BY <1>9, <1>10, Zenon

-----------------------------------------------------------------------------
(* The tracker *)

(* record takes the observation.                                           *)
Accepted(q, ep, stream) == RecordOutcome(tracker, q, ep, stream) = "ACCEPTED"

(* An accepted observation becomes the state of the tracker; any other     *)
(* leaves the state it had.                                                *)
LEMMA RecordFacts ==
    ASSUME TrackerInv, NEW q \in Nat, NEW ep, ep.security \in Nat, NEW stream,
           stream = TRUE \/ stream = FALSE,
           tracker' = Recorded(tracker, q, ep, stream, 0)
    PROVE  LET ok == Accepted(q, ep, stream) IN
           /\ IsTracker(tracker')
           /\ ok => /\ tracker'.has = TRUE /\ tracker'.seq = q
                    /\ tracker'.epochs.security = ep.security
           /\ ~ok => /\ tracker'.has = tracker.has /\ tracker'.seq = tracker.seq
                     /\ tracker'.epochs = tracker.epochs
           /\ ok /\ stream /\ tracker.has => q = tracker.seq + 1
           /\ stream /\ ~tracker.has => ok
<1> DEFINE out == RecordOutcome(tracker, q, ep, stream)
           ok == Accepted(q, ep, stream)
<1> USE DEF Accepted
<1>1. /\ IsTracker(tracker)
      /\ tracker.has \in BOOLEAN /\ tracker.seq \in Nat /\ tracker.epochs.security \in Nat
      /\ ~tracker.has => tracker.seq = 0 /\ tracker.epochs.security = 0
  <2>1. 0 \in Nat
    BY Zenon
  <2> QED
    BY <2>1, Zenon DEF TrackerInv, Behind, Counted
<1>2. out \in {"REGRESSION", "DUPLICATE", "GAP", "ACCEPTED"}
  BY Zenon DEF RecordOutcome
<1>3. ok => /\ ~(q < tracker.seq) /\ ~(ep.security < tracker.epochs.security)
            /\ stream /\ tracker.has => ~(q = tracker.seq) /\ ~(q > tracker.seq + 1)
  BY Zenon DEF RecordOutcome
<1>4. stream /\ ~tracker.has => ok
  <2>1. ASSUME stream, ~tracker.has PROVE out = "ACCEPTED"
    <3>1. ~(q < tracker.seq \/ ep.security < tracker.epochs.security)
      BY <1>1, <2>1
    <3> QED
      BY <2>1, <3>1, Zenon DEF RecordOutcome
  <2> QED
    BY <2>1, Zenon
<1>5. CASE ok
  <2>1. tracker' = [seq |-> q, epochs |-> MergeEpochs(tracker.epochs, ep), observed |-> 0,
                    head |-> Larger(tracker.head, q), gap |-> stream /\ tracker.gap,
                    has |-> TRUE]
    BY <1>5, Zenon DEF Recorded
  <2>2. MergeEpochs(tracker.epochs, ep).security = Larger(tracker.epochs.security, ep.security)
    BY Zenon DEF MergeEpochs, EpochField
  <2>3. Larger(tracker.epochs.security, ep.security) = ep.security
    BY <1>1, <1>3, <1>5 DEF Larger
  <2>4. stream /\ tracker.has => q = tracker.seq + 1
    BY <1>1, <1>3, <1>5
  <2>5. tracker'.has = TRUE /\ tracker'.seq = q /\ tracker'.epochs = MergeEpochs(tracker.epochs, ep)
    BY <2>1
  <2>6. IsTracker(tracker')
    BY <2>1, Zenon DEF IsTracker
  <2> QED
    BY <1>5, <2>2, <2>3, <2>4, <2>5, <2>6, Zenon
<1>6. CASE out = "GAP"
  <2>1. tracker' = [tracker EXCEPT !.head = Larger(@, q), !.gap = TRUE]
    BY <1>6, Zenon DEF Recorded
  <2>2. /\ IsTracker(tracker')
        /\ tracker'.has = tracker.has /\ tracker'.seq = tracker.seq
        /\ tracker'.epochs = tracker.epochs
    BY <1>1, <2>1, Zenon DEF IsTracker
  <2>3. ~ok
    BY <1>6
  <2> QED
    BY <1>4, <2>2, <2>3, Zenon
<1>7. CASE out # "GAP" /\ ~ok
  <2>1. tracker' = tracker
    BY <1>7, Zenon DEF Recorded
  <2> QED
    BY <1>1, <1>4, <1>7, <2>1, Zenon
<1> QED
  BY <1>5, <1>6, <1>7, Zenon

(* Recording a gap leaves the state of the tracker as it is.               *)
LEMMA GapFacts ==
    ASSUME LogStep, TrackerInv, tracker' = GapRecorded(tracker), cursor' = cursor
    PROVE  TrackerInv' /\ tracker'.has = tracker.has
<1>1. /\ IsTracker(tracker)
      /\ tracker' = [tracker EXCEPT !.gap = TRUE]
  BY Zenon DEF TrackerInv, GapRecorded
<1>2. /\ IsTracker(tracker')
      /\ tracker'.has = tracker.has /\ tracker'.seq = tracker.seq
      /\ tracker'.epochs = tracker.epochs
  BY <1>1, Zenon DEF IsTracker
<1> QED
  BY <1>2, KeptTracker, Zenon

(* What a stream entry or a revocation reply counts.                       *)
LEMMA EntryCounted ==
    ASSUME LogInv, NEW e \in log
    PROVE  Behind(e.seq) /\ Counted(e.epochs.security, e.seq)
<1>1. e.seq \in Nat /\ e.seq <= e.seq
  <2>1. e.seq \in Nat
    BY Zenon DEF LogInv
  <2> QED
    BY <2>1
<1> QED
  BY <1>1, Zenon DEF LogInv, Behind, Counted, Visible

(* What is applied keeps every revocation in force, and adds the created:  *)
(* in order of the timestamps, a lift is no older than its revocation.     *)
LEMMA ApplyFacts ==
    ASSUME LogInv, TimestampsOrdered, NEW known, NEW entries \in SUBSET log, NEW f, InForce(f),
           f.rev \in known \/ (f \in entries /\ f.change = "CREATED")
    PROVE  f.rev \in Apply(known, entries)
<1>1. ASSUME NEW e \in log, e.change = "LIFTED" PROVE e.rev \in Lifted
  <2>1. PICK c \in Created : c.rev = e.rev /\ c.seq < e.seq
    BY <1>1, Zenon DEF LogInv
  <2>2. c.at <= e.at
    BY <1>1, <2>1, Zenon DEF TimestampsOrdered, Created
  <2> QED
    BY <1>1, <2>1, <2>2, Zenon DEF Lifted
<1> QED
  BY <1>1, Zenon DEF Apply, InForce

(* What RevocationChanges returns, after a cursor that is not gone: first  *)
(* the next entry of the tenant, and every entry when they are few.        *)
LEMMA ChangesFacts ==
    ASSUME LogInv, NEW a, NEW r \in Int, NEW n \in Nat
    PROVE  LET c == RevocationChanges(Home, a, n, r) IN
           /\ c \in Seq(log)
           /\ Range(c) \subseteq log
           /\ a \in Nat /\ ~CursorGone(Home, a, r) /\ c # <<>> => FirstAfter(a, Head(c))
           /\ a \in Nat /\ ~CursorGone(Home, a, r) /\ Len(c) < n /\ TimestampsOrdered =>
                 \A e \in Visible(log, Home) : a < e.seq => e \in Range(c)
<1> DEFINE S == {e \in Visible(log, Home) : e.seq > a /\ e.at >= r}
           c == FirstInOrder(S, n)
<1>1. RevocationChanges(Home, a, n, r) = c
  BY Zenon DEF RevocationChanges
<1>2. S \in SUBSET log
  BY Zenon DEF Visible
<1>3. Numbered(S)
  BY <1>2, LogNumbered, Zenon
<1>4. /\ c \in Seq(S)
      /\ Len(c) = (IF n < Cardinality(S) THEN n ELSE Cardinality(S))
      /\ Cardinality(S) <= n => S \subseteq Range(c)
      /\ c # <<>> => \A f \in S : Head(c).seq <= f.seq
  BY <1>3, FirstInOrderFacts, Zenon
<1>5. Cardinality(S) \in Nat
  BY <1>3, FS_CardinalityType, Zenon DEF Numbered
<1>6. Range(c) \subseteq S
  BY <1>4, SeqRange, Zenon
<1>7. c # <<>> => Head(c) \in S
  BY <1>4, SeqHead, Zenon
<1>8. c \in Seq(log)
  BY <1>2, <1>4, SeqGrows, Zenon
<1>9. ASSUME a \in Nat, ~CursorGone(Home, a, r), TimestampsOrdered,
             NEW e \in Visible(log, Home), a < e.seq
      PROVE  e \in S
  <2>1. e.at >= r
    BY <1>9, NothingGone, Zenon
  <2>2. e.seq > a
    BY <1>9, Zenon
  <2> QED
    BY <2>1, <2>2, Zenon
<1>10. ASSUME a \in Nat, ~CursorGone(Home, a, r), c # <<>> PROVE FirstAfter(a, Head(c))
  <2>1. Head(c) \in S
    BY <1>7, <1>10, Zenon
  <2>2. a < Head(c).seq
    BY <2>1
  <2> QED
    BY <1>4, <1>9, <1>10, <2>2, Zenon DEF FirstAfter
<1>11. ASSUME a \in Nat, ~CursorGone(Home, a, r), Len(c) < n, TimestampsOrdered,
              NEW e \in Visible(log, Home), a < e.seq
       PROVE  e \in Range(c)
  <2>1. Cardinality(S) <= n
    BY <1>4, <1>5, <1>11
  <2> QED
    BY <1>4, <1>9, <1>11, <2>1, Zenon
<1> QED
  BY <1>1, <1>2, <1>6, <1>8, <1>10, <1>11, Zenon

-----------------------------------------------------------------------------
(* The steps *)

(* The part of the invariant that a step may disturb.                      *)
Kept == TrackerInv /\ StreamInv /\ ReconInv /\ NothingSkipped

(* Steps of the stream and of the server leave the gateway where it is.    *)
LEMMA GatewayStays ==
    ASSUME RInv, LogStep, cursor' = cursor, view' = view, recon' = recon
    PROVE  ReconInv' /\ NothingSkipped'
<1>1. /\ LogInv /\ TrackerInv /\ StreamInv /\ ReconInv /\ NothingSkipped
  BY Zenon DEF RInv
<1>2. cursor.seq \in Nat
  BY <1>1, Zenon DEF TrackerInv, Behind
<1>3. cursor'.seq \in Nat /\ cursor.seq <= cursor'.seq
  BY <1>2
<1>4. ReconInv'
  BY <1>1, <1>3, QuietRecon, Zenon
<1> QED
  BY <1>1, <1>4, SkipStable, Zenon DEF TrackerInv

(* An open session with a new batch, whose first entry is the one the gateway    *)
(* waits for if it has nothing to go by.                                   *)
LEMMA NewBatch ==
    ASSUME LogStep, StreamInv, NEW a, NEW b \in Seq(log), NEW r,
           NEW ph \in {"CHECKED", "SENDING"},
           session' = [phase |-> ph, cursor |-> a, retained |-> r, batch |-> b], wire' = wire,
           StreamOpen \/ wire = <<>>, cursor' = cursor, tracker' = tracker,
           ~tracker.has /\ wire = <<>> =>
              a = cursor.seq /\ (b # <<>> => FirstAfter(a, Head(b)))
    PROVE  StreamInv'
<1>1. /\ session' = [phase |-> session'.phase, cursor |-> session'.cursor,
                       retained |-> session'.retained, batch |-> session'.batch]
      /\ session'.phase # "WRITTEN" /\ session'.phase # "CLOSED"
      /\ session'.cursor = a /\ session'.batch = b
  OBVIOUS
<1>2. log \subseteq log'
  BY Zenon DEF LogStep
<1>3. b \in Seq(log') /\ wire' \in Seq(log' \cup {GapEvent})
  BY <1>2, SeqGrows DEF StreamInv
<1>4. \A i \in 1 .. Len(wire) : wire[i] # GapEvent
  <2>1. CASE wire = <<>>
    BY <2>1
  <2>2. CASE StreamOpen
    BY <2>2, Zenon DEF StreamInv
  <2> QED
    BY <2>1, <2>2, Zenon
<1>5. ASSUME ~tracker.has, wire # <<>>, Head(wire) # GapEvent
      PROVE  FirstAfter(cursor.seq, Head(wire))'
  <2>1. PICK n, e : n = cursor.seq /\ e = Head(wire)
    BY Zenon
  <2>2. e \in log /\ FirstAfter(n, e)
    <3>1. Head(wire) \in log \cup {GapEvent}
      BY <1>5, SeqHead DEF StreamInv
    <3> QED
      BY <1>5, <2>1, <3>1, Zenon DEF StreamInv
  <2>3. FirstAfter(n, e)' /\ n = cursor'.seq /\ e = Head(wire')
    BY <2>1, <2>2, LogStable, Zenon
  <2> QED
    BY <2>3, Zenon DEF FirstAfter
<1>6. ASSUME ~tracker.has, wire = <<>>
      PROVE  session'.cursor = cursor'.seq
             /\ (session'.batch # <<>> => FirstAfter(cursor.seq, Head(session.batch))')
  <2>1. ASSUME b # <<>> PROVE FirstAfter(cursor.seq, Head(session.batch))'
    <3>1. PICK e : e = Head(b)
      BY Zenon
    <3>2. e \in log /\ FirstAfter(a, e)
      BY <1>6, <2>1, <3>1, SeqHead, Zenon
    <3>3. FirstAfter(a, e)' /\ a = cursor'.seq /\ e = Head(session'.batch)
      BY <1>1, <1>6, <3>1, <3>2, LogStable, Zenon
    <3> QED
      BY <3>3, Zenon DEF FirstAfter
  <2> QED
    BY <1>1, <1>6, <2>1, Zenon
<1> QED
  BY <1>1, <1>3, <1>4, <1>5, <1>6, Zenon DEF StreamInv, StreamOpen

(* The gap event ends a stream that carried none.                          *)
LEMMA GapWritten ==
    ASSUME LogStep, StreamInv, StreamOpen, session' = Closed,
           wire' = Append(wire, GapEvent), cursor' = cursor, tracker' = tracker
    PROVE  StreamInv'
<1>1. /\ session' = [phase |-> session'.phase, cursor |-> session'.cursor,
                       retained |-> session'.retained, batch |-> session'.batch]
      /\ session'.phase = "CLOSED" /\ session'.phase # "WRITTEN" /\ session'.batch = <<>>
  BY DEF Closed
<1>2. log \subseteq log'
  BY Zenon DEF LogStep
<1>3. wire \in Seq(log \cup {GapEvent}) /\ wire \in Seq(log' \cup {GapEvent})
  BY <1>2, SeqGrows, Zenon DEF StreamInv
<1>4. session'.batch \in Seq(log') /\ wire' \in Seq(log' \cup {GapEvent}) /\ wire' # <<>>
  BY <1>1, <1>3
<1>5. \A i \in 1 .. Len(wire) : wire[i] # GapEvent
  BY Zenon DEF StreamInv
<1>6. \A i \in 1 .. Len(wire') : wire'[i] = GapEvent => i = Len(wire')
  BY <1>3, <1>5
<1>7. ASSUME ~tracker.has, Head(wire') # GapEvent
      PROVE  FirstAfter(cursor.seq, Head(wire))'
  <2>1. wire # <<>> /\ Head(wire') = Head(wire)
    BY <1>3, <1>7
  <2>2. PICK n, e : n = cursor.seq /\ e = Head(wire)
    BY Zenon
  <2>3. e \in log /\ FirstAfter(n, e)
    <3>1. Head(wire) \in log \cup {GapEvent}
      BY <1>3, <2>1, SeqHead, Zenon
    <3> QED
      BY <1>7, <2>1, <2>2, <3>1, Zenon DEF StreamInv
  <2>4. FirstAfter(n, e)' /\ n = cursor'.seq /\ e = Head(wire')
    BY <2>1, <2>2, <2>3, LogStable, Zenon
  <2> QED
    BY <2>4, Zenon DEF FirstAfter
<1> QED
  BY <1>1, <1>4, <1>6, <1>7, Zenon DEF StreamInv, StreamOpen

(* Opening a stream: refused with a gap, or a session at the cursor.       *)
LEMMA OpenKeeps == ASSUME RInv, LogStep, OpenStream PROVE Kept'
<1>1. LogInv /\ TrackerInv /\ StreamInv /\ ReconInv /\ NothingSkipped
  BY Zenon DEF RInv
<1>2. ReconInv' /\ NothingSkipped'
  BY GatewayStays, Zenon DEF OpenStream
<1>3. CASE CursorGone(Home, cursor.seq, clock - Retention)
  <2>1. tracker' = GapRecorded(tracker) /\ session' = session /\ cursor' = cursor /\ wire' = wire
    BY <1>3, Zenon DEF OpenStream
  <2>2. TrackerInv' /\ tracker'.has = tracker.has
    BY <1>1, <2>1, GapFacts, Zenon
  <2> QED
    BY <1>1, <1>2, <2>1, <2>2, QuietStream, Zenon DEF Kept
<1>4. CASE ~CursorGone(Home, cursor.seq, clock - Retention)
  <2>1. PICK a, r, b, ph : /\ a = cursor.seq /\ r = clock - Retention
                           /\ b = <<>> /\ ph = "CHECKED"
    BY Zenon
  <2>2. /\ tracker' = tracker /\ cursor' = cursor /\ wire' = wire /\ wire = <<>>
        /\ session' = [phase |-> ph, cursor |-> a, retained |-> r, batch |-> b]
    BY <1>4, <2>1, Zenon DEF OpenStream, BoundaryPassed
  <2>3. TrackerInv'
    BY <1>1, <2>2, QuietTracker, Zenon
  <2>4. b \in Seq(log) /\ ph \in {"CHECKED", "SENDING"}
    BY <2>1
  <2>5. StreamInv'
    BY <1>1, <2>1, <2>2, <2>4, NewBatch, Zenon
  <2> QED
    BY <1>2, <2>3, <2>5, Zenon DEF Kept
<1> QED
  BY <1>3, <1>4, Zenon

(* The page after a boundary that was passed.                              *)
LEMMA PageKeeps == ASSUME RInv, LogStep, ReadPage PROVE Kept'
<1>1. LogInv /\ TrackerInv /\ StreamInv /\ BoundaryInv /\ ReconInv /\ NothingSkipped
  BY Zenon DEF RInv
<1>2. PICK a, r, s, ph : /\ a = session.cursor /\ r = session.retained /\ s = 0
                         /\ ph = "SENDING"
  BY Zenon
<1>3. PICK b : b = RevocationChanges(Home, a, revocationStreamBatch, r)
  BY Zenon
<1>4. /\ tracker' = tracker /\ cursor' = cursor /\ view' = view /\ recon' = recon
      /\ wire' = wire /\ session.phase = "CHECKED"
      /\ session' = [phase |-> ph, cursor |-> a, retained |-> s, batch |-> b]
  BY <1>2, <1>3, Zenon DEF ReadPage, Sending, gatewayVars
<1>5. TrackerInv' /\ ReconInv' /\ NothingSkipped'
  BY <1>1, <1>4, GatewayStays, QuietTracker, Zenon
<1>6. r \in Int /\ ~CursorGone(Home, a, r)
  BY <1>1, <1>2, <1>4, Zenon DEF BoundaryInv
<1>7. b \in Seq(log) /\ (a \in Nat /\ b # <<>> => FirstAfter(a, Head(b)))
  BY <1>1, <1>3, <1>6, ChangesFacts, LimitsAssumption, Zenon
<1>8. StreamOpen /\ ph \in {"CHECKED", "SENDING"}
  BY <1>2, <1>4 DEF StreamOpen
<1>9. ~tracker.has /\ wire = <<>> => a = cursor.seq /\ a \in Nat
  BY <1>1, <1>2, <1>8, Zenon DEF StreamInv, TrackerInv, Behind
<1>10. StreamInv'
  BY <1>1, <1>4, <1>7, <1>8, <1>9, NewBatch, Zenon
<1> QED
  BY <1>5, <1>10, Zenon DEF Kept

(* A poll: the boundary at the session's cursor, or the gap event.         *)
LEMMA PollKeeps == ASSUME RInv, LogStep, PollStream PROVE Kept'
<1>1. LogInv /\ TrackerInv /\ StreamInv /\ ReconInv /\ NothingSkipped
  BY Zenon DEF RInv
<1>2. /\ tracker' = tracker /\ cursor' = cursor /\ view' = view /\ recon' = recon
      /\ session.phase = "SENDING"
  BY Zenon DEF PollStream, gatewayVars
<1>3. TrackerInv' /\ ReconInv' /\ NothingSkipped'
  BY <1>1, <1>2, GatewayStays, QuietTracker, Zenon
<1>4. StreamOpen
  BY <1>2 DEF StreamOpen
<1>5. CASE wire' = Append(wire, GapEvent) /\ session' = Closed
  BY <1>1, <1>2, <1>3, <1>4, <1>5, GapWritten, Zenon DEF Kept
<1>6. CASE BoundaryPassed(session.cursor) /\ wire' = wire
  <2>1. PICK a, r, b, ph : /\ a = session.cursor /\ r = clock - Retention
                           /\ b = <<>> /\ ph = "CHECKED"
    BY Zenon
  <2>2. session' = [phase |-> ph, cursor |-> a, retained |-> r, batch |-> b]
    BY <1>6, <2>1, Zenon DEF BoundaryPassed
  <2>3. b \in Seq(log) /\ ph \in {"CHECKED", "SENDING"}
    BY <2>1
  <2>4. ~tracker.has /\ wire = <<>> => a = cursor.seq
    BY <1>1, <1>4, <2>1, Zenon DEF StreamInv
  <2>5. StreamInv'
    BY <1>1, <1>2, <1>4, <1>6, <2>1, <2>2, <2>3, <2>4, NewBatch, Zenon
  <2> QED
    BY <1>3, <2>5, Zenon DEF Kept
<1> QED
  BY <1>5, <1>6, Zenon DEF PollStream

(* An event is written behind the others.                                  *)
LEMMA SendKeeps == ASSUME RInv, LogStep, SendEvent PROVE Kept'
<1>1. LogInv /\ TrackerInv /\ StreamInv /\ ReconInv /\ NothingSkipped
  BY Zenon DEF RInv
<1>2. /\ tracker' = tracker /\ cursor' = cursor /\ view' = view /\ recon' = recon
      /\ session.phase = "SENDING" /\ session.batch # <<>>
      /\ session' = [session EXCEPT !.phase = "WRITTEN"]
  BY Zenon DEF SendEvent, gatewayVars
<1>3. TrackerInv' /\ ReconInv' /\ NothingSkipped'
  BY <1>1, <1>2, GatewayStays, QuietTracker, Zenon
<1>4. PICK e : e = Head(session.batch)
  BY Zenon
<1>5. wire' = Append(wire, e)
  BY <1>4, Zenon DEF SendEvent
<1>6. e \in log /\ e # GapEvent
  <2>1. e \in log
    BY <1>1, <1>2, <1>4, SeqHead DEF StreamInv
  <2> QED
    BY <1>1, <2>1, Zenon DEF LogInv
<1>7. log \subseteq log'
  BY Zenon DEF LogStep
<1>8. /\ session' = [phase |-> session'.phase, cursor |-> session'.cursor,
                     retained |-> session'.retained, batch |-> session'.batch]
      /\ session'.batch = session.batch /\ session.batch \in Seq(log) /\ StreamOpen
  <2>1. session = [phase |-> session.phase, cursor |-> session.cursor,
                   retained |-> session.retained, batch |-> session.batch]
        /\ session.batch \in Seq(log)
    BY <1>1, Zenon DEF StreamInv
  <2>2. session' = [phase |-> "WRITTEN", cursor |-> session.cursor,
                    retained |-> session.retained, batch |-> session.batch]
    BY <1>2, <2>1, Zenon
  <2> QED
    BY <1>2, <2>1, <2>2 DEF StreamOpen
<1>9. wire \in Seq(log \cup {GapEvent}) /\ wire \in Seq(log' \cup {GapEvent})
      /\ session'.batch \in Seq(log')
  BY <1>1, <1>7, <1>8, SeqGrows DEF StreamInv
<1>10. wire' \in Seq(log' \cup {GapEvent}) /\ wire' # <<>>
  BY <1>5, <1>6, <1>7, <1>9
<1>11. \A i \in 1 .. Len(wire) : wire[i] # GapEvent
  BY <1>1, <1>8, Zenon DEF StreamInv
<1>12. \A i \in 1 .. Len(wire') : wire'[i] # GapEvent
  BY <1>5, <1>6, <1>9, <1>11
<1>13. ASSUME ~tracker.has PROVE FirstAfter(cursor.seq, Head(wire))'
  <2>1. PICK n, h : n = cursor.seq /\ h = Head(wire')
    BY Zenon
  <2>2. h \in log /\ FirstAfter(n, h)
    <3>1. CASE wire = <<>>
      <4>1. h = e
        BY <1>5, <1>9, <2>1, <3>1
      <4> QED
        BY <1>1, <1>2, <1>4, <1>6, <1>8, <1>13, <2>1, <3>1, <4>1, Zenon DEF StreamInv
    <3>2. CASE wire # <<>>
      <4>1. h = Head(wire) /\ Head(wire) = wire[1] /\ 1 \in 1 .. Len(wire)
        BY <1>5, <1>9, <2>1, <3>2
      <4>2. h # GapEvent /\ h \in log \cup {GapEvent}
        BY <1>9, <1>11, <3>2, <4>1, SeqHead, Zenon
      <4> QED
        BY <1>1, <1>13, <2>1, <3>2, <4>1, <4>2, Zenon DEF StreamInv
    <3> QED
      BY <3>1, <3>2, Zenon
  <2>3. FirstAfter(n, h)' /\ n = cursor'.seq
    BY <1>2, <2>1, <2>2, LogStable, Zenon
  <2> QED
    BY <2>1, <2>3, Zenon DEF FirstAfter
<1>14. StreamInv'
  BY <1>2, <1>8, <1>9, <1>10, <1>12, <1>13, Zenon DEF StreamInv
<1> QED
  BY <1>3, <1>14, Zenon DEF Kept

(* A checkpoint: the rest of the batch, or the end of the session after    *)
(* what it wrote.                                                          *)
LEMMA CheckpointKeeps == ASSUME RInv, LogStep, CheckpointStream PROVE Kept'
<1>1. LogInv /\ TrackerInv /\ StreamInv /\ ReconInv /\ NothingSkipped
  BY Zenon DEF RInv
<1>2. /\ tracker' = tracker /\ cursor' = cursor /\ view' = view /\ recon' = recon
      /\ wire' = wire /\ session.phase = "WRITTEN"
  BY Zenon DEF CheckpointStream, gatewayVars
<1>3. TrackerInv' /\ ReconInv' /\ NothingSkipped'
  BY <1>1, <1>2, GatewayStays, QuietTracker, Zenon
<1>4. StreamOpen /\ ~(~tracker.has /\ wire = <<>>)
  <2>1. StreamOpen
    BY <1>2 DEF StreamOpen
  <2> QED
    BY <1>1, <1>2, <2>1, Zenon DEF StreamInv
<1>5. CASE session' = Closed
  <2>1. /\ session' = [phase |-> session'.phase, cursor |-> session'.cursor,
                       retained |-> session'.retained, batch |-> session'.batch]
        /\ session'.phase = "CLOSED" /\ session'.phase # "WRITTEN" /\ session'.batch = <<>>
        /\ session'.batch \in Seq(log)
    BY <1>5 DEF Closed
  <2>2. \A i \in 1 .. Len(wire) : wire[i] # GapEvent
    BY <1>1, <1>4, Zenon DEF StreamInv
  <2>3. log \subseteq log'
    BY Zenon DEF LogStep
  <2>4. session'.batch \in Seq(log') /\ wire' \in Seq(log' \cup {GapEvent})
    BY <1>1, <1>2, <2>1, <2>3, SeqGrows DEF StreamInv
  <2>5. ASSUME ~tracker.has, wire # <<>>, Head(wire) # GapEvent
        PROVE  FirstAfter(cursor.seq, Head(wire))'
    <3>1. PICK n, e : n = cursor.seq /\ e = Head(wire)
      BY Zenon
    <3>2. e \in log /\ FirstAfter(n, e)
      <4>1. Head(wire) \in log \cup {GapEvent}
        BY <1>1, <2>5, SeqHead, Zenon DEF StreamInv
      <4> QED
        BY <1>1, <2>5, <3>1, <4>1, Zenon DEF StreamInv
    <3>3. FirstAfter(n, e)' /\ n = cursor'.seq /\ e = Head(wire')
      BY <1>2, <3>1, <3>2, LogStable, Zenon
    <3> QED
      BY <3>3, Zenon DEF FirstAfter
  <2>6. StreamInv'
    BY <1>2, <2>1, <2>2, <2>4, <2>5, Zenon DEF StreamInv, StreamOpen
  <2> QED
    BY <1>3, <2>6, Zenon DEF Kept
<1>6. CASE Sending(Head(session.batch).seq, Tail(session.batch))
  <2>1. PICK a, r, b, ph : /\ a = Head(session.batch).seq /\ r = 0
                           /\ b = Tail(session.batch) /\ ph = "SENDING"
    BY Zenon
  <2>2. session' = [phase |-> ph, cursor |-> a, retained |-> r, batch |-> b]
    BY <1>6, <2>1, Zenon DEF Sending
  <2>3. session.batch \in Seq(log) /\ session.batch # <<>>
    BY <1>1, <1>2, Zenon DEF StreamInv
  <2>4. b \in Seq(log) /\ ph \in {"CHECKED", "SENDING"}
    BY <2>1, <2>3
  <2>5. StreamInv'
    BY <1>1, <1>2, <1>4, <2>2, <2>4, NewBatch, Zenon
  <2> QED
    BY <1>3, <2>5, Zenon DEF Kept
<1> QED
  BY <1>5, <1>6, Zenon DEF CheckpointStream

(* Only opening and polling pass a boundary.                               *)
LEMMA BoundaryStep == ASSUME RInv, LogStep, [Next]_vars PROVE BoundaryInv'
<1>1. LogInv /\ BoundaryInv
  BY Zenon DEF RInv
<1>2. CASE session' = session
  BY <1>1, <1>2, QuietBoundary, Zenon
<1>3. CASE session'.phase # "CHECKED"
  BY <1>3, Zenon DEF BoundaryInv
<1>4. ASSUME NEW a, BoundaryPassed(a), ~CursorGone(Home, a, clock - Retention),
             UNCHANGED <<clock, log>>
      PROVE  BoundaryInv'
  <2>1. PICK r : r = clock - Retention
    BY Zenon
  <2>2. session' = [phase |-> "CHECKED", cursor |-> a, retained |-> r, batch |-> <<>>]
    BY <1>4, <2>1, Zenon DEF BoundaryPassed
  <2>3. session'.cursor = a /\ session'.retained = r
    BY <2>2
  <2>4. r \in Int /\ r <= clock' - Retention
    <3>1. clock \in Nat /\ clock' = clock
      BY <1>1, <1>4, Zenon DEF LogInv
    <3> QED
      BY <2>1, <3>1, RetentionAssumption
  <2>5. ~CursorGone(Home, a, r)'
    BY <1>4, <2>1, Zenon DEF CursorGone, Visible
  <2>6. ~CursorGone(Home, session.cursor, session.retained)'
    BY <2>3, <2>5, Zenon DEF CursorGone
  <2> QED
    BY <2>3, <2>4, <2>6, Zenon DEF BoundaryInv
<1>5. CASE OpenStream
  BY <1>2, <1>4, <1>5, Zenon DEF OpenStream, logVars
<1>6. CASE PollStream
  <2>1. session' = Closed => session'.phase # "CHECKED"
    BY DEF Closed
  <2> QED
    BY <1>3, <1>4, <1>6, <2>1, Zenon DEF PollStream, logVars
<1>7. CASE session' = Closed
  <2>1. session'.phase # "CHECKED"
    BY <1>7 DEF Closed
  <2> QED
    BY <1>3, <2>1, Zenon
<1>8. ASSUME NEW a, NEW b, Sending(a, b) PROVE BoundaryInv'
  <2>1. session'.phase # "CHECKED"
    BY <1>8 DEF Sending
  <2> QED
    BY <1>3, <2>1, Zenon
<1>9. CASE SendEvent
  <2>1. session = [phase |-> session.phase, cursor |-> session.cursor,
                   retained |-> session.retained, batch |-> session.batch]
    BY Zenon DEF RInv, StreamInv
  <2>2. session' = [session EXCEPT !.phase = "WRITTEN"]
    BY <1>9, Zenon DEF SendEvent
  <2>3. session'.phase # "CHECKED"
    BY <2>1, <2>2
  <2> QED
    BY <1>3, <2>3, Zenon
<1>10. \/ session' = session \/ session' = Closed
       \/ \E a, b : Sending(a, b)
       \/ OpenStream \/ SendEvent \/ PollStream
  BY Zenon DEF Next, Change, Serve, Reconcile, Fault, ReadPage, CheckpointStream, ReceiveEvent,
       BeginReconcile, ReadChanges, ApplyReconciliation, BreakStream, LoseResponse,
       RestartGateway, Tick, vars, serverVars
<1> QED
  BY <1>2, <1>5, <1>6, <1>7, <1>8, <1>9, <1>10, Zenon

(* The head of a reconciliation is the last entry of the tenant so far.    *)
LEMMA BeginKeeps == ASSUME RInv, LogStep, BeginReconcile PROVE Kept'
<1>1. LogInv /\ TrackerInv /\ StreamInv /\ ReconInv /\ NothingSkipped
  BY Zenon DEF RInv
<1>2. /\ tracker' = tracker /\ cursor' = cursor /\ view' = view /\ session' = session
      /\ wire' = wire /\ log' = log
  BY Zenon DEF BeginReconcile, gatewayVars, logVars
<1>3. TrackerInv' /\ StreamInv' /\ NothingSkipped'
  BY <1>1, <1>2, QuietTracker, QuietStream, SkipStable, Zenon DEF TrackerInv
<1>4. PICK c, now, n, ep : c = cursor /\ now = clock /\ n = LastSequence(Home)
                           /\ ep = Epochs(Home)
  BY Zenon
<1>5. recon' = [phase |-> "HEAD", after |-> c, now |-> now, seq |-> n, epochs |-> ep]
  BY <1>4, Zenon DEF BeginReconcile
<1>6. /\ recon'.phase = "HEAD" /\ recon'.after = c /\ recon'.now = now
      /\ recon'.seq = n /\ recon'.epochs = ep
  BY <1>5
<1>7. ep.security = Cardinality(log)
  BY <1>4 DEF Epochs
<1>8. Behind(n) /\ \A e \in Visible(log, Home) : e.seq <= n
  BY <1>1, <1>4, LastSequenceFacts, Zenon
<1>9. n \in Nat /\ now \in Nat /\ \A e \in log : e.seq \in Nat /\ e.at <= now
  BY <1>1, <1>4, <1>8, Zenon DEF LogInv, Behind
<1>10. Counted(ep.security, n)
  <2>1. Cardinality(log) \in Nat
    BY <1>1, FS_CardinalityType, Zenon DEF LogInv
  <2>2. Cardinality(log) <= Cardinality(log)
    BY <2>1
  <2>3. \A e \in Visible(log, Home) : ~(n < e.seq)
    BY <1>8, <1>9 DEF Visible
  <2> QED
    BY <1>7, <2>1, <2>2, <2>3, Zenon DEF Counted
<1>11. Behind(n)' /\ Counted(ep.security, n)'
  BY <1>8, <1>10, LogStable, Zenon
<1>12. Behind(recon.seq)' /\ Counted(recon.epochs.security, recon.seq)'
  BY <1>6, <1>11, Zenon DEF Behind, Counted
<1>13. c.seq \in Nat /\ c.seq <= c.seq
  <2>1. c.seq \in Nat
    BY <1>1, <1>4, Zenon DEF TrackerInv, Behind
  <2> QED
    BY <2>1
<1>14. recon'.phase # "REPLY"
  BY <1>6
<1>15. ReconInv'
  BY <1>2, <1>4, <1>6, <1>9, <1>12, <1>13, <1>14, Zenon DEF ReconInv
<1> QED
  BY <1>3, <1>15, Zenon DEF Kept

(* A reconciliation that ends leaves nothing to keep.                      *)
LEMMA IdleKeeps ==
    ASSUME recon' = Idle
    PROVE  ReconInv'
<1>1. recon'.phase = "IDLE"
  BY DEF Idle
<1>2. recon'.phase # "HEAD" /\ recon'.phase # "REPLY"
  BY <1>1
<1> QED
  BY <1>1, <1>2, Zenon DEF ReconInv

(* The reply covers the head read first: the snapshot by the entries that  *)
(* were there by then, the delta by what the cursor already covered and    *)
(* every entry after it.                                                   *)
LEMMA ReadKeeps == ASSUME RInv, LogStep, ReadChanges PROVE Kept'
<1>1. LogInv /\ TrackerInv /\ StreamInv /\ ReconInv /\ NothingSkipped
  BY Zenon DEF RInv
<1>2. /\ tracker' = tracker /\ cursor' = cursor /\ view' = view /\ session' = session
      /\ wire' = wire /\ log' = log /\ recon.phase = "HEAD"
  BY Zenon DEF ReadChanges, gatewayVars, logVars
<1>3. TrackerInv' /\ StreamInv' /\ NothingSkipped'
  BY <1>1, <1>2, QuietTracker, QuietStream, SkipStable, Zenon DEF TrackerInv
<1>4. CASE recon' = Idle
  BY <1>3, <1>4, IdleKeeps, Zenon DEF Kept
<1>5. CASE recon' # Idle
  <2>1. PICK a, r, n, ep : a = recon.after.seq /\ r = recon.now - Retention /\ n = recon.seq
                           /\ ep = recon.epochs
    BY Zenon
  <2>2. PICK b : b = RevocationChanges(Home, a, maxRevocationDelta + 1, r)
    BY Zenon
  <2>3. PICK act, whole : /\ act = ActiveRevocations(Home, recon.now)
                          /\ whole = (CursorGone(Home, a, r) \/ Len(b) > maxRevocationDelta)
    BY Zenon
  <2>4. recon' = [phase |-> "REPLY", mode |-> IF whole THEN "snapshot" ELSE "delta",
                  seq |-> n, epochs |-> ep, active |-> IF whole THEN act ELSE {},
                  changes |-> IF whole THEN <<>> ELSE b]
    BY <1>5, <2>1, <2>2, <2>3, Zenon DEF ReadChanges
  <2>5. /\ recon'.phase = "REPLY" /\ recon'.seq = n /\ recon'.epochs = ep
        /\ whole => recon'.mode = "snapshot" /\ recon'.active = act
        /\ ~whole => recon'.mode # "snapshot" /\ recon'.changes = b
    BY <2>4
  <2>6. recon'.phase # "HEAD" /\ recon.phase # "IDLE"
    BY <1>2, <2>5
  <2>7. Behind(n) /\ Counted(ep.security, n)
    BY <1>1, <2>1, <2>6, Zenon DEF ReconInv
  <2>8. Behind(n)' /\ Counted(ep.security, n)'
    BY <2>7, LogStable, Zenon
  <2>9. Behind(recon.seq)' /\ Counted(recon.epochs.security, recon.seq)'
    BY <2>5, <2>8, Zenon DEF Behind, Counted
  <2>10. /\ recon.now \in Nat /\ a \in Nat /\ a <= cursor.seq /\ cursor.seq \in Nat
         /\ \A e \in log : e.seq <= n => e.at <= recon.now
    BY <1>1, <1>2, <2>1, Zenon DEF ReconInv, TrackerInv, Behind
  <2>11. r \in Int /\ maxRevocationDelta + 1 \in Nat
    BY <2>1, <2>10, RetentionAssumption, LimitsAssumption
  <2>12. ASSUME NEW e \in Visible(Created, Home)', Binds(e, recon.seq)'
         PROVE  e \in Visible(Created, Home) /\ Binds(e, n)
    <3>1. Binds(e, n)'
      BY <2>5, <2>12, Zenon DEF Binds
    <3> QED
      BY <2>7, <2>12, <3>1, BindsStable, Zenon
  <2>13. CASE whole
    <3>1. ASSUME NEW e \in Visible(Created, Home), Binds(e, n) PROVE e.rev \in act
      <4>1. e \in log /\ e.seq <= n /\ e.from = e.at /\ e.rev \notin Lifted
        BY <3>1, Zenon DEF Visible, Created, Binds, InForce
      <4>2. e.from <= recon.now
        BY <2>10, <4>1, Zenon
      <4> QED
        BY <2>3, <4>1, <4>2, Zenon DEF ActiveRevocations
    <3>2. \A e \in Visible(Created, Home)' : Binds(e, recon.seq)' => e.rev \in recon'.active
      BY <2>5, <2>12, <2>13, <3>1, Zenon
    <3>3. ReconInv'
      BY <2>5, <2>6, <2>9, <2>13, <3>2, Zenon DEF ReconInv
    <3> QED
      BY <1>3, <3>3, Zenon DEF Kept
  <2>14. CASE ~whole
    <3>1. ~CursorGone(Home, a, r) /\ ~(Len(b) > maxRevocationDelta)
      BY <2>3, <2>14, Zenon
    <3>2. b \in Seq(log) /\ Range(b) \subseteq log
      BY <1>1, <2>2, <2>11, ChangesFacts, Zenon
    <3>3. Len(b) < maxRevocationDelta + 1
      BY <3>1, <3>2, LimitsAssumption
    <3>4. TimestampsOrdered => \A e \in Visible(log, Home) : a < e.seq => e \in Range(b)
      BY <1>1, <2>2, <2>10, <2>11, <3>1, <3>3, ChangesFacts, Zenon
    <3>5. ASSUME TimestampsOrdered, NEW e \in Visible(Created, Home), Binds(e, n)
          PROVE  e.rev \in view \/ e \in Range(b)
      <4>1. e \in Visible(log, Home) /\ e.from = e.at /\ InForce(e)
        BY <3>5, Zenon DEF Visible, Created, Binds
      <4>2. e.seq \in Nat
        BY <1>1, <4>1, Zenon DEF Visible, LogInv
      <4>3. a < e.seq \/ e.seq <= cursor.seq
        BY <2>10, <4>2
      <4> QED
        BY <1>1, <3>4, <3>5, <4>1, <4>3, Zenon DEF NothingSkipped
    <3>6. ASSUME TimestampsOrdered', NEW e \in Visible(Created, Home)', Binds(e, recon.seq)'
          PROVE  e.rev \in view' \/ e \in Range(recon'.changes)
      BY <1>2, <2>5, <2>12, <2>14, <3>5, <3>6, LogStable, Zenon
    <3>7. ReconInv'
      BY <1>2, <2>5, <2>6, <2>9, <2>14, <3>2, <3>6, Zenon DEF ReconInv
    <3> QED
      BY <1>3, <3>7, Zenon DEF Kept
  <2> QED
    BY <2>13, <2>14, Zenon
<1> QED
  BY <1>4, <1>5, Zenon

(* A tracker that moves with the cursor to a state the log counts.         *)
LEMMA TrackerMoves ==
    ASSUME LogStep, NEW n, NEW s, Behind(n), Counted(s, n),
           IsTracker(tracker'),
           tracker'.has = TRUE, tracker'.seq = n, tracker'.epochs.security = s, cursor'.seq = n
    PROVE  TrackerInv'
<1>1. Behind(n)' /\ Counted(s, n)'
  BY LogStable, Zenon
<1>2. Behind(cursor.seq)' /\ Counted(tracker.epochs.security, tracker.seq)'
  BY <1>1, Zenon DEF Behind, Counted
<1> QED
  BY <1>2, Zenon DEF TrackerInv

(* A tracker with a state asks nothing of the stream.                      *)
LEMMA StreamFree ==
    ASSUME LogStep, StreamInv, session' = session, wire' = wire, tracker'.has
    PROVE  StreamInv'
<1>1. log \subseteq log'
  BY Zenon DEF LogStep
<1>2. session'.batch \in Seq(log') /\ wire' \in Seq(log' \cup {GapEvent})
  BY <1>1, SeqGrows DEF StreamInv
<1> QED
  BY <1>2, Zenon DEF StreamInv, StreamOpen

(* A reply that is accepted moves the cursor to its head, and its entries  *)
(* or its active set cover it.                                             *)
LEMMA ApplyKeeps == ASSUME RInv, LogStep, ApplyReconciliation PROVE Kept'
<1>1. LogInv /\ TrackerInv /\ StreamInv /\ ReconInv /\ NothingSkipped
  BY Zenon DEF RInv
<1>2. /\ session' = session /\ wire' = wire /\ log' = log /\ recon' = Idle
      /\ recon.phase = "REPLY"
  BY Zenon DEF ApplyReconciliation, logVars
<1>3. recon.phase # "IDLE"
  BY <1>2
<1>4. ReconInv'
  BY <1>2, IdleKeeps, Zenon
<1>5. PICK n, ep, stream : n = recon.seq /\ ep = recon.epochs /\ stream = FALSE
  BY Zenon
<1>6. Behind(n) /\ Counted(ep.security, n)
  BY <1>1, <1>3, <1>5, Zenon DEF ReconInv
<1>7. /\ n \in Nat /\ ep.security \in Nat /\ (stream = TRUE \/ stream = FALSE)
      /\ tracker' = Recorded(tracker, n, ep, stream, 0)
  BY <1>5, <1>6, Zenon DEF Behind, Counted, ApplyReconciliation
<1> DEFINE ok == Accepted(n, ep, stream)
<1>8. /\ IsTracker(tracker')
      /\ ok => tracker'.has = TRUE /\ tracker'.seq = n /\ tracker'.epochs.security = ep.security
      /\ ~ok => /\ tracker'.has = tracker.has /\ tracker'.seq = tracker.seq
                /\ tracker'.epochs = tracker.epochs
  BY <1>1, <1>7, RecordFacts, Zenon
<1>9. CASE ~ok
  <2>1. view' = view /\ cursor' = cursor
    BY <1>5, <1>9, Zenon DEF ApplyReconciliation, Accepted
  <2>2. TrackerInv' /\ StreamInv' /\ NothingSkipped'
    BY <1>1, <1>2, <1>8, <1>9, <2>1, KeptTracker, QuietStream, SkipStable, Zenon DEF TrackerInv
  <2> QED
    BY <1>4, <2>2, Zenon DEF Kept
<1>10. CASE ok
  <2>1. /\ cursor' = [seq |-> n, epochs |-> ep]
        /\ recon.mode = "snapshot" => view' = recon.active
        /\ recon.mode # "snapshot" => view' = Apply(view, Range(recon.changes))
    BY <1>5, <1>10, Zenon DEF ApplyReconciliation, Accepted
  <2>2. cursor'.seq = n
    BY <2>1
  <2>3. TrackerInv'
    BY <1>6, <1>8, <1>10, <2>2, TrackerMoves, Zenon
  <2>4. StreamInv'
    BY <1>1, <1>2, <1>8, <1>10, StreamFree, Zenon
  <2>5. ASSUME TimestampsOrdered', NEW e \in Visible(Created, Home)', Binds(e, n)'
        PROVE  e.rev \in view'
    <3>1. e \in Visible(Created, Home) /\ Binds(e, n) /\ TimestampsOrdered
      BY <1>6, <2>5, BindsStable, LogStable, Zenon
    <3>2. InForce(e) /\ e.change = "CREATED"
      BY <3>1, Zenon DEF Binds, Visible, Created
    <3>3. CASE recon.mode = "snapshot"
      BY <1>1, <1>2, <1>5, <2>1, <3>1, <3>3, Zenon DEF ReconInv
    <3>4. CASE recon.mode # "snapshot"
      <4>1. /\ Range(recon.changes) \in SUBSET log
            /\ e.rev \in view \/ e \in Range(recon.changes)
        BY <1>1, <1>2, <1>5, <3>1, <3>4, Zenon DEF ReconInv
      <4> QED
        BY <1>1, <2>1, <3>1, <3>2, <3>4, <4>1, ApplyFacts, Zenon
    <3> QED
      BY <3>3, <3>4, Zenon
  <2>6. NothingSkipped'
    BY <2>2, <2>5, Zenon DEF NothingSkipped, Binds
  <2> QED
    BY <1>4, <2>3, <2>4, <2>6, Zenon DEF Kept
<1> QED
  BY <1>9, <1>10, Zenon

(* The number before.                                                      *)
LEMMA Predecessor == \A i \in Int : \A k : i + 1 = k => i = k - 1
OBVIOUS

(* What is left on the wire once its first event is read.                  *)
LEMMA WireRead ==
    ASSUME LogStep, StreamInv, wire # <<>>, wire' = Tail(wire), session' = session,
           tracker'.has \/ Head(wire) = GapEvent, tracker'.has \in BOOLEAN
    PROVE  StreamInv'
<1>1. log \subseteq log'
  BY Zenon DEF LogStep
<1>2. wire \in Seq(log \cup {GapEvent})
  BY Zenon DEF StreamInv
<1>3. /\ Tail(wire) \in Seq(log \cup {GapEvent}) /\ Head(wire) = wire[1]
      /\ Len(wire) \in Nat /\ 0 < Len(wire) /\ Len(Tail(wire)) = Len(wire) - 1
      /\ \A i \in 1 .. Len(Tail(wire)) : i + 1 \in 1 .. Len(wire) /\ Tail(wire)[i] = wire[i + 1]
  BY <1>2, SeqHead, Zenon
<1>4. session'.batch \in Seq(log') /\ wire' \in Seq(log' \cup {GapEvent})
  BY <1>1, <1>3, SeqGrows DEF StreamInv
<1>5. \A i \in 1 .. Len(wire) : wire[i] = GapEvent => i = Len(wire) /\ ~StreamOpen
  BY Zenon DEF StreamInv
<1>6. ASSUME NEW i \in 1 .. Len(wire'), wire'[i] = GapEvent
      PROVE  i = Len(wire') /\ ~StreamOpen'
  <2>1. i + 1 \in 1 .. Len(wire) /\ wire[i + 1] = GapEvent
    BY <1>3, <1>6, Zenon
  <2>2. i + 1 = Len(wire) /\ ~StreamOpen
    BY <1>5, <2>1, Zenon
  <2>3. i \in Int
    BY <1>6
  <2>4. i = Len(wire) - 1
    BY <2>2, <2>3, Predecessor, Zenon
  <2>5. Len(wire') = Len(wire) - 1
    BY <1>3, Zenon
  <2> QED
    BY <2>2, <2>4, <2>5, Zenon DEF StreamOpen
<1>7. ASSUME ~tracker'.has PROVE wire' = <<>> /\ ~StreamOpen'
  <2>1. 1 \in 1 .. Len(wire)
    BY <1>3
  <2>2. 1 = Len(wire) /\ ~StreamOpen
    BY <1>3, <1>5, <1>7, <2>1, Zenon
  <2> QED
    BY <1>3, <2>2 DEF StreamOpen
<1> QED
  BY <1>4, <1>6, <1>7, Zenon DEF StreamInv

(* A gap event is recorded; an entry that is accepted is the next one of   *)
(* the tenant after the cursor, and its change is applied.                 *)
LEMMA ReceiveKeeps == ASSUME RInv, LogStep, ReceiveEvent PROVE Kept'
<1>1. LogInv /\ TrackerInv /\ StreamInv /\ ReconInv /\ NothingSkipped
  BY Zenon DEF RInv
<1>2. /\ session' = session /\ wire # <<>> /\ wire' = Tail(wire) /\ log' = log /\ recon' = recon
  BY Zenon DEF ReceiveEvent, logVars
<1>3. PICK e, n : e = Head(wire) /\ n = cursor.seq
  BY Zenon
<1>4. n \in Nat /\ n <= n
  <2>1. n \in Nat
    BY <1>1, <1>3, Zenon DEF TrackerInv, Behind
  <2> QED
    BY <2>1
<1>5. CASE e = GapEvent
  <2>1. tracker' = GapRecorded(tracker) /\ view' = view /\ cursor' = cursor
    BY <1>3, <1>5, Zenon DEF ReceiveEvent
  <2>2. TrackerInv' /\ tracker'.has = tracker.has
    BY <1>1, <2>1, GapFacts, Zenon
  <2>3. StreamInv'
    BY <1>1, <1>2, <1>3, <1>5, <2>2, WireRead, Zenon DEF TrackerInv
  <2> QED
    BY <1>2, <2>1, <2>2, <2>3, GatewayStays, Zenon DEF Kept
<1>6. CASE e # GapEvent
  <2>1. e \in log
    <3>1. e \in log \cup {GapEvent}
      BY <1>1, <1>2, <1>3, SeqHead DEF StreamInv
    <3> QED
      BY <1>6, <3>1, Zenon
  <2>2. Behind(e.seq) /\ Counted(e.epochs.security, e.seq)
    BY <1>1, <2>1, EntryCounted, Zenon
  <2>3. PICK q, ep, stream : q = e.seq /\ ep = e.epochs /\ stream = TRUE
    BY Zenon
  <2>4. /\ q \in Nat /\ ep.security \in Nat /\ (stream = TRUE \/ stream = FALSE)
        /\ tracker' = Recorded(tracker, q, ep, stream, 0)
    BY <1>3, <1>6, <2>2, <2>3, Zenon DEF Behind, Counted, ReceiveEvent
  <2> DEFINE ok == Accepted(q, ep, stream)
  <2>5. /\ IsTracker(tracker')
        /\ ok => tracker'.has = TRUE /\ tracker'.seq = q /\ tracker'.epochs.security = ep.security
        /\ ~ok => /\ tracker'.has = tracker.has /\ tracker'.seq = tracker.seq
                  /\ tracker'.epochs = tracker.epochs
        /\ ok /\ stream /\ tracker.has => q = tracker.seq + 1
        /\ stream /\ ~tracker.has => ok
    BY <1>1, <2>4, RecordFacts, Zenon
  <2>6. CASE ~ok
    <3>1. view' = view /\ cursor' = cursor
      BY <1>3, <1>6, <2>3, <2>6, Zenon DEF ReceiveEvent, Accepted
    <3>2. tracker'.has = TRUE /\ tracker'.has \in BOOLEAN
      BY <1>1, <2>3, <2>5, <2>6, Zenon DEF TrackerInv
    <3>3. TrackerInv' /\ StreamInv'
      BY <1>1, <1>2, <2>5, <2>6, <3>1, <3>2, KeptTracker, WireRead, Zenon
    <3> QED
      BY <1>2, <3>1, <3>3, GatewayStays, Zenon DEF Kept
  <2>7. CASE ok
    <3>1. /\ view' = Apply(view, {e})
          /\ cursor' = [seq |-> q, epochs |-> MergeEpochs(cursor.epochs, ep)]
      BY <1>3, <1>6, <2>3, <2>7, Zenon DEF ReceiveEvent, Accepted
    <3>2. cursor'.seq = q
      BY <3>1
    <3>3. tracker'.has = TRUE /\ tracker'.has \in BOOLEAN
      BY <2>5, <2>7, Zenon
    <3>4. TrackerInv' /\ StreamInv'
      BY <1>1, <1>2, <2>2, <2>3, <2>5, <2>7, <3>2, <3>3, TrackerMoves, WireRead, Zenon
    <3>5. n < q /\ (TimestampsOrdered => \A f \in Visible(log, Home) : n < f.seq => q <= f.seq)
      <4>1. CASE tracker.has
        <5>1. q = n + 1
          BY <1>1, <1>3, <2>3, <2>5, <2>7, <4>1, Zenon DEF TrackerInv
        <5>2. \A f \in Visible(log, Home) : f.seq \in Nat
          BY <1>1, Zenon DEF LogInv, Visible
        <5> QED
          BY <1>4, <5>1, <5>2
      <4>2. CASE ~tracker.has
        <5>1. FirstAfter(n, e)
          BY <1>1, <1>2, <1>3, <1>6, <4>2, Zenon DEF StreamInv
        <5> QED
          BY <2>3, <5>1, Zenon DEF FirstAfter
      <4> QED
        BY <1>1, <4>1, <4>2, Zenon DEF TrackerInv
    <3>6. {e} \in SUBSET log
      BY <2>1, Zenon
    <3>7. ASSUME TimestampsOrdered, NEW f \in Visible(Created, Home), InForce(f), f.rev \in view
          PROVE  f.rev \in view'
      BY <1>1, <3>1, <3>6, <3>7, ApplyFacts, Zenon
    <3>8. cursor'.seq \in Nat /\ cursor.seq <= cursor'.seq
      BY <1>3, <1>4, <2>4, <3>2, <3>5
    <3>9. ReconInv'
      BY <1>1, <1>2, <3>7, <3>8, QuietRecon, Zenon
    <3>10. ASSUME TimestampsOrdered', NEW f \in Visible(Created, Home)', Binds(f, q)'
           PROVE  f.rev \in view'
      <4>1. f \in Visible(Created, Home) /\ Binds(f, q) /\ TimestampsOrdered
        BY <2>2, <2>3, <3>10, BindsStable, LogStable, Zenon
      <4>2. /\ f \in Visible(log, Home) /\ f \in log /\ f.change = "CREATED"
            /\ f.seq <= q /\ f.from = f.at /\ InForce(f) /\ f.seq \in Nat
        BY <1>1, <4>1, Zenon DEF Binds, Visible, Created, LogInv
      <4>3. f.seq <= n \/ (n < f.seq /\ q <= f.seq)
        <5>1. f.seq <= n \/ n < f.seq
          BY <1>4, <4>2
        <5> QED
          BY <3>5, <4>1, <4>2, <5>1, Zenon
      <4>4. CASE f.seq <= n
        BY <1>1, <1>3, <3>7, <4>1, <4>2, <4>4, Zenon DEF NothingSkipped
      <4>5. CASE q <= f.seq
        <5>1. f.seq = q
          BY <2>4, <4>2, <4>5
        <5>2. f = e
          BY <1>1, <2>1, <2>3, <4>2, <5>1, Zenon DEF LogInv
        <5>3. f \in {e}
          BY <5>2, Zenon
        <5> QED
          BY <1>1, <3>1, <3>6, <4>1, <4>2, <5>3, ApplyFacts, Zenon
      <4> QED
        BY <4>3, <4>4, <4>5, Zenon
    <3>11. NothingSkipped'
      BY <3>2, <3>10, Zenon DEF NothingSkipped, Binds
    <3> QED
      BY <3>4, <3>9, <3>11, Zenon DEF Kept
  <2> QED
    BY <2>6, <2>7, Zenon
<1> QED
  BY <1>5, <1>6, Zenon

(* A connection that ends leaves nothing to read.                          *)
LEMMA StreamEnds ==
    ASSUME session' = Closed, wire' = <<>>
    PROVE  StreamInv'
<1>1. /\ session' = [phase |-> session'.phase, cursor |-> session'.cursor,
                       retained |-> session'.retained, batch |-> session'.batch]
      /\ session'.phase = "CLOSED" /\ session'.phase # "WRITTEN" /\ session'.batch \in Seq(log')
      /\ wire' \in Seq(log' \cup {GapEvent}) /\ 1 .. Len(wire') = {}
  BY DEF Closed
<1> QED
  BY <1>1, Zenon DEF StreamInv, StreamOpen

(* A broken stream.                                                        *)
LEMMA BreakKeeps == ASSUME RInv, LogStep, BreakStream PROVE Kept'
<1>1. TrackerInv
  BY Zenon DEF RInv
<1>2. /\ tracker' = tracker /\ cursor' = cursor /\ view' = view /\ recon' = recon
      /\ session' = Closed /\ wire' = <<>>
  BY Zenon DEF BreakStream, gatewayVars
<1> QED
  BY <1>1, <1>2, GatewayStays, QuietTracker, StreamEnds, Zenon DEF Kept

(* A lost response.                                                        *)
LEMMA LoseKeeps == ASSUME RInv, LogStep, LoseResponse PROVE Kept'
<1>1. LogInv /\ TrackerInv /\ StreamInv /\ NothingSkipped /\ Behind(cursor.seq)
  BY Zenon DEF RInv, TrackerInv
<1>2. /\ tracker' = tracker /\ cursor' = cursor /\ view' = view /\ recon' = Idle
      /\ session' = session /\ wire' = wire
  BY Zenon DEF LoseResponse, gatewayVars
<1> QED
  BY <1>1, <1>2, QuietTracker, QuietStream, SkipStable, IdleKeeps, Zenon DEF Kept

(* A restart: the persisted view and cursor stay, the rest is lost.        *)
LEMMA RestartKeeps == ASSUME RInv, LogStep, RestartGateway PROVE Kept'
<1>1. LogInv /\ TrackerInv /\ StreamInv /\ NothingSkipped /\ Behind(cursor.seq)
  BY Zenon DEF RInv, TrackerInv
<1>2. /\ tracker' = NewTracker /\ cursor' = cursor /\ view' = view /\ recon' = Idle
      /\ session' = Closed /\ wire' = <<>>
  BY Zenon DEF RestartGateway
<1>3. PICK n : n = cursor.seq
  BY Zenon
<1>4. Behind(n)' /\ n = cursor'.seq
  BY <1>1, <1>2, <1>3, LogStable, Zenon
<1>5. Behind(cursor.seq)'
  BY <1>4, Zenon DEF Behind
<1>6. /\ IsTracker(tracker') /\ tracker'.has = FALSE /\ tracker'.seq = 0
      /\ tracker'.epochs.security = 0
  BY <1>2 DEF NewTracker, IsTracker, ZeroEpochs, EpochField
<1>7. TrackerInv'
  BY <1>5, <1>6, Zenon DEF TrackerInv
<1> QED
  BY <1>1, <1>2, <1>7, StreamEnds, SkipStable, IdleKeeps, Zenon DEF Kept

(* The log and the clock move, or nothing does.                            *)
LEMMA LogKeeps ==
    ASSUME RInv, LogStep, UNCHANGED <<gatewayVars, serverVars>>
    PROVE  Kept'
<1>1. TrackerInv /\ StreamInv
  BY Zenon DEF RInv
<1>2. /\ tracker' = tracker /\ cursor' = cursor /\ view' = view /\ recon' = recon
      /\ session' = session /\ wire' = wire
  BY Zenon DEF gatewayVars, serverVars
<1> QED
  BY <1>1, <1>2, GatewayStays, QuietTracker, QuietStream, Zenon DEF Kept

-----------------------------------------------------------------------------
(* The theorems *)

(* Initially nothing was revoked, read or asked for.                       *)
LEMMA InitRevocation == Init => RInv
<1> SUFFICES ASSUME Init PROVE RInv
  BY Zenon
<1>1. /\ log = {} /\ pending = {} /\ sequence = 0 /\ clock = 0 /\ view = {}
      /\ cursor = [seq |-> 0, epochs |-> ZeroEpochs] /\ tracker = NewTracker
      /\ session = Closed /\ wire = <<>> /\ recon = Idle
  BY Zenon DEF Init, LogInit
<1>2. LogInv
  <2>1. IsFiniteSet(log) /\ clock \in Nat /\ sequence \in Nat
    BY <1>1, FS_EmptySet
  <2> QED
    BY <1>1, <2>1, Zenon DEF LogInv
<1>3. TrackerInv
  <2>1. /\ IsTracker(tracker) /\ tracker.has = FALSE /\ tracker.seq = 0 /\ cursor.seq = 0
        /\ tracker.epochs.security = 0 /\ 0 \in Nat
    BY <1>1 DEF NewTracker, IsTracker, ZeroEpochs, EpochField
  <2> QED
    BY <2>1, Zenon DEF TrackerInv, Behind
<1>4. StreamInv /\ BoundaryInv
  <2>1. /\ session = [phase |-> session.phase, cursor |-> session.cursor,
                        retained |-> session.retained, batch |-> session.batch]
        /\ session.phase = "CLOSED" /\ session.phase # "WRITTEN" /\ session.phase # "CHECKED"
        /\ session.batch \in Seq(log)
        /\ wire \in Seq(log \cup {GapEvent}) /\ 1 .. Len(wire) = {}
    BY <1>1 DEF Closed
  <2> QED
    BY <1>1, <2>1, Zenon DEF StreamInv, StreamOpen, BoundaryInv
<1>5. ReconInv
  <2>1. recon.phase = "IDLE"
    BY <1>1 DEF Idle
  <2>2. recon.phase # "HEAD" /\ recon.phase # "REPLY"
    BY <2>1
  <2> QED
    BY <2>1, <2>2, Zenon DEF ReconInv
<1>6. NothingSkipped
  BY <1>1, Zenon DEF NothingSkipped, Visible, Created
<1> QED
  BY <1>2, <1>3, <1>4, <1>5, <1>6, Zenon DEF RInv

(* Every step of the system keeps the invariant.                           *)
LEMMA NextRevocation == RInv /\ [Next]_vars => RInv'
<1> SUFFICES ASSUME RInv, [Next]_vars PROVE RInv'
  BY Zenon
<1>1. LogStep
  BY NextLog, Zenon DEF RInv
<1>2. LogInv'
  BY <1>1, Zenon DEF LogStep
<1>3. Kept'
  <2>1. CASE Change
    BY <1>1, <2>1, LogKeeps, Zenon DEF Change
  <2>2. CASE Tick
    BY <1>1, <2>2, LogKeeps, Zenon DEF Tick
  <2>3. CASE UNCHANGED vars
    BY <1>1, <2>3, LogKeeps, Zenon DEF vars
  <2>4. CASE OpenStream
    BY <1>1, <2>4, OpenKeeps, Zenon
  <2>5. CASE Serve
    BY <1>1, <2>5, PageKeeps, SendKeeps, CheckpointKeeps, PollKeeps, Zenon DEF Serve
  <2>6. CASE ReceiveEvent
    BY <1>1, <2>6, ReceiveKeeps, Zenon
  <2>7. CASE Reconcile
    BY <1>1, <2>7, BeginKeeps, ReadKeeps, ApplyKeeps, Zenon DEF Reconcile
  <2>8. CASE Fault
    BY <1>1, <2>8, BreakKeeps, LoseKeeps, RestartKeeps, Zenon DEF Fault
  <2> QED
    BY <2>1, <2>2, <2>3, <2>4, <2>5, <2>6, <2>7, <2>8, Zenon DEF Next
<1>4. BoundaryInv'
  BY <1>1, BoundaryStep, Zenon
<1> QED
  BY <1>2, <1>3, <1>4, Zenon DEF RInv, Kept

(* The inductive invariant holds of every behaviour: changes commit in the *)
(* order of their numbers, the tracker stands at the persisted cursor, the *)
(* stream starts with the entry after it, and a reconciliation in flight   *)
(* covers the head it names.                                               *)
THEOREM RevocationInvariantHolds == Spec => []RInv
<1>1. Init => RInv
  BY InitRevocation
<1>2. RInv /\ [Next]_vars => RInv'
  BY NextRevocation
<1> QED
  BY <1>1, <1>2, PTL DEF Spec

(* A gateway misses no revocation its persisted cursor has passed, for     *)
(* every batch size, longest delta, retention and number of faults.        *)
THEOREM RevocationsAreNotSkipped == Spec => []NothingSkipped
<1>1. RInv => NothingSkipped
  BY Zenon DEF RInv
<1> QED
  BY <1>1, RevocationInvariantHolds, PTL

(* A gateway whose tracker reports authoritative state with the security   *)
(* epoch of the authority enforces every revocation in force.              *)
THEOREM CurrentEpochsAreEnough == Spec => []CurrentEpochsMeanCurrentView
<1>1. RInv => CurrentEpochsMeanCurrentView
  <2> SUFFICES ASSUME RInv, TimestampsOrdered, HasAuthoritativeState(tracker),
                      tracker.epochs.security = Epochs(Home).security,
                      NEW e \in Visible(Created, Home), e.from = e.at, InForce(e)
               PROVE  e.rev \in view
    BY Zenon DEF CurrentEpochsMeanCurrentView
  <2>1. LogInv /\ TrackerInv /\ NothingSkipped
    BY Zenon DEF RInv
  <2>2. tracker.seq = cursor.seq /\ Counted(tracker.epochs.security, tracker.seq)
    BY <2>1, Zenon DEF TrackerInv, HasAuthoritativeState
  <2>3. tracker.epochs.security = Cardinality(log)
    BY DEF Epochs
  <2>4. /\ e \in Visible(log, Home) /\ e.epochs.security \in Nat /\ e.seq \in Nat
        /\ e.epochs.security <= Cardinality(log) /\ cursor.seq \in Nat
    BY <2>1, Zenon DEF Visible, Created, LogInv, TrackerInv, Behind
  <2>5. Cardinality(log) \in Nat
    BY <2>1, FS_CardinalityType, Zenon DEF LogInv
  <2>6. cursor.seq < e.seq => Cardinality(log) < e.epochs.security
    BY <2>2, <2>3, <2>4, Zenon DEF Counted
  <2>7. e.seq <= cursor.seq
    BY <2>4, <2>5, <2>6
  <2> QED
    BY <2>1, <2>7, Zenon DEF NothingSkipped
<1> QED
  BY <1>1, RevocationInvariantHolds, PTL

=============================================================================
