-------------------------- MODULE RevocationFreshness --------------------------
(***************************************************************************)
(* The process-local freshness state of one tenant                         *)
(* (internal/application/revocation_freshness.go): the last fully applied  *)
(* sequence and epochs, the monotonic instant of the last observation, the *)
(* known authority head and whether a gap was seen.  A state that was only *)
(* tracked and a state that does not exist behave alike.                   *)
(***************************************************************************)
EXTENDS Integers

EpochField == {"security", "policy", "revocation", "agent"}
ZeroEpochs == [f \in EpochField |-> 0]

NewTracker ==
    [seq |-> 0, epochs |-> ZeroEpochs, observed |-> 0, head |-> 0,
     gap |-> FALSE, has |-> FALSE]

Larger(a, b) == IF a >= b THEN a ELSE b

EpochRegresses(next, previous) == \E f \in EpochField : next[f] < previous[f]
EpochAdvances(next, previous) == \E f \in EpochField : next[f] > previous[f]
MergeEpochs(current, observed) ==
    [f \in EpochField |-> Larger(current[f], observed[f])]

\* What record makes of an observation; the monotonic clock does not regress.
RecordOutcome(t, seq, epochs, stream) ==
    CASE seq < t.seq \/ epochs.security < t.epochs.security -> "REGRESSION"
      [] ~ stream /\ EpochRegresses(epochs, t.epochs) -> "REGRESSION"
      [] stream /\ t.has /\ seq = t.seq /\ EpochAdvances(epochs, t.epochs) -> "REGRESSION"
      [] stream /\ t.has /\ seq = t.seq -> "DUPLICATE"
      [] stream /\ t.has /\ seq > t.seq + 1 -> "GAP"
      [] OTHER -> "ACCEPTED"

\* The state record leaves behind.
Recorded(t, seq, epochs, stream, elapsed) ==
    LET outcome == RecordOutcome(t, seq, epochs, stream) IN
    CASE outcome = "GAP" -> [t EXCEPT !.head = Larger(@, seq), !.gap = TRUE]
      [] outcome = "ACCEPTED" ->
            [seq |-> seq, epochs |-> MergeEpochs(t.epochs, epochs),
             observed |-> elapsed, head |-> Larger(t.head, seq),
             gap |-> stream /\ t.gap, has |-> TRUE]
      [] OTHER -> t

\* RecordGap with the head the tracker already knows.
GapRecorded(t) == [t EXCEPT !.gap = TRUE]

\* Snapshot: HasAuthoritativeState, and the age that goes with it.
HasAuthoritativeState(t) == t.has /\ ~ t.gap /\ t.head <= t.seq

Age(t, now) == now - t.observed
=============================================================================
