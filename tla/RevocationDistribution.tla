------------------------ MODULE RevocationDistribution ------------------------
(***************************************************************************)
(* Distribution of the revocation log to one gateway of the tenant Home:   *)
(* the resumable event stream and the reconciliation endpoint              *)
(* (internal/application/revocation_distribution.go, its HTTP handler and  *)
(* its repository).  The gateway is outside the repository; it does what   *)
(* docs/contracts/revocation.md asks of it: it feeds a freshness tracker,  *)
(* applies what the tracker accepts, persists its view with its cursor, and *)
(* reconciles periodically and after a gap.                                *)
(*                                                                         *)
(* The connection keeps the order of what was written and may break at any *)
(* point; a reconciliation response may be lost; the gateway may restart.  *)
(* Faults are bounded by MaxFaults.                                        *)
(***************************************************************************)
EXTENDS RevocationLog

CONSTANTS
    Home,
    revocationStreamBatch,   \* changes read per poll
    maxRevocationDelta,      \* longest delta of a reconciliation
    MaxFaults, MaxWire       \* bounds

ASSUME LimitsAssumption == revocationStreamBatch \in Nat /\ maxRevocationDelta \in Nat

VARIABLES
    view,        \* revocations the gateway enforces
    cursor,      \* last applied sequence and epochs, persisted with the view
    tracker,     \* freshness state, lost on a restart
    session,     \* the handler of the stream: its phase, cursor, retention, batch
    wire,        \* what it wrote and the gateway did not read yet
    recon,       \* the reconciliation request being served
    checkpoint,  \* row of gateway_checkpoints
    faults

gatewayVars == <<view, cursor, tracker>>
serverVars == <<session, wire, recon, checkpoint>>
vars == <<clock, logVars, gatewayVars, serverVars, faults>>

Closed == [phase |-> "CLOSED", cursor |-> 0, retained |-> 0, batch |-> <<>>]
StreamOpen == session.phase # "CLOSED"
Idle == [phase |-> "IDLE"]
GapEvent == [gap |-> TRUE]

Init ==
    /\ LogInit
    /\ view = {}
    /\ cursor = [seq |-> 0, epochs |-> ZeroEpochs]
    /\ tracker = NewTracker
    /\ session = Closed
    /\ wire = <<>>
    /\ recon = Idle
    /\ checkpoint = [seq |-> 0, epochs |-> ZeroEpochs]
    /\ faults = 0

-----------------------------------------------------------------------------
(* The server.                                                             *)

\* The condition of the upsert of SaveGatewayCheckpoint.
CheckpointAccepts(seq, epochs) ==
    /\ checkpoint.seq <= seq
    /\ \A f \in EpochField \ {"agent"} : checkpoint.epochs[f] <= epochs[f]

SaveGatewayCheckpoint(seq, epochs) ==
    checkpoint' = IF CheckpointAccepts(seq, epochs)
                  THEN [seq |-> seq, epochs |-> epochs] ELSE checkpoint

\* The two statements of RevocationChanges for the stream: the boundary that
\* retention leaves, then the page after the cursor.
BoundaryPassed(after) ==
    session' = [phase |-> "CHECKED", cursor |-> after, retained |-> clock - Retention,
                batch |-> <<>>]

Sending(after, page) ==
    session' = [phase |-> "SENDING", cursor |-> after, retained |-> 0, batch |-> page]

\* A GET of the stream with the gateway's cursor: 410, or a session.
OpenStream ==
    /\ ~ StreamOpen
    /\ wire = <<>>
    /\ ~ tracker.gap
    /\ IF CursorGone(Home, cursor.seq, clock - Retention)
       THEN tracker' = GapRecorded(tracker) /\ UNCHANGED session
       ELSE BoundaryPassed(cursor.seq) /\ UNCHANGED tracker
    /\ UNCHANGED <<clock, logVars, view, cursor, wire, recon, checkpoint, faults>>

ReadPage ==
    /\ session.phase = "CHECKED"
    /\ Sending(session.cursor,
               RevocationChanges(Home, session.cursor, revocationStreamBatch, session.retained))
    /\ UNCHANGED <<clock, logVars, gatewayVars, wire, recon, checkpoint, faults>>

\* One event of the batch is written ...
SendEvent ==
    /\ session.phase = "SENDING"
    /\ session.batch # <<>>
    /\ Len(wire) < MaxWire
    /\ wire' = Append(wire, Head(session.batch))
    /\ session' = [session EXCEPT !.phase = "WRITTEN"]
    /\ UNCHANGED <<clock, logVars, gatewayVars, recon, checkpoint, faults>>

\* ... and then checkpointed; a refused checkpoint ends the stream.
CheckpointStream ==
    /\ session.phase = "WRITTEN"
    /\ LET e == Head(session.batch) IN
       /\ SaveGatewayCheckpoint(e.seq, e.epochs)
       /\ IF CheckpointAccepts(e.seq, e.epochs)
          THEN Sending(e.seq, Tail(session.batch))
          ELSE session' = Closed
    /\ UNCHANGED <<clock, logVars, gatewayVars, wire, recon, faults>>

\* The next poll; one that fails writes the gap event and ends.
PollStream ==
    /\ session.phase = "SENDING"
    /\ session.batch = <<>>
    /\ IF CursorGone(Home, session.cursor, clock - Retention)
       THEN /\ Len(wire) < MaxWire
            /\ wire' = Append(wire, GapEvent)
            /\ session' = Closed
       ELSE BoundaryPassed(session.cursor) /\ UNCHANGED wire
    /\ UNCHANGED <<clock, logVars, gatewayVars, recon, checkpoint, faults>>

\* Reconcile: the head is read first, the active set and the changes after it.
BeginReconcile ==
    /\ recon.phase = "IDLE"
    /\ recon' = [phase |-> "HEAD", after |-> cursor, now |-> clock,
                 seq |-> LastSequence(Home), epochs |-> Epochs(Home)]
    /\ UNCHANGED <<clock, logVars, gatewayVars, session, wire, checkpoint, faults>>

Ahead ==
    \/ recon.after.seq > recon.seq
    \/ \E f \in EpochField \ {"agent"} : recon.after.epochs[f] > recon.epochs[f]

\* The response names the head read first, whatever the changes hold by now.
ReadChanges ==
    /\ recon.phase = "HEAD"
    /\ LET retainedAfter == recon.now - Retention
           changes == RevocationChanges(Home, recon.after.seq, maxRevocationDelta + 1,
                                        retainedAfter)
           whole == \/ CursorGone(Home, recon.after.seq, retainedAfter)
                    \/ Len(changes) > maxRevocationDelta IN
       IF Ahead
       THEN recon' = Idle /\ UNCHANGED checkpoint
       ELSE /\ SaveGatewayCheckpoint(recon.seq, recon.epochs)
            /\ recon' = IF CheckpointAccepts(recon.seq, recon.epochs)
                        THEN [phase |-> "REPLY", mode |-> IF whole THEN "snapshot" ELSE "delta",
                              seq |-> recon.seq, epochs |-> recon.epochs,
                              active |-> IF whole THEN ActiveRevocations(Home, recon.now) ELSE {},
                              changes |-> IF whole THEN <<>> ELSE changes]
                        ELSE Idle
    /\ UNCHANGED <<clock, logVars, gatewayVars, session, wire, faults>>

-----------------------------------------------------------------------------
(* The gateway (external).                                                 *)

Apply(known, entries) ==
    LET of(change) == {e.rev : e \in {f \in entries : f.change = change}}
    IN  (known \union of("CREATED")) \ of("LIFTED")

ReceiveEvent ==
    /\ wire # <<>>
    /\ wire' = Tail(wire)
    /\ LET e == Head(wire) IN
       IF e = GapEvent
       THEN tracker' = GapRecorded(tracker) /\ UNCHANGED <<view, cursor>>
       ELSE /\ tracker' = Recorded(tracker, e.seq, e.epochs, TRUE, 0)
            /\ IF RecordOutcome(tracker, e.seq, e.epochs, TRUE) = "ACCEPTED"
               THEN /\ view' = Apply(view, {e})
                    /\ cursor' = [seq |-> e.seq, epochs |-> MergeEpochs(cursor.epochs, e.epochs)]
               ELSE UNCHANGED <<view, cursor>>
    /\ UNCHANGED <<clock, logVars, session, recon, checkpoint, faults>>

ApplyReconciliation ==
    /\ recon.phase = "REPLY"
    /\ recon' = Idle
    /\ tracker' = Recorded(tracker, recon.seq, recon.epochs, FALSE, 0)
    /\ IF RecordOutcome(tracker, recon.seq, recon.epochs, FALSE) = "ACCEPTED"
       THEN /\ view' = IF recon.mode = "snapshot" THEN recon.active
                       ELSE Apply(view, Range(recon.changes))
            /\ cursor' = [seq |-> recon.seq, epochs |-> recon.epochs]
       ELSE UNCHANGED <<view, cursor>>
    /\ UNCHANGED <<clock, logVars, session, wire, checkpoint, faults>>

-----------------------------------------------------------------------------
(* Faults and time.                                                        *)

BreakStream ==
    /\ faults < MaxFaults
    /\ StreamOpen \/ wire # <<>>
    /\ session' = Closed
    /\ wire' = <<>>
    /\ faults' = faults + 1
    /\ UNCHANGED <<clock, logVars, gatewayVars, recon, checkpoint>>

LoseResponse ==
    /\ faults < MaxFaults
    /\ recon.phase = "REPLY"
    /\ recon' = Idle
    /\ faults' = faults + 1
    /\ UNCHANGED <<clock, logVars, gatewayVars, session, wire, checkpoint>>

RestartGateway ==
    /\ faults < MaxFaults
    /\ tracker.has
    /\ tracker' = NewTracker
    /\ session' = Closed
    /\ wire' = <<>>
    /\ recon' = Idle
    /\ faults' = faults + 1
    /\ UNCHANGED <<clock, logVars, view, cursor, checkpoint>>

Tick ==
    /\ clock < MaxTime
    /\ clock' = clock + 1
    /\ UNCHANGED <<logVars, gatewayVars, serverVars, faults>>

Change == LogNext /\ UNCHANGED <<gatewayVars, serverVars, faults>>
Serve == ReadPage \/ SendEvent \/ CheckpointStream \/ PollStream
Reconcile == BeginReconcile \/ ReadChanges \/ ApplyReconciliation
Fault == BreakStream \/ LoseResponse \/ RestartGateway

Next == Change \/ OpenStream \/ Serve \/ ReceiveEvent \/ Reconcile \/ Fault \/ Tick

Spec == Init /\ [][Next]_vars

\* A transaction ends, and the gateway keeps reconciling.
Fairness ==
    /\ WF_vars(Change /\ (pending # {}))
    /\ WF_vars(Reconcile)

FairSpec == Spec /\ Fairness

-----------------------------------------------------------------------------
(* Properties.                                                             *)

TypeOK ==
    /\ sequence \in 0 .. MaxSeq
    /\ Cardinality(pending) <= 1
    /\ \A e \in log \union pending : e.seq \in 1 .. sequence
    /\ view \subseteq 1 .. MaxSeq
    /\ cursor.seq \in 0 .. MaxSeq
    /\ faults \in 0 .. MaxFaults

\* Timestamps follow the sequence: what retention by committed_at takes for granted.
TimestampsOrdered ==
    \A e, f \in log : e.seq < f.seq => e.at <= f.at

InForce(e) == e.rev \notin Lifted

\* A gateway misses no revocation it has read past.  Once its persisted cursor
\* covers the log entry of a revocation of its tenant, or of a global one, the
\* revocation is in the view it enforces until it is lifted: whatever
\* combination of batches, broken streams, lost responses, restarts, gaps,
\* deltas and snapshots led there.  (For revocations effective when created, as
\* long as log timestamps follow the sequence.)
NothingSkipped ==
    TimestampsOrdered =>
        \A e \in Visible(Created, Home) :
            e.seq <= cursor.seq /\ e.from = e.at /\ InForce(e) => e.rev \in view

\* The same for every revocation, those scheduled for later included, once they
\* are in effect.
ScheduledRevocationKept ==
    TimestampsOrdered =>
        \A e \in Visible(Created, Home) :
            e.seq <= cursor.seq /\ e.from <= clock /\ InForce(e) => e.rev \in view

\* Equal security epochs mean an equal view.  A gateway whose tracker reports
\* authoritative state and the authority's own security epoch enforces every
\* revocation in force, so comparing epochs is enough to accept its state.
CurrentEpochsMeanCurrentView ==
    /\ TimestampsOrdered
    /\ HasAuthoritativeState(tracker)
    /\ tracker.epochs.security = Epochs(Home).security
    => \A e \in Visible(Created, Home) :
          e.from = e.at /\ InForce(e) => e.rev \in view

\* Every revocation in force reaches the gateway, after any fault the model has.
EveryRevocationArrives ==
    []TimestampsOrdered =>
        \A r \in 1 .. MaxSeq :
            (\E e \in Visible(Created, Home) : e.rev = r /\ e.from = e.at)
                ~> (r \in view \/ r \in Lifted)
=============================================================================
