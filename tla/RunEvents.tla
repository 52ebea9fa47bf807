------------------------------ MODULE RunEvents ------------------------------
(***************************************************************************)
(* GET /v1/runs/{run_id}/events: internal/adapters/httpserver/             *)
(* run_events.go over internal/application/run_events.go and               *)
(* internal/adapters/postgres/run_events.go.  One client follows one run:  *)
(* it connects, receives events with their cursors, is cut off anywhere    *)
(* and connects again with the last cursor it received.                    *)
(*                                                                         *)
(* Transactions on the run append events at consecutive sequences under    *)
(* the run's row lock (RunWorker, RunCommands), so the log is the number   *)
(* of its last event.  No code deletes events; retention is a distance     *)
(* from the last one.                                                      *)
(***************************************************************************)
EXTENDS Integers

CONSTANTS
    Retain,            \* retainedEvents
    EventBatchSize,    \* runEventBatchSize
    MaxEvents,         \* bound: events of the run
    MaxConnects        \* bound: connections of the client

ASSUME RunEventsAssumption ==
    /\ Retain \in Nat \ {0}
    /\ EventBatchSize \in Nat \ {0}
    /\ MaxEvents \in Nat \ {0}
    /\ MaxConnects \in Nat

VARIABLES
    latest,      \* sequence of the run's last event
    allowed,     \* policy allows the client runs.read on the run
    cursor,      \* of the last event the client received; 0: it has none
    stream,      \* the connection
    connects,
    overdue      \* history: batches listed since access was withdrawn

streamVars == <<latest, allowed, cursor, stream, connects, overdue>>

(* connecting: no header was sent yet.  after: the position the handler    *)
(* continues from.  floor: retentionFloor of the window that was read.     *)
Closed == [pc |-> "closed", connecting |-> FALSE, after |-> 0, floor |-> 0, pending |-> {}]
Streams == [pc : {"closed", "authorize", "window", "rows", "relist", "emit"},
            connecting : BOOLEAN, after : Nat, floor : Nat, pending : SUBSET (1..MaxEvents)]

StreamTypeOK ==
    /\ latest \in 1..MaxEvents
    /\ allowed \in BOOLEAN
    /\ cursor \in 0..latest
    /\ stream \in Streams
    /\ connects \in 0..MaxConnects
    /\ overdue \in Nat

(* The run was admitted with its first event.                              *)
StreamInit ==
    /\ latest = 1
    /\ allowed = TRUE
    /\ cursor = 0
    /\ stream = Closed
    /\ connects = 0
    /\ overdue = 0

-----------------------------------------------------------------------------
(* A transaction appends one event, or two (budget exhaustion).            *)
AppendRunEvents ==
    /\ \E n \in {1, 2} : latest' = latest + n
    /\ latest' <= MaxEvents
    /\ UNCHANGED <<allowed, cursor, stream, connects, overdue>>

WithdrawAccess ==
    /\ allowed
    /\ allowed' = FALSE
    /\ UNCHANGED <<latest, cursor, stream, connects, overdue>>

(* The handler has decoded the cursor (it is bound to the run and          *)
(* authenticated, so it is one the client was given).                      *)
Connect ==
    /\ stream.pc = "closed"
    /\ connects < MaxConnects
    /\ connects' = connects + 1
    /\ stream' = [Closed EXCEPT !.pc = "authorize", !.connecting = TRUE, !.after = cursor]
    /\ UNCHANGED <<latest, allowed, cursor, overdue>>

(* Slip: only connecting is authorised.                                    *)
AuthorizedOnConnect == allowed \/ ~stream.connecting

(* RunQuery.Get; a policy that cannot be reached denies (Disconnect).      *)
Authorized == allowed

Authorize ==
    /\ stream.pc = "authorize"
    /\ stream' = IF Authorized THEN [stream EXCEPT !.pc = "window"] ELSE Closed
    /\ UNCHANGED <<latest, allowed, cursor, connects, overdue>>

(* The first statement of ListRunEvents and what Events derives from it.   *)
retentionFloor == IF latest > Retain THEN latest - Retain ELSE 0

ReadWindow ==
    /\ stream.pc = "window"
    /\ stream' = [stream EXCEPT !.pc = "rows", !.floor = retentionFloor]
    /\ UNCHANGED <<latest, allowed, cursor, connects, overdue>>

(* The second statement, some time later: more events may have arrived.    *)
RowsAfter(position) == {e \in 1..latest : position < e /\ e <= position + EventBatchSize}

(* Slip: a cursor outside the window is moved to its beginning.            *)
StaleCursorRestarts(after, floor) == after < floor

(* A client without a cursor starts at the oldest retained event.          *)
StartsAtFloor(after, floor) == after = 0 /\ floor > 0

Counted == overdue' = overdue + (IF allowed THEN 0 ELSE 1)

ListRunEvents ==
    /\ stream.pc = "rows"
    /\ IF StartsAtFloor(stream.after, stream.floor)
       THEN /\ stream' = [stream EXCEPT !.pc = "relist"]
            /\ UNCHANGED <<cursor, overdue>>
       ELSE IF stream.after < stream.floor
       THEN (* ErrRunEventCursorGone: 410 on connecting, and the client    *)
            (* refetches the run; otherwise the stream just ends.          *)
            /\ stream' = Closed
            /\ cursor' = IF stream.connecting THEN 0 ELSE cursor
            /\ UNCHANGED overdue
       ELSE /\ stream' = [stream EXCEPT !.pc = "emit", !.connecting = FALSE,
                                        !.pending = RowsAfter(stream.after)]
            /\ Counted
            /\ UNCHANGED cursor
    /\ UNCHANGED <<latest, allowed, connects>>

(* ListRunEvents again, from the floor of the first window.                *)
ListFromFloor ==
    /\ stream.pc = "relist"
    /\ stream' = [stream EXCEPT !.pc = "emit", !.connecting = FALSE,
                                !.pending = RowsAfter(stream.floor)]
    /\ Counted
    /\ UNCHANGED <<latest, allowed, cursor, connects>>

(* One event is written and flushed, in order.                             *)
encodeSSEEvent ==
    /\ stream.pc = "emit"
    /\ \E e \in stream.pending :
          /\ \A later \in stream.pending : e <= later
          /\ stream' = [stream EXCEPT !.pending = @ \ {e}, !.after = e]
          /\ cursor' = e
    /\ UNCHANGED <<latest, allowed, connects, overdue>>

(* The poll or the heartbeat ticker fires.                                 *)
Poll ==
    /\ stream.pc = "emit"
    /\ stream.pending = {}
    /\ stream' = [stream EXCEPT !.pc = "authorize"]
    /\ UNCHANGED <<latest, allowed, cursor, connects, overdue>>

(* The connection breaks, a write or a statement fails, policy cannot be   *)
(* reached, the server restarts: the stream is gone wherever it was.       *)
Disconnect ==
    /\ stream.pc # "closed"
    /\ stream' = Closed
    /\ UNCHANGED <<latest, allowed, cursor, connects, overdue>>

StreamNext ==
    \/ AppendRunEvents \/ WithdrawAccess \/ Connect \/ Disconnect
    \/ Authorize \/ ReadWindow \/ ListRunEvents \/ ListFromFloor \/ encodeSSEEvent \/ Poll

-----------------------------------------------------------------------------
(* A client never misses an event without being told: whatever is cut off, *)
(* retained or appended meanwhile, it receives the event right after the   *)
(* last one it received, until an answer (410) tells it that its cursor is *)
(* gone and it starts again without one.                                   *)
NoSilentGap ==
    [][cursor # 0 => cursor' \in {0, cursor, cursor + 1}]_streamVars

(* Access that is withdrawn from an open stream ends it: at most one batch *)
(* is listed after the withdrawal, the one whose authorisation had already *)
(* been answered.                                                          *)
WithdrawalEndsStream == overdue <= 1

=============================================================================
