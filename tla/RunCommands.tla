----------------------------- MODULE RunCommands -----------------------------
(***************************************************************************)
(* POST /v1/runs/{run_id}/signals and /cancel on one run:                  *)
(* internal/adapters/httpserver/run_signal.go and run_cancel.go over       *)
(* internal/application and internal/adapters/postgres files of the same   *)
(* names, and the idempotency records of the callers.                      *)
(*                                                                         *)
(* A request acquires its record, has the command authorised, commits the  *)
(* command in one transaction and stores the answer in the record in       *)
(* another.  Requests overlap, stop anywhere, outlive the lease of their   *)
(* record and are retried.  A request is [route, principal, key, body,     *)
(* expected]; body stands for type and payload or reason code, and         *)
(* expected = 0 for no expected_state_version.                             *)
(***************************************************************************)
EXTENDS RunLifecycle, Idempotency, Sequences

CONSTANTS
    Attempt,          \* HTTP requests that can be in flight together
    Command,          \* the requests callers send and repeat
    Key,              \* idempotency keys without the prefix "cancel:"
    Move,             \* states workers and the governor move the run to
    Lease, TTL,       \* of the idempotency records
    MaxTime,          \* bound: the clock stops here
    MaxTokens,        \* bound: acquisitions of records
    MaxVersion        \* bound: run versions reached by others than callers

Route == {"signal", "cancel"}
CancelKey(k) == <<"cancel:", k>>
AnyKey == Key \cup {CancelKey(k) : k \in Key}

(* The hash covers the run and the whole body.                             *)
HashOf(q) == <<q.body, q.expected>>

(* What is answered and stored: the event of a signal or, after a          *)
(* cancellation, the state of the run.                                     *)
Result == [event : Nat] \cup [state : RunState]
Record == RecordOf({HashOf(q) : q \in Command}, Result)

ASSUME RunCommandsAssumption ==
    /\ Command \subseteq [route : Route, principal : STRING, key : AnyKey, body : STRING,
                          expected : Nat]
    /\ \A q \in Command : q.route = "cancel" => q.key \in Key
    /\ Move \subseteq RunState
    /\ Lease \in Nat \ {0} /\ TTL \in Nat /\ Lease <= TTL
    /\ MaxTime \in Nat /\ MaxTokens \in Nat /\ MaxVersion \in Nat
    /\ NoRecord \notin Record

VARIABLES
    time,
    run,        \* [state, version, updated]: the run's row
    events,     \* run_events: [type, key, by, body] or the state that was reached
    signals,    \* run_signals: [key, event], event 0 when the event does not name the signal
    records,    \* idempotency records by scope
    tokens,     \* owner tokens issued so far
    attempt,    \* requests in flight
    answers     \* history: 2xx answers, as [command, result]

commandVars == <<time, run, events, signals, records, tokens, attempt, answers>>

Scope == {[principal |-> q.principal, route |-> q.route, key |-> q.key] : q \in Command}
ScopeOf(q) == [principal |-> q.principal, route |-> q.route, key |-> q.key]
Idle == [pc |-> "idle"]

CommandsTypeOK ==
    /\ time \in 0..MaxTime
    /\ run.state \in RunState /\ run.version \in 1..MaxInt64 /\ run.updated \in 0..MaxTime
    /\ \A s \in signals : s.key \in AnyKey /\ s.event \in 0..Len(events)
    /\ tokens \in 0..MaxTokens
    /\ \A a \in Attempt : attempt[a] # Idle => attempt[a].command \in Command
    /\ \A x \in answers : x.command \in Command

CommandsInit ==
    /\ time = 0
    /\ run = [state |-> "RUNNING", version |-> 1, updated |-> 0]
    /\ events = <<[type |-> "run.admitted"]>>
    /\ signals = {}
    /\ records = [s \in Scope |-> NoRecord]
    /\ tokens = 0
    /\ attempt = [a \in Attempt |-> Idle]
    /\ answers = {}

-----------------------------------------------------------------------------
Steps(a, next) == attempt' = [attempt EXCEPT ![a] = next]

(* The upsert of AcquireIdempotency.                                       *)
AcquireRecord(a, q) ==
    /\ attempt[a] = Idle
    /\ IF Acquirable(records[ScopeOf(q)], HashOf(q), time)
       THEN /\ tokens < MaxTokens
            /\ tokens' = tokens + 1
            /\ records' = [records EXCEPT ![ScopeOf(q)] =
                              AcquiredRecord(HashOf(q), tokens', time, Lease, TTL)]
            /\ Steps(a, [pc |-> "acquired", command |-> q, token |-> tokens'])
       ELSE /\ Steps(a, [pc |-> "contended", command |-> q])
            /\ UNCHANGED <<records, tokens>>
    /\ UNCHANGED <<time, run, events, signals, answers>>

(* The handlers validate their input, read the clock and acquire the       *)
(* record of the caller's key on their route.                              *)
RunSignalHandler(a, q) == q.route = "signal" /\ AcquireRecord(a, q)

RunCancellationHandler(a, q) == q.route = "cancel" /\ AcquireRecord(a, q)

(* The second statement of AcquireIdempotency; a completed record answers  *)
(* with what it stores.                                                    *)
replayRunResponse(a) ==
    /\ attempt[a].pc = "contended"
    /\ LET q == attempt[a].command
       IN  answers' = IF ContendedOutcome(records[ScopeOf(q)], HashOf(q)) = "REPLAY"
                      THEN answers \cup {[command |-> q, result |-> records[ScopeOf(q)].response]}
                      ELSE answers
    /\ Steps(a, Idle)
    /\ UNCHANGED <<time, run, events, signals, records, tokens>>

(* The services read the run and the clock and ask policy about what they  *)
(* read; the refusals of this step are FailRecord.                         *)
Decided(a) ==
    /\ attempt[a].pc = "acquired"
    /\ Steps(a, [pc |-> "decided", command |-> attempt[a].command, token |-> attempt[a].token,
                 at |-> time, seen |-> run.state])
    /\ UNCHANGED <<time, run, events, signals, records, tokens, answers>>

SignalService(a) == Decided(a) /\ attempt[a].command.route = "signal"

CancelService(a) == Decided(a) /\ attempt[a].command.route = "cancel"

-----------------------------------------------------------------------------
Failing(a) ==
    /\ Steps(a, [pc |-> "failing", command |-> attempt[a].command, token |-> attempt[a].token])
    /\ UNCHANGED <<run, events, signals>>

Applied(a, result) ==
    Steps(a, [pc |-> "applied", command |-> attempt[a].command, token |-> attempt[a].token,
              result |-> result])

Cancelled(a) ==
    Steps(a, [pc |-> "cancelled", command |-> attempt[a].command, token |-> attempt[a].token,
              seen |-> attempt[a].seen])

Refused(q) ==
    \/ Terminal(run.state)
    \/ q.expected # 0 /\ q.expected # run.version

(* Slip: the run's last event is taken for the signal's.                   *)
LastEvent(s) == Len(events)

(* The event whose payload names the signal.                               *)
loadSignalEvent(s) == s.event

(* AppendRunSignal, one transaction under the run's lock.  A key that was  *)
(* used before, by any caller and with any payload, answers with the event *)
(* it stored then; a cancellation's event names no signal and cannot be    *)
(* loaded.                                                                 *)
AppendRunSignal(a) ==
    LET q == attempt[a].command
        stored == {s \in signals : s.key = q.key}
    IN  /\ attempt[a].pc = "decided"
        /\ q.route = "signal"
        /\ \/ Refused(q) /\ Failing(a)
           \/ /\ ~Refused(q)
              /\ \E s \in stored :
                    IF s.event = 0
                    THEN Failing(a)
                    ELSE /\ Applied(a, [event |-> loadSignalEvent(s)])
                         /\ UNCHANGED <<run, events, signals>>
           \/ /\ ~Refused(q)
              /\ stored = {}
              /\ events' = Append(events, [type |-> "run.signal.accepted",
                                           key |-> q.key, by |-> q.principal,
                                           body |-> q.body])
              /\ signals' = signals \cup {[key |-> q.key, event |-> Len(events')]}
              /\ Applied(a, [event |-> Len(events')])
              /\ UNCHANGED run
        /\ UNCHANGED <<time, records, tokens, answers>>

(* CancelRun, one transaction under the run's lock.  A terminal run is     *)
(* left alone and counts as success; UNIQUE (run, key) rolls back a        *)
(* cancellation whose key a signal has used.  The refusal of a run whose   *)
(* fencing tokens are used up is a FailRecord of the request decided.      *)
CancelRun(a) ==
    LET q == attempt[a].command
        expected == IF q.expected = 0 THEN run.version ELSE q.expected
        accepted == Accepts(run, "CANCELLED", "CALLER", expected, attempt[a].at)
        taken == \E s \in signals : s.key = CancelKey(q.key)
    IN  /\ attempt[a].pc = "decided"
        /\ q.route = "cancel"
        /\ \/ Terminal(run.state) /\ Cancelled(a) /\ UNCHANGED <<run, events, signals>>
           \/ ~Terminal(run.state) /\ (~accepted \/ taken) /\ Failing(a)
           \/ /\ accepted /\ ~taken
              /\ run' = Moved(run, "CANCELLED", attempt[a].at)
              /\ events' = Append(events, [type |-> "run.cancelled"])
              /\ signals' = signals \cup {[key |-> CancelKey(q.key), event |-> 0]}
              /\ Cancelled(a)
        /\ UNCHANGED <<time, records, tokens, answers>>

(* Slip: the answer is made from the row the service had read before.      *)
StateAsSeen(a) == attempt[a].seen

(* GetRun after the commit, for the body of the answer.                    *)
StateAfterCommit(a) == run.state

GetRun(a) ==
    /\ attempt[a].pc = "cancelled"
    /\ Applied(a, [state |-> StateAfterCommit(a)])
    /\ UNCHANGED <<time, run, events, signals, records, tokens, answers>>

(* CompleteIdempotency.  The acknowledgement of its commit may be lost;    *)
(* then, and when the record has another owner by now, the answer is 503.  *)
CompleteRecord(a) ==
    LET x == attempt[a]
        s == ScopeOf(x.command)
    IN  /\ x.pc = "applied"
        /\ IF Owns(records[s], x.token)
           THEN /\ records' = [records EXCEPT ![s] = CompletedRecord(@, x.result, time)]
                /\ answers' \in {answers,
                       answers \cup {[command |-> x.command, result |-> x.result]}}
           ELSE UNCHANGED <<records, answers>>
        /\ Steps(a, Idle)
        /\ UNCHANGED <<time, run, events, signals, tokens>>

(* FailIdempotency on the handler's error path, also when policy denies or *)
(* a statement fails.                                                      *)
FailRecord(a) ==
    /\ attempt[a].pc \in {"acquired", "decided", "failing", "cancelled"}
    /\ records' = [records EXCEPT ![ScopeOf(attempt[a].command)] =
                      FailedRecord(@, attempt[a].token, time)]
    /\ Steps(a, Idle)
    /\ UNCHANGED <<time, run, events, signals, tokens, answers>>

(* The process dies or the request's context is cancelled.                 *)
AbandonCommand(a) ==
    /\ attempt[a] # Idle
    /\ Steps(a, Idle)
    /\ UNCHANGED <<time, run, events, signals, records, tokens, answers>>

-----------------------------------------------------------------------------
(* Workers, the governor and reconciliation move the run (RunWorker).      *)
OthersMove(to) ==
    /\ run.version < MaxVersion
    /\ \E actor \in RunActor \ {"CALLER"} : Accepts(run, to, actor, run.version, time)
    /\ run' = Moved(run, to, time)
    /\ events' = Append(events, [type |-> to])
    /\ UNCHANGED <<time, signals, records, tokens, attempt, answers>>

(* applyBudgetExhaustion: two transitions and two events, then PAUSED.     *)
PauseForBudget ==
    LET exhausted == Moved(run, "BUDGET_EXHAUSTED", time)
    IN  /\ run.version + 1 < MaxVersion
        /\ Accepts(run, "BUDGET_EXHAUSTED", "GOVERNOR", run.version, time)
        /\ run' = Moved(exhausted, "PAUSED_FOR_BUDGET", time)
        /\ events' = events \o <<[type |-> "BUDGET_EXHAUSTED"], [type |-> "PAUSED_FOR_BUDGET"]>>
        /\ UNCHANGED <<time, signals, records, tokens, attempt, answers>>

CommandsTick ==
    /\ time < MaxTime
    /\ time' = time + 1
    /\ UNCHANGED <<run, events, signals, records, tokens, attempt, answers>>

CommandsNext ==
    \/ \E a \in Attempt :
          \/ \E q \in Command : RunSignalHandler(a, q) \/ RunCancellationHandler(a, q)
          \/ replayRunResponse(a) \/ SignalService(a) \/ CancelService(a)
          \/ AppendRunSignal(a) \/ CancelRun(a)
          \/ GetRun(a) \/ CompleteRecord(a) \/ FailRecord(a) \/ AbandonCommand(a)
    \/ \E to \in Move : OthersMove(to)
    \/ PauseForBudget
    \/ CommandsTick

-----------------------------------------------------------------------------
(* A caller that is told its cancellation succeeded (200, first answer or  *)
(* replay) is told the state the run ended in, and that state is final:    *)
(* cancellation never reports a run that goes on.                          *)
CancelAnswerIsFinal ==
    \A x \in answers : x.command.route = "cancel" =>
        Terminal(run.state) /\ x.result.state = run.state

(* The accepted signal with the caller's own identity and content.         *)
IsSignalOf(event, q) ==
    event.type = "run.signal.accepted"
        /\ event.key = q.key /\ event.by = q.principal /\ event.body = q.body

(* A signal's key belongs to one caller and one content.                   *)
Sole(q) ==
    \A c \in Command : c.route = "signal" /\ c.key = q.key =>
        c.principal = q.principal /\ c.body = q.body

(* A caller that keeps its key to itself and to one content has its signal *)
(* recorded exactly once, whatever is retried, taken over or lost and      *)
(* whatever others do to the run: every 202 answer, first or replayed,     *)
(* names the one event of the key, and that event is the caller's.         *)
SignalAnswerNamesItsEvent ==
    \A x \in answers : x.command.route = "signal" /\ Sole(x.command) =>
        /\ IsSignalOf(events[x.result.event], x.command)
        /\ \A n \in DOMAIN events :
              events[n].type = "run.signal.accepted" /\ events[n].key = x.command.key
                  => n = x.result.event

(* docs/api/run-lifecycle.md:11-14 scopes keys by principal and has        *)
(* changed content conflict: a 202 answer names an event that records the  *)
(* signal of this caller with this content.                                *)
SignalAnswerIsTheCallers ==
    \A x \in answers : x.command.route = "signal" =>
        IsSignalOf(events[x.result.event], x.command)

=============================================================================
