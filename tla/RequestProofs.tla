--------------------------- MODULE RequestProofs ----------------------------
(***************************************************************************)
(* Proofs about requests that interleave statement by statement: the       *)
(* cancel and signal commands of RunCommands, for every set of callers,    *)
(* keys and requests, and the policy decisions of PolicyDecisions, for     *)
(* every freshness bound, cache lifetime and duration of a refresh.        *)
(***************************************************************************)
EXTENDS PolicyDecisions, RunCommands, TLAPS

(***************************************************************************)
(* Commands on a run.                                                      *)
(***************************************************************************)
CommandSpec == CommandsInit /\ [][CommandsNext]_commandVars

EventType == RunState \cup {"run.admitted", "run.cancelled"}

(* The event that records a signal carries its key, caller and content.    *)
SignalOf(q) ==
    [type |-> "run.signal.accepted", key |-> q.key, by |-> q.principal, body |-> q.body]
Event ==
    [type : EventType] \cup {SignalOf(q) : q \in {c \in Command : c.route = "signal"}}
RunRow == [state : RunState, version : Nat, updated : Nat]
SignalRow == [key : AnyKey, event : Nat]

(* The answer r to a command on a route and key is the right one: the      *)
(* event the key's signal is stored with, or the final state of the run.   *)
Right(route, k, r) ==
    IF route = "signal"
    THEN [key |-> k, event |-> r.event] \in signals /\ r.event # 0
    ELSE Terminal(run.state) /\ r.state = run.state

AttemptInv(x) ==
    /\ x.pc \in {"idle", "contended", "acquired", "decided", "failing", "cancelled", "applied"}
    /\ x.pc # "idle" => x.command \in Command
    /\ x.pc = "contended" => records[ScopeOf(x.command)] # NoRecord
    /\ x.pc = "decided" => x.at \in Nat
    /\ x.pc = "cancelled" => x.command.route = "cancel" /\ Terminal(run.state)
    /\ x.pc = "applied" =>
          x.result \in Result /\ Right(x.command.route, x.command.key, x.result)

RecordInv(s) ==
    records[s] # NoRecord =>
        /\ records[s] \in Record
        /\ records[s].state = "COMPLETED" => Right(s.route, s.key, records[s].response)

(* A key has one row in run_signals, the row of a signal names the event   *)
(* of its key, and every such event has its row.                           *)
SignalsInv ==
    /\ events \in Seq(Event)
    /\ signals \subseteq SignalRow
    /\ \A s, t \in signals : s.key = t.key => s = t
    /\ \A s \in signals : s.event # 0 =>
          /\ s.event \in DOMAIN events
          /\ events[s.event].type = "run.signal.accepted" /\ events[s.event].key = s.key
    /\ \A n \in DOMAIN events : events[n].type = "run.signal.accepted" =>
          [key |-> events[n].key, event |-> n] \in signals

AttemptsInv ==
    /\ attempt = [a \in Attempt |-> attempt[a]]
    /\ \A a \in Attempt : AttemptInv(attempt[a])
AnswersInv ==
    \A x \in answers : x.command \in Command /\ Right(x.command.route, x.command.key, x.result)
RecordsInv ==
    /\ records = [s \in Scope |-> records[s]]
    /\ \A s \in Scope : RecordInv(s)

CommandsInv ==
    /\ time \in Nat /\ tokens \in Nat
    /\ run \in RunRow
    /\ SignalsInv
    /\ RecordsInv
    /\ AttemptsInv
    /\ AnswersInv

(* What appending does to a sequence.                                      *)
LEMMA AppendProperties ==
    ASSUME NEW S, NEW s \in Seq(S), NEW e \in S
    PROVE  /\ Append(s, e) \in Seq(S)
           /\ Len(Append(s, e)) = Len(s) + 1
           /\ \A i \in 1 .. Len(s) : Append(s, e)[i] = s[i]
           /\ Append(s, e)[Len(s) + 1] = e
OBVIOUS

(* A run row that moves to another state.                                  *)
LEMMA MovedRow ==
    ASSUME NEW r \in RunRow, NEW to \in RunState, NEW at \in Nat
    PROVE  Moved(r, to, at) \in RunRow /\ Moved(r, to, at).state = to
<1>1. PICK w : w = Moved(r, to, at)
  BY Zenon
<1>2. w = [state |-> to, version |-> r.version + 1, updated |-> at]
  BY <1>1, Zenon DEF Moved, RunRow
<1> QED BY <1>1, <1>2 DEF RunRow

(* The parts of a command.                                                 *)
LEMMA CommandShape ==
    ASSUME NEW q \in Command
    PROVE  /\ ScopeOf(q) \in Scope /\ HashOf(q) \in {HashOf(r) : r \in Command}
           /\ ScopeOf(q).route = q.route /\ ScopeOf(q).key = q.key
           /\ q.route \in {"signal", "cancel"} /\ q.key \in AnyKey /\ q.body \in STRING
           /\ q.route = "cancel" => CancelKey(q.key) \in AnyKey
BY RunCommandsAssumption, Zenon DEF Scope, ScopeOf, Route, AnyKey

(* What no step does: delete a signal or a record, or move a run that has  *)
(* ended.                                                                  *)
Monotone ==
    /\ signals \subseteq signals'
    /\ run'.state = run.state \/ ~Terminal(run.state)
    /\ \A s \in Scope : records[s] # NoRecord => records'[s] # NoRecord

(* So an answer that was right stays right.                                *)
LEMMA StaysRight ==
    ASSUME Monotone
    PROVE  /\ \A route, k, r : Right(route, k, r) => Right(route, k, r)'
           /\ \A x : AttemptInv(x) => AttemptInv(x)'
<1>1. \A route, k, r : Right(route, k, r) => Right(route, k, r)'
  BY Zenon DEF Monotone, Right
<1>2. ASSUME NEW x, AttemptInv(x) PROVE AttemptInv(x)'
  <2>1. x.pc = "contended" => records'[ScopeOf(x.command)] # NoRecord
    BY <1>2, CommandShape, Zenon DEF AttemptInv, Monotone
  <2>2. x.pc = "cancelled" => Terminal(run'.state)
    BY <1>2, Zenon DEF AttemptInv, Monotone
  <2> QED BY <1>1, <1>2, <2>1, <2>2, Zenon DEF AttemptInv
<1> QED BY <1>1, <1>2, Zenon

(* One request moves on, the others keep what they have.                   *)
LEMMA StepKeeps ==
    ASSUME AttemptsInv, Monotone, NEW a \in Attempt, NEW x, Steps(a, x), AttemptInv(x)'
    PROVE  AttemptsInv'
<1>1. /\ attempt' = [b \in Attempt |-> attempt'[b]] /\ attempt'[a] = x
      /\ \A b \in Attempt : b # a => attempt'[b] = attempt[b]
  BY Zenon DEF Steps, AttemptsInv
<1> QED BY <1>1, StaysRight, Zenon DEF AttemptsInv

(* One record is replaced, the others keep what they have.                 *)
LEMMA RecordKeeps ==
    ASSUME RecordsInv, signals \subseteq signals', run'.state = run.state \/ ~Terminal(run.state),
           NEW t \in Scope, NEW r \in Record, records' = [records EXCEPT ![t] = r],
           r.state = "COMPLETED" => Right(t.route, t.key, r.response)'
    PROVE  RecordsInv' /\ Monotone
<1>1. /\ records' = [s \in Scope |-> records'[s]] /\ records'[t] = r
      /\ \A s \in Scope : s # t => records'[s] = records[s]
  BY Zenon DEF RecordsInv
<1>2. Monotone
  BY <1>1, RunCommandsAssumption, Zenon DEF Monotone
<1>3. ASSUME NEW s \in Scope PROVE RecordInv(s)'
  <2>1. CASE s = t
    BY <1>1, <2>1, Zenon DEF RecordInv
  <2>2. CASE s # t
    BY <1>1, <1>2, <2>2, StaysRight, Zenon DEF RecordsInv, RecordInv
  <2> QED BY <2>1, <2>2, Zenon
<1> QED BY <1>1, <1>2, <1>3, Zenon DEF RecordsInv

(* Records that do not change stay right.                                  *)
LEMMA SameRecords ==
    ASSUME RecordsInv, UNCHANGED records, signals \subseteq signals',
           run'.state = run.state \/ ~Terminal(run.state)
    PROVE  RecordsInv' /\ Monotone
<1>1. Monotone
  BY Zenon DEF Monotone
<1> QED BY <1>1, StaysRight, Zenon DEF RecordsInv, RecordInv

(* So do the answers given.                                                *)
LEMMA SameAnswers ==
    ASSUME AnswersInv, Monotone, UNCHANGED answers
    PROVE  AnswersInv'
BY StaysRight, Zenon DEF AnswersInv

(* An event is appended that names no signal, ...                          *)
LEMMA QuietEvent ==
    ASSUME SignalsInv, NEW e \in [type : EventType], events' = Append(events, e),
           UNCHANGED signals
    PROVE  SignalsInv'
<1>0. e \in Event /\ e.type # "run.signal.accepted"
  BY Zenon DEF Event, EventType, RunState
<1>1. /\ events' \in Seq(Event) /\ Len(events') = Len(events) + 1 /\ Len(events) \in Nat
      /\ \A n \in 1 .. Len(events) : events'[n] = events[n]
      /\ events'[Len(events) + 1] = e
  BY <1>0, AppendProperties DEF SignalsInv
<1>2. DOMAIN events = 1 .. Len(events) /\ DOMAIN events' = 1 .. Len(events')
  BY <1>1 DEF SignalsInv
<1>3. \A n \in DOMAIN events' :
         n = Len(events) + 1 \/ (n \in DOMAIN events /\ events'[n] = events[n])
  BY <1>1, <1>2
<1>4. \A n \in DOMAIN events : n \in DOMAIN events' /\ events'[n] = events[n]
  BY <1>1, <1>2
<1> QED BY <1>0, <1>1, <1>3, <1>4, ZenonT(30) DEF SignalsInv

(* ... or with a row of run_signals that has a new key: the row of the     *)
(* event's signal, or a cancellation's.                                    *)
LEMMA SignalEvent ==
    ASSUME SignalsInv, NEW e \in Event, events' = Append(events, e),
           NEW row \in SignalRow, signals' = signals \cup {row},
           \A s \in signals : s.key # row.key,
           \/ row.event = 0 /\ e.type # "run.signal.accepted"
           \/ /\ row.event = Len(events) + 1
              /\ e.type = "run.signal.accepted" /\ e.key = row.key
    PROVE  SignalsInv'
<1>1. /\ events' \in Seq(Event) /\ Len(events') = Len(events) + 1 /\ Len(events) \in Nat
      /\ \A n \in 1 .. Len(events) : events'[n] = events[n]
      /\ events'[Len(events) + 1] = e
  BY AppendProperties DEF SignalsInv
<1>2. DOMAIN events = 1 .. Len(events) /\ DOMAIN events' = 1 .. Len(events')
  BY <1>1 DEF SignalsInv
<1>3. \A n \in DOMAIN events' :
         n = Len(events) + 1 \/ (n \in DOMAIN events /\ events'[n] = events[n])
  BY <1>1, <1>2
<1>4. /\ \A n \in DOMAIN events : n \in DOMAIN events' /\ events'[n] = events[n]
      /\ Len(events) + 1 \in DOMAIN events'
  BY <1>1, <1>2
<1>5. row = [key |-> row.key, event |-> row.event]
  BY Zenon DEF SignalRow
<1>6. \A s, t \in signals' : s.key = t.key => s = t
  BY Zenon DEF SignalsInv
<1>7. \A s \in signals' : s.event # 0 =>
          /\ s.event \in DOMAIN events'
          /\ events'[s.event].type = "run.signal.accepted" /\ events'[s.event].key = s.key
  <2>1. ASSUME NEW s \in signals, s.event # 0
        PROVE  /\ s.event \in DOMAIN events'
               /\ events'[s.event].type = "run.signal.accepted" /\ events'[s.event].key = s.key
    BY <2>1, <1>4, Zenon DEF SignalsInv
  <2>2. row.event # 0 =>
          /\ row.event \in DOMAIN events'
          /\ events'[row.event].type = "run.signal.accepted" /\ events'[row.event].key = row.key
    BY <1>1, <1>4, Zenon
  <2> QED BY <2>1, <2>2, Zenon
<1>8. \A n \in DOMAIN events' : events'[n].type = "run.signal.accepted" =>
          [key |-> events'[n].key, event |-> n] \in signals'
  <2>1. ASSUME NEW n \in DOMAIN events, events'[n] = events[n],
               events'[n].type = "run.signal.accepted"
        PROVE  [key |-> events'[n].key, event |-> n] \in signals'
    BY <2>1, Zenon DEF SignalsInv
  <2>2. ASSUME NEW n, n = Len(events) + 1, events'[n].type = "run.signal.accepted"
        PROVE  [key |-> events'[n].key, event |-> n] \in signals'
    <3>1. row.event = n /\ row.key = events'[n].key
      BY <1>1, <2>2, Zenon
    <3> QED BY <1>5, <3>1, Zenon
  <2> QED BY <1>3, <2>1, <2>2, Zenon
<1>9. signals' \subseteq SignalRow
  BY Zenon DEF SignalsInv
<1> QED BY <1>1, <1>6, <1>7, <1>8, <1>9, Zenon DEF SignalsInv

-----------------------------------------------------------------------------
(* Acquiring a record: a stored answer is right, and an owner gets a fresh *)
(* token.                                                                  *)
LEMMA AcquireKeeps ==
    ASSUME CommandsInv, NEW a \in Attempt, NEW q \in Command, AcquireRecord(a, q)
    PROVE  CommandsInv'
<1> DEFINE s == ScopeOf(q)
<1>0. /\ UNCHANGED <<time, run, events, signals, answers>>
      /\ time \in Nat /\ tokens \in Nat /\ s \in Scope
  BY CommandShape, Zenon DEF AcquireRecord, CommandsInv
<1>1. CASE Acquirable(records[s], HashOf(q), time)
  <2> DEFINE r == AcquiredRecord(HashOf(q), tokens', time, Lease, TTL)
  <2>0. PICK x : x = [pc |-> "acquired", command |-> q, token |-> tokens']
    BY Zenon
  <2>1. tokens' = tokens + 1 /\ records' = [records EXCEPT ![s] = r] /\ Steps(a, x)
    BY <1>1, <2>0, Zenon DEF AcquireRecord
  <2>2. r \in Record /\ r.state = "IN_PROGRESS"
    BY <1>0, <2>1, CommandShape, RunCommandsAssumption DEF AcquiredRecord, Record, RecordOf
  <2>3. AttemptInv(x)'
    BY <2>0, Zenon DEF AttemptInv
  <2> HIDE DEF r
  <2>4. RecordsInv' /\ Monotone
    BY <1>0, <2>1, <2>2, RecordKeeps, Zenon DEF CommandsInv
  <2>5. AttemptsInv' /\ AnswersInv'
    BY <1>0, <2>1, <2>3, <2>4, StepKeeps, SameAnswers, Zenon DEF CommandsInv
  <2> QED BY <1>0, <2>1, <2>4, <2>5 DEF CommandsInv, SignalsInv
<1>2. CASE ~Acquirable(records[s], HashOf(q), time)
  <2> DEFINE x == [pc |-> "contended", command |-> q]
  <2>1. Steps(a, x) /\ UNCHANGED <<records, tokens>>
    BY <1>2, Zenon DEF AcquireRecord
  <2>2. RecordsInv' /\ Monotone
    BY <1>0, <2>1, SameRecords, Zenon DEF CommandsInv
  <2>3. AttemptInv(x)'
    BY <1>2, <2>1, Zenon DEF AttemptInv, Acquirable
  <2> HIDE DEF x
  <2>4. AttemptsInv' /\ AnswersInv'
    BY <1>0, <2>1, <2>2, <2>3, StepKeeps, SameAnswers, Zenon DEF CommandsInv
  <2> QED BY <1>0, <2>1, <2>2, <2>4, Zenon DEF CommandsInv, SignalsInv
<1> QED BY <1>1, <1>2, Zenon

(* A request ends: it is answered from the record, or not at all.          *)
LEMMA ReplayKeeps ==
    ASSUME CommandsInv, NEW a \in Attempt, replayRunResponse(a)
    PROVE  CommandsInv'
<1> DEFINE q == attempt[a].command
           s == ScopeOf(q)
           x == [command |-> q, result |-> records[s].response]
<1>0. /\ UNCHANGED <<time, run, events, signals, records, tokens>>
      /\ Steps(a, Idle) /\ attempt[a].pc = "contended"
  BY Zenon DEF replayRunResponse
<1>1. q \in Command /\ s \in Scope /\ records[s] # NoRecord
  BY <1>0, CommandShape, Zenon DEF CommandsInv, AttemptsInv, AttemptInv
<1>2. RecordsInv' /\ Monotone
  BY <1>0, SameRecords, Zenon DEF CommandsInv
<1>3. AttemptInv(Idle)'
  BY Zenon DEF AttemptInv, Idle
<1>4. AttemptsInv'
  BY <1>0, <1>2, <1>3, StepKeeps, Zenon DEF CommandsInv
<1>5. CASE answers' = answers
  BY <1>0, <1>2, <1>4, <1>5, SameAnswers, Zenon DEF CommandsInv, SignalsInv
<1>6. CASE ContendedOutcome(records[s], HashOf(q)) = "REPLAY" /\ answers' = answers \cup {x}
  <2>1. records[s].state = "COMPLETED"
    BY <1>6, Zenon DEF ContendedOutcome
  <2>2. Right(q.route, q.key, records[s].response)
    BY <1>1, <2>1, CommandShape, Zenon DEF CommandsInv, RecordsInv, RecordInv
  <2>3. AnswersInv'
    BY <1>0, <1>1, <1>2, <1>6, <2>2, StaysRight DEF CommandsInv, AnswersInv
  <2> QED BY <1>0, <1>2, <1>4, <2>3, Zenon DEF CommandsInv, SignalsInv
<1> QED BY <1>5, <1>6, Zenon DEF replayRunResponse

(* A step that only moves one request on.                                  *)
LEMMA OnlyAttempt ==
    ASSUME CommandsInv, UNCHANGED <<time, run, events, signals, records, tokens, answers>>,
           NEW a \in Attempt, NEW x, Steps(a, x), AttemptInv(x)
    PROVE  CommandsInv'
<1>1. RecordsInv' /\ Monotone
  BY SameRecords, Zenon DEF CommandsInv
<1>2. AttemptsInv' /\ AnswersInv'
  BY <1>1, StepKeeps, SameAnswers, StaysRight, Zenon DEF CommandsInv
<1> QED BY <1>1, <1>2, Zenon DEF CommandsInv, SignalsInv

(* What an attempt under way carries.                                      *)
LEMMA AttemptShape ==
    ASSUME CommandsInv, NEW a \in Attempt, attempt[a].pc # "idle"
    PROVE  attempt[a].command \in Command /\ AttemptInv(attempt[a])
BY Zenon DEF CommandsInv, AttemptsInv, AttemptInv

(* The decision, the failure of a command and the end of a request.        *)
LEMMA QuietStepKeeps ==
    ASSUME CommandsInv, NEW a \in Attempt,
           Decided(a) \/ GetRun(a) \/ AbandonCommand(a)
           \/ /\ attempt[a].pc = "decided" /\ Failing(a)
              /\ UNCHANGED <<time, records, tokens, answers>>
    PROVE  CommandsInv'
<1>1. CASE Decided(a)
  <2>1. PICK x : x = [pc |-> "decided", command |-> attempt[a].command,
                      token |-> attempt[a].token, at |-> time, seen |-> run.state]
    BY Zenon
  <2>2. Steps(a, x) /\ attempt[a].command \in Command
    BY <1>1, <2>1, AttemptShape, Zenon DEF Decided
  <2>3. AttemptInv(x)
    BY <2>1, <2>2, Zenon DEF AttemptInv, CommandsInv
  <2> QED BY <1>1, <2>2, <2>3, OnlyAttempt, Zenon DEF Decided
<1>2. CASE GetRun(a)
  <2>1. PICK r : r = [state |-> run.state]
    BY Zenon
  <2>2. PICK x : x = [pc |-> "applied", command |-> attempt[a].command,
                      token |-> attempt[a].token, result |-> r]
    BY Zenon
  <2>3. Steps(a, x)
    BY <1>2, <2>1, <2>2, Zenon DEF GetRun, Applied, StateAfterCommit
  <2>4. /\ attempt[a].command \in Command /\ attempt[a].command.route = "cancel"
        /\ Terminal(run.state)
    BY <1>2, AttemptShape, Zenon DEF GetRun, AttemptInv
  <2>5. r \in Result /\ Right("cancel", attempt[a].command.key, r)
    BY <2>1, <2>4, Zenon DEF Result, CommandsInv, RunRow, Right
  <2>6. AttemptInv(x)
    BY <2>2, <2>4, <2>5, Zenon DEF AttemptInv
  <2> QED BY <1>2, <2>3, <2>6, OnlyAttempt, Zenon DEF GetRun
<1>3. CASE AbandonCommand(a)
  <2>1. AttemptInv(Idle)
    BY Zenon DEF AttemptInv, Idle
  <2> QED BY <1>3, <2>1, OnlyAttempt, Zenon DEF AbandonCommand
<1>4. CASE /\ attempt[a].pc = "decided" /\ Failing(a)
           /\ UNCHANGED <<time, records, tokens, answers>>
  <2>1. PICK x : x = [pc |-> "failing", command |-> attempt[a].command,
                      token |-> attempt[a].token]
    BY Zenon
  <2>2. Steps(a, x) /\ attempt[a].command \in Command
    BY <1>4, <2>1, AttemptShape, Zenon DEF Failing
  <2>3. AttemptInv(x)
    BY <2>1, <2>2, Zenon DEF AttemptInv
  <2> QED BY <1>4, <2>2, <2>3, OnlyAttempt, Zenon DEF Failing
<1> QED BY <1>1, <1>2, <1>3, <1>4, Zenon

(* The events, the run and the signals change with one request; the        *)
(* records and the answers do not.                                         *)
LEMMA CommandKeeps ==
    ASSUME CommandsInv, UNCHANGED <<time, records, tokens, answers>>,
           NEW a \in Attempt, NEW x, Steps(a, x), AttemptInv(x)',
           signals \subseteq signals', run'.state = run.state \/ ~Terminal(run.state),
           run' \in RunRow, SignalsInv'
    PROVE  CommandsInv'
<1>1. RecordsInv' /\ Monotone
  BY SameRecords, Zenon DEF CommandsInv
<1>2. AttemptsInv' /\ AnswersInv'
  BY <1>1, StepKeeps, SameAnswers, Zenon DEF CommandsInv
<1> QED BY <1>1, <1>2, Zenon DEF CommandsInv

(* A signal is found under its key, or appended with its event.            *)
LEMMA AppendRunSignalKeeps ==
    ASSUME CommandsInv, NEW a \in Attempt, AppendRunSignal(a)
    PROVE  CommandsInv'
<1> DEFINE q == attempt[a].command
<1>0. /\ attempt[a].pc = "decided" /\ q.route = "signal" /\ q \in Command
      /\ UNCHANGED <<time, records, tokens, answers>>
  BY AttemptShape, Zenon DEF AppendRunSignal
<1>1. CASE Failing(a)
  BY <1>0, <1>1, QuietStepKeeps, Zenon
<1>2. ASSUME NEW s \in signals, s.key = q.key, s.event # 0, Applied(a, [event |-> s.event]),
             UNCHANGED <<run, events, signals>>
      PROVE  CommandsInv'
  <2>1. PICK x : x = [pc |-> "applied", command |-> q, token |-> attempt[a].token,
                      result |-> [event |-> s.event]]
    BY Zenon
  <2>2. s \in SignalRow /\ s = [key |-> q.key, event |-> s.event]
    BY <1>2, Zenon DEF CommandsInv, SignalsInv, SignalRow
  <2>3. Right(q.route, q.key, [event |-> s.event]) /\ [event |-> s.event] \in Result
    BY <1>0, <1>2, <2>2, Zenon DEF Right, Result, SignalRow
  <2>4. AttemptInv(x) /\ Steps(a, x)
    BY <1>0, <1>2, <2>1, <2>3, Zenon DEF AttemptInv, Applied
  <2> QED BY <1>0, <1>2, <2>4, OnlyAttempt, Zenon
<1>3. CASE /\ {s \in signals : s.key = q.key} = {}
           /\ events' = Append(events, [type |-> "run.signal.accepted",
                                        key |-> q.key, by |-> q.principal,
                                        body |-> q.body])
           /\ signals' = signals \cup {[key |-> q.key, event |-> Len(events')]}
           /\ Applied(a, [event |-> Len(events')])
           /\ UNCHANGED run
  <2>1. PICK e : e = [type |-> "run.signal.accepted", key |-> q.key, by |-> q.principal,
                      body |-> q.body]
    BY Zenon
  <2>2. e \in Event /\ q.key \in AnyKey
    BY <1>0, <2>1, CommandShape, Zenon DEF Event, SignalOf
  <2>3. Len(events') = Len(events) + 1 /\ Len(events) \in Nat
    <3>1. events' = Append(events, e) /\ events \in Seq(Event)
      BY <1>3, <2>1, Zenon DEF CommandsInv, SignalsInv
    <3> QED BY <2>2, <3>1, AppendProperties
  <2>4. PICK row : row = [key |-> q.key, event |-> Len(events) + 1]
    BY Zenon
  <2>5. /\ row \in SignalRow /\ signals' = signals \cup {row}
        /\ \A s \in signals : s.key # row.key
        /\ row.event = Len(events) + 1 /\ e.type = "run.signal.accepted" /\ e.key = row.key
    <3>1. /\ row \in SignalRow /\ row.key = q.key /\ row.event = Len(events) + 1
          /\ e.type = "run.signal.accepted" /\ e.key = q.key
      BY <2>1, <2>2, <2>3, <2>4 DEF SignalRow
    <3>2. signals' = signals \cup {row} /\ \A s \in signals : s.key # q.key
      BY <1>3, <2>3, <2>4, Zenon
    <3> QED BY <3>1, <3>2, Zenon
  <2>6. SignalsInv'
    BY <1>3, <2>1, <2>2, <2>5, SignalEvent, Zenon DEF CommandsInv
  <2>7. PICK x : x = [pc |-> "applied", command |-> q, token |-> attempt[a].token,
                      result |-> [event |-> Len(events) + 1]]
    BY Zenon
  <2>8. Steps(a, x)
    BY <1>3, <2>3, <2>7, Zenon DEF Applied
  <2>9. PICK n : n = Len(events) + 1
    BY Zenon
  <2>10. AttemptInv(x)'
    <3>1. n \in Nat /\ n # 0 /\ row = [key |-> q.key, event |-> n] /\ row \in signals'
      BY <2>3, <2>4, <2>5, <2>9
    <3>2. x.pc = "applied" /\ x.command = q /\ x.result = [event |-> n]
      BY <2>7, <2>9, Zenon
    <3>3. x.result \in Result /\ x.result.event = n
      BY <3>1, <3>2 DEF Result
    <3>4. x.command \in Command /\ x.command.route = "signal" /\ x.command.key = q.key
      BY <1>0, <3>2, Zenon
    <3>5. PICK k : k = q.key
      BY Zenon
    <3>6. [key |-> k, event |-> x.result.event] \in signals' /\ x.command.key = k
      BY <3>1, <3>3, <3>4, <3>5, Zenon
    <3>7. Right(x.command.route, x.command.key, x.result)'
      BY <3>1, <3>3, <3>4, <3>6, Zenon DEF Right
    <3> QED BY <3>2, <3>3, <3>4, <3>7, Zenon DEF AttemptInv
  <2> QED BY <1>0, <1>3, <2>5, <2>6, <2>8, <2>10, CommandKeeps, Zenon DEF CommandsInv
<1> QED BY <1>0, <1>1, <1>2, <1>3, Zenon DEF AppendRunSignal, loadSignalEvent

(* A cancellation ends the run, or finds it ended.                         *)
LEMMA CancelRunKeeps ==
    ASSUME CommandsInv, NEW a \in Attempt, CancelRun(a)
    PROVE  CommandsInv'
<1> DEFINE q == attempt[a].command
<1>0. /\ attempt[a].pc = "decided" /\ q.route = "cancel" /\ q \in Command
      /\ attempt[a].at \in Nat
      /\ UNCHANGED <<time, records, tokens, answers>>
  BY AttemptShape, Zenon DEF CancelRun, AttemptInv
<1>1. CASE Failing(a)
  BY <1>0, <1>1, QuietStepKeeps, Zenon
<1>2. PICK x : x = [pc |-> "cancelled", command |-> q, token |-> attempt[a].token,
                    seen |-> attempt[a].seen]
  BY Zenon
<1>3. CASE Terminal(run.state) /\ Cancelled(a) /\ UNCHANGED <<run, events, signals>>
  <2>1. AttemptInv(x) /\ Steps(a, x)
    BY <1>0, <1>2, <1>3, Zenon DEF AttemptInv, Cancelled
  <2> QED BY <1>0, <1>3, <2>1, OnlyAttempt, Zenon
<1>4. CASE /\ ~Terminal(run.state) /\ ~ \E s \in signals : s.key = CancelKey(q.key)
           /\ run' = Moved(run, "CANCELLED", attempt[a].at)
           /\ events' = Append(events, [type |-> "run.cancelled"])
           /\ signals' = signals \cup {[key |-> CancelKey(q.key), event |-> 0]}
           /\ Cancelled(a)
  <2>1. /\ run' \in RunRow
        /\ run'.state = "CANCELLED" /\ Terminal(run'.state)
    <3>1. run \in RunRow /\ "CANCELLED" \in RunState /\ Terminal("CANCELLED")
      BY Zenon DEF CommandsInv, RunState, Terminal, TerminalState
    <3> QED BY <1>0, <1>4, <3>1, MovedRow, Zenon
  <2>2. AttemptInv(x)' /\ Steps(a, x)
    BY <1>0, <1>2, <1>4, <2>1, Zenon DEF AttemptInv, Cancelled
  <2>3. SignalsInv'
    <3>1. PICK e : e = [type |-> "run.cancelled"]
      BY Zenon
    <3>2. PICK row : row = [key |-> CancelKey(q.key), event |-> 0]
      BY Zenon
    <3>3. e \in Event /\ e.type # "run.signal.accepted" /\ events' = Append(events, e)
      BY <1>4, <3>1, Zenon DEF Event, EventType
    <3>4. row \in SignalRow /\ row.event = 0 /\ row.key = CancelKey(q.key)
      BY <1>0, <3>2, CommandShape, Zenon DEF SignalRow
    <3>5. signals' = signals \cup {row} /\ \A s \in signals : s.key # row.key
      BY <1>4, <3>2, <3>4, Zenon
    <3> QED BY <3>3, <3>4, <3>5, SignalEvent, Zenon DEF CommandsInv
  <2> QED BY <1>0, <1>4, <2>1, <2>2, <2>3, CommandKeeps, Zenon
<1> QED BY <1>0, <1>1, <1>3, <1>4, Zenon DEF CancelRun, Accepts

(* The record is completed by its owner, or released by it.                *)
LEMMA RecordStepKeeps ==
    ASSUME CommandsInv, NEW a \in Attempt, CompleteRecord(a) \/ FailRecord(a)
    PROVE  CommandsInv'
<1> DEFINE q == attempt[a].command
<1>1a. PICK s : s = ScopeOf(q)
  BY Zenon
<1>0. /\ UNCHANGED <<time, run, events, signals, tokens>> /\ Steps(a, Idle)
      /\ q \in Command /\ s \in Scope /\ AttemptInv(attempt[a])
  BY <1>1a, AttemptShape, CommandShape, Zenon DEF CompleteRecord, FailRecord
<1>1. AttemptInv(Idle)'
  BY Zenon DEF AttemptInv, Idle
<1>2. SignalsInv' /\ run' \in RunRow
  BY <1>0, Zenon DEF CommandsInv, SignalsInv
<1>3. ASSUME UNCHANGED <<records, answers>> PROVE CommandsInv'
  BY <1>0, <1>3, OnlyAttempt, <1>1, Zenon DEF AttemptInv, Idle
<1>4. ASSUME NEW r \in Record, records' = [records EXCEPT ![s] = r],
             r.state = "COMPLETED" => Right(s.route, s.key, r.response)'
      PROVE  RecordsInv' /\ Monotone /\ AttemptsInv'
  <2>1. RecordsInv' /\ Monotone
    BY <1>0, <1>4, RecordKeeps, Zenon DEF CommandsInv
  <2> QED BY <1>0, <1>1, <2>1, StepKeeps, Zenon DEF CommandsInv
<1>5. CASE CompleteRecord(a) /\ Owns(records[s], attempt[a].token)
  <2>1. PICK r : r = CompletedRecord(records[s], attempt[a].result, time)
    BY Zenon
  <2>2. records[s] \in Record /\ attempt[a].result \in Result
    BY <1>0, <1>5, Zenon DEF Owns, CommandsInv, RecordsInv, RecordInv, CompleteRecord, AttemptInv
  <2>3. r \in Record /\ r.response = attempt[a].result
    BY <2>1, <2>2, Zenon DEF CompletedRecord, Record, RecordOf, CommandsInv
  <2>4. Right(q.route, q.key, attempt[a].result)
    BY <1>0, <1>5, Zenon DEF CompleteRecord, AttemptInv
  <2>5. \A route, k, z : Right(route, k, z)' <=> Right(route, k, z)
    BY <1>0, Zenon DEF Right
  <2>6. Right(s.route, s.key, r.response)
    BY <1>1a, <1>0, <2>3, <2>4, CommandShape, Zenon
  <2>7. records' = [records EXCEPT ![s] = r]
    BY <1>1a, <1>5, <2>1, Zenon DEF CompleteRecord
  <2>8. RecordsInv' /\ Monotone /\ AttemptsInv'
    BY <1>4, <2>3, <2>5, <2>6, <2>7, Zenon
  <2>9. AnswersInv'
    <3>1. \A z \in answers' : z \in answers \/ z = [command |-> q, result |-> attempt[a].result]
      BY <1>5, Zenon DEF CompleteRecord
    <3> QED BY <1>0, <2>4, <2>5, <3>1 DEF CommandsInv, AnswersInv
  <2> QED BY <1>0, <1>2, <2>8, <2>9, Zenon DEF CommandsInv
<1>6. CASE FailRecord(a) /\ Owns(records[s], attempt[a].token)
  <2>1. PICK r : r = [records[s] EXCEPT !.state = "FAILED", !.locked = time]
    BY Zenon
  <2>2. records[s] \in Record
    BY <1>0, <1>6, Zenon DEF Owns, CommandsInv, RecordsInv, RecordInv
  <2>3. r \in Record /\ r.state = "FAILED"
    BY <2>1, <2>2, Zenon DEF Record, RecordOf, CommandsInv
  <2>4. records' = [records EXCEPT ![s] = r]
    BY <1>1a, <1>6, <2>1, Zenon DEF FailRecord, FailedRecord
  <2>5. RecordsInv' /\ Monotone /\ AttemptsInv' /\ UNCHANGED answers
    BY <1>4, <1>6, <2>3, <2>4, Zenon DEF FailRecord
  <2> QED BY <1>0, <1>2, <2>5, SameAnswers, Zenon DEF CommandsInv
<1>7. CASE ~Owns(records[s], attempt[a].token)
  <2>1. UNCHANGED <<records, answers>>
    BY <1>1a, <1>0, <1>7, Zenon DEF CompleteRecord, FailRecord, FailedRecord, CommandsInv, RecordsInv
  <2> QED BY <1>3, <2>1, Zenon
<1> QED BY <1>5, <1>6, <1>7, Zenon

(* Every step keeps the invariant of the commands.                         *)
LEMMA CommandsStep == CommandsInv /\ [CommandsNext]_commandVars => CommandsInv'
<1> SUFFICES ASSUME CommandsInv, [CommandsNext]_commandVars PROVE CommandsInv'
  BY Zenon
<1>1. ASSUME NEW a \in Attempt,
             \/ \E q \in Command : RunSignalHandler(a, q) \/ RunCancellationHandler(a, q)
             \/ replayRunResponse(a) \/ SignalService(a) \/ CancelService(a)
             \/ AppendRunSignal(a) \/ CancelRun(a)
             \/ GetRun(a) \/ CompleteRecord(a) \/ FailRecord(a) \/ AbandonCommand(a)
      PROVE  CommandsInv'
  BY <1>1, AcquireKeeps, ReplayKeeps, QuietStepKeeps, AppendRunSignalKeeps, CancelRunKeeps,
     RecordStepKeeps, Zenon
     DEF RunSignalHandler, RunCancellationHandler, SignalService, CancelService
(* The others move a run that has not ended.                               *)
<1>2. ASSUME UNCHANGED <<time, signals, records, tokens, attempt, answers>>,
             run' \in RunRow,
             ~Terminal(run.state), SignalsInv'
      PROVE  CommandsInv'
  <2>1. RecordsInv' /\ Monotone
    BY <1>2, SameRecords, Zenon DEF CommandsInv
  <2>2. AnswersInv'
    BY <1>2, <2>1, SameAnswers, Zenon DEF CommandsInv
  <2>3. AttemptsInv'
    BY <1>2, <2>1, StaysRight, Zenon DEF CommandsInv, AttemptsInv
  <2> QED BY <1>2, <2>1, <2>2, <2>3, Zenon DEF CommandsInv
<1>3. ASSUME NEW to \in Move, OthersMove(to) PROVE CommandsInv'
  <2>1. to \in RunState
    BY <1>3, RunCommandsAssumption, Zenon
  <2>2. run' \in RunRow
    BY <1>3, <2>1, MovedRow, Zenon DEF CommandsInv, OthersMove
  <2>3. PICK e : e = [type |-> to]
    BY Zenon
  <2>4. e \in [type : EventType] /\ events' = Append(events, e)
    BY <1>3, <2>1, <2>3, Zenon DEF EventType, OthersMove
  <2>5. SignalsInv'
    BY <1>3, <2>4, QuietEvent, Zenon DEF CommandsInv, OthersMove
  <2> QED BY <1>2, <1>3, <2>2, <2>5, Zenon DEF OthersMove, Accepts
<1>4. CASE PauseForBudget
  <2>1. run' \in RunRow
    <3>1. "BUDGET_EXHAUSTED" \in RunState /\ "PAUSED_FOR_BUDGET" \in RunState
      BY Zenon DEF RunState
    <3>2. Moved(run, "BUDGET_EXHAUSTED", time) \in RunRow
      BY <3>1, MovedRow, Zenon DEF CommandsInv
    <3> QED BY <1>4, <3>1, <3>2, MovedRow, Zenon DEF CommandsInv, PauseForBudget
  <2>2. SignalsInv'
    <3> DEFINE e == [type |-> "BUDGET_EXHAUSTED"]
               f == [type |-> "PAUSED_FOR_BUDGET"]
    <3>1. /\ e \in Event /\ e.type # "run.signal.accepted"
          /\ f \in Event /\ f.type # "run.signal.accepted"
      BY Zenon DEF Event, EventType, RunState
    <3>2. events \in Seq(Event) /\ events' = events \o <<e, f>>
      BY <1>4, Zenon DEF CommandsInv, SignalsInv, PauseForBudget
    <3> HIDE DEF e, f
    <3>3. /\ events' \in Seq(Event) /\ Len(events') = Len(events) + 2 /\ Len(events) \in Nat
          /\ \A n \in 1 .. Len(events) : events'[n] = events[n]
          /\ events'[Len(events) + 1] = e /\ events'[Len(events) + 2] = f
      BY <3>1, <3>2
    <3>4. DOMAIN events = 1 .. Len(events) /\ DOMAIN events' = 1 .. Len(events')
      BY <3>2, <3>3
    <3>5. \A n \in DOMAIN events' :
            \/ events'[n].type # "run.signal.accepted"
            \/ n \in DOMAIN events /\ events'[n] = events[n]
      <4>1. \A n \in DOMAIN events' :
              n = Len(events) + 1 \/ n = Len(events) + 2 \/ n \in 1 .. Len(events)
        BY <3>3, <3>4
      <4> QED BY <3>1, <3>3, <3>4, <4>1, Zenon
    <3>6. \A n \in DOMAIN events : n \in DOMAIN events' /\ events'[n] = events[n]
      BY <3>3, <3>4
    <3>7. signals' = signals
      BY <1>4, Zenon DEF PauseForBudget
    <3> QED BY <3>3, <3>5, <3>6, <3>7, Zenon DEF CommandsInv, SignalsInv
  <2> QED BY <1>2, <1>4, <2>1, <2>2, Zenon DEF PauseForBudget, Accepts
<1>5. CASE CommandsTick \/ UNCHANGED commandVars
  <2>1. UNCHANGED <<run, events, signals, records, tokens, attempt, answers>> /\ time' \in Nat
    BY <1>5 DEF CommandsTick, commandVars, CommandsInv
  <2>2. RecordsInv' /\ Monotone
    BY <2>1, SameRecords, Zenon DEF CommandsInv
  <2>3. AnswersInv'
    BY <2>1, <2>2, SameAnswers, Zenon DEF CommandsInv
  <2>4. AttemptsInv'
    BY <2>1, <2>2, StaysRight, Zenon DEF CommandsInv, AttemptsInv
  <2> QED BY <2>1, <2>2, <2>3, <2>4, Zenon DEF CommandsInv, SignalsInv
<1> QED BY <1>1, <1>3, <1>4, <1>5, Zenon DEF CommandsNext

(* Initially there is no record and no answer.                             *)
LEMMA CommandsInvInit == CommandsInit => CommandsInv
<1> SUFFICES ASSUME CommandsInit PROVE CommandsInv
  BY Zenon
<1>1. /\ time \in Nat /\ tokens \in Nat
      /\ run \in RunRow
  BY Zenon DEF CommandsInit, RunRow, RunState
<1>2. SignalsInv
  <2>1. PICK e : e = [type |-> "run.admitted"]
    BY Zenon
  <2>2. e \in Event /\ e.type # "run.signal.accepted" /\ events = <<e>>
    BY <2>1, Zenon DEF Event, EventType, CommandsInit
  <2>3. events \in Seq(Event) /\ DOMAIN events = {1} /\ events[1] = e
    BY <2>2
  <2> QED BY <2>2, <2>3, Zenon DEF SignalsInv, CommandsInit
<1>3. RecordsInv /\ AttemptsInv /\ AnswersInv
  BY Zenon DEF CommandsInit, RecordsInv, RecordInv, AttemptsInv, AttemptInv, AnswersInv, Idle
<1> QED BY <1>1, <1>2, <1>3, Zenon DEF CommandsInv

(* The invariant of the commands holds of every behaviour.                 *)
LEMMA CommandsInvariant == CommandSpec => []CommandsInv
BY CommandsInvInit, CommandsStep, PTL DEF CommandSpec

(* A cancellation that is answered with success, first or replayed, names  *)
(* the state the run has ended in, for any number of callers, retries,     *)
(* takeovers of records and moves of the run.                              *)
THEOREM CancelAnswersAreFinal == CommandSpec => []CancelAnswerIsFinal
<1>1. CommandsInv => CancelAnswerIsFinal
  BY Zenon DEF CommandsInv, AnswersInv, Right, CancelAnswerIsFinal
<1> QED BY <1>1, CommandsInvariant, PTL

(* A caller that keeps its key to itself and to one content has its signal *)
(* recorded once: every answer names the one event of the key, and that    *)
(* event is the caller's.                                                  *)
THEOREM SignalAnswersNameTheirEvent == CommandSpec => []SignalAnswerNamesItsEvent
<1>1. CommandsInv => SignalAnswerNamesItsEvent
  <2> SUFFICES ASSUME CommandsInv, NEW x \in answers, x.command.route = "signal",
                      Sole(x.command)
               PROVE  /\ IsSignalOf(events[x.result.event], x.command)
                      /\ \A n \in DOMAIN events :
                            events[n].type = "run.signal.accepted"
                                /\ events[n].key = x.command.key => n = x.result.event
    BY Zenon DEF SignalAnswerNamesItsEvent
  <2> DEFINE s == [key |-> x.command.key, event |-> x.result.event]
  <2>1. s \in signals /\ x.result.event # 0
    BY Zenon DEF CommandsInv, AnswersInv, Right
  <2>2. s.key = x.command.key /\ s.event = x.result.event
    BY Zenon
  <2> HIDE DEF s
  <2>3. /\ x.result.event \in DOMAIN events
        /\ events[x.result.event].type = "run.signal.accepted"
        /\ events[x.result.event].key = x.command.key
    BY <2>1, <2>2, Zenon DEF CommandsInv, SignalsInv
  <2>4. PICK e : e = events[x.result.event]
    BY Zenon
  <2>5. e \in Event /\ e.type = "run.signal.accepted" /\ e.key = x.command.key
    <3>1. e \in Event
      BY <2>3, <2>4 DEF CommandsInv, SignalsInv
    <3> QED BY <2>3, <2>4, <3>1, Zenon
  <2>6. PICK c \in Command : c.route = "signal" /\ e = SignalOf(c)
    BY <2>5, Zenon DEF Event, EventType, RunState
  <2>7. e.key = c.key /\ e.by = c.principal /\ e.body = c.body
    BY <2>6 DEF SignalOf
  <2>8. IsSignalOf(e, x.command)
    BY <2>5, <2>6, <2>7, Zenon DEF Sole, IsSignalOf
  <2>9. ASSUME NEW n \in DOMAIN events, events[n].type = "run.signal.accepted",
               events[n].key = x.command.key
        PROVE  n = x.result.event
    <3> DEFINE t == [key |-> events[n].key, event |-> n]
    <3>1. t \in signals
      BY <2>9, Zenon DEF CommandsInv, SignalsInv
    <3>2. t.key = s.key /\ t.event = n
      BY <2>2, <2>9, Zenon
    <3> HIDE DEF t
    <3> QED BY <2>1, <2>2, <3>1, <3>2, Zenon DEF CommandsInv, SignalsInv
  <2> QED BY <2>4, <2>8, <2>9, Zenon
<1> QED BY <1>1, CommandsInvariant, PTL

(***************************************************************************)
(* Policy decisions while the agent is revoked.                            *)
(***************************************************************************)

(* The epochs after the revocation.                                        *)
NewEpochs == Bumped(ZeroEpochs)

(* Epochs that a load, a tracker or a request can have read.               *)
Known(epochs) == epochs = ZeroEpochs \/ (epochs = NewEpochs /\ authority.revoked)

AuthorityInv ==
    /\ authority.revoked \in BOOLEAN
    /\ authority.revoked => authority.at \in 0..elapsed /\ authority.epochs = NewEpochs
    /\ ~ authority.revoked => authority.epochs = ZeroEpochs /\ acked = Never
    /\ elapsed \in Nat /\ generation \in Nat
    /\ acked = Never \/ (acked \in Nat /\ acked <= generation)

(* A load that missed the revocation read the authority before it; so did  *)
(* the one the tracker rests on, at most MaxLoad before it was recorded.   *)
LoadInv ==
    load.phase = "LOADED" =>
        /\ load.at \in Nat /\ load.at <= elapsed /\ elapsed <= load.at + MaxLoad
        /\ Known(load.epochs)
        /\ load.epochs = ZeroEpochs /\ authority.revoked => load.at <= authority.at

TrackerInv ==
    /\ tracker.observed \in Nat /\ tracker.observed <= elapsed
    /\ Known(tracker.epochs)
    /\ tracker.epochs = ZeroEpochs /\ authority.revoked =>
          tracker.observed <= authority.at + MaxLoad

(* A cached decision was made under the old epochs.  One of this process   *)
(* has a generation that ended with the acknowledgement at the latest;     *)
(* nothing is known of the generations of other processes.                 *)
KeyInv(key) ==
    key[2] \in Nat /\ key[2] <= generation /\ (acked # Never => key[2] < acked)
EntryInv(e) ==
    /\ e = [key |-> e.key, expires |-> e.expires, own |-> e.own]
    /\ e.key[3] = 0
    /\ e.own => KeyInv(e.key)
CachesInv == \A e \in local \cup remote : EntryInv(e)

(* What a request knew when it began.                                      *)
BegunInv(b) ==
    /\ b.class \in {"HIGH", "NORMAL"}
    /\ b.at = Never \/ (b.at \in Nat /\ authority.revoked)
    /\ b.acked => acked # Never /\ b.at # Never

Within(b) == b.at # Never => b.at - authority.at <= MaxAge + MaxLoad

(* A request in flight.                                                    *)
Whole(d) ==
    d = [begun |-> d.begun, pc |-> d.pc, key |-> d.key, epochs |-> d.epochs, age |-> d.age]

(* A bounded request carries epochs of the tracker, which are old only     *)
(* within the bound; one that began after the acknowledgement looks for a  *)
(* generation that began with it; and a request stores a decision only     *)
(* when no revocation had committed when it read the active ones.          *)
NormalInv(d) ==
    /\ d.pc \in {"LOOKUP", "LOCAL", "REMOTE", "EPOCHS", "ACTIVE", "STORE"}
    /\ Known(d.epochs)
    /\ d.epochs = ZeroEpochs => Within(d.begun)
    /\ d.pc # "LOOKUP" =>
          /\ d.key[3] = d.epochs.security /\ d.key # <<>>
          /\ d.key[2] \in Nat /\ d.key[2] <= generation
          /\ d.begun.acked => ~ (d.key[2] < acked)
    /\ d.pc = "ACTIVE" => d.epochs = ZeroEpochs \/ authority.revoked
    /\ d.pc = "STORE" =>
          d.begun.at = Never /\ d.epochs = ZeroEpochs /\ KeyInv(d.key)

RequestInv(d) ==
    \/ d.pc = "FREE"
    \/ /\ d.pc = "ALLOWED" /\ BegunInv(d.begun)
       /\ d.begun.class = "NORMAL" => Within(d.begun)
       /\ d.begun.class = "HIGH" => d.begun.at = Never
       /\ d.begun.acked => ~ d.own
    \/ /\ Whole(d) /\ BegunInv(d.begun) /\ d.begun.class = "NORMAL"
       /\ NormalInv(d)
    \/ /\ Whole(d) /\ BegunInv(d.begun) /\ d.begun.class = "HIGH"
       /\ d.pc \in {"EPOCHS", "ACTIVE"} /\ d.key = <<>>

RequestsInv ==
    /\ req = [r \in Evaluation |-> req[r]]
    /\ \A r \in Evaluation : RequestInv(req[r])

DecisionsInv ==
    /\ AuthorityInv
    /\ LoadInv
    /\ TrackerInv
    /\ CachesInv
    /\ RequestsInv

(* The step A preserves the invariant.                                     *)
Keeps(A) == DecisionsInv /\ A => DecisionsInv'

(* What no decision changes.                                               *)
world == <<elapsed, authority, acked, tracker, load, generation>>

(* Of the world, a request's invariant depends on three parts.             *)
LEMMA Unmoved ==
    ASSUME UNCHANGED <<authority, acked, generation>>
    PROVE  \A d : RequestInv(d) => RequestInv(d)'
<1>1. \A b : (BegunInv(b) => BegunInv(b)') /\ (Within(b) => Within(b)')
  BY Zenon DEF BegunInv, Within
<1>2. \A e : (Known(e) => Known(e)') /\ (KeyInv(e) => KeyInv(e)')
  BY Zenon DEF Known, KeyInv
<1>3. \A d : NormalInv(d) => NormalInv(d)'
  BY <1>1, <1>2 DEF NormalInv
<1> QED
  BY <1>1, <1>3, Zenon DEF RequestInv, Whole

(* One decision moves on.                                                  *)
LEMMA RequestMoves ==
    ASSUME DecisionsInv, UNCHANGED world, CachesInv', NEW r \in Evaluation, NEW x, RequestInv(x),
           req' = [req EXCEPT ![r] = x]
    PROVE  DecisionsInv'
<1>1. /\ elapsed' = elapsed /\ authority' = authority /\ acked' = acked /\ tracker' = tracker
      /\ load' = load /\ generation' = generation
  BY Zenon DEF world
<1>2. AuthorityInv' /\ LoadInv' /\ TrackerInv'
  BY <1>1, Zenon DEF DecisionsInv, AuthorityInv, LoadInv, TrackerInv, Known
<1>3. \A d : RequestInv(d) => RequestInv(d)'
  BY <1>1, Unmoved, Zenon
<1>4. req = [q \in Evaluation |-> req[q]] /\ \A q \in Evaluation : RequestInv(req[q])
  BY Zenon DEF DecisionsInv, RequestsInv
<1>5. \A q \in Evaluation : req'[q] = IF q = r THEN x ELSE req[q]
  BY <1>4, Zenon
<1>6. ASSUME NEW q \in Evaluation PROVE RequestInv(req[q])'
  <2>1. PICK y : y = req'[q]
    BY Zenon
  <2>2. RequestInv(y)'
    BY <1>3, <1>4, <1>5, <2>1, Zenon
  <2> QED
    BY <2>1, <2>2, Zenon DEF RequestInv, NormalInv, BegunInv, Within, Known, KeyInv, Whole
<1>7. req' = [q \in Evaluation |-> req'[q]]
  BY <1>4, Zenon
<1> QED
  BY <1>2, <1>6, <1>7, Zenon DEF DecisionsInv, RequestsInv

(* The caches stay, and so does all their entries depend on.               *)
LEMMA SameCaches ==
    CachesInv /\ UNCHANGED <<acked, generation, local, remote>> => CachesInv'
BY DEF CachesInv, EntryInv, KeyInv

(* A request that ends.                                                    *)
LEMMA FreeRequest == RequestInv(Free) /\ RequestInv(Free)'
<1>1. Free.pc = "FREE"
  BY Zenon DEF Free
<1> QED
  BY <1>1, Zenon DEF RequestInv

(* Old epochs in a snapshot that serves are at most MaxAge + MaxLoad old.  *)
LEMMA BeginKeeps == ASSUME NEW r \in Evaluation PROVE Keeps(BeginEvaluation(r))
<1>a. SUFFICES ASSUME DecisionsInv, BeginEvaluation(r) PROVE DecisionsInv'
  BY Zenon DEF Keeps
<1>1. UNCHANGED world /\ UNCHANGED <<local, remote>>
  BY <1>a, Zenon DEF BeginEvaluation, world
<1>2. CachesInv'
  BY <1>a, <1>1, SameCaches, Zenon DEF DecisionsInv, world
<1>3. PICK class \in {"HIGH", "NORMAL"} :
        LET begun == [class |-> class, at |-> IF authority.revoked THEN elapsed ELSE Never,
                      acked |-> acked # Never]
            bounded == class = "NORMAL" IN
        req' = [req EXCEPT ![r] =
            IF bounded /\ ~ Serves THEN Free
            ELSE [begun |-> begun, pc |-> FirstStep(class), key |-> <<>>,
                  epochs |-> IF bounded THEN tracker.epochs ELSE ZeroEpochs,
                  age |-> IF bounded THEN Age(tracker, elapsed) ELSE 0]]
  BY <1>a, Zenon DEF BeginEvaluation
<1>4. CASE class = "NORMAL" /\ ~ Serves
  <2>1. req' = [req EXCEPT ![r] = Free]
    BY <1>3, <1>4, Zenon
  <2> QED
    BY <1>a, <1>1, <1>2, <2>1, FreeRequest, RequestMoves, Zenon
<1>5. CASE class = "HIGH" \/ Serves
  <2>1. PICK b : b = [class |-> class, at |-> IF authority.revoked THEN elapsed ELSE Never,
                      acked |-> acked # Never]
    BY Zenon
  <2>2. /\ b.class = class /\ (b.acked => acked # Never)
        /\ authority.revoked => b.at = elapsed
        /\ ~ authority.revoked => b.at = Never
    BY <2>1, Zenon
  <2>3. PICK x : x = [begun |-> b, pc |-> FirstStep(class), key |-> <<>>,
                      epochs |-> IF class = "NORMAL" THEN tracker.epochs ELSE ZeroEpochs,
                      age |-> IF class = "NORMAL" THEN Age(tracker, elapsed) ELSE 0]
    BY Zenon
  <2>4. /\ x.begun = b /\ x.pc = FirstStep(class) /\ x.key = <<>> /\ Whole(x)
        /\ class = "NORMAL" => x.epochs = tracker.epochs
    BY <2>3, Zenon DEF Whole
  <2>5. req' = [req EXCEPT ![r] = x]
    BY <1>3, <1>5, <2>1, <2>3, Zenon
  <2>6. AuthorityInv /\ TrackerInv
    BY <1>a, Zenon DEF DecisionsInv
  <2>7. BegunInv(b)
    BY <1>3, <2>2, <2>6 DEF BegunInv, AuthorityInv, Never
  <2>8. CASE class = "HIGH"
    BY <2>2, <2>4, <2>5, <2>7, <2>8, <1>a, <1>1, <1>2, RequestMoves, Zenon
       DEF RequestInv, FirstStep
  <2>9. CASE class = "NORMAL"
    <3>1. elapsed - tracker.observed <= MaxAge /\ x.pc = "LOOKUP" /\ x.epochs = tracker.epochs
      BY <1>5, <2>4, <2>9, Zenon DEF Serves, Age, FirstStep
    <3>2. x.epochs = ZeroEpochs => Within(b)
      BY <2>2, <2>6, <3>1, DecisionsAssumption DEF Within, TrackerInv, AuthorityInv
    <3>3. NormalInv(x)
      BY <2>4, <2>6, <3>1, <3>2, Zenon DEF NormalInv, TrackerInv
    <3> QED
      BY <2>2, <2>4, <2>5, <2>7, <2>9, <3>3, <1>a, <1>1, <1>2, RequestMoves, Zenon
         DEF RequestInv
  <2> QED
    BY <2>8, <2>9, Zenon
<1> QED
  BY <1>4, <1>5, Zenon

(* A decision's record, its program counter moved on.                      *)
LEMMA MovedOn ==
    ASSUME NEW d, Whole(d), NEW p, NEW x, x = [d EXCEPT !.pc = p]
    PROVE  /\ x.pc = p /\ x.begun = d.begun /\ x.key = d.key /\ x.epochs = d.epochs
           /\ Whole(x)
<1>1. PICK b, q, h, e, n : d = [begun |-> b, pc |-> q, key |-> h, epochs |-> e, age |-> n]
  BY Zenon DEF Whole
<1>2. x = [begun |-> b, pc |-> p, key |-> h, epochs |-> e, age |-> n]
  BY <1>1, Zenon
<1> QED
  BY <1>1, <1>2, Zenon DEF Whole

(* A request that is not free, taken apart.                                *)
LEMMA OneRequest ==
    ASSUME DecisionsInv, NEW r \in Evaluation, NEW d, d = req[r],
           d.pc \in {"LOOKUP", "LOCAL", "REMOTE", "EPOCHS", "ACTIVE", "STORE"}
    PROVE  /\ Whole(d) /\ BegunInv(d.begun)
           /\ \/ d.begun.class = "NORMAL" /\ NormalInv(d)
              \/ /\ d.begun.class = "HIGH" /\ d.key = <<>>
                 /\ d.pc \in {"EPOCHS", "ACTIVE"}
<1>1. RequestInv(d)
  BY Zenon DEF DecisionsInv, RequestsInv
<1>2. d.pc # "FREE" /\ d.pc # "ALLOWED"
  BY Zenon
<1> QED
  BY <1>1, <1>2, Zenon DEF RequestInv

(* A request that is allowed, and why it may be.                           *)
LEMMA AllowedRequest ==
    ASSUME NEW b, BegunInv(b), b.class = "NORMAL" => Within(b),
           b.class = "HIGH" => b.at = Never, NEW own, own => ~ b.acked
    PROVE  RequestInv(Allow(b, own))
<1>1. Allow(b, own).pc = "ALLOWED" /\ Allow(b, own).begun = b /\ Allow(b, own).own = own
  BY Zenon DEF Allow
<1> QED
  BY <1>1, Zenon DEF RequestInv

(* Whoever found no revocation began before it.                            *)
LEMMA UnrevokedAllows ==
    ASSUME DecisionsInv, ~ authority.revoked, NEW b, BegunInv(b), NEW own
    PROVE  RequestInv(Allow(b, own)) /\ b.at = Never
<1>1. b.at = Never /\ ~ b.acked
  BY Zenon DEF BegunInv
<1> QED
  BY <1>1, AllowedRequest, Zenon DEF Within

(* The parts of a key that matter.                                         *)
LEMMA KeyParts ==
    ASSUME NEW d, NEW g
    PROVE  /\ cacheKey(d, g)[2] = g /\ cacheKey(d, g)[3] = d.epochs.security
           /\ cacheKey(d, g) # <<>>
BY Zenon DEF cacheKey

(* The old and the new epochs.                                             *)
LEMMA EpochFacts ==
    /\ ZeroEpochs.security = 0 /\ NewEpochs.security = 1
    /\ ZeroEpochs \in [EpochField -> Nat] /\ NewEpochs \in [EpochField -> Nat]
    /\ ZeroEpochs # NewEpochs
<1>1. ZeroEpochs.security = 0 /\ ZeroEpochs \in [EpochField -> Nat]
  BY Zenon DEF ZeroEpochs, EpochField
<1>2. NewEpochs.security = 1 /\ NewEpochs \in [EpochField -> Nat]
  BY <1>1, SMTT(30) DEF NewEpochs, Bumped, EpochField
<1> QED
  BY <1>1, <1>2

(* A hit in a cache: the entry is of the old epochs, so the request is     *)
(* within the bound; if it is one of this process, its generation ended    *)
(* with the acknowledgement, so the request began before it.               *)
LEMMA HitIsAllowed ==
    ASSUME DecisionsInv, NEW r \in Evaluation, NEW d, d = req[r], d.pc \in {"LOCAL", "REMOTE"},
           NEW e \in local \cup remote, e.key = d.key
    PROVE  RequestInv(Allow(d.begun, e.own))
<1>1. BegunInv(d.begun) /\ d.begun.class = "NORMAL" /\ NormalInv(d)
  BY OneRequest, Zenon
<1>2. EntryInv(e)
  BY Zenon DEF DecisionsInv, CachesInv
<1>3. /\ d.epochs.security = 0 /\ (e.own => KeyInv(d.key))
      /\ d.begun.acked => ~ (d.key[2] < acked)
  BY <1>1, <1>2, Zenon DEF EntryInv, NormalInv
<1>4. d.epochs = ZeroEpochs
  BY <1>1, <1>3, EpochFacts DEF NormalInv, Known
<1>5. Within(d.begun)
  BY <1>1, <1>4, Zenon DEF NormalInv
<1>6. e.own => ~ d.begun.acked
  BY <1>1, <1>3, Zenon DEF BegunInv, KeyInv
<1> QED
  BY <1>1, <1>5, <1>6, AllowedRequest, Zenon

(* ReadGeneration: the key is of this generation.                          *)
LEMMA ReadGenerationKeeps == ASSUME NEW r \in Evaluation PROVE Keeps(ReadGeneration(r))
<1>a. SUFFICES ASSUME DecisionsInv, ReadGeneration(r) PROVE DecisionsInv'
  BY Zenon DEF Keeps
<1>1. UNCHANGED world /\ UNCHANGED <<local, remote>> /\ req[r].pc = "LOOKUP"
  BY <1>a, Zenon DEF ReadGeneration, world
<1>2. CachesInv'
  BY <1>a, <1>1, SameCaches, Zenon DEF DecisionsInv, world
<1>3. PICK d : d = req[r]
  BY Zenon
<1>4. PICK key : key = cacheKey(d, generation)
  BY Zenon
<1>5. PICK x : x = [d EXCEPT !.pc = "LOCAL", !.key = key]
  BY Zenon
<1>6. req' = [req EXCEPT ![r] = x]
  BY <1>a, <1>3, <1>4, <1>5, Zenon DEF ReadGeneration
<1>7. Whole(d) /\ BegunInv(d.begun) /\ d.begun.class = "NORMAL" /\ NormalInv(d)
  BY <1>a, <1>1, <1>3, OneRequest, Zenon
<1>8. /\ x.pc = "LOCAL" /\ x.begun = d.begun /\ x.key = key /\ x.epochs = d.epochs
      /\ Whole(x)
  <2>1. PICK b, p, h, v, n : d = [begun |-> b, pc |-> p, key |-> h, epochs |-> v, age |-> n]
    BY <1>7, Zenon DEF Whole
  <2>2. x = [begun |-> b, pc |-> "LOCAL", key |-> key, epochs |-> v, age |-> n]
    BY <1>5, <2>1, Zenon
  <2> QED
    BY <2>1, <2>2, Zenon DEF Whole
<1>9. key[2] = generation /\ key[3] = d.epochs.security /\ key # <<>>
  BY <1>4, KeyParts, Zenon
<1>10. /\ key[2] \in Nat /\ key[2] <= generation
       /\ d.begun.acked => ~ (key[2] < acked)
  <2>1. generation \in Nat /\ (acked = Never \/ (acked \in Nat /\ acked <= generation))
    BY <1>a, ZenonT(30) DEF DecisionsInv, AuthorityInv
  <2>2. d.begun.acked => acked # Never
    BY <1>7, Zenon DEF BegunInv
  <2>3. generation <= generation /\ (acked # Never => ~ (generation < acked))
    BY <2>1
  <2> QED
    BY <1>9, <2>1, <2>2, <2>3, Zenon
<1>11. NormalInv(x)
  BY <1>7, <1>8, <1>9, <1>10, Zenon DEF NormalInv
<1> QED
  BY <1>a, <1>1, <1>2, <1>6, <1>7, <1>8, <1>11, RequestMoves, Zenon DEF RequestInv

(* A miss: the request goes on with its key.                               *)
LEMMA MissKeeps ==
    ASSUME DecisionsInv, UNCHANGED world, CachesInv', NEW r \in Evaluation, NEW d, d = req[r],
           d.pc \in {"LOCAL", "REMOTE"}, NEW p \in {"REMOTE", "EPOCHS"},
           req' = [req EXCEPT ![r] = [d EXCEPT !.pc = p]]
    PROVE  DecisionsInv'
<1>1. Whole(d) /\ BegunInv(d.begun) /\ d.begun.class = "NORMAL" /\ NormalInv(d)
  BY OneRequest, Zenon
<1>2. PICK x : x = [d EXCEPT !.pc = p]
  BY Zenon
<1>3. x.pc = p /\ x.begun = d.begun /\ x.key = d.key /\ x.epochs = d.epochs /\ Whole(x)
  BY <1>1, <1>2, MovedOn
<1>4. NormalInv(x)
  BY <1>1, <1>3, Zenon DEF NormalInv
<1> QED
  BY <1>1, <1>2, <1>3, <1>4, RequestMoves, Zenon DEF RequestInv

(* LookLocal: a hit, or on to Valkey.                                      *)
LEMMA LookLocalKeeps == ASSUME NEW r \in Evaluation PROVE Keeps(LookLocal(r))
<1>a. SUFFICES ASSUME DecisionsInv, LookLocal(r) PROVE DecisionsInv'
  BY Zenon DEF Keeps
<1>1. UNCHANGED world /\ UNCHANGED <<local, remote>> /\ req[r].pc = "LOCAL"
  BY <1>a, Zenon DEF LookLocal, world
<1>2. CachesInv'
  BY <1>a, <1>1, SameCaches, Zenon DEF DecisionsInv, world
<1>3. PICK d : d = req[r]
  BY Zenon
<1>4. \/ \E e \in local : e.key = d.key /\ req' = [req EXCEPT ![r] = Allow(d.begun, e.own)]
      \/ req' = [req EXCEPT ![r] = [d EXCEPT !.pc = "REMOTE"]]
  BY <1>a, <1>3, Zenon DEF LookLocal
<1>5. ASSUME NEW e \in local, e.key = d.key, req' = [req EXCEPT ![r] = Allow(d.begun, e.own)]
      PROVE  DecisionsInv'
  <2>1. RequestInv(Allow(d.begun, e.own))
    BY <1>a, <1>1, <1>3, <1>5, HitIsAllowed, Zenon
  <2> QED
    BY <1>a, <1>1, <1>2, <1>5, <2>1, RequestMoves, Zenon
<1>6. CASE req' = [req EXCEPT ![r] = [d EXCEPT !.pc = "REMOTE"]]
  BY <1>a, <1>1, <1>2, <1>3, <1>6, MissKeeps, Zenon
<1> QED
  BY <1>4, <1>5, <1>6, Zenon

(* localSet adds one entry at most.                                        *)
LEMMA LocalGains ==
    ASSUME NEW entry, localSet(entry)
    PROVE  local' \subseteq local \cup {entry}
BY Zenon DEF localSet

(* LookRemote: a hit moves into the process as it is, or on to the         *)
(* authority.                                                              *)
LEMMA LookRemoteKeeps == ASSUME NEW r \in Evaluation PROVE Keeps(LookRemote(r))
<1>a. SUFFICES ASSUME DecisionsInv, LookRemote(r) PROVE DecisionsInv'
  BY Zenon DEF Keeps
<1>1. UNCHANGED world /\ remote' = remote /\ req[r].pc = "REMOTE"
  BY <1>a, Zenon DEF LookRemote, world
<1>2. PICK d : d = req[r]
  BY Zenon
<1>3. \/ \E e \in remote :
            /\ e.key = d.key
            /\ localSet([e EXCEPT !.expires = Smaller(@, elapsed + ttl(d.age))])
            /\ req' = [req EXCEPT ![r] = Allow(d.begun, e.own)]
      \/ /\ req' = [req EXCEPT ![r] = [d EXCEPT !.pc = "EPOCHS"]]
         /\ local' = local
  BY <1>a, <1>2, Zenon DEF LookRemote
<1>4. ASSUME NEW e \in remote, e.key = d.key,
             localSet([e EXCEPT !.expires = Smaller(@, elapsed + ttl(d.age))]),
             req' = [req EXCEPT ![r] = Allow(d.begun, e.own)]
      PROVE  DecisionsInv'
  <2>1. PICK f : f = [e EXCEPT !.expires = Smaller(@, elapsed + ttl(d.age))]
    BY Zenon
  <2>2. EntryInv(e)
    BY <1>a, <1>4, Zenon DEF DecisionsInv, CachesInv
  <2>3. /\ f.key = e.key /\ f.own = e.own
        /\ f = [key |-> f.key, expires |-> f.expires, own |-> f.own]
    <3>1. PICK k, x, o : e = [key |-> k, expires |-> x, own |-> o]
      BY <2>2, Zenon DEF EntryInv
    <3>2. PICK y : f = [key |-> k, expires |-> y, own |-> o]
      BY <2>1, <3>1, Zenon
    <3> QED
      BY <3>1, <3>2, Zenon
  <2>4. EntryInv(f)
    BY <2>2, <2>3, Zenon DEF EntryInv
  <2>5. local' \subseteq local \cup {f}
    BY <1>4, <2>1, LocalGains, Zenon
  <2>6. \A g \in local' \cup remote' : EntryInv(g)
    BY <1>a, <1>1, <2>4, <2>5, Zenon DEF DecisionsInv, CachesInv
  <2>7. CachesInv'
    BY <1>1, <2>6, Zenon DEF CachesInv, EntryInv, KeyInv, world
  <2> QED
    BY <1>a, <1>1, <1>2, <1>4, <2>7, HitIsAllowed, RequestMoves, Zenon
<1>5. CASE /\ req' = [req EXCEPT ![r] = [d EXCEPT !.pc = "EPOCHS"]]
           /\ local' = local
  <2>1. CachesInv'
    BY <1>a, <1>1, <1>5, SameCaches, Zenon DEF DecisionsInv, world
  <2> QED
    BY <1>a, <1>1, <1>2, <1>5, <2>1, MissKeeps, Zenon
<1> QED
  BY <1>3, <1>4, <1>5, Zenon

(* ReadEpochs: a bounded request goes on only with the epochs of the       *)
(* authority.                                                              *)
LEMMA ReadEpochsKeeps == ASSUME NEW r \in Evaluation PROVE Keeps(ReadEpochs(r))
<1>a. SUFFICES ASSUME DecisionsInv, ReadEpochs(r) PROVE DecisionsInv'
  BY Zenon DEF Keeps
<1>1. UNCHANGED world /\ UNCHANGED <<local, remote>> /\ req[r].pc = "EPOCHS"
  BY <1>a, Zenon DEF ReadEpochs, world
<1>2. CachesInv'
  BY <1>a, <1>1, SameCaches, Zenon DEF DecisionsInv, world
<1>3. PICK d : d = req[r]
  BY Zenon
<1>4. Whole(d) /\ BegunInv(d.begun)
  BY <1>a, <1>1, <1>3, OneRequest, Zenon
<1>5. PICK x : x = [d EXCEPT !.pc = "ACTIVE"]
  BY Zenon
<1>6. \/ req' = [req EXCEPT ![r] = Free]
      \/ /\ req' = [req EXCEPT ![r] = x]
         /\ d.begun.class = "NORMAL" => d.epochs = authority.epochs
  BY <1>a, <1>3, <1>5, Zenon DEF ReadEpochs
<1>7. CASE req' = [req EXCEPT ![r] = Free]
  BY <1>a, <1>1, <1>2, <1>7, FreeRequest, RequestMoves, Zenon
<1>8. CASE /\ req' = [req EXCEPT ![r] = x]
           /\ d.begun.class = "NORMAL" => d.epochs = authority.epochs
  <2>1. x.pc = "ACTIVE" /\ x.begun = d.begun /\ x.key = d.key /\ x.epochs = d.epochs /\ Whole(x)
    BY <1>4, <1>5, MovedOn
  <2>2. CASE d.begun.class = "NORMAL" /\ NormalInv(d)
    <3>1. d.epochs = ZeroEpochs \/ authority.revoked
      BY <1>a, <1>8, <2>2, ZenonT(30) DEF DecisionsInv, AuthorityInv
    <3>2. NormalInv(x)
      BY <1>1, <1>3, <2>1, <2>2, <3>1, Zenon DEF NormalInv
    <3> QED
      BY <1>a, <1>1, <1>2, <1>4, <1>8, <2>1, <2>2, <3>2, RequestMoves, Zenon DEF RequestInv
  <2>3. CASE d.begun.class = "HIGH" /\ d.key = <<>>
    BY <1>a, <1>1, <1>2, <1>4, <1>8, <2>1, <2>3, RequestMoves, ZenonT(30) DEF RequestInv
  <2> QED
    BY <1>a, <1>1, <1>3, <2>2, <2>3, OneRequest, Zenon
<1> QED
  BY <1>6, <1>7, <1>8, Zenon

(* ReadActive: nobody passes once the revocation has committed.            *)
LEMMA ReadActiveKeeps == ASSUME NEW r \in Evaluation PROVE Keeps(ReadActive(r))
<1>a. SUFFICES ASSUME DecisionsInv, ReadActive(r) PROVE DecisionsInv'
  BY Zenon DEF Keeps
<1>1. UNCHANGED world /\ UNCHANGED <<local, remote>> /\ req[r].pc = "ACTIVE"
  BY <1>a, Zenon DEF ReadActive, world
<1>2. CachesInv'
  BY <1>a, <1>1, SameCaches, ZenonT(30) DEF DecisionsInv, world
<1>3. PICK d : d = req[r]
  BY Zenon
<1>4. Whole(d) /\ BegunInv(d.begun)
  BY <1>a, <1>1, <1>3, OneRequest, Zenon
<1>5. PICK x : x = [d EXCEPT !.pc = "STORE"]
  BY Zenon
<1>6. req = [q \in Evaluation |-> req[q]]
  BY <1>a, Zenon DEF DecisionsInv, RequestsInv
<1>7. \/ req' = [req EXCEPT ![r] = Free]
      \/ ~ authority.revoked /\ req' = [req EXCEPT ![r] = Allow(d.begun, TRUE)]
      \/ ~ authority.revoked /\ d.key # <<>> /\ req' = [req EXCEPT ![r] = x]
  BY <1>a, <1>3, <1>5, <1>6, Zenon DEF ReadActive
<1>8. CASE req' = [req EXCEPT ![r] = Free]
  BY <1>a, <1>1, <1>2, <1>8, FreeRequest, RequestMoves, Zenon
<1>9. CASE ~ authority.revoked /\ req' = [req EXCEPT ![r] = Allow(d.begun, TRUE)]
  BY <1>a, <1>1, <1>2, <1>4, <1>9, UnrevokedAllows, RequestMoves, Zenon
<1>10. CASE ~ authority.revoked /\ d.key # <<>> /\ req' = [req EXCEPT ![r] = x]
  <2>1. x.pc = "STORE" /\ x.begun = d.begun /\ x.key = d.key /\ x.epochs = d.epochs /\ Whole(x)
    BY <1>4, <1>5, MovedOn
  <2>2. d.begun.class = "NORMAL" /\ NormalInv(d)
    BY <1>a, <1>1, <1>3, <1>10, OneRequest, Zenon
  <2>3. d.begun.at = Never /\ acked = Never
    BY <1>a, <1>4, <1>10, UnrevokedAllows, Zenon DEF DecisionsInv, AuthorityInv
  <2>4. d.epochs = ZeroEpochs /\ KeyInv(d.key)
    BY <1>1, <1>3, <1>10, <2>2, <2>3, ZenonT(30) DEF NormalInv, KeyInv
  <2>5. NormalInv(x)
    BY <1>1, <1>3, <2>1, <2>2, <2>3, <2>4, Zenon DEF NormalInv
  <2> QED
    BY <1>a, <1>1, <1>2, <1>4, <1>10, <2>1, <2>2, <2>5, RequestMoves, Zenon DEF RequestInv
<1> QED
  BY <1>7, <1>8, <1>9, <1>10, Zenon

(* Store: the entry carries the key that was read before the live call.    *)
LEMMA StoreKeeps == ASSUME NEW r \in Evaluation PROVE Keeps(Store(r))
<1>a. SUFFICES ASSUME DecisionsInv, Store(r) PROVE DecisionsInv'
  BY Zenon DEF Keeps
<1>1. UNCHANGED world /\ req[r].pc = "STORE"
  BY <1>a, Zenon DEF Store, world
<1>2. PICK d : d = req[r]
  BY Zenon
<1>3. BegunInv(d.begun) /\ d.begun.class = "NORMAL" /\ NormalInv(d)
  BY <1>a, <1>1, <1>2, OneRequest, ZenonT(30)
<1>4. d.key[3] = 0 /\ KeyInv(d.key) /\ d.begun.at = Never
  BY <1>1, <1>2, <1>3, EpochFacts, Zenon DEF NormalInv
<1>5. PICK entry : entry = [key |-> d.key, expires |-> elapsed + ttl(d.age), own |-> TRUE]
  BY Zenon
<1>6. EntryInv(entry)
  <2>1. /\ entry.key = d.key
        /\ entry = [key |-> entry.key, expires |-> entry.expires, own |-> entry.own]
    BY <1>5, Zenon
  <2> QED
    BY <1>4, <2>1, Zenon DEF EntryInv
<1>7. /\ local' \subseteq local \cup {entry}
      /\ remote' \subseteq remote \cup {entry}
      /\ req' = [req EXCEPT ![r] = Allow(d.begun, TRUE)]
  <2>1. req = [q \in Evaluation |-> req[q]]
    BY <1>a, Zenon DEF DecisionsInv, RequestsInv
  <2>2. /\ \/ local' = local /\ remote' = remote
           \/ localSet(entry) /\ remote' \in {remote, Set(entry)}
        /\ req' = [req EXCEPT ![r] = Allow(d.begun, TRUE)]
    BY <1>a, <1>2, <1>5, <2>1, Zenon DEF Store, KeyOf
  <2> QED
    BY <2>2, LocalGains, Zenon DEF Set
<1>8. CachesInv'
  <2>1. \A e \in local' \cup remote' : EntryInv(e)
    BY <1>a, <1>6, <1>7, Zenon DEF DecisionsInv, CachesInv
  <2> QED
    BY <1>1, <2>1, Zenon DEF CachesInv, EntryInv, KeyInv, world
<1>9. RequestInv(Allow(d.begun, TRUE))
  <2>1. ~ d.begun.acked /\ Within(d.begun)
    BY <1>3, <1>4, Zenon DEF BegunInv, Within
  <2> QED
    BY <1>3, <2>1, <1>4, AllowedRequest, Zenon
<1> QED
  BY <1>a, <1>1, <1>7, <1>8, <1>9, RequestMoves, Zenon

(* What a step of the environment leaves a request: free, or as it was.    *)
LEMMA Others ==
    ASSUME DecisionsInv, UNCHANGED req, \A d : RequestInv(d) => RequestInv(d)'
    PROVE  RequestsInv'
<1>1. req = [q \in Evaluation |-> req[q]] /\ \A q \in Evaluation : RequestInv(req[q])
  BY Zenon DEF DecisionsInv, RequestsInv
<1>2. ASSUME NEW q \in Evaluation PROVE RequestInv(req[q])'
  <2>1. PICK y : y = req[q]
    BY Zenon
  <2>2. RequestInv(y)' /\ req'[q] = y
    BY <1>1, <2>1, Zenon
  <2> QED
    BY <2>2, Zenon DEF RequestInv, NormalInv, BegunInv, Within, Known, KeyInv, Whole
<1> QED
  BY <1>1, <1>2, Zenon DEF RequestsInv

(* PeerStores: the entry is of the old epochs; its generation may be any.  *)
LEMMA PeerStoresKeeps == Keeps(PeerStores)
<1>a. SUFFICES ASSUME DecisionsInv, PeerStores PROVE DecisionsInv'
  BY Zenon DEF Keeps
<1>1. /\ elapsed' = elapsed /\ authority' = authority /\ acked' = acked /\ tracker' = tracker
      /\ load' = load /\ generation' = generation /\ local' = local /\ req' = req
  BY <1>a, Zenon DEF PeerStores
<1>2. PICK gen, life, decision :
        /\ decision = [begun |-> [class |-> "NORMAL"], epochs |-> ZeroEpochs]
        /\ remote' = Set([key |-> cacheKey(decision, gen), expires |-> elapsed + life,
                          own |-> FALSE])
  BY <1>a, Zenon DEF PeerStores
<1>3. PICK entry : entry = [key |-> cacheKey(decision, gen), expires |-> elapsed + life,
                            own |-> FALSE]
  BY Zenon
<1>4. EntryInv(entry)
  <2>1. entry.key = cacheKey(decision, gen) /\ decision.epochs = ZeroEpochs
    BY <1>2, <1>3, Zenon
  <2>2. entry.key[3] = 0
    <3>1. cacheKey(decision, gen)[3] = decision.epochs.security
      BY KeyParts, Zenon
    <3>2. ZeroEpochs.security = 0
      BY EpochFacts, Zenon
    <3> QED
      BY <2>1, <3>1, <3>2, Zenon
  <2>3. entry = [key |-> entry.key, expires |-> entry.expires, own |-> entry.own] /\ ~ entry.own
    BY <1>3, Zenon
  <2> QED
    BY <2>2, <2>3, Zenon DEF EntryInv
<1>5. remote' \subseteq remote \cup {entry}
  BY <1>2, <1>3, Zenon DEF Set
<1>6. \A e \in local' \cup remote' : EntryInv(e)
  BY <1>a, <1>1, <1>4, <1>5, Zenon DEF DecisionsInv, CachesInv
<1>7. CachesInv'
  BY <1>1, <1>6, Zenon DEF CachesInv, EntryInv, KeyInv
<1>8. AuthorityInv' /\ LoadInv' /\ TrackerInv'
  BY <1>a, <1>1, Zenon DEF DecisionsInv, AuthorityInv, LoadInv, TrackerInv, Known
<1>9. RequestsInv'
  BY <1>a, <1>1, Unmoved, Others, Zenon
<1> QED
  BY <1>7, <1>8, <1>9, Zenon DEF DecisionsInv

(* The revocation commits: whatever was read until now is not later.       *)
LEMMA CommitKeeps == Keeps(CommitRevocation)
<1>a. SUFFICES ASSUME DecisionsInv, CommitRevocation PROVE DecisionsInv'
  BY Zenon DEF Keeps
<1>1. AuthorityInv /\ LoadInv /\ TrackerInv /\ CachesInv
  BY <1>a, Zenon DEF DecisionsInv
<1>2. /\ ~ authority.revoked
      /\ authority' = [revoked |-> TRUE, at |-> elapsed, epochs |-> Bumped(authority.epochs)]
      /\ UNCHANGED <<elapsed, acked, tracker, load, generation, local, remote, req>>
  BY <1>a, Zenon DEF CommitRevocation
<1>3. authority.epochs = ZeroEpochs /\ acked = Never /\ elapsed \in Nat
  BY <1>1, <1>2, Zenon DEF AuthorityInv
<1>4. authority'.revoked /\ authority'.at = elapsed /\ authority'.epochs = NewEpochs
  BY <1>2, <1>3, Zenon DEF NewEpochs
<1>5. AuthorityInv'
  BY <1>1, <1>2, <1>3, <1>4 DEF AuthorityInv
<1>6. \A e : Known(e) => e = ZeroEpochs /\ Known(e)'
  BY <1>2, Zenon DEF Known
<1>7. LoadInv'
  BY <1>1, <1>2, <1>4, <1>6, Zenon DEF LoadInv, Known
<1>8. TrackerInv'
  BY <1>1, <1>2, <1>3, <1>4, <1>6, DecisionsAssumption DEF TrackerInv, Known
<1>9. CachesInv'
  BY <1>1, <1>2, SameCaches, Zenon
<1>10. \A b : BegunInv(b) => b.at = Never /\ BegunInv(b)' /\ Within(b)'
  BY <1>2, <1>3, <1>4, Zenon DEF BegunInv, Within
<1>11. \A d : RequestInv(d) => RequestInv(d)'
  <2>1. \A k : KeyInv(k) => KeyInv(k)'
    BY <1>2, Zenon DEF KeyInv
  <2>2. \A d : NormalInv(d) /\ BegunInv(d.begun) => NormalInv(d)'
    BY <1>2, <1>4, <1>6, <1>10, <2>1 DEF NormalInv
  <2> QED
    BY <1>10, <2>2, ZenonT(30) DEF RequestInv, Whole
<1> QED
  BY <1>a, <1>2, <1>5, <1>7, <1>8, <1>9, <1>11, Others, Zenon DEF DecisionsInv

(* The generation moves on and the local entries go.                       *)
LEMMA Invalidates ==
    ASSUME DecisionsInv, InvalidateTenant,
           UNCHANGED <<elapsed, authority, tracker, remote, req>>,
           acked' = acked \/ (acked = Never /\ acked' = generation' /\ authority.revoked),
           LoadInv'
    PROVE  DecisionsInv'
<1>1. AuthorityInv /\ TrackerInv /\ CachesInv
  BY Zenon DEF DecisionsInv
<1>2. /\ generation \in Nat /\ generation' = generation + 1 /\ local' = {}
      /\ acked = Never \/ (acked \in Nat /\ acked <= generation)
      /\ acked' = acked \/ (acked = Never /\ acked' = generation + 1)
  BY <1>1, ZenonT(30) DEF InvalidateTenant, AuthorityInv
<1>3. AuthorityInv' /\ TrackerInv'
  BY <1>1, <1>2 DEF AuthorityInv, TrackerInv, Known
<1>4. \A k : KeyInv(k) => KeyInv(k)'
  BY <1>2 DEF KeyInv
<1>5. CachesInv'
  BY <1>1, <1>2, <1>4, Zenon DEF CachesInv, EntryInv
<1>6. \A d : RequestInv(d) => RequestInv(d)'
  <2>1. \A b : (BegunInv(b) => BegunInv(b)') /\ (Within(b) => Within(b)')
    BY <1>2, ZenonT(30) DEF BegunInv, Within
  <2>2. \A b : BegunInv(b) /\ b.acked => acked' = acked
    BY <1>2, Zenon DEF BegunInv
  <2>3. \A k : k \in Nat /\ k <= generation => k <= generation'
    BY <1>2
  <2>4. \A d : NormalInv(d) /\ BegunInv(d.begun) => NormalInv(d)'
    BY <1>4, <2>1, <2>2, <2>3, Zenon DEF NormalInv, Known
  <2> QED
    BY <2>1, <2>4, Zenon DEF RequestInv, Whole
<1> QED
  BY <1>3, <1>5, <1>6, Others, Zenon DEF DecisionsInv

(* The acknowledgement of a revocation.                                    *)
LEMMA AcknowledgeKeeps == Keeps(AcknowledgeRevocation)
<1>a. SUFFICES ASSUME DecisionsInv, AcknowledgeRevocation PROVE DecisionsInv'
  BY Zenon DEF Keeps
<1>1. LoadInv'
  BY <1>a, Zenon DEF DecisionsInv, AcknowledgeRevocation, LoadInv, Known
<1> QED
  BY <1>a, <1>1, Invalidates, Zenon DEF AcknowledgeRevocation

(* A notification moves the generation of the caches.                      *)
LEMMA NotifyKeeps == Keeps(NotifyCaches)
<1>a. SUFFICES ASSUME DecisionsInv, NotifyCaches PROVE DecisionsInv'
  BY Zenon DEF Keeps
<1>1. LoadInv'
  BY <1>a, Zenon DEF NotifyCaches, NoLoad, LoadInv
<1> QED
  BY <1>a, <1>1, Invalidates, Zenon DEF NotifyCaches

(* A step of the refresh that touches neither caches nor requests.         *)
LEMMA Refreshes ==
    ASSUME DecisionsInv, LoadInv', TrackerInv',
           UNCHANGED <<elapsed, authority, acked, generation, local, remote, req>>
    PROVE  DecisionsInv'
<1>1. AuthorityInv'
  BY Zenon DEF DecisionsInv, AuthorityInv
<1>2. CachesInv'
  BY SameCaches, Zenon DEF DecisionsInv
<1>3. \A d : RequestInv(d) => RequestInv(d)'
  BY Unmoved, Zenon
<1>4. RequestsInv'
  BY <1>3, Others, Zenon
<1> QED
  BY <1>1, <1>2, <1>4, Zenon DEF DecisionsInv

(* A load sees the epochs of its moment.                                   *)
LEMMA LoadKeeps == Keeps(LoadState)
<1>a. SUFFICES ASSUME DecisionsInv, LoadState PROVE DecisionsInv'
  BY Zenon DEF Keeps
<1>1. AuthorityInv /\ TrackerInv
  BY <1>a, Zenon DEF DecisionsInv
<1>2. /\ load'.at = elapsed /\ load'.epochs = authority.epochs
      /\ UNCHANGED <<elapsed, authority, acked, tracker, generation, local, remote, req>>
  BY <1>a, Zenon DEF LoadState
<1>3. LoadInv'
  BY <1>1, <1>2, EpochFacts, DecisionsAssumption, SMTT(30) DEF LoadInv, AuthorityInv, Known
<1>4. TrackerInv'
  BY <1>1, <1>2, Zenon DEF TrackerInv, Known
<1> QED
  BY <1>a, <1>2, <1>3, <1>4, Refreshes, Zenon

(* The merge of old and new epochs is new.                                 *)
LEMMA Merges ==
    /\ MergeEpochs(ZeroEpochs, ZeroEpochs) = ZeroEpochs
    /\ MergeEpochs(ZeroEpochs, NewEpochs) = NewEpochs
    /\ MergeEpochs(NewEpochs, NewEpochs) = NewEpochs
<1>1. \A f \in EpochField : ZeroEpochs[f] = 0 /\ NewEpochs[f] \in {0, 1}
  BY DEF ZeroEpochs, NewEpochs, Bumped
<1>2. /\ ZeroEpochs = [f \in EpochField |-> ZeroEpochs[f]]
      /\ NewEpochs = [f \in EpochField |-> NewEpochs[f]]
  BY Zenon DEF ZeroEpochs, NewEpochs, Bumped
<1>3. \A f \in EpochField : /\ Larger(ZeroEpochs[f], ZeroEpochs[f]) = ZeroEpochs[f]
                            /\ Larger(ZeroEpochs[f], NewEpochs[f]) = NewEpochs[f]
                            /\ Larger(NewEpochs[f], NewEpochs[f]) = NewEpochs[f]
  <2>1. \A n \in Nat : Larger(0, n) = n /\ Larger(n, n) = n
    BY DEF Larger
  <2>2. \A f \in EpochField : NewEpochs[f] \in Nat
    BY EpochFacts, Zenon
  <2> QED
    BY <1>1, <2>1, <2>2, Zenon
<1> QED
  BY <1>2, <1>3, Zenon DEF MergeEpochs

(* An accepted observation does not fall behind the tracker.               *)
LEMMA Accepted ==
    ASSUME RecordState
    PROVE  \/ tracker' = tracker
           \/ /\ tracker'.epochs = MergeEpochs(tracker.epochs, load.epochs)
              /\ tracker'.observed = elapsed
              /\ ~ (load.epochs.security < tracker.epochs.security)
<1>1. PICK o : o = RecordOutcome(tracker, load.seq, load.epochs, FALSE)
  BY Zenon
<1>2. \/ o = "REGRESSION"
      \/ o = "ACCEPTED" /\ ~ (load.epochs.security < tracker.epochs.security)
  BY <1>1, Zenon DEF RecordOutcome
<1>3. CASE o = "REGRESSION"
  BY <1>1, <1>3, ZenonT(30) DEF RecordState, Recorded
<1>4. CASE o = "ACCEPTED" /\ ~ (load.epochs.security < tracker.epochs.security)
  <2>1. tracker' = [seq |-> load.seq, epochs |-> MergeEpochs(tracker.epochs, load.epochs),
                    observed |-> elapsed, head |-> Larger(tracker.head, load.seq),
                    gap |-> FALSE /\ tracker.gap, has |-> TRUE]
    BY <1>1, <1>4, Zenon DEF RecordState, Recorded
  <2> QED
    BY <1>4, <2>1, Zenon
<1> QED
  BY <1>2, <1>3, <1>4, Zenon

(* What is recorded was loaded at most MaxLoad ago.                        *)
LEMMA RecordStateKeeps == Keeps(RecordState)
<1>a. SUFFICES ASSUME DecisionsInv, RecordState PROVE DecisionsInv'
  BY Zenon DEF Keeps
<1>1. AuthorityInv /\ TrackerInv /\ LoadInv
  BY <1>a, Zenon DEF DecisionsInv
<1>2. /\ load.phase = "LOADED" /\ load'.phase # "LOADED"
      /\ UNCHANGED <<elapsed, authority, acked, generation, local, remote, req>>
  BY <1>a, Zenon DEF RecordState, NoLoad
<1>3. LoadInv'
  BY <1>2, Zenon DEF LoadInv
<1>4. CASE tracker' = tracker
  BY <1>a, <1>1, <1>2, <1>3, <1>4, Refreshes, Zenon DEF TrackerInv, Known
<1>5. CASE /\ tracker'.epochs = MergeEpochs(tracker.epochs, load.epochs)
           /\ tracker'.observed = elapsed
           /\ ~ (load.epochs.security < tracker.epochs.security)
  <2>1. /\ Known(load.epochs) /\ Known(tracker.epochs) /\ elapsed \in Nat
        /\ load.at \in Nat /\ elapsed <= load.at + MaxLoad
        /\ load.epochs = ZeroEpochs /\ authority.revoked => load.at <= authority.at
        /\ authority.revoked => authority.at \in Nat
    BY <1>1, <1>2 DEF LoadInv, TrackerInv, AuthorityInv
  <2>2. ~ (tracker.epochs = NewEpochs /\ load.epochs = ZeroEpochs)
    BY <1>5, EpochFacts
  <2>3. tracker'.epochs = load.epochs
    BY <1>5, <2>1, <2>2, Merges, ZenonT(30) DEF Known
  <2>4. Known(tracker.epochs)'
    BY <1>2, <2>1, <2>3, Zenon DEF Known
  <2>5. tracker'.epochs = ZeroEpochs /\ authority.revoked => elapsed <= authority.at + MaxLoad
    BY <2>1, <2>3, DecisionsAssumption
  <2>6. tracker'.observed = elapsed /\ elapsed' = elapsed /\ authority' = authority
    BY <1>2, <1>5, Zenon
  <2>7. TrackerInv'
    <3>1. elapsed <= elapsed
      BY <2>1
    <3> QED
      BY <2>1, <2>4, <2>5, <2>6, <3>1, Zenon DEF TrackerInv
  <2> QED
    BY <1>a, <1>2, <1>3, <2>7, Refreshes, ZenonT(30)
<1> QED
  BY <1>a, <1>4, <1>5, Accepted, Zenon

(* A load that fails records nothing.                                      *)
LEMMA FailLoadKeeps == Keeps(FailLoad)
<1>a. SUFFICES ASSUME DecisionsInv, FailLoad PROVE DecisionsInv'
  BY Zenon DEF Keeps
<1>1. LoadInv' /\ TrackerInv'
  BY <1>a, Zenon DEF FailLoad, NoLoad, LoadInv, DecisionsInv, TrackerInv, Known
<1> QED
  BY <1>a, <1>1, Refreshes, ZenonT(30) DEF FailLoad

(* A load that is not recorded in time holds the elapsed up: MaxLoad bounds  *)
(* the time it takes.                                                      *)
LEMMA TickKeeps == Keeps(DecisionsTick)
<1>a. SUFFICES ASSUME DecisionsInv, DecisionsTick PROVE DecisionsInv'
  BY Zenon DEF Keeps
<1>1. AuthorityInv /\ LoadInv /\ TrackerInv /\ CachesInv
  BY <1>a, Zenon DEF DecisionsInv
<1>2. /\ elapsed' = elapsed + 1 /\ remote' \subseteq remote /\ local' \subseteq local
      /\ load.phase = "LOADED" => elapsed - load.at < MaxLoad
      /\ UNCHANGED <<authority, acked, tracker, load, generation, req>>
  BY <1>a, Zenon DEF DecisionsTick
<1>3. AuthorityInv'
  BY <1>1, <1>2, SMTT(30) DEF AuthorityInv
<1>4. LoadInv'
  BY <1>1, <1>2, DecisionsAssumption, SMTT(30) DEF LoadInv, AuthorityInv, Known
<1>5. TrackerInv'
  BY <1>1, <1>2, DecisionsAssumption DEF TrackerInv, AuthorityInv, Known
<1>6. CachesInv'
  BY <1>1, <1>2, Zenon DEF CachesInv, EntryInv, KeyInv
<1>7. \A d : RequestInv(d) => RequestInv(d)'
  BY <1>2, Unmoved, Zenon
<1>8. RequestsInv'
  BY <1>a, <1>2, <1>7, Others, Zenon
<1> QED
  BY <1>3, <1>4, <1>5, <1>6, <1>8, Zenon DEF DecisionsInv

(* Initially nothing is revoked, cached or under way.                      *)
LEMMA InitDecisions == DecisionsInit => DecisionsInv
<1>a. SUFFICES ASSUME DecisionsInit PROVE DecisionsInv
  BY Zenon
<1>1. /\ elapsed = 0 /\ acked = Never /\ generation = 0 /\ local = {} /\ remote = {}
      /\ authority.revoked = FALSE /\ ~ authority.revoked /\ authority.epochs = ZeroEpochs
      /\ tracker.observed = 0 /\ tracker.epochs = ZeroEpochs /\ load.phase # "LOADED"
  BY <1>a, Zenon DEF DecisionsInit, NewTracker, NoLoad
<1>2. AuthorityInv /\ LoadInv /\ CachesInv
  BY <1>1, Zenon DEF AuthorityInv, LoadInv, CachesInv
<1>3. TrackerInv
  <2>1. tracker.observed \in Nat /\ tracker.observed <= elapsed
    BY <1>1
  <2> QED
    BY <1>1, <2>1, Zenon DEF TrackerInv, Known
<1>4. RequestsInv
  BY <1>a, FreeRequest, Zenon DEF DecisionsInit, RequestsInv
<1> QED
  BY <1>2, <1>3, <1>4, ZenonT(30) DEF DecisionsInv

(* Every step keeps the invariant of the decisions.                        *)
LEMMA NextDecisions == DecisionsInv /\ [DecisionsNext]_decisionVars => DecisionsInv'
<1>a. SUFFICES ASSUME DecisionsInv, [DecisionsNext]_decisionVars PROVE DecisionsInv'
  BY Zenon
<1>1. CASE DecisionsNext
  BY <1>a, <1>1, CommitKeeps, AcknowledgeKeeps, LoadKeeps, RecordStateKeeps, NotifyKeeps,
     FailLoadKeeps, BeginKeeps, ReadGenerationKeeps, LookLocalKeeps, LookRemoteKeeps,
     ReadEpochsKeeps, ReadActiveKeeps, StoreKeeps, PeerStoresKeeps, TickKeeps, ZenonT(30)
  DEF DecisionsNext, Decide, Keeps
<1>2. CASE UNCHANGED decisionVars
  <2>1. UNCHANGED <<elapsed, authority, acked, tracker, load, generation, local, remote, req>>
    BY <1>2, ZenonT(30) DEF decisionVars
  <2>2. LoadInv' /\ TrackerInv'
    BY <1>a, <2>1, Zenon DEF DecisionsInv, LoadInv, TrackerInv, Known
  <2> QED
    BY <1>a, <2>1, <2>2, Refreshes, Zenon
<1> QED
  BY <1>a, <1>1, <1>2, Zenon

(* The inductive invariant of the decisions holds in every reachable       *)
(* state.                                                                  *)
THEOREM DecisionsInvariant == DecisionsSpec => []DecisionsInv
BY InitDecisions, NextDecisions, PTL DEF DecisionsSpec

(* What the invariant says of the requests allowed at this moment.         *)
LEMMA AllowedInv ==
    ASSUME DecisionsInv, NEW d \in Allowed
    PROVE  /\ d.begun.class = "NORMAL" => Within(d.begun)
           /\ d.begun.class = "HIGH" => d.begun.at = Never
           /\ d.begun.acked => ~ d.own
<1>1. PICK r \in Evaluation : req[r].pc = "ALLOWED" /\ d = req[r]
  BY Zenon DEF Allowed
<1>2. RequestInv(d) /\ d.pc = "ALLOWED"
  BY <1>1, Zenon DEF DecisionsInv, RequestsInv
<1> QED
  BY <1>2, Zenon DEF RequestInv, NormalInv

(* The freshness boundary and both caches together: an allowed request of  *)
(* a bounded class began at most MaxAge + MaxLoad after the revocation it  *)
(* ignores.                                                                *)
THEOREM StaleAllowsAreBounded == DecisionsSpec => []StaleAllowBounded
<1>1. DecisionsInv => StaleAllowBounded
  BY AllowedInv, Zenon DEF StaleAllowBounded, Within
<1> QED
  BY <1>1, DecisionsInvariant, PTL

(* AuthoritativeRevocations decides every high-risk write live.            *)
THEOREM HighRiskWritesAreLive == DecisionsSpec => []HighRiskIsLive
<1>1. DecisionsInv => HighRiskIsLive
  BY AllowedInv, Zenon DEF HighRiskIsLive
<1> QED
  BY <1>1, DecisionsInvariant, PTL

(* InvalidateTenant before the answer to a revocation is enough to keep    *)
(* every decision this process made away from the requests that begin      *)
(* after it; only an entry that another process left in Valkey can still   *)
(* let one through, within the bound above.                                *)
THEOREM AcknowledgedRevocationsAreEnforced == DecisionsSpec => []AcknowledgedIsEnforced
<1>1. DecisionsInv => AcknowledgedIsEnforced
  BY AllowedInv, Zenon DEF AcknowledgedIsEnforced
<1> QED
  BY <1>1, DecisionsInvariant, PTL

=============================================================================
