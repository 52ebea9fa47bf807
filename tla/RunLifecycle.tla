---------------------------- MODULE RunLifecycle ----------------------------
(***************************************************************************)
(* The run state machine of internal/domain/run.go: which transitions      *)
(* exist, who may take them, and what a transition does to the stored      *)
(* lifecycle value [state, version, updated].  Pure operators; the modules *)
(* that own run rows (ResourceAccounting, RunWorker) apply them.           *)
(***************************************************************************)
EXTENDS Integers

CONSTANT MaxInt64     \* math.MaxInt64, the last value a counter can hold

ASSUME MaxInt64Assumption == MaxInt64 \in Nat \ {0}

RunState ==
    {"PENDING", "REJECTED", "ADMITTED", "RUNNING", "COMPLETED", "FAILED", "CANCELLED",
     "TIMED_OUT", "BUDGET_EXHAUSTED", "PAUSED_FOR_BUDGET", "FAILED_BUDGET"}

RunActor == {"CALLER", "WORKER", "GOVERNOR", "OPERATOR", "SYSTEM"}

TerminalState ==
    {"REJECTED", "COMPLETED", "FAILED", "CANCELLED", "TIMED_OUT", "FAILED_BUDGET"}

Terminal(state) == state \in TerminalState

transitionAllowed(from, to) ==
    \/ from = "PENDING" /\ to \in {"ADMITTED", "REJECTED"}
    \/ from = "ADMITTED" /\ to \in {"RUNNING", "CANCELLED", "TIMED_OUT"}
    \/ from = "RUNNING"
       /\ to \in {"COMPLETED", "FAILED", "CANCELLED", "TIMED_OUT", "BUDGET_EXHAUSTED"}
    \/ from = "BUDGET_EXHAUSTED" /\ to \in {"PAUSED_FOR_BUDGET", "FAILED_BUDGET"}
    \/ from = "PAUSED_FOR_BUDGET" /\ to \in {"RUNNING", "CANCELLED", "TIMED_OUT"}

(* The Go switch takes the first case that matches, so PENDING decides     *)
(* alone and every later case is about a state other than PENDING.         *)
actorAllowed(from, to, actor) ==
    IF from = "PENDING" THEN actor = "SYSTEM" ELSE
    \/ from = "ADMITTED" /\ to = "RUNNING" /\ actor = "WORKER"
    \/ to \in {"COMPLETED", "FAILED"} /\ actor = "WORKER"
    \/ to = "CANCELLED" /\ actor \in {"CALLER", "OPERATOR", "SYSTEM"}
    \/ to \in {"TIMED_OUT", "BUDGET_EXHAUSTED", "FAILED_BUDGET"} /\ actor \in {"GOVERNOR", "SYSTEM"}
    \/ from = "BUDGET_EXHAUSTED" /\ to = "PAUSED_FOR_BUDGET" /\ actor = "GOVERNOR"
    \/ from = "PAUSED_FOR_BUDGET" /\ to = "RUNNING" /\ actor = "GOVERNOR"

actorCanEstablishTerminal(actor, state) ==
    \/ state = "REJECTED" /\ actor = "SYSTEM"
    \/ state \in {"COMPLETED", "FAILED"} /\ actor = "WORKER"
    \/ state = "CANCELLED" /\ actor \in {"CALLER", "OPERATOR", "SYSTEM"}
    \/ state \in {"TIMED_OUT", "FAILED_BUDGET"} /\ actor \in {"GOVERNOR", "SYSTEM"}

-----------------------------------------------------------------------------
(* RunLifecycle.Transition.  A lifecycle is a record with at least the     *)
(* fields state, version and updated; a command that changes it satisfies  *)
(* Accepts and produces Moved, a command that is answered with the         *)
(* unchanged terminal value satisfies Replays, any other is an error.      *)

Accepts(run, to, actor, expected, at) ==
    /\ at >= run.updated
    /\ expected > 0
    /\ ~Terminal(run.state)
    /\ expected = run.version
    /\ transitionAllowed(run.state, to)
    /\ actorAllowed(run.state, to, actor)
    /\ run.version < MaxInt64

Replays(run, to, actor, expected, at) ==
    /\ at >= run.updated
    /\ expected > 0
    /\ Terminal(run.state)
    /\ run.state = to
    /\ actorCanEstablishTerminal(actor, to)

Moved(run, to, at) ==
    [run EXCEPT !.state = to, !.version = @ + 1, !.updated = at]

(* A transition some actor may take, with the version and clock left out:  *)
(* what a reader that only tracks states can see.                          *)
Step(from, to) ==
    /\ ~Terminal(from)
    /\ transitionAllowed(from, to)
    /\ \E actor \in RunActor : actorAllowed(from, to, actor)

=============================================================================
