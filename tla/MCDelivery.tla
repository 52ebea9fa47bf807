----------------------------- MODULE MCDelivery -----------------------------
(***************************************************************************)
(* The edges of the service: how commands on a run are answered, how its   *)
(* events reach a client, how its messages leave the outbox, and how the   *)
(* process that does all this starts and stops.  None of the four writes   *)
(* what another reads, so every behaviour is about one of them (part) and  *)
(* the others rest: there is no message to publish, the process is over.   *)
(***************************************************************************)
EXTENDS RunCommands, RunEvents, Outbox, ProcessLifecycle

CONSTANTS k, j

VARIABLE part

Signal(p, name, body, expected) ==
    [route |-> "signal", principal |-> p, key |-> name, body |-> body, expected |-> expected]
Cancel(p, name, expected) ==
    [route |-> "cancel", principal |-> p, key |-> name, body |-> "none", expected |-> expected]

(* Two callers use one key for different signals, a cancellation uses it   *)
(* too, and a signal uses the key the cancellation is stored under; one    *)
(* key is used for one signal only.                                        *)
MCCommand ==
    {Signal("p", k, "x", 0), Signal("q", k, "y", 0), Signal("p", j, "x", 0),
     Signal("p", CancelKey(k), "x", 1), Cancel("p", k, 0)}

Init ==
    /\ part \in {"commands", "stream", "outbox", "process"}
    /\ CommandsInit /\ StreamInit /\ OutboxInit
    /\ IF part = "process" THEN ProcessInit ELSE ProcessOver

Next ==
    \/ /\ part = "commands" /\ CommandsNext
       /\ UNCHANGED <<part, streamVars, outboxVars, processVars>>
    \/ /\ part = "stream" /\ StreamNext
       /\ UNCHANGED <<part, commandVars, outboxVars, processVars>>
    \/ /\ part = "outbox" /\ OutboxNext
       /\ UNCHANGED <<part, commandVars, streamVars, processVars>>
    \/ /\ part = "process" /\ ProcessNext
       /\ UNCHANGED <<part, commandVars, streamVars, outboxVars>>

Spec ==
    /\ Init
    /\ [][Next]_<<part, commandVars, streamVars, outboxVars, processVars>>
    /\ ProcessFairness

=============================================================================
