---------------------------- MODULE EvidenceChain ----------------------------
(***************************************************************************)
(* What evidence export promises, whoever exports and whatever fails       *)
(* (docs/contracts/evidence-events.md, "Authenticated export and           *)
(* integrity"): a sink's chain grows by one committed message at a time,   *)
(* never holds a message twice, is never more than one event ahead of what *)
(* is acknowledged, and every committed message ends up acknowledged.      *)
(***************************************************************************)
EXTENDS Integers, Sequences

CONSTANT Message

VARIABLES
    outbox,   \* messages committed so far
    chain,    \* what the sink accepted, in order
    acked     \* how much of the chain is acknowledged durably

vars == <<outbox, chain, acked>>

Accepted == {chain[i] : i \in DOMAIN chain}

Init ==
    /\ outbox = {}
    /\ chain = <<>>
    /\ acked = 0

Commit ==
    /\ \E m \in Message \ outbox : outbox' = outbox \cup {m}
    /\ UNCHANGED <<chain, acked>>

Accept ==
    /\ acked = Len(chain)
    /\ \E m \in outbox \ Accepted : chain' = Append(chain, m)
    /\ UNCHANGED <<outbox, acked>>

Acknowledge ==
    /\ acked < Len(chain)
    /\ acked' = acked + 1
    /\ UNCHANGED <<outbox, chain>>

Next == Commit \/ Accept \/ Acknowledge

Spec == Init /\ [][Next]_vars /\ WF_vars(Accept) /\ WF_vars(Acknowledge)
=============================================================================
