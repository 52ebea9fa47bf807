------------------------ MODULE MCResourceAccounting ------------------------
(* Instances of the resource ledger for TLC. *)
EXTENDS ResourceLedger, TLC

(* Structural grants of the instances *)
MCLimits == {[active |-> 1, total |-> 2, depth |-> 2]}
MCTopologyLimits ==
    {[active |-> 2, total |-> 2, depth |-> 2], [active |-> 1, total |-> 2, depth |-> 1]}

EnvelopeSymmetry == Permutations(Envelope)
VectorSymmetry == Permutations(Envelope) \cup Permutations(Dimension) \cup Permutations(Source)
=============================================================================
