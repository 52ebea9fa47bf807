-------------------------- MODULE MCAdmissionPath ---------------------------
(***************************************************************************)
(* What stands between a request and a run: the policy decision and the    *)
(* caches it may come from, and the admission of the run for an agent      *)
(* version under an idempotency key.  Admission takes the decision as      *)
(* given, so every behaviour is about one of the two (part) and the other  *)
(* rests.                                                                  *)
(***************************************************************************)
EXTENDS AgentAdmission, PolicyDecisions, TLC

VARIABLE part

PathInit ==
    /\ part \in {"admission", "decision"}
    /\ Init /\ DecisionsInit

PathNext ==
    \/ part = "admission" /\ Next /\ UNCHANGED <<part, decisionVars>>
    \/ part = "decision" /\ DecisionsNext /\ UNCHANGED <<part, vars>>

PathSpec == PathInit /\ [][PathNext]_<<part, vars, decisionVars>>

(* Since one part rests, its requests may change places along with those   *)
(* of the other.                                                           *)
RequestSymmetry ==
    {f \in Permutations(Attempt \cup Evaluation) :
        /\ \A a \in Attempt : f[a] \in Attempt
        /\ (\E x \in DOMAIN f : f[x] = x) => \A x \in DOMAIN f : f[x] = x}

=============================================================================
