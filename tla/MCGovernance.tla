------------------------------ MODULE MCGovernance ------------------------------
(***************************************************************************)
(* What an operator is known by and what an operator may change: the token *)
(* verifier of a process, and the privileged operations of a tenant.  They *)
(* share no state, so every behaviour is about one of them (part).         *)
(*                                                                         *)
(* Two policy administrators, p1 and p2, hold the IdP role x; y is another. *)
(***************************************************************************)
EXTENDS Governance, TokenVerifier, TLC

CONSTANTS x, y

VARIABLE part

MCExternalRole == [p \in Principal |-> x]
MCInitial == x :> "policy-admin" @@ y :> "none"
MCProposed ==
    { x :> "policy-admin" @@ y :> "policy-admin",
      x :> "none" @@ y :> "policy-admin",
      x :> "policy-admin" @@ y :> "none" }

MCSymmetry == Permutations(Principal)

MCInit ==
    /\ part \in {"operations", "keys"}
    /\ Init /\ VerifierInit
    /\ part = "operations" => published = Kid

MCNext ==
    \/ part = "operations" /\ Next /\ UNCHANGED <<part, verifierVars>>
    \/ part = "keys" /\ VerifierNext /\ UNCHANGED <<part, vars>>

MCSpec == MCInit /\ [][MCNext]_<<part, vars, verifierVars>>

=============================================================================
