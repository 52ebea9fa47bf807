------------------------------- MODULE Governance -------------------------------
(***************************************************************************)
(* The privileged operations of a tenant together: policy administration   *)
(* and break-glass grants over one table of approvals.                     *)
(***************************************************************************)
EXTENDS PolicyAdministration, BreakGlass

CONSTANT MaxOps       \* bound: operations in all

vars == <<clock, approvals, administrationVars, breakGlassVars>>

TypeOK ==
    /\ clock \in 0 .. MaxTime
    /\ \A i \in DOMAIN approvals : approvals[i].state \in ApprovalState
    /\ bundles \subseteq [digest : Digest, artifact : Artifact]
    /\ \A v \in DOMAIN activations :
          \E b \in bundles : b.digest = activations[v].digest
    /\ integration \in Nat
    /\ \A s \in statements : s.grant \in DOMAIN grants

Init ==
    /\ clock = 0
    /\ approvals = <<>>
    /\ AdministrationInit
    /\ BreakGlassInit

Tick ==
    /\ clock < MaxTime
    /\ clock' = clock + 1
    /\ UNCHANGED <<approvals, configuration, replies, breakGlassVars>>

Remember == seen' = seen \cup {Context'}

Spent ==
    Cardinality(replies) + Cardinality(statements)
        + Cardinality({i \in DOMAIN approvals : approvals[i].provider = "external"})
        + Cardinality(UNION {{<<g, i>> : i \in DOMAIN grants[g].events} :
                               g \in DOMAIN grants})

Next ==
    \/ Tick /\ Remember
    \/ Spent < MaxOps /\ AdministrationNext /\ UNCHANGED <<clock, breakGlassVars>> /\ Remember
    \/ Spent <= MaxOps /\ BreakGlassNext /\ UNCHANGED <<clock, administrationVars>>

Spec == Init /\ [][Next]_vars

\* The privileged changes, each with the approval it rests on.
PrivilegedChanges ==
    {[approval |-> activations[v].approval, actor |-> activations[v].actor,
      at |-> activations[v].at, row |-> <<"activation", v>>] :
        v \in {w \in 2 .. Len(activations) :
                 \E u \in 1 .. w - 1 : activations[u].digest = activations[w].digest}}
    \cup
    {[approval |-> mappings[n].approval, actor |-> mappings[n].actor,
      at |-> mappings[n].at, row |-> <<"mappings", n>>] :
        n \in {k \in 2 .. Len(mappings) :
                 RoleMappingExpansion(mappings[k - 1].roles, mappings[k].roles)}}
    \cup
    {[approval |-> grants[g].approval, actor |-> grants[g].principal,
      at |-> grants[g].issued, row |-> <<"grant", g>>] : g \in DOMAIN grants}

(***************************************************************************)
(* Four eyes: every rollback, every expansion of administrative authority  *)
(* and every break-glass grant rests on an approval its actor asked for and *)
(* another principal gave, within its validity and before the change.      *)
(***************************************************************************)
IndependentlyApproved ==
    \A change \in PrivilegedChanges :
        /\ change.approval \in DOMAIN approvals
        /\ LET a == approvals[change.approval] IN
              /\ a.state = "CONSUMED"
              /\ a.requester = change.actor
              /\ a.approver \in Principal \ {change.actor}
              /\ a.requested <= a.decided /\ a.decided <= change.at
              /\ change.at < a.expires

(***************************************************************************)
(* One approval, one change: no approval is behind two privileged changes, *)
(* whichever of the consumers of approvals race for it.                    *)
(***************************************************************************)
ApprovalUsedOnce ==
    \A x, y \in PrivilegedChanges : x.approval = y.approval => x.row = y.row
=============================================================================
