--------------------------- MODULE GovernanceProofs ---------------------------
(***************************************************************************)
(* The privileged operations and the four-eyes approvals behind them, for  *)
(* every set of principals, artifacts, mappings, scopes and keys and any   *)
(* number of operations.                                                   *)
(***************************************************************************)
EXTENDS Governance, TLAPS

ApprovalDigest ==
    ({"activate"} \X Digest \X Nat)
        \cup ({"mappings"} \X Nat \X Proposed)
        \cup ({"grant"} \X Principal \X Scope \X Nat)

ApprovalAction ==
    {"POLICY_ROLLBACK", "EMERGENCY_EXPANSION", "POLICY_BYPASS", "GLOBAL_REVOCATION_CHANGE"}
ApprovalReason == {"requested", "rollback", "expand", "recover"}
ApprovalProvider == {"local-oidc", "external"}
GrantChange == {"USED", "REVOKED", "EXPIRED"}
GrantEvent == [change : GrantChange, at : Nat, seen : Nat]

Approval ==
    [action : ApprovalAction, digest : ApprovalDigest, requester : Principal,
     reason : ApprovalReason, provider : ApprovalProvider, state : ApprovalState,
     requested : Nat, expires : Nat, approver : Principal \cup {Nobody}, decided : Nat]

Activation ==
    [digest : Digest \cup {Provisioned}, actor : Principal \cup {Nobody}, approval : Nat,
     at : Nat]

Mapping ==
    [roles : Proposed \cup {Initial}, actor : Principal \cup {Nobody}, operator : BOOLEAN,
     approval : Nat, at : Nat]

Grant ==
    [principal : Principal, scope : Scope, approval : Nat, issued : Nat, expires : Nat,
     events : Seq(GrantEvent)]

Statement == [grant : DOMAIN grants, change : GrantChange, at : Nat, seen : Nat]

GovernanceTypeOK ==
    /\ clock \in Nat
    /\ approvals \in Seq(Approval)
    /\ activations \in Seq(Activation)
    /\ mappings \in Seq(Mapping)
    /\ drafts \in Seq(Digest)
    /\ grants \in Seq(Grant)
    /\ statements \subseteq Statement
    /\ seen \subseteq [at : Nat, version : Nat, revision : Nat]

(* An approval that was given was given by another principal, after it was *)
(* asked for.                                                              *)
DecidedByAnother ==
    \A i \in DOMAIN approvals : approvals[i].state \in {"APPROVED", "CONSUMED"} =>
        /\ approvals[i].approver \in Principal \ {approvals[i].requester}
        /\ approvals[i].requested <= approvals[i].decided

(* A change by actor at an instant rests on approval i.                    *)
Backed(i, actor, at) ==
    /\ i \in DOMAIN approvals
    /\ approvals[i].state = "CONSUMED"
    /\ approvals[i].requester = actor
    /\ approvals[i].decided <= at /\ at < approvals[i].expires

(* A row that names an approval rests on it, and was reviewed as it is.    *)
ActivationsBacked ==
    \A v \in DOMAIN activations : activations[v].approval # NotRequired =>
        /\ Backed(activations[v].approval, activations[v].actor, activations[v].at)
        /\ approvals[activations[v].approval].digest
               = PolicyActivationDigest(activations[v].digest, v - 1)

MappingsBacked ==
    \A n \in DOMAIN mappings : mappings[n].approval # NotRequired =>
        /\ Backed(mappings[n].approval, mappings[n].actor, mappings[n].at)
        /\ approvals[mappings[n].approval].digest = RoleMappingDigest(n - 1, mappings[n].roles)

GrantsBacked ==
    \A g \in DOMAIN grants :
        Backed(grants[g].approval, grants[g].principal, grants[g].issued)

(* A rollback and an expansion name an approval.                           *)
PrivilegedNamesApproval ==
    /\ \A v \in 2 .. Len(activations) :
          (\E u \in 1 .. v - 1 : activations[u].digest = activations[v].digest) =>
              activations[v].approval # NotRequired
    /\ \A n \in 2 .. Len(mappings) :
          RoleMappingExpansion(mappings[n - 1].roles, mappings[n].roles) =>
              mappings[n].approval # NotRequired

(* No two rows, of one table or of two, name the same approval.            *)
RowsDiffer ==
    /\ \A v, w \in DOMAIN activations : activations[v].approval # NotRequired =>
          (activations[v].approval = activations[w].approval => v = w)
    /\ \A m, n \in DOMAIN mappings : mappings[m].approval # NotRequired =>
          (mappings[m].approval = mappings[n].approval => m = n)
    /\ \A g, h \in DOMAIN grants : grants[g].approval = grants[h].approval => g = h
    /\ \A v \in DOMAIN activations : activations[v].approval # NotRequired =>
          /\ \A n \in DOMAIN mappings : activations[v].approval # mappings[n].approval
          /\ \A g \in DOMAIN grants : activations[v].approval # grants[g].approval
    /\ \A n \in DOMAIN mappings : mappings[n].approval # NotRequired =>
          \A g \in DOMAIN grants : mappings[n].approval # grants[g].approval

(* Uses are dated before the expiry of the grant, its expiry not before.   *)
Dated(event, g) ==
    /\ event.change = "USED" => event.at < g.expires
    /\ event.change = "EXPIRED" => g.expires <= event.at

(* What follows the end of a grant is a use that had not seen the end.     *)
Drains(g) ==
    /\ \A i \in DOMAIN g.events : Dated(g.events[i], g)
    /\ \A i, j \in DOMAIN g.events : g.events[i].change \in Terminal /\ i < j =>
          g.events[j].change = "USED" /\ g.events[j].seen < i

(* A statement in flight has not seen the end of its grant either.         *)
MayDrain(s, g) ==
    /\ Dated(s, g)
    /\ s.seen <= Len(g.events)
    /\ \A i \in DOMAIN g.events : g.events[i].change \in Terminal => s.seen < i

GrantsDrain ==
    /\ \A g \in DOMAIN grants : Drains(grants[g])
    /\ \A s \in statements : MayDrain(s, grants[s.grant])

GovernanceInv ==
    /\ GovernanceTypeOK
    /\ DecidedByAnother
    /\ ActivationsBacked /\ MappingsBacked /\ GrantsBacked
    /\ PrivilegedNamesApproval
    /\ RowsDiffer
    /\ RoleInForceAtCommit
    /\ GrantsDrain

-----------------------------------------------------------------------------
(* Sequences.                                                              *)
LEMMA AppendProperties ==
    ASSUME NEW S, NEW s \in Seq(S), NEW e \in S
    PROVE  /\ Append(s, e) \in Seq(S)
           /\ Len(Append(s, e)) = Len(s) + 1
           /\ \A i \in 1 .. Len(s) : Append(s, e)[i] = s[i]
           /\ Append(s, e)[Len(s) + 1] = e
OBVIOUS

(* What an appended sequence holds.                                        *)
LEMMA AppendElements ==
    ASSUME NEW S, NEW s \in Seq(S), NEW e \in S, NEW i \in DOMAIN Append(s, e)
    PROVE  \/ i \in DOMAIN s /\ Append(s, e)[i] = s[i]
           \/ i = Len(s) + 1 /\ Append(s, e)[i] = e
OBVIOUS

(* Replacing an element of a sequence.                                     *)
LEMMA ExceptSeq ==
    ASSUME NEW S, NEW s \in Seq(S), NEW i \in 1 .. Len(s), NEW e \in S
    PROVE  [s EXCEPT ![i] = e] \in Seq(S)
OBVIOUS

(* An element of a sequence.                                               *)
LEMMA ElementOfSeq ==
    ASSUME NEW S, NEW s \in Seq(S), NEW i \in DOMAIN s
    PROVE  s[i] \in S /\ i \in Nat
OBVIOUS

-----------------------------------------------------------------------------
(* The table of approvals.                                                 *)

(* What no step does: forget an approval, change what it is for, or touch  *)
(* one that was consumed.                                                  *)
ApprovalsKept ==
    /\ approvals' \in Seq(Approval)
    /\ DecidedByAnother'
    /\ \A i \in DOMAIN approvals :
          /\ i \in DOMAIN approvals'
          /\ approvals'[i].digest = approvals[i].digest
          /\ approvals[i].state = "CONSUMED" => approvals'[i] = approvals[i]

(* A request appends a pending approval.                                   *)
LEMMA CreateKeeps ==
    ASSUME approvals \in Seq(Approval), DecidedByAnother, NEW a \in Approval,
           a.state = "PENDING", CreateApproval(a)
    PROVE  ApprovalsKept
<1>1. /\ approvals' \in Seq(Approval)
      /\ Len(approvals') = Len(approvals) + 1
      /\ \A i \in 1 .. Len(approvals) : approvals'[i] = approvals[i]
      /\ approvals'[Len(approvals) + 1] = a
  BY AppendProperties DEF CreateApproval
<1>2. /\ DOMAIN approvals = 1 .. Len(approvals) /\ Len(approvals) \in Nat
      /\ DOMAIN approvals' = 1 .. Len(approvals')
  BY <1>1
<1>3. DecidedByAnother'
  BY <1>1, <1>2 DEF DecidedByAnother
<1> QED BY <1>1, <1>2, <1>3 DEF ApprovalsKept

(* A decision changes one pending approval, and its approver is another.   *)
LEMMA DecideKeeps ==
    ASSUME approvals \in Seq(Approval), DecidedByAnother, NEW i \in DOMAIN approvals,
           NEW p \in Principal, NEW ok \in BOOLEAN, NEW at \in Nat,
           DecideApproval(i, p, ok, at)
    PROVE  ApprovalsKept
<1> DEFINE a == approvals[i]
           b == Decided(a, p, ok, at)
<1>1. /\ a \in Approval /\ a.state = "PENDING" /\ p # a.requester /\ a.requested <= at
      /\ approvals' = [approvals EXCEPT ![i] = b]
  BY ElementOfSeq, Zenon DEF DecideApproval, Decidable
<1>2. /\ b \in Approval /\ b.digest = a.digest /\ b.requester = a.requester
      /\ b.approver = p /\ b.requested = a.requested /\ b.decided = at
  BY <1>1, Zenon DEF Decided, Approval, ApprovalState
<1> HIDE DEF b
<1>3. approvals' \in Seq(Approval)
  BY <1>1, <1>2, ExceptSeq
<1>4. /\ DOMAIN approvals' = DOMAIN approvals /\ approvals'[i] = b
      /\ \A j \in DOMAIN approvals : j # i => approvals'[j] = approvals[j]
  BY <1>1, Zenon
<1>5. DecidedByAnother'
  BY <1>1, <1>2, <1>4 DEF DecidedByAnother
<1> QED BY <1>1, <1>2, <1>3, <1>4, <1>5, Zenon DEF ApprovalsKept

(* A consumption changes one approved approval, which then backs a change  *)
(* of its requester at that instant.                                       *)
LEMMA ConsumeKeeps ==
    ASSUME approvals \in Seq(Approval), DecidedByAnother, NEW i \in DOMAIN approvals,
           NEW d, NEW at \in Nat, ConsumeApproval(i, d, at),
           NEW p, approvals[i].requester = p
    PROVE  /\ ApprovalsKept
           /\ approvals[i].state = "APPROVED"
           /\ approvals'[i].digest = d
           /\ Backed(i, p, at)'
<1> DEFINE a == approvals[i]
           b == Consumed(a)
<1>1. /\ a \in Approval /\ a.state = "APPROVED" /\ a.digest = d
      /\ a.decided <= at /\ at < a.expires
      /\ approvals' = [approvals EXCEPT ![i] = b]
  BY ElementOfSeq, Zenon DEF ConsumeApproval, Consumable
<1>2. /\ b \in Approval /\ b.state = "CONSUMED" /\ b.digest = a.digest
      /\ b.requester = a.requester /\ b.approver = a.approver /\ b.requested = a.requested
      /\ b.decided = a.decided /\ b.expires = a.expires
  BY <1>1, Zenon DEF Consumed, Approval, ApprovalState
<1> HIDE DEF b
<1>3. approvals' \in Seq(Approval)
  BY <1>1, <1>2, ExceptSeq
<1>4. /\ DOMAIN approvals' = DOMAIN approvals /\ approvals'[i] = b
      /\ \A j \in DOMAIN approvals : j # i => approvals'[j] = approvals[j]
  BY <1>1, Zenon
<1>5. DecidedByAnother'
  BY <1>1, <1>2, <1>4 DEF DecidedByAnother
<1>6. ApprovalsKept
  BY <1>1, <1>2, <1>3, <1>4, <1>5, Zenon DEF ApprovalsKept
<1>7. Backed(i, p, at)'
  BY <1>1, <1>2, <1>4, Zenon DEF Backed
<1> QED BY <1>1, <1>2, <1>4, <1>6, <1>7, Zenon

(* A step that leaves the approvals alone.                                 *)
LEMMA SameKeeps ==
    ASSUME approvals \in Seq(Approval), DecidedByAnother, UNCHANGED approvals
    PROVE  ApprovalsKept
BY Zenon DEF ApprovalsKept, DecidedByAnother

-----------------------------------------------------------------------------
(* The rows that rest on approvals.                                        *)

RowsInv ==
    /\ ActivationsBacked /\ MappingsBacked /\ GrantsBacked
    /\ PrivilegedNamesApproval
    /\ RowsDiffer
    /\ RoleInForceAtCommit

RowTypes ==
    /\ activations \in Seq(Activation)
    /\ mappings \in Seq(Mapping)
    /\ grants \in Seq(Grant)

(* Approvals that are kept go on backing what they back.                   *)
LEMMA StillBacked ==
    ASSUME ApprovalsKept, NEW i, NEW actor, NEW at, Backed(i, actor, at)
    PROVE  /\ Backed(i, actor, at)'
           /\ approvals'[i] = approvals[i]
BY Zenon DEF ApprovalsKept, Backed

(* A step that writes none of the rows keeps what is known of them.        *)
LEMMA RowsKept ==
    ASSUME RowsInv, ApprovalsKept, UNCHANGED <<activations, mappings>>,
           DOMAIN grants' = DOMAIN grants,
           \A g \in DOMAIN grants : /\ grants'[g].approval = grants[g].approval
                                    /\ grants'[g].principal = grants[g].principal
                                    /\ grants'[g].issued = grants[g].issued
    PROVE  RowsInv'
<1>1. ActivationsBacked'
  BY StillBacked, ZenonT(30) DEF RowsInv, ActivationsBacked
<1>2. MappingsBacked'
  BY StillBacked, ZenonT(30) DEF RowsInv, MappingsBacked
<1>3. GrantsBacked'
  BY StillBacked, Zenon DEF RowsInv, GrantsBacked
<1>4. PrivilegedNamesApproval'
  BY Zenon DEF RowsInv, PrivilegedNamesApproval
<1>5. RowsDiffer'
  BY DEF RowsInv, RowsDiffer
<1>6. RoleInForceAtCommit'
  BY Zenon DEF RowsInv, RoleInForceAtCommit, IsPolicyAdmin
<1> QED BY <1>1, <1>2, <1>3, <1>4, <1>5, <1>6, Zenon DEF RowsInv

(* An activation with a rollback approval, or of a new artifact.           *)
LEMMA ActivateRows ==
    ASSUME GovernanceTypeOK, DecidedByAnother, RowsInv,
           NEW p \in Principal, NEW d \in Digest,
           NEW i \in {NotRequired} \cup DOMAIN approvals,
           NEW c \in seen, StillCurrent(c), ActivatePolicy(p, d, i, c), UNCHANGED grants
    PROVE  ApprovalsKept /\ RowsInv' /\ RowTypes'
<1> DEFINE N == Len(activations) + 1
           row == [digest |-> d, actor |-> p, approval |-> i, at |-> c.at]
<1>0. /\ approvals \in Seq(Approval) /\ activations \in Seq(Activation)
      /\ mappings \in Seq(Mapping) /\ grants \in Seq(Grant)
      /\ c.at \in Nat /\ c.version = Len(activations)
      /\ i \in Nat /\ NotRequired = 0
  BY DEF GovernanceTypeOK, StillCurrent, NotRequired
<1>1. /\ activations' \in Seq(Activation)
      /\ Len(activations') = N
      /\ \A v \in 1 .. Len(activations) : activations'[v] = activations[v]
      /\ activations'[N] = row
      /\ mappings' = mappings
  <2>1. row \in Activation
    BY <1>0, Zenon DEF Activation
  <2> QED BY <1>0, <2>1, AppendProperties DEF ActivatePolicy
<1>2. /\ DOMAIN activations = 1 .. Len(activations) /\ Len(activations) \in Nat
      /\ DOMAIN activations' = 1 .. N
      /\ \A v \in DOMAIN activations' : v = N \/ (v \in DOMAIN activations /\ v # N)
      /\ N \in DOMAIN activations' /\ N - 1 = Len(activations)
  <2>1. DOMAIN activations = 1 .. Len(activations) /\ Len(activations) \in Nat
    BY <1>0
  <2>2. DOMAIN activations' = 1 .. N
    BY <1>1
  <2>3. N \in Nat \ {0} /\ N - 1 = Len(activations) /\ N \in 1 .. N
    BY <2>1
  <2>4. \A v \in 1 .. N : v = N \/ (v \in 1 .. Len(activations) /\ v # N)
    BY <2>1
  <2> QED BY <2>1, <2>2, <2>3, <2>4, Zenon
<1>3. /\ ApprovalsKept
      /\ i # NotRequired =>
            /\ approvals[i].state = "APPROVED"
            /\ Backed(i, p, c.at)'
            /\ approvals'[i].digest = PolicyActivationDigest(d, N - 1)
      /\ (\E v \in DOMAIN activations : activations[v].digest = d) => i # NotRequired
  <2>1. CASE \E v \in DOMAIN activations : activations[v].digest = d
    <3>1. /\ i \in DOMAIN approvals /\ approvals[i].requester = p
          /\ ConsumeApproval(i, PolicyActivationDigest(d, c.version), c.at)
      BY <2>1, Zenon DEF ActivatePolicy
    <3>2. i # NotRequired
      BY <1>0, <3>1
    <3>3. /\ ApprovalsKept /\ approvals[i].state = "APPROVED"
          /\ approvals'[i].digest = PolicyActivationDigest(d, c.version)
          /\ Backed(i, p, c.at)'
      BY <1>0, <3>1, ConsumeKeeps, ZenonT(30)
    <3>4. c.version = N - 1
      BY <1>0, <1>2, Zenon
    <3> QED BY <3>1, <3>2, <3>3, <3>4, Zenon
  <2>2. CASE ~ \E v \in DOMAIN activations : activations[v].digest = d
    <3>1. i = NotRequired /\ UNCHANGED approvals
      BY <2>2, Zenon DEF ActivatePolicy
    <3> QED BY <1>0, <2>2, <3>1, SameKeeps, Zenon
  <2> QED BY <2>1, <2>2, Zenon
<1>4. ActivationsBacked'
  BY <1>1, <1>2, <1>3, StillBacked DEF RowsInv, ActivationsBacked
<1>5. MappingsBacked'
  BY <1>1, <1>3, StillBacked, ZenonT(30) DEF RowsInv, MappingsBacked
<1>6. GrantsBacked'
  BY <1>3, StillBacked, Zenon DEF RowsInv, GrantsBacked
<1>7. PrivilegedNamesApproval'
  <2>1. /\ \A v \in 2 .. N - 1 : v \in DOMAIN activations
        /\ \A v \in 2 .. N : v = N \/ v \in 2 .. N - 1
        /\ \A v \in 2 .. N : \A u \in 1 .. v - 1 : u \in DOMAIN activations
    BY <1>2
  <2>2. ASSUME NEW v \in 2 .. N, NEW u \in 1 .. v - 1,
               activations'[u].digest = activations'[v].digest
        PROVE  activations'[v].approval # NotRequired
    <3>1. activations'[u] = activations[u]
      BY <1>1, <1>2, <2>1, Zenon
    <3>2. CASE v = N
      BY <1>1, <1>3, <2>1, <2>2, <3>1, <3>2
    <3>3. CASE v \in 2 .. N - 1
      BY <1>1, <1>2, <2>1, <2>2, <3>1, <3>3 DEF RowsInv, PrivilegedNamesApproval
    <3> QED BY <2>1, <3>2, <3>3, Zenon
  <2> QED BY <1>1, <2>2, Zenon DEF RowsInv, PrivilegedNamesApproval
<1>8. /\ \A v \in DOMAIN activations : activations[v].approval # NotRequired =>
            approvals[activations[v].approval].state = "CONSUMED"
      /\ \A n \in DOMAIN mappings : mappings[n].approval # NotRequired =>
            approvals[mappings[n].approval].state = "CONSUMED"
      /\ \A g \in DOMAIN grants : approvals[grants[g].approval].state = "CONSUMED"
  BY Zenon DEF RowsInv, ActivationsBacked, MappingsBacked, GrantsBacked, Backed
<1>9. RowsDiffer'
  BY <1>1, <1>2, <1>3, <1>8, SMTT(30) DEF RowsInv, RowsDiffer
<1>10. RoleInForceAtCommit'
  BY <1>1, Zenon DEF RowsInv, RoleInForceAtCommit, IsPolicyAdmin
<1> QED BY <1>0, <1>1, <1>3, <1>4, <1>5, <1>6, <1>7, <1>9, <1>10, Zenon DEF RowsInv, RowTypes

(* Role mappings, saved by an administrator of the revision they replace   *)
(* or by operator recovery.                                                *)
LEMMA MappingRows ==
    ASSUME GovernanceTypeOK, DecidedByAnother, RowsInv,
           NEW p \in Principal, NEW roles \in Proposed,
           NEW i \in {NotRequired} \cup DOMAIN approvals,
           NEW operator \in BOOLEAN, NEW at \in Nat,
           operator \/ IsPolicyAdmin(p, Len(mappings)),
           SaveRoleMappings(p, Len(mappings), roles, i, operator, at), UNCHANGED grants
    PROVE  ApprovalsKept /\ RowsInv' /\ RowTypes'
<1> DEFINE N == Len(mappings) + 1
           row == [roles |-> roles, actor |-> p, operator |-> operator, approval |-> i,
                   at |-> at]
           expands == RoleMappingExpansion(mappings[Len(mappings)].roles, roles)
<1>0. /\ approvals \in Seq(Approval) /\ activations \in Seq(Activation)
      /\ mappings \in Seq(Mapping) /\ grants \in Seq(Grant)
      /\ i \in Nat /\ NotRequired = 0
  BY DEF GovernanceTypeOK, NotRequired
<1>1. /\ mappings' \in Seq(Mapping)
      /\ Len(mappings') = N
      /\ \A n \in 1 .. Len(mappings) : mappings'[n] = mappings[n]
      /\ mappings'[N] = row
      /\ activations' = activations
  <2>1. row \in Mapping
    BY <1>0, Zenon DEF Mapping
  <2> QED BY <1>0, <2>1, AppendProperties DEF SaveRoleMappings
<1>2. /\ DOMAIN mappings = 1 .. Len(mappings) /\ Len(mappings) \in Nat
      /\ DOMAIN mappings' = 1 .. N
      /\ \A n \in DOMAIN mappings' : n = N \/ (n \in DOMAIN mappings /\ n # N)
      /\ N \in DOMAIN mappings' /\ N - 1 = Len(mappings)
  <2>1. DOMAIN mappings = 1 .. Len(mappings) /\ Len(mappings) \in Nat
    BY <1>0
  <2>2. DOMAIN mappings' = 1 .. N
    BY <1>1
  <2>3. N \in Nat \ {0} /\ N - 1 = Len(mappings) /\ N \in 1 .. N
    BY <2>1
  <2>4. \A n \in 1 .. N : n = N \/ (n \in 1 .. Len(mappings) /\ n # N)
    BY <2>1
  <2> QED BY <2>1, <2>2, <2>3, <2>4, Zenon
<1>3. /\ ApprovalsKept
      /\ i # NotRequired =>
            /\ approvals[i].state = "APPROVED"
            /\ Backed(i, p, at)'
            /\ approvals'[i].digest = RoleMappingDigest(N - 1, roles)
      /\ expands => i # NotRequired
  <2>1. CASE expands
    <3>1. /\ i \in DOMAIN approvals /\ approvals[i].requester = p
          /\ ConsumeApproval(i, RoleMappingDigest(Len(mappings), roles), at)
      BY <2>1, Zenon DEF SaveRoleMappings
    <3>2. i # NotRequired
      BY <1>0, <3>1
    <3>3. /\ ApprovalsKept /\ approvals[i].state = "APPROVED"
          /\ approvals'[i].digest = RoleMappingDigest(Len(mappings), roles)
          /\ Backed(i, p, at)'
      BY <1>0, <3>1, ConsumeKeeps, Zenon
    <3> QED BY <1>2, <3>2, <3>3, ZenonT(30)
  <2>2. CASE ~ expands
    <3>1. i = NotRequired /\ UNCHANGED approvals
      BY <2>2, Zenon DEF SaveRoleMappings
    <3> QED BY <1>0, <2>2, <3>1, SameKeeps, Zenon
  <2> QED BY <2>1, <2>2, Zenon
<1>4. MappingsBacked'
  BY <1>1, <1>2, <1>3, StillBacked DEF RowsInv, MappingsBacked
<1>5. ActivationsBacked'
  BY <1>1, <1>3, StillBacked, Zenon DEF RowsInv, ActivationsBacked
<1>6. GrantsBacked'
  BY <1>3, StillBacked, Zenon DEF RowsInv, GrantsBacked
<1>7. /\ \A n \in 2 .. N - 1 : n \in DOMAIN mappings /\ n - 1 \in DOMAIN mappings
      /\ \A n \in 2 .. N : n = N \/ n \in 2 .. N - 1
      /\ 2 <= N => N - 1 \in DOMAIN mappings
      /\ Len(mappings') = N /\ 2 .. Len(mappings) = 2 .. N - 1
  BY <1>1, <1>2
<1>8. PrivilegedNamesApproval'
  <2>1. ASSUME NEW n \in 2 .. N,
               RoleMappingExpansion(mappings'[n - 1].roles, mappings'[n].roles)
        PROVE  mappings'[n].approval # NotRequired
    <3>1. CASE n = N
      <4>1. mappings'[n - 1] = mappings[Len(mappings)] /\ mappings'[n].roles = roles
        BY <1>1, <1>2, <1>7, <3>1
      <4>2. expands
        BY <2>1, <4>1, Zenon
      <4> QED BY <1>1, <1>3, <3>1, <4>2
    <3>2. CASE n \in 2 .. N - 1
      <4>1. mappings'[n - 1] = mappings[n - 1] /\ mappings'[n] = mappings[n]
        BY <1>1, <1>2, <1>7, <3>2, Zenon
      <4> QED BY <1>7, <2>1, <3>2, <4>1, Zenon DEF RowsInv, PrivilegedNamesApproval
    <3> QED BY <1>7, <3>1, <3>2, Zenon
  <2> QED BY <1>1, <1>7, <2>1, Zenon DEF RowsInv, PrivilegedNamesApproval
<1>9. /\ \A v \in DOMAIN activations : activations[v].approval # NotRequired =>
            approvals[activations[v].approval].state = "CONSUMED"
      /\ \A n \in DOMAIN mappings : mappings[n].approval # NotRequired =>
            approvals[mappings[n].approval].state = "CONSUMED"
      /\ \A g \in DOMAIN grants : approvals[grants[g].approval].state = "CONSUMED"
  BY ZenonT(30) DEF RowsInv, ActivationsBacked, MappingsBacked, GrantsBacked, Backed
<1>10. RowsDiffer'
  BY <1>1, <1>2, <1>3, <1>9, SMTT(30) DEF RowsInv, RowsDiffer
<1>11. RoleInForceAtCommit'
  <2>1. ASSUME NEW n \in 2 .. N
        PROVE  mappings'[n].operator \/ IsPolicyAdmin(mappings[n].actor, n - 1)'
    <3>1. CASE n = N
      <4>1. mappings'[n - 1] = mappings[Len(mappings)] /\ mappings'[n] = row
        BY <1>1, <1>2, <1>7, <3>1
      <4> QED BY <4>1 DEF IsPolicyAdmin
    <3>2. CASE n \in 2 .. N - 1
      <4>1. mappings'[n - 1] = mappings[n - 1] /\ mappings'[n] = mappings[n]
        BY <1>1, <1>2, <1>7, <3>2, Zenon
      <4> QED BY <1>7, <3>2, <4>1, Zenon DEF RowsInv, RoleInForceAtCommit, IsPolicyAdmin
    <3> QED BY <1>7, <3>1, <3>2, Zenon
  <2> QED BY <1>7, <2>1, Zenon DEF RoleInForceAtCommit
<1> QED BY <1>0, <1>1, <1>3, <1>4, <1>5, <1>6, <1>8, <1>10, <1>11, Zenon DEF RowsInv, RowTypes

(* A break-glass grant.                                                    *)
LEMMA GrantRows ==
    ASSUME GovernanceTypeOK, DecidedByAnother, RowsInv,
           NEW p \in Principal, NEW i \in DOMAIN approvals, NEW scope \in Scope,
           NEW expires \in Nat, NEW now \in Nat,
           ActivateBreakGlass(p, i, scope, expires, now), UNCHANGED <<activations, mappings>>
    PROVE  ApprovalsKept /\ RowsInv' /\ RowTypes'
<1> DEFINE N == Len(grants) + 1
           row == [principal |-> p, scope |-> scope, approval |-> i, issued |-> now,
                   expires |-> expires, events |-> <<>>]
<1>0. /\ approvals \in Seq(Approval) /\ activations \in Seq(Activation)
      /\ mappings \in Seq(Mapping) /\ grants \in Seq(Grant) /\ i \in Nat
  BY DEF GovernanceTypeOK
<1>1. /\ grants' \in Seq(Grant)
      /\ Len(grants') = N
      /\ \A g \in 1 .. Len(grants) : grants'[g] = grants[g]
      /\ grants'[N] = row
  <2>1. row \in Grant
    BY <1>0 DEF Grant
  <2> QED BY <1>0, <2>1, AppendProperties DEF ActivateBreakGlass
<1>2. /\ DOMAIN grants = 1 .. Len(grants) /\ DOMAIN grants' = 1 .. N
      /\ \A g \in DOMAIN grants' : g = N \/ (g \in DOMAIN grants /\ g # N)
  <2>1. DOMAIN grants = 1 .. Len(grants) /\ Len(grants) \in Nat
    BY <1>0, SMTT(30)
  <2>2. DOMAIN grants' = 1 .. N
    BY <1>1
  <2>3. \A g \in 1 .. N : g = N \/ (g \in 1 .. Len(grants) /\ g # N)
    BY <2>1
  <2> QED BY <2>1, <2>2, <2>3, Zenon
<1>3. ApprovalsKept /\ approvals[i].state = "APPROVED" /\ Backed(i, p, now)'
  <2>1. /\ approvals[i].requester = p
        /\ ConsumeApproval(i, BreakGlassGrantDigest(p, scope, expires), now)
    BY Zenon DEF ActivateBreakGlass
  <2> QED BY <1>0, <2>1, ConsumeKeeps, Zenon
<1>4. ActivationsBacked'
  BY <1>3, StillBacked, Zenon DEF RowsInv, ActivationsBacked
<1>5. MappingsBacked'
  BY <1>3, StillBacked, ZenonT(30) DEF RowsInv, MappingsBacked
<1>6. GrantsBacked'
  BY <1>1, <1>2, <1>3, StillBacked DEF RowsInv, GrantsBacked
<1>7. PrivilegedNamesApproval'
  BY Zenon DEF RowsInv, PrivilegedNamesApproval
<1>8. /\ \A v \in DOMAIN activations : activations[v].approval # NotRequired =>
            approvals[activations[v].approval].state = "CONSUMED"
      /\ \A n \in DOMAIN mappings : mappings[n].approval # NotRequired =>
            approvals[mappings[n].approval].state = "CONSUMED"
      /\ \A g \in DOMAIN grants : approvals[grants[g].approval].state = "CONSUMED"
  BY Zenon DEF RowsInv, ActivationsBacked, MappingsBacked, GrantsBacked, Backed
<1>9. RowsDiffer'
  BY <1>1, <1>2, <1>3, <1>8, SMTT(30) DEF RowsInv, RowsDiffer
<1>10. RoleInForceAtCommit'
  BY Zenon DEF RowsInv, RoleInForceAtCommit, IsPolicyAdmin
<1> QED BY <1>0, <1>1, <1>3, <1>4, <1>5, <1>6, <1>7, <1>9, <1>10, Zenon DEF RowsInv, RowTypes

-----------------------------------------------------------------------------
(* Every operation keeps the approvals and the rows.                       *)
OperationKeeps ==
    /\ ApprovalsKept
    /\ RowsInv'
    /\ RowTypes'
    /\ drafts' \in Seq(Digest)

(* An operation that writes no row.                                        *)
LEMMA QuietKeeps ==
    ASSUME GovernanceTypeOK, RowsInv, ApprovalsKept,
           UNCHANGED <<activations, mappings, grants>>, drafts' \in Seq(Digest)
    PROVE  OperationKeeps
<1>1. RowsInv'
  BY RowsKept, Zenon
<1> QED BY <1>1, Zenon DEF OperationKeeps, RowTypes, GovernanceTypeOK

(* Approvals requested through policy administration.                      *)
LEMMA RequestKeeps ==
    ASSUME GovernanceTypeOK, DecidedByAnother, RowsInv, UNCHANGED grants,
           NEW p \in Principal, NEW action \in ApprovalAction, NEW d \in ApprovalDigest,
           NEW reason \in ApprovalReason, NEW c \in seen,
           RequestLocalApproval(p, action, d, reason, c)
    PROVE  OperationKeeps
<1> DEFINE a == NewApproval(action, d, p, reason, "local-oidc", c.at)
<1>1. a \in Approval /\ a.state = "PENDING"
  <2>1. c.at \in Nat /\ c.at + Lifetime \in Nat
    BY ApprovalAssumption DEF GovernanceTypeOK
  <2> QED BY <2>1, Zenon DEF NewApproval, Approval, ApprovalState, ApprovalProvider
<1>2. ApprovalsKept
  <2>1. CreateApproval(a)
    BY Zenon DEF RequestLocalApproval
  <2> HIDE DEF a
  <2> QED BY <1>1, <2>1, CreateKeeps, Zenon DEF GovernanceTypeOK
<1> QED BY <1>2, QuietKeeps, Zenon DEF RequestLocalApproval, configuration, GovernanceTypeOK

(* Approvals decided through policy administration.                        *)
LEMMA LocalDecisionKeeps ==
    ASSUME GovernanceTypeOK, DecidedByAnother, RowsInv, UNCHANGED grants,
           NEW p \in Principal, NEW i \in DOMAIN approvals, NEW ok \in BOOLEAN,
           NEW c \in seen, DecideLocalApproval(p, i, ok, c.at)
    PROVE  OperationKeeps
<1>1. c.at \in Nat /\ approvals \in Seq(Approval) /\ drafts \in Seq(Digest)
  BY Zenon DEF GovernanceTypeOK
<1>2. ApprovalsKept
  BY <1>1, DecideKeeps, Zenon DEF DecideLocalApproval
<1> QED BY <1>1, <1>2, QuietKeeps, Zenon DEF DecideLocalApproval, configuration

(* The operations of policy administration, whatever they are authorized   *)
(* under and whichever of them commit in between.                          *)
LEMMA AdministrationKeeps ==
    ASSUME GovernanceTypeOK, DecidedByAnother, RowsInv,
           AdministrationNext, UNCHANGED grants
    PROVE  OperationKeeps
<1>0. /\ approvals \in Seq(Approval) /\ drafts \in Seq(Digest) /\ mappings \in Seq(Mapping)
      /\ \A c \in seen : c.at \in Nat /\ c.version \in Nat /\ c.revision \in Nat
      /\ UNCHANGED approvals => ApprovalsKept
  BY SameKeeps, Zenon DEF GovernanceTypeOK
<1>1. ASSUME NEW p \in Principal, NEW k \in Key, NEW c \in seen, NEW d \in Digest,
             NEW a \in Artifact, Upload(p, k, c, d, a)
      PROVE  OperationKeeps
  <2>1. StorePolicy(d, a)
    BY <1>1, Zenon DEF Upload, Administer
  <2> QED BY <1>0, <2>1, QuietKeeps, Zenon DEF StorePolicy
<1>2. ASSUME NEW p \in Principal, NEW k \in Key, NEW c \in seen, NEW r \in DOMAIN drafts,
             NEW a \in Artifact, PromoteDraft(p, k, c, r, a)
      PROVE  OperationKeeps
  <2>1. drafts[r] \in Digest
    BY <1>0, ElementOfSeq, Zenon
  <2> QED BY <1>1, <1>2, <2>1, Zenon DEF PromoteDraft
<1>3. ASSUME NEW p \in Principal, NEW k \in Key, NEW c \in seen, NEW d \in Digest,
             SaveDraft(p, k, c, Len(drafts), d)
      PROVE  OperationKeeps
  <2>1. /\ drafts' = Append(drafts, d)
        /\ UNCHANGED <<bundles, activations, mappings, integration, approvals>>
    BY <1>3, Zenon DEF SaveDraft, Administer
  <2>2. drafts' \in Seq(Digest)
    BY <1>0, <2>1, AppendProperties, Zenon
  <2> QED BY <1>0, <2>1, <2>2, QuietKeeps, Zenon
<1>4. ASSUME NEW p \in Principal, NEW k \in Key, NEW c \in seen, NEW d \in Digest,
             NEW i \in {NotRequired} \cup DOMAIN approvals, Activate(p, k, c, d, i)
      PROVE  OperationKeeps
  <2>1. ActivatePolicy(p, d, i, c) /\ StillCurrent(c)
    BY <1>4, Zenon DEF Activate, Administer
  <2>2. drafts' = drafts
    BY <2>1, Zenon DEF ActivatePolicy
  <2> QED BY <1>0, <2>1, <2>2, ActivateRows, Zenon DEF OperationKeeps
<1>5. ASSUME NEW p \in Principal, NEW k \in Key, NEW c \in seen, NEW d \in Digest,
             NEW epoch \in DOMAIN activations, RequestRollback(p, k, c, d, epoch)
      PROVE  OperationKeeps
  <2>1. /\ epoch = c.version
        /\ RequestLocalApproval(p, "POLICY_ROLLBACK", PolicyActivationDigest(d, epoch),
                                "rollback", c)
    BY <1>5, Zenon DEF RequestRollback, Administer
  <2>2. /\ PolicyActivationDigest(d, epoch) \in ApprovalDigest
        /\ "POLICY_ROLLBACK" \in ApprovalAction /\ "rollback" \in ApprovalReason
    BY <1>0, <2>1, Zenon DEF PolicyActivationDigest, ApprovalDigest, ApprovalAction, ApprovalReason
  <2> QED BY <2>1, <2>2, RequestKeeps, Zenon
<1>6. ASSUME NEW p \in Principal, NEW k \in Key, NEW c \in seen, NEW i \in DOMAIN approvals,
             NEW ok \in BOOLEAN, Decide(p, k, c, i, ok)
      PROVE  OperationKeeps
  <2>1. DecideLocalApproval(p, i, ok, c.at)
    BY <1>6, Zenon DEF Decide, Administer
  <2> QED BY <2>1, LocalDecisionKeeps, Zenon
<1>7. ASSUME NEW p \in Principal, NEW k \in Key, NEW c \in seen, NEW roles \in Proposed,
             NEW i \in {NotRequired} \cup DOMAIN approvals,
             UpdateRoleMappings(p, k, c, Len(mappings), roles, i)
      PROVE  OperationKeeps
  <2>1. /\ SaveRoleMappings(p, Len(mappings), roles, i, FALSE, c.at)
        /\ IsPolicyAdmin(p, c.revision) /\ StillCurrent(c)
    BY <1>7, Zenon DEF UpdateRoleMappings, Administer
  <2>2. IsPolicyAdmin(p, Len(mappings)) /\ drafts' = drafts
    BY <2>1, Zenon DEF StillCurrent, SaveRoleMappings
  <2> QED BY <1>0, <2>1, <2>2, MappingRows, Zenon DEF OperationKeeps
<1>8. ASSUME NEW p \in Principal, NEW k \in Key, NEW c \in seen, NEW roles \in Proposed,
             RequestExpansion(p, k, c, Len(mappings), roles)
      PROVE  OperationKeeps
  <2>1. /\ RequestLocalApproval(p, "EMERGENCY_EXPANSION",
                                RoleMappingDigest(Len(mappings), roles), "expand", c)
    BY <1>8, Zenon DEF RequestExpansion, Administer
  <2>2. /\ RoleMappingDigest(Len(mappings), roles) \in ApprovalDigest
        /\ "EMERGENCY_EXPANSION" \in ApprovalAction /\ "expand" \in ApprovalReason
    BY <1>0 DEF RoleMappingDigest, ApprovalDigest, ApprovalAction, ApprovalReason
  <2> QED BY <2>1, <2>2, RequestKeeps, Zenon
<1>9. ASSUME NEW p \in Principal, NEW k \in Key, NEW c \in seen, NEW roles \in Proposed,
             RecoveryRequest(p, k, c, Len(mappings), roles)
      PROVE  OperationKeeps
  <2>1. /\ RequestLocalApproval(p, "EMERGENCY_EXPANSION",
                                RoleMappingDigest(Len(mappings), roles), "recover", c)
    BY <1>9, Zenon DEF RecoveryRequest, Administer
  <2>2. /\ RoleMappingDigest(Len(mappings), roles) \in ApprovalDigest
        /\ "EMERGENCY_EXPANSION" \in ApprovalAction /\ "recover" \in ApprovalReason
    BY <1>0 DEF RoleMappingDigest, ApprovalDigest, ApprovalAction, ApprovalReason
  <2> QED BY <2>1, <2>2, RequestKeeps, Zenon
<1>10. ASSUME NEW p \in Principal, NEW k \in Key, NEW c \in seen, NEW i \in DOMAIN approvals,
              RecoveryApprove(p, k, c, i)
       PROVE  OperationKeeps
  <2>1. DecideLocalApproval(p, i, TRUE, c.at) /\ TRUE \in BOOLEAN
    BY <1>10, Zenon DEF RecoveryApprove, Administer
  <2> QED BY <2>1, LocalDecisionKeeps, Zenon
<1>11. ASSUME NEW p \in Principal, NEW k \in Key, NEW c \in seen, NEW roles \in Proposed,
              NEW i \in {NotRequired} \cup DOMAIN approvals,
              RecoveryApply(p, k, c, Len(mappings), roles, i)
       PROVE  OperationKeeps
  <2>1. SaveRoleMappings(p, Len(mappings), roles, i, TRUE, c.at)
    BY <1>11, Zenon DEF RecoveryApply, Administer
  <2>2. drafts' = drafts /\ TRUE \in BOOLEAN
    BY <2>1, Zenon DEF SaveRoleMappings
  <2> QED BY <1>0, <2>1, <2>2, MappingRows, Zenon DEF OperationKeeps
<1>12. ASSUME NEW p \in Principal, NEW k \in Key, NEW c \in seen,
              UpdateIntegration(p, k, c, integration)
       PROVE  OperationKeeps
  <2>1. /\ UNCHANGED <<bundles, activations, mappings, drafts, approvals>>
    BY <1>12, Zenon DEF UpdateIntegration, Administer
  <2> QED BY <1>0, <2>1, QuietKeeps, Zenon
<1> QED
  <2>1. PICK p \in Principal, k \in Key, c \in seen :
            \/ \E d \in Digest, a \in Artifact : Upload(p, k, c, d, a)
            \/ \E r \in DOMAIN drafts, a \in Artifact : PromoteDraft(p, k, c, r, a)
            \/ \E d \in Digest : SaveDraft(p, k, c, Len(drafts), d)
            \/ \E d \in Digest, i \in {NotRequired} \cup DOMAIN approvals :
                  Activate(p, k, c, d, i)
            \/ \E d \in Digest, epoch \in DOMAIN activations :
                  RequestRollback(p, k, c, d, epoch)
            \/ \E i \in DOMAIN approvals, ok \in BOOLEAN : Decide(p, k, c, i, ok)
            \/ \E roles \in Proposed, i \in {NotRequired} \cup DOMAIN approvals :
                  UpdateRoleMappings(p, k, c, Len(mappings), roles, i)
            \/ \E roles \in Proposed : RequestExpansion(p, k, c, Len(mappings), roles)
            \/ \E roles \in Proposed : RecoveryRequest(p, k, c, Len(mappings), roles)
            \/ \E i \in DOMAIN approvals : RecoveryApprove(p, k, c, i)
            \/ \E roles \in Proposed, i \in {NotRequired} \cup DOMAIN approvals :
                  RecoveryApply(p, k, c, Len(mappings), roles, i)
            \/ UpdateIntegration(p, k, c, integration)
    BY Zenon DEF AdministrationNext
  <2>2. CASE \/ \E d \in Digest, a \in Artifact : Upload(p, k, c, d, a)
             \/ \E r \in DOMAIN drafts, a \in Artifact : PromoteDraft(p, k, c, r, a)
             \/ \E d \in Digest : SaveDraft(p, k, c, Len(drafts), d)
             \/ UpdateIntegration(p, k, c, integration)
    BY <2>2, <1>1, <1>2, <1>3, <1>12, Zenon
  <2>3. CASE \/ \E d \in Digest, i \in {NotRequired} \cup DOMAIN approvals :
                    Activate(p, k, c, d, i)
             \/ \E roles \in Proposed, i \in {NotRequired} \cup DOMAIN approvals :
                    UpdateRoleMappings(p, k, c, Len(mappings), roles, i)
             \/ \E roles \in Proposed, i \in {NotRequired} \cup DOMAIN approvals :
                    RecoveryApply(p, k, c, Len(mappings), roles, i)
    BY <2>3, <1>4, <1>7, <1>11, Zenon
  <2>4. CASE \/ \E d \in Digest, epoch \in DOMAIN activations :
                    RequestRollback(p, k, c, d, epoch)
             \/ \E roles \in Proposed : RequestExpansion(p, k, c, Len(mappings), roles)
             \/ \E roles \in Proposed : RecoveryRequest(p, k, c, Len(mappings), roles)
    BY <2>4, <1>5, <1>8, <1>9, Zenon
  <2>5. CASE \/ \E i \in DOMAIN approvals, ok \in BOOLEAN : Decide(p, k, c, i, ok)
             \/ \E i \in DOMAIN approvals : RecoveryApprove(p, k, c, i)
    BY <2>5, <1>6, <1>10, Zenon
  <2> QED BY <2>1, <2>2, <2>3, <2>4, <2>5, Zenon

(* The approvals of external providers and the break-glass grants.  An     *)
(* event is appended to its grant, nothing else of the grant changes.      *)
LEMMA BreakGlassKeeps ==
    ASSUME GovernanceTypeOK, DecidedByAnother, RowsInv, BreakGlassNext,
           UNCHANGED <<activations, mappings>>
    PROVE  ApprovalsKept /\ RowsInv' /\ RowTypes' /\ (statements \subseteq Statement)'
<1>0. /\ approvals \in Seq(Approval) /\ activations \in Seq(Activation)
      /\ mappings \in Seq(Mapping) /\ grants \in Seq(Grant)
      /\ statements \subseteq Statement /\ clock \in Nat
      /\ UNCHANGED approvals => ApprovalsKept
  BY SameKeeps, Zenon DEF GovernanceTypeOK
<1>1. ASSUME ApprovalsKept, UNCHANGED breakGlassVars
      PROVE  ApprovalsKept /\ RowsInv' /\ RowTypes' /\ (statements \subseteq Statement)'
  <2>1. UNCHANGED <<grants, statements>>
    BY <1>1, Zenon DEF breakGlassVars
  <2>2. RowsInv'
    BY <1>1, <2>1, RowsKept, Zenon
  <2> QED BY <1>0, <1>1, <2>1, <2>2, Zenon DEF RowTypes, Statement
<1>2. ASSUME NEW p \in Principal, NEW scope \in Scope, NEW expires \in 1 .. MaxTime + 1,
             RequestGovernanceApproval(p, ScopeAction(scope),
                                       BreakGlassGrantDigest(p, scope, expires))
      PROVE  ApprovalsKept
  <2> DEFINE a == NewApproval(ScopeAction(scope), BreakGlassGrantDigest(p, scope, expires), p,
                              "requested", "external", clock)
  <2>1. /\ clock + Lifetime \in Nat /\ expires \in Nat
        /\ ScopeAction(scope) \in ApprovalAction
        /\ BreakGlassGrantDigest(p, scope, expires) \in ApprovalDigest
    BY <1>0, ApprovalAssumption
    DEF ScopeAction, ApprovalAction, BreakGlassGrantDigest, ApprovalDigest
  <2>2. a \in Approval /\ a.state = "PENDING"
    BY <1>0, <2>1, Zenon DEF NewApproval, Approval, ApprovalState, ApprovalProvider, ApprovalReason
  <2>3. CreateApproval(a)
    BY <1>2, Zenon DEF RequestGovernanceApproval
  <2> HIDE DEF a
  <2> QED BY <1>0, <2>2, <2>3, CreateKeeps, Zenon
<1>3. ASSUME NEW i \in DOMAIN approvals, NEW p \in Principal, NEW ok \in BOOLEAN,
             NEW at \in 0 .. MaxTime, RecordDecision(i, p, ok, at)
      PROVE  ApprovalsKept
  <2>1. at \in Nat
    BY ApprovalAssumption
  <2> QED BY <1>0, <1>3, <2>1, DecideKeeps, Zenon DEF RecordDecision
<1>4. ASSUME NEW i \in DOMAIN approvals, NEW at \in 0 .. MaxTime, Consume(i, at)
      PROVE  ApprovalsKept
  <2>1. at \in Nat
    BY ApprovalAssumption
  <2> QED BY <1>0, <1>4, <2>1, ConsumeKeeps, Zenon DEF Consume
<1>5. ASSUME NEW i \in DOMAIN approvals, NEW p \in Principal, NEW scope \in Scope,
             NEW expires \in 1 .. MaxTime + 1, NEW now \in 0 .. MaxTime,
             ActivateBreakGlass(p, i, scope, expires, now)
      PROVE  ApprovalsKept /\ RowsInv' /\ RowTypes' /\ (statements \subseteq Statement)'
  <2>1. expires \in Nat /\ now \in Nat
    BY ApprovalAssumption
  <2>2. ApprovalsKept /\ RowsInv' /\ RowTypes'
    BY <1>5, <2>1, GrantRows, ZenonT(30)
  <2>3. DOMAIN grants \subseteq DOMAIN grants' /\ UNCHANGED statements
    BY <1>0, <1>5, AppendProperties DEF ActivateBreakGlass
  <2>4. (statements \subseteq Statement)'
    BY <1>0, <2>3, Zenon DEF Statement
  <2> QED BY <2>2, <2>4, Zenon
<1>6. ASSUME NEW g \in DOMAIN grants, NEW change \in {"USED", "REVOKED", "EXPIRED"},
             NEW actor \in Principal \cup {Nobody}, NEW at \in 0 .. MaxTime,
             BeginBreakGlassEvent(g, change, actor, at)
      PROVE  ApprovalsKept /\ RowsInv' /\ RowTypes' /\ (statements \subseteq Statement)'
  <2>1. /\ UNCHANGED <<grants, approvals>>
        /\ statements' = statements \cup
              {[grant |-> g, change |-> change, at |-> at, seen |-> Len(grants[g].events)]}
    BY <1>6, Zenon DEF BeginBreakGlassEvent
  <2>2. (statements \subseteq Statement)'
    <3>1. at \in Nat
      BY ApprovalAssumption
    <3>2. Len(grants[g].events) \in Nat
      <4>1. grants[g] \in Grant
        BY <1>0, ElementOfSeq, Zenon
      <4>2. grants[g].events \in Seq(GrantEvent)
        BY <4>1, Zenon DEF Grant
      <4> QED BY <4>2
    <3>3. [grant |-> g, change |-> change, at |-> at, seen |-> Len(grants[g].events)]
              \in Statement
      BY <3>1, <3>2, Zenon DEF Statement, GrantChange
    <3>4. Statement' = Statement
      BY <2>1, Zenon DEF Statement
    <3> QED BY <1>0, <2>1, <3>3, <3>4, Zenon
  <2>3. RowsInv'
    BY <1>0, <2>1, RowsKept, Zenon
  <2> QED BY <1>0, <2>1, <2>2, <2>3, Zenon DEF RowTypes
<1>7. ASSUME NEW s \in statements, AppendBreakGlassEvent(s)
      PROVE  ApprovalsKept /\ RowsInv' /\ RowTypes' /\ (statements \subseteq Statement)'
  <2>1. /\ s.grant \in DOMAIN grants
        /\ [change |-> s.change, at |-> s.at, seen |-> s.seen] \in GrantEvent
        /\ grants[s.grant] \in Grant /\ UNCHANGED approvals
        /\ statements' = statements \ {s}
    BY <1>0, <1>7, ElementOfSeq, Zenon DEF Statement, GrantEvent, AppendBreakGlassEvent
  <2> DEFINE g == grants[s.grant]
             h == [g EXCEPT !.events =
                      Append(@, [change |-> s.change, at |-> s.at, seen |-> s.seen])]
  <2>2. grants' = grants \/ grants' = [grants EXCEPT ![s.grant] = h]
    BY <1>7, Zenon DEF AppendBreakGlassEvent
  <2>3. /\ h \in Grant /\ h.approval = g.approval /\ h.principal = g.principal
        /\ h.issued = g.issued
    <3>1. g.events \in Seq(GrantEvent)
      BY <2>1, Zenon DEF Grant
    <3>2. Append(g.events, [change |-> s.change, at |-> s.at, seen |-> s.seen])
              \in Seq(GrantEvent)
      BY <2>1, <3>1, AppendProperties, Zenon
    <3> QED BY <2>1, <3>2, Zenon DEF Grant
  <2> HIDE DEF h
  <2>4. grants' \in Seq(Grant)
    <3>1. s.grant \in 1 .. Len(grants)
      BY <1>0, <2>1
    <3>2. [grants EXCEPT ![s.grant] = h] \in Seq(Grant)
      BY <1>0, <2>3, <3>1, ExceptSeq, Zenon
    <3> QED BY <1>0, <2>2, <3>2, Zenon
  <2>5. /\ DOMAIN grants' = DOMAIN grants
        /\ \A j \in DOMAIN grants : /\ grants'[j].approval = grants[j].approval
                                    /\ grants'[j].principal = grants[j].principal
                                    /\ grants'[j].issued = grants[j].issued
    BY <1>0, <2>1, <2>2, <2>3, Zenon
  <2>6. RowsInv'
    BY <1>0, <2>1, <2>5, RowsKept, Zenon
  <2>7. (statements \subseteq Statement)'
    BY <1>0, <2>1, <2>5, Zenon DEF Statement
  <2> QED BY <1>0, <2>1, <2>4, <2>6, <2>7, Zenon DEF RowTypes
<1> QED
  <2>1. CASE \/ \E p \in Principal, scope \in Scope, expires \in 1 .. MaxTime + 1 :
                   /\ RequestGovernanceApproval(p, ScopeAction(scope),
                                                BreakGlassGrantDigest(p, scope, expires))
                   /\ UNCHANGED breakGlassVars
             \/ \E i \in DOMAIN approvals, p \in Principal, ok \in BOOLEAN,
                   at \in 0 .. MaxTime :
                   RecordDecision(i, p, ok, at) /\ UNCHANGED breakGlassVars
             \/ \E i \in DOMAIN approvals, at \in 0 .. MaxTime :
                   Consume(i, at) /\ UNCHANGED breakGlassVars
    BY <2>1, <1>1, <1>2, <1>3, <1>4, Zenon
  <2> QED BY <2>1, <1>5, <1>6, <1>7, Zenon DEF BreakGlassNext

(* A grant as it is issued has no events; an event statement takes its     *)
(* snapshot before the end or not at all; an event that is appended had    *)
(* not seen an end, nor has what is still in flight seen this one.         *)
LEMMA DrainStep ==
    ASSUME GovernanceTypeOK, GrantsDrain, BreakGlassNext
    PROVE  GrantsDrain'
<1>0. grants \in Seq(Grant) /\ statements \subseteq Statement
  BY Zenon DEF GovernanceTypeOK
<1>1. CASE UNCHANGED breakGlassVars
  BY <1>1, Zenon DEF breakGlassVars, GrantsDrain
<1>2. ASSUME NEW i \in DOMAIN approvals, NEW p \in Principal, NEW scope \in Scope,
             NEW expires \in 1 .. MaxTime + 1, NEW now \in 0 .. MaxTime,
             ActivateBreakGlass(p, i, scope, expires, now)
      PROVE  GrantsDrain'
  <2> DEFINE g == [principal |-> p, scope |-> scope, approval |-> i, issued |-> now,
                   expires |-> expires, events |-> <<>>]
  <2>1. grants' = Append(grants, g) /\ statements' = statements
    BY <1>2, Zenon DEF ActivateBreakGlass
  <2>2. Drains(g)
    BY DEF Drains
  <2> HIDE DEF g
  <2>3. /\ \A h \in DOMAIN grants : grants'[h] = grants[h]
        /\ \A h \in DOMAIN grants' : h \in DOMAIN grants \/ grants'[h] = g
    BY <1>0, <2>1
  <2>4. \A s \in statements : s.grant \in DOMAIN grants
    BY <1>0, Zenon DEF Statement
  <2> QED BY <2>1, <2>2, <2>3, <2>4, Zenon DEF GrantsDrain
<1>3. ASSUME NEW g \in DOMAIN grants, NEW change \in {"USED", "REVOKED", "EXPIRED"},
             NEW actor \in Principal \cup {Nobody}, NEW at \in 0 .. MaxTime,
             BeginBreakGlassEvent(g, change, actor, at)
      PROVE  GrantsDrain'
  <2> DEFINE s == [grant |-> g, change |-> change, at |-> at, seen |-> Len(grants[g].events)]
  <2>1. /\ EventAllowed(g, change, actor, at)
        /\ statements' = statements \cup {s} /\ grants' = grants
    BY <1>3, Zenon DEF BeginBreakGlassEvent
  <2>2. Len(grants[g].events) <= Len(grants[g].events)
    <3>1. grants[g] \in Grant
      BY <1>0, ElementOfSeq, Zenon
    <3>2. grants[g].events \in Seq(GrantEvent)
      BY <3>1, Zenon DEF Grant
    <3> QED BY <3>2
  <2>3. ~ HasTerminal(g) /\ EventInTime(g, change, actor, at)
    BY <2>1, Zenon DEF EventAllowed
  <2>4. Dated(s, grants[g])
    BY <2>3 DEF Dated, EventInTime
  <2>5. MayDrain(s, grants[s.grant])
    BY <2>2, <2>3, <2>4, Zenon DEF MayDrain, HasTerminal
  <2> HIDE DEF s
  <2> QED BY <2>1, <2>5, Zenon DEF GrantsDrain
<1>4. ASSUME NEW s \in statements, AppendBreakGlassEvent(s)
      PROVE  GrantsDrain'
  <2> DEFINE g == grants[s.grant]
             event == [change |-> s.change, at |-> s.at, seen |-> s.seen]
             h == [g EXCEPT !.events = Append(@, event)]
  <2>1. /\ s.grant \in DOMAIN grants /\ g \in Grant /\ event \in GrantEvent
        /\ statements' \subseteq statements
    BY <1>0, <1>4, ElementOfSeq, Zenon DEF Statement, GrantEvent, AppendBreakGlassEvent
  <2>2. /\ g.events \in Seq(GrantEvent) /\ g.expires \in Nat
        /\ MayDrain(s, g) /\ Drains(g)
    BY <2>1, Zenon DEF Grant, GrantsDrain
  <2>3. \A t \in statements : t.grant \in DOMAIN grants /\ t.seen \in Nat
    BY <1>0, Zenon DEF Statement
  <2>4. CASE grants' = grants
    BY <2>1, <2>4, Zenon DEF GrantsDrain
  <2>5. CASE /\ ~ (s.change \in Terminal /\ HasTerminal(s.grant))
             /\ grants' = [grants EXCEPT ![s.grant] = h]
    <3>1. h.events = Append(g.events, event) /\ h.expires = g.expires
      BY <2>1, Zenon DEF Grant
    <3>2. event.change = s.change /\ event.at = s.at /\ event.seen = s.seen
      BY Zenon
    <3>3. s.change \in GrantChange /\ s.seen \in Nat
      BY <1>0, Zenon DEF Statement
    <3> HIDE DEF event, h
    <3>4. Drains(h)
      <4>1. \A i \in DOMAIN h.events :
                \/ i \in DOMAIN g.events /\ h.events[i] = g.events[i]
                \/ i = Len(g.events) + 1 /\ h.events[i] = event
        <5>1. \A i \in DOMAIN Append(g.events, event) :
                  \/ i \in DOMAIN g.events /\ Append(g.events, event)[i] = g.events[i]
                  \/ i = Len(g.events) + 1 /\ Append(g.events, event)[i] = event
          BY <2>1, <2>2, AppendElements, Zenon
        <5> QED BY <3>1, <5>1, Zenon
      <4>2. Dated(event, h) /\ \A i \in DOMAIN g.events : Dated(g.events[i], h)
        BY <2>2, <3>1, <3>2, Zenon DEF Dated, Drains, MayDrain
      <4>3. \A i \in DOMAIN g.events : g.events[i].change \in Terminal =>
               event.change = "USED" /\ event.seen < i
        BY <2>2, <2>5, <3>2, <3>3, Zenon DEF MayDrain, HasTerminal, GrantChange, Terminal
      <4>4. /\ \A i \in DOMAIN g.events : i \in Nat /\ ~ (Len(g.events) + 1 < i)
            /\ ~ (Len(g.events) + 1 < Len(g.events) + 1)
        BY <2>2
      <4> QED BY <2>2, <4>1, <4>2, <4>3, <4>4, Zenon DEF Drains
    <3>5. ASSUME NEW t \in statements, t.grant = s.grant
          PROVE  MayDrain(t, h)
      <4>1. MayDrain(t, g)
        BY <3>5, Zenon DEF GrantsDrain
      <4>2. /\ Len(h.events) = Len(g.events) + 1
            /\ \A i \in DOMAIN h.events :
                  \/ i \in DOMAIN g.events /\ h.events[i] = g.events[i]
                  \/ i = Len(g.events) + 1
        BY <2>1, <2>2, <3>1
      <4>3. t.seen <= Len(g.events) + 1 /\ t.seen < Len(g.events) + 1
        <5>1. Len(g.events) \in Nat /\ t.seen \in Nat /\ t.seen <= Len(g.events)
          BY <2>2, <2>3, <4>1 DEF MayDrain
        <5> QED BY <5>1
      <4> QED BY <3>1, <4>1, <4>2, <4>3, Zenon DEF MayDrain, Dated
    <3>6. /\ DOMAIN grants' = DOMAIN grants /\ grants'[s.grant] = h
          /\ \A k \in DOMAIN grants : k # s.grant => grants'[k] = grants[k]
      BY <2>1, <2>5, Zenon
    <3> QED BY <2>1, <2>3, <3>4, <3>5, <3>6, Zenon DEF GrantsDrain
  <2> QED BY <1>4, <2>4, <2>5, Zenon DEF AppendBreakGlassEvent
<1> QED BY <1>1, <1>2, <1>3, <1>4, Zenon DEF BreakGlassNext

-----------------------------------------------------------------------------
(* A tenant as it is provisioned has no approval and no privileged row.    *)
LEMMA GovernanceInvInit == Init => GovernanceInv
<1> SUFFICES ASSUME Init PROVE GovernanceInv
  BY Zenon
<1>1. /\ clock = 0 /\ approvals = <<>> /\ drafts = <<>> /\ replies = {}
      /\ grants = <<>> /\ statements = {}
      /\ activations = << [digest |-> Provisioned, actor |-> Nobody,
                           approval |-> 0, at |-> 0] >>
      /\ mappings = << [roles |-> Initial, actor |-> Nobody, operator |-> TRUE,
                        approval |-> 0, at |-> 0] >>
      /\ seen = {[at |-> 0, version |-> 1, revision |-> 1]}
  BY Zenon DEF Init, AdministrationInit, BreakGlassInit, Context, NotRequired
<1>2. GovernanceTypeOK
  <2>1. activations \in Seq(Activation) /\ mappings \in Seq(Mapping)
    BY <1>1 DEF Activation, Mapping
  <2>2. seen \subseteq [at : Nat, version : Nat, revision : Nat]
    BY <1>1
  <2> QED BY <1>1, <2>1, <2>2 DEF GovernanceTypeOK
<1>3. /\ DOMAIN approvals = {} /\ DOMAIN grants = {}
      /\ DOMAIN activations = {1} /\ Len(activations) = 1 /\ activations[1].approval = 0
      /\ DOMAIN mappings = {1} /\ Len(mappings) = 1 /\ mappings[1].approval = 0
      /\ 2 .. 1 = {}
  BY <1>1
<1>4. DecidedByAnother /\ ActivationsBacked /\ MappingsBacked /\ GrantsBacked
  BY <1>3, Zenon DEF DecidedByAnother, ActivationsBacked, MappingsBacked, GrantsBacked, NotRequired
<1>5. PrivilegedNamesApproval
  BY <1>3, Zenon DEF PrivilegedNamesApproval
<1>6. RowsDiffer
  BY <1>3, Zenon DEF RowsDiffer, NotRequired
<1>7. RoleInForceAtCommit /\ GrantsDrain
  BY <1>1, <1>3, Zenon DEF RoleInForceAtCommit, GrantsDrain
<1> QED BY <1>2, <1>4, <1>5, <1>6, <1>7, Zenon DEF GovernanceInv

(* Every step of the tenant keeps the invariant.                           *)
LEMMA GovernanceInvStep == GovernanceInv /\ [Next]_vars => GovernanceInv'
<1> SUFFICES ASSUME GovernanceInv, [Next]_vars PROVE GovernanceInv'
  BY Zenon
<1>0. GovernanceTypeOK /\ DecidedByAnother /\ RowsInv /\ GrantsDrain
  BY Zenon DEF GovernanceInv, RowsInv
<1>1. ASSUME ApprovalsKept, RowsInv', RowTypes', drafts' \in Seq(Digest), clock' \in Nat,
             (statements \subseteq Statement)', GrantsDrain',
             seen' \subseteq [at : Nat, version : Nat, revision : Nat]
      PROVE  GovernanceInv'
  BY <1>1, Zenon DEF GovernanceInv, GovernanceTypeOK, RowsInv, RowTypes, ApprovalsKept
<1>2. ASSUME RowTypes', clock' \in Nat, Remember
      PROVE  seen' \subseteq [at : Nat, version : Nat, revision : Nat]
  <2>1. Len(activations)' \in Nat /\ Len(mappings)' \in Nat
    BY <1>2 DEF RowTypes
  <2> QED BY <1>0, <1>2, <2>1 DEF Remember, Context, GovernanceTypeOK
<1>3. CASE UNCHANGED vars
  <2>1. UNCHANGED <<clock, approvals, activations, mappings, drafts, grants, statements,
                    seen, replies>>
    BY <1>3, Zenon DEF vars, administrationVars, configuration, breakGlassVars
  <2> QED BY <1>0, <1>1, <2>1, SameKeeps, RowsKept, Zenon
          DEF GovernanceTypeOK, Statement, RowTypes, GrantsDrain
<1>4. CASE Tick /\ Remember
  <2>1. /\ UNCHANGED <<approvals, activations, mappings, drafts, grants, statements, replies>>
        /\ clock' = clock + 1
    BY <1>4, Zenon DEF Tick, configuration, breakGlassVars
  <2>2. clock' \in Nat /\ RowTypes' /\ drafts' \in Seq(Digest)
    BY <1>0, <2>1 DEF GovernanceTypeOK, RowTypes
  <2>3. ApprovalsKept
    BY <1>0, <2>1, SameKeeps, Zenon DEF GovernanceTypeOK
  <2>4. RowsInv'
    BY <1>0, <2>1, <2>3, RowsKept, Zenon
  <2> QED BY <1>0, <1>1, <1>2, <1>4, <2>1, <2>2, <2>3, <2>4, Zenon
          DEF GovernanceTypeOK, Statement, GrantsDrain
<1>5. CASE AdministrationNext /\ UNCHANGED <<clock, breakGlassVars>> /\ Remember
  <2>1. UNCHANGED <<clock, grants, statements>>
    BY <1>5, Zenon DEF breakGlassVars
  <2>2. OperationKeeps
    BY <1>0, <1>5, <2>1, AdministrationKeeps, Zenon
  <2> QED BY <1>0, <1>1, <1>2, <1>5, <2>1, <2>2, Zenon
          DEF OperationKeeps, GovernanceTypeOK, Statement, GrantsDrain
<1>6. CASE BreakGlassNext /\ UNCHANGED <<clock, administrationVars>>
  <2>1. UNCHANGED <<clock, seen, activations, mappings, drafts, replies>>
    BY <1>6, Zenon DEF administrationVars, configuration
  <2>2. ApprovalsKept /\ RowsInv' /\ RowTypes' /\ (statements \subseteq Statement)'
    BY <1>0, <1>6, <2>1, BreakGlassKeeps, Zenon
  <2>3. GrantsDrain'
    BY <1>0, <1>6, DrainStep, Zenon
  <2> QED BY <1>0, <1>1, <2>1, <2>2, <2>3, Zenon DEF GovernanceTypeOK
<1> QED BY <1>3, <1>4, <1>5, <1>6, Zenon DEF Next

(* The operations and approvals never leave GovernanceInv.                 *)
THEOREM GovernanceInvariant == Spec => []GovernanceInv
BY GovernanceInvInit, GovernanceInvStep, PTL DEF Spec

(* Once a grant has ended only statements that had taken their snapshot    *)
(* are recorded, and none of them ends it again (appendBreakGlassEvent and *)
(* break_glass_one_terminal_event_idx).                                    *)
THEOREM EndedGrantsOnlyDrain == Spec => []EndedGrantOnlyDrains
<1>1. ASSUME GovernanceInv PROVE EndedGrantOnlyDrains
  <2> SUFFICES ASSUME NEW g \in DOMAIN grants, NEW i \in DOMAIN grants[g].events,
                      NEW j \in DOMAIN grants[g].events
               PROVE  LET end == grants[g].events[i]
                          event == grants[g].events[j]
                      IN  /\ end.change \in Terminal /\ i < j
                                => event.change = "USED" /\ event.seen < i
                          /\ end.change = "EXPIRED" /\ event.change = "USED"
                                => event.at < end.at
    BY Zenon DEF EndedGrantOnlyDrains
  <2>1. grants[g] \in Grant /\ Drains(grants[g])
    BY <1>1, ElementOfSeq, Zenon DEF GovernanceInv, GovernanceTypeOK, GrantsDrain
  <2>2. /\ grants[g].events \in Seq(GrantEvent) /\ grants[g].expires \in Nat
    BY <2>1, Zenon DEF Grant
  <2>3. grants[g].events[i] \in GrantEvent /\ grants[g].events[j] \in GrantEvent
    BY <2>2, ElementOfSeq, Zenon
  <2>4. grants[g].events[i].at \in Nat /\ grants[g].events[j].at \in Nat
    BY <2>3, Zenon DEF GrantEvent
  <2>5. /\ grants[g].events[j].change = "USED" => grants[g].events[j].at < grants[g].expires
        /\ grants[g].events[i].change = "EXPIRED"
               => grants[g].expires <= grants[g].events[i].at
    BY <2>1, Zenon DEF Drains, Dated
  <2>6. ASSUME grants[g].events[i].change = "EXPIRED", grants[g].events[j].change = "USED"
        PROVE  grants[g].events[j].at < grants[g].events[i].at
    BY <2>2, <2>4, <2>5, <2>6
  <2> QED BY <2>1, <2>6, Zenon DEF Drains
<1> QED BY <1>1, GovernanceInvariant, PTL

(* Whoever saves role mappings through the API administers policy under    *)
(* the revision that is replaced (the second check of the revision in      *)
(* administrationTransaction).                                             *)
THEOREM RolesInForceAtCommit == Spec => []RoleInForceAtCommit
<1>1. GovernanceInv => RoleInForceAtCommit
  BY Zenon DEF GovernanceInv
<1> QED BY <1>1, GovernanceInvariant, PTL

(* A rollback replaces the version, and an expansion the revision, its     *)
(* approval was requested for (the digests consumeApproval compares).      *)
THEOREM ReviewedIsReplaced == Spec => []ReviewedStateIsReplaced
<1>1. ASSUME GovernanceInv PROVE ReviewedStateIsReplaced
  <2>1. /\ 2 .. Len(activations) \subseteq DOMAIN activations
        /\ 2 .. Len(mappings) \subseteq DOMAIN mappings
    BY <1>1 DEF GovernanceInv, GovernanceTypeOK
  <2> QED BY <1>1, <2>1, Zenon
          DEF GovernanceInv, ActivationsBacked, MappingsBacked, ReviewedStateIsReplaced
<1> QED BY <1>1, GovernanceInvariant, PTL

(* A privileged change is one of the three kinds of rows.                  *)
LEMMA ChangeIsRow ==
    ASSUME GovernanceInv, NEW x \in PrivilegedChanges
    PROVE  \/ \E v \in DOMAIN activations :
                 /\ activations[v].approval # NotRequired
                 /\ x = [approval |-> activations[v].approval, actor |-> activations[v].actor,
                         at |-> activations[v].at, row |-> <<"activation", v>>]
           \/ \E n \in DOMAIN mappings :
                 /\ mappings[n].approval # NotRequired
                 /\ x = [approval |-> mappings[n].approval, actor |-> mappings[n].actor,
                         at |-> mappings[n].at, row |-> <<"mappings", n>>]
           \/ \E g \in DOMAIN grants :
                 x = [approval |-> grants[g].approval, actor |-> grants[g].principal,
                      at |-> grants[g].issued, row |-> <<"grant", g>>]
<1>1. /\ 2 .. Len(activations) \subseteq DOMAIN activations
      /\ 2 .. Len(mappings) \subseteq DOMAIN mappings
  BY DEF GovernanceInv, GovernanceTypeOK
<1> QED BY <1>1, Zenon DEF GovernanceInv, PrivilegedNamesApproval, PrivilegedChanges

(* Four eyes, for rollbacks, expansions and break-glass grants alike.      *)
THEOREM FourEyes == Spec => []IndependentlyApproved
<1>1. ASSUME GovernanceInv, NEW x \in PrivilegedChanges
      PROVE  Backed(x.approval, x.actor, x.at)
  <2>1. ASSUME NEW v \in DOMAIN activations, activations[v].approval # NotRequired,
               x = [approval |-> activations[v].approval, actor |-> activations[v].actor,
                    at |-> activations[v].at, row |-> <<"activation", v>>]
        PROVE  Backed(x.approval, x.actor, x.at)
    BY <1>1, <2>1, Zenon DEF GovernanceInv, ActivationsBacked
  <2>2. ASSUME NEW n \in DOMAIN mappings, mappings[n].approval # NotRequired,
               x = [approval |-> mappings[n].approval, actor |-> mappings[n].actor,
                    at |-> mappings[n].at, row |-> <<"mappings", n>>]
        PROVE  Backed(x.approval, x.actor, x.at)
    BY <1>1, <2>2, Zenon DEF GovernanceInv, MappingsBacked
  <2>3. ASSUME NEW g \in DOMAIN grants,
               x = [approval |-> grants[g].approval, actor |-> grants[g].principal,
                    at |-> grants[g].issued, row |-> <<"grant", g>>]
        PROVE  Backed(x.approval, x.actor, x.at)
    BY <1>1, <2>3, Zenon DEF GovernanceInv, GrantsBacked
  <2> QED BY <1>1, <2>1, <2>2, <2>3, ChangeIsRow, Zenon
<1>2. ASSUME GovernanceInv PROVE IndependentlyApproved
  <2>1. DecidedByAnother
    BY <1>2, Zenon DEF GovernanceInv
  <2> QED BY <1>1, <1>2, <2>1, Zenon DEF IndependentlyApproved, Backed, DecidedByAnother
<1> QED BY <1>2, GovernanceInvariant, PTL

(* No approval is behind two privileged changes.                           *)
THEOREM ApprovalsUsedOnce == Spec => []ApprovalUsedOnce
<1>1. ASSUME GovernanceInv, NEW x \in PrivilegedChanges, NEW y \in PrivilegedChanges,
             x.approval = y.approval
      PROVE  x.row = y.row
  <2> DEFINE act(z, v) == /\ v \in DOMAIN activations /\ activations[v].approval # NotRequired
                          /\ z.approval = activations[v].approval
                          /\ z.row = <<"activation", v>>
             map(z, n) == /\ n \in DOMAIN mappings /\ mappings[n].approval # NotRequired
                          /\ z.approval = mappings[n].approval
                          /\ z.row = <<"mappings", n>>
             grant(z, g) == /\ g \in DOMAIN grants
                            /\ z.approval = grants[g].approval
                            /\ z.row = <<"grant", g>>
  <2>1. \A z \in PrivilegedChanges :
            (\E v : act(z, v)) \/ (\E n : map(z, n)) \/ (\E g : grant(z, g))
    <3> SUFFICES ASSUME NEW z \in PrivilegedChanges
                 PROVE  (\E v : act(z, v)) \/ (\E n : map(z, n)) \/ (\E g : grant(z, g))
      BY Zenon
    <3> QED BY <1>1, ChangeIsRow
  <2>2. RowsDiffer
    BY <1>1, Zenon DEF GovernanceInv
  <2>3. ASSUME NEW v, act(x, v) PROVE x.row = y.row
    <3>1. ASSUME NEW w, act(y, w) PROVE x.row = y.row
      BY <1>1, <2>2, <2>3, <3>1, Zenon DEF RowsDiffer
    <3>2. ASSUME NEW m, map(y, m) PROVE x.row = y.row
      BY <1>1, <2>2, <2>3, <3>2, Zenon DEF RowsDiffer
    <3>3. ASSUME NEW h, grant(y, h) PROVE x.row = y.row
      BY <1>1, <2>2, <2>3, <3>3, Zenon DEF RowsDiffer
    <3> QED BY <1>1, <2>1, <3>1, <3>2, <3>3, Zenon
  <2>4. ASSUME NEW n, map(x, n) PROVE x.row = y.row
    <3>1. ASSUME NEW w, act(y, w) PROVE x.row = y.row
      BY <1>1, <2>2, <2>4, <3>1, Zenon DEF RowsDiffer
    <3>2. ASSUME NEW m, map(y, m) PROVE x.row = y.row
      BY <1>1, <2>2, <2>4, <3>2, Zenon DEF RowsDiffer
    <3>3. ASSUME NEW h, grant(y, h) PROVE x.row = y.row
      BY <1>1, <2>2, <2>4, <3>3, Zenon DEF RowsDiffer
    <3> QED BY <1>1, <2>1, <3>1, <3>2, <3>3, Zenon
  <2>5. ASSUME NEW g, grant(x, g) PROVE x.row = y.row
    <3>1. ASSUME NEW w, act(y, w) PROVE x.row = y.row
      BY <1>1, <2>2, <2>5, <3>1, Zenon DEF RowsDiffer
    <3>2. ASSUME NEW m, map(y, m) PROVE x.row = y.row
      BY <1>1, <2>2, <2>5, <3>2, Zenon DEF RowsDiffer
    <3>3. ASSUME NEW h, grant(y, h) PROVE x.row = y.row
      BY <1>1, <2>2, <2>5, <3>3, Zenon DEF RowsDiffer
    <3> QED BY <1>1, <2>1, <3>1, <3>2, <3>3, Zenon
  <2> QED BY <1>1, <2>1, <2>3, <2>4, <2>5, Zenon
<1>2. GovernanceInv => ApprovalUsedOnce
  BY <1>1, Zenon DEF ApprovalUsedOnce
<1> QED BY <1>2, GovernanceInvariant, PTL

=============================================================================
