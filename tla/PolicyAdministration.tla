------------------------- MODULE PolicyAdministration -------------------------
(***************************************************************************)
(* Tenant governance configuration: policy bundles and activations, drafts, *)
(* role mappings, the OPA integration, local approvals and operator        *)
(* recovery (policy_administration.go, policy_editor.go, role_mappings.go, *)
(* integrations.go and operator_recovery.go of internal/application, and   *)
(* their PostgreSQL stores).                                               *)
(*                                                                         *)
(* An operation is authorized at one moment and commits at a later one.    *)
(* What the authorization read (the clock, the active policy, the revision *)
(* of the role mappings the caller authenticated under) is a member of     *)
(* seen, the contexts that were ever current; the transaction runs under   *)
(* the tenant's advisory lock and is one step.                             *)
(***************************************************************************)
EXTENDS GovernanceApproval

CONSTANTS
    Digest,           \* policy artifacts
    Provisioned,      \* the artifact provisioning activates
    Uploaded,         \* artifacts stored before the modelled window
    Artifact,         \* signature metadata of an upload
    Proposed,         \* role mappings a caller may ask for
    Initial,          \* the provisioned role mappings
    ExternalRole,     \* the IdP role of each principal
    Key               \* idempotency keys, interchangeable and numbered from 1

VARIABLES
    seen,             \* authorization contexts: instant, policy version, mapping revision
    bundles,          \* policy_bundles: digest and signature metadata
    activations,      \* policy_activations, by version
    mappings,         \* role_mapping_revisions, by revision
    drafts,           \* policy_draft_revisions of one draft: digests, by revision
    integration,      \* revision of the OPA integration
    replies           \* completed idempotency records, with the audit row of each

configuration == <<bundles, activations, mappings, drafts, integration>>
administrationVars == <<seen, configuration, replies>>

NotRequired == 0      \* the approval reference "not-required"

Context == [at |-> clock, version |-> Len(activations), revision |-> Len(mappings)]

AdministrationInit ==
    /\ bundles = {[digest |-> d, artifact |-> 1] : d \in Uploaded \cup {Provisioned}}
    /\ activations = << [digest |-> Provisioned, actor |-> Nobody,
                         approval |-> NotRequired, at |-> 0] >>
    /\ mappings = << [roles |-> Initial, actor |-> Nobody, operator |-> TRUE,
                      approval |-> NotRequired, at |-> 0] >>
    /\ drafts = <<>>
    /\ integration = 1
    /\ replies = {}
    /\ seen = {Context}

\* The roles of a caller who authenticated under one revision of the mappings.
IsPolicyAdmin(p, revision) == mappings[revision].roles[ExternalRole[p]] = "policy-admin"

PolicyActivationDigest(d, version) == <<"activate", d, version>>
RoleMappingDigest(revision, roles) == <<"mappings", revision, roles>>

\* ValidateRoleMappings: the last policy administrator cannot be removed.
ValidateRoleMappings(roles) == \E x \in DOMAIN roles : roles[x] = "policy-admin"

RoleMappingExpansion(before, after) ==
    \E x \in DOMAIN after :
        after[x] \notin {"none", "agent-invoker"} /\ before[x] # after[x]

\* Slip: the mapping revision is not compared again in the transaction.
StillPolicyOnly(c) == c.version = Len(activations)

\* Slip: the active policy is not compared again in the transaction.
StillMappingOnly(c) == c.revision = Len(mappings)

\* The two comparisons of administrationTransaction after it took the lock.  The
\* code skips the first for revision 0, which only a process has that reads its
\* mappings from a file, and there no request changes them.
StillCurrent(c) ==
    /\ c.revision = Len(mappings)
    /\ c.version = Len(activations)

\* AcquireIdempotency finds no record: a completed one is replayed or is a
\* conflict, and neither changes anything.  Records outlive the window (24 h).
NotYetApplied(p, route, key) ==
    ~ \E r \in replies : r.actor = p /\ r.route = route /\ r.key = key

\* administrationTransaction around its mutation: lock, comparisons, idempotency
\* record, mutation, audit row and outbox message, reply; an error undoes all.
\* Keys being interchangeable, a caller takes the unused one of least number.
Administer(p, key, route, body, c, Mutation) ==
    /\ c \in seen
    /\ StillCurrent(c)
    /\ NotYetApplied(p, route, key)
    /\ \A k \in Key : k < key => ~ NotYetApplied(p, route, k)
    /\ Mutation
    /\ replies' = replies \cup
          {[actor |-> p, route |-> route, key |-> key, body |-> body]}

\* StorePolicy, reached by Upload and by PromoteDraft of an exact draft revision.
StorePolicy(d, artifact) ==
    /\ \A b \in bundles : b.digest = d => b.artifact = artifact
    /\ bundles' = bundles \cup {[digest |-> d, artifact |-> artifact]}
    /\ UNCHANGED <<activations, mappings, drafts, integration, approvals>>

Upload(p, key, c, d, artifact) ==
    Administer(p, key, <<"policies.manage", d>>, <<"upload", d, artifact>>, c,
               StorePolicy(d, artifact))

PromoteDraft(p, key, c, revision, artifact) ==
    Upload(p, key, c, drafts[revision], artifact)

\* SaveDraft: the expected revision is compared in the transaction.
SaveDraft(p, key, c, expected, d) ==
    Administer(p, key, <<"policies.manage", "draft">>, <<"draft", expected, d>>, c,
               /\ Len(drafts) = expected
               /\ drafts' = Append(drafts, d)
               /\ UNCHANGED <<bundles, activations, mappings, integration, approvals>>)

\* ActivatePolicy: an artifact that was ever active needs a rollback approval.
ActivatePolicy(p, d, approval, c) ==
    /\ \E b \in bundles : b.digest = d
    /\ IF \E v \in DOMAIN activations : activations[v].digest = d
       THEN /\ approval \in DOMAIN approvals
            /\ approvals[approval].action = "POLICY_ROLLBACK"
            /\ approvals[approval].requester = p
            /\ ConsumeApproval(approval, PolicyActivationDigest(d, c.version), c.at)
       ELSE approval = NotRequired /\ UNCHANGED approvals
    /\ activations' = Append(activations, [digest |-> d, actor |-> p,
                                           approval |-> approval, at |-> c.at])
    /\ UNCHANGED <<bundles, mappings, drafts, integration>>

Activate(p, key, c, d, approval) ==
    Administer(p, key, <<"policies.activate", d>>, <<"activate", d, approval>>, c,
               ActivatePolicy(p, d, approval, c))

\* RequestLocalApproval and CreateLocalApproval.
RequestLocalApproval(p, action, digest, reason, c) ==
    /\ CreateApproval(NewApproval(action, digest, p, reason, "local-oidc", c.at))
    /\ UNCHANGED configuration

RequestRollback(p, key, c, d, epoch) ==
    /\ epoch = c.version
    /\ \E b \in bundles : b.digest = d
    /\ Administer(p, key, <<"policies.activate", d>>, <<"rollback", d, epoch>>, c,
                  RequestLocalApproval(p, "POLICY_ROLLBACK",
                      PolicyActivationDigest(d, epoch), "rollback", c))

\* DecideLocalApproval: receipt, verification and decision in one transaction.
DecideLocalApproval(p, i, approved, at) ==
    /\ approvals[i].provider = "local-oidc"
    /\ DecideApproval(i, p, approved, at)
    /\ UNCHANGED configuration

\* PolicyAdministration.DecideApproval: the role gate of role-mapping approvals
\* is on top of the policy decision.
Decide(p, key, c, i, approved) ==
    /\ \/ approvals[i].action = "EMERGENCY_EXPANSION" /\ IsPolicyAdmin(p, c.revision)
       \/ approvals[i].action = "POLICY_ROLLBACK"
    /\ Administer(p, key, <<"approvals", i>>, <<"decide", i, approved>>, c,
                  DecideLocalApproval(p, i, approved, c.at))

\* SaveRoleMappings, called by Update and by operator recovery.
SaveRoleMappings(p, expected, roles, approval, operator, at) ==
    /\ Len(mappings) = expected
    /\ ValidateRoleMappings(roles)
    /\ IF RoleMappingExpansion(mappings[expected].roles, roles)
       THEN /\ approval \in DOMAIN approvals
            /\ approvals[approval].action = "EMERGENCY_EXPANSION"
            /\ approvals[approval].requester = p
            /\ ConsumeApproval(approval, RoleMappingDigest(expected, roles), at)
       ELSE approval = NotRequired /\ UNCHANGED approvals
    /\ mappings' = Append(mappings, [roles |-> roles, actor |-> p, operator |-> operator,
                                     approval |-> approval, at |-> at])
    /\ UNCHANGED <<bundles, activations, drafts, integration>>

UpdateRoleMappings(p, key, c, expected, roles, approval) ==
    /\ IsPolicyAdmin(p, c.revision)
    /\ Administer(p, key, <<"role_mappings.manage", "role-mappings">>,
                  <<"update", expected, roles, approval>>, c,
                  SaveRoleMappings(p, expected, roles, approval, FALSE, c.at))

RequestExpansion(p, key, c, expected, roles) ==
    /\ IsPolicyAdmin(p, c.revision)
    /\ ValidateRoleMappings(roles)
    /\ Len(mappings) = expected
    /\ RoleMappingExpansion(mappings[expected].roles, roles)
    /\ Administer(p, key, <<"role_mappings.manage.approval", "role-mappings">>,
                  <<"expand", expected, roles>>, c,
                  RequestLocalApproval(p, "EMERGENCY_EXPANSION",
                      RoleMappingDigest(expected, roles), "expand", c))

\* OperatorRecovery: no role and no policy decision, the rest as above.
RecoveryRequest(p, key, c, expected, roles) ==
    /\ expected = c.revision
    /\ ValidateRoleMappings(roles)
    /\ Administer(p, key, <<"operator.request", "role-mappings">>,
                  <<"recover", expected, roles>>, c,
                  RequestLocalApproval(p, "EMERGENCY_EXPANSION",
                      RoleMappingDigest(expected, roles), "recover", c))

RecoveryApprove(p, key, c, i) ==
    /\ approvals[i].action = "EMERGENCY_EXPANSION" /\ approvals[i].reason = "recover"
    /\ Administer(p, key, <<"operator.approve", "role-mappings">>, <<"approve", i>>, c,
                  DecideLocalApproval(p, i, TRUE, c.at))

RecoveryApply(p, key, c, expected, roles, approval) ==
    Administer(p, key, <<"operator.apply", "role-mappings">>,
               <<"apply", expected, roles, approval>>, c,
               SaveRoleMappings(p, expected, roles, approval, TRUE, c.at))

\* SaveOPAIntegration after the connection check of IntegrationAdministration.Update.
UpdateIntegration(p, key, c, expected) ==
    /\ IsPolicyAdmin(p, c.revision)
    /\ Administer(p, key, <<"integrations.manage", "opa">>, <<"integration", expected>>, c,
                  /\ integration = expected
                  /\ integration' = expected + 1
                  /\ UNCHANGED <<bundles, activations, mappings, drafts, approvals>>)

AdministrationNext ==
    \E p \in Principal, key \in Key, c \in seen :
        \/ \E d \in Digest, a \in Artifact : Upload(p, key, c, d, a)
        \/ \E r \in DOMAIN drafts, a \in Artifact : PromoteDraft(p, key, c, r, a)
        \/ \E d \in Digest : SaveDraft(p, key, c, Len(drafts), d)
        \/ \E d \in Digest, i \in {NotRequired} \cup DOMAIN approvals :
              Activate(p, key, c, d, i)
        \/ \E d \in Digest, epoch \in DOMAIN activations :
              RequestRollback(p, key, c, d, epoch)
        \/ \E i \in DOMAIN approvals, ok \in BOOLEAN : Decide(p, key, c, i, ok)
        \/ \E roles \in Proposed, i \in {NotRequired} \cup DOMAIN approvals :
              UpdateRoleMappings(p, key, c, Len(mappings), roles, i)
        \/ \E roles \in Proposed : RequestExpansion(p, key, c, Len(mappings), roles)
        \/ \E roles \in Proposed : RecoveryRequest(p, key, c, Len(mappings), roles)
        \/ \E i \in DOMAIN approvals : RecoveryApprove(p, key, c, i)
        \/ \E roles \in Proposed, i \in {NotRequired} \cup DOMAIN approvals :
              RecoveryApply(p, key, c, Len(mappings), roles, i)
        \/ UpdateIntegration(p, key, c, integration)

(***************************************************************************)
(* What an approver reviewed is what is replaced: a rollback replaces the  *)
(* very policy version, and an expansion the very mapping revision, that   *)
(* the approval it consumed was requested for.                             *)
(***************************************************************************)
ReviewedStateIsReplaced ==
    /\ \A v \in 2 .. Len(activations) :
          activations[v].approval # NotRequired =>
              approvals[activations[v].approval].digest
                  = PolicyActivationDigest(activations[v].digest, v - 1)
    /\ \A n \in 2 .. Len(mappings) :
          mappings[n].approval # NotRequired =>
              approvals[mappings[n].approval].digest
                  = RoleMappingDigest(n - 1, mappings[n].roles)

(***************************************************************************)
(* A role taken away is gone for changes still in flight: whoever saves    *)
(* role mappings through the API administers policy under the revision that *)
(* is replaced, not only under the one they authenticated with.            *)
(***************************************************************************)
RoleInForceAtCommit ==
    \A n \in 2 .. Len(mappings) :
        mappings[n].operator \/ IsPolicyAdmin(mappings[n].actor, n - 1)
=============================================================================
