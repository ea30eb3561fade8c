---------------------------- MODULE ExtensionRules ----------------------------
(***************************************************************************)
(* What an extension is and may do: the validation of its manifest, the    *)
(* digest of the part policy depends on, the merging of risks, and which   *)
(* observations of the ports become evidence.  An untrusted object is its  *)
(* "shape", the set of its fields that fail their own parser, and its      *)
(* values; every observation is in force in [from, until).                 *)
(***************************************************************************)
EXTENDS Integers, Checks, SequencesExt

CONSTANT MaxTtl    \* the hour no evidence of a policy may outlive

ExtensionPermissions ==
    {"memory-read", "memory-write", "secrets-read", "exec", "external-send", "external-read", "webhook-ingest",
     "file-ingest", "media-process", "notifications-send", "schedule-write", "integration-write"}
DangerousPermissions ==
    {"memory-write", "secrets-read", "exec", "external-send", "integration-write", "schedule-write", "notifications-send"}
\* The effect an owner must have agreed to has the permission's name.
RequiredApprovalEffects(permissions) == permissions \cap DangerousPermissions

RiskClasses == <<"low", "medium", "high", "untrusted-input">>    \* from lax to strict
ResolveEffectiveExtensionRisk(risks) == RiskClasses[Max({i \in DOMAIN RiskClasses : RiskClasses[i] \in ToSet(risks)})]
SourceFloor(trust) ==
    CASE trust = "untrusted-input" -> "untrusted-input" [] trust = "system-derived" -> "medium" [] OTHER -> "low"
CategoryFloor(category) ==
    CASE category \in {"untrusted-ingest", "external-untrusted"} -> "untrusted-input"
      [] category \in {"external-effect", "integration-write"} -> "high"
      [] category = "system-observe" -> "medium"
      [] OTHER -> "low"

ActivationTransitions ==
    [disabled |-> {"disabled"}, pending |-> {"active", "rejected", "disabled"},
     active |-> {"disabled", "rejected"}, rejected |-> {"rejected"}]

-----------------------------------------------------------------------------
(* The manifest. *)

\* The parts of a manifest in the order they are looked at, with the failure of each.
PartsBeforeEffects ==
    << <<"root fields", "UNKNOWN_FIELD">>, <<"approvalPolicy", "MISSING_APPROVAL_POLICY">>, <<"missing", "INVALID_MANIFEST">>,
       <<"schemaVersion", "UNSUPPORTED_SCHEMA_VERSION">>, <<"kind", "UNKNOWN_KIND">>, <<"id", "INVALID_MANIFEST">>,
       <<"version", "INVALID_VERSION">>, <<"configurationSchemaVersion", "INVALID_VERSION">>, <<"wording", "INVALID_MANIFEST">>,
       <<"declaredCapabilities", "INVALID_CAPABILITY_ID">>, <<"requiredPorts", "UNKNOWN_PORT">>,
       <<"requestedPermissions", "UNKNOWN_PERMISSION">>, <<"riskClass", "UNKNOWN_RISK_CLASS">>,
       <<"approval object", "MISSING_APPROVAL_POLICY">>, <<"approval fields", "UNKNOWN_FIELD">>,
       <<"mode", "MISSING_APPROVAL_POLICY">>, <<"effects", "MISSING_APPROVAL_POLICY">>,
       <<"effect names", "UNKNOWN_APPROVAL_EFFECT">> >>
PartsAfterEffects ==
    << <<"dataClassifications", "INVALID_MANIFEST">>, <<"supportedKinds", "INVALID_MANIFEST">>, <<"enabled", "INVALID_MANIFEST">>,
       <<"provenance fields", "UNKNOWN_FIELD">>, <<"provenance", "INVALID_MANIFEST">>, <<"owner fields", "UNKNOWN_FIELD">>,
       <<"ownerScope", "INVALID_MANIFEST">>, <<"secret", "SECRET_LIKE_CONTENT">>, <<"command", "EXECUTABLE_CONTENT">> >>
Parsed(candidate, parts) == [i \in DOMAIN parts |-> Check(parts[i][1] \notin candidate.malformed, parts[i][2])]

EffectChecks(candidate) ==
    LET needed == RequiredApprovalEffects(candidate.requestedPermissions) IN
    << Check(needed # {} => candidate.mode # "none", "APPROVAL_POLICY_REQUIRED"),
       Check(needed \subseteq candidate.effects, "APPROVAL_EFFECT_MISMATCH") >>

ValidateExtensionManifest(candidate) ==
    FirstFailure(<<Check(candidate.shape = "plain data", "INVALID_MANIFEST")>> \o Parsed(candidate, PartsBeforeEffects)
                 \o EffectChecks(candidate) \o Parsed(candidate, PartsAfterEffects))

\* Everything but the name and the description, lists without their order.
ComputeManifestDigest(manifest) == [manifest EXCEPT !.wording = "any"]

-----------------------------------------------------------------------------
(* Evidence. *)

ExactObservation(observation) == observation.shape = "plain data" /\ observation.malformed = {}
Matches(observation, expected) == \A field \in DOMAIN expected : observation[field] = expected[field]
IsFreshWindow(from, until, now) == from < until /\ from <= now /\ now < until
Accepted(observation, expected, now) ==
    ExactObservation(observation) /\ Matches(observation, expected) /\ IsFreshWindow(observation.from, observation.until, now)

SealCurrentExtensionPolicySnapshot(observation, expected, now) ==
    /\ Accepted(observation, expected, now)
    /\ observation.authorizationTtl \in 1..MaxTtl
    /\ observation.evidenceTtl \in 1..MaxTtl
ParseDeploymentApprovalObservation(observation, expected, now) ==
    Accepted(observation, expected, now) /\ observation.scope = "activate"
ParseRoutingObservation(observation, expected, now) == Accepted(observation, expected, now)
ParseSecurityGuardObservation(observation, expected, now) == Accepted(observation, expected, now)

(* An authorization lives no longer than the approval, nor than the policy's time to live after it was given. *)
AuthorizationUntil(approval, policy) == Min({approval.until, approval.from + policy.authorizationTtl})
IssueDeploymentAuthorization(approval, policy, now) ==
    FirstFailure(<<Check(approval.id = policy.id /\ approval.version = policy.version, "DEPLOYMENT_UNAUTHORIZED"),
                   Check(IsFreshWindow(approval.from, approval.until, now), "STALE_AUTHORIZATION"),
                   Check(now < AuthorizationUntil(approval, policy), "STALE_AUTHORIZATION")>>)

(* What the core checks of a pending entry and an authorization before it asks the registry. *)
DecideActivation(pending, authorization, targetState, policyVersion, now) ==
    FirstFailure(<<Check(pending.state = "pending", "NOT_PENDING"),
                   Check(IsFreshWindow(authorization.from, authorization.until, now), "STALE_AUTHORIZATION"),
                   Check(authorization.id = pending.id /\ authorization.version = pending.version, "DEPLOYMENT_UNAUTHORIZED"),
                   Check(authorization.digest = ComputeManifestDigest(pending.manifest), "MANIFEST_MISMATCH"),
                   Check(authorization.policyVersion \in {policyVersion} \cap {pending.policyVersion}, "POLICY_MISMATCH"),
                   Check(pending.manifest.enabled, "DISABLED"),
                   Check(targetState \in ActivationTransitions[pending.state], "INVALID_TRANSITION")>>)

(* The registry may answer with any sealed entry; it must be the pending one, in its new state. *)
VerifyIdentityOnly(pending, returned, targetState) ==    \* mutant
    returned.id = pending.id /\ returned.version = pending.version /\ returned.state = targetState
VerifyReturnedEntry(pending, returned, targetState) ==
    /\ returned.id = pending.id /\ returned.version = pending.version
    /\ returned.state = targetState
    /\ returned.policyVersion = pending.policyVersion
    /\ returned.risk = pending.risk
    /\ ComputeManifestDigest(returned.manifest) = ComputeManifestDigest(pending.manifest)
    /\ returned.granted = pending.granted

-----------------------------------------------------------------------------
(* Risk and permissions of one operation. *)

\* The floor of the operation: its source, its category, and what the caller hints at.
OperationFloor(routing, operation) ==
    ResolveEffectiveExtensionRisk(
      <<SourceFloor(routing.trust), routing.floor, CategoryFloor(operation.category),
        IF operation.external THEN "high" ELSE "low",
        IF operation.untrusted \/ routing.trust = "untrusted-input" THEN "untrusted-input" ELSE "low">>)

ClassifyExtensionRuntimeRisk(registration, policy, routing, guard, operation, aborted) ==
    FirstFailure(<<Check(~aborted, "INVALID_OPERATION_CONTEXT"),
                   Check(policy.id = registration.id /\ policy.version = registration.version, "POLICY_MISMATCH"),
                   Check(policy.policyVersion = registration.policyVersion, "POLICY_MISMATCH"),
                   Check(routing.correlation = operation.correlation, "OPERATION_MISMATCH"),
                   Check(guard.correlation = operation.correlation, "OPERATION_MISMATCH"),
                   Check(~guard.denied, "SECURITY_DENIED")>>)
ClassifiedRisk(registration, routing, guard, operation) ==
    ResolveEffectiveExtensionRisk(
      <<registration.manifest.riskClass, registration.risk, routing.floor, SourceFloor(routing.trust), guard.floor,
        OperationFloor(routing, operation)>>)

\* Each dangerous permission the manifest asks for needs a grant of the deployment and the owner's agreement.
\* (When several lack something, which failure is named is not modelled.)
DangerousChecks(manifest, grants) ==
    LET needed == RequiredApprovalEffects(manifest.requestedPermissions) IN
    << Check(needed \subseteq grants.deployment, "DANGEROUS_PERMISSION_NOT_GRANTED"),
       Check(needed \subseteq manifest.effects, "APPROVAL_EFFECT_MISMATCH"),
       Check(needed # {} => manifest.mode # "none", "APPROVAL_POLICY_REQUIRED") >>

ResolveExtensionPermissions(registration, evidence, operation, grants, now) ==
    FirstFailure(<<Check(registration.manifest.enabled, "DISABLED_EXTENSION"),
                   Check(IsFreshWindow(evidence.from, evidence.until, now), "STALE_RISK"),
                   Check(evidence.correlation = operation.correlation, "OPERATION_MISMATCH"),
                   Check(evidence.id = registration.id /\ evidence.version = registration.version, "VERSION_MISMATCH"),
                   Check(evidence.policyVersion = registration.policyVersion, "POLICY_MISMATCH"),
                   Check(evidence.registeredRisk = registration.risk, "REGISTRATION_MISMATCH"),
                   Check(registration.id = registration.manifest.id, "VERSION_MISMATCH")>>
                 \o DangerousChecks(registration.manifest, grants))
EffectivePermissions(registration, evidence, grants) ==
    LET risk == ResolveEffectiveExtensionRisk(
                  <<registration.manifest.riskClass, registration.risk, evidence.risk, evidence.registeredRisk>>)
        effective == registration.manifest.requestedPermissions \cap grants.deployment \cap grants.role
                       \cap grants.security \cap grants.risk IN
    IF risk = "untrusted-input" THEN effective \ DangerousPermissions ELSE effective
===============================================================================
