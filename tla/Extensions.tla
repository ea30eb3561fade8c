------------------------------ MODULE Extensions ------------------------------
(***************************************************************************)
(* Registration, activation and permissions of extensions.  Operations run *)
(* beside each other and give way at every await; the clock goes on while  *)
(* they wait, and each reads it where the code does: once before its first *)
(* await and, in part, again after the last.  The ports answer with any    *)
(* observation offered; the registry, outside this repository, applies a   *)
(* transition only from the state expected, and may answer with another    *)
(* entry than the one it changed, or not at all.                           *)
(***************************************************************************)
EXTENDS ExtensionRules

CONSTANTS Operations, Candidates, EarlierEntries, OfferedPolicies, OfferedApprovals, OfferedRoutings, OfferedGuards,
    OperationRequests, MaxExtensionTime

\* An entry of the registry, whatever its manifest says.
IsEntry(entry) ==
    /\ entry = [id |-> entry.id, version |-> entry.version, manifest |-> entry.manifest, state |-> entry.state,
                policyVersion |-> entry.policyVersion, risk |-> entry.risk, granted |-> entry.granted]
    /\ entry.manifest = [field \in DOMAIN entry.manifest |-> entry.manifest[field]]

ASSUME EntriesAssumption == \A entry \in EarlierEntries : IsEntry(entry)

VARIABLES clock, registry, operations
extensionVars == <<clock, registry, operations>>

EntryKey(entry) == <<entry.id, entry.version>>
EntryOf(key) == {e \in registry : EntryKey(e) = key}
Unused == [at |-> "unused"]
StandsAt(stage) == {o \in Operations : operations[o].at = stage}
Own(o) == operations[o]
Moves(o, local) == operations' = [operations EXCEPT ![o] = local]
\* An operation that ends with nothing to show keeps only its code.
EndsWith(o, code) == Moves(o, [at |-> "ended", code |-> code])
Failed == [failed |-> TRUE]
Given(answer) == "failed" \notin DOMAIN answer

PolicyVersion == "extension-policy@1"

ExtensionsInit ==
    /\ clock = 0
    /\ registry \in SUBSET EarlierEntries
    /\ operations = [o \in Operations |-> Unused]

ClockTicks == clock < MaxExtensionTime /\ clock' = clock + 1 /\ UNCHANGED <<registry, operations>>

(* The caller's signal. *)
AbortOperation(o) ==
    /\ "aborted" \in DOMAIN Own(o) /\ ~Own(o).aborted
    /\ Moves(o, [Own(o) EXCEPT !.aborted = TRUE])
    /\ UNCHANGED <<clock, registry>>

(* Whoever keeps the registry takes an extension out of use. *)
WithdrawEntry(entry, state) ==
    /\ entry \in registry /\ state \in ActivationTransitions[entry.state] \ {"active"}
    /\ state # entry.state
    /\ registry' = (registry \ {entry}) \cup {[entry EXCEPT !.state = state]}
    /\ UNCHANGED <<clock, operations>>

-----------------------------------------------------------------------------
(* executeExtensionRegistration *)

EntryFrom(candidate) ==
    LET manifest == [field \in DOMAIN candidate \ {"shape", "malformed"} |-> candidate[field]] IN
    [id |-> manifest.id, version |-> manifest.version, manifest |-> manifest,
     state |-> IF manifest.enabled THEN "pending" ELSE "disabled", policyVersion |-> PolicyVersion,
     risk |-> manifest.riskClass, granted |-> {}]

RegisterExtension(o, candidate) ==
    /\ o \in StandsAt("unused")
    /\ IF Fails(ValidateExtensionManifest(candidate)) THEN EndsWith(o, ValidateExtensionManifest(candidate))
       ELSE \E answer \in {"free", "conflict", "failed"} :
              /\ answer = "conflict" => EntryOf(<<candidate.id, candidate.version>>) # {}
              /\ answer = "free" => EntryOf(<<candidate.id, candidate.version>>) = {}
              /\ Moves(o, [at |-> "conflict", entry |-> EntryFrom(candidate), answer |-> answer])
    /\ UNCHANGED <<clock, registry>>

\* The registry itself refuses an id and version it has; its answer may be lost.
ConflictAnswered(o) ==
    /\ o \in StandsAt("conflict") /\ UNCHANGED clock
    /\ LET entry == Own(o).entry
           done == EntryOf(EntryKey(entry)) = {} IN
       CASE Own(o).answer = "failed" -> EndsWith(o, "REGISTRY_UNAVAILABLE") /\ UNCHANGED registry
         [] Own(o).answer = "conflict" -> EndsWith(o, "DUPLICATE_ID_VERSION") /\ UNCHANGED registry
         [] OTHER ->
              /\ registry' = IF done THEN registry \cup {entry} ELSE registry
              /\ \E answer \in {"failed"} \cup (IF done THEN {"registered"} ELSE {}) :
                   Moves(o, [at |-> "registering", entry |-> entry, answer |-> answer])

RegistrationAnswered(o) ==
    /\ o \in StandsAt("registering")
    /\ IF Own(o).answer = "failed" THEN EndsWith(o, "REGISTRY_UNAVAILABLE")
       ELSE Moves(o, [at |-> "ended", code |-> "registered", entry |-> Own(o).entry])
    /\ UNCHANGED <<clock, registry>>

-----------------------------------------------------------------------------
(* ExtensionActivationGateway.activate *)

\* Entries a caller may hold: what a registration returned, and what the registry hands out.
HeldEntries == registry \cup {Own(o).entry : o \in {p \in StandsAt("ended") : Own(p).code = "registered"}}
Identity(named) == [id |-> named.id, version |-> named.version]
Expected(named) == [id |-> named.id, version |-> named.version, correlation |-> "own"]

ActivateExtension(o, entry) ==
    /\ o \in StandsAt("unused") /\ entry \in HeldEntries
    /\ \E answer \in OfferedPolicies \cup {Failed} :
         Moves(o, [at |-> "policy", entry |-> entry, started |-> clock, answer |-> answer, aborted |-> FALSE])
    /\ UNCHANGED <<clock, registry>>

ActivationPolicyAnswered(o) ==
    /\ o \in StandsAt("policy")
    /\ LET policy == Own(o).answer
           entry == Own(o).entry IN
       CASE ~Given(policy) -> EndsWith(o, "POLICY_UNAVAILABLE")
         [] Given(policy) /\ ~SealCurrentExtensionPolicySnapshot(policy, Identity(entry), Own(o).started) ->
              EndsWith(o, "INVALID_OBSERVATION")
         [] Given(policy) /\ SealCurrentExtensionPolicySnapshot(policy, Identity(entry), Own(o).started)
            /\ policy.policyVersion # entry.policyVersion -> EndsWith(o, "POLICY_MISMATCH")
         [] OTHER -> \E answer \in OfferedApprovals \cup {Failed} :
                       Moves(o, [at |-> "approval", entry |-> entry, started |-> Own(o).started, policy |-> policy,
                                 answer |-> answer, aborted |-> Own(o).aborted])
    /\ UNCHANGED <<clock, registry>>

\* What the core decides once the approval is there: the clock is read again.
ActivationVerdict(o, approval, authorization) ==
    FirstFailure(
      <<Check(Given(approval), "DEPLOYMENT_UNAVAILABLE"),
        IF Given(approval) THEN Check(ParseDeploymentApprovalObservation(approval, Expected(Own(o).entry), Own(o).started),
                                      "INVALID_OBSERVATION") ELSE "ok",
        IF Given(approval) THEN IssueDeploymentAuthorization(approval, Own(o).policy, clock) ELSE "ok",
        Check(~Own(o).aborted, "INVALID_OPERATION_CONTEXT"),
        IF Given(approval)
        THEN DecideActivation(Own(o).entry, authorization, "active", Own(o).policy.policyVersion, clock) ELSE "ok">>)
AuthorizationFrom(o, approval) ==
    IF Given(approval)
    THEN [id |-> approval.id, version |-> approval.version, digest |-> ComputeManifestDigest(Own(o).entry.manifest),
          policyVersion |-> Own(o).policy.policyVersion, from |-> approval.from,
          until |-> AuthorizationUntil(approval, Own(o).policy)]
    ELSE Failed

\* What a registry may hand back for an entry it has made active.
Answers(entry) ==
    {Failed, entry, [entry EXCEPT !.state = "pending"], [entry EXCEPT !.granted = {"exec"}], [entry EXCEPT !.risk = "low"],
     [entry EXCEPT !.manifest.requestedPermissions = ExtensionPermissions]}

ApprovalAnswered(o) ==
    /\ o \in StandsAt("approval") /\ UNCHANGED clock
    /\ LET approval == Own(o).answer
           verdict == ActivationVerdict(o, approval, AuthorizationFrom(o, approval))
           entry == Own(o).entry
           found == {e \in EntryOf(EntryKey(entry)) : e.state = "pending"} IN
       IF Fails(verdict) THEN EndsWith(o, verdict) /\ UNCHANGED registry
       ELSE /\ registry' = (registry \ found) \cup {[e EXCEPT !.state = "active"] : e \in found}
            /\ \E answer \in {Failed} \cup UNION {Answers([e EXCEPT !.state = "active"]) : e \in found} :
                 Moves(o, [at |-> "updating", entry |-> entry, policy |-> Own(o).policy, approval |-> approval,
                           decided |-> clock, answer |-> answer])

UpdateAnswered(o) ==
    /\ o \in StandsAt("updating")
    /\ LET returned == Own(o).answer IN
       CASE ~Given(returned) -> EndsWith(o, "REGISTRY_UNAVAILABLE")
         [] Given(returned) /\ ~VerifyReturnedEntry(Own(o).entry, returned, "active") -> EndsWith(o, "RETURNED_ENTRY_MISMATCH")
         [] OTHER -> Moves(o, [at |-> "ended", code |-> "active", entry |-> Own(o).entry, policy |-> Own(o).policy,
                               approval |-> Own(o).approval, decided |-> Own(o).decided, registration |-> returned])
    /\ UNCHANGED <<clock, registry>>

-----------------------------------------------------------------------------
(* ExtensionPermissionGateway.resolve *)

Registrations == {Own(o).registration : o \in {p \in StandsAt("ended") : Own(p).code = "active"}}
AskedFor(o) == Own(o).request

ResolvePermissions(o, registration, request) ==
    /\ o \in StandsAt("unused") /\ registration \in Registrations
    /\ IF ~ExactObservation(request) THEN EndsWith(o, "INVALID_OBSERVATION")
       ELSE \E answer \in OfferedPolicies \cup {Failed} :
              Moves(o, [at |-> "grants", registration |-> registration, request |-> request, started |-> clock,
                        answer |-> answer, aborted |-> FALSE])
    /\ UNCHANGED <<clock, registry>>

GrantsAnswered(o) ==
    /\ o \in StandsAt("grants")
    /\ LET policy == Own(o).answer IN
       CASE ~Given(policy) -> EndsWith(o, "POLICY_UNAVAILABLE")
         [] Given(policy) /\ ~SealCurrentExtensionPolicySnapshot(policy, Identity(AskedFor(o)), Own(o).started) ->
              EndsWith(o, "INVALID_OBSERVATION")
         [] OTHER -> \E answer \in OfferedRoutings \cup {Failed} :
                       Moves(o, [at |-> "routing", registration |-> Own(o).registration, request |-> AskedFor(o),
                                 started |-> Own(o).started, answer |-> answer, aborted |-> Own(o).aborted,
                                 policy |-> policy])
    /\ UNCHANGED <<clock, registry>>

RoutingAnswered(o) ==
    /\ o \in StandsAt("routing")
    /\ LET routing == Own(o).answer IN
       CASE ~Given(routing) -> EndsWith(o, "ROUTING_UNAVAILABLE")
         [] Given(routing) /\ ~ParseRoutingObservation(routing, Expected(AskedFor(o)), Own(o).started) ->
              EndsWith(o, "INVALID_OBSERVATION")
         [] OTHER -> \E answer \in OfferedGuards \cup {Failed} :
                       Moves(o, [at |-> "guard", registration |-> Own(o).registration, request |-> AskedFor(o),
                                 started |-> Own(o).started, answer |-> answer, aborted |-> Own(o).aborted,
                                 policy |-> Own(o).policy, routing |-> routing])
    /\ UNCHANGED <<clock, registry>>

\* The evidence is classified with the clock as it is now, and judged with the clock as it was.
EvidenceOf(o, guard) ==
    [id |-> Own(o).registration.id, version |-> Own(o).registration.version, correlation |-> AskedFor(o).correlation,
     risk |-> ClassifiedRisk(Own(o).registration, Own(o).routing, guard, AskedFor(o)),
     policyVersion |-> Own(o).registration.policyVersion, registeredRisk |-> Own(o).registration.risk,
     from |-> clock, until |-> clock + Own(o).policy.evidenceTtl]
GrantsWithoutGuard(o, guard) ==    \* mutant
    [deployment |-> Own(o).policy.deployment, role |-> Own(o).policy.role, risk |-> Own(o).policy.risk,
     security |-> Own(o).policy.security]
GrantsOf(o, guard) ==
    [deployment |-> Own(o).policy.deployment, role |-> Own(o).policy.role, risk |-> Own(o).policy.risk,
     security |-> IF guard.denied THEN {} ELSE Own(o).policy.security \cap guard.allowed]

GuardAnswered(o) ==
    /\ o \in StandsAt("guard") /\ UNCHANGED <<clock, registry>>
    /\ LET guard == Own(o).answer
           accepted == Given(guard) /\ ParseSecurityGuardObservation(guard, Expected(AskedFor(o)), Own(o).started)
           classified == ClassifyExtensionRuntimeRisk(Own(o).registration, Own(o).policy, Own(o).routing, guard,
                                                      AskedFor(o), Own(o).aborted)
           decision == ResolveExtensionPermissions(Own(o).registration, EvidenceOf(o, guard), AskedFor(o),
                                                   GrantsOf(o, guard), Own(o).started) IN
       CASE ~Given(guard) -> EndsWith(o, "SECURITY_UNAVAILABLE")
         [] Given(guard) /\ ~accepted -> EndsWith(o, "INVALID_OBSERVATION")
         [] accepted /\ Fails(classified) -> EndsWith(o, classified)
         [] accepted /\ ~Fails(classified) /\ Fails(decision) ->
              Moves(o, [at |-> "ended", code |-> decision, evidence |-> EvidenceOf(o, guard)])
         [] OTHER ->
              Moves(o, [at |-> "ended", code |-> "allowed", registration |-> Own(o).registration, request |-> AskedFor(o),
                        policy |-> Own(o).policy, routing |-> Own(o).routing, guard |-> guard, started |-> Own(o).started,
                        permissions |-> EffectivePermissions(Own(o).registration, EvidenceOf(o, guard), GrantsOf(o, guard))])

-----------------------------------------------------------------------------
ExtensionsNext ==
    \/ ClockTicks
    \/ \E o \in Operations :
         \/ AbortOperation(o) \/ ConflictAnswered(o) \/ RegistrationAnswered(o)
         \/ ActivationPolicyAnswered(o) \/ ApprovalAnswered(o) \/ UpdateAnswered(o)
         \/ GrantsAnswered(o) \/ RoutingAnswered(o) \/ GuardAnswered(o)
         \/ \E candidate \in Candidates : RegisterExtension(o, candidate)
         \/ \E entry \in HeldEntries : ActivateExtension(o, entry)
         \/ \E registration \in Registrations, request \in OperationRequests : ResolvePermissions(o, registration, request)
    \/ \E entry \in registry : \E state \in ActivationTransitions[entry.state] : WithdrawEntry(entry, state)

ExtensionsSpec == ExtensionsInit /\ [][ExtensionsNext]_extensionVars

-----------------------------------------------------------------------------
(***************************************************************************)
(* An active registration was decided under an approval for that extension *)
(* version that was in force, and within the policy's time to live, when   *)
(* the registry was asked; it speaks of the entry that was presented, with *)
(* its manifest, risk and grants, whatever the registry answered (the      *)
(* waits and the checks of activate and executeExtensionActivation).       *)
(***************************************************************************)
ActiveEvidenceIsEarned ==
    \A o \in {p \in StandsAt("ended") : Own(p).code = "active"} :
      LET entry == Own(o).entry
          approval == Own(o).approval IN
      /\ Matches(approval, Expected(entry))
      /\ IsFreshWindow(approval.from, Min({approval.until, approval.from + Own(o).policy.authorizationTtl}), Own(o).decided)
      /\ Own(o).policy.policyVersion = entry.policyVersion
      /\ entry.manifest.enabled
      /\ Own(o).registration = [entry EXCEPT !.state = "active", !.manifest.wording = Own(o).registration.manifest.wording]

(***************************************************************************)
(* The permissions granted to an operation are asked for by the manifest   *)
(* and allowed by each of deployment, role, Security Guard and risk policy *)
(* in observations made of this very operation; none of them is dangerous  *)
(* when anything that was seen of the operation is untrusted (the merging  *)
(* in classifyExtensionRuntimeRisk and resolveExtensionPermissions).       *)
(***************************************************************************)
GrantsAreBacked ==
    \A o \in {p \in StandsAt("ended") : Own(p).code = "allowed"} :
      LET granted == Own(o).permissions
          policy == Own(o).policy
          guard == Own(o).guard
          seen == {Own(o).routing.trust, Own(o).routing.floor, guard.floor, Own(o).registration.risk,
                   Own(o).registration.manifest.riskClass, CategoryFloor(Own(o).request.category)} IN
      /\ granted \subseteq Own(o).registration.manifest.requestedPermissions
      /\ granted \subseteq policy.deployment \cap policy.role \cap policy.security \cap policy.risk \cap guard.allowed
      /\ ~guard.denied
      /\ Matches(guard, Expected(Own(o).registration)) /\ Matches(Own(o).routing, Expected(Own(o).registration))
      /\ Matches(policy, Identity(Own(o).registration))
      /\ "untrusted-input" \in seen \/ Own(o).request.untrusted => granted \cap DangerousPermissions = {}

(***************************************************************************)
(* docs/security-policy.md lines 115 and 121: the result is the            *)
(* intersection, and missing, stale or mismatched evidence is what denies. *)
(* Evidence that resolve has itself just classified, and that still stands *)
(* when it ends, is none of these.                                         *)
(***************************************************************************)
FreshEvidenceIsAccepted ==
    \A o \in {p \in StandsAt("ended") : Own(p).code = "STALE_RISK"} :
      ~IsFreshWindow(Own(o).evidence.from, Own(o).evidence.until, clock)
===============================================================================
