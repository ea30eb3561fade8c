--------------------------- MODULE WebhookIngress ---------------------------
(***************************************************************************)
(* executeWebhookIngress: one delivery of an external event runs through   *)
(* source authentication, signature, rate limit, scanner, policy, replay   *)
(* protection and audit, each an awaited call of a port, while any number  *)
(* of other deliveries of the same event run beside it.                    *)
(*                                                                         *)
(* The ports have no production implementation: the verifier knows what    *)
(* was really signed but may answer one call with the result of another,   *)
(* the replay store records atomically but its answer may be lost, and     *)
(* every port may be unavailable.  A digest is the thing digested; the     *)
(* canonical copy of the payload is private, so that its digest, computed  *)
(* again before each call, is always the first one.                        *)
(***************************************************************************)
EXTENDS Integers, FiniteSets

CONSTANTS Deliveries, Commands, LimitChoices, Signed, KnownSources, MaxIngressTime

\* A signature of a source goes with the command it was made for.
ASSUME SignedAssumption == \A signing \in Signed : signing.command.signature = signing.signature

VARIABLES ingressTime, deliveries, replayStore, auditTrail
webhookVars == <<ingressTime, deliveries, replayStore, auditTrail>>

Version == "openclaw.webhook.v1"
CommandFields ==
    {"envelopeVersion", "sourceId", "eventId", "eventType", "occurredAt", "idempotencyKey", "nonce", "rawPayload",
     "contentType", "contentLength", "correlationId", "privacyClassification", "algorithm", "keyReference", "signature"}
(* The canonical representation frames every field but the signature it is signed with. *)
TypeLeftUnsigned(input) == [f \in CommandFields \ {"signature", "eventType"} |-> input[f]]    \* mutant
CanonicalSignedBytes(input) == [f \in CommandFields \ {"signature"} |-> input[f]]

(* What a verifier's answer must repeat of the envelope it was asked about. *)
BoundFields ==
    {"envelopeVersion", "sourceId", "eventId", "occurredAt", "idempotencyKey", "nonce", "rawPayload",
     "signedEnvelopeDigest", "signature", "algorithm", "keyReference"}

ValidateWebhookIngressLimits(limits) == \A bound \in DOMAIN limits : limits[bound] \in Nat \ {0}

(* The single read of the caller's object: "malformed" names the fields that fail their own parser. *)
SnapshotWebhookCommand(command, limits) ==
    /\ command.shape = "exact plain data"
    /\ command.malformed = {}
    /\ command.envelopeVersion = Version
    /\ command.eventTypeLength <= limits.maxEventTypeLength
    /\ command.payloadLength <= limits.maxContentLength
    /\ command.contentLength = command.payloadLength

Envelope(command, trustedIso) ==
    [f \in CommandFields \cup {"signedEnvelopeDigest", "receivedAt"} |->
        CASE f = "signedEnvelopeDigest" -> CanonicalSignedBytes(command)
          [] f = "receivedAt" -> trustedIso
          [] OTHER -> command[f]]

Apart(a, b) == IF a > b THEN a - b ELSE b - a
ValidateTimestamps(envelope, limits, trustedNow) ==
    /\ envelope.occurredAt - trustedNow <= limits.maxClockSkewMs
    /\ Apart(trustedNow, envelope.receivedAt) <= limits.maxClockSkewMs
    /\ Apart(envelope.receivedAt, envelope.occurredAt) <= limits.maxClockSkewMs
ValidateWebhookEnvelope(envelope, command, limits, trustedNow) ==
    IF command.idLength > limits.maxIdLength THEN "INVALID_ENVELOPE"
    ELSE IF ~ValidateTimestamps(envelope, limits, trustedNow) THEN "INVALID_TIMESTAMP" ELSE "allowed"

(* Everything before the first await, the clock read once. *)
Admission(command, limits, context) ==
    IF context = "invalid" THEN "INVALID_OPERATION_CONTEXT"
    ELSE IF ~ValidateWebhookIngressLimits(limits) THEN "INVALID_LIMITS"
    ELSE IF ~SnapshotWebhookCommand(command, limits) THEN "INVALID_ENVELOPE"
    ELSE ValidateWebhookEnvelope(Envelope(command, ingressTime), command, limits, ingressTime)

NoDelivery == [at |-> "idle"]
DeliveryAt(stage) == {d \in Deliveries : deliveries[d].at = stage}
EnvelopeOf(d) == deliveries[d].envelope
DeliveryEnds(d, code) == deliveries' = [deliveries EXCEPT ![d].at = "ended", ![d].code = code]
Awaits(d, stage) == deliveries' = [deliveries EXCEPT ![d].at = stage]

WebhookInit ==
    /\ ingressTime = 0
    /\ deliveries = [d \in Deliveries |-> NoDelivery]
    /\ replayStore = {}
    /\ auditTrail = {}

ExecuteWebhookIngress(d, command, limits, context) ==
    /\ deliveries[d] = NoDelivery
    /\ LET outcome == Admission(command, limits, context) IN
       deliveries' = [deliveries EXCEPT ![d] =
            IF outcome # "allowed" THEN [at |-> "ended", code |-> outcome]
            ELSE [at |-> "authenticate", code |-> "none", envelope |-> Envelope(command, ingressTime)]]
    /\ UNCHANGED <<ingressTime, replayStore, auditTrail>>

(* A port's answer: unavailable, a refusal, or the next call. *)
Answered(d, stage, accepts, refusal, unavailable, next) ==
    /\ deliveries[d].at = stage
    /\ \/ DeliveryEnds(d, unavailable)
       \/ ~accepts /\ DeliveryEnds(d, refusal)
       \/ accepts /\ Awaits(d, next)
    /\ UNCHANGED <<ingressTime, replayStore, auditTrail>>

SourceAuthenticated(d) ==
    Answered(d, "authenticate", EnvelopeOf(d).sourceId \in KnownSources, "UNKNOWN_SOURCE", "VERIFIER_UNAVAILABLE", "verify")

(* The verifier's answer about an envelope: it repeats the envelope's fields and says whether the key signed them. *)
VerifierResult(envelope, verdict) ==
    [f \in BoundFields \cup {"malformed", "verified", "verifiedAt"} |->
        CASE f = "malformed" -> FALSE [] f = "verified" -> verdict [] f = "verifiedAt" -> envelope.receivedAt [] OTHER -> envelope[f]]
Genuine(envelope) ==
    \E signing \in Signed :
        /\ signing.signature = envelope.signature
        /\ CanonicalSignedBytes(signing.command) = envelope.signedEnvelopeDigest
SealFromPrimitive(result, envelope) ==
    IF result.malformed THEN "VERIFIER_RESULT_INVALID"
    ELSE IF /\ result.verified
            /\ result.verifiedAt = envelope.receivedAt
            /\ \A f \in BoundFields : result[f] = envelope[f]
         THEN "sealed" ELSE "SIGNATURE_INVALID"

(* The adapter answers one call with what it computed for a call that waits, this one or another. *)
SignatureVerified(d) ==
    /\ deliveries[d].at = "verify"
    /\ \/ DeliveryEnds(d, "VERIFIER_UNAVAILABLE")
       \/ DeliveryEnds(d, "SIGNATURE_INVALID")
       \/ \E result \in {[malformed |-> TRUE]}
                \cup {VerifierResult(EnvelopeOf(e), Genuine(EnvelopeOf(e))) : e \in DeliveryAt("verify")} :
            LET sealed == SealFromPrimitive(result, EnvelopeOf(d)) IN
            IF sealed = "sealed" THEN Awaits(d, "rate") ELSE DeliveryEnds(d, sealed)
    /\ UNCHANGED <<ingressTime, replayStore, auditTrail>>

RateDecided(d) == \E allow \in BOOLEAN : Answered(d, "rate", allow, "RATE_LIMITED", "VERIFIER_UNAVAILABLE", "scan")
TextScanned(d) == \E allow \in BOOLEAN : Answered(d, "scan", allow, "SCANNER_DENIED", "SCANNER_UNAVAILABLE", "authorize")
PolicyAuthorized(d) ==
    \E allow \in BOOLEAN : Answered(d, "authorize", allow, "POLICY_DENIED", "VERIFIER_UNAVAILABLE", "replay")

(* The outcomes the store may answer with: every clash it sees, or that the event is new. *)
Clashes(envelope, field) == \E seen \in replayStore : seen.envelope[field] = envelope[field]
ReplayOutcomes(envelope) ==
    LET clashes == {outcome \in {<<"eventId", "duplicate-event">>, <<"nonce", "nonce-replay">>,
                                 <<"idempotencyKey", "duplicate-idempotency-key">>} : Clashes(envelope, outcome[1])}
    IN IF clashes = {} THEN {"accepted", "stale-timestamp", "unknown outcome"}
       ELSE {outcome[2] : outcome \in clashes} \cup {"replay"}
MapReplayOutcome(outcome) ==
    CASE outcome = "accepted" -> "accepted"
      [] outcome = "replay" -> "REPLAY_DETECTED"
      [] outcome = "duplicate-event" -> "DUPLICATE_EVENT"
      [] outcome = "duplicate-idempotency-key" -> "DUPLICATE_IDEMPOTENCY_KEY"
      [] outcome = "stale-timestamp" -> "STALE_TIMESTAMP"
      [] outcome = "nonce-replay" -> "NONCE_REPLAY"
      [] OTHER -> "VERIFIER_RESULT_INVALID"

(* Checked and recorded in one step; the answer of a call that recorded may still be lost. *)
ReplayCheckedAndRecorded(d) ==
    /\ deliveries[d].at = "replay"
    /\ \E outcome \in ReplayOutcomes(EnvelopeOf(d)), answered \in BOOLEAN :
        /\ replayStore' = replayStore \cup
            (IF outcome = "accepted" THEN {[delivery |-> d, envelope |-> EnvelopeOf(d)]} ELSE {})
        /\ LET mapped == MapReplayOutcome(outcome) IN
           IF ~answered THEN DeliveryEnds(d, "VERIFIER_UNAVAILABLE")
           ELSE IF mapped = "accepted" THEN Awaits(d, "audit") ELSE DeliveryEnds(d, mapped)
    /\ UNCHANGED <<ingressTime, auditTrail>>

(* The audit row may be written although its answer is a failure. *)
AuditRecorded(d) ==
    /\ deliveries[d].at = "audit"
    /\ \E written, answered \in BOOLEAN :
        /\ answered => written
        /\ auditTrail' = auditTrail \cup (IF written THEN {d} ELSE {})
        /\ DeliveryEnds(d, IF answered THEN "authorized" ELSE "AUDIT_FAILED")
    /\ UNCHANGED <<ingressTime, replayStore>>

IngressTick ==
    /\ ingressTime < MaxIngressTime
    /\ ingressTime' = ingressTime + 1
    /\ UNCHANGED <<deliveries, replayStore, auditTrail>>

DeliveryStep(d) ==
    \/ \E command \in Commands, limits \in LimitChoices, context \in {"valid", "invalid"} :
        ExecuteWebhookIngress(d, command, limits, context)
    \/ SourceAuthenticated(d) \/ SignatureVerified(d) \/ RateDecided(d) \/ TextScanned(d)
    \/ PolicyAuthorized(d) \/ ReplayCheckedAndRecorded(d) \/ AuditRecorded(d)
WebhookNext == IngressTick \/ \E d \in Deliveries : DeliveryStep(d)
WebhookSpec == WebhookInit /\ [][WebhookNext]_webhookVars

Authorized == {d \in DeliveryAt("ended") : deliveries[d].code = "authorized"}
-----------------------------------------------------------------------------
(* However many deliveries of an event run beside or after each other, at most one of them is authorised, and no
   two authorised deliveries share an event, an idempotency key or a nonce (executeWebhookIngress with the
   replay port; docs/security-policy.md, "atomic replay/idempotency check-and-record"). *)
OneAuthorizationPerEvent ==
    \A d, e \in Authorized : d # e =>
        \A field \in {"eventId", "idempotencyKey", "nonce"} : EnvelopeOf(d)[field] # EnvelopeOf(e)[field]

(* Only a delivery whose every field its source signed takes an event, a key or a nonce, and one refused before the
   replay check has taken none: a forged or refused delivery cannot make the genuine one a duplicate
   (the order of the calls in executeWebhookIngress). *)
OnlyVettedDeliveriesAreRecorded ==
    \A seen \in replayStore :
        /\ \E signing \in Signed : \A f \in CommandFields : signing.command[f] = seen.envelope[f]
        /\ deliveries[seen.delivery].at = "ended" =>
            deliveries[seen.delivery].code \in {"authorized", "AUDIT_FAILED", "VERIFIER_UNAVAILABLE"}

(* What is authorised is in the audit trail and in the replay store, so that no later delivery of it can pass
   (the evidence is returned only after checkAndRecord and record have succeeded). *)
AuthorizedIsOnRecord ==
    \A d \in Authorized : d \in auditTrail /\ \E seen \in replayStore : seen.envelope = EnvelopeOf(d)

(* An event is let through once, and never without the record that keeps it from being let through again. *)
EventsAreAuthorizedOnce == OneAuthorizationPerEvent /\ AuthorizedIsOnRecord

(* A genuine event is let through once and nothing else takes its place: the two sides of the replay store
   (executeWebhookIngress with any number of deliveries at its awaits). *)
DeliveriesPassOnce == EventsAreAuthorizedOnce /\ OnlyVettedDeliveriesAreRecorded
===============================================================================
