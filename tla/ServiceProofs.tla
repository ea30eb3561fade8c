----------------------------- MODULE ServiceProofs -----------------------------
(***************************************************************************)
(* What the application services promise, for any number of calls that run *)
(* beside each other: the webhook ingress authorises an event once and on  *)
(* record, and the memory service keeps owners and namespaces apart,       *)
(* spends a grant on one write, and answers what it did; extensions are    *)
(* active and granted what evidence allows; the inventories hold together; *)
(* tool calls answer what they did; a voice has been vouched for.          *)
(***************************************************************************)
EXTENDS WebhookIngress, MemoryService, Extensions, InfrastructureFleet, ConnectorTools, VoiceResolution,
        TLAPS, NaturalsInduction, WellFoundedInduction

-----------------------------------------------------------------------------
(* The webhook ingress. *)

VettedStages == {"rate", "scan", "authorize", "replay", "audit"}
RecordedCodes == {"authorized", "AUDIT_FAILED"}
UniqueFields == {"eventId", "idempotencyKey", "nonce"}

\* A call is idle, ended before it had an envelope, or has one.
DeliveryShape(d) ==
    LET call == deliveries[d] IN
    \/ call = NoDelivery
    \/ call = [at |-> "ended", code |-> call.code] /\ call.code \notin RecordedCodes
    \/ /\ call = [at |-> call.at, code |-> call.code, envelope |-> call.envelope]
       /\ call.at \in {"authenticate", "verify", "ended"} \cup VettedStages
       /\ \A f \in CommandFields \ {"signature"} :
            call.envelope.signedEnvelopeDigest[f] = call.envelope[f]

\* The source signed every field of it.
SignedEnvelope(envelope) ==
    \E signing \in Signed : \A f \in CommandFields : signing.command[f] = envelope[f]

Passed(d) == deliveries[d].at \in VettedStages \/ (deliveries[d].at = "ended" /\ deliveries[d].code \in RecordedCodes)
OnRecord(d) == deliveries[d].at = "audit" \/ (deliveries[d].at = "ended" /\ deliveries[d].code \in RecordedCodes)

DeliveryInv(d) ==
    /\ DeliveryShape(d)
    /\ Passed(d) => SignedEnvelope(EnvelopeOf(d))
    /\ OnRecord(d) => [delivery |-> d, envelope |-> EnvelopeOf(d)] \in replayStore
    /\ deliveries[d].at = "ended" /\ deliveries[d].code = "authorized" => d \in auditTrail

\* What is in the replay store was put there by a delivery that had passed every check before it.
SeenInv(seen) ==
    /\ seen = [delivery |-> seen.delivery, envelope |-> seen.envelope]
    /\ seen.delivery \in Deliveries
    /\ SignedEnvelope(seen.envelope)
    /\ deliveries[seen.delivery].at \in {"audit", "ended"}
    /\ deliveries[seen.delivery].at = "ended" =>
         deliveries[seen.delivery].code \in RecordedCodes \cup {"VERIFIER_UNAVAILABLE"}

WebhookInv ==
    /\ DOMAIN deliveries = Deliveries /\ deliveries = [d \in Deliveries |-> deliveries[d]]
    /\ \A d \in Deliveries : DeliveryInv(d)
    /\ \A seen \in replayStore : SeenInv(seen)
    /\ \A seen, other \in replayStore : seen # other =>
         \A field \in UniqueFields : seen.envelope[field] # other.envelope[field]

LEMMA EnvelopeFields ==
    ASSUME NEW command, NEW moment
    PROVE  \A f \in CommandFields \ {"signature"} :
             Envelope(command, moment).signedEnvelopeDigest[f] = Envelope(command, moment)[f]
<1>1. "signedEnvelopeDigest" \notin CommandFields /\ "receivedAt" \notin CommandFields
  BY DEF CommandFields
<1>2. Envelope(command, moment).signedEnvelopeDigest = CanonicalSignedBytes(command)
  BY DEF Envelope
<1>3. \A f \in CommandFields : Envelope(command, moment)[f] = command[f]
  BY <1>1 DEF Envelope
<1> QED
  BY <1>2, <1>3 DEF CanonicalSignedBytes

\* A verifier's answer that is sealed for an envelope speaks of that envelope, whichever it was
\* computed for.
LEMMA SealedIsSigned ==
    ASSUME NEW d \in Deliveries, NEW e \in Deliveries, DeliveryShape(d), DeliveryShape(e),
           deliveries[d].at = "verify", deliveries[e].at = "verify",
           SealFromPrimitive(VerifierResult(EnvelopeOf(e), Genuine(EnvelopeOf(e))), EnvelopeOf(d)) = "sealed"
    PROVE  SignedEnvelope(EnvelopeOf(d))
<1> DEFINE result == VerifierResult(EnvelopeOf(e), Genuine(EnvelopeOf(e)))
<1>1. "malformed" \notin BoundFields /\ "verified" \notin BoundFields /\ "verifiedAt" \notin BoundFields
  BY DEF BoundFields
<1>2. /\ result.verified = Genuine(EnvelopeOf(e))
      /\ \A f \in BoundFields : result[f] = EnvelopeOf(e)[f]
  BY <1>1 DEF VerifierResult
<1>3. result.verified /\ \A f \in BoundFields : result[f] = EnvelopeOf(d)[f]
  <2> HIDE DEF result
  <2>1. SealFromPrimitive(result, EnvelopeOf(d)) = "sealed"
    BY DEF result
  <2> QED
    BY <2>1 DEF SealFromPrimitive
<1> HIDE DEF result
<1>4. Genuine(EnvelopeOf(e)) /\ \A f \in BoundFields : EnvelopeOf(d)[f] = EnvelopeOf(e)[f]
  BY <1>2, <1>3
<1>5. PICK signing \in Signed :
        /\ signing.signature = EnvelopeOf(e).signature
        /\ CanonicalSignedBytes(signing.command) = EnvelopeOf(e).signedEnvelopeDigest
  BY <1>4 DEF Genuine
<1>6. /\ EnvelopeOf(d).signature = signing.signature
      /\ EnvelopeOf(d).signedEnvelopeDigest = CanonicalSignedBytes(signing.command)
  BY <1>4, <1>5 DEF BoundFields
<1>7. \A f \in CommandFields \ {"signature"} : EnvelopeOf(d).signedEnvelopeDigest[f] = EnvelopeOf(d)[f]
  BY DEF DeliveryShape, NoDelivery, EnvelopeOf
<1>8. \A f \in CommandFields \ {"signature"} : signing.command[f] = EnvelopeOf(d)[f]
  BY <1>6, <1>7 DEF CanonicalSignedBytes
<1>9. signing.command["signature"] = EnvelopeOf(d)["signature"]
  BY <1>6, SignedAssumption
<1> QED
  BY <1>8, <1>9 DEF SignedEnvelope

\* A step of one delivery that leaves the replay store alone.
WebhookStepOf(d) ==
    /\ deliveries' = [deliveries EXCEPT ![d] = deliveries'[d]]
    /\ replayStore' = replayStore /\ auditTrail \subseteq auditTrail'

LEMMA WebhookStepHolds ==
    ASSUME WebhookInv, NEW d \in Deliveries, WebhookStepOf(d), DeliveryInv(d)',
           \A seen \in replayStore : seen.delivery = d => SeenInv(seen)'
    PROVE  WebhookInv'
<1>1. \A e \in Deliveries : e # d => deliveries'[e] = deliveries[e]
  BY DEF WebhookInv, WebhookStepOf
<1>2. DOMAIN deliveries' = Deliveries /\ deliveries' = [e \in Deliveries |-> deliveries'[e]]
  BY DEF WebhookInv, WebhookStepOf
<1>3. ASSUME NEW e \in Deliveries
      PROVE  DeliveryInv(e)'
  <2>1. CASE e # d
    BY <1>1, <2>1 DEF WebhookInv, WebhookStepOf, DeliveryInv, DeliveryShape, Passed, OnRecord, EnvelopeOf
  <2> QED
    BY <2>1
<1>4. ASSUME NEW seen \in replayStore
      PROVE  SeenInv(seen)'
  BY <1>1 DEF WebhookInv, SeenInv
<1> QED
  BY <1>2, <1>3, <1>4 DEF WebhookInv, WebhookStepOf

\* An ended call keeps its envelope, and is on record if it was.
LEMMA DeliveryEndsHolds ==
    ASSUME WebhookInv, NEW d \in Deliveries, NEW code, code \notin RecordedCodes,
           deliveries[d].at \in {"authenticate", "verify", "rate", "scan", "authorize", "replay"},
           DeliveryEnds(d, code), UNCHANGED <<replayStore, auditTrail>>
    PROVE  WebhookInv'
<1>1. DeliveryInv(d) /\ deliveries[d].at \notin {"idle", "ended", "audit"}
  BY DEF WebhookInv
<1>2. deliveries[d] = [at |-> deliveries[d].at, code |-> deliveries[d].code, envelope |-> EnvelopeOf(d)]
  BY <1>1 DEF DeliveryInv, DeliveryShape, NoDelivery, EnvelopeOf
<1>3. deliveries' = [deliveries EXCEPT ![d] = [at |-> "ended", code |-> code, envelope |-> EnvelopeOf(d)]]
  <2> DEFINE ended == [deliveries[d] EXCEPT !.at = "ended"]
  <2>1. ended = [at |-> "ended", code |-> deliveries[d].code, envelope |-> EnvelopeOf(d)]
    BY <1>2
  <2>2. deliveries' = [deliveries EXCEPT ![d] = [ended EXCEPT !.code = code]]
    BY Zenon DEF DeliveryEnds
  <2>3. [ended EXCEPT !.code = code] = [at |-> "ended", code |-> code, envelope |-> EnvelopeOf(d)]
    <3> HIDE DEF ended
    <3> QED
      BY <2>1
  <2> QED
    BY Zenon, <2>2, <2>3
<1>4. deliveries'[d] = [at |-> "ended", code |-> code, envelope |-> EnvelopeOf(d)]
  BY <1>3 DEF WebhookInv
<1>5. WebhookStepOf(d)
  BY <1>3, <1>4 DEF WebhookStepOf
<1>6. DeliveryInv(d)'
  BY <1>1, <1>4 DEF DeliveryInv, DeliveryShape, Passed, OnRecord, EnvelopeOf, NoDelivery, RecordedCodes, VettedStages
<1>7. \A seen \in replayStore : seen.delivery # d
  BY <1>1 DEF WebhookInv, SeenInv
<1> QED
  BY <1>5, <1>6, <1>7, WebhookStepHolds

\* A call goes on to its next port; past the verifier its envelope is signed.
LEMMA AwaitsHolds ==
    ASSUME WebhookInv, NEW d \in Deliveries, NEW stage \in {"verify", "rate", "scan", "authorize", "replay"},
           deliveries[d].at \in {"authenticate", "verify", "rate", "scan", "authorize"},
           stage # "verify" => SignedEnvelope(EnvelopeOf(d)),
           Awaits(d, stage), UNCHANGED <<replayStore, auditTrail>>
    PROVE  WebhookInv'
<1>1. DeliveryInv(d) /\ deliveries[d].at \notin {"idle", "ended", "audit", "replay"}
  BY DEF WebhookInv
<1>2. deliveries[d] = [at |-> deliveries[d].at, code |-> deliveries[d].code, envelope |-> EnvelopeOf(d)]
  BY <1>1 DEF DeliveryInv, DeliveryShape, NoDelivery, EnvelopeOf
<1>3. deliveries' = [deliveries EXCEPT ![d] = [at |-> stage, code |-> deliveries[d].code, envelope |-> EnvelopeOf(d)]]
  <2>1. [deliveries[d] EXCEPT !.at = stage] = [at |-> stage, code |-> deliveries[d].code, envelope |-> EnvelopeOf(d)]
    BY <1>2
  <2>2. deliveries' = [deliveries EXCEPT ![d] = [deliveries[d] EXCEPT !.at = stage]]
    BY Zenon DEF Awaits
  <2> QED
    BY Zenon, <2>1, <2>2
<1>4. deliveries'[d] = [at |-> stage, code |-> deliveries[d].code, envelope |-> EnvelopeOf(d)]
  BY <1>3 DEF WebhookInv
<1>5. WebhookStepOf(d)
  BY <1>3, <1>4 DEF WebhookStepOf
<1>6. DeliveryInv(d)'
  BY <1>1, <1>4 DEF DeliveryInv, DeliveryShape, Passed, OnRecord, EnvelopeOf, NoDelivery, RecordedCodes, VettedStages
<1>7. \A seen \in replayStore : seen.delivery # d
  BY <1>1 DEF WebhookInv, SeenInv
<1> QED
  BY <1>5, <1>6, <1>7, WebhookStepHolds

LEMMA AnsweredHolds ==
    ASSUME WebhookInv, NEW d \in Deliveries, NEW stage \in {"authenticate", "rate", "scan", "authorize"},
           NEW next \in {"verify", "rate", "scan", "authorize", "replay"}, (stage = "authenticate") <=> (next = "verify"),
           NEW accepts, NEW refusal, NEW unavailable, refusal \notin RecordedCodes, unavailable \notin RecordedCodes,
           Answered(d, stage, accepts, refusal, unavailable, next)
    PROVE  WebhookInv'
<1>1. deliveries[d].at = stage /\ UNCHANGED <<replayStore, auditTrail>>
  BY DEF Answered
<1>2. next # "verify" => SignedEnvelope(EnvelopeOf(d))
  BY <1>1 DEF WebhookInv, DeliveryInv, Passed, VettedStages
<1>3. DeliveryEnds(d, unavailable) \/ DeliveryEnds(d, refusal) \/ Awaits(d, next)
  BY DEF Answered
<1> QED
  BY <1>1, <1>2, <1>3, DeliveryEndsHolds, AwaitsHolds

LEMMA SignatureHolds ==
    ASSUME WebhookInv, NEW d \in Deliveries, SignatureVerified(d)
    PROVE  WebhookInv'
<1>1. deliveries[d].at = "verify" /\ UNCHANGED <<replayStore, auditTrail>>
  BY DEF SignatureVerified
<1>2. CASE DeliveryEnds(d, "VERIFIER_UNAVAILABLE") \/ DeliveryEnds(d, "SIGNATURE_INVALID")
  BY <1>1, <1>2, DeliveryEndsHolds DEF RecordedCodes
<1>3. ASSUME NEW result,
             LET sealed == SealFromPrimitive(result, EnvelopeOf(d)) IN
             IF sealed = "sealed" THEN Awaits(d, "rate") ELSE DeliveryEnds(d, sealed),
             SealFromPrimitive(result, EnvelopeOf(d)) = "sealed" => SignedEnvelope(EnvelopeOf(d))
      PROVE  WebhookInv'
  <2>1. CASE SealFromPrimitive(result, EnvelopeOf(d)) = "sealed"
    BY <1>1, <1>3, <2>1, AwaitsHolds
  <2>2. CASE SealFromPrimitive(result, EnvelopeOf(d)) # "sealed"
    <3>1. SealFromPrimitive(result, EnvelopeOf(d)) \in {"VERIFIER_RESULT_INVALID", "SIGNATURE_INVALID"}
      BY <2>2 DEF SealFromPrimitive
    <3>2. DeliveryEnds(d, SealFromPrimitive(result, EnvelopeOf(d)))
      BY <1>3, <2>2
    <3> QED
      BY <1>1, <3>1, <3>2, DeliveryEndsHolds DEF RecordedCodes
  <2> QED
    BY <2>1, <2>2
<1>4. SealFromPrimitive([malformed |-> TRUE], EnvelopeOf(d)) # "sealed"
  BY DEF SealFromPrimitive
<1>5. ASSUME NEW e \in DeliveryAt("verify")
      PROVE  SealFromPrimitive(VerifierResult(EnvelopeOf(e), Genuine(EnvelopeOf(e))), EnvelopeOf(d)) = "sealed"
               => SignedEnvelope(EnvelopeOf(d))
  <2>1. e \in Deliveries /\ deliveries[e].at = "verify" /\ DeliveryShape(d) /\ DeliveryShape(e)
    BY <1>5 DEF DeliveryAt, WebhookInv, DeliveryInv
  <2> QED
    BY <1>1, <2>1, SealedIsSigned
<1> QED
  BY <1>2, <1>3, <1>4, <1>5 DEF SignatureVerified

\* The check and the recording are one step: no event, key or nonce is recorded twice.
LEMMA ReplayHolds ==
    ASSUME WebhookInv, NEW d \in Deliveries, ReplayCheckedAndRecorded(d)
    PROVE  WebhookInv'
<1>1. /\ deliveries[d].at = "replay" /\ DeliveryInv(d) /\ SignedEnvelope(EnvelopeOf(d))
      /\ auditTrail' = auditTrail
  BY DEF ReplayCheckedAndRecorded, WebhookInv, DeliveryInv, Passed, VettedStages
<1>2. PICK outcome \in ReplayOutcomes(EnvelopeOf(d)), answered \in BOOLEAN :
        /\ replayStore' = replayStore \cup
             (IF outcome = "accepted" THEN {[delivery |-> d, envelope |-> EnvelopeOf(d)]} ELSE {})
        /\ IF ~answered THEN DeliveryEnds(d, "VERIFIER_UNAVAILABLE")
           ELSE IF MapReplayOutcome(outcome) = "accepted" THEN Awaits(d, "audit")
           ELSE DeliveryEnds(d, MapReplayOutcome(outcome))
  BY DEF ReplayCheckedAndRecorded
<1>3. MapReplayOutcome(outcome) = "accepted" <=> outcome = "accepted"
  BY DEF MapReplayOutcome
<1>4. MapReplayOutcome(outcome) \notin RecordedCodes
  BY DEF MapReplayOutcome, RecordedCodes
<1>5. CASE outcome # "accepted"
  <2>1. UNCHANGED <<replayStore, auditTrail>>
    BY <1>1, <1>2, <1>5
  <2>2. DeliveryEnds(d, "VERIFIER_UNAVAILABLE") \/ DeliveryEnds(d, MapReplayOutcome(outcome))
    BY <1>2, <1>3, <1>5
  <2> QED
    BY <1>1, <1>4, <2>1, <2>2, DeliveryEndsHolds DEF RecordedCodes
<1>6. CASE outcome = "accepted"
  <2> DEFINE mine == [delivery |-> d, envelope |-> EnvelopeOf(d)]
  <2>1. \A seen \in replayStore : \A field \in UniqueFields : seen.envelope[field] # EnvelopeOf(d)[field]
    <3> DEFINE named == {<<"eventId", "duplicate-event">>, <<"nonce", "nonce-replay">>,
                         <<"idempotencyKey", "duplicate-idempotency-key">>}
               clashes == {clash \in named : Clashes(EnvelopeOf(d), clash[1])}
    <3>1. clashes = {}
      <4>1. "accepted" \notin {clash[2] : clash \in clashes} \cup {"replay"}
        OBVIOUS
      <4> QED
        BY <1>2, <1>6, <4>1 DEF ReplayOutcomes
    <3>2. \A clash \in named : ~Clashes(EnvelopeOf(d), clash[1])
      BY <3>1
    <3>3. ~Clashes(EnvelopeOf(d), "eventId") /\ ~Clashes(EnvelopeOf(d), "nonce") /\ ~Clashes(EnvelopeOf(d), "idempotencyKey")
      BY <3>2
    <3> QED
      BY <3>3 DEF Clashes, UniqueFields
  <2>2. /\ deliveries' = [deliveries EXCEPT ![d] = deliveries'[d]]
        /\ deliveries'[d] = [at |-> deliveries'[d].at, code |-> deliveries'[d].code, envelope |-> EnvelopeOf(d)]
        /\ \/ deliveries'[d].at = "audit"
           \/ deliveries'[d].at = "ended" /\ deliveries'[d].code = "VERIFIER_UNAVAILABLE"
    <3>1. deliveries[d] = [at |-> "replay", code |-> deliveries[d].code, envelope |-> EnvelopeOf(d)]
      BY <1>1 DEF DeliveryInv, DeliveryShape, NoDelivery, EnvelopeOf
    <3>2. CASE Awaits(d, "audit")
      <4>1. [deliveries[d] EXCEPT !.at = "audit"]
              = [at |-> "audit", code |-> deliveries[d].code, envelope |-> EnvelopeOf(d)]
        BY <3>1
      <4>2. deliveries' = [deliveries EXCEPT ![d] = [deliveries[d] EXCEPT !.at = "audit"]]
        BY Zenon, <3>2 DEF Awaits
      <4>3. deliveries'[d] = [at |-> "audit", code |-> deliveries[d].code, envelope |-> EnvelopeOf(d)]
        BY <4>1, <4>2 DEF WebhookInv
      <4> QED
        BY <4>1, <4>2, <4>3
    <3>3. CASE DeliveryEnds(d, "VERIFIER_UNAVAILABLE")
      <4> DEFINE ended == [deliveries[d] EXCEPT !.at = "ended"]
                 failed == [ended EXCEPT !.code = "VERIFIER_UNAVAILABLE"]
      <4>1. ended = [at |-> "ended", code |-> deliveries[d].code, envelope |-> EnvelopeOf(d)]
        BY <3>1
      <4>2. failed = [at |-> "ended", code |-> "VERIFIER_UNAVAILABLE", envelope |-> EnvelopeOf(d)]
        <5> HIDE DEF ended
        <5> QED
          BY <4>1
      <4>3. deliveries' = [deliveries EXCEPT ![d] = failed]
        BY Zenon, <3>3 DEF DeliveryEnds
      <4> HIDE DEF failed
      <4>4. deliveries'[d] = failed
        BY <4>3 DEF WebhookInv
      <4>5. deliveries' = [deliveries EXCEPT ![d] = deliveries'[d]]
        BY <4>3, <4>4
      <4>6. deliveries'[d] = [at |-> "ended", code |-> "VERIFIER_UNAVAILABLE", envelope |-> EnvelopeOf(d)]
        BY <4>2, <4>4
      <4> QED
        BY <4>5, <4>6
    <3> QED
      BY <1>2, <1>3, <1>6, <3>2, <3>3
  <2>3. replayStore' = replayStore \cup {mine} /\ mine.envelope = EnvelopeOf(d) /\ mine.delivery = d
    BY <1>2, <1>6
  <2>4. \A e \in Deliveries : e # d => deliveries'[e] = deliveries[e]
    BY <2>2 DEF WebhookInv
  <2>5. DeliveryInv(d)'
    BY <1>1, <2>2, <2>3 DEF DeliveryInv, DeliveryShape, Passed, OnRecord, EnvelopeOf, NoDelivery, RecordedCodes, VettedStages
  <2>6. ASSUME NEW e \in Deliveries
        PROVE  DeliveryInv(e)'
    BY <1>1, <2>3, <2>4, <2>5 DEF WebhookInv, DeliveryInv, DeliveryShape, Passed, OnRecord, EnvelopeOf
  <2>7. ASSUME NEW seen \in replayStore'
        PROVE  SeenInv(seen)'
    <3>1. CASE seen = mine
      BY <1>1, <2>2, <2>3, <3>1 DEF SeenInv
    <3>2. CASE seen # mine
      <4>1. seen \in replayStore /\ SeenInv(seen)
        BY <2>3, <2>7, <3>2 DEF WebhookInv
      <4>2. deliveries'[seen.delivery] = deliveries[seen.delivery]
        BY <1>1, <2>4, <4>1 DEF SeenInv
      <4> QED
        BY <4>1, <4>2 DEF SeenInv
    <3> QED
      BY <3>1, <3>2
  <2>8. \A seen, other \in replayStore' : seen # other =>
          \A field \in UniqueFields : seen.envelope[field] # other.envelope[field]
    <3> HIDE DEF mine
    <3> QED
      BY <2>1, <2>3 DEF WebhookInv
  <2>9. DOMAIN deliveries' = Deliveries /\ deliveries' = [e \in Deliveries |-> deliveries'[e]]
    BY <2>2 DEF WebhookInv
  <2> QED
    BY <2>6, <2>7, <2>8, <2>9 DEF WebhookInv
<1> QED
  BY <1>5, <1>6

LEMMA AuditHolds ==
    ASSUME WebhookInv, NEW d \in Deliveries, AuditRecorded(d)
    PROVE  WebhookInv'
<1>1. /\ deliveries[d].at = "audit" /\ DeliveryInv(d) /\ replayStore' = replayStore
      /\ deliveries[d] = [at |-> "audit", code |-> deliveries[d].code, envelope |-> EnvelopeOf(d)]
  BY DEF AuditRecorded, WebhookInv, DeliveryInv, DeliveryShape, NoDelivery, EnvelopeOf
<1>2. PICK code \in RecordedCodes :
        /\ DeliveryEnds(d, code) /\ auditTrail \subseteq auditTrail'
        /\ code = "authorized" => d \in auditTrail'
  <2>1. PICK written \in BOOLEAN, answered \in BOOLEAN :
          /\ answered => written
          /\ auditTrail' = auditTrail \cup (IF written THEN {d} ELSE {})
          /\ DeliveryEnds(d, IF answered THEN "authorized" ELSE "AUDIT_FAILED")
    BY DEF AuditRecorded
  <2> QED
    BY <2>1 DEF RecordedCodes
<1>3. deliveries' = [deliveries EXCEPT ![d] = [at |-> "ended", code |-> code, envelope |-> EnvelopeOf(d)]]
  <2> DEFINE ended == [deliveries[d] EXCEPT !.at = "ended"]
  <2>1. ended = [at |-> "ended", code |-> deliveries[d].code, envelope |-> EnvelopeOf(d)]
    BY <1>1
  <2>2. deliveries' = [deliveries EXCEPT ![d] = [ended EXCEPT !.code = code]]
    BY Zenon, <1>2 DEF DeliveryEnds
  <2>3. [ended EXCEPT !.code = code] = [at |-> "ended", code |-> code, envelope |-> EnvelopeOf(d)]
    <3> HIDE DEF ended
    <3> QED
      BY <2>1
  <2> QED
    BY Zenon, <2>2, <2>3
<1>4. deliveries'[d] = [at |-> "ended", code |-> code, envelope |-> EnvelopeOf(d)]
  BY <1>3 DEF WebhookInv
<1>5. WebhookStepOf(d)
  BY <1>1, <1>2, <1>3, <1>4 DEF WebhookStepOf
<1>6. DeliveryInv(d)'
  BY <1>1, <1>2, <1>4 DEF DeliveryInv, DeliveryShape, Passed, OnRecord, EnvelopeOf, NoDelivery, RecordedCodes, VettedStages
<1>7. ASSUME NEW seen \in replayStore, seen.delivery = d
      PROVE  SeenInv(seen)'
  BY <1>4, <1>7 DEF WebhookInv, SeenInv
<1> QED
  BY <1>5, <1>6, <1>7, WebhookStepHolds

LEMMA IngressStartsHold ==
    ASSUME WebhookInv, NEW d \in Deliveries, NEW command, NEW limits, NEW context,
           ExecuteWebhookIngress(d, command, limits, context)
    PROVE  WebhookInv'
<1> DEFINE outcome == Admission(command, limits, context)
           envelope == Envelope(command, ingressTime)
           admitted == [at |-> "authenticate", code |-> "none", envelope |-> envelope]
<1>1. /\ deliveries[d] = NoDelivery /\ UNCHANGED <<replayStore, auditTrail>>
      /\ deliveries' = [deliveries EXCEPT ![d] =
           IF outcome # "allowed" THEN [at |-> "ended", code |-> outcome] ELSE admitted]
  BY DEF ExecuteWebhookIngress
<1>2. outcome \notin RecordedCodes
  BY DEF Admission, ValidateWebhookEnvelope, RecordedCodes
<1>3. \A f \in CommandFields \ {"signature"} : envelope.signedEnvelopeDigest[f] = envelope[f]
  BY EnvelopeFields
<1> HIDE DEF outcome, envelope
<1>4. /\ deliveries' = [deliveries EXCEPT ![d] = deliveries'[d]]
      /\ \/ deliveries'[d] = [at |-> "ended", code |-> outcome]
         \/ deliveries'[d] = admitted
  BY <1>1 DEF WebhookInv
<1>5. DeliveryInv(d)'
  BY <1>2, <1>3, <1>4 DEF DeliveryInv, DeliveryShape, Passed, OnRecord, EnvelopeOf, NoDelivery, RecordedCodes, VettedStages
<1>6. \A seen \in replayStore : seen.delivery # d
  BY <1>1 DEF WebhookInv, SeenInv, NoDelivery
<1> QED
  BY <1>1, <1>4, <1>5, <1>6, WebhookStepHolds DEF WebhookStepOf

LEMMA WebhookKeepsInv == WebhookSpec => []WebhookInv
<1>1. WebhookInit => WebhookInv
  BY DEF WebhookInit, WebhookInv, DeliveryInv, DeliveryShape, Passed, OnRecord, NoDelivery, VettedStages
<1>2. WebhookInv /\ [WebhookNext]_webhookVars => WebhookInv'
  <2> SUFFICES ASSUME WebhookInv, [WebhookNext]_webhookVars
               PROVE  WebhookInv'
    OBVIOUS
  <2>1. CASE IngressTick \/ UNCHANGED webhookVars
    BY <2>1 DEF IngressTick, webhookVars, WebhookInv, DeliveryInv, DeliveryShape, Passed, OnRecord, EnvelopeOf, SeenInv
  <2>2. ASSUME NEW d \in Deliveries, NEW command \in Commands, NEW limits \in LimitChoices,
               NEW context \in {"valid", "invalid"}, ExecuteWebhookIngress(d, command, limits, context)
        PROVE  WebhookInv'
    BY <2>2, IngressStartsHold
  <2>3. ASSUME NEW d \in Deliveries,
               SourceAuthenticated(d) \/ RateDecided(d) \/ TextScanned(d) \/ PolicyAuthorized(d)
        PROVE  WebhookInv'
    BY <2>3, AnsweredHolds DEF SourceAuthenticated, RateDecided, TextScanned, PolicyAuthorized, RecordedCodes
  <2>4. ASSUME NEW d \in Deliveries, SignatureVerified(d) \/ ReplayCheckedAndRecorded(d) \/ AuditRecorded(d)
        PROVE  WebhookInv'
    BY <2>4, SignatureHolds, ReplayHolds, AuditHolds
  <2> QED
    BY <2>1, <2>2, <2>3, <2>4 DEF WebhookNext, DeliveryStep
<1> QED
  BY <1>1, <1>2, PTL DEF WebhookSpec

\* Whatever runs beside or after each other, an event, a key and a nonce let one delivery
\* through, and that one is audited and in the replay store (executeWebhookIngress).
THEOREM EventsPassOnce == WebhookSpec => []EventsAreAuthorizedOnce
<1>1. WebhookInv => EventsAreAuthorizedOnce
  <2> SUFFICES ASSUME WebhookInv
               PROVE  EventsAreAuthorizedOnce
    OBVIOUS
  <2>1. ASSUME NEW d \in Authorized
        PROVE  /\ d \in Deliveries /\ d \in auditTrail
               /\ [delivery |-> d, envelope |-> EnvelopeOf(d)] \in replayStore
    BY <2>1 DEF Authorized, DeliveryAt, WebhookInv, DeliveryInv, OnRecord, RecordedCodes
  <2>2. OneAuthorizationPerEvent
    <3> SUFFICES ASSUME NEW d \in Authorized, NEW e \in Authorized, d # e, NEW field \in UniqueFields
                 PROVE  EnvelopeOf(d)[field] # EnvelopeOf(e)[field]
      BY DEF OneAuthorizationPerEvent, UniqueFields
    <3> DEFINE seen == [delivery |-> d, envelope |-> EnvelopeOf(d)]
               other == [delivery |-> e, envelope |-> EnvelopeOf(e)]
    <3>1. seen \in replayStore /\ other \in replayStore /\ seen # other
      BY <2>1
    <3>2. seen.envelope = EnvelopeOf(d) /\ other.envelope = EnvelopeOf(e)
      OBVIOUS
    <3> HIDE DEF seen, other
    <3>3. seen.envelope[field] # other.envelope[field]
      BY <3>1 DEF WebhookInv
    <3> QED
      BY <3>2, <3>3
  <2>3. AuthorizedIsOnRecord
    BY <2>1 DEF AuthorizedIsOnRecord
  <2> QED
    BY <2>2, <2>3 DEF EventsAreAuthorizedOnce
<1> QED
  BY <1>1, WebhookKeepsInv, PTL

\* Nothing takes an event, a key or a nonce but what its source signed in every field and no
\* port had refused.
THEOREM OnlyVettedAreRecorded == WebhookSpec => []OnlyVettedDeliveriesAreRecorded
<1>1. WebhookInv => OnlyVettedDeliveriesAreRecorded
  BY DEF WebhookInv, SeenInv, SignedEnvelope, RecordedCodes, OnlyVettedDeliveriesAreRecorded
<1> QED
  BY <1>1, WebhookKeepsInv, PTL

(* Both together: an event is let through once, and only a vetted delivery is recorded. *)
THEOREM DeliveriesAlwaysPassOnce == WebhookSpec => []DeliveriesPassOnce
<1>1. EventsAreAuthorizedOnce /\ OnlyVettedDeliveriesAreRecorded => DeliveriesPassOnce
  BY DEF DeliveriesPassOnce
<1> QED
  BY <1>1, EventsPassOnce, OnlyVettedAreRecorded, PTL

-----------------------------------------------------------------------------
(* Memory: the checks of a validator, and what an authorisation that is given says. *)

\* A list of checks fails with one of its failures, or with none.
LEMMA LeastIsMin ==
    ASSUME NEW S, S \subseteq Nat, S # {}
    PROVE  Min(S) \in S
<1>1. PICK least \in S : \A i \in S : ~(<<i, least>> \in OpToRel(<, Nat))
  BY WFMin, NatLessThanWellFounded
<1>2. \A i \in S : <<i, least>> \in Nat \X Nat /\ ~(i < least)
  BY <1>1 DEF OpToRel
<1>3. ASSUME NEW i \in S
      PROVE  least <= i
  <2>1. i \in Nat /\ least \in Nat /\ ~(i < least)
    BY <1>1, <1>2
  <2> QED
    BY <2>1
<1> QED
  BY <1>1, <1>3 DEF Min

LEMMA FirstFailureFails ==
    ASSUME NEW checks, DOMAIN checks \subseteq Nat, FirstFailure(checks) # "ok"
    PROVE  \E i \in DOMAIN checks : FirstFailure(checks) = checks[i]
<1> DEFINE failing == {i \in DOMAIN checks : Fails(checks[i])}
<1>1. failing # {} /\ FirstFailure(checks) = checks[Min(failing)] /\ failing \subseteq Nat /\ failing \subseteq DOMAIN checks
  BY DEF FirstFailure, Fails
<1> HIDE DEF failing
<1>2. Min(failing) \in failing
  BY <1>1, LeastIsMin
<1> QED
  BY <1>1, <1>2

LEMMA FirstFailurePasses ==
    ASSUME NEW checks, DOMAIN checks \subseteq Nat, FirstFailure(checks) = "ok", NEW i \in DOMAIN checks
    PROVE  checks[i] = "ok"
<1> DEFINE failing == {j \in DOMAIN checks : Fails(checks[j])}
<1>1. SUFFICES ASSUME failing # {}
               PROVE  FALSE
  BY DEF Fails
<1>2. /\ FirstFailure(checks) = checks[Min(failing)]
      /\ failing \subseteq Nat /\ \A j \in failing : checks[j] # "ok"
  BY <1>1 DEF FirstFailure, Fails
<1> HIDE DEF failing
<1>3. Min(failing) \in failing
  BY <1>1, <1>2, LeastIsMin
<1> QED
  BY <1>2, <1>3

\* Nobody writes but in the namespace of the session.
LEMMA WritesStayHome ==
    ASSUME NEW access, NEW context, NEW ownerId, NEW namespace,
           AuthorizeMemoryAccess(access, context, "write", ownerId, namespace) = "ok"
    PROVE  /\ namespace = access.activeNamespace
           /\ Restricted(namespace) => access.role = "security-guard"
<1> DEFINE checks ==
             << Check(ValidateOperationContext(context) = "ok", "INVALID_OPERATION_CONTEXT"),
                Check(namespace \in MemoryNamespaces, "MISSING_ACCESS_CONTEXT"),
                Check(ownerId = access.ownerId, "OWNER_MISMATCH"),
                Across(access, "write", namespace),
                Check("write" = "write" => access.role \in WriteRoles, "ROLE_NOT_PERMITTED"),
                Check("write" = "delete" => access.role \in DeleteRoles, "ROLE_NOT_PERMITTED") >>
<1>1. FirstFailure(checks) = "ok" /\ DOMAIN checks \subseteq Nat /\ {4} \subseteq DOMAIN checks /\ checks[4] = Across(access, "write", namespace)
  BY DEF AuthorizeMemoryAccess
<1>2. Across(access, "write", namespace) = "ok"
  <2> HIDE DEF checks
  <2> QED
    BY <1>1, FirstFailurePasses
<1>3. CASE Restricted(namespace) \/ Restricted(access.activeNamespace)
  BY <1>2, <1>3 DEF Across, Check, Restricted
<1>4. CASE ~(Restricted(namespace) \/ Restricted(access.activeNamespace)) /\ namespace # access.activeNamespace
  <2> DEFINE across ==
               << Check("personal" \notin {namespace, access.activeNamespace}, "NAMESPACE_ISOLATED"),
                  Check("write" \notin {"write", "delete"}, "NAMESPACE_ISOLATED"),
                  Check(access.projectScope.crossProjectPermitted, "CROSS_PROJECT_NOT_PERMITTED"),
                  Check(namespace \in ToSet(access.projectScope.permitted), "CROSS_PROJECT_NOT_PERMITTED") >>
  <2>1. FirstFailure(across) = "ok" /\ DOMAIN across \subseteq Nat /\ {2} \subseteq DOMAIN across /\ across[2] = "NAMESPACE_ISOLATED"
    BY <1>2, <1>4 DEF Across, Check
  <2> HIDE DEF across
  <2>2. across[2] = "ok"
    BY <2>1, FirstFailurePasses
  <2> QED
    BY <2>1, <2>2
<1> QED
  BY <1>3, <1>4

\* Whatever the operation, the owner is the session's, and another namespace is one its scope permits.
LEMMA AccessStaysWithin ==
    ASSUME NEW access, NEW context, NEW operation, NEW ownerId, NEW namespace,
           AuthorizeMemoryAccess(access, context, operation, ownerId, namespace) = "ok"
    PROVE  /\ ownerId = access.ownerId
           /\ namespace # access.activeNamespace =>
                /\ {namespace, access.activeNamespace} \cap {"personal", "security-restricted"} = {}
                /\ namespace \in ToSet(access.projectScope.permitted)
<1> DEFINE checks ==
             << Check(ValidateOperationContext(context) = "ok", "INVALID_OPERATION_CONTEXT"),
                Check(namespace \in MemoryNamespaces, "MISSING_ACCESS_CONTEXT"),
                Check(ownerId = access.ownerId, "OWNER_MISMATCH"),
                Across(access, operation, namespace),
                Check(operation = "write" => access.role \in WriteRoles, "ROLE_NOT_PERMITTED"),
                Check(operation = "delete" => access.role \in DeleteRoles, "ROLE_NOT_PERMITTED") >>
<1>1. /\ FirstFailure(checks) = "ok" /\ DOMAIN checks \subseteq Nat /\ {3, 4} \subseteq DOMAIN checks
      /\ checks[3] = Check(ownerId = access.ownerId, "OWNER_MISMATCH")
      /\ checks[4] = Across(access, operation, namespace)
  BY DEF AuthorizeMemoryAccess
<1>2. Check(ownerId = access.ownerId, "OWNER_MISMATCH") = "ok" /\ Across(access, operation, namespace) = "ok"
  <2> HIDE DEF checks
  <2> QED
    BY <1>1, FirstFailurePasses
<1>3. ownerId = access.ownerId
  BY <1>2 DEF Check
<1>4. CASE Restricted(namespace) \/ Restricted(access.activeNamespace)
  BY <1>2, <1>3, <1>4 DEF Across, Check, Restricted
<1>5. CASE ~(Restricted(namespace) \/ Restricted(access.activeNamespace)) /\ namespace # access.activeNamespace
  <2> DEFINE across ==
               << Check("personal" \notin {namespace, access.activeNamespace}, "NAMESPACE_ISOLATED"),
                  Check(operation \notin {"write", "delete"}, "NAMESPACE_ISOLATED"),
                  Check(access.projectScope.crossProjectPermitted, "CROSS_PROJECT_NOT_PERMITTED"),
                  Check(namespace \in ToSet(access.projectScope.permitted), "CROSS_PROJECT_NOT_PERMITTED") >>
  <2>1. /\ FirstFailure(across) = "ok" /\ DOMAIN across \subseteq Nat /\ {1, 4} \subseteq DOMAIN across
        /\ across[1] = Check("personal" \notin {namespace, access.activeNamespace}, "NAMESPACE_ISOLATED")
        /\ across[4] = Check(namespace \in ToSet(access.projectScope.permitted), "CROSS_PROJECT_NOT_PERMITTED")
    BY <1>2, <1>5 DEF Across
  <2> HIDE DEF across
  <2>2. across[1] = "ok" /\ across[4] = "ok"
    BY <2>1, FirstFailurePasses
  <2> QED
    BY <1>3, <1>5, <2>1, <2>2 DEF Check, Restricted
<1>6. CASE ~(Restricted(namespace) \/ Restricted(access.activeNamespace)) /\ namespace = access.activeNamespace
  BY <1>3, <1>6
<1> QED
  BY <1>4, <1>5, <1>6

\* A grant that validates is for this owner and for this content, record and namespace.
LEMMA ApprovalMatches ==
    ASSUME NEW grant, NEW demand, NEW moment, ValidateApproval(grant, demand, moment) = "ok"
    PROVE  grant.ownerId = demand.ownerId /\ grant.payloadDigest = demand.payloadDigest
<1> DEFINE checks ==
             << Check(Exact(grant) /\ ValidScope(grant.projectScope) /\ grant.namespace \in MemoryNamespaces, "MALFORMED_GRANT"),
                Check(ClassifyEffect(grant.effect) = "approval-required", "UNKNOWN_EFFECT"),
                Check(grant.issuedAt < grant.expiresAt, "INVALID_TIMESTAMP"),
                Check(grant.status \notin {"revoked", "unknown"}, "REVOKED"),
                Check(grant.status # "consumed", "ALREADY_CONSUMED"),
                Check(moment < grant.expiresAt, "EXPIRED"),
                Check(grant.issuedAt <= moment, "INVALID_TIMESTAMP"),
                Check(grant.ownerId = demand.ownerId, "OWNER_MISMATCH"),
                Check(grant.actorId = demand.actorId, "ACTOR_MISMATCH"),
                Check(grant.effect = demand.effect, "EFFECT_MISMATCH"),
                Check(grant.target = demand.target, "TARGET_MISMATCH"),
                Check(grant.namespace = demand.namespace, "NAMESPACE_MISMATCH"),
                Check(SameScope(grant.projectScope, demand.projectScope), "PROJECT_SCOPE_MISMATCH"),
                Check(grant.payloadDigest = demand.payloadDigest, "PAYLOAD_DIGEST_MISMATCH") >>
<1>1. /\ FirstFailure(checks) = "ok" /\ DOMAIN checks \subseteq Nat /\ {8, 14} \subseteq DOMAIN checks
      /\ checks[8] = Check(grant.ownerId = demand.ownerId, "OWNER_MISMATCH")
      /\ checks[14] = Check(grant.payloadDigest = demand.payloadDigest, "PAYLOAD_DIGEST_MISMATCH")
  BY DEF ValidateApproval
<1> HIDE DEF checks
<1>2. checks[8] = "ok" /\ checks[14] = "ok"
  BY <1>1, FirstFailurePasses
<1> QED
  BY <1>1, <1>2 DEF Check

\* What a write is refused with before its scan, and what it is not.
LEMMA AdmissionVerdict ==
    ASSUME NEW c \in Calls
    PROVE  /\ WriteAdmission(c) \in {"ok", "INVALID_OPERATION_CONTEXT", "INVALID_IDENTITY", "INVALID_CONTENT",
                                     "SECRET_CLASS_DENIED"}
           /\ WriteAdmission(c) = "ok" => Request(c).content.sensitivity # "secret-class"
<1> DEFINE content == Request(c).content
           checks ==
             << Check(ValidateOperationContext(Context(c)) = "ok", "INVALID_OPERATION_CONTEXT"),
                Check(Request(c).recordId # "malformed", "INVALID_IDENTITY"),
                Check(content.length \in 1 .. MaxContentLength, "INVALID_CONTENT"),
                EvaluateMemorySecretBoundary(content) >>
           codes == {"ok", "INVALID_OPERATION_CONTEXT", "INVALID_IDENTITY", "INVALID_CONTENT", "SECRET_CLASS_DENIED"}
<1>1. /\ WriteAdmission(c) = FirstFailure(checks) /\ DOMAIN checks \subseteq Nat /\ DOMAIN checks = 1 .. 4 /\ 4 \in DOMAIN checks
      /\ checks[4] = EvaluateMemorySecretBoundary(content)
  BY DEF WriteAdmission
<1>2. \A i \in 1 .. 4 : checks[i] \in codes
  <2>1. /\ checks[1] \in codes /\ checks[2] \in codes /\ checks[3] \in codes /\ checks[4] \in codes
    BY DEF Check, EvaluateMemorySecretBoundary
  <2> HIDE DEF checks, codes
  <2> QED
    BY <2>1
<1> HIDE DEF checks
<1>3. WriteAdmission(c) = "ok" => checks[4] = "ok"
  BY <1>1, FirstFailurePasses
<1>4. WriteAdmission(c) \in codes
  BY <1>1, <1>2, FirstFailureFails
<1> QED
  BY <1>1, <1>3, <1>4 DEF EvaluateMemorySecretBoundary, Check

-----------------------------------------------------------------------------
(* The memory service: what each call is, at each of its stages. *)

AnsweredBeforeApproval == {"APPROVAL_INVALID", "APPROVAL_REQUIRED", "AUTHORIZATION_DENIED", "SCAN_DENIED"}
KeyOf(c) == <<calls[c].grant.approvalId, calls[c].grant.nonce>>

\* A grant of the call is spent: it was consumed for the call, which is to write or has written.
Spent(c) ==
    /\ calls[c] # Idle
    /\ calls[c].grant # NoApproval
    /\ calls[c].wrote \/ (calls[c].at = "consume" /\ calls[c].answer = "ok")

WholeCall(c) ==
    LET call == calls[c] IN
    /\ call = [at |-> call.at, request |-> call.request, access |-> call.access, trustedNow |-> call.trustedNow,
               answer |-> call.answer, grant |-> call.grant, wrote |-> call.wrote, returned |-> call.returned,
               code |-> call.code]
    /\ call.at \in {"observe", "operate", "scan", "policy", "lookup", "consume", "write", "ended"}
    /\ call.wrote \in BOOLEAN

\* How far the call is says what it has done.
StageInv(c) ==
    LET call == calls[c] IN
    /\ call.at \notin {"write", "ended"} => ~call.wrote
    /\ call.at # "ended" => call.returned = {} /\ c \notin auditLog
    /\ call.at \in {"scan", "policy", "lookup", "consume", "write"} =>
         call.request.kind = "write" /\ call.request.content.sensitivity # "secret-class"
    /\ call.at \in {"policy", "lookup", "consume", "write"} => call.request.content.findings # "deny"
    /\ call.at \in {"observe", "operate", "scan", "policy"} => call.grant = NoApproval
    /\ call.at \notin {"consume", "write", "ended"} => call.answer = "none"
    /\ call.at = "write" => (call.wrote <=> call.answer = "ok")

\* What was written was allowed where it was written, and what a grant was spent on is what it is for.
WroteInv(c) ==
    LET call == calls[c] IN
    /\ call.wrote =>
         /\ call.request.kind = "write"
         /\ call.request.content.sensitivity # "secret-class" /\ call.request.content.findings # "deny"
         /\ call.request.namespace = call.access.activeNamespace
         /\ Restricted(call.request.namespace) => call.access.role = "security-guard"
    /\ Spent(c) =>
         /\ KeyOf(c) \in consumed
         /\ call.grant.payloadDigest = Digest(call.request) /\ call.grant.ownerId = call.access.ownerId

Within(r, access) ==
    /\ r.ownerId = access.ownerId
    /\ r.namespace # access.activeNamespace =>
         /\ {r.namespace, access.activeNamespace} \cap {"personal", "security-restricted"} = {}
         /\ r.namespace \in ToSet(access.projectScope.permitted)

EndedInv(c) ==
    LET call == calls[c] IN
    call.at = "ended" =>
        /\ \A r \in call.returned : Within(r, call.access)
        /\ call.request.kind = "write" =>
             /\ call.wrote <=> call.code \in {"ok", "AUDIT_FAILED"}
             /\ c \in auditLog <=> call.code = "ok"
             /\ call.code \in AnsweredBeforeApproval => call.answer = "none"

CallInv(c) ==
    \/ calls[c] = Idle /\ c \notin auditLog
    \/ WholeCall(c) /\ StageInv(c) /\ WroteInv(c) /\ EndedInv(c)

\* A record that no earlier process left is the one its writer was allowed.
RecordInv(r) ==
    \/ r \in EarlierRecords
    \/ /\ r.writer \in Calls /\ calls[r.writer] # Idle /\ calls[r.writer].wrote
       /\ r.ownerId = calls[r.writer].access.ownerId /\ r.namespace = calls[r.writer].request.namespace

MemoryInv ==
    /\ calls = [c \in Calls |-> calls[c]]
    /\ \A c \in Calls : CallInv(c)
    /\ \A r \in records : RecordInv(r)
    /\ \A c, d \in Calls : c # d /\ Spent(c) /\ Spent(d) => KeyOf(c) # KeyOf(d)

\* Only the call c moves.
Elsewhere(c) == calls' = [d \in Calls |-> calls'[d]] /\ \A d \in Calls \ {c} : calls'[d] = calls[d]

\* The call as its end leaves it.
EndedCall(c, code) ==
    [at |-> "ended", request |-> calls[c].request, access |-> IF calls[c].wrote THEN calls[c].access ELSE NoAccess,
     trustedNow |-> 0, answer |-> calls[c].answer, grant |-> IF calls[c].wrote THEN calls[c].grant ELSE NoApproval,
     wrote |-> calls[c].wrote, returned |-> calls[c].returned, code |-> code]

LEMMA EndLeaves ==
    ASSUME calls = [d \in Calls |-> calls[d]], NEW c \in Calls, NEW code, WholeCall(c), Ends(c, code)
    PROVE  Elsewhere(c) /\ calls'[c] = EndedCall(c, code)
<1>1. Elsewhere(c)
  BY DEF Ends, Elsewhere
<1>2. calls'[c] = EndedCall(c, code)
  BY DEF Ends, WholeCall, EndedCall
<1> QED
  BY <1>1, <1>2

\* The invariant survives a step of one call that keeps what the call has written, takes nothing back
\* that was consumed, and spends no grant that was spent before.
LEMMA MemoryStepHolds ==
    ASSUME MemoryInv, NEW c \in Calls, Elsewhere(c), CallInv(c)',
           calls[c] # Idle /\ calls[c].wrote =>
             /\ calls'[c] # Idle /\ calls'[c].wrote
             /\ calls'[c].access = calls[c].access /\ calls'[c].request = calls[c].request,
           \A d \in Calls \ {c} : d \in auditLog' <=> d \in auditLog,
           consumed \subseteq consumed',
           \A r \in records' : r \in records \/ RecordInv(r)',
           Spent(c)' => (Spent(c) /\ KeyOf(c)' = KeyOf(c)) \/ KeyOf(c)' \notin consumed
    PROVE  MemoryInv'
<1>1. \A d \in Calls \ {c} : /\ Spent(d)' <=> Spent(d)
                             /\ KeyOf(d)' = KeyOf(d)
                             /\ CallInv(d)'
  <2> SUFFICES ASSUME NEW d \in Calls \ {c}
               PROVE  (Spent(d)' <=> Spent(d)) /\ KeyOf(d)' = KeyOf(d) /\ CallInv(d)'
    OBVIOUS
  <2>1. calls'[d] = calls[d] /\ (d \in auditLog' <=> d \in auditLog) /\ CallInv(d)
    BY DEF Elsewhere, MemoryInv
  <2>2. (Spent(d)' <=> Spent(d)) /\ KeyOf(d)' = KeyOf(d)
    BY <2>1 DEF Spent, KeyOf
  <2>3. WholeCall(d) /\ StageInv(d) => WholeCall(d)' /\ StageInv(d)'
    BY <2>1 DEF WholeCall, StageInv
  <2>4. WroteInv(d) => WroteInv(d)'
    BY <2>1, <2>2 DEF WroteInv
  <2>5. EndedInv(d) => EndedInv(d)'
    BY <2>1 DEF EndedInv
  <2> QED
    BY <2>1, <2>2, <2>3, <2>4, <2>5 DEF CallInv
<1>2. \A r \in records' : RecordInv(r)'
  <2> SUFFICES ASSUME NEW r \in records', r \in records
               PROVE  RecordInv(r)'
    OBVIOUS
  <2>1. RecordInv(r)
    BY DEF MemoryInv
  <2> QED
    BY <2>1 DEF RecordInv, Elsewhere
<1>3. \A d, e \in Calls : d # e /\ Spent(d)' /\ Spent(e)' => KeyOf(d)' # KeyOf(e)'
  <2>1. ASSUME NEW d \in Calls \ {c}, Spent(d)', Spent(c)'
        PROVE  KeyOf(d)' # KeyOf(c)'
    <3>1. Spent(d) /\ KeyOf(d)' = KeyOf(d) /\ KeyOf(d) \in consumed
      BY <1>1, <2>1 DEF MemoryInv, CallInv, WroteInv, Spent
    <3>2. CASE Spent(c) /\ KeyOf(c)' = KeyOf(c)
      BY <3>1, <3>2 DEF MemoryInv
    <3>3. CASE KeyOf(c)' \notin consumed
      BY <3>1, <3>3
    <3> QED
      BY <2>1, <3>2, <3>3
  <2>2. ASSUME NEW d \in Calls \ {c}, NEW e \in Calls \ {c}, d # e, Spent(d)', Spent(e)'
        PROVE  KeyOf(d)' # KeyOf(e)'
    BY <1>1, <2>2 DEF MemoryInv
  <2> SUFFICES ASSUME NEW d \in Calls, NEW e \in Calls, d # e, Spent(d)', Spent(e)'
               PROVE  KeyOf(d)' # KeyOf(e)'
    OBVIOUS
  <2>3. CASE d = c
    BY <2>1, <2>3
  <2>4. CASE e = c
    BY <2>1, <2>4
  <2>5. CASE d # c /\ e # c
    BY <2>2, <2>5
  <2> QED
    BY <2>3, <2>4, <2>5
<1>4. calls' = [d \in Calls |-> calls'[d]] /\ \A d \in Calls : CallInv(d)'
  BY <1>1 DEF Elsewhere
<1> QED
  BY <1>2, <1>3, <1>4 DEF MemoryInv

\* A call under way is whole.
LEMMA BegunIsWhole ==
    ASSUME MemoryInv, NEW c \in Calls, calls[c].at # "idle"
    PROVE  calls[c] # Idle /\ WholeCall(c) /\ StageInv(c) /\ WroteInv(c) /\ EndedInv(c) /\ calls = [d \in Calls |-> calls[d]]
BY DEF MemoryInv, CallInv, Idle

\* A call that has written nothing may end with any answer that says so.
LEMMA EndsUnwritten ==
    ASSUME MemoryInv, NEW c \in Calls, NEW code, calls[c].at \notin {"idle", "ended"}, ~calls[c].wrote,
           Ends(c, code), code \notin {"ok", "AUDIT_FAILED"},
           code \in AnsweredBeforeApproval => calls[c].answer = "none",
           UNCHANGED <<consumed, records, auditLog>>
    PROVE  MemoryInv'
<1>1. Elsewhere(c) /\ calls'[c] = EndedCall(c, code)
  BY EndLeaves, BegunIsWhole
<1>2. StageInv(c) /\ calls[c] # Idle /\ WholeCall(c)
  BY BegunIsWhole
<1>3. calls'[c] # Idle /\ ~Spent(c)' /\ ~calls'[c].wrote
  BY <1>1, <1>2 DEF EndedCall, Spent, Idle, WholeCall
<1>4. WholeCall(c)'
  BY <1>1, <1>2 DEF EndedCall, WholeCall
<1>5. StageInv(c)' /\ EndedInv(c)'
  BY <1>1, <1>2 DEF EndedCall, StageInv, EndedInv
<1>6. WroteInv(c)'
  BY <1>3 DEF WroteInv
<1>7. CallInv(c)'
  BY <1>4, <1>5, <1>6 DEF CallInv
<1> QED
  BY <1>1, <1>2, <1>3, <1>7, MemoryStepHolds

\* A step that leaves calls, consumptions, records and audit alone.
LEMMA MemoryStays ==
    ASSUME MemoryInv, UNCHANGED <<calls, consumed, records, auditLog>>
    PROVE  MemoryInv'
<1>1. \A c \in Calls : (CallInv(c) <=> CallInv(c)') /\ (Spent(c) <=> Spent(c)') /\ KeyOf(c)' = KeyOf(c)
  BY DEF CallInv, WholeCall, StageInv, WroteInv, EndedInv, Spent, KeyOf
<1>2. \A r \in records : RecordInv(r) <=> RecordInv(r)'
  BY DEF RecordInv
<1> QED
  BY <1>1, <1>2 DEF MemoryInv

-----------------------------------------------------------------------------
(* The steps of a call, before it writes. *)

LEMMA StartCallHolds ==
    ASSUME MemoryInv, NEW c \in Calls, NEW request, StartCall(c, request)
    PROVE  MemoryInv'
<1>1. Elsewhere(c) /\ calls[c] = Idle /\ UNCHANGED <<consumed, records, auditLog>>
  BY DEF StartCall, Elsewhere, MemoryInv, stores
<1>2. calls'[c] = [at |-> "observe", request |-> request, access |-> NoAccess, trustedNow |-> 0, answer |-> "none",
                   grant |-> NoApproval, wrote |-> FALSE, returned |-> {}, code |-> "none"]
  BY DEF StartCall, MemoryInv
<1>3. c \notin auditLog
  BY <1>1 DEF MemoryInv, CallInv, WholeCall, Idle
<1>4. ~Spent(c)'
  BY <1>2 DEF Spent
<1>5. CallInv(c)'
  BY <1>1, <1>2, <1>3, <1>4 DEF CallInv, WholeCall, StageInv, WroteInv, EndedInv
<1> QED
  BY <1>1, <1>4, <1>5, MemoryStepHolds

LEMMA AuthenticationFailsHolds ==
    ASSUME MemoryInv, NEW c \in Calls, AuthenticationFails(c)
    PROVE  MemoryInv'
<1>1. calls[c].at = "observe" /\ Ends(c, "AUTHENTICATION_UNAVAILABLE") /\ UNCHANGED <<consumed, records, auditLog>>
  BY DEF AuthenticationFails, stores
<1> QED
  BY <1>1, BegunIsWhole, EndsUnwritten DEF StageInv, AnsweredBeforeApproval

LEMMA AuthenticateHolds ==
    ASSUME MemoryInv, NEW c \in Calls, Authenticate(c)
    PROVE  MemoryInv'
<1>1. calls[c].at = "observe" /\ UNCHANGED <<consumed, records, auditLog>>
  BY DEF Authenticate, stores
<1>2. WholeCall(c) /\ StageInv(c)
  BY <1>1, BegunIsWhole
<1>3. PICK session \in Sessions :
        calls' = [calls EXCEPT ![c].access = Sealed(c, session),
                    ![c].at = IF Sealed(c, session).sealed THEN "operate" ELSE "ended",
                    ![c].code = IF Sealed(c, session).sealed THEN "none" ELSE "AUTHENTICATION_FAILED"]
  BY DEF Authenticate
<1>4. PICK access : access = Sealed(c, session)
  OBVIOUS
<1>5. calls'[c] = [at |-> IF access.sealed THEN "operate" ELSE "ended", request |-> calls[c].request,
                   access |-> access, trustedNow |-> calls[c].trustedNow, answer |-> calls[c].answer,
                   grant |-> calls[c].grant, wrote |-> calls[c].wrote, returned |-> calls[c].returned,
                   code |-> IF access.sealed THEN "none" ELSE "AUTHENTICATION_FAILED"]
  BY <1>2, <1>3, <1>4 DEF MemoryInv, WholeCall
<1>6. Elsewhere(c)
  BY <1>3 DEF MemoryInv, Elsewhere
<1>7. ~calls[c].wrote /\ ~Spent(c)'
  BY <1>1, <1>2, <1>5 DEF StageInv, Spent
<1>8. CallInv(c)'
  BY <1>1, <1>2, <1>5, <1>7 DEF CallInv, WholeCall, StageInv, WroteInv, EndedInv, AnsweredBeforeApproval
<1> QED
  BY <1>1, <1>6, <1>7, <1>8, MemoryStepHolds

LEMMA OperateHolds ==
    ASSUME MemoryInv, NEW c \in Calls, Operate(c)
    PROVE  MemoryInv'
<1> DEFINE allowed == AuthorizeMemoryAccess(Access(c), Context(c), Request(c).kind, Request(c).ownerId, Request(c).namespace)
           outcome == PortOutcome(c)
<1>1. /\ calls[c].at = "operate" /\ Request(c).kind # "write"
      /\ UNCHANGED <<consumed, auditLog>>
      /\ records' \subseteq records
  BY DEF Operate
<1>2. WholeCall(c) /\ StageInv(c) /\ ~calls[c].wrote /\ calls[c] # Idle
  BY <1>1, BegunIsWhole DEF StageInv
<1>3. PICK failed :
        LET done == allowed = "ok" /\ ~failed /\ outcome.code = "ok" IN
        /\ IF done
           THEN calls' = [calls EXCEPT ![c].at = "ended", ![c].code = "ok",
                                       ![c].returned = IF Request(c).kind = "delete" THEN {} ELSE outcome.rows]
           ELSE Ends(c, IF allowed = "ok" THEN "MEMORY_UNAVAILABLE" ELSE "AUTHORIZATION_DENIED")
        /\ records' = IF done /\ Request(c).kind = "delete" THEN records \ Named(c) ELSE records
  BY DEF Operate
<1>4. \A r \in outcome.rows : r.ownerId = Access(c).ownerId /\ r.namespace = Request(c).namespace
  BY DEF PortOutcome, QueryOutcome, ReadOutcome, Named, Visible, OldestFirst
<1> HIDE DEF outcome
<1>5. CASE allowed = "ok" /\ ~failed /\ outcome.code = "ok"
  <2> DEFINE returned == IF Request(c).kind = "delete" THEN {} ELSE outcome.rows
  <2>1. calls' = [calls EXCEPT ![c].at = "ended", ![c].code = "ok", ![c].returned = returned]
    BY <1>3, <1>5
  <2>2. \A r \in returned : Within(r, Access(c))
    BY <1>4, <1>5, AccessStaysWithin DEF Within
  <2> HIDE DEF returned, allowed
  <2>3. calls'[c] = [at |-> "ended", request |-> calls[c].request, access |-> calls[c].access,
                     trustedNow |-> calls[c].trustedNow, answer |-> calls[c].answer, grant |-> calls[c].grant,
                     wrote |-> calls[c].wrote, returned |-> returned, code |-> "ok"]
    BY <1>2, <2>1 DEF MemoryInv, WholeCall
  <2>4. Elsewhere(c)
    BY <2>1 DEF MemoryInv, Elsewhere
  <2>5. ~Spent(c)'
    BY <1>2, <2>3 DEF Spent
  <2>6. CallInv(c)'
    <3>1. WholeCall(c)' /\ StageInv(c)'
      BY <1>2, <2>3 DEF WholeCall, StageInv
    <3>2. WroteInv(c)' /\ EndedInv(c)'
      BY <1>1, <1>2, <2>2, <2>3, <2>5 DEF WroteInv, EndedInv, Access, Request
    <3> QED
      BY <3>1, <3>2 DEF CallInv
  <2> QED
    BY <1>1, <1>2, <2>4, <2>5, <2>6, MemoryStepHolds
<1>6. CASE ~(allowed = "ok" /\ ~failed /\ outcome.code = "ok")
  <2>1. /\ Ends(c, IF allowed = "ok" THEN "MEMORY_UNAVAILABLE" ELSE "AUTHORIZATION_DENIED")
        /\ UNCHANGED <<consumed, records, auditLog>>
    BY <1>1, <1>3, <1>6
  <2>2. calls[c].answer = "none"
    BY <1>1, <1>2 DEF StageInv
  <2> HIDE DEF allowed
  <2>3. CASE allowed = "ok"
    BY <1>1, <1>2, <2>1, <2>2, <2>3, EndsUnwritten
  <2>4. CASE allowed # "ok"
    BY <1>1, <1>2, <2>1, <2>2, <2>4, EndsUnwritten
  <2> QED
    BY <2>3, <2>4
<1> QED
  BY <1>5, <1>6

\* The call at its next stage, at the time that was read for it.
AdvancedCall(c, stage, moment) ==
    [at |-> stage, request |-> calls[c].request, access |-> calls[c].access, trustedNow |-> moment,
     answer |-> calls[c].answer, grant |-> calls[c].grant, wrote |-> calls[c].wrote,
     returned |-> calls[c].returned, code |-> calls[c].code]

\* A write goes on to its next stage, before it has asked for an answer.
LEMMA GoesOnHolds ==
    ASSUME MemoryInv, NEW c \in Calls, NEW stage \in {"scan", "policy"}, NEW moment,
           calls[c].at \in {"operate", "scan"},
           Elsewhere(c), calls'[c] = AdvancedCall(c, stage, moment), calls[c].request.kind = "write",
           calls[c].request.content.sensitivity # "secret-class",
           stage = "scan" \/ calls[c].request.content.findings # "deny",
           UNCHANGED <<consumed, records, auditLog>>
    PROVE  MemoryInv'
<1>1. WholeCall(c) /\ StageInv(c) /\ ~calls[c].wrote
  BY BegunIsWhole DEF StageInv
<1>2. ~Spent(c)'
  BY <1>1 DEF Spent, AdvancedCall
<1>3. CallInv(c)'
  <2>1. WholeCall(c)'
    BY <1>1 DEF WholeCall, AdvancedCall
  <2>2. StageInv(c)'
    BY <1>1 DEF StageInv, AdvancedCall
  <2>3. WroteInv(c)' /\ EndedInv(c)'
    BY <1>1, <1>2 DEF WroteInv, EndedInv, AdvancedCall
  <2> QED
    BY <2>1, <2>2, <2>3 DEF CallInv
<1> QED
  BY <1>1, <1>2, <1>3, MemoryStepHolds

LEMMA AdmitWriteHolds ==
    ASSUME MemoryInv, NEW c \in Calls, AdmitWrite(c)
    PROVE  MemoryInv'
<1>1. calls[c].at = "operate" /\ Request(c).kind = "write" /\ UNCHANGED <<consumed, records, auditLog>>
  BY DEF AdmitWrite, stores
<1>2. WholeCall(c) /\ ~calls[c].wrote
  BY <1>1, BegunIsWhole DEF StageInv
<1>3. CASE WriteAdmission(c) = "ok"
  <2>1. calls' = [calls EXCEPT ![c].at = "scan", ![c].trustedNow = now]
    BY <1>3 DEF AdmitWrite
  <2>2. Elsewhere(c) /\ calls'[c] = AdvancedCall(c, "scan", now)
    BY <1>2, <2>1 DEF Elsewhere, MemoryInv, WholeCall, AdvancedCall
  <2>3. calls[c].request.content.sensitivity # "secret-class" /\ calls[c].request.kind = "write"
    BY <1>1, <1>3, AdmissionVerdict DEF Request
  <2> QED
    BY <1>1, <2>2, <2>3, GoesOnHolds
<1>4. CASE WriteAdmission(c) # "ok"
  <2>1. Ends(c, WriteAdmission(c))
    BY <1>4 DEF AdmitWrite
  <2>2. WriteAdmission(c) \notin {"ok", "AUDIT_FAILED"} \cup AnsweredBeforeApproval
    BY <1>4, AdmissionVerdict DEF AnsweredBeforeApproval
  <2> QED
    BY <1>1, <1>2, <2>1, <2>2, EndsUnwritten
<1> QED
  BY <1>3, <1>4

LEMMA ScanWriteHolds ==
    ASSUME MemoryInv, NEW c \in Calls, ScanWrite(c)
    PROVE  MemoryInv'
<1> DEFINE content == Request(c).content
           checks ==
             << Check(content.findings # "unscannable", "SCANNER_UNAVAILABLE"),
                Check(content.findings # "deny", "SCAN_DENIED"),
                Check(AuthorizeMemoryAccess(Access(c), Context(c), "write", Access(c).ownerId, Request(c).namespace) = "ok",
                      "AUTHORIZATION_DENIED") >>
           outcome == FirstFailure(checks)
<1>1. /\ calls[c].at = "scan" /\ UNCHANGED <<consumed, records, auditLog>>
      /\ IF outcome = "ok" THEN Goes(c, "policy") ELSE Ends(c, outcome)
  BY DEF ScanWrite, stores
<1>2. WholeCall(c) /\ StageInv(c) /\ ~calls[c].wrote /\ calls[c].answer = "none"
  BY <1>1, BegunIsWhole DEF StageInv
<1>3. DOMAIN checks = 1 .. 3 /\ DOMAIN checks \subseteq Nat /\ checks[2] = Check(content.findings # "deny", "SCAN_DENIED")
  OBVIOUS
<1>4. checks[1] # "AUDIT_FAILED" /\ checks[2] # "AUDIT_FAILED" /\ checks[3] # "AUDIT_FAILED"
  BY DEF Check
<1> HIDE DEF checks
<1>5. CASE outcome = "ok"
  <2>1. checks[2] = "ok"
    BY <1>3, <1>5, FirstFailurePasses
  <2>2. calls[c].request.content.findings # "deny" /\ Goes(c, "policy")
    BY <1>1, <1>3, <1>5, <2>1 DEF Check, Request
  <2>3. Elsewhere(c) /\ calls'[c] = AdvancedCall(c, "policy", calls[c].trustedNow)
    BY <1>2, <2>2 DEF Goes, Elsewhere, MemoryInv, WholeCall, AdvancedCall
  <2>4. calls[c].request.kind = "write" /\ calls[c].request.content.sensitivity # "secret-class"
    BY <1>1, <1>2 DEF StageInv
  <2> QED
    BY <1>1, <2>2, <2>3, <2>4, GoesOnHolds
<1>6. CASE outcome # "ok"
  <2>1. outcome # "AUDIT_FAILED" /\ Ends(c, outcome)
    BY <1>1, <1>3, <1>4, <1>6, FirstFailureFails
  <2> HIDE DEF outcome
  <2> QED
    BY <1>1, <1>2, <1>6, <2>1, EndsUnwritten
<1> QED
  BY <1>5, <1>6

LEMMA PolicyRefusesHolds ==
    ASSUME MemoryInv, NEW c \in Calls, PolicyRefuses(c)
    PROVE  MemoryInv'
<1>1. calls[c].at = "policy" /\ UNCHANGED <<consumed, records, auditLog>>
  BY DEF PolicyRefuses, stores
<1>2. PICK code \in {"POLICY_UNAVAILABLE", "POLICY_DENIED"} : Ends(c, code)
  BY DEF PolicyRefuses
<1>3. ~calls[c].wrote /\ calls[c].answer = "none"
  BY <1>1, BegunIsWhole DEF StageInv
<1> QED
  BY <1>1, <1>2, <1>3, EndsUnwritten

-----------------------------------------------------------------------------
(* The grant, the write and its audit. *)

LEMMA PolicyRequiresApprovalHolds ==
    ASSUME MemoryInv, NEW c \in Calls, PolicyRequiresApproval(c)
    PROVE  MemoryInv'
<1> DEFINE id == Request(c).approvalId
           Stopped(code) == [calls[c] EXCEPT !.at = "ended", !.code = code]
           Looked == [calls[c] EXCEPT !.at = "lookup", !.grant = grants[id]]
           CallAt(stage, grant) ==
             [at |-> stage, request |-> calls[c].request, access |-> calls[c].access,
              trustedNow |-> calls[c].trustedNow, answer |-> calls[c].answer, grant |-> grant,
              wrote |-> calls[c].wrote, returned |-> calls[c].returned, code |-> calls[c].code]
<1>1. calls[c].at = "policy" /\ UNCHANGED <<consumed, records, auditLog>> /\ Elsewhere(c)
  BY DEF PolicyRequiresApproval, stores, MemoryInv, Elsewhere
<1>2. WholeCall(c) /\ StageInv(c) /\ ~calls[c].wrote
  BY <1>1, BegunIsWhole DEF StageInv
<1>3. calls'[c] \in {Stopped("APPROVAL_REQUIRED"), Stopped("APPROVAL_UNAVAILABLE"), Looked}
  BY DEF PolicyRequiresApproval, MemoryInv
<1>4. ASSUME NEW code
      PROVE  Stopped(code) = [at |-> "ended", request |-> calls[c].request, access |-> calls[c].access,
                         trustedNow |-> calls[c].trustedNow, answer |-> calls[c].answer, grant |-> calls[c].grant,
                         wrote |-> calls[c].wrote, returned |-> calls[c].returned, code |-> code]
  <2>1. [calls[c] EXCEPT !.at = "ended"] = CallAt("ended", calls[c].grant)
    BY <1>2 DEF WholeCall, CallAt
  <2>2. [CallAt("ended", calls[c].grant) EXCEPT !.code = code] =
          [at |-> "ended", request |-> calls[c].request, access |-> calls[c].access,
           trustedNow |-> calls[c].trustedNow, answer |-> calls[c].answer, grant |-> calls[c].grant,
           wrote |-> calls[c].wrote, returned |-> calls[c].returned, code |-> code]
    BY DEF CallAt
  <2> HIDE DEF CallAt
  <2> QED
    BY <2>1, <2>2
<1>5. Looked = CallAt("lookup", grants[id])
  <2>1. [calls[c] EXCEPT !.at = "lookup"] = CallAt("lookup", calls[c].grant)
    BY <1>2 DEF WholeCall, CallAt
  <2>2. [CallAt("lookup", calls[c].grant) EXCEPT !.grant = grants[id]] = CallAt("lookup", grants[id])
    BY DEF CallAt
  <2> QED
    BY <2>1, <2>2
<1> HIDE DEF Stopped, Looked
<1>6. ASSUME NEW code \in {"APPROVAL_REQUIRED", "APPROVAL_UNAVAILABLE"}, calls'[c] = Stopped(code)
      PROVE  CallInv(c)' /\ ~Spent(c)'
  <2>1. ~Spent(c)' /\ WholeCall(c)'
    BY <1>2, <1>4, <1>6 DEF Spent, WholeCall
  <2>2. StageInv(c)'
    BY <1>1, <1>2, <1>4, <1>6 DEF StageInv
  <2>3. WroteInv(c)' /\ EndedInv(c)'
    BY <1>1, <1>2, <1>4, <1>6, <2>1 DEF WroteInv, EndedInv, StageInv
  <2> QED
    BY <2>1, <2>2, <2>3 DEF CallInv
<1>7. ASSUME calls'[c] = Looked
      PROVE  CallInv(c)' /\ ~Spent(c)'
  <2>1. ~Spent(c)' /\ WholeCall(c)'
    BY <1>2, <1>5, <1>7 DEF Spent, WholeCall
  <2>2. StageInv(c)'
    BY <1>1, <1>2, <1>5, <1>7 DEF StageInv
  <2>3. WroteInv(c)' /\ EndedInv(c)'
    BY <1>1, <1>2, <1>5, <1>7, <2>1 DEF WroteInv, EndedInv, StageInv
  <2> QED
    BY <2>1, <2>2, <2>3 DEF CallInv
<1>8. CallInv(c)' /\ ~Spent(c)'
  BY <1>3, <1>6, <1>7
<1> QED
  BY <1>1, <1>2, <1>8, MemoryStepHolds

\* The store consumes no approval twice for the same nonce.
LEMMA ConsumesOnce ==
    ASSUME NEW id, NEW nonce, Consume(id, nonce) = "ok"
    PROVE  <<id, nonce>> \notin consumed
BY DEF Consume

LEMMA ConsumeApprovalHolds ==
    ASSUME MemoryInv, NEW c \in Calls, ConsumeApproval(c)
    PROVE  MemoryInv'
<1> DEFINE demand == DeriveMemoryWriteApprovalDemand(c)
           valid == ValidateApproval(calls[c].grant, demand, calls[c].trustedNow)
           outcome == Consume(calls[c].grant.approvalId, calls[c].grant.nonce)
<1>1. /\ calls[c].at = "lookup" /\ UNCHANGED <<records, auditLog>>
      /\ IF valid # "ok" THEN Ends(c, "APPROVAL_INVALID") /\ UNCHANGED <<grants, consumed>>
         ELSE /\ calls' = [calls EXCEPT ![c].at = "consume", ![c].answer = outcome]
              /\ IF outcome = "ok" THEN consumed' = consumed \cup {KeyOf(c)} ELSE UNCHANGED <<grants, consumed>>
  BY DEF ConsumeApproval, KeyOf
<1>2. WholeCall(c) /\ StageInv(c) /\ ~calls[c].wrote /\ calls[c].answer = "none"
  BY <1>1, BegunIsWhole DEF StageInv
<1>3. CASE valid # "ok"
  BY <1>1, <1>2, <1>3, EndsUnwritten
<1>4. CASE valid = "ok"
  <2>1. calls[c].grant.ownerId = calls[c].access.ownerId /\ calls[c].grant.payloadDigest = Digest(calls[c].request)
    BY <1>4, ApprovalMatches DEF DeriveMemoryWriteApprovalDemand, Digest, Access, Request
  <2>2. outcome = "ok" => KeyOf(c) \notin consumed
    BY ConsumesOnce DEF KeyOf
  <2> HIDE DEF outcome
  <2>3. /\ calls' = [calls EXCEPT ![c].at = "consume", ![c].answer = outcome]
        /\ consumed \subseteq consumed' /\ (outcome = "ok" => KeyOf(c) \in consumed')
    BY <1>1, <1>4
  <2>4. /\ Elsewhere(c)
        /\ calls'[c] = [at |-> "consume", request |-> calls[c].request, access |-> calls[c].access,
                        trustedNow |-> calls[c].trustedNow, answer |-> outcome, grant |-> calls[c].grant,
                        wrote |-> calls[c].wrote, returned |-> calls[c].returned, code |-> calls[c].code]
    BY <1>2, <2>3 DEF Elsewhere, MemoryInv, WholeCall
  <2>5. KeyOf(c)' = KeyOf(c) /\ (Spent(c)' => outcome = "ok")
    BY <1>2, <2>4 DEF KeyOf, Spent
  <2>6. WholeCall(c)'
    BY <1>2, <2>4 DEF WholeCall
  <2>7. StageInv(c)'
    BY <1>1, <1>2, <2>4 DEF StageInv
  <2>8. WroteInv(c)' /\ EndedInv(c)'
    BY <1>2, <2>1, <2>3, <2>4, <2>5 DEF WroteInv, EndedInv
  <2>9. CallInv(c)'
    BY <2>6, <2>7, <2>8 DEF CallInv
  <2> QED
    BY <1>1, <1>2, <2>2, <2>3, <2>4, <2>5, <2>9, MemoryStepHolds
<1> QED
  BY <1>3, <1>4

\* The port stores nothing it does not allow the session of the call.
LEMMA StoredIsAllowed ==
    ASSUME NEW c, "ok" \in WriteOutcomes(c)
    PROVE  /\ Request(c).namespace = Access(c).activeNamespace
           /\ Restricted(Request(c).namespace) => Access(c).role = "security-guard"
<1>1. AuthorizeMemoryAccess(Access(c), Context(c), "write", Access(c).ownerId, Request(c).namespace) = "ok"
  BY DEF WriteOutcomes
<1> QED
  BY <1>1, WritesStayHome

LEMMA WriteRecordHolds ==
    ASSUME MemoryInv, NEW c \in Calls, NEW approval, WriteRecord(c, approval),
           calls[c].at \in {"policy", "consume"}, calls[c].at = "consume" => calls[c].answer = "ok",
           UNCHANGED <<consumed, auditLog>>
    PROVE  MemoryInv'
<1> DEFINE record == RecordOf(c, approval)
<1>1. WholeCall(c) /\ StageInv(c) /\ WroteInv(c) /\ ~calls[c].wrote /\ calls[c] # Idle
  BY BegunIsWhole DEF StageInv
<1>2. PICK outcome \in WriteOutcomes(c) :
        /\ calls' = [calls EXCEPT ![c].at = "write", ![c].answer = outcome, ![c].wrote = outcome = "ok"]
        /\ IF outcome = "ok" THEN records' = {r \in records : Key(r) # Key(record)} \cup {record}
           ELSE UNCHANGED <<records, ordinals>>
  BY DEF WriteRecord
<1>3. PICK wrote \in BOOLEAN : wrote <=> outcome = "ok"
  OBVIOUS
<1>4. /\ Elsewhere(c)
      /\ calls'[c] = [at |-> "write", request |-> calls[c].request, access |-> calls[c].access,
                      trustedNow |-> calls[c].trustedNow, answer |-> outcome, grant |-> calls[c].grant,
                      wrote |-> wrote, returned |-> calls[c].returned, code |-> calls[c].code]
  <2>1. Elsewhere(c)
    BY <1>2 DEF Elsewhere, MemoryInv
  <2>2. wrote = (outcome = "ok")
    BY <1>3
  <2>3. calls'[c] = [[[calls[c] EXCEPT !.at = "write"] EXCEPT !.answer = outcome] EXCEPT !.wrote = wrote]
    BY <1>2, <2>2, Zenon DEF MemoryInv
  <2> DEFINE CallWith(answer, written) ==
               [at |-> "write", request |-> calls[c].request, access |-> calls[c].access,
                trustedNow |-> calls[c].trustedNow, answer |-> answer, grant |-> calls[c].grant,
                wrote |-> written, returned |-> calls[c].returned, code |-> calls[c].code]
  <2>4. /\ [calls[c] EXCEPT !.at = "write"] = CallWith(calls[c].answer, calls[c].wrote)
        /\ [CallWith(calls[c].answer, calls[c].wrote) EXCEPT !.answer = outcome] = CallWith(outcome, calls[c].wrote)
        /\ [CallWith(outcome, calls[c].wrote) EXCEPT !.wrote = wrote] = CallWith(outcome, wrote)
    <3>1. [calls[c] EXCEPT !.at = "write"] = CallWith(calls[c].answer, calls[c].wrote)
      BY <1>1 DEF WholeCall
    <3>2. [CallWith(calls[c].answer, calls[c].wrote) EXCEPT !.answer = outcome] = CallWith(outcome, calls[c].wrote)
      OBVIOUS
    <3>3. [CallWith(outcome, calls[c].wrote) EXCEPT !.wrote = wrote] = CallWith(outcome, wrote)
      OBVIOUS
    <3> QED
      BY <3>1, <3>2, <3>3
  <2> HIDE DEF CallWith
  <2>5. calls'[c] = CallWith(outcome, wrote)
    BY <2>3, <2>4, Zenon
  <2> QED
    BY <2>1, <2>5 DEF CallWith
<1>5. outcome = "ok" =>
        /\ calls[c].request.namespace = calls[c].access.activeNamespace
        /\ Restricted(calls[c].request.namespace) => calls[c].access.role = "security-guard"
  BY <1>2, StoredIsAllowed DEF Request, Access
<1>6. KeyOf(c)' = KeyOf(c) /\ (Spent(c)' => Spent(c))
  BY <1>1, <1>3, <1>4 DEF KeyOf, Spent, StageInv
<1>7. CallInv(c)'
  <2>1. WholeCall(c)'
    BY <1>4 DEF WholeCall
  <2>2. StageInv(c)'
    BY <1>1, <1>3, <1>4 DEF StageInv
  <2>3. Spent(c)' => KeyOf(c)' \in consumed' /\ calls[c].grant.payloadDigest = Digest(calls[c].request)
                     /\ calls[c].grant.ownerId = calls[c].access.ownerId
    BY <1>1, <1>6 DEF WroteInv
  <2>4. WroteInv(c)' /\ EndedInv(c)'
    BY <1>1, <1>3, <1>4, <1>5, <2>3 DEF WroteInv, EndedInv, StageInv
  <2> QED
    BY <2>1, <2>2, <2>4 DEF CallInv
<1>8. \A r \in records' : r \in records \/ RecordInv(r)'
  <2>1. CASE outcome = "ok"
    <3>1. PICK row : row = record
      OBVIOUS
    <3>2. row.writer = c /\ row.ownerId = calls[c].access.ownerId /\ row.namespace = calls[c].request.namespace
      BY <3>1 DEF RecordOf, Access, Request
    <3>3. /\ calls'[c] # Idle /\ calls'[c].wrote
          /\ calls'[c].access = calls[c].access /\ calls'[c].request = calls[c].request
      BY <1>3, <1>4, <2>1 DEF Idle
    <3>4. \A r \in records' : r \in records \/ r = row
      BY <1>2, <2>1, <3>1
    <3> HIDE DEF record
    <3>5. RecordInv(row)'
      BY <3>2, <3>3 DEF RecordInv
    <3> QED
      BY <3>4, <3>5
  <2>2. CASE outcome # "ok"
    BY <1>2, <2>2
  <2> QED
    BY <2>1, <2>2
<1> QED
  BY <1>1, <1>4, <1>6, <1>7, <1>8, MemoryStepHolds

LEMMA AuditWriteHolds ==
    ASSUME MemoryInv, NEW c \in Calls, AuditWrite(c)
    PROVE  MemoryInv'
<1>1. calls[c].at = "write" /\ UNCHANGED <<consumed, records>>
  BY DEF AuditWrite
<1>2. WholeCall(c) /\ StageInv(c) /\ WroteInv(c) /\ calls[c] # Idle
  BY <1>1, BegunIsWhole
<1>3. CASE calls[c].answer # "ok"
  <2>1. Ends(c, "MEMORY_UNAVAILABLE") /\ UNCHANGED auditLog /\ ~calls[c].wrote
    BY <1>1, <1>2, <1>3 DEF AuditWrite, StageInv
  <2> QED
    BY <1>1, <2>1, EndsUnwritten DEF AnsweredBeforeApproval
<1>4. CASE calls[c].answer = "ok"
  <2>1. PICK recorded \in BOOLEAN :
          /\ Ends(c, IF recorded THEN "ok" ELSE "AUDIT_FAILED")
          /\ auditLog' = auditLog \cup (IF recorded THEN {c} ELSE {})
    BY <1>4 DEF AuditWrite
  <2>2. PICK code \in {"ok", "AUDIT_FAILED"} : code = IF recorded THEN "ok" ELSE "AUDIT_FAILED"
    OBVIOUS
  <2>3. Elsewhere(c) /\ calls'[c] = EndedCall(c, code)
    BY <1>2, <2>1, <2>2, EndLeaves DEF MemoryInv
  <2>4. calls[c].wrote /\ c \notin auditLog /\ calls[c].returned = {} /\ calls[c].wrote = TRUE
    BY <1>1, <1>2, <1>4 DEF StageInv, WholeCall
  <2>5. calls'[c] = [at |-> "ended", request |-> calls[c].request, access |-> calls[c].access, trustedNow |-> 0,
                     answer |-> calls[c].answer, grant |-> calls[c].grant, wrote |-> TRUE,
                     returned |-> {}, code |-> code]
    BY <2>3, <2>4 DEF EndedCall
  <2>6. (c \in auditLog' <=> code = "ok") /\ \A d \in Calls \ {c} : d \in auditLog' <=> d \in auditLog
    BY <2>1, <2>2, <2>4
  <2>7. KeyOf(c)' = KeyOf(c) /\ (Spent(c)' <=> Spent(c)) /\ calls'[c] # Idle
    BY <1>2, <2>4, <2>5 DEF KeyOf, Spent, Idle
  <2>8. CallInv(c)'
    <3>1. WholeCall(c)' /\ StageInv(c)'
      BY <2>5 DEF WholeCall, StageInv
    <3>2. WroteInv(c)'
      BY <1>1, <1>2, <2>4, <2>5, <2>7 DEF WroteInv
    <3>3. EndedInv(c)'
      BY <2>5, <2>6 DEF EndedInv, AnsweredBeforeApproval
    <3> QED
      BY <3>1, <3>2, <3>3 DEF CallInv
  <2> QED
    BY <1>1, <2>3, <2>4, <2>5, <2>6, <2>7, <2>8, MemoryStepHolds
<1> QED
  BY <1>3, <1>4

LEMMA MemoryKeepsInv == MemorySpec => []MemoryInv
<1>1. MemoryInit => MemoryInv
  BY DEF MemoryInit, MemoryInv, CallInv, RecordInv, Spent
<1>2. MemoryInv /\ [MemoryNext]_memoryVars => MemoryInv'
  <2> SUFFICES ASSUME MemoryInv, [MemoryNext]_memoryVars
               PROVE  MemoryInv'
    OBVIOUS
  <2>1. CASE UNCHANGED memoryVars
    BY <2>1, MemoryStays DEF memoryVars
  <2>2. CASE Tick \/ \E grant \in Grants : Seed(grant)
    BY <2>2, MemoryStays DEF Tick, Seed, stores
  <2>3. ASSUME NEW c \in Calls, Abort(c)
        PROVE  MemoryInv'
    BY <2>3, MemoryStays DEF Abort, stores
  <2>4. ASSUME NEW c \in Calls, PolicyAllows(c)
        PROVE  MemoryInv'
    BY <2>4, WriteRecordHolds DEF PolicyAllows
  <2>5. ASSUME NEW c \in Calls, WriteApproved(c)
        PROVE  MemoryInv'
    <3>1. calls[c].at = "consume" /\ UNCHANGED <<consumed, auditLog>>
      BY <2>5 DEF WriteApproved
    <3>2. CASE calls[c].answer # "ok"
      <4>1. Ends(c, "CONSUMPTION_FAILED") /\ UNCHANGED records
        BY <2>5, <3>2 DEF WriteApproved
      <4>2. ~calls[c].wrote
        BY <3>1, BegunIsWhole DEF StageInv
      <4> QED
        BY <3>1, <4>1, <4>2, EndsUnwritten DEF AnsweredBeforeApproval
    <3>3. CASE calls[c].answer = "ok"
      BY <2>5, <3>1, <3>3, WriteRecordHolds DEF WriteApproved
    <3> QED
      BY <3>2, <3>3
  <2>6. ASSUME NEW c \in Calls, CallStep(c)
        PROVE  MemoryInv'
    BY <2>3, <2>4, <2>5, <2>6, StartCallHolds, AuthenticationFailsHolds, AuthenticateHolds, OperateHolds,
       AdmitWriteHolds, ScanWriteHolds, PolicyRefusesHolds, PolicyRequiresApprovalHolds, ConsumeApprovalHolds,
       AuditWriteHolds DEF CallStep
  <2> QED
    BY <2>1, <2>2, <2>6 DEF MemoryNext
<1> QED
  BY <1>1, <1>2, PTL DEF MemorySpec

\* A session sees and stores only its owner's memory, in the namespaces its scope and its role permit.
THEOREM MemoryIsIsolated == MemorySpec => []MemoryStaysIsolated
<1>1. MemoryInv => MemoryStaysIsolated
  <2> SUFFICES ASSUME MemoryInv
               PROVE  MemoryStaysIsolated
    OBVIOUS
  <2>1. ASSUME NEW r \in records \ EarlierRecords
        PROVE  LET writer == calls[r.writer] IN
               /\ r.ownerId = writer.access.ownerId /\ r.namespace = writer.access.activeNamespace
               /\ Restricted(r.namespace) => writer.access.role = "security-guard"
               /\ writer.request.content.sensitivity # "secret-class" /\ writer.request.content.findings # "deny"
    <3>1. RecordInv(r) /\ r \notin EarlierRecords
      BY <2>1 DEF MemoryInv
    <3>2. r.writer \in Calls /\ calls[r.writer].wrote /\ WroteInv(r.writer)
      BY <3>1 DEF RecordInv, MemoryInv, CallInv
    <3> QED
      BY <3>1, <3>2 DEF RecordInv, WroteInv
  <2>2. ASSUME NEW c \in At("ended"), NEW r \in calls[c].returned
        PROVE  Within(r, Access(c))
    <3>1. c \in Calls /\ calls[c].at = "ended"
      BY <2>2 DEF At
    <3>2. EndedInv(c)
      BY <3>1, BegunIsWhole
    <3> QED
      BY <2>2, <3>1, <3>2 DEF EndedInv, Access
  <2> QED
    BY <2>1, <2>2 DEF MemoryStaysIsolated, Within
<1> QED
  BY <1>1, MemoryKeepsInv, PTL

\* A grant lets one write through, and it is the write that was approved.
THEOREM ApprovalsWriteOnce == MemorySpec => []ApprovalWritesOnce
<1>1. MemoryInv => ApprovalWritesOnce
  <2> SUFFICES ASSUME MemoryInv, NEW c \in Calls, Wrote(c), calls[c].grant # NoApproval
               PROVE  /\ calls[c].grant.payloadDigest = Digest(Request(c)) /\ calls[c].grant.ownerId = Access(c).ownerId
                      /\ \A d \in Calls \ {c} : Wrote(d) /\ calls[d].grant # NoApproval => KeyOf(d) # KeyOf(c)
    BY DEF ApprovalWritesOnce, KeyOf
  <2>1. Spent(c) /\ WroteInv(c)
    BY DEF Spent, Wrote, MemoryInv, CallInv
  <2>2. ASSUME NEW d \in Calls \ {c}, Wrote(d), calls[d].grant # NoApproval
        PROVE  KeyOf(d) # KeyOf(c)
    <3>1. Spent(d)
      BY <2>2 DEF Spent, Wrote
    <3> QED
      BY <2>1, <3>1 DEF MemoryInv
  <2> QED
    BY <2>1, <2>2 DEF WroteInv, Request, Access
<1> QED
  BY <1>1, MemoryKeepsInv, PTL

\* What a write answers is what it did.
THEOREM WritesAnswerTruly == MemorySpec => []WriteAnswersAreTrue
<1>1. MemoryInv => WriteAnswersAreTrue
  <2> SUFFICES ASSUME MemoryInv, NEW c \in At("ended"), Request(c).kind = "write"
               PROVE  /\ calls[c].wrote <=> calls[c].code \in {"ok", "AUDIT_FAILED"}
                      /\ c \in auditLog <=> calls[c].code = "ok"
                      /\ calls[c].code \in AnsweredBeforeApproval => calls[c].answer = "none"
    BY DEF WriteAnswersAreTrue, AnsweredBeforeApproval
  <2>1. c \in Calls /\ calls[c].at = "ended"
    BY DEF At
  <2>2. EndedInv(c)
    BY <2>1, BegunIsWhole
  <2> QED
    BY <2>1, <2>2 DEF EndedInv, Request
<1> QED
  BY <1>1, MemoryKeepsInv, PTL

(* Both together: a grant lets one approved write through, and its answer is true. *)
THEOREM WritesAreAlwaysApprovedAndTold == MemorySpec => []WritesAreApprovedAndTold
<1>1. ApprovalWritesOnce /\ WriteAnswersAreTrue => WritesAreApprovedAndTold
  BY DEF WritesAreApprovedAndTold
<1> QED
  BY <1>1, ApprovalsWriteOnce, WritesAnswerTruly, PTL

-----------------------------------------------------------------------------
(* Extensions: what each operation knows at its await. *)

Successes == {"registered", "active", "allowed"}

Registering(own, stage) ==
    own.at = stage /\ own = [at |-> stage, entry |-> own.entry, answer |-> own.answer] /\ IsEntry(own.entry)

EndsRegistered(own) ==
    /\ own.at = "ended" /\ own.code = "registered"
    /\ own = [at |-> "ended", code |-> "registered", entry |-> own.entry] /\ IsEntry(own.entry)

\* The policy is one of the entry's, as the operation has read it at its start.
AwaitsPolicy(own) ==
    /\ own.at = "policy"
    /\ own = [at |-> "policy", entry |-> own.entry, started |-> own.started, answer |-> own.answer,
              aborted |-> own.aborted]
    /\ IsEntry(own.entry)
AwaitsApproval(own) ==
    /\ own.at = "approval"
    /\ own = [at |-> "approval", entry |-> own.entry, started |-> own.started, policy |-> own.policy,
              answer |-> own.answer, aborted |-> own.aborted]
    /\ IsEntry(own.entry)
    /\ own.policy.policyVersion = own.entry.policyVersion

\* The entry could be made active when the registry was asked.
Earned(own) ==
    /\ IsEntry(own.entry)
    /\ Matches(own.approval, Expected(own.entry))
    /\ IsFreshWindow(own.approval.from, AuthorizationUntil(own.approval, own.policy), own.decided)
    /\ own.policy.policyVersion = own.entry.policyVersion
    /\ own.entry.manifest.enabled
AwaitsUpdate(own) ==
    /\ own.at = "updating"
    /\ own = [at |-> "updating", entry |-> own.entry, policy |-> own.policy, approval |-> own.approval,
              decided |-> own.decided, answer |-> own.answer]
    /\ Earned(own)
    /\ Given(own.answer) => IsEntry(own.answer)
EndsActive(own) ==
    /\ own.at = "ended" /\ own.code = "active"
    /\ own = [at |-> "ended", code |-> "active", entry |-> own.entry, policy |-> own.policy,
              approval |-> own.approval, decided |-> own.decided, registration |-> own.registration]
    /\ Earned(own)
    /\ own.registration = [own.entry EXCEPT !.state = "active",
                                            !.manifest.wording = own.registration.manifest.wording]

AwaitsGrants(own) ==
    /\ own.at = "grants"
    /\ own = [at |-> "grants", registration |-> own.registration, request |-> own.request, started |-> own.started,
              answer |-> own.answer, aborted |-> own.aborted]
AwaitsRouting(own) ==
    /\ own.at = "routing"
    /\ own = [at |-> "routing", registration |-> own.registration, request |-> own.request,
              started |-> own.started, answer |-> own.answer, aborted |-> own.aborted, policy |-> own.policy]
    /\ Matches(own.policy, Identity(own.request))
AwaitsGuard(own) ==
    /\ own.at = "guard"
    /\ own = [at |-> "guard", registration |-> own.registration, request |-> own.request,
              started |-> own.started, answer |-> own.answer, aborted |-> own.aborted, policy |-> own.policy,
              routing |-> own.routing]
    /\ Matches(own.policy, Identity(own.request)) /\ Matches(own.routing, Expected(own.request))

\* What GrantsAreBacked says of one operation.
Backed(own) ==
    LET seen == {own.routing.trust, own.routing.floor, own.guard.floor, own.registration.risk,
                 own.registration.manifest.riskClass, CategoryFloor(own.request.category)} IN
    /\ own.permissions \subseteq own.registration.manifest.requestedPermissions
    /\ own.permissions \subseteq own.policy.deployment \cap own.policy.role \cap own.policy.security
                                   \cap own.policy.risk \cap own.guard.allowed
    /\ ~own.guard.denied
    /\ Matches(own.guard, Expected(own.registration)) /\ Matches(own.routing, Expected(own.registration))
    /\ Matches(own.policy, Identity(own.registration))
    /\ "untrusted-input" \in seen \/ own.request.untrusted => own.permissions \cap DangerousPermissions = {}
EndsAllowed(own) == own.at = "ended" /\ own.code = "allowed" /\ "aborted" \notin DOMAIN own /\ Backed(own)

Refused(own) ==
    /\ own.at = "ended" /\ own.code \notin Successes
    /\ \/ own = [at |-> "ended", code |-> own.code]
       \/ "evidence" \in DOMAIN own /\ own = [at |-> "ended", code |-> own.code, evidence |-> own.evidence]

OperationInv(own) ==
    \/ own = Unused \/ Refused(own)
    \/ Registering(own, "conflict") \/ Registering(own, "registering")
    \/ EndsRegistered(own)
    \/ AwaitsPolicy(own) \/ AwaitsApproval(own) \/ AwaitsUpdate(own) \/ EndsActive(own)
    \/ AwaitsGrants(own) \/ AwaitsRouting(own) \/ AwaitsGuard(own) \/ EndsAllowed(own)

ExtensionsInv ==
    /\ operations = [o \in Operations |-> operations[o]]
    /\ \A o \in Operations : OperationInv(operations[o])
    /\ \A entry \in registry : IsEntry(entry)
    /\ clock \in Nat

\* The codes of a check, and of an operation that ends with nothing to show.
Verdicts ==
    {"ok", "INVALID_MANIFEST", "UNKNOWN_FIELD", "MISSING_APPROVAL_POLICY", "UNSUPPORTED_SCHEMA_VERSION", "UNKNOWN_KIND",
     "INVALID_VERSION", "INVALID_CAPABILITY_ID", "UNKNOWN_PORT", "UNKNOWN_PERMISSION", "UNKNOWN_RISK_CLASS",
     "UNKNOWN_APPROVAL_EFFECT", "SECRET_LIKE_CONTENT", "EXECUTABLE_CONTENT", "APPROVAL_POLICY_REQUIRED",
     "APPROVAL_EFFECT_MISMATCH", "DANGEROUS_PERMISSION_NOT_GRANTED", "DEPLOYMENT_UNAUTHORIZED", "STALE_AUTHORIZATION",
     "NOT_PENDING", "MANIFEST_MISMATCH", "POLICY_MISMATCH", "DISABLED", "INVALID_TRANSITION", "DEPLOYMENT_UNAVAILABLE",
     "INVALID_OBSERVATION", "INVALID_OPERATION_CONTEXT", "OPERATION_MISMATCH", "SECURITY_DENIED", "DISABLED_EXTENSION",
     "STALE_RISK", "VERSION_MISMATCH", "REGISTRATION_MISMATCH", "REGISTRY_UNAVAILABLE", "DUPLICATE_ID_VERSION",
     "POLICY_UNAVAILABLE", "ROUTING_UNAVAILABLE", "SECURITY_UNAVAILABLE", "RETURNED_ENTRY_MISMATCH"}

LEMMA NoVerdictSucceeds == Verdicts \cap Successes = {}
  BY DEF Verdicts, Successes

LEMMA ParsedVerdicts ==
    ASSUME NEW parts, NEW n \in Nat, DOMAIN parts = 1 .. n, \A i \in 1 .. n : parts[i][2] \in Verdicts,
           NEW candidate
    PROVE  Parsed(candidate, parts) \in Seq(Verdicts)
<1>1. "ok" \in Verdicts
  BY DEF Verdicts
<1>2. Parsed(candidate, parts) = [i \in 1 .. n |-> Check(parts[i][1] \notin candidate.malformed, parts[i][2])]
  BY DEF Parsed
<1>3. \A i \in 1 .. n : Check(parts[i][1] \notin candidate.malformed, parts[i][2]) \in Verdicts
  BY <1>1 DEF Check
<1> QED
  BY <1>2, <1>3

LEMMA VerdictOf ==
    ASSUME NEW checks \in Seq(Verdicts)
    PROVE  FirstFailure(checks) \in Verdicts
<1>1. "ok" \in Verdicts
  BY DEF Verdicts
<1>2. DOMAIN checks \subseteq Nat /\ \A i \in DOMAIN checks : checks[i] \in Verdicts
  OBVIOUS
<1> QED
  BY <1>1, <1>2, FirstFailureFails

LEMMA ManifestVerdict == \A candidate : ValidateExtensionManifest(candidate) \in Verdicts
<1> SUFFICES ASSUME NEW candidate
             PROVE  ValidateExtensionManifest(candidate) \in Verdicts
  OBVIOUS
<1> DEFINE before == Parsed(candidate, PartsBeforeEffects)
           after == Parsed(candidate, PartsAfterEffects)
           shape == <<Check(candidate.shape = "plain data", "INVALID_MANIFEST")>>
           effects == EffectChecks(candidate)
<1>1. DOMAIN PartsBeforeEffects = 1 .. 18 /\ \A i \in 1 .. 18 : PartsBeforeEffects[i][2] \in Verdicts
  BY DEF PartsBeforeEffects, Verdicts
<1>2. DOMAIN PartsAfterEffects = 1 .. 9 /\ \A i \in 1 .. 9 : PartsAfterEffects[i][2] \in Verdicts
  BY DEF PartsAfterEffects, Verdicts
<1>3. before \in Seq(Verdicts) /\ after \in Seq(Verdicts)
  BY <1>1, <1>2, ParsedVerdicts
<1>4. shape \in Seq(Verdicts) /\ effects \in Seq(Verdicts)
  BY DEF Check, EffectChecks, Verdicts
<1> HIDE DEF before, after, shape, effects
<1>5. shape \o before \o effects \o after \in Seq(Verdicts)
  BY <1>3, <1>4
<1> QED
  BY <1>5, VerdictOf DEF ValidateExtensionManifest, before, after, shape, effects

LEMMA ActivationVerdicts ==
    \A o, approval, authorization : ActivationVerdict(o, approval, authorization) \in Verdicts
<1>1. \A approval, policy, moment : IssueDeploymentAuthorization(approval, policy, moment) \in Verdicts
  <2> SUFFICES ASSUME NEW approval, NEW policy, NEW moment
               PROVE  IssueDeploymentAuthorization(approval, policy, moment) \in Verdicts
    OBVIOUS
  <2> DEFINE checks ==
        <<Check(approval.id = policy.id /\ approval.version = policy.version, "DEPLOYMENT_UNAUTHORIZED"),
          Check(IsFreshWindow(approval.from, approval.until, moment), "STALE_AUTHORIZATION"),
          Check(moment < AuthorizationUntil(approval, policy), "STALE_AUTHORIZATION")>>
  <2>1. checks \in Seq(Verdicts)
    BY DEF Check, Verdicts
  <2> HIDE DEF checks
  <2> QED
    BY <2>1, VerdictOf DEF IssueDeploymentAuthorization, checks
<1>2. \A pending, authorization, state, policyVersion, moment :
        DecideActivation(pending, authorization, state, policyVersion, moment) \in Verdicts
  <2> SUFFICES ASSUME NEW pending, NEW authorization, NEW state, NEW policyVersion, NEW moment
               PROVE  DecideActivation(pending, authorization, state, policyVersion, moment) \in Verdicts
    OBVIOUS
  <2> DEFINE checks ==
        <<Check(pending.state = "pending", "NOT_PENDING"),
          Check(IsFreshWindow(authorization.from, authorization.until, moment), "STALE_AUTHORIZATION"),
          Check(authorization.id = pending.id /\ authorization.version = pending.version, "DEPLOYMENT_UNAUTHORIZED"),
          Check(authorization.digest = ComputeManifestDigest(pending.manifest), "MANIFEST_MISMATCH"),
          Check(authorization.policyVersion \in {policyVersion} \cap {pending.policyVersion}, "POLICY_MISMATCH"),
          Check(pending.manifest.enabled, "DISABLED"),
          Check(state \in ActivationTransitions[pending.state], "INVALID_TRANSITION")>>
  <2>1. checks \in Seq(Verdicts)
    BY DEF Check, Verdicts
  <2> HIDE DEF checks
  <2> QED
    BY <2>1, VerdictOf DEF DecideActivation, checks
<1> SUFFICES ASSUME NEW o, NEW approval, NEW authorization
             PROVE  ActivationVerdict(o, approval, authorization) \in Verdicts
  OBVIOUS
<1> DEFINE checks ==
      <<Check(Given(approval), "DEPLOYMENT_UNAVAILABLE"),
        IF Given(approval) THEN Check(ParseDeploymentApprovalObservation(approval, Expected(Own(o).entry), Own(o).started),
                                      "INVALID_OBSERVATION") ELSE "ok",
        IF Given(approval) THEN IssueDeploymentAuthorization(approval, Own(o).policy, clock) ELSE "ok",
        Check(~Own(o).aborted, "INVALID_OPERATION_CONTEXT"),
        IF Given(approval)
        THEN DecideActivation(Own(o).entry, authorization, "active", Own(o).policy.policyVersion, clock) ELSE "ok">>
<1>3. checks \in Seq(Verdicts)
  BY <1>1, <1>2 DEF Check, Verdicts
<1> HIDE DEF checks
<1> QED
  BY <1>3, VerdictOf DEF ActivationVerdict, checks

LEMMA PermissionVerdicts ==
    /\ \A registration, policy, routing, guard, operation, heard :
         ClassifyExtensionRuntimeRisk(registration, policy, routing, guard, operation, heard) \in Verdicts
    /\ \A registration, evidence, operation, given, moment :
         ResolveExtensionPermissions(registration, evidence, operation, given, moment) \in Verdicts
<1>1. ASSUME NEW registration, NEW policy, NEW routing, NEW guard, NEW operation, NEW heard
      PROVE  ClassifyExtensionRuntimeRisk(registration, policy, routing, guard, operation, heard) \in Verdicts
  <2> DEFINE checks ==
        <<Check(~heard, "INVALID_OPERATION_CONTEXT"),
          Check(policy.id = registration.id /\ policy.version = registration.version, "POLICY_MISMATCH"),
          Check(policy.policyVersion = registration.policyVersion, "POLICY_MISMATCH"),
          Check(routing.correlation = operation.correlation, "OPERATION_MISMATCH"),
          Check(guard.correlation = operation.correlation, "OPERATION_MISMATCH"),
          Check(~guard.denied, "SECURITY_DENIED")>>
  <2>1. checks \in Seq(Verdicts)
    BY DEF Check, Verdicts
  <2> HIDE DEF checks
  <2> QED
    BY <2>1, VerdictOf DEF ClassifyExtensionRuntimeRisk, checks
<1>2. ASSUME NEW registration, NEW evidence, NEW operation, NEW given, NEW moment
      PROVE  ResolveExtensionPermissions(registration, evidence, operation, given, moment) \in Verdicts
  <2> DEFINE checks ==
        <<Check(registration.manifest.enabled, "DISABLED_EXTENSION"),
          Check(IsFreshWindow(evidence.from, evidence.until, moment), "STALE_RISK"),
          Check(evidence.correlation = operation.correlation, "OPERATION_MISMATCH"),
          Check(evidence.id = registration.id /\ evidence.version = registration.version, "VERSION_MISMATCH"),
          Check(evidence.policyVersion = registration.policyVersion, "POLICY_MISMATCH"),
          Check(evidence.registeredRisk = registration.risk, "REGISTRATION_MISMATCH"),
          Check(registration.id = registration.manifest.id, "VERSION_MISMATCH")>>
  <2> DEFINE dangerous == DangerousChecks(registration.manifest, given)
  <2>1. checks \in Seq(Verdicts) /\ dangerous \in Seq(Verdicts)
    BY DEF Check, DangerousChecks, Verdicts
  <2> HIDE DEF checks, dangerous
  <2>2. checks \o dangerous \in Seq(Verdicts)
    BY <2>1
  <2> QED
    BY <2>2, VerdictOf DEF ResolveExtensionPermissions, checks, dangerous
<1> QED
  BY <1>1, <1>2

\* What each await implies.
LEMMA StandsSo ==
    ASSUME NEW own, OperationInv(own)
    PROVE  /\ own.at \in {"conflict", "registering"} => Registering(own, own.at)
           /\ own.at = "policy" => AwaitsPolicy(own)
           /\ own.at = "approval" => AwaitsApproval(own)
           /\ own.at = "updating" => AwaitsUpdate(own)
           /\ own.at = "grants" => AwaitsGrants(own)
           /\ own.at = "routing" => AwaitsRouting(own)
           /\ own.at = "guard" => AwaitsGuard(own)
           /\ own.at = "ended" => Refused(own) \/ EndsRegistered(own) \/ EndsActive(own) \/ EndsAllowed(own)
           /\ "aborted" \in DOMAIN own => own.at \in {"policy", "approval", "grants", "routing", "guard"}
<1>1. own = Unused => own.at = "unused" /\ "aborted" \notin DOMAIN own
  BY DEF Unused
<1>2. Refused(own) => own.at = "ended" /\ "aborted" \notin DOMAIN own
  BY DEF Refused
<1>3. \A stage : Registering(own, stage) => own.at = stage /\ "aborted" \notin DOMAIN own
  BY DEF Registering
<1>4. EndsRegistered(own) => own.at = "ended" /\ "aborted" \notin DOMAIN own
  BY DEF EndsRegistered
<1>5. AwaitsPolicy(own) => own.at = "policy"
  BY DEF AwaitsPolicy
<1>6. AwaitsApproval(own) => own.at = "approval"
  BY DEF AwaitsApproval
<1>7. AwaitsUpdate(own) => own.at = "updating" /\ "aborted" \notin DOMAIN own
  BY DEF AwaitsUpdate
<1>8. EndsActive(own) => own.at = "ended" /\ "aborted" \notin DOMAIN own
  BY DEF EndsActive
<1>9. /\ AwaitsGrants(own) => own.at = "grants"
      /\ AwaitsRouting(own) => own.at = "routing"
      /\ AwaitsGuard(own) => own.at = "guard"
  BY DEF AwaitsGrants, AwaitsRouting, AwaitsGuard
<1>10. EndsAllowed(own) => own.at = "ended" /\ "aborted" \notin DOMAIN own
  BY DEF EndsAllowed
<1> QED
  BY <1>1, <1>2, <1>3, <1>4, <1>5, <1>6, <1>7, <1>8, <1>9, <1>10 DEF OperationInv

LEMMA OperationMoves ==
    ASSUME ExtensionsInv, NEW o \in Operations, NEW local, Moves(o, local), OperationInv(local),
           clock' = clock, \A entry \in registry' : IsEntry(entry)
    PROVE  ExtensionsInv'
<1>1. /\ operations' = [p \in Operations |-> IF p = o THEN local ELSE operations[p]]
  BY DEF ExtensionsInv, Moves
<1> QED
  BY <1>1 DEF ExtensionsInv

LEMMA OperationEnds ==
    ASSUME ExtensionsInv, NEW o \in Operations, NEW code \in Verdicts, EndsWith(o, code),
           clock' = clock, registry' = registry
    PROVE  ExtensionsInv'
<1> DEFINE local == [at |-> "ended", code |-> code]
<1>1. Refused(local)
  BY NoVerdictSucceeds DEF Refused
<1> HIDE DEF local
<1>2. Moves(o, local)
  BY DEF EndsWith, local
<1>3. OperationInv(local)
  BY <1>1 DEF OperationInv
<1>4. \A entry \in registry' : IsEntry(entry)
  BY DEF ExtensionsInv
<1> QED
  BY <1>2, <1>3, <1>4, OperationMoves

LEMMA EntryEdits ==
    ASSUME NEW entry, IsEntry(entry)
    PROVE  /\ \A state : IsEntry([entry EXCEPT !.state = state])
           /\ \A answer \in Answers(entry) : Given(answer) => IsEntry(answer)
<1>1. \A state : IsEntry([entry EXCEPT !.state = state])
  BY DEF IsEntry
<1>2. IsEntry([entry EXCEPT !.granted = {"exec"}]) /\ IsEntry([entry EXCEPT !.risk = "low"])
  BY DEF IsEntry
<1>3. IsEntry([entry EXCEPT !.manifest.requestedPermissions = ExtensionPermissions])
  <2> DEFINE edited == [entry EXCEPT !.manifest.requestedPermissions = ExtensionPermissions]
             manifest == [entry.manifest EXCEPT !.requestedPermissions = ExtensionPermissions]
  <2>1. edited = [id |-> entry.id, version |-> entry.version, manifest |-> manifest, state |-> entry.state,
                  policyVersion |-> entry.policyVersion, risk |-> entry.risk, granted |-> entry.granted]
    BY DEF IsEntry
  <2>2. manifest = [field \in DOMAIN manifest |-> manifest[field]]
    OBVIOUS
  <2> HIDE DEF edited, manifest
  <2> QED
    BY <2>1, <2>2 DEF IsEntry, edited
<1>4. ~Given(Failed)
  BY DEF Given, Failed
<1> QED
  BY <1>1, <1>2, <1>3, <1>4 DEF Answers

LEMMA CandidateIsEntry == \A candidate : IsEntry(EntryFrom(candidate))
  BY DEF EntryFrom, IsEntry

\* What the digest does not cover is the wording.
LEMMA DigestTells ==
    ASSUME NEW m, NEW n, m = [field \in DOMAIN m |-> m[field]], n = [field \in DOMAIN n |-> n[field]],
           ComputeManifestDigest(m) = ComputeManifestDigest(n)
    PROVE  m = [n EXCEPT !.wording = m.wording]
<1>1. DOMAIN m = DOMAIN n
  BY DEF ComputeManifestDigest
<1>2. \A field \in DOMAIN m : field # "wording" => m[field] = n[field]
  BY <1>1 DEF ComputeManifestDigest
<1> QED
  BY <1>1, <1>2

LEMMA ReturnedIsEntry ==
    ASSUME NEW entry, NEW returned, IsEntry(entry), IsEntry(returned), VerifyReturnedEntry(entry, returned, "active")
    PROVE  returned = [entry EXCEPT !.state = "active", !.manifest.wording = returned.manifest.wording]
<1> DEFINE manifest == [entry.manifest EXCEPT !.wording = returned.manifest.wording]
<1>1. returned.manifest = manifest
  BY DigestTells DEF IsEntry, VerifyReturnedEntry
<1>2. returned = [id |-> entry.id, version |-> entry.version, manifest |-> returned.manifest, state |-> "active",
                  policyVersion |-> entry.policyVersion, risk |-> entry.risk, granted |-> entry.granted]
  BY DEF IsEntry, VerifyReturnedEntry
<1> DEFINE activated == [entry EXCEPT !.state = "active"]
           edited == [activated EXCEPT !.manifest = manifest]
<1>3. activated = [id |-> entry.id, version |-> entry.version, manifest |-> entry.manifest, state |-> "active",
                   policyVersion |-> entry.policyVersion, risk |-> entry.risk, granted |-> entry.granted]
  BY DEF IsEntry
<1>4. [entry EXCEPT !.state = "active", !.manifest.wording = returned.manifest.wording] = edited
  <2>1. activated.manifest = entry.manifest
    BY <1>3
  <2> QED
    BY <2>1
<1> HIDE DEF activated, manifest
<1>5. edited = [id |-> entry.id, version |-> entry.version, manifest |-> manifest, state |-> "active",
                policyVersion |-> entry.policyVersion, risk |-> entry.risk, granted |-> entry.granted]
  BY <1>3
<1> QED
  BY <1>1, <1>2, <1>4, <1>5

\* What the core has made sure of when it asks the registry.
LEMMA VerdictEarns ==
    ASSUME NEW o, NEW approval, AwaitsApproval(Own(o)),
           ActivationVerdict(o, approval, AuthorizationFrom(o, approval)) = "ok"
    PROVE  /\ Matches(approval, Expected(Own(o).entry))
           /\ IsFreshWindow(approval.from, AuthorizationUntil(approval, Own(o).policy), clock)
           /\ Own(o).entry.manifest.enabled
<1> DEFINE authorization == AuthorizationFrom(o, approval)
           decided == DecideActivation(Own(o).entry, authorization, "active", Own(o).policy.policyVersion, clock)
           parsed == ParseDeploymentApprovalObservation(approval, Expected(Own(o).entry), Own(o).started)
           checks ==
      <<Check(Given(approval), "DEPLOYMENT_UNAVAILABLE"),
        IF Given(approval) THEN Check(parsed, "INVALID_OBSERVATION") ELSE "ok",
        IF Given(approval) THEN IssueDeploymentAuthorization(approval, Own(o).policy, clock) ELSE "ok",
        Check(~Own(o).aborted, "INVALID_OPERATION_CONTEXT"),
        IF Given(approval) THEN decided ELSE "ok">>
<1>1. /\ FirstFailure(checks) = "ok" /\ DOMAIN checks \subseteq Nat /\ {1, 2, 5} \subseteq DOMAIN checks
      /\ checks[1] = Check(Given(approval), "DEPLOYMENT_UNAVAILABLE")
      /\ checks[2] = IF Given(approval) THEN Check(parsed, "INVALID_OBSERVATION") ELSE "ok"
      /\ checks[5] = IF Given(approval) THEN decided ELSE "ok"
  BY DEF ActivationVerdict
<1> HIDE DEF checks, decided, parsed
<1>2. Given(approval) /\ parsed /\ decided = "ok"
  <2>1. checks[1] = "ok" /\ checks[2] = "ok" /\ checks[5] = "ok"
    BY <1>1, FirstFailurePasses
  <2> QED
    BY <1>1, <2>1 DEF Check
<1>3. Matches(approval, Expected(Own(o).entry))
  BY <1>2 DEF parsed, ParseDeploymentApprovalObservation, Accepted
<1> DEFINE pending == Own(o).entry
           decisions ==
      <<Check(pending.state = "pending", "NOT_PENDING"),
        Check(IsFreshWindow(authorization.from, authorization.until, clock), "STALE_AUTHORIZATION"),
        Check(authorization.id = pending.id /\ authorization.version = pending.version, "DEPLOYMENT_UNAUTHORIZED"),
        Check(authorization.digest = ComputeManifestDigest(pending.manifest), "MANIFEST_MISMATCH"),
        Check(authorization.policyVersion \in {Own(o).policy.policyVersion} \cap {pending.policyVersion}, "POLICY_MISMATCH"),
        Check(pending.manifest.enabled, "DISABLED"),
        Check("active" \in ActivationTransitions[pending.state], "INVALID_TRANSITION")>>
<1>4. /\ FirstFailure(decisions) = "ok" /\ DOMAIN decisions \subseteq Nat /\ {2, 6} \subseteq DOMAIN decisions
      /\ decisions[2] = Check(IsFreshWindow(authorization.from, authorization.until, clock), "STALE_AUTHORIZATION")
      /\ decisions[6] = Check(pending.manifest.enabled, "DISABLED")
  BY <1>2 DEF decided, DecideActivation
<1>5. authorization.from = approval.from /\ authorization.until = AuthorizationUntil(approval, Own(o).policy)
  BY <1>2 DEF AuthorizationFrom
<1> HIDE DEF decisions, authorization
<1>6. decisions[2] = "ok" /\ decisions[6] = "ok"
  BY <1>4, FirstFailurePasses
<1> QED
  BY <1>3, <1>4, <1>5, <1>6 DEF Check

\* Registration and activation.
LEMMA RegistrationHolds ==
    ASSUME ExtensionsInv, NEW o \in Operations,
           \/ \E candidate \in Candidates : RegisterExtension(o, candidate)
           \/ ConflictAnswered(o) \/ RegistrationAnswered(o)
    PROVE  ExtensionsInv'
<1>1. OperationInv(operations[o]) /\ \A entry \in registry : IsEntry(entry)
  BY DEF ExtensionsInv
<1>2. {"REGISTRY_UNAVAILABLE", "DUPLICATE_ID_VERSION"} \subseteq Verdicts
  BY DEF Verdicts
<1>3. ASSUME NEW candidate \in Candidates, RegisterExtension(o, candidate)
      PROVE  ExtensionsInv'
  <2>1. clock' = clock /\ registry' = registry
    BY <1>3 DEF RegisterExtension
  <2>2. CASE EndsWith(o, ValidateExtensionManifest(candidate))
    BY <2>1, <2>2, ManifestVerdict, OperationEnds
  <2>3. ASSUME NEW answer, Moves(o, [at |-> "conflict", entry |-> EntryFrom(candidate), answer |-> answer])
        PROVE  ExtensionsInv'
    <3> DEFINE local == [at |-> "conflict", entry |-> EntryFrom(candidate), answer |-> answer]
    <3>1. Registering(local, "conflict")
      BY CandidateIsEntry DEF Registering
    <3> HIDE DEF local
    <3>2. OperationInv(local)
      BY <3>1 DEF OperationInv
    <3>3. Moves(o, local)
      BY <2>3 DEF local
    <3> QED
      BY <1>1, <2>1, <3>2, <3>3, OperationMoves
  <2> QED
    BY <1>3, <2>2, <2>3 DEF RegisterExtension
<1>4. ASSUME ConflictAnswered(o)
      PROVE  ExtensionsInv'
  <2>1. clock' = clock /\ operations[o].at = "conflict"
    BY <1>4 DEF ConflictAnswered, StandsAt
  <2>2. IsEntry(operations[o].entry)
    BY <1>1, <2>1, StandsSo DEF Registering
  <2>3. ASSUME NEW answer, Moves(o, [at |-> "registering", entry |-> operations[o].entry, answer |-> answer]),
               registry' \in {registry, registry \cup {operations[o].entry}}
        PROVE  ExtensionsInv'
    <3> DEFINE local == [at |-> "registering", entry |-> operations[o].entry, answer |-> answer]
    <3>1. Registering(local, "registering")
      BY <2>2 DEF Registering
    <3> HIDE DEF local
    <3>2. OperationInv(local)
      BY <3>1 DEF OperationInv
    <3>3. Moves(o, local)
      BY <2>3 DEF local
    <3>4. \A entry \in registry' : IsEntry(entry)
      BY <1>1, <2>2, <2>3
    <3> QED
      BY <2>1, <3>2, <3>3, <3>4, OperationMoves
  <2>4. CASE /\ registry' = registry
             /\ \E code \in {"REGISTRY_UNAVAILABLE", "DUPLICATE_ID_VERSION"} : EndsWith(o, code)
    BY <1>2, <2>1, <2>4, OperationEnds
  <2>5. CASE operations[o].answer \in {"failed", "conflict"}
    BY <1>4, <2>4, <2>5 DEF ConflictAnswered, Own
  <2>6. CASE operations[o].answer \notin {"failed", "conflict"}
    BY <1>4, <2>3, <2>6 DEF ConflictAnswered, Own
  <2> QED
    BY <2>5, <2>6
<1>5. ASSUME RegistrationAnswered(o)
      PROVE  ExtensionsInv'
  <2>1. clock' = clock /\ registry' = registry /\ operations[o].at = "registering"
    BY <1>5 DEF RegistrationAnswered, StandsAt
  <2>2. IsEntry(operations[o].entry)
    BY <1>1, <2>1, StandsSo DEF Registering
  <2> DEFINE local == [at |-> "ended", code |-> "registered", entry |-> operations[o].entry]
  <2>3. EndsRegistered(local)
    BY <2>2 DEF EndsRegistered
  <2>4. EndsWith(o, "REGISTRY_UNAVAILABLE") \/ Moves(o, local)
    BY <1>5 DEF RegistrationAnswered, Own
  <2> HIDE DEF local
  <2>5. OperationInv(local)
    BY <2>3 DEF OperationInv
  <2> QED
    BY <1>1, <1>2, <2>1, <2>4, <2>5, OperationMoves, OperationEnds
<1> QED
  BY <1>3, <1>4, <1>5

\* Entries that operations hold are entries.
LEMMA HeldAreEntries == ExtensionsInv => \A entry \in HeldEntries : IsEntry(entry)
<1> SUFFICES ASSUME ExtensionsInv, NEW o \in Operations, operations[o].at = "ended", operations[o].code = "registered"
             PROVE  IsEntry(operations[o].entry)
  BY DEF HeldEntries, ExtensionsInv, StandsAt, Own
<1>1. OperationInv(operations[o])
  BY DEF ExtensionsInv
<1> QED
  BY <1>1, StandsSo DEF Refused, EndsRegistered, EndsActive, EndsAllowed, Successes

LEMMA ActivationHolds ==
    ASSUME ExtensionsInv, NEW o \in Operations,
           \/ \E entry \in HeldEntries : ActivateExtension(o, entry)
           \/ ActivationPolicyAnswered(o) \/ ApprovalAnswered(o) \/ UpdateAnswered(o)
    PROVE  ExtensionsInv'
<1>1. OperationInv(operations[o]) /\ \A entry \in registry : IsEntry(entry)
  BY DEF ExtensionsInv
<1>2. {"POLICY_UNAVAILABLE", "INVALID_OBSERVATION", "POLICY_MISMATCH", "REGISTRY_UNAVAILABLE",
       "RETURNED_ENTRY_MISMATCH"} \subseteq Verdicts
  BY DEF Verdicts
<1>3. ASSUME NEW entry \in HeldEntries, ActivateExtension(o, entry)
      PROVE  ExtensionsInv'
  <2>1. PICK answer : Moves(o, [at |-> "policy", entry |-> entry, started |-> clock, answer |-> answer, aborted |-> FALSE])
    BY <1>3 DEF ActivateExtension
  <2> DEFINE local == [at |-> "policy", entry |-> entry, started |-> clock, answer |-> answer, aborted |-> FALSE]
  <2>2. AwaitsPolicy(local)
    BY HeldAreEntries DEF AwaitsPolicy
  <2> HIDE DEF local
  <2>3. OperationInv(local)
    BY <2>2 DEF OperationInv
  <2>4. Moves(o, local) /\ clock' = clock /\ registry' = registry
    BY <1>3, <2>1 DEF ActivateExtension, local
  <2> QED
    BY <1>1, <2>3, <2>4, OperationMoves
<1>4. ASSUME ActivationPolicyAnswered(o)
      PROVE  ExtensionsInv'
  <2>1. clock' = clock /\ registry' = registry /\ operations[o].at = "policy"
    BY <1>4 DEF ActivationPolicyAnswered, StandsAt
  <2>2. IsEntry(operations[o].entry)
    BY <1>1, <2>1, StandsSo DEF AwaitsPolicy
  <2> DEFINE local(answer) ==
        [at |-> "approval", entry |-> operations[o].entry, started |-> operations[o].started,
         policy |-> operations[o].answer, answer |-> answer, aborted |-> operations[o].aborted]
  <2>3. \/ \E code \in {"POLICY_UNAVAILABLE", "INVALID_OBSERVATION", "POLICY_MISMATCH"} : EndsWith(o, code)
        \/ /\ operations[o].answer.policyVersion = operations[o].entry.policyVersion
           /\ \E answer : Moves(o, local(answer))
    BY <1>4 DEF ActivationPolicyAnswered, Own
  <2>4. ASSUME NEW answer, Moves(o, local(answer)),
               operations[o].answer.policyVersion = operations[o].entry.policyVersion
        PROVE  ExtensionsInv'
    <3>1. AwaitsApproval(local(answer))
      BY <2>2, <2>4 DEF AwaitsApproval
    <3> HIDE DEF local
    <3>2. OperationInv(local(answer))
      BY <3>1 DEF OperationInv
    <3> QED
      BY <1>1, <2>1, <2>4, <3>2, OperationMoves
  <2> QED
    BY <1>2, <2>1, <2>3, <2>4, OperationEnds
<1>5. ASSUME ApprovalAnswered(o)
      PROVE  ExtensionsInv'
  <2>1. clock' = clock /\ operations[o].at = "approval"
    BY <1>5 DEF ApprovalAnswered, StandsAt
  <2>2. AwaitsApproval(operations[o])
    BY <1>1, <2>1, StandsSo
  <2> DEFINE approval == operations[o].answer
             entry == operations[o].entry
             verdict == ActivationVerdict(o, approval, AuthorizationFrom(o, approval))
             found == {e \in EntryOf(EntryKey(entry)) : e.state = "pending"}
             actives == {[e EXCEPT !.state = "active"] : e \in found}
             local(answer) ==
               [at |-> "updating", entry |-> entry, policy |-> operations[o].policy, approval |-> approval,
                decided |-> clock, answer |-> answer]
  <2>3. \A e \in actives : IsEntry(e)
    <3>1. \A e \in found : IsEntry(e)
      BY <1>1 DEF EntryOf
    <3> HIDE DEF found
    <3> QED
      BY <3>1, EntryEdits
  <2>4. \A answer \in {Failed} \cup UNION {Answers(e) : e \in actives} : Given(answer) => IsEntry(answer)
    <3>1. ~Given(Failed)
      BY DEF Given, Failed
    <3> HIDE DEF actives
    <3> QED
      BY <2>3, <3>1, EntryEdits
  <2>5. UNION {Answers([e EXCEPT !.state = "active"]) : e \in found} = UNION {Answers(e) : e \in actives}
    <3> HIDE DEF found
    <3> QED
      OBVIOUS
  <2>6. CASE Fails(verdict)
    <3>1. EndsWith(o, verdict) /\ registry' = registry
      BY <1>5, <2>6 DEF ApprovalAnswered, Own
    <3>2. verdict \in Verdicts
      BY ActivationVerdicts
    <3> QED
      BY <2>1, <3>1, <3>2, OperationEnds
  <2>7. CASE ~Fails(verdict)
    <3>1. /\ registry' = (registry \ found) \cup actives
          /\ \E answer \in {Failed} \cup UNION {Answers([e EXCEPT !.state = "active"]) : e \in found} : Moves(o, local(answer))
      BY <1>5, <2>7 DEF ApprovalAnswered, Own
    <3>2. PICK answer \in {Failed} \cup UNION {Answers(e) : e \in actives} : Moves(o, local(answer))
      BY <2>5, <3>1
    <3>3. Given(answer) => IsEntry(answer)
      BY <2>4
    <3>4. \A e \in registry' : IsEntry(e)
      BY <1>1, <2>3, <3>1
    <3>5. /\ Matches(approval, Expected(entry))
          /\ IsFreshWindow(approval.from, AuthorizationUntil(approval, operations[o].policy), clock)
          /\ entry.manifest.enabled
      BY <2>2, <2>7, VerdictEarns DEF Own, Fails
    <3>6. IsEntry(entry) /\ operations[o].policy.policyVersion = entry.policyVersion
      BY <2>2 DEF AwaitsApproval
    <3> HIDE DEF approval, entry, verdict, found, actives
    <3>7. Earned(local(answer))
      BY <3>5, <3>6 DEF Earned
    <3>8. AwaitsUpdate(local(answer))
      BY <3>3, <3>7 DEF AwaitsUpdate
    <3> HIDE DEF local
    <3>9. OperationInv(local(answer))
      BY <3>8 DEF OperationInv
    <3> QED
      BY <2>1, <3>2, <3>4, <3>9, OperationMoves
  <2> QED
    BY <2>6, <2>7
<1>6. ASSUME UpdateAnswered(o)
      PROVE  ExtensionsInv'
  <2>1. clock' = clock /\ registry' = registry /\ operations[o].at = "updating"
    BY <1>6 DEF UpdateAnswered, StandsAt
  <2>2. AwaitsUpdate(operations[o])
    BY <1>1, <2>1, StandsSo
  <2> DEFINE own == operations[o]
             local == [at |-> "ended", code |-> "active", entry |-> own.entry, policy |-> own.policy,
                       approval |-> own.approval, decided |-> own.decided, registration |-> own.answer]
  <2>3. \/ \E code \in {"REGISTRY_UNAVAILABLE", "RETURNED_ENTRY_MISMATCH"} : EndsWith(o, code)
        \/ Given(own.answer) /\ VerifyReturnedEntry(own.entry, own.answer, "active") /\ Moves(o, local)
    BY <1>6 DEF UpdateAnswered, Own
  <2>4. CASE Given(own.answer) /\ VerifyReturnedEntry(own.entry, own.answer, "active") /\ Moves(o, local)
    <3>1. IsEntry(own.entry) /\ IsEntry(own.answer) /\ Earned(own)
      BY <2>2, <2>4 DEF AwaitsUpdate, Earned
    <3>2. own.answer = [own.entry EXCEPT !.state = "active", !.manifest.wording = own.answer.manifest.wording]
      BY <2>4, <3>1, ReturnedIsEntry
    <3>3. Earned(local)
      BY <3>1 DEF Earned
    <3> HIDE DEF own
    <3>4. EndsActive(local)
      BY <3>2, <3>3 DEF EndsActive
    <3> HIDE DEF local
    <3>5. OperationInv(local)
      BY <3>4 DEF OperationInv
    <3> QED
      BY <1>1, <2>1, <2>4, <3>5, OperationMoves
  <2> QED
    BY <1>2, <2>1, <2>3, <2>4, OperationEnds
<1> QED
  BY <1>3, <1>4, <1>5, <1>6

LEMMA UntrustedWins ==
    ASSUME NEW risks, NEW i \in DOMAIN risks, risks[i] = "untrusted-input"
    PROVE  ResolveEffectiveExtensionRisk(risks) = "untrusted-input"
<1> DEFINE found == {j \in DOMAIN RiskClasses : RiskClasses[j] \in ToSet(risks)}
<1>1. DOMAIN RiskClasses = 1 .. 4 /\ RiskClasses[4] = "untrusted-input"
  BY DEF RiskClasses
<1>2. "untrusted-input" \in ToSet(risks)
  BY DEF ToSet
<1>3. found \subseteq 1 .. 4 /\ 4 \in found
  BY <1>1, <1>2
<1> HIDE DEF found
<1>4. Max(found) = 4
  <2>1. \A x \in found : (\A y \in found : x >= y) <=> x = 4
    BY <1>3
  <2> QED
    BY <1>3, <2>1 DEF Max
<1> QED
  BY <1>1, <1>4 DEF ResolveEffectiveExtensionRisk, found

\* Whatever is untrusted in what was seen of the operation makes it untrusted.
LEMMA UntrustedIsSeen ==
    ASSUME NEW registration, NEW routing, NEW guard, NEW operation, NEW evidence, NEW given,
           evidence.risk = ClassifiedRisk(registration, routing, guard, operation),
           \/ "untrusted-input" \in {routing.trust, routing.floor, guard.floor, registration.risk,
                                     registration.manifest.riskClass, CategoryFloor(operation.category)}
           \/ operation.untrusted
    PROVE  EffectivePermissions(registration, evidence, given) \cap DangerousPermissions = {}
<1> DEFINE floors ==
      <<SourceFloor(routing.trust), routing.floor, CategoryFloor(operation.category),
        IF operation.external THEN "high" ELSE "low",
        IF operation.untrusted \/ routing.trust = "untrusted-input" THEN "untrusted-input" ELSE "low">>
           classified ==
      <<registration.manifest.riskClass, registration.risk, routing.floor, SourceFloor(routing.trust), guard.floor,
        OperationFloor(routing, operation)>>
           merged == <<registration.manifest.riskClass, registration.risk, evidence.risk, evidence.registeredRisk>>
<1>1. /\ DOMAIN floors = 1 .. 5 /\ floors[2] = routing.floor /\ floors[3] = CategoryFloor(operation.category)
      /\ floors[5] = IF operation.untrusted \/ routing.trust = "untrusted-input" THEN "untrusted-input" ELSE "low"
  OBVIOUS
<1>2. /\ DOMAIN classified = 1 .. 6 /\ classified[1] = registration.manifest.riskClass
      /\ classified[2] = registration.risk /\ classified[3] = routing.floor /\ classified[5] = guard.floor
      /\ classified[6] = OperationFloor(routing, operation)
  OBVIOUS
<1>3. DOMAIN merged = 1 .. 4 /\ merged[3] = evidence.risk
  OBVIOUS
<1>4. OperationFloor(routing, operation) = ResolveEffectiveExtensionRisk(floors)
  BY DEF OperationFloor
<1>5. ClassifiedRisk(registration, routing, guard, operation) = ResolveEffectiveExtensionRisk(classified)
  BY DEF ClassifiedRisk
<1>6. ResolveEffectiveExtensionRisk(merged) = "untrusted-input"
      => EffectivePermissions(registration, evidence, given) \cap DangerousPermissions = {}
  <2> DEFINE effective == registration.manifest.requestedPermissions \cap given.deployment \cap given.role
                            \cap given.security \cap given.risk
  <2>1. EffectivePermissions(registration, evidence, given)
        = IF ResolveEffectiveExtensionRisk(merged) = "untrusted-input" THEN effective \ DangerousPermissions
          ELSE effective
    BY DEF EffectivePermissions
  <2> HIDE DEF effective, merged
  <2> QED
    BY <2>1
<1> HIDE DEF floors, classified, merged
<1>7. CASE \/ routing.trust = "untrusted-input" \/ operation.untrusted
           \/ CategoryFloor(operation.category) = "untrusted-input"
  <2>1. \E i \in {3, 5} : floors[i] = "untrusted-input"
    BY <1>1, <1>7
  <2>2. OperationFloor(routing, operation) = "untrusted-input"
    BY <1>1, <1>4, <2>1, UntrustedWins
  <2>3. evidence.risk = "untrusted-input"
    BY <1>2, <1>5, <2>2, UntrustedWins
  <2> QED
    BY <1>3, <1>6, <2>3, UntrustedWins
<1>8. CASE "untrusted-input" \in {routing.floor, guard.floor, registration.risk, registration.manifest.riskClass}
  <2>1. \E i \in {1, 2, 3, 5} : classified[i] = "untrusted-input"
    BY <1>2, <1>8
  <2>2. evidence.risk = "untrusted-input"
    BY <1>2, <1>5, <2>1, UntrustedWins
  <2> QED
    BY <1>3, <1>6, <2>2, UntrustedWins
<1> QED
  BY <1>7, <1>8

LEMMA PermissionsStayWithin ==
    ASSUME NEW registration, NEW evidence, NEW given
    PROVE  EffectivePermissions(registration, evidence, given)
             \subseteq registration.manifest.requestedPermissions \cap given.deployment \cap given.role
                         \cap given.security \cap given.risk
<1> DEFINE risk == ResolveEffectiveExtensionRisk(
                     <<registration.manifest.riskClass, registration.risk, evidence.risk, evidence.registeredRisk>>)
<1> HIDE DEF risk
<1>1. EffectivePermissions(registration, evidence, given)
      = IF risk = "untrusted-input"
        THEN (registration.manifest.requestedPermissions \cap given.deployment \cap given.role
                \cap given.security \cap given.risk) \ DangerousPermissions
        ELSE registration.manifest.requestedPermissions \cap given.deployment \cap given.role
               \cap given.security \cap given.risk
  BY DEF EffectivePermissions, risk
<1> QED
  BY <1>1

\* What the classification and the decision have made sure of.
LEMMA ClassifiedMatches ==
    ASSUME NEW registration, NEW policy, NEW routing, NEW guard, NEW operation, NEW heard,
           ClassifyExtensionRuntimeRisk(registration, policy, routing, guard, operation, heard) = "ok"
    PROVE  policy.id = registration.id /\ policy.version = registration.version /\ ~guard.denied
<1> DEFINE checks ==
      <<Check(~heard, "INVALID_OPERATION_CONTEXT"),
        Check(policy.id = registration.id /\ policy.version = registration.version, "POLICY_MISMATCH"),
        Check(policy.policyVersion = registration.policyVersion, "POLICY_MISMATCH"),
        Check(routing.correlation = operation.correlation, "OPERATION_MISMATCH"),
        Check(guard.correlation = operation.correlation, "OPERATION_MISMATCH"),
        Check(~guard.denied, "SECURITY_DENIED")>>
<1>1. /\ FirstFailure(checks) = "ok" /\ DOMAIN checks \subseteq Nat /\ {2, 6} \subseteq DOMAIN checks
      /\ checks[2] = Check(policy.id = registration.id /\ policy.version = registration.version, "POLICY_MISMATCH")
      /\ checks[6] = Check(~guard.denied, "SECURITY_DENIED")
  BY DEF ClassifyExtensionRuntimeRisk
<1> HIDE DEF checks
<1>2. checks[2] = "ok" /\ checks[6] = "ok"
  BY <1>1, FirstFailurePasses
<1> QED
  BY <1>1, <1>2 DEF Check

LEMMA AcceptedMatches ==
    \A observation, expected, moment : Accepted(observation, expected, moment) => Matches(observation, expected)
  BY DEF Accepted

LEMMA PermissionsHold ==
    ASSUME ExtensionsInv, NEW o \in Operations,
           \/ \E registration \in Registrations, request \in OperationRequests : ResolvePermissions(o, registration, request)
           \/ GrantsAnswered(o) \/ RoutingAnswered(o) \/ GuardAnswered(o)
    PROVE  ExtensionsInv'
<1>1. OperationInv(operations[o]) /\ \A entry \in registry : IsEntry(entry)
  BY DEF ExtensionsInv
<1>2. {"POLICY_UNAVAILABLE", "INVALID_OBSERVATION", "ROUTING_UNAVAILABLE", "SECURITY_UNAVAILABLE"} \subseteq Verdicts
  BY DEF Verdicts
<1> DEFINE own == operations[o]
<1>3. ASSUME NEW registration, NEW request, ResolvePermissions(o, registration, request)
      PROVE  ExtensionsInv'
  <2>1. clock' = clock /\ registry' = registry
    BY <1>3 DEF ResolvePermissions
  <2> DEFINE local(answer) ==
        [at |-> "grants", registration |-> registration, request |-> request, started |-> clock,
         answer |-> answer, aborted |-> FALSE]
  <2>2. EndsWith(o, "INVALID_OBSERVATION") \/ \E answer : Moves(o, local(answer))
    BY <1>3 DEF ResolvePermissions
  <2>3. ASSUME NEW answer, Moves(o, local(answer))
        PROVE  ExtensionsInv'
    <3>1. AwaitsGrants(local(answer))
      BY DEF AwaitsGrants
    <3> HIDE DEF local
    <3>2. OperationInv(local(answer))
      BY <3>1 DEF OperationInv
    <3> QED
      BY <1>1, <2>1, <2>3, <3>2, OperationMoves
  <2> QED
    BY <1>2, <2>1, <2>2, <2>3, OperationEnds
<1>4. ASSUME GrantsAnswered(o)
      PROVE  ExtensionsInv'
  <2>1. clock' = clock /\ registry' = registry /\ own.at = "grants"
    BY <1>4 DEF GrantsAnswered, StandsAt
  <2>2. AwaitsGrants(own)
    BY <1>1, <2>1, StandsSo
  <2> DEFINE local(answer) ==
        [at |-> "routing", registration |-> own.registration, request |-> own.request, started |-> own.started,
         answer |-> answer, aborted |-> own.aborted, policy |-> own.answer]
  <2>3. \/ \E code \in {"POLICY_UNAVAILABLE", "INVALID_OBSERVATION"} : EndsWith(o, code)
        \/ /\ SealCurrentExtensionPolicySnapshot(own.answer, Identity(own.request), own.started)
           /\ \E answer : Moves(o, local(answer))
    BY <1>4 DEF GrantsAnswered, Own, AskedFor
  <2>4. ASSUME NEW answer, Moves(o, local(answer)),
               SealCurrentExtensionPolicySnapshot(own.answer, Identity(own.request), own.started)
        PROVE  ExtensionsInv'
    <3>1. Matches(own.answer, Identity(own.request))
      BY <2>4, AcceptedMatches DEF SealCurrentExtensionPolicySnapshot
    <3>2. AwaitsRouting(local(answer))
      BY <3>1 DEF AwaitsRouting
    <3> HIDE DEF local
    <3>3. OperationInv(local(answer))
      BY <3>2 DEF OperationInv
    <3> QED
      BY <1>1, <2>1, <2>4, <3>3, OperationMoves
  <2> QED
    BY <1>2, <2>1, <2>3, <2>4, OperationEnds
<1>5. ASSUME RoutingAnswered(o)
      PROVE  ExtensionsInv'
  <2>1. clock' = clock /\ registry' = registry /\ own.at = "routing"
    BY <1>5 DEF RoutingAnswered, StandsAt
  <2>2. AwaitsRouting(own)
    BY <1>1, <2>1, StandsSo
  <2> DEFINE local(answer) ==
        [at |-> "guard", registration |-> own.registration, request |-> own.request, started |-> own.started,
         answer |-> answer, aborted |-> own.aborted, policy |-> own.policy, routing |-> own.answer]
  <2>3. \/ \E code \in {"ROUTING_UNAVAILABLE", "INVALID_OBSERVATION"} : EndsWith(o, code)
        \/ /\ ParseRoutingObservation(own.answer, Expected(own.request), own.started)
           /\ \E answer : Moves(o, local(answer))
    BY <1>5 DEF RoutingAnswered, Own, AskedFor
  <2>4. ASSUME NEW answer, Moves(o, local(answer)),
               ParseRoutingObservation(own.answer, Expected(own.request), own.started)
        PROVE  ExtensionsInv'
    <3>1. Matches(own.answer, Expected(own.request)) /\ Matches(own.policy, Identity(own.request))
      BY <2>2, <2>4, AcceptedMatches DEF ParseRoutingObservation, AwaitsRouting
    <3>2. AwaitsGuard(local(answer))
      BY <3>1 DEF AwaitsGuard
    <3> HIDE DEF local
    <3>3. OperationInv(local(answer))
      BY <3>2 DEF OperationInv
    <3> QED
      BY <1>1, <2>1, <2>4, <3>3, OperationMoves
  <2> QED
    BY <1>2, <2>1, <2>3, <2>4, OperationEnds
<1>6. ASSUME GuardAnswered(o)
      PROVE  ExtensionsInv'
  <2>1. clock' = clock /\ registry' = registry /\ own.at = "guard"
    BY <1>6 DEF GuardAnswered, StandsAt
  <2>2. AwaitsGuard(own)
    BY <1>1, <2>1, StandsSo
  <2> DEFINE guard == own.answer
             classified == ClassifyExtensionRuntimeRisk(own.registration, own.policy, own.routing, guard,
                                                        own.request, own.aborted)
             decision == ResolveExtensionPermissions(own.registration, EvidenceOf(o, guard), own.request,
                                                     GrantsOf(o, guard), own.started)
             refused == [at |-> "ended", code |-> decision, evidence |-> EvidenceOf(o, guard)]
             permissions == EffectivePermissions(own.registration, EvidenceOf(o, guard), GrantsOf(o, guard))
             local == [at |-> "ended", code |-> "allowed", registration |-> own.registration, request |-> own.request,
                       policy |-> own.policy, routing |-> own.routing, guard |-> guard, started |-> own.started,
                       permissions |-> permissions]
  <2>3. \/ \E code \in {"SECURITY_UNAVAILABLE", "INVALID_OBSERVATION", classified} : EndsWith(o, code)
        \/ Fails(decision) /\ Moves(o, refused)
        \/ /\ ParseSecurityGuardObservation(guard, Expected(own.request), own.started) /\ ~Fails(classified)
           /\ Moves(o, local)
    BY <1>6 DEF GuardAnswered, Own, AskedFor
  <2>4. classified \in Verdicts /\ decision \in Verdicts
    BY PermissionVerdicts
  <2>5. ASSUME Fails(decision), Moves(o, refused)
        PROVE  ExtensionsInv'
    <3>1. decision \notin Successes
      BY <2>4, NoVerdictSucceeds
    <3> HIDE DEF decision
    <3>2. Refused(refused)
      BY <3>1 DEF Refused
    <3> HIDE DEF refused
    <3>3. OperationInv(refused)
      BY <3>2 DEF OperationInv
    <3> QED
      BY <1>1, <2>1, <2>5, <3>3, OperationMoves
  <2>6. ASSUME ParseSecurityGuardObservation(guard, Expected(own.request), own.started), ~Fails(classified),
               Moves(o, local)
        PROVE  ExtensionsInv'
    <3>1. /\ own.policy.id = own.registration.id /\ own.policy.version = own.registration.version
          /\ ~guard.denied
      BY <2>6, ClassifiedMatches DEF Fails
    <3>2. /\ Matches(guard, Expected(own.request)) /\ Matches(own.policy, Identity(own.request))
          /\ Matches(own.routing, Expected(own.request))
      BY <2>2, <2>6, AcceptedMatches DEF ParseSecurityGuardObservation, AwaitsGuard
    <3>3. own.request.id = own.registration.id /\ own.request.version = own.registration.version
      BY <3>1, <3>2 DEF Matches, Identity
    <3>4. /\ Matches(guard, Expected(own.registration)) /\ Matches(own.policy, Identity(own.registration))
          /\ Matches(own.routing, Expected(own.registration))
      BY <3>2, <3>3 DEF Expected, Identity
    <3>5. /\ GrantsOf(o, guard).deployment = own.policy.deployment /\ GrantsOf(o, guard).role = own.policy.role
          /\ GrantsOf(o, guard).risk = own.policy.risk
          /\ GrantsOf(o, guard).security = own.policy.security \cap guard.allowed
      BY <3>1 DEF GrantsOf, Own
    <3>6. /\ permissions \subseteq own.registration.manifest.requestedPermissions
          /\ permissions \subseteq own.policy.deployment \cap own.policy.role \cap own.policy.security
                                     \cap own.policy.risk \cap guard.allowed
      BY <3>5, PermissionsStayWithin
    <3>7. EvidenceOf(o, guard).risk = ClassifiedRisk(own.registration, own.routing, guard, own.request)
      BY DEF EvidenceOf, Own, AskedFor
    <3>8. \/ "untrusted-input" \in {own.routing.trust, own.routing.floor, guard.floor, own.registration.risk,
                                     own.registration.manifest.riskClass, CategoryFloor(own.request.category)}
          \/ own.request.untrusted
          => permissions \cap DangerousPermissions = {}
      BY <3>7, UntrustedIsSeen
    <3> HIDE DEF own, guard, permissions
    <3>9. Backed(local)
      BY <3>1, <3>4, <3>6, <3>8 DEF Backed
    <3>10. EndsAllowed(local)
      BY <3>9 DEF EndsAllowed
    <3> HIDE DEF local
    <3>11. OperationInv(local)
      BY <3>10 DEF OperationInv
    <3> QED
      BY <1>1, <2>1, <2>6, <3>11, OperationMoves
  <2> QED
    BY <1>2, <2>1, <2>3, <2>4, <2>5, <2>6, OperationEnds
<1> QED
  BY <1>3, <1>4, <1>5, <1>6

\* The caller's signal changes nothing else.
LEMMA AbortKeeps ==
    ASSUME NEW own, OperationInv(own), "aborted" \in DOMAIN own, NEW signal
    PROVE  OperationInv([own EXCEPT !.aborted = signal])
<1> DEFINE local == [own EXCEPT !.aborted = signal]
<1>1. own.at \in {"policy", "approval", "grants", "routing", "guard"}
  BY StandsSo
<1>2. CASE own.at = "policy"
  <2> DEFINE shape(entry, started, answer, heard) ==
        [at |-> "policy", entry |-> entry, started |-> started, answer |-> answer, aborted |-> heard]
  <2>1. AwaitsPolicy(own)
    BY <1>2, StandsSo
  <2>2. \A entry, started, answer, heard :
          [shape(entry, started, answer, heard) EXCEPT !.aborted = signal] = shape(entry, started, answer, signal)
    OBVIOUS
  <2>3. own = shape(own.entry, own.started, own.answer, own.aborted)
    BY <2>1 DEF AwaitsPolicy
  <2>4. AwaitsPolicy(shape(own.entry, own.started, own.answer, signal))
    BY <2>1 DEF AwaitsPolicy
  <2> HIDE DEF shape
  <2>5. local = shape(own.entry, own.started, own.answer, signal)
    BY <2>2, <2>3
  <2> QED
    BY <2>4, <2>5 DEF OperationInv
<1>3. CASE own.at = "approval"
  <2> DEFINE shape(entry, started, policy, answer, heard) ==
        [at |-> "approval", entry |-> entry, started |-> started, policy |-> policy, answer |-> answer,
         aborted |-> heard]
  <2>1. AwaitsApproval(own)
    BY <1>3, StandsSo
  <2>2. \A entry, started, policy, answer, heard :
          [shape(entry, started, policy, answer, heard) EXCEPT !.aborted = signal]
          = shape(entry, started, policy, answer, signal)
    OBVIOUS
  <2>3. own = shape(own.entry, own.started, own.policy, own.answer, own.aborted)
    BY <2>1 DEF AwaitsApproval
  <2>4. AwaitsApproval(shape(own.entry, own.started, own.policy, own.answer, signal))
    BY <2>1 DEF AwaitsApproval
  <2> HIDE DEF shape
  <2>5. local = shape(own.entry, own.started, own.policy, own.answer, signal)
    BY <2>2, <2>3
  <2> QED
    BY <2>4, <2>5 DEF OperationInv
<1>4. CASE own.at = "grants"
  <2> DEFINE shape(registration, request, started, answer, heard) ==
        [at |-> "grants", registration |-> registration, request |-> request, started |-> started,
         answer |-> answer, aborted |-> heard]
  <2>1. AwaitsGrants(own)
    BY <1>4, StandsSo
  <2>2. \A registration, request, started, answer, heard :
          [shape(registration, request, started, answer, heard) EXCEPT !.aborted = signal]
          = shape(registration, request, started, answer, signal)
    OBVIOUS
  <2>3. own = shape(own.registration, own.request, own.started, own.answer, own.aborted)
    BY <2>1 DEF AwaitsGrants
  <2>4. AwaitsGrants(shape(own.registration, own.request, own.started, own.answer, signal))
    BY <2>1 DEF AwaitsGrants
  <2> HIDE DEF shape
  <2>5. local = shape(own.registration, own.request, own.started, own.answer, signal)
    BY <2>2, <2>3
  <2> QED
    BY <2>4, <2>5 DEF OperationInv
<1>5. CASE own.at = "routing"
  <2> DEFINE shape(registration, request, started, answer, policy, heard) ==
        [at |-> "routing", registration |-> registration, request |-> request, started |-> started,
         answer |-> answer, policy |-> policy, aborted |-> heard]
  <2>1. AwaitsRouting(own)
    BY <1>5, StandsSo
  <2>2. \A registration, request, started, answer, policy, heard :
          [shape(registration, request, started, answer, policy, heard) EXCEPT !.aborted = signal]
          = shape(registration, request, started, answer, policy, signal)
    OBVIOUS
  <2>3. own = shape(own.registration, own.request, own.started, own.answer, own.policy, own.aborted)
    BY <2>1 DEF AwaitsRouting
  <2>4. AwaitsRouting(shape(own.registration, own.request, own.started, own.answer, own.policy, signal))
    BY <2>1 DEF AwaitsRouting
  <2> HIDE DEF shape
  <2>5. local = shape(own.registration, own.request, own.started, own.answer, own.policy, signal)
    BY <2>2, <2>3
  <2> QED
    BY <2>4, <2>5 DEF OperationInv
<1>6. CASE own.at = "guard"
  <2> DEFINE shape(registration, request, started, answer, policy, routing, heard) ==
        [at |-> "guard", registration |-> registration, request |-> request, started |-> started,
         answer |-> answer, policy |-> policy, routing |-> routing, aborted |-> heard]
  <2>1. AwaitsGuard(own)
    BY <1>6, StandsSo
  <2>2. \A registration, request, started, answer, policy, routing, heard :
          [shape(registration, request, started, answer, policy, routing, heard) EXCEPT !.aborted = signal]
          = shape(registration, request, started, answer, policy, routing, signal)
    OBVIOUS
  <2>3. own = shape(own.registration, own.request, own.started, own.answer, own.policy, own.routing, own.aborted)
    BY <2>1 DEF AwaitsGuard
  <2>4. AwaitsGuard(shape(own.registration, own.request, own.started, own.answer, own.policy, own.routing, signal))
    BY <2>1 DEF AwaitsGuard
  <2> HIDE DEF shape
  <2>5. local = shape(own.registration, own.request, own.started, own.answer, own.policy, own.routing, signal)
    BY <2>2, <2>3
  <2> QED
    BY <2>4, <2>5 DEF OperationInv
<1> QED
  BY <1>1, <1>2, <1>3, <1>4, <1>5, <1>6

LEMMA TheRestHolds ==
    ASSUME ExtensionsInv, ExtensionsNext \/ UNCHANGED extensionVars,
           ~\E o \in Operations :
              \/ \E candidate \in Candidates : RegisterExtension(o, candidate)
              \/ ConflictAnswered(o) \/ RegistrationAnswered(o)
              \/ \E entry \in HeldEntries : ActivateExtension(o, entry)
              \/ ActivationPolicyAnswered(o) \/ ApprovalAnswered(o) \/ UpdateAnswered(o)
              \/ \E registration \in Registrations, request \in OperationRequests :
                   ResolvePermissions(o, registration, request)
              \/ GrantsAnswered(o) \/ RoutingAnswered(o) \/ GuardAnswered(o)
    PROVE  ExtensionsInv'
<1>1. CASE UNCHANGED extensionVars
  BY <1>1 DEF ExtensionsInv, extensionVars
<1>2. CASE ClockTicks
  BY <1>2 DEF ExtensionsInv, ClockTicks
<1>3. ASSUME NEW entry \in registry, NEW state \in ActivationTransitions[entry.state], WithdrawEntry(entry, state)
      PROVE  ExtensionsInv'
  <2>1. clock' = clock /\ operations' = operations
        /\ registry' = (registry \ {entry}) \cup {[entry EXCEPT !.state = state]}
    BY <1>3 DEF WithdrawEntry
  <2>2. IsEntry([entry EXCEPT !.state = state])
    BY EntryEdits DEF ExtensionsInv
  <2> QED
    BY <2>1, <2>2 DEF ExtensionsInv
<1>4. ASSUME NEW o \in Operations, AbortOperation(o)
      PROVE  ExtensionsInv'
  <2> DEFINE own == operations[o]
             local == [own EXCEPT !.aborted = TRUE]
  <2>1. "aborted" \in DOMAIN own /\ Moves(o, local) /\ clock' = clock /\ registry' = registry
    BY <1>4 DEF AbortOperation, Own
  <2>2. \A entry \in registry : IsEntry(entry)
    BY DEF ExtensionsInv
  <2>3. OperationInv(own)
    BY DEF ExtensionsInv
  <2> HIDE DEF own
  <2>4. OperationInv(local)
    BY <2>1, <2>3, AbortKeeps
  <2> HIDE DEF local
  <2> QED
    BY <2>1, <2>2, <2>4, OperationMoves
<1> QED
  BY <1>1, <1>2, <1>3, <1>4 DEF ExtensionsNext

LEMMA ExtensionsInvHolds == ExtensionsSpec => []ExtensionsInv
<1>1. ExtensionsInit => ExtensionsInv
  BY EntriesAssumption DEF ExtensionsInit, ExtensionsInv, OperationInv
<1>2. ExtensionsInv /\ [ExtensionsNext]_extensionVars => ExtensionsInv'
  <2> SUFFICES ASSUME ExtensionsInv, ExtensionsNext \/ UNCHANGED extensionVars
               PROVE  ExtensionsInv'
    OBVIOUS
  <2> QED
    BY RegistrationHolds, ActivationHolds, PermissionsHold, TheRestHolds
<1> QED
  BY <1>1, <1>2, PTL DEF ExtensionsSpec

(***************************************************************************)
(* Whatever the clock does during the waits and whatever the registry      *)
(* answers, an active registration was decided under an approval in force  *)
(* for it, and speaks of the entry that was presented                      *)
(* (executeExtensionActivation).                                           *)
(***************************************************************************)
THEOREM ActivationsAreEarned == ExtensionsSpec => []ActiveEvidenceIsEarned
<1>1. ExtensionsInv => ActiveEvidenceIsEarned
  <2> SUFFICES ASSUME ExtensionsInv, NEW o \in Operations, operations[o].at = "ended", operations[o].code = "active"
               PROVE  EndsActive(operations[o])
    BY DEF ActiveEvidenceIsEarned, StandsAt, Own, EndsActive, Earned, AuthorizationUntil
  <2>1. OperationInv(operations[o])
    BY DEF ExtensionsInv
  <2> QED
    BY <2>1, StandsSo DEF Refused, EndsRegistered, EndsAllowed, Successes
<1> QED
  BY <1>1, ExtensionsInvHolds, PTL

(***************************************************************************)
(* Permissions are granted only within what the manifest asks for and every *)
(* policy allows for this very operation, and nothing dangerous where       *)
(* anything seen of it is untrusted (resolveExtensionPermissions).          *)
(***************************************************************************)
THEOREM PermissionsAreBacked == ExtensionsSpec => []GrantsAreBacked
<1>1. ExtensionsInv => GrantsAreBacked
  <2> SUFFICES ASSUME ExtensionsInv, NEW o \in Operations, operations[o].at = "ended", operations[o].code = "allowed"
               PROVE  Backed(operations[o])
    BY DEF GrantsAreBacked, StandsAt, Own, Backed
  <2>1. OperationInv(operations[o])
    BY DEF ExtensionsInv
  <2> QED
    BY <2>1, StandsSo DEF Refused, EndsRegistered, EndsActive, EndsAllowed, Successes
<1> QED
  BY <1>1, ExtensionsInvHolds, PTL

-----------------------------------------------------------------------------
(* Infrastructure: the inventories hold together, and no drift means agreement. *)

ServiceShape(record) ==
    /\ record = [server |-> record.server, environment |-> record.environment, dependencies |-> record.dependencies,
                 ports |-> record.ports, fields |-> record.fields]
    /\ record.server \in ServerIds /\ record.environment \in EnvironmentIds
    /\ record.dependencies \in Seq(ServiceIds)

FleetShape ==
    /\ environments = [e \in EnvironmentIds |-> environments[e]]
    /\ servers = [s \in ServerIds |-> servers[s]]
    /\ services = [v \in ServiceIds |-> services[v]]
    /\ \A e \in Registered(environments) : DOMAIN environments[e] = DOMAIN EnvironmentFields
    /\ \A s \in Registered(servers) :
         /\ servers[s] = [environment |-> servers[s].environment, fields |-> servers[s].fields]
         /\ servers[s].environment \in EnvironmentIds
    /\ \A v \in Registered(services) : ServiceShape(services[v])

\* A report still says what was compared.
ReportStands ==
    driftReport # NoReport =>
      driftReport.kinds = CompareDrift(servers[driftReport.server], services[driftReport.service], driftReport.evidence)

FleetInv == FleetShape /\ FleetHoldsTogether /\ ReportStands

LEMMA RecordsAreRecords ==
    /\ \A fields : DOMAIN fields = DOMAIN EnvironmentFields => fields # NoRecord
    /\ \A e, fields : [environment |-> e, fields |-> fields] # NoRecord
    /\ \A record : ServiceShape(record) => record # NoRecord
<1>1. DOMAIN NoRecord = {"record"}
  BY DEF NoRecord
<1>2. "environmentId" \in DOMAIN EnvironmentFields
  BY DEF EnvironmentFields
<1>3. \A e, fields : DOMAIN [environment |-> e, fields |-> fields] = {"environment", "fields"}
  OBVIOUS
<1>4. \A record : ServiceShape(record) => "server" \in DOMAIN record
  BY DEF ServiceShape
<1> QED
  BY <1>1, <1>2, <1>3, <1>4

\* What a validation that passes has seen.
LEMMA ServerIsValid ==
    ASSUME NEW e \in EnvironmentIds, NEW fields
    PROVE  ValidateServer(e, fields) = "ok"
             <=> environments[e] # NoRecord /\ ParseFields(ServerFields, fields) = "ok"
<1> DEFINE checks == <<Check(environments[e] # NoRecord, "environment-not-found"), ParseFields(ServerFields, fields)>>
<1>1. /\ DOMAIN checks = 1 .. 2 /\ checks[1] = Check(environments[e] # NoRecord, "environment-not-found")
      /\ checks[2] = ParseFields(ServerFields, fields) /\ ValidateServer(e, fields) = FirstFailure(checks)
  BY DEF ValidateServer
<1> HIDE DEF checks
<1>2. FirstFailure(checks) = "ok" <=> checks[1] = "ok" /\ checks[2] = "ok"
  BY <1>1, FirstFailurePasses DEF FirstFailure
<1> QED
  BY <1>1, <1>2 DEF Check

LEMMA ServiceIsValid ==
    ASSUME NEW v, NEW record, ValidateService(v, record) = "ok"
    PROVE  /\ servers[record.server] # NoRecord /\ servers[record.server].environment = record.environment
           /\ ParseService(v, record.ports, record.dependencies, record.fields) = "ok"
           /\ \A i \in DOMAIN record.dependencies :
                services[record.dependencies[i]] # NoRecord /\ record.dependencies[i] # v
<1> DEFINE parse == ParseService(v, record.ports, record.dependencies, record.fields)
           checks ==
             <<Check(servers[record.server] # NoRecord, "server-not-found"),
               Check(servers[record.server] # NoRecord
                       => servers[record.server].environment = record.environment, "environment-mismatch"),
               parse,
               Check(\A i \in DOMAIN record.dependencies : services[record.dependencies[i]] # NoRecord,
                     "service-not-found")>>
<1> HIDE DEF parse
<1>1. /\ DOMAIN checks \subseteq Nat /\ {1, 2, 3, 4} \subseteq DOMAIN checks /\ FirstFailure(checks) = "ok"
      /\ checks[1] = Check(servers[record.server] # NoRecord, "server-not-found")
      /\ checks[2] = Check(servers[record.server] # NoRecord
                             => servers[record.server].environment = record.environment, "environment-mismatch")
      /\ checks[3] = parse
      /\ checks[4] = Check(\A i \in DOMAIN record.dependencies : services[record.dependencies[i]] # NoRecord,
                           "service-not-found")
  BY DEF ValidateService, parse
<1> HIDE DEF checks
<1>2. checks[1] = "ok" /\ checks[2] = "ok" /\ checks[3] = "ok" /\ checks[4] = "ok"
  BY <1>1, FirstFailurePasses
<1>3. /\ servers[record.server] # NoRecord /\ servers[record.server].environment = record.environment
      /\ parse = "ok" /\ \A i \in DOMAIN record.dependencies : services[record.dependencies[i]] # NoRecord
  BY <1>1, <1>2 DEF Check
<1> DEFINE parts ==
      <<ParseFields(ServiceFields, record.fields), ParsePorts(record.ports),
        Check(Len(record.dependencies) <= MaxServiceDependencies, "invalid-input"),
        Check(\A i \in DOMAIN record.dependencies : record.dependencies[i] # v, "self-dependency"),
        ParseFields(ServiceStanding, record.fields)>>
<1>4. /\ DOMAIN parts \subseteq Nat /\ 4 \in DOMAIN parts /\ FirstFailure(parts) = "ok"
      /\ parts[4] = Check(\A i \in DOMAIN record.dependencies : record.dependencies[i] # v, "self-dependency")
  BY <1>3 DEF parse, ParseService
<1> HIDE DEF parts
<1>5. parts[4] = "ok"
  BY <1>4, FirstFailurePasses
<1>6. \A i \in DOMAIN record.dependencies : record.dependencies[i] # v
  BY <1>4, <1>5 DEF Check
<1> QED
  BY <1>3, <1>6 DEF parse

\* Nothing is ever removed, and what does not touch a map leaves it as it was.
LEMMA FleetGrows ==
    ASSUME FleetInv, FleetShape', driftReport' = driftReport \/ ReportStands',
           driftReport' = driftReport => driftReport = NoReport \/ UNCHANGED <<servers, services>>,
           Registered(environments) \subseteq Registered(environments)',
           \A e \in Registered(environments)' : ParseFields(EnvironmentFields, environments'[e]) = "ok",
           Registered(servers) \subseteq Registered(servers)',
           \A s \in Registered(servers)' :
              \/ servers'[s] = servers[s] /\ s \in Registered(servers)
              \/ /\ environments[servers'[s].environment] # NoRecord
                 /\ ParseFields(ServerFields, servers'[s].fields) = "ok",
           Registered(services) \subseteq Registered(services)',
           \A v \in Registered(services)' :
              \/ services'[v] = services[v] /\ v \in Registered(services)
              \/ ValidateService(v, services'[v]) = "ok"
    PROVE  FleetInv'
<1>1. \A s \in Registered(servers)' : ValidateServer(servers[s].environment, servers[s].fields)' = "ok"
  <2> SUFFICES ASSUME NEW s \in Registered(servers)'
               PROVE  ValidateServer(servers[s].environment, servers[s].fields)' = "ok"
    OBVIOUS
  <2>1. servers'[s].environment \in EnvironmentIds
    BY DEF FleetShape
  <2>2. environments[servers'[s].environment] # NoRecord /\ ParseFields(ServerFields, servers'[s].fields) = "ok"
    BY <2>1, ServerIsValid DEF FleetInv, FleetHoldsTogether
  <2>3. environments'[servers'[s].environment] # NoRecord
    BY <2>1, <2>2 DEF Registered, FleetInv, FleetShape
  <2> DEFINE checks == <<Check(environments'[servers'[s].environment] # NoRecord, "environment-not-found"),
                         ParseFields(ServerFields, servers'[s].fields)>>
  <2>4. FirstFailure(checks) = "ok"
    BY <2>2, <2>3 DEF FirstFailure, Check
  <2> QED
    BY <2>4 DEF ValidateServer
<1>2. ASSUME NEW v \in Registered(services)'
      PROVE  /\ servers'[services'[v].server] # NoRecord
             /\ ParseService(v, services'[v].ports, services'[v].dependencies, services'[v].fields) = "ok"
             /\ ToSet(services'[v].dependencies) \subseteq Registered(services)' \ {v}
  <2> DEFINE record == services'[v]
  <2>1. record.server \in ServerIds /\ record.dependencies \in Seq(ServiceIds)
    BY <1>2 DEF FleetShape, ServiceShape
  <2>2. /\ servers[record.server] # NoRecord
        /\ ParseService(v, record.ports, record.dependencies, record.fields) = "ok"
        /\ ToSet(record.dependencies) \subseteq Registered(services) \ {v}
    <3>1. CASE record = services[v] /\ v \in Registered(services)
      BY <3>1 DEF FleetInv, FleetHoldsTogether
    <3>2. CASE ValidateService(v, record) = "ok"
      <4>1. /\ servers[record.server] # NoRecord
            /\ ParseService(v, record.ports, record.dependencies, record.fields) = "ok"
            /\ \A i \in DOMAIN record.dependencies :
                 services[record.dependencies[i]] # NoRecord /\ record.dependencies[i] # v
        BY <3>2, ServiceIsValid
      <4> HIDE DEF record
      <4>2. DOMAIN services = ServiceIds
        BY DEF FleetInv, FleetShape
      <4>3. ToSet(record.dependencies) \subseteq Registered(services) \ {v}
        BY <2>1, <4>1, <4>2 DEF ToSet, Registered
      <4> QED
        BY <4>1, <4>3
    <3> QED
      BY <1>2, <3>1, <3>2
  <2>3. record.server \in Registered(servers)
    BY <2>1, <2>2 DEF Registered, FleetInv, FleetShape
  <2>4. servers'[record.server] # NoRecord
    BY <2>3 DEF Registered
  <2> QED
    BY <2>2, <2>4
<1>3. FleetHoldsTogether'
  BY <1>1, <1>2 DEF FleetHoldsTogether
<1>4. ReportStands'
  BY DEF FleetInv, ReportStands
<1> QED
  BY <1>3, <1>4 DEF FleetInv

LEMMA ServicePut ==
    ASSUME FleetInv, NEW v \in ServiceIds, NEW record, ServiceShape(record), PutService(v, record),
           driftReport = NoReport, driftReport' = driftReport
    PROVE  /\ FleetInv'
           /\ \/ services' = services
              \/ /\ services' = [services EXCEPT ![v] = record] /\ ValidateService(v, record) = "ok"
                 /\ record # NoRecord
<1>1. environments' = environments /\ servers' = servers
  BY DEF PutService
<1>2. record # NoRecord
  BY RecordsAreRecords
<1>3. CASE services' = services
  <2>1. FleetShape'
    BY <1>1, <1>3 DEF FleetInv, FleetShape, Registered
  <2> QED
    BY <1>1, <1>3, <2>1, FleetGrows DEF FleetInv, FleetHoldsTogether, Registered
<1>4. CASE services' = [services EXCEPT ![v] = record] /\ ValidateService(v, record) = "ok"
  <2>1. services' = [u \in ServiceIds |-> IF u = v THEN record ELSE services[u]]
    BY <1>4 DEF FleetInv, FleetShape
  <2>2. \A u \in Registered(services)' : \/ u = v /\ services'[u] = record
                                         \/ services'[u] = services[u] /\ u \in Registered(services)
    BY <2>1 DEF Registered, FleetInv, FleetShape
  <2>3. FleetShape'
    <3>1. \A u \in Registered(services)' : ServiceShape(services'[u])
      BY <2>2 DEF FleetInv, FleetShape
    <3>2. services' = [u \in ServiceIds |-> services'[u]]
      BY <2>1
    <3>3. Registered(servers)' = Registered(servers) /\ Registered(environments)' = Registered(environments)
      BY <1>1 DEF Registered
    <3>4. \A u \in Registered(services)' : ServiceShape(services[u])'
      BY <3>1 DEF ServiceShape
    <3> QED
      BY <1>1, <3>2, <3>3, <3>4 DEF FleetInv, FleetShape
  <2>4. Registered(services) \subseteq Registered(services)'
    BY <1>2, <2>1 DEF Registered, FleetInv, FleetShape
  <2>5. Registered(servers)' = Registered(servers) /\ Registered(environments)' = Registered(environments)
    BY <1>1 DEF Registered
  <2>6. \A u \in Registered(services)' :
           \/ services'[u] = services[u] /\ u \in Registered(services)
           \/ ValidateService(u, services'[u]) = "ok"
    BY <1>4, <2>2
  <2>7. FleetInv'
    BY <1>1, <2>3, <2>4, <2>5, <2>6, FleetGrows DEF FleetInv, FleetHoldsTogether
  <2> QED
    BY <1>2, <1>4, <2>7
<1> QED
  BY <1>3, <1>4 DEF PutService

LEMMA EnvironmentPut ==
    ASSUME FleetInv, NEW e \in EnvironmentIds, NEW fields, DOMAIN fields = DOMAIN EnvironmentFields,
           PutEnvironment(e, fields), driftReport = NoReport, driftReport' = driftReport
    PROVE  FleetInv'
<1>1. servers' = servers /\ services' = services
  BY DEF PutEnvironment
<1>2. Registered(servers)' = Registered(servers) /\ Registered(services)' = Registered(services)
  BY <1>1 DEF Registered
<1>3. \/ environments' = environments
      \/ /\ environments' = [d \in EnvironmentIds |-> IF d = e THEN fields ELSE environments[d]]
         /\ ParseFields(EnvironmentFields, fields) = "ok"
  BY DEF PutEnvironment, FleetInv, FleetShape
<1>4. fields # NoRecord
  BY RecordsAreRecords
<1>5. /\ environments' = [d \in EnvironmentIds |-> environments'[d]]
      /\ Registered(environments) \subseteq Registered(environments)'
      /\ \A d \in Registered(environments)' : DOMAIN environments'[d] = DOMAIN EnvironmentFields
      /\ \A d \in Registered(environments)' : ParseFields(EnvironmentFields, environments'[d]) = "ok"
  BY <1>3, <1>4 DEF FleetInv, FleetShape, FleetHoldsTogether, Registered
<1>6. FleetShape'
  BY <1>1, <1>2, <1>5 DEF FleetInv, FleetShape, ServiceShape
<1> QED
  BY <1>1, <1>2, <1>5, <1>6, FleetGrows

LEMMA ServerPut ==
    ASSUME FleetInv, NEW s \in ServerIds, NEW e \in EnvironmentIds, NEW fields, PutServer(s, e, fields),
           driftReport = NoReport, driftReport' = driftReport
    PROVE  FleetInv'
<1>1. environments' = environments /\ services' = services
  BY DEF PutServer
<1>2. Registered(environments)' = Registered(environments) /\ Registered(services)' = Registered(services)
  BY <1>1 DEF Registered
<1> DEFINE record == [environment |-> e, fields |-> fields]
<1>3. \/ servers' = servers
      \/ /\ servers' = [t \in ServerIds |-> IF t = s THEN record ELSE servers[t]]
         /\ ValidateServer(e, fields) = "ok"
  BY DEF PutServer, FleetInv, FleetShape
<1>4. record # NoRecord /\ record.environment = e /\ record.fields = fields
  BY RecordsAreRecords
<1>5. ValidateServer(e, fields) = "ok" => environments[e] # NoRecord /\ ParseFields(ServerFields, fields) = "ok"
  BY ServerIsValid
<1>6. record = [environment |-> record.environment, fields |-> record.fields]
  OBVIOUS
<1> HIDE DEF record
<1>7. /\ servers' = [t \in ServerIds |-> servers'[t]]
      /\ Registered(servers) \subseteq Registered(servers)'
      /\ \A t \in Registered(servers)' : \/ servers'[t] = servers[t] /\ t \in Registered(servers)
                                         \/ servers'[t] = record /\ ValidateServer(e, fields) = "ok"
  BY <1>3, <1>4 DEF FleetInv, FleetShape, Registered
<1>8. \A t \in Registered(servers)' :
        /\ servers'[t] = [environment |-> servers'[t].environment, fields |-> servers'[t].fields]
        /\ servers'[t].environment \in EnvironmentIds
  BY <1>4, <1>6, <1>7 DEF FleetInv, FleetShape
<1>9. FleetShape'
  BY <1>1, <1>2, <1>7, <1>8 DEF FleetInv, FleetShape, ServiceShape
<1>10. \A t \in Registered(servers)' :
          \/ servers'[t] = servers[t] /\ t \in Registered(servers)
          \/ /\ environments[servers'[t].environment] # NoRecord
             /\ ParseFields(ServerFields, servers'[t].fields) = "ok"
  BY <1>4, <1>5, <1>7
<1> QED
  BY <1>1, <1>2, <1>7, <1>9, <1>10, FleetGrows DEF FleetInv, FleetHoldsTogether

\* Whatever is put of a service has its shape.
LEMMA ServicesArePut ==
    ASSUME FleetInv,
           \/ \E v \in ServiceIds, s \in ServerIds, e \in EnvironmentIds, d \in Dependencies :
                \/ \E fields \in ServiceInputs, ports \in PortLists :
                     RegisterService(v, [server |-> s, environment |-> e, dependencies |-> d,
                                         ports |-> ports, fields |-> fields])
                \/ \E update \in FieldUpdates : UpdateService(v, s, e, d, update)
           \/ \E v, d \in ServiceIds : AddDependency(v, d)
    PROVE  \E v \in ServiceIds : \E record : ServiceShape(record) /\ PutService(v, record)
<1>1. \A d \in Dependencies : d \in Seq(ServiceIds)
  BY DEF Dependencies
<1>2. ASSUME NEW v \in ServiceIds, NEW s \in ServerIds, NEW e \in EnvironmentIds, NEW d \in Dependencies,
             NEW ports, NEW fields,
             PutService(v, [server |-> s, environment |-> e, dependencies |-> d, ports |-> ports, fields |-> fields])
      PROVE  \E u \in ServiceIds : \E record : ServiceShape(record) /\ PutService(u, record)
  <2> DEFINE record == [server |-> s, environment |-> e, dependencies |-> d, ports |-> ports, fields |-> fields]
  <2>1. ServiceShape(record)
    BY <1>1 DEF ServiceShape
  <2> HIDE DEF record
  <2>2. PutService(v, record)
    BY <1>2 DEF record
  <2> QED
    BY <2>1, <2>2
<1>3. ASSUME NEW v \in ServiceIds, NEW d \in ServiceIds, AddDependency(v, d)
      PROVE  \E u \in ServiceIds : \E record : ServiceShape(record) /\ PutService(u, record)
  <2> DEFINE old == services[v]
             longer == Append(old.dependencies, d)
             record == [server |-> old.server, environment |-> old.environment, dependencies |-> longer,
                        ports |-> old.ports, fields |-> old.fields]
  <2>1. ServiceShape(old)
    BY <1>3 DEF AddDependency, FleetInv, FleetShape, Registered
  <2>2. longer \in Seq(ServiceIds)
    BY <2>1 DEF ServiceShape
  <2>3. PutService(v, [old EXCEPT !.dependencies = longer])
    BY <1>3 DEF AddDependency
  <2> HIDE DEF longer
  <2>4. [old EXCEPT !.dependencies = longer] = record
    BY <2>1 DEF ServiceShape
  <2>5. ServiceShape(record)
    BY <2>1, <2>2 DEF ServiceShape
  <2> HIDE DEF old, record
  <2> QED
    BY <2>3, <2>4, <2>5
<1> QED
  BY <1>2, <1>3 DEF RegisterService, UpdateService

\* What is declared keeps its shape while nothing declared changes.
LEMMA DeclaredStays ==
    ASSUME FleetInv, UNCHANGED <<environments, servers, services>>
    PROVE  FleetShape' /\ FleetHoldsTogether'
<1>1. FleetShape'
  BY DEF FleetInv, FleetShape, Registered, ServiceShape
<1>2. FleetHoldsTogether'
  BY DEF FleetInv, FleetHoldsTogether, Registered, ValidateServer
<1> QED
  BY <1>1, <1>2

LEMMA FleetStep ==
    ASSUME FleetInv, FleetNext \/ UNCHANGED fleetVars
    PROVE  FleetInv'
<1>1. CASE UNCHANGED fleetVars
  <2>1. FleetShape' /\ FleetHoldsTogether'
    BY <1>1, DeclaredStays DEF fleetVars
  <2>2. ReportStands'
    BY <1>1 DEF fleetVars, FleetInv, ReportStands
  <2> QED
    BY <2>1, <2>2 DEF FleetInv
<1>2. CASE /\ UNCHANGED <<environments, servers, services, observations>>
           /\ ReportStands'
  BY <1>2, DeclaredStays DEF FleetInv
<1>3. ASSUME driftReport = NoReport, DeclaredNext, UNCHANGED driftReport
      PROVE  FleetInv'
  <2>1. ASSUME NEW e \in EnvironmentIds, NEW fields \in EnvironmentInputs, RegisterEnvironment(e, fields)
        PROVE  FleetInv'
    BY <1>3, <2>1, InputsAssumption, EnvironmentPut DEF RegisterEnvironment
  <2>2. ASSUME NEW e \in EnvironmentIds, NEW update \in FieldUpdates, UpdateEnvironment(e, update)
        PROVE  FleetInv'
    <3>1. DOMAIN environments[e] = DOMAIN EnvironmentFields
      BY <2>2 DEF UpdateEnvironment, FleetInv, FleetShape, Registered
    <3>2. DOMAIN Merged(environments[e], update) = DOMAIN EnvironmentFields
      BY <3>1 DEF Merged
    <3> QED
      BY <1>3, <2>2, <3>2, EnvironmentPut DEF UpdateEnvironment
  <2>3. ASSUME NEW s \in ServerIds, NEW e \in EnvironmentIds,
               \/ \E fields \in ServerInputs : RegisterServer(s, e, fields)
               \/ \E update \in FieldUpdates : UpdateServer(s, e, update)
        PROVE  FleetInv'
    BY <1>3, <2>3, ServerPut DEF RegisterServer, UpdateServer
  <2>4. ASSUME NEW v \in ServiceIds, NEW record, ServiceShape(record), PutService(v, record)
        PROVE  FleetInv'
    BY <1>3, <2>4, ServicePut
  <2>5. ASSUME NEW o \in ObservationIds, NEW observation \in ObservationInputs, RecordObservation(o, observation)
        PROVE  FleetInv'
    BY <1>3, <2>5, DeclaredStays DEF RecordObservation, FleetInv, ReportStands
  <2> QED
    BY <1>3, <2>1, <2>2, <2>3, <2>4, <2>5, ServicesArePut DEF DeclaredNext
<1>4. ASSUME NEW s \in ServerIds, NEW v \in ServiceIds, NEW evidence \in Evidence, InspectDrift(s, v, evidence)
      PROVE  ReportStands'
  <2>1. servers' = servers /\ services' = services
    BY <1>4 DEF InspectDrift
  <2>2. \A server, service : CompareDrift(server, service, evidence)' = CompareDrift(server, service, evidence)
    BY DEF CompareDrift, IsKind, UnderPressure, Pressed, Known
  <2> QED
    BY <1>4, <2>1 DEF InspectDrift, ReportStands
<1>5. ReportIsRead => ReportStands'
  BY DEF ReportIsRead, ReportStands
<1> QED
  BY <1>1, <1>2, <1>3, <1>4, <1>5 DEF FleetNext, InspectDrift, ReportIsRead

LEMMA FleetInvHolds == FleetSpec => []FleetInv
<1>1. FleetInit => FleetInv
  <2>1. FleetInit => Registered(environments) = {} /\ Registered(servers) = {} /\ Registered(services) = {}
    BY DEF FleetInit, Registered
  <2> QED
    BY <2>1 DEF FleetInit, FleetInv, FleetShape, FleetHoldsTogether, ReportStands
<1> QED
  BY <1>1, FleetStep, PTL DEF FleetSpec

(***************************************************************************)
(* Whatever is registered, updated and refused, the declared inventories   *)
(* hold together, and "no drift" is never said where something observed    *)
(* speaks against what is declared (validate of the in-memory inventories; *)
(* compareDrift).                                                          *)
(***************************************************************************)
THEOREM TheFleetHolds == FleetSpec => []InventoriesAndReportsHold
<1>1. FleetInv => NoDriftMeansAgreement
  <2> SUFFICES ASSUME FleetInv, driftReport # NoReport, driftReport.kinds = {}
               PROVE  LET e == driftReport.evidence
                          server == servers[driftReport.server]
                          service == services[driftReport.service]
                      IN  /\ server # NoRecord /\ IsKind(e.provider, "provider-server-state") =>
                                e.provider.state = server.fields.lifecycleStatus /\ e.provider.fresh
                          /\ service # NoRecord /\ IsKind(e.host, "host-service-state") =>
                                e.host.state = service.fields.desiredState /\ e.host.fresh
    BY DEF NoDriftMeansAgreement
  <2> DEFINE e == driftReport.evidence
             server == servers[driftReport.server]
             service == services[driftReport.service]
  <2>1. CompareDrift(server, service, e) = {}
    BY DEF FleetInv, ReportStands
  <2> HIDE DEF e, server, service
  <2>2. /\ ~\E o \in {e.provider, e.host} \ {NoRecord} : ~o.fresh
        /\ ~(server # NoRecord /\ IsKind(e.provider, "provider-server-state")
             /\ e.provider.state # server.fields.lifecycleStatus)
        /\ ~(service # NoRecord /\ IsKind(e.host, "host-service-state")
             /\ e.host.state # service.fields.desiredState)
    BY <2>1 DEF CompareDrift
  <2> QED
    BY <2>2 DEF IsKind, e, server, service
<1>2. FleetInv => InventoriesAndReportsHold
  BY <1>1 DEF InventoriesAndReportsHold, FleetInv
<1> QED
  BY <1>2, FleetInvHolds, PTL

(***************************************************************************)
(* Only the move of a server makes a service disagree with it about the    *)
(* environment (validate of in-memory-service-inventory.ts, and the update *)
(* of in-memory-server-inventory.ts that looks at no service).             *)
(***************************************************************************)
THEOREM OnlyMovesMismatch == FleetSpec => MismatchComesFromAMove
<1> DEFINE Explained ==
      \A v \in Registered(services)' :
        ~Agrees(v)' =>
           /\ v \in Registered(services)
           /\ services[v] = services[v]'
           /\ \/ ~Agrees(v)
              \/ servers[services[v].server] # servers'[services[v].server]
<1>1. ASSUME FleetInv, FleetInv', services' = services
      PROVE  Explained
  <2> SUFFICES ASSUME NEW v \in Registered(services)', Agrees(v),
                      servers[services[v].server] = servers'[services[v].server]
               PROVE  Agrees(v)'
    BY <1>1 DEF Registered
  <2> QED
    BY <1>1 DEF Agrees, ListServerIds, Registered, FleetInv, FleetShape
<1>2. ASSUME FleetInv, FleetInv', NEW u \in ServiceIds, NEW record, ServiceShape(record), servers' = servers,
             services' = [services EXCEPT ![u] = record], ValidateService(u, record) = "ok"
      PROVE  Explained
  <2> SUFFICES ASSUME NEW v \in Registered(services)', ~Agrees(v)'
               PROVE  v \in Registered(services) /\ services[v] = services'[v] /\ ~Agrees(v)
    OBVIOUS
  <2>1. services' = [w \in ServiceIds |-> IF w = u THEN record ELSE services[w]]
    BY <1>2 DEF FleetInv, FleetShape
  <2>2. record.server \in ListServerIds(record.environment)
    BY <1>2, ServiceIsValid DEF ListServerIds, Registered, FleetInv, FleetShape, ServiceShape
  <2>3. v # u
    BY <1>2, <2>1, <2>2 DEF Agrees, ListServerIds, Registered
  <2>4. v \in Registered(services) /\ services[v] = services'[v]
    <3>1. DOMAIN services = ServiceIds
      BY <1>2 DEF FleetInv, FleetShape
    <3>2. v \in ServiceIds /\ services'[v] # NoRecord
      BY <2>1 DEF Registered
    <3> QED
      BY <2>1, <2>3, <3>1, <3>2 DEF Registered
  <2>5. Agrees(v) => Agrees(v)'
    BY <1>2, <2>4 DEF Agrees, ListServerIds, Registered
  <2> QED
    BY <2>4, <2>5
<1>3. ASSUME FleetInv, FleetInv', FleetNext
      PROVE  Explained
  <2>1. ASSUME NEW v \in ServiceIds, NEW record, ServiceShape(record), PutService(v, record),
               driftReport = NoReport, driftReport' = driftReport
        PROVE  Explained
    <3>1. servers' = servers
      BY <2>1 DEF PutService
    <3> HIDE DEF Explained
    <3> QED
      BY <1>1, <1>2, <1>3, <2>1, <3>1, ServicePut
  <2>2. \/ services' = services
        \/ /\ driftReport = NoReport /\ driftReport' = driftReport
           /\ \E v \in ServiceIds : \E record : ServiceShape(record) /\ PutService(v, record)
    BY <1>3, ServicesArePut DEF FleetNext, DeclaredNext, RegisterEnvironment, UpdateEnvironment, PutEnvironment,
         RegisterServer, UpdateServer, PutServer, RecordObservation, InspectDrift, ReportIsRead
  <2> HIDE DEF Explained
  <2> QED
    BY <1>1, <1>3, <2>1, <2>2
<1>4. FleetInv /\ FleetInv' /\ [FleetNext]_fleetVars => [Explained]_fleetVars
  BY <1>3
<1>5. [][Explained]_fleetVars => MismatchComesFromAMove
  BY DEF MismatchComesFromAMove
<1> HIDE DEF Explained
<1> QED
  BY <1>4, <1>5, FleetInvHolds, PTL DEF FleetSpec

-----------------------------------------------------------------------------
(* The connectors: calls that are answered what they did. *)

\* A call of a tool that the policy lets happen, and one whose answer is true.
Permitted(call) ==
    call.tool \in Tools =>
      /\ call.tool.effect # "READ_ONLY" => call.approved /\ call.mode # "outcome-unknown"
      /\ call.tool.id \notin HardDenied
Honest(call) ==
    call.tool \in Tools =>
      /\ call.answer \in Performed =>
           (call.tool.effect # "READ_ONLY" => call.approved) /\ call.tool.id \notin HardDenied
      /\ call.tool.effect # "READ_ONLY" /\ call.mode = "outcome-unknown" => call.answer # "done"

ConnectorInv ==
    /\ toolCalls = [c \in ToolCalls |-> toolCalls[c]]
    /\ notes = [key \in ToolCalls |-> notes[key]]
    /\ \A c \in ToolCalls :
         \/ toolCalls[c] = NoCall
         \/ toolCalls[c].phase = "waiting" /\ Permitted(toolCalls[c])
         \/ toolCalls[c].phase = "answered" /\ Honest(toolCalls[c])
    /\ \A key \in ToolCalls : notes[key] # NoNote =>
         /\ notes[key] \in ToolCalls
         /\ toolCalls[notes[key]].phase = "answered" /\ toolCalls[notes[key]].answer = "done"

ToolIds == {"echo.read", "note.write", "finance.read"} \cup InfrastructureReads \cup InfrastructureMutations
             \cup {"server.delete", "firewall.change", "credential.rotate", "provider.purchase", "provider.plan.change", "shell"}
OperationIds == HostReads \cup HostMutations \cup HostUntemplated \cup ProviderReads \cup ProviderMutations

LEMMA OperationsAreNoTools == (HostOperations \cup ProviderOperations) \cap Tools = {}
<1>1. \A tool \in Tools : tool.id \in ToolIds
  BY DEF Tools, ReferenceTools, InfrastructureTools, HardDeniedAttempts, Tool, ToolIds
<1>2. \A operation \in HostOperations \cup ProviderOperations : operation.id \in OperationIds
  BY DEF HostOperations, ProviderOperations, Tool, OperationIds
<1>3. ToolIds \cap OperationIds = {}
  BY DEF ToolIds, OperationIds, InfrastructureReads, InfrastructureMutations, HostReads, HostMutations, HostUntemplated,
         ProviderReads, ProviderMutations
<1> QED
  BY <1>1, <1>2, <1>3

\* The writes a policy may let happen.
LEMMA PermittedWrites ==
    ASSUME NEW tool \in Tools, tool.effect # "READ_ONLY", tool.id \notin HardDenied
    PROVE  \/ tool = Tool("note.write", "LOW_RISK_WRITE")
           \/ /\ tool \in InfrastructureTools \ ReferenceTools
              /\ tool.id \in InfrastructureMutations
<1>1. CASE tool \in ReferenceTools
  <2>1. Tool("echo.read", "READ_ONLY").effect = "READ_ONLY" /\ Tool("finance.read", "READ_ONLY").effect = "READ_ONLY"
    BY DEF Tool
  <2> QED
    BY <1>1, <2>1 DEF ReferenceTools
<1>2. CASE tool \in InfrastructureTools
  <2>1. tool.id \in InfrastructureMutations
    BY <1>2 DEF InfrastructureTools, Tool
  <2>2. \A other \in ReferenceTools : other.id \in {"echo.read", "note.write", "finance.read"}
    BY DEF ReferenceTools, Tool
  <2> QED
    BY <1>2, <2>1, <2>2 DEF InfrastructureMutations
<1>3. CASE tool \in HardDeniedAttempts
  BY <1>3 DEF HardDeniedAttempts, HardDenied, Tool
<1> QED
  BY <1>1, <1>2, <1>3 DEF Tools

\* A write whose end is uncertain says so.
LEMMA UncertainWritesSaySo ==
    ASSUME NEW tool \in Tools, tool.effect # "READ_ONLY", tool.id \notin HardDenied,
           "outcome-unknown" \in ModesOf[tool]
    PROVE  Answer(tool, "outcome-unknown") = "outcome-unknown"
<1>1. CASE tool = Tool("note.write", "LOW_RISK_WRITE")
  <2>1. tool \in ReferenceTools /\ tool.id = "note.write"
    BY <1>1 DEF ReferenceTools, Tool
  <2>2. tool \notin InfrastructureTools
    BY <2>1 DEF InfrastructureTools, Tool, InfrastructureReads, InfrastructureMutations
  <2>3. tool \notin HostOperations
    BY OperationsAreNoTools
  <2>4. Answer(tool, "outcome-unknown") = ReferenceAnswer("note.write", "outcome-unknown")
        /\ Answer(tool, "ok") = ReferenceAnswer("note.write", "ok")
    BY <2>1, <2>2, <2>3 DEF Answer
  <2>5. ReferenceAnswer("note.write", "outcome-unknown") = ReferenceAnswer("note.write", "ok")
    BY DEF ReferenceAnswer
  <2>6. Answer(tool, "outcome-unknown") # Answer(tool, "ok")
    BY DEF ModesOf
  <2> QED
    BY <2>4, <2>5, <2>6
<1>2. CASE tool \in InfrastructureTools \ ReferenceTools /\ tool.id \in InfrastructureMutations
  <2>1. tool \notin HostOperations
    BY OperationsAreNoTools
  <2>2. Answer(tool, "outcome-unknown") = InfrastructureAnswer(tool.id, "outcome-unknown")
    BY <1>2, <2>1 DEF Answer
  <2>3. InfrastructureAnswer(tool.id, "outcome-unknown") = Plays({"outcome-unknown"}, "outcome-unknown")
    BY <1>2 DEF InfrastructureAnswer, InfrastructureMutations
  <2> QED
    BY <2>2, <2>3 DEF Plays
<1> QED
  BY <1>1, <1>2, PermittedWrites

LEMMA CallSettles ==
    ASSUME ConnectorInv, NEW c \in ToolCalls, toolCalls[c].phase # "answered", NEW call, NEW answer,
           Settle(c, call, answer), Honest(AnsweredCall(call, answer))
    PROVE  ConnectorInv'
<1> DEFINE ended == AnsweredCall(call, answer)
<1>1. ended.phase = "answered" /\ ended.answer = answer
  BY DEF AnsweredCall
<1> HIDE DEF ended
<1>2. toolCalls' = [d \in ToolCalls |-> IF d = c THEN ended ELSE toolCalls[d]]
  BY DEF Settle, ConnectorInv, ended
<1>3. \/ notes' = notes
      \/ answer = "done" /\ notes' = [key \in ToolCalls |-> IF key = call.key THEN c ELSE notes[key]]
  BY DEF Settle, ConnectorInv
<1>4. \A key \in ToolCalls : notes'[key] # NoNote =>
        \/ notes'[key] = c /\ answer = "done"
        \/ notes[key] # NoNote /\ notes'[key] = notes[key]
  BY <1>3
<1>5. Honest(ended)
  BY DEF ended
<1>6. \A d \in ToolCalls :
         \/ toolCalls'[d] = NoCall
         \/ toolCalls'[d].phase = "waiting" /\ Permitted(toolCalls'[d])
         \/ toolCalls'[d].phase = "answered" /\ Honest(toolCalls'[d])
  BY <1>1, <1>2, <1>5 DEF ConnectorInv
<1>7. \A key \in ToolCalls : notes'[key] # NoNote =>
         /\ notes'[key] \in ToolCalls
         /\ toolCalls'[notes'[key]].phase = "answered" /\ toolCalls'[notes'[key]].answer = "done"
  <2>1. toolCalls'[c] = ended
    BY <1>2
  <2>2. \A key \in ToolCalls : notes[key] # NoNote =>
           notes[key] \in ToolCalls /\ toolCalls'[notes[key]] = toolCalls[notes[key]]
    BY <1>2 DEF ConnectorInv
  <2>3. \A key \in ToolCalls : notes[key] # NoNote =>
           toolCalls[notes[key]].phase = "answered" /\ toolCalls[notes[key]].answer = "done"
    BY DEF ConnectorInv
  <2> QED
    BY <1>1, <1>4, <2>1, <2>2, <2>3
<1>8. toolCalls' = [d \in ToolCalls |-> toolCalls'[d]] /\ notes' = [key \in ToolCalls |-> notes'[key]]
  BY <1>2, <1>3 DEF ConnectorInv
<1> QED
  BY <1>6, <1>7, <1>8 DEF ConnectorInv, Permitted, Honest

\* A call that is executed is one of a permitted tool, or of an operation.
LEMMA ExecuteHolds ==
    ASSUME ConnectorInv, NEW c \in ToolCalls, toolCalls[c].phase # "answered", NEW call, NEW heard,
           Execute(c, call, heard),
           call.tool \in Tools => call.mode \in ModesOf[call.tool] /\ call.tool.id \notin HardDenied
                                  /\ (call.tool.effect # "READ_ONLY" => call.approved)
    PROVE  ConnectorInv'
<1> DEFINE answer == Answer(call.tool, call.mode)
<1>1. call.tool \in Tools /\ call.tool.effect # "READ_ONLY" /\ call.mode = "outcome-unknown"
        => answer = "outcome-unknown"
  BY UncertainWritesSaySo
<1>2. AfterAbort(call.tool, call.mode) \in {"rejected", "cancelled"}
  BY DEF AfterAbort
<1> HIDE DEF answer
<1>3. \/ \E reply \in {"cancelled", "rejected", answer} : Settle(c, call, reply)
      \/ /\ answer = "wait" /\ toolCalls' = [toolCalls EXCEPT ![c] = WaitingCall(call)]
         /\ notes' = notes
  BY <1>2 DEF Execute, answer
<1>4. ASSUME NEW reply \in {"cancelled", "rejected", answer}, Settle(c, call, reply)
      PROVE  ConnectorInv'
  <2>1. Honest(AnsweredCall(call, reply))
    BY <1>1 DEF Honest, AnsweredCall, Performed
  <2> QED
    BY <1>4, <2>1, CallSettles
<1>5. CASE /\ answer = "wait" /\ toolCalls' = [toolCalls EXCEPT ![c] = WaitingCall(call)]
           /\ notes' = notes
  <2> DEFINE waiting == WaitingCall(call)
  <2>1. waiting.phase = "waiting" /\ Permitted(waiting)
    BY <1>1, <1>5 DEF WaitingCall, Permitted
  <2> HIDE DEF waiting
  <2>2. toolCalls' = [d \in ToolCalls |-> IF d = c THEN waiting ELSE toolCalls[d]]
    BY <1>5 DEF ConnectorInv, waiting
  <2>3. \A d \in ToolCalls :
         \/ toolCalls'[d] = NoCall
         \/ toolCalls'[d].phase = "waiting" /\ Permitted(toolCalls'[d])
         \/ toolCalls'[d].phase = "answered" /\ Honest(toolCalls'[d])
    BY <2>1, <2>2 DEF ConnectorInv
  <2>4. \A key \in ToolCalls : notes[key] # NoNote => toolCalls'[notes[key]] = toolCalls[notes[key]]
    BY <2>2 DEF ConnectorInv
  <2> QED
    BY <1>5, <2>2, <2>3, <2>4 DEF ConnectorInv, Permitted, Honest
<1> QED
  BY <1>3, <1>4, <1>5

LEMMA ConnectorStep ==
    ASSUME ConnectorInv, ConnectorNext \/ UNCHANGED connectorVars
    PROVE  ConnectorInv'
<1>1. ASSUME NEW c \in ToolCalls, NEW tool \in Tools, NEW mode \in ModesOf[tool], NEW key, NEW approved, NEW heard,
             CallTool(c, tool, mode, key, approved, heard)
      PROVE  ConnectorInv'
  <2> DEFINE call == NewCall(tool, mode, key, approved)
             decision == InfrastructureToolPolicy(tool)
  <2>1. call.tool = tool /\ call.mode = mode /\ call.approved = approved
    BY DEF NewCall
  <2>2. toolCalls[c].phase # "answered"
    BY <1>1 DEF CallTool, NoCall
  <2>3. /\ decision \in {"deny", "allow", "require-approval"}
        /\ decision # "deny" => tool.id \notin HardDenied
        /\ decision = "allow" => tool.effect = "READ_ONLY"
    BY DEF InfrastructureToolPolicy, DefaultDenyToolPolicy
  <2> HIDE DEF decision
  <2>4. \/ \E reply \in {"denied", "approval-required"} : Settle(c, call, reply)
        \/ /\ Execute(c, call, heard) /\ decision # "deny"
           /\ decision = "require-approval" => approved
    BY <1>1 DEF CallTool, decision
  <2> HIDE DEF call
  <2>5. ASSUME NEW reply \in {"denied", "approval-required"}, Settle(c, call, reply)
        PROVE  ConnectorInv'
    <3>1. Honest(AnsweredCall(call, reply))
      BY DEF Honest, AnsweredCall, Performed
    <3> QED
      BY <2>2, <2>5, <3>1, CallSettles
  <2> QED
    BY <2>1, <2>2, <2>3, <2>4, <2>5, ExecuteHolds
<1>2. ASSUME NEW c \in ToolCalls, NEW operation \in HostOperations \cup ProviderOperations, NEW mode, NEW heard,
             OperateTool(c, operation, mode, heard)
      PROVE  ConnectorInv'
  <2> DEFINE call == NewCall(operation, mode, c, FALSE)
  <2>1. call.tool \notin Tools
    BY OperationsAreNoTools DEF NewCall
  <2>2. toolCalls[c].phase # "answered" /\ Execute(c, call, heard)
    <3>1. NoCall.phase = "idle"
      BY DEF NoCall
    <3> QED
      BY <1>2, <3>1 DEF OperateTool
  <2> HIDE DEF call
  <2> QED
    BY <2>1, <2>2, ExecuteHolds
<1>3. ASSUME NEW c \in ToolCalls, TimerFires(c) \/ AbortToolCall(c)
      PROVE  ConnectorInv'
  <2> DEFINE call == toolCalls[c]
  <2>1. call.phase = "waiting" /\ Permitted(call)
    BY <1>3 DEF TimerFires, AbortToolCall, Waiting, ConnectorInv, NoCall
  <2>2. PICK reply : Settle(c, call, reply)
    BY <1>3 DEF TimerFires, AbortToolCall
  <2> HIDE DEF call
  <2>3. Honest(AnsweredCall(call, reply))
    BY <2>1 DEF Permitted, Honest, AnsweredCall
  <2>4. call.phase # "answered"
    BY <2>1
  <2> QED
    BY <2>2, <2>3, <2>4, CallSettles DEF call
<1>4. CASE ClearNotes
  BY <1>4 DEF ClearNotes, ConnectorInv, Permitted, Honest
<1>5. CASE UNCHANGED connectorVars
  BY <1>5 DEF connectorVars, ConnectorInv, Permitted, Honest
<1> QED
  BY <1>1, <1>2, <1>3, <1>4, <1>5 DEF ConnectorNext

(***************************************************************************)
(* Whatever its delay, its abort and the other calls do, a call is         *)
(* answered what it did: no write without an approval, nothing of what is  *)
(* hard-denied, and no uncertain write answered as done                    *)
(* (infrastructure-policy-engine.ts; execute of the connectors).           *)
(***************************************************************************)
THEOREM CallsAnswerTruly == ConnectorSpec => []CallsAnswerWhatTheyDid
<1>1. ConnectorInit => ConnectorInv
  BY DEF ConnectorInit, ConnectorInv
<1>2. ConnectorInv => CallsAnswerWhatTheyDid
  BY DEF ConnectorInv, CallsAnswerWhatTheyDid, Honest, NoCall
<1> QED
  BY <1>1, <1>2, ConnectorStep, PTL DEF ConnectorSpec

-----------------------------------------------------------------------------
(* Voices: whatever is spoken is vouched for by a resolution that stands. *)

ResolutionAwaits(own) ==
    \/ own = [at |-> "unused"]
    \/ own = [at |-> "ended", mode |-> "text-only", reason |-> own.reason]
    \/ /\ own.at \in {"policy", "configuration", "observation"}
       /\ own.started \in Nat /\ own.profile \in ValidatedProfiles
       /\ own.at # "policy" => own.policy.evidenceTtl \in 1 .. MaxTtl

\* What the gateway has seen of a voice it vouches for.
VouchesFor(own) ==
    /\ own.at = "ended" /\ own.mode = "voice" /\ own.profile \in ValidatedProfiles
    /\ own.started \in Nat /\ own.policy.evidenceTtl \in 1 .. MaxTtl
    /\ own.evidence = MatchEvidence(own.profile, own.observation, own.policy, own.started)
    /\ AgreesWithProfile(own.observation, own.profile) /\ own.observation.claims = {}
    /\ IsFreshWindow(own.observation.from, own.observation.until, own.started)

\* What VoiceIsVouchedFor says of one thing spoken.
Sound(said) ==
    /\ said.profile.enabled /\ said.selector.gender = said.profile.gender
    /\ said.profile.id = "neo" => said.profile.language = "ru-RU" /\ said.selector.gender = "masculine"
    /\ said.profile.id = "neo" /\ said.profile \in ValidatedProfiles =>
         said.selector = said.profile.primary /\ said.selector.language = "ru-RU"
Vouched(said) ==
    \E r \in Resolutions :
      /\ Answering(r, "ended") /\ resolutions[r].mode = "voice"
      /\ resolutions[r].profile \in ValidatedProfiles /\ resolutions[r].profile.id = said.profile.id
      /\ said.moment \in resolutions[r].started .. (resolutions[r].started + resolutions[r].policy.evidenceTtl - 1)
      /\ resolutions[r].observation.language = said.profile.language
      /\ resolutions[r].observation.gender = said.profile.gender
      /\ resolutions[r].observation.claims = {}
      /\ IsFreshWindow(resolutions[r].observation.from, resolutions[r].observation.until, resolutions[r].started)

VoiceInv ==
    /\ voiceClock \in Nat
    /\ resolutions = [r \in Resolutions |-> resolutions[r]]
    /\ \A r \in Resolutions : ResolutionAwaits(resolutions[r]) \/ VouchesFor(resolutions[r])
    /\ \A i \in DOMAIN spoken : Sound(spoken[i]) /\ Vouched(spoken[i])

LEMMA PrefixStays ==
    ASSUME NEW S, NEW s \in Seq(S), NEW t \in Seq(S)
    PROVE  /\ s \o t \in Seq(S) /\ Len(s \o t) \in Nat /\ Len(s \o t) >= Len(s)
           /\ \A i \in 1 .. Len(s) : (s \o t)[i] = s[i]
  OBVIOUS

\* A profile that is validated speaks with a primary voice of its own kind.
LEMMA ValidatedProfile ==
    ASSUME NEW profile \in ValidatedProfiles
    PROVE  /\ profile.primary.language = profile.language /\ profile.primary.gender = profile.gender
           /\ profile.id = "neo" =>
                profile.language = "ru-RU" /\ profile.gender = "masculine" /\ profile.fallbackMode = "text-only"
<1> DEFINE parts == FirstFailure(Parsed(profile, ProfileParts))
           flags == FirstFailure(ForbiddenFlags(profile))
           neo == FirstFailure(ValidateNeoInvariants(profile))
           primary == FirstFailure(PrimaryChecks(profile))
           fallbacks == FirstFailure([i \in DOMAIN profile.fallbacks |->
                                        FirstFailure(FallbackChecks(profile, profile.fallbacks[i]))])
           crossing == Check(~profile.allowCrossGenderFallback, "CROSS_GENDER_FALLBACK_FORBIDDEN")
           scan == FirstFailure(Parsed(profile, ScanParts))
           checks == <<parts, flags, neo, primary, fallbacks, crossing, scan>>
<1>1. FirstFailure(checks) = "ok"
  BY DEF ValidatedProfiles, ValidateVoiceProfile, Fails
<1> HIDE DEF parts, flags, neo, primary, fallbacks, crossing, scan
<1>2. DOMAIN checks \subseteq Nat /\ {3, 4} \subseteq DOMAIN checks /\ checks[3] = neo /\ checks[4] = primary
  OBVIOUS
<1> HIDE DEF checks
<1>3. neo = "ok" /\ primary = "ok"
  BY <1>1, <1>2, FirstFailurePasses
<1>4. profile.primary.language = profile.language /\ profile.primary.gender = profile.gender
  <2> DEFINE own == PrimaryChecks(profile)
             agrees == profile.primary.language = profile.language /\ profile.primary.gender = profile.gender
  <2>1. DOMAIN own \subseteq Nat /\ 2 \in DOMAIN own /\ own[2] = Check(agrees, "PRIMARY_VOICE_MISMATCH")
    BY DEF PrimaryChecks
  <2> HIDE DEF own
  <2>2. own[2] = "ok"
    BY <1>3, <2>1, FirstFailurePasses DEF primary, own
  <2> QED
    BY <2>1, <2>2 DEF Check
<1>5. ASSUME profile.id = "neo"
      PROVE  profile.language = "ru-RU" /\ profile.gender = "masculine" /\ profile.fallbackMode = "text-only"
  <2> DEFINE first == << Check(profile.language = "ru-RU", "NEO_LANGUAGE_REQUIRED"),
                         Check(profile.gender = "masculine", "NEO_MASCULINE_REQUIRED"),
                         Check(profile.fallbackMode = "text-only", "NEO_FALLBACK_REQUIRED"),
                         Check(~profile.allowCrossGenderFallback, "CROSS_GENDER_FALLBACK_FORBIDDEN") >>
             rest == << Check(NeoRequiredTags \subseteq profile.styleTags, "NEO_STYLE_TAG_REQUIRED"),
                        Check(profile.styleTags \cap NeoForbiddenTags = {}, "NEO_FORBIDDEN_STYLE_TAG"),
                        Check("identity" \notin profile.malformed, "NEO_IDENTITY_FORBIDDEN") >>
             all == first \o ForbiddenFlags(profile) \o rest
             Codes == {first[1], first[2], first[3], first[4], ForbiddenFlags(profile)[1], ForbiddenFlags(profile)[2],
                       rest[1], rest[2], rest[3]}
  <2>1. neo = FirstFailure(all)
    BY <1>5 DEF neo, ValidateNeoInvariants
  <2>2. first \in Seq(Codes) /\ rest \in Seq(Codes) /\ ForbiddenFlags(profile) \in Seq(Codes)
    BY DEF ForbiddenFlags
  <2>3. /\ Len(first) = 4 /\ first[1] = Check(profile.language = "ru-RU", "NEO_LANGUAGE_REQUIRED")
        /\ first[2] = Check(profile.gender = "masculine", "NEO_MASCULINE_REQUIRED")
        /\ first[3] = Check(profile.fallbackMode = "text-only", "NEO_FALLBACK_REQUIRED")
    OBVIOUS
  <2> HIDE DEF first, rest, Codes
  <2>4. DOMAIN all \subseteq Nat /\ {1, 2, 3} \subseteq DOMAIN all /\ \A i \in {1, 2, 3} : all[i] = first[i]
    <3> DEFINE middle == first \o ForbiddenFlags(profile)
    <3>1. /\ middle \in Seq(Codes) /\ Len(middle) \in Nat /\ Len(middle) >= Len(first)
          /\ \A i \in 1 .. Len(first) : middle[i] = first[i]
      BY <2>2, PrefixStays
    <3> HIDE DEF middle
    <3>2. /\ middle \o rest \in Seq(Codes) /\ Len(middle \o rest) \in Nat /\ Len(middle \o rest) >= Len(middle)
          /\ \A i \in 1 .. Len(middle) : (middle \o rest)[i] = middle[i]
      BY <2>2, <3>1, PrefixStays
    <3>3. /\ DOMAIN (middle \o rest) \subseteq Nat /\ {1, 2, 3} \subseteq DOMAIN (middle \o rest)
          /\ \A i \in {1, 2, 3} : (middle \o rest)[i] = first[i]
      <4> DEFINE whole == middle \o rest
      <4> HIDE DEF whole
      <4>1. DOMAIN whole = 1 .. Len(whole)
        BY <3>2 DEF whole
      <4>2. Len(first) = 4 /\ Len(middle) >= 4 /\ Len(whole) >= 4 /\ Len(whole) \in Nat
        BY <2>3, <3>1, <3>2 DEF whole
      <4> QED
        BY <3>1, <3>2, <4>1, <4>2 DEF whole
    <3> QED
      BY <3>3 DEF middle
  <2> HIDE DEF all
  <2>5. \A i \in {1, 2, 3} : first[i] = "ok"
    BY <1>3, <2>1, <2>4, FirstFailurePasses
  <2> QED
    BY <2>3, <2>5 DEF Check
<1> QED
  BY <1>4, <1>5

\* A resolution that goes on disturbs nothing that was spoken.
LEMMA ResolutionMoves ==
    ASSUME VoiceInv, NEW r \in Resolutions, resolutions[r].at # "ended", NEW local,
           ResolutionAwaits(local) \/ VouchesFor(local), Proceeds(r, local)
    PROVE  VoiceInv'
<1>1. /\ resolutions' = [s \in Resolutions |-> IF s = r THEN local ELSE resolutions[s]]
      /\ voiceClock' = voiceClock /\ spoken' = spoken
  BY DEF VoiceInv, Proceeds
<1>2. \A s \in Resolutions : resolutions[s].at = "ended" => resolutions'[s] = resolutions[s]
  BY <1>1
<1>3. \A s \in Resolutions : ResolutionAwaits(resolutions'[s]) \/ VouchesFor(resolutions'[s])
  BY <1>1 DEF VoiceInv
<1>4. ASSUME NEW i \in DOMAIN spoken
      PROVE  Sound(spoken[i])' /\ Vouched(spoken[i])'
  <2>1. Sound(spoken[i]) /\ Vouched(spoken[i])
    BY DEF VoiceInv
  <2> QED
    BY <1>1, <1>2, <2>1 DEF Sound, Vouched, Answering
<1> QED
  BY <1>1, <1>3, <1>4 DEF VoiceInv, ResolutionAwaits, VouchesFor

LEMMA TextIsSafe == \A reason : ResolutionAwaits([at |-> "ended", mode |-> "text-only", reason |-> reason])
  BY DEF ResolutionAwaits

LEMMA ResolutionHolds ==
    ASSUME VoiceInv, NEW r \in Resolutions,
           \/ \E profile \in ProfileCandidates, selector \in RequestedSelectors, filled \in BOOLEAN :
                ResolveVoice(r, profile, selector, filled)
           \/ VoicePolicyAnswered(r) \/ ConfigurationAnswered(r) \/ ObservationAnswered(r)
    PROVE  VoiceInv'
<1> DEFINE own == resolutions[r]
<1>1. ASSUME NEW reason, TextOnly(r, reason), own.at # "ended"
      PROVE  VoiceInv'
  BY <1>1, TextIsSafe, ResolutionMoves DEF TextOnly
<1>2. own.at \in {"policy", "configuration", "observation"} =>
        /\ own.started \in Nat /\ own.profile \in ValidatedProfiles
        /\ own.at # "policy" => own.policy.evidenceTtl \in 1 .. MaxTtl
  BY DEF VoiceInv, ResolutionAwaits, VouchesFor
<1>3. ASSUME NEW profile, NEW selector, NEW filled, ResolveVoice(r, profile, selector, filled)
      PROVE  VoiceInv'
  <2>1. own.at # "ended"
    BY <1>3 DEF ResolveVoice, Answering
  <2> DEFINE local(answer) == [at |-> "policy", profile |-> profile, started |-> voiceClock, answer |-> answer]
  <2> DEFINE checks == <<Check(profile \in ValidatedProfiles, "unvalidated"), Check(profile.enabled, "disabled"),
                         Check(selector = profile.primary, "selector mismatch"), Check(filled, "reference")>>
  <2>2. \/ \E reason : TextOnly(r, reason)
        \/ FirstFailure(checks) = "ok" /\ \E answer : Proceeds(r, local(answer))
    BY <1>3 DEF ResolveVoice, Fails
  <2>4. /\ DOMAIN checks \subseteq Nat /\ 1 \in DOMAIN checks
        /\ checks[1] = Check(profile \in ValidatedProfiles, "unvalidated")
    OBVIOUS
  <2> HIDE DEF checks
  <2>5. FirstFailure(checks) = "ok" => profile \in ValidatedProfiles
    BY <2>4, FirstFailurePasses DEF Check
  <2>3. FirstFailure(checks) = "ok" => \A answer : ResolutionAwaits(local(answer))
    BY <2>5 DEF ResolutionAwaits, VoiceInv
  <2> HIDE DEF local
  <2> QED
    BY <1>1, <2>1, <2>2, <2>3, ResolutionMoves
<1>4. ASSUME VoicePolicyAnswered(r)
      PROVE  VoiceInv'
  <2>1. own.at = "policy"
    BY <1>4 DEF VoicePolicyAnswered, Answering
  <2> DEFINE local(answer) == [at |-> "configuration", profile |-> own.profile, started |-> own.started,
                               policy |-> own.answer, answer |-> answer]
  <2>2. \/ \E reason : TextOnly(r, reason)
        \/ own.answer.evidenceTtl \in 1 .. MaxTtl /\ \E answer : Proceeds(r, local(answer))
    BY <1>4 DEF VoicePolicyAnswered, Offered
  <2>3. own.answer.evidenceTtl \in 1 .. MaxTtl => \A answer : ResolutionAwaits(local(answer))
    BY <1>2, <2>1 DEF ResolutionAwaits
  <2> HIDE DEF local
  <2> QED
    BY <1>1, <2>1, <2>2, <2>3, ResolutionMoves
<1>5. ASSUME ConfigurationAnswered(r)
      PROVE  VoiceInv'
  <2>1. own.at = "configuration"
    BY <1>5 DEF ConfigurationAnswered, Answering
  <2> DEFINE local(answer) == [at |-> "observation", profile |-> own.profile, started |-> own.started,
                               policy |-> own.policy, configuration |-> own.answer, answer |-> answer]
  <2>2. (\E reason : TextOnly(r, reason)) \/ \E answer : Proceeds(r, local(answer))
    BY <1>5 DEF ConfigurationAnswered, Offered
  <2>3. \A answer : ResolutionAwaits(local(answer))
    BY <1>2, <2>1 DEF ResolutionAwaits
  <2> HIDE DEF local
  <2> QED
    BY <1>1, <2>1, <2>2, <2>3, ResolutionMoves
<1>6. ASSUME ObservationAnswered(r)
      PROVE  VoiceInv'
  <2>1. own.at = "observation"
    BY <1>6 DEF ObservationAnswered, Answering
  <2> DEFINE local == [at |-> "ended", mode |-> "voice", profile |-> own.profile, observation |-> own.answer,
                       policy |-> own.policy, started |-> own.started,
                       evidence |-> MatchEvidence(own.profile, own.answer, own.policy, own.started)]
  <2>2. \/ \E reason : TextOnly(r, reason)
        \/ /\ ParseVoiceProviderObservation(own.answer, own.started) /\ own.answer.claims = {}
           /\ AgreesWithProfile(own.answer, own.profile) /\ Proceeds(r, local)
    BY <1>6 DEF ObservationAnswered, Offered
  <2>3. ParseVoiceProviderObservation(own.answer, own.started) /\ own.answer.claims = {}
          /\ AgreesWithProfile(own.answer, own.profile) => VouchesFor(local)
    BY <1>2, <2>1 DEF VouchesFor, ParseVoiceProviderObservation, Accepted
  <2> HIDE DEF local
  <2> QED
    BY <1>1, <2>1, <2>2, <2>3, ResolutionMoves
<1> QED
  BY <1>3, <1>4, <1>5, <1>6

LEMMA SpeakingHolds ==
    ASSUME VoiceInv, NEW profile, NEW primaryAvailable, NEW available, NEW instant \in 0..MaxVoiceTime,
           ResolveVoiceAvailability(profile, primaryAvailable, available, instant)
    PROVE  VoiceInv'
<1> DEFINE said(selector) == [profile |-> profile, moment |-> instant, selector |-> selector]
<1>1. PICK evidence \in SealedEvidence, selector \in ChosenSelectors(profile, primaryAvailable, available) :
        EvidenceServes(profile, evidence, instant) /\ spoken' = <<said(selector)>>
  BY DEF ResolveVoiceAvailability
<1>2. resolutions' = resolutions /\ voiceClock' = voiceClock
  BY DEF ResolveVoiceAvailability
<1>3. PICK r \in Resolutions : Answering(r, "ended") /\ resolutions[r].mode = "voice" /\ evidence = resolutions[r].evidence
  BY DEF SealedEvidence
<1> DEFINE own == resolutions[r]
<1>4. VouchesFor(own)
  BY <1>3 DEF VoiceInv, ResolutionAwaits, Answering
<1>5. /\ own.profile.primary.language = own.profile.language /\ own.profile.primary.gender = own.profile.gender
      /\ own.profile \in ValidatedProfiles
  BY <1>4, ValidatedProfile DEF VouchesFor
<1>6. /\ profile.enabled /\ IsFreshWindow(evidence.from, evidence.until, instant)
      /\ evidence.profile = profile.id /\ evidence.language = profile.language /\ evidence.gender = profile.gender
      /\ evidence.selector.gender = profile.primary.gender
      /\ evidence.selector.language = profile.primary.language
      /\ profile.id = "neo" => evidence.gender = "masculine"
  BY <1>1 DEF EvidenceServes
<1>7. /\ evidence.profile = own.profile.id /\ evidence.selector = own.profile.primary
      /\ evidence.language = own.observation.language /\ evidence.gender = own.observation.gender
      /\ evidence.from = own.started /\ evidence.until = own.started + own.policy.evidenceTtl
  BY <1>3, <1>4 DEF VouchesFor, MatchEvidence
<1>8. /\ own.observation.language = own.profile.language /\ own.observation.gender = own.profile.gender
      /\ own.profile.id = "neo" => own.observation.language = "ru-RU"
  BY <1>4 DEF VouchesFor, AgreesWithProfile
<1>9. profile.primary.gender = profile.gender /\ profile.primary.language = profile.language
  BY <1>5, <1>6, <1>7, <1>8
<1>10. selector.gender = profile.gender /\ (selector = profile.primary \/ profile.fallbackMode = "same-gender-only")
  BY <1>1, <1>9 DEF ChosenSelectors
<1>11. profile \in ValidatedProfiles /\ profile.id = "neo" => selector = profile.primary
  BY <1>10, ValidatedProfile
<1>12. profile.id = "neo" => profile.language = "ru-RU" /\ profile.gender = "masculine"
  BY <1>6, <1>7, <1>8
<1>13. Sound(said(selector))
  BY <1>6, <1>9, <1>10, <1>11, <1>12 DEF Sound
<1>14. Vouched(said(selector))
  <2>1. instant \in own.started .. (own.started + own.policy.evidenceTtl - 1)
    BY <1>4, <1>6, <1>7, VoiceAssumption DEF VouchesFor, IsFreshWindow
  <2> QED
    BY <1>3, <1>4, <1>5, <1>6, <1>7, <2>1 DEF Vouched, VouchesFor
<1> HIDE DEF said
<1>15. DOMAIN spoken' = {1} /\ spoken'[1] = said(selector)
  BY <1>1
<1>16. \A i \in DOMAIN spoken' : Sound(spoken'[i]) /\ Vouched(spoken'[i])
  BY <1>13, <1>14, <1>15
<1> QED
  BY <1>2, <1>16 DEF VoiceInv, ResolutionAwaits, VouchesFor, Sound, Vouched, Answering

(***************************************************************************)
(* Whatever profile, validated or not, and whatever moment a caller        *)
(* brings, a voice is chosen only for an enabled profile whose id, language *)
(* and gender a resolution of a validated profile has seen at a provider,  *)
(* at a moment its evidence covers, with a selector of the profile's       *)
(* gender; a validated Neo only with its primary voice                     *)
(* (resolveVoiceAvailability).                                             *)
(***************************************************************************)
THEOREM VoicesAreVouchedFor == VoiceSpec => []VoiceIsVouchedFor
<1>1. VoiceInit => VoiceInv
  BY DEF VoiceInit, VoiceInv, ResolutionAwaits
<1>2. VoiceInv /\ [VoiceNext]_voiceVars => VoiceInv'
  <2> SUFFICES ASSUME VoiceInv, VoiceNext \/ UNCHANGED voiceVars
               PROVE  VoiceInv'
    OBVIOUS
  <2>1. CASE UNCHANGED voiceVars \/ VoiceClockTicks
    BY <2>1 DEF voiceVars, VoiceClockTicks, VoiceInv, ResolutionAwaits, VouchesFor, Sound, Vouched, Answering
  <2> QED
    BY <2>1, ResolutionHolds, SpeakingHolds DEF VoiceNext
<1>3. VoiceInv => VoiceIsVouchedFor
  BY DEF VoiceInv, Sound, Vouched, VoiceIsVouchedFor
<1> QED
  BY <1>1, <1>2, <1>3, PTL DEF VoiceSpec
===============================================================================
