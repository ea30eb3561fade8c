---------------------------- MODULE VoiceResolution ----------------------------
(***************************************************************************)
(* Whether the assistant may speak with a voice: the validation of a voice *)
(* profile, the gateway that turns what a provider reports into evidence,  *)
(* and the decision made with that evidence.  A candidate is its shape,    *)
(* the set of its fields that fail their parser, and its values; any doubt *)
(* ends in text.  The three ports answer with anything offered, while the  *)
(* clock goes on.                                                          *)
(***************************************************************************)
EXTENDS ExtensionRules

CONSTANTS Resolutions, ProfileCandidates, RequestedSelectors, OfferedVoicePolicies, OfferedConfigurations, OfferedVoices,
    OfferedFallbacks,    \* lists of fallback indexes a caller says are at hand
    MaxVoiceTime

ASSUME VoiceAssumption == MaxVoiceTime \in Nat

VARIABLES voiceClock, resolutions, spoken
voiceVars == <<voiceClock, resolutions, spoken>>

NeoRequiredTags == {"calm", "restrained"}    \* two of the eight
NeoForbiddenTags == {"feminine", "voice-clone"}    \* two of the seven

-----------------------------------------------------------------------------
(* validateVoiceProfile *)

SelectorParts ==
    << <<"object", "INVALID_PROFILE">>, <<"provider field", "PROVIDER_SPECIFIC_SELECTOR">>,
       <<"fields", "PROVIDER_SPECIFIC_SELECTOR">>, <<"language", "MALFORMED_LANGUAGE">>,
       <<"gender", "UNKNOWN_GENDER_PRESENTATION">>, <<"styleTags", "INVALID_PROFILE">>,
       <<"identity", "NEO_IDENTITY_FORBIDDEN">> >>
ParseSelector(selector) == FirstFailure(Parsed(selector, SelectorParts))

ProfileParts ==
    << <<"too complex", "VOICE_PROFILE_SCAN_LIMIT_EXCEEDED">>, <<"plain data", "INVALID_PROFILE">>,
       <<"fallbackMode absent", "MISSING_FALLBACK_POLICY">>, <<"fields", "INVALID_PROFILE">>,
       <<"schemaVersion", "UNSUPPORTED_SCHEMA_VERSION">>, <<"language", "MALFORMED_LANGUAGE">>,
       <<"gender", "UNKNOWN_GENDER_PRESENTATION">>, <<"wording", "INVALID_PROFILE">>,
       <<"fallbackMode", "MISSING_FALLBACK_POLICY">>, <<"flags", "INVALID_PROFILE">> >>
ScanParts ==
    << <<"scan limit", "VOICE_PROFILE_SCAN_LIMIT_EXCEEDED">>, <<"scan failed", "VOICE_PROFILE_SCAN_FAILED">>,
       <<"secret", "VOICE_PROFILE_SENSITIVE_DATA">> >>

ForbiddenFlags(profile) ==
    << Check(~profile.allowVoiceCloning, "VOICE_CLONING_FORBIDDEN"),
       Check(~profile.allowIdentityImitation, "IDENTITY_IMITATION_FORBIDDEN") >>
ValidateNeoInvariants(profile) ==
    IF profile.id # "neo" THEN <<>>
    ELSE << Check(profile.language = "ru-RU", "NEO_LANGUAGE_REQUIRED"),
            Check(profile.gender = "masculine", "NEO_MASCULINE_REQUIRED"),
            Check(profile.fallbackMode = "text-only", "NEO_FALLBACK_REQUIRED"),
            Check(~profile.allowCrossGenderFallback, "CROSS_GENDER_FALLBACK_FORBIDDEN") >>
         \o ForbiddenFlags(profile)
         \o << Check(NeoRequiredTags \subseteq profile.styleTags, "NEO_STYLE_TAG_REQUIRED"),
               Check(profile.styleTags \cap NeoForbiddenTags = {}, "NEO_FORBIDDEN_STYLE_TAG"),
               Check("identity" \notin profile.malformed, "NEO_IDENTITY_FORBIDDEN") >>
PrimaryChecks(profile) ==
    << ParseSelector(profile.primary),
       Check(profile.primary.language = profile.language /\ profile.primary.gender = profile.gender, "PRIMARY_VOICE_MISMATCH"),
       Check("fallbacks" \notin profile.malformed, "MISSING_FALLBACK_POLICY") >>
FallbackChecks(profile, selector) ==
    << ParseSelector(selector),
       Check(selector.gender = profile.gender \/ profile.allowCrossGenderFallback, "CROSS_GENDER_FALLBACK_FORBIDDEN"),
       Check(profile.id = "neo" => selector.gender = "masculine", "NEO_MASCULINE_REQUIRED") >>

ValidateVoiceProfile(profile) ==
    FirstFailure(<<
        FirstFailure(Parsed(profile, ProfileParts)), FirstFailure(ForbiddenFlags(profile)),
        FirstFailure(ValidateNeoInvariants(profile)), FirstFailure(PrimaryChecks(profile)),
        FirstFailure([i \in DOMAIN profile.fallbacks |-> FirstFailure(FallbackChecks(profile, profile.fallbacks[i]))]),
        Check(~profile.allowCrossGenderFallback, "CROSS_GENDER_FALLBACK_FORBIDDEN"),
        FirstFailure(Parsed(profile, ScanParts))>>)

ValidatedProfiles == {profile \in ProfileCandidates : ~Fails(ValidateVoiceProfile(profile))}

-----------------------------------------------------------------------------
(* VoiceResolutionGateway.resolve *)

VoiceInit ==
    /\ voiceClock = 0
    /\ resolutions = [r \in Resolutions |-> [at |-> "unused"]]
    /\ spoken = <<>>

VoiceClockTicks == voiceClock < MaxVoiceTime /\ voiceClock' = voiceClock + 1 /\ UNCHANGED <<resolutions, spoken>>

Answering(r, stage) == resolutions[r].at = stage
\* A resolution given up for text keeps nothing.
Proceeds(r, local) == resolutions' = [resolutions EXCEPT ![r] = local] /\ UNCHANGED <<voiceClock, spoken>>
TextOnly(r, reason) == Proceeds(r, [at |-> "ended", mode |-> "text-only", reason |-> reason])
OrFailure(answers) == answers \cup {[failed |-> TRUE]}
Offered(r) == resolutions[r].answer
Delivered(r) == "failed" \notin DOMAIN Offered(r)

(* The request is judged and copied before the first await; the moment is fixed for the whole resolution. *)
ResolveVoice(r, profile, selector, referenceFilled) ==
    /\ Answering(r, "unused")
    /\ LET admitted == FirstFailure(<<Check(profile \in ValidatedProfiles, "unvalidated"), Check(profile.enabled, "disabled"),
                                      Check(selector = profile.primary, "selector mismatch"),
                                      Check(referenceFilled, "reference")>>) IN
       IF Fails(admitted) THEN TextOnly(r, admitted)
       ELSE \E answer \in OrFailure(OfferedVoicePolicies) :
              Proceeds(r, [at |-> "policy", profile |-> profile, started |-> voiceClock, answer |-> answer])

VoicePolicyAnswered(r) ==
    /\ Answering(r, "policy")
    /\ IF /\ Delivered(r) /\ ExactObservation(Offered(r))
          /\ IsFreshWindow(Offered(r).from, Offered(r).until, resolutions[r].started)
          /\ Offered(r).evidenceTtl \in 1..MaxTtl
       THEN \E answer \in OrFailure(OfferedConfigurations) :
              Proceeds(r, [at |-> "configuration", profile |-> resolutions[r].profile, started |-> resolutions[r].started,
                           policy |-> Offered(r), answer |-> answer])
       ELSE TextOnly(r, "policy")

\* A configuration that allows a clone, an imitation or a celebrity is refused.
ParseVoiceProviderConfiguration(configuration, now) == Accepted(configuration, [allows |-> {}], now)

ConfigurationAnswered(r) ==
    /\ Answering(r, "configuration")
    /\ IF /\ Delivered(r)
          /\ ParseVoiceProviderConfiguration(Offered(r), resolutions[r].started)
          /\ Offered(r).policyVersion = resolutions[r].policy.policyVersion
       THEN \E answer \in OrFailure(OfferedVoices) :
              Proceeds(r, [at |-> "observation", profile |-> resolutions[r].profile, started |-> resolutions[r].started,
                           policy |-> resolutions[r].policy, configuration |-> Offered(r), answer |-> answer])
       ELSE TextOnly(r, "configuration")

ParseVoiceProviderObservation(observation, now) == Accepted(observation, [correlation |-> "own"], now)
FactsOfVoice == {"provider", "revision", "reference", "source", "language", "gender"}
AgreesWithConfiguration(observation, configuration) == \A fact \in FactsOfVoice : observation[fact] = configuration[fact]
AgreesWithProfile(observation, profile) ==
    /\ observation.language = profile.language /\ observation.gender = profile.gender
    /\ profile.id = "neo" => observation.language = "ru-RU" /\ observation.gender = "masculine"

\* The evidence is dated with the moment the resolution began.
MatchEvidence(profile, observation, policy, started) ==
    [profile |-> profile.id, selector |-> profile.primary, language |-> observation.language, gender |-> observation.gender,
     from |-> started, until |-> started + policy.evidenceTtl]

ObservationAnswered(r) ==
    /\ Answering(r, "observation")
    /\ IF /\ Delivered(r)
          /\ ParseVoiceProviderObservation(Offered(r), resolutions[r].started)
          /\ AgreesWithConfiguration(Offered(r), resolutions[r].configuration)
          /\ AgreesWithProfile(Offered(r), resolutions[r].profile)
          /\ Offered(r).claims = {}
          /\ ~Offered(r).secret
       THEN Proceeds(r, [at |-> "ended", mode |-> "voice", profile |-> resolutions[r].profile, observation |-> Offered(r),
                         policy |-> resolutions[r].policy, started |-> resolutions[r].started,
                         evidence |-> MatchEvidence(resolutions[r].profile, Offered(r), resolutions[r].policy,
                                                    resolutions[r].started)])
       ELSE TextOnly(r, "observation")

-----------------------------------------------------------------------------
(* resolveVoiceAvailability *)

SealedEvidence == {resolutions[r].evidence : r \in {s \in Resolutions : Answering(s, "ended") /\ resolutions[s].mode = "voice"}}

EvidenceOfAnyProfile(profile, evidence, now) ==    \* mutant
    /\ profile.enabled /\ IsFreshWindow(evidence.from, evidence.until, now)
    /\ evidence.language = profile.language /\ evidence.gender = profile.gender
EvidenceServes(profile, evidence, now) ==
    /\ profile.enabled
    /\ IsFreshWindow(evidence.from, evidence.until, now)
    /\ evidence.profile = profile.id /\ "schemaVersion" \notin profile.malformed
    /\ evidence.selector.language = profile.primary.language /\ evidence.selector.gender = profile.primary.gender
    /\ evidence.language = profile.language /\ evidence.gender = profile.gender
    /\ profile.id = "neo" => evidence.gender = "masculine"

\* The primary voice when there is one, else the first of the caller's list with the profile's gender.
ChosenSelectors(profile, primaryAvailable, available) ==
    LET usable(k) == /\ available[k] \in DOMAIN profile.fallbacks
                     /\ profile.fallbacks[available[k]].gender = profile.gender
    IN  IF primaryAvailable THEN {profile.primary}
        ELSE {profile.fallbacks[available[k]] :
                 k \in {j \in DOMAIN available : /\ profile.fallbackMode = "same-gender-only" /\ usable(j)
                                                /\ \A earlier \in 1..(j - 1) : ~usable(earlier)}}

(* Any profile may be brought, validated or not, and the moment is the caller's. *)
ResolveVoiceAvailability(profile, primaryAvailable, available, now) ==
    /\ \E evidence \in SealedEvidence, selector \in ChosenSelectors(profile, primaryAvailable, available) :
         /\ EvidenceServes(profile, evidence, now)
         /\ spoken' = <<[profile |-> profile, moment |-> now, selector |-> selector]>>
    /\ UNCHANGED <<voiceClock, resolutions>>

VoiceNext ==
    \/ VoiceClockTicks
    \/ \E r \in Resolutions :
         \/ VoicePolicyAnswered(r) \/ ConfigurationAnswered(r) \/ ObservationAnswered(r)
         \/ \E profile \in ProfileCandidates, selector \in RequestedSelectors, filled \in BOOLEAN :
              ResolveVoice(r, profile, selector, filled)
    \/ \E profile \in ProfileCandidates, primaryAvailable \in BOOLEAN, available \in OfferedFallbacks, now \in 0..MaxVoiceTime :
         ResolveVoiceAvailability(profile, primaryAvailable, available, now)

VoiceSpec == VoiceInit /\ [][VoiceNext]_voiceVars

-----------------------------------------------------------------------------
(***************************************************************************)
(* Whatever profile, evidence and moment a caller brings, a voice is       *)
(* chosen only for an enabled profile, at a moment within the policy's     *)
(* time to live after a resolution made for a validated profile of that    *)
(* id, in which the provider was seen, then in force, with the language    *)
(* and gender the profile has, and claimed to be nobody's clone.  The      *)
(* selector has the profile's gender; a profile called neo is masculine    *)
(* and Russian, and if it is validated it speaks with its primary voice    *)
(* only (resolve, then resolveVoiceAvailability, which asks neither        *)
(* whether the profile was validated nor what time it is).                 *)
(***************************************************************************)
VoiceIsVouchedFor ==
    \A i \in DOMAIN spoken :
      LET profile == spoken[i].profile
          selector == spoken[i].selector IN
      /\ profile.enabled
      /\ selector.gender = profile.gender
      /\ profile.id = "neo" => profile.language = "ru-RU" /\ selector.gender = "masculine"
      /\ profile.id = "neo" /\ profile \in ValidatedProfiles => selector = profile.primary /\ selector.language = "ru-RU"
      /\ \E r \in Resolutions :
           /\ Answering(r, "ended") /\ resolutions[r].mode = "voice"
           /\ resolutions[r].profile \in ValidatedProfiles /\ resolutions[r].profile.id = profile.id
           /\ spoken[i].moment \in resolutions[r].started..(resolutions[r].started + resolutions[r].policy.evidenceTtl - 1)
           /\ LET observation == resolutions[r].observation IN
              /\ observation.language = profile.language /\ observation.gender = profile.gender
              /\ observation.claims = {}
              /\ IsFreshWindow(observation.from, observation.until, resolutions[r].started)
===============================================================================
