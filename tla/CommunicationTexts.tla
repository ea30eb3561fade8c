-------------------------- MODULE CommunicationTexts --------------------------
(* What a text passes on its way from a transport to the provider and back
   (core/communication/domain and core/communication/policy): the observation of a
   message, the principal issued for its turn, the prompt assembled for it, the
   output sealed for delivery, and the kill switch every turn reads.  All texts are
   read by the scanner of SensitiveData; a length stands for UTF-8 bytes. *)
EXTENDS SensitiveData, Checks

CONSTANTS
    MaxObservedString,      \* what the snapshot of an observation admits; less than the bound of its text
    MaxObservationText, MaxOwnerText, MaxExcerpts, MaxExcerptText, MaxExcerptsTotal,
    MaxContextLines, MaxContextTotal, MaxPromptTotal, MaxModelOutput, MaxReference,
    OfferedObservations, OfferedPrompts, OfferedOutputs, OfferedSwitches,
    ObservedTurns, MaxEvidence,  \* the turns evidence is sealed for
    OfferedClaims, MemoryReads   \* owners and conversations bound to turns; reads of memory

VARIABLES answer,       \* of the last request to a policy
          evidence,     \* the sealed admission evidence: its turn, and if it is consumed
          principals    \* the principals issued, with their claims and the evidence they rest on

textVars == <<scan, answer, evidence, principals>>

-------------------------------------------------------------------------------
(* Texts and references. *)

\* CR and CRLF become LF.
CanonicalizeLineEndings(text) ==
    FlattenSeq([i \in DOMAIN text |->
        CASE text[i] # "return" -> <<text[i]>>
          [] text[i] = "return" /\ i < Len(text) /\ text[i + 1] = "newline" -> <<>>
          [] OTHER -> <<"newline">>])

NormalizeText(text, max) ==
    LET canonical == CanonicalizeLineEndings(text)
    IN  [text |-> canonical,
         code |-> FirstFailure(<<
             Check("surrogate" \notin Range(canonical), "INVALID_UNICODE"),
             Check("control" \notin Range(canonical), "CONTROL_CHAR"),
             Check(Len(canonical) <= max, "UTF8_TOO_LARGE")>>)]

ParseBoundedToken(value, max) ==
    FirstFailure(<<
        Check(value.string, "MALFORMED"), Check(value.length > 0, "EMPTY"),
        Check(~value.blank, "WHITESPACE"), Check(~value.control, "CONTROL_CHAR"),
        Check(value.length <= max, "TOO_LONG"), Check(value.visible, "INVALID_CHARSET")>>)

\* Blanks are admitted; null stands for no timestamp.
ParseUntrustedSourceTimestamp(value) ==
    IF value.null THEN "ok"
    ELSE FirstFailure(<<
        Check(value.string, "MALFORMED"), Check(value.length > 0, "EMPTY"),
        Check(value.length <= MaxReference, "TOO_LONG"), Check(~value.control, "CONTROL_CHAR")>>)

References == {"transportInstance", "externalMessage", "externalConversation", "externalSender"}

\* The observation as one plain object of its six fields and nothing else.
ExactObservation(o) ==
    /\ o.plain /\ o.exact
    /\ Len(o.text) <= MaxObservedString
    /\ \A r \in References : o.references[r].length <= MaxObservedString

ParseTransportTextObservation(o) ==
    FirstFailure(<<
        Check(~o.claimsAuthority, "FORBIDDEN_FIELD"),
        Check(ExactObservation(o), "MALFORMED"),
        Check(\A r \in References : ParseBoundedToken(o.references[r], MaxReference) = "ok", "INVALID_REFERENCE"),
        Check(ParseUntrustedSourceTimestamp(o.sourceTimestamp) = "ok", "INVALID_TIMESTAMP"),
        Check(NormalizeText(o.text, MaxObservationText).code = "ok", "INVALID_TEXT")>>)

\* Text, sender and times are no part of the key.
DeriveIdempotencyKey(o, bindingVersion) ==
    <<o.references["transportInstance"], o.references["externalConversation"],
      o.references["externalMessage"], bindingVersion>>

ReadObservation(o) ==
    /\ answer' = [kind |-> "observation", input |-> o, code |-> ParseTransportTextObservation(o),
                  text |-> NormalizeText(o.text, MaxObservationText).text]
    /\ UNCHANGED <<scan, evidence, principals>>

-------------------------------------------------------------------------------
(* The principal of a turn: issued once, for evidence the ledger sealed for it. *)

SealAdmissionEvidence(turn) ==
    /\ Len(evidence) < MaxEvidence
    /\ evidence' = Append(evidence, [turn |-> turn, consumed |-> FALSE])
    /\ UNCHANGED <<scan, answer, principals>>

ConsumeAdmissionEvidence(e, turn) ==
    IF e \notin DOMAIN evidence THEN "ADMISSION_EVIDENCE_INVALID"
    ELSE FirstFailure(<<
        Check(~evidence[e].consumed, "ADMISSION_EVIDENCE_ALREADY_CONSUMED"),
        Check(evidence[e].turn = turn, "BINDING_MISMATCH")>>)

IssuePrincipal(e, turn, claims) ==
    /\ LET code == ConsumeAdmissionEvidence(e, turn)
       IN  IF code = "ok"
           THEN /\ evidence' = [evidence EXCEPT ![e].consumed = TRUE]
                /\ principals' = Append(principals, [turn |-> turn, claims |-> claims, evidence |-> e])
           ELSE UNCHANGED <<evidence, principals>>
    /\ UNCHANGED <<scan, answer>>

\* What memory may be read for a turn: its principal's own, for the prompt, in bounds.
AuthorizeCommunicationMemoryRead(p, read) ==
    IF p \notin DOMAIN principals THEN "FORGED_PRINCIPAL"
    ELSE FirstFailure(<<
        Check(principals[p].claims.owner = read.claims.owner, "OWNER_MISMATCH"),
        Check(principals[p].claims.conversation = read.claims.conversation, "CONVERSATION_MISMATCH"),
        Check(read.purpose = "text-prompt-context", "INVALID_PURPOSE"),
        Check(read.maxRecords \in 1 .. MaxExcerpts, "INVALID_BOUNDS"),
        Check(read.maxTotalBytes \in 1 .. MaxExcerptsTotal, "INVALID_BOUNDS"),
        Check(read.namespace \in {"none", "personal"}, "NAMESPACE_DENIED")>>)
AuthorizeRead(p, read) ==
    /\ answer' = [kind |-> "read", principal |-> p, read |-> read,
                  code |-> AuthorizeCommunicationMemoryRead(p, read)]
    /\ UNCHANGED <<scan, evidence, principals>>

-------------------------------------------------------------------------------
(* The prompt. *)

Line(text) == <<"word", "space">> \o text    \* what stands before a text in its line
JoinLines(lines) ==
    FlattenSeq([i \in DOMAIN lines |-> IF i = 1 THEN lines[i] ELSE <<"newline">> \o lines[i]])
SumUpTo(lengths, n) == FoldSet(LAMBDA i, sum : sum + lengths[i], 0, 1 .. n)

Section(kind, body, executable) == [kind |-> kind, body |-> body, instructionsExecutable |-> executable]
FixedBody == <<"word">>
TitleLength == 1

BuildMemorySection(input) ==
    LET texts == [i \in DOMAIN input.excerpts |-> NormalizeText(input.excerpts[i], MaxExcerptText)]
        lengths == [i \in DOMAIN texts |-> Len(texts[i].text)]
    IN  [code |-> FirstFailure(
            <<Check(Len(texts) <= MaxExcerpts, "INVALID_INPUT")>>
            \o FlattenSeq([i \in DOMAIN texts |->
                  <<Check(texts[i].code = "ok", "INVALID_INPUT"),
                    Check(SumUpTo(lengths, i) <= MaxExcerptsTotal, "PAYLOAD_TOO_LARGE")>>])),
         section |-> Section("memory-context", JoinLines([i \in DOMAIN texts |-> Line(texts[i].text)]), FALSE)]

\* The summary is bounded by itself and not counted in the total.
BuildActiveContextSection(input) ==
    LET texts == [i \in DOMAIN input.context |-> NormalizeText(input.context[i], MaxContextTotal)]
        lengths == [i \in DOMAIN texts |-> 1 + Len(texts[i].text)]
        summary == [i \in DOMAIN input.summary |-> NormalizeText(input.summary[i], MaxContextTotal)]
        lines == texts \o summary
    IN  [code |-> FirstFailure(
            <<Check(Len(texts) <= MaxContextLines, "INVALID_INPUT")>>
            \o FlattenSeq([i \in DOMAIN texts |->
                  <<Check(texts[i].code = "ok", "INVALID_INPUT"),
                    Check(SumUpTo(lengths, i) <= MaxContextTotal, "PAYLOAD_TOO_LARGE")>>])
            \o [i \in DOMAIN summary |-> Check(summary[i].code = "ok", "INVALID_INPUT")]),
         section |-> Section("active-conversation-context",
                             JoinLines([i \in DOMAIN lines |-> Line(lines[i].text)]), FALSE)]

BuildOwnerTextSection(input) ==
    LET owner == NormalizeText(input.ownerText, MaxOwnerText)
    IN  [code |-> IF owner.code = "ok" THEN "ok" ELSE "INVALID_INPUT",
         section |-> Section("owner-text", owner.text, FALSE)]

\* The scanner's answer when it is there, and a failure when it is not.
ScanSection(body, available) ==
    LET scanned == ScanSensitiveData(body)
    IN  IF ~available \/ ~scanned.ok THEN "SECRET_SCAN_UNAVAILABLE"
        ELSE Check(scanned.value.decision = "allow" /\ scanned.value.findings = {}, "REJECTED")

SectionsOf(input) ==
    <<Section("security-system", FixedBody, TRUE), Section("neo-persona", FixedBody, TRUE),
      BuildMemorySection(input).section, BuildActiveContextSection(input).section,
      BuildOwnerTextSection(input).section>>
TotalUpTo(sections, n) == SumUpTo([i \in DOMAIN sections |-> TitleLength + Len(sections[i].body)], n)

\* Section after section is scanned and counted; "fails" is the scan the port fails at.
AssembleTextPrompt(input, fails) ==
    LET sections == SectionsOf(input)
    IN  [code |-> FirstFailure(
            <<Check(input.fixedBodies, "INVALID_INPUT"), BuildMemorySection(input).code,
              BuildActiveContextSection(input).code, BuildOwnerTextSection(input).code>>
            \o FlattenSeq([i \in DOMAIN sections |->
                  <<ScanSection(sections[i].body, i # fails),
                    Check(TotalUpTo(sections, i) <= MaxPromptTotal, "PAYLOAD_TOO_LARGE")>>])),
         sections |-> sections, total |-> TotalUpTo(sections, Len(sections))]

AssemblePrompt(input) ==
    /\ \E fails \in {0, 1, 4} :
          answer' = [kind |-> "prompt", input |-> input] @@ AssembleTextPrompt(input, fails)
    /\ UNCHANGED <<scan, evidence, principals>>

-------------------------------------------------------------------------------
(* The output: what was scanned is normalised, bounded and sealed. *)

SealValidatedTextOutput(source, text) ==
    LET normalized == NormalizeText(text, MaxModelOutput)
    IN  [code |-> FirstFailure(<<
            Check(source \in {"llm", "deterministic-notice"}, "INVALID_SOURCE"),
            IF normalized.code = "UTF8_TOO_LARGE" THEN "TEXT_TOO_LARGE"
            ELSE Check(normalized.code = "ok", "INVALID_TEXT"),
            Check(Len(normalized.text) >= 1, "TEXT_TOO_SHORT")>>),
         text |-> normalized.text]

ValidateTextOutput(source, text, available) ==
    LET sealed == SealValidatedTextOutput(source, text)
    IN  [code |-> FirstFailure(<<
            CASE ScanSection(text, available) = "SECRET_SCAN_UNAVAILABLE" -> "scanner-unavailable"
              [] ScanSection(text, available) = "REJECTED" -> "rejected"
              [] OTHER -> "ok",
            Check(sealed.code = "ok", "rejected")>>),
         text |-> sealed.text]

NoticeReasons ==
    {"provider-unavailable", "quota-unavailable", "known-timeout", "cancelled-before-invocation"}
NoticeText == <<"word">>
CreateDeterministicNotice(reason, available) ==
    LET validated == ValidateTextOutput("deterministic-notice", NoticeText, available)
    IN  [code |-> IF reason \in NoticeReasons /\ validated.code = "ok" THEN "ok" ELSE "forbidden",
         text |-> validated.text]

ValidateOutput(source, text) ==
    /\ \E available \in BOOLEAN :
          answer' = [kind |-> "output", source |-> source] @@ ValidateTextOutput(source, text, available)
    /\ UNCHANGED <<scan, evidence, principals>>
CreateNotice(reason) ==
    /\ \E available \in BOOLEAN :
          answer' = [kind |-> "notice", reason |-> reason] @@ CreateDeterministicNotice(reason, available)
    /\ UNCHANGED <<scan, evidence, principals>>

-------------------------------------------------------------------------------
(* The kill switch: an observation is an exact plain object of thirteen booleans. *)

Availabilities ==
    <<"communicationEnabled", "llmEnabled", "deliveryEnabled", "auditAvailable", "ledgerAvailable",
      "scannerAvailable">>
SwitchFields ==
    Range(Availabilities) \cup
    {"conversationStateRequired", "conversationStateAvailable", "configValid",
     "encryptionLiveGateSatisfied", "offlineOnly", "providerRouteAllowed", "telegramRouteAllowed"}

ParseKillSwitchObservation(observation) ==
    Check(observation.exact /\ \A f \in SwitchFields : observation.fields[f] \in {"true", "false"}, "MALFORMED")

\* The first switch that is off names the denial.
EvaluateKillSwitchSnapshot(fields) ==
    LET On(f) == fields[f] = "true"
    IN  FirstFailure(
            [i \in DOMAIN Availabilities |-> Check(On(Availabilities[i]), Availabilities[i])]
            \o <<Check(On("conversationStateRequired") => On("conversationStateAvailable"),
                       "conversationStateAvailable"),
                 Check(On("configValid"), "configValid"),
                 Check(On("encryptionLiveGateSatisfied"), "encryptionLiveGateSatisfied"),
                 Check(On("offlineOnly"), "configValid"),
                 Check(~On("providerRouteAllowed"), "providerRouteAllowed"),
                 Check(~On("telegramRouteAllowed"), "telegramRouteAllowed")>>)

ApplyKillSwitchPolicy(observation) ==
    IF ParseKillSwitchObservation(observation) # "ok" THEN "MALFORMED"
    ELSE EvaluateKillSwitchSnapshot(observation.fields)

ReadSwitch(observation) ==
    /\ answer' = [kind |-> "switch", input |-> observation, code |-> ApplyKillSwitchPolicy(observation)]
    /\ UNCHANGED <<scan, evidence, principals>>

-------------------------------------------------------------------------------
NoAnswer == [kind |-> "none"]

TextsInit == ScanInit /\ answer = NoAnswer /\ evidence = <<>> /\ principals = <<>>

PolicyNext ==
    /\ answer = NoAnswer /\ scan = NoScan /\ evidence = <<>>
    /\ \/ \E o \in OfferedObservations : ReadObservation(o)
       \/ \E input \in OfferedPrompts : AssemblePrompt(input)
       \/ \E output \in OfferedOutputs : ValidateOutput(output.source, output.text)
       \/ \E reason \in NoticeReasons \cup {"outcome-unknown"} : CreateNotice(reason)
       \/ \E observation \in OfferedSwitches : ReadSwitch(observation)
PrincipalNext ==
    /\ answer = NoAnswer /\ scan = NoScan
    /\ \/ \E turn \in ObservedTurns :
             \/ SealAdmissionEvidence(turn)
             \/ \E e \in 1 .. MaxEvidence, claims \in OfferedClaims : IssuePrincipal(e, turn, claims)
       \/ \E p \in 0 .. Len(principals), read \in MemoryReads : AuthorizeRead(p, read)
TextsNext ==
    \/ PolicyNext \/ PrincipalNext
    \/ answer = NoAnswer /\ evidence = <<>> /\ ScanNext /\ UNCHANGED <<answer, evidence, principals>>
TextsSpec == TextsInit /\ [][TextsNext]_textVars

-------------------------------------------------------------------------------
Answered(kind) == answer.kind = kind /\ answer.code = "ok"
Clean(text) == ShowsNoSecret(text) /\ ReportOf(text).decision = "allow"

\* A prompt has its five sections in their order, the two fixed ones alone may
\* instruct, none holds a secret although it was joined from many texts, and all
\* bounds hold (text-prompt-policy.ts:211, "exactly five prompt sections in
\* normative order with fixed security and Neo persona").
PromptsAreVetted ==
    Answered("prompt") =>
        /\ [i \in DOMAIN answer.sections |-> answer.sections[i].kind] =
              <<"security-system", "neo-persona", "memory-context", "active-conversation-context", "owner-text">>
        /\ \A i \in DOMAIN answer.sections :
              /\ Clean(answer.sections[i].body)
              /\ answer.sections[i].instructionsExecutable => answer.sections[i].body = FixedBody
        /\ answer.total <= MaxPromptTotal
        /\ Range(answer.sections[5].body) \cap {"return", "control", "surrogate"} = {}

\* What is sealed for delivery is clean as it will be sent, not only as it was
\* scanned before its line endings were made canonical; a notice is only sent for a
\* failure that is known.
OutputsAreVetted ==
    /\ Answered("output") \/ Answered("notice") =>
          Clean(answer.text) /\ Len(answer.text) \in 1 .. MaxModelOutput
    /\ Answered("notice") => answer.reason \in NoticeReasons

\* An accepted observation claims nothing and holds no more than its bounds, and a
\* turn is eligible only offline with everything it needs in reach.
ObservationsAreVetted ==
    /\ Answered("observation") =>
          /\ ~answer.input.claimsAuthority /\ Len(answer.text) <= MaxObservationText
          /\ Range(answer.text) \cap {"return", "control", "surrogate"} = {}
    /\ Answered("switch") =>
          LET On(f) == answer.input.fields[f] = "true"
          IN  /\ \A f \in Range(Availabilities) \cup {"configValid", "encryptionLiveGateSatisfied", "offlineOnly"} : On(f)
              /\ ~On("providerRouteAllowed") /\ ~On("telegramRouteAllowed")

\* Evidence yields one principal, of the turn it was sealed for, and memory is read
\* for a principal that was issued so and whose claims it matches.
PrincipalsAreFresh ==
    /\ \A i \in DOMAIN principals :
          /\ principals[i].evidence \in DOMAIN evidence
          /\ principals[i].turn = evidence[principals[i].evidence].turn
          /\ \A j \in DOMAIN principals \ {i} : principals[j].evidence # principals[i].evidence
    /\ Answered("read") => \E i \in DOMAIN principals :
          evidence[principals[i].evidence].consumed /\ principals[i].claims = answer.read.claims

\* Nothing passes a policy of the communication path that it should have stopped.
TextsAreVetted ==
    ScansHideSecrets /\ PromptsAreVetted /\ OutputsAreVetted /\ ObservationsAreVetted /\ PrincipalsAreFresh
===============================================================================
