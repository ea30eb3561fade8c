---------------------------- MODULE MemoryService ----------------------------
(***************************************************************************)
(* The memory access gateway, executeMemoryWrite and the two memory ports: *)
(* calls of several sessions run beside each other and give way at every   *)
(* await, a signal may abort one at any time, and the approval store, the  *)
(* records and the audit are shared.  A port of the host does its work at  *)
(* the call; its answer is read when the call resumes.                     *)
(***************************************************************************)
EXTENDS Integers, Checks, SequencesExt

-----------------------------------------------------------------------------
(* Who may do what in memory: the evidence a session is sealed from, the isolation of
   owners and namespaces, the validation of a grant against what is about to be written,
   the secret boundary and the limit of a query.  An untrusted object is its "shape", the
   set of its fields that fail their own parser, and its values. *)

CONSTANT QueryLimitMax    \* MEMORY_QUERY_LIMIT_MAX

MemoryRoles ==
    {"director", "tech-watchdog", "integration-engineer", "business-analyst", "marketing-strategist", "ai-scout",
     "personal-assistant", "security-guard"}
MemoryNamespaces == {"tvoe-vremya", "ai-my-time", "personal", "shared-public", "security-restricted"}
\* AI Scout handles untrusted material and never writes.
WriteRoles == MemoryRoles \ {"ai-scout"}
DeleteRoles == {"director", "personal-assistant", "security-guard"}

ValidateOperationContext(context) ==
    FirstFailure(<<Check(context.given, "MISSING_OPERATION_CONTEXT"),
                   Check(context.timeoutMs > 0, "INVALID_TIMEOUT"),
                   Check(context.deadline # "malformed", "INVALID_DEADLINE"),
                   Check(~context.aborted, "ALREADY_CANCELLED")>>)

Exact(input) == input.shape = "exact" /\ input.malformed = {}
Unrepeated(list) == list # <<>> /\ \A i, j \in DOMAIN list : list[i] = list[j] => i = j
ValidScope(scope) ==
    /\ Exact(scope)
    /\ scope.primary \in MemoryNamespaces
    /\ Unrepeated(scope.permitted) /\ \A i \in DOMAIN scope.permitted : scope.permitted[i] \in MemoryNamespaces
SameScope(left, right) ==
    /\ left.primary = right.primary
    /\ left.crossProjectPermitted = right.crossProjectPermitted
    /\ ToSet(left.permitted) = ToSet(right.permitted)

NoAccess == [sealed |-> FALSE]
\* The first of the roles is the session's role; the guard's role may not hide behind another.
SealAuthenticatedMemoryAccess(observation, context, now) ==
    IF /\ ValidateOperationContext(context) = "ok"
       /\ Exact(observation)
       /\ observation.activeNamespace \in MemoryNamespaces
       /\ Unrepeated(observation.roles) /\ \A i \in DOMAIN observation.roles : observation.roles[i] \in MemoryRoles
       /\ ValidScope(observation.projectScope)
       /\ observation.issuedAt < observation.expiresAt
       /\ observation.issuedAt <= now /\ now < observation.expiresAt
       /\ "security-guard" \in ToSet(observation.roles) => observation.roles[1] = "security-guard"
    THEN [sealed |-> TRUE, ownerId |-> observation.ownerId, actorId |-> observation.actorId,
          role |-> observation.roles[1], activeNamespace |-> observation.activeNamespace,
          projectScope |-> observation.projectScope]
    ELSE NoAccess

Restricted(namespace) == namespace = "security-restricted"
\* What the isolation of namespaces says of an operation outside the active one.
AcrossFreely(access, operation, namespace) ==    \* mutant
    Check(namespace # "personal" \/ operation # "write", "NAMESPACE_ISOLATED")
Across(access, operation, namespace) ==
    IF Restricted(namespace) \/ Restricted(access.activeNamespace)
    THEN Check(/\ access.role = "security-guard"
               /\ Restricted(namespace) /\ Restricted(access.activeNamespace), "SECURITY_RESTRICTED")
    ELSE IF namespace = access.activeNamespace THEN "ok"
    ELSE FirstFailure(<<
        Check("personal" \notin {namespace, access.activeNamespace}, "NAMESPACE_ISOLATED"),
        Check(operation \notin {"write", "delete"}, "NAMESPACE_ISOLATED"),
        Check(access.projectScope.crossProjectPermitted, "CROSS_PROJECT_NOT_PERMITTED"),
        Check(namespace \in ToSet(access.projectScope.permitted), "CROSS_PROJECT_NOT_PERMITTED")>>)

AuthorizeMemoryAccess(access, context, operation, ownerId, namespace) ==
    IF ~access.sealed THEN "MISSING_ACCESS_CONTEXT"
    ELSE FirstFailure(<<
        Check(ValidateOperationContext(context) = "ok", "INVALID_OPERATION_CONTEXT"),
        Check(namespace \in MemoryNamespaces, "MISSING_ACCESS_CONTEXT"),
        Check(ownerId = access.ownerId, "OWNER_MISMATCH"),
        Across(access, operation, namespace),
        Check(operation = "write" => access.role \in WriteRoles, "ROLE_NOT_PERMITTED"),
        Check(operation = "delete" => access.role \in DeleteRoles, "ROLE_NOT_PERMITTED")>>)

ApprovalEffects ==
    {"write", "delete", "execute", "external-send", "privilege-change", "memory-write", "integration-write",
     "exec", "schedule-write", "notifications-send", "secrets-read"}
ClassifyEffect(effect) ==
    CASE effect = "read" -> "allow"
      [] effect \in ApprovalEffects -> "approval-required"
      [] OTHER -> "deny"

\* A grant against the demand derived from the very write, at the time the write began.
ValidateApproval(grant, demand, now) ==
    FirstFailure(<<
        Check(Exact(grant) /\ ValidScope(grant.projectScope) /\ grant.namespace \in MemoryNamespaces, "MALFORMED_GRANT"),
        Check(ClassifyEffect(grant.effect) = "approval-required", "UNKNOWN_EFFECT"),
        Check(grant.issuedAt < grant.expiresAt, "INVALID_TIMESTAMP"),
        Check(grant.status \notin {"revoked", "unknown"}, "REVOKED"),
        Check(grant.status # "consumed", "ALREADY_CONSUMED"),
        Check(now < grant.expiresAt, "EXPIRED"),
        Check(grant.issuedAt <= now, "INVALID_TIMESTAMP"),
        Check(grant.ownerId = demand.ownerId, "OWNER_MISMATCH"),
        Check(grant.actorId = demand.actorId, "ACTOR_MISMATCH"),
        Check(grant.effect = demand.effect, "EFFECT_MISMATCH"),
        Check(grant.target = demand.target, "TARGET_MISMATCH"),
        Check(grant.namespace = demand.namespace, "NAMESPACE_MISMATCH"),
        Check(SameScope(grant.projectScope, demand.projectScope), "PROJECT_SCOPE_MISMATCH"),
        Check(grant.payloadDigest = demand.payloadDigest, "PAYLOAD_DIGEST_MISMATCH")>>)

\* Secret material in the content or anywhere in the metadata, or metadata too deep to be searched.
EvaluateMemorySecretBoundary(content) ==
    Check(/\ content.sensitivity # "secret-class"
          /\ ~content.secretData
          /\ content.metadata \notin {"holds a secret", "too large to search"}, "SECRET_CLASS_DENIED")

ReadMemoryQueryLimit(limit) == Check(limit \in 1 .. QueryLimitMax, "VALIDATION_FAILED")

-----------------------------------------------------------------------------
(* The calls of the service. *)

CONSTANTS Calls, Sessions, Requests, Grants, MaxContentLength, MaxContentBytes, MaxTime, MaxSeeds, NoApproval,
    EarlierRecords    \* what an earlier process left in the database

VARIABLES now, backend, calls, aborted, grants, consumed, records, ordinals, auditLog, seeds
memoryVars == <<now, backend, calls, aborted, grants, consumed, records, ordinals, auditLog, seeds>>
stores == <<grants, consumed, records, ordinals, auditLog>>

Idle == [at |-> "idle"]
At(stage) == {c \in Calls : calls[c].at = stage}
Request(c) == calls[c].request
Context(c) == [Request(c).context EXCEPT !.aborted = @ \/ c \in aborted]
Access(c) == calls[c].access
Goes(c, stage) == calls' = [calls EXCEPT ![c].at = stage]
\* The locals of a call that has written nothing end with it.
Ends(c, code) ==
    calls' = [calls EXCEPT ![c].at = "ended", ![c].code = code, ![c].trustedNow = 0,
                ![c].access = IF calls[c].wrote THEN @ ELSE NoAccess, ![c].grant = IF calls[c].wrote THEN @ ELSE NoApproval]

MemoryInit ==
    /\ now = 0
    /\ backend \in {"in-memory", "sqlite"}
    /\ calls = [c \in Calls |-> Idle]
    /\ aborted = {}
    /\ grants \in {<<>>} \cup {[id \in {g.approvalId} |-> g] : g \in Grants}
    /\ consumed = {} /\ seeds = 0
    /\ records = IF backend = "sqlite" THEN EarlierRecords ELSE {}
    /\ ordinals = Cardinality(records)
    /\ auditLog = {}

(* The owner's decision reaches the store, again perhaps for an approval it already knows. *)
Seed(grant) ==
    /\ seeds < MaxSeeds
    /\ seeds' = seeds + 1
    /\ grants' = [id \in DOMAIN grants \cup {grant.approvalId} |-> IF id = grant.approvalId THEN grant ELSE grants[id]]
    /\ UNCHANGED <<now, backend, calls, aborted, consumed, records, ordinals, auditLog>>

(* A grant is consumed once per nonce, whatever is seeded over it afterwards. *)
Consume(id, nonce) ==
    CASE <<id, nonce>> \in consumed -> "EXTERNAL_FAILURE"
      [] id \notin DOMAIN grants -> "VALIDATION_FAILED"
      [] grants[id].nonce # nonce -> "VALIDATION_FAILED"
      [] grants[id].status \in {"consumed", "revoked"} -> "EXTERNAL_FAILURE"
      [] OTHER -> "ok"

-----------------------------------------------------------------------------
(* The records, identified by owner, namespace and id, in the order of their first writing. *)

Key(record) == <<record.ownerId, record.namespace, record.recordId>>
Stored(key) == {r \in records : Key(r) = key}
\* An overwriting record takes the place of the one it overwrites.
PlaceOf(key) == IF Stored(key) = {} THEN ordinals + 1 ELSE (CHOOSE r \in Stored(key) : TRUE).ordinal

\* What the SQLite port stores has a bound in bytes; the map stores what it is given.
EncodeVerifiedWriteForStorage(content) == Check(content.bytes <= MaxContentBytes, "VALIDATION_FAILED")

\* The port authorises again, with the signal as it is now; a transaction that throws leaves nothing.
WriteOutcomes(c) ==
    LET allowed == AuthorizeMemoryAccess(Access(c), Context(c), "write", Access(c).ownerId, Request(c).namespace)
        encoded == EncodeVerifiedWriteForStorage(Request(c).content) IN
    IF allowed # "ok" THEN {allowed}
    ELSE CASE backend = "in-memory" -> {"ok"}
           [] backend = "sqlite" -> IF encoded # "ok" THEN {encoded, "closed"} ELSE {"ok", "EXTERNAL_FAILURE", "closed"}
RecordOf(c, approval) ==
    [ownerId |-> Access(c).ownerId, namespace |-> Request(c).namespace, recordId |-> Request(c).recordId,
     content |-> Request(c).content.redacted, approvalId |-> approval, writer |-> c,
     ordinal |-> PlaceOf(<<Access(c).ownerId, Request(c).namespace, Request(c).recordId>>)]
WriteRecord(c, approval) ==
    \E outcome \in WriteOutcomes(c) :
        /\ calls' = [calls EXCEPT ![c].at = "write", ![c].answer = outcome, ![c].wrote = outcome = "ok"]
        /\ IF outcome = "ok"
           THEN /\ records' = {r \in records : Key(r) # Key(RecordOf(c, approval))} \cup {RecordOf(c, approval)}
                /\ ordinals' = ordinals + Cardinality(records') - Cardinality(records)
           ELSE UNCHANGED <<records, ordinals>>

OldestFirst(rows, limit) == {r \in rows : Cardinality({s \in rows : s.ordinal < r.ordinal}) < limit}
Visible(c) == {r \in records : r.ownerId = Access(c).ownerId /\ r.ownerId = Request(c).ownerId
                               /\ r.namespace = Request(c).namespace}
Named(c) == {r \in Visible(c) : r.recordId = Request(c).recordId}

(* query, read and delete of the port, and what they return: a code and the records. *)
QueryOutcome(c) ==
    LET limit == ReadMemoryQueryLimit(Request(c).limit) IN
    IF limit # "ok" THEN [code |-> limit, rows |-> {}]
    ELSE [code |-> "ok", rows |-> OldestFirst(Visible(c), Request(c).limit)]
ReadOutcome(c) ==
    [code |-> IF Named(c) = {} THEN "NOT_FOUND" ELSE "ok", rows |-> Named(c)]
PortOutcome(c) ==
    LET kind == Request(c).kind
        allowed == AuthorizeMemoryAccess(Access(c), Context(c), kind, Request(c).ownerId, Request(c).namespace) IN
    CASE allowed # "ok" -> [code |-> allowed, rows |-> {}]
      [] kind = "query" -> QueryOutcome(c)
      [] OTHER -> ReadOutcome(c)

-----------------------------------------------------------------------------
(* The gateway: authenticate, then the operation. *)

StartCall(c, request) ==
    /\ calls[c] = Idle
    /\ calls' = [calls EXCEPT ![c] =
        [at |-> "observe", request |-> request, access |-> NoAccess, trustedNow |-> 0, answer |-> "none",
         grant |-> NoApproval, wrote |-> FALSE, returned |-> {}, code |-> "none"]]
    /\ UNCHANGED <<now, backend, aborted, seeds, stores>>

AuthenticationFails(c) ==
    /\ calls[c].at = "observe"
    /\ Ends(c, "AUTHENTICATION_UNAVAILABLE")
    /\ UNCHANGED <<now, backend, aborted, seeds, stores>>

Sealed(c, session) == SealAuthenticatedMemoryAccess(session, Context(c), now)
Authenticate(c) ==
    /\ calls[c].at = "observe"
    /\ \E session \in Sessions :
        LET access == Sealed(c, session) IN
        calls' = [calls EXCEPT ![c].access = access,
                    ![c].at = IF access.sealed THEN "operate" ELSE "ended",
                    ![c].code = IF access.sealed THEN "none" ELSE "AUTHENTICATION_FAILED"]
    /\ UNCHANGED <<now, backend, aborted, seeds, stores>>

(* read, query and delete: the gateway authorises and calls the port without giving way; a delete takes the row. *)
Operate(c) ==
    /\ calls[c].at = "operate" /\ Request(c).kind # "write"
    /\ LET kind == Request(c).kind
           allowed == AuthorizeMemoryAccess(Access(c), Context(c), kind, Request(c).ownerId, Request(c).namespace) IN
       \E failed \in {FALSE, backend = "sqlite"} :
        LET outcome == PortOutcome(c)
            done == allowed = "ok" /\ ~failed /\ outcome.code = "ok" IN
        /\ IF done
           THEN calls' = [calls EXCEPT ![c].at = "ended", ![c].code = "ok",
                                       ![c].returned = IF kind = "delete" THEN {} ELSE outcome.rows]
           ELSE Ends(c, IF allowed = "ok" THEN "MEMORY_UNAVAILABLE" ELSE "AUTHORIZATION_DENIED")
        /\ records' = IF done /\ kind = "delete" THEN records \ Named(c) ELSE records
    /\ UNCHANGED <<now, backend, aborted, seeds, grants, consumed, ordinals, auditLog>>

-----------------------------------------------------------------------------
(* executeMemoryWrite: the clock is read once, and nothing is scanned that the secret boundary refuses. *)

WriteAdmission(c) ==
    LET content == Request(c).content IN
    FirstFailure(<<
        Check(ValidateOperationContext(Context(c)) = "ok", "INVALID_OPERATION_CONTEXT"),
        Check(Request(c).recordId # "malformed", "INVALID_IDENTITY"),
        Check(content.length \in 1 .. MaxContentLength, "INVALID_CONTENT"),
        EvaluateMemorySecretBoundary(content)>>)

AdmitWrite(c) ==
    /\ calls[c].at = "operate" /\ Request(c).kind = "write"
    /\ IF WriteAdmission(c) = "ok"
       THEN calls' = [calls EXCEPT ![c].at = "scan", ![c].trustedNow = now]
       ELSE Ends(c, WriteAdmission(c))
    /\ UNCHANGED <<now, backend, aborted, seeds, stores>>

(* After the scans of text and metadata: the content denied, or redacted, authorised and put to the policy. *)
ScanWrite(c) ==
    /\ calls[c].at = "scan"
    /\ LET content == Request(c).content
           outcome == FirstFailure(<<
               Check(content.findings # "unscannable", "SCANNER_UNAVAILABLE"),
               Check(content.findings # "deny", "SCAN_DENIED"),
               Check(AuthorizeMemoryAccess(Access(c), Context(c), "write", Access(c).ownerId, Request(c).namespace) = "ok",
                     "AUTHORIZATION_DENIED")>>)
       IN IF outcome = "ok" THEN Goes(c, "policy") ELSE Ends(c, outcome)
    /\ UNCHANGED <<now, backend, aborted, seeds, stores>>

DeriveMemoryWriteApprovalDemand(c) ==
    [ownerId |-> Access(c).ownerId, actorId |-> Access(c).actorId, effect |-> "write",
     target |-> Request(c).recordId, namespace |-> Request(c).namespace, projectScope |-> Access(c).projectScope,
     payloadDigest |-> <<Request(c).content.redacted, Request(c).recordId, Request(c).namespace>>]

PolicyRefuses(c) ==
    /\ calls[c].at = "policy"
    /\ \E code \in {"POLICY_UNAVAILABLE", "POLICY_DENIED"} : Ends(c, code)
    /\ UNCHANGED <<now, backend, aborted, seeds, stores>>
PolicyAllows(c) ==
    /\ calls[c].at = "policy"
    /\ WriteRecord(c, NoApproval)
    /\ UNCHANGED <<now, backend, aborted, seeds, grants, consumed, auditLog>>
\* The grant is looked up: what the store holds now is what will be validated.
PolicyRequiresApproval(c) ==
    /\ calls[c].at = "policy"
    /\ LET id == Request(c).approvalId IN
       calls' = [calls EXCEPT ![c] =
         CASE id = NoApproval -> [@ EXCEPT !.at = "ended", !.code = "APPROVAL_REQUIRED"]
           [] id \notin DOMAIN grants -> [@ EXCEPT !.at = "ended", !.code = "APPROVAL_UNAVAILABLE"]
           [] OTHER -> [@ EXCEPT !.at = "lookup", !.grant = grants[id]]]
    /\ UNCHANGED <<now, backend, aborted, seeds, stores>>

\* The clock of the validation is the one read when the write began; the store checks the consumption itself.
ConsumeApproval(c) ==
    /\ calls[c].at = "lookup"
    /\ LET grant == calls[c].grant
           valid == ValidateApproval(grant, DeriveMemoryWriteApprovalDemand(c), calls[c].trustedNow)
           outcome == Consume(grant.approvalId, grant.nonce) IN
       IF valid # "ok" THEN Ends(c, "APPROVAL_INVALID") /\ UNCHANGED <<grants, consumed>>
       ELSE /\ calls' = [calls EXCEPT ![c].at = "consume", ![c].answer = outcome]
            /\ IF outcome = "ok"
               THEN /\ consumed' = consumed \cup {<<grant.approvalId, grant.nonce>>}
                    /\ grants' = [grants EXCEPT ![grant.approvalId].status = "consumed"]
               ELSE UNCHANGED <<grants, consumed>>
    /\ UNCHANGED <<now, backend, aborted, seeds, records, ordinals, auditLog>>

WriteApproved(c) ==
    /\ calls[c].at = "consume"
    /\ IF calls[c].answer # "ok"
       THEN Ends(c, "CONSUMPTION_FAILED") /\ UNCHANGED <<records, ordinals>>
       ELSE WriteRecord(c, calls[c].grant.approvalId)
    /\ UNCHANGED <<now, backend, aborted, seeds, grants, consumed, auditLog>>

AuditUnchecked(c) ==    \* mutant
    /\ calls[c].at = "write"
    /\ Ends(c, "ok") /\ auditLog' = auditLog \cup {c}
    /\ UNCHANGED <<now, backend, aborted, seeds, grants, consumed, records, ordinals>>
AuditWrite(c) ==
    /\ calls[c].at = "write"
    /\ IF calls[c].answer # "ok" THEN Ends(c, "MEMORY_UNAVAILABLE") /\ UNCHANGED auditLog
       ELSE \E recorded \in BOOLEAN :
            /\ Ends(c, IF recorded THEN "ok" ELSE "AUDIT_FAILED")
            /\ auditLog' = auditLog \cup (IF recorded THEN {c} ELSE {})
    /\ UNCHANGED <<now, backend, aborted, seeds, grants, consumed, records, ordinals>>

Abort(c) ==
    /\ calls[c].at \notin {"idle", "ended"} /\ c \notin aborted
    /\ aborted' = aborted \cup {c}
    /\ UNCHANGED <<now, backend, calls, seeds, stores>>
Tick ==
    /\ now < MaxTime
    /\ now' = now + 1
    /\ UNCHANGED <<backend, calls, aborted, seeds, stores>>

CallStep(c) ==
    \/ \E request \in Requests : StartCall(c, request)
    \/ AuthenticationFails(c) \/ Authenticate(c) \/ Operate(c)
    \/ AdmitWrite(c) \/ ScanWrite(c) \/ PolicyRefuses(c) \/ PolicyAllows(c) \/ PolicyRequiresApproval(c)
    \/ ConsumeApproval(c) \/ WriteApproved(c) \/ AuditWrite(c) \/ Abort(c)
MemoryNext == Tick \/ (\E grant \in Grants : Seed(grant)) \/ \E c \in Calls : CallStep(c)
MemorySpec == MemoryInit /\ [][MemoryNext]_memoryVars

Wrote(c) == calls[c] # Idle /\ calls[c].wrote
Digest(request) == <<request.content.redacted, request.recordId, request.namespace>>
-----------------------------------------------------------------------------
(* A grant lets one write through, and it is the write the owner approved: its content as it will be stored, its
   record and its namespace (validateApproval and the check-and-set of the approval store, with any number of calls
   that looked the same grant up before one of them consumed it). *)
ApprovalWritesOnce ==
    \A c \in Calls : Wrote(c) /\ calls[c].grant # NoApproval =>
        /\ calls[c].grant.payloadDigest = Digest(Request(c)) /\ calls[c].grant.ownerId = Access(c).ownerId
        /\ \A d \in Calls \ {c} : Wrote(d) /\ calls[d].grant # NoApproval =>
            <<calls[d].grant.approvalId, calls[d].grant.nonce>> # <<calls[c].grant.approvalId, calls[c].grant.nonce>>

(* What a write answers is what it did: refused, nothing was stored; failed at the audit, the record is there; only
   an answer that says the memory was unavailable can hide a spent approval (the order of executeMemoryWrite). *)
WriteAnswersAreTrue ==
    \A c \in At("ended") : Request(c).kind = "write" =>
        /\ calls[c].wrote <=> calls[c].code \in {"ok", "AUDIT_FAILED"}
        /\ c \in auditLog <=> calls[c].code = "ok"
        /\ calls[c].code \in {"APPROVAL_INVALID", "APPROVAL_REQUIRED", "AUTHORIZATION_DENIED", "SCAN_DENIED"} =>
            calls[c].answer = "none"

(* A grant is spent on one write, the one that was approved, and its caller is told what became of it
   (executeMemoryWrite from the approval to the audit). *)
WritesAreApprovedAndTold == ApprovalWritesOnce /\ WriteAnswersAreTrue

(* Whatever the interleaving, a session sees and stores only its owner's memory: writes in its own namespace alone,
   restricted memory for the guard alone, personal memory for nobody from outside, and nothing stored that the
   scanner or the secret boundary refused (authorizeMemoryAccess at the gateway and again at the port). *)
MemoryStaysIsolated ==
    /\ \A r \in records \ EarlierRecords :
        LET writer == calls[r.writer] IN
        /\ r.ownerId = writer.access.ownerId /\ r.namespace = writer.access.activeNamespace
        /\ Restricted(r.namespace) => writer.access.role = "security-guard"
        /\ writer.request.content.sensitivity # "secret-class" /\ writer.request.content.findings # "deny"
    /\ \A c \in At("ended") : \A r \in calls[c].returned :
        /\ r.ownerId = Access(c).ownerId
        /\ r.namespace # Access(c).activeNamespace =>
            /\ {r.namespace, Access(c).activeNamespace} \cap {"personal", "security-restricted"} = {}
            /\ r.namespace \in ToSet(Access(c).projectScope.permitted)

===============================================================================
