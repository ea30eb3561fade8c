------------------------------ MODULE MCExtensions -----------------------------
(* One extension that may be registered, and each policy, approval, routing, *)
(* guard and request that fits it or differs in one thing.                   *)
EXTENDS Extensions, TLC

Manifest(id, version) ==
    [id |-> id, version |-> version, enabled |-> TRUE, riskClass |-> "low", mode |-> "always", effects |-> {"external-send"},
     requestedPermissions |-> {"external-read", "external-send"}, wording |-> "plain"]
Candidate(manifest) == manifest @@ [shape |-> "plain data", malformed |-> {}]
News == Manifest("news", "1.0.0")
MCCandidates ==
    {Candidate(News), Candidate([News EXCEPT !.enabled = FALSE]), Candidate([News EXCEPT !.effects = {}]),
     [Candidate(News) EXCEPT !.malformed = {"secret"}]}
MCEarlierEntries == {EntryFrom(Candidate(News))}
AllEffects == {"external-read", "external-send"}
PolicyFor(version, from, until, ttl) ==
    [shape |-> "plain data", malformed |-> {}, id |-> "news", version |-> version, policyVersion |-> PolicyVersion,
     deployment |-> AllEffects, role |-> AllEffects, security |-> AllEffects, risk |-> AllEffects, authorizationTtl |-> ttl, evidenceTtl |-> 1,
     from |-> from, until |-> until]
MCExtensionPolicies == {PolicyFor("1.0.0", 0, 2, 1), [PolicyFor("1.0.0", 0, 2, 2) EXCEPT !.role = {"external-read"}],
   [PolicyFor("1.0.0", 0, 2, 2) EXCEPT !.policyVersion = "extension-policy@2"], PolicyFor("2.0.0",0,2,2)}
ApprovalFor(from, until) ==
    [shape |-> "plain data", malformed |-> {}, id |-> "news", version |-> "1.0.0", correlation |-> "own", scope |-> "activate",
     from |-> from, until |-> until]
MCApprovals == {ApprovalFor(0, 1), ApprovalFor(0, 2), ApprovalFor(1, 2), [ApprovalFor(0, 2) EXCEPT !.correlation = "other"]}
RoutingOf(trust) ==
    [shape |-> "plain data", malformed |-> {}, id |-> "news", version |-> "1.0.0", correlation |-> "own",
     trust |-> trust, floor |-> "low", from |-> 0, until |-> 2]
MCRoutings == {RoutingOf("owner-stated"), RoutingOf("untrusted-input"), [RoutingOf("owner-stated") EXCEPT !.correlation = "other"]}
GuardOf(floor, denied, allowed) ==
    [shape |-> "plain data", malformed |-> {}, id |-> "news", version |-> "1.0.0", correlation |-> "own",
     floor |-> floor, denied |-> denied, allowed |-> allowed, from |-> 0, until |-> 2]
MCGuards == {GuardOf("low", FALSE, {"external-read", "external-send"}), GuardOf("low", TRUE, {}), GuardOf("untrusted-input", FALSE, AllEffects), GuardOf("low", FALSE, {"external-read"})}
Asked(category, untrusted) ==
    [shape |-> "plain data", malformed |-> {}, id |-> "news", version |-> "1.0.0", correlation |-> "own",
     category |-> category, external |-> FALSE, untrusted |-> untrusted]
MCOperationRequests == {Asked("system-observe", FALSE), Asked("untrusted-ingest", FALSE), Asked("other", TRUE)}
=============================================================================
