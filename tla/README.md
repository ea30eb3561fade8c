# A verification project for OpenClaw-Bot-Neo

This directory holds TLA+ specifications of the parts of OpenClaw-Bot-Neo whose
correctness depends on order, failure and concurrency, and of the decisions that
guard memory, events, extensions, voices and infrastructure; the TLC
configurations that check them on small instances; and TLAPS proofs: of the
stores and the dispatcher, of the communication runtime they make up, which is
proved to keep the promise it makes to every transport event, of the tool
invocation pipeline, of the Neo process with its durable host and status
command, and of webhook ingress and memory. It describes the code under `src/`
(paths below are relative to the repository root).

    tlasany TurnLedger.tla                                   parse
    tlc -config MCRuntimeFailures.cfg MCRuntime              check one run
    tlapm StoreProofs.tla                                    check the proofs

`PROJECT.json` lists the components, the runs, a mutation of the code for every
property, the source lines behind each definition, the disagreements found
between documentation and code, the hazards and the theorems.

## 1. The system

OpenClaw-Bot-Neo is a single-process TypeScript host for a personal assistant.
A text message comes in from a transport, is bound to an owner and a
conversation, becomes a *turn*, asks a language model, and is answered over the
transport. The process may die at any line; SQLite keeps the truth. Node runs
one JavaScript stack, so everything between two `await`s is atomic, and
concurrency is the interleaving of asynchronous calls at their awaits.

| Component | State | Operations | What is hard | Correct means |
|---|---|---|---|---|
| Turn ledger (`sqlite-communication-turn-ledger-port.ts`) | a row per turn, sequence counters, factual history | observe, authenticate, accept, transition, record facts, list candidates | stale revisions, duplicate events, limits, integer limits | one turn per event, dense sequences, limits, facts never retracted |
| Conversation state (`sqlite-conversation-state-port.ts`) | snapshot and operation log of a conversation | load, checkpoint, barrier, reconcile | retries, barrier against checkpoint | one operation per revision, never active again once degraded, no checkpoint behind a barrier |
| Delivery outbox (`sqlite-communication-delivery-outbox-port.ts`) | prepared outputs, outcomes, reconciliations | put, record, read, reconcile, scrub | late and contradictory outcomes, expiry | an unknown outcome stays unknown, scrubbed text stays gone |
| Communication audit (`sqlite-communication-audit-port.ts`) | start and completion events | record both | policy version that changes between them | a completion closes its start |
| Turn dispatcher (`per-conversation-turn-dispatcher.ts`) | queues, active jobs, waiters | enqueue, drain, wait for idle | lost wake-ups, limits, order | no waiting work without a runner |
| Text turn (`process-text-turn.service.ts`, `phases/`) | locals of one call | some forty awaited port calls | aborts, generation, partial failure | no effect before its record, none after a drain |
| Recovery (`recover-communication-turns.service.ts`) | cursor over pages of candidates | one rule per state of a row | crash in recovery, stuck rows | every row ended, no effect repeated |
| Orchestrator (`communication-orchestrator.ts`) | lifecycle, ingress, generation | start, submit, drain, close, fail | races of all of the above | the event promise, section 3 |
| Database files (`sqlite-communication-schema.ts`, `sqlite-memory-schema.ts`, `create-*-ports.ts`) | two SQLite files, the storage capability | open, create, verify, scrub, hand out, close | a file of another version or maker, a step that fails | own files accepted, every port has its tables |
| Durable host, storage root, process lock (`src/host/durable`, `src/host/storage/runtime`) | stages of open and close, leases, descriptor, running operations | open, roll back, operate, close, retry | failure inside rollback and release, close under operations | the database is open in one process and under its lock, all is released at last |
| Neo runtime and process (`src/neo-runtime`) | lifecycle, readiness file, signals, exit disposition | start, close, signal, publish, remove | signals against publication, close against start | readiness only while ready, exit after close |
| Tool invocation and approvals (`src/core/application/connector`) | approval records, registries, audit | invoke, grant, consume, revoke | timeout against late answer, burnt approvals | one execution per approval, honest results |
| Webhook ingress (`webhook-ingress.service.ts`) | replay set and audit (ports) | verify, scan, record, audit | two deliveries of one event, forged copies, lost answers | an event authorised once, forgeries record nothing |
| Memory access and write (`memory-access.gateway.ts`, `memory-write.service.ts`, both memory ports) | approvals, records, audit | query, read, write with approval, delete | calls of several sessions at every await, abort | one write per approval, owners and namespaces apart, honest answers |
| Codex app-server client (`src/communication/adapters/codex-app-server`) | owner's capability, child process, requests, notifications | launch checks, requests, turn/start, wait, clean-up | hung writes, breaches, exits, deadlines, aborts | known failures leave no prompt behind, a clean-up leaves no child, a probe ends unless a living child leaves a line in its pipe |
| Extensions (`extension-*.ts`, `runtime-risk-classification.service.ts`) | registry (a port), evidence with windows | register, activate, withdraw, resolve permissions | time read before awaits, answers lost or wrong | activation earned, grants backed by everyone |
| Voice resolution (`voice-resolution.gateway.ts`, `voice-profile.ts`) | evidence a caller keeps | resolve, decide whether to speak | time read before awaits, evidence of another profile | a voice only for the profile it was seen for |
| Infrastructure platform (`src/core/*/infrastructure`, `src/connectors`) | four inventories, simulated tools | register, update, observe, compare, read logs, call tools | updates in any order, secrets at a cut, aborts during delays | sound records, true reports, no secret in a log |
| Texts (`sensitive-data-scanner.ts`, `communication/policy`, `communication/domain`) | evidence and principals already issued | scan, redact, normalise, assemble a prompt, seal an output, read the kill switch | where a secret's value ends; a scan before a conversion; evidence used twice | what is let through holds no secret as it will be sent |
| Configuration (`security-config.ts`, `parse-local-host-config.ts`) | sealed documents | parse an envelope and its documents | fifteen kinds of document whose rules only together exclude what is dangerous | accepted documents enable nothing that must stay off |
| Registries, other policies over text, routing | sealed values | validate, look up | none concurrent | functions of their input |

Calls go downwards: the Neo process opens the durable host; the orchestrator
calls the dispatcher, which calls back a job; the job is a text turn; text turn
and recovery call the four SQLite stores, the model and the transport. The
stores share no table and no transaction: a turn is held together by the order
of the calls, idempotency keys and recovery. That is what the models of the
runtime are about. The services of memory, webhooks, extensions, voices and
infrastructure are called beside it; none of them calls another.

## 2. Modules

| Module | Models | State and actions in the code |
|---|---|---|
| `CommunicationDomain` | `domain/communication-turn.ts`, `llm-completion.ts` | turn states, the legal transitions and the domains of the factual columns |
| `TurnLedger` | the ledger port | `turns` is the table of turns, `sequenceCounters` and `factualHistory` the tables beside it; one action per method, its outcome an operator (`AcceptOutcome`, ...) the caller reads too |
| `ConversationState` | the conversation state port | `snapshots`, `checkpointOps`; `Checkpoint`, `RecordCheckpointBarrier`, `ReconcileCheckpoint` |
| `TurnDispatcher` | the dispatcher | `queues`, `activeTurn`, `draining`, `idleWaiter`; `Enqueue` with its pump, `JobSettles` with the `finally` of a job, `BeginDispatcherDrain`, `WhenIdle` |
| `TextTurn` | `process-text-turn.service.ts` and `phases/` | `jobs[t]` holds the locals of the call, its `stage` names the next port call; one action per awaited call and the synchronous code after it. `effects` counts what reached the providers and survives a crash |
| `TurnRecovery` | recovery | `recovery` holds its locals, one action per awaited call |
| `CommunicationRuntime` | the orchestrator, the admission serializer, crash and restart | composes all of the above with `lifecycle`, `ingress`, `submissions`, `admission`; `Crash` clears what is volatile and keeps the tables |
| `EventPromise` | abstract specification | one record per transport event: asked and sent at most once, a final and true verdict |
| `CommunicationStores` | the outbox port, the audit port, and the conversation state beside them | `outboxEntries`, `outboxOutcomes`, `outboxReconciled`, every writing method scrubs what expired first; `auditStarts`, `auditCompletions` with `RecordStart`, `RecordCompletion`; the steps of the three stores in any order, and what they keep of each other's calls |
| `ToolInvocation` | `in-memory-tool-approval-port.ts`; `tool-invocation-orchestrator.ts` with the policy engine and the health registry | `approvals` is the port's map of records; `CreateRequest` and `ConsumeGrant` are the approval port, `Decision` the decision port and the clock. `calls[c]` holds the locals of one `invoke`, its `stage` names the await it is at; one action per await with the synchronous code after it, and `ConnectorSettles`, `CallerAborts`, `TimerFires`, `Decision` for what happens meanwhile |
| `Checks` | the shape of every validator of the code | a list of checks, the first that fails |
| `SqliteFiles` | `sqlite-communication-schema.ts`, `sqlite-memory-schema.ts`; `create-offline-sqlite-communication-ports.ts`, `create-sqlite-memory-port.ts` | a database is its tables, indexes, other objects and meta rows; what the CREATE statements make and what the verifications ask; opening, bootstrap, verification, scrub and close of both files, a step at a time, each of which may fail |
| `DurableHost` | the promise of `create-posix-durable-local-host.ts` and its owner | `opening[p]` names the await the opening is at, `held[p]` what the process has not released; `OpenRoot`, `AcquireLock` and `OpenMemory` with their rollbacks, `CloseOwner` |
| `DurableStorage` | the same composition in full, with `open-posix-storage-root.ts`, the storage plan, path and root policies and the lock file | the checks of plan, path, policy, root and lock file in their order; `store[p]` holds handle, leases, descriptor and database, `stage` what a failed start still has to release, `owner` and `operations` the gate; `ImplementsDurableHost` is its refinement of `DurableHost` |
| `NeoProcess` | `create-neo-runtime.ts`, `run-neo-process.ts`, `coordination/`, the readiness file; `read-neo-status.ts`, `read-neo-readiness-file.ts`, `verify-neo-readiness-process-identity.ts`, the procfs provider | `neo[p]` holds the locals of `runNeoProcess` (`main` names its await), of `performShutdown` (`shutdown`) and of the runtime; `ready` is the file. Each process is an instance of its own: a restart is the next. `status` holds the locals of `readNeoStatus`, `at` names its await; `served` records what was true when the file was read. `earlier` holds the processes of the boot before |
| `CodexClient` | `codex-app-server-protocol.ts`; isolation, executable pin, environment and clean-up budgets of the probe; `codex-app-server-client.ts` | what a line is, what each answer decodes to, which configuration is safe; predicates on a launch; `at` names the await of the probe, `child` the state of the process; every request and every line of the clean-up as the beginning and the end of its write, the wait for an answer or a turn, and the staged close; `LineArrives`, exits and timers happen meanwhile |
| `MemoryService` | `memory-access.internal.ts`, `approval.ts`, `namespace-isolation.ts`, `confirmation-gate.ts`, `memory-secret-boundary.ts`, `memory-access.gateway.ts`, `memory-write.service.ts`, the SQLite and in-memory ports, the approval store | sessions, isolation, the validation of a grant; `calls[c]` holds the locals of a call, `records`, `grants`, `consumed` and `auditLog` are shared; one action per await |
| `WebhookIngress` | `webhook-ingress.service.ts`, `policy/webhook-ingress.ts` | `deliveries[d]` holds the locals of one execution, `replayStore` and `auditTrail` are the ports' |
| `ExtensionRules` | manifest, policy, risk and approval validation | the checks, the digest, the merging of risks |
| `Extensions` | registration, activation, permission gateway and classification | `operations[o]` holds the locals of a call, `registry` is the port's, `clock` what the code reads |
| `VoiceResolution` | `voice-resolution.gateway.ts`, `policy/voice-profile.ts` | `resolutions` of the gateway, `spoken` the last voice chosen with their evidence, for any profile and moment a caller brings |
| `InfrastructureFleet` | the parsers of `core/domain/infrastructure`, the four in-memory inventories, `drift.ts`, the coordinator's comparison and log request, `log-sanitization.ts` | which class of value each field accepts, which fields are replaced together; maps of records, one action per synchronous call; a log as a sequence of marks: normalise, bound, redact, bound again |
| `ConnectorTools` | the infrastructure and reference connectors, their manifests, the two policy engines, the reference host and provider | `toolCalls[c]` is a simulated call, `notes` what the reference connector stores |
| `SecurityConfig` | `core/config/security-config.ts`, `host/config/parse-local-host-config.ts` | a document is a tree whose words are classes; one operator per parser, its checks in their order; `config` is the last document parsed and the answer |
| `SensitiveData` | `sensitive-data-scanner.ts`, `mask-secrets.ts` | a text is a sequence of tokens, what the patterns tell apart; findings, their merging, redaction and decision; metadata as its nodes in the order they are visited; `scan` is the last input and the answer |
| `CommunicationTexts` | `communication/policy`, and of `communication/domain` the identity of texts, the observation, the principal, the sealed output | `answer` is what a policy last answered, `evidence` and `principals` the two registries of the principal module |
| `StoreProofs`, `RuntimeProofs`, `PromiseProofs` | theorems about the ledger, the other stores and the dispatcher; `CommunicationRuntime`; its refinement of `EventPromise` | section 6 |
| `StorageProofs` | theorems about `DurableStorage`, its refinement of `DurableHost`, and the database files | section 6 |
| `ToolInvocationProofs`, `NeoProcessProofs` | theorems about `ToolInvocation`; `NeoProcess` with `DurableHost` | section 6 |
| `ServiceProofs`, `CodexProofs` | theorems about `WebhookIngress`, `MemoryService`, `Extensions`, `InfrastructureFleet`, `ConnectorTools` and `VoiceResolution`; `CodexClient` | section 6 |
| `MC*` | instances for TLC | constants, symmetry, inputs that are right or wrong in one thing, and the sentences of the documentation that section 5 is about |

`MCComponents`, `MCServices`, `MCHostProcess` and `MCProviderCalls` each hold several components
that call none of each other and share no variable. A behaviour uses one of them
(`used`), chosen at the start, while the others stay in an initial state: the
states of the components are added up and not multiplied, and every component
meets exactly the behaviours it would meet in a run of its own.

Shorthands. A message, key, digest or text is a model value or absent: no
property tells more of them apart. A row's idempotency key, owner and
correlation are the turn itself. The text of a context is the sequence of turns
that wrote it (`CommunicationTexts` looks at texts themselves). A port call that fails is `PhaseFails`, `SubmissionFails` or
`RecoveryFails`, each at most `MaxFaults` times in a behaviour; an error is taken
before the effect of the call (what a crash after the effect leaves is covered
by `Crash`). The model and the transport answer, throw, or never answer until
the deadline's abort.

In `ToolInvocation` a request carries a `verdict` that stands for what lookup,
bounds, schema, relationship and capability checks find before the policy is
asked: they read nothing another call changes. An audit port that fails is a
choice in the actions that look at its answer; where the code ignores the
answer, the await is kept and the event is not. One connector serves every tool,
so health is per connection; the codes of known connector failures share one.
A local that the code will not read again is reset, which merges states and
changes none that is read.

An untrusted object is its shape and its values, and a candidate is right in
everything or wrong in one thing; a text is the class its parsers tell apart; a
digest is the thing digested, so digests do not collide. A port without a
production implementation (webhook verifier, replay store, extension registry,
voice provider, policy and approval observations) is external: it may answer
with anything offered, be unavailable, answer one call with another's result
(webhook verifier, extension registry), or do its work and lose the answer
(replay store, extension registry). `Tick` moves the clock between any two steps,
as far as the bound, and each service reads it where the code does.

In `WebhookIngress` the canonical copy of a delivery is private to the call: the
code computes its digest again before each port and finds the first one. In
`MemoryService` a synchronous port does its work at the call and its answer is
read when the call resumes. An approval is consumed before the write, and the
audit follows the write: a failure in between leaves a spent approval or an
unaudited record, and `WriteAnswersAreTrue`, a part of `WritesAreApprovedAndTold`,
says that the answer tells which.

In `CodexClient` every line is written in two steps, and in between the child may
leave it in the pipe for ever, say any line of `Lines`, or exit. A request's timer
that fires while its line is still being written rejects a promise nobody awaits:
Node ends the process then (`at = "crashed"`), unless the host has a handler for
it, and both are choices of the model. `BeforeInvocation` has the outcomes that
let a caller ask again; `policy-rejected` and `invalid-response`, which the code
also counts as known failures, may follow a prompt and are not among them. In `DurableStorage` the synchronous functions of
the storage layer are atomic; a close that fails leaves its descriptor open, as
the code assumes; the latch against a close that re-enters itself cannot be
reached without a callback that the code does not have, and is left out. In
`InfrastructureFleet` the property on logs does not count what follows `password=password=` as
a secret: the second label is the word of the first. In `Extensions`, which of several missing approvals for dangerous
permissions is named first is not modelled.

In `NeoProcess` a close that fails keeps what it could not release; the kernel
releases the rest when the process goes. Removing `ready.json` always succeeds:
`remove` ignores an error of `unlink`, and after one the file would stay. A call
for help, which starts nothing and exits with 0, is left out.

In `SensitiveData` a token is a whole match of a pattern, so which characters make
a password or a key is not modelled; where a value, a quote, a line and a private
key begin and end, is. One of the two quotes is a token, the other a word to it.
Texts have the blanks a pattern's `\b` asks for (`WellSpaced`). A length is a number
of tokens and stands for characters and bytes alike. In `CommunicationTexts` the
provenance, titles and fixed bodies of a prompt are words, and a port of the
scanner that fails is a choice at the first or the fourth section.

In `SecurityConfig` a scalar is one of a few words its parser asks about (a literal,
a placeholder, a time, a number); limits on lengths are reached by the words
`long` and `longer`.

Definitions marked as mutants are plausible mistakes in
the definition after them, used to show that the properties notice.

## 3. Runs

| Run | Instance | Question and result |
|---|---|---|
| `components` | ledger: 2 turns, conversations and events, one place per conversation and in all, integers up to 5; conversation state: 1 conversation, 2 turns; outbox and audit: 2 turns, 2 policy versions; dispatcher: 4 jobs, depth 2, 3 in all; files: 26 that may lie at the two paths, 2 openings; texts: every text of up to three of the fifteen tokens, labelled ones of up to six, metadata of up to three nodes, prompts of up to two excerpts or two lines of context, 3 pieces of evidence | every call, stale, repeated, out of order and at the limits: the history is a faithful log, turns are counted right, the other stores keep their records, nothing decided is undone, what is opened is sound, no text passes a policy that should have stopped it |
| `services` | 2 deliveries, memory calls, extension operations, voice resolutions or tool calls; 2 environments, servers and services; every log of up to four marks in one line or two in each of two; 4,869 configuration documents | each service in every interleaving of its awaits: properties of section 4 |
| `runtime_failures` | 2 turns, pages of 1; any 2 of: a crash, a second crash, a fault, a drain or close | the runtime implements `EventPromise`; recorded deliveries are true; recovery fails only on rows of the three disagreements with its document that section 5 begins with; ledger, snapshot and audit tell one story; no provider call starts before the audit start, in a degraded conversation, after a drain or without the ownership of the ledger; what was sent is not forgotten; the context follows the ledger's sequence; waiting work has a runner |
| `runtime_liveness` | 2 turns, 1 crash, 1 drain | accepted turns complete and close returns |
| `provider_calls` | 2 tool invocations, 1 approval, which may be pending from an earlier invocation; or one Codex probe with 7 launches, 7 requests, 2 unread notifications | decisions, expiry, aborts, timers and late answers in any order: an execution that writes has an approval of its own, results are honest, executions audited, under fairness every invocation returns; whatever the child says, hides or breaks: a known failure leaves no prompt behind, a clean-up leaves no child, the probe ends or stands at the write of a line a living child does not read |
| `host_process` | 2 processes on one storage root, 2 attempts to close, a signal or fatal error and a crash at any await; or 2 processes' compositions with every plan, policy, root, lock file and database of the module, 2 running operations; or one question of the status command per boot beside processes that follow one another, and a reboot | any stage of opening, rolling back and closing may fail: the database is open in one process, under its lock, and stays while operations use it; `ready.json` tells the truth, and the status command that reads it is not misled by what happens between its reads; the exit code is honest; processes settle under fairness; the composition implements `DurableHost`, and a caller that retries is done at last |
| `known_failure_recovery`, `started_delivery`, `unknown_llm_barrier`, `uncertain_write`, `stale_evidence`, `codex_orphan` | smallest that show it | violations of sentences of the documentation and of comments, section 5 |

`ImplementsEventPromise` is the central property. `EventOf` maps the tables and
the effects of the runtime to the record of an event: `asked` and `sent` are the
calls that reached the model and the transport for any turn observed for the
event, `verdict` is the delivery column of a completed turn. Every step of the
runtime, crashes and recovery included, is then a step of `EventPromise` or
leaves it alone. `ImplementsDurableHost` ties the two descriptions of the
durable composition: `NeoProcess` is checked and proved over `DurableHost`, and
`DurableStorage`, which has the leases, descriptors, failed closes and pending
clean-ups of the code, is shown to take only its steps, by TLC here and for any
number of processes in section 6.

Bounds, and why they are enough. Turns meet in three places: the admission of a
conversation, its dispatcher queue and its snapshot; two turns meet in all of
them. With one place in the ledger, the second accept is refused by the limit of
its conversation when both turns share one and by the global limit otherwise.
`runtime_failures` meets any two of the failures in a behaviour (`TwoFailures`).
Two crashes put one into a turn's processing and one into the recovery after it;
a second recovery starts from rows the first has changed. A page of one
candidate makes recovery turn pages with two rows. One fault is every single
failing call at every place, alone, together with a crash, or together with a
drain; two faults in one turn are not explored. `MaxSafeInteger` stands for 2^53 - 1: small in `components`, where
the limit is reached, and out of reach in the runtime runs. `MaxContextEntries`
stands for the byte limit of a context. Providers offer the outcomes that lead to
different branches; the others share one. Two invocations are what two
executions of one approval need; they share the approval, the connection and its
health, and nothing else. One approval identifier also makes the port that has no
free identifier fail. Two processes are what the lock, and the readiness file one
of them leaves to the other, are about; with two attempts to close there is one
that is tried again and one that gives up (the code makes three; a longer run
with three finds nothing more). Beside the status command a process starts when
the one before has gone: a restart between two reads is what could mislead it; an
instance that meets the lock only removes the file. Two operations are one that ends before a close
and one that does not.

In `services`, two calls are what a race for an approval, an event, a nonce, an
entry of the registry or a note needs; grants are seeded once, one identifier
with one nonce. `MaxTime`, `MaxIngressTime`, `MaxExtensionTime` and
`MaxVoiceTime` are large enough for every window offered to open and close
between two reads of a call. Limits of the code become the smallest that can be
passed: a time to live of 2 for an hour, 2 ports, 1 dependency, 4 bytes of a log,
3 of a line. Of the log properties, a secret that lies across a line break, after
a terminal code and at each cap are all among the logs. Only earlier entries of
`EarlierEntries` let an operation start from a registered extension, so that an
activation does not need a whole registration before it. `MaxQueue` bounds the
notifications the Codex client has not read; a full queue only makes the child
wait.

Symmetry is used in `components` and `services`, where it permutes values the
specification does not tell apart and no liveness is checked.

Deadlock is not checked: a bounded behaviour ends when its turns, crashes, calls
and clock are used up, and a runtime whose ingress is closed has nothing to do.

Fairness (`FairRuntimeSpec`). Weak fairness of: the first start and recovery
(the local stores answer, and the process calls start), the steps of a
submission and of a job (their promises settle), the return of close, and
`Expires`: each published job gets `AbortSignal.timeout(defaultDeadlineMs ??
5000)` (`communication-orchestrator.ts:338`), and the invocation race resolves
at once on abort, so the model and the transport need no fairness and get none.
No fairness is given to new observations, drains, crashes or a second start.

`FairToolSpec`: weak fairness of the steps of an invocation (audit and secret
ports answer) and of its timer, which the code arms with `setTimeout` before it
calls the connector (`tool-invocation-orchestrator.ts:493`). The connector gets
none: an invocation returns although its connector never answers. Approvals and
aborts get none either.

`HostProcessSpec` has the fairness of `FairNeoSpec`: weak fairness of the steps
of main and of the shutdown of each process (file operations, procfs and the
25 ms sleep answer). Nobody has to launch, signal or kill. The composition gets
no fairness; `CleanupCanFinish`, a part of `StoreIsHeldAndGivenBack`, names its own condition, that the caller retries,
running operations end and the closers succeed at last.

`CodexSpec`: weak fairness of the steps of the client, of `Deadline`, the timer of
the stage it is in, where the code has armed one with `setTimeout`, and of
`PipeBreaks`: a write to a child that has exited fails. The child gets none: it
need not answer, nor read. A write the client awaits without a timer has
therefore no promise to end, and `ProbeReturns` says so: a probe that was called
comes to its end, or stands for ever at the write of a line while its child lives.
The document claims more, section 5.

## 4. What the services keep

| Property | What it takes to break it |
|---|---|
| `DeliveriesPassOnce` | two deliveries of one event, or of two that share a key or nonce, both let through, or one let through that no record keeps from coming again (`EventsAreAuthorizedOnce`); a delivery altered on its way, or refused before the replay check, that takes the place of the genuine one (`OnlyVettedDeliveriesAreRecorded`) |
| `WritesAreApprovedAndTold` | (`ApprovalWritesOnce`, `WriteAnswersAreTrue`) two writes that looked one approval up before either consumed it; an answer that hides what was stored or audited |
| `MemoryStaysIsolated` | a session that reaches another owner's, a restricted or a personal record, or stores what the scanner refused |
| `ActiveEvidenceIsEarned`, `GrantsAreBacked` | an activation under an approval or policy no longer in force, or about another entry than the one presented; a permission one of the four observations did not give |
| `VoiceIsVouchedFor` | evidence used for a profile of another id, language or gender, at a moment it does not cover, or for a voice nobody saw; a validated Neo with another than its primary voice |
| `InventoriesAndReportsHold`, `MismatchComesFromAMove` | an update that stores a record the parsers refuse; a report of agreement with something that disagrees; a service that comes to disagree with its server without the server's having been moved |
| `SanitizedLogsHideSecrets` | a log cut so that a secret loses the label that would have given it away |
| `AcceptedConfigsAreSafe` | an accepted document of any of the fifteen kinds, or an envelope of four, that turns on what must stay off, drops what must be required, names an identity twice or sets bounds that contradict one another |
| `CallsAnswerWhatTheyDid` | a cancelled call that stored its note, an effect without approval, an uncertain end told as done |

`TextsAreVetted` of the run `components` joins five: what the scanner lets through,
as it is or redacted, shows no secret, has lost none of the words outside the
secrets, and is not denied when scanned again (`ScansHideSecrets`); an assembled
prompt has its five sections in their order, instructs in the two fixed ones alone
and holds no secret although it was joined from many texts (`PromptsAreVetted`);
what is sealed for delivery is clean as it will be sent, although it was scanned
before its line endings were made canonical (`OutputsAreVetted`); an accepted
observation claims no authority and a turn is eligible only with everything in
reach (`ObservationsAreVetted`); evidence yields one principal, of its own turn, and
memory is read for such a principal alone (`PrincipalsAreFresh`). What a secret is,
the property reads from left to right (`QuotedLength`), the scanner by looking
back from each quote: the two descriptions share no definition.

For `AcceptedConfigsAreSafe` the documents are one accepted example of each kind
and all that differ from it in one place: a field or entry left out, doubled, added
or replaced by each word of the module. The checks of a parser look at one place,
or compare two, so every check is reached from an example.

What the models of these services contain, and no property forbids because no
document promises otherwise:

- Texts: an observation is copied by a snapshot that refuses strings of more than
  2,048 characters (`observation-validation.ts:15`), so that a text of up to
  `MAX_TRANSPORT_OBSERVATION_TEXT_UTF8_BYTES` = 16,384 bytes is refused as
  malformed before its own bound is asked (`MaxObservedString` is smaller than
  `MaxObservationText` in the run). Of two leaves of metadata whose joined paths are
  equal (a key with a dot in it) only the later is scanned, and kept. Redaction is
  not idempotent: behind a quoted value that became a marker, the rest of the line
  is the value of a second scan; no caller scans twice and sends the second. The
  summary of a context is bounded by itself and not counted in its total.

- Memory: `executeMemoryWrite` bounds the content by 65,536 characters and the
  port by 65,536 bytes, so a write may spend its approval and then be refused;
  `validateOperationContext` never compares the deadline with the time.
- Infrastructure: moving a server does not look at its services; a cycle of
  dependencies is accepted; an update merged with `??` cannot clear a nullable
  field; display names are not checked; `compareDrift` does not ask whether an
  observation is the server's own; the flag that a log was cut is not passed on;
  the infrastructure connector reads logs without `validateLogRequest`; deploy,
  rollback and reboot do not look at their signal; the notes of the reference
  connector are shared by all its callers.
- Extensions: an `ActiveExtensionRegistration` a caller holds goes on giving
  permissions after its extension was withdrawn; display name and description are
  outside the digest.
- Voice: evidence is dated with the time before three awaits and may outlive the
  configuration and the observation it rests on; a fallback voice is matched with
  no provider and its language is not compared; availability asks for language and
  gender alone. `resolveVoiceAvailability` does not ask whether its profile was
  validated (`ValidatedVoiceProfile` is an alias of `VoiceProfile`) and takes the
  time from its caller, so a profile that only calls itself neo may have fallbacks
  and speak with one in another language; a validated Neo has none.
- SQLite: `NOT LIKE 'sqlite_%'` also hides a name such as `sqlite2_sync`, as an
  underscore matches any character.

## 5. Where documentation and code differ

Each of these ends a run in a counterexample; where the run's name is not plain from
section 3, or the text is checked by hand, the item says so.

- `llm_known_failed` after a restart. The table of restarts says the turn is
  completed. Recovery cancels it, the ledger has no transition from
  `llm_known_failed` to `cancelled`, recovery returns an error, and every later
  start meets the same row.
- `delivery_started` after a restart. The table says the outcome is read, restored
  and the turn completed. Recovery restates the row's facts without the model's
  outcome, which the ledger refuses when one is recorded; when none is (a notice),
  the row moves on to the delivery's outcome and recovery then fails at its audit,
  whose start is not recorded as succeeded. No row in this state is ever completed.
- `delivered`, `delivery_failed` and `delivery_outcome_unknown` after a restart. The
  table says they are completed. A `delivery_failed` row with its checkpoint saved
  and its completion audit recorded as failed is called incompatible and returns
  an error, and so does any row an earlier failed recovery has moved on from
  `delivery_started`. (By hand: `tlc -config MCEndedDelivery.cfg MCRuntime`.)

  `UnrecoverableRow` is exactly these rows, and `RecoveryFailsOnlyOnKnownRows`, a part
  of `RecoveryTellsTheTruth`, confines the failures of recovery to them, under one
  policy version and without failing ports.
- An unknown model outcome. The barrier is written after the row has moved;
  when the process dies in between, recovery completes the turn and the
  conversation is never degraded.
- A write whose connector answers that its outcome is unknown, when the abort
  came after that answer and before the code looked: the abort's code is reported
  with the state `completed`.
- Fresh evidence called stale. `resolve` of the permission gateway reads the clock
  before its three awaits and judges by it the risk evidence that it has
  classified itself after them, dated with a later reading: whenever the clock has
  moved, evidence that still stands denies the operation.
- A Codex probe whose clean-up budgets are refused. They are validated after the
  spawn, and the refusal returns without closing the child, although the cleanup
  table has a bounded close for a process without a thread.

Two more follow from the second case of `ProbeReturns`, a probe that stands at a write
for ever, and have no run of their own. A Codex child that stops reading before the
clean-up: `cleanupRequest` awaits the write of `turn/interrupt` or
`thread/unsubscribe` before its timer and before anything is killed
(`codex-app-server-client.ts:476`), so the total budget of the clean-up
(`build-3.7e1a-codex-subscription-probe-decisions.md:390`) does not hold. A child that
stops reading before `turn/start`: the timer of a request does not end its write
(line 450), its rejection ends the process or goes unnoticed, and no `known-timeout`
(line 359 of the document) is reported.

More were seen while modelling and have no run either. Recovery of
`delivered` under another policy version is refused by the audit port and
returns an error (line 133). An authentication that
fails leaves the row `observed` rather than `authentication_rejected`
(`communication-orchestrator.ts:239`, documented in lines 62 and 83). The row of a turn is moved to `queued` before the dispatcher is
asked (line 85 has it the other way round): a dispatcher at its limit refuses
the job and the row stays queued until the next start
(`communication-orchestrator.ts:411`). A close, or a
failed start, that overtakes a start gives the ownership of the ledger up; then the
continuation of start sets `running` and opens the ingress again (the dispatcher
stays draining, so nothing is called and the rows stay queued), or, if its recovery
fails, calls `release` of a handle that is gone and rejects with a TypeError
(`communication-orchestrator.ts:161`). `CallsStartOnlyWhenAllowed` says that no
provider is called meanwhile.

In the Neo process: a start that fails after a signal ends with exit code 0; the
close main itself asks for when it cannot identify or publish itself is tried
once and its result ignored; a shutdown that gives up after main has returned
records its timeout too late; a failed opening drops the handle through which
its rollback could be finished, so the lock is held until the process ends; a
second instance removes the readiness file of the first before it finds the
lock held. No document promises otherwise, and the properties are stated so.

## 6. Proofs

`StoreProofs` proves, first, nine theorems of the form `LedgerSpec => []P`, for
every set of turns, conversations and events, every limit, every client
(`OfferedMoves`, `OfferedFacts`) and every largest integer. The assumptions are
those named in the modules: `None` is no member of the constant sets, the sets
of turns is finite, limits and the largest integer are positive naturals, and
clients offer facts and moves of the columns' domains.

The argument. `StepWrites` brings each disjunct of `LedgerNext` to one of five
shapes: a row is inserted, authenticated, given a place in the queue, moved, or
has its facts rewritten; otherwise nothing changes. Every invariant is then one
lemma per shape.

| Theorem | Inductive invariant | Why it is needed |
|---|---|---|
| `LedgerIsTyped` | itself | the revision is checked against the limit before each write |
| `WritesAdvanceRevision` | the type invariant and `AbsentTurnsAreBlank` | an INSERT writes revision 1 over an absent row, whose revision must be 0 |
| `EventsAreDeduplicated` | itself | the INSERT is guarded by the search for the key |
| `HistoryIsFaithful`, `HistoryIsConsistent` | `HistoryInv` | neither is inductive alone: the newest entry must equal the columns for the check against the columns to protect the log |
| `SequencesStayDense` | `Dense` with `SequencedAreBound` | a turn with a sequence number has a conversation that never changes |
| `HistoryIsAlwaysALog`, `TurnsAreAlwaysCountedOnce` | the ones above | the properties the run `components` checks, as conjunctions |
| `PendingStaysWithinLimits` | itself with the type | a move out of the pending states only shrinks the sets counted; only accept adds one, after counting |

`ToolInvocationProofs` proves five theorems of the form `ToolSpec => P`, for every
set of calls, requests, approvals and approvers. The assumptions are
`ApprovalsAssumption` (`None` is no identifier, binding or approver) and
`InvocationAssumption` (a request is not `None`, and one that needs an approval
has its binding among `Bindings`).

The argument. `ToolInv` is the type invariant, `CallInv` of every call and
`ApprovalInv`. `CallInv` speaks of one call alone: what its stage says about
execution, request, audits and result; each action of a call has a lemma
`...Advances`, which shows that the call keeps `CallInv` and has not gained the
right to execute (`MayExecute`). Only the consumption of an approval gives that
right, and `ConsumeHolds` shows that the approval was granted for the very
request and, being granted and not consumed, belongs to no other call.
`ApprovalsStep` says that no other step brings an ended approval back, so
`ApprovalInv`, which ties `MayExecute` to a consumed approval of one's own,
lasts. The bare property is not inductive: it says nothing of a call between
its consumption and its execution, where the other call might consume again.

| Theorem | From |
|---|---|
| `ToolsAreTyped`, `ResultsAreHonest`, `ExecutionsAreAudited` | `CallInv` |
| `ExecutionsHaveTheirOwnApproval` | `ApprovalInv` |
| `ApprovalsStayEnded` | `ApprovalsStep`, under the type invariant |

`NeoProcessProofs` proves six theorems of the form `NeoSpec => []P` and one of
`StatusSpec`, for every set of process instances on one storage root and every number of attempts to
close, from `NeoAssumption` alone (`None` is no process and no failure class, and
at least one attempt is made).

The argument. `NeoInv` is the type invariant, `ProcessInv` of every process and
the exclusion by the lock. `ProcessInv` speaks of one process and of whether
`ready.json` names it: which resources each stage of opening implies
(`HostInv`), how main, the shutdown, the runtime's lifecycle and its owner stand
to each other (`RunInv`), what the disposition owes them (`ExitInv`) and where a
readiness file may survive (`ReadyInv`). Each action has a lemma `...Moves`:
the process keeps `ProcessInv`, writes nothing of the others but the readiness
file, and takes the lock only when it is free. `MovesKeep` concludes for all of
them. `RecordFailureHolds` states once what the precedence of failure classes
does to the disposition.

| Theorem | From | Why more than the property is needed |
|---|---|---|
| `NeoIsTyped` | `NeoInv` | an attempt may be counted only while fewer than the maximum were made |
| `StoreHasOneProcess` | `HostInv`, the lock | what is held depends on the stage of opening |
| `StoreAlwaysHasItsOwner` | `StoreHasOneProcess`, `HostsAreRemembered` | the property the run `host_process` checks |
| `ReadinessStaysTrue` | `ReadyInv` | a file may outlive its removal by the shutdown only where main removes it again |
| `HostsAreRemembered` | `RunInv` | before the start ends, the host has no owner; a close reads the owner, not what is held |
| `ExitCodesAreHonest` | `ExitInv` | a main that goes on to return without a shutdown must already have a failure |
| `StatusIsAlwaysTrue` | `StatusInv`, beside `NeoInv` | each stage of the command must say what was true when it read the file and what it has compared since: the process may go between any two reads |

What is proved of `NeoProcess` is proved over `DurableHost`, which `DurableStorage`
implements (`StorageImplementsHost`, below).

`StoreProofs` then treats the other stores one at a time, with any client. An operation of
the conversation store is the only one of its revision
(`RevisionsHaveOneOperation`); a degraded conversation is never active again, and
while its barrier is active no checkpoint changes its context
(`BarriersFreezeContexts`; once the barrier is reconciled, a conversation that is
still degraded takes checkpoints again); a scrubbed output stays scrubbed
(`ScrubbedPlaintextIsGone`). `StoresAlwaysKeepTheirRecords` joins the first of them
with what the outbox and the audit keep: reconciled deliveries were unknown, and a
completion event closes a start of its own policy.
For the dispatcher, `NobodyEverWaitsInVain` is inductive with two facts beside it:
a drained queue stays empty, and what is queued or active is finite, so that the
count against the limit means something. The pump of `Enqueue` always finds room
for the first job of its conversation, because fewer are active than pending, and
the `finally` of a job starts the next of its conversation; `whenIdle` is answered
in the step that makes the dispatcher idle.

`StorageProofs` proves two theorems of `StorageSpec`, for any processes, plans,
policies, answers of the file system and of SQLite, and any number of operations,
without an assumption on the constants. The invariant `StorageInv` says of one process, by
the point its start has reached, what it has taken (`ProcessOK`), and of two that only
one has the lock. Its core is `Fits`: the stage a clean-up or a close goes on with is
that of the first resource still held, in the order database, lock, root. Without it
a retry might start behind a resource that is still held. `SweepLeaves` shows that a pass of the
closers, wherever one of them fails, ends with a store that fits again and holds
nothing it did not hold before (`Shrinks`); `LockFails`, `DatabaseFails` and a failed
assembly are brought to such a pass (`RolledBack`), so that each action needs one
short lemma `...Steps`, which gives the invariant and the step of `DurableHost`
together.

| Theorem | From | Why more than the property is needed |
|---|---|---|
| `StoreIsAlwaysHeldWhileUsed` | `ProcessOK`, `OneFlock` | an operation may end after a close was asked for: only the gate, which finds it running, keeps the closers away from its store |
| `StorageImplementsHost` | `ShrinksAfterClosers`, and which resource each `at` implies | a failed close may end at any resource, but `DurableHost` only lets a suffix of the closers be missing; the lock is held only in an open root, and the database only under the lock |

It also proves `OpenedFilesAreAlwaysSound`: `FilesSpec => []OpenedFilesAreSound`, for
any number of openings and whatever databases lay at the two paths. The invariant
`FilesInv` rests on two facts. First, the CREATE statements and the verifications,
which are written out separately, agree (`OwnTables`, `OwnMemoryVerifies`,
`OwnCommunicationVerifies`): for every table, what `table_info` lists of the declared
columns is the list that is expected, and an empty file verifies as neither database.
Second, a file changes only from nothing to that schema (`OnlyOwnIsWritten`). So a
schema that was refused is not this code's and stays what it was, and what a port was
opened over stays as it was verified, across failed openings, closes that fail and
restarts. `IsDatabase`, the assumption on earlier files, only says what SQLite
returns when it is asked for a table: columns of a name, a type, a flag and a place.

`RuntimeProofs` proves the invariant `RuntimeInv` of the whole runtime, for any
number of turns, events, faults, crashes and drains. It relates, turn by turn,
four things no two of which are written together: the row of the ledger, the
effects that reached the providers, the locals of the job, and what recovery
read of the row.

- The compare-and-set. A job, a submission and recovery each hold a revision,
  never greater than the row's; *whoever holds the revision of the row knows its
  state* (`JobInv`, `SubmissionInv`, `ListedInv`, `CandidateInv`). So a write
  that passes the revision check is a transition from the state its author
  believes in, whatever happened between its reads and its write.
- The drain. `ProcessInv` says that recovery runs only beside jobs that a drain
  has made stale (their generation is past) or beside none; a stale job may still
  finish the call it is at, but its belief about the answer stays true.
- The effects. `EffectsInv` bounds by the stage of the job what can have reached
  the providers; `RowInv` says what the row may claim of it, and is what is left
  when a crash erases every local.

Each port's outcome has a lemma of its own (`Moved...`, `Told...`), each group of
stages one, and `JobHolds`, `RecoverHolds`, `CrashHolds`, `DrainsHold` conclude.

| Theorem | From |
|---|---|
| `AuditPrecedesCalls` | the start is recorded before the gate, and `RowInv` keeps it over crashes |
| `DeliveryIsTrue` | `RowInv`: a row says delivered or failed only as the transport answered |
| `SentStaysKnown` | `RowInv`: once called, only settled deliveries complete |

`PromiseProofs` proves `RuntimeKeepsItsPromise`, the refinement
`RuntimeSpec => ImplementsEventPromise`. By `OneTurnPerTransportEvent` (proved of
the ledger) an event is seen through at most one turn (`EventsSeen`), and
each step of the runtime is See, Ask, Send, Answer, Conclude or a stutter of that
turn's view; crashes, drains and recovery are stutters or Conclude.

It proves `AuditsAreTrue` as well, from a second invariant beside `RuntimeInv`.
`AuditStory` says what the four places that know of a turn's end may think of each
other. `RowStory` relates a row and its completion event: no event before the
delivery ended, and agreement once the facts close the audit. `JobStory` says what
the job has proved, which it may go on to write although a drain and recovery have
meanwhile moved the row; `ListedStory` and `CandidateStory` say the same of
recovery. Each has a part that holds for good and one that holds only while the
revision is still the row's: *a row that goes on takes nothing back of a delivery
that ended, and an event is final* (`RowKeeps`, `EventKeeps`), so the first part
survives whatever another writes (`StoriesGoOn`), and the second is renewed by the
compare-and-set. Needed beside: a completion event is never `None`
(`AuditAssumption`), or a row without an event would look like one with it.

And it proves `CallsNeedPermission`, from `DispatchStory`, what the dispatcher's
state says of the jobs. What allows a call is read stages before it is made: the
snapshot at the gate, the generation when the job was queued. That nobody makes
them wrong in between is a fact about who runs, so the invariant follows a job from
its submission to its end: a submission belongs to the conversation its row was
bound to (`BoundStory`); what waits or is active in the queue of a conversation is
a row bound there, whose submission has ended (`QueueStory`), so no later binding
moves it; a job past the queue is the active one of its conversation
(`RunnerStory`), so of two jobs that could write one snapshot only one runs; where
the gate let a current job through, the snapshot is not degraded yet (`GateStory`);
and a runtime nobody drains is new, failed, or owns its ledger (`OwnerStory`).

Last it proves `SnapshotsAlwaysAgree`, both halves. The order of the contexts
(`ContextsFollowSequence`) is a chain of three structures, none of which compares
sequences with the next: `PlaceStory`, no two turns have one place and a counter is
past every place given; `LineStory`, who stands behind another in the admission line
has no place yet; and `WorkStory`, the queue of a conversation is ascending
(`InOrder`), its runner comes before all that waits (`RunsFirst`), and a job that has
still to write its checkpoint is later than everything in the context it will extend
(`WritesNext`), which at the write itself is a fact about the snapshot it has loaded,
since the compare-and-set lets it through only where that is the stored one
(`LoadStory`). The step from one structure to the next is the head of the line that
publishes: it is later than all published before it. The barriers
(`UncertainDeliveryDegrades`) need `BarrierStory`, beside the three stories before it:
a recorded barrier operation means a barred conversation, and a barred one stays so
(`BarrierBars`, `CheckpointBars`: of the job and recovery, who writes second finds the
operation of the first); a row that was bound keeps its conversation (`RowHolds`); a
job past its barrier, or one about to complete the facts it wrote, has barred the
conversation if they are in doubt (`JobBars`); and recovery, which works from a listed
row that may be old, knows the conversation of the row of today (`ListedHome`) and
reconciles only behind a barrier or without a doubt (`CandidateBars`).

`ServiceProofs`, webhooks: `WebhookInv` follows each delivery (`DeliveryInv`: what
passed verification is an envelope some source signed in every field) and each
recorded event (`SeenInv`: it was recorded by a delivery that had passed
everything before). The canonical digest is what binds a verifier's answer,
perhaps another call's, to the envelope at hand (`SealedIsSigned`). Event
identifier, key and nonce are each unique in the replay store.

Memory: `MemoryInv` is, of each call, what it has validated (`WholeCall`,
`StageInv`), what it has written (`WroteInv`) and what it answered (`EndedInv`);
of each record, that it lies within the access that stored it (`RecordInv`); and
that two calls that spent a grant spent different ones. A validator of the code
is a list of checks whose first failure counts; `FirstFailurePasses` and
`FirstFailureFails`, by the well-ordering of the naturals, turn the verdict of
any of them into what it has checked.

| Theorem | From |
|---|---|
| `EventsPassOnce`, `OnlyVettedAreRecorded`; together `DeliveriesAlwaysPassOnce` | `DeliveryInv`, `SeenInv`, the unique fields |
| `MemoryIsIsolated` | `RecordInv`, `WroteInv`, `EndedInv` |
| `ApprovalsWriteOnce` | a call that wrote has spent its grant, and spent grants differ |
| `WritesAnswerTruly` | `EndedInv`; with the one above it is `WritesAreAlwaysApprovedAndTold` |

Extensions: `ExtensionsInv` says of each operation in which of the shapes of
`OperationInv` it is (awaiting its policy, its approval, its update, its grants,
its routing or its guard, or ended in one of five ways), and each shape says what
the operation has verified so far *of the answer it keeps*. That is what makes the
property inductive: the registry may move between two awaits, so what an
operation claims at its end has to follow from what it has read, not from what
stands in the registry.

Infrastructure: `FleetHoldsTogether` is itself inductive once the inventories are
known to be functions over records of the right shape (`FleetShape`), because every
registration and update parses the whole record again; `ReportStands` ties a drift
report to what it compared. A call of a simulated tool (`ConnectorInv`) was
permitted when it began to wait and is honest when answered, and each note belongs
to a call that answered "done".

Voices: `VoiceInv` says of each resolution that its profile is validated and its
time to live within the limit, and of one that ended with a voice that the
provider's observation agreed with that profile and was in force (`VouchesFor`).
The caller's profile is any profile: that it has the gender and language of what
was seen follows from what `EvidenceServes` compares with the validated profile the
evidence was made for (`SpeakingHolds`). That a validated Neo has no fallback is
`ValidatedProfile`, from the checks of `validateVoiceProfile`; `PrefixStays` finds one
check in the list they are joined to.

| Theorem | From |
|---|---|
| `ActivationsAreEarned`, `PermissionsAreBacked` | `ExtensionsInv` |
| `TheFleetHolds` | `FleetInv`, and `CompareDrift` says nothing only where nothing differs |
| `OnlyMovesMismatch` | `FleetInv`: a step that stores a service validates it against its server |
| `CallsAnswerTruly` | `ConnectorInv` |
| `VoicesAreVouchedFor` | `VoiceInv` |

`CodexProofs` proves of a probe that a known failure has sent no prompt
(`KnownFailuresPromptNobody`) and that nothing of its child is left when it has gone
through its clean-up (`CleanupsLeaveNoChild`; a probe refused after the spawn does
not, section 5). `CodexInv` divides the stages into those before the prompt's
write, those after it and the clean-up. It needs two facts more than the
properties: an outcome that claims no invocation is given only by way of the
clean-up, and a write in flight when the probe ends has poisoned the connection,
which kills the child before anybody is answered.

The assumptions of all these are the named ones of the modules: `None` is no
member of a constant set; limits are positive naturals; a page has a row;
clients and providers offer values of the columns' domains (for the inventories
`InputsAssumption`, for the answers a Codex child may give `ResultsAssumption`);
an entry the registry had before is an entry (`EntriesAssumption`); and
`SignedAssumption`, that a signature is carried by the very command it was made
for, which is how the model writes that signatures are not forged.

Only model-checked: `RecoveryTellsTheTruth` in its part `RecoveryFailsOnlyOnKnownRows`
(`DeliveryIsTrue` is the other part). It does not hold for every value of the constants:
a small `MaxSafeInteger` exhausts a revision, and after a crash another policy version
makes the audit refuse the completion; the run takes a large one and one version.
`SanitizedLogsHideSecrets` and `TextsAreVetted`, whose functions fold over the tokens of
a text, and `AcceptedConfigsAreSafe`, over documents of any shape: their proofs are
inductions over data; and every liveness property.

## 7. What is not modelled

- Tool registries and connections: maps filled at assembly; what a lookup finds is
  an input.
- A start of the orchestrator while the recovery of another is pending (it takes
  `failRuntime` from a job of the failed runtime to allow one), and a second
  orchestrator of one ledger in the process, which the ownership refuses.
- The parsing of arguments, `ready.json` and procfs: functions of one text without
  state. The JSON of columns; the formats of trusted identifiers and digests.
- The characters of a text: `SensitiveData` and `CommunicationTexts` see tokens, the
  other modules a verdict or a class.
- The Timeweb connector: it builds requests and reads responses, one at a time.
- Assembly of the local host, the reference implementations of ports and the
  scripted Codex server: they serve tests and examples.
- The repository's own scripts (`src/scripts`, boundary checks and validation
  gates): tools of development, no part of the running program.
- Local ports that never answer. SQLite itself: a transaction is one step and a
  committed one survives. Two processes on one database, which the process lock
  excludes.

`PROJECT.json` gives the reason for each component, and a note for each hazard
that no property covers.

## 8. Plan

Left to prove: `RecoveryFailsOnlyOnKnownRows`, for one policy version and a
`MaxSafeInteger` no revision reaches, over `AuditStory` and an invariant that no port
refuses a call of a job or of recovery.

Modules are written so that they can be proved about: no RECURSIVE operator,
parameters as constants with named assumptions, one action per operation.
