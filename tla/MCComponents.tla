----------------------------- MODULE MCComponents -----------------------------
(***************************************************************************)
(* The components below the runtime, each under every client its           *)
(* interface allows: the turn ledger, the conversation state, the delivery *)
(* outbox, the audit, the dispatcher, the two database files and the       *)
(* policies of its texts.  They share no variable, so a behaviour uses one *)
(* of them, and its states are theirs added up and not multiplied.         *)
(***************************************************************************)
EXTENDS TurnLedger, CommunicationStores, SqliteFiles, CommunicationTexts, TLC

CONSTANTS Jobs, j1, j2, j3, j4, MaxPendingJobs   \* of the dispatcher

VARIABLES queues, activeTurn, draining, idleWaiter,
          published,   \* the jobs the dispatcher's client has enqueued, or tried to
          used         \* the component of this behaviour

Dispatcher == INSTANCE TurnDispatcher
    WITH Turns <- Jobs, MaxDepthPerConversation <- 2, MaxGlobalPending <- MaxPendingJobs

dispatcherVars == <<queues, activeTurn, draining, idleWaiter, published>>
componentVars == <<ledgerVars, fileVars, recordVars, dispatcherVars, textVars, used>>

----------------------------------------------------------------------------
\* A client publishes each turn once, with the sequence number the ledger gave
\* it, in any order and conversation.
SequenceOf(job) == CASE job = j1 -> 1 [] job = j2 -> 2 [] job = j3 -> 3 [] job = j4 -> 4

Publish(c, job) ==
    /\ job \notin published
    /\ published' = published \cup {job}
    /\ Dispatcher!Enqueue(c, Dispatcher!DispatcherJob(job, SequenceOf(job)))

DispatcherClient ==
    \/ \E c \in Conversations :
         \/ \E job \in Jobs : Publish(c, job)
         \/ c \in Dispatcher!Active /\ Dispatcher!JobSettles(c) /\ UNCHANGED published
    \/ (Dispatcher!BeginDispatcherDrain \/ Dispatcher!WhenIdle) /\ UNCHANGED published

ComponentsInit ==
    /\ LedgerInit /\ StoresInit
    /\ Dispatcher!DispatcherInit /\ published = {}
    /\ FilesInit /\ TextsInit
    /\ used \in {"ledger", "conversation", "outbox", "audit", "dispatcher", "files", "texts"}
    /\ used = "files" \/ disk = [file \in FileNames |-> EmptyDatabase]

\* The stores' clients; a behaviour uses one conversation of the conversation state.
StoreClient ==
    \/ /\ used = "conversation" /\ ConversationNext
       /\ Cardinality({c \in Conversations : snapshots'[c] # NoSnapshot}) <= 1
       /\ UNCHANGED <<outboxVars, auditVars>>
    \/ used = "outbox" /\ OutboxNext /\ UNCHANGED <<conversationVars, auditVars>>
    \/ used = "audit" /\ AuditNext /\ UNCHANGED <<conversationVars, outboxVars>>

ComponentsNext ==
    /\ \/ used = "ledger" /\ LedgerNext /\ UNCHANGED <<fileVars, recordVars, dispatcherVars, textVars>>
       \/ StoreClient /\ UNCHANGED <<ledgerVars, fileVars, dispatcherVars, textVars>>
       \/ used = "dispatcher" /\ DispatcherClient /\ UNCHANGED <<ledgerVars, fileVars, recordVars, textVars>>
       \/ used = "files" /\ FilesNext /\ UNCHANGED <<ledgerVars, recordVars, dispatcherVars, textVars>>
       \/ used = "texts" /\ TextsNext /\ UNCHANGED <<ledgerVars, fileVars, recordVars, dispatcherVars>>
    /\ UNCHANGED used

ComponentsSpec == ComponentsInit /\ [][ComponentsNext]_componentVars

----------------------------------------------------------------------------
\* Nothing that is decided is undone: a degraded conversation stays degraded and, while
\* its barrier is active, keeps its context; scrubbed plaintext never comes back; and the
\* jobs of a conversation start in the ledger's order (stated in the components' modules).
NothingIsUndone ==
    /\ BarrierFreezesContext
    /\ ScrubbedStaysScrubbed
    /\ Dispatcher!StartsInSequence

----------------------------------------------------------------------------
(* The facts and moves that clients of the ledger offer: the admission path, *)
(* every way out of it, and moves the table forbids.                         *)

MCOfferedFacts ==
    { FactsOf("completed", "delivered", "pending", "succeeded", "pending", None),
      FactsOf("completed", "outcome_unknown", "failed", "succeeded", "failed",
              "DELIVERY_OUTCOME_UNKNOWN"),
      FactsOf("outcome-unknown", "not_started", "failed", "succeeded", "failed",
              "LLM_OUTCOME_UNKNOWN") }

MCOfferedMoves ==
    { <<"authenticated", "accepted">>, <<"accepted", "queued">>, <<"accepted", "cancelled">>,
      <<"queued", "cancelled">>, <<"cancelled", "completed">>, <<"observed", "cancelled">>,
      <<"authentication_rejected", "completed">>, <<"observed", "completed">>,
      <<"completed", "accepted">>, <<"queued", "delivered">> }

----------------------------------------------------------------------------
(* Files this code made, no files, and files that differ in one thing each.  *)

M == BootstrapSqliteMemorySchemaV1
C == MigrateCommunicationSchema0To1
Without(function, key) == Restrict(function, DOMAIN function \ {key})
Recolumned(db, table, at, column) == [db EXCEPT !.tables[table].columns[at] = column]

MCLikeSqlite == {"sqlite_sequence", "sqlite2_sync"}
OddMemory ==
    {[M EXCEPT !.tables = Without(@, "memory_records")], [M EXCEPT !.indexes = << >>],
     [M EXCEPT !.others = @ \cup {"records_trigger"}], [M EXCEPT !.tables["memory_records"].strict = FALSE],
     [M EXCEPT !.tables["memory_records"].unique = {<<"owner_id", "record_id", "namespace">>}],
     [M EXCEPT !.indexes["memory_records_query_idx"].unique = TRUE],
     [M EXCEPT !.indexes["memory_records_query_idx"].columns = <<"insertion_ordinal", "owner_id", "namespace">>],
     [M EXCEPT !.meta = <<Row(1, 2)>>], [M EXCEPT !.meta = << >>],
     Recolumned(M, "memory_records", 5, <<"content", "TEXT", 0, 0>>)}
OddCommunication ==
    {[C EXCEPT !.tables = Without(@, "outbox_entries")], [C EXCEPT !.indexes = Without(@, "turns_recovery_idx")],
     [C EXCEPT !.indexes = @ @@ ("extra_idx" :> Index("turns", <<"state">>))],
     [C EXCEPT !.tables["turns"].strict = FALSE], [C EXCEPT !.tables["turns"].unique = {}],
     [C EXCEPT !.others = @ \cup {"sqlite2_sync"}],
     [C EXCEPT !.meta = <<Row(1, 0)>>], [C EXCEPT !.meta = <<Row(1, 2)>>], [C EXCEPT !.meta = <<Row(2, 1)>>],
     [C EXCEPT !.meta[1].integer = FALSE],
     Recolumned(C, "checkpoint_ops", 5, <<"fingerprint", "TEXT", 1, 0>>),
     Recolumned(C, "turn_dedup", 1, <<"idempotency_key", "TEXT", 0, 0>>)}
MCEarlierFiles ==
    {[memory |-> m, communication |-> c] : m \in {EmptyDatabase, M}, c \in {EmptyDatabase, C}}
    \cup {[memory |-> m, communication |-> C] : m \in OddMemory}
    \cup {[memory |-> M, communication |-> c] : c \in OddCommunication}

----------------------------------------------------------------------------
(* Texts: every short one and long assignments; metadata, observations,      *)
(* prompts, outputs and kill switches that differ in one or two things from  *)
(* ones that pass.                                                           *)

ScannerTokens == Tokens \ {"return", "control", "surrogate"}
SmallTexts == UNION {[1 .. n -> ScannerTokens] : n \in 0 .. 3}
Assigned ==
    {<<key>> \o rest : key \in Labels, rest \in UNION {[1 .. n -> {"quote", "escape", "word", "space", "newline", "marker"}] : n \in 4 .. 5}}
MCScannedTexts == {text \in SmallTexts \cup Assigned \cup {<<"word","space","word","space","word","space","word">>}: WellSpaced(text)}
Node(path, depth, key) == [path |-> path, depth |-> depth, key |-> key, size |-> Len(path), leaf |-> FALSE, indexed |-> FALSE, text |-> <<>>]
Leaf(path, depth, text) == [Node(path, depth, "plain") EXCEPT !.leaf = TRUE, !.text = text]
LeafTexts == {<<>>, <<"word">>, <<"marker">>, <<"key", "word">>, <<"token">>, <<"key", "newline", "newline">>}
Leaves == {Leaf(<<"a">>, 1, text) : text \in LeafTexts}
    \cup {[Leaf(<<"b">>, 1, text) EXCEPT !.indexed = TRUE] : text \in {<<>>, <<"word">>, <<"marker">>}}
    \cup {[Leaf(<<"c">>, 1, <<"word">>) EXCEPT !.key = key] : key \in {"sensitive", "control", "secret"}}
    \cup {Leaf(<<"a", "b">>, d, text) : d \in 1 .. 3, text \in {<<"word">>, <<"token">>}}
    \cup {[Leaf(<<"a[0]">>, 2, text) EXCEPT !.key = "none", !.size = 0] : text \in LeafTexts}
NodeLists == {<<leaf>> : leaf \in Leaves} \cup {<<Node(<<"a">>, 1, "plain"), leaf>> : leaf \in Leaves}
   \cup {<<leaf, Node(<<"a">>, 1, "plain"), other>> : leaf \in Leaves, other \in Leaves}
   \cup {<< >>}
MCScannedMetadata == [object : BOOLEAN, plain : BOOLEAN, nodes : NodeLists]

Token == [string |-> TRUE, null |-> FALSE, length |-> 1, blank |-> FALSE, control |-> FALSE, visible |-> TRUE]
OddTokens ==
    {[Token EXCEPT !.string = FALSE], [Token EXCEPT !.length = 0], [Token EXCEPT !.length = 4], [Token EXCEPT !.length = 9],
     [Token EXCEPT !.blank = TRUE], [Token EXCEPT !.control = TRUE], [Token EXCEPT !.visible = FALSE],
     [Token EXCEPT !.null = TRUE, !.string = FALSE]}
Observation ==
    [claimsAuthority |-> FALSE, plain |-> TRUE, exact |-> TRUE, references |-> [r \in References |-> Token],
     sourceTimestamp |-> [Token EXCEPT !.null = TRUE], text |-> <<"word">>]
RawTokens == {"word", "newline", "return", "control", "surrogate"}
RawTexts(max) == UNION {[1 .. n -> RawTokens] : n \in 0 .. max}
MCObservations ==
    {[Observation EXCEPT !.text = text] : text \in RawTexts(5)}
    \cup {[Observation EXCEPT !.references[r] = token] : r \in References, token \in OddTokens}
    \cup {[Observation EXCEPT !.sourceTimestamp = token] : token \in OddTokens \cup {Token}}
    \cup {[Observation EXCEPT !.claimsAuthority = TRUE], [Observation EXCEPT !.plain = FALSE],
          [Observation EXCEPT !.exact = FALSE]}

Prompt == [fixedBodies |-> TRUE, excerpts |-> <<>>, context |-> <<>>, summary |-> <<>>, ownerText |-> <<"word">>]
PromptTexts ==
    {<<>>, <<"word">>, <<"key">>, <<"marker">>, <<"key", "return">>, <<"key", "marker">>, <<"begin">>, <<"end">>,
     <<"quote">>, <<"word", "space", "url">>, <<"control">>, <<"newline", "word">>, <<"word", "space", "word", "space", "word">>}
Lists(max) == UNION {[1 .. n -> PromptTexts] : n \in 0 .. max}
MCPrompts ==
    {[Prompt EXCEPT !.excerpts = list] : list \in Lists(3)}
    \cup {[Prompt EXCEPT !.context = list, !.summary = s] : list \in Lists(2), s \in {<<>>} \cup {<<text>> : text \in PromptTexts}}
    \cup {[Prompt EXCEPT !.ownerText = text, !.context = <<other>>] : text \in PromptTexts, other \in PromptTexts}
    \cup {[Prompt EXCEPT !.fixedBodies = FALSE]}

OutputTokens == {"word", "return", "newline", "key", "marker", "quote", "space", "critical"}
MCOutputs == [source : {"llm"}, text : {t \in UNION {[1 .. n -> OutputTokens] : n \in 0 .. 4} : WellSpaced(t)}]
    \cup [source : {"somebody"}, text : {<<"word">>}]

Eligible == [f \in SwitchFields |-> IF f \in {"providerRouteAllowed", "telegramRouteAllowed"} THEN "false" ELSE "true"]
MCSwitches ==
    {[exact |-> TRUE, fields |-> [Eligible EXCEPT ![f] = v, ![g] = w]] :
        f \in SwitchFields, g \in SwitchFields, v \in {"true", "false", "other"}, w \in {"true", "false"}}
    \cup {[exact |-> FALSE, fields |-> Eligible]}

Claims(owner, conversation) == [owner |-> owner, conversation |-> conversation]
MCClaims == {Claims("o1", "c1"), Claims("o1", "c2"), Claims("o2", "c2")}
MemoryRead ==
    [claims |-> Claims("o1", "c1"), purpose |-> "text-prompt-context", maxRecords |-> 1,
     maxTotalBytes |-> MaxExcerptsTotal, namespace |-> "none"]
MCMemoryReads ==
    {[MemoryRead EXCEPT !.claims = c] : c \in MCClaims \cup {Claims("o2", "c1")}} \cup
    {[MemoryRead EXCEPT !.purpose = "other"], [MemoryRead EXCEPT !.maxRecords = 0],
     [MemoryRead EXCEPT !.maxRecords = MaxExcerpts + 1], [MemoryRead EXCEPT !.maxTotalBytes = MaxExcerptsTotal + 1],
     [MemoryRead EXCEPT !.namespace = "personal"], [MemoryRead EXCEPT !.namespace = "business"]}

MCSymmetry == Permutations(Turns) \cup Permutations(Conversations) \cup Permutations(TransportKeys)
===============================================================================
