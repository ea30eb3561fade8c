------------------------------ MODULE SqliteFiles ------------------------------
(***************************************************************************)
(* The two database files under an open storage root: each is opened,      *)
(* created or verified, scrubbed and handed out as ports, and closed with  *)
(* retries.  An opening is one synchronous function: nothing of the        *)
(* process runs between its steps, but every step may fail, SQLite may     *)
(* refuse to close, and the process may die and find the file again.       *)
(***************************************************************************)
EXTENDS Integers, Checks, SequencesExt, Functions

----------------------------------------------------------------------------
(* The schemas of the two database files: what their CREATE statements     *)
(* make of an empty file, and what their verifications ask of a file that  *)
(* is already there.  A database is its tables, its indexes, whatever else *)
(* its catalogue lists, and the rows of its meta table; empty names the    *)
(* file that SQLite has just created.                                      *)

CONSTANT LikeSqlite    \* names of the catalogue that match LIKE 'sqlite_%', where _ is any character

SchemaVersion == 1

----------------------------------------------------------------------------
(* Columns, as the CREATE statements declare them and as table_info lists    *)
(* them: <<name, type, not null, place in the primary key>>.                 *)

Columns(type, notnull, names) == [i \in DOMAIN names |-> <<names[i], type, notnull, 0>>]
Texts(names) == Columns("TEXT", 1, names)
Optional(names) == Columns("TEXT", 0, names)
Integers(names) == Columns("INTEGER", 1, names)
Keys(names) == [i \in DOMAIN names |-> <<names[i], "TEXT", 1, i>>]
RowId(name) == <<<<name, "INTEGER", 0, 1>>>>
\* A column constraint PRIMARY KEY, without NOT NULL.
TextKey(name) == <<<<name, "TEXT", 0, 1>>>>

\* A STRICT table never holds NULL in a primary key that is not its row id.
TableInfo(table) ==
    [i \in DOMAIN table.columns |->
        LET c == table.columns[i] IN
        IF table.strict /\ c[4] > 0 /\ c[2] # "INTEGER" THEN [c EXCEPT ![3] = 1] ELSE c]

Table(columns) ==
    [columns |-> columns, strict |-> TRUE, idIsOne |-> FALSE, autoincrement |-> FALSE, unique |-> {}, references |-> {}]
Meta == [Table(RowId("id") \o Integers(<<"schema_version">>)) EXCEPT !.idIsOne = TRUE]
Index(table, columns) == [table |-> table, columns |-> columns, unique |-> FALSE, partial |-> FALSE]

----------------------------------------------------------------------------
(* What the CREATE statements make.                                          *)

EmptyDatabase == [tables |-> << >>, indexes |-> << >>, others |-> {}, meta |-> << >>]
Row(id, version) == [id |-> id, integer |-> TRUE, version |-> version]

RecordsTable ==
    [Table(RowId("insertion_ordinal")
           \o Texts(<<"owner_id", "namespace", "record_id", "content", "source_json", "provenance_json",
                      "privacy_classification", "trust_level", "retention_json", "created_at", "updated_at">>))
     EXCEPT !.autoincrement = TRUE, !.unique = {<<"owner_id", "namespace", "record_id">>}]
MemoryTables == {"memory_meta", "memory_records"}
MemoryIndexes == {"memory_records_query_idx"}
BootstrapSqliteMemorySchemaV1 ==
    [tables |-> [t \in MemoryTables |-> IF t = "memory_meta" THEN Meta ELSE RecordsTable],
     indexes |-> [i \in MemoryIndexes |-> Index("memory_records", <<"owner_id", "namespace", "insertion_ordinal">>)],
     others |-> {"sqlite_sequence"},
     meta |-> <<Row(1, SchemaVersion)>>]

AuditStartColumns ==
    TextKey("idempotency_key")
    \o Texts(<<"turn_id", "correlation_id", "owner_id", "conversation_id", "operation_kind", "policy_version", "timestamp">>)
Statuses == Texts(<<"delivery_status", "checkpoint_status", "audit_start_status", "audit_completion_status">>)

CommunicationTables ==
    {"communication_meta", "turns", "turn_dedup", "sequence_counters", "factual_history", "conversation_snapshots",
     "checkpoint_ops", "audit_start", "audit_completion", "outbox_entries", "outbox_outcomes", "outbox_reconcile_ops"}
CommunicationTable(name) ==
    CASE name = "communication_meta" -> Meta
      [] name = "turns" ->
            [Table(TextKey("turn_id") \o Texts(<<"transport_instance_id", "idempotency_key", "state">>)
                   \o Integers(<<"turn_revision">>) \o Columns("INTEGER", 0, <<"conversation_sequence">>)
                   \o Optional(<<"owner_id", "conversation_id", "correlation_id">>) \o Statuses
                   \o Optional(<<"llm_outcome", "error_code">>) \o Texts(<<"observed_at", "updated_at">>))
             EXCEPT !.unique = {<<"idempotency_key">>}]
      [] name = "turn_dedup" ->
            [Table(TextKey("idempotency_key") \o Texts(<<"turn_id", "created_at">>)) EXCEPT !.references = {"turns"}]
      [] name = "sequence_counters" -> Table(Keys(<<"owner_id", "conversation_id">>) \o Integers(<<"next_sequence">>))
      [] name = "factual_history" ->
            [Table(RowId("id") \o Texts(<<"turn_id", "recorded_at">>) \o Optional(<<"llm_outcome">>) \o Statuses
                   \o Optional(<<"error_code">>) \o Integers(<<"turn_revision">>))
             EXCEPT !.autoincrement = TRUE, !.references = {"turns"}]
      [] name = "conversation_snapshots" ->
            Table(Keys(<<"owner_id", "conversation_id">>) \o Integers(<<"revision">>)
                  \o Texts(<<"pause_state", "checkpoint_status">>) \o Integers(<<"checkpoint_revision">>)
                  \o Texts(<<"active_context_json", "summary_json", "fingerprint", "updated_at">>))
      [] name = "checkpoint_ops" ->
            Table(Keys(<<"owner_id", "conversation_id", "idempotency_key">>) \o Texts(<<"op_kind">>)
                  \o Optional(<<"fingerprint">>) \o Columns("INTEGER", 0, <<"revision_after">>) \o Texts(<<"created_at">>))
      [] name = "audit_start" -> Table(AuditStartColumns \o Texts(<<"metadata_json">>))
      [] name = "audit_completion" ->
            Table(AuditStartColumns \o Statuses \o Optional(<<"error_code">>) \o Texts(<<"metadata_json">>))
      [] name = "outbox_entries" ->
            Table(Keys(<<"turn_id", "correlation_id", "output_digest">>) \o Texts(<<"expires_at", "sealed_binding_version">>)
                  \o Optional(<<"plaintext_payload">>) \o Integers(<<"scrubbed">>) \o Texts(<<"created_at">>))
      [] name = "outbox_outcomes" ->
            Table(Keys(<<"turn_id", "correlation_id">>) \o Texts(<<"idempotency_key", "outcome", "recorded_at">>))
      [] name = "outbox_reconcile_ops" ->
            Table(TextKey("idempotency_key") \o Texts(<<"turn_id", "correlation_id", "created_at">>))
CommunicationIndexes == {"turns_recovery_idx", "turns_owner_conversation_idx", "outbox_expires_idx"}
CommunicationIndex(name) ==
    CASE name = "turns_recovery_idx" -> Index("turns", <<"updated_at", "observed_at", "turn_id">>)
      [] name = "turns_owner_conversation_idx" -> Index("turns", <<"owner_id", "conversation_id", "state">>)
      [] name = "outbox_expires_idx" -> Index("outbox_entries", <<"expires_at", "scrubbed">>)
MigrateCommunicationSchema0To1 ==
    [tables |-> [t \in CommunicationTables |-> CommunicationTable(t)],
     indexes |-> [i \in CommunicationIndexes |-> CommunicationIndex(i)],
     others |-> {"sqlite_sequence"},
     meta |-> <<Row(1, SchemaVersion)>>]
----------------------------------------------------------------------------
(* What the verifications ask.  The lists of expected columns are their own. *)

CheckpointOpsRest == Optional(<<"fingerprint">>) \o Columns("INTEGER", 0, <<"revision_after">>) \o Texts(<<"created_at">>)
ExpectedColumns(table) ==
    CASE table \in {"communication_meta", "memory_meta"} -> RowId("id") \o Integers(<<"schema_version">>)
      [] table = "memory_records" ->
            RowId("insertion_ordinal")
            \o Texts(<<"owner_id", "namespace", "record_id", "content", "source_json", "provenance_json",
                       "privacy_classification", "trust_level", "retention_json", "created_at", "updated_at">>)
      [] table = "turns" ->
            Keys(<<"turn_id">>) \o Texts(<<"transport_instance_id", "idempotency_key", "state">>)
            \o Integers(<<"turn_revision">>) \o Columns("INTEGER", 0, <<"conversation_sequence">>)
            \o Optional(<<"owner_id", "conversation_id", "correlation_id">>)
            \o Texts(<<"delivery_status", "checkpoint_status", "audit_start_status", "audit_completion_status">>)
            \o Optional(<<"llm_outcome", "error_code">>) \o Texts(<<"observed_at", "updated_at">>)
      [] table = "turn_dedup" -> Keys(<<"idempotency_key">>) \o Texts(<<"turn_id", "created_at">>)
      [] table = "sequence_counters" -> Keys(<<"owner_id", "conversation_id">>) \o Integers(<<"next_sequence">>)
      [] table = "factual_history" ->
            RowId("id") \o Texts(<<"turn_id", "recorded_at">>) \o Optional(<<"llm_outcome">>)
            \o Texts(<<"delivery_status", "checkpoint_status", "audit_start_status", "audit_completion_status">>)
            \o Optional(<<"error_code">>) \o Integers(<<"turn_revision">>)
      [] table = "conversation_snapshots" ->
            Keys(<<"owner_id", "conversation_id">>) \o Integers(<<"revision">>) \o Texts(<<"pause_state", "checkpoint_status">>)
            \o Integers(<<"checkpoint_revision">>)
            \o Texts(<<"active_context_json", "summary_json", "fingerprint", "updated_at">>)
      [] table = "checkpoint_ops" ->
            Keys(<<"owner_id", "conversation_id", "idempotency_key">>) \o Texts(<<"op_kind">>) \o CheckpointOpsRest
      [] table = "audit_start" ->
            Keys(<<"idempotency_key">>)
            \o Texts(<<"turn_id", "correlation_id", "owner_id", "conversation_id", "operation_kind", "policy_version",
                       "timestamp">>) \o Texts(<<"metadata_json">>)
      [] table = "audit_completion" ->
            Keys(<<"idempotency_key">>)
            \o Texts(<<"turn_id", "correlation_id", "owner_id", "conversation_id", "operation_kind", "policy_version",
                       "timestamp">>)
            \o Texts(<<"delivery_status", "checkpoint_status", "audit_start_status", "audit_completion_status">>)
            \o Optional(<<"error_code">>) \o Texts(<<"metadata_json">>)
      [] table = "outbox_entries" ->
            Keys(<<"turn_id", "correlation_id", "output_digest">>) \o Texts(<<"expires_at", "sealed_binding_version">>)
            \o Optional(<<"plaintext_payload">>) \o Integers(<<"scrubbed">>) \o Texts(<<"created_at">>)
      [] table = "outbox_outcomes" ->
            Keys(<<"turn_id", "correlation_id">>) \o Texts(<<"idempotency_key", "outcome", "recorded_at">>)
      [] table = "outbox_reconcile_ops" -> Keys(<<"idempotency_key">>) \o Texts(<<"turn_id", "correlation_id", "created_at">>)

\* The objects a verification sees.
UserObjects(db) == [db EXCEPT !.tables = Restrict(@, DOMAIN @ \ LikeSqlite),
                              !.indexes = Restrict(@, DOMAIN @ \ LikeSqlite),
                              !.others = @ \ LikeSqlite]

VerifyNothing(db, table) == "ok"    \* mutant
VerifyColumns(db, table) ==
    LET actual == TableInfo(db.tables[table]) want == ExpectedColumns(table) IN
    IF Len(actual) # Len(want) THEN "column_count"
    ELSE FirstFailure([i \in DOMAIN want |->
            FirstFailure(<<Check(actual[i][1] = want[i][1], "column_name"), Check(actual[i][2] = want[i][2], "column_type"),
                           Check(actual[i][3] = want[i][3], "column_notnull"), Check(actual[i][4] = want[i][4], "column_pk")>>)])
VerifyIndexColumns(db, index, columns) == Check(db.indexes[index].columns = columns, "index_columns")

MetaVersion(db) ==
    IF Len(db.meta) # 1 THEN "meta_row_count"
    ELSE LET row == db.meta[1] IN
         FirstFailure(<<Check(row.id = 1, "meta_id"), Check(row.integer, "malformed_meta")>>)
VerifyVersion(db) ==
    IF Fails(MetaVersion(db)) THEN MetaVersion(db)
    ELSE LET version == db.meta[1].version IN
         FirstFailure(<<Check(version <= SchemaVersion, "future_version"), Check(version = SchemaVersion, "unsupported_version")>>)

\* Which objects there are, and of what kind.
ObjectsOutcome(db, tables, indexes) ==
    LET seen == UserObjects(db) IN
    FirstFailure(<<Check(tables \subseteq DOMAIN seen.tables, "partial_schema"),
                   Check(indexes \subseteq DOMAIN seen.indexes, "missing_index"),
                   Check(seen.others = {}, "unexpected_object"),
                   Check(DOMAIN seen.tables \subseteq tables, "unexpected_table"),
                   Check(DOMAIN seen.indexes \subseteq indexes, "unexpected_index")>>)

RecordsOutcome(db) ==
    LET records == db.tables["memory_records"]
        query == db.indexes["memory_records_query_idx"]
        over == {i \in DOMAIN db.indexes : db.indexes[i].table = "memory_records"} IN
    FirstFailure(<<
        Check(db.tables["memory_meta"].idIsOne, "meta_check"), Check(db.tables["memory_meta"].strict, "meta_strict"),
        Check(records.autoincrement, "missing_autoincrement"), Check(records.strict, "records_strict"),
        Check(<<"owner_id", "namespace", "record_id">> \in records.unique, "unique_ddl"),
        Check(Cardinality(records.unique) + Cardinality({i \in over : db.indexes[i].unique}) = 1, "unique_count"),
        Check(~query.unique, "query_index_unique"), Check(~query.partial, "query_index_partial"),
        VerifyIndexColumns(db, "memory_records_query_idx", <<"owner_id", "namespace", "insertion_ordinal">>),
        Check(Cardinality(over) = 1, "unexpected_index"),
        VerifyVersion(db)>>)

VerifySqliteMemorySchemaV1(db) ==
    LET objects == ObjectsOutcome(db, MemoryTables, MemoryIndexes) IN
    IF Fails(objects) THEN objects
    ELSE IF db.indexes["memory_records_query_idx"].table # "memory_records" THEN "index_table"
    ELSE FirstFailure(<<VerifyColumns(db, "memory_meta"), VerifyColumns(db, "memory_records"), RecordsOutcome(db)>>)

VerifyCommunicationSchemaV1(db) ==
    LET objects == ObjectsOutcome(db, CommunicationTables, CommunicationIndexes) IN
    IF Fails(objects) THEN objects
    ELSE FirstFailure(<<
        Check(\A t \in CommunicationTables : db.tables[t].strict, "strict"),
        Check(db.tables["communication_meta"].idIsOne, "meta_check"),
        Check(\A t \in CommunicationTables : VerifyColumns(db, t) = "ok", "columns"),
        Check(db.tables["factual_history"].autoincrement, "missing_autoincrement"),
        VerifyIndexColumns(db, "turns_recovery_idx", <<"updated_at", "observed_at", "turn_id">>),
        VerifyIndexColumns(db, "turns_owner_conversation_idx", <<"owner_id", "conversation_id", "state">>),
        VerifyIndexColumns(db, "outbox_expires_idx", <<"expires_at", "scrubbed">>),
        Check(Cardinality({i \in DOMAIN db.indexes : db.indexes[i].table = "turns"}) = 2, "unexpected_index"),
        VerifyVersion(db)>>)

\* 0 for an empty file; -1 where no version can be read.
ReadCommunicationSchemaVersion(db) ==
    IF db = EmptyDatabase THEN 0
    ELSE IF "communication_meta" \notin DOMAIN UserObjects(db).tables \/ Fails(MetaVersion(db)) THEN -1
    ELSE IF db.meta[1].version < 0 THEN -1 ELSE db.meta[1].version

----------------------------------------------------------------------------
(* The files.                                                              *)

CONSTANTS
    Handles,            \* openings of a file in the life of a process
    EarlierFiles,       \* what may lie at the two paths before the first start
    MaxFileTime         \* bound: readings of the clock

VARIABLES
    disk,       \* disk[file]: the database in the file
    outbox,     \* entries of the outbox: when each expires, and whether its text is still there
    ports,      \* ports[h]: file, state, lease of the root, time and outcome of the opening
    rootOpen,   \* whether the capability of the storage root is open
    today       \* the clock of the process

fileVars == <<disk, outbox, ports, rootOpen, today>>

FileNames == {"memory", "communication"}

\* The names of this code are not like SQLite's own.
ASSUME CatalogueAssumption ==
    /\ "sqlite_sequence" \in LikeSqlite
    /\ LikeSqlite \cap (MemoryTables \cup MemoryIndexes \cup CommunicationTables \cup CommunicationIndexes) = {}

\* What lies at a path when it is opened is a database, of any tables, indexes and rows;
\* a declared type is read in upper case.
ColumnInfo == STRING \X STRING \X {0, 1} \X Nat
IsDatabase(db) ==
    /\ db = [tables |-> db.tables, indexes |-> db.indexes, others |-> db.others, meta |-> db.meta]
    /\ \A t \in DOMAIN db.tables : db.tables[t].columns \in Seq(ColumnInfo)
    /\ db.meta \in Seq([id : Int, integer : BOOLEAN, version : Int])
ASSUME FilesAssumption ==
    \A files \in EarlierFiles :
        files = [file \in FileNames |-> files[file]] /\ \A file \in FileNames : IsDatabase(files[file])

PortStates == {"none", "refused", "open", "close-pending", "closed"}
NoPort == [file |-> "memory", state |-> "none", lease |-> FALSE, openedAt |-> 0, reason |-> "none"]

FilesInit ==
    /\ disk \in EarlierFiles
    /\ outbox = {}
    /\ ports = [h \in Handles |-> NoPort]
    /\ rootOpen = TRUE
    /\ today = 0

----------------------------------------------------------------------------
(* Opening.                                                                  *)

Ended(h, file, state, lease, reason) ==
    ports' = [ports EXCEPT ![h] = [file |-> file, state |-> state, lease |-> lease, openedAt |-> today, reason |-> reason]]

\* The connection is closed; if that fails it keeps its lease for a retry.
FailAfterOpen(h, file, reason) ==
    \/ Ended(h, file, "refused", FALSE, reason)
    \/ Ended(h, file, "close-pending", TRUE, reason)

\* No lease without an open root, no connection without the lease.
RefusedBeforeOpen(h, file) ==
    /\ Ended(h, file, "refused", FALSE, "SQLITE_OPEN_FAILED")
    /\ UNCHANGED <<disk, outbox>>

\* A pragma that does not hold or a failed integrity check.
UnfitConnection(h, file) ==
    /\ rootOpen
    /\ FailAfterOpen(h, file, "SQLITE_PRAGMA_FAILED")
    /\ UNCHANGED <<disk, outbox>>

\* The file once it is created, in one transaction, or left as it is; and what the
\* opening says of it.
Creates(file) ==
    IF file = "memory" THEN disk[file] = EmptyDatabase
    ELSE ReadCommunicationSchemaVersion(disk[file]) = 0
Created(file) ==
    IF ~Creates(file) THEN disk[file]
    ELSE IF file = "memory" THEN BootstrapSqliteMemorySchemaV1
    ELSE MigrateCommunicationSchema0To1
\* A table of that name already there makes the first CREATE fail.
CreationFails(file) == Creates(file) /\ disk[file] # EmptyDatabase
SchemaOutcome(file) ==
    IF CreationFails(file) THEN "bootstrap_failed"
    ELSE IF file = "memory" THEN VerifySqliteMemorySchemaV1(Created(file))
    ELSE IF ReadCommunicationSchemaVersion(Created(file)) # SchemaVersion THEN "unsupported_version"
    ELSE VerifyCommunicationSchemaV1(Created(file))

\* The transaction that creates the schema fails as a whole.
CreationBreaks(h, file) ==
    /\ rootOpen /\ Creates(file)
    /\ FailAfterOpen(h, file, "BUSY")
    /\ UNCHANGED <<disk, outbox>>

SchemaRefused(h, file) ==
    /\ rootOpen /\ Fails(SchemaOutcome(file))
    /\ disk' = IF CreationFails(file) THEN disk ELSE [disk EXCEPT ![file] = Created(file)]
    /\ FailAfterOpen(h, file, "SQLITE_SCHEMA_MISMATCH")
    /\ UNCHANGED outbox

ScrubExpiredOutboxPlaintext(entries) ==
    {IF e.expires < today THEN [e EXCEPT !.text = FALSE] ELSE e : e \in entries}

\* The expired texts are scrubbed before a port is handed out; the statements
\* prepared last may still fail.
SchemaAccepted(h, file) ==
    /\ rootOpen /\ ~Fails(SchemaOutcome(file))
    /\ disk' = [disk EXCEPT ![file] = Created(file)]
    /\ \/ FailAfterOpen(h, file, "SQLITE_OPEN_FAILED") /\ UNCHANGED outbox
       \/ /\ outbox' = IF file = "memory" THEN outbox ELSE ScrubExpiredOutboxPlaintext(outbox)
          /\ \/ Ended(h, file, "open", TRUE, "none")
             \/ FailAfterOpen(h, file, "SQLITE_OPEN_FAILED")

OpenFile(h) ==
    /\ ports[h].state = "none"
    /\ \E file \in FileNames :
         \/ RefusedBeforeOpen(h, file)
         \/ UnfitConnection(h, file)
         \/ CreationBreaks(h, file)
         \/ SchemaRefused(h, file)
         \/ SchemaAccepted(h, file)
    /\ UNCHANGED <<rootOpen, today>>

----------------------------------------------------------------------------
(* The ports and their close.                                                *)

\* An entry of the outbox expires in the future when it is made.
PutEntry(h) ==
    /\ ports[h].state = "open" /\ ports[h].file = "communication"
    /\ \E expires \in today + 1 .. MaxFileTime : outbox' = outbox \cup {[expires |-> expires, text |-> TRUE]}
    /\ UNCHANGED <<disk, ports, rootOpen, today>>

\* The operations stop at once; the lease is given back only when the connection is closed.
CloseFile(h) ==
    /\ ports[h].state \in {"open", "close-pending"}
    /\ \/ ports' = [ports EXCEPT ![h].state = "closed", ![h].lease = FALSE]
       \/ ports' = [ports EXCEPT ![h].state = "close-pending"]
    /\ UNCHANGED <<disk, outbox, rootOpen, today>>

CloseStorageRoot ==
    /\ rootOpen /\ \A h \in Handles : ~ports[h].lease
    /\ rootOpen' = FALSE
    /\ UNCHANGED <<disk, outbox, ports, today>>

\* The process dies and starts over on the files it left.
Restart ==
    /\ ports # [h \in Handles |-> NoPort]
    /\ ports' = [h \in Handles |-> NoPort]
    /\ rootOpen' = TRUE
    /\ UNCHANGED <<disk, outbox, today>>

PassTime ==
    /\ today < MaxFileTime
    /\ today' = today + 1
    /\ UNCHANGED <<disk, outbox, ports, rootOpen>>

FilesNext ==
    \/ \E h \in Handles : OpenFile(h) \/ PutEntry(h) \/ CloseFile(h)
    \/ CloseStorageRoot \/ Restart \/ PassTime

FilesSpec == FilesInit /\ [][FilesNext]_fileVars

----------------------------------------------------------------------------
(* Properties.                                                               *)

Schema(file) ==
    IF file = "memory" THEN BootstrapSqliteMemorySchemaV1 ELSE MigrateCommunicationSchema0To1

\* A file is refused for its schema only when it is not one that this code makes:
\* however often an opening failed, lost its connection or died on the way, the
\* next one accepts what was left (the verifications against the CREATE statements).
OwnFilesAreAccepted ==
    \A h \in Handles :
        ports[h].reason = "SQLITE_SCHEMA_MISMATCH" => disk[ports[h].file] # Schema(ports[h].file)

\* Ports that are handed out run on the tables their statements were written for:
\* the columns, keys and indexes of the CREATE statements, at this version, whatever
\* lay at the path; and the root cannot be closed under a connection.
OpenPortsHaveTheirTables ==
    \A h \in Handles :
        /\ ports[h].state = "open" =>
            LET db == disk[ports[h].file] made == Schema(ports[h].file) IN
            /\ \A t \in DOMAIN made.tables : TableInfo(db.tables[t]) = TableInfo(made.tables[t])
            /\ \A i \in DOMAIN made.indexes : db.indexes[i].columns = made.indexes[i].columns
            /\ db.meta = made.meta
        /\ ports[h].state \in {"open", "close-pending"} => rootOpen

\* Ports are never handed out over a text that had expired when they were opened,
\* also after a crash (scrubExpiredOutboxPlaintext on open).
OpenedOutboxIsScrubbed ==
    \A h \in Handles :
        ports[h].state = "open" /\ ports[h].file = "communication"
        => \A e \in outbox : e.text => e.expires >= ports[h].openedAt

\* An opening accepts this code's own files and no others, and hands them out
\* with nothing in them that should be gone.
OpenedFilesAreSound == OwnFilesAreAccepted /\ OpenPortsHaveTheirTables /\ OpenedOutboxIsScrubbed
===============================================================================
