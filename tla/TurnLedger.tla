----------------------------- MODULE TurnLedger -----------------------------
(***************************************************************************)
(* The durable turn ledger: the tables turns (with turn_dedup folded into  *)
(* its key column), sequence_counters and factual_history.  Every method   *)
(* of the port runs in one BEGIN IMMEDIATE transaction, so every method is *)
(* one atomic step here.  A method is a pair of operators: <Method>Outcome *)
(* names the kind the method returns in the current state, and the action  *)
(* <Method> changes the tables exactly when that kind is the successful    *)
(* one.  A busy database, or an exception that rolls the transaction back, *)
(* changes nothing.  Clients of the port are unconstrained here: they call *)
(* any method, with any revision, in any order.                            *)
(***************************************************************************)
EXTENDS CommunicationDomain

CONSTANTS
    OfferedFacts,   \* the facts clients hand to recordFactualOutcome
    OfferedMoves    \* the <<expectedState, targetState>> clients hand to transition

ASSUME OfferAssumption ==
    /\ OfferedFacts \subseteq Facts
    /\ OfferedMoves \subseteq TurnStates \X TurnStates

VARIABLES
    turns,             \* table turns, "absent" for a turn without a row
    sequenceCounters,  \* table sequence_counters, 1 where there is no row
    factualHistory     \* table factual_history, append-only

ledgerVars == <<turns, sequenceCounters, factualHistory>>

Rows ==
    [ state        : TurnStates \cup {"absent"},
      revision     : 0 .. MaxSafeInteger,
      key          : TransportKeys \cup {None},
      conversation : Conversations \cup {None},
      sequence     : 0 .. MaxSafeInteger,      \* 0 is NULL
      facts        : Facts ]

AbsentRow ==
    [ state |-> "absent", revision |-> 0, key |-> None, conversation |-> None,
      sequence |-> 0, facts |-> InitialFacts ]

Present(t) == turns[t].state # "absent"

\* Turns that hold a place in a queue: sequenced and not completed.
PendingTurns == {t \in Turns : turns[t].sequence # 0 /\ turns[t].state # "completed"}
PendingIn(c) == {t \in PendingTurns : turns[t].conversation = c}

\* Every UPDATE of a row that sets its state also advances its revision.
MovedTo(row, state) == [row EXCEPT !.state = state, !.revision = @ + 1]

LedgerInit ==
    /\ turns = [t \in Turns |-> AbsentRow]
    /\ sequenceCounters = [c \in Conversations |-> 1]
    /\ factualHistory = [t \in Turns |-> {}]

----------------------------------------------------------------------------
\* observeTransportEvent

NothingDeduplicated(key) == FALSE    \* mutant
AlreadyObserved(key) == \E u \in Turns : Present(u) /\ turns[u].key = key

ObservedRow(key) == [AbsentRow EXCEPT !.state = "observed", !.revision = 1, !.key = key]

ObserveOutcome(t, key) ==
    CASE AlreadyObserved(key) -> "duplicate-existing"
      [] Present(t) -> "unavailable"
      [] OTHER -> "fresh-observed"

ObserveTransportEvent(t, key) ==
    /\ turns' = IF ObserveOutcome(t, key) = "fresh-observed"
                THEN [turns EXCEPT ![t] = ObservedRow(key)]
                ELSE turns
    /\ UNCHANGED <<sequenceCounters, factualHistory>>

----------------------------------------------------------------------------
\* recordAuthenticationResult: the principal binds the turn to a conversation.

RecordAuthenticationOutcome(t, expectedRevision, result) ==
    CASE ~Present(t) -> "unavailable"
      [] turns[t].revision # expectedRevision -> "stale-revision"
      [] turns[t].state = result -> "already-recorded"
      [] result \notin LegalTransitions[turns[t].state] -> "illegal-transition"
      [] Exhausted(turns[t].revision) -> "unavailable"
      [] OTHER -> "recorded"

AuthenticatedRow(row, result, conversation) ==
    [MovedTo(row, result) EXCEPT
       !.conversation = IF result = "authenticated" THEN conversation ELSE @]

RecordAuthenticationResult(t, expectedRevision, result, conversation) ==
    /\ turns' = IF RecordAuthenticationOutcome(t, expectedRevision, result) = "recorded"
                THEN [turns EXCEPT ![t] = AuthenticatedRow(@, result, conversation)]
                ELSE turns
    /\ UNCHANGED <<sequenceCounters, factualHistory>>

----------------------------------------------------------------------------
\* acceptConversationTurn: takes a queue place and the next sequence number.

AtLimit(pending, limit) == Cardinality(pending) >= limit

SequenceFromPending(c) == Cardinality(PendingIn(c)) + 1    \* mutant
NextSequence(c) == sequenceCounters[c]

AcceptOutcome(t, expectedRevision) ==
    LET row == turns[t] IN
    CASE ~Present(t) -> "unavailable"
      [] row.state = "accepted" /\ row.sequence # 0 -> "already-accepted"
      [] row.revision # expectedRevision -> "stale-revision"
      [] "accepted" \notin LegalTransitions[row.state] -> "illegal-transition"
      [] row.conversation = None -> "unavailable"
      [] AtLimit(PendingIn(row.conversation), MaxDepthPerConversation) -> "queue-full"
      [] AtLimit(PendingTurns, MaxGlobalPending) -> "global-queue-full"
      [] Exhausted(sequenceCounters[row.conversation]) -> "unavailable"
      [] Exhausted(row.revision) -> "unavailable"
      [] OTHER -> "accepted"

AcceptedRow(row, sequence) == [MovedTo(row, "accepted") EXCEPT !.sequence = sequence]

AcceptConversationTurn(t, expectedRevision) ==
    LET c == turns[t].conversation IN
    /\ IF AcceptOutcome(t, expectedRevision) = "accepted"
       THEN /\ turns' = [turns EXCEPT ![t] = AcceptedRow(@, NextSequence(c))]
            /\ sequenceCounters' = [sequenceCounters EXCEPT ![c] = @ + 1]
       ELSE UNCHANGED <<turns, sequenceCounters>>
    /\ UNCHANGED factualHistory

----------------------------------------------------------------------------
\* transition: compare-and-set on the revision and on the state.

TransitionOutcome(t, expectedRevision, expectedState, target) ==
    CASE ~Present(t) -> "unavailable"
      [] turns[t].state = target -> "already-transitioned"
      [] turns[t].revision # expectedRevision -> "stale-revision"
      [] turns[t].state # expectedState -> "illegal-transition"
      [] target \notin LegalTransitions[expectedState] -> "illegal-transition"
      [] Exhausted(turns[t].revision) -> "unavailable"
      [] OTHER -> "transitioned"

Transition(t, expectedRevision, expectedState, target) ==
    /\ turns' = IF TransitionOutcome(t, expectedRevision, expectedState, target) = "transitioned"
                THEN [turns EXCEPT ![t] = MovedTo(@, target)]
                ELSE turns
    /\ UNCHANGED <<sequenceCounters, factualHistory>>

----------------------------------------------------------------------------
\* recordFactualOutcome: facts that are proven are never rewritten.

RewritesProvenLlmOutcome(old, new) == old.llm # None /\ new.llm # old.llm    \* mutant
RewritesProvenFact(old, new) ==
    \/ old.delivery \in {"delivered", "outcome_unknown"} /\ new.delivery # old.delivery
    \/ old.llm # None /\ new.llm # old.llm

RecordFactualOutcomeKind(t, expectedRevision, facts) ==
    CASE ~Present(t) -> "unavailable"
      [] turns[t].revision # expectedRevision -> "stale-revision"
      [] RewritesProvenFact(turns[t].facts, facts) -> "fact-rewrite-denied"
      [] turns[t].revision = expectedRevision /\ turns[t].facts = facts -> "already-recorded"
      [] Exhausted(turns[t].revision) -> "unavailable"
      [] OTHER -> "recorded"

WithFacts(row, facts) == [row EXCEPT !.facts = facts, !.revision = @ + 1]

HistoryWith(t, facts) ==
    factualHistory[t] \cup {[revision |-> turns[t].revision + 1, facts |-> facts]}

RecordFactualOutcome(t, expectedRevision, facts) ==
    /\ IF RecordFactualOutcomeKind(t, expectedRevision, facts) = "recorded"
       THEN /\ turns' = [turns EXCEPT ![t] = WithFacts(@, facts)]
            /\ factualHistory' = [factualHistory EXCEPT ![t] = HistoryWith(t, facts)]
       ELSE UNCHANGED <<turns, factualHistory>>
    /\ UNCHANGED sequenceCounters

----------------------------------------------------------------------------
\* listRecoveryCandidates selects among the turns that are not completed.
UnfinishedTurns == {t \in Turns : turns[t].state \notin {"absent", "completed"}}

LedgerNext ==
    \E t \in Turns :
      \/ \E key \in TransportKeys : ObserveTransportEvent(t, key)
      \/ \E revision \in 0 .. turns[t].revision :   \* one the client has read, maybe stale
           \/ \E result \in {"authenticated", "authentication_rejected"}, c \in Conversations :
                RecordAuthenticationResult(t, revision, result, c)
           \/ AcceptConversationTurn(t, revision)
           \/ \E move \in OfferedMoves : Transition(t, revision, move[1], move[2])
           \/ \E facts \in OfferedFacts : RecordFactualOutcome(t, revision, facts)

LedgerSpec == LedgerInit /\ [][LedgerNext]_ledgerVars
----------------------------------------------------------------------------
\* Every table holds values of its columns' domains, integers within the safe range.
LedgerTypeOK ==
    /\ turns \in [Turns -> Rows]
    /\ sequenceCounters \in [Conversations -> 1 .. MaxSafeInteger]
    /\ factualHistory \in [Turns -> SUBSET [revision : 1 .. MaxSafeInteger, facts : Facts]]

\* The sequence numbers given out in a conversation are exactly 1 .. counter - 1
\* and no two turns share one: what lets the dispatcher order by them.
SequencesAreDense ==
    \A c \in Conversations :
      LET sequenced == {t \in Turns : turns[t].sequence # 0 /\ turns[t].conversation = c}
      IN /\ {turns[t].sequence : t \in sequenced} = 1 .. sequenceCounters[c] - 1
         /\ \A t, u \in sequenced : turns[t].sequence = turns[u].sequence => t = u

\* A turn never holds a queue place beyond the per-conversation and global
\* limits, whatever mixture of accepts, moves and completions ran before.
PendingWithinLimits ==
    /\ \A c \in Conversations : Cardinality(PendingIn(c)) <= MaxDepthPerConversation
    /\ Cardinality(PendingTurns) <= MaxGlobalPending

\* One transport event (one idempotency key) is at most one turn.
OneTurnPerTransportEvent ==
    \A t, u \in Turns : Present(t) /\ Present(u) /\ turns[t].key = turns[u].key => t = u

\* What is counted over several rows agrees with the rows: duplicates, sequence
\* numbers and queue places, whichever turns were accepted, refused and ended.
TurnsAreCountedOnce == OneTurnPerTransportEvent /\ SequencesAreDense /\ PendingWithinLimits

\* The factual history is a faithful log: revisions identify entries, none is
\* ahead of the row, and the newest one (or the INSERT) is what the row says.
HistoryExplainsFacts ==
    \A t \in Turns :
      LET log == factualHistory[t] IN
      /\ \A e \in log : e.revision <= turns[t].revision
      /\ \A e, f \in log : e.revision = f.revision => e = f
      /\ \/ log = {} /\ turns[t].facts = InitialFacts
         \/ \E e \in log : /\ e.facts = turns[t].facts
                           /\ \A f \in log : f.revision <= e.revision

\* No later entry of the history contradicts a proven delivery or language
\* model outcome of an earlier one: the log never retracts an effect.
HistoryNeverRetracts ==
    \A t \in Turns : \A e, f \in factualHistory[t] :
      e.revision < f.revision =>
        /\ e.facts.delivery \in {"delivered", "outcome_unknown"} =>
             f.facts.delivery = e.facts.delivery
        /\ e.facts.llm # None => f.facts.llm = e.facts.llm

\* The append-only table can be read as the log of what was proven of a turn.
HistoryIsALog == HistoryExplainsFacts /\ HistoryNeverRetracts

\* A write of a turn's row advances its revision by exactly one, so a caller
\* holding a revision can never overwrite a write it has not seen.
EveryWriteAdvancesRevision ==
    [][\A t \in Turns : turns'[t] # turns[t] => turns'[t].revision = turns[t].revision + 1]_ledgerVars
===============================================================================
