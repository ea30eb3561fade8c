--------------------------- MODULE StoreProofs ---------------------------
(***************************************************************************)
(* Theorems about TurnLedger, for every set of turns, conversations and    *)
(* transport keys, every limit and every client.  Each step of the ledger  *)
(* is first brought to one of five shapes, a successful method call, and   *)
(* every invariant is then shown to survive each shape; and about the      *)
(* three stores beside the ledger and the dispatcher, under every client   *)
(* their interfaces allow.                                                 *)
(***************************************************************************)
EXTENDS TurnLedger, CommunicationStores, TurnDispatcher, FiniteSetTheorems, WellFoundedInduction, TLAPS

----------------------------------------------------------------------------
\* The moves of the table lead to states of the table, never back to observed,
\* to authenticated and to accepted only from the state before, and nowhere from
\* completed.
LEMMA LegalTargets ==
    ASSUME NEW state \in TurnStates, NEW target \in LegalTransitions[state]
    PROVE  /\ target \in TurnStates
           /\ target # "observed"
           /\ target = "authenticated" => state = "observed"
           /\ target = "accepted" => state = "authenticated"
           /\ state # "completed"
<1>1. CASE state \in {"observed", "authentication_rejected", "authenticated", "accepted"}
  BY <1>1 DEF LegalTransitions, TurnStates
<1>2. CASE state \in {"queued", "llm_started", "llm_known_failed", "deterministic_notice_prepared"}
  BY <1>2 DEF LegalTransitions, TurnStates
<1>3. CASE state \in {"llm_completed", "output_validated", "delivery_started", "delivered"}
  BY <1>3 DEF LegalTransitions, TurnStates
<1>4. CASE state \in {"delivery_failed", "delivery_outcome_unknown", "cancelled", "completed"}
  BY <1>4 DEF LegalTransitions, TurnStates
<1>5. QED
  BY <1>1, <1>2, <1>3, <1>4 DEF TurnStates

\* The row before the INSERT is a row, with facts of the columns' domains.
LEMMA InitialRows == InitialFacts \in Facts /\ AbsentRow \in Rows
<1>1. InitialFacts \in Facts
  BY DEF InitialFacts, FactsOf, Facts, DeliveryStatuses, CheckpointStatuses, AuditStartStatuses,
         AuditCompletionStatuses
<1>2. AbsentRow \in Rows
  BY <1>1, ConstantsAssumption DEF AbsentRow, Rows
<1>3. QED
  BY <1>1, <1>2

\* The row a client leaves after a write: a row of the table, with the fields the
\* write does not name as they were.
LEMMA MovedRow ==
    ASSUME NEW row \in Rows, NEW state \in TurnStates, row.revision < MaxSafeInteger
    PROVE  /\ MovedTo(row, state) \in Rows
           /\ MovedTo(row, state).state = state
           /\ MovedTo(row, state).revision = row.revision + 1
           /\ MovedTo(row, state).key = row.key
           /\ MovedTo(row, state).conversation = row.conversation
           /\ MovedTo(row, state).sequence = row.sequence
           /\ MovedTo(row, state).facts = row.facts
<1> DEFINE moved == [row EXCEPT !.state = state]
<1>1. /\ moved \in Rows /\ moved.state = state /\ moved.revision = row.revision /\ moved.key = row.key
      /\ moved.conversation = row.conversation /\ moved.sequence = row.sequence
      /\ moved.facts = row.facts
  BY DEF Rows
<1>2. MovedTo(row, state) = [moved EXCEPT !.revision = row.revision + 1]
  BY Zenon DEF MovedTo
<1> HIDE DEF moved
<1>3. QED
  BY <1>1, <1>2, ConstantsAssumption DEF Rows

\* The same of a row whose facts are written.
LEMMA FactsRow ==
    ASSUME NEW row \in Rows, NEW facts \in Facts, row.revision < MaxSafeInteger
    PROVE  /\ WithFacts(row, facts) \in Rows
           /\ WithFacts(row, facts).state = row.state
           /\ WithFacts(row, facts).revision = row.revision + 1
           /\ WithFacts(row, facts).key = row.key
           /\ WithFacts(row, facts).conversation = row.conversation
           /\ WithFacts(row, facts).sequence = row.sequence
           /\ WithFacts(row, facts).facts = facts
<1> DEFINE told == [row EXCEPT !.facts = facts]
<1>1. /\ told \in Rows /\ told.state = row.state /\ told.revision = row.revision /\ told.key = row.key
      /\ told.conversation = row.conversation /\ told.sequence = row.sequence /\ told.facts = facts
  BY DEF Rows
<1>2. WithFacts(row, facts) = [told EXCEPT !.revision = row.revision + 1]
  BY Zenon DEF WithFacts
<1> HIDE DEF told
<1>3. QED
  BY <1>1, <1>2, ConstantsAssumption DEF Rows

\* The row of a transport event seen for the first time.
LEMMA NewRow ==
    ASSUME NEW key \in TransportKeys
    PROVE  /\ ObservedRow(key) \in Rows
           /\ ObservedRow(key).state = "observed"
           /\ ObservedRow(key).revision = 1
           /\ ObservedRow(key).key = key
           /\ ObservedRow(key).conversation = None
           /\ ObservedRow(key).sequence = 0
           /\ ObservedRow(key).facts = InitialFacts
<1> DEFINE observed == [AbsentRow EXCEPT !.state = "observed"]
           first    == [observed EXCEPT !.revision = 1]
<1>1. /\ AbsentRow \in Rows /\ AbsentRow.conversation = None /\ AbsentRow.sequence = 0
      /\ AbsentRow.facts = InitialFacts
  BY InitialRows DEF AbsentRow
<1>2. /\ observed \in Rows /\ observed.state = "observed" /\ observed.conversation = None
      /\ observed.sequence = 0 /\ observed.facts = InitialFacts
  BY <1>1 DEF Rows, TurnStates
<1>3. ObservedRow(key) = [first EXCEPT !.key = key]
  BY Zenon DEF ObservedRow
<1> HIDE DEF observed
<1>4. /\ first \in Rows /\ first.state = "observed" /\ first.revision = 1
      /\ first.conversation = None /\ first.sequence = 0 /\ first.facts = InitialFacts
  BY <1>2, ConstantsAssumption DEF Rows
<1> HIDE DEF first
<1>5. QED
  BY <1>3, <1>4 DEF Rows

----------------------------------------------------------------------------
\* The five ways a method changes the tables, each with what its checks left true.
Observes(t, key) ==
    /\ ~Present(t) /\ ~AlreadyObserved(key)
    /\ turns' = [turns EXCEPT ![t] = ObservedRow(key)]
    /\ UNCHANGED <<sequenceCounters, factualHistory>>

MayMove(t, state) ==
    /\ Present(t) /\ turns[t].revision < MaxSafeInteger
    /\ state \in LegalTransitions[turns[t].state]

Authenticates(t, result, c) ==
    /\ MayMove(t, result) /\ result \in {"authenticated", "authentication_rejected"}
    /\ turns' = [turns EXCEPT ![t] = AuthenticatedRow(@, result, c)]
    /\ UNCHANGED <<sequenceCounters, factualHistory>>

Accepts(t) ==
    LET c == turns[t].conversation IN
    /\ MayMove(t, "accepted") /\ c \in Conversations
    /\ ~AtLimit(PendingIn(c), MaxDepthPerConversation) /\ ~AtLimit(PendingTurns, MaxGlobalPending)
    /\ sequenceCounters[c] < MaxSafeInteger
    /\ turns' = [turns EXCEPT ![t] = AcceptedRow(@, sequenceCounters[c])]
    /\ sequenceCounters' = [sequenceCounters EXCEPT ![c] = @ + 1]
    /\ UNCHANGED factualHistory

Moves(t, state) ==
    /\ MayMove(t, state)
    /\ turns' = [turns EXCEPT ![t] = MovedTo(@, state)]
    /\ UNCHANGED <<sequenceCounters, factualHistory>>

Records(t, facts) ==
    /\ Present(t) /\ turns[t].revision < MaxSafeInteger
    /\ ~RewritesProvenFact(turns[t].facts, facts)
    /\ turns' = [turns EXCEPT ![t] = WithFacts(@, facts)]
    /\ factualHistory' = [factualHistory EXCEPT ![t] = HistoryWith(t, facts)]
    /\ UNCHANGED sequenceCounters

Writes(t) ==
    \/ \E key \in TransportKeys : Observes(t, key)
    \/ \E result \in TurnStates, c \in Conversations : Authenticates(t, result, c)
    \/ Accepts(t)
    \/ \E state \in TurnStates : Moves(t, state)
    \/ \E facts \in Facts : Records(t, facts)

\* Every step of the ledger changes nothing or is one of the five.
LEMMA StepWrites ==
    ASSUME LedgerTypeOK, [LedgerNext]_ledgerVars
    PROVE  UNCHANGED ledgerVars \/ \E t \in Turns : Writes(t)
<1> USE DEF ledgerVars
<1>1. CASE UNCHANGED ledgerVars
  BY <1>1
<1>2. CASE LedgerNext
  <2>1. PICK t \in Turns :
          \/ \E key \in TransportKeys : ObserveTransportEvent(t, key)
          \/ \E revision \in 0 .. turns[t].revision :
               \/ \E result \in {"authenticated", "authentication_rejected"}, c \in Conversations :
                    RecordAuthenticationResult(t, revision, result, c)
               \/ AcceptConversationTurn(t, revision)
               \/ \E move \in OfferedMoves : Transition(t, revision, move[1], move[2])
               \/ \E facts \in OfferedFacts : RecordFactualOutcome(t, revision, facts)
    BY <1>2 DEF LedgerNext
  <2>2. turns[t] \in Rows
    BY DEF LedgerTypeOK
  <2>3. turns[t].revision \in Nat /\ MaxSafeInteger \in Nat
    BY <2>2, ConstantsAssumption DEF Rows
  <2>4. ASSUME Present(t) PROVE turns[t].state \in TurnStates
    BY <2>2, <2>4 DEF Present, Rows
  <2>5. CASE \E key \in TransportKeys : ObserveTransportEvent(t, key)
    <3>1. PICK key \in TransportKeys : ObserveTransportEvent(t, key)
      BY <2>5
    <3>2. CASE ObserveOutcome(t, key) = "fresh-observed"
      <4>1. ~Present(t) /\ ~AlreadyObserved(key)
        BY <3>2 DEF ObserveOutcome
      <4>2. Observes(t, key)
        BY <3>1, <3>2, <4>1 DEF ObserveTransportEvent, Observes
      <4>3. QED
        BY <4>2 DEF Writes
    <3>3. CASE ObserveOutcome(t, key) # "fresh-observed"
      BY <3>1, <3>3 DEF ObserveTransportEvent
    <3>4. QED
      BY <3>2, <3>3
  <2>6. CASE \E revision \in 0 .. turns[t].revision :
               \E result \in {"authenticated", "authentication_rejected"}, c \in Conversations :
                 RecordAuthenticationResult(t, revision, result, c)
    <3>1. PICK revision \in 0 .. turns[t].revision,
               result \in {"authenticated", "authentication_rejected"}, c \in Conversations :
                 RecordAuthenticationResult(t, revision, result, c)
      BY <2>6
    <3>2. CASE RecordAuthenticationOutcome(t, revision, result) = "recorded"
      <4>1. Present(t) /\ result \in LegalTransitions[turns[t].state] /\ ~Exhausted(turns[t].revision)
        BY <3>2 DEF RecordAuthenticationOutcome
      <4>2. MayMove(t, result)
        BY <4>1, <2>3 DEF MayMove, Exhausted
      <4>3. Authenticates(t, result, c)
        BY <3>1, <3>2, <4>2 DEF RecordAuthenticationResult, Authenticates
      <4>4. QED
        BY <4>3 DEF Writes, TurnStates
    <3>3. CASE RecordAuthenticationOutcome(t, revision, result) # "recorded"
      BY <3>1, <3>3 DEF RecordAuthenticationResult
    <3>4. QED
      BY <3>2, <3>3
  <2>7. CASE \E revision \in 0 .. turns[t].revision : AcceptConversationTurn(t, revision)
    <3>1. PICK revision \in 0 .. turns[t].revision : AcceptConversationTurn(t, revision)
      BY <2>7
    <3>2. CASE AcceptOutcome(t, revision) = "accepted"
      <4>1. /\ Present(t) /\ "accepted" \in LegalTransitions[turns[t].state]
            /\ turns[t].conversation # None /\ ~Exhausted(turns[t].revision)
            /\ ~AtLimit(PendingIn(turns[t].conversation), MaxDepthPerConversation)
            /\ ~AtLimit(PendingTurns, MaxGlobalPending)
            /\ ~Exhausted(sequenceCounters[turns[t].conversation])
        BY <3>2 DEF AcceptOutcome
      <4>2. turns[t].conversation \in Conversations
        BY <4>1, <2>2 DEF Rows
      <4>3. sequenceCounters[turns[t].conversation] < MaxSafeInteger
        BY <4>1, <4>2, <2>3 DEF Exhausted, LedgerTypeOK
      <4>4. MayMove(t, "accepted")
        BY <4>1, <2>3 DEF MayMove, Exhausted
      <4>5. Accepts(t)
        BY <3>1, <3>2, <4>1, <4>2, <4>3, <4>4 DEF AcceptConversationTurn, Accepts, NextSequence
      <4>6. QED
        BY <4>5 DEF Writes
    <3>3. CASE AcceptOutcome(t, revision) # "accepted"
      BY <3>1, <3>3 DEF AcceptConversationTurn
    <3>4. QED
      BY <3>2, <3>3
  <2>8. CASE \E revision \in 0 .. turns[t].revision : \E move \in OfferedMoves :
               Transition(t, revision, move[1], move[2])
    <3>1. PICK revision \in 0 .. turns[t].revision, move \in OfferedMoves :
               Transition(t, revision, move[1], move[2])
      BY <2>8
    <3> DEFINE from == move[1]
               to   == move[2]
    <3>2. from \in TurnStates /\ to \in TurnStates
      BY OfferAssumption
    <3> HIDE DEF from, to
    <3>3. CASE TransitionOutcome(t, revision, from, to) = "transitioned"
      <4>1. /\ Present(t) /\ turns[t].state = from /\ to \in LegalTransitions[from]
            /\ ~Exhausted(turns[t].revision)
        BY <3>3 DEF TransitionOutcome
      <4>2. MayMove(t, to)
        BY <4>1, <2>3 DEF MayMove, Exhausted
      <4>3. Moves(t, to)
        BY <3>1, <3>3, <4>2 DEF Transition, Moves, from, to
      <4>4. QED
        BY <4>3, <3>2 DEF Writes
    <3>4. CASE TransitionOutcome(t, revision, from, to) # "transitioned"
      BY <3>1, <3>4 DEF Transition, from, to
    <3>5. QED
      BY <3>3, <3>4
  <2>9. CASE \E revision \in 0 .. turns[t].revision : \E facts \in OfferedFacts :
               RecordFactualOutcome(t, revision, facts)
    <3>1. PICK revision \in 0 .. turns[t].revision, facts \in OfferedFacts :
               RecordFactualOutcome(t, revision, facts)
      BY <2>9
    <3>2. facts \in Facts
      BY OfferAssumption
    <3>3. CASE RecordFactualOutcomeKind(t, revision, facts) = "recorded"
      <4>1. /\ Present(t) /\ ~RewritesProvenFact(turns[t].facts, facts)
            /\ ~Exhausted(turns[t].revision)
        BY <3>3 DEF RecordFactualOutcomeKind
      <4>2. turns[t].revision < MaxSafeInteger
        BY <4>1, <2>3 DEF Exhausted
      <4>3. Records(t, facts)
        BY <3>1, <3>3, <4>1, <4>2 DEF RecordFactualOutcome, Records
      <4>4. QED
        BY <4>3, <3>2 DEF Writes
    <3>4. CASE RecordFactualOutcomeKind(t, revision, facts) # "recorded"
      BY <3>1, <3>4 DEF RecordFactualOutcome
    <3>5. QED
      BY <3>3, <3>4
  <2>10. QED
    BY <2>1, <2>5, <2>6, <2>7, <2>8, <2>9
<1>3. QED
  BY <1>1, <1>2

----------------------------------------------------------------------------
\* What every successful call does to the row it writes and to all others.
Written(t) ==
    /\ turns'[t] \in Rows /\ turns'[t].state \in TurnStates
    /\ Present(t) => /\ turns'[t].revision = turns[t].revision + 1
                     /\ turns'[t].key = turns[t].key
    /\ ~Present(t) => \E key \in TransportKeys :
                        ~AlreadyObserved(key) /\ turns'[t] = ObservedRow(key)
    /\ \/ turns'[t].facts = turns[t].facts /\ UNCHANGED factualHistory
       \/ ~Present(t) /\ UNCHANGED factualHistory
       \/ /\ Present(t) /\ turns'[t].facts \in Facts
          /\ turns[t].revision < MaxSafeInteger
          /\ ~RewritesProvenFact(turns[t].facts, turns'[t].facts)
          /\ factualHistory' = [factualHistory EXCEPT ![t] = HistoryWith(t, turns'[t].facts)]

LEMMA WriteEffect ==
    ASSUME LedgerTypeOK, NEW t \in Turns, Writes(t)
    PROVE  /\ Written(t)
           /\ turns' = [turns EXCEPT ![t] = turns'[t]]
<1>1. turns \in [Turns -> Rows] /\ turns[t] \in Rows
  BY DEF LedgerTypeOK
<1>2. ASSUME Present(t) PROVE turns[t].state \in TurnStates
  BY <1>1, <1>2 DEF Present, Rows
<1>3. ASSUME NEW state, MayMove(t, state) PROVE state \in TurnStates
  BY <1>2, <1>3, LegalTargets DEF MayMove
<1>4. CASE \E key \in TransportKeys : Observes(t, key)
  <2>1. PICK key \in TransportKeys : Observes(t, key)
    BY <1>4
  <2>2. turns'[t] = ObservedRow(key)
    BY <1>1, <2>1 DEF Observes
  <2>3. QED
    BY <1>1, <2>1, <2>2, NewRow DEF Observes, Written, TurnStates
<1>5. CASE \E result \in TurnStates, c \in Conversations : Authenticates(t, result, c)
  <2>1. PICK result \in TurnStates, c \in Conversations : Authenticates(t, result, c)
    BY <1>5
  <2> DEFINE moved == MovedTo(turns[t], result)
  <2>2. /\ moved \in Rows /\ moved.state = result /\ moved.revision = turns[t].revision + 1
        /\ moved.key = turns[t].key /\ moved.facts = turns[t].facts
    BY <1>1, <2>1, MovedRow DEF Authenticates, MayMove
  <2>3. turns'[t] = [moved EXCEPT !.conversation =
                       IF result = "authenticated" THEN c ELSE moved.conversation]
    BY <1>1, <2>1 DEF Authenticates, AuthenticatedRow
  <2> HIDE DEF moved
  <2>4. /\ turns'[t] \in Rows /\ turns'[t].state = result
        /\ turns'[t].revision = turns[t].revision + 1
        /\ turns'[t].key = turns[t].key /\ turns'[t].facts = turns[t].facts
    BY <2>2, <2>3 DEF Rows
  <2>5. QED
    BY <1>1, <2>1, <2>4 DEF Authenticates, MayMove, Written
<1>6. CASE Accepts(t)
  <2> DEFINE moved == MovedTo(turns[t], "accepted")
             c     == turns[t].conversation
  <2>1. /\ moved \in Rows /\ moved.state = "accepted" /\ moved.revision = turns[t].revision + 1
        /\ moved.key = turns[t].key /\ moved.facts = turns[t].facts
    BY <1>1, <1>3, <1>6, MovedRow DEF Accepts, MayMove
  <2>2. sequenceCounters[c] \in 0 .. MaxSafeInteger
    BY <1>6, ConstantsAssumption DEF Accepts, LedgerTypeOK
  <2>3. turns'[t] = [moved EXCEPT !.sequence = sequenceCounters[c]]
    BY <1>1, <1>6 DEF Accepts, AcceptedRow
  <2>4. turns' = [turns EXCEPT ![t] = turns'[t]] /\ UNCHANGED factualHistory /\ Present(t)
    BY <1>1, <1>6 DEF Accepts, MayMove
  <2> HIDE DEF moved, c
  <2>5. /\ turns'[t] \in Rows /\ turns'[t].state = "accepted"
        /\ turns'[t].revision = turns[t].revision + 1
        /\ turns'[t].key = turns[t].key /\ turns'[t].facts = turns[t].facts
    BY <2>1, <2>2, <2>3 DEF Rows
  <2>6. QED
    BY <2>4, <2>5 DEF Written, TurnStates
<1>7. CASE \E state \in TurnStates : Moves(t, state)
  <2>1. PICK state \in TurnStates : Moves(t, state)
    BY <1>7
  <2>2. turns'[t] = MovedTo(turns[t], state)
    BY <1>1, <2>1 DEF Moves
  <2>3. QED
    BY <1>1, <2>1, <2>2, MovedRow DEF Moves, MayMove, Written
<1>8. CASE \E facts \in Facts : Records(t, facts)
  <2>1. PICK facts \in Facts : Records(t, facts)
    BY <1>8
  <2>2. turns'[t] = WithFacts(turns[t], facts)
    BY <1>1, <2>1 DEF Records
  <2>3. /\ turns'[t] \in Rows /\ turns'[t].state = turns[t].state
        /\ turns'[t].revision = turns[t].revision + 1
        /\ turns'[t].key = turns[t].key /\ turns'[t].facts = facts
    BY <1>1, <2>1, <2>2, FactsRow DEF Records
  <2>4. QED
    BY <1>1, <1>2, <2>1, <2>2, <2>3 DEF Records, Written
<1>9. QED
  BY <1>4, <1>5, <1>6, <1>7, <1>8 DEF Writes

----------------------------------------------------------------------------
\* Empty tables are well typed.
LEMMA InitialLedger == LedgerInit => LedgerTypeOK
<1>1. SUFFICES ASSUME LedgerInit PROVE LedgerTypeOK
  OBVIOUS
<1>2. turns \in [Turns -> Rows]
  BY <1>1, InitialRows DEF LedgerInit
<1>3. QED
  BY <1>1, <1>2, ConstantsAssumption DEF LedgerInit, LedgerTypeOK

\* No call writes a value outside its column's domain: what the checks of the
\* safe-integer limit are for.
LEMMA TypePreserved == LedgerTypeOK /\ [LedgerNext]_ledgerVars => LedgerTypeOK'
<1>1. SUFFICES ASSUME LedgerTypeOK, [LedgerNext]_ledgerVars PROVE LedgerTypeOK'
  OBVIOUS
<1>2. CASE UNCHANGED ledgerVars
  BY <1>1, <1>2 DEF ledgerVars, LedgerTypeOK
<1>3. CASE \E t \in Turns : Writes(t)
  <2>1. PICK t \in Turns : Writes(t)
    BY <1>3
  <2>2. Written(t) /\ turns' = [turns EXCEPT ![t] = turns'[t]]
    BY <1>1, <2>1, WriteEffect
  <2>3. turns' \in [Turns -> Rows]
    BY <1>1, <2>2 DEF LedgerTypeOK, Written
  <2>4. sequenceCounters' \in [Conversations -> 1 .. MaxSafeInteger]
    <3>1. CASE Accepts(t)
      BY <1>1, <3>1, ConstantsAssumption DEF LedgerTypeOK, Accepts
    <3>2. CASE UNCHANGED sequenceCounters
      BY <1>1, <3>2 DEF LedgerTypeOK
    <3>3. QED
      BY <2>1, <3>1, <3>2 DEF Writes, Observes, Authenticates, Moves, Records
  <2>5. factualHistory' \in [Turns -> SUBSET [revision : 1 .. MaxSafeInteger, facts : Facts]]
    <3>1. CASE UNCHANGED factualHistory
      BY <1>1, <3>1 DEF LedgerTypeOK
    <3>2. CASE /\ turns'[t].facts \in Facts /\ turns[t].revision < MaxSafeInteger
               /\ factualHistory' = [factualHistory EXCEPT ![t] = HistoryWith(t, turns'[t].facts)]
      <4>1. turns[t].revision + 1 \in 1 .. MaxSafeInteger
        BY <1>1, <3>2, ConstantsAssumption DEF LedgerTypeOK, Rows
      <4>2. HistoryWith(t, turns'[t].facts) \in SUBSET [revision : 1 .. MaxSafeInteger, facts : Facts]
        BY <1>1, <3>2, <4>1 DEF HistoryWith, LedgerTypeOK
      <4>3. QED
        BY <1>1, <3>2, <4>2 DEF LedgerTypeOK
    <3>3. QED
      BY <2>2, <3>1, <3>2 DEF Written
  <2>6. QED
    BY <2>3, <2>4, <2>5 DEF LedgerTypeOK
<1>4. QED
  BY <1>1, <1>2, <1>3, StepWrites

\* Whatever clients do, the tables hold values of their columns' domains, and no
\* integer leaves the safe range.
THEOREM LedgerIsTyped == LedgerSpec => []LedgerTypeOK
<1>1. QED
  BY InitialLedger, TypePreserved, PTL DEF LedgerSpec

----------------------------------------------------------------------------
\* A turn without a row has none of its traces either.
AbsentTurnsAreBlank == \A t \in Turns : ~Present(t) => turns[t] = AbsentRow /\ factualHistory[t] = {}

\* A step that writes leaves every other row and history alone.
LEMMA OtherRows ==
    ASSUME LedgerTypeOK, NEW t \in Turns, Writes(t), NEW u \in Turns, u # t
    PROVE  turns'[u] = turns[u] /\ factualHistory'[u] = factualHistory[u]
<1>1. Written(t) /\ turns' = [turns EXCEPT ![t] = turns'[t]]
  BY WriteEffect
<1>2. turns'[u] = turns[u]
  BY <1>1 DEF LedgerTypeOK
<1>3. factualHistory'[u] = factualHistory[u]
  BY <1>1 DEF LedgerTypeOK, Written
<1>4. QED
  BY <1>2, <1>3

\* At first no turn has a row.
LEMMA BlankInitially == LedgerInit => AbsentTurnsAreBlank
  BY DEF LedgerInit, AbsentTurnsAreBlank

\* A row appears with the turn's first write, which is the INSERT.
LEMMA BlankPreserved ==
    LedgerTypeOK /\ AbsentTurnsAreBlank /\ [LedgerNext]_ledgerVars => AbsentTurnsAreBlank'
<1>1. SUFFICES ASSUME LedgerTypeOK, AbsentTurnsAreBlank, [LedgerNext]_ledgerVars,
                      NEW u \in Turns, ~Present(u)'
               PROVE  (turns[u] = AbsentRow /\ factualHistory[u] = {})'
  BY DEF AbsentTurnsAreBlank
<1>2. CASE UNCHANGED ledgerVars
  BY <1>1, <1>2 DEF ledgerVars, AbsentTurnsAreBlank, Present
<1>3. CASE \E t \in Turns : Writes(t)
  <2>1. PICK t \in Turns : Writes(t)
    BY <1>3
  <2>2. turns'[t].state \in TurnStates
    BY <1>1, <2>1, WriteEffect DEF Written
  <2>3. u # t
    BY <1>1, <2>2 DEF Present, TurnStates
  <2>4. QED
    BY <1>1, <2>1, <2>3, OtherRows DEF AbsentTurnsAreBlank, Present
<1>4. QED
  BY <1>1, <1>2, <1>3, StepWrites

\* So a turn without a row never has a history.
LEMMA LedgerIsBlank == LedgerSpec => []AbsentTurnsAreBlank
<1>1. QED
  BY InitialLedger, TypePreserved, BlankInitially, BlankPreserved, PTL DEF LedgerSpec

\* Every write of a row advances its revision by one: compare-and-set on a
\* revision a client has read never overwrites what it has not seen.
THEOREM WritesAdvanceRevision == LedgerSpec => EveryWriteAdvancesRevision
<1>1. ASSUME LedgerTypeOK, AbsentTurnsAreBlank, [LedgerNext]_ledgerVars,
             NEW u \in Turns, turns'[u] # turns[u]
      PROVE  turns'[u].revision = turns[u].revision + 1
  <2>1. CASE UNCHANGED ledgerVars
    BY <1>1, <2>1 DEF ledgerVars
  <2>2. CASE \E t \in Turns : Writes(t)
    <3>1. PICK t \in Turns : Writes(t)
      BY <2>2
    <3>2. u = t
      BY <1>1, <3>1, OtherRows
    <3>3. Written(u)
      BY <1>1, <3>1, <3>2, WriteEffect
    <3>4. CASE Present(u)
      BY <3>3, <3>4 DEF Written
    <3>5. CASE ~Present(u)
      <4>1. turns[u].revision = 0
        BY <1>1, <3>5 DEF AbsentTurnsAreBlank, AbsentRow
      <4>2. turns'[u].revision = 1
        BY <3>3, <3>5, NewRow DEF Written
      <4>3. QED
        BY <4>1, <4>2
    <3>6. QED
      BY <3>4, <3>5
  <2>3. QED
    BY <1>1, <2>1, <2>2, StepWrites
<1>2. LedgerTypeOK /\ AbsentTurnsAreBlank /\ [LedgerNext]_ledgerVars =>
        [\A t \in Turns : turns'[t] # turns[t] => turns'[t].revision = turns[t].revision + 1]_ledgerVars
  BY <1>1
<1>3. QED
  BY <1>2, LedgerIsTyped, LedgerIsBlank, PTL DEF LedgerSpec, EveryWriteAdvancesRevision

----------------------------------------------------------------------------
\* At first no event is a turn.
LEMMA OneTurnInitially == LedgerInit => OneTurnPerTransportEvent
  BY DEF LedgerInit, OneTurnPerTransportEvent, Present, AbsentRow

\* Only the INSERT sets a key, and only to one no row has.
LEMMA OneTurnPreserved ==
    LedgerTypeOK /\ OneTurnPerTransportEvent /\ [LedgerNext]_ledgerVars => OneTurnPerTransportEvent'
<1>1. SUFFICES ASSUME LedgerTypeOK, OneTurnPerTransportEvent, [LedgerNext]_ledgerVars
               PROVE  OneTurnPerTransportEvent'
  OBVIOUS
<1>2. CASE UNCHANGED ledgerVars
  BY <1>1, <1>2 DEF ledgerVars, OneTurnPerTransportEvent, Present
<1>3. CASE \E t \in Turns : Writes(t)
  <2>1. PICK t \in Turns : Writes(t)
    BY <1>3
  <2>2. Written(t)
    BY <1>1, <2>1, WriteEffect
  <2>3. ASSUME NEW u \in Turns, u # t, Present(u)', turns'[u].key = turns'[t].key PROVE FALSE
    <3>1. Present(u) /\ turns'[u].key = turns[u].key
      BY <1>1, <2>1, <2>3, OtherRows DEF Present
    <3>2. CASE Present(t)
      BY <1>1, <2>2, <2>3, <3>1, <3>2 DEF Written, OneTurnPerTransportEvent
    <3>3. CASE ~Present(t)
      <4>1. PICK key \in TransportKeys : ~AlreadyObserved(key) /\ turns'[t] = ObservedRow(key)
        BY <2>2, <3>3 DEF Written
      <4>2. turns'[t].key = key
        BY <4>1, NewRow
      <4>3. QED
        BY <2>3, <3>1, <4>1, <4>2 DEF AlreadyObserved
    <3>4. QED
      BY <3>2, <3>3
  <2>4. ASSUME NEW u \in Turns, NEW w \in Turns, u # t, w # t, Present(u)', Present(w)',
               turns'[u].key = turns'[w].key
        PROVE  u = w
    BY <1>1, <2>1, <2>4, OtherRows DEF OneTurnPerTransportEvent, Present
  <2>5. QED
    BY <2>3, <2>4 DEF OneTurnPerTransportEvent
<1>4. QED
  BY <1>1, <1>2, <1>3, StepWrites

\* A transport event is at most one turn, however often it is observed.
THEOREM EventsAreDeduplicated == LedgerSpec => []OneTurnPerTransportEvent
<1>1. QED
  BY OneTurnInitially, OneTurnPreserved, LedgerIsTyped, PTL DEF LedgerSpec

----------------------------------------------------------------------------
\* HistoryExplainsFacts and HistoryNeverRetracts of one turn.
Explained(row, log) ==
    /\ \A e \in log : e.revision <= row.revision
    /\ \A e, f \in log : e.revision = f.revision => e = f
    /\ \/ log = {} /\ row.facts = InitialFacts
       \/ \E e \in log : e.facts = row.facts /\ \A f \in log : f.revision <= e.revision

Consistent(log) ==
    \A e, f \in log : e.revision < f.revision => ~RewritesProvenFact(e.facts, f.facts)

\* Appending facts that rewrite nothing the row says keeps both: the row is the
\* newest entry, and the newest entry retracts none of the older ones.
LEMMA AppendExplains ==
    ASSUME NEW row \in Rows, NEW facts \in Facts,
           NEW log \in SUBSET [revision : 1 .. MaxSafeInteger, facts : Facts],
           Explained(row, log), Consistent(log), ~RewritesProvenFact(row.facts, facts),
           NEW next \in Rows, next.revision = row.revision + 1, next.facts = facts
    PROVE  LET longer == log \cup {[revision |-> row.revision + 1, facts |-> facts]}
           IN  Explained(next, longer) /\ Consistent(longer)
<1> DEFINE new    == [revision |-> row.revision + 1, facts |-> facts]
           longer == log \cup {new}
<1>1. row.revision \in Nat /\ \A e \in log : e.revision \in Nat /\ e.revision < new.revision
  BY ConstantsAssumption DEF Rows, Explained
<1>2. new.revision = next.revision /\ new.facts = facts
  BY <1>1
<1>3. ASSUME NEW e \in log PROVE ~RewritesProvenFact(e.facts, facts)
  <2>1. PICK top \in log : top.facts = row.facts /\ \A f \in log : f.revision <= top.revision
    BY <1>3 DEF Explained
  <2>2. CASE e = top
    BY <2>1, <2>2
  <2>3. CASE e # top
    <3>1. e.revision < top.revision
      BY <1>1, <2>1, <2>3 DEF Explained
    <3>2. ~RewritesProvenFact(e.facts, row.facts)
      BY <2>1, <3>1 DEF Consistent
    <3>3. QED
      BY <3>2 DEF RewritesProvenFact
  <2>4. QED
    BY <2>2, <2>3
<1> HIDE DEF new
<1>4. \A e \in longer : e.revision <= next.revision
  BY <1>1, <1>2
<1>5. \A e, f \in longer : e.revision = f.revision => e = f
  BY <1>1 DEF Explained
<1>6. new \in longer /\ new.facts = next.facts /\ \A f \in longer : f.revision <= new.revision
  BY <1>1, <1>2
<1>7. Explained(next, longer)
  BY <1>4, <1>5, <1>6 DEF Explained
<1>8. Consistent(longer)
  BY <1>1, <1>2, <1>3 DEF Consistent
<1>9. QED
  BY <1>7, <1>8 DEF new

HistoryInv == \A t \in Turns : Explained(turns[t], factualHistory[t]) /\ Consistent(factualHistory[t])

\* An empty history explains the facts of the INSERT.
LEMMA HistoryInitially == LedgerInit => HistoryInv
  BY DEF LedgerInit, HistoryInv, Explained, Consistent, AbsentRow

\* Facts are rewritten only together with the entry that records them.
LEMMA HistoryPreserved ==
    LedgerTypeOK /\ AbsentTurnsAreBlank /\ HistoryInv /\ [LedgerNext]_ledgerVars => HistoryInv'
<1>1. SUFFICES ASSUME LedgerTypeOK, AbsentTurnsAreBlank, HistoryInv, [LedgerNext]_ledgerVars,
                      NEW u \in Turns
               PROVE  Explained(turns'[u], factualHistory'[u]) /\ Consistent(factualHistory'[u])
  BY DEF HistoryInv
<1>2. Explained(turns[u], factualHistory[u]) /\ Consistent(factualHistory[u])
  BY <1>1 DEF HistoryInv
<1>3. CASE UNCHANGED ledgerVars
  BY <1>2, <1>3 DEF ledgerVars
<1>4. CASE \E t \in Turns : Writes(t)
  <2>1. PICK t \in Turns : Writes(t)
    BY <1>4
  <2>2. CASE u # t
    BY <1>1, <1>2, <2>1, <2>2, OtherRows
  <2>3. CASE u = t
    <3>1. Written(u)
      BY <1>1, <2>1, <2>3, WriteEffect
    <3>2. turns[u] \in Rows /\ turns'[u] \in Rows
      BY <1>1, <3>1 DEF LedgerTypeOK, Written
    <3>3. CASE ~Present(u)
      <4>1. turns'[u].facts = InitialFacts
        BY <3>1, <3>3, NewRow DEF Written
      <4>2. factualHistory[u] = {} /\ turns[u].facts = InitialFacts
        BY <1>1, <3>3 DEF AbsentTurnsAreBlank, AbsentRow
      <4>3. factualHistory'[u] = {}
        BY <3>1, <3>3, <4>2 DEF Written
      <4>4. QED
        BY <4>1, <4>3 DEF Explained, Consistent
    <3>4. CASE /\ Present(u) /\ turns'[u].facts = turns[u].facts /\ UNCHANGED factualHistory
      <4>1. turns'[u].revision = turns[u].revision + 1 /\ turns[u].revision \in Nat
        BY <3>1, <3>2, <3>4, ConstantsAssumption DEF Written, Rows
      <4>2. \A e \in factualHistory[u] : e.revision \in Nat
        BY <1>1 DEF LedgerTypeOK
      <4>3. \A e \in factualHistory[u] : e.revision <= turns'[u].revision
        BY <1>2, <4>1, <4>2 DEF Explained
      <4>4. QED
        BY <1>2, <3>4, <4>3 DEF Explained
    <3>5. CASE /\ Present(u) /\ turns'[u].facts \in Facts
               /\ ~RewritesProvenFact(turns[u].facts, turns'[u].facts)
               /\ factualHistory' = [factualHistory EXCEPT ![u] = HistoryWith(u, turns'[u].facts)]
      <4>1. factualHistory[u] \in SUBSET [revision : 1 .. MaxSafeInteger, facts : Facts]
        BY <1>1 DEF LedgerTypeOK
      <4>2. factualHistory'[u] =
              factualHistory[u] \cup {[revision |-> turns[u].revision + 1, facts |-> turns'[u].facts]}
        BY <1>1, <3>5 DEF LedgerTypeOK, HistoryWith
      <4>3. turns'[u].revision = turns[u].revision + 1
        BY <3>1, <3>5 DEF Written
      <4>4. QED
        BY <1>2, <3>2, <3>5, <4>1, <4>2, <4>3, AppendExplains
    <3>6. QED
      BY <2>3, <3>1, <3>3, <3>4, <3>5 DEF Written
  <2>4. QED
    BY <2>2, <2>3
<1>5. QED
  BY <1>1, <1>3, <1>4, StepWrites

\* Every history explains its row and is consistent in itself.
LEMMA HistoryHolds == LedgerSpec => []HistoryInv
<1>1. QED
  BY HistoryInitially, HistoryPreserved, LedgerIsTyped, LedgerIsBlank, PTL DEF LedgerSpec

\* The factual history is a faithful log: its newest entry is what the row says.
THEOREM HistoryIsFaithful == LedgerSpec => []HistoryExplainsFacts
<1>1. HistoryInv => HistoryExplainsFacts
  BY DEF HistoryInv, Explained, HistoryExplainsFacts
<1>2. QED
  BY <1>1, HistoryHolds, PTL

\* An entry of the history never contradicts an effect an earlier one has proven.
THEOREM HistoryIsConsistent == LedgerSpec => []HistoryNeverRetracts
<1>1. HistoryInv => HistoryNeverRetracts
  BY DEF HistoryInv, Consistent, RewritesProvenFact, HistoryNeverRetracts
<1>2. QED
  BY <1>1, HistoryHolds, PTL

----------------------------------------------------------------------------
\* A turn that holds a sequence number is bound to a conversation and past
\* authentication, so that neither can change under the number any more.
SequencedAreBound ==
    \A t \in Turns : turns[t].sequence # 0 =>
      /\ turns[t].conversation \in Conversations
      /\ turns[t].state \notin {"absent", "observed", "authenticated"}

\* A call that is not an accept keeps the number and the conversation under it,
\* and never brings a completed turn back.
KeepsPlace(t) ==
    /\ UNCHANGED sequenceCounters
    /\ turns'[t].sequence = turns[t].sequence
    /\ turns[t].sequence # 0 => /\ turns'[t].conversation = turns[t].conversation
                                /\ turns'[t].state \notin {"absent", "observed", "authenticated"}
    /\ turns[t].state = "completed" => turns'[t].state = "completed"

TakesPlace(t) ==
    LET c == turns[t].conversation IN
    /\ Accepts(t)
    /\ turns[t].sequence = 0
    /\ turns'[t].sequence = sequenceCounters[c] /\ turns'[t].conversation = c
    /\ turns'[t].state = "accepted"

LEMMA PlaceEffect ==
    ASSUME LedgerTypeOK, AbsentTurnsAreBlank, SequencedAreBound, NEW t \in Turns, Writes(t)
    PROVE  KeepsPlace(t) \/ TakesPlace(t)
<1>1. turns \in [Turns -> Rows] /\ turns[t] \in Rows
  BY DEF LedgerTypeOK
<1>2. ASSUME NEW state, MayMove(t, state)
      PROVE  /\ turns[t].state \in TurnStates /\ state \in TurnStates
             /\ turns[t].state # "completed" /\ state # "observed"
             /\ state = "authenticated" => turns[t].state = "observed"
             /\ state = "accepted" => turns[t].state = "authenticated"
             /\ turns[t].revision < MaxSafeInteger
  BY <1>1, <1>2, LegalTargets DEF MayMove, Present, Rows
<1>3. CASE \E key \in TransportKeys : Observes(t, key)
  <2>1. PICK key \in TransportKeys : Observes(t, key)
    BY <1>3
  <2>2. turns[t].sequence = 0 /\ turns[t].state = "absent"
    BY <2>1 DEF Observes, AbsentTurnsAreBlank, AbsentRow
  <2>3. turns'[t].sequence = 0
    BY <1>1, <2>1, NewRow DEF Observes
  <2>4. QED
    BY <2>1, <2>2, <2>3 DEF Observes, KeepsPlace
<1>4. CASE \E result \in TurnStates, c \in Conversations : Authenticates(t, result, c)
  <2>1. PICK result \in TurnStates, c \in Conversations : Authenticates(t, result, c)
    BY <1>4
  <2> DEFINE moved == MovedTo(turns[t], result)
  <2>2. moved \in Rows /\ moved.state = result /\ moved.conversation = turns[t].conversation
        /\ moved.sequence = turns[t].sequence
    BY <1>1, <2>1, MovedRow DEF Authenticates, MayMove
  <2>3. turns'[t] = [moved EXCEPT !.conversation =
                       IF result = "authenticated" THEN c ELSE moved.conversation]
    BY <1>1, <2>1 DEF Authenticates, AuthenticatedRow
  <2> HIDE DEF moved
  <2>4. /\ turns'[t].sequence = turns[t].sequence /\ turns'[t].state = result
        /\ result # "authenticated" => turns'[t].conversation = turns[t].conversation
    BY <2>2, <2>3 DEF Rows
  <2>5. turns[t].sequence # 0 => turns[t].state # "observed"
    BY DEF SequencedAreBound
  <2>6. QED
    BY <1>2, <2>1, <2>4, <2>5 DEF Authenticates, KeepsPlace, TurnStates
<1>5. CASE Accepts(t)
  <2> DEFINE moved == MovedTo(turns[t], "accepted")
  <2>1. moved \in Rows /\ moved.state = "accepted" /\ moved.conversation = turns[t].conversation
    BY <1>1, <1>2, <1>5, MovedRow DEF Accepts, MayMove
  <2>2. turns'[t] = [moved EXCEPT !.sequence = sequenceCounters[turns[t].conversation]]
    BY <1>1, <1>5 DEF Accepts, AcceptedRow
  <2> HIDE DEF moved
  <2>3. /\ turns'[t].sequence = sequenceCounters[turns[t].conversation]
        /\ turns'[t].conversation = turns[t].conversation /\ turns'[t].state = "accepted"
    BY <2>1, <2>2 DEF Rows
  <2>4. turns[t].state = "authenticated"
    BY <1>2, <1>5 DEF Accepts
  <2>5. turns[t].sequence = 0
    BY <2>4 DEF SequencedAreBound
  <2>6. QED
    BY <1>5, <2>3, <2>5 DEF TakesPlace
<1>6. CASE \E state \in TurnStates : Moves(t, state)
  <2>1. PICK state \in TurnStates : Moves(t, state)
    BY <1>6
  <2>2. /\ turns'[t].sequence = turns[t].sequence /\ turns'[t].state = state
        /\ turns'[t].conversation = turns[t].conversation
    BY <1>1, <1>2, <2>1, MovedRow DEF Moves
  <2>3. turns[t].sequence # 0 => turns[t].state # "observed"
    BY DEF SequencedAreBound
  <2>4. QED
    BY <1>2, <2>1, <2>2, <2>3 DEF Moves, KeepsPlace, TurnStates
<1>7. CASE \E facts \in Facts : Records(t, facts)
  <2>1. PICK facts \in Facts : Records(t, facts)
    BY <1>7
  <2>2. /\ turns'[t].sequence = turns[t].sequence /\ turns'[t].state = turns[t].state
        /\ turns'[t].conversation = turns[t].conversation
    BY <1>1, <2>1, FactsRow DEF Records
  <2>3. QED
    BY <2>1, <2>2 DEF Records, KeepsPlace, SequencedAreBound
<1>8. QED
  BY <1>3, <1>4, <1>5, <1>6, <1>7 DEF Writes

\* At first no turn holds a number.
LEMMA BoundInitially == LedgerInit => SequencedAreBound
  BY DEF LedgerInit, SequencedAreBound, AbsentRow

\* A number is given in state authenticated, to which no move leads back.
LEMMA BoundPreserved ==
    LedgerTypeOK /\ AbsentTurnsAreBlank /\ SequencedAreBound /\ [LedgerNext]_ledgerVars =>
      SequencedAreBound'
<1>1. SUFFICES ASSUME LedgerTypeOK, AbsentTurnsAreBlank, SequencedAreBound,
                      [LedgerNext]_ledgerVars, NEW u \in Turns, turns'[u].sequence # 0
               PROVE  /\ turns'[u].conversation \in Conversations
                      /\ turns'[u].state \notin {"absent", "observed", "authenticated"}
  BY DEF SequencedAreBound
<1>2. CASE UNCHANGED ledgerVars
  BY <1>1, <1>2 DEF ledgerVars, SequencedAreBound
<1>3. CASE \E t \in Turns : Writes(t)
  <2>1. PICK t \in Turns : Writes(t)
    BY <1>3
  <2>2. CASE u # t
    BY <1>1, <2>1, <2>2, OtherRows DEF SequencedAreBound
  <2>3. CASE u = t /\ KeepsPlace(t)
    BY <1>1, <2>3 DEF KeepsPlace, SequencedAreBound
  <2>4. CASE u = t /\ TakesPlace(t)
    BY <2>4 DEF TakesPlace, Accepts
  <2>5. QED
    BY <1>1, <2>1, <2>2, <2>3, <2>4, PlaceEffect
<1>4. QED
  BY <1>1, <1>2, <1>3, StepWrites

\* So a number stays with its turn and its conversation.
LEMMA SequencedStayBound == LedgerSpec => []SequencedAreBound
<1>1. QED
  BY BoundInitially, BoundPreserved, LedgerIsTyped, LedgerIsBlank, PTL DEF LedgerSpec

----------------------------------------------------------------------------
Sequenced(c) == {t \in Turns : turns[t].sequence # 0 /\ turns[t].conversation = c}

\* SequencesAreDense of one conversation, number by number.
DenseIn(c) ==
    /\ \A t \in Sequenced(c) : turns[t].sequence < sequenceCounters[c]
    /\ \A n \in 1 .. sequenceCounters[c] - 1 : \E t \in Sequenced(c) : turns[t].sequence = n
    /\ \A t, u \in Sequenced(c) : turns[t].sequence = turns[u].sequence => t = u

Dense == \A c \in Conversations : DenseIn(c)

\* At first every counter is 1 and no number is given.
LEMMA DenseInitially == LedgerInit => Dense
  BY DEF LedgerInit, Dense, DenseIn, Sequenced, AbsentRow

\* A call that takes no place leaves the sequenced turns of every conversation.
LEMMA KeptPlaces ==
    ASSUME LedgerTypeOK, NEW t \in Turns, Writes(t), KeepsPlace(t), NEW c
    PROVE  /\ Sequenced(c)' = Sequenced(c)
           /\ \A u \in Sequenced(c) : turns'[u].sequence = turns[u].sequence
<1>1. ASSUME NEW u \in Turns
      PROVE  /\ turns'[u].sequence = turns[u].sequence
             /\ turns[u].sequence # 0 => turns'[u].conversation = turns[u].conversation
  <2>1. CASE u = t
    BY <2>1 DEF KeepsPlace
  <2>2. CASE u # t
    BY <2>2, OtherRows
  <2>3. QED
    BY <2>1, <2>2
<1>2. QED
  BY <1>1 DEF Sequenced

\* A call that takes a place adds its turn to the conversation of the turn only.
LEMMA TakenPlace ==
    ASSUME LedgerTypeOK, NEW t \in Turns, Writes(t), TakesPlace(t), NEW c
    PROVE  /\ Sequenced(c)' = IF c = turns[t].conversation THEN Sequenced(c) \cup {t} ELSE Sequenced(c)
           /\ t \notin Sequenced(c)
           /\ \A u \in Sequenced(c) : turns'[u].sequence = turns[u].sequence
<1>1. \A u \in Turns : u # t => turns'[u] = turns[u]
  BY OtherRows
<1>2. turns[t].sequence = 0 /\ turns'[t].sequence # 0 /\ turns'[t].conversation = turns[t].conversation
  BY ConstantsAssumption DEF TakesPlace, Accepts, LedgerTypeOK
<1>3. QED
  BY <1>1, <1>2 DEF Sequenced

\* A number is given out by the transaction that advances the counter.
LEMMA DensePreserved ==
    LedgerTypeOK /\ AbsentTurnsAreBlank /\ SequencedAreBound /\ Dense /\ [LedgerNext]_ledgerVars =>
      Dense'
<1>1. SUFFICES ASSUME LedgerTypeOK, AbsentTurnsAreBlank, SequencedAreBound, Dense,
                      [LedgerNext]_ledgerVars, NEW c \in Conversations
               PROVE  DenseIn(c)'
  BY DEF Dense
<1>2. DenseIn(c) /\ sequenceCounters[c] \in Nat \ {0}
  BY <1>1, ConstantsAssumption DEF Dense, LedgerTypeOK
<1>3. \A u \in Turns : turns[u].sequence \in Nat
  BY <1>1, ConstantsAssumption DEF LedgerTypeOK, Rows
<1>4. CASE UNCHANGED ledgerVars
  BY <1>2, <1>4 DEF ledgerVars, DenseIn, Sequenced
<1>5. CASE \E t \in Turns : Writes(t)
  <2>1. PICK t \in Turns : Writes(t)
    BY <1>5
  <2>2. CASE KeepsPlace(t)
    <3>1. Sequenced(c)' = Sequenced(c)
          /\ \A u \in Sequenced(c) : turns'[u].sequence = turns[u].sequence
      BY <1>1, <2>1, <2>2, KeptPlaces
    <3>2. sequenceCounters'[c] = sequenceCounters[c]
      BY <2>2 DEF KeepsPlace
    <3>3. QED
      BY <1>2, <3>1, <3>2 DEF DenseIn
  <2>3. CASE TakesPlace(t)
    <3>1. /\ Sequenced(c)' = IF c = turns[t].conversation THEN Sequenced(c) \cup {t} ELSE Sequenced(c)
          /\ t \notin Sequenced(c)
          /\ \A u \in Sequenced(c) : turns'[u].sequence = turns[u].sequence
      BY <1>1, <2>1, <2>3, TakenPlace
    <3>2. CASE c # turns[t].conversation
      <4>1. sequenceCounters'[c] = sequenceCounters[c]
        BY <1>1, <2>3, <3>2 DEF TakesPlace, Accepts, LedgerTypeOK
      <4>2. QED
        BY <1>2, <3>1, <3>2, <4>1 DEF DenseIn
    <3>3. CASE c = turns[t].conversation
      <4>1. sequenceCounters'[c] = sequenceCounters[c] + 1 /\ turns'[t].sequence = sequenceCounters[c]
        BY <1>1, <2>3, <3>3 DEF TakesPlace, Accepts, LedgerTypeOK
      <4>2. Sequenced(c)' = Sequenced(c) \cup {t}
        BY <3>1, <3>3
      <4>3. \A u \in Sequenced(c) : turns[u].sequence < sequenceCounters[c] /\ turns[u].sequence \in Nat
        BY <1>2, <1>3 DEF DenseIn, Sequenced
      <4>4. \A u \in Sequenced(c)' : turns'[u].sequence < sequenceCounters'[c]
        BY <1>2, <3>1, <4>1, <4>2, <4>3
      <4>5. ASSUME NEW n \in 1 .. sequenceCounters'[c] - 1
            PROVE  \E u \in Sequenced(c)' : turns'[u].sequence = n
        <5>1. CASE n = sequenceCounters[c]
          BY <4>1, <4>2, <5>1
        <5>2. CASE n # sequenceCounters[c]
          <6>1. n \in 1 .. sequenceCounters[c] - 1
            BY <1>2, <4>1, <5>2
          <6>2. PICK u \in Sequenced(c) : turns[u].sequence = n
            BY <1>2, <6>1 DEF DenseIn
          <6>3. QED
            BY <3>1, <4>2, <6>2
        <5>3. QED
          BY <5>1, <5>2
      <4>6. \A u, w \in Sequenced(c)' : turns'[u].sequence = turns'[w].sequence => u = w
        <5>1. \A u, w \in Sequenced(c) : turns'[u].sequence = turns'[w].sequence => u = w
          BY <1>2, <3>1 DEF DenseIn
        <5>2. \A u \in Sequenced(c) : turns'[u].sequence # turns'[t].sequence
          BY <1>2, <3>1, <4>1, <4>3
        <5>3. QED
          BY <4>2, <5>1, <5>2
      <4>7. QED
        BY <4>4, <4>5, <4>6 DEF DenseIn
    <3>4. QED
      BY <3>2, <3>3
  <2>4. QED
    BY <1>1, <2>1, <2>2, <2>3, PlaceEffect
<1>6. QED
  BY <1>1, <1>4, <1>5, StepWrites

\* The numbers given out in a conversation are 1, 2, 3 ... without gap or repeat.
THEOREM SequencesStayDense == LedgerSpec => []SequencesAreDense
<1>1. LedgerTypeOK /\ Dense => SequencesAreDense
  <2>1. SUFFICES ASSUME LedgerTypeOK, Dense, NEW c \in Conversations
                 PROVE  /\ {turns[t].sequence : t \in Sequenced(c)} = 1 .. sequenceCounters[c] - 1
                        /\ \A t, u \in Sequenced(c) : turns[t].sequence = turns[u].sequence => t = u
    BY DEF SequencesAreDense, Sequenced
  <2>2. DenseIn(c) /\ sequenceCounters[c] \in Nat
    BY <2>1, ConstantsAssumption DEF Dense, LedgerTypeOK
  <2>3. \A t \in Sequenced(c) : turns[t].sequence \in 1 .. sequenceCounters[c] - 1
    <3>1. \A t \in Sequenced(c) : turns[t].sequence \in Nat /\ turns[t].sequence # 0
      BY <2>1, ConstantsAssumption DEF LedgerTypeOK, Rows, Sequenced
    <3>2. QED
      BY <2>2, <3>1 DEF DenseIn
  <2>4. QED
    BY <2>2, <2>3 DEF DenseIn
<1>2. QED
  BY <1>1, DenseInitially, DensePreserved, LedgerIsTyped, LedgerIsBlank, SequencedStayBound, PTL
     DEF LedgerSpec

----------------------------------------------------------------------------
\* A call that takes no place can only give one back.
LEMMA PendingShrinks ==
    ASSUME LedgerTypeOK, NEW t \in Turns, Writes(t), KeepsPlace(t), NEW c
    PROVE  PendingTurns' \subseteq PendingTurns /\ PendingIn(c)' \subseteq PendingIn(c)
<1>1. ASSUME NEW u \in Turns
      PROVE  /\ turns'[u].sequence = turns[u].sequence
             /\ turns[u].sequence # 0 => turns'[u].conversation = turns[u].conversation
             /\ turns[u].state = "completed" => turns'[u].state = "completed"
  <2>1. CASE u = t
    BY <2>1 DEF KeepsPlace
  <2>2. CASE u # t
    BY <2>2, OtherRows
  <2>3. QED
    BY <2>1, <2>2
<1>2. QED
  BY <1>1 DEF PendingTurns, PendingIn

\* A call that takes a place adds at most its turn, and had room for it.
LEMMA PendingGrows ==
    ASSUME LedgerTypeOK, NEW t \in Turns, Writes(t), TakesPlace(t), NEW c
    PROVE  /\ PendingTurns' \subseteq PendingTurns \cup {t}
           /\ c # turns[t].conversation => PendingIn(c)' \subseteq PendingIn(c)
           /\ PendingIn(c)' \subseteq PendingIn(c) \cup {t}
<1>1. \A u \in Turns : u # t => turns'[u] = turns[u]
  BY OtherRows
<1>2. turns'[t].conversation = turns[t].conversation
  BY DEF TakesPlace
<1>3. PendingTurns' \subseteq PendingTurns \cup {t}
  BY <1>1 DEF PendingTurns
<1>4. QED
  BY <1>1, <1>2, <1>3 DEF PendingIn, PendingTurns

\* Room for one more keeps a set of turns within the limit.
LEMMA RoomForOne ==
    ASSUME NEW pending \in SUBSET Turns, NEW grown \in SUBSET Turns, NEW t \in Turns,
           NEW limit \in Nat, ~AtLimit(pending, limit), grown \subseteq pending \cup {t}
    PROVE  Cardinality(grown) <= limit
<1>1. IsFiniteSet(pending) /\ Cardinality(pending) \in Nat
  BY ConstantsAssumption, FS_Subset, FS_CardinalityType
<1>2. /\ IsFiniteSet(pending \cup {t}) /\ Cardinality(pending \cup {t}) \in Nat
      /\ Cardinality(pending \cup {t}) <= Cardinality(pending) + 1
  <2>1. /\ IsFiniteSet(pending \cup {t})
        /\ Cardinality(pending \cup {t}) = IF t \in pending THEN Cardinality(pending)
                                           ELSE Cardinality(pending) + 1
    BY <1>1, FS_AddElement
  <2>2. QED
    BY <1>1, <2>1
<1>3. Cardinality(pending) < limit
  BY <1>1 DEF AtLimit
<1>4. IsFiniteSet(grown) /\ Cardinality(grown) <= Cardinality(pending \cup {t})
  BY <1>2, FS_Subset
<1>5. Cardinality(grown) \in Nat
  BY <1>4, FS_CardinalityType
<1>6. QED
  BY <1>1, <1>2, <1>3, <1>4, <1>5

\* Giving places back keeps a set of turns within the limit.
LEMMA ShrunkStaysWithin ==
    ASSUME NEW pending \in SUBSET Turns, NEW shrunk \in SUBSET pending,
           NEW limit \in Nat, Cardinality(pending) <= limit
    PROVE  Cardinality(shrunk) <= limit
<1>1. IsFiniteSet(pending) /\ Cardinality(pending) \in Nat
  BY ConstantsAssumption, FS_Subset, FS_CardinalityType
<1>2. IsFiniteSet(shrunk) /\ Cardinality(shrunk) <= Cardinality(pending)
  BY <1>1, FS_Subset
<1>3. Cardinality(shrunk) \in Nat
  BY <1>2, FS_CardinalityType
<1>4. QED
  BY <1>1, <1>2, <1>3

\* Only an accept takes a place, and it counts both sets in its transaction.
LEMMA LimitsPreserved ==
    LedgerTypeOK /\ AbsentTurnsAreBlank /\ SequencedAreBound /\ PendingWithinLimits
      /\ [LedgerNext]_ledgerVars => PendingWithinLimits'
<1>1. SUFFICES ASSUME LedgerTypeOK, AbsentTurnsAreBlank, SequencedAreBound, PendingWithinLimits,
                      [LedgerNext]_ledgerVars, NEW c
               PROVE  /\ c \in Conversations => Cardinality(PendingIn(c)') <= MaxDepthPerConversation
                      /\ Cardinality(PendingTurns') <= MaxGlobalPending
  BY DEF PendingWithinLimits
<1>2. /\ PendingIn(c) \in SUBSET Turns /\ PendingIn(c)' \in SUBSET Turns
      /\ PendingTurns \in SUBSET Turns /\ PendingTurns' \in SUBSET Turns
  BY DEF PendingIn, PendingTurns
<1>3. MaxDepthPerConversation \in Nat /\ MaxGlobalPending \in Nat
  BY ConstantsAssumption
<1>4. /\ c \in Conversations => Cardinality(PendingIn(c)) <= MaxDepthPerConversation
      /\ Cardinality(PendingTurns) <= MaxGlobalPending
  BY <1>1 DEF PendingWithinLimits
<1>5. CASE UNCHANGED ledgerVars
  BY <1>4, <1>5 DEF ledgerVars, PendingIn, PendingTurns
<1>6. CASE \E t \in Turns : Writes(t)
  <2>1. PICK t \in Turns : Writes(t)
    BY <1>6
  <2>2. CASE KeepsPlace(t)
    <3>1. PendingTurns' \subseteq PendingTurns /\ PendingIn(c)' \subseteq PendingIn(c)
      BY <1>1, <2>1, <2>2, PendingShrinks
    <3>2. c \in Conversations => Cardinality(PendingIn(c)') <= MaxDepthPerConversation
      BY <1>2, <1>3, <1>4, <3>1, ShrunkStaysWithin
    <3>3. Cardinality(PendingTurns') <= MaxGlobalPending
      BY <1>2, <1>3, <1>4, <3>1, ShrunkStaysWithin
    <3>4. QED
      BY <3>2, <3>3
  <2>3. CASE TakesPlace(t)
    <3>1. /\ PendingTurns' \subseteq PendingTurns \cup {t}
          /\ c # turns[t].conversation => PendingIn(c)' \subseteq PendingIn(c)
          /\ PendingIn(c)' \subseteq PendingIn(c) \cup {t}
      BY <1>1, <2>1, <2>3, PendingGrows
    <3>2. /\ ~AtLimit(PendingIn(turns[t].conversation), MaxDepthPerConversation)
          /\ ~AtLimit(PendingTurns, MaxGlobalPending)
      BY <2>3 DEF TakesPlace, Accepts
    <3>3. Cardinality(PendingTurns') <= MaxGlobalPending
      BY <1>2, <1>3, <3>1, <3>2, RoomForOne
    <3>4. CASE c = turns[t].conversation
      <4>1. ~AtLimit(PendingIn(c), MaxDepthPerConversation)
        BY <3>2, <3>4
      <4>2. Cardinality(PendingIn(c)') <= MaxDepthPerConversation
        BY <1>2, <1>3, <3>1, <4>1, RoomForOne
      <4>3. QED
        BY <3>3, <4>2
    <3>5. CASE c # turns[t].conversation
      <4>1. c \in Conversations => Cardinality(PendingIn(c)') <= MaxDepthPerConversation
        BY <1>2, <1>3, <1>4, <3>1, <3>5, ShrunkStaysWithin
      <4>2. QED
        BY <3>3, <4>1
    <3>6. QED
      BY <3>4, <3>5
  <2>4. QED
    BY <1>1, <2>1, <2>2, <2>3, PlaceEffect
<1>7. QED
  BY <1>1, <1>5, <1>6, StepWrites

\* At first no place is taken.
LEMMA LimitsInitially == LedgerInit => PendingWithinLimits
<1>1. SUFFICES ASSUME LedgerInit PROVE PendingWithinLimits
  OBVIOUS
<1>2. PendingTurns = {} /\ \A c \in Conversations : PendingIn(c) = {}
  BY <1>1 DEF LedgerInit, PendingTurns, PendingIn, AbsentRow
<1>3. Cardinality({}) = 0
  BY FS_EmptySet
<1>4. QED
  BY <1>2, <1>3, ConstantsAssumption DEF PendingWithinLimits

\* The turns that hold a place in a queue stay within both limits, although
\* accepting, moving and completing them are separate transactions.
THEOREM PendingStaysWithinLimits == LedgerSpec => []PendingWithinLimits
<1>1. QED
  BY LimitsInitially, LimitsPreserved, LedgerIsTyped, LedgerIsBlank, SequencedStayBound, PTL
     DEF LedgerSpec

\* The factual history is a log that can be believed: it explains what the row
\* says and never takes back what it has proven.
THEOREM HistoryIsAlwaysALog == LedgerSpec => []HistoryIsALog
<1>1. HistoryExplainsFacts /\ HistoryNeverRetracts => HistoryIsALog
  BY DEF HistoryIsALog
<1>2. QED
  BY <1>1, HistoryIsFaithful, HistoryIsConsistent, PTL

\* What the ledger counts over several rows (transport events, sequence numbers,
\* queue places) is right together, whatever clients call and in any order.
THEOREM TurnsAreAlwaysCountedOnce == LedgerSpec => []TurnsAreCountedOnce
<1>1. OneTurnPerTransportEvent /\ SequencesAreDense /\ PendingWithinLimits => TurnsAreCountedOnce
  BY DEF TurnsAreCountedOnce
<1>2. QED
  BY <1>1, EventsAreDeduplicated, SequencesStayDense, PendingStaysWithinLimits, PTL

----------------------------------------------------------------------------
(* The conversation state. *)

Operations ==
    [key : OperationKeys, kind : {"checkpoint", "barrier", "reconcile"}, snapshot : Snapshots]

\* Each revision of a snapshot has its operation, and the newest wrote what is stored.
RevisionsOf(snapshot, ops) ==
    /\ {op.snapshot.revision : op \in ops} = 1 .. snapshot.revision
    /\ \A o, p \in ops : o.key = p.key \/ o.snapshot.revision = p.snapshot.revision => o = p
    /\ \A op \in ops : op.snapshot.revision = snapshot.revision => op.snapshot = snapshot
    /\ snapshot.revision = 0 => snapshot = NoSnapshot

ConversationInv ==
    ConversationTypeOK /\ \A c \in Conversations : RevisionsOf(snapshots[c], checkpointOps[c])

\* What a write amounts to: the next revision, under a key nobody has used, keeping
\* what the snapshot said of a pause.
SnapshotWrites(c) ==
    \E op \in Operations :
      /\ OpsWithKey(c, op.key) = {}
      /\ op.snapshot.revision = snapshots[c].revision + 1
      /\ snapshots[c].pause = "degraded" =>
           /\ op.snapshot.pause = "degraded"
           /\ snapshots[c].checkpoint = "failed" => op.snapshot.context = snapshots[c].context
      /\ snapshots' = [snapshots EXCEPT ![c] = op.snapshot]
      /\ checkpointOps' = [checkpointOps EXCEPT ![c] = @ \cup {op}]

LEMMA NoSnapshotTyped == NoSnapshot \in Snapshots
BY ConstantsAssumption DEF NoSnapshot, Snapshots, PauseStates, CheckpointStatuses

LEMMA CheckpointWrites ==
    ASSUME ConversationInv, NEW c \in Conversations, NEW t \in Turns, NEW revision \in 0 .. snapshots[c].revision,
           revision < MaxSafeInteger,
           NEW loaded \in {op.snapshot : op \in checkpointOps[c]} \cup {NoSnapshot}, loaded.revision = revision,
           Checkpoint(c, <<"checkpoint", t>>, revision, NextCheckpoint(loaded, t))
    PROVE  SnapshotWrites(c) \/ UNCHANGED conversationVars
<1> DEFINE key == <<"checkpoint", t>>
           next == NextCheckpoint(loaded, t)
           op == [key |-> key, kind |-> "checkpoint", snapshot |-> next]
<1>1. CASE CheckpointOutcome(c, key, revision, next) # "stored"
  BY <1>1 DEF Checkpoint
<1>2. CASE CheckpointOutcome(c, key, revision, next) = "stored"
  <2>1. /\ OpsWithKey(c, key) = {}
        /\ snapshots[c].revision = revision
        /\ ~BarrierActive(snapshots[c])
    BY <1>2 DEF CheckpointOutcome, Stale
  <2>2. loaded \in Snapshots
    BY NoSnapshotTyped DEF ConversationInv, ConversationTypeOK
  <2>3. loaded = snapshots[c]
    <3>1. RevisionsOf(snapshots[c], checkpointOps[c]) /\ loaded.revision = snapshots[c].revision
      BY <2>1 DEF ConversationInv
    <3>2. CASE loaded = NoSnapshot
      BY <3>1, <3>2 DEF RevisionsOf, NoSnapshot
    <3>3. CASE \E earlier \in checkpointOps[c] : loaded = earlier.snapshot
      BY <3>1, <3>3 DEF RevisionsOf
    <3> QED
      BY <3>2, <3>3
  <2>4. /\ next \in Snapshots /\ next.revision = revision + 1
        /\ loaded.pause = "degraded" => next.pause = "degraded"
    <3>1. revision + 1 \in 0 .. MaxSafeInteger /\ loaded.context \in Seq(Turns) /\ loaded.pause \in PauseStates
      BY <2>2, ConstantsAssumption DEF Snapshots
    <3>2. Append(loaded.context, t) \in Seq(Turns)
      BY <3>1
    <3> QED
      BY <3>1, <3>2 DEF Snapshots, NextCheckpoint, PauseStates, CheckpointStatuses
  <2>5. snapshots[c].pause = "degraded" => snapshots[c].checkpoint # "failed"
    BY <2>1 DEF BarrierActive
  <2> HIDE DEF next
  <2>6. op \in Operations /\ op.key = key /\ op.snapshot = next
    BY <2>4 DEF Operations, OperationKeys
  <2>7. snapshots' = [snapshots EXCEPT ![c] = next] /\ checkpointOps' = [checkpointOps EXCEPT ![c] = @ \cup {op}]
    BY <1>2 DEF Checkpoint, WriteSnapshot, next
  <2> HIDE DEF op
  <2> QED
    BY <2>1, <2>3, <2>4, <2>5, <2>6, <2>7 DEF SnapshotWrites
<1> QED
  BY <1>1, <1>2

LEMMA BarrierWrites ==
    ASSUME ConversationInv, NEW c \in Conversations, NEW t \in Turns, NEW revision \in 0 .. snapshots[c].revision,
           NEW reason \in BarrierReasons, RecordCheckpointBarrier(c, <<reason, t>>, revision)
    PROVE  SnapshotWrites(c) \/ UNCHANGED conversationVars
<1> DEFINE key == <<reason, t>>
           next == Degrade(snapshots[c])
           op == [key |-> key, kind |-> "barrier", snapshot |-> next]
<1>1. CASE BarrierOutcome(c, key, revision) # "recorded"
  BY <1>1 DEF RecordCheckpointBarrier
<1>2. CASE BarrierOutcome(c, key, revision) = "recorded"
  <2>1. OpsWithKey(c, key) = {} /\ ~Exhausted(snapshots[c].revision)
    BY <1>2 DEF BarrierOutcome
  <2>2. snapshots[c] \in Snapshots /\ MaxSafeInteger \in Nat
    BY ConstantsAssumption DEF ConversationInv, ConversationTypeOK
  <2>3. /\ next \in Snapshots /\ next.revision = snapshots[c].revision + 1
        /\ next.pause = "degraded" /\ next.context = snapshots[c].context
    <3>1. snapshots[c].revision + 1 \in 0 .. MaxSafeInteger
      BY <2>1, <2>2 DEF Snapshots, Exhausted
    <3> QED
      BY <2>2, <3>1 DEF Snapshots, Degrade, PauseStates, CheckpointStatuses
  <2> HIDE DEF next
  <2>4. op \in Operations /\ op.key = key /\ op.snapshot = next
    BY <2>3 DEF Operations, OperationKeys
  <2>5. snapshots' = [snapshots EXCEPT ![c] = next] /\ checkpointOps' = [checkpointOps EXCEPT ![c] = @ \cup {op}]
    BY <1>2 DEF RecordCheckpointBarrier, WriteSnapshot, next
  <2> HIDE DEF op
  <2> QED
    BY <2>1, <2>3, <2>4, <2>5 DEF SnapshotWrites
<1> QED
  BY <1>1, <1>2

LEMMA ReconcileWrites ==
    ASSUME ConversationInv, NEW c \in Conversations, NEW t \in Turns, NEW revision \in 0 .. snapshots[c].revision,
           ReconcileCheckpoint(c, <<"reconcile", t>>, revision)
    PROVE  SnapshotWrites(c) \/ UNCHANGED conversationVars
<1> DEFINE key == <<"reconcile", t>>
           next == [snapshots[c] EXCEPT !.revision = @ + 1, !.checkpoint = "succeeded"]
           op == [key |-> key, kind |-> "reconcile", snapshot |-> next]
<1>1. CASE ReconcileOutcome(c, key, revision) # "reconciled"
  BY <1>1 DEF ReconcileCheckpoint
<1>2. CASE ReconcileOutcome(c, key, revision) = "reconciled"
  <2>1. OpsWithKey(c, key) = {} /\ ~Exhausted(snapshots[c].revision)
    BY <1>2 DEF ReconcileOutcome
  <2>2. snapshots[c] \in Snapshots /\ MaxSafeInteger \in Nat
    BY ConstantsAssumption DEF ConversationInv, ConversationTypeOK
  <2>3. /\ next \in Snapshots /\ next.revision = snapshots[c].revision + 1
        /\ next.pause = snapshots[c].pause /\ next.context = snapshots[c].context
    <3>1. snapshots[c].revision + 1 \in 0 .. MaxSafeInteger
      BY <2>1, <2>2 DEF Snapshots, Exhausted
    <3> QED
      BY <2>2, <3>1 DEF Snapshots, CheckpointStatuses
  <2>5. snapshots' = [snapshots EXCEPT ![c] = next] /\ checkpointOps' = [checkpointOps EXCEPT ![c] = @ \cup {op}]
    BY <1>2 DEF ReconcileCheckpoint, WriteSnapshot
  <2> HIDE DEF next
  <2>4. op \in Operations /\ op.key = key /\ op.snapshot = next
    BY <2>3 DEF Operations, OperationKeys
  <2> HIDE DEF op
  <2> QED
    BY <2>1, <2>3, <2>4, <2>5 DEF SnapshotWrites
<1> QED
  BY <1>1, <1>2

LEMMA ConversationSteps ==
    ASSUME ConversationInv, [ConversationNext]_conversationVars
    PROVE  (\E c \in Conversations : SnapshotWrites(c)) \/ UNCHANGED conversationVars
BY CheckpointWrites, BarrierWrites, ReconcileWrites DEF ConversationNext

LEMMA WriteKeeps ==
    ASSUME ConversationInv, NEW c \in Conversations, SnapshotWrites(c)
    PROVE  ConversationInv'
<1>1. PICK op \in Operations :
        /\ OpsWithKey(c, op.key) = {}
        /\ op.snapshot.revision = snapshots[c].revision + 1
        /\ snapshots' = [snapshots EXCEPT ![c] = op.snapshot]
        /\ checkpointOps' = [checkpointOps EXCEPT ![c] = @ \cup {op}]
  BY DEF SnapshotWrites
<1>2. /\ snapshots \in [Conversations -> Snapshots] /\ checkpointOps \in [Conversations -> SUBSET Operations]
      /\ op.snapshot \in Snapshots
  BY <1>1 DEF ConversationInv, ConversationTypeOK, Operations
<1>3. ConversationTypeOK'
  BY <1>1, <1>2 DEF ConversationTypeOK, Operations
<1>4. ASSUME NEW d \in Conversations, d # c
      PROVE  RevisionsOf(snapshots[d], checkpointOps[d])'
  BY <1>1, <1>2, <1>4 DEF ConversationInv, RevisionsOf
<1>5. RevisionsOf(snapshots[c], checkpointOps[c])'
  <2> DEFINE ops == checkpointOps[c]
             r == snapshots[c].revision
  <2>1. /\ snapshots'[c] = op.snapshot /\ checkpointOps'[c] = ops \cup {op}
        /\ ops \subseteq Operations /\ r \in Nat
    BY <1>1, <1>2 DEF Snapshots
  <2>2. /\ {o.snapshot.revision : o \in ops} = 1 .. r
        /\ \A o, p \in ops : o.key = p.key \/ o.snapshot.revision = p.snapshot.revision => o = p
    BY DEF ConversationInv, RevisionsOf
  <2>3. \A o \in ops : o.key # op.key /\ o.snapshot.revision \in 1 .. r
    BY <1>1, <2>2 DEF OpsWithKey
  <2>4. {o.snapshot.revision : o \in ops \cup {op}} = 1 .. (r + 1)
    <3>1. {o.snapshot.revision : o \in ops \cup {op}} = (1 .. r) \cup {r + 1}
      BY <1>1, <2>2
    <3> QED
      BY <2>1, <3>1
  <2>5. r + 1 # 0 /\ \A n \in 1 .. r : n # r + 1
    BY <2>1
  <2> HIDE DEF ops, r
  <2>6. op.snapshot.revision = r + 1
    BY <1>1 DEF r
  <2> QED
    BY <2>1, <2>2, <2>3, <2>4, <2>5, <2>6 DEF RevisionsOf
<1> QED
  BY <1>3, <1>4, <1>5 DEF ConversationInv

LEMMA ConversationInitHolds == ConversationInit => ConversationInv
<1> SUFFICES ASSUME ConversationInit PROVE ConversationInv
  OBVIOUS
<1>1. ConversationTypeOK
  BY NoSnapshotTyped DEF ConversationInit, ConversationTypeOK
<1>2. ASSUME NEW c \in Conversations
      PROVE  RevisionsOf(snapshots[c], checkpointOps[c])
  <2>1. snapshots[c] = NoSnapshot /\ checkpointOps[c] = {} /\ NoSnapshot.revision = 0 /\ 1 .. 0 = {}
    BY DEF ConversationInit, NoSnapshot
  <2> QED
    BY <2>1 DEF RevisionsOf
<1> QED
  BY <1>1, <1>2 DEF ConversationInv

LEMMA ConversationStepHolds ==
    ASSUME ConversationInv, [ConversationNext]_conversationVars
    PROVE  ConversationInv'
<1>1. CASE UNCHANGED conversationVars
  BY <1>1 DEF conversationVars, ConversationInv, ConversationTypeOK
<1> QED
  BY <1>1, ConversationSteps, WriteKeeps

LEMMA ConversationInvHolds == ConversationSpec => []ConversationInv
BY ConversationInitHolds, ConversationStepHolds, PTL DEF ConversationSpec

\* Whatever checkpoints, barriers and reconciliations clients send, in any order,
\* twice or with a revision they read long ago, each revision of a snapshot was
\* written once, by one operation, and the newest one is what is stored.
THEOREM RevisionsHaveOneOperation == ConversationSpec => []EveryRevisionHasOneOperation
<1>1. ConversationInv => EveryRevisionHasOneOperation
  BY DEF ConversationInv, RevisionsOf, EveryRevisionHasOneOperation
<1> QED
  BY <1>1, ConversationInvHolds, PTL

\* No operation lifts the degraded pause of a conversation, and none adds to its
\* context while its barrier is active.
THEOREM BarriersFreezeContexts == ConversationSpec => BarrierFreezesContext
<1>1. ConversationInv /\ [ConversationNext]_conversationVars =>
        [\A c \in Conversations : snapshots[c].pause = "degraded" =>
           /\ snapshots'[c].pause = "degraded"
           /\ snapshots[c].checkpoint = "failed" => snapshots'[c].context = snapshots[c].context]_conversationVars
  <2> SUFFICES ASSUME ConversationInv, NEW d \in Conversations, SnapshotWrites(d), NEW c \in Conversations,
                      snapshots[c].pause = "degraded"
               PROVE  /\ snapshots'[c].pause = "degraded"
                      /\ snapshots[c].checkpoint = "failed" => snapshots'[c].context = snapshots[c].context
    BY ConversationSteps
  <2> QED
    BY DEF SnapshotWrites, ConversationInv, ConversationTypeOK
<1> QED
  BY <1>1, ConversationInvHolds, PTL DEF ConversationSpec, BarrierFreezesContext

----------------------------------------------------------------------------
\* The delivery outbox.
OutboxInv == OutboxTypeOK /\ ReconciledStaysUnknown

LEMMA NoneIsNoOutcome == None # "outcome-unknown"
BY ConstantsAssumption DEF LlmCompletionOutcomes

LEMMA ScrubbedTyped ==
    ASSUME NEW entries \in [Turns -> {"absent", "pending", "expired", "scrubbed"}]
    PROVE  /\ Scrubbed(entries) \in [Turns -> {"absent", "pending", "expired", "scrubbed"}]
           /\ \A t \in Turns : entries[t] = "scrubbed" => Scrubbed(entries)[t] = "scrubbed"
BY DEF Scrubbed

\* No step makes a scrubbed entry anything else, or an outcome that is known another.
LEMMA OutboxStepHolds ==
    ASSUME OutboxInv, [OutboxNext]_outboxVars
    PROVE  /\ OutboxInv'
           /\ \A t \in Turns : outboxEntries[t] = "scrubbed" => outboxEntries'[t] = "scrubbed"
<1> DEFINE EntriesHold == /\ outboxEntries' \in [Turns -> {"absent", "pending", "expired", "scrubbed"}]
                          /\ \A t \in Turns : outboxEntries[t] = "scrubbed" => outboxEntries'[t] = "scrubbed"
<1>1. outboxEntries' = Scrubbed(outboxEntries) => EntriesHold
  BY ScrubbedTyped DEF OutboxInv, OutboxTypeOK
<1>2. EntriesHold /\ UNCHANGED <<outboxOutcomes, outboxReconciled>> => OutboxInv'
  BY DEF OutboxInv, OutboxTypeOK, ReconciledStaysUnknown
<1>3. CASE QueryOutbox \/ UNCHANGED outboxVars
  BY <1>1, <1>2, <1>3 DEF QueryOutbox, outboxVars, OutboxInv, OutboxTypeOK
<1>4. ASSUME NEW t \in Turns, OutboxPut(t)
      PROVE  EntriesHold /\ OutboxInv'
  <2>1. EntriesHold
    BY <1>4, ScrubbedTyped DEF OutboxPut, EntryAfterPut, OutboxInv, OutboxTypeOK
  <2> QED
    BY <1>2, <1>4, <2>1 DEF OutboxPut
<1>5. ASSUME NEW t \in Turns, NEW outcome \in DeliveryOutcomes, RecordDeliveryOutcome(t, outcome)
      PROVE  EntriesHold /\ OutboxInv'
  <2>1. EntriesHold
    BY <1>1, <1>5 DEF RecordDeliveryOutcome
  <2>2. RecordDeliveryOutcomeKind(t, outcome) = "recorded" => outboxOutcomes[t] = None
    BY DEF RecordDeliveryOutcomeKind
  <2>3. outboxOutcomes[t] = None => t \notin outboxReconciled
    BY NoneIsNoOutcome DEF OutboxInv, ReconciledStaysUnknown
  <2> QED
    BY <1>5, <2>1, <2>2, <2>3 DEF RecordDeliveryOutcome, OutboxInv, OutboxTypeOK, ReconciledStaysUnknown
<1>6. ASSUME NEW t \in Turns, ReconcileDelivery(t)
      PROVE  EntriesHold /\ OutboxInv'
  <2>1. EntriesHold
    BY <1>1, <1>6 DEF ReconcileDelivery
  <2> QED
    BY <1>6, <2>1 DEF ReconcileDelivery, OutboxInv, OutboxTypeOK, ReconciledStaysUnknown
<1>7. ASSUME NEW t \in Turns, OutboxEntryExpires(t)
      PROVE  EntriesHold /\ OutboxInv'
  <2>1. EntriesHold
    BY <1>7 DEF OutboxEntryExpires, OutboxInv, OutboxTypeOK
  <2> QED
    BY <1>2, <1>7, <2>1 DEF OutboxEntryExpires
<1> QED
  BY <1>1, <1>2, <1>3, <1>4, <1>5, <1>6, <1>7 DEF OutboxNext, QueryOutbox

LEMMA OutboxInvHolds == OutboxSpec => []OutboxInv
<1>1. OutboxInit => OutboxInv
  BY DEF OutboxInit, OutboxInv, OutboxTypeOK, ReconciledStaysUnknown
<1>2. OutboxInv /\ [OutboxNext]_outboxVars => OutboxInv'
  BY OutboxStepHolds
<1> QED
  BY <1>1, <1>2, PTL DEF OutboxSpec

\* Plaintext whose time has passed is never readable again, whatever is put,
\* delivered or reconciled later.
THEOREM ScrubbedPlaintextIsGone == OutboxSpec => ScrubbedStaysScrubbed
<1>1. OutboxInv /\ [OutboxNext]_outboxVars =>
        [\A t \in Turns : outboxEntries[t] = "scrubbed" => outboxEntries'[t] = "scrubbed"]_outboxVars
  BY OutboxStepHolds
<1> QED
  BY <1>1, OutboxInvHolds, PTL DEF OutboxSpec, ScrubbedStaysScrubbed

----------------------------------------------------------------------------
\* The audit.
AuditInv == AuditTypeOK /\ CompletionClosesItsStart

LEMMA AuditStepHolds ==
    ASSUME AuditInv, [AuditNext]_auditVars
    PROVE  AuditInv'
<1>1. ASSUME NEW t \in Turns, NEW version \in PolicyVersions, RecordStart(t, version)
      PROVE  AuditInv'
  <2>1. CASE auditStarts[t] = None
    <3>1. auditCompletions[t] = None
      BY <2>1, PolicyAssumption DEF AuditInv, AuditTypeOK, CompletionClosesItsStart, CompletionEvents
    <3> QED
      BY <1>1, <2>1, <3>1 DEF RecordStart, RecordStartKind, AuditInv, AuditTypeOK, CompletionClosesItsStart
  <2>2. CASE auditStarts[t] # None
    BY <1>1, <2>2 DEF RecordStart, RecordStartKind, AuditInv, AuditTypeOK, CompletionClosesItsStart
  <2> QED
    BY <2>1, <2>2
<1>2. ASSUME NEW t \in Turns, NEW event \in CompletionEvents, RecordCompletion(t, event)
      PROVE  AuditInv'
  <2>1. CASE RecordCompletionKind(t, event) = "recorded"
    <3>1. auditStarts[t] = event.policy
      BY <2>1 DEF RecordCompletionKind
    <3>2. auditCompletions' = [auditCompletions EXCEPT ![t] = event]
      BY <1>2, <2>1 DEF RecordCompletion
    <3> QED
      BY <1>2, <3>1, <3>2 DEF RecordCompletion, AuditInv, AuditTypeOK, CompletionClosesItsStart
  <2>2. CASE RecordCompletionKind(t, event) # "recorded"
    BY <1>2, <2>2 DEF RecordCompletion, AuditInv, AuditTypeOK, CompletionClosesItsStart
  <2> QED
    BY <2>1, <2>2
<1>3. CASE UNCHANGED auditVars
  BY <1>3 DEF auditVars, AuditInv, AuditTypeOK, CompletionClosesItsStart
<1> QED
  BY <1>1, <1>2, <1>3 DEF AuditNext

----------------------------------------------------------------------------
\* The three together.
StoresInv == ConversationInv /\ OutboxInv /\ AuditInv

LEMMA StoresInvHolds == StoresSpec => []StoresInv
<1>1. StoresInit => StoresInv
  <2>1. OutboxInit => OutboxInv
    BY DEF OutboxInit, OutboxInv, OutboxTypeOK, ReconciledStaysUnknown
  <2>2. AuditInit => AuditInv
    BY DEF AuditInit, AuditInv, AuditTypeOK, CompletionClosesItsStart
  <2> QED
    BY <2>1, <2>2, ConversationInitHolds DEF StoresInit, StoresInv
<1>2. StoresInv /\ [StoresNext]_recordVars => StoresInv'
  <2> SUFFICES ASSUME StoresInv, [StoresNext]_recordVars PROVE StoresInv'
    OBVIOUS
  <2>1. [ConversationNext]_conversationVars /\ [OutboxNext]_outboxVars /\ [AuditNext]_auditVars
    BY DEF StoresNext, recordVars, conversationVars, outboxVars, auditVars
  <2> QED
    BY <2>1, ConversationStepHolds, OutboxStepHolds, AuditStepHolds DEF StoresInv
<1> QED
  BY <1>1, <1>2, PTL DEF StoresSpec

\* However the operations of the stores interleave, are repeated or come too late,
\* what they hold stays provable: one operation per revision, no reconciliation of
\* a delivery whose outcome is known, no completion event without its start.
THEOREM StoresAlwaysKeepTheirRecords == StoresSpec => []StoresKeepTheirRecords
<1>1. StoresInv => StoresKeepTheirRecords
  BY DEF StoresInv, ConversationInv, RevisionsOf, EveryRevisionHasOneOperation, OutboxInv, AuditInv,
         StoresKeepTheirRecords
<1> QED
  BY <1>1, StoresInvHolds, PTL

----------------------------------------------------------------------------
\* The dispatcher.  A drained queue stays empty, so what waits always has a runner.
DispatcherInv ==
    /\ DispatcherTypeOK
    /\ IsFiniteSet(Active)
    /\ draining => \A c \in Conversations : queues[c] = <<>>
    /\ NobodyWaitsInVain

LEMMA IdleMeansInactive ==
    ASSUME DispatcherTypeOK, WaitingWorkHasARunner
    PROVE  Idle <=> Active = {}
<1>1. ASSUME Active = {}
      PROVE  QueuedTurns = {}
  <2>1. \A c \in Conversations : ToSet(queues[c]) = {}
    BY <1>1 DEF WaitingWorkHasARunner, ToSet
  <2> QED
    BY <2>1 DEF QueuedTurns
<1> QED
  BY <1>1 DEF Idle

\* A queue stays a queue of what it held when a job is inserted, and is then not empty.
LEMMA InsertSortedTyped ==
    ASSUME NEW S, NEW queue \in Seq(S), NEW job \in S
    PROVE  InsertSorted(queue, job) \in Seq(S) /\ InsertSorted(queue, job) # <<>>
<1> DEFINE greater == {i \in DOMAIN queue : queue[i].sequence > job.sequence}
           at == IF greater = {} THEN Len(queue) + 1 ELSE Min(greater)
<1>1. at \in 1 .. Len(queue) + 1
  <2>1. CASE greater = {}
    BY <2>1
  <2>2. CASE greater # {}
    <3>1. greater \subseteq Nat /\ greater \subseteq 1 .. Len(queue)
      OBVIOUS
    <3> HIDE DEF greater
    <3>2. PICK least \in greater : \A i \in greater : ~(<<i, least>> \in OpToRel(<, Nat))
      BY <2>2, <3>1, WFMin, NatLessThanWellFounded
    <3>3. \A i \in greater : least <= i
      <4>1. \A i \in greater : <<i, least>> \in Nat \X Nat /\ ~(i < least)
        BY <3>1, <3>2 DEF OpToRel
      <4>2. ASSUME NEW i \in greater
            PROVE  least <= i
        <5>1. i \in Nat /\ least \in Nat /\ ~(i < least)
          BY <3>1, <4>1
        <5> QED
          BY <5>1
      <4> QED
        BY <4>2
    <3>4. Min(greater) \in greater
      BY <3>3 DEF Min
    <3>5. Min(greater) \in 1 .. Len(queue)
      BY <3>1, <3>4
    <3> QED
      BY <2>2, <3>5
  <2> QED
    BY <2>1, <2>2
<1> HIDE DEF at
<1>2. /\ SubSeq(queue, 1, at - 1) \in Seq(S) /\ SubSeq(queue, at, Len(queue)) \in Seq(S)
      /\ <<job>> \in Seq(S) /\ Len(<<job>>) = 1
  BY <1>1
<1>3. InsertSorted(queue, job) = SubSeq(queue, 1, at - 1) \o <<job>> \o SubSeq(queue, at, Len(queue))
  BY DEF InsertSorted, InsertAt, at
<1> QED
  BY <1>2, <1>3

LEMMA SameDispatcher ==
    ASSUME DispatcherInv, UNCHANGED dispatcherVars
    PROVE  DispatcherInv'
<1>1. Active' = Active /\ QueuedTurns' = QueuedTurns
  BY DEF dispatcherVars, Active, QueuedTurns
<1> QED
  BY <1>1 DEF dispatcherVars, DispatcherInv, DispatcherTypeOK, NobodyWaitsInVain, WaitingWorkHasARunner,
              IdleWaiterIsWoken, Idle

LEMMA PendingIsCounted ==
    ASSUME DispatcherInv
    PROVE  /\ Cardinality(Active) \in Nat /\ GlobalPending \in Nat
           /\ Cardinality(Active) <= GlobalPending
<1>1. QueuedTurns \subseteq Turns
  <2>1. \A c \in Conversations : \A i \in DOMAIN queues[c] : queues[c][i].turn \in Turns
    <3>1. ASSUME NEW c \in Conversations, NEW i \in DOMAIN queues[c]
          PROVE  queues[c][i] \in DispatcherJobs
      <4>1. queues[c] \in Seq(DispatcherJobs)
        BY DEF DispatcherInv, DispatcherTypeOK
      <4> QED
        BY <4>1
    <3> QED
      BY <3>1 DEF DispatcherJobs
  <2> QED
    BY <2>1 DEF QueuedTurns, ToSet
<1>2. Cardinality(QueuedTurns) \in Nat /\ Cardinality(Active) \in Nat
  BY <1>1, FS_Subset, FS_CardinalityType, ConstantsAssumption DEF DispatcherInv
<1> QED
  BY <1>2 DEF GlobalPending

LEMMA EnqueueHolds ==
    ASSUME DispatcherInv, NEW c \in Conversations, NEW job \in DispatcherJobs, Enqueue(c, job)
    PROVE  DispatcherInv'
<1> DEFINE queue == InsertSorted(queues[c], job)
           starts == c \notin Active /\ Cardinality(Active) < MaxGlobalPending
<1>1. CASE EnqueueOutcome(c) # "enqueued"
  BY <1>1, SameDispatcher DEF Enqueue
<1>2. CASE EnqueueOutcome(c) = "enqueued"
  <2>1. ~draining /\ GlobalPending < MaxGlobalPending
    BY <1>2, PendingIsCounted, ConstantsAssumption DEF EnqueueOutcome
  <2>2. Cardinality(Active) < MaxGlobalPending
    BY <2>1, PendingIsCounted, ConstantsAssumption
  <2>3. /\ queue \in Seq(DispatcherJobs) /\ queue # <<>>
        /\ Head(queue) \in DispatcherJobs /\ Tail(queue) \in Seq(DispatcherJobs)
    BY InsertSortedTyped DEF DispatcherInv, DispatcherTypeOK
  <2> HIDE DEF queue
  <2>4. /\ queues' = [queues EXCEPT ![c] = IF c \notin Active THEN Tail(queue) ELSE queue]
        /\ activeTurn' = [activeTurn EXCEPT ![c] = IF c \notin Active THEN Head(queue).turn ELSE @]
        /\ UNCHANGED <<draining, idleWaiter>>
    BY <1>2, <2>2 DEF Enqueue, queue
  <2>5. Head(queue).turn \in Turns /\ Head(queue).turn # None
    BY <2>3, ConstantsAssumption DEF DispatcherJobs
  <2>6. DispatcherTypeOK'
    BY <2>3, <2>4, <2>5 DEF DispatcherInv, DispatcherTypeOK
  <2>7. Active' = Active \cup {c}
    BY <2>4, <2>5 DEF DispatcherInv, DispatcherTypeOK, Active
  <2>8. IsFiniteSet(Active')
    BY <2>7, FS_AddElement DEF DispatcherInv
  <2>9. WaitingWorkHasARunner'
    BY <2>4, <2>7 DEF DispatcherInv, DispatcherTypeOK, NobodyWaitsInVain, WaitingWorkHasARunner
  <2>10. ~Idle'
    BY <2>7 DEF Idle
  <2> QED
    BY <2>1, <2>4, <2>6, <2>8, <2>9, <2>10 DEF DispatcherInv, NobodyWaitsInVain, IdleWaiterIsWoken
<1> QED
  BY <1>1, <1>2

\* Only the conversation whose job ends can have work that nobody runs.
LEMMA JobSettlesHolds ==
    ASSUME DispatcherInv, NEW c \in Active, JobSettles(c)
    PROVE  DispatcherInv'
<1>1. /\ queues \in [Conversations -> Seq(DispatcherJobs)] /\ activeTurn \in [Conversations -> Turns \cup {None}]
      /\ \A d \in Conversations : queues[d] # <<>> => d \in Active
      /\ c \in Conversations
  BY DEF DispatcherInv, DispatcherTypeOK, NobodyWaitsInVain, WaitingWorkHasARunner, Active
<1>2. Ready(c) \subseteq {c} /\ (c \in Ready(c) <=> queues[c] # <<>>)
  BY <1>1 DEF Ready
<1>3. PICK started \in SUBSET Ready(c) :
        /\ IF draining THEN started = {} ELSE c \in Ready(c) => c \in started
        /\ activeTurn' = [d \in Conversations |->
             IF d \in started THEN Head(queues[d]).turn
             ELSE IF d = c THEN None ELSE activeTurn[d]]
        /\ queues' = [d \in Conversations |-> IF d \in started THEN Tail(queues[d]) ELSE queues[d]]
        /\ UNCHANGED draining
        /\ NotifyIdle
  BY DEF JobSettles
<1>4. ASSUME NEW d \in started
      PROVE  /\ d = c /\ Head(queues[d]).turn \in Turns /\ Head(queues[d]).turn # None
             /\ Tail(queues[d]) \in Seq(DispatcherJobs)
  <2>1. d = c /\ queues[d] # <<>>
    BY <1>2
  <2>2. Head(queues[d]) \in DispatcherJobs /\ Tail(queues[d]) \in Seq(DispatcherJobs)
    BY <1>1, <2>1
  <2> QED
    BY <2>1, <2>2, ConstantsAssumption DEF DispatcherJobs
<1>5. DispatcherTypeOK'
  BY <1>1, <1>3, <1>4 DEF DispatcherInv, DispatcherTypeOK, NotifyIdle
<1>6. Active' \subseteq Active
  BY <1>1, <1>3, <1>4 DEF Active
<1>7. IsFiniteSet(Active')
  BY <1>6, FS_Subset DEF DispatcherInv
<1>8. (draining => \A d \in Conversations : queues[d] = <<>>)'
  BY <1>3 DEF DispatcherInv
<1>9. WaitingWorkHasARunner'
  <2> SUFFICES ASSUME NEW d \in Conversations, queues'[d] # <<>>
               PROVE  d \in Active'
    BY DEF WaitingWorkHasARunner
  <2>1. ~draining
    BY <1>3 DEF DispatcherInv
  <2>2. CASE d = c
    <3>1. c \in started
      BY <1>2, <1>3, <2>1, <2>2
    <3> QED
      BY <1>3, <1>4, <2>2, <3>1 DEF Active
  <2>3. CASE d # c
    BY <1>1, <1>3, <1>4, <2>3 DEF Active
  <2> QED
    BY <2>2, <2>3
<1>10. IdleWaiterIsWoken'
  BY <1>3 DEF NotifyIdle, IdleWaiterIsWoken
<1> QED
  BY <1>5, <1>7, <1>8, <1>9, <1>10 DEF DispatcherInv, NobodyWaitsInVain

LEMMA DrainHolds ==
    ASSUME DispatcherInv, DropQueues, idleWaiter' \in BOOLEAN, idleWaiter' => ~Idle'
    PROVE  DispatcherInv'
<1>1. Active' = Active
  BY DEF DropQueues, Active
<1>2. DispatcherTypeOK' /\ (draining => \A d \in Conversations : queues[d] = <<>>)'
  BY DEF DropQueues, DispatcherInv, DispatcherTypeOK
<1>3. WaitingWorkHasARunner'
  BY DEF DropQueues, WaitingWorkHasARunner
<1> QED
  BY <1>1, <1>2, <1>3 DEF DispatcherInv, NobodyWaitsInVain, IdleWaiterIsWoken

LEMMA DispatcherStepHolds ==
    ASSUME DispatcherInv, [DispatcherNext]_dispatcherVars
    PROVE  DispatcherInv'
<1>1. CASE UNCHANGED dispatcherVars
  BY <1>1, SameDispatcher
<1>2. ASSUME NEW c \in Conversations, NEW job \in DispatcherJobs, Enqueue(c, job)
      PROVE  DispatcherInv'
  BY <1>2, EnqueueHolds
<1>3. ASSUME NEW c \in Conversations, c \in Active, JobSettles(c)
      PROVE  DispatcherInv'
  BY <1>3, JobSettlesHolds
<1>4. CASE BeginDispatcherDrain
  <2>1. idleWaiter' = (idleWaiter /\ ~Idle')
    BY <1>4 DEF BeginDispatcherDrain, NotifyIdle
  <2> QED
    BY <1>4, <2>1, DrainHolds DEF BeginDispatcherDrain, DispatcherInv, DispatcherTypeOK
<1>5. CASE DrainAndWait
  BY <1>5, DrainHolds DEF DrainAndWait
<1>6. CASE WhenIdle
  <2>1. UNCHANGED <<queues, activeTurn, draining>> /\ Idle' = Idle /\ Active' = Active
    BY <1>6 DEF WhenIdle, Idle, Active, QueuedTurns
  <2>2. idleWaiter' = (idleWaiter \/ ~Idle)
    BY <1>6 DEF WhenIdle
  <2> QED
    BY <2>1, <2>2 DEF DispatcherInv, DispatcherTypeOK, NobodyWaitsInVain, WaitingWorkHasARunner, IdleWaiterIsWoken
<1> QED
  BY <1>1, <1>2, <1>3, <1>4, <1>5, <1>6 DEF DispatcherNext

\* In any number of conversations, whatever jobs are enqueued and however they end
\* or a drain falls between them: a waiting job has one running that will pump it,
\* and nobody waits for a dispatcher that is already idle.
THEOREM NobodyEverWaitsInVain == DispatcherSpec => []NobodyWaitsInVain
<1>1. DispatcherInit => DispatcherInv
  <2> SUFFICES ASSUME DispatcherInit
               PROVE  DispatcherInv
    OBVIOUS
  <2>1. Active = {} /\ IsFiniteSet({})
    BY FS_EmptySet DEF DispatcherInit, Active
  <2>2. DispatcherTypeOK
    <3>1. <<>> \in Seq(DispatcherJobs)
      OBVIOUS
    <3> QED
      BY <3>1 DEF DispatcherInit, DispatcherTypeOK
  <2>3. NobodyWaitsInVain
    BY DEF DispatcherInit, NobodyWaitsInVain, WaitingWorkHasARunner, IdleWaiterIsWoken
  <2> QED
    BY <2>1, <2>2, <2>3 DEF DispatcherInit, DispatcherInv
<1>2. DispatcherInv /\ [DispatcherNext]_dispatcherVars => DispatcherInv'
  BY DispatcherStepHolds
<1>3. DispatcherInv => NobodyWaitsInVain
  BY DEF DispatcherInv
<1> QED
  BY <1>1, <1>2, <1>3, PTL DEF DispatcherSpec
===============================================================================
