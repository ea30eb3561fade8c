---------------------------- MODULE PromiseProofs ----------------------------
(***************************************************************************)
(* CommunicationRuntime implements EventPromise.  A transport event has at *)
(* most one turn, so what the promise says of the event is what the row of *)
(* that turn and its effects say; and every step of the runtime is, seen   *)
(* from there, one step of the promise or none.  Then the audit: what its  *)
(* events and rows say of each other, and that every step goes on with it. *)
(* Then the dispatcher: what its queue, its runner and its gate say of the *)
(* conversations, so that a call starts only where it is allowed.  Last    *)
(* the snapshots: the order of the contexts, from the line of a submission *)
(* to the checkpoint of its job, and the barriers of the turns in doubt.   *)
(***************************************************************************)
EXTENDS RuntimeProofs, SequenceTheorems

\* What the promise says of the event of a turn.
TurnView(t) ==
    [ phase   |-> IF turns[t].state = "completed" THEN "ended" ELSE "open",
      asked   |-> effects[t].llm,
      sent    |-> effects[t].delivery,
      answer  |-> effects[t].answer,
      verdict |-> IF turns[t].state = "completed" THEN turns[t].facts.delivery ELSE None ]

LEMMA CallsOfOne ==
    ASSUME NEW t, NEW n \in {0, 1}
    PROVE  Cardinality(UNION {{u} \X (1 .. n) : u \in {t}}) = n
<1>1. UNION {{u} \X (1 .. n) : u \in {t}} = {t} \X (1 .. n)
  OBVIOUS
<1>2. CASE n = 0
  <2>1. {t} \X (1 .. n) = {}
    BY <1>2
  <2> QED
    BY <1>1, <1>2, <2>1, FS_EmptySet
<1>3. CASE n = 1
  <2>1. {t} \X (1 .. n) = {<<t, 1>>}
    <3>1. 1 .. 1 = {1}
      OBVIOUS
    <3> QED
      BY <1>3, <3>1
  <2> QED
    BY <1>1, <1>3, <2>1, FS_Singleton
<1> QED
  BY <1>2, <1>3

\* An event nobody observed is unseen; the event of a turn is what its row says.
EventsAreViews ==
    \A key \in TransportKeys :
      /\ (\A t \in Turns : Present(t) => turns[t].key # key) => EventOf(key) = UnseenEvent
      /\ \A t \in Turns : Present(t) /\ turns[t].key = key => EventOf(key) = TurnView(t)

LEMMA EventsSeen == RuntimeInv => EventsAreViews
<1> SUFFICES ASSUME RuntimeInv, NEW key \in TransportKeys
             PROVE  /\ (\A t \in Turns : Present(t) => turns[t].key # key) => EventOf(key) = UnseenEvent
                    /\ \A t \in Turns : Present(t) /\ turns[t].key = key => EventOf(key) = TurnView(t)
  BY DEF EventsAreViews
<1>1. ASSUME \A t \in Turns : Present(t) => turns[t].key # key
      PROVE  EventOf(key) = UnseenEvent
  <2>1. TurnsOf(key) = {}
    BY <1>1 DEF TurnsOf
  <2> QED
    BY <2>1 DEF EventOf
<1>2. ASSUME NEW t \in Turns, Present(t), turns[t].key = key
      PROVE  EventOf(key) = TurnView(t)
  <2>1. TurnsOf(key) = {t}
    BY <1>2 DEF TurnsOf, RuntimeInv, OneTurnPerTransportEvent
  <2>2. (CHOOSE u \in TurnsOf(key) : TRUE) = t
    BY <2>1
  <2>3. effects[t].llm \in {0, 1} /\ effects[t].delivery \in {0, 1}
    BY DEF RuntimeInv, Typed, EffectRecords
  <2>4. /\ UNION {{u} \X (1 .. effects[u]["llm"]) : u \in TurnsOf(key)}
             = UNION {{u} \X (1 .. effects[t].llm) : u \in {t}}
        /\ UNION {{u} \X (1 .. effects[u]["delivery"]) : u \in TurnsOf(key)}
             = UNION {{u} \X (1 .. effects[t].delivery) : u \in {t}}
    BY <2>1
  <2>5. /\ Cardinality(UNION {{u} \X (1 .. effects[t].llm) : u \in {t}}) = effects[t].llm
        /\ Cardinality(UNION {{u} \X (1 .. effects[t].delivery) : u \in {t}}) = effects[t].delivery
    BY <2>3, CallsOfOne
  <2>6. /\ Cardinality(UNION {{u} \X (1 .. effects[u]["llm"]) : u \in TurnsOf(key)}) = effects[t].llm
        /\ Cardinality(UNION {{u} \X (1 .. effects[u]["delivery"]) : u \in TurnsOf(key)}) = effects[t].delivery
    BY Zenon, <2>4, <2>5
  <2> QED
    BY <2>1, <2>2, <2>6 DEF EventOf, TurnView
<1> QED
  BY <1>1, <1>2

----------------------------------------------------------------------------
\* The steps of the promise, taken on what the runtime shows of its events.
View == [key \in TransportKeys |-> EventOf(key)]
PromiseStep == [Promise!PromiseNext]_View

\* A step of the runtime writes the row, or the effects, of one turn that has a row.
OnlyTurn(t) ==
    /\ \A u \in Turns : u # t => turns'[u] = turns[u] /\ effects'[u] = effects[u]
    /\ Present(t) /\ turns'[t].state # "absent" /\ turns'[t].key = turns[t].key

LEMMA OneEventMoves ==
    ASSUME EventsAreViews, EventsAreViews', NEW t \in Turns, OnlyTurn(t), turns[t].key \in TransportKeys
    PROVE  View' = [View EXCEPT ![turns[t].key] = TurnView(t)'] /\ View[turns[t].key] = TurnView(t)
<1> DEFINE key == turns[t].key
<1>1. View[key] = TurnView(t) /\ (EventOf(key))' = TurnView(t)' /\ turns'[t].key = key
  BY DEF EventsAreViews, OnlyTurn, Present, View
<1>2. ASSUME NEW k \in TransportKeys, k # turns[t].key
      PROVE  EventOf(k)' = EventOf(k)
  <2>1. CASE \A u \in Turns : Present(u) => turns[u].key # k
    <3>1. \A u \in Turns : Present(u)' => turns'[u].key # k
      BY <1>2, <2>1 DEF OnlyTurn, Present
    <3> QED
      BY <2>1, <3>1 DEF EventsAreViews, UnseenEvent
  <2>2. ASSUME NEW u \in Turns, Present(u), turns[u].key = k
        PROVE  EventOf(k)' = EventOf(k)
    <3>1. turns'[u] = turns[u] /\ effects'[u] = effects[u]
      BY <1>2, <2>2 DEF OnlyTurn
    <3>2. EventOf(k) = TurnView(u)
      BY <2>2 DEF EventsAreViews
    <3>3. EventOf(k)' = TurnView(u)'
      BY <2>2, <3>1 DEF EventsAreViews, Present
    <3> QED
      BY <3>1, <3>2, <3>3 DEF TurnView
  <2> QED
    BY <2>1, <2>2
<1> QED
  BY <1>1, <1>2 DEF View, OnlyTurn

\* A turn whose view goes on as the promise says takes the step of the promise.
ViewGoesOn(t) ==
    LET view == TurnView(t) IN
    \/ TurnView(t)' = view
    \/ /\ view.phase = "open" /\ view.asked = 0
       /\ TurnView(t)' = [view EXCEPT !.asked = 1]
    \/ /\ view.phase = "open" /\ view.asked = 1 /\ view.sent = 0
       /\ TurnView(t)' = [view EXCEPT !.sent = 1]
    \/ \E answer \in DeliveryOutcomes \cup {"error"} :
         /\ view.sent = 1 /\ view.answer = None
         /\ TurnView(t)' = [view EXCEPT !.answer = answer]
    \/ \E verdict \in SettledDeliveries \cup {"not_started"} :
         /\ view.phase = "open"
         /\ verdict = "delivered" => view.answer = "delivered"
         /\ verdict = "failed" => view.answer = "known-failure"
         /\ verdict = "not_started" => view.sent = 0
         /\ verdict = "outcome_unknown" => view.asked = 1
         /\ TurnView(t)' = [view EXCEPT !.phase = "ended", !.verdict = verdict]

LEMMA TurnStepIsPromised ==
    ASSUME EventsAreViews, EventsAreViews', NEW t \in Turns, OnlyTurn(t), ViewGoesOn(t)
    PROVE  PromiseStep
<1> DEFINE key == turns[t].key
           view == TurnView(t)
           next == TurnView(t)'
<1>1. CASE key \notin TransportKeys
  <2>1. ASSUME NEW k \in TransportKeys
        PROVE  EventOf(k)' = EventOf(k)
    <3>1. CASE \A u \in Turns : Present(u) => turns[u].key # k
      <4>1. \A u \in Turns : Present(u)' => turns'[u].key # k
        BY <1>1, <2>1, <3>1 DEF OnlyTurn, Present
      <4> QED
        BY <3>1, <4>1 DEF EventsAreViews, UnseenEvent
    <3>2. ASSUME NEW u \in Turns, Present(u), turns[u].key = k
          PROVE  EventOf(k)' = EventOf(k)
      <4>1. turns'[u] = turns[u] /\ effects'[u] = effects[u]
        BY <1>1, <3>2 DEF OnlyTurn
      <4>2. EventOf(k) = TurnView(u)
        BY <3>2 DEF EventsAreViews
      <4>3. EventOf(k)' = TurnView(u)'
        BY <3>2, <4>1 DEF EventsAreViews, Present
      <4> QED
        BY <4>1, <4>2, <4>3 DEF TurnView
    <3> QED
      BY <3>1, <3>2
  <2> QED
    BY <2>1 DEF PromiseStep, View
<1>2. CASE key \in TransportKeys
  <2>1. View' = [View EXCEPT ![key] = next] /\ View[key] = view
    BY <1>2, OneEventMoves
  <2>2. View = [k \in TransportKeys |-> View[k]]
    BY DEF View
  <2> HIDE DEF view, next
  <2>3. CASE next = view
    BY <1>2, <2>1, <2>2, <2>3 DEF PromiseStep
  <2>4. CASE view.phase = "open" /\ view.asked = 0 /\ next = [view EXCEPT !.asked = 1]
    <3>1. Promise!Ask(key)
      BY <2>1, <2>4 DEF Promise!Ask, Promise!Update, View
    <3> QED
      BY <1>2, <3>1 DEF PromiseStep, Promise!PromiseNext
  <2>5. CASE view.phase = "open" /\ view.asked = 1 /\ view.sent = 0 /\ next = [view EXCEPT !.sent = 1]
    <3>1. Promise!Send(key)
      BY <2>1, <2>5 DEF Promise!Send, Promise!Update, View
    <3> QED
      BY <1>2, <3>1 DEF PromiseStep, Promise!PromiseNext
  <2>6. ASSUME NEW answer \in DeliveryOutcomes \cup {"error"}, view.sent = 1, view.answer = None,
               next = [view EXCEPT !.answer = answer]
        PROVE  PromiseStep
    <3>1. Promise!Answer(key, answer) /\ answer \in Promise!Answers
      BY <2>1, <2>6 DEF Promise!Answer, Promise!Update, View, Promise!Answers, DeliveryOutcomes
    <3> QED
      BY <1>2, <3>1 DEF PromiseStep, Promise!PromiseNext
  <2>7. ASSUME NEW verdict \in SettledDeliveries \cup {"not_started"}, view.phase = "open",
               verdict = "delivered" => view.answer = "delivered",
               verdict = "failed" => view.answer = "known-failure",
               verdict = "not_started" => view.sent = 0,
               verdict = "outcome_unknown" => view.asked = 1,
               next = [view EXCEPT !.phase = "ended", !.verdict = verdict]
        PROVE  PromiseStep
    <3>1. Promise!Conclude(key, verdict) /\ verdict \in Promise!Verdicts
      BY <2>1, <2>7 DEF Promise!Conclude, Promise!Update, View, Promise!Verdicts, SettledDeliveries
    <3> QED
      BY <1>2, <3>1 DEF PromiseStep, Promise!PromiseNext
  <2>8. \/ next = view
        \/ view.phase = "open" /\ view.asked = 0 /\ next = [view EXCEPT !.asked = 1]
        \/ view.phase = "open" /\ view.asked = 1 /\ view.sent = 0 /\ next = [view EXCEPT !.sent = 1]
        \/ \E answer \in DeliveryOutcomes \cup {"error"} :
             view.sent = 1 /\ view.answer = None /\ next = [view EXCEPT !.answer = answer]
        \/ \E verdict \in SettledDeliveries \cup {"not_started"} :
             /\ view.phase = "open"
             /\ verdict = "delivered" => view.answer = "delivered"
             /\ verdict = "failed" => view.answer = "known-failure"
             /\ verdict = "not_started" => view.sent = 0
             /\ verdict = "outcome_unknown" => view.asked = 1
             /\ next = [view EXCEPT !.phase = "ended", !.verdict = verdict]
    BY DEF ViewGoesOn, view, next
  <2> QED
    BY <2>3, <2>4, <2>5, <2>6, <2>7, <2>8
<1> QED
  BY <1>1, <1>2

\* An observation that is no duplicate is the first the promise sees of its event.
LEMMA ObservationIsPromised ==
    ASSUME EventsAreViews, EventsAreViews', NEW t \in Turns, NEW key \in TransportKeys,
           ~AlreadyObserved(key), ~Present(t), turns \in [Turns -> Rows],
           turns' = [turns EXCEPT ![t] = ObservedRow(key)], effects' = effects, effects[t] = NoEffects
    PROVE  PromiseStep
<1>1. /\ turns'[t].state = "observed" /\ turns'[t].key = key
      /\ \A u \in Turns : u # t => turns'[u] = turns[u]
  BY NewRow
<1>2. EventOf(key) = UnseenEvent
  BY DEF EventsAreViews, AlreadyObserved
<1>3. EventOf(key)' = TurnView(t)'
  BY <1>1 DEF EventsAreViews, Present
<1>4. TurnView(t)' = [UnseenEvent EXCEPT !.phase = "open"]
  BY <1>1 DEF TurnView, UnseenEvent, NoEffects
<1>5. ASSUME NEW k \in TransportKeys, k # key
      PROVE  EventOf(k)' = EventOf(k)
  <2>1. CASE \A u \in Turns : Present(u) => turns[u].key # k
    <3>1. \A u \in Turns : Present(u)' => turns'[u].key # k
      BY <1>1, <1>5, <2>1 DEF Present
    <3> QED
      BY <2>1, <3>1 DEF EventsAreViews, UnseenEvent
  <2>2. ASSUME NEW u \in Turns, Present(u), turns[u].key = k
        PROVE  EventOf(k)' = EventOf(k)
    <3>1. turns'[u] = turns[u] /\ effects'[u] = effects[u]
      BY <1>1, <2>2 DEF Present
    <3>2. EventOf(k) = TurnView(u)
      BY <2>2 DEF EventsAreViews
    <3>3. EventOf(k)' = TurnView(u)'
      BY <2>2, <3>1 DEF EventsAreViews, Present
    <3> QED
      BY <3>1, <3>2, <3>3 DEF TurnView
  <2> QED
    BY <2>1, <2>2
<1>6. View' = [View EXCEPT ![key] = [View[key] EXCEPT !.phase = "open"]] /\ View[key].phase = "unseen"
  <2>1. View[key] = UnseenEvent /\ UnseenEvent.phase = "unseen"
    BY <1>2 DEF View, UnseenEvent
  <2> DEFINE next == [View[key] EXCEPT !.phase = "open"]
  <2>2. EventOf(key)' = next
    BY <1>3, <1>4, <2>1
  <2> HIDE DEF next
  <2>3. View' = [View EXCEPT ![key] = next]
    BY <1>5, <2>2 DEF View
  <2> QED
    BY <2>1, <2>3 DEF next
<1>7. Promise!See(key)
  BY <1>6 DEF Promise!See, Promise!Update, View
<1> QED
  BY <1>7 DEF PromiseStep, Promise!PromiseNext

----------------------------------------------------------------------------
\* Every step of the runtime is such a step.

\* No write reaches a row that is completed, and none but the authentication binds it.
RowGoesOn(u) ==
    \/ turns'[u] = turns[u]
    \/ /\ Present(u) /\ turns[u].state # "completed"
       /\ turns'[u].state # "absent" /\ turns'[u].key = turns[u].key
       /\ submissions[u].stage # "authenticate" => turns'[u].conversation = turns[u].conversation
       /\ \A v \in Turns : v # u => turns'[v] = turns[v]

RowsGoOn == \A u \in Turns : RowGoesOn(u)

\* A write without effects shows only when it completes the turn.
LEMMA WriteIsPromised ==
    ASSUME RuntimeInv, RuntimeInv', EventsAreViews, EventsAreViews', RowsGoOn, UNCHANGED effects
    PROVE  PromiseStep
<1>1. CASE \A u \in Turns : turns'[u] = turns[u]
  <2>1. turns' = turns
    BY <1>1 DEF RuntimeInv, Typed
  <2>2. \A k : EventOf(k)' = EventOf(k)
    BY <2>1 DEF EventOf, TurnsOf, Present
  <2> QED
    BY <2>2 DEF PromiseStep, View
<1>2. ASSUME NEW t \in Turns, turns'[t] # turns[t]
      PROVE  PromiseStep
  <2>1. OnlyTurn(t) /\ turns[t].state # "completed"
    BY <1>2 DEF RowsGoOn, RowGoesOn, OnlyTurn
  <2>2. effects[t].llm \in {0, 1} /\ effects[t].delivery \in {0, 1} /\ effects'[t] = effects[t]
    BY DEF RuntimeInv, Typed, EffectRecords
  <2>3. CASE turns'[t].state # "completed"
    <3>1. TurnView(t)' = TurnView(t)
      BY <2>1, <2>2, <2>3 DEF TurnView
    <3> QED
      BY <2>1, <3>1, TurnStepIsPromised DEF ViewGoesOn
  <2>4. CASE turns'[t].state = "completed"
    <3> DEFINE verdict == turns'[t].facts.delivery
               view == TurnView(t)
    <3>1. RowInv(t)'
      BY DEF RuntimeInv, TurnInv
    <3>2. /\ verdict \in SettledDeliveries \cup {"not_started"}
          /\ verdict = "delivered" => effects[t].answer = "delivered"
          /\ verdict = "failed" => effects[t].answer = "known-failure"
          /\ verdict \in SettledDeliveries => effects[t].llm = 1
          /\ effects[t].delivery = 1 => verdict \in SettledDeliveries
      BY <2>2, <2>4, <3>1 DEF RowInv, Settled, DeliveryStates, EndedDelivery
    <3>3. /\ view.phase = "open" /\ view.asked = effects[t].llm /\ view.sent = effects[t].delivery
          /\ view.answer = effects[t].answer
          /\ TurnView(t)' = [view EXCEPT !.phase = "ended", !.verdict = verdict]
      <4>1. view = [phase |-> "open", asked |-> effects[t].llm, sent |-> effects[t].delivery,
                    answer |-> effects[t].answer, verdict |-> None]
        BY <2>1 DEF TurnView
      <4>2. TurnView(t)' = [phase |-> "ended", asked |-> effects[t].llm, sent |-> effects[t].delivery,
                            answer |-> effects[t].answer, verdict |-> verdict]
        BY <2>2, <2>4 DEF TurnView
      <4> DEFINE ended == [view EXCEPT !.phase = "ended"]
      <4> HIDE DEF verdict
      <4>3. ended = [phase |-> "ended", asked |-> effects[t].llm, sent |-> effects[t].delivery,
                     answer |-> effects[t].answer, verdict |-> None]
        <5> HIDE DEF view
        <5> QED
          BY <4>1
      <4>4. TurnView(t)' = [ended EXCEPT !.verdict = verdict]
        <5> HIDE DEF ended
        <5> QED
          BY <4>2, <4>3
      <4> QED
        BY <4>1, <4>4
    <3> HIDE DEF verdict, view
    <3>4. "not_started" \notin SettledDeliveries /\ "outcome_unknown" \in SettledDeliveries
      BY DEF SettledDeliveries
    <3>5. ViewGoesOn(t)
      BY <2>2, <3>2, <3>3, <3>4 DEF ViewGoesOn, view
    <3> QED
      BY <2>1, <3>5, TurnStepIsPromised
  <2> QED
    BY <2>3, <2>4
<1> QED
  BY <1>1, <1>2

\* The calls of the ledger reach no completed row: a completed state has no move,
\* and whoever tells facts holds a revision at which it was not.
LEMMA MovesGoOn ==
    ASSUME Typed, NEW t \in Turns, NEW revision, NEW from, NEW to \in TurnStates, Transition(t, revision, from, to)
    PROVE  RowsGoOn
<1>1. turns \in [Turns -> Rows] /\ turns[t] \in Rows
  BY DEF Typed
<1>2. CASE TransitionOutcome(t, revision, from, to) # "transitioned"
  BY <1>2 DEF Transition, RowsGoOn, RowGoesOn
<1>3. CASE TransitionOutcome(t, revision, from, to) = "transitioned"
  <2>1. Present(t) /\ turns[t].state = from /\ to \in LegalTransitions[from] /\ from # "completed"
    BY <1>3 DEF TransitionOutcome, LegalTransitions
  <2>2. turns' = [turns EXCEPT ![t] = MovedTo(turns[t], to)]
    BY <1>3 DEF Transition
  <2>3. /\ MovedTo(turns[t], to).state = to /\ MovedTo(turns[t], to).key = turns[t].key /\ to # "absent"
        /\ MovedTo(turns[t], to).conversation = turns[t].conversation
    BY <1>1 DEF MovedTo, Rows, TurnStates
  <2> QED
    BY <1>1, <2>1, <2>2, <2>3 DEF RowsGoOn, RowGoesOn
<1> QED
  BY <1>2, <1>3

LEMMA FactsGoOn ==
    ASSUME Typed, NEW t \in Turns, NEW revision, NEW facts, RecordFactualOutcome(t, revision, facts),
           revision = turns[t].revision => turns[t].state # "completed"
    PROVE  RowsGoOn
<1>1. turns \in [Turns -> Rows] /\ turns[t] \in Rows
  BY DEF Typed
<1>2. CASE RecordFactualOutcomeKind(t, revision, facts) # "recorded"
  BY <1>2 DEF RecordFactualOutcome, RowsGoOn, RowGoesOn
<1>3. CASE RecordFactualOutcomeKind(t, revision, facts) = "recorded"
  <2>1. Present(t) /\ turns[t].revision = revision
    BY <1>3 DEF RecordFactualOutcomeKind
  <2>2. turns' = [turns EXCEPT ![t] = WithFacts(turns[t], facts)]
    BY <1>3 DEF RecordFactualOutcome
  <2>3. /\ WithFacts(turns[t], facts).state = turns[t].state /\ WithFacts(turns[t], facts).key = turns[t].key
        /\ WithFacts(turns[t], facts).conversation = turns[t].conversation
    BY <1>1 DEF WithFacts, Rows
  <2> QED
    BY <1>1, <2>1, <2>2, <2>3 DEF RowsGoOn, RowGoesOn, Present
<1> QED
  BY <1>2, <1>3

\* The job of a turn, at whatever stage, does not believe it completed.
LEMMA NeverBelievedComplete ==
    ASSUME RuntimeInv, NEW t \in Turns, Working(t), jobs[t].revision = turns[t].revision
    PROVE  turns[t].state # "completed"
<1>1. turns[t].state = StateAt(jobs[t].stage, jobs[t])
  BY DEF RuntimeInv, TurnInv, JobInv
<1>2. FinalState(jobs[t]) # "completed"
  BY DEF FinalState
<1>3. StateAt(jobs[t].stage, jobs[t]) # "completed"
  BY <1>2 DEF StateAt
<1> QED
  BY <1>1, <1>3

\* The two calls and the answer of the transport.
LEMMA CallsArePromised ==
    ASSUME RuntimeInv, RuntimeInv', EventsAreViews, EventsAreViews', NEW t \in Turns,
           InvokeLlm(t) \/ InvokeDelivery(t) \/ \E result \in DeliveryOutcomes \cup {"error"} : DeliverySettles(t, result)
    PROVE  PromiseStep
<1>1. /\ Typed /\ TurnInv(t) /\ effects \in [Turns -> EffectRecords] /\ effects[t] \in EffectRecords
      /\ UNCHANGED turns
  BY DEF RuntimeInv, Typed, InvokeLlm, InvokeDelivery, DeliverySettles, storeVars, ledgerVars
<1>2. CASE effects' = effects
  BY <1>1, <1>2, WriteIsPromised DEF RowsGoOn, RowGoesOn
<1>3. ASSUME effects' = [effects EXCEPT ![t] = effects'[t]], Present(t)
      PROVE  OnlyTurn(t)
  BY <1>1, <1>3 DEF OnlyTurn, Present
<1>4. CASE InvokeLlm(t) /\ effects' # effects
  <2>1. jobs[t].stage = "llm-call" /\ GenerationCurrent(t) /\ effects' = [effects EXCEPT ![t].llm = @ + 1]
    BY <1>4 DEF InvokeLlm, At
  <2>2. turns[t].state = "llm_started" /\ effects[t] = NoEffects
    <3>1. effects[t] = NoEffects
      BY <1>1, <2>1 DEF TurnInv, EffectsInv, EffectsAt, UnaskedStages
    <3>2. turns[t].state = StateAt("llm-call", jobs[t])
      BY <1>1, <2>1 DEF TurnInv, JobInv, Working, GenerationCurrent
    <3> QED
      BY <2>1, <3>1, <3>2 DEF StateAt, UnaskedStages, UnknownStages
  <2>3. effects'[t] = [NoEffects EXCEPT !.llm = 1] /\ effects' = [effects EXCEPT ![t] = effects'[t]]
    BY <1>1, <2>1, <2>2 DEF NoEffects
  <2>4. TurnView(t).phase = "open" /\ TurnView(t).asked = 0 /\ TurnView(t)' = [TurnView(t) EXCEPT !.asked = 1]
    BY <1>1, <2>2, <2>3 DEF TurnView, NoEffects
  <2> QED
    BY <1>3, <2>2, <2>3, <2>4, TurnStepIsPromised DEF ViewGoesOn, Present
<1>5. CASE InvokeDelivery(t) /\ effects' # effects
  <2>1. /\ jobs[t].stage = "delivery-call" /\ GenerationCurrent(t)
        /\ effects' = [effects EXCEPT ![t].delivery = @ + 1]
    BY <1>5 DEF InvokeDelivery, At
  <2>2. turns[t].state = "delivery_started" /\ effects[t].llm = 1 /\ effects[t].delivery = 0
    BY <1>1, <2>1 DEF TurnInv, JobInv, EffectsInv, EffectsAt, Working, StateAt, UnaskedStages, UnsentStages
  <2>3. /\ effects'[t] = [effects[t] EXCEPT !.delivery = 1]
        /\ effects' = [effects EXCEPT ![t] = effects'[t]]
    BY <1>1, <2>1, <2>2
  <2>4. /\ TurnView(t).phase = "open" /\ TurnView(t).asked = 1 /\ TurnView(t).sent = 0
        /\ TurnView(t)' = [TurnView(t) EXCEPT !.sent = 1]
    BY <1>1, <2>2, <2>3 DEF TurnView, EffectRecords
  <2> QED
    BY <1>3, <2>2, <2>3, <2>4, TurnStepIsPromised DEF ViewGoesOn, Present
<1>6. ASSUME NEW result \in DeliveryOutcomes \cup {"error"}, DeliverySettles(t, result)
      PROVE  PromiseStep
  <2>1. jobs[t].stage = "delivery-wait" /\ effects' = [effects EXCEPT ![t].answer = result]
    BY <1>6 DEF DeliverySettles, At
  <2>2. effects[t].delivery = 1 /\ effects[t].answer = None
    BY <1>1, <2>1 DEF TurnInv, EffectsInv, EffectsAt
  <2>3. Present(t)
    BY <1>1, <2>2 DEF TurnInv, RowInv, DeliveryStates, EndedDelivery, Present
  <2>4. effects'[t] = [effects[t] EXCEPT !.answer = result] /\ effects' = [effects EXCEPT ![t] = effects'[t]]
    BY <1>1, <2>1
  <2>5. /\ TurnView(t).sent = 1 /\ TurnView(t).answer = None
        /\ TurnView(t)' = [TurnView(t) EXCEPT !.answer = result]
    BY <1>1, <2>2, <2>4 DEF TurnView, EffectRecords
  <2>6. ViewGoesOn(t)
    BY <2>5 DEF ViewGoesOn
  <2> QED
    BY <1>3, <2>3, <2>4, <2>6, TurnStepIsPromised
<1> QED
  BY <1>2, <1>4, <1>5, <1>6

\* The other steps of a job write at most the row, and not a completed one.
LEMMA JobsGoOn ==
    ASSUME RuntimeInv, NEW t \in Turns, TextTurnStep(t) \/ PhaseFails(t) \/ Deadline(t),
           ~InvokeLlm(t), ~InvokeDelivery(t), \A result \in DeliveryOutcomes \cup {"error"} : ~DeliverySettles(t, result)
    PROVE  RowsGoOn /\ UNCHANGED effects
<1>1. Typed /\ JobTyped(jobs[t])
  BY DEF RuntimeInv, Typed
<1>2. ASSUME NEW from, NEW to \in TurnStates, NEW stage, Move(t, from, to, stage)
      PROVE  RowsGoOn /\ UNCHANGED effects
  BY <1>1, <1>2, MovesGoOn DEF Move, LedgerCall, NoEffect
<1>3. ASSUME NEW facts, NEW stage, WriteFacts(t, facts, stage), Working(t)
      PROVE  RowsGoOn /\ UNCHANGED effects
  BY <1>1, <1>3, FactsGoOn, NeverBelievedComplete DEF WriteFacts, LedgerCall, NoEffect
<1>4. ASSUME UNCHANGED <<ledgerVars, effects>>
      PROVE  RowsGoOn /\ UNCHANGED effects
  BY <1>4 DEF RowsGoOn, RowGoesOn, ledgerVars
<1>5. FinalState(jobs[t]) \in TurnStates
  BY DEF FinalState, TurnStates
<1>6. CASE CancelAtGate(t) \/ CompleteAtGate(t) \/ StartLlm(t) \/ CancelUnknownLlm(t) \/ RecordKnownFailure(t)
           \/ CompleteKnownFailure(t) \/ PrepareNotice(t) \/ RecordLlmCompleted(t) \/ ValidateOutput(t)
           \/ StartDelivery(t) \/ MoveToDeliveryUnknown(t) \/ MoveToProven(t) \/ CompleteTurn(t)
  BY <1>2, <1>5, <1>6 DEF CancelAtGate, CompleteAtGate, StartLlm, CancelUnknownLlm, RecordKnownFailure,
     CompleteKnownFailure, PrepareNotice, RecordLlmCompleted, ValidateOutput, StartDelivery, MoveToDeliveryUnknown,
     MoveToProven, CompleteTurn, TurnStates
<1>7. CASE RecordLlmUnknown(t) \/ RecordKnownFailureFacts(t) \/ RecordDeliveryUnknown(t) \/ RecordProvenDelivery(t)
           \/ RecordCheckpointSucceeded(t) \/ RecordCheckpointFailed(t) \/ RecordCompletionFacts(t)
  BY <1>3, <1>7 DEF RecordLlmUnknown, RecordKnownFailureFacts, RecordDeliveryUnknown, RecordProvenDelivery,
     RecordCheckpointSucceeded, RecordCheckpointFailed, RecordCompletionFacts, At, Working
<1>8. CASE ReadKillSwitch(t) \/ EvaluateGate(t) \/ (\E result \in OfferedLlmResults : LlmSettles(t, result))
           \/ LoadForCheckpoint(t) \/ LoadForBarrier(t) \/ PhaseFails(t) \/ Deadline(t)
  BY <1>4, <1>8 DEF ReadKillSwitch, EvaluateGate, LlmSettles, LoadForCheckpoint, LoadForBarrier, PhaseFails, Deadline,
     storeVars, NoEffect
<1>9. CASE RecordAuditStart(t) \/ PutOutput(t) \/ RecordOutboxOutcome(t) \/ RecordOutboxUnknown(t)
           \/ WriteCheckpoint(t) \/ WriteBarrier(t) \/ RecordAuditCompletion(t)
  BY <1>4, <1>9 DEF RecordAuditStart, PutOutput, RecordOutboxOutcome, RecordOutboxUnknown, WriteCheckpoint,
     WriteBarrier, RecordAuditCompletion, AuditCall, OutboxCall, ConversationCall, NoEffect
<1> QED
  BY <1>6, <1>7, <1>8, <1>9 DEF TextTurnStep

\* Recovery writes only the row of its candidate, and holds it no longer than it is
\* unfinished.
LEMMA RecoveryRowsGoOn ==
    ASSUME RuntimeInv, Recover
    PROVE  RowsGoOn /\ UNCHANGED effects
<1>1. ASSUME UNCHANGED <<ledgerVars, effects>>
      PROVE  RowsGoOn /\ UNCHANGED effects
  BY <1>1 DEF RowsGoOn, RowGoesOn, ledgerVars
<1>2. ASSUME NEW from, NEW to \in TurnStates, NEW stage, AtCandidate, RecoveryMove(from, to, stage)
      PROVE  RowsGoOn /\ UNCHANGED effects
  <2>1. PICK t \in Turns : t = Candidate
    BY <1>2, CandidateFacts
  <2>2. Transition(t, recovery.revision, from, to) /\ UNCHANGED effects
    BY <1>2, <2>1 DEF RecoveryMove, LedgerCall, NoEffect
  <2> QED
    BY <2>2, MovesGoOn DEF RuntimeInv
<1>3. ASSUME NEW facts, NEW stage, AtCandidate, RecoveryFacts(facts, stage)
      PROVE  RowsGoOn /\ UNCHANGED effects
  <2>1. PICK t \in Turns : t = Candidate
    BY <1>3, CandidateFacts
  <2>2. RecordFactualOutcome(t, recovery.revision, facts) /\ UNCHANGED effects
    BY <1>3, <2>1 DEF RecoveryFacts, LedgerCall, NoEffect
  <2>3. recovery.revision = turns[t].revision => turns[t].state # "completed"
    BY <1>3, <2>1, CandidateFacts
  <2> QED
    BY <2>2, <2>3, FactsGoOn DEF RuntimeInv
<1>4. CASE CancelCandidate \/ CompleteCandidate \/ RecoverLlmCancel \/ RecoverDeliveryMove
  BY <1>2, <1>4 DEF CancelCandidate, CompleteCandidate, RecoverLlmCancel, RecoverDeliveryMove, Recovering, AtCandidate,
     TurnStates
<1>5. CASE RecoverLlmFacts \/ RecoverDeliveryFacts \/ ReconcileFailed \/ ReconcileFacts
  BY <1>3, <1>5 DEF RecoverLlmFacts, RecoverDeliveryFacts, ReconcileFailed, ReconcileFacts, Recovering, AtCandidate
<1>6. CASE ListCandidates \/ PageIsDone \/ (\E t \in Turns : PickCandidate(t)) \/ RecoverOutbox \/ AssessCheckpoint
           \/ RecoverBarrierLoad \/ ReconcileContradiction \/ ReconcileRecorded \/ RecoveryFails
  BY <1>1, <1>6 DEF ListCandidates, PageIsDone, PickCandidate, RecoverOutbox, AssessCheckpoint, RecoverBarrierLoad,
     ReconcileContradiction, ReconcileRecorded, RecoveryFails, storeVars, NoEffect
<1>7. CASE RecoverTombstone \/ RecoverBarrierWrite \/ ReconcileAudit
  BY <1>1, <1>7 DEF RecoverTombstone, RecoverBarrierWrite, ReconcileAudit, OutboxCall, ConversationCall, AuditCall,
     NoEffect
<1> QED
  BY <1>4, <1>5, <1>6, <1>7 DEF Recover, RecoveryStep

\* Before the job: the submission moves the row through its first states.
LEMMA SubmissionMoves ==
    ASSUME RuntimeInv, NEW t \in Turns, Authenticate(t) \/ Accept(t) \/ Queue(t)
    PROVE  \/ turns' = turns
           \/ \E to \in {"authenticated", "accepted", "queued"} :
                turns[t].state \in TurnStates /\ to \in LegalTransitions[turns[t].state] /\ RowMoved(t, to)
<1>1. Typed /\ turns \in [Turns -> Rows] /\ turns[t] \in Rows /\ submissions[t] \in SubmissionRecords
  BY DEF RuntimeInv, Typed
<1> DEFINE home == submissions[t].conversation
           place == NextSequence(turns[t].conversation)
<1>2. CASE Queue(t)
  <2>1. Transition(t, submissions[t].revision, "accepted", "queued")
    BY <1>2 DEF Queue
  <2> QED
    BY <1>1, <2>1, TransitionEffect DEF TurnStates
<1>3. ASSUME NEW to \in {"authenticated", "accepted"}, turns[t].state \in TurnStates,
             to \in LegalTransitions[turns[t].state], ~Exhausted(turns[t].revision),
             turns' = [turns EXCEPT ![t] = CASE to = "authenticated" -> [MovedTo(turns[t], to) EXCEPT !.conversation = home]
                                             [] OTHER -> [MovedTo(turns[t], to) EXCEPT !.sequence = place]],
             to = "accepted" => place \in 0 .. MaxSafeInteger
      PROVE  RowMoved(t, to)
  <2> DEFINE moved == MovedTo(turns[t], to)
             bound == [moved EXCEPT !.conversation = home]
             placed == [moved EXCEPT !.sequence = place]
  <2>1. turns[t].revision < MaxSafeInteger /\ to \in TurnStates
    BY <1>1, <1>3, ConstantsAssumption DEF Exhausted, Rows, TurnStates
  <2>2. /\ moved \in Rows /\ moved.state = to /\ moved.revision = turns[t].revision + 1
        /\ moved.key = turns[t].key /\ moved.facts = turns[t].facts
    BY <1>1, <2>1, MovedRow
  <2>3. home \in Conversations \cup {None}
    BY <1>1 DEF SubmissionRecords
  <2>4. turns' = [turns EXCEPT ![t] = IF to = "authenticated" THEN bound ELSE placed]
    BY <1>3
  <2> HIDE DEF moved, home, place
  <2>5. /\ bound \in Rows /\ bound.state = to /\ bound.revision = turns[t].revision + 1
        /\ bound.key = turns[t].key /\ bound.facts = turns[t].facts
    BY <2>2, <2>3 DEF Rows
  <2>6. to = "accepted" =>
          /\ placed \in Rows /\ placed.state = to /\ placed.revision = turns[t].revision + 1
          /\ placed.key = turns[t].key /\ placed.facts = turns[t].facts
    BY <1>3, <2>2 DEF Rows
  <2> HIDE DEF bound, placed
  <2> QED
    BY <1>1, <1>3, <2>4, <2>5, <2>6 DEF RowMoved
<1>4. CASE Authenticate(t)
  <2> DEFINE kind == RecordAuthenticationOutcome(t, submissions[t].revision, "authenticated")
  <2>1. \/ turns' = turns
        \/ kind = "recorded" /\ turns' = [turns EXCEPT ![t] = AuthenticatedRow(turns[t], "authenticated", home)]
    BY <1>4 DEF Authenticate, RecordAuthenticationResult, ledgerVars
  <2>2. CASE kind = "recorded" /\ turns' = [turns EXCEPT ![t] = AuthenticatedRow(turns[t], "authenticated", home)]
    <3>1. /\ "authenticated" \in LegalTransitions[turns[t].state] /\ turns[t].state \in TurnStates
          /\ ~Exhausted(turns[t].revision)
      BY <1>1, <2>2 DEF RecordAuthenticationOutcome, Present, Rows
    <3>2. AuthenticatedRow(turns[t], "authenticated", home) = [MovedTo(turns[t], "authenticated") EXCEPT !.conversation = home]
      BY DEF AuthenticatedRow
    <3> QED
      BY <1>3, <2>2, <3>1, <3>2
  <2> QED
    BY <2>1, <2>2
<1>5. CASE Accept(t)
  <2> DEFINE kind == AcceptOutcome(t, submissions[t].revision)
  <2>1. \/ turns' = turns
        \/ kind = "accepted" /\ turns' = [turns EXCEPT ![t] = AcceptedRow(turns[t], place)]
    BY <1>5 DEF Accept, AcceptConversationTurn
  <2>2. CASE kind = "accepted" /\ turns' = [turns EXCEPT ![t] = AcceptedRow(turns[t], place)]
    <3>1. /\ "accepted" \in LegalTransitions[turns[t].state] /\ turns[t].state \in TurnStates
          /\ ~Exhausted(turns[t].revision)
      BY <1>1, <2>2 DEF AcceptOutcome, Present, Rows
    <3>2. AcceptedRow(turns[t], place) = [MovedTo(turns[t], "accepted") EXCEPT !.sequence = place]
      BY DEF AcceptedRow
    <3>3. place \in 0 .. MaxSafeInteger
      BY <1>1, <2>2, ConstantsAssumption DEF AcceptOutcome, NextSequence, Rows, Typed
    <3> QED
      BY <1>3, <2>2, <3>1, <3>2, <3>3
  <2> QED
    BY <2>1, <2>2
<1> QED
  BY <1>2, <1>4, <1>5

\* Only the authentication binds a row to a conversation.
LEMMA HomeIsKept ==
    ASSUME RuntimeInv, NEW t \in Turns, Accept(t) \/ Queue(t)
    PROVE  turns'[t].conversation = turns[t].conversation
<1>1. turns \in [Turns -> Rows] /\ turns[t] \in Rows
  BY DEF RuntimeInv, Typed
<1>2. \A to \in {"accepted", "queued"} : \A place :
        /\ MovedTo(turns[t], to).conversation = turns[t].conversation
        /\ [MovedTo(turns[t], to) EXCEPT !.sequence = place].conversation = turns[t].conversation
  BY <1>1 DEF MovedTo, Rows
<1> QED
  BY <1>1, <1>2 DEF Accept, AcceptConversationTurn, AcceptedRow, Queue, Transition

\* A submission writes the row it observed, which nobody has completed.
LEMMA SubmissionGoesItsWay ==
    ASSUME RuntimeInv, NEW t \in Turns, Authenticate(t) \/ Accept(t) \/ Queue(t)
    PROVE  RowsGoOn /\ UNCHANGED effects
<1>1. UNCHANGED effects /\ turns \in [Turns -> Rows]
  BY DEF RuntimeInv, Typed, Authenticate, Accept, Queue, SubmissionQuiet, pipelineVars
<1>2. CASE turns' = turns
  BY <1>1, <1>2 DEF RowsGoOn, RowGoesOn
<1>3. ASSUME NEW to \in {"authenticated", "accepted", "queued"}, turns[t].state \in TurnStates,
             to \in LegalTransitions[turns[t].state], RowMoved(t, to)
      PROVE  RowsGoOn
  <2>1. Present(t) /\ turns[t].state # "completed"
    BY <1>3 DEF LegalTransitions, TurnStates, Present
  <2>2. submissions[t].stage # "authenticate" => turns'[t].conversation = turns[t].conversation
    BY HomeIsKept DEF Authenticate, SubmissionAt
  <2> QED
    BY <1>1, <1>3, <2>1, <2>2 DEF RowsGoOn, RowGoesOn, RowMoved
<1> QED
  BY <1>1, <1>2, <1>3, SubmissionMoves

\* The steps that reach neither the ledger nor the model nor the transport.
LEMMA OtherStepsAreQuiet ==
    ASSUME \/ Start \/ StartReturns \/ CloseReturns \/ Crash \/ UNCHANGED runtimeVars
           \/ \E close \in BOOLEAN : BeginDrain(close)
           \/ \E t \in Turns :
                \/ \E c \in Conversations : Bind(t, c)
                \/ BindingFails(t) \/ Publish(t) \/ SubmissionFails(t) \/ JobFails(t) \/ JobEnds(t)
    PROVE  RowsGoOn /\ UNCHANGED effects
<1>1. UNCHANGED <<turns, effects>>
  <2>1. CASE Start \/ StartReturns \/ CloseReturns \/ Crash \/ UNCHANGED runtimeVars
             \/ \E close \in BOOLEAN : BeginDrain(close)
    BY <2>1 DEF Start, StartReturns, CloseReturns, Crash, BeginDrain, runtimeVars, storeVars, ledgerVars, pipelineVars
  <2>2. ASSUME NEW t \in Turns,
               \/ \E c \in Conversations : Bind(t, c)
               \/ BindingFails(t) \/ Publish(t) \/ SubmissionFails(t) \/ JobFails(t) \/ JobEnds(t)
        PROVE  UNCHANGED <<turns, effects>>
    BY <2>2 DEF Bind, BindingFails, Publish, SubmissionFails, JobFails, JobEnds, SubmissionQuiet, storeVars,
       ledgerVars, pipelineVars
  <2> QED
    BY <2>1, <2>2
<1> QED
  BY <1>1 DEF RowsGoOn, RowGoesOn

LEMMA ObserveIsPromised ==
    ASSUME RuntimeInv, RuntimeInv', EventsAreViews, EventsAreViews',
           NEW t \in Turns, NEW key \in TransportKeys, Observe(t, key)
    PROVE  PromiseStep
<1>1. /\ Typed /\ turns \in [Turns -> Rows] /\ effects' = effects /\ effects[t] = NoEffects
  BY DEF RuntimeInv, Typed, TurnInv, EffectsInv, Observe, SubmissionAt, SubmissionQuiet, pipelineVars
<1>2. turns' = IF ObserveOutcome(t, key) = "fresh-observed" THEN [turns EXCEPT ![t] = ObservedRow(key)] ELSE turns
  BY DEF Observe, ObserveTransportEvent
<1>3. CASE ObserveOutcome(t, key) = "fresh-observed"
  <2>1. ~AlreadyObserved(key) /\ ~Present(t)
    BY <1>3 DEF ObserveOutcome
  <2> QED
    BY <1>1, <1>2, <1>3, <2>1, ObservationIsPromised
<1>4. CASE ObserveOutcome(t, key) # "fresh-observed"
  <2>1. RowsGoOn
    BY <1>2, <1>4 DEF RowsGoOn, RowGoesOn
  <2> QED
    BY <1>1, <2>1, WriteIsPromised
<1> QED
  BY <1>3, <1>4

LEMMA StepsArePromised ==
    RuntimeInv /\ RuntimeInv' /\ EventsAreViews /\ EventsAreViews' /\ [RuntimeNext]_runtimeVars => PromiseStep
<1> SUFFICES ASSUME RuntimeInv, RuntimeInv', EventsAreViews, EventsAreViews', [RuntimeNext]_runtimeVars
             PROVE  PromiseStep
  OBVIOUS
<1>1. CASE Recover
  BY <1>1, RecoveryRowsGoOn, WriteIsPromised
<1>2. ASSUME NEW t \in Turns, NEW key \in TransportKeys, Observe(t, key)
      PROVE  PromiseStep
  BY <1>2, ObserveIsPromised
<1>3. ASSUME NEW t \in Turns, Authenticate(t) \/ Accept(t) \/ Queue(t)
      PROVE  PromiseStep
  BY <1>3, SubmissionGoesItsWay, WriteIsPromised
<1>4. ASSUME NEW t \in Turns, JobStep(t)
      PROVE  PromiseStep
  <2>1. TextTurnStep(t) \/ PhaseFails(t) \/ Deadline(t)
    BY <1>4 DEF JobStep
  <2>2. CASE InvokeLlm(t) \/ InvokeDelivery(t) \/ \E result \in DeliveryOutcomes \cup {"error"} : DeliverySettles(t, result)
    BY <2>2, CallsArePromised
  <2>3. CASE ~(InvokeLlm(t) \/ InvokeDelivery(t)
               \/ \E result \in DeliveryOutcomes \cup {"error"} : DeliverySettles(t, result))
    <3>1. RowsGoOn /\ UNCHANGED effects
      BY <2>1, <2>3, JobsGoOn
    <3> QED
      BY <3>1, WriteIsPromised
  <2> QED
    BY <2>2, <2>3
<1>5. CASE \/ Start \/ StartReturns \/ CloseReturns \/ Crash \/ UNCHANGED runtimeVars
           \/ \E close \in BOOLEAN : BeginDrain(close)
           \/ \E t \in Turns :
                \/ \E c \in Conversations : Bind(t, c)
                \/ BindingFails(t) \/ Publish(t) \/ SubmissionFails(t) \/ JobFails(t) \/ JobEnds(t)
  BY <1>5, OtherStepsAreQuiet, WriteIsPromised
<1> QED
  BY <1>1, <1>2, <1>3, <1>4, <1>5 DEF RuntimeNext

\* Nothing is observed at first.
LEMMA NothingIsPromisedYet == RuntimeInit => Promise!PromiseInit
<1> SUFFICES ASSUME RuntimeInit, NEW key \in TransportKeys
             PROVE  EventOf(key) = Promise!Unseen
  BY DEF Promise!PromiseInit
<1>1. turns = [t \in Turns |-> AbsentRow]
  BY DEF RuntimeInit, LedgerInit
<1>2. TurnsOf(key) = {}
  BY <1>1 DEF TurnsOf, Present, AbsentRow
<1> QED
  BY <1>2 DEF EventOf, UnseenEvent, Promise!Unseen

\* The runtime keeps what EventPromise says of every transport event, whatever
\* interleaves, fails, drains or crashes and however often it is offered.
THEOREM RuntimeKeepsItsPromise == RuntimeSpec => ImplementsEventPromise
<1>1. PromiseStep => [Promise!PromiseNext]_[key \in TransportKeys |-> EventOf(key)]
  BY DEF PromiseStep, View
<1> QED
  BY <1>1, NothingIsPromisedYet, StepsArePromised, EventsSeen, RuntimeKeepsInv, PTL
     DEF RuntimeSpec, ImplementsEventPromise, Promise!PromiseSpec
----------------------------------------------------------------------------
\* The audit.  A row, its job, recovery and the completion event are written by steps
\* of their own; what follows says what each keeps knowing of the others between two
\* of them.  What holds only at the revision it was read at is a clause of its own.

Closed == {"succeeded", "failed"}
UnsettledStates ==
    { "observed", "authentication_rejected", "authenticated", "accepted", "queued", "llm_known_failed",
      "deterministic_notice_prepared", "llm_completed", "output_validated" }

EventMatches(event, delivery, checkpoint, completion) ==
    event # None /\ event.delivery = delivery /\ event.checkpoint = checkpoint /\ event.completion = completion

\* A row and its event: an event is of a delivery that ended, it agrees with the facts
\* once these close the audit, and no turn whose delivery settled completes before.
RowStory(state, facts, event) ==
    /\ event # None => state \in EndedDelivery \cup {"completed"} /\ event.delivery = facts.delivery
    /\ event # None /\ facts.auditCompletion \in Closed =>
         EventMatches(event, facts.delivery, facts.checkpoint, facts.auditCompletion)
    /\ facts.delivery \in {"delivered", "failed"} /\ facts.auditCompletion \in Closed => event # None
    /\ state = "completed" /\ facts.delivery \in SettledDeliveries => facts.auditCompletion \in Closed
    /\ facts.delivery = "outcome_unknown" => facts.checkpoint = "failed" /\ facts.auditCompletion # "succeeded"
    /\ state = "delivery_started" /\ facts.auditCompletion \in Closed => facts.delivery = "outcome_unknown"
    /\ state \in UnsettledStates => facts.auditCompletion \notin Closed
    /\ state \in EndedDelivery => facts.delivery = DeliveryOfState(state)

\* A job that has ended its delivery knows the state and what was delivered for good.
BarrierStages == {"barrier-load", "barrier-write"}
EndingStages ==
    {"checkpoint-load", "checkpoint-write", "checkpoint-fact", "checkpoint-failed", "audit-completion",
     "completion-fact", "complete"} \cup BarrierStages

StatusOf(delivery) == IF delivery = "delivered" THEN "delivered" ELSE "failed"
StateOf(delivery) == IF delivery = "delivered" THEN "delivered" ELSE "delivery_failed"
CompletionOf(delivery, checkpoint) ==
    IF delivery = "delivered" /\ checkpoint = "succeeded" THEN "succeeded" ELSE "failed"

JobTold(stage, delivery, checkpoint, state, facts, event) ==
    /\ stage \in EndingStages /\ delivery \in ProvenOutcomes =>
         state \in {StateOf(delivery), "completed"} /\ facts.delivery = StatusOf(delivery)
    /\ stage = "checkpoint-fact" => checkpoint = "succeeded"
    /\ stage = "checkpoint-failed" \/ (stage \in BarrierStages /\ delivery \in ProvenOutcomes) =>
         checkpoint = "failed"
    /\ stage \in {"audit-completion", "completion-fact"} => checkpoint \in Closed
    /\ stage = "completion-fact" =>
         EventMatches(event, StatusOf(delivery), checkpoint, CompletionOf(delivery, checkpoint))

JobKnows(stage, delivery, facts) ==
    /\ stage \in {"llm-call", "llm-wait", "failed-move", "llm-complete"} => facts.auditCompletion \notin Closed
    /\ stage = "unknown-move" => facts.auditCompletion \in Closed
    /\ stage \in BarrierStages /\ delivery = "outcome-unknown" => facts.auditCompletion \in Closed
    /\ stage = "complete" /\ delivery # None => facts.auditCompletion \in Closed

JobStory(job, row, event) ==
    /\ JobTold(job.stage, job.delivery, job.checkpoint, row.state, row.facts, event)
    /\ job.revision = row.revision => JobKnows(job.stage, job.delivery, row.facts)

\* A listed row whose delivery had ended stays the truth about it.
ListedStory(listed, row) ==
    /\ listed.state \in EndedDelivery =>
         row.state \in {listed.state, "completed"} /\ row.facts.delivery = DeliveryOfState(listed.state)
    /\ listed.state = "delivery_outcome_unknown" => listed.facts.checkpoint = "failed"
    /\ listed.revision = row.revision => listed.facts = row.facts

\* Recovery, of its candidate.
ClosingStages == {"assess", "barrier-load", "barrier-write", "reconcile", "completion-fact"}

CandidateTold(stage, at, delivery, checkpoint, state, facts, event) ==
    /\ stage \in ClosingStages /\ delivery # None =>
         /\ at \in EndedDelivery /\ delivery = DeliveryOfState(at)
         /\ state \in {at, "completed"} /\ facts.delivery = delivery
    /\ stage \in ClosingStages /\ delivery = None => at \notin EndedDelivery
    /\ stage \in {"tombstone", "delivery-fact"} /\ delivery = "outcome_unknown" => checkpoint = "failed"
    /\ stage \in BarrierStages /\ delivery \in {"delivered", "failed"} => checkpoint # "succeeded"
    /\ stage \in {"reconcile", "completion-fact"} =>
         checkpoint \in Closed /\ (delivery = "outcome_unknown" => checkpoint = "failed")
    /\ stage = "completion-fact" =>
         EventMatches(event, delivery, checkpoint, CompletionOf(delivery, checkpoint))

CandidateKnows(stage, delivery, checkpoint, listed, state, facts) ==
    /\ stage \in {"llm-fact", "read-outbox", "tombstone", "delivery-fact"} => facts = listed
    /\ stage \in {"delivery-move"} \cup ClosingStages /\ delivery # None =>
         /\ facts.auditCompletion = listed.auditCompletion
         /\ delivery # "outcome_unknown" /\ facts.checkpoint = "succeeded" => checkpoint = "succeeded"
    /\ stage = "complete" /\ state \in EndedDelivery => facts.auditCompletion \in Closed

CandidateStory(local, row, event) ==
    /\ CandidateTold(local.stage, local.at, local.delivery, local.checkpoint, row.state, row.facts, event)
    /\ local.revision = row.revision =>
         CandidateKnows(local.stage, local.delivery, local.checkpoint, local.row.facts, row.state, row.facts)

TurnStory(t) ==
    /\ RowStory(turns[t].state, turns[t].facts, auditCompletions[t])
    /\ JobStory(jobs[t], turns[t], auditCompletions[t])

AuditStory ==
    /\ auditCompletions \in [Turns -> CompletionEvents \cup {None}]
    /\ \A t \in Turns : TurnStory(t)
    /\ \A u \in DOMAIN recovery.rows : ListedStory(recovery.rows[u], turns[u])
    /\ AtCandidate => CandidateStory(recovery, turns[Candidate], auditCompletions[Candidate])

----------------------------------------------------------------------------
\* A row goes on when a write advances its revision and takes nothing back of a
\* delivery that ended; an event is final.
RowKeeps(row, next) ==
    \/ next = row
    \/ /\ next.revision = row.revision + 1
       /\ row.state \in EndedDelivery \cup {"completed"} =>
            next.state \in {row.state, "completed"} /\ next.facts.delivery = row.facts.delivery

EventKeeps(event, next) == event # None => next = event

LEMMA JobStoryKeeps ==
    ASSUME NEW job, NEW row, NEW next, NEW event, NEW later, job.revision \in Nat, row.revision \in Nat,
           job.revision <= row.revision, RowKeeps(row, next), EventKeeps(event, later), JobStory(job, row, event)
    PROVE  JobStory(job, next, later)
<1>1. StateOf(job.delivery) \in EndedDelivery
  BY DEF StateOf, EndedDelivery
<1>2. JobTold(job.stage, job.delivery, job.checkpoint, next.state, next.facts, later)
  BY <1>1 DEF JobStory, JobTold, RowKeeps, EventKeeps, EventMatches
<1>3. job.revision = next.revision => next = row
  BY DEF RowKeeps
<1> QED
  BY <1>2, <1>3 DEF JobStory

LEMMA ListedStoryKeeps ==
    ASSUME NEW listed, NEW row, NEW next, listed.revision \in Nat, row.revision \in Nat,
           listed.revision <= row.revision, RowKeeps(row, next), ListedStory(listed, row)
    PROVE  ListedStory(listed, next)
<1>1. listed.revision = next.revision => next = row
  BY DEF RowKeeps
<1> QED
  BY <1>1 DEF ListedStory, RowKeeps

LEMMA CandidateStoryKeeps ==
    ASSUME NEW local, NEW row, NEW next, NEW event, NEW later, local.revision \in Nat, row.revision \in Nat,
           local.revision <= row.revision, RowKeeps(row, next), EventKeeps(event, later),
           CandidateStory(local, row, event)
    PROVE  CandidateStory(local, next, later)
<1>1. CandidateTold(local.stage, local.at, local.delivery, local.checkpoint, next.state, next.facts, later)
  BY DEF CandidateStory, CandidateTold, RowKeeps, EventKeeps, EventMatches
<1>2. local.revision = next.revision => next = row
  BY DEF RowKeeps
<1> QED
  BY <1>1, <1>2 DEF CandidateStory

\* The moves into the states before a delivery.
LEMMA EarlyMoves ==
    ASSUME NEW state \in TurnStates, NEW target \in LegalTransitions[state]
    PROVE  /\ target \in UnsettledStates => state \in UnsettledStates \cup {"llm_started"}
           /\ target = "delivery_started" => state = "output_validated"
<1> USE DEF LegalTransitions, UnsettledStates
<1>1. CASE state \in {"observed", "authentication_rejected", "authenticated", "accepted"}
  BY <1>1
<1>2. CASE state \in {"queued", "llm_started", "llm_known_failed", "deterministic_notice_prepared"}
  BY <1>2
<1>3. CASE state \in {"llm_completed", "output_validated", "delivery_started", "delivered"}
  BY <1>3
<1>4. CASE state \in {"delivery_failed", "delivery_outcome_unknown", "cancelled", "completed"}
  BY <1>4
<1> QED
  BY <1>1, <1>2, <1>3, <1>4 DEF TurnStates

\* A row that moves on with its facts keeps its story, if the state fits them.
MoveFitsFacts(state, to, facts) ==
    /\ to = "completed" /\ facts.delivery \in SettledDeliveries => facts.auditCompletion \in Closed
    /\ to \in UnsettledStates /\ state = "llm_started" => facts.auditCompletion \notin Closed
    /\ to \in EndedDelivery => facts.delivery = DeliveryOfState(to)

LEMMA RowStoryMoves ==
    ASSUME NEW from \in TurnStates, NEW to \in LegalTransitions[from], NEW facts, NEW event,
           RowStory(from, facts, event), MoveFitsFacts(from, to, facts)
    PROVE  /\ RowStory(to, facts, event)
           /\ from \in EndedDelivery \cup {"completed"} => to = "completed"
<1>1. /\ from # "completed"
      /\ from \in DeliveryStates => to \in EndedDelivery \cup {"completed"}
      /\ to \in EndedDelivery => from = "delivery_started"
      /\ to \in UnsettledStates => from \in UnsettledStates \cup {"llm_started"}
      /\ to = "delivery_started" => from = "output_validated"
  BY DeliveryMoves, EarlyMoves
<1>2. from \in EndedDelivery => to = "completed"
  BY <1>1 DEF DeliveryStates, EndedDelivery
<1> QED
  BY <1>1, <1>2 DEF RowStory, MoveFitsFacts, EventMatches, UnsettledStates, EndedDelivery

----------------------------------------------------------------------------
\* What a step that writes at most the row and the event of one turn leaves of what
\* everyone knows.
StoryStep(t) ==
    /\ turns' = [turns EXCEPT ![t] = turns'[t]]
    /\ auditCompletions' = [auditCompletions EXCEPT ![t] = auditCompletions'[t]]
    /\ auditCompletions'[t] \in CompletionEvents \cup {None}
    /\ RowKeeps(turns[t], turns'[t]) /\ EventKeeps(auditCompletions[t], auditCompletions'[t])
    /\ RowStory(turns'[t].state, turns'[t].facts, auditCompletions'[t])

LEMMA StoriesGoOn ==
    ASSUME RuntimeInv, AuditStory, NEW t \in Turns, StoryStep(t)
    PROVE  /\ auditCompletions' \in [Turns -> CompletionEvents \cup {None}]
           /\ \A u \in Turns : RowStory(turns'[u].state, turns'[u].facts, auditCompletions'[u])
           /\ \A u \in Turns : Working(u) => JobStory(jobs[u], turns'[u], auditCompletions'[u])
           /\ \A u \in DOMAIN recovery.rows : ListedStory(recovery.rows[u], turns'[u])
           /\ AtCandidate =>
                CandidateStory(recovery, turns'[recovery.turn], auditCompletions'[recovery.turn])
<1>1. /\ turns \in [Turns -> Rows] /\ auditCompletions \in [Turns -> CompletionEvents \cup {None}]
      /\ \A u \in Turns : turns[u].revision \in Nat
  BY ConstantsAssumption DEF RuntimeInv, Typed, AuditStory, Rows
<1>2. auditCompletions' \in [Turns -> CompletionEvents \cup {None}]
  BY <1>1 DEF StoryStep
<1>3. \A u \in Turns : u # t => turns'[u] = turns[u] /\ auditCompletions'[u] = auditCompletions[u]
  BY <1>1 DEF StoryStep
<1>4. \A u \in Turns : RowKeeps(turns[u], turns'[u]) /\ EventKeeps(auditCompletions[u], auditCompletions'[u])
  BY <1>3 DEF StoryStep, RowKeeps, EventKeeps
<1>5. \A u \in Turns : RowStory(turns'[u].state, turns'[u].facts, auditCompletions'[u])
  BY <1>3 DEF StoryStep, AuditStory, TurnStory
<1>6. ASSUME NEW u \in Turns, Working(u)
      PROVE  JobStory(jobs[u], turns'[u], auditCompletions'[u])
  <2>1. jobs[u].revision \in Nat /\ jobs[u].revision <= turns[u].revision
    BY <1>6 DEF RuntimeInv, Typed, JobTyped, TurnInv, JobInv
  <2>2. JobStory(jobs[u], turns[u], auditCompletions[u])
    BY DEF AuditStory, TurnStory
  <2> QED
    BY <1>1, <1>4, <2>1, <2>2, JobStoryKeeps
<1>7. ASSUME NEW u \in DOMAIN recovery.rows
      PROVE  ListedStory(recovery.rows[u], turns'[u])
  <2>1. u \in Turns /\ recovery.rows[u] \in Rows /\ ListedInv(u)
    BY DEF RuntimeInv, Typed, RecoveryTyped, RecoveryInv
  <2>2. recovery.rows[u].revision \in Nat /\ recovery.rows[u].revision <= turns[u].revision
    BY <2>1, ConstantsAssumption DEF Rows, ListedInv
  <2>3. ListedStory(recovery.rows[u], turns[u])
    BY DEF AuditStory
  <2> QED
    BY <1>1, <1>4, <2>1, <2>2, <2>3, ListedStoryKeeps
<1>8. ASSUME AtCandidate
      PROVE  CandidateStory(recovery, turns'[recovery.turn], auditCompletions'[recovery.turn])
  <2>1. PICK u \in Turns : u = Candidate /\ u = recovery.turn
    BY <1>8, CandidateFacts
  <2>2. recovery.revision \in Nat /\ recovery.revision <= turns[u].revision
    BY <1>8, <2>1, CandidateFacts
  <2>3. CandidateStory(recovery, turns[u], auditCompletions[u])
    BY <1>8, <2>1 DEF AuditStory
  <2> QED
    BY <1>1, <1>4, <2>1, <2>2, <2>3, CandidateStoryKeeps
<1> QED
  BY <1>2, <1>5, <1>6, <1>7, <1>8

\* A job at none of the stages a story speaks of has nothing to tell.
StoryStages ==
    EndingStages \cup {"llm-call", "llm-wait", "failed-move", "llm-complete", "unknown-move"}

LEMMA DullJob ==
    ASSUME NEW job, NEW row, NEW event, job.stage \notin StoryStages
    PROVE  JobStory(job, row, event)
  BY DEF JobStory, JobTold, JobKnows, StoryStages, EndingStages, BarrierStages

\* A job that keeps what a story speaks of keeps its story.
SameLocals(new, old) ==
    /\ new.stage = old.stage /\ new.revision = old.revision
    /\ new.delivery = old.delivery /\ new.checkpoint = old.checkpoint

LEMMA SameJob ==
    ASSUME NEW new, NEW old, NEW row, NEW event, SameLocals(new, old), JobStory(old, row, event)
    PROVE  JobStory(new, row, event)
  BY DEF SameLocals, JobStory

\* A step of the job of a turn, which writes at most its row, its event and its locals.
LEMMA JobTells ==
    ASSUME RuntimeInv, AuditStory, NEW t \in Turns, StoryStep(t),
           jobs' = [jobs EXCEPT ![t] = jobs'[t]], UNCHANGED recovery,
           JobStory(jobs'[t], turns'[t], auditCompletions'[t])
    PROVE  AuditStory'
<1>1. \A u \in Turns : JobStory(jobs'[u], turns'[u], auditCompletions'[u])
  <2> SUFFICES ASSUME NEW u \in Turns, u # t
               PROVE  JobStory(jobs'[u], turns'[u], auditCompletions'[u])
    OBVIOUS
  <2>1. jobs'[u] = jobs[u]
    BY DEF RuntimeInv, Typed
  <2>2. CASE Working(u)
    BY <2>1, <2>2, StoriesGoOn
  <2>3. CASE ~Working(u)
    BY <2>1, <2>3, DullJob DEF Working, StoryStages, EndingStages, BarrierStages
  <2> QED
    BY <2>2, <2>3
<1>2. AtCandidate' => CandidateStory(recovery', turns'[recovery'.turn], auditCompletions'[recovery'.turn])
  BY StoriesGoOn DEF AtCandidate
<1> QED
  BY <1>1, <1>2, StoriesGoOn DEF AuditStory, TurnStory, Candidate

\* A step of recovery, which writes at most the row and the event of its candidate.
LEMMA RecoveryTells ==
    ASSUME RuntimeInv, AuditStory, NEW t \in Turns, StoryStep(t), UNCHANGED jobs,
           recovery'.rows = recovery.rows,
           AtCandidate' => CandidateStory(recovery', turns'[recovery'.turn], auditCompletions'[recovery'.turn])
    PROVE  AuditStory'
<1>1. \A u \in Turns : JobStory(jobs'[u], turns'[u], auditCompletions'[u])
  <2> SUFFICES ASSUME NEW u \in Turns
               PROVE  JobStory(jobs[u], turns'[u], auditCompletions'[u])
    OBVIOUS
  <2>1. CASE Working(u)
    BY <2>1, StoriesGoOn
  <2>2. CASE ~Working(u)
    BY <2>2, DullJob DEF Working, StoryStages, EndingStages, BarrierStages
  <2> QED
    BY <2>1, <2>2
<1> QED
  BY <1>1, StoriesGoOn DEF AuditStory, TurnStory, Candidate

\* A step that writes neither: what changes of the locals has to fit.
LEMMA LocalsTell ==
    ASSUME AuditStory, UNCHANGED <<turns, auditCompletions>>,
           \A u \in Turns : jobs'[u].stage \notin StoryStages \/ SameLocals(jobs'[u], jobs[u]),
           \/ UNCHANGED recovery
           \/ ~AtCandidate' /\ \A u \in DOMAIN recovery'.rows : ListedStory(recovery'.rows[u], turns[u])
    PROVE  AuditStory'
<1>1. \A u \in Turns : JobStory(jobs'[u], turns[u], auditCompletions[u])
  BY DullJob, SameJob DEF AuditStory, TurnStory
<1>2. \A u \in DOMAIN recovery'.rows : ListedStory(recovery'.rows[u], turns[u])
  BY DEF AuditStory
<1>3. AtCandidate' => CandidateStory(recovery, turns[Candidate], auditCompletions[Candidate]) /\ UNCHANGED recovery
  BY DEF AuditStory, AtCandidate
<1> QED
  BY <1>1, <1>2, <1>3 DEF AuditStory, TurnStory, Candidate

\* A step that writes neither a row nor an event.
LEMMA StillStory ==
    ASSUME RuntimeInv, AuditStory, NEW t \in Turns, UNCHANGED <<turns, auditCompletions>>
    PROVE  StoryStep(t)
<1>1. turns \in [Turns -> Rows] /\ auditCompletions \in [Turns -> CompletionEvents \cup {None}]
  BY DEF RuntimeInv, Typed, AuditStory
<1>2. RowStory(turns[t].state, turns[t].facts, auditCompletions[t])
  BY DEF AuditStory, TurnStory
<1> QED
  BY <1>1, <1>2 DEF StoryStep, RowKeeps, EventKeeps

\* What the story says of a turn and of its job.
LEMMA StoryFacts ==
    ASSUME AuditStory, NEW t \in Turns
    PROVE  /\ RowStory(turns[t].state, turns[t].facts, auditCompletions[t])
           /\ JobTold(jobs[t].stage, jobs[t].delivery, jobs[t].checkpoint, turns[t].state, turns[t].facts,
                      auditCompletions[t])
           /\ jobs[t].revision = turns[t].revision => JobKnows(jobs[t].stage, jobs[t].delivery, turns[t].facts)
           /\ auditCompletions[t] \in CompletionEvents \cup {None}
  BY DEF AuditStory, TurnStory, JobStory

----------------------------------------------------------------------------
\* A job that moves its row: whoever holds the revision knows that the facts fit.
MoveIsTrue(t, to, stage) ==
    LET held == jobs[t].revision = turns[t].revision IN
    /\ held \/ turns[t].state = to =>
         JobTold(stage, jobs[t].delivery, jobs[t].checkpoint, to, turns[t].facts, auditCompletions[t])
    /\ held => JobKnows(stage, jobs[t].delivery, turns[t].facts)
    /\ held => MoveFitsFacts(turns[t].state, to, turns[t].facts)

LEMMA MoveTells ==
    ASSUME RuntimeInv, AuditStory, NEW t \in Turns, OthersAlone, NEW from \in TurnStates, NEW to \in TurnStates,
           NEW stage \in Stages, Move(t, from, to, stage), MoveIsTrue(t, to, stage)
    PROVE  AuditStory'
<1> DEFINE kind == TransitionOutcome(t, jobs[t].revision, from, to)
<1>1. /\ Typed /\ JobTyped(jobs[t]) /\ turns[t].revision \in Nat /\ jobs[t].revision \in Nat
  BY ConstantsAssumption DEF RuntimeInv, Typed, JobTyped, Rows
<1>2. /\ Transition(t, jobs[t].revision, from, to)
      /\ Only(t, AfterLedger(jobs[t], kind, stage))
      /\ auditCompletions' = auditCompletions /\ recovery' = recovery
  BY DEF Move, LedgerCall, auditVars, OthersAlone
<1> HIDE DEF kind
<1>3. \/ /\ kind = "transitioned" /\ turns[t].revision = jobs[t].revision /\ turns[t].state = from
         /\ to \in LegalTransitions[from] /\ RowMoved(t, to)
      \/ kind = "already-transitioned" /\ turns[t].state = to /\ turns' = turns
      \/ /\ kind \notin {"transitioned", "already-transitioned", "recorded", "already-recorded"}
         /\ turns' = turns
  BY <1>1, <1>2, TransitionEffect DEF kind
<1>4. /\ kind = "transitioned" => JobGoes(t, stage, jobs[t].revision + 1)
      /\ kind = "already-transitioned" => JobGoes(t, stage, jobs[t].revision)
      /\ kind \notin {"transitioned", "already-transitioned", "recorded", "already-recorded"} =>
           JobGoes(t, "error", jobs[t].revision)
  BY <1>1, <1>2, LedgerLeavesJob
<1>5. jobs' = [jobs EXCEPT ![t] = jobs'[t]]
  BY <1>3, <1>4 DEF JobGoes
<1>6. CASE kind = "transitioned"
  <2>1. /\ RowStory(to, turns[t].facts, auditCompletions[t])
        /\ turns[t].state \in EndedDelivery \cup {"completed"} => to = "completed"
    BY <1>3, <1>6, StoryFacts, RowStoryMoves DEF MoveIsTrue
  <2>2. StoryStep(t)
    <3>1. auditCompletions \in [Turns -> CompletionEvents \cup {None}]
      BY DEF AuditStory
    <3> QED
      BY <1>2, <1>3, <1>6, <2>1, <3>1 DEF StoryStep, RowMoved, RowKeeps, EventKeeps
  <2>3. JobStory(jobs'[t], turns'[t], auditCompletions'[t])
    BY <1>2, <1>3, <1>4, <1>6 DEF JobStory, JobGoes, RowMoved, MoveIsTrue
  <2> QED
    BY <1>2, <1>5, <2>2, <2>3, JobTells
<1>7. CASE kind = "already-transitioned"
  <2>1. JobStory(jobs'[t], turns'[t], auditCompletions'[t])
    BY <1>2, <1>3, <1>4, <1>7 DEF JobStory, JobGoes, MoveIsTrue
  <2> QED
    BY <1>2, <1>3, <1>5, <1>7, <2>1, StillStory, JobTells
<1>8. CASE kind \notin {"transitioned", "already-transitioned", "recorded", "already-recorded"}
  <2>1. JobStory(jobs'[t], turns'[t], auditCompletions'[t])
    BY <1>4, <1>8, DullJob DEF JobGoes, StoryStages, EndingStages, BarrierStages
  <2> QED
    BY <1>2, <1>3, <1>5, <1>8, <2>1, StillStory, JobTells
<1> QED
  BY <1>3, <1>6, <1>7, <1>8

\* A job that writes facts: at its revision it knows they close no more than was proved.
FactsAreTrue(t, facts, stage) ==
    jobs[t].revision = turns[t].revision =>
      /\ RowStory(turns[t].state, facts, auditCompletions[t])
      /\ turns[t].state \in EndedDelivery \cup {"completed"} => facts.delivery = turns[t].facts.delivery
      /\ JobTold(stage, jobs[t].delivery, jobs[t].checkpoint, turns[t].state, facts, auditCompletions[t])
      /\ JobKnows(stage, jobs[t].delivery, facts)

LEMMA FactsTell ==
    ASSUME RuntimeInv, AuditStory, NEW t \in Turns, OthersAlone, NEW facts \in Facts,
           NEW stage \in Stages, WriteFacts(t, facts, stage), FactsAreTrue(t, facts, stage)
    PROVE  AuditStory'
<1> DEFINE kind == RecordFactualOutcomeKind(t, jobs[t].revision, facts)
<1>1. /\ Typed /\ JobTyped(jobs[t]) /\ turns[t].revision \in Nat /\ jobs[t].revision \in Nat
  BY ConstantsAssumption DEF RuntimeInv, Typed, JobTyped, Rows
<1>2. /\ RecordFactualOutcome(t, jobs[t].revision, facts)
      /\ Only(t, AfterLedger(jobs[t], kind, stage))
      /\ auditCompletions' = auditCompletions /\ recovery' = recovery
  BY DEF WriteFacts, LedgerCall, auditVars, OthersAlone
<1> HIDE DEF kind
<1>3. \/ /\ kind = "recorded" /\ turns[t].revision = jobs[t].revision /\ RowTold(t, facts)
      \/ /\ kind = "already-recorded" /\ turns[t].revision = jobs[t].revision /\ turns[t].facts = facts
         /\ turns' = turns
      \/ /\ kind \notin {"transitioned", "already-transitioned", "recorded", "already-recorded"}
         /\ turns' = turns
  BY <1>1, <1>2, FactsEffect DEF kind
<1>4. /\ kind = "recorded" => JobGoes(t, stage, jobs[t].revision + 1)
      /\ kind = "already-recorded" => JobGoes(t, stage, jobs[t].revision)
      /\ kind \notin {"transitioned", "already-transitioned", "recorded", "already-recorded"} =>
           JobGoes(t, "error", jobs[t].revision)
  BY <1>1, <1>2, LedgerLeavesJob
<1>5. jobs' = [jobs EXCEPT ![t] = jobs'[t]]
  BY <1>3, <1>4 DEF JobGoes
<1>6. CASE kind = "recorded"
  <2>1. StoryStep(t)
    <3>1. auditCompletions \in [Turns -> CompletionEvents \cup {None}]
      BY DEF AuditStory
    <3> QED
      BY <1>2, <1>3, <1>6, <3>1 DEF StoryStep, RowTold, RowKeeps, EventKeeps, FactsAreTrue
  <2>2. JobStory(jobs'[t], turns'[t], auditCompletions'[t])
    BY <1>2, <1>3, <1>4, <1>6 DEF JobStory, JobGoes, RowTold, FactsAreTrue
  <2> QED
    BY <1>2, <1>5, <2>1, <2>2, JobTells
<1>7. CASE kind = "already-recorded"
  <2>1. JobStory(jobs'[t], turns'[t], auditCompletions'[t])
    BY <1>2, <1>3, <1>4, <1>7 DEF JobStory, JobGoes, FactsAreTrue
  <2> QED
    BY <1>2, <1>3, <1>5, <1>7, <2>1, StillStory, JobTells
<1>8. CASE kind \notin {"transitioned", "already-transitioned", "recorded", "already-recorded"}
  <2>1. JobStory(jobs'[t], turns'[t], auditCompletions'[t])
    BY <1>4, <1>8, DullJob DEF JobGoes, StoryStages, EndingStages, BarrierStages
  <2> QED
    BY <1>2, <1>3, <1>5, <1>8, <2>1, StillStory, JobTells
<1> QED
  BY <1>3, <1>6, <1>7, <1>8

\* The moves of a job, one by one.
LEMMA MovesTell ==
    ASSUME RuntimeInv, AuditStory, NEW t \in Turns, OthersAlone,
           \/ CancelAtGate(t) \/ CompleteAtGate(t) \/ StartLlm(t) \/ CancelUnknownLlm(t)
           \/ RecordKnownFailure(t) \/ CompleteKnownFailure(t) \/ PrepareNotice(t) \/ RecordLlmCompleted(t)
           \/ ValidateOutput(t) \/ StartDelivery(t) \/ MoveToDeliveryUnknown(t) \/ MoveToProven(t)
           \/ CompleteTurn(t)
    PROVE  AuditStory'
<1> USE DEF At, EndedDelivery, SettledDeliveries, ProvenOutcomes
<1>a. /\ FinalState(jobs[t]) \in TurnStates
      /\ jobs[t].delivery \in ProvenOutcomes => FinalState(jobs[t]) = StateOf(jobs[t].delivery)
  BY DEF FinalState, StateOf, TurnStates
<1>b. None \notin ProvenOutcomes /\ None # "outcome-unknown"
  BY OutboxAssumption DEF DeliveryOutcomes
<1>1. CASE CancelAtGate(t)
  <2>1. Working(t) /\ Move(t, "queued", "cancelled", "gate-complete")
    BY <1>1 DEF CancelAtGate, Working
  <2>2. MoveIsTrue(t, "cancelled", "gate-complete")
    BY <1>a, <1>b, <1>1, <2>1, JobFacts, StoryFacts
       DEF CancelAtGate, MoveIsTrue, MoveFitsFacts, JobTold, JobKnows, RowStory, RowInv, Settled, StateAt, LearntAt,
           UnaskedStages, UnsentStages, AnsweredStages, UnknownStages, DeliveryStates, EndingStages, BarrierStages,
           Closed, UnsettledStates, DeliveryOfState, FinalState, StateOf, StatusOf, DeliveryStatus
  <2>3. "queued" \in TurnStates /\ "cancelled" \in TurnStates /\ "gate-complete" \in Stages
    BY <1>a DEF TurnStates, Stages
  <2> QED
    BY <2>1, <2>2, <2>3, MoveTells
<1>2. CASE CompleteAtGate(t)
  <2>1. Working(t) /\ Move(t, "cancelled", "completed", "done")
    BY <1>2 DEF CompleteAtGate, Working
  <2>2. MoveIsTrue(t, "completed", "done")
    BY <1>a, <1>b, <1>2, <2>1, JobFacts, StoryFacts
       DEF CompleteAtGate, MoveIsTrue, MoveFitsFacts, JobTold, JobKnows, RowStory, RowInv, Settled, StateAt, LearntAt,
           UnaskedStages, UnsentStages, AnsweredStages, UnknownStages, DeliveryStates, EndingStages, BarrierStages,
           Closed, UnsettledStates, DeliveryOfState, FinalState, StateOf, StatusOf, DeliveryStatus
  <2>3. "cancelled" \in TurnStates /\ "completed" \in TurnStates /\ "done" \in Stages
    BY <1>a DEF TurnStates, Stages
  <2> QED
    BY <2>1, <2>2, <2>3, MoveTells
<1>3. CASE StartLlm(t)
  <2>1. Working(t) /\ Move(t, "queued", "llm_started", "llm-call")
    BY <1>3 DEF StartLlm, Working
  <2>2. MoveIsTrue(t, "llm_started", "llm-call")
    BY <1>a, <1>b, <1>3, <2>1, JobFacts, StoryFacts
       DEF StartLlm, MoveIsTrue, MoveFitsFacts, JobTold, JobKnows, RowStory, RowInv, Settled, StateAt, LearntAt,
           UnaskedStages, UnsentStages, AnsweredStages, UnknownStages, DeliveryStates, EndingStages, BarrierStages,
           Closed, UnsettledStates, DeliveryOfState, FinalState, StateOf, StatusOf, DeliveryStatus
  <2>3. "queued" \in TurnStates /\ "llm_started" \in TurnStates /\ "llm-call" \in Stages
    BY <1>a DEF TurnStates, Stages
  <2> QED
    BY <2>1, <2>2, <2>3, MoveTells
<1>4. CASE CancelUnknownLlm(t)
  <2>1. Working(t) /\ Move(t, "llm_started", "cancelled", "barrier-load")
    BY <1>4 DEF CancelUnknownLlm, Working
  <2>2. MoveIsTrue(t, "cancelled", "barrier-load")
    BY <1>a, <1>b, <1>4, <2>1, JobFacts, StoryFacts
       DEF CancelUnknownLlm, MoveIsTrue, MoveFitsFacts, JobTold, JobKnows, RowStory, RowInv, Settled, StateAt, LearntAt,
           UnaskedStages, UnsentStages, AnsweredStages, UnknownStages, DeliveryStates, EndingStages, BarrierStages,
           Closed, UnsettledStates, DeliveryOfState, FinalState, StateOf, StatusOf, DeliveryStatus
  <2>3. "llm_started" \in TurnStates /\ "cancelled" \in TurnStates /\ "barrier-load" \in Stages
    BY <1>a DEF TurnStates, Stages
  <2> QED
    BY <2>1, <2>2, <2>3, MoveTells
<1>5. CASE RecordKnownFailure(t)
  <2>1. Working(t) /\ Move(t, "llm_started", "llm_known_failed", "failed-fact")
    BY <1>5 DEF RecordKnownFailure, Working
  <2>2. MoveIsTrue(t, "llm_known_failed", "failed-fact")
    BY <1>a, <1>b, <1>5, <2>1, JobFacts, StoryFacts
       DEF RecordKnownFailure, MoveIsTrue, MoveFitsFacts, JobTold, JobKnows, RowStory, RowInv, Settled, StateAt, LearntAt,
           UnaskedStages, UnsentStages, AnsweredStages, UnknownStages, DeliveryStates, EndingStages, BarrierStages,
           Closed, UnsettledStates, DeliveryOfState, FinalState, StateOf, StatusOf, DeliveryStatus
  <2>3. "llm_started" \in TurnStates /\ "llm_known_failed" \in TurnStates /\ "failed-fact" \in Stages
    BY <1>a DEF TurnStates, Stages
  <2> QED
    BY <2>1, <2>2, <2>3, MoveTells
<1>6. CASE CompleteKnownFailure(t)
  <2>1. Working(t) /\ Move(t, "llm_known_failed", "completed", "done")
    BY <1>6 DEF CompleteKnownFailure, Working
  <2>2. MoveIsTrue(t, "completed", "done")
    BY <1>a, <1>b, <1>6, <2>1, JobFacts, StoryFacts
       DEF CompleteKnownFailure, MoveIsTrue, MoveFitsFacts, JobTold, JobKnows, RowStory, RowInv, Settled, StateAt, LearntAt,
           UnaskedStages, UnsentStages, AnsweredStages, UnknownStages, DeliveryStates, EndingStages, BarrierStages,
           Closed, UnsettledStates, DeliveryOfState, FinalState, StateOf, StatusOf, DeliveryStatus
  <2>3. "llm_known_failed" \in TurnStates /\ "completed" \in TurnStates /\ "done" \in Stages
    BY <1>a DEF TurnStates, Stages
  <2> QED
    BY <2>1, <2>2, <2>3, MoveTells
<1>7. CASE PrepareNotice(t)
  <2>1. Working(t) /\ Move(t, "llm_known_failed", "deterministic_notice_prepared", "validate")
    BY <1>7 DEF PrepareNotice, Working
  <2>2. MoveIsTrue(t, "deterministic_notice_prepared", "validate")
    BY <1>a, <1>b, <1>7, <2>1, JobFacts, StoryFacts
       DEF PrepareNotice, MoveIsTrue, MoveFitsFacts, JobTold, JobKnows, RowStory, RowInv, Settled, StateAt, LearntAt,
           UnaskedStages, UnsentStages, AnsweredStages, UnknownStages, DeliveryStates, EndingStages, BarrierStages,
           Closed, UnsettledStates, DeliveryOfState, FinalState, StateOf, StatusOf, DeliveryStatus
  <2>3. "llm_known_failed" \in TurnStates /\ "deterministic_notice_prepared" \in TurnStates /\ "validate" \in Stages
    BY <1>a DEF TurnStates, Stages
  <2> QED
    BY <2>1, <2>2, <2>3, MoveTells
<1>8. CASE RecordLlmCompleted(t)
  <2>1. Working(t) /\ Move(t, "llm_started", "llm_completed", "validate")
    BY <1>8 DEF RecordLlmCompleted, Working
  <2>2. MoveIsTrue(t, "llm_completed", "validate")
    BY <1>a, <1>b, <1>8, <2>1, JobFacts, StoryFacts
       DEF RecordLlmCompleted, MoveIsTrue, MoveFitsFacts, JobTold, JobKnows, RowStory, RowInv, Settled, StateAt, LearntAt,
           UnaskedStages, UnsentStages, AnsweredStages, UnknownStages, DeliveryStates, EndingStages, BarrierStages,
           Closed, UnsettledStates, DeliveryOfState, FinalState, StateOf, StatusOf, DeliveryStatus
  <2>3. "llm_started" \in TurnStates /\ "llm_completed" \in TurnStates /\ "validate" \in Stages
    BY <1>a DEF TurnStates, Stages
  <2> QED
    BY <2>1, <2>2, <2>3, MoveTells
<1>9. CASE ValidateOutput(t)
  <2> DEFINE from == IF jobs[t].llm = "completed" THEN "llm_completed" ELSE "deterministic_notice_prepared"
  <2>1. Working(t) /\ Move(t, from, "output_validated", "outbox-put")
    BY <1>9 DEF ValidateOutput, Working
  <2>2. MoveIsTrue(t, "output_validated", "outbox-put")
    BY <1>a, <1>b, <1>9, <2>1, JobFacts, StoryFacts
       DEF ValidateOutput, MoveIsTrue, MoveFitsFacts, JobTold, JobKnows, RowStory, RowInv, Settled, StateAt, LearntAt,
           UnaskedStages, UnsentStages, AnsweredStages, UnknownStages, DeliveryStates, EndingStages, BarrierStages,
           Closed, UnsettledStates, DeliveryOfState, FinalState, StateOf, StatusOf, DeliveryStatus
  <2>3. from \in TurnStates /\ "output_validated" \in TurnStates /\ "outbox-put" \in Stages
    BY <1>a DEF TurnStates, Stages
  <2> QED
    BY <2>1, <2>2, <2>3, MoveTells
<1>10. CASE StartDelivery(t)
  <2>1. Working(t) /\ Move(t, "output_validated", "delivery_started", "delivery-call")
    BY <1>10 DEF StartDelivery, Working
  <2>2. MoveIsTrue(t, "delivery_started", "delivery-call")
    BY <1>a, <1>b, <1>10, <2>1, JobFacts, StoryFacts
       DEF StartDelivery, MoveIsTrue, MoveFitsFacts, JobTold, JobKnows, RowStory, RowInv, Settled, StateAt, LearntAt,
           UnaskedStages, UnsentStages, AnsweredStages, UnknownStages, DeliveryStates, EndingStages, BarrierStages,
           Closed, UnsettledStates, DeliveryOfState, FinalState, StateOf, StatusOf, DeliveryStatus
  <2>3. "output_validated" \in TurnStates /\ "delivery_started" \in TurnStates /\ "delivery-call" \in Stages
    BY <1>a DEF TurnStates, Stages
  <2> QED
    BY <2>1, <2>2, <2>3, MoveTells
<1>11. CASE MoveToDeliveryUnknown(t)
  <2>1. Working(t) /\ Move(t, "delivery_started", "delivery_outcome_unknown", "barrier-load")
    BY <1>11 DEF MoveToDeliveryUnknown, Working
  <2>2. MoveIsTrue(t, "delivery_outcome_unknown", "barrier-load")
    BY <1>a, <1>b, <1>11, <2>1, JobFacts, StoryFacts
       DEF MoveToDeliveryUnknown, MoveIsTrue, MoveFitsFacts, JobTold, JobKnows, RowStory, RowInv, Settled, StateAt, LearntAt,
           UnaskedStages, UnsentStages, AnsweredStages, UnknownStages, DeliveryStates, EndingStages, BarrierStages,
           Closed, UnsettledStates, DeliveryOfState, FinalState, StateOf, StatusOf, DeliveryStatus
  <2>3. "delivery_started" \in TurnStates /\ "delivery_outcome_unknown" \in TurnStates /\ "barrier-load" \in Stages
    BY <1>a DEF TurnStates, Stages
  <2> QED
    BY <2>1, <2>2, <2>3, MoveTells
<1>12. CASE MoveToProven(t)
  <2>1. Working(t) /\ Move(t, "delivery_started", FinalState(jobs[t]), "checkpoint-load")
    BY <1>12 DEF MoveToProven, Working
  <2>2. MoveIsTrue(t, FinalState(jobs[t]), "checkpoint-load")
    BY <1>a, <1>b, <1>12, <2>1, JobFacts, StoryFacts
       DEF MoveToProven, MoveIsTrue, MoveFitsFacts, JobTold, JobKnows, RowStory, RowInv, Settled, StateAt, LearntAt,
           UnaskedStages, UnsentStages, AnsweredStages, UnknownStages, DeliveryStates, EndingStages, BarrierStages,
           Closed, UnsettledStates, DeliveryOfState, FinalState, StateOf, StatusOf, DeliveryStatus
  <2>3. "delivery_started" \in TurnStates /\ FinalState(jobs[t]) \in TurnStates /\ "checkpoint-load" \in Stages
    BY <1>a DEF TurnStates, Stages
  <2> QED
    BY <2>1, <2>2, <2>3, MoveTells
<1>13. CASE CompleteTurn(t)
  <2>1. Working(t) /\ Move(t, FinalState(jobs[t]), "completed", "done")
    BY <1>13 DEF CompleteTurn, Working
  <2>2. MoveIsTrue(t, "completed", "done")
    BY <1>a, <1>b, <1>13, <2>1, JobFacts, StoryFacts
       DEF CompleteTurn, MoveIsTrue, MoveFitsFacts, JobTold, JobKnows, RowStory, RowInv, Settled, StateAt, LearntAt,
           UnaskedStages, UnsentStages, AnsweredStages, UnknownStages, DeliveryStates, EndingStages, BarrierStages,
           Closed, UnsettledStates, DeliveryOfState, FinalState, StateOf, StatusOf, DeliveryStatus
  <2>3. FinalState(jobs[t]) \in TurnStates /\ "completed" \in TurnStates /\ "done" \in Stages
    BY <1>a DEF TurnStates, Stages
  <2> QED
    BY <2>1, <2>2, <2>3, MoveTells
<1> QED
  BY <1>1, <1>2, <1>3, <1>4, <1>5, <1>6, <1>7, <1>8, <1>9, <1>10, <1>11, <1>12, <1>13

\* The facts a job writes, one by one.
LEMMA WritesTell ==
    ASSUME RuntimeInv, AuditStory, NEW t \in Turns, OthersAlone,
           \/ RecordLlmUnknown(t) \/ RecordKnownFailureFacts(t) \/ RecordDeliveryUnknown(t)
           \/ RecordProvenDelivery(t) \/ RecordCheckpointSucceeded(t) \/ RecordCheckpointFailed(t)
           \/ RecordCompletionFacts(t)
    PROVE  AuditStory'
<1> USE DEF At, EndedDelivery, SettledDeliveries, ProvenOutcomes
<1>a. /\ jobs[t].delivery \in ProvenOutcomes => FinalState(jobs[t]) = StateOf(jobs[t].delivery)
      /\ DeliveryStatus(jobs[t]) = StatusOf(jobs[t].delivery)
      /\ CompletionStatus(jobs[t]) = CompletionOf(jobs[t].delivery, jobs[t].checkpoint)
  BY DEF FinalState, StateOf, DeliveryStatus, StatusOf, CompletionStatus, CompletionOf
<1>b. None \notin ProvenOutcomes /\ None # "outcome-unknown"
  BY OutboxAssumption DEF DeliveryOutcomes
<1>c. /\ DeliveryStatus(jobs[t]) \in DeliveryStatuses
      /\ DeliveryError(jobs[t]) \in FactErrorCodes \cup {None}
      /\ CompletionStatus(jobs[t]) \in AuditCompletionStatuses
      /\ jobs[t].checkpoint \in CheckpointStatuses
      /\ jobs[t].llm \in LlmCompletionOutcomes \cup {None}
  BY OwnStatuses DEF RuntimeInv, Typed
<1>d. /\ {"not_started", "outcome_unknown"} \subseteq DeliveryStatuses
      /\ {"not_required", "pending", "succeeded", "failed"} \subseteq CheckpointStatuses
      /\ {"not_started", "pending", "failed"} \subseteq AuditCompletionStatuses
      /\ "succeeded" \in AuditStartStatuses /\ "outcome-unknown" \in LlmCompletionOutcomes
      /\ {"LLM_OUTCOME_UNKNOWN", "DELIVERY_OUTCOME_UNKNOWN", "CONVERSATION_CHECKPOINT_FAILED"} \subseteq FactErrorCodes
  BY DEF DeliveryStatuses, CheckpointStatuses, AuditStartStatuses, AuditCompletionStatuses, FactErrorCodes,
         LlmCompletionOutcomes
<1>1. CASE RecordLlmUnknown(t)
  <2> DEFINE facts == UnknownLlmFacts
             stage == "llm-cancel"
  <2>1. Working(t) /\ WriteFacts(t, facts, stage)
    BY <1>1 DEF RecordLlmUnknown, Working
  <2>2. facts \in Facts
    BY <1>c, <1>d, OwnFacts DEF UnknownLlmFacts
  <2>3. FactsAreTrue(t, facts, stage)
    BY <1>a, <1>b, <1>1, <2>1, JobFacts, StoryFacts
       DEF RecordLlmUnknown, FactsAreTrue, FactsOf, UnknownLlmFacts, JobTold, JobKnows, RowStory, RowInv, EventMatches,
           StateAt, LearntAt, UnaskedStages, AnsweredStages, UnknownStages, EndingStages, BarrierStages, Closed,
           UnsettledStates, DeliveryOfState, StateOf, StatusOf, CompletionOf
  <2>4. stage \in Stages
    BY DEF Stages
  <2> HIDE DEF facts, stage
  <2> QED
    BY <2>1, <2>2, <2>3, <2>4, FactsTell
<1>2. CASE RecordKnownFailureFacts(t)
  <2> DEFINE facts == FactsOf(jobs[t].llm, "not_started", "not_required", "succeeded", "not_started", None)
             stage == IF jobs[t].llm \in NoticeIneligibleFailures THEN "failed-complete" ELSE "notice"
  <2>1. Working(t) /\ WriteFacts(t, facts, stage)
    BY <1>2 DEF RecordKnownFailureFacts, Working
  <2>2. facts \in Facts
    BY <1>c, <1>d, OwnFacts
  <2>3. FactsAreTrue(t, facts, stage)
    BY <1>a, <1>b, <1>2, <2>1, JobFacts, StoryFacts
       DEF RecordKnownFailureFacts, FactsAreTrue, FactsOf, UnknownLlmFacts, JobTold, JobKnows, RowStory, RowInv, EventMatches,
           StateAt, LearntAt, UnaskedStages, AnsweredStages, UnknownStages, EndingStages, BarrierStages, Closed,
           UnsettledStates, DeliveryOfState, StateOf, StatusOf, CompletionOf
  <2>4. stage \in Stages
    BY DEF Stages
  <2> HIDE DEF facts, stage
  <2> QED
    BY <2>1, <2>2, <2>3, <2>4, FactsTell
<1>3. CASE RecordDeliveryUnknown(t)
  <2> DEFINE facts == FactsOf(jobs[t].llm, "outcome_unknown", "failed", "succeeded", "failed",
                              "DELIVERY_OUTCOME_UNKNOWN")
             stage == "unknown-move"
  <2>1. Working(t) /\ WriteFacts(t, facts, stage)
    BY <1>3 DEF RecordDeliveryUnknown, Working
  <2>2. facts \in Facts
    BY <1>c, <1>d, OwnFacts
  <2>3. FactsAreTrue(t, facts, stage)
    BY <1>a, <1>b, <1>3, <2>1, JobFacts, StoryFacts
       DEF RecordDeliveryUnknown, FactsAreTrue, FactsOf, UnknownLlmFacts, JobTold, JobKnows, RowStory, RowInv, EventMatches,
           StateAt, LearntAt, UnaskedStages, AnsweredStages, UnknownStages, EndingStages, BarrierStages, Closed,
           UnsettledStates, DeliveryOfState, StateOf, StatusOf, CompletionOf
  <2>4. stage \in Stages
    BY DEF Stages
  <2> HIDE DEF facts, stage
  <2> QED
    BY <2>1, <2>2, <2>3, <2>4, FactsTell
<1>4. CASE RecordProvenDelivery(t)
  <2> DEFINE facts == FactsOf(jobs[t].llm, DeliveryStatus(jobs[t]), "pending", "succeeded", "pending",
                              DeliveryError(jobs[t]))
             stage == "delivery-move"
  <2>1. Working(t) /\ WriteFacts(t, facts, stage)
    BY <1>4 DEF RecordProvenDelivery, Working
  <2>2. facts \in Facts
    BY <1>c, <1>d, OwnFacts
  <2>3. FactsAreTrue(t, facts, stage)
    BY <1>a, <1>b, <1>4, <2>1, JobFacts, StoryFacts
       DEF RecordProvenDelivery, FactsAreTrue, FactsOf, UnknownLlmFacts, JobTold, JobKnows, RowStory, RowInv, EventMatches,
           StateAt, LearntAt, UnaskedStages, AnsweredStages, UnknownStages, EndingStages, BarrierStages, Closed,
           UnsettledStates, DeliveryOfState, StateOf, StatusOf, CompletionOf
  <2>4. stage \in Stages
    BY DEF Stages
  <2> HIDE DEF facts, stage
  <2> QED
    BY <2>1, <2>2, <2>3, <2>4, FactsTell
<1>5. CASE RecordCheckpointSucceeded(t)
  <2> DEFINE facts == FactsOf(jobs[t].llm, DeliveryStatus(jobs[t]), "succeeded", "succeeded", "pending",
                              DeliveryError(jobs[t]))
             stage == "audit-completion"
  <2>1. Working(t) /\ WriteFacts(t, facts, stage)
    BY <1>5 DEF RecordCheckpointSucceeded, Working
  <2>2. facts \in Facts
    BY <1>c, <1>d, OwnFacts
  <2>3. FactsAreTrue(t, facts, stage)
    BY <1>a, <1>b, <1>5, <2>1, JobFacts, StoryFacts
       DEF RecordCheckpointSucceeded, FactsAreTrue, FactsOf, UnknownLlmFacts, JobTold, JobKnows, RowStory, RowInv, EventMatches,
           StateAt, LearntAt, UnaskedStages, AnsweredStages, UnknownStages, EndingStages, BarrierStages, Closed,
           UnsettledStates, DeliveryOfState, StateOf, StatusOf, CompletionOf
  <2>4. stage \in Stages
    BY DEF Stages
  <2> HIDE DEF facts, stage
  <2> QED
    BY <2>1, <2>2, <2>3, <2>4, FactsTell
<1>6. CASE RecordCheckpointFailed(t)
  <2> DEFINE facts == FactsOf(jobs[t].llm, DeliveryStatus(jobs[t]), "failed", "succeeded", "pending",
                              "CONVERSATION_CHECKPOINT_FAILED")
             stage == "barrier-load"
  <2>1. Working(t) /\ WriteFacts(t, facts, stage)
    BY <1>6 DEF RecordCheckpointFailed, Working
  <2>2. facts \in Facts
    BY <1>c, <1>d, OwnFacts
  <2>3. FactsAreTrue(t, facts, stage)
    BY <1>a, <1>b, <1>6, <2>1, JobFacts, StoryFacts
       DEF RecordCheckpointFailed, FactsAreTrue, FactsOf, UnknownLlmFacts, JobTold, JobKnows, RowStory, RowInv, EventMatches,
           StateAt, LearntAt, UnaskedStages, AnsweredStages, UnknownStages, EndingStages, BarrierStages, Closed,
           UnsettledStates, DeliveryOfState, StateOf, StatusOf, CompletionOf
  <2>4. stage \in Stages
    BY DEF Stages
  <2> HIDE DEF facts, stage
  <2> QED
    BY <2>1, <2>2, <2>3, <2>4, FactsTell
<1>7. CASE RecordCompletionFacts(t)
  <2> DEFINE facts == FactsOf(jobs[t].llm, DeliveryStatus(jobs[t]), jobs[t].checkpoint, "succeeded",
                              CompletionStatus(jobs[t]),
                              IF jobs[t].checkpoint = "failed"
                              THEN "CONVERSATION_CHECKPOINT_FAILED"
                              ELSE DeliveryError(jobs[t]))
             stage == "complete"
  <2>1. Working(t) /\ WriteFacts(t, facts, stage)
    BY <1>7 DEF RecordCompletionFacts, Working
  <2>2. facts \in Facts
    BY <1>c, <1>d, OwnFacts
  <2>3. FactsAreTrue(t, facts, stage)
    BY <1>a, <1>b, <1>7, <2>1, JobFacts, StoryFacts
       DEF RecordCompletionFacts, FactsAreTrue, FactsOf, UnknownLlmFacts, JobTold, JobKnows, RowStory, RowInv, EventMatches,
           StateAt, LearntAt, UnaskedStages, AnsweredStages, UnknownStages, EndingStages, BarrierStages, Closed,
           UnsettledStates, DeliveryOfState, StateOf, StatusOf, CompletionOf
  <2>4. stage \in Stages
    BY DEF Stages
  <2> HIDE DEF facts, stage
  <2> QED
    BY <2>1, <2>2, <2>3, <2>4, FactsTell
<1> QED
  BY <1>1, <1>2, <1>3, <1>4, <1>5, <1>6, <1>7

----------------------------------------------------------------------------
\* A step of a job that writes neither its row nor its event.
LEMMA QuietTells ==
    ASSUME RuntimeInv, AuditStory, NEW t \in Turns, OthersAlone, NEW job, Only(t, job),
           UNCHANGED <<turns, auditCompletions>>, JobStory(job, turns[t], auditCompletions[t])
    PROVE  AuditStory'
<1>1. jobs'[t] = job /\ jobs' = [jobs EXCEPT ![t] = jobs'[t]]
  BY DEF Only, RuntimeInv, Typed
<1> QED
  BY <1>1, StillStory, JobTells DEF OthersAlone

\* It goes to another stage; what its story says there, it knew before.
LEMMA UpdateTells ==
    ASSUME RuntimeInv, AuditStory, NEW t \in Turns, OthersAlone, NEW job, Only(t, job),
           UNCHANGED <<turns, auditCompletions>>, NEW stage, NEW llm, NEW delivery, NEW checkpoint,
           Updated(job, jobs[t], stage, llm, delivery, checkpoint),
           JobTold(stage, delivery, checkpoint, turns[t].state, turns[t].facts, auditCompletions[t]),
           jobs[t].revision = turns[t].revision => JobKnows(stage, delivery, turns[t].facts)
    PROVE  AuditStory'
<1>1. JobStory(job, turns[t], auditCompletions[t])
  BY DEF JobStory, Updated
<1> QED
  BY <1>1, QuietTells

\* The steps to a stage no story speaks of.
LEMMA DullTells ==
    ASSUME RuntimeInv, AuditStory, NEW t \in Turns, OthersAlone,
           UNCHANGED <<turns, auditCompletions>>, NEW job, Only(t, job), job.stage \notin StoryStages
    PROVE  AuditStory'
  BY DullJob, QuietTells

LEMMA DullStepsTell ==
    ASSUME RuntimeInv, AuditStory, NEW t \in Turns, OthersAlone,
           \/ ReadKillSwitch(t) \/ RecordAuditStart(t) \/ EvaluateGate(t) \/ PutOutput(t) \/ InvokeDelivery(t)
           \/ \E result \in DeliveryOutcomes \cup {"error"} : DeliverySettles(t, result)
           \/ RecordOutboxOutcome(t) \/ RecordOutboxUnknown(t)
    PROVE  AuditStory'
<1> USE DEF StoryStages, EndingStages, BarrierStages
<1>1. JobTyped(jobs[t])
  BY DEF RuntimeInv, Typed
<1>2. \A stage : [jobs[t] EXCEPT !.stage = stage].stage = stage
  BY <1>1 DEF JobTyped
<1>3. ASSUME NEW kind, NEW stage, stage \notin StoryStages
      PROVE  AfterRecord(jobs[t], kind, stage).stage \notin StoryStages
  BY <1>2, <1>3 DEF AfterRecord
<1>4. DeliveryUnknown(jobs[t]).stage = "delivery-unknown"
  BY <1>1 DEF DeliveryUnknown, JobTyped
<1>5. CASE ReadKillSwitch(t) \/ EvaluateGate(t) \/ PutOutput(t)
  BY <1>2, <1>5, DullTells DEF ReadKillSwitch, EvaluateGate, PutOutput, OutboxCall, Goto, storeVars, ledgerVars, auditVars
<1>6. CASE RecordAuditStart(t)
  <2>1. UNCHANGED <<turns, auditCompletions>>
    BY <1>6 DEF RecordAuditStart, RecordStart, AuditCall, ledgerVars
  <2> QED
    BY <1>3, <1>6, <2>1, DullTells DEF RecordAuditStart
<1>7. CASE RecordOutboxOutcome(t) \/ RecordOutboxUnknown(t)
  <2>1. UNCHANGED <<turns, auditCompletions>>
    BY <1>7 DEF RecordOutboxOutcome, RecordOutboxUnknown, OutboxCall, ledgerVars, auditVars
  <2> QED
    BY <1>3, <1>7, <2>1, DullTells DEF RecordOutboxOutcome, RecordOutboxUnknown
<1>8. CASE InvokeDelivery(t)
  <2>1. UNCHANGED <<turns, auditCompletions>>
    BY <1>8 DEF InvokeDelivery, storeVars, ledgerVars, auditVars
  <2> QED
    BY <1>2, <1>4, <1>8, <2>1, DullTells DEF InvokeDelivery, Goto
<1>9. CASE \E result \in DeliveryOutcomes \cup {"error"} : DeliverySettles(t, result)
  <2>1. PICK result \in DeliveryOutcomes \cup {"error"} : DeliverySettles(t, result)
    BY <1>9
  <2>2. UNCHANGED <<turns, auditCompletions>>
    BY <2>1 DEF DeliverySettles, storeVars, ledgerVars, auditVars
  <2>3. [jobs[t] EXCEPT !.stage = "outbox-outcome", !.delivery = result].stage = "outbox-outcome"
    BY <1>1 DEF JobTyped
  <2> QED
    BY <1>4, <2>1, <2>2, <2>3, DullTells DEF DeliverySettles
<1> QED
  BY <1>5, <1>6, <1>7, <1>8, <1>9

\* The others: the model call, the checkpoint, the barrier, and what interrupts them.
LEMMA QuietStepsTell ==
    ASSUME RuntimeInv, AuditStory, NEW t \in Turns, OthersAlone,
           \/ InvokeLlm(t) \/ \E result \in OfferedLlmResults : LlmSettles(t, result)
           \/ LoadForCheckpoint(t) \/ WriteCheckpoint(t) \/ LoadForBarrier(t) \/ WriteBarrier(t)
           \/ Deadline(t) \/ PhaseFails(t)
    PROVE  AuditStory'
<1> USE DEF At, Stages, EndingStages, BarrierStages, ProvenOutcomes
<1> DEFINE state == turns[t].state
           facts == turns[t].facts
           event == auditCompletions[t]
           held == jobs[t].revision = turns[t].revision
<1>a. JobTyped(jobs[t])
  BY DEF RuntimeInv, Typed
<1>b. /\ JobTold(jobs[t].stage, jobs[t].delivery, jobs[t].checkpoint, state, facts, event)
      /\ held => JobKnows(jobs[t].stage, jobs[t].delivery, facts)
  BY StoryFacts
<1>c. \A llm \in LlmCompletionOutcomes : [jobs[t] EXCEPT !.stage = "failed-move", !.llm = llm].stage = "failed-move"
  BY <1>a DEF JobTyped
<1>1. CASE InvokeLlm(t)
  <2>1. At(t, "llm-call") /\ UNCHANGED <<turns, auditCompletions>>
    BY <1>1 DEF InvokeLlm, storeVars, ledgerVars, auditVars
  <2>2. CASE GenerationCurrent(t) /\ ~jobs[t].aborted
    <3> DEFINE job == [jobs[t] EXCEPT !.stage = "llm-wait"]
    <3>1. Only(t, job)
      BY <1>1, <2>2 DEF InvokeLlm, Goto
    <3>2. Updated(job, jobs[t], "llm-wait", jobs[t].llm, jobs[t].delivery, jobs[t].checkpoint)
      BY <1>a, JobUpdates
    <3> HIDE DEF job
    <3>3. /\ JobTold("llm-wait", jobs[t].delivery, jobs[t].checkpoint, state, facts, event)
          /\ held => JobKnows("llm-wait", jobs[t].delivery, facts)
      BY <1>b, <2>1 DEF JobTold, JobKnows
    <3> QED
      BY <2>1, <3>1, <3>2, <3>3, UpdateTells
  <2>3. CASE ~(GenerationCurrent(t) /\ ~jobs[t].aborted)
    <3>1. Only(t, LlmUnknown(jobs[t])) /\ LlmUnknown(jobs[t]).stage = "llm-unknown"
      BY <1>1, <1>a, <2>3 DEF InvokeLlm, LlmUnknown, JobTyped
    <3> QED
      BY <2>1, <3>1, DullTells DEF StoryStages
  <2> QED
    BY <2>2, <2>3
<1>2. CASE \E result \in OfferedLlmResults : LlmSettles(t, result)
  <2> PICK result \in OfferedLlmResults : LlmSettles(t, result)
    BY <1>2
  <2> DEFINE job == IF jobs[t].aborted \/ ~GenerationCurrent(t) THEN LlmUnknown(jobs[t]) ELSE LlmRoute(jobs[t], result)
  <2>1. At(t, "llm-wait") /\ UNCHANGED <<turns, auditCompletions>> /\ Only(t, job)
    BY DEF LlmSettles, storeVars, ledgerVars, auditVars
  <2>2. \/ Updated(job, jobs[t], "llm-unknown", "outcome-unknown", jobs[t].delivery, jobs[t].checkpoint)
        \/ Updated(job, jobs[t], "llm-complete", "completed", jobs[t].delivery, jobs[t].checkpoint)
        \/ Updated(job, jobs[t], "failed-move", result, jobs[t].delivery, jobs[t].checkpoint)
    BY <1>a, <2>1, JobUpdates DEF LlmUnknown, LlmRoute, LlmCompletionOutcomes, NoticeEligibleFailures,
                                  NoticeIneligibleFailures
  <2> HIDE DEF job
  <2>3. \A stage \in {"llm-unknown", "llm-complete", "failed-move"} :
          /\ JobTold(stage, jobs[t].delivery, jobs[t].checkpoint, state, facts, event)
          /\ held => JobKnows(stage, jobs[t].delivery, facts)
    BY <1>b, <2>1 DEF JobTold, JobKnows
  <2> QED
    BY <2>1, <2>2, <2>3, UpdateTells
<1>3. CASE LoadForCheckpoint(t)
  <2> DEFINE job == [jobs[t] EXCEPT !.stage = "checkpoint-write", !.loaded = snapshots[Home(t)]]
  <2>1. At(t, "checkpoint-load") /\ UNCHANGED <<turns, auditCompletions>> /\ Only(t, job)
    BY <1>3 DEF LoadForCheckpoint, storeVars, ledgerVars, auditVars
  <2>2. Updated(job, jobs[t], "checkpoint-write", jobs[t].llm, jobs[t].delivery, jobs[t].checkpoint)
    BY <1>a, JobUpdates
  <2> HIDE DEF job
  <2>3. /\ JobTold("checkpoint-write", jobs[t].delivery, jobs[t].checkpoint, state, facts, event)
        /\ held => JobKnows("checkpoint-write", jobs[t].delivery, facts)
    BY <1>b, <2>1 DEF JobTold, JobKnows
  <2> QED
    BY <2>1, <2>2, <2>3, UpdateTells
<1>4. CASE WriteCheckpoint(t)
  <2> DEFINE job == LET kind == CheckpointOutcome(Home(t), <<"checkpoint", t>>, jobs[t].loaded.revision,
                                                  NextCheckpoint(jobs[t].loaded, t))
                    IN IF kind \in {"stored", "already-applied"}
                       THEN [jobs[t] EXCEPT !.stage = "checkpoint-fact", !.checkpoint = "succeeded"]
                       ELSE CheckpointFailed(jobs[t])
  <2>1. At(t, "checkpoint-write") /\ UNCHANGED <<turns, auditCompletions>> /\ Only(t, job)
    BY <1>4 DEF WriteCheckpoint, ConversationCall, ledgerVars, auditVars
  <2>2. \/ Updated(job, jobs[t], "checkpoint-fact", jobs[t].llm, jobs[t].delivery, "succeeded")
        \/ Updated(job, jobs[t], "checkpoint-failed", jobs[t].llm, jobs[t].delivery, "failed")
    BY <1>a, JobUpdates DEF CheckpointFailed
  <2> HIDE DEF job
  <2>3. /\ JobTold("checkpoint-fact", jobs[t].delivery, "succeeded", state, facts, event)
        /\ JobTold("checkpoint-failed", jobs[t].delivery, "failed", state, facts, event)
        /\ held => JobKnows("checkpoint-fact", jobs[t].delivery, facts)
        /\ held => JobKnows("checkpoint-failed", jobs[t].delivery, facts)
    BY <1>b, <2>1 DEF JobTold, JobKnows
  <2> QED
    BY <2>1, <2>2, <2>3, UpdateTells
<1>5. CASE LoadForBarrier(t)
  <2> DEFINE job == AfterBarrierLoad(jobs[t], Home(t))
  <2>1. At(t, "barrier-load") /\ UNCHANGED <<turns, auditCompletions>> /\ Only(t, job)
    BY <1>5 DEF LoadForBarrier, storeVars, ledgerVars, auditVars
  <2>2. Updated(job, jobs[t], "barrier-write", jobs[t].llm, jobs[t].delivery, jobs[t].checkpoint)
    BY <1>a, JobUpdates DEF AfterBarrierLoad
  <2> HIDE DEF job
  <2>3. /\ JobTold("barrier-write", jobs[t].delivery, jobs[t].checkpoint, state, facts, event)
        /\ held => JobKnows("barrier-write", jobs[t].delivery, facts)
    BY <1>b, <2>1 DEF JobTold, JobKnows
  <2> QED
    BY <2>1, <2>2, <2>3, UpdateTells
<1>6. CASE WriteBarrier(t)
  <2> DEFINE after == IF jobs[t].checkpoint = "failed" THEN "audit-completion" ELSE "complete"
             job == AfterBarrierWrite(jobs[t],
                      BarrierOutcome(Home(t), <<BarrierReason(jobs[t]), t>>, jobs[t].loaded.revision), after)
  <2>1. At(t, "barrier-write") /\ UNCHANGED <<turns, auditCompletions>> /\ Only(t, job)
    BY <1>6 DEF WriteBarrier, ConversationCall, ledgerVars, auditVars
  <2>2. PICK stage \in {"barrier-load", "error", after} :
          Updated(job, jobs[t], stage, jobs[t].llm, jobs[t].delivery, jobs[t].checkpoint)
    BY <1>a, JobUpdates DEF AfterBarrierWrite
  <2> HIDE DEF job
  <2>3. jobs[t].delivery # None => jobs[t].delivery \in ProvenOutcomes \cup {"outcome-unknown"}
    BY <1>a DEF JobTyped, DeliveryOutcomes
  <2>4. /\ JobTold(stage, jobs[t].delivery, jobs[t].checkpoint, state, facts, event)
        /\ held => JobKnows(stage, jobs[t].delivery, facts)
    BY <1>b, <2>1, <2>3 DEF JobTold, JobKnows, Closed
  <2> QED
    BY <2>1, <2>2, <2>4, UpdateTells
<1>7. CASE Deadline(t)
  <2> DEFINE job == [jobs[t] EXCEPT !.aborted = TRUE]
  <2>1. UNCHANGED <<turns, auditCompletions>> /\ Only(t, job)
    BY <1>7 DEF Deadline, storeVars, ledgerVars, auditVars
  <2>2. Updated(job, jobs[t], jobs[t].stage, jobs[t].llm, jobs[t].delivery, jobs[t].checkpoint)
    BY <1>a, JobUpdates DEF JobTyped
  <2> HIDE DEF job
  <2> QED
    BY <1>b, <2>1, <2>2, UpdateTells
<1>8. CASE PhaseFails(t)
  <2>1. UNCHANGED <<turns, auditCompletions>>
    BY <1>8 DEF PhaseFails, storeVars, ledgerVars, auditVars
  <2>2. CASE jobs[t].stage \in {"checkpoint-load", "checkpoint-write"}
    <3> DEFINE job == CheckpointFailed(jobs[t])
    <3>1. Only(t, job)
      BY <1>8, <2>2 DEF PhaseFails
    <3>2. Updated(job, jobs[t], "checkpoint-failed", jobs[t].llm, jobs[t].delivery, "failed")
      BY <1>a, JobUpdates DEF CheckpointFailed
    <3> HIDE DEF job
    <3>3. /\ JobTold("checkpoint-failed", jobs[t].delivery, "failed", state, facts, event)
          /\ held => JobKnows("checkpoint-failed", jobs[t].delivery, facts)
      BY <1>b, <2>2 DEF JobTold, JobKnows
    <3> QED
      BY <2>1, <3>1, <3>2, <3>3, UpdateTells
  <2>3. CASE jobs[t].stage \notin {"checkpoint-load", "checkpoint-write"}
    <3>1. Only(t, [jobs[t] EXCEPT !.stage = "error"]) /\ [jobs[t] EXCEPT !.stage = "error"].stage = "error"
      BY <1>8, <1>a, <2>3 DEF PhaseFails, JobTyped
    <3> QED
      BY <2>1, <3>1, DullTells DEF StoryStages
  <2> QED
    BY <2>2, <2>3
<1> QED
  BY <1>1, <1>2, <1>3, <1>4, <1>5, <1>6, <1>7, <1>8

\* The completion event: a turn that has one had it written by its own job, or its
\* facts are not closed; either way the two agree.
LEMMA CompletionTells ==
    ASSUME RuntimeInv, AuditStory, NEW t \in Turns, OthersAlone, RecordAuditCompletion(t)
    PROVE  AuditStory'
<1> DEFINE event == CompletionEvent(jobs[t])
           kind == RecordCompletionKind(t, event)
           job == AfterRecord(jobs[t], kind, "completion-fact")
<1>1. /\ jobs[t].stage = "audit-completion" /\ Working(t) /\ Only(t, job)
      /\ RecordCompletion(t, event) /\ UNCHANGED <<turns, recovery>>
  BY DEF RecordAuditCompletion, At, Working, AuditCall, ledgerVars, OthersAlone
<1>2. /\ JobTyped(jobs[t]) /\ jobs[t].delivery \in ProvenOutcomes
      /\ auditCompletions \in [Turns -> CompletionEvents \cup {None}] /\ turns \in [Turns -> Rows]
      /\ DOMAIN jobs = Turns
  BY <1>1, JobFacts DEF LearntAt, AnsweredStages, AuditStory, Typed
<1>3. /\ turns[t].state \in {StateOf(jobs[t].delivery), "completed"}
      /\ turns[t].facts.delivery = StatusOf(jobs[t].delivery) /\ jobs[t].checkpoint \in Closed
  BY <1>1, <1>2, StoryFacts DEF JobTold, EndingStages
<1>4. /\ event.delivery = StatusOf(jobs[t].delivery) /\ event.checkpoint = jobs[t].checkpoint
      /\ event.completion = CompletionOf(jobs[t].delivery, jobs[t].checkpoint)
      /\ event.policy = policy /\ event \in CompletionEvents
  BY <1>3 DEF CompletionEvent, CompletionEvents, DeliveryStatus, StatusOf, CompletionStatus, CompletionOf, Closed,
              RuntimeInv, Typed
<1>5. event # None
  BY <1>4, AuditAssumption
<1> HIDE DEF event
<1>6. Updated(job, jobs[t], IF kind \in {"recorded", "already-recorded"} THEN "completion-fact" ELSE "error",
              jobs[t].llm, jobs[t].delivery, jobs[t].checkpoint)
  BY <1>2, JobUpdates DEF AfterRecord, Stages
<1>7. jobs'[t] = job /\ jobs' = [jobs EXCEPT ![t] = jobs'[t]]
  BY <1>1, <1>2 DEF Only
<1>8. /\ kind \in {"recorded", "already-recorded"} => auditCompletions'[t] = event
      /\ kind = "recorded" => auditCompletions[t] = None
      /\ kind # "recorded" => auditCompletions' = auditCompletions
      /\ auditCompletions' = [auditCompletions EXCEPT ![t] = auditCompletions'[t]]
  BY <1>1, <1>2 DEF RecordCompletion, RecordCompletionKind
<1> HIDE DEF kind, job
<1>9. StoryStep(t)
  <2>1. CASE kind = "recorded"
    <3>1. turns[t].facts.auditCompletion \notin Closed
      BY <1>3, <1>8, <2>1, StoryFacts DEF RowStory, StatusOf
    <3>2. RowStory(turns[t].state, turns[t].facts, event)
      BY <1>3, <1>4, <3>1, StoryFacts DEF RowStory, StateOf, EndedDelivery
    <3> QED
      BY <1>1, <1>2, <1>4, <1>8, <2>1, <3>2 DEF StoryStep, RowKeeps, EventKeeps
  <2>2. CASE kind # "recorded"
    BY <1>1, <1>8, <2>2, StillStory
  <2> QED
    BY <2>1, <2>2
<1>10. JobStory(jobs'[t], turns'[t], auditCompletions'[t])
  <2>1. CASE kind \in {"recorded", "already-recorded"}
    BY <1>1, <1>3, <1>4, <1>5, <1>6, <1>7, <1>8, <2>1
       DEF Updated, JobStory, JobTold, JobKnows, EventMatches, BarrierStages
  <2>2. CASE kind \notin {"recorded", "already-recorded"}
    BY <1>6, <1>7, <2>2, DullJob DEF Updated, StoryStages, EndingStages, BarrierStages
  <2> QED
    BY <2>1, <2>2
<1> QED
  BY <1>1, <1>7, <1>9, <1>10, JobTells

LEMMA JobsTell ==
    ASSUME RuntimeInv, AuditStory, NEW t \in Turns, JobStep(t)
    PROVE  AuditStory'
<1>1. OthersAlone
  BY DEF JobStep, OthersAlone
<1>2. CASE TextTurnStep(t)
  BY <1>1, <1>2, MovesTell, WritesTell, DullStepsTell, QuietStepsTell, CompletionTells DEF TextTurnStep
<1>3. CASE PhaseFails(t) \/ Deadline(t)
  BY <1>1, <1>3, QuietStepsTell
<1> QED
  BY <1>2, <1>3 DEF JobStep

----------------------------------------------------------------------------
\* What the story says of the candidate of recovery.
LEMMA CandidateTells ==
    ASSUME RuntimeInv, AuditStory, AtCandidate, NEW t \in Turns, t = Candidate
    PROVE  /\ recovery.turn = t
           /\ RowStory(turns[t].state, turns[t].facts, auditCompletions[t])
           /\ auditCompletions[t] \in CompletionEvents \cup {None}
           /\ CandidateTold(recovery.stage, recovery.at, recovery.delivery, recovery.checkpoint, turns[t].state,
                            turns[t].facts, auditCompletions[t])
           /\ recovery.revision = turns[t].revision =>
                CandidateKnows(recovery.stage, recovery.delivery, recovery.checkpoint, recovery.row.facts,
                               turns[t].state, turns[t].facts)
  BY StoryFacts DEF AuditStory, CandidateStory, Candidate

LEMMA StaleCandidate ==
    ASSUME NEW stage, stage \in {"pick", "error"}, recovery'.stage = stage
    PROVE  ~AtCandidate'
  BY DEF AtCandidate

\* A move of the candidate: whoever holds the revision knows that the facts fit.
RecoveryMoveIsTrue(t, to, stage) ==
    LET held == recovery.revision = turns[t].revision IN
    /\ held /\ to \in LegalTransitions[turns[t].state] => MoveFitsFacts(turns[t].state, to, turns[t].facts)
    /\ stage # "pick" /\ (held \/ turns[t].state = to) =>
         CandidateTold(stage, to, recovery.delivery, recovery.checkpoint, to, turns[t].facts, auditCompletions[t])
    /\ stage # "pick" /\ held =>
         CandidateKnows(stage, recovery.delivery, recovery.checkpoint, recovery.row.facts, to, turns[t].facts)

LEMMA RecoveryMoveTells ==
    ASSUME RuntimeInv, AuditStory, AtCandidate, WorkAlone, NEW t \in Turns, t = Candidate,
           NEW from \in TurnStates, NEW to \in TurnStates, NEW stage \in RecoveryStages,
           RecoveryMove(from, to, stage), RecoveryMoveIsTrue(t, to, stage)
    PROVE  AuditStory'
<1> DEFINE kind == TransitionOutcome(t, recovery.revision, from, to)
<1>1. /\ Typed /\ turns[t].revision \in Nat /\ recovery.revision \in Nat /\ RecoveryRecord(recovery)
      /\ auditCompletions \in [Turns -> CompletionEvents \cup {None}]
  BY CandidateFacts DEF AuditStory
<1>2. /\ Transition(t, recovery.revision, from, to)
      /\ recovery' = [AfterLedger(recovery, kind, stage) EXCEPT !.at = to]
      /\ auditCompletions' = auditCompletions /\ jobs' = jobs
  BY DEF RecoveryMove, LedgerCall, auditVars, WorkAlone
<1> HIDE DEF kind
<1>3. \/ /\ kind = "transitioned" /\ turns[t].revision = recovery.revision /\ turns[t].state = from
         /\ to \in LegalTransitions[from] /\ RowMoved(t, to)
      \/ kind = "already-transitioned" /\ turns[t].state = to /\ turns' = turns
      \/ /\ kind \notin {"transitioned", "already-transitioned", "recorded", "already-recorded"}
         /\ turns' = turns
  BY <1>1, <1>2, TransitionEffect DEF kind
<1>4. /\ kind = "transitioned" => Recovered(recovery', recovery, stage, recovery.revision + 1, to,
                                            recovery.delivery, recovery.checkpoint)
      /\ kind = "already-transitioned" => Recovered(recovery', recovery, stage, recovery.revision, to,
                                                    recovery.delivery, recovery.checkpoint)
      /\ kind \notin {"transitioned", "already-transitioned"} =>
           Recovered(recovery', recovery, "error", recovery.revision, to, recovery.delivery, recovery.checkpoint)
  BY <1>1, <1>2, <1>3, RecoveryLeftBy
<1>5. recovery'.rows = recovery.rows /\ recovery'.turn = t /\ recovery'.row = recovery.row
  BY <1>3, <1>4 DEF Recovered, Candidate
<1>6. CASE kind = "transitioned"
  <2>1. /\ RowStory(to, turns[t].facts, auditCompletions[t])
        /\ turns[t].state \in EndedDelivery \cup {"completed"} => to = "completed"
    BY <1>3, <1>6, StoryFacts, RowStoryMoves DEF RecoveryMoveIsTrue
  <2>2. StoryStep(t)
    BY <1>1, <1>2, <1>3, <1>6, <2>1 DEF StoryStep, RowMoved, RowKeeps, EventKeeps
  <2>3. AtCandidate' => CandidateStory(recovery', turns'[t], auditCompletions'[t])
    <3>1. CASE stage = "pick"
      BY <1>4, <1>6, <3>1, StaleCandidate DEF Recovered
    <3>2. CASE stage # "pick"
      BY <1>2, <1>3, <1>4, <1>5, <1>6, <3>2 DEF CandidateStory, Recovered, RowMoved, RecoveryMoveIsTrue
    <3> QED
      BY <3>1, <3>2
  <2> QED
    BY <1>2, <1>5, <2>2, <2>3, RecoveryTells
<1>7. CASE kind = "already-transitioned"
  <2>1. AtCandidate' => CandidateStory(recovery', turns'[t], auditCompletions'[t])
    <3>1. CASE stage = "pick"
      BY <1>4, <1>7, <3>1, StaleCandidate DEF Recovered
    <3>2. CASE stage # "pick"
      BY <1>2, <1>3, <1>4, <1>5, <1>7, <3>2 DEF CandidateStory, Recovered, RecoveryMoveIsTrue
    <3> QED
      BY <3>1, <3>2
  <2> QED
    BY <1>2, <1>3, <1>5, <1>7, <2>1, StillStory, RecoveryTells
<1>8. CASE kind \notin {"transitioned", "already-transitioned", "recorded", "already-recorded"}
  <2>1. ~AtCandidate'
    BY <1>4, <1>8, StaleCandidate DEF Recovered
  <2> QED
    BY <1>2, <1>3, <1>5, <1>8, <2>1, StillStory, RecoveryTells
<1> QED
  BY <1>3, <1>6, <1>7, <1>8

\* Facts written of the candidate: as far as the ledger lets them be rewritten.
RecoveryFactsAreTrue(t, facts, stage) ==
    recovery.revision = turns[t].revision /\ ~RewritesProvenFact(turns[t].facts, facts) =>
      /\ RowStory(turns[t].state, facts, auditCompletions[t])
      /\ turns[t].state \in EndedDelivery \cup {"completed"} => facts.delivery = turns[t].facts.delivery
      /\ CandidateTold(stage, recovery.at, recovery.delivery, recovery.checkpoint, turns[t].state, facts,
                       auditCompletions[t])
      /\ CandidateKnows(stage, recovery.delivery, recovery.checkpoint, recovery.row.facts, turns[t].state, facts)

LEMMA RecoveryFactsTell ==
    ASSUME RuntimeInv, AuditStory, AtCandidate, WorkAlone, NEW t \in Turns, t = Candidate,
           NEW facts \in Facts, NEW stage \in RecoveryStages,
           RecoveryFacts(facts, stage), RecoveryFactsAreTrue(t, facts, stage)
    PROVE  AuditStory'
<1> DEFINE kind == RecordFactualOutcomeKind(t, recovery.revision, facts)
<1>1. /\ Typed /\ turns[t].revision \in Nat /\ recovery.revision + 1 \in Nat /\ RecoveryRecord(recovery)
      /\ auditCompletions \in [Turns -> CompletionEvents \cup {None}] /\ "error" \in RecoveryStages
  BY CandidateFacts DEF AuditStory, RecoveryStages
<1>2. /\ RecordFactualOutcome(t, recovery.revision, facts)
      /\ recovery' = AfterLedger(recovery, kind, stage)
      /\ auditCompletions' = auditCompletions /\ jobs' = jobs
  BY DEF RecoveryFacts, LedgerCall, auditVars, WorkAlone
<1> HIDE DEF kind
<1>3. \/ /\ kind = "recorded" /\ turns[t].revision = recovery.revision /\ RowTold(t, facts)
         /\ ~RewritesProvenFact(turns[t].facts, facts)
      \/ /\ kind = "already-recorded" /\ turns[t].revision = recovery.revision /\ turns[t].facts = facts
         /\ turns' = turns
      \/ /\ kind \notin {"transitioned", "already-transitioned", "recorded", "already-recorded"}
         /\ turns' = turns
  BY <1>1, <1>2, FactsEffect DEF kind
<1>4. /\ kind = "recorded" => Recovered(recovery', recovery, stage, recovery.revision + 1, recovery.at,
                                        recovery.delivery, recovery.checkpoint)
      /\ kind = "already-recorded" => RecoveryTo(recovery', recovery, stage)
      /\ kind \notin {"transitioned", "already-transitioned", "recorded", "already-recorded"} =>
           RecoveryTo(recovery', recovery, "error")
  BY <1>1, <1>2, RecoveryUpdates DEF AfterLedger
<1>5. recovery'.rows = recovery.rows /\ recovery'.turn = t /\ recovery'.row = recovery.row
  BY <1>3, <1>4 DEF Recovered, RecoveryTo, Candidate
<1>6. CASE kind = "recorded"
  <2>1. StoryStep(t)
    BY <1>1, <1>2, <1>3, <1>6 DEF StoryStep, RowTold, RowKeeps, EventKeeps, RecoveryFactsAreTrue
  <2>2. CandidateStory(recovery', turns'[t], auditCompletions'[t])
    BY <1>2, <1>3, <1>4, <1>5, <1>6 DEF CandidateStory, Recovered, RowTold, RecoveryFactsAreTrue
  <2> QED
    BY <1>2, <1>5, <2>1, <2>2, RecoveryTells
<1>7. CASE kind = "already-recorded"
  <2>1. ~RewritesProvenFact(turns[t].facts, facts)
    BY <1>3, <1>7 DEF RewritesProvenFact
  <2>2. CandidateStory(recovery', turns'[t], auditCompletions'[t])
    BY <1>2, <1>3, <1>4, <1>5, <1>7, <2>1 DEF CandidateStory, Recovered, RecoveryTo, RecoveryFactsAreTrue
  <2> QED
    BY <1>2, <1>3, <1>5, <1>7, <2>2, StillStory, RecoveryTells
<1>8. CASE kind \notin {"transitioned", "already-transitioned", "recorded", "already-recorded"}
  <2>1. ~AtCandidate'
    BY <1>4, <1>8, StaleCandidate DEF Recovered, RecoveryTo
  <2> QED
    BY <1>2, <1>3, <1>5, <1>8, <2>1, StillStory, RecoveryTells
<1> QED
  BY <1>3, <1>6, <1>7, <1>8

LEMMA RecoveryMovesTell ==
    ASSUME RuntimeInv, AuditStory, WorkAlone,
           CancelCandidate \/ CompleteCandidate \/ RecoverLlmCancel \/ RecoverDeliveryMove
    PROVE  AuditStory'
<1> USE DEF Recovering
<1>1. AtCandidate
  BY DEF CancelCandidate, CompleteCandidate, RecoverLlmCancel, RecoverDeliveryMove, AtCandidate
<1>2. PICK t \in Turns : t = Candidate
  BY <1>1, CandidateFacts
<1> DEFINE row == turns[t]
           held == recovery.revision = row.revision
<1>3. /\ recovery.at \in TurnStates \ {"completed"} /\ (held => row.state = recovery.at)
      /\ RowInv(t) /\ RowStory(row.state, row.facts, auditCompletions[t])
      /\ recovery.delivery \in SettledDeliveries \cup {None} /\ None \notin SettledDeliveries
  <2>1. None \notin SettledDeliveries
    BY ConstantsAssumption DEF SettledDeliveries, DeliveryStatuses
  <2> QED
    BY <1>1, <1>2, <2>1, CandidateFacts, CandidateTells
<1>4. CASE CancelCandidate
  <2>1. RecoveryMove(recovery.at, "cancelled", "complete") /\ "cancelled" \in TurnStates /\ "complete" \in RecoveryStages
    BY <1>4 DEF CancelCandidate, TurnStates, RecoveryStages
  <2>2. RecoveryMoveIsTrue(t, "cancelled", "complete")
    BY DEF RecoveryMoveIsTrue, MoveFitsFacts, CandidateTold, CandidateKnows, UnsettledStates, EndedDelivery,
           ClosingStages, BarrierStages
  <2> QED
    BY <1>1, <1>2, <1>3, <2>1, <2>2, RecoveryMoveTells
<1>5. CASE CompleteCandidate
  <2>1. RecoveryMove(recovery.at, "completed", "pick") /\ "completed" \in TurnStates /\ "pick" \in RecoveryStages
    BY <1>5 DEF CompleteCandidate, TurnStates, RecoveryStages
  <2>2. RecoveryMoveIsTrue(t, "completed", "pick")
    <3> SUFFICES ASSUME held, "completed" \in LegalTransitions[row.state], row.facts.delivery \in SettledDeliveries
                 PROVE  row.facts.auditCompletion \in Closed
      BY DEF RecoveryMoveIsTrue, MoveFitsFacts, UnsettledStates, EndedDelivery
    <3>1. row.state \in DeliveryStates \cup {"completed"}
      BY <1>3 DEF RowInv, Settled
    <3>2. row.state \in TurnStates
      BY <3>1 DEF DeliveryStates, EndedDelivery, TurnStates
    <3>3. row.state \in EndedDelivery
      BY <3>1, <3>2, DeliveryMoves DEF DeliveryStates
    <3> QED
      BY <1>1, <1>2, <1>5, <3>3, CandidateTells DEF CandidateKnows, CompleteCandidate
  <2> QED
    BY <1>1, <1>2, <1>3, <2>1, <2>2, RecoveryMoveTells
<1>6. CASE RecoverLlmCancel
  <2>1. /\ RecoveryMove("llm_started", "cancelled", "barrier-load")
        /\ "llm_started" \in TurnStates /\ "cancelled" \in TurnStates /\ "barrier-load" \in RecoveryStages
    BY <1>6 DEF RecoverLlmCancel, TurnStates, RecoveryStages
  <2>2. recovery.delivery = None
    BY <1>1, <1>6, CandidateFacts DEF RecoverLlmCancel
  <2>3. RecoveryMoveIsTrue(t, "cancelled", "barrier-load")
    BY <1>3, <2>2
       DEF RecoveryMoveIsTrue, MoveFitsFacts, CandidateTold, CandidateKnows, UnsettledStates, EndedDelivery,
           ClosingStages, BarrierStages, SettledDeliveries
  <2> QED
    BY <1>1, <1>2, <2>1, <2>3, RecoveryMoveTells
<1>7. CASE RecoverDeliveryMove
  <2> DEFINE to == CASE recovery.delivery = "delivered" -> "delivered"
                     [] recovery.delivery = "failed" -> "delivery_failed"
                     [] OTHER -> "delivery_outcome_unknown"
  <2>1. RecoveryMove("delivery_started", to, "assess") /\ "delivery_started" \in TurnStates /\ "assess" \in RecoveryStages
    BY <1>7 DEF RecoverDeliveryMove, TurnStates, RecoveryStages
  <2>2. recovery.delivery \in SettledDeliveries /\ (held => row.facts.delivery = recovery.delivery)
    BY <1>1, <1>2, <1>7, CandidateFacts DEF RecoverDeliveryMove
  <2>3. to \in EndedDelivery /\ to \in TurnStates /\ DeliveryOfState(to) = recovery.delivery
    BY <2>2 DEF TurnStates, EndedDelivery, DeliveryOfState, SettledDeliveries
  <2> HIDE DEF to
  <2>4. row.state = to => row.facts.delivery = recovery.delivery
    BY <1>3, <2>3 DEF RowStory
  <2>5. held => CandidateKnows("assess", recovery.delivery, recovery.checkpoint, recovery.row.facts, to, row.facts)
    <3>1. held => CandidateKnows("delivery-move", recovery.delivery, recovery.checkpoint, recovery.row.facts,
                                 row.state, row.facts)
      BY <1>1, <1>2, <1>7, CandidateTells DEF RecoverDeliveryMove
    <3> QED
      BY <3>1 DEF CandidateKnows
  <2>6. held => MoveFitsFacts(row.state, to, row.facts)
    BY <2>2, <2>3 DEF MoveFitsFacts, UnsettledStates, EndedDelivery
  <2>7. held \/ row.state = to =>
          CandidateTold("assess", to, recovery.delivery, recovery.checkpoint, to, row.facts, auditCompletions[t])
    BY <1>3, <2>2, <2>3, <2>4 DEF CandidateTold, BarrierStages
  <2>8. RecoveryMoveIsTrue(t, to, "assess")
    BY <2>5, <2>6, <2>7 DEF RecoveryMoveIsTrue
  <2> QED
    BY <1>1, <1>2, <2>1, <2>3, <2>8, RecoveryMoveTells
<1> QED
  BY <1>4, <1>5, <1>6, <1>7

LEMMA RecoveryWritesTell ==
    ASSUME RuntimeInv, AuditStory, WorkAlone,
           RecoverLlmFacts \/ RecoverDeliveryFacts \/ ReconcileFailed \/ ReconcileFacts
    PROVE  AuditStory'
<1> USE DEF Recovering
<1>1. AtCandidate
  BY DEF RecoverLlmFacts, RecoverDeliveryFacts, ReconcileFailed, ReconcileFacts, AtCandidate
<1>2. PICK t \in Turns : t = Candidate
  BY <1>1, CandidateFacts
<1> DEFINE row == turns[t]
           held == recovery.revision = row.revision
           event == auditCompletions[t]
<1>3. /\ recovery.at \in TurnStates \ {"completed"} /\ (held => row.state = recovery.at)
      /\ RowInv(t) /\ RowStory(row.state, row.facts, event)
      /\ recovery.delivery \in SettledDeliveries \cup {None} /\ None \notin SettledDeliveries
      /\ recovery.checkpoint \in CheckpointStatuses
      /\ event \in CompletionEvents \cup {None}
  BY <1>1, <1>2, CandidateFacts, CandidateTells, ConstantsAssumption DEF SettledDeliveries, DeliveryStatuses
<1>4. /\ CandidateTold(recovery.stage, recovery.at, recovery.delivery, recovery.checkpoint, row.state, row.facts, event)
      /\ held => CandidateKnows(recovery.stage, recovery.delivery, recovery.checkpoint, recovery.row.facts,
                                row.state, row.facts)
  BY <1>1, <1>2, CandidateTells
<1>5. CASE RecoverLlmFacts
  <2> DEFINE facts == FactsOf("outcome-unknown", "not_started", "failed", recovery.row.facts.auditStart,
                              recovery.row.facts.auditCompletion, "LLM_OUTCOME_UNKNOWN")
  <2>1. RecoveryFacts(facts, "llm-cancel") /\ recovery.stage = "llm-fact" /\ "llm-cancel" \in RecoveryStages
    BY <1>5 DEF RecoverLlmFacts, RecoveryStages
  <2>2. facts \in Facts
    BY <1>1, CandidateRow, OwnFacts DEF LlmCompletionOutcomes, DeliveryStatuses, CheckpointStatuses, FactErrorCodes
  <2>3. facts.delivery = "not_started" /\ recovery.at = "llm_started"
    BY <1>1, <2>1, CandidateFacts DEF FactsOf
  <2> HIDE DEF facts
  <2>4. held => RowStory("llm_started", facts, event)
    BY <1>3, <2>3 DEF RowStory, EndedDelivery, SettledDeliveries, UnsettledStates
  <2>5. RecoveryFactsAreTrue(t, facts, "llm-cancel")
    BY <1>3, <2>3, <2>4
       DEF RecoveryFactsAreTrue, CandidateTold, CandidateKnows, ClosingStages, BarrierStages, EndedDelivery
  <2> QED
    BY <1>1, <1>2, <2>1, <2>2, <2>5, RecoveryFactsTell
<1>6. CASE RecoverDeliveryFacts
  <2> DEFINE error == CASE recovery.delivery = "delivered" -> None
                        [] recovery.delivery = "failed" -> "DELIVERY_FAILED"
                        [] OTHER -> "DELIVERY_OUTCOME_UNKNOWN"
             facts == FactsOf(None, recovery.delivery, recovery.checkpoint, recovery.row.facts.auditStart,
                              recovery.row.facts.auditCompletion, error)
  <2>1. RecoveryFacts(facts, "delivery-move") /\ recovery.stage = "delivery-fact" /\ "delivery-move" \in RecoveryStages
    BY <1>6 DEF RecoverDeliveryFacts, RecoveryStages
  <2>2. /\ error \in FactErrorCodes \cup {None} /\ recovery.delivery \in SettledDeliveries
        /\ recovery.at = "delivery_started"
    BY <1>1, <2>1, CandidateFacts DEF FactErrorCodes
  <2>3. /\ facts.delivery = recovery.delivery /\ facts.checkpoint = recovery.checkpoint
        /\ facts.auditCompletion = recovery.row.facts.auditCompletion
    BY DEF FactsOf
  <2> HIDE DEF error
  <2>4. facts \in Facts
    BY <1>1, <2>2, CandidateRow, CandidateFacts, OwnFacts DEF DeliveryStatuses, SettledDeliveries
  <2> HIDE DEF facts
  <2>5. held => recovery.row.facts = row.facts
    BY <1>4, <2>1 DEF CandidateKnows
  <2>6. recovery.delivery = "outcome_unknown" => recovery.checkpoint = "failed"
    BY <1>4, <2>1 DEF CandidateTold
  <2>7. ASSUME held, ~RewritesProvenFact(row.facts, facts)
        PROVE  RowStory("delivery_started", facts, event)
    <3>1. event = None
      BY <1>3, <2>2, <2>7 DEF RowStory, EndedDelivery
    <3>2. facts.auditCompletion \in Closed =>
            /\ row.facts.delivery = "outcome_unknown" /\ facts.delivery = "outcome_unknown"
            /\ facts.auditCompletion # "succeeded"
      BY <1>3, <2>2, <2>3, <2>5, <2>7 DEF RowStory, RewritesProvenFact
    <3> QED
      BY <2>3, <2>6, <3>1, <3>2 DEF RowStory, EndedDelivery, UnsettledStates, Closed
  <2>8. held => CandidateKnows("delivery-move", recovery.delivery, recovery.checkpoint, recovery.row.facts,
                               row.state, facts)
    BY <2>3 DEF CandidateKnows
  <2>9. RecoveryFactsAreTrue(t, facts, "delivery-move")
    BY <1>3, <2>2, <2>7, <2>8
       DEF RecoveryFactsAreTrue, CandidateTold, ClosingStages, BarrierStages, EndedDelivery
  <2> QED
    BY <1>1, <1>2, <2>1, <2>4, <2>9, RecoveryFactsTell
<1>7. CASE ReconcileFailed \/ ReconcileFacts
  <2>1. PICK completion \in AuditCompletionStatuses, error \in FactErrorCodes \cup {None} :
          /\ RecoveryFacts(RecoveredFacts(completion, error), "complete")
          /\ \/ /\ ReconcileFailed /\ completion = "failed" /\ recovery.stage = "reconcile"
                /\ recovery.row.facts.auditCompletion = "failed" /\ recovery.checkpoint # "succeeded"
             \/ ReconcileFacts /\ completion = RecoveredCompletion /\ recovery.stage = "completion-fact"
    <3>1. CASE ReconcileFailed
      BY <3>1 DEF ReconcileFailed, AuditContradicts, AuditCompletionStatuses, FactErrorCodes
    <3>2. CASE ReconcileFacts
      <4>1. RecoveredCompletion \in AuditCompletionStatuses
        BY DEF RecoveredCompletion, AuditCompletionStatuses
      <4> QED
        BY <3>2, <4>1 DEF ReconcileFacts, FactErrorCodes
    <3> QED
      BY <1>7, <3>1, <3>2
  <2> DEFINE facts == RecoveredFacts(completion, error)
  <2>2. /\ recovery.delivery \in SettledDeliveries /\ recovery.at \in EndedDelivery
        /\ recovery.stage \in ClosingStages /\ recovery.delivery # None
    BY <1>1, <1>3, <2>1, CandidateFacts DEF ClosingStages
  <2>3. /\ facts.delivery = recovery.delivery /\ facts.checkpoint = recovery.checkpoint
        /\ facts.auditCompletion = completion
    BY DEF RecoveredFacts, FactsOf
  <2>4. facts \in Facts
    BY <1>1, <2>2, CandidateRow, CandidateFacts, OwnFacts
       DEF DeliveryStatuses, AuditStartStatuses, RecoveredFacts, SettledDeliveries
  <2>5. RecoveryFacts(facts, "complete") /\ "complete" \in RecoveryStages
    BY <2>1 DEF RecoveryStages
  <2> HIDE DEF facts
  <2>6. /\ recovery.delivery = DeliveryOfState(recovery.at) /\ row.facts.delivery = recovery.delivery
        /\ recovery.checkpoint \in Closed
        /\ recovery.delivery = "outcome_unknown" => recovery.checkpoint = "failed"
        /\ recovery.stage = "completion-fact" =>
             EventMatches(event, recovery.delivery, recovery.checkpoint,
                          CompletionOf(recovery.delivery, recovery.checkpoint))
    BY <1>4, <2>1, <2>2 DEF CandidateTold
  <2>7. CASE ReconcileFacts /\ completion = RecoveredCompletion /\ recovery.stage = "completion-fact"
    <3>1. /\ completion = CompletionOf(recovery.delivery, recovery.checkpoint) /\ completion \in Closed
          /\ recovery.delivery = "outcome_unknown" => completion # "succeeded"
      BY <2>7 DEF RecoveredCompletion, CompletionOf, Closed
    <3>2. EventMatches(event, facts.delivery, facts.checkpoint, facts.auditCompletion)
      BY <2>3, <2>6, <2>7, <3>1
    <3>3. RowStory(recovery.at, facts, event)
      BY <1>3, <2>2, <2>3, <2>6, <3>1, <3>2 DEF RowStory, EventMatches, EndedDelivery, UnsettledStates
    <3>4. RecoveryFactsAreTrue(t, facts, "complete")
      BY <1>3, <2>3, <2>6, <3>1, <3>3 DEF RecoveryFactsAreTrue, CandidateTold, CandidateKnows, ClosingStages, BarrierStages
    <3> QED
      BY <1>1, <1>2, <2>4, <2>5, <3>4, RecoveryFactsTell
  <2>8. CASE /\ ReconcileFailed /\ completion = "failed" /\ recovery.stage = "reconcile"
             /\ recovery.row.facts.auditCompletion = "failed" /\ recovery.checkpoint # "succeeded"
    <3>1. recovery.checkpoint = "failed" /\ completion \in Closed
      BY <2>6, <2>8 DEF Closed
    <3>2. ASSUME held
          PROVE  /\ row.facts.auditCompletion = "failed" /\ row.facts.auditCompletion \in Closed
                 /\ recovery.delivery # "outcome_unknown" => row.facts.checkpoint # "succeeded"
                 /\ recovery.delivery = "outcome_unknown" => row.facts.checkpoint = "failed"
      BY <1>3, <1>4, <2>2, <2>6, <2>8, <3>2 DEF CandidateKnows, RowStory, Closed
    <3>3. ASSUME held, event # None
          PROVE  EventMatches(event, facts.delivery, facts.checkpoint, facts.auditCompletion)
      <4>1. EventMatches(event, row.facts.delivery, row.facts.checkpoint, row.facts.auditCompletion)
        BY <1>3, <3>2, <3>3 DEF RowStory
      <4>2. event.checkpoint \in {"succeeded", "failed"}
        BY <1>3, <3>3 DEF CompletionEvents
      <4>3. row.facts.checkpoint = "failed"
        BY <3>2, <3>3, <4>1, <4>2 DEF EventMatches
      <4> QED
        BY <2>3, <2>6, <2>8, <3>1, <3>2, <3>3, <4>1, <4>3
    <3>4. held /\ facts.delivery \in {"delivered", "failed"} => event # None
      BY <1>3, <2>3, <2>6, <3>2 DEF RowStory
    <3>5. held => RowStory(recovery.at, facts, event)
      BY <1>3, <2>2, <2>3, <2>6, <2>8, <3>1, <3>3, <3>4 DEF RowStory, EndedDelivery, UnsettledStates
    <3>6. RecoveryFactsAreTrue(t, facts, "complete")
      BY <1>3, <2>3, <2>6, <3>1, <3>5 DEF RecoveryFactsAreTrue, CandidateTold, CandidateKnows, ClosingStages, BarrierStages
    <3> QED
      BY <1>1, <1>2, <2>4, <2>5, <3>6, RecoveryFactsTell
  <2> QED
    BY <2>1, <2>7, <2>8
<1> QED
  BY <1>5, <1>6, <1>7

\* A step of recovery that writes no row takes its story along.
LEMMA LookTells ==
    ASSUME RuntimeInv, AuditStory, AtCandidate, WorkAlone, UNCHANGED <<turns, auditCompletions>>,
           NEW t \in Turns, t = Candidate, NEW stage, NEW delivery, NEW checkpoint,
           GoesTo(stage, delivery, checkpoint),
           stage # "error" =>
             /\ CandidateTold(stage, recovery.at, delivery, checkpoint, turns[t].state, turns[t].facts,
                              auditCompletions[t])
             /\ recovery.revision = turns[t].revision =>
                  CandidateKnows(stage, delivery, checkpoint, recovery.row.facts, turns[t].state, turns[t].facts)
    PROVE  AuditStory'
<1>1. /\ recovery'.rows = recovery.rows /\ recovery'.turn = t /\ recovery'.row = recovery.row
      /\ recovery'.stage = stage /\ recovery'.revision = recovery.revision /\ recovery'.at = recovery.at
      /\ recovery'.delivery = delivery /\ recovery'.checkpoint = checkpoint
  BY DEF GoesTo, Recovered, Candidate
<1>2. AtCandidate' => CandidateStory(recovery', turns'[t], auditCompletions'[t])
  BY <1>1, StaleCandidate DEF CandidateStory
<1> QED
  BY <1>1, <1>2, StillStory, RecoveryTells DEF WorkAlone

LEMMA RecoveryLooksTell ==
    ASSUME RuntimeInv, AuditStory, WorkAlone, AtCandidate,
           \/ RecoverOutbox \/ RecoverTombstone \/ AssessCheckpoint \/ RecoverBarrierLoad \/ RecoverBarrierWrite
           \/ ReconcileContradiction \/ ReconcileRecorded \/ RecoveryFails
    PROVE  AuditStory'
<1> USE DEF Recovering, Keeps
<1>1. PICK t \in Turns : t = Candidate
  BY CandidateFacts
<1> DEFINE row == turns[t]
           held == recovery.revision = row.revision
           event == auditCompletions[t]
<1>2. /\ recovery.at \in TurnStates \ {"completed"} /\ (held => row.state = recovery.at)
      /\ recovery.delivery \in SettledDeliveries \cup {None} /\ None \notin SettledDeliveries
      /\ recovery.checkpoint \in CheckpointStatuses
  <2>1. None \notin SettledDeliveries
    BY ConstantsAssumption DEF SettledDeliveries, DeliveryStatuses
  <2> QED
    BY <1>1, <2>1, CandidateFacts
<1>3. /\ CandidateTold(recovery.stage, recovery.at, recovery.delivery, recovery.checkpoint, row.state, row.facts, event)
      /\ held => CandidateKnows(recovery.stage, recovery.delivery, recovery.checkpoint, recovery.row.facts,
                                row.state, row.facts)
  BY <1>1, CandidateTells
<1>4. UNCHANGED <<turns, auditCompletions>>
  BY DEF RecoverOutbox, RecoverTombstone, AssessCheckpoint, RecoverBarrierLoad, RecoverBarrierWrite,
     ReconcileContradiction, ReconcileRecorded, RecoveryFails, storeVars, ledgerVars, auditVars, OutboxCall,
     ConversationCall
<1> DEFINE Fits(stage, delivery, checkpoint) ==
             /\ CandidateTold(stage, recovery.at, delivery, checkpoint, row.state, row.facts, event)
             /\ held => CandidateKnows(stage, delivery, checkpoint, recovery.row.facts, row.state, row.facts)
<1>5. ASSUME NEW stage, NEW delivery, NEW checkpoint, GoesTo(stage, delivery, checkpoint),
             stage # "error" => Fits(stage, delivery, checkpoint)
      PROVE  AuditStory'
  BY <1>1, <1>4, <1>5, LookTells
<1>6. CASE RecoverOutbox
  <2>1. PICK stage \in {"tombstone", "delivery-fact"}, delivery \in SettledDeliveries, checkpoint \in CheckpointStatuses :
          GoesTo(stage, delivery, checkpoint) /\ (delivery = "outcome_unknown" => checkpoint = "failed")
    BY <1>6, OutboxGoes
  <2>2. Fits(stage, delivery, checkpoint)
    BY <1>3, <1>6, <2>1 DEF RecoverOutbox, CandidateTold, CandidateKnows, ClosingStages, BarrierStages
  <2> QED
    BY <1>5, <2>1, <2>2
<1>7. CASE RecoverTombstone
  <2>1. Keeps("delivery-fact") \/ Keeps("error")
    BY <1>7, LooksGo
  <2>2. Fits("delivery-fact", recovery.delivery, recovery.checkpoint)
    BY <1>3, <1>7 DEF RecoverTombstone, CandidateTold, CandidateKnows, ClosingStages, BarrierStages
  <2> QED
    BY <1>5, <2>1, <2>2
<1>8. CASE AssessCheckpoint
  <2>1. \/ Keeps("barrier-load") /\ (recovery.delivery = "outcome_unknown" \/ recovery.checkpoint # "succeeded")
        \/ Keeps("reconcile") /\ recovery.delivery # "outcome_unknown" /\ recovery.checkpoint = "succeeded"
        \/ Keeps("error")
    BY <1>8, AssessGoes
  <2>2. recovery.delivery = "outcome_unknown" \/ recovery.checkpoint # "succeeded" =>
          Fits("barrier-load", recovery.delivery, recovery.checkpoint)
    BY <1>3, <1>8 DEF AssessCheckpoint, CandidateTold, CandidateKnows, ClosingStages, BarrierStages
  <2>3. recovery.delivery # "outcome_unknown" /\ recovery.checkpoint = "succeeded" =>
          Fits("reconcile", recovery.delivery, recovery.checkpoint)
    BY <1>3, <1>8 DEF AssessCheckpoint, CandidateTold, CandidateKnows, ClosingStages, BarrierStages, Closed
  <2> HIDE DEF Fits
  <2> QED
    BY <1>5, <2>1, <2>2, <2>3
<1>9. CASE RecoverBarrierLoad
  <2>1. Keeps("barrier-write")
    BY <1>9, LooksGo
  <2>2. Fits("barrier-write", recovery.delivery, recovery.checkpoint)
    BY <1>3, <1>9 DEF RecoverBarrierLoad, CandidateTold, CandidateKnows, ClosingStages, BarrierStages
  <2> QED
    BY <1>5, <2>1, <2>2
<1>10. CASE RecoverBarrierWrite
  <2>1. PICK stage \in {AfterBarrier, "barrier-load", "error"} : GoesTo(stage, recovery.delivery, "failed")
    BY <1>10, BarrierGoes
  <2>2. recovery.delivery = None => Fits("complete", recovery.delivery, "failed")
    BY <1>2, <1>3, <1>10 DEF RecoverBarrierWrite, CandidateTold, CandidateKnows, ClosingStages, BarrierStages
  <2>3. recovery.delivery # None => Fits("reconcile", recovery.delivery, "failed")
    BY <1>2, <1>3, <1>10
       DEF RecoverBarrierWrite, CandidateTold, CandidateKnows, ClosingStages, BarrierStages, Closed, SettledDeliveries
  <2>4. Fits("barrier-load", recovery.delivery, "failed")
    BY <1>2, <1>3, <1>10
       DEF RecoverBarrierWrite, CandidateTold, CandidateKnows, ClosingStages, BarrierStages, SettledDeliveries
  <2> HIDE DEF Fits
  <2> QED
    BY <1>5, <2>1, <2>2, <2>3, <2>4 DEF AfterBarrier
<1>11. CASE ReconcileContradiction \/ RecoveryFails
  <2>1. Keeps("error")
    BY <1>11, LooksGo
  <2> QED
    BY <1>5, <2>1
<1>12. CASE ReconcileRecorded
  <2>1. Keeps("complete") /\ recovery.delivery # None
    BY <1>12, LooksGo, CandidateFacts DEF ReconcileRecorded
  <2>2. Fits("complete", recovery.delivery, recovery.checkpoint)
    BY <1>3, <1>12, <2>1
       DEF ReconcileRecorded, CandidateTold, CandidateKnows, ClosingStages, BarrierStages, Closed
  <2> QED
    BY <1>5, <2>1, <2>2
<1> QED
  BY <1>6, <1>7, <1>8, <1>9, <1>10, <1>11, <1>12

\* Recovery writes the completion event of a turn that has none, or finds its own.
LEMMA ReconcileAuditTells ==
    ASSUME RuntimeInv, AuditStory, WorkAlone, ReconcileAudit
    PROVE  AuditStory'
<1>1. AtCandidate
  BY DEF ReconcileAudit, Recovering, AtCandidate
<1>2. PICK t \in Turns : t = Candidate
  BY <1>1, CandidateFacts
<1> DEFINE event == RecoveredEvent
           kind == RecordCompletionKind(t, event)
           row == turns[t]
           held == recovery.revision = row.revision
<1>3. /\ RecordCompletion(t, event) /\ UNCHANGED <<turns, jobs>> /\ recovery.stage = "reconcile"
      /\ recovery.row.facts.auditCompletion \notin Closed
  BY <1>2 DEF ReconcileAudit, Recovering, AuditCall, ledgerVars, WorkAlone, Closed
<1>4. \/ kind \in {"recorded", "already-recorded"} /\ Keeps("completion-fact")
      \/ kind = "rejected" /\ Keeps("error")
  BY <1>1, <1>2, LooksGo DEF ReconcileAudit
<1>5. /\ CandidateTold("reconcile", recovery.at, recovery.delivery, recovery.checkpoint, row.state, row.facts,
                       auditCompletions[t])
      /\ held => CandidateKnows("reconcile", recovery.delivery, recovery.checkpoint, recovery.row.facts,
                                row.state, row.facts)
      /\ RowStory(row.state, row.facts, auditCompletions[t])
      /\ auditCompletions \in [Turns -> CompletionEvents \cup {None}]
  BY <1>1, <1>2, <1>3, CandidateTells DEF AuditStory
<1>6. recovery.delivery # None /\ recovery.delivery \in SettledDeliveries
  BY <1>1, <1>3, CandidateFacts
<1>7. /\ recovery.at \in EndedDelivery /\ row.state \in {recovery.at, "completed"}
      /\ row.facts.delivery = recovery.delivery /\ recovery.checkpoint \in Closed
      /\ recovery.delivery = "outcome_unknown" => recovery.checkpoint = "failed"
  BY <1>5, <1>6 DEF CandidateTold, ClosingStages
<1>8. /\ event.delivery = recovery.delivery /\ event.checkpoint = recovery.checkpoint
      /\ event.completion = CompletionOf(recovery.delivery, recovery.checkpoint)
      /\ event \in CompletionEvents
  BY <1>6, <1>7 DEF RecoveredEvent, CompletionEvents, RecoveredCompletion, CompletionOf, Closed, SettledDeliveries,
     RuntimeInv, Typed
<1>9. event # None
  BY <1>8, AuditAssumption
<1> HIDE DEF event
<1>10. /\ kind \in {"recorded", "already-recorded"} => auditCompletions'[t] = event
       /\ kind = "recorded" => auditCompletions[t] = None
       /\ kind # "recorded" => auditCompletions' = auditCompletions
       /\ auditCompletions' = [auditCompletions EXCEPT ![t] = auditCompletions'[t]]
  BY <1>3, <1>5 DEF RecordCompletion, RecordCompletionKind
<1> HIDE DEF kind
<1>11. StoryStep(t)
  <2>1. CASE kind = "recorded"
    <3>1. row.facts.auditCompletion \in Closed =>
            /\ row.facts.delivery = "outcome_unknown" /\ row.facts.checkpoint = "failed"
            /\ row.facts.auditCompletion = "failed"
      BY <1>5, <1>6, <1>7, <1>10, <2>1 DEF RowStory, SettledDeliveries, Closed
    <3>2. RowStory(row.state, row.facts, event)
      BY <1>5, <1>7, <1>8, <1>9, <3>1 DEF RowStory, EventMatches, CompletionOf
    <3> QED
      BY <1>3, <1>5, <1>8, <1>10, <2>1, <3>2 DEF StoryStep, RowKeeps, EventKeeps, RuntimeInv, Typed
  <2>2. CASE kind # "recorded"
    BY <1>3, <1>10, <2>2, StillStory
  <2> QED
    BY <2>1, <2>2
<1>12. recovery'.rows = recovery.rows /\ recovery'.turn = t /\ recovery'.row = recovery.row
  BY <1>2, <1>4 DEF Keeps, GoesTo, Recovered, Candidate
<1>13. AtCandidate' => CandidateStory(recovery', turns'[t], auditCompletions'[t])
  <2>1. CASE kind = "rejected" /\ Keeps("error")
    BY <2>1, StaleCandidate DEF Keeps, GoesTo, Recovered
  <2>2. CASE kind \in {"recorded", "already-recorded"} /\ Keeps("completion-fact")
    <3>1. CandidateTold("completion-fact", recovery.at, recovery.delivery, recovery.checkpoint, row.state, row.facts,
                        event)
      BY <1>5, <1>7, <1>8, <1>9, <2>2 DEF CandidateTold, EventMatches, ClosingStages, BarrierStages
    <3>2. held => CandidateKnows("completion-fact", recovery.delivery, recovery.checkpoint, recovery.row.facts,
                                 row.state, row.facts)
      BY <1>5 DEF CandidateKnows, ClosingStages
    <3> QED
      BY <1>3, <1>10, <1>12, <2>2, <3>1, <3>2 DEF Keeps, GoesTo, Recovered, CandidateStory
  <2> QED
    BY <1>4, <2>1, <2>2
<1> QED
  BY <1>3, <1>11, <1>12, <1>13, RecoveryTells

LEMMA PagesTell ==
    ASSUME RuntimeInv, AuditStory, WorkAlone, ListCandidates \/ PageIsDone
    PROVE  AuditStory'
<1>1. UNCHANGED <<turns, auditCompletions, jobs>>
  BY DEF ListCandidates, PageIsDone, WorkAlone, storeVars, ledgerVars, auditVars
<1>2. PICK stage \in {"done", "error", "pick", "list"}, page \in SUBSET UnfinishedTurns :
        /\ recovery'.stage = stage
        /\ recovery'.rows = <<>> \/ recovery'.rows = [t \in page |-> turns[t]]
  BY PageGoes
<1>3. ASSUME NEW u \in DOMAIN recovery'.rows
      PROVE  ListedStory(recovery'.rows[u], turns[u])
  <2>1. u \in page /\ recovery'.rows[u] = turns[u]
    BY <1>2, <1>3
  <2>2. RowStory(turns[u].state, turns[u].facts, auditCompletions[u])
    BY <2>1, StoryFacts DEF UnfinishedTurns
  <2> QED
    BY <2>1, <2>2 DEF ListedStory, RowStory, DeliveryOfState, EndedDelivery
<1>4. ~AtCandidate'
  BY <1>2 DEF AtCandidate
<1>5. \A u \in Turns : SameLocals(jobs'[u], jobs[u])
  BY <1>1 DEF SameLocals
<1> QED
  BY <1>1, <1>3, <1>4, <1>5, LocalsTell

LEMMA PicksTell ==
    ASSUME RuntimeInv, AuditStory, WorkAlone, NEW t \in Turns, PickCandidate(t)
    PROVE  AuditStory'
<1> DEFINE listed == recovery.rows[t]
           row == turns[t]
           stage == FirstStage(listed)
           delivery == DeliveryOfState(listed.state)
           held == listed.revision = row.revision
<1>1. /\ t \in DOMAIN recovery.rows /\ UNCHANGED <<turns, auditCompletions, jobs>>
  BY DEF PickCandidate, WorkAlone, storeVars, ledgerVars, auditVars
<1>2. /\ recovery'.stage = stage /\ recovery'.turn = t /\ recovery'.row = listed
      /\ recovery'.revision = listed.revision /\ recovery'.at = listed.state
      /\ recovery'.delivery = delivery /\ recovery'.checkpoint = listed.facts.checkpoint
      /\ recovery'.rows = [u \in DOMAIN recovery.rows \ {t} |-> recovery.rows[u]]
  <2> DEFINE rest == [u \in DOMAIN recovery.rows \ {t} |-> recovery.rows[u]]
  <2>1. recovery' = [ stage |-> stage, listed |-> recovery.listed, rows |-> rest, turn |-> t, row |-> listed,
                      revision |-> listed.revision, at |-> listed.state, delivery |-> delivery,
                      checkpoint |-> listed.facts.checkpoint, reason |-> None, loaded |-> NoSnapshot, attempts |-> 0 ]
    BY PickGoes
  <2> HIDE DEF listed, stage, delivery, rest
  <2>2. /\ recovery'.stage = stage /\ recovery'.turn = t /\ recovery'.row = listed
        /\ recovery'.revision = listed.revision /\ recovery'.at = listed.state
        /\ recovery'.delivery = delivery /\ recovery'.checkpoint = listed.facts.checkpoint
        /\ recovery'.rows = rest
    BY <2>1
  <2> QED
    BY <2>2 DEF rest
<1>3. ListedStory(listed, row) /\ ListedInv(t)
  BY <1>1 DEF AuditStory, RuntimeInv, RecoveryInv
<1>4. /\ stage \in {"read-outbox", "llm-fact", "assess", "complete", "cancel"}
      /\ stage = "assess" => listed.state \in EndedDelivery
      /\ stage = "complete" => listed.state \notin EndedDelivery
      /\ listed.state \in EndedDelivery => delivery # None
  BY ConstantsAssumption DEF FirstStage, EndedDelivery, DeliveryOfState, DeliveryStatuses
<1>5. CandidateTold(stage, listed.state, delivery, listed.facts.checkpoint, row.state, row.facts, auditCompletions[t])
  BY <1>3, <1>4 DEF ListedStory, CandidateTold, ClosingStages, BarrierStages
<1>6. held => CandidateKnows(stage, delivery, listed.facts.checkpoint, listed.facts, row.state, row.facts)
  BY <1>3, <1>4 DEF ListedStory, ListedInv, CandidateKnows, ClosingStages
<1>7. CandidateStory(recovery', turns'[t], auditCompletions'[t])
  BY <1>1, <1>2, <1>5, <1>6 DEF CandidateStory
<1> HIDE DEF listed, row, stage, delivery, held
<1> QED
  BY <1>1, <1>2, <1>7 DEF AuditStory, TurnStory, Candidate

LEMMA RecoverTells ==
    ASSUME RuntimeInv, AuditStory, Recover
    PROVE  AuditStory'
<1>1. WorkAlone
  BY DEF Recover, WorkAlone
<1>2. CASE ListCandidates \/ PageIsDone
  BY <1>1, <1>2, PagesTell
<1>3. CASE \E t \in Turns : PickCandidate(t)
  BY <1>1, <1>3, PicksTell
<1>4. CASE CancelCandidate \/ CompleteCandidate \/ RecoverLlmCancel \/ RecoverDeliveryMove
  BY <1>1, <1>4, RecoveryMovesTell
<1>5. CASE RecoverLlmFacts \/ RecoverDeliveryFacts \/ ReconcileFailed \/ ReconcileFacts
  BY <1>1, <1>5, RecoveryWritesTell
<1>6. CASE \/ RecoverOutbox \/ RecoverTombstone \/ AssessCheckpoint \/ RecoverBarrierLoad \/ RecoverBarrierWrite
           \/ ReconcileContradiction \/ ReconcileRecorded
  <2>1. AtCandidate
    BY <1>6 DEF RecoverOutbox, RecoverTombstone, AssessCheckpoint, RecoverBarrierLoad, RecoverBarrierWrite,
       ReconcileContradiction, ReconcileRecorded, Recovering, AtCandidate
  <2> QED
    BY <1>1, <1>6, <2>1, RecoveryLooksTell
<1>7. CASE ReconcileAudit
  BY <1>1, <1>7, ReconcileAuditTells
<1>8. CASE RecoveryFails
  <2>1. CASE AtCandidate
    BY <1>1, <1>8, <2>1, RecoveryLooksTell
  <2>2. CASE ~AtCandidate
    <3>1. /\ UNCHANGED <<turns, auditCompletions, jobs>> /\ recovery' = [recovery EXCEPT !.stage = "error"]
      BY <1>1, <1>8 DEF RecoveryFails, WorkAlone, storeVars, ledgerVars, auditVars
    <3>2. recovery'.stage = "error" /\ recovery'.rows = recovery.rows
      BY <3>1 DEF RuntimeInv, Typed, RecoveryTyped
    <3>3. /\ \A u \in DOMAIN recovery'.rows : ListedStory(recovery'.rows[u], turns[u])
          /\ \A u \in Turns : SameLocals(jobs'[u], jobs[u])
      BY <3>1, <3>2 DEF AuditStory, SameLocals
    <3>4. ~AtCandidate'
      BY <3>2 DEF AtCandidate
    <3> QED
      BY <3>1, <3>3, <3>4, LocalsTell
  <2> QED
    BY <2>1, <2>2
<1> QED
  BY <1>2, <1>3, <1>4, <1>5, <1>6, <1>7, <1>8 DEF Recover, RecoveryStep

\* A job that has not begun, or no longer works, keeps no story; nor does one that
\* is stopped or started get another one.
LEMMA StoppedTells ==
    ASSUME RuntimeInv, NEW u \in Turns, NEW now, now \in {jobs[u], [jobs[u] EXCEPT !.stage = "done"]}
    PROVE  Aborted(now).stage \notin StoryStages \/ SameLocals(Aborted(now), jobs[u])
<1>1. JobTyped(jobs[u])
  BY DEF RuntimeInv, Typed
<1>2. CASE Aborted(now).stage \in {"idle", "error", "done"}
  BY <1>2 DEF StoryStages, EndingStages, BarrierStages
<1>3. CASE Aborted(now).stage \notin {"idle", "error", "done"}
  BY <1>1, <1>3, StoppedJob DEF SameLocals
<1> QED
  BY <1>2, <1>3

LEMMA StartedTells ==
    ASSUME NEW old, JobTyped(old), NEW new, Starts(new, old)
    PROVE  new.stage \notin StoryStages \/ SameLocals(new, old)
<1>1. new.stage = old.stage \/ new.stage \in {"kill-switch", "done"}
  BY StartedLocals
<1>2. CASE new.stage \in {"kill-switch", "done"}
  BY <1>2 DEF StoryStages, EndingStages, BarrierStages
<1>3. CASE new.stage = old.stage
  BY <1>3, StartedLocals DEF SameLocals
<1> QED
  BY <1>1, <1>2, <1>3

LEMMA StopTells ==
    ASSUME RuntimeInv, AuditStory, NEW now, StopWork(now),
           \A u \in Turns : now[u] \in {jobs[u], [jobs[u] EXCEPT !.stage = "done"]},
           UNCHANGED <<turns, auditCompletions, recovery>>
    PROVE  AuditStory'
<1>1. \A u \in Turns : jobs'[u] = Aborted(now[u])
  BY DEF StopWork
<1>2. \A u \in Turns : jobs'[u].stage \notin StoryStages \/ SameLocals(jobs'[u], jobs[u])
  BY <1>1, StoppedTells
<1> QED
  BY <1>2, LocalsTell

\* The locals of the orchestrator, the dispatcher and the process.
LEMMA StopsTell ==
    ASSUME RuntimeInv, AuditStory,
           \/ \E close \in BOOLEAN : BeginDrain(close)
           \/ \E t \in Turns : JobFails(t)
    PROVE  AuditStory'
<1>1. jobs \in [Turns -> {jobs[u] : u \in Turns}] /\ \A u \in Turns : JobTyped(jobs[u])
  BY DEF RuntimeInv, Typed
<1>2. ASSUME NEW close \in BOOLEAN, BeginDrain(close)
      PROVE  AuditStory'
  BY <1>2, StopTells DEF BeginDrain, storeVars, ledgerVars, auditVars
<1>3. ASSUME NEW t \in Turns, JobFails(t)
      PROVE  AuditStory'
  <2> DEFINE now == [jobs EXCEPT ![t].stage = "done"]
  <2>1. StopWork(now) /\ UNCHANGED <<turns, auditCompletions, recovery>>
    BY <1>3 DEF JobFails, FailRuntime, storeVars, ledgerVars, auditVars
  <2>2. \A u \in Turns : now[u] \in {jobs[u], [jobs[u] EXCEPT !.stage = "done"]}
    BY <1>1
  <2> HIDE DEF now
  <2> QED
    BY <2>1, <2>2, StopTells
<1> QED
  BY <1>2, <1>3

LEMMA StartsTell ==
    ASSUME RuntimeInv, AuditStory, NEW t \in Turns, JobEnds(t) \/ Publish(t)
    PROVE  AuditStory'
<1>1. /\ Typed /\ \A u \in Turns : JobTyped(jobs[u]) /\ jobs[u].revision \in Nat
      /\ generation \in Nat /\ submissions[t].revision \in Nat
  BY DEF RuntimeInv, Typed, JobTyped, SubmissionRecords
<1> DEFINE job == [NoJob EXCEPT !.stage = "queued", !.revision = submissions[t].revision, !.generation = generation]
<1>2. /\ JobTyped(NoJob) /\ NoJob.stage = "idle" /\ JobTyped(job) /\ job.stage = "queued"
  BY <1>1 DEF JobTyped, NoJob, Stages
<1> HIDE DEF job
<1>3. /\ UNCHANGED <<turns, auditCompletions, recovery>>
      /\ \/ jobs' = jobs
         \/ \E new \in {NoJob, job} : jobs' = Started([jobs EXCEPT ![t] = new])
  BY DEF JobEnds, Publish, SubmissionOnly, storeVars, ledgerVars, auditVars, job
<1>4. \A u \in Turns : jobs'[u].stage \notin StoryStages \/ SameLocals(jobs'[u], jobs[u])
  <2>1. CASE jobs' = jobs
    BY <2>1 DEF SameLocals
  <2>2. ASSUME NEW new \in {NoJob, job}, jobs' = Started([jobs EXCEPT ![t] = new]), NEW u \in Turns
        PROVE  jobs'[u].stage \notin StoryStages \/ SameLocals(jobs'[u], jobs[u])
    <3> DEFINE now == [jobs EXCEPT ![t] = new]
    <3>1. Starts(jobs'[u], now[u])
      BY <2>2, StartedJobs
    <3>2. now[u] = IF u = t THEN new ELSE jobs[u]
      BY <1>1 DEF Typed
    <3>3. JobTyped(now[u]) /\ (u = t => now[u].stage \in {"idle", "queued"})
      BY <1>1, <1>2, <3>2
    <3> HIDE DEF now
    <3>4. jobs'[u].stage \notin StoryStages \/ SameLocals(jobs'[u], now[u])
      BY <3>1, <3>3, StartedTells
    <3>5. CASE u = t
      BY <3>3, <3>4, <3>5 DEF SameLocals, StoryStages, EndingStages, BarrierStages
    <3>6. CASE u # t
      BY <3>2, <3>4, <3>6
    <3> QED
      BY <3>5, <3>6
  <2> QED
    BY <1>3, <2>1, <2>2
<1> QED
  BY <1>3, <1>4, LocalsTell

\* A process that starts, returns from its start, closes, dies or stutters.
LEMMA ProcessTells ==
    ASSUME RuntimeInv, AuditStory,
           \/ Start \/ StartReturns \/ CloseReturns \/ Crash \/ UNCHANGED runtimeVars
           \/ \E t \in Turns : BindingFails(t) \/ \E c \in Conversations : Bind(t, c)
    PROVE  AuditStory'
<1>1. UNCHANGED <<turns, auditCompletions>>
  BY DEF Start, StartReturns, CloseReturns, Crash, BindingFails, Bind, SubmissionQuiet, SubmissionOnly, runtimeVars,
     storeVars, ledgerVars, auditVars
<1>2. \A u \in Turns : jobs'[u].stage \notin StoryStages \/ SameLocals(jobs'[u], jobs[u])
  <2>1. jobs' = jobs \/ jobs' = [u \in Turns |-> NoJob]
    BY DEF Start, StartReturns, CloseReturns, Crash, BindingFails, Bind, SubmissionQuiet, runtimeVars, pipelineVars
  <2>2. NoJob.stage \notin StoryStages
    BY DEF NoJob, StoryStages, EndingStages, BarrierStages
  <2> QED
    BY <2>1, <2>2 DEF SameLocals
<1>3. \/ UNCHANGED recovery
      \/ ~AtCandidate' /\ \A u \in DOMAIN recovery'.rows : ListedStory(recovery'.rows[u], turns[u])
  <2>1. \/ UNCHANGED recovery
        \/ recovery' = NoRecovery
        \/ \E stage \in {"list", "error"} : recovery' = [NoRecovery EXCEPT !.stage = stage]
    BY DEF Start, StartReturns, CloseReturns, Crash, BindingFails, Bind, SubmissionQuiet, SubmissionOnly, runtimeVars
  <2>2. recovery' # recovery => recovery'.rows = <<>> /\ recovery'.stage \in {"idle", "list", "error"}
    <3>1. {"list", "error"} \subseteq RecoveryStages
      BY DEF RecoveryStages
    <3>2. CASE \E stage \in {"list", "error"} : recovery' = [NoRecovery EXCEPT !.stage = stage]
      BY <3>1, <3>2, NoRecoveryTyped
    <3> QED
      BY <2>1, <3>2, NoRecoveryTyped
  <2>3. DOMAIN <<>> = {}
    OBVIOUS
  <2> QED
    BY <2>2, <2>3 DEF AtCandidate
<1> QED
  BY <1>1, <1>2, <1>3, LocalsTell

\* An observation opens the story of its turn.
LEMMA ObserveTells ==
    ASSUME RuntimeInv, AuditStory, NEW t \in Turns, NEW key \in TransportKeys, Observe(t, key)
    PROVE  AuditStory'
<1>1. /\ Typed /\ turns \in [Turns -> Rows] /\ jobs[t].stage = "idle" /\ TurnInv(t)
      /\ auditCompletions \in [Turns -> CompletionEvents \cup {None}]
      /\ UNCHANGED <<auditCompletions, jobs, recovery>>
  BY DEF RuntimeInv, Typed, TurnInv, EffectsInv, AuditStory, Observe, SubmissionAt, SubmissionQuiet, SubmissionOnly,
     pipelineVars, auditVars
<1>2. turns' = IF ObserveOutcome(t, key) = "fresh-observed" THEN [turns EXCEPT ![t] = ObservedRow(key)] ELSE turns
  BY DEF Observe, ObserveTransportEvent
<1>3. StoryStep(t)
  <2>1. CASE ObserveOutcome(t, key) # "fresh-observed"
    BY <1>1, <1>2, <2>1, StillStory
  <2>2. CASE ObserveOutcome(t, key) = "fresh-observed"
    <3>1. turns[t] = AbsentRow
      BY <1>1, <2>2 DEF ObserveOutcome, TurnInv, RowInv
    <3>2. /\ ObservedRow(key).state = "observed" /\ ObservedRow(key).revision = 1
          /\ ObservedRow(key).facts = InitialFacts
          /\ AbsentRow.state = "absent" /\ AbsentRow.revision = 0
      BY DEF ObservedRow, AbsentRow
    <3>3. auditCompletions[t] = None
      <4>1. RowStory(turns[t].state, turns[t].facts, auditCompletions[t])
        BY StoryFacts
      <4> QED
        BY <3>1, <3>2, <4>1 DEF RowStory, EndedDelivery
    <3>4. RowStory("observed", InitialFacts, None)
      BY DEF RowStory, InitialFacts, FactsOf, Closed, SettledDeliveries, EndedDelivery
    <3>5. turns' = [turns EXCEPT ![t] = turns'[t]] /\ turns'[t] = ObservedRow(key)
      BY <1>1, <1>2, <2>2
    <3>6. RowKeeps(turns[t], turns'[t])
      BY <3>1, <3>2, <3>5 DEF RowKeeps, EndedDelivery
    <3> QED
      BY <1>1, <3>2, <3>3, <3>4, <3>5, <3>6 DEF StoryStep, EventKeeps
  <2> QED
    BY <2>1, <2>2
<1>4. jobs' = [jobs EXCEPT ![t] = jobs'[t]] /\ JobStory(jobs'[t], turns'[t], auditCompletions'[t])
  <2>1. jobs'[t].stage \notin StoryStages
    BY <1>1 DEF StoryStages, EndingStages, BarrierStages
  <2> QED
    BY <1>1, <2>1, DullJob DEF Typed
<1> QED
  BY <1>1, <1>3, <1>4, JobTells

LEMMA SubmissionsTell ==
    ASSUME RuntimeInv, AuditStory, NEW t \in Turns, Authenticate(t) \/ Accept(t) \/ Queue(t) \/ SubmissionFails(t)
    PROVE  AuditStory'
<1>1. /\ Typed /\ turns \in [Turns -> Rows] /\ jobs[t].stage = "idle"
      /\ auditCompletions \in [Turns -> CompletionEvents \cup {None}]
      /\ UNCHANGED <<auditCompletions, recovery>>
  BY DEF RuntimeInv, Typed, TurnInv, EffectsInv, AuditStory, Authenticate, Accept, Queue, SubmissionFails, SubmissionAt,
     SubmissionQuiet, SubmissionOnly, auditVars
<1>2. CASE turns' = turns /\ StopWork(jobs)
  BY <1>1, <1>2, StopTells
<1>3. CASE jobs' = jobs /\ StoryStep(t)
  <2>1. jobs' = [jobs EXCEPT ![t] = jobs'[t]] /\ jobs'[t].stage \notin StoryStages
    BY <1>1, <1>3 DEF Typed, StoryStages, EndingStages, BarrierStages
  <2> QED
    BY <1>1, <1>3, <2>1, DullJob, JobTells
<1>4. ASSUME NEW to \in {"authenticated", "accepted", "queued"}, turns[t].state \in TurnStates,
             to \in LegalTransitions[turns[t].state], RowMoved(t, to)
      PROVE  StoryStep(t)
  <2>1. turns[t].state # "llm_started"
    BY <1>4 DEF LegalTransitions
  <2>2. MoveFitsFacts(turns[t].state, to, turns[t].facts)
    BY <2>1 DEF MoveFitsFacts, EndedDelivery
  <2>3. /\ RowStory(to, turns[t].facts, auditCompletions[t])
        /\ turns[t].state \notin EndedDelivery \cup {"completed"}
    BY <1>4, <2>2, StoryFacts, RowStoryMoves
  <2> QED
    BY <1>1, <1>4, <2>3 DEF StoryStep, RowMoved, RowKeeps, EventKeeps
<1>5. turns' = turns => StoryStep(t)
  BY <1>1, StillStory
<1>6. CASE Authenticate(t) \/ Accept(t)
  <2>1. jobs' = jobs
    BY <1>6 DEF Authenticate, Accept, SubmissionQuiet, pipelineVars
  <2> QED
    BY <1>3, <1>4, <1>5, <1>6, <2>1, SubmissionMoves
<1>7. CASE SubmissionFails(t)
  BY <1>2, <1>3, <1>5, <1>7 DEF SubmissionFails, FailRuntime, ledgerVars
<1>8. CASE Queue(t)
  <2> DEFINE kind == TransitionOutcome(t, submissions[t].revision, "accepted", "queued")
             proven == kind \in {"transitioned", "already-transitioned"}
  <2>1. CASE proven
    <3>1. jobs' = jobs
      BY <1>8, <2>1 DEF Queue
    <3> QED
      BY <1>3, <1>4, <1>5, <1>8, <3>1, SubmissionMoves
  <2>2. CASE ~proven
    <3>1. StopWork(jobs) /\ turns' = turns
      BY <1>8, <2>2 DEF Queue, FailRuntime, Transition
    <3> QED
      BY <1>2, <3>1
  <2> QED
    BY <2>1, <2>2
<1> QED
  BY <1>6, <1>7, <1>8

----------------------------------------------------------------------------
\* Nothing is told at first, and every step goes on with the story.
LEMMA AuditStarts == RuntimeInit => AuditStory
<1> SUFFICES ASSUME RuntimeInit
             PROVE  AuditStory
  OBVIOUS
<1>1. /\ turns = [t \in Turns |-> AbsentRow] /\ auditCompletions = [t \in Turns |-> None]
      /\ jobs = [t \in Turns |-> NoJob] /\ recovery = NoRecovery
  BY DEF RuntimeInit, LedgerInit, AuditInit, PipelineInit, RecoveryInit
<1>2. recovery.rows = <<>> /\ recovery.stage = "idle"
  BY <1>1, NoRecoveryTyped
<1>3. RowStory("absent", InitialFacts, None)
  BY DEF RowStory, InitialFacts, FactsOf, Closed, SettledDeliveries, EndedDelivery, UnsettledStates
<1>4. AbsentRow.state = "absent" /\ AbsentRow.facts = InitialFacts
  BY DEF AbsentRow
<1>5. \A t \in Turns : TurnStory(t)
  <2> TAKE t \in Turns
  <2>1. jobs[t].stage \notin StoryStages
    BY <1>1 DEF NoJob, StoryStages, EndingStages, BarrierStages
  <2> QED
    BY <1>1, <1>3, <1>4, <2>1, DullJob DEF TurnStory
<1>6. DOMAIN <<>> = {}
  OBVIOUS
<1> QED
  BY <1>1, <1>2, <1>5, <1>6 DEF AuditStory, AtCandidate

LEMMA AuditSteps == RuntimeInv /\ AuditStory /\ [RuntimeNext]_runtimeVars => AuditStory'
<1> SUFFICES ASSUME RuntimeInv, AuditStory, [RuntimeNext]_runtimeVars
             PROVE  AuditStory'
  OBVIOUS
<1>1. CASE Start \/ StartReturns \/ CloseReturns \/ Crash \/ UNCHANGED runtimeVars
  BY <1>1, ProcessTells
<1>2. CASE Recover
  BY <1>2, RecoverTells
<1>3. CASE \E close \in BOOLEAN : BeginDrain(close)
  BY <1>3, StopsTell
<1>4. ASSUME NEW t \in Turns,
             \/ \E key \in TransportKeys : Observe(t, key)
             \/ \E c \in Conversations : Bind(t, c)
             \/ BindingFails(t) \/ Authenticate(t) \/ Accept(t) \/ Queue(t) \/ SubmissionFails(t)
      PROVE  AuditStory'
  BY <1>4, ObserveTells, ProcessTells, SubmissionsTell
<1>5. ASSUME NEW t \in Turns, JobStep(t) \/ JobFails(t) \/ JobEnds(t) \/ Publish(t)
      PROVE  AuditStory'
  BY <1>5, JobsTell, StopsTell, StartsTell
<1> QED
  BY <1>1, <1>2, <1>3, <1>4, <1>5 DEF RuntimeNext

LEMMA RuntimeAudits == RuntimeSpec => []AuditStory
  BY AuditStarts, AuditSteps, RuntimeKeepsInv, PTL DEF RuntimeSpec

\* The audit precedes what it permits, and the completion event of a completed turn
\* says what its row says of the delivery, the checkpoint and the audit itself: of
\* whichever of the job and recovery wrote it, and wherever the process died between.
THEOREM AuditsAreTrue == RuntimeSpec => []AuditIsTrue
<1>1. RuntimeInv /\ AuditStory => AuditAgreesWithLedger
  <2> SUFFICES ASSUME RuntimeInv, AuditStory, NEW t \in Turns,
                      turns[t].state = "completed", auditCompletions[t] # None
               PROVE  /\ auditCompletions[t].delivery = turns[t].facts.delivery
                      /\ auditCompletions[t].checkpoint = turns[t].facts.checkpoint
                      /\ auditCompletions[t].completion = turns[t].facts.auditCompletion
    BY DEF AuditAgreesWithLedger
  <2>1. RowStory(turns[t].state, turns[t].facts, auditCompletions[t]) /\ auditCompletions[t] \in CompletionEvents
    BY StoryFacts
  <2>2. auditCompletions[t].delivery = turns[t].facts.delivery /\ turns[t].facts.delivery \in SettledDeliveries
    BY <2>1 DEF RowStory, CompletionEvents, SettledDeliveries
  <2> QED
    BY <2>1, <2>2 DEF RowStory, EventMatches
<1> QED
  BY <1>1, RuntimeAudits, RuntimeKeepsInv, AuditPrecedesCalls, PTL DEF AuditIsTrue

----------------------------------------------------------------------------
\* The dispatcher.  A job runs only as the active one of its conversation, so that from
\* the gate to the model call nobody else writes the snapshot the gate has read.
Dispatched(u, c) == turns[u].conversation = c /\ submissions[u].stage = "ended"
WaitingJobs(c) == {job \in [turn : Turns, sequence : Nat] : Dispatched(job.turn, c)}
Begun(t) == jobs[t].stage \notin {"idle", "queued"}

QueueStory ==
    /\ DOMAIN queues = Conversations /\ queues = [c \in Conversations |-> queues[c]]
    /\ DOMAIN activeTurn = Conversations /\ activeTurn = [c \in Conversations |-> activeTurn[c]]
    /\ \A c \in Conversations :
         /\ queues[c] \in Seq(WaitingJobs(c))
         /\ activeTurn[c] # None => activeTurn[c] \in Turns /\ Dispatched(activeTurn[c], c)

RunnerStory == \A t \in Turns : Begun(t) => Home(t) \in Conversations /\ activeTurn[Home(t)] = t

\* What an eligible gate has read still holds where the call is about to be made.
GateStory ==
    /\ DOMAIN snapshots = Conversations
    /\ \A t \in Turns : jobs[t].stage \in {"llm-start", "llm-call"} /\ GenerationCurrent(t) =>
         snapshots[Home(t)].pause # "degraded"

\* A submission is of the conversation its row was bound to.
BoundStory ==
    /\ \A t \in Turns : submissions[t].stage \notin {"none", "binding", "ended"} =>
         submissions[t].conversation \in Conversations
    /\ \A t \in Turns : ~draining /\ submissions[t].stage \in {"accept", "queue", "publish"} =>
         turns[t].conversation = submissions[t].conversation

\* A runtime that nobody drains is not yet at work, has failed, or owns its ledger.
OwnerStory ==
    ~draining => lifecycle \in {"new", "failed"} \/ (lifecycle \in {"recovering", "running"} /\ owned)

DispatchStory == QueueStory /\ RunnerStory /\ GateStory /\ BoundStory /\ OwnerStory

\* A submission that has ended stays so, and its row is bound for good.
DispatchesStay ==
    \A u \in Turns : submissions[u].stage = "ended" =>
      submissions'[u].stage = "ended" /\ turns'[u].conversation = turns[u].conversation

LEMMA SameQueue ==
    ASSUME DispatchesStay, NEW c, NEW queue \in Seq(WaitingJobs(c))
    PROVE  queue \in Seq(WaitingJobs(c)')
<1>1. WaitingJobs(c) \subseteq WaitingJobs(c)'
  BY DEF DispatchesStay, WaitingJobs, Dispatched
<1> QED
  BY <1>1, SeqMonotonic

\* The queues stay as they were, or are emptied.
LEMMA QueuesKeep ==
    ASSUME QueueStory, DispatchesStay, UNCHANGED activeTurn,
           queues' = queues \/ queues' = [c \in Conversations |-> <<>>]
    PROVE  QueueStory'
<1>1. /\ DOMAIN queues' = Conversations /\ queues' = [c \in Conversations |-> queues'[c]]
      /\ DOMAIN activeTurn' = Conversations /\ activeTurn' = [c \in Conversations |-> activeTurn'[c]]
  BY DEF QueueStory
<1>2. ASSUME NEW c \in Conversations
      PROVE  queues'[c] \in Seq(WaitingJobs(c)')
  <2>1. queues[c] \in Seq(WaitingJobs(c)')
    BY SameQueue DEF QueueStory
  <2>2. <<>> \in Seq(WaitingJobs(c)')
    OBVIOUS
  <2> QED
    BY <2>1, <2>2
<1>3. (\A c \in Conversations : activeTurn[c] # None => activeTurn[c] \in Turns /\ Dispatched(activeTurn[c], c))'
  BY DEF QueueStory, DispatchesStay, Dispatched
<1> QED
  BY <1>1, <1>2, <1>3 DEF QueueStory

LEMMA RunnersKeep ==
    ASSUME RunnerStory, UNCHANGED activeTurn,
           \A t \in Turns : Begun(t)' => Begun(t) /\ turns'[t].conversation = turns[t].conversation
    PROVE  RunnerStory'
BY DEF RunnerStory, Home

\* What is read of a snapshot stays true while nobody writes it ...
LEMMA GatesKeep ==
    ASSUME GateStory, DOMAIN snapshots' = Conversations, UNCHANGED generation,
           \A t \in Turns : jobs'[t].stage \in {"llm-start", "llm-call"} =>
             /\ jobs[t].stage \in {"llm-start", "llm-call"} /\ jobs'[t].generation = jobs[t].generation
             /\ turns'[t].conversation = turns[t].conversation
             /\ snapshots'[Home(t)] = snapshots[Home(t)]
    PROVE  GateStory'
BY DEF GateStory, GenerationCurrent, Home

\* ... and no longer matters once the generation is past or the work is gone.
LEMMA GatesClose ==
    ASSUME RuntimeInv', DOMAIN snapshots' = Conversations, draining' \/ NoWork'
    PROVE  GateStory'
<1>1. ASSUME NEW t \in Turns, jobs'[t].stage \in {"llm-start", "llm-call"}, GenerationCurrent(t)'
      PROVE  FALSE
  <2>1. draining' /\ Working(t)'
    BY <1>1 DEF NoWork, Working
  <2>2. jobs'[t].generation < generation' /\ jobs'[t].generation \in Nat /\ generation' \in Nat
    BY <2>1 DEF RuntimeInv, TurnInv, JobInv, Typed, JobTyped
  <2> QED
    BY <1>1, <2>2 DEF GenerationCurrent
<1> QED
  BY <1>1 DEF GateStory

\* A submission that has begun keeps its stage and its conversation, or ends.
LEMMA BoundsKeep ==
    ASSUME BoundStory, draining' = draining,
           \A t \in Turns :
             \/ submissions'[t].stage \in {"none", "binding", "ended"}
             \/ /\ submissions'[t] = submissions[t]
                /\ submissions[t].stage # "authenticate" => turns'[t].conversation = turns[t].conversation
    PROVE  BoundStory'
BY DEF BoundStory

LEMMA EndedTurn ==
    ASSUME RuntimeInv, NEW t \in Turns, jobs[t].stage # "idle"
    PROVE  submissions[t].stage = "ended"
BY DEF RuntimeInv, TurnInv, EffectsInv


LEMMA SameDispatches ==
    ASSUME UNCHANGED <<turns, submissions>>
    PROVE  DispatchesStay
BY DEF DispatchesStay

\* The process starts, returns from its start, is closed, or stutters.
LEMMA LifecycleDispatches ==
    ASSUME RuntimeInv, DispatchStory, Start \/ StartReturns \/ CloseReturns \/ UNCHANGED runtimeVars
    PROVE  DispatchStory'
<1>1. UNCHANGED <<turns, submissions, jobs, generation, snapshots, queues, activeTurn, draining>>
  BY DEF Start, StartReturns, CloseReturns, runtimeVars, storeVars, ledgerVars, conversationVars, pipelineVars,
     dispatcherVars, orchestratorVars
<1>2. QueueStory' /\ RunnerStory'
  BY <1>1, SameDispatches, QueuesKeep, RunnersKeep DEF DispatchStory, Begun
<1>3. GateStory' /\ BoundStory'
  BY <1>1 DEF DispatchStory, GateStory, BoundStory, GenerationCurrent, Home
<1>4. OwnerStory'
  <2>1. CASE Start
    BY <2>1 DEF Start, OwnerStory
  <2>2. CASE StartReturns
    <3>1. ~draining => lifecycle = "recovering"
      BY <2>2 DEF StartReturns, RuntimeInv, ProcessInv
    <3>2. ~draining => owned
      BY <3>1 DEF DispatchStory, OwnerStory
    <3>3. recovery.stage = "done" => lifecycle' = "running" /\ (owned => owned')
      BY <2>2 DEF StartReturns
    <3>4. recovery.stage # "done" => lifecycle' = "failed"
      BY <2>2 DEF StartReturns
    <3> QED
      BY <1>1, <3>2, <3>3, <3>4 DEF OwnerStory
  <2>3. CASE CloseReturns
    BY <1>1, <2>3 DEF CloseReturns, RuntimeInv, ProcessInv, OwnerStory
  <2>4. CASE UNCHANGED runtimeVars
    BY <2>4 DEF runtimeVars, dispatcherVars, orchestratorVars, DispatchStory, OwnerStory
  <2> QED
    BY <2>1, <2>2, <2>3, <2>4
<1> QED
  BY <1>2, <1>3, <1>4 DEF DispatchStory

LEMMA CrashDispatches ==
    ASSUME RuntimeInv, RuntimeInv', DispatchStory, Crash
    PROVE  DispatchStory'
<1>1. /\ queues' = [c \in Conversations |-> <<>>] /\ activeTurn' = [c \in Conversations |-> None]
      /\ jobs' = [t \in Turns |-> NoJob] /\ UNCHANGED <<turns, snapshots>> /\ draining' = FALSE /\ lifecycle' = "new"
  BY DEF Crash, storeVars, ledgerVars, conversationVars
<1>2. \A t \in Turns : submissions'[t].stage \in {"none", "ended"}
  BY DEF Crash, NoSubmission, SubmissionAt
<1>3. QueueStory'
  <2>1. \A S : <<>> \in Seq(S)
    OBVIOUS
  <2> QED
    BY <1>1, <2>1 DEF QueueStory
<1>4. \A t \in Turns : jobs'[t].stage = "idle"
  BY <1>1 DEF NoJob
<1>5. RunnerStory' /\ GateStory'
  BY <1>1, <1>4 DEF RunnerStory, GateStory, Begun, DispatchStory
<1>6. BoundStory' /\ OwnerStory'
  BY <1>1, <1>2 DEF BoundStory, OwnerStory
<1> QED
  BY <1>3, <1>5, <1>6 DEF DispatchStory

\* Where work is stopped nothing begins: jobs end or go on, queues are dropped.
LEMMA StopDispatches ==
    ASSUME RuntimeInv, RuntimeInv', DispatchStory, NEW now, StopWork(now), DropQueues, UNCHANGED <<turns, snapshots>>,
           \A u \in Turns : now[u] = jobs[u] \/ (Begun(u) /\ now[u] = [jobs[u] EXCEPT !.stage = "done"]),
           \A u \in Turns : submissions'[u] = submissions[u] \/ submissions'[u].stage = "ended"
    PROVE  DispatchStory'
<1>1. draining' = TRUE /\ queues' = [c \in Conversations |-> <<>>] /\ UNCHANGED activeTurn
  BY DEF DropQueues
<1>2. DispatchesStay
  BY DEF DispatchesStay
<1>3. ASSUME NEW u \in Turns, Begun(u)'
      PROVE  Begun(u)
  <2>1. jobs'[u] = Aborted(now[u]) /\ JobTyped(jobs[u])
    BY DEF StopWork, RuntimeInv, Typed
  <2>2. CASE now[u] = jobs[u]
    <3>1. jobs[u].stage = "queued" => jobs'[u].stage = "idle"
      BY <2>1, <2>2 DEF Aborted, NoJob
    <3>2. jobs[u].stage = "idle" => jobs'[u].stage = "idle"
      BY <2>1, <2>2, StoppedJob
    <3> QED
      BY <1>3, <3>1, <3>2 DEF Begun
  <2> QED
    BY <2>2
<1>4. QueueStory' /\ RunnerStory'
  BY <1>1, <1>2, <1>3, QueuesKeep, RunnersKeep DEF DispatchStory
<1>5. GateStory'
  BY <1>1, GatesClose DEF DispatchStory, GateStory
<1>6. BoundStory' /\ OwnerStory'
  BY <1>1 DEF DispatchStory, BoundStory, OwnerStory
<1> QED
  BY <1>4, <1>5, <1>6 DEF DispatchStory

LEMMA StopsDispatch ==
    ASSUME RuntimeInv, RuntimeInv', DispatchStory,
           \/ \E close \in BOOLEAN : BeginDrain(close)
           \/ \E t \in Turns : JobFails(t)
    PROVE  DispatchStory'
<1>1. DOMAIN jobs = Turns
  BY DEF RuntimeInv, Typed
<1>2. ASSUME NEW close \in BOOLEAN, BeginDrain(close)
      PROVE  DispatchStory'
  BY <1>2, StopDispatches DEF BeginDrain, DrainAndWait, BeginDispatcherDrain, storeVars, ledgerVars, conversationVars
<1>3. ASSUME NEW t \in Turns, JobFails(t)
      PROVE  DispatchStory'
  <2> DEFINE now == [jobs EXCEPT ![t].stage = "done"]
  <2>1. StopWork(now) /\ DropQueues /\ UNCHANGED <<turns, snapshots, submissions>>
    BY <1>3 DEF JobFails, FailRuntime, BeginDispatcherDrain, storeVars, ledgerVars, conversationVars
  <2>2. \A u \in Turns : now[u] = jobs[u] \/ (Begun(u) /\ now[u] = [jobs[u] EXCEPT !.stage = "done"])
    BY <1>1, <1>3 DEF JobFails, At, Begun
  <2> HIDE DEF now
  <2> QED
    BY <2>1, <2>2, StopDispatches
<1> QED
  BY <1>2, <1>3


\* Recovery runs beside stale jobs only, and writes rows that stay where they are.
LEMMA RecoverDispatches ==
    ASSUME RuntimeInv, RuntimeInv', DispatchStory, Recover
    PROVE  DispatchStory'
<1>1. UNCHANGED <<jobs, dispatcherVars, orchestratorVars>> /\ UNCHANGED <<generation, queues, activeTurn, draining, submissions>>
  <2>1. UNCHANGED <<jobs, dispatcherVars, orchestratorVars>>
    BY DEF Recover
  <2>2. NoEffect \/ UNCHANGED generation
    BY DEF Recover, RecoveryFails, RecoveryStep, ListCandidates, PageIsDone, PickCandidate, CancelCandidate,
       CompleteCandidate, RecoverLlmFacts, RecoverLlmCancel, RecoverOutbox, RecoverTombstone, RecoverDeliveryFacts,
       RecoverDeliveryMove, AssessCheckpoint, RecoverBarrierLoad, RecoverBarrierWrite, ReconcileContradiction,
       ReconcileRecorded, ReconcileFailed, ReconcileAudit, ReconcileFacts, RecoveryMove, RecoveryFacts, LedgerCall,
       OutboxCall, AuditCall, ConversationCall
  <2> QED
    BY <2>1, <2>2 DEF NoEffect, dispatcherVars, orchestratorVars
<1>2. recovery.stage # "idle"
  BY DEF Recover, RecoveryFails, RecoveryStep, ListCandidates, PageIsDone, PickCandidate, CancelCandidate,
     CompleteCandidate, RecoverLlmFacts, RecoverLlmCancel, RecoverOutbox, RecoverTombstone, RecoverDeliveryFacts,
     RecoverDeliveryMove, AssessCheckpoint, RecoverBarrierLoad, RecoverBarrierWrite, ReconcileContradiction,
     ReconcileRecorded, ReconcileFailed, ReconcileAudit, ReconcileFacts, Recovering
<1>3. \A u \in Turns : submissions[u].stage # "authenticate" => turns'[u].conversation = turns[u].conversation
  BY RecoveryRowsGoOn DEF RowsGoOn, RowGoesOn
<1>4. DispatchesStay
  BY <1>1, <1>3 DEF DispatchesStay
<1>5. \A u \in Turns : Begun(u)' => Begun(u) /\ turns'[u].conversation = turns[u].conversation
  <2>1. \A u \in Turns : Begun(u) => submissions[u].stage = "ended"
    BY EndedTurn DEF Begun
  <2> QED
    BY <1>1, <1>3, <2>1 DEF Begun
<1>6. QueueStory' /\ RunnerStory'
  BY <1>1, <1>4, <1>5, QueuesKeep, RunnersKeep DEF DispatchStory
<1>7. DOMAIN snapshots' = Conversations
  <2>1. snapshots' = snapshots \/ RecoverBarrierWrite
    BY DEF Recover, RecoveryFails, RecoveryStep, ListCandidates, PageIsDone, PickCandidate, CancelCandidate,
       CompleteCandidate, RecoverLlmFacts, RecoverLlmCancel, RecoverOutbox, RecoverTombstone, RecoverDeliveryFacts,
       RecoverDeliveryMove, AssessCheckpoint, RecoverBarrierLoad, ReconcileContradiction,
       ReconcileRecorded, ReconcileFailed, ReconcileAudit, ReconcileFacts, RecoveryMove, RecoveryFacts, LedgerCall,
       OutboxCall, AuditCall, conversationVars, storeVars
  <2>2. RecoverBarrierWrite => DOMAIN snapshots' = DOMAIN snapshots
    BY DEF RecoverBarrierWrite, RecordCheckpointBarrier, WriteSnapshot, conversationVars
  <2> QED
    BY <2>1, <2>2 DEF DispatchStory, GateStory
<1>8. draining' \/ NoWork'
  <2>1. draining \/ NoWork
    BY <1>2 DEF RuntimeInv, ProcessInv
  <2> QED
    BY <1>1, <2>1 DEF NoWork
<1>9. GateStory'
  BY <1>7, <1>8, GatesClose
<1>10. BoundStory'
  BY <1>1, <1>3, BoundsKeep DEF DispatchStory
<1>11. OwnerStory'
  BY <1>1 DEF DispatchStory, OwnerStory, orchestratorVars
<1> QED
  BY <1>6, <1>9, <1>10, <1>11 DEF DispatchStory


----------------------------------------------------------------------------
\* The steps of a job: it has begun, and nobody else of its conversation has.
GateStages == {"llm-start", "llm-call"}

\* Past the gate no step leads back to it; before the model call none but these two.
LEMMA MovesPassTheGate ==
    ASSUME NEW t \in Turns, JobTyped(jobs[t]), DOMAIN jobs = Turns, NEW from, NEW to, NEW stage, stage \notin GateStages,
           Move(t, from, to, stage)
    PROVE  /\ jobs' = [jobs EXCEPT ![t] = jobs'[t]] /\ jobs'[t].stage \notin GateStages
           /\ UNCHANGED <<generation, snapshots>>
<1> DEFINE kind == TransitionOutcome(t, jobs[t].revision, from, to)
<1>1. jobs' = [jobs EXCEPT ![t] = AfterLedger(jobs[t], kind, stage)] /\ UNCHANGED <<generation, snapshots>>
  BY DEF Move, Only, LedgerCall, NoEffect, conversationVars
<1> HIDE DEF kind
<1>2. AfterLedger(jobs[t], kind, stage).stage \in {stage, "error"}
  BY DEF AfterLedger, JobTyped
<1> QED
  BY <1>1, <1>2 DEF GateStages

LEMMA FactsPassTheGate ==
    ASSUME NEW t \in Turns, JobTyped(jobs[t]), DOMAIN jobs = Turns, NEW facts, NEW stage, stage \notin GateStages,
           WriteFacts(t, facts, stage)
    PROVE  /\ jobs' = [jobs EXCEPT ![t] = jobs'[t]] /\ jobs'[t].stage \notin GateStages
           /\ UNCHANGED <<generation, snapshots>>
<1> DEFINE kind == RecordFactualOutcomeKind(t, jobs[t].revision, facts)
<1>1. jobs' = [jobs EXCEPT ![t] = AfterLedger(jobs[t], kind, stage)] /\ UNCHANGED <<generation, snapshots>>
  BY DEF WriteFacts, Only, LedgerCall, NoEffect, conversationVars
<1> HIDE DEF kind
<1>2. AfterLedger(jobs[t], kind, stage).stage \in {stage, "error"}
  BY DEF AfterLedger, JobTyped
<1> QED
  BY <1>1, <1>2 DEF GateStages

\* What a step of a job may do to the gate: nothing, unless it holds the snapshot.
PassesTheGate(t) ==
    /\ Begun(t) /\ jobs' = [jobs EXCEPT ![t] = jobs'[t]] /\ UNCHANGED generation
    /\ jobs'[t].stage \notin GateStages
    /\ DOMAIN snapshots' = DOMAIN snapshots
    /\ \A c \in DOMAIN snapshots : c # Home(t) => snapshots'[c] = snapshots[c]

LEMMA LedgerStepsPassTheGate ==
    ASSUME RuntimeInv, NEW t \in Turns,
           \/ CancelAtGate(t) \/ CompleteAtGate(t) \/ CancelUnknownLlm(t) \/ RecordKnownFailure(t)
           \/ CompleteKnownFailure(t) \/ PrepareNotice(t) \/ RecordLlmCompleted(t) \/ ValidateOutput(t)
           \/ StartDelivery(t) \/ MoveToDeliveryUnknown(t) \/ MoveToProven(t) \/ CompleteTurn(t)
           \/ RecordLlmUnknown(t) \/ RecordKnownFailureFacts(t) \/ RecordDeliveryUnknown(t) \/ RecordProvenDelivery(t)
           \/ RecordCheckpointSucceeded(t) \/ RecordCheckpointFailed(t) \/ RecordCompletionFacts(t)
    PROVE  PassesTheGate(t)
<1>1. JobTyped(jobs[t]) /\ DOMAIN jobs = Turns
  BY DEF RuntimeInv, Typed
<1>2. Begun(t)
  BY DEF CancelAtGate, CompleteAtGate, CancelUnknownLlm, RecordKnownFailure, CompleteKnownFailure, PrepareNotice,
     RecordLlmCompleted, ValidateOutput, StartDelivery, MoveToDeliveryUnknown, MoveToProven, CompleteTurn,
     RecordLlmUnknown, RecordKnownFailureFacts, RecordDeliveryUnknown, RecordProvenDelivery,
     RecordCheckpointSucceeded, RecordCheckpointFailed, RecordCompletionFacts, At, Begun
<1>3. CASE CancelAtGate(t) \/ CompleteAtGate(t) \/ CancelUnknownLlm(t) \/ RecordKnownFailure(t)
           \/ CompleteKnownFailure(t) \/ PrepareNotice(t) \/ RecordLlmCompleted(t) \/ ValidateOutput(t)
           \/ StartDelivery(t) \/ MoveToDeliveryUnknown(t) \/ MoveToProven(t) \/ CompleteTurn(t)
  <2>1. PICK from, to, stage : stage \notin GateStages /\ Move(t, from, to, stage)
    BY <1>3 DEF CancelAtGate, CompleteAtGate, CancelUnknownLlm, RecordKnownFailure, CompleteKnownFailure,
       PrepareNotice, RecordLlmCompleted, ValidateOutput, StartDelivery, MoveToDeliveryUnknown, MoveToProven,
       CompleteTurn, GateStages
  <2> QED
    BY <1>1, <1>2, <2>1, MovesPassTheGate DEF PassesTheGate
<1>4. CASE RecordLlmUnknown(t) \/ RecordKnownFailureFacts(t) \/ RecordDeliveryUnknown(t) \/ RecordProvenDelivery(t)
           \/ RecordCheckpointSucceeded(t) \/ RecordCheckpointFailed(t) \/ RecordCompletionFacts(t)
  <2>1. PICK facts, stage : stage \notin GateStages /\ WriteFacts(t, facts, stage)
    BY <1>4 DEF RecordLlmUnknown, RecordKnownFailureFacts, RecordDeliveryUnknown, RecordProvenDelivery,
       RecordCheckpointSucceeded, RecordCheckpointFailed, RecordCompletionFacts, GateStages
  <2> QED
    BY <1>1, <1>2, <2>1, FactsPassTheGate DEF PassesTheGate
<1> QED
  BY <1>3, <1>4

LEMMA LocalStepsPassTheGate ==
    ASSUME RuntimeInv, NEW t \in Turns,
           \/ ReadKillSwitch(t) \/ RecordAuditStart(t) \/ InvokeLlm(t)
           \/ \E result \in OfferedLlmResults : LlmSettles(t, result)
           \/ PutOutput(t) \/ InvokeDelivery(t)
           \/ \E result \in DeliveryOutcomes \cup {"error"} : DeliverySettles(t, result)
           \/ RecordOutboxOutcome(t) \/ RecordOutboxUnknown(t) \/ LoadForCheckpoint(t) \/ WriteCheckpoint(t)
           \/ LoadForBarrier(t) \/ WriteBarrier(t) \/ RecordAuditCompletion(t) \/ PhaseFails(t)
    PROVE  PassesTheGate(t)
<1> USE DEF GateStages
<1>1. JobTyped(jobs[t]) /\ DOMAIN jobs = Turns
  BY DEF RuntimeInv, Typed
<1>2. Begun(t)
  BY DEF ReadKillSwitch, RecordAuditStart, InvokeLlm, LlmSettles, PutOutput, InvokeDelivery, DeliverySettles,
     RecordOutboxOutcome, RecordOutboxUnknown, LoadForCheckpoint, WriteCheckpoint, LoadForBarrier, WriteBarrier,
     RecordAuditCompletion, PhaseFails, FallibleStages, Stages, At, Begun
<1>3. UNCHANGED generation
  BY DEF ReadKillSwitch, RecordAuditStart, InvokeLlm, LlmSettles, PutOutput, InvokeDelivery, DeliverySettles,
     RecordOutboxOutcome, RecordOutboxUnknown, LoadForCheckpoint, WriteCheckpoint, LoadForBarrier, WriteBarrier,
     RecordAuditCompletion, PhaseFails, AuditCall, OutboxCall, ConversationCall, NoEffect
<1>4. /\ DOMAIN snapshots' = DOMAIN snapshots
      /\ \A c \in DOMAIN snapshots : c # Home(t) => snapshots'[c] = snapshots[c]
  <2>1. CASE WriteCheckpoint(t) \/ WriteBarrier(t)
    BY <2>1 DEF WriteCheckpoint, WriteBarrier, Checkpoint, RecordCheckpointBarrier, WriteSnapshot, conversationVars
  <2>2. CASE ~(WriteCheckpoint(t) \/ WriteBarrier(t))
    <3>1. UNCHANGED snapshots
      BY <2>2 DEF ReadKillSwitch, RecordAuditStart, InvokeLlm, LlmSettles, PutOutput, InvokeDelivery, DeliverySettles,
         RecordOutboxOutcome, RecordOutboxUnknown, LoadForCheckpoint, LoadForBarrier, RecordAuditCompletion, PhaseFails,
         AuditCall, OutboxCall, conversationVars, storeVars
    <3> QED
      BY <3>1
  <2> QED
    BY <2>1, <2>2
<1>5. ASSUME NEW job, Only(t, job), job.stage \notin GateStages
      PROVE  jobs' = [jobs EXCEPT ![t] = jobs'[t]] /\ jobs'[t].stage \notin GateStages
  BY <1>1, <1>5 DEF Only
<1>6. \A stage : [jobs[t] EXCEPT !.stage = stage].stage = stage
  BY <1>1 DEF JobTyped
<1>7. \A kind, stage : AfterRecord(jobs[t], kind, stage).stage \in {stage, "error"}
  BY <1>1 DEF AfterRecord, JobTyped
<1>8. /\ LlmUnknown(jobs[t]).stage = "llm-unknown" /\ DeliveryUnknown(jobs[t]).stage = "delivery-unknown"
      /\ CheckpointFailed(jobs[t]).stage = "checkpoint-failed"
      /\ \A result : LlmRoute(jobs[t], result).stage \in {"llm-complete", "failed-move", "llm-unknown"}
      /\ \A result : [jobs[t] EXCEPT !.stage = "outbox-outcome", !.delivery = result].stage = "outbox-outcome"
      /\ \A loaded : [jobs[t] EXCEPT !.stage = "checkpoint-write", !.loaded = loaded].stage = "checkpoint-write"
      /\ [jobs[t] EXCEPT !.stage = "checkpoint-fact", !.checkpoint = "succeeded"].stage = "checkpoint-fact"
      /\ \A c : AfterBarrierLoad(jobs[t], c).stage = "barrier-write"
  BY <1>1 DEF LlmUnknown, DeliveryUnknown, CheckpointFailed, LlmRoute, AfterBarrierLoad, JobTyped
<1>9. \A kind, stage : AfterBarrierWrite(jobs[t], kind, stage).stage \in {stage, "barrier-load", "error"}
  BY <1>1 DEF AfterBarrierWrite, JobTyped
<1>10. \E job : Only(t, job) /\ job.stage \notin GateStages
  <2>1. CASE ReadKillSwitch(t) \/ PutOutput(t) \/ RecordAuditStart(t)
    BY <1>6, <1>7, <2>1 DEF ReadKillSwitch, PutOutput, RecordAuditStart, Goto
  <2>2. CASE InvokeLlm(t) \/ InvokeDelivery(t)
    <3>1. \E stage \in {"llm-wait", "delivery-wait"} :
            \/ Only(t, [jobs[t] EXCEPT !.stage = stage])
            \/ Only(t, LlmUnknown(jobs[t])) \/ Only(t, DeliveryUnknown(jobs[t]))
      BY <2>2 DEF InvokeLlm, InvokeDelivery, Goto
    <3> QED
      BY <1>6, <1>8, <3>1
  <2>3. ASSUME NEW result, LlmSettles(t, result) \/ DeliverySettles(t, result)
        PROVE  \E job : Only(t, job) /\ job.stage \notin GateStages
    BY <1>8, <2>3 DEF LlmSettles, DeliverySettles
  <2>4. CASE RecordOutboxOutcome(t) \/ RecordOutboxUnknown(t) \/ RecordAuditCompletion(t)
    BY <1>7, <2>4 DEF RecordOutboxOutcome, RecordOutboxUnknown, RecordAuditCompletion
  <2>5. CASE LoadForCheckpoint(t) \/ WriteCheckpoint(t) \/ LoadForBarrier(t)
    BY <1>8, <2>5 DEF LoadForCheckpoint, WriteCheckpoint, LoadForBarrier
  <2>6. CASE WriteBarrier(t)
    <3>1. PICK kind : Only(t, AfterBarrierWrite(jobs[t], kind,
                          IF jobs[t].checkpoint = "failed" THEN "audit-completion" ELSE "complete"))
      BY <2>6 DEF WriteBarrier
    <3> QED
      BY <1>9, <3>1
  <2>7. CASE PhaseFails(t)
    <3> DEFINE stopped == [jobs[t] EXCEPT !.stage = "error"]
    <3>1. Only(t, CheckpointFailed(jobs[t])) \/ Only(t, stopped)
      BY <2>7 DEF PhaseFails
    <3>2. stopped.stage = "error"
      BY <1>6
    <3> HIDE DEF stopped
    <3> QED
      BY <1>8, <3>1, <3>2
  <2> QED
    BY <2>1, <2>2, <2>3, <2>4, <2>5, <2>6, <2>7
<1> QED
  BY <1>2, <1>3, <1>4, <1>5, <1>10 DEF PassesTheGate


\* The gate itself, the start of the call it allows, and the deadline.
LEMMA JobDispatches ==
    ASSUME RuntimeInv, DispatchStory, NEW t \in Turns, JobStep(t)
    PROVE  DispatchStory'
<1>1. /\ TextTurnStep(t) \/ PhaseFails(t) \/ Deadline(t)
      /\ JobTyped(jobs[t]) /\ DOMAIN jobs = Turns /\ DOMAIN snapshots = Conversations
      /\ UNCHANGED <<queues, activeTurn, draining, submissions, lifecycle, owned>>
  BY DEF JobStep, RuntimeInv, Typed, DispatchStory, GateStory, dispatcherVars, orchestratorVars
<1>2. ASSUME NEW u \in Turns
      PROVE  submissions[u].stage # "authenticate" => turns'[u].conversation = turns[u].conversation
  <2>1. CASE InvokeLlm(t) \/ InvokeDelivery(t) \/ \E result \in DeliveryOutcomes \cup {"error"} : DeliverySettles(t, result)
    BY <2>1 DEF InvokeLlm, InvokeDelivery, DeliverySettles, storeVars, ledgerVars
  <2>2. CASE ~(InvokeLlm(t) \/ InvokeDelivery(t)
               \/ \E result \in DeliveryOutcomes \cup {"error"} : DeliverySettles(t, result))
    <3>1. RowsGoOn
      BY <1>1, <2>2, JobsGoOn
    <3> QED
      BY <3>1 DEF RowsGoOn, RowGoesOn
  <2> QED
    BY <2>1, <2>2
<1>3. DispatchesStay
  BY <1>1, <1>2 DEF DispatchesStay
<1>4. \A u \in Turns : Begun(u) => turns'[u].conversation = turns[u].conversation
  BY <1>2, EndedTurn DEF Begun
<1>5. QueueStory'
  BY <1>1, <1>3, QueuesKeep DEF DispatchStory
<1>6. BoundStory'
  BY <1>1, <1>2, BoundsKeep DEF DispatchStory
<1>7. OwnerStory'
  BY <1>1 DEF DispatchStory, OwnerStory
<1> SUFFICES RunnerStory' /\ GateStory'
  BY <1>5, <1>6, <1>7 DEF DispatchStory
<1>8. CASE PassesTheGate(t)
  <2>1. \A u \in Turns : u # t => jobs'[u] = jobs[u]
    BY <1>1, <1>8 DEF PassesTheGate
  <2>2. \A u \in Turns : Begun(u)' => Begun(u)
    BY <1>8, <2>1 DEF PassesTheGate, Begun
  <2>3. RunnerStory'
    BY <1>1, <1>4, <2>2, RunnersKeep DEF DispatchStory
  <2>4. ASSUME NEW u \in Turns, jobs'[u].stage \in GateStages
        PROVE  /\ jobs'[u] = jobs[u] /\ turns'[u].conversation = turns[u].conversation
               /\ snapshots'[Home(u)] = snapshots[Home(u)]
    <3>1. u # t /\ jobs'[u] = jobs[u] /\ Begun(u)
      BY <1>8, <2>1, <2>4 DEF PassesTheGate, Begun, GateStages
    <3>2. Home(u) \in Conversations /\ Home(u) # Home(t)
      BY <1>8, <3>1 DEF PassesTheGate, DispatchStory, RunnerStory
    <3> QED
      BY <1>1, <1>4, <1>8, <3>1, <3>2 DEF PassesTheGate
  <2>5. GateStory'
    BY <1>1, <1>8, <2>4, GatesKeep DEF PassesTheGate, DispatchStory, GateStages
  <2> QED
    BY <2>3, <2>5
<1>9. ASSUME NEW job, Only(t, job), UNCHANGED <<generation, snapshots>>,
             \/ Begun(t) \/ job.stage = jobs[t].stage,
             job.generation = jobs[t].generation,
             job.stage \in GateStages => jobs[t].stage \in GateStages \/ snapshots[Home(t)].pause # "degraded"
      PROVE  RunnerStory' /\ GateStory'
  <2>1. \A u \in Turns : jobs'[u] = IF u = t THEN job ELSE jobs[u]
    BY <1>1, <1>9 DEF Only
  <2>2. \A u \in Turns : Begun(u)' => Begun(u)
    BY <1>9, <2>1 DEF Begun
  <2>3. RunnerStory'
    BY <1>1, <1>4, <2>2, RunnersKeep DEF DispatchStory
  <2>4. ASSUME NEW u \in Turns, jobs'[u].stage \in GateStages, GenerationCurrent(u)'
        PROVE  snapshots'[Home(u)'].pause # "degraded"
    <3>1. Begun(u)'
      BY <2>4 DEF Begun, GateStages
    <3>2. Home(u)' = Home(u) /\ snapshots' = snapshots
      BY <1>4, <1>9, <2>2, <3>1 DEF Home
    <3>3. GenerationCurrent(u)
      BY <1>9, <2>1, <2>4 DEF GenerationCurrent
    <3>4. jobs[u].stage \in GateStages => snapshots[Home(u)].pause # "degraded"
      BY <3>3 DEF DispatchStory, GateStory, GateStages
    <3> QED
      BY <1>9, <2>1, <2>4, <3>2, <3>4
  <2>5. GateStory'
    BY <1>1, <1>9, <2>4 DEF GateStory, GateStages
  <2> QED
    BY <2>3, <2>5
<1>10. CASE EvaluateGate(t)
  <2> DEFINE stage == IF GateEligible(snapshots[Home(t)]) THEN "llm-start" ELSE "gate-cancel"
  <2>1. Only(t, [jobs[t] EXCEPT !.stage = stage]) /\ UNCHANGED <<generation, snapshots>> /\ Begun(t)
    BY <1>10 DEF EvaluateGate, Goto, At, Begun, storeVars, conversationVars
  <2>2. stage \in GateStages => snapshots[Home(t)].pause # "degraded"
    BY DEF GateEligible, GateStages
  <2> HIDE DEF stage
  <2>3. [jobs[t] EXCEPT !.stage = stage].stage = stage /\ [jobs[t] EXCEPT !.stage = stage].generation = jobs[t].generation
    BY <1>1 DEF JobTyped
  <2> QED
    BY <1>9, <2>1, <2>2, <2>3
<1>11. CASE StartLlm(t)
  <2> DEFINE kind == TransitionOutcome(t, jobs[t].revision, "queued", "llm_started")
  <2>1. /\ Only(t, AfterLedger(jobs[t], kind, "llm-call")) /\ UNCHANGED <<generation, snapshots>>
        /\ jobs[t].stage \in GateStages /\ Begun(t)
    BY <1>11 DEF StartLlm, Move, LedgerCall, NoEffect, conversationVars, At, Begun, GateStages
  <2> HIDE DEF kind
  <2>2. AfterLedger(jobs[t], kind, "llm-call").generation = jobs[t].generation
    BY <1>1 DEF AfterLedger, JobTyped
  <2> QED
    BY <1>9, <2>1, <2>2
<1>12. CASE Deadline(t)
  <2> DEFINE job == [jobs[t] EXCEPT !.aborted = TRUE]
  <2>1. Only(t, job) /\ UNCHANGED <<generation, snapshots>>
    BY <1>12 DEF Deadline, NoEffect, storeVars, conversationVars
  <2>2. job.stage = jobs[t].stage /\ job.generation = jobs[t].generation
    BY <1>1 DEF JobTyped
  <2> HIDE DEF job
  <2> QED
    BY <1>9, <2>1, <2>2
<1>13. CASE TextTurnStep(t) /\ ~EvaluateGate(t) /\ ~StartLlm(t)
  BY <1>8, <1>13, LedgerStepsPassTheGate, LocalStepsPassTheGate DEF TextTurnStep
<1>14. CASE PhaseFails(t)
  BY <1>8, <1>14, LocalStepsPassTheGate
<1> QED
  BY <1>1, <1>10, <1>11, <1>12, <1>13, <1>14


----------------------------------------------------------------------------
\* The submissions.
LEMMA LeavingEnds ==
    ASSUME RuntimeInv, NEW t \in Turns, LeaveAdmission(t)
    PROVE  /\ submissions'[t].stage = "ended"
           /\ \A u \in Turns : u # t => submissions'[u] = submissions[u]
BY DEF RuntimeInv, Typed, LeaveAdmission, SubmissionTo, NoSubmission

LEMMA AdmittedGoesOn ==
    ASSUME RuntimeInv, NEW t \in Turns, NEW proven \in BOOLEAN, NEW advance, NEW stage, Admit(t, proven, advance, stage)
    PROVE  /\ \A u \in Turns : u # t => submissions'[u] = submissions[u]
           /\ \/ submissions'[t].stage = "ended"
              \/ /\ proven /\ submissions'[t].stage = stage
                 /\ submissions'[t].conversation = submissions[t].conversation
<1>1. submissions \in [Turns -> SubmissionRecords] /\ submissions[t] \in SubmissionRecords
  BY DEF RuntimeInv, Typed
<1>2. CASE proven
  <2> DEFINE revision == submissions[t].revision + advance
  <2>1. submissions' = [submissions EXCEPT ![t] = [submissions[t] EXCEPT !.stage = stage, !.revision = revision]]
    BY <1>2 DEF Admit, SubmissionTo
  <2> HIDE DEF revision
  <2> QED
    BY <1>1, <1>2, <2>1 DEF SubmissionRecords
<1>3. CASE ~proven
  BY <1>3, LeavingEnds DEF Admit
<1> QED
  BY <1>2, <1>3

\* A submission has no job yet; its step is bound to leave the gate as it is.
BoundTo(t) ==
    \/ submissions'[t].stage \in {"none", "binding", "ended"}
    \/ /\ submissions'[t].conversation \in Conversations
       /\ ~draining /\ submissions'[t].stage \in {"accept", "queue", "publish"} =>
            turns'[t].conversation = submissions'[t].conversation

LEMMA SubmissionDispatches ==
    ASSUME RuntimeInv, DispatchStory, NEW t \in Turns, submissions[t].stage # "ended",
           UNCHANGED <<jobs, generation, snapshots, queues, activeTurn, draining, lifecycle, owned>>,
           \A u \in Turns : u # t => submissions'[u] = submissions[u] /\ turns'[u] = turns[u],
           BoundTo(t)
    PROVE  DispatchStory'
<1>1. DispatchesStay
  BY DEF DispatchesStay
<1>2. \A u \in Turns : Begun(u) => u # t
  BY EndedTurn DEF Begun
<1>3. \A u \in Turns : Begun(u)' => Begun(u) /\ turns'[u].conversation = turns[u].conversation
  BY <1>2 DEF Begun
<1>4. QueueStory' /\ RunnerStory'
  BY <1>1, <1>3, QueuesKeep, RunnersKeep DEF DispatchStory
<1>5. GateStory'
  <2>1. \A u \in Turns : jobs'[u].stage \in {"llm-start", "llm-call"} => turns'[u].conversation = turns[u].conversation
    BY <1>3 DEF Begun
  <2> QED
    BY <2>1, GatesKeep DEF DispatchStory, GateStory
<1>6. BoundStory'
  BY DEF DispatchStory, BoundStory, BoundTo
<1>7. OwnerStory'
  BY DEF DispatchStory, OwnerStory
<1> QED
  BY <1>4, <1>5, <1>6, <1>7 DEF DispatchStory

LEMMA QuietlySubmitted ==
    ASSUME SubmissionQuiet
    PROVE  UNCHANGED <<jobs, generation, snapshots, queues, activeTurn, draining, lifecycle, owned>>
BY DEF SubmissionQuiet, SubmissionOnly, pipelineVars, dispatcherVars, conversationVars

LEMMA ObservedDispatches ==
    ASSUME RuntimeInv, DispatchStory, NEW t \in Turns,
           \/ \E key \in TransportKeys : Observe(t, key)
           \/ \E c \in Conversations : Bind(t, c)
           \/ BindingFails(t)
    PROVE  DispatchStory'
<1>1. turns \in [Turns -> Rows] /\ submissions \in [Turns -> SubmissionRecords] /\ submissions[t] \in SubmissionRecords
  BY DEF RuntimeInv, Typed
<1>2. UNCHANGED <<jobs, generation, snapshots, queues, activeTurn, draining, lifecycle, owned>>
  BY QuietlySubmitted DEF Observe, Bind, BindingFails
<1>3. submissions[t].stage # "ended"
  BY DEF Observe, Bind, BindingFails, SubmissionAt
<1>4. \A u \in Turns : u # t => submissions'[u] = submissions[u] /\ turns'[u] = turns[u]
  BY <1>1 DEF Observe, ObserveTransportEvent, Bind, BindingFails, SubmissionTo, ledgerVars
<1>5. BoundTo(t)
  <2>1. ASSUME NEW key \in TransportKeys, Observe(t, key)
        PROVE  submissions'[t].stage \in {"binding", "ended"}
    BY <1>1, <2>1 DEF Observe, SubmissionTo, NoSubmission
  <2>2. ASSUME NEW c \in Conversations, Bind(t, c)
        PROVE  submissions'[t].stage = "authenticate" /\ submissions'[t].conversation = c
    BY <1>1, <2>2 DEF Bind, SubmissionTo, SubmissionRecords
  <2>3. BindingFails(t) => submissions'[t].stage = "ended"
    BY <1>1 DEF BindingFails, SubmissionTo, NoSubmission
  <2> QED
    BY <2>1, <2>2, <2>3 DEF BoundTo
<1> QED
  BY <1>2, <1>3, <1>4, <1>5, SubmissionDispatches

LEMMA AuthenticatedDispatches ==
    ASSUME RuntimeInv, DispatchStory, NEW t \in Turns, Authenticate(t)
    PROVE  DispatchStory'
<1> DEFINE kind == RecordAuthenticationOutcome(t, submissions[t].revision, "authenticated")
           proven == kind \in {"recorded", "already-recorded"}
           home == submissions[t].conversation
<1>1. /\ turns \in [Turns -> Rows] /\ turns[t] \in Rows /\ submissions[t].stage = "authenticate"
      /\ UNCHANGED <<jobs, generation, snapshots, queues, activeTurn, draining, lifecycle, owned>>
  BY QuietlySubmitted DEF RuntimeInv, Typed, Authenticate, SubmissionAt
<1>2. home \in Conversations
  BY <1>1 DEF DispatchStory, BoundStory
<1>3. CASE ~IngressOpen
  <2>1. LeaveAdmission(t) /\ turns' = turns
    BY <1>3 DEF Authenticate, ledgerVars
  <2> QED
    BY <1>1, <2>1, LeavingEnds, SubmissionDispatches DEF BoundTo
<1>4. CASE IngressOpen
  <2>1. Admit(t, proven, IF kind = "recorded" THEN 1 ELSE 0, "accept")
    BY <1>4 DEF Authenticate
  <2>2. turns' = IF kind = "recorded" THEN [turns EXCEPT ![t] = AuthenticatedRow(turns[t], "authenticated", home)] ELSE turns
    BY <1>4 DEF Authenticate, RecordAuthenticationResult
  <2>3. kind = "recorded" => turns'[t].conversation = home
    BY <1>1, <2>2 DEF AuthenticatedRow, MovedTo, Rows
  <2>4. kind = "already-recorded" => draining
    <3>1. kind = "already-recorded" => turns[t].state = "authenticated"
      BY DEF RecordAuthenticationOutcome
    <3>2. ~draining => turns[t].state = "observed"
      BY <1>1 DEF RuntimeInv, TurnInv, SubmissionInv, SubmittedState
    <3>3. draining \in BOOLEAN
      BY DEF RuntimeInv, Typed
    <3> QED
      BY <3>1, <3>2, <3>3
  <2>5. proven \in BOOLEAN /\ (proven /\ ~draining => kind = "recorded")
    BY <2>4
  <2> HIDE DEF kind, proven
  <2>6. /\ \A u \in Turns : u # t => submissions'[u] = submissions[u]
        /\ \/ submissions'[t].stage = "ended"
           \/ proven /\ submissions'[t].stage = "accept" /\ submissions'[t].conversation = home
    BY <2>1, <2>5, AdmittedGoesOn
  <2>7. \A u \in Turns : u # t => turns'[u] = turns[u]
    BY <1>1, <2>2
  <2>8. BoundTo(t)
    BY <1>2, <2>3, <2>5, <2>6 DEF BoundTo
  <2> QED
    BY <1>1, <2>6, <2>7, <2>8, SubmissionDispatches
<1> QED
  BY <1>3, <1>4

\* What is accepted or queued stays where it was bound; a failure there stops the runtime.
LEMMA AdmittedDispatches ==
    ASSUME RuntimeInv, RuntimeInv', DispatchStory, NEW t \in Turns, Accept(t) \/ Queue(t) \/ SubmissionFails(t)
    PROVE  DispatchStory'
<1>1. /\ turns \in [Turns -> Rows] /\ submissions[t].stage \in {"authenticate", "accept", "queue"}
      /\ UNCHANGED <<snapshots, owned>>
  BY DEF RuntimeInv, Typed, Accept, Queue, SubmissionFails, SubmissionAt, SubmissionQuiet, SubmissionOnly, conversationVars
<1>2. submissions[t].conversation \in Conversations
  BY <1>1 DEF DispatchStory, BoundStory
<1>3. ASSUME LeaveAdmission(t), turns' = turns, FailRuntime(jobs)
      PROVE  DispatchStory'
  <2>1. \A u \in Turns : submissions'[u] = submissions[u] \/ submissions'[u].stage = "ended"
    BY <1>3, LeavingEnds
  <2>2. StopWork(jobs) /\ DropQueues
    BY <1>3 DEF FailRuntime, BeginDispatcherDrain
  <2> QED
    BY <1>1, <1>3, <2>1, <2>2, StopDispatches
<1>4. ASSUME LeaveAdmission(t), turns' = turns,
             UNCHANGED <<jobs, generation, snapshots, queues, activeTurn, draining, lifecycle, owned>>
      PROVE  DispatchStory'
  BY <1>1, <1>4, LeavingEnds, SubmissionDispatches DEF BoundTo
<1>5. CASE SubmissionFails(t)
  BY <1>1, <1>3, <1>4, <1>5 DEF SubmissionFails, ledgerVars, dispatcherVars
<1>6. ASSUME NEW proven \in BOOLEAN, NEW advance, NEW stage \in {"queue", "publish"}, Admit(t, proven, advance, stage),
             UNCHANGED <<jobs, generation, snapshots, queues, activeTurn, draining, lifecycle, owned>>,
             Accept(t) \/ Queue(t)
      PROVE  DispatchStory'
  <2>1. /\ \A u \in Turns : u # t => submissions'[u] = submissions[u]
        /\ \/ submissions'[t].stage = "ended"
           \/ submissions'[t].stage = stage /\ submissions'[t].conversation = submissions[t].conversation
    BY <1>6, AdmittedGoesOn
  <2>2. turns'[t].conversation = turns[t].conversation
    BY <1>6, HomeIsKept
  <2>3. submissions[t].stage \in {"accept", "queue"}
    BY <1>6 DEF Accept, Queue, SubmissionAt
  <2>4. ~draining => turns[t].conversation = submissions[t].conversation
    BY <2>3 DEF DispatchStory, BoundStory
  <2>5. BoundTo(t)
    BY <1>2, <2>1, <2>2, <2>4 DEF BoundTo
  <2>6. \A u \in Turns : u # t => turns'[u] = turns[u]
    <3>1. turns' = turns \/ \E to \in {"authenticated", "accepted", "queued"} : RowMoved(t, to)
      BY <1>6, SubmissionMoves
    <3> QED
      BY <1>1, <3>1 DEF RowMoved
  <2> QED
    BY <1>6, <2>1, <2>3, <2>5, <2>6, SubmissionDispatches
<1>7. CASE Accept(t)
  <2> DEFINE kind == AcceptOutcome(t, submissions[t].revision)
             proven == kind \in {"accepted", "already-accepted"}
             advance == IF kind = "accepted" THEN 1 ELSE 0
  <2>1. Admit(t, proven, advance, "queue") /\ proven \in BOOLEAN
    BY <1>7 DEF Accept
  <2>2. UNCHANGED <<jobs, generation, snapshots, queues, activeTurn, draining, lifecycle, owned>>
    BY <1>7, QuietlySubmitted DEF Accept
  <2> HIDE DEF proven, advance
  <2> QED
    BY <1>6, <1>7, <2>1, <2>2
<1>8. CASE Queue(t)
  <2> DEFINE kind == TransitionOutcome(t, submissions[t].revision, "accepted", "queued")
             proven == kind \in {"transitioned", "already-transitioned"}
             advance == IF kind = "transitioned" THEN 1 ELSE 0
  <2>1. Admit(t, proven, advance, "publish") /\ proven \in BOOLEAN
    BY <1>8 DEF Queue
  <2>2. CASE proven
    <3>1. UNCHANGED <<jobs, generation, snapshots, queues, activeTurn, draining, lifecycle, owned>>
      BY <1>1, <1>8, <2>2 DEF Queue, dispatcherVars
    <3> HIDE DEF proven, advance
    <3> QED
      BY <1>6, <1>8, <2>1, <3>1
  <2>3. CASE ~proven
    <3>1. FailRuntime(jobs) /\ turns' = turns
      BY <1>8, <2>3 DEF Queue, Transition
    <3> HIDE DEF proven
    <3>2. LeaveAdmission(t)
      BY <2>1, <2>3 DEF Admit
    <3> QED
      BY <1>3, <3>1, <3>2
  <2> QED
    BY <2>2, <2>3
<1> QED
  BY <1>5, <1>7, <1>8


----------------------------------------------------------------------------
\* Jobs begin: those the dispatcher has made active of their own conversation.
LEMMA BegunAreActive ==
    ASSUME QueueStory', NEW now, jobs' = Started(now), \A u \in Turns : JobTyped(now[u]),
           \A u \in Turns : now[u] = jobs[u] \/ now[u].stage \in {"idle", "queued"},
           \A u \in Turns : Begun(u) /\ now[u] = jobs[u] =>
             turns'[u].conversation \in Conversations /\ activeTurn'[turns'[u].conversation] = u
    PROVE  RunnerStory'
<1> SUFFICES ASSUME NEW u \in Turns, Begun(u)'
             PROVE  turns'[u].conversation \in Conversations /\ activeTurn'[turns'[u].conversation] = u
  BY DEF RunnerStory, Home
<1>1. jobs'[u] = IF now[u].stage = "queued" /\ \E c \in Conversations : activeTurn'[c] = u
                 THEN [now[u] EXCEPT !.stage = IF lifecycle = "failed" THEN "done" ELSE "kill-switch"]
                 ELSE now[u]
  BY DEF Started
<1>2. CASE now[u].stage = "queued" /\ \E c \in Conversations : activeTurn'[c] = u
  <2>1. PICK c \in Conversations : activeTurn'[c] = u
    BY <1>2
  <2>2. u # None
    BY ConstantsAssumption
  <2>3. activeTurn'[c] # None => turns'[activeTurn'[c]].conversation = c
    BY DEF QueueStory, Dispatched
  <2>4. turns'[u].conversation = c
    BY <2>1, <2>2, <2>3
  <2> QED
    BY <2>1, <2>4
<1>3. CASE ~(now[u].stage = "queued" /\ \E c \in Conversations : activeTurn'[c] = u)
  <2>1. jobs'[u] = now[u]
    BY <1>1, <1>3
  <2>2. now[u] = jobs[u] /\ Begun(u)
    BY <2>1 DEF Begun
  <2> QED
    BY <2>2
<1> QED
  BY <1>2, <1>3

\* Where jobs begin, none comes nearer to its model call.
LEMMA StartedGates ==
    ASSUME GateStory, NEW now, jobs' = Started(now), \A u \in Turns : JobTyped(now[u]),
           \A u \in Turns : now[u] = jobs[u] \/ now[u].stage \in {"idle", "queued"},
           UNCHANGED <<turns, generation, snapshots>>
    PROVE  GateStory'
<1>1. ASSUME NEW u \in Turns, jobs'[u].stage \in {"llm-start", "llm-call"}
      PROVE  jobs[u].stage \in {"llm-start", "llm-call"} /\ jobs'[u].generation = jobs[u].generation
  <2>1. Starts(jobs'[u], now[u])
    BY StartedJobs
  <2>2. /\ jobs'[u].generation = now[u].generation
        /\ jobs'[u].stage = now[u].stage \/ jobs'[u].stage \in {"kill-switch", "done"}
    BY <2>1, StartedLocals
  <2> QED
    BY <1>1, <2>2
<1> QED
  BY <1>1, GatesKeep DEF GateStory

LEMMA NextWaiting ==
    ASSUME NEW c, NEW queue \in Seq(WaitingJobs(c)'), queue # <<>>
    PROVE  /\ Tail(queue) \in Seq(WaitingJobs(c)') /\ Head(queue).turn \in Turns
           /\ turns'[Head(queue).turn].conversation = c /\ submissions'[Head(queue).turn].stage = "ended"
<1>1. Tail(queue) \in Seq(WaitingJobs(c)') /\ Head(queue) \in WaitingJobs(c)'
  OBVIOUS
<1> QED
  BY <1>1 DEF WaitingJobs, Dispatched

LEMMA QueuedJobTyped ==
    ASSUME NEW revision \in Nat, NEW of \in Nat
    PROVE  LET job == [NoJob EXCEPT !.stage = "queued", !.revision = revision, !.generation = of]
           IN  JobTyped(job) /\ job.stage = "queued"
<1> DEFINE named == [NoJob EXCEPT !.stage = "queued"]
           revised == [named EXCEPT !.revision = revision]
           job == [revised EXCEPT !.generation = of]
<1>1. JobTyped(NoJob)
  BY DEF JobTyped, NoJob, Stages
<1>2. JobTyped(named) /\ named.stage = "queued"
  <2> HIDE DEF NoJob
  <2> QED
    BY <1>1 DEF JobTyped, Stages
<1> HIDE DEF named
<1>3. JobTyped(revised) /\ revised.stage = "queued"
  BY <1>2 DEF JobTyped
<1> HIDE DEF revised
<1>4. JobTyped(job) /\ job.stage = "queued"
  BY <1>3 DEF JobTyped
<1> QED
  BY <1>4 DEF named, revised

LEMMA PublishedDispatches ==
    ASSUME RuntimeInv, DispatchStory, NEW t \in Turns, Publish(t)
    PROVE  DispatchStory'
<1>0. PICK c \in Conversations : c = submissions[t].conversation
  BY DEF Publish, SubmissionAt, DispatchStory, BoundStory
<1> DEFINE entry == DispatcherJob(t, turns[t].sequence)
           queue == InsertSorted(queues[c], entry)
           starts == c \notin Active /\ Cardinality(Active) < MaxGlobalPending
           job == [NoJob EXCEPT !.stage = "queued", !.revision = submissions[t].revision, !.generation = generation]
           now == [jobs EXCEPT ![t] = job]
<1>1. /\ Typed /\ turns[t] \in Rows /\ submissions[t] \in SubmissionRecords /\ submissions[t].stage = "publish"
      /\ UNCHANGED <<turns, generation, snapshots, lifecycle, owned>> /\ LeaveAdmission(t)
      /\ Enqueue(c, entry)
  BY <1>0 DEF RuntimeInv, Typed, Publish, SubmissionAt, SubmissionOnly, ledgerVars, conversationVars
<1>2. submissions'[t].stage = "ended" /\ \A u \in Turns : u # t => submissions'[u] = submissions[u]
  BY <1>1, LeavingEnds
<1>3. CASE EnqueueOutcome(c) # "enqueued"
  <2>1. UNCHANGED <<jobs, queues, activeTurn, draining>>
    BY <1>0, <1>1, <1>3 DEF Publish, Enqueue, dispatcherVars
  <2> QED
    BY <1>1, <1>2, <2>1, SubmissionDispatches DEF BoundTo
<1>4. CASE EnqueueOutcome(c) = "enqueued"
  <2>1. ~draining /\ turns[t].conversation = c
    <3>1. ~draining
      BY <1>4 DEF EnqueueOutcome
    <3> QED
      BY <1>0, <1>1, <3>1 DEF DispatchStory, BoundStory
  <2>2. DispatchesStay
    BY <1>1, <1>2 DEF DispatchesStay
  <2>3. entry \in WaitingJobs(c)'
    <3>1. turns[t].sequence \in Nat
      BY <1>1, ConstantsAssumption DEF Rows
    <3> QED
      BY <1>1, <1>2, <2>1, <3>1 DEF WaitingJobs, Dispatched, DispatcherJob
  <2>4. queues[c] \in Seq(WaitingJobs(c)')
    BY <2>2, SameQueue DEF DispatchStory, QueueStory
  <2>5. queue \in Seq(WaitingJobs(c)') /\ queue # <<>>
    BY <2>3, <2>4, InsertSortedTyped
  <2>6. /\ queues' = [queues EXCEPT ![c] = IF starts THEN Tail(queue) ELSE queue]
        /\ activeTurn' = [activeTurn EXCEPT ![c] = IF starts THEN Head(queue).turn ELSE @]
        /\ draining' = draining /\ jobs' = Started(now)
    BY <1>0, <1>1, <1>4 DEF Enqueue, Publish
  <2>7. starts => activeTurn[c] = None
    BY DEF Active
  <2> HIDE DEF queue, starts, entry
  <2>8. /\ Tail(queue) \in Seq(WaitingJobs(c)') /\ Head(queue).turn \in Turns
        /\ turns'[Head(queue).turn].conversation = c /\ submissions'[Head(queue).turn].stage = "ended"
    BY <2>5, NextWaiting
  <2>10. QueueStory'
    <3>1. /\ DOMAIN queues' = Conversations /\ queues' = [d \in Conversations |-> queues'[d]]
          /\ DOMAIN activeTurn' = Conversations /\ activeTurn' = [d \in Conversations |-> activeTurn'[d]]
      BY <2>6 DEF DispatchStory, QueueStory
    <3>2. ASSUME NEW d \in Conversations
          PROVE  queues'[d] \in Seq(WaitingJobs(d)')
      <4>1. CASE d = c
        BY <2>5, <2>6, <2>8, <4>1 DEF DispatchStory, QueueStory
      <4>2. CASE d # c
        <5>1. queues'[d] = queues[d]
          BY <2>6, <4>2 DEF DispatchStory, QueueStory
        <5> QED
          BY <2>2, <5>1, SameQueue DEF DispatchStory, QueueStory
      <4> QED
        BY <4>1, <4>2
    <3>3. ASSUME NEW d \in Conversations, NEW u, u = activeTurn'[d], u # None
          PROVE  u \in Turns /\ Dispatched(u, d)'
      <4>1. u = activeTurn[d] \/ (d = c /\ u = Head(queue).turn)
        BY <2>6, <3>3 DEF DispatchStory, QueueStory
      <4>2. CASE u = activeTurn[d]
        BY <2>2, <3>3, <4>2 DEF DispatchStory, QueueStory, DispatchesStay, Dispatched
      <4>3. CASE d = c /\ u = Head(queue).turn
        BY <2>8, <4>3 DEF Dispatched
      <4> QED
        BY <4>1, <4>2, <4>3
    <3>4. (\A d \in Conversations : activeTurn[d] # None => activeTurn[d] \in Turns /\ Dispatched(activeTurn[d], d))'
      BY <3>3
    <3> QED
      BY <3>1, <3>2, <3>4 DEF QueueStory
  <2>11. /\ \A u \in Turns : JobTyped(now[u])
         /\ \A u \in Turns : now[u] = jobs[u] \/ now[u].stage \in {"idle", "queued"}
    <3>1. JobTyped(job) /\ job.stage = "queued"
      <4>1. submissions[t].revision \in Nat /\ generation \in Nat
        BY <1>1 DEF Typed, SubmissionRecords
      <4> QED
        BY <4>1, QueuedJobTyped
    <3>2. \A u \in Turns : JobTyped(jobs[u])
      BY <1>1 DEF Typed
    <3> HIDE DEF job
    <3> QED
      BY <1>1, <3>1, <3>2 DEF Typed
  <2>12. \A u \in Turns : Begun(u) => turns'[u].conversation \in Conversations /\ activeTurn'[turns'[u].conversation] = u
    <3> TAKE u \in Turns
    <3>1. Begun(u) => Home(u) \in Conversations /\ activeTurn[Home(u)] = u /\ u # None
      BY ConstantsAssumption DEF DispatchStory, RunnerStory
    <3>2. Begun(u) => activeTurn'[Home(u)] = activeTurn[Home(u)]
      BY <2>6, <2>7, <3>1 DEF DispatchStory, QueueStory
    <3> QED
      BY <1>1, <3>1, <3>2 DEF Home
  <2> HIDE DEF now
  <2>13. RunnerStory'
    BY <2>6, <2>10, <2>11, <2>12, BegunAreActive
  <2>14. GateStory'
    BY <1>1, <2>6, <2>11, StartedGates DEF DispatchStory
  <2>15. BoundStory'
    BY <1>1, <1>2, <2>6, BoundsKeep DEF DispatchStory
  <2>16. OwnerStory'
    BY <1>1, <2>6 DEF DispatchStory, OwnerStory
  <2> QED
    BY <2>10, <2>13, <2>14, <2>15, <2>16 DEF DispatchStory
<1> QED
  BY <1>3, <1>4

LEMMA EndedDispatches ==
    ASSUME RuntimeInv, DispatchStory, NEW t \in Turns, JobEnds(t)
    PROVE  DispatchStory'
<1> DEFINE c == Home(t)
           now == [jobs EXCEPT ![t] = NoJob]
<1>1. /\ UNCHANGED <<turns, generation, snapshots, lifecycle, owned, submissions>> /\ JobSettles(c)
      /\ jobs' = Started(now) /\ Begun(t)
  BY DEF JobEnds, storeVars, ledgerVars, conversationVars, orchestratorVars, At, Begun
<1>2. c \in Conversations /\ activeTurn[c] = t
  BY <1>1 DEF DispatchStory, RunnerStory
<1>3. PICK started \in SUBSET Ready(c) :
        /\ activeTurn' = [d \in Conversations |->
             IF d \in started THEN Head(queues[d]).turn
             ELSE IF d = c THEN None ELSE activeTurn[d]]
        /\ queues' = [d \in Conversations |-> IF d \in started THEN Tail(queues[d]) ELSE queues[d]]
        /\ UNCHANGED draining
  BY <1>1 DEF JobSettles
<1>4. DispatchesStay
  BY <1>1, SameDispatches
<1>5. QueueStory'
  <2>1. /\ DOMAIN queues' = Conversations /\ queues' = [d \in Conversations |-> queues'[d]]
        /\ DOMAIN activeTurn' = Conversations /\ activeTurn' = [d \in Conversations |-> activeTurn'[d]]
    BY <1>3
  <2>2. \A d \in Conversations : queues[d] \in Seq(WaitingJobs(d)')
    BY <1>4, SameQueue DEF DispatchStory, QueueStory
  <2>3. ASSUME NEW d \in started
        PROVE  /\ d \in Conversations /\ Tail(queues[d]) \in Seq(WaitingJobs(d)')
               /\ \A u : u = Head(queues[d]).turn => u \in Turns /\ Dispatched(u, d)'
    <3>1. d \in Conversations /\ queues[d] # <<>>
      BY <1>3, <2>3 DEF Ready
    <3>2. PICK queue \in Seq(WaitingJobs(d)') : queue = queues[d]
      BY <2>2, <3>1
    <3>3. /\ Tail(queue) \in Seq(WaitingJobs(d)') /\ Head(queue).turn \in Turns
          /\ turns'[Head(queue).turn].conversation = d /\ submissions'[Head(queue).turn].stage = "ended"
      BY <3>1, <3>2, NextWaiting
    <3> QED
      BY <3>1, <3>2, <3>3 DEF Dispatched
  <2>4. \A d \in Conversations : queues'[d] \in Seq(WaitingJobs(d)')
    BY <1>3, <2>2, <2>3
  <2>5. ASSUME NEW d \in Conversations, NEW u, u = activeTurn'[d], u # None
        PROVE  u \in Turns /\ Dispatched(u, d)'
    <3>1. (d \in started /\ u = Head(queues[d]).turn) \/ u = activeTurn[d]
      BY <1>3, <2>5
    <3>2. CASE u = activeTurn[d]
      BY <1>4, <2>5, <3>2 DEF DispatchStory, QueueStory, DispatchesStay, Dispatched
    <3>3. CASE d \in started /\ u = Head(queues[d]).turn
      BY <2>3, <3>3
    <3> QED
      BY <3>1, <3>2, <3>3
  <2>6. (\A d \in Conversations : activeTurn[d] # None => activeTurn[d] \in Turns /\ Dispatched(activeTurn[d], d))'
    BY <2>5
  <2> QED
    BY <2>1, <2>4, <2>6 DEF QueueStory
<1>6. /\ \A u \in Turns : JobTyped(now[u])
      /\ \A u \in Turns : now[u] = IF u = t THEN NoJob ELSE jobs[u]
      /\ NoJob.stage = "idle"
  <2>1. JobTyped(NoJob) /\ NoJob.stage = "idle"
    BY DEF JobTyped, NoJob, Stages
  <2>2. DOMAIN jobs = Turns /\ \A u \in Turns : JobTyped(jobs[u])
    BY DEF RuntimeInv, Typed
  <2> QED
    BY <2>1, <2>2
<1>7. \A u \in Turns : Begun(u) /\ u # t =>
        turns'[u].conversation \in Conversations /\ activeTurn'[turns'[u].conversation] = u
  <2> SUFFICES ASSUME NEW u \in Turns, Begun(u), u # t
               PROVE  Home(u) \in Conversations /\ activeTurn'[Home(u)] = u
    BY <1>1 DEF Home
  <2>1. Home(u) \in Conversations /\ activeTurn[Home(u)] = u /\ u # None
    BY ConstantsAssumption DEF DispatchStory, RunnerStory
  <2>2. Home(u) # c /\ Home(u) \in Active
    BY <1>2, <2>1 DEF Active
  <2>3. Home(u) \notin started
    BY <1>3, <2>2 DEF Ready
  <2> QED
    BY <1>3, <2>1, <2>2, <2>3
<1> HIDE DEF now
<1>8. \A u \in Turns : now[u] = jobs[u] \/ now[u].stage \in {"idle", "queued"}
  BY <1>6
<1>9. \A u \in Turns : Begun(u) /\ now[u] = jobs[u] => u # t
  BY <1>6 DEF Begun
<1>10. RunnerStory'
  BY <1>1, <1>5, <1>6, <1>7, <1>8, <1>9, BegunAreActive
<1>11. GateStory'
  BY <1>1, <1>6, <1>8, StartedGates DEF DispatchStory
<1>12. BoundStory' /\ OwnerStory'
  BY <1>1, <1>3 DEF DispatchStory, BoundStory, OwnerStory
<1> QED
  BY <1>5, <1>10, <1>11, <1>12 DEF DispatchStory


----------------------------------------------------------------------------
\* Nothing waits or runs at first, and every step keeps the dispatcher's story.
LEMMA DispatchStarts == RuntimeInit => DispatchStory
<1> SUFFICES ASSUME RuntimeInit
             PROVE  DispatchStory
  OBVIOUS
<1>1. /\ queues = [c \in Conversations |-> <<>>] /\ activeTurn = [c \in Conversations |-> None]
      /\ jobs = [t \in Turns |-> NoJob] /\ snapshots = [c \in Conversations |-> NoSnapshot]
      /\ submissions = [t \in Turns |-> NoSubmission] /\ lifecycle = "new"
  BY DEF RuntimeInit, DispatcherInit, PipelineInit, ConversationInit
<1>2. \A S : <<>> \in Seq(S)
  OBVIOUS
<1>3. QueueStory
  BY <1>1, <1>2 DEF QueueStory
<1>4. \A t \in Turns : jobs[t].stage = "idle" /\ submissions[t].stage = "none"
  BY <1>1 DEF NoJob, NoSubmission
<1>5. RunnerStory /\ GateStory /\ BoundStory /\ OwnerStory
  BY <1>1, <1>4 DEF RunnerStory, GateStory, BoundStory, OwnerStory, Begun
<1> QED
  BY <1>3, <1>5 DEF DispatchStory

LEMMA DispatchSteps ==
    RuntimeInv /\ RuntimeInv' /\ DispatchStory /\ [RuntimeNext]_runtimeVars => DispatchStory'
<1> SUFFICES ASSUME RuntimeInv, RuntimeInv', DispatchStory, [RuntimeNext]_runtimeVars
             PROVE  DispatchStory'
  OBVIOUS
<1>1. CASE Start \/ StartReturns \/ CloseReturns \/ UNCHANGED runtimeVars
  BY <1>1, LifecycleDispatches
<1>2. CASE Crash
  BY <1>2, CrashDispatches
<1>3. CASE Recover
  BY <1>3, RecoverDispatches
<1>4. CASE \E close \in BOOLEAN : BeginDrain(close)
  BY <1>4, StopsDispatch
<1>5. ASSUME NEW t \in Turns,
             \/ \E key \in TransportKeys : Observe(t, key)
             \/ \E c \in Conversations : Bind(t, c)
             \/ BindingFails(t) \/ Authenticate(t) \/ Accept(t) \/ Queue(t) \/ SubmissionFails(t)
      PROVE  DispatchStory'
  BY <1>5, ObservedDispatches, AuthenticatedDispatches, AdmittedDispatches
<1>6. ASSUME NEW t \in Turns, JobStep(t) \/ JobFails(t) \/ JobEnds(t) \/ Publish(t)
      PROVE  DispatchStory'
  BY <1>6, JobDispatches, StopsDispatch, EndedDispatches, PublishedDispatches
<1> QED
  BY <1>1, <1>2, <1>3, <1>4, <1>5, <1>6 DEF RuntimeNext

LEMMA RuntimeDispatches == RuntimeSpec => []DispatchStory
  BY DispatchStarts, DispatchSteps, RuntimeKeepsInv, PTL DEF RuntimeSpec

\* A job of the current generation runs in a process that owns its ledger.
LEMMA CurrentJobsAreOwned ==
    ASSUME RuntimeInv, DispatchStory, NEW t \in Turns, Working(t), GenerationCurrent(t)
    PROVE  ~draining /\ owned
<1>1. draining \in BOOLEAN /\ generation \in Nat /\ jobs[t].generation = generation
  BY DEF RuntimeInv, Typed, GenerationCurrent
<1>2. draining => jobs[t].generation < generation
  BY DEF RuntimeInv, TurnInv, JobInv
<1>3. ~draining
  BY <1>1, <1>2
<1>4. ~NoWork
  BY DEF NoWork, Working
<1> QED
  BY <1>3, <1>4 DEF RuntimeInv, ProcessInv, DispatchStory, OwnerStory

\* What a step must respect when it calls a provider for a turn.
CallAllowed(t) ==
    /\ effects'[t].llm > effects[t].llm => snapshots[Home(t)].pause # "degraded"
    /\ effects'[t].llm + effects'[t].delivery > effects[t].llm + effects[t].delivery => ~draining /\ owned

LEMMA SilentStepIsAllowed ==
    ASSUME RuntimeInv, NEW u \in Turns,
           effects'[u].llm = effects[u].llm /\ effects'[u].delivery = effects[u].delivery
    PROVE  CallAllowed(u)
<1>1. effects[u].llm \in {0, 1} /\ effects[u].delivery \in {0, 1}
  BY DEF RuntimeInv, Typed, EffectRecords
<1> QED
  BY <1>1 DEF CallAllowed

LEMMA CallsAreAllowed ==
    ASSUME RuntimeInv, DispatchStory, NEW t \in Turns,
           InvokeLlm(t) \/ InvokeDelivery(t) \/ \E result \in DeliveryOutcomes \cup {"error"} : DeliverySettles(t, result)
    PROVE  \A u \in Turns : CallAllowed(u)
<1>1. /\ effects \in [Turns -> EffectRecords] /\ effects[t] \in EffectRecords
      /\ effects[t].llm \in {0, 1} /\ effects[t].delivery \in {0, 1}
  BY DEF RuntimeInv, Typed, EffectRecords
<1>2. CASE effects' = effects
  BY <1>2, SilentStepIsAllowed
<1>3. CASE InvokeLlm(t) /\ effects' # effects
  <2>1. /\ effects' = [effects EXCEPT ![t].llm = @ + 1] /\ GenerationCurrent(t) /\ Working(t)
        /\ jobs[t].stage = "llm-call"
    BY <1>3 DEF InvokeLlm, At, Working
  <2>2. snapshots[Home(t)].pause # "degraded" /\ ~draining /\ owned
    BY <2>1, CurrentJobsAreOwned DEF DispatchStory, GateStory
  <2> QED
    BY <1>1, <2>1, <2>2, SilentStepIsAllowed DEF CallAllowed
<1>4. CASE InvokeDelivery(t) /\ effects' # effects
  <2>1. effects' = [effects EXCEPT ![t].delivery = @ + 1] /\ GenerationCurrent(t) /\ Working(t)
    BY <1>4 DEF InvokeDelivery, At, Working
  <2>2. ~draining /\ owned
    BY <2>1, CurrentJobsAreOwned
  <2>3. effects'[t].llm = effects[t].llm
    BY <1>1, <2>1 DEF EffectRecords
  <2>4. ~(effects'[t].llm > effects[t].llm)
    BY <1>1, <2>3
  <2> QED
    BY <1>1, <2>1, <2>2, <2>4, SilentStepIsAllowed DEF CallAllowed
<1>5. CASE \E result \in DeliveryOutcomes \cup {"error"} : DeliverySettles(t, result)
  <2>1. PICK result : effects' = [effects EXCEPT ![t].answer = result]
    BY <1>5 DEF DeliverySettles
  <2>2. \A u \in Turns : effects'[u].llm = effects[u].llm /\ effects'[u].delivery = effects[u].delivery
    BY <1>1, <2>1 DEF EffectRecords
  <2> QED
    BY <2>2, SilentStepIsAllowed
<1> QED
  BY <1>2, <1>3, <1>4, <1>5

LEMMA StepsAreAllowed ==
    RuntimeInv /\ DispatchStory /\ [RuntimeNext]_runtimeVars => \A t \in Turns : CallAllowed(t)
<1> SUFFICES ASSUME RuntimeInv, DispatchStory, [RuntimeNext]_runtimeVars
             PROVE  \A t \in Turns : CallAllowed(t)
  OBVIOUS
<1>1. CASE UNCHANGED effects
  BY <1>1, SilentStepIsAllowed
<1>2. ASSUME NEW t \in Turns, JobStep(t)
      PROVE  \A u \in Turns : CallAllowed(u)
  BY <1>1, <1>2, CallsAreAllowed, JobsGoOn DEF JobStep
<1>3. ASSUME NEW t \in Turns, NEW key \in TransportKeys, Observe(t, key)
      PROVE  UNCHANGED effects
  BY <1>3 DEF Observe, SubmissionQuiet, pipelineVars
<1> QED
  BY <1>1, <1>2, <1>3, RecoveryRowsGoOn, SubmissionGoesItsWay, OtherStepsAreQuiet DEF RuntimeNext

\* No model call starts in a degraded conversation, and no provider call after a drain,
\* after a failure or without the ownership of the ledger, for any number of turns and
\* conversations: the gate and the generation are read stages earlier, and nobody who
\* could make them wrong runs in between.
THEOREM CallsNeedPermission == RuntimeSpec => CallsStartOnlyWhenAllowed
<1>1. RuntimeInv /\ DispatchStory /\ [RuntimeNext]_runtimeVars =>
        [\A t \in Turns :
           /\ effects'[t].llm > effects[t].llm => snapshots[Home(t)].pause # "degraded"
           /\ effects'[t].llm + effects'[t].delivery > effects[t].llm + effects[t].delivery =>
                ~draining /\ owned]_runtimeVars
  BY StepsAreAllowed DEF CallAllowed
<1> QED
  BY <1>1, RuntimeKeepsInv, RuntimeDispatches, PTL DEF RuntimeSpec, CallsStartOnlyWhenAllowed

----------------------------------------------------------------------------
\* The order of a context.  A turn takes its sequence number alone at the head of its
\* line, is queued behind every turn before it, and runs while nobody else of its
\* conversation does: so what a checkpoint appends is later than what is there.

\* Stages of a job that has written its checkpoint, or writes none.
PastCheckpoint ==
    {"idle", "checkpoint-fact", "checkpoint-failed", "audit-completion", "completion-fact", "complete", "error",
     "done"} \cup BarrierStages
WillWrite(t) == jobs[t].stage \notin PastCheckpoint

InLineStages == {"authenticate", "accept", "queue", "publish"}

\* A turn is the latest of its conversation while its submission holds the line.
Latest(t) ==
    /\ turns[t].sequence > 0
    /\ \A u \in Turns : u # t /\ turns[u].conversation = turns[t].conversation =>
         turns[u].sequence < turns[t].sequence

PlaceStory ==
    \A t \in Turns :
      /\ submissions[t].stage \in {"binding", "authenticate", "accept"} => turns[t].sequence = 0
      /\ turns[t].conversation \in Conversations =>
           turns[t].sequence < sequenceCounters[turns[t].conversation]
      /\ ~draining /\ submissions[t].stage \in {"queue", "publish"} => Latest(t)

\* The admission serializer: past the authentication a submission is at the head.
InLine(t, line) == \E i \in 1 .. Len(line) : line[i] = t

LineStory ==
    /\ admission \in [Conversations -> Seq(Turns)]
    /\ \A t \in Turns : submissions[t].stage \in InLineStages =>
         /\ InLine(t, admission[submissions[t].conversation])
         /\ submissions[t].stage # "authenticate" => HeadOfLine(t)

\* A queue is sorted, and later than the context.
InOrder(c, queue) ==
    /\ \A i \in DOMAIN queue : queue[i].sequence = turns[queue[i].turn].sequence
    /\ \A i, j \in DOMAIN queue : i < j => queue[i].sequence < queue[j].sequence
    /\ \A i \in DOMAIN snapshots[c].context, j \in DOMAIN queue :
         turns[snapshots[c].context[i]].sequence < queue[j].sequence

RunsFirst(u, queue) == \A j \in DOMAIN queue : turns[u].sequence < queue[j].sequence
WritesNext(c, u) ==
    \A i \in DOMAIN snapshots[c].context : turns[snapshots[c].context[i]].sequence < turns[u].sequence

SnapshotShaped(snapshot) ==
    snapshot \in [ revision : {snapshot.revision}, pause : {snapshot.pause}, checkpoint : {snapshot.checkpoint},
                   context : Seq(Turns) ]

ContextStory(c) ==
    /\ SnapshotShaped(snapshots[c])
    /\ \A i \in DOMAIN snapshots[c].context : Dispatched(snapshots[c].context[i], c)
    /\ \A i, j \in DOMAIN snapshots[c].context : i < j =>
         turns[snapshots[c].context[i]].sequence < turns[snapshots[c].context[j]].sequence
    /\ InOrder(c, queues[c])
    /\ activeTurn[c] # None =>
         /\ RunsFirst(activeTurn[c], queues[c])
         /\ WillWrite(activeTurn[c]) => WritesNext(c, activeTurn[c])

\* A job appends to the context as it still is.
LoadStory ==
    \A t \in Turns : jobs[t].stage = "checkpoint-write" => jobs[t].loaded.context = snapshots[Home(t)].context

WorkStory == (\A c \in Conversations : ContextStory(c)) /\ LoadStory
OrderStory == PlaceStory /\ LineStory /\ WorkStory

\* Places are taken by the accepting submission alone.
PlacesStay ==
    /\ UNCHANGED sequenceCounters
    /\ \A u \in Turns : turns'[u].conversation = turns[u].conversation /\ turns'[u].sequence = turns[u].sequence

LEMMA MovesKeepPlaces ==
    ASSUME Typed, NEW t \in Turns, NEW revision, NEW from, NEW to, Transition(t, revision, from, to)
    PROVE  PlacesStay
<1>1. turns \in [Turns -> Rows] /\ turns[t] \in Rows
  BY DEF Typed
<1>2. MovedTo(turns[t], to).conversation = turns[t].conversation /\ MovedTo(turns[t], to).sequence = turns[t].sequence
  BY <1>1 DEF MovedTo, Rows
<1> QED
  BY <1>1, <1>2 DEF Transition, PlacesStay

LEMMA FactsKeepPlaces ==
    ASSUME Typed, NEW t \in Turns, NEW revision, NEW facts, RecordFactualOutcome(t, revision, facts)
    PROVE  PlacesStay
<1>1. turns \in [Turns -> Rows] /\ turns[t] \in Rows
  BY DEF Typed
<1>2. WithFacts(turns[t], facts).conversation = turns[t].conversation /\ WithFacts(turns[t], facts).sequence = turns[t].sequence
  BY <1>1 DEF WithFacts, Rows
<1> QED
  BY <1>1, <1>2 DEF RecordFactualOutcome, PlacesStay

LEMMA JobsKeepPlaces ==
    ASSUME RuntimeInv, NEW t \in Turns, JobStep(t)
    PROVE  PlacesStay
<1>1. Typed /\ (TextTurnStep(t) \/ PhaseFails(t) \/ Deadline(t))
  BY DEF RuntimeInv, JobStep
<1>2. ASSUME NEW from, NEW to, NEW stage, Move(t, from, to, stage)
      PROVE  PlacesStay
  BY <1>1, <1>2, MovesKeepPlaces DEF Move
<1>3. ASSUME NEW facts, NEW stage, WriteFacts(t, facts, stage)
      PROVE  PlacesStay
  BY <1>1, <1>3, FactsKeepPlaces DEF WriteFacts
<1>4. ASSUME UNCHANGED ledgerVars
      PROVE  PlacesStay
  BY <1>4 DEF PlacesStay, ledgerVars
<1>5. CASE CancelAtGate(t) \/ CompleteAtGate(t) \/ StartLlm(t) \/ CancelUnknownLlm(t) \/ RecordKnownFailure(t)
           \/ CompleteKnownFailure(t) \/ PrepareNotice(t) \/ RecordLlmCompleted(t) \/ ValidateOutput(t)
           \/ StartDelivery(t) \/ MoveToDeliveryUnknown(t) \/ MoveToProven(t) \/ CompleteTurn(t)
  BY <1>2, <1>5 DEF CancelAtGate, CompleteAtGate, StartLlm, CancelUnknownLlm, RecordKnownFailure,
     CompleteKnownFailure, PrepareNotice, RecordLlmCompleted, ValidateOutput, StartDelivery, MoveToDeliveryUnknown,
     MoveToProven, CompleteTurn
<1>6. CASE RecordLlmUnknown(t) \/ RecordKnownFailureFacts(t) \/ RecordDeliveryUnknown(t) \/ RecordProvenDelivery(t)
           \/ RecordCheckpointSucceeded(t) \/ RecordCheckpointFailed(t) \/ RecordCompletionFacts(t)
  BY <1>3, <1>6 DEF RecordLlmUnknown, RecordKnownFailureFacts, RecordDeliveryUnknown, RecordProvenDelivery,
     RecordCheckpointSucceeded, RecordCheckpointFailed, RecordCompletionFacts
<1>7. CASE ReadKillSwitch(t) \/ EvaluateGate(t) \/ (\E result \in OfferedLlmResults : LlmSettles(t, result))
           \/ LoadForCheckpoint(t) \/ LoadForBarrier(t) \/ PhaseFails(t) \/ Deadline(t) \/ InvokeLlm(t)
           \/ InvokeDelivery(t) \/ \E result \in DeliveryOutcomes \cup {"error"} : DeliverySettles(t, result)
  BY <1>4, <1>7 DEF ReadKillSwitch, EvaluateGate, LlmSettles, LoadForCheckpoint, LoadForBarrier, PhaseFails, Deadline,
     InvokeLlm, InvokeDelivery, DeliverySettles, storeVars
<1>8. CASE RecordAuditStart(t) \/ PutOutput(t) \/ RecordOutboxOutcome(t) \/ RecordOutboxUnknown(t)
           \/ WriteCheckpoint(t) \/ WriteBarrier(t) \/ RecordAuditCompletion(t)
  BY <1>4, <1>8 DEF RecordAuditStart, PutOutput, RecordOutboxOutcome, RecordOutboxUnknown, WriteCheckpoint,
     WriteBarrier, RecordAuditCompletion, AuditCall, OutboxCall, ConversationCall
<1> QED
  BY <1>1, <1>5, <1>6, <1>7, <1>8 DEF TextTurnStep

LEMMA RecoveryKeepsPlaces ==
    ASSUME RuntimeInv, Recover
    PROVE  PlacesStay
<1>1. ASSUME UNCHANGED ledgerVars
      PROVE  PlacesStay
  BY <1>1 DEF PlacesStay, ledgerVars
<1>2. ASSUME NEW from, NEW to, NEW stage, AtCandidate, RecoveryMove(from, to, stage)
      PROVE  PlacesStay
  <2>1. PICK t \in Turns : t = Candidate
    BY <1>2, CandidateFacts
  <2> QED
    BY <1>2, <2>1, MovesKeepPlaces DEF RecoveryMove, RuntimeInv
<1>3. ASSUME NEW facts, NEW stage, AtCandidate, RecoveryFacts(facts, stage)
      PROVE  PlacesStay
  <2>1. PICK t \in Turns : t = Candidate
    BY <1>3, CandidateFacts
  <2> QED
    BY <1>3, <2>1, FactsKeepPlaces DEF RecoveryFacts, RuntimeInv
<1>4. CASE CancelCandidate \/ CompleteCandidate \/ RecoverLlmCancel \/ RecoverDeliveryMove
  BY <1>2, <1>4 DEF CancelCandidate, CompleteCandidate, RecoverLlmCancel, RecoverDeliveryMove, Recovering, AtCandidate
<1>5. CASE RecoverLlmFacts \/ RecoverDeliveryFacts \/ ReconcileFailed \/ ReconcileFacts
  BY <1>3, <1>5 DEF RecoverLlmFacts, RecoverDeliveryFacts, ReconcileFailed, ReconcileFacts, Recovering, AtCandidate
<1>6. CASE ListCandidates \/ PageIsDone \/ (\E t \in Turns : PickCandidate(t)) \/ RecoverOutbox \/ AssessCheckpoint
           \/ RecoverBarrierLoad \/ ReconcileContradiction \/ ReconcileRecorded \/ RecoveryFails
  BY <1>1, <1>6 DEF ListCandidates, PageIsDone, PickCandidate, RecoverOutbox, AssessCheckpoint, RecoverBarrierLoad,
     ReconcileContradiction, ReconcileRecorded, RecoveryFails, storeVars
<1>7. CASE RecoverTombstone \/ RecoverBarrierWrite \/ ReconcileAudit
  BY <1>1, <1>7 DEF RecoverTombstone, RecoverBarrierWrite, ReconcileAudit, OutboxCall, ConversationCall, AuditCall
<1> QED
  BY <1>4, <1>5, <1>6, <1>7 DEF Recover, RecoveryStep

LEMMA PlacesKept ==
    ASSUME PlaceStory, PlacesStay,
           \A u \in Turns :
             /\ submissions'[u].stage \in {"binding", "authenticate", "accept"} => turns[u].sequence = 0
             /\ submissions'[u].stage \in {"queue", "publish"} /\ ~draining' =>
                  ~draining /\ submissions[u].stage \in {"queue", "publish"}
    PROVE  PlaceStory'
<1> USE DEF PlaceStory
<1>1. \A u \in Turns : Latest(u) => Latest(u)'
  BY DEF Latest, PlacesStay
<1> QED
  BY <1>1 DEF PlacesStay

\* A submission joins its line, goes on at its head, or leaves it; the others stay.
LineMoves(t) ==
    /\ \A u \in Turns : u # t => submissions'[u] = submissions[u]
    /\ \/ submissions'[t].stage \in {"none", "binding", "ended"} /\ UNCHANGED admission
       \/ /\ submissions'[t].stage \in {"none", "binding", "ended"} /\ submissions[t].stage \in InLineStages
          /\ HeadOfLine(t)
          /\ admission' = [admission EXCEPT ![submissions[t].conversation] = Tail(@)]
       \/ /\ submissions'[t].stage \in InLineStages /\ submissions[t].stage \in InLineStages /\ UNCHANGED admission
          /\ HeadOfLine(t) /\ submissions'[t].conversation = submissions[t].conversation
       \/ /\ submissions[t].stage = "binding" /\ submissions'[t].stage = "authenticate"
          /\ \E c \in Conversations :
               submissions'[t].conversation = c /\ admission' = [admission EXCEPT ![c] = Append(@, t)]

LEMMA TailOfLine ==
    ASSUME NEW line \in Seq(Turns), NEW t, InLine(t, line), Head(line) # t
    PROVE  Tail(line) \in Seq(Turns) /\ InLine(t, Tail(line))
<1>1. PICK i \in 1 .. Len(line) : line[i] = t
  BY DEF InLine
<1>2. i # 1 /\ line # <<>>
  BY <1>1
<1>3. i - 1 \in 1 .. Len(Tail(line)) /\ Tail(line)[i - 1] = line[i]
  BY <1>1, <1>2
<1> QED
  BY <1>1, <1>2, <1>3 DEF InLine

LEMMA LongerLine ==
    ASSUME NEW line \in Seq(Turns), NEW t \in Turns
    PROVE  /\ Append(line, t) \in Seq(Turns) /\ InLine(t, Append(line, t))
           /\ \A u : InLine(u, line) => InLine(u, Append(line, t)) /\ Head(Append(line, t)) = Head(line)
<1>1. Len(Append(line, t)) = Len(line) + 1 /\ Append(line, t)[Len(line) + 1] = t
  OBVIOUS
<1>2. \A i \in 1 .. Len(line) : Append(line, t)[i] = line[i] /\ i \in 1 .. Len(line) + 1
  OBVIOUS
<1>3. Len(line) # 0 => Head(Append(line, t)) = Head(line)
  BY <1>1, <1>2
<1>4. Len(line) + 1 \in 1 .. Len(Append(line, t))
  BY <1>1
<1>5. InLine(t, Append(line, t))
  BY <1>1, <1>4 DEF InLine
<1>6. ASSUME NEW u, InLine(u, line)
      PROVE  InLine(u, Append(line, t)) /\ Head(Append(line, t)) = Head(line)
  <2>1. PICK i \in 1 .. Len(line) : line[i] = u
    BY <1>6 DEF InLine
  <2>2. Len(line) # 0
    BY <2>1
  <2> QED
    BY <1>1, <1>2, <1>3, <2>1, <2>2 DEF InLine
<1> QED
  BY <1>5, <1>6

LEMMA LinesMove ==
    ASSUME LineStory, BoundStory, NEW t \in Turns, LineMoves(t)
    PROVE  LineStory'
<1> DEFINE home(u) == submissions[u].conversation
<1>1. \A u \in Turns : submissions[u].stage \in InLineStages => home(u) \in Conversations
  BY DEF BoundStory, InLineStages
<1>2. CASE UNCHANGED admission /\ submissions'[t].stage \in {"none", "binding", "ended"}
  BY <1>2 DEF LineStory, LineMoves, HeadOfLine, InLineStages
<1>3. CASE /\ submissions'[t].stage \in {"none", "binding", "ended"} /\ submissions[t].stage \in InLineStages
           /\ HeadOfLine(t) /\ admission' = [admission EXCEPT ![home(t)] = Tail(@)]
  <2>1. home(t) \in Conversations /\ InLine(t, admission[home(t)]) /\ Head(admission[home(t)]) = t
    BY <1>1, <1>3 DEF LineStory, HeadOfLine
  <2>2. admission[home(t)] # <<>>
    BY <2>1 DEF InLine
  <2>3. Tail(admission[home(t)]) \in Seq(Turns)
    BY <2>1, <2>2 DEF LineStory
  <2>4. admission' \in [Conversations -> Seq(Turns)]
    BY <1>3, <2>3 DEF LineStory
  <2>5. ASSUME NEW u \in Turns, submissions'[u].stage \in InLineStages
        PROVE  /\ InLine(u, admission'[submissions'[u].conversation])
               /\ submissions'[u].stage # "authenticate" => Head(admission'[submissions'[u].conversation]) = u
    <3>1. u # t /\ submissions'[u] = submissions[u]
      BY <1>3, <2>5 DEF LineMoves, InLineStages
    <3>2. /\ InLine(u, admission[home(u)]) /\ home(u) \in Conversations
          /\ submissions[u].stage # "authenticate" => Head(admission[home(u)]) = u
      BY <1>1, <2>5, <3>1 DEF LineStory, HeadOfLine
    <3>3. CASE home(u) = home(t)
      <4>1. submissions[u].stage = "authenticate"
        BY <2>1, <3>1, <3>2, <3>3
      <4>2. InLine(u, Tail(admission[home(u)]))
        BY <2>1, <3>1, <3>2, <3>3, TailOfLine DEF LineStory
      <4>3. admission'[home(u)] = Tail(admission[home(u)])
        BY <1>3, <2>1, <3>3 DEF LineStory
      <4> QED
        BY <3>1, <4>1, <4>2, <4>3
    <3>4. CASE home(u) # home(t)
      <4>1. admission'[home(u)] = admission[home(u)]
        BY <1>3, <2>1, <3>2, <3>4 DEF LineStory
      <4> QED
        BY <3>1, <3>2, <4>1
    <3> QED
      BY <3>3, <3>4
  <2> QED
    BY <2>4, <2>5 DEF LineStory, HeadOfLine
<1>4. CASE /\ submissions'[t].stage \in InLineStages /\ submissions[t].stage \in InLineStages /\ UNCHANGED admission
           /\ HeadOfLine(t) /\ submissions'[t].conversation = submissions[t].conversation
  BY <1>4 DEF LineStory, LineMoves, HeadOfLine
<1>5. ASSUME NEW c \in Conversations, submissions[t].stage = "binding", submissions'[t].stage = "authenticate",
             submissions'[t].conversation = c, admission' = [admission EXCEPT ![c] = Append(@, t)]
      PROVE  LineStory'
  <2>1. /\ Append(admission[c], t) \in Seq(Turns) /\ InLine(t, Append(admission[c], t))
        /\ \A u : InLine(u, admission[c]) =>
             InLine(u, Append(admission[c], t)) /\ Head(Append(admission[c], t)) = Head(admission[c])
    <3>1. admission[c] \in Seq(Turns)
      BY DEF LineStory
    <3> QED
      BY <3>1, LongerLine
  <2>2. admission' \in [Conversations -> Seq(Turns)] /\ admission'[c] = Append(admission[c], t)
    BY <1>5, <2>1 DEF LineStory
  <2>3. ASSUME NEW u \in Turns, submissions'[u].stage \in InLineStages
        PROVE  /\ InLine(u, admission'[submissions'[u].conversation])
               /\ submissions'[u].stage # "authenticate" => Head(admission'[submissions'[u].conversation]) = u
    <3>1. CASE u = t
      BY <1>5, <2>1, <2>2, <3>1
    <3>2. CASE u # t
      <4>1. submissions'[u] = submissions[u]
        BY <3>2 DEF LineMoves
      <4>2. /\ InLine(u, admission[home(u)]) /\ home(u) \in Conversations
            /\ submissions[u].stage # "authenticate" => Head(admission[home(u)]) = u
        BY <1>1, <2>3, <4>1 DEF LineStory, HeadOfLine
      <4>3. CASE home(u) = c
        BY <2>1, <2>2, <4>1, <4>2, <4>3
      <4>4. CASE home(u) # c
        <5>1. admission'[home(u)] = admission[home(u)]
          BY <1>5, <4>2, <4>4 DEF LineStory
        <5> QED
          BY <4>1, <4>2, <5>1
      <4> QED
        BY <4>3, <4>4
    <3> QED
      BY <3>1, <3>2
  <2> QED
    BY <2>2, <2>3 DEF LineStory, HeadOfLine
<1> QED
  BY <1>2, <1>3, <1>4, <1>5 DEF LineMoves

\* What has left its submission keeps its place.
PublishedStay ==
    \A u \in Turns : submissions[u].stage = "ended" =>
      /\ submissions'[u].stage = "ended"
      /\ turns'[u].conversation = turns[u].conversation /\ turns'[u].sequence = turns[u].sequence

ContextStays(c) ==
    snapshots'[c].context = snapshots[c].context /\ (SnapshotShaped(snapshots[c]) => SnapshotShaped(snapshots'[c]))
ContextsStay == \A c \in Conversations : ContextStays(c)

LEMMA WaitingTurns ==
    ASSUME NEW c, NEW queue \in Seq(WaitingJobs(c)), NEW i \in DOMAIN queue
    PROVE  /\ queue[i].turn \in Turns /\ queue[i].sequence \in Nat
           /\ turns[queue[i].turn].conversation = c /\ submissions[queue[i].turn].stage = "ended"
<1>1. queue[i] \in WaitingJobs(c)
  OBVIOUS
<1> QED
  BY <1>1 DEF WaitingJobs, Dispatched

LEMMA ContextKept ==
    ASSUME QueueStory, NEW c \in Conversations, ContextStory(c), PublishedStay, ContextStays(c),
           queues'[c] \in {queues[c], <<>>}, activeTurn'[c] \in {activeTurn[c], None},
           \A u \in Turns : WillWrite(u)' => WillWrite(u)
    PROVE  ContextStory(c)'
<1> DEFINE context == snapshots[c].context
           queue == queues[c]
<1>1. /\ snapshots'[c].context = context /\ SnapshotShaped(snapshots'[c]) /\ context \in Seq(Turns)
  BY DEF ContextStory, ContextStays, SnapshotShaped
<1>2. \A i \in DOMAIN context :
        /\ context[i] \in Turns /\ turns'[context[i]].sequence = turns[context[i]].sequence
        /\ turns'[context[i]].conversation = c /\ submissions'[context[i]].stage = "ended"
  BY <1>1 DEF ContextStory, Dispatched, PublishedStay
<1>3. \A i \in DOMAIN queue : turns'[queue[i].turn].sequence = turns[queue[i].turn].sequence
  <2>1. queue \in Seq(WaitingJobs(c))
    BY DEF QueueStory
  <2> QED
    BY <2>1, WaitingTurns DEF PublishedStay
<1>4. activeTurn[c] # None => turns'[activeTurn[c]].sequence = turns[activeTurn[c]].sequence
  BY DEF QueueStory, Dispatched, PublishedStay
<1>5. InOrder(c, queue)'
  <2>1. \A i \in DOMAIN queue : queue[i].sequence = turns'[queue[i].turn].sequence
    BY <1>3 DEF ContextStory, InOrder
  <2>2. \A i, j \in DOMAIN queue : i < j => queue[i].sequence < queue[j].sequence
    BY DEF ContextStory, InOrder
  <2>3. \A i \in DOMAIN context, j \in DOMAIN queue : turns'[context[i]].sequence < queue[j].sequence
    BY <1>2 DEF ContextStory, InOrder
  <2>4. CASE queues'[c] = queue
    BY <1>1, <2>1, <2>2, <2>3, <2>4 DEF InOrder
  <2>5. CASE queues'[c] = <<>>
    BY <2>5 DEF InOrder
  <2> QED
    BY <2>4, <2>5
<1>6. activeTurn'[c] # None =>
        /\ RunsFirst(activeTurn[c], queues[c])'
        /\ WillWrite(activeTurn[c])' => WritesNext(c, activeTurn[c])'
  <2> SUFFICES ASSUME activeTurn'[c] # None
               PROVE  /\ RunsFirst(activeTurn[c], queues[c])'
                      /\ WillWrite(activeTurn[c])' => WritesNext(c, activeTurn[c])'
    OBVIOUS
  <2>1. activeTurn'[c] = activeTurn[c] /\ activeTurn[c] # None
    OBVIOUS
  <2>2. RunsFirst(activeTurn[c], queues[c])'
    <3>1. \A j \in DOMAIN queue : turns'[activeTurn[c]].sequence < queue[j].sequence
      BY <1>4, <2>1 DEF ContextStory, RunsFirst
    <3> QED
      BY <2>1, <3>1 DEF RunsFirst
  <2>3. ASSUME WillWrite(activeTurn[c])'
        PROVE  WritesNext(c, activeTurn[c])'
    <3>1. WillWrite(activeTurn[c])
      BY <2>1, <2>3 DEF WillWrite, QueueStory
    <3>2. \A i \in DOMAIN context : turns'[context[i]].sequence < turns'[activeTurn[c]].sequence
      BY <1>2, <1>4, <2>1, <3>1 DEF ContextStory, WritesNext
    <3> QED
      BY <1>1, <2>1, <3>2 DEF WritesNext
  <2> QED
    BY <2>2, <2>3
<1>7. /\ (\A i \in DOMAIN snapshots[c].context : Dispatched(snapshots[c].context[i], c))'
      /\ (\A i, j \in DOMAIN snapshots[c].context : i < j =>
            turns[snapshots[c].context[i]].sequence < turns[snapshots[c].context[j]].sequence)'
  <2>1. \A i, j \in DOMAIN context : i < j => turns'[context[i]].sequence < turns'[context[j]].sequence
    BY <1>2 DEF ContextStory
  <2> QED
    BY <1>1, <1>2, <2>1 DEF Dispatched
<1> QED
  BY <1>1, <1>5, <1>6, <1>7 DEF ContextStory

\* Jobs that do not come nearer to their checkpoint, and keep what they loaded.
JobsStay ==
    \A u \in Turns :
      /\ WillWrite(u)' => WillWrite(u)
      /\ jobs'[u].stage = "checkpoint-write" =>
           jobs[u].stage = "checkpoint-write" /\ jobs'[u].loaded = jobs[u].loaded

LEMMA LoadsKept ==
    ASSUME RuntimeInv, DispatchStory, LoadStory, PublishedStay, ContextsStay, JobsStay
    PROVE  LoadStory'
<1> SUFFICES ASSUME NEW t \in Turns, jobs'[t].stage = "checkpoint-write"
             PROVE  jobs'[t].loaded.context = snapshots'[Home(t)'].context
  BY DEF LoadStory
<1>1. jobs[t].stage = "checkpoint-write" /\ jobs'[t].loaded = jobs[t].loaded
  BY DEF JobsStay
<1>2. Home(t) \in Conversations /\ submissions[t].stage = "ended"
  BY <1>1, EndedTurn DEF DispatchStory, RunnerStory, Begun
<1>3. Home(t)' = Home(t)
  BY <1>2 DEF PublishedStay, Home
<1> QED
  BY <1>1, <1>2, <1>3 DEF LoadStory, ContextsStay, ContextStays

LEMMA WorkKept ==
    ASSUME RuntimeInv, DispatchStory, WorkStory, PublishedStay, ContextsStay, JobsStay,
           \A c \in Conversations : queues'[c] \in {queues[c], <<>>} /\ activeTurn'[c] \in {activeTurn[c], None}
    PROVE  WorkStory'
<1>1. \A c \in Conversations : ContextStory(c)'
  BY ContextKept DEF DispatchStory, WorkStory, JobsStay, ContextsStay
<1> QED
  BY <1>1, LoadsKept DEF WorkStory

LEMMA SamePlaces ==
    ASSUME PlacesStay, UNCHANGED submissions
    PROVE  PublishedStay
BY DEF PlacesStay, PublishedStay

\* What writes neither the lines nor the places leaves them in order.
LEMMA LinesKept ==
    ASSUME PlaceStory, LineStory, PlacesStay, UNCHANGED <<submissions, admission>>, draining => draining'
    PROVE  PlaceStory' /\ LineStory'
<1>1. PlaceStory'
  BY PlacesKept DEF PlaceStory
<1> QED
  BY <1>1 DEF LineStory, HeadOfLine

LEMMA LifecycleOrders ==
    ASSUME RuntimeInv, DispatchStory, OrderStory, Start \/ StartReturns \/ CloseReturns \/ UNCHANGED runtimeVars
    PROVE  OrderStory'
<1>1. UNCHANGED <<turns, sequenceCounters, submissions, admission, jobs, snapshots, queues, activeTurn, draining>>
  BY DEF Start, StartReturns, CloseReturns, runtimeVars, storeVars, ledgerVars, conversationVars, pipelineVars,
     dispatcherVars, orchestratorVars
<1>2. PlacesStay /\ ContextsStay /\ JobsStay
  BY <1>1 DEF PlacesStay, ContextsStay, ContextStays, JobsStay, WillWrite
<1>3. WorkStory'
  BY <1>1, <1>2, SamePlaces, WorkKept DEF OrderStory
<1> QED
  BY <1>1, <1>2, <1>3, LinesKept DEF OrderStory

LEMMA CrashOrders ==
    ASSUME RuntimeInv, DispatchStory, OrderStory, Crash
    PROVE  OrderStory'
<1>1. /\ queues' = [c \in Conversations |-> <<>>] /\ activeTurn' = [c \in Conversations |-> None]
      /\ admission' = [c \in Conversations |-> <<>>]
      /\ jobs' = [t \in Turns |-> NoJob] /\ UNCHANGED <<turns, sequenceCounters, snapshots>>
  BY DEF Crash, storeVars, ledgerVars, conversationVars
<1>2. \A t \in Turns : submissions'[t].stage \in {"none", "ended"}
                      /\ (submissions[t].stage = "ended" => submissions'[t].stage = "ended")
  BY DEF Crash, NoSubmission, SubmissionAt
<1>3. PublishedStay /\ PlacesStay /\ ContextsStay
  BY <1>1, <1>2 DEF PublishedStay, PlacesStay, ContextsStay, ContextStays
<1>4. JobsStay
  <2>1. \A t \in Turns : jobs'[t].stage = "idle"
    BY <1>1 DEF NoJob
  <2> QED
    BY <2>1 DEF JobsStay, WillWrite, PastCheckpoint
<1>5. WorkStory'
  BY <1>1, <1>3, <1>4, WorkKept DEF OrderStory
<1>6. PlaceStory'
  BY <1>2, <1>3, PlacesKept DEF OrderStory
<1>7. LineStory'
  <2>1. <<>> \in Seq(Turns)
    OBVIOUS
  <2> QED
    BY <1>1, <1>2, <2>1 DEF LineStory, InLineStages
<1> QED
  BY <1>5, <1>6, <1>7 DEF OrderStory

\* Where work is stopped nothing is loaded and nothing comes nearer to its checkpoint.
LEMMA StopKeepsJobs ==
    ASSUME RuntimeInv, NEW now, StopWork(now),
           \A u \in Turns : now[u] = jobs[u] \/ now[u] = [jobs[u] EXCEPT !.stage = "done"]
    PROVE  JobsStay
<1> SUFFICES ASSUME NEW u \in Turns
             PROVE  /\ WillWrite(u)' => WillWrite(u)
                    /\ jobs'[u].stage = "checkpoint-write" =>
                         jobs[u].stage = "checkpoint-write" /\ jobs'[u].loaded = jobs[u].loaded
  BY DEF JobsStay
<1>1. /\ jobs'[u] = Aborted(now[u]) /\ JobTyped(jobs[u])
      /\ now[u] = jobs[u] \/ now[u] = [jobs[u] EXCEPT !.stage = "done"]
  BY DEF StopWork, RuntimeInv, Typed
<1>2. Aborted(now[u]).stage \notin {"idle", "error", "done"} => Aborted(now[u]).stage = jobs[u].stage
  BY <1>1, StoppedJob
<1>3. WillWrite(u)' => WillWrite(u)
  BY <1>1, <1>2 DEF WillWrite, PastCheckpoint
<1>4. ASSUME jobs'[u].stage = "checkpoint-write"
      PROVE  jobs'[u].loaded = jobs[u].loaded
  <2>1. jobs[u].stage = "checkpoint-write"
    BY <1>1, <1>2, <1>4
  <2>2. CASE now[u] = [jobs[u] EXCEPT !.stage = "done"]
    <3>1. now[u].stage = "done" /\ Aborted(now[u]) = now[u]
      BY <1>1, <2>2 DEF Aborted, AbortableStages, JobTyped
    <3> QED
      BY <1>1, <1>4, <3>1
  <2>3. CASE now[u] = jobs[u]
    BY <1>1, <2>1, <2>3 DEF Aborted, AbortableStages
  <2> QED
    BY <1>1, <2>2, <2>3
<1> QED
  BY <1>1, <1>2, <1>3, <1>4

\* Work is stopped beside submissions that stay where they are.
LEMMA StopsOrder ==
    ASSUME RuntimeInv, DispatchStory, OrderStory,
           \/ \E close \in BOOLEAN : BeginDrain(close)
           \/ \E t \in Turns : JobFails(t)
    PROVE  OrderStory'
<1>1. /\ UNCHANGED <<turns, sequenceCounters, submissions, admission, snapshots, activeTurn>>
      /\ draining' = TRUE /\ queues' = [c \in Conversations |-> <<>>]
  BY DEF BeginDrain, JobFails, FailRuntime, DrainAndWait, BeginDispatcherDrain, DropQueues, storeVars, ledgerVars,
     conversationVars
<1>2. \E now : StopWork(now) /\ \A u \in Turns : now[u] = jobs[u] \/ now[u] = [jobs[u] EXCEPT !.stage = "done"]
  <2>1. ASSUME NEW t \in Turns, JobFails(t)
        PROVE  \A u \in Turns : \/ [jobs EXCEPT ![t].stage = "done"][u] = jobs[u]
                                \/ [jobs EXCEPT ![t].stage = "done"][u] = [jobs[u] EXCEPT !.stage = "done"]
    BY DEF RuntimeInv, Typed
  <2> QED
    BY <2>1 DEF BeginDrain, JobFails, FailRuntime
<1>3. JobsStay
  BY <1>2, StopKeepsJobs
<1>4. PlacesStay /\ ContextsStay
  BY <1>1 DEF PlacesStay, ContextsStay, ContextStays
<1>5. WorkStory'
  BY <1>1, <1>3, <1>4, SamePlaces, WorkKept DEF OrderStory
<1> QED
  BY <1>1, <1>4, <1>5, LinesKept DEF OrderStory

\* A barrier keeps the context.
LEMMA BarrierKeepsContexts ==
    ASSUME DOMAIN snapshots = Conversations, \A d \in Conversations : SnapshotShaped(snapshots[d]),
           NEW c, NEW key, NEW revision, RecordCheckpointBarrier(c, key, revision)
    PROVE  ContextsStay
<1> DEFINE old == snapshots[c]
           next == Degrade(old)
<1>1. ASSUME c \in Conversations
      PROVE  next.context = old.context /\ SnapshotShaped(next)
  <2> DEFINE a == [old EXCEPT !.revision = @ + 1]
             b == [a EXCEPT !.pause = "degraded"]
  <2>1. a.context = old.context /\ SnapshotShaped(a)
    BY <1>1 DEF SnapshotShaped
  <2> HIDE DEF a
  <2>2. b.context = a.context /\ SnapshotShaped(b)
    BY <2>1 DEF SnapshotShaped
  <2> HIDE DEF b
  <2>3. next = [b EXCEPT !.checkpoint = "failed"]
    BY DEF Degrade, a, b
  <2> HIDE DEF next
  <2> QED
    BY <2>1, <2>2, <2>3 DEF SnapshotShaped
<1>2. snapshots' = snapshots \/ snapshots' = [snapshots EXCEPT ![c] = next]
  BY DEF RecordCheckpointBarrier, WriteSnapshot, conversationVars
<1> HIDE DEF next
<1> QED
  BY <1>1, <1>2 DEF ContextsStay, ContextStays

LEMMA RecoverOrders ==
    ASSUME RuntimeInv, DispatchStory, OrderStory, Recover
    PROVE  OrderStory'
<1>1. UNCHANGED <<jobs, submissions, admission, queues, activeTurn, draining>>
  BY DEF Recover, dispatcherVars, orchestratorVars
<1>2. PlacesStay
  BY RecoveryKeepsPlaces
<1>3. ContextsStay
  <2>1. snapshots' = snapshots \/ RecoverBarrierWrite
    BY DEF Recover, RecoveryFails, RecoveryStep, ListCandidates, PageIsDone, PickCandidate, CancelCandidate,
       CompleteCandidate, RecoverLlmFacts, RecoverLlmCancel, RecoverOutbox, RecoverTombstone, RecoverDeliveryFacts,
       RecoverDeliveryMove, AssessCheckpoint, RecoverBarrierLoad, ReconcileContradiction,
       ReconcileRecorded, ReconcileFailed, ReconcileAudit, ReconcileFacts, RecoveryMove, RecoveryFacts, LedgerCall,
       OutboxCall, AuditCall, conversationVars, storeVars
  <2>2. CASE RecoverBarrierWrite
    <3>1. PICK c, key, revision : RecordCheckpointBarrier(c, key, revision)
      BY <2>2 DEF RecoverBarrierWrite
    <3> QED
      BY <3>1, BarrierKeepsContexts DEF DispatchStory, GateStory, OrderStory, WorkStory, ContextStory
  <2> QED
    BY <2>1, <2>2 DEF ContextsStay, ContextStays
<1>4. JobsStay
  BY <1>1 DEF JobsStay, WillWrite
<1>5. WorkStory'
  BY <1>1, <1>2, <1>3, <1>4, SamePlaces, WorkKept DEF OrderStory
<1> QED
  BY <1>1, <1>2, <1>5, LinesKept DEF OrderStory

\* What a step of a job may do to the order: nothing, unless it loads or writes the
\* checkpoint.
StepsOn(t, job) ==
    Only(t, job) /\ job.stage # "checkpoint-write" /\ (job.stage \in PastCheckpoint \/ WillWrite(t))

LEMMA JobStepsOn ==
    ASSUME NEW t \in Turns, DOMAIN jobs = Turns, NEW job, StepsOn(t, job)
    PROVE  JobsStay
<1>1. \A u \in Turns : jobs'[u] = IF u = t THEN job ELSE jobs[u]
  BY DEF StepsOn, Only
<1> QED
  BY <1>1 DEF StepsOn, JobsStay, WillWrite

LEMMA LedgerStepsOn ==
    ASSUME RuntimeInv, NEW t \in Turns,
           \/ CancelAtGate(t) \/ CompleteAtGate(t) \/ StartLlm(t) \/ CancelUnknownLlm(t) \/ RecordKnownFailure(t)
           \/ CompleteKnownFailure(t) \/ PrepareNotice(t) \/ RecordLlmCompleted(t) \/ ValidateOutput(t)
           \/ StartDelivery(t) \/ MoveToDeliveryUnknown(t) \/ MoveToProven(t) \/ CompleteTurn(t)
           \/ RecordLlmUnknown(t) \/ RecordKnownFailureFacts(t) \/ RecordDeliveryUnknown(t) \/ RecordProvenDelivery(t)
           \/ RecordCheckpointSucceeded(t) \/ RecordCheckpointFailed(t) \/ RecordCompletionFacts(t)
    PROVE  JobsStay /\ UNCHANGED snapshots
<1>1. JobTyped(jobs[t]) /\ DOMAIN jobs = Turns
  BY DEF RuntimeInv, Typed
<1>2. ASSUME NEW kind, NEW stage, stage # "checkpoint-write", stage \in PastCheckpoint \/ WillWrite(t),
             Only(t, AfterLedger(jobs[t], kind, stage))
      PROVE  JobsStay
  <2>1. AfterLedger(jobs[t], kind, stage).stage \in {stage, "error"}
    BY <1>1 DEF AfterLedger, JobTyped
  <2>2. StepsOn(t, AfterLedger(jobs[t], kind, stage))
    BY <1>2, <2>1 DEF StepsOn, PastCheckpoint
  <2> QED
    BY <1>1, <2>2, JobStepsOn
<1>3. CASE CancelAtGate(t) \/ CompleteAtGate(t) \/ StartLlm(t) \/ CancelUnknownLlm(t) \/ RecordKnownFailure(t)
           \/ CompleteKnownFailure(t) \/ PrepareNotice(t) \/ RecordLlmCompleted(t) \/ ValidateOutput(t)
           \/ StartDelivery(t) \/ MoveToDeliveryUnknown(t) \/ MoveToProven(t) \/ CompleteTurn(t)
  <2>1. PICK from, to, stage : /\ stage # "checkpoint-write" /\ (stage \in PastCheckpoint \/ WillWrite(t))
                               /\ Move(t, from, to, stage)
    BY <1>3 DEF CancelAtGate, CompleteAtGate, StartLlm, CancelUnknownLlm, RecordKnownFailure, CompleteKnownFailure,
       PrepareNotice, RecordLlmCompleted, ValidateOutput, StartDelivery, MoveToDeliveryUnknown, MoveToProven,
       CompleteTurn, At, WillWrite, PastCheckpoint, BarrierStages
  <2> QED
    BY <1>2, <2>1 DEF Move, LedgerCall, conversationVars
<1>4. CASE RecordLlmUnknown(t) \/ RecordKnownFailureFacts(t) \/ RecordDeliveryUnknown(t) \/ RecordProvenDelivery(t)
           \/ RecordCheckpointSucceeded(t) \/ RecordCheckpointFailed(t) \/ RecordCompletionFacts(t)
  <2>1. PICK facts, stage : /\ stage # "checkpoint-write" /\ (stage \in PastCheckpoint \/ WillWrite(t))
                            /\ WriteFacts(t, facts, stage)
    BY <1>4 DEF RecordLlmUnknown, RecordKnownFailureFacts, RecordDeliveryUnknown, RecordProvenDelivery,
       RecordCheckpointSucceeded, RecordCheckpointFailed, RecordCompletionFacts, At, WillWrite, PastCheckpoint,
       BarrierStages
  <2> QED
    BY <1>2, <2>1 DEF WriteFacts, LedgerCall, conversationVars
<1> QED
  BY <1>3, <1>4

LEMMA LocalStepsOn ==
    ASSUME RuntimeInv, NEW t \in Turns,
           \/ ReadKillSwitch(t) \/ RecordAuditStart(t) \/ EvaluateGate(t) \/ InvokeLlm(t)
           \/ \E result \in OfferedLlmResults : LlmSettles(t, result)
           \/ PutOutput(t) \/ InvokeDelivery(t)
           \/ \E result \in DeliveryOutcomes \cup {"error"} : DeliverySettles(t, result)
           \/ RecordOutboxOutcome(t) \/ RecordOutboxUnknown(t)
           \/ LoadForBarrier(t) \/ WriteBarrier(t) \/ RecordAuditCompletion(t) \/ PhaseFails(t)
    PROVE  JobsStay /\ (UNCHANGED snapshots \/ WriteBarrier(t))
<1> USE DEF At, WillWrite, PastCheckpoint, BarrierStages
<1>1. JobTyped(jobs[t]) /\ DOMAIN jobs = Turns
  BY DEF RuntimeInv, Typed
<1>2. UNCHANGED snapshots \/ WriteBarrier(t)
  BY DEF ReadKillSwitch, RecordAuditStart, EvaluateGate, InvokeLlm, LlmSettles, PutOutput, InvokeDelivery,
     DeliverySettles, RecordOutboxOutcome, RecordOutboxUnknown, LoadForBarrier, RecordAuditCompletion, PhaseFails,
     AuditCall, OutboxCall, conversationVars, storeVars
<1>6. \A stage : [jobs[t] EXCEPT !.stage = stage].stage = stage
  BY <1>1 DEF JobTyped
<1>7. \A kind, stage : AfterRecord(jobs[t], kind, stage).stage \in {stage, "error"}
  BY <1>1 DEF AfterRecord, JobTyped
<1>8. /\ LlmUnknown(jobs[t]).stage = "llm-unknown" /\ DeliveryUnknown(jobs[t]).stage = "delivery-unknown"
      /\ CheckpointFailed(jobs[t]).stage = "checkpoint-failed"
      /\ \A result : LlmRoute(jobs[t], result).stage \in {"llm-complete", "failed-move", "llm-unknown"}
      /\ \A result : [jobs[t] EXCEPT !.stage = "outbox-outcome", !.delivery = result].stage = "outbox-outcome"
      /\ \A c : AfterBarrierLoad(jobs[t], c).stage = "barrier-write"
  BY <1>1 DEF LlmUnknown, DeliveryUnknown, CheckpointFailed, LlmRoute, AfterBarrierLoad, JobTyped
<1>9. \A kind, stage : AfterBarrierWrite(jobs[t], kind, stage).stage \in {stage, "barrier-load", "error"}
  BY <1>1 DEF AfterBarrierWrite, JobTyped
<1>10. \E job : StepsOn(t, job)
  <2>1. CASE ReadKillSwitch(t) \/ PutOutput(t) \/ RecordAuditStart(t)
    BY <1>6, <1>7, <2>1 DEF ReadKillSwitch, PutOutput, RecordAuditStart, Goto, StepsOn
  <2>2. CASE EvaluateGate(t)
    BY <1>6, <2>2 DEF EvaluateGate, Goto, StepsOn
  <2>3. CASE InvokeLlm(t) \/ InvokeDelivery(t)
    <3>1. \E stage \in {"llm-wait", "delivery-wait"} :
            \/ Only(t, [jobs[t] EXCEPT !.stage = stage])
            \/ Only(t, LlmUnknown(jobs[t])) \/ Only(t, DeliveryUnknown(jobs[t]))
      BY <2>3 DEF InvokeLlm, InvokeDelivery, Goto
    <3>2. WillWrite(t)
      BY <2>3 DEF InvokeLlm, InvokeDelivery
    <3> QED
      BY <1>6, <1>8, <3>1, <3>2 DEF StepsOn
  <2>4. ASSUME NEW result, LlmSettles(t, result) \/ DeliverySettles(t, result)
        PROVE  \E job : StepsOn(t, job)
    BY <1>8, <2>4 DEF LlmSettles, DeliverySettles, StepsOn
  <2>5. CASE RecordOutboxOutcome(t) \/ RecordOutboxUnknown(t) \/ RecordAuditCompletion(t)
    BY <1>7, <2>5 DEF RecordOutboxOutcome, RecordOutboxUnknown, RecordAuditCompletion, StepsOn
  <2>6. CASE LoadForBarrier(t)
    BY <1>8, <2>6 DEF LoadForBarrier, StepsOn
  <2>7. CASE WriteBarrier(t)
    <3>1. PICK kind : Only(t, AfterBarrierWrite(jobs[t], kind,
                          IF jobs[t].checkpoint = "failed" THEN "audit-completion" ELSE "complete"))
      BY <2>7 DEF WriteBarrier
    <3> QED
      BY <1>9, <3>1 DEF StepsOn
  <2>8. CASE PhaseFails(t)
    <3> DEFINE stopped == [jobs[t] EXCEPT !.stage = "error"]
    <3>1. Only(t, CheckpointFailed(jobs[t])) \/ Only(t, stopped)
      BY <2>8 DEF PhaseFails
    <3>2. stopped.stage = "error"
      BY <1>6
    <3> HIDE DEF stopped
    <3> QED
      BY <1>8, <3>1, <3>2 DEF StepsOn
  <2> QED
    BY <2>1, <2>2, <2>3, <2>4, <2>5, <2>6, <2>7, <2>8
<1> QED
  BY <1>1, <1>2, <1>10, JobStepsOn

\* The checkpoint: loaded as it is, and written by the turn that runs.
LEMMA LoadOrders ==
    ASSUME RuntimeInv, DispatchStory, WorkStory, PlacesStay, UNCHANGED <<submissions, queues, activeTurn>>,
           NEW t \in Turns, LoadForCheckpoint(t)
    PROVE  WorkStory'
<1> DEFINE job == [jobs[t] EXCEPT !.stage = "checkpoint-write", !.loaded = snapshots[Home(t)]]
<1>1. jobs' = [jobs EXCEPT ![t] = job] /\ snapshots' = snapshots /\ WillWrite(t)
  BY DEF LoadForCheckpoint, Only, At, WillWrite, PastCheckpoint, BarrierStages, storeVars, conversationVars
<1>2. job.stage = "checkpoint-write" /\ job.loaded = snapshots[Home(t)]
  BY DEF RuntimeInv, Typed, JobTyped
<1> HIDE DEF job
<1>3. \A u \in Turns : jobs'[u] = IF u = t THEN job ELSE jobs[u]
  BY <1>1 DEF RuntimeInv, Typed
<1>4. \A u \in Turns : WillWrite(u)' => WillWrite(u)
  BY <1>1, <1>3 DEF WillWrite
<1>5. ContextsStay
  BY <1>1 DEF ContextsStay, ContextStays
<1>6. \A c \in Conversations : ContextStory(c)'
  BY <1>4, <1>5, SamePlaces, ContextKept DEF DispatchStory, WorkStory, ContextsStay
<1>7. \A u \in Turns : Home(u)' = Home(u)
  BY DEF PlacesStay, Home
<1>8. LoadStory'
  BY <1>1, <1>2, <1>3, <1>7 DEF WorkStory, LoadStory
<1> QED
  BY <1>6, <1>8 DEF WorkStory

LEMMA CheckpointOrders ==
    ASSUME RuntimeInv, DispatchStory, WorkStory, PlacesStay, UNCHANGED <<submissions, queues, activeTurn>>,
           NEW t \in Turns, WriteCheckpoint(t)
    PROVE  WorkStory'
<1>0. PICK c \in Conversations : c = Home(t) /\ activeTurn[c] = t
  BY DEF DispatchStory, RunnerStory, Begun, WriteCheckpoint, At
<1> DEFINE next == NextCheckpoint(jobs[t].loaded, t)
           context == snapshots[c].context
           stored == CheckpointOutcome(c, <<"checkpoint", t>>, jobs[t].loaded.revision, next) = "stored"
<1>1. PICK job : /\ jobs' = [jobs EXCEPT ![t] = job]
                 /\ job.stage \in {"checkpoint-fact", "checkpoint-failed"}
  <2>1. [jobs[t] EXCEPT !.stage = "checkpoint-fact", !.checkpoint = "succeeded"].stage = "checkpoint-fact"
    BY DEF RuntimeInv, Typed, JobTyped
  <2>2. CheckpointFailed(jobs[t]).stage = "checkpoint-failed"
    BY DEF CheckpointFailed, RuntimeInv, Typed, JobTyped
  <2> QED
    BY <2>1, <2>2 DEF WriteCheckpoint, Only
<1>2. /\ snapshots' = IF stored THEN [snapshots EXCEPT ![c] = next] ELSE snapshots
      /\ jobs[t].stage = "checkpoint-write" /\ jobs[t].loaded.context = context
  BY <1>0 DEF WriteCheckpoint, Checkpoint, WriteSnapshot, conversationVars, At, WorkStory, LoadStory
<1>3. \A u \in Turns : jobs'[u] = IF u = t THEN job ELSE jobs[u]
  BY <1>1 DEF RuntimeInv, Typed
<1>4. JobsStay
  BY <1>1, <1>3 DEF JobsStay, WillWrite, PastCheckpoint
<1>5. PublishedStay /\ \A u \in Turns : turns'[u].sequence = turns[u].sequence /\ Home(u)' = Home(u)
  BY SamePlaces DEF PlacesStay, Home
<1>6. CASE ~stored
  <2>1. ContextsStay
    BY <1>2, <1>6 DEF ContextsStay, ContextStays
  <2> QED
    BY <1>4, <1>5, <2>1, WorkKept
<1>7. CASE stored
  <2>1. /\ ContextStory(c) /\ context \in Seq(Turns) /\ DOMAIN snapshots = Conversations
        /\ RunsFirst(t, queues[c]) /\ WritesNext(c, t) /\ Dispatched(t, c)
    <3>1. activeTurn[c] # None
      BY <1>0, ConstantsAssumption
    <3>2. WillWrite(t)
      BY <1>2 DEF WillWrite, PastCheckpoint, BarrierStages
    <3> QED
      BY <1>0, <3>1, <3>2 DEF WorkStory, ContextStory, SnapshotShaped, DispatchStory, GateStory, QueueStory
  <2> DEFINE longer == Append(context, t)
  <2>2. snapshots'[c].context = longer /\ SnapshotShaped(snapshots'[c])
    <3>1. longer \in Seq(Turns)
      BY <2>1
    <3>2. snapshots'[c] = next
      BY <1>2, <1>7, <2>1
    <3>3. next.context = longer
      BY <1>2 DEF NextCheckpoint
    <3> HIDE DEF longer
    <3>4. SnapshotShaped(next)
      BY <3>1, <3>3 DEF NextCheckpoint, SnapshotShaped
    <3> QED
      BY <3>2, <3>3, <3>4
  <2>3. \A i \in DOMAIN longer :
          \/ i \in DOMAIN context /\ longer[i] = context[i]
          \/ longer[i] = t /\ \A j \in DOMAIN longer : ~(i < j)
    BY <2>1
  <2> HIDE DEF longer
  <2>4. \A i \in DOMAIN longer :
          longer[i] \in Turns /\ turns'[longer[i]].conversation = c /\ submissions'[longer[i]].stage = "ended"
    <3>1. \A i \in DOMAIN context : context[i] \in Turns /\ Dispatched(context[i], c)
      BY <2>1 DEF ContextStory
    <3>2. \A i \in DOMAIN longer : longer[i] \in Turns /\ Dispatched(longer[i], c)
      BY <2>1, <2>3, <3>1
    <3> QED
      BY <3>2 DEF Dispatched, PlacesStay
  <2>5. \A i, j \in DOMAIN longer : i < j => turns'[longer[i]].sequence < turns'[longer[j]].sequence
    BY <1>5, <2>1, <2>3, <2>4 DEF ContextStory, WritesNext
  <2>6. queues[c] \in Seq(WaitingJobs(c))
    BY DEF DispatchStory, QueueStory
  <2>7. InOrder(c, queues[c])'
    <3>1. \A j \in DOMAIN queues[c] : turns'[queues[c][j].turn].sequence = queues[c][j].sequence
      BY <1>5, <2>1, <2>6, WaitingTurns DEF ContextStory, InOrder
    <3>2. \A i \in DOMAIN longer, j \in DOMAIN queues[c] : turns'[longer[i]].sequence < queues[c][j].sequence
      BY <1>5, <2>1, <2>3, <2>4 DEF ContextStory, InOrder, RunsFirst
    <3> QED
      BY <2>1, <2>2, <3>1, <3>2 DEF ContextStory, InOrder
  <2>8. RunsFirst(t, queues[c])' /\ ~WillWrite(t)'
    BY <1>1, <1>3, <1>5, <2>1 DEF RunsFirst, WillWrite, PastCheckpoint
  <2>9. ContextStory(c)'
    <3>1. activeTurn'[c] = t
      BY <1>0
    <3>2. (activeTurn[c] # None =>
             RunsFirst(activeTurn[c], queues[c]) /\ (WillWrite(activeTurn[c]) => WritesNext(c, activeTurn[c])))'
      BY <2>8, <3>1
    <3>3. (\A i \in DOMAIN snapshots[c].context : Dispatched(snapshots[c].context[i], c))'
      BY <2>2, <2>4 DEF Dispatched
    <3>4. (\A i, j \in DOMAIN snapshots[c].context : i < j =>
             turns[snapshots[c].context[i]].sequence < turns[snapshots[c].context[j]].sequence)'
      BY <2>2, <2>5
    <3> QED
      BY <2>2, <2>7, <3>2, <3>3, <3>4 DEF ContextStory
  <2>10. ASSUME NEW d \in Conversations, d # c
         PROVE  ContextStory(d)'
    <3>1. ContextStays(d)
      BY <1>2, <1>7, <2>1, <2>10 DEF ContextStays
    <3> QED
      BY <1>4, <1>5, <3>1, ContextKept DEF DispatchStory, WorkStory, JobsStay
  <2>11. ASSUME NEW u \in Turns, jobs'[u].stage = "checkpoint-write"
         PROVE  jobs'[u].loaded.context = snapshots'[Home(u)'].context
    <3>1. u # t /\ jobs'[u] = jobs[u]
      BY <1>1, <1>3, <2>11
    <3>2. Home(u) \in Conversations /\ activeTurn[Home(u)] = u
      BY <2>11, <3>1 DEF DispatchStory, RunnerStory, Begun
    <3>3. snapshots'[Home(u)] = snapshots[Home(u)]
      BY <1>0, <1>2, <1>7, <2>1, <3>1, <3>2
    <3> QED
      BY <1>5, <2>11, <3>1, <3>3 DEF WorkStory, LoadStory
  <2> QED
    BY <2>9, <2>10, <2>11 DEF WorkStory, LoadStory
<1> QED
  BY <1>6, <1>7

LEMMA JobOrders ==
    ASSUME RuntimeInv, DispatchStory, OrderStory, NEW t \in Turns, JobStep(t)
    PROVE  OrderStory'
<1>1. /\ TextTurnStep(t) \/ PhaseFails(t) \/ Deadline(t)
      /\ UNCHANGED <<submissions, admission, queues, activeTurn, draining>> /\ PlacesStay
  BY JobsKeepPlaces DEF JobStep, dispatcherVars, orchestratorVars
<1>2. PlaceStory' /\ LineStory'
  BY <1>1, LinesKept DEF OrderStory
<1> SUFFICES WorkStory'
  BY <1>2 DEF OrderStory
<1>3. ASSUME JobsStay, ContextsStay
      PROVE  WorkStory'
  BY <1>1, <1>3, SamePlaces, WorkKept DEF OrderStory
<1>4. CASE LoadForCheckpoint(t) \/ WriteCheckpoint(t)
  BY <1>1, <1>4, LoadOrders, CheckpointOrders DEF OrderStory
<1>5. CASE Deadline(t)
  <2>1. jobs' = [jobs EXCEPT ![t] = [jobs[t] EXCEPT !.aborted = TRUE]] /\ snapshots' = snapshots
    BY <1>5 DEF Deadline, Only, storeVars, conversationVars
  <2>2. \A u \in Turns : jobs'[u].stage = jobs[u].stage /\ jobs'[u].loaded = jobs[u].loaded
    BY <2>1 DEF RuntimeInv, Typed, JobTyped
  <2>3. JobsStay /\ ContextsStay
    BY <2>1, <2>2 DEF JobsStay, WillWrite, ContextsStay, ContextStays
  <2> QED
    BY <1>3, <2>3
<1>6. CASE (TextTurnStep(t) \/ PhaseFails(t)) /\ ~LoadForCheckpoint(t) /\ ~WriteCheckpoint(t)
  <2>1. JobsStay /\ (UNCHANGED snapshots \/ WriteBarrier(t))
    BY <1>6, LedgerStepsOn, LocalStepsOn DEF TextTurnStep
  <2>2. ContextsStay
    <3>1. CASE UNCHANGED snapshots
      BY <3>1 DEF ContextsStay, ContextStays
    <3>2. CASE WriteBarrier(t)
      <4>1. PICK c, key, revision : RecordCheckpointBarrier(c, key, revision)
        BY <3>2 DEF WriteBarrier
      <4> QED
        BY <4>1, BarrierKeepsContexts DEF DispatchStory, GateStory, OrderStory, WorkStory, ContextStory
    <3> QED
      BY <2>1, <3>1, <3>2
  <2> QED
    BY <1>3, <2>1, <2>2
<1> QED
  BY <1>1, <1>4, <1>5, <1>6

\* A step of a submission leaves the work of the dispatcher as it is.
LEMMA SubmissionKeepsWork ==
    ASSUME RuntimeInv, DispatchStory, WorkStory, NEW t \in Turns, submissions[t].stage # "ended",
           UNCHANGED <<jobs, snapshots, queues, activeTurn>>,
           \A u \in Turns : u # t => submissions'[u] = submissions[u] /\ turns'[u] = turns[u]
    PROVE  WorkStory'
<1>1. PublishedStay
  BY DEF PublishedStay
<1>2. ContextsStay /\ JobsStay
  BY DEF ContextsStay, ContextStays, JobsStay, WillWrite
<1> QED
  BY <1>1, <1>2, WorkKept

LEMMA QuietlyOrders ==
    ASSUME RuntimeInv, DispatchStory, OrderStory, NEW t \in Turns, submissions[t].stage # "ended", LineMoves(t),
           UNCHANGED <<jobs, snapshots, queues, activeTurn, draining>>,
           \A u \in Turns : u # t => turns'[u] = turns[u]
    PROVE  WorkStory' /\ LineStory'
<1>1. \A u \in Turns : u # t => submissions'[u] = submissions[u]
  BY DEF LineMoves
<1> QED
  BY <1>1, SubmissionKeepsWork, LinesMove DEF OrderStory, DispatchStory

\* A turn without a place is nobody's predecessor.
LEMMA NoPlaceTaken ==
    ASSUME Typed, PlaceStory, NEW t \in Turns,
           \A u \in Turns : u # t => submissions'[u] = submissions[u] /\ turns'[u] = turns[u],
           turns'[t].sequence = 0, submissions'[t].stage \notin {"queue", "publish"},
           UNCHANGED <<sequenceCounters, draining>>
    PROVE  PlaceStory'
<1>1. \A c \in Conversations : sequenceCounters[c] \in Nat /\ sequenceCounters[c] > 0
  BY ConstantsAssumption DEF Typed
<1>2. \A u \in Turns : u # t /\ Latest(u) => Latest(u)'
  BY DEF Latest
<1> QED
  BY <1>1, <1>2 DEF PlaceStory

LEMMA ObserveOrders ==
    ASSUME RuntimeInv, DispatchStory, OrderStory, NEW t \in Turns, NEW key \in TransportKeys, Observe(t, key)
    PROVE  OrderStory'
<1>1. /\ Typed /\ turns[t] \in Rows /\ DOMAIN turns = Turns /\ DOMAIN submissions = Turns
      /\ submissions[t].stage = "none" /\ UNCHANGED <<admission, sequenceCounters>>
      /\ UNCHANGED <<jobs, snapshots, queues, activeTurn, draining>>
  BY QuietlySubmitted DEF RuntimeInv, Typed, Observe, ObserveTransportEvent, SubmissionAt
<1>2. \A u \in Turns : u # t => turns'[u] = turns[u] /\ submissions'[u] = submissions[u]
  BY <1>1 DEF Observe, ObserveTransportEvent, SubmissionTo
<1>3. submissions'[t].stage = IF ObserveOutcome(t, key) = "fresh-observed" THEN "binding" ELSE "ended"
  BY <1>1 DEF Observe, SubmissionTo, NoSubmission
<1>4. LineMoves(t)
  BY <1>1, <1>2, <1>3 DEF LineMoves
<1>5. PlaceStory'
  <2>1. CASE ObserveOutcome(t, key) = "fresh-observed"
    <3>1. turns'[t] = ObservedRow(key)
      BY <1>1, <2>1 DEF Observe, ObserveTransportEvent
    <3>2. turns'[t].sequence = 0
      BY <3>1 DEF ObservedRow, AbsentRow
    <3> QED
      BY <1>1, <1>2, <1>3, <3>2, NoPlaceTaken DEF OrderStory
  <2>2. CASE ObserveOutcome(t, key) # "fresh-observed"
    <3>1. turns' = turns /\ submissions'[t].stage = "ended"
      BY <1>3, <2>2 DEF Observe, ObserveTransportEvent
    <3>2. PlacesStay
      BY <1>1, <3>1 DEF PlacesStay
    <3> QED
      BY <1>1, <1>2, <3>1, <3>2, PlacesKept DEF OrderStory, PlaceStory
  <2> QED
    BY <2>1, <2>2
<1> QED
  BY <1>1, <1>2, <1>4, <1>5, QuietlyOrders DEF OrderStory

LEMMA BindOrders ==
    ASSUME RuntimeInv, DispatchStory, OrderStory, NEW t \in Turns,
           BindingFails(t) \/ \E c \in Conversations : Bind(t, c)
    PROVE  OrderStory'
<1>1. /\ submissions \in [Turns -> SubmissionRecords] /\ submissions[t] \in SubmissionRecords
      /\ submissions[t].stage = "binding" /\ UNCHANGED <<turns, sequenceCounters>>
      /\ UNCHANGED <<jobs, snapshots, queues, activeTurn, draining>>
  BY QuietlySubmitted DEF RuntimeInv, Typed, Bind, BindingFails, SubmissionAt, ledgerVars
<1>2. \A u \in Turns : u # t => submissions'[u] = submissions[u]
  BY <1>1 DEF Bind, BindingFails, SubmissionTo
<1>3. LineMoves(t) /\ submissions'[t].stage \in {"authenticate", "ended"}
  <2>1. CASE BindingFails(t)
    <3>1. submissions'[t].stage = "ended" /\ UNCHANGED admission
      BY <1>1, <2>1 DEF BindingFails, SubmissionTo, NoSubmission
    <3> QED
      BY <1>2, <3>1 DEF LineMoves
  <2>2. ASSUME NEW c \in Conversations, Bind(t, c)
        PROVE  LineMoves(t) /\ submissions'[t].stage = "authenticate"
    <3>1. /\ submissions'[t].stage = "authenticate" /\ submissions'[t].conversation = c
          /\ admission' = [admission EXCEPT ![c] = Append(@, t)]
      BY <1>1, <2>2 DEF Bind, SubmissionTo, SubmissionRecords
    <3> QED
      BY <1>1, <1>2, <3>1 DEF LineMoves
  <2> QED
    BY <2>1, <2>2
<1>4. PlacesStay
  BY <1>1 DEF PlacesStay
<1>5. PlaceStory'
  BY <1>1, <1>2, <1>3, <1>4, PlacesKept DEF OrderStory, PlaceStory
<1> QED
  BY <1>1, <1>3, <1>5, QuietlyOrders DEF OrderStory

\* What an admitted submission does to its line.
LEMMA AdmittedMoves ==
    ASSUME RuntimeInv, NEW t \in Turns, submissions[t].stage \in InLineStages, HeadOfLine(t),
           NEW proven \in BOOLEAN, NEW advance, NEW stage \in InLineStages, Admit(t, proven, advance, stage)
    PROVE  LineMoves(t) /\ (submissions'[t].stage = "ended" \/ (proven /\ submissions'[t].stage = stage))
<1>1. /\ \A u \in Turns : u # t => submissions'[u] = submissions[u]
      /\ \/ submissions'[t].stage = "ended"
         \/ proven /\ submissions'[t].stage = stage /\ submissions'[t].conversation = submissions[t].conversation
  BY AdmittedGoesOn
<1>2. CASE proven
  <2>1. UNCHANGED admission
    BY <1>2 DEF Admit
  <2> QED
    BY <1>1, <2>1 DEF LineMoves
<1>3. CASE ~proven
  <2>1. admission' = [admission EXCEPT ![submissions[t].conversation] = Tail(@)] /\ LeaveAdmission(t)
    BY <1>3 DEF Admit, LeaveAdmission
  <2>2. submissions'[t].stage = "ended"
    BY <2>1, LeavingEnds
  <2> QED
    BY <1>1, <2>1, <2>2 DEF LineMoves
<1> QED
  BY <1>1, <1>2, <1>3

LEMMA LeavingMoves ==
    ASSUME RuntimeInv, NEW t \in Turns, submissions[t].stage \in InLineStages, HeadOfLine(t), LeaveAdmission(t)
    PROVE  LineMoves(t) /\ submissions'[t].stage = "ended"
<1>1. admission' = [admission EXCEPT ![submissions[t].conversation] = Tail(@)]
  BY DEF LeaveAdmission
<1> QED
  BY <1>1, LeavingEnds DEF LineMoves

LEMMA AuthenticateOrders ==
    ASSUME RuntimeInv, DispatchStory, OrderStory, NEW t \in Turns, Authenticate(t)
    PROVE  OrderStory'
<1> DEFINE kind == RecordAuthenticationOutcome(t, submissions[t].revision, "authenticated")
           proven == kind \in {"recorded", "already-recorded"}
           home == submissions[t].conversation
           row == AuthenticatedRow(turns[t], "authenticated", home)
<1>1. /\ Typed /\ turns[t] \in Rows /\ DOMAIN turns = Turns /\ submissions[t].stage = "authenticate" /\ HeadOfLine(t)
      /\ UNCHANGED sequenceCounters
      /\ UNCHANGED <<jobs, snapshots, queues, activeTurn, draining>>
  BY QuietlySubmitted DEF RuntimeInv, Typed, Authenticate, SubmissionAt, RecordAuthenticationResult, ledgerVars
<1>2. turns[t].sequence = 0
  BY <1>1 DEF OrderStory, PlaceStory
<1>3. turns' = turns \/ turns' = [turns EXCEPT ![t] = row]
  BY DEF Authenticate, RecordAuthenticationResult, ledgerVars
<1>4. row.sequence = turns[t].sequence
  BY <1>1 DEF AuthenticatedRow, MovedTo, Rows
<1>5. LineMoves(t) /\ submissions'[t].stage \in {"ended", "accept"}
  <2>1. CASE IngressOpen
    <3>1. Admit(t, proven, IF kind = "recorded" THEN 1 ELSE 0, "accept") /\ proven \in BOOLEAN
      BY <2>1 DEF Authenticate
    <3> HIDE DEF kind, proven
    <3> QED
      BY <1>1, <3>1, AdmittedMoves DEF InLineStages
  <2>2. CASE ~IngressOpen
    <3>1. LeaveAdmission(t)
      BY <2>2 DEF Authenticate
    <3> QED
      BY <1>1, <3>1, LeavingMoves DEF InLineStages
  <2> QED
    BY <2>1, <2>2
<1> HIDE DEF row
<1>6. turns'[t].sequence = 0 /\ \A u \in Turns : u # t => turns'[u] = turns[u]
  BY <1>1, <1>2, <1>3, <1>4
<1>7. PlaceStory'
  <2>1. \A u \in Turns : u # t => submissions'[u] = submissions[u]
    BY <1>5 DEF LineMoves
  <2> QED
    BY <1>1, <1>5, <1>6, <2>1, NoPlaceTaken DEF OrderStory
<1> QED
  BY <1>1, <1>5, <1>6, <1>7, QuietlyOrders DEF OrderStory

\* A submission leaves its line and takes nothing with it ...
LEMMA LeavingOrders ==
    ASSUME RuntimeInv, DispatchStory, OrderStory, NEW t \in Turns, submissions[t].stage \in InLineStages, HeadOfLine(t),
           LeaveAdmission(t), UNCHANGED <<turns, sequenceCounters, jobs, snapshots, queues, activeTurn, draining>>
    PROVE  OrderStory'
<1>1. LineMoves(t) /\ submissions'[t].stage = "ended" /\ submissions[t].stage # "ended"
  BY LeavingMoves DEF InLineStages
<1>2. PlacesStay
  BY DEF PlacesStay
<1>3. PlaceStory'
  BY <1>1, <1>2, PlacesKept DEF LineMoves, OrderStory, PlaceStory
<1> QED
  BY <1>1, <1>3, QuietlyOrders DEF OrderStory

\* ... or the runtime with it.
LEMMA FailingOrders ==
    ASSUME RuntimeInv, DispatchStory, OrderStory, NEW t \in Turns, submissions[t].stage \in InLineStages, HeadOfLine(t),
           LeaveAdmission(t), UNCHANGED <<turns, sequenceCounters, snapshots>>, FailRuntime(jobs)
    PROVE  OrderStory'
<1>1. LineMoves(t) /\ submissions'[t].stage = "ended" /\ submissions[t].stage # "ended"
  BY LeavingMoves DEF InLineStages
<1>2. /\ draining' = TRUE /\ queues' = [c \in Conversations |-> <<>>] /\ activeTurn' = activeTurn /\ StopWork(jobs)
  BY DEF FailRuntime, BeginDispatcherDrain, DropQueues
<1>3. PlacesStay /\ ContextsStay
  BY DEF PlacesStay, ContextsStay, ContextStays
<1>4. JobsStay
  BY <1>2, StopKeepsJobs
<1>5. PublishedStay
  BY <1>1 DEF LineMoves, PublishedStay
<1>6. WorkStory'
  BY <1>2, <1>3, <1>4, <1>5, WorkKept DEF OrderStory
<1>7. PlaceStory'
  BY <1>1, <1>2, <1>3, PlacesKept DEF LineMoves, OrderStory, PlaceStory
<1>8. LineStory'
  BY <1>1, LinesMove DEF OrderStory, DispatchStory
<1> QED
  BY <1>6, <1>7, <1>8 DEF OrderStory

\* The one at the head of its line takes the next number: it is the latest, and no
\* other of the conversation is on its way.
LEMMA PlaceTaken ==
    ASSUME Typed, PlaceStory, LineStory, BoundStory, NEW t \in Turns, NEW c \in Conversations,
           submissions[t].stage = "accept", turns[t].conversation = c, ~draining => submissions[t].conversation = c,
           \A u \in Turns : u # t => submissions'[u] = submissions[u] /\ turns'[u] = turns[u],
           turns'[t].conversation = c, turns'[t].sequence = sequenceCounters[c],
           sequenceCounters' = [sequenceCounters EXCEPT ![c] = @ + 1],
           submissions'[t].stage \in {"queue", "ended"}, UNCHANGED draining
    PROVE  PlaceStory'
<1>1. \A d \in Conversations : sequenceCounters[d] \in Nat /\ sequenceCounters[d] > 0
  BY ConstantsAssumption DEF Typed
<1>2. \A d \in Conversations : sequenceCounters'[d] = IF d = c THEN sequenceCounters[d] + 1 ELSE sequenceCounters[d]
  BY DEF Typed
<1>3. \A u \in Turns : turns[u].sequence \in Nat
  <2>1. \A u \in Turns : turns[u] \in Rows
    BY DEF Typed
  <2> QED
    BY <2>1, ConstantsAssumption DEF Rows
<1>4. \A u \in Turns : turns'[u].conversation \in Conversations =>
        turns'[u].sequence < sequenceCounters'[turns'[u].conversation]
  <2> TAKE u \in Turns
  <2>1. CASE u = t
    BY <1>1, <1>2, <2>1
  <2>2. CASE u # t
    BY <1>1, <1>2, <1>3, <2>2 DEF PlaceStory
  <2> QED
    BY <2>1, <2>2
<1>5. Latest(t)'
  <2>1. turns'[t].sequence > 0
    BY <1>1
  <2>2. \A u \in Turns : u # t /\ turns'[u].conversation = c => turns'[u].sequence < turns'[t].sequence
    BY DEF PlaceStory
  <2> QED
    BY <2>1, <2>2 DEF Latest
<1>6. ASSUME NEW u \in Turns, u # t, ~draining, submissions[u].stage \in {"queue", "publish"}
      PROVE  Latest(u)'
  <2>1. Latest(u) /\ turns'[u] = turns[u]
    BY <1>6 DEF PlaceStory
  <2>2. turns[u].conversation # c
    <3> SUFFICES ASSUME turns[u].conversation = c
                 PROVE  FALSE
      OBVIOUS
    <3>1. submissions[u].conversation = c
      BY <1>6 DEF BoundStory
    <3>2. HeadOfLine(u) /\ HeadOfLine(t)
      BY <1>6 DEF LineStory, InLineStages
    <3> QED
      BY <1>6, <3>1, <3>2 DEF HeadOfLine
  <2> QED
    BY <1>6, <2>1, <2>2 DEF Latest
<1>7. \A u \in Turns : submissions'[u].stage \in {"binding", "authenticate", "accept"} => turns'[u].sequence = 0
  BY DEF PlaceStory
<1> QED
  BY <1>4, <1>5, <1>6, <1>7 DEF PlaceStory

LEMMA AcceptOrders ==
    ASSUME RuntimeInv, DispatchStory, OrderStory, NEW t \in Turns, Accept(t)
    PROVE  OrderStory'
<1> DEFINE kind == AcceptOutcome(t, submissions[t].revision)
           proven == kind \in {"accepted", "already-accepted"}
           advance == IF kind = "accepted" THEN 1 ELSE 0
           c == turns[t].conversation
           row == AcceptedRow(turns[t], sequenceCounters[c])
<1>1. /\ Typed /\ turns[t] \in Rows /\ DOMAIN turns = Turns /\ submissions[t].stage = "accept" /\ HeadOfLine(t)
      /\ UNCHANGED <<jobs, snapshots, queues, activeTurn, draining>>
      /\ Admit(t, proven, advance, "queue") /\ proven \in BOOLEAN
  BY QuietlySubmitted DEF RuntimeInv, Typed, Accept, SubmissionAt
<1>2. turns[t].sequence = 0
  BY <1>1 DEF OrderStory, PlaceStory
<1>3. proven => kind = "accepted"
  BY <1>2 DEF AcceptOutcome
<1>4. IF kind = "accepted"
      THEN turns' = [turns EXCEPT ![t] = row] /\ sequenceCounters' = [sequenceCounters EXCEPT ![c] = @ + 1]
      ELSE UNCHANGED <<turns, sequenceCounters>>
  BY DEF Accept, AcceptConversationTurn, NextSequence
<1>5. kind = "accepted" => c # None
  BY DEF AcceptOutcome
<1>6. row.sequence = sequenceCounters[c] /\ row.conversation = c
  BY <1>1 DEF AcceptedRow, MovedTo, Rows
<1>7. c # None => c \in Conversations
  BY <1>1 DEF Rows
<1> HIDE DEF kind, row, advance
<1>8. LineMoves(t) /\ (submissions'[t].stage = "ended" \/ (proven /\ submissions'[t].stage = "queue"))
  <2> HIDE DEF proven
  <2> QED
    BY <1>1, AdmittedMoves DEF InLineStages
<1>9. \A u \in Turns : u # t => submissions'[u] = submissions[u] /\ turns'[u] = turns[u]
  BY <1>1, <1>4, <1>8 DEF LineMoves
<1>10. CASE kind = "accepted"
  <2>1. ~draining => submissions[t].conversation = c
    BY <1>1 DEF DispatchStory, BoundStory
  <2>2. turns'[t] = row
    BY <1>1, <1>4, <1>10
  <2>3. turns'[t].conversation = c /\ turns'[t].sequence = sequenceCounters[c]
    BY <1>6, <2>2
  <2>4. PlaceStory'
    BY <1>1, <1>4, <1>5, <1>7, <1>8, <1>9, <1>10, <2>1, <2>3, PlaceTaken DEF OrderStory, DispatchStory
  <2> QED
    BY <1>1, <1>8, <1>9, <2>4, QuietlyOrders DEF OrderStory
<1>11. CASE kind # "accepted"
  <2>1. UNCHANGED <<turns, sequenceCounters>> /\ LeaveAdmission(t)
    BY <1>1, <1>3, <1>4, <1>11 DEF Admit
  <2> QED
    BY <1>1, <2>1, LeavingOrders DEF InLineStages
<1> QED
  BY <1>10, <1>11

LEMMA QueueOrders ==
    ASSUME RuntimeInv, DispatchStory, OrderStory, NEW t \in Turns, Queue(t)
    PROVE  OrderStory'
<1> DEFINE kind == TransitionOutcome(t, submissions[t].revision, "accepted", "queued")
           proven == kind \in {"transitioned", "already-transitioned"}
           advance == IF kind = "transitioned" THEN 1 ELSE 0
<1>1. /\ Typed /\ DOMAIN turns = Turns /\ submissions[t].stage = "queue" /\ HeadOfLine(t)
      /\ UNCHANGED snapshots /\ Admit(t, proven, advance, "publish") /\ proven \in BOOLEAN
  BY DEF RuntimeInv, Typed, Queue, SubmissionAt, SubmissionOnly, conversationVars
<1>2. PlacesStay
  BY <1>1, MovesKeepPlaces DEF Queue
<1>3. CASE proven
  <2>1. UNCHANGED <<jobs, queues, activeTurn, draining>>
    BY <1>3 DEF Queue, dispatcherVars
  <2> HIDE DEF proven, advance
  <2>2. LineMoves(t) /\ submissions'[t].stage \in {"ended", "publish"}
    BY <1>1, AdmittedMoves DEF InLineStages
  <2>3. PlaceStory'
    BY <1>1, <1>2, <2>1, <2>2, PlacesKept DEF LineMoves, OrderStory, PlaceStory
  <2>4. \A u \in Turns : u # t => turns'[u] = turns[u]
    BY <1>1 DEF Queue, Transition
  <2> QED
    BY <1>1, <2>1, <2>2, <2>3, <2>4, QuietlyOrders DEF OrderStory
<1>4. CASE ~proven
  <2>1. FailRuntime(jobs) /\ UNCHANGED <<turns, sequenceCounters>> /\ LeaveAdmission(t)
    BY <1>1, <1>4 DEF Queue, Transition, Admit
  <2> QED
    BY <1>1, <2>1, FailingOrders DEF InLineStages
<1> QED
  BY <1>3, <1>4

LEMMA SubmissionFailsOrders ==
    ASSUME RuntimeInv, DispatchStory, OrderStory, NEW t \in Turns, SubmissionFails(t)
    PROVE  OrderStory'
<1>1. /\ submissions[t].stage \in InLineStages /\ HeadOfLine(t) /\ LeaveAdmission(t)
      /\ UNCHANGED <<turns, sequenceCounters, snapshots>>
      /\ FailRuntime(jobs) \/ UNCHANGED <<jobs, queues, activeTurn, draining>>
  BY DEF SubmissionFails, InLineStages, SubmissionOnly, conversationVars, ledgerVars, dispatcherVars
<1> QED
  BY <1>1, LeavingOrders, FailingOrders

\* The dispatcher takes the first of a queue in order: it is next, and the rest in order.
LEMMA NextInOrder ==
    ASSUME NEW c, NEW S, NEW queue \in Seq(S), queue # <<>>, InOrder(c, queue)
    PROVE  /\ InOrder(c, Tail(queue)) /\ RunsFirst(Head(queue).turn, Tail(queue))
           /\ WritesNext(c, Head(queue).turn)
<1> DEFINE rest == Tail(queue)
<1>1. /\ \A j \in DOMAIN rest : j \in Nat /\ j + 1 \in DOMAIN queue /\ rest[j] = queue[j + 1]
      /\ Head(queue) = queue[1] /\ 1 \in DOMAIN queue
  OBVIOUS
<1> HIDE DEF rest
<1>2. InOrder(c, rest)
  <2>1. \A j \in DOMAIN rest : rest[j].sequence = turns[rest[j].turn].sequence
    BY <1>1 DEF InOrder
  <2>2. \A i, j \in DOMAIN rest : i < j => rest[i].sequence < rest[j].sequence
    <3> SUFFICES ASSUME NEW i \in DOMAIN rest, NEW j \in DOMAIN rest, i < j
                 PROVE  rest[i].sequence < rest[j].sequence
      OBVIOUS
    <3>1. i + 1 < j + 1 /\ i + 1 \in DOMAIN queue /\ j + 1 \in DOMAIN queue
      BY <1>1
    <3> QED
      BY <1>1, <3>1 DEF InOrder
  <2>3. \A i \in DOMAIN snapshots[c].context, j \in DOMAIN rest :
          turns[snapshots[c].context[i]].sequence < rest[j].sequence
    BY <1>1 DEF InOrder
  <2> QED
    BY <2>1, <2>2, <2>3 DEF InOrder
<1>3. turns[Head(queue).turn].sequence = Head(queue).sequence
  BY <1>1 DEF InOrder
<1>4. RunsFirst(Head(queue).turn, rest)
  <2>1. \A j \in DOMAIN rest : Head(queue).sequence < rest[j].sequence
    <3> TAKE j \in DOMAIN rest
    <3>1. j \in 1 .. Len(queue) - 1
      BY DEF rest
    <3>2. 1 < j + 1 /\ j + 1 \in DOMAIN queue
      BY <1>1, <3>1
    <3> QED
      BY <1>1, <3>2 DEF InOrder
  <2> QED
    BY <1>3, <2>1 DEF RunsFirst
<1>5. WritesNext(c, Head(queue).turn)
  BY <1>1, <1>3 DEF InOrder, WritesNext
<1> QED
  BY <1>2, <1>4, <1>5 DEF rest

\* The latest turn goes to the end.
LEMMA LastInOrder ==
    ASSUME Typed, NEW c \in Conversations, ContextStory(c), NEW queue \in Seq(WaitingJobs(c)), InOrder(c, queue),
           NEW t \in Turns, Latest(t), turns[t].conversation = c, submissions[t].stage # "ended"
    PROVE  LET entry == DispatcherJob(t, turns[t].sequence) IN
           /\ InsertSorted(queue, entry) = Append(queue, entry) /\ InOrder(c, Append(queue, entry))
<1> DEFINE entry == DispatcherJob(t, turns[t].sequence)
           longer == Append(queue, entry)
<1>1. entry.turn = t /\ entry.sequence = turns[t].sequence
  BY DEF DispatcherJob
<1>2. \A u \in Turns : Dispatched(u, c) => turns[u].sequence < entry.sequence
  BY <1>1 DEF Latest, Dispatched
<1> HIDE DEF entry
<1>3. \A i \in DOMAIN queue : /\ queue[i].sequence = turns[queue[i].turn].sequence /\ queue[i].turn \in Turns
                              /\ queue[i].sequence \in Nat /\ Dispatched(queue[i].turn, c)
  BY WaitingTurns DEF InOrder, Dispatched
<1>4. \A i \in DOMAIN queue : queue[i].sequence < entry.sequence /\ queue[i].sequence \in Nat
  BY <1>2, <1>3
<1>5. InsertSorted(queue, entry) = longer
  <2> DEFINE greater == {i \in DOMAIN queue : queue[i].sequence > entry.sequence}
  <2>1. greater = {}
    <3>1. ASSUME NEW i \in DOMAIN queue
          PROVE  ~(queue[i].sequence > entry.sequence)
      <4>1. queue[i].sequence < entry.sequence /\ queue[i].sequence \in Nat
        BY <1>4
      <4>2. ASSUME queue[i].sequence > entry.sequence
            PROVE  FALSE
        <5>1. entry.sequence = turns[t].sequence /\ turns[t] \in Rows
          BY <1>1 DEF Typed
        <5>2. entry.sequence \in Nat
          BY <5>1, ConstantsAssumption DEF Rows
        <5> QED
          BY <4>1, <4>2, <5>2
      <4> QED
        BY <4>2
    <3> QED
      BY <3>1
  <2>2. InsertSorted(queue, entry) = InsertAt(queue, Len(queue) + 1, entry)
    BY <2>1 DEF InsertSorted
  <2> HIDE DEF greater
  <2>3. /\ SubSeq(queue, 1, (Len(queue) + 1) - 1) = queue
        /\ SubSeq(queue, Len(queue) + 1, Len(queue)) = <<>>
    OBVIOUS
  <2>4. InsertAt(queue, Len(queue) + 1, entry) = queue \o <<entry>> \o <<>>
    BY <2>3 DEF InsertAt
  <2>5. queue \o <<entry>> \o <<>> = longer
    OBVIOUS
  <2> QED
    BY <2>2, <2>4, <2>5
<1>6. \A j \in DOMAIN longer :
        \/ j \in DOMAIN queue /\ longer[j] = queue[j]
        \/ longer[j] = entry /\ \A k \in DOMAIN longer : ~(j < k)
  OBVIOUS
<1> HIDE DEF longer
<1>7. \A j \in DOMAIN longer : longer[j].sequence = turns[longer[j].turn].sequence
  BY <1>1, <1>3, <1>6
<1>8. \A i, j \in DOMAIN longer : i < j => longer[i].sequence < longer[j].sequence
  BY <1>4, <1>6 DEF InOrder
<1>9. \A i \in DOMAIN snapshots[c].context, j \in DOMAIN longer :
        turns[snapshots[c].context[i]].sequence < longer[j].sequence
  <2>1. \A i \in DOMAIN snapshots[c].context : snapshots[c].context[i] \in Turns /\ Dispatched(snapshots[c].context[i], c)
    <3>1. snapshots[c].context \in Seq(Turns)
      BY DEF ContextStory, SnapshotShaped
    <3> QED
      BY <3>1 DEF ContextStory
  <2> QED
    BY <1>2, <1>6, <2>1 DEF InOrder
<1>10. InOrder(c, longer)
  BY <1>7, <1>8, <1>9 DEF InOrder
<1> QED
  BY <1>5, <1>10 DEF entry, longer

\* A conversation whose queue and runner are put anew.
LEMMA ContextMoves ==
    ASSUME NEW c \in Conversations, ContextStory(c), PublishedStay, UNCHANGED <<turns, snapshots>>,
           NEW queue, queues'[c] = queue, InOrder(c, queue), NEW u, activeTurn'[c] = u,
           u # None => RunsFirst(u, queue) /\ (jobs'[u].stage \notin PastCheckpoint => WritesNext(c, u))
    PROVE  ContextStory(c)'
<1>1. SnapshotShaped(snapshots'[c]) /\ snapshots'[c].context \in Seq(Turns)
  BY DEF ContextStory, SnapshotShaped
<1>2. (\A i \in DOMAIN snapshots[c].context : Dispatched(snapshots[c].context[i], c))'
  BY <1>1 DEF ContextStory, Dispatched, PublishedStay
<1>3. InOrder(c, queues[c])'
  BY DEF InOrder
<1>4. (activeTurn[c] # None =>
         RunsFirst(activeTurn[c], queues[c]) /\ (WillWrite(activeTurn[c]) => WritesNext(c, activeTurn[c])))'
  BY DEF RunsFirst, WritesNext, WillWrite
<1>5. (\A i, j \in DOMAIN snapshots[c].context : i < j =>
         turns[snapshots[c].context[i]].sequence < turns[snapshots[c].context[j]].sequence)'
  BY DEF ContextStory
<1> QED
  BY <1>1, <1>2, <1>3, <1>4, <1>5 DEF ContextStory

\* Jobs that begin have nothing loaded, and others go on as they are.
LEMMA BeginningJobs ==
    ASSUME NEW now, jobs' = Started(now), \A u \in Turns : JobTyped(now[u]),
           \A u \in Turns : now[u] = jobs[u] \/ now[u].stage \in {"idle", "queued"}
    PROVE  /\ \A u \in Turns : jobs'[u].stage = "checkpoint-write" => jobs'[u] = jobs[u]
           /\ \A u \in Turns : now[u] = jobs[u] \/ now[u].stage = "idle" =>
                (jobs'[u].stage \notin PastCheckpoint => WillWrite(u))
<1>1. ASSUME NEW u \in Turns
      PROVE  jobs'[u] = now[u] \/ (now[u].stage = "queued" /\ jobs'[u].stage \in {"kill-switch", "done"})
  <2>1. Starts(jobs'[u], now[u])
    BY StartedJobs
  <2>2. \A stage : [now[u] EXCEPT !.stage = stage].stage = stage
    BY DEF JobTyped
  <2> QED
    BY <2>1, <2>2 DEF Starts
<1> QED
  BY <1>1 DEF WillWrite, PastCheckpoint, BarrierStages

LEMMA SameLoads ==
    ASSUME RuntimeInv, DispatchStory, LoadStory, PublishedStay, UNCHANGED <<turns, snapshots>>,
           \A u \in Turns : jobs'[u].stage = "checkpoint-write" => jobs'[u] = jobs[u]
    PROVE  LoadStory'
BY DEF LoadStory, Home

LEMMA PublishOrders ==
    ASSUME RuntimeInv, DispatchStory, OrderStory, NEW t \in Turns, Publish(t)
    PROVE  OrderStory'
<1>0. PICK c \in Conversations : c = submissions[t].conversation
  BY DEF Publish, SubmissionAt, DispatchStory, BoundStory
<1> DEFINE entry == DispatcherJob(t, turns[t].sequence)
           starts == c \notin Active /\ Cardinality(Active) < MaxGlobalPending
           job == [NoJob EXCEPT !.stage = "queued", !.revision = submissions[t].revision, !.generation = generation]
           now == [jobs EXCEPT ![t] = job]
<1>1. /\ Typed /\ turns[t] \in Rows /\ submissions[t] \in SubmissionRecords /\ submissions[t].stage = "publish"
      /\ HeadOfLine(t) /\ UNCHANGED <<turns, sequenceCounters, generation, snapshots>> /\ LeaveAdmission(t)
      /\ Enqueue(c, entry)
  BY <1>0 DEF RuntimeInv, Typed, Publish, SubmissionAt, SubmissionOnly, ledgerVars, conversationVars
<1>2. CASE EnqueueOutcome(c) # "enqueued"
  <2>1. UNCHANGED <<jobs, queues, activeTurn, draining>>
    BY <1>0, <1>1, <1>2 DEF Publish, Enqueue, dispatcherVars
  <2> QED
    BY <1>1, <2>1, LeavingOrders DEF InLineStages
<1>3. CASE EnqueueOutcome(c) = "enqueued"
  <2>1. ~draining /\ Latest(t) /\ turns[t].conversation = c
    <3>1. ~draining
      BY <1>3 DEF EnqueueOutcome
    <3> QED
      BY <1>0, <1>1, <3>1 DEF DispatchStory, BoundStory, OrderStory, PlaceStory
  <2>2. LineMoves(t) /\ submissions'[t].stage = "ended"
    BY <1>1, LeavingMoves DEF InLineStages
  <2>3. PublishedStay /\ PlacesStay
    BY <1>1, <2>2 DEF LineMoves, PublishedStay, PlacesStay
  <2>4. ContextStory(c) /\ InOrder(c, queues[c]) /\ queues[c] \in Seq(WaitingJobs(c)) /\ SnapshotShaped(snapshots[c])
    BY DEF OrderStory, WorkStory, ContextStory, DispatchStory, QueueStory
  <2> DEFINE queue == Append(queues[c], entry)
  <2>5. InsertSorted(queues[c], entry) = queue /\ InOrder(c, queue)
    BY <1>1, <2>1, <2>4, LastInOrder
  <2>6. /\ queues' = [queues EXCEPT ![c] = IF starts THEN Tail(queue) ELSE queue]
        /\ activeTurn' = [activeTurn EXCEPT ![c] = IF starts THEN Head(queue).turn ELSE @]
        /\ draining' = draining /\ jobs' = Started(now)
    BY <1>0, <1>1, <1>3, <2>5 DEF Enqueue, Publish
  <2>7. activeTurn[c] = None \/ ~starts
    BY DEF Active
  <2>8. /\ entry.sequence = turns[t].sequence
        /\ \A j \in DOMAIN queue : \/ j \in DOMAIN queues[c] /\ queue[j] = queues[c][j]
                                   \/ queue[j] = entry
    BY <2>4 DEF DispatcherJob
  <2>9. queue # <<>>
    BY <2>4
  <2> HIDE DEF starts
  <2>10. /\ \A u \in Turns : JobTyped(now[u])
         /\ \A u \in Turns : now[u] = jobs[u] \/ now[u].stage \in {"idle", "queued"}
         /\ \A u \in Turns : u # t => now[u] = jobs[u]
    <3>1. JobTyped(job) /\ job.stage = "queued"
      <4>1. submissions[t].revision \in Nat /\ generation \in Nat
        BY <1>1 DEF Typed, SubmissionRecords
      <4> QED
        BY <4>1, QueuedJobTyped
    <3>2. \A u \in Turns : JobTyped(jobs[u])
      BY <1>1 DEF Typed
    <3> HIDE DEF job
    <3> QED
      BY <1>1, <3>1, <3>2 DEF Typed
  <2> HIDE DEF now
  <2>11. /\ \A u \in Turns : jobs'[u].stage = "checkpoint-write" => jobs'[u] = jobs[u]
         /\ \A u \in Turns : u # t => (jobs'[u].stage \notin PastCheckpoint => WillWrite(u))
    BY <2>6, <2>10, BeginningJobs
  <2>12. \A d \in Conversations : activeTurn[d] # None => activeTurn[d] \in Turns /\ Dispatched(activeTurn[d], d)
    BY DEF DispatchStory, QueueStory
  <2>13. ContextStory(c)'
    <3>1. CASE starts
      <4>1. /\ InOrder(c, Tail(queue)) /\ RunsFirst(Head(queue).turn, Tail(queue))
            /\ WritesNext(c, Head(queue).turn)
        <5>1. queue \in Seq(WaitingJobs(c) \cup {entry})
          BY <2>4, SeqMonotonic
        <5> QED
          BY <2>5, <2>9, <5>1, NextInOrder
      <4> QED
        BY <1>1, <2>3, <2>4, <2>6, <3>1, <4>1, ContextMoves DEF DispatchStory, QueueStory
    <3>2. CASE ~starts
      <4>1. queues'[c] = queue /\ activeTurn'[c] = activeTurn[c]
        BY <2>6, <3>2 DEF DispatchStory, QueueStory
      <4>2. activeTurn[c] # None =>
              /\ RunsFirst(activeTurn[c], queue)
              /\ jobs'[activeTurn[c]].stage \notin PastCheckpoint => WritesNext(c, activeTurn[c])
        <5> SUFFICES ASSUME activeTurn[c] # None
                     PROVE  /\ RunsFirst(activeTurn[c], queue)
                            /\ jobs'[activeTurn[c]].stage \notin PastCheckpoint => WritesNext(c, activeTurn[c])
          OBVIOUS
        <5>1. activeTurn[c] \in Turns /\ activeTurn[c] # t /\ Dispatched(activeTurn[c], c)
          BY <1>1, <2>12 DEF Dispatched
        <5>2. turns[activeTurn[c]].sequence < turns[t].sequence
          BY <2>1, <5>1 DEF Latest, Dispatched
        <5>3. RunsFirst(activeTurn[c], queue)
          BY <2>4, <2>8, <5>2 DEF ContextStory, RunsFirst
        <5> QED
          BY <2>4, <2>11, <5>1, <5>3 DEF ContextStory
      <4> HIDE DEF queue
      <4> QED
        BY <1>1, <2>3, <2>4, <2>5, <4>1, <4>2, ContextMoves
    <3> QED
      BY <3>1, <3>2
  <2>14. ASSUME NEW d \in Conversations, d # c
         PROVE  ContextStory(d)'
    <3>1. queues'[d] = queues[d] /\ activeTurn'[d] = activeTurn[d]
      BY <2>6, <2>14 DEF DispatchStory, QueueStory
    <3>2. ContextStory(d) /\ InOrder(d, queues[d])
      BY DEF OrderStory, WorkStory, ContextStory
    <3>3. activeTurn[d] # None => RunsFirst(activeTurn[d], queues[d])
                                  /\ (jobs'[activeTurn[d]].stage \notin PastCheckpoint => WritesNext(d, activeTurn[d]))
      <4>1. activeTurn[d] # None => activeTurn[d] \in Turns /\ activeTurn[d] # t
        BY <1>1, <2>12 DEF Dispatched
      <4> QED
        BY <2>11, <3>2, <4>1 DEF ContextStory
    <3> QED
      BY <1>1, <2>3, <3>1, <3>2, <3>3, ContextMoves
  <2>15. LoadStory'
    BY <1>1, <2>3, <2>11, SameLoads DEF OrderStory, WorkStory
  <2>16. LineStory'
    BY <2>2, LinesMove DEF OrderStory, DispatchStory
  <2>17. PlaceStory'
    BY <2>2, <2>3, <2>6, PlacesKept DEF LineMoves, OrderStory, PlaceStory
  <2> QED
    BY <2>13, <2>14, <2>15, <2>16, <2>17 DEF OrderStory, WorkStory
<1> QED
  BY <1>2, <1>3

LEMMA EndOrders ==
    ASSUME RuntimeInv, DispatchStory, OrderStory, NEW t \in Turns, JobEnds(t)
    PROVE  OrderStory'
<1> DEFINE c == Home(t)
           now == [jobs EXCEPT ![t] = NoJob]
<1>1. /\ UNCHANGED <<turns, sequenceCounters, snapshots, submissions, admission>> /\ JobSettles(c)
      /\ jobs' = Started(now) /\ Begun(t)
  BY DEF JobEnds, storeVars, ledgerVars, conversationVars, orchestratorVars, At, Begun
<1>2. c \in Conversations /\ activeTurn[c] = t
  BY <1>1 DEF DispatchStory, RunnerStory
<1>3. PICK started \in SUBSET Ready(c) :
        /\ activeTurn' = [d \in Conversations |->
             IF d \in started THEN Head(queues[d]).turn
             ELSE IF d = c THEN None ELSE activeTurn[d]]
        /\ queues' = [d \in Conversations |-> IF d \in started THEN Tail(queues[d]) ELSE queues[d]]
        /\ UNCHANGED draining
  BY <1>1 DEF JobSettles
<1>4. PublishedStay /\ PlacesStay
  BY <1>1 DEF PublishedStay, PlacesStay
<1>5. /\ \A u \in Turns : JobTyped(now[u])
      /\ \A u \in Turns : now[u] = IF u = t THEN NoJob ELSE jobs[u]
      /\ NoJob.stage = "idle"
  <2>1. JobTyped(NoJob) /\ NoJob.stage = "idle"
    BY DEF JobTyped, NoJob, Stages
  <2>2. DOMAIN jobs = Turns /\ \A u \in Turns : JobTyped(jobs[u])
    BY DEF RuntimeInv, Typed
  <2> QED
    BY <2>1, <2>2
<1> HIDE DEF now
<1>6. /\ \A u \in Turns : jobs'[u].stage = "checkpoint-write" => jobs'[u] = jobs[u]
      /\ \A u \in Turns : jobs'[u].stage \notin PastCheckpoint => WillWrite(u)
  <2>1. \A u \in Turns : now[u] = jobs[u] \/ now[u].stage = "idle"
    BY <1>5
  <2> QED
    BY <1>1, <1>5, <2>1, BeginningJobs
<1>7. ASSUME NEW d \in Conversations
      PROVE  ContextStory(d)'
  <2>1. ContextStory(d) /\ InOrder(d, queues[d]) /\ queues[d] \in Seq(WaitingJobs(d))
    BY DEF OrderStory, WorkStory, ContextStory, DispatchStory, QueueStory
  <2>2. CASE d \in started
    <3>1. queues[d] # <<>>
      BY <1>3, <2>2 DEF Ready
    <3>2. /\ InOrder(d, Tail(queues[d])) /\ RunsFirst(Head(queues[d]).turn, Tail(queues[d]))
          /\ WritesNext(d, Head(queues[d]).turn)
      BY <2>1, <3>1, NextInOrder
    <3> QED
      BY <1>1, <1>3, <1>4, <2>1, <2>2, <3>2, ContextMoves
  <2>3. CASE d \notin started /\ d = c
    <3>1. queues'[d] = queues[d] /\ activeTurn'[d] = None
      BY <1>3, <2>3
    <3> QED
      BY <1>1, <1>4, <2>1, <3>1, ContextMoves
  <2>4. CASE d \notin started /\ d # c
    <3>1. queues'[d] = queues[d] /\ activeTurn'[d] = activeTurn[d]
      BY <1>3, <2>4
    <3>2. activeTurn[d] # None => activeTurn[d] \in Turns
      BY DEF DispatchStory, QueueStory
    <3>3. activeTurn[d] # None => RunsFirst(activeTurn[d], queues[d])
                                  /\ (jobs'[activeTurn[d]].stage \notin PastCheckpoint => WritesNext(d, activeTurn[d]))
      BY <1>6, <2>1, <3>2 DEF ContextStory
    <3> QED
      BY <1>1, <1>4, <2>1, <3>1, <3>3, ContextMoves
  <2> QED
    BY <2>2, <2>3, <2>4
<1>8. LoadStory'
  BY <1>1, <1>4, <1>6, SameLoads DEF OrderStory, WorkStory
<1>9. PlaceStory' /\ LineStory'
  BY <1>1, <1>3, <1>4, LinesKept DEF OrderStory
<1> QED
  BY <1>7, <1>8, <1>9 DEF OrderStory, WorkStory

----------------------------------------------------------------------------
LEMMA OrderStarts == RuntimeInit => OrderStory
<1> SUFFICES ASSUME RuntimeInit
             PROVE  OrderStory
  OBVIOUS
<1>1. /\ queues = [c \in Conversations |-> <<>>] /\ activeTurn = [c \in Conversations |-> None]
      /\ jobs = [t \in Turns |-> NoJob] /\ snapshots = [c \in Conversations |-> NoSnapshot]
      /\ submissions = [t \in Turns |-> NoSubmission] /\ admission = [c \in Conversations |-> <<>>]
      /\ turns = [t \in Turns |-> AbsentRow] /\ sequenceCounters = [c \in Conversations |-> 1]
  BY DEF RuntimeInit, DispatcherInit, PipelineInit, ConversationInit, LedgerInit
<1>2. \A S : <<>> \in Seq(S)
  OBVIOUS
<1>3. \A t \in Turns : jobs[t].stage = "idle" /\ submissions[t].stage = "none" /\ turns[t].sequence = 0
  BY <1>1 DEF NoJob, NoSubmission, AbsentRow
<1>4. PlaceStory /\ LineStory /\ LoadStory
  BY <1>1, <1>2, <1>3 DEF PlaceStory, LineStory, LoadStory, InLineStages
<1>5. ASSUME NEW c \in Conversations
      PROVE  ContextStory(c)
  <2>1. SnapshotShaped(NoSnapshot) /\ NoSnapshot.context = <<>>
    BY <1>2 DEF SnapshotShaped, NoSnapshot
  <2> QED
    BY <1>1, <2>1 DEF ContextStory, InOrder
<1> QED
  BY <1>4, <1>5 DEF OrderStory, WorkStory

LEMMA OrderSteps ==
    RuntimeInv /\ DispatchStory /\ OrderStory /\ [RuntimeNext]_runtimeVars => OrderStory'
<1> SUFFICES ASSUME RuntimeInv, DispatchStory, OrderStory, [RuntimeNext]_runtimeVars
             PROVE  OrderStory'
  OBVIOUS
<1>1. CASE Start \/ StartReturns \/ CloseReturns \/ UNCHANGED runtimeVars
  BY <1>1, LifecycleOrders
<1>2. CASE Crash
  BY <1>2, CrashOrders
<1>3. CASE Recover
  BY <1>3, RecoverOrders
<1>4. CASE \E close \in BOOLEAN : BeginDrain(close)
  BY <1>4, StopsOrder
<1>5. ASSUME NEW t \in Turns,
             \/ \E key \in TransportKeys : Observe(t, key)
             \/ \E c \in Conversations : Bind(t, c)
             \/ BindingFails(t) \/ Authenticate(t) \/ Accept(t) \/ Queue(t) \/ SubmissionFails(t)
      PROVE  OrderStory'
  BY <1>5, ObserveOrders, BindOrders, AuthenticateOrders, AcceptOrders, QueueOrders, SubmissionFailsOrders
<1>6. ASSUME NEW t \in Turns, JobStep(t) \/ JobFails(t) \/ JobEnds(t) \/ Publish(t)
      PROVE  OrderStory'
  BY <1>6, JobOrders, StopsOrder, EndOrders, PublishOrders
<1> QED
  BY <1>1, <1>2, <1>3, <1>4, <1>5, <1>6 DEF RuntimeNext

LEMMA RuntimeOrders == RuntimeSpec => []OrderStory
  BY OrderStarts, OrderSteps, RuntimeKeepsInv, RuntimeDispatches, PTL DEF RuntimeSpec

\* The context of a conversation follows the sequence of its turns, for any number of
\* turns and conversations: admission, queue and runner each keep the order they were
\* given, and a checkpoint appends what is later than all it finds.
THEOREM ContextsFollowSequence == RuntimeSpec => []ContextFollowsSequence
<1>1. ASSUME RuntimeInv, OrderStory
      PROVE  ContextFollowsSequence
  BY <1>1 DEF OrderStory, WorkStory, ContextStory, ContextFollowsSequence, Dispatched
<1> QED
  BY <1>1, RuntimeKeepsInv, RuntimeOrders, PTL

----------------------------------------------------------------------------
\* The barriers.  A turn whose delivery or whose context is in doubt completes only
\* after the barrier of its conversation, and no later write takes a barrier away: of
\* two actors who might both write it, the second finds the operation of the first.

Uncertain(facts) ==
    \/ facts.delivery = "outcome_unknown"
    \/ facts.delivery \in {"delivered", "failed"} /\ facts.checkpoint = "failed"

Barred == {c \in Conversations : BarrierActive(snapshots[c])}
DoubtBars(row, barred) == Uncertain(row.facts) => row.conversation \in barred

ConversationsBar ==
    /\ DOMAIN checkpointOps = Conversations
    /\ \A c \in Conversations : \A op \in checkpointOps[c] : op.kind = "barrier" => c \in Barred

RowBars(row, barred) == row.state = "completed" => DoubtBars(row, barred)

\* A job past its barrier, or one that wrote the facts it completes with.
AuditedStages == {"audit-completion", "completion-fact"}
BarStages == AuditedStages \cup {"complete"}

JobBars(job, row, barred) ==
    /\ job.stage \in AuditedStages /\ job.checkpoint = "failed" => row.conversation \in barred
    /\ job.stage = "complete" /\ job.revision = row.revision => DoubtBars(row, barred)

\* A row that recovery has listed past its binding stays with its conversation.
PastBinding(row) == row.state \notin {"absent", "observed"}
ListedHome(listed, row) ==
    listed.state # "observed" => PastBinding(row) /\ row.conversation = listed.conversation

CandidateBars(local, row, barred) ==
    /\ ListedHome(local.row, row)
    /\ local.stage \notin {"cancel", "complete"} => local.row.state # "observed"
    /\ local.stage \in {"delivery-move", "assess"} /\ local.revision = row.revision =>
         row.facts.checkpoint = local.checkpoint
    /\ local.stage \in {"reconcile", "completion-fact"} =>
         \/ row.conversation \in barred
         \/ /\ local.checkpoint = "succeeded" /\ local.delivery # "outcome_unknown"
            /\ local.revision = row.revision => ~Uncertain(row.facts)
    /\ local.stage = "complete" /\ local.at \in EndedDelivery /\ local.revision = row.revision =>
         DoubtBars(row, barred)

\* A turn whose model was asked is bound to a conversation.
HomesBar == \A t \in Turns : effects[t].llm = 1 => turns[t].conversation \in Conversations

BarrierStory ==
    /\ ConversationsBar
    /\ HomesBar
    /\ \A t \in Turns : RowBars(turns[t], Barred) /\ JobBars(jobs[t], turns[t], Barred)
    /\ \A u \in DOMAIN recovery.rows : ListedHome(recovery.rows[u], turns[u])
    /\ AtCandidate => CandidateBars(recovery, turns[Candidate], Barred)

----------------------------------------------------------------------------
\* What the two writes of a snapshot leave of the barriers.
LEMMA BarrierBars ==
    ASSUME ConversationsBar, DOMAIN snapshots = Conversations, \A d \in Conversations : SnapshotShaped(snapshots[d]),
           NEW c, NEW key, NEW revision, RecordCheckpointBarrier(c, key, revision)
    PROVE  /\ Barred \subseteq Barred' /\ ConversationsBar'
           /\ c \in Conversations /\ BarrierOutcome(c, key, revision) \in {"recorded", "already-recorded"} =>
                c \in Barred'
<1> DEFINE old == snapshots[c]
           next == Degrade(old)
           op == [key |-> key, kind |-> "barrier", snapshot |-> next]
<1>1. ASSUME c \in Conversations
      PROVE  next.pause = "degraded" /\ next.checkpoint = "failed"
  <2> DEFINE a == [old EXCEPT !.revision = @ + 1]
             b == [a EXCEPT !.pause = "degraded"]
  <2>1. SnapshotShaped(a)
    BY <1>1 DEF SnapshotShaped
  <2> HIDE DEF a
  <2>2. SnapshotShaped(b) /\ b.pause = "degraded"
    BY <2>1 DEF SnapshotShaped
  <2> HIDE DEF b
  <2>3. next = [b EXCEPT !.checkpoint = "failed"]
    BY DEF Degrade, a, b
  <2> HIDE DEF next
  <2> QED
    BY <2>2, <2>3 DEF SnapshotShaped
<1>2. CASE BarrierOutcome(c, key, revision) = "recorded"
  <2>1. /\ snapshots' = [snapshots EXCEPT ![c] = next]
        /\ checkpointOps' = [checkpointOps EXCEPT ![c] = @ \cup {op}]
    BY <1>2 DEF RecordCheckpointBarrier, WriteSnapshot
  <2> HIDE DEF next, op
  <2>2. \A d \in Conversations : snapshots'[d] = IF d = c THEN next ELSE snapshots[d]
    BY <2>1 DEF op
  <2>3. /\ DOMAIN checkpointOps' = Conversations
        /\ \A d \in Conversations : d # c => checkpointOps'[d] = checkpointOps[d]
    BY <2>1 DEF ConversationsBar
  <2>4. c \in Conversations => c \in Barred'
    BY <1>1, <2>2 DEF Barred, BarrierActive
  <2>5. Barred \subseteq Barred'
    BY <2>2, <2>4 DEF Barred
  <2> QED
    BY <2>3, <2>4, <2>5 DEF ConversationsBar
<1>3. CASE BarrierOutcome(c, key, revision) # "recorded"
  <2>1. snapshots' = snapshots /\ checkpointOps' = checkpointOps
    BY <1>3 DEF RecordCheckpointBarrier, conversationVars
  <2>2. BarrierOutcome(c, key, revision) = "already-recorded" =>
          \E known \in checkpointOps[c] : known.kind = "barrier"
    BY DEF BarrierOutcome, OpsWithKey
  <2>3. Barred' = Barred
    BY <2>1 DEF Barred
  <2> QED
    BY <1>3, <2>1, <2>2, <2>3 DEF ConversationsBar
<1> QED
  BY <1>2, <1>3

LEMMA CheckpointBars ==
    ASSUME ConversationsBar, DOMAIN snapshots = Conversations, NEW c, NEW key, NEW revision, NEW next,
           Checkpoint(c, key, revision, next)
    PROVE  Barred \subseteq Barred' /\ ConversationsBar'
<1> DEFINE op == [key |-> key, kind |-> "checkpoint", snapshot |-> next]
<1>1. CASE CheckpointOutcome(c, key, revision, next) = "stored"
  <2>1. /\ snapshots' = [snapshots EXCEPT ![c] = next]
        /\ checkpointOps' = [checkpointOps EXCEPT ![c] = @ \cup {op}]
    BY <1>1 DEF Checkpoint, WriteSnapshot
  <2>2. op.kind # "barrier"
    OBVIOUS
  <2> HIDE DEF op
  <2>3. c \notin Barred
    BY <1>1 DEF CheckpointOutcome, Barred
  <2>4. \A d \in Barred : snapshots'[d] = snapshots[d]
    BY <2>1, <2>3 DEF Barred
  <2>5. Barred \subseteq Barred'
    BY <2>4 DEF Barred
  <2>6. /\ DOMAIN checkpointOps' = Conversations
        /\ \A d \in Conversations : checkpointOps'[d] \subseteq checkpointOps[d] \cup {op}
    BY <2>1 DEF ConversationsBar
  <2> QED
    BY <2>2, <2>5, <2>6 DEF ConversationsBar
<1>2. CASE CheckpointOutcome(c, key, revision, next) # "stored"
  <2>1. snapshots' = snapshots /\ checkpointOps' = checkpointOps
    BY <1>2 DEF Checkpoint, conversationVars
  <2>2. Barred' = Barred
    BY <2>1 DEF Barred
  <2> QED
    BY <2>1, <2>2 DEF ConversationsBar
<1> QED
  BY <1>1, <1>2

LEMMA SameConversations ==
    ASSUME ConversationsBar, UNCHANGED conversationVars
    PROVE  Barred \subseteq Barred' /\ ConversationsBar'
<1>1. Barred' = Barred
  BY DEF Barred, conversationVars
<1> QED
  BY <1>1 DEF ConversationsBar, conversationVars

----------------------------------------------------------------------------
\* A row that goes on stays with its conversation once it is bound.
RowHolds(row, next) ==
    \/ next = row
    \/ /\ next.revision = row.revision + 1
       /\ PastBinding(row) => PastBinding(next) /\ next.conversation = row.conversation

BarStep(t) ==
    /\ turns' = [turns EXCEPT ![t] = turns'[t]]
    /\ RowHolds(turns[t], turns'[t])
    /\ submissions[t].stage = "ended" => turns'[t].conversation = turns[t].conversation
    /\ RowBars(turns'[t], Barred')
    /\ Barred \subseteq Barred' /\ ConversationsBar' /\ HomesBar'

LEMMA JobBarsKeep ==
    ASSUME NEW job, NEW row, NEW next, NEW barred, NEW later, barred \subseteq later, job.revision \in Nat,
           row.revision \in Nat, job.revision <= row.revision, RowHolds(row, next),
           next.conversation = row.conversation, JobBars(job, row, barred)
    PROVE  JobBars(job, next, later)
<1>1. job.revision = next.revision => next = row
  BY DEF RowHolds
<1> QED
  BY <1>1 DEF JobBars, DoubtBars

LEMMA CandidateBarsKeep ==
    ASSUME NEW local, NEW row, NEW next, NEW barred, NEW later, barred \subseteq later, local.revision \in Nat,
           row.revision \in Nat, local.revision <= row.revision, RowHolds(row, next),
           CandidateBars(local, row, barred)
    PROVE  CandidateBars(local, next, later)
<1>1. local.revision = next.revision => next = row
  BY DEF RowHolds
<1>2. ListedHome(local.row, next)
  BY DEF CandidateBars, ListedHome, RowHolds
<1>3. local.row.state # "observed" => next.conversation = row.conversation
  BY <1>2 DEF CandidateBars, ListedHome
<1> QED
  BY <1>1, <1>2, <1>3 DEF CandidateBars, DoubtBars

LEMMA BarsGoOn ==
    ASSUME RuntimeInv, BarrierStory, NEW t \in Turns, BarStep(t)
    PROVE  /\ ConversationsBar' /\ HomesBar'
           /\ \A u \in Turns : RowBars(turns'[u], Barred')
           /\ \A u \in Turns : Working(u) => JobBars(jobs[u], turns'[u], Barred')
           /\ \A u \in DOMAIN recovery.rows : ListedHome(recovery.rows[u], turns'[u])
           /\ AtCandidate => CandidateBars(recovery, turns'[recovery.turn], Barred')
<1>1. /\ turns \in [Turns -> Rows] /\ \A u \in Turns : turns[u].revision \in Nat
      /\ ConversationsBar' /\ HomesBar' /\ Barred \subseteq Barred'
  BY ConstantsAssumption DEF RuntimeInv, Typed, Rows, BarStep
<1>2. \A u \in Turns : u # t => turns'[u] = turns[u]
  BY <1>1 DEF BarStep
<1>3. \A u \in Turns : RowHolds(turns[u], turns'[u])
  BY <1>2 DEF BarStep, RowHolds
<1>4. \A u \in Turns : RowBars(turns'[u], Barred')
  BY <1>1, <1>2 DEF BarStep, BarrierStory, RowBars, DoubtBars
<1>5. ASSUME NEW u \in Turns, Working(u)
      PROVE  JobBars(jobs[u], turns'[u], Barred')
  <2>1. jobs[u].revision \in Nat /\ jobs[u].revision <= turns[u].revision /\ submissions[u].stage = "ended"
    BY <1>5 DEF RuntimeInv, Typed, JobTyped, TurnInv, JobInv, EffectsInv, Working
  <2>2. turns'[u].conversation = turns[u].conversation
    BY <1>2, <2>1 DEF BarStep
  <2>3. JobBars(jobs[u], turns[u], Barred)
    BY DEF BarrierStory
  <2> QED
    BY <1>1, <1>3, <2>1, <2>2, <2>3, JobBarsKeep
<1>6. ASSUME NEW u \in DOMAIN recovery.rows
      PROVE  ListedHome(recovery.rows[u], turns'[u])
  <2>1. u \in Turns /\ ListedHome(recovery.rows[u], turns[u])
    BY DEF RuntimeInv, Typed, RecoveryTyped, BarrierStory
  <2> QED
    BY <1>3, <2>1 DEF ListedHome, RowHolds
<1>7. ASSUME AtCandidate
      PROVE  CandidateBars(recovery, turns'[recovery.turn], Barred')
  <2>1. PICK u \in Turns : u = Candidate /\ u = recovery.turn
    BY <1>7, CandidateFacts
  <2>2. recovery.revision \in Nat /\ recovery.revision <= turns[u].revision
    BY <1>7, <2>1, CandidateFacts
  <2>3. CandidateBars(recovery, turns[u], Barred)
    BY <1>7, <2>1 DEF BarrierStory
  <2> QED
    BY <1>1, <1>3, <2>1, <2>2, <2>3, CandidateBarsKeep
<1> QED
  BY <1>1, <1>4, <1>5, <1>6, <1>7

LEMMA NoBars ==
    ASSUME NEW job, NEW row, NEW barred, job.stage \notin BarStages
    PROVE  JobBars(job, row, barred)
  BY DEF JobBars, BarStages, AuditedStages

\* A step of the job of a turn, and one of recovery.
LEMMA JobBarsStep ==
    ASSUME RuntimeInv, BarrierStory, NEW t \in Turns, BarStep(t),
           jobs' = [jobs EXCEPT ![t] = jobs'[t]], UNCHANGED recovery, JobBars(jobs'[t], turns'[t], Barred')
    PROVE  BarrierStory'
<1>1. \A u \in Turns : JobBars(jobs'[u], turns'[u], Barred')
  <2> SUFFICES ASSUME NEW u \in Turns, u # t
               PROVE  JobBars(jobs'[u], turns'[u], Barred')
    OBVIOUS
  <2>1. jobs'[u] = jobs[u]
    BY DEF RuntimeInv, Typed
  <2>2. CASE Working(u)
    BY <2>1, <2>2, BarsGoOn
  <2>3. CASE ~Working(u)
    BY <2>1, <2>3, NoBars DEF Working, BarStages, AuditedStages
  <2> QED
    BY <2>2, <2>3
<1>2. AtCandidate' => CandidateBars(recovery', turns'[recovery'.turn], Barred')
  BY BarsGoOn DEF AtCandidate
<1> QED
  BY <1>1, <1>2, BarsGoOn DEF BarrierStory, Candidate

LEMMA RecoveryBarsStep ==
    ASSUME RuntimeInv, BarrierStory, NEW t \in Turns, BarStep(t), UNCHANGED jobs, recovery'.rows = recovery.rows,
           AtCandidate' => CandidateBars(recovery', turns'[recovery'.turn], Barred')
    PROVE  BarrierStory'
<1>1. \A u \in Turns : JobBars(jobs'[u], turns'[u], Barred')
  <2> SUFFICES ASSUME NEW u \in Turns
               PROVE  JobBars(jobs[u], turns'[u], Barred')
    OBVIOUS
  <2>1. CASE Working(u)
    BY <2>1, BarsGoOn
  <2>2. CASE ~Working(u)
    BY <2>2, NoBars DEF Working, BarStages, AuditedStages
  <2> QED
    BY <2>1, <2>2
<1> QED
  BY <1>1, BarsGoOn DEF BarrierStory, Candidate

\* A step that writes neither a row nor a snapshot.
LEMMA LocalsBar ==
    ASSUME BarrierStory, UNCHANGED <<turns, conversationVars, effects>>,
           \A u \in Turns : jobs'[u].stage \notin BarStages \/ SameLocals(jobs'[u], jobs[u]),
           \/ UNCHANGED recovery
           \/ ~AtCandidate' /\ \A u \in DOMAIN recovery'.rows : ListedHome(recovery'.rows[u], turns[u])
    PROVE  BarrierStory'
<1>1. Barred' = Barred /\ ConversationsBar' /\ HomesBar'
  <2>1. Barred' = Barred
    BY DEF Barred, conversationVars
  <2> QED
    BY <2>1 DEF BarrierStory, ConversationsBar, HomesBar, conversationVars
<1>2. \A u \in Turns : JobBars(jobs'[u], turns[u], Barred)
  BY NoBars DEF BarrierStory, SameLocals, JobBars
<1>3. \A u \in DOMAIN recovery'.rows : ListedHome(recovery'.rows[u], turns[u])
  BY DEF BarrierStory
<1>4. AtCandidate' => CandidateBars(recovery, turns[Candidate], Barred) /\ UNCHANGED recovery
  BY DEF BarrierStory, AtCandidate
<1> QED
  BY <1>1, <1>2, <1>3, <1>4 DEF BarrierStory, Candidate

LEMMA StillBars ==
    ASSUME RuntimeInv, BarrierStory, NEW t \in Turns, UNCHANGED turns, Barred \subseteq Barred', ConversationsBar', HomesBar'
    PROVE  BarStep(t)
<1>1. turns \in [Turns -> Rows]
  BY DEF RuntimeInv, Typed
<1>2. RowBars(turns[t], Barred')
  BY DEF BarrierStory, RowBars, DoubtBars
<1> QED
  BY <1>1, <1>2 DEF BarStep, RowHolds

\* A row that moves is past its binding.
LEMMA MovesGoPast ==
    ASSUME NEW state \in TurnStates, NEW target \in LegalTransitions[state]
    PROVE  target \notin {"absent", "observed"}
<1>1. CASE state \in {"observed", "authentication_rejected", "authenticated", "accepted"}
  BY <1>1 DEF LegalTransitions
<1>2. CASE state \in {"queued", "llm_started", "llm_known_failed", "deterministic_notice_prepared"}
  BY <1>2 DEF LegalTransitions
<1>3. CASE state \in {"llm_completed", "output_validated", "delivery_started", "delivered"}
  BY <1>3 DEF LegalTransitions
<1>4. CASE state \in {"delivery_failed", "delivery_outcome_unknown", "cancelled", "completed"}
  BY <1>4 DEF LegalTransitions
<1> QED
  BY <1>1, <1>2, <1>3, <1>4 DEF TurnStates

\* Where no snapshot, no effect and no place changes, the barriers and homes stay.
LEMMA LedgerBars ==
    ASSUME BarrierStory, PlacesStay, UNCHANGED <<conversationVars, effects>>
    PROVE  Barred \subseteq Barred' /\ ConversationsBar' /\ HomesBar'
<1>1. Barred \subseteq Barred' /\ ConversationsBar'
  BY SameConversations DEF BarrierStory
<1> QED
  BY <1>1 DEF BarrierStory, HomesBar, PlacesStay

\* A row that moves, and one whose facts are written.
LEMMA MovedBars ==
    ASSUME RuntimeInv, BarrierStory, NEW t \in Turns, PlacesStay, UNCHANGED <<conversationVars, effects>>,
           turns[t].state \in TurnStates, NEW to \in LegalTransitions[turns[t].state], RowMoved(t, to),
           to = "completed" => DoubtBars(turns[t], Barred)
    PROVE  BarStep(t)
<1>1. Barred \subseteq Barred' /\ ConversationsBar' /\ HomesBar' /\ turns'[t].conversation = turns[t].conversation
  BY LedgerBars DEF PlacesStay
<1>2. RowHolds(turns[t], turns'[t])
  BY <1>1, MovesGoPast DEF RowHolds, RowMoved, PastBinding
<1>3. RowBars(turns'[t], Barred')
  BY <1>1 DEF RowBars, DoubtBars, RowMoved
<1> QED
  BY <1>1, <1>2, <1>3 DEF BarStep, RowMoved

LEMMA ToldBars ==
    ASSUME RuntimeInv, BarrierStory, NEW t \in Turns, PlacesStay, UNCHANGED <<conversationVars, effects>>,
           NEW facts, RowTold(t, facts), turns[t].state # "completed"
    PROVE  BarStep(t)
<1>1. Barred \subseteq Barred' /\ ConversationsBar' /\ HomesBar' /\ turns'[t].conversation = turns[t].conversation
  BY LedgerBars DEF PlacesStay
<1>2. RowHolds(turns[t], turns'[t])
  BY <1>1 DEF RowHolds, RowTold, PastBinding
<1>3. RowBars(turns'[t], Barred')
  BY DEF RowBars, RowTold
<1> QED
  BY <1>1, <1>2, <1>3 DEF BarStep, RowTold

LEMMA MoveBars ==
    ASSUME RuntimeInv, BarrierStory, NEW t \in Turns, OthersAlone, NEW from \in TurnStates, NEW to \in TurnStates,
           NEW stage \in Stages, stage \notin BarStages, Move(t, from, to, stage),
           to = "completed" /\ jobs[t].revision = turns[t].revision => DoubtBars(turns[t], Barred)
    PROVE  BarrierStory'
<1> DEFINE kind == TransitionOutcome(t, jobs[t].revision, from, to)
<1>1. /\ Typed /\ JobTyped(jobs[t]) /\ turns[t].revision \in Nat /\ jobs[t].revision \in Nat
  BY ConstantsAssumption DEF RuntimeInv, Typed, JobTyped, Rows
<1>2. /\ Transition(t, jobs[t].revision, from, to)
      /\ Only(t, AfterLedger(jobs[t], kind, stage))
      /\ UNCHANGED <<conversationVars, effects>> /\ recovery' = recovery
  BY DEF Move, LedgerCall, NoEffect, OthersAlone
<1> HIDE DEF kind
<1>3. \/ /\ kind = "transitioned" /\ turns[t].revision = jobs[t].revision /\ turns[t].state = from
         /\ to \in LegalTransitions[from] /\ RowMoved(t, to)
      \/ kind = "already-transitioned" /\ turns[t].state = to /\ turns' = turns
      \/ /\ kind \notin {"transitioned", "already-transitioned", "recorded", "already-recorded"}
         /\ turns' = turns
  BY <1>1, <1>2, TransitionEffect DEF kind
<1>4. jobs' = [jobs EXCEPT ![t] = jobs'[t]] /\ jobs'[t].stage \in {stage, "error"}
  BY <1>1, <1>2, LedgerLeavesJob DEF JobGoes
<1>5. JobBars(jobs'[t], turns'[t], Barred')
  BY <1>4, NoBars DEF BarStages, AuditedStages
<1>6. PlacesStay
  BY <1>1, <1>2, MovesKeepPlaces
<1>7. BarStep(t)
  BY <1>2, <1>3, <1>6, MovedBars, StillBars, LedgerBars
<1> QED
  BY <1>2, <1>4, <1>5, <1>7, JobBarsStep

LEMMA FactsBar ==
    ASSUME RuntimeInv, BarrierStory, NEW t \in Turns, Working(t), OthersAlone, NEW facts \in Facts,
           NEW stage \in Stages, WriteFacts(t, facts, stage),
           stage \in AuditedStages => jobs[t].checkpoint # "failed",
           stage = "complete" /\ Uncertain(facts) => Home(t) \in Barred
    PROVE  BarrierStory'
<1> DEFINE kind == RecordFactualOutcomeKind(t, jobs[t].revision, facts)
<1>1. /\ Typed /\ JobTyped(jobs[t]) /\ turns[t].revision \in Nat /\ jobs[t].revision \in Nat
  BY ConstantsAssumption DEF RuntimeInv, Typed, JobTyped, Rows
<1>2. /\ RecordFactualOutcome(t, jobs[t].revision, facts)
      /\ Only(t, AfterLedger(jobs[t], kind, stage))
      /\ UNCHANGED <<conversationVars, effects>> /\ recovery' = recovery
  BY DEF WriteFacts, LedgerCall, NoEffect, OthersAlone
<1> HIDE DEF kind
<1>3. \/ /\ kind = "recorded" /\ turns[t].revision = jobs[t].revision /\ RowTold(t, facts)
      \/ /\ kind = "already-recorded" /\ turns[t].facts = facts /\ turns' = turns
      \/ /\ kind \notin {"transitioned", "already-transitioned", "recorded", "already-recorded"}
         /\ turns' = turns
  BY <1>1, <1>2, FactsEffect DEF kind
<1>4. /\ kind \in {"recorded", "already-recorded"} => \E revision : JobGoes(t, stage, revision)
      /\ kind \notin {"transitioned", "already-transitioned", "recorded", "already-recorded"} =>
           JobGoes(t, "error", jobs[t].revision)
  BY <1>1, <1>2, LedgerLeavesJob
<1>5. PlacesStay
  BY <1>1, <1>2, FactsKeepPlaces
<1>6. BarStep(t)
  BY <1>2, <1>3, <1>5, NeverBelievedComplete, ToldBars, StillBars, LedgerBars
<1>7. Barred \subseteq Barred' /\ turns'[t].conversation = Home(t)
  BY <1>5, <1>6 DEF BarStep, PlacesStay, Home
<1>8. CASE kind \in {"recorded", "already-recorded"}
  <2>1. turns'[t].facts = facts /\ jobs'[t].stage = stage /\ jobs'[t].checkpoint = jobs[t].checkpoint
        /\ jobs' = [jobs EXCEPT ![t] = jobs'[t]]
    BY <1>3, <1>4, <1>8 DEF RowTold, JobGoes
  <2>2. JobBars(jobs'[t], turns'[t], Barred')
    BY <1>7, <2>1 DEF JobBars, DoubtBars
  <2> QED
    BY <1>2, <1>6, <2>1, <2>2, JobBarsStep
<1>9. CASE kind \notin {"transitioned", "already-transitioned", "recorded", "already-recorded"}
  <2>1. JobBars(jobs'[t], turns'[t], Barred') /\ jobs' = [jobs EXCEPT ![t] = jobs'[t]]
    BY <1>4, <1>9, NoBars DEF JobGoes, BarStages, AuditedStages
  <2> QED
    BY <1>2, <1>6, <2>1, JobBarsStep
<1> QED
  BY <1>3, <1>8, <1>9

\* The moves of a job: only the last ones reach the end, and they know what was in doubt.
LEMMA MovesBar ==
    ASSUME RuntimeInv, BarrierStory, NEW t \in Turns, OthersAlone,
           \/ CancelAtGate(t) \/ CompleteAtGate(t) \/ StartLlm(t) \/ CancelUnknownLlm(t)
           \/ RecordKnownFailure(t) \/ CompleteKnownFailure(t) \/ PrepareNotice(t) \/ RecordLlmCompleted(t)
           \/ ValidateOutput(t) \/ StartDelivery(t) \/ MoveToDeliveryUnknown(t) \/ MoveToProven(t)
           \/ CompleteTurn(t)
    PROVE  BarrierStory'
<1> DEFINE held == jobs[t].revision = turns[t].revision
<1>1. /\ FinalState(jobs[t]) \in TurnStates
      /\ jobs[t].delivery \in ProvenOutcomes => FinalState(jobs[t]) \in {"delivered", "delivery_failed"}
  BY DEF FinalState, TurnStates, ProvenOutcomes
<1>2. CASE CancelAtGate(t) \/ StartLlm(t) \/ CancelUnknownLlm(t) \/ RecordKnownFailure(t) \/ PrepareNotice(t)
           \/ RecordLlmCompleted(t) \/ ValidateOutput(t) \/ StartDelivery(t) \/ MoveToDeliveryUnknown(t)
  <2>1. PICK from \in TurnStates, to \in TurnStates, stage \in Stages :
          Move(t, from, to, stage) /\ stage \notin BarStages /\ to # "completed"
    BY <1>2 DEF CancelAtGate, StartLlm, CancelUnknownLlm, RecordKnownFailure, PrepareNotice, RecordLlmCompleted,
                ValidateOutput, StartDelivery, MoveToDeliveryUnknown, TurnStates, Stages, BarStages, AuditedStages
  <2> QED
    BY <2>1, MoveBars
<1>3. CASE MoveToProven(t)
  <2>1. /\ Move(t, "delivery_started", FinalState(jobs[t]), "checkpoint-load")
        /\ "delivery_started" \in TurnStates /\ "checkpoint-load" \in Stages /\ "checkpoint-load" \notin BarStages
    BY <1>3 DEF MoveToProven, TurnStates, Stages, BarStages, AuditedStages
  <2>2. FinalState(jobs[t]) # "completed"
    BY DEF FinalState
  <2> QED
    BY <1>1, <2>1, <2>2, MoveBars
<1>4. CASE CompleteAtGate(t) \/ CompleteKnownFailure(t)
  <2>1. PICK from \in {"cancelled", "llm_known_failed"} :
          /\ Move(t, from, "completed", "done") /\ Working(t)
          /\ StateAt(jobs[t].stage, jobs[t]) = from
    <3>1. /\ jobs[t].stage = "gate-complete" => StateAt(jobs[t].stage, jobs[t]) = "cancelled"
          /\ jobs[t].stage = "failed-complete" => StateAt(jobs[t].stage, jobs[t]) = "llm_known_failed"
      BY DEF StateAt, UnaskedStages, UnknownStages
    <3> QED
      BY <1>4, <3>1 DEF CompleteAtGate, CompleteKnownFailure, At, Working
  <2>2. held => turns[t].state = from /\ RowInv(t)
    BY <2>1, JobFacts
  <2>3. held => ~Uncertain(turns[t].facts)
    BY <2>2 DEF RowInv, Settled, SettledDeliveries, Uncertain, DeliveryStates, EndedDelivery
  <2>4. from \in TurnStates /\ "completed" \in TurnStates /\ "done" \in Stages /\ "done" \notin BarStages
    BY DEF TurnStates, Stages, BarStages, AuditedStages
  <2> QED
    BY <2>1, <2>3, <2>4, MoveBars DEF DoubtBars
<1>5. CASE CompleteTurn(t)
  <2>1. jobs[t].stage = "complete" /\ Move(t, FinalState(jobs[t]), "completed", "done")
    BY <1>5 DEF CompleteTurn, At
  <2>2. held => DoubtBars(turns[t], Barred)
    BY <2>1 DEF BarrierStory, JobBars
  <2>3. "completed" \in TurnStates /\ "done" \in Stages /\ "done" \notin BarStages
    BY DEF TurnStates, Stages, BarStages, AuditedStages
  <2> QED
    BY <1>1, <2>1, <2>2, <2>3, MoveBars
<1> QED
  BY <1>2, <1>3, <1>4, <1>5

LEMMA WritesBar ==
    ASSUME RuntimeInv, AuditStory, BarrierStory, NEW t \in Turns, OthersAlone,
           \/ RecordLlmUnknown(t) \/ RecordKnownFailureFacts(t) \/ RecordDeliveryUnknown(t)
           \/ RecordProvenDelivery(t) \/ RecordCheckpointSucceeded(t) \/ RecordCheckpointFailed(t)
           \/ RecordCompletionFacts(t)
    PROVE  BarrierStory'
<1> USE DEF At
<1>1. /\ DeliveryStatus(jobs[t]) \in DeliveryStatuses
      /\ DeliveryError(jobs[t]) \in FactErrorCodes \cup {None}
      /\ CompletionStatus(jobs[t]) \in AuditCompletionStatuses
      /\ jobs[t].checkpoint \in CheckpointStatuses
      /\ jobs[t].llm \in LlmCompletionOutcomes \cup {None}
  BY OwnStatuses DEF RuntimeInv, Typed
<1>2. /\ {"not_started", "outcome_unknown"} \subseteq DeliveryStatuses
      /\ {"not_required", "pending", "succeeded", "failed"} \subseteq CheckpointStatuses
      /\ {"not_started", "pending", "failed"} \subseteq AuditCompletionStatuses
      /\ "succeeded" \in AuditStartStatuses /\ "outcome-unknown" \in LlmCompletionOutcomes
      /\ {"LLM_OUTCOME_UNKNOWN", "DELIVERY_OUTCOME_UNKNOWN", "CONVERSATION_CHECKPOINT_FAILED"} \subseteq FactErrorCodes
  BY DEF DeliveryStatuses, CheckpointStatuses, AuditStartStatuses, AuditCompletionStatuses, FactErrorCodes,
         LlmCompletionOutcomes
<1>3. Working(t)
  BY DEF Working, RecordLlmUnknown, RecordKnownFailureFacts, RecordDeliveryUnknown, RecordProvenDelivery,
         RecordCheckpointSucceeded, RecordCheckpointFailed, RecordCompletionFacts
<1>4. CASE RecordLlmUnknown(t) \/ RecordKnownFailureFacts(t) \/ RecordDeliveryUnknown(t) \/ RecordProvenDelivery(t)
           \/ RecordCheckpointFailed(t)
  <2>1. PICK facts \in Facts, stage \in Stages : WriteFacts(t, facts, stage) /\ stage \notin BarStages
    <3>1. CASE RecordLlmUnknown(t)
      <4>1. UnknownLlmFacts \in Facts
        BY <1>1, <1>2, OwnFacts DEF UnknownLlmFacts
      <4> QED
        BY <3>1, <4>1 DEF RecordLlmUnknown, Stages, BarStages, AuditedStages
    <3>2. CASE RecordKnownFailureFacts(t)
      <4> DEFINE facts == FactsOf(jobs[t].llm, "not_started", "not_required", "succeeded", "not_started", None)
      <4>1. facts \in Facts
        BY <1>1, <1>2, OwnFacts
      <4>2. \E stage \in {"failed-complete", "notice"} : WriteFacts(t, facts, stage)
        BY <3>2 DEF RecordKnownFailureFacts
      <4> HIDE DEF facts
      <4> QED
        BY <4>1, <4>2 DEF Stages, BarStages, AuditedStages
    <3>3. CASE RecordDeliveryUnknown(t)
      <4> DEFINE facts == FactsOf(jobs[t].llm, "outcome_unknown", "failed", "succeeded", "failed",
                                  "DELIVERY_OUTCOME_UNKNOWN")
      <4>1. facts \in Facts
        BY <1>1, <1>2, OwnFacts
      <4>2. WriteFacts(t, facts, "unknown-move")
        BY <3>3 DEF RecordDeliveryUnknown
      <4> HIDE DEF facts
      <4> QED
        BY <4>1, <4>2 DEF Stages, BarStages, AuditedStages
    <3>4. CASE RecordProvenDelivery(t)
      <4> DEFINE facts == FactsOf(jobs[t].llm, DeliveryStatus(jobs[t]), "pending", "succeeded", "pending",
                                  DeliveryError(jobs[t]))
      <4>1. facts \in Facts
        BY <1>1, <1>2, OwnFacts
      <4>2. WriteFacts(t, facts, "delivery-move")
        BY <3>4 DEF RecordProvenDelivery
      <4> HIDE DEF facts
      <4> QED
        BY <4>1, <4>2 DEF Stages, BarStages, AuditedStages
    <3>5. CASE RecordCheckpointFailed(t)
      <4> DEFINE facts == FactsOf(jobs[t].llm, DeliveryStatus(jobs[t]), "failed", "succeeded", "pending",
                                  "CONVERSATION_CHECKPOINT_FAILED")
      <4>1. facts \in Facts
        BY <1>1, <1>2, OwnFacts
      <4>2. WriteFacts(t, facts, "barrier-load")
        BY <3>5 DEF RecordCheckpointFailed
      <4> HIDE DEF facts
      <4> QED
        BY <4>1, <4>2 DEF Stages, BarStages, AuditedStages
    <3> QED
      BY <1>4, <3>1, <3>2, <3>3, <3>4, <3>5
  <2> QED
    BY <1>3, <2>1, FactsBar DEF BarStages
<1>5. CASE RecordCheckpointSucceeded(t)
  <2> DEFINE facts == FactsOf(jobs[t].llm, DeliveryStatus(jobs[t]), "succeeded", "succeeded", "pending",
                              DeliveryError(jobs[t]))
  <2>1. facts \in Facts
    BY <1>1, <1>2, OwnFacts
  <2>2. WriteFacts(t, facts, "audit-completion") /\ jobs[t].stage = "checkpoint-fact"
    BY <1>5 DEF RecordCheckpointSucceeded
  <2> HIDE DEF facts
  <2>3. jobs[t].checkpoint # "failed"
    BY <2>2, StoryFacts DEF JobTold
  <2>4. "audit-completion" \in Stages
    BY DEF Stages
  <2> QED
    BY <1>3, <2>1, <2>2, <2>3, <2>4, FactsBar
<1>6. CASE RecordCompletionFacts(t)
  <2> DEFINE facts == FactsOf(jobs[t].llm, DeliveryStatus(jobs[t]), jobs[t].checkpoint, "succeeded",
                              CompletionStatus(jobs[t]),
                              IF jobs[t].checkpoint = "failed"
                              THEN "CONVERSATION_CHECKPOINT_FAILED"
                              ELSE DeliveryError(jobs[t]))
  <2>1. facts \in Facts
    BY <1>1, <1>2, OwnFacts
  <2>2. Uncertain(facts) => jobs[t].checkpoint = "failed"
    BY DEF Uncertain, FactsOf, DeliveryStatus
  <2>3. WriteFacts(t, facts, "complete") /\ jobs[t].stage = "completion-fact"
    BY <1>6 DEF RecordCompletionFacts
  <2> HIDE DEF facts
  <2>4. Uncertain(facts) => Home(t) \in Barred
    BY <2>2, <2>3 DEF BarrierStory, JobBars, AuditedStages, Home
  <2>5. "complete" \in Stages /\ "complete" \notin AuditedStages
    BY DEF Stages, AuditedStages
  <2> QED
    BY <1>3, <2>1, <2>3, <2>4, <2>5, FactsBar
<1> QED
  BY <1>4, <1>5, <1>6

\* A step of a job that writes no row: its turn has a home, wherever its calls go.
LEMMA QuietBars ==
    ASSUME RuntimeInv, DispatchStory, BarrierStory, NEW t \in Turns, OthersAlone, NEW job, Only(t, job),
           UNCHANGED turns, \A u \in Turns : u # t => effects'[u] = effects[u],
           UNCHANGED effects \/ Begun(t), Barred \subseteq Barred', ConversationsBar',
           JobBars(job, turns[t], Barred')
    PROVE  BarrierStory'
<1>1. jobs'[t] = job /\ jobs' = [jobs EXCEPT ![t] = jobs'[t]]
  BY DEF Only, RuntimeInv, Typed
<1>2. HomesBar'
  BY DEF BarrierStory, HomesBar, DispatchStory, RunnerStory, Home
<1> QED
  BY <1>1, <1>2, StillBars, JobBarsStep DEF OthersAlone

\* The steps to a stage no barrier speaks of.
LEMMA DullBars ==
    ASSUME RuntimeInv, DispatchStory, BarrierStory, NEW t \in Turns, OthersAlone, NEW job, Only(t, job),
           UNCHANGED turns, \A u \in Turns : u # t => effects'[u] = effects[u],
           UNCHANGED effects \/ Begun(t), UNCHANGED conversationVars, job.stage \notin BarStages
    PROVE  BarrierStory'
  BY NoBars, SameConversations, QuietBars DEF BarrierStory

LEMMA LocalStepsBar ==
    ASSUME RuntimeInv, DispatchStory, BarrierStory, NEW t \in Turns, OthersAlone,
           \/ ReadKillSwitch(t) \/ RecordAuditStart(t) \/ EvaluateGate(t) \/ InvokeLlm(t)
           \/ \E result \in OfferedLlmResults : LlmSettles(t, result)
           \/ PutOutput(t) \/ InvokeDelivery(t)
           \/ \E result \in DeliveryOutcomes \cup {"error"} : DeliverySettles(t, result)
           \/ RecordOutboxOutcome(t) \/ RecordOutboxUnknown(t)
           \/ LoadForCheckpoint(t) \/ LoadForBarrier(t) \/ PhaseFails(t) \/ Deadline(t)
    PROVE  BarrierStory'
<1> USE DEF At, BarStages, AuditedStages
<1>1. JobTyped(jobs[t]) /\ DOMAIN jobs = Turns /\ DOMAIN effects = Turns
  BY DEF RuntimeInv, Typed
<1>2. UNCHANGED turns /\ UNCHANGED conversationVars
  BY DEF ReadKillSwitch, RecordAuditStart, EvaluateGate, InvokeLlm, LlmSettles, PutOutput, InvokeDelivery,
     DeliverySettles, RecordOutboxOutcome, RecordOutboxUnknown, LoadForBarrier, LoadForCheckpoint, PhaseFails,
     Deadline, AuditCall, OutboxCall, storeVars, ledgerVars
<1>3. /\ \A u \in Turns : u # t => effects'[u] = effects[u]
      /\ UNCHANGED effects \/ Begun(t)
  <2>1. CASE InvokeLlm(t) \/ InvokeDelivery(t) \/ \E result \in DeliveryOutcomes \cup {"error"} : DeliverySettles(t, result)
    BY <1>1, <2>1 DEF InvokeLlm, InvokeDelivery, DeliverySettles, Begun
  <2>2. CASE ~(InvokeLlm(t) \/ InvokeDelivery(t) \/ \E result \in DeliveryOutcomes \cup {"error"} : DeliverySettles(t, result))
    BY <2>2 DEF ReadKillSwitch, RecordAuditStart, EvaluateGate, LlmSettles, PutOutput, RecordOutboxOutcome,
       RecordOutboxUnknown, LoadForBarrier, LoadForCheckpoint, PhaseFails, Deadline, AuditCall, OutboxCall, NoEffect
  <2> QED
    BY <2>1, <2>2
<1>6. \A stage : [jobs[t] EXCEPT !.stage = stage].stage = stage
  BY <1>1 DEF JobTyped
<1>7. \A kind, stage : AfterRecord(jobs[t], kind, stage).stage \in {stage, "error"}
  BY <1>1 DEF AfterRecord, JobTyped
<1>8. /\ LlmUnknown(jobs[t]).stage = "llm-unknown" /\ DeliveryUnknown(jobs[t]).stage = "delivery-unknown"
      /\ CheckpointFailed(jobs[t]).stage = "checkpoint-failed"
      /\ \A result : LlmRoute(jobs[t], result).stage \in {"llm-complete", "failed-move", "llm-unknown"}
      /\ \A result : [jobs[t] EXCEPT !.stage = "outbox-outcome", !.delivery = result].stage = "outbox-outcome"
      /\ \A c : AfterBarrierLoad(jobs[t], c).stage = "barrier-write"
      /\ \A loaded : [jobs[t] EXCEPT !.stage = "checkpoint-write", !.loaded = loaded].stage = "checkpoint-write"
      /\ [jobs[t] EXCEPT !.aborted = TRUE].stage = jobs[t].stage
  BY <1>1 DEF LlmUnknown, DeliveryUnknown, CheckpointFailed, LlmRoute, AfterBarrierLoad, JobTyped
<1>9. \E job : Only(t, job) /\ job.stage \notin BarStages
  <2>0. ASSUME NEW stage, stage \notin BarStages, Goto(t, stage)
        PROVE  \E job : Only(t, job) /\ job.stage \notin BarStages
    <3> DEFINE job == [jobs[t] EXCEPT !.stage = stage]
    <3>1. Only(t, job) /\ job.stage = stage
      BY <1>6, <2>0 DEF Goto
    <3> HIDE DEF job
    <3> QED
      BY <2>0, <3>1
  <2>1. CASE ReadKillSwitch(t) \/ PutOutput(t) \/ EvaluateGate(t)
    <3>1. PICK stage \in {"audit-start", "delivery-start", "llm-start", "gate-cancel"} : Goto(t, stage)
      BY <2>1 DEF ReadKillSwitch, PutOutput, EvaluateGate
    <3> QED
      BY <2>0, <3>1
  <2>2. CASE RecordAuditStart(t)
    BY <1>7, <2>2 DEF RecordAuditStart
  <2>3. CASE InvokeLlm(t) \/ InvokeDelivery(t)
    <3>1. \E stage \in {"llm-wait", "delivery-wait"} :
            \/ Only(t, [jobs[t] EXCEPT !.stage = stage])
            \/ Only(t, LlmUnknown(jobs[t])) \/ Only(t, DeliveryUnknown(jobs[t]))
      BY <2>3 DEF InvokeLlm, InvokeDelivery, Goto
    <3> QED
      BY <1>6, <1>8, <3>1
  <2>4. ASSUME NEW result, LlmSettles(t, result) \/ DeliverySettles(t, result)
        PROVE  \E job : Only(t, job) /\ job.stage \notin BarStages
    BY <1>8, <2>4 DEF LlmSettles, DeliverySettles
  <2>5. CASE RecordOutboxOutcome(t) \/ RecordOutboxUnknown(t)
    BY <1>7, <2>5 DEF RecordOutboxOutcome, RecordOutboxUnknown
  <2>6. CASE LoadForBarrier(t) \/ LoadForCheckpoint(t)
    BY <1>8, <2>6 DEF LoadForBarrier, LoadForCheckpoint
  <2>7. CASE Deadline(t)
    <3>1. jobs[t].stage \notin BarStages
      BY <2>7 DEF Deadline, AbortableStages
    <3> QED
      BY <1>8, <2>7, <3>1 DEF Deadline
  <2>8. CASE PhaseFails(t)
    <3> DEFINE stopped == [jobs[t] EXCEPT !.stage = "error"]
    <3>1. Only(t, CheckpointFailed(jobs[t])) \/ Only(t, stopped)
      BY <2>8 DEF PhaseFails
    <3>2. stopped.stage = "error"
      BY <1>6
    <3> HIDE DEF stopped
    <3> QED
      BY <1>8, <3>1, <3>2
  <2> QED
    BY <2>1, <2>2, <2>3, <2>4, <2>5, <2>6, <2>7, <2>8
<1> QED
  BY <1>2, <1>3, <1>9, DullBars

\* The writes of a snapshot, and of the completion event.
LEMMA SnapshotStepsBar ==
    ASSUME RuntimeInv, DispatchStory, OrderStory, BarrierStory, NEW t \in Turns, OthersAlone,
           WriteCheckpoint(t) \/ WriteBarrier(t) \/ RecordAuditCompletion(t)
    PROVE  BarrierStory'
<1> USE DEF At
<1>1. /\ JobTyped(jobs[t]) /\ DOMAIN snapshots = Conversations /\ \A d \in Conversations : SnapshotShaped(snapshots[d])
      /\ Home(t) \in Conversations /\ ConversationsBar
  BY DEF RuntimeInv, Typed, DispatchStory, GateStory, RunnerStory, Begun, OrderStory, WorkStory, ContextStory,
         WriteCheckpoint, WriteBarrier, RecordAuditCompletion, BarrierStory
<1>2. UNCHANGED <<turns, effects>>
  BY DEF WriteCheckpoint, WriteBarrier, RecordAuditCompletion, ConversationCall, AuditCall, NoEffect, ledgerVars
<1>3. CASE WriteCheckpoint(t)
  <2>1. PICK key, revision, next : Checkpoint(Home(t), key, revision, next)
    BY <1>3 DEF WriteCheckpoint
  <2>2. Barred \subseteq Barred' /\ ConversationsBar'
    BY <1>1, <2>1, CheckpointBars
  <2>3. PICK job : Only(t, job) /\ job.stage \in {"checkpoint-fact", "checkpoint-failed"}
    <3>1. [jobs[t] EXCEPT !.stage = "checkpoint-fact", !.checkpoint = "succeeded"].stage = "checkpoint-fact"
      BY <1>1 DEF JobTyped
    <3>2. CheckpointFailed(jobs[t]).stage = "checkpoint-failed"
      BY <1>1 DEF CheckpointFailed, JobTyped
    <3> QED
      BY <1>3, <3>1, <3>2 DEF WriteCheckpoint
  <2>4. JobBars(job, turns[t], Barred')
    BY <2>3, NoBars DEF BarStages, AuditedStages
  <2> QED
    BY <1>2, <2>2, <2>3, <2>4, QuietBars
<1>4. CASE WriteBarrier(t)
  <2> DEFINE key == <<BarrierReason(jobs[t]), t>>
             kind == BarrierOutcome(Home(t), key, jobs[t].loaded.revision)
             after == IF jobs[t].checkpoint = "failed" THEN "audit-completion" ELSE "complete"
             job == AfterBarrierWrite(jobs[t], kind, after)
  <2>1. RecordCheckpointBarrier(Home(t), key, jobs[t].loaded.revision) /\ Only(t, job)
    BY <1>4 DEF WriteBarrier
  <2>2. job.stage \in {"barrier-load", "error"} \/ (kind \in {"recorded", "already-recorded"} /\ job.stage = after)
    BY <1>1 DEF AfterBarrierWrite, JobTyped
  <2> HIDE DEF job
  <2>3. /\ Barred \subseteq Barred' /\ ConversationsBar'
        /\ kind \in {"recorded", "already-recorded"} => Home(t) \in Barred'
    BY <1>1, <2>1, BarrierBars
  <2>4. JobBars(job, turns[t], Barred')
    <3>1. CASE kind \in {"recorded", "already-recorded"}
      BY <2>3, <3>1 DEF JobBars, DoubtBars, Home
    <3>2. CASE job.stage \in {"barrier-load", "error"}
      BY <3>2, NoBars DEF BarStages, AuditedStages
    <3> QED
      BY <2>2, <3>1, <3>2
  <2> QED
    BY <1>2, <2>1, <2>3, <2>4, QuietBars
<1>5. CASE RecordAuditCompletion(t)
  <2> DEFINE kind == RecordCompletionKind(t, CompletionEvent(jobs[t]))
             job == AfterRecord(jobs[t], kind, "completion-fact")
  <2>1. /\ jobs[t].stage = "audit-completion" /\ Only(t, job)
        /\ UNCHANGED conversationVars
    BY <1>5 DEF RecordAuditCompletion, AuditCall
  <2>2. job.stage \in {"completion-fact", "error"} /\ job.checkpoint = jobs[t].checkpoint
    BY <1>1 DEF AfterRecord, JobTyped
  <2> HIDE DEF job
  <2>3. Barred \subseteq Barred' /\ ConversationsBar'
    BY <1>1, <2>1, SameConversations
  <2>4. JobBars(job, turns[t], Barred')
    BY <2>1, <2>2, <2>3 DEF BarrierStory, JobBars, AuditedStages
  <2> QED
    BY <1>2, <2>1, <2>3, <2>4, QuietBars
<1> QED
  BY <1>3, <1>4, <1>5

LEMMA JobsBar ==
    ASSUME RuntimeInv, AuditStory, DispatchStory, OrderStory, BarrierStory, NEW t \in Turns, JobStep(t)
    PROVE  BarrierStory'
<1>1. OthersAlone
  BY DEF JobStep, OthersAlone
<1>2. CASE TextTurnStep(t)
  BY <1>1, <1>2, MovesBar, WritesBar, LocalStepsBar, SnapshotStepsBar DEF TextTurnStep
<1>3. CASE PhaseFails(t) \/ Deadline(t)
  BY <1>1, <1>3, LocalStepsBar
<1> QED
  BY <1>2, <1>3 DEF JobStep

\* What the barriers ask of the candidate, of the parts it changes.
FitsBars(stage, at, delivery, checkpoint, held, row, barred) ==
    /\ stage \notin {"cancel", "complete"} => recovery.row.state # "observed"
    /\ stage \in {"delivery-move", "assess"} /\ held => row.facts.checkpoint = checkpoint
    /\ stage \in {"reconcile", "completion-fact"} =>
         \/ row.conversation \in barred
         \/ /\ checkpoint = "succeeded" /\ delivery # "outcome_unknown"
            /\ held => ~Uncertain(row.facts)
    /\ stage = "complete" /\ at \in EndedDelivery /\ held => DoubtBars(row, barred)

LEMMA CandidateBarsAs ==
    ASSUME NEW local, NEW row, NEW barred, local.row = recovery.row, ListedHome(recovery.row, row)
    PROVE  CandidateBars(local, row, barred) <=>
             FitsBars(local.stage, local.at, local.delivery, local.checkpoint, local.revision = row.revision, row, barred)
  BY DEF CandidateBars, FitsBars

LEMMA CandidateFits ==
    ASSUME BarrierStory, AtCandidate, NEW t \in Turns, t = Candidate
    PROVE  /\ ListedHome(recovery.row, turns[t])
           /\ FitsBars(recovery.stage, recovery.at, recovery.delivery, recovery.checkpoint,
                       recovery.revision = turns[t].revision, turns[t], Barred)
  BY CandidateBarsAs DEF BarrierStory, CandidateBars

\* A step of recovery that leaves its candidate at a stage.
LEMMA RecoveryGoesBars ==
    ASSUME RuntimeInv, BarrierStory, AtCandidate, NEW t \in Turns, t = Candidate, BarStep(t), UNCHANGED jobs,
           NEW stage, NEW revision, NEW at, NEW delivery, NEW checkpoint,
           Recovered(recovery', recovery, stage, revision, at, delivery, checkpoint),
           stage \notin {"pick", "error"} =>
             FitsBars(stage, at, delivery, checkpoint, revision = turns'[t].revision, turns'[t], Barred')
    PROVE  BarrierStory'
<1>1. /\ recovery'.rows = recovery.rows /\ recovery'.turn = t /\ recovery'.row = recovery.row
      /\ recovery'.stage = stage /\ recovery'.revision = revision /\ recovery'.at = at
      /\ recovery'.delivery = delivery /\ recovery'.checkpoint = checkpoint
  BY DEF Recovered, Candidate
<1>2. ListedHome(recovery.row, turns'[t])
  BY CandidateFits DEF BarStep, ListedHome, RowHolds
<1>3. ASSUME AtCandidate'
      PROVE  CandidateBars(recovery', turns'[t], Barred')
  <2>1. stage \notin {"pick", "error"}
    BY <1>1, <1>3, StaleCandidate
  <2>2. CandidateBars(recovery', turns'[t], Barred') <=>
          FitsBars(recovery'.stage, recovery'.at, recovery'.delivery, recovery'.checkpoint,
                   recovery'.revision = turns'[t].revision, turns'[t], Barred')
    BY <1>1, <1>2, CandidateBarsAs
  <2> QED
    BY <1>1, <2>1, <2>2
<1> QED
  BY <1>1, <1>3, RecoveryBarsStep

\* A move of the candidate, and facts that are written of it.
LEMMA RecoveryMoveBars ==
    ASSUME RuntimeInv, BarrierStory, AtCandidate, WorkAlone, NEW t \in Turns, t = Candidate,
           NEW from \in TurnStates, NEW to \in TurnStates, NEW stage \in RecoveryStages, RecoveryMove(from, to, stage),
           recovery.revision = turns[t].revision /\ to = "completed" /\ to \in LegalTransitions[turns[t].state] =>
             DoubtBars(turns[t], Barred),
           stage \notin {"cancel", "complete", "pick"} => recovery.row.state # "observed",
           stage = "assess" => recovery.stage = "delivery-move",
           stage \notin {"delivery-move", "reconcile", "completion-fact"},
           stage = "complete" => to \notin EndedDelivery
    PROVE  BarrierStory'
<1> DEFINE kind == TransitionOutcome(t, recovery.revision, from, to)
           held == recovery.revision = turns[t].revision
<1>1. /\ Typed /\ turns[t].revision \in Nat /\ recovery.revision \in Nat /\ RecoveryRecord(recovery)
  BY CandidateFacts
<1>2. /\ Transition(t, recovery.revision, from, to)
      /\ recovery' = [AfterLedger(recovery, kind, stage) EXCEPT !.at = to]
      /\ UNCHANGED <<conversationVars, effects, jobs>>
  BY DEF RecoveryMove, LedgerCall, NoEffect, WorkAlone
<1> HIDE DEF kind
<1>3. \/ /\ kind = "transitioned" /\ turns[t].revision = recovery.revision /\ turns[t].state = from
         /\ to \in LegalTransitions[from] /\ RowMoved(t, to)
      \/ kind = "already-transitioned" /\ turns[t].state = to /\ turns' = turns
      \/ /\ kind \notin {"transitioned", "already-transitioned", "recorded", "already-recorded"}
         /\ turns' = turns
  BY <1>1, <1>2, TransitionEffect DEF kind
<1>4. /\ kind = "transitioned" => Recovered(recovery', recovery, stage, recovery.revision + 1, to,
                                            recovery.delivery, recovery.checkpoint)
      /\ kind = "already-transitioned" => Recovered(recovery', recovery, stage, recovery.revision, to,
                                                    recovery.delivery, recovery.checkpoint)
      /\ kind \notin {"transitioned", "already-transitioned"} =>
           Recovered(recovery', recovery, "error", recovery.revision, to, recovery.delivery, recovery.checkpoint)
  BY <1>1, <1>2, <1>3, RecoveryLeftBy
<1>5. PlacesStay
  BY <1>1, <1>2, MovesKeepPlaces
<1>6. BarStep(t)
  BY <1>2, <1>3, <1>5, MovedBars, StillBars, LedgerBars
<1>7. stage = "assess" /\ held => turns[t].facts.checkpoint = recovery.checkpoint
  BY CandidateFits DEF FitsBars
<1>8. CASE kind = "transitioned"
  <2>1. turns'[t].facts = turns[t].facts /\ held
    BY <1>3, <1>8 DEF RowMoved
  <2>2. stage # "pick" =>
          FitsBars(stage, to, recovery.delivery, recovery.checkpoint, recovery.revision + 1 = turns'[t].revision,
                   turns'[t], Barred')
    BY <1>7, <2>1 DEF FitsBars
  <2> QED
    BY <1>2, <1>4, <1>6, <1>8, <2>2, RecoveryGoesBars
<1>9. CASE kind = "already-transitioned"
  <2>1. stage # "pick" =>
          FitsBars(stage, to, recovery.delivery, recovery.checkpoint, recovery.revision = turns'[t].revision,
                   turns'[t], Barred')
    BY <1>3, <1>7, <1>9 DEF FitsBars
  <2> QED
    BY <1>2, <1>4, <1>6, <1>9, <2>1, RecoveryGoesBars
<1>10. CASE kind \notin {"transitioned", "already-transitioned", "recorded", "already-recorded"}
  BY <1>2, <1>4, <1>6, <1>10, RecoveryGoesBars
<1> QED
  BY <1>3, <1>8, <1>9, <1>10

LEMMA RecoveryFactsBar ==
    ASSUME RuntimeInv, BarrierStory, AtCandidate, WorkAlone, NEW t \in Turns, t = Candidate,
           NEW facts \in Facts, NEW stage \in RecoveryStages, RecoveryFacts(facts, stage),
           stage \notin {"cancel", "complete"} => recovery.row.state # "observed",
           stage = "delivery-move" => facts.checkpoint = recovery.checkpoint,
           stage \notin {"assess", "reconcile", "completion-fact"},
           stage = "complete" /\ Uncertain(facts) => turns[t].conversation \in Barred
    PROVE  BarrierStory'
<1> DEFINE kind == RecordFactualOutcomeKind(t, recovery.revision, facts)
<1>1. /\ Typed /\ turns[t].revision \in Nat /\ recovery.revision + 1 \in Nat /\ RecoveryRecord(recovery)
      /\ "error" \in RecoveryStages /\ recovery.at # "completed"
      /\ recovery.revision = turns[t].revision => turns[t].state = recovery.at
  BY CandidateFacts DEF RecoveryStages
<1>2. /\ RecordFactualOutcome(t, recovery.revision, facts)
      /\ recovery' = AfterLedger(recovery, kind, stage)
      /\ UNCHANGED <<conversationVars, effects, jobs>>
  BY DEF RecoveryFacts, LedgerCall, NoEffect, WorkAlone
<1> HIDE DEF kind
<1>3. \/ /\ kind = "recorded" /\ turns[t].revision = recovery.revision /\ RowTold(t, facts)
      \/ /\ kind = "already-recorded" /\ turns[t].facts = facts /\ turns' = turns
      \/ /\ kind \notin {"transitioned", "already-transitioned", "recorded", "already-recorded"}
         /\ turns' = turns
  BY <1>1, <1>2, FactsEffect DEF kind
<1>4. /\ kind = "recorded" => Recovered(recovery', recovery, stage, recovery.revision + 1, recovery.at,
                                        recovery.delivery, recovery.checkpoint)
      /\ kind = "already-recorded" => Recovered(recovery', recovery, stage, recovery.revision, recovery.at,
                                                recovery.delivery, recovery.checkpoint)
      /\ kind \notin {"transitioned", "already-transitioned", "recorded", "already-recorded"} =>
           Recovered(recovery', recovery, "error", recovery.revision, recovery.at, recovery.delivery,
                     recovery.checkpoint)
  BY <1>1, <1>2, RecoveryUpdates DEF AfterLedger, RecoveryTo
<1>5. PlacesStay
  BY <1>1, <1>2, FactsKeepPlaces
<1>6. BarStep(t)
  BY <1>1, <1>2, <1>3, <1>5, ToldBars, StillBars, LedgerBars
<1>7. ASSUME NEW held \in BOOLEAN, kind \in {"recorded", "already-recorded"}
      PROVE  FitsBars(stage, recovery.at, recovery.delivery, recovery.checkpoint, held, turns'[t], Barred')
  <2>1. turns'[t].facts = facts
    BY <1>3, <1>7 DEF RowTold
  <2>2. turns'[t].conversation = turns[t].conversation /\ Barred \subseteq Barred'
    BY <1>5, <1>6 DEF PlacesStay, BarStep
  <2> QED
    BY <2>1, <2>2 DEF FitsBars, DoubtBars
<1>8. CASE kind = "recorded"
  BY <1>2, <1>4, <1>6, <1>7, <1>8, RecoveryGoesBars
<1>9. CASE kind = "already-recorded"
  BY <1>2, <1>4, <1>6, <1>7, <1>9, RecoveryGoesBars
<1>10. CASE kind \notin {"transitioned", "already-transitioned", "recorded", "already-recorded"}
  BY <1>2, <1>4, <1>6, <1>10, RecoveryGoesBars
<1> QED
  BY <1>3, <1>8, <1>9, <1>10

LEMMA RecoveryMovesBar ==
    ASSUME RuntimeInv, BarrierStory, WorkAlone,
           CancelCandidate \/ CompleteCandidate \/ RecoverLlmCancel \/ RecoverDeliveryMove
    PROVE  BarrierStory'
<1> USE DEF Recovering
<1>1. AtCandidate
  BY DEF CancelCandidate, CompleteCandidate, RecoverLlmCancel, RecoverDeliveryMove, AtCandidate
<1>2. PICK t \in Turns : t = Candidate
  BY <1>1, CandidateFacts
<1> DEFINE row == turns[t]
           held == recovery.revision = row.revision
<1>3. /\ recovery.at \in TurnStates \ {"completed"} /\ (held => row.state = recovery.at) /\ RowInv(t)
      /\ FitsBars(recovery.stage, recovery.at, recovery.delivery, recovery.checkpoint, held, row, Barred)
  BY <1>1, <1>2, CandidateFacts, CandidateFits
<1>4. CASE CancelCandidate
  <2>1. /\ RecoveryMove(recovery.at, "cancelled", "complete") /\ "cancelled" \in TurnStates
        /\ "complete" \in RecoveryStages /\ "cancelled" \notin EndedDelivery
    BY <1>4 DEF CancelCandidate, TurnStates, RecoveryStages, EndedDelivery
  <2> QED
    BY <1>1, <1>2, <1>3, <2>1, RecoveryMoveBars
<1>5. CASE CompleteCandidate
  <2>1. /\ RecoveryMove(recovery.at, "completed", "pick") /\ "completed" \in TurnStates
        /\ "pick" \in RecoveryStages /\ recovery.stage = "complete"
    BY <1>5 DEF CompleteCandidate, TurnStates, RecoveryStages
  <2>2. ASSUME held, "completed" \in LegalTransitions[row.state]
        PROVE  DoubtBars(row, Barred)
    <3>1. Uncertain(row.facts) => row.state \in DeliveryStates \cup {"completed"}
      BY <1>3 DEF RowInv, Settled, SettledDeliveries, Uncertain
    <3>2. Uncertain(row.facts) => recovery.at \in EndedDelivery
      BY <1>3, <2>2, <3>1, DeliveryMoves DEF DeliveryStates
    <3> QED
      BY <1>3, <2>1, <2>2, <3>2 DEF FitsBars, DoubtBars
  <2> QED
    BY <1>1, <1>2, <1>3, <2>1, <2>2, RecoveryMoveBars
<1>6. CASE RecoverLlmCancel
  <2>1. /\ RecoveryMove("llm_started", "cancelled", "barrier-load") /\ recovery.stage = "llm-cancel"
        /\ "llm_started" \in TurnStates /\ "cancelled" \in TurnStates /\ "barrier-load" \in RecoveryStages
    BY <1>6 DEF RecoverLlmCancel, TurnStates, RecoveryStages
  <2>2. recovery.row.state # "observed"
    BY <1>3, <2>1 DEF FitsBars
  <2> QED
    BY <1>1, <1>2, <2>1, <2>2, RecoveryMoveBars
<1>7. CASE RecoverDeliveryMove
  <2> DEFINE to == CASE recovery.delivery = "delivered" -> "delivered"
                     [] recovery.delivery = "failed" -> "delivery_failed"
                     [] OTHER -> "delivery_outcome_unknown"
  <2>1. /\ RecoveryMove("delivery_started", to, "assess") /\ recovery.stage = "delivery-move"
        /\ "delivery_started" \in TurnStates /\ "assess" \in RecoveryStages
    BY <1>7 DEF RecoverDeliveryMove, TurnStates, RecoveryStages
  <2>2. to \in TurnStates /\ to # "completed"
    BY DEF TurnStates
  <2> HIDE DEF to
  <2>3. recovery.row.state # "observed"
    BY <1>3, <2>1 DEF FitsBars
  <2> QED
    BY <1>1, <1>2, <2>1, <2>2, <2>3, RecoveryMoveBars
<1> QED
  BY <1>4, <1>5, <1>6, <1>7

LEMMA RecoveryWritesBar ==
    ASSUME RuntimeInv, BarrierStory, WorkAlone,
           RecoverLlmFacts \/ RecoverDeliveryFacts \/ ReconcileFailed \/ ReconcileFacts
    PROVE  BarrierStory'
<1> USE DEF Recovering
<1>1. AtCandidate
  BY DEF RecoverLlmFacts, RecoverDeliveryFacts, ReconcileFailed, ReconcileFacts, AtCandidate
<1>2. PICK t \in Turns : t = Candidate
  BY <1>1, CandidateFacts
<1> DEFINE held == recovery.revision = turns[t].revision
<1>3. /\ FitsBars(recovery.stage, recovery.at, recovery.delivery, recovery.checkpoint, held, turns[t], Barred)
      /\ recovery.delivery \in SettledDeliveries \cup {None} /\ recovery.checkpoint \in CheckpointStatuses
  BY <1>1, <1>2, CandidateFacts, CandidateFits
<1>4. recovery.stage \notin {"cancel", "complete"} => recovery.row.state # "observed"
  BY <1>3 DEF FitsBars
<1>5. CASE RecoverLlmFacts
  <2> DEFINE facts == FactsOf("outcome-unknown", "not_started", "failed", recovery.row.facts.auditStart,
                              recovery.row.facts.auditCompletion, "LLM_OUTCOME_UNKNOWN")
  <2>1. RecoveryFacts(facts, "llm-cancel") /\ recovery.stage = "llm-fact" /\ "llm-cancel" \in RecoveryStages
    BY <1>5 DEF RecoverLlmFacts, RecoveryStages
  <2>2. facts \in Facts
    BY <1>1, CandidateRow, OwnFacts DEF LlmCompletionOutcomes, DeliveryStatuses, CheckpointStatuses, FactErrorCodes
  <2> HIDE DEF facts
  <2> QED
    BY <1>1, <1>2, <1>4, <2>1, <2>2, RecoveryFactsBar
<1>6. CASE RecoverDeliveryFacts
  <2> DEFINE error == CASE recovery.delivery = "delivered" -> None
                        [] recovery.delivery = "failed" -> "DELIVERY_FAILED"
                        [] OTHER -> "DELIVERY_OUTCOME_UNKNOWN"
             facts == FactsOf(None, recovery.delivery, recovery.checkpoint, recovery.row.facts.auditStart,
                              recovery.row.facts.auditCompletion, error)
  <2>1. RecoveryFacts(facts, "delivery-move") /\ recovery.stage = "delivery-fact" /\ "delivery-move" \in RecoveryStages
    BY <1>6 DEF RecoverDeliveryFacts, RecoveryStages
  <2>2. error \in FactErrorCodes \cup {None} /\ recovery.delivery \in SettledDeliveries
    BY <1>1, <2>1, CandidateFacts DEF FactErrorCodes
  <2>3. facts.checkpoint = recovery.checkpoint
    BY DEF FactsOf
  <2> HIDE DEF error
  <2>4. facts \in Facts
    BY <1>1, <2>2, CandidateRow, CandidateFacts, OwnFacts DEF DeliveryStatuses, SettledDeliveries
  <2> HIDE DEF facts
  <2> QED
    BY <1>1, <1>2, <1>4, <2>1, <2>3, <2>4, RecoveryFactsBar
<1>7. CASE ReconcileFailed \/ ReconcileFacts
  <2>1. PICK completion \in AuditCompletionStatuses, error \in FactErrorCodes \cup {None} :
          RecoveryFacts(RecoveredFacts(completion, error), "complete")
    <3>1. CASE ReconcileFailed
      BY <3>1 DEF ReconcileFailed, AuditCompletionStatuses, FactErrorCodes
    <3>2. CASE ReconcileFacts
      <4>1. RecoveredCompletion \in AuditCompletionStatuses
        BY DEF RecoveredCompletion, AuditCompletionStatuses
      <4> QED
        BY <3>2, <4>1 DEF ReconcileFacts, FactErrorCodes
    <3> QED
      BY <1>7, <3>1, <3>2
  <2> DEFINE facts == RecoveredFacts(completion, error)
  <2>2. recovery.stage \in {"reconcile", "completion-fact"} /\ recovery.delivery \in SettledDeliveries
    BY <1>1, <1>7, CandidateFacts DEF ReconcileFailed, ReconcileFacts
  <2>3. facts.delivery = recovery.delivery /\ facts.checkpoint = recovery.checkpoint
    BY DEF RecoveredFacts, FactsOf
  <2>4. facts \in Facts
    BY <1>1, <2>2, CandidateRow, CandidateFacts, OwnFacts
       DEF DeliveryStatuses, AuditStartStatuses, RecoveredFacts, SettledDeliveries
  <2>5. RecoveryFacts(facts, "complete") /\ "complete" \in RecoveryStages
    BY <2>1 DEF RecoveryStages
  <2> HIDE DEF facts
  <2>6. Uncertain(facts) => turns[t].conversation \in Barred
    BY <1>3, <2>2, <2>3 DEF FitsBars, Uncertain
  <2> QED
    BY <1>1, <1>2, <2>4, <2>5, <2>6, RecoveryFactsBar
<1> QED
  BY <1>5, <1>6, <1>7

\* What recovery looks up and records elsewhere: the barrier it writes is the one of
\* the conversation its candidate is bound to.
LEMMA RecoveryLooksBar ==
    ASSUME RuntimeInv, AuditStory, DispatchStory, OrderStory, BarrierStory, WorkAlone, AtCandidate,
           \/ RecoverOutbox \/ RecoverTombstone \/ AssessCheckpoint \/ RecoverBarrierLoad \/ RecoverBarrierWrite
           \/ ReconcileContradiction \/ ReconcileRecorded \/ ReconcileAudit \/ RecoveryFails
    PROVE  BarrierStory'
<1> USE DEF Recovering, Keeps
<1>1. PICK t \in Turns : t = Candidate
  BY CandidateFacts
<1> DEFINE row == turns[t]
           held == recovery.revision = row.revision
<1>2. /\ FitsBars(recovery.stage, recovery.at, recovery.delivery, recovery.checkpoint, held, row, Barred)
      /\ ListedHome(recovery.row, row) /\ recovery.delivery \in SettledDeliveries \cup {None}
      /\ RowInv(t) /\ ConversationsBar
      /\ CandidateTold(recovery.stage, recovery.at, recovery.delivery, recovery.checkpoint, row.state, row.facts,
                       auditCompletions[t])
  BY <1>1, CandidateFacts, CandidateFits, CandidateTells DEF BarrierStory
<1>3. UNCHANGED <<turns, effects, jobs>>
  BY DEF RecoverOutbox, RecoverTombstone, AssessCheckpoint, RecoverBarrierLoad, RecoverBarrierWrite, ReconcileAudit,
     ReconcileContradiction, ReconcileRecorded, RecoveryFails, storeVars, ledgerVars, OutboxCall, AuditCall,
     ConversationCall, NoEffect, WorkAlone
<1>4. HomesBar'
  BY <1>3 DEF BarrierStory, HomesBar
<1>5. ASSUME NEW stage, NEW delivery, NEW checkpoint, GoesTo(stage, delivery, checkpoint),
             Barred \subseteq Barred', ConversationsBar',
             stage # "error" => FitsBars(stage, recovery.at, delivery, checkpoint, held, row, Barred')
      PROVE  BarrierStory'
  BY <1>1, <1>3, <1>4, <1>5, StillBars, RecoveryGoesBars DEF GoesTo
<1>6. ASSUME UNCHANGED conversationVars
      PROVE  Barred' = Barred /\ ConversationsBar'
  <2>1. Barred' = Barred
    BY <1>6 DEF Barred, conversationVars
  <2> QED
    BY <1>2, <1>6, <2>1, SameConversations
<1>7. CASE RecoverOutbox
  <2>1. PICK stage \in {"tombstone", "delivery-fact"}, delivery \in SettledDeliveries, checkpoint \in CheckpointStatuses :
          GoesTo(stage, delivery, checkpoint)
    BY <1>7, OutboxGoes
  <2>2. FitsBars(stage, recovery.at, delivery, checkpoint, held, row, Barred)
    BY <1>2, <1>7, <2>1 DEF RecoverOutbox, FitsBars
  <2>3. UNCHANGED conversationVars
    BY <1>7 DEF RecoverOutbox, storeVars
  <2> QED
    BY <1>5, <1>6, <2>1, <2>2, <2>3
<1>8. CASE RecoverTombstone
  <2>1. Keeps("delivery-fact") \/ Keeps("error")
    BY <1>8, LooksGo
  <2>2. FitsBars("delivery-fact", recovery.at, recovery.delivery, recovery.checkpoint, held, row, Barred)
    BY <1>2, <1>8 DEF RecoverTombstone, FitsBars
  <2>3. UNCHANGED conversationVars
    BY <1>8 DEF RecoverTombstone, OutboxCall
  <2> QED
    BY <1>5, <1>6, <2>1, <2>2, <2>3
<1>9. CASE AssessCheckpoint
  <2>1. \/ Keeps("barrier-load")
        \/ Keeps("reconcile") /\ recovery.delivery # "outcome_unknown" /\ recovery.checkpoint = "succeeded"
        \/ Keeps("error")
    BY <1>9, AssessGoes
  <2>2. FitsBars("barrier-load", recovery.at, recovery.delivery, recovery.checkpoint, held, row, Barred)
    BY <1>2, <1>9 DEF AssessCheckpoint, FitsBars
  <2>3. recovery.delivery # "outcome_unknown" /\ recovery.checkpoint = "succeeded" =>
          FitsBars("reconcile", recovery.at, recovery.delivery, recovery.checkpoint, held, row, Barred)
    <3>1. recovery.stage = "assess" /\ recovery.delivery # None
      BY <1>9, CandidateFacts DEF AssessCheckpoint
    <3>2. row.facts.delivery = recovery.delivery
      BY <1>2, <3>1 DEF CandidateTold, ClosingStages
    <3> QED
      BY <1>2, <3>1, <3>2 DEF FitsBars, Uncertain
  <2>4. UNCHANGED conversationVars
    BY <1>9 DEF AssessCheckpoint, storeVars
  <2> QED
    BY <1>5, <1>6, <2>1, <2>2, <2>3, <2>4
<1>10. CASE RecoverBarrierLoad
  <2>1. Keeps("barrier-write") /\ UNCHANGED conversationVars
    BY <1>10, LooksGo DEF RecoverBarrierLoad, storeVars
  <2>2. FitsBars("barrier-write", recovery.at, recovery.delivery, recovery.checkpoint, held, row, Barred)
    BY <1>2, <1>10 DEF RecoverBarrierLoad, FitsBars
  <2> QED
    BY <1>5, <1>6, <2>1, <2>2
<1>11. CASE RecoverBarrierWrite
  <2> DEFINE key == <<IF recovery.delivery = None THEN "llm-outcome-unknown" ELSE recovery.reason, Candidate>>
             kind == BarrierOutcome(CandidateHome, key, recovery.loaded.revision)
             after == AfterBarrierWrite(recovery, kind, AfterBarrier)
  <2>1. /\ RecordCheckpointBarrier(CandidateHome, key, recovery.loaded.revision)
        /\ recovery.stage = "barrier-write"
        /\ recovery' = [after EXCEPT !.checkpoint = "failed"]
    BY <1>11 DEF RecoverBarrierWrite, AfterBarrier
  <2>2. /\ DOMAIN snapshots = Conversations /\ \A d \in Conversations : SnapshotShaped(snapshots[d])
        /\ RecoveryRecord(recovery)
    BY CandidateFacts DEF DispatchStory, GateStory, OrderStory, WorkStory, ContextStory
  <2>3. recovery.row.state # "observed" /\ row.conversation = CandidateHome
    BY <1>2, <2>1 DEF FitsBars, ListedHome, CandidateHome
  <2>4. recovery.delivery # None => CandidateHome \in Conversations
    <3>1. recovery.delivery # None => row.facts.delivery \in SettledDeliveries
      BY <1>2, <2>1 DEF CandidateTold, ClosingStages, BarrierStages
    <3> QED
      BY <1>2, <2>3, <3>1 DEF RowInv, Settled, BarrierStory, HomesBar
  <2>5. /\ Barred \subseteq Barred' /\ ConversationsBar'
        /\ CandidateHome \in Conversations /\ kind \in {"recorded", "already-recorded"} => CandidateHome \in Barred'
    BY <1>2, <2>1, <2>2, BarrierBars
  <2>6. PICK stage \in {AfterBarrier, "barrier-load", "error"} : GoesTo(stage, recovery.delivery, "failed")
    BY <1>11, BarrierGoes
  <2>7. stage \in {"barrier-load", "error"} \/ kind \in {"recorded", "already-recorded"}
    <3>1. CASE kind \in {"recorded", "already-recorded"}
      BY <3>1
    <3>2. CASE kind \notin {"recorded", "already-recorded"}
      <4>1. after = [recovery EXCEPT !.stage = "barrier-load", !.attempts = @ + 1] \/ after = [recovery EXCEPT !.stage = "error"]
        BY <3>2 DEF AfterBarrierWrite
      <4>2. after.stage \in {"barrier-load", "error"}
        BY <2>2, <4>1 DEF RecoveryRecord
      <4>3. DOMAIN after = DOMAIN recovery
        BY <4>1
      <4> HIDE DEF after
      <4>4. recovery'.stage \in {"barrier-load", "error"}
        BY <2>1, <2>2, <4>2, <4>3 DEF RecoveryRecord
      <4> QED
        BY <2>6, <4>4 DEF GoesTo, Recovered
    <3> QED
      BY <3>1, <3>2
  <2>8. CASE stage \in {"barrier-load", "error"}
    <3>1. FitsBars("barrier-load", recovery.at, recovery.delivery, "failed", held, row, Barred')
      BY <2>3 DEF FitsBars
    <3> QED
      BY <1>5, <2>5, <2>6, <2>8, <3>1
  <2>9. CASE stage \notin {"barrier-load", "error"}
    <3>1. stage = AfterBarrier /\ kind \in {"recorded", "already-recorded"}
      BY <2>6, <2>7, <2>9
    <3>2. CASE recovery.delivery = None
      <4>1. recovery.at \notin EndedDelivery
        BY <1>2, <2>1, <3>2 DEF CandidateTold, ClosingStages, BarrierStages
      <4>2. FitsBars("complete", recovery.at, recovery.delivery, "failed", held, row, Barred')
        BY <4>1 DEF FitsBars
      <4> QED
        BY <1>5, <2>5, <2>6, <3>1, <3>2, <4>2 DEF AfterBarrier
    <3>3. CASE recovery.delivery # None
      <4>1. FitsBars("reconcile", recovery.at, recovery.delivery, "failed", held, row, Barred')
        BY <2>3, <2>4, <2>5, <3>1, <3>3 DEF FitsBars
      <4> QED
        BY <1>5, <2>5, <2>6, <3>1, <3>3, <4>1 DEF AfterBarrier
    <3> QED
      BY <3>2, <3>3
  <2> QED
    BY <2>8, <2>9
<1>12. CASE ReconcileContradiction \/ RecoveryFails
  <2>1. Keeps("error") /\ UNCHANGED conversationVars
    BY <1>12, LooksGo DEF ReconcileContradiction, RecoveryFails, storeVars
  <2> QED
    BY <1>5, <1>6, <2>1
<1>13. CASE ReconcileRecorded
  <2>1. Keeps("complete") /\ UNCHANGED conversationVars
    BY <1>13, LooksGo DEF ReconcileRecorded, storeVars
  <2>2. FitsBars("complete", recovery.at, recovery.delivery, recovery.checkpoint, held, row, Barred)
    BY <1>2, <1>13 DEF ReconcileRecorded, FitsBars, DoubtBars
  <2> QED
    BY <1>5, <1>6, <2>1, <2>2
<1>14. CASE ReconcileAudit
  <2>1. (Keeps("completion-fact") \/ Keeps("error")) /\ UNCHANGED conversationVars
    BY <1>14, LooksGo DEF ReconcileAudit, AuditCall
  <2>2. FitsBars("completion-fact", recovery.at, recovery.delivery, recovery.checkpoint, held, row, Barred)
    BY <1>2, <1>14 DEF ReconcileAudit, FitsBars
  <2> QED
    BY <1>5, <1>6, <2>1, <2>2
<1> QED
  BY <1>7, <1>8, <1>9, <1>10, <1>11, <1>12, <1>13, <1>14

\* Recovery between two pages, and at its next candidate.
LEMMA PagesBar ==
    ASSUME RuntimeInv, BarrierStory, WorkAlone, ListCandidates \/ PageIsDone
    PROVE  BarrierStory'
<1>1. UNCHANGED <<turns, conversationVars, effects, jobs>>
  BY DEF ListCandidates, PageIsDone, WorkAlone, storeVars, ledgerVars, NoEffect
<1>2. PICK stage \in {"done", "error", "pick", "list"}, page \in SUBSET UnfinishedTurns :
        /\ recovery'.stage = stage
        /\ recovery'.rows = <<>> \/ recovery'.rows = [t \in page |-> turns[t]]
  BY PageGoes
<1>3. ASSUME NEW u \in DOMAIN recovery'.rows
      PROVE  ListedHome(recovery'.rows[u], turns[u])
  <2>1. u \in page /\ recovery'.rows[u] = turns[u]
    BY <1>2, <1>3
  <2> QED
    BY <2>1 DEF UnfinishedTurns, ListedHome, PastBinding
<1>4. ~AtCandidate'
  BY <1>2 DEF AtCandidate
<1>5. \A u \in Turns : SameLocals(jobs'[u], jobs[u])
  BY <1>1 DEF SameLocals
<1> QED
  BY <1>1, <1>3, <1>4, <1>5, LocalsBar

LEMMA PicksBar ==
    ASSUME RuntimeInv, AuditStory, BarrierStory, WorkAlone, NEW t \in Turns, PickCandidate(t)
    PROVE  BarrierStory'
<1> DEFINE listed == recovery.rows[t]
           row == turns[t]
           stage == FirstStage(listed)
<1>1. t \in DOMAIN recovery.rows /\ UNCHANGED <<turns, conversationVars, effects, jobs>>
  BY DEF PickCandidate, WorkAlone, storeVars, ledgerVars, NoEffect
<1>2. /\ recovery'.stage = stage /\ recovery'.turn = t /\ recovery'.row = listed
      /\ recovery'.revision = listed.revision /\ recovery'.checkpoint = listed.facts.checkpoint
      /\ recovery'.at = listed.state
      /\ recovery'.rows = [u \in DOMAIN recovery.rows \ {t} |-> recovery.rows[u]]
  <2> DEFINE rest == [u \in DOMAIN recovery.rows \ {t} |-> recovery.rows[u]]
             delivery == DeliveryOfState(listed.state)
  <2>1. recovery' = [ stage |-> stage, listed |-> recovery.listed, rows |-> rest, turn |-> t, row |-> listed,
                      revision |-> listed.revision, at |-> listed.state, delivery |-> delivery,
                      checkpoint |-> listed.facts.checkpoint, reason |-> None, loaded |-> NoSnapshot, attempts |-> 0 ]
    BY PickGoes
  <2> HIDE DEF listed, stage, delivery, rest
  <2>2. /\ recovery'.stage = stage /\ recovery'.turn = t /\ recovery'.row = listed
        /\ recovery'.revision = listed.revision /\ recovery'.checkpoint = listed.facts.checkpoint
        /\ recovery'.at = listed.state /\ recovery'.rows = rest
    BY <2>1
  <2> QED
    BY <2>2 DEF rest
<1>3. ListedStory(listed, row) /\ ListedHome(listed, row)
  BY <1>1 DEF AuditStory, BarrierStory
<1>4. /\ stage \in {"read-outbox", "llm-fact", "assess", "complete", "cancel"}
      /\ stage = "complete" => listed.state \notin EndedDelivery
      /\ listed.state = "observed" => stage = "cancel"
  BY DEF FirstStage, EndedDelivery
<1>5. CandidateBars(recovery', row, Barred)
  BY <1>2, <1>3, <1>4 DEF CandidateBars, ListedStory
<1>6. Barred' = Barred /\ ConversationsBar' /\ HomesBar'
  <2>1. Barred' = Barred
    BY <1>1 DEF Barred, conversationVars
  <2> QED
    BY <1>1, <2>1 DEF BarrierStory, ConversationsBar, HomesBar, conversationVars
<1> HIDE DEF listed, row, stage
<1>7. \A u \in DOMAIN recovery'.rows : ListedHome(recovery'.rows[u], turns[u])
  BY <1>2 DEF BarrierStory
<1>8. CandidateBars(recovery', turns[recovery'.turn], Barred)
  BY <1>2, <1>5 DEF row
<1> QED
  BY <1>1, <1>6, <1>7, <1>8 DEF BarrierStory, Candidate

LEMMA RecoverBars ==
    ASSUME RuntimeInv, AuditStory, DispatchStory, OrderStory, BarrierStory, Recover
    PROVE  BarrierStory'
<1>1. WorkAlone
  BY DEF Recover, WorkAlone
<1>2. CASE ListCandidates \/ PageIsDone
  BY <1>1, <1>2, PagesBar
<1>3. CASE \E t \in Turns : PickCandidate(t)
  BY <1>1, <1>3, PicksBar
<1>4. CASE CancelCandidate \/ CompleteCandidate \/ RecoverLlmCancel \/ RecoverDeliveryMove
  BY <1>1, <1>4, RecoveryMovesBar
<1>5. CASE RecoverLlmFacts \/ RecoverDeliveryFacts \/ ReconcileFailed \/ ReconcileFacts
  BY <1>1, <1>5, RecoveryWritesBar
<1>6. CASE \/ RecoverOutbox \/ RecoverTombstone \/ AssessCheckpoint \/ RecoverBarrierLoad \/ RecoverBarrierWrite
           \/ ReconcileContradiction \/ ReconcileRecorded \/ ReconcileAudit
  <2>1. AtCandidate
    BY <1>6 DEF RecoverOutbox, RecoverTombstone, AssessCheckpoint, RecoverBarrierLoad, RecoverBarrierWrite,
       ReconcileContradiction, ReconcileRecorded, ReconcileAudit, Recovering, AtCandidate
  <2> QED
    BY <1>1, <1>6, <2>1, RecoveryLooksBar
<1>7. CASE RecoveryFails
  <2>1. CASE AtCandidate
    BY <1>1, <1>7, <2>1, RecoveryLooksBar
  <2>2. CASE ~AtCandidate
    <3>1. /\ UNCHANGED <<turns, conversationVars, effects, jobs>> /\ recovery' = [recovery EXCEPT !.stage = "error"]
      BY <1>1, <1>7 DEF RecoveryFails, WorkAlone, storeVars, ledgerVars, NoEffect
    <3>2. recovery'.stage = "error" /\ recovery'.rows = recovery.rows
      BY <3>1 DEF RuntimeInv, Typed, RecoveryTyped
    <3>3. /\ \A u \in DOMAIN recovery'.rows : ListedHome(recovery'.rows[u], turns[u])
          /\ \A u \in Turns : SameLocals(jobs'[u], jobs[u])
      BY <3>1, <3>2 DEF BarrierStory, SameLocals
    <3>4. ~AtCandidate'
      BY <3>2 DEF AtCandidate
    <3> QED
      BY <3>1, <3>3, <3>4, LocalsBar
  <2> QED
    BY <2>1, <2>2
<1> QED
  BY <1>2, <1>3, <1>4, <1>5, <1>6, <1>7 DEF Recover, RecoveryStep

\* The locals of the orchestrator, the dispatcher and the process.
LEMMA StopBars ==
    ASSUME RuntimeInv, BarrierStory, NEW now, StopWork(now),
           \A u \in Turns : now[u] \in {jobs[u], [jobs[u] EXCEPT !.stage = "done"]},
           UNCHANGED <<turns, conversationVars, effects, recovery>>
    PROVE  BarrierStory'
<1>1. \A u \in Turns : jobs'[u] = Aborted(now[u])
  BY DEF StopWork
<1>2. BarStages \subseteq StoryStages
  BY DEF BarStages, AuditedStages, StoryStages, EndingStages
<1>3. \A u \in Turns : jobs'[u].stage \notin BarStages \/ SameLocals(jobs'[u], jobs[u])
  BY <1>1, <1>2, StoppedTells
<1> QED
  BY <1>3, LocalsBar

LEMMA StopsBar ==
    ASSUME RuntimeInv, BarrierStory,
           \/ \E close \in BOOLEAN : BeginDrain(close)
           \/ \E t \in Turns : JobFails(t)
    PROVE  BarrierStory'
<1>1. DOMAIN jobs = Turns
  BY DEF RuntimeInv, Typed
<1>2. ASSUME NEW close \in BOOLEAN, BeginDrain(close)
      PROVE  BarrierStory'
  BY <1>2, StopBars DEF BeginDrain, storeVars, ledgerVars
<1>3. ASSUME NEW t \in Turns, JobFails(t)
      PROVE  BarrierStory'
  <2> DEFINE now == [jobs EXCEPT ![t].stage = "done"]
  <2>1. StopWork(now) /\ UNCHANGED <<turns, conversationVars, effects, recovery>>
    BY <1>3 DEF JobFails, FailRuntime, storeVars, ledgerVars
  <2>2. \A u \in Turns : now[u] \in {jobs[u], [jobs[u] EXCEPT !.stage = "done"]}
    BY <1>1
  <2> HIDE DEF now
  <2> QED
    BY <2>1, <2>2, StopBars
<1> QED
  BY <1>2, <1>3

LEMMA StartsBar ==
    ASSUME RuntimeInv, BarrierStory, NEW t \in Turns, JobEnds(t) \/ Publish(t)
    PROVE  BarrierStory'
<1>1. /\ Typed /\ \A u \in Turns : JobTyped(jobs[u]) /\ jobs[u].revision \in Nat
      /\ generation \in Nat /\ submissions[t].revision \in Nat
  BY DEF RuntimeInv, Typed, JobTyped, SubmissionRecords
<1> DEFINE job == [NoJob EXCEPT !.stage = "queued", !.revision = submissions[t].revision, !.generation = generation]
<1>2. /\ JobTyped(NoJob) /\ NoJob.stage = "idle" /\ JobTyped(job) /\ job.stage = "queued"
  BY <1>1 DEF JobTyped, NoJob, Stages
<1> HIDE DEF job
<1>3. /\ UNCHANGED <<turns, conversationVars, effects, recovery>>
      /\ \/ jobs' = jobs
         \/ \E new \in {NoJob, job} : jobs' = Started([jobs EXCEPT ![t] = new])
  BY DEF JobEnds, Publish, SubmissionOnly, storeVars, ledgerVars, job
<1>4. BarStages \subseteq StoryStages \ {"idle", "queued"}
  BY DEF BarStages, AuditedStages, StoryStages, EndingStages
<1>5. \A u \in Turns : jobs'[u].stage \notin BarStages \/ SameLocals(jobs'[u], jobs[u])
  <2>1. CASE jobs' = jobs
    BY <2>1 DEF SameLocals
  <2>2. ASSUME NEW new \in {NoJob, job}, jobs' = Started([jobs EXCEPT ![t] = new]), NEW u \in Turns
        PROVE  jobs'[u].stage \notin BarStages \/ SameLocals(jobs'[u], jobs[u])
    <3> DEFINE now == [jobs EXCEPT ![t] = new]
    <3>1. Starts(jobs'[u], now[u])
      BY <2>2, StartedJobs
    <3>2. now[u] = IF u = t THEN new ELSE jobs[u]
      BY <1>1 DEF Typed
    <3>3. JobTyped(now[u]) /\ (u = t => now[u].stage \in {"idle", "queued"})
      BY <1>1, <1>2, <3>2
    <3> HIDE DEF now
    <3>4. jobs'[u].stage \notin StoryStages \/ SameLocals(jobs'[u], now[u])
      BY <3>1, <3>3, StartedTells
    <3>5. CASE u = t
      BY <1>4, <3>3, <3>4, <3>5 DEF SameLocals
    <3>6. CASE u # t
      BY <1>4, <3>2, <3>4, <3>6
    <3> QED
      BY <3>5, <3>6
  <2> QED
    BY <1>3, <2>1, <2>2
<1> QED
  BY <1>3, <1>5, LocalsBar

\* A process that starts, returns from its start, closes, dies or stutters.
LEMMA ProcessBars ==
    ASSUME RuntimeInv, BarrierStory,
           \/ Start \/ StartReturns \/ CloseReturns \/ Crash \/ UNCHANGED runtimeVars
           \/ \E t \in Turns : BindingFails(t) \/ \E c \in Conversations : Bind(t, c)
    PROVE  BarrierStory'
<1>1. UNCHANGED <<turns, conversationVars, effects>>
  BY DEF Start, StartReturns, CloseReturns, Crash, BindingFails, Bind, SubmissionQuiet, SubmissionOnly, runtimeVars,
     storeVars, ledgerVars, pipelineVars
<1>2. \A u \in Turns : jobs'[u].stage \notin BarStages \/ SameLocals(jobs'[u], jobs[u])
  <2>1. jobs' = jobs \/ jobs' = [u \in Turns |-> NoJob]
    BY DEF Start, StartReturns, CloseReturns, Crash, BindingFails, Bind, SubmissionQuiet, runtimeVars, pipelineVars
  <2>2. NoJob.stage \notin BarStages
    BY DEF NoJob, BarStages, AuditedStages
  <2> QED
    BY <2>1, <2>2 DEF SameLocals
<1>3. \/ UNCHANGED recovery
      \/ ~AtCandidate' /\ \A u \in DOMAIN recovery'.rows : ListedHome(recovery'.rows[u], turns[u])
  <2>1. \/ UNCHANGED recovery
        \/ recovery' = NoRecovery
        \/ \E stage \in {"list", "error"} : recovery' = [NoRecovery EXCEPT !.stage = stage]
    BY DEF Start, StartReturns, CloseReturns, Crash, BindingFails, Bind, SubmissionQuiet, SubmissionOnly, runtimeVars
  <2>2. recovery' # recovery => recovery'.rows = <<>> /\ recovery'.stage \in {"idle", "list", "error"}
    <3>1. {"list", "error"} \subseteq RecoveryStages
      BY DEF RecoveryStages
    <3>2. CASE \E stage \in {"list", "error"} : recovery' = [NoRecovery EXCEPT !.stage = stage]
      BY <3>1, <3>2, NoRecoveryTyped
    <3> QED
      BY <2>1, <3>2, NoRecoveryTyped
  <2>3. DOMAIN <<>> = {}
    OBVIOUS
  <2> QED
    BY <2>2, <2>3 DEF AtCandidate
<1> QED
  BY <1>1, <1>2, <1>3, LocalsBar

\* A turn that is still submitted has asked no model.
LEMMA SubmittedHomes ==
    ASSUME RuntimeInv, BarrierStory, NEW t \in Turns, submissions[t].stage # "ended",
           UNCHANGED <<conversationVars, effects>>, \A u \in Turns : u # t => turns'[u] = turns[u]
    PROVE  Barred' = Barred /\ ConversationsBar' /\ HomesBar'
<1>1. Barred' = Barred
  BY DEF Barred, conversationVars
<1>2. effects[t] = NoEffects
  BY DEF RuntimeInv, TurnInv, EffectsInv
<1>3. effects[t].llm # 1
  BY <1>2 DEF NoEffects
<1> QED
  BY <1>1, <1>3 DEF BarrierStory, ConversationsBar, HomesBar, conversationVars

LEMMA ObserveBars ==
    ASSUME RuntimeInv, BarrierStory, NEW t \in Turns, NEW key \in TransportKeys, Observe(t, key)
    PROVE  BarrierStory'
<1>1. /\ Typed /\ turns \in [Turns -> Rows] /\ jobs[t].stage = "idle" /\ TurnInv(t)
      /\ submissions[t].stage = "none" /\ UNCHANGED <<conversationVars, effects, jobs, recovery>>
  BY DEF RuntimeInv, Typed, TurnInv, EffectsInv, Observe, SubmissionAt, SubmissionQuiet, SubmissionOnly, pipelineVars
<1>2. turns' = IF ObserveOutcome(t, key) = "fresh-observed" THEN [turns EXCEPT ![t] = ObservedRow(key)] ELSE turns
  BY DEF Observe, ObserveTransportEvent
<1>3. Barred' = Barred /\ ConversationsBar' /\ HomesBar'
  BY <1>1, <1>2, SubmittedHomes
<1>4. BarStep(t)
  <2>1. CASE ObserveOutcome(t, key) # "fresh-observed"
    BY <1>2, <1>3, <2>1, StillBars
  <2>2. CASE ObserveOutcome(t, key) = "fresh-observed"
    <3>1. turns[t] = AbsentRow
      BY <1>1, <2>2 DEF ObserveOutcome, TurnInv, RowInv
    <3>2. /\ ObservedRow(key).state = "observed" /\ ObservedRow(key).revision = 1
          /\ AbsentRow.state = "absent" /\ AbsentRow.revision = 0
      BY DEF ObservedRow, AbsentRow
    <3>3. turns' = [turns EXCEPT ![t] = turns'[t]] /\ turns'[t] = ObservedRow(key)
      BY <1>1, <1>2, <2>2
    <3>4. RowHolds(turns[t], turns'[t]) /\ RowBars(turns'[t], Barred')
      BY <3>1, <3>2, <3>3 DEF RowHolds, PastBinding, RowBars
    <3> QED
      BY <1>1, <1>3, <3>3, <3>4 DEF BarStep
  <2> QED
    BY <2>1, <2>2
<1>5. jobs' = [jobs EXCEPT ![t] = jobs'[t]] /\ JobBars(jobs'[t], turns'[t], Barred')
  BY <1>1, NoBars DEF Typed, BarStages, AuditedStages
<1> QED
  BY <1>1, <1>4, <1>5, JobBarsStep

LEMMA SubmissionsBar ==
    ASSUME RuntimeInv, BarrierStory, NEW t \in Turns, Authenticate(t) \/ Accept(t) \/ Queue(t) \/ SubmissionFails(t)
    PROVE  BarrierStory'
<1>1. /\ Typed /\ turns \in [Turns -> Rows] /\ jobs[t].stage = "idle" /\ submissions[t].stage # "ended"
      /\ UNCHANGED <<conversationVars, effects, recovery>>
  BY DEF RuntimeInv, Typed, TurnInv, EffectsInv, Authenticate, Accept, Queue, SubmissionFails, SubmissionAt,
     SubmissionQuiet, SubmissionOnly, pipelineVars
<1>2. CASE turns' = turns /\ StopWork(jobs)
  BY <1>1, <1>2, StopBars
<1>3. CASE jobs' = jobs /\ BarStep(t)
  <2>1. jobs' = [jobs EXCEPT ![t] = jobs'[t]] /\ JobBars(jobs'[t], turns'[t], Barred')
    BY <1>1, <1>3, NoBars DEF Typed, BarStages, AuditedStages
  <2> QED
    BY <1>1, <1>3, <2>1, JobBarsStep
<1>4. ASSUME NEW to \in {"authenticated", "accepted", "queued"}, turns[t].state \in TurnStates,
             to \in LegalTransitions[turns[t].state], RowMoved(t, to),
             turns[t].state = "observed" \/ turns'[t].conversation = turns[t].conversation
      PROVE  BarStep(t)
  <2>1. turns' = [turns EXCEPT ![t] = turns'[t]] /\ \A u \in Turns : u # t => turns'[u] = turns[u]
    BY <1>1, <1>4 DEF RowMoved
  <2>2. Barred' = Barred /\ ConversationsBar' /\ HomesBar'
    BY <1>1, <2>1, SubmittedHomes
  <2>3. RowHolds(turns[t], turns'[t])
    BY <1>4, MovesGoPast DEF RowHolds, RowMoved, PastBinding
  <2>4. RowBars(turns'[t], Barred')
    BY <1>4 DEF RowBars, RowMoved
  <2> QED
    BY <1>1, <2>1, <2>2, <2>3, <2>4 DEF BarStep
<1>5. turns' = turns => BarStep(t)
  BY <1>1, SubmittedHomes, StillBars
<1>6. ASSUME Authenticate(t) \/ Accept(t) \/ Queue(t)
      PROVE  BarStep(t)
  <2>1. CASE Accept(t) \/ Queue(t)
    BY <1>4, <1>5, <2>1, HomeIsKept, SubmissionMoves
  <2>2. CASE Authenticate(t)
    <3>1. \A state \in TurnStates : "authenticated" \in LegalTransitions[state] => state = "observed"
      BY DEF TurnStates, LegalTransitions
    <3>2. \/ turns' = turns
          \/ RowMoved(t, "authenticated") /\ turns[t].state \in TurnStates
               /\ "authenticated" \in LegalTransitions[turns[t].state]
      <4>1. \/ turns' = turns
            \/ /\ RecordAuthenticationOutcome(t, submissions[t].revision, "authenticated") = "recorded"
               /\ turns' = [turns EXCEPT ![t] = AuthenticatedRow(turns[t], "authenticated", submissions[t].conversation)]
        BY <2>2 DEF Authenticate, RecordAuthenticationResult, ledgerVars
      <4>2. turns'[t].state = "authenticated" \/ turns' = turns
        BY <1>1, <4>1 DEF AuthenticatedRow, MovedTo, Rows
      <4> QED
        BY <1>1, <2>2, <4>2, SubmissionMoves DEF RowMoved
    <3> QED
      BY <1>4, <1>5, <3>1, <3>2
  <2> QED
    BY <1>6, <2>1, <2>2
<1>7. CASE Authenticate(t) \/ Accept(t)
  <2>1. jobs' = jobs
    BY <1>7 DEF Authenticate, Accept, SubmissionQuiet, pipelineVars
  <2> QED
    BY <1>3, <1>6, <1>7, <2>1
<1>8. CASE SubmissionFails(t)
  BY <1>2, <1>3, <1>5, <1>8 DEF SubmissionFails, FailRuntime, ledgerVars
<1>9. CASE Queue(t)
  <2> DEFINE kind == TransitionOutcome(t, submissions[t].revision, "accepted", "queued")
             proven == kind \in {"transitioned", "already-transitioned"}
  <2>1. CASE proven
    <3>1. jobs' = jobs
      BY <1>9, <2>1 DEF Queue
    <3> QED
      BY <1>3, <1>6, <1>9, <3>1
  <2>2. CASE ~proven
    <3>1. StopWork(jobs) /\ turns' = turns
      BY <1>9, <2>2 DEF Queue, FailRuntime, Transition
    <3> QED
      BY <1>2, <3>1
  <2> QED
    BY <2>1, <2>2
<1> QED
  BY <1>7, <1>8, <1>9

----------------------------------------------------------------------------
LEMMA BarrierStarts == RuntimeInit => BarrierStory
<1> SUFFICES ASSUME RuntimeInit
             PROVE  BarrierStory
  OBVIOUS
<1>1. /\ turns = [t \in Turns |-> AbsentRow] /\ checkpointOps = [c \in Conversations |-> {}]
      /\ effects = [t \in Turns |-> NoEffects]
      /\ jobs = [t \in Turns |-> NoJob] /\ recovery = NoRecovery
  BY DEF RuntimeInit, LedgerInit, ConversationInit, PipelineInit, RecoveryInit
<1>2. recovery.rows = <<>> /\ recovery.stage = "idle"
  BY <1>1, NoRecoveryTyped
<1>3. ConversationsBar /\ HomesBar
  BY <1>1 DEF ConversationsBar, HomesBar, NoEffects
<1>4. \A t \in Turns : RowBars(turns[t], Barred) /\ JobBars(jobs[t], turns[t], Barred)
  BY <1>1, NoBars DEF RowBars, AbsentRow, NoJob, BarStages, AuditedStages
<1>5. DOMAIN <<>> = {}
  OBVIOUS
<1> QED
  BY <1>2, <1>3, <1>4, <1>5 DEF BarrierStory, AtCandidate

LEMMA BarrierSteps ==
    RuntimeInv /\ AuditStory /\ DispatchStory /\ OrderStory /\ BarrierStory /\ [RuntimeNext]_runtimeVars => BarrierStory'
<1> SUFFICES ASSUME RuntimeInv, AuditStory, DispatchStory, OrderStory, BarrierStory, [RuntimeNext]_runtimeVars
             PROVE  BarrierStory'
  OBVIOUS
<1>1. CASE Start \/ StartReturns \/ CloseReturns \/ Crash \/ UNCHANGED runtimeVars
  BY <1>1, ProcessBars
<1>2. CASE Recover
  BY <1>2, RecoverBars
<1>3. CASE \E close \in BOOLEAN : BeginDrain(close)
  BY <1>3, StopsBar
<1>4. ASSUME NEW t \in Turns,
             \/ \E key \in TransportKeys : Observe(t, key)
             \/ \E c \in Conversations : Bind(t, c)
             \/ BindingFails(t) \/ Authenticate(t) \/ Accept(t) \/ Queue(t) \/ SubmissionFails(t)
      PROVE  BarrierStory'
  BY <1>4, ObserveBars, ProcessBars, SubmissionsBar
<1>5. ASSUME NEW t \in Turns, JobStep(t) \/ JobFails(t) \/ JobEnds(t) \/ Publish(t)
      PROVE  BarrierStory'
  BY <1>5, JobsBar, StopsBar, StartsBar
<1> QED
  BY <1>1, <1>2, <1>3, <1>4, <1>5 DEF RuntimeNext

LEMMA RuntimeBars == RuntimeSpec => []BarrierStory
  BY BarrierStarts, BarrierSteps, RuntimeKeepsInv, RuntimeAudits, RuntimeDispatches, RuntimeOrders, PTL DEF RuntimeSpec

\* The ledger and the snapshots tell one story: a completed turn whose delivery or whose
\* context is in doubt has degraded its conversation, whichever of the job and recovery
\* wrote the barrier and wherever the process died, and the context of a conversation
\* holds the turns of the conversation in their sequence.
THEOREM SnapshotsAlwaysAgree == RuntimeSpec => []SnapshotsAgreeWithLedger
<1>1. ASSUME BarrierStory
      PROVE  UncertainDeliveryDegrades
  BY <1>1 DEF BarrierStory, RowBars, DoubtBars, Uncertain, Barred, BarrierActive, UncertainDeliveryDegrades
<1> QED
  BY <1>1, ContextsFollowSequence, RuntimeBars, PTL DEF SnapshotsAgreeWithLedger
===============================================================================
