------------------------------ MODULE CodexProofs ------------------------------
(***************************************************************************)
(* A probe that fails before its invocation leaves no prompt with its      *)
(* child, and a clean-up that ends leaves no child behind: for any         *)
(* requests, lines, launches and limit of the queue.                       *)
(***************************************************************************)
EXTENDS CodexClient, TLAPS

\* Before the write of turn/start is proven (where also the process of the probe may have
\* ended), after it, and the stages of the clean-up.
Unprompted ==
    {"idle", "refused", "call", "write", "initialized", "initializedWrite", "reply", "crashed",
     "threadStarted", "turnWrite", "poisonReap"}
Prompted == {"turnReply", "turnStarted", "events"}
Cleanup ==
    {"interrupt", "interruptWrite", "interruptReply", "unsubscribe", "unsubscribeWrite",
     "unsubscribeReply", "close", "closing", "terminating", "reaping", "done"}

\* The child is dead or dying, and nobody listens to it.
Silenced == child \in {"killed", "exited"} /\ ~reading

CodexInv ==
    /\ at \in Unprompted \cup Prompted \cup Cleanup
    /\ at \in Unprompted => ~prompted
    /\ at \notin Cleanup => outcome \notin BeforeInvocation
    /\ inFlight => at = "turnWrite" \/ poisoned
    /\ poisoned => at \in {"poisonReap", "done"} /\ Silenced
    /\ at \in {"reaping", "done"} => Silenced
    /\ KnownFailureMeansNoPrompt

----------------------------------------------------------------------------
\* The result is given before the clean-up, of which nothing is left for a dead child.
LEMMA FinishLeaves ==
    ASSUME CodexInv, at \notin Cleanup, NEW result, Conclude(result), child' = child, poisoned' = poisoned,
           inFlight' \in {FALSE, inFlight}, inFlight' => poisoned,
           prompted' = prompted, result \in BeforeInvocation => ~prompted
    PROVE  CodexInv'
<1>1. at' \in {"done", "interrupt", "unsubscribe", "close"} /\ (at' = "done" <=> poisoned \/ Exited)
  BY DEF Conclude, CleanupState
<1>2. at' \in Cleanup /\ at' \notin Unprompted \cup Prompted /\ at' # "reaping"
  BY <1>1 DEF Cleanup, Unprompted, Prompted
<1>3. outcome' = result /\ reading' = (reading /\ ~Exited)
  BY DEF Conclude
<1>4. poisoned \/ Exited => Silenced'
  BY <1>3 DEF CodexInv, Silenced, Exited
<1> QED
  BY <1>1, <1>2, <1>3, <1>4 DEF CodexInv, KnownFailureMeansNoPrompt

\* Steps of the probe before the prompt is written end with any result.
LEMMA BeforeThePrompt ==
    ASSUME CodexInv,
           \/ CallRequest \/ Initialized \/ ReadAnswer \/ PoisonReaped \/ RejectionIsUnheard
           \/ at \notin CleanupWrites /\ (WriteEnds \/ WriteFails)
    PROVE  CodexInv'
<1>1. /\ at \in {"call", "write", "initialized", "initializedWrite", "reply", "poisonReap"}
      /\ at \notin Cleanup /\ ~prompted
  <2>1. at \in {"call", "write", "initialized", "initializedWrite", "reply", "poisonReap"}
    BY DEF CallRequest, Initialized, ReadAnswer, PoisonReaped, RejectionIsUnheard, WriteEnds, WriteFails,
           Writes, CleanupWrites
  <2> QED
    BY <2>1 DEF CodexInv, Unprompted, Cleanup
<1>2. UNCHANGED prompt /\ UNCHANGED child
  BY DEF CallRequest, Initialized, ReadAnswer, PoisonReaped, RejectionIsUnheard, WriteEnds, WriteFails
<1>3. at = "poisonReap" \/ ~poisoned
  BY <1>1 DEF CodexInv
<1>4. inFlight => poisoned
  BY <1>1 DEF CodexInv
<1>5. ASSUME NEW result, Conclude(result)
      PROVE  CodexInv'
  BY <1>1, <1>2, <1>4, <1>5, FinishLeaves DEF prompt
<1>6. CASE /\ at' \in {"write", "initializedWrite", "reply", "call", "initialized", "crashed", "threadStarted"}
           /\ at # "poisonReap" /\ outcome' = outcome
  BY <1>1, <1>2, <1>3, <1>6 DEF CodexInv, Unprompted, Prompted, Cleanup, KnownFailureMeansNoPrompt, prompt
<1>7. CASE CallRequest
  BY <1>1, <1>5, <1>6, <1>7 DEF CallRequest
<1>8. CASE Initialized
  BY <1>1, <1>5, <1>6, <1>8 DEF Initialized
<1>9. CASE ReadAnswer
  BY <1>1, <1>5, <1>6, <1>9 DEF ReadAnswer
<1>10. CASE PoisonReaped
  BY <1>5, <1>10 DEF PoisonReaped
<1>11. CASE RejectionIsUnheard
  BY <1>6, <1>11 DEF RejectionIsUnheard
<1>12. CASE at \notin CleanupWrites /\ WriteEnds
  <2>1. at \in {"write", "initializedWrite"}
    BY <1>12 DEF WriteEnds, Writes, CleanupWrites
  <2>2. CASE at' = AfterWrite[at] /\ outcome' = outcome
    BY <1>6, <2>1, <2>2 DEF AfterWrite
  <2> QED
    BY <1>5, <1>12, <2>2 DEF WriteEnds
<1>13. CASE at \notin CleanupWrites /\ WriteFails
  BY <1>5, <1>13 DEF WriteFails
<1> QED
  BY <1>7, <1>8, <1>9, <1>10, <1>11, <1>12, <1>13

\* The prompt: its write is proven, fails, or hangs and is made impossible.
LEMMA TurnWriteHolds == CodexInv /\ (TurnWritten \/ TurnWriteFails \/ TurnWriteHangs) => CodexInv'
<1> SUFFICES ASSUME CodexInv
             PROVE  TurnWritten \/ TurnWriteFails \/ TurnWriteHangs => CodexInv'
  OBVIOUS
<1>1. ASSUME TurnWritten
      PROVE  CodexInv'
  BY <1>1 DEF TurnWritten, CodexInv, Unprompted, Prompted, Cleanup, KnownFailureMeansNoPrompt, Silenced
<1>2. ASSUME TurnWriteFails
      PROVE  CodexInv'
  <2>1. at \notin Cleanup /\ ~prompted /\ UNCHANGED <<child, poisoned, prompted>> /\ ~inFlight'
    BY <1>2 DEF TurnWriteFails, CodexInv, Unprompted, Cleanup
  <2>2. PICK result : Conclude(result)
    BY <1>2 DEF TurnWriteFails
  <2> QED
    BY <1>2, <2>1, <2>2, FinishLeaves DEF TurnWriteFails
<1>3. ASSUME TurnWriteHangs
      PROVE  CodexInv'
  BY <1>3 DEF TurnWriteHangs, Poison, Exited, CodexInv, Unprompted, Prompted, Cleanup,
              KnownFailureMeansNoPrompt, Silenced
<1> QED
  BY <1>1, <1>2, <1>3

\* Once prompted, no result says the model was not invoked.
LEMMA AfterThePrompt ==
    CodexInv /\ (ReadTurnAnswer \/ WaitEnds \/ Deadline \/ ReadStarted \/ ReadEvent) => CodexInv'
<1> SUFFICES ASSUME CodexInv
             PROVE  ReadTurnAnswer \/ WaitEnds \/ Deadline \/ ReadStarted \/ ReadEvent => CodexInv'
  OBVIOUS
<1>1. ASSUME ReadTurnAnswer
      PROVE  CodexInv'
  <2>1. at = "turnReply" /\ at \notin Cleanup /\ ~inFlight /\ ~poisoned /\ UNCHANGED <<child, prompt>>
    BY <1>1 DEF ReadTurnAnswer, CodexInv, Cleanup
  <2>2. CASE Conclude("outcome-unknown")
    BY <2>1, <2>2, FinishLeaves DEF prompt, BeforeInvocation
  <2>3. CASE at' = "turnStarted" /\ outcome' = outcome /\ reading' = reading
    BY <2>1, <2>3 DEF CodexInv, Unprompted, Prompted, Cleanup, KnownFailureMeansNoPrompt, prompt
  <2> QED
    BY <1>1, <2>2, <2>3 DEF ReadTurnAnswer
<1>2. ASSUME Waiting, Conclude(Interrupted), UNCHANGED <<child, prompt>>
      PROVE  CodexInv'
  <2>1. at \notin Cleanup /\ ~inFlight /\ (at = "threadStarted" => ~prompted)
    BY <1>2 DEF Waiting, CodexInv, Unprompted, Cleanup
  <2>2. at # "threadStarted" => Interrupted \notin BeforeInvocation
    BY DEF Interrupted, AfterBreach, BreachOutcome, BeforeInvocation
  <2> QED
    BY <1>2, <2>1, <2>2, FinishLeaves DEF prompt
<1>3. ASSUME ReadStarted
      PROVE  CodexInv'
  <2>1. at \in {"threadStarted", "turnStarted"} /\ at \notin Cleanup /\ ~inFlight /\ ~poisoned
    BY <1>3 DEF ReadStarted, Readable, Waiting, CodexInv, Cleanup
  <2>2. UNCHANGED <<child, dispatched, poisoned, prompted>> /\ (at = "threadStarted" => ~prompted)
    BY <1>3 DEF ReadStarted, CodexInv, Unprompted
  <2>3. CASE /\ at' = IF at = "threadStarted" THEN "turnWrite" ELSE "events"
             /\ inFlight' = (at = "threadStarted") /\ outcome' = outcome /\ reading' = reading
    BY <2>1, <2>2, <2>3 DEF CodexInv, Unprompted, Prompted, Cleanup, KnownFailureMeansNoPrompt
  <2>4. CASE /\ Conclude(IF at = "threadStarted" THEN "provider-unavailable" ELSE "outcome-unknown")
             /\ inFlight' = inFlight
    BY <2>1, <2>2, <2>4, FinishLeaves DEF BeforeInvocation
  <2> QED
    BY <1>3, <2>3, <2>4 DEF ReadStarted
<1>4. ASSUME ReadEvent
      PROVE  CodexInv'
  <2>1. at = "events" /\ at \notin Cleanup /\ ~inFlight /\ ~poisoned /\ UNCHANGED <<child, prompt>>
    BY <1>4 DEF ReadEvent, CodexInv, Cleanup
  <2>2. EventOutcome(Head(queue)) \notin BeforeInvocation
    BY DEF EventOutcome, ItemOutcome, CompletedOutcome, BeforeInvocation
  <2>3. CASE Conclude(EventOutcome(Head(queue)))
    BY <2>1, <2>2, <2>3, FinishLeaves DEF prompt
  <2>4. CASE UNCHANGED <<at, outcome, reading>>
    BY <2>1, <2>4 DEF CodexInv, Silenced, KnownFailureMeansNoPrompt, prompt
  <2> QED
    BY <1>4, <2>3, <2>4 DEF ReadEvent
<1>5. WaitEnds \/ Deadline => CodexInv'
  BY <1>2 DEF WaitEnds, Deadline
<1> QED
  BY <1>1, <1>3, <1>4, <1>5

\* The clean-up ends with a child that is dead or dying.
LEMMA CleanupHolds ==
    ASSUME CodexInv,
           \/ CleanupRequest \/ CleanupAnswered \/ CloseStep
           \/ at \in CleanupWrites /\ (WriteEnds \/ WriteFails)
    PROVE  CodexInv'
<1>1. /\ at \in {"interrupt", "interruptWrite", "interruptReply", "unsubscribe", "unsubscribeWrite",
                 "unsubscribeReply", "close", "closing", "terminating", "reaping"}
      /\ ~poisoned /\ ~inFlight /\ UNCHANGED <<prompt, outcome>>
  BY DEF CleanupRequest, CleanupAnswered, CloseStep, WriteEnds, WriteFails, CleanupWrites, CodexInv
<1>2. /\ at' \in Cleanup /\ at' \notin Unprompted \cup Prompted
      /\ at' \in {"reaping", "done"} => Silenced'
  <2>1. CASE CleanupRequest
    BY <2>1 DEF CleanupRequest, AfterStage, Cleanup, Unprompted, Prompted
  <2>2. CASE CleanupAnswered
    BY <2>2 DEF CleanupAnswered, AfterStage, Cleanup, Unprompted, Prompted
  <2>3. CASE CloseStep
    BY <2>3 DEF CloseStep, Dispose, Exited, CodexInv, Silenced, Cleanup, Unprompted, Prompted
  <2>4. CASE at \in CleanupWrites /\ WriteEnds
    BY <2>4 DEF WriteEnds, CleanupWrites, AfterWrite, Cleanup, Unprompted, Prompted
  <2>5. CASE at \in CleanupWrites /\ WriteFails
    BY <2>5 DEF WriteFails, CleanupWrites, AfterStage, Cleanup, Unprompted, Prompted
  <2> QED
    BY <2>1, <2>2, <2>3, <2>4, <2>5
<1> QED
  BY <1>1, <1>2 DEF CodexInv, KnownFailureMeansNoPrompt, prompt

LEMMA CodexStepHolds == CodexInv /\ [CodexNext]_codexVars => CodexInv'
<1> SUFFICES ASSUME CodexInv, [CodexNext]_codexVars
             PROVE  CodexInv'
  OBVIOUS
<1>1. CASE UNCHANGED <<child, reading, at, outcome, prompt>>
  BY <1>1 DEF CodexInv, Silenced, KnownFailureMeansNoPrompt, prompt
<1>2. CASE LineArrives \/ AbortRequested \/ RequestTimesOut \/ UNCHANGED codexVars
  BY <1>1, <1>2 DEF LineArrives, AbortRequested, RequestTimesOut, codexVars, probe
<1>3. CASE Spawn
  <2>1. /\ at \in {"idle", "refused"} /\ ~prompted /\ ~inFlight /\ ~poisoned
        /\ at' \in {"call", "refused"} /\ UNCHANGED <<outcome, prompt>>
    BY <1>3 DEF Spawn, CodexInv, Unprompted
  <2> QED
    BY <2>1 DEF CodexInv, Unprompted, Prompted, Cleanup, KnownFailureMeansNoPrompt, prompt
<1>4. CASE ChildExits
  <2>1. child' = "exited" /\ UNCHANGED <<reading, at, outcome, prompt>>
    BY <1>4 DEF ChildExits, probe
  <2> QED
    BY <2>1 DEF CodexInv, Silenced, KnownFailureMeansNoPrompt, prompt
<1> QED
  BY <1>2, <1>3, <1>4, BeforeThePrompt, TurnWriteHolds, AfterThePrompt, CleanupHolds
     DEF CodexNext, ClientStep, Pipe

LEMMA CodexInvHolds == CodexSpec => []CodexInv
<1>1. CodexInit => CodexInv
  BY ResultsAssumption
     DEF CodexInit, CodexInv, Unprompted, Prompted, Cleanup, KnownFailureMeansNoPrompt
<1> QED
  BY <1>1, CodexStepHolds, PTL DEF CodexSpec

\* However the write of turn/start, the deadline, the abort and the death of the child
\* fall: a result from before the invocation is given by the poisoned write
\* (codex-app-server-client.ts) or where nothing was written, so the child has no prompt.
THEOREM KnownFailuresPromptNobody == CodexSpec => []KnownFailureMeansNoPrompt
  BY CodexInvHolds, PTL DEF CodexInv

\* Every end of the staged clean-up (stateDependentCleanup, boundedClose) has disposed
\* of the child, and a clean-up that is skipped had nothing to dispose of.  A probe
\* refused over its budgets has no clean-up: MCSpawnedChild.cfg shows what it leaves.
THEOREM CleanupsLeaveNoChild == CodexSpec => []CleanupLeavesNoChild
<1>1. CodexInv => CleanupLeavesNoChild
  BY DEF CodexInv, Silenced, CleanupLeavesNoChild
<1> QED
  BY <1>1, CodexInvHolds, PTL
===============================================================================
