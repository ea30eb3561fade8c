----------------------------- MODULE EventPromise -----------------------------
(***************************************************************************)
(* What the communication runtime promises for every transport event,      *)
(* whatever interleaves, fails or crashes: the model is asked at most once *)
(* for it, an answer is sent at most once and only after the model was     *)
(* asked, and the verdict the event is closed with is final, and true: it  *)
(* says delivered or failed only if the transport said so, and never says  *)
(* not started of an answer that was sent.                                 *)
(***************************************************************************)
EXTENDS Naturals

CONSTANTS Events, NoValue

VARIABLE events

Answers == {"delivered", "known-failure", "outcome-unknown", "error"}
Verdicts == {"not_started", "delivered", "failed", "outcome_unknown"}

Unseen == [phase |-> "unseen", asked |-> 0, sent |-> 0, answer |-> NoValue, verdict |-> NoValue]

Update(e, record) == events' = [events EXCEPT ![e] = record]

PromiseInit == events = [e \in Events |-> Unseen]

See(e) ==
    /\ events[e].phase = "unseen"
    /\ Update(e, [events[e] EXCEPT !.phase = "open"])

Ask(e) ==
    /\ events[e].phase = "open" /\ events[e].asked = 0
    /\ Update(e, [events[e] EXCEPT !.asked = 1])

Send(e) ==
    /\ events[e].phase = "open" /\ events[e].asked = 1 /\ events[e].sent = 0
    /\ Update(e, [events[e] EXCEPT !.sent = 1])

Answer(e, answer) ==
    /\ events[e].sent = 1 /\ events[e].answer = NoValue
    /\ Update(e, [events[e] EXCEPT !.answer = answer])

Conclude(e, verdict) ==
    /\ events[e].phase = "open"
    /\ verdict = "delivered" => events[e].answer = "delivered"
    /\ verdict = "failed" => events[e].answer = "known-failure"
    /\ verdict = "not_started" => events[e].sent = 0
    /\ verdict = "outcome_unknown" => events[e].asked = 1
    /\ Update(e, [events[e] EXCEPT !.phase = "ended", !.verdict = verdict])

\* Most steps of the runtime leave every event alone.
PromiseNext ==
    \/ events' = events
    \/ \E e \in Events :
         \/ See(e) \/ Ask(e) \/ Send(e)
         \/ \E answer \in Answers : Answer(e, answer)
         \/ \E verdict \in Verdicts : Conclude(e, verdict)

PromiseSpec == PromiseInit /\ [][PromiseNext]_events
===============================================================================
