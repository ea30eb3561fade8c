--------------------------- MODULE TurnDispatcher ---------------------------
(***************************************************************************)
(* The per-conversation turn dispatcher: a queue of jobs per conversation, *)
(* sorted by the ledger's sequence numbers, at most one active job per     *)
(* conversation, a bound on queued and active jobs together, and a drain   *)
(* that never ends.  Every operation is synchronous; a job settles when    *)
(* the `finally` of its run executes.                                      *)
(***************************************************************************)
EXTENDS CommunicationDomain, SequencesExt

VARIABLES
    queues,       \* per conversation: the waiting jobs, lowest sequence first
    activeTurn,   \* per conversation: the turn whose job runs, or None
    draining,     \* enqueue is refused for good
    idleWaiter    \* a caller of whenIdle waits

dispatcherVars == <<queues, activeTurn, draining, idleWaiter>>

DispatcherJob(t, sequence) == [turn |-> t, sequence |-> sequence]

DispatcherInit ==
    /\ queues = [c \in Conversations |-> <<>>]
    /\ activeTurn = [c \in Conversations |-> None]
    /\ draining = FALSE
    /\ idleWaiter = FALSE

Active == {c \in Conversations : activeTurn[c] # None}
QueuedTurns == {job.turn : job \in UNION {ToSet(queues[c]) : c \in Conversations}}
ActiveTurns == {activeTurn[c] : c \in Active}
GlobalPending == Cardinality(QueuedTurns) + Cardinality(Active)
Idle == QueuedTurns = {} /\ Active = {}

\* notifyIdle, at the end of every operation that may have emptied the dispatcher.
NobodyNotified == UNCHANGED idleWaiter    \* mutant
NotifyIdle == idleWaiter' = (idleWaiter /\ ~Idle')

\* The job goes before the first one with a greater sequence, or to the end.
InsertSorted(queue, job) ==
    LET greater == {i \in DOMAIN queue : queue[i].sequence > job.sequence}
    IN InsertAt(queue, IF greater = {} THEN Len(queue) + 1 ELSE Min(greater), job)

EnqueueOutcome(c) ==
    CASE draining -> "draining"
      [] Len(queues[c]) >= MaxDepthPerConversation -> "queue-full"
      [] GlobalPending >= MaxGlobalPending -> "global-queue-full"
      [] OTHER -> "enqueued"

\* pump of one conversation: its first job starts when none of it is active.
Enqueue(c, job) ==
    LET queue == InsertSorted(queues[c], job)
        starts == c \notin Active /\ Cardinality(Active) < MaxGlobalPending
    IN IF EnqueueOutcome(c) = "enqueued"
       THEN /\ queues' = [queues EXCEPT ![c] = IF starts THEN Tail(queue) ELSE queue]
            /\ activeTurn' = [activeTurn EXCEPT ![c] = IF starts THEN Head(queue).turn ELSE @]
            /\ UNCHANGED <<draining, idleWaiter>>
       ELSE UNCHANGED dispatcherVars

\* The conversations pump finds work in when the job of c has freed its place.
ReadyElsewhere(c) == {d \in Conversations \ Active : queues[d] # <<>>}    \* mutant
Ready(c) == {d \in Conversations \ (Active \ {c}) : queues[d] # <<>>}

\* A job settles: its conversation is pumped first, then every other one, and
\* each starts its first job while there is room.
JobSettles(c) ==
    LET busy == Active \ {c}
        room == MaxGlobalPending - Cardinality(busy)
    IN \E started \in SUBSET Ready(c) :
         /\ IF draining THEN started = {}
            ELSE /\ c \in Ready(c) => c \in started
                 /\ \/ started = Ready(c) /\ Cardinality(started) <= room
                    \/ Cardinality(started) = room
         /\ activeTurn' = [d \in Conversations |->
              IF d \in started THEN Head(queues[d]).turn
              ELSE IF d = c THEN None ELSE activeTurn[d]]
         /\ queues' = [d \in Conversations |-> IF d \in started THEN Tail(queues[d]) ELSE queues[d]]
         /\ UNCHANGED draining
         /\ NotifyIdle

DropQueues ==
    /\ draining' = TRUE
    /\ queues' = [c \in Conversations |-> <<>>]
    /\ UNCHANGED activeTurn

BeginDispatcherDrain == DropQueues /\ NotifyIdle

\* beginDrain and then, in the same synchronous step, whenIdle.
DrainAndWait == DropQueues /\ idleWaiter' = ~Idle'

WhenIdle ==
    /\ idleWaiter' = (idleWaiter \/ ~Idle)
    /\ UNCHANGED <<queues, activeTurn, draining>>

DispatcherJobs == [turn : Turns, sequence : Nat \ {0}]

\* Any client: jobs in any order, and an active one settles at any time.
DispatcherNext ==
    \/ \E c \in Conversations :
         \/ \E job \in DispatcherJobs : Enqueue(c, job)
         \/ c \in Active /\ JobSettles(c)
    \/ BeginDispatcherDrain \/ DrainAndWait \/ WhenIdle

DispatcherSpec == DispatcherInit /\ [][DispatcherNext]_dispatcherVars

----------------------------------------------------------------------------
\* Queues hold jobs, and active conversations turns.
DispatcherTypeOK ==
    /\ queues \in [Conversations -> Seq(DispatcherJobs)]
    /\ activeTurn \in [Conversations -> Turns \cup {None}]
    /\ draining \in BOOLEAN
    /\ idleWaiter \in BOOLEAN

\* No wake-up is lost: a conversation with waiting work has a running job, for
\* pump is called only by enqueue and by the end of another job.
WaitingWorkHasARunner == \A c \in Conversations : queues[c] # <<>> => c \in Active

\* Within a conversation a job never starts while one with a lower sequence waits.
StartsInSequence ==
    [][\A c \in Conversations :
         activeTurn'[c] # activeTurn[c] /\ activeTurn'[c] # None =>
           \A first \in ToSet(queues[c]), job \in ToSet(queues'[c]) :
             first.turn = activeTurn'[c] => first.sequence < job.sequence]_dispatcherVars

\* A caller of whenIdle never sleeps over an idle dispatcher.
IdleWaiterIsWoken == idleWaiter => ~Idle

\* Neither a waiting job nor a caller of whenIdle is left to wait for a step that
\* nobody will take (notifyIdle and pump at the end of every operation).
NobodyWaitsInVain == WaitingWorkHasARunner /\ IdleWaiterIsWoken
===============================================================================
