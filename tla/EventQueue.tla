----------------------------- MODULE EventQueue -----------------------------
(***************************************************************************)
(* The event queues of threading/queue.h and threading/threadqueue.cpp.    *)
(* Every thread may add an event to a queue; only the main thread runs     *)
(* them.  EventQueueMaster::ProcessEvents visits the queues in the order   *)
(* they were registered (queue q is the q-th one), and each queue moves    *)
(* everything it holds into a local queue while it owns its lock, then     *)
(* runs the local queue without the lock.  Every operation below is one    *)
(* critical section of that lock, or a step of the main thread outside it. *)
(***************************************************************************)
EXTENDS Naturals, Sequences

CONSTANTS NQueues,  \* how many queues are registered with the master, at least one
          Events    \* the events, a function pointer and its data each

VARIABLES eventQueue,  \* eventQueue[q]: events added to q and not yet drained
          localQueue,  \* drained from queue `turn', still to be run
          turn         \* the queue being processed, 0 outside ProcessEvents

queueVars == <<eventQueue, localQueue, turn>>

QueueTypeOK == /\ eventQueue \in [1..NQueues -> Seq(Events)]
               /\ localQueue \in Seq(Events)
               /\ turn \in 0..NQueues

QueueInit == /\ eventQueue = [q \in 1..NQueues |-> <<>>]
             /\ localQueue = <<>>
             /\ turn = 0

-----------------------------------------------------------------------------
\* EventQueue::AddToQueue, by any thread, at any point of the main thread.
AddToQueue(q, e) == /\ eventQueue' = [eventQueue EXCEPT ![q] = Append(@, e)]
                    /\ UNCHANGED <<localQueue, turn>>

\* Mutant of Drain: push_front where the code has push_back.
DrainReversed(q) ==
  LET n == Len(eventQueue[q])
  IN  /\ localQueue' = [i \in 1..n |-> eventQueue[q][n + 1 - i]]
      /\ eventQueue' = [eventQueue EXCEPT ![q] = <<>>]
      /\ turn' = q

\* The locked half of EventQueue::ProcessEvents.
Drain(q) == /\ localQueue' = eventQueue[q]
            /\ eventQueue' = [eventQueue EXCEPT ![q] = <<>>]
            /\ turn' = q

\* EventQueueMaster::ProcessEvents enters the first queue ...
ProcessEvents == turn = 0 /\ Drain(1)

\* Mutant of NextQueue: the loop over the queues runs past the last one.
NextQueuePastEnd == /\ turn # 0
                    /\ localQueue = <<>>
                    /\ IF turn < NQueues
                       THEN Drain(turn + 1)
                       ELSE turn' = turn + 1 /\ UNCHANGED <<eventQueue, localQueue>>

\* ... and goes on to the next one, or returns, once the local queue is done.
NextQueue == /\ turn # 0
             /\ localQueue = <<>>
             /\ IF turn < NQueues
                THEN Drain(turn + 1)
                ELSE turn' = 0 /\ UNCHANGED <<eventQueue, localQueue>>

\* The unlocked half: the main thread leaves one event behind and runs it.
RunEvent == /\ turn # 0
            /\ localQueue # <<>>
            /\ localQueue' = Tail(localQueue)
            /\ UNCHANGED <<eventQueue, turn>>

QueueNext == \/ \E q \in 1..NQueues, e \in Events : AddToQueue(q, e)
             \/ ProcessEvents
             \/ NextQueue
             \/ RunEvent

QueueSpec == QueueInit /\ [][QueueNext]_queueVars

-----------------------------------------------------------------------------
\* What a queue still owes: first what was drained from it, then the rest.
Owed == [q \in 1..NQueues |-> (IF turn = q THEN localQueue ELSE <<>>) \o eventQueue[q]]

Channels == INSTANCE FifoChannels WITH channel <- Owed

\* The event queues deliver like channels: every event that any thread added
\* (queue.h, AddToQueue) is run once, none is lost between the locked and the
\* unlocked half of ProcessEvents, and one queue's events run in the order in
\* which they were added to it.
FifoDelivery == Channels!Spec
=============================================================================
