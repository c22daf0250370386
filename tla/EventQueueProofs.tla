-------------------------- MODULE EventQueueProofs --------------------------
(***************************************************************************)
(* The event queues of threading/queue.h deliver like the channels of      *)
(* FifoChannels, for any number of queues and events.                      *)
(***************************************************************************)
EXTENDS EventQueue, SequenceTheorems, TLAPS

\* What is drained and what is not yet drained are one sequence: to append to
\* its second part is to append to it ...
LEMMA AppendToConcat ==
  ASSUME NEW S, NEW s \in Seq(S), NEW t \in Seq(S), NEW e \in S
  PROVE  s \o Append(t, e) = Append(s \o t, e)
  OBVIOUS

\* ... and to take from its first part, if there is one, is to take from it.
LEMMA TailOfConcat ==
  ASSUME NEW S, NEW s \in Seq(S), NEW t \in Seq(S), s # <<>>
  PROVE  s \o t # <<>> /\ Tail(s \o t) = Tail(s) \o t
  OBVIOUS

-----------------------------------------------------------------------------
LEMMA QueueTypeStep ==
  ASSUME NQueues \in Nat \ {0}, QueueTypeOK, [QueueNext]_queueVars
  PROVE  QueueTypeOK'
<1>1. ASSUME NEW q \in 1..NQueues, NEW e \in Events, AddToQueue(q, e)
      PROVE  QueueTypeOK'
  BY <1>1 DEF AddToQueue, QueueTypeOK
<1>2. ASSUME NEW q \in 1..NQueues, Drain(q)
      PROVE  QueueTypeOK'
  BY <1>2 DEF Drain, QueueTypeOK
<1>3. CASE ProcessEvents
  BY <1>2, <1>3 DEF ProcessEvents
<1>4. CASE NextQueue
  <2>1. CASE turn < NQueues
    BY <1>2, <1>4, <2>1 DEF NextQueue, QueueTypeOK
  <2>2. CASE ~(turn < NQueues)
    BY <1>4, <2>2 DEF NextQueue, QueueTypeOK
  <2>3. QED
    BY <2>1, <2>2
<1>5. CASE RunEvent
  <2>1. Tail(localQueue) \in Seq(Events)
    BY <1>5 DEF RunEvent, QueueTypeOK
  <2>2. QED
    BY <1>5, <2>1 DEF RunEvent, QueueTypeOK
<1>6. CASE UNCHANGED queueVars
  BY <1>6 DEF queueVars, QueueTypeOK
<1>7. QED
  BY <1>1, <1>3, <1>4, <1>5, <1>6 DEF QueueNext

-----------------------------------------------------------------------------
(* Each operation, seen through what the queues owe. *)

LEMMA OwedType ==
  ASSUME QueueTypeOK
  PROVE  Owed \in [1..NQueues -> Seq(Events)]
  BY DEF Owed, QueueTypeOK

\* AddToQueue puts its event on its channel, whatever was drained before.
LEMMA AddToQueuePuts ==
  ASSUME NEW q \in 1..NQueues, NEW e \in Events, QueueTypeOK, AddToQueue(q, e)
  PROVE  Owed' = [Owed EXCEPT ![q] = Append(@, e)]
<1> DEFINE Drained(p) == IF turn = p THEN localQueue ELSE <<>>
<1>1. Drained(q) \o Append(eventQueue[q], e) = Append(Drained(q) \o eventQueue[q], e)
  <2>1. Drained(q) \in Seq(Events) /\ eventQueue[q] \in Seq(Events)
    BY DEF QueueTypeOK
  <2> HIDE DEF Drained
  <2>2. QED
    BY <2>1, AppendToConcat
<1>2. Owed' = [p \in 1..NQueues |-> Drained(p) \o eventQueue'[p]]
  BY DEF Owed, AddToQueue
<1>3. \A p \in 1..NQueues : Drained(p) \o eventQueue'[p] = [Owed EXCEPT ![q] = Append(@, e)][p]
  BY <1>1 DEF Owed, AddToQueue, QueueTypeOK
<1>4. QED
  BY <1>2, <1>3 DEF Owed

\* Moving a queue into the empty local queue changes nothing of what is owed.
LEMMA DrainOwesTheSame ==
  ASSUME NEW q \in 1..NQueues, QueueTypeOK, turn = 0 \/ localQueue = <<>>, Drain(q)
  PROVE  Owed' = Owed
<1>1. \A p \in 1..NQueues :
        (IF turn' = p THEN localQueue' ELSE <<>>) \o eventQueue'[p]
          = (IF turn = p THEN localQueue ELSE <<>>) \o eventQueue[p]
  <2>1. TAKE p \in 1..NQueues
  <2>2. (IF turn = p THEN localQueue ELSE <<>>) \o eventQueue[p] = eventQueue[p]
    BY ConcatEmptySeq DEF QueueTypeOK
  <2>3. CASE p = q
    <3>1. turn' = p /\ localQueue' = eventQueue[p] /\ eventQueue'[p] = <<>>
      BY <2>3 DEF Drain, QueueTypeOK
    <3>2. QED
      BY <2>2, <3>1, ConcatEmptySeq DEF QueueTypeOK
  <2>4. CASE p # q
    <3>1. turn' # p /\ eventQueue'[p] = eventQueue[p]
      BY <2>4 DEF Drain, QueueTypeOK
    <3>2. QED
      BY <2>2, <3>1, ConcatEmptySeq DEF QueueTypeOK
  <2>5. QED
    BY <2>3, <2>4
<1>2. QED
  BY <1>1 DEF Owed

\* To run an event is to take it from the channel whose turn it is.
LEMMA RunEventTakes ==
  ASSUME QueueTypeOK, RunEvent
  PROVE  /\ turn \in 1..NQueues
         /\ Owed[turn] # <<>>
         /\ Owed' = [Owed EXCEPT ![turn] = Tail(@)]
<1>1. turn \in 1..NQueues
  BY DEF QueueTypeOK, RunEvent
<1>2. /\ localQueue \o eventQueue[turn] # <<>>
      /\ Tail(localQueue \o eventQueue[turn]) = Tail(localQueue) \o eventQueue[turn]
  BY <1>1, TailOfConcat DEF QueueTypeOK, RunEvent
<1>3. \A p \in 1..NQueues :
        (IF turn' = p THEN localQueue' ELSE <<>>) \o eventQueue'[p]
          = [Owed EXCEPT ![turn] = Tail(@)][p]
  BY <1>1, <1>2 DEF Owed, RunEvent
<1>4. QED
  BY <1>1, <1>2, <1>3 DEF Owed

\* Every step of the queues is a step of the channels.
LEMMA QueueStep ==
  ASSUME NQueues \in Nat \ {0}, QueueTypeOK, [QueueNext]_queueVars
  PROVE  [Channels!Next]_Owed
<1>1. ASSUME NEW q \in 1..NQueues, NEW e \in Events, AddToQueue(q, e)
      PROVE  Channels!Next
  BY <1>1, AddToQueuePuts DEF Channels!Next, Channels!Put
<1>2. CASE ProcessEvents
  BY <1>2, DrainOwesTheSame DEF ProcessEvents
<1>3. CASE NextQueue
  <2>1. CASE turn < NQueues
    BY <1>3, <2>1, DrainOwesTheSame DEF NextQueue, QueueTypeOK
  <2>2. CASE ~(turn < NQueues)
    <3>1. turn' = 0 /\ localQueue = <<>> /\ UNCHANGED <<eventQueue, localQueue>>
      BY <1>3, <2>2 DEF NextQueue
    <3>2. QED
      BY <3>1 DEF Owed
  <2>3. QED
    BY <2>1, <2>2
<1>4. CASE RunEvent
  BY <1>4, RunEventTakes DEF Channels!Next, Channels!Take
<1>5. CASE UNCHANGED queueVars
  BY <1>5 DEF queueVars, Owed
<1>6. QED
  BY <1>1, <1>2, <1>3, <1>4, <1>5 DEF QueueNext

LEMMA QueueStart ==
  ASSUME NQueues \in Nat \ {0}, QueueInit
  PROVE  QueueTypeOK /\ Channels!Init
  BY DEF QueueInit, QueueTypeOK, Channels!Init, Owed

\* The event queues implement the channels: every event is run once, in the
\* order in which it was added to its queue.
THEOREM QueuesDeliver ==
  ASSUME NQueues \in Nat \ {0}
  PROVE  QueueSpec => FifoDelivery
<1>1. QueueInit => QueueTypeOK /\ Channels!Init
  BY QueueStart
<1>2. QueueTypeOK /\ [QueueNext]_queueVars => QueueTypeOK' /\ [Channels!Next]_Owed
  BY QueueTypeStep, QueueStep
<1>3. QED
  BY <1>1, <1>2, PTL DEF QueueSpec, FifoDelivery, Channels!Spec
=============================================================================
