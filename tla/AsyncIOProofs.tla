--------------------------- MODULE AsyncIOProofs ---------------------------
(***************************************************************************)
(* Proofs about blt.async_io for any number of tasks, threads, VMs, refs   *)
(* and queued events, and for every MAX_THREADS and Backlog.               *)
(***************************************************************************)
EXTENDS AsyncIO, FiniteSetTheorems, SequenceTheorems, TLAPS

QueueProofs == INSTANCE EventQueueProofs WITH NQueues <- 1, Events <- Tasks

Alive == Workers({"looking", "running", "posted", "leaving"})

\* A worker that runs has a task.
RunningHasTask == \A w \in Workers({"running"}) : cur[w] \in Tasks

\* The inductive invariant behind type correctness: thread_count is a natural
\* number only because it counts the threads alive, and the completion queue
\* holds tasks only because running workers do.
PoolInv == TypeOK /\ PoolBounded /\ RunningHasTask

-----------------------------------------------------------------------------
(* Facts about the helpers. *)

LEMMA AliveFinite == /\ IsFiniteSet(Alive)
                     /\ Cardinality(Alive) \in Nat
  BY FS_Subset, FS_CardinalityType, AsyncIOAssumption DEF Alive, Workers

\* An event added to the completion queue keeps its type.
LEMMA AddToQueueType ==
  ASSUME NEW t \in Tasks, Queue!QueueTypeOK, Queue!AddToQueue(1, t)
  PROVE  Queue!QueueTypeOK'
  BY DEF Queue!QueueTypeOK, Queue!AddToQueue

\* So do the steps of the main thread that process it.
LEMMA ProcessEventsType ==
  ASSUME Queue!QueueTypeOK,
         Queue!ProcessEvents \/ Queue!NextQueue \/ Queue!RunEvent
  PROVE  Queue!QueueTypeOK'
<1>1. CASE Queue!ProcessEvents
  BY <1>1 DEF Queue!QueueTypeOK, Queue!ProcessEvents, Queue!Drain
<1>2. CASE Queue!NextQueue
  <2>1. turn = 1 BY <1>2 DEF Queue!QueueTypeOK, Queue!NextQueue
  <2>2. turn' = 0 /\ UNCHANGED <<eventQueue, localQueue>>
    BY <1>2, <2>1 DEF Queue!NextQueue
  <2>3. QED
    BY <2>2 DEF Queue!QueueTypeOK
<1>3. CASE Queue!RunEvent
  BY <1>3 DEF Queue!QueueTypeOK, Queue!RunEvent
<1>4. QED
  BY <1>1, <1>2, <1>3

LEMMA QueueUnchangedType ==
  ASSUME Queue!QueueTypeOK, UNCHANGED queueVars
  PROVE  Queue!QueueTypeOK'
  BY DEF Queue!QueueTypeOK, queueVars

\* The event that RunEvent runs is the completion of a task.
LEMMA HeadIsTask ==
  ASSUME Queue!QueueTypeOK, Queue!RunEvent
  PROVE  Head(localQueue) \in Tasks
  BY DEF Queue!QueueTypeOK, Queue!RunEvent

\* Handing a task to the pool keeps the pool's types and its thread count.
LEMMA DispatchPool ==
  ASSUME NEW t \in Tasks, PoolInv, dispatch_task(t), UNCHANGED cur
  PROVE  /\ task_list' \in Seq(Tasks)
         /\ thread_count' \in Nat
         /\ pc' \in [Threads -> {"off", "looking", "running", "posted", "leaving"}]
         /\ PoolBounded' /\ RunningHasTask'
<1>1. task_list' \in Seq(Tasks)
  BY DEF dispatch_task, PoolInv, TypeOK
<1>2. CASE UNCHANGED <<pc, thread_count>>
  BY <1>1, <1>2 DEF PoolInv, TypeOK, PoolBounded, RunningHasTask, Workers
<1>3. ASSUME NEW w \in Workers({"off"}),
             NeedsThread(Len(task_list) + 1),
             pc' = [pc EXCEPT ![w] = "looking"],
             thread_count' = CountStarted
      PROVE  /\ thread_count' \in Nat
             /\ pc' \in [Threads -> {"off", "looking", "running", "posted", "leaving"}]
             /\ PoolBounded' /\ RunningHasTask'
  <2>1. Alive' = Alive \union {w} /\ w \notin Alive
    BY <1>3 DEF PoolInv, TypeOK, Alive, Workers
  <2>2. Cardinality(Alive') = Cardinality(Alive) + 1
    BY <2>1, AliveFinite, FS_AddElement
  <2>3. thread_count = Cardinality(Alive) /\ thread_count <= MAX_THREADS
    BY DEF PoolInv, PoolBounded, Alive
  <2>4. thread_count' = thread_count + 1 /\ thread_count < MAX_THREADS
    BY <1>3, <2>3, AliveFinite, AsyncIOAssumption DEF NeedsThread, CountStarted
  <2>5. PoolBounded'
    BY <2>2, <2>3, <2>4, AliveFinite, AsyncIOAssumption DEF PoolBounded, Alive
  <2>6. QED
    BY <1>3, <2>4, <2>5 DEF PoolInv, TypeOK, Workers, RunningHasTask
<1>4. QED
  BY <1>1, <1>2, <1>3 DEF dispatch_task, PoolInv, TypeOK

\* A worker's step that is not its last keeps the threads that are alive.
LEMMA WorkerStaysAlive ==
  ASSUME NEW w \in Threads, TypeOK, PoolBounded,
         pc[w] \in {"looking", "running", "posted"},
         NEW step \in {"looking", "running", "posted", "leaving"},
         pc' = [pc EXCEPT ![w] = step],
         UNCHANGED thread_count
  PROVE  /\ pc' \in [Threads -> {"off", "looking", "running", "posted", "leaving"}]
         /\ PoolBounded'
<1>1. Alive' = Alive
  BY DEF TypeOK, Alive, Workers
<1>2. QED
  BY <1>1 DEF TypeOK, PoolBounded, Alive

\* A worker that says it is gone was counted until now.
LEMMA LeavePool ==
  ASSUME NEW w \in Threads, TypeOK, PoolBounded, Leave(w)
  PROVE  thread_count' \in Nat /\ PoolBounded'
<1>1. Alive' = Alive \ {w} /\ w \in Alive
  BY DEF TypeOK, Alive, Workers, Leave
<1>2. Cardinality(Alive') = Cardinality(Alive) - 1 /\ Cardinality(Alive') \in Nat
  BY <1>1, AliveFinite, FS_RemoveElement, FS_CardinalityType
<1>3. QED
  BY <1>2, AliveFinite, AsyncIOAssumption DEF PoolBounded, Alive, Leave

-----------------------------------------------------------------------------
LEMMA PoolInvInit == Init => PoolInv
<1> SUFFICES ASSUME Init PROVE PoolInv
  OBVIOUS
<1>1. TypeOK
  BY AsyncIOAssumption DEF Init, TypeOK, States!StatesInit, States!StatesTypeOK,
     States!EmptyRegistry, Queue!QueueInit, Queue!QueueTypeOK
<1>2. Alive = {} /\ Workers({"running"}) = {}
  BY DEF Init, Alive, Workers
<1>3. PoolBounded
  <2>1. thread_count = 0 /\ Cardinality(Alive) = 0
    BY <1>2, FS_EmptySet DEF Init
  <2>2. QED
    BY <2>1, AsyncIOAssumption DEF PoolBounded, Alive
<1>4. QED
  BY <1>1, <1>2, <1>3 DEF PoolInv, RunningHasTask

LEMMA PoolInvStep == PoolInv /\ [Next]_vars => PoolInv'
<1> SUFFICES ASSUME PoolInv, [Next]_vars PROVE PoolInv'
  OBVIOUS
<1> USE DEF PoolInv
<1>1. ASSUME NEW v \in VMs, OpenState(v) \/ CloseState(v)
      PROVE  PoolInv'
  <2>1. States!StatesTypeOK'
    <3>1. States!EmptyRegistry \in [Refs -> Tasks \union {NoTask}]
      BY DEF States!EmptyRegistry
    <3>2. CASE OpenState(v)
      BY <3>1, <3>2 DEF OpenState, TypeOK, States!StatesTypeOK, States!add_active_state
    <3>3. CASE CloseState(v)
      BY <3>1, <3>3 DEF CloseState, TypeOK, States!StatesTypeOK, States!remove_active_state
    <3>4. QED
      BY <1>1, <3>2, <3>3
  <2>2. /\ UNCHANGED <<taskVars, poolVars, queueVars, mainVars, calls, drops>>
        /\ asker' \in [Tasks -> VMs \union {NoVM}]
    BY <1>1 DEF OpenState, CloseState, TypeOK, history
  <2>3. QED
    BY <2>1, <2>2, QueueUnchangedType
    DEF TypeOK, PoolBounded, RunningHasTask, Workers, taskVars, poolVars, mainVars
<1>2. ASSUME NEW t \in Tasks, NEW v \in VMs, Submit(t, v)
      PROVE  PoolInv'
  <2>1. PICK r \in Refs : States!luaL_ref(v, r, t) /\ ref' = [ref EXCEPT ![t] = r]
    BY <1>2 DEF Submit
  <2>2. States!StatesTypeOK' /\ ref' \in [Tasks -> Refs \union {NoRef}]
    BY <2>1 DEF TypeOK, States!StatesTypeOK, States!luaL_ref
  <2>3. /\ owner' \in [Tasks -> VMs \union Coroutines \union {NoVM}]
        /\ asker' \in [Tasks -> VMs \union {NoVM}]
    BY <1>2 DEF Submit, TypeOK, States!Caller
  <2>4. /\ task_list' \in Seq(Tasks)
        /\ thread_count' \in Nat
        /\ pc' \in [Threads -> {"off", "looking", "running", "posted", "leaving"}]
        /\ PoolBounded' /\ RunningHasTask'
    BY <1>2, DispatchPool DEF Submit
  <2>5. Queue!QueueTypeOK'
    BY <1>2, QueueUnchangedType DEF Submit, TypeOK
  <2>6. QED
    BY <1>2, <2>2, <2>3, <2>4, <2>5 DEF Submit, TypeOK, mainVars, history
<1>3. ASSUME NEW w \in Threads, Worker(w)
      PROVE  PoolInv'
  <2>1. WorkerUnchanged
    BY <1>3 DEF Worker, TakeTask, GiveUp, Leave, Post, Return
  <2>2. /\ States!StatesTypeOK'
        /\ UNCHANGED <<taskVars, mainVars, history>>
    BY <2>1 DEF TypeOK, States!StatesTypeOK, WorkerUnchanged, luaVars
  <2>3. Queue!QueueTypeOK' /\ cur' \in [Threads -> Tasks \union {NoTask}]
    <3>1. CASE TakeTask(w)
      BY <3>1, QueueUnchangedType DEF TakeTask, TypeOK
    <3>2. CASE GiveUp(w)
      BY <3>2, QueueUnchangedType DEF GiveUp, TypeOK
    <3>3. CASE Leave(w)
      BY <3>3, QueueUnchangedType DEF Leave, TypeOK
    <3>4. CASE Post(w)
      BY <3>4, AddToQueueType DEF Post, TypeOK, RunningHasTask, Workers
    <3>5. CASE Return(w)
      BY <3>5, QueueUnchangedType DEF Return, TypeOK
    <3>6. QED
      BY <1>3, <3>1, <3>2, <3>3, <3>4, <3>5 DEF Worker
  <2>4. /\ task_list' \in Seq(Tasks)
        /\ thread_count' \in Nat
        /\ pc' \in [Threads -> {"off", "looking", "running", "posted", "leaving"}]
        /\ PoolBounded'
    <3>1. CASE TakeTask(w)
      <4>1. Tail(task_list) \in Seq(Tasks)
        BY <3>1 DEF TakeTask, TypeOK
      <4>2. QED
        BY <3>1, <4>1, WorkerStaysAlive DEF TakeTask, Popped, TypeOK
    <3>2. CASE GiveUp(w)
      BY <3>2, WorkerStaysAlive DEF GiveUp, TypeOK
    <3>3. CASE Leave(w)
      BY <3>3, LeavePool DEF Leave, TypeOK
    <3>4. CASE Post(w)
      BY <3>4, WorkerStaysAlive DEF Post, TypeOK
    <3>5. CASE Return(w)
      BY <3>5, WorkerStaysAlive DEF Return, TypeOK
    <3>6. QED
      BY <1>3, <3>1, <3>2, <3>3, <3>4, <3>5 DEF Worker
  <2>5. RunningHasTask'
    BY <1>3 DEF Worker, TakeTask, GiveUp, Leave, Post, Return,
       RunningHasTask, Workers, TypeOK
  <2>6. QED
    BY <2>2, <2>3, <2>4, <2>5 DEF TypeOK, taskVars, mainVars, history
<1>4. CASE MainLoop
  <2>1. UNCHANGED poolVars
    BY <1>4 DEF MainLoop, Update, EndOfQueue, DropCompletion, RunCompletion, CallbackReturns
  <2>2. Queue!QueueTypeOK'
    BY <1>4, ProcessEventsType, QueueUnchangedType
    DEF MainLoop, Update, EndOfQueue, DropCompletion, RunCompletion, CallbackReturns, TypeOK
  <2>3. /\ States!StatesTypeOK'
        /\ owner' \in [Tasks -> VMs \union Coroutines \union {NoVM}]
        /\ asker' \in [Tasks -> VMs \union {NoVM}]
        /\ ref' \in [Tasks -> Refs \union {NoRef}]
        /\ updates' \in 0..2
        /\ calling' \in Tasks \union {NoTask}
        /\ calls' \in [Tasks -> Nat]
        /\ drops' \in [Tasks -> Nat]
    <3>1. CASE Update
      BY <3>1 DEF Update, CountUpdate, TypeOK, States!StatesTypeOK, luaVars, taskVars, history
    <3>2. CASE EndOfQueue
      BY <3>2 DEF EndOfQueue, TypeOK, States!StatesTypeOK, luaVars, taskVars, mainVars, history
    <3>3. CASE DropCompletion
      BY <3>3, HeadIsTask
      DEF DropCompletion, TypeOK, States!StatesTypeOK, luaVars, mainVars
    <3>4. CASE RunCompletion
      BY <3>4, HeadIsTask
      DEF RunCompletion, TypeOK, States!StatesTypeOK, luaVars, taskVars
    <3>5. CASE CallbackReturns
      BY <3>5
      DEF CallbackReturns, TypeOK, States!StatesTypeOK, States!luaL_unref, history
    <3>6. QED
      BY <1>4, <3>1, <3>2, <3>3, <3>4, <3>5 DEF MainLoop
  <2>4. QED
    BY <2>1, <2>2, <2>3 DEF TypeOK, PoolBounded, RunningHasTask, Workers, poolVars
<1>5. CASE UNCHANGED vars
  BY <1>5, QueueUnchangedType
  DEF TypeOK, PoolBounded, RunningHasTask, Workers, States!StatesTypeOK,
      vars, luaVars, taskVars, poolVars, mainVars, history
<1>6. QED
  BY <1>1, <1>2, <1>3, <1>4, <1>5 DEF Next

\* Every variable keeps its type, whatever the interleaving.
THEOREM TypeCorrect == Spec => []TypeOK
<1>1. Spec => []PoolInv
  BY PoolInvInit, PoolInvStep, PTL DEF Spec
<1>2. PoolInv => TypeOK
  BY DEF PoolInv
<1>3. QED
  BY <1>1, <1>2, PTL

\* The pool never outgrows MAX_THREADS and thread_count is exact.
THEOREM PoolStaysBounded == Spec => []PoolBounded
<1>1. Spec => []PoolInv
  BY PoolInvInit, PoolInvStep, PTL DEF Spec
<1>2. PoolInv => PoolBounded
  BY DEF PoolInv
<1>3. QED
  BY <1>1, <1>2, PTL

-----------------------------------------------------------------------------
\* Only a dispatch can leave tasks unserved, and only while thread_count counts
\* a thread that has already given up.
LEMMA StrandingStep ==
  ASSUME PoolInv, [Next]_vars, Served, ~Served'
  PROVE  /\ Workers({"leaving"}) # {}
         /\ Len(task_list') = Len(task_list) + 1
<1> USE DEF PoolInv
<1> DEFINE InLoop == Workers({"looking", "running", "posted"})
<1>1. task_list' # <<>> /\ InLoop' = {}
  BY DEF Served
<1>2. ASSUME NEW t \in Tasks, NEW v \in VMs, Submit(t, v)
      PROVE  /\ Workers({"leaving"}) # {}
             /\ Len(task_list') = Len(task_list) + 1
  <2>1. dispatch_task(t)
    BY <1>2 DEF Submit
  <2>2. Len(task_list') = Len(task_list) + 1
    BY <2>1 DEF dispatch_task, TypeOK
  <2>3. UNCHANGED <<pc, thread_count>>
    BY <1>1, <2>1 DEF dispatch_task, TypeOK, Workers
  <2>4. InLoop = {}
    BY <1>1, <2>3 DEF Workers
  <2>5. thread_count # 0
    <3>1. ~NeedsThread(Len(task_list) + 1)
      <4>1. SUFFICES ASSUME NEW w \in Workers({"off"}), pc' = [pc EXCEPT ![w] = "looking"]
                     PROVE  FALSE
        BY <2>1 DEF dispatch_task
      <4>2. w \in InLoop'
        BY <4>1 DEF Workers, TypeOK
      <4>3. QED
        BY <1>1, <4>2
    <3>2. QED
      BY <3>1 DEF NeedsThread
  <2>6. Alive # {}
    BY <2>5, FS_EmptySet DEF PoolBounded, Alive
  <2>7. QED
    BY <2>2, <2>4, <2>6 DEF Alive, Workers
<1>3. ASSUME NEW w \in Threads, Worker(w)
      PROVE  FALSE
  <2>1. CASE TakeTask(w)
    BY <1>1, <2>1 DEF TakeTask, Workers, TypeOK
  <2>2. CASE GiveUp(w)
    BY <1>1, <2>2 DEF GiveUp, NothingToDo
  <2>3. CASE Leave(w)
    BY <1>1, <2>3 DEF Leave, Workers, TypeOK, Served
  <2>4. CASE Post(w)
    BY <1>1, <2>4 DEF Post, Workers, TypeOK
  <2>5. CASE Return(w)
    BY <1>1, <2>5 DEF Return, Workers, TypeOK
  <2>6. QED
    BY <1>3, <2>1, <2>2, <2>3, <2>4, <2>5 DEF Worker
<1>4. ASSUME UNCHANGED poolVars
      PROVE  FALSE
  BY <1>4 DEF Served, Workers, poolVars
<1>5. ASSUME NEW v \in VMs, OpenState(v) \/ CloseState(v)
      PROVE  FALSE
  BY <1>4, <1>5 DEF OpenState, CloseState
<1>6. CASE MainLoop
  BY <1>4, <1>6
  DEF MainLoop, Update, EndOfQueue, DropCompletion, RunCompletion, CallbackReturns
<1>7. CASE UNCHANGED vars
  BY <1>4, <1>7 DEF vars
<1>8. QED
  BY <1>2, <1>3, <1>5, <1>6, <1>7 DEF Next

\* The worker pool strands no task, except through a dispatch that counts on a
\* thread already on its way out.
THEOREM OnlyLateDispatch == Spec => OnlyLateDispatchStrands
<1>1. Spec => []PoolInv
  BY PoolInvInit, PoolInvStep, PTL DEF Spec
<1>2. PoolInv /\ [Next]_vars
        => [Served /\ ~Served' => /\ Workers({"leaving"}) # {}
                                  /\ Len(task_list') = Len(task_list) + 1]_vars
  BY StrandingStep
<1>3. QED
  BY <1>1, <1>2, PTL DEF Spec, OnlyLateDispatchStrands

-----------------------------------------------------------------------------
\* A step of the system is a step of the completion queue or leaves it alone.
LEMMA StepOfQueue ==
  ASSUME PoolInv, [Next]_vars
  PROVE  [Queue!QueueNext]_queueVars
<1> USE DEF PoolInv
<1>1. ASSUME NEW v \in VMs, OpenState(v) \/ CloseState(v)
      PROVE  UNCHANGED queueVars
  BY <1>1 DEF OpenState, CloseState
<1>2. ASSUME NEW t \in Tasks, NEW v \in VMs, Submit(t, v)
      PROVE  UNCHANGED queueVars
  BY <1>2 DEF Submit
<1>3. ASSUME NEW w \in Threads, Worker(w)
      PROVE  [Queue!QueueNext]_queueVars
  <2>1. CASE Post(w)
    BY <2>1 DEF Post, RunningHasTask, Workers, Queue!QueueNext
  <2>2. QED
    BY <1>3, <2>1 DEF Worker, TakeTask, GiveUp, Leave, Return
<1>4. CASE MainLoop
  BY <1>4 DEF MainLoop, Update, EndOfQueue, DropCompletion, RunCompletion, CallbackReturns,
              Queue!QueueNext
<1>5. CASE UNCHANGED vars
  BY <1>5 DEF vars
<1>6. QED
  BY <1>1, <1>2, <1>3, <1>4, <1>5 DEF Next

\* What EventQueueProofs shows of one queue, said of the completion queue.
LEMMA SameQueue ==
  /\ Queue!Owed = QueueProofs!Owed
  /\ Queue!QueueInit <=> QueueProofs!QueueInit
  /\ Queue!QueueTypeOK <=> QueueProofs!QueueTypeOK
  /\ Queue!QueueNext => QueueProofs!QueueNext
  /\ queueVars = QueueProofs!queueVars
<1>1. Queue!Owed = QueueProofs!Owed
  BY DEF Queue!Owed, QueueProofs!Owed
<1>2. Queue!QueueInit <=> QueueProofs!QueueInit
  BY DEF Queue!QueueInit, QueueProofs!QueueInit
<1>3. Queue!QueueTypeOK <=> QueueProofs!QueueTypeOK
  BY DEF Queue!QueueTypeOK, QueueProofs!QueueTypeOK
<1>4. Queue!QueueNext => QueueProofs!QueueNext
  <2>1. \A q \in 1..1 : Queue!Drain(q) => QueueProofs!Drain(q)
    BY DEF Queue!Drain, QueueProofs!Drain
  <2>2. \A q \in 1..1, t \in Tasks : Queue!AddToQueue(q, t) => QueueProofs!AddToQueue(q, t)
    BY DEF Queue!AddToQueue, QueueProofs!AddToQueue
  <2>3. Queue!ProcessEvents => QueueProofs!ProcessEvents
    BY <2>1 DEF Queue!ProcessEvents, QueueProofs!ProcessEvents
  <2>4. Queue!NextQueue => QueueProofs!NextQueue
    BY DEF Queue!NextQueue, QueueProofs!NextQueue, Queue!Drain, QueueProofs!Drain
  <2>5. Queue!RunEvent => QueueProofs!RunEvent
    BY DEF Queue!RunEvent, QueueProofs!RunEvent
  <2>6. QED
    BY <2>2, <2>3, <2>4, <2>5 DEF Queue!QueueNext, QueueProofs!QueueNext
<1>5. queueVars = QueueProofs!queueVars
  BY DEF queueVars, QueueProofs!queueVars
<1>6. QED
  BY <1>1, <1>2, <1>3, <1>4, <1>5

\* Completions are run once each, in the order the workers queued them.
THEOREM CompletionsInOrder == Spec => CompletionsFifo
<1>1. Spec => []PoolInv
  BY PoolInvInit, PoolInvStep, PTL DEF Spec
<1>2. Init => Queue!Channels!Init
  <2>1. Init => QueueProofs!Channels!Init
    BY SameQueue, QueueProofs!QueueStart DEF Init
  <2>2. QED
    BY <2>1, SameQueue DEF Queue!Channels!Init, QueueProofs!Channels!Init
<1>3. PoolInv /\ [Next]_vars => [Queue!Channels!Next]_(Queue!Owed)
  <2>1. SUFFICES ASSUME PoolInv, [Next]_vars
                 PROVE  [Queue!Channels!Next]_(Queue!Owed)
    OBVIOUS
  <2>2. QueueProofs!QueueTypeOK /\ [QueueProofs!QueueNext]_(QueueProofs!queueVars)
    BY <2>1, SameQueue, StepOfQueue DEF PoolInv, TypeOK, queueVars, QueueProofs!queueVars
  <2>3. [QueueProofs!Channels!Next]_(QueueProofs!Owed)
    BY <2>2, QueueProofs!QueueStep
  <2>4. QED
    BY <2>3
    DEF Queue!Channels!Next, Queue!Channels!Put, Queue!Channels!Take,
        QueueProofs!Channels!Next, QueueProofs!Channels!Put, QueueProofs!Channels!Take,
        Queue!Owed, QueueProofs!Owed
<1>4. QED
  BY <1>1, <1>2, <1>3, PTL DEF Spec, CompletionsFifo, Queue!FifoDelivery, Queue!Channels!Spec

-----------------------------------------------------------------------------
(* No task is lost, none is done twice, and what AsyncRequests promises to *)
(* Lua is kept.                                                            *)

\* The places of EachTaskOnce, one by one.
Waiting == Range(task_list)
Queued  == Range(eventQueue[1])
Drained == Range(localQueue)

AtOnePlace ==
  /\ IsInjective(task_list) /\ IsInjective(eventQueue[1]) /\ IsInjective(localQueue)
  /\ \A w1, w2 \in Workers({"running"}) : cur[w1] = cur[w2] => w1 = w2
  /\ Waiting \intersect WithWorker = {} /\ Waiting \intersect Queued = {}
  /\ Waiting \intersect Drained = {}    /\ WithWorker \intersect Queued = {}
  /\ WithWorker \intersect Drained = {} /\ Queued \intersect Drained = {}
  /\ Waiting \union WithWorker \union Queued \union Drained = Pending

\* What a completion counts: nothing before the call, and at most one end.
CountedOnce == \A t \in Tasks : /\ calls[t] + drops[t] <= 1
                                /\ owner[t] = NoVM => ~Resolved(t)

\* The local queue is empty outside ProcessEvents.
LocalQueueDone == turn = 0 => localQueue = <<>>

\* The strengthening of EachTaskOnce that every step keeps.
OnceInv == PoolInv /\ AtOnePlace /\ CountedOnce /\ LocalQueueDone

-----------------------------------------------------------------------------
(* Sequences without repetition. *)

LEMMA AppendFresh ==
  ASSUME NEW S, NEW s \in Seq(S), NEW e \in S, IsInjective(s), e \notin Range(s)
  PROVE  IsInjective(Append(s, e)) /\ Range(Append(s, e)) = Range(s) \union {e}
<1> DEFINE a == Append(s, e)
<1>1. /\ DOMAIN a = 1..Len(s) + 1 /\ DOMAIN s = 1..Len(s) /\ Len(s) \in Nat
      /\ \A i \in 1..Len(s) : a[i] = s[i]
      /\ a[Len(s) + 1] = e
  OBVIOUS
<1> HIDE DEF a
<1>2. \A i \in DOMAIN a : i \in DOMAIN s \/ i = Len(s) + 1
  BY <1>1
<1>3. Range(a) = Range(s) \union {e}
  BY <1>1, <1>2 DEF Range
<1>4. IsInjective(a)
  BY <1>1, <1>2 DEF IsInjective, Range
<1>5. QED
  BY <1>3, <1>4 DEF a

LEMMA PopFront ==
  ASSUME NEW S, NEW s \in Seq(S), s # <<>>, IsInjective(s)
  PROVE  /\ Head(s) \in Range(s)
         /\ IsInjective(Tail(s))
         /\ Range(Tail(s)) = Range(s) \ {Head(s)}
<1> DEFINE t == Tail(s)
           h == Head(s)
<1>1. /\ DOMAIN s = 1..Len(s) /\ Len(s) \in Nat \ {0}
      /\ DOMAIN t = 1..(Len(s) - 1)
      /\ \A i \in 1..(Len(s) - 1) : t[i] = s[i + 1]
      /\ h = s[1]
  OBVIOUS
<1> HIDE DEF t, h
<1>2. h \in Range(s)
  BY <1>1 DEF Range
<1>3. IsInjective(t)
  BY <1>1 DEF IsInjective
<1>4. Range(t) \subseteq Range(s) \ {h}
  BY <1>1 DEF IsInjective, Range
<1>5. ASSUME NEW x \in Range(s) \ {h} PROVE x \in Range(t)
  <2>1. PICK i \in 1..Len(s) : x = s[i]
    BY <1>1 DEF Range
  <2>2. i - 1 \in 1..(Len(s) - 1) /\ t[i - 1] = x
    BY <1>1, <2>1
  <2>3. QED
    BY <1>1, <2>2 DEF Range
<1>6. QED
  BY <1>2, <1>3, <1>4, <1>5 DEF t, h

LEMMA EmptyQueueFacts == IsInjective(<<>>) /\ Range(<<>>) = {}
  BY DEF IsInjective, Range

LEMMA OnePlaceMeaning == EachTaskOnce <=> AtOnePlace
<1> DEFINE places == <<Waiting, WithWorker, Queued, Drained>>
<1>1. DOMAIN places = 1..4 /\ Range(places) = {Waiting, WithWorker, Queued, Drained}
  BY DEF Range
<1>2. UNION Range(places) = Waiting \union WithWorker \union Queued \union Drained
  BY <1>1
<1>3. (\A i, j \in 1..4 : i # j => places[i] \intersect places[j] = {})
      <=> /\ Waiting \intersect WithWorker = {} /\ Waiting \intersect Queued = {}
          /\ Waiting \intersect Drained = {}    /\ WithWorker \intersect Queued = {}
          /\ WithWorker \intersect Drained = {} /\ Queued \intersect Drained = {}
  OBVIOUS
<1>4. QED
  BY <1>2, <1>3 DEF EachTaskOnce, AtOnePlace, Waiting, Queued, Drained

LEMMA OnceTypes ==
  ASSUME PoolInv
  PROVE  /\ task_list \in Seq(Tasks)
         /\ eventQueue[1] \in Seq(Tasks)
         /\ localQueue \in Seq(Tasks)
         /\ calls \in [Tasks -> Nat] /\ drops \in [Tasks -> Nat]
  BY DEF PoolInv, TypeOK, Queue!QueueTypeOK

-----------------------------------------------------------------------------
(* One lemma for each way a task moves. *)

\* A new task goes to the end of task_list.
LEMMA SubmitOnce ==
  ASSUME OnceInv, NEW t \in Tasks, NEW v \in VMs, Submit(t, v)
  PROVE  AtOnePlace' /\ CountedOnce'
<1> USE DEF OnceInv
<1>0. PICK L \in States!Caller(v) : owner' = [owner EXCEPT ![t] = L]
  BY DEF Submit
<1>1. /\ owner[t] = NoVM /\ owner' = [owner EXCEPT ![t] = L]
      /\ task_list' = Append(task_list, t)
      /\ UNCHANGED <<cur, eventQueue, localQueue, calls, drops>>
  BY <1>0 DEF Submit, dispatch_task, queueVars
<1>2. WithWorker' = WithWorker /\ Workers({"running"})' = Workers({"running"})
  <2>1. Workers({"running"})' = Workers({"running"})
    BY DEF Submit, dispatch_task, Workers, PoolInv, TypeOK
  <2>2. QED
    BY <1>1, <2>1 DEF WithWorker
<1>3. L # NoVM /\ ~Resolved(t)
  BY <1>1, AsyncIOAssumption DEF CountedOnce, States!Caller
<1>4. t \notin Pending /\ Pending' = Pending \union {t}
  BY <1>1, <1>3 DEF Pending, Resolved, PoolInv, TypeOK
<1>5. t \notin Waiting
  BY <1>4 DEF AtOnePlace
<1>6. IsInjective(task_list') /\ Waiting' = Waiting \union {t}
  BY <1>1, <1>5, OnceTypes, AppendFresh DEF AtOnePlace, Waiting
<1>7. Queued' = Queued /\ Drained' = Drained
  BY <1>1 DEF Queued, Drained
<1>8. AtOnePlace'
  BY <1>1, <1>2, <1>4, <1>6, <1>7 DEF AtOnePlace
<1>9. CountedOnce'
  BY <1>1, <1>3 DEF CountedOnce, Resolved, PoolInv, TypeOK
<1>10. QED
  BY <1>8, <1>9

\* A worker takes the front of task_list.
LEMMA TakeOnce ==
  ASSUME OnceInv, NEW w \in Threads, TakeTask(w)
  PROVE  AtOnePlace'
<1> USE DEF OnceInv
<1> DEFINE t == Head(task_list)
<1>1. /\ pc[w] = "looking" /\ pc' = [pc EXCEPT ![w] = "running"]
      /\ cur' = [cur EXCEPT ![w] = t]
      /\ task_list # <<>> /\ task_list' = Tail(task_list)
      /\ UNCHANGED <<eventQueue, localQueue, owner, calls, drops>>
  BY DEF TakeTask, Popped, WorkerUnchanged, queueVars, taskVars, history
<1>2. t \in Waiting /\ IsInjective(task_list') /\ Waiting' = Waiting \ {t}
  BY <1>1, OnceTypes, PopFront DEF AtOnePlace, Waiting
<1> HIDE DEF t
<1>3. Workers({"running"})' = Workers({"running"}) \union {w} /\ w \notin Workers({"running"})
  BY <1>1 DEF Workers, PoolInv, TypeOK
<1>4. /\ cur'[w] = t
      /\ \A u \in Workers({"running"}) : cur'[u] = cur[u]
  BY <1>1, <1>3 DEF Workers, PoolInv, TypeOK
<1>5. WithWorker' = WithWorker \union {t}
  BY <1>3, <1>4 DEF WithWorker
<1>6. \A w1, w2 \in Workers({"running"})' : cur'[w1] = cur'[w2] => w1 = w2
  BY <1>2, <1>3, <1>4 DEF AtOnePlace, WithWorker
<1>7. Queued' = Queued /\ Drained' = Drained /\ Pending' = Pending
  BY <1>1 DEF Queued, Drained, Pending, Resolved
<1>8. QED
  BY <1>1, <1>2, <1>5, <1>6, <1>7 DEF AtOnePlace

\* A worker queues the completion of its task.
LEMMA PostOnce ==
  ASSUME OnceInv, NEW w \in Threads, Post(w)
  PROVE  AtOnePlace'
<1> USE DEF OnceInv
<1> DEFINE t == cur[w]
<1>1. /\ pc[w] = "running" /\ pc' = [pc EXCEPT ![w] = "posted"]
      /\ eventQueue'[1] = Append(eventQueue[1], t)
      /\ UNCHANGED <<task_list, cur, localQueue, owner, calls, drops>>
  BY DEF Post, Queue!AddToQueue, WorkerUnchanged, taskVars, history,
         PoolInv, TypeOK, Queue!QueueTypeOK
<1>2. t \in Tasks /\ t \in WithWorker
  BY <1>1 DEF PoolInv, RunningHasTask, WithWorker, Workers
<1>3. Workers({"running"})' = Workers({"running"}) \ {w} /\ w \in Workers({"running"})
  BY <1>1 DEF Workers, PoolInv, TypeOK
<1>4. WithWorker' = WithWorker \ {t}
  BY <1>1, <1>3 DEF WithWorker, AtOnePlace
<1>5. \A w1, w2 \in Workers({"running"})' : cur'[w1] = cur'[w2] => w1 = w2
  BY <1>1, <1>3 DEF AtOnePlace
<1> HIDE DEF t
<1>6. IsInjective(eventQueue'[1]) /\ Queued' = Queued \union {t}
  BY <1>1, <1>2, OnceTypes, AppendFresh DEF AtOnePlace, Queued
<1>7. Waiting' = Waiting /\ Drained' = Drained /\ Pending' = Pending
  BY <1>1 DEF Waiting, Drained, Pending, Resolved
<1>8. QED
  BY <1>1, <1>2, <1>4, <1>5, <1>6, <1>7 DEF AtOnePlace

\* Steps of a worker that move no task.
LEMMA IdleOnce ==
  ASSUME OnceInv, NEW w \in Threads, GiveUp(w) \/ Leave(w) \/ Return(w)
  PROVE  AtOnePlace'
<1> USE DEF OnceInv
<1>1. UNCHANGED <<task_list, eventQueue, localQueue, owner, calls, drops>>
  BY DEF GiveUp, Leave, Return, WorkerUnchanged, queueVars, taskVars, history
<1>2. /\ Workers({"running"})' = Workers({"running"})
      /\ \A u \in Workers({"running"}) : cur'[u] = cur[u]
  BY DEF GiveUp, Leave, Return, Workers, PoolInv, TypeOK
<1>3. WithWorker' = WithWorker
  BY <1>2 DEF WithWorker
<1>4. Waiting' = Waiting /\ Queued' = Queued /\ Drained' = Drained /\ Pending' = Pending
  BY <1>1 DEF Waiting, Queued, Drained, Pending, Resolved
<1>5. QED
  BY <1>1, <1>2, <1>3, <1>4 DEF AtOnePlace

\* ProcessEvents moves everything that is queued to the empty local queue.
LEMMA ProcessOnce ==
  ASSUME OnceInv, Queue!ProcessEvents, UNCHANGED <<poolVars, owner, calls, drops>>
  PROVE  AtOnePlace'
<1> USE DEF OnceInv
<1>1. /\ localQueue = <<>> /\ localQueue' = eventQueue[1] /\ eventQueue'[1] = <<>>
      /\ UNCHANGED <<task_list, pc, cur, owner, calls, drops>>
  BY DEF Queue!ProcessEvents, Queue!Drain, LocalQueueDone, poolVars,
         PoolInv, TypeOK, Queue!QueueTypeOK
<1>2. Drained = {} /\ Drained' = Queued /\ Queued' = {}
  BY <1>1, EmptyQueueFacts DEF Drained, Queued
<1>3. Waiting' = Waiting /\ Pending' = Pending /\ WithWorker' = WithWorker
      /\ Workers({"running"})' = Workers({"running"})
  BY <1>1 DEF Waiting, Pending, Resolved, WithWorker, Workers
<1>4. QED
  BY <1>1, <1>2, <1>3, EmptyQueueFacts DEF AtOnePlace

\* A completion leaves the local queue and, called or dropped, ends its task.
LEMMA CompletionOnce ==
  ASSUME OnceInv, DropCompletion \/ RunCompletion
  PROVE  /\ AtOnePlace' /\ CountedOnce'
         /\ Head(localQueue) \in Pending
         /\ Pending' = Pending \ {Head(localQueue)}
<1> USE DEF OnceInv
<1> DEFINE t == Head(localQueue)
<1>1. /\ localQueue # <<>> /\ localQueue' = Tail(localQueue)
      /\ UNCHANGED <<task_list, pc, cur, eventQueue, owner>>
  BY DEF DropCompletion, RunCompletion, Queue!RunEvent, poolVars, taskVars
<1>2. \/ calls' = [calls EXCEPT ![t] = @ + 1] /\ UNCHANGED drops
      \/ drops' = [drops EXCEPT ![t] = @ + 1] /\ UNCHANGED calls
  BY DEF DropCompletion, RunCompletion
<1>3. t \in Drained /\ IsInjective(localQueue') /\ Drained' = Drained \ {t}
  BY <1>1, OnceTypes, PopFront DEF AtOnePlace, Drained
<1> HIDE DEF t
<1>4. t \in Pending
  BY <1>3 DEF AtOnePlace
<1>5. t \in Tasks /\ owner[t] # NoVM /\ calls[t] = 0 /\ drops[t] = 0
  BY <1>4, OnceTypes DEF Pending, Resolved
<1>6. /\ calls'[t] + drops'[t] = 1
      /\ \A u \in Tasks \ {t} : calls'[u] = calls[u] /\ drops'[u] = drops[u]
  BY <1>2, <1>5, OnceTypes
<1>7. Pending' = Pending \ {t}
  BY <1>1, <1>5, <1>6, OnceTypes DEF Pending, Resolved
<1>8. Waiting' = Waiting /\ WithWorker' = WithWorker /\ Queued' = Queued
      /\ Workers({"running"})' = Workers({"running"})
  BY <1>1 DEF Waiting, Queued, WithWorker, Workers
<1>9. AtOnePlace'
  BY <1>1, <1>3, <1>7, <1>8 DEF AtOnePlace
<1>10. CountedOnce'
  <2>1. SUFFICES ASSUME NEW u \in Tasks
                 PROVE  /\ calls'[u] + drops'[u] <= 1
                        /\ owner'[u] = NoVM => ~(calls'[u] + drops'[u] > 0)
    BY DEF CountedOnce, Resolved
  <2>2. CASE u = t
    BY <1>1, <1>5, <1>6, <2>2
  <2>3. CASE u # t
    BY <1>1, <1>6, <2>3 DEF CountedOnce, Resolved
  <2>4. QED
    BY <2>2, <2>3
<1>11. QED
  BY <1>4, <1>7, <1>9, <1>10 DEF t

-----------------------------------------------------------------------------
LEMMA OnceInvInit == Init => OnceInv
<1> SUFFICES ASSUME Init PROVE OnceInv
  OBVIOUS
<1>1. task_list = <<>> /\ eventQueue[1] = <<>> /\ localQueue = <<>>
  BY DEF Init, Queue!QueueInit
<1>2. Workers({"running"}) = {} /\ Pending = {}
  BY DEF Init, Workers, Pending
<1>3. AtOnePlace
  BY <1>1, <1>2, EmptyQueueFacts DEF AtOnePlace, Waiting, Queued, Drained, WithWorker
<1>4. CountedOnce /\ LocalQueueDone
  BY <1>1 DEF Init, CountedOnce, LocalQueueDone, Resolved
<1>5. QED
  BY <1>3, <1>4, PoolInvInit DEF OnceInv

LEMMA OnceInvStep == OnceInv /\ [Next]_vars => OnceInv'
<1> SUFFICES ASSUME OnceInv, [Next]_vars PROVE OnceInv'
  OBVIOUS
<1>1. PoolInv'
  BY PoolInvStep DEF OnceInv
<1>2. LocalQueueDone'
  <2>1. CASE UNCHANGED queueVars
    BY <2>1 DEF OnceInv, LocalQueueDone, queueVars
  <2>2. ASSUME NEW q \in {1}, NEW t \in Tasks, Queue!AddToQueue(q, t)
        PROVE  LocalQueueDone'
    BY <2>2 DEF OnceInv, LocalQueueDone, Queue!AddToQueue
  <2>3. CASE Queue!ProcessEvents
    BY <2>3 DEF Queue!ProcessEvents, Queue!Drain, LocalQueueDone
  <2>4. CASE Queue!NextQueue
    BY <2>4 DEF Queue!NextQueue, Queue!Drain, LocalQueueDone, OnceInv, PoolInv, TypeOK,
                Queue!QueueTypeOK
  <2>5. CASE Queue!RunEvent
    BY <2>5 DEF Queue!RunEvent, LocalQueueDone
  <2>6. QED
    BY StepOfQueue, <2>1, <2>2, <2>3, <2>4, <2>5 DEF OnceInv, Queue!QueueNext
<1>3. ASSUME UNCHANGED <<poolVars, queueVars, owner, calls, drops>>
      PROVE  AtOnePlace' /\ CountedOnce'
  BY <1>3 DEF OnceInv, AtOnePlace, CountedOnce, Resolved, Pending, Waiting, Queued, Drained,
              WithWorker, Workers, poolVars, queueVars
<1>4. AtOnePlace' /\ CountedOnce'
  <2>1. ASSUME NEW v \in VMs, OpenState(v) \/ CloseState(v)
        PROVE  AtOnePlace' /\ CountedOnce'
    BY <1>3, <2>1 DEF OpenState, CloseState, taskVars, history
  <2>2. ASSUME NEW t \in Tasks, NEW v \in VMs, Submit(t, v)
        PROVE  AtOnePlace' /\ CountedOnce'
    BY <2>2, SubmitOnce
  <2>3. ASSUME NEW w \in Threads, Worker(w)
        PROVE  AtOnePlace' /\ CountedOnce'
    <3>1. UNCHANGED <<owner, calls, drops>>
      BY <2>3 DEF Worker, TakeTask, GiveUp, Leave, Post, Return,
                  WorkerUnchanged, taskVars, history
    <3>2. CountedOnce'
      BY <3>1 DEF OnceInv, CountedOnce, Resolved
    <3>3. QED
      BY <2>3, <3>2, TakeOnce, PostOnce, IdleOnce DEF Worker
  <2>4. CASE Update
    <3>1. CASE Queue!ProcessEvents
      <4>1. UNCHANGED <<poolVars, owner, calls, drops>>
        BY <2>4 DEF Update, taskVars, history
      <4>2. CountedOnce'
        BY <4>1 DEF OnceInv, CountedOnce, Resolved
      <4>3. QED
        BY <3>1, <4>1, <4>2, ProcessOnce
    <3>2. CASE UNCHANGED queueVars
      BY <1>3, <2>4, <3>2 DEF Update, taskVars, history
    <3>3. QED
      BY <2>4, <3>1, <3>2 DEF Update
  <2>5. CASE EndOfQueue
    <3>1. UNCHANGED <<eventQueue, localQueue>>
      BY <2>5 DEF EndOfQueue, Queue!NextQueue, OnceInv, PoolInv, TypeOK,
                  Queue!QueueTypeOK, Queue!Drain
    <3>2. UNCHANGED <<poolVars, owner, calls, drops>>
      BY <2>5 DEF EndOfQueue, taskVars, history
    <3>3. QED
      BY <3>1, <3>2 DEF OnceInv, AtOnePlace, CountedOnce, Resolved, Pending, Waiting, Queued,
                        Drained, WithWorker, Workers, poolVars
  <2>6. CASE DropCompletion \/ RunCompletion
    BY <2>6, CompletionOnce
  <2>7. CASE CallbackReturns
    BY <1>3, <2>7 DEF CallbackReturns, history
  <2>8. CASE UNCHANGED vars
    BY <1>3, <2>8 DEF vars, taskVars, history
  <2>9. QED
    BY <2>1, <2>2, <2>3, <2>4, <2>5, <2>6, <2>7, <2>8 DEF Next, MainLoop
<1>5. QED
  BY <1>1, <1>2, <1>4 DEF OnceInv

\* A task that is asked for and not resolved is at one place, once.
THEOREM NoTaskLostOrDoubled == Spec => []EachTaskOnce
<1>1. Spec => []OnceInv
  BY OnceInvInit, OnceInvStep, PTL DEF Spec
<1>2. OnceInv => EachTaskOnce
  BY OnePlaceMeaning DEF OnceInv
<1>3. QED
  BY <1>1, <1>2, PTL

-----------------------------------------------------------------------------
(* async_io implements AsyncRequests. *)

Fates == [t \in Tasks |-> Fate(t)]

LEMMA FateMeaning ==
  ASSUME PoolInv, CountedOnce, NEW t \in Tasks
  PROVE  /\ owner[t] = NoVM => Fate(t) = "unmade"
         /\ t \in Pending => Fate(t) = "pending"
         /\ owner[t] # NoVM /\ calls[t] = 1 => Fate(t) = "called"
         /\ owner[t] # NoVM /\ drops[t] = 1 => Fate(t) = "dropped"
<1>1. /\ calls[t] \in Nat /\ drops[t] \in Nat /\ calls[t] + drops[t] <= 1
      /\ owner[t] = NoVM => calls[t] = 0 /\ drops[t] = 0
  BY OnceTypes DEF CountedOnce, Resolved
<1>2. t \in Pending <=> owner[t] # NoVM /\ calls[t] = 0 /\ drops[t] = 0
  BY <1>1 DEF Pending, Resolved
<1>3. CASE owner[t] = NoVM
  BY <1>1, <1>2, <1>3 DEF Fate
<1>4. CASE t \in Pending
  BY <1>1, <1>2, <1>4 DEF Fate
<1>5. CASE owner[t] # NoVM /\ calls[t] = 1
  BY <1>1, <1>2, <1>5 DEF Fate
<1>6. CASE owner[t] # NoVM /\ drops[t] = 1
  BY <1>1, <1>2, <1>6 DEF Fate
<1>7. QED
  BY <1>1, <1>2, <1>3, <1>4, <1>5, <1>6

\* A step that touches neither the owners nor the counts leaves every fate.
LEMMA FatesUnchanged ==
  ASSUME UNCHANGED <<owner, calls, drops>>
  PROVE  UNCHANGED Fates
  BY DEF Fates, Fate, Pending, Resolved

LEMMA PromiseStep ==
  ASSUME OnceInv, [Next]_vars
  PROVE  Promise!Next \/ UNCHANGED <<activeStates, owner, Fates>>
<1>2. ASSUME NEW v \in VMs, OpenState(v)
      PROVE  Promise!Next
  <2>1. UNCHANGED <<owner, Fates>>
    BY <1>2, FatesUnchanged DEF OpenState, taskVars, history
  <2>2. Promise!Open(v)
    BY <1>2, <2>1 DEF OpenState, States!add_active_state, Promise!Open, Fates
  <2>3. QED
    BY <2>2 DEF Promise!Next
<1>3. ASSUME NEW v \in VMs, CloseState(v)
      PROVE  Promise!Next
  <2>1. UNCHANGED <<owner, Fates>>
    BY <1>3, FatesUnchanged DEF CloseState, taskVars, history
  <2>2. Promise!Close(v)
    BY <1>3, <2>1 DEF CloseState, States!remove_active_state, Promise!Close, Fates
  <2>3. QED
    BY <2>2 DEF Promise!Next
<1>4. ASSUME NEW t \in Tasks, NEW v \in VMs, Submit(t, v)
      PROVE  Promise!Next
  <2>0. PICK L \in States!Caller(v) : owner' = [owner EXCEPT ![t] = L]
    BY <1>4 DEF Submit
  <2>1. /\ owner[t] = NoVM /\ owner' = [owner EXCEPT ![t] = L]
        /\ v \in activeStates /\ L # NoVM /\ L \in VMs \union Coroutines
        /\ L = v \/ L \in Coroutines \ activeStates
        /\ UNCHANGED <<activeStates, calls, drops>>
    BY <1>4, <2>0, AsyncIOAssumption
    DEF Submit, RunsLua, States!check_active_state, States!luaL_ref, States!Caller
  <2>2. ~Resolved(t)
    BY <2>1 DEF OnceInv, CountedOnce
  <2>3. Fate(t) = "unmade"
    BY <2>1, FateMeaning DEF OnceInv
  <2>4. Fate(t)' = "pending"
    BY <2>1, <2>2 DEF OnceInv, PoolInv, TypeOK, Pending, Resolved, Fate
  <2>5. \A u \in Tasks \ {t} : Fate(u)' = Fate(u)
    BY <2>1 DEF OnceInv, PoolInv, TypeOK, Fate, Pending, Resolved
  <2>6. Fates' = [Fates EXCEPT ![t] = "pending"]
    BY <2>4, <2>5 DEF Fates
  <2>7. Promise!Request(t, v, L)
    BY <2>1, <2>3, <2>6 DEF Promise!Request, Fates
  <2>8. QED
    BY <2>1, <2>7 DEF Promise!Next
<1>5. ASSUME DropCompletion \/ RunCompletion
      PROVE  Promise!Next
  <2>1. PICK t \in Tasks : t = Head(localQueue) /\ t \in Pending /\ owner[t] # NoVM
    BY <1>5, CompletionOnce DEF Pending
  <2>2. UNCHANGED <<activeStates, owner>>
    BY <1>5 DEF DropCompletion, RunCompletion, luaVars, taskVars
  <2>3. calls[t] = 0 /\ drops[t] = 0
    BY <2>1, OnceTypes DEF OnceInv, Pending, Resolved
  <2>4. Fate(t) = "pending"
    BY <2>1, FateMeaning DEF OnceInv
  <2>5. \A u \in Tasks \ {t} : Fate(u)' = Fate(u)
    <3>1. \A u \in Tasks \ {t} : calls'[u] = calls[u] /\ drops'[u] = drops[u]
      BY <1>5, <2>1, OnceTypes DEF OnceInv, DropCompletion, RunCompletion
    <3>2. QED
      BY <2>2, <3>1 DEF Fate, Pending, Resolved
  <2>6. CASE DropCompletion
    <3>1. owner[t] \notin activeStates /\ drops'[t] = 1 /\ calls'[t] = 0
      BY <2>1, <2>3, <2>6, OnceTypes DEF OnceInv, DropCompletion, States!check_active_state
    <3>2. Fate(t)' = "dropped"
      BY <2>1, <2>2, <3>1 DEF Fate, Pending, Resolved
    <3>3. Fates' = [Fates EXCEPT ![t] = "dropped"]
      BY <2>5, <3>2 DEF Fates
    <3>4. Promise!Drop(t)
      BY <2>1, <2>2, <2>4, <3>1, <3>3 DEF Promise!Drop, Fates
    <3>5. QED
      BY <2>1, <3>4 DEF Promise!Next
  <2>7. CASE RunCompletion
    <3>1. owner[t] \in activeStates /\ calls'[t] = 1 /\ drops'[t] = 0
      BY <2>1, <2>3, <2>7, OnceTypes DEF OnceInv, RunCompletion, States!check_active_state
    <3>2. Fate(t)' = "called"
      BY <2>1, <2>2, <3>1 DEF Fate, Pending, Resolved
    <3>3. Fates' = [Fates EXCEPT ![t] = "called"]
      BY <2>5, <3>2 DEF Fates
    <3>4. Promise!CallBack(t)
      BY <2>1, <2>2, <2>4, <3>1, <3>3 DEF Promise!CallBack, Fates
    <3>5. QED
      BY <2>1, <3>4 DEF Promise!Next
  <2>8. QED
    BY <1>5, <2>6, <2>7
<1>6. ASSUME UNCHANGED <<activeStates, owner, calls, drops>>
      PROVE  UNCHANGED <<activeStates, owner, Fates>>
  BY <1>6, FatesUnchanged
<1>7. ASSUME NEW w \in Threads, Worker(w)
      PROVE  UNCHANGED <<activeStates, owner, calls, drops>>
  BY <1>7 DEF Worker, TakeTask, GiveUp, Leave, Post, Return, WorkerUnchanged,
              luaVars, taskVars, history
<1>8. ASSUME Update \/ EndOfQueue \/ CallbackReturns
      PROVE  UNCHANGED <<activeStates, owner, calls, drops>>
  BY <1>8 DEF Update, EndOfQueue, CallbackReturns, States!luaL_unref, luaVars, taskVars, history
<1>9. CASE UNCHANGED vars
  BY <1>6, <1>9 DEF vars, luaVars, taskVars, history
<1>10. QED
  BY <1>2, <1>3, <1>4, <1>5, <1>6, <1>7, <1>8, <1>9 DEF Next, MainLoop

\* async_io resolves every request at most once, by a call only while a state is
\* registered at the lua_State that made it, and by dropping the answer only
\* while none is: after that state was closed, or if it was a coroutine's.
THEOREM AsyncIOKeepsPromise == Spec => KeepsPromise
<1>1. Spec => []OnceInv
  BY OnceInvInit, OnceInvStep, PTL DEF Spec
<1>2. Init => Promise!Init
  <2>1. SUFFICES ASSUME Init PROVE Promise!Init
    OBVIOUS
  <2>2. activeStates = {} /\ owner = [t \in Tasks |-> NoVM]
    BY <2>1 DEF Init, States!StatesInit
  <2>3. \A t \in Tasks : Fate(t) = "unmade"
    BY <2>1, <2>2, OnceInvInit, FateMeaning DEF OnceInv
  <2>4. QED
    BY <2>2, <2>3 DEF Promise!Init
<1>3. OnceInv /\ [Next]_vars => [Promise!Next]_(Promise!vars)
  BY PromiseStep DEF Promise!vars, Fates
<1>4. QED
  BY <1>1, <1>2, <1>3, PTL DEF Spec, KeepsPromise, Promise!Spec

-----------------------------------------------------------------------------
(* The completions reach their own callbacks and leave nothing behind in   *)
(* the registries of the Lua states.                                       *)

\* The task still needs its callback.
Live(t) == t \in Pending \/ t = calling

\* While a callback runs, its state is registered and its task is resolved.
CallingRegistered ==
  calling # NoTask => /\ turn # 0
                      /\ owner[calling] \in activeStates
                      /\ Resolved(calling)

\* A VM counts as the asker of a call from then on until it is closed.
AskersOpen ==
  \A t \in Tasks : /\ asker[t] \in activeStates \union {NoVM}
                   /\ owner[t] = NoVM => asker[t] = NoVM

\* v still holds the callback of t.
Kept(v, t) == asker[t] = v /\ (Live(t) \/ owner[t] # v)

\* The slots of a state that inherited nothing are those of its own calls that
\* are live, at the number the call has, and of the calls of its coroutines.
SlotsMatch ==
  \A v \in activeStates \ tainted, t \in Tasks :
    /\ \A r \in Refs : registry[v][r] = t => Kept(v, t) /\ (owner[t] = v => ref[t] = r)
    /\ Kept(v, t) => \E r \in Refs : registry[v][r] = t
    /\ Live(t) /\ owner[t] = v => asker[t] = v

\* The strengthening of RegistryExact that every step keeps.
RegistryInv == OnceInv /\ CallingRegistered /\ AskersOpen /\ SlotsMatch

LEMMA RegistryTypes ==
  ASSUME RegistryInv
  PROVE  /\ activeStates \subseteq VMs
         /\ registry \in [VMs -> [Refs -> Tasks \union {NoTask}]]
         /\ owner \in [Tasks -> VMs \union Coroutines \union {NoVM}]
         /\ asker \in [Tasks -> VMs \union {NoVM}]
         /\ ref \in [Tasks -> Refs \union {NoRef}]
         /\ calling \in Tasks \union {NoTask}
         /\ calls \in [Tasks -> Nat] /\ drops \in [Tasks -> Nat]
  BY DEF RegistryInv, OnceInv, PoolInv, TypeOK, States!StatesTypeOK

\* The slot of a live call made by the state itself is at the call's number.
LEMMA OwnSlot ==
  ASSUME SlotsMatch, NEW v \in activeStates \ tainted, NEW t \in Tasks,
         Live(t), owner[t] = v
  PROVE  ref[t] \in Refs /\ registry[v][ref[t]] = t /\ asker[t] = v
<1>1. asker[t] = v /\ Kept(v, t)
  BY DEF SlotsMatch, Kept
<1>2. PICK r \in Refs : registry[v][r] = t
  BY <1>1 DEF SlotsMatch
<1>3. QED
  BY <1>1, <1>2 DEF SlotsMatch

\* What SlotsMatch says is about slots, live calls, their askers and numbers.
LEMMA SlotsUnchanged ==
  ASSUME SlotsMatch, UNCHANGED <<luaVars, owner, asker, ref>>,
         \A t \in Tasks : Live(t)' <=> Live(t)
  PROVE  SlotsMatch'
<1>1. \A v, t : t \in Tasks => (Kept(v, t)' <=> Kept(v, t))
  BY DEF Kept
<1>2. QED
  BY <1>1 DEF SlotsMatch, luaVars

LEMMA RegistryInvInit == Init => RegistryInv
<1> SUFFICES ASSUME Init PROVE RegistryInv
  OBVIOUS
<1>1. activeStates = {} /\ calling = NoTask /\ \A t \in Tasks : asker[t] = NoVM
  BY DEF Init, States!StatesInit
<1>2. QED
  BY <1>1, OnceInvInit DEF RegistryInv, CallingRegistered, AskersOpen, SlotsMatch

-----------------------------------------------------------------------------
LEMMA OpenSlots ==
  ASSUME RegistryInv, NEW v \in VMs, OpenState(v)
  PROVE  SlotsMatch' /\ AskersOpen'
<1>1. /\ v \notin activeStates /\ activeStates' = activeStates \union {v}
      /\ registry' = [registry EXCEPT ![v] = States!EmptyRegistry]
      /\ UNCHANGED <<owner, ref, calling, asker, calls, drops>>
      /\ tainted' \in {tainted, tainted \union {v}}
      /\ v \notin tainted' => \A t \in Pending : owner[t] # v
      /\ calling = NoTask
  BY DEF OpenState, States!add_active_state, taskVars, mainVars, history,
         RegistryInv, CallingRegistered
<1>2. Pending' = Pending
  BY <1>1 DEF Pending, Resolved
<1>3. \A u, t : t \in Tasks => (Live(t)' <=> Live(t)) /\ (Kept(u, t)' <=> Kept(u, t))
  BY <1>1, <1>2 DEF Live, Kept
<1>4. AskersOpen' /\ \A t \in Tasks : asker[t] # v
  BY <1>1, AsyncIOAssumption DEF RegistryInv, AskersOpen
<1>5. SUFFICES ASSUME NEW u \in activeStates' \ tainted', NEW t \in Tasks
               PROVE  /\ \A r \in Refs : registry'[u][r] = t =>
                           Kept(u, t)' /\ (owner'[t] = u => ref'[t] = r)
                      /\ Kept(u, t)' => \E r \in Refs : registry'[u][r] = t
                      /\ Live(t)' /\ owner'[t] = u => asker'[t] = u
  BY <1>4 DEF SlotsMatch
<1>6. CASE u = v
  <2>1. ~(Live(t) /\ owner[t] = v)
    BY <1>1, <1>5, <1>6, AsyncIOAssumption DEF Live
  <2>2. \A r \in Refs : registry'[v][r] = NoTask
    BY <1>1, RegistryTypes DEF States!EmptyRegistry
  <2>3. ~Kept(u, t)
    BY <1>4, <1>6 DEF Kept
  <2>4. QED
    BY <1>1, <1>3, <1>6, <2>1, <2>2, <2>3, AsyncIOAssumption
<1>7. CASE u # v
  <2>1. u \in activeStates \ tainted /\ registry'[u] = registry[u]
    BY <1>1, <1>5, <1>7, RegistryTypes
  <2>2. QED
    BY <1>1, <1>3, <2>1 DEF RegistryInv, SlotsMatch
<1>8. QED
  BY <1>6, <1>7

LEMMA CloseSlots ==
  ASSUME RegistryInv, NEW v \in VMs, CloseState(v)
  PROVE  SlotsMatch' /\ AskersOpen'
<1>1. /\ activeStates' = activeStates \ {v} /\ tainted' = tainted \ {v}
      /\ registry' = [registry EXCEPT ![v] = States!EmptyRegistry]
      /\ asker' = [t \in Tasks |-> IF asker[t] = v THEN NoVM ELSE asker[t]]
      /\ UNCHANGED <<owner, ref, calling, calls, drops>>
  BY DEF CloseState, States!remove_active_state, taskVars, mainVars
<1>2. Pending' = Pending
  BY <1>1 DEF Pending, Resolved
<1>3. AskersOpen'
  BY <1>1 DEF RegistryInv, AskersOpen
<1>4. \A u \in activeStates' \ tainted' :
        u \in activeStates \ tainted /\ u # v /\ u # NoVM /\ registry'[u] = registry[u]
  BY <1>1, RegistryTypes, AsyncIOAssumption
<1>5. \A u \in activeStates' \ tainted', t \in Tasks :
        /\ Live(t)' <=> Live(t)
        /\ asker'[t] = u <=> asker[t] = u
        /\ Kept(u, t)' <=> Kept(u, t)
  BY <1>1, <1>2, <1>4 DEF Live, Kept
<1>6. QED
  BY <1>1, <1>3, <1>4, <1>5 DEF RegistryInv, SlotsMatch

\* A call's callback takes a slot that nothing uses.
LEMMA SubmitSlots ==
  ASSUME RegistryInv, NEW t \in Tasks, NEW v \in VMs, Submit(t, v)
  PROVE  SlotsMatch' /\ AskersOpen'
<1>1. PICK r \in Refs : /\ registry[v][r] = NoTask \/ v \in tainted
                        /\ registry' = [registry EXCEPT ![v] = [@ EXCEPT ![r] = t]]
                        /\ ref' = [ref EXCEPT ![t] = r]
                        /\ UNCHANGED <<activeStates, tainted>>
  BY DEF Submit, States!luaL_ref, States!Available
<1>2. PICK L \in States!Caller(v) : owner' = [owner EXCEPT ![t] = L]
  BY DEF Submit
<1>3. /\ owner[t] = NoVM /\ asker' = [asker EXCEPT ![t] = v]
      /\ v \in activeStates
      /\ UNCHANGED <<calling, calls, drops>>
  BY DEF Submit, mainVars, RunsLua, States!check_active_state
<1>4. /\ L # NoVM /\ ~Resolved(t) /\ t \notin Pending
      /\ L = v \/ L \notin activeStates
  BY <1>2, <1>3, AsyncIOAssumption
  DEF RegistryInv, OnceInv, CountedOnce, Pending, States!Caller
<1>5. t # calling
  BY <1>3, RegistryTypes, AsyncIOAssumption DEF RegistryInv, CallingRegistered
<1>6. /\ asker[t] = NoVM
      /\ Live(t)' /\ ~Live(t) /\ \A s \in Tasks \ {t} : Live(s)' <=> Live(s)
  BY <1>2, <1>3, <1>4, <1>5, RegistryTypes DEF Live, Pending, Resolved, RegistryInv, AskersOpen
<1>7. /\ owner'[t] = L /\ ref'[t] = r /\ asker'[t] = v
      /\ \A s \in Tasks \ {t} : owner'[s] = owner[s] /\ ref'[s] = ref[s] /\ asker'[s] = asker[s]
  BY <1>1, <1>2, <1>3, RegistryTypes
<1>8. /\ registry'[v][r] = t
      /\ \A q \in Refs \ {r} : registry'[v][q] = registry[v][q]
      /\ \A u \in VMs \ {v} : registry'[u] = registry[u]
  BY <1>1, RegistryTypes
<1>9. AskersOpen'
  BY <1>1, <1>3, <1>4, <1>7 DEF RegistryInv, AskersOpen
<1>10. SUFFICES ASSUME NEW u \in activeStates \ tainted, NEW s \in Tasks
                PROVE  /\ \A q \in Refs : registry'[u][q] = s =>
                            Kept(u, s)' /\ (owner'[s] = u => ref'[s] = q)
                       /\ Kept(u, s)' => \E q \in Refs : registry'[u][q] = s
                       /\ Live(s)' /\ owner'[s] = u => asker'[s] = u
  BY <1>1, <1>9 DEF SlotsMatch
<1>11. /\ \A q \in Refs : registry[u][q] = s =>
             Kept(u, s) /\ (owner[s] = u => ref[s] = q)
       /\ Kept(u, s) => \E q \in Refs : registry[u][q] = s
       /\ Live(s) /\ owner[s] = u => asker[s] = u
  BY <1>10 DEF RegistryInv, SlotsMatch
<1>12. u \in VMs /\ u # NoVM
  BY <1>10, RegistryTypes, AsyncIOAssumption
<1>13. CASE s = t
  <2>1. \A q \in Refs : registry[u][q] # t
    BY <1>6, <1>11, <1>12, <1>13 DEF Kept
  <2>2. CASE u = v
    BY <1>6, <1>7, <1>8, <1>13, <2>1, <2>2 DEF Kept
  <2>3. CASE u # v
    <3>1. ~Kept(u, s)' /\ owner'[s] # u
      BY <1>4, <1>7, <1>10, <1>13, <2>3 DEF Kept
    <3>2. QED
      BY <1>8, <1>12, <1>13, <2>1, <2>3, <3>1
  <2>4. QED
    BY <2>2, <2>3
<1>14. CASE s # t
  <2>1. (Kept(u, s)' <=> Kept(u, s)) /\ (Live(s)' <=> Live(s))
    BY <1>6, <1>7, <1>14 DEF Kept
  <2>2. CASE u # v
    BY <1>7, <1>8, <1>11, <1>12, <1>14, <2>1, <2>2
  <2>3. CASE u = v
    <3>1. registry[v][r] # s
      BY <1>1, <1>10, <2>3, AsyncIOAssumption
    <3>2. QED
      BY <1>7, <1>8, <1>11, <1>14, <2>1, <2>3, <3>1
  <2>4. QED
    BY <2>2, <2>3
<1>15. QED
  BY <1>13, <1>14

\* A dropped completion belongs to a state that is gone or to a coroutine; one
\* that is run keeps its slot until its callback returns.
LEMMA CompletionSlots ==
  ASSUME RegistryInv, DropCompletion \/ RunCompletion
  PROVE  SlotsMatch' /\ CallingRegistered' /\ AskersOpen'
<1>1. PICK t \in Tasks : /\ t = Head(localQueue) /\ t \in Pending
                         /\ Pending' = Pending \ {t}
  BY CompletionOnce DEF RegistryInv, Pending
<1>2. /\ calling = NoTask /\ turn # 0
      /\ UNCHANGED <<activeStates, registry, tainted, owner, asker, turn>>
  BY DEF DropCompletion, RunCompletion, luaVars, taskVars, Queue!RunEvent
<1>3. AskersOpen'
  BY <1>2 DEF RegistryInv, AskersOpen
<1>4. CASE DropCompletion
  <2>1. /\ owner[t] \notin activeStates
        /\ \A s \in Tasks \ {t} : ref'[s] = ref[s]
        /\ calling' = NoTask
    BY <1>1, <1>2, <1>4, RegistryTypes
    DEF DropCompletion, States!check_active_state, mainVars
  <2>2. \A s \in Tasks \ {t} : Live(s)' <=> Live(s)
    BY <1>1, <1>2, <2>1 DEF Live
  <2>3. \A u \in activeStates, s \in Tasks : /\ Kept(u, s)' <=> Kept(u, s)
                                             /\ owner[s] = u => s # t
    BY <1>2, <2>1, <2>2 DEF Kept
  <2>4. SlotsMatch'
    BY <1>2, <2>1, <2>2, <2>3 DEF RegistryInv, SlotsMatch
  <2>5. QED
    BY <1>3, <2>1, <2>4 DEF CallingRegistered
<1>5. CASE RunCompletion
  <2>1. /\ owner[t] \in activeStates /\ calling' = t
        /\ calls' = [calls EXCEPT ![t] = @ + 1]
        /\ UNCHANGED <<ref, drops>>
    BY <1>1, <1>5 DEF RunCompletion, States!check_active_state, taskVars
  <2>2. \A s \in Tasks : Live(s)' <=> Live(s)
    BY <1>1, <1>2, <2>1, AsyncIOAssumption DEF Live
  <2>3. SlotsMatch'
    BY <1>2, <2>1, <2>2, SlotsUnchanged DEF RegistryInv, luaVars
  <2>4. Resolved(calling)'
    <3>1. calls'[t] = calls[t] + 1 /\ calls[t] \in Nat /\ drops[t] \in Nat
      BY <2>1, RegistryTypes
    <3>2. calls'[calling'] + drops'[calling'] > 0
      BY <2>1, <3>1
    <3>3. QED
      BY <3>2 DEF Resolved
  <2>5. CallingRegistered'
    BY <1>2, <2>1, <2>4 DEF CallingRegistered
  <2>6. QED
    BY <1>3, <2>3, <2>5
<1>6. QED
  BY <1>4, <1>5

\* The slot that a callback's return frees is its own.
LEMMA ReturnSlots ==
  ASSUME RegistryInv, CallbackReturns
  PROVE  SlotsMatch' /\ CallingRegistered' /\ AskersOpen'
<1>1. PICK t \in Tasks : /\ t = calling
                         /\ ref' = [ref EXCEPT ![t] = NoRef]
                         /\ registry' = [registry EXCEPT ![owner[t]] = [@ EXCEPT ![ref[t]] = NoTask]]
  BY RegistryTypes DEF CallbackReturns, States!luaL_unref
<1>2. /\ calling' = NoTask
      /\ UNCHANGED <<activeStates, tainted, owner, asker, calls, drops>>
  BY DEF CallbackReturns, States!luaL_unref, history
<1>3. t \notin Pending /\ Pending' = Pending
  BY <1>1, <1>2, AsyncIOAssumption DEF RegistryInv, CallingRegistered, Pending, Resolved
<1>4. /\ ~Live(t)' /\ Live(t)
      /\ \A s \in Tasks \ {t} : (Live(s)' <=> Live(s)) /\ ref'[s] = ref[s]
  BY <1>1, <1>2, <1>3, AsyncIOAssumption, RegistryTypes DEF Live
<1>5. AskersOpen' /\ CallingRegistered'
  BY <1>2 DEF RegistryInv, AskersOpen, CallingRegistered
<1>6. SUFFICES ASSUME NEW u \in activeStates \ tainted, NEW s \in Tasks
               PROVE  /\ \A r \in Refs : registry'[u][r] = s =>
                           Kept(u, s)' /\ (owner[s] = u => ref'[s] = r)
                      /\ Kept(u, s)' => \E r \in Refs : registry'[u][r] = s
                      /\ Live(s)' /\ owner[s] = u => asker[s] = u
  BY <1>2, <1>5 DEF SlotsMatch
<1>7. /\ \A r \in Refs : registry[u][r] = s =>
            Kept(u, s) /\ (owner[s] = u => ref[s] = r)
      /\ Kept(u, s) => \E r \in Refs : registry[u][r] = s
      /\ Live(s) /\ owner[s] = u => asker[s] = u
  BY <1>6 DEF RegistryInv, SlotsMatch
<1>8. u \in VMs
  BY <1>6, RegistryTypes
<1>9. CASE owner[t] # u
  <2>1. registry'[u] = registry[u]
    BY <1>1, <1>8, <1>9, RegistryTypes
  <2>2. /\ Kept(u, s)' <=> Kept(u, s)
        /\ owner[s] = u => s # t
    BY <1>2, <1>4, <1>9 DEF Kept
  <2>3. QED
    BY <1>4, <1>7, <2>1, <2>2
<1>10. CASE owner[t] = u
  <2>1. ref[t] \in Refs /\ registry[u][ref[t]] = t
    BY <1>4, <1>6, <1>10, OwnSlot DEF RegistryInv
  <2>2. /\ registry'[u][ref[t]] = NoTask
        /\ \A r \in Refs \ {ref[t]} : registry'[u][r] = registry[u][r]
    BY <1>1, <1>8, <1>10, <2>1, RegistryTypes
  <2>3. CASE s = t
    <3>1. \A r \in Refs : registry'[u][r] # t
      BY <1>7, <1>10, <2>2, <2>3, AsyncIOAssumption
    <3>2. ~Kept(u, s)'
      BY <1>2, <1>4, <1>10, <2>3 DEF Kept
    <3>3. QED
      BY <1>4, <2>3, <3>1, <3>2
  <2>4. CASE s # t
    <3>1. Kept(u, s)' <=> Kept(u, s)
      BY <1>2, <1>4, <2>4 DEF Kept
    <3>2. QED
      BY <1>4, <1>7, <2>1, <2>2, <2>4, <3>1, AsyncIOAssumption
  <2>5. QED
    BY <2>3, <2>4
<1>11. QED
  BY <1>9, <1>10

-----------------------------------------------------------------------------
LEMMA RegistryInvStep == RegistryInv /\ [Next]_vars => RegistryInv'
<1> SUFFICES ASSUME RegistryInv, [Next]_vars PROVE RegistryInv'
  OBVIOUS
<1>1. OnceInv'
  BY OnceInvStep DEF RegistryInv
<1>2. ASSUME UNCHANGED <<luaVars, taskVars, calling, history>>
      PROVE  SlotsMatch' /\ AskersOpen'
  <2>1. \A t \in Tasks : Live(t)' <=> Live(t)
    BY <1>2 DEF Live, Pending, Resolved, taskVars, history
  <2>2. QED
    BY <1>2, <2>1, SlotsUnchanged DEF RegistryInv, AskersOpen, luaVars, taskVars, history
<1>3. ASSUME UNCHANGED <<activeStates, owner, calling, calls, drops>>,
             calling = NoTask \/ UNCHANGED turn
      PROVE  CallingRegistered'
  BY <1>3 DEF RegistryInv, CallingRegistered, Resolved
<1>4. ASSUME NEW v \in VMs, OpenState(v) \/ CloseState(v)
      PROVE  RegistryInv'
  <2>1. calling = NoTask /\ UNCHANGED calling
    BY <1>4 DEF OpenState, CloseState, mainVars, RegistryInv, CallingRegistered
  <2>2. CallingRegistered'
    BY <2>1 DEF CallingRegistered
  <2>3. QED
    BY <1>1, <1>4, <2>2, OpenSlots, CloseSlots DEF RegistryInv
<1>5. ASSUME NEW t \in Tasks, NEW v \in VMs, Submit(t, v)
      PROVE  RegistryInv'
  <2>1. /\ owner[t] = NoVM
        /\ \A s \in Tasks \ {t} : owner'[s] = owner[s]
        /\ UNCHANGED <<activeStates, calling, turn, calls, drops>>
    BY <1>5, RegistryTypes DEF Submit, States!luaL_ref, mainVars, queueVars
  <2>2. calling # NoTask => owner'[calling] = owner[calling]
    BY <2>1, RegistryTypes, AsyncIOAssumption DEF RegistryInv, CallingRegistered
  <2>3. CallingRegistered'
    BY <2>1, <2>2 DEF RegistryInv, CallingRegistered, Resolved
  <2>4. QED
    BY <1>1, <1>5, <2>3, SubmitSlots DEF RegistryInv
<1>6. ASSUME NEW w \in Threads, Worker(w)
      PROVE  RegistryInv'
  <2>1. WorkerUnchanged /\ UNCHANGED turn
    BY <1>6 DEF Worker, TakeTask, GiveUp, Leave, Post, Return, Queue!AddToQueue, queueVars
  <2>2. QED
    BY <1>1, <1>2, <1>3, <2>1 
    DEF RegistryInv, WorkerUnchanged, luaVars, taskVars, mainVars, history
<1>7. CASE Update \/ EndOfQueue
  <2>1. UNCHANGED <<luaVars, taskVars, calling, history>>
    BY <1>7 DEF Update, EndOfQueue, mainVars
  <2>2. calling = NoTask
    BY <1>7 DEF Update, EndOfQueue, RegistryInv, CallingRegistered
  <2>3. QED
    BY <1>1, <1>2, <1>3, <2>1, <2>2 DEF RegistryInv, luaVars, taskVars, history
<1>8. CASE DropCompletion \/ RunCompletion
  BY <1>1, <1>8, CompletionSlots DEF RegistryInv
<1>9. CASE CallbackReturns
  BY <1>1, <1>9, ReturnSlots DEF RegistryInv
<1>10. CASE UNCHANGED vars
  BY <1>1, <1>2, <1>3, <1>10
  DEF RegistryInv, vars, luaVars, taskVars, mainVars, queueVars, history
<1>11. QED
  BY <1>4, <1>5, <1>6, <1>7, <1>8, <1>9, <1>10 DEF Next, MainLoop

\* A state that did not inherit its address holds exactly the callbacks of its
\* own calls that are not finished, and those of its coroutines' calls.
THEOREM RegistryStaysExact == Spec => []RegistryExact
<1>1. Spec => []RegistryInv
  BY RegistryInvInit, RegistryInvStep, PTL DEF Spec
<1>2. RegistryInv => RegistryExact
  <2>1. SUFFICES ASSUME RegistryInv, NEW v \in activeStates \ tainted
                 PROVE  States!Parked(v) = {t \in Tasks : Kept(v, t)}
    BY DEF RegistryExact, Live, Kept
  <2>2. \A r \in Refs : registry[v][r] \in Tasks \union {NoTask}
    BY <2>1, RegistryTypes
  <2>3. \A t \in States!Parked(v) : t \in Tasks /\ Kept(v, t)
    BY <2>1, <2>2 DEF States!Parked, RegistryInv, SlotsMatch
  <2>4. \A t \in Tasks : Kept(v, t) => t \in States!Parked(v)
    BY <2>1, AsyncIOAssumption DEF States!Parked, RegistryInv, SlotsMatch
  <2>5. QED
    BY <2>3, <2>4
<1>3. QED
  BY <1>1, <1>2, PTL

\* A completion calls its own callback, unless its state's address was taken
\* over while it was in flight.
THEOREM CallbacksReachTheirOwner == Spec => []CallbacksNotMisrouted
<1>1. Spec => []RegistryInv
  BY RegistryInvInit, RegistryInvStep, PTL DEF Spec
<1>2. RegistryInv => CallbacksNotMisrouted
  <2>1. SUFFICES ASSUME RegistryInv, calling # NoTask, owner[calling] \notin tainted
                 PROVE  registry[owner[calling]][ref[calling]] = calling
    BY DEF CallbacksNotMisrouted
  <2>2. calling \in Tasks /\ owner[calling] \in activeStates \ tainted /\ Live(calling)
    BY <2>1, RegistryTypes DEF RegistryInv, CallingRegistered, Live
  <2>3. QED
    BY <2>1, <2>2, OwnSlot DEF RegistryInv
<1>3. QED
  BY <1>1, <1>2, PTL
=============================================================================
