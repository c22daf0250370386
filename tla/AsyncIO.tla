------------------------------ MODULE AsyncIO ------------------------------
(***************************************************************************)
(* blt.async_io (luautil/LuaAsyncIO.cpp): file reads and writes asked for  *)
(* by Lua run on a small pool of threads, and their results come back to   *)
(* the main thread through the IOCompletion event queue.                   *)
(*                                                                         *)
(* A task is one call of blt.async_io.read or .write.  Steps of the main   *)
(* thread and of the workers interleave; what the code does while it owns  *)
(* task_mutex or the queue's lock is one step.                             *)
(***************************************************************************)
EXTENDS Naturals, Sequences, FiniteSets, Functions

CONSTANTS
  Tasks,         \* the calls Lua may make, each of them once
  Reads,         \* those that are reads of a file that can be read
  VMs,           \* addresses the lua_State of a VM can have, again and again
  Coroutines,    \* addresses that of a coroutine can have
  Threads,       \* operating system threads that can be alive at once
  Refs,          \* integers luaL_ref can return
  NoTask, NoVM, NoRef,
  MAX_THREADS,   \* LuaAsyncIO.cpp: 4
  Backlog        \* a further thread is started when more tasks wait: 5

ASSUME AsyncIOAssumption ==
  /\ NoTask \notin Tasks
  /\ Reads \subseteq Tasks
  /\ NoVM \notin VMs \union Coroutines
  /\ NoRef \notin Refs
  /\ MAX_THREADS \in Nat \ {0}
  /\ Backlog \in Nat
  /\ IsFiniteSet(Threads)

VARIABLES
  activeStates,  \* the lua_State addresses registered with the library
  registry,      \* registry[v][r]: whose callback ref r of VM v holds
  tainted,       \* history: open VMs whose address had tasks in flight
  owner, ref,    \* captured by the task: its lua_State and its callback ref
  asker,         \* history: the VM that made the call, until that is closed
  task_list, thread_count,  \* guarded by task_mutex
  pc, cur,       \* what each worker does, and the task it has
  eventQueue, localQueue, turn,  \* the IOCompletion queue
  updates,       \* update() calls so far; 2 stands for "more than one"
  calling,       \* the task whose callback the main thread is inside
  calls, drops   \* history: how often a completion called Lua, or was dropped

luaVars   == <<activeStates, registry, tainted>>
taskVars  == <<owner, ref>>
poolVars  == <<task_list, thread_count, pc, cur>>
queueVars == <<eventQueue, localQueue, turn>>
mainVars  == <<updates, calling>>
history   == <<asker, calls, drops>>
vars == <<luaVars, taskVars, poolVars, queueVars, mainVars, history>>

\* The IOCompletion queue is the only queue this module looks at.  An event is
\* the completion of a task.
Queue == INSTANCE EventQueue WITH NQueues <- 1, Events <- Tasks

States == INSTANCE LuaStates WITH Callbacks <- Tasks, Nil <- NoTask

Workers(states) == {w \in Threads : pc[w] \in states}

Resolved(t) == calls[t] + drops[t] > 0
Pending == {t \in Tasks : owner[t] # NoVM /\ ~Resolved(t)}

\* Some worker is in its loop and will look at task_list again.
Served == task_list = <<>> \/ Workers({"looking", "running", "posted"}) # {}

Init == /\ States!StatesInit
        /\ owner = [t \in Tasks |-> NoVM]
        /\ ref = [t \in Tasks |-> NoRef]
        /\ task_list = <<>>
        /\ thread_count = 0
        /\ pc = [w \in Threads |-> "off"]
        /\ cur = [w \in Threads |-> NoTask]
        /\ Queue!QueueInit
        /\ updates = 0
        /\ calling = NoTask
        /\ asker = [t \in Tasks |-> NoVM]
        /\ calls = [t \in Tasks |-> 0]
        /\ drops = [t \in Tasks |-> 0]

-----------------------------------------------------------------------------
(* Lua states.  The game opens and closes them between two frames' updates. *)

OpenState(v) ==
  /\ turn = 0
  /\ States!add_active_state(v, \E t \in Pending : owner[t] = v)
  /\ UNCHANGED <<taskVars, poolVars, queueVars, mainVars, history>>

CloseState(v) ==
  /\ turn = 0
  /\ States!remove_active_state(v)
  /\ asker' = [t \in Tasks |-> IF asker[t] = v THEN NoVM ELSE asker[t]]
  /\ UNCHANGED <<taskVars, poolVars, queueVars, mainVars, calls, drops>>

\* Lua code of v is running: in the frame, or inside one of v's callbacks.
RunsLua(v) == /\ States!check_active_state(v)
              /\ \/ turn = 0
                 \/ calling # NoTask /\ owner[calling] = v

-----------------------------------------------------------------------------
(* Handing a task to the pool. *)

\* start_task_thread counts the thread before it runs.
CountStarted == thread_count + 1

\* Mutant of NeedsThread: <= where the code has <.
NeedsThreadOffByOne(waiting) ==
  thread_count = 0 \/ (thread_count <= MAX_THREADS /\ waiting > Backlog)

NeedsThread(waiting) ==
  thread_count = 0 \/ (thread_count < MAX_THREADS /\ waiting > Backlog)

\* The locked part of dispatch_task, with start_task_thread.  notify_one, after
\* the unlock, needs no step: a worker in wait_for looks at task_list again at
\* the latest when its timeout expires.
dispatch_task(t) ==
  /\ task_list' = Append(task_list, t)
  /\ IF NeedsThread(Len(task_list) + 1)
     THEN \E w \in Workers({"off"}) : /\ pc' = [pc EXCEPT ![w] = "looking"]
                                      /\ thread_count' = CountStarted
     ELSE UNCHANGED <<pc, thread_count>>

\* aio_read and aio_write: the callback goes into the registry of the VM, and
\* the task takes the lua_State that Lua has passed.
Submit(t, v) ==
  /\ owner[t] = NoVM
  /\ RunsLua(v)
  /\ \E r \in Refs : States!luaL_ref(v, r, t) /\ ref' = [ref EXCEPT ![t] = r]
  /\ \E L \in States!Caller(v) : owner' = [owner EXCEPT ![t] = L]
  /\ asker' = [asker EXCEPT ![t] = v]
  /\ dispatch_task(t)
  /\ UNCHANGED <<cur, queueVars, mainVars, calls, drops>>

-----------------------------------------------------------------------------
(* A worker: the lambda of start_task_thread. *)

WorkerUnchanged == UNCHANGED <<luaVars, taskVars, mainVars, history>>

\* Mutant of Popped: task_list.pop() is forgotten.
PoppedNot == task_list

\* task_list once its front has been moved out and popped.
Popped == Tail(task_list)

\* wait_for returns true: the predicate holds, under the lock.
TakeTask(w) ==
  /\ pc[w] = "looking"
  /\ task_list # <<>>
  /\ cur' = [cur EXCEPT ![w] = Head(task_list)]
  /\ task_list' = Popped
  /\ pc' = [pc EXCEPT ![w] = "running"]
  /\ UNCHANGED <<thread_count, queueVars>>
  /\ WorkerUnchanged

\* Mutant of NothingToDo: the timeout alone decides, as without a predicate.
TimeoutIsEnough == TRUE

\* wait_for has evaluated its predicate, under the lock, and has_item is false.
NothingToDo == task_list = <<>>

\* Mutant of GiveUp: a thread whose timeout expires goes round its loop again.
GiveUpAndRetry(w) == pc[w] = "looking" /\ task_list = <<>> /\ UNCHANGED vars

\* wait_for returns false: 500 ms over and still nothing to do.  The lock is
\* released on the way out of the loop.
GiveUp(w) ==
  /\ pc[w] = "looking"
  /\ NothingToDo
  /\ pc' = [pc EXCEPT ![w] = "leaving"]
  /\ UNCHANGED <<task_list, thread_count, cur, queueVars>>
  /\ WorkerUnchanged

\* The lock taken again, to say that this thread is gone.
Leave(w) ==
  /\ pc[w] = "leaving"
  /\ pc' = [pc EXCEPT ![w] = "off"]
  /\ thread_count' = thread_count - 1
  /\ UNCHANGED <<task_list, cur, queueVars>>
  /\ WorkerUnchanged

\* The file is read or written and invoke_on_update queues the completion.
Post(w) ==
  /\ pc[w] = "running"
  /\ Queue!AddToQueue(1, cur[w])
  /\ pc' = [pc EXCEPT ![w] = "posted"]
  /\ UNCHANGED <<task_list, thread_count, cur>>
  /\ WorkerUnchanged

\* The task's function returns and its locals are destroyed.
Return(w) ==
  /\ pc[w] = "posted"
  /\ pc' = [pc EXCEPT ![w] = "looking"]
  /\ cur' = [cur EXCEPT ![w] = NoTask]
  /\ UNCHANGED <<task_list, thread_count, queueVars>>
  /\ WorkerUnchanged

Worker(w) == TakeTask(w) \/ GiveUp(w) \/ Leave(w) \/ Post(w) \/ Return(w)

-----------------------------------------------------------------------------
(* The main thread, once per frame. *)

\* Mutant of CountUpdate: updates++ is forgotten.
CountUpdateNot == updates

\* updates++, as far as update() can tell: it asks for "more than one" only.
CountUpdate == IF updates > 1 THEN updates ELSE updates + 1

\* update(): the first two calls leave the queues alone.
Update == /\ turn = 0
          /\ updates' = CountUpdate
          /\ IF updates > 1 THEN Queue!ProcessEvents ELSE UNCHANGED queueVars
          /\ UNCHANGED <<luaVars, taskVars, poolVars, calling, history>>

EndOfQueue == /\ calling = NoTask
              /\ Queue!NextQueue
              /\ UNCHANGED <<luaVars, taskVars, poolVars, mainVars, history>>

\* The completion finds its state closed and returns early.
DropCompletion ==
  /\ calling = NoTask
  /\ Queue!RunEvent
  /\ LET t == Head(localQueue)
     IN  /\ ~States!check_active_state(owner[t])
         /\ drops' = [drops EXCEPT ![t] = @ + 1]
         /\ ref' = [ref EXCEPT ![t] = NoRef]
  /\ UNCHANGED <<luaVars, owner, poolVars, mainVars, asker, calls>>

\* The completion finds its state and calls what the registry holds at its ref.
RunCompletion ==
  /\ calling = NoTask
  /\ Queue!RunEvent
  /\ LET t == Head(localQueue)
     IN  /\ States!check_active_state(owner[t])
         /\ calling' = t
         /\ calls' = [calls EXCEPT ![t] = @ + 1]
  /\ UNCHANGED <<luaVars, taskVars, poolVars, updates, asker, drops>>

\* Mutant of CallbackReturns: a callback that fails keeps its registry slot.
CallbackReturnsLeak ==
  /\ calling # NoTask
  /\ calling' = NoTask
  /\ UNCHANGED luaVars \/ States!luaL_unref(owner[calling], ref[calling])
  /\ ref' = [ref EXCEPT ![calling] = NoRef]
  /\ UNCHANGED <<owner, poolVars, queueVars, updates, history>>

\* The callback is over, handled_pcall has logged its error if it had one, and
\* luaL_unref frees the slot either way.
CallbackReturns ==
  /\ calling # NoTask
  /\ calling' = NoTask
  /\ States!luaL_unref(owner[calling], ref[calling])
  /\ ref' = [ref EXCEPT ![calling] = NoRef]
  /\ UNCHANGED <<owner, poolVars, queueVars, updates, history>>

MainLoop == Update \/ EndOfQueue \/ DropCompletion \/ RunCompletion \/ CallbackReturns

Next == \/ \E v \in VMs : OpenState(v) \/ CloseState(v)
        \/ \E t \in Tasks, v \in VMs : Submit(t, v)
        \/ \E w \in Threads : Worker(w)
        \/ MainLoop

Spec == Init /\ [][Next]_vars

\* The game keeps drawing frames, callbacks return, and every live thread is
\* scheduled; a thread whose 500 ms are over is woken.  Lua need not ask for
\* anything and states need not open or close.
FairSpec == /\ Spec
            /\ WF_vars(MainLoop)
            /\ \A w \in Threads : WF_vars(Worker(w))

-----------------------------------------------------------------------------
TypeOK ==
  /\ States!StatesTypeOK
  /\ owner \in [Tasks -> VMs \union Coroutines \union {NoVM}]
  /\ ref \in [Tasks -> Refs \union {NoRef}]
  /\ task_list \in Seq(Tasks)
  /\ thread_count \in Nat
  /\ pc \in [Threads -> {"off", "looking", "running", "posted", "leaving"}]
  /\ cur \in [Threads -> Tasks \union {NoTask}]
  /\ Queue!QueueTypeOK
  /\ updates \in 0..2
  /\ calling \in Tasks \union {NoTask}
  /\ asker \in [Tasks -> VMs \union {NoVM}]
  /\ calls \in [Tasks -> Nat]
  /\ drops \in [Tasks -> Nat]

\* The pool never has more than MAX_THREADS threads (LuaAsyncIO.cpp:130), and
\* thread_count, which a thread gives back in a second critical section after
\* it left its loop, never differs from the number of threads alive.
PoolBounded == /\ thread_count = Cardinality(Workers({"looking", "running", "posted", "leaving"}))
               /\ thread_count <= MAX_THREADS

\* Whatever the interleaving, a task asked for and not yet resolved is at one
\* place only: waiting, with one worker, or in the completion queue; and what
\* is at those places is nothing but such tasks.
WithWorker == {cur[w] : w \in Workers({"running"})}
EachTaskOnce ==
  /\ \A queue \in {task_list, eventQueue[1], localQueue} : IsInjective(queue)
  /\ \A w1, w2 \in Workers({"running"}) : cur[w1] = cur[w2] => w1 = w2
  /\ LET places == <<Range(task_list), WithWorker, Range(eventQueue[1]), Range(localQueue)>>
     IN  /\ \A i, j \in 1..4 : i # j => places[i] \intersect places[j] = {}
         /\ UNION Range(places) = Pending

\* A VM that did not inherit its address holds exactly the callbacks of its own
\* calls that are not finished, and those of the calls its coroutines have made:
\* their answers are dropped (LuaAsyncIO.cpp:63) and luaL_unref is never reached.
\* Nothing else is leaked, nothing is freed too early, and no completion frees a
\* slot that is not its own.
RegistryExact ==
  \A v \in activeStates \ tainted :
    States!Parked(v) =
      {t \in Tasks : asker[t] = v /\ (t \in Pending \/ t = calling \/ owner[t] # v)}

\* A completion reaches its own callback, unless its VM was closed while it was
\* in flight and the address taken over by a new VM, which check_active_state
\* cannot tell from the old one.
CallbacksNotMisrouted ==
  calling # NoTask =>
    registry[owner[calling]][ref[calling]] = calling \/ owner[calling] \in tainted

\* A step never leaves waiting tasks behind without a worker to take them,
\* except the dispatch that counts on a thread already on its way out.
OnlyLateDispatchStrands ==
  [][Served /\ ~Served' => /\ Workers({"leaving"}) # {}
                           /\ Len(task_list') = Len(task_list) + 1]_vars

\* As long as waiting tasks always end up with a worker, every call of
\* async_io.read or .write is answered or, if its VM has gone, dropped.
AnsweredIfServed == <>[]Served => \A t \in Tasks : t \in Pending ~> Resolved(t)

\* The pool gives its threads back when they are not used (LuaAsyncIO.cpp:95).
IdlePoolDrains == []<>(thread_count = 0)

\* What is promised to Lua: AsyncRequests, with the history counting how often
\* a request was resolved.
Fate(t) == CASE owner[t] = NoVM -> "unmade"
             [] t \in Pending -> "pending"
             [] calls[t] = 1 /\ drops[t] = 0 -> "called"
             [] calls[t] = 0 /\ drops[t] = 1 -> "dropped"
             [] OTHER -> "resolved twice"
Promise == INSTANCE AsyncRequests
           WITH Requests <- Tasks, open <- activeStates,
                fate <- [t \in Tasks |-> Fate(t)]

\* async_io resolves each request at most once, by a call only while a state is
\* registered at the lua_State it was made with, and else by dropping the answer.
KeepsPromise == Promise!Spec

\* Completions run once each, in the order the workers queued them.
CompletionsFifo == Queue!FifoDelivery

\* Lua gets the bytes that were read ("without breaking the Lua ...
\* interfaces", README.md:5): when the completion of a read is run, the
\* vector it refers to, a local of the task's function, still exists.
ReadBytesAlive ==
  [][calling' # calling /\ calling' \in Reads
       => \E w \in Workers({"posted"}) : cur[w] = calling']_vars
=============================================================================
