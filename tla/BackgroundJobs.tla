--------------------------- MODULE BackgroundJobs ---------------------------
(***************************************************************************)
(* The two kinds of work that get an operating system thread of their own: *)
(* HTTP requests (http/http.cpp, dohttpreq) and hashes of files and        *)
(* directories (util/hashing.cpp, file.FileHash/DirectoryHash).  Results   *)
(* reach Lua through three event queues: progress of a transfer (1), a     *)
(* finished transfer (2), a finished hash (3).                             *)
(*                                                                         *)
(* The HTTPItem of a request is owned by its thread, then by its event in  *)
(* queue 2, and is deleted with that event.  A progress event only points  *)
(* to it.                                                                  *)
(***************************************************************************)
EXTENDS Naturals, Sequences, Functions

CONSTANTS HttpJobs, HashJobs,  \* what Lua may ask for, each once
          Reporters,           \* bound: requests that may have a progress callback
          VMs,                 \* addresses the lua_State of a VM can have
          Coroutines,          \* addresses that of a coroutine can have
          NoVM,
          Refs,                \* integers luaL_ref can return
          NoRef,               \* no such integer: lua_http_data's 0
          Idle,                \* no callback is running
          Total                \* bound: bytes of every download (dltotal)

ASSUME BackgroundJobsAssumption ==
  /\ HttpJobs \intersect HashJobs = {}
  /\ Reporters \subseteq HttpJobs
  /\ NoVM \notin VMs \union Coroutines
  /\ NoRef \notin Refs
  /\ Idle \notin (HttpJobs \union HashJobs) \X {"done", "progress"}
  /\ Total \in Nat \ {0}

Jobs == HttpJobs \union HashJobs

\* A callback is named by its job and its kind.
Callbacks == Jobs \X {"done", "progress"}

VARIABLES
  activeStates,  \* the lua_State addresses registered with the library
  registry,      \* registry[v][r]: the callback that ref r of VM v holds
  tainted,       \* history: open VMs whose address had jobs under way
  owner,         \* lua_State captured by the job
  ref,           \* the integers captured by the job for its callbacks
  reports,       \* the HTTP jobs with a progress callback
  running,       \* jobs whose thread is at work
  threadList,    \* threads kept by HTTPManager and AsyncHashManager
  item,          \* who has the HTTPItem: "none", "thread", "queue", "deleted"
  byteprogress,  \* HTTPItem::byteprogress
  eventQueue, localQueue, turn,
  updates,
  calling,       \* the callback the main thread is inside, or Idle
  asker,         \* history: the VM that asked for the job, until it is closed
  seen,          \* history: last progress told to Lua
  calls, drops   \* history: how often a job called back, or was dropped

luaVars   == <<activeStates, registry, tainted>>
jobVars   == <<owner, ref, reports, running, threadList, byteprogress>>
queueVars == <<eventQueue, localQueue, turn>>
history   == <<asker, seen, calls, drops>>
vars == <<luaVars, jobVars, item, queueVars, updates, calling, history>>

Events == [job : Jobs, bytes : 0..Total]
Queue  == INSTANCE EventQueue WITH NQueues <- 3
States == INSTANCE LuaStates WITH Nil <- Idle

Resolved(j) == calls[j] + drops[j] > 0
Pending == {j \in Jobs : owner[j] # NoVM /\ ~Resolved(j)}

Init == /\ States!StatesInit
        /\ owner = [j \in Jobs |-> NoVM]
        /\ ref = [c \in Callbacks |-> NoRef]
        /\ reports = {}
        /\ running = {}
        /\ threadList = {}
        /\ item = [j \in HttpJobs |-> "none"]
        /\ byteprogress = [j \in HttpJobs |-> 0]
        /\ Queue!QueueInit
        /\ updates = 0
        /\ calling = Idle
        /\ asker = [j \in Jobs |-> NoVM]
        /\ seen = [j \in HttpJobs |-> 0]
        /\ calls = [j \in Jobs |-> 0]
        /\ drops = [j \in Jobs |-> 0]

-----------------------------------------------------------------------------
OpenState(v)  == /\ turn = 0
                 /\ States!add_active_state(v, \E j \in Pending : owner[j] = v)
                 /\ UNCHANGED <<jobVars, item, queueVars, updates, calling, history>>

CloseState(v) == /\ turn = 0
                 /\ States!remove_active_state(v)
                 /\ asker' = [j \in Jobs |-> IF asker[j] = v THEN NoVM ELSE asker[j]]
                 /\ UNCHANGED <<jobVars, item, queueVars, updates, calling, seen, calls, drops>>

\* Lua code of v is running: in the frame, or inside one of v's callbacks.
RunsLua(v) == /\ States!check_active_state(v)
              /\ \/ turn = 0
                 \/ calling # Idle /\ owner[calling[1]] = v

\* A new thread for the job, remembered for ever.  The job takes the lua_State
\* that Lua has passed.
StartThread(j, v) ==
  /\ owner[j] = NoVM
  /\ RunsLua(v)
  /\ \E L \in States!Caller(v) : owner' = [owner EXCEPT ![j] = L]
  /\ asker' = [asker EXCEPT ![j] = v]
  /\ running' = running \union {j}
  /\ threadList' = threadList \union {j}

\* Mutant of Park: the two integers are mixed up.
ParkMixedUp(j, v, progress, done) ==
  /\ \A r \in {progress, done} \ {NoRef} : States!Available(v, r)
  /\ progress # done \/ v \in tainted
  /\ registry' = [registry EXCEPT ![v] = [r \in Refs |->
                    CASE r = done -> <<j, "done">>
                      [] r = progress /\ r # done -> <<j, "progress">>
                      [] OTHER -> @[r]]]
  /\ ref' = [ref EXCEPT ![<<j, "progress">>] = done, ![<<j, "done">>] = progress]
  /\ UNCHANGED <<activeStates, tainted>>

\* luaL_ref, for the progress callback if there is one and then for the other,
\* in the registry of v.  Only a state that hands out refs in use (see
\* LuaStates) can return the same integer twice.
Park(j, v, progress, done) ==
  /\ \A r \in {progress, done} \ {NoRef} : States!Available(v, r)
  /\ progress # done \/ v \in tainted
  /\ registry' = [registry EXCEPT ![v] = [r \in Refs |->
                    CASE r = done -> <<j, "done">>
                      [] r = progress /\ r # done -> <<j, "progress">>
                      [] OTHER -> @[r]]]
  /\ ref' = [ref EXCEPT ![<<j, "progress">>] = progress, ![<<j, "done">>] = done]
  /\ UNCHANGED <<activeStates, tainted>>

\* luaF_dohttpreq and LaunchHTTPRequest, with or without a progress callback.
LaunchHTTPRequest(j, v) ==
  /\ StartThread(j, v)
  /\ \/ /\ j \in Reporters
        /\ \E p, r \in Refs : Park(j, v, p, r)
        /\ reports' = reports \union {j}
     \/ (\E r \in Refs : Park(j, v, NoRef, r)) /\ UNCHANGED reports
  /\ item' = [item EXCEPT ![j] = "thread"]
  /\ UNCHANGED <<byteprogress, queueVars, updates, calling, seen, calls, drops>>

\* luaF_filehash or luaF_directoryhash with a callback, and RunAsyncHash.
RunAsyncHash(j, v) ==
  /\ StartThread(j, v)
  /\ \E r \in Refs : Park(j, v, NoRef, r)
  /\ UNCHANGED <<reports, byteprogress, item, queueVars, updates, calling, seen, calls, drops>>

-----------------------------------------------------------------------------
(* The threads. *)

ThreadUnchanged == UNCHANGED <<luaVars, owner, ref, reports, threadList, updates, calling, history>>

\* Mutant of IsProgress: a repeated or late count is not filtered out.
IsAnyProgress(j, dlnow) == j \in reports /\ dlnow # Total

IsProgress(j, dlnow) == j \in reports /\ dlnow # Total /\ byteprogress[j] < dlnow

\* http_progress_call, whenever curl has news inside curl_easy_perform.
http_progress_call(j, dlnow) ==
  /\ j \in running
  /\ IsProgress(j, dlnow)
  /\ byteprogress' = [byteprogress EXCEPT ![j] = dlnow]
  /\ Queue!AddToQueue(1, [job |-> j, bytes |-> dlnow])
  /\ UNCHANGED <<running, item>>
  /\ ThreadUnchanged

\* Mutant of FinishHttp: a transfer that failed returns without an event.
FinishHttpIfSucceeded(j) ==
  /\ j \in running
  /\ running' = running \ {j}
  /\ \/ /\ item' = [item EXCEPT ![j] = "queue"]
        /\ Queue!AddToQueue(2, [job |-> j, bytes |-> 0])
     \/ /\ item' = [item EXCEPT ![j] = "deleted"]
        /\ UNCHANGED queueVars
  /\ UNCHANGED byteprogress
  /\ ThreadUnchanged

\* curl_easy_perform is over, with success, an error or a timeout: the item is
\* moved to its queue and the thread ends.
FinishHttp(j) ==
  /\ j \in running
  /\ running' = running \ {j}
  /\ item' = [item EXCEPT ![j] = "queue"]
  /\ Queue!AddToQueue(2, [job |-> j, bytes |-> 0])
  /\ UNCHANGED byteprogress
  /\ ThreadUnchanged

\* run_async: the hash is there.
FinishHash(j) ==
  /\ j \in running
  /\ running' = running \ {j}
  /\ Queue!AddToQueue(3, [job |-> j, bytes |-> 0])
  /\ UNCHANGED <<byteprogress, item>>
  /\ ThreadUnchanged

-----------------------------------------------------------------------------
(* The main thread, once per frame. *)

Update == /\ turn = 0
          /\ updates' = IF updates > 1 THEN updates ELSE updates + 1
          /\ IF updates > 1 THEN Queue!ProcessEvents ELSE UNCHANGED queueVars
          /\ UNCHANGED <<luaVars, jobVars, item, calling, history>>

EndOfQueue == /\ calling = Idle
              /\ Queue!NextQueue
              /\ UNCHANGED <<luaVars, jobVars, item, updates, calling, history>>

Event == Head(localQueue)

\* run_http_progress_event and progress_lua_http.  Reading a deleted item is
\* undefined: the event may do nothing, or what it did while the item was there.
RunProgress ==
  /\ calling = Idle
  /\ turn = 1
  /\ Queue!RunEvent
  /\ LET j == Event.job
     IN  \/ /\ States!check_active_state(owner[j])
            /\ calling' = <<j, "progress">>
            /\ seen' = [seen EXCEPT ![j] = Event.bytes]
         \/ /\ ~States!check_active_state(owner[j]) \/ item[j] = "deleted"
            /\ UNCHANGED <<calling, seen>>
  /\ UNCHANGED <<luaVars, jobVars, item, updates, asker, calls, drops>>

\* The item and the integers that parked its callbacks go with the event.
DeleteItem(j) ==
  /\ item' = IF j \in HttpJobs THEN [item EXCEPT ![j] = "deleted"] ELSE item
  /\ ref' = [ref EXCEPT ![<<j, "progress">>] = NoRef, ![<<j, "done">>] = NoRef]
  /\ UNCHANGED <<owner, reports, running, threadList, byteprogress>>

\* return_lua_http and call_hash_result for a lua_State that is not registered:
\* its VM has gone, or it is a coroutine's.
DropResult ==
  /\ calling = Idle
  /\ turn \in {2, 3}
  /\ Queue!RunEvent
  /\ ~States!check_active_state(owner[Event.job])
  /\ drops' = [drops EXCEPT ![Event.job] = @ + 1]
  /\ DeleteItem(Event.job)
  /\ UNCHANGED <<luaVars, updates, calling, asker, seen, calls>>

\* return_lua_http and call_hash_result for a state that is registered.
RunResult ==
  /\ calling = Idle
  /\ turn \in {2, 3}
  /\ Queue!RunEvent
  /\ States!check_active_state(owner[Event.job])
  /\ calling' = <<Event.job, "done">>
  /\ calls' = [calls EXCEPT ![Event.job] = @ + 1]
  /\ UNCHANGED <<luaVars, jobVars, item, updates, asker, seen, drops>>

\* Mutant of Released: luaL_unref is called for the callback only.
ReleasedCallbackOnly(j) == {ref[<<j, "done">>]}

\* The integers that luaL_unref frees at the end of a job, whoever uses them.
\* An HTTPItem without progress callback has 0 there, which frees no slot.
Released(j) == {ref[<<j, "done">>], ref[<<j, "progress">>]}

\* A callback returns.  After the last one of a job its refs are freed and the
\* item is deleted; the progress callback leaves everything in place.
CallbackReturns ==
  /\ calling # Idle
  /\ calling' = Idle
  /\ LET j == calling[1]
     IN  IF calling[2] = "progress"
         THEN UNCHANGED <<registry, item, jobVars>>
         ELSE /\ registry' = [registry EXCEPT ![owner[j]] =
                                [r \in Refs |-> IF r \in Released(j) THEN Idle ELSE @[r]]]
              /\ DeleteItem(j)
  /\ UNCHANGED <<activeStates, tainted, queueVars, updates, history>>

MainLoop == \/ Update \/ EndOfQueue
            \/ RunProgress \/ DropResult \/ RunResult \/ CallbackReturns

Next == \/ \E v \in VMs : \/ OpenState(v) \/ CloseState(v)
                          \/ \E j \in HttpJobs : LaunchHTTPRequest(j, v)
                          \/ \E j \in HashJobs : RunAsyncHash(j, v)
        \/ \E j \in HttpJobs : FinishHttp(j) \/ \E n \in 1..Total : http_progress_call(j, n)
        \/ \E j \in HashJobs : FinishHash(j)
        \/ MainLoop

Spec == Init /\ [][Next]_vars

\* The game draws frames and callbacks return; a transfer ends at the latest by
\* CURLOPT_TIMEOUT (http.cpp:133), and a hash when its file has been read.
FairSpec == /\ Spec
            /\ WF_vars(MainLoop)
            /\ \A j \in HttpJobs : WF_vars(FinishHttp(j))
            /\ \A j \in HashJobs : WF_vars(FinishHash(j))

-----------------------------------------------------------------------------
TypeOK ==
  /\ States!StatesTypeOK
  /\ owner \in [Jobs -> VMs \union Coroutines \union {NoVM}]
  /\ ref \in [Callbacks -> Refs \union {NoRef}]
  /\ reports \subseteq HttpJobs
  /\ running \subseteq Jobs
  /\ threadList \subseteq Jobs
  /\ item \in [HttpJobs -> {"none", "thread", "queue", "deleted"}]
  /\ byteprogress \in [HttpJobs -> 0..Total]
  /\ Queue!QueueTypeOK
  /\ updates \in 0..2
  /\ calling \in Callbacks \union {Idle}
  /\ asker \in [Jobs -> VMs \union {NoVM}]
  /\ seen \in [HttpJobs -> 0..Total]
  /\ calls \in [Jobs -> Nat]
  /\ drops \in [Jobs -> Nat]

\* The callbacks of j are still needed: it is not answered, or its answer is
\* being told.
Live(j) == j \in Pending \/ calling = <<j, "done">>

\* A VM that did not inherit its address holds exactly the callbacks of its own
\* jobs that are not over (return_lua_http unrefs both, call_hash_result one),
\* and those of the jobs of its coroutines, whose answers are dropped without an
\* unref (InitiateState.cpp:334, 394).  A VM at an address that had jobs under way may
\* lose any slot to one of them: luaL_unref frees an integer.
NoParkedLeftovers ==
  \A v \in activeStates \ tainted :
    States!Parked(v) =
      {c \in Callbacks : /\ asker[c[1]] = v
                         /\ c[2] = "progress" => c[1] \in reports
                         /\ Live(c[1]) \/ owner[c[1]] # v}

\* A result or a progress report reaches the callback it was asked for with,
\* unless the VM was closed meanwhile and another took over its address, or the
\* item of the report has been deleted.
CallbacksReachTheirJob ==
  calling # Idle =>
    \/ calling[2] = "progress" /\ item[calling[1]] = "deleted"
    \/ owner[calling[1]] \in tainted
    \/ registry[owner[calling[1]]][ref[calling]] = calling

\* While its item exists, a download reports growing byte counts, and none
\* after its result was handed over.
ProgressGrows ==
  [][\A j \in HttpJobs : seen'[j] # seen[j] /\ item[j] # "deleted"
                           => seen'[j] > seen[j] /\ calls[j] = 0]_vars

\* What is promised to Lua: see AsyncRequests.
Fate(j) == CASE owner[j] = NoVM -> "unmade"
             [] j \in Pending -> "pending"
             [] calls[j] = 1 /\ drops[j] = 0 -> "called"
             [] calls[j] = 0 /\ drops[j] = 1 -> "dropped"
             [] OTHER -> "resolved twice"
Promise == INSTANCE AsyncRequests
           WITH Requests <- Jobs, open <- activeStates, fate <- [j \in Jobs |-> Fate(j)]

\* dohttpreq, FileHash and DirectoryHash resolve each request at most once, by
\* a call only while a state is registered at the lua_State it was made with,
\* and else by dropping the answer.
KeepsPromise == Promise!Spec

\* Every request and every hash is answered, or dropped if no state is
\* registered at the lua_State it was made with.
EveryJobResolved == \A j \in Jobs : j \in Pending ~> Resolved(j)

\* "HTTP work is ordered safely" (README.md:12): a progress event is never run
\* after the item it points to was deleted.
ProgressBeforeDeletion ==
  [][turn = 1 /\ turn' = 1 /\ localQueue' # localQueue
       => item[Event.job] # "deleted"]_vars
=============================================================================
