# A verification project for SuperBLT

SuperBLT is a DLL loaded into a game. It hooks the game's Lua interpreter, gives mods a Lua
library (asynchronous file access, HTTP, hashing, XAudio, native plugins) and lets scripts in a
second language, Wren, rewrite the XML files and the assets that the game loads.

The TLA+ modules here model the parts of it where several actors meet: operating system threads,
the main thread of the game, Lua states that come and go, plugins that call back into the loader,
threads that load assets, scripts that share XML documents with a garbage collector, and processes
that replace the DLL under each other. TLC checks the modules on small instances; TLAPS proves the central
theorems for every value of the constants. `PROJECT.json` lists the runs, the theorems, the
hazards and, for every definition, the lines of C++ it stands for.

Paths below are relative to the repository; `src/luautil/...` means `src/src/luautil/...` in
`PROJECT.json`, where the first `src/` is the repository itself.

## 1. Inventory

| Component | Code | State it keeps | Operations |
|---|---|---|---|
| Event queues | `threading/queue.h`, `threading/threadqueue.cpp` | per queue a deque under a lock; a master list of queues | `AddToQueue` (any thread), `ProcessEvents` (main thread) |
| Async file I/O | `luautil/LuaAsyncIO.cpp` | `task_list`, `thread_count` under `task_mutex`; registry refs | `read`, `write`, worker loop, completion |
| HTTP | `http/http.cpp`, `InitiateState.cpp` | `threadList`, `HTTPItem` per request, two queues | `dohttpreq`, transfer thread, progress, result |
| Hashing | `util/hashing.cpp`, `InitiateState.cpp` | `threadList`, one queue | `FileHash`, `DirectoryHash`, thread, result |
| Lua states, frame update | `InitiateState.cpp` | `activeStates`, `updates`, each state's registry | new state, close, per-frame `update` |
| Native plugins | `plugins/plugins.cpp` | `plugins_list` | `LoadPlugin`, set-up in states, update |
| XAudio | `xaudio/*` | OpenAL names, `openBuffers`, `openSources`, use counts, Lua handles | `loadbuffer`, `newsource`, `setbuffer`, `close`, `reset` |
| Asset database hooks | `tweaker/db_hooks.cpp`, `assets/assets_game.cpp` | `overriddenFiles`, each hook's source, the detour of `try_open` | register, setters, `hook_load`, `hook_asset_load` |
| Wren runtime, XML tweaks | `tweaker/wrenloader.cpp`, `tweaker/xmltweaker.cpp`, `tweaker/wren_lua_interface.cpp`, `platform_game.cpp` | the VM, its lock and handles, `last_parsed`, `ignored_files`, `buffers`, registered objects, the detour of `node_from_xml` | `node_from_xml_new`, `tweak_raid_xml`, `transform_file`, `free_tweaked_raid_xml`, `wren_io.invoke`, `blt.ignoretweak` |
| Wren XML documents | `tweaker/wrenxml.cpp` | `WXMLDocument`s with their maps, `WXMLNode`s with their usage counts, mxml's trees | parse, clone, create, walk, attach, detach, delete, finalizers |
| Wwise sound maps | `assets/assets.cpp` | custom bank and stream ids | register, unregister, id lookups |
| DLL updater | `updater/updater.cpp`, `platform.cpp` | the DLL with its `.new` and `.old`, the cached answer of the last check | check at start, check process, prompt, install process, clean-up at start |
| Database reader | `dbutil/*`, `luautil/LuaAssetDb.cpp` | an index read once | look-ups |
| Rest | logging, console, ZIP, converters, signature search, loader DLL | | sequential or pure |

How they interact:

- *Workers to the main thread.* Everything that runs in a thread of its own (file I/O, HTTP,
  hashing) hands its result over by adding an event to one of the event queues. The main thread
  drains the queues once per frame, in `update` (`InitiateState.cpp`), and the event calls Lua.
- *C++ to Lua.* A request parks its callback in the registry of the Lua state that made it
  (`luaL_ref`) and keeps the `lua_State*`. When the answer comes the state may be closed, which
  `check_active_state` tells from its address; the allocator may have given the same address to a
  new state, which it cannot tell. The `lua_State*` of a coroutine is none of the registered ones.
- *Plugins.* The loops over states and over plugins call plugin code, which may load a further
  plugin and so extend the list such a loop is in the middle of.
- *Wren and the game's loading threads.* Wren code runs under the VM's lock, on whatever thread
  needs it; asset loads read the hooks it has configured without that lock, and take the detour
  of the game's `try_open` away while they call the original. A thread that parses an XML file
  takes the detour of `node_from_xml` away in the same manner, and finds out what it parses from
  two globals of the game.
- *Wren scripts and their collector.* Objects of the script class `XML` share `WXMLNode`s and,
  through them, documents; the collector finalizes objects in any order.
- *The game and `rundll32`.* The updater runs in processes of its own, which load the DLL that they
  replace and talk to the game by their exit and by a file; they may outlive the game.

What is hard, and what each component owes:

| Component | Hard behaviour | What makes it correct |
|---|---|---|
| Event queues | events added while the queue is run, by the events too | every event run once, in order, none lost between the locked and the unlocked half |
| Async file I/O | idle timeout against dispatch; states closed with tasks in flight; addresses reused | bounded pool, task at one place, answered once or dropped, registry slots neither leaked nor freed early |
| HTTP, hashing | three queues, an item that one event owns and another points to | answered once or dropped, callbacks released, progress before the end |
| Plugins | nested loading, errors in the middle of a loop | every plugin in every state, every frame |
| XAudio | shared cached buffers closed by force, names and addresses reused, reset behind Lua's back | an open handle is usable, the cache is exact, nothing deleted twice, no leak |
| XML tweaks | the name of a file, its text and a script's result reach the tweaker through globals that other threads overwrite | an undisturbed text is rewritten as itself, copies are freed once, the detour comes back, no handle is lost |
| Wren XML | subtrees that change documents, documents closed under their nodes, addresses reused | a document and its nodes agree, each mxml node has one owner, scripts that keep the rules cannot crash |
| DLL updater | a process that ends between two renames, checks that come late, installers that compete | a working DLL stays in reach, only verified code is installed, an offer is current |
| Asset hooks | a setter half done while a thread loads; detours removed by several threads at once | an undisturbed load ends as configured; the detour comes back |

The hazards, each at its line and with the properties that watch it, are in `PROJECT.json`.

## 2. Modules

| Module | Models | Uses |
|---|---|---|
| `FifoChannels` | abstract: a family of unbounded channels | |
| `EventQueue` | `queue.h`, `threadqueue.cpp` | refines `FifoChannels` (`FifoDelivery`) |
| `LuaStates` | `activeStates` and the registries; `luaL_ref`, `luaL_unref`, `check_active_state` | |
| `AsyncRequests` | abstract: what Lua is promised by an asynchronous call | |
| `AsyncIO` | `LuaAsyncIO.cpp` with the frame update | composes `EventQueue` (one queue) and `LuaStates`; refines `AsyncRequests` (`KeepsPromise`) and `FifoChannels` (`CompletionsFifo`) |
| `BackgroundJobs` | HTTP and hashing | composes `EventQueue` (three queues) and `LuaStates`; refines both abstract modules |
| `XAudio` | buffers, sources, handles | |
| `NativePlugins` | plugins, states, `update`'s second half | |
| `AssetHooks` | hooks, the Wren lock, `hook_load` | |
| `XmlTweaks` | `node_from_xml_new`, `xmltweaker.cpp`, the VM lock and its two entrances | |
| `WrenXml` | `wrenxml.cpp` | |
| `Updater` | `updater.cpp`, the start in `platform.cpp` | |
| `MCAsyncIO`, `MCXAudio`, `MCWrenXml`, `MCUpdater` | symmetry sets for TLC | |
| `EventQueueProofs`, `AsyncIOProofs`, `BackgroundJobsProofs`, `XAudioProofs`, `AssetHooksProofs`, `XmlTweaksProofs`, `WrenXmlProofs` | proofs about the module of that name | `AsyncIOProofs` and `BackgroundJobsProofs` use `EventQueueProofs` |
| `DllProofs` | proofs about `NativePlugins` and `Updater` | |

### EventQueue, FifoChannels

`eventQueue[q]` is the deque of the q-th registered queue, `localQueue` the local variable of
`ProcessEvents`, `turn` the queue the master's loop is at. `AddToQueue`, `Drain` (the locked half
of `ProcessEvents`) are critical sections of the queue's lock; `RunEvent` is a step of the main
thread without it. The refinement maps channel q to the drained events followed by the undrained
ones.

### LuaStates

A state is its address, and a parked callback is known by an integer, as in the code. `Caller` is
what lua_State a C function is passed: the state's own or, inside a coroutine, the coroutine's, which
shares the registry but is never registered. `luaL_unref` frees an integer whoever uses it; from then
on `luaL_ref` may return it again, and in a state where integers were freed that it still used
(`tainted`) it may return one in use (`Available`). `add_active_state` gives the address an empty registry, also when it
belonged to a closed state before: that is the reuse `check_active_state` cannot see. States are
opened and closed between two updates (`turn = 0`): a Lua callback cannot close its own state,
and nothing in the library closes another. `AsyncRequests`, the promise, says that a request is
resolved by a call while a state is registered at the lua_State it was made with, and else by
dropping the answer: a request of a state's main program is dropped only after the state was
closed, one of a coroutine always is (finding 15).

### AsyncIO

A task is one call of `blt.async_io.read` or `.write`. `Submit` is `aio_read`/`aio_write` with
the locked part of `dispatch_task`, `start_task_thread` included. `TakeTask`, `GiveUp`, `Post`,
`Return` and `Leave` are the worker's lambda, cut at its lock operations: `wait_for` with an item,
`wait_for` that timed out, the task's function up to its queued completion, the destruction of the
task's locals, and the second critical section that decrements `thread_count`. `Update`,
`EndOfQueue`, `DropCompletion`, `RunCompletion`, `CallbackReturns` are the main thread. `notify_one`
has no action: a worker in `wait_for` looks at `task_list` again at the latest when its timeout
expires. `owner` is the lua_State that the task has captured, `asker` the state whose code made the
call. `asker`, `calls` and `drops` are history, `tainted` marks the states that inherited an
address from a state with tasks in flight.

### BackgroundJobs

A job is an HTTP request or a hash. The thread of a request is any sequence of growing byte
counts (`http_progress_call`, queue 1) followed by an end (`FinishHttp`, queue 2), success, error
and timeout alike. `item[j]` follows the `HTTPItem` from its thread to its event to its deletion.
An event that reads a deleted item may do anything the old contents allow, or nothing.
`RunResult`, `CallbackReturns` are `return_lua_http` and `call_hash_result` cut at the call of Lua.
`ref` holds the integers that a job was given for its callbacks (`Park`), and `Released` are those
that it frees at its end in whatever state is at its address by then: the registry of a state that
inherited its address may lose a slot of another job, and two callbacks may be given one integer.

### XAudio

`xabuffer` and `xasource` are the C++ objects by address, `alBuffers` and `alSources` the names
OpenAL has given out, `openBuffers` the cache, `bufferHandle` and `sourceHandle` the
`XALuaHandle`s that Lua has open. A call of `loadbuffer` is `LoadBegin` (one `alGenBuffers` for
all names) and one `LoadCached` or `LoadFile` per name, or an error that leaves the call: `LoadFails`,
a file that cannot be decoded, or `LoadRefused`, data that OpenAL does not take, which is found out
after the object was cached. `CloseBuffer` is
`XABuffer_Close` down to `ALClose`; OpenAL refuses to delete a buffer that a source has. OpenAL
reuses names and the allocator addresses; a handle that survived `Reset` finds what is in its
object's memory now.

### NativePlugins

`stack` is the C++ call stack as far as it consists of loops over `activeStates` and
`plugins_list`: `initiate_lua`, `RegisterPluginForActiveStates`, `update`. Where a loop calls
foreign code (`inside`), that code may load a further plugin, which pushes a loop; the loops are
range-fors and indices that see what was appended. `SetupRaises` is a Lua error in a plugin's
set-up that unwinds into the `pcall` of the script that loaded it.

### AssetHooks

Two kinds of activity share the threads: Wren code under `vm_mutex` (`EnterWren` to `LeaveWren`)
and loads (`TryOpen` to `Loaded`). A setter is two steps, `clear_sources` and the new value, as
the code is. `Find`, `ReadSource`, `OpenFile`, `LockWren`, `CallLoader`, `LoaderReturns` are
`hook_asset_load`, one step for each read of the hook's fields; `NotFound`, `CallOriginal`,
`CheckLoaded` are the rest of `hook_load`, with the `ScopedHookRemove` (`removed`, `installed`)
and the second attempt in fallback mode. `CallOriginal` may find that another thread has put the
detour back, and then enters a nested `hook_load`.

### XmlTweaks

`Load` is the game setting `last_loaded` (its pair of globals for name and extension) before it
parses; `LoadUnparsed` sets it for a file that is not parsed as XML, and `LoadFromFilesystem` parses
without setting it. `EnterHook`, `RemoveDetour`, `Identify`,
`Remember`, `Transform`, `TweakReturns` or `TweakFails`, `Copy`, `FreeText` are one call of
`node_from_xml_new` cut wherever it reads or writes something shared; `Bypass` is a call while
another thread has the detour out. `vm_mutex` is `lock_wren_vm`'s, `slot` the thread whose result
lies in slot 0. `FindObject`, `Invoke`, `InvokeReturns` are `wren_io.invoke`, `SetTweakerEnabled` and
`RegisterObject` what scripts do meanwhile, `IgnoreFile` is `blt.ignoretweak`. `told`, `stale`,
`settled`, `due` are history; `settled` follows who could still disturb a parse, `due` what was to
come of it when it began (`ToRewrite`). A text from the filesystem is due if the file last loaded by
name was not parsed, or was parsed while the tweaker was off (finding 16).

### WrenXml

`tree` and `parent` are mxml's nodes, `docs`, `root_node` and `nodes` the `WXMLDocument`s, `wraps`,
`root`, `handle` and `usages` the `WXMLNode`s. Every method that can move or end something is an
action; `Navigate` stands for the five that walk, which only look a node up or make its `WXMLNode`.
`WXML_ERR` does not return from the C++ function, so actions have no guard where the code only
reports: `Attach` takes children and nodes of its own tree, and `misuse` remembers it. An object
whose document is gone is used or finalized by `UseDangling`, which may do anything to the game.
`GetText` is `.text` of an element, the only kind of node there is; the getters that work on
elements, and the setter of texts, which mxml refuses, change nothing of this state. `TryParseFails`
and `ParseEmpty` leave an object that is not attached to a tree (`BareNode`), after a text that is
no XML and after an empty one.

### Updater

`dll`, `old` and `new` are the file and its two companions: a version, absent, or `Partial`.
`image` says of each process under which name lies the file it has loaded, which Windows does not
let anybody remove or replace, but lets them rename. `Start`, `RemoveLeftOver`, `SkipCheck`,
`Check`, `CheckTimesOut`, `CheckEnds`, `Decline`, `Accept`, `InstallEnds` are the game's side;
`Answer`, `OpenCache`, `SaveCache` a check process; `Download` to `MoveInto` an install process.
`GameEnds`, `KidEnds` end a process anywhere. `recent` is the age of the cached answer.

## 3. Runs

| Run | Instance | Shows |
|---|---|---|
| `async_io` | 3 tasks, 2 addresses for states and coroutines, 3 threads, pool of 2, 3 refs; symmetry | every safety and refinement property of `AsyncIO` |
| `async_io_live` | 2 tasks, 1 state, 1 coroutine | `AnsweredIfServed`, `IdlePoolDrains` under `FairSpec` |
| `background_jobs` | 1 request (with or without progress), 1 hash, 2 states, 1 coroutine, 2 refs, downloads of 3 bytes | promise, refs and callbacks, progress, liveness |
| `xaudio` | 2 files, 2 names and 2 addresses of each kind, 3 handles, batches up to 2; symmetry | cache, ownership, handles, sources |
| `native_plugins` | 3 plugins (2 with update), 2 states | set-up and update under nesting |
| `asset_hooks` | 2 threads, 2 assets (one the game has), one nested `hook_load` | loads against setters and against each other |
| `xml_tweaks` | 2 threads, 2 files (1 excluded), 2 addresses, 1 registered object, 1 failure | rewriting, copies and handles in every interleaving |
| `wren_xml` | 4 mxml nodes, 2 documents, 3 `WXMLNode`s with up to 2 objects; symmetry | ownership, misuse, the collector |
| `updater` | 2 processes beside the game, 3 versions (the fork, one signed, one not) | the DLL on disk, what is installed, what is offered |
| `async_io_dangling` | violated: `ReadBytesAlive` | the completion outlives the buffer it refers to |
| `background_jobs_order` | violated: `ProgressBeforeDeletion` | progress after the item was deleted |
| `xml_tweaks_copy` | violated: `TextAliveWhenCopied` | another thread's script between a result and its copy |

What the properties say in detail stands in the comment above each of them. The ones that carry
most weight:

- `EachTaskOnce`, `KeepsPromise`: whatever the interleaving of main thread, workers and states
  that close, a task is at one place, and its answer is given once or dropped.
- `RegistryExact`, `CallbacksNotMisrouted`, and for HTTP and hashes `NoParkedLeftovers`,
  `CallbacksReachTheirJob`: registry slots and unfinished calls correspond one to one, but for the
  calls of coroutines, whose slots stay. They exclude states that took over the address of a state with tasks in flight, and
  with that exclusion they say exactly where the address test of `check_active_state` fails and where
  `luaL_unref` of an old integer may hit another job.
- `OnlyLateDispatchStrands`: the only way to leave a task without a thread is a dispatch that counts
  on a thread whose time is over (finding 1); `AnsweredIfServed` says that otherwise everything is answered.
- `OpenHandleUsable`, `CacheExact`, `NoSourceLost`: forced closes, reuse and resets included.
- `EveryStateHasEveryPlugin`, `SetUpTwiceOnlyIfNested`, `UpdateAfterSetup`, `FrameUpdatesAll`.
- `SettledLoadsAsConfigured`, `DetourComesBack`, `CrashNeedsSetter`.
- `SettledTextIsTakenForItself`: both directions, rewritten if it is to be and only then, for a parse
  that nobody disturbed, by scripts that are told the file last loaded by name, which is its own
  unless the text came from the filesystem; who counts as disturbing is the set of actions
  that unsettle, and is as small as the property allows.
- `MapsExact`, `OnlyDetachLeaks`, `CrashNeedsMisuse`: the ownership of XML nodes after any history of
  moves, merges and collections; the misuses in `misuse` are exactly those without which it holds:
  a text that is no XML or is empty, a closed node, an attached child or own tree, the text of an element.
- `WorkingDllInReach`, `OnlyWholeSignedInstalled`: under crashes of every process and with competing
  installers.

`TypeOK` of `AsyncIO`, `AssetHooks`, `XmlTweaks` and `Updater` (there `UpdaterTypeOK`), `WrenIsSerial` of `AssetHooks`,
`OneScriptAtATime` and `DetourComesBack` of `XmlTweaks`, and the order of the queues of
`BackgroundJobs` are proved and in no run.

### Bounds

- `AsyncIO`: `MAX_THREADS` is 2 (4 in the code) and `Backlog` 1 (5): both the first thread and
  a further thread are started, the pool is full, and a third operating system thread exists so
  that a thread on its way out does not have to be waited for. With three tasks one can wait, one run and
  one be queued. Two addresses allow one state to be replaced while another goes on; the coroutines
  have the same two, so that a state may be opened where a coroutine was. The proofs
  lift these bounds for everything but liveness. The liveness runs have two tasks and one state,
  which is what the strandings need: one task to start a thread, one to come late.
- `updates` saturates at 2: the code only asks whether it is more than one.
- `BackgroundJobs`: a request and a hash, so that two jobs of two kinds meet in one frame, in one
  state or two; two states, so that one address is reused while the other goes on; two integers, just
  enough for a request with progress, so that every job gets one that was freed before; `Reporters`
  are the requests that may have a progress callback; `Total = 3`, so that there are two byte counts
  below the total to come in an order. Several requests at once are in the proofs.
- `XAudio`: `MaxBatch` 2 (32 in the code): a batch may hit the cache with a file of its own. Two
  files share two buffer names and two addresses with the sources' reuse on top. Deadlock is
  not checked there: when every OpenAL name has leaked, nothing is left to do.
- `NativePlugins`: three plugins allow two levels of nesting and one plugin that is not nested.
- `AssetHooks`: two threads are enough for every pairwise race; `MaxNested = 1` because a thread
  nests only while the other one put the detour back.
- `XmlTweaks`: two threads; one file that is excluded and one that is not, so that each can be loaded
  twice in a row or alternate; two addresses, as many as there can be copies at a time;
  `MaxFailures = 1`, since failures only add to the handles lost. Everything but
  `TextAliveWhenCopied` is proved without these bounds.
- `WrenXml`: four nodes make trees of depth four, or two trees one of which can be cloned,
  detached and attached; with two documents each operation that takes two has them, and one address
  is reused; three `WXMLNode`s leave nodes that scripts do not know; `MaxUsages = 2` has a first and a
  last object. Deadlock is not checked: a game that has crashed does nothing any more.
- `Updater`: two processes are two installers, an installer and a late check, or the check of one
  start and that of the next. Its safety is proved for any number.

### Fairness

`AsyncIO!FairSpec` and `BackgroundJobs!FairSpec` assume weak fairness of the main thread (the
game draws frames, and a Lua callback returns, or the game hangs) and of each live thread (the
operating system schedules it; a timed wait ends after 500 ms; a transfer ends at the latest with
`CURLOPT_TIMEOUT`, `http/http.cpp:133`; a hash ends with its file). Nothing is assumed of Lua:
that a request is made, or a state opened or closed, is never forced. Weak fairness is enough
because none of these steps is disabled by another actor once it is possible for good.

## 4. Proofs

All proofs assume only the `ASSUME` of the modules, which say that the null values are not members
of their sets (nor records of those sets, where a variable holds either), that sets which are
counted are finite, and that bounds are numbers; and for the event queues that there is at least one
queue. Every safety property that a passing run checks, and every refinement, is proved for all
values of the constants; the run is what found the invariants.

- `EventQueueProofs!QueuesDeliver`: `QueueSpec => FifoDelivery`, for any number of queues and any
  events. `AddToQueue` is a `Put`, `RunEvent` a `Take`; draining owes the same (`DrainOwesTheSame`),
  because the queue that is drained into the local queue is one whose local part was empty.
- `AsyncIOProofs`: `PoolInv == TypeOK /\ PoolBounded /\ RunningHasTask` is inductive. `TypeOK` alone
  is not: that `thread_count - 1` is a natural number needs `PoolBounded`, and that what a worker
  posts is a task needs `RunningHasTask`. From it come `TypeCorrect`, `PoolStaysBounded` and
  `OnlyLateDispatch`; `CompletionsInOrder` reuses the step lemma of `EventQueueProofs`. The module
  goes on with `OnceInv == PoolInv /\ AtOnePlace /\ CountedOnce /\ LocalQueueDone`. `AtOnePlace` is
  `EachTaskOnce` written for the provers (`OnePlaceMeaning` is their equivalence). `LocalQueueDone`
  is needed where `ProcessEvents` overwrites the local queue, `CountedOnce` where a completion ends
  a task. `NoTaskLostOrDoubled` and the refinement `AsyncIOKeepsPromise` follow: a completion that
  runs or is dropped is the head of the local queue, so by `AtOnePlace` it is pending and nowhere
  else. Its third part has `RegistryInv == OnceInv /\ CallingRegistered /\ AskersOpen /\
  SlotsMatch`.
  `RegistryExact` speaks of the sets of parked callbacks and is not inductive; `SlotsMatch` ties
  each slot to the task that holds its number, or to a task of one of the state's coroutines, whose
  slot stays (`Kept`). `AskersOpen` has a closed state forget its tasks. `CallingRegistered` keeps the state of a running
  callback open. `RegistryStaysExact` and `CallbacksReachTheirOwner` follow.
- `BackgroundJobsProofs`, from `BackgroundJobsAssumption`: `JobsInv == TypeOK /\ PlacedOnce /\
  CountedOnce /\ CallingRegistered /\ JobRecords /\ SlotsMatch /\ ProgressOrdered /\ ItemHandedOver`.
  What a queue owes, drained or not, is one sequence, so that a drain disturbs nothing; each conjunct
  is about those sequences. `PlacedOnce`: a pending job is at work or has one event in the queue of
  its kind. `SlotsMatch`: in a state that did not inherit its address, a slot holds a callback that
  is `Kept`, at the very integer its job has if the job was made by the state itself; and every such
  callback has a slot. It needs `JobRecords`, because two integers of one job must not be mistaken for
  one. `NothingLeftParked` and `CallbacksReachTheirOwner` are what it says of the registry as a whole
  and of the callback that runs.
  `ProgressOrdered`: the counts still to be told of one job increase along the queue, start above
  the last one told and end at most at the item's; `ProgressKeepsGrowing` is what it says of the
  first one. `ItemHandedOver` gives the `HTTPItem` one owner at a time, the thread, its event,
  nobody. `JobsKeepPromise` is the refinement of `AsyncRequests`, `ResultsInOrder` that of
  `FifoChannels`.
- `XAudioProofs`, from `XAudioAssumption`: `XAudioInv == BufferInv /\ SourceInv`; most steps touch
  one half only (`Halves`). For buffers, `OpenHandleUsable` is not inductive: that a forced close of
  one handle leaves the buffer to the others needs `UseCounts`, an object's use count is at least
  the number of its open handles. It is no equality, because handles that are dropped, or left by a
  failed `loadbuffer`, are never counted down. `LoadInv` keeps the fresh names of a `loadbuffer`
  call apart from each other, for `OneOwner`; `NewBufferKeeps` serves the two steps that make a buffer. For sources, `SetExact` says that `openSources` holds
  the valid objects, each with a name of its own, `SingleUse` that every open source has one user,
  so that each close is the last, and `HandlesKnown` that two handles of an open source mean a stale
  one. `NoSourceLost` follows, and `OnlyAttachedLeak`, a property of steps, from `BufferInv`.
- `AssetHooksProofs`, from `AssetHooksAssumption`: `HookInv == TypeOK /\ HalfSet /\ WrenIsSerial /\
  DetourInv /\ LoadsOnTrack`. A setter clears a hook and then sets it, so that a hook has one source
  at most follows only with `HalfSet` (a hook in between is empty). `DetourInv` adds to
  `DetourComesBack` where a thread may be that has taken the detour out: in the original function,
  just after it, or in its second attempt; otherwise a second `ScopedHookRemove` of the same thread
  could forget what the first one owed. `LoadsOnTrack` says for each point of a load what it knows
  of its hook as long as no setter touches that; `SettledLoadsAsConfigured` and `CrashNeedsSetter`
  are its instances at the end of a load and where a value is used. The theorems hold for any number
  of threads, assets and nested loads.
- `XmlTweaksProofs`, from `XmlTweaksAssumption`: `TweakInv` puts next to the safety properties
  `KindsOK`, the types but for `handles`; `CopiedWhere`, that only a parse at its end has a copy,
  which makes a new copy the only one of its thread; and `DecisionInv`, which says for each point of
  an undisturbed parse how far the decision to rewrite has got, starting from `ToRewrite` of the file
  last loaded by name. `SettledTextIsTakenForItself` is its
  last instance. `HandlesBalance` is proved on top of that by counting: each call of Wren changes
  one of three finite sets by one element (`BalanceNext`). Only then is `handles` a natural number
  (`TypeCorrect`), because `TweakReturns` subtracts two.
- `WrenXmlProofs`, from `WrenXmlAssumption`. The trees come first, for any set of nodes and any
  parents: `Reaches` is the way up, defined by sets closed under parents (`UpClosed`), and the
  lemmas say what it does when a tree is added, cut off, moved or copied. `XmlInv == TypeOK /\
  UpClosed(parent, tree) /\ CrashNeedsMisuse /\ (WellUsed => Exact)`, and `Exact` is `Forest` (every
  document has a tree of its own, whose root has no parent, and every node is in one), `WrapsKnown`
  and `MapsKnown` (the two directions between a document's map and the `WXMLNode`s), `LostDocs` (the
  documents with an empty map are those a detach has emptied) and `NoDangling` (only a text that is
  no XML leaves a `WXMLNode` with a document and no node). `MapsStayExact` puts the two directions
  together, `NoTreeLostOrShared` counts the roots above a node (`OneRoot`). `Exact` holds until the
  first misuse; of what comes after it only `TypeOK`, `UpClosed` and `CrashNeedsMisuse` are claimed.
- `DllProofs`, of the updater, from `UpdaterAssumption` (the operators of `Updater` that
  `NativePlugins` has too carry its name, as in `UpdaterSpec`, so that one module can extend both):
  `FileInv` adds to `WorkingDllInReach` that the file a process has loaded is whole (`ImagesWhole`).
  That is the reason the property holds: whoever is in a position to remove `.old` has itself loaded
  one of the two files, which is whole; if that is `.old` Windows refuses, and if it is the DLL that
  one is left. `GotSigned` and `NewFileInv` carry what was verified to the rename. `OfferInv` ties
  the cached answer to that of the game's own check as long as nobody meddled, for `OfferIsCurrent`,
  a property of steps.
- `DllProofs`, of the plugins, from `NativePluginsAssumption`, for any depth of loading within
  loading: `IInv == Placed /\ DebtInv /\ FrameInv`. `Placed` bounds the loops and says that only the
  outermost can be one of `initiate_lua` or `update` and that no two loops of `LoadPlugin` have the
  same plugin. `DebtInv` counts for each state and plugin the set-ups done and those that a loop on
  the stack still owes: at least one together (or an error took it), at most one, or two if the
  plugin was loaded while the state was given its plugins. `EveryStateHasEveryPlugin` is that count
  when no loop is left, and `SetUpTwiceOnlyIfNested` alone is not inductive because it does not see
  what is still owed. `FrameInv` says what the loop of `update` has behind it.

Only model-checked: liveness (`AnsweredIfServed`, `IdlePoolDrains`, `EveryJobResolved`), which is
out of reach of the prover.

## 5. Findings

Each is told in `PROJECT.json` with the lines it contradicts. Where a run shows it, the run is named;
the others are unconditional (the code does it every time) or follow from one reading, and the
models contain the step.

1. *A dispatch can be stranded* (`luautil/LuaAsyncIO.cpp:130`): the last pool thread has timed out but
   is still counted when a task arrives. `OnlyLateDispatchStrands` says that nothing else strands.
2. *A read's completion refers to a dead vector* (`:181`, run `async_io_dangling`).
3. *Progress may follow deletion* (`http/http.cpp:87`, run `background_jobs_order`).
4. *Threads are kept for ever* (`http/http.cpp:169`, `util/hashing.cpp:76`), against README.md:11.
5. *Cached loads leak OpenAL buffers* (`xaudio/XABuffer.cpp:40`), against README.md:13.
6. *Loads bypass their hooks while another thread has the detour out* (`assets/assets_game.cpp:114`).
7. *A hook is read without the lock its setters hold* (`tweaker/db_hooks.cpp:360`); `asset_hooks`
   shows that this is the only way a load crashes (`CrashNeedsSetter`).
8. *`isEnabled` answers the opposite of its documentation* (`tweaker/db_hooks.cpp:526`).
9. *A script's result is read after the lock was given up* (`tweaker/wrenloader.cpp:557`, run
   `xml_tweaks_copy`).
10. *A parse error finalizes the wrong object* (`tweaker/wrenxml.cpp:281`).
11. *`attach` goes on after its own error* (`tweaker/wrenxml.cpp:457`).
12. *The self-updater is not disabled* (`platform.cpp:53`), against README.md:13.
13. *A failed installation is taken for a success* (`updater/updater.cpp:420`).
14. *`.old` is removed at the next start, or the start fails* (`platform.cpp:45`).
15. *Answers to coroutines are dropped and their registry slots kept* (`luautil/LuaAsyncIO.cpp:63`,
    `InitiateState.cpp:334`, `:394`): they hold a lua_State that nothing registers.
16. *A text from the filesystem may be rewritten as another file* (`tweaker/xmltweaker.cpp:37`).
17. *`.text` of an element goes on after its own error* (`tweaker/wrenxml.cpp:328`) with a null pointer.

Two more statements of the README that the code at this commit does not bear out are about things
no module models: TLS verification is enabled (README.md:12, `http/http.cpp:129`), log lines are
buffered (README.md:12, `util/logging.cpp:162`).

## 6. What is not modelled

- In the modelled parts: out-of-memory errors of Lua (`LUA_ERRMEM`), errors inside an error
  handler, the depth of the Lua stack, the length and order of a registry's free list; the
  destruction of static objects when the process ends; file contents, hashes, HTTP headers and
  error texts; curl, OpenAL and the game itself beyond how the code uses them.
- Data races inside a container (`overriddenFiles`, `plugins_list` from a loading thread) are
  undefined behaviour without bounds; the modules take one operation on a container as atomic, and
  the hazards name the lines.
- `AssetHooks` takes the patching of the detour itself as atomic (it is done by an external library), and leaves
  out the conversion of 32-bit assets, data stores and getters.
- `XAudio` leaves out the OpenAL context and the parameters of sources and listener, which are
  passed through.
- `NativePlugins` leaves out the Lua libraries a state is given and an abort on a duplicate
  registration.
- `XmlTweaks` leaves out the search for modules, their compilation and the conversion of arguments
  between Lua and Wren; the lock is recursive in the code, and nothing modelled enters it twice.
- `WrenXml` leaves out names, attributes, texts and the position among siblings, and attaching to or
  from the object that an empty text leaves: it has a document without a tree.
- `Updater` leaves out the ZIP file, the signature algorithm and the network, which are inputs.
- The Wwise sound maps (`assets/assets.cpp`): every operation is one critical section on two maps.
  The open questions, whether a bank load under the mutex can wait for a thread that needs it, and
  which look-ups pass by while a detour is out, depend on functions of the game that are not here.
- Of the lines in the repository about nine in ten are libraries and their headers (audio, XML, JSON, Lua
  interfaces, the Wwise SDK's headers), formats and byte tables; the modules are about what the
  library adds, and about the state it shares.
- The components listed as `not_modelled` in `PROJECT.json`, with the reason for each.

## 7. Plan

Done, in this order because everything asynchronous goes through the queues and the states:
`EventQueue` with its abstract specification, `LuaStates`, `AsyncIO`, `BackgroundJobs`, `XAudio`,
`NativePlugins`, `AssetHooks`, `XmlTweaks`, `WrenXml`, `Updater`, each with its proofs.

To come:

1. For `XAudio`, the exact number of names a `loadbuffer` call leaks, and that a sequence of calls
   without forced closes of shared buffers leaks nothing else.
2. For `WrenXml`, what still holds after each single kind of misuse.
3. Hazards without a property, as `PROJECT.json` lists them, where a model of the code can reach them.

## 8. Running it

    tlc -workers 2 -config AsyncIO.cfg MCAsyncIO        # and likewise for the other runs
    tlapm AsyncIOProofs.tla                             # and likewise for the other proof modules
