------------------------------ MODULE AssetHooks ------------------------------
(***************************************************************************)
(* Hooks on the assets the game loads (tweaker/db_hooks.cpp, hook_load of  *)
(* assets/assets_game.cpp) and the lock of the Wren VM                     *)
(* (tweaker/wrenloader.cpp).  Wren code registers a hook for an asset and  *)
(* says where its contents come from; the threads in which the game loads  *)
(* assets run into hook_load, which asks the hook before or after the      *)
(* game's own try_open.                                                    *)
(*                                                                         *)
(* Wren code runs under the VM's lock.  The loading threads read a hook's  *)
(* fields without it, one after the other.  While hook_load calls the      *)
(* game's try_open it has taken its own detour out of that function, for   *)
(* every thread.                                                           *)
(***************************************************************************)
EXTENDS Naturals, FiniteSets

CONSTANTS Threads, NoThread,
          Assets, NoAsset,
          Originals,   \* the assets the game can load by itself
          MaxNested    \* bound: hook_loads a thread can be inside at once, less one

ASSUME AssetHooksAssumption == /\ NoThread \notin Threads
                               /\ NoAsset \notin Assets
                               /\ Originals \subseteq Assets
                               /\ MaxNested \in Nat

VARIABLES
  overriddenFiles,   \* assets that have a hook
  fallback,          \* DBTargetFile::fallback
  sources,           \* which of plain_file, direct_bundle, wren_loader_obj are set
  setting,           \* the setter under way has cleared these and is to set this
  vm_mutex,          \* the thread that holds it
  pc, asset,         \* where a thread is, and the asset it loads
  fallback_mode,     \* the argument of its hook_asset_load
  nested,            \* hook_loads it is inside, below the innermost one
  installed,         \* the detour of try_open is in place
  removed,           \* ScopedHookRemove::removed_ of the innermost hook_load
  archive,           \* what the load has come to
  game,              \* "running", "exited" on purpose, or "crashed"
  bypassed, settled  \* history of a load: it went past the detour; no setter
                     \* has touched its hook since it began

hookVars == <<overriddenFiles, fallback, sources, setting>>
loadVars == <<asset, fallback_mode, nested, removed, archive>>
history  == <<bypassed, settled>>
vars == <<hookVars, vm_mutex, pc, loadVars, installed, game, history>>

Kinds == {"plain_file", "direct_bundle", "wren_loader"}
None  == "none"

Init == /\ overriddenFiles = {}
        /\ fallback = [a \in Assets |-> FALSE]
        /\ sources = [a \in Assets |-> {}]
        /\ setting = <<NoAsset, None>>
        /\ vm_mutex = NoThread
        /\ pc = [t \in Threads |-> "idle"]
        /\ asset = [t \in Threads |-> NoAsset]
        /\ fallback_mode = [t \in Threads |-> FALSE]
        /\ nested = [t \in Threads |-> 0]
        /\ installed = TRUE
        /\ removed = [t \in Threads |-> FALSE]
        /\ archive = [t \in Threads |-> None]
        /\ game = "running"
        /\ bypassed = [t \in Threads |-> FALSE]
        /\ settled = [t \in Threads |-> TRUE]

Running == game = "running"

Go(t, from, to) == /\ Running
                   /\ pc[t] = from
                   /\ pc' = [pc EXCEPT ![t] = to]

-----------------------------------------------------------------------------
(* Wren code, called for by Lua, by the XML tweaker or by a load_file. *)

\* vm_mutex can be had by t.
Unlocked(t) == vm_mutex \in {NoThread, t}

EnterWren(t) == /\ Unlocked(t)
                /\ Go(t, "idle", "wren")
                /\ vm_mutex' = t
                /\ UNCHANGED <<hookVars, loadVars, installed, game, history>>

LeaveWren(t) == /\ Go(t, "wren", "idle")
                /\ setting = <<NoAsset, None>>
                /\ vm_mutex' = NoThread
                /\ UNCHANGED <<hookVars, loadVars, installed, game, history>>

RunsWren(t) == Running /\ pc[t] \in {"wren", "load_file"}

\* Whoever is loading a now has seen its hook change.
Unsettle(a) == settled' = [t \in Threads |-> settled[t] /\ asset[t] # a]

WrenUnchanged == UNCHANGED <<vm_mutex, pc, loadVars, installed, game, bypassed>>

\* wrenRegisterAssetHook, of an asset that has no hook yet.
RegisterAssetHook(t, a) ==
  /\ RunsWren(t)
  /\ setting = <<NoAsset, None>>
  /\ a \notin overriddenFiles
  /\ overriddenFiles' = overriddenFiles \union {a}
  /\ Unsettle(a)
  /\ UNCHANGED <<fallback, sources, setting>>
  /\ WrenUnchanged

setFallback(t, a, val) ==
  /\ RunsWren(t)
  /\ setting = <<NoAsset, None>>
  /\ a \in overriddenFiles
  /\ fallback' = [fallback EXCEPT ![a] = val]
  /\ Unsettle(a)
  /\ UNCHANGED <<overriddenFiles, sources, setting>>
  /\ WrenUnchanged

\* clear_sources.
Cleared(a) == {}

\* disable, and the first half of setPlainFile, setDirectBundle, setWrenLoader.
ClearSources(t, a, kind) ==
  /\ RunsWren(t)
  /\ setting = <<NoAsset, None>>
  /\ a \in overriddenFiles
  /\ sources' = [sources EXCEPT ![a] = Cleared(a)]
  /\ setting' = IF kind = None THEN setting ELSE <<a, kind>>
  /\ Unsettle(a)
  /\ UNCHANGED <<overriddenFiles, fallback>>
  /\ WrenUnchanged

\* Their second half.
SetSource(t) ==
  /\ RunsWren(t)
  /\ setting # <<NoAsset, None>>
  /\ sources' = [sources EXCEPT ![setting[1]] = @ \union {setting[2]}]
  /\ setting' = <<NoAsset, None>>
  /\ Unsettle(setting[1])
  /\ UNCHANGED <<overriddenFiles, fallback>>
  /\ WrenUnchanged

-----------------------------------------------------------------------------
(* A load. *)

\* What the game's own try_open comes to.
Original(a) == IF a \in Originals THEN "original" ELSE None

\* The game calls try_open, and comes into hook_load if the detour is there.
TryOpen(t, a) ==
  /\ Go(t, "idle", IF installed THEN "find" ELSE "loaded")
  /\ asset' = [asset EXCEPT ![t] = a]
  /\ archive' = [archive EXCEPT ![t] = IF installed THEN None ELSE Original(a)]
  /\ fallback_mode' = [fallback_mode EXCEPT ![t] = FALSE]
  /\ bypassed' = [bypassed EXCEPT ![t] = ~installed]
  /\ settled' = [settled EXCEPT ![t] = TRUE]
  /\ UNCHANGED <<hookVars, vm_mutex, nested, installed, removed, game>>

\* Mutant of StopsHere: fallback_mode is not looked at.
StopsHereAlways(t) == fallback[asset[t]]

\* A fallback hook leaves the first attempt to the game.
StopsHere(t) == fallback[asset[t]] /\ ~fallback_mode[t]

\* Mutant of NextSource: the last `else if' is an `else'.
NextSourceUnchecked(t, kind) ==
  CASE kind = "plain_file" -> IF kind \in sources[asset[t]] THEN "open" ELSE "direct_bundle"
    [] kind = "direct_bundle" -> IF kind \in sources[asset[t]] THEN "break" ELSE "wren_loader"
    [] OTHER -> "lock"

\* Where hook_asset_load goes when it has looked at a field of the hook.
NextSource(t, kind) ==
  IF kind \in sources[asset[t]]
  THEN [plain_file |-> "open", direct_bundle |-> "break", wren_loader |-> "lock"][kind]
  ELSE [plain_file |-> "direct_bundle", direct_bundle |-> "wren_loader",
        wren_loader |-> "not found"][kind]

\* hook_asset_load, up to the fields that say where the contents are.
Find(t) ==
  /\ Go(t, "find", IF asset[t] \notin overriddenFiles \/ StopsHere(t)
                   THEN "not found" ELSE "plain_file")
  /\ UNCHANGED <<hookVars, vm_mutex, loadVars, installed, game, history>>

\* One of those fields is read.
ReadSource(t, kind) ==
  /\ Go(t, kind, NextSource(t, kind))
  /\ UNCHANGED <<hookVars, vm_mutex, loadVars, installed, game, history>>

\* Mutant of PutBack: the detour is not put back.
PutBackForgotten(t) == installed

\* The end of a ScopedHookRemove puts back what its beginning took out.
PutBack(t) == installed \/ removed[t]

\* hook_load is over: the scope of its ScopedHookRemove, if it got there, ends,
\* and so does the try_open it was called by.
Leave(t) ==
  /\ installed' = PutBack(t)
  /\ removed' = [removed EXCEPT ![t] = FALSE]
  /\ fallback_mode' = [fallback_mode EXCEPT ![t] = FALSE]
  /\ IF nested[t] > 0
     THEN /\ nested' = [nested EXCEPT ![t] = @ - 1]
          /\ pc' = [pc EXCEPT ![t] = "returned"]
     ELSE /\ pc' = [pc EXCEPT ![t] = "loaded"]
          /\ UNCHANGED nested

Deliver(t, from) == archive' = [archive EXCEPT ![t] = from]

\* value() of plain_file, which is another read: it throws when a setter came
\* between.  A file that is not there ends the game.
OpenFile(t) ==
  /\ Running
  /\ pc[t] = "open"
  /\ \/ /\ "plain_file" \in sources[asset[t]]
        /\ Deliver(t, "plain_file")
        /\ Leave(t)
        /\ UNCHANGED game
     \/ /\ game' = IF "plain_file" \in sources[asset[t]] THEN "exited" ELSE "crashed"
        /\ UNCHANGED <<pc, archive, installed, removed, fallback_mode, nested>>
  /\ UNCHANGED <<hookVars, vm_mutex, asset, history>>

\* load_bundle_item: __debugbreak.
Break(t) == /\ Running
            /\ pc[t] = "break"
            /\ game' = "exited"
            /\ UNCHANGED <<hookVars, vm_mutex, pc, loadVars, installed, history>>

LockWren(t) == /\ Unlocked(t)
               /\ Go(t, "lock", "call")
               /\ vm_mutex' = t
               /\ UNCHANGED <<hookVars, loadVars, installed, game, history>>

\* wrenSetSlotHandle and wrenCall: the handle is read again, and may be null.
CallLoader(t) ==
  /\ Running
  /\ pc[t] = "call"
  /\ IF "wren_loader" \in sources[asset[t]]
     THEN pc' = [pc EXCEPT ![t] = "load_file"] /\ UNCHANGED game
     ELSE game' = "crashed" /\ UNCHANGED pc
  /\ UNCHANGED <<hookVars, vm_mutex, loadVars, installed, history>>

\* load_file is over, with contents or with something that ends the game.
LoaderReturns(t) ==
  /\ Running
  /\ pc[t] = "load_file"
  /\ setting = <<NoAsset, None>>
  /\ \/ /\ Deliver(t, "wren_loader")
        /\ Leave(t)
        /\ vm_mutex' = NoThread
        /\ UNCHANGED game
     \/ /\ game' = "exited"
        /\ UNCHANGED <<vm_mutex, pc, archive, installed, removed, fallback_mode, nested>>
  /\ UNCHANGED <<hookVars, asset, history>>

\* hook_asset_load returns false.  The first time the detour is removed and the
\* game's function is called; the second time the archive stays empty.
NotFound(t) ==
  /\ Running
  /\ pc[t] = "not found"
  /\ IF fallback_mode[t]
     THEN Leave(t)
     ELSE /\ removed' = [removed EXCEPT ![t] = installed]
          /\ installed' = FALSE
          /\ pc' = [pc EXCEPT ![t] = "original"]
          /\ UNCHANGED <<fallback_mode, nested>>
  /\ UNCHANGED <<hookVars, vm_mutex, asset, archive, game, history>>

\* The game's try_open.  Should another thread have put the detour back since
\* this one found it removed, the call comes into a further hook_load.
CallOriginal(t) ==
  /\ IF installed
     THEN /\ nested[t] < MaxNested
          /\ Go(t, "original", "find")
          /\ nested' = [nested EXCEPT ![t] = @ + 1]
          /\ UNCHANGED archive
     ELSE /\ Go(t, "original", "returned")
          /\ Deliver(t, Original(asset[t]))
          /\ UNCHANGED nested
  /\ UNCHANGED <<hookVars, vm_mutex, asset, fallback_mode, removed, installed, game, history>>

\* probablyNotLoadedFlag: an asset the game does not have is looked for again.
\* One that is loaded is converted if need be.
CheckLoaded(t) ==
  /\ Running
  /\ pc[t] = "returned"
  /\ IF archive[t] = None
     THEN /\ fallback_mode' = [fallback_mode EXCEPT ![t] = TRUE]
          /\ pc' = [pc EXCEPT ![t] = "find"]
          /\ UNCHANGED <<nested, removed, installed>>
     ELSE Leave(t)
  /\ UNCHANGED <<hookVars, vm_mutex, asset, archive, game, history>>

\* The game goes on with its archive.
Loaded(t) == /\ Go(t, "loaded", "idle")
             /\ asset' = [asset EXCEPT ![t] = NoAsset]
             /\ archive' = [archive EXCEPT ![t] = None]
             /\ bypassed' = [bypassed EXCEPT ![t] = FALSE]
             /\ settled' = [settled EXCEPT ![t] = TRUE]
             /\ UNCHANGED <<hookVars, vm_mutex, fallback_mode, nested, removed, installed, game>>

Over == ~Running /\ UNCHANGED vars

Wren(t) == \/ EnterWren(t) \/ LeaveWren(t) \/ SetSource(t)
           \/ \E a \in Assets :
                \/ RegisterAssetHook(t, a)
                \/ \E val \in BOOLEAN : setFallback(t, a, val)
                \/ \E kind \in Kinds \union {None} : ClearSources(t, a, kind)

Load(t) == \/ \E a \in Assets : TryOpen(t, a)
           \/ Find(t) \/ \E kind \in Kinds : ReadSource(t, kind)
           \/ OpenFile(t) \/ Break(t) \/ LockWren(t) \/ CallLoader(t) \/ LoaderReturns(t)
           \/ NotFound(t) \/ CallOriginal(t) \/ CheckLoaded(t) \/ Loaded(t)

Next == Over \/ \E t \in Threads : Wren(t) \/ Load(t)

Spec == Init /\ [][Next]_vars

-----------------------------------------------------------------------------
Points == {"idle", "wren", "find", "open", "break", "lock", "call", "load_file",
           "not found", "original", "returned", "loaded"} \union Kinds

TypeOK ==
  /\ overriddenFiles \subseteq Assets
  /\ fallback \in [Assets -> BOOLEAN]
  /\ sources \in [Assets -> {{}} \union {{kind} : kind \in Kinds}]
  /\ setting \in (Assets \X Kinds) \union {<<NoAsset, None>>}
  /\ vm_mutex \in Threads \union {NoThread}
  /\ pc \in [Threads -> Points]
  /\ asset \in [Threads -> Assets \union {NoAsset}]
  /\ fallback_mode \in [Threads -> BOOLEAN]
  /\ nested \in [Threads -> 0..MaxNested]
  /\ installed \in BOOLEAN
  /\ removed \in [Threads -> BOOLEAN]
  /\ archive \in [Threads -> Kinds \union {"original", None}]
  /\ game \in {"running", "exited", "crashed"}
  /\ bypassed \in [Threads -> BOOLEAN]
  /\ settled \in [Threads -> BOOLEAN]

\* A hook has one source at most.
TheSource(kinds) == CHOOSE kind \in Kinds : kind \in kinds

\* What the documentation of `fallback' and `mode' (DB_001.wren:18-32) makes of
\* a load while the hook is left alone.
Configured(a) ==
  IF a \notin overriddenFiles \/ sources[a] = {} \/ (fallback[a] /\ a \in Originals)
  THEN Original(a)
  ELSE TheSource(sources[a])

\* A load that came through its detour, and whose hook no setter touched on the
\* way, ends with what the hook was set to, whatever hooks of other assets, Wren
\* code and removed detours did meanwhile.
SettledLoadsAsConfigured ==
  \A t \in Threads : pc[t] = "loaded" /\ settled[t] /\ ~bypassed[t]
                       => archive[t] = Configured(asset[t])

\* The detour is out exactly while one thread, and no second one, is to put it
\* back: however hook_loads overlap, none of them leaves the game without it
\* (assets_game.cpp:114).
DetourComesBack ==
  /\ installed <=> \A t \in Threads : ~removed[t]
  /\ \A t, u \in Threads : removed[t] /\ removed[u] => t = u
  /\ \A t \in Threads : removed[t] => pc[t] \notin {"idle", "wren", "loaded"}

\* "Since Wren is not thread-safe, we have to lock it while running any Wren
\* code" (DB_001.wren:70): one thread at a time is in the VM, and a half-changed
\* hook is always the work of that thread.
WrenIsSerial ==
  /\ \A t \in Threads : pc[t] \in {"wren", "call", "load_file"} <=> vm_mutex = t
  /\ setting # <<NoAsset, None>> => vm_mutex # NoThread

\* A load crashes the game only if a setter changed its hook between two of the
\* load's own reads of it.
CrashNeedsSetter ==
  [][game' = "crashed" /\ game # game' =>
       \E t \in Threads : pc[t] \in {"open", "call"} /\ ~settled[t]]_vars
=============================================================================
