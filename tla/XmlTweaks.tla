------------------------------ MODULE XmlTweaks -------------------------------
(***************************************************************************)
(* Rewriting the game's XML files with Wren scripts: the detour of         *)
(* node_from_xml (platform_game.cpp), tweak_raid_xml and                   *)
(* free_tweaked_raid_xml (tweaker/xmltweaker.cpp), transform_file and the  *)
(* virtual machine behind its lock (tweaker/wrenloader.cpp), and the other *)
(* way into it, wren_io.invoke (tweaker/wren_lua_interface.cpp).           *)
(*                                                                         *)
(* The name of a file reaches the tweaker by a pair of globals of the      *)
(* game, the last file loaded, and the result of a script by a pointer     *)
(* into the virtual machine, which is used after its lock was given up.    *)
(***************************************************************************)
EXTENDS Naturals, FiniteSets

CONSTANTS Threads, NoThread,
          Files, NoFile,
          Skipped,       \* the files with extension model or texture
          Buffers, Text, \* addresses malloc may return; the game's own text
          Objects,       \* names scripts may register for Lua
          MaxFailures    \* bound: scripts that end in an error

ASSUME XmlTweaksAssumption == /\ NoThread \notin Threads
                              /\ IsFiniteSet(Threads)
                              /\ NoFile \notin Files
                              /\ Skipped \subseteq Files
                              /\ Text \notin Buffers
                              /\ IsFiniteSet(Objects)
                              /\ MaxFailures \in Nat

VARIABLES
  last_loaded,       \* *last_loaded_name with *last_loaded_ext
  tweaker_enabled, last_parsed, ignored_files,
  buffers,           \* the tweaker's set of texts to be freed
  heap,              \* addresses malloc has given to the tweaker
  vm,                \* "unborn", "ready" or "unavailable"
  vm_mutex,          \* the thread that holds it
  slot,              \* the thread whose result is in the machine's slot 0
  handles,           \* WrenHandles not released
  wren_exposed_objects,
  failures,          \* scripts that ended in an error
  installed,         \* the detour of node_from_xml is in place
  pc,
  source,            \* the file a thread's text came from, NoFile for a text
                     \* that the game did not load by name
  file,              \* tweak_raid_xml's variable of that name
  modded,            \* what tweak_raid_xml returned
  removed,           \* ScopedHookRemove::removed_
  told, stale,       \* history of a parse: the name the scripts got; its text
                     \* was overwritten before it was copied
  settled, due       \* ... nobody interfered with it; it is to be rewritten

gameVars   == <<last_loaded, source>>
tweakVars  == <<last_parsed, ignored_files, buffers, heap, file, modded>>
vmVars     == <<vm, vm_mutex, slot, handles, wren_exposed_objects, failures>>
detourVars == <<installed, removed>>
history    == <<told, stale, settled, due>>
vars == <<gameVars, tweaker_enabled, tweakVars, vmVars, detourVars, pc, history>>

Init == /\ last_loaded = NoFile
        /\ tweaker_enabled = TRUE
        /\ last_parsed = NoFile
        /\ ignored_files = {}
        /\ buffers = {}
        /\ heap = {}
        /\ vm = "unborn"
        /\ vm_mutex = NoThread
        /\ slot = NoThread
        /\ handles = 0
        /\ wren_exposed_objects = {}
        /\ failures = 0
        /\ installed = TRUE
        /\ pc = [t \in Threads |-> "idle"]
        /\ source = [t \in Threads |-> NoFile]
        /\ file = [t \in Threads |-> NoFile]
        /\ modded = [t \in Threads |-> Text]
        /\ removed = [t \in Threads |-> FALSE]
        /\ told = [t \in Threads |-> NoFile]
        /\ stale = [t \in Threads |-> FALSE]
        /\ settled = [t \in Threads |-> FALSE]
        /\ due = [t \in Threads |-> FALSE]

Go(t, from, to) == pc[t] = from /\ pc' = [pc EXCEPT ![t] = to]

Others(t) == Threads \ {t}

\* Those whose outcome depends on what has just changed.
Unsettle(who) == settled' = [u \in Threads |-> settled[u] /\ u \notin who]

\* The parse is over, and its history with it.
Forget(t) == /\ source' = [source EXCEPT ![t] = NoFile]
             /\ told' = [told EXCEPT ![t] = NoFile]
             /\ stale' = [stale EXCEPT ![t] = FALSE]
             /\ settled' = [settled EXCEPT ![t] = FALSE]
             /\ due' = [due EXCEPT ![t] = FALSE]

\* ignored_files and the two extensions.
Excluded(f) == f \in Skipped \union ignored_files

\* What the tweaker does with a text, if f is the file last loaded by name when
\* it gets to it, nothing else changes and the script does not fail.
ToRewrite(f) == tweaker_enabled /\ f # last_parsed /\ ~Excluded(f)

-----------------------------------------------------------------------------
(* The game. *)

\* A thread is about to parse the text of a file it has loaded by name.
Load(t, f) ==
  /\ Go(t, "idle", "loaded")
  /\ last_loaded' = f
  /\ source' = [source EXCEPT ![t] = f]
  /\ settled' = [u \in Threads |-> u = t]
  /\ due' = [due EXCEPT ![t] = ToRewrite(f)]
  /\ UNCHANGED <<tweaker_enabled, tweakVars, vmVars, detourVars, told, stale>>

\* A thread has loaded a file by name that is not parsed as XML.
LoadUnparsed(t, f) ==
  /\ pc[t] = "idle"
  /\ last_loaded' = f
  /\ Unsettle(Threads)
  /\ UNCHANGED <<source, tweaker_enabled, tweakVars, vmVars, detourVars, pc, told, stale, due>>

\* A thread is about to parse a text of its own, from the filesystem.  What the
\* tweaker goes by is still the file last loaded by name.
LoadFromFilesystem(t) ==
  /\ Go(t, "idle", "loaded")
  /\ source' = [source EXCEPT ![t] = NoFile]
  /\ settled' = [settled EXCEPT ![t] = TRUE]
  /\ due' = [due EXCEPT ![t] = ToRewrite(last_loaded)]
  /\ UNCHANGED <<last_loaded, tweaker_enabled, tweakVars, vmVars, detourVars, told, stale>>

\* node_from_xml, where the detour is or, while another thread has taken it
\* out, where it is not.
EnterHook(t) ==
  /\ installed
  /\ Go(t, "loaded", "hooked")
  /\ UNCHANGED <<gameVars, tweaker_enabled, tweakVars, vmVars, detourVars, history>>

Bypass(t) ==
  /\ ~installed
  /\ Go(t, "loaded", "idle")
  /\ Forget(t)
  /\ UNCHANGED <<last_loaded, tweaker_enabled, tweakVars, vmVars, detourVars>>

RemoveDetour(t) ==
  /\ Go(t, "hooked", "identify")
  /\ removed' = [removed EXCEPT ![t] = installed]
  /\ installed' = FALSE
  /\ UNCHANGED <<gameVars, tweaker_enabled, tweakVars, vmVars, history>>

-----------------------------------------------------------------------------
(* tweak_raid_xml. *)

\* Mutant of SameFile: only the enabled flag is looked at.
SameFileForgotten == FALSE

\* This file was the last to be parsed.
SameFile == last_parsed = last_loaded

Identify(t) ==
  /\ Go(t, "identify", IF ~tweaker_enabled \/ SameFile THEN "parse" ELSE "remember")
  /\ file' = [file EXCEPT ![t] = last_loaded]
  /\ UNCHANGED <<gameVars, tweaker_enabled, last_parsed, ignored_files, buffers, heap,
                 modded, vmVars, detourVars, history>>

Remember(t) ==
  /\ last_parsed' = file[t]
  /\ Go(t, "remember", IF Excluded(file[t]) THEN "parse" ELSE "lock")
  /\ Unsettle(Others(t))
  /\ UNCHANGED <<gameVars, tweaker_enabled, ignored_files, buffers, heap, file, modded,
                 vmVars, detourVars, told, stale, due>>

\* Mutant of Registered: the copy is not entered in the set.
RegisteredNowhere(b) == buffers

Registered(b) == buffers \union {b}

\* The result, if it is not the text that was given, is copied.  A result of
\* wrenGetSlotString never is.
Copy(t, b) ==
  /\ Go(t, "copy", "parse")
  /\ b \notin heap
  /\ heap' = heap \union {b}
  /\ buffers' = Registered(b)
  /\ modded' = [modded EXCEPT ![t] = b]
  /\ stale' = [stale EXCEPT ![t] = slot # t]
  /\ UNCHANGED <<gameVars, tweaker_enabled, last_parsed, ignored_files, file, vmVars,
                 detourVars, told, settled, due>>

\* blt.ignoretweak.
IgnoreFile(f) ==
  /\ ignored_files' = ignored_files \union {f}
  /\ Unsettle({u \in Threads : pc[u] # "idle"})
  /\ UNCHANGED <<gameVars, tweaker_enabled, last_parsed, buffers, heap, file, modded,
                 vmVars, detourVars, pc, told, stale, due>>

-----------------------------------------------------------------------------
(* The virtual machine.  lock_wren_vm's mutex is recursive, but none of the *)
(* code here comes back to it while it holds it. *)

Unlocked == vm_mutex = NoThread

\* transform_file up to wrenCall.  The machine is made when it is first needed.
Transform(t) ==
  /\ Unlocked
  /\ vm \in {"unborn", "ready"}
  /\ vm' = "ready"
  /\ Go(t, "lock", "tweak")
  /\ vm_mutex' = t
  /\ slot' = t
  /\ handles' = handles + 2
  /\ told' = [told EXCEPT ![t] = last_loaded]
  /\ UNCHANGED <<gameVars, tweaker_enabled, tweakVars, wren_exposed_objects, failures,
                 detourVars, stale, settled, due>>

\* There is no base mod.
NoMachine(t) ==
  /\ Unlocked
  /\ vm \in {"unborn", "unavailable"}
  /\ vm' = "unavailable"
  /\ Go(t, "lock", "parse")
  /\ due' = [due EXCEPT ![t] = FALSE]
  /\ UNCHANGED <<gameVars, tweaker_enabled, tweakVars, vm_mutex, slot, handles,
                 wren_exposed_objects, failures, detourVars, told, stale, settled>>

\* The two handles of a call of tweak are released when it went well.
TweakReturns(t) ==
  /\ Go(t, "tweak", "copy")
  /\ handles' = handles - 2
  /\ slot' = t
  /\ vm_mutex' = NoThread
  /\ UNCHANGED <<gameVars, tweaker_enabled, tweakVars, vm, wren_exposed_objects, failures,
                 detourVars, history>>

\* A script ends in an error: the text is left as it is.
TweakFails(t) ==
  /\ failures < MaxFailures
  /\ Go(t, "tweak", "parse")
  /\ failures' = failures + 1
  /\ vm_mutex' = NoThread
  /\ due' = [due EXCEPT ![t] = FALSE]
  /\ UNCHANGED <<gameVars, tweaker_enabled, tweakVars, vm, slot, handles,
                 wren_exposed_objects, detourVars, told, stale, settled>>

RunsScript(t) == pc[t] \in {"tweak", "invoking"}

\* Internal.tweaker_enabled=(_).
SetTweakerEnabled(t, val) ==
  /\ RunsScript(t)
  /\ tweaker_enabled' = val
  /\ Unsettle(Others(t))
  /\ UNCHANGED <<gameVars, tweakVars, vmVars, detourVars, pc, told, stale, due>>

\* LuaInterface.register_object(_,_): a name is taken once and for all.
RegisterObject(t, o) ==
  /\ RunsScript(t)
  /\ o \notin wren_exposed_objects
  /\ wren_exposed_objects' = wren_exposed_objects \union {o}
  /\ handles' = handles + 1
  /\ UNCHANGED <<gameVars, tweaker_enabled, tweakVars, vm, vm_mutex, slot, failures,
                 detourVars, pc, history>>

\* wren_lua_invoke finds the object, under a mutex of its own.
FindObject(t, o) ==
  /\ o \in wren_exposed_objects
  /\ Go(t, "idle", "invoke")
  /\ UNCHANGED <<gameVars, tweaker_enabled, tweakVars, vmVars, detourVars, history>>

Invoke(t) ==
  /\ Unlocked
  /\ Go(t, "invoke", "invoking")
  /\ vm_mutex' = t
  /\ slot' = NoThread
  /\ handles' = handles + 1
  /\ UNCHANGED <<gameVars, tweaker_enabled, tweakVars, vm, wren_exposed_objects, failures,
                 detourVars, history>>

\* Mutant of Released: a call that failed keeps its handle.
ReleasedIfSuccessful(ok) == IF ok THEN 1 ELSE 0

\* The handles that the end of an invocation gives back.
Released(ok) == 1

\* After a result, an error or an argument of a type that cannot be passed.
InvokeReturns(t) ==
  /\ Go(t, "invoking", "idle")
  /\ \E ok \in BOOLEAN : handles' = handles - Released(ok)
  /\ vm_mutex' = NoThread
  /\ UNCHANGED <<gameVars, tweaker_enabled, tweakVars, vm, slot, wren_exposed_objects,
                 failures, detourVars, history>>

-----------------------------------------------------------------------------
(* The rest of the detour. *)

\* The destructor of ScopedHookRemove.
PutBack(t) == installed \/ removed[t]

\* The game has parsed the text.  free_tweaked_raid_xml frees what is in its
\* set, and the detour is put back.
FreeText(t) ==
  /\ Go(t, "parse", "idle")
  /\ buffers' = buffers \ {modded[t]}
  /\ heap' = heap \ ({modded[t]} \intersect buffers)
  /\ modded' = [modded EXCEPT ![t] = Text]
  /\ installed' = PutBack(t)
  /\ removed' = [removed EXCEPT ![t] = FALSE]
  /\ file' = [file EXCEPT ![t] = NoFile]
  /\ Forget(t)
  /\ UNCHANGED <<last_loaded, tweaker_enabled, last_parsed, ignored_files, vmVars>>

ThreadNext(t) ==
  \/ \E f \in Files : Load(t, f)
  \/ \E f \in Files : LoadUnparsed(t, f)
  \/ LoadFromFilesystem(t)
  \/ EnterHook(t)
  \/ Bypass(t)
  \/ RemoveDetour(t)
  \/ Identify(t)
  \/ Remember(t)
  \/ Transform(t)
  \/ NoMachine(t)
  \/ TweakReturns(t)
  \/ TweakFails(t)
  \/ \E val \in BOOLEAN : SetTweakerEnabled(t, val)
  \/ \E o \in Objects : RegisterObject(t, o)
  \/ \E b \in Buffers : Copy(t, b)
  \/ FreeText(t)
  \/ \E o \in Objects : FindObject(t, o)
  \/ Invoke(t)
  \/ InvokeReturns(t)

Next == \/ \E t \in Threads : ThreadNext(t)
        \/ \E f \in Files : IgnoreFile(f)

Spec == Init /\ [][Next]_vars

-----------------------------------------------------------------------------
(* Properties. *)

\* The variables hold values of their kinds.  Of node_from_xml_new,
\* tweak_raid_xml and wren_lua_invoke, pc names the places between two
\* accesses to something that is shared.
TypeOK ==
  /\ last_loaded \in Files \union {NoFile}
  /\ tweaker_enabled \in BOOLEAN
  /\ last_parsed \in Files \union {NoFile}
  /\ ignored_files \subseteq Files
  /\ buffers \subseteq Buffers
  /\ heap \subseteq Buffers
  /\ vm \in {"unborn", "ready", "unavailable"}
  /\ vm_mutex \in Threads \union {NoThread}
  /\ slot \in Threads \union {NoThread}
  /\ handles \in Nat
  /\ wren_exposed_objects \subseteq Objects
  /\ failures \in 0..MaxFailures
  /\ installed \in BOOLEAN
  /\ pc \in [Threads -> {"idle", "loaded", "hooked", "identify", "remember", "lock",
                         "tweak", "copy", "parse", "invoke", "invoking"}]
  /\ source \in [Threads -> Files \union {NoFile}]
  /\ file \in [Threads -> Files \union {NoFile}]
  /\ modded \in [Threads -> Buffers \union {Text}]
  /\ removed \in [Threads -> BOOLEAN]
  /\ told \in [Threads -> Files \union {NoFile}]
  /\ stale \in [Threads -> BOOLEAN]
  /\ settled \in [Threads -> BOOLEAN]
  /\ due \in [Threads -> BOOLEAN]

\* Scripts run one at a time (lock_wren_vm), whichever way they are entered,
\* and what a tweak leaves in slot 0 is its own when it returns.
OneScriptAtATime ==
  \A t \in Threads : RunsScript(t) => /\ vm_mutex = t
                                      /\ pc[t] = "tweak" => slot = t

\* Every handle is accounted for: registered objects keep theirs for ever, a
\* call under way has its own, and otherwise only a tweak that ended in an
\* error leaves handles behind, two each time (transform_file returns before
\* its wrenReleaseHandle).
HandlesBalance ==
  handles = Cardinality(wren_exposed_objects) + 2 * failures
            + 2 * Cardinality({t \in Threads : pc[t] = "tweak"})
            + Cardinality({t \in Threads : pc[t] = "invoking"})

\* Every text the tweaker has allocated is the one that one parse was given,
\* and is in the set by which it is freed: none is freed early, twice or never.
EveryCopyHasOneReader ==
  /\ heap = buffers
  /\ heap = {modded[t] : t \in Threads} \ {Text}
  /\ \A t, u \in Threads : modded[t] = modded[u] => t = u \/ modded[t] = Text

\* A text is rewritten if and only if the file last loaded by name has not been
\* parsed with the tweaker on since, is not excluded, the tweaker is on, and
\* there is a machine whose scripts end well; and the scripts are told the name
\* of that file.  It is the text's own name if the text was loaded by name.  A
\* text from the filesystem goes by the name of another file: usually by one
\* just parsed, and is left alone ("If we try to parse the same file more than
\* once, nothing should happen as a file from the filesystem is being loaded"),
\* but after a file that was not parsed, or while the tweaker was off, it is
\* rewritten for that one.  Without the lock that last_parsed and the names do
\* not have, all this is true of a parse during which no other thread loaded or
\* began to tweak, and no script or Lua code changed the settings.
SettledTextIsTakenForItself ==
  \A t \in Threads :
    pc[t] = "parse" /\ settled[t] =>
      /\ modded[t] # Text <=> due[t]
      /\ due[t] => told[t] = last_loaded /\ source[t] \in {last_loaded, NoFile}

\* The detour of node_from_xml is out exactly as long as a thread is in the
\* hook that has to put it back, however many threads have entered the hook.
DetourComesBack ==
  /\ installed <=> \A t \in Threads : ~removed[t]
  /\ \A t, u \in Threads : removed[t] /\ removed[u] => t = u
  /\ \A t \in Threads : removed[t] => pc[t] \in {"identify", "remember", "lock", "tweak",
                                               "copy", "parse"}

\* A result of a script is what it was when it is copied ("copy it so it's not
\* invalidated by another Wren call").
TextAliveWhenCopied == \A t \in Threads : ~stale[t]
=============================================================================
