---------------------------- MODULE NativePlugins ----------------------------
(***************************************************************************)
(* Native plugins and Lua states (plugins/plugins.cpp, and initiate_lua,   *)
(* update, close and load_native of InitiateState.cpp).  Every plugin is   *)
(* set up in every state, in whatever order plugins are loaded and states  *)
(* opened, and is updated in every state once per frame.                   *)
(*                                                                         *)
(* All of it runs on the main thread, but the loops over activeStates and  *)
(* plugins_list call code that may load further plugins, and so append to  *)
(* the list another loop is in the middle of.  The stack of such loops is  *)
(* part of the state.                                                      *)
(***************************************************************************)
EXTENDS Naturals, Sequences, Functions

CONSTANTS VMs, NoVM,   \* addresses of lua_States
          Files,       \* file names of plugins
          Updaters     \* those whose plugin exports SuperBLT_Plugin_Update

ASSUME NativePluginsAssumption == NoVM \notin VMs /\ Updaters \subseteq Files

VARIABLES
  activeStates, plugins_list,
  stack,    \* the loops under way, the innermost first
  setups,   \* history: how often plugin f was set up in state v
  updated,  \* history: whom the current update() has updated, in which state
  present,  \* history: the plugins loaded when it began
  nested,   \* history: <<v, f>> if f was loaded while v was given its plugins
  skipped   \* history: <<v, f>> if an error kept f from being set up in v

lists  == <<activeStates, plugins_list>>
frame  == <<updated, present>>
errata == <<nested, skipped>>
vars == <<lists, stack, setups, frame, errata>>

\* A loop is at plugin p of state s, counted along the lists, and is inside a
\* call that runs code of a state, or between two calls.
Loops == [loop : {"initiate", "base", "register", "update"},
          s : Nat, p : Nat, inside : VMs \union {NoVM}]

Init == /\ activeStates = <<>>
        /\ plugins_list = <<>>
        /\ stack = <<>>
        /\ setups = [v \in VMs |-> [f \in Files |-> 0]]
        /\ updated = {} /\ present = {} /\ nested = {} /\ skipped = {}

-----------------------------------------------------------------------------
Top == Head(stack)

\* The innermost loop is of this kind and between two calls.
Looping(loop) == stack # <<>> /\ Top.loop = loop /\ Top.inside = NoVM

Begin(loop, s, p) ==
  stack' = <<[loop |-> loop, s |-> s, p |-> p, inside |-> NoVM]>> \o stack

GoOn(next) == stack' = <<next>> \o Tail(stack)

End == stack' = Tail(stack)

\* Mutant of PluginsLeft: the loop stops one short.
PluginsLeftOffByOne == Top.p < Len(plugins_list)

\* A range-for over plugins_list: it comes to whatever was appended meanwhile.
PluginsLeft == Top.p <= Len(plugins_list)

\* Mutant of StatesLeft: only the first state is visited.
StatesLeftOne == Top.s <= Len(activeStates) /\ Top.s = 1

StatesLeft == Top.s <= Len(activeStates)

\* Plugin::AddToState, up to the point where setup_state runs code of v.
AddToState(f, v, next) ==
  /\ setups' = [setups EXCEPT ![v][f] = @ + 1]
  /\ GoOn([next EXCEPT !.inside = v])

\* The call into a plugin, or base.lua, returns.
Return == /\ stack # <<>>
          /\ Top.inside # NoVM
          /\ GoOn([Top EXCEPT !.inside = NoVM])
          /\ UNCHANGED <<lists, setups, frame, errata>>

-----------------------------------------------------------------------------
(* States *)

Forget(v) == /\ nested' = {x \in nested : x[1] # v}
             /\ skipped' = {x \in skipped : x[1] # v}

\* initiate_lua for a new state, as far as its loop over the plugins.  (Without a
\* usable basemod the game exits here: download_blt, too, ends with exit.)
InitiateLua(v) ==
  /\ stack = <<>>
  /\ v \notin Range(activeStates)
  /\ activeStates' = Append(activeStates, v)
  /\ setups' = [setups EXCEPT ![v] = [f \in Files |-> 0]]
  /\ Forget(v)
  /\ Begin("initiate", Len(activeStates) + 1, 1)
  /\ UNCHANGED <<plugins_list, frame>>

InitiatePlugin ==
  /\ Looping("initiate")
  /\ PluginsLeft
  /\ AddToState(plugins_list[Top.p], activeStates[Top.s], [Top EXCEPT !.p = @ + 1])
  /\ UNCHANGED <<lists, frame, errata>>

\* The plugins are done: base.lua runs, or has a syntax error.
InitiateBase ==
  /\ Looping("initiate")
  /\ ~PluginsLeft
  /\ \/ GoOn([Top EXCEPT !.loop = "base", !.inside = activeStates[Top.s]])
     \/ End
  /\ UNCHANGED <<lists, setups, frame, errata>>

\* base.lua is over.
InitiateEnds ==
  Looping("base") /\ End /\ UNCHANGED <<lists, setups, frame, errata>>

\* close, from the hook of lua_close; a state is in the list once.
Close(v) ==
  /\ stack = <<>>
  /\ \E i \in DOMAIN activeStates :
       /\ activeStates[i] = v
       /\ activeStates' = SubSeq(activeStates, 1, i - 1)
                          \o SubSeq(activeStates, i + 1, Len(activeStates))
  /\ UNCHANGED <<plugins_list, stack, setups, frame, errata>>

-----------------------------------------------------------------------------
(* Loading *)

\* Code that may load a plugin is running: Lua in a frame, in a callback or in
\* base.lua, Wren code at any time, a plugin's setup or update.
CodeRuns == stack # <<>> => Top.inside # NoVM

\* The states that are being given their plugins, further down the stack.
Initiating == {activeStates[stack[i].s] :
                 i \in {j \in 1..Len(stack) : stack[j].loop = "initiate"}}

\* Mutant of IsNew: file names are not compared.
IsNewOrNot(f) == Len(plugins_list) <= 2

\* No plugin in the list came from this file.
IsNew(f) == f \notin Range(plugins_list)

\* LoadPlugin of a file not loaded yet, up to the loop over the active states.
\* A file that is loaded already, or that CreateNativePlugin or Init refuse,
\* changes nothing.
LoadPlugin(f) ==
  /\ CodeRuns
  /\ IsNew(f)
  /\ plugins_list' = Append(plugins_list, f)
  /\ Begin("register", 1, Len(plugins_list) + 1)
  /\ nested' = nested \union (Initiating \X {f})
  /\ UNCHANGED <<activeStates, setups, frame, skipped>>

\* RegisterPluginForActiveStates.
RegisterState ==
  /\ Looping("register")
  /\ StatesLeft
  /\ AddToState(plugins_list[Top.p], activeStates[Top.s], [Top EXCEPT !.s = @ + 1])
  /\ UNCHANGED <<lists, frame, errata>>

\* The setup raises a Lua error in the state that called load_native: its pcall
\* takes over and the states that come later are left out.  (An error in
\* another state has no pcall to go to, and ends the game.)
SetupRaises ==
  /\ stack # <<>>
  /\ Top.loop = "register"
  /\ Top.inside # NoVM
  /\ Len(stack) > 1 => stack[2].inside = Top.inside
  /\ skipped' = skipped \union
       ({activeStates[i] : i \in Top.s..Len(activeStates)} \X {plugins_list[Top.p]})
  /\ End
  /\ UNCHANGED <<lists, setups, frame, nested>>

RegisterEnds == /\ Looping("register")
                /\ ~StatesLeft
                /\ End
                /\ UNCHANGED <<lists, setups, frame, errata>>

-----------------------------------------------------------------------------
(* update, once per frame, after its callbacks *)

Update == /\ stack = <<>>
          /\ Begin("update", 1, 1)
          /\ updated' = {}
          /\ present' = Range(plugins_list)
          /\ UNCHANGED <<lists, setups, errata>>

UpdatePlugin ==
  /\ Looping("update")
  /\ StatesLeft
  /\ PluginsLeft
  /\ LET v == activeStates[Top.s]
         f == plugins_list[Top.p]
     IN  /\ updated' = IF f \in Updaters THEN updated \union {<<v, f>>} ELSE updated
         /\ GoOn([Top EXCEPT !.p = @ + 1, !.inside = IF f \in Updaters THEN v ELSE NoVM])
  /\ UNCHANGED <<lists, setups, present, errata>>

\* Mutant of NextState: the inner loop begins before the first plugin.
NextStateFromZero == [Top EXCEPT !.s = @ + 1, !.p = 0]

\* Mutant of NextState: the inner loop is not started again.
NextStateOnly == [Top EXCEPT !.s = @ + 1]

NextState == [Top EXCEPT !.s = @ + 1, !.p = 1]

UpdateState ==
  /\ Looping("update")
  /\ StatesLeft
  /\ ~PluginsLeft
  /\ GoOn(NextState)
  /\ UNCHANGED <<lists, setups, frame, errata>>

UpdateEnds == /\ Looping("update")
              /\ ~StatesLeft
              /\ End
              /\ updated' = {} /\ present' = {}
              /\ UNCHANGED <<lists, setups, errata>>

Next == \/ \E v \in VMs : InitiateLua(v) \/ Close(v)
        \/ InitiatePlugin \/ InitiateBase \/ InitiateEnds
        \/ \E f \in Files : LoadPlugin(f)
        \/ RegisterState \/ SetupRaises \/ RegisterEnds
        \/ Update \/ UpdatePlugin \/ UpdateState \/ UpdateEnds
        \/ Return

Spec == Init /\ [][Next]_vars

-----------------------------------------------------------------------------
TypeOK ==
  /\ activeStates \in Seq(VMs)
  /\ plugins_list \in Seq(Files)
  /\ stack \in Seq(Loops)
  /\ \A i \in 1..Len(stack) : stack[i].s \in 1..Len(activeStates) + 1
                               /\ stack[i].p \in 1..Len(plugins_list) + 1
  /\ setups \in [VMs -> [Files -> Nat]]
  /\ updated \subseteq VMs \X Files
  /\ present \subseteq Files
  /\ nested \subseteq VMs \X Files
  /\ skipped \subseteq VMs \X Files

\* Between two engine calls every plugin has been set up in every state,
\* whichever came first and however loading one plugin loaded the next; only an
\* error in a plugin's setup leaves states without it, although the plugin
\* stays in the list (plugins.cpp:47-50).
EveryStateHasEveryPlugin ==
  stack = <<>> =>
    \A v \in Range(activeStates), f \in Range(plugins_list) :
      setups[v][f] > 0 \/ <<v, f>> \in skipped

\* A plugin is set up in a state once, except that one loaded while the state
\* was given its plugins is met again by that loop, and set up twice: once by
\* RegisterPluginForActiveStates, once by initiate_lua.
SetUpTwiceOnlyIfNested ==
  \A v \in VMs, f \in Files :
    setups[v][f] <= IF <<v, f>> \in nested THEN 2 ELSE 1

\* update() calls a plugin only in states in which it was set up, but for those
\* that an error left out.
UpdateAfterSetup ==
  [][\A x \in updated' \ updated : setups[x[1]][x[2]] > 0 \/ x \in skipped]_vars

\* A frame updates every plugin that was there when it began in every state,
\* whatever its plugins load meanwhile.
FrameUpdatesAll ==
  [][Looping("update") /\ Len(stack') < Len(stack)
       => Range(activeStates) \X (present \intersect Updaters) \subseteq updated]_vars
=============================================================================
