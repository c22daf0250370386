----------------------------- MODULE LuaStates -----------------------------
(***************************************************************************)
(* The Lua states the library knows (activeStates of InitiateState.cpp)    *)
(* and the registry of each, in which C++ code parks callbacks.            *)
(*                                                                         *)
(* A state is known by the address of its lua_State only, and the game's   *)
(* allocator may give the address of a closed state to a new one.  The     *)
(* coroutines of a state share its registry, but each has a lua_State of   *)
(* its own, which is never registered.                                     *)
(***************************************************************************)
CONSTANTS VMs,        \* addresses the lua_State of a VM can have
          Coroutines, \* addresses that of a coroutine can have: the same or others
          Refs,       \* integers luaL_ref can return
          Callbacks,  \* functions that can be parked
          Nil         \* what an unused ref holds

VARIABLES activeStates,  \* addresses of the states that are registered
          registry,      \* registry[v][r]: what ref r of state v holds
          tainted        \* history: open states at whose address a lua_State
                         \* was before that has calls under way

StatesTypeOK == /\ activeStates \subseteq VMs
                /\ registry \in [VMs -> [Refs -> Callbacks \union {Nil}]]
                /\ tainted \subseteq VMs

EmptyRegistry == [r \in Refs |-> Nil]

StatesInit == /\ activeStates = {}
              /\ registry = [v \in VMs |-> EmptyRegistry]
              /\ tainted = {}

\* LuaInterface__newstate_new and initiate_lua: a fresh state at a free address.
add_active_state(v, hasCalls) ==
  /\ v \notin activeStates
  /\ activeStates' = activeStates \union {v}
  /\ registry' = [registry EXCEPT ![v] = EmptyRegistry]
  /\ tainted' = IF hasCalls THEN tainted \union {v} ELSE tainted

\* Mutant of remove_active_state: the close hook does not call close().
state_freed_unnoticed(v) == /\ v \in activeStates
                            /\ registry' = [registry EXCEPT ![v] = EmptyRegistry]
                            /\ tainted' = tainted \ {v}
                            /\ UNCHANGED activeStates

\* lua_close_new: the library forgets the address, the game frees the state.
remove_active_state(v) == /\ v \in activeStates
                          /\ activeStates' = activeStates \ {v}
                          /\ registry' = [registry EXCEPT ![v] = EmptyRegistry]
                          /\ tainted' = tainted \ {v}

\* Mutant of check_active_state: it finds every address.
check_active_state_skipped(v) == TRUE

check_active_state(v) == v \in activeStates

\* What lua_State is passed to a C function called by Lua code of v: v's own, or
\* that of the coroutine that runs.
Caller(v) == {v} \union (Coroutines \ activeStates)

\* luaL_ref may return r: a ref the state does not use.  A tainted state may have
\* had a ref freed twice, and then its free list hands out refs in use as well.
Available(v, r) == registry[v][r] = Nil \/ v \in tainted

\* luaL_ref parks callback c of v at r.
luaL_ref(v, r, c) == /\ Available(v, r)
                     /\ registry' = [registry EXCEPT ![v][r] = c]
                     /\ UNCHANGED <<activeStates, tainted>>

luaL_unref(v, r) == /\ registry' = [registry EXCEPT ![v][r] = Nil]
                    /\ UNCHANGED <<activeStates, tainted>>

\* The callbacks a state holds on to.
Parked(v) == {registry[v][r] : r \in Refs} \ {Nil}
=============================================================================
