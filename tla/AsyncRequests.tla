--------------------------- MODULE AsyncRequests ---------------------------
(***************************************************************************)
(* What Lua code is promised by every asynchronous call of the library     *)
(* (async_io.read/write, dohttpreq, file.FileHash/DirectoryHash with a     *)
(* callback).  A request holds on to the lua_State it was made with, and   *)
(* is resolved at most once: by calling back while a state is open at that *)
(* address, or by dropping the answer while none is.  A request of the     *)
(* main program of a state is therefore dropped only after the state was   *)
(* closed; one made by a coroutine is dropped although its state is open.  *)
(***************************************************************************)
CONSTANTS Requests, VMs, NoVM,
          Coroutines  \* addresses of the lua_States of coroutines

VARIABLES open,    \* the Lua states the library knows to be open
          owner,   \* the lua_State that made a request, NoVM before it is made
          fate     \* "unmade", "pending", "called" or "dropped"

vars == <<open, owner, fate>>

Init == /\ open = {}
        /\ owner = [r \in Requests |-> NoVM]
        /\ fate = [r \in Requests |-> "unmade"]

Open(v) == /\ v \notin open
           /\ open' = open \union {v}
           /\ UNCHANGED <<owner, fate>>

Close(v) == /\ v \in open
            /\ open' = open \ {v}
            /\ UNCHANGED <<owner, fate>>

\* Code of v makes a request, from its main program or from a coroutine.
Request(r, v, caller) ==
  /\ fate[r] = "unmade"
  /\ v \in open
  /\ caller = v \/ caller \in Coroutines \ open
  /\ owner' = [owner EXCEPT ![r] = caller]
  /\ fate' = [fate EXCEPT ![r] = "pending"]
  /\ UNCHANGED open

CallBack(r) == /\ fate[r] = "pending"
               /\ owner[r] \in open
               /\ fate' = [fate EXCEPT ![r] = "called"]
               /\ UNCHANGED <<open, owner>>

Drop(r) == /\ fate[r] = "pending"
           /\ owner[r] \notin open
           /\ fate' = [fate EXCEPT ![r] = "dropped"]
           /\ UNCHANGED <<open, owner>>

Next == \/ \E v \in VMs : Open(v) \/ Close(v)
        \/ \E r \in Requests : CallBack(r) \/ Drop(r)
        \/ \E r \in Requests, v \in VMs, caller \in VMs \union Coroutines :
             Request(r, v, caller)

Spec == Init /\ [][Next]_vars
=============================================================================
