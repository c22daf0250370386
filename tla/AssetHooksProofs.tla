-------------------------- MODULE AssetHooksProofs --------------------------
(***************************************************************************)
(* Proofs about the asset hooks for any number of threads and assets, and  *)
(* any depth of nested hook_loads.                                         *)
(***************************************************************************)
EXTENDS AssetHooks, TLAPS

NoSetting == <<NoAsset, None>>

\* A hook that is half set has lost its source already.
HalfSet == setting # NoSetting => sources[setting[1]] = {}

\* Where a thread may be that has taken the detour out: in the game's try_open
\* or just after it, or in the second attempt.
RemovedWhere ==
  \A t \in Threads : removed[t] =>
    \/ pc[t] \in {"original", "returned"}
    \/ fallback_mode[t] /\ pc[t] \notin {"idle", "wren", "loaded", "original", "returned"}

-----------------------------------------------------------------------------
(* Types. *)

LEMMA NextSourceType ==
  ASSUME NEW t \in Threads, NEW kind \in Kinds
  PROVE  NextSource(t, kind) \in
           {"direct_bundle", "wren_loader", "open", "break", "lock", "not found"}
<1>1. CASE kind = "plain_file"
  BY <1>1 DEF NextSource
<1>2. CASE kind = "direct_bundle"
  BY <1>2 DEF NextSource
<1>3. CASE kind = "wren_loader"
  BY <1>3 DEF NextSource
<1>4. QED
  BY <1>1, <1>2, <1>3 DEF Kinds

LEMMA LeaveType ==
  ASSUME TypeOK, NEW t \in Threads, Leave(t)
  PROVE  /\ installed' \in BOOLEAN
         /\ removed' \in [Threads -> BOOLEAN]
         /\ fallback_mode' \in [Threads -> BOOLEAN]
         /\ nested' \in [Threads -> 0..MaxNested]
         /\ pc' \in [Threads -> Points]
<1>1. /\ installed' \in BOOLEAN
      /\ removed' \in [Threads -> BOOLEAN]
      /\ fallback_mode' \in [Threads -> BOOLEAN]
  BY DEF Leave, TypeOK, PutBack
<1>2. nested' \in [Threads -> 0..MaxNested] /\ pc' \in [Threads -> Points]
  <2>1. CASE nested[t] > 0
    <3>1. nested[t] - 1 \in 0..MaxNested
      BY <2>1, AssetHooksAssumption DEF TypeOK
    <3>2. QED
      BY <2>1, <3>1 DEF Leave, TypeOK, Points
  <2>2. CASE ~(nested[t] > 0)
    BY <2>2 DEF Leave, TypeOK, Points
  <2>3. QED
    BY <2>1, <2>2
<1>3. QED
  BY <1>1, <1>2

\* A step of Wren code keeps the types, and a half-set hook stays empty.
LEMMA WrenType ==
  ASSUME TypeOK, HalfSet, NEW t \in Threads, Wren(t)
  PROVE  TypeOK' /\ HalfSet'
<1>1. CASE EnterWren(t) \/ LeaveWren(t)
  BY <1>1 DEF EnterWren, LeaveWren, Go, hookVars, loadVars, history, TypeOK, Points, HalfSet, NoSetting
<1>2. CASE SetSource(t)
  <2>1. setting \in Assets \X Kinds
    BY <1>2 DEF SetSource, TypeOK
  <2>2. sources' \in [Assets -> {{}} \union {{kind} : kind \in Kinds}]
    BY <1>2, <2>1 DEF SetSource, TypeOK, HalfSet, NoSetting
  <2>3. settled' \in [Threads -> BOOLEAN]
    BY <1>2 DEF SetSource, Unsettle, TypeOK
  <2>4. QED
    BY <1>2, <2>2, <2>3 DEF SetSource, WrenUnchanged, loadVars, TypeOK, HalfSet, NoSetting
<1>3. ASSUME NEW a \in Assets, RegisterAssetHook(t, a)
      PROVE  TypeOK' /\ HalfSet'
  BY <1>3 DEF RegisterAssetHook, Unsettle, WrenUnchanged, loadVars, TypeOK, HalfSet, NoSetting
<1>4. ASSUME NEW a \in Assets, NEW val \in BOOLEAN, setFallback(t, a, val)
      PROVE  TypeOK' /\ HalfSet'
  BY <1>4 DEF setFallback, Unsettle, WrenUnchanged, loadVars, TypeOK, HalfSet, NoSetting
<1>5. ASSUME NEW a \in Assets, NEW kind \in Kinds \union {None}, ClearSources(t, a, kind)
      PROVE  TypeOK' /\ HalfSet'
  <2>1. /\ sources' = [sources EXCEPT ![a] = {}]
        /\ setting' \in (Assets \X Kinds) \union {NoSetting}
        /\ setting' # NoSetting => setting'[1] = a
    BY <1>5 DEF ClearSources, Cleared, NoSetting
  <2>2. settled' \in [Threads -> BOOLEAN]
    BY <1>5 DEF ClearSources, Unsettle, TypeOK
  <2>3. QED
    BY <1>5, <2>1, <2>2 DEF ClearSources, WrenUnchanged, loadVars, TypeOK, HalfSet, NoSetting
<1>6. QED
  BY <1>1, <1>2, <1>3, <1>4, <1>5 DEF Wren

\* A step of a load keeps the types; it never touches a hook.
LEMMA LoadType ==
  ASSUME TypeOK, HalfSet, NEW t \in Threads, Load(t)
  PROVE  TypeOK' /\ UNCHANGED hookVars
<1>1. ASSUME NEW a \in Assets, TryOpen(t, a)
      PROVE  TypeOK' /\ UNCHANGED hookVars
  BY <1>1 DEF TryOpen, Go, Original, hookVars, TypeOK, Points
<1>2. CASE Find(t)
  BY <1>2 DEF Find, Go, hookVars, loadVars, history, TypeOK, Points, Kinds
<1>3. ASSUME NEW kind \in Kinds, ReadSource(t, kind)
      PROVE  TypeOK' /\ UNCHANGED hookVars
  <2>1. NextSource(t, kind) \in Points
    BY <1>3, NextSourceType DEF Points, Kinds
  <2>2. QED
    BY <1>3, <2>1 DEF ReadSource, Go, hookVars, loadVars, history, TypeOK
<1>4. CASE OpenFile(t)
  <2>1. CASE Deliver(t, "plain_file") /\ Leave(t) /\ UNCHANGED game
    BY <1>4, <2>1, LeaveType DEF OpenFile, Deliver, hookVars, history, TypeOK, Kinds
  <2>2. CASE UNCHANGED <<pc, archive, installed, removed, fallback_mode, nested>>
    BY <1>4, <2>2 DEF OpenFile, hookVars, history, TypeOK
  <2>3. QED
    BY <1>4, <2>1, <2>2 DEF OpenFile
<1>5. CASE Break(t)
  BY <1>5 DEF Break, hookVars, loadVars, history, TypeOK
<1>6. CASE LockWren(t)
  BY <1>6 DEF LockWren, Go, hookVars, loadVars, history, TypeOK, Points
<1>7. CASE CallLoader(t)
  BY <1>7 DEF CallLoader, hookVars, loadVars, history, TypeOK, Points
<1>8. CASE LoaderReturns(t)
  <2>1. CASE Deliver(t, "wren_loader") /\ Leave(t) /\ vm_mutex' = NoThread /\ UNCHANGED game
    BY <1>8, <2>1, LeaveType DEF LoaderReturns, Deliver, hookVars, history, TypeOK, Kinds
  <2>2. CASE UNCHANGED <<vm_mutex, pc, archive, installed, removed, fallback_mode, nested>>
    BY <1>8, <2>2 DEF LoaderReturns, hookVars, history, TypeOK
  <2>3. QED
    BY <1>8, <2>1, <2>2 DEF LoaderReturns
<1>9. CASE NotFound(t)
  <2>1. CASE fallback_mode[t]
    BY <1>9, <2>1, LeaveType DEF NotFound, hookVars, history, TypeOK
  <2>2. CASE ~fallback_mode[t]
    BY <1>9, <2>2 DEF NotFound, hookVars, history, TypeOK, Points
  <2>3. QED
    BY <2>1, <2>2
<1>10. CASE CallOriginal(t)
  <2>1. CASE installed
    <3>1. nested[t] + 1 \in 0..MaxNested
      BY <1>10, <2>1, AssetHooksAssumption DEF CallOriginal, TypeOK
    <3>2. QED
      BY <1>10, <2>1, <3>1 DEF CallOriginal, Go, hookVars, history, TypeOK, Points
  <2>2. CASE ~installed
    BY <1>10, <2>2 DEF CallOriginal, Deliver, Original, Go, hookVars, history, TypeOK, Points
  <2>3. QED
    BY <2>1, <2>2
<1>11. CASE CheckLoaded(t)
  <2>1. CASE archive[t] = None
    BY <1>11, <2>1 DEF CheckLoaded, hookVars, history, TypeOK, Points
  <2>2. CASE archive[t] # None
    BY <1>11, <2>2, LeaveType DEF CheckLoaded, hookVars, history, TypeOK
  <2>3. QED
    BY <2>1, <2>2
<1>12. CASE Loaded(t)
  BY <1>12 DEF Loaded, Go, hookVars, TypeOK, Points
<1>13. QED
  BY <1>1, <1>2, <1>3, <1>4, <1>5, <1>6, <1>7, <1>8, <1>9, <1>10, <1>11, <1>12 DEF Load

LEMMA TypeStep ==
  ASSUME TypeOK, HalfSet, [Next]_vars
  PROVE  TypeOK' /\ HalfSet'
<1>1. CASE Over \/ UNCHANGED vars
  BY <1>1 DEF Over, vars, hookVars, loadVars, history, TypeOK, HalfSet
<1>2. ASSUME NEW t \in Threads, Wren(t)
      PROVE  TypeOK' /\ HalfSet'
  BY <1>2, WrenType
<1>3. ASSUME NEW t \in Threads, Load(t)
      PROVE  TypeOK' /\ HalfSet'
  BY <1>3, LoadType DEF hookVars, HalfSet
<1>4. QED
  BY <1>1, <1>2, <1>3 DEF Next

-----------------------------------------------------------------------------
(* The lock of the Wren VM. *)

InVM == {"wren", "call", "load_file"}

\* Every step of a load that neither takes nor gives up the lock.
LEMMA SameLock ==
  ASSUME TypeOK, WrenIsSerial, NEW t \in Threads,
         UNCHANGED <<vm_mutex, setting>>,
         \A u \in Threads : pc'[u] \in InVM <=> pc[u] \in InVM
  PROVE  WrenIsSerial'
  BY DEF WrenIsSerial, InVM

LEMMA SerialStep ==
  ASSUME TypeOK, WrenIsSerial, [Next]_vars
  PROVE  WrenIsSerial'
<1>1. CASE Over \/ UNCHANGED vars
  BY <1>1 DEF Over, vars, hookVars, WrenIsSerial
<1>2. ASSUME NEW t \in Threads, EnterWren(t) \/ LockWren(t)
      PROVE  WrenIsSerial'
  BY <1>2, AssetHooksAssumption
  DEF EnterWren, LockWren, Unlocked, Go, hookVars, TypeOK, WrenIsSerial
<1>3. ASSUME NEW t \in Threads, LeaveWren(t)
      PROVE  WrenIsSerial'
  BY <1>3, AssetHooksAssumption DEF LeaveWren, Go, hookVars, TypeOK, WrenIsSerial
<1>4. ASSUME NEW t \in Threads,
             SetSource(t) \/ \E a \in Assets :
               \/ RegisterAssetHook(t, a)
               \/ \E val \in BOOLEAN : setFallback(t, a, val)
               \/ \E kind \in Kinds \union {None} : ClearSources(t, a, kind)
      PROVE  WrenIsSerial'
  <2>1. RunsWren(t) /\ UNCHANGED <<vm_mutex, pc>>
    BY <1>4 DEF SetSource, RegisterAssetHook, setFallback, ClearSources, WrenUnchanged
  <2>2. vm_mutex # NoThread
    BY <2>1, AssetHooksAssumption DEF RunsWren, WrenIsSerial
  <2>3. QED
    BY <2>1, <2>2 DEF WrenIsSerial
<1>5. ASSUME NEW t \in Threads, LoaderReturns(t)
      PROVE  WrenIsSerial'
  <2>1. CASE Leave(t) /\ vm_mutex' = NoThread
    <3>1. /\ pc' \in [Threads -> Points] /\ pc'[t] \in {"returned", "loaded"}
          /\ \A u \in Threads \ {t} : pc'[u] = pc[u]
      BY <2>1, LeaveType DEF Leave, TypeOK
    <3>2. QED
      BY <1>5, <2>1, <3>1, AssetHooksAssumption DEF LoaderReturns, hookVars, WrenIsSerial
  <2>2. CASE UNCHANGED <<vm_mutex, pc>>
    BY <1>5, <2>2 DEF LoaderReturns, hookVars, WrenIsSerial
  <2>3. QED
    BY <1>5, <2>1, <2>2 DEF LoaderReturns
<1>6. ASSUME NEW t \in Threads, NEW kind \in Kinds, ReadSource(t, kind)
      PROVE  WrenIsSerial'
  <2>1. NextSource(t, kind) \notin InVM
    BY <1>6, NextSourceType DEF InVM
  <2>2. QED
    BY <1>6, <2>1, SameLock DEF ReadSource, Go, hookVars, InVM, Kinds, TypeOK
<1>7. ASSUME NEW t \in Threads, Leave(t), pc[t] \notin InVM, UNCHANGED <<vm_mutex, setting>>
      PROVE  WrenIsSerial'
  BY <1>7, SameLock DEF Leave, InVM, TypeOK
<1>8. ASSUME NEW t \in Threads, NEW a \in Assets, TryOpen(t, a)
      PROVE  WrenIsSerial'
  BY <1>8, SameLock DEF TryOpen, Go, hookVars, InVM, TypeOK
<1>9. ASSUME NEW t \in Threads,
             Find(t) \/ CallLoader(t) \/ CallOriginal(t) \/ Loaded(t) \/ Break(t)
      PROVE  WrenIsSerial'
  BY <1>9, SameLock
  DEF Find, CallLoader, CallOriginal, Loaded, Break, Go, hookVars, InVM, TypeOK
<1>10. ASSUME NEW t \in Threads, OpenFile(t) \/ NotFound(t) \/ CheckLoaded(t)
       PROVE  WrenIsSerial'
  <2>1. UNCHANGED <<vm_mutex, setting>> /\ pc[t] \notin InVM
    BY <1>10 DEF OpenFile, NotFound, CheckLoaded, hookVars, InVM
  <2>2. CASE Leave(t)
    BY <2>1, <2>2, <1>7
  <2>3. CASE ~Leave(t)
    BY <1>10, <2>1, <2>3, SameLock DEF OpenFile, NotFound, CheckLoaded, InVM, TypeOK
  <2>4. QED
    BY <2>2, <2>3
<1>11. QED
  BY <1>1, <1>2, <1>3, <1>4, <1>5, <1>6, <1>8, <1>9, <1>10 DEF Next, Wren, Load

-----------------------------------------------------------------------------
(* The detour. *)

DetourInv == DetourComesBack /\ RemovedWhere

LEMMA LeaveDetour ==
  ASSUME TypeOK, DetourInv, NEW t \in Threads, Leave(t)
  PROVE  DetourInv'
<1>1. /\ removed' = [removed EXCEPT ![t] = FALSE]
      /\ installed' = (installed \/ removed[t])
  BY DEF Leave, PutBack
<1>2. \A u \in Threads \ {t} : pc'[u] = pc[u] /\ fallback_mode'[u] = fallback_mode[u]
  BY DEF Leave, TypeOK
<1>3. DetourComesBack'
  BY <1>1, <1>2 DEF DetourInv, DetourComesBack, TypeOK
<1>4. RemovedWhere'
  BY <1>1, <1>2 DEF DetourInv, RemovedWhere, TypeOK
<1>5. QED
  BY <1>3, <1>4 DEF DetourInv

\* A thread moves on without touching the detour.
LEMMA MoveDetour ==
  ASSUME TypeOK, DetourInv, NEW t \in Threads,
         UNCHANGED <<installed, removed>>,
         \A u \in Threads \ {t} : pc'[u] = pc[u] /\ fallback_mode'[u] = fallback_mode[u],
         removed[t] =>
           \/ pc'[t] \in {"original", "returned"}
           \/ /\ fallback_mode'[t]
              /\ pc'[t] \notin {"idle", "wren", "loaded", "original", "returned"}
  PROVE  DetourInv'
<1>1. RemovedWhere'
  BY DEF DetourInv, RemovedWhere
<1>2. DetourComesBack'
  BY <1>1 DEF DetourInv, DetourComesBack, RemovedWhere
<1>3. QED
  BY <1>1, <1>2 DEF DetourInv

LEMMA DetourStep ==
  ASSUME TypeOK, DetourInv, [Next]_vars
  PROVE  DetourInv'
<1>1. CASE UNCHANGED <<installed, removed, pc, fallback_mode>>
  BY <1>1 DEF DetourInv, DetourComesBack, RemovedWhere
<1>2. ASSUME NEW t \in Threads, Wren(t)
      PROVE  DetourInv'
  <2>1. CASE EnterWren(t)
    BY <2>1, MoveDetour DEF EnterWren, Go, loadVars, DetourInv, RemovedWhere, TypeOK
  <2>2. CASE LeaveWren(t)
    BY <2>2, MoveDetour DEF LeaveWren, Go, loadVars, DetourInv, RemovedWhere, TypeOK
  <2>3. CASE ~EnterWren(t) /\ ~LeaveWren(t)
    BY <1>1, <1>2, <2>3
    DEF Wren, SetSource, RegisterAssetHook, setFallback, ClearSources, WrenUnchanged, loadVars
  <2>4. QED
    BY <2>1, <2>2, <2>3
<1>3. ASSUME NEW t \in Threads, NEW a \in Assets, TryOpen(t, a)
      PROVE  DetourInv'
  BY <1>3, MoveDetour DEF TryOpen, Go, DetourInv, RemovedWhere, TypeOK
<1>4. ASSUME NEW t \in Threads, Find(t)
      PROVE  DetourInv'
  BY <1>4, MoveDetour DEF Find, Go, loadVars, DetourInv, RemovedWhere, TypeOK
<1>5. ASSUME NEW t \in Threads, NEW kind \in Kinds, ReadSource(t, kind)
      PROVE  DetourInv'
  <2>1. NextSource(t, kind) \notin {"idle", "wren", "loaded", "original", "returned"}
    BY <1>5, NextSourceType
  <2>2. removed[t] => fallback_mode[t]
    BY <1>5 DEF ReadSource, Go, DetourInv, RemovedWhere, Kinds
  <2>3. QED
    BY <1>5, <2>1, <2>2, MoveDetour DEF ReadSource, Go, loadVars, TypeOK, Kinds
<1>6. ASSUME NEW t \in Threads, LockWren(t) \/ CallLoader(t) \/ Break(t)
      PROVE  DetourInv'
  <2>1. CASE UNCHANGED pc
    BY <1>1, <1>6, <2>1 DEF LockWren, CallLoader, Break, loadVars
  <2>2. CASE ~UNCHANGED pc
    BY <1>6, <2>2, MoveDetour
    DEF LockWren, CallLoader, Break, Go, loadVars, DetourInv, RemovedWhere, TypeOK
  <2>3. QED
    BY <2>1, <2>2
<1>7. ASSUME NEW t \in Threads, OpenFile(t) \/ LoaderReturns(t)
      PROVE  DetourInv'
  BY <1>1, <1>7, LeaveDetour DEF OpenFile, LoaderReturns
<1>8. ASSUME NEW t \in Threads, NotFound(t)
      PROVE  DetourInv'
  <2>1. CASE fallback_mode[t]
    BY <1>8, <2>1, LeaveDetour DEF NotFound
  <2>2. CASE ~fallback_mode[t]
    <3>1. ~removed[t]
      BY <1>8, <2>2 DEF NotFound, DetourInv, RemovedWhere
    <3>2. /\ removed' = [removed EXCEPT ![t] = installed]
          /\ installed' = FALSE
          /\ pc' = [pc EXCEPT ![t] = "original"]
          /\ UNCHANGED fallback_mode
      BY <1>8, <2>2 DEF NotFound
    <3>3. DetourComesBack' /\ RemovedWhere'
      BY <3>1, <3>2 DEF DetourInv, DetourComesBack, RemovedWhere, TypeOK
    <3>4. QED
      BY <3>3 DEF DetourInv
  <2>3. QED
    BY <2>1, <2>2
<1>9. ASSUME NEW t \in Threads, CallOriginal(t)
      PROVE  DetourInv'
  <2>1. installed => ~removed[t]
    BY DEF DetourInv, DetourComesBack
  <2>2. QED
    BY <1>9, <2>1, MoveDetour DEF CallOriginal, Go, TypeOK
<1>10. ASSUME NEW t \in Threads, CheckLoaded(t)
       PROVE  DetourInv'
  <2>1. CASE archive[t] = None
    BY <1>10, <2>1, MoveDetour DEF CheckLoaded, TypeOK
  <2>2. CASE archive[t] # None
    BY <1>10, <2>2, LeaveDetour DEF CheckLoaded
  <2>3. QED
    BY <2>1, <2>2
<1>11. ASSUME NEW t \in Threads, Loaded(t)
       PROVE  DetourInv'
  BY <1>11, MoveDetour DEF Loaded, Go, DetourInv, RemovedWhere, TypeOK
<1>12. CASE Over \/ UNCHANGED vars
  BY <1>1, <1>12 DEF Over, vars, loadVars
<1>13. QED
  BY <1>2, <1>3, <1>4, <1>5, <1>6, <1>7, <1>8, <1>9, <1>10, <1>11, <1>12 DEF Next, Load

-----------------------------------------------------------------------------
(* What a load comes to. *)

\* The hook leaves the asset to the game, at least at first.
GivenUp(a) == a \notin overriddenFiles \/ sources[a] = {} \/ fallback[a]

\* The points from which a source may still be found, and those at which one is.
Searching == {"find", "open", "break", "lock", "call", "load_file", "not found"} \union Kinds
AskingHook == {"open", "break", "lock", "call", "load_file"} \union Kinds

\* What a load whose hook nobody changes knows of it, point by point.
Knows(t) ==
  LET a == asset[t]
  IN  /\ pc[t] \in Searching \union {"original"} => archive[t] = None
      /\ fallback_mode[t] => a \notin Originals
      /\ pc[t] \in AskingHook => a \in overriddenFiles /\ (fallback[a] => fallback_mode[t])
      /\ pc[t] = "open" => "plain_file" \in sources[a]
      /\ pc[t] \in {"lock", "call", "load_file"} => "wren_loader" \in sources[a]
      /\ pc[t] \in {"direct_bundle", "wren_loader"} => "plain_file" \notin sources[a]
      /\ pc[t] = "wren_loader" => "direct_bundle" \notin sources[a]
      /\ pc[t] = "not found" => \/ a \notin overriddenFiles
                                \/ sources[a] = {}
                                \/ fallback[a] /\ ~fallback_mode[t]
      /\ pc[t] = "original" => GivenUp(a)
      /\ pc[t] = "returned" => \/ archive[t] = Configured(a)
                               \/ archive[t] = Original(a) /\ GivenUp(a)
      /\ pc[t] = "loaded" => archive[t] = Configured(a)

OnTrack(t) == /\ pc[t] \notin {"idle", "wren"} => asset[t] \in Assets
              /\ bypassed[t] => pc[t] = "loaded"
              /\ settled[t] /\ ~bypassed[t] => Knows(t)

LoadsOnTrack == \A t \in Threads : OnTrack(t)

LEMMA ConfiguredOriginal ==
  ASSUME NEW a \in Assets,
         a \notin overriddenFiles \/ sources[a] = {} \/ (GivenUp(a) /\ a \in Originals)
  PROVE  Configured(a) = Original(a)
  BY DEF Configured, GivenUp

LEMMA ConfiguredSource ==
  ASSUME TypeOK, NEW a \in overriddenFiles, NEW kind \in Kinds, kind \in sources[a],
         ~(fallback[a] /\ a \in Originals)
  PROVE  Configured(a) = kind
<1>1. sources[a] = {kind}
  BY DEF TypeOK
<1>2. TheSource({kind}) = kind
  BY DEF TheSource
<1>3. QED
  BY <1>1, <1>2 DEF Configured

\* Only an asset that the game does not have can come to nothing.
LEMMA ConfiguredNothing ==
  ASSUME TypeOK, NEW a \in Assets, Configured(a) = None \/ Original(a) = None
  PROVE  a \notin Originals
<1>1. SUFFICES ASSUME a \in Originals PROVE FALSE
  OBVIOUS
<1>2. Original(a) = "original"
  BY <1>1 DEF Original
<1>3. CASE GivenUp(a)
  BY <1>1, <1>2, <1>3, ConfiguredOriginal DEF None
<1>4. CASE ~GivenUp(a)
  <2>1. PICK kind \in Kinds : kind \in sources[a]
    BY <1>4 DEF GivenUp, TypeOK
  <2>2. Configured(a) = kind
    BY <1>4, <2>1, ConfiguredSource DEF GivenUp
  <2>3. QED
    BY <1>2, <2>2 DEF None, Kinds
<1>5. QED
  BY <1>3, <1>4

\* The hook of one asset changes: its own loads are not settled any more.
LEMMA SetterKeepsTrack ==
  ASSUME TypeOK, LoadsOnTrack, NEW a \in Assets, Unsettle(a),
         UNCHANGED <<pc, loadVars, bypassed>>,
         \A b \in Assets \ {a} : /\ sources'[b] = sources[b]
                                 /\ fallback'[b] = fallback[b]
                                 /\ b \in overriddenFiles' <=> b \in overriddenFiles
  PROVE  LoadsOnTrack'
<1>1. SUFFICES ASSUME NEW t \in Threads PROVE OnTrack(t)'
  BY DEF LoadsOnTrack
<1>2. OnTrack(t)
  BY DEF LoadsOnTrack
<1>3. settled'[t] => settled[t] /\ asset[t] # a
  BY DEF Unsettle, TypeOK
<1>4. CASE pc[t] \in {"idle", "wren"}
  BY <1>2, <1>3, <1>4 DEF OnTrack, Knows, loadVars, Searching, AskingHook, Kinds
<1>5. CASE pc[t] \notin {"idle", "wren"} /\ asset[t] # a
  <2>1. asset[t] \in Assets \ {a}
    BY <1>2, <1>5 DEF OnTrack
  <2>2. /\ sources'[asset[t]] = sources[asset[t]]
        /\ fallback'[asset[t]] = fallback[asset[t]]
        /\ asset[t] \in overriddenFiles' <=> asset[t] \in overriddenFiles
        /\ asset' = asset
    BY <2>1 DEF loadVars
  <2>3. Configured(asset[t])' = Configured(asset[t]) /\ GivenUp(asset[t])' = GivenUp(asset[t])
    BY <2>2 DEF Configured, GivenUp, Original
  <2>4. QED
    BY <1>2, <1>3, <2>2, <2>3 DEF OnTrack, Knows, Original, loadVars
<1>6. CASE asset[t] = a
  BY <1>2, <1>3, <1>6 DEF OnTrack, loadVars
<1>7. QED
  BY <1>4, <1>5, <1>6

LEMMA WrenKeepsTrack ==
  ASSUME TypeOK, LoadsOnTrack, NEW t \in Threads, Wren(t)
  PROVE  LoadsOnTrack'
<1>1. CASE EnterWren(t) \/ LeaveWren(t)
  <2>1. /\ UNCHANGED <<hookVars, loadVars, history>>
        /\ pc[t] \in {"idle", "wren"} /\ pc'[t] \in {"idle", "wren"}
        /\ \A u \in Threads \ {t} : pc'[u] = pc[u]
    BY <1>1 DEF EnterWren, LeaveWren, Go, TypeOK
  <2>2. \A a : /\ Configured(a)' = Configured(a) /\ GivenUp(a)' = GivenUp(a)
    BY <2>1 DEF Configured, GivenUp, Original, hookVars
  <2>3. ASSUME NEW u \in Threads
        PROVE  OnTrack(u)'
    BY <2>1, <2>2, <2>3
    DEF LoadsOnTrack, OnTrack, Knows, Original, hookVars, loadVars, history, Searching, AskingHook, Kinds
  <2>4. QED
    BY <2>3 DEF LoadsOnTrack
<1>2. ASSUME NEW a \in Assets, RegisterAssetHook(t, a)
      PROVE  LoadsOnTrack'
  BY <1>2, SetterKeepsTrack DEF RegisterAssetHook, WrenUnchanged
<1>3. ASSUME NEW a \in Assets, NEW val \in BOOLEAN, setFallback(t, a, val)
      PROVE  LoadsOnTrack'
  BY <1>3, SetterKeepsTrack DEF setFallback, WrenUnchanged, TypeOK
<1>4. ASSUME NEW a \in Assets, NEW kind \in Kinds \union {None}, ClearSources(t, a, kind)
      PROVE  LoadsOnTrack'
  BY <1>4, SetterKeepsTrack DEF ClearSources, WrenUnchanged, TypeOK
<1>5. CASE SetSource(t)
  <2>1. setting[1] \in Assets
    BY <1>5 DEF SetSource, TypeOK
  <2>2. QED
    BY <1>5, <2>1, SetterKeepsTrack DEF SetSource, WrenUnchanged, TypeOK
<1>6. QED
  BY <1>1, <1>2, <1>3, <1>4, <1>5 DEF Wren

\* A load does not disturb the loads of other threads.
LEMMA OthersKeepTrack ==
  ASSUME LoadsOnTrack, NEW t \in Threads, UNCHANGED hookVars, OnTrack(t)',
         \A u \in Threads \ {t} :
           /\ pc'[u] = pc[u] /\ asset'[u] = asset[u] /\ archive'[u] = archive[u]
           /\ fallback_mode'[u] = fallback_mode[u]
           /\ bypassed'[u] = bypassed[u] /\ settled'[u] = settled[u]
  PROVE  LoadsOnTrack'
<1>1. ASSUME NEW u \in Threads \ {t}
      PROVE  OnTrack(u)'
  <2>1. /\ OnTrack(u)
        /\ pc'[u] = pc[u] /\ asset'[u] = asset[u] /\ archive'[u] = archive[u]
        /\ fallback_mode'[u] = fallback_mode[u]
        /\ bypassed'[u] = bypassed[u] /\ settled'[u] = settled[u]
        /\ UNCHANGED <<overriddenFiles, fallback, sources>>
    BY <1>1 DEF LoadsOnTrack, hookVars
  <2>2. \A a : /\ Configured(a)' = Configured(a) /\ GivenUp(a)' = GivenUp(a)
    BY <2>1 DEF Configured, GivenUp, Original
  <2>3. QED
    BY <2>1, <2>2 DEF OnTrack, Knows, Original
<1>2. QED
  BY <1>1 DEF LoadsOnTrack

LEMMA SameConfiguration ==
  ASSUME UNCHANGED hookVars
  PROVE  \A a : Configured(a)' = Configured(a) /\ GivenUp(a)' = GivenUp(a)
  BY DEF hookVars, Configured, GivenUp, Original

\* hook_load ends with what its hook is set to.
LEMMA LeaveKeepsTrack ==
  ASSUME TypeOK, LoadsOnTrack, NEW t \in Threads, Leave(t),
         pc[t] \notin {"idle", "wren", "loaded"},
         UNCHANGED <<hookVars, asset, history>>,
         settled[t] => archive'[t] = Configured(asset[t])
  PROVE  OnTrack(t)'
<1>1. OnTrack(t) /\ asset[t] \in Assets /\ ~bypassed[t]
  BY DEF LoadsOnTrack, OnTrack
<1>2. /\ pc'[t] \in {"returned", "loaded"}
      /\ ~fallback_mode'[t]
      /\ UNCHANGED <<asset, bypassed, settled>>
  BY DEF Leave, TypeOK, history
<1>3. settled'[t] => archive'[t] = Configured(asset[t])'
  BY <1>2, SameConfiguration
<1>4. QED
  BY <1>1, <1>2, <1>3 DEF OnTrack, Knows, Searching, AskingHook, Kinds

\* hook_asset_load: what it has read of the hook, it knows.
LEMMA AskKeepsTrack ==
  ASSUME TypeOK, LoadsOnTrack, NEW t \in Threads,
         Find(t) \/ \E kind \in Kinds : ReadSource(t, kind)
  PROVE  OnTrack(t)'
<1>1. /\ OnTrack(t) /\ pc[t] \in {"find"} \union Kinds
      /\ UNCHANGED <<hookVars, asset, archive, fallback_mode, bypassed, settled>>
  BY DEF LoadsOnTrack, Find, ReadSource, Go, loadVars, history
<1>2. asset[t] \in Assets /\ ~bypassed[t]
  BY <1>1 DEF OnTrack, Kinds
<1>3. CASE Find(t)
  <2>1. pc'[t] = IF asset[t] \notin overriddenFiles \/ StopsHere(t) THEN "not found" ELSE "plain_file"
    BY <1>3 DEF Find, Go, TypeOK
  <2>2. CASE asset[t] \notin overriddenFiles \/ StopsHere(t)
    <3>1. /\ pc'[t] = "not found"
          /\ asset[t] \notin overriddenFiles \/ (fallback[asset[t]] /\ ~fallback_mode[t])
      BY <2>1, <2>2 DEF StopsHere
    <3>2. QED
      BY <1>1, <1>2, <1>3, <3>1 DEF Find, Go, OnTrack, Knows, hookVars, Searching, AskingHook, Kinds
  <2>3. CASE ~(asset[t] \notin overriddenFiles \/ StopsHere(t))
    <3>1. /\ pc'[t] = "plain_file"
          /\ asset[t] \in overriddenFiles /\ (fallback[asset[t]] => fallback_mode[t])
      BY <2>1, <2>3 DEF StopsHere
    <3>2. QED
      BY <1>1, <1>2, <1>3, <3>1 DEF Find, Go, OnTrack, Knows, hookVars, Searching, AskingHook, Kinds
  <2>4. QED
    BY <2>2, <2>3
<1>4. CASE ReadSource(t, "plain_file")
  BY <1>1, <1>2, <1>4
  DEF ReadSource, NextSource, Go, OnTrack, Knows, hookVars, Searching, AskingHook, Kinds, TypeOK
<1>5. CASE ReadSource(t, "direct_bundle")
  BY <1>1, <1>2, <1>5
  DEF ReadSource, NextSource, Go, OnTrack, Knows, hookVars, Searching, AskingHook, Kinds, TypeOK
<1>6. CASE ReadSource(t, "wren_loader")
  <2>1. CASE "wren_loader" \in sources[asset[t]]
    BY <1>1, <1>2, <1>6, <2>1
    DEF ReadSource, NextSource, Go, OnTrack, Knows, hookVars, Searching, AskingHook, Kinds, TypeOK
  <2>2. CASE "wren_loader" \notin sources[asset[t]]
    <3>1. pc[t] = "wren_loader" /\ pc'[t] = "not found"
      BY <1>6, <2>2 DEF ReadSource, NextSource, Go, TypeOK
    <3>2. settled[t] => sources[asset[t]] = {}
      <4>1. sources[asset[t]] \in {{}} \union {{kind} : kind \in Kinds}
        BY <1>2 DEF TypeOK
      <4>2. settled[t] => Kinds \intersect sources[asset[t]] = {}
        BY <1>1, <1>2, <2>2, <3>1 DEF OnTrack, Knows, Kinds
      <4>3. QED
        BY <4>1, <4>2
    <3>3. QED
      BY <1>1, <1>2, <3>1, <3>2 DEF OnTrack, Knows, hookVars, Searching, AskingHook, Kinds
  <2>3. QED
    BY <2>1, <2>2
<1>7. QED
  BY <1>3, <1>4, <1>5, <1>6 DEF Kinds

\* A source is found: it is the configured one.
LEMMA DeliverKeepsTrack ==
  ASSUME TypeOK, LoadsOnTrack, NEW t \in Threads, OpenFile(t) \/ LoaderReturns(t)
  PROVE  OnTrack(t)'
<1>1. /\ OnTrack(t) /\ pc[t] \in {"open", "load_file"}
      /\ UNCHANGED <<hookVars, asset, history>>
  BY DEF LoadsOnTrack, OpenFile, LoaderReturns
<1>2. asset[t] \in Assets /\ ~bypassed[t]
  BY <1>1 DEF OnTrack
<1>3. CASE Leave(t)
  <2>1. PICK kind \in Kinds : /\ archive' = [archive EXCEPT ![t] = kind]
                              /\ settled[t] => kind \in sources[asset[t]]
    <3>1. CASE OpenFile(t) /\ Deliver(t, "plain_file")
      BY <1>1, <1>2, <3>1 DEF OpenFile, Deliver, OnTrack, Knows, Kinds
    <3>2. CASE LoaderReturns(t) /\ Deliver(t, "wren_loader")
      BY <1>1, <1>2, <3>2 DEF LoaderReturns, Deliver, OnTrack, Knows, Kinds
    <3>3. CASE UNCHANGED pc
      BY <1>1, <1>3, <3>3 DEF Leave, TypeOK
    <3>4. QED
      BY <3>1, <3>2, <3>3 DEF OpenFile, LoaderReturns
  <2>2. settled[t] => Configured(asset[t]) = kind
    <3>1. SUFFICES ASSUME settled[t] PROVE Configured(asset[t]) = kind
      OBVIOUS
    <3>2. asset[t] \in overriddenFiles /\ ~(fallback[asset[t]] /\ asset[t] \in Originals)
      BY <1>1, <1>2, <3>1 DEF OnTrack, Knows, AskingHook
    <3>3. QED
      BY <2>1, <3>1, <3>2, ConfiguredSource
  <2>3. settled[t] => archive'[t] = Configured(asset[t])
    BY <2>1, <2>2 DEF TypeOK
  <2>4. QED
    BY <1>1, <1>3, <2>3, LeaveKeepsTrack
<1>4. CASE UNCHANGED <<pc, archive, fallback_mode>>
  BY <1>1, <1>4, SameConfiguration DEF OnTrack, Knows, Original, hookVars, history
<1>5. QED
  BY <1>3, <1>4 DEF OpenFile, LoaderReturns

\* The hook gives the asset up: the game's function is next, or it has been.
LEMMA NotFoundKeepsTrack ==
  ASSUME TypeOK, LoadsOnTrack, NEW t \in Threads, NotFound(t)
  PROVE  OnTrack(t)'
<1>1. /\ OnTrack(t) /\ pc[t] = "not found"
      /\ UNCHANGED <<hookVars, asset, archive, history>>
  BY DEF LoadsOnTrack, NotFound
<1>2. asset[t] \in Assets /\ ~bypassed[t]
  BY <1>1 DEF OnTrack
<1>3. CASE fallback_mode[t]
  <2>1. settled[t] => archive[t] = Configured(asset[t])
    <3>1. SUFFICES ASSUME settled[t] PROVE archive[t] = Configured(asset[t])
      OBVIOUS
    <3>2. /\ archive[t] = None /\ asset[t] \notin Originals
          /\ asset[t] \notin overriddenFiles \/ sources[asset[t]] = {}
      BY <1>1, <1>2, <1>3, <3>1 DEF OnTrack, Knows, Searching
    <3>3. QED
      BY <1>2, <3>2, ConfiguredOriginal DEF Original
  <2>2. QED
    BY <1>1, <1>3, <2>1, LeaveKeepsTrack DEF NotFound
<1>4. CASE ~fallback_mode[t]
  <2>1. pc'[t] = "original" /\ UNCHANGED fallback_mode
    BY <1>4 DEF NotFound, TypeOK
  <2>2. QED
    BY <1>1, <1>2, <2>1, SameConfiguration
    DEF OnTrack, Knows, GivenUp, hookVars, history, Searching, AskingHook, Kinds
<1>5. QED
  BY <1>3, <1>4

LEMMA OriginalKeepsTrack ==
  ASSUME TypeOK, LoadsOnTrack, NEW t \in Threads, CallOriginal(t)
  PROVE  OnTrack(t)'
<1>1. /\ OnTrack(t) /\ pc[t] = "original"
      /\ UNCHANGED <<hookVars, asset, fallback_mode, history>>
  BY DEF LoadsOnTrack, CallOriginal, Go
<1>2. asset[t] \in Assets /\ ~bypassed[t]
  BY <1>1 DEF OnTrack
<1>3. CASE installed
  <2>1. pc'[t] = "find" /\ UNCHANGED archive
    BY <1>3 DEF CallOriginal, Go, TypeOK
  <2>2. QED
    BY <1>1, <1>2, <2>1 DEF OnTrack, Knows, hookVars, history, Searching, AskingHook, Kinds
<1>4. CASE ~installed
  <2>1. pc'[t] = "returned" /\ archive'[t] = Original(asset[t])
    BY <1>4 DEF CallOriginal, Go, Deliver, TypeOK
  <2>2. QED
    BY <1>1, <1>2, <2>1, SameConfiguration
    DEF OnTrack, Knows, Original, hookVars, history, Searching, AskingHook, Kinds
<1>5. QED
  BY <1>3, <1>4

\* An empty archive means an asset that the game does not have.
LEMMA CheckKeepsTrack ==
  ASSUME TypeOK, LoadsOnTrack, NEW t \in Threads, CheckLoaded(t)
  PROVE  OnTrack(t)'
<1>1. /\ OnTrack(t) /\ pc[t] = "returned"
      /\ UNCHANGED <<hookVars, asset, archive, history>>
  BY DEF LoadsOnTrack, CheckLoaded
<1>2. asset[t] \in Assets /\ ~bypassed[t]
  BY <1>1 DEF OnTrack
<1>3. settled[t] => \/ archive[t] = Configured(asset[t])
                    \/ archive[t] = Original(asset[t]) /\ GivenUp(asset[t])
  BY <1>1, <1>2 DEF OnTrack, Knows
<1>4. CASE archive[t] = None
  <2>1. pc'[t] = "find" /\ fallback_mode'[t]
    BY <1>4 DEF CheckLoaded, TypeOK
  <2>2. settled[t] => asset[t] \notin Originals
    BY <1>2, <1>3, <1>4, ConfiguredNothing
  <2>3. QED
    BY <1>1, <1>2, <1>4, <2>1, <2>2 DEF OnTrack, Knows, history, Searching, AskingHook, Kinds
<1>5. CASE archive[t] # None
  <2>1. settled[t] => archive[t] = Configured(asset[t])
    BY <1>2, <1>3, <1>5, ConfiguredOriginal DEF Original
  <2>2. QED
    BY <1>1, <1>5, <2>1, LeaveKeepsTrack DEF CheckLoaded
<1>6. QED
  BY <1>4, <1>5

LEMMA LoadKeepsTrack ==
  ASSUME TypeOK, LoadsOnTrack, NEW t \in Threads, Load(t), UNCHANGED hookVars
  PROVE  LoadsOnTrack'
<1>1. ASSUME NEW a \in Assets, TryOpen(t, a)
      PROVE  LoadsOnTrack'
  <2>1. /\ asset'[t] = a /\ ~fallback_mode'[t]
        /\ pc'[t] = (IF installed THEN "find" ELSE "loaded")
        /\ bypassed'[t] = ~installed
        /\ installed => archive'[t] = None
    BY <1>1 DEF TryOpen, Go, TypeOK
  <2>2. OnTrack(t)'
    BY <1>1, <2>1 DEF OnTrack, Knows, Searching, AskingHook, Kinds
  <2>3. QED
    BY <1>1, <2>2, OthersKeepTrack DEF TryOpen, Go, TypeOK
<1>2. ASSUME Find(t) \/ \E kind \in Kinds : ReadSource(t, kind)
      PROVE  LoadsOnTrack'
  BY <1>2, AskKeepsTrack, OthersKeepTrack DEF Find, ReadSource, Go, loadVars, history, TypeOK
<1>3. CASE OpenFile(t) \/ LoaderReturns(t)
  <2>1. \A u \in Threads \ {t} : /\ pc'[u] = pc[u]
                                  /\ archive'[u] = archive[u]
                                  /\ fallback_mode'[u] = fallback_mode[u]
    BY <1>3 DEF OpenFile, LoaderReturns, Deliver, Leave, TypeOK
  <2>2. QED
    BY <1>3, <2>1, DeliverKeepsTrack, OthersKeepTrack DEF OpenFile, LoaderReturns, history
<1>4. CASE Break(t) \/ LockWren(t) \/ CallLoader(t)
  <2>1. /\ OnTrack(t) /\ UNCHANGED <<hookVars, loadVars, history>>
        /\ \/ pc' = pc
           \/ pc[t] = "lock" /\ pc' = [pc EXCEPT ![t] = "call"]
           \/ pc[t] = "call" /\ pc' = [pc EXCEPT ![t] = "load_file"]
    BY <1>4 DEF LoadsOnTrack, Break, LockWren, CallLoader, Go
  <2>2. OnTrack(t)'
    BY <2>1, SameConfiguration
    DEF OnTrack, Knows, Original, hookVars, loadVars, history, Searching, AskingHook, Kinds, TypeOK
  <2>3. QED
    BY <2>1, <2>2, OthersKeepTrack DEF loadVars, history, TypeOK
<1>5. CASE NotFound(t)
  <2>1. \A u \in Threads \ {t} : pc'[u] = pc[u] /\ fallback_mode'[u] = fallback_mode[u]
    BY <1>5 DEF NotFound, Leave, TypeOK
  <2>2. QED
    BY <1>5, <2>1, NotFoundKeepsTrack, OthersKeepTrack DEF NotFound, history
<1>6. CASE CallOriginal(t)
  <2>1. \A u \in Threads \ {t} : pc'[u] = pc[u] /\ archive'[u] = archive[u]
    BY <1>6 DEF CallOriginal, Deliver, Go, TypeOK
  <2>2. QED
    BY <1>6, <2>1, OriginalKeepsTrack, OthersKeepTrack DEF CallOriginal, history
<1>7. CASE CheckLoaded(t)
  <2>1. \A u \in Threads \ {t} : pc'[u] = pc[u] /\ fallback_mode'[u] = fallback_mode[u]
    BY <1>7 DEF CheckLoaded, Leave, TypeOK
  <2>2. QED
    BY <1>7, <2>1, CheckKeepsTrack, OthersKeepTrack DEF CheckLoaded, history
<1>8. CASE Loaded(t)
  <2>1. /\ pc'[t] = "idle" /\ asset'[t] = NoAsset /\ ~bypassed'[t]
    BY <1>8 DEF Loaded, Go, TypeOK
  <2>2. OnTrack(t)'
    BY <2>1, AssetHooksAssumption DEF OnTrack, Knows, Searching, AskingHook, Kinds
  <2>3. QED
    BY <1>8, <2>2, OthersKeepTrack DEF Loaded, Go, TypeOK
<1>9. QED
  BY <1>1, <1>2, <1>3, <1>4, <1>5, <1>6, <1>7, <1>8 DEF Load

LEMMA TrackStep ==
  ASSUME TypeOK, HalfSet, LoadsOnTrack, [Next]_vars
  PROVE  LoadsOnTrack'
<1>1. CASE Over \/ UNCHANGED vars
  <2>1. UNCHANGED <<hookVars, loadVars, history, pc>>
    BY <1>1 DEF Over, vars
  <2>2. QED
    BY <2>1, SameConfiguration
    DEF LoadsOnTrack, OnTrack, Knows, Original, hookVars, loadVars, history
<1>2. ASSUME NEW t \in Threads, Wren(t)
      PROVE  LoadsOnTrack'
  BY <1>2, WrenKeepsTrack
<1>3. ASSUME NEW t \in Threads, Load(t)
      PROVE  LoadsOnTrack'
  BY <1>3, LoadType, LoadKeepsTrack
<1>4. QED
  BY <1>1, <1>2, <1>3 DEF Next

-----------------------------------------------------------------------------
(* The theorems. *)

\* The inductive invariant behind all of them.
HookInv == TypeOK /\ HalfSet /\ WrenIsSerial /\ DetourInv /\ LoadsOnTrack

LEMMA HookInvInit == Init => HookInv
<1> SUFFICES ASSUME Init PROVE HookInv
  OBVIOUS
<1>1. TypeOK
  BY AssetHooksAssumption DEF Init, TypeOK, Points
<1>2. HalfSet /\ WrenIsSerial /\ DetourInv
  BY AssetHooksAssumption
  DEF Init, HalfSet, NoSetting, WrenIsSerial, DetourInv, DetourComesBack, RemovedWhere
<1>3. LoadsOnTrack
  BY AssetHooksAssumption DEF Init, LoadsOnTrack, OnTrack, Knows, Searching, AskingHook, Kinds
<1>4. QED
  BY <1>1, <1>2, <1>3 DEF HookInv

LEMMA HookInvStep == HookInv /\ [Next]_vars => HookInv'
  BY TypeStep, SerialStep, DetourStep, TrackStep DEF HookInv

LEMMA HookInvHolds == Spec => []HookInv
  BY HookInvInit, HookInvStep, PTL DEF Spec

\* The variables keep their types; a hook never has two sources, although every
\* setter takes two steps.
THEOREM TypeCorrect == Spec => []TypeOK
<1>1. HookInv => TypeOK
  BY DEF HookInv
<1>2. QED
  BY <1>1, HookInvHolds, PTL

\* At most one thread is in the Wren VM, the one that holds its lock, and hooks
\* are changed by that thread only.
THEOREM WrenStaysSerial == Spec => []WrenIsSerial
<1>1. HookInv => WrenIsSerial
  BY DEF HookInv
<1>2. QED
  BY <1>1, HookInvHolds, PTL

\* However many hook_loads overlap or nest, exactly one of them is to put back
\* the detour that is out, and it does so before its load is over.
THEOREM DetourIsNeverLost == Spec => []DetourComesBack
<1>1. HookInv => DetourComesBack
  BY DEF HookInv, DetourInv
<1>2. QED
  BY <1>1, HookInvHolds, PTL

\* A load that came through the detour and whose hook no setter touched ends
\* as the hook says, whatever other threads do.
THEOREM LoadsEndAsConfigured == Spec => []SettledLoadsAsConfigured
<1>1. HookInv => SettledLoadsAsConfigured
  BY DEF HookInv, LoadsOnTrack, OnTrack, Knows, SettledLoadsAsConfigured
<1>2. QED
  BY <1>1, HookInvHolds, PTL

\* A step that crashes the game is a load's, in between whose reads of its hook
\* a setter came.
LEMMA CrashStep ==
  ASSUME HookInv, [Next]_vars, game' = "crashed", game # game'
  PROVE  \E t \in Threads : pc[t] \in {"open", "call"} /\ ~settled[t]
<1>1. PICK t \in Threads : OpenFile(t) \/ CallLoader(t)
  <2>1. ASSUME NEW t \in Threads, Wren(t)
        PROVE  FALSE
    BY <2>1
    DEF Wren, EnterWren, LeaveWren, SetSource, RegisterAssetHook, setFallback, ClearSources,
        WrenUnchanged
  <2>2. ASSUME NEW t \in Threads, Load(t), ~OpenFile(t), ~CallLoader(t)
        PROVE  FALSE
    BY <2>2
    DEF Load, TryOpen, Find, ReadSource, Break, LockWren, LoaderReturns, NotFound, CallOriginal,
        CheckLoaded, Loaded
  <2>3. QED
    BY <2>1, <2>2 DEF Next, Over, vars
<1>2. OnTrack(t) /\ pc[t] \in {"open", "call"}
  BY <1>1 DEF HookInv, LoadsOnTrack, OpenFile, CallLoader
<1>3. CASE OpenFile(t)
  BY <1>2, <1>3 DEF OpenFile, OnTrack, Knows
<1>4. CASE CallLoader(t)
  BY <1>2, <1>4 DEF CallLoader, OnTrack, Knows
<1>5. QED
  BY <1>1, <1>2, <1>3, <1>4

\* Setters are the only reason for which a load can crash the game.
THEOREM OnlySettersCrash == Spec => CrashNeedsSetter
<1>1. HookInv /\ [Next]_vars
      => [game' = "crashed" /\ game # game' =>
            \E t \in Threads : pc[t] \in {"open", "call"} /\ ~settled[t]]_vars
  BY CrashStep
<1>2. QED
  BY <1>1, HookInvHolds, PTL DEF Spec, CrashNeedsSetter
=============================================================================
