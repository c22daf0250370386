--------------------------- MODULE XmlTweaksProofs ----------------------------
(***************************************************************************)
(* Proofs about XmlTweaks, for any number of threads, files and addresses: *)
(* the lock of the virtual machine serialises the scripts although its     *)
(* callers come from two sides, no handle but those of failures is lost,   *)
(* every copy is freed once, the detour comes back, and a parse that       *)
(* nobody interfered with is rewritten as the file last loaded by name.    *)
(***************************************************************************)
EXTENDS XmlTweaks, TLAPS, FiniteSetTheorems

USE XmlTweaksAssumption

\* All of TypeOK but the range of handles, which takes the balance to show.
KindsOK ==
  /\ last_loaded \in Files \union {NoFile}
  /\ tweaker_enabled \in BOOLEAN
  /\ last_parsed \in Files \union {NoFile}
  /\ ignored_files \subseteq Files
  /\ buffers \subseteq Buffers
  /\ heap \subseteq Buffers
  /\ vm \in {"unborn", "ready", "unavailable"}
  /\ vm_mutex \in Threads \union {NoThread}
  /\ slot \in Threads \union {NoThread}
  /\ wren_exposed_objects \subseteq Objects
  /\ failures \in 0..MaxFailures
  /\ installed \in BOOLEAN
  /\ pc \in [Threads -> {"idle", "loaded", "hooked", "identify", "remember", "lock",
                         "tweak", "copy", "parse", "invoke", "invoking"}]
  /\ source \in [Threads -> Files \union {NoFile}]
  /\ file \in [Threads -> Files \union {NoFile}]
  /\ modded \in [Threads -> Buffers \union {Text}]
  /\ removed \in [Threads -> BOOLEAN]
  /\ told \in [Threads -> Files \union {NoFile}]
  /\ stale \in [Threads -> BOOLEAN]
  /\ settled \in [Threads -> BOOLEAN]
  /\ due \in [Threads -> BOOLEAN]

\* Only a parse that has been given its text can have a copy.
CopiedWhere == \A t \in Threads : modded[t] # Text => pc[t] = "parse"

\* What has become of the decision to rewrite a text that nobody interfered
\* with: it is still open, hangs on the exclusions, or is taken.
DecisionInv ==
  \A t \in Threads : settled[t] =>
    /\ pc[t] \in {"loaded", "hooked", "identify"} =>
         (due[t] <=> ToRewrite(last_loaded))
    /\ pc[t] = "remember" => (due[t] <=> ~Excluded(file[t]))
    /\ pc[t] \in {"lock", "tweak", "copy"} => due[t]
    /\ pc[t] \in {"tweak", "copy"} => told[t] = last_loaded
    /\ pc[t] \notin {"idle", "invoke", "invoking"} => source[t] \in {last_loaded, NoFile}

TweakInv == /\ KindsOK
            /\ OneScriptAtATime
            /\ DetourComesBack
            /\ EveryCopyHasOneReader
            /\ CopiedWhere
            /\ DecisionInv
            /\ SettledTextIsTakenForItself

LEMMA TweakInvInit == Init => TweakInv
<1> SUFFICES ASSUME Init PROVE TweakInv
  OBVIOUS
<1>1. EveryCopyHasOneReader
  BY DEF Init, EveryCopyHasOneReader
<1>. QED
  BY <1>1 DEF Init, TweakInv, KindsOK, OneScriptAtATime, RunsScript, DetourComesBack,
              CopiedWhere, DecisionInv, SettledTextIsTakenForItself

-----------------------------------------------------------------------------
(* One lemma for each part of the invariant. *)

LEMMA KindsNext == KindsOK /\ [Next]_vars => KindsOK'
<1> SUFFICES ASSUME KindsOK, [Next]_vars PROVE KindsOK'
  OBVIOUS
<1> USE DEF KindsOK, gameVars, tweakVars, vmVars, detourVars, history, Go, Unsettle, Forget
<1>1. ASSUME NEW t \in Threads, NEW f \in Files, Load(t, f) PROVE KindsOK'
  <2>1. settled' \in [Threads -> BOOLEAN] /\ due' \in [Threads -> BOOLEAN]
    BY <1>1 DEF Load, ToRewrite
  <2>. QED
    BY <1>1, <2>1 DEF Load
<1>2. ASSUME NEW t \in Threads, LoadFromFilesystem(t) PROVE KindsOK'
  <2>1. settled' \in [Threads -> BOOLEAN] /\ due' \in [Threads -> BOOLEAN]
    BY <1>2 DEF LoadFromFilesystem, ToRewrite
  <2>. QED
    BY <1>2, <2>1 DEF LoadFromFilesystem
<1>17. ASSUME NEW t \in Threads, NEW f \in Files, LoadUnparsed(t, f) PROVE KindsOK'
  <2>1. settled' \in [Threads -> BOOLEAN]
    BY <1>17 DEF LoadUnparsed
  <2>. QED
    BY <1>17, <2>1 DEF LoadUnparsed
<1>3. ASSUME NEW t \in Threads, EnterHook(t) \/ Bypass(t) PROVE KindsOK'
  BY <1>3 DEF EnterHook, Bypass
<1>4. ASSUME NEW t \in Threads, RemoveDetour(t) PROVE KindsOK'
  BY <1>4 DEF RemoveDetour
<1>5. ASSUME NEW t \in Threads, Identify(t) PROVE KindsOK'
  BY <1>5 DEF Identify
<1>6. ASSUME NEW t \in Threads, Remember(t) PROVE KindsOK'
  <2>1. settled' \in [Threads -> BOOLEAN]
    BY <1>6 DEF Remember
  <2>. QED
    BY <1>6, <2>1 DEF Remember
<1>7. ASSUME NEW t \in Threads, Transform(t) PROVE KindsOK'
  BY <1>7 DEF Transform
<1>8. ASSUME NEW t \in Threads, NoMachine(t) \/ TweakReturns(t) PROVE KindsOK'
  BY <1>8 DEF NoMachine, TweakReturns
<1>9. ASSUME NEW t \in Threads, TweakFails(t) PROVE KindsOK'
  BY <1>9 DEF TweakFails
<1>10. ASSUME NEW t \in Threads, NEW val \in BOOLEAN, SetTweakerEnabled(t, val) PROVE KindsOK'
  <2>1. settled' \in [Threads -> BOOLEAN]
    BY <1>10 DEF SetTweakerEnabled
  <2>. QED
    BY <1>10, <2>1 DEF SetTweakerEnabled
<1>11. ASSUME NEW t \in Threads, NEW o \in Objects, RegisterObject(t, o) \/ FindObject(t, o)
       PROVE KindsOK'
  BY <1>11 DEF RegisterObject, FindObject
<1>12. ASSUME NEW t \in Threads, NEW b \in Buffers, Copy(t, b) PROVE KindsOK'
  <2>1. stale' \in [Threads -> BOOLEAN]
    BY <1>12 DEF Copy
  <2>. QED
    BY <1>12, <2>1 DEF Copy, Registered
<1>13. ASSUME NEW t \in Threads, FreeText(t) PROVE KindsOK'
  <2>1. installed' \in BOOLEAN
    BY <1>13 DEF FreeText, PutBack
  <2>. QED
    BY <1>13, <2>1 DEF FreeText
<1>14. ASSUME NEW t \in Threads, Invoke(t) \/ InvokeReturns(t) PROVE KindsOK'
  BY <1>14 DEF Invoke, InvokeReturns
<1>15. ASSUME NEW f \in Files, IgnoreFile(f) PROVE KindsOK'
  <2>1. settled' \in [Threads -> BOOLEAN]
    BY <1>15 DEF IgnoreFile
  <2>. QED
    BY <1>15, <2>1 DEF IgnoreFile
<1>16. CASE UNCHANGED vars
  BY <1>16 DEF vars
<1>. QED
  BY <1>1, <1>2, <1>3, <1>4, <1>5, <1>6, <1>7, <1>8, <1>9, <1>10, <1>11, <1>12, <1>13,
     <1>14, <1>15, <1>16, <1>17
  DEF Next, ThreadNext

\* The lock is taken where nobody holds it; who returns is the one who holds it.
LEMMA SerialNext == KindsOK /\ OneScriptAtATime /\ [Next]_vars => OneScriptAtATime'
<1> SUFFICES ASSUME KindsOK, OneScriptAtATime, [Next]_vars PROVE OneScriptAtATime'
  OBVIOUS
<1> USE DEF KindsOK, OneScriptAtATime, RunsScript, Go, gameVars, tweakVars, vmVars,
            detourVars, history
<1>1. ASSUME NEW t \in Threads, NEW f \in Files, Load(t, f) PROVE OneScriptAtATime'
  BY <1>1 DEF Load
<1>11. ASSUME NEW t \in Threads, NEW f \in Files, LoadUnparsed(t, f) PROVE OneScriptAtATime'
  BY <1>11 DEF LoadUnparsed
<1>2. ASSUME NEW t \in Threads,
             LoadFromFilesystem(t) \/ EnterHook(t) \/ Bypass(t) \/ RemoveDetour(t)
             \/ Identify(t) \/ Remember(t) \/ NoMachine(t) \/ FreeText(t)
      PROVE  OneScriptAtATime'
  BY <1>2 DEF LoadFromFilesystem, EnterHook, Bypass, RemoveDetour, Identify, Remember,
         NoMachine, FreeText
<1>3. ASSUME NEW t \in Threads, NEW val \in BOOLEAN, SetTweakerEnabled(t, val)
      PROVE  OneScriptAtATime'
  BY <1>3 DEF SetTweakerEnabled
<1>4. ASSUME NEW t \in Threads, NEW o \in Objects, RegisterObject(t, o) \/ FindObject(t, o)
      PROVE  OneScriptAtATime'
  BY <1>4 DEF RegisterObject, FindObject
<1>5. ASSUME NEW t \in Threads, NEW b \in Buffers, Copy(t, b) PROVE OneScriptAtATime'
  BY <1>5 DEF Copy
<1>6. ASSUME NEW t \in Threads, Transform(t) PROVE OneScriptAtATime'
  BY <1>6 DEF Transform, Unlocked
<1>7. ASSUME NEW t \in Threads, Invoke(t) PROVE OneScriptAtATime'
  BY <1>7 DEF Invoke, Unlocked
<1>8. ASSUME NEW t \in Threads, TweakReturns(t) \/ TweakFails(t) \/ InvokeReturns(t)
      PROVE  OneScriptAtATime'
  BY <1>8 DEF TweakReturns, TweakFails, InvokeReturns
<1>9. ASSUME NEW f \in Files, IgnoreFile(f) PROVE OneScriptAtATime'
  BY <1>9 DEF IgnoreFile
<1>10. CASE UNCHANGED vars
  BY <1>10 DEF vars
<1> HIDE DEF KindsOK, OneScriptAtATime
<1>. QED
  BY <1>1, <1>2, <1>3, <1>4, <1>5, <1>6, <1>7, <1>8, <1>9, <1>10, <1>11
  DEF Next, ThreadNext

\* The detour is out from the one who takes it out to its FreeText.
LEMMA DetourNext == KindsOK /\ DetourComesBack /\ [Next]_vars => DetourComesBack'
<1> SUFFICES ASSUME KindsOK, DetourComesBack, [Next]_vars PROVE DetourComesBack'
  OBVIOUS
<1> USE DEF KindsOK, DetourComesBack, Go, gameVars, tweakVars, vmVars, detourVars,
            history
<1>1. ASSUME NEW t \in Threads, NEW f \in Files, Load(t, f) PROVE DetourComesBack'
  BY <1>1 DEF Load
<1>10. ASSUME NEW t \in Threads, NEW f \in Files, LoadUnparsed(t, f) PROVE DetourComesBack'
  BY <1>10 DEF LoadUnparsed
<1>2. ASSUME NEW t \in Threads,
             LoadFromFilesystem(t) \/ EnterHook(t) \/ Bypass(t) \/ Identify(t)
             \/ Remember(t) \/ Transform(t) \/ NoMachine(t) \/ TweakReturns(t)
             \/ TweakFails(t) \/ Invoke(t) \/ InvokeReturns(t)
      PROVE  DetourComesBack'
  BY <1>2 DEF LoadFromFilesystem, EnterHook, Bypass, Identify, Remember, Transform,
         NoMachine, TweakReturns, TweakFails, Invoke, InvokeReturns
<1>3. ASSUME NEW t \in Threads, NEW val \in BOOLEAN, SetTweakerEnabled(t, val)
      PROVE  DetourComesBack'
  BY <1>3 DEF SetTweakerEnabled
<1>4. ASSUME NEW t \in Threads, NEW o \in Objects, RegisterObject(t, o) \/ FindObject(t, o)
      PROVE  DetourComesBack'
  BY <1>4 DEF RegisterObject, FindObject
<1>5. ASSUME NEW t \in Threads, NEW b \in Buffers, Copy(t, b) PROVE DetourComesBack'
  BY <1>5 DEF Copy
<1>6. ASSUME NEW t \in Threads, RemoveDetour(t) PROVE DetourComesBack'
  BY <1>6 DEF RemoveDetour
<1>7. ASSUME NEW t \in Threads, FreeText(t) PROVE DetourComesBack'
  BY <1>7 DEF FreeText, PutBack
<1>8. ASSUME NEW f \in Files, IgnoreFile(f) PROVE DetourComesBack'
  BY <1>8 DEF IgnoreFile
<1>9. CASE UNCHANGED vars
  BY <1>9 DEF vars
<1> HIDE DEF KindsOK, DetourComesBack
<1>. QED
  BY <1>1, <1>2, <1>3, <1>4, <1>5, <1>6, <1>7, <1>8, <1>9, <1>10
  DEF Next, ThreadNext

\* A copy is made at an address that is free, by a thread that has none.
LEMMA CopiesKept ==
  ASSUME EveryCopyHasOneReader, CopiedWhere, UNCHANGED <<heap, buffers, modded>>,
         \A u \in Threads : pc[u] = "parse" => pc'[u] = "parse"
  PROVE  (EveryCopyHasOneReader /\ CopiedWhere)'
<1>1. EveryCopyHasOneReader'
  BY DEF EveryCopyHasOneReader
<1>2. CopiedWhere'
  BY DEF CopiedWhere
<1>. QED
  BY <1>1, <1>2

LEMMA CopiesNext ==
  KindsOK /\ EveryCopyHasOneReader /\ CopiedWhere /\ [Next]_vars
  => (EveryCopyHasOneReader /\ CopiedWhere)'
<1> SUFFICES ASSUME KindsOK, EveryCopyHasOneReader, CopiedWhere, [Next]_vars
             PROVE  (EveryCopyHasOneReader /\ CopiedWhere)'
  OBVIOUS
<1> USE DEF KindsOK, EveryCopyHasOneReader, CopiedWhere, Go, gameVars, tweakVars,
            vmVars, detourVars, history
<1>1. ASSUME NEW t \in Threads, NEW f \in Files, Load(t, f)
      PROVE  (EveryCopyHasOneReader /\ CopiedWhere)'
  <2>1. /\ UNCHANGED <<heap, buffers, modded>>
        /\ \A u \in Threads : pc[u] = "parse" => pc'[u] = "parse"
    BY <1>1 DEF Load
  <2>. QED
    BY <2>1, CopiesKept
<1>9. ASSUME NEW t \in Threads, NEW f \in Files, LoadUnparsed(t, f)
      PROVE  (EveryCopyHasOneReader /\ CopiedWhere)'
  <2>1. /\ UNCHANGED <<heap, buffers, modded>>
        /\ \A u \in Threads : pc[u] = "parse" => pc'[u] = "parse"
    BY <1>9 DEF LoadUnparsed
  <2>. QED
    BY <2>1, CopiesKept
<1>2. ASSUME NEW t \in Threads,
             LoadFromFilesystem(t) \/ EnterHook(t) \/ Bypass(t) \/ RemoveDetour(t)
             \/ Identify(t) \/ Remember(t) \/ Transform(t) \/ NoMachine(t)
             \/ TweakReturns(t) \/ TweakFails(t) \/ Invoke(t) \/ InvokeReturns(t)
      PROVE  (EveryCopyHasOneReader /\ CopiedWhere)'
  <2>1. /\ UNCHANGED <<heap, buffers, modded>>
        /\ \A u \in Threads : pc[u] = "parse" => pc'[u] = "parse"
    BY <1>2 DEF LoadFromFilesystem, EnterHook, Bypass, RemoveDetour, Identify, Remember,
           Transform, NoMachine, TweakReturns, TweakFails, Invoke, InvokeReturns
  <2>. QED
    BY <2>1, CopiesKept
<1>3. ASSUME NEW t \in Threads, NEW val \in BOOLEAN, SetTweakerEnabled(t, val)
      PROVE  (EveryCopyHasOneReader /\ CopiedWhere)'
  <2>1. /\ UNCHANGED <<heap, buffers, modded>>
        /\ \A u \in Threads : pc[u] = "parse" => pc'[u] = "parse"
    BY <1>3 DEF SetTweakerEnabled
  <2>. QED
    BY <2>1, CopiesKept
<1>4. ASSUME NEW t \in Threads, NEW o \in Objects, RegisterObject(t, o) \/ FindObject(t, o)
      PROVE  (EveryCopyHasOneReader /\ CopiedWhere)'
  <2>1. /\ UNCHANGED <<heap, buffers, modded>>
        /\ \A u \in Threads : pc[u] = "parse" => pc'[u] = "parse"
    BY <1>4 DEF RegisterObject, FindObject
  <2>. QED
    BY <2>1, CopiesKept
<1>5. ASSUME NEW t \in Threads, NEW b \in Buffers, Copy(t, b)
      PROVE  (EveryCopyHasOneReader /\ CopiedWhere)'
  <2>1. modded[t] = Text /\ b # Text
    BY <1>5 DEF Copy
  <2>2. \A u \in Threads : modded'[u] = IF u = t THEN b ELSE modded[u]
    BY <1>5 DEF Copy
  <2>3. heap' = heap \union {b} /\ buffers' = buffers \union {b}
    BY <1>5 DEF Copy, Registered
  <2>4. \A u \in Threads : modded[u] # b
    BY <1>5 DEF Copy
  <2>5. {modded'[u] : u \in Threads} \ {Text} = ({modded[u] : u \in Threads} \ {Text}) \union {b}
    BY <2>1, <2>2
  <2>. QED
    BY <1>5, <2>1, <2>2, <2>3, <2>4, <2>5 DEF Copy
<1>6. ASSUME NEW t \in Threads, FreeText(t) PROVE (EveryCopyHasOneReader /\ CopiedWhere)'
  <2>1. \A u \in Threads : modded'[u] = IF u = t THEN Text ELSE modded[u]
    BY <1>6 DEF FreeText
  <2>2. heap' = heap \ {modded[t]} /\ buffers' = buffers \ {modded[t]}
    BY <1>6 DEF FreeText
  <2>3. {modded'[u] : u \in Threads} \ {Text} = ({modded[u] : u \in Threads} \ {Text}) \ {modded[t]}
    BY <2>1
  <2>. QED
    BY <1>6, <2>1, <2>2, <2>3 DEF FreeText
<1>7. ASSUME NEW f \in Files, IgnoreFile(f) PROVE (EveryCopyHasOneReader /\ CopiedWhere)'
  <2>1. /\ UNCHANGED <<heap, buffers, modded>>
        /\ \A u \in Threads : pc[u] = "parse" => pc'[u] = "parse"
    BY <1>7 DEF IgnoreFile
  <2>. QED
    BY <2>1, CopiesKept
<1>8. CASE UNCHANGED vars
  <2>1. /\ UNCHANGED <<heap, buffers, modded>>
        /\ \A u \in Threads : pc[u] = "parse" => pc'[u] = "parse"
    BY <1>8 DEF vars
  <2>. QED
    BY <2>1, CopiesKept
<1> HIDE DEF KindsOK, EveryCopyHasOneReader, CopiedWhere
<1>. QED
  BY <1>1, <1>2, <1>3, <1>4, <1>5, <1>6, <1>7, <1>8, <1>9
  DEF Next, ThreadNext

\* Whoever could change the outcome for others unsettles them, so that a settled
\* parse sees its own steps only.
LEMMA DecisionNext ==
  /\ KindsOK /\ CopiedWhere
  /\ DecisionInv /\ SettledTextIsTakenForItself /\ [Next]_vars
  => (DecisionInv /\ SettledTextIsTakenForItself)'
<1> SUFFICES ASSUME KindsOK, CopiedWhere, DecisionInv, SettledTextIsTakenForItself,
                    [Next]_vars
             PROVE  (DecisionInv /\ SettledTextIsTakenForItself)'
  OBVIOUS
<1> USE DEF KindsOK, CopiedWhere, DecisionInv, SettledTextIsTakenForItself, Go,
            RunsScript, Others, Unsettle, Forget, Excluded, ToRewrite, SameFile, gameVars,
            tweakVars, vmVars, detourVars, history
<1>1. ASSUME NEW t \in Threads, NEW f \in Files, Load(t, f)
      PROVE  (DecisionInv /\ SettledTextIsTakenForItself)'
  BY <1>1 DEF Load
<1>21. ASSUME NEW t \in Threads, NEW f \in Files, LoadUnparsed(t, f)
      PROVE  (DecisionInv /\ SettledTextIsTakenForItself)'
  BY <1>21 DEF LoadUnparsed
<1>2. ASSUME NEW t \in Threads, LoadFromFilesystem(t)
      PROVE  (DecisionInv /\ SettledTextIsTakenForItself)'
  BY <1>2 DEF LoadFromFilesystem
<1>3. ASSUME NEW t \in Threads, EnterHook(t)
      PROVE  (DecisionInv /\ SettledTextIsTakenForItself)'
  BY <1>3 DEF EnterHook
<1>4. ASSUME NEW t \in Threads, Bypass(t)
      PROVE  (DecisionInv /\ SettledTextIsTakenForItself)'
  BY <1>4 DEF Bypass
<1>5. ASSUME NEW t \in Threads, RemoveDetour(t)
      PROVE  (DecisionInv /\ SettledTextIsTakenForItself)'
  BY <1>5 DEF RemoveDetour
<1>6. ASSUME NEW t \in Threads, Identify(t)
      PROVE  (DecisionInv /\ SettledTextIsTakenForItself)'
  BY <1>6 DEF Identify
<1>7. ASSUME NEW t \in Threads, Remember(t)
      PROVE  (DecisionInv /\ SettledTextIsTakenForItself)'
  <2>1. \A u \in Threads : settled'[u] => u = t /\ settled[u]
    BY <1>7 DEF Remember
  <2>. QED
    BY <1>7, <2>1 DEF Remember
<1>8. ASSUME NEW t \in Threads, Transform(t)
      PROVE  (DecisionInv /\ SettledTextIsTakenForItself)'
  BY <1>8 DEF Transform
<1>9. ASSUME NEW t \in Threads, NoMachine(t)
      PROVE  (DecisionInv /\ SettledTextIsTakenForItself)'
  BY <1>9 DEF NoMachine
<1>10. ASSUME NEW t \in Threads, TweakReturns(t)
       PROVE  (DecisionInv /\ SettledTextIsTakenForItself)'
  BY <1>10 DEF TweakReturns
<1>11. ASSUME NEW t \in Threads, TweakFails(t)
       PROVE  (DecisionInv /\ SettledTextIsTakenForItself)'
  BY <1>11 DEF TweakFails
<1>12. ASSUME NEW t \in Threads, NEW val \in BOOLEAN, SetTweakerEnabled(t, val)
       PROVE  (DecisionInv /\ SettledTextIsTakenForItself)'
  <2>1. \A u \in Threads : settled'[u] => u = t /\ settled[u]
    BY <1>12 DEF SetTweakerEnabled
  <2>. QED
    BY <1>12, <2>1 DEF SetTweakerEnabled
<1>13. ASSUME NEW t \in Threads, NEW o \in Objects, RegisterObject(t, o)
       PROVE  (DecisionInv /\ SettledTextIsTakenForItself)'
  BY <1>13 DEF RegisterObject
<1>14. ASSUME NEW t \in Threads, NEW b \in Buffers, Copy(t, b)
       PROVE  (DecisionInv /\ SettledTextIsTakenForItself)'
  BY <1>14 DEF Copy
<1>15. ASSUME NEW t \in Threads, FreeText(t)
       PROVE  (DecisionInv /\ SettledTextIsTakenForItself)'
  BY <1>15 DEF FreeText
<1>16. ASSUME NEW t \in Threads, NEW o \in Objects, FindObject(t, o)
       PROVE  (DecisionInv /\ SettledTextIsTakenForItself)'
  BY <1>16 DEF FindObject
<1>17. ASSUME NEW t \in Threads, Invoke(t)
       PROVE  (DecisionInv /\ SettledTextIsTakenForItself)'
  BY <1>17 DEF Invoke
<1>18. ASSUME NEW t \in Threads, InvokeReturns(t)
       PROVE  (DecisionInv /\ SettledTextIsTakenForItself)'
  BY <1>18 DEF InvokeReturns
<1>19. ASSUME NEW f \in Files, IgnoreFile(f) PROVE (DecisionInv /\ SettledTextIsTakenForItself)'
  BY <1>19 DEF IgnoreFile
<1>20. CASE UNCHANGED vars
  BY <1>20 DEF vars
<1> HIDE DEF KindsOK, CopiedWhere, DecisionInv, SettledTextIsTakenForItself
<1>. QED
  BY <1>1, <1>2, <1>3, <1>4, <1>5, <1>6, <1>7, <1>8, <1>9, <1>10, <1>11, <1>12, <1>13,
     <1>14, <1>15, <1>16, <1>17, <1>18, <1>19, <1>20, <1>21
  DEF Next, ThreadNext

-----------------------------------------------------------------------------
(* The balance of the handles. *)

Tweaking == {t \in Threads : pc[t] = "tweak"}
Invoking == {t \in Threads : pc[t] = "invoking"}

\* The three sets that handles are counted by are finite.
LEMMA CountedAreFinite ==
  ASSUME KindsOK
  PROVE  /\ IsFiniteSet(Tweaking) /\ Cardinality(Tweaking) \in Nat
         /\ IsFiniteSet(Invoking) /\ Cardinality(Invoking) \in Nat
         /\ IsFiniteSet(wren_exposed_objects) /\ Cardinality(wren_exposed_objects) \in Nat
<1>1. Tweaking \in SUBSET Threads /\ Invoking \in SUBSET Threads
  BY DEF Tweaking, Invoking
<1>2. wren_exposed_objects \in SUBSET Objects
  BY DEF KindsOK
<1>3. /\ IsFiniteSet(Tweaking)
      /\ IsFiniteSet(Invoking)
      /\ IsFiniteSet(wren_exposed_objects)
  BY <1>1, <1>2, FS_Subset
<1>. QED
  BY <1>3, FS_CardinalityType

Balance == handles = Cardinality(wren_exposed_objects) + 2 * failures
                     + 2 * Cardinality(Tweaking) + Cardinality(Invoking)

LEMMA BalanceMeaning == HandlesBalance <=> Balance
  BY DEF HandlesBalance, Balance, Tweaking, Invoking

\* A step that neither starts nor ends a call of Wren, nor registers an object.
LEMMA BalanceKept ==
  ASSUME Balance, UNCHANGED <<handles, wren_exposed_objects, failures, Tweaking, Invoking>>
  PROVE  Balance'
  BY DEF Balance

\* Who enters or leaves a call of Wren changes one of the sets by itself.
LEMMA BalanceNext == KindsOK /\ Balance /\ [Next]_vars => Balance'
<1> SUFFICES ASSUME KindsOK, Balance, [Next]_vars PROVE Balance'
  OBVIOUS
<1> USE DEF gameVars, tweakVars, vmVars, detourVars, history, Go
<1>0. failures \in Nat
  BY DEF KindsOK
<1>1. ASSUME NEW t \in Threads, NEW f \in Files, Load(t, f) PROVE Balance'
  <2>1. UNCHANGED <<handles, wren_exposed_objects, failures, Tweaking, Invoking>>
    BY <1>1 DEF KindsOK, Tweaking, Invoking,
           Load
  <2>. QED
    BY <2>1, BalanceKept
<1>14. ASSUME NEW t \in Threads, NEW f \in Files, LoadUnparsed(t, f) PROVE Balance'
  <2>1. UNCHANGED <<handles, wren_exposed_objects, failures, Tweaking, Invoking>>
    BY <1>14 DEF KindsOK, Tweaking, Invoking,
           LoadUnparsed
  <2>. QED
    BY <2>1, BalanceKept
<1>2. ASSUME NEW t \in Threads,
            LoadFromFilesystem(t) \/ EnterHook(t) \/ Bypass(t) \/ RemoveDetour(t)
            \/ Identify(t) \/ Remember(t) \/ NoMachine(t) \/ FreeText(t)
     PROVE  Balance'
  <2>1. UNCHANGED <<handles, wren_exposed_objects, failures, Tweaking, Invoking>>
    BY <1>2 DEF KindsOK, Tweaking, Invoking,
           LoadFromFilesystem, EnterHook, Bypass, RemoveDetour, Identify, Remember,
           NoMachine, FreeText
  <2>. QED
    BY <2>1, BalanceKept
<1>3. ASSUME NEW t \in Threads, NEW val \in BOOLEAN, SetTweakerEnabled(t, val)
      PROVE  Balance'
  <2>1. UNCHANGED <<handles, wren_exposed_objects, failures, Tweaking, Invoking>>
    BY <1>3 DEF KindsOK, Tweaking, Invoking,
           SetTweakerEnabled
  <2>. QED
    BY <2>1, BalanceKept
<1>4. ASSUME NEW t \in Threads, NEW b \in Buffers, Copy(t, b) PROVE Balance'
  <2>1. UNCHANGED <<handles, wren_exposed_objects, failures, Tweaking, Invoking>>
    BY <1>4 DEF KindsOK, Tweaking, Invoking,
           Copy
  <2>. QED
    BY <2>1, BalanceKept
<1>5. ASSUME NEW t \in Threads, NEW o \in Objects, FindObject(t, o) PROVE Balance'
  <2>1. UNCHANGED <<handles, wren_exposed_objects, failures, Tweaking, Invoking>>
    BY <1>5 DEF KindsOK, Tweaking, Invoking,
           FindObject
  <2>. QED
    BY <2>1, BalanceKept
<1>6. ASSUME NEW t \in Threads, Transform(t) PROVE Balance'
  <2>1. /\ t \notin Tweaking /\ Tweaking' = Tweaking \union {t}
        /\ UNCHANGED Invoking
    BY <1>6 DEF KindsOK, Tweaking, Invoking, Transform
  <2>2. Cardinality(Tweaking') = Cardinality(Tweaking) + 1
    BY <2>1, CountedAreFinite, FS_AddElement
  <2>. QED
    BY <1>0, <1>6, <2>1, <2>2, CountedAreFinite DEF Balance, Transform
<1>7. ASSUME NEW t \in Threads, TweakReturns(t) PROVE Balance'
  <2>1. /\ t \in Tweaking /\ Tweaking' = Tweaking \ {t}
        /\ UNCHANGED Invoking
    BY <1>7 DEF KindsOK, Tweaking, Invoking, TweakReturns
  <2>2. Cardinality(Tweaking') = Cardinality(Tweaking) - 1
    BY <2>1, CountedAreFinite, FS_RemoveElement
  <2>. QED
    BY <1>0, <1>7, <2>1, <2>2, CountedAreFinite DEF Balance, TweakReturns
<1>8. ASSUME NEW t \in Threads, TweakFails(t) PROVE Balance'
  <2>1. /\ t \in Tweaking /\ Tweaking' = Tweaking \ {t}
        /\ UNCHANGED Invoking
    BY <1>8 DEF KindsOK, Tweaking, Invoking, TweakFails
  <2>2. Cardinality(Tweaking') = Cardinality(Tweaking) - 1
    BY <2>1, CountedAreFinite, FS_RemoveElement
  <2>. QED
    BY <1>0, <1>8, <2>1, <2>2, CountedAreFinite DEF Balance, TweakFails
<1>9. ASSUME NEW t \in Threads, NEW o \in Objects, RegisterObject(t, o) PROVE Balance'
  <2>1. /\ /\ o \notin wren_exposed_objects
           /\ wren_exposed_objects' = wren_exposed_objects \union {o}
        /\ UNCHANGED <<Tweaking, Invoking>>
    BY <1>9 DEF KindsOK, Tweaking, Invoking, RegisterObject
  <2>2. Cardinality(wren_exposed_objects') = Cardinality(wren_exposed_objects) + 1
    BY <2>1, CountedAreFinite, FS_AddElement
  <2>. QED
    BY <1>0, <1>9, <2>1, <2>2, CountedAreFinite DEF Balance, RegisterObject
<1>10. ASSUME NEW t \in Threads, Invoke(t) PROVE Balance'
  <2>1. /\ t \notin Invoking /\ Invoking' = Invoking \union {t}
        /\ UNCHANGED Tweaking
    BY <1>10 DEF KindsOK, Tweaking, Invoking, Invoke
  <2>2. Cardinality(Invoking') = Cardinality(Invoking) + 1
    BY <2>1, CountedAreFinite, FS_AddElement
  <2>. QED
    BY <1>0, <1>10, <2>1, <2>2, CountedAreFinite DEF Balance, Invoke
<1>11. ASSUME NEW t \in Threads, InvokeReturns(t) PROVE Balance'
  <2>1. /\ t \in Invoking /\ Invoking' = Invoking \ {t}
        /\ UNCHANGED Tweaking
    BY <1>11 DEF KindsOK, Tweaking, Invoking, InvokeReturns, Released
  <2>2. Cardinality(Invoking') = Cardinality(Invoking) - 1
    BY <2>1, CountedAreFinite, FS_RemoveElement
  <2>. QED
    BY <1>0, <1>11, <2>1, <2>2, CountedAreFinite DEF Balance, InvokeReturns, Released
<1>12. ASSUME NEW f \in Files, IgnoreFile(f) PROVE Balance'
  <2>1. UNCHANGED <<handles, wren_exposed_objects, failures, Tweaking, Invoking>>
    BY <1>12 DEF Tweaking, Invoking, IgnoreFile
  <2>. QED
    BY <2>1, BalanceKept
<1>13. CASE UNCHANGED vars
  <2>1. UNCHANGED <<handles, wren_exposed_objects, failures, Tweaking, Invoking>>
    BY <1>13 DEF Tweaking, Invoking, vars
  <2>. QED
    BY <2>1, BalanceKept
<1>. QED
  BY <1>1, <1>2, <1>3, <1>4, <1>5, <1>6, <1>7, <1>8, <1>9, <1>10, <1>11, <1>12, <1>13, <1>14
  DEF Next, ThreadNext

-----------------------------------------------------------------------------
(* Theorems. *)

LEMMA TweakInvNext == TweakInv /\ [Next]_vars => TweakInv'
<1> SUFFICES ASSUME TweakInv, [Next]_vars PROVE TweakInv'
  OBVIOUS
<1>1. KindsOK' /\ OneScriptAtATime' /\ DetourComesBack'
  BY KindsNext, SerialNext, DetourNext DEF TweakInv
<1>2. (EveryCopyHasOneReader /\ CopiedWhere)'
  BY CopiesNext DEF TweakInv
<1>3. (DecisionInv /\ SettledTextIsTakenForItself)'
  BY DecisionNext DEF TweakInv
<1>. QED
  BY <1>1, <1>2, <1>3 DEF TweakInv

\* The seven parts together are an invariant.
LEMMA TweakInvariant == Spec => []TweakInv
  BY TweakInvInit, TweakInvNext, PTL DEF Spec

\* Scripts run one at a time, under the lock, and what a tweak leaves in slot 0
\* is its own when it returns (transform_file, wren_lua_invoke).
THEOREM ScriptsAreSerial == Spec => []OneScriptAtATime
<1>1. TweakInv => OneScriptAtATime
  BY DEF TweakInv
<1>. QED
  BY <1>1, TweakInvariant, PTL

\* The detour of node_from_xml is out exactly as long as the one thread that
\* has taken it out is in the hook.
THEOREM DetourIsPutBack == Spec => []DetourComesBack
<1>1. TweakInv => DetourComesBack
  BY DEF TweakInv
<1>. QED
  BY <1>1, TweakInvariant, PTL

\* The tweaker's texts are the ones being parsed, each by one thread, and all
\* of them will be found when they are to be freed.
THEOREM CopiesAreFreedOnce == Spec => []EveryCopyHasOneReader
<1>1. TweakInv => EveryCopyHasOneReader
  BY DEF TweakInv
<1>. QED
  BY <1>1, TweakInvariant, PTL

\* A parse that no other thread interfered with is rewritten exactly if the file
\* last loaded by name is to be, and under its name, which is the text's own
\* unless the text came from the filesystem.
THEOREM TextIsTakenForItself == Spec => []SettledTextIsTakenForItself
<1>1. TweakInv => SettledTextIsTakenForItself
  BY DEF TweakInv
<1>. QED
  BY <1>1, TweakInvariant, PTL

\* No handle but the two of each failed tweak outlives its use.
THEOREM HandlesAreBalanced == Spec => []HandlesBalance
<1>1. Init => Balance
  <2> SUFFICES ASSUME Init PROVE Balance
    OBVIOUS
  <2>1. wren_exposed_objects = {} /\ Tweaking = {} /\ Invoking = {}
    BY DEF Init, Tweaking, Invoking
  <2>. QED
    BY <2>1, FS_EmptySet DEF Init, Balance
<1>2. TweakInv => KindsOK
  BY DEF TweakInv
<1>3. KindsOK /\ Balance /\ [Next]_vars => Balance'
  BY BalanceNext
<1>4. HandlesBalance <=> Balance
  BY BalanceMeaning
<1>. QED
  BY <1>1, <1>2, <1>3, <1>4, TweakInvariant, PTL DEF Spec

\* The variables of XmlTweaks keep their types.
THEOREM TypeCorrect == Spec => []TypeOK
<1>1. TweakInv /\ HandlesBalance => TypeOK
  <2> SUFFICES ASSUME TweakInv, HandlesBalance PROVE TypeOK
    OBVIOUS
  <2>1. KindsOK
    BY DEF TweakInv
  <2>2. handles \in Nat
    BY <2>1, CountedAreFinite, BalanceMeaning DEF Balance, KindsOK
  <2>. QED
    BY <2>1, <2>2 DEF KindsOK, TypeOK
<1>. QED
  BY <1>1, TweakInvariant, HandlesAreBalanced, PTL
=============================================================================
