------------------------------ MODULE DllProofs -------------------------------
(***************************************************************************)
(* Proofs about the two components that live on loading and exchanging     *)
(* DLLs, which have no variable in common.                                 *)
(*                                                                         *)
(* NativePlugins, for any number of plugins and states and any depth of    *)
(* loading within loading: every plugin is set up in every state, at most  *)
(* once but for the nested ones, and a frame updates what it has to.       *)
(*                                                                         *)
(* Updater, for any number of processes and versions: whatever installers, *)
(* checks and starts do and wherever they end, a DLL that works stays      *)
(* within reach; what is installed was verified; and a start offers what   *)
(* its own check has found.                                                *)
(***************************************************************************)
EXTENDS NativePlugins, Updater, SequenceTheorems, TLAPS

USE NativePluginsAssumption

-----------------------------------------------------------------------------
(* The stack. *)

\* One more element before a sequence.
LEMMA OneBefore ==
  ASSUME NEW S, NEW x \in S, NEW s \in Seq(S)
  PROVE  /\ <<x>> \o s \in Seq(S)
         /\ Len(<<x>> \o s) = Len(s) + 1
         /\ (<<x>> \o s)[1] = x
         /\ \A i \in 1..Len(s) : (<<x>> \o s)[i + 1] = s[i]
<1>1. <<x>> \in Seq(S) /\ Len(<<x>>) = 1 /\ <<x>>[1] = x
  OBVIOUS
<1>2. /\ <<x>> \o s \in Seq(S)
      /\ Len(<<x>> \o s) = Len(<<x>>) + Len(s)
      /\ \A i \in 1..Len(<<x>>) + Len(s) :
           (<<x>> \o s)[i] = IF i <= Len(<<x>>) THEN <<x>>[i] ELSE s[i - Len(<<x>>)]
  BY <1>1, ConcatProperties, Zenon
<1>3. Len(s) \in Nat
  BY LenProperties
<1>. QED
  BY <1>1, <1>2, <1>3

\* What a step pushes is the innermost loop, and the others keep their order.
LEMMA Pushed ==
  ASSUME stack \in Seq(Loops), NEW pushed \in Loops, stack' = <<pushed>> \o stack
  PROVE  /\ stack' \in Seq(Loops)
         /\ Len(stack') = Len(stack) + 1
         /\ stack'[1] = pushed
         /\ \A i \in 1..Len(stack) : stack'[i + 1] = stack[i]
         /\ \A i \in 2..Len(stack') : stack'[i] = stack[i - 1]
<1>1. /\ stack' \in Seq(Loops)
      /\ Len(stack') = Len(stack) + 1
      /\ stack'[1] = pushed
      /\ \A i \in 1..Len(stack) : stack'[i + 1] = stack[i]
  BY OneBefore, SMTT(30)
<1>2. Len(stack) \in Nat
  BY LenProperties
<1>3. ASSUME NEW i \in 2..Len(stack') PROVE stack'[i] = stack[i - 1]
  <2>1. i - 1 \in 1..Len(stack) /\ i = (i - 1) + 1
    BY <1>1, <1>2
  <2>2. stack'[(i - 1) + 1] = stack[i - 1]
    BY <1>1, <2>1, Zenon
  <2>. QED
    BY <2>1, <2>2
<1>. QED
  BY <1>1, <1>3

\* The loop that goes on is the innermost one.
LEMMA WentOn ==
  ASSUME stack \in Seq(Loops), stack # <<>>, NEW next \in Loops, GoOn(next)
  PROVE  /\ stack' \in Seq(Loops)
         /\ Len(stack') = Len(stack)
         /\ stack'[1] = next
         /\ \A i \in 2..Len(stack) : stack'[i] = stack[i]
<1>1. /\ Tail(stack) \in Seq(Loops)
      /\ Len(Tail(stack)) = Len(stack) - 1
      /\ \A i \in 1..Len(Tail(stack)) : Tail(stack)[i] = stack[i + 1]
  BY HeadTailProperties
<1>2. stack' = <<next>> \o Tail(stack)
  BY DEF GoOn
<1>3. /\ <<next>> \o Tail(stack) \in Seq(Loops)
      /\ Len(<<next>> \o Tail(stack)) = Len(Tail(stack)) + 1
      /\ (<<next>> \o Tail(stack))[1] = next
      /\ \A i \in 1..Len(Tail(stack)) : (<<next>> \o Tail(stack))[i + 1] = Tail(stack)[i]
  <2>1. Tail(stack) \in Seq(Loops)
    BY <1>1
  <2>. QED
    BY <2>1, OneBefore, SMTT(30)
<1>4. Len(stack) \in Nat \ {0}
  BY EmptySeq
<1>5. ASSUME NEW i \in 2..Len(stack) PROVE stack'[i] = stack[i]
  <2>1. i - 1 \in 1..Len(Tail(stack)) /\ i = (i - 1) + 1
    BY <1>1, <1>4
  <2>2. stack'[(i - 1) + 1] = Tail(stack)[i - 1] /\ Tail(stack)[i - 1] = stack[(i - 1) + 1]
    BY <1>1, <1>2, <1>3, <2>1, Zenon
  <2>. QED
    BY <2>1, <2>2
<1>6. stack' \in Seq(Loops) /\ stack'[1] = next
  BY <1>2, <1>3
<1>7. Len(stack') = Len(stack)
  BY <1>1, <1>2, <1>3, <1>4
<1>. QED
  BY <1>5, <1>6, <1>7

LEMMA Ended ==
  ASSUME stack \in Seq(Loops), stack # <<>>, End
  PROVE  /\ stack' \in Seq(Loops)
         /\ Len(stack') = Len(stack) - 1
         /\ \A i \in 1..Len(stack') : stack'[i] = stack[i + 1]
  BY HeadTailProperties DEF End

\* The innermost loop.
LEMMA TopIsFirst ==
  ASSUME stack \in Seq(Loops), stack # <<>>
  PROVE  Top = stack[1] /\ Top \in Loops /\ Len(stack) \in Nat \ {0}
  BY EmptySeq, ElementOfSeq DEF Top

-----------------------------------------------------------------------------
(* The lists and the loops. *)

\* All of TypeOK but the numbers of setups and the histories of frames.
ListsOK == /\ activeStates \in Seq(VMs)
           /\ plugins_list \in Seq(Files)
           /\ stack \in Seq(Loops)

InBounds == \A i \in 1..Len(stack) : /\ stack[i].s \in 1..Len(activeStates) + 1
                                     /\ stack[i].p \in 1..Len(plugins_list) + 1

HistoryOK == /\ setups \in [VMs -> [Files -> Nat]]
             /\ updated \subseteq VMs \X Files
             /\ present \subseteq Files
             /\ nested \subseteq VMs \X Files
             /\ skipped \subseteq VMs \X Files

\* Neither list has an element twice.
NoDuplicates ==
  /\ \A i, j \in 1..Len(activeStates) : activeStates[i] = activeStates[j] => i = j
  /\ \A i, j \in 1..Len(plugins_list) : plugins_list[i] = plugins_list[j] => i = j

\* Only the outermost loop can be one of initiate_lua or update; all but the
\* innermost are inside a call; and each loop of LoadPlugin has a plugin of its
\* own.
StackShape ==
  /\ \A i \in 1..Len(stack) :
       /\ i < Len(stack) => stack[i].loop = "register"
       /\ i > 1 => stack[i].inside # NoVM
       /\ stack[i].loop = "initiate" => stack[i].s <= Len(activeStates)
       /\ stack[i].loop = "register" => stack[i].p <= Len(plugins_list)
  /\ \A i, j \in 1..Len(stack) :
       stack[i].loop = "register" /\ stack[j].loop = "register" /\ stack[i].p = stack[j].p
       => i = j

Placed == ListsOK /\ InBounds /\ NoDuplicates /\ StackShape

LEMMA PlacedWhenGoingOn ==
  ASSUME Placed, stack # <<>>, UNCHANGED lists, NEW next \in Loops, GoOn(next),
         next.s \in 1..Len(activeStates) + 1, next.p \in 1..Len(plugins_list) + 1,
         next.loop = Top.loop \/ (Top.loop # "register" /\ next.loop = "base"),
         next.loop = "initiate" => next.s <= Len(activeStates),
         next.loop = "register" => next.p = Top.p
  PROVE  Placed'
<1>1. /\ stack' \in Seq(Loops)
      /\ Len(stack') = Len(stack)
      /\ stack'[1] = next
      /\ \A i \in 2..Len(stack) : stack'[i] = stack[i]
  BY WentOn DEF Placed, ListsOK
<1>2. Top = stack[1] /\ Len(stack) \in Nat \ {0}
  BY TopIsFirst DEF Placed, ListsOK
<1>3. ListsOK' /\ NoDuplicates'
  BY <1>1 DEF Placed, ListsOK, NoDuplicates, lists
<1>4. InBounds'
  BY <1>1, <1>2 DEF Placed, InBounds, lists
<1>5. StackShape'
  BY <1>1, <1>2 DEF Placed, StackShape, lists
<1>. QED
  BY <1>3, <1>4, <1>5 DEF Placed

LEMMA PlacedWhenEnding ==
  ASSUME Placed, stack # <<>>, UNCHANGED lists, End
  PROVE  Placed'
<1>1. /\ stack' \in Seq(Loops)
      /\ Len(stack') = Len(stack) - 1
      /\ \A i \in 1..Len(stack') : stack'[i] = stack[i + 1]
  BY Ended DEF Placed, ListsOK
<1>2. Len(stack) \in Nat \ {0}
  BY TopIsFirst DEF Placed, ListsOK
<1>3. ListsOK' /\ NoDuplicates'
  BY <1>1 DEF Placed, ListsOK, NoDuplicates, lists
<1>4. InBounds'
  <2>1. ASSUME NEW i \in 1..Len(stack')
        PROVE  /\ stack'[i].s \in 1..Len(activeStates) + 1
               /\ stack'[i].p \in 1..Len(plugins_list) + 1
    <3>1. i + 1 \in 1..Len(stack)
      BY <1>1, <1>2
    <3>2. stack'[i] = stack[i + 1]
      BY <1>1
    <3>. QED
      BY <3>1, <3>2 DEF Placed, InBounds
  <2>. QED
    BY <2>1 DEF InBounds, lists
<1>5. StackShape'
  <2>1. ASSUME NEW i \in 1..Len(stack')
        PROVE  /\ i < Len(stack') => stack'[i].loop = "register"
               /\ i > 1 => stack'[i].inside # NoVM
               /\ stack'[i].loop = "initiate" => stack'[i].s <= Len(activeStates)
               /\ stack'[i].loop = "register" => stack'[i].p <= Len(plugins_list)
    <3>1. i + 1 \in 1..Len(stack) /\ i + 1 > 1 /\ (i < Len(stack') => i + 1 < Len(stack))
      BY <1>1, <1>2
    <3>2. stack'[i] = stack[i + 1]
      BY <1>1
    <3>. QED
      BY <3>1, <3>2 DEF Placed, StackShape
  <2>2. ASSUME NEW i \in 1..Len(stack'), NEW j \in 1..Len(stack'),
               stack'[i].loop = "register", stack'[j].loop = "register",
               stack'[i].p = stack'[j].p
        PROVE  i = j
    <3>1. i + 1 \in 1..Len(stack) /\ j + 1 \in 1..Len(stack)
      BY <1>1, <1>2
    <3>2. stack'[i] = stack[i + 1] /\ stack'[j] = stack[j + 1]
      BY <1>1
    <3>3. i + 1 = j + 1
      BY <2>2, <3>1, <3>2 DEF Placed, StackShape
    <3>. QED
      BY <3>3
  <2>. QED
    BY <2>1, <2>2 DEF StackShape, lists
<1>. QED
  BY <1>3, <1>4, <1>5 DEF Placed

\* A loop that begins where there is none.
LEMMA PlacedAtFirst ==
  ASSUME stack = <<>>, NEW pushed \in Loops, stack' = <<pushed>> \o stack,
         (activeStates \in Seq(VMs) /\ plugins_list \in Seq(Files) /\ NoDuplicates)',
         pushed.s \in 1..Len(activeStates') + 1, pushed.p \in 1..Len(plugins_list') + 1,
         pushed.loop = "initiate" => pushed.s <= Len(activeStates'), pushed.loop # "register"
  PROVE  Placed'
<1>1. stack \in Seq(Loops) /\ Len(stack) = 0
  BY EmptySeq
<1>2. stack' \in Seq(Loops) /\ Len(stack') = 1 /\ stack'[1] = pushed
  BY <1>1, Pushed
<1>3. InBounds' /\ StackShape'
  BY <1>2 DEF InBounds, StackShape
<1>. QED
  BY <1>2, <1>3 DEF Placed, ListsOK

\* LoadPlugin's loop is for a plugin that no other loop has.
LEMMA PlacedWhenLoading ==
  ASSUME Placed, NEW f \in Files, LoadPlugin(f)
  PROVE  Placed'
<1> DEFINE pushed == [loop |-> "register", s |-> 1, p |-> Len(plugins_list) + 1, inside |-> NoVM]
<1>1. /\ plugins_list' \in Seq(Files)
      /\ Len(plugins_list') = Len(plugins_list) + 1
      /\ \A i \in 1..Len(plugins_list) : plugins_list'[i] = plugins_list[i]
      /\ plugins_list'[Len(plugins_list) + 1] = f
  BY AppendProperties DEF LoadPlugin, Placed, ListsOK
<1>2. Len(plugins_list) \in Nat /\ Len(activeStates) \in Nat /\ Len(stack) \in Nat
  BY LenProperties DEF Placed, ListsOK
<1>3. pushed \in Loops
  BY <1>2 DEF Loops
<1>4. stack' = <<pushed>> \o stack
  BY DEF LoadPlugin, Begin
<1>5. /\ stack' \in Seq(Loops)
      /\ Len(stack') = Len(stack) + 1
      /\ stack'[1] = pushed
      /\ \A i \in 2..Len(stack') : stack'[i] = stack[i - 1]
  <2> HIDE DEF pushed
  <2>. QED
    BY <1>3, <1>4, Pushed DEF Placed, ListsOK
<1>6. stack # <<>> => stack[1].inside # NoVM
  BY TopIsFirst DEF LoadPlugin, CodeRuns, Placed, ListsOK
<1>7. \A i \in 1..Len(plugins_list) : plugins_list[i] # f
  BY LenProperties DEF LoadPlugin, IsNew, Range, Placed, ListsOK
<1>8. NoDuplicates'
  BY <1>1, <1>2, <1>7 DEF LoadPlugin, Placed, NoDuplicates
<1>9. ListsOK' /\ InBounds'
  <2>1. ASSUME NEW i \in 1..Len(stack')
        PROVE  /\ stack'[i].s \in 1..Len(activeStates) + 1
               /\ stack'[i].p \in 1..Len(plugins_list') + 1
    <3>1. CASE i = 1
      BY <1>1, <1>2, <1>5, <3>1
    <3>2. CASE i # 1
      <4>1. i \in 2..Len(stack') /\ i - 1 \in 1..Len(stack)
        BY <1>2, <1>5, <3>2
      <4>2. /\ stack[i - 1].s \in 1..Len(activeStates) + 1
            /\ stack[i - 1].p \in 1..Len(plugins_list) + 1
        BY <4>1 DEF Placed, InBounds
      <4>. QED
        BY <1>1, <1>2, <1>5, <4>1, <4>2
    <3>. QED
      BY <3>1, <3>2
  <2>2. activeStates' = activeStates
    BY DEF LoadPlugin
  <2>. QED
    BY <1>1, <1>5, <2>1, <2>2 DEF Placed, ListsOK, InBounds
<1>10. StackShape'
  <2>1. \A i \in 2..Len(stack') :
          /\ i - 1 \in 1..Len(stack)
          /\ stack'[i] = stack[i - 1]
          /\ stack[i - 1].loop = "register" => stack[i - 1].p <= Len(plugins_list)
    BY <1>2, <1>5 DEF Placed, StackShape
  <2>2. ASSUME NEW i \in 1..Len(stack')
        PROVE  /\ i < Len(stack') => stack'[i].loop = "register"
               /\ i > 1 => stack'[i].inside # NoVM
               /\ stack'[i].loop = "initiate" => stack'[i].s <= Len(activeStates)
               /\ stack'[i].loop = "register" => stack'[i].p <= Len(plugins_list')
    <3>1. CASE i = 1
      BY <1>1, <1>2, <1>5, <3>1
    <3>2. CASE i # 1
      <4>1. i \in 2..Len(stack')
        BY <3>2
      <4>2. stack # <<>>
        BY <1>2, <2>1, <4>1, EmptySeq
      <4>3. i < Len(stack') => stack[i - 1].loop = "register"
        BY <1>2, <1>5, <2>1, <4>1 DEF Placed, StackShape
      <4>4. stack[i - 1].inside # NoVM
        BY <1>2, <1>6, <2>1, <4>1, <4>2 DEF Placed, StackShape
      <4>5. stack[i - 1].loop = "initiate" => stack[i - 1].s <= Len(activeStates)
        BY <2>1, <4>1 DEF Placed, StackShape
      <4>6. stack[i - 1].loop = "register" => stack[i - 1].p <= Len(plugins_list')
        <5>1. stack[i - 1].p \in Nat
          BY <1>2, <2>1, <4>1 DEF Placed, InBounds
        <5>. QED
          BY <1>1, <1>2, <2>1, <4>1, <5>1
      <4>. QED
        BY <2>1, <4>1, <4>3, <4>4, <4>5, <4>6
    <3>. QED
      BY <3>1, <3>2
  <2>3. ASSUME NEW i \in 1..Len(stack'), NEW j \in 1..Len(stack'),
               stack'[i].loop = "register", stack'[j].loop = "register",
               stack'[i].p = stack'[j].p
        PROVE  i = j
    <3>1. CASE i = 1 /\ j = 1
      BY <3>1
    <3>2. CASE i = 1 /\ j # 1
      <4>1. stack'[j].p <= Len(plugins_list) /\ stack'[i].p = Len(plugins_list) + 1
        BY <1>5, <2>1, <2>3, <3>2
      <4>. QED
        BY <1>2, <2>3, <4>1
    <3>3. CASE i # 1 /\ j = 1
      <4>1. stack'[i].p <= Len(plugins_list) /\ stack'[j].p = Len(plugins_list) + 1
        BY <1>5, <2>1, <2>3, <3>3
      <4>. QED
        BY <1>2, <2>3, <4>1
    <3>4. CASE i # 1 /\ j # 1
      <4>1. i \in 2..Len(stack') /\ j \in 2..Len(stack')
        BY <3>4
      <4>2. i - 1 = j - 1
        BY <2>1, <2>3, <4>1 DEF Placed, StackShape
      <4>. QED
        BY <4>2
    <3>. QED
      BY <3>1, <3>2, <3>3, <3>4
  <2>. QED
    BY <2>2, <2>3 DEF StackShape, LoadPlugin
<1>. QED
  BY <1>8, <1>9, <1>10 DEF Placed

\* What a loop that is between two calls knows of its place.
LEMMA InnermostPlace ==
  ASSUME Placed, stack # <<>>
  PROVE  /\ Top = stack[1]
         /\ Top \in Loops
         /\ Top.s \in 1..Len(activeStates) + 1 /\ Top.p \in 1..Len(plugins_list) + 1
         /\ Top.loop = "initiate" => Top.s \in 1..Len(activeStates)
         /\ Top.loop = "register" => Top.p \in 1..Len(plugins_list)
         /\ Len(activeStates) \in Nat /\ Len(plugins_list) \in Nat
         /\ Len(stack) \in Nat \ {0}
<1>1. Top = stack[1] /\ Top \in Loops /\ Len(stack) \in Nat \ {0}
  BY TopIsFirst DEF Placed, ListsOK
<1>2. Len(activeStates) \in Nat /\ Len(plugins_list) \in Nat
  BY LenProperties DEF Placed, ListsOK
<1>3. /\ Top.s \in 1..Len(activeStates) + 1 /\ Top.p \in 1..Len(plugins_list) + 1
      /\ Top.loop = "initiate" => Top.s <= Len(activeStates)
      /\ Top.loop = "register" => Top.p <= Len(plugins_list)
  BY <1>1 DEF Placed, InBounds, StackShape
<1>. QED
  BY <1>1, <1>2, <1>3

\* A closed state leaves the others in their order.
LEMMA ClosedList ==
  ASSUME Placed, NEW v \in VMs, Close(v)
  PROVE  /\ activeStates' \in Seq(VMs)
         /\ \E g \in [1..Len(activeStates') -> 1..Len(activeStates)] :
              /\ \A j \in 1..Len(activeStates') : activeStates'[j] = activeStates[g[j]]
              /\ \A j, k \in 1..Len(activeStates') : g[j] = g[k] => j = k
<1>1. PICK i \in DOMAIN activeStates :
         activeStates' = SubSeq(activeStates, 1, i - 1)
                         \o SubSeq(activeStates, i + 1, Len(activeStates))
  BY DEF Close
<1>2. Len(activeStates) \in Nat /\ i \in 1..Len(activeStates)
  BY <1>1, LenProperties DEF Placed, ListsOK
<1>3. /\ SubSeq(activeStates, 1, i - 1) \in Seq(VMs)
      /\ Len(SubSeq(activeStates, 1, i - 1)) = i - 1
      /\ \A j \in 1..i - 1 : SubSeq(activeStates, 1, i - 1)[j] = activeStates[j]
  <2>1. \A j \in 1..i - 1 : activeStates[j] \in VMs
    BY <1>2, ElementOfSeq DEF Placed, ListsOK
  <2>. QED
    BY <1>2, <2>1, SubSeqProperties
<1>4. /\ SubSeq(activeStates, i + 1, Len(activeStates)) \in Seq(VMs)
      /\ Len(SubSeq(activeStates, i + 1, Len(activeStates))) = Len(activeStates) - i
      /\ \A j \in 1..Len(activeStates) - i :
           SubSeq(activeStates, i + 1, Len(activeStates))[j] = activeStates[i + j]
  <2>1. \A j \in i + 1..Len(activeStates) : activeStates[j] \in VMs
    BY <1>2, ElementOfSeq DEF Placed, ListsOK
  <2>. QED
    BY <1>2, <2>1, SubSeqProperties
<1>5. /\ activeStates' \in Seq(VMs)
      /\ Len(activeStates') = Len(activeStates) - 1
      /\ \A j \in 1..Len(activeStates) - 1 :
           activeStates'[j] = IF j <= i - 1 THEN activeStates[j] ELSE activeStates[j + 1]
  <2> DEFINE a == SubSeq(activeStates, 1, i - 1)
             b == SubSeq(activeStates, i + 1, Len(activeStates))
  <2>1. /\ a \o b \in Seq(VMs)
        /\ Len(a \o b) = Len(a) + Len(b)
        /\ \A j \in 1..Len(a) + Len(b) :
             (a \o b)[j] = IF j <= Len(a) THEN a[j] ELSE b[j - Len(a)]
    <3> HIDE DEF a, b
    <3>. QED
      BY <1>3, <1>4, ConcatProperties, Zenon DEF a, b
  <2>2. activeStates' = a \o b
    BY <1>1
  <2>3. /\ Len(a) = i - 1 /\ \A j \in 1..i - 1 : a[j] = activeStates[j]
        /\ Len(b) = Len(activeStates) - i
        /\ \A j \in 1..Len(activeStates) - i : b[j] = activeStates[i + j]
    BY <1>3, <1>4
  <2> HIDE DEF a, b
  <2>4. ASSUME NEW j \in 1..Len(activeStates) - 1
        PROVE  activeStates'[j] = IF j <= i - 1 THEN activeStates[j] ELSE activeStates[j + 1]
    <3>1. CASE j <= i - 1
      <4>1. j \in 1..Len(a) + Len(b) /\ j <= Len(a) /\ j \in 1..i - 1
        BY <1>2, <2>3, <3>1
      <4>2. (a \o b)[j] = a[j] /\ a[j] = activeStates[j]
        BY <2>1, <2>3, <4>1
      <4>. QED
        BY <2>2, <3>1, <4>2
    <3>2. CASE ~(j <= i - 1)
      <4>1. j - (i - 1) \in 1..Len(activeStates) - i /\ i + (j - (i - 1)) = j + 1
        BY <1>2, <3>2
      <4>2. b[j - (i - 1)] = activeStates[i + (j - (i - 1))]
        BY <2>3, <4>1
      <4>3. j \in 1..Len(a) + Len(b) /\ ~(j <= Len(a)) /\ j - Len(a) = j - (i - 1)
        BY <1>2, <2>3, <3>2
      <4>4. (a \o b)[j] = b[j - Len(a)]
        BY <2>1, <4>3
      <4>. QED
        BY <2>2, <3>2, <4>1, <4>2, <4>3, <4>4
    <3>. QED
      BY <3>1, <3>2
  <2>5. Len(activeStates') = Len(activeStates) - 1
    <3>1. Len(activeStates') = Len(a) + Len(b)
      BY <2>1, <2>2
    <3>. QED
      BY <1>2, <2>3, <3>1
  <2>6. activeStates' \in Seq(VMs)
    BY <2>1, <2>2
  <2>. QED
    BY <2>4, <2>5, <2>6
<1> DEFINE g == [j \in 1..Len(activeStates') |-> IF j <= i - 1 THEN j ELSE j + 1]
<1>6. /\ g \in [1..Len(activeStates') -> 1..Len(activeStates)]
      /\ \A j \in 1..Len(activeStates') : activeStates'[j] = activeStates[g[j]]
      /\ \A j, k \in 1..Len(activeStates') : g[j] = g[k] => j = k
  BY <1>2, <1>5
<1> HIDE DEF g
<1>. QED
  BY <1>5, <1>6

\* The actions that let the innermost loop go on, with what it goes on as.
LEMMA PlacedAfterStep ==
  ASSUME Placed,
         Return \/ InitiatePlugin \/ InitiateBase \/ InitiateEnds \/ RegisterState
           \/ SetupRaises \/ RegisterEnds \/ UpdatePlugin \/ UpdateState \/ UpdateEnds
  PROVE  Placed'
<1>1. stack # <<>> /\ UNCHANGED lists
  BY DEF Return, InitiatePlugin, InitiateBase, InitiateEnds, RegisterState, SetupRaises,
         RegisterEnds, UpdatePlugin, UpdateState, UpdateEnds, Looping, lists
<1>2. /\ Top \in Loops
      /\ Top.s \in 1..Len(activeStates) + 1 /\ Top.p \in 1..Len(plugins_list) + 1
      /\ Top.loop = "initiate" => Top.s \in 1..Len(activeStates)
      /\ Top.loop = "register" => Top.p \in 1..Len(plugins_list)
      /\ Len(activeStates) \in Nat /\ Len(plugins_list) \in Nat
  BY <1>1, InnermostPlace
<1>3. /\ \A k \in 1..Len(activeStates) : activeStates[k] \in VMs
      /\ activeStates \in Seq(VMs)
  BY ElementOfSeq DEF Placed, ListsOK
<1>0. Top.p + 1 \in Nat /\ Top.s + 1 \in Nat
  BY <1>2
<1>4. CASE End
  BY <1>1, <1>4, PlacedWhenEnding
<1>5. ASSUME NEW next \in Loops, GoOn(next),
             next.s \in 1..Len(activeStates) + 1, next.p \in 1..Len(plugins_list) + 1,
             next.loop = Top.loop \/ (Top.loop # "register" /\ next.loop = "base"),
             next.loop = "initiate" => next.s <= Len(activeStates),
             next.loop = "register" => next.p = Top.p
      PROVE  Placed'
  BY <1>1, <1>5, PlacedWhenGoingOn
<1>6. CASE Return
  <2>1. [Top EXCEPT !.inside = NoVM] \in Loops
    BY <1>2 DEF Loops
  <2>2. GoOn([Top EXCEPT !.inside = NoVM])
    BY <1>6 DEF Return
  <2>. QED
    BY <1>2, <1>5, <2>1, <2>2 DEF Loops
<1>7. CASE InitiatePlugin
  <2> DEFINE next == [[Top EXCEPT !.p = @ + 1] EXCEPT !.inside = activeStates[Top.s]]
  <2>1. GoOn(next) /\ Top.loop = "initiate" /\ Top.p <= Len(plugins_list)
    BY <1>7 DEF InitiatePlugin, AddToState, Looping, PluginsLeft
  <2>2. /\ next \in Loops /\ next.loop = "initiate"
        /\ next.s = Top.s /\ next.p = Top.p + 1
    BY <1>0, <1>2, <1>3, <2>1 DEF Loops
  <2> HIDE DEF next
  <2>. QED
    BY <1>2, <1>5, <2>1, <2>2
<1>8. CASE InitiateBase
  <2> DEFINE next == [Top EXCEPT !.loop = "base", !.inside = activeStates[Top.s]]
  <2>1. End \/ GoOn(next)
    BY <1>8 DEF InitiateBase
  <2>2. Top.loop = "initiate"
    BY <1>8 DEF InitiateBase, Looping
  <2>3. next \in Loops /\ next.loop = "base" /\ next.s = Top.s /\ next.p = Top.p
    BY <1>2, <1>3, <2>2 DEF Loops
  <2> HIDE DEF next
  <2>. QED
    BY <1>2, <1>4, <1>5, <2>1, <2>2, <2>3
<1>9. CASE RegisterState
  <2> DEFINE next == [[Top EXCEPT !.s = @ + 1] EXCEPT !.inside = activeStates[Top.s]]
  <2>1. GoOn(next) /\ Top.loop = "register" /\ Top.s <= Len(activeStates)
    BY <1>9 DEF RegisterState, AddToState, Looping, StatesLeft
  <2>2. activeStates[Top.s] \in VMs
    BY <1>2, <1>3, <2>1
  <2>3. [Top EXCEPT !.s = @ + 1] \in Loops
    BY <1>0, <1>2 DEF Loops
  <2>4. /\ next \in Loops /\ next.loop = "register"
        /\ next.s = Top.s + 1 /\ next.p = Top.p
    BY <1>0, <1>2, <2>1, <2>2, <2>3 DEF Loops
  <2> HIDE DEF next
  <2>. QED
    BY <1>2, <1>5, <2>1, <2>4
<1>10. CASE UpdatePlugin
  <2>1. PICK v \in VMs \union {NoVM} : GoOn([Top EXCEPT !.p = @ + 1, !.inside = v])
    <3>1. activeStates[Top.s] \in VMs
      BY <1>2, <1>3, <1>10 DEF UpdatePlugin, StatesLeft
    <3>2. GoOn([Top EXCEPT !.p = @ + 1,
                           !.inside = IF plugins_list[Top.p] \in Updaters
                                      THEN activeStates[Top.s] ELSE NoVM])
      BY <1>10 DEF UpdatePlugin
    <3>. QED
      BY <3>1, <3>2
  <2> DEFINE next == [Top EXCEPT !.p = @ + 1, !.inside = v]
  <2>2. Top.loop = "update" /\ Top.p <= Len(plugins_list)
    BY <1>10 DEF UpdatePlugin, Looping, PluginsLeft
  <2>3. next \in Loops /\ next.loop = "update" /\ next.s = Top.s /\ next.p = Top.p + 1
    BY <1>0, <1>2, <2>2 DEF Loops
  <2>4. GoOn(next)
    BY <2>1
  <2> HIDE DEF next
  <2>. QED
    BY <1>2, <1>5, <2>2, <2>3, <2>4
<1>11. CASE UpdateState
  <2> DEFINE next == [Top EXCEPT !.s = @ + 1, !.p = 1]
  <2>1. GoOn(next) /\ Top.loop = "update" /\ Top.s <= Len(activeStates)
    BY <1>11 DEF UpdateState, NextState, Looping, StatesLeft
  <2>2. next \in Loops /\ next.loop = "update" /\ next.s = Top.s + 1 /\ next.p = 1
    BY <1>0, <1>2, <2>1 DEF Loops
  <2> HIDE DEF next
  <2>. QED
    BY <1>2, <1>5, <2>1, <2>2
<1>. QED
  BY <1>4, <1>6, <1>7, <1>8, <1>9, <1>10, <1>11
     DEF InitiateEnds, SetupRaises, RegisterEnds, UpdateEnds

LEMMA PlacedNext == Placed /\ [Next]_vars => Placed'
<1> SUFFICES ASSUME Placed, [Next]_vars PROVE Placed'
  OBVIOUS
<1>1. Len(activeStates) \in Nat /\ Len(plugins_list) \in Nat
  BY LenProperties DEF Placed, ListsOK
<1>2. ASSUME NEW v \in VMs, InitiateLua(v) PROVE Placed'
  <2> DEFINE pushed == [loop |-> "initiate", s |-> Len(activeStates) + 1, p |-> 1, inside |-> NoVM]
  <2>1. /\ activeStates' \in Seq(VMs)
        /\ Len(activeStates') = Len(activeStates) + 1
        /\ \A i \in 1..Len(activeStates) : activeStates'[i] = activeStates[i]
        /\ activeStates'[Len(activeStates) + 1] = v
    BY <1>2, AppendProperties DEF InitiateLua, Placed, ListsOK
  <2>2. \A i \in 1..Len(activeStates) : activeStates[i] # v
    BY <1>2, LenProperties DEF InitiateLua, Range, Placed, ListsOK
  <2>3. NoDuplicates' /\ plugins_list' \in Seq(Files)
    BY <1>1, <1>2, <2>1, <2>2 DEF InitiateLua, NoDuplicates, Placed, ListsOK
  <2>4. stack = <<>> /\ stack' = <<pushed>> \o stack
    BY <1>2 DEF InitiateLua, Begin
  <2>5. /\ pushed \in Loops /\ pushed.loop = "initiate"
        /\ pushed.s = Len(activeStates) + 1 /\ pushed.p = 1
    BY <1>1 DEF Loops
  <2>6. plugins_list' = plugins_list
    BY <1>2 DEF InitiateLua
  <2> HIDE DEF pushed
  <2>. QED
    BY <1>1, <2>1, <2>3, <2>4, <2>5, <2>6, PlacedAtFirst
<1>3. CASE Update
  <2> DEFINE pushed == [loop |-> "update", s |-> 1, p |-> 1, inside |-> NoVM]
  <2>1. UNCHANGED lists /\ stack = <<>> /\ stack' = <<pushed>> \o stack
    BY <1>3 DEF Update, Begin
  <2>2. /\ NoDuplicates'
        /\ activeStates' \in Seq(VMs) /\ plugins_list' \in Seq(Files)
        /\ Len(activeStates') \in Nat /\ Len(plugins_list') \in Nat
    BY <1>1, <2>1 DEF lists, NoDuplicates, Placed, ListsOK
  <2>3. pushed \in Loops /\ pushed.loop = "update" /\ pushed.s = 1 /\ pushed.p = 1
    BY DEF Loops
  <2> HIDE DEF pushed
  <2>. QED
    BY <2>1, <2>2, <2>3, PlacedAtFirst
<1>4. ASSUME NEW v \in VMs, Close(v) PROVE Placed'
  <2>1. PICK g \in [1..Len(activeStates') -> 1..Len(activeStates)] :
          /\ \A j \in 1..Len(activeStates') : activeStates'[j] = activeStates[g[j]]
          /\ \A j, k \in 1..Len(activeStates') : g[j] = g[k] => j = k
    BY <1>4, ClosedList
  <2>2. activeStates' \in Seq(VMs) /\ UNCHANGED <<plugins_list, stack>> /\ stack = <<>>
    BY <1>4, ClosedList DEF Close
  <2>3. NoDuplicates'
    <3>1. ASSUME NEW i \in 1..Len(activeStates'), NEW j \in 1..Len(activeStates'),
                 activeStates'[i] = activeStates'[j]
          PROVE  i = j
      <4>1. activeStates[g[i]] = activeStates[g[j]]
        BY <2>1, <3>1
      <4>2. g[i] \in 1..Len(activeStates) /\ g[j] \in 1..Len(activeStates)
        OBVIOUS
      <4>3. g[i] = g[j]
        BY <4>1, <4>2 DEF Placed, NoDuplicates
      <4>. QED
        BY <2>1, <4>3
    <3>. QED
      BY <2>2, <3>1 DEF Placed, NoDuplicates
  <2>4. stack' = <<>> /\ Len(stack') = 0
    BY <2>2
  <2>. QED
    BY <2>2, <2>3, <2>4 DEF Placed, ListsOK, InBounds, StackShape
<1>5. ASSUME NEW f \in Files, LoadPlugin(f) PROVE Placed'
  BY <1>5, PlacedWhenLoading
<1>6. CASE UNCHANGED vars
  BY <1>6 DEF vars, lists, Placed, ListsOK, InBounds, NoDuplicates, StackShape
<1>. QED
  BY <1>2, <1>3, <1>4, <1>5, <1>6, PlacedAfterStep DEF Next

-----------------------------------------------------------------------------
(* Setups that are done, and setups that a loop still owes. *)

\* A loop of LoadPlugin, or of initiate_lua, will come to state k and plugin m.
WillRegister(l, k, m) == l.loop = "register" /\ l.p = m /\ l.s <= k
WillInitiate(l, k, m) == l.loop = "initiate" /\ l.s = k /\ l.p <= m

ToRegister(k, m) == \E i \in 1..Len(stack) : WillRegister(stack[i], k, m)
ToInitiate(k, m) == \E i \in 1..Len(stack) : WillInitiate(stack[i], k, m)

\* The same of the loops that the innermost one interrupts.
ToRegisterLater(k, m) == \E i \in 2..Len(stack) : WillRegister(stack[i], k, m)
ToInitiateLater(k, m) == \E i \in 2..Len(stack) : WillInitiate(stack[i], k, m)

SetUpOrOwed ==
  \A k \in 1..Len(activeStates), m \in 1..Len(plugins_list) :
    \/ setups[activeStates[k]][plugins_list[m]] > 0
    \/ <<activeStates[k], plugins_list[m]>> \in skipped
    \/ ToRegister(k, m) \/ ToInitiate(k, m)

\* Setups done and owed, together.
NotTooOften ==
  \A k \in 1..Len(activeStates), m \in 1..Len(plugins_list) :
    setups[activeStates[k]][plugins_list[m]]
      + (IF ToRegister(k, m) THEN 1 ELSE 0) + (IF ToInitiate(k, m) THEN 1 ELSE 0)
    <= IF <<activeStates[k], plugins_list[m]>> \in nested THEN 2 ELSE 1

NotLoadedNotSetUp ==
  \A v \in VMs, f \in Files :
    (\A m \in 1..Len(plugins_list) : plugins_list[m] # f) => setups[v][f] = 0

DebtInv == HistoryOK /\ SetUpOrOwed /\ NotTooOften /\ NotLoadedNotSetUp
           /\ SetUpTwiceOnlyIfNested

\* Only what the innermost loop owes changes when it goes on.
LEMMA OwedWhenGoingOn ==
  ASSUME Placed, stack # <<>>, NEW next \in Loops, GoOn(next), NEW k \in Nat, NEW m \in Nat
  PROVE  /\ ToRegister(k, m) <=> WillRegister(Top, k, m) \/ ToRegisterLater(k, m)
         /\ ToInitiate(k, m) <=> WillInitiate(Top, k, m) \/ ToInitiateLater(k, m)
         /\ ToRegister(k, m)' <=> WillRegister(next, k, m) \/ ToRegisterLater(k, m)
         /\ ToInitiate(k, m)' <=> WillInitiate(next, k, m) \/ ToInitiateLater(k, m)
<1>1. Top = stack[1] /\ Len(stack) \in Nat \ {0}
  BY InnermostPlace
<1>2. /\ Len(stack') = Len(stack)
      /\ stack'[1] = next
      /\ \A i \in 2..Len(stack) : stack'[i] = stack[i]
  BY WentOn DEF Placed, ListsOK
<1>3. 1..Len(stack) = {1} \union 2..Len(stack)
  BY <1>1
<1>. QED
  BY <1>1, <1>2, <1>3 DEF ToRegister, ToInitiate, ToRegisterLater, ToInitiateLater

LEMMA OwedWhenEnding ==
  ASSUME Placed, stack # <<>>, End, NEW k \in Nat, NEW m \in Nat
  PROVE  /\ ToRegister(k, m) <=> WillRegister(Top, k, m) \/ ToRegisterLater(k, m)
         /\ ToInitiate(k, m) <=> WillInitiate(Top, k, m) \/ ToInitiateLater(k, m)
         /\ ToRegister(k, m)' <=> ToRegisterLater(k, m)
         /\ ToInitiate(k, m)' <=> ToInitiateLater(k, m)
<1>1. Top = stack[1] /\ Len(stack) \in Nat \ {0}
  BY InnermostPlace
<1>2. /\ Len(stack') = Len(stack) - 1
      /\ \A i \in 1..Len(stack') : stack'[i] = stack[i + 1]
  BY Ended DEF Placed, ListsOK
<1>3. 1..Len(stack) = {1} \union 2..Len(stack)
  BY <1>1
<1>4. \A i \in 1..Len(stack') : i + 1 \in 2..Len(stack) /\ stack'[i] = stack[i + 1]
  BY <1>1, <1>2
<1>5. \A i \in 2..Len(stack) : i - 1 \in 1..Len(stack') /\ stack'[i - 1] = stack[i]
  BY <1>1, <1>2
<1>. QED
  BY <1>1, <1>3, <1>4, <1>5 DEF ToRegister, ToInitiate, ToRegisterLater, ToInitiateLater

\* No two loops owe the same setup in the same way.
LEMMA OwedOnce ==
  ASSUME Placed, stack # <<>>, NEW k \in Nat, NEW m \in Nat
  PROVE  /\ Top.loop = "register" /\ Top.p = m => ~ToRegisterLater(k, m)
         /\ Top.loop # "register" => Len(stack) = 1 /\ ~ToRegisterLater(k, m)
                                                    /\ ~ToInitiateLater(k, m)
<1>1. Top = stack[1] /\ Len(stack) \in Nat \ {0}
  BY InnermostPlace
<1>2. Top.loop = "register" /\ Top.p = m => ~ToRegisterLater(k, m)
  BY <1>1 DEF Placed, StackShape, ToRegisterLater, WillRegister
<1>3. Top.loop # "register" => Len(stack) = 1
  <2>1. 1 \in 1..Len(stack)
    BY <1>1
  <2>2. 1 < Len(stack) => stack[1].loop = "register"
    BY <2>1 DEF Placed, StackShape
  <2>3. Top.loop # "register" => ~(1 < Len(stack))
    BY <1>1, <2>2
  <2>. QED
    BY <1>1, <2>3
<1>. QED
  BY <1>2, <1>3 DEF ToRegisterLater, ToInitiateLater

LEMMA CountOfSetups ==
  ASSUME Placed, HistoryOK, NEW k \in 1..Len(activeStates), NEW m \in 1..Len(plugins_list)
  PROVE  /\ activeStates[k] \in VMs /\ plugins_list[m] \in Files
         /\ setups[activeStates[k]][plugins_list[m]] \in Nat
<1>1. activeStates[k] \in VMs /\ plugins_list[m] \in Files
  BY ElementOfSeq DEF Placed, ListsOK
<1>. QED
  BY <1>1 DEF HistoryOK

\* A step without setup: what a loop no longer owes was left out by an error.
LEMMA DebtKept ==
  ASSUME Placed, DebtInv, HistoryOK',
         UNCHANGED <<activeStates, plugins_list, setups, nested>>, skipped \subseteq skipped',
         \A k \in 1..Len(activeStates), m \in 1..Len(plugins_list) :
           /\ ToRegister(k, m)' => ToRegister(k, m)
           /\ ToRegister(k, m) => \/ ToRegister(k, m)'
                                  \/ <<activeStates[k], plugins_list[m]>> \in skipped'
           /\ ToInitiate(k, m)' <=> ToInitiate(k, m)
  PROVE  DebtInv'
<1>1. SetUpOrOwed'
  BY DEF DebtInv, SetUpOrOwed
<1>2. NotTooOften'
  <2>1. ASSUME NEW k \in 1..Len(activeStates), NEW m \in 1..Len(plugins_list)
        PROVE  setups[activeStates[k]][plugins_list[m]]
                 + (IF ToRegister(k, m)' THEN 1 ELSE 0) + (IF ToInitiate(k, m)' THEN 1 ELSE 0)
               <= IF <<activeStates[k], plugins_list[m]>> \in nested THEN 2 ELSE 1
    <3> DEFINE c == setups[activeStates[k]][plugins_list[m]]
    <3>1. c + (IF ToRegister(k, m) THEN 1 ELSE 0) + (IF ToInitiate(k, m) THEN 1 ELSE 0)
          <= IF <<activeStates[k], plugins_list[m]>> \in nested THEN 2 ELSE 1
      BY DEF DebtInv, NotTooOften
    <3>2. c \in Nat
      BY CountOfSetups DEF DebtInv
    <3>3. /\ ToRegister(k, m)' => ToRegister(k, m)
          /\ ToInitiate(k, m)' <=> ToInitiate(k, m)
      OBVIOUS
    <3> HIDE DEF c
    <3>4. c + (IF ToRegister(k, m)' THEN 1 ELSE 0) + (IF ToInitiate(k, m)' THEN 1 ELSE 0)
          <= IF <<activeStates[k], plugins_list[m]>> \in nested THEN 2 ELSE 1
      BY <3>1, <3>2, <3>3
    <3>. QED
      BY <3>4 DEF c
  <2>. QED
    BY <2>1 DEF NotTooOften
<1>3. NotLoadedNotSetUp' /\ SetUpTwiceOnlyIfNested'
  BY DEF DebtInv, NotLoadedNotSetUp, SetUpTwiceOnlyIfNested
<1>. QED
  BY <1>1, <1>2, <1>3 DEF DebtInv

\* A setup pays for what one loop owed.
LEMMA DebtPaid ==
  ASSUME Placed, DebtInv, UNCHANGED <<lists, frame, errata>>,
         NEW i \in 1..Len(activeStates), NEW j \in 1..Len(plugins_list),
         setups' = [setups EXCEPT ![activeStates[i]][plugins_list[j]] = @ + 1],
         \A k \in 1..Len(activeStates), m \in 1..Len(plugins_list) : <<k, m>> # <<i, j>> =>
           /\ ToRegister(k, m)' <=> ToRegister(k, m)
           /\ ToInitiate(k, m)' <=> ToInitiate(k, m),
         \/ /\ ToRegister(i, j) /\ ~ToRegister(i, j)'
            /\ ToInitiate(i, j)' <=> ToInitiate(i, j)
         \/ /\ ToInitiate(i, j) /\ ~ToInitiate(i, j)'
            /\ ToRegister(i, j)' <=> ToRegister(i, j)
  PROVE  DebtInv'
<1> DEFINE v == activeStates[i]
           f == plugins_list[j]
<1>1. v \in VMs /\ f \in Files /\ setups[v][f] \in Nat
  BY CountOfSetups DEF DebtInv
<1>2. setups \in [VMs -> [Files -> Nat]]
  BY DEF DebtInv, HistoryOK
<1>3. /\ setups' = [setups EXCEPT ![v][f] = setups[v][f] + 1]
  OBVIOUS
<1> HIDE DEF v, f
<1>4. /\ setups' \in [VMs -> [Files -> Nat]]
      /\ setups'[v][f] = setups[v][f] + 1
      /\ \A w \in VMs, g \in Files : <<w, g>> # <<v, f>> => setups'[w][g] = setups[w][g]
  BY <1>1, <1>2, <1>3
<1>5. HistoryOK'
  BY <1>4 DEF DebtInv, HistoryOK, frame, errata
<1>6. ASSUME NEW k \in 1..Len(activeStates), NEW m \in 1..Len(plugins_list),
             <<k, m>> # <<i, j>>
      PROVE  /\ setups'[activeStates[k]][plugins_list[m]] = setups[activeStates[k]][plugins_list[m]]
             /\ <<activeStates[k], plugins_list[m]>> # <<v, f>>
  <2>1. k # i \/ m # j
    BY <1>6
  <2>2. activeStates[k] # v \/ plugins_list[m] # f
    BY <2>1 DEF Placed, NoDuplicates, v, f
  <2>3. activeStates[k] \in VMs /\ plugins_list[m] \in Files
    BY CountOfSetups DEF DebtInv
  <2>. QED
    BY <1>4, <2>2, <2>3
<1>7. SetUpOrOwed'
  <2>1. ASSUME NEW k \in 1..Len(activeStates), NEW m \in 1..Len(plugins_list)
        PROVE  \/ setups'[activeStates[k]][plugins_list[m]] > 0
               \/ <<activeStates[k], plugins_list[m]>> \in skipped
               \/ ToRegister(k, m)' \/ ToInitiate(k, m)'
    <3>1. CASE <<k, m>> = <<i, j>>
      BY <1>1, <1>4, <3>1 DEF v, f
    <3>2. CASE <<k, m>> # <<i, j>>
      BY <1>6, <3>2 DEF DebtInv, SetUpOrOwed
    <3>. QED
      BY <3>1, <3>2
  <2>. QED
    BY <2>1 DEF SetUpOrOwed, lists, errata
<1>8. ASSUME NEW k \in 1..Len(activeStates), NEW m \in 1..Len(plugins_list)
      PROVE  setups'[activeStates[k]][plugins_list[m]]
               + (IF ToRegister(k, m)' THEN 1 ELSE 0) + (IF ToInitiate(k, m)' THEN 1 ELSE 0)
             <= IF <<activeStates[k], plugins_list[m]>> \in nested THEN 2 ELSE 1
  <2> DEFINE c == setups[activeStates[k]][plugins_list[m]]
             d == setups'[activeStates[k]][plugins_list[m]]
  <2>1. c + (IF ToRegister(k, m) THEN 1 ELSE 0) + (IF ToInitiate(k, m) THEN 1 ELSE 0)
        <= IF <<activeStates[k], plugins_list[m]>> \in nested THEN 2 ELSE 1
    BY DEF DebtInv, NotTooOften
  <2>2. c \in Nat
    BY CountOfSetups DEF DebtInv
  <2>3. \/ /\ d = c + 1
           /\ \/ ToRegister(k, m) /\ ~ToRegister(k, m)' /\ (ToInitiate(k, m)' <=> ToInitiate(k, m))
              \/ ToInitiate(k, m) /\ ~ToInitiate(k, m)' /\ (ToRegister(k, m)' <=> ToRegister(k, m))
        \/ /\ d = c
           /\ ToRegister(k, m)' <=> ToRegister(k, m)
           /\ ToInitiate(k, m)' <=> ToInitiate(k, m)
    <3>1. CASE <<k, m>> = <<i, j>>
      <4>1. k = i /\ m = j
        BY <3>1
      <4>2. d = c + 1
        BY <1>4, <4>1 DEF v, f
      <4>. QED
        BY <4>1, <4>2
    <3>2. CASE <<k, m>> # <<i, j>>
      BY <1>6, <3>2
    <3>. QED
      BY <3>1, <3>2
  <2> HIDE DEF c, d
  <2>4. d + (IF ToRegister(k, m)' THEN 1 ELSE 0) + (IF ToInitiate(k, m)' THEN 1 ELSE 0)
        <= IF <<activeStates[k], plugins_list[m]>> \in nested THEN 2 ELSE 1
    BY <2>1, <2>2, <2>3
  <2>. QED
    BY <2>4 DEF d
<1>9. NotTooOften'
  BY <1>8 DEF NotTooOften, lists, errata
<1>10. NotLoadedNotSetUp'
  BY <1>4 DEF DebtInv, NotLoadedNotSetUp, lists, f
<1>11. SetUpTwiceOnlyIfNested'
  <2>1. setups'[v][f] <= IF <<v, f>> \in nested THEN 2 ELSE 1
    <3> DEFINE d == setups'[v][f]
    <3>1. d \in Nat
      BY <1>1, <1>4
    <3>2. d + (IF ToRegister(i, j)' THEN 1 ELSE 0) + (IF ToInitiate(i, j)' THEN 1 ELSE 0)
          <= IF <<v, f>> \in nested THEN 2 ELSE 1
      BY <1>8 DEF v, f
    <3> HIDE DEF d
    <3>3. d <= IF <<v, f>> \in nested THEN 2 ELSE 1
      BY <3>1, <3>2
    <3>. QED
      BY <3>3 DEF d
  <2>2. ASSUME NEW w \in VMs, NEW g \in Files
        PROVE  setups'[w][g] <= IF <<w, g>> \in nested THEN 2 ELSE 1
    <3>1. CASE <<w, g>> = <<v, f>>
      BY <2>1, <3>1
    <3>2. CASE <<w, g>> # <<v, f>>
      BY <1>4, <3>2 DEF DebtInv, SetUpTwiceOnlyIfNested
    <3>. QED
      BY <3>1, <3>2
  <2>. QED
    BY <2>2 DEF SetUpTwiceOnlyIfNested, errata
<1>. QED
  BY <1>5, <1>7, <1>9, <1>10, <1>11 DEF DebtInv

LEMMA DebtGoingOn ==
  ASSUME Placed, DebtInv, HistoryOK', stack # <<>>,
         UNCHANGED <<activeStates, plugins_list, setups, nested, skipped>>,
         NEW next \in Loops, GoOn(next),
         \A k \in 1..Len(activeStates), m \in 1..Len(plugins_list) :
           /\ WillRegister(next, k, m) <=> WillRegister(Top, k, m)
           /\ WillInitiate(next, k, m) <=> WillInitiate(Top, k, m)
  PROVE  DebtInv'
<1>1. ASSUME NEW k \in 1..Len(activeStates), NEW m \in 1..Len(plugins_list)
      PROVE  /\ ToRegister(k, m)' <=> ToRegister(k, m)
             /\ ToInitiate(k, m)' <=> ToInitiate(k, m)
  <2>1. k \in Nat /\ m \in Nat
    OBVIOUS
  <2>2. /\ ToRegister(k, m) <=> WillRegister(Top, k, m) \/ ToRegisterLater(k, m)
        /\ ToInitiate(k, m) <=> WillInitiate(Top, k, m) \/ ToInitiateLater(k, m)
        /\ ToRegister(k, m)' <=> WillRegister(next, k, m) \/ ToRegisterLater(k, m)
        /\ ToInitiate(k, m)' <=> WillInitiate(next, k, m) \/ ToInitiateLater(k, m)
    BY <2>1, OwedWhenGoingOn
  <2>3. /\ WillRegister(next, k, m) <=> WillRegister(Top, k, m)
        /\ WillInitiate(next, k, m) <=> WillInitiate(Top, k, m)
    OBVIOUS
  <2>. QED
    BY <2>2, <2>3
<1>. QED
  BY <1>1, DebtKept

LEMMA DebtEnding ==
  ASSUME Placed, DebtInv, HistoryOK', stack # <<>>, End,
         UNCHANGED <<activeStates, plugins_list, setups, nested>>, skipped \subseteq skipped',
         \A k \in 1..Len(activeStates), m \in 1..Len(plugins_list) :
           /\ WillRegister(Top, k, m) => <<activeStates[k], plugins_list[m]>> \in skipped'
           /\ ~WillInitiate(Top, k, m)
  PROVE  DebtInv'
<1>1. ASSUME NEW k \in 1..Len(activeStates), NEW m \in 1..Len(plugins_list)
      PROVE  /\ ToRegister(k, m)' => ToRegister(k, m)
             /\ ToRegister(k, m) => \/ ToRegister(k, m)'
                                    \/ <<activeStates[k], plugins_list[m]>> \in skipped'
             /\ ToInitiate(k, m)' <=> ToInitiate(k, m)
  <2>1. k \in Nat /\ m \in Nat
    OBVIOUS
  <2>2. /\ ToRegister(k, m) <=> WillRegister(Top, k, m) \/ ToRegisterLater(k, m)
        /\ ToInitiate(k, m) <=> WillInitiate(Top, k, m) \/ ToInitiateLater(k, m)
        /\ ToRegister(k, m)' <=> ToRegisterLater(k, m)
        /\ ToInitiate(k, m)' <=> ToInitiateLater(k, m)
    BY <2>1, OwedWhenEnding
  <2>3. /\ WillRegister(Top, k, m) => <<activeStates[k], plugins_list[m]>> \in skipped'
        /\ ~WillInitiate(Top, k, m)
    OBVIOUS
  <2>. QED
    BY <2>2, <2>3
<1>. QED
  BY <1>1, DebtKept

\* The steps that set nothing up.
LEMMA DebtAfterQuietStep ==
  ASSUME Placed, DebtInv,
         Return \/ InitiateBase \/ InitiateEnds \/ SetupRaises \/ RegisterEnds
           \/ UpdatePlugin \/ UpdateState \/ UpdateEnds
  PROVE  DebtInv'
<1>1. stack # <<>> /\ UNCHANGED <<activeStates, plugins_list, setups, nested>>
  BY DEF Return, InitiateBase, InitiateEnds, SetupRaises, RegisterEnds, UpdatePlugin,
         UpdateState, UpdateEnds, Looping, lists, errata
<1>2. /\ Top \in Loops
      /\ Top.s \in 1..Len(activeStates) + 1 /\ Top.p \in 1..Len(plugins_list) + 1
      /\ Top.loop = "initiate" => Top.s \in 1..Len(activeStates)
      /\ Top.loop = "register" => Top.p \in 1..Len(plugins_list)
      /\ Len(activeStates) \in Nat /\ Len(plugins_list) \in Nat
      /\ Top.p + 1 \in Nat /\ Top.s + 1 \in Nat
  BY <1>1, InnermostPlace
<1>3. /\ \A k \in 1..Len(activeStates) : activeStates[k] \in VMs
      /\ \A m \in 1..Len(plugins_list) : plugins_list[m] \in Files
  BY ElementOfSeq DEF Placed, ListsOK
<1>4. HistoryOK
  BY DEF DebtInv
<1>5. ASSUME UNCHANGED skipped, HistoryOK', NEW next \in Loops, GoOn(next),
             \A k \in 1..Len(activeStates), m \in 1..Len(plugins_list) :
               /\ WillRegister(next, k, m) <=> WillRegister(Top, k, m)
               /\ WillInitiate(next, k, m) <=> WillInitiate(Top, k, m)
      PROVE  DebtInv'
  BY <1>1, <1>5, DebtGoingOn
<1>6. ASSUME skipped \subseteq skipped', HistoryOK', End,
             \A k \in 1..Len(activeStates), m \in 1..Len(plugins_list) :
               /\ WillRegister(Top, k, m) => <<activeStates[k], plugins_list[m]>> \in skipped'
               /\ ~WillInitiate(Top, k, m)
      PROVE  DebtInv'
  BY <1>1, <1>6, DebtEnding
<1>7. CASE Return
  <2> DEFINE next == [Top EXCEPT !.inside = NoVM]
  <2>1. GoOn(next) /\ UNCHANGED skipped /\ HistoryOK'
    BY <1>4, <1>7 DEF Return, HistoryOK, frame, errata
  <2>2. next \in Loops /\ next.loop = Top.loop /\ next.s = Top.s /\ next.p = Top.p
    BY <1>2 DEF Loops
  <2> HIDE DEF next
  <2>. QED
    BY <1>5, <2>1, <2>2 DEF WillRegister, WillInitiate
<1>8. CASE InitiateBase
  <2> DEFINE next == [Top EXCEPT !.loop = "base", !.inside = activeStates[Top.s]]
  <2>1. UNCHANGED skipped /\ HistoryOK'
    BY <1>4, <1>8 DEF InitiateBase, HistoryOK, frame, errata
  <2>2. End \/ GoOn(next)
    BY <1>8 DEF InitiateBase
  <2>3. Top.loop = "initiate" /\ Top.p > Len(plugins_list)
    BY <1>2, <1>8 DEF InitiateBase, Looping, PluginsLeft
  <2>4. next \in Loops /\ next.loop = "base"
    BY <1>2, <1>3, <2>3 DEF Loops
  <2> HIDE DEF next
  <2>5. \A k \in 1..Len(activeStates), m \in 1..Len(plugins_list) :
          /\ ~WillRegister(Top, k, m) /\ ~WillInitiate(Top, k, m)
          /\ ~WillRegister(next, k, m) /\ ~WillInitiate(next, k, m)
    BY <1>2, <2>3, <2>4 DEF WillRegister, WillInitiate
  <2>6. CASE End
    BY <1>6, <2>1, <2>5, <2>6
  <2>7. CASE GoOn(next)
    BY <1>5, <2>1, <2>4, <2>5, <2>7
  <2>. QED
    BY <2>2, <2>6, <2>7
<1>9. CASE InitiateEnds
  <2>1. End /\ UNCHANGED skipped /\ HistoryOK' /\ Top.loop = "base"
    BY <1>4, <1>9 DEF InitiateEnds, Looping, HistoryOK, frame, errata
  <2>. QED
    BY <1>6, <2>1 DEF WillRegister, WillInitiate
<1>10. CASE SetupRaises
  <2> DEFINE late == {activeStates[i] : i \in Top.s..Len(activeStates)}
  <2>1. /\ End /\ UNCHANGED <<setups, frame, nested>> /\ Top.loop = "register"
        /\ skipped' = skipped \union (late \X {plugins_list[Top.p]})
    BY <1>10 DEF SetupRaises
  <2>2. late \subseteq VMs
    <3>1. \A i \in Top.s..Len(activeStates) : i \in 1..Len(activeStates)
      BY <1>2
    <3>. QED
      BY <1>3, <3>1
  <2>3. HistoryOK'
    <3>1. plugins_list[Top.p] \in Files
      BY <1>2, <1>3, <2>1
    <3> HIDE DEF late
    <3>2. skipped' \subseteq VMs \X Files
      BY <1>4, <2>1, <2>2, <3>1 DEF HistoryOK
    <3>. QED
      BY <1>4, <2>1, <3>2 DEF HistoryOK, frame
  <2>4. ASSUME NEW k \in 1..Len(activeStates), NEW m \in 1..Len(plugins_list)
        PROVE  /\ WillRegister(Top, k, m) => <<activeStates[k], plugins_list[m]>> \in skipped'
               /\ ~WillInitiate(Top, k, m)
    <3>1. WillRegister(Top, k, m) => k \in Top.s..Len(activeStates) /\ m = Top.p
      BY <1>2 DEF WillRegister
    <3>2. WillRegister(Top, k, m) => activeStates[k] \in late /\ plugins_list[m] = plugins_list[Top.p]
      BY <3>1
    <3> HIDE DEF late
    <3>3. WillRegister(Top, k, m) => <<activeStates[k], plugins_list[m]>> \in skipped'
      BY <2>1, <3>2
    <3>. QED
      BY <2>1, <3>3 DEF WillInitiate
  <2> HIDE DEF late
  <2>. QED
    BY <1>6, <2>1, <2>3, <2>4
<1>11. CASE RegisterEnds
  <2>1. /\ End /\ UNCHANGED skipped /\ HistoryOK'
        /\ Top.loop = "register" /\ Top.s > Len(activeStates)
    BY <1>2, <1>4, <1>11 DEF RegisterEnds, Looping, StatesLeft, HistoryOK, frame, errata
  <2>2. \A k \in 1..Len(activeStates), m \in 1..Len(plugins_list) :
          ~WillRegister(Top, k, m) /\ ~WillInitiate(Top, k, m)
    BY <1>2, <2>1 DEF WillRegister, WillInitiate
  <2>. QED
    BY <1>6, <2>1, <2>2
<1>12. CASE UpdatePlugin
  <2>1. /\ Top.loop = "update" /\ Top.p <= Len(plugins_list) /\ UNCHANGED skipped
        /\ Top.s <= Len(activeStates)
    BY <1>12 DEF UpdatePlugin, Looping, PluginsLeft, StatesLeft, errata
  <2>2. activeStates[Top.s] \in VMs /\ plugins_list[Top.p] \in Files
    BY <1>2, <1>3, <2>1
  <2>3. PICK v \in VMs \union {NoVM} : GoOn([Top EXCEPT !.p = @ + 1, !.inside = v])
    <3>1. GoOn([Top EXCEPT !.p = @ + 1,
                           !.inside = IF plugins_list[Top.p] \in Updaters
                                      THEN activeStates[Top.s] ELSE NoVM])
      BY <1>12 DEF UpdatePlugin
    <3>. QED
      BY <2>2, <3>1
  <2>4. HistoryOK'
    <3>1. /\ UNCHANGED <<setups, present, errata>>
          /\ updated' \subseteq updated \union {<<activeStates[Top.s], plugins_list[Top.p]>>}
      BY <1>12 DEF UpdatePlugin
    <3>. QED
      BY <1>4, <2>2, <3>1 DEF HistoryOK, errata
  <2> DEFINE next == [Top EXCEPT !.p = @ + 1, !.inside = v]
  <2>5. next \in Loops /\ next.loop = "update"
    BY <1>2, <2>1 DEF Loops
  <2>6. GoOn(next)
    BY <2>3
  <2> HIDE DEF next
  <2>. QED
    BY <1>5, <2>1, <2>4, <2>5, <2>6 DEF WillRegister, WillInitiate
<1>13. CASE UpdateState
  <2> DEFINE next == [Top EXCEPT !.s = @ + 1, !.p = 1]
  <2>1. GoOn(next) /\ Top.loop = "update" /\ UNCHANGED skipped /\ HistoryOK'
    BY <1>4, <1>13 DEF UpdateState, NextState, Looping, HistoryOK, frame, errata
  <2>2. next \in Loops /\ next.loop = "update"
    BY <1>2, <2>1 DEF Loops
  <2> HIDE DEF next
  <2>. QED
    BY <1>5, <2>1, <2>2 DEF WillRegister, WillInitiate
<1>14. CASE UpdateEnds
  <2>1. End /\ UNCHANGED skipped /\ HistoryOK' /\ Top.loop = "update"
    BY <1>4, <1>14 DEF UpdateEnds, Looping, HistoryOK, errata
  <2>. QED
    BY <1>6, <2>1 DEF WillRegister, WillInitiate
<1>. QED
  BY <1>7, <1>8, <1>9, <1>10, <1>11, <1>12, <1>13, <1>14

\* The steps that set a plugin up in a state.
LEMMA DebtAfterSetup ==
  ASSUME Placed, DebtInv, RegisterState \/ InitiatePlugin
  PROVE  DebtInv'
<1>1. stack # <<>> /\ UNCHANGED <<lists, frame, errata>>
  BY DEF RegisterState, InitiatePlugin, Looping
<1>2. /\ Top \in Loops
      /\ Top.s \in 1..Len(activeStates) + 1 /\ Top.p \in 1..Len(plugins_list) + 1
      /\ Top.loop = "initiate" => Top.s \in 1..Len(activeStates)
      /\ Top.loop = "register" => Top.p \in 1..Len(plugins_list)
      /\ Len(activeStates) \in Nat /\ Len(plugins_list) \in Nat
      /\ Top.p + 1 \in Nat /\ Top.s + 1 \in Nat
  BY <1>1, InnermostPlace
<1>3. /\ Top.s \in 1..Len(activeStates) /\ Top.p \in 1..Len(plugins_list)
      /\ setups' = [setups EXCEPT ![activeStates[Top.s]][plugins_list[Top.p]] = @ + 1]
  <2>1. CASE RegisterState
    BY <1>2, <2>1 DEF RegisterState, AddToState, Looping, StatesLeft
  <2>2. CASE InitiatePlugin
    BY <1>2, <2>2 DEF InitiatePlugin, AddToState, Looping, PluginsLeft
  <2>. QED
    BY <2>1, <2>2
<1>4. activeStates[Top.s] \in VMs
  BY <1>3, ElementOfSeq DEF Placed, ListsOK
<1>5. \A k \in 1..Len(activeStates), m \in 1..Len(plugins_list) : k \in Nat /\ m \in Nat
  OBVIOUS
<1>6. CASE RegisterState
  <2> DEFINE mid == [Top EXCEPT !.s = @ + 1]
             next == [mid EXCEPT !.inside = activeStates[Top.s]]
  <2>1. GoOn(next) /\ Top.loop = "register"
    BY <1>6 DEF RegisterState, AddToState, Looping
  <2>2. mid \in Loops /\ mid.loop = Top.loop /\ mid.s = Top.s + 1 /\ mid.p = Top.p
    BY <1>2 DEF Loops
  <2> HIDE DEF mid
  <2>3. next \in Loops /\ next.loop = "register" /\ next.s = Top.s + 1 /\ next.p = Top.p
    BY <1>4, <2>1, <2>2 DEF Loops
  <2> HIDE DEF next
  <2>4. ASSUME NEW k \in 1..Len(activeStates), NEW m \in 1..Len(plugins_list)
        PROVE  /\ ToInitiate(k, m)' <=> ToInitiate(k, m)
               /\ <<k, m>> # <<Top.s, Top.p>> => (ToRegister(k, m)' <=> ToRegister(k, m))
               /\ <<k, m>> = <<Top.s, Top.p>> => ToRegister(k, m) /\ ~ToRegister(k, m)'
    <3>1. /\ ToRegister(k, m) <=> WillRegister(Top, k, m) \/ ToRegisterLater(k, m)
          /\ ToInitiate(k, m) <=> WillInitiate(Top, k, m) \/ ToInitiateLater(k, m)
          /\ ToRegister(k, m)' <=> WillRegister(next, k, m) \/ ToRegisterLater(k, m)
          /\ ToInitiate(k, m)' <=> WillInitiate(next, k, m) \/ ToInitiateLater(k, m)
      BY <1>1, <1>5, <2>1, <2>3, OwedWhenGoingOn
    <3>2. Top.p = m => ~ToRegisterLater(k, m)
      BY <1>1, <1>5, <2>1, OwedOnce
    <3>3. ~WillInitiate(Top, k, m) /\ ~WillInitiate(next, k, m)
      BY <2>1, <2>3 DEF WillInitiate
    <3>4. /\ WillRegister(Top, k, m) <=> m = Top.p /\ Top.s <= k
          /\ WillRegister(next, k, m) <=> m = Top.p /\ Top.s + 1 <= k
      BY <2>1, <2>3 DEF WillRegister
    <3>5. /\ k = Top.s => Top.s <= k /\ ~(Top.s + 1 <= k)
          /\ k # Top.s => (Top.s <= k <=> Top.s + 1 <= k)
      BY <1>2
    <3>6. <<k, m>> = <<Top.s, Top.p>> <=> k = Top.s /\ m = Top.p
      OBVIOUS
    <3>. QED
      BY <3>1, <3>2, <3>3, <3>4, <3>5, <3>6
  <2>. QED
    BY <1>1, <1>3, <2>4, DebtPaid
<1>7. CASE InitiatePlugin
  <2> DEFINE mid == [Top EXCEPT !.p = @ + 1]
             next == [mid EXCEPT !.inside = activeStates[Top.s]]
  <2>1. GoOn(next) /\ Top.loop = "initiate"
    BY <1>7 DEF InitiatePlugin, AddToState, Looping
  <2>2. mid \in Loops /\ mid.loop = Top.loop /\ mid.s = Top.s /\ mid.p = Top.p + 1
    BY <1>2 DEF Loops
  <2> HIDE DEF mid
  <2>3. next \in Loops /\ next.loop = "initiate" /\ next.s = Top.s /\ next.p = Top.p + 1
    BY <1>4, <2>1, <2>2 DEF Loops
  <2> HIDE DEF next
  <2>4. ASSUME NEW k \in 1..Len(activeStates), NEW m \in 1..Len(plugins_list)
        PROVE  /\ ToRegister(k, m)' <=> ToRegister(k, m)
               /\ <<k, m>> # <<Top.s, Top.p>> => (ToInitiate(k, m)' <=> ToInitiate(k, m))
               /\ <<k, m>> = <<Top.s, Top.p>> => ToInitiate(k, m) /\ ~ToInitiate(k, m)'
    <3>1. /\ ToRegister(k, m) <=> WillRegister(Top, k, m) \/ ToRegisterLater(k, m)
          /\ ToInitiate(k, m) <=> WillInitiate(Top, k, m) \/ ToInitiateLater(k, m)
          /\ ToRegister(k, m)' <=> WillRegister(next, k, m) \/ ToRegisterLater(k, m)
          /\ ToInitiate(k, m)' <=> WillInitiate(next, k, m) \/ ToInitiateLater(k, m)
      BY <1>1, <1>5, <2>1, <2>3, OwedWhenGoingOn
    <3>2. ~ToInitiateLater(k, m)
      BY <1>1, <1>5, <2>1, OwedOnce
    <3>3. ~WillRegister(Top, k, m) /\ ~WillRegister(next, k, m)
      BY <2>1, <2>3 DEF WillRegister
    <3>4. /\ WillInitiate(Top, k, m) <=> k = Top.s /\ Top.p <= m
          /\ WillInitiate(next, k, m) <=> k = Top.s /\ Top.p + 1 <= m
      BY <2>1, <2>3 DEF WillInitiate
    <3>5. /\ m = Top.p => Top.p <= m /\ ~(Top.p + 1 <= m)
          /\ m # Top.p => (Top.p <= m <=> Top.p + 1 <= m)
      BY <1>2
    <3>6. <<k, m>> = <<Top.s, Top.p>> <=> k = Top.s /\ m = Top.p
      OBVIOUS
    <3>. QED
      BY <3>1, <3>2, <3>3, <3>4, <3>5, <3>6
  <2>. QED
    BY <1>1, <1>3, <2>4, DebtPaid
<1>. QED
  BY <1>6, <1>7

\* A new plugin is owed to every state, and owed again to the one that is
\* being given its plugins.
LEMMA DebtAfterLoading ==
  ASSUME Placed, DebtInv, NEW f \in Files, LoadPlugin(f)
  PROVE  DebtInv'
<1> DEFINE pushed == [loop |-> "register", s |-> 1, p |-> Len(plugins_list) + 1, inside |-> NoVM]
           M == Len(plugins_list) + 1
<1>1. /\ plugins_list' \in Seq(Files)
      /\ Len(plugins_list') = M
      /\ \A m \in 1..Len(plugins_list) : plugins_list'[m] = plugins_list[m]
      /\ plugins_list'[M] = f
  BY AppendProperties DEF LoadPlugin, Placed, ListsOK
<1>2. Len(plugins_list) \in Nat /\ Len(activeStates) \in Nat /\ Len(stack) \in Nat /\ M \in Nat
  BY LenProperties DEF Placed, ListsOK
<1>3. pushed \in Loops /\ pushed.loop = "register" /\ pushed.s = 1 /\ pushed.p = M
  BY <1>2 DEF Loops
<1>4. stack' = <<pushed>> \o stack
  BY DEF LoadPlugin, Begin
<1> HIDE DEF pushed
<1>5. /\ Len(stack') = Len(stack) + 1
      /\ stack'[1] = pushed
      /\ \A i \in 1..Len(stack) : stack'[i + 1] = stack[i]
      /\ \A i \in 2..Len(stack') : stack'[i] = stack[i - 1]
  BY <1>3, <1>4, Pushed DEF Placed, ListsOK
<1>6. UNCHANGED <<activeStates, setups, frame, skipped>> /\ nested' = nested \union (Initiating \X {f})
  BY DEF LoadPlugin
<1>7. \A m \in 1..Len(plugins_list) : plugins_list[m] # f
  BY LenProperties DEF LoadPlugin, IsNew, Range, Placed, ListsOK
<1>8. \A w \in VMs : setups[w][f] = 0
  BY <1>7 DEF DebtInv, NotLoadedNotSetUp
<1>9. \A k \in 1..Len(activeStates) : activeStates[k] \in VMs
  BY ElementOfSeq DEF Placed, ListsOK
<1>10. \A i \in 1..Len(stack) : i + 1 \in 1..Len(stack')
  BY <1>2, <1>5
<1>11. \A i \in 1..Len(stack') : i = 1 \/ (i \in 2..Len(stack') /\ i - 1 \in 1..Len(stack))
  BY <1>2, <1>5
<1>12. HistoryOK'
  <2>1. Initiating \subseteq VMs
    <3>1. \A i \in 1..Len(stack) : stack[i].loop = "initiate" => stack[i].s \in 1..Len(activeStates)
      BY <1>2 DEF Placed, InBounds, StackShape
    <3>. QED
      BY <1>9, <3>1 DEF Initiating
  <2>2. nested' \subseteq VMs \X Files
    BY <1>6, <2>1 DEF DebtInv, HistoryOK
  <2>. QED
    BY <1>6, <2>2 DEF DebtInv, HistoryOK, frame
<1>13. ASSUME NEW k \in 1..Len(activeStates), NEW m \in 1..Len(plugins_list)
       PROVE  /\ ToRegister(k, m)' <=> ToRegister(k, m)
              /\ ToInitiate(k, m)' <=> ToInitiate(k, m)
  <2>1. ~WillRegister(pushed, k, m) /\ ~WillInitiate(pushed, k, m)
    BY <1>2, <1>3 DEF WillRegister, WillInitiate
  <2>2. ToRegister(k, m)' <=> ToRegister(k, m)
    BY <1>5, <1>10, <1>11, <2>1 DEF ToRegister
  <2>3. ToInitiate(k, m)' <=> ToInitiate(k, m)
    BY <1>5, <1>10, <1>11, <2>1 DEF ToInitiate
  <2>. QED
    BY <2>2, <2>3
<1>14. ASSUME NEW k \in 1..Len(activeStates), NEW m \in 1..Len(plugins_list'), m = M
       PROVE  /\ ToRegister(k, m)'
              /\ ToInitiate(k, m)' => <<activeStates[k], f>> \in nested'
  <2>1. WillRegister(pushed, k, m) /\ ~WillInitiate(pushed, k, m)
    BY <1>3, <1>14 DEF WillRegister, WillInitiate
  <2>2. ToRegister(k, m)'
    <3>1. 1 \in 1..Len(stack')
      BY <1>2, <1>5
    <3>. QED
      BY <1>5, <2>1, <3>1 DEF ToRegister
  <2>3. ASSUME ToInitiate(k, m)' PROVE <<activeStates[k], f>> \in nested'
    <3>1. PICK i \in 1..Len(stack') : WillInitiate(stack'[i], k, m)
      BY <2>3 DEF ToInitiate
    <3>2. i - 1 \in 1..Len(stack) /\ WillInitiate(stack[i - 1], k, m)
      BY <1>5, <1>11, <2>1, <3>1
    <3>3. stack[i - 1].loop = "initiate" /\ stack[i - 1].s = k
      BY <3>2 DEF WillInitiate
    <3>4. activeStates[k] \in Initiating
      BY <3>2, <3>3 DEF Initiating
    <3>. QED
      BY <1>6, <3>4
  <2>. QED
    BY <2>2, <2>3
<1>15. \A m \in 1..Len(plugins_list') : m \in 1..Len(plugins_list) \/ m = M
  BY <1>1, <1>2
<1> HIDE DEF M
<1>16. SetUpOrOwed'
  <2>1. ASSUME NEW k \in 1..Len(activeStates), NEW m \in 1..Len(plugins_list')
        PROVE  \/ setups[activeStates[k]][plugins_list'[m]] > 0
               \/ <<activeStates[k], plugins_list'[m]>> \in skipped
               \/ ToRegister(k, m)' \/ ToInitiate(k, m)'
    <3>1. CASE m \in 1..Len(plugins_list)
      BY <1>1, <1>13, <3>1 DEF DebtInv, SetUpOrOwed
    <3>2. CASE m = M
      BY <1>14, <3>2
    <3>. QED
      BY <1>15, <3>1, <3>2
  <2>. QED
    BY <1>6, <2>1 DEF SetUpOrOwed
<1>17. NotTooOften'
  <2>1. ASSUME NEW k \in 1..Len(activeStates), NEW m \in 1..Len(plugins_list')
        PROVE  setups[activeStates[k]][plugins_list'[m]]
                 + (IF ToRegister(k, m)' THEN 1 ELSE 0) + (IF ToInitiate(k, m)' THEN 1 ELSE 0)
               <= IF <<activeStates[k], plugins_list'[m]>> \in nested' THEN 2 ELSE 1
    <3>1. CASE m \in 1..Len(plugins_list)
      <4> DEFINE c == setups[activeStates[k]][plugins_list[m]]
      <4>1. c + (IF ToRegister(k, m) THEN 1 ELSE 0) + (IF ToInitiate(k, m) THEN 1 ELSE 0)
            <= IF <<activeStates[k], plugins_list[m]>> \in nested THEN 2 ELSE 1
        BY <3>1 DEF DebtInv, NotTooOften
      <4>2. c \in Nat
        BY <3>1, CountOfSetups DEF DebtInv
      <4>3. <<activeStates[k], plugins_list[m]>> \in nested
            => <<activeStates[k], plugins_list[m]>> \in nested'
        BY <1>6
      <4>4. (ToRegister(k, m)' <=> ToRegister(k, m)) /\ (ToInitiate(k, m)' <=> ToInitiate(k, m))
        BY <1>13, <3>1
      <4>5. plugins_list'[m] = plugins_list[m]
        BY <1>1, <3>1
      <4> HIDE DEF c
      <4>6. c + (IF ToRegister(k, m)' THEN 1 ELSE 0) + (IF ToInitiate(k, m)' THEN 1 ELSE 0)
            <= IF <<activeStates[k], plugins_list[m]>> \in nested' THEN 2 ELSE 1
        BY <4>1, <4>2, <4>3, <4>4
      <4>. QED
        BY <4>5, <4>6 DEF c
    <3>2. CASE m = M
      <4>1. plugins_list'[m] = f /\ setups[activeStates[k]][plugins_list'[m]] = 0
        BY <1>1, <1>8, <1>9, <3>2
      <4>2. ToInitiate(k, m)' => <<activeStates[k], plugins_list'[m]>> \in nested'
        BY <1>14, <3>2, <4>1
      <4>. QED
        BY <4>1, <4>2
    <3>. QED
      BY <1>15, <3>1, <3>2
  <2>. QED
    BY <1>6, <2>1 DEF NotTooOften
<1>18. NotLoadedNotSetUp'
  <2>1. \A m \in 1..Len(plugins_list) : m \in 1..Len(plugins_list')
    BY <1>1, <1>2 DEF M
  <2>. QED
    BY <1>1, <1>6, <2>1 DEF DebtInv, NotLoadedNotSetUp
<1>19. SetUpTwiceOnlyIfNested'
  <2>1. ASSUME NEW w \in VMs, NEW g \in Files
        PROVE  setups[w][g] <= IF <<w, g>> \in nested' THEN 2 ELSE 1
    <3>1. setups[w][g] <= IF <<w, g>> \in nested THEN 2 ELSE 1
      BY DEF DebtInv, SetUpTwiceOnlyIfNested
    <3>2. setups[w][g] \in Nat
      BY DEF DebtInv, HistoryOK
    <3>3. <<w, g>> \in nested => <<w, g>> \in nested'
      BY <1>6
    <3>. QED
      BY <3>1, <3>2, <3>3
  <2>. QED
    BY <1>6, <2>1 DEF SetUpTwiceOnlyIfNested
<1>. QED
  BY <1>12, <1>16, <1>17, <1>18, <1>19 DEF DebtInv

\* A new state is owed every plugin.
LEMMA DebtAfterOpening ==
  ASSUME Placed, DebtInv, NEW v \in VMs, InitiateLua(v)
  PROVE  DebtInv'
<1> DEFINE pushed == [loop |-> "initiate", s |-> Len(activeStates) + 1, p |-> 1, inside |-> NoVM]
           N == Len(activeStates) + 1
<1>1. /\ activeStates' \in Seq(VMs)
      /\ Len(activeStates') = N
      /\ \A k \in 1..Len(activeStates) : activeStates'[k] = activeStates[k]
      /\ activeStates'[N] = v
  BY AppendProperties DEF InitiateLua, Placed, ListsOK
<1>2. Len(plugins_list) \in Nat /\ Len(activeStates) \in Nat /\ N \in Nat
  BY LenProperties DEF Placed, ListsOK
<1>3. pushed \in Loops /\ pushed.loop = "initiate" /\ pushed.s = N /\ pushed.p = 1
  BY <1>2 DEF Loops
<1>4. stack = <<>> /\ stack' = <<pushed>> \o stack
  BY DEF InitiateLua, Begin
<1> HIDE DEF pushed
<1>5. Len(stack) = 0 /\ Len(stack') = 1 /\ stack'[1] = pushed
  BY <1>3, <1>4, EmptySeq, Pushed
<1>6. /\ UNCHANGED <<plugins_list, frame>>
      /\ setups' = [setups EXCEPT ![v] = [f \in Files |-> 0]]
      /\ nested' = {x \in nested : x[1] # v}
      /\ skipped' = {x \in skipped : x[1] # v}
  BY DEF InitiateLua, Forget
<1>7. /\ setups' \in [VMs -> [Files -> Nat]]
      /\ \A f \in Files : setups'[v][f] = 0
      /\ \A w \in VMs \ {v} : setups'[w] = setups[w]
  BY <1>6 DEF DebtInv, HistoryOK
<1>8. \A k \in 1..Len(activeStates) : activeStates[k] # v /\ activeStates[k] \in VMs
  BY LenProperties, ElementOfSeq DEF InitiateLua, Range, Placed, ListsOK
<1>9. \A m \in 1..Len(plugins_list) : plugins_list[m] \in Files
  BY ElementOfSeq DEF Placed, ListsOK
<1>10. HistoryOK'
  BY <1>6, <1>7 DEF DebtInv, HistoryOK, frame
<1>11. ASSUME NEW k \in 1..Len(activeStates'), NEW m \in 1..Len(plugins_list)
       PROVE  /\ ~ToRegister(k, m) /\ ~ToInitiate(k, m) /\ ~ToRegister(k, m)'
              /\ ToInitiate(k, m)' <=> k = N
  <2>1. ~WillRegister(pushed, k, m) /\ (WillInitiate(pushed, k, m) <=> k = N)
    BY <1>3 DEF WillRegister, WillInitiate
  <2>2. ~ToRegister(k, m) /\ ~ToInitiate(k, m)
    BY <1>5 DEF ToRegister, ToInitiate
  <2>3. ToRegister(k, m)' <=> WillRegister(pushed, k, m)
    BY <1>5 DEF ToRegister
  <2>4. ToInitiate(k, m)' <=> WillInitiate(pushed, k, m)
    BY <1>5 DEF ToInitiate
  <2>. QED
    BY <2>1, <2>2, <2>3, <2>4
<1>12. \A k \in 1..Len(activeStates') : k \in 1..Len(activeStates) \/ k = N
  BY <1>1, <1>2
<1>13. ASSUME NEW k \in 1..Len(activeStates), NEW m \in 1..Len(plugins_list)
       PROVE  /\ setups'[activeStates'[k]][plugins_list[m]] = setups[activeStates[k]][plugins_list[m]]
              /\ <<activeStates'[k], plugins_list[m]>> \in nested'
                 <=> <<activeStates[k], plugins_list[m]>> \in nested
              /\ <<activeStates'[k], plugins_list[m]>> \in skipped'
                 <=> <<activeStates[k], plugins_list[m]>> \in skipped
              /\ ~(ToInitiate(k, m)')
  <2>1. activeStates'[k] = activeStates[k] /\ activeStates[k] \in VMs \ {v}
    BY <1>1, <1>8
  <2>2. k \in 1..Len(activeStates') /\ k # N
    BY <1>1, <1>2
  <2>3. ~(ToInitiate(k, m)')
    BY <1>11, <2>2
  <2>. QED
    BY <1>6, <1>7, <2>1, <2>3
<1>14. \A k \in 1..Len(activeStates) : k \in 1..Len(activeStates')
  BY <1>1, <1>2
<1>15. ASSUME NEW m \in 1..Len(plugins_list)
       PROVE  setups'[activeStates'[N]][plugins_list[m]] = 0
  BY <1>1, <1>7, <1>9
<1> HIDE DEF N
<1>16. SetUpOrOwed'
  <2>1. ASSUME NEW k \in 1..Len(activeStates'), NEW m \in 1..Len(plugins_list)
        PROVE  \/ setups'[activeStates'[k]][plugins_list[m]] > 0
               \/ <<activeStates'[k], plugins_list[m]>> \in skipped'
               \/ ToRegister(k, m)' \/ ToInitiate(k, m)'
    <3>1. CASE k = N
      BY <1>11, <3>1
    <3>2. CASE k \in 1..Len(activeStates)
      BY <1>11, <1>13, <3>2 DEF DebtInv, SetUpOrOwed
    <3>. QED
      BY <1>12, <3>1, <3>2
  <2>. QED
    BY <1>6, <2>1 DEF SetUpOrOwed
<1>17. NotTooOften'
  <2>1. ASSUME NEW k \in 1..Len(activeStates'), NEW m \in 1..Len(plugins_list)
        PROVE  setups'[activeStates'[k]][plugins_list[m]]
                 + (IF ToRegister(k, m)' THEN 1 ELSE 0) + (IF ToInitiate(k, m)' THEN 1 ELSE 0)
               <= IF <<activeStates'[k], plugins_list[m]>> \in nested' THEN 2 ELSE 1
    <3>1. CASE k = N
      <4>1. setups'[activeStates'[k]][plugins_list[m]] = 0
        BY <1>15, <3>1
      <4>2. ~(ToRegister(k, m)')
        BY <1>11
      <4>. QED
        BY <4>1, <4>2
    <3>2. CASE k \in 1..Len(activeStates)
      <4>1. setups[activeStates[k]][plugins_list[m]]
              + (IF ToRegister(k, m) THEN 1 ELSE 0) + (IF ToInitiate(k, m) THEN 1 ELSE 0)
            <= IF <<activeStates[k], plugins_list[m]>> \in nested THEN 2 ELSE 1
        BY <3>2 DEF DebtInv, NotTooOften
      <4>2. ~ToRegister(k, m) /\ ~ToInitiate(k, m) /\ ~(ToRegister(k, m)')
        BY <1>11
      <4>3. /\ setups'[activeStates'[k]][plugins_list[m]] = setups[activeStates[k]][plugins_list[m]]
            /\ <<activeStates'[k], plugins_list[m]>> \in nested'
               <=> <<activeStates[k], plugins_list[m]>> \in nested
            /\ ~(ToInitiate(k, m)')
        BY <1>13, <3>2
      <4>. QED
        BY <4>1, <4>2, <4>3
    <3>. QED
      BY <1>12, <3>1, <3>2
  <2>. QED
    BY <1>6, <2>1 DEF NotTooOften
<1>18. NotLoadedNotSetUp'
  BY <1>6, <1>7 DEF DebtInv, NotLoadedNotSetUp
<1>19. SetUpTwiceOnlyIfNested'
  <2>1. ASSUME NEW w \in VMs, NEW g \in Files
        PROVE  setups'[w][g] <= IF <<w, g>> \in nested' THEN 2 ELSE 1
    <3>1. CASE w = v
      BY <1>7, <3>1
    <3>2. CASE w # v
      <4>1. setups'[w][g] = setups[w][g] /\ (<<w, g>> \in nested' <=> <<w, g>> \in nested)
        BY <1>6, <1>7, <3>2
      <4>. QED
        BY <4>1 DEF DebtInv, SetUpTwiceOnlyIfNested
    <3>. QED
      BY <3>1, <3>2
  <2>. QED
    BY <2>1 DEF SetUpTwiceOnlyIfNested
<1>. QED
  BY <1>10, <1>16, <1>17, <1>18, <1>19 DEF DebtInv

LEMMA DebtAfterClosing ==
  ASSUME Placed, DebtInv, NEW v \in VMs, Close(v)
  PROVE  DebtInv'
<1>1. PICK g \in [1..Len(activeStates') -> 1..Len(activeStates)] :
         /\ \A j \in 1..Len(activeStates') : activeStates'[j] = activeStates[g[j]]
         /\ \A j, k \in 1..Len(activeStates') : g[j] = g[k] => j = k
  BY ClosedList
<1>2. stack = <<>> /\ UNCHANGED <<plugins_list, stack, setups, frame, errata>>
  BY DEF Close
<1>3. Len(stack) = 0 /\ Len(stack') = 0
  BY <1>2
<1>4. ASSUME NEW k \in 1..Len(activeStates'), NEW m \in 1..Len(plugins_list)
      PROVE  /\ ~ToRegister(g[k], m) /\ ~ToInitiate(g[k], m)
             /\ ~(ToRegister(k, m)') /\ ~(ToInitiate(k, m)')
             /\ activeStates'[k] = activeStates[g[k]] /\ g[k] \in 1..Len(activeStates)
  BY <1>1, <1>3 DEF ToRegister, ToInitiate
<1>5. ASSUME NEW k \in 1..Len(activeStates'), NEW m \in 1..Len(plugins_list)
      PROVE  /\ \/ setups[activeStates'[k]][plugins_list[m]] > 0
                \/ <<activeStates'[k], plugins_list[m]>> \in skipped
             /\ setups[activeStates'[k]][plugins_list[m]]
                  + (IF ToRegister(k, m)' THEN 1 ELSE 0) + (IF ToInitiate(k, m)' THEN 1 ELSE 0)
                <= IF <<activeStates'[k], plugins_list[m]>> \in nested THEN 2 ELSE 1
  <2> DEFINE i == g[k]
  <2>1. /\ ~ToRegister(i, m) /\ ~ToInitiate(i, m)
        /\ ~(ToRegister(k, m)') /\ ~(ToInitiate(k, m)')
        /\ activeStates'[k] = activeStates[i] /\ i \in 1..Len(activeStates)
    BY <1>4
  <2> HIDE DEF i
  <2>2. /\ setups[activeStates[i]][plugins_list[m]] > 0
           \/ <<activeStates[i], plugins_list[m]>> \in skipped
    BY <2>1 DEF DebtInv, SetUpOrOwed
  <2>3. setups[activeStates[i]][plugins_list[m]]
          + (IF ToRegister(i, m) THEN 1 ELSE 0) + (IF ToInitiate(i, m) THEN 1 ELSE 0)
        <= IF <<activeStates[i], plugins_list[m]>> \in nested THEN 2 ELSE 1
    BY <2>1 DEF DebtInv, NotTooOften
  <2>. QED
    BY <2>1, <2>2, <2>3
<1>6. SetUpOrOwed' /\ NotTooOften'
  BY <1>2, <1>5 DEF SetUpOrOwed, NotTooOften, errata
<1>7. HistoryOK' /\ NotLoadedNotSetUp' /\ SetUpTwiceOnlyIfNested'
  BY <1>2 DEF DebtInv, HistoryOK, NotLoadedNotSetUp, SetUpTwiceOnlyIfNested, frame, errata
<1>. QED
  BY <1>6, <1>7 DEF DebtInv

LEMMA DebtAfterUpdateBegins ==
  ASSUME Placed, DebtInv, Update
  PROVE  DebtInv'
<1> DEFINE pushed == [loop |-> "update", s |-> 1, p |-> 1, inside |-> NoVM]
<1>1. stack = <<>> /\ stack' = <<pushed>> \o stack
  BY DEF Update, Begin
<1>2. pushed \in Loops /\ pushed.loop = "update"
  BY DEF Loops
<1> HIDE DEF pushed
<1>3. Len(stack) = 0 /\ Len(stack') = 1 /\ stack'[1] = pushed
  BY <1>1, <1>2, EmptySeq, Pushed
<1>4. UNCHANGED <<activeStates, plugins_list, setups, nested, skipped>>
  BY DEF Update, lists, errata
<1>5. HistoryOK'
  <2>1. present' \subseteq Files /\ updated' = {}
    BY LenProperties, ElementOfSeq DEF Update, Range, Placed, ListsOK
  <2>. QED
    BY <1>4, <2>1 DEF DebtInv, HistoryOK
<1>6. ASSUME NEW k \in 1..Len(activeStates), NEW m \in 1..Len(plugins_list)
      PROVE  /\ ~ToRegister(k, m) /\ ~ToInitiate(k, m)
             /\ ~(ToRegister(k, m)') /\ ~(ToInitiate(k, m)')
  <2>1. ~WillRegister(pushed, k, m) /\ ~WillInitiate(pushed, k, m)
    BY <1>2 DEF WillRegister, WillInitiate
  <2>. QED
    BY <1>3, <2>1 DEF ToRegister, ToInitiate
<1>. QED
  BY <1>4, <1>5, <1>6, DebtKept

LEMMA DebtNext == Placed /\ DebtInv /\ [Next]_vars => DebtInv'
<1> SUFFICES ASSUME Placed, DebtInv, [Next]_vars PROVE DebtInv'
  OBVIOUS
<1>1. CASE UNCHANGED vars
  BY <1>1 DEF vars, lists, frame, errata, DebtInv, HistoryOK, SetUpOrOwed, NotTooOften,
              NotLoadedNotSetUp, SetUpTwiceOnlyIfNested, ToRegister, ToInitiate
<1>. QED
  BY <1>1, DebtAfterOpening, DebtAfterClosing, DebtAfterLoading, DebtAfterSetup,
     DebtAfterUpdateBegins, DebtAfterQuietStep DEF Next

-----------------------------------------------------------------------------
(* The loops of update. *)

\* The loop is past plugin m of state k.
Past(l, k, m) == k < l.s \/ (k = l.s /\ m < l.p)

FrameInv ==
  /\ present \subseteq Range(plugins_list)
  /\ \A i \in 1..Len(stack) : stack[i].loop = "update" =>
       \A k \in 1..Len(activeStates), m \in 1..Len(plugins_list) :
         Past(stack[i], k, m) /\ plugins_list[m] \in present \intersect Updaters
         => <<activeStates[k], plugins_list[m]>> \in updated

LEMMA FrameKept ==
  ASSUME FrameInv, UNCHANGED <<activeStates, plugins_list, updated, present>>,
         \A i \in 1..Len(stack') : stack'[i].loop = "update" =>
           \E j \in 1..Len(stack) : /\ stack[j].loop = "update"
                                    /\ stack'[i].s = stack[j].s /\ stack'[i].p = stack[j].p
  PROVE  FrameInv'
<1>1. present' \subseteq Range(plugins_list')
  BY DEF FrameInv
<1>2. ASSUME NEW i \in 1..Len(stack'), stack'[i].loop = "update",
             NEW k \in 1..Len(activeStates), NEW m \in 1..Len(plugins_list),
             Past(stack'[i], k, m), plugins_list[m] \in present \intersect Updaters
      PROVE  <<activeStates[k], plugins_list[m]>> \in updated
  <2>1. PICK j \in 1..Len(stack) : /\ stack[j].loop = "update"
                                   /\ stack'[i].s = stack[j].s /\ stack'[i].p = stack[j].p
    BY <1>2
  <2>2. Past(stack[j], k, m)
    BY <1>2, <2>1 DEF Past
  <2>. QED
    BY <1>2, <2>1, <2>2 DEF FrameInv
<1>. QED
  BY <1>1, <1>2 DEF FrameInv

\* The innermost loop goes on, and is not one of update or stays where it is.
LEMMA FrameWhenGoingOn ==
  ASSUME Placed, FrameInv, stack # <<>>, UNCHANGED <<lists, frame>>,
         NEW next \in Loops, GoOn(next),
         next.loop = "update" => next.loop = Top.loop /\ next.s = Top.s /\ next.p = Top.p
  PROVE  FrameInv'
<1>1. Top = stack[1] /\ Len(stack) \in Nat \ {0}
  BY InnermostPlace
<1>2. /\ Len(stack') = Len(stack)
      /\ stack'[1] = next
      /\ \A i \in 2..Len(stack) : stack'[i] = stack[i]
  BY WentOn DEF Placed, ListsOK
<1>3. ASSUME NEW i \in 1..Len(stack'), stack'[i].loop = "update"
      PROVE  \E j \in 1..Len(stack) : /\ stack[j].loop = "update"
                                      /\ stack'[i].s = stack[j].s /\ stack'[i].p = stack[j].p
  <2>1. CASE i = 1
    BY <1>1, <1>2, <1>3, <2>1
  <2>2. CASE i # 1
    <3>1. i \in 2..Len(stack) /\ i \in 1..Len(stack)
      BY <1>1, <1>2, <2>2
    <3>. QED
      BY <1>2, <1>3, <3>1
  <2>. QED
    BY <2>1, <2>2
<1>. QED
  BY <1>3, FrameKept DEF lists, frame

LEMMA FrameWhenEnding ==
  ASSUME Placed, FrameInv, stack # <<>>, UNCHANGED <<lists, frame>>, End
  PROVE  FrameInv'
<1>1. Len(stack) \in Nat \ {0}
  BY InnermostPlace
<1>2. /\ Len(stack') = Len(stack) - 1
      /\ \A i \in 1..Len(stack') : stack'[i] = stack[i + 1]
  BY Ended DEF Placed, ListsOK
<1>3. \A i \in 1..Len(stack') : i + 1 \in 1..Len(stack) /\ stack'[i] = stack[i + 1]
  BY <1>1, <1>2
<1>. QED
  BY <1>3, FrameKept DEF lists, frame

\* The plugin that is loaded was not present when the frame began.
LEMMA FrameAfterLoading ==
  ASSUME Placed, FrameInv, NEW f \in Files, LoadPlugin(f)
  PROVE  FrameInv'
<1> DEFINE pushed == [loop |-> "register", s |-> 1, p |-> Len(plugins_list) + 1, inside |-> NoVM]
<1>1. /\ plugins_list' \in Seq(Files)
      /\ Len(plugins_list') = Len(plugins_list) + 1
      /\ \A m \in 1..Len(plugins_list) : plugins_list'[m] = plugins_list[m]
      /\ plugins_list'[Len(plugins_list) + 1] = f
  BY AppendProperties DEF LoadPlugin, Placed, ListsOK
<1>2. Len(plugins_list) \in Nat /\ Len(stack) \in Nat
  BY LenProperties DEF Placed, ListsOK
<1>3. pushed \in Loops /\ pushed.loop = "register"
  BY <1>2 DEF Loops
<1>4. stack' = <<pushed>> \o stack
  BY DEF LoadPlugin, Begin
<1> HIDE DEF pushed
<1>5. /\ Len(stack') = Len(stack) + 1
      /\ stack'[1] = pushed
      /\ \A i \in 2..Len(stack') : stack'[i] = stack[i - 1]
  BY <1>3, <1>4, Pushed DEF Placed, ListsOK
<1>6. UNCHANGED <<activeStates, updated, present>>
  BY DEF LoadPlugin, frame
<1>7. Range(plugins_list) \subseteq Range(plugins_list')
  <2>1. DOMAIN plugins_list = 1..Len(plugins_list) /\ DOMAIN plugins_list' = 1..Len(plugins_list')
    BY <1>1, LenProperties DEF Placed, ListsOK
  <2>2. \A m \in 1..Len(plugins_list) : m \in 1..Len(plugins_list') /\ plugins_list'[m] = plugins_list[m]
    BY <1>1, <1>2
  <2>. QED
    BY <2>1, <2>2 DEF Range
<1>8. f \notin present
  BY DEF LoadPlugin, IsNew, FrameInv
<1>9. ASSUME NEW i \in 1..Len(stack'), stack'[i].loop = "update",
             NEW k \in 1..Len(activeStates), NEW m \in 1..Len(plugins_list'),
             Past(stack'[i], k, m), plugins_list'[m] \in present \intersect Updaters
      PROVE  <<activeStates[k], plugins_list'[m]>> \in updated
  <2>1. i # 1
    BY <1>3, <1>5, <1>9
  <2>2. i \in 2..Len(stack') /\ i - 1 \in 1..Len(stack)
    BY <1>2, <1>5, <2>1
  <2>3. stack'[i] = stack[i - 1]
    BY <1>5, <2>2
  <2>4. m # Len(plugins_list) + 1
    BY <1>1, <1>8, <1>9
  <2>5. m \in 1..Len(plugins_list)
    BY <1>1, <1>2, <2>4
  <2>6. plugins_list'[m] = plugins_list[m]
    BY <1>1, <2>5
  <2>. QED
    BY <1>9, <2>2, <2>3, <2>5, <2>6 DEF FrameInv
<1>. QED
  BY <1>6, <1>7, <1>9 DEF FrameInv

\* The loop of update goes to the next plugin, or to the next state.
LEMMA FrameAfterUpdateStep ==
  ASSUME Placed, FrameInv, UpdatePlugin \/ UpdateState
  PROVE  FrameInv'
<1>1. stack # <<>> /\ Top.loop = "update" /\ UNCHANGED <<lists, present>> /\ Top.s <= Len(activeStates)
  BY DEF UpdatePlugin, UpdateState, Looping, StatesLeft, frame
<1>2. /\ Top = stack[1] /\ Top \in Loops
      /\ Top.s \in 1..Len(activeStates) + 1 /\ Top.p \in 1..Len(plugins_list) + 1
      /\ Len(activeStates) \in Nat /\ Len(plugins_list) \in Nat /\ Len(stack) \in Nat \ {0}
      /\ Top.p + 1 \in Nat /\ Top.s + 1 \in Nat
  BY <1>1, InnermostPlace
<1>3. Len(stack) = 1
  BY <1>1, <1>2, OwedOnce
<1>4. ASSUME NEW k \in 1..Len(activeStates), NEW m \in 1..Len(plugins_list),
             Past(Top, k, m), plugins_list[m] \in present \intersect Updaters
      PROVE  <<activeStates[k], plugins_list[m]>> \in updated
  BY <1>1, <1>2, <1>3, <1>4 DEF FrameInv
<1>5. ASSUME NEW next \in Loops, GoOn(next), updated \subseteq updated',
             \A k \in 1..Len(activeStates), m \in 1..Len(plugins_list) :
               Past(next, k, m) /\ plugins_list[m] \in present \intersect Updaters
               => Past(Top, k, m) \/ <<activeStates[k], plugins_list[m]>> \in updated'
      PROVE  FrameInv'
  <2>1. Len(stack') = 1 /\ stack'[1] = next
    BY <1>1, <1>3, <1>5, WentOn DEF Placed, ListsOK
  <2>2. ASSUME NEW k \in 1..Len(activeStates), NEW m \in 1..Len(plugins_list),
               Past(next, k, m), plugins_list[m] \in present \intersect Updaters
        PROVE  <<activeStates[k], plugins_list[m]>> \in updated'
    BY <1>4, <1>5, <2>2
  <2>3. activeStates' = activeStates /\ plugins_list' = plugins_list /\ present' = present
    BY <1>1 DEF lists
  <2>. QED
    BY <2>1, <2>2, <2>3 DEF FrameInv
<1>6. CASE UpdatePlugin
  <2>1. Top.p <= Len(plugins_list)
    BY <1>6 DEF UpdatePlugin, PluginsLeft
  <2>2. activeStates[Top.s] \in VMs
    BY <1>1, <1>2, ElementOfSeq DEF Placed, ListsOK
  <2>3. PICK v \in VMs \union {NoVM} : GoOn([Top EXCEPT !.p = @ + 1, !.inside = v])
    <3>1. GoOn([Top EXCEPT !.p = @ + 1,
                           !.inside = IF plugins_list[Top.p] \in Updaters
                                      THEN activeStates[Top.s] ELSE NoVM])
      BY <1>6 DEF UpdatePlugin
    <3>. QED
      BY <2>2, <3>1
  <2> DEFINE next == [Top EXCEPT !.p = @ + 1, !.inside = v]
  <2>4. next \in Loops /\ next.s = Top.s /\ next.p = Top.p + 1
    BY <1>2 DEF Loops
  <2>5. GoOn(next)
    BY <2>3
  <2>6. /\ updated \subseteq updated'
        /\ plugins_list[Top.p] \in Updaters
           => <<activeStates[Top.s], plugins_list[Top.p]>> \in updated'
    BY <1>6 DEF UpdatePlugin
  <2> HIDE DEF next
  <2>7. ASSUME NEW k \in 1..Len(activeStates), NEW m \in 1..Len(plugins_list),
               Past(next, k, m), plugins_list[m] \in present \intersect Updaters
        PROVE  Past(Top, k, m) \/ <<activeStates[k], plugins_list[m]>> \in updated'
    <3>1. Past(Top, k, m) \/ (k = Top.s /\ m = Top.p)
      BY <1>2, <2>4, <2>7 DEF Past
    <3>. QED
      BY <2>6, <2>7, <3>1
  <2>. QED
    BY <1>5, <2>4, <2>5, <2>6, <2>7
<1>7. CASE UpdateState
  <2> DEFINE next == [Top EXCEPT !.s = @ + 1, !.p = 1]
  <2>1. GoOn(next) /\ UNCHANGED updated /\ Top.p > Len(plugins_list)
    BY <1>2, <1>7 DEF UpdateState, NextState, PluginsLeft, frame
  <2>2. next \in Loops /\ next.s = Top.s + 1 /\ next.p = 1
    BY <1>2 DEF Loops
  <2> HIDE DEF next
  <2>3. \A k \in 1..Len(activeStates), m \in 1..Len(plugins_list) :
          Past(next, k, m) => Past(Top, k, m)
    BY <1>2, <2>1, <2>2 DEF Past
  <2>. QED
    BY <1>5, <2>1, <2>2, <2>3
<1>. QED
  BY <1>6, <1>7

LEMMA FrameNext == Placed /\ FrameInv /\ [Next]_vars => FrameInv'
<1> SUFFICES ASSUME Placed, FrameInv, [Next]_vars PROVE FrameInv'
  OBVIOUS
<1>1. ASSUME NEW v \in VMs, InitiateLua(v) PROVE FrameInv'
  <2> DEFINE pushed == [loop |-> "initiate", s |-> Len(activeStates) + 1, p |-> 1, inside |-> NoVM]
  <2>1. stack = <<>> /\ stack' = <<pushed>> \o stack /\ UNCHANGED <<plugins_list, present>>
    BY <1>1 DEF InitiateLua, Begin, frame
  <2>2. pushed \in Loops /\ pushed.loop = "initiate"
    BY LenProperties DEF Loops, Placed, ListsOK
  <2> HIDE DEF pushed
  <2>3. Len(stack') = 1 /\ stack'[1] = pushed
    BY <2>1, <2>2, EmptySeq, Pushed
  <2>. QED
    BY <2>1, <2>2, <2>3 DEF FrameInv
<1>2. CASE Update
  <2> DEFINE pushed == [loop |-> "update", s |-> 1, p |-> 1, inside |-> NoVM]
  <2>1. stack = <<>> /\ stack' = <<pushed>> \o stack
    BY <1>2 DEF Update, Begin
  <2>2. pushed \in Loops /\ pushed.s = 1 /\ pushed.p = 1
    BY DEF Loops
  <2> HIDE DEF pushed
  <2>3. Len(stack') = 1 /\ stack'[1] = pushed
    BY <2>1, <2>2, EmptySeq, Pushed
  <2>4. present' \subseteq Range(plugins_list')
    BY <1>2 DEF Update, lists
  <2>5. \A k \in 1..Len(activeStates'), m \in 1..Len(plugins_list') : ~Past(pushed, k, m)
    BY <2>2 DEF Past
  <2>. QED
    BY <2>3, <2>4, <2>5 DEF FrameInv
<1>3. ASSUME NEW v \in VMs, Close(v) PROVE FrameInv'
  <2>1. stack' = <<>> /\ UNCHANGED <<plugins_list, present>>
    BY <1>3 DEF Close, frame
  <2>. QED
    BY <2>1 DEF FrameInv
<1>4. ASSUME NEW f \in Files, LoadPlugin(f) PROVE FrameInv'
  BY <1>4, FrameAfterLoading
<1>5. CASE UpdateEnds
  BY <1>5 DEF UpdateEnds, FrameInv
<1>6. CASE UNCHANGED vars
  BY <1>6 DEF vars, lists, frame, FrameInv
<1>7. CASE InitiateEnds \/ RegisterEnds \/ SetupRaises \/ (InitiateBase /\ End)
  BY <1>7, FrameWhenEnding DEF InitiateEnds, RegisterEnds, SetupRaises, InitiateBase, Looping
<1>8. ASSUME stack # <<>>
      PROVE  /\ Top \in Loops /\ Top.p + 1 \in Nat /\ Top.s + 1 \in Nat
             /\ Top.s \in 1..Len(activeStates) + 1 /\ Len(activeStates) \in Nat
             /\ Top.loop = "initiate" => Top.s \in 1..Len(activeStates)
             /\ \A k \in 1..Len(activeStates) : activeStates[k] \in VMs
  BY <1>8, InnermostPlace, ElementOfSeq DEF Placed, ListsOK
<1>9. CASE Return
  <2> DEFINE next == [Top EXCEPT !.inside = NoVM]
  <2>1. stack # <<>> /\ UNCHANGED <<lists, frame>> /\ GoOn(next)
    BY <1>9 DEF Return
  <2>2. next \in Loops /\ next.loop = Top.loop /\ next.s = Top.s /\ next.p = Top.p
    BY <1>8, <2>1 DEF Loops
  <2> HIDE DEF next
  <2>. QED
    BY <2>1, <2>2, FrameWhenGoingOn
<1>10. CASE InitiateBase /\ ~End
  <2> DEFINE next == [Top EXCEPT !.loop = "base", !.inside = activeStates[Top.s]]
  <2>1. stack # <<>> /\ UNCHANGED <<lists, frame>> /\ GoOn(next) /\ Top.loop = "initiate"
    BY <1>10 DEF InitiateBase, Looping
  <2>2. next \in Loops /\ next.loop = "base"
    BY <1>8, <2>1 DEF Loops
  <2> HIDE DEF next
  <2>. QED
    BY <2>1, <2>2, FrameWhenGoingOn
<1>11. CASE InitiatePlugin \/ RegisterState
  <2>1. stack # <<>> /\ UNCHANGED <<lists, frame>> /\ Top.s <= Len(activeStates)
        /\ Top.loop # "update"
    <3>1. CASE InitiatePlugin
      BY <1>8, <3>1 DEF InitiatePlugin, Looping
    <3>2. CASE RegisterState
      BY <3>2 DEF RegisterState, Looping, StatesLeft
    <3>. QED
      BY <1>11, <3>1, <3>2
  <2>2. PICK mid \in {[Top EXCEPT !.p = @ + 1], [Top EXCEPT !.s = @ + 1]} :
          GoOn([mid EXCEPT !.inside = activeStates[Top.s]])
    BY <1>11 DEF InitiatePlugin, RegisterState, AddToState
  <2>3. mid \in Loops /\ mid.loop = Top.loop
    BY <1>8, <2>1, <2>2 DEF Loops
  <2> DEFINE next == [mid EXCEPT !.inside = activeStates[Top.s]]
  <2>4. activeStates[Top.s] \in VMs
    BY <1>8, <2>1
  <2>5. next \in Loops /\ next.loop = Top.loop
    BY <2>3, <2>4 DEF Loops
  <2>6. GoOn(next)
    BY <2>2
  <2> HIDE DEF next
  <2>. QED
    BY <2>1, <2>5, <2>6, FrameWhenGoingOn
<1>. QED
  BY <1>1, <1>2, <1>3, <1>4, <1>5, <1>6, <1>7, <1>9, <1>10, <1>11, FrameAfterUpdateStep DEF Next

-----------------------------------------------------------------------------
(* The properties. *)

IInv == Placed /\ DebtInv /\ FrameInv

LEMMA InvInit == Init => IInv
<1> SUFFICES ASSUME Init PROVE IInv
  OBVIOUS
<1>1. Len(stack) = 0 /\ Len(activeStates) = 0 /\ Len(plugins_list) = 0
  BY DEF Init
<1>2. Placed
  BY <1>1 DEF Init, Placed, ListsOK, InBounds, NoDuplicates, StackShape
<1>3. DebtInv
  BY <1>1 DEF Init, DebtInv, HistoryOK, SetUpOrOwed, NotTooOften, NotLoadedNotSetUp,
              SetUpTwiceOnlyIfNested
<1>4. FrameInv
  BY <1>1 DEF Init, FrameInv
<1>. QED
  BY <1>2, <1>3, <1>4 DEF IInv

LEMMA Invariance == Spec => []IInv
<1>1. IInv /\ [Next]_vars => IInv'
  BY PlacedNext, DebtNext, FrameNext DEF IInv
<1>. QED
  BY <1>1, InvInit, PTL DEF Spec

\* The variables keep their types, and no loop counts past the end of a list it
\* walks, however deep plugins load plugins: no index of LoadPlugin, initiate_lua
\* or update is out of bounds.
THEOREM TypeCorrect == Spec => []TypeOK
<1>1. IInv => TypeOK
  BY DEF IInv, Placed, ListsOK, InBounds, DebtInv, HistoryOK, TypeOK
<1>. QED
  BY <1>1, Invariance, PTL

\* When no loop is under way nothing is owed: every plugin of plugins_list was
\* set up in every active state, but for what an error kept from it
\* (RegisterPluginForActiveStates, and the loop of initiate_lua).
THEOREM EveryPluginEverywhere == Spec => []EveryStateHasEveryPlugin
<1>1. IInv => EveryStateHasEveryPlugin
  <2> SUFFICES ASSUME IInv, stack = <<>>,
                      NEW v \in Range(activeStates), NEW f \in Range(plugins_list)
               PROVE  setups[v][f] > 0 \/ <<v, f>> \in skipped
    BY DEF EveryStateHasEveryPlugin
  <2>1. PICK k \in 1..Len(activeStates) : activeStates[k] = v
    BY LenProperties DEF IInv, Placed, ListsOK, Range
  <2>2. PICK m \in 1..Len(plugins_list) : plugins_list[m] = f
    BY LenProperties DEF IInv, Placed, ListsOK, Range
  <2>3. ~ToRegister(k, m) /\ ~ToInitiate(k, m)
    BY DEF ToRegister, ToInitiate
  <2>. QED
    BY <2>1, <2>2, <2>3 DEF IInv, DebtInv, SetUpOrOwed
<1>. QED
  BY <1>1, Invariance, PTL

\* No plugin is set up more than twice in a state, and only those loaded while
\* the state was given its plugins are set up more than once.
THEOREM SetUpOnceOrTwice == Spec => []SetUpTwiceOnlyIfNested
<1>1. IInv => SetUpTwiceOnlyIfNested
  BY DEF IInv, DebtInv
<1>. QED
  BY <1>1, Invariance, PTL

\* update() calls a plugin in a state only after its setup there, or if an error
\* kept it from being set up: when update's loop runs no other loop owes a setup.
THEOREM UpdatesFollowSetup == Spec => UpdateAfterSetup
<1>1. ASSUME IInv, [Next]_vars, NEW x \in updated' \ updated
      PROVE  setups[x[1]][x[2]] > 0 \/ x \in skipped
  <2>1. UpdatePlugin
    BY <1>1 DEF Next, vars, frame, InitiateLua, Close, InitiatePlugin, InitiateBase,
                InitiateEnds, LoadPlugin, RegisterState, SetupRaises, RegisterEnds, Update,
                UpdateState, UpdateEnds, Return
  <2>2. x = <<activeStates[Top.s], plugins_list[Top.p]>>
    BY <1>1, <2>1 DEF UpdatePlugin
  <2>3. /\ stack # <<>> /\ Top.loop = "update"
        /\ Top.s <= Len(activeStates) /\ Top.p <= Len(plugins_list)
    BY <2>1 DEF UpdatePlugin, Looping, StatesLeft, PluginsLeft
  <2>4. /\ Top = stack[1]
        /\ Top.s \in 1..Len(activeStates) /\ Top.p \in 1..Len(plugins_list)
        /\ Top.s \in Nat /\ Top.p \in Nat
    BY <1>1, <2>3, InnermostPlace DEF IInv
  <2>5. Len(stack) = 1
    BY <1>1, <2>3, <2>4, OwedOnce DEF IInv
  <2>6. ~ToRegister(Top.s, Top.p) /\ ~ToInitiate(Top.s, Top.p)
    BY <2>3, <2>4, <2>5 DEF ToRegister, ToInitiate, WillRegister, WillInitiate
  <2>7. \/ setups[activeStates[Top.s]][plugins_list[Top.p]] > 0
        \/ <<activeStates[Top.s], plugins_list[Top.p]>> \in skipped
    BY <1>1, <2>4, <2>6 DEF IInv, DebtInv, SetUpOrOwed
  <2>. QED
    BY <2>2, <2>7
<1>2. IInv /\ [Next]_vars
      => [\A x \in updated' \ updated : setups[x[1]][x[2]] > 0 \/ x \in skipped]_vars
  BY <1>1
<1>. QED
  BY <1>2, Invariance, PTL DEF Spec, UpdateAfterSetup

\* When update's loops are through, every plugin that was loaded when they began
\* and has an update function was called in every active state.
THEOREM FramesUpdateAll == Spec => FrameUpdatesAll
<1>1. ASSUME IInv, [Next]_vars, Looping("update"), Len(stack') < Len(stack)
      PROVE  Range(activeStates) \X (present \intersect Updaters) \subseteq updated
  <2>1. stack # <<>> /\ Top.loop = "update" /\ Top.inside = NoVM /\ stack \in Seq(Loops)
    BY <1>1 DEF Looping, IInv, Placed, ListsOK
  <2>2. /\ Top = stack[1] /\ Top \in Loops /\ Top.s \in 1..Len(activeStates) + 1
        /\ Len(activeStates) \in Nat /\ Len(stack) \in Nat \ {0}
        /\ Top.p + 1 \in Nat /\ Top.s + 1 \in Nat
    BY <1>1, <2>1, InnermostPlace DEF IInv
  <2>3. ~StatesLeft
    <3>1. CASE UpdatePlugin
      <4>1. PICK v \in VMs \union {NoVM} : GoOn([Top EXCEPT !.p = @ + 1, !.inside = v])
        <5>1. activeStates[Top.s] \in VMs
          BY <1>1, <2>2, <3>1, ElementOfSeq DEF UpdatePlugin, StatesLeft, IInv, Placed, ListsOK
        <5>2. GoOn([Top EXCEPT !.p = @ + 1,
                               !.inside = IF plugins_list[Top.p] \in Updaters
                                          THEN activeStates[Top.s] ELSE NoVM])
          BY <3>1 DEF UpdatePlugin
        <5>. QED
          BY <5>1, <5>2
      <4> DEFINE next == [Top EXCEPT !.p = @ + 1, !.inside = v]
      <4>2. next \in Loops /\ GoOn(next)
        BY <2>2, <4>1 DEF Loops
      <4> HIDE DEF next
      <4>3. Len(stack') = Len(stack)
        BY <2>1, <4>2, WentOn
      <4>4. Len(stack') < Len(stack)
        BY <1>1
      <4>. QED
        BY <2>2, <4>3, <4>4
    <3>2. CASE UpdateState
      <4>1. NextState \in Loops
        BY <2>2 DEF Loops, NextState
      <4>2. Len(stack') = Len(stack)
        BY <2>1, <3>2, <4>1, WentOn DEF UpdateState
      <4>. QED
        BY <1>1, <2>2, <4>2
    <3>3. CASE UpdateEnds
      BY <3>3 DEF UpdateEnds
    <3>4. CASE UNCHANGED vars
      BY <1>1, <2>2, <3>4 DEF vars
    <3>5. ~InitiatePlugin /\ ~InitiateBase /\ ~InitiateEnds /\ ~RegisterState /\ ~SetupRaises
          /\ ~RegisterEnds /\ ~Return /\ ~Update
          /\ (\A v \in VMs : ~InitiateLua(v) /\ ~Close(v)) /\ (\A f \in Files : ~LoadPlugin(f))
      BY <2>1 DEF InitiatePlugin, InitiateBase, InitiateEnds, RegisterState, SetupRaises,
                  RegisterEnds, Return, Update, InitiateLua, Close, LoadPlugin, CodeRuns, Looping
    <3>. QED
      BY <1>1, <3>1, <3>2, <3>3, <3>4, <3>5 DEF Next
  <2>4. \A k \in 1..Len(activeStates), m \in 1..Len(plugins_list) : Past(Top, k, m)
    BY <2>2, <2>3 DEF StatesLeft, Past
  <2>5. ASSUME NEW v \in Range(activeStates), NEW f \in present \intersect Updaters
        PROVE  <<v, f>> \in updated
    <3>1. PICK k \in 1..Len(activeStates) : activeStates[k] = v
      BY <1>1, LenProperties DEF IInv, Placed, ListsOK, Range
    <3>2. PICK m \in 1..Len(plugins_list) : plugins_list[m] = f
      BY <1>1, LenProperties DEF IInv, FrameInv, Placed, ListsOK, Range
    <3>3. 1 \in 1..Len(stack) /\ stack[1].loop = "update" /\ Past(stack[1], k, m)
      BY <2>1, <2>2, <2>4
    <3>4. <<activeStates[k], plugins_list[m]>> \in updated
      BY <1>1, <3>2, <3>3 DEF IInv, FrameInv
    <3>. QED
      BY <3>1, <3>2, <3>4
  <2>. QED
    BY <2>5
<1>2. IInv /\ [Next]_vars
      => [Looping("update") /\ Len(stack') < Len(stack)
          => Range(activeStates) \X (present \intersect Updaters) \subseteq updated]_vars
  BY <1>1
<1>. QED
  BY <1>2, Invariance, PTL DEF Spec, FrameUpdatesAll

-----------------------------------------------------------------------------
(* The updater. *)

HIDE NativePluginsAssumption

\* A process that is there has loaded the DLL, and the file it has loaded is
\* whole, under whichever of its two names.
ImagesWhole ==
  /\ \A p \in Procs : /\ image[p] = "dll" => Whole(dll)
                      /\ image[p] = "old" => Whole(old)
  /\ \A k \in Kids : kid[k] # "none" => image[k] # None
  /\ pc # "off" => image[Game] # None

\* What an installer has in hand is verified.
GotSigned == \A k \in Kids : kid[k] \in {"clear", "open", "write"} => got[k] \in Signed

\* Nobody but the one installer that is at it touches the new file, unless
\* spoiled says so, and it is whole when it comes to the renames.
NewFileInv ==
  /\ new \in Signed \union {None, Partial}
  /\ ~spoiled => \A j, k \in AtNew : j = k
  /\ ~spoiled /\ new = Partial => \A k \in Kids : kid[k] \notin {"aside", "into"}

FileInv == UpdaterTypeOK /\ ImagesWhole /\ WorkingDllInReach /\ GotSigned /\ NewFileInv
           /\ OnlyWholeSignedInstalled

USE UpdaterAssumption DEF Procs, Whole

LEMMA FileInvInit == UpdaterInit => FileInv
  BY DEF UpdaterInit, FileInv, UpdaterTypeOK, ImagesWhole, WorkingDllInReach, GotSigned, NewFileInv,
         OnlyWholeSignedInstalled, AtNew

LEMMA FileInvNext == FileInv /\ [UpdaterNext]_updaterVars => FileInv'
<1> SUFFICES ASSUME FileInv, [UpdaterNext]_updaterVars PROVE FileInv'
  OBVIOUS
<1> USE DEF FileInv, UpdaterTypeOK, ImagesWhole, WorkingDllInReach, GotSigned, NewFileInv,
            OnlyWholeSignedInstalled, AtNew, files, cacheVars, gameVars, kidVars, history,
            Go, Run, KidEnds, GameEnds, InUse, Pending, UpToDate
<1>1. ASSUME NEW k \in Kids, Ends(k) PROVE FileInv'
  BY <1>1 DEF Ends
<1>2. ASSUME NEW k \in Kids, Check(k) PROVE FileInv'
  BY <1>2 DEF Check
<1>3. ASSUME NEW k \in Kids, Accept(k) PROVE FileInv'
  BY <1>3 DEF Accept
<1>4. ASSUME NEW k \in Kids, Answer(k) PROVE FileInv'
  BY <1>4 DEF Answer
<1>5. ASSUME NEW k \in Kids, OpenCache(k) PROVE FileInv'
  <2>1. recent' \in BOOLEAN /\ meddled' \in BOOLEAN /\ spoiled' \in BOOLEAN
    BY <1>5 DEF OpenCache
  <2>. QED
    BY <1>5, <2>1 DEF OpenCache
<1>6. ASSUME NEW k \in Kids, SaveCache(k) PROVE FileInv'
  BY <1>6 DEF SaveCache
<1>7. ASSUME NEW k \in Kids, Download(k) PROVE FileInv'
  BY <1>7 DEF Download, Valid
<1>8. ASSUME NEW k \in Kids, ClearOld(k) PROVE FileInv'
  BY <1>8 DEF ClearOld
<1>9. ASSUME NEW k \in Kids, OpenNew(k) PROVE FileInv'
  <2>1. spoiled' \in BOOLEAN
    BY <1>9 DEF OpenNew
  <2>2. ~spoiled' => \A j \in Kids : kid[j] \notin {"write", "holding", "aside", "into"}
    BY <1>9 DEF OpenNew
  <2>3. \A j \in Kids : kid'[j] = IF j = k THEN "write" ELSE kid[j]
    BY <1>9 DEF OpenNew
  <2>4. NewFileInv'
    BY <1>9, <2>2, <2>3 DEF OpenNew
  <2>. QED
    BY <1>9, <2>1, <2>4 DEF OpenNew
<1>10. ASSUME NEW k \in Kids, WriteNew(k) PROVE FileInv'
  <2>1. spoiled' \in BOOLEAN
    BY <1>10 DEF WriteNew
  <2>. QED
    BY <1>10, <2>1 DEF WriteNew
<1>11. ASSUME NEW k \in Kids, MoveAside(k) PROVE FileInv'
  BY <1>11 DEF MoveAside, OldIsFree
<1>12. ASSUME NEW k \in Kids, MoveInto(k) PROVE FileInv'
  BY <1>12 DEF MoveInto, Free
<1>13. ASSUME NEW k \in Kids, InstallFails(k) PROVE FileInv'
  BY <1>13 DEF InstallFails, Fails
<1>14. CASE Start
  BY <1>14 DEF Start
<1>15. CASE RemoveLeftOver
  BY <1>15 DEF RemoveLeftOver
<1>16. CASE SkipCheck
  BY <1>16 DEF SkipCheck
<1>17. CASE CheckTimesOut
  BY <1>17 DEF CheckTimesOut
<1>18. CASE CheckEnds
  BY <1>18 DEF CheckEnds
<1>19. CASE Decline
  BY <1>19 DEF Decline
<1>20. CASE InstallEnds
  BY <1>20 DEF InstallEnds
<1>21. CASE Quit
  BY <1>21 DEF Quit
<1>22. ASSUME NEW v \in Versions, Publish(v) PROVE FileInv'
  BY <1>22 DEF Publish
<1>23. CASE HourPasses
  <2>1. recent' \in BOOLEAN
    BY <1>23 DEF HourPasses
  <2>. QED
    BY <1>23, <2>1 DEF HourPasses
<1>24. CASE UNCHANGED updaterVars
  BY <1>24 DEF updaterVars
<1>. QED
  BY <1>1, <1>2, <1>3, <1>4, <1>5, <1>6, <1>7, <1>8, <1>9, <1>10, <1>11, <1>12,
     <1>13, <1>14, <1>15, <1>16, <1>17, <1>18, <1>19, <1>20, <1>21, <1>22, <1>23, <1>24
  DEF UpdaterNext, KidNext, GameNext

THEOREM FileInvariant == UpdaterSpec => []FileInv
<1>1. UpdaterInit => FileInv
  BY FileInvInit
<1>2. FileInv /\ [UpdaterNext]_updaterVars => FileInv'
  BY FileInvNext
<1>. QED
  BY <1>1, <1>2, PTL DEF UpdaterSpec

\* The variables of Updater keep their types.
THEOREM UpdaterTypeCorrect == UpdaterSpec => []UpdaterTypeOK
<1>1. FileInv => UpdaterTypeOK
  BY DEF FileInv
<1>. QED
  BY <1>1, FileInvariant, PTL

\* However many installers there are and wherever processes end, a whole DLL is
\* left under its own name or with ".old" behind it.
THEOREM DllStaysInReach == UpdaterSpec => []WorkingDllInReach
<1>1. FileInv => WorkingDllInReach
  BY DEF FileInv
<1>. QED
  BY <1>1, FileInvariant, PTL

\* What takes the place of the DLL has been verified, and is whole unless the
\* new file was lost when it was closed or written by two.
THEOREM OnlyVerifiedIsInstalled == UpdaterSpec => []OnlyWholeSignedInstalled
<1>1. FileInv => OnlyWholeSignedInstalled
  BY DEF FileInv
<1>. QED
  BY <1>1, FileInvariant, PTL

-----------------------------------------------------------------------------
(* The check and the offer. *)

\* The game waits for a check that has not saved before it is over; and until
\* another check touches the file, that holds what the game's own has saved.
OfferInv ==
  /\ child \in Kids => pc \in {"checking", "installing"}
  /\ pc \in {"init", "read"} => answered = None
  /\ pc = "checking" /\ child \in Kids =>
       /\ kid[child] \in {"check", "save", "saving", "over"}
       /\ answered # None => kid[child] = "over"
  /\ pc = "checking" /\ answered # None /\ ~meddled => cache = answered

LEMMA OfferInvNext == FileInv /\ OfferInv /\ [UpdaterNext]_updaterVars => OfferInv'
<1> SUFFICES ASSUME FileInv, OfferInv, [UpdaterNext]_updaterVars PROVE OfferInv'
  OBVIOUS
<1> USE DEF FileInv, UpdaterTypeOK, OfferInv, files, cacheVars, gameVars, kidVars, history,
            Go, Run, KidEnds, GameEnds
<1>1. ASSUME NEW k \in Kids, Ends(k) PROVE OfferInv'
  BY <1>1 DEF Ends
<1>2. ASSUME NEW k \in Kids, Check(k) PROVE OfferInv'
  BY <1>2 DEF Check
<1>3. ASSUME NEW k \in Kids, Accept(k) PROVE OfferInv'
  BY <1>3 DEF Accept
<1>4. ASSUME NEW k \in Kids, Answer(k) PROVE OfferInv'
  BY <1>4 DEF Answer
<1>5. ASSUME NEW k \in Kids, OpenCache(k) PROVE OfferInv'
  BY <1>5 DEF OpenCache
<1>6. ASSUME NEW k \in Kids, SaveCache(k) PROVE OfferInv'
  BY <1>6 DEF SaveCache
<1>7. ASSUME NEW k \in Kids, Download(k) PROVE OfferInv'
  BY <1>7 DEF Download
<1>8. ASSUME NEW k \in Kids, ClearOld(k) PROVE OfferInv'
  BY <1>8 DEF ClearOld
<1>9. ASSUME NEW k \in Kids, OpenNew(k) PROVE OfferInv'
  BY <1>9 DEF OpenNew
<1>10. ASSUME NEW k \in Kids, WriteNew(k) PROVE OfferInv'
  BY <1>10 DEF WriteNew
<1>11. ASSUME NEW k \in Kids, MoveAside(k) PROVE OfferInv'
  BY <1>11 DEF MoveAside
<1>12. ASSUME NEW k \in Kids, MoveInto(k) PROVE OfferInv'
  BY <1>12 DEF MoveInto
<1>13. ASSUME NEW k \in Kids, InstallFails(k) PROVE OfferInv'
  BY <1>13 DEF InstallFails, Fails
<1>14. CASE Start
  BY <1>14 DEF Start
<1>15. CASE RemoveLeftOver
  BY <1>15 DEF RemoveLeftOver
<1>16. CASE SkipCheck
  BY <1>16 DEF SkipCheck
<1>17. CASE CheckTimesOut
  BY <1>17 DEF CheckTimesOut
<1>18. CASE CheckEnds
  BY <1>18 DEF CheckEnds
<1>19. CASE Decline
  BY <1>19 DEF Decline
<1>20. CASE InstallEnds
  BY <1>20 DEF InstallEnds
<1>21. CASE Quit
  BY <1>21 DEF Quit
<1>22. ASSUME NEW v \in Versions, Publish(v) PROVE OfferInv'
  BY <1>22 DEF Publish
<1>23. CASE HourPasses
  BY <1>23 DEF HourPasses
<1>24. CASE UNCHANGED updaterVars
  BY <1>24 DEF updaterVars
<1>. QED
  BY <1>1, <1>2, <1>3, <1>4, <1>5, <1>6, <1>7, <1>8, <1>9, <1>10, <1>11, <1>12,
     <1>13, <1>14, <1>15, <1>16, <1>17, <1>18, <1>19, <1>20, <1>21, <1>22, <1>23, <1>24
  DEF UpdaterNext, KidNext, GameNext

THEOREM OfferInvariant == UpdaterSpec => []OfferInv
<1>1. UpdaterInit => OfferInv
  BY DEF UpdaterInit, OfferInv
<1>2. FileInv /\ OfferInv /\ [UpdaterNext]_updaterVars => OfferInv'
  BY OfferInvNext
<1>. QED
  BY <1>1, <1>2, FileInvariant, PTL DEF UpdaterSpec

\* What a step owes to the offer.
OfferStep ==
  pc = "checking" /\ child = NoKid /\ pc' \in {"prompt", "running"}
    /\ answered # None /\ ~meddled
  => (pc' = "prompt" <=> answered # SBLT_VERSION)

\* A start that was left alone offers an update exactly if the answer of its
\* own check calls for one.
THEOREM OffersAreCurrent == UpdaterSpec => OfferIsCurrent
<1>1. FileInv /\ OfferInv /\ [UpdaterNext]_updaterVars => [OfferStep]_updaterVars
  <2> SUFFICES ASSUME FileInv, OfferInv, UpdaterNext, pc = "checking", child = NoKid,
                      pc' \in {"prompt", "running"}, answered # None, ~meddled
               PROVE  pc' = "prompt" <=> answered # SBLT_VERSION
    BY DEF OfferStep
  <2>1. CheckEnds
    BY DEF UpdaterNext, KidNext, GameNext, Ends, KidEnds, Check, Accept, Answer, OpenCache, SaveCache,
           Download, ClearOld, OpenNew, WriteNew, MoveAside, MoveInto, InstallFails,
           Start, RemoveLeftOver, SkipCheck, CheckTimesOut, Decline, InstallEnds, Quit,
           GameEnds, Publish, HourPasses, gameVars, FileInv, UpdaterTypeOK
  <2>2. cache = answered
    BY DEF OfferInv
  <2>. QED
    BY <2>1, <2>2 DEF CheckEnds, Pending
<1>2. [][OfferStep]_updaterVars => OfferIsCurrent
  BY PTL DEF OfferStep, OfferIsCurrent
<1>. QED
  BY <1>1, <1>2, FileInvariant, OfferInvariant, PTL DEF UpdaterSpec
=============================================================================
