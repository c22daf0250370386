---------------------------- MODULE XAudioProofs -----------------------------
(***************************************************************************)
(* Proofs about blt.xaudio, for any number of files, names, addresses and  *)
(* handles: the cache is exact, what Lua has open can be used, nothing     *)
(* belongs to two owners, and a reset finds every source.                  *)
(***************************************************************************)
EXTENDS XAudio, FiniteSetTheorems, SequenceTheorems, TLAPS

-----------------------------------------------------------------------------
(* Buffers. *)

\* What is left of a sequence without its first element.
LEMMA TailFacts ==
  ASSUME NEW S, NEW s \in Seq(S), s # <<>>
  PROVE  /\ Head(s) \in S /\ Tail(s) \in Seq(S) /\ Len(Tail(s)) = Len(s) - 1
         /\ Head(s) \in Range(s) /\ Range(Tail(s)) \subseteq Range(s)
         /\ IsInjective(s) => IsInjective(Tail(s)) /\ Head(s) \notin Range(Tail(s))
<1>1. /\ Len(s) \in Nat \ {0} /\ DOMAIN s = 1..Len(s) /\ Head(s) = s[1]
      /\ Tail(s) \in Seq(S) /\ Len(Tail(s)) = Len(s) - 1
      /\ \A i \in 1..Len(s) - 1 : Tail(s)[i] = s[i + 1]
  OBVIOUS
<1>2. DOMAIN Tail(s) = 1..Len(s) - 1
  BY <1>1
<1>3. Head(s) \in S /\ Head(s) \in Range(s)
  BY <1>1 DEF Range
<1>4. ASSUME NEW y \in Range(Tail(s)) PROVE \E i \in 1..Len(s) - 1 : y = s[i + 1] /\ i + 1 \in DOMAIN s
  <2>1. PICK i \in 1..Len(s) - 1 : y = Tail(s)[i]
    BY <1>2 DEF Range
  <2>2. i + 1 \in 1..Len(s)
    BY <1>1
  <2>3. QED
    BY <1>1, <2>1, <2>2
<1>5. Range(Tail(s)) \subseteq Range(s)
  BY <1>4 DEF Range
<1>6. ASSUME IsInjective(s) PROVE IsInjective(Tail(s)) /\ Head(s) \notin Range(Tail(s))
  <2>1. \A i, j \in 1..Len(s) : s[i] = s[j] => i = j
    BY <1>1, <1>6 DEF IsInjective
  <2>2. ASSUME NEW i \in 1..Len(s) - 1, NEW j \in 1..Len(s) - 1, Tail(s)[i] = Tail(s)[j] PROVE i = j
    <3>1. i + 1 \in 1..Len(s) /\ j + 1 \in 1..Len(s)
      BY <1>1
    <3>2. i + 1 = j + 1
      BY <1>1, <2>1, <2>2, <3>1
    <3>3. QED
      BY <3>2
  <2>3. ASSUME Head(s) \in Range(Tail(s)) PROVE FALSE
    <3>1. PICK i \in 1..Len(s) - 1 : s[1] = s[i + 1]
      BY <1>1, <1>4, <2>3
    <3>2. 1 \in 1..Len(s) /\ i + 1 \in 1..Len(s)
      BY <1>1
    <3>3. 1 = i + 1
      BY <2>1, <3>1, <3>2
    <3>4. QED
      BY <3>3
  <2>4. QED
    BY <1>2, <2>2, <2>3 DEF IsInjective
<1>7. QED
  BY <1>1, <1>3, <1>5, <1>6

BufferTypes ==
  /\ alBuffers \subseteq BufferNames
  /\ xabuffer \in [BufferAddrs -> {Nil} \union XABuffers]
  /\ openBuffers \in [Files -> BufferAddrs \union {Nil}]
  /\ bufferHandle \in [Handles -> BufferAddrs \union {Nil}]
  /\ batch \in Seq(Files)
  /\ buffers \in Seq(BufferNames)
  /\ returned \subseteq Handles

\* loadbuffer has a fresh OpenAL buffer for each file name to go.
LoadInv == /\ Len(buffers) = Len(batch)
           /\ Range(buffers) \subseteq alBuffers
           /\ IsInjective(buffers)

\* No object has fewer users than open handles.
Users(b) == {h \in Handles : bufferHandle[h] = b}

UseCounts == \A b \in BufferAddrs :
               xabuffer[b] # Nil => Cardinality(Users(b)) <= xabuffer[b].usecount

BufferInv == BufferTypes /\ LoadInv /\ UseCounts /\ CacheExact /\ OpenHandleUsable /\ OneOwner

bufferVars == <<alBuffers, cacheVars, loadVars>>

\* What all steps below rely on about an object that is there.
LEMMA ObjectFields ==
  ASSUME BufferTypes, NEW b \in BufferAddrs, xabuffer[b] # Nil
  PROVE  xabuffer[b] \in XABuffers
  BY DEF BufferTypes

LEMMA UsersFinite ==
  ASSUME XAudioAssumption, NEW b
  PROVE  IsFiniteSet(Users(b)) /\ Cardinality(Users(b)) \in Nat
<1>1. Users(b) \in SUBSET Handles /\ IsFiniteSet(Handles)
  BY DEF Users, XAudioAssumption
<1>2. QED
  BY <1>1, FS_Subset, FS_CardinalityType

\* One handle more, or one less.
LEMMA OneUserMore ==
  ASSUME XAudioAssumption, BufferTypes, NEW h \in Handles, bufferHandle[h] = Nil, NEW b \in BufferAddrs,
         bufferHandle' = [bufferHandle EXCEPT ![h] = b]
  PROVE  /\ Cardinality(Users(b)') = Cardinality(Users(b)) + 1
         /\ \A c \in BufferAddrs : c # b => Users(c)' = Users(c)
<1>1. Nil \notin BufferAddrs
  BY DEF XAudioAssumption
<1>2. Users(b)' = Users(b) \union {h} /\ h \notin Users(b)
  BY <1>1 DEF Users, BufferTypes
<1>3. \A c \in BufferAddrs : c # b => Users(c)' = Users(c)
  BY <1>1 DEF Users, BufferTypes
<1>4. QED
  BY <1>2, <1>3, UsersFinite, FS_AddElement

LEMMA OneUserLess ==
  ASSUME XAudioAssumption, BufferTypes, NEW h \in Handles, NEW b \in BufferAddrs, bufferHandle[h] = b,
         bufferHandle' = [bufferHandle EXCEPT ![h] = Nil]
  PROVE  /\ Cardinality(Users(b)) \in Nat \ {0}
         /\ Cardinality(Users(b)') = Cardinality(Users(b)) - 1
         /\ Cardinality(Users(b)) = 1 => Users(b)' = {}
         /\ \A c \in BufferAddrs : c # b => Users(c)' = Users(c)
<1>1. Nil \notin BufferAddrs
  BY DEF XAudioAssumption
<1>2. Users(b)' = Users(b) \ {h} /\ h \in Users(b)
  BY <1>1 DEF Users, BufferTypes
<1>3. \A c \in BufferAddrs : c # b => Users(c)' = Users(c)
  BY <1>1 DEF Users, BufferTypes
<1>4. IsFiniteSet(Users(b)) /\ Cardinality(Users(b)) \in Nat
  BY UsersFinite
<1>5. IsFiniteSet(Users(b) \ {h}) /\ Cardinality(Users(b) \ {h}) = Cardinality(Users(b)) - 1
  BY <1>2, <1>4, FS_RemoveElement
<1>6. Cardinality(Users(b)) # 0
  BY <1>2, <1>4, FS_EmptySet
<1>7. Cardinality(Users(b)) = 1 => Users(b) \ {h} = {}
  BY <1>4, <1>5, FS_EmptySet
<1>8. QED
  BY <1>2, <1>3, <1>4, <1>5, <1>6, <1>7

LEMMA LoadBeginKeeps ==
  ASSUME XAudioAssumption, BufferInv, NEW files \in Batches, LoadBegin(files)
  PROVE  BufferInv'
<1>1. BufferTypes /\ LoadInv /\ OneOwner /\ batch = <<>> /\ Len(buffers) = 0
  BY DEF BufferInv, LoadInv, LoadBegin, Between
<1>2. PICK n \in 1..MaxBatch : files \in [1..n -> Files]
  BY DEF Batches
<1>3. n \in Nat /\ files \in Seq(Files) /\ Len(files) = n
  BY <1>2 DEF XAudioAssumption
<1>4. PICK fresh \in [1..n -> BufferNames \ alBuffers] :
         /\ IsInjective(fresh)
         /\ buffers' = fresh
         /\ alBuffers' = alBuffers \union Range(fresh)
  BY <1>3 DEF LoadBegin
<1>5. batch' = files /\ UNCHANGED <<xabuffer, openBuffers, bufferHandle, returned>>
  BY DEF LoadBegin, cacheVars
<1>6. fresh \in Seq(BufferNames) /\ Len(fresh) = n
  BY <1>3, <1>4
<1>7. Range(fresh) \subseteq BufferNames \ alBuffers
  BY <1>4 DEF Range
<1>8. BufferTypes'
  BY <1>1, <1>3, <1>4, <1>5, <1>6, <1>7 DEF BufferTypes
<1>9. LoadInv'
  BY <1>3, <1>4, <1>5, <1>6 DEF LoadInv
<1>10. Buffers' = Buffers
  BY <1>5 DEF Buffers
<1>11. UseCounts' /\ CacheExact'
  BY <1>5, <1>10 DEF BufferInv, UseCounts, Users, CacheExact
<1>12. OpenHandleUsable'
  BY <1>4, <1>5, <1>10 DEF BufferInv, OpenHandleUsable
<1>13. OneOwner'
  BY <1>1, <1>4, <1>5, <1>7, <1>10 DEF OneOwner
<1>14. QED
  BY <1>8, <1>9, <1>11, <1>12, <1>13 DEF BufferInv

\* What is left to do after a file.
LEMMA NextFileFacts ==
  ASSUME BufferTypes, LoadInv, NEW h \in Handles, ~Between, NextFile(h)
  PROVE  /\ batch' \in Seq(Files) /\ buffers' \in Seq(BufferNames) /\ returned' \subseteq Handles
         /\ Head(batch) \in Files
         /\ Head(buffers) \in alBuffers /\ Head(buffers) \in BufferNames /\ Head(buffers) \in Range(buffers)
         /\ Len(buffers') = Len(batch') /\ Range(buffers') \subseteq Range(buffers)
         /\ IsInjective(buffers') /\ Head(buffers) \notin Range(buffers')
<1>1. batch \in Seq(Files) /\ batch # <<>> /\ buffers \in Seq(BufferNames) /\ Len(buffers) = Len(batch)
  BY DEF BufferTypes, LoadInv, Between
<1>2. buffers # <<>>
  BY <1>1
<1>3. /\ Head(batch) \in Files /\ Tail(batch) \in Seq(Files) /\ Len(Tail(batch)) = Len(batch) - 1
  BY <1>1, TailFacts
<1>4. /\ Head(buffers) \in BufferNames /\ Tail(buffers) \in Seq(BufferNames)
      /\ Len(Tail(buffers)) = Len(buffers) - 1
      /\ Head(buffers) \in Range(buffers) /\ Range(Tail(buffers)) \subseteq Range(buffers)
      /\ IsInjective(buffers) => IsInjective(Tail(buffers)) /\ Head(buffers) \notin Range(Tail(buffers))
  BY <1>1, <1>2, TailFacts
<1>5. batch' = Tail(batch) /\ buffers' = Tail(buffers) /\ returned' \subseteq Handles
  BY DEF NextFile, BufferTypes
<1>6. QED
  BY <1>1, <1>3, <1>4, <1>5 DEF LoadInv

LEMMA LoadCachedKeeps ==
  ASSUME XAudioAssumption, BufferInv, NEW h \in FreeHandles, LoadCached(h)
  PROVE  BufferInv'
<1>1. BufferTypes /\ LoadInv /\ UseCounts /\ CacheExact /\ OpenHandleUsable /\ OneOwner
      /\ h \in Handles /\ bufferHandle[h] = Nil
  BY DEF BufferInv, FreeHandles
<1>2. PICK b : b = openBuffers[Head(batch)]
  OBVIOUS
<1>3. /\ ~Between /\ NextFile(h) /\ b # Nil
      /\ xabuffer' = [xabuffer EXCEPT ![b].usecount = Employed(@)]
      /\ bufferHandle' = [bufferHandle EXCEPT ![h] = b]
      /\ alBuffers' = alBuffers /\ openBuffers' = openBuffers
  BY <1>2 DEF LoadCached
<1>4. /\ batch' \in Seq(Files) /\ buffers' \in Seq(BufferNames) /\ returned' \subseteq Handles
      /\ Head(batch) \in Files
      /\ Len(buffers') = Len(batch') /\ Range(buffers') \subseteq Range(buffers)
      /\ IsInjective(buffers')
  BY <1>1, <1>3, NextFileFacts
<1>5. b \in BufferAddrs /\ b \in Buffers /\ xabuffer[b].al \in alBuffers
  BY <1>1, <1>2, <1>3, <1>4 DEF BufferTypes, CacheExact, OneOwner
<1>6. xabuffer[b] \in XABuffers
  BY <1>1, <1>5, ObjectFields DEF Buffers
<1>7. /\ xabuffer'[b] = [xabuffer[b] EXCEPT !.usecount = @ + 1]
      /\ \A c \in BufferAddrs : c # b => xabuffer'[c] = xabuffer[c]
      /\ DOMAIN xabuffer' = BufferAddrs
  BY <1>1, <1>3, <1>5 DEF BufferTypes, Employed
<1>8. /\ xabuffer'[b] \in XABuffers /\ xabuffer'[b].usecount = xabuffer[b].usecount + 1
      /\ xabuffer'[b].al = xabuffer[b].al /\ xabuffer'[b].file = xabuffer[b].file
      /\ xabuffer'[b].valid = xabuffer[b].valid
  BY <1>6, <1>7 DEF XABuffers
<1>9. Buffers' = Buffers
  BY <1>5, <1>7, <1>8 DEF Buffers, XAudioAssumption
<1>10. \A c \in Buffers : xabuffer'[c].al = xabuffer[c].al /\ xabuffer'[c].file = xabuffer[c].file
  BY <1>7, <1>8 DEF Buffers
<1>11. xabuffer' \in [BufferAddrs -> {Nil} \union XABuffers]
  BY <1>1, <1>3, <1>7, <1>8 DEF BufferTypes
<1>12. BufferTypes'
  BY <1>1, <1>3, <1>4, <1>5, <1>11 DEF BufferTypes
<1>13. LoadInv'
  BY <1>1, <1>3, <1>4 DEF LoadInv
<1>14. UseCounts'
  <2>1. /\ Cardinality(Users(b)') = Cardinality(Users(b)) + 1
        /\ \A c \in BufferAddrs : c # b => Users(c)' = Users(c)
    BY <1>1, <1>3, <1>5, OneUserMore
  <2>2. Cardinality(Users(b)) <= xabuffer[b].usecount /\ Cardinality(Users(b)) \in Nat
        /\ xabuffer[b].usecount \in Nat
    BY <1>1, <1>5, <1>6, UsersFinite DEF UseCounts, Buffers, XABuffers
  <2>3. Cardinality(Users(b)') <= xabuffer'[b].usecount
    BY <1>8, <2>1, <2>2
  <2>4. \A c \in BufferAddrs : c # b /\ xabuffer'[c] # Nil =>
          Cardinality(Users(c)') <= xabuffer'[c].usecount
    BY <1>1, <1>7, <2>1 DEF UseCounts
  <2>5. QED
    BY <2>3, <2>4 DEF UseCounts
<1>15. CacheExact'
  BY <1>1, <1>3, <1>9, <1>10 DEF CacheExact
<1>16. OpenHandleUsable'
  BY <1>1, <1>3, <1>5, <1>9, <1>10 DEF OpenHandleUsable, BufferTypes
<1>17. OneOwner'
  BY <1>1, <1>3, <1>4, <1>9, <1>10 DEF OneOwner
<1>18. QED
  BY <1>12, <1>13, <1>14, <1>15, <1>16, <1>17 DEF BufferInv

\* What is to be done next, and what is left then.
LEMMA PendingFacts ==
  ASSUME BufferTypes, LoadInv, ~Between
  PROVE  /\ Head(batch) \in Files
         /\ Head(buffers) \in alBuffers /\ Head(buffers) \in BufferNames /\ Head(buffers) \in Range(buffers)
         /\ Range(Tail(buffers)) \subseteq Range(buffers) /\ Head(buffers) \notin Range(Tail(buffers))
<1>1. batch \in Seq(Files) /\ batch # <<>> /\ buffers \in Seq(BufferNames) /\ Len(buffers) = Len(batch)
  BY DEF BufferTypes, LoadInv, Between
<1>2. buffers # <<>>
  BY <1>1
<1>3. Head(batch) \in Files
  BY <1>1, TailFacts
<1>4. /\ Head(buffers) \in BufferNames /\ Head(buffers) \in Range(buffers)
      /\ Range(Tail(buffers)) \subseteq Range(buffers)
      /\ IsInjective(buffers) => Head(buffers) \notin Range(Tail(buffers))
  BY <1>1, <1>2, TailFacts
<1>5. QED
  BY <1>3, <1>4 DEF LoadInv

\* A new object in the cache, with the handle that Lua gets of it or without,
\* and perhaps without others.
LEMMA NewBufferKeeps ==
  ASSUME XAudioAssumption, BufferInv, NEW b \in BufferAddrs, ~Between, AddToCache(b),
         alBuffers' = alBuffers,
         batch' \in Seq(Files), buffers' \in Seq(BufferNames), returned' \subseteq Handles,
         LoadInv', Range(buffers') \subseteq Range(Tail(buffers)),
         bufferHandle' \in [Handles -> BufferAddrs \union {Nil}],
         \A g \in Handles : bufferHandle'[g] \in {Nil, bufferHandle[g], b},
         Cardinality(Users(b)') <= 1
  PROVE  BufferInv'
<1> DEFINE f == Head(batch)
           x == [al |-> Head(buffers), file |-> f, valid |-> TRUE, usecount |-> 1]
<1>1. BufferTypes /\ LoadInv /\ UseCounts /\ CacheExact /\ OpenHandleUsable /\ OneOwner
  BY DEF BufferInv
<1>2. /\ openBuffers[f] = Nil /\ xabuffer[b] = Nil
      /\ xabuffer' = [xabuffer EXCEPT ![b] = x]
      /\ openBuffers' = [openBuffers EXCEPT ![f] = b]
  BY DEF AddToCache
<1>3. /\ f \in Files
      /\ Head(buffers) \in alBuffers /\ Head(buffers) \in BufferNames /\ Head(buffers) \in Range(buffers)
      /\ Range(buffers') \subseteq Range(buffers) /\ Head(buffers) \notin Range(buffers')
  BY <1>1, PendingFacts
<1>4. /\ x \in XABuffers /\ x # Nil /\ x.al = Head(buffers) /\ x.file = f /\ x.valid /\ x.usecount = 1
  <2>1. x \in XABuffers
    BY <1>3 DEF XABuffers
  <2>2. x # Nil
    BY <2>1 DEF XAudioAssumption
  <2>3. QED
    BY <2>1, <2>2
<1> HIDE DEF f, x
<1>5. xabuffer'[b] = x /\ \A c \in BufferAddrs : c # b => xabuffer'[c] = xabuffer[c]
  BY <1>1, <1>2 DEF BufferTypes
<1>6. b \notin Buffers /\ Buffers' = Buffers \union {b}
  BY <1>2, <1>4, <1>5 DEF Buffers
<1>7. Buffers \subseteq BufferAddrs /\ \A c \in Buffers : xabuffer'[c] = xabuffer[c]
  BY <1>5, <1>6 DEF Buffers
<1>8. BufferTypes'
  BY <1>1, <1>2, <1>3, <1>4 DEF BufferTypes
<1>9. LoadInv'
  OBVIOUS
<1>10. UseCounts'
  <2>1. SUFFICES ASSUME NEW c \in BufferAddrs, c # b, xabuffer[c] # Nil
                 PROVE  Cardinality(Users(c)') <= xabuffer[c].usecount
    BY <1>4, <1>5 DEF UseCounts
  <2>2. Users(c)' \subseteq Users(c)
    BY <2>1 DEF Users, XAudioAssumption
  <2>3. /\ IsFiniteSet(Users(c)) /\ Cardinality(Users(c)) \in Nat
        /\ Cardinality(Users(c)') <= Cardinality(Users(c)) /\ Cardinality(Users(c)') \in Nat
    BY <2>2, UsersFinite, FS_Subset, FS_CardinalityType
  <2>4. Cardinality(Users(c)) <= xabuffer[c].usecount /\ xabuffer[c].usecount \in Nat
    BY <1>1, <2>1, ObjectFields DEF UseCounts, XABuffers
  <2>5. QED
    BY <2>3, <2>4
<1>11. openBuffers'[f] = b /\ \A g \in Files : g # f => openBuffers'[g] = openBuffers[g]
  BY <1>1, <1>2, <1>3 DEF BufferTypes
<1>12. CacheExact'
  <2>1. ASSUME NEW g \in Files, openBuffers'[g] # Nil
        PROVE  openBuffers'[g] \in Buffers' /\ xabuffer'[openBuffers'[g]].file = g
    BY <1>1, <1>4, <1>5, <1>6, <1>7, <1>11, <2>1 DEF CacheExact
  <2>2. ASSUME NEW c \in Buffers' PROVE openBuffers'[xabuffer'[c].file] = c
    <3>1. CASE c = b
      BY <1>4, <1>5, <1>11, <3>1
    <3>2. CASE c # b
      <4>1. c \in Buffers /\ xabuffer'[c] = xabuffer[c] /\ openBuffers[xabuffer[c].file] = c
        BY <1>1, <1>6, <1>7, <3>2 DEF CacheExact
      <4>2. xabuffer[c] \in XABuffers
        BY <1>1, <4>1, ObjectFields DEF Buffers
      <4>3. xabuffer[c].file \in Files /\ c # Nil
        BY <1>7, <4>1, <4>2 DEF XABuffers, XAudioAssumption
      <4>4. xabuffer[c].file # f
        BY <1>2, <4>1, <4>3
      <4>5. QED
        BY <1>11, <4>1, <4>3, <4>4
    <3>3. QED
      BY <3>1, <3>2
  <2>3. QED
    BY <2>1, <2>2 DEF CacheExact
<1>13. OpenHandleUsable'
  <2>1. SUFFICES ASSUME NEW g \in Handles, bufferHandle'[g] # Nil
                 PROVE  bufferHandle'[g] \in Buffers' /\ xabuffer'[bufferHandle'[g]].al \in alBuffers
    BY <1>2 DEF OpenHandleUsable
  <2>2. CASE bufferHandle'[g] = b
    BY <1>3, <1>4, <1>5, <1>6, <2>2
  <2>3. CASE bufferHandle'[g] = bufferHandle[g]
    BY <1>1, <1>6, <1>7, <2>1, <2>3 DEF OpenHandleUsable
  <2>4. QED
    BY <2>1, <2>2, <2>3
<1>14. OneOwner'
  <2>1. ASSUME NEW c \in Buffers' PROVE xabuffer'[c].al \in alBuffers' \ Range(buffers')
    BY <1>1, <1>2, <1>3, <1>4, <1>5, <1>6, <1>7, <2>1 DEF OneOwner
  <2>2. \A c \in Buffers : xabuffer'[c].al = xabuffer[c].al /\ xabuffer[c].al # x.al
    BY <1>1, <1>3, <1>4, <1>7 DEF OneOwner
  <2>3. ASSUME NEW c \in Buffers', NEW d \in Buffers', xabuffer'[c].al = xabuffer'[d].al PROVE c = d
    BY <1>1, <1>4, <1>5, <1>6, <2>2, <2>3 DEF OneOwner
  <2>4. QED
    BY <2>1, <2>3 DEF OneOwner
<1>15. QED
  BY <1>8, <1>9, <1>10, <1>12, <1>13, <1>14 DEF BufferInv

LEMMA LoadFileKeeps ==
  ASSUME XAudioAssumption, BufferInv, NEW h \in FreeHandles, NEW b \in BufferAddrs, LoadFile(h, b)
  PROVE  BufferInv'
<1>1. BufferTypes /\ LoadInv /\ OpenHandleUsable /\ h \in Handles /\ bufferHandle[h] = Nil
  BY DEF BufferInv, FreeHandles
<1>2. /\ ~Between /\ NextFile(h) /\ AddToCache(b) /\ alBuffers' = alBuffers
      /\ bufferHandle' = [bufferHandle EXCEPT ![h] = b]
  BY DEF LoadFile
<1>3. /\ batch' \in Seq(Files) /\ buffers' \in Seq(BufferNames) /\ returned' \subseteq Handles
      /\ Len(buffers') = Len(batch') /\ Range(buffers') \subseteq Range(buffers)
      /\ IsInjective(buffers') /\ buffers' = Tail(buffers)
  BY <1>1, <1>2, NextFileFacts DEF NextFile
<1>4. LoadInv'
  BY <1>1, <1>2, <1>3 DEF LoadInv
<1>5. /\ bufferHandle' \in [Handles -> BufferAddrs \union {Nil}]
      /\ \A g \in Handles : bufferHandle'[g] \in {Nil, bufferHandle[g], b}
  BY <1>1, <1>2 DEF BufferTypes
<1>6. Users(b) = {}
  BY <1>1, <1>2 DEF Users, OpenHandleUsable, AddToCache, Buffers, XAudioAssumption
<1>7. Cardinality(Users(b)') <= 1
  <2>1. Cardinality(Users(b)') = Cardinality(Users(b)) + 1
    BY <1>1, <1>2, OneUserMore
  <2>2. Cardinality(Users(b)) = 0
    BY <1>6, FS_EmptySet
  <2>3. QED
    BY <2>1, <2>2
<1>8. QED
  BY <1>2, <1>3, <1>4, <1>5, <1>7, NewBufferKeeps

\* Handles that are dropped, and not counted down, hurt nobody.
LEMMA DroppedKeeps ==
  ASSUME XAudioAssumption, BufferInv, UNCHANGED <<alBuffers, xabuffer, openBuffers>>,
         bufferHandle' \in [Handles -> BufferAddrs \union {Nil}],
         \A h \in Handles : bufferHandle'[h] \in {Nil, bufferHandle[h]},
         batch' \in Seq(Files), buffers' \in Seq(BufferNames), returned' \subseteq Handles,
         LoadInv', Range(buffers') \subseteq Range(buffers)
  PROVE  BufferInv'
<1>1. BufferTypes /\ UseCounts /\ CacheExact /\ OpenHandleUsable /\ OneOwner
  BY DEF BufferInv
<1>2. Buffers' = Buffers
  BY DEF Buffers
<1>3. BufferTypes' /\ CacheExact' /\ OneOwner'
  BY <1>1, <1>2 DEF BufferTypes, CacheExact, OneOwner
<1>4. OpenHandleUsable'
  BY <1>1, <1>2 DEF OpenHandleUsable
<1>5. UseCounts'
  <2>1. SUFFICES ASSUME NEW b \in BufferAddrs, xabuffer[b] # Nil
                 PROVE  Cardinality(Users(b)') <= xabuffer[b].usecount
    BY DEF UseCounts
  <2>2. Users(b)' \subseteq Users(b)
    BY DEF Users, XAudioAssumption
  <2>3. /\ IsFiniteSet(Users(b)) /\ Cardinality(Users(b)) \in Nat
        /\ Cardinality(Users(b)') <= Cardinality(Users(b)) /\ Cardinality(Users(b)') \in Nat
    BY <2>2, UsersFinite, FS_Subset, FS_CardinalityType
  <2>4. Cardinality(Users(b)) <= xabuffer[b].usecount /\ xabuffer[b].usecount \in Nat
    BY <1>1, <2>1, ObjectFields DEF UseCounts, XABuffers
  <2>5. QED
    BY <2>3, <2>4
<1>6. QED
  BY <1>3, <1>4, <1>5 DEF BufferInv

\* Nothing is left to do for the call.
LEMMA LeavingFacts ==
  ASSUME BufferInv, LeaveByError
  PROVE  /\ LoadInv'
         /\ bufferHandle' \in [Handles -> BufferAddrs \union {Nil}]
         /\ \A h \in Handles : bufferHandle'[h] \in {Nil, bufferHandle[h]}
         /\ batch' \in Seq(Files) /\ buffers' \in Seq(BufferNames) /\ returned' \subseteq Handles
         /\ Range(buffers') = {}
<1>1. /\ batch' = <<>> /\ buffers' = <<>> /\ returned' = {}
      /\ bufferHandle' = [h \in Handles |-> IF h \in returned THEN Nil ELSE bufferHandle[h]]
  BY DEF LeaveByError
<1>2. Range(<<>>) = {} /\ IsInjective(<<>>)
  BY DEF Range, IsInjective
<1>3. LoadInv'
  BY <1>1, <1>2 DEF LoadInv
<1>4. /\ bufferHandle' \in [Handles -> BufferAddrs \union {Nil}]
      /\ \A h \in Handles : bufferHandle'[h] \in {Nil, bufferHandle[h]}
  BY <1>1 DEF BufferInv, BufferTypes
<1>5. QED
  BY <1>1, <1>2, <1>3, <1>4

LEMMA LoadFailsKeeps ==
  ASSUME XAudioAssumption, BufferInv, LoadFails
  PROVE  BufferInv'
<1>1. LeaveByError /\ UNCHANGED <<alBuffers, xabuffer, openBuffers>>
  BY DEF LoadFails, LeaveByError
<1>2. QED
  BY <1>1, LeavingFacts, DroppedKeeps

LEMMA LoadRefusedKeeps ==
  ASSUME XAudioAssumption, BufferInv, NEW b \in BufferAddrs, LoadRefused(b)
  PROVE  BufferInv'
<1>1. LeaveByError /\ AddToCache(b) /\ ~Between /\ alBuffers' = alBuffers
  BY DEF LoadRefused, LeaveByError
<1>2. \A h \in Handles : bufferHandle[h] # b
  BY <1>1 DEF BufferInv, OpenHandleUsable, AddToCache, Buffers, XAudioAssumption
<1>3. Users(b)' = {}
  BY <1>1, <1>2, LeavingFacts DEF Users, XAudioAssumption
<1>4. Cardinality(Users(b)') <= 1
  BY <1>3, FS_EmptySet
<1>5. /\ Range(buffers') \subseteq Range(Tail(buffers))
      /\ \A h \in Handles : bufferHandle'[h] \in {Nil, bufferHandle[h], b}
  BY <1>1, LeavingFacts
<1>6. QED
  BY <1>1, <1>4, <1>5, LeavingFacts, NewBufferKeeps

LEMMA ForgetKeeps ==
  ASSUME XAudioAssumption, BufferInv, NEW h \in Handles, Forget(h)
  PROVE  BufferInv'
<1>1. /\ bufferHandle' = [bufferHandle EXCEPT ![h] = Nil]
      /\ UNCHANGED <<alBuffers, xabuffer, openBuffers, batch, buffers, returned>>
  BY DEF Forget, alVars, loadVars
<1>2. BufferTypes /\ LoadInv
  BY DEF BufferInv
<1>3. LoadInv'
  BY <1>1, <1>2 DEF LoadInv
<1>4. /\ bufferHandle' \in [Handles -> BufferAddrs \union {Nil}]
      /\ \A g \in Handles : bufferHandle'[g] \in {Nil, bufferHandle[g]}
  BY <1>1, <1>2 DEF BufferTypes
<1>5. /\ batch' \in Seq(Files) /\ buffers' \in Seq(BufferNames) /\ returned' \subseteq Handles
      /\ Range(buffers') \subseteq Range(buffers)
  BY <1>1, <1>2 DEF BufferTypes
<1>6. QED
  BY <1>1, <1>3, <1>4, <1>5, DroppedKeeps

LEMMA CloseBufferKeeps ==
  ASSUME XAudioAssumption, BufferInv, NEW h \in Handles, NEW force \in BOOLEAN, CloseBuffer(h, force)
  PROVE  BufferInv'
<1>1. BufferTypes /\ LoadInv /\ UseCounts /\ CacheExact /\ OpenHandleUsable /\ OneOwner
  BY DEF BufferInv
<1>2. PICK b : b = bufferHandle[h]
  OBVIOUS
<1>3. PICK x : x = xabuffer[b]
  OBVIOUS
<1>4. /\ b # Nil /\ batch = <<>> /\ UNCHANGED <<batch, buffers, returned>>
      /\ bufferHandle' = [bufferHandle EXCEPT ![h] = Nil]
  BY <1>2 DEF CloseBuffer, Between, loadVars
<1>5. b \in BufferAddrs /\ b \in Buffers /\ x # Nil /\ x.valid /\ x.al \in alBuffers
  BY <1>1, <1>2, <1>3, <1>4 DEF BufferTypes, OpenHandleUsable, Buffers
<1>6. x \in XABuffers
  BY <1>1, <1>3, <1>5, ObjectFields
<1>7. buffers = <<>> /\ Range(buffers) = {}
  BY <1>1, <1>4 DEF LoadInv, BufferTypes, Range
<1>8. /\ Cardinality(Users(b)) \in Nat \ {0}
      /\ Cardinality(Users(b)') = Cardinality(Users(b)) - 1
      /\ Cardinality(Users(b)) = 1 => Users(b)' = {}
      /\ \A c \in BufferAddrs : c # b => Users(c)' = Users(c)
  BY <1>1, <1>2, <1>4, <1>5, OneUserLess
<1>9. Cardinality(Users(b)) <= x.usecount /\ x.usecount \in Nat
  BY <1>1, <1>3, <1>5, <1>6 DEF UseCounts, XABuffers
<1>10. x.usecount - 1 \in Nat /\ Cardinality(Users(b)') <= x.usecount - 1
  BY <1>8, <1>9
<1>11. CASE force /\ Unused(x.usecount - 1)
  <2>1. /\ xabuffer' = [xabuffer EXCEPT ![b] = Closed(x)]
        /\ openBuffers' = Uncached(x.file)
        /\ alBuffers' = IF Deletable(x.al) THEN alBuffers \ {x.al} ELSE alBuffers
    BY <1>2, <1>3, <1>5, <1>11 DEF CloseBuffer
  <2>2. /\ Closed(x) \in XABuffers /\ Closed(x).valid = FALSE
        /\ Closed(x).usecount = x.usecount - 1
    BY <1>6, <1>10 DEF XABuffers, Closed
  <2>3. Closed(x) # Nil
    BY <2>2 DEF XAudioAssumption
  <2>4. xabuffer'[b] = Closed(x) /\ \A c \in BufferAddrs : c # b => xabuffer'[c] = xabuffer[c]
    BY <1>1, <1>5, <2>1 DEF BufferTypes
  <2>5. Users(b)' = {}
    <3>1. x.usecount = 1
      BY <1>8, <1>9, <1>11 DEF Unused
    <3>2. QED
      BY <1>8, <1>9, <3>1
  <2>6. Buffers' = Buffers \ {b}
    BY <1>5, <2>2, <2>4 DEF Buffers
  <2>7. \A c \in Buffers' : xabuffer'[c] = xabuffer[c] /\ c \in Buffers /\ c # b /\ c \in BufferAddrs
    BY <2>4, <2>6 DEF Buffers
  <2>8. x.file \in Files /\ openBuffers[x.file] = b
    BY <1>1, <1>3, <1>5, <1>6 DEF CacheExact, XABuffers
  <2>9. openBuffers'[x.file] = Nil /\ \A f \in Files : f # x.file => openBuffers'[f] = openBuffers[f]
    BY <1>1, <2>1, <2>8 DEF BufferTypes, Uncached
  <2>10. BufferTypes'
    <3>1. xabuffer' \in [BufferAddrs -> {Nil} \union XABuffers]
      BY <1>1, <2>1, <2>2 DEF BufferTypes
    <3>2. openBuffers' \in [Files -> BufferAddrs \union {Nil}]
      BY <1>1, <2>1 DEF BufferTypes, Uncached
    <3>3. QED
      BY <1>1, <1>4, <2>1, <3>1, <3>2 DEF BufferTypes
  <2>11. LoadInv'
    BY <1>1, <1>4, <1>7 DEF LoadInv, Range
  <2>12. UseCounts'
    <3>1. Cardinality(Users(b)') <= xabuffer'[b].usecount
      BY <1>10, <2>2, <2>4
    <3>2. \A c \in BufferAddrs : c # b /\ xabuffer'[c] # Nil =>
            Cardinality(Users(c)') <= xabuffer'[c].usecount
      BY <1>1, <1>8, <2>4 DEF UseCounts
    <3>3. QED
      BY <3>1, <3>2 DEF UseCounts
  <2>13. CacheExact'
    <3>1. ASSUME NEW f \in Files, openBuffers'[f] # Nil
          PROVE  openBuffers'[f] \in Buffers' /\ xabuffer'[openBuffers'[f]].file = f
      <4>1. f # x.file /\ openBuffers'[f] = openBuffers[f]
        BY <2>9, <3>1
      <4>2. openBuffers[f] \in Buffers /\ xabuffer[openBuffers[f]].file = f
        BY <1>1, <3>1, <4>1 DEF CacheExact
      <4>3. openBuffers[f] # b
        BY <1>3, <4>1, <4>2
      <4>4. QED
        BY <2>6, <2>7, <4>1, <4>2, <4>3
    <3>2. ASSUME NEW c \in Buffers' PROVE openBuffers'[xabuffer'[c].file] = c
      <4>1. c \in Buffers /\ c # b /\ c \in BufferAddrs /\ xabuffer'[c] = xabuffer[c]
        BY <2>7
      <4>2. openBuffers[xabuffer[c].file] = c
        BY <1>1, <4>1 DEF CacheExact
      <4>3. xabuffer[c] \in XABuffers
        BY <1>1, <4>1, ObjectFields DEF Buffers
      <4>4. xabuffer[c].file \in Files /\ xabuffer[c].file # x.file
        BY <2>8, <4>1, <4>2, <4>3 DEF XABuffers
      <4>5. QED
        BY <2>9, <4>1, <4>2, <4>4
    <3>3. QED
      BY <3>1, <3>2 DEF CacheExact
  <2>14. \A c \in Buffers : c # b => xabuffer[c].al # x.al
    BY <1>1, <1>3, <1>5 DEF OneOwner
  <2>15. \A c \in Buffers' : xabuffer'[c].al \in alBuffers'
    BY <1>1, <2>1, <2>7, <2>14 DEF OneOwner
  <2>16. OpenHandleUsable'
    <3>1. SUFFICES ASSUME NEW g \in Handles, bufferHandle'[g] # Nil
                   PROVE  bufferHandle'[g] \in Buffers' /\ xabuffer'[bufferHandle'[g]].al \in alBuffers'
      BY DEF OpenHandleUsable
    <3>2. g # h /\ bufferHandle'[g] = bufferHandle[g]
      BY <1>1, <1>4, <3>1 DEF BufferTypes
    <3>3. bufferHandle[g] # b
      BY <2>5, <3>2 DEF Users
    <3>4. bufferHandle[g] \in Buffers'
      BY <1>1, <2>6, <3>1, <3>2, <3>3 DEF OpenHandleUsable
    <3>5. QED
      BY <2>15, <3>2, <3>4
  <2>17. OneOwner'
    <3>1. \A c, d \in Buffers' : xabuffer'[c].al = xabuffer'[d].al => c = d
      BY <1>1, <2>7 DEF OneOwner
    <3>2. Range(buffers') = {}
      BY <1>4, <1>7
    <3>3. QED
      BY <2>15, <3>1, <3>2 DEF OneOwner
  <2>18. QED
    BY <2>10, <2>11, <2>12, <2>13, <2>16, <2>17 DEF BufferInv
<1>12. CASE ~(force /\ Unused(x.usecount - 1))
  <2>1. /\ xabuffer' = [xabuffer EXCEPT ![b].usecount = @ - 1]
        /\ UNCHANGED <<openBuffers, alBuffers>>
    BY <1>2, <1>3, <1>12 DEF CloseBuffer
  <2>2. xabuffer'[b] = [x EXCEPT !.usecount = @ - 1] /\ \A c \in BufferAddrs : c # b => xabuffer'[c] = xabuffer[c]
    BY <1>1, <1>3, <1>5, <2>1 DEF BufferTypes
  <2>3. /\ xabuffer'[b] \in XABuffers /\ xabuffer'[b].usecount = x.usecount - 1
        /\ xabuffer'[b].al = x.al /\ xabuffer'[b].file = x.file /\ xabuffer'[b].valid = x.valid
    BY <1>6, <1>10, <2>2 DEF XABuffers
  <2>4. xabuffer'[b] # Nil
    BY <2>3 DEF XAudioAssumption
  <2>5. Buffers' = Buffers
    BY <1>3, <1>5, <2>2, <2>3, <2>4 DEF Buffers
  <2>6. \A c \in Buffers : xabuffer'[c].al = xabuffer[c].al /\ xabuffer'[c].file = xabuffer[c].file
    BY <1>3, <2>2, <2>3 DEF Buffers
  <2>7. BufferTypes'
    <3>1. xabuffer' \in [BufferAddrs -> {Nil} \union XABuffers]
      BY <1>1, <1>5, <2>1, <2>2, <2>3 DEF BufferTypes
    <3>2. QED
      BY <1>1, <1>4, <2>1, <3>1 DEF BufferTypes
  <2>8. LoadInv'
    BY <1>1, <1>4, <2>1 DEF LoadInv
  <2>9. UseCounts'
    <3>1. Cardinality(Users(b)') <= xabuffer'[b].usecount
      BY <1>10, <2>3
    <3>2. \A c \in BufferAddrs : c # b /\ xabuffer'[c] # Nil =>
            Cardinality(Users(c)') <= xabuffer'[c].usecount
      BY <1>1, <1>8, <2>2 DEF UseCounts
    <3>3. QED
      BY <3>1, <3>2 DEF UseCounts
  <2>10. CacheExact' /\ OneOwner'
    BY <1>1, <1>4, <2>1, <2>5, <2>6 DEF CacheExact, OneOwner
  <2>11. OpenHandleUsable'
    BY <1>1, <1>4, <2>1, <2>5, <2>6 DEF OpenHandleUsable, BufferTypes
  <2>12. QED
    BY <2>7, <2>8, <2>9, <2>10, <2>11 DEF BufferInv
<1>13. QED
  BY <1>11, <1>12

-----------------------------------------------------------------------------
(* Sources. *)

SourceTypes ==
  /\ alSources \subseteq SourceNames
  /\ attached \in [SourceNames -> BufferNames \union {Nil}]
  /\ xasource \in [SourceAddrs -> {Nil} \union XASources]
  /\ freed \subseteq SourceAddrs
  /\ openSources \subseteq SourceAddrs
  /\ sourceHandle \in [Handles -> SourceAddrs \union {Nil}]
  /\ aliased \subseteq SourceAddrs

\* The set that a reset walks through is the open sources, each with an OpenAL
\* source of its own.
SetExact ==
  /\ openSources = Sources
  /\ alSources = {xasource[a].al : a \in openSources}
  /\ \A a, c \in openSources : xasource[a].al = xasource[c].al => a = c
  /\ IsFiniteSet(openSources) /\ IsFiniteSet(alSources)
  /\ Cardinality(alSources) = Cardinality(openSources)

\* An open source has one user, whoever that is, so that every close is the last.
SingleUse == \A a \in Sources : xasource[a].usecount = 1

FreedApart == /\ freed \intersect openSources = {}
              /\ \A a \in freed : xasource[a] # Nil

\* A handle's source is open, or was deleted by a reset, or had a stale handle;
\* and two handles of an open source are so because one of them is stale.
HandlesKnown ==
  /\ \A h \in Handles : sourceHandle[h] # Nil =>
       /\ xasource[sourceHandle[h]] # Nil
       /\ sourceHandle[h] \in openSources \union freed \union aliased
  /\ \A g, h \in Handles :
       g # h /\ sourceHandle[g] = sourceHandle[h] /\ sourceHandle[h] \in openSources
         => sourceHandle[h] \in aliased

SourceInv == SourceTypes /\ SetExact /\ SingleUse /\ FreedApart /\ HandlesKnown

LEMMA NewSourceKeeps ==
  ASSUME XAudioAssumption, SourceInv, NEW h \in FreeHandles, NEW s \in SourceNames,
         NEW a \in SourceAddrs, NewSource(h, s, a)
  PROVE  SourceInv'
<1> DEFINE x == [al |-> s, valid |-> TRUE, usecount |-> 1]
<1>1. /\ SourceTypes /\ SetExact /\ SingleUse /\ FreedApart /\ HandlesKnown
      /\ h \in Handles /\ sourceHandle[h] = Nil
  BY DEF SourceInv, FreeHandles
<1>2. /\ s \notin alSources /\ (xasource[a] = Nil \/ a \in freed)
      /\ alSources' = alSources \union {s}
      /\ xasource' = [xasource EXCEPT ![a] = x]
      /\ freed' = freed \ {a}
      /\ openSources' = openSources \union {a}
      /\ sourceHandle' = [sourceHandle EXCEPT ![h] = a]
      /\ aliased' = IF a \in Range(sourceHandle) THEN aliased \union {a} ELSE aliased
      /\ attached' = attached
  BY DEF NewSource
<1>3. x \in XASources /\ x.al = s /\ x.valid /\ x.usecount = 1
  BY DEF XASources
<1>4. x # Nil
  BY <1>3 DEF XAudioAssumption
<1> HIDE DEF x
<1>5. a \notin openSources
  BY <1>1, <1>2 DEF SetExact, Sources, FreedApart
<1>6. xasource'[a] = x /\ \A c \in SourceAddrs : c # a => xasource'[c] = xasource[c]
  BY <1>1, <1>2 DEF SourceTypes
<1>7. Sources' = Sources \union {a}
  BY <1>3, <1>4, <1>6 DEF Sources
<1>8. openSources \subseteq SourceAddrs /\ \A c \in openSources : xasource'[c] = xasource[c]
  BY <1>1, <1>5, <1>6 DEF SourceTypes
<1>9. SourceTypes'
  BY <1>1, <1>2, <1>3 DEF SourceTypes
<1>10. SetExact'
  <2>1. openSources' = Sources'
    BY <1>1, <1>2, <1>7 DEF SetExact
  <2>2. alSources' = {xasource'[c].al : c \in openSources'}
    BY <1>1, <1>2, <1>3, <1>6, <1>8 DEF SetExact
  <2>3. \A c \in openSources : xasource'[c].al \in alSources
    BY <1>1, <1>8 DEF SetExact
  <2>4. ASSUME NEW c \in openSources', NEW d \in openSources', xasource'[c].al = xasource'[d].al PROVE c = d
    BY <1>1, <1>2, <1>3, <1>6, <1>8, <2>3, <2>4 DEF SetExact
  <2>5. /\ IsFiniteSet(openSources') /\ Cardinality(openSources') = Cardinality(openSources) + 1
    BY <1>1, <1>2, <1>5, FS_AddElement DEF SetExact
  <2>6. /\ IsFiniteSet(alSources') /\ Cardinality(alSources') = Cardinality(alSources) + 1
    BY <1>1, <1>2, FS_AddElement DEF SetExact
  <2>7. Cardinality(alSources') = Cardinality(openSources')
    BY <1>1, <2>5, <2>6 DEF SetExact
  <2>8. QED
    BY <2>1, <2>2, <2>4, <2>5, <2>6, <2>7 DEF SetExact
<1>11. SingleUse'
  BY <1>1, <1>3, <1>6, <1>7 DEF SingleUse, Sources
<1>12. FreedApart'
  BY <1>1, <1>2, <1>6 DEF FreedApart, SourceTypes
<1>13. HandlesKnown'
  <2>1. sourceHandle'[h] = a /\ \A g \in Handles : g # h => sourceHandle'[g] = sourceHandle[g]
    BY <1>1, <1>2 DEF SourceTypes
  <2>2. ASSUME NEW g \in Handles, sourceHandle'[g] # Nil
        PROVE  /\ xasource'[sourceHandle'[g]] # Nil
               /\ sourceHandle'[g] \in openSources' \union freed' \union aliased'
    <3>1. CASE g = h
      BY <1>2, <1>4, <1>6, <2>1, <3>1
    <3>2. CASE g # h
      <4>1. /\ sourceHandle'[g] = sourceHandle[g] /\ sourceHandle[g] \in SourceAddrs
            /\ xasource[sourceHandle[g]] # Nil
            /\ sourceHandle[g] \in openSources \union freed \union aliased
        BY <1>1, <2>1, <2>2, <3>2 DEF SourceTypes, HandlesKnown
      <4>2. QED
        BY <1>2, <1>4, <1>6, <4>1
    <3>3. QED
      BY <3>1, <3>2
  <2>3. \A g \in Handles : g # h /\ sourceHandle[g] = a => a \in aliased'
    BY <1>1, <1>2 DEF SourceTypes, Range
  <2>4. ASSUME NEW f \in Handles, NEW g \in Handles, f # g, sourceHandle'[f] = sourceHandle'[g],
               sourceHandle'[g] \in openSources'
        PROVE  sourceHandle'[g] \in aliased'
    <3>1. CASE sourceHandle'[g] = a
      BY <2>1, <2>3, <2>4, <3>1
    <3>2. CASE sourceHandle'[g] # a
      <4>1. f # h /\ g # h
        BY <2>1, <2>4, <3>2
      <4>2. sourceHandle[g] \in openSources /\ sourceHandle[f] = sourceHandle[g]
        BY <1>2, <2>1, <2>4, <3>2, <4>1
      <4>3. sourceHandle[g] \in aliased
        BY <1>1, <2>4, <4>2 DEF HandlesKnown
      <4>4. QED
        BY <1>2, <2>1, <4>1, <4>3
    <3>3. QED
      BY <3>1, <3>2
  <2>5. QED
    BY <2>2, <2>4 DEF HandlesKnown
<1>14. QED
  BY <1>9, <1>10, <1>11, <1>12, <1>13 DEF SourceInv

\* A handle that is closed or dropped leaves the others as they were.
LEMMA HandleGone ==
  ASSUME XAudioAssumption, SourceTypes, HandlesKnown, NEW h \in Handles,
         sourceHandle' = [sourceHandle EXCEPT ![h] = Nil], UNCHANGED aliased, UNCHANGED freed,
         openSources' \subseteq openSources,
         \A a \in SourceAddrs : xasource[a] # Nil => xasource'[a] # Nil,
         \A g \in Handles \ {h} : sourceHandle[g] # Nil /\ sourceHandle[g] \notin openSources'
           => sourceHandle[g] \in freed \union aliased
  PROVE  HandlesKnown' /\ sourceHandle' \in [Handles -> SourceAddrs \union {Nil}]
<1>1. sourceHandle'[h] = Nil /\ \A g \in Handles : g # h => sourceHandle'[g] = sourceHandle[g]
  BY DEF SourceTypes
<1>2. ASSUME NEW g \in Handles, sourceHandle'[g] # Nil
      PROVE  /\ xasource'[sourceHandle'[g]] # Nil
             /\ sourceHandle'[g] \in openSources' \union freed \union aliased
  <2>1. /\ g # h /\ sourceHandle'[g] = sourceHandle[g] /\ sourceHandle[g] \in SourceAddrs
        /\ xasource[sourceHandle[g]] # Nil
    BY <1>1, <1>2 DEF SourceTypes, HandlesKnown
  <2>2. QED
    BY <2>1, <1>2
<1>3. openSources' \subseteq SourceAddrs /\ Nil \notin SourceAddrs
  BY DEF SourceTypes, XAudioAssumption
<1>4. ASSUME NEW f \in Handles, NEW g \in Handles, f # g, sourceHandle'[f] = sourceHandle'[g],
             sourceHandle'[g] \in openSources'
      PROVE  sourceHandle'[g] \in aliased
  BY <1>1, <1>3, <1>4 DEF HandlesKnown
<1>5. QED
  BY <1>2, <1>4 DEF HandlesKnown, SourceTypes

LEMMA ForgetKeepsSources ==
  ASSUME XAudioAssumption, SourceInv, NEW h \in Handles, Forget(h)
  PROVE  SourceInv'
<1>1. SourceTypes /\ SetExact /\ SingleUse /\ FreedApart /\ HandlesKnown
  BY DEF SourceInv
<1>2. /\ sourceHandle' = [sourceHandle EXCEPT ![h] = Nil]
      /\ UNCHANGED <<alSources, attached, xasource, freed, openSources, aliased>>
  BY DEF Forget, alVars
<1>3. HandlesKnown' /\ sourceHandle' \in [Handles -> SourceAddrs \union {Nil}]
  <2>1. \A g \in Handles \ {h} : sourceHandle[g] # Nil /\ sourceHandle[g] \notin openSources'
          => sourceHandle[g] \in freed \union aliased
    BY <1>1, <1>2 DEF HandlesKnown
  <2>2. openSources' \subseteq openSources /\ \A a \in SourceAddrs : xasource[a] # Nil => xasource'[a] # Nil
    BY <1>2
  <2>3. QED
    BY <1>1, <1>2, <2>1, <2>2, HandleGone
<1>4. SourceTypes' /\ Sources' = Sources
  BY <1>1, <1>2, <1>3 DEF SourceTypes, Sources
<1>5. SetExact' /\ SingleUse' /\ FreedApart'
  BY <1>1, <1>2, <1>4 DEF SetExact, SingleUse, FreedApart
<1>6. QED
  BY <1>3, <1>4, <1>5 DEF SourceInv

LEMMA CloseSourceKeeps ==
  ASSUME XAudioAssumption, SourceInv, NEW h \in Handles, CloseSource(h)
  PROVE  SourceInv'
<1>1. SourceTypes /\ SetExact /\ SingleUse /\ FreedApart /\ HandlesKnown
  BY DEF SourceInv
<1>2. PICK a : a = sourceHandle[h]
  OBVIOUS
<1>3. PICK x : x = xasource[a]
  OBVIOUS
<1>4. /\ a # Nil /\ sourceHandle' = [sourceHandle EXCEPT ![h] = Nil] /\ freed' = freed /\ aliased' = aliased
  BY <1>2 DEF CloseSource
<1>5. a \in SourceAddrs /\ x # Nil /\ x \in XASources
  BY <1>1, <1>2, <1>3, <1>4 DEF SourceTypes, HandlesKnown
<1>6. x.al \in SourceNames /\ x.valid \in BOOLEAN /\ x.usecount \in Int
  BY <1>5 DEF XASources
<1>7. x.valid <=> a \in openSources
  BY <1>1, <1>3, <1>5 DEF SetExact, Sources
<1>8. x.valid => x.usecount = 1
  BY <1>1, <1>3, <1>5 DEF SingleUse, Sources
<1>9. CASE x.valid
  <2>1. Unused(x.usecount - 1)
    BY <1>8, <1>9 DEF Unused
  <2>2. /\ xasource' = [xasource EXCEPT ![a] = Closed(x)]
        /\ openSources' = openSources \ {a}
        /\ alSources' = alSources \ {x.al}
        /\ attached' = [s \in SourceNames |-> IF s \in {x.al} THEN Nil ELSE attached[s]]
    BY <1>2, <1>3, <1>9, <2>1 DEF CloseSource, Deregistered, DeleteSources
  <2>3. Closed(x) \in XASources /\ Closed(x).valid = FALSE
    <3>1. x.usecount - 1 \in Int
      BY <1>6
    <3>2. QED
      BY <1>5, <1>6, <3>1 DEF Closed, XASources
  <2>4. Closed(x) # Nil
    BY <2>3 DEF XAudioAssumption
  <2>5. xasource'[a] = Closed(x) /\ \A c \in SourceAddrs : c # a => xasource'[c] = xasource[c]
    BY <1>1, <1>5, <2>2 DEF SourceTypes
  <2>6. Sources' = Sources \ {a}
    BY <1>5, <2>3, <2>5 DEF Sources
  <2>7. /\ openSources \subseteq SourceAddrs /\ a \in openSources
        /\ \A c \in openSources' : c \in openSources /\ c # a /\ xasource'[c] = xasource[c]
    BY <1>1, <1>7, <1>9, <2>2, <2>5 DEF SourceTypes
  <2>8. HandlesKnown' /\ sourceHandle' \in [Handles -> SourceAddrs \union {Nil}]
    <3>1. ASSUME NEW g \in Handles \ {h}, sourceHandle[g] # Nil, sourceHandle[g] \notin openSources'
          PROVE  sourceHandle[g] \in freed \union aliased
      <4>1. CASE sourceHandle[g] = a
        BY <1>1, <1>2, <2>7, <3>1, <4>1 DEF HandlesKnown
      <4>2. CASE sourceHandle[g] # a
        BY <1>1, <2>2, <3>1, <4>2 DEF HandlesKnown
      <4>3. QED
        BY <4>1, <4>2
    <3>2. openSources' \subseteq openSources /\ \A c \in SourceAddrs : xasource[c] # Nil => xasource'[c] # Nil
      BY <2>2, <2>4, <2>5
    <3>3. QED
      BY <1>1, <1>4, <3>1, <3>2, HandleGone
  <2>9. SourceTypes'
    <3>1. xasource' \in [SourceAddrs -> {Nil} \union XASources]
      BY <1>1, <2>2, <2>3 DEF SourceTypes
    <3>2. attached' \in [SourceNames -> BufferNames \union {Nil}]
      BY <1>1, <2>2 DEF SourceTypes
    <3>3. QED
      BY <1>1, <1>4, <2>2, <2>8, <3>1, <3>2 DEF SourceTypes
  <2>10. SetExact'
    <3>1. openSources' = Sources'
      BY <1>1, <2>2, <2>6 DEF SetExact
    <3>2. \A c \in openSources' : xasource'[c].al = xasource[c].al /\ xasource[c].al # x.al
      BY <1>1, <1>3, <2>7 DEF SetExact
    <3>3. alSources = {xasource[c].al : c \in openSources} /\ x.al \in alSources
      BY <1>1, <1>3, <2>7 DEF SetExact
    <3>4. alSources' = {xasource'[c].al : c \in openSources'}
      <4>1. ASSUME NEW s \in alSources' PROVE \E c \in openSources' : s = xasource'[c].al
        <5>1. PICK c \in openSources : s = xasource[c].al
          BY <2>2, <3>3
        <5>2. c # a
          BY <1>3, <2>2, <5>1
        <5>3. QED
          BY <2>2, <2>7, <5>1, <5>2
      <4>2. ASSUME NEW c \in openSources' PROVE xasource'[c].al \in alSources'
        BY <2>2, <2>7, <3>2, <3>3
      <4>3. QED
        BY <4>1, <4>2
    <3>5. \A c, d \in openSources' : xasource'[c].al = xasource'[d].al => c = d
      BY <1>1, <2>7 DEF SetExact
    <3>6. IsFiniteSet(openSources') /\ Cardinality(openSources') = Cardinality(openSources) - 1
      BY <1>1, <2>2, <2>7, FS_RemoveElement DEF SetExact
    <3>7. IsFiniteSet(alSources') /\ Cardinality(alSources') = Cardinality(alSources) - 1
      BY <1>1, <2>2, <3>3, FS_RemoveElement DEF SetExact
    <3>8. Cardinality(alSources') = Cardinality(openSources')
      BY <1>1, <3>6, <3>7 DEF SetExact
    <3>9. QED
      BY <3>1, <3>4, <3>5, <3>6, <3>7, <3>8 DEF SetExact
  <2>11. SingleUse'
    BY <1>1, <2>5, <2>6 DEF SingleUse, Sources
  <2>12. FreedApart'
    BY <1>1, <1>4, <2>2, <2>4, <2>5 DEF FreedApart, SourceTypes
  <2>13. QED
    BY <2>8, <2>9, <2>10, <2>11, <2>12 DEF SourceInv
<1>10. CASE ~x.valid
  <2>1. /\ xasource' = [xasource EXCEPT ![a].usecount = @ - 1]
        /\ UNCHANGED <<openSources, alSources, attached>>
    BY <1>2, <1>3, <1>10 DEF CloseSource
  <2>2. /\ xasource'[a] = [x EXCEPT !.usecount = @ - 1]
        /\ \A c \in SourceAddrs : c # a => xasource'[c] = xasource[c]
    BY <1>1, <1>3, <1>5, <2>1 DEF SourceTypes
  <2>3. xasource'[a] \in XASources /\ xasource'[a].valid = x.valid
    BY <1>5, <1>6, <2>2 DEF XASources
  <2>4. xasource'[a] # Nil
    BY <2>3 DEF XAudioAssumption
  <2>5. Sources' = Sources /\ a \notin Sources
    BY <1>3, <1>10, <2>2, <2>3 DEF Sources
  <2>6. \A c \in openSources : c # a /\ c \in SourceAddrs /\ xasource'[c] = xasource[c]
    BY <1>1, <2>2, <2>5 DEF SetExact, Sources
  <2>7. HandlesKnown' /\ sourceHandle' \in [Handles -> SourceAddrs \union {Nil}]
    <3>1. \A g \in Handles \ {h} : sourceHandle[g] # Nil /\ sourceHandle[g] \notin openSources'
            => sourceHandle[g] \in freed \union aliased
      BY <1>1, <2>1 DEF HandlesKnown
    <3>2. openSources' \subseteq openSources /\ \A c \in SourceAddrs : xasource[c] # Nil => xasource'[c] # Nil
      BY <2>1, <2>2, <2>4
    <3>3. QED
      BY <1>1, <1>4, <3>1, <3>2, HandleGone
  <2>8. SourceTypes'
    <3>1. xasource' \in [SourceAddrs -> {Nil} \union XASources]
      BY <1>1, <1>5, <2>1, <2>2, <2>3 DEF SourceTypes
    <3>2. QED
      BY <1>1, <1>4, <2>1, <2>7, <3>1 DEF SourceTypes
  <2>9. SetExact'
    BY <1>1, <2>1, <2>5, <2>6 DEF SetExact
  <2>10. SingleUse'
    BY <1>1, <2>2, <2>5 DEF SingleUse, Sources
  <2>11. FreedApart'
    BY <1>1, <1>4, <2>1, <2>2, <2>4 DEF FreedApart, SourceTypes
  <2>12. QED
    BY <2>7, <2>8, <2>9, <2>10, <2>11 DEF SourceInv
<1>11. QED
  BY <1>6, <1>9, <1>10

LEMMA SetBufferKeeps ==
  ASSUME XAudioAssumption, BufferTypes, SourceInv, NEW h \in Handles, NEW al, SetBuffer(h, al)
  PROVE  SourceInv'
<1>1. SourceTypes /\ SetExact /\ SingleUse /\ FreedApart /\ HandlesKnown
  BY DEF SourceInv
<1>2. PICK s : s = xasource[sourceHandle[h]].al
  OBVIOUS
<1>3. /\ UNCHANGED <<alSources, xasource, freed, openSources, sourceHandle, aliased>>
      /\ s \in alSources /\ attached' = [attached EXCEPT ![s] = al] /\ al \in alBuffers \union {Nil}
  BY <1>2 DEF SetBuffer
<1>4. attached' \in [SourceNames -> BufferNames \union {Nil}]
  BY <1>1, <1>3 DEF SourceTypes, BufferTypes
<1>5. SourceTypes' /\ Sources' = Sources
  BY <1>1, <1>3, <1>4 DEF SourceTypes, Sources
<1>6. SetExact' /\ SingleUse' /\ FreedApart' /\ HandlesKnown'
  BY <1>1, <1>3, <1>5 DEF SetExact, SingleUse, FreedApart, HandlesKnown
<1>7. QED
  BY <1>5, <1>6 DEF SourceInv

LEMMA ResetKeeps ==
  ASSUME XAudioAssumption, SourceInv, Reset
  PROVE  SourceInv'
<1>1. SourceTypes /\ SetExact /\ SingleUse /\ FreedApart /\ HandlesKnown
  BY DEF SourceInv
<1>2. /\ alSources' = alSources \ {xasource[a].al : a \in openSources}
      /\ attached' = [s \in SourceNames |-> IF s \in {xasource[a].al : a \in openSources} THEN Nil ELSE attached[s]]
      /\ xasource' = [a \in SourceAddrs |-> IF a \in openSources
                                            THEN [xasource[a] EXCEPT !.valid = FALSE]
                                            ELSE xasource[a]]
      /\ freed' = freed \union openSources /\ openSources' = {}
      /\ aliased' = aliased \ openSources /\ sourceHandle' = sourceHandle
  BY DEF Reset, DeleteSources
<1>3. alSources' = {}
  BY <1>1, <1>2 DEF SetExact
<1>4. ASSUME NEW a \in openSources
      PROVE  xasource'[a] \in XASources /\ xasource'[a].valid = FALSE /\ a \in SourceAddrs
  <2>1. a \in SourceAddrs /\ xasource[a] \in XASources
    BY <1>1 DEF SourceTypes, SetExact, Sources
  <2>2. xasource'[a] = [xasource[a] EXCEPT !.valid = FALSE]
    BY <1>2, <2>1
  <2>3. QED
    BY <2>1, <2>2 DEF XASources
<1>5. \A a \in SourceAddrs \ openSources : xasource'[a] = xasource[a]
  BY <1>2
<1>6. \A a \in openSources : xasource'[a] # Nil
  BY <1>4 DEF XAudioAssumption
<1>7. Sources' = {}
  BY <1>1, <1>4, <1>5 DEF Sources, SetExact
<1>8. SourceTypes'
  <2>1. xasource' \in [SourceAddrs -> {Nil} \union XASources]
    <3>1. \A a \in SourceAddrs : xasource'[a] \in {Nil} \union XASources
      BY <1>1, <1>4, <1>5 DEF SourceTypes
    <3>2. QED
      BY <1>2, <3>1
  <2>2. attached' \in [SourceNames -> BufferNames \union {Nil}]
    BY <1>1, <1>2 DEF SourceTypes
  <2>3. QED
    BY <1>1, <1>2, <1>3, <2>1, <2>2 DEF SourceTypes
<1>9. SetExact'
  BY <1>2, <1>3, <1>7, FS_EmptySet DEF SetExact
<1>10. SingleUse'
  BY <1>7 DEF SingleUse
<1>11. FreedApart'
  <2>1. ASSUME NEW a \in freed' PROVE xasource'[a] # Nil
    BY <1>1, <1>2, <1>5, <1>6 DEF FreedApart, SourceTypes
  <2>2. QED
    BY <1>2, <2>1 DEF FreedApart
<1>12. HandlesKnown'
  <2>1. ASSUME NEW h \in Handles, sourceHandle[h] # Nil
        PROVE  /\ xasource'[sourceHandle[h]] # Nil
               /\ sourceHandle[h] \in openSources' \union freed' \union aliased'
    <3>1. /\ sourceHandle[h] \in SourceAddrs /\ xasource[sourceHandle[h]] # Nil
          /\ sourceHandle[h] \in openSources \union freed \union aliased
      BY <1>1, <2>1 DEF SourceTypes, HandlesKnown
    <3>2. QED
      BY <1>2, <1>5, <1>6, <3>1
  <2>2. QED
    BY <1>2, <2>1 DEF HandlesKnown
<1>13. QED
  BY <1>8, <1>9, <1>10, <1>11, <1>12 DEF SourceInv

-----------------------------------------------------------------------------
(* All steps. *)

XAudioInv == BufferInv /\ SourceInv

\* What a step on the other half does not touch.
LEMMA BuffersUntouched ==
  ASSUME BufferInv, UNCHANGED bufferVars
  PROVE  BufferInv'
<1>1. UNCHANGED <<alBuffers, xabuffer, openBuffers, bufferHandle, batch, buffers, returned>>
  BY DEF bufferVars, cacheVars, loadVars
<1>2. BufferTypes' /\ Buffers' = Buffers
  BY <1>1 DEF BufferInv, BufferTypes, Buffers
<1>3. LoadInv' /\ UseCounts'
  BY <1>1 DEF BufferInv, LoadInv, UseCounts, Users
<1>4. CacheExact' /\ OpenHandleUsable' /\ OneOwner'
  BY <1>1, <1>2 DEF BufferInv, CacheExact, OpenHandleUsable, OneOwner
<1>5. QED
  BY <1>2, <1>3, <1>4 DEF BufferInv

LEMMA SourcesUntouched ==
  ASSUME SourceInv, UNCHANGED sourceVars
  PROVE  SourceInv'
<1>1. UNCHANGED <<alSources, attached, xasource, freed, openSources, sourceHandle, aliased>>
  BY DEF sourceVars
<1>2. SourceTypes' /\ Sources' = Sources
  BY <1>1 DEF SourceInv, SourceTypes, Sources
<1>3. SetExact' /\ SingleUse' /\ FreedApart' /\ HandlesKnown'
  BY <1>1, <1>2 DEF SourceInv, SetExact, SingleUse, FreedApart, HandlesKnown
<1>4. QED
  BY <1>2, <1>3 DEF SourceInv

\* Which steps touch one half only.
LEMMA Halves ==
  /\ \A files : LoadBegin(files) => UNCHANGED sourceVars
  /\ LoadFails => UNCHANGED sourceVars
  /\ \A b : LoadRefused(b) => UNCHANGED sourceVars
  /\ \A h : LoadCached(h) => UNCHANGED sourceVars
  /\ \A h, b : LoadFile(h, b) => UNCHANGED sourceVars
  /\ \A h, force : CloseBuffer(h, force) => UNCHANGED sourceVars
  /\ \A h, s, a : NewSource(h, s, a) => UNCHANGED bufferVars
  /\ \A h, al : SetBuffer(h, al) => UNCHANGED bufferVars
  /\ \A h : CloseSource(h) => UNCHANGED bufferVars
  /\ Reset => UNCHANGED bufferVars
<1>1. /\ \A files : LoadBegin(files) => UNCHANGED sourceVars
      /\ LoadFails => UNCHANGED sourceVars
      /\ \A b : LoadRefused(b) => UNCHANGED sourceVars
  BY DEF LoadBegin, LoadFails, LoadRefused, LeaveByError
<1>2. /\ \A h : LoadCached(h) => UNCHANGED sourceVars
      /\ \A h, b : LoadFile(h, b) => UNCHANGED sourceVars
  BY DEF LoadCached, LoadFile
<1>3. \A h, force : CloseBuffer(h, force) => UNCHANGED sourceVars
  BY DEF CloseBuffer
<1>4. /\ \A h, s, a : NewSource(h, s, a) => UNCHANGED bufferVars
      /\ \A h, al : SetBuffer(h, al) => UNCHANGED bufferVars
  BY DEF NewSource, SetBuffer, bufferVars
<1>5. \A h : CloseSource(h) => UNCHANGED bufferVars
  BY DEF CloseSource, bufferVars
<1>6. Reset => UNCHANGED bufferVars
  BY DEF Reset, bufferVars
<1>7. QED
  BY <1>1, <1>2, <1>3, <1>4, <1>5, <1>6

LEMMA InitHolds ==
  ASSUME XAudioAssumption, Init
  PROVE  XAudioInv
<1>1. BufferTypes /\ Buffers = {}
  BY DEF Init, BufferTypes, Buffers
<1>2. LoadInv
  BY DEF Init, LoadInv, Range, IsInjective
<1>3. UseCounts /\ CacheExact /\ OpenHandleUsable /\ OneOwner
  BY <1>1 DEF Init, UseCounts, CacheExact, OpenHandleUsable, OneOwner
<1>4. SourceTypes /\ Sources = {}
  BY DEF Init, SourceTypes, Sources
<1>5. SetExact
  BY <1>4, FS_EmptySet DEF Init, SetExact
<1>6. SingleUse /\ FreedApart /\ HandlesKnown
  BY <1>4 DEF Init, SingleUse, FreedApart, HandlesKnown
<1>7. QED
  BY <1>1, <1>2, <1>3, <1>4, <1>5, <1>6 DEF XAudioInv, BufferInv, SourceInv

LEMMA StepKeeps ==
  ASSUME XAudioAssumption, XAudioInv, [Next]_vars
  PROVE  XAudioInv'
<1>1. BufferInv /\ SourceInv /\ BufferTypes
  BY DEF XAudioInv, BufferInv
<1>2. ASSUME NEW files \in Batches, LoadBegin(files) PROVE XAudioInv'
  BY <1>1, <1>2, LoadBeginKeeps, SourcesUntouched, Halves DEF XAudioInv
<1>3. CASE LoadFails
  BY <1>1, <1>3, LoadFailsKeeps, SourcesUntouched, Halves DEF XAudioInv
<1>20. ASSUME NEW b \in BufferAddrs, LoadRefused(b) PROVE XAudioInv'
  BY <1>1, <1>20, LoadRefusedKeeps, SourcesUntouched, Halves DEF XAudioInv
<1>4. ASSUME NEW h \in FreeHandles, LoadCached(h) PROVE XAudioInv'
  BY <1>1, <1>4, LoadCachedKeeps, SourcesUntouched, Halves DEF XAudioInv
<1>5. ASSUME NEW h \in FreeHandles, NEW b \in BufferAddrs, LoadFile(h, b) PROVE XAudioInv'
  BY <1>1, <1>5, LoadFileKeeps, SourcesUntouched, Halves DEF XAudioInv
<1>6. ASSUME NEW h \in FreeHandles, NEW s \in SourceNames, NEW a \in SourceAddrs, NewSource(h, s, a)
      PROVE  XAudioInv'
  BY <1>1, <1>6, NewSourceKeeps, BuffersUntouched, Halves DEF XAudioInv
<1>7. ASSUME NEW h \in Handles, NEW force \in BOOLEAN, CloseBuffer(h, force) PROVE XAudioInv'
  BY <1>1, <1>7, CloseBufferKeeps, SourcesUntouched, Halves DEF XAudioInv
<1>8. ASSUME NEW h \in Handles, Forget(h) PROVE XAudioInv'
  BY <1>1, <1>8, ForgetKeeps, ForgetKeepsSources DEF XAudioInv
<1>9. ASSUME NEW h \in Handles, NEW al \in BuffersAtHand \union {Nil}, SetBuffer(h, al) PROVE XAudioInv'
  BY <1>1, <1>9, SetBufferKeeps, BuffersUntouched, Halves DEF XAudioInv
<1>10. ASSUME NEW h \in Handles, CloseSource(h) PROVE XAudioInv'
  BY <1>1, <1>10, CloseSourceKeeps, BuffersUntouched, Halves DEF XAudioInv
<1>11. CASE Reset
  BY <1>1, <1>11, ResetKeeps, BuffersUntouched, Halves DEF XAudioInv
<1>12. CASE UNCHANGED vars
  <2>1. UNCHANGED bufferVars /\ UNCHANGED sourceVars
    BY <1>12 DEF vars, alVars, bufferVars, sourceVars, cacheVars, loadVars
  <2>2. QED
    BY <1>1, <2>1, BuffersUntouched, SourcesUntouched DEF XAudioInv
<1>13. QED
  BY <1>2, <1>3, <1>4, <1>5, <1>6, <1>7, <1>8, <1>9, <1>10, <1>11, <1>12, <1>20 DEF Next

LEMMA Invariance == Spec => []XAudioInv
<1>1. XAudioAssumption /\ Init => XAudioInv
  BY InitHolds
<1>2. XAudioAssumption /\ XAudioInv /\ [Next]_vars => XAudioInv'
  BY StepKeeps
<1>3. QED
  BY <1>1, <1>2, XAudioAssumption, PTL DEF Spec

\* The state of XAudio.cpp's globals and of OpenAL keeps its types; in
\* particular no use count of a buffer runs below zero.
THEOREM TypeCorrect == Spec => []TypeOK
<1>1. XAudioInv => TypeOK
  BY DEF XAudioInv, BufferInv, SourceInv, BufferTypes, SourceTypes, TypeOK
<1>2. QED
  BY <1>1, Invariance, PTL

\* openBuffers holds exactly the buffers that are not closed, each under the
\* name of its file.
THEOREM CacheStaysExact == Spec => []CacheExact
<1>1. XAudioInv => CacheExact
  BY DEF XAudioInv, BufferInv
<1>2. QED
  BY <1>1, Invariance, PTL

\* XAResource counts users so that nobody closes a buffer that another handle
\* still refers to.
THEOREM OpenHandlesStayUsable == Spec => []OpenHandleUsable
<1>1. XAudioInv => OpenHandleUsable
  BY DEF XAudioInv, BufferInv
<1>2. QED
  BY <1>1, Invariance, PTL

\* No OpenAL buffer belongs to two XABuffers, or to one and to a loadbuffer call
\* that still has to fill it.
THEOREM NoBufferShared == Spec => []OneOwner
<1>1. XAudioInv => OneOwner
  BY DEF XAudioInv, BufferInv
<1>2. QED
  BY <1>1, Invariance, PTL

\* reset_cleanup, which walks through openSources, deletes every OpenAL source
\* there is, and each once.
THEOREM ResetFindsAll == Spec => []NoSourceLost
<1>1. ASSUME XAudioInv PROVE NoSourceLost
  <2>1. SourceTypes /\ SetExact /\ HandlesKnown
    BY <1>1 DEF XAudioInv, SourceInv
  <2>2. Range(sourceHandle) \subseteq openSources \union freed \union aliased \union {Nil}
    BY <2>1 DEF SourceTypes, HandlesKnown, Range
  <2>3. QED
    BY <2>1, <2>2 DEF SetExact, NoSourceLost
<1>2. QED
  BY <1>1, Invariance, PTL

\* Steps that close no buffer leak none.
LEMMA SameLeaks ==
  ASSUME UNCHANGED <<alBuffers, xabuffer, buffers>>
  PROVE  Leaked' = Leaked
  BY DEF Leaked, Buffers

LEMMA LoadBeginLeaks ==
  ASSUME NEW files, LoadBegin(files), BufferTypes, LoadInv
  PROVE  Leaked' \subseteq Leaked
<1>1. /\ alBuffers' = alBuffers \union Range(buffers')
      /\ batch = <<>> /\ xabuffer' = xabuffer
  BY DEF LoadBegin, Between, cacheVars
<1>2. buffers = <<>> /\ Range(buffers) = {}
  BY <1>1 DEF LoadInv, BufferTypes, Range
<1>3. Buffers' = Buffers /\ {xabuffer'[b].al : b \in Buffers'} = {xabuffer[b].al : b \in Buffers}
  BY <1>1 DEF Buffers
<1>4. QED
  BY <1>1, <1>2, <1>3 DEF Leaked

\* A buffer with an open handle has a user.
LEMMA HandleCounted ==
  ASSUME XAudioAssumption, BufferInv, NEW h \in Handles, NEW b \in Buffers, bufferHandle[h] = b
  PROVE  xabuffer[b].usecount - 1 \in Nat
<1>1. h \in Users(b) /\ IsFiniteSet(Users(b)) /\ Cardinality(Users(b)) \in Nat
  BY UsersFinite DEF Users
<1>2. Cardinality(Users(b)) # 0
  BY <1>1, FS_EmptySet
<1>3. xabuffer[b].usecount \in Nat /\ Cardinality(Users(b)) <= xabuffer[b].usecount
  BY ObjectFields DEF BufferInv, UseCounts, Buffers, XABuffers
<1>4. QED
  BY <1>1, <1>2, <1>3

LEMMA CloseBufferLeaks ==
  ASSUME XAudioAssumption, BufferInv, NEW h \in Handles, NEW force \in BOOLEAN, CloseBuffer(h, force),
         NEW y \in Leaked' \ Leaked
  PROVE  y \in {attached[s] : s \in alSources}
<1>1. BufferTypes /\ OpenHandleUsable
  BY DEF BufferInv
<1>2. PICK b : b = bufferHandle[h]
  OBVIOUS
<1>3. PICK x : x = xabuffer[b]
  OBVIOUS
<1>4. b # Nil /\ buffers' = buffers
  BY <1>2 DEF CloseBuffer, loadVars
<1>5. b \in BufferAddrs /\ b \in Buffers /\ x # Nil /\ x.valid /\ x \in XABuffers
  BY <1>1, <1>2, <1>3, <1>4, ObjectFields DEF BufferTypes, OpenHandleUsable, Buffers
<1>6. \A c \in BufferAddrs : c # b => xabuffer'[c] = xabuffer[c]
  BY <1>1, <1>2, <1>3 DEF CloseBuffer, BufferTypes
<1>7. \A c \in Buffers : c # b => c \in Buffers' /\ xabuffer'[c] = xabuffer[c]
  BY <1>6 DEF Buffers
<1>8. /\ y \in alBuffers' /\ y \notin Range(buffers) /\ \A c \in Buffers' : y # xabuffer'[c].al
  BY <1>4 DEF Leaked
<1>9. alBuffers' \subseteq alBuffers
  BY <1>2, <1>3 DEF CloseBuffer
<1>10. y = x.al
  <2>1. \E c \in Buffers : y = xabuffer[c].al
    BY <1>8, <1>9 DEF Leaked
  <2>2. QED
    BY <1>3, <1>7, <1>8, <2>1
<1>11. CASE force /\ Unused(x.usecount - 1)
  <2>1. alBuffers' = IF Deletable(x.al) THEN alBuffers \ {x.al} ELSE alBuffers
    BY <1>2, <1>3, <1>5, <1>11 DEF CloseBuffer
  <2>2. ~Deletable(x.al)
    BY <1>8, <1>10, <2>1
  <2>3. QED
    BY <1>10, <2>2 DEF Deletable
<1>12. CASE ~(force /\ Unused(x.usecount - 1))
  <2>1. xabuffer' = [xabuffer EXCEPT ![b].usecount = @ - 1]
    BY <1>2, <1>3, <1>12 DEF CloseBuffer
  <2>2. xabuffer'[b] = [x EXCEPT !.usecount = @ - 1]
    BY <1>1, <1>3, <1>5, <2>1 DEF BufferTypes
  <2>3. xabuffer'[b].al = x.al /\ xabuffer'[b].valid = x.valid
    BY <1>5, <2>2 DEF XABuffers
  <2>4. xabuffer'[b] # Nil
    <3>1. x.usecount - 1 \in Nat
      BY <1>2, <1>3, <1>5, HandleCounted
    <3>2. [x EXCEPT !.usecount = @ - 1] \in XABuffers
      BY <1>5, <3>1 DEF XABuffers
    <3>3. QED
      BY <2>2, <3>2 DEF XAudioAssumption
  <2>5. b \in Buffers'
    BY <1>5, <2>3, <2>4 DEF Buffers
  <2>6. QED
    BY <1>8, <1>10, <2>3, <2>5
<1>13. QED
  BY <1>11, <1>12

\* Every step outside loadbuffer leaks nothing but a closed buffer that a source
\* still has.
LEMMA LeakStep ==
  ASSUME XAudioAssumption, XAudioInv, [Next]_vars, Between
  PROVE  Leaked' \ Leaked \subseteq {attached[s] : s \in alSources}
<1>1. BufferInv /\ BufferTypes /\ LoadInv
  BY DEF XAudioInv, BufferInv
<1>2. ASSUME NEW files \in Batches, LoadBegin(files) PROVE Leaked' \subseteq Leaked
  BY <1>1, <1>2, LoadBeginLeaks
<1>3. ASSUME \/ LoadFails
             \/ \E b \in BufferAddrs : LoadRefused(b)
             \/ \E h \in FreeHandles : LoadCached(h) \/ \E b \in BufferAddrs : LoadFile(h, b)
      PROVE  FALSE
  BY <1>3 DEF LoadFails, LoadRefused, LeaveByError, LoadCached, LoadFile
<1>4. UNCHANGED bufferVars => UNCHANGED <<alBuffers, xabuffer, buffers>>
  BY DEF bufferVars, cacheVars, loadVars
<1>5. ASSUME NEW h \in FreeHandles, NEW s \in SourceNames, NEW a \in SourceAddrs, NewSource(h, s, a)
      PROVE  Leaked' = Leaked
  BY <1>4, <1>5, Halves, SameLeaks
<1>6. ASSUME NEW h \in Handles, NEW force \in BOOLEAN, CloseBuffer(h, force)
      PROVE  Leaked' \ Leaked \subseteq {attached[s] : s \in alSources}
  BY <1>1, <1>6, CloseBufferLeaks
<1>7. ASSUME NEW h \in Handles, Forget(h) PROVE Leaked' = Leaked
  BY <1>7, SameLeaks DEF Forget, alVars, loadVars
<1>8. ASSUME NEW h \in Handles, NEW al \in BuffersAtHand \union {Nil}, SetBuffer(h, al) PROVE Leaked' = Leaked
  BY <1>4, <1>8, Halves, SameLeaks
<1>9. ASSUME NEW h \in Handles, CloseSource(h) PROVE Leaked' = Leaked
  BY <1>4, <1>9, Halves, SameLeaks
<1>10. CASE Reset
  BY <1>4, <1>10, Halves, SameLeaks
<1>11. CASE UNCHANGED vars
  BY <1>11, SameLeaks DEF vars, alVars, loadVars
<1>12. QED
  BY <1>2, <1>3, <1>5, <1>6, <1>7, <1>8, <1>9, <1>10, <1>11 DEF Next

\* XABuffer::ALClose deletes the OpenAL buffer of the object it closes, unless a
\* source still has it attached and OpenAL refuses; no other operation on
\* buffers, handles or sources loses one.
THEOREM OnlyAttachedLeak == Spec => CloseLeaksOnlyAttached
<1>1. XAudioAssumption /\ XAudioInv /\ [Next]_vars =>
        [Between => Leaked' \ Leaked \subseteq {attached[s] : s \in alSources}]_vars
  BY LeakStep
<1>2. QED
  BY <1>1, Invariance, XAudioAssumption, PTL DEF Spec, CloseLeaksOnlyAttached
=============================================================================
