------------------------------- MODULE XAudio -------------------------------
(***************************************************************************)
(* blt.xaudio (xaudio/XAudio.cpp, XABuffer.cpp, XASource.cpp and           *)
(* XAudioInternal.h): OpenAL buffers and sources owned by C++ objects,     *)
(* which Lua holds through handles.  A buffer object is cached under its   *)
(* file name and counts its users; sources are all deleted by a reset.     *)
(*                                                                         *)
(* Everything runs on the main thread: a Lua call is one step, except that *)
(* loadbuffer goes through its file names one by one.  OpenAL gives names  *)
(* of deleted buffers and sources away again, and the allocator gives      *)
(* addresses of deleted objects away again.                                *)
(***************************************************************************)
EXTENDS Integers, Sequences, FiniteSets, Functions

CONSTANTS
  Files,                       \* names given to loadbuffer
  BufferNames, SourceNames,    \* ALuints OpenAL hands out
  BufferAddrs, SourceAddrs,    \* where XABuffers and XASources are allocated
  Handles,                     \* XALuaHandles Lua can have at once
  Nil,
  MaxBatch                     \* file names in one call; 32 in the code

\* The objects: an ALuint with its file name, and whether and how often it is
\* in use.
XABuffers == [al : BufferNames, file : Files, valid : BOOLEAN, usecount : Nat]
XASources == [al : SourceNames, valid : BOOLEAN, usecount : Int]

ASSUME XAudioAssumption ==
  /\ Nil \notin Files \union BufferNames \union SourceNames \union BufferAddrs \union SourceAddrs
  /\ Nil \notin XABuffers /\ Nil \notin XASources
  /\ IsFiniteSet(Handles)
  /\ MaxBatch \in Nat

VARIABLES
  alBuffers, alSources,    \* OpenAL: the names in use
  attached,                \* OpenAL: the buffer attached to each source
  xabuffer, xasource,      \* the object at each address, deleted ones too
  freed,                   \* addresses of the sources that were deleted
  openBuffers,             \* the cache, by file name
  openSources,             \* addresses of the sources a reset deletes
  bufferHandle, sourceHandle,  \* what each open handle of Lua refers to
  batch, buffers,          \* loadbuffer: files and fresh AL buffers to go
  returned,                \* loadbuffer: handles made so far
  aliased                  \* history: sources at an address that a stale
                           \* handle still refers to
alVars     == <<alBuffers, alSources, attached>>
sourceVars == <<alSources, attached, xasource, freed, openSources, sourceHandle, aliased>>
cacheVars  == <<xabuffer, openBuffers, bufferHandle>>
loadVars   == <<batch, buffers, returned>>
vars == <<alVars, xabuffer, xasource, freed, openBuffers, openSources,
          bufferHandle, sourceHandle, loadVars, aliased>>

Init == /\ alBuffers = {} /\ alSources = {}
        /\ attached = [s \in SourceNames |-> Nil]
        /\ xabuffer = [b \in BufferAddrs |-> Nil]
        /\ xasource = [a \in SourceAddrs |-> Nil]
        /\ openBuffers = [f \in Files |-> Nil]
        /\ openSources = {} /\ freed = {}
        /\ bufferHandle = [h \in Handles |-> Nil]
        /\ sourceHandle = [h \in Handles |-> Nil]
        /\ batch = <<>> /\ buffers = <<>> /\ returned = {}
        /\ aliased = {}

\* No loadbuffer call is under way.
Between == batch = <<>>

FreeHandles == {h \in Handles : bufferHandle[h] = Nil /\ sourceHandle[h] = Nil}

-----------------------------------------------------------------------------
(* loadbuffer *)

\* alGenBuffers makes a buffer for every file name, cached or not.
LoadBegin(files) ==
  /\ Between
  /\ Len(files) <= Cardinality(FreeHandles)
  /\ \E fresh \in [1..Len(files) -> BufferNames \ alBuffers] :
       /\ IsInjective(fresh)
       /\ buffers' = fresh
       /\ alBuffers' = alBuffers \union Range(fresh)
  /\ batch' = files
  /\ UNCHANGED <<sourceVars, cacheVars, returned>>

\* The next file name is done; after the last one its handles belong to Lua.
NextFile(h) == /\ batch' = Tail(batch)
               /\ buffers' = Tail(buffers)
               /\ returned' = IF Len(batch) = 1 THEN {} ELSE returned \union {h}

\* Mutant of Employed: a handle to a cached buffer is not counted.
EmployedNot(usecount) == usecount

\* XAResource::Employ.
Employed(usecount) == usecount + 1

LoadCached(h) ==
  /\ ~Between
  /\ LET b == openBuffers[Head(batch)]
     IN  /\ b # Nil
         /\ xabuffer' = [xabuffer EXCEPT ![b].usecount = Employed(@)]
         /\ bufferHandle' = [bufferHandle EXCEPT ![h] = b]
  /\ NextFile(h)
  /\ UNCHANGED <<alBuffers, sourceVars, openBuffers>>

\* A new object, with one user, for the file that is next.
AddToCache(b) ==
  /\ openBuffers[Head(batch)] = Nil
  /\ xabuffer[b] = Nil
  /\ xabuffer' = [xabuffer EXCEPT ![b] = [al |-> Head(buffers), file |-> Head(batch),
                                          valid |-> TRUE, usecount |-> 1]]
  /\ openBuffers' = [openBuffers EXCEPT ![Head(batch)] = b]

\* The file is decoded into its AL buffer; the new object is cached.
LoadFile(h, b) ==
  /\ ~Between
  /\ AddToCache(b)
  /\ bufferHandle' = [bufferHandle EXCEPT ![h] = b]
  /\ NextFile(h)
  /\ UNCHANGED <<alBuffers, sourceVars>>

\* luaL_error leaves the call, and the handles already made are garbage that
\* nobody closes.
LeaveByError ==
  /\ ~Between
  /\ batch' = <<>> /\ buffers' = <<>> /\ returned' = {}
  /\ bufferHandle' = [h \in Handles |-> IF h \in returned THEN Nil ELSE bufferHandle[h]]
  /\ UNCHANGED <<alBuffers, sourceVars>>

\* stb_vorbis cannot read the file.
LoadFails ==
  /\ LeaveByError
  /\ openBuffers[Head(batch)] = Nil
  /\ UNCHANGED <<xabuffer, openBuffers>>

\* OpenAL has refused the data, which is asked only after the object was cached:
\* it stays so, counting the handle that Lua never gets.
LoadRefused(b) == LeaveByError /\ AddToCache(b)

-----------------------------------------------------------------------------
(* Buffer handles *)

\* Mutant of Unused: a forced close does not look at the other users.
UnusedOrNot(usecount) == TRUE

Unused(usecount) == usecount <= 0

\* Mutant of Deletable: ALClose does not call alDeleteBuffers.
DeletableNever(al) == FALSE

\* alDeleteBuffers refuses a buffer that is attached to a source.
Deletable(al) == \A s \in alSources : attached[s] # al

\* Mutant of Closed: XAResource::Close leaves valid as it was.
ClosedStillValid(x) == [x EXCEPT !.usecount = @ - 1]

\* What Discard and Close leave of an object.
Closed(x) == [x EXCEPT !.usecount = @ - 1, !.valid = FALSE]

\* Mutant of Uncached: ALClose forgets openBuffers.erase.
UncachedNot(file) == openBuffers

Uncached(file) == [openBuffers EXCEPT ![file] = Nil]

\* XABuffer_Close, XALuaHandle::Close, XAResource::Discard and, if it comes to
\* that, Close and ALClose.  The object itself is never deleted.
CloseBuffer(h, force) ==
  /\ Between
  /\ bufferHandle[h] # Nil
  /\ LET b == bufferHandle[h]
         x == xabuffer[b]
     IN  IF force /\ Unused(x.usecount - 1) /\ x.valid
         THEN /\ xabuffer' = [xabuffer EXCEPT ![b] = Closed(x)]
              /\ openBuffers' = Uncached(x.file)
              /\ alBuffers' = IF Deletable(x.al) THEN alBuffers \ {x.al} ELSE alBuffers
         ELSE /\ xabuffer' = [xabuffer EXCEPT ![b].usecount = @ - 1]
              /\ UNCHANGED <<openBuffers, alBuffers>>
  /\ bufferHandle' = [bufferHandle EXCEPT ![h] = Nil]
  /\ UNCHANGED <<sourceVars, loadVars>>

\* Lua drops a handle, or its state is closed: handles have no __gc.
Forget(h) ==
  /\ Between
  /\ h \notin FreeHandles
  /\ bufferHandle' = [bufferHandle EXCEPT ![h] = Nil]
  /\ sourceHandle' = [sourceHandle EXCEPT ![h] = Nil]
  /\ UNCHANGED <<alVars, xabuffer, xasource, freed, openBuffers, openSources, loadVars, aliased>>

-----------------------------------------------------------------------------
(* Sources *)

\* newsource, once for each source of a call: a new object, perhaps where a
\* deleted one was that an old handle still refers to.
NewSource(h, s, a) ==
  /\ Between
  /\ s \notin alSources
  /\ xasource[a] = Nil \/ a \in freed
  /\ alSources' = alSources \union {s}
  /\ xasource' = [xasource EXCEPT ![a] = [al |-> s, valid |-> TRUE, usecount |-> 1]]
  /\ freed' = freed \ {a}
  /\ openSources' = openSources \union {a}
  /\ sourceHandle' = [sourceHandle EXCEPT ![h] = a]
  /\ aliased' = IF a \in Range(sourceHandle) THEN aliased \union {a} ELSE aliased
  /\ UNCHANGED <<alBuffers, attached, cacheVars, loadVars>>

BuffersAtHand == {xabuffer[bufferHandle[h]].al : h \in {g \in Handles : bufferHandle[g] # Nil}}

\* XASource_set_buffer, with a buffer Lua has an open handle of, or with nil.
\* A handle whose source was deleted finds its old name, if its memory is still
\* as it was.  OpenAL refuses names that are not in use.
SetBuffer(h, al) ==
  /\ Between
  /\ sourceHandle[h] # Nil
  /\ al \in alBuffers \union {Nil}
  /\ LET s == xasource[sourceHandle[h]].al
     IN  s \in alSources /\ attached' = [attached EXCEPT ![s] = al]
  /\ UNCHANGED <<alBuffers, alSources, xasource, freed, openSources, sourceHandle, aliased,
                 cacheVars, loadVars>>

\* alDeleteSources, which detaches the buffers.
DeleteSources(names) ==
  /\ alSources' = alSources \ names
  /\ attached' = [s \in SourceNames |-> IF s \in names THEN Nil ELSE attached[s]]

\* Mutant of Deregistered: XASource::ALClose forgets openSources.erase.
DeregisteredNot(a) == openSources

Deregistered(a) == openSources \ {a}

\* XASource_Close, which is always forced.  A handle that outlived its source
\* finds the closed source in the freed memory, or the source made there since.
CloseSource(h) ==
  /\ Between
  /\ sourceHandle[h] # Nil
  /\ LET a == sourceHandle[h]
         x == xasource[a]
     IN  IF x.valid /\ Unused(x.usecount - 1)
         THEN /\ xasource' = [xasource EXCEPT ![a] = Closed(x)]
              /\ openSources' = Deregistered(a)
              /\ DeleteSources({x.al})
         ELSE /\ xasource' = [xasource EXCEPT ![a].usecount = @ - 1]
              /\ UNCHANGED <<openSources, alSources, attached>>
  /\ sourceHandle' = [sourceHandle EXCEPT ![h] = Nil]
  /\ UNCHANGED <<alBuffers, freed, aliased, cacheVars, loadVars>>

\* lX_reset, reset_cleanup: every open source is closed and deleted, whoever
\* still has a handle of it.
Reset ==
  /\ Between
  /\ openSources # {}
  /\ DeleteSources({xasource[a].al : a \in openSources})
  /\ xasource' = [a \in SourceAddrs |-> IF a \in openSources
                                        THEN [xasource[a] EXCEPT !.valid = FALSE]
                                        ELSE xasource[a]]
  /\ freed' = freed \union openSources
  /\ openSources' = {}
  /\ aliased' = aliased \ openSources
  /\ UNCHANGED <<alBuffers, sourceHandle, cacheVars, loadVars>>

Batches == UNION {[1..n -> Files] : n \in 1..MaxBatch}

Next == \/ \E files \in Batches : LoadBegin(files)
        \/ LoadFails
        \/ \E b \in BufferAddrs : LoadRefused(b)
        \/ \E h \in FreeHandles : \/ LoadCached(h)
                                  \/ \E b \in BufferAddrs : LoadFile(h, b)
                                  \/ \E s \in SourceNames, a \in SourceAddrs : NewSource(h, s, a)
        \/ \E h \in Handles : \/ \E force \in BOOLEAN : CloseBuffer(h, force)
                              \/ Forget(h)
                              \/ \E al \in BuffersAtHand \union {Nil} : SetBuffer(h, al)
                              \/ CloseSource(h)
        \/ Reset

Spec == Init /\ [][Next]_vars

-----------------------------------------------------------------------------
Buffers == {b \in BufferAddrs : xabuffer[b] # Nil /\ xabuffer[b].valid}
Sources == {a \in SourceAddrs : xasource[a] # Nil /\ xasource[a].valid}

TypeOK ==
  /\ alBuffers \subseteq BufferNames
  /\ alSources \subseteq SourceNames
  /\ attached \in [SourceNames -> BufferNames \union {Nil}]
  /\ xabuffer \in [BufferAddrs -> {Nil} \union XABuffers]
  /\ xasource \in [SourceAddrs -> {Nil} \union XASources]
  /\ freed \subseteq SourceAddrs
  /\ openBuffers \in [Files -> BufferAddrs \union {Nil}]
  /\ openSources \subseteq SourceAddrs
  /\ bufferHandle \in [Handles -> BufferAddrs \union {Nil}]
  /\ sourceHandle \in [Handles -> SourceAddrs \union {Nil}]
  /\ batch \in Seq(Files)
  /\ buffers \in Seq(BufferNames)
  /\ returned \subseteq Handles
  /\ aliased \subseteq SourceAddrs

\* The cache of loadbuffer holds each buffer that is not closed under the name
\* of its file, and no closed one: the same file is never decoded twice at once
\* and a closed buffer is never handed out again (XABuffer.cpp:49, :16).
CacheExact ==
  /\ \A f \in Files : openBuffers[f] # Nil =>
       openBuffers[f] \in Buffers /\ xabuffer[openBuffers[f]].file = f
  /\ \A b \in Buffers : openBuffers[xabuffer[b].file] = b

\* A buffer that Lua has an open handle of is not closed and its OpenAL buffer
\* exists, however many handles of it other scripts have closed by force.
OpenHandleUsable ==
  \A h \in Handles : bufferHandle[h] # Nil =>
    bufferHandle[h] \in Buffers /\ xabuffer[bufferHandle[h]].al \in alBuffers

\* Each OpenAL buffer in use belongs to one object at most, or to the loadbuffer
\* call that made it.
OneOwner ==
  /\ \A b, c \in Buffers : xabuffer[b].al = xabuffer[c].al => b = c
  /\ \A b \in Buffers : xabuffer[b].al \in alBuffers \ Range(buffers)

\* A reset finds every OpenAL source there is, closes no source twice, and a
\* handle outlives its source only if the reset deleted it or if a stale handle
\* of that address closed it.
NoSourceLost ==
  /\ openSources = Sources
  /\ alSources = {xasource[a].al : a \in openSources}
  /\ Cardinality(alSources) = Cardinality(openSources)
  /\ Range(sourceHandle) \subseteq openSources \union freed \union aliased \union {Nil}

\* OpenAL buffers that nothing will ever delete.
Leaked == alBuffers \ ({xabuffer[b].al : b \in Buffers} \union Range(buffers))

\* Outside loadbuffer a buffer is leaked only if it is closed while a source has
\* it, which is when OpenAL refuses to delete it.
CloseLeaksOnlyAttached ==
  [][Between => Leaked' \ Leaked \subseteq {attached[s] : s \in alSources}]_vars
=============================================================================
