------------------------ MODULE BackgroundJobsProofs ------------------------
(***************************************************************************)
(* Proofs about HTTP requests and asynchronous hashes, for any number of   *)
(* jobs, VMs and progress reports: no job is lost or resolved twice, its   *)
(* callbacks leave the registry with it, its HTTPItem is handed from one   *)
(* owner to the next, and its progress grows.                              *)
(***************************************************************************)
EXTENDS BackgroundJobs, SequenceTheorems, TLAPS

QueueProofs == INSTANCE EventQueueProofs WITH NQueues <- 3

\* What queue q still owes: drained or not yet drained, in order.
Owed(q) == Queue!Owed[q]

JobsIn(s) == {s[i].job : i \in DOMAIN s}
EachJobOnce(s) == \A i, k \in DOMAIN s : s[i].job = s[k].job => i = k

\* A pending job is at work, or its result waits in the queue of its kind, and
\* nothing else is in those places.
PlacedOnce ==
  /\ EachJobOnce(Owed(2)) /\ EachJobOnce(Owed(3))
  /\ JobsIn(Owed(2)) \subseteq HttpJobs /\ JobsIn(Owed(3)) \subseteq HashJobs
  /\ running \intersect (JobsIn(Owed(2)) \union JobsIn(Owed(3))) = {}
  /\ running \union JobsIn(Owed(2)) \union JobsIn(Owed(3)) = Pending

CountedOnce == \A j \in Jobs : /\ calls[j] + drops[j] <= 1
                               /\ owner[j] = NoVM => ~Resolved(j)

\* While a callback runs, its state is registered; the last one of a job runs
\* after the job was counted as called, and one for progress is of a job that has
\* one.
CallingRegistered ==
  calling # Idle => /\ turn # 0
                    /\ owner[calling[1]] \in activeStates
                    /\ calling[2] = "done" => Resolved(calling[1])
                    /\ calling[2] = "progress" => calling[1] \in reports

\* A VM counts as the asker of a job from then on until it is closed; a job that
\* nobody has asked for has nothing yet, and one without a progress callback has
\* no integer for it.
JobRecords ==
  \A j \in Jobs : /\ asker[j] \in activeStates \union {NoVM}
                  /\ owner[j] = NoVM => asker[j] = NoVM /\ j \notin reports
                  /\ j \notin reports => ref[<<j, "progress">>] = NoRef

\* v still holds the callback c.
Kept(v, c) == /\ asker[c[1]] = v
              /\ c[2] = "progress" => c[1] \in reports
              /\ Live(c[1]) \/ owner[c[1]] # v

\* The slots of a state that inherited nothing are those of its own jobs that are
\* not over, at the integers the jobs have, and of the jobs of its coroutines.
SlotsMatch ==
  \A v \in activeStates \ tainted, c \in Callbacks :
    /\ \A r \in Refs : registry[v][r] = c => Kept(v, c) /\ (owner[c[1]] = v => ref[c] = r)
    /\ Kept(v, c) => \E r \in Refs : registry[v][r] = c
    /\ Live(c[1]) /\ owner[c[1]] = v => asker[c[1]] = v

\* Progress that is told later is larger, and none exceeds the HTTPItem's, which
\* stays 0 without a progress callback.
Growing(s, low, high) ==
  /\ \A i \in DOMAIN s : /\ s[i].job \in HttpJobs
                         /\ low[s[i].job] < s[i].bytes
                         /\ s[i].bytes <= high[s[i].job]
  /\ \A i, k \in DOMAIN s : i < k /\ s[i].job = s[k].job => s[i].bytes < s[k].bytes

ProgressOrdered == /\ Growing(Owed(1), seen, byteprogress)
                   /\ \A j \in HttpJobs : /\ seen[j] <= byteprogress[j]
                                          /\ byteprogress[j] # 0 => j \in reports

\* The HTTPItem of a request belongs to its thread, then to its event until the
\* callback has returned, and to nobody after that.
ItemHandedOver ==
  \A j \in HttpJobs :
    /\ item[j] = "none" <=> owner[j] = NoVM
    /\ item[j] = "thread" <=> j \in running
    /\ item[j] = "queue" <=> j \in JobsIn(Owed(2)) \/ calling = <<j, "done">>

\* The inductive invariant.
JobsInv == /\ TypeOK /\ PlacedOnce /\ CountedOnce /\ CallingRegistered
           /\ JobRecords /\ SlotsMatch /\ ProgressOrdered /\ ItemHandedOver

-----------------------------------------------------------------------------
(* The queues, seen through what they owe. *)

LEMMA OwedType == Queue!QueueTypeOK => Queue!Owed \in [1..3 -> Seq(Events)]
  BY DEF Queue!Owed, Queue!QueueTypeOK

LEMMA SameOwed == /\ Queue!Owed = QueueProofs!Owed
                  /\ Queue!Owed' = QueueProofs!Owed'
  BY DEF Queue!Owed, QueueProofs!Owed

LEMMA SameType == Queue!QueueTypeOK <=> QueueProofs!QueueTypeOK
  BY DEF Queue!QueueTypeOK, QueueProofs!QueueTypeOK

\* An event added to a queue is owed last, and the other queues are left alone.
LEMMA AddedIsOwed ==
  ASSUME NEW q \in 1..3, NEW e \in Events, Queue!QueueTypeOK, Queue!AddToQueue(q, e)
  PROVE  /\ Queue!QueueTypeOK'
         /\ UNCHANGED turn
         /\ Owed(q)' = Append(Owed(q), e)
         /\ \A p \in 1..3 \ {q} : Owed(p)' = Owed(p)
<1>1. QueueProofs!AddToQueue(q, e)
  BY DEF Queue!AddToQueue, QueueProofs!AddToQueue
<1>2. Queue!Owed' = [Queue!Owed EXCEPT ![q] = Append(@, e)]
  BY <1>1, SameOwed, SameType, QueueProofs!AddToQueuePuts
<1>3. Queue!QueueTypeOK'
  BY DEF Queue!QueueTypeOK, Queue!AddToQueue
<1>4. QED
  BY <1>2, <1>3, OwedType DEF Owed, Queue!AddToQueue

\* ProcessEvents changes nothing of what is owed while it goes from one queue to
\* the next.
LEMMA MovedIsOwed ==
  ASSUME Queue!QueueTypeOK, Queue!ProcessEvents \/ Queue!NextQueue
  PROVE  /\ Queue!QueueTypeOK'
         /\ \A q \in 1..3 : Owed(q)' = Owed(q)
<1>1. ASSUME NEW q \in 1..3, Queue!Drain(q), turn = 0 \/ localQueue = <<>>
      PROVE  Queue!QueueTypeOK' /\ Queue!Owed' = Queue!Owed
  <2>1. QueueProofs!Drain(q)
    BY <1>1 DEF Queue!Drain, QueueProofs!Drain
  <2>2. Queue!Owed' = Queue!Owed
    BY <1>1, <2>1, SameOwed, SameType, QueueProofs!DrainOwesTheSame
  <2>3. QED
    BY <1>1, <2>2 DEF Queue!Drain, Queue!QueueTypeOK
<1>2. CASE Queue!ProcessEvents
  BY <1>1, <1>2 DEF Queue!ProcessEvents, Owed
<1>3. CASE Queue!NextQueue /\ turn < 3
  <2>1. turn + 1 \in 1..3 /\ Queue!Drain(turn + 1) /\ localQueue = <<>>
    BY <1>3 DEF Queue!NextQueue, Queue!QueueTypeOK
  <2>2. QED
    BY <1>1, <2>1 DEF Owed
<1>4. CASE Queue!NextQueue /\ ~(turn < 3)
  <2>1. turn' = 0 /\ localQueue = <<>> /\ UNCHANGED <<eventQueue, localQueue>>
    BY <1>4 DEF Queue!NextQueue
  <2>2. QED
    BY <2>1 DEF Owed, Queue!Owed, Queue!QueueTypeOK
<1>5. QED
  BY <1>2, <1>3, <1>4

\* The event that is run is the first one owed, and is owed no more.
LEMMA RunIsTaken ==
  ASSUME Queue!QueueTypeOK, Queue!RunEvent
  PROVE  /\ Queue!QueueTypeOK'
         /\ turn \in 1..3 /\ UNCHANGED turn
         /\ Owed(turn) # <<>> /\ Event = Head(Owed(turn))
         /\ Owed(turn)' = Tail(Owed(turn))
         /\ \A p \in 1..3 \ {turn} : Owed(p)' = Owed(p)
<1>1. QueueProofs!RunEvent
  BY DEF Queue!RunEvent, QueueProofs!RunEvent
<1>2. /\ turn \in 1..3 /\ Queue!Owed[turn] # <<>>
      /\ Queue!Owed' = [Queue!Owed EXCEPT ![turn] = Tail(@)]
  BY <1>1, SameOwed, SameType, QueueProofs!RunEventTakes
<1>3. /\ localQueue \in Seq(Events) /\ localQueue # <<>>
      /\ eventQueue[turn] \in Seq(Events)
      /\ Queue!Owed[turn] = localQueue \o eventQueue[turn]
      /\ UNCHANGED turn
  BY <1>2 DEF Queue!RunEvent, Queue!QueueTypeOK, Queue!Owed
<1>4. Head(localQueue \o eventQueue[turn]) = Head(localQueue)
  BY <1>3
<1>5. Queue!QueueTypeOK'
  BY DEF Queue!QueueTypeOK, Queue!RunEvent
<1>6. QED
  BY <1>2, <1>3, <1>4, <1>5, OwedType DEF Owed, Event

-----------------------------------------------------------------------------
(* Sequences of events, at their two ends. *)

LEMMA AppendJob ==
  ASSUME NEW s \in Seq(Events), NEW e \in Events, EachJobOnce(s), e.job \notin JobsIn(s)
  PROVE  EachJobOnce(Append(s, e)) /\ JobsIn(Append(s, e)) = JobsIn(s) \union {e.job}
<1> DEFINE a == Append(s, e)
<1>1. /\ DOMAIN a = 1..Len(s) + 1 /\ DOMAIN s = 1..Len(s) /\ Len(s) \in Nat
      /\ \A i \in 1..Len(s) : a[i] = s[i]
      /\ a[Len(s) + 1] = e
  OBVIOUS
<1> HIDE DEF a
<1>2. \A i \in DOMAIN a : i \in DOMAIN s \/ i = Len(s) + 1
  BY <1>1
<1>3. JobsIn(a) = JobsIn(s) \union {e.job}
  BY <1>1, <1>2 DEF JobsIn
<1>4. EachJobOnce(a)
  BY <1>1, <1>2 DEF EachJobOnce, JobsIn
<1>5. QED
  BY <1>3, <1>4 DEF a

LEMMA TailJob ==
  ASSUME NEW s \in Seq(Events), s # <<>>, EachJobOnce(s)
  PROVE  /\ Head(s) \in Events /\ Head(s).job \in JobsIn(s)
         /\ EachJobOnce(Tail(s))
         /\ JobsIn(Tail(s)) = JobsIn(s) \ {Head(s).job}
<1> DEFINE t == Tail(s)
           h == Head(s)
<1>1. /\ DOMAIN s = 1..Len(s) /\ Len(s) \in Nat \ {0}
      /\ DOMAIN t = 1..(Len(s) - 1)
      /\ \A i \in 1..(Len(s) - 1) : t[i] = s[i + 1]
      /\ h = s[1] /\ h \in Events
  OBVIOUS
<1> HIDE DEF t, h
<1>2. h.job \in JobsIn(s)
  BY <1>1 DEF JobsIn
<1>3. EachJobOnce(t)
  BY <1>1 DEF EachJobOnce
<1>4. JobsIn(t) \subseteq JobsIn(s) \ {h.job}
  <2>1. SUFFICES ASSUME NEW i \in 1..(Len(s) - 1)
                 PROVE  s[i + 1].job \in JobsIn(s) /\ s[i + 1].job # h.job
    BY <1>1 DEF JobsIn
  <2>2. i + 1 \in DOMAIN s /\ 1 \in DOMAIN s /\ i + 1 # 1
    BY <1>1
  <2>3. QED
    BY <1>1, <2>2 DEF EachJobOnce, JobsIn
<1>5. ASSUME NEW x \in JobsIn(s) \ {h.job} PROVE x \in JobsIn(t)
  <2>1. PICK i \in 1..Len(s) : x = s[i].job
    BY <1>1 DEF JobsIn
  <2>2. i - 1 \in 1..(Len(s) - 1) /\ t[i - 1].job = x
    BY <1>1, <2>1
  <2>3. QED
    BY <1>1, <2>2 DEF JobsIn
<1>6. QED
  BY <1>1, <1>2, <1>3, <1>4, <1>5 DEF t, h

LEMMA NoJobsOwed == EachJobOnce(<<>>) /\ JobsIn(<<>>) = {}
  BY DEF EachJobOnce, JobsIn

\* A count above all that were told keeps the progress of its job growing.
LEMMA AppendGrowing ==
  ASSUME NEW s \in Seq(Events), NEW low \in [HttpJobs -> 0..Total],
         NEW high \in [HttpJobs -> 0..Total], Growing(s, low, high),
         NEW e \in Events, e.job \in HttpJobs, low[e.job] <= high[e.job],
         high[e.job] < e.bytes
  PROVE  Growing(Append(s, e), low, [high EXCEPT ![e.job] = e.bytes])
<1> DEFINE a == Append(s, e)
           up == [high EXCEPT ![e.job] = e.bytes]
<1>1. /\ DOMAIN a = 1..Len(s) + 1 /\ DOMAIN s = 1..Len(s) /\ Len(s) \in Nat
      /\ \A i \in 1..Len(s) : a[i] = s[i] /\ s[i] \in Events
      /\ a[Len(s) + 1] = e
  OBVIOUS
<1>2. /\ up[e.job] = e.bytes /\ e.bytes \in 0..Total
      /\ \A j \in HttpJobs : /\ low[j] \in Nat /\ high[j] \in Nat /\ up[j] \in Nat
                             /\ high[j] <= up[j]
  BY BackgroundJobsAssumption DEF Events
<1> HIDE DEF a, up
<1>3. \A i \in DOMAIN a : i \in DOMAIN s \/ i = Len(s) + 1
  BY <1>1
<1>4. \A i \in 1..Len(s) : s[i].bytes \in Nat
  BY <1>1 DEF Events
<1>5. ASSUME NEW i \in DOMAIN a
      PROVE  a[i].job \in HttpJobs /\ low[a[i].job] < a[i].bytes /\ a[i].bytes <= up[a[i].job]
  <2>1. CASE i \in DOMAIN s
    <3>1. /\ s[i].job \in HttpJobs /\ low[s[i].job] < s[i].bytes
          /\ s[i].bytes <= high[s[i].job]
      BY <2>1 DEF Growing
    <3>2. QED
      BY <1>1, <1>2, <1>4, <2>1, <3>1
  <2>2. CASE i = Len(s) + 1
    BY <1>1, <1>2, <2>2
  <2>3. QED
    BY <1>3, <2>1, <2>2
<1>6. ASSUME NEW i \in DOMAIN a, NEW k \in DOMAIN a, i < k, a[i].job = a[k].job
      PROVE  a[i].bytes < a[k].bytes
  <2>1. i \in 1..Len(s) /\ a[i] = s[i]
    BY <1>1, <1>6
  <2>2. CASE k \in DOMAIN s
    BY <1>1, <1>6, <2>1, <2>2 DEF Growing
  <2>3. CASE k = Len(s) + 1
    <3>1. s[i].bytes <= high[e.job] /\ s[i].bytes \in Nat
      BY <1>1, <1>4, <1>6, <2>1, <2>3 DEF Growing
    <3>2. QED
      BY <1>1, <1>2, <2>1, <2>3, <3>1
  <2>4. QED
    BY <1>3, <2>2, <2>3
<1>7. QED
  BY <1>5, <1>6 DEF Growing, a, up

\* To tell the first count, or to drop it, leaves larger ones to be told.
LEMMA TailGrowing ==
  ASSUME NEW s \in Seq(Events), s # <<>>, NEW low \in [HttpJobs -> 0..Total],
         NEW high \in [HttpJobs -> 0..Total], Growing(s, low, high)
  PROVE  /\ Head(s) \in Events /\ Head(s).job \in HttpJobs
         /\ low[Head(s).job] < Head(s).bytes /\ Head(s).bytes <= high[Head(s).job]
         /\ Growing(Tail(s), low, high)
         /\ Growing(Tail(s), [low EXCEPT ![Head(s).job] = Head(s).bytes], high)
<1> DEFINE t == Tail(s)
           h == Head(s)
           told == [low EXCEPT ![h.job] = h.bytes]
<1>1. /\ DOMAIN s = 1..Len(s) /\ Len(s) \in Nat \ {0}
      /\ DOMAIN t = 1..(Len(s) - 1)
      /\ \A i \in 1..(Len(s) - 1) : t[i] = s[i + 1]
      /\ h = s[1] /\ h \in Events
  OBVIOUS
<1>2. h.job \in HttpJobs /\ low[h.job] < h.bytes /\ h.bytes <= high[h.job]
  BY <1>1 DEF Growing
<1>3. told[h.job] = h.bytes /\ \A j \in HttpJobs \ {h.job} : told[j] = low[j]
  BY <1>2
<1> HIDE DEF t, h, told
<1>4. Growing(t, low, high)
  <2>1. \A i \in DOMAIN t : i + 1 \in DOMAIN s /\ t[i] = s[i + 1] /\ i \in Nat
    BY <1>1
  <2>2. QED
    BY <2>1 DEF Growing
<1>5. Growing(t, told, high)
  <2>1. SUFFICES ASSUME NEW i \in DOMAIN t
                 PROVE  told[t[i].job] < t[i].bytes
    BY <1>4 DEF Growing
  <2>2. CASE t[i].job = h.job
    <3>1. 1 \in DOMAIN s /\ i + 1 \in DOMAIN s /\ 1 < i + 1 /\ t[i] = s[i + 1]
      BY <1>1
    <3>2. QED
      BY <1>1, <1>3, <2>2, <3>1 DEF Growing
  <2>3. CASE t[i].job # h.job
    BY <1>3, <1>4, <2>3 DEF Growing
  <2>4. QED
    BY <2>2, <2>3
<1>6. QED
  BY <1>1, <1>2, <1>4, <1>5 DEF t, h, told

-----------------------------------------------------------------------------
LEMMA JobTypes ==
  ASSUME JobsInv
  PROVE  /\ activeStates \subseteq VMs
         /\ registry \in [VMs -> [Refs -> Callbacks \union {Idle}]]
         /\ tainted \subseteq VMs
         /\ owner \in [Jobs -> VMs \union Coroutines \union {NoVM}]
         /\ asker \in [Jobs -> VMs \union {NoVM}]
         /\ ref \in [Callbacks -> Refs \union {NoRef}]
         /\ reports \subseteq HttpJobs
         /\ running \subseteq Jobs
         /\ item \in [HttpJobs -> {"none", "thread", "queue", "deleted"}]
         /\ byteprogress \in [HttpJobs -> 0..Total]
         /\ calling \in Callbacks \union {Idle}
         /\ seen \in [HttpJobs -> 0..Total]
         /\ calls \in [Jobs -> Nat] /\ drops \in [Jobs -> Nat]
         /\ \A q \in 1..3 : Owed(q) \in Seq(Events)
         /\ Queue!QueueTypeOK
  BY OwedType DEF JobsInv, TypeOK, States!StatesTypeOK, Owed

\* Two names for a callback: the pair, and the job with its kind.
LEMMA CallbackNames ==
  /\ \A c \in Callbacks : /\ c = <<c[1], c[2]>> /\ c # Idle
                          /\ c[1] \in Jobs /\ c[2] \in {"done", "progress"}
  /\ \A j \in Jobs : /\ <<j, "done">> \in Callbacks /\ <<j, "progress">> \in Callbacks
                     /\ <<j, "done">> # Idle /\ <<j, "progress">> # Idle
  /\ \A i, j \in Jobs : /\ <<i, "progress">> # <<j, "done">>
                        /\ <<i, "done">> = <<j, "done">> => i = j
  BY BackgroundJobsAssumption DEF Callbacks, Jobs

LEMMA NothingOwedChanges ==
  ASSUME UNCHANGED queueVars
  PROVE  /\ \A q \in 1..3 : Owed(q)' = Owed(q)
         /\ UNCHANGED turn
         /\ Queue!QueueTypeOK => Queue!QueueTypeOK'
  BY DEF Owed, Queue!Owed, queueVars, Queue!QueueTypeOK

\* What a step leaves true when it concerns no owner, thread, result or count.
LEMMA JobsStay ==
  ASSUME JobsInv, UNCHANGED <<owner, running, calls, drops>>,
         \A q \in 2..3 : Owed(q)' = Owed(q)
  PROVE  PlacedOnce' /\ CountedOnce' /\ Pending' = Pending
<1>1. Pending' = Pending /\ CountedOnce'
  BY DEF JobsInv, CountedOnce, Pending, Resolved
<1>2. /\ Owed(2)' = Owed(2) /\ JobsIn(Owed(2))' = JobsIn(Owed(2))
      /\ Owed(3)' = Owed(3) /\ JobsIn(Owed(3))' = JobsIn(Owed(3))
  BY DEF JobsIn
<1>3. PlacedOnce'
  BY <1>1, <1>2 DEF JobsInv, PlacedOnce, EachJobOnce
<1>4. QED
  BY <1>1, <1>3

-----------------------------------------------------------------------------
(* The callbacks in the registries. *)

\* The slots of a live job of the state itself are at the job's integers.
LEMMA OwnSlot ==
  ASSUME SlotsMatch, NEW v \in activeStates \ tainted, NEW c \in Callbacks,
         Live(c[1]), owner[c[1]] = v, c[2] = "progress" => c[1] \in reports
  PROVE  ref[c] \in Refs /\ registry[v][ref[c]] = c /\ asker[c[1]] = v
<1>1. asker[c[1]] = v /\ Kept(v, c)
  BY DEF SlotsMatch, Kept
<1>2. PICK r \in Refs : registry[v][r] = c
  BY <1>1 DEF SlotsMatch
<1>3. QED
  BY <1>1, <1>2 DEF SlotsMatch

\* What is said of the slots concerns jobs, their askers and integers, and which
\* of them are live.
LEMMA SlotsStay ==
  ASSUME JobsInv, UNCHANGED <<luaVars, owner, reports, asker, ref>>,
         \A j \in Jobs : Live(j)' <=> Live(j)
  PROVE  SlotsMatch' /\ JobRecords'
<1>1. \A v, c : c \in Callbacks => (Kept(v, c)' <=> Kept(v, c))
  BY CallbackNames DEF Kept
<1>2. SlotsMatch'
  BY <1>1, CallbackNames DEF JobsInv, SlotsMatch, luaVars
<1>3. QED
  BY <1>2 DEF JobsInv, JobRecords, luaVars

LEMMA OpenSlots ==
  ASSUME JobsInv, NEW v \in VMs, OpenState(v)
  PROVE  SlotsMatch' /\ JobRecords'
<1>1. /\ v \notin activeStates /\ activeStates' = activeStates \union {v}
      /\ registry' = [registry EXCEPT ![v] = States!EmptyRegistry]
      /\ UNCHANGED <<owner, ref, reports, calling, asker, calls, drops>>
      /\ tainted' \in {tainted, tainted \union {v}}
      /\ v \notin tainted' => \A j \in Pending : owner[j] # v
      /\ calling = Idle
  BY DEF OpenState, States!add_active_state, jobVars, history, JobsInv, CallingRegistered
<1>2. Pending' = Pending
  BY <1>1 DEF Pending, Resolved
<1>3. /\ \A j \in Jobs : Live(j)' <=> Live(j)
      /\ \A u, c : c \in Callbacks => (Kept(u, c)' <=> Kept(u, c))
  BY <1>1, <1>2 DEF Live, Kept
<1>4. JobRecords' /\ \A j \in Jobs : asker[j] # v
  BY <1>1, BackgroundJobsAssumption DEF JobsInv, JobRecords
<1>5. SUFFICES ASSUME NEW u \in activeStates' \ tainted', NEW c \in Callbacks
               PROVE  /\ \A r \in Refs : registry'[u][r] = c =>
                           Kept(u, c)' /\ (owner'[c[1]] = u => ref'[c] = r)
                      /\ Kept(u, c)' => \E r \in Refs : registry'[u][r] = c
                      /\ Live(c[1])' /\ owner'[c[1]] = u => asker'[c[1]] = u
  BY <1>4 DEF SlotsMatch
<1>6. CASE u = v
  <2>1. ~(Live(c[1]) /\ owner[c[1]] = v)
    BY <1>1, <1>5, <1>6, CallbackNames DEF Live
  <2>2. \A r \in Refs : registry'[v][r] = Idle
    BY <1>1, JobTypes DEF States!EmptyRegistry
  <2>3. ~Kept(u, c)
    BY <1>4, <1>6, CallbackNames DEF Kept
  <2>4. QED
    BY <1>1, <1>3, <1>6, <2>1, <2>2, <2>3, CallbackNames
<1>7. CASE u # v
  <2>1. u \in activeStates \ tainted /\ registry'[u] = registry[u]
    BY <1>1, <1>5, <1>7, JobTypes
  <2>2. QED
    BY <1>1, <1>3, <2>1, CallbackNames DEF JobsInv, SlotsMatch
<1>8. QED
  BY <1>6, <1>7

LEMMA CloseSlots ==
  ASSUME JobsInv, NEW v \in VMs, CloseState(v)
  PROVE  SlotsMatch' /\ JobRecords'
<1>1. /\ activeStates' = activeStates \ {v} /\ tainted' = tainted \ {v}
      /\ registry' = [registry EXCEPT ![v] = States!EmptyRegistry]
      /\ asker' = [j \in Jobs |-> IF asker[j] = v THEN NoVM ELSE asker[j]]
      /\ UNCHANGED <<owner, ref, reports, calling, calls, drops>>
  BY DEF CloseState, States!remove_active_state, jobVars
<1>2. Pending' = Pending
  BY <1>1 DEF Pending, Resolved
<1>3. JobRecords'
  BY <1>1 DEF JobsInv, JobRecords
<1>4. \A u \in activeStates' \ tainted' :
        u \in activeStates \ tainted /\ u # v /\ u # NoVM /\ registry'[u] = registry[u]
  BY <1>1, JobTypes, BackgroundJobsAssumption
<1>5. \A j \in Jobs : Live(j)' <=> Live(j)
  BY <1>1, <1>2 DEF Live
<1>6. \A u \in activeStates' \ tainted', c \in Callbacks :
        /\ asker'[c[1]] = u <=> asker[c[1]] = u
        /\ Kept(u, c)' <=> Kept(u, c)
  BY <1>1, <1>4, <1>5, CallbackNames DEF Kept
<1>7. QED
  BY <1>1, <1>3, <1>4, <1>5, <1>6, CallbackNames DEF JobsInv, SlotsMatch

-----------------------------------------------------------------------------
(* One lemma for each way a job moves. *)

\* A state is opened or closed: its registry is empty.
LEMMA StateStep ==
  ASSUME JobsInv, NEW v \in VMs, OpenState(v) \/ CloseState(v)
  PROVE  JobsInv'
<1>1. /\ turn = 0
      /\ UNCHANGED <<jobVars, item, queueVars, updates, calling, seen, calls, drops>>
      /\ registry' = [registry EXCEPT ![v] = States!EmptyRegistry]
      /\ activeStates' \in {activeStates \union {v}, activeStates \ {v}}
      /\ tainted' \in {tainted, tainted \union {v}, tainted \ {v}}
      /\ asker' \in {asker, [j \in Jobs |-> IF asker[j] = v THEN NoVM ELSE asker[j]]}
  BY DEF OpenState, CloseState, States!add_active_state, States!remove_active_state, history
<1>2. /\ \A q \in 1..3 : Owed(q)' = Owed(q)
      /\ Queue!QueueTypeOK'
  BY <1>1, NothingOwedChanges, JobTypes
<1>3. calling = Idle /\ calling' = Idle
  BY <1>1 DEF JobsInv, CallingRegistered
<1>4. TypeOK'
  <2>1. /\ registry' \in [VMs -> [Refs -> Callbacks \union {Idle}]]
        /\ activeStates' \subseteq VMs /\ tainted' \subseteq VMs
    BY <1>1, JobTypes DEF States!EmptyRegistry
  <2>2. asker' \in [Jobs -> VMs \union {NoVM}]
    BY <1>1, JobTypes
  <2>3. QED
    BY <1>1, <1>2, <2>1, <2>2 DEF JobsInv, TypeOK, States!StatesTypeOK, jobVars
<1>5. PlacedOnce' /\ CountedOnce' /\ Pending' = Pending
  BY <1>1, <1>2, JobsStay DEF jobVars
<1>6. SlotsMatch' /\ JobRecords'
  BY OpenSlots, CloseSlots
<1>7. ProgressOrdered' /\ ItemHandedOver' /\ CallingRegistered'
  <2>1. UNCHANGED <<seen, byteprogress, item, owner, running, reports>>
    BY <1>1 DEF jobVars
  <2>2. ProgressOrdered'
    BY <1>2, <2>1 DEF JobsInv, ProgressOrdered, Growing
  <2>3. ItemHandedOver'
    BY <1>2, <1>3, <2>1 DEF JobsInv, ItemHandedOver, JobsIn
  <2>4. QED
    BY <1>3, <2>2, <2>3 DEF CallingRegistered
<1>8. QED
  BY <1>4, <1>5, <1>6, <1>7 DEF JobsInv

\* A job has begun, in state v, with lua_State L and integers p and f.
Begun(j, v, L, p, f) ==
  /\ owner[j] = NoVM /\ v \in activeStates
  /\ L \in States!Caller(v)
  /\ p \in Refs \union {NoRef} /\ f \in Refs
  /\ owner' = [owner EXCEPT ![j] = L]
  /\ asker' = [asker EXCEPT ![j] = v]
  /\ running' = running \union {j}
  /\ threadList' = threadList \union {j}
  /\ Park(j, v, p, f)
  /\ reports' = IF p = NoRef THEN reports ELSE reports \union {j}
  /\ UNCHANGED <<byteprogress, queueVars, updates, calling, seen, calls, drops>>

LEMMA StartBegins ==
  ASSUME NEW j \in Jobs, NEW v \in VMs, LaunchHTTPRequest(j, v) \/ RunAsyncHash(j, v)
  PROVE  \E L \in States!Caller(v), p \in Refs \union {NoRef}, f \in Refs : Begun(j, v, L, p, f)
<1>1. PICK L \in States!Caller(v) : owner' = [owner EXCEPT ![j] = L]
  BY DEF LaunchHTTPRequest, RunAsyncHash, StartThread
<1>2. PICK p \in Refs \union {NoRef}, f \in Refs :
        /\ Park(j, v, p, f)
        /\ reports' = IF p = NoRef THEN reports ELSE reports \union {j}
  BY BackgroundJobsAssumption DEF LaunchHTTPRequest, RunAsyncHash
<1>3. Begun(j, v, L, p, f)
  BY <1>1, <1>2
  DEF Begun, LaunchHTTPRequest, RunAsyncHash, StartThread, RunsLua, States!check_active_state
<1>4. QED
  BY <1>3

\* What a new job has, and that it has it alone.
LEMMA BegunJob ==
  ASSUME JobsInv, NEW j \in Jobs, NEW v \in VMs, NEW L, NEW p, NEW f, Begun(j, v, L, p, f)
  PROVE  /\ owner'[j] = L /\ asker'[j] = v /\ \A i \in Jobs \ {j} : owner'[i] = owner[i] /\ asker'[i] = asker[i]
         /\ owner' \in [Jobs -> VMs \union Coroutines \union {NoVM}]
         /\ asker' \in [Jobs -> VMs \union {NoVM}]
         /\ L # NoVM /\ (L = v \/ L \notin activeStates)
         /\ ~Resolved(j) /\ j \notin Pending /\ Pending' = Pending \union {j}
         /\ calling # Idle => calling[1] \in Jobs /\ calling[1] # j
         /\ Live(j)' /\ ~Live(j) /\ \A i \in Jobs \ {j} : Live(i)' <=> Live(i)
<1>1. /\ L \in States!Caller(v) /\ owner[j] = NoVM
      /\ owner' = [owner EXCEPT ![j] = L] /\ asker' = [asker EXCEPT ![j] = v]
      /\ UNCHANGED <<calling, calls, drops>>
  BY DEF Begun
<1>2. L \in VMs \union Coroutines /\ L # NoVM /\ (L = v \/ L \notin activeStates)
  BY <1>1, BackgroundJobsAssumption DEF States!Caller
<1>3. /\ owner'[j] = L /\ asker'[j] = v /\ \A i \in Jobs \ {j} : owner'[i] = owner[i] /\ asker'[i] = asker[i]
      /\ owner' \in [Jobs -> VMs \union Coroutines \union {NoVM}]
      /\ asker' \in [Jobs -> VMs \union {NoVM}]
  BY <1>1, <1>2, JobTypes
<1>4. ~Resolved(j) /\ j \notin Pending
  BY <1>1 DEF JobsInv, CountedOnce, Pending
<1>5. Pending' = Pending \union {j}
  BY <1>1, <1>2, <1>3, <1>4 DEF Pending, Resolved
<1>6. calling # Idle => calling[1] \in Jobs /\ calling[1] # j
  BY <1>1, JobTypes, CallbackNames, BackgroundJobsAssumption DEF JobsInv, CallingRegistered
<1>7. calling # <<j, "done">>
  BY <1>6, CallbackNames
<1>8. QED
  BY <1>1, <1>2, <1>3, <1>4, <1>5, <1>6, <1>7 DEF Live

\* A new job's callbacks take slots that nothing uses.
LEMMA StartSlots ==
  ASSUME JobsInv, NEW j \in Jobs, NEW v \in VMs, NEW L, NEW p, NEW f, Begun(j, v, L, p, f)
  PROVE  SlotsMatch' /\ JobRecords'
<1> DEFINE done == <<j, "done">>
           progress == <<j, "progress">>
<1>1. /\ p \in Refs \union {NoRef} /\ f \in Refs /\ v \in activeStates
      /\ owner[j] = NoVM
      /\ \A r \in {p, f} \ {NoRef} : registry[v][r] = Idle \/ v \in tainted
      /\ p # f \/ v \in tainted
      /\ ref' = [ref EXCEPT ![progress] = p, ![done] = f]
      /\ reports' = IF p = NoRef THEN reports ELSE reports \union {j}
      /\ UNCHANGED <<activeStates, tainted>>
  BY DEF Begun, Park, States!Available
<1>2. /\ owner'[j] = L /\ asker'[j] = v
      /\ \A i \in Jobs \ {j} : owner'[i] = owner[i] /\ asker'[i] = asker[i]
      /\ L # NoVM /\ (L = v \/ L \notin activeStates)
      /\ Live(j)' /\ ~Live(j) /\ \A i \in Jobs \ {j} : Live(i)' <=> Live(i)
  BY BegunJob
<1>3. /\ done \in Callbacks /\ progress \in Callbacks /\ done # progress
      /\ done # Idle /\ progress # Idle
      /\ done[1] = j /\ done[2] = "done" /\ progress[1] = j /\ progress[2] = "progress"
      /\ \A c \in Callbacks : c[1] = j => c = done \/ c = progress
  BY CallbackNames
<1>4. /\ \A r \in Refs : registry'[v][r] = CASE r = f -> done
                                           [] r = p /\ r # f -> progress
                                           [] OTHER -> registry[v][r]
      /\ \A u \in VMs \ {v} : registry'[u] = registry[u]
  BY JobTypes DEF Begun, Park
<1> HIDE DEF done, progress
<1>5. /\ ref'[done] = f /\ ref'[progress] = p
      /\ \A c \in Callbacks : c[1] # j => ref'[c] = ref[c]
  BY <1>1, <1>3, JobTypes
<1>6. asker[j] = NoVM /\ j \notin reports
  BY <1>1 DEF JobsInv, JobRecords
<1>7. JobRecords'
  <2>1. SUFFICES ASSUME NEW i \in Jobs
                 PROVE  /\ asker'[i] \in activeStates \union {NoVM}
                        /\ owner'[i] = NoVM => asker'[i] = NoVM /\ i \notin reports'
                        /\ i \notin reports' => ref'[<<i, "progress">>] = NoRef
    BY <1>1 DEF JobRecords
  <2>2. CASE i = j
    BY <1>1, <1>2, <1>5, <2>2 DEF progress
  <2>3. CASE i # j
    <3>1. ref'[<<i, "progress">>] = ref[<<i, "progress">>]
      BY <1>5, <2>3, CallbackNames
    <3>2. QED
      BY <1>1, <1>2, <2>3, <3>1 DEF JobsInv, JobRecords
  <2>4. QED
    BY <2>2, <2>3
<1>8. SUFFICES ASSUME NEW u \in activeStates \ tainted, NEW c \in Callbacks
               PROVE  /\ \A r \in Refs : registry'[u][r] = c =>
                           Kept(u, c)' /\ (owner'[c[1]] = u => ref'[c] = r)
                      /\ Kept(u, c)' => \E r \in Refs : registry'[u][r] = c
                      /\ Live(c[1])' /\ owner'[c[1]] = u => asker'[c[1]] = u
  BY <1>1, <1>7 DEF SlotsMatch
<1>9. /\ \A r \in Refs : registry[u][r] = c =>
            Kept(u, c) /\ (owner[c[1]] = u => ref[c] = r)
      /\ Kept(u, c) => \E r \in Refs : registry[u][r] = c
      /\ Live(c[1]) /\ owner[c[1]] = u => asker[c[1]] = u
  BY <1>8 DEF JobsInv, SlotsMatch
<1>10. u \in VMs /\ u # NoVM /\ c[1] \in Jobs /\ c # Idle
  BY <1>8, JobTypes, BackgroundJobsAssumption, CallbackNames
<1>11. CASE c[1] = j
  <2>1. ~Kept(u, c) /\ \A r \in Refs : registry[u][r] # c
    BY <1>6, <1>9, <1>10, <1>11 DEF Kept
  <2>2. CASE u # v
    <3>1. ~Kept(u, c)' /\ owner'[c[1]] # u
      BY <1>2, <1>8, <1>11, <2>2 DEF Kept
    <3>2. QED
      BY <1>4, <1>10, <2>1, <2>2, <3>1
  <2>3. CASE u = v
    <3>1. p # f
      BY <1>1, <1>8, <2>3
    <3>2. CASE c = done
      <4>1. registry'[v][f] = c
        BY <1>1, <1>4, <3>2
      <4>2. \A r \in Refs : registry'[v][r] = c => r = f
        BY <1>3, <1>4, <2>1, <2>3, <3>2
      <4>3. Kept(u, c)' 
        BY <1>2, <1>3, <1>11, <2>3, <3>2 DEF Kept
      <4>4. QED
        BY <1>1, <1>2, <1>5, <1>11, <2>3, <3>2, <4>1, <4>2, <4>3
    <3>3. CASE c = progress /\ p = NoRef
      <4>1. \A r \in Refs : registry'[v][r] # c
        BY <1>1, <1>3, <1>4, <2>1, <2>3, <3>3, BackgroundJobsAssumption
      <4>2. ~Kept(u, c)'
        BY <1>1, <1>3, <1>6, <1>11, <3>3 DEF Kept
      <4>3. QED
        BY <1>2, <1>11, <2>3, <4>1, <4>2
    <3>4. CASE c = progress /\ p # NoRef
      <4>1. registry'[v][p] = c
        BY <1>1, <1>4, <3>1, <3>4
      <4>2. \A r \in Refs : registry'[v][r] = c => r = p
        BY <1>3, <1>4, <2>1, <2>3, <3>4
      <4>3. Kept(u, c)'
        BY <1>1, <1>2, <1>3, <1>11, <2>3, <3>4 DEF Kept
      <4>4. QED
        BY <1>1, <1>2, <1>5, <1>11, <2>3, <3>4, <4>1, <4>2, <4>3
    <3>5. QED
      BY <1>3, <1>11, <3>2, <3>3, <3>4
  <2>4. QED
    BY <2>2, <2>3
<1>12. CASE c[1] # j
  <2>1. /\ Kept(u, c)' <=> Kept(u, c)
        /\ Live(c[1])' <=> Live(c[1])
        /\ owner'[c[1]] = owner[c[1]] /\ asker'[c[1]] = asker[c[1]] /\ ref'[c] = ref[c]
    BY <1>1, <1>2, <1>5, <1>10, <1>12 DEF Kept
  <2>2. c # done /\ c # progress
    BY <1>3, <1>12
  <2>3. \A r \in Refs : registry'[u][r] = c <=> registry[u][r] = c
    <3>1. CASE u # v
      BY <1>4, <1>10, <3>1
    <3>2. CASE u = v
      <4>1. registry[v][f] # c /\ (p \in Refs => registry[v][p] # c)
        BY <1>1, <1>8, <1>10, <3>2, BackgroundJobsAssumption
      <4>2. QED
        BY <1>4, <2>2, <3>2, <4>1
    <3>3. QED
      BY <3>1, <3>2
  <2>4. QED
    BY <1>9, <2>1, <2>3
<1>13. QED
  BY <1>11, <1>12

\* A new job gets its thread, and slots of its own in the registry of its state.
LEMMA StartStep ==
  ASSUME JobsInv, NEW j \in Jobs, NEW v \in VMs,
         \/ j \in HttpJobs /\ LaunchHTTPRequest(j, v)
         \/ j \in HashJobs /\ RunAsyncHash(j, v)
  PROVE  JobsInv'
<1>0. PICK L \in States!Caller(v), p \in Refs \union {NoRef}, f \in Refs : Begun(j, v, L, p, f)
  BY StartBegins
<1>1. /\ owner[j] = NoVM /\ v \in activeStates
      /\ running' = running \union {j}
      /\ threadList' = threadList \union {j}
      /\ UNCHANGED <<activeStates, tainted, byteprogress, queueVars, updates, calling, seen, calls, drops>>
  BY <1>0 DEF Begun, Park
<1>3. /\ reports' \subseteq HttpJobs
      /\ j \in HttpJobs => item' = [item EXCEPT ![j] = "thread"]
      /\ j \notin HttpJobs => item' = item
  BY BackgroundJobsAssumption DEF LaunchHTTPRequest, RunAsyncHash, JobsInv, TypeOK
<1>4. /\ \A q \in 1..3 : Owed(q)' = Owed(q)
      /\ UNCHANGED turn /\ Queue!QueueTypeOK'
  BY <1>1, NothingOwedChanges, JobTypes
<1>5. reports \subseteq reports'
  BY <1>0 DEF Begun
<1>6. /\ owner'[j] # NoVM /\ \A i \in Jobs \ {j} : owner'[i] = owner[i]
      /\ owner' \in [Jobs -> VMs \union Coroutines \union {NoVM}]
      /\ asker' \in [Jobs -> VMs \union {NoVM}]
      /\ calling # Idle => calling[1] \in Jobs /\ calling[1] # j
  BY <1>0, BegunJob
<1>7. ~Resolved(j) /\ j \notin Pending /\ Pending' = Pending \union {j}
  BY <1>0, BegunJob
<1>9. TypeOK'
  <2>1. item' \in [HttpJobs -> {"none", "thread", "queue", "deleted"}]
    BY <1>3, JobTypes
  <2>2. /\ <<j, "done">> \in Callbacks /\ <<j, "progress">> \in Callbacks
        /\ registry[v] \in [Refs -> Callbacks \union {Idle}]
    BY CallbackNames, JobTypes
  <2>3. registry' \in [VMs -> [Refs -> Callbacks \union {Idle}]]
    <3> DEFINE slots == [r \in Refs |-> CASE r = f -> <<j, "done">>
                                          [] r = p /\ r # f -> <<j, "progress">>
                                          [] OTHER -> registry[v][r]]
    <3>1. registry' = [registry EXCEPT ![v] = slots]
      BY <1>0, JobTypes DEF Begun, Park
    <3>2. slots \in [Refs -> Callbacks \union {Idle}]
      BY <2>2
    <3> HIDE DEF slots
    <3>3. QED
      BY <3>1, <3>2, JobTypes
  <2>4. ref' \in [Callbacks -> Refs \union {NoRef}]
    <3>1. ref' = [ref EXCEPT ![<<j, "progress">>] = p, ![<<j, "done">>] = f]
      BY <1>0 DEF Begun, Park
    <3>2. QED
      BY <3>1, JobTypes
  <2>5. QED
    BY <1>1, <1>3, <1>4, <1>6, <2>1, <2>3, <2>4 DEF JobsInv, TypeOK, States!StatesTypeOK
<1>10. PlacedOnce'
  <2>1. /\ Owed(2)' = Owed(2) /\ JobsIn(Owed(2))' = JobsIn(Owed(2))
        /\ Owed(3)' = Owed(3) /\ JobsIn(Owed(3))' = JobsIn(Owed(3))
    BY <1>4 DEF JobsIn
  <2>2. j \notin JobsIn(Owed(2)) /\ j \notin JobsIn(Owed(3))
    BY <1>7 DEF JobsInv, PlacedOnce
  <2>3. EachJobOnce(Owed(2))' /\ EachJobOnce(Owed(3))'
    BY <2>1 DEF JobsInv, PlacedOnce, EachJobOnce
  <2>4. QED
    BY <1>1, <1>7, <2>1, <2>2, <2>3 DEF JobsInv, PlacedOnce
<1>11. CountedOnce'
  BY <1>1, <1>6, <1>7 DEF JobsInv, CountedOnce, Resolved
<1>13. CallingRegistered'
  BY <1>1, <1>4, <1>5, <1>6 DEF JobsInv, CallingRegistered, Resolved
<1>14. SlotsMatch' /\ JobRecords'
  BY <1>0, StartSlots
<1>15. ProgressOrdered'
  BY <1>1, <1>4, <1>5 DEF JobsInv, ProgressOrdered, Growing
<1>16. ItemHandedOver'
  <2>1. SUFFICES ASSUME NEW i \in HttpJobs
                 PROVE  /\ item'[i] = "none" <=> owner'[i] = NoVM
                        /\ item'[i] = "thread" <=> i \in running'
                        /\ item'[i] = "queue" <=> i \in JobsIn(Owed(2)) \/ calling = <<i, "done">>
    BY <1>1, <1>4 DEF ItemHandedOver, JobsIn
  <2>2. CASE i = j
    <3>1. item'[i] = "thread"
      BY <1>3, <2>2, JobTypes
    <3>2. i \notin JobsIn(Owed(2)) /\ calling # <<i, "done">>
      BY <1>6, <1>7, <2>2, CallbackNames DEF JobsInv, PlacedOnce, Jobs
    <3>3. QED
      BY <1>1, <1>6, <1>7, <2>2, <3>1, <3>2
  <2>3. CASE i # j
    <3>1. item'[i] = item[i] /\ owner'[i] = owner[i] /\ (i \in running' <=> i \in running)
      BY <1>1, <1>3, <1>6, <2>3, JobTypes DEF Jobs
    <3>2. QED
      BY <3>1 DEF JobsInv, ItemHandedOver
  <2>4. QED
    BY <2>2, <2>3
<1>17. QED
  BY <1>9, <1>10, <1>11, <1>13, <1>14, <1>15, <1>16 DEF JobsInv

\* curl reports progress: one more count is owed.
LEMMA ProgressStep ==
  ASSUME JobsInv, NEW j \in HttpJobs, NEW n \in 1..Total, http_progress_call(j, n)
  PROVE  JobsInv'
<1> DEFINE e == [job |-> j, bytes |-> n]
<1>1. /\ e \in Events /\ e.job = j /\ e.bytes = n
      /\ byteprogress[j] < n /\ j \in reports
      /\ byteprogress' = [byteprogress EXCEPT ![j] = n]
      /\ Queue!AddToQueue(1, e)
      /\ UNCHANGED <<running, item, luaVars, owner, reports, threadList, updates, calling, history, ref>>
  BY DEF http_progress_call, IsProgress, ThreadUnchanged, Events, Jobs
<1> HIDE DEF e
<1>2. /\ Queue!QueueTypeOK' /\ UNCHANGED turn
      /\ Owed(1)' = Append(Owed(1), e)
      /\ \A q \in 2..3 : Owed(q)' = Owed(q)
  BY <1>1, AddedIsOwed, JobTypes
<1>3. TypeOK'
  BY <1>1, <1>2 DEF JobsInv, TypeOK, States!StatesTypeOK, luaVars, history
<1>4. PlacedOnce' /\ CountedOnce' /\ Pending' = Pending
  BY <1>1, <1>2, JobsStay DEF history
<1>5. ProgressOrdered'
  <2>1. /\ seen[j] <= byteprogress[j] /\ Growing(Owed(1), seen, byteprogress)
        /\ seen' = seen
    BY <1>1 DEF JobsInv, ProgressOrdered, history
  <2>2. Growing(Append(Owed(1), e), seen, byteprogress')
    <3>1. Growing(Append(Owed(1), e), seen, [byteprogress EXCEPT ![e.job] = e.bytes])
      <4>1. Owed(1) \in Seq(Events)
        BY JobTypes
      <4>2. QED
        BY <1>1, <2>1, <4>1, JobTypes, AppendGrowing
    <3>2. byteprogress' = [byteprogress EXCEPT ![e.job] = e.bytes]
      BY <1>1
    <3>3. QED
      BY <3>1, <3>2
  <2>3. ASSUME NEW i \in HttpJobs
        PROVE  seen[i] <= byteprogress'[i] /\ (byteprogress'[i] # 0 => i \in reports)
    <3>1. seen[i] <= byteprogress[i] /\ (byteprogress[i] # 0 => i \in reports) /\ seen[i] \in Nat /\ byteprogress[i] \in Nat
      BY JobTypes, BackgroundJobsAssumption DEF JobsInv, ProgressOrdered
    <3>2. byteprogress'[i] = IF i = j THEN n ELSE byteprogress[i]
      BY <1>1, JobTypes
    <3>3. QED
      BY <1>1, <3>1, <3>2
  <2>4. Growing(Owed(1), seen, byteprogress)'
    BY <1>2, <2>1, <2>2
  <2>5. QED
    BY <1>1, <2>1, <2>3, <2>4 DEF ProgressOrdered
<1>6. CallingRegistered' /\ SlotsMatch' /\ JobRecords'
  <2>1. \A i \in Jobs : Live(i)' <=> Live(i)
    BY <1>1, <1>4 DEF Live
  <2>2. SlotsMatch' /\ JobRecords'
    BY <1>1, <2>1, SlotsStay DEF history
  <2>3. QED
    BY <1>1, <1>2, <1>4, <2>2 DEF JobsInv, CallingRegistered, Resolved, luaVars, history
<1>7. ItemHandedOver'
  BY <1>1, <1>2 DEF JobsInv, ItemHandedOver, JobsIn
<1>8. QED
  BY <1>3, <1>4, <1>5, <1>6, <1>7 DEF JobsInv

\* A thread ends: its result is owed in the queue of its kind.
LEMMA FinishStep ==
  ASSUME JobsInv, NEW j \in Jobs,
         \/ j \in HttpJobs /\ FinishHttp(j)
         \/ j \in HashJobs /\ FinishHash(j)
  PROVE  JobsInv'
<1> DEFINE e == [job |-> j, bytes |-> 0]
           q == IF j \in HttpJobs THEN 2 ELSE 3
<1>1. /\ e \in Events /\ e.job = j /\ q \in 2..3
      /\ j \in running /\ running' = running \ {j}
      /\ Queue!AddToQueue(q, e)
      /\ UNCHANGED <<byteprogress, luaVars, owner, ref, reports, threadList, updates, calling, history>>
      /\ q = 2 => j \in HttpJobs /\ item' = [item EXCEPT ![j] = "queue"]
      /\ q = 3 => j \in HashJobs /\ j \notin HttpJobs /\ item' = item
  BY BackgroundJobsAssumption DEF FinishHttp, FinishHash, ThreadUnchanged, Events
<1> HIDE DEF e, q
<1>2. /\ Queue!QueueTypeOK' /\ UNCHANGED turn
      /\ Owed(q)' = Append(Owed(q), e)
      /\ \A p \in 1..3 \ {q} : Owed(p)' = Owed(p)
  BY <1>1, AddedIsOwed, JobTypes
<1>3. j \notin JobsIn(Owed(2)) /\ j \notin JobsIn(Owed(3)) /\ j \in Pending
  BY <1>1 DEF JobsInv, PlacedOnce
<1>4. EachJobOnce(Owed(q)) /\ Owed(q) \in Seq(Events)
  <2>1. q = 2 \/ q = 3
    BY <1>1
  <2>2. QED
    BY <2>1, JobTypes DEF JobsInv, PlacedOnce
<1>5. EachJobOnce(Owed(q))' /\ JobsIn(Owed(q))' = JobsIn(Owed(q)) \union {j}
  <2>1. j \notin JobsIn(Owed(q))
    BY <1>1, <1>3
  <2>2. /\ EachJobOnce(Append(Owed(q), e))
        /\ JobsIn(Append(Owed(q), e)) = JobsIn(Owed(q)) \union {j}
    BY <1>1, <1>4, <2>1, AppendJob
  <2>3. QED
    BY <1>2, <2>2 DEF EachJobOnce, JobsIn
<1>6. \A p \in 2..3 \ {q} : JobsIn(Owed(p))' = JobsIn(Owed(p)) /\ (EachJobOnce(Owed(p)) => EachJobOnce(Owed(p))')
  BY <1>2 DEF EachJobOnce, JobsIn
<1>7. Pending' = Pending /\ CountedOnce'
  BY <1>1 DEF JobsInv, CountedOnce, Pending, Resolved, history
<1>8. TypeOK'
  <2>1. item' \in [HttpJobs -> {"none", "thread", "queue", "deleted"}]
    <3>1. CASE q = 2
      BY <1>1, <3>1, JobTypes
    <3>2. CASE q = 3
      BY <1>1, <3>2, JobTypes
    <3>3. QED
      BY <1>1, <3>1, <3>2
  <2>2. running' \subseteq Jobs
    BY <1>1, JobTypes
  <2>3. QED
    BY <1>1, <1>2, <2>1, <2>2 DEF JobsInv, TypeOK, States!StatesTypeOK, luaVars, history
<1>9. PlacedOnce'
  <2>1. CASE q = 2
    BY <1>1, <1>3, <1>5, <1>6, <1>7, <2>1 DEF JobsInv, PlacedOnce
  <2>2. CASE q = 3
    BY <1>1, <1>3, <1>5, <1>6, <1>7, <2>2 DEF JobsInv, PlacedOnce
  <2>3. QED
    BY <1>1, <2>1, <2>2
<1>10. CallingRegistered' /\ SlotsMatch' /\ JobRecords'
  <2>1. \A i \in Jobs : Live(i)' <=> Live(i)
    BY <1>1, <1>7 DEF Live
  <2>2. SlotsMatch' /\ JobRecords'
    BY <1>1, <2>1, SlotsStay DEF history
  <2>3. QED
    BY <1>1, <1>2, <1>7, <2>2 DEF JobsInv, CallingRegistered, Resolved, luaVars, history
<1>11. ProgressOrdered'
  BY <1>1, <1>2 DEF JobsInv, ProgressOrdered, Growing, history
<1>12. ItemHandedOver'
  <2>1. SUFFICES ASSUME NEW i \in HttpJobs
                 PROVE  /\ item'[i] = "none" <=> owner[i] = NoVM
                        /\ item'[i] = "thread" <=> i \in running'
                        /\ item'[i] = "queue" <=> i \in JobsIn(Owed(2))' \/ calling = <<i, "done">>
    BY <1>1 DEF ItemHandedOver
  <2>2. /\ item[i] = "none" <=> owner[i] = NoVM
        /\ item[i] = "thread" <=> i \in running
        /\ item[i] = "queue" <=> i \in JobsIn(Owed(2)) \/ calling = <<i, "done">>
    BY DEF JobsInv, ItemHandedOver
  <2>3. CASE i = j
    <3>1. q = 2 /\ item'[i] = "queue"
      BY <1>1, <2>3, JobTypes
    <3>2. i \in JobsIn(Owed(2))'
      BY <1>5, <2>3, <3>1
    <3>3. owner[i] # NoVM
      BY <1>3, <2>3 DEF Pending
    <3>4. QED
      BY <1>1, <2>3, <3>1, <3>2, <3>3
  <2>4. CASE i # j
    <3>1. item'[i] = item[i]
      BY <1>1, <2>4, JobTypes
    <3>2. i \in JobsIn(Owed(2))' <=> i \in JobsIn(Owed(2))
      BY <1>1, <1>5, <1>6, <2>4
    <3>3. QED
      BY <1>1, <2>2, <2>4, <3>1, <3>2
  <2>5. QED
    BY <2>3, <2>4
<1>13. QED
  BY <1>7, <1>8, <1>9, <1>10, <1>11, <1>12 DEF JobsInv

\* The main thread draws a frame, or goes on to the next queue.
LEMMA MoveStep ==
  ASSUME JobsInv, Update \/ EndOfQueue
  PROVE  JobsInv'
<1>1. /\ calling = Idle
      /\ Queue!ProcessEvents \/ Queue!NextQueue \/ UNCHANGED queueVars
      /\ UNCHANGED <<luaVars, jobVars, item, calling, history>>
  BY DEF Update, EndOfQueue, JobsInv, CallingRegistered
<1>2. updates' \in 0..2
  BY DEF Update, EndOfQueue, JobsInv, TypeOK
<1>3. Queue!QueueTypeOK' /\ \A q \in 1..3 : Owed(q)' = Owed(q)
  BY <1>1, MovedIsOwed, NothingOwedChanges, JobTypes
<1>4. TypeOK'
  BY <1>1, <1>2, <1>3 DEF JobsInv, TypeOK, States!StatesTypeOK, luaVars, jobVars, history
<1>5. PlacedOnce' /\ CountedOnce' /\ Pending' = Pending
  BY <1>1, <1>3, JobsStay DEF jobVars, history
<1>6. CallingRegistered' /\ SlotsMatch' /\ JobRecords'
  <2>1. \A i \in Jobs : Live(i)' <=> Live(i)
    BY <1>1, <1>5 DEF Live
  <2>2. SlotsMatch' /\ JobRecords'
    BY <1>1, <2>1, SlotsStay DEF jobVars, history
  <2>3. QED
    BY <1>1, <2>2 DEF CallingRegistered
<1>7. ProgressOrdered' /\ ItemHandedOver'
  BY <1>1, <1>3 DEF JobsInv, ProgressOrdered, Growing, ItemHandedOver, JobsIn, jobVars, history
<1>8. QED
  BY <1>4, <1>5, <1>6, <1>7 DEF JobsInv

\* A progress event is run: its count is told, or left untold.
LEMMA ToldStep ==
  ASSUME JobsInv, RunProgress
  PROVE  /\ JobsInv'
         /\ Event.job \in HttpJobs /\ seen[Event.job] < Event.bytes
         /\ seen' = seen \/ seen' = [seen EXCEPT ![Event.job] = Event.bytes]
         /\ calling = Idle
<1> DEFINE e == Event
<1>1. /\ calling = Idle /\ turn = 1 /\ Queue!RunEvent
      /\ \/ calling' = <<e.job, "progress">> /\ owner[e.job] \in activeStates
            /\ seen' = [seen EXCEPT ![e.job] = e.bytes]
         \/ UNCHANGED <<calling, seen>>
      /\ UNCHANGED <<luaVars, jobVars, item, updates, asker, calls, drops>>
  BY DEF RunProgress, States!check_active_state
<1>2. /\ Queue!QueueTypeOK' /\ UNCHANGED turn
      /\ Owed(1) # <<>> /\ e = Head(Owed(1))
      /\ Owed(1)' = Tail(Owed(1))
      /\ \A q \in 2..3 : Owed(q)' = Owed(q)
  BY <1>1, RunIsTaken, JobTypes
<1> HIDE DEF e
<1>3. /\ e \in Events /\ e.job \in HttpJobs
      /\ seen[e.job] < e.bytes /\ e.bytes <= byteprogress[e.job]
      /\ Growing(Tail(Owed(1)), seen, byteprogress)
      /\ Growing(Tail(Owed(1)), [seen EXCEPT ![e.job] = e.bytes], byteprogress)
      /\ e.job \in reports
  <2>1. Owed(1) \in Seq(Events) /\ Growing(Owed(1), seen, byteprogress)
    BY JobTypes DEF JobsInv, ProgressOrdered
  <2>2. /\ e \in Events /\ e.job \in HttpJobs
        /\ seen[e.job] < e.bytes /\ e.bytes <= byteprogress[e.job]
        /\ Growing(Tail(Owed(1)), seen, byteprogress)
        /\ Growing(Tail(Owed(1)), [seen EXCEPT ![e.job] = e.bytes], byteprogress)
    BY <1>2, <2>1, JobTypes, TailGrowing
  <2>3. byteprogress[e.job] # 0
    BY <2>2, JobTypes, BackgroundJobsAssumption DEF Events
  <2>4. QED
    BY <2>2, <2>3 DEF JobsInv, ProgressOrdered
<1>4. /\ seen' \in [HttpJobs -> 0..Total]
      /\ calling' \in Callbacks \union {Idle}
      /\ \A j \in HttpJobs : seen'[j] <= byteprogress[j]
  <2>1. e.bytes \in 0..Total /\ e.job \in Jobs
    BY <1>3 DEF Events
  <2>2. \A j \in HttpJobs : seen[j] <= byteprogress[j]
    BY DEF JobsInv, ProgressOrdered
  <2>3. calling' \in Callbacks \union {Idle}
    BY <1>1, <2>1, CallbackNames
  <2>4. CASE seen' = [seen EXCEPT ![e.job] = e.bytes]
    <3>1. seen' \in [HttpJobs -> 0..Total]
      BY <2>1, <2>4, JobTypes
    <3>2. seen'[e.job] = e.bytes /\ \A j \in HttpJobs \ {e.job} : seen'[j] = seen[j]
      BY <1>3, <2>4, JobTypes
    <3>3. QED
      BY <1>3, <2>2, <2>3, <3>1, <3>2
  <2>5. CASE UNCHANGED <<calling, seen>>
    BY <2>2, <2>3, <2>5, JobTypes
  <2>6. QED
    BY <1>1, <2>4, <2>5
<1>5. TypeOK'
  BY <1>1, <1>2, <1>4 DEF JobsInv, TypeOK, States!StatesTypeOK, luaVars, jobVars
<1>6. PlacedOnce' /\ CountedOnce' /\ Pending' = Pending
  BY <1>1, <1>2, JobsStay DEF jobVars
<1>7. ProgressOrdered'
  <2>1. Growing(Tail(Owed(1)), seen', byteprogress)
    BY <1>1, <1>3
  <2>2. Growing(Owed(1), seen, byteprogress)'
    BY <1>1, <1>2, <2>1 DEF jobVars
  <2>3. QED
    BY <1>1, <1>4, <2>2 DEF JobsInv, ProgressOrdered, jobVars
<1>8. \A j \in Jobs : calling # <<j, "done">> /\ calling' # <<j, "done">>
  BY <1>1, <1>3, CallbackNames DEF Jobs
<1>9. CallingRegistered'
  <2>1. CASE calling' = <<e.job, "progress">> /\ owner[e.job] \in activeStates
    <3>1. calling'[1] = e.job /\ calling'[2] = "progress"
      BY <2>1
    <3>2. QED
      BY <1>1, <1>2, <1>3, <2>1, <3>1 DEF CallingRegistered, luaVars, jobVars
  <2>2. CASE UNCHANGED calling
    BY <1>1, <2>2 DEF CallingRegistered
  <2>3. QED
    BY <1>1, <2>1, <2>2
<1>10. SlotsMatch' /\ JobRecords'
  <2>1. \A i \in Jobs : Live(i)' <=> Live(i)
    BY <1>6, <1>8 DEF Live
  <2>2. QED
    BY <1>1, <2>1, SlotsStay DEF jobVars
<1>11. ItemHandedOver'
  <2>1. JobsIn(Owed(2))' = JobsIn(Owed(2))
    BY <1>2 DEF JobsIn
  <2>2. QED
    BY <1>1, <1>8, <2>1 DEF JobsInv, ItemHandedOver, jobVars, Jobs
<1>12. QED
  BY <1>1, <1>3, <1>5, <1>6, <1>7, <1>9, <1>10, <1>11 DEF JobsInv, e

\* A dropped result belongs to a state that is gone or to a coroutine; the slots
\* of one that is told are kept until its callback returns.
LEMMA ResultSlots ==
  ASSUME JobsInv, DropResult \/ RunResult, Event.job \in Jobs,
         Event.job \in Pending, Pending' = Pending \ {Event.job}
  PROVE  SlotsMatch' /\ JobRecords'
<1>j. PICK j \in Jobs : j = Event.job
  OBVIOUS
<1>1. /\ calling = Idle
      /\ UNCHANGED <<luaVars, owner, reports, asker>>
      /\ \/ /\ owner[j] \notin activeStates /\ calling' = Idle
            /\ ref' = [ref EXCEPT ![<<j, "progress">>] = NoRef, ![<<j, "done">>] = NoRef]
         \/ calling' = <<j, "done">> /\ ref' = ref
  BY <1>j DEF DropResult, RunResult, States!check_active_state, DeleteItem, jobVars
<1>2. j \in Pending /\ Pending' = Pending \ {j}
  BY <1>j
<1>3. CASE calling' = <<j, "done">> /\ ref' = ref
  <2>1. \A i \in Jobs : Live(i)' <=> Live(i)
    BY <1>1, <1>2, <1>3, CallbackNames DEF Live
  <2>2. QED
    BY <1>1, <1>3, <2>1, SlotsStay
<1>4. CASE /\ owner[j] \notin activeStates /\ calling' = Idle
           /\ ref' = [ref EXCEPT ![<<j, "progress">>] = NoRef, ![<<j, "done">>] = NoRef]
  <2>1. \A i \in Jobs \ {j} : Live(i)' <=> Live(i)
    BY <1>1, <1>2, <1>4 DEF Live
  <2>2. \A c \in Callbacks : c[1] # j => ref'[c] = ref[c]
    BY <1>2, <1>4, CallbackNames, JobTypes
  <2>4. SlotsMatch'
    <3>1. UNCHANGED <<activeStates, tainted, registry, owner, asker>>
      BY <1>1 DEF luaVars
    <3>2. SUFFICES ASSUME NEW u \in activeStates \ tainted, NEW c \in Callbacks
                   PROVE  /\ \A r \in Refs : registry[u][r] = c =>
                               Kept(u, c)' /\ (owner[c[1]] = u => ref'[c] = r)
                          /\ Kept(u, c)' => \E r \in Refs : registry[u][r] = c
                          /\ Live(c[1])' /\ owner[c[1]] = u => asker[c[1]] = u
      BY <3>1 DEF SlotsMatch
    <3>3. /\ \A r \in Refs : registry[u][r] = c =>
                Kept(u, c) /\ (owner[c[1]] = u => ref[c] = r)
          /\ Kept(u, c) => \E r \in Refs : registry[u][r] = c
          /\ Live(c[1]) /\ owner[c[1]] = u => asker[c[1]] = u
      BY <3>2 DEF JobsInv, SlotsMatch
    <3>4. c[1] \in Jobs /\ (Kept(u, c)' <=> Kept(u, c)) /\ (owner[c[1]] = u => c[1] # j)
      <4>1. c[1] \in Jobs /\ (owner[c[1]] = u => c[1] # j)
        BY <1>4, <3>2, CallbackNames
      <4>2. Kept(u, c)' <=> Kept(u, c)
        BY <2>1, <3>1, <1>1, <4>1, <1>4, <3>2 DEF Kept
      <4>3. QED
        BY <4>1, <4>2
    <3>5. QED
      BY <2>1, <2>2, <3>2, <3>3, <3>4
  <2>5. \A i \in Jobs : i \notin reports => ref'[<<i, "progress">>] = NoRef
    BY <1>2, <1>4, CallbackNames, JobTypes DEF JobsInv, JobRecords
  <2>6. QED
    BY <1>1, <2>4, <2>5 DEF JobsInv, JobRecords, luaVars
<1>5. QED
  BY <1>1, <1>3, <1>4

\* A result is run or dropped: it ends its job.
LEMMA ResultStep ==
  ASSUME JobsInv, DropResult \/ RunResult
  PROVE  /\ JobsInv'
         /\ Event.job \in Pending /\ Pending' = Pending \ {Event.job}
<1> DEFINE j == Event.job
<1>1. /\ calling = Idle /\ turn \in 2..3 /\ Queue!RunEvent
      /\ UNCHANGED <<luaVars, owner, reports, running, threadList, byteprogress, asker, updates, seen>>
      /\ \/ /\ owner[j] \notin activeStates
            /\ drops' = [drops EXCEPT ![j] = @ + 1] /\ calls' = calls
            /\ calling' = Idle
            /\ item' = IF j \in HttpJobs THEN [item EXCEPT ![j] = "deleted"] ELSE item
            /\ ref' = [ref EXCEPT ![<<j, "progress">>] = NoRef, ![<<j, "done">>] = NoRef]
         \/ /\ owner[j] \in activeStates
            /\ calls' = [calls EXCEPT ![j] = @ + 1] /\ drops' = drops
            /\ calling' = <<j, "done">>
            /\ item' = item /\ ref' = ref
  BY DEF DropResult, RunResult, States!check_active_state, DeleteItem, jobVars
<1>q. PICK q \in 2..3 : q = turn
  BY <1>1
<1>2. /\ Queue!QueueTypeOK' /\ UNCHANGED turn
      /\ Owed(q) # <<>> /\ j = Head(Owed(q)).job
      /\ Owed(q)' = Tail(Owed(q))
      /\ \A p \in 1..3 \ {q} : Owed(p)' = Owed(p)
  BY <1>1, <1>q, RunIsTaken, JobTypes
<1> HIDE DEF j
<1>3. /\ j \in JobsIn(Owed(q))
      /\ EachJobOnce(Owed(q))' /\ JobsIn(Owed(q))' = JobsIn(Owed(q)) \ {j}
  <2>1. Owed(q) \in Seq(Events) /\ EachJobOnce(Owed(q))
    <3>1. q = 2 \/ q = 3
      OBVIOUS
    <3>2. QED
      BY <3>1, JobTypes DEF JobsInv, PlacedOnce
  <2> DEFINE t == Tail(Owed(q))
  <2>2. j \in JobsIn(Owed(q)) /\ EachJobOnce(t) /\ JobsIn(t) = JobsIn(Owed(q)) \ {j}
    BY <1>2, <2>1, TailJob
  <2>3. Owed(q)' = t
    BY <1>2
  <2> HIDE DEF t
  <2>4. EachJobOnce(Owed(q))' /\ JobsIn(Owed(q))' = JobsIn(t)
    BY <2>2, <2>3 DEF EachJobOnce, JobsIn
  <2>5. QED
    BY <2>2, <2>4
<1>4. \A p \in 2..3 \ {q} : JobsIn(Owed(p))' = JobsIn(Owed(p)) /\ (EachJobOnce(Owed(p)) => EachJobOnce(Owed(p))')
  BY <1>2 DEF EachJobOnce, JobsIn
<1>5. /\ j \in Pending /\ j \notin running
      /\ q = 2 => j \in HttpJobs /\ j \notin JobsIn(Owed(3))
      /\ q = 3 => j \in HashJobs /\ j \notin JobsIn(Owed(2))
  <2>1. CASE q = 2
    BY <1>3, <2>1, BackgroundJobsAssumption DEF JobsInv, PlacedOnce
  <2>2. CASE q = 3
    BY <1>3, <2>2, BackgroundJobsAssumption DEF JobsInv, PlacedOnce
  <2>3. QED
    BY <2>1, <2>2
<1>6. j \in Jobs /\ owner[j] # NoVM /\ calls[j] = 0 /\ drops[j] = 0
  BY <1>5, JobTypes DEF Pending, Resolved
<1>7. /\ calls' \in [Jobs -> Nat] /\ drops' \in [Jobs -> Nat]
      /\ calls'[j] + drops'[j] = 1
      /\ \A i \in Jobs \ {j} : calls'[i] = calls[i] /\ drops'[i] = drops[i]
  <2>1. CASE drops' = [drops EXCEPT ![j] = @ + 1] /\ calls' = calls
    BY <1>6, <2>1, JobTypes
  <2>2. CASE calls' = [calls EXCEPT ![j] = @ + 1] /\ drops' = drops
    BY <1>6, <2>2, JobTypes
  <2>3. QED
    BY <1>1, <2>1, <2>2
<1>8. UNCHANGED <<activeStates, registry, tainted, owner, reports, running, threadList, byteprogress>>
  BY <1>1 DEF luaVars
<1>9. Pending' = Pending \ {j}
  <2>1. ASSUME NEW i \in Jobs PROVE i \in Pending' <=> i \in Pending /\ i # j
    BY <1>6, <1>7, <1>8 DEF Pending, Resolved
  <2>2. QED
    BY <2>1 DEF Pending
<1>10. TypeOK'
  <2>1. item' \in [HttpJobs -> {"none", "thread", "queue", "deleted"}]
    <3>1. [item EXCEPT ![j] = "deleted"] \in [HttpJobs -> {"none", "thread", "queue", "deleted"}]
      BY JobTypes
    <3>2. QED
      BY <1>1, <3>1, JobTypes
  <2>3. calling' \in Callbacks \union {Idle}
    BY <1>1, <1>6, CallbackNames
  <2>4. ref' \in [Callbacks -> Refs \union {NoRef}]
    BY <1>1, JobTypes
  <2>2. QED
    BY <1>1, <1>2, <1>7, <1>8, <2>1, <2>3, <2>4 DEF JobsInv, TypeOK, States!StatesTypeOK
<1>11. PlacedOnce'
  <2>1. CASE q = 2
    BY <1>3, <1>4, <1>5, <1>8, <1>9, <2>1 DEF JobsInv, PlacedOnce
  <2>2. CASE q = 3
    BY <1>3, <1>4, <1>5, <1>8, <1>9, <2>2 DEF JobsInv, PlacedOnce
  <2>3. QED
    BY <1>1, <2>1, <2>2
<1>12. CountedOnce'
  <2>1. SUFFICES ASSUME NEW i \in Jobs
                 PROVE  /\ calls'[i] + drops'[i] <= 1
                        /\ owner[i] = NoVM => ~(calls'[i] + drops'[i] > 0)
    BY <1>8 DEF CountedOnce, Resolved
  <2>2. CASE i = j
    BY <1>6, <1>7, <2>2
  <2>3. CASE i # j
    BY <1>7, <2>3 DEF JobsInv, CountedOnce, Resolved
  <2>4. QED
    BY <2>2, <2>3
<1>13. calling' = Idle \/ (calling' = <<j, "done">> /\ owner[j] \in activeStates)
  BY <1>1
<1>14. CallingRegistered'
  <2>1. CASE calling' = <<j, "done">> /\ owner[j] \in activeStates
    <3>1. calls'[j] + drops'[j] > 0
      BY <1>7
    <3>2. QED
      BY <1>1, <1>2, <1>8, <2>1, <3>1 DEF CallingRegistered, Resolved
  <2>2. QED
    BY <1>13, <2>1 DEF CallingRegistered
<1>15. SlotsMatch' /\ JobRecords'
  BY <1>5, <1>6, <1>9, ResultSlots DEF j
<1>16. ProgressOrdered'
  <2>1. Owed(1)' = Owed(1)
    BY <1>1, <1>2
  <2>2. QED
    BY <1>1, <1>8, <2>1 DEF JobsInv, ProgressOrdered, Growing
<1>17. ItemHandedOver'
  <2>1. SUFFICES ASSUME NEW i \in HttpJobs
                 PROVE  /\ item'[i] = "none" <=> owner[i] = NoVM
                        /\ item'[i] = "thread" <=> i \in running
                        /\ item'[i] = "queue" <=> i \in JobsIn(Owed(2))' \/ calling' = <<i, "done">>
    BY <1>8 DEF ItemHandedOver
  <2>2. /\ item[i] = "none" <=> owner[i] = NoVM
        /\ item[i] = "thread" <=> i \in running
        /\ item[i] = "queue" <=> i \in JobsIn(Owed(2)) \/ calling = <<i, "done">>
    BY DEF JobsInv, ItemHandedOver
  <2>3. CASE i = j
    <3>1. q = 2
      BY <1>1, <1>5, <2>3, BackgroundJobsAssumption
    <3>2. i \notin JobsIn(Owed(2))' /\ item[i] = "queue"
      BY <1>3, <2>2, <2>3, <3>1
    <3>3. \/ item'[i] = "deleted" /\ calling' = Idle
          \/ item'[i] = "queue" /\ calling' = <<i, "done">>
      BY <1>1, <2>3, <3>2, JobTypes
    <3>4. Idle # <<i, "done">>
      BY CallbackNames DEF Jobs
    <3>5. QED
      BY <1>5, <1>6, <2>3, <3>2, <3>3, <3>4
  <2>4. CASE i # j
    <3>1. item'[i] = item[i]
      BY <1>1, <2>4, JobTypes
    <3>2. i \in JobsIn(Owed(2))' <=> i \in JobsIn(Owed(2))
      BY <1>1, <1>3, <1>4, <2>4
    <3>3. calling' # <<i, "done">> /\ calling # <<i, "done">>
      <4>1. i \in Jobs /\ <<i, "done">> # <<j, "done">> /\ <<i, "done">> # Idle
        BY <1>6, <2>4, CallbackNames DEF Jobs
      <4>2. QED
        BY <1>1, <1>13, <4>1
    <3>4. QED
      BY <2>2, <3>1, <3>2, <3>3
  <2>5. QED
    BY <2>3, <2>4
<1>18. QED
  BY <1>5, <1>9, <1>10, <1>11, <1>12, <1>14, <1>15, <1>16, <1>17 DEF JobsInv, j

\* The slots that the return of a job's last callback frees are its own.
LEMMA ReturnSlots ==
  ASSUME JobsInv, CallbackReturns, calling = <<calling[1], "done">>, calling[1] \in Jobs
  PROVE  SlotsMatch' /\ JobRecords'
<1>j. PICK j \in Jobs : j = calling[1]
  OBVIOUS
<1>1. /\ calling = <<j, "done">> /\ calling' = Idle /\ calling # Idle
      /\ registry' = [registry EXCEPT ![owner[j]] =
                        [r \in Refs |-> IF r \in Released(j) THEN Idle ELSE @[r]]]
      /\ ref' = [ref EXCEPT ![<<j, "progress">>] = NoRef, ![<<j, "done">>] = NoRef]
      /\ UNCHANGED <<activeStates, tainted, owner, reports, asker, calls, drops>>
  <2>1. calling[2] # "progress" /\ calling # Idle
    BY CallbackNames
  <2>2. QED
    BY <1>j, <2>1 DEF CallbackReturns, DeleteItem, history
<1>2. Resolved(j)
  BY <1>1 DEF JobsInv, CallingRegistered
<1>3. j \notin Pending /\ Pending' = Pending
  BY <1>1, <1>2 DEF Pending, Resolved
<1>4. /\ Live(j) /\ ~Live(j)'
      /\ \A i \in Jobs \ {j} : Live(i)' <=> Live(i)
  BY <1>1, <1>3, CallbackNames DEF Live
<1>5. \A c \in Callbacks : c[1] # j => ref'[c] = ref[c]
  BY <1>1, CallbackNames, JobTypes
<1>6. JobRecords'
  <2>1. \A i \in Jobs : i \notin reports => ref'[<<i, "progress">>] = NoRef
    BY <1>1, CallbackNames, JobTypes DEF JobsInv, JobRecords
  <2>2. QED
    BY <1>1, <2>1 DEF JobsInv, JobRecords
<1>7. SUFFICES ASSUME NEW u \in activeStates \ tainted, NEW c \in Callbacks
               PROVE  /\ \A r \in Refs : registry'[u][r] = c =>
                           Kept(u, c)' /\ (owner[c[1]] = u => ref'[c] = r)
                      /\ Kept(u, c)' => \E r \in Refs : registry'[u][r] = c
                      /\ Live(c[1])' /\ owner[c[1]] = u => asker[c[1]] = u
  <2>1. UNCHANGED <<activeStates, tainted, owner, asker>>
    BY <1>1
  <2>2. QED
    BY <1>6, <2>1 DEF SlotsMatch
<1>8. /\ \A r \in Refs : registry[u][r] = c =>
            Kept(u, c) /\ (owner[c[1]] = u => ref[c] = r)
      /\ Kept(u, c) => \E r \in Refs : registry[u][r] = c
      /\ Live(c[1]) /\ owner[c[1]] = u => asker[c[1]] = u
  BY <1>7 DEF JobsInv, SlotsMatch
<1>9. u \in VMs /\ c[1] \in Jobs /\ c # Idle
  BY <1>7, JobTypes, CallbackNames
<1>10. CASE owner[j] # u
  <2>1. registry'[u] = registry[u]
    BY <1>1, <1>9, <1>10, JobTypes
  <2>2. /\ Kept(u, c)' <=> Kept(u, c)
        /\ owner[c[1]] = u => c[1] # j
    BY <1>1, <1>4, <1>9, <1>10 DEF Kept
  <2>3. QED
    BY <1>4, <1>5, <1>8, <1>9, <2>1, <2>2
<1>11. CASE owner[j] = u
  <2>1. \A r \in Refs : registry'[u][r] = IF r \in Released(j) THEN Idle ELSE registry[u][r]
    BY <1>1, <1>9, <1>11, JobTypes
  <2>2. \A r \in Released(j) \intersect Refs : registry[u][r] \in {<<j, "done">>, <<j, "progress">>}
    <3>1. registry[u][ref[<<j, "done">>]] = <<j, "done">>
      BY <1>1, <1>4, <1>7, <1>11, CallbackNames, OwnSlot DEF JobsInv
    <3>2. CASE j \in reports
      <4>1. registry[u][ref[<<j, "progress">>]] = <<j, "progress">>
        BY <1>1, <1>4, <1>7, <1>11, <3>2, CallbackNames, OwnSlot DEF JobsInv
      <4>2. QED
        BY <3>1, <4>1 DEF Released
    <3>3. CASE j \notin reports
      <4>1. ref[<<j, "progress">>] = NoRef
        BY <1>1, <3>3 DEF JobsInv, JobRecords
      <4>2. QED
        BY <3>1, <4>1, BackgroundJobsAssumption DEF Released
    <3>4. QED
      BY <3>2, <3>3
  <2>3. CASE c[1] = j
    <3>1. ~Kept(u, c)'
      BY <1>1, <1>4, <1>11, <2>3 DEF Kept
    <3>2. \A r \in Refs : registry'[u][r] # c
      <4>1. ASSUME NEW r \in Refs, registry[u][r] = c PROVE r \in Released(j)
        <5>1. ref[c] = r
          BY <1>8, <1>11, <2>3, <4>1
        <5>2. c = <<j, "done">> \/ c = <<j, "progress">>
          BY <2>3, CallbackNames
        <5>3. QED
          BY <5>1, <5>2 DEF Released
      <4>2. QED
        BY <1>9, <2>1, <4>1
    <3>3. QED
      BY <1>4, <2>3, <3>1, <3>2
  <2>4. CASE c[1] # j
    <3>1. \A r \in Refs : registry'[u][r] = c <=> registry[u][r] = c
      <4>1. c \notin {<<j, "done">>, <<j, "progress">>}
        BY <2>4
      <4>2. QED
        BY <1>9, <2>1, <2>2, <4>1
    <3>2. Kept(u, c)' <=> Kept(u, c)
      BY <1>1, <1>4, <1>9, <2>4 DEF Kept
    <3>3. QED
      BY <1>4, <1>5, <1>8, <1>9, <2>4, <3>1, <3>2
  <2>5. QED
    BY <2>3, <2>4
<1>12. QED
  BY <1>10, <1>11

\* A callback returns: after the last one of a job nothing of the job is left.
LEMMA ReturnStep ==
  ASSUME JobsInv, CallbackReturns
  PROVE  JobsInv'
<1> DEFINE j == calling[1]
<1>1. /\ calling # Idle /\ calling' = Idle
      /\ \/ calling[2] = "progress" /\ UNCHANGED <<registry, item, ref>>
         \/ /\ calling[2] # "progress"
            /\ registry' = [registry EXCEPT ![owner[j]] =
                              [r \in Refs |-> IF r \in Released(j) THEN Idle ELSE @[r]]]
            /\ item' = IF j \in HttpJobs THEN [item EXCEPT ![j] = "deleted"] ELSE item
            /\ ref' = [ref EXCEPT ![<<j, "progress">>] = NoRef, ![<<j, "done">>] = NoRef]
      /\ UNCHANGED <<activeStates, tainted, owner, reports, running, threadList, byteprogress>>
      /\ UNCHANGED <<queueVars, updates, history>>
  BY DEF CallbackReturns, DeleteItem, jobVars
<1>2. /\ j \in Jobs /\ owner[j] \in activeStates /\ owner[j] \in VMs
      /\ \/ calling = <<j, "progress">> /\ calling[2] = "progress"
         \/ calling = <<j, "done">> /\ calling[2] = "done" /\ Resolved(j)
  BY <1>1, JobTypes, CallbackNames DEF JobsInv, CallingRegistered
<1> HIDE DEF j
<1>3. /\ \A q \in 1..3 : Owed(q)' = Owed(q)
      /\ UNCHANGED turn /\ Queue!QueueTypeOK'
  BY <1>1, NothingOwedChanges, JobTypes
<1>4. UNCHANGED <<activeStates, tainted, owner, reports, running, threadList, byteprogress, updates,
                  asker, seen, calls, drops>>
  BY <1>1 DEF history
<1>5. PlacedOnce' /\ CountedOnce' /\ Pending' = Pending
  BY <1>3, <1>4, JobsStay
<1>6. CallingRegistered'
  BY <1>1 DEF CallingRegistered
<1>7. ProgressOrdered'
  BY <1>3, <1>4 DEF JobsInv, ProgressOrdered, Growing
<1>8. CASE calling = <<j, "progress">> /\ UNCHANGED <<registry, item, ref>>
  <2>1. \A i \in Jobs : calling # <<i, "done">> /\ calling' # <<i, "done">>
    BY <1>1, <1>2, <1>8, CallbackNames
  <2>2. TypeOK'
    BY <1>1, <1>3, <1>4, <1>8 DEF JobsInv, TypeOK, States!StatesTypeOK
  <2>3. SlotsMatch' /\ JobRecords'
    <3>1. \A i \in Jobs : Live(i)' <=> Live(i)
      BY <1>5, <2>1 DEF Live
    <3>2. QED
      BY <1>4, <1>8, <3>1, SlotsStay DEF luaVars
  <2>4. ItemHandedOver'
    <3>1. JobsIn(Owed(2))' = JobsIn(Owed(2))
      BY <1>3 DEF JobsIn
    <3>2. QED
      BY <1>4, <1>8, <2>1, <3>1 DEF JobsInv, ItemHandedOver, Jobs
  <2>5. QED
    BY <1>5, <1>6, <1>7, <2>2, <2>3, <2>4 DEF JobsInv
<1>9. CASE calling = <<j, "done">> /\ calling[2] = "done" /\ Resolved(j)
  <2>1. registry' \in [VMs -> [Refs -> Callbacks \union {Idle}]]
    <3> DEFINE freed == [r \in Refs |-> IF r \in Released(j) THEN Idle ELSE registry[owner[j]][r]]
    <3>1. registry' = [registry EXCEPT ![owner[j]] = freed]
      BY <1>1, <1>2, <1>9, JobTypes
    <3>2. freed \in [Refs -> Callbacks \union {Idle}]
      BY <1>2, JobTypes
    <3> HIDE DEF freed
    <3>3. QED
      BY <1>2, <3>1, <3>2, JobTypes
  <2>2. item' \in [HttpJobs -> {"none", "thread", "queue", "deleted"}]
    <3>1. [item EXCEPT ![j] = "deleted"] \in [HttpJobs -> {"none", "thread", "queue", "deleted"}]
      BY JobTypes
    <3>2. QED
      BY <1>1, <1>9, <3>1, JobTypes
  <2>3. TypeOK'
    <3>1. ref' \in [Callbacks -> Refs \union {NoRef}]
      BY <1>1, <1>9, JobTypes
    <3>2. QED
      BY <1>1, <1>3, <1>4, <2>1, <2>2, <3>1 DEF JobsInv, TypeOK, States!StatesTypeOK
  <2>4. SlotsMatch' /\ JobRecords'
    BY <1>2, <1>9, ReturnSlots DEF j
  <2>5. ItemHandedOver'
    <3>1. SUFFICES ASSUME NEW i \in HttpJobs
                   PROVE  /\ item'[i] = "none" <=> owner[i] = NoVM
                          /\ item'[i] = "thread" <=> i \in running
                          /\ item'[i] = "queue" <=> i \in JobsIn(Owed(2))
      <4>1. JobsIn(Owed(2))' = JobsIn(Owed(2))
        BY <1>3 DEF JobsIn
      <4>2. \A i \in HttpJobs : calling' # <<i, "done">>
        BY <1>1, CallbackNames DEF Jobs
      <4>3. QED
        BY <1>4, <4>1, <4>2 DEF ItemHandedOver
    <3>2. /\ item[i] = "none" <=> owner[i] = NoVM
          /\ item[i] = "thread" <=> i \in running
          /\ item[i] = "queue" <=> i \in JobsIn(Owed(2)) \/ calling = <<i, "done">>
      BY DEF JobsInv, ItemHandedOver
    <3>3. CASE i = j
      <4>1. j \notin running /\ j \notin JobsIn(Owed(2))
        BY <1>9 DEF JobsInv, PlacedOnce, Pending
      <4>2. item'[i] = "deleted" /\ owner[i] # NoVM
        BY <1>1, <1>2, <1>9, <3>3, JobTypes, BackgroundJobsAssumption
      <4>3. QED
        BY <3>3, <4>1, <4>2
    <3>4. CASE i # j
      <4>1. item'[i] = item[i]
        BY <1>1, <1>9, <3>4, JobTypes
      <4>2. calling # <<i, "done">>
        BY <1>2, <1>9, <3>4, CallbackNames DEF Jobs
      <4>3. QED
        BY <3>2, <4>1, <4>2
    <3>5. QED
      BY <3>3, <3>4
  <2>6. QED
    BY <1>5, <1>6, <1>7, <2>3, <2>4, <2>5 DEF JobsInv
<1>10. QED
  BY <1>1, <1>2, <1>8, <1>9

-----------------------------------------------------------------------------
LEMMA JobsInvInit == Init => JobsInv
<1> SUFFICES ASSUME Init PROVE JobsInv
  OBVIOUS
<1>1. /\ Queue!QueueTypeOK
      /\ Owed(1) = <<>> /\ Owed(2) = <<>> /\ Owed(3) = <<>>
  BY DEF Init, Queue!QueueInit, Queue!QueueTypeOK, Owed, Queue!Owed
<1>2. Pending = {} /\ running = {}
  BY DEF Init, Pending
<1>3. TypeOK
  BY <1>1, BackgroundJobsAssumption
  DEF Init, TypeOK, States!StatesInit, States!StatesTypeOK, States!EmptyRegistry
<1>4. PlacedOnce
  BY <1>1, <1>2, NoJobsOwed DEF PlacedOnce
<1>5. CountedOnce /\ CallingRegistered
  BY DEF Init, CountedOnce, CallingRegistered, Resolved
<1>6. SlotsMatch /\ JobRecords
  BY CallbackNames DEF Init, SlotsMatch, JobRecords, States!StatesInit
<1>7. ProgressOrdered
  BY <1>1, BackgroundJobsAssumption DEF Init, ProgressOrdered, Growing
<1>8. ItemHandedOver
  <2>1. \A j \in HttpJobs : calling # <<j, "done">>
    BY CallbackNames DEF Init, Jobs
  <2>2. QED
    BY <1>1, <1>2, <2>1, NoJobsOwed DEF Init, ItemHandedOver, Jobs
<1>9. QED
  BY <1>3, <1>4, <1>5, <1>6, <1>7, <1>8 DEF JobsInv

LEMMA JobsInvStep == JobsInv /\ [Next]_vars => JobsInv'
<1> SUFFICES ASSUME JobsInv, [Next]_vars PROVE JobsInv'
  OBVIOUS
<1>1. ASSUME NEW v \in VMs, OpenState(v) \/ CloseState(v)
      PROVE  JobsInv'
  BY <1>1, StateStep
<1>2. ASSUME NEW v \in VMs, NEW j \in HttpJobs, LaunchHTTPRequest(j, v)
      PROVE  JobsInv'
  BY <1>2, StartStep DEF Jobs
<1>3. ASSUME NEW v \in VMs, NEW j \in HashJobs, RunAsyncHash(j, v)
      PROVE  JobsInv'
  BY <1>3, StartStep DEF Jobs
<1>4. ASSUME NEW j \in HttpJobs, NEW n \in 1..Total, http_progress_call(j, n)
      PROVE  JobsInv'
  BY <1>4, ProgressStep
<1>5. ASSUME NEW j \in HttpJobs, FinishHttp(j)
      PROVE  JobsInv'
  <2>1. j \in Jobs
    BY DEF Jobs
  <2>2. QED
    BY <1>5, <2>1, FinishStep
<1>6. ASSUME NEW j \in HashJobs, FinishHash(j)
      PROVE  JobsInv'
  <2>1. j \in Jobs
    BY DEF Jobs
  <2>2. QED
    BY <1>6, <2>1, FinishStep
<1>7. CASE MainLoop
  BY <1>7, MoveStep, ToldStep, ResultStep, ReturnStep DEF MainLoop
<1>8. CASE UNCHANGED vars
  <2>1. /\ UNCHANGED <<luaVars, jobVars, item, queueVars, updates, calling, history>>
        /\ \A q \in 1..3 : Owed(q)' = Owed(q)
        /\ Queue!QueueTypeOK' /\ UNCHANGED turn
    BY <1>8, NothingOwedChanges, JobTypes DEF vars
  <2>2. TypeOK'
    BY <2>1 DEF JobsInv, TypeOK, States!StatesTypeOK, luaVars, jobVars, history
  <2>3. PlacedOnce' /\ CountedOnce' /\ Pending' = Pending
    BY <2>1, JobsStay DEF jobVars, history
  <2>4. CallingRegistered' /\ SlotsMatch' /\ JobRecords'
    <3>1. \A i \in Jobs : Live(i)' <=> Live(i)
      BY <2>1, <2>3 DEF Live
    <3>2. SlotsMatch' /\ JobRecords'
      BY <2>1, <3>1, SlotsStay DEF jobVars, history
    <3>3. QED
      BY <2>1, <2>3, <3>2 DEF JobsInv, CallingRegistered, Resolved, luaVars, jobVars, history
  <2>5. ProgressOrdered' /\ ItemHandedOver'
    BY <2>1 DEF JobsInv, ProgressOrdered, Growing, ItemHandedOver, JobsIn, jobVars, history
  <2>6. QED
    BY <2>2, <2>3, <2>4, <2>5 DEF JobsInv
<1>9. QED
  BY <1>1, <1>2, <1>3, <1>4, <1>5, <1>6, <1>7, <1>8 DEF Next

LEMMA JobsInvariant == Spec => []JobsInv
  BY JobsInvInit, JobsInvStep, PTL DEF Spec

-----------------------------------------------------------------------------
\* Every variable keeps its type, whatever the threads and the game do.
THEOREM TypeCorrect == Spec => []TypeOK
<1>1. JobsInv => TypeOK
  BY DEF JobsInv
<1>2. QED
  BY <1>1, JobsInvariant, PTL

\* A job that is not answered yet is at work or its result is queued, and never
\* two of these: no job is lost, and none can be answered twice.
THEOREM NoJobLostOrDoubled == Spec => []PlacedOnce
<1>1. JobsInv => PlacedOnce
  BY DEF JobsInv
<1>2. QED
  BY <1>1, JobsInvariant, PTL

\* An HTTPItem is handed from the thread to the event to nobody.
THEOREM ItemStaysOwned == Spec => []ItemHandedOver
<1>1. JobsInv => ItemHandedOver
  BY DEF JobsInv
<1>2. QED
  BY <1>1, JobsInvariant, PTL

\* A state that did not inherit its address holds exactly the callbacks of its
\* own jobs that are not over, and those of its coroutines' jobs.
THEOREM NothingLeftParked == Spec => []NoParkedLeftovers
<1>1. JobsInv => NoParkedLeftovers
  <2>1. SUFFICES ASSUME JobsInv, NEW v \in activeStates \ tainted
                 PROVE  States!Parked(v) = {c \in Callbacks : Kept(v, c)}
    BY DEF NoParkedLeftovers, Kept
  <2>2. \A r \in Refs : registry[v][r] \in Callbacks \union {Idle}
    BY <2>1, JobTypes
  <2>3. \A c \in States!Parked(v) : c \in Callbacks /\ Kept(v, c)
    BY <2>1, <2>2 DEF States!Parked, JobsInv, SlotsMatch
  <2>4. \A c \in Callbacks : Kept(v, c) => c \in States!Parked(v)
    BY <2>1, CallbackNames DEF States!Parked, JobsInv, SlotsMatch
  <2>5. QED
    BY <2>3, <2>4
<1>2. QED
  BY <1>1, JobsInvariant, PTL

\* A result or a progress report reaches its own callback, unless its state's
\* address was taken over meanwhile or the item of the report was deleted.
THEOREM CallbacksReachTheirOwner == Spec => []CallbacksReachTheirJob
<1>1. JobsInv => CallbacksReachTheirJob
  <2>1. SUFFICES ASSUME JobsInv, calling # Idle, owner[calling[1]] \notin tainted,
                        ~(calling[2] = "progress" /\ item[calling[1]] = "deleted")
                 PROVE  registry[owner[calling[1]]][ref[calling]] = calling
    BY DEF CallbacksReachTheirJob
  <2>2. PICK j \in Jobs : j = calling[1] /\ calling \in Callbacks /\ calling = <<j, calling[2]>>
    BY <2>1, JobTypes, CallbackNames
  <2>3. owner[j] \in activeStates \ tainted
    BY <2>1, <2>2 DEF JobsInv, CallingRegistered
  <2>4. CASE calling[2] = "done"
    <3>1. Live(j)
      BY <2>2, <2>4 DEF Live
    <3>2. QED
      BY <2>1, <2>2, <2>3, <2>4, <3>1, OwnSlot DEF JobsInv
  <2>5. CASE calling[2] = "progress" /\ j \in reports
    <3>1. j \in HttpJobs /\ item[j] \in {"none", "thread", "queue"}
      BY <2>1, <2>2, <2>5, JobTypes
    <3>2. calling # <<j, "done">> /\ owner[j] # NoVM
      BY <2>1, <2>2, <2>3, <2>5, JobTypes, CallbackNames, BackgroundJobsAssumption
    <3>3. j \in running \/ j \in JobsIn(Owed(2))
      BY <2>1, <3>1, <3>2 DEF JobsInv, ItemHandedOver
    <3>4. Live(j)
      BY <2>1, <3>3 DEF JobsInv, PlacedOnce, Live
    <3>5. QED
      BY <2>1, <2>2, <2>3, <2>5, <3>4, OwnSlot DEF JobsInv
  <2>6. calling[2] = "progress" => j \in reports
    BY <2>1, <2>2 DEF JobsInv, CallingRegistered
  <2>7. QED
    BY <2>2, <2>4, <2>5, <2>6, CallbackNames
<1>2. QED
  BY <1>1, JobsInvariant, PTL

-----------------------------------------------------------------------------
\* Only a progress event that is run changes what Lua was told.
LEMMA OnlyProgressTells ==
  ASSUME [Next]_vars, ~RunProgress
  PROVE  seen' = seen
<1>1. ASSUME NEW v \in VMs, OpenState(v) \/ CloseState(v)
      PROVE  seen' = seen
  BY <1>1 DEF OpenState, CloseState, history
<1>2. ASSUME NEW v \in VMs, NEW j \in Jobs, LaunchHTTPRequest(j, v) \/ RunAsyncHash(j, v)
      PROVE  seen' = seen
  BY <1>2 DEF LaunchHTTPRequest, RunAsyncHash, history
<1>3. ASSUME NEW j \in Jobs, \/ FinishHttp(j) \/ FinishHash(j)
                             \/ \E n \in 1..Total : http_progress_call(j, n)
      PROVE  seen' = seen
  BY <1>3 DEF FinishHttp, FinishHash, http_progress_call, ThreadUnchanged, history
<1>4. CASE MainLoop
  BY <1>4 DEF MainLoop, Update, EndOfQueue, DropResult, RunResult, CallbackReturns, history
<1>5. CASE UNCHANGED vars
  BY <1>5 DEF vars, history
<1>6. QED
  BY <1>1, <1>2, <1>3, <1>4, <1>5 DEF Next, Jobs

\* While its item exists a download reports growing byte counts, and none after
\* its result was handed over.
THEOREM ProgressKeepsGrowing == Spec => ProgressGrows
<1>1. ASSUME JobsInv, [Next]_vars, NEW j \in HttpJobs, seen'[j] # seen[j], item[j] # "deleted"
      PROVE  seen'[j] > seen[j] /\ calls[j] = 0
  <2>1. RunProgress
    BY <1>1, OnlyProgressTells
  <2>2. /\ Event.job \in HttpJobs /\ seen[Event.job] < Event.bytes
        /\ seen' = seen \/ seen' = [seen EXCEPT ![Event.job] = Event.bytes]
        /\ calling = Idle
    BY <1>1, <2>1, ToldStep
  <2>3. j = Event.job /\ seen'[j] = Event.bytes
    BY <1>1, <2>2, JobTypes
  <2>4. seen'[j] > seen[j]
    BY <2>2, <2>3
  <2>5. calls[j] = 0
    <3>1. SUFFICES ASSUME calls[j] # 0 PROVE FALSE
      OBVIOUS
    <3>2. j \in Jobs /\ Resolved(j)
      <4>1. j \in Jobs /\ calls[j] \in Nat /\ drops[j] \in Nat
        BY <1>1, JobTypes DEF Jobs
      <4>2. QED
        BY <3>1, <4>1 DEF Resolved
    <3>3. j \notin running /\ j \notin JobsIn(Owed(2)) /\ owner[j] # NoVM
      BY <1>1, <3>2 DEF JobsInv, PlacedOnce, CountedOnce, Pending
    <3>4. calling # <<j, "done">>
      BY <2>2, <3>2, CallbackNames
    <3>5. item[j] \notin {"none", "thread", "queue"}
      BY <1>1, <3>3, <3>4 DEF JobsInv, ItemHandedOver
    <3>6. QED
      BY <1>1, <3>5, JobTypes
  <2>6. QED
    BY <2>4, <2>5
<1>2. JobsInv /\ [Next]_vars
        => [\A j \in HttpJobs : seen'[j] # seen[j] /\ item[j] # "deleted"
                                  => seen'[j] > seen[j] /\ calls[j] = 0]_vars
  BY <1>1
<1>3. QED
  BY <1>2, JobsInvariant, PTL DEF Spec, ProgressGrows

-----------------------------------------------------------------------------
(* The promise to Lua. *)

Fates == [j \in Jobs |-> Fate(j)]

LEMMA FateMeaning ==
  ASSUME JobsInv, NEW j \in Jobs
  PROVE  /\ owner[j] = NoVM => Fate(j) = "unmade"
         /\ j \in Pending => Fate(j) = "pending"
<1>1. /\ calls[j] \in Nat /\ drops[j] \in Nat
      /\ owner[j] = NoVM => calls[j] = 0 /\ drops[j] = 0
  BY JobTypes DEF JobsInv, CountedOnce, Resolved
<1>2. j \in Pending <=> owner[j] # NoVM /\ calls[j] = 0 /\ drops[j] = 0
  BY <1>1 DEF Pending, Resolved
<1>3. CASE owner[j] = NoVM
  BY <1>1, <1>2, <1>3 DEF Fate
<1>4. CASE j \in Pending
  BY <1>1, <1>2, <1>4 DEF Fate
<1>5. QED
  BY <1>3, <1>4

\* A step that touches neither the owners nor the counts leaves every fate.
LEMMA FatesUnchanged ==
  ASSUME UNCHANGED <<owner, calls, drops>>
  PROVE  UNCHANGED Fates
  BY DEF Fates, Fate, Pending, Resolved

\* A result ends one fate and no other.
LEMMA FateEnds ==
  ASSUME JobsInv, DropResult \/ RunResult
  PROVE  Promise!Next
<1>1. PICK j \in Jobs : j = Event.job /\ j \in Pending
  BY ResultStep DEF Pending
<1>2. /\ UNCHANGED <<activeStates, owner>>
      /\ owner[j] # NoVM /\ calls[j] = 0 /\ drops[j] = 0
      /\ Fate(j) = "pending"
  BY <1>1, JobTypes, FateMeaning
  DEF DropResult, RunResult, DeleteItem, luaVars, jobVars, Pending, Resolved
<1>3. \A i \in Jobs \ {j} : calls'[i] = calls[i] /\ drops'[i] = drops[i]
  BY <1>1, JobTypes DEF DropResult, RunResult
<1>4. \A i \in Jobs \ {j} : Fate(i)' = Fate(i)
  BY <1>2, <1>3 DEF Fate, Pending, Resolved
<1>5. CASE DropResult
  <2>1. owner[j] \notin activeStates /\ drops'[j] = 1 /\ calls'[j] = 0
    BY <1>1, <1>2, <1>5, JobTypes DEF DropResult, States!check_active_state
  <2>2. Fate(j)' = "dropped"
    BY <1>1, <1>2, <2>1 DEF Fate, Pending, Resolved
  <2>3. Fates' = [Fates EXCEPT ![j] = "dropped"]
    BY <1>4, <2>2 DEF Fates
  <2>4. Promise!Drop(j)
    BY <1>1, <1>2, <2>1, <2>3 DEF Promise!Drop, Fates
  <2>5. QED
    BY <2>4 DEF Promise!Next
<1>6. CASE RunResult
  <2>1. owner[j] \in activeStates /\ calls'[j] = 1 /\ drops'[j] = 0
    BY <1>1, <1>2, <1>6, JobTypes DEF RunResult, States!check_active_state
  <2>2. Fate(j)' = "called"
    BY <1>1, <1>2, <2>1 DEF Fate, Pending, Resolved
  <2>3. Fates' = [Fates EXCEPT ![j] = "called"]
    BY <1>4, <2>2 DEF Fates
  <2>4. Promise!CallBack(j)
    BY <1>1, <1>2, <2>1, <2>3 DEF Promise!CallBack, Fates
  <2>5. QED
    BY <2>4 DEF Promise!Next
<1>7. QED
  BY <1>5, <1>6

\* A new job is a request of a state that is open.
LEMMA FateBegins ==
  ASSUME JobsInv, NEW j \in Jobs, NEW v \in VMs, NEW L, NEW p, NEW f, Begun(j, v, L, p, f)
  PROVE  Promise!Next
<1>1. /\ owner[j] = NoVM /\ owner' = [owner EXCEPT ![j] = L]
      /\ v \in activeStates
      /\ L = v \/ L \in Coroutines \ activeStates
      /\ UNCHANGED <<activeStates, calls, drops>>
  BY DEF Begun, Park, States!Caller
<1>2. ~Resolved(j) /\ Fate(j) = "unmade"
  BY <1>1, FateMeaning DEF JobsInv, CountedOnce
<1>3. L # NoVM /\ owner'[j] = L /\ \A i \in Jobs \ {j} : owner'[i] = owner[i]
  BY BegunJob
<1>4. Fate(j)' = "pending"
  BY <1>1, <1>2, <1>3 DEF Fate, Pending, Resolved
<1>5. \A i \in Jobs \ {j} : Fate(i)' = Fate(i)
  <2>1. \A i \in Jobs \ {j} : i \in Pending' <=> i \in Pending
    BY <1>1, <1>3 DEF Pending, Resolved
  <2>2. ASSUME NEW i \in Jobs \ {j} PROVE Fate(i)' = Fate(i)
    <3>1. /\ owner'[i] = owner[i] /\ calls' = calls /\ drops' = drops
          /\ i \in Pending' <=> i \in Pending
      BY <1>1, <1>3, <2>1
    <3>2. QED
      BY <3>1 DEF Fate
  <2>3. QED
    BY <2>2
<1>6. Fates' = [Fates EXCEPT ![j] = "pending"]
  BY <1>4, <1>5 DEF Fates
<1>7. Promise!Request(j, v, L)
  BY <1>1, <1>2, <1>6 DEF Promise!Request, Fates
<1>8. QED
  BY <1>1, <1>7 DEF Promise!Next

LEMMA PromiseStep ==
  ASSUME JobsInv, [Next]_vars
  PROVE  Promise!Next \/ UNCHANGED <<activeStates, owner, Fates>>
<1>1. ASSUME NEW v \in VMs, OpenState(v)
      PROVE  Promise!Next
  <2>1. UNCHANGED <<owner, Fates>>
    BY <1>1, FatesUnchanged DEF OpenState, jobVars, history
  <2>2. Promise!Open(v)
    BY <1>1, <2>1 DEF OpenState, States!add_active_state, Promise!Open, Fates
  <2>3. QED
    BY <2>2 DEF Promise!Next
<1>2. ASSUME NEW v \in VMs, CloseState(v)
      PROVE  Promise!Next
  <2>1. UNCHANGED <<owner, Fates>>
    BY <1>2, FatesUnchanged DEF CloseState, jobVars
  <2>2. Promise!Close(v)
    BY <1>2, <2>1 DEF CloseState, States!remove_active_state, Promise!Close, Fates
  <2>3. QED
    BY <2>2 DEF Promise!Next
<1>3. ASSUME NEW v \in VMs, NEW j \in Jobs, LaunchHTTPRequest(j, v) \/ RunAsyncHash(j, v)
      PROVE  Promise!Next
  BY <1>3, StartBegins, FateBegins
<1>4. ASSUME NEW j \in Jobs, \/ FinishHttp(j) \/ FinishHash(j)
                             \/ \E n \in 1..Total : http_progress_call(j, n)
      PROVE  UNCHANGED <<activeStates, owner, calls, drops>>
  BY <1>4 DEF FinishHttp, FinishHash, http_progress_call, ThreadUnchanged, luaVars, history
<1>5. ASSUME Update \/ EndOfQueue \/ RunProgress \/ CallbackReturns
      PROVE  UNCHANGED <<activeStates, owner, calls, drops>>
  BY <1>5 DEF Update, EndOfQueue, RunProgress, CallbackReturns, DeleteItem, luaVars, jobVars, history
<1>6. ASSUME UNCHANGED <<activeStates, owner, calls, drops>>
      PROVE  UNCHANGED <<activeStates, owner, Fates>>
  BY <1>6, FatesUnchanged
<1>7. CASE MainLoop
  BY <1>5, <1>6, <1>7, FateEnds DEF MainLoop
<1>8. CASE UNCHANGED vars
  BY <1>6, <1>8 DEF vars, luaVars, jobVars, history
<1>9. QED
  BY <1>1, <1>2, <1>3, <1>4, <1>6, <1>7, <1>8 DEF Next, Jobs

\* dohttpreq, FileHash and DirectoryHash resolve each request at most once, by a
\* call only while a state is registered at the lua_State it was made with.
THEOREM JobsKeepPromise == Spec => KeepsPromise
<1>1. Init => Promise!Init
  <2>1. SUFFICES ASSUME Init PROVE Promise!Init
    OBVIOUS
  <2>2. activeStates = {} /\ owner = [j \in Jobs |-> NoVM]
    BY <2>1 DEF Init, States!StatesInit
  <2>3. \A j \in Jobs : Fate(j) = "unmade"
    BY <2>1, <2>2, JobsInvInit, FateMeaning
  <2>4. QED
    BY <2>2, <2>3 DEF Promise!Init
<1>2. JobsInv /\ [Next]_vars => [Promise!Next]_(Promise!vars)
  BY PromiseStep DEF Promise!vars, Fates
<1>3. QED
  BY <1>1, <1>2, JobsInvariant, PTL DEF Spec, KeepsPromise, Promise!Spec

-----------------------------------------------------------------------------
(* The three queues as channels. *)

\* A step of the system is a step of the queues or leaves them alone.
LEMMA StepOfQueues ==
  ASSUME JobsInv, [Next]_vars
  PROVE  [QueueProofs!QueueNext]_queueVars
<1>1. ASSUME NEW j \in HttpJobs, NEW n \in 1..Total, http_progress_call(j, n)
      PROVE  QueueProofs!QueueNext
  <2>1. [job |-> j, bytes |-> n] \in Events /\ 1 \in 1..3
    BY <1>1, BackgroundJobsAssumption DEF Events, Jobs
  <2>2. QueueProofs!AddToQueue(1, [job |-> j, bytes |-> n])
    BY <1>1 DEF http_progress_call, Queue!AddToQueue, QueueProofs!AddToQueue
  <2>3. QED
    BY <2>1, <2>2 DEF QueueProofs!QueueNext
<1>2. ASSUME NEW j \in HttpJobs, FinishHttp(j)
      PROVE  QueueProofs!QueueNext
  <2>1. [job |-> j, bytes |-> 0] \in Events /\ 2 \in 1..3
    BY <1>2, BackgroundJobsAssumption DEF Events, Jobs
  <2>2. QueueProofs!AddToQueue(2, [job |-> j, bytes |-> 0])
    BY <1>2 DEF FinishHttp, Queue!AddToQueue, QueueProofs!AddToQueue
  <2>3. QED
    BY <2>1, <2>2 DEF QueueProofs!QueueNext
<1>3. ASSUME NEW j \in HashJobs, FinishHash(j)
      PROVE  QueueProofs!QueueNext
  <2>1. [job |-> j, bytes |-> 0] \in Events /\ 3 \in 1..3
    BY <1>3, BackgroundJobsAssumption DEF Events, Jobs
  <2>2. QueueProofs!AddToQueue(3, [job |-> j, bytes |-> 0])
    BY <1>3 DEF FinishHash, Queue!AddToQueue, QueueProofs!AddToQueue
  <2>3. QED
    BY <2>1, <2>2 DEF QueueProofs!QueueNext
<1>4. CASE Update
  <2>1. CASE updates > 1
    BY <1>4, <2>1 DEF Update, Queue!ProcessEvents, QueueProofs!ProcessEvents, Queue!Drain,
                      QueueProofs!Drain, QueueProofs!QueueNext
  <2>2. CASE ~(updates > 1)
    BY <1>4, <2>2 DEF Update
  <2>3. QED
    BY <2>1, <2>2
<1>5. CASE EndOfQueue
  BY <1>5 DEF EndOfQueue, Queue!NextQueue, QueueProofs!NextQueue, Queue!Drain, QueueProofs!Drain,
              QueueProofs!QueueNext
<1>6. CASE RunProgress \/ DropResult \/ RunResult
  <2>1. Queue!RunEvent
    BY <1>6 DEF RunProgress, DropResult, RunResult
  <2>2. QED
    BY <2>1 DEF Queue!RunEvent, QueueProofs!RunEvent, QueueProofs!QueueNext
<1>7. ASSUME NEW v \in VMs,
             \/ OpenState(v) \/ CloseState(v)
             \/ \E j \in HttpJobs : LaunchHTTPRequest(j, v)
             \/ \E j \in HashJobs : RunAsyncHash(j, v)
      PROVE  UNCHANGED queueVars
  BY <1>7 DEF OpenState, CloseState, LaunchHTTPRequest, RunAsyncHash
<1>8. CASE CallbackReturns
  BY <1>8 DEF CallbackReturns
<1>9. CASE UNCHANGED vars
  BY <1>9 DEF vars
<1>10. QED
  BY <1>1, <1>2, <1>3, <1>4, <1>5, <1>6, <1>7, <1>8, <1>9 DEF Next, MainLoop

\* Whatever the threads post, in whatever frame, the progress reports, the
\* results of requests and those of hashes each leave their queue once and in
\* the order in which they came.
THEOREM ResultsInOrder == Spec => Queue!FifoDelivery
<1>1. Init => Queue!Channels!Init
  BY DEF Init, Queue!QueueInit, Queue!Channels!Init, Queue!Owed
<1>2. JobsInv /\ [Next]_vars => [Queue!Channels!Next]_(Queue!Owed)
  <2>1. SUFFICES ASSUME JobsInv, [Next]_vars
                 PROVE  [Queue!Channels!Next]_(Queue!Owed)
    OBVIOUS
  <2>2. QueueProofs!QueueTypeOK /\ 3 \in Nat \ {0}
    BY <2>1, SameType DEF JobsInv, TypeOK
  <2>3. [QueueProofs!QueueNext]_(QueueProofs!queueVars)
    BY <2>1, StepOfQueues DEF queueVars, QueueProofs!queueVars
  <2>4. [QueueProofs!Channels!Next]_(QueueProofs!Owed)
    BY <2>2, <2>3, QueueProofs!QueueStep
  <2>5. QED
    BY <2>4
    DEF Queue!Channels!Next, Queue!Channels!Put, Queue!Channels!Take,
        QueueProofs!Channels!Next, QueueProofs!Channels!Put, QueueProofs!Channels!Take,
        Queue!Owed, QueueProofs!Owed
<1>3. QED
  BY <1>1, <1>2, JobsInvariant, PTL DEF Spec, Queue!FifoDelivery, Queue!Channels!Spec
=============================================================================
