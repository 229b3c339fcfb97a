-------------------------- MODULE HandlePoolProofs ---------------------------
(***************************************************************************)
(* Proofs about WCDB's HandleCounter, for any finite set of threads and    *)
(* any limits, and about the handles of a database that it counts, for any *)
(* threads, tasks and closers and any nesting.                             *)
(*                                                                         *)
(* Those about the counter are stated for its operations, so that they     *)
(* hold in whatever calls them.                                            *)
(***************************************************************************)
EXTENDS HandlePool, FiniteSetTheorems, TLAPS

CounterTyped ==
    /\ totalCount \in Nat /\ writerCount \in Nat
    /\ counted \in [Thread -> CounterPlaces]
    /\ writeHint \in [Thread -> BOOLEAN]

CountedThreads == {t \in Thread : Counted(t)}

CountedWriters == {t \in Thread : Counted(t) /\ writeHint[t]}

WaitingNormals == {t \in Thread : counted[t] \in {"waitNormal", "wokenNormal"}}

WaitingWriters == {t \in Thread : counted[t] \in {"waitWriter", "wokenWriter"}}

\* The queue q holds each thread of S once and no other.
Queued(q, S) ==
    /\ q \in Seq(Thread)
    /\ \A t \in S : \E i \in DOMAIN q : q[i] = t
    /\ \A i \in DOMAIN q : q[i] \in S
    /\ \A i, j \in DOMAIN q : q[i] = q[j] => i = j

\* Only the first of a queue is ever woken.
FirstWoken(q, woken) == \A t \in Thread : counted[t] = woken => Head(q) = t

QueuesAreWaiting ==
    /\ Queued(pendingNormals, WaitingNormals)
    /\ Queued(pendingWriters, WaitingWriters)
    /\ FirstWoken(pendingNormals, "wokenNormal")
    /\ FirstWoken(pendingWriters, "wokenWriter")

WritersMeanToWrite == \A t \in WaitingWriters : writeHint[t]

\* While a thread waits for a writer's place there is a writer to give one back,
\* or a woken one, or one that went on to wait for any handle.
WritersExpect ==
    (\E t \in Thread : counted[t] = "waitWriter") =>
        \/ writerCount > 0
        \/ \E t \in Thread : counted[t] = "wokenWriter"
        \/ \E t \in WaitingNormals : writeHint[t]

CounterInv ==
    /\ CounterTyped
    /\ CountersBounded
    /\ QueuesAreWaiting
    /\ WritersMeanToWrite
    /\ WritersExpect
    /\ NobodyStuck

-----------------------------------------------------------------------------
(* Queues.                                                                  *)

\* A thread that comes last.
LEMMA QueuedAppend ==
    ASSUME NEW q, NEW S, Queued(q, S), NEW t \in Thread, t \notin S
    PROVE  /\ Queued(Append(q, t), S \cup {t})
           /\ q # <<>> => Head(Append(q, t)) = Head(q)
<1> DEFINE r == Append(q, t)
<1>1. q \in Seq(Thread)
    BY DEF Queued
<1>2. /\ r \in Seq(Thread)
      /\ DOMAIN r = 1..(Len(q) + 1) /\ DOMAIN q = 1..Len(q) /\ Len(q) \in Nat
      /\ r[Len(q) + 1] = t
      /\ \A i \in DOMAIN q : r[i] = q[i]
    BY <1>1
<1>3. \A i \in DOMAIN r : i \in DOMAIN q \/ i = Len(q) + 1
    BY <1>2
<1>4. DOMAIN q \subseteq DOMAIN r /\ Len(q) + 1 \in DOMAIN r
    BY <1>2
<1>5. q # <<>> => Head(r) = Head(q)
    BY <1>1
<1> HIDE DEF r
<1>6. \A i \in DOMAIN q : q[i] # t
    BY DEF Queued
<1>7. \A u \in S \cup {t} : \E i \in DOMAIN r : r[i] = u
    BY <1>2, <1>4 DEF Queued
<1>8. \A i \in DOMAIN r : r[i] \in S \cup {t}
    BY <1>2, <1>3 DEF Queued
<1>9. \A i, j \in DOMAIN r : r[i] = r[j] => i = j
    BY <1>2, <1>3, <1>6 DEF Queued
<1>10. Queued(r, S \cup {t})
    BY <1>2, <1>7, <1>8, <1>9 DEF Queued
<1> QED
    BY <1>5, <1>10 DEF r

\* The first leaves.
LEMMA QueuedTail ==
    ASSUME NEW q, NEW S, Queued(q, S), q # <<>>
    PROVE  Queued(Tail(q), S \ {Head(q)})
<1> DEFINE r == Tail(q)
           t == Head(q)
<1>1. q \in Seq(Thread)
    BY DEF Queued
<1>2. /\ r \in Seq(Thread)
      /\ DOMAIN r = 1..(Len(q) - 1) /\ DOMAIN q = 1..Len(q)
      /\ Len(q) \in Nat /\ Len(q) > 0
      /\ \A i \in DOMAIN r : r[i] = q[i + 1]
      /\ t = q[1]
    BY <1>1
<1> HIDE DEF r, t
<1>3. \A i \in DOMAIN r : i + 1 \in DOMAIN q /\ i + 1 # 1
    BY <1>2
<1>4. 1 \in DOMAIN q
    BY <1>2
<1>5. \A u \in S \ {t} : \E i \in DOMAIN r : r[i] = u
    <2> SUFFICES ASSUME NEW u \in S \ {t} PROVE \E i \in DOMAIN r : r[i] = u
        OBVIOUS
    <2>1. PICK j \in DOMAIN q : q[j] = u
        BY DEF Queued
    <2>2. j # 1
        BY <1>2, <2>1
    <2>3. j - 1 \in DOMAIN r /\ (j - 1) + 1 = j
        BY <1>2, <2>1, <2>2
    <2> QED BY <1>2, <2>1, <2>3
<1>6. \A i \in DOMAIN r : r[i] \in S \ {t}
    BY <1>2, <1>3, <1>4 DEF Queued
<1>7. \A i, j \in DOMAIN r : r[i] = r[j] => i = j
    <2> SUFFICES ASSUME NEW i \in DOMAIN r, NEW j \in DOMAIN r, r[i] = r[j]
                 PROVE  i = j
        OBVIOUS
    <2>1. i + 1 = j + 1
        BY <1>2, <1>3 DEF Queued
    <2> QED BY <1>2, <2>1
<1>8. Queued(r, S \ {t})
    BY <1>2, <1>5, <1>6, <1>7 DEF Queued
<1> QED
    BY <1>8 DEF r, t

\* A queue is empty if nobody waits in it, and its first waits in it.
LEMMA QueuedHead ==
    ASSUME NEW q, NEW S, Queued(q, S)
    PROVE  /\ S # {} => q # <<>>
           /\ q # <<>> => Head(q) \in S
<1>1. q \in Seq(Thread)
    BY DEF Queued
<1>2. ASSUME q # <<>> PROVE 1 \in DOMAIN q /\ Head(q) = q[1]
    BY <1>1, <1>2
<1>3. S # {} => q # <<>>
    BY DEF Queued
<1> QED
    BY <1>2, <1>3 DEF Queued

-----------------------------------------------------------------------------
(* Counting.                                                                *)

\* The counted threads are finitely many, and there are some unless the count is 0.
LEMMA CountedFinite ==
    ASSUME CountersBounded
    PROVE  /\ IsFiniteSet(CountedThreads) /\ totalCount = Cardinality(CountedThreads)
           /\ IsFiniteSet(CountedWriters) /\ writerCount = Cardinality(CountedWriters)
           /\ totalCount > 0 => CountedThreads # {}
           /\ writerCount > 0 => CountedWriters # {}
           /\ CountedWriters # {} => writerCount > 0
<1>1. CountedThreads \in SUBSET Thread /\ CountedWriters \in SUBSET Thread
    BY DEF CountedThreads, CountedWriters
<1>2. IsFiniteSet(CountedThreads) /\ IsFiniteSet(CountedWriters)
    BY <1>1, CounterAssumption, FS_Subset
<1>3. totalCount = Cardinality(CountedThreads) /\ writerCount = Cardinality(CountedWriters)
    BY DEF CountersBounded, CountedThreads, CountedWriters
<1>4. writerCount \in Nat
    BY <1>2, <1>3, FS_CardinalityType
<1> QED
    BY <1>2, <1>3, <1>4, FS_EmptySet

\* One more place taken.
LEMMA TakeCounts ==
    ASSUME CounterTyped, CountersBounded, NEW t \in Thread, ~Counted(t),
           NEW write \in BOOLEAN, ~Full, ~WritersFull(write),
           writeHint' = [writeHint EXCEPT ![t] = write],
           NEW normals, NEW writers, Take(t, write, normals, writers)
    PROVE  CounterTyped' /\ CountersBounded'
<1>1. /\ CountedThreads' = CountedThreads \cup {t} /\ t \notin CountedThreads
      /\ t \notin CountedWriters
      /\ CountedWriters' = IF write THEN CountedWriters \cup {t} ELSE CountedWriters
    BY DEF CounterTyped, Take, Counted, CountedThreads, CountedWriters
<1>2. totalCount' = Cardinality(CountedThreads')
    <2>1. Cardinality(CountedThreads \cup {t}) = Cardinality(CountedThreads) + 1
        BY <1>1, CountedFinite, FS_AddElement
    <2> QED BY <1>1, <2>1, CountedFinite DEF Take
<1>3. writerCount' = Cardinality(CountedWriters')
    <2>1. Cardinality(CountedWriters \cup {t}) = Cardinality(CountedWriters) + 1
        BY <1>1, CountedFinite, FS_AddElement
    <2> QED BY <1>1, <2>1, CountedFinite DEF Take
<1>4. totalCount' <= MaxHandles /\ writerCount' <= MaxWriters
    BY CounterAssumption DEF Take, Full, WritersFull, CountersBounded, CounterTyped
<1>5. CounterTyped'
    BY DEF CounterTyped, Take, CounterPlaces
<1> QED
    BY <1>2, <1>3, <1>4, <1>5 DEF CountersBounded, CountedThreads, CountedWriters

\* Threads that do not hold a place may change theirs among the other places.
LEMMA OthersCount ==
    ASSUME CounterTyped, CountersBounded, UNCHANGED <<totalCount, writerCount>>,
           counted' \in [Thread -> CounterPlaces], writeHint' \in [Thread -> BOOLEAN],
           \A u \in Thread : /\ counted'[u] = "yes" <=> counted[u] = "yes"
                             /\ counted[u] = "yes" => writeHint'[u] = writeHint[u]
    PROVE  CounterTyped' /\ CountersBounded'
<1>1. CountedThreads' = CountedThreads /\ CountedWriters' = CountedWriters
    BY DEF CountedThreads, CountedWriters, Counted
<1> QED
    BY <1>1 DEF CounterTyped, CountersBounded, CountedThreads, CountedWriters

-----------------------------------------------------------------------------
(* Taking a place, or waiting for one.                                      *)

\* What is left of the queues without thread t.
QueuesWithout(t, normals, writers) ==
    /\ Queued(normals, WaitingNormals \ {t})
    /\ Queued(writers, WaitingWriters \ {t})
    /\ \A u \in Thread \ {t} : counted[u] = "wokenNormal" => Head(normals) = u
    /\ \A u \in Thread \ {t} : counted[u] = "wokenWriter" => Head(writers) = u

\* Whichever limit it looks at first, a thread waits in the queue of a limit that
\* is reached, is refused, or takes a place within both.
LEMMA Outcomes ==
    ASSUME NEW t, NEW waits \in BOOLEAN, NEW write \in BOOLEAN, NEW normals, NEW writers,
           \/ LookForHandle(t, waits, write, normals, writers)
           \/ LookForWriter(t, waits, write, normals, writers)
    PROVE  \/ Full /\ waits /\ WaitNormal(t, waits, normals, writers)
           \/ WritersFull(write) /\ waits /\ WaitWriter(t, waits, normals, writers)
           \/ ~waits /\ Refuse(t, normals, writers)
           \/ ~Full /\ ~WritersFull(write) /\ Take(t, write, normals, writers)
BY DEF LookForHandle, LookForWriter, WaitNormal, WaitWriter

\* A thread, not in a queue any more, looks for a place: it may have been notified,
\* and then it is one that waits and keeps its hint.
LEMMA LookKeeps ==
    ASSUME CounterInv, NEW t \in Thread, NEW waits \in BOOLEAN, NEW write \in BOOLEAN,
           counted[t] \in {"no", "wokenNormal", "wokenWriter"},
           counted[t] # "no" => waits /\ write = writeHint[t],
           writeHint' = [writeHint EXCEPT ![t] = write],
           NEW normals, NEW writers, QueuesWithout(t, normals, writers),
           \/ LookForHandle(t, waits, write, normals, writers)
           \/ LookForWriter(t, waits, write, normals, writers)
    PROVE  CounterInv'
<1> USE DEF CounterInv, QueuesWithout
<1>0. /\ writeHint' \in [Thread -> BOOLEAN] /\ writeHint'[t] = write
      /\ \A u \in Thread : u # t => writeHint'[u] = writeHint[u]
    BY DEF CounterTyped
<1>m. ASSUME NEW p \in CounterPlaces, counted' = [counted EXCEPT ![t] = p]
      PROVE  /\ counted' \in [Thread -> CounterPlaces] /\ counted'[t] = p
             /\ \A u \in Thread : u # t => counted'[u] = counted[u]
    BY <1>m DEF CounterTyped
<1>1. CASE Full /\ waits /\ WaitNormal(t, waits, normals, writers)
    <2>1. /\ pendingNormals' = Append(normals, t) /\ pendingWriters' = writers
          /\ counted' = [counted EXCEPT ![t] = "waitNormal"]
          /\ UNCHANGED <<totalCount, writerCount>>
        BY <1>1 DEF WaitNormal
    <2>2. /\ counted' \in [Thread -> CounterPlaces] /\ counted'[t] = "waitNormal"
          /\ \A u \in Thread : u # t => counted'[u] = counted[u]
        BY <1>m, <2>1 DEF CounterPlaces
    <2>3. CounterTyped' /\ CountersBounded'
        BY <1>0, <2>1, <2>2, OthersCount
    <2>4. /\ WaitingNormals' = (WaitingNormals \ {t}) \cup {t}
          /\ WaitingWriters' = WaitingWriters \ {t}
        BY <2>2 DEF WaitingNormals, WaitingWriters
    <2>5. /\ Queued(pendingNormals', WaitingNormals')
          /\ Queued(pendingWriters', WaitingWriters')
          /\ normals # <<>> => Head(pendingNormals') = Head(normals)
        BY <2>1, <2>4, QueuedAppend
    <2>6. FirstWoken(pendingNormals, "wokenNormal")'
        <3> SUFFICES ASSUME NEW u \in Thread, counted'[u] = "wokenNormal"
                     PROVE  Head(pendingNormals') = u
            BY DEF FirstWoken
        <3>1. u # t /\ counted[u] = "wokenNormal"
            BY <2>2
        <3>2. u \in WaitingNormals \ {t}
            BY <3>1 DEF WaitingNormals
        <3> QED BY <2>5, <3>1, <3>2, QueuedHead
    <2>7. FirstWoken(pendingWriters, "wokenWriter")'
        BY <2>1, <2>2 DEF FirstWoken
    <2>8. WritersMeanToWrite'
        BY <1>0, <2>4 DEF WritersMeanToWrite
    <2>9. WritersExpect'
        <3> SUFFICES ASSUME NEW v \in Thread, counted'[v] = "waitWriter"
                     PROVE  \/ writerCount' > 0
                            \/ \E u \in Thread : counted'[u] = "wokenWriter"
                            \/ \E u \in WaitingNormals' : writeHint'[u]
            BY DEF WritersExpect
        <3>1. counted[v] = "waitWriter"
            BY <2>2
        <3>2. CASE writerCount > 0
            BY <2>1, <3>2
        <3>3. ASSUME NEW u \in Thread, counted[u] = "wokenWriter"
              PROVE  \/ counted'[u] = "wokenWriter"
                     \/ u \in WaitingNormals' /\ writeHint'[u]
            BY <1>0, <2>2, <2>4, <3>3 DEF WritersMeanToWrite, WaitingWriters
        <3>4. ASSUME NEW u \in WaitingNormals, writeHint[u]
              PROVE  u \in WaitingNormals' /\ writeHint'[u]
            BY <1>0, <2>4, <3>4 DEF WaitingNormals
        <3> QED BY <3>1, <3>2, <3>3, <3>4 DEF WritersExpect
    <2>10. NobodyStuck'
        <3>1. totalCount > 0
            BY <1>1, CounterAssumption DEF Full, CounterTyped
        <3>2. PICK u \in Thread : Counted(u)
            BY <3>1, CountedFinite DEF CountedThreads
        <3>3. Counted(u)'
            BY <2>2, <3>2 DEF Counted
        <3> QED BY <3>3 DEF NobodyStuck
    <2> QED BY <2>3, <2>5, <2>6, <2>7, <2>8, <2>9, <2>10 DEF QueuesAreWaiting
<1>2. CASE WritersFull(write) /\ waits /\ WaitWriter(t, waits, normals, writers)
    <2>1. /\ pendingWriters' = Append(writers, t) /\ pendingNormals' = normals
          /\ counted' = [counted EXCEPT ![t] = "waitWriter"]
          /\ UNCHANGED <<totalCount, writerCount>>
        BY <1>2 DEF WaitWriter
    <2>2. /\ counted' \in [Thread -> CounterPlaces] /\ counted'[t] = "waitWriter"
          /\ \A u \in Thread : u # t => counted'[u] = counted[u]
        BY <1>m, <2>1 DEF CounterPlaces
    <2>3. CounterTyped' /\ CountersBounded'
        BY <1>0, <2>1, <2>2, OthersCount
    <2>4. /\ WaitingWriters' = (WaitingWriters \ {t}) \cup {t}
          /\ WaitingNormals' = WaitingNormals \ {t}
        BY <2>2 DEF WaitingNormals, WaitingWriters
    <2>5. /\ Queued(pendingNormals', WaitingNormals')
          /\ Queued(pendingWriters', WaitingWriters')
          /\ writers # <<>> => Head(pendingWriters') = Head(writers)
        BY <2>1, <2>4, QueuedAppend
    <2>6. FirstWoken(pendingWriters, "wokenWriter")'
        <3> SUFFICES ASSUME NEW u \in Thread, counted'[u] = "wokenWriter"
                     PROVE  Head(pendingWriters') = u
            BY DEF FirstWoken
        <3>1. u # t /\ counted[u] = "wokenWriter"
            BY <2>2
        <3>2. u \in WaitingWriters \ {t}
            BY <3>1 DEF WaitingWriters
        <3> QED BY <2>5, <3>1, <3>2, QueuedHead
    <2>7. FirstWoken(pendingNormals, "wokenNormal")'
        BY <2>1, <2>2 DEF FirstWoken
    <2>8. WritersMeanToWrite'
        BY <1>0, <1>2, <2>4 DEF WritersMeanToWrite, WritersFull
    <2>9. writerCount' > 0
        BY <1>2, <2>1, CounterAssumption DEF WritersFull, CounterTyped
    <2>10. NobodyStuck'
        <3>1. PICK u \in Thread : Counted(u)
            BY <2>1, <2>9, CountedFinite DEF CountedWriters
        <3>2. Counted(u)'
            BY <2>2, <3>1 DEF Counted
        <3> QED BY <3>2 DEF NobodyStuck
    <2> QED BY <2>3, <2>5, <2>6, <2>7, <2>8, <2>9, <2>10 DEF QueuesAreWaiting, WritersExpect
<1>3. CASE ~waits /\ Refuse(t, normals, writers)
    <2>1. /\ pendingNormals' = normals /\ pendingWriters' = writers
          /\ counted' = [counted EXCEPT ![t] = "refused"]
          /\ UNCHANGED <<totalCount, writerCount>>
          /\ counted[t] = "no"
        BY <1>3 DEF Refuse
    <2>2. /\ counted' \in [Thread -> CounterPlaces] /\ counted'[t] = "refused"
          /\ \A u \in Thread : u # t => counted'[u] = counted[u]
        BY <1>m, <2>1 DEF CounterPlaces
    <2>3. CounterTyped' /\ CountersBounded'
        BY <1>0, <2>1, <2>2, OthersCount
    <2>4. /\ WaitingNormals' = WaitingNormals \ {t} /\ t \notin WaitingNormals
          /\ WaitingWriters' = WaitingWriters \ {t}
        BY <2>1, <2>2 DEF WaitingNormals, WaitingWriters
    <2>5. QueuesAreWaiting'
        BY <2>1, <2>2, <2>4 DEF QueuesAreWaiting, FirstWoken
    <2>6. WritersMeanToWrite' /\ WritersExpect' /\ NobodyStuck'
        BY <1>0, <2>1, <2>2, <2>4
        DEF WritersMeanToWrite, WritersExpect, NobodyStuck, Waits, Counted
    <2> QED BY <2>3, <2>5, <2>6
<1>4. CASE ~Full /\ ~WritersFull(write) /\ Take(t, write, normals, writers)
    <2>1. /\ pendingNormals' = normals /\ pendingWriters' = writers
          /\ counted' = [counted EXCEPT ![t] = "yes"]
          /\ writerCount' = IF write THEN writerCount + 1 ELSE writerCount
        BY <1>4 DEF Take
    <2>2. /\ counted' \in [Thread -> CounterPlaces] /\ counted'[t] = "yes"
          /\ \A u \in Thread : u # t => counted'[u] = counted[u]
        BY <1>m, <2>1 DEF CounterPlaces
    <2>3. CounterTyped' /\ CountersBounded'
        BY <1>0, <1>4, TakeCounts DEF Counted
    <2>4. /\ WaitingNormals' = WaitingNormals \ {t}
          /\ WaitingWriters' = WaitingWriters \ {t}
        BY <2>2 DEF WaitingNormals, WaitingWriters
    <2>5. QueuesAreWaiting'
        BY <2>1, <2>2, <2>4 DEF QueuesAreWaiting, FirstWoken
    <2>6. WritersMeanToWrite'
        BY <1>0, <2>4 DEF WritersMeanToWrite
    <2>7. WritersExpect'
        <3>1. CASE write
            BY <2>1, <3>1 DEF WritersExpect, CounterTyped
        <3>2. CASE ~write
            <4>1. counted[t] # "wokenWriter"
                BY <3>2 DEF WritersMeanToWrite, WaitingWriters
            <4>2. \A u \in WaitingNormals : writeHint[u] => u \in WaitingNormals' /\ writeHint'[u]
                BY <1>0, <2>4, <3>2 DEF WaitingNormals
            <4> QED BY <2>1, <2>2, <3>2, <4>1, <4>2 DEF WritersExpect
        <3> QED BY <3>1, <3>2
    <2>8. NobodyStuck'
        BY <2>2 DEF NobodyStuck, Counted
    <2> QED BY <2>3, <2>5, <2>6, <2>7, <2>8
<1> QED
    BY <1>1, <1>2, <1>3, <1>4, Outcomes

\* Counting a handle, or joining those who wait.
LEMMA TryIncreaseKeeps ==
    ASSUME CounterInv, NEW t \in Thread, NEW waits \in BOOLEAN, NEW write \in BOOLEAN,
           TryIncrease(t, waits, write)
    PROVE  CounterInv'
<1>1. counted[t] = "no" /\ t \notin WaitingNormals /\ t \notin WaitingWriters
    BY DEF TryIncrease, WaitingNormals, WaitingWriters
<1>2. WaitingNormals \ {t} = WaitingNormals /\ WaitingWriters \ {t} = WaitingWriters
    BY <1>1
<1>3. QueuesWithout(t, pendingNormals, pendingWriters)
    BY <1>2 DEF CounterInv, QueuesAreWaiting, FirstWoken, QueuesWithout
<1> QED
    BY <1>1, <1>3, LookKeeps DEF TryIncrease

\* wait() returned: the thread takes its place or waits again.
LEMMA GoOnKeeps ==
    ASSUME CounterInv, NEW t \in Thread, GoOn(t)
    PROVE  CounterInv'
<1> DEFINE write == writeHint[t]
<1>0. write \in BOOLEAN /\ writeHint' = [writeHint EXCEPT ![t] = write]
    BY DEF CounterInv, CounterTyped, GoOn, GoOnNormal, GoOnWriter
<1>1. CASE GoOnNormal(t)
    <2>1. counted[t] = "wokenNormal" /\ t \in WaitingNormals /\ WaitingWriters \ {t} = WaitingWriters
        BY <1>1 DEF GoOnNormal, WaitingNormals, WaitingWriters
    <2>2. pendingNormals # <<>> /\ Head(pendingNormals) = t
        BY <2>1, QueuedHead DEF CounterInv, QueuesAreWaiting, FirstWoken
    <2>3. /\ Queued(Tail(pendingNormals), WaitingNormals \ {t})
          /\ Queued(pendingWriters, WaitingWriters \ {t})
        BY <2>1, <2>2, QueuedTail DEF CounterInv, QueuesAreWaiting
    <2>4. QueuesWithout(t, Tail(pendingNormals), pendingWriters)
        BY <2>2, <2>3 DEF CounterInv, QueuesAreWaiting, FirstWoken, QueuesWithout
    <2>5. LookForHandle(t, TRUE, write, Tail(pendingNormals), pendingWriters)
        BY <1>1 DEF GoOnNormal
    <2> QED BY <1>0, <2>1, <2>4, <2>5, LookKeeps
<1>2. CASE GoOnWriter(t)
    <2>1. counted[t] = "wokenWriter" /\ t \in WaitingWriters /\ WaitingNormals \ {t} = WaitingNormals
        BY <1>2 DEF GoOnWriter, WaitingNormals, WaitingWriters
    <2>2. pendingWriters # <<>> /\ Head(pendingWriters) = t
        BY <2>1, QueuedHead DEF CounterInv, QueuesAreWaiting, FirstWoken
    <2>3. /\ Queued(Tail(pendingWriters), WaitingWriters \ {t})
          /\ Queued(pendingNormals, WaitingNormals \ {t})
        BY <2>1, <2>2, QueuedTail DEF CounterInv, QueuesAreWaiting
    <2>4. QueuesWithout(t, pendingNormals, Tail(pendingWriters))
        BY <2>2, <2>3 DEF CounterInv, QueuesAreWaiting, FirstWoken, QueuesWithout
    <2>5. LookForWriter(t, TRUE, write, pendingNormals, Tail(pendingWriters))
        BY <1>2 DEF GoOnWriter
    <2> QED BY <1>0, <2>1, <2>4, <2>5, LookKeeps
<1> QED
    BY <1>1, <1>2 DEF GoOn

-----------------------------------------------------------------------------
(* Giving a place back.                                                     *)

\* The counter refused, and the thread leaves it.
LEMMA RefusedKeeps ==
    ASSUME CounterInv, NEW t \in Thread, Refused(t)
    PROVE  CounterInv'
<1> USE DEF CounterInv
<1>1. /\ counted[t] = "refused" /\ counted'[t] = "no"
      /\ counted' \in [Thread -> CounterPlaces] /\ writeHint' \in [Thread -> BOOLEAN]
      /\ \A u \in Thread : u # t => counted'[u] = counted[u] /\ writeHint'[u] = writeHint[u]
      /\ UNCHANGED <<totalCount, writerCount, pendingNormals, pendingWriters>>
    BY DEF Refused, CounterTyped, CounterPlaces
<1>2. CounterTyped' /\ CountersBounded'
    BY <1>1, OthersCount
<1>3. WaitingNormals' = WaitingNormals /\ WaitingWriters' = WaitingWriters
      /\ t \notin WaitingNormals /\ t \notin WaitingWriters
    BY <1>1 DEF WaitingNormals, WaitingWriters
<1>4. QueuesAreWaiting'
    BY <1>1, <1>3 DEF QueuesAreWaiting, FirstWoken
<1>5. WritersMeanToWrite' /\ WritersExpect' /\ NobodyStuck'
    BY <1>1, <1>3 DEF WritersMeanToWrite, WritersExpect, NobodyStuck, Waits, Counted, WaitingNormals, WaitingWriters
<1> QED
    BY <1>2, <1>4, <1>5

\* A thread without a place may change what it means to do.
LEMMA HintKeeps ==
    ASSUME CounterInv, NEW t \in Thread, counted[t] = "no", NEW write \in BOOLEAN,
           writeHint' = [writeHint EXCEPT ![t] = write],
           UNCHANGED <<totalCount, writerCount, pendingNormals, pendingWriters, counted>>
    PROVE  CounterInv'
<1> USE DEF CounterInv
<1>1. /\ counted \in [Thread -> CounterPlaces] /\ writeHint' \in [Thread -> BOOLEAN]
      /\ \A u \in Thread : u # t => writeHint'[u] = writeHint[u]
    BY DEF CounterTyped
<1>2. CounterTyped' /\ CountersBounded'
    BY <1>1, OthersCount
<1>3. WaitingNormals' = WaitingNormals /\ WaitingWriters' = WaitingWriters
      /\ t \notin WaitingNormals /\ t \notin WaitingWriters
    BY DEF WaitingNormals, WaitingWriters
<1>4. QueuesAreWaiting'
    BY <1>3 DEF QueuesAreWaiting, FirstWoken
<1>5. WritersMeanToWrite' /\ WritersExpect' /\ NobodyStuck'
    BY <1>1, <1>3 DEF WritersMeanToWrite, WritersExpect, NobodyStuck, Waits, Counted
<1> QED
    BY <1>2, <1>4, <1>5

\* Nothing is counted at the start.
LEMMA InitCounts == CounterInit => CounterInv
<1> SUFFICES ASSUME CounterInit PROVE CounterInv
    OBVIOUS
<1>1. CounterTyped
    BY DEF CounterInit, CounterTyped, CounterPlaces
<1>2. /\ \A t \in Thread : ~Counted(t)
      /\ WaitingNormals = {} /\ WaitingWriters = {}
    BY DEF CounterInit, Counted, WaitingNormals, WaitingWriters
<1>3. CountersBounded
    <2>1. CountedThreads = {} /\ CountedWriters = {}
        BY <1>2 DEF CountedThreads, CountedWriters
    <2>2. totalCount = 0 /\ writerCount = 0 /\ 0 <= MaxHandles /\ 0 <= MaxWriters
        BY CounterAssumption DEF CounterInit
    <2>3. Cardinality(CountedThreads) = 0 /\ Cardinality(CountedWriters) = 0
        BY <2>1, FS_EmptySet
    <2> QED BY <2>2, <2>3 DEF CountersBounded, CountedThreads, CountedWriters
<1>4. QueuesAreWaiting
    BY <1>2 DEF QueuesAreWaiting, Queued, FirstWoken, CounterInit
<1>5. WritersMeanToWrite /\ WritersExpect /\ NobodyStuck
    BY <1>2 DEF WritersMeanToWrite, WritersExpect, NobodyStuck, Waits, CounterInit
<1> QED
    BY <1>1, <1>3, <1>4, <1>5 DEF CounterInv

\* Notifying a thread that waits only makes it woken.
LEMMA NotifiedWaits ==
    ASSUME NEW places \in [Thread -> CounterPlaces], NEW h \in Thread,
           NEW w \in {"waitNormal", "waitWriter"},
           NEW k \in {"wokenNormal", "wokenWriter"},
           NEW p, p = Notified(places, h, w, k)
    PROVE  /\ p \in [Thread -> CounterPlaces]
           /\ \A u \in Thread : p[u] = IF u = h /\ places[h] = w THEN k ELSE places[u]
BY DEF Notified, CounterPlaces

\* A place goes back: one count less, and the first of one queue is woken if it waits.
LEMMA DecreaseKeeps ==
    ASSUME CounterInv, NEW t \in Thread, Decrease(t)
    PROVE  CounterInv'
<1> USE DEF CounterInv
<1> DEFINE places == [counted EXCEPT ![t] = "no"]
<1>1. /\ places \in [Thread -> CounterPlaces] /\ places[t] = "no" /\ counted[t] = "yes"
      /\ \A u \in Thread : u # t => places[u] = counted[u]
      /\ counted' = Wakes(writeHint[t], places)
      /\ writeHint[t] \in BOOLEAN /\ writeHint' \in [Thread -> BOOLEAN]
      /\ \A u \in Thread : u # t => writeHint'[u] = writeHint[u]
      /\ UNCHANGED <<pendingNormals, pendingWriters>>
    BY DEF Decrease, CounterTyped, CounterPlaces
<1> HIDE DEF places
<1>2. /\ pendingWriters # <<>> => Head(pendingWriters) \in WaitingWriters
      /\ pendingNormals # <<>> => Head(pendingNormals) \in WaitingNormals
      /\ WaitingWriters # {} => pendingWriters # <<>>
      /\ WaitingNormals # {} => pendingNormals # <<>>
    BY QueuedHead DEF QueuesAreWaiting
<1>3. ASSUME writeHint[t], pendingWriters # <<>>
      PROVE  /\ counted' \in [Thread -> CounterPlaces]
             /\ \A u \in Thread : counted'[u] = IF u = Head(pendingWriters) /\ counted[u] = "waitWriter"
                                                THEN "wokenWriter" ELSE places[u]
    <2>1. counted' = Notified(places, Head(pendingWriters), "waitWriter", "wokenWriter")
        BY <1>1, <1>3 DEF Wakes
    <2>2. Head(pendingWriters) \in Thread
        BY <1>2, <1>3 DEF WaitingWriters
    <2> QED BY <1>1, <2>1, <2>2, NotifiedWaits
<1>4. ASSUME ~(writeHint[t] /\ pendingWriters # <<>>), pendingNormals # <<>>
      PROVE  /\ counted' \in [Thread -> CounterPlaces]
             /\ \A u \in Thread : counted'[u] = IF u = Head(pendingNormals) /\ counted[u] = "waitNormal"
                                                THEN "wokenNormal" ELSE places[u]
    <2>1. counted' = Notified(places, Head(pendingNormals), "waitNormal", "wokenNormal")
        BY <1>1, <1>4 DEF Wakes
    <2>2. Head(pendingNormals) \in Thread
        BY <1>2, <1>4 DEF WaitingNormals
    <2> QED BY <1>1, <2>1, <2>2, NotifiedWaits
<1>5. ASSUME ~(writeHint[t] /\ pendingWriters # <<>>), pendingNormals = <<>>
      PROVE  counted' = places
    BY <1>1, <1>5 DEF Wakes
<1>6. /\ counted' \in [Thread -> CounterPlaces]
      /\ counted'[t] = "no"
      /\ \A u \in Thread : u # t =>
            \/ counted'[u] = counted[u]
            \/ /\ counted[u] = "waitWriter" /\ counted'[u] = "wokenWriter"
               /\ u = Head(pendingWriters)
            \/ /\ counted[u] = "waitNormal" /\ counted'[u] = "wokenNormal"
               /\ u = Head(pendingNormals)
    BY <1>1, <1>3, <1>4, <1>5
<1>7. WaitingNormals' = WaitingNormals /\ WaitingWriters' = WaitingWriters
      /\ t \notin WaitingNormals /\ t \notin WaitingWriters
    BY <1>1, <1>6 DEF WaitingNormals, WaitingWriters
<1>8. /\ CountedThreads' = CountedThreads \ {t} /\ t \in CountedThreads
      /\ CountedWriters' = CountedWriters \ {t}
      /\ t \in CountedWriters <=> writeHint[t]
    BY <1>1, <1>6 DEF CountedThreads, CountedWriters, Counted
<1>9. CounterTyped' /\ CountersBounded'
    <2>1. totalCount' = Cardinality(CountedThreads') /\ IsFiniteSet(CountedThreads')
        BY <1>8, CountedFinite, FS_RemoveElement DEF Decrease
    <2>2. writerCount' = Cardinality(CountedWriters') /\ IsFiniteSet(CountedWriters')
        <3>1. /\ IsFiniteSet(CountedWriters \ {t})
              /\ Cardinality(CountedWriters \ {t}) =
                    IF t \in CountedWriters THEN Cardinality(CountedWriters) - 1
                    ELSE Cardinality(CountedWriters)
            BY CountedFinite, FS_RemoveElement
        <3>2. writerCount' = IF writeHint[t] THEN writerCount - 1 ELSE writerCount
            BY DEF Decrease
        <3> QED BY <1>8, <3>1, <3>2, CountedFinite
    <2>3. totalCount' \in Nat /\ writerCount' \in Nat
        BY <2>1, <2>2, FS_CardinalityType
    <2>4. totalCount' <= MaxHandles /\ writerCount' <= MaxWriters
        BY <2>3, CounterAssumption DEF Decrease, CountersBounded, CounterTyped
    <2> QED BY <1>1, <1>6, <2>1, <2>2, <2>3, <2>4
            DEF CounterTyped, CountersBounded, CountedThreads, CountedWriters
<1>10. QueuesAreWaiting'
    BY <1>1, <1>6, <1>7 DEF QueuesAreWaiting, FirstWoken
<1>11. WritersMeanToWrite'
    BY <1>1, <1>7 DEF WritersMeanToWrite, WaitingWriters
<1>12. WritersExpect'
    <2> SUFFICES ASSUME NEW v \in Thread, counted'[v] = "waitWriter"
                 PROVE  \/ writerCount' > 0
                        \/ \E u \in Thread : counted'[u] = "wokenWriter"
                        \/ \E u \in WaitingNormals' : writeHint'[u]
        BY DEF WritersExpect
    <2>1. counted[v] = "waitWriter" /\ v \in WaitingWriters /\ v # t
        BY <1>6 DEF WaitingWriters
    <2>2. CASE writeHint[t]
        <3>1. pendingWriters # <<>> /\ Head(pendingWriters) \in WaitingWriters
            BY <1>2, <2>1
        <3>2. counted'[Head(pendingWriters)] = "wokenWriter"
            BY <1>1, <1>3, <1>7, <2>2, <3>1 DEF WaitingWriters
        <3> QED BY <3>1, <3>2 DEF WaitingWriters
    <2>3. CASE ~writeHint[t]
        <3>1. writerCount' = writerCount
            BY <2>3 DEF Decrease
        <3>2. \A u \in Thread : counted[u] = "wokenWriter" => counted'[u] = "wokenWriter"
            BY <1>1, <1>6
        <3>3. \A u \in WaitingNormals : writeHint[u] => u \in WaitingNormals' /\ writeHint'[u]
            BY <1>1, <1>7 DEF WaitingNormals
        <3> QED BY <2>1, <3>1, <3>2, <3>3 DEF WritersExpect
    <2> QED BY <1>1, <2>2, <2>3
<1>13. NobodyStuck'
    <2> SUFFICES ASSUME NEW v \in Thread, Waits(v)',
                        \A u \in Thread : ~Counted(u)' /\ counted'[u] \notin {"wokenNormal", "wokenWriter"}
                 PROVE  FALSE
        BY DEF NobodyStuck
    <2>1. \A u \in Thread : u # t => counted'[u] = counted[u] /\ ~Counted(u)
        BY <1>6 DEF Counted
    <2>2. v # t /\ Waits(v)
        BY <1>6, <2>1 DEF Waits
    <2>3. \A u \in Thread : counted[u] \notin {"wokenNormal", "wokenWriter"}
        BY <1>1, <2>1
    <2>4. ~(writeHint[t] /\ pendingWriters # <<>>)
        <3> SUFFICES ASSUME writeHint[t], pendingWriters # <<>> PROVE FALSE
            OBVIOUS
        <3>1. Head(pendingWriters) \in Thread /\ counted[Head(pendingWriters)] = "waitWriter"
            BY <1>2, <2>3 DEF WaitingWriters
        <3> QED BY <1>3, <3>1
    <2>5. pendingNormals = <<>>
        <3> SUFFICES ASSUME pendingNormals # <<>> PROVE FALSE
            OBVIOUS
        <3>1. Head(pendingNormals) \in Thread /\ counted[Head(pendingNormals)] = "waitNormal"
            BY <1>2, <2>3 DEF WaitingNormals
        <3> QED BY <1>4, <2>4, <3>1
    <2>6. counted[v] = "waitWriter" /\ WaitingNormals = {}
        BY <1>2, <2>2, <2>5 DEF Waits, WaitingNormals
    <2>7. v \in WaitingWriters
        BY <2>6 DEF WaitingWriters
    <2>8. ~writeHint[t]
        BY <1>1, <1>2, <2>4, <2>7
    <2>9. CountedWriters = {}
        BY <2>1, <2>8 DEF CountedWriters
    <2>10. ~(writerCount > 0)
        BY <2>9, CountedFinite
    <2> QED BY <2>3, <2>6, <2>10 DEF WritersExpect
<1> QED
    BY <1>9, <1>10, <1>11, <1>12, <1>13

\* Looking for a place only moves the thread that looks.
LEMMA LookMoves ==
    ASSUME CounterInv, NEW t \in Thread,
           \/ \E waits, write \in BOOLEAN : TryIncrease(t, waits, write)
           \/ GoOn(t)
    PROVE  \E p \in {"waitNormal", "waitWriter", "refused", "yes"} :
               /\ counted' \in [Thread -> CounterPlaces] /\ counted'[t] = p
               /\ \A u \in Thread : u # t => counted'[u] = counted[u]
<1>1. \E p \in {"waitNormal", "waitWriter", "refused", "yes"} :
          counted' = [counted EXCEPT ![t] = p]
    BY DEF TryIncrease, GoOn, GoOnNormal, GoOnWriter, LookForHandle, LookForWriter,
        WaitNormal, WaitWriter, Refuse, Take
<1> QED
    BY <1>1 DEF CounterInv, CounterTyped, CounterPlaces

\* Notifying changes nothing but a thread that waits there.
LEMMA NotifiedMoves ==
    ASSUME NEW places \in [Thread -> CounterPlaces], NEW h, NEW w, NEW k, NEW u \in Thread
    PROVE  Notified(places, h, w, k)[u] = places[u] \/ places[u] = w
<1>1. CASE places[h] = w
    BY <1>1 DEF Notified
<1>2. CASE places[h] # w
    BY <1>2 DEF Notified
<1> QED
    BY <1>1, <1>2

\* Giving a place back moves threads that wait at most.
LEMMA DecreaseMoves ==
    ASSUME CounterInv, NEW t \in Thread, Decrease(t)
    PROVE  /\ counted[t] = "yes" /\ counted'[t] = "no"
           /\ \A u \in Thread : u # t =>
                 counted'[u] = counted[u] \/ counted[u] \in {"waitNormal", "waitWriter"}
<1> DEFINE places == [counted EXCEPT ![t] = "no"]
<1>1. /\ places \in [Thread -> CounterPlaces] /\ counted[t] = "yes"
      /\ places[t] = "no" /\ \A u \in Thread : u # t => places[u] = counted[u]
      /\ counted' = Wakes(writeHint[t], places)
    BY DEF Decrease, CounterInv, CounterTyped, CounterPlaces
<1> HIDE DEF places
<1>2. \A u \in Thread : \/ counted'[u] = places[u]
                        \/ places[u] \in {"waitNormal", "waitWriter"}
    <2> SUFFICES ASSUME NEW u \in Thread
                 PROVE  counted'[u] = places[u] \/ places[u] \in {"waitNormal", "waitWriter"}
        OBVIOUS
    <2>1. /\ \/ Notified(places, Head(pendingWriters), "waitWriter", "wokenWriter")[u] = places[u]
             \/ places[u] = "waitWriter"
          /\ \/ Notified(places, Head(pendingNormals), "waitNormal", "wokenNormal")[u] = places[u]
             \/ places[u] = "waitNormal"
        BY <1>1, NotifiedMoves
    <2> QED BY <1>1, <2>1 DEF Wakes
<1> QED
    BY <1>1, <1>2

\* As long as no thread wakes unasked, no thread waits for a handle once every handle
\* is back and no notified thread is about to go on, and the limits are kept.
THEOREM CounterInvariance ==
    ASSUME MaxSpurious = 0
    PROVE  CounterSpec => [](CounterInv /\ spurious = 0)
<1> DEFINE I == CounterInv /\ spurious = 0
<1>1. CounterInit => I
    BY InitCounts DEF CounterInit
<1>2. ASSUME I, CounterNext PROVE I'
    <2>1. PICK t \in Thread :
              \/ \E waits, write \in BOOLEAN : TryIncrease(t, waits, write)
              \/ GoOn(t) \/ Refused(t) \/ Decrease(t) \/ WakeSpuriously(t)
        BY <1>2 DEF CounterNext
    <2>2. ~WakeSpuriously(t)
        BY <1>2 DEF WakeSpuriously
    <2>3. CASE \E waits, write \in BOOLEAN : TryIncrease(t, waits, write)
        BY <1>2, <2>3, TryIncreaseKeeps DEF TryIncrease
    <2>4. CASE GoOn(t)
        BY <1>2, <2>4, GoOnKeeps DEF GoOn, GoOnNormal, GoOnWriter
    <2>5. CASE Refused(t)
        BY <1>2, <2>5, RefusedKeeps DEF Refused
    <2>6. CASE Decrease(t)
        BY <1>2, <2>6, DecreaseKeeps DEF Decrease
    <2> QED BY <2>1, <2>2, <2>3, <2>4, <2>5, <2>6
<1>3. ASSUME I, UNCHANGED counterVars PROVE I'
    BY <1>3 DEF counterVars, CounterInv, CounterTyped, CountersBounded, QueuesAreWaiting,
        FirstWoken, WritersMeanToWrite, WritersExpect, NobodyStuck, Waits, Counted,
        WaitingNormals, WaitingWriters
<1> QED
    BY <1>1, <1>2, <1>3, PTL DEF CounterSpec

-----------------------------------------------------------------------------
(* The handles of a database.                                               *)

PoolTyped ==
    /\ reads \in [Thread -> Nat] /\ writes \in [Thread -> Nat]
    /\ handles \in [Slot -> SUBSET Handle] /\ frees \in [Slot -> SUBSET Handle]
    /\ closed \in SUBSET Handle
    /\ held \in [Thread -> Handle \cup {NoHandle}]
    /\ taken \in [Thread -> Handle \cup {NoHandle}]
    /\ references \in [Thread -> Nat]
    /\ initialized \in BOOLEAN
    /\ at \in [Thread -> Places]
    /\ blocking \in [Thread -> {"no", "close", "blockade"}]

\* The holds of m_concurrency that a call has taken so far.
CallHolds(t) ==
    IF at[t] \in {"flowOut", "count", "unshare"} THEN 1
    ELSE IF at[t] \in {"generate", "reuse", "failed"} THEN 2 ELSE 0

\* A thread holds the lock once for its handle and for its call as far as it has
\* come, has a place in the counter while it has a handle or is about to get one, and
\* writes while it blocks the others.
CallFits(t) ==
    /\ reads[t] = (IF held[t] = NoHandle THEN 0 ELSE 1) + CallHolds(t)
    /\ writes[t] = (IF blocking[t] = "no" THEN 0 ELSE 1)
    /\ held[t] # NoHandle <=> references[t] > 0
    /\ held[t] # NoHandle => at[t] \in {"idle", "check", "flowOut", "suspend", "drain"}
    /\ taken[t] # NoHandle <=> at[t] = "reuse"
    /\ at[t] \in {"suspend", "drain", "queueToDrain", "queueToBlock"} => blocking[t] = "no"
    /\ IF held[t] # NoHandle \/ at[t] \in {"generate", "reuse", "failed", "unshare", "uncount"}
       THEN counted[t] = "yes"
       ELSE at[t] # "count" => counted[t] = "no"

CallsFit == \A t \in Thread : CallFits(t)

LockKept ==
    /\ \A t, u \in Thread : t # u /\ writes[t] > 0 => reads[u] = 0 /\ writes[u] = 0
    /\ \A t \in Thread : reads[t] > 0 => initialized

\* No handle is in two slots, open and closed, or free and not there.
HandlesApart ==
    /\ handles["normal"] \cap handles["auto"] = {}
    /\ \A s \in Slot : frees[s] \subseteq handles[s] /\ handles[s] \cap closed = {}

HandlesKept ==
    /\ HandlesApart
    /\ UsedAlone
    /\ NoneLost
    /\ ClosedIsEmpty
    /\ AliveBounded

PoolInv ==
    /\ CounterInv
    /\ PoolTyped
    /\ CallsFit
    /\ LockKept
    /\ HandlesKept

-----------------------------------------------------------------------------
(* What a step of one thread leaves to the others.                          *)

\* The other threads are where they were, but for those the counter notified.
OthersStay(t) ==
    \A u \in Thread : u # t =>
        /\ at'[u] = at[u] /\ held'[u] = held[u] /\ taken'[u] = taken[u]
        /\ references'[u] = references[u] /\ blocking'[u] = blocking[u]
        /\ reads'[u] = reads[u] /\ writes'[u] = writes[u]
        /\ counted'[u] = counted[u] \/ counted[u] \in {"waitNormal", "waitWriter"}

\* A step of one thread leaves the others where they were.
LEMMA OthersFit ==
    ASSUME CallsFit, NEW t \in Thread, OthersStay(t), CallFits(t)'
    PROVE  CallsFit'
<1> SUFFICES ASSUME NEW u \in Thread, u # t PROVE CallFits(u)'
    BY DEF CallsFit
<1>1. CallFits(u)
    BY DEF CallsFit
<1> QED
    BY <1>1 DEF OthersStay, CallFits, CallHolds

\* The counter in a step that leaves it alone.
LEMMA CounterStays ==
    ASSUME CounterInv, UNCHANGED counterVars
    PROVE  CounterInv'
BY DEF counterVars, CounterInv, CounterTyped, CountersBounded, QueuesAreWaiting,
    FirstWoken, WritersMeanToWrite, WritersExpect, NobodyStuck, Waits, Counted,
    WaitingNormals, WaitingWriters

\* The handles in a step that leaves them and their users alone.
LEMMA HandlesStay ==
    ASSUME HandlesKept, UNCHANGED <<handles, frees, closed, held, taken>>,
           initialized => initialized'
    PROVE  HandlesKept'
BY DEF HandlesKept, HandlesApart, UsedAlone, Uses, NoneLost, ClosedIsEmpty, AliveBounded, Alive

\* The lock in a step that leaves it alone.
LEMMA LockStays ==
    ASSUME LockKept, UNCHANGED <<reads, writes>>, initialized => initialized'
    PROVE  LockKept'
BY DEF LockKept

\* A thread that works with a handle holds the lock, so that the database is open.
LEMMA UsersHold ==
    ASSUME PoolInv, NEW t \in Thread, Uses(t) # {}
    PROVE  reads[t] > 0 /\ initialized
<1>1. CallFits(t)
    BY DEF PoolInv, CallsFit
<1>2. reads[t] > 0
    BY <1>1 DEF CallFits, CallHolds, Uses
<1> QED
    BY <1>2 DEF PoolInv, LockKept

\* The pool is empty at the start.
LEMMA InitKeeps == Init => PoolInv
<1> SUFFICES ASSUME Init PROVE PoolInv
    OBVIOUS
<1>1. CounterInv
    BY InitCounts DEF Init
<1>2. PoolTyped
    BY PoolAssumption DEF Init, PoolTyped, Places
<1>3. CallsFit
    BY DEF Init, CallsFit, CallFits, CallHolds, CounterInit
<1>4. LockKept
    BY DEF Init, LockKept
<1>5. Alive(handles) = {} /\ \A s \in Slot : handles[s] = {} /\ frees[s] = {}
    BY DEF Init, Alive
<1>6. \A t \in Thread : Uses(t) = {}
    BY DEF Init, Uses
<1>7. AliveBounded
    BY <1>5, FS_EmptySet, CounterAssumption DEF AliveBounded
<1>8. HandlesKept
    BY <1>5, <1>6, <1>7 DEF HandlesKept, HandlesApart, UsedAlone, NoneLost, ClosedIsEmpty, Slot
<1> QED
    BY <1>1, <1>2, <1>3, <1>4, <1>8 DEF PoolInv

-----------------------------------------------------------------------------
(* getHandle and flowOut.                                                   *)

\* A thread asks for a handle.
LEMMA GetHandleKeeps ==
    ASSUME PoolInv, NEW t \in Thread, NEW write \in BOOLEAN, GetHandle(t, write)
    PROVE  PoolInv'
<1> USE DEF PoolInv
<1>1. /\ at[t] = "idle" /\ at' = [at EXCEPT ![t] = "check"]
      /\ UNCHANGED <<counted, reads, writes, poolVars, threadVars, blocking>>
    BY DEF GetHandle, Goto, lockVars
<1>2. CounterInv'
    <2>1. CASE counted[t] = "no"
        BY <2>1, HintKeeps DEF GetHandle
    <2>2. CASE counted[t] # "no"
        <3>1. writeHint' = writeHint
            BY <2>2 DEF GetHandle, CounterInv, CounterTyped
        <3>2. UNCHANGED counterVars
            BY <3>1 DEF GetHandle, counterVars
        <3> QED BY <3>2, CounterStays
    <2> QED BY <2>1, <2>2
<1>3. PoolTyped'
    BY <1>1 DEF PoolTyped, poolVars, threadVars, Places
<1>4. CallFits(t)' /\ OthersStay(t)
    BY <1>1 DEF CallsFit, CallFits, CallHolds, OthersStay, poolVars, threadVars, PoolTyped
<1>5. CallsFit' /\ LockKept' /\ HandlesKept'
    BY <1>1, <1>4, OthersFit, LockStays, HandlesStay DEF poolVars, threadVars
<1> QED
    BY <1>2, <1>3, <1>5

\* initialize() looks whether the database is initialized.
LEMMA CheckKeeps ==
    ASSUME PoolInv, NEW t \in Thread, Check(t)
    PROVE  PoolInv'
<1> USE DEF PoolInv
<1>1. /\ at[t] = "check" /\ UNCHANGED <<counterVars, poolVars, threadVars, blocking>>
    BY DEF Check
<1>2. CounterInv' /\ HandlesKept'
    BY <1>1, CounterStays, HandlesStay DEF poolVars, threadVars
<1>3. CallFits(t)
    BY DEF CallsFit
<1>4. CASE initialized /\ LockShared(t) /\ Goto(t, "flowOut")
    <2>1. /\ at' = [at EXCEPT ![t] = "flowOut"] /\ reads' = [reads EXCEPT ![t] = @ + 1]
          /\ writes' = writes
          /\ \A u \in Thread \ {t} : writes[u] = 0
        BY <1>4 DEF Goto, LockShared, Concurrency!GrantRead
    <2>2. PoolTyped'
        BY <1>1, <2>1 DEF PoolTyped, poolVars, threadVars, Places
    <2>3. CallFits(t)' /\ OthersStay(t)
        BY <1>1, <1>3, <2>1 DEF CallFits, CallHolds, OthersStay, poolVars, threadVars,
            counterVars, PoolTyped
    <2>4. LockKept'
        BY <1>1, <1>4, <2>1 DEF LockKept, poolVars, PoolTyped
    <2> QED BY <1>2, <2>2, <2>3, <2>4, OthersFit
<1>5. CASE ~initialized /\ Visit(t) /\ Goto(t, "initialize")
    <2>1. at' = [at EXCEPT ![t] = "initialize"] /\ UNCHANGED <<reads, writes>>
        BY <1>5 DEF Goto, Visit, lockVars
    <2>2. PoolTyped'
        BY <1>1, <2>1 DEF PoolTyped, poolVars, threadVars, Places
    <2>3. held[t] = NoHandle
        BY <1>5, UsersHold DEF Uses
    <2>4. CallFits(t)' /\ OthersStay(t)
        BY <1>1, <1>3, <2>1, <2>3 DEF CallFits, CallHolds, OthersStay, poolVars, threadVars,
            counterVars, PoolTyped
    <2>5. LockKept'
        BY <1>1, <2>1, LockStays DEF poolVars
    <2> QED BY <1>2, <2>2, <2>4, <2>5, OthersFit
<1> QED
    BY <1>4, <1>5 DEF Check

\* A step that only moves a thread, outside its handles and holds.
LEMMA MoveKeeps ==
    ASSUME PoolInv, NEW t \in Thread, NEW place \in Places,
           at' = [at EXCEPT ![t] = place],
           UNCHANGED <<counterVars, reads, writes, threadVars, blocking>>,
           UNCHANGED <<handles, frees, closed>>,
           initialized' \in BOOLEAN, initialized => initialized',
           CallFits(t)'
    PROVE  PoolInv'
<1> USE DEF PoolInv
<1>1. PoolTyped'
    BY DEF PoolTyped, threadVars
<1>2. OthersStay(t)
    BY DEF OthersStay, threadVars, counterVars, PoolTyped
<1>3. CallsFit'
    BY <1>2, OthersFit
<1>4. CounterInv' /\ LockKept' /\ HandlesKept'
    BY CounterStays, LockStays, HandlesStay DEF threadVars
<1> QED
    BY <1>1, <1>3, <1>4

\* A thread that found the database not initialized queues to initialize it.
LEMMA InitializeKeeps ==
    ASSUME PoolInv, NEW t \in Thread, Initialize(t)
    PROVE  PoolInv'
<1>1. /\ at[t] = "initialize" /\ at' = [at EXCEPT ![t] = "queueToInitialize"]
      /\ UNCHANGED <<counterVars, reads, writes, poolVars, threadVars, blocking>>
    BY DEF Initialize, Enqueue, Goto
<1>2. CallFits(t)'
    BY <1>1 DEF PoolInv, CallsFit, CallFits, CallHolds, PoolTyped, threadVars, counterVars
<1> QED
    BY <1>1, <1>2, MoveKeeps DEF poolVars, Places, PoolInv, PoolTyped

\* Blocked initialization.
LEMMA InitializeBlockedKeeps ==
    ASSUME PoolInv, NEW t \in Thread, InitializeBlocked(t)
    PROVE  PoolInv'
<1>1. /\ at[t] = "queueToInitialize"
      /\ UNCHANGED <<counterVars, reads, writes, handles, frees, closed, threadVars, blocking>>
      /\ initialized' \in BOOLEAN /\ initialized => initialized'
    BY DEF InitializeBlocked, VisitAlone, PoolInv, PoolTyped
<1>2. PICK place \in Places : at' = [at EXCEPT ![t] = place] /\ place \in {"check", "idle"}
    BY DEF InitializeBlocked, Goto, Places
<1>3. CallFits(t)'
    BY <1>1, <1>2 DEF PoolInv, CallsFit, CallFits, CallHolds, PoolTyped, threadVars, counterVars
<1> QED
    <2>1. CASE initialized' = TRUE
        BY <1>1, <1>2, <1>3, <2>1, MoveKeeps
    <2>2. CASE initialized' = initialized
        BY <1>1, <1>2, <1>3, <2>2, MoveKeeps DEF PoolInv, PoolTyped
    <2> QED BY <2>1, <2>2 DEF InitializeBlocked

\* A handle cannot be opened.
LEMMA GenerateFailsKeeps ==
    ASSUME PoolInv, NEW t \in Thread, GenerateFails(t)
    PROVE  PoolInv'
<1>1. /\ at[t] = "generate" /\ at' = [at EXCEPT ![t] = "failed"]
      /\ UNCHANGED <<counterVars, lockVars, poolVars, threadVars, blocking>>
    BY DEF GenerateFails, Goto
<1>2. CallFits(t)'
    BY <1>1 DEF PoolInv, CallsFit, CallFits, CallHolds, PoolTyped, threadVars, counterVars, lockVars
<1> QED
    BY <1>1, <1>2, MoveKeeps DEF poolVars, lockVars, Places, PoolInv, PoolTyped

\* The way into close and blockade.
LEMMA CloseMovesKeep ==
    ASSUME PoolInv, NEW t \in Thread,
           Close(t) \/ Suspend(t) \/ Drain(t) \/ Blockade(t)
    PROVE  PoolInv'
<1>0. CallFits(t)
    BY DEF PoolInv, CallsFit
<1>1. CASE Close(t)
    <2>1. /\ at[t] = "idle" /\ at' = [at EXCEPT ![t] = "suspend"] /\ blocking[t] = "no"
          /\ UNCHANGED <<counterVars, lockVars, poolVars, threadVars, blocking>>
        BY <1>1 DEF Close, Goto
    <2>2. CallFits(t)'
        BY <1>0, <2>1 DEF PoolInv, CallFits, CallHolds, PoolTyped, threadVars, counterVars, lockVars
    <2> QED BY <2>1, <2>2, MoveKeeps DEF poolVars, lockVars, Places, PoolInv, PoolTyped
<1>2. CASE Suspend(t)
    <2>1. /\ at[t] = "suspend" /\ at' = [at EXCEPT ![t] = "drain"]
          /\ UNCHANGED <<counterVars, lockVars, poolVars, threadVars, blocking>>
        BY <1>2 DEF Suspend, Visit, Goto
    <2>2. CallFits(t)'
        BY <1>0, <2>1 DEF PoolInv, CallFits, CallHolds, PoolTyped, threadVars, counterVars, lockVars
    <2> QED BY <2>1, <2>2, MoveKeeps DEF poolVars, lockVars, Places, PoolInv, PoolTyped
<1>3. CASE Drain(t)
    <2>1. /\ at[t] = "drain"
          /\ UNCHANGED <<counterVars, reads, writes, poolVars, threadVars, blocking>>
        BY <1>3 DEF Drain, Enqueue, lockVars
    <2>2. PICK place \in {"idle", "queueToDrain"} :
              /\ at' = [at EXCEPT ![t] = place]
              /\ place = "queueToDrain" => reads[t] = 0
        BY <1>3 DEF Drain, Goto
    <2>3. CallFits(t)'
        BY <1>0, <2>1, <2>2 DEF PoolInv, CallFits, CallHolds, PoolTyped, threadVars, counterVars
    <2> QED BY <2>1, <2>2, <2>3, MoveKeeps DEF poolVars, Places, PoolInv, PoolTyped
<1>4. CASE Blockade(t)
    <2>1. /\ at[t] = "idle" /\ at' = [at EXCEPT ![t] = "queueToBlock"]
          /\ blocking[t] = "no" /\ reads[t] = 0
          /\ UNCHANGED <<counterVars, reads, writes, poolVars, threadVars, blocking>>
        BY <1>4 DEF Blockade, Enqueue, Goto
    <2>2. CallFits(t)'
        BY <1>0, <2>1 DEF PoolInv, CallFits, CallHolds, PoolTyped, threadVars, counterVars
    <2> QED BY <2>1, <2>2, MoveKeeps DEF poolVars, Places, PoolInv, PoolTyped
<1> QED
    BY <1>1, <1>2, <1>3, <1>4

\* A step that gives back a hold for reading.
LEMMA UnlockKeepsLock ==
    ASSUME PoolInv, reads' \in [Thread -> Nat], \A u \in Thread : reads'[u] <= reads[u],
           UNCHANGED <<writes, initialized>>
    PROVE  LockKept'
BY DEF PoolInv, PoolTyped, LockKept

\* A nested request: one more reference to the thread's handle.
LEMMA FlowOutAgainKeeps ==
    ASSUME PoolInv, NEW t \in Thread, FlowOutAgain(t)
    PROVE  PoolInv'
<1> USE DEF PoolInv
<1>1. /\ at[t] = "flowOut" /\ held[t] # NoHandle
      /\ references' = [references EXCEPT ![t] = @ + 1]
      /\ at' = [at EXCEPT ![t] = "idle"]
      /\ reads[t] > 0 /\ reads' = [reads EXCEPT ![t] = @ - 1]
      /\ UNCHANGED <<counterVars, writes, poolVars, held, taken, blocking>>
    BY DEF FlowOutAgain, UnlockShared, Concurrency!ReleaseRead, Goto
<1>2. reads' \in [Thread -> Nat] /\ \A u \in Thread : reads'[u] <= reads[u]
    BY <1>1 DEF PoolTyped
<1>3. LockKept'
    BY <1>1, <1>2, UnlockKeepsLock DEF poolVars
<1>4. PoolTyped'
    BY <1>1, <1>2 DEF PoolTyped, poolVars, Places
<1>5. CallFits(t)' /\ OthersStay(t)
    BY <1>1 DEF CallsFit, CallFits, CallHolds, OthersStay, poolVars, counterVars, PoolTyped
<1>6. CounterInv'
    BY <1>1, CounterStays
<1>7. CallsFit'
    BY <1>5, OthersFit
<1>8. HandlesKept'
    BY <1>1, HandlesStay DEF poolVars
<1> QED
    BY <1>3, <1>4, <1>6, <1>7, <1>8

\* The hold goes back before the place does.
LEMMA UnshareKeeps ==
    ASSUME PoolInv, NEW t \in Thread, Unshare(t)
    PROVE  PoolInv'
<1> USE DEF PoolInv
<1>1. /\ at[t] = "unshare" /\ at' = [at EXCEPT ![t] = "uncount"]
      /\ reads[t] > 0 /\ reads' = [reads EXCEPT ![t] = @ - 1]
      /\ UNCHANGED <<counterVars, writes, poolVars, threadVars, blocking>>
    BY DEF Unshare, UnlockShared, Concurrency!ReleaseRead, Goto
<1>2. reads' \in [Thread -> Nat] /\ \A u \in Thread : reads'[u] <= reads[u]
    BY <1>1 DEF PoolTyped
<1>3. LockKept'
    BY <1>1, <1>2, UnlockKeepsLock DEF poolVars
<1>4. PoolTyped'
    BY <1>1, <1>2 DEF PoolTyped, poolVars, threadVars, Places
<1>5. CallFits(t)' /\ OthersStay(t)
    BY <1>1 DEF CallsFit, CallFits, CallHolds, OthersStay, threadVars, counterVars, PoolTyped
<1>6. CallsFit' /\ CounterInv' /\ HandlesKept'
    BY <1>1, <1>5, CounterStays, OthersFit, HandlesStay DEF poolVars, threadVars
<1> QED
    BY <1>3, <1>4, <1>6

\* A RecyclableHandle that is not the last one of its thread.
LEMMA DropReferenceKeeps ==
    ASSUME PoolInv, NEW t \in Thread, DropReference(t)
    PROVE  PoolInv'
<1> USE DEF PoolInv
<1>1. /\ at[t] = "idle" /\ references[t] > 1
      /\ references' = [references EXCEPT ![t] = @ - 1]
      /\ UNCHANGED <<counterVars, lockVars, poolVars, held, taken, at, blocking>>
    BY DEF DropReference
<1>2. PoolTyped'
    BY <1>1 DEF PoolTyped, poolVars, lockVars
<1>3. CallFits(t)' /\ OthersStay(t)
    BY <1>1 DEF CallsFit, CallFits, CallHolds, OthersStay, lockVars, counterVars, PoolTyped
<1>4. CounterInv'
    BY <1>1, CounterStays
<1>5. CallsFit'
    BY <1>3, OthersFit
<1>6. LockKept' /\ HandlesKept'
    BY <1>1, HandlesStay, LockStays DEF poolVars, lockVars
<1> QED
    BY <1>2, <1>4, <1>5, <1>6

-----------------------------------------------------------------------------
(* The steps of the counter.                                                *)

\* A place is asked for at the counter, or waited for.
LEMMA LookForPlaceKeeps ==
    ASSUME PoolInv, NEW t \in Thread, FlowOut(t) \/ WaitForHandle(t)
    PROVE  PoolInv'
<1> USE DEF PoolInv
<1>1. /\ UNCHANGED <<lockVars, poolVars, threadVars, blocking>>
      /\ held[t] = NoHandle /\ at[t] \in {"flowOut", "count"}
      /\ at' = [at EXCEPT ![t] = "count"]
    <2>1. CASE FlowOut(t)
        BY <2>1 DEF FlowOut, Goto
    <2>2. CASE WaitForHandle(t)
        <3>1. counted[t] \in {"wokenNormal", "wokenWriter"}
            BY <2>2 DEF WaitForHandle, GoOn, GoOnNormal, GoOnWriter
        <3>2. held[t] = NoHandle /\ at[t] = "count"
            BY <3>1 DEF CallsFit, CallFits
        <3>3. at' = [at EXCEPT ![t] = "count"]
            BY <2>2, <3>2 DEF WaitForHandle, PoolTyped
        <3> QED BY <2>2, <3>2, <3>3 DEF WaitForHandle
    <2> QED BY <2>1, <2>2
<1>2. \E waits, write \in BOOLEAN : TryIncrease(t, waits, write) \/ GoOn(t)
    BY DEF FlowOut, WaitForHandle, ShouldWait, CounterInv, CounterTyped
<1>3. CounterInv'
    BY <1>2, TryIncreaseKeeps, GoOnKeeps
<1>4. PICK p \in {"waitNormal", "waitWriter", "refused", "yes"} :
          /\ counted'[t] = p
          /\ \A u \in Thread : u # t => counted'[u] = counted[u]
    BY <1>2, LookMoves
<1>5. PoolTyped'
    BY <1>1 DEF PoolTyped, lockVars, poolVars, threadVars, Places
<1>6. CallFits(t)' /\ OthersStay(t)
    BY <1>1, <1>4 DEF CallsFit, CallFits, CallHolds, OthersStay, lockVars, threadVars, PoolTyped
<1>7. CallsFit' /\ LockKept' /\ HandlesKept'
    BY <1>1, <1>6, OthersFit, LockStays, HandlesStay DEF lockVars, poolVars, threadVars
<1> QED
    BY <1>3, <1>5, <1>7

\* The counter refuses: the hold of initialize() goes back.
LEMMA ExceedsKeeps ==
    ASSUME PoolInv, NEW t \in Thread, Exceeds(t)
    PROVE  PoolInv'
<1> USE DEF PoolInv
<1>1. /\ at[t] = "count" /\ at' = [at EXCEPT ![t] = "idle"]
      /\ reads[t] > 0 /\ reads' = [reads EXCEPT ![t] = @ - 1]
      /\ UNCHANGED <<writes, poolVars, threadVars, blocking>>
      /\ counted' = [counted EXCEPT ![t] = "no"]
    BY DEF Exceeds, UnlockShared, Concurrency!ReleaseRead, Goto, Refused
<1>2. reads' \in [Thread -> Nat] /\ \A u \in Thread : reads'[u] <= reads[u]
    BY <1>1 DEF PoolTyped
<1>3. LockKept'
    BY <1>1, <1>2, UnlockKeepsLock DEF poolVars
<1>4. PoolTyped'
    BY <1>1, <1>2 DEF PoolTyped, poolVars, threadVars, Places
<1>5. CallFits(t)' /\ OthersStay(t)
    BY <1>1 DEF CallsFit, CallFits, CallHolds, OthersStay, threadVars, PoolTyped,
        CounterInv, CounterTyped
<1>6. CounterInv'
    BY RefusedKeeps DEF Exceeds
<1>7. CallsFit' /\ HandlesKept'
    BY <1>1, <1>5, OthersFit, HandlesStay DEF poolVars, threadVars
<1> QED
    BY <1>3, <1>4, <1>6, <1>7

\* flowOut failed: the place and both holds go back.
LEMMA GiveUpKeeps ==
    ASSUME PoolInv, NEW t \in Thread, GiveUp(t)
    PROVE  PoolInv'
<1> USE DEF PoolInv
<1>1. /\ at[t] = "failed" /\ at' = [at EXCEPT ![t] = "idle"]
      /\ reads' = [reads EXCEPT ![t] = @ - 2]
      /\ UNCHANGED <<writes, poolVars, threadVars, blocking>>
    BY DEF GiveUp, Goto
<1>2. CallFits(t) /\ reads[t] = 2 /\ held[t] = NoHandle
    BY <1>1 DEF CallsFit, CallFits, CallHolds
<1>3. reads' \in [Thread -> Nat] /\ \A u \in Thread : reads'[u] <= reads[u]
    BY <1>1, <1>2 DEF PoolTyped
<1>4. LockKept'
    BY <1>1, <1>3, UnlockKeepsLock DEF poolVars
<1>5. PoolTyped'
    BY <1>1, <1>3 DEF PoolTyped, poolVars, threadVars, Places
<1>6. CallFits(t)' /\ OthersStay(t)
    BY <1>1, <1>2, DecreaseMoves DEF GiveUp, CallFits, CallHolds, OthersStay, threadVars, PoolTyped
<1>7. CounterInv'
    BY DecreaseKeeps DEF GiveUp
<1>8. CallsFit' /\ HandlesKept'
    BY <1>1, <1>6, OthersFit, HandlesStay DEF poolVars, threadVars
<1> QED
    BY <1>4, <1>5, <1>7, <1>8

\* The place goes back to the counter.
LEMMA UncountKeeps ==
    ASSUME PoolInv, NEW t \in Thread, Uncount(t)
    PROVE  PoolInv'
<1> USE DEF PoolInv
<1>1. /\ at[t] = "uncount" /\ at' = [at EXCEPT ![t] = "idle"]
      /\ UNCHANGED <<lockVars, poolVars, threadVars, blocking>>
    BY DEF Uncount, Goto
<1>2. PoolTyped'
    BY <1>1 DEF PoolTyped, lockVars, poolVars, threadVars, Places
<1>3. CallFits(t)' /\ OthersStay(t)
    BY <1>1, DecreaseMoves DEF Uncount, CallsFit, CallFits, CallHolds, OthersStay, lockVars,
        threadVars, PoolTyped
<1>4. CounterInv'
    BY DecreaseKeeps DEF Uncount
<1>5. CallsFit' /\ LockKept' /\ HandlesKept'
    BY <1>1, <1>3, OthersFit, LockStays, HandlesStay DEF lockVars, poolVars, threadVars
<1> QED
    BY <1>2, <1>4, <1>5

-----------------------------------------------------------------------------
(* The steps that move handles.                                             *)

\* Fewer handles are still within the limit.
LEMMA FewerAlive ==
    ASSUME AliveBounded, handles \in [Slot -> SUBSET Handle], Alive(handles') \subseteq Alive(handles)
    PROVE  AliveBounded'
<1>1. Alive(handles) \subseteq Handle
    BY DEF Alive
<1>2. IsFiniteSet(Alive(handles))
    BY <1>1, PoolAssumption, FS_Subset
<1>3. Cardinality(Alive(handles')) <= Cardinality(Alive(handles))
    BY <1>2, FS_Subset
<1>4. Cardinality(Alive(handles)) \in Nat /\ Cardinality(Alive(handles')) \in Nat
    BY <1>2, FS_Subset, FS_CardinalityType
<1> QED
    BY <1>3, <1>4, CounterAssumption DEF AliveBounded

\* Which slot a thread uses is one of the two.
LEMMA SlotsOfThreads ==
    /\ \A t \in Thread : SlotOf(t) \in Slot
    /\ Slot = {"normal", "auto"}
BY DEF SlotOf, Slot

\* A free handle is taken, or there is none.
LEMMA TakeFreeKeeps ==
    ASSUME PoolInv, NEW t \in Thread, TakeFree(t)
    PROVE  PoolInv'
<1> USE DEF PoolInv
<1>1. /\ at[t] = "count" /\ counted[t] = "yes"
      /\ reads' = [reads EXCEPT ![t] = @ + 1] /\ writes' = writes
      /\ \A u \in Thread \ {t} : writes[u] = 0
      /\ UNCHANGED <<counterVars, handles, closed, initialized, held, references, blocking>>
    BY DEF TakeFree, LockShared, Concurrency!GrantRead, Counted
<1>2. CallFits(t) /\ held[t] = NoHandle /\ taken[t] = NoHandle /\ reads[t] = 1
    BY <1>1 DEF CallsFit, CallFits, CallHolds, PoolTyped
<1>3. CounterInv'
    BY <1>1, CounterStays
<1>4. LockKept'
    BY <1>1, <1>2 DEF LockKept, PoolTyped
<1>5. CASE \E h \in frees[SlotOf(t)] :
              /\ taken' = [taken EXCEPT ![t] = h]
              /\ frees' = [frees EXCEPT ![SlotOf(t)] = @ \ {h}]
              /\ Goto(t, "reuse")
    <2>1. PICK h \in frees[SlotOf(t)] :
              /\ taken' = [taken EXCEPT ![t] = h]
              /\ frees' = [frees EXCEPT ![SlotOf(t)] = @ \ {h}]
              /\ at' = [at EXCEPT ![t] = "reuse"]
        BY <1>5 DEF Goto
    <2>2. SlotOf(t) \in Slot /\ h \in handles[SlotOf(t)] /\ h \in Handle /\ h # NoHandle
        BY SlotsOfThreads, PoolAssumption DEF HandlesKept, HandlesApart, PoolTyped
    <2>3. PoolTyped'
        BY <1>1, <2>1, <2>2 DEF PoolTyped, Places
    <2>4. CallFits(t)' /\ OthersStay(t)
        BY <1>1, <1>2, <2>1, <2>2 DEF CallFits, CallHolds, OthersStay, PoolTyped, counterVars
    <2>5. /\ Uses(t) = {} /\ Uses(t)' = {h}
          /\ \A u \in Thread : u # t => Uses(u)' = Uses(u)
        BY <1>1, <1>2, <2>1, <2>2 DEF Uses, PoolTyped
    <2>6. /\ frees'[SlotOf(t)] = frees[SlotOf(t)] \ {h}
          /\ \A s \in Slot : s # SlotOf(t) => frees'[s] = frees[s]
        BY <2>1, <2>2 DEF PoolTyped
    <2>7. HandlesApart'
        BY <1>1, <2>2, <2>6 DEF HandlesKept, HandlesApart
    <2>8. UsedAlone'
        <3>1. h \notin closed /\ \A s \in Slot : h \notin frees'[s]
            BY <2>2, <2>6, SlotsOfThreads DEF HandlesKept, HandlesApart
        <3>2. \A u \in Thread : h \notin Uses(u)
            BY SlotsOfThreads DEF HandlesKept, UsedAlone
        <3>3. ASSUME NEW u \in Thread, u # t, NEW g \in Uses(u)
              PROVE  /\ g \in handles'[SlotOf(u)] \ closed'
                     /\ \A s \in Slot : g \notin frees'[s]
                     /\ \A v \in Thread \ {u} : g \notin Uses(v)'
            BY <1>1, <2>5, <2>6, <3>2, <3>3, SlotsOfThreads DEF HandlesKept, UsedAlone
        <3>4. /\ h \in handles'[SlotOf(t)] \ closed'
              /\ \A v \in Thread \ {t} : h \notin Uses(v)'
            BY <1>1, <2>2, <2>5, <3>1, <3>2
        <3> QED BY <2>5, <3>1, <3>3, <3>4 DEF UsedAlone
    <2>9. NoneLost'
        BY <1>1, <2>2, <2>5, <2>6 DEF HandlesKept, NoneLost
    <2>10. ClosedIsEmpty' /\ AliveBounded'
        BY <1>1 DEF HandlesKept, ClosedIsEmpty, AliveBounded
    <2>11. CallsFit'
        BY <2>4, OthersFit
    <2> QED BY <1>3, <1>4, <2>3, <2>7, <2>8, <2>9, <2>10, <2>11 DEF HandlesKept
<1>6. CASE frees[SlotOf(t)] = {} /\ Goto(t, "generate") /\ UNCHANGED <<frees, taken>>
    <2>1. at' = [at EXCEPT ![t] = "generate"] /\ UNCHANGED <<frees, taken>>
        BY <1>6 DEF Goto
    <2>2. PoolTyped'
        BY <1>1, <2>1 DEF PoolTyped, Places
    <2>3. CallFits(t)' /\ OthersStay(t)
        BY <1>1, <1>2, <2>1 DEF CallFits, CallHolds, OthersStay, PoolTyped, counterVars
    <2>4. CallsFit'
        BY <2>3, OthersFit
    <2>5. HandlesKept'
        BY <1>1, <2>1, HandlesStay
    <2> QED BY <1>3, <1>4, <2>2, <2>4, <2>5
<1> QED
    BY <1>5, <1>6 DEF TakeFree

\* A free handle becomes the thread's.
LEMMA ReuseKeeps ==
    ASSUME PoolInv, NEW t \in Thread, Reuse(t)
    PROVE  PoolInv'
<1> USE DEF PoolInv
<1>1. /\ at[t] = "reuse" /\ at' = [at EXCEPT ![t] = "idle"]
      /\ held' = [held EXCEPT ![t] = taken[t]]
      /\ references' = [references EXCEPT ![t] = 1]
      /\ taken' = [taken EXCEPT ![t] = NoHandle]
      /\ reads' = [reads EXCEPT ![t] = @ - 1]
      /\ UNCHANGED <<writes, queue, counterVars, blocking, poolVars>>
    BY DEF Reuse, Hold, Goto
<1>2. /\ CallFits(t) /\ held[t] = NoHandle /\ taken[t] # NoHandle /\ reads[t] = 2
      /\ counted[t] = "yes" /\ taken[t] \in Handle
    BY <1>1 DEF CallsFit, CallFits, CallHolds, PoolTyped
<1>3. reads' \in [Thread -> Nat] /\ \A u \in Thread : reads'[u] <= reads[u]
    BY <1>1, <1>2 DEF PoolTyped
<1>4. LockKept'
    BY <1>1, <1>3, UnlockKeepsLock DEF poolVars
<1>5. PoolTyped'
    BY <1>1, <1>2, <1>3, PoolAssumption DEF PoolTyped, poolVars, Places
<1>6. CallFits(t)' /\ OthersStay(t)
    BY <1>1, <1>2 DEF CallFits, CallHolds, OthersStay, PoolTyped, counterVars
<1>7. \A u \in Thread : Uses(u)' = Uses(u)
    BY <1>1, <1>2 DEF Uses, PoolTyped
<1>8. HandlesKept'
    BY <1>1, <1>7 DEF poolVars, HandlesKept, HandlesApart, UsedAlone, NoneLost, ClosedIsEmpty,
        AliveBounded, Alive
<1>9. CounterInv' /\ CallsFit'
    BY <1>1, <1>6, CounterStays, OthersFit
<1> QED
    BY <1>4, <1>5, <1>8, <1>9

\* A handle that cannot be used again leaves the pool.
LEMMA ReuseFailsKeeps ==
    ASSUME PoolInv, NEW t \in Thread, ReuseFails(t)
    PROVE  PoolInv'
<1> USE DEF PoolInv
<1> DEFINE h == taken[t]
<1>1. /\ at[t] = "reuse" /\ at' = [at EXCEPT ![t] = "failed"]
      /\ closed' = closed \cup {h}
      /\ handles' = [handles EXCEPT ![SlotOf(t)] = @ \ {h}]
      /\ taken' = [taken EXCEPT ![t] = NoHandle]
      /\ UNCHANGED <<counterVars, lockVars, frees, initialized, held, references, blocking>>
    BY DEF ReuseFails, Goto
<1>2. /\ CallFits(t) /\ held[t] = NoHandle /\ h # NoHandle /\ h \in Handle
      /\ counted[t] = "yes" /\ SlotOf(t) \in Slot
    BY <1>1, SlotsOfThreads DEF CallsFit, CallFits, CallHolds, PoolTyped
<1>3. PoolTyped'
    BY <1>1, <1>2 DEF PoolTyped, lockVars, Places
<1>4. CallFits(t)' /\ OthersStay(t)
    BY <1>1, <1>2 DEF CallFits, CallHolds, OthersStay, PoolTyped, counterVars, lockVars
<1>5. /\ Uses(t) = {h} /\ Uses(t)' = {}
      /\ \A u \in Thread : u # t => Uses(u)' = Uses(u)
    BY <1>1, <1>2 DEF Uses, PoolTyped
<1>6. /\ handles'[SlotOf(t)] = handles[SlotOf(t)] \ {h}
      /\ \A s \in Slot : s # SlotOf(t) => handles'[s] = handles[s]
    BY <1>1, <1>2 DEF PoolTyped
<1>7. /\ h \in handles[SlotOf(t)] /\ \A s \in Slot : h \notin frees[s]
      /\ \A u \in Thread : u # t => h \notin Uses(u)
    BY <1>5 DEF HandlesKept, UsedAlone
<1> HIDE DEF h
<1>8. HandlesApart'
    <2>1. \A s \in Slot : h \notin handles'[s]
        BY <1>6, <1>7, <1>2, SlotsOfThreads DEF HandlesKept, HandlesApart
    <2>2. \A s \in Slot : handles'[s] \subseteq handles[s]
        BY <1>6, <1>2
    <2>3. \A s \in Slot : frees'[s] \subseteq handles'[s]
        BY <1>1, <1>6, <1>7, <1>2 DEF HandlesKept, HandlesApart
    <2> QED BY <1>1, <2>1, <2>2, <2>3, SlotsOfThreads DEF HandlesKept, HandlesApart
<1>9. UsedAlone'
    <2> SUFFICES ASSUME NEW u \in Thread, u # t, NEW g \in Uses(u)
                 PROVE  /\ g \in handles'[SlotOf(u)] \ closed'
                        /\ \A s \in Slot : g \notin frees'[s]
                        /\ \A v \in Thread \ {u} : g \notin Uses(v)'
        BY <1>5 DEF UsedAlone
    <2>1. g # h
        BY <1>7
    <2> QED BY <1>1, <1>5, <1>6, <2>1, SlotsOfThreads DEF HandlesKept, UsedAlone
<1>10. NoneLost'
    <2>1. \A s \in Slot : frees'[s] \subseteq handles'[s] \ closed'
        BY <1>8 DEF HandlesApart
    <2>2. ASSUME NEW s \in Slot, NEW g \in handles'[s] \ frees'[s]
          PROVE  \E u \in Thread : g \in Uses(u)'
        <3>1. g \in handles[s] \ frees[s] /\ g # h
            BY <1>1, <1>6, <1>7, <1>2, <1>8, SlotsOfThreads DEF HandlesApart, HandlesKept
        <3>2. PICK u \in Thread : g \in Uses(u)
            BY <3>1 DEF HandlesKept, NoneLost
        <3> QED BY <1>5, <3>1, <3>2
    <2> QED BY <2>1, <2>2 DEF NoneLost
<1>11. Alive(handles') \subseteq Alive(handles)
    BY <1>6, <1>2 DEF Alive
<1>12. ClosedIsEmpty' /\ AliveBounded'
    <2>1. ClosedIsEmpty'
        BY <1>1, <1>11 DEF HandlesKept, ClosedIsEmpty
    <2>2. AliveBounded'
        BY <1>11, FewerAlive DEF HandlesKept, PoolTyped
    <2> QED BY <2>1, <2>2
<1>13. CounterInv' /\ CallsFit' /\ LockKept'
    BY <1>1, <1>4, CounterStays, OthersFit, LockStays DEF lockVars
<1> QED
    BY <1>3, <1>8, <1>9, <1>10, <1>12, <1>13 DEF HandlesKept

\* What Hold does for the thread that gets handle h.
LEMMA HoldFits ==
    ASSUME PoolInv, NEW t \in Thread, NEW h \in Handle, at[t] = "generate", Hold(t, h)
    PROVE  /\ CallsFit' /\ CounterInv'
           /\ reads' \in [Thread -> Nat] /\ \A u \in Thread : reads'[u] <= reads[u]
           /\ reads[t] > 0 /\ writes' = writes /\ counted' = counted
           /\ at' \in [Thread -> Places]
           /\ held' \in [Thread -> Handle \cup {NoHandle}]
           /\ taken' \in [Thread -> Handle \cup {NoHandle}]
           /\ references' \in [Thread -> Nat] /\ blocking' = blocking
           /\ Uses(t) = {} /\ Uses(t)' = {h} /\ counted[t] = "yes"
           /\ \A u \in Thread : u # t => Uses(u)' = Uses(u)
<1> USE DEF PoolInv
<1>1. /\ at[t] = "generate" /\ at' = [at EXCEPT ![t] = "idle"]
      /\ held' = [held EXCEPT ![t] = h]
      /\ references' = [references EXCEPT ![t] = 1]
      /\ taken' = [taken EXCEPT ![t] = NoHandle]
      /\ reads' = [reads EXCEPT ![t] = @ - 1]
      /\ UNCHANGED <<writes, queue, counterVars, blocking>>
    BY DEF Hold, Goto
<1>2. /\ CallFits(t) /\ held[t] = NoHandle /\ taken[t] = NoHandle /\ reads[t] = 2
      /\ counted[t] = "yes" /\ h # NoHandle
    BY <1>1, PoolAssumption DEF CallsFit, CallFits, CallHolds, PoolTyped
<1>3. reads' \in [Thread -> Nat] /\ \A u \in Thread : reads'[u] <= reads[u]
    BY <1>1, <1>2 DEF PoolTyped
<1>4. CallFits(t)' /\ OthersStay(t)
    BY <1>1, <1>2 DEF CallFits, CallHolds, OthersStay, PoolTyped, counterVars
<1>5. /\ at' \in [Thread -> Places]
      /\ held' \in [Thread -> Handle \cup {NoHandle}]
      /\ taken' \in [Thread -> Handle \cup {NoHandle}]
      /\ references' \in [Thread -> Nat]
    BY <1>1 DEF PoolTyped, Places
<1>6. /\ Uses(t) = {} /\ Uses(t)' = {h}
      /\ \A u \in Thread : u # t => Uses(u)' = Uses(u)
    BY <1>1, <1>2 DEF Uses, PoolTyped
<1>7. CounterInv' /\ CallsFit'
    BY <1>1, <1>4, CounterStays, OthersFit
<1> QED
    BY <1>1, <1>2, <1>3, <1>5, <1>6, <1>7 DEF counterVars

\* There is a handle to make: fewer are alive than there are.
LEMMA HandleToMake ==
    ASSUME AliveBounded, handles \in [Slot -> SUBSET Handle]
    PROVE  \E h \in Handle : h \notin Alive(handles)
<1>1. Alive(handles) \subseteq Handle
    BY DEF Alive
<1>2. Cardinality(Alive(handles)) < Cardinality(Handle)
    <2>1. Cardinality(Alive(handles)) \in Nat /\ Cardinality(Handle) \in Nat
        BY <1>1, PoolAssumption, FS_Subset, FS_CardinalityType
    <2> QED BY <2>1, PoolAssumption, CounterAssumption DEF AliveBounded
<1>3. Alive(handles) # Handle
    <2>1. Cardinality(Handle) \in Nat
        BY PoolAssumption, FS_CardinalityType
    <2> QED BY <1>2, <2>1
<1> QED
    BY <1>1, <1>3

\* Handles that each have a user of their own are at most as many as the users.
LEMMA NoMoreThanUsers ==
    ASSUME NEW S, NEW T, IsFiniteSet(T), NEW use \in [T -> SUBSET S],
           \A x \in S : \E t \in T : x \in use[t],
           \A t \in T : \A x, y \in use[t] : x = y
    PROVE  IsFiniteSet(S) /\ Cardinality(S) <= Cardinality(T)
<1> DEFINE user == [x \in S |-> CHOOSE t \in T : x \in use[t]]
<1>1. \A x \in S : user[x] \in T /\ x \in use[user[x]]
    OBVIOUS
<1>2. user \in Injection(S, T)
    <2>1. user \in [S -> T]
        BY <1>1
    <2>2. \A x, y \in S : user[x] = user[y] => x = y
        BY <1>1
    <2> HIDE DEF user
    <2> QED BY <2>1, <2>2 DEF Injection, IsInjective
<1> HIDE DEF user
<1> QED
    BY <1>2, FS_Injection

\* A new handle flows out.
LEMMA GenerateKeeps ==
    ASSUME PoolInv, NEW t \in Thread, Generate(t)
    PROVE  PoolInv'
<1> USE DEF PoolInv
<1> DEFINE h == CHOOSE h \in Handle : h \notin Alive(handles)
           more == [handles EXCEPT ![SlotOf(t)] = @ \cup {h}]
           full == Cardinality(Alive(more)) > MaxHandles
           gone == [s \in Slot |-> IF full THEN Purged(s, more) ELSE {}]
<1>1. /\ at[t] = "generate" /\ Hold(t, h) /\ initialized' = initialized
      /\ handles' = [s \in Slot |-> more[s] \ gone[s]]
      /\ frees' = [s \in Slot |-> frees[s] \ gone[s]]
      /\ closed' = (closed \ {h}) \cup Alive(gone)
    BY DEF Generate
<1>2. h \in Handle /\ h \notin Alive(handles)
    BY HandleToMake DEF HandlesKept, PoolTyped
<1>3. SlotOf(t) \in Slot /\ Slot = {"normal", "auto"}
    BY SlotsOfThreads
<1>4. /\ more \in [Slot -> SUBSET Handle]
      /\ more[SlotOf(t)] = handles[SlotOf(t)] \cup {h}
      /\ \A s \in Slot : s # SlotOf(t) => more[s] = handles[s]
    BY <1>2, <1>3 DEF PoolTyped
<1>5. \A s \in Slot : /\ handles[s] \subseteq more[s] /\ frees[s] \subseteq handles[s]
                      /\ h \notin handles[s] /\ handles[s] \cap closed = {}
    BY <1>2, <1>4 DEF Alive, HandlesKept, HandlesApart
<1> HIDE DEF h, more, full
<1>6. \A s \in Slot : gone[s] = IF full THEN frees[s] ELSE {}
    BY <1>5 DEF Purged
<1>7. Alive(gone) = IF full THEN UNION {frees[s] : s \in Slot} ELSE {}
    BY <1>6 DEF Alive
<1> HIDE DEF gone
<1>8. /\ \A s \in Slot : handles'[s] = IF full THEN more[s] \ frees[s] ELSE more[s]
      /\ \A s \in Slot : frees'[s] = IF full THEN {} ELSE frees[s]
      /\ handles' \in [Slot -> SUBSET Handle] /\ frees' \in [Slot -> SUBSET Handle]
    <2>1. handles' \in [Slot -> SUBSET Handle] /\ frees' \in [Slot -> SUBSET Handle]
        BY <1>1, <1>4 DEF PoolTyped
    <2>2. \A s \in Slot : handles'[s] = more[s] \ gone[s] /\ frees'[s] = frees[s] \ gone[s]
        BY <1>1
    <2>3. CASE full
        BY <1>6, <2>1, <2>2, <2>3
    <2>4. CASE ~full
        BY <1>6, <2>1, <2>2, <2>4
    <2> QED BY <2>3, <2>4
<1>9. closed' \in SUBSET Handle
    BY <1>1, <1>7 DEF PoolTyped
<1>10. /\ CallsFit' /\ CounterInv' /\ PoolTyped'
       /\ Uses(t) = {} /\ Uses(t)' = {h} /\ counted[t] = "yes" /\ counted' = counted
       /\ \A u \in Thread : u # t => Uses(u)' = Uses(u)
       /\ initialized
    <2>1. initialized
        BY <1>1, <1>2, HoldFits DEF LockKept
    <2> QED BY <1>1, <1>2, <1>8, <1>9, <2>1, HoldFits DEF PoolTyped
<1>11. LockKept'
    <2>1. reads' \in [Thread -> Nat] /\ \A u \in Thread : reads'[u] <= reads[u]
        BY <1>1, <1>2, HoldFits
    <2>2. writes' = writes
        BY <1>1, <1>2, HoldFits
    <2> QED BY <1>1, <2>1, <2>2, UnlockKeepsLock
<1>12. \A g : g \in closed' <=> \/ g \in closed /\ g # h
                                \/ full /\ \E s \in Slot : g \in frees[s]
    BY <1>1, <1>7
<1>13. HandlesApart'
    <2>1. handles'["normal"] \cap handles'["auto"] = {}
        BY <1>3, <1>4, <1>5, <1>8 DEF HandlesKept, HandlesApart
    <2>2. \A s \in Slot : frees'[s] \subseteq handles'[s]
        BY <1>5, <1>8
    <2>3. ASSUME NEW s \in Slot, NEW g \in handles'[s], g \in closed' PROVE FALSE
        <3>1. g \in more[s] /\ (g \in handles[s] \/ g = h) /\ (full => g \notin frees[s])
            BY <1>3, <1>4, <1>8, <2>3
        <3>2. g # h \/ ~(g \in closed /\ g # h)
            OBVIOUS
        <3>3. PICK r \in Slot : full /\ g \in frees[r]
            BY <1>5, <1>12, <2>3, <3>1
        <3>4. g \in handles[r] /\ g \in handles[s]
            BY <1>5, <3>1, <3>3
        <3>5. r = s
            BY <1>3, <3>4 DEF HandlesKept, HandlesApart
        <3> QED BY <3>1, <3>3, <3>5
    <2> QED BY <2>1, <2>2, <2>3 DEF HandlesApart
<1>14. \A u \in Thread : h \notin Uses(u)
    BY <1>5, SlotsOfThreads DEF HandlesKept, UsedAlone
<1>15. \A s \in Slot : h \notin frees[s]
    BY <1>5
<1>16. UsedAlone'
    <2>1. ASSUME NEW u \in Thread, u # t, NEW g \in Uses(u)
          PROVE  /\ g \in handles'[SlotOf(u)] \ closed'
                 /\ \A s \in Slot : g \notin frees'[s]
                 /\ \A v \in Thread \ {u} : g \notin Uses(v)'
        <3>1. /\ g \in handles[SlotOf(u)] \ closed /\ \A s \in Slot : g \notin frees[s]
              /\ \A v \in Thread \ {u} : g \notin Uses(v)
              /\ g # h /\ SlotOf(u) \in Slot
            BY <1>14, <2>1, SlotsOfThreads DEF HandlesKept, UsedAlone
        <3>2. g \in more[SlotOf(u)]
            BY <1>5, <3>1
        <3>3. g \in handles'[SlotOf(u)] /\ g \notin closed'
            BY <1>8, <1>12, <3>1, <3>2
        <3>4. \A s \in Slot : g \notin frees'[s]
            BY <1>8, <3>1
        <3>5. \A v \in Thread \ {u} : g \notin Uses(v)'
            BY <1>10, <3>1
        <3> QED BY <3>3, <3>4, <3>5
    <2>2. /\ h \in handles'[SlotOf(t)] \ closed'
          /\ \A s \in Slot : h \notin frees'[s]
          /\ \A v \in Thread \ {t} : h \notin Uses(v)'
        BY <1>3, <1>4, <1>8, <1>10, <1>12, <1>14, <1>15
    <2> QED BY <1>10, <2>1, <2>2 DEF UsedAlone
<1>17. NoneLost'
    <2>1. \A s \in Slot : frees'[s] \subseteq handles'[s] \ closed'
        BY <1>13 DEF HandlesApart
    <2>2. ASSUME NEW s \in Slot, NEW g \in handles'[s] \ frees'[s]
          PROVE  \E u \in Thread : g \in Uses(u)'
        <3>1. g = h \/ (g \in handles[s] \ frees[s])
            BY <1>3, <1>4, <1>8, <2>2
        <3>2. CASE g = h
            BY <1>10, <3>2
        <3>3. CASE g \in handles[s] \ frees[s]
            <4>1. PICK u \in Thread : g \in Uses(u)
                BY <3>3 DEF HandlesKept, NoneLost
            <4> QED BY <1>10, <4>1
        <3> QED BY <3>1, <3>2, <3>3
    <2> QED BY <2>1, <2>2 DEF NoneLost
<1>18. ClosedIsEmpty'
    BY <1>1, <1>10 DEF ClosedIsEmpty
<1>19. AliveBounded'
    <2>1. CASE full
        <3> DEFINE S == Alive(handles')
                   T == CountedThreads
                   use == [u \in T |-> Uses(u)' \cap S]
        <3>1. ASSUME NEW x \in S PROVE \E u \in T : x \in use[u]
            <4>1. PICK s \in Slot : x \in handles'[s]
                BY DEF Alive
            <4>2. x \in handles'[s] \ frees'[s]
                BY <1>8, <2>1, <4>1
            <4>3. PICK u \in Thread : x \in Uses(u)'
                BY <1>17, <4>2 DEF NoneLost
            <4>4. counted'[u] = "yes"
                BY <1>10, <4>3 DEF CallsFit, CallFits, Uses
            <4>5. u \in T
                BY <1>10, <4>4 DEF CountedThreads, Counted
            <4> QED BY <4>3, <4>5
        <3>2. ASSUME NEW u \in T, NEW x \in use[u], NEW y \in use[u] PROVE x = y
            <4>1. u \in Thread /\ x \in Uses(u)' /\ y \in Uses(u)'
                BY DEF CountedThreads
            <4>2. held'[u] = NoHandle \/ taken'[u] = NoHandle
                BY <1>10, <4>1 DEF CallsFit, CallFits
            <4> QED BY <4>1, <4>2 DEF Uses
        <3>3. IsFiniteSet(T) /\ totalCount = Cardinality(T) /\ totalCount <= MaxHandles
            BY CountedFinite DEF CounterInv, CountersBounded
        <3>4. use \in [T -> SUBSET S]
            OBVIOUS
        <3> HIDE DEF S, T, use
        <3>5. Cardinality(S) <= Cardinality(T) /\ IsFiniteSet(S)
            BY <3>1, <3>2, <3>3, <3>4, NoMoreThanUsers
        <3>6. Cardinality(S) \in Nat /\ Cardinality(T) \in Nat
            BY <3>3, <3>5, FS_CardinalityType
        <3>7. Cardinality(S) <= MaxHandles
            BY <3>3, <3>5, <3>6, CounterAssumption
        <3> QED BY <3>7 DEF AliveBounded, S
    <2>2. CASE ~full
        <3>1. Alive(handles') = Alive(more)
            BY <1>4, <1>8, <2>2 DEF Alive
        <3>2. Alive(more) \subseteq Handle
            BY <1>4 DEF Alive
        <3>3. Cardinality(Alive(more)) \in Nat
            BY <3>2, PoolAssumption, FS_Subset, FS_CardinalityType
        <3>4. Cardinality(Alive(more)) <= MaxHandles
            BY <2>2, <3>3, CounterAssumption DEF full
        <3> QED BY <3>1, <3>4 DEF AliveBounded
    <2> QED BY <2>1, <2>2
<1> QED
    BY <1>10, <1>11, <1>13, <1>16, <1>17, <1>18, <1>19 DEF HandlesKept

\* The last reference of a thread: its handle is free again.
LEMMA FlowBackKeeps ==
    ASSUME PoolInv, NEW t \in Thread, FlowBack(t)
    PROVE  PoolInv'
<1> USE DEF PoolInv
<1> DEFINE h == held[t]
<1>1. /\ at[t] = "idle" /\ at' = [at EXCEPT ![t] = "unshare"] /\ references[t] = 1
      /\ references' = [references EXCEPT ![t] = 0]
      /\ held' = [held EXCEPT ![t] = NoHandle]
      /\ frees' = [frees EXCEPT ![SlotOf(t)] = @ \cup {h}]
      /\ UNCHANGED <<counterVars, lockVars, handles, closed, initialized, taken, blocking>>
    BY DEF FlowBack, Push, Goto
<1>2. /\ CallFits(t) /\ h # NoHandle /\ h \in Handle /\ taken[t] = NoHandle
      /\ SlotOf(t) \in Slot
    BY <1>1, SlotsOfThreads DEF CallsFit, CallFits, PoolTyped
<1>3. PoolTyped'
    BY <1>1, <1>2 DEF PoolTyped, lockVars, Places
<1>4. CallFits(t)' /\ OthersStay(t)
    BY <1>1, <1>2 DEF CallFits, CallHolds, OthersStay, PoolTyped, counterVars, lockVars
<1>5. /\ Uses(t) = {h} /\ Uses(t)' = {}
      /\ \A u \in Thread : u # t => Uses(u)' = Uses(u)
    BY <1>1, <1>2 DEF Uses, PoolTyped
<1>6. /\ frees'[SlotOf(t)] = frees[SlotOf(t)] \cup {h}
      /\ \A s \in Slot : s # SlotOf(t) => frees'[s] = frees[s]
    BY <1>1, <1>2 DEF PoolTyped
<1>7. /\ h \in handles[SlotOf(t)] /\ \A u \in Thread : u # t => h \notin Uses(u)
    BY <1>5 DEF HandlesKept, UsedAlone
<1> HIDE DEF h
<1>8. HandlesApart'
    <2>1. \A s \in Slot : frees'[s] \subseteq handles'[s]
        BY <1>1, <1>6, <1>7 DEF HandlesKept, HandlesApart
    <2> QED BY <1>1, <2>1 DEF HandlesKept, HandlesApart
<1>9. UsedAlone'
    <2> SUFFICES ASSUME NEW u \in Thread, u # t, NEW g \in Uses(u)
                 PROVE  /\ g \in handles'[SlotOf(u)] \ closed'
                        /\ \A s \in Slot : g \notin frees'[s]
                        /\ \A v \in Thread \ {u} : g \notin Uses(v)'
        BY <1>5 DEF UsedAlone
    <2>1. g # h
        BY <1>7
    <2>2. /\ g \in handles[SlotOf(u)] \ closed /\ \A s \in Slot : g \notin frees[s]
          /\ \A v \in Thread \ {u} : g \notin Uses(v)
        BY DEF HandlesKept, UsedAlone
    <2>3. \A s \in Slot : g \notin frees'[s]
        BY <1>6, <2>1, <2>2
    <2>4. \A v \in Thread \ {u} : g \notin Uses(v)'
        BY <1>5, <2>2
    <2> QED BY <1>1, <2>2, <2>3, <2>4
<1>10. NoneLost'
    <2>1. \A s \in Slot : frees'[s] \subseteq handles'[s] \ closed'
        BY <1>8 DEF HandlesApart
    <2>2. ASSUME NEW s \in Slot, NEW g \in handles'[s] \ frees'[s]
          PROVE  \E u \in Thread : g \in Uses(u)'
        <3>1. g \in handles[s] \ frees[s]
            BY <1>1, <1>6
        <3>2. g # h
            <4>1. CASE s = SlotOf(t)
                BY <1>6, <4>1
            <4>2. CASE s # SlotOf(t)
                BY <1>2, <1>7, <3>1, <4>2, SlotsOfThreads DEF HandlesKept, HandlesApart
            <4> QED BY <4>1, <4>2
        <3>3. PICK u \in Thread : g \in Uses(u)
            BY <3>1 DEF HandlesKept, NoneLost
        <3> QED BY <1>5, <3>2, <3>3
    <2> QED BY <2>1, <2>2 DEF NoneLost
<1>11. ClosedIsEmpty' /\ AliveBounded'
    BY <1>1 DEF HandlesKept, ClosedIsEmpty, AliveBounded
<1>12. CounterInv'
    BY <1>1, CounterStays
<1>13. CallsFit'
    BY <1>4, OthersFit
<1>14. LockKept'
    BY <1>1, LockStays DEF lockVars
<1> QED
    BY <1>3, <1>8, <1>9, <1>10, <1>11, <1>12, <1>13, <1>14 DEF HandlesKept

\* purge drops the free handles.
LEMMA PurgeKeeps ==
    ASSUME PoolInv, NEW t \in Thread, Purge(t)
    PROVE  PoolInv'
<1> USE DEF PoolInv
<1>1. /\ handles' = [s \in Slot |-> handles[s] \ frees[s]]
      /\ closed' = closed \cup Alive(frees)
      /\ frees' = [s \in Slot |-> {}]
      /\ UNCHANGED <<counterVars, lockVars, initialized, threadVars, at, blocking>>
    BY DEF Purge, Visit
<1>2. PoolTyped'
    <2>1. Alive(frees) \subseteq Handle
        BY DEF Alive, PoolTyped
    <2>2. /\ handles' \in [Slot -> SUBSET Handle] /\ frees' \in [Slot -> SUBSET Handle]
          /\ closed' \in SUBSET Handle
        BY <1>1, <2>1 DEF PoolTyped
    <2> QED BY <1>1, <2>2 DEF PoolTyped, lockVars, threadVars
<1>3. CallFits(t)' /\ OthersStay(t)
    BY <1>1 DEF CallsFit, CallFits, CallHolds, OthersStay, lockVars, threadVars, counterVars
<1>4. \A u \in Thread : Uses(u)' = Uses(u)
    BY <1>1 DEF Uses, threadVars
<1>5. \A s \in Slot : handles'[s] = handles[s] \ frees[s] /\ frees'[s] = {}
    BY <1>1
<1>6. \A g : g \in closed' <=> g \in closed \/ \E s \in Slot : g \in frees[s]
    BY <1>1 DEF Alive
<1>7. HandlesApart'
    <2>1. handles'["normal"] \cap handles'["auto"] = {}
        BY <1>5, SlotsOfThreads DEF HandlesKept, HandlesApart
    <2>2. ASSUME NEW s \in Slot, NEW g \in handles'[s], g \in closed' PROVE FALSE
        <3>1. g \in handles[s] /\ g \notin frees[s]
            BY <1>5
        <3>2. PICK r \in Slot : g \in frees[r]
            BY <1>6, <2>2, <3>1 DEF HandlesKept, HandlesApart
        <3> QED BY <3>1, <3>2, SlotsOfThreads DEF HandlesKept, HandlesApart
    <2> QED BY <1>5, <2>1, <2>2 DEF HandlesApart
<1>8. UsedAlone'
    <2> SUFFICES ASSUME NEW u \in Thread, NEW g \in Uses(u)
                 PROVE  /\ g \in handles'[SlotOf(u)] \ closed'
                        /\ \A s \in Slot : g \notin frees'[s]
                        /\ \A v \in Thread \ {u} : g \notin Uses(v)'
        BY <1>4 DEF UsedAlone
    <2>1. /\ g \in handles[SlotOf(u)] \ closed /\ \A s \in Slot : g \notin frees[s]
          /\ \A v \in Thread \ {u} : g \notin Uses(v)
        BY DEF HandlesKept, UsedAlone
    <2>2. g \notin closed'
        BY <1>6, <2>1
    <2>3. g \in handles'[SlotOf(u)] /\ \A s \in Slot : g \notin frees'[s]
        BY <1>5, <2>1, SlotsOfThreads
    <2> QED BY <1>4, <2>1, <2>2, <2>3
<1>9. NoneLost'
    BY <1>4, <1>5, <1>7 DEF HandlesKept, NoneLost, HandlesApart
<1>10. Alive(handles') \subseteq Alive(handles)
    BY <1>5 DEF Alive
<1>11. ClosedIsEmpty'
    BY <1>1, <1>10 DEF HandlesKept, ClosedIsEmpty
<1>12. AliveBounded'
    BY <1>10, FewerAlive DEF HandlesKept, PoolTyped
<1>13. CounterInv' /\ LockKept'
    BY <1>1, CounterStays, LockStays DEF lockVars
<1>14. CallsFit'
    BY <1>3, OthersFit
<1> QED
    BY <1>2, <1>7, <1>8, <1>9, <1>11, <1>12, <1>13, <1>14 DEF HandlesKept

-----------------------------------------------------------------------------
(* Closing and blockading.                                                  *)

\* While nobody holds the lock for reading, nobody works with a handle and all of
\* them may be closed.
LEMMA ClearKeepsHandles ==
    ASSUME PoolInv, \A u \in Thread : reads[u] = 0, ClearAllHandles,
           UNCHANGED <<held, taken>>
    PROVE  /\ HandlesKept' /\ initialized' = FALSE /\ closed' \in SUBSET Handle
           /\ handles' \in [Slot -> SUBSET Handle] /\ frees' \in [Slot -> SUBSET Handle]
<1>1. /\ closed' = closed \cup Alive(handles)
      /\ handles' = [s \in Slot |-> {}] /\ frees' = [s \in Slot |-> {}]
      /\ initialized' = FALSE
    BY DEF ClearAllHandles
<1>2. \A u \in Thread : Uses(u) = {} /\ Uses(u)' = {}
    BY UsersHold DEF Uses
<1>3. Alive(handles) \subseteq Handle
    BY DEF Alive, PoolInv, PoolTyped
<1>4. Alive(handles') = {} /\ Alive(handles') \subseteq Alive(handles)
    BY <1>1 DEF Alive
<1>5. HandlesApart' /\ NoneLost'
    BY <1>1, SlotsOfThreads DEF HandlesApart, NoneLost
<1>6. UsedAlone' /\ ClosedIsEmpty'
    BY <1>2, <1>4 DEF UsedAlone, ClosedIsEmpty
<1>7. AliveBounded'
    BY <1>4, FewerAlive DEF PoolInv, HandlesKept, PoolTyped
<1>8. HandlesKept'
    BY <1>5, <1>6, <1>7 DEF HandlesKept
<1> QED
    BY <1>1, <1>3, <1>8 DEF PoolInv, PoolTyped

\* close has the pool for itself and drains it.
LEMMA DrainedKeeps ==
    ASSUME PoolInv, NEW t \in Thread, Drained(t)
    PROVE  PoolInv'
<1> USE DEF PoolInv
<1>1. /\ at[t] = "queueToDrain" /\ at' = [at EXCEPT ![t] = "idle"]
      /\ \A u \in Thread \ {t} : reads[u] = 0 /\ writes[u] = 0
      /\ reads' = reads /\ writes' = [writes EXCEPT ![t] = @ + 1]
      /\ ClearAllHandles
      /\ blocking' = [blocking EXCEPT ![t] = "close"]
      /\ UNCHANGED <<counterVars, threadVars>>
    BY DEF Drained, Lock, Concurrency!GrantWrite, Goto
<1>2. CallFits(t) /\ blocking[t] = "no" /\ held[t] = NoHandle /\ reads[t] = 0 /\ writes[t] = 0
    BY <1>1 DEF CallsFit, CallFits, CallHolds
<1>3. \A u \in Thread : reads[u] = 0
    BY <1>1, <1>2
<1>4. /\ HandlesKept' /\ initialized' = FALSE /\ closed' \in SUBSET Handle
      /\ handles' \in [Slot -> SUBSET Handle] /\ frees' \in [Slot -> SUBSET Handle]
    BY <1>1, <1>3, ClearKeepsHandles DEF threadVars
<1>5. PoolTyped'
    <2>1. /\ writes' \in [Thread -> Nat] /\ at' \in [Thread -> Places]
          /\ blocking' \in [Thread -> {"no", "close", "blockade"}]
        BY <1>1 DEF PoolTyped, Places
    <2>2. initialized' \in BOOLEAN
        BY <1>4
    <2> QED BY <1>1, <1>4, <2>1, <2>2 DEF PoolTyped, threadVars
<1>6. CallFits(t)' /\ OthersStay(t)
    BY <1>1, <1>2 DEF CallFits, CallHolds, OthersStay, threadVars, counterVars, PoolTyped
<1>7. LockKept'
    BY <1>1, <1>2, <1>3 DEF LockKept, PoolTyped
<1>8. CounterInv'
    BY <1>1, CounterStays
<1>9. CallsFit'
    BY <1>6, OthersFit
<1> QED
    BY <1>4, <1>5, <1>7, <1>8, <1>9

\* blockade() has the database to itself.
LEMMA BlockadedKeeps ==
    ASSUME PoolInv, NEW t \in Thread, Blockaded(t)
    PROVE  PoolInv'
<1> USE DEF PoolInv
<1>1. /\ at[t] = "queueToBlock" /\ at' = [at EXCEPT ![t] = "idle"]
      /\ \A u \in Thread \ {t} : reads[u] = 0 /\ writes[u] = 0
      /\ reads' = reads /\ writes' = [writes EXCEPT ![t] = @ + 1]
      /\ blocking' = [blocking EXCEPT ![t] = "blockade"]
      /\ UNCHANGED <<counterVars, poolVars, threadVars>>
    BY DEF Blockaded, Lock, Concurrency!GrantWrite, Goto
<1>2. CallFits(t) /\ blocking[t] = "no" /\ held[t] = NoHandle /\ reads[t] = 0 /\ writes[t] = 0
    BY <1>1 DEF CallsFit, CallFits, CallHolds
<1>3. PoolTyped'
    BY <1>1 DEF PoolTyped, poolVars, threadVars, Places
<1>4. CallFits(t)' /\ OthersStay(t)
    BY <1>1, <1>2 DEF CallFits, CallHolds, OthersStay, threadVars, counterVars, PoolTyped
<1>5. LockKept'
    BY <1>1, <1>2 DEF LockKept, PoolTyped, poolVars
<1>6. CounterInv' /\ HandlesKept'
    BY <1>1, CounterStays, HandlesStay DEF poolVars, threadVars
<1>7. CallsFit'
    BY <1>4, OthersFit
<1> QED
    BY <1>3, <1>5, <1>6, <1>7

\* close's callback ends.
LEMMA CallbackEndsKeeps ==
    ASSUME PoolInv, NEW t \in Thread, CallbackEnds(t)
    PROVE  PoolInv'
<1> USE DEF PoolInv
<1>1. /\ at[t] = "idle" /\ held[t] = NoHandle /\ blocking[t] # "no"
      /\ blocking' = [blocking EXCEPT ![t] = "no"]
      /\ reads' = reads /\ writes' = [writes EXCEPT ![t] = @ - 1]
      /\ IF blocking[t] = "close" THEN ClearAllHandles ELSE UNCHANGED poolVars
      /\ UNCHANGED <<counterVars, threadVars, at>>
    BY DEF CallbackEnds, Unlock, Concurrency!ReleaseWrite
<1>2. CallFits(t) /\ reads[t] = 0 /\ writes[t] = 1
    BY <1>1 DEF CallsFit, CallFits, CallHolds
<1>3. \A u \in Thread : reads[u] = 0 /\ (u # t => writes[u] = 0)
    BY <1>2 DEF LockKept
<1>4. /\ HandlesKept' /\ initialized' \in BOOLEAN /\ closed' \in SUBSET Handle
      /\ handles' \in [Slot -> SUBSET Handle] /\ frees' \in [Slot -> SUBSET Handle]
    <2>1. CASE blocking[t] = "close"
        BY <1>1, <1>3, <2>1, ClearKeepsHandles DEF threadVars
    <2>2. CASE blocking[t] # "close"
        BY <1>1, <2>2, HandlesStay DEF poolVars, threadVars, PoolTyped
    <2> QED BY <2>1, <2>2
<1>5. writes' \in [Thread -> Nat] /\ \A u \in Thread : writes'[u] = 0
    BY <1>1, <1>2, <1>3 DEF PoolTyped
<1>6. PoolTyped'
    BY <1>1, <1>4, <1>5 DEF PoolTyped, threadVars
<1>7. CallFits(t)' /\ OthersStay(t)
    BY <1>1, <1>2, <1>3, <1>5
        DEF CallFits, CallHolds, OthersStay, threadVars, counterVars, PoolTyped
<1>8. LockKept'
    BY <1>1, <1>3, <1>5 DEF LockKept, PoolTyped
<1>9. CounterInv'
    BY <1>1, CounterStays
<1>10. CallsFit'
    BY <1>7, OthersFit
<1> QED
    BY <1>4, <1>6, <1>8, <1>9, <1>10

-----------------------------------------------------------------------------
(* The invariant and what it says of the pool.                              *)

\* Every step.
LEMMA NextKeeps ==
    ASSUME PoolInv, Next
    PROVE  PoolInv'
<1>1. PICK t \in Thread : Begin(t) \/ Proceed(t) \/ Recycle(t)
    BY DEF Next
<1>2. CASE Begin(t)
    <2>1. CASE \E write \in BOOLEAN : GetHandle(t, write)
        BY <2>1, GetHandleKeeps
    <2>2. CASE Close(t) \/ Blockade(t)
        BY <2>2, CloseMovesKeep
    <2>3. CASE Purge(t)
        BY <2>3, PurgeKeeps
    <2> QED BY <1>2, <2>1, <2>2, <2>3 DEF Begin
<1>3. CASE Proceed(t)
    <2>1. CASE Check(t) \/ Initialize(t) \/ InitializeBlocked(t)
        BY <2>1, CheckKeeps, InitializeKeeps, InitializeBlockedKeeps
    <2>2. CASE FlowOut(t) \/ WaitForHandle(t)
        BY <2>2, LookForPlaceKeeps
    <2>3. CASE FlowOutAgain(t) \/ Exceeds(t) \/ TakeFree(t)
        BY <2>3, FlowOutAgainKeeps, ExceedsKeeps, TakeFreeKeeps
    <2>4. CASE Generate(t) \/ GenerateFails(t) \/ Reuse(t) \/ ReuseFails(t)
        BY <2>4, GenerateKeeps, GenerateFailsKeeps, ReuseKeeps, ReuseFailsKeeps
    <2>5. CASE GiveUp(t) \/ Unshare(t) \/ Uncount(t)
        BY <2>5, GiveUpKeeps, UnshareKeeps, UncountKeeps
    <2>6. CASE Suspend(t) \/ Drain(t)
        BY <2>6, CloseMovesKeep
    <2>7. CASE Drained(t) \/ Blockaded(t) \/ CallbackEnds(t)
        BY <2>7, DrainedKeeps, BlockadedKeeps, CallbackEndsKeeps
    <2> QED BY <1>3, <2>1, <2>2, <2>3, <2>4, <2>5, <2>6, <2>7 DEF Proceed
<1>4. CASE Recycle(t)
    BY <1>4, DropReferenceKeeps, FlowBackKeeps DEF Recycle
<1> QED
    BY <1>1, <1>2, <1>3, <1>4

\* A step that changes nothing.
LEMMA StutterKeeps ==
    ASSUME PoolInv, UNCHANGED vars
    PROVE  PoolInv'
<1>1. UNCHANGED <<counterVars, lockVars, poolVars, threadVars, at, blocking>>
    BY DEF vars
<1>2. CounterInv'
    BY <1>1, CounterStays DEF PoolInv
<1>3. PoolTyped' /\ CallsFit'
    BY <1>1 DEF PoolInv, PoolTyped, CallsFit, CallFits, CallHolds, lockVars, poolVars,
        threadVars, counterVars
<1>4. LockKept' /\ HandlesKept'
    BY <1>1, LockStays, HandlesStay DEF PoolInv, lockVars, poolVars, threadVars
<1> QED
    BY <1>2, <1>3, <1>4 DEF PoolInv

\* The inductive invariant of getHandle, flowOut, flowBack, purge, close and
\* blockade: every hold of the lock and every place in the counter has its reason.
THEOREM PoolInvariance == Spec => []PoolInv
<1>1. Init => PoolInv
    BY InitKeeps
<1>2. PoolInv /\ [Next]_vars => PoolInv'
    BY NextKeeps, StutterKeeps
<1> QED
    BY <1>1, <1>2, PTL DEF Spec

\* One thread works with a handle at a time, and the handle is in the pool and
\* open, whoever purges, closes or recycles (HandlePool.cpp).
THEOREM HandlesUsedAlone == Spec => []UsedAlone
<1>1. PoolInv => UsedAlone
    BY DEF PoolInv, HandlesKept
<1> QED
    BY <1>1, PoolInvariance, PTL

\* Every handle alive is free or has its thread.
THEOREM NoHandleLost == Spec => []NoneLost
<1>1. PoolInv => NoneLost
    BY DEF PoolInv, HandlesKept
<1> QED
    BY <1>1, PoolInvariance, PTL

\* isNumberOfHandlesAllowed() holds in every state, for any limits of the counter.
THEOREM HandlesBounded == Spec => []AliveBounded
<1>1. PoolInv => AliveBounded
    BY DEF PoolInv, HandlesKept
<1> QED
    BY <1>1, PoolInvariance, PTL

\* A thread that works with a handle never asks to write the lock it reads.
THEOREM HoldersNeverUpgrade == Spec => []NeverUpgrades
<1>1. PoolInv => NeverUpgrades
    <2> SUFFICES ASSUME PoolInv, NEW t \in Thread
                 PROVE  /\ Uses(t) # {} => initialized
                        /\ at[t] \in {"initialize", "queueToInitialize"} => reads[t] = 0
        BY DEF NeverUpgrades
    <2>1. CallFits(t)
        BY DEF PoolInv, CallsFit
    <2>2. at[t] \in {"initialize", "queueToInitialize"} => reads[t] = 0
        BY <2>1 DEF CallFits, CallHolds
    <2> QED BY <2>2, UsersHold
<1> QED
    BY <1>1, PoolInvariance, PTL

\* A database that was closed has no open handle left, in any slot.
THEOREM ClosedHasNoHandle == Spec => []ClosedIsEmpty
<1>1. PoolInv => ClosedIsEmpty
    BY DEF PoolInv, HandlesKept
<1> QED
    BY <1>1, PoolInvariance, PTL

\* Within the pool no thread sleeps while the counter has a place for it.
THEOREM NoSleeperForgotten == Spec => []NobodyStuck
<1>1. PoolInv => NobodyStuck
    BY DEF PoolInv, CounterInv
<1> QED
    BY <1>1, PoolInvariance, PTL
=============================================================================
