-------------------------- MODULE SharedLockProofs --------------------------
(***************************************************************************)
(* Proofs about WCDB's SharedLock, for any set of threads and any nesting  *)
(* of their holds.                                                         *)
(***************************************************************************)
EXTENDS SharedLock, FiniteSetTheorems, TLAPS

-----------------------------------------------------------------------------
(* The counters as cardinalities.                                           *)

LEMMA InHolds ==
    ASSUME NEW f \in [Thread -> Nat], NEW x
    PROVE  x \in HoldsOf(f) <=> \E t \in Thread, n \in Nat :
                                    x = <<t, n>> /\ 1 <= n /\ n <= f[t]
BY DEF HoldsOf

\* One more hold is one more element.
LEMMA MoreHolds ==
    ASSUME NEW f \in [Thread -> Nat], NEW t \in Thread, IsFiniteSet(HoldsOf(f)),
           NEW g, g = [f EXCEPT ![t] = @ + 1]
    PROVE  IsFiniteSet(HoldsOf(g)) /\ Cardinality(HoldsOf(g)) = Cardinality(HoldsOf(f)) + 1
<1>1. g \in [Thread -> Nat] /\ f[t] \in Nat /\ g[t] = f[t] + 1
    OBVIOUS
<1>2. <<t, f[t] + 1>> \notin HoldsOf(f)
    BY InHolds
<1>3. HoldsOf(g) = HoldsOf(f) \cup {<<t, f[t] + 1>>}
    <2>1. ASSUME NEW x \in HoldsOf(g) PROVE x \in HoldsOf(f) \cup {<<t, f[t] + 1>>}
        <3>1. PICK u \in Thread, n \in Nat : x = <<u, n>> /\ 1 <= n /\ n <= g[u]
            BY <1>1, <2>1, InHolds
        <3>2. CASE n <= f[u]
            BY <3>1, <3>2, InHolds
        <3>3. CASE ~(n <= f[u])
            BY <1>1, <3>1, <3>3
        <3> QED BY <3>2, <3>3
    <2>2. ASSUME NEW x \in HoldsOf(f) PROVE x \in HoldsOf(g)
        <3>1. PICK u \in Thread, n \in Nat : x = <<u, n>> /\ 1 <= n /\ n <= f[u]
            BY <2>2, InHolds
        <3>2. n <= g[u]
            BY <1>1, <3>1
        <3> QED BY <1>1, <3>1, <3>2, InHolds
    <2>3. <<t, f[t] + 1>> \in HoldsOf(g)
        <3>1. f[t] + 1 \in Nat /\ 1 <= f[t] + 1 /\ f[t] + 1 <= g[t]
            BY <1>1
        <3> QED BY <1>1, <3>1, InHolds
    <2> QED BY <2>1, <2>2, <2>3
<1> DEFINE x == <<t, f[t] + 1>>
<1>4. x \notin HoldsOf(f) /\ HoldsOf(g) = HoldsOf(f) \cup {x}
    BY <1>2, <1>3
<1> HIDE DEF x
<1>5. IsFiniteSet(HoldsOf(f) \cup {x}) /\ Cardinality(HoldsOf(f) \cup {x}) = Cardinality(HoldsOf(f)) + 1
    BY <1>4, FS_AddElement
<1> QED
    BY <1>4, <1>5

\* One hold less is one element less.
LEMMA FewerHolds ==
    ASSUME NEW f \in [Thread -> Nat], NEW t \in Thread, f[t] > 0, IsFiniteSet(HoldsOf(f)),
           NEW g, g = [f EXCEPT ![t] = @ - 1]
    PROVE  IsFiniteSet(HoldsOf(g)) /\ Cardinality(HoldsOf(g)) = Cardinality(HoldsOf(f)) - 1
<1>1. g \in [Thread -> Nat] /\ f = [g EXCEPT ![t] = @ + 1]
    <2>1. f[t] \in Nat /\ f[t] - 1 \in Nat /\ (f[t] - 1) + 1 = f[t]
        OBVIOUS
    <2>2. g \in [Thread -> Nat] /\ g[t] = f[t] - 1
        BY <2>1
    <2>3. \A u \in Thread : u # t => g[u] = f[u]
        OBVIOUS
    <2>4. \A u \in Thread : f[u] = [g EXCEPT ![t] = @ + 1][u]
        BY <2>1, <2>2, <2>3
    <2> QED BY <2>2, <2>4
<1>2. HoldsOf(g) \subseteq HoldsOf(f)
    <2> SUFFICES ASSUME NEW x \in HoldsOf(g) PROVE x \in HoldsOf(f)
        OBVIOUS
    <2>1. PICK u \in Thread, n \in Nat : x = <<u, n>> /\ 1 <= n /\ n <= g[u]
        BY <1>1, InHolds
    <2>2. n <= f[u]
        BY <2>1
    <2> QED BY <2>1, <2>2, InHolds
<1>3. IsFiniteSet(HoldsOf(g))
    BY <1>2, FS_Subset
<1>4. Cardinality(HoldsOf(f)) = Cardinality(HoldsOf(g)) + 1
    BY <1>1, <1>3, MoreHolds
<1>5. Cardinality(HoldsOf(g)) \in Nat
    BY <1>3, FS_CardinalityType
<1> QED
    BY <1>3, <1>4, <1>5

\* m_readers is 0 only if nobody reads.
LEMMA NoReaders ==
    ASSUME IInv, readers = 0
    PROVE  \A t \in Thread : threadedReaders[t] = 0
<1>1. ReadHolds = {}
    BY FS_EmptySet DEF IInv, CountersAgree
<1> SUFFICES ASSUME NEW t \in Thread, threadedReaders[t] # 0 PROVE FALSE
    OBVIOUS
<1>2. <<t, 1>> \in ReadHolds
    BY InHolds DEF IInv, TypeOK, ReadHolds
<1> QED
    BY <1>1, <1>2

\* A thread that reads is counted.
LEMMA ReadersCounted ==
    ASSUME IInv, NEW t \in Thread, threadedReaders[t] > 0
    PROVE  readers > 0
BY NoReaders DEF IInv, TypeOK

\* Thread t moves to another place; only its own membership changes.
LEMMA Moved ==
    ASSUME TypeOK, NEW t \in Thread, NEW p \in Places, at' = [at EXCEPT ![t] = p]
    PROVE  /\ at' \in [Thread -> Places]
           /\ at'[t] = p
           /\ \A u \in Thread : u # t => at'[u] = at[u]
BY DEF TypeOK

\* Notifying a writer changes whether it was notified, and nothing else.
LEMMA NotifiedWriter ==
    ASSUME TypeOK, NEW h \in WaitingWriters, at' = WriterNotified(at, h)
    PROVE  /\ at' \in [Thread -> Places]
           /\ WaitingWriters' = WaitingWriters
           /\ WaitingReaders' = WaitingReaders
           /\ at'[h] = "wokenWrite"
           /\ \A u \in Thread : /\ at'[u] = "running" <=> at[u] = "running"
                                /\ at'[u] = "waitRead" <=> at[u] = "waitRead"
BY DEF TypeOK, WriterNotified, WaitingWriters, WaitingReaders, Places

\* One waiting reader more or less is one element more or less.
LEMMA OneMoreWaits ==
    ASSUME CountersAgree, NEW t \in Thread, t \notin WaitingReaders,
           WaitingReaders' = WaitingReaders \cup {t}
    PROVE  IsFiniteSet(WaitingReaders') /\ Cardinality(WaitingReaders') = pendingReaders + 1
<1>1. /\ IsFiniteSet(WaitingReaders \cup {t})
      /\ Cardinality(WaitingReaders \cup {t}) = Cardinality(WaitingReaders) + 1
    BY FS_AddElement DEF CountersAgree
<1> QED
    BY <1>1 DEF CountersAgree

LEMMA OneLessWaits ==
    ASSUME CountersAgree, NEW t \in WaitingReaders,
           WaitingReaders' = WaitingReaders \ {t}
    PROVE  /\ IsFiniteSet(WaitingReaders')
           /\ Cardinality(WaitingReaders') = pendingReaders - 1
           /\ pendingReaders - 1 \in Nat
<1>1. /\ IsFiniteSet(WaitingReaders \ {t})
      /\ Cardinality(WaitingReaders \ {t}) = Cardinality(WaitingReaders) - 1
    BY FS_RemoveElement DEF CountersAgree
<1>2. Cardinality(WaitingReaders \ {t}) \in Nat
    BY <1>1, FS_CardinalityType
<1> QED
    BY <1>1, <1>2 DEF CountersAgree

-----------------------------------------------------------------------------
(* Each action keeps the invariant.                                         *)

LEMMA InitIInv == Init => IInv
<1> SUFFICES ASSUME Init PROVE IInv
    OBVIOUS
<1>1. TypeOK
    BY DEF Init, TypeOK, Places
<1>2. ReadHolds = {}
    <2> SUFFICES ASSUME NEW x \in ReadHolds PROVE FALSE
        OBVIOUS
    <2>1. PICK t \in Thread, n \in Nat : 1 <= n /\ n <= threadedReaders[t]
        BY <1>1, InHolds DEF TypeOK, ReadHolds
    <2> QED BY <2>1 DEF Init
<1>3. WaitingReaders = {}
    BY DEF Init, WaitingReaders
<1>4. CountersAgree
    BY <1>2, <1>3, FS_EmptySet DEF Init, CountersAgree
<1>5. QueueIsWaitingWriters /\ WaitersHoldNothing /\ WriterExcludes /\ NoLostWakeup
    BY LockAssumption DEF Init, QueueIsWaitingWriters, WaitingWriters,
        WaitersHoldNothing, WriterExcludes, NoLostWakeup
<1> QED
    BY <1>1, <1>4, <1>5 DEF IInv

\* A thread takes a hold for reading, when no other writes.
LEMMA TakeReadCounts ==
    ASSUME TypeOK, CountersAgree, NEW t \in Thread, TakeRead(t)
    PROVE  /\ readers' \in Nat /\ readers' > 0
           /\ threadedReaders' \in [Thread -> Nat]
           /\ IsFiniteSet(ReadHolds') /\ readers' = Cardinality(ReadHolds')
           /\ threadedReaders'[t] = threadedReaders[t] + 1
           /\ \A u \in Thread : u # t => threadedReaders'[u] = threadedReaders[u]
<1>1. threadedReaders' = [threadedReaders EXCEPT ![t] = @ + 1] /\ readers' = readers + 1
    BY DEF TakeRead
<1>2. IsFiniteSet(HoldsOf(threadedReaders)) /\ threadedReaders \in [Thread -> Nat]
    BY DEF TypeOK, CountersAgree, ReadHolds
<1>3. IsFiniteSet(HoldsOf(threadedReaders'))
      /\ Cardinality(HoldsOf(threadedReaders')) = Cardinality(HoldsOf(threadedReaders)) + 1
    BY <1>1, <1>2, MoreHolds
<1>4. readers \in Nat /\ readers = Cardinality(HoldsOf(threadedReaders))
    BY DEF TypeOK, CountersAgree, ReadHolds
<1> QED
    BY <1>1, <1>2, <1>3, <1>4 DEF ReadHolds

LEMMA LockSharedKeepsIInv ==
    ASSUME IInv, NEW t \in Thread, LockShared(t)
    PROVE  IInv'
<1> USE DEF IInv
<1>1. CASE MustWaitToRead(t)
    <2>1. /\ pendingReaders' = pendingReaders + 1
          /\ at' = [at EXCEPT ![t] = "waitRead"]
          /\ at[t] = "running"
          /\ UNCHANGED <<readers, threadedReaders, writers, pendingWriters, locking>>
        BY <1>1 DEF LockShared
    <2>2. /\ at' \in [Thread -> Places] /\ at'[t] = "waitRead"
          /\ \A u \in Thread : u # t => at'[u] = at[u]
        BY <2>1, Moved DEF Places
    <2>3. TypeOK'
        BY <2>1, <2>2 DEF TypeOK
    <2>4. CountersAgree'
        <3>1. WaitingReaders' = WaitingReaders \cup {t} /\ t \notin WaitingReaders
            BY <2>1, <2>2 DEF WaitingReaders
        <3>2. ReadHolds' = ReadHolds
            BY <2>1 DEF ReadHolds
        <3> QED BY <2>1, <3>1, <3>2, OneMoreWaits DEF CountersAgree
    <2>5. QueueIsWaitingWriters'
        <3>1. WaitingWriters' = WaitingWriters
            BY <2>1, <2>2 DEF WaitingWriters
        <3> QED BY <2>1, <3>1 DEF QueueIsWaitingWriters
    <2>6. threadedReaders[t] = 0 /\ locking # t
        BY <1>1, LockAssumption DEF MustWaitToRead, TypeOK, WriterExcludes, CountersAgree
    <2>7. WaitersHoldNothing' /\ WriterExcludes'
        BY <2>1, <2>2, <2>6 DEF WaitersHoldNothing, WriterExcludes
    <2>8. NoLostWakeup'
        BY <1>1, <2>1, <2>2 DEF NoLostWakeup, MustWaitToRead, Free, TypeOK
    <2> QED BY <2>3, <2>4, <2>5, <2>7, <2>8
<1>2. CASE ~MustWaitToRead(t)
    <2>1. /\ TakeRead(t) /\ at[t] = "running"
          /\ UNCHANGED <<pendingReaders, at, writers, pendingWriters, locking>>
        BY <1>2 DEF LockShared
    <2>2. /\ readers' \in Nat /\ readers' > 0
          /\ threadedReaders' \in [Thread -> Nat]
          /\ IsFiniteSet(ReadHolds') /\ readers' = Cardinality(ReadHolds')
          /\ \A u \in Thread : u # t => threadedReaders'[u] = threadedReaders[u]
        BY <2>1, TakeReadCounts
    <2>3. TypeOK'
        BY <2>1, <2>2 DEF TypeOK
    <2>4. CountersAgree'
        BY <2>1, <2>2 DEF CountersAgree, WaitingReaders
    <2>5. QueueIsWaitingWriters'
        BY <2>1 DEF QueueIsWaitingWriters, WaitingWriters
    <2>6. locking = t \/ locking = NoThread
        BY <1>2 DEF MustWaitToRead, CountersAgree, TypeOK
    <2>7. WaitersHoldNothing' /\ WriterExcludes'
        BY <2>1, <2>2, <2>6, LockAssumption DEF WaitersHoldNothing, WriterExcludes
    <2>8. NoLostWakeup'
        BY <2>1, <2>2 DEF NoLostWakeup, Free
    <2> QED BY <2>3, <2>4, <2>5, <2>7, <2>8
<1> QED
    BY <1>1, <1>2

LEMMA WakeToReadKeepsIInv ==
    ASSUME IInv, NEW t \in Thread, WakeToRead(t)
    PROVE  IInv'
<1> USE DEF IInv
<1>0. at[t] = "wokenRead" /\ UNCHANGED <<writers, pendingWriters, locking>>
    BY DEF WakeToRead
<1>1. CASE MustWaitAgain
    <2>1. /\ at' = [at EXCEPT ![t] = "waitRead"]
          /\ UNCHANGED <<readers, threadedReaders, pendingReaders>>
        BY <1>1 DEF WakeToRead
    <2>2. /\ at' \in [Thread -> Places] /\ at'[t] = "waitRead"
          /\ \A u \in Thread : u # t => at'[u] = at[u]
        BY <2>1, Moved DEF Places
    <2>3. WaitingReaders' = WaitingReaders /\ WaitingWriters' = WaitingWriters
          /\ ReadHolds' = ReadHolds
        BY <1>0, <2>1, <2>2 DEF WaitingReaders, WaitingWriters, ReadHolds
    <2>4. TypeOK' /\ CountersAgree' /\ QueueIsWaitingWriters'
        BY <1>0, <2>1, <2>2, <2>3 DEF TypeOK, CountersAgree, QueueIsWaitingWriters
    <2>5. WaitersHoldNothing' /\ WriterExcludes'
        BY <1>0, <2>1, <2>2 DEF WaitersHoldNothing, WriterExcludes
    <2>6. NoLostWakeup'
        BY <1>0, <1>1, <2>1, <2>2 DEF NoLostWakeup, MustWaitAgain, Free, TypeOK
    <2> QED BY <2>4, <2>5, <2>6
<1>2. CASE ~MustWaitAgain
    <2>1. /\ at' = [at EXCEPT ![t] = "running"]
          /\ pendingReaders' = pendingReaders - 1 /\ TakeRead(t)
          /\ writers = 0 /\ pendingWriters = <<>>
        BY <1>2 DEF WakeToRead, MustWaitAgain, TypeOK
    <2>2. /\ at' \in [Thread -> Places] /\ at'[t] = "running"
          /\ \A u \in Thread : u # t => at'[u] = at[u]
        BY <2>1, Moved DEF Places
    <2>3. /\ readers' \in Nat /\ readers' > 0
          /\ threadedReaders' \in [Thread -> Nat]
          /\ IsFiniteSet(ReadHolds') /\ readers' = Cardinality(ReadHolds')
          /\ \A u \in Thread : u # t => threadedReaders'[u] = threadedReaders[u]
        BY <2>1, TakeReadCounts
    <2>4. t \in WaitingReaders /\ WaitingReaders' = WaitingReaders \ {t}
          /\ WaitingWriters' = WaitingWriters
        BY <1>0, <2>2 DEF WaitingReaders, WaitingWriters
    <2>5. /\ IsFiniteSet(WaitingReaders')
          /\ Cardinality(WaitingReaders') = pendingReaders'
          /\ pendingReaders' \in Nat
        BY <2>1, <2>4, OneLessWaits
    <2>6. TypeOK' /\ CountersAgree' /\ QueueIsWaitingWriters'
        BY <1>0, <2>2, <2>3, <2>4, <2>5 DEF TypeOK, CountersAgree, QueueIsWaitingWriters
    <2>7. locking = NoThread
        BY <2>1 DEF CountersAgree
    <2>8. WaitersHoldNothing' /\ WriterExcludes'
        BY <1>0, <2>2, <2>3, <2>7, LockAssumption DEF WaitersHoldNothing, WriterExcludes
    <2>9. NoLostWakeup'
        BY <1>0, <2>1, <2>2, <2>3 DEF NoLostWakeup, Free
    <2> QED BY <2>6, <2>8, <2>9
<1> QED
    BY <1>1, <1>2

LEMMA UnlockSharedKeepsIInv ==
    ASSUME IInv, NEW t \in Thread, UnlockShared(t)
    PROVE  IInv'
<1> USE DEF IInv
<1>0. /\ at[t] = "running" /\ threadedReaders[t] > 0
      /\ threadedReaders' = [threadedReaders EXCEPT ![t] = @ - 1]
      /\ readers' = readers - 1
      /\ UNCHANGED <<writers, pendingReaders, pendingWriters, locking>>
    BY DEF UnlockShared
<1>1. /\ threadedReaders' \in [Thread -> Nat]
      /\ \A u \in Thread : threadedReaders'[u] <= threadedReaders[u]
    BY <1>0 DEF TypeOK
<1>2. IsFiniteSet(ReadHolds') /\ readers' = Cardinality(ReadHolds') /\ readers' \in Nat
    <2>1. IsFiniteSet(HoldsOf(threadedReaders)) /\ threadedReaders \in [Thread -> Nat]
        BY DEF TypeOK, CountersAgree, ReadHolds
    <2>2. IsFiniteSet(HoldsOf(threadedReaders'))
          /\ Cardinality(HoldsOf(threadedReaders')) = Cardinality(HoldsOf(threadedReaders)) - 1
        BY <1>0, <2>1, FewerHolds
    <2>3. Cardinality(HoldsOf(threadedReaders')) \in Nat
        BY <2>2, FS_CardinalityType
    <2> QED BY <1>0, <2>2, <2>3 DEF ReadHolds, CountersAgree
<1>3. /\ at' \in [Thread -> Places]
      /\ WaitingWriters' = WaitingWriters /\ WaitingReaders' = WaitingReaders
      /\ \A u \in Thread : /\ at'[u] = "running" <=> at[u] = "running"
                           /\ at'[u] = "waitRead" <=> at[u] = "waitRead"
      /\ readers' = 0 /\ writers = 0 /\ pendingWriters # <<>> =>
            at'[Head(pendingWriters)] = "wokenWrite"
    <2>1. CASE readers = 1 /\ writers = 0 /\ pendingWriters # <<>>
        <3>1. at' = WriterNotified(at, Head(pendingWriters))
            BY <2>1 DEF UnlockShared, NotifyAfterReading
        <3>2. Head(pendingWriters) \in WaitingWriters
            BY <2>1 DEF QueueIsWaitingWriters, TypeOK
        <3> QED BY <3>1, <3>2, NotifiedWriter
    <2>2. CASE ~(readers = 1 /\ writers = 0 /\ pendingWriters # <<>>)
        <3>1. at' = at
            BY <2>2 DEF UnlockShared, NotifyAfterReading
        <3> QED BY <1>0, <2>2, <3>1 DEF TypeOK, WaitingWriters, WaitingReaders
    <2> QED BY <2>1, <2>2
<1>4. TypeOK' /\ CountersAgree' /\ QueueIsWaitingWriters'
    BY <1>0, <1>1, <1>2, <1>3 DEF TypeOK, CountersAgree, QueueIsWaitingWriters
<1>5. WaitersHoldNothing' /\ WriterExcludes'
    BY <1>0, <1>1, <1>3 DEF WaitersHoldNothing, WriterExcludes, TypeOK
<1>6. NoLostWakeup'
    BY <1>0, <1>3 DEF NoLostWakeup, Free
<1> QED
    BY <1>4, <1>5, <1>6

\* Taking the lock for writing, when it is free or held by the same thread.
LEMMA LockAgainKeepsIInv ==
    ASSUME IInv, NEW t \in Thread, LockAgain(t)
    PROVE  IInv'
<1> USE DEF IInv
<1>1. /\ locking = t /\ locking' = t /\ writers' = writers + 1
      /\ UNCHANGED <<readers, pendingReaders, pendingWriters, threadedReaders, at>>
    BY DEF LockAgain, TakeWrite
<1>2. writers > 0 /\ writers' > 0 /\ writers' \in Nat
    BY <1>1, LockAssumption DEF CountersAgree, TypeOK
<1>3. TypeOK' /\ CountersAgree'
    BY <1>1, <1>2, LockAssumption DEF TypeOK, CountersAgree, ReadHolds, WaitingReaders
<1>4. QueueIsWaitingWriters'
    BY <1>1 DEF QueueIsWaitingWriters, WaitingWriters
<1>5. WaitersHoldNothing' /\ WriterExcludes' /\ NoLostWakeup'
    BY <1>1, <1>2 DEF WaitersHoldNothing, WriterExcludes, NoLostWakeup, Free
<1> QED
    BY <1>3, <1>4, <1>5

LEMMA LockKeepsIInv ==
    ASSUME IInv, NEW t \in Thread, Lock(t)
    PROVE  IInv'
<1> USE DEF IInv
<1>0. /\ at[t] = "running" /\ threadedReaders[t] = 0 /\ locking # t
      /\ UNCHANGED <<readers, pendingReaders, threadedReaders>>
    BY DEF Lock, MayLock
<1>1. CASE Free /\ pendingWriters = <<>>
    <2>1. /\ writers' = writers + 1 /\ locking' = t
          /\ UNCHANGED <<pendingWriters, at>>
        BY <1>1 DEF Lock, TakeWrite
    <2>2. writers' > 0 /\ writers' \in Nat
        BY <2>1 DEF TypeOK
    <2>3. TypeOK' /\ CountersAgree'
        BY <1>0, <2>1, <2>2, LockAssumption
        DEF TypeOK, CountersAgree, ReadHolds, WaitingReaders
    <2>4. QueueIsWaitingWriters'
        BY <2>1 DEF QueueIsWaitingWriters, WaitingWriters
    <2>5. \A u \in Thread : threadedReaders[u] = 0
        BY <1>1, NoReaders DEF Free
    <2>6. WaitersHoldNothing' /\ WriterExcludes' /\ NoLostWakeup'
        BY <1>0, <2>1, <2>2, <2>5 DEF WaitersHoldNothing, WriterExcludes, NoLostWakeup, Free
    <2> QED BY <2>3, <2>4, <2>6
<1>2. CASE ~(Free /\ pendingWriters = <<>>)
    <2>1. /\ pendingWriters' = Append(pendingWriters, t)
          /\ at' = [at EXCEPT ![t] = "waitWrite"]
          /\ UNCHANGED <<writers, locking>>
        BY <1>2 DEF Lock
    <2>2. /\ at' \in [Thread -> Places] /\ at'[t] = "waitWrite"
          /\ \A u \in Thread : u # t => at'[u] = at[u]
        BY <2>1, Moved DEF Places
    <2>3. /\ pendingWriters' \in Seq(Thread)
          /\ DOMAIN pendingWriters' = 1..(Len(pendingWriters) + 1)
          /\ DOMAIN pendingWriters = 1..Len(pendingWriters) /\ Len(pendingWriters) \in Nat
          /\ pendingWriters'[Len(pendingWriters) + 1] = t
          /\ \A i \in DOMAIN pendingWriters : pendingWriters'[i] = pendingWriters[i]
        BY <2>1 DEF TypeOK
    <2>4. /\ WaitingWriters' = WaitingWriters \cup {t} /\ t \notin WaitingWriters
          /\ WaitingReaders' = WaitingReaders
        BY <1>0, <2>2 DEF WaitingWriters, WaitingReaders
    <2>5. TypeOK' /\ CountersAgree'
        BY <1>0, <2>1, <2>2, <2>3, <2>4 DEF TypeOK, CountersAgree, ReadHolds
    <2>6. QueueIsWaitingWriters'
        <3>1. \A i \in DOMAIN pendingWriters' :
                  i \in DOMAIN pendingWriters \/ i = Len(pendingWriters) + 1
            BY <2>3
        <3>2. \A i \in DOMAIN pendingWriters : pendingWriters[i] # t
            BY <2>4 DEF QueueIsWaitingWriters
        <3>3. \A u \in WaitingWriters' : \E i \in DOMAIN pendingWriters' : pendingWriters'[i] = u
            BY <2>3, <2>4 DEF QueueIsWaitingWriters
        <3>4. \A i \in DOMAIN pendingWriters' : pendingWriters'[i] \in WaitingWriters'
            BY <2>3, <2>4, <3>1 DEF QueueIsWaitingWriters
        <3>5. \A i, j \in DOMAIN pendingWriters' : pendingWriters'[i] = pendingWriters'[j] => i = j
            BY <2>3, <3>1, <3>2 DEF QueueIsWaitingWriters
        <3> QED BY <3>3, <3>4, <3>5 DEF QueueIsWaitingWriters
    <2>7. WaitersHoldNothing' /\ WriterExcludes'
        BY <1>0, <2>1, <2>2 DEF WaitersHoldNothing, WriterExcludes
    <2>8. NoLostWakeup'
        <3>1. ASSUME Free, pendingWriters # <<>>
              PROVE  at'[Head(pendingWriters')] = "wokenWrite"
            <4>1. Head(pendingWriters') = Head(pendingWriters) /\ Head(pendingWriters) \in Thread
                BY <2>1, <3>1 DEF TypeOK
            <4> QED BY <1>0, <2>2, <3>1, <4>1 DEF NoLostWakeup
        <3>2. Free' = Free
            BY <1>0, <2>1 DEF Free
        <3>3. pendingWriters' # <<>>
            BY <2>3
        <3> QED BY <1>2, <2>2, <3>1, <3>2, <3>3 DEF NoLostWakeup
    <2> QED BY <2>5, <2>6, <2>7, <2>8
<1> QED
    BY <1>1, <1>2

LEMMA WakeToWriteKeepsIInv ==
    ASSUME IInv, NEW t \in Thread, WakeToWrite(t)
    PROVE  IInv'
<1> USE DEF IInv
<1>0. /\ at[t] = "wokenWrite" /\ t \in WaitingWriters
      /\ UNCHANGED <<readers, pendingReaders, threadedReaders>>
    BY DEF WakeToWrite, WaitingWriters
<1>q. pendingWriters # <<>> /\ Len(pendingWriters) \in Nat /\ Len(pendingWriters) > 0
      /\ DOMAIN pendingWriters = 1..Len(pendingWriters)
      /\ Head(pendingWriters) = pendingWriters[1]
    BY <1>0 DEF QueueIsWaitingWriters, TypeOK
<1>1. CASE Free /\ Head(pendingWriters) = t
    <2>1. /\ at' = [at EXCEPT ![t] = "running"]
          /\ pendingWriters' = Tail(pendingWriters)
          /\ writers' = writers + 1 /\ locking' = t
        BY <1>1 DEF WakeToWrite, TakeWrite
    <2>2. /\ at' \in [Thread -> Places] /\ at'[t] = "running"
          /\ \A u \in Thread : u # t => at'[u] = at[u]
        BY <2>1, Moved DEF Places
    <2>3. /\ pendingWriters' \in Seq(Thread)
          /\ DOMAIN pendingWriters' = 1..(Len(pendingWriters) - 1)
          /\ \A i \in DOMAIN pendingWriters' : pendingWriters'[i] = pendingWriters[i + 1]
        BY <1>q, <2>1 DEF TypeOK
    <2>4. /\ WaitingWriters' = WaitingWriters \ {t}
          /\ WaitingReaders' = WaitingReaders
        BY <1>0, <2>2 DEF WaitingWriters, WaitingReaders
    <2>5. writers' > 0 /\ writers' \in Nat
        BY <2>1 DEF TypeOK
    <2>6. TypeOK' /\ CountersAgree'
        BY <1>0, <2>1, <2>2, <2>3, <2>4, <2>5, LockAssumption DEF TypeOK, CountersAgree, ReadHolds
    <2>7. QueueIsWaitingWriters'
        <3>1. \A i \in DOMAIN pendingWriters' : i + 1 \in DOMAIN pendingWriters /\ i + 1 # 1
            BY <1>q, <2>3
        <3>2. 1 \in DOMAIN pendingWriters /\ pendingWriters[1] = t
            BY <1>1, <1>q
        <3>3. \A u \in WaitingWriters' : \E i \in DOMAIN pendingWriters' : pendingWriters'[i] = u
            <4> SUFFICES ASSUME NEW u \in WaitingWriters'
                         PROVE  \E i \in DOMAIN pendingWriters' : pendingWriters'[i] = u
                OBVIOUS
            <4>1. PICK j \in DOMAIN pendingWriters : pendingWriters[j] = u
                BY <2>4 DEF QueueIsWaitingWriters
            <4>2. j # 1
                BY <2>4, <3>2, <4>1
            <4>3. j - 1 \in DOMAIN pendingWriters' /\ (j - 1) + 1 = j
                BY <1>q, <2>3, <4>1, <4>2
            <4> QED BY <2>3, <4>1, <4>3
        <3>4. \A i \in DOMAIN pendingWriters' : pendingWriters'[i] \in WaitingWriters'
            BY <2>3, <2>4, <3>1, <3>2 DEF QueueIsWaitingWriters
        <3>5. \A i, j \in DOMAIN pendingWriters' : pendingWriters'[i] = pendingWriters'[j] => i = j
            <4> SUFFICES ASSUME NEW i \in DOMAIN pendingWriters', NEW j \in DOMAIN pendingWriters',
                                pendingWriters'[i] = pendingWriters'[j]
                         PROVE  i = j
                OBVIOUS
            <4>1. i + 1 = j + 1
                BY <2>3, <3>1 DEF QueueIsWaitingWriters
            <4> QED BY <1>q, <2>3, <4>1
        <3> QED BY <3>3, <3>4, <3>5 DEF QueueIsWaitingWriters
    <2>8. \A u \in Thread : threadedReaders[u] = 0
        BY <1>1, NoReaders DEF Free
    <2>9. WaitersHoldNothing' /\ WriterExcludes' /\ NoLostWakeup'
        BY <1>0, <2>1, <2>2, <2>5, <2>8 DEF WaitersHoldNothing, WriterExcludes, NoLostWakeup, Free
    <2> QED BY <2>6, <2>7, <2>9
<1>2. CASE ~(Free /\ Head(pendingWriters) = t)
    <2>1. /\ at' = [at EXCEPT ![t] = "waitWrite"]
          /\ UNCHANGED <<writers, pendingWriters, locking>>
        BY <1>2 DEF WakeToWrite
    <2>2. /\ at' \in [Thread -> Places] /\ at'[t] = "waitWrite"
          /\ \A u \in Thread : u # t => at'[u] = at[u]
        BY <2>1, Moved DEF Places
    <2>3. WaitingReaders' = WaitingReaders /\ WaitingWriters' = WaitingWriters
          /\ ReadHolds' = ReadHolds
        BY <1>0, <2>2 DEF WaitingReaders, WaitingWriters, ReadHolds
    <2>4. TypeOK' /\ CountersAgree' /\ QueueIsWaitingWriters'
        BY <1>0, <2>1, <2>2, <2>3 DEF TypeOK, CountersAgree, QueueIsWaitingWriters
    <2>5. WaitersHoldNothing' /\ WriterExcludes'
        BY <1>0, <2>1, <2>2 DEF WaitersHoldNothing, WriterExcludes
    <2>6. Head(pendingWriters) \in Thread
        BY <1>q DEF QueueIsWaitingWriters, WaitingWriters
    <2>7. NoLostWakeup'
        BY <1>0, <1>2, <1>q, <2>1, <2>2, <2>6 DEF NoLostWakeup, Free
    <2> QED BY <2>4, <2>5, <2>7
<1> QED
    BY <1>1, <1>2

LEMMA UnlockKeepsIInv ==
    ASSUME IInv, NEW t \in Thread, Unlock(t)
    PROVE  IInv'
<1> USE DEF IInv
<1>0. /\ at[t] = "running" /\ locking = t
      /\ writers > 0 /\ writers' = writers - 1 /\ writers' \in Nat
      /\ UNCHANGED <<readers, pendingReaders, pendingWriters, threadedReaders>>
    BY LockAssumption DEF Unlock, CountersAgree, TypeOK
<1>1. CASE writers # 1
    <2>1. UNCHANGED <<locking, at>> /\ writers' > 0
        BY <1>0, <1>1 DEF Unlock, TypeOK
    <2>2. TypeOK' /\ CountersAgree'
        BY <1>0, <2>1, LockAssumption DEF TypeOK, CountersAgree, ReadHolds, WaitingReaders
    <2>3. QueueIsWaitingWriters'
        BY <1>0, <2>1 DEF QueueIsWaitingWriters, WaitingWriters
    <2>4. WaitersHoldNothing' /\ WriterExcludes' /\ NoLostWakeup'
        BY <1>0, <2>1 DEF WaitersHoldNothing, WriterExcludes, NoLostWakeup, Free
    <2> QED BY <2>2, <2>3, <2>4
<1>2. CASE writers = 1
    <2>1. locking' = NoThread /\ at' = NotifyAfterWriting /\ writers' = 0
        BY <1>0, <1>2 DEF Unlock
    <2>2. /\ at' \in [Thread -> Places]
          /\ WaitingWriters' = WaitingWriters /\ WaitingReaders' = WaitingReaders
          /\ \A u \in Thread : at'[u] = "running" <=> at[u] = "running"
          /\ pendingWriters # <<>> => at'[Head(pendingWriters)] = "wokenWrite"
          /\ pendingWriters = <<>> => \A u \in Thread : at'[u] # "waitRead"
        <3>1. CASE pendingWriters # <<>>
            <4>1. at' = WriterNotified(at, Head(pendingWriters))
                BY <2>1, <3>1 DEF NotifyAfterWriting
            <4>2. Head(pendingWriters) \in WaitingWriters
                BY <3>1 DEF QueueIsWaitingWriters, TypeOK
            <4> QED BY <3>1, <4>1, <4>2, NotifiedWriter
        <3>2. CASE pendingWriters = <<>> /\ pendingReaders > 0
            <4>1. at' = ReadersNotified(at)
                BY <2>1, <3>2 DEF NotifyAfterWriting
            <4> QED BY <3>2, <4>1 DEF ReadersNotified, TypeOK, Places, WaitingWriters, WaitingReaders
        <3>3. CASE pendingWriters = <<>> /\ ~(pendingReaders > 0)
            <4>1. at' = at
                BY <2>1, <3>3 DEF NotifyAfterWriting
            <4>2. WaitingReaders = {}
                BY <3>3, FS_EmptySet DEF CountersAgree, TypeOK
            <4> QED BY <3>3, <4>1, <4>2 DEF TypeOK, WaitingWriters, WaitingReaders
        <3> QED BY <3>1, <3>2, <3>3
    <2>3. TypeOK' /\ CountersAgree'
        BY <1>0, <2>1, <2>2 DEF TypeOK, CountersAgree, ReadHolds
    <2>4. QueueIsWaitingWriters'
        BY <1>0, <2>2 DEF QueueIsWaitingWriters
    <2>5. WaitersHoldNothing' /\ WriterExcludes'
        BY <1>0, <2>1, <2>2, LockAssumption DEF WaitersHoldNothing, WriterExcludes
    <2>6. NoLostWakeup'
        BY <1>0, <2>2 DEF NoLostWakeup
    <2> QED BY <2>3, <2>4, <2>5, <2>6
<1> QED
    BY <1>1, <1>2

LEMMA WakeSpuriouslyKeepsIInv ==
    ASSUME IInv, NEW t \in Thread, WakeSpuriously(t)
    PROVE  IInv'
<1> USE DEF IInv
<1>1. UNCHANGED <<readers, writers, pendingReaders, pendingWriters, locking, threadedReaders>>
    BY DEF WakeSpuriously
<1>2. PICK p \in {"wokenRead", "wokenWrite"} :
          /\ at' = [at EXCEPT ![t] = p]
          /\ at[t] = IF p = "wokenRead" THEN "waitRead" ELSE "waitWrite"
    BY DEF WakeSpuriously
<1>3. /\ at' \in [Thread -> Places] /\ at'[t] = p
      /\ \A u \in Thread : u # t => at'[u] = at[u]
    BY <1>2, Moved DEF Places
<1>4. WaitingReaders' = WaitingReaders /\ WaitingWriters' = WaitingWriters
    BY <1>2, <1>3 DEF WaitingReaders, WaitingWriters
<1>5. TypeOK' /\ CountersAgree' /\ QueueIsWaitingWriters'
    BY <1>1, <1>3, <1>4 DEF TypeOK, CountersAgree, QueueIsWaitingWriters, ReadHolds
<1>6. WaitersHoldNothing' /\ WriterExcludes'
    BY <1>1, <1>2, <1>3 DEF WaitersHoldNothing, WriterExcludes
<1>7. NoLostWakeup'
    BY <1>1, <1>2, <1>3 DEF NoLostWakeup, Free
<1> QED
    BY <1>5, <1>6, <1>7

-----------------------------------------------------------------------------
(* The theorems.                                                            *)

\* The invariant holds in every state: the counters agree with what the threads
\* did, a writer excludes readers and no wakeup is lost.
THEOREM Invariance == Spec => []IInv
<1>1. ASSUME IInv, Next PROVE IInv'
    <2>1. PICK t \in Thread : Acquire(t) \/ Wake(t) \/ Release(t) \/ WakeSpuriously(t)
        BY <1>1 DEF Next
    <2>2. CASE LockShared(t)
        BY <1>1, <2>2, LockSharedKeepsIInv
    <2>3. CASE LockAgain(t)
        BY <1>1, <2>3, LockAgainKeepsIInv
    <2>4. CASE Lock(t)
        BY <1>1, <2>4, LockKeepsIInv
    <2>5. CASE WakeToRead(t)
        BY <1>1, <2>5, WakeToReadKeepsIInv
    <2>6. CASE WakeToWrite(t)
        BY <1>1, <2>6, WakeToWriteKeepsIInv
    <2>7. CASE UnlockShared(t)
        BY <1>1, <2>7, UnlockSharedKeepsIInv
    <2>8. CASE Unlock(t)
        BY <1>1, <2>8, UnlockKeepsIInv
    <2>9. CASE WakeSpuriously(t)
        BY <1>1, <2>9, WakeSpuriouslyKeepsIInv
    <2> QED BY <2>1, <2>2, <2>3, <2>4, <2>5, <2>6, <2>7, <2>8, <2>9
            DEF Acquire, Wake, Release
<1>2. ASSUME IInv, UNCHANGED vars PROVE IInv'
    BY <1>2 DEF vars, IInv, TypeOK, CountersAgree, QueueIsWaitingWriters,
        WaitersHoldNothing, WriterExcludes, NoLostWakeup, ReadHolds, WaitingReaders,
        WaitingWriters, Free
<1> QED
    BY <1>1, <1>2, InitIInv, PTL DEF Spec

\* m_locking names a thread exactly while m_writers counts its holds.
LEMMA WritersCounted ==
    ASSUME IInv
    PROVE  locking \in Thread <=> writers > 0
BY LockAssumption DEF IInv, CountersAgree, TypeOK

\* SharedLock.cpp with its mutex, its queue and its two condition variables is a
\* counting reader-writer lock (ReentrantRWLock).
THEOREM Refinement == Spec => ImplementsRWLock
<1> DEFINE w == [t \in Thread |-> IF locking = t THEN writers ELSE 0]
<1>1. Init => Abstract!Init
    BY LockAssumption DEF Init, Abstract!Init
<1>2. ASSUME IInv, IInv', NEW t \in Thread, TakeRead(t), UNCHANGED <<writers, locking>>,
             \A u \in Thread \ {t} : locking # u
      PROVE  Abstract!GrantRead(t)
    BY <1>2 DEF TakeRead, Abstract!GrantRead
<1>3. ASSUME IInv, NEW t \in Thread, TakeWrite(t), UNCHANGED threadedReaders,
             \A u \in Thread : threadedReaders[u] = 0,
             locking = t \/ writers = 0
      PROVE  Abstract!GrantWrite(t)
    <2>1. \A u \in Thread : w[u] = IF locking = u THEN writers ELSE 0
        OBVIOUS
    <2>2. \A u \in Thread \ {t} : w[u] = 0
        BY <1>3
    <2>3. w' = [w EXCEPT ![t] = @ + 1]
        BY <1>3, WritersCounted DEF TakeWrite, IInv, TypeOK
    <2> QED BY <1>3, <2>2, <2>3 DEF Abstract!GrantWrite
<1>4. ASSUME IInv, IInv', Next PROVE Abstract!Next \/ UNCHANGED Abstract!vars
    <2>1. PICK t \in Thread : Acquire(t) \/ Wake(t) \/ Release(t) \/ WakeSpuriously(t)
        BY <1>4 DEF Next
    <2>2. CASE LockShared(t)
        <3>1. CASE MustWaitToRead(t)
            BY <2>2, <3>1 DEF LockShared, Abstract!vars
        <3>2. CASE ~MustWaitToRead(t)
            <4>1. \A u \in Thread \ {t} : locking # u
                BY <1>4, <3>2, WritersCounted DEF MustWaitToRead, IInv, TypeOK
            <4>2. Abstract!GrantRead(t)
                BY <1>2, <1>4, <2>2, <3>2, <4>1 DEF LockShared
            <4> QED BY <4>2 DEF Abstract!Next
        <3> QED BY <3>1, <3>2
    <2>3. CASE LockAgain(t)
        <3>1. \A u \in Thread : threadedReaders[u] = 0
            BY <1>4, <2>3 DEF LockAgain, MayLock, IInv, WriterExcludes
        <3>2. Abstract!GrantWrite(t)
            BY <1>3, <1>4, <2>3, <3>1 DEF LockAgain
        <3> QED BY <3>2 DEF Abstract!Next
    <2>4. CASE Lock(t)
        <3>1. CASE Free /\ pendingWriters = <<>>
            <4>1. Abstract!GrantWrite(t)
                BY <1>3, <1>4, <2>4, <3>1, NoReaders DEF Lock, Free
            <4> QED BY <4>1 DEF Abstract!Next
        <3>2. CASE ~(Free /\ pendingWriters = <<>>)
            BY <2>4, <3>2 DEF Lock, Abstract!vars
        <3> QED BY <3>1, <3>2
    <2>5. CASE WakeToRead(t)
        <3>1. CASE MustWaitAgain
            BY <2>5, <3>1 DEF WakeToRead, Abstract!vars
        <3>2. CASE ~MustWaitAgain
            <4>1. \A u \in Thread \ {t} : locking # u
                BY <1>4, <3>2, WritersCounted DEF MustWaitAgain, IInv, TypeOK
            <4>2. Abstract!GrantRead(t)
                BY <1>2, <1>4, <2>5, <3>2, <4>1 DEF WakeToRead
            <4> QED BY <4>2 DEF Abstract!Next
        <3> QED BY <3>1, <3>2
    <2>6. CASE WakeToWrite(t)
        <3>1. CASE Free /\ Head(pendingWriters) = t
            <4>1. Abstract!GrantWrite(t)
                BY <1>3, <1>4, <2>6, <3>1, NoReaders DEF WakeToWrite, Free
            <4> QED BY <4>1 DEF Abstract!Next
        <3>2. CASE ~(Free /\ Head(pendingWriters) = t)
            BY <2>6, <3>2 DEF WakeToWrite, Abstract!vars
        <3> QED BY <3>1, <3>2
    <2>7. CASE UnlockShared(t)
        <3>1. Abstract!ReleaseRead(t)
            BY <2>7 DEF UnlockShared, Abstract!ReleaseRead
        <3> QED BY <3>1 DEF Abstract!Next
    <2>8. CASE Unlock(t)
        <3>1. writers > 0 /\ writers \in Nat
            BY <1>4, <2>8, WritersCounted DEF Unlock, IInv, TypeOK
        <3>2. w[t] = writers /\ threadedReaders[t] = 0
            BY <2>8 DEF Unlock
        <3>3. w' = [w EXCEPT ![t] = @ - 1]
            <4>1. writers' = writers - 1 /\ locking = t
                  /\ locking' = IF writers = 1 THEN NoThread ELSE t
                BY <2>8 DEF Unlock
            <4>2. \A u \in Thread : w'[u] = IF u = t THEN w[t] - 1 ELSE w[u]
                BY <3>1, <4>1, LockAssumption
            <4> QED BY <4>2
        <3>4. Abstract!ReleaseWrite(t)
            BY <2>8, <3>1, <3>2, <3>3 DEF Unlock, Abstract!ReleaseWrite
        <3> QED BY <3>4 DEF Abstract!Next
    <2>9. CASE WakeSpuriously(t)
        BY <2>9 DEF WakeSpuriously, Abstract!vars
    <2> QED BY <2>1, <2>2, <2>3, <2>4, <2>5, <2>6, <2>7, <2>8, <2>9
            DEF Acquire, Wake, Release
<1>5. ASSUME UNCHANGED vars PROVE UNCHANGED Abstract!vars
    BY <1>5 DEF vars, Abstract!vars
<1> QED
    BY <1>1, <1>4, <1>5, Invariance, PTL DEF Spec, Abstract!Spec, ImplementsRWLock
=============================================================================
