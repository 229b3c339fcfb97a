----------------------------- MODULE SharedLock ------------------------------
(***************************************************************************)
(* WCDB's SharedLock (base/Lock.cpp): a reader-writer lock made of a mutex *)
(* and two condition variables.  Each section under the mutex is one       *)
(* action.  A thread in wait() has given the mutex back; it goes on, in a  *)
(* later action, once it was notified and has the mutex again.             *)
(***************************************************************************)
EXTENDS Naturals, Sequences, FiniteSets

CONSTANTS
    Thread, NoThread,
    MaxDepth        \* bound: holds of one kind a thread nests

ASSUME LockAssumption ==
    /\ NoThread \notin Thread
    /\ MaxDepth \in Nat

VARIABLES
    readers,            \* m_readers
    writers,            \* m_writers
    pendingReaders,     \* m_pendingReaders
    pendingWriters,     \* m_pendingWriters
    locking,            \* m_locking
    threadedReaders,    \* m_threadedReaders
    at                  \* where each thread is: running, or in which wait()

vars == <<readers, writers, pendingReaders, pendingWriters, locking,
          threadedReaders, at>>

\* In wait() of m_conditionalReaders or m_conditionalWriters, not yet notified;
\* or notified and about to have the mutex again.
Places == {"running", "waitRead", "wokenRead", "waitWrite", "wokenWrite"}

Init ==
    /\ readers = 0 /\ writers = 0
    /\ pendingReaders = 0
    /\ pendingWriters = <<>>
    /\ locking = NoThread
    /\ threadedReaders = [t \in Thread |-> 0]
    /\ at = [t \in Thread |-> "running"]

-----------------------------------------------------------------------------
\* m_conditionalWriters.notify(thread): pthread_cond_signal_thread_np wakes that
\* thread if it waits there.
WriterNotified(places, t) ==
    IF places[t] = "waitWrite" THEN [places EXCEPT ![t] = "wokenWrite"] ELSE places

\* m_conditionalReaders.notify_all()
ReadersNotified(places) ==
    [t \in Thread |-> IF places[t] = "waitRead" THEN "wokenRead" ELSE places[t]]

\* Mutant of MustWaitToRead: readers pass pending writers.
MustWaitForWriterOnly(t) == writers > 0 /\ locking # t

\* A reader waits for another thread that writes, and for the writers that wait
\* before it, unless it reads already.
MustWaitToRead(t) ==
    IF writers > 0
    THEN locking # t
    ELSE pendingWriters # <<>> /\ threadedReaders[t] = 0

TakeRead(t) ==
    /\ readers' = readers + 1
    /\ threadedReaders' = [threadedReaders EXCEPT ![t] = @ + 1]

LockShared(t) ==
    /\ at[t] = "running"
    /\ threadedReaders[t] < MaxDepth
    /\ IF MustWaitToRead(t)
       THEN /\ pendingReaders' = pendingReaders + 1
            /\ at' = [at EXCEPT ![t] = "waitRead"]
            /\ UNCHANGED <<readers, threadedReaders>>
       ELSE /\ TakeRead(t)
            /\ UNCHANGED <<pendingReaders, at>>
    /\ UNCHANGED <<writers, pendingWriters, locking>>

MustWaitAgain == writers > 0 \/ pendingWriters # <<>>

\* The loop of lockShared, after wait() returned.
WakeToRead(t) ==
    /\ at[t] = "wokenRead"
    /\ IF MustWaitAgain
       THEN /\ at' = [at EXCEPT ![t] = "waitRead"]
            /\ UNCHANGED <<readers, threadedReaders, pendingReaders>>
       ELSE /\ at' = [at EXCEPT ![t] = "running"]
            /\ pendingReaders' = pendingReaders - 1
            /\ TakeRead(t)
    /\ UNCHANGED <<writers, pendingWriters, locking>>

\* Mutant of NotifyAfterReading: the last reader wakes nobody.
NotifyNobody(t) == UNCHANGED at

\* The last reader wakes the first pending writer.
NotifyAfterReading(t) ==
    at' = IF readers = 1 /\ writers = 0 /\ pendingWriters # <<>>
          THEN WriterNotified(at, Head(pendingWriters))
          ELSE at

\* Without a hold unlockShared only reports "Unpaired unlock shared.".
UnlockShared(t) ==
    /\ at[t] = "running"
    /\ threadedReaders[t] > 0
    /\ threadedReaders' = [threadedReaders EXCEPT ![t] = @ - 1]
    /\ readers' = readers - 1
    /\ NotifyAfterReading(t)
    /\ UNCHANGED <<writers, pendingReaders, pendingWriters, locking>>

-----------------------------------------------------------------------------
TakeWrite(t) ==
    /\ writers' = writers + 1
    /\ locking' = t

\* Mutant of Free: a writer does not look at the readers.
FreeOfWriters == writers = 0

Free == readers = 0 /\ writers = 0

\* A thread that reads is refused: "Upgrade lock is not supported.".
MayLock(t) == at[t] = "running" /\ threadedReaders[t] = 0

\* lock() in the thread that writes already.
LockAgain(t) ==
    /\ MayLock(t)
    /\ locking = t
    /\ writers < MaxDepth
    /\ TakeWrite(t)
    /\ UNCHANGED <<readers, pendingReaders, pendingWriters, threadedReaders, at>>

\* lock() in any other: it queues, and leaves the queue at once if it may.
Lock(t) ==
    /\ MayLock(t)
    /\ locking # t
    /\ MaxDepth > 0
    /\ IF Free /\ pendingWriters = <<>>
       THEN /\ TakeWrite(t)
            /\ UNCHANGED <<pendingWriters, at>>
       ELSE /\ pendingWriters' = Append(pendingWriters, t)
            /\ at' = [at EXCEPT ![t] = "waitWrite"]
            /\ UNCHANGED <<writers, locking>>
    /\ UNCHANGED <<readers, pendingReaders, threadedReaders>>

\* The loop of lock, after wait() returned.
WakeToWrite(t) ==
    /\ at[t] = "wokenWrite"
    /\ IF Free /\ Head(pendingWriters) = t
       THEN /\ at' = [at EXCEPT ![t] = "running"]
            /\ pendingWriters' = Tail(pendingWriters)
            /\ TakeWrite(t)
       ELSE /\ at' = [at EXCEPT ![t] = "waitWrite"]
            /\ UNCHANGED <<writers, pendingWriters, locking>>
    /\ UNCHANGED <<readers, pendingReaders, threadedReaders>>

\* Mutant of NotifyAfterWriting: notify_one for the readers.
NotifyOneReader ==
    LET waiting == {t \in Thread : at[t] = "waitRead"} IN
    IF pendingWriters # <<>>
    THEN WriterNotified(at, Head(pendingWriters))
    ELSE IF waiting # {}
         THEN [at EXCEPT ![CHOOSE t \in waiting : TRUE] = "wokenRead"]
         ELSE at

\* "write lock first"
NotifyAfterWriting ==
    IF pendingWriters # <<>>
    THEN WriterNotified(at, Head(pendingWriters))
    ELSE IF pendingReaders > 0 THEN ReadersNotified(at) ELSE at

\* A thread that reads as well is refused: "Downgrade lock is not supported.".
Unlock(t) ==
    /\ at[t] = "running"
    /\ threadedReaders[t] = 0
    /\ locking = t
    /\ writers' = writers - 1
    /\ IF writers = 1
       THEN locking' = NoThread /\ at' = NotifyAfterWriting
       ELSE UNCHANGED <<locking, at>>
    /\ UNCHANGED <<readers, pendingReaders, pendingWriters, threadedReaders>>

\* wait() may return though nobody notified: the standard allows it.
WakeSpuriously(t) ==
    /\ \/ at[t] = "waitRead" /\ at' = [at EXCEPT ![t] = "wokenRead"]
       \/ at[t] = "waitWrite" /\ at' = [at EXCEPT ![t] = "wokenWrite"]
    /\ UNCHANGED <<readers, writers, pendingReaders, pendingWriters, locking,
                   threadedReaders>>

-----------------------------------------------------------------------------
Acquire(t) == LockShared(t) \/ LockAgain(t) \/ Lock(t)

Release(t) == UnlockShared(t) \/ Unlock(t)

Wake(t) == WakeToRead(t) \/ WakeToWrite(t)

Next == \E t \in Thread : Acquire(t) \/ Wake(t) \/ Release(t) \/ WakeSpuriously(t)

Spec == Init /\ [][Next]_vars

Holds(t) == threadedReaders[t] > 0 \/ locking = t

\* A notified thread gets the mutex.  A running thread does not hold the lock
\* for ever: LockGuard and SharedLockGuard give each hold back when they go out
\* of scope.
Fairness ==
    \A t \in Thread :
        /\ WF_vars(Wake(t))
        /\ []<>(at[t] = "running" => ~Holds(t))

FairSpec == Spec /\ Fairness

-----------------------------------------------------------------------------
TypeOK ==
    /\ readers \in Nat /\ writers \in Nat /\ pendingReaders \in Nat
    /\ pendingWriters \in Seq(Thread)
    /\ locking \in Thread \cup {NoThread}
    /\ threadedReaders \in [Thread -> Nat]
    /\ at \in [Thread -> Places]

\* The counters that all threads share are the sums of what each thread did.
HoldsOf(f) == UNION {{t} \X (1..f[t]) : t \in Thread}

ReadHolds == HoldsOf(threadedReaders)

WaitingReaders == {t \in Thread : at[t] \in {"waitRead", "wokenRead"}}

WaitingWriters == {t \in Thread : at[t] \in {"waitWrite", "wokenWrite"}}

CountersAgree ==
    /\ IsFiniteSet(ReadHolds) /\ readers = Cardinality(ReadHolds)
    /\ IsFiniteSet(WaitingReaders) /\ pendingReaders = Cardinality(WaitingReaders)
    /\ writers > 0 <=> locking # NoThread

\* The queue holds each waiting writer once.
QueueIsWaitingWriters ==
    /\ \A t \in WaitingWriters : \E i \in DOMAIN pendingWriters : pendingWriters[i] = t
    /\ \A i \in DOMAIN pendingWriters : pendingWriters[i] \in WaitingWriters
    /\ \A i, j \in DOMAIN pendingWriters :
            pendingWriters[i] = pendingWriters[j] => i = j

\* Nobody waits for the lock while holding it: that thread could wait for itself.
WaitersHoldNothing ==
    \A t \in Thread : at[t] # "running" => threadedReaders[t] = 0 /\ locking # t

\* While one thread writes no other reads, however often either nested its holds
\* and whichever of them waited, woke spuriously or went on at once.
WriterExcludes ==
    \A t, u \in Thread : locking = t /\ u # t => threadedReaders[u] = 0

\* No wakeup is lost.  Once the lock is free the first pending writer has been
\* notified; once nobody writes or waits to write every reader has.
NoLostWakeup ==
    /\ Free /\ pendingWriters # <<>> => at[Head(pendingWriters)] = "wokenWrite"
    /\ writers = 0 /\ pendingWriters = <<>> => \A t \in Thread : at[t] # "waitRead"

IInv ==
    /\ TypeOK
    /\ CountersAgree
    /\ QueueIsWaitingWriters
    /\ WaitersHoldNothing
    /\ WriterExcludes
    /\ NoLostWakeup

\* The lock is a counting reader-writer lock.
Abstract ==
    INSTANCE ReentrantRWLock WITH
        reads <- threadedReaders,
        writes <- [t \in Thread |-> IF locking = t THEN writers ELSE 0]

ImplementsRWLock == Abstract!Spec

\* A waiting writer is served, whatever the readers do: they do not pass it
\* ("to avoid the pending lock starve"), and the threads that read already may
\* nest their holds without waiting for it.
WriterServed == \A t \in Thread : t \in WaitingWriters ~> locking = t

\* A waiting reader is served once writers stop coming.
WritersStop == <>[](writers = 0 /\ pendingWriters = <<>>)

ReaderServed == WritersStop => \A t \in Thread : t \in WaitingReaders ~> at[t] = "running"
=============================================================================
