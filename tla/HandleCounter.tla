--------------------------- MODULE HandleCounter ----------------------------
(***************************************************************************)
(* WCDB's HandleCounter (core/HandleCounter.cpp): it bounds the handles of *)
(* a database that are out at once, and those among them meant to write.   *)
(* Each section under its mutex is one action.  A thread in wait() has     *)
(* given the mutex back and goes on once it was notified.                  *)
(***************************************************************************)
EXTENDS Naturals, Sequences, FiniteSets

CONSTANTS
    Thread,
    MaxHandles,     \* HandlePoolMaxAllowedNumberOfHandles
    MaxWriters,     \* HandlePoolMaxAllowedNumberOfWriters
    MaxSpurious     \* bound: wakeups nobody asked for

ASSUME CounterAssumption ==
    /\ IsFiniteSet(Thread)
    /\ MaxHandles \in Nat \ {0} /\ MaxWriters \in Nat \ {0}
    /\ MaxSpurious \in Nat

VARIABLES
    totalCount,         \* m_totalCount
    writerCount,        \* m_writerCount
    pendingNormals,     \* m_pendingNormals
    pendingWriters,     \* m_pendingWriters
    counted,            \* where each thread is in tryIncreaseHandleCount
    writeHint,          \* the argument of its call
    spurious            \* wakeups nobody asked for, so far

counterVars == <<totalCount, writerCount, pendingNormals, pendingWriters,
                 counted, writeHint, spurious>>

\* Not in the call; in wait() of one of the conditions, or just notified there;
\* and what the call returned.
CounterPlaces == {"no", "waitNormal", "wokenNormal", "waitWriter", "wokenWriter",
                  "yes", "refused"}

CounterInit ==
    /\ totalCount = 0 /\ writerCount = 0
    /\ pendingNormals = <<>> /\ pendingWriters = <<>>
    /\ counted = [t \in Thread |-> "no"]
    /\ writeHint = [t \in Thread |-> FALSE]
    /\ spurious = 0

-----------------------------------------------------------------------------
Full == totalCount >= MaxHandles

WritersFull(write) == write /\ writerCount >= MaxWriters

\* The thread gets its place, with the queues it left behind.
Take(t, write, normals, writers) ==
    /\ totalCount' = totalCount + 1
    /\ writerCount' = IF write THEN writerCount + 1 ELSE writerCount
    /\ counted' = [counted EXCEPT ![t] = "yes"]
    /\ pendingNormals' = normals /\ pendingWriters' = writers

\* Only a thread of type Normal waits; the others are refused.
Refuse(t, normals, writers) ==
    /\ counted' = [counted EXCEPT ![t] = "refused"]
    /\ pendingNormals' = normals /\ pendingWriters' = writers
    /\ UNCHANGED <<totalCount, writerCount>>

WaitNormal(t, waits, normals, writers) ==
    IF waits
    THEN /\ pendingNormals' = Append(normals, t) /\ pendingWriters' = writers
         /\ counted' = [counted EXCEPT ![t] = "waitNormal"]
         /\ UNCHANGED <<totalCount, writerCount>>
    ELSE Refuse(t, normals, writers)

WaitWriter(t, waits, normals, writers) ==
    IF waits
    THEN /\ pendingWriters' = Append(writers, t) /\ pendingNormals' = normals
         /\ counted' = [counted EXCEPT ![t] = "waitWriter"]
         /\ UNCHANGED <<totalCount, writerCount>>
    ELSE Refuse(t, normals, writers)

\* The first look at the limits, and the look after a wait for a handle.
LookForHandle(t, waits, write, normals, writers) ==
    \/ /\ Full
       /\ WaitNormal(t, waits, normals, writers)
    \/ /\ ~Full /\ WritersFull(write)
       /\ WaitWriter(t, waits, normals, writers)
    \/ /\ ~Full /\ ~WritersFull(write)
       /\ Take(t, write, normals, writers)

\* After a wait for a writer's place the inner loop looks at that place first.
LookForWriter(t, waits, write, normals, writers) ==
    \/ /\ WritersFull(write)
       /\ WaitWriter(t, waits, normals, writers)
    \/ /\ ~WritersFull(write) /\ Full
       /\ WaitNormal(t, waits, normals, writers)
    \/ /\ ~WritersFull(write) /\ ~Full
       /\ Take(t, write, normals, writers)

TryIncrease(t, waits, write) ==
    /\ counted[t] = "no"
    /\ writeHint' = [writeHint EXCEPT ![t] = write]
    /\ LookForHandle(t, waits, write, pendingNormals, pendingWriters)
    /\ UNCHANGED spurious

\* wait() returned: the thread removes the front of the queue, whoever that is.
GoOnNormal(t) ==
    /\ counted[t] = "wokenNormal"
    /\ LookForHandle(t, TRUE, writeHint[t], Tail(pendingNormals), pendingWriters)
    /\ UNCHANGED <<writeHint, spurious>>

GoOnWriter(t) ==
    /\ counted[t] = "wokenWriter"
    /\ LookForWriter(t, TRUE, writeHint[t], pendingNormals, Tail(pendingWriters))
    /\ UNCHANGED <<writeHint, spurious>>

GoOn(t) == GoOnNormal(t) \/ GoOnWriter(t)

\* The call returned false: the caller reports the error.
Refused(t) ==
    /\ counted[t] = "refused"
    /\ counted' = [counted EXCEPT ![t] = "no"]
    /\ writeHint' = [writeHint EXCEPT ![t] = FALSE]
    /\ UNCHANGED <<totalCount, writerCount, pendingNormals, pendingWriters, spurious>>

\* Conditional::notify wakes the named thread if it waits there.
Notified(places, t, wait, woken) ==
    IF places[t] = wait THEN [places EXCEPT ![t] = woken] ELSE places

\* Mutant of Wakes: a writer that leaves wakes only a writer.
WakesWritersOnly(write, places) ==
    IF write /\ pendingWriters # <<>>
    THEN Notified(places, Head(pendingWriters), "waitWriter", "wokenWriter")
    ELSE places

\* A writer wakes the first pending writer; if there is none, or it was no
\* writer, it wakes the first thread that waits for any handle.
Wakes(write, places) ==
    IF write /\ pendingWriters # <<>>
    THEN Notified(places, Head(pendingWriters), "waitWriter", "wokenWriter")
    ELSE IF pendingNormals # <<>>
         THEN Notified(places, Head(pendingNormals), "waitNormal", "wokenNormal")
         ELSE places

Decrease(t) ==
    /\ counted[t] = "yes"
    /\ totalCount' = totalCount - 1
    /\ writerCount' = IF writeHint[t] THEN writerCount - 1 ELSE writerCount
    /\ counted' = Wakes(writeHint[t], [counted EXCEPT ![t] = "no"])
    /\ writeHint' = [writeHint EXCEPT ![t] = FALSE]
    /\ UNCHANGED <<pendingNormals, pendingWriters, spurious>>

\* wait() may return though nobody notified: the standard allows it.
WakeSpuriously(t) ==
    /\ spurious < MaxSpurious
    /\ spurious' = spurious + 1
    /\ \/ counted[t] = "waitNormal" /\ counted' = [counted EXCEPT ![t] = "wokenNormal"]
       \/ counted[t] = "waitWriter" /\ counted' = [counted EXCEPT ![t] = "wokenWriter"]
    /\ UNCHANGED <<totalCount, writerCount, pendingNormals, pendingWriters, writeHint>>

-----------------------------------------------------------------------------
CounterNext ==
    \E t \in Thread :
        \/ \E waits, write \in BOOLEAN : TryIncrease(t, waits, write)
        \/ GoOn(t) \/ Refused(t) \/ Decrease(t) \/ WakeSpuriously(t)

\* A notified thread gets the mutex, and handles go back to the pool: they are
\* recycled when the last reference to them goes out of scope.
CounterFairness == \A t \in Thread : WF_counterVars(GoOn(t) \/ Decrease(t) \/ Refused(t))

CounterSpec == CounterInit /\ [][CounterNext]_counterVars /\ CounterFairness

-----------------------------------------------------------------------------
Counted(t) == counted[t] = "yes"

\* The counters are the handles that are out, and never above the limits.
CountersBounded ==
    /\ totalCount = Cardinality({t \in Thread : Counted(t)})
    /\ writerCount = Cardinality({t \in Thread : Counted(t) /\ writeHint[t]})
    /\ totalCount <= MaxHandles
    /\ writerCount <= MaxWriters

Waits(t) == counted[t] \in {"waitNormal", "waitWriter"}

\* "the handle counter will let the thread that acquires the handle wait in place
\* until other handles are recycled": nobody waits once every handle is back and
\* no notified thread is about to go on.
NobodyStuck ==
    (\E t \in Thread : Waits(t)) =>
        \E t \in Thread : Counted(t) \/ counted[t] \in {"wokenNormal", "wokenWriter"}
=============================================================================
