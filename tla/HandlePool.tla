----------------------------- MODULE HandlePool ------------------------------
(***************************************************************************)
(* The handles of one database (core/HandlePool.cpp), how InnerDatabase    *)
(* initializes and closes it, and the counter and the concurrency lock     *)
(* they use.  The lock is what ReentrantRWLock promises, with the queue of *)
(* writers that SharedLock keeps; a lock that must wait is a step that is  *)
(* not enabled.  Sections under the memory lock are single actions.        *)
(***************************************************************************)
EXTENDS HandleCounter

CONSTANTS
    Task,           \* the threads of background tasks: checkpoint, backup, ...
    Closer,         \* the threads that may close or blockade the database
    Handle, NoHandle,
    MaxReferences   \* bound: the references each thread has to its handle

ASSUME PoolAssumption ==
    /\ Task \subseteq Thread /\ Closer \subseteq Thread \ Task
    /\ NoHandle \notin Handle
    /\ IsFiniteSet(Handle) /\ Cardinality(Handle) > MaxHandles
    /\ MaxReferences \in [Thread -> Nat]

VARIABLES
    reads, writes,  \* the holds of m_concurrency
    queue,          \* the threads that wait to hold it for writing
    handles,        \* m_handles
    frees,          \* m_frees
    closed,         \* the handles that were closed, or not made yet
    held,           \* m_threadedHandles[category].handle
    references,     \* m_threadedHandles[category].reference
    taken,          \* the local variable handle of flowOut
    initialized,    \* m_initialized
    at,             \* where each thread is in getHandle, flowBack or close
    blocking        \* the callback a thread runs while it blocks the others

lockVars == <<reads, writes, queue>>
poolVars == <<handles, frees, closed, initialized>>
threadVars == <<held, references, taken>>
vars == <<counterVars, lockVars, poolVars, threadVars, at, blocking>>

\* HandleSlotNormal and HandleSlotAutoTask; a thread uses one of them.
Slot == {"normal", "auto"}

SlotOf(t) == IF t \in Task THEN "auto" ELSE "normal"

Places == {"idle", "check", "initialize", "queueToInitialize",
           "flowOut", "count", "generate", "reuse", "failed",
           "unshare", "uncount", "suspend", "drain", "queueToDrain", "queueToBlock"}

Init ==
    /\ CounterInit
    /\ reads = [t \in Thread |-> 0] /\ writes = [t \in Thread |-> 0]
    /\ queue = <<>>
    /\ handles = [s \in Slot |-> {}] /\ frees = [s \in Slot |-> {}]
    /\ closed = Handle
    /\ held = [t \in Thread |-> NoHandle]
    /\ references = [t \in Thread |-> 0]
    /\ taken = [t \in Thread |-> NoHandle]
    /\ initialized = FALSE
    /\ at = [t \in Thread |-> "idle"]
    /\ blocking = [t \in Thread |-> "no"]

Goto(t, place) == at' = [at EXCEPT ![t] = place]

-----------------------------------------------------------------------------
Concurrency == INSTANCE ReentrantRWLock

\* Mutant of MayShare: new readers pass the writers that wait.
MayPass(t) == writes[t] > 0 \/ \A u \in Thread : writes[u] = 0

\* SharedLock lets new readers wait for the writers that wait.
MayShare(t) == writes[t] > 0 \/ reads[t] > 0 \/ queue = <<>>

LockShared(t) ==
    /\ MayShare(t)
    /\ Concurrency!GrantRead(t)
    /\ UNCHANGED queue

\* A short section under lockShared that ends before the thread does anything
\* the others see.
Visit(t) ==
    /\ MayShare(t)
    /\ \A u \in Thread \ {t} : writes[u] = 0
    /\ UNCHANGED lockVars

UnlockShared(t) == Concurrency!ReleaseRead(t) /\ UNCHANGED queue

\* A thread that writes already need not queue.
Enqueue(t) ==
    /\ queue' = IF writes[t] > 0 THEN queue ELSE Append(queue, t)
    /\ UNCHANGED <<reads, writes>>

AtItsTurn(t) == writes[t] > 0 \/ (queue # <<>> /\ Head(queue) = t)

QueueWithout(t) == IF writes[t] > 0 THEN queue ELSE Tail(queue)

Lock(t) ==
    /\ AtItsTurn(t)
    /\ Concurrency!GrantWrite(t)
    /\ queue' = QueueWithout(t)

\* A section under lock.
VisitAlone(t) ==
    /\ AtItsTurn(t)
    /\ \A u \in Thread \ {t} : reads[u] = 0 /\ writes[u] = 0
    /\ queue' = QueueWithout(t)
    /\ UNCHANGED <<reads, writes>>

Unlock(t) == Concurrency!ReleaseWrite(t) /\ UNCHANGED queue

-----------------------------------------------------------------------------
(* getHandle, and the tasks that begin with initialize() and flowOut.       *)

\* MaxReferences bounds the nesting.
GetHandle(t, write) ==
    /\ at[t] = "idle"
    /\ references[t] < MaxReferences[t]
    /\ write => t \notin Task
    /\ writeHint' = [writeHint EXCEPT ![t] = IF counted[t] = "no" THEN write ELSE @]
    /\ Goto(t, "check")
    /\ UNCHANGED <<totalCount, writerCount, pendingNormals, pendingWriters, counted,
                   spurious, lockVars, poolVars, threadVars, blocking>>

\* Mutant of Check: the hold of initialize() ends before flowOut.
CheckWithoutHold(t) ==
    /\ at[t] = "check"
    /\ Visit(t)
    /\ IF initialized THEN Goto(t, "flowOut") ELSE Goto(t, "initialize")
    /\ UNCHANGED <<counterVars, poolVars, threadVars, blocking>>

\* initialize(): once the database is initialized the thread keeps its hold.
Check(t) ==
    /\ at[t] = "check"
    /\ \/ initialized /\ LockShared(t) /\ Goto(t, "flowOut")
       \/ ~initialized /\ Visit(t) /\ Goto(t, "initialize")
    /\ UNCHANGED <<counterVars, poolVars, threadVars, blocking>>

Initialize(t) ==
    /\ at[t] = "initialize"
    /\ Enqueue(t) /\ Goto(t, "queueToInitialize")
    /\ UNCHANGED <<counterVars, poolVars, threadVars, blocking>>

\* "Blocked initialization": the second look, then the files.
InitializeBlocked(t) ==
    /\ at[t] = "queueToInitialize"
    /\ VisitAlone(t)
    /\ \/ /\ Goto(t, "check") /\ initialized' = TRUE
       \/ /\ ~initialized
          /\ Goto(t, "idle") /\ UNCHANGED initialized
    /\ UNCHANGED <<counterVars, handles, frees, closed, threadVars, blocking>>

\* The thread has a handle of this category: one more reference to it.
FlowOutAgain(t) ==
    /\ at[t] = "flowOut" /\ held[t] # NoHandle
    /\ references' = [references EXCEPT ![t] = @ + 1]
    /\ UnlockShared(t) /\ Goto(t, "idle")
    /\ UNCHANGED <<counterVars, poolVars, held, taken, blocking>>

\* Mutant of ShouldWait: background tasks wait as well.
EveryoneWaits(t) == TRUE

\* handleShouldWaitWhenFull
ShouldWait(t) == t \notin Task

FlowOut(t) ==
    /\ at[t] = "flowOut" /\ held[t] = NoHandle
    /\ TryIncrease(t, ShouldWait(t), writeHint[t])
    /\ Goto(t, "count")
    /\ UNCHANGED <<lockVars, poolVars, threadVars, blocking>>

WaitForHandle(t) ==
    /\ GoOn(t)
    /\ UNCHANGED <<lockVars, poolVars, threadVars, at, blocking>>

\* The counter refuses: "The operating count of database exceeds the maximum".
Exceeds(t) ==
    /\ at[t] = "count"
    /\ Refused(t)
    /\ UnlockShared(t) /\ Goto(t, "idle")
    /\ UNCHANGED <<poolVars, threadVars, blocking>>

TakeFree(t) ==
    /\ at[t] = "count" /\ Counted(t)
    /\ LockShared(t)
    /\ \/ \E h \in frees[SlotOf(t)] :
            /\ taken' = [taken EXCEPT ![t] = h]
            /\ frees' = [frees EXCEPT ![SlotOf(t)] = @ \ {h}]
            /\ Goto(t, "reuse")
       \/ /\ frees[SlotOf(t)] = {}
          /\ Goto(t, "generate")
          /\ UNCHANGED <<frees, taken>>
    /\ UNCHANGED <<counterVars, handles, closed, initialized, held, references, blocking>>

\* What a thread does with the handle it got: a hold of its own replaces the two
\* that flowOut and initialize() took.
Hold(t, h) ==
    /\ held' = [held EXCEPT ![t] = h]
    /\ references' = [references EXCEPT ![t] = 1]
    /\ taken' = [taken EXCEPT ![t] = NoHandle]
    /\ reads' = [reads EXCEPT ![t] = @ - 1]
    /\ Goto(t, "idle")
    /\ UNCHANGED <<writes, queue, counterVars, blocking>>

Alive(slots) == UNION {slots[s] : s \in Slot}

\* Mutant of Purged: purge only looks at the slot of the new handle.
PurgedOneSlot(s, slots) == IF s = "normal" THEN frees[s] \cap slots[s] ELSE {}

\* purge(): the handles that are free in each slot.
Purged(s, slots) == frees[s] \cap slots[s]

\* A handle is made.  With more than MaxHandles alive, the free ones go.
Generate(t) ==
    /\ at[t] = "generate"
    /\ LET h == CHOOSE h \in Handle : h \notin Alive(handles)
            more == [handles EXCEPT ![SlotOf(t)] = @ \cup {h}]
            gone == [s \in Slot |-> IF Cardinality(Alive(more)) > MaxHandles
                                    THEN Purged(s, more) ELSE {}]
        IN  /\ handles' = [s \in Slot |-> more[s] \ gone[s]]
            /\ frees' = [s \in Slot |-> frees[s] \ gone[s]]
            /\ closed' = (closed \ {h}) \cup Alive(gone)
            /\ Hold(t, h)
    /\ UNCHANGED initialized

\* Or it cannot be opened.
GenerateFails(t) ==
    /\ at[t] = "generate"
    /\ Goto(t, "failed")
    /\ UNCHANGED <<counterVars, lockVars, poolVars, threadVars, blocking>>

Reuse(t) ==
    /\ at[t] = "reuse"
    /\ Hold(t, taken[t])
    /\ UNCHANGED poolVars

\* Mutant of ReuseFails: the handle is closed but not erased.
ReuseFailsKeepingIt(t) ==
    /\ at[t] = "reuse"
    /\ closed' = closed \cup {taken[t]}
    /\ taken' = [taken EXCEPT ![t] = NoHandle]
    /\ Goto(t, "failed")
    /\ UNCHANGED <<counterVars, lockVars, handles, frees, initialized, held, references,
                   blocking>>

\* A free handle that cannot be configured again is closed and forgotten.
ReuseFails(t) ==
    /\ at[t] = "reuse"
    /\ closed' = closed \cup {taken[t]}
    /\ handles' = [handles EXCEPT ![SlotOf(t)] = @ \ {taken[t]}]
    /\ taken' = [taken EXCEPT ![t] = NoHandle]
    /\ Goto(t, "failed")
    /\ UNCHANGED <<counterVars, lockVars, frees, initialized, held, references, blocking>>

\* flowOut returns nullptr: the place in the counter and its two holds go back.
GiveUp(t) ==
    /\ at[t] = "failed"
    /\ Decrease(t)
    /\ reads' = [reads EXCEPT ![t] = @ - 2]
    /\ Goto(t, "idle")
    /\ UNCHANGED <<writes, queue, poolVars, threadVars, blocking>>

-----------------------------------------------------------------------------
(* A RecyclableHandle goes out of scope.                                    *)

DropReference(t) ==
    /\ at[t] = "idle" /\ references[t] > 1
    /\ references' = [references EXCEPT ![t] = @ - 1]
    /\ UNCHANGED <<counterVars, lockVars, poolVars, held, taken, at, blocking>>

Push(t, h) == frees' = [frees EXCEPT ![SlotOf(t)] = @ \cup {h}]

\* The last reference: the handle is free again ...
FlowBack(t) ==
    /\ at[t] = "idle" /\ references[t] = 1
    /\ references' = [references EXCEPT ![t] = 0]
    /\ held' = [held EXCEPT ![t] = NoHandle]
    /\ Push(t, held[t])
    /\ Goto(t, "unshare")
    /\ UNCHANGED <<counterVars, lockVars, handles, closed, initialized, taken, blocking>>

\* ... and only then may the database be closed ...
Unshare(t) ==
    /\ at[t] = "unshare"
    /\ UnlockShared(t)
    /\ Goto(t, "uncount")
    /\ UNCHANGED <<counterVars, poolVars, threadVars, blocking>>

\* ... and another thread have its place.
Uncount(t) ==
    /\ at[t] = "uncount"
    /\ Decrease(t)
    /\ Goto(t, "idle")
    /\ UNCHANGED <<lockVars, poolVars, threadVars, blocking>>

-----------------------------------------------------------------------------
(* purge, close and blockade.                                               *)

\* HandlePool::purge, as DatabasePool::purge calls it for each database.
Purge(t) ==
    /\ at[t] = "idle" /\ t \in Task /\ held[t] = NoHandle
    /\ Visit(t)
    /\ handles' = [s \in Slot |-> handles[s] \ frees[s]]
    /\ closed' = closed \cup Alive(frees)
    /\ frees' = [s \in Slot |-> {}]
    /\ UNCHANGED <<counterVars, initialized, threadVars, at, blocking>>

\* close(): m_closing tells the tasks to end, which they do at any time here.
Close(t) ==
    /\ at[t] = "idle" /\ t \in Closer /\ blocking[t] = "no"
    /\ Goto(t, "suspend")
    /\ UNCHANGED <<counterVars, lockVars, poolVars, threadVars, blocking>>

Suspend(t) ==
    /\ at[t] = "suspend"
    /\ Visit(t) /\ Goto(t, "drain")
    /\ UNCHANGED <<counterVars, poolVars, threadVars, blocking>>

\* drain(), which a thread that uses a handle is refused.
Drain(t) ==
    /\ at[t] = "drain"
    /\ \/ /\ reads[t] > 0
          /\ Goto(t, "idle") /\ UNCHANGED lockVars
       \/ /\ reads[t] = 0
          /\ Enqueue(t) /\ Goto(t, "queueToDrain")
    /\ UNCHANGED <<counterVars, poolVars, threadVars, blocking>>

\* clearAllHandles() and didDrain()
ClearAllHandles ==
    /\ closed' = closed \cup Alive(handles)
    /\ handles' = [s \in Slot |-> {}]
    /\ frees' = [s \in Slot |-> {}]
    /\ initialized' = FALSE

\* Mutant of Drained: the handles are cleared without the lock.
DrainedAtOnce(t) ==
    /\ at[t] = "queueToDrain"
    /\ AtItsTurn(t)
    /\ queue' = QueueWithout(t)
    /\ ClearAllHandles
    /\ Goto(t, "idle")
    /\ UNCHANGED <<counterVars, reads, writes, threadVars, blocking>>

Drained(t) ==
    /\ at[t] = "queueToDrain"
    /\ Lock(t)
    /\ ClearAllHandles
    /\ blocking' = [blocking EXCEPT ![t] = "close"]
    /\ Goto(t, "idle")
    /\ UNCHANGED <<counterVars, threadVars>>

\* blockade(), when a corruption is reported.
Blockade(t) ==
    /\ at[t] = "idle" /\ t \in Closer /\ blocking[t] = "no" /\ reads[t] = 0
    /\ Enqueue(t) /\ Goto(t, "queueToBlock")
    /\ UNCHANGED <<counterVars, poolVars, threadVars, blocking>>

Blockaded(t) ==
    /\ at[t] = "queueToBlock"
    /\ Lock(t)
    /\ blocking' = [blocking EXCEPT ![t] = "blockade"]
    /\ Goto(t, "idle")
    /\ UNCHANGED <<counterVars, poolVars, threadVars>>

\* Mutant of CallbackEnds: the handles of the callback are not cleared.
CallbackEndsOnce(t) ==
    /\ at[t] = "idle" /\ held[t] = NoHandle
    /\ blocking[t] # "no"
    /\ blocking' = [blocking EXCEPT ![t] = "no"]
    /\ IF blocking[t] = "close"
       THEN initialized' = FALSE /\ UNCHANGED <<handles, frees, closed>>
       ELSE UNCHANGED poolVars
    /\ Unlock(t)
    /\ UNCHANGED <<counterVars, threadVars, at>>

\* onDrained returned ("double-clear"), or the notification of a blockade did.
CallbackEnds(t) ==
    /\ at[t] = "idle" /\ held[t] = NoHandle
    /\ blocking[t] # "no"
    /\ blocking' = [blocking EXCEPT ![t] = "no"]
    /\ IF blocking[t] = "close" THEN ClearAllHandles ELSE UNCHANGED poolVars
    /\ Unlock(t)
    /\ UNCHANGED <<counterVars, threadVars, at>>

-----------------------------------------------------------------------------
Begin(t) ==
    \/ \E write \in BOOLEAN : GetHandle(t, write)
    \/ Close(t) \/ Blockade(t) \/ Purge(t)

\* The steps of a call under way.
Proceed(t) ==
    \/ Check(t) \/ Initialize(t) \/ InitializeBlocked(t)
    \/ FlowOutAgain(t) \/ FlowOut(t) \/ WaitForHandle(t) \/ Exceeds(t)
    \/ TakeFree(t) \/ Generate(t) \/ GenerateFails(t) \/ Reuse(t) \/ ReuseFails(t)
    \/ GiveUp(t) \/ Unshare(t) \/ Uncount(t)
    \/ Suspend(t) \/ Drain(t) \/ Drained(t) \/ Blockaded(t) \/ CallbackEnds(t)

Recycle(t) == DropReference(t) \/ FlowBack(t)

Next == \E t \in Thread : Begin(t) \/ Proceed(t) \/ Recycle(t)

Spec == Init /\ [][Next]_vars

\* A thread in a call goes on when it may; no handle is used for ever; and no
\* callback takes for ever, unless it waits for a handle.
Fairness ==
    \A t \in Thread :
        /\ WF_vars(Proceed(t))
        /\ []<>(held[t] = NoHandle)
        /\ []<>(blocking[t] = "no") \/ <>[]Waits(t)

FairSpec == Spec /\ Fairness

-----------------------------------------------------------------------------
\* The handles a thread works with.
Uses(t) == {held[t], taken[t]} \ {NoHandle}

\* One thread uses a handle at a time, and a handle in use is neither free nor
\* closed, whichever thread purges, closes the database or gives a handle back
\* meanwhile.
UsedAlone ==
    \A t \in Thread : \A h \in Uses(t) :
        /\ h \in handles[SlotOf(t)] \ closed
        /\ \A s \in Slot : h \notin frees[s]
        /\ \A u \in Thread \ {t} : h \notin Uses(u)

\* A free handle was not closed, and each handle that is alive is free or used:
\* none is lost.
NoneLost ==
    \A s \in Slot :
        /\ frees[s] \subseteq handles[s] \ closed
        /\ \A h \in handles[s] \ frees[s] : \E t \in Thread : h \in Uses(t)

\* WCTAssert(isNumberOfHandlesAllowed()): making a handle and clearing the free
\* ones of all slots keeps the limit, though other threads make theirs meanwhile.
AliveBounded == Cardinality(Alive(handles)) <= MaxHandles

\* A thread in use of a handle sees the database initialized and not closed, so
\* that it never asks to write the lock it reads.
NeverUpgrades ==
    \A t \in Thread :
        /\ Uses(t) # {} => initialized
        /\ at[t] \in {"initialize", "queueToInitialize"} => reads[t] = 0

\* WCTAssert(!isOpened()): a database that was closed has no open handle, though
\* its callback may have used some, so that its files may be moved or removed.
ClosedIsEmpty == ~initialized => Alive(handles) = {}

\* Closing and blockading wait for every handle that is out, and for nothing else:
\* threads that use a handle may nest and wait for others, new ones do not pass.
CloseReturns ==
    \A t \in Closer : at[t] \in {"queueToDrain", "queueToBlock"} ~> at[t] = "idle"

\* A task gets its handle or is refused, however the other threads wait for
\* theirs, once the database stays open: a lock asked for writing passes readers.
StaysOpen == <>[](initialized /\ queue = <<>>)

TaskReturns == StaysOpen => \A t \in Task : at[t] # "idle" ~> at[t] = "idle"
=============================================================================
