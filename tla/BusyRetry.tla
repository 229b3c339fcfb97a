----------------------------- MODULE BusyRetry -------------------------------
(***************************************************************************)
(* How WCDB waits for SQLite's locks (core/config/BusyRetryConfig.cpp): it *)
(* follows every change of a lock through a hook, and the busy handler of  *)
(* a connection waits until the lock it could not get can be had, until    *)
(* it is notified so, or for 10 s.  The threads read and write the         *)
(* database and checkpoint its WAL, taking locks as SQLite does.           *)
(***************************************************************************)
EXTENDS SQLiteLocks, Sequences, Selection

CONSTANTS
    Main,           \* the main thread
    Programs,       \* what each thread may do
    MaxPrograms,    \* bound: how often each does something
    MaxSpurious,    \* bound: wakeups without a signal
    Rounds          \* timeouts after which a thread retries: with a busy monitor
                    \* the ones it takes to reach BusyRetryTimeOut, without one 1

ASSUME BusyAssumption ==
    /\ Main \in Thread /\ IsFiniteSet(Thread)
    /\ Rounds \in Nat \ {0} /\ MaxPrograms \in [Thread -> Nat] /\ MaxSpurious \in Nat

VARIABLES
    mode,           \* the journal mode of the database
    pagerType,      \* m_pagerType
    pagerChangeTid, \* m_pagerChangeTid
    shmMasks,       \* m_shmMasks
    waitings,       \* m_waitings: the main thread first, then the others in turn
    expecting,      \* m_tryings: what each thread tried to lock last
    rounds,         \* timeOutTimes, in wait()
    doing,          \* the program of each thread
    left,           \* how many programs it may still start
    locks,          \* how many of its locks the thread holds
    place,          \* where it is in the program, or in wait()
    hooks,          \* what the hook each thread is about to call will report
    spurious,       \* how many wakeups without a signal there were
    mainGaveUp      \* history: the main thread was not notified in time

busyVars == <<pagerType, pagerChangeTid, shmMasks, waitings>>
threadVars == <<expecting, rounds, doing, left, locks, place>>
history == <<spurious, mainGaveUp>>
vars == <<mode, lockVars, busyVars, threadVars, hooks, history>>

Places == {"none", "up", "down", "backOff", "busy", "wait", "woken", "timedOut"}

NoMask == [shared |-> {}, exclusive |-> {}]

NoReport == [on |-> "nothing"]

Init ==
    /\ LocksInit
    /\ mode \in {"wal", "journal"}
    /\ pagerType = None /\ pagerChangeTid = "nobody"
    /\ shmMasks = [t \in Thread |-> NoMask]
    /\ waitings = <<>>
    /\ expecting = [t \in Thread |-> <<>>]
    /\ rounds = [t \in Thread |-> 0]
    /\ doing = [t \in Thread |-> "nothing"]
    /\ left = MaxPrograms
    /\ locks = [t \in Thread |-> 0]
    /\ place = [t \in Thread |-> "none"]
    /\ hooks = [t \in Thread |-> NoReport]
    /\ spurious = 0 /\ mainGaveUp = FALSE

-----------------------------------------------------------------------------
(* The locks a program takes, and what it does when one is busy: it gives   *)
(* up, it tries again at once (WAL_RETRY), it calls the busy handler with   *)
(* the locks it has, or without them and starts anew.                       *)

File(level, ifBusy) == [on |-> "file", level |-> level, ifBusy |-> ifBusy]

Shm(kind, lock, ifBusy) == [on |-> "shm", kind |-> kind, lock |-> lock, ifBusy |-> ifBusy]

Program ==
    [wal |->
        [read |-> <<Shm("shared", "READ", "spin")>>,
         write |-> <<Shm("shared", "READ", "spin"), Shm("exclusive", "WRITE", "restart")>>,
         checkpoint |-> <<Shm("exclusive", "CKPT", "giveUp"),
                          Shm("exclusive", "WRITE", "wait"),
                          Shm("exclusive", "READ", "wait")>>],
     journal |->
        [read |-> <<File(Shared, "wait")>>,
         rollBack |-> <<File(Shared, "wait"), File(Reserved, "restart")>>,
         write |-> <<File(Shared, "wait"), File(Reserved, "restart"),
                     File(Exclusive, "wait")>>]]

ProgramOf(t) == Program[mode][doing[t]]

Wanted(t) == ProgramOf(t)[locks[t] + 1]

-----------------------------------------------------------------------------
(* Expecting::satisfied and State::shouldWait                               *)

PagerSatisfied(level, type) ==
    CASE level = Reserved -> type < Reserved
      [] level \in {Pending, Exclusive} -> type = None
      [] level = Shared -> type < Pending

ShmSatisfied(kind, lock, mask) ==
    /\ lock \notin mask.exclusive
    /\ kind = "exclusive" => lock \notin mask.shared

ShouldWait(t, type, masks) ==
    IF expecting[t].on = "file"
    THEN ~PagerSatisfied(expecting[t].level, type)
    ELSE \E u \in Thread : ~ShmSatisfied(expecting[t].kind, expecting[t].lock, masks[u])

WaitsNow(t) == ShouldWait(t, pagerType, shmMasks)

\* tryNotify(): the main thread, first in the list, stops it while it must wait.
Notified(type, masks) ==
    IF waitings # <<>> /\ Head(waitings) = Main /\ ShouldWait(Main, type, masks)
    THEN {}
    ELSE {waitings[i] : i \in {j \in DOMAIN waitings : ~ShouldWait(waitings[j], type, masks)}}

Notify(threads) == waitings' = Only(waitings, Thread \ threads)

\* A signal reaches a thread that waits; one that has stopped waiting but is
\* still listed only leaves the list.
Woken(threads) ==
    [t \in Thread |-> IF t \in threads /\ place[t] = "wait" THEN "woken" ELSE place[t]]

\* Mutant of PagerLowered: only an unlocked file is news.
LoweredToNone(type) == type < pagerType /\ type = None

PagerLowered(type) == type < pagerType

\* updatePagerLock(): under m_lock; a thread it notifies has been waiting.
UpdatePagerLock(t, type) ==
    LET notified == IF PagerLowered(type) THEN Notified(type, shmMasks) ELSE {}
    IN  /\ pagerType' = type
        /\ pagerChangeTid' = IF type # pagerType THEN t ELSE pagerChangeTid
        /\ Notify(notified)
        /\ place' = Woken(notified)
        /\ UNCHANGED shmMasks

\* Mutant of MaskLowered: the end of a read is no news.
ExclusiveLowered(old, new) == ~(old.exclusive \subseteq new.exclusive)

MaskLowered(old, new) == ~(old.shared \subseteq new.shared /\ old.exclusive \subseteq new.exclusive)

\* updateShmLock(): under m_lock.
UpdateShmLock(t, mask) ==
    LET masks == [shmMasks EXCEPT ![t] = mask]
        notified == IF MaskLowered(shmMasks[t], mask) THEN Notified(pagerType, masks) ELSE {}
    IN  /\ shmMasks' = masks
        /\ Notify(notified)
        /\ place' = Woken(notified)
        /\ UNCHANGED <<pagerType, pagerChangeTid>>

-----------------------------------------------------------------------------
(* SQLite's mutexes.  A lock changes under pInode->pLockMutex or under      *)
(* pShmNode->pShmMutex, and its hook is called before the mutex is left.    *)
(* wait() does not take them: between a change and its hook it sees the     *)
(* locks as they were.                                                      *)

InHook(t) == hooks[t] # NoReport

\* Mutant of MutexFree: the hook is called when the mutex has been left.
MutexLeft(t) == TRUE

\* No other thread has the mutex.
MutexFree(t) == \A u \in Thread \ {t} : ~InHook(u)

\* xLockDidChange, given pInode->eFileLock.  SQLite calls no hook for a SHARED that
\* is not the first or the last, nor where the lock is refused because of another
\* connection's.  Of the two calls of an unlock from above SHARED, with the mutex, the
\* last is modelled: it notifies whoever the first does.
ReportFileLock(t) ==
    hooks' = IF inodeLock' = inodeLock THEN hooks
             ELSE [hooks EXCEPT ![t] = [on |-> "file", type |-> inodeLock']]

\* xShmLockDidChange
ReportShmLock(t) ==
    hooks' = [hooks EXCEPT ![t] =
                [on |-> "shm", mask |-> [shared |-> sharedMask'[t], exclusive |-> exclMask'[t]]]]

\* lockDidChange, shmLockDidChange
Hook(t) ==
    /\ InHook(t)
    /\ IF hooks[t].on = "file"
       THEN UpdatePagerLock(t, hooks[t].type)
       ELSE UpdateShmLock(t, hooks[t].mask)
    /\ hooks' = [hooks EXCEPT ![t] = NoReport]
    /\ UNCHANGED <<mode, lockVars, expecting, rounds, doing, left, locks, history>>

-----------------------------------------------------------------------------
(* Reading, writing and checkpointing                                       *)

Start(t, p) ==
    /\ place[t] = "none" /\ left[t] > 0
    /\ p \in Programs[t] \cap DOMAIN Program[mode]
    /\ doing' = [doing EXCEPT ![t] = p]
    /\ left' = [left EXCEPT ![t] = @ - 1]
    /\ place' = [place EXCEPT ![t] = "up"]
    /\ UNCHANGED <<mode, lockVars, busyVars, expecting, rounds, locks, hooks, history>>

\* The lock is had.
TakeLock(t) ==
    LET top == locks[t] + 1
        then == IF top = Len(ProgramOf(t)) THEN "down" ELSE "up"
    IN  /\ place[t] = "up" /\ ~InHook(t) /\ MutexFree(t)
        /\ \/ /\ Wanted(t).on = "file"
              /\ LockFile(t, Wanted(t).level)
              /\ ReportFileLock(t)
           \/ /\ Wanted(t).on = "shm"
              /\ LockShm(t, Wanted(t).kind, Wanted(t).lock)
              /\ ReportShmLock(t)
        /\ place' = [place EXCEPT ![t] = then]
        /\ expecting' = [expecting EXCEPT ![t] = Wanted(t)]
        /\ locks' = [locks EXCEPT ![t] = top]
        /\ UNCHANGED <<mode, busyVars, rounds, doing, left, history>>

AfterBusy(ifBusy) ==
    CASE ifBusy = "giveUp" -> "down" [] ifBusy = "wait" -> "busy" [] ifBusy = "restart" -> "backOff"

\* The lock is busy; a lock that is tried again at once is just not had yet.
FindBusy(t) ==
    /\ place[t] = "up" /\ ~InHook(t) /\ MutexFree(t)
    /\ Wanted(t).ifBusy # "spin"
    /\ \/ /\ Wanted(t).on = "file"
          /\ FailToLockFile(t, Wanted(t).level)
          /\ ReportFileLock(t)
       \/ /\ Wanted(t).on = "shm"
          /\ ~MayLockShm(t, Wanted(t).kind, Wanted(t).lock)
          /\ UNCHANGED <<lockVars, hooks>>
    /\ place' = [place EXCEPT ![t] = AfterBusy(Wanted(t).ifBusy)]
    /\ expecting' = [expecting EXCEPT ![t] = Wanted(t)]
    /\ UNCHANGED <<mode, busyVars, rounds, doing, left, locks, history>>

\* The last lock taken is released first; the locks of the file go together.
Release(t) ==
    /\ place[t] \in {"down", "backOff"} /\ locks[t] > 0
    /\ ~InHook(t) /\ MutexFree(t)
    /\ IF ProgramOf(t)[locks[t]].on = "file"
       THEN /\ UnlockFile(t)
            /\ ReportFileLock(t)
            /\ locks' = [locks EXCEPT ![t] = 0]
       ELSE /\ UnlockShm(t, ProgramOf(t)[locks[t]].lock)
            /\ ReportShmLock(t)
            /\ locks' = [locks EXCEPT ![t] = @ - 1]
    /\ UNCHANGED <<mode, busyVars, expecting, rounds, doing, left, place, history>>

Unlocked(t) ==
    /\ place[t] \in {"down", "backOff"} /\ locks[t] = 0 /\ ~InHook(t)
    /\ IF place[t] = "down"
       THEN /\ place' = [place EXCEPT ![t] = "none"]
            /\ doing' = [doing EXCEPT ![t] = "nothing"]
       ELSE /\ place' = [place EXCEPT ![t] = "busy"]
            /\ UNCHANGED doing
    /\ UNCHANGED <<mode, lockVars, busyVars, expecting, rounds, left, locks, hooks, history>>

-----------------------------------------------------------------------------
(* wait(), each step under m_lock                                           *)

Others(t) == Only(waitings, Thread \ {t})

\* m_waitings.insert: the main thread first.
Listed(t) == IF t = Main THEN <<t>> \o Others(t) ELSE Append(Others(t), t)

\* The loop's condition: the thread waits, or goes back to SQLite and retries.
WaitOrRetry(t) ==
    IF WaitsNow(t)
    THEN waitings' = Listed(t) /\ place' = [place EXCEPT ![t] = "wait"]
    ELSE waitings' = Others(t) /\ place' = [place EXCEPT ![t] = "up"]

OnBusy(t) ==
    /\ place[t] = "busy" /\ ~InHook(t)
    /\ rounds' = [rounds EXCEPT ![t] = 0]
    /\ WaitOrRetry(t)
    /\ UNCHANGED <<mode, lockVars, pagerType, pagerChangeTid, shmMasks,
                   expecting, doing, left, locks, hooks, history>>

Resume(t) ==
    /\ place[t] = "woken"
    /\ WaitOrRetry(t)
    /\ UNCHANGED <<mode, lockVars, pagerType, pagerChangeTid, shmMasks,
                   expecting, rounds, doing, left, locks, hooks, history>>

WakeSpuriously(t) ==
    /\ place[t] = "wait" /\ spurious < MaxSpurious
    /\ spurious' = spurious + 1
    /\ place' = [place EXCEPT ![t] = "woken"]
    /\ UNCHANGED <<mode, lockVars, busyVars, expecting, rounds, doing, left, locks, hooks,
                   mainGaveUp>>

TimeOut(t) ==
    /\ place[t] = "wait"
    /\ place' = [place EXCEPT ![t] = "timedOut"]
    /\ mainGaveUp' = (mainGaveUp \/ t = Main)
    /\ UNCHANGED <<mode, lockVars, busyVars, expecting, rounds, doing, left, locks, hooks,
                   spurious>>

\* A thread that must still wait calls the busy monitor, and after enough rounds
\* retries anyway.
ResumeTimedOut(t) ==
    /\ place[t] = "timedOut"
    /\ IF WaitsNow(t) /\ rounds[t] + 1 >= Rounds
       THEN waitings' = Others(t) /\ place' = [place EXCEPT ![t] = "up"]
       ELSE WaitOrRetry(t)
    /\ rounds' = IF WaitsNow(t) THEN [rounds EXCEPT ![t] = @ + 1] ELSE rounds
    /\ UNCHANGED <<mode, lockVars, pagerType, pagerChangeTid, shmMasks,
                   expecting, doing, left, locks, hooks, history>>

-----------------------------------------------------------------------------
Step(t) ==
    \/ TakeLock(t) \/ FindBusy(t) \/ Release(t) \/ Unlocked(t) \/ Hook(t)
    \/ OnBusy(t) \/ Resume(t) \/ ResumeTimedOut(t)

Idle == \A t \in Thread : place[t] = "none" /\ left[t] = 0

Next ==
    \/ \E t \in Thread : \/ \E p \in Programs[t] : Start(t, p)
                         \/ Step(t) \/ WakeSpuriously(t) \/ TimeOut(t)
    \/ Idle /\ UNCHANGED vars

\* Who wants a mutex gets it, even if others take it for an instant again and again
\* (strong fairness); nothing else disables a step that a thread could take, but for
\* READ, which is taken exclusively once in a checkpoint.  A timeout is relied on
\* where the code needs one: without a WAL, and where the main thread waits.
TimeOutNeeded(t) ==
    /\ mode = "journal" \/ place[Main] = "wait"
    /\ TimeOut(t)

Spec ==
    /\ Init /\ [][Next]_vars
    /\ \A t \in Thread : SF_vars(Step(t)) /\ WF_vars(TimeOutNeeded(t))
-----------------------------------------------------------------------------
\* Whenever no hook is about to be called, what WCDB knows of the locks is what they
\* are, whatever order the threads changed them in: no report overtakes another.
MirrorsLocks ==
    (\A t \in Thread : ~InHook(t)) =>
        /\ pagerType = inodeLock
        /\ \A t \in Thread : shmMasks[t] = [shared |-> sharedMask[t], exclusive |-> exclMask[t]]

\* A thread that waits waits for a lock that is held: once it could have it, it
\* has been notified (tryNotify), unless the main thread waits for a lock that is
\* not free, or did until it gave up.
NoLostNotification ==
    mainGaveUp \/ \A t \in Thread :
        place[t] = "wait" /\ ~WaitsNow(t) => Head(waitings) = Main /\ WaitsNow(Main)

\* wait(): "WCTAssert(m_pagerChangeTid != 0 && m_pagerChangeTid !=
\* Thread::getCurrentThreadId())" for a thread that has timed out and still waits
\* for the lock of the file.
AnotherChangedPagerLock ==
    \A t \in Thread :
        place[t] = "timedOut" /\ expecting[t].on = "file" /\ WaitsNow(t) =>
            pagerChangeTid \notin {"nobody", t}

\* Every read, write and checkpoint ends: the threads do not wait for each other
\* for ever, and where the database has a WAL and the main thread does not wait
\* they do without timeouts.
EveryProgramEnds ==
    \A t \in Thread : place[t] = "up" ~> (place[t] = "none" \/ mainGaveUp)
=============================================================================
