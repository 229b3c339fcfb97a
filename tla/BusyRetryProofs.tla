--------------------------- MODULE BusyRetryProofs ---------------------------
(***************************************************************************)
(* Proofs about SQLite's locks and what WCDB knows of them, for any finite *)
(* set of threads that read, write, roll back and checkpoint.              *)
(***************************************************************************)
EXTENDS BusyRetry, SequenceLemmas

ShmLock == {"READ", "WRITE", "CKPT"}

LocksTyped ==
    /\ fileLock \in [Thread -> None..Exclusive] /\ inodeLock \in None..Exclusive
    /\ sharedMask \in [Thread -> SUBSET ShmLock] /\ exclMask \in [Thread -> SUBSET ShmLock]

Holders == {t \in Thread : fileLock[t] # None}

LevelsExclude ==
    /\ \A t, u \in Thread : t # u =>
        /\ fileLock[t] = Exclusive => fileLock[u] = None
        /\ fileLock[t] >= Reserved => fileLock[u] < Reserved
    /\ nShared = Cardinality(Holders)
    /\ \A t \in Thread : fileLock[t] <= inodeLock
    /\ inodeLock # None => \E t \in Thread : fileLock[t] = inodeLock

MasksExclude ==
    \A t, u \in Thread : t # u => exclMask[t] \cap (exclMask[u] \cup sharedMask[u]) = {}

JournalProgram == {"read", "rollBack", "write"}

WalProgram == {"read", "write", "checkpoint"}

Mask == [shared : SUBSET ShmLock, exclusive : SUBSET ShmLock]

Report == {NoReport} \cup [on : {"file"}, type : None..Exclusive] \cup [on : {"shm"}, mask : Mask]

BusyTyped ==
    /\ mode \in {"wal", "journal"}
    /\ pagerType \in None..Exclusive /\ shmMasks \in [Thread -> Mask]
    /\ hooks \in [Thread -> Report]
    /\ doing \in [Thread -> {"nothing"} \cup JournalProgram \cup WalProgram]
    /\ locks \in [Thread -> Nat]
    /\ place \in [Thread -> Places]

\* The level of the file's lock once a program took n of its locks; PENDING is
\* what is left of a vain try of the third.
LevelFits(n, level) ==
    \/ n = 0 /\ level = None
    \/ n = 1 /\ level = Shared
    \/ n = 2 /\ level \in {Reserved, Pending}
    \/ n = 3 /\ level = Exclusive

FitsMode(p) ==
    /\ mode = "wal" => p \in WalProgram
    /\ mode = "journal" => p \in JournalProgram

TakenSome(t) == locks[t] <= Len(ProgramOf(t))

MoreToTake(t) == locks[t] < Len(ProgramOf(t))

LevelKept(t) ==
    /\ mode = "journal" => LevelFits(locks[t], fileLock[t])
    /\ mode = "wal" => fileLock[t] = None

\* A thread has the locks its program took so far, and more to take unless it
\* releases them.
WorkFits(t) ==
    /\ place[t] = "none" => locks[t] = 0
    /\ place[t] # "none" => FitsMode(doing[t]) /\ TakenSome(t)
    /\ place[t] \notin {"none", "down", "backOff"} => MoreToTake(t)
    /\ LevelKept(t)

WorksFit == \A t \in Thread : WorkFits(t)

MaskOf(t) == [shared |-> sharedMask[t], exclusive |-> exclMask[t]]

\* Where a thread may be while it has a hook to call.
Working == {"up", "down", "backOff", "busy"}

\* A hook that is about to be called is the only one, and reports the locks as they are.
HookFits(t) ==
    InHook(t) =>
        /\ place[t] \in Working /\ MutexFree(t)
        /\ hooks[t].on = "file" => hooks[t].type = inodeLock
        /\ hooks[t].on = "shm" => hooks[t].mask = MaskOf(t)

\* What has been reported of the locks is what they are.
FileReported == (\A t \in Thread : hooks[t].on # "file") => pagerType = inodeLock

MasksReported == \A t \in Thread : hooks[t].on # "shm" => shmMasks[t] = MaskOf(t)

HooksKept == (\A t \in Thread : HookFits(t)) /\ FileReported /\ MasksReported

BusyInv ==
    /\ LocksTyped /\ LevelsExclude /\ MasksExclude
    /\ BusyTyped /\ WorksFit /\ HooksKept

-----------------------------------------------------------------------------
(* The programs.                                                            *)

\* Without a WAL a program locks the file, level by level.
LEMMA JournalPrograms ==
    ASSUME NEW p \in JournalProgram
    PROVE  /\ Len(Program["journal"][p]) \in 1..3
           /\ \A i \in 1..Len(Program["journal"][p]) :
                 /\ Program["journal"][p][i].on = "file"
                 /\ i = 1 => Program["journal"][p][i].level = Shared
                 /\ i = 2 => Program["journal"][p][i].level = Reserved
                 /\ i = 3 => Program["journal"][p][i].level = Exclusive
<1>1. CASE p = "read"
    BY <1>1 DEF Program, File, Shared, Reserved, Exclusive
<1>2. CASE p = "rollBack"
    BY <1>2 DEF Program, File, Shared, Reserved, Exclusive
<1>3. CASE p = "write"
    BY <1>3 DEF Program, File, Shared, Reserved, Exclusive
<1> QED
    BY <1>1, <1>2, <1>3 DEF JournalProgram

\* With one it takes locks of the shared memory.
LEMMA WalPrograms ==
    ASSUME NEW p \in WalProgram
    PROVE  /\ Len(Program["wal"][p]) \in 1..3
           /\ \A i \in 1..Len(Program["wal"][p]) :
                 /\ Program["wal"][p][i].on = "shm"
                 /\ Program["wal"][p][i].kind \in {"shared", "exclusive"}
                 /\ Program["wal"][p][i].lock \in ShmLock
<1>1. CASE p = "read"
    BY <1>1 DEF Program, Shm, ShmLock
<1>2. CASE p = "write"
    BY <1>2 DEF Program, Shm, ShmLock
<1>3. CASE p = "checkpoint"
    BY <1>3 DEF Program, Shm, ShmLock
<1> QED
    BY <1>1, <1>2, <1>3 DEF WalProgram

\* The programs of each journal mode.
LEMMA ProgramDomains ==
    /\ DOMAIN Program["journal"] = JournalProgram
    /\ DOMAIN Program["wal"] = WalProgram
BY DEF Program, JournalProgram, WalProgram

-----------------------------------------------------------------------------
(* The lock of the file.                                                    *)

\* Finitely many threads hold a lock.
LEMMA HoldersFinite ==
    ASSUME LevelsExclude
    PROVE  IsFiniteSet(Holders) /\ nShared = Cardinality(Holders) /\ nShared \in Nat
<1>1. Holders \in SUBSET Thread
    BY DEF Holders
<1>2. IsFiniteSet(Holders)
    BY <1>1, BusyAssumption, FS_Subset
<1> QED
    BY <1>2, FS_CardinalityType DEF LevelsExclude

\* Two connections that hold the lock are counted as two.
LEMMA TwoHolders ==
    ASSUME LevelsExclude, NEW t \in Holders, NEW u \in Holders, t # u
    PROVE  nShared > 1
<1>1. u \in Holders \ {t} /\ IsFiniteSet(Holders \ {t})
    BY HoldersFinite, FS_RemoveElement
<1>2. Cardinality(Holders \ {t}) # 0
    BY <1>1, FS_EmptySet
<1>3. Cardinality(Holders \ {t}) = Cardinality(Holders) - 1
    BY HoldersFinite, FS_RemoveElement
<1>4. Cardinality(Holders \ {t}) \in Nat
    BY <1>1, FS_CardinalityType
<1> QED
    BY <1>2, <1>3, <1>4, HoldersFinite

\* And more than one are counted only if there is another.
LEMMA OtherHolder ==
    ASSUME LevelsExclude, NEW t \in Holders, nShared # 1
    PROVE  \E u \in Holders : u # t
<1> SUFFICES ASSUME Holders = {t} PROVE FALSE
    OBVIOUS
<1> QED
    BY HoldersFinite, FS_Singleton

\* A lock taken, in the order the levels are taken.
LEMMA LockFileKeeps ==
    ASSUME LocksTyped, LevelsExclude, NEW t \in Thread,
           NEW level \in {Shared, Reserved, Exclusive}, LockFile(t, level),
           level = Shared => fileLock[t] = None,
           level = Reserved => fileLock[t] = Shared,
           level = Exclusive => fileLock[t] \in {Reserved, Pending}
    PROVE  LocksTyped' /\ LevelsExclude'
<1> USE DEF None, Shared, Reserved, Pending, Exclusive
<1>1. /\ fileLock' = [fileLock EXCEPT ![t] = level]
      /\ nShared' = IF level = Shared THEN nShared + 1 ELSE nShared
      /\ inodeLock' = IF level > inodeLock THEN level ELSE inodeLock
      /\ UNCHANGED <<sharedMask, exclMask>>
      /\ ~Precluded(t, level) /\ ~Crowded(level)
    BY DEF LockFile, MayLockFile, shmVars
<1>2. LocksTyped'
    BY <1>1 DEF LocksTyped
<1>3. /\ fileLock'[t] = level
      /\ \A u \in Thread : u # t => fileLock'[u] = fileLock[u]
      /\ \A u \in Thread : fileLock[u] \in 0..4 /\ inodeLock \in 0..4
    BY <1>1 DEF LocksTyped
<1>4. nShared' = Cardinality(Holders')
    <2>1. CASE level = Shared
        <3>1. Holders' = Holders \cup {t} /\ t \notin Holders
            BY <1>3, <2>1 DEF Holders
        <3>2. Cardinality(Holders \cup {t}) = Cardinality(Holders) + 1
            BY <3>1, HoldersFinite, FS_AddElement
        <3> QED BY <1>1, <2>1, <3>1, <3>2, HoldersFinite
    <2>2. CASE level # Shared
        <3>1. Holders' = Holders
            BY <1>3, <2>2 DEF Holders
        <3> QED BY <1>1, <2>2, <3>1, HoldersFinite
    <2> QED BY <2>1, <2>2
<1>5. \A u \in Thread : fileLock'[u] <= inodeLock'
    BY <1>1, <1>3 DEF LevelsExclude
<1>6. \E u \in Thread : fileLock'[u] = inodeLock'
    <2>1. CASE level >= inodeLock
        BY <1>1, <1>3, <2>1
    <2>2. CASE level < inodeLock
        <3>1. PICK u \in Thread : fileLock[u] = inodeLock
            BY <1>3, <2>2 DEF LevelsExclude
        <3>2. u # t
            BY <1>3, <2>2, <3>1
        <3> QED BY <1>1, <1>3, <2>2, <3>1, <3>2
    <2> QED BY <1>3, <2>1, <2>2
<1>7. ASSUME NEW u \in Thread, u # t
      PROVE  /\ level = Exclusive => fileLock[u] = None
             /\ level >= Reserved => fileLock[u] < Reserved
             /\ fileLock[u] # Exclusive
             /\ level >= Reserved => ~(fileLock[u] >= Reserved)
    <2>1. CASE level = Exclusive
        <3>1. ~(nShared > 1) /\ t \in Holders
            BY <1>1, <2>1 DEF Crowded, Holders
        <3>2. u \notin Holders
            BY <1>7, <3>1, TwoHolders
        <3> QED BY <2>1, <3>2 DEF Holders
    <2>2. CASE level = Reserved
        <3>1. fileLock[t] = Shared /\ inodeLock = Shared
            BY <1>1, <1>3, <2>2 DEF Precluded
        <3>2. fileLock[u] <= Shared
            BY <3>1 DEF LevelsExclude
        <3> QED BY <1>3, <2>2, <3>2
    <2>3. CASE level = Shared
        <3>1. fileLock[t] = None /\ (inodeLock = None \/ inodeLock < Pending)
            BY <1>1, <1>3, <2>3 DEF Precluded
        <3>2. fileLock[u] < Exclusive
            BY <1>3, <3>1 DEF LevelsExclude
        <3> QED BY <1>3, <2>3, <3>2
    <2> QED BY <2>1, <2>2, <2>3
<1>8. \A v, u \in Thread : v # u =>
        /\ fileLock'[v] = Exclusive => fileLock'[u] = None
        /\ fileLock'[v] >= Reserved => fileLock'[u] < Reserved
    <2> SUFFICES ASSUME NEW v \in Thread, NEW u \in Thread, v # u
                 PROVE  /\ fileLock'[v] = Exclusive => fileLock'[u] = None
                        /\ fileLock'[v] >= Reserved => fileLock'[u] < Reserved
        OBVIOUS
    <2>1. CASE v = t
        BY <1>3, <1>7, <2>1
    <2>2. CASE u = t
        BY <1>3, <1>7, <2>2
    <2>3. CASE v # t /\ u # t
        BY <1>3, <2>3 DEF LevelsExclude
    <2> QED BY <2>1, <2>2, <2>3
<1> QED
    BY <1>2, <1>4, <1>5, <1>6, <1>8 DEF LevelsExclude

\* A lock that is busy: only the one that is reserved goes to PENDING.
LEMMA FailToLockFileKeeps ==
    ASSUME LocksTyped, LevelsExclude, NEW t \in Thread,
           NEW level \in {Shared, Reserved, Exclusive}, FailToLockFile(t, level),
           level = Exclusive => fileLock[t] \in {Reserved, Pending}
    PROVE  /\ LocksTyped' /\ LevelsExclude'
           /\ UNCHANGED fileLock \/ (level = Exclusive /\ fileLock' = [fileLock EXCEPT ![t] = Pending])
<1> USE DEF None, Shared, Reserved, Pending, Exclusive
<1>1. CASE Precluded(t, level)
    <2>1. UNCHANGED <<fileLock, inodeLock, nShared, sharedMask, exclMask>>
        BY <1>1 DEF FailToLockFile, fileVars, shmVars
    <2> QED BY <2>1 DEF LocksTyped, LevelsExclude, Holders
<1>2. CASE ~Precluded(t, level)
    <2>1. /\ fileLock' = [fileLock EXCEPT ![t] = Pending] /\ inodeLock' = Pending
          /\ UNCHANGED <<nShared, sharedMask, exclMask>>
          /\ level = Exclusive
        BY <1>2 DEF FailToLockFile, MayLockFile, Crowded, shmVars
    <2>2. LocksTyped'
        BY <2>1 DEF LocksTyped
    <2>3. /\ fileLock'[t] = Pending /\ fileLock[t] >= Reserved
          /\ \A u \in Thread : u # t => fileLock'[u] = fileLock[u] /\ fileLock[u] < Reserved
        BY <2>1 DEF LocksTyped, LevelsExclude
    <2>4. Holders' = Holders
        BY <2>3 DEF Holders
    <2> QED BY <2>1, <2>2, <2>3, <2>4 DEF LevelsExclude, LocksTyped
<1> QED
    BY <1>1, <1>2

\* Giving the file lock back keeps the locks apart.
LEMMA UnlockFileKeeps ==
    ASSUME LocksTyped, LevelsExclude, NEW t \in Thread, UnlockFile(t)
    PROVE  LocksTyped' /\ LevelsExclude'
<1> USE DEF None, Shared, Reserved, Pending, Exclusive
<1>1. /\ fileLock[t] # None /\ fileLock' = [fileLock EXCEPT ![t] = None]
      /\ nShared' = nShared - 1
      /\ inodeLock' = IF nShared = 1 THEN None
                      ELSE IF fileLock[t] > Shared THEN Shared ELSE inodeLock
      /\ UNCHANGED <<sharedMask, exclMask>>
    BY DEF UnlockFile, shmVars
<1>2. LocksTyped'
    BY <1>1 DEF LocksTyped
<1>3. /\ fileLock'[t] = None
      /\ \A u \in Thread : u # t => fileLock'[u] = fileLock[u]
      /\ \A u \in Thread : fileLock[u] \in 0..4 /\ fileLock[u] <= inodeLock
      /\ inodeLock \in 0..4
    BY <1>1 DEF LocksTyped, LevelsExclude
<1>4. t \in Holders /\ Holders' = Holders \ {t}
    BY <1>1, <1>3 DEF Holders
<1>5. nShared' = Cardinality(Holders')
    BY <1>1, <1>4, HoldersFinite, FS_RemoveElement
<1>6. (\A u \in Thread : fileLock'[u] <= inodeLock')
      /\ (inodeLock' # None => \E u \in Thread : fileLock'[u] = inodeLock')
    <2>1. CASE nShared = 1
        <3>1. \A u \in Thread : u # t => fileLock[u] = None
            BY <1>4, <2>1, TwoHolders DEF Holders
        <3> QED BY <1>1, <1>3, <2>1, <3>1
    <2>2. CASE nShared # 1
        <3>1. PICK v \in Holders : v # t
            BY <1>4, <2>2, OtherHolder
        <3>2. v \in Thread /\ fileLock[v] # None
            BY DEF Holders
        <3>3. CASE fileLock[t] > Shared
            <4>1. \A u \in Thread : u # t => fileLock[u] <= Shared
                BY <1>3, <3>3 DEF LevelsExclude
            <4> QED BY <1>1, <1>3, <2>2, <3>1, <3>2, <3>3, <4>1
        <3>4. CASE ~(fileLock[t] > Shared)
            <4>1. fileLock[t] = Shared /\ inodeLock' = inodeLock /\ inodeLock # None
                BY <1>1, <1>3, <2>2, <3>4
            <4>2. PICK u \in Thread : fileLock[u] = inodeLock
                BY <4>1 DEF LevelsExclude
            <4>3. CASE u = t
                <5>1. inodeLock = Shared /\ fileLock[v] = Shared
                    BY <1>3, <3>2, <4>1, <4>2, <4>3
                <5> QED BY <1>3, <3>1, <3>2, <4>1, <5>1
            <4>4. CASE u # t
                BY <1>3, <4>1, <4>2, <4>4
            <4> QED BY <4>3, <4>4
        <3> QED BY <3>3, <3>4
    <2> QED BY <2>1, <2>2
<1>7. \A v, u \in Thread : v # u =>
        /\ fileLock'[v] = Exclusive => fileLock'[u] = None
        /\ fileLock'[v] >= Reserved => fileLock'[u] < Reserved
    BY <1>3 DEF LevelsExclude
<1> QED
    BY <1>2, <1>5, <1>6, <1>7 DEF LevelsExclude

-----------------------------------------------------------------------------
(* The locks of the shared memory.                                          *)

\* A shared-memory lock granted keeps the locks apart.
LEMMA LockShmKeeps ==
    ASSUME LocksTyped, MasksExclude, NEW t \in Thread,
           NEW kind \in {"shared", "exclusive"}, NEW lock \in ShmLock, LockShm(t, kind, lock)
    PROVE  LocksTyped' /\ MasksExclude'
<1>1. /\ \A u \in Thread : lock \notin exclMask[u]
      /\ kind = "exclusive" => \A u \in Thread : lock \notin sharedMask[u]
      /\ UNCHANGED <<fileLock, inodeLock, nShared>>
    BY DEF LockShm, MayLockShm, fileVars
<1>2. CASE kind = "shared"
    <2>1. sharedMask' = [sharedMask EXCEPT ![t] = @ \cup {lock}] /\ UNCHANGED exclMask
        BY <1>2 DEF LockShm
    <2> QED BY <1>1, <2>1 DEF LocksTyped, MasksExclude
<1>3. CASE kind = "exclusive"
    <2>1. exclMask' = [exclMask EXCEPT ![t] = @ \cup {lock}] /\ UNCHANGED sharedMask
        BY <1>3 DEF LockShm
    <2> QED BY <1>1, <1>3, <2>1 DEF LocksTyped, MasksExclude
<1> QED
    BY <1>2, <1>3

\* Giving a shared-memory lock back keeps the locks apart.
LEMMA UnlockShmKeeps ==
    ASSUME LocksTyped, MasksExclude, NEW t \in Thread, NEW lock \in ShmLock, UnlockShm(t, lock)
    PROVE  LocksTyped' /\ MasksExclude'
BY DEF UnlockShm, fileVars, LocksTyped, MasksExclude

-----------------------------------------------------------------------------
(* What a step of one thread leaves to the others, and the hooks.           *)

OthersStay(t) ==
    \A u \in Thread : u # t =>
        /\ doing'[u] = doing[u] /\ locks'[u] = locks[u] /\ fileLock'[u] = fileLock[u]
        /\ place'[u] = place[u] \/ (place[u] = "wait" /\ place'[u] = "woken")

\* A step of one thread leaves the others where they were.
LEMMA OthersFit ==
    ASSUME WorksFit, NEW t \in Thread, OthersStay(t), WorkFits(t)', mode' = mode
    PROVE  WorksFit'
<1> SUFFICES ASSUME NEW u \in Thread, u # t PROVE WorkFits(u)'
    BY DEF WorksFit
<1>1. WorkFits(u)
    BY DEF WorksFit
<1>2. /\ doing'[u] = doing[u] /\ locks'[u] = locks[u] /\ fileLock'[u] = fileLock[u]
      /\ place'[u] = place[u] \/ (place[u] = "wait" /\ place'[u] = "woken")
    BY DEF OthersStay
<1>3. ProgramOf(u)' = ProgramOf(u)
    BY <1>2 DEF ProgramOf
<1>4. (FitsMode(doing[u])' <=> FitsMode(doing[u])) /\ (LevelKept(u)' <=> LevelKept(u))
    BY <1>2 DEF FitsMode, LevelKept, LevelFits
<1>5. (TakenSome(u)' <=> TakenSome(u)) /\ (MoreToTake(u)' <=> MoreToTake(u))
    BY <1>2, <1>3 DEF TakenSome, MoreToTake
<1> QED
    BY <1>1, <1>2, <1>4, <1>5 DEF WorkFits

\* A thread that is not about to call a hook has nothing to report.
LEMMA NothingToReport ==
    ASSUME BusyTyped, NEW t \in Thread
    PROVE  /\ hooks[t] = NoReport \/ hooks[t].on \in {"file", "shm"}
           /\ ~InHook(t) => hooks[t].on \notin {"file", "shm"}
<1>1. hooks[t] \in Report
    BY DEF BusyTyped
<1> QED
    BY <1>1 DEF Report, NoReport, InHook

\* The lock of the file changed under the mutex, and its hook is about to be called.
LEMMA FileLockReported ==
    ASSUME BusyTyped, HooksKept, LocksTyped', NEW t \in Thread, ~InHook(t), MutexFree(t),
           ReportFileLock(t), UNCHANGED <<pagerType, shmMasks, sharedMask, exclMask>>,
           place'[t] \in Working
    PROVE  HooksKept' /\ hooks' \in [Thread -> Report]
<1>1. \A u \in Thread : ~InHook(u) /\ hooks[u].on \notin {"file", "shm"}
    BY NothingToReport DEF MutexFree
<1>2. pagerType = inodeLock /\ \A u \in Thread : shmMasks[u] = MaskOf(u)
    BY <1>1 DEF HooksKept, FileReported, MasksReported
<1>3. \A u \in Thread : MaskOf(u)' = MaskOf(u)
    BY DEF MaskOf
<1>4. CASE inodeLock' = inodeLock /\ hooks' = hooks
    <2>1. \A u \in Thread : ~InHook(u)'
        BY <1>1, <1>4 DEF InHook
    <2>2. \A u \in Thread : HookFits(u)'
        BY <2>1 DEF HookFits
    <2> QED BY <1>2, <1>3, <1>4, <2>2 DEF HooksKept, FileReported, MasksReported, BusyTyped
<1>5. CASE hooks' = [hooks EXCEPT ![t] = [on |-> "file", type |-> inodeLock']]
    <2> DEFINE report == [on |-> "file", type |-> inodeLock']
    <2>1. report \in Report /\ report.on = "file" /\ report.type = inodeLock'
        BY DEF Report, LocksTyped
    <2> HIDE DEF report
    <2>2. /\ hooks'[t] = report /\ hooks' \in [Thread -> Report]
          /\ \A u \in Thread : u # t => hooks'[u] = hooks[u]
        BY <1>5, <2>1 DEF BusyTyped, report
    <2>3. \A u \in Thread : u # t => ~InHook(u)'
        BY <1>1, <2>2 DEF InHook
    <2>4. \A u \in Thread : HookFits(u)'
        BY <2>1, <2>2, <2>3 DEF HookFits, MutexFree
    <2>5. FileReported' /\ MasksReported'
        BY <1>2, <1>3, <2>1, <2>2 DEF FileReported, MasksReported
    <2> QED BY <2>2, <2>4, <2>5 DEF HooksKept
<1> QED
    BY <1>4, <1>5 DEF ReportFileLock

\* So did the locks of a connection in the shared memory.
LEMMA ShmLockReported ==
    ASSUME BusyTyped, HooksKept, LocksTyped', NEW t \in Thread, ~InHook(t), MutexFree(t),
           ReportShmLock(t), UNCHANGED <<pagerType, shmMasks, inodeLock>>,
           \A u \in Thread : u # t =>
                sharedMask'[u] = sharedMask[u] /\ exclMask'[u] = exclMask[u],
           place'[t] \in Working
    PROVE  HooksKept' /\ hooks' \in [Thread -> Report]
<1>1. \A u \in Thread : ~InHook(u) /\ hooks[u].on \notin {"file", "shm"}
    BY NothingToReport DEF MutexFree
<1>2. pagerType = inodeLock /\ \A u \in Thread : shmMasks[u] = MaskOf(u)
    BY <1>1 DEF HooksKept, FileReported, MasksReported
<1>3. \A u \in Thread : u # t => MaskOf(u)' = MaskOf(u)
    BY DEF MaskOf
<1> DEFINE report == [on |-> "shm", mask |-> MaskOf(t)']
<1>4. report \in Report /\ report.on = "shm" /\ report.mask = MaskOf(t)'
    BY DEF Report, Mask, MaskOf, LocksTyped
<1>5. hooks' = [hooks EXCEPT ![t] = report]
    BY DEF ReportShmLock, MaskOf
<1> HIDE DEF report
<1>6. /\ hooks'[t] = report /\ hooks' \in [Thread -> Report]
      /\ \A u \in Thread : u # t => hooks'[u] = hooks[u]
    BY <1>4, <1>5 DEF BusyTyped
<1>7. \A u \in Thread : u # t => ~InHook(u)'
    BY <1>1, <1>6 DEF InHook
<1>8. \A u \in Thread : HookFits(u)'
    BY <1>4, <1>6, <1>7 DEF HookFits, MutexFree
<1>9. FileReported' /\ MasksReported'
    BY <1>2, <1>3, <1>4, <1>6 DEF FileReported, MasksReported
<1> QED
    BY <1>6, <1>8, <1>9 DEF HooksKept

\* A step without a hook, of a thread that has none to call.
LEMMA HooksStay ==
    ASSUME BusyTyped, HooksKept, NEW t \in Thread, ~InHook(t),
           UNCHANGED <<lockVars, pagerType, shmMasks, hooks>>,
           \A u \in Thread : u # t => place'[u] = place[u]
    PROVE  HooksKept'
<1>1. UNCHANGED <<inodeLock, sharedMask, exclMask, pagerType, shmMasks, hooks>>
    BY DEF lockVars
<1>2. ASSUME NEW u \in Thread PROVE HookFits(u)'
    BY <1>1 DEF HooksKept, HookFits, InHook, MutexFree, MaskOf
<1> QED
    BY <1>1, <1>2 DEF HooksKept, FileReported, MasksReported, MaskOf

\* A thread that goes on has the program of the journal mode.
LEMMA ProgramsFit ==
    ASSUME BusyTyped, NEW t \in Thread, WorkFits(t), place[t] # "none"
    PROVE  /\ Len(ProgramOf(t)) \in 1..3 /\ locks[t] \in 0..Len(ProgramOf(t))
           /\ \A i \in 1..Len(ProgramOf(t)) :
                IF mode = "journal"
                THEN /\ ProgramOf(t)[i].on = "file"
                     /\ i = 1 => ProgramOf(t)[i].level = Shared
                     /\ i = 2 => ProgramOf(t)[i].level = Reserved
                     /\ i = 3 => ProgramOf(t)[i].level = Exclusive
                ELSE /\ ProgramOf(t)[i].on = "shm"
                     /\ ProgramOf(t)[i].kind \in {"shared", "exclusive"}
                     /\ ProgramOf(t)[i].lock \in ShmLock
<1>1. CASE mode = "journal"
    <2>1. doing[t] \in JournalProgram /\ ProgramOf(t) = Program["journal"][doing[t]]
        BY <1>1 DEF WorkFits, FitsMode, ProgramOf
    <2>2. locks[t] \in Nat /\ locks[t] <= Len(ProgramOf(t))
        BY DEF WorkFits, TakenSome, BusyTyped
    <2>3. Len(ProgramOf(t)) \in 1..3
        BY <2>1, JournalPrograms
    <2> QED BY <1>1, <2>1, <2>2, <2>3, JournalPrograms
<1>2. CASE mode = "wal"
    <2>1. doing[t] \in WalProgram /\ ProgramOf(t) = Program["wal"][doing[t]]
        BY <1>2 DEF WorkFits, FitsMode, ProgramOf
    <2>2. locks[t] \in Nat /\ locks[t] <= Len(ProgramOf(t))
        BY DEF WorkFits, TakenSome, BusyTyped
    <2>3. Len(ProgramOf(t)) \in 1..3
        BY <2>1, WalPrograms
    <2> QED BY <1>2, <2>1, <2>2, <2>3, WalPrograms
<1> QED
    BY <1>1, <1>2 DEF BusyTyped

\* What a program does when a lock is busy.
LEMMA BusyKinds ==
    ASSUME BusyTyped, NEW t \in Thread, WorkFits(t), place[t] # "none",
           NEW i \in 1..Len(ProgramOf(t))
    PROVE  ProgramOf(t)[i].ifBusy \in {"spin", "giveUp", "wait", "restart"}
<1>1. CASE mode = "journal" /\ doing[t] \in JournalProgram
    BY <1>1 DEF ProgramOf, Program, File, JournalProgram
<1>2. CASE mode = "wal" /\ doing[t] \in WalProgram
    BY <1>2 DEF ProgramOf, Program, Shm, WalProgram
<1> QED
    BY <1>1, <1>2 DEF WorkFits, FitsMode, BusyTyped

\* A step that takes and gives back no lock and only moves one thread.
LEMMA MoveKeeps ==
    ASSUME BusyInv, NEW t \in Thread, NEW to \in Places,
           place' = [place EXCEPT ![t] = to],
           ~InHook(t), UNCHANGED <<mode, lockVars, pagerType, shmMasks, hooks, locks>>,
           doing' \in [Thread -> {"nothing"} \cup JournalProgram \cup WalProgram],
           \A u \in Thread : u # t => doing'[u] = doing[u],
           WorkFits(t)'
    PROVE  BusyInv'
<1> USE DEF BusyInv
<1>0. LocksTyped' /\ LevelsExclude' /\ MasksExclude'
    BY DEF lockVars, LocksTyped, LevelsExclude, Holders, MasksExclude
<1>1. HooksKept'
    BY HooksStay DEF BusyTyped
<1>2. BusyTyped'
    BY DEF BusyTyped
<1>3. OthersStay(t)
    BY DEF OthersStay, lockVars, BusyTyped
<1>4. WorksFit'
    BY <1>3, OthersFit
<1> QED
    BY <1>0, <1>1, <1>2, <1>4

-----------------------------------------------------------------------------
(* The steps.                                                               *)

\* No lock is held at the start.
LEMMA InitKeeps == Init => BusyInv
<1> SUFFICES ASSUME Init PROVE BusyInv
    OBVIOUS
<1> USE DEF None, Shared, Reserved, Pending, Exclusive
<1>1. LocksTyped /\ MasksExclude
    BY DEF Init, LocksInit, LocksTyped, MasksExclude
<1>2. Holders = {}
    BY DEF Init, LocksInit, Holders
<1>3. LevelsExclude
    BY <1>2, FS_EmptySet DEF Init, LocksInit, LevelsExclude
<1>4. BusyTyped
    BY DEF Init, NoMask, Mask, Report, BusyTyped, Places
<1>5. WorksFit
    BY DEF Init, LocksInit, WorksFit, WorkFits, LevelKept, LevelFits
<1>6. HooksKept
    BY DEF Init, LocksInit, NoMask, HooksKept, HookFits, InHook, FileReported, MasksReported,
        MaskOf
<1> QED
    BY <1>1, <1>3, <1>4, <1>5, <1>6 DEF BusyInv

\* Whether a thread that moved still fits its program.
LEMMA FitsAgain ==
    ASSUME NEW t \in Thread, place'[t] # "none",
           FitsMode(doing[t])', TakenSome(t)', LevelKept(t)',
           place'[t] \in {"down", "backOff"} \/ MoreToTake(t)'
    PROVE  WorkFits(t)'
BY DEF WorkFits

\* What a thread that takes and gives back no lock keeps.
LEMMA FitsStill ==
    ASSUME BusyTyped, NEW t \in Thread, WorkFits(t), place[t] # "none", place'[t] # "none",
           UNCHANGED <<mode, fileLock, doing, locks>>,
           place'[t] \in {"down", "backOff"} \/ MoreToTake(t)
    PROVE  WorkFits(t)'
<1>1. ProgramOf(t)' = ProgramOf(t)
    BY DEF ProgramOf
<1>2. FitsMode(doing[t])' /\ LevelKept(t)'
    BY DEF WorkFits, FitsMode, LevelKept, LevelFits
<1>3. (TakenSome(t) => TakenSome(t)') /\ (MoreToTake(t) => MoreToTake(t)')
    BY <1>1 DEF TakenSome, MoreToTake
<1> QED
    BY <1>2, <1>3, FitsAgain DEF WorkFits

\* An operation begins with nothing held.
LEMMA StartKeeps ==
    ASSUME BusyInv, NEW t \in Thread, NEW p, Start(t, p)
    PROVE  BusyInv'
<1>1. /\ place[t] = "none" /\ p \in DOMAIN Program[mode]
      /\ doing' = [doing EXCEPT ![t] = p] /\ place' = [place EXCEPT ![t] = "up"]
      /\ UNCHANGED <<mode, lockVars, pagerType, shmMasks, hooks, locks>>
    BY DEF Start, busyVars
<1>2. FitsMode(p)
    BY <1>1, ProgramDomains DEF FitsMode
<1>3. WorkFits(t) /\ locks[t] = 0 /\ locks'[t] = 0
    BY <1>1 DEF BusyInv, WorksFit, WorkFits
<1>4. doing'[t] = p /\ place'[t] = "up" /\ ProgramOf(t)' = Program[mode][p]
    BY <1>1 DEF BusyInv, BusyTyped, ProgramOf
<1>5. p \in JournalProgram \cup WalProgram /\ Len(Program[mode][p]) \in 1..3
    <2>1. CASE mode = "journal"
        BY <1>2, <2>1, JournalPrograms DEF FitsMode
    <2>2. CASE mode = "wal"
        BY <1>2, <2>2, WalPrograms DEF FitsMode
    <2> QED BY <2>1, <2>2 DEF BusyInv, BusyTyped
<1>6. TakenSome(t)' /\ MoreToTake(t)'
    <2>1. Len(ProgramOf(t)') \in 1..3
        BY <1>4, <1>5
    <2> QED BY <1>3, <2>1 DEF TakenSome, MoreToTake
<1>7. FitsMode(doing[t])' /\ LevelKept(t)'
    BY <1>1, <1>2, <1>3, <1>4 DEF WorkFits, FitsMode, LevelKept, LevelFits, lockVars
<1>8. WorkFits(t)'
    BY <1>4, <1>6, <1>7, FitsAgain
<1>9. doing' \in [Thread -> {"nothing"} \cup JournalProgram \cup WalProgram]
    BY <1>1, <1>5 DEF BusyInv, BusyTyped
<1>10. \A u \in Thread : u # t => doing'[u] = doing[u]
    BY <1>1 DEF BusyInv, BusyTyped
<1>11. ~InHook(t)
    BY <1>1 DEF BusyInv, HooksKept, HookFits, Working
<1> QED
    BY <1>1, <1>8, <1>9, <1>10, <1>11, MoveKeeps DEF Places

\* A program has at most three locks to take.
LEMMA NextLock ==
    ASSUME NEW len \in 1..3, NEW n \in 0..len, n < len
    PROVE  n + 1 \in 1..len /\ n \in 0..2
OBVIOUS

\* The level a program that locks the file asks for next.
LEMMA WantedLevel ==
    ASSUME BusyTyped, NEW t \in Thread, WorkFits(t), place[t] = "up", Wanted(t).on = "file"
    PROVE  /\ mode = "journal"
           /\ Wanted(t).level \in {Shared, Reserved, Exclusive}
           /\ Wanted(t).level = Shared => locks[t] = 0 /\ fileLock[t] = None
           /\ Wanted(t).level = Reserved => locks[t] = 1 /\ fileLock[t] = Shared
           /\ Wanted(t).level = Exclusive => locks[t] = 2 /\ fileLock[t] \in {Reserved, Pending}
<1>1. /\ Len(ProgramOf(t)) \in 1..3 /\ locks[t] \in 0..Len(ProgramOf(t))
      /\ MoreToTake(t)
    BY ProgramsFit DEF WorkFits
<1>2. locks[t] + 1 \in 1..Len(ProgramOf(t)) /\ locks[t] \in 0..2
    BY <1>1, NextLock DEF MoreToTake
<1>3. mode = "journal"
    BY <1>2, ProgramsFit DEF Wanted, BusyTyped
<1>4. /\ locks[t] + 1 = 1 => Wanted(t).level = Shared
      /\ locks[t] + 1 = 2 => Wanted(t).level = Reserved
      /\ locks[t] + 1 = 3 => Wanted(t).level = Exclusive
    BY <1>2, <1>3, ProgramsFit DEF Wanted
<1>5. LevelFits(locks[t], fileLock[t])
    BY <1>3 DEF WorkFits, LevelKept
<1>6. CASE locks[t] = 0
    BY <1>3, <1>4, <1>5, <1>6 DEF LevelFits, None, Shared, Reserved, Pending, Exclusive
<1>7. CASE locks[t] = 1
    BY <1>3, <1>4, <1>5, <1>7 DEF LevelFits, None, Shared, Reserved, Pending, Exclusive
<1>8. CASE locks[t] = 2
    BY <1>3, <1>4, <1>5, <1>8 DEF LevelFits, None, Shared, Reserved, Pending, Exclusive
<1> QED
    BY <1>2, <1>6, <1>7, <1>8

\* The lock of the shared memory one asks for next.
LEMMA WantedShm ==
    ASSUME BusyTyped, NEW t \in Thread, WorkFits(t), place[t] = "up", Wanted(t).on = "shm"
    PROVE  /\ mode = "wal" /\ Wanted(t).kind \in {"shared", "exclusive"}
           /\ Wanted(t).lock \in ShmLock
<1>1. /\ Len(ProgramOf(t)) \in 1..3 /\ locks[t] \in 0..Len(ProgramOf(t))
      /\ MoreToTake(t)
    BY ProgramsFit DEF WorkFits
<1>2. locks[t] + 1 \in 1..Len(ProgramOf(t))
    BY <1>1, NextLock DEF MoreToTake
<1> QED
    BY <1>2, ProgramsFit DEF Wanted, BusyTyped

\* A lock granted by SQLite, and its hook.
LEMMA TakeLockKeeps ==
    ASSUME BusyInv, NEW t \in Thread, TakeLock(t)
    PROVE  BusyInv'
<1> USE DEF BusyInv
<1> DEFINE then == IF locks[t] + 1 = Len(ProgramOf(t)) THEN "down" ELSE "up"
<1>1. /\ place[t] = "up" /\ locks' = [locks EXCEPT ![t] = @ + 1]
      /\ ~InHook(t) /\ MutexFree(t)
      /\ UNCHANGED <<mode, doing, pagerType, shmMasks>>
      /\ place' = [place EXCEPT ![t] = then]
    BY DEF TakeLock, busyVars
<1>2. /\ WorkFits(t) /\ FitsMode(doing[t])
      /\ Len(ProgramOf(t)) \in 1..3 /\ locks[t] \in 0..Len(ProgramOf(t)) /\ MoreToTake(t)
    BY <1>1, ProgramsFit DEF WorksFit, WorkFits
<1>3. then \in {"down", "up"}
    OBVIOUS
<1>4. ProgramOf(t)' = ProgramOf(t) /\ locks'[t] = locks[t] + 1
    BY <1>1 DEF ProgramOf, BusyTyped
<1>5. TakenSome(t)' /\ (then = "down" \/ MoreToTake(t)')
    <2>1. locks[t] + 1 <= Len(ProgramOf(t))
        BY <1>2, NextLock DEF MoreToTake
    <2>2. TakenSome(t)'
        BY <1>4, <2>1 DEF TakenSome
    <2>3. CASE locks[t] + 1 = Len(ProgramOf(t))
        BY <2>2, <2>3
    <2>4. CASE locks[t] + 1 # Len(ProgramOf(t))
        <3>1. locks[t] + 1 < Len(ProgramOf(t))
            BY <1>2, <2>1, <2>4
        <3> QED BY <1>4, <2>2, <3>1 DEF MoreToTake
    <2> QED BY <2>3, <2>4
<1>6. FitsMode(doing[t])' /\ locks' \in [Thread -> Nat]
    BY <1>1, <1>2 DEF FitsMode, BusyTyped
<1>7. \A u \in Thread : u # t => locks'[u] = locks[u] /\ doing'[u] = doing[u]
    BY <1>1 DEF BusyTyped
<1> HIDE DEF then
<1>8. /\ place' \in [Thread -> Places] /\ place'[t] = then /\ place'[t] \in Working
      /\ \A u \in Thread : u # t => place'[u] = place[u]
    BY <1>1, <1>3 DEF BusyTyped, Places, Working
<1>9. CASE Wanted(t).on = "file" /\ LockFile(t, Wanted(t).level) /\ ReportFileLock(t)
    <2> DEFINE level == Wanted(t).level
    <2>1. /\ mode = "journal" /\ level \in {Shared, Reserved, Exclusive}
          /\ level = Shared => locks[t] = 0 /\ fileLock[t] = None
          /\ level = Reserved => locks[t] = 1 /\ fileLock[t] = Shared
          /\ level = Exclusive => locks[t] = 2 /\ fileLock[t] \in {Reserved, Pending}
        BY <1>1, <1>2, <1>9, WantedLevel
    <2> HIDE DEF level
    <2>2. LockFile(t, level)
        BY <1>9 DEF level
    <2>3. LocksTyped' /\ LevelsExclude'
        BY <2>1, <2>2, LockFileKeeps
    <2>4. UNCHANGED <<sharedMask, exclMask>> /\ fileLock' = [fileLock EXCEPT ![t] = level]
        BY <2>2 DEF LockFile, shmVars
    <2>5. HooksKept' /\ hooks' \in [Thread -> Report]
        BY <1>1, <1>8, <1>9, <2>3, <2>4, FileLockReported
    <2>6. MasksExclude'
        BY <2>4 DEF MasksExclude
    <2>7. BusyTyped'
        BY <1>1, <1>6, <1>8, <2>5 DEF BusyTyped
    <2>8. fileLock'[t] = level /\ \A u \in Thread : u # t => fileLock'[u] = fileLock[u]
        BY <2>4 DEF LocksTyped
    <2>9. LevelKept(t)'
        <3>1. LevelFits(locks'[t], fileLock'[t])
            BY <1>4, <2>1, <2>8 DEF LevelFits
        <3>2. mode' # "wal"
            BY <1>1, <2>1
        <3> QED BY <3>1, <3>2 DEF LevelKept, LevelFits
    <2>10. WorkFits(t)'
        BY <1>3, <1>5, <1>6, <1>8, <2>9, FitsAgain
    <2>11. OthersStay(t)
        BY <1>7, <1>8, <2>8 DEF OthersStay
    <2>12. WorksFit'
        BY <1>1, <2>10, <2>11, OthersFit
    <2> QED BY <2>3, <2>5, <2>6, <2>7, <2>12
<1>10. CASE /\ Wanted(t).on = "shm" /\ LockShm(t, Wanted(t).kind, Wanted(t).lock)
            /\ ReportShmLock(t)
    <2>1. /\ mode = "wal" /\ Wanted(t).kind \in {"shared", "exclusive"} /\ Wanted(t).lock \in ShmLock
        BY <1>1, <1>2, <1>10, WantedShm
    <2>2. LocksTyped' /\ MasksExclude'
        BY <1>10, <2>1, LockShmKeeps
    <2>3. /\ UNCHANGED <<fileLock, inodeLock, nShared>>
          /\ \A u \in Thread : u # t =>
                sharedMask'[u] = sharedMask[u] /\ exclMask'[u] = exclMask[u]
        BY <1>10 DEF LockShm, fileVars, LocksTyped
    <2>4. HooksKept' /\ hooks' \in [Thread -> Report]
        BY <1>1, <1>8, <1>10, <2>2, <2>3, ShmLockReported
    <2>5. LevelsExclude'
        BY <2>3 DEF LevelsExclude, Holders
    <2>6. BusyTyped'
        BY <1>1, <1>6, <1>8, <2>4 DEF BusyTyped
    <2>7. LevelKept(t)'
        BY <1>1, <1>2, <2>1, <2>3 DEF WorkFits, LevelKept
    <2>8. WorkFits(t)'
        BY <1>3, <1>5, <1>6, <1>8, <2>7, FitsAgain
    <2>9. OthersStay(t)
        BY <1>7, <1>8, <2>3 DEF OthersStay
    <2>10. WorksFit'
        BY <1>1, <2>8, <2>9, OthersFit
    <2> QED BY <2>2, <2>4, <2>5, <2>6, <2>10
<1> QED
    BY <1>9, <1>10 DEF TakeLock, then

\* SQLITE_BUSY: the thread decides whether to wait.
LEMMA FindBusyKeeps ==
    ASSUME BusyInv, NEW t \in Thread, FindBusy(t)
    PROVE  BusyInv'
<1> USE DEF BusyInv
<1> DEFINE then == AfterBusy(Wanted(t).ifBusy)
<1>1. /\ place[t] = "up" /\ ~InHook(t) /\ MutexFree(t)
      /\ UNCHANGED <<mode, doing, locks, pagerType, shmMasks>>
      /\ place' = [place EXCEPT ![t] = then]
    BY DEF FindBusy, busyVars
<1>2. /\ WorkFits(t)
      /\ Len(ProgramOf(t)) \in 1..3 /\ locks[t] \in 0..Len(ProgramOf(t)) /\ MoreToTake(t)
    BY <1>1, ProgramsFit DEF WorksFit, WorkFits
<1>3. then \in {"down", "busy", "backOff"}
    <2>1. locks[t] + 1 \in 1..Len(ProgramOf(t))
        BY <1>2, NextLock DEF MoreToTake
    <2>2. ProgramOf(t)[locks[t] + 1].ifBusy \in {"spin", "giveUp", "wait", "restart"}
        BY <1>1, <1>2, <2>1, BusyKinds
    <2>3. Wanted(t).ifBusy \in {"giveUp", "wait", "restart"}
        BY <2>2 DEF FindBusy, Wanted
    <2> QED BY <2>3 DEF AfterBusy
<1> HIDE DEF then
<1>4. /\ place' \in [Thread -> Places] /\ place'[t] = then /\ place'[t] \in Working
      /\ \A u \in Thread : u # t => place'[u] = place[u]
    BY <1>1, <1>3 DEF BusyTyped, Places, Working
<1>5. CASE /\ Wanted(t).on = "file" /\ FailToLockFile(t, Wanted(t).level)
           /\ ReportFileLock(t)
    <2> DEFINE level == Wanted(t).level
    <2>1. /\ mode = "journal" /\ level \in {Shared, Reserved, Exclusive}
          /\ level = Exclusive => locks[t] = 2 /\ fileLock[t] \in {Reserved, Pending}
        BY <1>1, <1>2, <1>5, WantedLevel
    <2> HIDE DEF level
    <2>2. FailToLockFile(t, level)
        BY <1>5 DEF level
    <2>3. /\ LocksTyped' /\ LevelsExclude'
          /\ UNCHANGED fileLock \/ (level = Exclusive /\ fileLock' = [fileLock EXCEPT ![t] = Pending])
        BY <2>1, <2>2, FailToLockFileKeeps
    <2>4. UNCHANGED <<sharedMask, exclMask>>
        BY <2>2 DEF FailToLockFile, shmVars
    <2>5. HooksKept' /\ hooks' \in [Thread -> Report]
        BY <1>1, <1>4, <1>5, <2>3, <2>4, FileLockReported
    <2>6. MasksExclude'
        BY <2>4 DEF MasksExclude
    <2>7. BusyTyped'
        BY <1>1, <1>4, <2>5 DEF BusyTyped
    <2>8. LevelKept(t)' /\ \A u \in Thread : u # t => fileLock'[u] = fileLock[u]
        <3>1. CASE UNCHANGED fileLock
            BY <1>1, <1>2, <3>1 DEF WorkFits, LevelKept, LevelFits
        <3>2. CASE level = Exclusive /\ fileLock' = [fileLock EXCEPT ![t] = Pending]
            <4>1. LevelFits(locks'[t], fileLock'[t])
                BY <1>1, <2>1, <3>2 DEF LevelFits, LocksTyped
            <4>2. mode' # "wal"
                BY <1>1, <2>1
            <4>3. \A u \in Thread : u # t => fileLock'[u] = fileLock[u]
                BY <3>2 DEF LocksTyped
            <4> QED BY <4>1, <4>2, <4>3 DEF LevelKept, LevelFits
        <3> QED BY <2>3, <3>1, <3>2
    <2>9. ProgramOf(t)' = ProgramOf(t)
        BY <1>1 DEF ProgramOf
    <2>10. FitsMode(doing[t])' /\ TakenSome(t)' /\ MoreToTake(t)'
        <3>1. FitsMode(doing[t])'
            BY <1>1, <1>2 DEF WorkFits, FitsMode
        <3>2. (TakenSome(t) => TakenSome(t)') /\ (MoreToTake(t) => MoreToTake(t)')
            BY <1>1, <2>9 DEF TakenSome, MoreToTake
        <3> QED BY <1>1, <1>2, <3>1, <3>2 DEF WorkFits
    <2>11. WorkFits(t)'
        BY <1>3, <1>4, <2>8, <2>10, FitsAgain
    <2>12. OthersStay(t)
        BY <1>1, <1>4, <2>8 DEF OthersStay
    <2>13. WorksFit'
        BY <1>1, <2>11, <2>12, OthersFit
    <2> QED BY <2>3, <2>5, <2>6, <2>7, <2>13
<1>6. CASE UNCHANGED <<lockVars, hooks>>
    <2>1. place'[t] = then /\ UNCHANGED fileLock
        BY <1>4, <1>6 DEF lockVars
    <2>2. WorkFits(t)'
        BY <1>1, <1>2, <1>3, <2>1, FitsStill
    <2>3. then \in Places
        BY <1>3 DEF Places
    <2> QED BY <1>1, <1>6, <2>2, <2>3, MoveKeeps DEF BusyTyped
<1> QED
    BY <1>5, <1>6 DEF FindBusy, then

\* The operation gives its locks back.
LEMMA ReleaseKeeps ==
    ASSUME BusyInv, NEW t \in Thread, Release(t)
    PROVE  BusyInv'
<1> USE DEF BusyInv
<1> DEFINE n == locks[t]
           then == place[t]
<1>1. /\ then \in {"down", "backOff"} /\ n > 0 /\ ~InHook(t) /\ MutexFree(t)
      /\ UNCHANGED <<mode, doing, place, pagerType, shmMasks>>
    BY DEF Release, busyVars
<1>2. /\ WorkFits(t) /\ Len(ProgramOf(t)) \in 1..3 /\ n \in 0..Len(ProgramOf(t))
    BY <1>1, ProgramsFit DEF WorksFit
<1>3. n \in 1..Len(ProgramOf(t)) /\ n - 1 \in Nat /\ n - 1 <= Len(ProgramOf(t))
    <2>1. n > 0
        BY <1>1
    <2>2. Len(ProgramOf(t)) \in 1..3 /\ n \in 0..Len(ProgramOf(t))
        BY <1>2
    <2> QED BY <2>1, <2>2
<1>4. then \in Places /\ then # "none"
    BY <1>1 DEF Places
<1>5. ProgramOf(t)' = ProgramOf(t) /\ FitsMode(doing[t])'
    BY <1>1, <1>2, <1>4 DEF ProgramOf, WorkFits, FitsMode
<1> HIDE DEF then
<1>8. /\ place' \in [Thread -> Places] /\ place'[t] = then /\ place'[t] \in Working
      /\ \A u \in Thread : place'[u] = place[u]
    BY <1>1 DEF BusyTyped, Working, then
<1>6. CASE ProgramOf(t)[n].on = "file" /\ UnlockFile(t) /\ ReportFileLock(t)
           /\ locks' = [locks EXCEPT ![t] = 0]
    <2>1. mode = "journal"
        BY <1>3, <1>4, <1>2, <1>6, ProgramsFit DEF BusyTyped, then
    <2>2. /\ LocksTyped' /\ LevelsExclude'
          /\ fileLock' = [fileLock EXCEPT ![t] = None] /\ UNCHANGED <<sharedMask, exclMask>>
        BY <1>6, UnlockFileKeeps DEF UnlockFile, shmVars
    <2>3. HooksKept' /\ hooks' \in [Thread -> Report]
        BY <1>1, <1>6, <1>8, <2>2, FileLockReported
    <2>4. MasksExclude'
        BY <2>2 DEF MasksExclude
    <2>5. BusyTyped'
        BY <1>1, <1>6, <1>8, <2>3 DEF BusyTyped
    <2>6. /\ fileLock'[t] = None /\ locks'[t] = 0
          /\ \A u \in Thread : u # t => /\ fileLock'[u] = fileLock[u]
                                        /\ locks'[u] = locks[u] /\ doing'[u] = doing[u]
        BY <1>1, <1>6, <2>2 DEF LocksTyped, BusyTyped
    <2>7. LevelKept(t)'
        BY <1>1, <2>1, <2>6 DEF LevelKept, LevelFits
    <2>8. TakenSome(t)'
        <3>1. Len(ProgramOf(t)') \in 1..3
            BY <1>2, <1>5
        <3> QED BY <2>6, <3>1 DEF TakenSome
    <2>9. WorkFits(t)'
        BY <1>1, <1>4, <1>5, <1>8, <2>7, <2>8, FitsAgain
    <2>10. OthersStay(t)
        BY <1>8, <2>6 DEF OthersStay
    <2>11. WorksFit'
        BY <1>1, <2>9, <2>10, OthersFit
    <2> QED BY <2>2, <2>3, <2>4, <2>5, <2>11
<1>7. CASE ProgramOf(t)[n].on # "file" /\ UnlockShm(t, ProgramOf(t)[n].lock)
           /\ ReportShmLock(t) /\ locks' = [locks EXCEPT ![t] = @ - 1]
    <2>1. mode = "wal" /\ ProgramOf(t)[n].lock \in ShmLock
        BY <1>2, <1>3, <1>4, <1>7, ProgramsFit DEF BusyTyped, then
    <2>2. LocksTyped' /\ MasksExclude'
        BY <1>7, <2>1, UnlockShmKeeps
    <2>3. /\ UNCHANGED <<fileLock, inodeLock, nShared>>
          /\ \A u \in Thread : u # t =>
                sharedMask'[u] = sharedMask[u] /\ exclMask'[u] = exclMask[u]
        BY <1>7 DEF UnlockShm, fileVars, LocksTyped
    <2>4. HooksKept' /\ hooks' \in [Thread -> Report]
        BY <1>1, <1>7, <1>8, <2>2, <2>3, ShmLockReported
    <2>5. LevelsExclude'
        BY <2>3 DEF LevelsExclude, Holders
    <2>6. /\ locks' \in [Thread -> Nat] /\ locks'[t] = n - 1
          /\ \A u \in Thread : u # t => locks'[u] = locks[u] /\ doing'[u] = doing[u]
        BY <1>1, <1>3, <1>7 DEF BusyTyped
    <2>7. BusyTyped'
        BY <1>1, <1>8, <2>4, <2>6 DEF BusyTyped
    <2>8. LevelKept(t)'
        BY <1>1, <1>2, <2>1, <2>3 DEF WorkFits, LevelKept
    <2>9. TakenSome(t)'
        BY <1>3, <1>5, <2>6 DEF TakenSome
    <2>10. WorkFits(t)'
        BY <1>1, <1>4, <1>5, <1>8, <2>8, <2>9, FitsAgain
    <2>11. OthersStay(t)
        BY <1>8, <2>3, <2>6 DEF OthersStay
    <2>12. WorksFit'
        BY <1>1, <2>10, <2>11, OthersFit
    <2> QED BY <2>2, <2>4, <2>5, <2>7, <2>12
<1> QED
    BY <1>6, <1>7 DEF Release

\* The hook: WCDB is told, and the threads it notifies move from "wait" to "woken".
LEMMA HookKeeps ==
    ASSUME BusyInv, NEW t \in Thread, Hook(t)
    PROVE  BusyInv'
<1> USE DEF BusyInv
<1>1. /\ InHook(t) /\ hooks' = [hooks EXCEPT ![t] = NoReport]
      /\ UNCHANGED <<mode, lockVars, doing, locks>>
    BY DEF Hook
<1>2. /\ place[t] \in Working /\ hooks[t].on \in {"file", "shm"}
      /\ hooks[t].on = "file" => hooks[t].type = inodeLock
      /\ hooks[t].on = "shm" => hooks[t].mask = MaskOf(t)
      /\ \A u \in Thread : u # t => ~InHook(u) /\ hooks[u].on \notin {"file", "shm"}
    BY <1>1, NothingToReport DEF HooksKept, HookFits, MutexFree, InHook
<1>3. /\ hooks' \in [Thread -> Report] /\ hooks'[t] = NoReport
      /\ \A u \in Thread : u # t => hooks'[u] = hooks[u]
    BY <1>1 DEF BusyTyped, Report
<1>4. \A u \in Thread : ~InHook(u)'
    BY <1>2, <1>3 DEF InHook
<1>5. UNCHANGED <<inodeLock, fileLock, nShared, sharedMask, exclMask>>
    BY <1>1 DEF lockVars
<1>6. /\ LocksTyped' /\ LevelsExclude' /\ MasksExclude'
      /\ \A u \in Thread : MaskOf(u)' = MaskOf(u)
    BY <1>5 DEF LocksTyped, LevelsExclude, Holders, MasksExclude, MaskOf
<1>7. PICK notified : place' = Woken(notified)
    BY DEF Hook, UpdatePagerLock, UpdateShmLock
<1>8. /\ place' \in [Thread -> Places] /\ place'[t] = place[t]
      /\ \A u \in Thread : u # t =>
            place'[u] = place[u] \/ (place[u] = "wait" /\ place'[u] = "woken")
    BY <1>2, <1>7 DEF Woken, BusyTyped, Places, Working
<1>9. /\ pagerType' = inodeLock /\ shmMasks' \in [Thread -> Mask]
      /\ \A u \in Thread : shmMasks'[u] = MaskOf(u)
    <2>1. \A u \in Thread : u # t => shmMasks[u] = MaskOf(u)
        BY <1>2 DEF HooksKept, MasksReported
    <2>2. CASE hooks[t].on = "file"
        <3>1. pagerType' = inodeLock /\ shmMasks' = shmMasks
            BY <1>2, <2>2 DEF Hook, UpdatePagerLock
        <3>2. shmMasks[t] = MaskOf(t)
            BY <2>2 DEF HooksKept, MasksReported
        <3> QED BY <2>1, <3>1, <3>2 DEF BusyTyped
    <2>3. CASE hooks[t].on = "shm"
        <3>1. pagerType' = pagerType /\ shmMasks' = [shmMasks EXCEPT ![t] = MaskOf(t)]
            BY <1>2, <2>3 DEF Hook, UpdateShmLock
        <3>2. pagerType = inodeLock
            <4>1. \A u \in Thread : hooks[u].on # "file"
                BY <1>2, <2>3
            <4> QED BY <4>1 DEF HooksKept, FileReported
        <3>3. MaskOf(t) \in Mask
            BY DEF MaskOf, Mask, LocksTyped
        <3> QED BY <2>1, <3>1, <3>2, <3>3 DEF BusyTyped
    <2> QED BY <1>2, <2>2, <2>3
<1>10. BusyTyped'
    BY <1>1, <1>3, <1>5, <1>8, <1>9 DEF BusyTyped, LocksTyped
<1>11. HooksKept'
    BY <1>4, <1>5, <1>6, <1>9 DEF HooksKept, HookFits, FileReported, MasksReported
<1>12. WorksFit'
    <2>1. OthersStay(t)
        BY <1>1, <1>5, <1>8 DEF OthersStay
    <2>2. WorkFits(t) /\ ProgramOf(t)' = ProgramOf(t)
        BY <1>1 DEF WorksFit, ProgramOf
    <2>3. WorkFits(t)'
        BY <1>1, <1>5, <1>8, <2>2 DEF WorkFits, FitsMode, LevelKept, LevelFits, TakenSome,
            MoreToTake
    <2> QED BY <1>1, <2>1, <2>3, OthersFit
<1> QED
    BY <1>6, <1>10, <1>11, <1>12

\* The program ends, or its thread calls the busy handler.
LEMMA UnlockedKeeps ==
    ASSUME BusyInv, NEW t \in Thread, Unlocked(t)
    PROVE  BusyInv'
<1> USE DEF BusyInv
<1>1. /\ place[t] \in {"down", "backOff"} /\ locks[t] = 0 /\ ~InHook(t)
      /\ UNCHANGED <<mode, lockVars, pagerType, shmMasks, hooks, locks>>
    BY DEF Unlocked, busyVars
<1>2. WorkFits(t) /\ Len(ProgramOf(t)) \in 1..3
    BY <1>1, ProgramsFit DEF WorksFit
<1>3. CASE place' = [place EXCEPT ![t] = "none"] /\ doing' = [doing EXCEPT ![t] = "nothing"]
    <2>1. place'[t] = "none" /\ locks'[t] = 0 /\ UNCHANGED fileLock
        BY <1>1, <1>3 DEF BusyTyped, lockVars
    <2>2. LevelKept(t)'
        BY <1>1, <1>2, <2>1 DEF WorkFits, LevelKept, LevelFits
    <2>3. WorkFits(t)'
        BY <2>1, <2>2 DEF WorkFits
    <2>4. /\ doing' \in [Thread -> {"nothing"} \cup JournalProgram \cup WalProgram]
          /\ \A u \in Thread : u # t => doing'[u] = doing[u]
        BY <1>3 DEF BusyTyped
    <2> QED BY <1>1, <1>3, <2>3, <2>4, MoveKeeps DEF Places
<1>4. CASE place' = [place EXCEPT ![t] = "busy"] /\ doing' = doing
    <2>1. MoreToTake(t)
        <3>1. locks[t] = 0
            BY <1>1
        <3>2. Len(ProgramOf(t)) \in 1..3
            BY <1>2
        <3> QED BY <3>1, <3>2 DEF MoreToTake
    <2>2. place'[t] = "busy" /\ UNCHANGED fileLock
        BY <1>4, <1>1 DEF BusyTyped, lockVars
    <2>3. WorkFits(t)'
        BY <1>1, <1>2, <1>4, <2>1, <2>2, FitsStill
    <2> QED BY <1>1, <1>4, <2>3, MoveKeeps DEF Places, BusyTyped
<1> QED
    BY <1>3, <1>4 DEF Unlocked

\* A step of a thread that waits, or of its signals and timeouts.
LEMMA WaitKeeps ==
    ASSUME BusyInv, NEW t \in Thread,
           place[t] \in {"busy", "wait", "woken", "timedOut"}, ~InHook(t),
           NEW to \in {"wait", "up", "woken", "timedOut"}, place' = [place EXCEPT ![t] = to],
           UNCHANGED <<mode, lockVars, pagerType, shmMasks, hooks, doing, locks>>
    PROVE  BusyInv'
<1> USE DEF BusyInv
<1>1. WorkFits(t) /\ MoreToTake(t)
    BY DEF WorksFit, WorkFits
<1>2. place'[t] = to /\ UNCHANGED fileLock
    BY DEF BusyTyped, lockVars
<1>3. WorkFits(t)'
    BY <1>1, <1>2, FitsStill
<1> QED
    BY <1>3, MoveKeeps DEF Places, BusyTyped

\* The wait ends, by a notification or by the time-out.
LEMMA WaitingKeeps ==
    ASSUME BusyInv, NEW t \in Thread,
           OnBusy(t) \/ Resume(t) \/ ResumeTimedOut(t) \/ WakeSpuriously(t) \/ TimeOut(t)
    PROVE  BusyInv'
<1>1. /\ place[t] \in {"busy", "wait", "woken", "timedOut"}
      /\ UNCHANGED <<mode, lockVars, pagerType, shmMasks, hooks, doing, locks>>
      /\ place[t] = "busy" => ~InHook(t)
    BY DEF OnBusy, Resume, ResumeTimedOut, WakeSpuriously, TimeOut, busyVars
<1>2. \E to \in {"wait", "up", "woken", "timedOut"} : place' = [place EXCEPT ![t] = to]
    BY DEF OnBusy, Resume, ResumeTimedOut, WakeSpuriously, TimeOut, WaitOrRetry
<1>3. ~InHook(t)
    BY <1>1 DEF BusyInv, HooksKept, HookFits, Working
<1> QED
    BY <1>1, <1>2, <1>3, WaitKeeps

\* A step that changes nothing.
LEMMA StutterKeeps ==
    ASSUME BusyInv, UNCHANGED vars
    PROVE  BusyInv'
<1>1. UNCHANGED <<fileLock, inodeLock, nShared, sharedMask, exclMask, mode, pagerType,
                  shmMasks, hooks, doing, locks, place>>
    BY DEF vars, lockVars, busyVars, threadVars
<1>2. LocksTyped' /\ LevelsExclude' /\ MasksExclude' /\ BusyTyped'
    BY <1>1 DEF BusyInv, LocksTyped, LevelsExclude, Holders, MasksExclude, BusyTyped
<1>4. HooksKept'
    BY <1>1 DEF BusyInv, HooksKept, HookFits, InHook, MutexFree, MaskOf, FileReported,
        MasksReported
<1>3. ASSUME NEW t \in Thread PROVE WorkFits(t)'
    BY <1>1 DEF BusyInv, WorksFit, WorkFits, FitsMode, LevelKept, LevelFits, TakenSome,
        MoreToTake, ProgramOf
<1> QED
    BY <1>2, <1>3, <1>4 DEF BusyInv, WorksFit

-----------------------------------------------------------------------------
(* The invariant and what it says.                                          *)

\* The inductive invariant: each thread has the locks that its program took so far
\* and WCDB follows them.
THEOREM BusyInvariance == Spec => []BusyInv
<1>1. Init => BusyInv
    BY InitKeeps
<1>2. ASSUME BusyInv, [Next]_vars PROVE BusyInv'
    <2>1. CASE \E t \in Thread : \E p \in Programs[t] : Start(t, p)
        BY <1>2, <2>1, StartKeeps
    <2>2. CASE \E t \in Thread : Step(t)
        <3>1. PICK t \in Thread : Step(t)
            BY <2>2
        <3>2. CASE TakeLock(t) \/ FindBusy(t)
            BY <1>2, <3>2, TakeLockKeeps, FindBusyKeeps
        <3>3. CASE Release(t) \/ Unlocked(t)
            BY <1>2, <3>3, ReleaseKeeps, UnlockedKeeps
        <3>4. CASE OnBusy(t) \/ Resume(t) \/ ResumeTimedOut(t)
            BY <1>2, <3>4, WaitingKeeps
        <3>5. CASE Hook(t)
            BY <1>2, <3>5, HookKeeps
        <3> QED BY <3>1, <3>2, <3>3, <3>4, <3>5 DEF Step
    <2>3. CASE \E t \in Thread : WakeSpuriously(t) \/ TimeOut(t)
        BY <1>2, <2>3, WaitingKeeps
    <2>4. CASE UNCHANGED vars
        BY <1>2, <2>4, StutterKeeps
    <2> QED BY <1>2, <2>1, <2>2, <2>3, <2>4 DEF Next
<1> QED
    BY <1>1, <1>2, PTL DEF Spec

\* One connection writes while no other reads, one is reserved, and the counts of
\* the file's lock are right, in any interleaving (unixLock, posixUnlock, unixShmLock).
THEOREM ConnectionsExclude == Spec => []LocksExclude
<1>1. BusyInv => LocksExclude
    BY DEF BusyInv, LevelsExclude, MasksExclude, Holders, LocksExclude
<1> QED
    BY <1>1, BusyInvariance, PTL

\* Whenever no hook is about to be called, WCDB knows the locks as SQLite holds them:
\* a hook is called before the mutex is left, so none overtakes another
\* (unixLock, posixUnlock, unixShmLock; updatePagerLock, updateShmLock).
THEOREM HooksMirror == Spec => []MirrorsLocks
<1>1. ASSUME BusyInv, \A t \in Thread : ~InHook(t)
      PROVE  pagerType = inodeLock /\ \A t \in Thread : shmMasks[t] = MaskOf(t)
    <2>1. \A t \in Thread : hooks[t].on \notin {"file", "shm"}
        BY <1>1, NothingToReport DEF BusyInv
    <2> QED BY <1>1, <2>1 DEF BusyInv, HooksKept, FileReported, MasksReported
<1>2. BusyInv => MirrorsLocks
    BY <1>1 DEF MirrorsLocks, MaskOf
<1> QED
    BY <1>2, BusyInvariance, PTL

-----------------------------------------------------------------------------
(* The list of the threads that wait.                                       *)

IsListed(t) == \E i \in DOMAIN waitings : waitings[i] = t

Waiting == {"wait", "woken", "timedOut"}

\* A thread that expects the lock of the file expects a level SQLite asks for.
ExpectsLevel(t) ==
    place[t] \in Waiting \cup {"busy", "backOff"} /\ expecting[t].on = "file" =>
        expecting[t].level \in {Shared, Reserved, Exclusive}

\* Whoever waits is listed, whoever is listed is in wait(), and the main thread
\* has not timed out unless it gave up.
ListKept ==
    /\ waitings \in Seq(Thread)
    /\ \A t \in Thread : place[t] = "wait" => IsListed(t)
    /\ \A i \in DOMAIN waitings : place[waitings[i]] \in Waiting
    /\ place[Main] = "timedOut" => mainGaveUp

\* A thread that waits for a lock it could have.
Forgotten(t) == place[t] = "wait" /\ ~WaitsNow(t)

\* The main thread waits first, for a lock that is not free.
MainFirst == waitings # <<>> /\ Head(waitings) = Main /\ WaitsNow(Main)

WaitInv ==
    /\ ListKept
    /\ DOMAIN expecting = Thread /\ mainGaveUp \in BOOLEAN
    /\ \A t \in Thread : ExpectsLevel(t)
    /\ NoLostNotification

\* Whoever waits for a lock it could have is listed, so the list has a first.
LEMMA ForgottenBehindMain ==
    ASSUME WaitInv, ~mainGaveUp, NEW u \in Thread, Forgotten(u)
    PROVE  MainFirst
<1>1. Head(waitings) = Main /\ WaitsNow(Main)
    BY DEF WaitInv, NoLostNotification, Forgotten
<1>2. waitings # <<>>
    BY DEF WaitInv, ListKept, IsListed, Forgotten
<1> QED
    BY <1>1, <1>2 DEF MainFirst

\* Leaving the list, or choosing from it.
LEMMA OnlyListed ==
    ASSUME waitings \in Seq(Thread), NEW S
    PROVE  /\ Only(waitings, S) \in Seq(Thread)
           /\ \A i \in DOMAIN Only(waitings, S) :
                 /\ Only(waitings, S)[i] \in S
                 /\ \E j \in DOMAIN waitings : waitings[j] = Only(waitings, S)[i]
           /\ \A u \in S : IsListed(u) =>
                 \E i \in DOMAIN Only(waitings, S) : Only(waitings, S)[i] = u
<1>1. Only(waitings, S) \in Seq(Thread) /\ ChosenFrom(waitings, S, Only(waitings, S))
    BY OnlyChooses
<1> QED
    BY <1>1 DEF ChosenFrom, IsListed

\* A lock of the file that is not lowered makes nobody's turn.
LEMMA PagerSatisfiedBefore ==
    ASSUME NEW level \in {Shared, Reserved, Exclusive},
           NEW new \in None..Exclusive, NEW old \in None..Exclusive, ~(new < old),
           PagerSatisfied(level, new)
    PROVE  PagerSatisfied(level, old)
<1> USE DEF None, Shared, Reserved, Pending, Exclusive
<1>1. CASE level = Shared
    BY <1>1 DEF PagerSatisfied
<1>2. CASE level = Reserved
    BY <1>2 DEF PagerSatisfied
<1>3. CASE level = Exclusive
    BY <1>3 DEF PagerSatisfied
<1> QED
    BY <1>1, <1>2, <1>3

\* Nor does a lock of the shared memory that is not lowered.
LEMMA SatisfiedBefore ==
    ASSUME NEW u \in Thread, ExpectsLevel(u), place[u] \in Waiting,
           NEW type \in None..Exclusive, pagerType \in None..Exclusive, NEW masks,
           ~(type < pagerType),
           \A v \in Thread : ~MaskLowered(shmMasks[v], masks[v]),
           ~ShouldWait(u, type, masks)
    PROVE  ~WaitsNow(u)
<1>1. CASE expecting[u].on = "file"
  <2>1. expecting[u].level \in {Shared, Reserved, Exclusive}
    BY <1>1 DEF ExpectsLevel
  <2>2. PagerSatisfied(expecting[u].level, type)
    BY <1>1 DEF ShouldWait
  <2>3. PagerSatisfied(expecting[u].level, pagerType)
    BY <2>1, <2>2, PagerSatisfiedBefore
  <2> QED BY <1>1, <2>3 DEF WaitsNow, ShouldWait
<1>2. CASE expecting[u].on # "file"
  <2>1. \A v \in Thread : ShmSatisfied(expecting[u].kind, expecting[u].lock, masks[v])
    BY <1>2 DEF ShouldWait
  <2>2. \A v \in Thread : ShmSatisfied(expecting[u].kind, expecting[u].lock, shmMasks[v])
    BY <2>1 DEF ShmSatisfied, MaskLowered
  <2> QED BY <1>2, <2>2 DEF WaitsNow, ShouldWait
<1> QED BY <1>1, <1>2

\* What a hook does to the threads that wait: it is told of a change, and only a
\* lock that is lowered can be what one waits for.
LEMMA HookKeepsWaiting ==
    ASSUME WaitInv, place \in [Thread -> Places],
           NEW t \in Thread, place[t] \notin Waiting,
           NEW type \in None..Exclusive, pagerType \in None..Exclusive, NEW masks,
           NEW lowered \in BOOLEAN, NEW notified,
           notified = IF lowered THEN Notified(type, masks) ELSE {},
           ~lowered => ~(type < pagerType) /\ \A v \in Thread : ~MaskLowered(shmMasks[v], masks[v]),
           pagerType' = type, shmMasks' = masks, Notify(notified),
           place' = Woken(notified), UNCHANGED <<expecting, mainGaveUp>>
    PROVE  WaitInv'
<1>1. /\ waitings \in Seq(Thread) /\ waitings' = Only(waitings, Thread \ notified)
      /\ \A i \in DOMAIN waitings : waitings[i] # t /\ waitings[i] \in Thread
    BY DEF WaitInv, ListKept, Notify
<1> DEFINE rest == Only(waitings, Thread \ notified)
<1>0. /\ rest \in Seq(Thread)
      /\ \A i \in DOMAIN rest : /\ rest[i] \in Thread \ notified
                                /\ \E j \in DOMAIN waitings : waitings[j] = rest[i]
      /\ \A u \in Thread \ notified : IsListed(u) => \E i \in DOMAIN rest : rest[i] = u
      /\ waitings' = rest
    BY <1>1, OnlyListed
<1> HIDE DEF rest
<1>2. /\ waitings' \in Seq(Thread)
      /\ \A i \in DOMAIN waitings' : \E j \in DOMAIN waitings : waitings[j] = waitings'[i]
      /\ \A i \in DOMAIN waitings' : waitings'[i] \in Thread \ notified
      /\ \A u \in Thread \ notified : IsListed(u) => IsListed(u)'
    BY <1>0 DEF IsListed
<1>3. /\ place'[t] = place[t]
      /\ \A u \in Thread :
            place'[u] = IF u \in notified /\ place[u] = "wait" THEN "woken" ELSE place[u]
    BY DEF Woken, Waiting
<1>4. ListKept'
    <2>1. ASSUME NEW u \in Thread, place'[u] = "wait" PROVE IsListed(u)'
        <3>1. u # t /\ place[u] = "wait" /\ u \notin notified
            BY <1>3, <2>1 DEF Waiting
        <3> QED BY <1>2, <3>1 DEF WaitInv, ListKept
    <2>2. ASSUME NEW i \in DOMAIN waitings' PROVE place'[waitings'[i]] \in Waiting
        <3>1. PICK j \in DOMAIN waitings : waitings[j] = waitings'[i]
            BY <1>2
        <3>2. waitings'[i] \in Thread \ notified /\ waitings'[i] # t /\ place[waitings'[i]] \in Waiting
            BY <1>1, <1>2, <3>1 DEF WaitInv, ListKept
        <3> QED BY <1>3, <3>2
    <2>3. place'[Main] = "timedOut" => place[Main] = "timedOut"
        BY <1>3, BusyAssumption DEF Waiting
    <2> QED BY <1>2, <2>1, <2>2, <2>3 DEF WaitInv, ListKept
<1>5. ASSUME NEW u \in Thread PROVE ExpectsLevel(u)'
    BY <1>3 DEF WaitInv, ExpectsLevel, Waiting
<1>6. \A u \in Thread : WaitsNow(u)' <=> ShouldWait(u, type, masks)
    BY DEF WaitsNow, ShouldWait
<1>7. ASSUME ~mainGaveUp', NEW u \in Thread, place'[u] = "wait", ~WaitsNow(u)'
      PROVE  Head(waitings') = Main /\ WaitsNow(Main)'
    <2>1. u # t /\ place[u] = "wait" /\ u \notin notified /\ ~ShouldWait(u, type, masks)
        BY <1>3, <1>6, <1>7 DEF Waiting
    <2>2. IsListed(u)
        BY <2>1 DEF WaitInv, ListKept
    <2>3. waitings # <<>> /\ Head(waitings) = waitings[1] /\ 1 \in DOMAIN waitings
        BY <1>1, <2>2 DEF IsListed
    <2>4. notified = {} /\ Head(waitings) = Main /\ Main # t /\ ShouldWait(Main, type, masks)
        <3>1. CASE lowered
            <4>1. CASE Head(waitings) = Main /\ ShouldWait(Main, type, masks)
                BY <1>1, <2>3, <3>1, <4>1 DEF Notified
            <4>2. CASE ~(Head(waitings) = Main /\ ShouldWait(Main, type, masks))
                <5>1. notified = {waitings[i] : i \in {j \in DOMAIN waitings : ~ShouldWait(waitings[j], type, masks)}}
                    BY <3>1, <4>2 DEF Notified
                <5> QED BY <2>1, <2>2, <5>1 DEF IsListed
            <4> QED BY <4>1, <4>2
        <3>2. CASE ~lowered
            <4>1. ~WaitsNow(u)
                BY <2>1, <3>2, SatisfiedBefore DEF WaitInv, Waiting
            <4>2. Head(waitings) = Main /\ WaitsNow(Main)
                BY <1>7, <2>1, <4>1 DEF WaitInv, NoLostNotification
            <4>3. place[Main] \in Waiting /\ Main # t /\ Main \in Thread
                BY <1>1, <2>3, <4>2 DEF WaitInv, ListKept
            <4>4. ShouldWait(Main, type, masks)
                BY <3>2, <4>2, <4>3, SatisfiedBefore DEF WaitInv
            <4> QED BY <3>2, <4>2, <4>3, <4>4
        <3> QED BY <3>1, <3>2
    <2>5. Head(waitings') = Main
        BY <1>1, <2>3, <2>4, OnlyHead, BusyAssumption
    <2> QED BY <1>6, <2>4, <2>5, BusyAssumption
<1> QED
    BY <1>4, <1>5, <1>7 DEF WaitInv, NoLostNotification

\* Putting a thread on the list: the main thread first, the others last.
LEMMA ListedList ==
    ASSUME NEW t \in Thread, NEW rest \in Seq(Thread), Others(t) = rest
    PROVE  /\ Listed(t) \in Seq(Thread)
           /\ \A i \in DOMAIN Listed(t) :
                 Listed(t)[i] = t \/ \E j \in DOMAIN rest : rest[j] = Listed(t)[i]
           /\ \E i \in DOMAIN Listed(t) : Listed(t)[i] = t
           /\ \A j \in DOMAIN rest : \E i \in DOMAIN Listed(t) : Listed(t)[i] = rest[j]
           /\ t = Main => Head(Listed(t)) = t
           /\ t # Main /\ rest # <<>> => Head(Listed(t)) = Head(rest)
<1>1. DOMAIN rest = 1..Len(rest) /\ Len(rest) \in Nat
    BY LenProperties
<1>2. CASE t = Main
    <2> DEFINE first == <<t>> \o rest
    <2>1. /\ first \in Seq(Thread) /\ DOMAIN first = 1..(Len(rest) + 1)
          /\ first[1] = t /\ Head(first) = t
          /\ \A i \in 1..Len(rest) : first[i + 1] = rest[i]
        BY <1>1, ConcatProperties
    <2>2. Listed(t) = first
        BY <1>2 DEF Listed
    <2> HIDE DEF first
    <2>3. \A i \in DOMAIN first : i = 1 \/ (i - 1 \in 1..Len(rest) /\ (i - 1) + 1 = i)
        BY <1>1, <2>1
    <2>4. \A i \in DOMAIN first : first[i] = t \/ \E j \in DOMAIN rest : rest[j] = first[i]
        BY <1>1, <2>1, <2>3
    <2>5. \A j \in DOMAIN rest : j + 1 \in DOMAIN first /\ first[j + 1] = rest[j]
        BY <1>1, <2>1
    <2>6. 1 \in DOMAIN first
        BY <1>1, <2>1
    <2> QED BY <1>2, <2>1, <2>2, <2>4, <2>5, <2>6
<1>3. CASE t # Main
    <2> DEFINE last == Append(rest, t)
    <2>1. /\ last \in Seq(Thread) /\ DOMAIN last = 1..(Len(rest) + 1)
          /\ last[Len(rest) + 1] = t
          /\ \A i \in 1..Len(rest) : last[i] = rest[i]
        BY <1>1, AppendProperties
    <2>2. Listed(t) = last
        BY <1>3 DEF Listed
    <2>3. rest # <<>> => Head(last) = Head(rest)
        BY <1>1
    <2> HIDE DEF last
    <2>4. \A i \in DOMAIN last : i \in 1..Len(rest) \/ i = Len(rest) + 1
        BY <1>1, <2>1
    <2>5. \A i \in DOMAIN last : last[i] = t \/ \E j \in DOMAIN rest : rest[j] = last[i]
        BY <1>1, <2>1, <2>4
    <2>6. \A j \in DOMAIN rest : j \in DOMAIN last /\ last[j] = rest[j]
        BY <1>1, <2>1
    <2>7. Len(rest) + 1 \in DOMAIN last
        BY <1>1, <2>1
    <2> QED BY <1>3, <2>1, <2>2, <2>3, <2>5, <2>6, <2>7
<1> QED BY <1>2, <1>3

\* The loop of wait(): a thread stays listed while it must wait and leaves the list
\* when it need not, or when it gives up.
LEMMA LoopKeepsWaiting ==
    ASSUME WaitInv, place \in [Thread -> Places],
           NEW t \in Thread, place[t] \in {"busy", "woken", "timedOut"},
           \/ WaitOrRetry(t)
           \/ /\ waitings' = Others(t) /\ place' = [place EXCEPT ![t] = "up"]
              /\ t = Main => mainGaveUp,
           UNCHANGED <<pagerType, shmMasks, expecting, mainGaveUp>>
    PROVE  WaitInv'
<1> DEFINE rest == Others(t)
<1>1. /\ rest \in Seq(Thread)
      /\ \A i \in DOMAIN rest : /\ rest[i] \in Thread \ {t}
                                /\ \E j \in DOMAIN waitings : waitings[j] = rest[i]
      /\ \A u \in Thread \ {t} : IsListed(u) => \E i \in DOMAIN rest : rest[i] = u
    BY OnlyListed DEF Others, WaitInv, ListKept
<1>2. waitings # <<>> /\ Head(waitings) \in Thread \ {t} =>
        rest # <<>> /\ Head(rest) = Head(waitings)
    BY OnlyHead DEF Others, WaitInv, ListKept
<1>3. \A u \in Thread : WaitsNow(u)' <=> WaitsNow(u)
    BY DEF WaitsNow, ShouldWait
<1>4. CASE WaitsNow(t) /\ waitings' = Listed(t) /\ place' = [place EXCEPT ![t] = "wait"]
    <2> HIDE DEF rest
    <2>1. /\ waitings' \in Seq(Thread)
          /\ \A i \in DOMAIN waitings' :
                waitings'[i] = t \/ \E j \in DOMAIN rest : rest[j] = waitings'[i]
          /\ \E i \in DOMAIN waitings' : waitings'[i] = t
          /\ \A j \in DOMAIN rest : \E i \in DOMAIN waitings' : waitings'[i] = rest[j]
          /\ t = Main => Head(waitings') = t
          /\ t # Main /\ rest # <<>> => Head(waitings') = Head(rest)
        BY <1>1, <1>4, ListedList DEF rest
    <2>2. place'[t] = "wait" /\ \A u \in Thread : u # t => place'[u] = place[u]
        BY <1>4
    <2>3. ASSUME NEW u \in Thread, place'[u] = "wait" PROVE IsListed(u)'
        <3>1. CASE u = t
            BY <2>1, <3>1 DEF IsListed
        <3>2. CASE u # t
            <4>1. IsListed(u)
                BY <2>2, <2>3, <3>2 DEF WaitInv, ListKept
            <4>2. PICK j \in DOMAIN rest : rest[j] = u
                BY <1>1, <3>2, <4>1
            <4> QED BY <2>1, <4>2 DEF IsListed
        <3> QED BY <3>1, <3>2
    <2>4. ASSUME NEW i \in DOMAIN waitings' PROVE place'[waitings'[i]] \in Waiting
        <3>1. CASE waitings'[i] = t
            BY <2>2, <3>1 DEF Waiting
        <3>2. CASE \E j \in DOMAIN rest : rest[j] = waitings'[i]
            <4>1. PICK k \in DOMAIN waitings : waitings[k] = waitings'[i] /\ waitings[k] \in Thread \ {t}
                BY <1>1, <3>2
            <4> QED BY <2>2, <4>1 DEF WaitInv, ListKept
        <3> QED BY <2>1, <3>1, <3>2
    <2>5. ListKept'
        <3>1. place'[Main] = "timedOut" => place[Main] = "timedOut"
            BY <2>2, BusyAssumption
        <3> QED BY <2>1, <2>3, <2>4, <3>1 DEF WaitInv, ListKept
    <2>6. ASSUME ~mainGaveUp', NEW u \in Thread, place'[u] = "wait", ~WaitsNow(u)'
          PROVE  Head(waitings') = Main /\ WaitsNow(Main)'
        <3>1. u # t /\ Forgotten(u)
            BY <1>3, <1>4, <2>2, <2>6 DEF Forgotten
        <3>2. MainFirst
            BY <2>6, <3>1, ForgottenBehindMain
        <3>3. Head(waitings') = Main
            BY <1>2, <2>1, <3>2, BusyAssumption DEF MainFirst
        <3> QED BY <1>3, <3>2, <3>3, BusyAssumption DEF MainFirst
    <2>7. \A u \in Thread : ExpectsLevel(u)'
        BY <2>2 DEF WaitInv, ExpectsLevel, Waiting
    <2> QED BY <2>5, <2>6, <2>7 DEF WaitInv, NoLostNotification
<1>5. CASE /\ waitings' = Others(t) /\ place' = [place EXCEPT ![t] = "up"]
           /\ ~WaitsNow(t) \/ (t = Main => mainGaveUp)
    <2>1. place'[t] = "up" /\ \A u \in Thread : u # t => place'[u] = place[u]
        BY <1>5
    <2>2. waitings' = rest
        BY <1>5
    <2> HIDE DEF rest
    <2>3. ASSUME NEW u \in Thread, place'[u] = "wait" PROVE IsListed(u)'
        <3>1. u # t /\ IsListed(u)
            BY <2>1, <2>3 DEF WaitInv, ListKept
        <3> QED BY <1>1, <2>2, <3>1 DEF IsListed
    <2>4. ASSUME NEW i \in DOMAIN waitings' PROVE place'[waitings'[i]] \in Waiting
        <3>1. PICK k \in DOMAIN waitings : waitings[k] = waitings'[i] /\ waitings[k] \in Thread \ {t}
            BY <1>1, <2>2
        <3> QED BY <2>1, <3>1 DEF WaitInv, ListKept
    <2>5. ListKept'
        <3>1. place'[Main] = "timedOut" => place[Main] = "timedOut"
            BY <2>1, BusyAssumption
        <3> QED BY <1>1, <2>2, <2>3, <2>4, <3>1 DEF WaitInv, ListKept
    <2>6. ASSUME ~mainGaveUp', NEW u \in Thread, place'[u] = "wait", ~WaitsNow(u)'
          PROVE  Head(waitings') = Main /\ WaitsNow(Main)'
        <3>1. u # t /\ Forgotten(u)
            BY <1>3, <2>1, <2>6 DEF Forgotten
        <3>2. MainFirst
            BY <2>6, <3>1, ForgottenBehindMain
        <3>3. t # Main
            BY <1>5, <2>6, <3>2 DEF MainFirst
        <3>4. Head(waitings') = Main
            BY <1>2, <2>2, <3>2, <3>3, BusyAssumption DEF MainFirst
        <3> QED BY <1>3, <3>2, <3>4, BusyAssumption DEF MainFirst
    <2>7. \A u \in Thread : ExpectsLevel(u)'
        BY <2>1 DEF WaitInv, ExpectsLevel, Waiting
    <2> QED BY <2>5, <2>6, <2>7 DEF WaitInv, NoLostNotification
<1> QED
    BY <1>4, <1>5 DEF WaitOrRetry

\* The hook of the file's lock.
LEMMA PagerHookKeepsWaiting ==
    ASSUME BusyInv, WaitInv, NEW t \in Thread, place[t] \notin Waiting,
           NEW type \in None..Exclusive, UpdatePagerLock(t, type),
           UNCHANGED <<expecting, mainGaveUp>>
    PROVE  WaitInv'
<1> DEFINE notified == IF PagerLowered(type) THEN Notified(type, shmMasks) ELSE {}
<1>1. pagerType \in None..Exclusive /\ place \in [Thread -> Places]
    BY DEF BusyInv, BusyTyped
<1>2. /\ pagerType' = type /\ shmMasks' = shmMasks /\ Notify(notified)
      /\ place' = Woken(notified)
    BY DEF UpdatePagerLock
<1>3. PagerLowered(type) \in BOOLEAN /\ (~PagerLowered(type) => ~(type < pagerType))
    BY DEF PagerLowered
<1>4. \A v \in Thread : ~MaskLowered(shmMasks[v], shmMasks[v])
    BY DEF MaskLowered
<1> QED
    BY <1>1, <1>2, <1>3, <1>4, HookKeepsWaiting

\* The hook of the locks of the shared memory.
LEMMA ShmHookKeepsWaiting ==
    ASSUME BusyInv, WaitInv, NEW t \in Thread, place[t] \notin Waiting,
           NEW mask, UpdateShmLock(t, mask), UNCHANGED <<expecting, mainGaveUp>>
    PROVE  WaitInv'
<1> DEFINE masks == [shmMasks EXCEPT ![t] = mask]
           lowered == MaskLowered(shmMasks[t], mask)
           notified == IF lowered THEN Notified(pagerType, masks) ELSE {}
<1>1. /\ pagerType \in None..Exclusive /\ place \in [Thread -> Places]
      /\ DOMAIN shmMasks = Thread
    BY DEF BusyInv, BusyTyped
<1>2. /\ pagerType' = pagerType /\ shmMasks' = masks /\ Notify(notified)
      /\ place' = Woken(notified)
    BY DEF UpdateShmLock
<1>3. lowered \in BOOLEAN /\ ~(pagerType < pagerType)
    BY <1>1 DEF MaskLowered, None, Exclusive
<1>4. ~lowered => \A v \in Thread : ~MaskLowered(shmMasks[v], masks[v])
    <2>1. masks[t] = mask /\ \A v \in Thread : v # t => masks[v] = shmMasks[v]
        BY <1>1
    <2> QED BY <2>1 DEF MaskLowered
<1> HIDE DEF masks, lowered
<1> QED
    BY <1>1, <1>2, <1>3, <1>4, HookKeepsWaiting

\* The hook, of either lock.
LEMMA HookCallKeepsWaiting ==
    ASSUME BusyInv, WaitInv, NEW t \in Thread, Hook(t)
    PROVE  WaitInv'
<1>1. /\ InHook(t) /\ UNCHANGED <<expecting, mainGaveUp>>
      /\ \/ hooks[t].on = "file" /\ UpdatePagerLock(t, hooks[t].type)
         \/ UpdateShmLock(t, hooks[t].mask)
    BY DEF Hook, history
<1>2. place[t] \notin Waiting
    BY <1>1 DEF BusyInv, HooksKept, HookFits, Working, Waiting
<1>3. hooks[t].on = "file" => hooks[t].type \in None..Exclusive
    BY <1>1 DEF BusyInv, HooksKept, HookFits, LocksTyped
<1> QED
    BY <1>1, <1>2, <1>3, PagerHookKeepsWaiting, ShmHookKeepsWaiting

\* A step of a thread that changes what it expects and nothing of what others do.
CallerOnly(t) ==
    /\ DOMAIN expecting' = Thread /\ \A u \in Thread : u # t => expecting'[u] = expecting[u]
    /\ ExpectsLevel(t)' /\ mainGaveUp' = mainGaveUp

\* A thread outside wait() moves on, and nothing else changes for those that wait.
LEMMA PlaceKeepsWaiting ==
    ASSUME WaitInv, NEW t \in Thread, place[t] \notin Waiting, place'[t] \notin Waiting,
           UNCHANGED <<waitings, pagerType, shmMasks>>, CallerOnly(t),
           \A u \in Thread : u # t => place'[u] = place[u]
    PROVE  WaitInv'
<1>1. \A i \in DOMAIN waitings : waitings[i] # t /\ waitings[i] \in Thread
    BY DEF WaitInv, ListKept
<1>2. ListKept'
    <2>1. \A u \in Thread : place'[u] = "wait" => IsListed(u)'
        BY DEF WaitInv, ListKept, IsListed, Waiting
    <2>2. \A i \in DOMAIN waitings' : place'[waitings'[i]] \in Waiting
        BY <1>1 DEF WaitInv, ListKept
    <2>3. place'[Main] = "timedOut" => place[Main] = "timedOut"
        BY BusyAssumption DEF Waiting
    <2> QED BY <2>1, <2>2, <2>3 DEF WaitInv, ListKept, CallerOnly
<1>3. \A u \in Thread : ExpectsLevel(u)'
    <2>1. ASSUME NEW u \in Thread, u # t PROVE ExpectsLevel(u)'
        BY <2>1 DEF WaitInv, ExpectsLevel, CallerOnly
    <2> QED BY <2>1 DEF CallerOnly
<1>4. \A u \in Thread : u # t => (WaitsNow(u)' <=> WaitsNow(u))
    BY DEF CallerOnly, WaitsNow, ShouldWait
<1>5. ASSUME ~mainGaveUp', NEW u \in Thread, place'[u] = "wait", ~WaitsNow(u)'
      PROVE  Head(waitings') = Main /\ WaitsNow(Main)'
    <2>1. u # t /\ Forgotten(u) /\ ~mainGaveUp
        BY <1>4, <1>5 DEF Forgotten, Waiting, CallerOnly
    <2>2. MainFirst
        BY <2>1, ForgottenBehindMain
    <2>3. Main # t
        BY <1>1, <2>2 DEF MainFirst, WaitInv, ListKept
    <2> QED BY <1>4, <2>2, <2>3, BusyAssumption DEF MainFirst
<1> QED
    BY <1>2, <1>3, <1>5 DEF WaitInv, NoLostNotification, CallerOnly

\* A lock granted.
LEMMA TakeLockKeepsWaiting ==
    ASSUME BusyInv, WaitInv, NEW t \in Thread, TakeLock(t)
    PROVE  WaitInv'
<1> DEFINE then == IF locks[t] + 1 = Len(ProgramOf(t)) THEN "down" ELSE "up"
<1>1. /\ place[t] = "up" /\ expecting' = [expecting EXCEPT ![t] = Wanted(t)]
      /\ UNCHANGED <<mainGaveUp, waitings, pagerType, shmMasks>>
      /\ place' = [place EXCEPT ![t] = then]
    BY DEF TakeLock, history, busyVars
<1>2. then \in {"down", "up"}
    OBVIOUS
<1> HIDE DEF then
<1>3. /\ place[t] \notin Waiting /\ place'[t] = then /\ place'[t] \notin Waiting
      /\ \A u \in Thread : u # t => place'[u] = place[u]
    BY <1>1, <1>2 DEF BusyInv, BusyTyped, Waiting
<1>4. CallerOnly(t)
    BY <1>1, <1>2, <1>3 DEF CallerOnly, ExpectsLevel, WaitInv, Waiting
<1> QED
    BY <1>1, <1>3, <1>4, PlaceKeepsWaiting

\* A lock refused: the thread expects it from now on.
LEMMA FindBusyKeepsWaiting ==
    ASSUME BusyInv, WaitInv, NEW t \in Thread, FindBusy(t)
    PROVE  WaitInv'
<1> DEFINE then == AfterBusy(Wanted(t).ifBusy)
<1>2. /\ place[t] = "up" /\ expecting' = [expecting EXCEPT ![t] = Wanted(t)]
      /\ UNCHANGED <<mainGaveUp, waitings, pagerType, shmMasks>>
      /\ Wanted(t).ifBusy # "spin" /\ place' = [place EXCEPT ![t] = then]
    BY DEF FindBusy, history, busyVars
<1>3. /\ WorkFits(t) /\ BusyTyped /\ DOMAIN expecting = Thread
      /\ place \in [Thread -> Places] /\ place[t] \notin Waiting
    BY <1>2 DEF BusyInv, BusyTyped, WorksFit, Waiting, WaitInv
<1>4. then \in {"down", "busy", "backOff"}
    <2>1. /\ Len(ProgramOf(t)) \in 1..3 /\ locks[t] \in 0..Len(ProgramOf(t)) /\ MoreToTake(t)
        BY <1>2, <1>3, ProgramsFit DEF WorkFits
    <2>2. locks[t] + 1 \in 1..Len(ProgramOf(t))
        BY <2>1, NextLock DEF MoreToTake
    <2>3. ProgramOf(t)[locks[t] + 1].ifBusy \in {"spin", "giveUp", "wait", "restart"}
        BY <1>2, <1>3, <2>1, <2>2, BusyKinds
    <2>4. Wanted(t).ifBusy \in {"giveUp", "wait", "restart"}
        BY <1>2, <2>3 DEF Wanted
    <2> QED BY <2>4 DEF AfterBusy
<1> HIDE DEF then
<1>5. then \notin Waiting
    BY <1>4 DEF Waiting
<1>6. ExpectsLevel(t)'
    <2>1. expecting'[t] = Wanted(t)
        BY <1>2, <1>3
    <2> QED BY <1>2, <1>3, <2>1, WantedLevel DEF ExpectsLevel
<1>7. CallerOnly(t)
    BY <1>2, <1>3, <1>6 DEF CallerOnly
<1>8. place'[t] = then /\ \A u \in Thread : u # t => place'[u] = place[u]
    BY <1>2, <1>3
<1> QED
    BY <1>2, <1>3, <1>5, <1>7, <1>8, PlaceKeepsWaiting

\* A lock released: the hook is not called yet.
LEMMA ReleaseKeepsWaiting ==
    ASSUME BusyInv, WaitInv, NEW t \in Thread, Release(t)
    PROVE  WaitInv'
<1>1. /\ place[t] \in {"down", "backOff"}
      /\ UNCHANGED <<expecting, mainGaveUp, place, waitings, pagerType, shmMasks>>
    BY DEF Release, history, busyVars
<1>2. CallerOnly(t)
    BY <1>1 DEF CallerOnly, ExpectsLevel, WaitInv
<1> QED
    BY <1>1, <1>2, PlaceKeepsWaiting DEF Waiting

\* A program starts, or has given its locks back.
LEMMA OutsideKeepsWaiting ==
    ASSUME BusyInv, WaitInv, NEW t \in Thread, Unlocked(t) \/ \E p \in Programs[t] : Start(t, p)
    PROVE  WaitInv'
<1>1. /\ place \in [Thread -> Places]
      /\ UNCHANGED <<waitings, pagerType, shmMasks, expecting, mainGaveUp>>
    BY DEF Unlocked, Start, history, busyVars, BusyInv, BusyTyped
<1>2. \/ place[t] = "none" /\ place' = [place EXCEPT ![t] = "up"]
      \/ place[t] = "down" /\ place' = [place EXCEPT ![t] = "none"]
      \/ place[t] = "backOff" /\ place' = [place EXCEPT ![t] = "busy"]
    BY DEF Unlocked, Start
<1>3. /\ place[t] \notin Waiting /\ place'[t] \notin Waiting
      /\ \A u \in Thread : u # t => place'[u] = place[u]
    BY <1>1, <1>2 DEF Waiting
<1>4. CallerOnly(t)
    BY <1>1, <1>2 DEF CallerOnly, ExpectsLevel, WaitInv, Waiting
<1> QED
    BY <1>1, <1>3, <1>4, PlaceKeepsWaiting

\* The wait begins, goes on or ends.
LEMMA RoundKeepsWaiting ==
    ASSUME BusyInv, WaitInv, NEW t \in Thread, OnBusy(t) \/ Resume(t) \/ ResumeTimedOut(t)
    PROVE  WaitInv'
<1>1. /\ place \in [Thread -> Places] /\ place[t] \in {"busy", "woken", "timedOut"}
      /\ UNCHANGED <<pagerType, shmMasks, expecting, mainGaveUp>>
    BY DEF OnBusy, Resume, ResumeTimedOut, history, BusyInv, BusyTyped
<1>2. \/ WaitOrRetry(t)
      \/ /\ waitings' = Others(t) /\ place' = [place EXCEPT ![t] = "up"]
         /\ t = Main => mainGaveUp
    BY DEF OnBusy, Resume, ResumeTimedOut, WaitInv, ListKept
<1> QED
    BY <1>1, <1>2, LoopKeepsWaiting

\* A thread that waits wakes up without a signal, or has waited for too long.
LEMMA WakeKeepsWaiting ==
    ASSUME BusyInv, WaitInv, NEW t \in Thread, WakeSpuriously(t) \/ TimeOut(t)
    PROVE  WaitInv'
<1>1. /\ place \in [Thread -> Places] /\ place[t] = "wait"
      /\ UNCHANGED <<waitings, pagerType, shmMasks, expecting>>
    BY DEF WakeSpuriously, TimeOut, busyVars, BusyInv, BusyTyped
<1>2. /\ place'[t] \in {"woken", "timedOut"}
      /\ \A u \in Thread : u # t => place'[u] = place[u]
    BY <1>1 DEF WakeSpuriously, TimeOut
<1>3. /\ mainGaveUp' \in BOOLEAN /\ (~mainGaveUp' => ~mainGaveUp)
      /\ place'[Main] = "timedOut" => mainGaveUp'
    <2>1. CASE WakeSpuriously(t)
        BY <1>1, <2>1, BusyAssumption DEF WakeSpuriously, WaitInv, ListKept
    <2>2. CASE TimeOut(t)
        BY <1>2, <2>2, BusyAssumption DEF TimeOut, WaitInv, ListKept
    <2> QED BY <2>1, <2>2
<1>4. ListKept'
    <2>1. \A u \in Thread : place'[u] = "wait" => IsListed(u)'
        BY <1>1, <1>2 DEF WaitInv, ListKept, IsListed
    <2>2. \A i \in DOMAIN waitings' : waitings'[i] \in Thread /\ place'[waitings'[i]] \in Waiting
        BY <1>1, <1>2 DEF WaitInv, ListKept, Waiting
    <2> QED BY <1>1, <1>3, <2>1, <2>2 DEF WaitInv, ListKept
<1>5. \A u \in Thread : ExpectsLevel(u)'
    BY <1>1, <1>2 DEF WaitInv, ExpectsLevel, Waiting
<1>6. \A u \in Thread : WaitsNow(u)' <=> WaitsNow(u)
    BY <1>1 DEF WaitsNow, ShouldWait
<1>7. ASSUME ~mainGaveUp', NEW u \in Thread, place'[u] = "wait", ~WaitsNow(u)'
      PROVE  Head(waitings') = Main /\ WaitsNow(Main)'
    <2>1. ~mainGaveUp /\ Forgotten(u)
        BY <1>2, <1>3, <1>6, <1>7 DEF Forgotten
    <2>2. MainFirst
        BY <2>1, ForgottenBehindMain
    <2> QED BY <1>1, <1>6, <2>2, BusyAssumption DEF MainFirst
<1> QED
    BY <1>1, <1>3, <1>4, <1>5, <1>7 DEF WaitInv, NoLostNotification

\* Each step keeps the threads that wait from being forgotten.
LEMMA NextKeepsWaiting ==
    ASSUME BusyInv, WaitInv, [Next]_vars
    PROVE  WaitInv'
<1>1. CASE \E t \in Thread : Unlocked(t) \/ \E p \in Programs[t] : Start(t, p)
    BY <1>1, OutsideKeepsWaiting
<1>2. CASE \E t \in Thread : TakeLock(t) \/ FindBusy(t) \/ Release(t)
    BY <1>2, TakeLockKeepsWaiting, FindBusyKeepsWaiting, ReleaseKeepsWaiting
<1>6. CASE \E t \in Thread : Hook(t)
    BY <1>6, HookCallKeepsWaiting
<1>3. CASE \E t \in Thread : OnBusy(t) \/ Resume(t) \/ ResumeTimedOut(t)
    BY <1>3, RoundKeepsWaiting
<1>4. CASE \E t \in Thread : WakeSpuriously(t) \/ TimeOut(t)
    BY <1>4, WakeKeepsWaiting
<1>5. CASE UNCHANGED vars
    <2>1. UNCHANGED <<waitings, pagerType, shmMasks, expecting, place, mainGaveUp>>
        BY <1>5 DEF vars, busyVars, threadVars, history
    <2>2. \A u \in Thread : WaitsNow(u)' <=> WaitsNow(u)
        BY <2>1 DEF WaitsNow, ShouldWait
    <2>3. NoLostNotification'
        BY <2>1, <2>2, BusyAssumption DEF WaitInv, NoLostNotification
    <2>4. ListKept' /\ \A u \in Thread : ExpectsLevel(u)'
        BY <2>1 DEF WaitInv, ListKept, IsListed, ExpectsLevel
    <2> QED BY <2>1, <2>3, <2>4 DEF WaitInv
<1> QED
    BY <1>1, <1>2, <1>3, <1>4, <1>5, <1>6 DEF Next, Step

\* Who waits is listed and, as long as the main thread did not give up, nobody but
\* the main thread keeps one that could go on from being notified (wait, tryNotify).
THEOREM WaitInvariance == Spec => []WaitInv
<1>1. ASSUME Init PROVE WaitInv
    <2>1. /\ waitings = <<>> /\ \A t \in Thread : place[t] = "none"
          /\ DOMAIN expecting = Thread /\ mainGaveUp = FALSE
        BY <1>1 DEF Init
    <2>2. waitings \in Seq(Thread) /\ DOMAIN waitings = {}
        BY <2>1, EmptySeq
    <2>3. ListKept
        BY <2>1, <2>2, BusyAssumption DEF ListKept
    <2> QED BY <2>1, <2>3 DEF WaitInv, ExpectsLevel, NoLostNotification, Waiting
<1>2. BusyInv /\ WaitInv /\ [Next]_vars => WaitInv'
    BY NextKeepsWaiting
<1> QED
    BY <1>1, <1>2, BusyInvariance, PTL DEF Spec

\* No notification is lost: a thread that waits waits for a lock that is held.
THEOREM NobodyForgotten == Spec => []NoLostNotification
<1>1. WaitInv => NoLostNotification
    BY DEF WaitInv
<1> QED
    BY <1>1, WaitInvariance, PTL
=============================================================================
