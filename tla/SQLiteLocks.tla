---------------------------- MODULE SQLiteLocks -----------------------------
(***************************************************************************)
(* The locks SQLite keeps on one database for the connections of one       *)
(* process (os_unix.c): the lock of the file, which rises in levels, and   *)
(* the locks of the WAL's shared memory, each shared or exclusive.  Each   *)
(* connection is used by one thread.  No other process locks the database. *)
(***************************************************************************)
EXTENDS Naturals, FiniteSets

CONSTANT Thread

VARIABLES
    fileLock,       \* pFile->eFileLock of each connection
    inodeLock,      \* pInode->eFileLock, the highest of them
    nShared,        \* pInode->nShared
    sharedMask,     \* p->sharedMask of each connection: locks of the shared memory
    exclMask        \* p->exclMask

lockVars == <<fileLock, inodeLock, nShared, sharedMask, exclMask>>
fileVars == <<fileLock, inodeLock, nShared>>
shmVars == <<sharedMask, exclMask>>

None == 0
Shared == 1
Reserved == 2
Pending == 3
Exclusive == 4

LocksInit ==
    /\ fileLock = [t \in Thread |-> None] /\ inodeLock = None /\ nShared = 0
    /\ sharedMask = [t \in Thread |-> {}] /\ exclMask = [t \in Thread |-> {}]

-----------------------------------------------------------------------------
(* unixLock                                                                 *)

\* "some thread using this PID has a lock via a different unixFile* handle that
\* precludes the requested lock"
Precluded(t, level) ==
    /\ fileLock[t] # inodeLock
    /\ inodeLock >= Pending \/ level > Shared

\* Mutant of Crowded: the connections that share the lock are forgotten.
NeverCrowded(level) == FALSE

\* "another thread in this same process is still holding a shared lock"
Crowded(level) == level = Exclusive /\ nShared > 1

MayLockFile(t, level) == ~Precluded(t, level) /\ ~Crowded(level)

LockFile(t, level) ==
    /\ MayLockFile(t, level)
    /\ fileLock' = [fileLock EXCEPT ![t] = level]
    /\ nShared' = IF level = Shared THEN nShared + 1 ELSE nShared
    /\ inodeLock' = IF level > inodeLock THEN level ELSE inodeLock
    /\ UNCHANGED shmVars

\* A connection that may not lock exclusively yet keeps new readers out.
FailToLockFile(t, level) ==
    /\ ~MayLockFile(t, level)
    /\ IF Precluded(t, level)
       THEN UNCHANGED fileVars
       ELSE /\ fileLock' = [fileLock EXCEPT ![t] = Pending]
            /\ inodeLock' = Pending
            /\ UNCHANGED nShared
    /\ UNCHANGED shmVars

\* posixUnlock, to NO_LOCK.
UnlockFile(t) ==
    /\ fileLock[t] # None
    /\ fileLock' = [fileLock EXCEPT ![t] = None]
    /\ nShared' = nShared - 1
    /\ inodeLock' = IF nShared = 1 THEN None
                    ELSE IF fileLock[t] > Shared THEN Shared ELSE inodeLock
    /\ UNCHANGED shmVars

-----------------------------------------------------------------------------
(* unixShmLock                                                              *)

MayLockShm(t, kind, lock) ==
    \A u \in Thread : /\ lock \notin exclMask[u]
                      /\ kind = "exclusive" => lock \notin sharedMask[u]

LockShm(t, kind, lock) ==
    /\ MayLockShm(t, kind, lock)
    /\ IF kind = "shared"
       THEN /\ sharedMask' = [sharedMask EXCEPT ![t] = @ \cup {lock}]
            /\ UNCHANGED exclMask
       ELSE /\ exclMask' = [exclMask EXCEPT ![t] = @ \cup {lock}]
            /\ UNCHANGED sharedMask
    /\ UNCHANGED fileVars

UnlockShm(t, lock) ==
    /\ sharedMask' = [sharedMask EXCEPT ![t] = @ \ {lock}]
    /\ exclMask' = [exclMask EXCEPT ![t] = @ \ {lock}]
    /\ UNCHANGED fileVars

-----------------------------------------------------------------------------
\* What the levels promise: one connection writes and, while it does, no other
\* reads; one is reserved; the count is the number of those that read.
LocksExclude ==
    /\ \A t, u \in Thread : t # u =>
        /\ fileLock[t] = Exclusive => fileLock[u] = None
        /\ fileLock[t] >= Reserved => fileLock[u] < Reserved
        /\ exclMask[t] \cap (exclMask[u] \cup sharedMask[u]) = {}
    /\ nShared = Cardinality({t \in Thread : fileLock[t] # None})
    /\ \A t \in Thread : fileLock[t] <= inodeLock
    /\ inodeLock # None => \E t \in Thread : fileLock[t] = inodeLock
=============================================================================
