------------------------------- MODULE RWLock -------------------------------
(***************************************************************************)
(* pthread_rwlock_t, as SafeCollection.swift uses it: rdlock, wrlock and   *)
(* unlock, with every status ignored.  The lock is the function telling    *)
(* what each thread holds.  Which waiting thread is served first is left   *)
(* open, as POSIX leaves it.                                               *)
(***************************************************************************)
CONSTANT Thread

Hold == {"none", "read", "write"}

Unlocked == [t \in Thread |-> "none"]

\* rdlock is granted while nobody writes, wrlock while nobody holds anything.
Grants(held, mode) ==
    \A u \in Thread : IF mode = "read" THEN held[u] # "write" ELSE held[u] = "none"

Locked(held, t, mode) == [held EXCEPT ![t] = mode]

Released(held, t) == [held EXCEPT ![t] = "none"]

\* The meaning of a reader-writer lock: a writer shares it with nobody.
WriterAlone(held) ==
    \A t, u \in Thread : held[t] = "write" /\ u # t => held[u] = "none"
=============================================================================
