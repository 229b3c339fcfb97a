-------------------------- MODULE ReentrantRWLock ---------------------------
(***************************************************************************)
(* What WCDB's SharedLock promises (Lock.hpp): a reader-writer lock whose  *)
(* holds are counted per thread.  A thread that writes may take it again,  *)
(* for reading or for writing; a thread that only reads may take it again  *)
(* for reading.  How waiting threads are queued and woken is not said.     *)
(***************************************************************************)
EXTENDS Naturals

CONSTANT Thread

VARIABLES
    reads,      \* how often each thread holds the lock for reading
    writes      \* how often each thread holds it for writing

vars == <<reads, writes>>

Init ==
    /\ reads = [t \in Thread |-> 0]
    /\ writes = [t \in Thread |-> 0]

\* A hold for reading is given while no other thread writes.
GrantRead(t) ==
    /\ \A u \in Thread \ {t} : writes[u] = 0
    /\ reads' = [reads EXCEPT ![t] = @ + 1]
    /\ UNCHANGED writes

\* A hold for writing is given while no other thread holds anything.  It is
\* never given to a thread that reads: the lock is not upgraded.
GrantWrite(t) ==
    /\ reads[t] = 0
    /\ \A u \in Thread \ {t} : reads[u] = 0 /\ writes[u] = 0
    /\ writes' = [writes EXCEPT ![t] = @ + 1]
    /\ UNCHANGED reads

ReleaseRead(t) ==
    /\ reads[t] > 0
    /\ reads' = [reads EXCEPT ![t] = @ - 1]
    /\ UNCHANGED writes

\* A thread that reads as well cannot give up writing first.
ReleaseWrite(t) ==
    /\ writes[t] > 0
    /\ reads[t] = 0
    /\ writes' = [writes EXCEPT ![t] = @ - 1]
    /\ UNCHANGED reads

Next ==
    \E t \in Thread :
        GrantRead(t) \/ GrantWrite(t) \/ ReleaseRead(t) \/ ReleaseWrite(t)

Spec == Init /\ [][Next]_vars
=============================================================================
