--------------------------- MODULE SafeDictProofs ---------------------------
(***************************************************************************)
(* Proofs about PThreadSafeDictionary, for any threads, keys, values and   *)
(* any choice of the methods its clients call.                             *)
(***************************************************************************)
EXTENDS SafeDict, FiniteSetTheorems, TLAPS

-----------------------------------------------------------------------------
(* What the operators return.                                               *)

\* Only "set" and "testSet" calls carry a key and a value to store; a mutator
\* other than "testSet" is a subscript assignment and takes the write lock.
LEMMA CallShape ==
    ASSUME NEW c \in Call
    PROVE  /\ c.op \in Op
           /\ Mutates(c) => c.key \in Key /\ c.val \in Value \cup {Nil}
           /\ Mutates(c) /\ c.op # "testSet" => Mode(c) = "write"
           /\ c.op = "set" <=> Mode(c) = "write"
BY DEF Call, Mutates, Mode, KeyedSetters, KeyedGetters, Snapshots

LEMMA ModeIsHold ==
    ASSUME NEW c
    PROVE  Mode(c) \in {"read", "write"} /\ Mode(c) \in Hold /\ Mode(c) # "none"
BY DEF Mode, Hold

\* A call leaves a dictionary.
LEMMA EffectIsDict ==
    ASSUME NEW d \in Dict, NEW c \in Call
    PROVE  Effect(d, c) \in Dict
BY CallShape DEF Effect, Dict

\* The number of entries of a dictionary is one its count can hold.
LEMMA CountBound ==
    ASSUME NEW d \in Dict
    PROVE  Cardinality(Present(d)) \in 0..Cardinality(Key)
<1>1. IsFiniteSet(Key) /\ Present(d) \subseteq Key
    BY DictAssumption DEF Present
<1>2. /\ IsFiniteSet(Present(d)) /\ Cardinality(Present(d)) \in Nat
      /\ Cardinality(Key) \in Nat /\ Cardinality(Present(d)) <= Cardinality(Key)
    BY <1>1, FS_Subset, FS_CardinalityType
<1> QED
    BY <1>2

LEMMA ToSeeKeys ==
    ASSUME NEW c \in Call
    PROVE  ToSee(c) \subseteq Key
BY DEF ToSee, Call, KeyedSetters, KeyedGetters, Snapshots

-----------------------------------------------------------------------------
(* The inductive invariant.                                                 *)

LEMMA InitIInv == Init => IInv
<1> SUFFICES ASSUME Init PROVE IInv
    OBVIOUS
<1>1. Blank \in Dict
    BY DEF Blank, Dict
<1>2. TypeOK
    <2>1. total \in 0..Cardinality(Key)
        BY CountBound DEF Init
    <2>2. copy \in [Thread -> Dict] /\ left \in [Thread -> 0..MaxCalls]
        BY <1>1, DictAssumption DEF Init
    <2>3. held \in [Thread -> Hold] /\ call \in [Thread -> Call \cup {NoCall}]
        BY DEF Init, Unlocked, Hold, NoCall
    <2> QED
        BY <2>1, <2>2, <2>3 DEF Init, TypeOK
<1>3. CallsInProgress /\ HoldsItsMode
    BY DEF Init, CallsInProgress, HoldsItsMode, InSection, Touching, Unlocked
<1>4. WriterAlone(held) /\ OnlySettersCount /\ MixedNeedsTestSet
    BY DEF Init, WriterAlone, Unlocked, OnlySettersCount, MixedNeedsTestSet
<1>5. RacesAreMixed /\ CopiesAgree /\ CountsAgree
    BY DEF Init, RacesAreMixed, CopiesAgree, CountsAgree, ThreadSafe, Race, Touching
<1> QED
    BY <1>2, <1>3, <1>4, <1>5 DEF IInv

\* A step that moves one thread along its call, and takes part in no race that
\* was not there before, keeps the races noted.
LEMMA RacesStay ==
    ASSUME IInv, NEW t \in Thread, mixed' = mixed,
           \A u \in Thread : Touching(u)' => Touching(u) /\ call'[u] = call[u]
    PROVE  RacesAreMixed'
BY DEF IInv, RacesAreMixed, ThreadSafe, Race, Conflict, Mutates, Touching

\* Until testSetByObjectForKey overlapped a conflicting access, a thread in the
\* dictionary has no rival there.
LEMMA Undisturbed ==
    ASSUME IInv, ~mixed, NEW t \in Thread, Touching(t)
    PROVE  Rivals(t) = {}
BY DEF IInv, RacesAreMixed, ThreadSafe, Race, Rivals

LEMMA InvokeKeeps ==
    ASSUME IInv, NEW t \in Thread, Invoke(t)
    PROVE  IInv'
<1>1. PICK c \in Call : call' = [call EXCEPT ![t] = c]
    BY DEF Invoke
<1>2. pc' = [pc EXCEPT ![t] = "waiting"]
    BY DEF Invoke
<1>3. TypeOK'
    <2>1. left' \in [Thread -> 0..MaxCalls]
        BY DictAssumption DEF IInv, TypeOK, Invoke
    <2> QED
        BY <1>1, <2>1 DEF IInv, TypeOK, Invoke
<1>4. CallsInProgress'
    BY <1>1 DEF IInv, TypeOK, CallsInProgress, Invoke
<1>5. HoldsItsMode'
    BY <1>1 DEF IInv, TypeOK, HoldsItsMode, InSection, Touching, Invoke
<1>6. WriterAlone(held)' /\ OnlySettersCount' /\ MixedNeedsTestSet'
    BY <1>1 DEF IInv, TypeOK, WriterAlone, OnlySettersCount, MixedNeedsTestSet, Mutates, Invoke
<1>7. \A u \in Thread : Touching(u)' => Touching(u) /\ call'[u] = call[u] /\ u # t
    BY <1>1, <1>2 DEF IInv, TypeOK, Touching
<1>8. RacesAreMixed'
    BY <1>7, RacesStay DEF Invoke
<1>9. CopiesAgree'
    BY <1>1, <1>2 DEF IInv, TypeOK, CopiesAgree, Mutates, Invoke
<1>10. CountsAgree'
    BY <1>2 DEF IInv, TypeOK, CountsAgree, Invoke
<1> QED
    BY <1>3, <1>4, <1>5, <1>6, <1>8, <1>9, <1>10 DEF IInv

\* An access is granted beside a rival only if one of the two is
\* testSetByObjectForKey: any other mutator holds the lock alone.
LEMMA RivalsNeedTestSet ==
    ASSUME IInv, NEW t \in Thread, NEW u \in Rivals(t),
           pc[t] = "waiting", Grants(held, Mode(call[t]))
    PROVE  "testSet" \in {call[t].op, call[u].op}
<1> SUFFICES ASSUME "testSet" \notin {call[t].op, call[u].op}
             PROVE  FALSE
    OBVIOUS
<1>0. u \in Thread /\ Touching(u) /\ Conflict(t, u)
    BY DEF Rivals
<1>1. call[t] \in Call /\ call[u] \in Call
    BY <1>0 DEF IInv, CallsInProgress, Touching
<1>2. held[u] = Mode(call[u])
    BY <1>0 DEF IInv, HoldsItsMode, InSection
<1>3. CASE Mutates(call[t])
    <2>1. Mode(call[t]) = "write"
        BY <1>1, <1>3, CallShape
    <2> QED
        BY <1>0, <1>2, <2>1, ModeIsHold DEF Grants
<1>4. CASE Mutates(call[u])
    <2>1. Mode(call[u]) = "write"
        BY <1>1, <1>4, CallShape
    <2> QED
        BY <1>0, <1>2, <2>1 DEF Grants
<1> QED
    BY <1>0, <1>3, <1>4 DEF Conflict

LEMMA AcquireKeeps ==
    ASSUME IInv, NEW t \in Thread, Acquire(t)
    PROVE  IInv'
<1> DEFINE m == Mode(call[t])
<1>1. m \in Hold /\ m # "none" /\ m \in {"read", "write"}
    BY ModeIsHold
<1>2. pc[t] = "waiting" /\ Grants(held, m)
    BY DEF Acquire
<1>3. held' = [held EXCEPT ![t] = m] /\ pc' = [pc EXCEPT ![t] = "accessing"]
    BY DEF Acquire, Locked
<1>4. call[t] \in Call /\ ToSee(call[t]) \subseteq Key
    BY <1>2, ToSeeKeys DEF IInv, CallsInProgress
<1>5. ~mixed' => ~mixed /\ Rivals(t) = {}
    <2> SUFFICES ASSUME ~mixed' PROVE ~mixed /\ Rivals(t) = {}
        OBVIOUS
    <2>1. ~mixed /\ \A u \in Rivals(t) : "testSet" \notin {call[t].op, call[u].op}
        BY DEF Acquire
    <2>2. \A u \in Rivals(t) : "testSet" \in {call[t].op, call[u].op}
        BY <1>2, RivalsNeedTestSet
    <2> QED
        BY <2>1, <2>2
<1>6. mixed' => mixed \/ "testSet" \in Op
    <2> SUFFICES ASSUME NEW u \in Rivals(t), "testSet" \in {call[t].op, call[u].op}
                 PROVE  "testSet" \in Op
        BY DEF Acquire
    <2>1. u \in Thread /\ call[u] \in Call
        BY DEF IInv, CallsInProgress, Rivals, Touching
    <2> QED
        BY <1>4, <2>1, CallShape
<1> HIDE DEF m
<1>7. TypeOK'
    BY <1>1, <1>3, <1>4 DEF IInv, TypeOK, Acquire
<1>8. CallsInProgress' /\ OnlySettersCount' /\ MixedNeedsTestSet'
    BY <1>2, <1>3, <1>6
       DEF IInv, TypeOK, CallsInProgress, OnlySettersCount, MixedNeedsTestSet, Acquire
<1>9. HoldsItsMode'
    BY <1>3 DEF IInv, TypeOK, HoldsItsMode, InSection, Touching, Acquire, m
<1>10. WriterAlone(held)'
    BY <1>1, <1>2, <1>3 DEF IInv, TypeOK, WriterAlone, Grants
<1>11. RacesAreMixed'
    <2> SUFFICES ASSUME ~mixed', NEW u \in Thread, NEW v \in Thread, Race(u, v)'
                 PROVE  FALSE
        BY DEF RacesAreMixed, ThreadSafe
    <2>1. Conflict(u, v) /\ Conflict(v, u) /\ u # v
        BY DEF Race, Conflict, Mutates, Acquire
    <2>2. \A w \in Thread \ {t} : Touching(w)' => Touching(w)
        BY <1>3 DEF IInv, TypeOK, Touching
    <2>3. CASE u # t /\ v # t
        BY <1>5, <2>1, <2>2, <2>3 DEF IInv, RacesAreMixed, ThreadSafe, Race
    <2>4. CASE u = t
        BY <1>5, <2>1, <2>2, <2>4 DEF Race, Rivals
    <2>5. CASE v = t
        BY <1>5, <2>1, <2>2, <2>5 DEF Race, Rivals
    <2> QED
        BY <2>3, <2>4, <2>5
<1>12. CopiesAgree'
    BY <1>3, <1>5 DEF IInv, TypeOK, CopiesAgree, Acquire
<1>13. CountsAgree'
    BY <1>2, <1>3, <1>5 DEF IInv, TypeOK, CountsAgree, Acquire
<1> QED
    BY <1>7, <1>8, <1>9, <1>10, <1>11, <1>12, <1>13 DEF IInv

LEMMA LookKeeps ==
    ASSUME IInv, NEW t \in Thread, Look(t)
    PROVE  IInv'
<1>1. PICK k \in todo[t], v \in Value \cup {Nil} :
          /\ Rivals(t) = {} => v = elements[k]
          /\ copy' = [copy EXCEPT ![t][k] = v]
          /\ todo' = [todo EXCEPT ![t] = @ \ {k}]
    BY DEF Look
<1>2. k \in Key
    BY DEF IInv, TypeOK
<1>3. TypeOK'
    BY <1>1, <1>2 DEF IInv, TypeOK, Look, Dict
<1>4. CallsInProgress' /\ OnlySettersCount' /\ MixedNeedsTestSet'
    BY DEF IInv, CallsInProgress, OnlySettersCount, MixedNeedsTestSet, Look
<1>5. HoldsItsMode' /\ WriterAlone(held)'
    BY DEF IInv, HoldsItsMode, WriterAlone, InSection, Touching, Look
<1>6. RacesAreMixed'
    BY RacesStay DEF Touching, Look
<1>7. CopiesAgree'
    <2> SUFFICES ASSUME ~mixed, NEW u \in Thread, pc[u] = "accessing", ~Mutates(call[u]),
                        NEW j \in ToSee(call[u]) \ todo'[u]
                 PROVE  copy'[u][j] = elements[j]
        BY DEF CopiesAgree, Look
    <2>1. j \in Key
        BY ToSeeKeys DEF IInv, CallsInProgress
    <2>2. CASE u # t
        BY <1>1, <2>2 DEF IInv, TypeOK, CopiesAgree
    <2>3. CASE u = t /\ j = k
        <3>1. v = elements[k]
            BY <1>1, Undisturbed DEF Touching, Look
        <3> QED
            BY <1>1, <1>2, <2>3, <3>1 DEF IInv, TypeOK, Dict
    <2>4. CASE u = t /\ j # k
        BY <1>1, <2>1, <2>4 DEF IInv, TypeOK, CopiesAgree, Dict
    <2> QED
        BY <2>2, <2>3, <2>4
<1>8. CountsAgree'
    BY DEF IInv, CountsAgree, Look
<1> QED
    BY <1>3, <1>4, <1>5, <1>6, <1>7, <1>8 DEF IInv

LEMMA ConcludeKeeps ==
    ASSUME IInv, NEW t \in Thread, Conclude(t)
    PROVE  IInv'
<1>1. pc' = [pc EXCEPT ![t] = "releasing"] /\ copy' = [copy EXCEPT ![t] = Blank]
    BY DEF Conclude
<1>2. DOMAIN answer' = Thread
    BY DEF IInv, TypeOK, Conclude
<1>3. TypeOK'
    BY <1>1, <1>2 DEF IInv, TypeOK, Conclude, Blank, Dict
<1>4. CallsInProgress' /\ OnlySettersCount' /\ MixedNeedsTestSet'
    BY DEF IInv, TypeOK, CallsInProgress, OnlySettersCount, MixedNeedsTestSet, Conclude
<1>5. HoldsItsMode' /\ WriterAlone(held)'
    BY DEF IInv, TypeOK, HoldsItsMode, WriterAlone, InSection, Touching, Conclude
<1>6. RacesAreMixed'
    BY RacesStay DEF IInv, TypeOK, Touching, Conclude
<1>7. CopiesAgree' /\ CountsAgree'
    BY <1>1 DEF IInv, TypeOK, CopiesAgree, CountsAgree, Conclude
<1> QED
    BY <1>3, <1>4, <1>5, <1>6, <1>7 DEF IInv

LEMMA StoreKeeps ==
    ASSUME IInv, NEW t \in Thread, Store(t)
    PROVE  IInv'
<1>1. pc' = [pc EXCEPT ![t] = "counting"] /\ elements' \in Dict /\ Touching(t)
    BY DEF Store, Touching
<1>2. TypeOK'
    BY <1>1 DEF IInv, TypeOK, Store
<1>3. CallsInProgress' /\ OnlySettersCount' /\ MixedNeedsTestSet'
    BY DEF IInv, TypeOK, CallsInProgress, OnlySettersCount, MixedNeedsTestSet, Store
<1>4. HoldsItsMode' /\ WriterAlone(held)'
    BY DEF IInv, TypeOK, HoldsItsMode, WriterAlone, InSection, Touching, Store
<1>5. RacesAreMixed'
    BY RacesStay DEF IInv, TypeOK, Touching, Store
<1>6. CopiesAgree'
    <2> SUFFICES ASSUME ~mixed, NEW u \in Thread, pc'[u] = "accessing"
                 PROVE  FALSE
        BY DEF CopiesAgree, Store
    <2>1. u # t /\ Touching(u)
        BY <1>1 DEF IInv, TypeOK, Touching
    <2>2. u \in Rivals(t)
        BY <2>1 DEF Rivals, Conflict, Store
    <2> QED
        BY <1>1, <2>2, Undisturbed
<1>7. CountsAgree'
    BY <1>1 DEF IInv, TypeOK, CountsAgree
<1> QED
    BY <1>2, <1>3, <1>4, <1>5, <1>6, <1>7 DEF IInv

LEMMA RecountKeeps ==
    ASSUME IInv, NEW t \in Thread, Recount(t)
    PROVE  IInv'
<1>1. pc' = [pc EXCEPT ![t] = "releasing"] /\ total' \in 0..Cardinality(Key) /\ Touching(t)
    BY DEF Recount, Touching
<1>2. TypeOK'
    BY <1>1 DEF IInv, TypeOK, Recount
<1>3. CallsInProgress' /\ OnlySettersCount' /\ MixedNeedsTestSet'
    BY DEF IInv, TypeOK, CallsInProgress, OnlySettersCount, MixedNeedsTestSet, Recount
<1>4. HoldsItsMode' /\ WriterAlone(held)'
    BY DEF IInv, TypeOK, HoldsItsMode, WriterAlone, InSection, Touching, Recount
<1>5. RacesAreMixed'
    BY RacesStay DEF IInv, TypeOK, Touching, Recount
<1>6. CopiesAgree'
    BY DEF IInv, TypeOK, CopiesAgree, Recount
<1>7. CountsAgree'
    <2>1. ~mixed => total' = Cardinality(Present(elements))
        BY <1>1, Undisturbed DEF Recount
    <2> QED
        BY <2>1 DEF CountsAgree, Recount
<1> QED
    BY <1>2, <1>3, <1>4, <1>5, <1>6, <1>7 DEF IInv

LEMMA ReleaseKeeps ==
    ASSUME IInv, NEW t \in Thread, Release(t)
    PROVE  IInv'
<1>1. held' = [held EXCEPT ![t] = "none"] /\ pc' = [pc EXCEPT ![t] = "idle"]
    BY DEF Release, Released
<1>2. TypeOK'
    BY <1>1 DEF IInv, TypeOK, Release, Hold
<1>3. CallsInProgress' /\ OnlySettersCount' /\ MixedNeedsTestSet'
    BY <1>1 DEF IInv, TypeOK, CallsInProgress, OnlySettersCount, MixedNeedsTestSet, Release
<1>4. HoldsItsMode'
    BY <1>1 DEF IInv, TypeOK, HoldsItsMode, InSection, Touching, Release
<1>5. WriterAlone(held)'
    BY <1>1 DEF IInv, TypeOK, WriterAlone
<1>6. RacesAreMixed'
    BY <1>1, RacesStay DEF IInv, TypeOK, Touching, Release
<1>7. CopiesAgree' /\ CountsAgree'
    BY <1>1 DEF IInv, TypeOK, CopiesAgree, CountsAgree, Release
<1> QED
    BY <1>2, <1>3, <1>4, <1>5, <1>6, <1>7 DEF IInv

LEMMA StutterKeeps ==
    ASSUME IInv, UNCHANGED vars
    PROVE  IInv'
BY DEF IInv, TypeOK, CallsInProgress, HoldsItsMode, InSection, Touching, WriterAlone,
       OnlySettersCount, MixedNeedsTestSet, RacesAreMixed, ThreadSafe, Race, Conflict,
       Mutates, CopiesAgree, CountsAgree, vars

LEMMA NextKeeps ==
    ASSUME IInv, [Next]_vars
    PROVE  IInv'
<1>1. CASE UNCHANGED vars
    BY <1>1, StutterKeeps
<1>2. CASE Finished
    BY <1>2, StutterKeeps DEF Finished
<1>3. ASSUME NEW t \in Thread, Invoke(t) PROVE IInv'
    BY <1>3, InvokeKeeps
<1>4. ASSUME NEW t \in Thread, Proceed(t) PROVE IInv'
    BY <1>4, AcquireKeeps, LookKeeps, ConcludeKeeps, StoreKeeps, RecountKeeps, ReleaseKeeps
       DEF Proceed
<1> QED
    BY <1>1, <1>2, <1>3, <1>4 DEF Next

\* The lock is held exactly by the threads inside a method, in the mode of that
\* method, and never by a writer and another thread; and until testSetByObjectForKey
\* overlaps a conflicting access, the copies under way and the count agree with
\* the entries.
THEOREM LockDiscipline == Spec => []IInv
<1>1. Init => IInv
    BY InitIInv
<1>2. IInv /\ [Next]_vars => IInv'
    BY NextKeeps
<1> QED
    BY <1>1, <1>2, PTL DEF Spec

-----------------------------------------------------------------------------
(* What it gives the callers.                                               *)

\* Every variable stays in its range.
THEOREM TypeCorrect == Spec => []TypeOK
<1>1. IInv => TypeOK
    BY DEF IInv
<1> QED
    BY <1>1, LockDiscipline, PTL

LEMMA WritersExclude ==
    ASSUME IInv, NEW t \in Thread, NEW u \in Thread, t # u,
           InSection(t), InSection(u)
    PROVE  Mode(call[t]) = "read"
<1>1. held[t] = Mode(call[t]) /\ held[u] = Mode(call[u])
    BY DEF IInv, HoldsItsMode
<1>2. held[u] # "none"
    BY <1>1, ModeIsHold
<1> QED
    BY <1>1, <1>2, ModeIsHold DEF IInv, WriterAlone

\* A race involves testSetByObjectForKey: the other methods never race with
\* each other.
THEOREM RacesBlameTestSet == Spec => []RacesNeedTestSet
<1>1. IInv => RacesNeedTestSet
    <2> SUFFICES ASSUME IInv, NEW t \in Thread, NEW u \in Thread, Race(t, u)
                 PROVE  "testSet" \in {call[t].op, call[u].op}
        BY DEF RacesNeedTestSet
    <2>1. t # u /\ InSection(t) /\ InSection(u)
        BY DEF Race, Conflict, InSection
    <2>2. Mode(call[t]) = "read" /\ Mode(call[u]) = "read"
        BY <2>1, WritersExclude
    <2>3. call[t] \in Call /\ call[u] \in Call
        BY DEF IInv, CallsInProgress, Race, Touching
    <2> QED
        BY <2>2, <2>3, CallShape DEF Race, Conflict
<1> QED
    BY <1>1, LockDiscipline, PTL

\* While a subscript assignment is in progress no other thread is in a method,
\* not even in testSetByObjectForKey.
THEOREM AssignmentIsAlone == Spec => []SubscriptSetAlone
<1>1. IInv => SubscriptSetAlone
    <2> SUFFICES ASSUME IInv, NEW t \in Thread, NEW u \in Thread,
                        InSection(t), call[t].op = "set", u # t, InSection(u)
                 PROVE  FALSE
        BY DEF SubscriptSetAlone
    <2>1. Mode(call[t]) = "read"
        BY WritersExclude
    <2> QED
        BY <2>1 DEF Mode
<1> QED
    BY <1>1, LockDiscipline, PTL

\* Clients that keep away from testSetByObjectForKey get what the class is
\* named for: no conflicting accesses ever overlap.
THEOREM SafeWithoutTestSet ==
    ASSUME "testSet" \notin Op
    PROVE  Spec => []ThreadSafe
<1>1. IInv => ThreadSafe
    <2> SUFFICES ASSUME IInv, NEW t \in Thread, NEW u \in Thread, Race(t, u)
                 PROVE  FALSE
        BY DEF ThreadSafe
    <2>1. t # u /\ InSection(t) /\ InSection(u)
        BY DEF Race, Conflict, InSection
    <2>2. Mode(call[t]) = "read" /\ Mode(call[u]) = "read"
        BY <2>1, WritersExclude
    <2>3. call[t] \in Call /\ call[u] \in Call
        BY DEF IInv, CallsInProgress, Race, Touching
    <2>4. call[t].op # "testSet" /\ call[u].op # "testSet"
        BY <2>3, CallShape
    <2> QED
        BY <2>2, <2>3, <2>4, CallShape DEF Race, Conflict
<1> QED
    BY <1>1, LockDiscipline, PTL

-----------------------------------------------------------------------------
(* The dictionary implements the atomic object: Invoke and Release are the  *)
(* abstract call and return, the write of the entry and the end of a        *)
(* reader's access are the instants at which the calls take effect, and     *)
(* every other step stutters.                                               *)

LEMMA PhaseValues ==
    /\ PhaseAt("idle") = "idle" /\ PhaseAt("waiting") = "called"
    /\ PhaseAt("accessing") = "called" /\ PhaseAt("counting") = "done"
    /\ PhaseAt("releasing") = "done"
BY DEF PhaseAt

LEMMA PhaseMoves ==
    ASSUME NEW t \in Thread, NEW q, DOMAIN pc = Thread, pc' = [pc EXCEPT ![t] = q]
    PROVE  /\ Phase' = [Phase EXCEPT ![t] = PhaseAt(q)]
           /\ Phase[t] = PhaseAt(pc[t])
           /\ PhaseAt(q) = PhaseAt(pc[t]) => Phase' = Phase
BY DEF Phase

LEMMA InitRefines == Init => Atomic!Init
BY PhaseValues DEF Init, Atomic!Init, Phase

\* A copy that has seen every entry it needs, each as it still is, answers as
\* the dictionary itself would.
LEMMA CopyAnswers ==
    ASSUME NEW c \in Call, ~Mutates(c), c.op # "count", NEW d \in Dict, NEW e \in Dict,
           \A k \in ToSee(c) : e[k] = d[k]
    PROVE  Answer(e, c) = Answer(d, c)
<1>1. CASE c.op \in KeyedGetters
    <2>1. e[c.key] = d[c.key]
        BY <1>1 DEF ToSee
    <2>2. Answer(e, c) = e[c.key] /\ Answer(d, c) = d[c.key]
        BY <1>1 DEF Answer, KeyedGetters
    <2> QED
        BY <2>1, <2>2
<1>2. CASE c.op \in {"keys", "values", "elements"}
    <2>1. ToSee(c) = Key
        BY <1>2 DEF ToSee, KeyedGetters
    <2>2. e = d
        BY <2>1 DEF Dict
    <2> QED
        BY <2>2
<1> QED
    BY <1>1, <1>2 DEF Call, Mutates, KeyedSetters, KeyedGetters, Snapshots

\* What a reader concludes is the atomic answer of that instant.
LEMMA ConcludeCommits ==
    ASSUME IInv, ~mixed, NEW t \in Thread, Conclude(t)
    PROVE  Atomic!Commit(t)
<1>0. DOMAIN pc = Thread /\ call[t] \in Call /\ elements \in Dict /\ copy[t] \in Dict
    BY DEF IInv, TypeOK, CallsInProgress, Conclude
<1>1. pc[t] = "accessing" /\ ~Mutates(call[t]) /\ todo[t] = {} /\ Rivals(t) = {}
    BY Undisturbed DEF Conclude, Touching
<1>2. Phase' = [Phase EXCEPT ![t] = "done"] /\ Phase[t] = "called"
    <2>1. pc' = [pc EXCEPT ![t] = "releasing"]
        BY DEF Conclude
    <2>2. Phase' = [Phase EXCEPT ![t] = PhaseAt("releasing")] /\ Phase[t] = PhaseAt(pc[t])
        BY <1>0, <2>1, PhaseMoves
    <2> QED
        BY <1>1, <2>2, PhaseValues
<1>3. answer' = [answer EXCEPT ![t] = Answer(elements, call[t])]
    <2>1. CASE call[t].op = "count"
        <3>1. \A u \in Thread : pc[u] # "counting"
            <4> SUFFICES ASSUME NEW u \in Thread, pc[u] = "counting" PROVE FALSE
                OBVIOUS
            <4>1. u \in Rivals(t)
                BY <1>1 DEF IInv, OnlySettersCount, Rivals, Touching, Conflict
            <4> QED
                BY <1>1, <4>1
        <3>2. total = Cardinality(Present(elements))
            BY <3>1 DEF IInv, CountsAgree
        <3>3. answer' = [answer EXCEPT ![t] = total]
            BY <1>1, <2>1 DEF Conclude
        <3> QED
            BY <2>1, <3>2, <3>3 DEF Answer, KeyedGetters
    <2>2. CASE call[t].op # "count"
        <3>1. \A k \in ToSee(call[t]) : copy[t][k] = elements[k]
            BY <1>1 DEF IInv, CopiesAgree
        <3>2. Answer(copy[t], call[t]) = Answer(elements, call[t])
            BY <1>0, <1>1, <2>2, <3>1, CopyAnswers
        <3> QED
            BY <2>2, <3>2 DEF Conclude
    <2> QED
        BY <2>1, <2>2
<1>4. elements = Effect(elements, call[t])
    BY <1>1 DEF Effect
<1> QED
    BY <1>2, <1>3, <1>4 DEF Atomic!Commit, Conclude

\* The write of the entry is the setter's instant.
LEMMA StoreCommits ==
    ASSUME IInv, ~mixed, NEW t \in Thread, Store(t)
    PROVE  Atomic!Commit(t)
<1>0. DOMAIN pc = Thread /\ call[t] \in Call
    BY DEF IInv, TypeOK, CallsInProgress, Store
<1>1. pc[t] = "accessing" /\ Mutates(call[t]) /\ Rivals(t) = {}
    BY Undisturbed DEF Store, Touching
<1>2. Phase' = [Phase EXCEPT ![t] = "done"] /\ Phase[t] = "called"
    <2>1. pc' = [pc EXCEPT ![t] = "counting"]
        BY DEF Store
    <2>2. Phase' = [Phase EXCEPT ![t] = PhaseAt("counting")] /\ Phase[t] = PhaseAt(pc[t])
        BY <1>0, <2>1, PhaseMoves
    <2> QED
        BY <1>1, <2>2, PhaseValues
<1>3. elements' = Effect(elements, call[t])
    BY <1>1 DEF Store
<1>4. Answer(elements, call[t]) = Nil
    BY <1>1 DEF Answer, Mutates, KeyedSetters, KeyedGetters
<1> QED
    BY <1>2, <1>3, <1>4 DEF Atomic!Commit, Store

LEMMA StepRefines ==
    ASSUME IInv, [Next]_vars
    PROVE  [Atomic!Next \/ mixed]_(Atomic!vars)
<1> USE DEF Atomic!vars
<1>0. DOMAIN pc = Thread
    BY DEF IInv, TypeOK
<1>1. CASE UNCHANGED vars
    BY <1>1 DEF vars, Phase
<1>2. CASE Finished
    BY <1>2 DEF Finished, vars, Phase
<1>3. ASSUME NEW t \in Thread, Invoke(t) PROVE Atomic!Invoke(t)
    <2>0. pc' = [pc EXCEPT ![t] = "waiting"] /\ pc[t] = "idle"
        BY <1>3 DEF Invoke
    <2>1. /\ Phase' = [Phase EXCEPT ![t] = PhaseAt("waiting")]
          /\ Phase[t] = PhaseAt("idle")
          /\ PhaseAt("waiting") = PhaseAt("idle") => Phase' = Phase
        BY <1>0, <2>0, PhaseMoves
    <2>2. Phase' = [Phase EXCEPT ![t] = "called"] /\ Phase[t] = "idle"
        BY <2>1, PhaseValues
    <2> QED
        BY <1>3, <2>2 DEF Invoke, Atomic!Invoke
<1>4. ASSUME NEW t \in Thread, Acquire(t) PROVE UNCHANGED Atomic!vars
    <2>0. pc' = [pc EXCEPT ![t] = "accessing"] /\ pc[t] = "waiting"
        BY <1>4 DEF Acquire
    <2>1. /\ Phase' = [Phase EXCEPT ![t] = PhaseAt("accessing")]
          /\ Phase[t] = PhaseAt("waiting")
          /\ PhaseAt("accessing") = PhaseAt("waiting") => Phase' = Phase
        BY <1>0, <2>0, PhaseMoves
    <2>2. Phase' = Phase
        BY <2>1, PhaseValues
    <2> QED
        BY <1>4, <2>2 DEF Acquire
<1>5. ASSUME NEW t \in Thread, Look(t) PROVE UNCHANGED Atomic!vars
    BY <1>5 DEF Look, Phase
<1>6. ASSUME NEW t \in Thread, Conclude(t) PROVE mixed \/ Atomic!Commit(t)
    BY <1>6, ConcludeCommits
<1>7. ASSUME NEW t \in Thread, Store(t) PROVE mixed \/ Atomic!Commit(t)
    BY <1>7, StoreCommits
<1>8. ASSUME NEW t \in Thread, Recount(t) PROVE UNCHANGED Atomic!vars
    <2>0. pc' = [pc EXCEPT ![t] = "releasing"] /\ pc[t] = "counting"
        BY <1>8 DEF Recount
    <2>1. /\ Phase' = [Phase EXCEPT ![t] = PhaseAt("releasing")]
          /\ Phase[t] = PhaseAt("counting")
          /\ PhaseAt("releasing") = PhaseAt("counting") => Phase' = Phase
        BY <1>0, <2>0, PhaseMoves
    <2>2. Phase' = Phase
        BY <2>1, PhaseValues
    <2> QED
        BY <1>8, <2>2 DEF Recount
<1>9. ASSUME NEW t \in Thread, Release(t) PROVE Atomic!Return(t)
    <2>0. pc' = [pc EXCEPT ![t] = "idle"] /\ pc[t] = "releasing"
        BY <1>9 DEF Release
    <2>1. /\ Phase' = [Phase EXCEPT ![t] = PhaseAt("idle")]
          /\ Phase[t] = PhaseAt("releasing")
          /\ PhaseAt("idle") = PhaseAt("releasing") => Phase' = Phase
        BY <1>0, <2>0, PhaseMoves
    <2>2. Phase' = [Phase EXCEPT ![t] = "idle"] /\ Phase[t] = "done"
        BY <2>1, PhaseValues
    <2> QED
        BY <1>9, <2>2 DEF Release, Atomic!Return
<1> QED
    BY <1>1, <1>2, <1>3, <1>4, <1>5, <1>6, <1>7, <1>8, <1>9 DEF Next, Proceed, Atomic!Next

\* Whatever the clients call, the dictionary is atomic until the first time
\* testSetByObjectForKey overlaps a conflicting access: until then no copy, no
\* count and no entry is ever read in the middle of an assignment.
THEOREM LinearizableButForTestSet == Spec => AtomicButForTestSet
<1>1. Init => Atomic!Init
    BY InitRefines
<1>2. IInv /\ [Next]_vars => [Atomic!Next \/ mixed]_(Atomic!vars)
    BY StepRefines
<1> QED
    BY <1>1, <1>2, LockDiscipline, PTL DEF Spec, AtomicButForTestSet

\* Every method except testSetByObjectForKey is atomic: it takes effect at one
\* instant between its call and its return, and answers for that instant.
THEOREM Linearizable ==
    ASSUME "testSet" \notin Op
    PROVE  Spec => ImplementsAtomic
<1>1. Init => Atomic!Init
    BY InitRefines
<1>2. IInv => ~mixed
    BY DEF IInv, MixedNeedsTestSet
<1>3. IInv /\ [Next]_vars => [Atomic!Next]_(Atomic!vars)
    BY <1>2, StepRefines
<1> QED
    BY <1>1, <1>3, LockDiscipline, PTL DEF Spec, ImplementsAtomic, Atomic!Spec
=============================================================================
