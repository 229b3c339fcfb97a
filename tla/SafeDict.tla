------------------------------ MODULE SafeDict ------------------------------
(***************************************************************************)
(* PThreadSafeDictionary (SafeCollection.swift 173-283): an                *)
(* NSMutableDictionary behind a pthread_rwlock_t.  Every method is         *)
(*                                                                         *)
(*     lock in some mode; touch _elements; unlock (defer); return          *)
(*                                                                         *)
(* NSMutableDictionary is not atomic by itself.  A copying method looks at *)
(* one entry after the other, and an assignment writes the entry and then  *)
(* the dictionary's count, so what the callers get for one instant they    *)
(* owe to the lock.                                                        *)
(***************************************************************************)
EXTENDS Naturals, FiniteSets, RWLock

CONSTANTS
    Key, Value, Nil,
    Op,             \* the methods the clients use
    MaxCalls        \* how many calls each thread makes

KeyedSetters == {"set", "testSet"}
KeyedGetters == {"get", "testGet"}
Snapshots == {"count", "keys", "values", "elements"}

ASSUME DictAssumption ==
    /\ Nil \notin Value
    /\ Op \subseteq KeyedSetters \cup KeyedGetters \cup Snapshots
    /\ MaxCalls \in Nat
    /\ IsFiniteSet(Key)

VARIABLES
    elements,   \* _elements: a dictionary, Nil where it has no entry
    total,      \* the number of entries NSMutableDictionary keeps beside them
    held,       \* lock: what each thread holds of it
    pc,         \* where thread t is in its call
    call,       \* the call thread t is making, or made last
    todo,       \* the keys whose entry that call has still to look at
    copy,       \* the entries it has seen so far
    answer,     \* what that call returned
    mixed,      \* testSetByObjectForKey has overlapped a conflicting access
    left        \* calls thread t has still to make

vars == <<elements, total, held, pc, call, todo, copy, answer, mixed, left>>

Dict == [Key -> Value \cup {Nil}]

Blank == [k \in Key |-> Nil]

Call ==
    [op : Op \cap KeyedSetters, key : Key, val : Value \cup {Nil}]
        \cup [op : Op \cap KeyedGetters, key : Key]
        \cup [op : Op \cap Snapshots]

NoCall == Nil

\* Mutant of Mode: the subscript's setter takes the read lock too.
ModeAlwaysRead(c) == "read"

\* Mutant of Mode: a subscript assignment that removes takes the read lock.
ModeRemovalReads(c) == IF c.op = "set" /\ c.val # Nil THEN "write" ELSE "read"

\* Subscript set takes the write lock.  Every other method takes the read lock,
\* testSetByObjectForKey included.
Mode(c) == IF c.op = "set" THEN "write" ELSE "read"

Mutates(c) == c.op \in KeyedSetters

\* The entries a method looks at: one, all it copies, or (count) none.
ToSee(c) ==
    IF c.op \in KeyedGetters THEN {c.key}
    ELSE IF c.op \in {"keys", "values", "elements"} THEN Key ELSE {}

Present(d) == {k \in Key : d[k] # Nil}

\* Assigning nil removes the entry, in the subscript and in the test method.
Effect(d, c) == IF Mutates(c) THEN [d EXCEPT ![c.key] = c.val] ELSE d

\* allValues comes in no order: it is the number of times each value occurs.
Answer(d, c) ==
    CASE c.op \in KeyedGetters -> d[c.key]
      [] c.op = "count" -> Cardinality(Present(d))
      [] c.op = "keys" -> Present(d)
      [] c.op = "values" -> [v \in Value |-> Cardinality({k \in Key : d[k] = v})]
      [] c.op = "elements" -> d
      [] OTHER -> Nil

-----------------------------------------------------------------------------
Init ==
    /\ elements \in Dict
    /\ total = Cardinality(Present(elements))
    /\ held = Unlocked
    /\ pc = [t \in Thread |-> "idle"]
    /\ call = [t \in Thread |-> NoCall]
    /\ todo = [t \in Thread |-> {}]
    /\ copy = [t \in Thread |-> Blank]
    /\ answer = [t \in Thread |-> Nil]
    /\ mixed = FALSE
    /\ left = [t \in Thread |-> MaxCalls]

Invoke(t) ==
    /\ pc[t] = "idle"
    /\ left[t] > 0
    /\ left' = [left EXCEPT ![t] = @ - 1]
    /\ \E c \in Call : call' = [call EXCEPT ![t] = c]
    /\ answer' = [answer EXCEPT ![t] = Nil]
    /\ pc' = [pc EXCEPT ![t] = "waiting"]
    /\ UNCHANGED <<elements, total, held, todo, copy, mixed>>

\* Thread t is in the dictionary: looking at entries, writing one, or, its
\* entry written, about to write the count.
Touching(t) == pc[t] \in {"accessing", "counting"}

\* Two accesses conflict when one of them mutates the dictionary.
Conflict(t, u) == t # u /\ (Mutates(call[t]) \/ Mutates(call[u]))

Rivals(t) == {u \in Thread : Touching(u) /\ Conflict(t, u)}

\* The lock is granted and the access begins.
Acquire(t) ==
    /\ pc[t] = "waiting"
    /\ Grants(held, Mode(call[t]))
    /\ held' = Locked(held, t, Mode(call[t]))
    /\ pc' = [pc EXCEPT ![t] = "accessing"]
    /\ todo' = [todo EXCEPT ![t] = ToSee(call[t])]
    /\ mixed' = (mixed \/ \E u \in Rivals(t) : "testSet" \in {call[t].op, call[u].op})
    /\ UNCHANGED <<elements, total, call, copy, answer, left>>

\* A getter, or a copy, looks at its next entry.  NSDictionary gives its keys
\* in any order.  Beside a conflicting access it may see anything there (a data
\* race; the process may also trap, which only ends the behaviour).
Look(t) ==
    /\ pc[t] = "accessing" /\ ~Mutates(call[t])
    /\ \E k \in todo[t], v \in Value \cup {Nil} :
        /\ Rivals(t) = {} => v = elements[k]
        /\ copy' = [copy EXCEPT ![t][k] = v]
        /\ todo' = [todo EXCEPT ![t] = @ \ {k}]
    /\ UNCHANGED <<elements, total, held, pc, call, answer, mixed, left>>

\* It has seen what it needs: the method evaluates its result.
Conclude(t) ==
    /\ pc[t] = "accessing" /\ ~Mutates(call[t])
    /\ todo[t] = {}
    /\ IF call[t].op = "count"
       THEN \E n \in 0..Cardinality(Key) :
                /\ Rivals(t) = {} => n = total
                /\ answer' = [answer EXCEPT ![t] = n]
       ELSE answer' = [answer EXCEPT ![t] = Answer(copy[t], call[t])]
    /\ copy' = [copy EXCEPT ![t] = Blank]
    /\ pc' = [pc EXCEPT ![t] = "releasing"]
    /\ UNCHANGED <<elements, total, held, call, todo, mixed, left>>

\* A setter writes, or removes, its entry.  Beside a conflicting access it may
\* leave any dictionary.
Store(t) ==
    /\ pc[t] = "accessing" /\ Mutates(call[t])
    /\ \E d \in Dict :
        /\ Rivals(t) = {} => d = Effect(elements, call[t])
        /\ elements' = d
    /\ answer' = [answer EXCEPT ![t] = Nil]
    /\ pc' = [pc EXCEPT ![t] = "counting"]
    /\ UNCHANGED <<total, held, call, todo, copy, mixed, left>>

\* ... and brings the count in line with the entries.
Recount(t) ==
    /\ pc[t] = "counting"
    /\ \E n \in 0..Cardinality(Key) :
        /\ Rivals(t) = {} => n = Cardinality(Present(elements))
        /\ total' = n
    /\ pc' = [pc EXCEPT ![t] = "releasing"]
    /\ UNCHANGED <<elements, held, call, todo, copy, answer, mixed, left>>

\* Mutant of Release: a method without its deferred unlock.
ReleaseForgotten(t) ==
    /\ pc[t] = "releasing"
    /\ pc' = [pc EXCEPT ![t] = "idle"]
    /\ UNCHANGED <<elements, total, held, call, todo, copy, answer, mixed, left>>

\* The deferred unlock, and the return.
Release(t) ==
    /\ pc[t] = "releasing"
    /\ held' = Released(held, t)
    /\ pc' = [pc EXCEPT ![t] = "idle"]
    /\ UNCHANGED <<elements, total, call, todo, copy, answer, mixed, left>>

\* Every client has made all its calls: nothing is left to happen.
Finished ==
    /\ \A t \in Thread : pc[t] = "idle" /\ left[t] = 0
    /\ UNCHANGED vars

\* The steps of a call once it is made.
Proceed(t) ==
    Acquire(t) \/ Look(t) \/ Conclude(t) \/ Store(t) \/ Recount(t) \/ Release(t)

Next ==
    \/ \E t \in Thread : Invoke(t) \/ Proceed(t)
    \/ Finished

Spec == Init /\ [][Next]_vars

\* A running thread is scheduled, and a thread that the lock keeps being
\* free for is woken up.
Fairness == \A t \in Thread : WF_vars(Proceed(t))

FairSpec == Spec /\ Fairness

-----------------------------------------------------------------------------
\* Where a thread can be, and every variable's range.
TypeOK ==
    /\ elements \in Dict
    /\ total \in 0..Cardinality(Key)
    /\ held \in [Thread -> Hold]
    /\ pc \in [Thread -> {"idle", "waiting", "accessing", "counting", "releasing"}]
    /\ call \in [Thread -> Call \cup {NoCall}]
    /\ todo \in [Thread -> SUBSET Key]
    /\ copy \in [Thread -> Dict]
    /\ DOMAIN answer = Thread
    /\ mixed \in BOOLEAN
    /\ left \in [Thread -> 0..MaxCalls]

InSection(t) == Touching(t) \/ pc[t] = "releasing"

\* Two threads are in the dictionary at once and one of them changes it.
Race(t, u) == Touching(t) /\ Touching(u) /\ Conflict(t, u)

\* The subscript, count, keys, values, elements and testGet methods never race
\* with each other: whenever two conflicting accesses overlap, one of the two
\* is testSetByObjectForKey, the method that writes under the read lock.
RacesNeedTestSet ==
    \A t, u \in Thread : Race(t, u) => "testSet" \in {call[t].op, call[u].op}

\* What the class is named for: no two conflicting accesses ever overlap.
ThreadSafe == \A t, u \in Thread : ~Race(t, u)

\* A subscript assignment is alone in the dictionary, whatever the others
\* call: even testSetByObjectForKey waits for it.
SubscriptSetAlone ==
    \A t, u \in Thread :
        InSection(t) /\ call[t].op = "set" /\ u # t => ~InSection(u)

\* Every value a call answers was in force at one instant of that call, and
\* every assignment takes effect whole, once, during its call: a reader's
\* instant is the end of its access, a setter's the write of the entry.
PhaseAt(place) ==
    CASE place = "idle" -> "idle"
      [] place \in {"counting", "releasing"} -> "done"
      [] OTHER -> "called"

Phase == [t \in Thread |-> PhaseAt(pc[t])]

Atomic ==
    INSTANCE AtomicObject WITH
        object <- elements, phase <- Phase, NoAnswer <- Nil, Initial <- Dict

ImplementsAtomic == Atomic!Spec

\* No call ever sees a half-made assignment: copies, counts and single entries
\* are those of one instant, whatever the clients call, until the first time
\* testSetByObjectForKey overlaps a conflicting access.
AtomicButForTestSet == Atomic!Init /\ [][Atomic!Next \/ mixed]_(Atomic!vars)

\* No call hangs on the lock: whatever a thread called, it returns from it.
EveryCallReturns == \A t \in Thread : pc[t] = "waiting" ~> pc[t] = "idle"

-----------------------------------------------------------------------------
\* The inductive invariant: a thread holds the lock exactly while it is in its
\* section, in the mode of its call, and writers are alone.
HoldsItsMode ==
    \A t \in Thread : held[t] = IF InSection(t) THEN Mode(call[t]) ELSE "none"

CallsInProgress == \A t \in Thread : pc[t] # "idle" => call[t] \in Call

OnlySettersCount == \A t \in Thread : pc[t] = "counting" => Mutates(call[t])

MixedNeedsTestSet == mixed => "testSet" \in Op

\* Every overlap of conflicting accesses was noted by the access that made it.
RacesAreMixed == ~mixed => ThreadSafe

\* Until then, what a copy has seen so far is still so ...
CopiesAgree ==
    ~mixed => \A t \in Thread :
        pc[t] = "accessing" /\ ~Mutates(call[t])
            => \A k \in ToSee(call[t]) \ todo[t] : copy[t][k] = elements[k]

\* ... and the count is right except between the two writes of a setter.
CountsAgree ==
    ~mixed /\ (\A t \in Thread : pc[t] # "counting")
        => total = Cardinality(Present(elements))

IInv ==
    /\ TypeOK
    /\ CallsInProgress
    /\ HoldsItsMode
    /\ WriterAlone(held)
    /\ OnlySettersCount
    /\ MixedNeedsTestSet
    /\ RacesAreMixed
    /\ CopiesAgree
    /\ CountsAgree
=============================================================================
