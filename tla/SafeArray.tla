----------------------------- MODULE SafeArray ------------------------------
(***************************************************************************)
(* PThreadSafeArray (SafeCollection.swift 9-171): an NSMutableArray behind *)
(* a pthread_rwlock_t.  A method takes the lock, looks at the array in     *)
(* steps of its own (a bounds check and then the use of the position, or   *)
(* a walk element by element), and gives the lock back (defer).  Only the  *)
(* lock makes the steps of one method see one array: a position that was   *)
(* in range when it was checked raises an exception when it is used on an  *)
(* array that another thread has shortened since.                          *)
(*                                                                         *)
(* filter, which holds the write lock, calls its closure once for each     *)
(* element.  The closure is the caller's code: it may call a method of the *)
(* same array, and so ask for the lock its thread holds.                   *)
(***************************************************************************)
EXTENDS Integers, FiniteSets, Sequences, SequencesExt, Selection, RWLock

CONSTANTS
    Item, Nil, Trap,
    Index,          \* the positions clients pass, outside the array too
    Op,             \* the methods the clients use
    MaxItems,       \* bound: the longest list a client passes
    Reenters,       \* whether a closure may call the array back
    MaxCalls        \* how many calls each thread makes

Readers == {"values", "count", "first", "last", "enumerated"}
Writers == {"set", "append", "insert", "remove", "filter"}

\* The methods that check a position, and those that walk the array.
Positional == {"get", "set", "insert", "remove"}
Walkers == {"values", "filter"}

ASSUME ArrayAssumption ==
    /\ Nil \notin Item /\ Nil # Trap
    /\ Trap \notin Item /\ Trap \notin Seq(Item)
    /\ Index \subseteq Int
    /\ Op \subseteq Readers \cup Writers \cup {"get"}
    /\ Reenters \in BOOLEAN
    /\ MaxItems \in Nat /\ MaxCalls \in Nat

VARIABLES
    elements,   \* _elements
    held,       \* _lock: what each thread holds of it
    pc,         \* where thread t is in its call
    call,       \* the call thread t is making, or made last
    answer,     \* what that call returned
    scan,       \* walk in progress: elements visited, and those kept
    stale,      \* threads walking an array that has changed since they began
    reentered,  \* some closure has called the array back
    left        \* calls thread t has still to make

vars == <<elements, held, pc, call, answer, scan, stale, reentered, left>>

Optional(S) == S \cup {Nil}

\* append(item:) is append(items:) of one item; a nil item, a nil list and an
\* empty list are ignored alike.
Call ==
    [op : Op \cap Readers]
        \cup [op : Op \cap {"get", "remove"}, at : Index]
        \cup [op : Op \cap {"set"}, at : Index, item : Optional(Item)]
        \cup [op : Op \cap {"append"}, items : Optional(SeqOf(Item, MaxItems))]
        \cup [op : Op \cap {"insert"}, at : Optional(Index), item : Optional(Item)]
        \cup [op : Op \cap {"filter"}, keep : SUBSET Item]

NoCall == Nil

\* Mutant of Mode: remove(at:) takes the read lock.
ModeRemoveReads(c) == IF c.op \in Writers \ {"remove"} THEN "write" ELSE "read"

Mode(c) == IF c.op \in Writers THEN "write" ELSE "read"

Mutates(c) == c.op \in Writers \ {"filter"}

-----------------------------------------------------------------------------
(* NSMutableArray counts from 0 and raises NSRangeException beyond its end. *)

ObjectAt(s, i) == IF i \in 0..Len(s) - 1 THEN s[i + 1] ELSE Trap

Replace(s, i, x) == IF i \in 0..Len(s) - 1 THEN [s EXCEPT ![i + 1] = x] ELSE Trap

Insert(s, i, x) == IF i \in 0..Len(s) THEN InsertAt(s, i + 1, x) ELSE Trap

RemoveObject(s, i) == IF i \in 0..Len(s) - 1 THEN RemoveAt(s, i + 1) ELSE Trap

-----------------------------------------------------------------------------
(* What the methods check, and what they do then.                           *)

\* Each method has a bounds check of its own, and setters ignore nil.
Fits(s, c) ==
    CASE c.op = "get" -> c.at >= 0 /\ c.at < Len(s)
      [] c.op = "set" -> c.item # Nil /\ c.at >= 0 /\ c.at < Len(s)
      [] c.op = "insert" -> c.item # Nil /\ c.at # Nil /\ c.at >= 0 /\ c.at <= Len(s)
      [] c.op = "remove" -> ~(Len(s) <= c.at \/ c.at < 0)
      [] OTHER -> FALSE

\* The use of a position that was found in range, on the array as it is by then.
Changed(s, c) ==
    CASE c.op = "set" -> Replace(s, c.at, c.item)
      [] c.op = "insert" -> Insert(s, c.at, c.item)
      [] c.op = "remove" -> RemoveObject(s, c.at)
      [] OTHER -> s

Found(s, c) == IF c.op = "get" THEN ObjectAt(s, c.at) ELSE Nil

AppendItems(s, c) == IF c.items = Nil THEN s ELSE s \o c.items

\* The elements a walk hands on: all, or those the closure accepts.
Wanted(c) == IF c.op = "filter" THEN c.keep ELSE Item

\* The methods that are one call of NSMutableArray.
Reading(s, c) ==
    CASE c.op = "enumerated" -> s
      [] c.op = "count" -> Len(s)
      [] c.op = "first" -> IF s = <<>> THEN Nil ELSE Head(s)
      [] c.op = "last" -> IF s = <<>> THEN Nil ELSE Last(s)
      [] OTHER -> Nil

\* What a call does to an array, and answers, when it is alone with it.
Effect(s, c) ==
    IF c.op = "append" THEN AppendItems(s, c) ELSE IF Fits(s, c) THEN Changed(s, c) ELSE s

Answer(s, c) ==
    CASE c.op = "values" -> s
      [] c.op = "filter" -> Only(s, c.keep)
      [] c.op \in Positional -> IF Fits(s, c) THEN Found(s, c) ELSE Nil
      [] OTHER -> Reading(s, c)

-----------------------------------------------------------------------------
NoScan == [at |-> 0, kept |-> <<>>]

\* init() and init(_ list:), a list of at most MaxItems.
Init ==
    /\ elements \in SeqOf(Item, MaxItems)
    /\ held = Unlocked
    /\ pc = [t \in Thread |-> "idle"]
    /\ call = [t \in Thread |-> NoCall]
    /\ answer = [t \in Thread |-> Nil]
    /\ scan = [t \in Thread |-> NoScan]
    /\ stale = {}
    /\ reentered = FALSE
    /\ left = [t \in Thread |-> MaxCalls]

Invoke(t) ==
    /\ pc[t] = "idle"
    /\ left[t] > 0
    /\ left' = [left EXCEPT ![t] = @ - 1]
    /\ \E c \in Call : call' = [call EXCEPT ![t] = c]
    /\ answer' = [answer EXCEPT ![t] = Nil]
    /\ pc' = [pc EXCEPT ![t] = "waiting"]
    /\ UNCHANGED <<elements, held, scan, stale, reentered>>

Acquire(t) ==
    /\ pc[t] = "waiting"
    /\ Grants(held, Mode(call[t]))
    /\ held' = Locked(held, t, Mode(call[t]))
    /\ pc' = [pc EXCEPT ![t] = "accessing"]
    /\ UNCHANGED <<elements, call, answer, scan, stale, reentered, left>>

\* The exception is an Objective-C one: nothing catches it, and the process ends
\* with all its threads.
Raise ==
    /\ pc' = [t \in Thread |-> "trapped"]
    /\ UNCHANGED <<elements, held, call, answer, scan, stale, reentered, left>>

\* The threads in the middle of a walk when thread t changes the array.
Disturbed(t) == {u \in Thread \ {t} : pc[u] = "accessing" /\ call[u].op \in Walkers}

\* The bounds check.  A position out of range, or nil, is an early return.
Check(t) ==
    /\ pc[t] = "accessing"
    /\ call[t].op \in Positional
    /\ IF Fits(elements, call[t])
       THEN pc' = [pc EXCEPT ![t] = "checked"] /\ UNCHANGED answer
       ELSE pc' = [pc EXCEPT ![t] = "releasing"] /\ answer' = [answer EXCEPT ![t] = Nil]
    /\ UNCHANGED <<elements, held, call, scan, stale, reentered, left>>

\* The position is used.
Use(t) ==
    /\ pc[t] = "checked"
    /\ IF Trap \in {Changed(elements, call[t]), Found(elements, call[t])}
       THEN Raise
       ELSE /\ elements' = Changed(elements, call[t])
            /\ answer' = [answer EXCEPT ![t] = Found(elements, call[t])]
            /\ stale' = IF Mutates(call[t]) THEN stale \cup Disturbed(t) ELSE stale
            /\ pc' = [pc EXCEPT ![t] = "releasing"]
            /\ UNCHANGED <<held, call, scan, reentered, left>>

\* append, and the methods that read with one call of NSMutableArray.
Access(t) ==
    /\ pc[t] = "accessing"
    /\ call[t].op \notin Positional \cup Walkers
    /\ elements' = Effect(elements, call[t])
    /\ answer' = [answer EXCEPT ![t] = Reading(elements, call[t])]
    /\ stale' = IF elements' = elements THEN stale ELSE stale \cup Disturbed(t)
    /\ pc' = [pc EXCEPT ![t] = "releasing"]
    /\ UNCHANGED <<held, call, scan, reentered, left>>

\* A walk hands on the next element; filter asks its closure about it.
Visit(t) ==
    /\ pc[t] = "accessing"
    /\ call[t].op \in Walkers
    /\ scan[t].at < Len(elements)
    /\ LET x == elements[scan[t].at + 1] IN
       scan' = [scan EXCEPT ![t] =
                    [at |-> @.at + 1,
                     kept |-> IF x \in Wanted(call[t]) THEN Append(@.kept, x) ELSE @.kept]]
    /\ UNCHANGED <<elements, held, pc, call, answer, stale, reentered, left>>

\* Fast enumeration raises when it finds the array mutated since it began.
VisitMutated(t) ==
    /\ pc[t] = "accessing"
    /\ t \in stale
    /\ Raise

\* The walk has come to the end.
Conclude(t) ==
    /\ pc[t] = "accessing"
    /\ call[t].op \in Walkers
    /\ scan[t].at >= Len(elements)
    /\ answer' = [answer EXCEPT ![t] = scan[t].kept]
    /\ scan' = [scan EXCEPT ![t] = NoScan]
    /\ stale' = stale \ {t}
    /\ pc' = [pc EXCEPT ![t] = "releasing"]
    /\ UNCHANGED <<elements, held, call, reentered, left>>

\* The closure reads the array it filters.  Its thread holds the lock for
\* writing, so rdlock either waits for ever or returns EDEADLK.  The status is
\* ignored: in that case the inner method reads, and its deferred unlock gives
\* back the lock that filter still believes it holds.  From here on another
\* thread can shorten the array under the walk.
Reenter(t) ==
    /\ Reenters
    /\ pc[t] = "accessing"
    /\ call[t].op = "filter"
    /\ scan[t].at < Len(elements)
    /\ held[t] = "write"
    /\ reentered' = TRUE
    /\ \/ pc' = [pc EXCEPT ![t] = "stuck"] /\ UNCHANGED held
       \/ held' = Released(held, t) /\ UNCHANGED pc
    /\ UNCHANGED <<elements, call, answer, scan, stale, left>>

\* Thread t is in the array.  Two accesses conflict when one of them mutates it.
Touching(t) == pc[t] \in {"accessing", "checked"}

Conflict(t, u) == t # u /\ (Mutates(call[t]) \/ Mutates(call[u]))

Rivals(t) == {u \in Thread : Touching(u) /\ Conflict(t, u)}

\* Beside a conflicting access the outcome of one is undefined (a data race):
\* besides the steps above it may leave any array, see any, or raise.
Raced(t) ==
    /\ Touching(t) /\ Rivals(t) # {}
    /\ \/ Raise
       \/ /\ elements' \in IF Mutates(call[t]) THEN SeqOf(Item, Len(elements) + 1) ELSE {elements}
          /\ \E s \in SeqOf(Item, Len(elements) + 1) :
                answer' = [answer EXCEPT ![t] = Answer(s, call[t])]
          /\ scan' = [scan EXCEPT ![t] = NoScan]
          /\ stale' = (IF Mutates(call[t]) THEN stale \cup Disturbed(t) ELSE stale) \ {t}
          /\ pc' = [pc EXCEPT ![t] = "releasing"]
          /\ UNCHANGED <<held, call, reentered, left>>

\* Mutant of Release: the early return of remove(at:) skips the unlock.
ReleaseUnlessEarly(t) ==
    /\ pc[t] = "releasing"
    /\ held' = IF call[t].op = "remove" /\ call[t].at >= Len(elements)
               THEN held ELSE Released(held, t)
    /\ pc' = [pc EXCEPT ![t] = "idle"]
    /\ UNCHANGED <<elements, call, answer, scan, stale, reentered, left>>

\* The deferred unlock.  When the lock was given back before, it finds the lock
\* free, or drops the hold of another thread.
Release(t) ==
    /\ pc[t] = "releasing"
    /\ \/ held' = Released(held, t)
       \/ held[t] = "none" /\ \E u \in Thread : held' = Released(held, u)
    /\ pc' = [pc EXCEPT ![t] = "idle"]
    /\ UNCHANGED <<elements, call, answer, scan, stale, reentered, left>>

Running == \A t \in Thread : pc[t] # "trapped"

\* Nothing is left to happen: every client has made all its calls, or the
\* process has ended.
Finished ==
    /\ ~Running \/ \A t \in Thread : pc[t] = "idle" /\ left[t] = 0
    /\ UNCHANGED vars

Step(t) ==
    \/ Acquire(t) \/ Check(t) \/ Use(t) \/ Access(t)
    \/ Visit(t) \/ VisitMutated(t) \/ Conclude(t) \/ Reenter(t)
    \/ Raced(t) \/ Release(t)

Next ==
    \/ \E t \in Thread : Invoke(t) \/ Step(t)
    \/ Finished

Spec == Init /\ [][Next]_vars

\* A running thread is scheduled, and a thread that the lock keeps being free
\* for is woken up.
Fairness == \A t \in Thread : WF_vars(Step(t))

FairSpec == Spec /\ Fairness

-----------------------------------------------------------------------------
\* Whatever the positions and whatever the other threads remove, insert and walk
\* meanwhile, nothing raises until some closure of filter has called the array
\* it was filtering: no thread changes the array between another's bounds check
\* and the use of the position, or under another's walk.
NoTrapButForReentry == reentered \/ Running

\* Every call is atomic: it takes effect, whole, at one instant of the call, and
\* answers for the array of that instant: an early return's is its check, a
\* walk's is its end.
PhaseAt(place) ==
    CASE place = "idle" -> "idle"
      [] place = "releasing" -> "done"
      [] OTHER -> "called"

Phase == [t \in Thread |-> PhaseAt(pc[t])]

Atomic ==
    INSTANCE AtomicObject WITH
        object <- elements, phase <- Phase, NoAnswer <- Nil, Initial <- SeqOf(Item, MaxItems)

\* Every call is atomic until some closure of filter has called the array it
\* was filtering.
AtomicButForReentry == Atomic!Init /\ [][Atomic!Next \/ reentered]_(Atomic!vars)

\* No call hangs on the lock, unless a closure called back: every early return
\* of every method gives the lock back.
EveryCallReturns ==
    \A t \in Thread : pc[t] = "waiting" ~> (pc[t] = "idle" \/ reentered)
=============================================================================
