--------------------------- MODULE SafeArrayProofs ---------------------------
(***************************************************************************)
(* Proofs about PThreadSafeArray, for any threads, items and positions,    *)
(* any choice of the methods its clients call, closures that call the      *)
(* array back included, and any number of calls.                           *)
(***************************************************************************)
EXTENDS SafeArray, SequenceLemmas

Places == {"idle", "waiting", "accessing", "checked", "releasing", "stuck", "trapped"}

InSection(t) == pc[t] \in {"accessing", "checked", "releasing"}

\* A setter that passed its check has an item to set.
HasItem(c) == c.op \in {"set", "insert"} => c.item # Nil

\* What holds whatever the closures do.
ArrayTyped ==
    /\ elements \in Seq(Item)
    /\ held \in [Thread -> Hold]
    /\ pc \in [Thread -> Places]
    /\ call \in [Thread -> Call \cup {NoCall}]
    /\ \A t \in Thread : pc[t] \notin {"idle", "trapped"} => call[t] \in Call
    /\ DOMAIN answer = Thread
    /\ \A t \in Thread : scan[t].at \in Nat /\ scan[t].kept \in Seq(Item)
    /\ DOMAIN scan = Thread
    /\ \A t \in Thread : pc[t] = "checked" => HasItem(call[t])
    /\ reentered \in BOOLEAN

Walking(t) == pc[t] = "accessing" /\ call[t].op \in Walkers

\* What a walk has handed on of the elements it has visited.
ScanFits(t) ==
    IF Walking(t)
    THEN /\ scan[t].at <= Len(elements)
         /\ scan[t].kept = Only(SubSeq(elements, 1, scan[t].at), Wanted(call[t]))
    ELSE scan[t] = NoScan

\* What the lock gives as long as no closure called back: a thread holds it while it
\* is in the array, in the mode of its call; a position that was checked is still in
\* range, no walk goes over an array that has changed, and the process runs.
LockKept ==
    /\ \A t \in Thread : held[t] = IF InSection(t) THEN Mode(call[t]) ELSE "none"
    /\ WriterAlone(held)
    /\ stale = {}
    /\ \A t \in Thread : ScanFits(t)
    /\ \A t \in Thread : pc[t] = "checked" => Fits(elements, call[t])
    /\ Running

ArrayInv ==
    /\ ArrayTyped
    /\ ~reentered => LockKept

-----------------------------------------------------------------------------
(* What the operators return.                                               *)

\* Lists of a bounded length are lists.
LEMMA SeqOfIsSeq ==
    ASSUME NEW S, NEW n \in Nat, NEW s \in SeqOf(S, n)
    PROVE  s \in Seq(S)
<1>1. PICK m \in 0..n : s \in [1..m -> S]
    BY DEF SeqOf
<1> QED
    BY <1>1, SeqDef

\* The arguments of each method.
LEMMA CallShape ==
    ASSUME NEW c \in Call
    PROVE  /\ c.op \in Readers \cup Writers \cup {"get"}
           /\ c.op \in {"get", "set", "remove"} => c.at \in Int
           /\ c.op = "set" => c.item \in Item \cup {Nil}
           /\ c.op = "append" => c.items \in Seq(Item) \cup {Nil}
           /\ c.op = "insert" => c.item \in Item \cup {Nil} /\ c.at \in Int \cup {Nil}
           /\ c.op = "filter" => c.keep \subseteq Item
<1>1. c.op \in Readers \cup Writers \cup {"get"}
    BY ArrayAssumption DEF Call
<1>2. c.op \in {"get", "set", "remove"} => c.at \in Int
    BY ArrayAssumption DEF Call, Readers
<1>3. c.op = "set" => c.item \in Item \cup {Nil}
    BY DEF Call, Readers, Optional
<1>4. c.op = "append" => c.items \in SeqOf(Item, MaxItems) \cup {Nil}
    BY DEF Call, Readers, Optional
<1>5. c.op = "insert" => c.item \in Item \cup {Nil} /\ c.at \in Int \cup {Nil}
    BY ArrayAssumption DEF Call, Readers, Optional
<1>6. c.op = "filter" => c.keep \subseteq Item
    BY DEF Call, Readers
<1> QED
    BY <1>1, <1>2, <1>3, <1>4, <1>5, <1>6, SeqOfIsSeq, ArrayAssumption

\* An exception is no array and no answer.
LEMMA NoTrapOf ==
    /\ \A s \in Seq(Item) : s # Trap
    /\ \A x \in Item : x # Trap
    /\ Nil # Trap
BY ArrayAssumption

\* A position is used on the array as it is by then: an exception, or an array; and
\* no exception if the position is (still) in range.
LEMMA ChangedIsArray ==
    ASSUME NEW s \in Seq(Item), NEW c \in Call, HasItem(c)
    PROVE  /\ Changed(s, c) \in Seq(Item) \cup {Trap}
           /\ Fits(s, c) => Changed(s, c) \in Seq(Item) /\ Found(s, c) # Trap
<1>1. DOMAIN s = 1..Len(s) /\ Len(s) \in Nat
    BY LenProperties
<1>2. CASE c.op = "set"
    <2>1. CASE c.at \in 0..Len(s) - 1
        <3>1. c.item \in Item /\ c.at + 1 \in 1..Len(s)
            BY <1>1, <1>2, <2>1, CallShape DEF HasItem
        <3>2. Changed(s, c) = [s EXCEPT ![c.at + 1] = c.item] /\ Found(s, c) = Nil
            BY <1>2, <2>1 DEF Changed, Replace, Found
        <3> QED BY <1>1, <3>1, <3>2, NoTrapOf
    <2>3. CASE c.at \notin 0..Len(s) - 1
        <3>1. ~Fits(s, c)
            BY <1>1, <1>2, <2>3, CallShape DEF Fits
        <3> QED BY <1>2, <2>3, <3>1 DEF Changed, Replace
    <2> QED BY <2>1, <2>3
<1>4. CASE c.op = "insert"
    <2>1. CASE c.at \in 0..Len(s)
        <3>1. c.item \in Item /\ c.at + 1 \in Int /\ (c.at + 1) - 1 \in Int
            BY <1>1, <1>4, <2>1, CallShape DEF HasItem
        <3>2. Changed(s, c) = InsertAt(s, c.at + 1, c.item) /\ Found(s, c) = Nil
            BY <1>4, <2>1 DEF Changed, Insert, Found
        <3>3. \A i \in 1..(c.at + 1) - 1 : s[i] \in Item
            BY <1>1, <2>1
        <3>4. \A i \in c.at + 1..Len(s) : s[i] \in Item
            BY <1>1, <2>1
        <3>5. SubSeq(s, 1, (c.at + 1) - 1) \in Seq(Item) /\ SubSeq(s, c.at + 1, Len(s)) \in Seq(Item)
            BY <1>1, <3>1, <3>3, <3>4, SubSeqProperties
        <3>6. <<c.item>> \in Seq(Item)
            BY <3>1
        <3> QED BY <3>2, <3>5, <3>6, ConcatProperties, NoTrapOf DEF InsertAt
    <2>3. CASE c.at \notin 0..Len(s)
        <3>1. ~Fits(s, c)
            BY <1>1, <1>4, <2>3, CallShape DEF Fits
        <3> QED BY <1>4, <2>3, <3>1 DEF Changed, Insert
    <2> QED BY <2>1, <2>3
<1>5. CASE c.op = "remove"
    <2>1. CASE c.at \in 0..Len(s) - 1
        <3>1. c.at + 1 \in Int /\ (c.at + 1) - 1 \in Int /\ (c.at + 1) + 1 \in Int
            BY <1>1, <2>1
        <3>2. Changed(s, c) = RemoveAt(s, c.at + 1) /\ Found(s, c) = Nil
            BY <1>5, <2>1 DEF Changed, RemoveObject, Found
        <3>3. \A i \in 1..(c.at + 1) - 1 : s[i] \in Item
            BY <1>1, <2>1
        <3>4. \A i \in (c.at + 1) + 1..Len(s) : s[i] \in Item
            BY <1>1, <2>1
        <3>5. SubSeq(s, 1, (c.at + 1) - 1) \in Seq(Item) /\ SubSeq(s, (c.at + 1) + 1, Len(s)) \in Seq(Item)
            BY <1>1, <3>1, <3>3, <3>4, SubSeqProperties
        <3> QED BY <3>2, <3>5, ConcatProperties, NoTrapOf DEF RemoveAt
    <2>2. CASE c.at \notin 0..Len(s) - 1
        <3>1. ~Fits(s, c)
            BY <1>1, <1>5, <2>2, CallShape DEF Fits
        <3> QED BY <1>5, <2>2, <3>1 DEF Changed, RemoveObject
    <2> QED BY <2>1, <2>2
<1>6. CASE c.op = "get"
    <2>1. Changed(s, c) = s
        BY <1>6 DEF Changed
    <2>2. ASSUME Fits(s, c) PROVE Found(s, c) # Trap
        <3>1. c.at \in 0..Len(s) - 1 /\ c.at + 1 \in 1..Len(s)
            BY <1>1, <1>6, <2>2, CallShape DEF Fits
        <3>2. Found(s, c) = s[c.at + 1]
            BY <1>6, <3>1 DEF Found, ObjectAt
        <3> QED BY <1>1, <3>1, <3>2, NoTrapOf
    <2> QED BY <2>1, <2>2
<1>7. CASE c.op \notin {"set", "insert", "remove", "get"}
    BY <1>7 DEF Changed, Fits
<1> QED
    BY <1>2, <1>4, <1>5, <1>6, <1>7

\* Only the methods that take a position fit one, and no walk does.
LEMMA FitsArePositional ==
    ASSUME NEW s, NEW c, Fits(s, c)
    PROVE  c.op \in Positional /\ c.op \notin Walkers /\ c.op # "append"
BY DEF Fits, Positional, Walkers

\* append leaves an array, and what does not append is here only a reading.
LEMMA AccessEffect ==
    ASSUME NEW s \in Seq(Item), NEW c \in Call, c.op \notin Positional \cup Walkers
    PROVE  /\ Effect(s, c) \in Seq(Item)
           /\ Effect(s, c) # s => Mutates(c)
           /\ Answer(s, c) = Reading(s, c)
<1>1. CASE c.op = "append"
    <2>1. c.items = Nil \/ c.items \in Seq(Item)
        BY <1>1, CallShape
    <2>2. AppendItems(s, c) \in Seq(Item)
        BY <2>1, ConcatProperties DEF AppendItems
    <2> QED BY <1>1, <2>2 DEF Effect, Mutates, Writers, Answer, Walkers, Positional
<1>2. CASE c.op # "append"
    BY <1>2, FitsArePositional DEF Effect, Answer, Walkers
<1> QED
    BY <1>1, <1>2

\* Every method that changes the array takes the write lock, and filter does.
LEMMA ModeOfMutator ==
    ASSUME NEW c
    PROVE  /\ Mode(c) \in {"read", "write"} /\ Mode(c) \in Hold
           /\ Mutates(c) => Mode(c) = "write"
BY DEF Mode, Hold, Mutates, Writers

\* A whole sequence is what it holds of its own elements.
LEMMA OnlyAll ==
    ASSUME NEW A, NEW s \in Seq(A)
    PROVE  Only(s, A) = s
<1> DEFINE P == {r \in Seq(A) : Only(r, A) = r}
<1>1. <<>> \in P
    BY OnlyEmpty, EmptySeq
<1>2. ASSUME NEW r \in Seq(A), NEW x \in A, r \in P PROVE Append(r, x) \in P
    BY <1>2, OnlyAppend, AppendProperties
<1> HIDE DEF P
<1>3. Seq(A) \subseteq P
    BY <1>1, <1>2, SequenceInduction
<1> QED
    BY <1>3 DEF P

-----------------------------------------------------------------------------
(* What holds whatever the closures do.                                     *)

\* A walk that has seen nothing.
LEMMA NoScanTyped == NoScan.at = 0 /\ NoScan.kept = <<>> /\ NoScan.kept \in Seq(Item)
<1>1. NoScan.at = 0 /\ NoScan.kept = <<>>
    BY DEF NoScan
<1> QED
    BY <1>1, EmptySeq

\* Before the first call.
LEMMA InitKeeps == Init => ArrayInv
<1> SUFFICES ASSUME Init PROVE ArrayInv
    OBVIOUS
<1>1. elements \in Seq(Item)
    BY SeqOfIsSeq, ArrayAssumption DEF Init
<1>2. held \in [Thread -> Hold] /\ pc \in [Thread -> Places] /\ call \in [Thread -> Call \cup {NoCall}]
    BY DEF Init, Places, Unlocked, Hold
<1>3. \A t \in Thread : scan[t].at \in Nat /\ scan[t].kept \in Seq(Item)
    <2>1. \A t \in Thread : scan[t] = NoScan
        BY DEF Init
    <2>2. NoScan.at \in Nat /\ NoScan.kept \in Seq(Item)
        BY NoScanTyped
    <2> QED BY <2>1, <2>2
<1>4. ArrayTyped
    BY <1>1, <1>2, <1>3 DEF Init, ArrayTyped
<1>5. LockKept
    BY DEF Init, LockKept, InSection, Unlocked, WriterAlone, ScanFits, Walking, Running
<1> QED
    BY <1>4, <1>5 DEF ArrayInv

\* A call begins.
LEMMA InvokeKeepsTypes ==
    ASSUME ArrayTyped, NEW t \in Thread, Invoke(t)
    PROVE  ArrayTyped'
<1>1. PICK c \in Call : call' = [call EXCEPT ![t] = c]
    BY DEF Invoke
<1> QED
    BY <1>1 DEF ArrayTyped, Invoke, Places

\* The lock is granted.
LEMMA AcquireKeepsTypes ==
    ASSUME ArrayTyped, NEW t \in Thread, Acquire(t)
    PROVE  ArrayTyped'
<1>1. held' \in [Thread -> Hold] /\ pc' \in [Thread -> Places]
    BY ModeOfMutator DEF ArrayTyped, Acquire, Locked, Places
<1> QED
    BY <1>1 DEF ArrayTyped, Acquire

\* The process ends.
LEMMA RaiseKeepsTypes ==
    ASSUME ArrayTyped, Raise
    PROVE  ArrayTyped'
BY DEF ArrayTyped, Raise, Places

\* A position is checked.
LEMMA CheckKeepsTypes ==
    ASSUME ArrayTyped, NEW t \in Thread, Check(t)
    PROVE  ArrayTyped'
<1>1. pc' \in [Thread -> Places] /\ DOMAIN answer' = Thread
    BY DEF ArrayTyped, Check, Places
<1>2. \A u \in Thread : pc'[u] \notin {"idle", "trapped"} => call'[u] \in Call
    BY DEF ArrayTyped, Check
<1>3. Fits(elements, call[t]) => HasItem(call[t])
    BY DEF Fits, HasItem
<1> QED
    BY <1>1, <1>2, <1>3 DEF ArrayTyped, Check

\* A position is used.
LEMMA UseKeepsTypes ==
    ASSUME ArrayTyped, NEW t \in Thread, Use(t)
    PROVE  ArrayTyped'
<1>1. CASE Raise
    BY <1>1, RaiseKeepsTypes
<1>2. CASE ~Raise
    <2>1. /\ Trap # Changed(elements, call[t]) /\ elements' = Changed(elements, call[t])
          /\ call[t] \in Call /\ HasItem(call[t]) /\ elements \in Seq(Item)
        BY <1>2 DEF ArrayTyped, Use
    <2>2. elements' \in Seq(Item)
        BY <2>1, ChangedIsArray
    <2>3. /\ pc' = [pc EXCEPT ![t] = "releasing"] /\ DOMAIN answer' = Thread
          /\ UNCHANGED <<held, call, scan, reentered>>
        BY <1>2 DEF ArrayTyped, Use
    <2> QED BY <2>2, <2>3 DEF ArrayTyped, Places, Use
<1> QED
    BY <1>1, <1>2

\* append, or a reading.
LEMMA AccessKeepsTypes ==
    ASSUME ArrayTyped, NEW t \in Thread, Access(t)
    PROVE  ArrayTyped'
<1>1. call[t] \in Call /\ elements \in Seq(Item)
    BY DEF ArrayTyped, Access
<1>2. elements' \in Seq(Item)
    BY <1>1, AccessEffect DEF Access
<1> QED
    BY <1>2 DEF ArrayTyped, Access, Places

\* A walk looks at one element.
LEMMA VisitKeepsTypes ==
    ASSUME ArrayTyped, NEW t \in Thread, Visit(t)
    PROVE  ArrayTyped'
<1> DEFINE n == scan[t].at
           x == elements[n + 1]
           kept == IF x \in Wanted(call[t]) THEN Append(scan[t].kept, x) ELSE scan[t].kept
<1>1. scan' = [scan EXCEPT ![t] = [at |-> n + 1, kept |-> kept]] /\ n < Len(elements)
    BY DEF Visit
<1>2. n \in Nat /\ Len(elements) \in Nat /\ n + 1 \in 1..Len(elements)
    BY <1>1 DEF ArrayTyped
<1>3. x \in Item
    BY <1>2, ElementOfSeq DEF ArrayTyped
<1>4. kept \in Seq(Item)
    BY <1>3, AppendProperties DEF ArrayTyped
<1> HIDE DEF n, kept
<1>5. /\ DOMAIN scan' = Thread /\ scan'[t].at = n + 1 /\ scan'[t].kept = kept
      /\ \A u \in Thread : u # t => scan'[u] = scan[u]
    BY <1>1 DEF ArrayTyped
<1>6. \A u \in Thread : scan'[u].at \in Nat /\ scan'[u].kept \in Seq(Item)
    BY <1>2, <1>4, <1>5 DEF ArrayTyped
<1> QED
    BY <1>5, <1>6 DEF ArrayTyped, Visit

\* The scan of a thread is set back.
LEMMA RewindKeepsTypes ==
    ASSUME ArrayTyped, NEW t \in Thread, scan' = [scan EXCEPT ![t] = NoScan]
    PROVE  DOMAIN scan' = Thread /\ \A u \in Thread : scan'[u].at \in Nat /\ scan'[u].kept \in Seq(Item)
<1>1. DOMAIN scan' = Thread /\ \A u \in Thread : scan'[u] = NoScan \/ scan'[u] = scan[u]
    BY DEF ArrayTyped
<1>2. ASSUME NEW u \in Thread PROVE scan'[u].at \in Nat /\ scan'[u].kept \in Seq(Item)
    <2>1. NoScan.at \in Nat /\ NoScan.kept \in Seq(Item)
        BY NoScanTyped
    <2>2. scan[u].at \in Nat /\ scan[u].kept \in Seq(Item)
        BY DEF ArrayTyped
    <2> QED BY <1>1, <2>1, <2>2
<1> QED
    BY <1>1, <1>2

\* A walk ends.
LEMMA ConcludeKeepsTypes ==
    ASSUME ArrayTyped, NEW t \in Thread, Conclude(t)
    PROVE  ArrayTyped'
<1>1. DOMAIN scan' = Thread /\ \A u \in Thread : scan'[u].at \in Nat /\ scan'[u].kept \in Seq(Item)
    BY RewindKeepsTypes DEF Conclude
<1>2. DOMAIN answer' = Thread
    BY DEF ArrayTyped, Conclude
<1> QED
    BY <1>1, <1>2 DEF ArrayTyped, Conclude, Places

\* A closure calls back.
LEMMA ReenterKeepsTypes ==
    ASSUME ArrayTyped, NEW t \in Thread, Reenter(t)
    PROVE  ArrayTyped'
<1>1. held' \in [Thread -> Hold] /\ pc' \in [Thread -> Places]
    BY DEF ArrayTyped, Reenter, Released, Hold, Places
<1>2. \A u \in Thread : pc'[u] \notin {"idle", "trapped"} => call'[u] \in Call
    BY DEF ArrayTyped, Reenter
<1> QED
    BY <1>1, <1>2 DEF ArrayTyped, Reenter

\* An access that raced leaves any array, which is still one.
LEMMA RacedKeepsTypes ==
    ASSUME ArrayTyped, NEW t \in Thread, Raced(t)
    PROVE  ArrayTyped'
<1>1. CASE Raise
    BY <1>1, RaiseKeepsTypes
<1>2. CASE ~Raise
    <2>1. Len(elements) + 1 \in Nat
        BY DEF ArrayTyped
    <2>2. elements' \in Seq(Item)
        BY <1>2, <2>1, SeqOfIsSeq DEF ArrayTyped, Raced
    <2>3. DOMAIN scan' = Thread /\ \A u \in Thread : scan'[u].at \in Nat /\ scan'[u].kept \in Seq(Item)
        BY <1>2, RewindKeepsTypes DEF Raced
    <2>4. /\ DOMAIN answer' = Thread /\ pc' = [pc EXCEPT ![t] = "releasing"]
          /\ pc[t] \in {"accessing", "checked"} /\ UNCHANGED <<held, call, reentered>>
        BY <1>2 DEF ArrayTyped, Raced, Touching
    <2> QED BY <2>2, <2>3, <2>4 DEF ArrayTyped, Places
<1> QED
    BY <1>1, <1>2

\* The lock is given back, or that of another.
LEMMA ReleaseKeepsTypes ==
    ASSUME ArrayTyped, NEW t \in Thread, Release(t)
    PROVE  ArrayTyped'
<1>1. held' \in [Thread -> Hold]
    BY DEF ArrayTyped, Release, Released, Hold
<1> QED
    BY <1>1 DEF ArrayTyped, Release, Places

-----------------------------------------------------------------------------
(* What the lock gives as long as no closure called back.                   *)

\* Nobody else is in the array with a method that changes it.
LEMMA AloneInside ==
    ASSUME ArrayTyped, LockKept, NEW t \in Thread, NEW u \in Thread, u # t,
           InSection(t), Mutates(call[t])
    PROVE  ~InSection(u)
<1>1. held[t] = "write" /\ held[u] = "none"
    BY ModeOfMutator DEF LockKept, WriterAlone
<1>2. held[u] = IF InSection(u) THEN Mode(call[u]) ELSE "none"
    BY DEF LockKept
<1>3. Mode(call[u]) # "none"
    BY ModeOfMutator
<1> QED
    BY <1>1, <1>2, <1>3

\* So no access has a rival, and no walk is disturbed.
LEMMA NoRivals ==
    ASSUME ArrayTyped, LockKept, NEW t \in Thread, Touching(t)
    PROVE  Rivals(t) = {} /\ (Mutates(call[t]) => Disturbed(t) = {})
<1>1. InSection(t)
    BY DEF Touching, InSection
<1>2. ASSUME NEW u \in Rivals(t) PROVE FALSE
    <2>1. u \in Thread /\ u # t /\ InSection(u) /\ (Mutates(call[t]) \/ Mutates(call[u]))
        BY <1>2 DEF Rivals, Conflict, Touching, InSection
    <2> QED BY <1>1, <2>1, AloneInside
<1>3. ASSUME Mutates(call[t]), NEW u \in Disturbed(t) PROVE FALSE
    <2>1. u \in Thread /\ u # t /\ InSection(u)
        BY <1>3 DEF Disturbed, InSection
    <2> QED BY <1>1, <1>3, <2>1, AloneInside
<1> QED
    BY <1>2, <1>3

\* The lock stays kept when one thread moves inside its method, changing the array
\* only as a method that may.
LEMMA InsideKeepsLock ==
    ASSUME ArrayTyped, LockKept, NEW t \in Thread, InSection(t),
           NEW q \in {"accessing", "checked", "releasing"}, pc' = [pc EXCEPT ![t] = q],
           UNCHANGED <<held, call, stale>>,
           elements' # elements => Mutates(call[t]),
           \A u \in Thread : u # t => scan'[u] = scan[u],
           ScanFits(t)', q = "checked" => Fits(elements', call[t])
    PROVE  LockKept'
<1>1. pc'[t] = q /\ \A u \in Thread : u # t => pc'[u] = pc[u]
    BY DEF ArrayTyped
<1>2. \A u \in Thread : InSection(u)' <=> InSection(u)
    BY <1>1 DEF InSection
<1>3. ASSUME NEW u \in Thread, u # t PROVE ScanFits(u)' /\ (pc'[u] = "checked" => Fits(elements', call'[u]))
    <2>1. CASE elements' = elements
        BY <1>1, <1>3, <2>1 DEF LockKept, ScanFits, Walking
    <2>2. CASE elements' # elements
        <3>1. ~InSection(u)
            BY <1>3, <2>2, AloneInside
        <3> QED BY <1>1, <1>3, <3>1 DEF LockKept, ScanFits, Walking, InSection
    <2> QED BY <2>1, <2>2
<1>4. Running'
    BY <1>1 DEF LockKept, Running
<1> QED
    BY <1>1, <1>2, <1>3, <1>4 DEF LockKept, WriterAlone

\* A call begins.
LEMMA InvokeKeepsLock ==
    ASSUME ArrayTyped, LockKept, NEW t \in Thread, Invoke(t)
    PROVE  LockKept'
<1>1. PICK c \in Call : call' = [call EXCEPT ![t] = c]
    BY DEF Invoke
<1>2. /\ pc[t] = "idle" /\ pc'[t] = "waiting"
      /\ \A u \in Thread : u # t => pc'[u] = pc[u] /\ call'[u] = call[u]
      /\ UNCHANGED <<elements, held, scan, stale>>
    BY <1>1 DEF ArrayTyped, Invoke
<1>3. \A u \in Thread : held'[u] = IF InSection(u)' THEN Mode(call'[u]) ELSE "none"
    BY <1>2 DEF LockKept, InSection
<1>4. \A u \in Thread : ScanFits(u)'
    BY <1>2 DEF LockKept, ScanFits, Walking
<1>5. Running' /\ \A u \in Thread : pc'[u] = "checked" => Fits(elements', call'[u])
    BY <1>2 DEF LockKept, Running
<1> QED
    BY <1>2, <1>3, <1>4, <1>5 DEF LockKept, WriterAlone

\* The lock is granted.
LEMMA AcquireKeepsLock ==
    ASSUME ArrayTyped, LockKept, NEW t \in Thread, Acquire(t)
    PROVE  LockKept'
<1> DEFINE m == Mode(call[t])
<1>1. /\ pc[t] = "waiting" /\ Grants(held, m) /\ held' = [held EXCEPT ![t] = m]
      /\ pc' = [pc EXCEPT ![t] = "accessing"] /\ UNCHANGED <<elements, call, scan, stale>>
    BY DEF Acquire, Locked
<1>2. m \in {"read", "write"}
    BY ModeOfMutator
<1> HIDE DEF m
<1>5. /\ held'[t] = m /\ pc'[t] = "accessing"
      /\ \A u \in Thread : u # t => held'[u] = held[u] /\ pc'[u] = pc[u]
    BY <1>1 DEF ArrayTyped
<1>6. \A u \in Thread : held'[u] = IF InSection(u)' THEN Mode(call'[u]) ELSE "none"
    BY <1>1, <1>5 DEF LockKept, InSection, m
<1>7. WriterAlone(held)'
    BY <1>1, <1>2, <1>5 DEF LockKept, WriterAlone, Grants
<1>8. ScanFits(t)'
    <2>1. Only(SubSeq(elements, 1, 0), Wanted(call[t])) = <<>>
        <3>1. SubSeq(elements, 1, 0) = <<>>
            BY 1 \in Int, 0 \in Int, 0 < 1, SubSeqEmpty
        <3> QED BY <3>1, OnlyEmpty
    <2>2. 0 <= Len(elements)
        BY LenProperties DEF ArrayTyped
    <2>3. scan[t] = NoScan /\ scan'[t] = NoScan
        BY <1>1 DEF LockKept, ScanFits, Walking
    <2> QED BY <1>1, <2>1, <2>2, <2>3, NoScanTyped DEF ScanFits
<1>9. \A u \in Thread : u # t => ScanFits(u)'
    BY <1>1, <1>5 DEF LockKept, ScanFits, Walking
<1>10. Running' /\ \A u \in Thread : pc'[u] = "checked" => Fits(elements', call'[u])
    BY <1>1, <1>5 DEF LockKept, Running
<1> QED
    BY <1>1, <1>6, <1>7, <1>8, <1>9, <1>10 DEF LockKept

\* A position is checked: the thread remembers that it fits only if it does.
LEMMA CheckKeepsLock ==
    ASSUME ArrayTyped, LockKept, NEW t \in Thread, Check(t)
    PROVE  LockKept'
<1>1. /\ pc[t] = "accessing" /\ UNCHANGED <<elements, held, call, scan, stale>>
      /\ call[t].op \in Positional
    BY DEF Check
<1>2. PICK q \in {"checked", "releasing"} :
          pc' = [pc EXCEPT ![t] = q] /\ (q = "checked" => Fits(elements, call[t]))
    BY DEF Check
<1>3. ScanFits(t)'
    BY <1>1, <1>2 DEF ArrayTyped, LockKept, ScanFits, Walking, Positional, Walkers
<1> QED
    BY <1>1, <1>2, <1>3, InsideKeepsLock DEF InSection

\* Before a closure called back, a checked position is used without an exception.
LEMMA UseFits ==
    ASSUME ArrayTyped, LockKept, NEW t \in Thread, Use(t)
    PROVE  /\ Fits(elements, call[t]) /\ call[t].op \in Positional /\ call[t].op \notin Walkers
           /\ elements' = Changed(elements, call[t])
           /\ answer' = [answer EXCEPT ![t] = Found(elements, call[t])]
           /\ stale' = {} /\ pc' = [pc EXCEPT ![t] = "releasing"]
           /\ pc[t] = "checked" /\ UNCHANGED <<held, call, scan, reentered>>
<1>1. /\ Fits(elements, call[t]) /\ call[t] \in Call /\ HasItem(call[t])
      /\ elements \in Seq(Item) /\ Touching(t)
    BY DEF Use, LockKept, ArrayTyped, Touching
<1>2. Trap \notin {Changed(elements, call[t]), Found(elements, call[t])}
    BY <1>1, ChangedIsArray, NoTrapOf
<1>3. stale' = {}
    BY <1>1, <1>2, NoRivals DEF Use, LockKept
<1> QED
    BY <1>1, <1>2, <1>3, FitsArePositional DEF Use

\* What does not mutate does not change the array.
LEMMA ChangedByMutators ==
    ASSUME NEW s, NEW c, Changed(s, c) # s
    PROVE  Mutates(c)
BY DEF Changed, Mutates, Writers

\* A position is used.
LEMMA UseKeepsLock ==
    ASSUME ArrayTyped, LockKept, NEW t \in Thread, Use(t)
    PROVE  LockKept'
<1>1. /\ elements' = Changed(elements, call[t]) /\ stale' = {} /\ call[t].op \notin Walkers
      /\ pc' = [pc EXCEPT ![t] = "releasing"] /\ pc[t] = "checked"
      /\ UNCHANGED <<held, call, scan>>
    BY UseFits
<1>2. stale' = stale
    BY <1>1 DEF LockKept
<1>3. ScanFits(t)'
    BY <1>1 DEF ArrayTyped, LockKept, ScanFits, Walking
<1> QED
    BY <1>1, <1>2, <1>3, ChangedByMutators, InsideKeepsLock DEF InSection

\* append, or a reading.
LEMMA AccessKeepsLock ==
    ASSUME ArrayTyped, LockKept, NEW t \in Thread, Access(t)
    PROVE  LockKept'
<1>1. /\ pc[t] = "accessing" /\ pc' = [pc EXCEPT ![t] = "releasing"]
      /\ call[t].op \notin Positional \cup Walkers
      /\ UNCHANGED <<held, call, scan>> /\ elements' = Effect(elements, call[t])
    BY DEF Access
<1>2. call[t] \in Call /\ elements \in Seq(Item) /\ Touching(t)
    BY <1>1 DEF ArrayTyped, Touching
<1>3. elements' # elements => Mutates(call[t])
    BY <1>1, <1>2, AccessEffect
<1>4. stale' = stale
    BY <1>2, <1>3, NoRivals DEF Access, LockKept
<1>5. ScanFits(t)'
    BY <1>1 DEF ArrayTyped, LockKept, ScanFits, Walking
<1> QED
    BY <1>1, <1>3, <1>4, <1>5, InsideKeepsLock DEF InSection

\* A walk looks at one element, and hands it on as it would from the whole array.
LEMMA VisitKeepsLock ==
    ASSUME ArrayTyped, LockKept, NEW t \in Thread, Visit(t)
    PROVE  LockKept'
<1> DEFINE n == scan[t].at
           x == elements[n + 1]
           seen == SubSeq(elements, 1, n)
           keep == Wanted(call[t])
<1>1. /\ scan' = [scan EXCEPT ![t] = [at |-> n + 1, kept |-> IF x \in keep THEN Append(scan[t].kept, x)
                                                                            ELSE scan[t].kept]]
      /\ n < Len(elements) /\ pc[t] = "accessing" /\ call[t].op \in Walkers
      /\ UNCHANGED <<elements, held, pc, call, stale>>
    BY DEF Visit
<1>2. n \in Nat /\ Len(elements) \in Nat /\ n + 1 \in 1..Len(elements) /\ n \in 0..Len(elements)
    BY <1>1 DEF ArrayTyped
<1>3. x \in Item /\ seen \in Seq(Item) /\ SubSeq(elements, 1, n + 1) = Append(seen, x)
    <2>1. x \in Item
        BY <1>2, ElementOfSeq DEF ArrayTyped
    <2>2. \A i \in 1..n : elements[i] \in Item
        BY <1>2, ElementOfSeq DEF ArrayTyped
    <2>3. seen \in Seq(Item)
        BY <1>2, <2>2, SubSeqProperties
    <2>4. SubSeq(elements, 1, n + 1) = SubSeq(elements, 1, (n + 1) - 1) \o <<x>>
        <3>1. elements \in Seq(Item) /\ 1 \in 1..Len(elements) /\ n + 1 \in 1..n + 1
            BY <1>2 DEF ArrayTyped
        <3>2. n + 1 \in 1..Len(elements)
            BY <1>2
        <3> HIDE DEF n, x
        <3>3. SubSeq(elements, 1, n + 1) = SubSeq(elements, 1, (n + 1) - 1) \o <<elements[n + 1]>>
            BY <3>1, <3>2, SubSeqRecursiveSecond
        <3> QED BY <3>3 DEF x
    <2>5. (n + 1) - 1 = n
        BY <1>2
    <2> QED BY <2>1, <2>3, <2>4, <2>5, AppendIsConcat
<1>4. scan[t].kept = Only(seen, keep)
    BY <1>1 DEF LockKept, ScanFits, Walking
<1> HIDE DEF x, seen, keep
<1>5. Only(Append(seen, x), keep) = IF x \in keep THEN Append(Only(seen, keep), x) ELSE Only(seen, keep)
    BY <1>3, OnlyAppend
<1>6. /\ scan'[t].at = n + 1 /\ scan'[t].kept = Only(SubSeq(elements, 1, n + 1), keep)
      /\ \A u \in Thread : u # t => scan'[u] = scan[u]
    BY <1>1, <1>3, <1>4, <1>5 DEF ArrayTyped
<1> HIDE DEF n
<1>7. ScanFits(t)'
    BY <1>1, <1>2, <1>6 DEF ScanFits, Walking, keep
<1>8. pc' = [pc EXCEPT ![t] = "accessing"]
    BY <1>1 DEF ArrayTyped
<1> QED
    BY <1>1, <1>6, <1>7, <1>8, InsideKeepsLock DEF InSection

\* A walk ends.
LEMMA ConcludeKeepsLock ==
    ASSUME ArrayTyped, LockKept, NEW t \in Thread, Conclude(t)
    PROVE  LockKept'
<1>1. /\ pc[t] = "accessing" /\ pc' = [pc EXCEPT ![t] = "releasing"]
      /\ UNCHANGED <<elements, held, call>> /\ scan' = [scan EXCEPT ![t] = NoScan]
    BY DEF Conclude
<1>2. stale' = stale
    BY DEF Conclude, LockKept
<1>3. ScanFits(t)' /\ \A u \in Thread : u # t => scan'[u] = scan[u]
    BY <1>1 DEF ArrayTyped, ScanFits, Walking
<1> QED
    BY <1>1, <1>2, <1>3, InsideKeepsLock DEF InSection

\* The lock is given back, by the thread that holds it.
LEMMA ReleaseKeepsLock ==
    ASSUME ArrayTyped, LockKept, NEW t \in Thread, Release(t)
    PROVE  LockKept'
<1>1. held[t] # "none"
    BY ModeOfMutator DEF Release, LockKept, InSection
<1>2. /\ held' = [held EXCEPT ![t] = "none"] /\ pc' = [pc EXCEPT ![t] = "idle"]
      /\ pc[t] = "releasing" /\ UNCHANGED <<elements, call, scan, stale>>
    BY <1>1 DEF Release, Released
<1>3. /\ held'[t] = "none" /\ pc'[t] = "idle"
      /\ \A u \in Thread : u # t => held'[u] = held[u] /\ pc'[u] = pc[u]
    BY <1>2 DEF ArrayTyped
<1>4. \A u \in Thread : held'[u] = IF InSection(u)' THEN Mode(call'[u]) ELSE "none"
    BY <1>2, <1>3 DEF LockKept, InSection
<1>5. \A u \in Thread : ScanFits(u)' /\ (pc'[u] = "checked" => Fits(elements', call'[u]))
    BY <1>2, <1>3 DEF LockKept, ScanFits, Walking
<1>6. Running'
    BY <1>3 DEF LockKept, Running
<1> QED
    BY <1>2, <1>3, <1>4, <1>5, <1>6 DEF LockKept, WriterAlone

-----------------------------------------------------------------------------
(* The invariants of the specification.                                     *)

\* Nothing happens.
LEMMA StutterKeepsArray ==
    ASSUME ArrayInv, UNCHANGED vars
    PROVE  ArrayInv'
<1>1. /\ elements' = elements /\ held' = held /\ pc' = pc /\ call' = call
      /\ answer' = answer /\ scan' = scan /\ stale' = stale /\ reentered' = reentered
    BY DEF vars
<1>2. ArrayTyped'
    BY <1>1 DEF ArrayInv, ArrayTyped
<1>3. LockKept => LockKept'
    BY <1>1 DEF LockKept, InSection, WriterAlone, ScanFits, Walking, Running
<1> QED
    BY <1>1, <1>2, <1>3 DEF ArrayInv

\* A step of the array keeps its invariant: a closure that calls back gives up what
\* the lock gives, and nothing restores it.
LEMMA StepKeepsArray == ArrayInv /\ [Next]_vars => ArrayInv'
<1> SUFFICES ASSUME ArrayInv, [Next]_vars PROVE ArrayInv'
    OBVIOUS
<1>0. ArrayTyped /\ (~reentered => LockKept)
    BY DEF ArrayInv
<1>1. CASE UNCHANGED vars \/ Finished
    BY <1>1, StutterKeepsArray DEF Finished
<1>2. ASSUME NEW t \in Thread, Invoke(t) PROVE ArrayInv'
    <2>1. reentered' = reentered
        BY <1>2 DEF Invoke
    <2> QED BY <1>0, <1>2, <2>1, InvokeKeepsTypes, InvokeKeepsLock DEF ArrayInv
<1>3. ASSUME NEW t \in Thread, Acquire(t) PROVE ArrayInv'
    <2>1. reentered' = reentered
        BY <1>3 DEF Acquire
    <2> QED BY <1>0, <1>3, <2>1, AcquireKeepsTypes, AcquireKeepsLock DEF ArrayInv
<1>4. ASSUME NEW t \in Thread, Check(t) PROVE ArrayInv'
    <2>1. reentered' = reentered
        BY <1>4 DEF Check
    <2> QED BY <1>0, <1>4, <2>1, CheckKeepsTypes, CheckKeepsLock DEF ArrayInv
<1>5. ASSUME NEW t \in Thread, Use(t) PROVE ArrayInv'
    <2>1. reentered' = reentered
        BY <1>5 DEF Use, Raise
    <2> QED BY <1>0, <1>5, <2>1, UseKeepsTypes, UseKeepsLock DEF ArrayInv
<1>6. ASSUME NEW t \in Thread, Access(t) PROVE ArrayInv'
    <2>1. reentered' = reentered
        BY <1>6 DEF Access
    <2> QED BY <1>0, <1>6, <2>1, AccessKeepsTypes, AccessKeepsLock DEF ArrayInv
<1>7. ASSUME NEW t \in Thread, Visit(t) PROVE ArrayInv'
    <2>1. reentered' = reentered
        BY <1>7 DEF Visit
    <2> QED BY <1>0, <1>7, <2>1, VisitKeepsTypes, VisitKeepsLock DEF ArrayInv
<1>8. ASSUME NEW t \in Thread, Conclude(t) PROVE ArrayInv'
    <2>1. reentered' = reentered
        BY <1>8 DEF Conclude
    <2> QED BY <1>0, <1>8, <2>1, ConcludeKeepsTypes, ConcludeKeepsLock DEF ArrayInv
<1>9. ASSUME NEW t \in Thread, VisitMutated(t) PROVE ArrayInv'
    \* Until a closure called back, no walk is stale.
    <2>1. reentered' = reentered /\ stale # {} /\ Raise
        BY <1>9 DEF VisitMutated, Raise
    <2> QED BY <1>0, <2>1, RaiseKeepsTypes DEF ArrayInv, LockKept
<1>10. ASSUME NEW t \in Thread, Reenter(t) PROVE ArrayInv'
    <2>1. reentered' = TRUE
        BY <1>10 DEF Reenter
    <2> QED BY <1>0, <1>10, <2>1, ReenterKeepsTypes DEF ArrayInv
<1>11. ASSUME NEW t \in Thread, Raced(t) PROVE ArrayInv'
    \* Until a closure called back, no access races.
    <2>1. reentered' = reentered /\ Touching(t) /\ Rivals(t) # {}
        BY <1>11 DEF Raced, Raise
    <2> QED BY <1>0, <1>11, <2>1, RacedKeepsTypes, NoRivals DEF ArrayInv
<1>12. ASSUME NEW t \in Thread, Release(t) PROVE ArrayInv'
    <2>1. reentered' = reentered
        BY <1>12 DEF Release
    <2> QED BY <1>0, <1>12, <2>1, ReleaseKeepsTypes, ReleaseKeepsLock DEF ArrayInv
<1> QED
    BY <1>1, <1>2, <1>3, <1>4, <1>5, <1>6, <1>7, <1>8, <1>9, <1>10, <1>11, <1>12 DEF Next, Step

\* The array stays an array, whatever the closures of filter do.  Until one of them
\* calls back, a thread in the array holds the lock in the mode of its call, a position
\* stays in range from its check to its use, and what a walk has handed on is the
\* selection of the elements it has visited, of the array as it still is.
THEOREM ArrayInvariance == Spec => []ArrayInv
<1> QED
    BY InitKeeps, StepKeepsArray, PTL DEF Spec

\* Nothing raises, whatever the positions and whatever the other threads do, until some
\* closure of filter has called the array back: the lock is held from the check to the
\* use, and from the first element of a walk to the last.
THEOREM NeverTraps == Spec => []NoTrapButForReentry
<1>1. ArrayInv => NoTrapButForReentry
    BY DEF ArrayInv, LockKept, NoTrapButForReentry
<1> QED
    BY <1>1, ArrayInvariance, PTL

-----------------------------------------------------------------------------
(* Until a closure calls back, the array implements the atomic object:       *)
(* Invoke and Release are the abstract call and return; an early return, the *)
(* use of a position, the one call of NSMutableArray and the end of a walk   *)
(* are the instants at which calls take effect; every other step stutters.   *)

\* The phase at each place of a call.
LEMMA PhaseValues ==
    /\ PhaseAt("idle") = "idle" /\ PhaseAt("releasing") = "done"
    /\ PhaseAt("waiting") = "called" /\ PhaseAt("accessing") = "called"
    /\ PhaseAt("checked") = "called" /\ PhaseAt("stuck") = "called"
BY DEF PhaseAt

\* A step of one thread moves its phase only.
Moves(t, from, to) == pc[t] = from /\ pc' = [pc EXCEPT ![t] = to]

PhaseMoves(t, from, to) == Phase[t] = from /\ Phase' = [Phase EXCEPT ![t] = to]

LEMMA PhaseSteps ==
    ASSUME NEW t \in Thread, DOMAIN pc = Thread
    PROVE  /\ Moves(t, "idle", "waiting") => PhaseMoves(t, "idle", "called")
           /\ Moves(t, "waiting", "accessing") => Phase' = Phase
           /\ Moves(t, "accessing", "checked") => Phase' = Phase
           /\ Moves(t, "accessing", "stuck") => Phase' = Phase
           /\ Moves(t, "accessing", "releasing") => PhaseMoves(t, "called", "done")
           /\ Moves(t, "checked", "releasing") => PhaseMoves(t, "called", "done")
           /\ Moves(t, "releasing", "idle") => PhaseMoves(t, "done", "idle")
<1>1. ASSUME NEW from, NEW to, Moves(t, from, to)
      PROVE  PhaseMoves(t, PhaseAt(from), PhaseAt(to))
    BY <1>1 DEF Moves, PhaseMoves, Phase
<1>2. ASSUME NEW from, NEW to, Moves(t, from, to), PhaseAt(from) = PhaseAt(to)
      PROVE  Phase' = Phase
    BY <1>2 DEF Moves, Phase
<1> QED
    BY <1>1, <1>2, PhaseValues

\* The initial states are those of the atomic object.
LEMMA InitRefines == Init => Atomic!Init
BY PhaseValues DEF Init, Atomic!Init, Phase

\* At its end a walk has seen the whole array: what it handed on is the selection
\* from the array of that instant.
LEMMA WalkSawAll ==
    ASSUME ArrayTyped, LockKept, NEW t \in Thread, Conclude(t)
    PROVE  scan[t].kept = Answer(elements, call[t])
<1>0. Walking(t) /\ ScanFits(t)
    BY DEF Conclude, Walking, LockKept
<1>1. scan[t].at = Len(elements)
    <2>1. scan[t].at >= Len(elements)
        BY DEF Conclude
    <2>2. scan[t].at <= Len(elements)
        BY <1>0 DEF ScanFits
    <2> QED BY <2>1, <2>2 DEF ArrayTyped
<1>2. SubSeq(elements, 1, Len(elements)) = elements
    BY SubSeqFull DEF ArrayTyped
<1>3. scan[t].kept = Only(elements, Wanted(call[t]))
    BY <1>0, <1>1, <1>2 DEF ScanFits
<1>4. Only(elements, Item) = elements
    BY OnlyAll DEF ArrayTyped
<1>5. CASE call[t].op = "values"
    BY <1>3, <1>4, <1>5 DEF Answer, Wanted, Positional
<1>6. CASE call[t].op = "filter"
    BY <1>3, <1>6 DEF Answer, Wanted, Positional
<1> QED
    BY <1>0, <1>5, <1>6 DEF Walking, Walkers

\* A walk changes nothing.
LEMMA WalkEffect ==
    ASSUME NEW s, NEW c, c.op \in Walkers
    PROVE  Effect(s, c) = s
BY FitsArePositional DEF Effect, Walkers

\* A step before any closure has called back is one of the atomic object, or none.
LEMMA StepRefines ==
    ASSUME ArrayInv, [Next]_vars, ~reentered
    PROVE  [Atomic!Next]_(Atomic!vars)
<1> USE DEF Atomic!vars
<1>0. DOMAIN pc = Thread /\ ArrayTyped /\ LockKept
    BY DEF ArrayInv, ArrayTyped
<1>1. CASE UNCHANGED vars \/ Finished
    BY <1>1 DEF Finished, vars, Phase
<1>2. ASSUME NEW t \in Thread, Invoke(t) PROVE Atomic!Invoke(t)
    <2>1. pc[t] = "idle" /\ pc' = [pc EXCEPT ![t] = "waiting"]
        BY <1>2 DEF Invoke
    <2>2. Phase[t] = "idle" /\ Phase' = [Phase EXCEPT ![t] = "called"]
        BY <1>0, <2>1, PhaseSteps DEF Moves, PhaseMoves
    <2> QED
        BY <1>2, <2>2 DEF Invoke, Atomic!Invoke
<1>3. ASSUME NEW t \in Thread, Acquire(t) PROVE UNCHANGED Atomic!vars
    <2>1. pc[t] = "waiting" /\ pc' = [pc EXCEPT ![t] = "accessing"]
        BY <1>3 DEF Acquire
    <2>2. Phase' = Phase
        BY <1>0, <2>1, PhaseSteps DEF Moves, PhaseMoves
    <2> QED
        BY <1>3, <2>2 DEF Acquire
<1>4. ASSUME NEW t \in Thread, Check(t) PROVE Atomic!Commit(t) \/ UNCHANGED Atomic!vars
    <2>1. CASE Fits(elements, call[t])
        <3>1. pc[t] = "accessing" /\ pc' = [pc EXCEPT ![t] = "checked"] /\ UNCHANGED answer
            BY <1>4, <2>1 DEF Check
        <3>2. Phase' = Phase
            BY <1>0, <3>1, PhaseSteps DEF Moves, PhaseMoves
        <3> QED
            BY <1>4, <3>1, <3>2 DEF Check
    <2>2. CASE ~Fits(elements, call[t])
        <3>1. /\ pc[t] = "accessing" /\ pc' = [pc EXCEPT ![t] = "releasing"]
              /\ answer' = [answer EXCEPT ![t] = Nil] /\ call[t].op \in Positional
            BY <1>4, <2>2 DEF Check
        <3>2. Phase[t] = "called" /\ Phase' = [Phase EXCEPT ![t] = "done"]
            BY <1>0, <3>1, PhaseSteps DEF Moves, PhaseMoves
        <3>3. Effect(elements, call[t]) = elements /\ Answer(elements, call[t]) = Nil
            BY <2>2, <3>1 DEF Effect, Answer, Positional
        <3> QED
            BY <1>4, <3>1, <3>2, <3>3 DEF Check, Atomic!Commit
    <2> QED BY <2>1, <2>2
<1>5. ASSUME NEW t \in Thread, Use(t) PROVE Atomic!Commit(t)
    <2>1. /\ Fits(elements, call[t]) /\ call[t].op \in Positional
          /\ elements' = Changed(elements, call[t])
          /\ answer' = [answer EXCEPT ![t] = Found(elements, call[t])]
          /\ pc[t] = "checked" /\ pc' = [pc EXCEPT ![t] = "releasing"] /\ UNCHANGED call
        BY <1>0, <1>5, UseFits
    <2>2. Phase[t] = "called" /\ Phase' = [Phase EXCEPT ![t] = "done"]
        BY <1>0, <2>1, PhaseSteps DEF Moves, PhaseMoves
    <2>3. /\ Effect(elements, call[t]) = Changed(elements, call[t])
          /\ Answer(elements, call[t]) = Found(elements, call[t])
        BY <2>1 DEF Effect, Answer, Positional
    <2> QED
        BY <2>1, <2>2, <2>3 DEF Atomic!Commit
<1>6. ASSUME NEW t \in Thread, Access(t) PROVE Atomic!Commit(t)
    <2>1. /\ pc[t] = "accessing" /\ pc' = [pc EXCEPT ![t] = "releasing"]
          /\ call[t] \in Call /\ elements \in Seq(Item) /\ call[t].op \notin Positional \cup Walkers
        BY <1>0, <1>6 DEF Access, ArrayTyped
    <2>2. Phase[t] = "called" /\ Phase' = [Phase EXCEPT ![t] = "done"]
        BY <1>0, <2>1, PhaseSteps DEF Moves, PhaseMoves
    <2>3. Answer(elements, call[t]) = Reading(elements, call[t])
        BY <2>1, AccessEffect
    <2> QED
        BY <1>6, <2>2, <2>3 DEF Access, Atomic!Commit
<1>7. ASSUME NEW t \in Thread, Visit(t) PROVE UNCHANGED Atomic!vars
    BY <1>7 DEF Visit, Phase
<1>8. ASSUME NEW t \in Thread, VisitMutated(t) PROVE FALSE
    BY <1>0, <1>8 DEF VisitMutated, LockKept
<1>9. ASSUME NEW t \in Thread, Conclude(t) PROVE Atomic!Commit(t)
    <2>1. /\ pc[t] = "accessing" /\ pc' = [pc EXCEPT ![t] = "releasing"]
          /\ call[t].op \in Walkers
        BY <1>9 DEF Conclude
    <2>2. Phase[t] = "called" /\ Phase' = [Phase EXCEPT ![t] = "done"]
        BY <1>0, <2>1, PhaseSteps DEF Moves, PhaseMoves
    <2>3. scan[t].kept = Answer(elements, call[t]) /\ Effect(elements, call[t]) = elements
        BY <1>0, <1>9, <2>1, WalkSawAll, WalkEffect
    <2> QED
        BY <1>9, <2>2, <2>3 DEF Conclude, Atomic!Commit
<1>10. ASSUME NEW t \in Thread, Reenter(t) PROVE UNCHANGED Atomic!vars
    <2>1. pc[t] = "accessing" /\ (pc' = [pc EXCEPT ![t] = "stuck"] \/ pc' = pc)
        BY <1>10 DEF Reenter
    <2>2. Phase' = Phase
        BY <1>0, <2>1, PhaseSteps DEF Moves, Phase
    <2> QED
        BY <1>10, <2>2 DEF Reenter
<1>11. ASSUME NEW t \in Thread, Raced(t) PROVE FALSE
    BY <1>0, <1>11, NoRivals DEF Raced
<1>12. ASSUME NEW t \in Thread, Release(t) PROVE Atomic!Return(t)
    <2>1. pc[t] = "releasing" /\ pc' = [pc EXCEPT ![t] = "idle"]
        BY <1>12 DEF Release
    <2>2. Phase[t] = "done" /\ Phase' = [Phase EXCEPT ![t] = "idle"]
        BY <1>0, <2>1, PhaseSteps DEF Moves, PhaseMoves
    <2> QED
        BY <1>12, <2>2 DEF Release, Atomic!Return
<1> QED
    BY <1>1, <1>2, <1>3, <1>4, <1>5, <1>6, <1>7, <1>8, <1>9, <1>10, <1>11, <1>12
       DEF Next, Step, Atomic!Next

\* Every call is atomic, the walks of filter and values included, until some closure of
\* filter has called the array it was filtering.
THEOREM LinearizableButForReentry == Spec => AtomicButForReentry
<1>1. Init => Atomic!Init
    BY InitRefines
<1>2. ArrayInv /\ [Next]_vars => [Atomic!Next \/ reentered]_(Atomic!vars)
    <2>1. CASE reentered
        BY <2>1
    <2>2. CASE ~reentered
        BY <2>2, StepRefines
    <2> QED BY <2>1, <2>2
<1> QED
    BY <1>1, <1>2, ArrayInvariance, PTL DEF Spec, AtomicButForReentry
=============================================================================
