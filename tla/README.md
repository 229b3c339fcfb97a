# StudyDB in TLA+

StudyDB is three small iOS applications written in Swift. Each studies one
subject: thread-safe containers and time logging, taps on reused table cells,
and a local database through WCDB. The repository carries the sources of WCDB
(C++) and of the SQLCipher it uses; the parts of them that make a database
usable by several threads are modelled as well. This directory holds TLA+ models
of what all these do, the TLC runs that check them, and the proofs TLAPS checks.

## 1. Inventory

### StudySafeDictAndTimeLog

| Component | State | Operations | Hard behaviour | What makes it correct |
|---|---|---|---|---|
| `PThreadSafeDictionary` (SafeCollection.swift 173-283) | `_elements`, an `NSMutableDictionary`; `lock`, a `pthread_rwlock_t` | subscript get and set, `count`, `keys`, `values`, `elements`, two test methods | any threads call at once; `testSetByObjectForKey` writes under the *read* lock | no conflicting accesses overlap; each call is atomic; each call returns |
| `PThreadSafeArray` (7-171) | `_elements`, `_lock` | `values`, `count`, `first`, `last`, `enumerated`, subscript, `append`, `insert`, `remove`, `filter` | bounds checks and uses under contention; early returns with the lock held; `filter` runs a client closure under the write lock | no out-of-range access, no walk over a changing array, atomic calls and a return from each, unless a closure called back |
| `RecordDuration` | static `timeRecodDict`: tag to list of times | `log` | no lock; wall clock can be set back | calls that do not overlap lose nothing; the printed duration is since the record its type names |
| screen, delegates | none | a benchmark of the above | none: sequential, main thread | – |

### StudyTableTap

| Component | State | Operations | Hard behaviour | What makes it correct |
|---|---|---|---|---|
| `BaseTableVC`, `TableVC1`, `2`, `22`, `3`, `4`, `5` and their cells | `dataList`; in each cell `data`, and `touchData` in TableVC4 | `cellForRowAt`, `didSelectRowAt`, `touchesBegan`, `touchesEnded`, tap, double tap and long press handlers, the last at each change of the press | the tap waits for the double tap to fail, and meanwhile the selection closes the menu, the table reloads and the touched cell shows another row | a handler reports the row under the finger; a touch is taken by one gesture, and each tap is reported |
| `InputMenuView` | `isShowing` | toggle, hide, send | its blocks reload the table and scroll to the last row | as above |
| chooser, `Tool` | none | push a table screen; dates; `dispatchMainAfter` | – | – |

The table and the menu call each other: the menu's two blocks reload the
table, and a selection in the table hides the menu. UIKit calls both.

### StudyWCDB

| Component | State | Operations | Hard behaviour | What makes it correct |
|---|---|---|---|---|
| student and score store | tables `Students`, `Score_Table` | create, count, add, six SQL queries, two joins in code | each launch seeds twice, in two transactions; any call may fail and is only printed; crash between calls | what a gap or a duplicate presupposes; seeded data are stable; joins agree |
| message store | tables `chats`, `chats2`, `chats3` | count, add, get for each; codecs of sub-class fields, `RefMessage`, `AtUser` | three representations of one message; hand-written codecs that call super; counts one table, fills a second, reads a third | what is stored is read back from each table; data are added only when there are none |
| web site store | table of sites | add, count, aggregates, like, search with optional conditions, paging | pages cut by row number from a table that grows, in an order that is not total; a limit that is ignored | nothing skipped; the pages of an unchanged table are the search |
| member store | one table with mirrored columns | add, all, search, update, delete | update without a condition, given an array where an object is meant; search by copies of values read from elsewhere | searching agrees with reading; a member is read as it was added; an update keeps the members |
| people, ship, book, person stores | one table each | add, select, convert | codecs; a missing column; books inserted again at each launch | round trips |

In `viewDidLoad` only the student store is called (the other calls are
commented out, ViewController.swift 22-27). The test targets are templates.

### WCDB and SQLCipher (StudyWCDB/Pods)

Each store asks WCDB's `InnerDatabase` for a handle per call. Below it:

| Component | State | Operations | Hard behaviour | What makes it correct |
|---|---|---|---|---|
| `SharedLock` (base/Lock.cpp) | counts of readers and writers, of pending readers, a queue of writers, the locking thread, holds per thread | `lockShared`, `unlockShared`, `lock`, `unlock` | made of a mutex and two conditions; nested holds; writers before readers, but not before threads that read already; spurious wakeups | a counting reader-writer lock; no lost wakeup; no starving writer |
| `HandleCounter` (core/HandleCounter.cpp) | two counts and two queues of threads | `tryIncreaseHandleCount`, `decreaseHandleCount` | two limits, two queues; a woken thread may have to change queue; entries are popped by whoever wakes | the counts are the handles that are out; nobody waits when all are back |
| `HandlePool` and `InnerDatabase` | all handles and the free ones by slot, each thread's handle and its references, `m_initialized`, the concurrency lock | `getHandle`, `initialize`, `flowOut`, `flowBack`, `purge`, `close`, `drain`, `blockade` | a handle is taken and given back in several sections; closing, purging and corruption callbacks come between; failing handles | a handle has one user; none is lost; no more alive than allowed; a closed database has none; no deadlock |
| `BusyRetryConfig` | a mirror of SQLite's locks, the waiting threads, what each tried | hooks `didPagerLockChanged`, `didShmLockChanged`, `willLock`, the busy handler's `wait` | the lock may be released between the failure to get it and the wait; the main thread goes first; time-outs | the mirror is right; no lost notification; everyone gets on |
| SQLite's locks (os_unix.c) | the file's lock by connection and inode, the shared-memory masks | `unixLock`, `posixUnlock`, `unixShmLock` | levels, PENDING left by a vain try | one writer, no reader beside it |
| `DatabasePool`, operation queue, migration, compression, repair, backup, winq, the rest of SQLCipher | see section 6 | | | not modelled |

How they interact: `getHandle` holds the pool's `SharedLock` for reading for as
long as the handle is out; `HandleCounter` makes a thread wait with one such hold;
`close` and `blockade` want it for writing. A statement run on a handle takes
SQLite's locks; when one is busy SQLite calls the busy handler, which waits in
`BusyRetryConfig` until a hook, called in another thread's unlock, notifies it.

The complete list of hazards, each at its line and with the properties that
cover it, is in PROJECT.json.

## 2. Modules

| Module | What it is | Checked by |
|---|---|---|
| RWLock | the pthread read-write lock: what threads hold, when a mode is granted, lock and unlock | in SafeDict, SafeArray |
| AtomicObject | *abstract*: an object whose calls take effect and answer at one instant between call and return | refined by SafeDict, SafeArray |
| SafeDict | PThreadSafeDictionary | MCSafeDict |
| SafeArray | PThreadSafeArray | MCSafeArray |
| RecordDuration | RecordDuration.log | MCStores |
| TableTap | the table screens with the input menu and UIKit as environment | MCTableTap |
| StudentStore | StudyWCDB's launches and the student store | MCStores |
| MessageCodec | the message classes and their three encodings: constant operators | in MessageStore |
| MessageLog | *abstract*: a log per table, appended to and read whole, or failing without effect | refined by MessageStore |
| MessageStore | MessageDBWorker | MCStores |
| MessageSeeding | `testMessage`, over MessageStore | MCMessageSeeding |
| MemberStore | MemberDBWorker and GroupMemberDBModel | MCStores |
| WebSiteStore | WebSiteDBWorker: adding, paging, searching | MCStores |
| Stores | the five components above that share nothing, side by side, and their properties | MCStores |
| ReentrantRWLock | *abstract*: a reader-writer lock whose holds are counted per thread | refined by SharedLock, used by HandlePool |
| SharedLock | WCDB's lock, section by section | MCSharedLock |
| HandleCounter | the counter of handles, section by section | MCHandleCounter, and in HandlePool |
| HandlePool | HandlePool and InnerDatabase: handles, initializing, closing; EXTENDS HandleCounter | MCHandlePool |
| SQLiteLocks | unixLock, posixUnlock, unixShmLock | in BusyRetry |
| BusyRetry | BusyRetryConfig over SQLiteLocks, with connections that read, write, roll back, checkpoint | MCBusyRetry |
| Selection | choosing from a sequence (`Only`), as a recursive function that can be proved about | in SafeArray, MemberStore, BusyRetry |
| SequenceLemmas | induction, choosing, applying a function to a sequence: lemmas | tlapm |
| SafeDictProofs, SafeArrayProofs, StoreProofs, TableTapProofs, SharedLockProofs, HandlePoolProofs, BusyRetryProofs | theorems; StoreProofs has those of MessageCodec, MessageStore, MemberStore, WebSiteStore, StudentStore and RecordDuration, HandlePoolProofs also those of HandleCounter | tlapm |

Stores puts the message, member, web site and student stores and the timing log
side by side, one of them in use in each behaviour: they share no state, and a
product would only repeat one's states for each of another's. MCStores has the
values for two runs, which differ in `Components`: all five, and the members alone for
the run that ends in a violation.

Operators under a comment "Mutant of X" are plausible bugs in the code
behind X. They are used by no specification; putting one in the place of X
makes TLC report the property PROJECT.json names with it.

### How state and actions correspond to the code

**SafeDict, SafeArray.** `elements` is `_elements` (a function from keys, with
`Nil` for no entry; a sequence). `held` is the lock. The program counter of a
thread is `idle`, `waiting` (in `pthread_rwlock_rdlock` or `wrlock`), then in the
method's body, and `releasing` (the deferred unlock). `Mode` says which lock a method
takes; nothing else keeps threads apart, and nothing in the bodies looks at the
lock. A body is several steps, so that it meets what other threads do
meanwhile unless the lock keeps them out.

In the dictionary a method that copies looks at one entry after the other
(`Look`, in any order, then `Conclude`), and an assignment writes the entry (`Store`) and
then the number of entries (`Recount`), which `count` reads: the halves of an
assignment and of a copy can be seen, and are if a method takes the wrong lock.
In the array the bounds check (`Check`) and the use of the position (`Use`)
are two steps, and the walks of `values` and `filter` visit one element per step
(`Visit`). A position that is out of range when it is used raises NSRangeException,
and a walk whose array was changed since it began may raise, as fast enumeration
does (`VisitMutated`; `stale` is the mutation counter it compares). Nothing
catches the exception, so that it ends the process (`Raise`).

Accesses that overlap, one of them a mutation, are a data race besides: `Raced` lets
one leave any content and answer from any, or raise. The closure of `filter` reads the item; with
`Reenters` it may also call the array, which POSIX lets block for ever or fail
with EDEADLK. The code ignores the status, so that the inner call's deferred
unlock releases the outer hold, and after that other threads change the array under the
walk.

**RecordDuration.** `Log` reads the list of the tag, `Stamp` takes the time,
computes the distance and appends, `StoreBegin` and `StoreEnd` put the list
back (the dictionary is copied on write, so another thread's store in between is
lost). Two threads are modelled, although the application logs from the main
thread only: the method is static and public.

**TableTap.** Rows are numbered and only ever appended, so the datum of a row is
its number. `rowOf` is where UIKit placed each cell and `data` is the cell's
field; they are two variables because a handler reads the second. `Configure`
is `cellForRowAt` on the cells that were placed anew. `ShowBtnClick`,
`SendBtnClick` and `DidSelect` are the code's handlers whole, the reload they
cause included; the animated `scrollToRow` is a series of `Scroll` steps, which
also stand for the user's scrolling. `TouchBegan`, `FirstTap`, `SecondTap`,
`LiftOutside` and the three `LongPress` actions are what the finger can do: a long press is
continuous, its handler looks at no state and runs when it begins, whenever the finger
moves and when it ends, and reports each time what its cell holds then (in TableVC4
`touchData`, which the first call clears). `claimed` counts the gestures, not the
calls, that took a touch. `DoubleTapFails` is the time-out after which the delayed tap fires, and `TapClick2` the closure that
TableVC3 gives to the main queue. `variant` says which of the six screens was
pushed; it enters only where their code differs.

**StudentStore.** `at` walks through the calls of `viewDidLoad` in their order
(`Program`). Each call is one step because WCDB runs it in one transaction (a
list of objects is inserted whole or not at all); each may fail, when its table
is missing or for any other reason. `Crash` may come between any two. A join in
code is two steps, one per query, with the dictionary of the code in between.
`Finished` is the end of the last launch.

**MessageCodec, MessageStore, MessageSeeding.** A message is its class, its
type, the members it has by its class (`sub`), the message it refers to, its id,
and the rest, which every path copies. `Own` and `Inherited` list the members by
class; `EncodeSubInfoDict` to `DecodeSubInfoModel` are what the four overrides of
each class do to them, super calls included. Members without a value have no key
in a json and a null in a column. The worker's nine queries and inserts are three
actions with the table as parameter. `sent` is a history of what was added.
MessageSeeding runs the worker's actions in the order of `testMessage`, with the
tables it really names.

**MemberStore.** `DbModel` makes the row, copies included; `BizModel` reads it.
`Overwritten` is what `update` does: WCDB has overloads whose `with:` is an object
and whose `with:` is a list of column values; the array the code passes is
encodable as one column value and so selects the latter; the row is then read back as a
member without any value (`BizModel`). A remark name is the
set of the words in it; the empty word, which every name but a null contains, is
not searched for.

**WebSiteStore.** `Matching` holds the conditions of `searchWebsites`, `Before`
its order, `Offset` and `Cut` its pages. SQL leaves the order of rows that tie
open, so `Orders` is a set. The client that scrolls is ours: the repository
offers pages and calls none. A site added again after it was read replaces its
row (`ReplaceWebSite`), since the id is the primary key.

**SharedLock.** The variables are the members of the class; `at` adds which
`wait()` a thread is in, and whether it was notified there. Each section under
the mutex is one action: `LockShared`, `Lock`, `LockAgain` up to the hold or the
wait, `WakeToRead` and `WakeToWrite` one round of the loops, `UnlockShared` and
`Unlock` with the notification they end with. The file is modelled as it is
compiled for Apple platforms, where a condition can notify a named thread.
`WakeSpuriously` may come at any time, without a bound.

**HandleCounter.** `counted` is where a thread is in `tryIncreaseHandleCount`.
The two nested loops differ in which limit they look at first, and are
`LookForHandle` and `LookForWriter`. `Tail(pendingNormals)` is the code's `pop()`
after `wait()`: it removes the front, not the thread's own entry.

**HandlePool.** The counter is the module above, EXTENDed with its variables; the
concurrency lock is ReentrantRWLock, which SharedLock implements, with the queue of
writers that gives them precedence (`MayShare`, `AtItsTurn`). `at` is where a
thread is in `getHandle`, in `flowBack` or in `close`. Each section under the
memory lock is one action. `getHandle` is `GetHandle`, then `Check`, and where
the database is not initialized `Initialize` and `InitializeBlocked`; then
`FlowOutAgain`, or `FlowOut`, `WaitForHandle`, `TakeFree` and one of
`Generate`, `GenerateFails`, `Reuse`, `ReuseFails`; `Exceeds` and `GiveUp` are the
failing ends. `flowBack` is `FlowBack`, `Unshare`, `Uncount`: freed, unlocked,
uncounted, in that order. `close` is `Close`, `Suspend`, `Drain`, `Drained`, and
`CallbackEnds`, before which the closing thread may use handles itself, as the
operations that move or remove files do; `Blockade` is its like for a corruption.
Background tasks end or go on at any time, which is what `m_closing` and
the suspension tell them; so these need no state. A background task and
a normal thread keep their handles in two slots (`SlotOf`), under one limit. (A type
of task that assembles shares the normal category though its handle is in
another slot; it is left out.) The model has no spurious wakeup of the counter:
with one, NobodyStuck fails (run handle_counter_spurious).

**SQLiteLocks.** Each thread has its own connection, as WCDB's threads do while
they use a handle. `LockFile` and `FailToLockFile` are `unixLock`, the latter with
the PENDING lock that a vain try for EXCLUSIVE leaves behind; a lock by another
process is left out. The shared-memory locks are three, READ, WRITE and CKPT:
the read marks of the WAL stand for one.

**BusyRetry.** A program is the list of locks an operation takes (`Program`), each
with what SQLite does when it is busy: try again at once (WAL_RETRY), call the
busy handler with the locks it has, give them back first and start over, or
give up. A lock changes in one step and its hook comes in a later one: `hooks` has what
the thread is about to report, and `Hook` is what `updatePagerLock` or
`updateShmLock` does with it. Between the two, others see the new lock and WCDB's old
picture of it, and a thread that found the lock busy may begin to wait. That
reports do not overtake each other is due to SQLite's mutexes, which the thread
leaves after the hook: who wants to change or try a lock needs `MutexFree`. One
mutex stands for the inode's and the shared memory's, which no journal mode uses
both of here. `OnBusy`, `Resume`
and `ResumeTimedOut` are the sections of `wait()` under `m_lock`; `TimeOut` and
`WakeSpuriously` end the wait of the condition. `waitings` keeps the
main thread first. `mainGaveUp` is a history: the main thread timed out.

## 3. Runs

The numbers are TLC's distinct states.

| Run | Shows | Bounds | States |
|---|---|---|---|
| dict | how the lock is held (`IInv`), that a race always involves `testSetByObjectForKey`, that every call, copies entry by entry included, is atomic until it overlapped a conflicting access, and that every call returns | 2 threads, 2 keys, 1 value, 2 calls each, every method | 459 736 |
| dict_test_set_race | *violated*: conflicting accesses overlap in a class named thread safe | 2 threads, 1 call each | |
| array | every method with positions below, in and above the range: until a closure calls back nothing raises between a check and its use or during a walk, and every call is atomic and returns | 2 threads, 2 items, 1 call each, an element at first | 566 099 |
| table_taps | which handlers name the row under the finger, and when the others may not; where only recognisers report no touch is taken by two gestures, however often a long press reports it; no tap is lost | six screens, 2 cells, 2 to 3 rows, 2 touches | 334 546 |
| stores | message tables read back what was added, and refine three logs; searching members agrees with reading them, and a member added and not updated since is read as it was given; pages of sites skip nothing; what seeding students twice at each launch promises under failures and crashes, and both ways to join agree; the log loses nothing of calls that do not overlap and prints the time since the record it names | 2 lists of 6 to 8 messages, 4 rows of 3 members, 3 sites, 2 students with 3 launches and 2 failures and crashes anywhere, 3 logs by 2 threads | 212 872 |
| member_update | *violated*: after an update of the members rows read back as members nobody gave | the members of stores | |
| message_seeding | *violated*: `testMessage` adds where it already has data | 2 runs, interrupted anywhere | |
| shared_lock | `IInv`: shared counts agree with the threads' holds, a writer is alone, no wakeup is lost; the lock implements ReentrantRWLock; waiting writers, and readers once writers stop, are served | 4 threads, holds nested twice, any number of spurious wakeups | 7 819 |
| handle_pool | a handle has one user and none is lost, closed ones are not used, no more are alive than allowed, nobody raises the lock it holds, a closed database is empty, nobody is stuck; closing and tasks come to their end | 2 threads, one of which closes and one of which nests, 1 task, 2 handles at most and 3 to choose from, 1 writer | 106 517 |
| handle_counter_spurious | *violated*: after one spurious wakeup a thread waits though every handle is back | 4 threads, 2 handles, 1 writer | |
| busy_retry | SQLite's locks exclude, WCDB's mirror is right, no waiter is forgotten, every operation ends | the main thread writes, one writes, rolls back or checkpoints twice, one reads; both journal modes; 1 spurious wakeup | 156 856 |
| busy_retry_self_wait | *violated*: a writer in rollback-journal mode waits for a lock it changed itself | the same | |

Why the bounds are enough. A race needs two threads, and two calls each let a
call follow a raced one. Two keys tell an assignment from an effect on the whole
dictionary. One element and a list to append give every relation of a position to
the count, and removals below it. Two cells and two rows already exchange
their rows on a reload; the third row lets both be out of place and scroll. Two
touches make a double tap, a tap crossed by another touch of the same cell, and a
tap on each cell. Three launches are needed for the longest story of the student
store: fail to store students, store scores, seed again, then find it done. Two
lists let a table hold different classes; a codec's bug shows on one message
of its class, new or full. Members before, among and after an update need three
rows. One row inserted before a page boundary already shifts the pages.
Four threads on the lock let a writer hold it, one queue and two readers wait, of
which one may nest; depth two tells a nested hold from a first. In the pool, two handles
and three threads put one thread in the queue of the counter while the others
nest, close, purge or fail; one writer's place of two makes both queues fill. Three
connections give a lock a holder, a waiter and a third that goes first.

CHECK_DEADLOCK FALSE is given in array, where a closure that calls back
really blocks, and in message_seeding, which ends with the last run.

### Findings

PROJECT.json quotes the lines. (1) `testSetByObjectForKey` mutates under the read
lock. (2) `testMessage` counts one table and fills another. (3) HandleCounter's
`pop()` after a wait assumes that the thread was notified; a thread that wakes
spuriously removes another's entry, and that one may wait for ever. (4) A writer that
could not lock EXCLUSIVE has set PENDING itself, so WCDB waits for its own lock until
the time-out, and the assertion there that another thread set it is wrong. (5) `update` of
the members has no condition and hands WCDB the list where the values of one row
belong: every row becomes a copy of the same, with a json no member is decoded from, and
the search by name with which `testMember` goes on finds none.

### Fairness and assumptions

- *Threads.* A running thread is scheduled, and a thread the lock keeps being
  free for is woken: weak fairness of each thread's steps. POSIX does not promise
  writers against a never-ending stream of readers, so in dict and array each thread
  makes finitely many calls (`MaxCalls`).
- *pthread lock.* A read hold is granted when nobody writes, a write hold when
  nobody holds; nothing is assumed about preference.
- *SharedLock.* A notified thread gets the mutex (weak fairness of `Wake`), and a
  running thread does not hold the lock for ever: both guards give their hold back at
  the end of a scope. A writer is then served against any stream of readers.
- *HandlePool.* A call under way goes on when it may; handles are recycled when
  the last reference goes; a callback of close ends unless it waits for a handle for ever.
  `TaskReturns` supposes that the database stays initialized and nobody waits to
  write: a reader can starve while initialization keeps failing.
- *BusyRetry.* Threads go on. Who wants one of SQLite's mutexes gets it although others
  take it for an instant again and again: strong fairness of each thread's
  steps. It gives no thread a lock that others can withhold for ever, since each runs
  finitely many operations (`MaxPrograms`). A time-out is only relied on where the code needs one:
  in rollback-journal mode (finding 4), and where the main thread waits. A thread
  that has the main thread before it in the list is not notified while that one's
  lock is busy (line 366), and stays so when the main thread gives up; so
  `NoLostNotification` and `EveryProgramEnds` promise nothing more once
  `mainGaveUp`; what the others' waits cost then is not covered.
- *UIKit.* While a finger is down, a double tap awaited or a closure queued, one of
  them comes to its end some day: fingers are lifted, recognisers have time-outs, and
  the main queue runs what it is given. `touchesEnded`, and the selection its
  super call leads to, come before the delayed tap action. This is what TableVC4
  was written for. A recogniser that fires at once may cancel the touch in the view
  or not; both are modelled.
- *Database.* To the stores a WCDB call is one transaction. Nothing is assumed of
  failures.

Of the counter it is not claimed that each waiting thread is served: a
newcomer may take the place that was freed for a notified one, again and again.

## 4. Proofs

Each theorem holds for all values of the constants. Each of the invariants
below is proved inductive: it holds initially, each action keeps it (one lemma per
action), and the properties the runs check follow from it.

**SafeDictProofs**, for any threads, keys, values, number of calls and choice `Op`
of methods.

| Theorem | Says |
|---|---|
| LockDiscipline, TypeCorrect | `[]IInv`, `[]TypeOK` |
| RacesBlameTestSet | `[]RacesNeedTestSet` |
| AssignmentIsAlone | `[]SubscriptSetAlone`: a subscript assignment never overlaps anything |
| LinearizableButForTestSet | `AtomicButForTestSet`: copies taken entry by entry, counts and assignments in two writes are each one step of AtomicObject, until the test setter overlapped a conflicting access |
| SafeWithoutTestSet, Linearizable | `[]ThreadSafe`, and SafeDict implements AtomicObject, assuming `"testSet" \notin Op` |

`IInv` is type correctness, that a thread in progress makes a real call, that a
thread holds the lock exactly while it is in its section and in the mode of its
call (`HoldsItsMode`), that a writer shares the lock with nobody (`WriterAlone`),
that conflicting accesses overlapped only if the test setter is used (`mixed` is the
history of it), and, until then, that each copy under way agrees with the entries
it has looked at (`CopiesAgree`) and the count with the entries unless somebody is
counting (`CountsAgree`). Two accesses that overlap hold the lock together, so both hold it for
reading, so a mutating one is the only mutator that takes the read lock, the
test setter. The assumption `"testSet" \notin Op` is needed: dict_test_set_race is
the counterexample without it.

**SafeArrayProofs**, for any threads, items, positions and choice of methods, closures
that call the array back included: ArrayInvariance (`[]ArrayInv`), NeverTraps
(`[]NoTrapButForReentry`) and LinearizableButForReentry (`AtomicButForReentry`). `ArrayInv` says
that the array stays a sequence of items whatever happens, and, until a closure calls
back, that the lock is held as in SafeDict, that a position which was checked is
still in range, that no walk goes over an array that has changed, and that what
a walk has kept is what it would choose from the elements it has visited
(`ScanFits`). All of it rests on the lock: with `remove(at:)` under the read lock
both properties fail (the mutants of the run). The last part makes a walk one atomic call: at
its end it has visited every element of the array as it still is. The assumptions are
that `Trap` and `Nil` are no items and `Trap` is no list.

**StoreProofs** has the components of Stores. Each theorem is about the
specification of one component; SharesNothing says that a behaviour of Stores is one
of each component, so that what is proved of a component holds there too. What is
assumed of the constants (StoreAssumption and CodecAssumption of the messages,
StoresAssumption of the others) is checked by TLC for the values of the runs.

*Messages*, for any values and any lists of messages: RoundTrip (each encoding,
decoded, gives back the message but for the uid and the nickname of a message it
refers to), TablesHoldEncodings (`[]IInv`: each table is the list of the encodings of
what was added), ReadBack (`[]ReadsBackKept`), Implementation (MessageStore implements
MessageLog). ReadsBackKept alone is not inductive: it says what the rows decode
to and not what they are. The assumptions are that Nil is neither a value nor a json
dictionary, and that clients add messages whose class is the one their type names, as
`MessageModel.model(messageType:)` makes them.

*Members*, for any lists and words: AddedAreRead (`[]AddedIsRead`) and SearchAgrees
(`[]SearchAgreesWithAll`). `MemberInv`: the first `updated` rows have lost their member
and each other one is the row of the member added there. A search chooses among rows and reading
chooses among members: that both give the same list in the same order is
`OnlyApplied`, that choosing and converting commute when they agree on whom to choose. It is
assumed that a member has all its properties, as the Swift structures have,
whose properties are not optional.

*Web sites*, for any sites, arguments and sizes of pages: AddingSkipsNothing
(`[]NothingSkipped`) and PagesMakeTheSearch (`[]PagesAreTheSearch`). Neither is
inductive, since both speak of the end. `RestAhead`: of a row that matched at first and was not
shown yet, at least as many matching rows are ahead as the pages loaded have
places, so it is on a later page and never on none. Adding sites only enlarges
the set ahead of a row, which is why adding skips nothing. `ShownInPlace`: on a table that does
not change, the q-th row shown has q - 1 matching rows ahead of it, which determines it.
Without ties the p-th row of every order has p - 1 rows ahead (`OrderRanks`).

*Students*, for any students, launches, failures and crashes: DuplicatesNeedFailure,
GapsNeedCut, SeededStaysAsItIs and JoinsAreSqlJoins are the four properties of the run.
`StudentInv` says by the step of the program what is stored: students all at once
(`StudentsOnce`), scores once and after their students unless addStus failed
(`ScoresOnce`), scores for every student unless storing them was cut short
(`ScoresFollow`), and that between the two queries of a join the first answer is
still that of the table (`Queried`). It is assumed that the students have
different stuIds, as ViewController gives them.

*The timing log*, for any threads and tags: NothingIsLostAlone (`[]NothingLostAlone`) and
PrintedIsSinceReference (`PrintedSinceReference`). `TimingInv`: until two calls overlap
at most one is under way, what it has read is what was recorded (`AloneAt`), and
when none is the dictionary is the history.

**TableTapProofs**, for any cells, rows and number of touches: PromptTapsRight,
StillTableIsRight, TouchDataSurvives and TouchesClaimedOnce are
`[]PromptTapIsRight`, `[]WrongOnlyIfMoved`, `[]TouchDataSurvivesReload` and
`[]OneGesturePerTouch`. What was reported says nothing about what will be, so
`TapInv` adds what the handlers still to come hold: a recogniser waits after a touch of its own
that nobody took (`ArmedFit`, `ClaimedOnce`), a cell not configured since
that touch shows what it showed (`StillShown`, and `HeldShown` while a long press lasts), TableVC4's touchData is what the touch
was on until the cell is touched again (`TouchDataKeptFor`), and a closure of TableVC3 has
captured the right datum (`ClosuresRight`).

**SharedLockProofs**, for any threads and any depth: Invariance (`[]IInv`) and
Refinement (SharedLock implements ReentrantRWLock). `IInv` is the run's invariant: the
shared counters are the sums of the threads' own, the queue is the waiting
writers, waiters hold nothing, a writer is alone, no wakeup is lost. Spurious wakeups are
among the steps; the lock survives them because its loops look at the whole condition
again. The counters are sums over all threads: `readers` is stated as the cardinality of
the set of single holds.

**HandlePoolProofs**, the counter, for any finite set of threads and any limits: CounterInvariance,
`[]CounterInv` assuming that no wakeup is spurious. Besides the counts, `CounterInv` says
that each queue holds exactly the threads that wait in it, that only its first is ever
woken, and that while one waits for a writer's place there is a writer who
will give one back (`WritersExpect`); without these `pop()` could remove the wrong entry.
The lemmas are about the counter's operations, whoever calls them.

*The pool*, for any threads, tasks, closers, references, and any limits, with
more handles than may be alive: HandlesUsedAlone, NoHandleLost, HandlesBounded,
HoldersNeverUpgrade, ClosedHasNoHandle and NoSleeperForgotten, the six invariants of the
run, from PoolInvariance. `PoolInv` adds to CounterInv that where a thread is
tells how many holds of the lock it has, whether it has a place in the counter, and
whether it has a handle (`CallFits`), and that a hold for reading means that the database is
initialized. UsedAlone rests on the close having the lock to itself;
AliveBounded on the handles in use having places in the counter, at most MaxHandles,
and on the free ones being purged when one too many is made.

**BusyRetryProofs**, for any finite set of connections and any number of operations:
ConnectionsExclude (`[]LocksExclude`), HooksMirror (`[]MirrorsLocks`) and
NobodyForgotten (`[]NoLostNotification`).
`BusyInv` adds that each thread has just the locks of its program so far (`WorkFits`,
`LevelKept`): `unixLock` relies on a connection asking for one level after the
other, and counts wrongly otherwise. HooksMirror speaks of the times when no hook is
outstanding, which is not inductive. `HooksKept` says what holds in between: at most one thread is
about to report, what it will report is what the lock is now, and every other lock is as WCDB
knows it (`FileReported`, `MasksReported`). It needs the mutex: without it two
reports may be outstanding at once and come in either order.

For the last, `WaitInv` adds that whoever waits is in the list and whoever is in the
list is in `wait()` (`ListKept`): a thread leaves it only when it is notified or
gives up, and `tryNotify` passes over nobody who could go on unless the main thread
stands first and cannot.

**SequenceLemmas.** The library states induction for operators, which the provers cannot
instantiate. Here it is stated for sets: a set that contains 0 and with n also n + 1 contains every
number (`Induction`), because < is well founded on the natural numbers and whatever is
missing would have a least element; `SequenceInduction` is the same for
Append. From it follow what `Only` chooses and in which order. For this the
models choose with `Only`, a recursive function and a set, and not with SelectSeq,
whose test is an operator.

Only model-checked: liveness (EveryCallReturns, EveryTapReported, WriterServed,
ReaderServed, CloseReturns, TaskReturns, EveryProgramEnds), which is out of the
prover's reach, and the five runs that end in a violation. Every other property of the
runs is a theorem.

## 5. What is left of the plan

1. *DatabasePool*: its map of databases under a second SharedLock, composed with
   HandlePool; the deadlock listed as a hazard at DatabasePool.cpp 111 would be its first
   property.
2. *Operation queue*: what the timers of checkpoint, backup and migration may do at once.
3. *WAL*: the five read marks one by one, recovery after a crash, and a second process.
4. Proofs: that HandlePool uses the counter and the lock as its abstract
   specifications allow, step by step; a theorem about `testMessage` for the case
   that both tables it names are one.

## 6. Not modelled

*In the applications:* layout, colours, date formats and printing; the chooser, the
benchmark screen, the application delegates and the template tests, which hold no
state that matters. The people, ship, book and person stores repeat the pattern of the message
and member stores and run nowhere by default. Of the web site store the queries
with one fixed condition and the aggregates, which change nothing and have no logic
beside their SQL, are left out.

*In WCDB:* DatabasePool (see above). The operation queue and the tasks of the configurations: in
HandlePool they are threads that may ask for a handle, purge, or stop at any time.
Migration and compression rewrite SQL text over the schemas of two databases, repair
parses pages, backup copies rows, winq builds SQL text: their state is text and
contents that no small instance represents faithfully. Of HandlePool: in-memory
databases, handles bound to a transaction (`m_transactionedHandles`), the slots of
the tasks that assemble, migrate or vacuum. A nested request may write with a handle
that was counted as a reader's, so the limit of writers counts requests, not writes;
the model keeps the first request's hint, as the counter does. A thread waiting for a handle
has no priority over a newcomer.

*In SQLCipher:* the generic engine (parser, planner, virtual machine, b-tree, pager,
full-text search, encryption). The stores take from it that one call is one
transaction; BusyRetry takes the order in which it locks. Other processes, recovery,
hot journals, checkpoint modes and downgrading a lock to SHARED are left out.

By lines nearly all of the C and C++ in the repository is this engine and the
rest of WCDB, third-party code of almost 300 000 lines, while the applications are Swift;
the models cover the applications' logic and the part of WCDB on which it depends
for being called from several threads, a small share by lines. Mapping more of
the engine would not say more about this program.
