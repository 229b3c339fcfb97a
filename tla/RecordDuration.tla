--------------------------- MODULE RecordDuration ---------------------------
(***************************************************************************)
(* RecordDuration.log (RecordDuration.swift, DEBUG builds): a static       *)
(* dictionary, without a lock, keeps for each tag the times at which it    *)
(* was logged; a call prints the time since the tag's previous or first    *)
(* record.  The app logs from the main thread; the method is static and    *)
(* open to any thread, so several are modelled.                            *)
(*                                                                         *)
(* Assigning into a Swift dictionary that another thread assigns into is   *)
(* undefined; the outcome modelled is that of copy-on-write, a whole       *)
(* dictionary stored over the other's.  (A trap only ends the behaviour.)  *)
(***************************************************************************)
EXTENDS Integers, Sequences, SequencesExt

CONSTANTS
    Thread, Tag, NoTag,
    MaxTime,        \* bound: the wall clock stays in 0..MaxTime
    MaxLogs         \* bound: calls of log

LogAssumption == NoTag \notin Tag /\ MaxTime \in Nat /\ MaxLogs \in Nat

VARIABLES
    timeRecodDict,  \* times recorded for each tag; <<>> is also no entry
    clock,          \* the wall clock, in milliseconds
    pc, tag, logType,
    tagTimeList,    \* the local copy of the tag's list
    duration,
    copy,           \* the dictionary being stored by the thread
    stamps,         \* history: every time taken for each tag, in order
    overlapped      \* history: two calls were in progress at once

locals == <<pc, tag, logType, tagTimeList, duration, copy>>
vars == <<timeRecodDict, clock, locals, stamps, overlapped>>

RecordTimeType == {"firstTime", "preTime"}
NoRecords == [g \in Tag |-> <<>>]

Init ==
    /\ timeRecodDict = NoRecords
    /\ clock = 0
    /\ pc = [t \in Thread |-> "idle"]
    /\ tag = [t \in Thread |-> NoTag]
    /\ logType = [t \in Thread |-> "preTime"]
    /\ tagTimeList = [t \in Thread |-> <<>>]
    /\ duration = [t \in Thread |-> 0]
    /\ copy = [t \in Thread |-> NoRecords]
    /\ stamps = NoRecords
    /\ overlapped = FALSE

\* Date() is wall-clock time: it advances, and can be set back.
Tick ==
    /\ clock < MaxTime
    /\ clock' = clock + 1
    /\ UNCHANGED <<timeRecodDict, locals, stamps, overlapped>>

SetClockBack ==
    /\ clock > 0
    /\ clock' = clock - 1
    /\ UNCHANGED <<timeRecodDict, locals, stamps, overlapped>>

Active == {t \in Thread : pc[t] # "idle"}

\* Calls made so far: those that took their time, and those about to.
Logged ==
    FoldFunction(LAMBDA s, n : n + Len(s), 0, stamps)
        + Cardinality({t \in Thread : pc[t] = "read"})

\* Read the tag's list.
Log(t) ==
    /\ pc[t] = "idle"
    /\ Logged < MaxLogs
    /\ \E g \in Tag, type \in RecordTimeType :
        /\ tag' = [tag EXCEPT ![t] = g]
        /\ logType' = [logType EXCEPT ![t] = type]
        /\ tagTimeList' = [tagTimeList EXCEPT ![t] = timeRecodDict[g]]
    /\ pc' = [pc EXCEPT ![t] = "read"]
    /\ duration' = [duration EXCEPT ![t] = 0]
    /\ overlapped' = (overlapped \/ Active # {})
    /\ UNCHANGED <<timeRecodDict, clock, copy, stamps>>

\* Mutant of Reference: the two ways of comparing swapped.
ReferenceSwapped(list, type) == IF type = "preTime" THEN Head(list) ELSE Last(list)

\* The record compared with: the tag's last or first one, if there is one.
Reference(list, type) == IF type = "preTime" THEN Last(list) ELSE Head(list)

\* The time since that record; 0 when there is none.
DistanceToNow(list, type) == IF list = <<>> THEN 0 ELSE clock - Reference(list, type)

\* Mutant of Recorded: a comparison with the first record does not record.
RecordedIfPrevious(list, type) == IF type = "preTime" \/ list = <<>> THEN Append(list, clock) ELSE list

\* The list with this call's time, whichever the comparison.
Recorded(list, type) == Append(list, clock)

\* Take the time, compare, append.
Stamp(t) ==
    /\ pc[t] = "read"
    /\ duration' = [duration EXCEPT ![t] =
                        DistanceToNow(tagTimeList[t], logType[t])]
    /\ tagTimeList' = [tagTimeList EXCEPT ![t] = Recorded(@, logType[t])]
    /\ stamps' = [stamps EXCEPT ![tag[t]] = Append(@, clock)]
    /\ pc' = [pc EXCEPT ![t] = "stamped"]
    /\ UNCHANGED <<timeRecodDict, clock, tag, logType, copy, overlapped>>

\* Store the list back: the dictionary is copied and changed ...
StoreBegin(t) ==
    /\ pc[t] = "stamped"
    /\ copy' = [copy EXCEPT ![t] = [timeRecodDict EXCEPT ![tag[t]] = tagTimeList[t]]]
    /\ pc' = [pc EXCEPT ![t] = "storing"]
    /\ UNCHANGED <<timeRecodDict, clock, tag, logType, tagTimeList, duration,
                   stamps, overlapped>>

\* ... then put in the place of the old one; print, return.
StoreEnd(t) ==
    /\ pc[t] = "storing"
    /\ timeRecodDict' = copy[t]
    /\ pc' = [pc EXCEPT ![t] = "idle"]
    /\ tag' = [tag EXCEPT ![t] = NoTag]
    /\ logType' = [logType EXCEPT ![t] = "preTime"]
    /\ tagTimeList' = [tagTimeList EXCEPT ![t] = <<>>]
    /\ duration' = [duration EXCEPT ![t] = 0]
    /\ copy' = [copy EXCEPT ![t] = NoRecords]
    /\ UNCHANGED <<clock, stamps, overlapped>>

Next ==
    \/ Tick \/ SetClockBack
    \/ \E t \in Thread : Log(t) \/ Stamp(t) \/ StoreBegin(t) \/ StoreEnd(t)

Spec == Init /\ [][Next]_vars

-----------------------------------------------------------------------------
\* Calls that never overlap lose nothing: between calls the dictionary holds
\* every time ever taken for every tag.
NothingLostAlone == ~overlapped /\ Active = {} => timeRecodDict = stamps

\* What was printed is the time between this record and the one the comments
\* name, the tag's previous or first record, whatever other tags are logged
\* and at whatever pace the clock runs.
PrintedSinceReference ==
    [][\A t \in Thread : StoreEnd(t) /\ ~overlapped =>
            LET all == stamps[tag[t]] IN
            duration[t] = IF Len(all) = 1 THEN 0
                          ELSE Last(all) - IF logType[t] = "preTime" THEN all[Len(all) - 1]
                                                                     ELSE all[1]]_vars

=============================================================================
