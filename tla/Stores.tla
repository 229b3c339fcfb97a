------------------------------- MODULE Stores -------------------------------
(***************************************************************************)
(* The components that share nothing with each other: the message, member, *)
(* web site and student stores of StudyWCDB, each with tables of its own,  *)
(* and the timing log.  In a behaviour one of them is in use: a product    *)
(* would only repeat, for every state of one, what another does.           *)
(***************************************************************************)
EXTENDS MessageStore, Integers

CONSTANTS
    Components,                                                     \* those of interest
    MemberLists, Words, NewInfo, Array, MaxMembers,                 \* MemberStore's
    SiteBatches, WordsIn, Requests, PlainRequests, MaxSites,        \* WebSiteStore's
    Seeds, Chosen, NoCount, MaxLaunches, MaxFaults,                 \* StudentStore's
    Thread, Tag, NoTag, MaxTime, MaxLogs                            \* RecordDuration's

VARIABLES
    inUse,          \* the component this behaviour is about
    created, members, memberAnswer, added, updated,
    webSites, plain, scroll,
    studentTables, students, scores, at, stuCount, scoreList, unionList,
    launches, faults, addStusFailed, cutShort,
    timeRecodDict, clock, pc, tag, logType, tagTimeList, duration, copy, stamps, overlapped

memberVars == <<created, members, memberAnswer, added, updated>>
siteVars == <<webSites, plain, scroll>>
studentVars ==
    <<studentTables, students, scores, at, stuCount, scoreList, unionList,
      launches, faults, addStusFailed, cutShort>>
timingVars == <<timeRecodDict, clock, pc, tag, logType, tagTimeList, duration, copy, stamps, overlapped>>

Members ==
    INSTANCE MemberStore WITH
        rows <- members, answer <- memberAnswer, Lists <- MemberLists, MaxRows <- MaxMembers

WebSites ==
    INSTANCE WebSiteStore WITH
        rows <- webSites, Batches <- SiteBatches, MaxRows <- MaxSites

Students == INSTANCE StudentStore WITH tables <- studentTables

Timing == INSTANCE RecordDuration

storesVars == <<inUse, vars, memberVars, siteVars, studentVars, timingVars>>

ASSUME StoresAssumption ==
    /\ Components \subseteq {"messages", "members", "webSites", "students", "timing"}
    /\ Members!MemberAssumption
    /\ WebSites!WebSiteAssumption
    /\ Students!StudentAssumption
    /\ Timing!LogAssumption

-----------------------------------------------------------------------------
StoresInit ==
    /\ inUse \in Components
    /\ Init /\ Members!Init /\ WebSites!Init /\ Students!Init /\ Timing!Init

Uses(component) == inUse = component /\ UNCHANGED inUse

StoresNext ==
    \/ /\ Uses("messages") /\ Next
       /\ UNCHANGED <<memberVars, siteVars, studentVars, timingVars>>
    \/ /\ Uses("members") /\ Members!Next
       /\ UNCHANGED <<vars, siteVars, studentVars, timingVars>>
    \/ /\ Uses("webSites") /\ WebSites!Next
       /\ UNCHANGED <<vars, memberVars, studentVars, timingVars>>
    \/ /\ Uses("students") /\ Students!Next
       /\ UNCHANGED <<vars, memberVars, siteVars, timingVars>>
    \/ /\ Uses("timing") /\ Timing!Next
       /\ UNCHANGED <<vars, memberVars, siteVars, studentVars>>

StoresSpec == StoresInit /\ [][StoresNext]_storesVars

-----------------------------------------------------------------------------
\* Searching for a word by the copied column finds exactly the members that reading
\* them all shows with that word in their name (MemberStore).
SearchAgreesWithAll == Members!SearchAgreesWithAll

\* Members not updated since they were added are read back as they were added
\* (MemberStore).
AddedIsRead == Members!AddedIsRead

\* An update leaves members that some client gave (MemberStore).
UpdateKeepsMembers == Members!UpdateKeepsMembers

\* Whoever scrolls to the end has seen every row that matched when it began
\* (WebSiteStore).
NothingSkipped == WebSites!NothingSkipped

\* The pages of a table that does not change are the search (WebSiteStore).
PagesAreTheSearch == WebSites!PagesAreTheSearch

\* Scores are stored twice only if storing the students failed before (StudentStore).
DuplicateScoresNeedFailure == Students!DuplicateScoresNeedFailure

\* A stored student lacks a score only while it is being stored or when that was cut
\* short (StudentStore).
GapNeedsCut == Students!GapNeedsCut

\* Once students are stored only addScore changes a row (StudentStore).
SeededDataIsStable == Students!SeededDataIsStable

\* Joining in two queries through a dictionary gives what the SQL JOIN gives
\* (StudentStore).
JoinsAgree == Students!JoinsAgree

\* Calls of the log that never overlap lose nothing (RecordDuration).
NothingLostAlone == Timing!NothingLostAlone

\* What is printed is the time since the record named (RecordDuration).
PrintedSinceReference == Timing!PrintedSinceReference
=============================================================================
