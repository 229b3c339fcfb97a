--------------------------- MODULE MessageSeeding ---------------------------
(***************************************************************************)
(* ViewController.testMessage: make a MessageDBWorker, add ten messages if *)
(* there are none, and query the messages.  It counts with getMsgCount2,   *)
(* adds with addMessages and queries with getMessages3, three different    *)
(* tables.  (viewDidLoad has its call commented out.)                      *)
(***************************************************************************)
EXTENDS MessageStore

CONSTANT MaxRuns    \* bound: runs of testMessage

VARIABLES
    at,     \* the next call of testMessage, or "idle"
    runs    \* how often it was run

seedVars == <<vars, at, runs>>

SeedInit == Init /\ at = "idle" /\ runs = 0

Goes(from, to) == at = from /\ at' = to /\ UNCHANGED runs

Start ==
    /\ at = "idle"
    /\ runs < MaxRuns
    /\ runs' = runs + 1
    /\ at' = "count"
    /\ Create

CountFamily == 2
AddFamily == 1
QueryFamily == 3

\* if let count = worker.getMsgCount2(), count == 0
CountFirst ==
    /\ GetMsgCount(CountFamily)
    /\ Goes("count", IF answer'.value = 0 THEN "add" ELSE "query")

AddTen ==
    /\ Goes("add", "query")
    /\ \E msgs \in Batches : AddMessages(AddFamily, msgs)

Query ==
    /\ Goes("query", "idle")
    /\ GetMessages(QueryFamily)

\* The process ends in the middle.
Quit ==
    /\ at # "idle"
    /\ at' = "idle"
    /\ UNCHANGED <<vars, runs>>

SeedNext == Start \/ CountFirst \/ AddTen \/ Query \/ Quit

SeedSpec == SeedInit /\ [][SeedNext]_seedVars

-----------------------------------------------------------------------------
\* The comment on the branch that adds: there are no data, so add some.  (That is,
\* it adds to a table only when the table is empty.)
AddsOnlyWhenEmpty ==
    [][\A f \in Family : rows'[f] # rows[f] => rows[f] = <<>>]_seedVars
=============================================================================
