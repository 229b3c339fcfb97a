---------------------------- MODULE StudentStore ----------------------------
(***************************************************************************)
(* What StudyWCDB does at each launch (ViewController.viewDidLoad): create *)
(* the tables Students and Score_Table, seed them when Students is empty,  *)
(* and query and join them; then seed again and join in five ways.  The    *)
(* tables survive a crash; each database call is one transaction, may fail *)
(* (the error is caught and printed), and nothing ties two calls together. *)
(*                                                                         *)
(* A row of Students is represented by its studentId, a row of Score_Table *)
(* by its stuId; the autoincremented key of a row is its position.         *)
(***************************************************************************)
EXTENDS Naturals, Sequences, FiniteSets, Functions

CONSTANTS
    Seeds,          \* the studentIds seeded, in order
    Chosen,         \* the one some queries ask for (345)
    NoCount,        \* getStuCount() = nil
    MaxLaunches,    \* bound: launches of the app
    MaxFaults       \* bound: database calls that fail

StudentAssumption ==
    /\ Seeds \in Seq(Range(Seeds)) /\ IsInjective(Seeds)
    /\ NoCount \notin Nat
    /\ MaxLaunches \in Nat /\ MaxFaults \in Nat

VARIABLES
    tables,         \* tables that exist in the database
    students,       \* rows of Students
    scores,         \* rows of Score_Table
    at,             \* next step of viewDidLoad; 0 when the app is not running
    stuCount,       \* testStuAddData's count
    scoreList,      \* selectJoinOn4 and 5: the scores queried first
    unionList,      \* selectJoinOn4 and 5: the joined rows, as <<score, student>>
    launches, faults,
    addStusFailed,  \* history: some addStus failed
    cutShort        \* history: some addScore failed, or a crash came before it

stored == <<tables, students, scores>>
locals == <<at, stuCount, scoreList, unionList>>
history == <<launches, faults, addStusFailed, cutShort>>
vars == <<stored, locals, history>>

Tables == {"Students", "Score_Table"}

\* testStu1 makes a worker and seeds (testStuAddData, which makes its own), makes a
\* worker and queries; testStu2 makes a worker, seeds again and joins in five ways.
Program ==
    <<"create", "count", "addStus", "addScore", "create", "selectBySql",
      "create", "create", "count", "addStus", "addScore",
      "selectJoinOn123", "scores4", "students4", "scores5", "students5">>

Running(step) == at \in DOMAIN Program /\ Program[at] = step

-----------------------------------------------------------------------------
Init ==
    /\ tables = {}
    /\ students = <<>>
    /\ scores = <<>>
    /\ at = 0
    /\ stuCount = NoCount
    /\ scoreList = <<>>
    /\ unionList = {}
    /\ launches = 0
    /\ faults = 0
    /\ addStusFailed = FALSE
    /\ cutShort = FALSE

Launch ==
    /\ at = 0
    /\ launches < MaxLaunches
    /\ launches' = launches + 1
    /\ at' = 1
    /\ UNCHANGED <<stored, stuCount, scoreList, unionList, faults, addStusFailed, cutShort>>

\* The process ends at any point, killed or closed.
Crash ==
    /\ at # 0
    /\ at' = 0
    /\ stuCount' = NoCount
    /\ scoreList' = <<>>
    /\ unionList' = {}
    /\ cutShort' = (cutShort \/ (Running("addScore") /\ stuCount = 0))
    /\ UNCHANGED <<stored, launches, faults, addStusFailed>>

Advance == at' = at + 1

\* A call fails when its table does not exist, and may fail for another reason.
Faulty(table) == table \notin tables \/ faults < MaxFaults
CountFault(table) == faults' = IF table \in tables THEN faults + 1 ELSE faults

\* StudentDBWorker.init: the second table is not tried when the first fails.
Create ==
    /\ Running("create")
    /\ Advance
    /\ \/ tables' = Tables /\ UNCHANGED faults
       \/ /\ faults < MaxFaults
          /\ faults' = faults + 1
          /\ \/ UNCHANGED tables
             \/ tables' = tables \cup {"Students"}
    /\ UNCHANGED <<students, scores, stuCount, scoreList, unionList,
                   launches, addStusFailed, cutShort>>

\* Mutant of Counted: an error is taken for an empty table (?? 0).
CountedOrZero(ok) == IF ok THEN Len(students) ELSE 0

\* getStuCount: nil on error.
Counted(ok) == IF ok THEN Len(students) ELSE NoCount

GetStuCount ==
    /\ Running("count")
    /\ Advance
    /\ \/ /\ "Students" \in tables
          /\ stuCount' = Counted(TRUE)
          /\ UNCHANGED faults
       \/ /\ Faulty("Students")
          /\ stuCount' = Counted(FALSE)
          /\ CountFault("Students")
    /\ UNCHANGED <<stored, scoreList, unionList, launches, addStusFailed, cutShort>>

\* Mutant of MustSeed: the count is not checked.
AlwaysSeed == TRUE

MustSeed == stuCount = 0

\* addStus: all rows or none.
AddStus ==
    /\ Running("addStus")
    /\ Advance
    /\ \/ ~MustSeed /\ UNCHANGED <<students, faults, addStusFailed>>
       \/ /\ MustSeed /\ "Students" \in tables
          /\ students' = students \o Seeds
          /\ UNCHANGED <<faults, addStusFailed>>
       \/ /\ MustSeed /\ Faulty("Students")
          /\ CountFault("Students")
          /\ addStusFailed' = TRUE
          /\ UNCHANGED students
    /\ UNCHANGED <<tables, scores, stuCount, scoreList, unionList, launches, cutShort>>

\* Mutant of ScoreRows: the last score is left out.
ScoreRowsButLast == SubSeq(Seeds, 1, Len(Seeds) - 1)

ScoreRows == Seeds

\* addScore runs whether or not addStus succeeded.
AddScore ==
    /\ Running("addScore")
    /\ Advance
    /\ stuCount' = NoCount
    /\ \/ ~MustSeed /\ UNCHANGED <<scores, faults, cutShort>>
       \/ /\ MustSeed /\ "Score_Table" \in tables
          /\ scores' = scores \o ScoreRows
          /\ UNCHANGED <<faults, cutShort>>
       \/ /\ MustSeed /\ Faulty("Score_Table")
          /\ CountFault("Score_Table")
          /\ cutShort' = TRUE
          /\ UNCHANGED scores
    /\ UNCHANGED <<tables, students, scoreList, unionList, launches, addStusFailed>>

\* selectBySql1..3 and selectJoinOn1..3: one statement each, rows printed.
Select ==
    /\ Running("selectBySql") \/ Running("selectJoinOn123")
    /\ Advance
    /\ UNCHANGED <<stored, stuCount, scoreList, unionList, history>>

-----------------------------------------------------------------------------
(* selectJoinOn4 and selectJoinOn5: two queries, joined through a           *)
(* dictionary from studentId to row, where a later row replaces an earlier. *)

\* What the SQL JOIN of selectJoinOn1 (all) or selectJoinOn2 (one student) gives.
SqlJoin(wanted) ==
    {pair \in (DOMAIN scores) \X (DOMAIN students) :
        scores[pair[1]] = students[pair[2]] /\ scores[pair[1]] \in wanted}

\* The positions in Students of the rows whose studentId is asked for.
RowsIn(ids) == {j \in DOMAIN students : students[j] \in ids}

\* Mutant of StudentsDict: keyed by the row's own id, not by studentId.
StudentsDictByRow(rows) ==
    [id \in {Seeds[j] : j \in rows \cap DOMAIN Seeds} |->
        CHOOSE j \in rows : \A k \in rows : k >= j]

StudentsDict(rows) ==
    [id \in {students[j] : j \in rows} |->
        CHOOSE j \in rows : students[j] = id /\ \A k \in rows : students[k] = id => k <= j]

Joined(list, rows) ==
    {<<i, StudentsDict(rows)[list[i]]>> : i \in {n \in DOMAIN list : list[n] \in DOMAIN StudentsDict(rows)}}

\* The first query: the positions and stuIds of the scores asked for.
QueryScores(step, wanted) ==
    /\ Running(step)
    /\ \/ /\ "Score_Table" \in tables
          /\ scoreList' = [i \in {n \in DOMAIN scores : scores[n] \in wanted} |-> scores[i]]
          /\ Advance
          /\ UNCHANGED faults
       \/ /\ Faulty("Score_Table")
          /\ CountFault("Score_Table")
          /\ at' = at + 2
          /\ UNCHANGED scoreList
    /\ unionList' = {}
    /\ UNCHANGED <<stored, stuCount, launches, addStusFailed, cutShort>>

\* The second query, for the students of those scores, and the join.
QueryStudents(step) ==
    /\ Running(step)
    /\ Advance
    /\ \/ /\ "Students" \in tables
          /\ unionList' = Joined(scoreList, RowsIn(Range(scoreList)))
          /\ UNCHANGED faults
       \/ /\ Faulty("Students")
          /\ CountFault("Students")
          /\ UNCHANGED unionList
    /\ scoreList' = <<>>
    /\ UNCHANGED <<stored, stuCount, launches, addStusFailed, cutShort>>

SelectJoinOn4 == QueryScores("scores4", Range(Seeds)) \/ QueryStudents("students4")
SelectJoinOn5 == QueryScores("scores5", {Chosen}) \/ QueryStudents("students5")

\* The last launch is over.
Finished == at = 0 /\ launches = MaxLaunches /\ UNCHANGED vars

Next ==
    \/ Launch \/ Crash \/ Finished
    \/ Create \/ GetStuCount \/ AddStus \/ AddScore \/ Select
    \/ SelectJoinOn4 \/ SelectJoinOn5

Spec == Init /\ [][Next]_vars

-----------------------------------------------------------------------------
\* Scores are stored twice only if storing the students failed before: addScore
\* runs although addStus failed, and again when the next launch finds no student.
DuplicateScoresNeedFailure == IsInjective(scores) \/ addStusFailed

\* Between addStus and addScore of one seeding, and nowhere else, a stored student
\* may lack a score; after that, only if some addScore failed or a crash came
\* before it.
GapNeedsCut ==
    ~Running("addScore") /\ ~cutShort => Range(students) \subseteq Range(scores)

\* Stored students close the matter: the only step that changes a row after
\* that is the addScore of the same seeding.  (So a gap is never filled.)
SeededDataIsStable ==
    [][students # <<>> /\ ~AddScore => UNCHANGED <<students, scores>>]_vars

\* Joining in two queries through a dictionary gives what the SQL JOIN gives.
JoinsAgree ==
    [][/\ QueryStudents("students4") /\ UNCHANGED faults /\ "Students" \in tables
            => unionList' = SqlJoin(Range(Seeds))
       /\ QueryStudents("students5") /\ UNCHANGED faults /\ "Students" \in tables
            => unionList' = SqlJoin({Chosen})]_vars
=============================================================================
