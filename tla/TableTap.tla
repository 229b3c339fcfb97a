------------------------------ MODULE TableTap ------------------------------
(***************************************************************************)
(* StudyTableTap: a table whose cells are reused, gesture recognisers on   *)
(* the container of each cell, and an input menu whose closing reloads the *)
(* table.  Each of TableVC1..TableVC5 handles a tap in its own way.  The   *)
(* question is which row a handler reports: the one under the finger when  *)
(* it was lifted, or the one its cell shows by the time the handler runs.  *)
(*                                                                         *)
(* Rows count from 1 and are only ever appended, so the datum of row r     *)
(* (dataList[r - 1]) is represented by r, and nil by 0.  UIKit is          *)
(* external: dequeueing gives a row any free cell, a window of consecutive *)
(* rows is visible, and a double tap is recognised or fails at any moment. *)
(* touchesEnded, and didSelectRow that its super call leads to, reach a    *)
(* cell before the delayed tap action, the order TableVC4 relies on.  A    *)
(* long press is continuous: its action runs when it begins, as the finger *)
(* moves and when it ends or is cancelled, and no handler asks which.      *)
(***************************************************************************)
EXTENDS Naturals, Sequences, FiniteSets

CONSTANTS
    Cell,           \* the cells of the reuse pool
    Variants,       \* the view controllers that may be pushed
    Rows,           \* rows in dataList at the start (7 in the source)
    MaxRows,        \* bound: rows after the messages sent
    Tall, Short,    \* rows visible with the menu closed, open
    MaxTouches      \* bound: touches by the user

ASSUME TableAssumption ==
    /\ Variants \subseteq {"VC1", "VC2", "VC22", "VC3", "VC4", "VC5"}
    /\ {Rows, MaxRows, Tall, Short, MaxTouches} \subseteq Nat \ {0}
    /\ Rows <= MaxRows /\ Short <= Tall /\ Tall <= Cardinality(Cell)

VARIABLES
    variant,    \* the view controller pushed: it stays
    count,      \* dataList.count
    isShowing,  \* the input menu is open
    top,        \* first visible row
    rowOf,      \* the row each cell is placed at, 0 in the reuse pool
    data,       \* the cell's data
    touchData,  \* the cell's touchData (TableVC4)
    finger,     \* the touch in progress in the table, or NoFinger
    armed,      \* the tap each cell's double-tap recogniser waits to follow, or 0
    dispatched, \* closures handed to the main queue (TableVC3)
    lifted,     \* history: each touch that ended or that a long press took from
                \* the view, with the datum then under it
    still,      \* history: touches since whose start no cell was configured
    crossed,    \* history: cells touched again since they were armed
    claimed,    \* history: how many gestures took each touch and reported it
    report      \* history: what the last step reported, or NoReport

table == <<count, isShowing, top, rowOf, data>>
history == <<lifted, still, crossed, claimed, report>>
vars == <<variant, table, touchData, finger, armed, dispatched, history>>

Touch == 1..MaxTouches
NoFinger == [cell |-> "none"]
NoReport == [by |-> "none"]

\* Mutant of HasDoubleTap: the double-tap recogniser is never attached.
NoDoubleTap == FALSE

HasDoubleTap == variant # "VC1"
\* Mutant of RequiresFail: the line commented out in TableVC2.swift 67.
RequireCommentedOut == FALSE

\* tapGesture.require(toFail: doubleTapGestureRecognizer)
RequiresFail == variant \in {"VC22", "VC3", "VC4", "VC5"}

Visible(n, showing, first) ==
    first .. (IF first + (IF showing THEN Short ELSE Tall) - 1 < n
              THEN first + (IF showing THEN Short ELSE Tall) - 1 ELSE n)

\* Ways to give each of the rows a cell of its own.
Placements(rows) ==
    {p \in [Cell -> rows \cup {0}] :
        \A r \in rows : Cardinality({c \in Cell : p[c] = r}) = 1}

\* cellForRowAt on every cell that was placed anew: updateData.
Configure(placement, placedAnew) ==
    /\ rowOf' = placement
    /\ data' = [c \in Cell |-> IF c \in placedAnew THEN placement[c] ELSE data[c]]

-----------------------------------------------------------------------------
Init ==
    /\ variant \in Variants
    /\ count = Rows
    /\ isShowing = FALSE
    /\ top = 1
    /\ rowOf \in Placements(Visible(Rows, FALSE, 1))
    /\ data = rowOf
    /\ touchData = [c \in Cell |-> 0]
    /\ finger = NoFinger
    /\ armed = [c \in Cell |-> 0]
    /\ dispatched = {}
    /\ lifted = <<>>
    /\ still = {}
    /\ crossed = {}
    /\ claimed = [i \in Touch |-> 0]
    /\ report = NoReport

-----------------------------------------------------------------------------
(* The table and the menu.                                                  *)

Disturb == still' = {}

\* No handler reports anything.
Quiet == report' = NoReport /\ UNCHANGED claimed

\* reloadData: every visible row gets a cell afresh, from all of them.
Reload(n, showing) ==
    /\ \E p \in Placements(Visible(n, showing, top)) :
            Configure(p, {c \in Cell : p[c] # 0})
    /\ Disturb

\* showBtnClick: toggle, changeShow, and the block given in viewDidLoad.
ShowBtnClick ==
    /\ isShowing' = ~isShowing
    /\ Reload(count, isShowing')
    /\ UNCHANGED <<variant, count, top, touchData, finger, armed, dispatched,
                   lifted, crossed>>
    /\ Quiet

\* sendBtnClick: append a row and reload.
SendBtnClick ==
    /\ count < MaxRows
    /\ count' = count + 1
    /\ Reload(count', isShowing)
    /\ UNCHANGED <<variant, isShowing, top, touchData, finger, armed, dispatched,
                   lifted, crossed>>
    /\ Quiet

\* One row scrolls out and another in, by scrollToRow's animation or by hand:
\* the new row takes any cell that is not in sight.
Scroll ==
    \E first \in {top - 1, top + 1} \ {0} :
        LET rows == Visible(count, isShowing, first)
            stay == {c \in Cell : rowOf[c] \in rows}
        IN
        /\ first + (IF isShowing THEN Short ELSE Tall) - 1 <= count
        /\ top' = first
        /\ \E p \in Placements(rows) :
            /\ \A c \in stay : p[c] = rowOf[c]
            /\ Configure(p, {c \in Cell \ stay : p[c] # 0})
        /\ Disturb
        /\ UNCHANGED <<variant, count, isShowing, touchData, finger, armed, dispatched,
                       lifted, crossed>>
    /\ Quiet

\* hideMenu: nothing unless the menu is open.
HideMenu ==
    IF isShowing
    THEN isShowing' = FALSE /\ Reload(count, FALSE) /\ UNCHANGED <<count, top>>
    ELSE UNCHANGED <<table, still>>

\* didSelectRowAt.  TableVC22 and TableVC4 ask for the cell of the row first,
\* which is nil once the row is out of sight.
DidSelect(row) ==
    IF variant \in {"VC22", "VC4"} /\ ~\E c \in Cell : rowOf[c] = row
    THEN UNCHANGED <<table, still>>
    ELSE HideMenu

-----------------------------------------------------------------------------
(* Touches.  A touch inside the container is a "first" tap or the "second" *)
(* of a double tap; the container's recognisers do not see one "outside".  *)

\* Mutant of TouchDataAtBegan: touchesBegan does not clear touchData.
TouchDataKept(c) == touchData

TouchDataAtBegan(c) ==
    IF variant = "VC4" THEN [touchData EXCEPT ![c] = 0] ELSE touchData

\* touchesBegan; the table notes the row for didSelect.
TouchBegan(c) ==
    /\ finger = NoFinger
    /\ Len(lifted) < MaxTouches
    /\ rowOf[c] # 0
    /\ \E kind \in {"first", "outside"} \cup (IF armed[c] # 0 THEN {"second"} ELSE {}) :
            finger' = [cell |-> c, kind |-> kind, row |-> rowOf[c]]
    /\ touchData' = TouchDataAtBegan(c)
    /\ still' = still \cup {Len(lifted) + 1}
    /\ crossed' = IF armed[c] # 0 THEN crossed \cup {c} ELSE crossed
    /\ UNCHANGED <<variant, table, armed, dispatched, lifted>>
    /\ Quiet

\* A handler of cell c names a row; calm is the value of still when it runs.
Says(by, touches, said, c, calm) ==
    report' = [by |-> by, touches |-> touches, said |-> said,
               still |-> touches \subseteq calm, crossed |-> c \in crossed]

\* The handler of a gesture just recognised on these touches.
Report(by, touches, said, c, calm) ==
    /\ Says(by, touches, said, c, calm)
    /\ claimed' = [i \in Touch |-> claimed[i] + IF i \in touches THEN 1 ELSE 0]

\* Mutant of Said: data in TableVC4.
SaidData(c) == data[c]

\* What the tap, double-tap and long-press handlers print as the row.
Said(c) == IF variant = "VC4" THEN touchData[c] ELSE data[c]

\* TableVC4's handlers clear touchData when they have used it.
Consumed(c) == IF variant = "VC4" THEN [touchData EXCEPT ![c] = 0] ELSE touchData

TouchIs(c, kinds) ==
    finger # NoFinger /\ finger.cell = c /\ finger.kind \in kinds

ThisTouch == Len(lifted) + 1

Noted(inside) ==
    lifted' = Append(lifted, [under |-> data[finger.cell], inside |-> inside])

Lift(inside) == Noted(inside) /\ finger' = NoFinger

\* TableVC3 captures data in a closure, to run 1 ms later.
Dispatched(c) ==
    IF variant = "VC3"
    THEN dispatched \cup {[cell |-> c, touch |-> ThisTouch, said |-> data[c]]}
    ELSE dispatched

\* The cell's touchesEnded override, then super: didSelect.
TouchesEnded(c, inside) ==
    /\ touchData' = IF variant = "VC4" THEN [touchData EXCEPT ![c] = data[c]] ELSE touchData
    /\ dispatched' = IF inside THEN Dispatched(c) ELSE dispatched
    /\ DidSelect(finger.row)

\* The tap recogniser takes the touch from the view, or from didSelect alone.
FiresAtOnce(c) ==
    /\ Report("tap", {ThisTouch}, Said(c), c, still)
    /\ \/ DidSelect(finger.row)
       \/ UNCHANGED <<table, still>>

\* A first tap ends: it fires, or must wait for the double tap to fail.
FirstTap(c) ==
    /\ TouchIs(c, {"first"})
    /\ armed[c] = 0
    /\ Lift(TRUE)
    /\ UNCHANGED variant
    /\ armed' = IF HasDoubleTap THEN [armed EXCEPT ![c] = ThisTouch] ELSE armed
    /\ crossed' = crossed \ {c}
    /\ IF RequiresFail
       THEN TouchesEnded(c, TRUE) /\ Quiet
       ELSE FiresAtOnce(c) /\ UNCHANGED <<touchData, dispatched>>

\* The second tap ends and the double tap fires, after touchesEnded or in its
\* place (the recogniser may cancel the touch in the view).  What TableVC4
\* reports was set by touchesEnded; the others read data after the selection.
SecondTap(c) ==
    /\ TouchIs(c, {"second"})
    /\ Lift(TRUE)
    /\ armed' = [armed EXCEPT ![c] = 0]
    /\ crossed' = crossed \ {c}
    /\ touchData' = Consumed(c)
    /\ UNCHANGED variant
    /\ LET touches == {armed[c], ThisTouch} IN
       \/ /\ DidSelect(finger.row)
          /\ dispatched' = Dispatched(c)
          /\ IF variant = "VC4"
             THEN Report("doubleTap", touches, data[c], c, still)
             ELSE Report("doubleTap", touches, data'[c], c, still')
       \/ /\ Report("doubleTap", touches, Said(c), c, still)
          /\ UNCHANGED <<table, still, dispatched>>

\* A touch beside the container: no recogniser sees it.
LiftOutside(c) ==
    /\ TouchIs(c, {"outside"})
    /\ Lift(FALSE)
    /\ TouchesEnded(c, FALSE)
    /\ UNCHANGED <<variant, armed, crossed>>
    /\ Quiet

\* The finger stays down: the long press begins, takes the touch from the view
\* and its handler runs.
LongPressBegan(c) ==
    /\ HasDoubleTap
    /\ TouchIs(c, {"first", "second"})
    /\ Noted(TRUE)
    /\ finger' = [finger EXCEPT !.kind = "long"]
    /\ Report("longPress", {ThisTouch}, Said(c), c, still)
    /\ touchData' = Consumed(c)
    /\ UNCHANGED <<variant, table, armed, dispatched, still, crossed>>

\* The handler runs again for the gesture that has the touch.
LongPressAgain(c) ==
    /\ TouchIs(c, {"long"})
    /\ Says("longPress", {Len(lifted)}, Said(c), c, still)
    /\ touchData' = Consumed(c)
    /\ UNCHANGED <<variant, table, armed, dispatched, lifted, still, crossed, claimed>>

\* The finger moves, any number of times.
LongPressChanged(c) == LongPressAgain(c) /\ UNCHANGED finger

\* The finger is lifted, or the gesture cancelled.
LongPressEnded(c) == LongPressAgain(c) /\ finger' = NoFinger

\* The double tap fails: its time is over, or a touch elsewhere on the cell
\* came.  A tap that was required to wait for it fires now.
DoubleTapFails(c) ==
    /\ armed[c] # 0
    /\ ~TouchIs(c, {"second"})
    /\ armed' = [armed EXCEPT ![c] = 0]
    /\ crossed' = crossed \ {c}
    /\ IF RequiresFail
       THEN Report("tap", {armed[c]}, Said(c), c, still) /\ touchData' = Consumed(c)
       ELSE Quiet /\ UNCHANGED touchData
    /\ UNCHANGED <<variant, table, finger, dispatched, lifted, still>>

\* Mutant of Captured: the closure reads the cell when it runs.
ReadLate(d) == data[d.cell]

Captured(d) == d.said

\* The closure dispatched by TableVC3's touchesEnded: containerTapClick2.
TapClick2 ==
    \E d \in dispatched :
        /\ dispatched' = dispatched \ {d}
        /\ Report("tapClick2", {d.touch}, Captured(d), d.cell, still)
        /\ UNCHANGED <<variant, table, touchData, finger, armed, lifted, still, crossed>>

Ends(c) ==
    \/ FirstTap(c) \/ SecondTap(c) \/ LiftOutside(c)
    \/ LongPressBegan(c) \/ LongPressEnded(c)

Next ==
    \/ ShowBtnClick \/ SendBtnClick \/ Scroll \/ TapClick2
    \/ \E c \in Cell : TouchBegan(c) \/ Ends(c) \/ LongPressChanged(c) \/ DoubleTapFails(c)

Spec == Init /\ [][Next]_vars

\* What has begun goes on: while a finger is down, a double tap is awaited or a
\* closure is queued, one of them comes to its end some day: a finger that holds
\* a long press is lifted however it moves.  No other step begins more of these
\* than MaxTouches allows, so each of them does.
Fairness == WF_vars(TapClick2 \/ \E c \in Cell : Ends(c) \/ DoubleTapFails(c))

FairSpec == Spec /\ Fairness

-----------------------------------------------------------------------------
Reported == report # NoReport

Under(touches) == {lifted[i].under : i \in touches}

\* A tap handled at once (TableVC1, TableVC2), or with the data captured when
\* the finger was lifted (TableVC3), names the row under the finger, whatever
\* the selection did to the table.
PromptTapIsRight ==
    Reported /\ report.by \in {"tapClick2"} \cup (IF RequiresFail THEN {} ELSE {"tap"})
        => {report.said} = Under(report.touches)

\* A handler that reads the cell late is wrong only if the table was reloaded
\* or scrolled after the finger came down: with the menu closed and nothing
\* sent, every handler names the row the user touched (TableVC4: or nothing).
WrongOnlyIfMoved ==
    Reported /\ report.still
        => report.said \in Under(report.touches) \cup (IF variant = "VC4" THEN {0} ELSE {})

\* touchData outlives the reload that didSelect causes: TableVC4's delayed tap
\* names the row under the finger unless the same cell was touched again.
TouchDataSurvivesReload ==
    Reported /\ variant = "VC4" /\ report.by = "tap" /\ ~report.crossed
        => {report.said} = Under(report.touches)

\* Waiting for the double tap to fail keeps the gestures apart: where they are
\* the only ones to report, no touch is reported as a tap and as a double tap or
\* a long press, nor by one gesture recognised twice.  A long press reports its
\* own touch as often as its handler runs.
OneGesturePerTouch ==
    variant \in {"VC22", "VC4", "VC5"} => \A i \in Touch : claimed[i] <= 1

\* No tap is lost: again and again all touches lifted from a container so far
\* have been reported, by the tap, the double tap or the long press.
EveryTapReported ==
    []<>(\A i \in DOMAIN lifted : lifted[i].inside => claimed[i] >= 1)
=============================================================================
