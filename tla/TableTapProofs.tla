---------------------------- MODULE TableTapProofs ----------------------------
(***************************************************************************)
(* Proofs about the taps on StudyTableTap's cells, for any cells, rows and *)
(* any number of touches.                                                  *)
(***************************************************************************)
EXTENDS TableTap, TLAPS

Lifted == [under : Nat, inside : BOOLEAN]

TapTyped ==
    /\ data \in [Cell -> Nat] /\ touchData \in [Cell -> Nat] /\ armed \in [Cell -> Nat]
    /\ lifted \in Seq(Lifted)
    /\ claimed \in [Touch -> Nat]
    /\ top \in Nat \ {0}

\* A finger on the table is on a cell, and its touch is still to come to its end
\* unless a long press has taken it.
FingerFits ==
    finger # NoFinger =>
        /\ finger = [cell |-> finger.cell, kind |-> finger.kind, row |-> finger.row]
        /\ finger.cell \in Cell
        /\ finger.kind # "long" => Len(lifted) < MaxTouches
        /\ finger.kind = "second" => armed[finger.cell] # 0
        /\ armed[finger.cell] # 0 => finger.cell \in crossed
        /\ variant = "VC4" => touchData[finger.cell] = 0

\* What the touch that armed the recogniser of cell c was on.
UnderArmed(c) == lifted[armed[c]].under

\* A recogniser waits after a touch of its own.
ArmedFit ==
    /\ \A c \in Cell : armed[c] # 0 => armed[c] \in 1..Len(lifted)
    /\ \A c, d \in Cell : armed[c] # 0 /\ armed[c] = armed[d] => c = d

\* Since a touch that is still, its cell shows what it showed.
StillShown ==
    \A c \in Cell : armed[c] # 0 /\ armed[c] \in still =>
        /\ data[c] = UnderArmed(c)
        /\ variant = "VC4" => touchData[c] \in {0, UnderArmed(c)}

\* TableVC4 keeps what the touch was on, until the cell is touched again.
TouchDataKeptFor ==
    variant = "VC4" =>
        \A c \in Cell : armed[c] # 0 /\ c \notin crossed => touchData[c] = UnderArmed(c)

\* A cell under a long press shows what it showed, if it was not configured.
HeldShown ==
    finger # NoFinger /\ finger.kind = "long" /\ Len(lifted) \in still =>
        data[finger.cell] = lifted[Len(lifted)].under

\* The closures of TableVC3 have captured what their touches were on.
ClosuresRight ==
    /\ \A d \in dispatched : d.touch \in 1..Len(lifted) /\ d.said = lifted[d.touch].under
    /\ variant # "VC3" => dispatched = {}

\* A touch that did not end, or that a recogniser waits to report, was not claimed.
ClaimedOnce ==
    variant \in {"VC22", "VC4", "VC5"} =>
        /\ \A i \in Touch : claimed[i] <= 1 /\ (i > Len(lifted) => claimed[i] = 0)
        /\ \A c \in Cell : armed[c] \in Touch => claimed[armed[c]] = 0

ReportRight == PromptTapIsRight /\ WrongOnlyIfMoved /\ TouchDataSurvivesReload

TapInv ==
    /\ TapTyped /\ FingerFits /\ ArmedFit /\ StillShown /\ HeldShown /\ TouchDataKeptFor
    /\ ClosuresRight /\ ClaimedOnce /\ ReportRight

-----------------------------------------------------------------------------
(* Reports.                                                                 *)

\* What a report says.
LEMMA ReportSays ==
    ASSUME NEW by, NEW touches, NEW said, NEW c, NEW calm, Says(by, touches, said, c, calm)
    PROVE  /\ report'.by = by /\ report'.touches = touches /\ report'.said = said
           /\ report'.still <=> touches \subseteq calm
           /\ report'.crossed <=> c \in crossed
<1>1. report' = [by |-> by, touches |-> touches, said |-> said,
                 still |-> touches \subseteq calm, crossed |-> c \in crossed]
    BY DEF Says
<1>2. report'.by = by /\ report'.touches = touches /\ report'.said = said
    BY <1>1
<1>3. report'.still = (touches \subseteq calm) /\ report'.crossed = (c \in crossed)
    BY <1>1, Zenon
<1> QED
    BY <1>2, <1>3

\* A report is right if it names what its touches were on whenever it must.
LEMMA RightReport ==
    ASSUME NEW by, NEW touches, NEW said, NEW c, NEW calm,
           Says(by, touches, said, c, calm), UNCHANGED variant,
           by = "tapClick2" \/ (by = "tap" /\ ~RequiresFail) => {said} = Under(touches)',
           touches \subseteq calm =>
                said \in Under(touches)' \/ (variant = "VC4" /\ said = 0),
           variant = "VC4" /\ by = "tap" /\ c \notin crossed => {said} = Under(touches)'
    PROVE  ReportRight'
<1>1. /\ report'.by = by /\ report'.touches = touches /\ report'.said = said
      /\ report'.still <=> touches \subseteq calm
      /\ report'.crossed <=> c \in crossed
    BY ReportSays
<1>2. PromptTapIsRight'
    BY <1>1 DEF PromptTapIsRight, RequiresFail, Under
<1>3. WrongOnlyIfMoved'
    BY <1>1 DEF WrongOnlyIfMoved, Under
<1>4. TouchDataSurvivesReload'
    BY <1>1 DEF TouchDataSurvivesReload, Under
<1> QED
    BY <1>2, <1>3, <1>4 DEF ReportRight

\* A step that reports nothing reports nothing wrong.
LEMMA QuietIsRight ==
    ASSUME Quiet PROVE ReportRight'
BY DEF Quiet, ReportRight, Reported, PromptTapIsRight, WrongOnlyIfMoved, TouchDataSurvivesReload

\* What one touch was on.
LEMMA UnderOne ==
    ASSUME NEW i PROVE Under({i})' = {lifted'[i].under}
BY DEF Under

-----------------------------------------------------------------------------
(* The table.                                                               *)

\* A placement puts cells at rows.
LEMMA PlacementsTyped ==
    ASSUME NEW rows \in SUBSET Nat, NEW p \in Placements(rows)
    PROVE  p \in [Cell -> Nat]
<1>1. p \in [Cell -> rows \cup {0}]
    BY Zenon DEF Placements
<1>2. rows \cup {0} \subseteq Nat
    OBVIOUS
<1> QED
    BY <1>1, <1>2

\* Configured cells show rows.
LEMMA ConfigureTyped ==
    ASSUME NEW rows \in SUBSET Nat, NEW p \in Placements(rows), NEW S,
           data \in [Cell -> Nat], Configure(p, S)
    PROVE  data' \in [Cell -> Nat]
BY PlacementsTyped DEF Configure

\* Visible rows are numbers.
LEMMA VisibleRows ==
    ASSUME NEW n, NEW showing, NEW first \in Nat
    PROVE  Visible(n, showing, first) \in SUBSET Nat
BY DEF Visible

\* reloadData leaves rows in the cells and ends all stillness.
LEMMA ReloadMoves ==
    ASSUME TapTyped, NEW n, NEW showing, Reload(n, showing)
    PROVE  data' \in [Cell -> Nat] /\ still' = {}
<1>1. PICK p \in Placements(Visible(n, showing, top)) : Configure(p, {c \in Cell : p[c] # 0})
    BY DEF Reload
<1>2. data' \in [Cell -> Nat]
    BY <1>1, VisibleRows, ConfigureTyped DEF TapTyped
<1> QED
    BY <1>2 DEF Reload, Disturb

\* The selection of a row leaves the cells as they are or ends all stillness.
LEMMA DidSelectMoves ==
    ASSUME TapTyped, NEW row, DidSelect(row)
    PROVE  /\ data' \in [Cell -> Nat] /\ top' = top
           /\ UNCHANGED <<data, still>> \/ still' = {}
<1>1. CASE UNCHANGED <<table, still>>
    BY <1>1 DEF table, TapTyped
<1>2. CASE HideMenu /\ isShowing
    BY <1>2, ReloadMoves DEF HideMenu
<1> QED
    BY <1>1, <1>2 DEF DidSelect, HideMenu

-----------------------------------------------------------------------------
(* The steps.                                                               *)

\* The invariant speaks of the touches that ended; one more leaves the others.
LEMMA LiftedOneMore ==
    ASSUME TapTyped, NEW x \in Lifted, lifted' = Append(lifted, x)
    PROVE  /\ lifted' \in Seq(Lifted) /\ Len(lifted') = Len(lifted) + 1
           /\ lifted'[Len(lifted) + 1] = x
           /\ \A i \in 1..Len(lifted) : lifted'[i] = lifted[i]
           /\ Len(lifted) \in Nat
BY DEF TapTyped

\* A step that moves the table and nothing else.
LEMMA TableMoves ==
    ASSUME TapInv, data' \in [Cell -> Nat], top' \in Nat \ {0}, still' = {},
           UNCHANGED <<variant, touchData, finger, armed, dispatched, lifted, crossed>>, Quiet
    PROVE  TapInv'
<1> USE DEF TapInv
<1>1. claimed' = claimed /\ ReportRight'
    BY QuietIsRight DEF Quiet
<1>2. TapTyped'
    BY <1>1 DEF TapTyped
<1>3. FingerFits' /\ ArmedFit'
    BY DEF FingerFits, ArmedFit
<1>4. StillShown' /\ HeldShown' /\ TouchDataKeptFor'
    BY DEF StillShown, HeldShown, TouchDataKeptFor, UnderArmed
<1>5. ClosuresRight' /\ ClaimedOnce'
    BY <1>1 DEF ClosuresRight, ClaimedOnce
<1> QED
    BY <1>1, <1>2, <1>3, <1>4, <1>5

\* The menu button, the send button and scrolling.
LEMMA ShowSendScrollKeep ==
    ASSUME TapInv, ShowBtnClick \/ SendBtnClick \/ Scroll
    PROVE  TapInv'
<1>1. CASE ShowBtnClick
    <2>1. data' \in [Cell -> Nat] /\ still' = {}
        BY <1>1, ReloadMoves DEF ShowBtnClick, TapInv
    <2> QED BY <1>1, <2>1, TableMoves DEF ShowBtnClick, TapInv, TapTyped
<1>2. CASE SendBtnClick
    <2>1. data' \in [Cell -> Nat] /\ still' = {}
        BY <1>2, ReloadMoves DEF SendBtnClick, TapInv
    <2> QED BY <1>2, <2>1, TableMoves DEF SendBtnClick, TapInv, TapTyped
<1>3. CASE Scroll
    <2>1. PICK first \in {top - 1, top + 1} \ {0} :
            LET rows == Visible(count, isShowing, first)
                stay == {c \in Cell : rowOf[c] \in rows}
            IN
            /\ top' = first
            /\ \E p \in Placements(rows) : Configure(p, {c \in Cell \ stay : p[c] # 0})
            /\ Disturb
            /\ UNCHANGED <<variant, count, isShowing, touchData, finger, armed, dispatched,
                           lifted, crossed>>
        BY <1>3 DEF Scroll
    <2>2. first \in Nat \ {0}
        <3>1. top \in Nat \ {0}
            BY DEF TapInv, TapTyped
        <3> QED BY <3>1
    <2>3. data' \in [Cell -> Nat]
        BY <2>1, <2>2, VisibleRows, ConfigureTyped DEF TapInv, TapTyped
    <2>4. Quiet
        BY <1>3 DEF Scroll
    <2> QED BY <2>1, <2>2, <2>3, <2>4, TableMoves DEF Disturb
<1> QED
    BY <1>1, <1>2, <1>3

\* touchesBegan clears TableVC4's touchData: its cell counts as crossed from then on.
LEMMA TouchBeganKeeps ==
    ASSUME TapInv, NEW c \in Cell, TouchBegan(c)
    PROVE  TapInv'
<1> USE DEF TapInv
<1>1. /\ UNCHANGED <<variant, table, armed, dispatched, lifted>>
      /\ touchData' = IF variant = "VC4" THEN [touchData EXCEPT ![c] = 0] ELSE touchData
      /\ still' = still \cup {Len(lifted) + 1}
      /\ crossed' = IF armed[c] # 0 THEN crossed \cup {c} ELSE crossed
      /\ Len(lifted) < MaxTouches
    BY DEF TouchBegan, TouchDataAtBegan
<1>2. PICK kind \in {"first", "outside"} \cup (IF armed[c] # 0 THEN {"second"} ELSE {}) :
            finger' = [cell |-> c, kind |-> kind, row |-> rowOf[c]]
    BY DEF TouchBegan
<1>3. /\ finger' = [cell |-> finger'.cell, kind |-> finger'.kind, row |-> finger'.row]
      /\ finger'.cell = c /\ finger'.kind # "long"
      /\ finger'.kind = "second" => armed[c] # 0
    BY <1>2
<1>4. claimed' = claimed /\ ReportRight'
    BY QuietIsRight DEF TouchBegan, Quiet
<1>5. touchData' \in [Cell -> Nat] /\ (variant = "VC4" => touchData'[c] = 0)
      /\ \A d \in Cell : d # c => touchData'[d] = touchData[d]
    BY <1>1 DEF TapTyped
<1>6. TapTyped'
    BY <1>1, <1>4, <1>5 DEF TapTyped, table
<1>7. FingerFits' /\ HeldShown'
    BY <1>1, <1>3, <1>5 DEF FingerFits, HeldShown
<1>8. ArmedFit'
    BY <1>1 DEF ArmedFit
<1>9. StillShown'
    <2> SUFFICES ASSUME NEW d \in Cell, armed[d] # 0, armed[d] \in still'
                 PROVE  /\ data'[d] = lifted[armed[d]].under
                        /\ variant = "VC4" => touchData'[d] \in {0, lifted[armed[d]].under}
        BY <1>1 DEF StillShown, UnderArmed
    <2>1. armed[d] \in still
        BY <1>1 DEF ArmedFit, TapTyped
    <2>2. data'[d] = data[d]
        BY <1>1 DEF table
    <2> QED BY <1>5, <2>1, <2>2 DEF StillShown, UnderArmed
<1>10. TouchDataKeptFor'
    BY <1>1, <1>5 DEF TouchDataKeptFor, UnderArmed
<1>11. ClosuresRight' /\ ClaimedOnce'
    BY <1>1, <1>4 DEF ClosuresRight, ClaimedOnce
<1> QED
    BY <1>4, <1>6, <1>7, <1>8, <1>9, <1>10, <1>11

\* TableVC3's closure says what it captured.
LEMMA TapClick2Keeps ==
    ASSUME TapInv, TapClick2
    PROVE  TapInv'
<1> USE DEF TapInv
<1>1. PICK d \in dispatched :
        /\ dispatched' = dispatched \ {d}
        /\ Report("tapClick2", {d.touch}, d.said, d.cell, still)
        /\ UNCHANGED <<variant, table, touchData, finger, armed, lifted, still, crossed>>
    BY DEF TapClick2, Captured
<1>2. {d.said} = Under({d.touch})'
    BY <1>1, UnderOne DEF ClosuresRight
<1>3. ReportRight'
    BY <1>1, <1>2, RightReport DEF Report
<1>4. variant = "VC3"
    BY <1>1 DEF ClosuresRight
<1>5. claimed' \in [Touch -> Nat]
    BY <1>1 DEF Report, TapTyped
<1>6. TapTyped'
    BY <1>1, <1>5 DEF TapTyped, table
<1>7. FingerFits' /\ ArmedFit'
    BY <1>1 DEF FingerFits, ArmedFit
<1>8. StillShown' /\ HeldShown' /\ TouchDataKeptFor'
    BY <1>1 DEF StillShown, HeldShown, TouchDataKeptFor, UnderArmed, table
<1>9. ClosuresRight' /\ ClaimedOnce'
    BY <1>1, <1>4 DEF ClosuresRight, ClaimedOnce
<1> QED
    BY <1>3, <1>6, <1>7, <1>8, <1>9

\* A touch that ends on cell c, whatever its handlers do.
LEMMA LiftKeeps ==
    ASSUME TapInv, NEW c \in Cell, finger # NoFinger, finger.cell = c,
           NEW inside \in BOOLEAN, Noted(inside), UNCHANGED variant,
           UNCHANGED <<data, still>> \/ still' = {},
           \A d \in Cell : d # c => armed'[d] = armed[d] /\ touchData'[d] = touchData[d],
           armed'[c] \in {0, armed[c], Len(lifted) + 1},
           variant = "VC4" => touchData'[c] \in {0, data[c]},
           crossed' \subseteq crossed, crossed \ crossed' \subseteq {c},
           armed'[c] = armed[c] /\ armed[c] # 0 => c \in crossed',
           variant = "VC4" /\ armed'[c] = Len(lifted) + 1 => touchData'[c] = data[c]
    PROVE  ArmedFit' /\ StillShown' /\ TouchDataKeptFor'
<1> USE DEF TapInv
<1> DEFINE n == Len(lifted) + 1
           x == [under |-> data[c], inside |-> inside]
<1>1. x \in Lifted /\ lifted' = Append(lifted, x)
    BY DEF Noted, Lifted, TapTyped
<1>2. x.under = data[c]
    OBVIOUS
<1> HIDE DEF x
<1>3. /\ Len(lifted') = n /\ lifted'[n] = x /\ Len(lifted) \in Nat
      /\ \A i \in 1..Len(lifted) : lifted'[i] = lifted[i]
    BY <1>1, LiftedOneMore
<1>5. \A d \in Cell : armed[d] # 0 => armed[d] \in 1..Len(lifted) /\ armed[d] # n
    BY <1>3 DEF ArmedFit
<1>6. ArmedFit'
    <2>1. ASSUME NEW d \in Cell, armed'[d] # 0 PROVE armed'[d] \in 1..n
        BY <1>3, <1>5, <2>1
    <2>2. ASSUME NEW d \in Cell, NEW e \in Cell, armed'[d] # 0, armed'[d] = armed'[e]
          PROVE  d = e
        BY <1>5, <2>2 DEF ArmedFit
    <2> QED BY <1>3, <2>1, <2>2 DEF ArmedFit
<1>7. \A d \in Cell : armed'[d] # 0 /\ (d # c \/ armed'[d] # n) =>
                        armed'[d] = armed[d] /\ UnderArmed(d)' = UnderArmed(d)
    <2> SUFFICES ASSUME NEW d \in Cell, armed'[d] # 0, d # c \/ armed'[d] # n
                 PROVE  armed'[d] = armed[d] /\ lifted'[armed'[d]].under = lifted[armed[d]].under
        BY DEF UnderArmed
    <2>1. armed'[d] = armed[d]
        OBVIOUS
    <2>2. lifted'[armed[d]] = lifted[armed[d]]
        BY <1>3, <1>5, <2>1
    <2> QED BY <2>1, <2>2
<1>8. armed'[c] = n => UnderArmed(c)' = data[c]
    BY <1>2, <1>3 DEF UnderArmed
<1> HIDE DEF n
<1>9. StillShown'
    <2> SUFFICES ASSUME NEW d \in Cell, armed'[d] # 0, armed'[d] \in still'
                 PROVE  /\ data'[d] = UnderArmed(d)'
                        /\ variant = "VC4" => touchData'[d] \in {0, UnderArmed(d)'}
        BY DEF StillShown
    <2>1. UNCHANGED <<data, still>>
        OBVIOUS
    <2>2. CASE d = c /\ armed'[c] = n
        BY <1>8, <2>1, <2>2
    <2>3. CASE d # c \/ armed'[c] # n
        <3>1. armed'[d] = armed[d] /\ UnderArmed(d)' = UnderArmed(d)
            BY <1>7, <2>3
        <3>2. /\ data[d] = UnderArmed(d)
              /\ variant = "VC4" => touchData[d] \in {0, UnderArmed(d)}
            BY <2>1, <3>1 DEF StillShown
        <3> QED BY <2>1, <3>1, <3>2
    <2> QED BY <2>2, <2>3
<1>10. TouchDataKeptFor'
    <2> SUFFICES ASSUME variant = "VC4", NEW d \in Cell, armed'[d] # 0, d \notin crossed'
                 PROVE  touchData'[d] = UnderArmed(d)'
        BY DEF TouchDataKeptFor
    <2>1. CASE d = c /\ armed'[c] = n
        BY <1>8, <2>1 DEF n
    <2>2. CASE d = c /\ armed'[c] # n
        BY <1>7, <2>2
    <2>3. CASE d # c
        <3>1. armed'[d] = armed[d] /\ UnderArmed(d)' = UnderArmed(d) /\ d \notin crossed
            BY <1>7, <2>3
        <3> QED BY <2>3, <3>1 DEF TouchDataKeptFor
    <2> QED BY <2>1, <2>2, <2>3
<1> QED
    BY <1>6, <1>9, <1>10

\* No finger is left on the table.
LEMMA LiftedFits ==
    ASSUME finger' = NoFinger PROVE FingerFits' /\ HeldShown'
BY DEF FingerFits, HeldShown

\* The closures, with the one of the touch that ends.
LEMMA ClosuresKeep ==
    ASSUME TapInv, NEW c \in Cell, finger.cell = c, NEW inside \in BOOLEAN, Noted(inside),
           UNCHANGED variant, dispatched' = dispatched \/ dispatched' = Dispatched(c)
    PROVE  ClosuresRight'
<1> USE DEF TapInv
<1> DEFINE n == Len(lifted) + 1
           x == [under |-> data[c], inside |-> inside]
           e == [cell |-> c, touch |-> n, said |-> data[c]]
<1>1. x \in Lifted /\ lifted' = Append(lifted, x)
    BY DEF Noted, Lifted, TapTyped
<1>2. x.under = data[c] /\ e.touch = n /\ e.said = data[c]
    OBVIOUS
<1>3. dispatched' \subseteq dispatched \cup {e} /\ (variant # "VC3" => dispatched' = {})
    BY DEF Dispatched, ThisTouch, ClosuresRight
<1> HIDE DEF x, e
<1>4. /\ Len(lifted') = n /\ lifted'[n] = x /\ Len(lifted) \in Nat
      /\ \A i \in 1..Len(lifted) : lifted'[i] = lifted[i]
    BY <1>1, LiftedOneMore
<1>5. ASSUME NEW d \in dispatched'
      PROVE  d.touch \in 1..Len(lifted') /\ d.said = lifted'[d.touch].under
    <2>1. CASE d = e
        BY <1>2, <1>4, <2>1
    <2>2. CASE d \in dispatched
        <3>1. d.touch \in 1..Len(lifted) /\ d.said = lifted[d.touch].under
            BY <2>2 DEF ClosuresRight
        <3> QED BY <1>4, <3>1
    <2> QED BY <1>3, <2>1, <2>2
<1> QED
    BY <1>3, <1>5 DEF ClosuresRight

\* Touches that were not claimed, and no recogniser waits to report, may be.
LEMMA ClaimsOnce ==
    ASSUME TapTyped, ClaimedOnce, NEW touches, UNCHANGED variant,
           Len(lifted') \in Nat, Len(lifted) <= Len(lifted'),
           claimed' = [i \in Touch |-> claimed[i] + IF i \in touches THEN 1 ELSE 0],
           \A i \in touches : i \in Touch /\ claimed[i] = 0 /\ i <= Len(lifted'),
           \A d \in Cell : armed'[d] \in Touch =>
                armed'[d] \notin touches /\ claimed[armed'[d]] = 0
    PROVE  ClaimedOnce'
<1> SUFFICES ASSUME variant \in {"VC22", "VC4", "VC5"}
             PROVE  /\ \A i \in Touch : claimed'[i] <= 1 /\ (i > Len(lifted') => claimed'[i] = 0)
                    /\ \A d \in Cell : armed'[d] \in Touch => claimed'[armed'[d]] = 0
    BY DEF ClaimedOnce
<1>1. \A i \in Touch : claimed[i] <= 1 /\ (i > Len(lifted) => claimed[i] = 0)
    BY DEF ClaimedOnce
<1>2. \A i \in Touch : claimed[i] \in Nat /\ i \in Nat
    BY DEF TapTyped, Touch
<1>3. ASSUME NEW i \in Touch
      PROVE  claimed'[i] <= 1 /\ (i > Len(lifted') => claimed'[i] = 0)
    <2>1. CASE i \in touches
        BY <1>2, <2>1
    <2>2. CASE i \notin touches
        <3>1. claimed'[i] = claimed[i]
            BY <1>2, <2>2
        <3>2. Len(lifted) \in Nat
            BY DEF TapTyped
        <3> QED BY <1>1, <1>2, <3>1, <3>2
    <2> QED BY <2>1, <2>2
<1>4. ASSUME NEW d \in Cell, armed'[d] \in Touch PROVE claimed'[armed'[d]] = 0
    BY <1>2, <1>4
<1> QED
    BY <1>3, <1>4

\* What is known when a touch of cell c ends.
LEMMA TouchEnds ==
    ASSUME TapInv, NEW c \in Cell, finger # NoFinger, finger.cell = c, finger.kind # "long",
           NEW inside \in BOOLEAN, Noted(inside)
    PROVE  /\ ThisTouch \in Touch /\ ThisTouch \in Nat
           /\ Len(lifted) \in Nat /\ ThisTouch = Len(lifted) + 1
           /\ lifted' \in Seq(Lifted) /\ Len(lifted') = ThisTouch
           /\ lifted'[ThisTouch].under = data[c]
           /\ \A d \in Cell : armed[d] # 0 => armed[d] \in Touch /\ armed[d] < ThisTouch
           /\ variant \in {"VC22", "VC4", "VC5"} => claimed[ThisTouch] = 0
<1> USE DEF TapInv
<1> DEFINE x == [under |-> data[c], inside |-> inside]
<1>1. x \in Lifted /\ lifted' = Append(lifted, x)
    BY DEF Noted, Lifted, TapTyped
<1>2. x.under = data[c]
    OBVIOUS
<1> HIDE DEF x
<1>3. /\ Len(lifted') = Len(lifted) + 1 /\ lifted'[Len(lifted) + 1] = x
      /\ Len(lifted) \in Nat /\ lifted' \in Seq(Lifted)
    BY <1>1, LiftedOneMore
<1>4. Len(lifted) < MaxTouches /\ MaxTouches \in Nat
    BY TableAssumption DEF FingerFits
<1>5. Len(lifted) + 1 \in Touch
    BY <1>3, <1>4 DEF Touch
<1>6. ASSUME NEW d \in Cell, armed[d] # 0
      PROVE  armed[d] \in Touch /\ armed[d] < Len(lifted) + 1
    <2>1. armed[d] \in 1..Len(lifted)
        BY <1>6 DEF ArmedFit
    <2> QED BY <1>3, <1>4, <2>1 DEF Touch
<1>7. Len(lifted) + 1 > Len(lifted)
    BY <1>3
<1>8. variant \in {"VC22", "VC4", "VC5"} => claimed[Len(lifted) + 1] = 0
    BY <1>5, <1>7 DEF ClaimedOnce
<1> QED
    BY <1>2, <1>3, <1>5, <1>6, <1>8 DEF ThisTouch

\* A touch that ends and is not claimed yet.
LEMMA QuietClaimsOnce ==
    ASSUME TapInv, NEW c \in Cell, finger # NoFinger, finger.cell = c, finger.kind # "long",
           NEW inside \in BOOLEAN, Noted(inside), UNCHANGED variant, Quiet,
           \A d \in Cell : armed'[d] \in {0, armed[d], ThisTouch}
    PROVE  ClaimedOnce' /\ ReportRight' /\ claimed' = claimed
<1>1. claimed' = claimed /\ ReportRight'
    BY QuietIsRight DEF Quiet
<1>2. /\ Len(lifted) \in Nat /\ Len(lifted') = Len(lifted) + 1
      /\ variant \in {"VC22", "VC4", "VC5"} => claimed[ThisTouch] = 0
    BY TouchEnds
<1> SUFFICES ASSUME variant \in {"VC22", "VC4", "VC5"}
             PROVE  /\ \A i \in Touch : claimed[i] <= 1 /\ (i > Len(lifted') => claimed[i] = 0)
                    /\ \A d \in Cell : armed'[d] \in Touch => claimed[armed'[d]] = 0
    BY <1>1 DEF ClaimedOnce
<1>3. /\ \A i \in Touch : claimed[i] <= 1 /\ (i > Len(lifted) => claimed[i] = 0)
      /\ \A d \in Cell : armed[d] \in Touch => claimed[armed[d]] = 0
    BY DEF ClaimedOnce, TapInv
<1>4. \A i \in Touch : i > Len(lifted') => i > Len(lifted)
    BY <1>2 DEF Touch
<1>5. ASSUME NEW d \in Cell, armed'[d] \in Touch PROVE claimed[armed'[d]] = 0
    <2>1. armed'[d] # 0
        BY <1>5 DEF Touch
    <2> QED BY <1>2, <1>3, <1>5, <2>1
<1> QED
    BY <1>1, <1>3, <1>4, <1>5

\* A touch that ends and is claimed, alone or with one a recogniser waited for.
LEMMA LiftClaimsOnce ==
    ASSUME TapInv, NEW c \in Cell, finger # NoFinger, finger.cell = c, finger.kind # "long",
           Noted(TRUE), UNCHANGED variant, NEW by, NEW touches, NEW said, NEW calm,
           Report(by, touches, said, c, calm),
           \/ touches = {ThisTouch} /\ UNCHANGED armed
           \/ touches = {armed[c], ThisTouch} /\ armed[c] # 0 /\ armed' = [armed EXCEPT ![c] = 0]
    PROVE  ClaimedOnce'
<1> SUFFICES ASSUME variant \in {"VC22", "VC4", "VC5"} PROVE ClaimedOnce'
    BY DEF ClaimedOnce
<1>1. /\ ThisTouch \in Touch /\ ThisTouch \in Nat
      /\ Len(lifted) \in Nat /\ Len(lifted') = ThisTouch /\ ThisTouch = Len(lifted) + 1
      /\ \A d \in Cell : armed[d] # 0 => armed[d] \in Touch /\ armed[d] < ThisTouch
      /\ claimed[ThisTouch] = 0
    BY TouchEnds
<1>2. \A d \in Cell : armed[d] # 0 => claimed[armed[d]] = 0
    BY <1>1 DEF TapInv, ClaimedOnce
<1>3. \A d \in Cell : armed[d] \in Nat
    BY DEF TapInv, TapTyped
<1>4. \A i \in touches : i \in Touch /\ claimed[i] = 0 /\ i <= Len(lifted')
    BY <1>1, <1>2, <1>3
<1>5. ASSUME NEW d \in Cell, armed'[d] \in Touch
      PROVE  armed'[d] \notin touches /\ claimed[armed'[d]] = 0
    <2>1. armed'[d] # 0
        BY <1>5 DEF Touch
    <2>2. armed'[d] = armed[d] /\ armed[d] # 0
        BY <2>1 DEF TapInv, TapTyped
    <2>3. armed[d] # ThisTouch
        BY <1>1, <1>3, <2>2
    <2>4. CASE touches = {ThisTouch}
        BY <1>2, <2>2, <2>3, <2>4
    <2>5. CASE touches = {armed[c], ThisTouch} /\ armed' = [armed EXCEPT ![c] = 0]
        <3>1. d # c
            BY <2>1, <2>5 DEF TapInv, TapTyped
        <3>2. armed[d] # armed[c]
            BY <2>2, <3>1 DEF TapInv, ArmedFit
        <3> QED BY <1>2, <2>2, <2>3, <2>5, <3>2
    <2> QED BY <2>4, <2>5
<1>6. claimed' = [i \in Touch |-> claimed[i] + IF i \in touches THEN 1 ELSE 0]
    BY DEF Report
<1>7. Len(lifted') \in Nat /\ Len(lifted) <= Len(lifted')
    BY <1>1
<1> QED
    BY <1>4, <1>5, <1>6, <1>7, ClaimsOnce DEF TapInv

\* Reports are counted.
LEMMA ReportTyped ==
    ASSUME TapTyped, NEW by, NEW touches, NEW said, NEW c, NEW calm,
           Report(by, touches, said, c, calm)
    PROVE  claimed' \in [Touch -> Nat]
BY DEF Report, TapTyped

\* A first tap: its handler runs at once, or the recogniser is armed with it.
LEMMA FirstTapKeeps ==
    ASSUME TapInv, NEW c \in Cell, FirstTap(c)
    PROVE  TapInv'
<1>1. /\ finger # NoFinger /\ finger.cell = c /\ finger.kind # "long" /\ armed[c] = 0
      /\ Noted(TRUE) /\ finger' = NoFinger
      /\ UNCHANGED variant /\ crossed' = crossed \ {c}
      /\ armed' = IF HasDoubleTap THEN [armed EXCEPT ![c] = ThisTouch] ELSE armed
    BY DEF FirstTap, TouchIs, Lift
<1>2. /\ ThisTouch \in Touch /\ ThisTouch \in Nat /\ ThisTouch = Len(lifted) + 1
      /\ lifted' \in Seq(Lifted) /\ lifted'[ThisTouch].under = data[c]
    BY <1>1, TouchEnds
<1>3. /\ armed' \in [Cell -> Nat] /\ armed'[c] \in {0, ThisTouch}
      /\ \A d \in Cell : d # c => armed'[d] = armed[d]
    BY <1>1, <1>2 DEF TapInv, TapTyped
<1>4. \A d \in Cell : armed'[d] \in {0, armed[d], ThisTouch}
    BY <1>3
<1>5. CASE RequiresFail
    <2>1. TouchesEnded(c, TRUE) /\ Quiet
        BY <1>5 DEF FirstTap
    <2>2. data' \in [Cell -> Nat] /\ top' = top /\ (UNCHANGED <<data, still>> \/ still' = {})
        BY <2>1, DidSelectMoves DEF TouchesEnded, TapInv
    <2>3. ClaimedOnce' /\ ReportRight' /\ claimed' = claimed
        BY <1>1, <1>4, <2>1, QuietClaimsOnce
    <2>4. touchData' = IF variant = "VC4" THEN [touchData EXCEPT ![c] = data[c]] ELSE touchData
        BY <2>1 DEF TouchesEnded
    <2>5. /\ touchData' \in [Cell -> Nat] /\ (variant = "VC4" => touchData'[c] = data[c])
          /\ \A d \in Cell : d # c => touchData'[d] = touchData[d]
        BY <2>4 DEF TapInv, TapTyped
    <2>6. TapTyped'
        BY <1>2, <1>3, <2>2, <2>3, <2>5 DEF TapInv, TapTyped
    <2>7. ClosuresRight'
        BY <1>1, <2>1, ClosuresKeep DEF TouchesEnded
    <2>8. FingerFits' /\ HeldShown' /\ ArmedFit' /\ StillShown' /\ TouchDataKeptFor'
        <3>1. armed'[c] = armed[c] /\ armed[c] # 0 => c \in crossed'
            BY <1>1
        <3>2. crossed' \subseteq crossed /\ crossed \ crossed' \subseteq {c}
            BY <1>1
        <3> QED BY <1>1, <1>2, <1>3, <2>2, <2>5, <3>1, <3>2, LiftKeeps, LiftedFits
    <2> QED BY <2>3, <2>6, <2>7, <2>8 DEF TapInv
<1>6. CASE ~RequiresFail
    <2>1. /\ Report("tap", {ThisTouch}, Said(c), c, still)
          /\ DidSelect(finger.row) \/ UNCHANGED <<table, still>>
          /\ UNCHANGED <<touchData, dispatched>>
        BY <1>6 DEF FirstTap, FiresAtOnce
    <2>2. data' \in [Cell -> Nat] /\ top' = top /\ (UNCHANGED <<data, still>> \/ still' = {})
        BY <2>1, DidSelectMoves DEF TapInv, TapTyped, table
    <2>3. variant \notin {"VC22", "VC4", "VC5"}
        BY <1>6 DEF RequiresFail
    <2>4. ClaimedOnce'
        BY <1>1, <2>3 DEF ClaimedOnce
    <2>5. ReportRight'
        <3>1. PICK n, said : n = ThisTouch /\ said = Said(c)
            OBVIOUS
        <3>2. said = data[c]
            BY <2>3, <3>1 DEF Said
        <3>3. {said} = Under({n})'
            BY <1>2, <3>1, <3>2, UnderOne
        <3>4. Report("tap", {n}, said, c, still)
            BY <2>1, <3>1
        <3>5. PICK calm : Report("tap", {n}, said, c, calm)
            BY <3>4
        <3> QED BY <1>1, <2>3, <3>3, <3>5, RightReport DEF Report
    <2>6. TapTyped'
        BY <1>2, <1>3, <2>1, <2>2, ReportTyped DEF TapInv, TapTyped
    <2>7. ClosuresRight'
        BY <1>1, <2>1, ClosuresKeep
    <2>8. FingerFits' /\ HeldShown' /\ ArmedFit' /\ StillShown' /\ TouchDataKeptFor'
        <3>1. armed'[c] = armed[c] /\ armed[c] # 0 => c \in crossed'
            BY <1>1
        <3>2. crossed' \subseteq crossed /\ crossed \ crossed' \subseteq {c}
            BY <1>1
        <3> QED BY <1>1, <1>2, <1>3, <2>1, <2>2, <2>3, <3>1, <3>2, LiftKeeps, LiftedFits
    <2> QED BY <2>4, <2>5, <2>6, <2>7, <2>8 DEF TapInv
<1> QED
    BY <1>5, <1>6

\* The double tap takes the waiting tap and its own touch together.
LEMMA SecondTapKeeps ==
    ASSUME TapInv, NEW c \in Cell, SecondTap(c)
    PROVE  TapInv'
<1>0. PICK touches : touches = {armed[c], ThisTouch}
    OBVIOUS
<1>1. /\ finger # NoFinger /\ finger.cell = c /\ finger.kind = "second"
      /\ Noted(TRUE) /\ finger' = NoFinger
      /\ UNCHANGED variant /\ crossed' = crossed \ {c} /\ touchData' = Consumed(c)
      /\ armed' = [armed EXCEPT ![c] = 0]
    BY DEF SecondTap, TouchIs, Lift
<1>2. /\ ThisTouch \in Touch /\ ThisTouch \in Nat /\ ThisTouch = Len(lifted) + 1
      /\ lifted' \in Seq(Lifted) /\ lifted'[ThisTouch].under = data[c]
    BY <1>1, TouchEnds
<1>3. /\ armed' \in [Cell -> Nat] /\ armed'[c] = 0 /\ armed[c] # 0
      /\ \A d \in Cell : d # c => armed'[d] = armed[d]
      /\ variant = "VC4" => touchData[c] = 0
    BY <1>1 DEF TapInv, TapTyped, FingerFits
<1>4. /\ touchData' \in [Cell -> Nat] /\ (variant = "VC4" => touchData'[c] = 0)
      /\ \A d \in Cell : d # c => touchData'[d] = touchData[d]
    BY <1>1 DEF TapInv, TapTyped, Consumed
<1>5. PICK shown : shown = data[c] /\ shown \in Under(touches)'
    BY <1>0, <1>2 DEF Under
<1>6. PICK said, calm :
        /\ Report("doubleTap", touches, said, c, calm)
        /\ touches \subseteq calm => said = data[c] \/ (variant = "VC4" /\ said = 0)
        /\ DidSelect(finger.row) \/ UNCHANGED <<table, still>>
        /\ dispatched' = Dispatched(c) \/ dispatched' = dispatched
    <2>1. CASE /\ DidSelect(finger.row)
               /\ dispatched' = Dispatched(c)
               /\ IF variant = "VC4"
                  THEN Report("doubleTap", touches, data[c], c, still)
                  ELSE Report("doubleTap", touches, data'[c], c, still')
        <3>1. CASE variant = "VC4"
            BY <2>1, <3>1
        <3>2. CASE variant # "VC4"
            <4>1. touches \subseteq still' => data'[c] = data[c]
                BY <1>0, <2>1, DidSelectMoves DEF TapInv
            <4> QED BY <2>1, <3>2, <4>1
        <3> QED BY <3>1, <3>2
    <2>2. CASE /\ Report("doubleTap", touches, Said(c), c, still)
               /\ UNCHANGED <<table, still, dispatched>>
        BY <1>3, <2>2 DEF Said
    <2> QED BY <1>0, <2>1, <2>2 DEF SecondTap
<1>7. data' \in [Cell -> Nat] /\ top' = top /\ (UNCHANGED <<data, still>> \/ still' = {})
    BY <1>6, DidSelectMoves DEF TapInv, TapTyped, table
<1>8. ClaimedOnce'
    BY <1>0, <1>1, <1>3, <1>6, LiftClaimsOnce
<1>9. ReportRight'
    BY <1>1, <1>5, <1>6, RightReport DEF Report
<1>10. TapTyped'
    BY <1>2, <1>3, <1>4, <1>6, <1>7, ReportTyped DEF TapInv, TapTyped
<1>11. ClosuresRight'
    BY <1>1, <1>6, ClosuresKeep
<1>12. FingerFits' /\ HeldShown' /\ ArmedFit' /\ StillShown' /\ TouchDataKeptFor'
    <2>1. crossed' \subseteq crossed /\ crossed \ crossed' \subseteq {c}
        BY <1>1
    <2>2. armed'[c] # Len(lifted) + 1 /\ armed'[c] # armed[c]
        BY <1>2, <1>3
    <2> QED BY <1>1, <1>3, <1>4, <1>7, <2>1, <2>2, LiftKeeps, LiftedFits
<1> QED
    BY <1>8, <1>9, <1>10, <1>11, <1>12 DEF TapInv

\* A touch beside the container reports nothing and arms nothing.
LEMMA LiftOutsideKeeps ==
    ASSUME TapInv, NEW c \in Cell, LiftOutside(c)
    PROVE  TapInv'
<1>1. /\ finger # NoFinger /\ finger.cell = c /\ finger.kind # "long"
      /\ Noted(FALSE) /\ finger' = NoFinger /\ TouchesEnded(c, FALSE)
      /\ UNCHANGED <<variant, armed, crossed>> /\ Quiet
    BY DEF LiftOutside, TouchIs, Lift
<1>2. lifted' \in Seq(Lifted) /\ ThisTouch \in Nat /\ ThisTouch = Len(lifted) + 1
      /\ \A d \in Cell : armed[d] # 0 => armed[d] < ThisTouch
    BY <1>1, TouchEnds
<1>3. data' \in [Cell -> Nat] /\ top' = top /\ (UNCHANGED <<data, still>> \/ still' = {})
    BY <1>1, DidSelectMoves DEF TouchesEnded, TapInv
<1>4. ClaimedOnce' /\ ReportRight' /\ claimed' = claimed
    BY <1>1, QuietClaimsOnce
<1>5. touchData' = IF variant = "VC4" THEN [touchData EXCEPT ![c] = data[c]] ELSE touchData
    BY <1>1 DEF TouchesEnded
<1>6. /\ touchData' \in [Cell -> Nat] /\ (variant = "VC4" => touchData'[c] = data[c])
      /\ \A d \in Cell : d # c => touchData'[d] = touchData[d]
    BY <1>5 DEF TapInv, TapTyped
<1>7. TapTyped'
    BY <1>1, <1>2, <1>3, <1>4, <1>6 DEF TapInv, TapTyped
<1>8. ClosuresRight'
    BY <1>1, ClosuresKeep DEF TouchesEnded
<1>9. FingerFits' /\ HeldShown' /\ ArmedFit' /\ StillShown' /\ TouchDataKeptFor'
    <2>1. armed'[c] = armed[c] /\ (armed[c] # 0 => c \in crossed')
        BY <1>1 DEF TapInv, FingerFits
    <2> QED BY <1>1, <1>3, <1>6, <2>1, LiftKeeps, LiftedFits
<1> QED
    BY <1>4, <1>7, <1>8, <1>9 DEF TapInv

\* A long press that begins reports its touch and leaves the recogniser waiting.
LEMMA LongPressBeganKeeps ==
    ASSUME TapInv, NEW c \in Cell, LongPressBegan(c)
    PROVE  TapInv'
<1>0. PICK n, said, calm : n = ThisTouch /\ said = Said(c) /\ calm = still
    OBVIOUS
<1>1. /\ finger # NoFinger /\ finger.cell = c /\ finger.kind # "long" /\ Noted(TRUE)
      /\ finger' = [finger EXCEPT !.kind = "long"]
      /\ Report("longPress", {n}, said, c, calm)
      /\ touchData' = Consumed(c)
      /\ UNCHANGED <<variant, table, armed, dispatched, still, crossed>>
    BY <1>0 DEF LongPressBegan, TouchIs
<1>2. /\ lifted' \in Seq(Lifted) /\ ThisTouch \in Nat /\ ThisTouch = Len(lifted) + 1
      /\ lifted'[ThisTouch].under = data[c]
      /\ \A d \in Cell : armed[d] # 0 => armed[d] < ThisTouch
    BY <1>1, TouchEnds
<1>3. UNCHANGED <<data, still, top, variant, armed, dispatched, crossed>>
    BY <1>1 DEF table
<1>4. variant = "VC4" => touchData[c] = 0
    BY <1>1 DEF TapInv, FingerFits
<1>5. /\ touchData' \in [Cell -> Nat] /\ (variant = "VC4" => touchData'[c] = 0)
      /\ \A d \in Cell : d # c => touchData'[d] = touchData[d]
    BY <1>1 DEF TapInv, TapTyped, Consumed
<1>6. ClaimedOnce'
    BY <1>0, <1>1, <1>3, LiftClaimsOnce
<1>7. ReportRight'
    <2>1. PICK shown : shown = data[c] /\ shown \in Under({n})'
        BY <1>0, <1>2, UnderOne
    <2>2. said = shown \/ (variant = "VC4" /\ said = 0)
        BY <1>0, <1>4, <2>1 DEF Said
    <2> QED BY <1>1, <1>3, <2>1, <2>2, RightReport DEF Report
<1>8. TapTyped'
    BY <1>1, <1>2, <1>3, <1>5, ReportTyped DEF TapInv, TapTyped
<1>9. ClosuresRight'
    BY <1>1, <1>3, ClosuresKeep
<1>10. ArmedFit' /\ StillShown' /\ TouchDataKeptFor'
    <2>1. armed'[c] = armed[c] /\ (armed[c] # 0 => c \in crossed')
        BY <1>1, <1>3 DEF TapInv, FingerFits
    <2>2. armed[c] \in Nat
        BY DEF TapInv, TapTyped
    <2>3. armed'[c] # Len(lifted) + 1
        <3>1. CASE armed[c] = 0
            BY <1>2, <2>1, <3>1
        <3>2. CASE armed[c] # 0
            BY <1>2, <2>1, <2>2, <3>2
        <3> QED BY <3>1, <3>2
    <2> QED BY <1>1, <1>3, <1>5, <2>1, <2>3, LiftKeeps
<1>11. FingerFits' /\ HeldShown'
    <2>1. finger' # NoFinger => finger'.cell = c /\ finger'.kind = "long"
        <3>1. finger = [cell |-> c, kind |-> finger.kind, row |-> finger.row]
            BY <1>1 DEF TapInv, FingerFits
        <3>2. finger' = [cell |-> c, kind |-> "long", row |-> finger.row]
            BY <1>1, <3>1
        <3> QED BY <3>2
    <2>2. armed[c] # 0 => c \in crossed
        BY <1>1 DEF TapInv, FingerFits
    <2>3. Len(lifted') = ThisTouch
        BY <1>1, TouchEnds
    <2>4. finger' = [cell |-> finger'.cell, kind |-> finger'.kind, row |-> finger'.row]
        <3>1. finger = [cell |-> c, kind |-> finger.kind, row |-> finger.row]
            BY <1>1 DEF TapInv, FingerFits
        <3> QED BY <1>1, <3>1
    <2> QED BY <1>2, <1>3, <1>5, <2>1, <2>2, <2>3, <2>4 DEF FingerFits, HeldShown
<1> QED
    BY <1>6, <1>7, <1>8, <1>9, <1>10, <1>11 DEF TapInv

\* A long press that goes on or ends reports the touch it has.
LEMMA LongPressAgainKeeps ==
    ASSUME TapInv, NEW c \in Cell, LongPressAgain(c), finger' = finger \/ finger' = NoFinger
    PROVE  TapInv'
<1>0. PICK n, said, calm : n = Len(lifted) /\ said = Said(c) /\ calm = still
    OBVIOUS
<1>1. /\ finger # NoFinger /\ finger.cell = c /\ finger.kind = "long"
      /\ Says("longPress", {n}, said, c, calm)
      /\ UNCHANGED <<variant, armed, dispatched, lifted, still, crossed, claimed, data, top>>
    BY <1>0 DEF LongPressAgain, TouchIs, table
<1>2. /\ touchData' = touchData
      /\ variant = "VC4" => touchData[c] = 0
    <2>1. variant = "VC4" => touchData[c] = 0
        BY <1>1 DEF TapInv, FingerFits
    <2>2. CASE variant = "VC4"
        BY <2>1, <2>2 DEF LongPressAgain, Consumed, TapInv, TapTyped
    <2>3. CASE variant # "VC4"
        BY <2>3 DEF LongPressAgain, Consumed
    <2> QED BY <2>1, <2>2, <2>3
<1>3. ReportRight'
    <2>1. PICK shown : shown = lifted[Len(lifted)].under /\ {shown} = Under({n})'
        BY <1>0, <1>1, UnderOne
    <2>2. {n} \subseteq calm => said = shown \/ (variant = "VC4" /\ said = 0)
        BY <1>0, <1>1, <1>2, <2>1 DEF Said, TapInv, HeldShown
    <2> QED BY <1>1, <2>1, <2>2, RightReport
<1>4. FingerFits' /\ HeldShown'
    <2>1. CASE finger' = finger
        BY <1>1, <1>2, <2>1 DEF TapInv, FingerFits, HeldShown
    <2>2. CASE finger' = NoFinger
        BY <2>2, LiftedFits
    <2> QED BY <2>1, <2>2
<1>5. TapTyped' /\ ArmedFit' /\ ClosuresRight' /\ ClaimedOnce'
    BY <1>1, <1>2 DEF TapInv, TapTyped, ArmedFit, ClosuresRight, ClaimedOnce
<1>6. StillShown' /\ TouchDataKeptFor'
    BY <1>1, <1>2 DEF TapInv, StillShown, TouchDataKeptFor, UnderArmed
<1> QED
    BY <1>3, <1>4, <1>5, <1>6 DEF TapInv

\* The tap that waited reports what the cell, or its touchData, holds now.
LEMMA DoubleTapFailsKeeps ==
    ASSUME TapInv, NEW c \in Cell, DoubleTapFails(c)
    PROVE  TapInv'
<1>0. PICK a, said, calm : a = armed[c] /\ said = Said(c) /\ calm = still
    OBVIOUS
<1>1. /\ a # 0 /\ ~TouchIs(c, {"second"})
      /\ armed' = [armed EXCEPT ![c] = 0] /\ crossed' = crossed \ {c}
      /\ UNCHANGED <<variant, finger, dispatched, lifted, still, data, top>>
      /\ \/ RequiresFail /\ Report("tap", {a}, said, c, calm) /\ touchData' = Consumed(c)
         \/ ~RequiresFail /\ Quiet /\ UNCHANGED touchData
    BY <1>0 DEF DoubleTapFails, table
<1>2. /\ armed' \in [Cell -> Nat] /\ armed'[c] = 0
      /\ \A d \in Cell : d # c => armed'[d] = armed[d]
    BY <1>1 DEF TapInv, TapTyped
<1>3. /\ touchData' \in [Cell -> Nat] /\ touchData'[c] \in {touchData[c], 0}
      /\ \A d \in Cell : d # c => touchData'[d] = touchData[d]
    BY <1>1 DEF TapInv, TapTyped, Consumed
<1>4. ReportRight'
    <2>1. CASE ~RequiresFail
        BY <1>1, <2>1, QuietIsRight
    <2>2. CASE RequiresFail
        <3>1. PICK shown : shown = UnderArmed(c) /\ {shown} = Under({a})'
            BY <1>0, <1>1, UnderOne DEF UnderArmed
        <3>2. {a} \subseteq calm => said = shown \/ (variant = "VC4" /\ said = 0)
            BY <1>0, <1>1, <3>1 DEF TapInv, StillShown, Said
        <3>3. variant = "VC4" /\ c \notin crossed => said = shown
            BY <1>0, <1>1, <3>1 DEF TapInv, TouchDataKeptFor, Said
        <3> QED BY <1>1, <2>2, <3>1, <3>2, <3>3, RightReport DEF Report
    <2> QED BY <2>1, <2>2
<1>5. claimed' \in [Touch -> Nat]
    BY <1>1, ReportTyped DEF TapInv, TapTyped, Quiet
<1>6. TapTyped'
    BY <1>1, <1>2, <1>3, <1>5 DEF TapInv, TapTyped
<1>7. FingerFits'
    <2> SUFFICES ASSUME finger # NoFinger PROVE FingerFits'
        BY <1>1 DEF FingerFits
    <2>1. CASE finger.cell = c
        <3>1. finger.kind # "second"
            BY <1>1, <2>1 DEF TouchIs
        <3> QED BY <1>1, <1>2, <1>3, <2>1, <3>1 DEF TapInv, FingerFits
    <2>2. CASE finger.cell # c
        BY <1>1, <1>2, <1>3, <2>2 DEF TapInv, FingerFits
    <2> QED BY <2>1, <2>2
<1>8. ArmedFit' /\ ClosuresRight'
    BY <1>1, <1>2 DEF TapInv, ArmedFit, ClosuresRight
<1>9. StillShown' /\ HeldShown'
    BY <1>1, <1>2, <1>3 DEF TapInv, StillShown, HeldShown, UnderArmed
<1>10. TouchDataKeptFor'
    BY <1>1, <1>2, <1>3 DEF TapInv, TouchDataKeptFor, UnderArmed
<1>11. ClaimedOnce'
    <2>1. \A d \in Cell : armed'[d] \in Touch => d # c
        BY <1>2 DEF Touch
    <2>2. CASE ~RequiresFail
        <3>1. variant' \notin {"VC22", "VC4", "VC5"}
            BY <1>1, <2>2 DEF RequiresFail
        <3> QED BY <3>1 DEF ClaimedOnce
    <2>3. CASE RequiresFail
        <3> SUFFICES ASSUME variant \in {"VC22", "VC4", "VC5"} PROVE ClaimedOnce'
            BY <1>1 DEF ClaimedOnce
        <3>1. Len(lifted) \in Nat /\ a \in 1..Len(lifted)
            BY <1>0, <1>1 DEF TapInv, TapTyped, ArmedFit
        <3>2. claimed[a] # 0 => a \notin Touch
            BY <1>0 DEF TapInv, ClaimedOnce
        <3>3. claimed' = [i \in Touch |-> claimed[i] + IF i \in {a} THEN 1 ELSE 0]
            BY <1>1, <2>3 DEF Report
        <3>4. ASSUME NEW d \in Cell, armed'[d] \in Touch
              PROVE  armed'[d] \notin {a} /\ claimed[armed'[d]] = 0
            <4>1. armed'[d] = armed[d] /\ d # c
                BY <1>2, <2>1, <3>4
            <4>2. armed[d] # armed[c]
                BY <1>0, <1>1, <4>1 DEF TapInv, ArmedFit
            <4> QED BY <1>0, <3>4, <4>1, <4>2 DEF TapInv, ClaimedOnce
        <3>5. CASE a \in Touch
            <4>1. \A i \in {a} : i \in Touch /\ claimed[i] = 0 /\ i <= Len(lifted')
                BY <1>1, <3>1, <3>2, <3>5
            <4>2. Len(lifted') \in Nat /\ Len(lifted) <= Len(lifted')
                BY <1>1, <3>1
            <4> QED BY <1>1, <3>3, <3>4, <4>1, <4>2, ClaimsOnce DEF TapInv
        <3>6. CASE a \notin Touch
            <4>0. PICK none : none = {}
                OBVIOUS
            <4>1. claimed' = [i \in Touch |-> claimed[i] + IF i \in none THEN 1 ELSE 0]
                BY <3>3, <3>6, <4>0
            <4>2. Len(lifted') \in Nat /\ Len(lifted) <= Len(lifted')
                BY <1>1, <3>1
            <4>3. /\ \A i \in none : i \in Touch /\ claimed[i] = 0 /\ i <= Len(lifted')
                  /\ \A d \in Cell : armed'[d] \in Touch =>
                        armed'[d] \notin none /\ claimed[armed'[d]] = 0
                BY <3>4, <4>0
            <4> QED BY <1>1, <4>1, <4>2, <4>3, ClaimsOnce DEF TapInv
        <3> QED BY <3>5, <3>6
    <2> QED BY <2>2, <2>3
<1> QED
    BY <1>4, <1>6, <1>7, <1>8, <1>9, <1>10, <1>11 DEF TapInv

\* A step that changes nothing.
LEMMA TapStutterKeeps ==
    ASSUME TapInv, UNCHANGED vars
    PROVE  TapInv'
<1>1. UNCHANGED <<variant, top, data, touchData, finger, armed, dispatched, lifted, still,
                  crossed, claimed, report>>
    BY DEF vars, table, history
<1>2. TapTyped' /\ FingerFits' /\ ArmedFit' /\ StillShown' /\ HeldShown'
    BY <1>1 DEF TapInv, TapTyped, FingerFits, ArmedFit, StillShown, HeldShown, UnderArmed
<1>3. TouchDataKeptFor' /\ ClosuresRight' /\ ClaimedOnce'
    BY <1>1 DEF TapInv, TouchDataKeptFor, UnderArmed, ClosuresRight, ClaimedOnce
<1>4. ReportRight'
    BY <1>1 DEF TapInv, ReportRight, PromptTapIsRight, WrongOnlyIfMoved,
                TouchDataSurvivesReload, Reported, Under, RequiresFail
<1> QED
    BY <1>2, <1>3, <1>4 DEF TapInv

\* At the start nothing was touched.
LEMMA TapInit ==
    ASSUME Init PROVE TapInv
<1>1. /\ touchData = [d \in Cell |-> 0] /\ armed = [d \in Cell |-> 0] /\ finger = NoFinger
      /\ dispatched = {} /\ lifted = <<>> /\ still = {}
      /\ claimed = [i \in Touch |-> 0] /\ report = NoReport /\ top = 1 /\ data = rowOf
    BY DEF Init
<1>2. data \in [Cell -> Nat]
    <2>1. PICK rows : rows = Visible(Rows, FALSE, 1) /\ rows \in SUBSET Nat
        BY VisibleRows, 1 \in Nat
    <2>2. PICK p : p = rowOf /\ p \in Placements(rows)
        BY <2>1 DEF Init
    <2> QED BY <1>1, <2>1, <2>2, PlacementsTyped
<1>3. TapTyped
    BY <1>1, <1>2 DEF TapTyped
<1>4. FingerFits /\ ArmedFit /\ StillShown /\ HeldShown
    BY <1>1 DEF FingerFits, ArmedFit, StillShown, HeldShown
<1>5. TouchDataKeptFor /\ ClosuresRight
    BY <1>1 DEF TouchDataKeptFor, ClosuresRight
<1>6. ClaimedOnce
    <2>1. \A i \in Touch : claimed[i] = 0
        BY <1>1
    <2>2. \A d \in Cell : armed[d] \notin Touch
        BY <1>1 DEF Touch
    <2> QED BY <2>1, <2>2 DEF ClaimedOnce
<1>7. ReportRight
    BY <1>1 DEF ReportRight, PromptTapIsRight, WrongOnlyIfMoved, TouchDataSurvivesReload, Reported
<1> QED
    BY <1>3, <1>4, <1>5, <1>6, <1>7 DEF TapInv

-----------------------------------------------------------------------------
(* The theorems.                                                            *)

\* The inductive invariant holds in every state: a recogniser waits with a
\* touch of its own, TableVC4's touchData and TableVC3's closures hold what
\* their touches were on, and what was reported was right.
THEOREM TapInvariance == Spec => []TapInv
<1>1. Init => TapInv
    BY TapInit
<1>2. TapInv /\ [Next]_vars => TapInv'
    <2> SUFFICES ASSUME TapInv, [Next]_vars PROVE TapInv'
        OBVIOUS
    <2>1. CASE ShowBtnClick \/ SendBtnClick \/ Scroll
        BY <2>1, ShowSendScrollKeep
    <2>2. CASE TapClick2
        BY <2>2, TapClick2Keeps
    <2>3. ASSUME NEW c \in Cell, TouchBegan(c) PROVE TapInv'
        BY <2>3, TouchBeganKeeps
    <2>4. ASSUME NEW c \in Cell, Ends(c) PROVE TapInv'
        BY <2>4, FirstTapKeeps, SecondTapKeeps, LiftOutsideKeeps, LongPressBeganKeeps,
           LongPressAgainKeeps DEF Ends, LongPressEnded
    <2>5. ASSUME NEW c \in Cell, DoubleTapFails(c) PROVE TapInv'
        BY <2>5, DoubleTapFailsKeeps
    <2>6. ASSUME NEW c \in Cell, LongPressChanged(c) PROVE TapInv'
        BY <2>6, LongPressAgainKeeps DEF LongPressChanged
    <2>7. CASE UNCHANGED vars
        BY <2>7, TapStutterKeeps
    <2> QED BY <2>1, <2>2, <2>3, <2>4, <2>5, <2>6, <2>7 DEF Next
<1> QED
    BY <1>1, <1>2, PTL DEF Spec

\* A tap handled at once (TableVC1, TableVC2), and a closure of TableVC3, name
\* the row that was under the finger when it was lifted.
THEOREM PromptTapsRight == Spec => []PromptTapIsRight
<1>1. TapInv => PromptTapIsRight
    BY DEF TapInv, ReportRight
<1> QED
    BY <1>1, TapInvariance, PTL

\* A handler that reads its cell late names another row than the one touched
\* only if a cell was configured after the finger came down.
THEOREM StillTableIsRight == Spec => []WrongOnlyIfMoved
<1>1. TapInv => WrongOnlyIfMoved
    BY DEF TapInv, ReportRight
<1> QED
    BY <1>1, TapInvariance, PTL

\* TableVC4's delayed tap names the row under the finger, across any number of
\* reloads, unless the same cell was touched again.
THEOREM TouchDataSurvives == Spec => []TouchDataSurvivesReload
<1>1. TapInv => TouchDataSurvivesReload
    BY DEF TapInv, ReportRight
<1> QED
    BY <1>1, TapInvariance, PTL

\* Where the tap waits for the double tap and dispatches nothing, no touch is
\* reported as one gesture and as another, however often a long press reports.
THEOREM TouchesClaimedOnce == Spec => []OneGesturePerTouch
<1>1. TapInv => OneGesturePerTouch
    BY DEF TapInv, ClaimedOnce, OneGesturePerTouch
<1> QED
    BY <1>1, TapInvariance, PTL
=============================================================================
