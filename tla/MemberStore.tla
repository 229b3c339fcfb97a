----------------------------- MODULE MemberStore -----------------------------
(***************************************************************************)
(* MemberDBWorker: the members of a group in one table.  A row holds the   *)
(* member's user as one json value and, for searching, copies of three of  *)
(* its members in columns of their own.  Each operation is one transaction *)
(* that may fail; the error is caught.                                     *)
(*                                                                         *)
(* A remark name is abstracted to the set of the words it contains, which  *)
(* is what LIKE '%word%' asks for.                                         *)
(***************************************************************************)
EXTENDS Naturals, Sequences, Functions, Selection

CONSTANTS
    Lists,      \* the lists of members clients add or update
    Words,      \* the words clients search for
    NewInfo,    \* GroupMemberInfo(), what a member is before anything is known of it
    Nil,
    Array,      \* a json array in the column of a user: it decodes to no user
    MaxRows     \* bound: rows in the table

\* GroupMemberInfo and UserInfo: none of the members is optional.
IsInfo(info) ==
    /\ info = [user |-> info.user, groupID |-> info.groupID, type |-> info.type]
    /\ info.user \notin {Nil, Array} /\ info.user.remarkName # Nil
    /\ info.groupID # Nil /\ info.type # Nil

MemberAssumption ==
    /\ MaxRows \in Nat
    /\ \A list \in Lists : list \in Seq(Range(list)) /\ \A i \in DOMAIN list : IsInfo(list[i])
    /\ IsInfo(NewInfo)
    /\ NewInfo.user.remarkName \cap Words = {}

VARIABLES
    created,    \* the table exists
    rows,       \* its rows
    answer,     \* what the last operation returned
    added,      \* history: the members added since the last deleteAll, in order
    updated     \* history: how many of them were there at the last update

vars == <<created, rows, answer, added, updated>>

Init ==
    /\ created = FALSE
    /\ rows = <<>>
    /\ answer = Nil
    /\ added = <<>>
    /\ updated = 0

\* Mutant of DbModel: the copies are not made.
DbModelBare(info) ==
    [user |-> info.user, isFriend |-> Nil, remarkName |-> Nil, isOnline |-> Nil,
     groupID |-> info.groupID, type |-> info.type]

\* dbModel: setting user copies three of its members.
DbModel(info) ==
    [user |-> info.user,
     isFriend |-> info.user.isFriend,
     remarkName |-> info.user.remarkName,
     isOnline |-> info.user.isOnline,
     groupID |-> info.groupID,
     type |-> info.type]

\* The user a row's json decodes to, that of a new member if to none.
UserOf(row) == IF row.user \in {Nil, Array} THEN NewInfo.user ELSE row.user

\* Mutant of BizModel: the type is left out.
BizModelUntyped(row) ==
    [user |-> UserOf(row),
     groupID |-> IF row.groupID = Nil THEN NewInfo.groupID ELSE row.groupID,
     type |-> NewInfo.type]

\* bizModel: what the row lacks, is as in a new member.
BizModel(row) ==
    [user |-> UserOf(row),
     groupID |-> IF row.groupID = Nil THEN NewInfo.groupID ELSE row.groupID,
     type |-> IF row.type = Nil THEN NewInfo.type ELSE row.type]

BizModels(list) == [i \in DOMAIN list |-> BizModel(list[i])]

\* LIKE does not match a null.
Like(word, row) == row.remarkName # Nil /\ word \in row.remarkName

Found(word) == BizModels(Only(rows, {r \in Range(rows) : Like(word, r)}))

Create ==
    /\ \E ok \in BOOLEAN : created' = (created \/ ok)
    /\ UNCHANGED <<rows, answer, added, updated>>

Fails(value) ==
    /\ answer' = value
    /\ UNCHANGED <<created, rows, added, updated>>

AddMembers(list) ==
    \/ /\ created
       /\ Len(rows) + Len(list) <= MaxRows
       /\ rows' = rows \o [i \in DOMAIN list |-> DbModel(list[i])]
       /\ added' = added \o list
       /\ answer' = TRUE
       /\ UNCHANGED <<created, updated>>
    \/ Fails(FALSE)

AllMembers ==
    \/ created /\ answer' = BizModels(rows) /\ UNCHANGED <<created, rows, added, updated>>
    \/ Fails(Nil)

SearchMember(word) ==
    \/ created /\ answer' = Found(word) /\ UNCHANGED <<created, rows, added, updated>>
    \/ Fails(Nil)

DeleteAll ==
    \/ /\ created
       /\ rows' = <<>>
       /\ added' = <<>>
       /\ updated' = 0
       /\ answer' = TRUE
       /\ UNCHANGED created
    \/ Fails(FALSE)

\* The models are given in an array, which is one column value: its json goes into
\* the first column, and the others, to which nothing is bound, become null.
Overwritten(row, list) ==
    [user |-> Array, isFriend |-> Nil, remarkName |-> Nil, isOnline |-> Nil,
     groupID |-> Nil, type |-> Nil]

\* update(info:), update(infos:).  There is no condition: every row is updated.
Update(list) ==
    \/ /\ created
       /\ rows' = [i \in DOMAIN rows |-> Overwritten(rows[i], list)]
       /\ updated' = Len(rows)
       /\ answer' = TRUE
       /\ UNCHANGED <<created, added>>
    \/ Fails(FALSE)

Next ==
    \/ Create
    \/ AllMembers
    \/ DeleteAll
    \/ \E list \in Lists : AddMembers(list) \/ Update(list)
    \/ \E word \in Words : SearchMember(word)

Spec == Init /\ [][Next]_vars

-----------------------------------------------------------------------------
Named(word, info) == word \in info.user.remarkName

\* Searching for a word by the copied column finds exactly the members that reading
\* them all shows with that word in their name, in the same order, updates included.
SearchAgreesWithAll ==
    \A word \in Words :
        Found(word) = Only(BizModels(rows), {m \in Range(BizModels(rows)) : Named(word, m)})

\* A member that was added and not updated since is read back as it was added, in the
\* order of adding, behind the rows that were updated.
AddedIsRead ==
    /\ DOMAIN BizModels(rows) = DOMAIN added
    /\ \A i \in DOMAIN added : i > updated => BizModels(rows)[i] = added[i]

\* What testMember takes for granted when it updates the members it has read and then
\* searches them by name: whatever is read is a member that some client gave, in an
\* add or in an update.
UpdateKeepsMembers ==
    \A m \in Range(BizModels(rows)) : \E list \in Lists : m \in Range(list)
=============================================================================
