------------------------------ MODULE MCStores -------------------------------
(***************************************************************************)
(* Stores with a few lists of messages, members, sites and students.       *)
(***************************************************************************)
EXTENDS Stores

CONSTANTS
    Other,                      \* a value of a message's member
    A, B,                       \* the words in a member's name
    Word,                       \* the word in a web site's name
    s21434, s345                \* the studentIds of testStuAddData

-----------------------------------------------------------------------------
(* Messages: lists of two of each type, a new one with every member as it   *)
(* is at first, without an id, and one with every member set that refers to *)
(* another message.                                                         *)

Fresh(type) ==
    [class |-> ClassOf(type), messageType |-> type, msgId |-> Nil, rest |-> Initial,
     refMsg |-> Nil, sub |-> [f \in Fields(ClassOf(type)) |-> Default(f)]]

Full(type) ==
    [class |-> ClassOf(type), messageType |-> type, msgId |-> Other, rest |-> Other,
     refMsg |-> [msgId |-> Other, content |-> Initial, type |-> Nil, uid |-> Initial,
                 nickname |-> Other],
     sub |-> [f \in Fields(ClassOf(type)) |-> Other]]

TwoOfEach(types) == [i \in 1..Len(types) |-> Fresh(types[i])] \o [i \in 1..Len(types) |-> Full(types[i])]

\* Each type with a class of its own, one without, and no type.
Lists ==
    {TwoOfEach(<<"text", "image", "video">>),
     TwoOfEach(<<"file", "card", "location", Nil>>),
     TwoOfEach(<<"notice", "call", "audio">>)}

-----------------------------------------------------------------------------
(* Members                                                                  *)

User(uid, friend, words, online) ==
    [uid |-> uid, isFriend |-> friend, remarkName |-> words, isOnline |-> online]

NewMember == [user |-> User(0, FALSE, {}, FALSE), groupID |-> 0, type |-> 0]
Unnamed == [user |-> User(3, TRUE, {}, TRUE), groupID |-> 0, type |-> 2]
Friend == [user |-> User(1, TRUE, {A}, FALSE), groupID |-> 1, type |-> 2]
Stranger == [user |-> User(2, FALSE, {A, B}, TRUE), groupID |-> 1, type |-> 1]

ListsOfMembers == {<<Friend>>, <<Stranger>>, <<Unnamed, Stranger>>}

-----------------------------------------------------------------------------
(* Web sites: names 1 and 2 contain the word, the two sites of name 1       *)
(* differ in rank, and one site is unnamed.                                 *)

Site(name, alexa) == [name |-> name, alexa |-> alexa]

ListsOfSites == {<<Site(1, 1), Site(Nil, 1)>>, <<Site(1, 2)>>, <<Site(2, 1), Site(3, Nil)>>}

WordsOfNames == [n \in 1..3 |-> IF n = 3 THEN {} ELSE {Word}]

Search(keywords, inUids, start, end, notInIds, size) ==
    [keywords |-> keywords, inUids |-> inUids, idStart |-> start, idEnd |-> end,
     notInIds |-> notInIds, pageSize |-> size]

Searches ==
    {Search(Nil, {1}, Nil, 2, {2}, 2),
     Search(Word, {3}, Nil, Nil, {}, 1),
     Search(Word, Nil, 1, 3, {1}, 1)}

PlainSearches == {[offset |-> 1, limit |-> 1]}

-----------------------------------------------------------------------------
(* Students                                                                 *)

TwoStudents == <<s21434, s345>>
=============================================================================
