---------------------------- MODULE MessageStore ----------------------------
(***************************************************************************)
(* MessageDBWorker: three tables, chats, chats2 and chats3, that store the *)
(* same messages in the three ways of MessageCodec.  Each operation is one *)
(* transaction; it fails when its table is missing, or for any other       *)
(* reason, and the error is caught.                                        *)
(***************************************************************************)
EXTENDS MessageCodec, FiniteSets, Functions

CONSTANTS
    Batches,        \* the lists of messages the clients add
    MaxBatches      \* bound: lists added

AreMessages(s) == s \in Seq(Range(s)) /\ \A i \in DOMAIN s : IsMessage(s[i])

ASSUME StoreAssumption ==
    /\ \A b \in Batches : AreMessages(b)
    /\ MaxBatches \in Nat

VARIABLES
    tables,     \* the tables that exist
    rows,       \* rows[f]: the rows of table f
    answer,     \* what the last operation returned
    batches,    \* lists added so far
    sent        \* history: sent[f], the messages added to table f

vars == <<tables, rows, answer, batches, sent>>

Init ==
    /\ tables = {}
    /\ rows = [f \in Family |-> <<>>]
    /\ answer = [to |-> "none", value |-> Nil]
    /\ batches = 0
    /\ sent = [f \in Family |-> <<>>]

\* MessageDBWorker.init: in order, up to the first that fails.
Create ==
    /\ \E n \in 0..3 : tables' = tables \cup 1..n
    /\ UNCHANGED <<rows, answer, batches, sent>>

\* Mutant of Counted: all rows are counted, with or without an id.
CountedRows(f) == Len(rows[f])

\* SQL's count of a column leaves out its nulls.
Counted(f) == Cardinality({i \in DOMAIN rows[f] : rows[f][i].msgId # Nil})

\* getMsgCount, getMsgCount2, getMsgCount3: nil on error.
GetMsgCount(f) ==
    /\ \/ f \in tables /\ answer' = [to |-> "count", value |-> Counted(f)]
       \/ answer' = [to |-> "count", value |-> Nil]
    /\ UNCHANGED <<tables, rows, batches, sent>>

StoredAll(f, msgs) == [i \in DOMAIN msgs |-> Stored(f, msgs[i])]

\* addMessages, addMessages2, addMessages3.  The tables have no primary key, so
\* nothing is replaced.
AddMessages(f, msgs) ==
    /\ batches < MaxBatches
    /\ batches' = batches + 1
    /\ \/ /\ f \in tables
          /\ rows' = [rows EXCEPT ![f] = @ \o StoredAll(f, msgs)]
          /\ sent' = [sent EXCEPT ![f] = @ \o msgs]
          /\ answer' = [to |-> "add", value |-> TRUE]
       \/ /\ answer' = [to |-> "add", value |-> FALSE]
          /\ UNCHANGED <<rows, sent>>
    /\ UNCHANGED tables

LoadedAll(f) == [i \in DOMAIN rows[f] |-> Loaded(f, rows[f][i])]

\* getMessages, getMessages2, getMessages3: no message on error.
GetMessages(f) ==
    /\ \/ f \in tables /\ answer' = [to |-> "get", value |-> LoadedAll(f)]
       \/ answer' = [to |-> "get", value |-> <<>>]
    /\ UNCHANGED <<tables, rows, batches, sent>>

Next ==
    \/ Create
    \/ \E f \in Family :
        \/ GetMsgCount(f)
        \/ GetMessages(f)
        \/ \E msgs \in Batches : AddMessages(f, msgs)

Spec == Init /\ [][Next]_vars

-----------------------------------------------------------------------------
\* Inductive: each table holds the messages added to it, encoded.
IInv ==
    /\ sent = [f \in Family |-> sent[f]]
    /\ \A f \in Family : AreMessages(sent[f])
    /\ rows = [f \in Family |-> StoredAll(f, sent[f])]

KeptAll(msgs) == [i \in DOMAIN msgs |-> Kept(msgs[i])]

\* Reading a table gives back the messages added to it, in order, each with its
\* class and all its members except the two that RefMessage does not archive: the
\* three representations are interchangeable.
ReadsBackKept == \A f \in Family : LoadedAll(f) = KeptAll(sent[f])

\* The tables together behave as three logs of messages, failures included.
Log ==
    INSTANCE MessageLog WITH
        log <- [f \in Family |-> LoadedAll(f)],
        Batch <- {KeptAll(b) : b \in Batches}

ImplementsLog == Log!Spec
=============================================================================
