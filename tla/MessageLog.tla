----------------------------- MODULE MessageLog -----------------------------
(***************************************************************************)
(* What a message table promises: batches of messages are appended whole,  *)
(* a query answers with all of them in order, and a count with the number  *)
(* of those that have an id.  An operation may fail and then changes       *)
(* nothing; a failed query answers with no message.                        *)
(***************************************************************************)
EXTENDS Naturals, Sequences, FiniteSets

CONSTANTS Family, Batch, Nil

VARIABLES log, answer

vars == <<log, answer>>

NoAnswer == [to |-> "none", value |-> Nil]

Init ==
    /\ log = [f \in Family |-> <<>>]
    /\ answer = NoAnswer

Add(f) ==
    \/ \E b \in Batch :
        /\ log' = [log EXCEPT ![f] = @ \o b]
        /\ answer' = [to |-> "add", value |-> TRUE]
    \/ /\ answer' = [to |-> "add", value |-> FALSE]
       /\ UNCHANGED log

Identified(s) == {i \in DOMAIN s : s[i].msgId # Nil}

Count(f) ==
    /\ \E n \in {Nil, Cardinality(Identified(log[f]))} : answer' = [to |-> "count", value |-> n]
    /\ UNCHANGED log

Get(f) ==
    /\ \E list \in {<<>>, log[f]} : answer' = [to |-> "get", value |-> list]
    /\ UNCHANGED log

Next == \E f \in Family : Add(f) \/ Count(f) \/ Get(f)

Spec == Init /\ [][Next]_vars
=============================================================================
