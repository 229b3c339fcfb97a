----------------------------- MODULE StoreProofs -----------------------------
(***************************************************************************)
(* Proofs about the components of Stores, which share nothing with each    *)
(* other: the codecs and the tables of messages, the members, the web      *)
(* sites, the students and their scores, and the timing log.               *)
(*                                                                         *)
(* Each theorem is about the specification of one component.  The last     *)
(* section shows that a behaviour of Stores is one of every component, so  *)
(* that the properties hold of it as well.                                 *)
(***************************************************************************)
EXTENDS Stores, SequenceLemmas

-----------------------------------------------------------------------------
(* Messages: a message survives each of the three encodings.                *)

\* The members of every class have a column in the third table.
LEMMA FieldsAreColumns == ASSUME NEW c \in Class PROVE Fields(c) \subseteq Column
BY DEF Column

\* A json dictionary gives back every member of the object it was made from.
LEMMA DictRoundTrip ==
    ASSUME NEW c \in Class, NEW s \in SubInfo(c)
    PROVE  DecodeSubInfoDict(c, Present(s)) = s
<1>1. s \in [Fields(c) -> Value \cup {Nil}] /\ \A f \in Fields(c) : s[f] = Nil => f \in OptionalField
  BY DEF SubInfo
<1>2. ASSUME NEW f \in Fields(c)
      PROVE  (IF f \in DOMAIN Present(s) THEN Present(s)[f] ELSE Default(f)) = s[f]
  BY <1>1, <1>2 DEF Present, Default
<1>3. QED BY <1>1, <1>2 DEF DecodeSubInfoDict

\* So do columns of their own, whose nulls stand for the members without a value.
LEMMA ColumnRoundTrip ==
    ASSUME NEW m, m.class \in Class, m.sub \in SubInfo(m.class)
    PROVE  DecodeSubInfoModel(m.class, EncodeSubInfoModel(m)) = m.sub
<1> DEFINE c == m.class
<1>1. m.sub \in [Fields(c) -> Value \cup {Nil}] /\ \A f \in Fields(c) : m.sub[f] = Nil => f \in OptionalField
  BY DEF SubInfo
<1>2. ASSUME NEW f \in Fields(c)
      PROVE  EncodeSubInfoModel(m)[f] = m.sub[f]
  BY FieldsAreColumns DEF EncodeSubInfoModel
<1>3. ASSUME NEW f \in Fields(c)
      PROVE  (IF m.sub[f] # Nil THEN m.sub[f] ELSE Default(f)) = m.sub[f]
  BY <1>1 DEF Default
<1>4. QED BY <1>1, <1>2, <1>3 DEF DecodeSubInfoModel

\* RefMessage loses its uid and its nickname, and nothing else.
LEMMA RefRoundTrip ==
    ASSUME NEW ref \in RefMessage
    PROVE  UnarchivedRef(ArchivedRef(ref)) = KeptRef(ref)
<1> DEFINE d == ArchivedRef(ref)
<1>1. DOMAIN d = {k \in RefKey : ref[k] # Nil}
  BY DEF ArchivedRef, Present
<1>2. \A k \in DOMAIN d : d[k] = ref[k]
  BY DEF ArchivedRef, Present
<1>3. "uid" \notin DOMAIN d /\ "nickname" \notin DOMAIN d
  BY <1>1 DEF RefKey
<1>4. \A k \in RefKey : (IF k \in DOMAIN d THEN d[k] ELSE Nil) = ref[k]
  BY <1>1, <1>2
<1>5. UnarchivedRef(d) = [msgId |-> ref.msgId, content |-> ref.content, type |-> ref.type,
                          uid |-> Nil, nickname |-> Initial]
  <2> HIDE DEF d
  <2> QED BY <1>3, <1>4 DEF UnarchivedRef, RefKey
<1>6. QED BY <1>5 DEF KeptRef

\* An archive of a reference is not the null of a message without one.
LEMMA ArchivedIsNotNil ==
    ASSUME NEW ref \in RefMessage PROVE ArchivedRef(ref) # Nil
<1> DEFINE keys == {k \in RefKey : ref[k] # Nil}
<1>1. \A k \in keys : ref[k] \in Value
  BY DEF RefMessage, RefKey
<1>2. ArchivedRef(ref) = [k \in keys |-> ref[k]]
  BY DEF ArchivedRef, Present
<1>3. ArchivedRef(ref) \in [keys -> Value] /\ keys \in SUBSET RefKey
  BY <1>1, <1>2
<1>4. QED BY <1>3, CodecAssumption

\* Every message comes back from each of the tables with all that Kept names.
THEOREM RoundTrip == ASSUME NEW f \in Family, NEW m, IsMessage(m)
    PROVE  Loaded(f, Stored(f, m)) = Kept(m)
<1>1. m.class \in Class /\ m \in MessageOf(m.class) /\ m.class = ClassOf(m.messageType)
  BY DEF IsMessage
<1>2. m = [class |-> m.class, messageType |-> m.messageType, msgId |-> m.msgId,
           rest |-> m.rest, refMsg |-> m.refMsg, sub |-> m.sub]
  BY <1>1 DEF MessageOf
<1>3. m.sub \in SubInfo(m.class) /\ m.refMsg \in RefMessage \cup {Nil}
  BY <1>1 DEF MessageOf
<1>4. Loaded(f, Stored(f, m)).sub = m.sub
  BY <1>1, <1>3, DictRoundTrip, ColumnRoundTrip DEF Loaded, Stored, EncodeSubInfoDict
<1>5. Loaded(f, Stored(f, m)).refMsg = Kept(m).refMsg
  <2>1. CASE m.refMsg = Nil
    BY <1>2, <2>1 DEF Loaded, Stored, Kept
  <2>2. CASE m.refMsg # Nil
    <3>1. UnarchivedRef(ArchivedRef(m.refMsg)) = KeptRef(m.refMsg)
      BY <1>3, <2>2, RefRoundTrip
    <3>2. ArchivedRef(m.refMsg) # Nil
      BY <1>3, <2>2, ArchivedIsNotNil
    <3>3. Loaded(f, Stored(f, m)).refMsg = UnarchivedRef(ArchivedRef(m.refMsg))
      BY <2>2, <3>2 DEF Loaded, Stored
    <3>4. Kept(m).refMsg = KeptRef(m.refMsg)
      BY <1>2, <2>2 DEF Kept
    <3> QED BY <3>1, <3>3, <3>4
  <2>3. QED BY <2>1, <2>2
<1>6. QED BY <1>1, <1>2, <1>4, <1>5 DEF Loaded, Stored, Kept

-----------------------------------------------------------------------------
\* Encoding, decoding and keeping go through a list element by element.
LEMMA TableRoundTrip == IInv => ReadsBackKept
<1> SUFFICES ASSUME IInv, NEW f \in Family
             PROVE  LoadedAll(f) = KeptAll(sent[f])
  BY DEF ReadsBackKept
<1>1. rows[f] = StoredAll(f, sent[f]) /\ AreMessages(sent[f])
  BY DEF IInv
<1>2. DOMAIN rows[f] = DOMAIN sent[f]
  BY <1>1 DEF StoredAll
<1>3. ASSUME NEW i \in DOMAIN sent[f]
      PROVE  Loaded(f, rows[f][i]) = Kept(sent[f][i])
  BY <1>1, RoundTrip DEF StoredAll, AreMessages
<1>4. QED BY <1>2, <1>3 DEF LoadedAll, KeptAll

\* Lists of messages are closed under concatenation, and StoredAll and KeptAll
\* distribute over it.
LEMMA Concatenation ==
    ASSUME NEW s, NEW t, AreMessages(s), AreMessages(t)
    PROVE  /\ AreMessages(s \o t)
           /\ \A f \in Family : StoredAll(f, s \o t) = StoredAll(f, s) \o StoredAll(f, t)
           /\ KeptAll(s \o t) = KeptAll(s) \o KeptAll(t)
<1>1. /\ s \in Seq(Range(s)) /\ t \in Seq(Range(t))
      /\ \A i \in DOMAIN s : IsMessage(s[i])
      /\ \A i \in DOMAIN t : IsMessage(t[i])
  BY DEF AreMessages
<1>2. /\ Len(s) \in Nat /\ DOMAIN s = 1..Len(s)
      /\ Len(t) \in Nat /\ DOMAIN t = 1..Len(t)
  BY <1>1
<1>3. /\ s \o t = [i \in 1..(Len(s) + Len(t)) |-> IF i <= Len(s) THEN s[i] ELSE t[i - Len(s)]]
      /\ DOMAIN (s \o t) = 1..(Len(s) + Len(t))
  <2> DEFINE S == Range(s) \cup Range(t)
  <2>1. s \in Seq(S) /\ t \in Seq(S)
    BY <1>1, SeqMonotonic
  <2>2. s \o t \in Seq(S) /\ Len(s \o t) = Len(s) + Len(t)
    BY <2>1, ConcatProperties
  <2>3. \A i \in 1..(Len(s) + Len(t)) :
            (s \o t)[i] = IF i <= Len(s) THEN s[i] ELSE t[i - Len(s)]
    BY <2>1, ConcatProperties
  <2> HIDE DEF S
  <2>4. s \o t \in [1..Len(s \o t) -> S]
    <3>1. \A u \in Seq(S) : u \in [1..Len(u) -> S]
      BY LenProperties
    <3>2. QED BY <2>2, <3>1, Zenon
  <2>5. DOMAIN (s \o t) = 1..(Len(s) + Len(t)) /\ s \o t = [i \in DOMAIN (s \o t) |-> (s \o t)[i]]
    BY <2>2, <2>4
  <2>6. QED BY <2>3, <2>5
<1>4. AreMessages(s \o t)
  <2>1. \A i \in DOMAIN (s \o t) : IsMessage((s \o t)[i])
    BY <1>1, <1>2, <1>3
  <2>2. s \o t \in Seq(Range(s \o t))
    <3>1. \A i \in DOMAIN (s \o t) : (s \o t)[i] \in Range(s \o t)
      BY DEF Range
    <3>2. s \o t \in [1..(Len(s) + Len(t)) -> Range(s \o t)]
      BY <3>1, <1>3
    <3>3. Len(s) + Len(t) \in Nat
      BY <1>2
    <3>4. QED
      <4> DEFINE n == Len(s) + Len(t)
      <4> HIDE DEF n
      <4>1. \A S : [1..n -> S] \subseteq Seq(S)
        BY <3>3, SeqDef DEF n
      <4>2. QED BY <3>2, <4>1 DEF n
  <2>3. QED BY <2>1, <2>2 DEF AreMessages
<1>5. ASSUME NEW f \in Family
      PROVE  StoredAll(f, s \o t) = StoredAll(f, s) \o StoredAll(f, t)
  <2>1. /\ StoredAll(f, s) = [i \in 1..Len(s) |-> Stored(f, s[i])]
        /\ StoredAll(f, t) = [i \in 1..Len(t) |-> Stored(f, t[i])]
        /\ StoredAll(f, s \o t) = [i \in 1..(Len(s) + Len(t)) |-> Stored(f, (s \o t)[i])]
    BY <1>2, <1>3 DEF StoredAll
  <2>2. QED BY <2>1, <1>2, <1>3
<1>6. KeptAll(s \o t) = KeptAll(s) \o KeptAll(t)
  <2>1. /\ KeptAll(s) = [i \in 1..Len(s) |-> Kept(s[i])]
        /\ KeptAll(t) = [i \in 1..Len(t) |-> Kept(t[i])]
        /\ KeptAll(s \o t) = [i \in 1..(Len(s) + Len(t)) |-> Kept((s \o t)[i])]
    BY <1>2, <1>3 DEF KeptAll
  <2>2. QED BY <2>1, <1>2, <1>3
<1>7. QED BY <1>4, <1>5, <1>6

-----------------------------------------------------------------------------
\* The empty tables hold what was added to them.
LEMMA InitIInv == Init => IInv
<1> SUFFICES ASSUME Init PROVE IInv
  OBVIOUS
<1>1. AreMessages(<<>>)
  BY DEF AreMessages, Range
<1>2. \A f \in Family : StoredAll(f, <<>>) = <<>>
  BY DEF StoredAll
<1>3. sent = [f \in Family |-> <<>>] /\ rows = [f \in Family |-> <<>>]
  BY DEF Init
<1>4. rows = [f \in Family |-> StoredAll(f, sent[f])]
  BY <1>2, <1>3
<1>5. QED BY <1>1, <1>3, <1>4 DEF IInv

\* Every step leaves the tables holding the encodings of what was added to them.
LEMMA NextIInv == IInv /\ [Next]_vars => IInv'
<1> SUFFICES ASSUME IInv, [Next]_vars PROVE IInv'
  OBVIOUS
<1>1. CASE UNCHANGED <<rows, sent>>
  BY <1>1 DEF IInv, AreMessages, StoredAll
<1>2. ASSUME NEW f \in Family, NEW msgs \in Batches, AddMessages(f, msgs), ~UNCHANGED <<rows, sent>>
      PROVE  IInv'
  <2>1. /\ rows' = [rows EXCEPT ![f] = @ \o StoredAll(f, msgs)]
        /\ sent' = [sent EXCEPT ![f] = @ \o msgs]
    BY <1>2 DEF AddMessages
  <2>2. AreMessages(msgs) /\ AreMessages(sent[f])
    BY StoreAssumption DEF IInv
  <2>3. AreMessages(sent[f] \o msgs)
        /\ StoredAll(f, sent[f] \o msgs) = StoredAll(f, sent[f]) \o StoredAll(f, msgs)
    BY <2>2, Concatenation
  <2>4. /\ sent' = [g \in Family |-> IF g = f THEN sent[f] \o msgs ELSE sent[g]]
        /\ rows' = [g \in Family |-> IF g = f THEN rows[f] \o StoredAll(f, msgs) ELSE rows[g]]
    BY <2>1 DEF IInv
  <2>5. \A g \in Family : AreMessages(sent'[g])
    BY <2>3, <2>4 DEF IInv
  <2>6. \A g \in Family : rows'[g] = StoredAll(g, sent'[g])
    BY <2>3, <2>4 DEF IInv
  <2>7. QED
    <3>1. sent' = [g \in Family |-> sent'[g]] /\ rows' = [g \in Family |-> StoredAll(g, sent'[g])]
      BY <2>4, <2>6
    <3>2. QED BY <2>5, <3>1 DEF IInv, AreMessages, StoredAll
<1>3. CASE Create
  BY <1>1, <1>3 DEF Create
<1>4. ASSUME NEW f \in Family, GetMsgCount(f) \/ GetMessages(f)
      PROVE  IInv'
  BY <1>1, <1>4 DEF GetMsgCount, GetMessages
<1>5. QED BY <1>1, <1>2, <1>3, <1>4 DEF Next, vars

-----------------------------------------------------------------------------
\* Every table holds the encodings of the messages added to it.
THEOREM TablesHoldEncodings == Spec => []IInv
BY InitIInv, NextIInv, PTL DEF Spec

\* Whatever fails, each of the three tables reads back what was added to it.
THEOREM ReadBack == Spec => []ReadsBackKept
BY TableRoundTrip, TablesHoldEncodings, PTL

-----------------------------------------------------------------------------
\* The empty tables are empty logs.
LEMMA InitRefines == Init => Log!Init
<1> SUFFICES ASSUME Init PROVE Log!Init
  OBVIOUS
<1>1. \A f \in Family : LoadedAll(f) = <<>>
  BY DEF Init, LoadedAll
<1>2. QED BY <1>1 DEF Init, Log!Init, Log!NoAnswer

\* Every step of the tables is a step of the logs, or none.
LEMMA NextRefines == IInv /\ IInv' /\ [Next]_vars => [Log!Next]_(Log!vars)
<1> SUFFICES ASSUME IInv, IInv', [Next]_vars PROVE [Log!Next]_(Log!vars)
  OBVIOUS
<1> DEFINE log == [f \in Family |-> LoadedAll(f)]
<1>0. ASSUME UNCHANGED rows PROVE UNCHANGED log
  BY <1>0 DEF LoadedAll
<1>1. CASE UNCHANGED vars
  BY <1>0, <1>1 DEF vars, Log!vars
<1>2. CASE Create
  BY <1>0, <1>2 DEF Create, Log!vars
<1>3. ASSUME NEW f \in Family, GetMsgCount(f) PROVE Log!Next
  <2>1. UNCHANGED log
    BY <1>0, <1>3 DEF GetMsgCount
  <2>2. Counted(f) = Cardinality(Log!Identified(log[f]))
    <3>1. /\ DOMAIN LoadedAll(f) = DOMAIN rows[f]
          /\ \A i \in DOMAIN rows[f] : LoadedAll(f)[i].msgId = rows[f][i].msgId
      BY DEF LoadedAll, Loaded
    <3>2. {i \in DOMAIN rows[f] : rows[f][i].msgId # Nil} = Log!Identified(log[f])
      BY <3>1 DEF Log!Identified
    <3>3. QED BY <3>2 DEF Counted
  <2>3. \A S : Log!Cardinality(S) = Cardinality(S)
    BY DEF Cardinality, Log!Cardinality, IsFiniteSet, Log!IsFiniteSet
  <2>4. answer' \in {[to |-> "count", value |-> n] : n \in {Nil, Log!Cardinality(Log!Identified(log[f]))}}
    BY <1>3, <2>2, <2>3 DEF GetMsgCount
  <2>5. Log!Count(f)
    BY <2>1, <2>4 DEF Log!Count
  <2>6. QED BY <2>5 DEF Log!Next
<1>4. ASSUME NEW f \in Family, GetMessages(f) PROVE Log!Next
  <2>1. UNCHANGED log
    BY <1>0, <1>4 DEF GetMessages
  <2>2. Log!Get(f)
    BY <1>4, <2>1 DEF GetMessages, Log!Get
  <2>3. QED BY <2>2 DEF Log!Next
<1>5. ASSUME NEW f \in Family, NEW msgs \in Batches, AddMessages(f, msgs) PROVE Log!Next
  <2>1. CASE UNCHANGED rows /\ answer' = [to |-> "add", value |-> FALSE]
    BY <1>0, <2>1 DEF Log!Add, Log!Next
  <2>2. CASE /\ rows' = [rows EXCEPT ![f] = @ \o StoredAll(f, msgs)]
             /\ sent' = [sent EXCEPT ![f] = @ \o msgs]
             /\ answer' = [to |-> "add", value |-> TRUE]
    <3>1. \A g \in Family : LoadedAll(g) = KeptAll(sent[g])
      BY TableRoundTrip DEF ReadsBackKept
    <3>2. \A g \in Family : LoadedAll(g)' = KeptAll(sent'[g])
      <4>1. ReadsBackKept'
        BY TableRoundTrip, PTL
      <4>2. QED BY <4>1 DEF ReadsBackKept
    <3>3. KeptAll(sent[f] \o msgs) = KeptAll(sent[f]) \o KeptAll(msgs)
      BY Concatenation, StoreAssumption DEF IInv
    <3>4. sent' = [g \in Family |-> IF g = f THEN sent[f] \o msgs ELSE sent[g]]
      BY <2>2 DEF IInv
    <3>5. log' = [log EXCEPT ![f] = @ \o KeptAll(msgs)]
      BY <3>1, <3>2, <3>3, <3>4
    <3>6. Log!Add(f)
      BY <2>2, <3>5 DEF Log!Add
    <3>7. QED BY <3>6 DEF Log!Next
  <2>3. QED BY <1>5, <2>1, <2>2 DEF AddMessages
<1>6. QED BY <1>1, <1>2, <1>3, <1>4, <1>5 DEF Next

\* The three tables implement three logs of messages, failed operations included.
THEOREM Implementation == Spec => ImplementsLog
<1>1. Spec => Log!Spec
  BY InitRefines, NextRefines, TablesHoldEncodings, PTL DEF Spec, Log!Spec
<1>2. QED BY <1>1 DEF ImplementsLog

-----------------------------------------------------------------------------
(* Members.                                                                 *)

\* Every member that is ever added.
Known == UNION {Range(list) : list \in MemberLists}

Lost == [user |-> Array, isFriend |-> Nil, remarkName |-> Nil, isOnline |-> Nil,
         groupID |-> Nil, type |-> Nil]

\* The rows updated are all alike, the others are those of the members added.
MemberInv ==
    /\ added \in Seq(Known)
    /\ updated \in 0..Len(added)
    /\ members = [i \in DOMAIN added |->
                    IF i <= updated THEN Lost ELSE Members!DbModel(added[i])]

\* Every member that is added has all its properties.
LEMMA KnownAreInfo ==
    ASSUME Members!MemberAssumption, NEW m \in Known
    PROVE  Members!IsInfo(m)
BY DEF Members!MemberAssumption, Known, Range

\* Concatenation, element by element.
LEMMA ConcatAsFunction ==
    ASSUME NEW A, NEW s \in Seq(A), NEW t \in Seq(A)
    PROVE  /\ s \o t \in Seq(A) /\ Len(s \o t) = Len(s) + Len(t) /\ Len(s) \in Nat /\ Len(t) \in Nat
           /\ DOMAIN (s \o t) = 1..Len(s) + Len(t) /\ DOMAIN s = 1..Len(s) /\ DOMAIN t = 1..Len(t)
           /\ \A i \in 1..Len(s) + Len(t) : (s \o t)[i] = IF i <= Len(s) THEN s[i] ELSE t[i - Len(s)]
           /\ s \o t = [i \in 1..Len(s) + Len(t) |-> IF i <= Len(s) THEN s[i] ELSE t[i - Len(s)]]
<1>1. s \o t \in Seq(A) /\ Len(s \o t) = Len(s) + Len(t)
    BY ConcatProperties
<1>2. Len(s) \in Nat /\ Len(t) \in Nat /\ DOMAIN s = 1..Len(s) /\ DOMAIN t = 1..Len(t)
    BY LenProperties
<1>3. DOMAIN (s \o t) = 1..Len(s \o t) /\ s \o t \in [1..Len(s \o t) -> A]
    BY <1>1, LenProperties
<1>4. \A i \in 1..Len(s) + Len(t) : (s \o t)[i] = IF i <= Len(s) THEN s[i] ELSE t[i - Len(s)]
    BY ConcatProperties
<1>5. s \o t = [i \in 1..Len(s) + Len(t) |-> (s \o t)[i]]
    BY <1>1, <1>3
<1> QED
    BY <1>1, <1>2, <1>3, <1>4, <1>5

\* At first there is no member.
LEMMA InitMembers == Members!Init => MemberInv
BY DEF Members!Init, MemberInv


\* The operators of the modules instantiated are those of this one.
LEMMA MemberRange == \A f : Members!Range(f) = Range(f)
BY DEF Range, Members!Range

\* Choosing is the same operator in the module instantiated.
LEMMA MemberOnly == \A s, S : Members!Only(s, S) = Only(s, S)
BY DEF Only, Members!Only

\* Members are added behind those there are, and an update reaches every row.
LEMMA StepMembers ==
    ASSUME Members!MemberAssumption, MemberInv, [Members!Next]_(Members!vars)
    PROVE  MemberInv'
<1>1. CASE UNCHANGED <<members, added, updated>>
    BY <1>1 DEF MemberInv, Members!DbModel
<1>2. ASSUME NEW list \in MemberLists, Members!AddMembers(list), ~UNCHANGED <<members, added, updated>>
      PROVE  MemberInv'
    <2>1. /\ members' = members \o [i \in DOMAIN list |-> Members!DbModel(list[i])]
          /\ added' = added \o list /\ updated' = updated
        BY <1>2 DEF Members!AddMembers, Members!Fails
    <2>2. list \in Seq(Known)
        <3>1. list \in Seq(Range(list)) /\ Range(list) \subseteq Known
            BY MemberRange DEF Members!MemberAssumption, Known
        <3> QED BY <3>1, SeqMonotonic
    <2>3. /\ added' \in Seq(Known) /\ Len(added') = Len(added) + Len(list)
          /\ Len(added) \in Nat /\ Len(list) \in Nat
          /\ DOMAIN added' = 1..Len(added) + Len(list) /\ DOMAIN added = 1..Len(added) /\ DOMAIN list = 1..Len(list)
          /\ \A i \in 1..Len(added) + Len(list) :
                added'[i] = IF i <= Len(added) THEN added[i] ELSE list[i - Len(added)]
        BY <2>1, <2>2, ConcatAsFunction DEF MemberInv
    <2> DEFINE old == [i \in 1..Len(added) |-> IF i <= updated THEN Lost ELSE Members!DbModel(added[i])]
               new == [i \in 1..Len(list) |-> Members!DbModel(list[i])]
    <2>4. /\ members = old /\ members' = old \o new
          /\ \A i \in 1..Len(added) : old[i] = IF i <= updated THEN Lost ELSE Members!DbModel(added[i])
          /\ \A i \in 1..Len(list) : new[i] = Members!DbModel(list[i])
        BY <2>1, <2>3 DEF MemberInv
    <2>5. \E A : old \in Seq(A) /\ new \in Seq(A)
        <3> DEFINE A == Range(old) \cup Range(new)
        <3>1. old \in [1..Len(added) -> A] /\ new \in [1..Len(list) -> A]
            BY DEF Range
        <3>0. Len(added) \in Nat /\ Len(list) \in Nat
            BY <2>3
        <3> HIDE DEF old, new, A
        <3>2. old \in Seq(A) /\ new \in Seq(A)
            BY <3>0, <3>1, TupleIsSeq
        <3> QED BY <3>2
    <2>6. Len(old) = Len(added) /\ Len(new) = Len(list)
        BY <2>3
    <2>7. old \o new = [i \in 1..Len(added) + Len(list) |->
                            IF i <= Len(added) THEN old[i] ELSE new[i - Len(added)]]
        <3> HIDE DEF old, new
        <3>1. PICK A : old \in Seq(A) /\ new \in Seq(A)
            BY <2>5
        <3>2. old \o new = [i \in 1..Len(old) + Len(new) |-> IF i <= Len(old) THEN old[i] ELSE new[i - Len(old)]]
            BY <3>1, ConcatAsFunction
        <3> QED BY <2>6, <3>2
    <2>8. updated' \in 0..Len(added')
        BY <2>1, <2>3 DEF MemberInv
    <2>9. \A i \in 1..Len(added) + Len(list) :
            (IF i <= Len(added) THEN old[i] ELSE new[i - Len(added)])
                = IF i <= updated' THEN Lost ELSE Members!DbModel(added'[i])
        <3> SUFFICES ASSUME NEW i \in 1..Len(added) + Len(list)
                     PROVE (IF i <= Len(added) THEN old[i] ELSE new[i - Len(added)])
                                = IF i <= updated' THEN Lost ELSE Members!DbModel(added'[i])
            OBVIOUS
        <3>1. updated' = updated /\ updated \in 0..Len(added)
            BY <2>1 DEF MemberInv
        <3> HIDE DEF old, new
        <3>2. CASE i <= Len(added)
            BY <2>3, <2>4, <3>1, <3>2
        <3>3. CASE ~(i <= Len(added))
            BY <2>3, <2>4, <3>1, <3>3
        <3> QED BY <3>2, <3>3
    <2> HIDE DEF old, new
    <2>10. members' = [i \in DOMAIN added' |-> IF i <= updated' THEN Lost ELSE Members!DbModel(added'[i])]
        BY <2>3, <2>4, <2>7, <2>9
    <2> QED BY <2>3, <2>8, <2>10 DEF MemberInv, Members!DbModel
<1>3. ASSUME Members!DeleteAll PROVE MemberInv'
    <2>1. CASE UNCHANGED <<members, added, updated>>
        BY <1>1, <2>1
    <2>2. CASE members' = <<>> /\ added' = <<>> /\ updated' = 0
        BY <2>2 DEF MemberInv
    <2> QED BY <1>3, <2>1, <2>2 DEF Members!DeleteAll, Members!Fails
<1>4. ASSUME NEW list \in MemberLists, Members!Update(list) PROVE MemberInv'
    <2>1. CASE UNCHANGED <<members, added, updated>>
        BY <1>1, <2>1
    <2>2. CASE /\ members' = [i \in DOMAIN members |-> Members!Overwritten(members[i], list)]
               /\ updated' = Len(members) /\ added' = added
        <3>1. DOMAIN added = 1..Len(added) /\ Len(added) \in Nat /\ DOMAIN members = DOMAIN added
            BY LenProperties DEF MemberInv
        <3>2. Len(members) = Len(added)
            BY <3>1 DEF MemberInv
        <3>3. members' = [i \in DOMAIN members |-> Lost]
            BY <2>2 DEF Members!Overwritten, Lost
        <3>4. members' = [i \in DOMAIN added' |-> IF i <= updated' THEN Lost ELSE Members!DbModel(added'[i])]
            BY <2>2, <3>1, <3>2, <3>3
        <3> QED BY <2>2, <3>1, <3>2, <3>4 DEF MemberInv, Members!DbModel
    <2> QED BY <1>4, <2>1, <2>2 DEF Members!Update, Members!Fails
<1>5. CASE Members!Create
    BY <1>1, <1>5 DEF Members!Create
<1>6. CASE Members!AllMembers
    BY <1>1, <1>6 DEF Members!AllMembers, Members!Fails
<1>7. ASSUME NEW word \in Words, Members!SearchMember(word) PROVE MemberInv'
    BY <1>1, <1>7 DEF Members!SearchMember, Members!Fails
<1>8. CASE UNCHANGED Members!vars
    BY <1>1, <1>8 DEF Members!vars
<1> QED
    BY <1>1, <1>2, <1>3, <1>4, <1>5, <1>6, <1>7, <1>8 DEF Members!Next

\* What reading a row gives.
LEMMA ReadBackMember ==
    ASSUME Members!MemberAssumption
    PROVE  /\ Members!BizModel(Lost) = NewInfo
           /\ \A m \in Known : Members!BizModel(Members!DbModel(m)) = m
<1>1. Members!IsInfo(NewInfo)
    BY DEF Members!MemberAssumption
<1>2. Members!BizModel(Lost) = NewInfo
    BY <1>1 DEF Members!BizModel, Lost, Members!UserOf, Members!IsInfo
<1>3. ASSUME NEW m \in Known PROVE Members!BizModel(Members!DbModel(m)) = m
    BY KnownAreInfo DEF Members!BizModel, Members!DbModel, Members!UserOf, Members!IsInfo
<1> QED BY <1>2, <1>3

\* A row that no update has reached is read as its member.
LEMMA NotUpdatedIsRead ==
    ASSUME Members!MemberAssumption, MemberInv
    PROVE  Members!AddedIsRead
<1>1. ASSUME NEW i \in DOMAIN added, i > updated
      PROVE  Members!BizModel(members[i]) = added[i]
    <2>1. DOMAIN added = 1..Len(added) /\ Len(added) \in Nat /\ added[i] \in Known
        BY ElementOfSeq, LenProperties DEF MemberInv
    <2>2. ~(i <= updated)
        BY <1>1, <2>1 DEF MemberInv
    <2>3. members[i] = Members!DbModel(added[i])
        BY <2>2 DEF MemberInv
    <2> QED BY <2>1, <2>3, ReadBackMember
<1>2. DOMAIN members = DOMAIN added
    BY DEF MemberInv
<1> QED BY <1>1, <1>2 DEF Members!AddedIsRead, Members!BizModels

\* Members that were not updated since they were added are read back as they were
\* added, in order.
THEOREM AddedAreRead == Members!Spec => []AddedIsRead
<1> USE StoresAssumption DEF StoresAssumption
<1>1. MemberInv /\ [Members!Next]_(Members!vars) => MemberInv'
    BY StepMembers
<1>2. MemberInv => Members!AddedIsRead
    BY NotUpdatedIsRead
<1> QED
    BY InitMembers, <1>1, <1>2, PTL DEF AddedIsRead, Members!Spec

\* A row's copy of the name is that of the user it decodes to.
LEMMA CopyAgrees ==
    ASSUME Members!MemberAssumption, MemberInv, NEW r \in Range(members), NEW word \in Words
    PROVE  Members!Like(word, r) <=> Members!Named(word, Members!BizModel(r))
<1>1. PICK i \in DOMAIN added : r = IF i <= updated THEN Lost ELSE Members!DbModel(added[i])
    BY DEF MemberInv, Range
<1>2. added[i] \in Known
    BY ElementOfSeq, LenProperties DEF MemberInv
<1>3. CASE r = Lost
    <2>1. ~Members!Like(word, r)
        BY <1>3 DEF Members!Like, Lost
    <2>2. ~Members!Named(word, NewInfo)
        BY DEF Members!Named, Members!MemberAssumption
    <2> QED BY <1>3, <2>1, <2>2, ReadBackMember
<1>4. CASE r = Members!DbModel(added[i])
    <2>1. r.remarkName = added[i].user.remarkName /\ added[i].user.remarkName # Nil
        BY <1>2, <1>4, KnownAreInfo DEF Members!DbModel, Members!IsInfo
    <2>2. Members!BizModel(r) = added[i]
        BY <1>2, <1>4, ReadBackMember
    <2> QED BY <2>1, <2>2 DEF Members!Like, Members!Named
<1> QED BY <1>1, <1>3, <1>4

\* Finding by the column and then reading is reading all and then choosing.
LEMMA FoundIsNamed ==
    ASSUME Members!MemberAssumption, MemberInv
    PROVE  Members!SearchAgreesWithAll
<1> SUFFICES ASSUME NEW word \in Words
             PROVE  Members!Found(word) = Only(Members!BizModels(members),
                                {m \in Range(Members!BizModels(members)) : Members!Named(word, m)})
    BY MemberOnly, MemberRange DEF Members!SearchAgreesWithAll
<1> DEFINE A == Range(members)
           g == [r \in A |-> Members!BizModel(r)]
           S == {r \in A : Members!Like(word, r)}
           T == {m \in Range(Applied(g, members)) : Members!Named(word, m)}
<1>1. members \in Seq(A)
    <2>1. Len(added) \in Nat /\ DOMAIN added = 1..Len(added)
        BY LenProperties DEF MemberInv
    <2>2. members \in [1..Len(added) -> A]
        BY <2>1 DEF MemberInv, Range
    <2> HIDE DEF A
    <2> QED BY <2>1, <2>2, TupleIsSeq
<1>3. ASSUME NEW s \in Seq(A) PROVE Members!BizModels(s) = Applied(g, s)
    <2>1. \A i \in DOMAIN s : s[i] \in A
        BY LenProperties, ElementOfSeq
    <2> QED BY <2>1 DEF Members!BizModels, Applied
<1>4. MapsChosen(A, g, S, T)
    <2> SUFFICES ASSUME NEW x \in A PROVE x \in S <=> g[x] \in T
        BY DEF MapsChosen
    <2>1. Members!Like(word, x) <=> Members!Named(word, g[x])
        BY CopyAgrees
    <2>2. g[x] \in Range(Applied(g, members))
        BY DEF Range, Applied
    <2> HIDE DEF g
    <2> QED BY <2>1, <2>2
<1>5. Only(members, S) \in Seq(A)
    <2> HIDE DEF A, S
    <2> QED BY <1>1, OnlyChooses
<1>6. Only(Applied(g, members), T) = Applied(g, Only(members, S))
    <2> HIDE DEF A, g, S, T
    <2> QED BY <1>1, <1>4, OnlyApplied
<1>7. Members!Found(word) = Members!BizModels(Only(members, S))
    BY MemberOnly, MemberRange DEF Members!Found
<1>8. T = {m \in Range(Members!BizModels(members)) : Members!Named(word, m)}
    BY <1>1, <1>3
<1> HIDE DEF A, g, S, T
<1> QED BY <1>1, <1>3, <1>5, <1>6, <1>7, <1>8

\* Searching for a word by the copied column finds exactly the members that reading
\* them all shows with that word in their name, in the same order.
THEOREM SearchAgrees == Members!Spec => []SearchAgreesWithAll
<1> USE StoresAssumption DEF StoresAssumption
<1>1. MemberInv /\ [Members!Next]_(Members!vars) => MemberInv'
    BY StepMembers
<1>2. MemberInv => Members!SearchAgreesWithAll
    BY FoundIsNamed
<1> QED
    BY InitMembers, <1>1, <1>2, PTL DEF SearchAgreesWithAll, Members!Spec

-----------------------------------------------------------------------------
(* Web sites.                                                               *)

\* The cardinality of the module instantiated is the one of this module.
LEMMA SiteCardinality == \A S : WebSites!Cardinality(S) = Cardinality(S)
BY DEF Cardinality, WebSites!Cardinality

Sites == UNION {Range(batch) : batch \in SiteBatches}

\* The names and ranks of sites.
SiteTyped(site) ==
    /\ site.name \in Nat \cup {Nil}
    /\ site.alexa \in Nat \cup {Nil}

TableTyped == webSites \in Seq(Sites)

\* The range of a list is the same operator in the module instantiated.
LEMMA SiteRange == \A f : WebSites!Range(f) = Range(f)
BY DEF Range, WebSites!Range

\* The sites clients add are typed.
LEMMA SitesTyped ==
    ASSUME WebSites!WebSiteAssumption, TableTyped
    PROVE  /\ Nil \notin Nat
           /\ DOMAIN webSites = 1..Len(webSites) /\ Len(webSites) \in Nat
           /\ \A i \in DOMAIN webSites : SiteTyped(webSites[i])
<1>1. \A site \in Sites : SiteTyped(site)
    BY DEF WebSites!WebSiteAssumption, Sites, SiteTyped, Range
<1>2. DOMAIN webSites = 1..Len(webSites) /\ Len(webSites) \in Nat /\ \A i \in DOMAIN webSites : webSites[i] \in Sites
    BY LenProperties, ElementOfSeq DEF TableTyped
<1> QED BY <1>1, <1>2 DEF WebSites!WebSiteAssumption

\* The order is one, but for ties.
LEMMA OrderOfSites ==
    ASSUME WebSites!WebSiteAssumption, TableTyped,
           NEW i \in DOMAIN webSites, NEW j \in DOMAIN webSites
    PROVE  /\ ~WebSites!Before(i, i)
           /\ ~(WebSites!Before(i, j) /\ WebSites!Before(j, i))
           /\ \A k \in DOMAIN webSites :
                WebSites!Before(i, j) /\ WebSites!Before(j, k) => WebSites!Before(i, k)
<1>1. \A n \in DOMAIN webSites :
        /\ WebSites!Place(webSites[n].name) \in Int
        /\ WebSites!Place(webSites[n].alexa) \in Int
    <2>1. TAKE n \in DOMAIN webSites
    <2>2. SiteTyped(webSites[n])
        BY SitesTyped
    <2> QED BY <2>2 DEF SiteTyped, WebSites!Place
<1> HIDE DEF WebSites!Place
<1> QED BY <1>1 DEF WebSites!Before

\* The sites of a set that come before one of them.
Ahead(ids, i) == {j \in ids : WebSites!Before(j, i)}

\* An order has every site, once.
LEMMA OrderTyped ==
    ASSUME WebSites!WebSiteAssumption, TableTyped,
           NEW ids \in SUBSET (DOMAIN webSites), NEW s \in WebSites!Orders(ids)
    PROVE  /\ s \in Seq(ids) /\ Len(s) \in Nat
           /\ \A p \in 1..Len(s) : s[p] \in ids
           /\ \A i \in ids : \E p \in 1..Len(s) : s[p] = i
           /\ \A p, q \in 1..Len(s) : p # q => s[p] # s[q]
           /\ \A p, q \in 1..Len(s) : p < q => ~WebSites!Before(s[q], s[p])
<1> DEFINE n == Cardinality(ids)
<1>0. IsFiniteSet(ids) /\ n \in Nat
    <2>1. IsFiniteSet(DOMAIN webSites)
        BY SitesTyped, FS_Interval
    <2> QED BY <2>1, FS_Subset, FS_CardinalityType
<1>1. /\ s \in [1..n -> ids]
      /\ \A p, q \in 1..n : p # q => s[p] # s[q]
      /\ \A p, q \in 1..n : p < q => ~WebSites!Before(s[q], s[p])
    BY SiteCardinality DEF WebSites!Orders, WebSites!SetToSeqs
<1> HIDE DEF n
<1>2. s \in Seq(ids) /\ Len(s) = n
    BY <1>0, <1>1, TupleIsSeq
<1>3. \A i \in ids : \E p \in 1..n : s[p] = i
    <2>1. s \in Injection(1..n, ids)
        BY <1>1 DEF Injection, IsInjective
    <2>2. Cardinality(1..n) = n
        BY <1>0, FS_Interval
    <2>3. s \in Surjection(1..n, ids)
        BY <1>0, <2>1, <2>2, FS_Injection DEF n
    <2> QED BY <2>3 DEF Surjection
<1> QED
    BY <1>0, <1>1, <1>2, <1>3

\* Without ties, its p-th site has p - 1 ahead of it.
LEMMA OrderRanks ==
    ASSUME WebSites!WebSiteAssumption, TableTyped,
           NEW ids \in SUBSET (DOMAIN webSites), ~WebSites!Tied(ids),
           NEW s \in WebSites!Orders(ids)
    PROVE  \A p \in 1..Len(s) : Cardinality(Ahead(ids, s[p])) = p - 1
<1> DEFINE n == Len(s)
<1>1. /\ n \in Nat /\ \A p \in 1..n : s[p] \in ids
      /\ \A p, q \in 1..n : p # q => s[p] # s[q]
      /\ \A p, q \in 1..n : p < q => ~WebSites!Before(s[q], s[p])
    BY OrderTyped
<1>0. n \in Nat
    BY <1>1
<1>3. \A i \in ids : \E p \in 1..n : s[p] = i
    BY OrderTyped
<1> HIDE DEF n
<1>4. ASSUME NEW p \in 1..n PROVE Cardinality(Ahead(ids, s[p])) = p - 1
    <2> DEFINE f == [q \in 1..p - 1 |-> s[q]]
    <2>1. \A q \in 1..n : WebSites!Before(s[q], s[p]) <=> q < p
        <3> SUFFICES ASSUME NEW q \in 1..n PROVE WebSites!Before(s[q], s[p]) <=> q < p
            OBVIOUS
        <3>1. s[q] \in ids /\ s[p] \in ids
            BY <1>1
        <3>2. CASE q = p
            BY <3>1, <3>2, OrderOfSites, <1>0
        <3>3. CASE q < p
            BY <3>1, <3>3, <1>0, <1>1 DEF WebSites!Tied
        <3>4. CASE p < q
            BY <3>4, <1>0, <1>1
        <3> QED BY <3>2, <3>3, <3>4, <1>0
    <2>2. f \in Bijection(1..p - 1, Ahead(ids, s[p]))
        <3>1. \A q \in 1..p - 1 : q \in 1..n /\ f[q] = s[q] /\ q < p
            BY <1>0
        <3>2. f \in [1..p - 1 -> Ahead(ids, s[p])]
            BY <1>1, <2>1, <3>1 DEF Ahead
        <3>3. \A a, b \in 1..p - 1 : f[a] = f[b] => a = b
            BY <1>1, <3>1
        <3>4. \A i \in Ahead(ids, s[p]) : \E q \in 1..p - 1 : f[q] = i
            <4> SUFFICES ASSUME NEW i \in Ahead(ids, s[p]) PROVE \E q \in 1..p - 1 : f[q] = i
                OBVIOUS
            <4>1. PICK q \in 1..n : s[q] = i
                BY <1>3 DEF Ahead
            <4>2. q < p
                BY <4>1, <2>1 DEF Ahead
            <4>3. q \in 1..p - 1
                BY <4>2, <1>0
            <4> QED BY <4>1, <4>3, <3>1
        <3> HIDE DEF f
        <3> QED BY <3>2, <3>3, <3>4 DEF Bijection, Injection, IsInjective, Surjection
    <2>3. p - 1 \in Nat
        BY <1>0
    <2> HIDE DEF f
    <2> QED BY <2>2, <2>3, FS_CountingElements DEF ExistsBijection
<1> QED
    BY <1>4 DEF n

\* The page of s from offset on.
IsPageOf(page, s, size, offset) ==
    /\ Len(page) \in Nat /\ Len(page) <= size
    /\ \A k \in 1..Len(page) : offset + k \in 1..Len(s) /\ page[k] = s[offset + k]
    /\ \A p \in 1..Len(s) : offset < p /\ p <= offset + size => p - offset \in 1..Len(page)
    /\ Len(page) < size <=> Len(s) < offset + size

\* A page is the sites at its places.
LEMMA PageOfOrder ==
    ASSUME NEW S, NEW s \in Seq(S), NEW size \in Nat \ {0}, size # Nil, NEW offset \in Nat,
           NEW page, page = WebSites!Cut(s, size, offset)
    PROVE  page \in Seq(S) /\ IsPageOf(page, s, size, offset)
<1> DEFINE e == IF offset + size > Len(s) THEN Len(s) ELSE offset + size
<1>1. Len(s) \in Nat /\ e \in Int /\ e <= Len(s) /\ \A p \in 1..Len(s) : s[p] \in S
    BY LenProperties, ElementOfSeq
<1>2. page = SubSeq(s, offset + 1, e)
    BY DEF WebSites!Cut
<1>3. offset + 1 \in Int /\ \A p \in offset + 1..e : s[p] \in S
    <2>1. \A p \in offset + 1..e : p \in 1..Len(s)
        BY <1>1
    <2> QED BY <1>1, <2>1
<1> HIDE DEF e
<1>4. /\ page \in Seq(S)
      /\ Len(page) = IF offset + 1 <= e THEN e - (offset + 1) + 1 ELSE 0
      /\ \A k \in 1..e - (offset + 1) + 1 : page[k] = s[offset + 1 + k - 1]
    BY <1>1, <1>2, <1>3, SubSeqProperties
<1>5. Len(page) = IF offset < e THEN e - offset ELSE 0
    BY <1>1, <1>4
<1>6. \A k \in 1..Len(page) : offset + k \in 1..Len(s) /\ page[k] = s[offset + k]
    <2> SUFFICES ASSUME NEW k \in 1..Len(page)
                 PROVE  offset + k \in 1..Len(s) /\ page[k] = s[offset + k]
        OBVIOUS
    <2>1. offset < e /\ k \in 1..e - offset
        BY <1>1, <1>5
    <2>2. k \in 1..e - (offset + 1) + 1 /\ offset + 1 + k - 1 = offset + k
        BY <1>1, <2>1
    <2>3. page[k] = s[offset + k]
        BY <1>4, <2>2
    <2> QED BY <1>1, <2>1, <2>3
<1>7. \A p \in 1..Len(s) : offset < p /\ p <= offset + size => p - offset \in 1..Len(page)
    BY <1>1, <1>5 DEF e
<1>8. Len(page) \in Nat /\ Len(page) <= size /\ (Len(page) < size <=> Len(s) < offset + size)
    BY <1>1, <1>5 DEF e
<1> QED BY <1>4, <1>6, <1>7, <1>8 DEF IsPageOf

-----------------------------------------------------------------------------
Size == scroll.req.pageSize
Wanted == WebSites!Matching(scroll.req)

ScrollTyped ==
    /\ scroll.at \in {"none", "page", "done"}
    /\ scroll.at # "none" =>
        scroll \in [at : {"page", "done"}, req : Requests, num : Nat, shown : Seq(Nat), start : SUBSET Nat,
                    grew : BOOLEAN, replaced : BOOLEAN, tied : BOOLEAN]

\* Until a row is replaced, what matched still matches, and what matches now did
\* unless sites were added.
StartKept ==
    scroll.at # "none" /\ ~scroll.replaced =>
        /\ scroll.start \subseteq Wanted
        /\ ~scroll.grew => Wanted \subseteq scroll.start

\* What matched at first and was not shown is on a later page: as many sites as
\* the pages loaded have places are ahead of it.
RestAhead ==
    scroll.at # "none" /\ ~scroll.replaced /\ ~scroll.tied =>
        \A i \in scroll.start \ Range(scroll.shown) :
            scroll.at = "page" /\ scroll.num * Size <= Cardinality(Ahead(Wanted, i))

\* On a table that does not change, every site is shown at its place.
ShownInPlace ==
    scroll.at # "none" /\ ~scroll.grew /\ ~scroll.replaced /\ ~scroll.tied =>
        /\ scroll.at = "page" => Len(scroll.shown) = scroll.num * Size
        /\ scroll.shown # <<>> => ~WebSites!Tied(Wanted)
        /\ \A q \in 1..Len(scroll.shown) :
            scroll.shown[q] \in Wanted /\ Cardinality(Ahead(Wanted, scroll.shown[q])) = q - 1

ScrollInv == TableTyped /\ ScrollTyped /\ StartKept /\ RestAhead /\ ShownInPlace

\* At first the table is empty and nobody scrolls.
LEMMA InitScroll == WebSites!Init => ScrollInv
<1> SUFFICES ASSUME WebSites!Init PROVE ScrollInv
    OBVIOUS
<1>1. webSites = <<>> /\ scroll.at = "none"
    BY DEF WebSites!Init, WebSites!NoScroll
<1> QED
    BY <1>1, EmptySeq DEF ScrollInv, TableTyped, ScrollTyped, StartKept, RestAhead, ShownInPlace

\* The sites sought are finitely many.
LEMMA WantedFinite ==
    ASSUME WebSites!WebSiteAssumption, TableTyped, NEW req
    PROVE  /\ WebSites!Matching(req) \subseteq DOMAIN webSites
           /\ IsFiniteSet(WebSites!Matching(req))
           /\ \A i : /\ IsFiniteSet(Ahead(WebSites!Matching(req), i))
                     /\ Cardinality(Ahead(WebSites!Matching(req), i)) \in Nat
<1>1. WebSites!Matching(req) \subseteq DOMAIN webSites
    BY DEF WebSites!Matching
<1>2. IsFiniteSet(WebSites!Matching(req))
    <2>1. IsFiniteSet(DOMAIN webSites)
        BY SitesTyped, FS_Interval
    <2> QED BY <1>1, <2>1, FS_Subset
<1>3. \A i : Ahead(WebSites!Matching(req), i) \in SUBSET WebSites!Matching(req)
    BY DEF Ahead
<1> HIDE DEF WebSites!Matching
<1> QED BY <1>1, <1>2, <1>3, FS_Subset, FS_CardinalityType

\* A scroll begins.
LEMMA StartKeepsScroll ==
    ASSUME WebSites!WebSiteAssumption, ScrollInv, NEW req \in Requests, WebSites!StartScroll(req)
    PROVE  ScrollInv'
<1>1. /\ webSites' = webSites
      /\ scroll' = [at |-> "page", req |-> req, num |-> 0, shown |-> <<>>,
                    start |-> WebSites!Matching(req), grew |-> FALSE, replaced |-> FALSE, tied |-> FALSE]
    BY DEF WebSites!StartScroll
<1>2. TableTyped'
    BY <1>1 DEF ScrollInv, TableTyped
<1>3. WebSites!Matching(req) \subseteq Nat
    BY SitesTyped, WantedFinite DEF ScrollInv
<1>4. ScrollTyped'
    BY <1>1, <1>3, EmptySeq DEF ScrollTyped
<1>5. Wanted' = WebSites!Matching(req)
    BY <1>1 DEF Wanted, WebSites!Matching, WebSites!KeywordsOrUids, WebSites!InRange, WebSites!NotExcluded, WebSites!Like
<1>6. StartKept'
    BY <1>1, <1>5 DEF StartKept
<1>7. Size' \in Nat
    BY <1>1 DEF Size, WebSites!WebSiteAssumption
<1>8. \A i : Cardinality(Ahead(Wanted, i)') \in Nat
    <2>1. \A i, j : WebSites!Before(i, j)' <=> WebSites!Before(i, j)
        BY <1>1 DEF WebSites!Before, WebSites!Place
    <2>2. \A i : Ahead(Wanted, i)' = Ahead(WebSites!Matching(req), i)
        BY <1>5, <2>1 DEF Ahead
    <2> QED BY <2>2, WantedFinite DEF ScrollInv
<1>9. RestAhead'
    BY <1>1, <1>7, <1>8 DEF RestAhead
<1>10. ShownInPlace'
    <2>1. Len(scroll'.shown) = 0 /\ scroll'.shown = <<>> /\ scroll'.num = 0
        BY <1>1
    <2>2. \A n \in Nat : 0 = 0 * n
        OBVIOUS
    <2>3. 1..0 = {}
        OBVIOUS
    <2>4. Len(scroll'.shown) = scroll'.num * Size' /\ 1..Len(scroll'.shown) = {}
        BY <1>7, <2>1, <2>2, <2>3, Zenon
    <2> QED BY <2>1, <2>4, Zenon DEF ShownInPlace
<1> QED BY <1>2, <1>4, <1>6, <1>9, <1>10 DEF ScrollInv

\* What a scroll notes of the table's changes.
LEMMA NotedKeeps ==
    ASSUME ScrollTyped, NEW grew \in BOOLEAN, NEW replaced \in BOOLEAN,
           scroll' = WebSites!Noted(grew, replaced)
    PROVE  /\ ScrollTyped'
           /\ scroll'.at = scroll.at
           /\ scroll.at # "none" =>
                /\ UNCHANGED <<scroll.req, scroll.num, scroll.shown, scroll.start, scroll.tied>>
                /\ scroll'.grew <=> scroll.grew \/ grew
                /\ scroll'.replaced <=> scroll.replaced \/ replaced
<1>1. CASE scroll.at = "none"
    <2>1. scroll' = scroll
        BY <1>1 DEF WebSites!Noted
    <2> QED BY <1>1, <2>1 DEF ScrollTyped
<1>2. CASE scroll.at # "none"
    <2>1. scroll' = [scroll EXCEPT !.grew = scroll.grew \/ grew, !.replaced = scroll.replaced \/ replaced]
        BY <1>2 DEF WebSites!Noted
    <2> DEFINE g == (scroll.grew \/ grew)
               r == (scroll.replaced \/ replaced)
    <2>2. scroll' = [scroll EXCEPT !.grew = g, !.replaced = r] /\ g \in BOOLEAN /\ r \in BOOLEAN
        <3>1. g \in BOOLEAN
            BY Zenon
        <3>2. r \in BOOLEAN
            BY Zenon
        <3> QED BY <2>1, <3>1, <3>2
    <2>3. scroll.at \in {"page", "done"}
        BY <1>2 DEF ScrollTyped
    <2> HIDE DEF g, r
    <2>4. /\ ScrollTyped' /\ scroll'.at = scroll.at
          /\ UNCHANGED <<scroll.req, scroll.num, scroll.shown, scroll.start, scroll.tied>>
          /\ scroll'.grew = g /\ scroll'.replaced = r
        BY <1>2, <2>2, <2>3 DEF ScrollTyped
    <2> QED BY <1>2, <2>4 DEF g, r
<1> QED BY <1>1, <1>2

\* Sites added change nothing of those there are.
LEMMA AddedAfter ==
    ASSUME WebSites!WebSiteAssumption, TableTyped, NEW batch \in SiteBatches, webSites' = webSites \o batch
    PROVE  /\ TableTyped'
           /\ \A i \in DOMAIN webSites : i \in DOMAIN webSites' /\ webSites'[i] = webSites[i]
<1>1. batch \in Seq(Sites)
    <2>1. batch \in Seq(Range(batch)) /\ Range(batch) \subseteq Sites
        BY SiteRange DEF WebSites!WebSiteAssumption, Sites
    <2> QED BY <2>1, SeqMonotonic
<1>2. /\ webSites' \in Seq(Sites)
      /\ Len(webSites) \in Nat /\ Len(batch) \in Nat /\ Len(webSites') = Len(webSites) + Len(batch)
      /\ \A i \in 1..Len(webSites) + Len(batch) :
            webSites'[i] = IF i <= Len(webSites) THEN webSites[i] ELSE batch[i - Len(webSites)]
    BY <1>1, ConcatProperties, LenProperties DEF TableTyped
<1>3. DOMAIN webSites = 1..Len(webSites) /\ DOMAIN webSites' = 1..Len(webSites')
    BY <1>2, LenProperties DEF TableTyped
<1> QED
    BY <1>2, <1>3 DEF TableTyped

\* So what matched matches, in the same order.
LEMMA AddKeepsScroll ==
    ASSUME WebSites!WebSiteAssumption, ScrollInv, NEW batch \in SiteBatches, WebSites!AddWebSites(batch)
    PROVE  ScrollInv'
<1>1. webSites' = webSites \o batch /\ scroll' = WebSites!Noted(TRUE, FALSE)
    BY DEF WebSites!AddWebSites
<1>2. /\ ScrollTyped'
      /\ scroll'.at = scroll.at
      /\ scroll.at # "none" =>
            /\ UNCHANGED <<scroll.req, scroll.num, scroll.shown, scroll.start, scroll.tied>>
            /\ scroll'.grew
            /\ scroll'.replaced <=> scroll.replaced
    BY <1>1, NotedKeeps DEF ScrollInv
<1>3. TableTyped' /\ \A i \in DOMAIN webSites : i \in DOMAIN webSites' /\ webSites'[i] = webSites[i]
    BY <1>1, AddedAfter DEF ScrollInv
<1>4. CASE scroll.at = "none"
    BY <1>2, <1>3, <1>4 DEF ScrollInv, StartKept, RestAhead, ShownInPlace
<1>5. CASE scroll.at # "none"
    <2>1. UNCHANGED Size
        BY <1>2, <1>5 DEF Size
    <2>2. \A i, j \in DOMAIN webSites : WebSites!Before(i, j)' <=> WebSites!Before(i, j)
        BY <1>3 DEF WebSites!Before, WebSites!Place
    <2>3. Wanted \subseteq Wanted' /\ Wanted \subseteq DOMAIN webSites
        BY <1>2, <1>3, <1>5 DEF Wanted, WebSites!Matching, WebSites!KeywordsOrUids, WebSites!InRange,
           WebSites!NotExcluded, WebSites!Like
    <2>4. StartKept'
        BY <1>2, <1>5, <2>3 DEF ScrollInv, StartKept
    <2>5. ShownInPlace'
        BY <1>2, <1>5 DEF ShownInPlace
    <2>6. ASSUME ~scroll'.replaced, ~scroll'.tied, NEW i \in scroll'.start \ Range(scroll'.shown)
          PROVE  scroll'.at = "page" /\ scroll'.num * Size' <= Cardinality(Ahead(Wanted, i)')
        <3>1. i \in scroll.start \ Range(scroll.shown) /\ i \in Wanted
            BY <1>2, <1>5, <2>6 DEF ScrollInv, StartKept
        <3>2. scroll.at = "page" /\ scroll.num * Size <= Cardinality(Ahead(Wanted, i))
            BY <1>2, <1>5, <2>6, <3>1 DEF ScrollInv, RestAhead
        <3>3. Ahead(Wanted, i) \subseteq Ahead(Wanted, i)'
            BY <2>2, <2>3, <3>1 DEF Ahead
        <3>4. IsFiniteSet(Ahead(Wanted, i)') /\ Cardinality(Ahead(Wanted, i)') \in Nat
            <4>1. Wanted' \subseteq DOMAIN webSites'
                BY DEF Wanted, WebSites!Matching
            <4>2. IsFiniteSet(DOMAIN webSites')
                <5>1. DOMAIN webSites' = 1..Len(webSites') /\ Len(webSites') \in Nat
                    BY <1>3, LenProperties DEF TableTyped
                <5> QED BY <5>1, FS_Interval
            <4>3. Ahead(Wanted, i)' \in SUBSET (DOMAIN webSites')
                BY <4>1 DEF Ahead
            <4> QED BY <4>2, <4>3, FS_Subset, FS_CardinalityType
        <3>5. /\ Cardinality(Ahead(Wanted, i)) <= Cardinality(Ahead(Wanted, i)')
              /\ Cardinality(Ahead(Wanted, i)) \in Nat
            BY <3>3, <3>4, FS_Subset, FS_CardinalityType
        <3>6. scroll.num * Size \in Nat
            <4>1. scroll.num \in Nat /\ Size \in Nat
                BY <1>5 DEF ScrollInv, ScrollTyped, Size, WebSites!WebSiteAssumption
            <4> QED BY <4>1
        <3>7. scroll'.num * Size' = scroll.num * Size
            BY <1>2, <1>5, <2>1
        <3> QED BY <1>2, <3>2, <3>4, <3>5, <3>6, <3>7
    <2>7. RestAhead'
        BY <2>6 DEF RestAhead
    <2> QED BY <1>2, <1>3, <2>4, <2>5, <2>7 DEF ScrollInv
<1> QED BY <1>4, <1>5

\* After a row is replaced nothing is claimed.
LEMMA ReplaceKeepsScroll ==
    ASSUME WebSites!WebSiteAssumption, ScrollInv, NEW batch \in SiteBatches, NEW i \in DOMAIN webSites,
           WebSites!ReplaceWebSite(i, batch[1])
    PROVE  ScrollInv'
<1>1. webSites' = [webSites EXCEPT ![i] = batch[1]] /\ scroll' = WebSites!Noted(FALSE, TRUE)
    BY DEF WebSites!ReplaceWebSite
<1>2. /\ ScrollTyped' /\ scroll'.at = scroll.at
      /\ scroll.at # "none" => scroll'.replaced
    BY <1>1, NotedKeeps DEF ScrollInv
<1>3. batch[1] \in Sites
    <2>1. batch \in Seq(Range(batch)) /\ batch # <<>> /\ Range(batch) \subseteq Sites
        BY SiteRange DEF WebSites!WebSiteAssumption, Sites
    <2>2. 1 \in 1..Len(batch)
        BY <2>1, EmptySeq, LenProperties
    <2> QED BY <2>1, <2>2, ElementOfSeq
<1>4. TableTyped'
    BY <1>1, <1>3, ExceptSeq DEF ScrollInv, TableTyped
<1> QED
    BY <1>2, <1>4 DEF ScrollInv, StartKept, RestAhead, ShownInPlace

\* As many pages more as there are, and one.
LEMMA Doubled == \A n, size \in Nat : n * size \in Nat /\ (n + 1) * size = n * size + size
OBVIOUS

\* A page is loaded.
LEMMA LoadKeepsScroll ==
    ASSUME WebSites!WebSiteAssumption, ScrollInv, WebSites!LoadPage
    PROVE  ScrollInv'
<1>0. /\ scroll.at = "page" /\ webSites' = webSites
      /\ scroll.num \in Nat /\ scroll.shown \in Seq(Nat) /\ scroll.req \in Requests
      /\ Size \in Nat \ {0} /\ Size # Nil
    BY DEF WebSites!LoadPage, ScrollInv, ScrollTyped, Size, WebSites!WebSiteAssumption
<1> DEFINE offset == scroll.num * Size
<1>1. PICK page \in WebSites!Searched(scroll.req, scroll.num) :
        scroll' = [scroll EXCEPT !.at = IF Len(page) < Size THEN "done" ELSE "page",
                                 !.num = scroll.num + 1,
                                 !.shown = scroll.shown \o page,
                                 !.tied = scroll.tied \/ WebSites!Tied(Wanted)]
    BY DEF WebSites!LoadPage, Size, Wanted
<1>2. WebSites!Offset(Size, scroll.num) = offset /\ offset \in Nat
    <2>1. \A n \in Nat : 0 = 0 * n
        OBVIOUS
    <2>2. scroll.num = 0 => offset = 0
        BY <1>0, <2>1
    <2> QED BY <1>0, <2>2, Doubled DEF WebSites!Offset
<1>3. PICK s \in WebSites!Orders(Wanted) : page = WebSites!Cut(s, Size, offset)
    BY <1>1, <1>2 DEF WebSites!Searched, Size, Wanted
<1>4. Wanted \in SUBSET (DOMAIN webSites) /\ Wanted \subseteq Nat
    BY WantedFinite, SitesTyped DEF Wanted, ScrollInv
<1>5. /\ s \in Seq(Wanted) /\ Len(s) \in Nat
      /\ \A p \in 1..Len(s) : s[p] \in Wanted
      /\ \A i \in Wanted : \E p \in 1..Len(s) : s[p] = i
    BY <1>3, <1>4, OrderTyped DEF ScrollInv
<1> HIDE DEF offset
<1>6. /\ page \in Seq(Wanted) /\ Len(page) \in Nat /\ Len(page) <= Size
      /\ \A k \in 1..Len(page) : offset + k \in 1..Len(s) /\ page[k] = s[offset + k]
      /\ \A p \in 1..Len(s) : offset < p /\ p <= offset + Size => p - offset \in 1..Len(page)
      /\ Len(page) < Size <=> Len(s) < offset + Size
    <2>1. Size \in Nat \ {0} /\ Size # Nil /\ offset \in Nat /\ page = WebSites!Cut(s, Size, offset)
        BY <1>0, <1>2, <1>3
    <2>2. s \in Seq(Wanted)
        BY <1>5
    <2>3. page \in Seq(Wanted) /\ IsPageOf(page, s, Size, offset)
        BY <2>1, <2>2, PageOfOrder
    <2> QED BY <2>3 DEF IsPageOf
<1>7. page \in Seq(Nat) /\ scroll.shown \o page \in Seq(Nat)
    BY <1>0, <1>4, <1>6, SeqMonotonic, ConcatProperties
<1> DEFINE after == IF Len(page) < Size THEN "done" ELSE "page"
           tie == (scroll.tied \/ WebSites!Tied(Wanted))
<1>8. tie \in BOOLEAN
    BY Zenon
<1>9. scroll' = [scroll EXCEPT !.at = after, !.num = scroll.num + 1, !.shown = scroll.shown \o page, !.tied = tie]
    BY <1>1
<1>10. after \in {"page", "done"} /\ (after = "page" <=> ~(Len(page) < Size))
    OBVIOUS
<1> HIDE DEF after, tie
<1>11. /\ ScrollTyped' /\ scroll'.at = after /\ scroll'.num = scroll.num + 1
       /\ scroll'.shown = scroll.shown \o page /\ scroll'.tied = tie
       /\ UNCHANGED <<scroll.req, scroll.start, scroll.grew, scroll.replaced>>
    <2> DEFINE Scrolls == [at : {"page", "done"}, req : Requests, num : Nat, shown : Seq(Nat), start : SUBSET Nat,
                           grew : BOOLEAN, replaced : BOOLEAN, tied : BOOLEAN]
    <2>1. scroll \in Scrolls
        BY <1>0 DEF ScrollInv, ScrollTyped
    <2>2. scroll.num + 1 \in Nat
        BY <1>0
    <2> DEFINE num == scroll.num + 1
               shown == scroll.shown \o page
    <2>3. /\ scroll' = [scroll EXCEPT !.at = after, !.num = num, !.shown = shown, !.tied = tie]
          /\ num \in Nat /\ shown \in Seq(Nat)
        BY <1>7, <1>9, <2>2
    <2> HIDE DEF num, shown
    <2>4. scroll' \in Scrolls
        BY <1>8, <1>10, <2>1, <2>3
    <2>5. /\ scroll'.at = after /\ scroll'.num = num /\ scroll'.shown = shown /\ scroll'.tied = tie
          /\ UNCHANGED <<scroll.req, scroll.start, scroll.grew, scroll.replaced>>
        BY <2>1, <2>3
    <2>6. ScrollTyped'
        BY <2>4 DEF ScrollTyped
    <2> QED BY <2>5, <2>6 DEF num, shown
<1>12. TableTyped' /\ UNCHANGED <<Size, Wanted>>
    BY <1>0, <1>11 DEF ScrollInv, TableTyped, Size, Wanted, WebSites!Matching, WebSites!KeywordsOrUids,
       WebSites!InRange, WebSites!NotExcluded, WebSites!Like
<1>13. StartKept'
    BY <1>0, <1>11, <1>12 DEF ScrollInv, StartKept
<1>14. \A i : Ahead(Wanted, i)' = Ahead(Wanted, i)
    <2>1. \A i, j : WebSites!Before(i, j)' <=> WebSites!Before(i, j)
        BY <1>0 DEF WebSites!Before, WebSites!Place
    <2> QED BY <1>12, <2>1 DEF Ahead
<1>15. ~scroll'.tied =>
        /\ ~scroll.tied /\ ~WebSites!Tied(Wanted)
        /\ \A p \in 1..Len(s) : Cardinality(Ahead(Wanted, s[p])) = p - 1
    BY <1>3, <1>4, <1>11, OrderRanks DEF ScrollInv, tie
<1>16. offset + Size = (scroll.num + 1) * Size
    BY <1>0, Doubled DEF offset
<1>17. /\ Len(scroll.shown) \in Nat
       /\ Len(scroll'.shown) = Len(scroll.shown) + Len(page)
       /\ \A q \in 1..Len(scroll.shown) + Len(page) :
            scroll'.shown[q] = IF q <= Len(scroll.shown) THEN scroll.shown[q] ELSE page[q - Len(scroll.shown)]
       /\ DOMAIN scroll'.shown = 1..Len(scroll.shown) + Len(page)
       /\ DOMAIN scroll.shown = 1..Len(scroll.shown)
    BY <1>0, <1>7, <1>11, ConcatProperties, LenProperties
<1>18. RestAhead'
    <2>1. ASSUME ~scroll'.replaced, ~scroll'.tied, NEW i \in scroll'.start \ Range(scroll'.shown)
          PROVE  scroll'.at = "page" /\ scroll'.num * Size' <= Cardinality(Ahead(Wanted, i)')
        <3>1. i \notin Range(scroll.shown)
            <4>1. \A q \in 1..Len(scroll.shown) : q \in DOMAIN scroll'.shown /\ scroll'.shown[q] = scroll.shown[q]
                BY <1>6, <1>17
            <4> QED BY <1>17, <2>1, <4>1 DEF Range
        <3>2. \A k \in 1..Len(page) : page[k] # i
            <4>1. \A k \in 1..Len(page) :
                    Len(scroll.shown) + k \in DOMAIN scroll'.shown /\ scroll'.shown[Len(scroll.shown) + k] = page[k]
                <5>1. TAKE k \in 1..Len(page)
                <5> DEFINE q == Len(scroll.shown) + k
                <5>2. /\ q \in 1..Len(scroll.shown) + Len(page) /\ ~(q <= Len(scroll.shown))
                      /\ q - Len(scroll.shown) = k
                    BY <1>6, <1>17
                <5> HIDE DEF q
                <5>3. q \in DOMAIN scroll'.shown /\ scroll'.shown[q] = page[k]
                    BY <1>17, <5>2
                <5> QED BY <5>3 DEF q
            <4> QED BY <2>1, <4>1 DEF Range
        <3>3. i \in Wanted /\ offset <= Cardinality(Ahead(Wanted, i))
            BY <1>0, <1>11, <1>15, <2>1, <3>1 DEF ScrollInv, StartKept, RestAhead, offset
        <3>4. PICK p \in 1..Len(s) : s[p] = i
            BY <1>5, <3>3
        <3>5. Cardinality(Ahead(Wanted, i)) = p - 1
            BY <1>15, <2>1, <3>4
        <3>6. offset < p /\ ~(p <= offset + Size)
            <4>1. offset < p
                BY <1>2, <1>5, <3>3, <3>5
            <4>2. ASSUME p <= offset + Size PROVE FALSE
                <5>1. p - offset \in 1..Len(page)
                    BY <1>6, <4>1, <4>2
                <5>2. page[p - offset] = s[offset + (p - offset)]
                    BY <1>6, <5>1, Zenon
                <5>3. offset + (p - offset) = p
                    BY <1>2, <1>5
                <5> QED BY <3>2, <3>4, <5>1, <5>2, <5>3
            <4> QED BY <4>1, <4>2
        <3>7. after = "page" /\ offset + Size <= p - 1
            BY <1>0, <1>2, <1>5, <1>6, <1>10, <3>6
        <3> QED BY <1>11, <1>12, <1>14, <1>16, <3>5, <3>7
    <2> QED BY <2>1 DEF RestAhead
<1>19. ShownInPlace'
    <2> SUFFICES ASSUME ~scroll'.grew, ~scroll'.replaced, ~scroll'.tied
                 PROVE  /\ scroll'.at = "page" => Len(scroll'.shown) = scroll'.num * Size'
                        /\ ~WebSites!Tied(Wanted)'
                        /\ \A q \in 1..Len(scroll'.shown) :
                            scroll'.shown[q] \in Wanted' /\ Cardinality(Ahead(Wanted, scroll.shown[q])') = q - 1
        BY DEF ShownInPlace
    <2>1. /\ Len(scroll.shown) = offset
          /\ \A q \in 1..Len(scroll.shown) :
                scroll.shown[q] \in Wanted /\ Cardinality(Ahead(Wanted, scroll.shown[q])) = q - 1
        BY <1>0, <1>11, <1>15 DEF ScrollInv, ShownInPlace, offset
    <2>2. scroll'.at = "page" => Len(scroll'.shown) = scroll'.num * Size'
        <3>1. SUFFICES ASSUME scroll'.at = "page" PROVE Len(scroll'.shown) = scroll'.num * Size'
            OBVIOUS
        <3>2. Len(page) = Size
            BY <1>0, <1>6, <1>10, <1>11, <3>1
        <3>3. Len(scroll'.shown) = (scroll.num + 1) * Size
            BY <1>16, <1>17, <2>1, <3>2
        <3> QED BY <1>11, <1>12, <3>3
    <2>3. ~WebSites!Tied(Wanted)'
        <3>1. \A i, j : WebSites!Before(i, j)' <=> WebSites!Before(i, j)
            BY <1>0 DEF WebSites!Before, WebSites!Place
        <3> QED BY <1>12, <1>15, <3>1 DEF WebSites!Tied
    <2>4. ASSUME NEW q \in 1..Len(scroll'.shown)
          PROVE  scroll'.shown[q] \in Wanted' /\ Cardinality(Ahead(Wanted, scroll.shown[q])') = q - 1
        <3>1. CASE q <= Len(scroll.shown)
            <4>1. q \in 1..Len(scroll.shown) /\ scroll'.shown[q] = scroll.shown[q]
                BY <1>6, <1>17, <3>1
            <4> QED BY <1>12, <1>14, <2>1, <4>1
        <3>2. CASE ~(q <= Len(scroll.shown))
            <4>1. q - offset \in 1..Len(page) /\ scroll'.shown[q] = page[q - offset] /\ offset + (q - offset) = q
                BY <1>2, <1>6, <1>17, <2>1, <3>2
            <4>2. q \in 1..Len(s) /\ scroll'.shown[q] = s[q]
                BY <1>6, <4>1
            <4> QED BY <1>5, <1>12, <1>14, <1>15, <4>2
        <3> QED BY <3>1, <3>2
    <2> QED BY <2>2, <2>3, <2>4
<1> QED BY <1>11, <1>12, <1>13, <1>18, <1>19 DEF ScrollInv

\* Neither the table nor the scroll changes.
LEMMA UntouchedScroll ==
    ASSUME ScrollInv, UNCHANGED <<webSites, scroll>>
    PROVE  ScrollInv'
<1>1. \A i, j : WebSites!Before(i, j)' <=> WebSites!Before(i, j)
    BY DEF WebSites!Before, WebSites!Place
<1>2. UNCHANGED <<Size, Wanted>>
    BY DEF Size, Wanted, WebSites!Matching, WebSites!KeywordsOrUids, WebSites!InRange, WebSites!NotExcluded,
       WebSites!Like
<1>3. \A i : Ahead(Wanted, i)' = Ahead(Wanted, i)
    BY <1>1, <1>2 DEF Ahead
<1>4. WebSites!Tied(Wanted)' <=> WebSites!Tied(Wanted)
    BY <1>1, <1>2 DEF WebSites!Tied
<1>5. TableTyped' /\ ScrollTyped'
    BY DEF ScrollInv, TableTyped, ScrollTyped
<1>6. StartKept'
    BY <1>2 DEF ScrollInv, StartKept
<1>7. RestAhead'
    BY <1>2, <1>3 DEF ScrollInv, RestAhead
<1>8. ShownInPlace'
    BY <1>2, <1>3, <1>4 DEF ScrollInv, ShownInPlace
<1> QED BY <1>5, <1>6, <1>7, <1>8 DEF ScrollInv

\* Every step keeps the invariant.
LEMMA NextScroll ==
    ASSUME WebSites!WebSiteAssumption, ScrollInv, [WebSites!Next]_(WebSites!vars)
    PROVE  ScrollInv'
<1>1. ASSUME NEW batch \in SiteBatches, WebSites!AddWebSites(batch) PROVE ScrollInv'
    BY <1>1, AddKeepsScroll
<1>2. ASSUME NEW batch \in SiteBatches, NEW i \in DOMAIN webSites, WebSites!ReplaceWebSite(i, batch[1])
      PROVE  ScrollInv'
    BY <1>2, ReplaceKeepsScroll
<1>3. ASSUME NEW req \in PlainRequests, WebSites!GetWebSites(req) PROVE ScrollInv'
    <2>1. UNCHANGED <<webSites, scroll>>
        BY <1>3 DEF WebSites!GetWebSites
    <2> QED BY <2>1, UntouchedScroll
<1>4. ASSUME NEW req \in Requests, WebSites!StartScroll(req) PROVE ScrollInv'
    BY <1>4, StartKeepsScroll
<1>5. CASE WebSites!LoadPage
    BY <1>5, LoadKeepsScroll
<1>6. CASE UNCHANGED WebSites!vars
    BY <1>6, UntouchedScroll DEF WebSites!vars
<1> QED
    BY <1>1, <1>2, <1>3, <1>4, <1>5, <1>6 DEF WebSites!Next

\* Who has scrolled to the end has nothing left that is on a later page.
LEMMA NothingLeft == ScrollInv => WebSites!NothingSkipped
BY SiteRange DEF ScrollInv, RestAhead, WebSites!NothingSkipped, WebSites!Shown, Range

\* Sites shown at their places are in order.
LEMMA PlacesAreTheSearch ==
    ASSUME WebSites!WebSiteAssumption, ScrollInv
    PROVE  WebSites!PagesAreTheSearch
<1> SUFFICES ASSUME scroll.at # "none", ~scroll.grew, ~scroll.replaced, ~scroll.tied
             PROVE  /\ Range(scroll.shown) \subseteq scroll.start
                    /\ scroll.at = "done" => Range(scroll.shown) = scroll.start
                    /\ \A a, b \in DOMAIN scroll.shown :
                        a < b => WebSites!Before(scroll.shown[a], scroll.shown[b])
    BY SiteRange DEF WebSites!PagesAreTheSearch, WebSites!Shown
<1>1. /\ Wanted = scroll.start
      /\ scroll.at = "done" => scroll.start \subseteq Range(scroll.shown)
      /\ scroll.shown # <<>> => ~WebSites!Tied(Wanted)
      /\ \A q \in 1..Len(scroll.shown) :
            scroll.shown[q] \in Wanted /\ Cardinality(Ahead(Wanted, scroll.shown[q])) = q - 1
    BY DEF ScrollInv, StartKept, RestAhead, ShownInPlace
<1>2. DOMAIN scroll.shown = 1..Len(scroll.shown) /\ Len(scroll.shown) \in Nat
    BY LenProperties DEF ScrollInv, ScrollTyped
<1>3. Range(scroll.shown) \subseteq scroll.start
    BY <1>1, <1>2 DEF Range
<1>4. ASSUME NEW a \in DOMAIN scroll.shown, NEW b \in DOMAIN scroll.shown, a < b
      PROVE  WebSites!Before(scroll.shown[a], scroll.shown[b])
    <2> DEFINE x == scroll.shown[a]
               y == scroll.shown[b]
    <2>1. /\ x \in Wanted /\ y \in Wanted
          /\ Cardinality(Ahead(Wanted, x)) = a - 1 /\ Cardinality(Ahead(Wanted, y)) = b - 1
        BY <1>1, <1>2
    <2>2. a - 1 < b - 1 /\ a - 1 \in Int /\ b - 1 \in Int /\ a # b /\ a - 1 # b - 1
        BY <1>2, <1>4
    <2>3. x # y
        BY <2>1, <2>2
    <2>4. ~WebSites!Tied(Wanted)
        <3>1. scroll.shown # <<>>
            BY <1>2, <1>4, EmptySeq
        <3> QED BY <1>1, <3>1
    <2>5. WebSites!Before(x, y) \/ WebSites!Before(y, x)
        BY <2>1, <2>3, <2>4 DEF WebSites!Tied
    <2>6. ~WebSites!Before(y, x)
        <3>1. SUFFICES ASSUME WebSites!Before(y, x) PROVE FALSE
            OBVIOUS
        <3>2. Wanted \subseteq DOMAIN webSites /\ IsFiniteSet(Ahead(Wanted, x))
            BY WantedFinite DEF ScrollInv, Wanted
        <3>3. \A j \in Wanted : WebSites!Before(j, y) => WebSites!Before(j, x)
            BY <2>1, <3>1, <3>2, OrderOfSites DEF ScrollInv
        <3>4. Ahead(Wanted, y) \subseteq Ahead(Wanted, x)
            BY <3>3 DEF Ahead
        <3>5. Cardinality(Ahead(Wanted, y)) <= Cardinality(Ahead(Wanted, x))
            BY <3>2, <3>4, FS_Subset
        <3> QED BY <2>1, <2>2, <3>5
    <2> QED BY <2>5, <2>6
<1> QED BY <1>1, <1>3, <1>4

\* Sites added while a client scrolls push no row out of what it sees: whoever scrolls to
\* the end has seen every row that matched at first (searchWebsites), whatever the sites,
\* the arguments and the size of the pages.
THEOREM AddingSkipsNothing == WebSites!Spec => []NothingSkipped
<1> USE StoresAssumption DEF StoresAssumption
<1>1. WebSites!Init => ScrollInv
    BY InitScroll
<1>2. ScrollInv /\ [WebSites!Next]_(WebSites!vars) => ScrollInv'
    BY NextScroll
<1>3. ScrollInv => WebSites!NothingSkipped
    BY NothingLeft
<1> QED BY <1>1, <1>2, <1>3, PTL DEF NothingSkipped, WebSites!Spec

\* On a table that does not change, the pages searchWebsites cuts, put together, are
\* the search: what matches, once each and in the order asked for.
THEOREM PagesMakeTheSearch == WebSites!Spec => []PagesAreTheSearch
<1> USE StoresAssumption DEF StoresAssumption
<1>1. WebSites!Init => ScrollInv
    BY InitScroll
<1>2. ScrollInv /\ [WebSites!Next]_(WebSites!vars) => ScrollInv'
    BY NextScroll
<1>3. ScrollInv => WebSites!PagesAreTheSearch
    BY PlacesAreTheSearch
<1> QED BY <1>1, <1>2, <1>3, PTL DEF PagesAreTheSearch, WebSites!Spec

-----------------------------------------------------------------------------
(* Students and their scores.                                               *)

\* The steps of a launch, by their number.
LEMMA ProgramSteps ==
    /\ DOMAIN Students!Program = 1..16
    /\ Students!Program[1] = "create" /\ Students!Program[2] = "count"
    /\ Students!Program[3] = "addStus" /\ Students!Program[4] = "addScore"
    /\ Students!Program[5] = "create" /\ Students!Program[6] = "selectBySql"
    /\ Students!Program[7] = "create" /\ Students!Program[8] = "create"
    /\ Students!Program[9] = "count" /\ Students!Program[10] = "addStus"
    /\ Students!Program[11] = "addScore" /\ Students!Program[12] = "selectJoinOn123"
    /\ Students!Program[13] = "scores4" /\ Students!Program[14] = "students4"
    /\ Students!Program[15] = "scores5" /\ Students!Program[16] = "students5"
BY DEF Students!Program

\* So each step is tried at some numbers only.
LEMMA StepNumbers ==
    /\ Students!Running("create") => at \in {1, 5, 7, 8}
    /\ Students!Running("count") => at \in {2, 9}
    /\ Students!Running("addStus") <=> at \in {3, 10}
    /\ Students!Running("addScore") <=> at \in {4, 11}
    /\ Students!Running("selectBySql") => at = 6
    /\ Students!Running("selectJoinOn123") => at = 12
    /\ Students!Running("scores4") => at = 13
    /\ Students!Running("students4") => at = 14
    /\ Students!Running("scores5") => at = 15
    /\ Students!Running("students5") => at = 16
BY ProgramSteps DEF Students!Running

StudentTyped ==
    /\ at \in Nat /\ faults \in Nat
    /\ scores \in Seq(Range(Seeds))
    /\ addStusFailed \in BOOLEAN /\ cutShort \in BOOLEAN

\* Students are stored all at once, and when none is counted there is none.
StudentsOnce ==
    /\ students \in {<<>>, Seeds}
    /\ at \in {3, 10} /\ stuCount = 0 => students = <<>>

\* Without a failure of addStus, scores are stored after their students, once.
ScoresOnce ==
    ~addStusFailed =>
        /\ scores \in {<<>>, Seeds}
        /\ students = <<>> => scores = <<>>
        /\ at \in {4, 11} /\ stuCount = 0 => scores = <<>> /\ students = Seeds

\* Unless they are cut short, scores follow their students.
ScoresFollow ==
    ~cutShort =>
        \/ students = <<>>
        \/ Range(Seeds) \subseteq Range(scores)
        \/ at \in {4, 11} /\ stuCount = 0

\* The stuIds of the scores asked for, at their positions.
ScoresAsked(wanted) == [i \in {n \in DOMAIN scores : scores[n] \in wanted} |-> scores[i]]

\* Between the two queries of a join nothing happens.
Queried ==
    /\ at = 14 => scoreList = ScoresAsked(Range(Seeds))
    /\ at = 16 => scoreList = ScoresAsked({Chosen})

StudentInv == StudentTyped /\ StudentsOnce /\ ScoresOnce /\ ScoresFollow /\ Queried

\* The students are a sequence, and a count that failed is not zero.
LEMMA SeedsTyped ==
    ASSUME Students!StudentAssumption
    PROVE  Seeds \in Seq(Range(Seeds)) /\ 0 # NoCount
BY DEF Students!StudentAssumption, Range, Students!Range

\* At first nothing is stored and no launch has begun.
LEMMA InitStudents ==
    ASSUME Students!StudentAssumption, Students!Init
    PROVE  StudentInv
<1>1. StudentTyped
    <2>1. addStusFailed \in BOOLEAN /\ cutShort \in BOOLEAN
        BY Zenon DEF Students!Init
    <2>2. scores \in Seq(Range(Seeds)) /\ at \in Nat /\ faults \in Nat
        BY EmptySeq DEF Students!Init
    <2> QED BY <2>1, <2>2 DEF StudentTyped
<1> QED
    BY <1>1 DEF StudentInv, Students!Init, StudentsOnce, ScoresOnce, ScoresFollow, Queried

\* A step that stores nothing, and after which nothing is about to be stored or joined.
LEMMA IdleStepKeeps ==
    ASSUME StudentInv, at' \in Nat, at' \notin {3, 4, 10, 11, 14, 16}, faults' \in Nat,
           UNCHANGED <<students, scores, addStusFailed>>, cutShort' \in BOOLEAN,
           cutShort => cutShort',
           at \in {4, 11} /\ stuCount = 0 => cutShort'
    PROVE  StudentInv'
<1>1. StudentTyped'
    BY DEF StudentInv, StudentTyped
<1>2. StudentsOnce' /\ ScoresOnce'
    BY DEF StudentInv, StudentsOnce, ScoresOnce
<1>3. ScoresFollow'
    BY DEF StudentInv, ScoresFollow
<1>4. Queried'
    BY DEF Queried
<1> QED BY <1>1, <1>2, <1>3, <1>4 DEF StudentInv

\* Faults are counted.
LEMMA FaultCounted ==
    ASSUME NEW table, Students!CountFault(table), faults \in Nat
    PROVE  faults' \in Nat
BY DEF Students!CountFault

\* The steps that neither store nor count students.
LEMMA OtherStepsKeep ==
    ASSUME StudentInv,
           \/ Students!Launch \/ Students!Crash \/ Students!Create \/ Students!Select
           \/ \E step \in {"students4", "students5"} : Students!QueryStudents(step)
    PROVE  StudentInv'
<1>0. at \in Nat /\ faults \in Nat /\ cutShort \in BOOLEAN
    BY DEF StudentInv, StudentTyped
<1>1. CASE Students!Launch
    <2>1. at = 0 /\ at' = 1 /\ UNCHANGED <<students, scores, addStusFailed, cutShort, faults>>
        BY <1>1 DEF Students!Launch, Students!stored
    <2> QED BY <1>0, <2>1, IdleStepKeeps
<1>2. CASE Students!Crash
    <2>1. at' = 0 /\ UNCHANGED <<students, scores, addStusFailed, faults>>
          /\ cutShort' = (cutShort \/ (Students!Running("addScore") /\ stuCount = 0))
        BY <1>2 DEF Students!Crash, Students!stored
    <2>2. cutShort' \in BOOLEAN
        BY <2>1, Zenon
    <2>3. (cutShort => cutShort') /\ (at \in {4, 11} /\ stuCount = 0 => cutShort')
        BY <2>1, StepNumbers
    <2> QED BY <1>0, <2>1, <2>2, <2>3, IdleStepKeeps
<1>3. CASE Students!Create
    <2>1. at \in {1, 5, 7, 8} /\ at' = at + 1 /\ UNCHANGED <<students, scores, addStusFailed, cutShort>>
        BY <1>3, StepNumbers DEF Students!Create, Students!Advance
    <2>2. faults' \in Nat
        BY <1>0, <1>3 DEF Students!Create
    <2>3. CASE at = 8 \/ at = 1 \/ at = 7 \/ at = 5
        <3>1. at' \in Nat /\ at' \notin {3, 4, 10, 11, 14, 16} /\ at \notin {4, 11}
            BY <2>1, <2>3
        <3> QED BY <1>0, <2>1, <2>2, <3>1, IdleStepKeeps
    <2> QED BY <2>1, <2>3
<1>4. CASE Students!Select
    <2>1. at \in {6, 12} /\ at' = at + 1 /\ UNCHANGED <<students, scores, addStusFailed, cutShort, faults>>
        BY <1>4, StepNumbers DEF Students!Select, Students!Advance, Students!stored, Students!history
    <2>2. at' \in Nat /\ at' \notin {3, 4, 10, 11, 14, 16} /\ at \notin {4, 11}
        BY <2>1
    <2> QED BY <1>0, <2>1, <2>2, IdleStepKeeps
<1>5. ASSUME NEW step \in {"students4", "students5"}, Students!QueryStudents(step) PROVE StudentInv'
    <2>1. at \in {14, 16} /\ at' = at + 1 /\ UNCHANGED <<students, scores, addStusFailed, cutShort>>
        BY <1>5, StepNumbers DEF Students!QueryStudents, Students!Advance, Students!stored
    <2>2. faults' \in Nat
        BY <1>0, <1>5, FaultCounted DEF Students!QueryStudents
    <2>3. at' \in Nat /\ at' \notin {3, 4, 10, 11, 14, 16} /\ at \notin {4, 11}
        BY <2>1
    <2> QED BY <1>0, <2>1, <2>2, <2>3, IdleStepKeeps
<1> QED BY <1>1, <1>2, <1>3, <1>4, <1>5

\* The students are counted.
LEMMA CountKeeps ==
    ASSUME Students!StudentAssumption, StudentInv, Students!GetStuCount
    PROVE  StudentInv'
<1>1. at \in {2, 9} /\ at' = at + 1 /\ UNCHANGED <<students, scores, addStusFailed, cutShort>>
    BY StepNumbers DEF Students!GetStuCount, Students!Advance, Students!stored
<1>2. at' \in {3, 10}
    BY <1>1
<1>3. faults' \in Nat
    BY FaultCounted DEF Students!GetStuCount, StudentInv, StudentTyped
<1>4. stuCount' = 0 => students = <<>>
    <2>1. stuCount' = Len(students) \/ stuCount' = NoCount
        BY DEF Students!GetStuCount, Students!Counted
    <2>2. \E A : students \in Seq(A)
        BY SeedsTyped, EmptySeq DEF StudentInv, StudentsOnce
    <2> QED BY <2>1, <2>2, SeedsTyped, EmptySeq
<1>5. StudentTyped'
    BY <1>1, <1>2, <1>3 DEF StudentInv, StudentTyped
<1>6. StudentsOnce'
    BY <1>1, <1>4 DEF StudentInv, StudentsOnce
<1>7. ScoresOnce' /\ ScoresFollow' /\ Queried'
    BY <1>1, <1>2 DEF StudentInv, ScoresOnce, ScoresFollow, Queried
<1> QED BY <1>5, <1>6, <1>7 DEF StudentInv

\* The students are stored.
LEMMA AddStusKeeps ==
    ASSUME Students!StudentAssumption, StudentInv, Students!AddStus
    PROVE  StudentInv'
<1>1. at \in {3, 10} /\ at' = at + 1 /\ UNCHANGED <<scores, stuCount, cutShort>>
    BY StepNumbers DEF Students!AddStus, Students!Advance
<1>2. at' \in {4, 11}
    BY <1>1
<1>3. faults' \in Nat /\ addStusFailed' \in BOOLEAN
    <2>1. faults' = faults \/ Students!CountFault("Students")
        BY DEF Students!AddStus
    <2>2. addStusFailed' = addStusFailed \/ addStusFailed' = TRUE
        BY DEF Students!AddStus
    <2> QED BY <2>1, <2>2, FaultCounted DEF StudentInv, StudentTyped
<1>4. StudentTyped'
    BY <1>1, <1>2, <1>3 DEF StudentInv, StudentTyped
<1>5. CASE stuCount # 0
    <2>1. UNCHANGED <<students, addStusFailed>>
        BY <1>5 DEF Students!AddStus, Students!MustSeed
    <2>2. StudentsOnce' /\ ScoresOnce' /\ ScoresFollow' /\ Queried'
        BY <1>1, <1>2, <1>5, <2>1 DEF StudentInv, StudentsOnce, ScoresOnce, ScoresFollow, Queried
    <2> QED BY <1>4, <2>2 DEF StudentInv
<1>6. CASE stuCount = 0
    <2>1. students = <<>> /\ (~addStusFailed => scores = <<>>)
        BY <1>1, <1>6 DEF StudentInv, StudentsOnce, ScoresOnce
    <2>2. \/ students' = students \o Seeds /\ addStusFailed' = addStusFailed
          \/ students' = students /\ addStusFailed'
        BY <1>6 DEF Students!AddStus, Students!MustSeed
    <2>3. <<>> \o Seeds = Seeds
        BY SeedsTyped, ConcatEmptySeq
    <2>4. StudentsOnce' /\ ScoresOnce' /\ ScoresFollow' /\ Queried'
        BY <1>1, <1>2, <1>6, <2>1, <2>2, <2>3 DEF StudentsOnce, ScoresOnce, ScoresFollow, Queried
    <2> QED BY <1>4, <2>4 DEF StudentInv
<1> QED BY <1>5, <1>6

\* The scores are stored.
LEMMA AddScoreKeeps ==
    ASSUME Students!StudentAssumption, StudentInv, Students!AddScore
    PROVE  StudentInv'
<1>1. at \in {4, 11} /\ at' = at + 1 /\ UNCHANGED <<students, addStusFailed>> /\ stuCount' = NoCount
    BY StepNumbers DEF Students!AddScore, Students!Advance
<1>2. at' \in {5, 12}
    BY <1>1
<1>3. faults' \in Nat /\ cutShort' \in BOOLEAN
    <2>1. faults' = faults \/ Students!CountFault("Score_Table")
        BY DEF Students!AddScore
    <2>2. cutShort' = cutShort \/ cutShort' = TRUE
        BY DEF Students!AddScore
    <2> QED BY <2>1, <2>2, FaultCounted DEF StudentInv, StudentTyped
<1>4. CASE UNCHANGED scores /\ (cutShort => cutShort') /\ (stuCount = 0 => cutShort')
    <2>1. at' \in Nat /\ at' \notin {3, 4, 10, 11, 14, 16}
        BY <1>2
    <2> QED BY <1>1, <1>3, <1>4, <2>1, IdleStepKeeps
<1>5. CASE stuCount = 0 /\ scores' = scores \o Seeds /\ cutShort' = cutShort
    <2>1. scores \in Seq(Range(Seeds)) /\ Seeds \in Seq(Range(Seeds))
        BY SeedsTyped DEF StudentInv, StudentTyped
    <2>2. scores' \in Seq(Range(Seeds)) /\ Range(Seeds) \subseteq Range(scores')
        <3>1. scores' \in Seq(Range(Seeds))
            BY <1>5, <2>1, ConcatProperties
        <3>2. ASSUME NEW i \in DOMAIN Seeds PROVE Seeds[i] \in Range(scores')
            <4>1. /\ DOMAIN Seeds = 1..Len(Seeds) /\ Len(Seeds) \in Nat /\ Len(scores) \in Nat
                  /\ DOMAIN scores' = 1..Len(scores')
                BY <2>1, <3>1, LenProperties
            <4>2. Len(scores') = Len(scores) + Len(Seeds)
                BY <1>5, <2>1, ConcatProperties
            <4>3. \A j \in 1..Len(scores) + Len(Seeds) :
                    scores'[j] = IF j <= Len(scores) THEN scores[j] ELSE Seeds[j - Len(scores)]
                BY <1>5, <2>1, ConcatProperties
            <4>4. Len(scores) + i \in DOMAIN scores' /\ scores'[Len(scores) + i] = Seeds[i]
                BY <3>2, <4>1, <4>2, <4>3
            <4> QED BY <4>4 DEF Range
        <3> QED BY <3>1, <3>2 DEF Range
    <2>3. ~addStusFailed => scores = <<>> /\ students = Seeds
        BY <1>1, <1>5 DEF StudentInv, ScoresOnce
    <2>4. <<>> \o Seeds = Seeds
        BY <2>1, ConcatEmptySeq
    <2>5. StudentTyped'
        BY <1>1, <1>2, <1>3, <2>2 DEF StudentInv, StudentTyped
    <2>6. StudentsOnce' /\ ScoresFollow' /\ Queried'
        BY <1>1, <1>2, <2>2 DEF StudentInv, StudentsOnce, ScoresFollow, Queried
    <2>7. ~addStusFailed => scores' = Seeds /\ students = Seeds
        BY <1>5, <2>3, <2>4
    <2>8. ScoresOnce'
        BY <1>1, <1>2, <2>7 DEF ScoresOnce
    <2> QED BY <2>5, <2>6, <2>8 DEF StudentInv
<1> QED
    BY <1>4, <1>5 DEF Students!AddScore, Students!MustSeed, Students!ScoreRows

\* The scores of a join are queried.
LEMMA QueryKeeps ==
    ASSUME StudentInv,
           \/ Students!QueryScores("scores4", Students!Range(Seeds))
           \/ Students!QueryScores("scores5", {Chosen})
    PROVE  StudentInv'
<1>0. Students!Range(Seeds) = Range(Seeds)
    BY DEF Range, Students!Range
<1>1. PICK step \in {"scores4", "scores5"}, wanted \in {Range(Seeds), {Chosen}} :
        /\ step = "scores4" => wanted = Range(Seeds)
        /\ step = "scores5" => wanted = {Chosen}
        /\ Students!QueryScores(step, wanted)
    BY <1>0
<1>2. /\ step = "scores4" => at = 13
      /\ step = "scores5" => at = 15
      /\ at \in {13, 15} /\ UNCHANGED <<students, scores, stuCount, addStusFailed, cutShort>>
    BY <1>1, StepNumbers DEF Students!QueryScores, Students!stored
<1>3. \/ at' = at + 1 /\ scoreList' = ScoresAsked(wanted)
      \/ at' = at + 2
    BY <1>1 DEF Students!QueryScores, Students!Advance, ScoresAsked
<1>4. at' \in {14, 15, 16, 17}
    BY <1>2, <1>3
<1>5. faults' \in Nat
    BY <1>1, FaultCounted DEF Students!QueryScores, StudentInv, StudentTyped
<1>6. StudentTyped'
    BY <1>2, <1>4, <1>5 DEF StudentInv, StudentTyped
<1>7. StudentsOnce' /\ ScoresOnce' /\ ScoresFollow'
    BY <1>2, <1>4 DEF StudentInv, StudentsOnce, ScoresOnce, ScoresFollow
<1>8. \A ids : ScoresAsked(ids)' = ScoresAsked(ids)
    BY <1>2 DEF ScoresAsked
<1>9. at' = 14 => scoreList' = ScoresAsked(Range(Seeds))
    BY <1>1, <1>2, <1>3
<1>10. at' = 16 => scoreList' = ScoresAsked({Chosen})
    BY <1>1, <1>2, <1>3
<1>11. Queried'
    BY <1>8, <1>9, <1>10 DEF Queried
<1> QED BY <1>6, <1>7, <1>11 DEF StudentInv

\* Every step of a launch keeps the invariant.
LEMMA StepStudents ==
    ASSUME Students!StudentAssumption, StudentInv, [Students!Next]_(Students!vars)
    PROVE  StudentInv'
<1>1. CASE UNCHANGED Students!vars \/ Students!Finished
    BY <1>1 DEF Students!Finished, Students!vars, Students!stored, Students!locals,
                Students!history, StudentInv, StudentTyped, StudentsOnce, ScoresOnce, ScoresFollow, Queried, ScoresAsked
<1> QED
    BY <1>1, OtherStepsKeep, CountKeeps, AddStusKeeps, AddScoreKeeps, QueryKeeps
    DEF Students!Next, Students!SelectJoinOn4, Students!SelectJoinOn5

-----------------------------------------------------------------------------
\* Scores are stored twice only if storing the students failed before.
THEOREM DuplicatesNeedFailure == Students!Spec => []DuplicateScoresNeedFailure
<1> USE StoresAssumption DEF StoresAssumption
<1>1. Students!IsInjective(<<>>) /\ Students!IsInjective(Seeds)
    BY DEF Students!StudentAssumption, Students!IsInjective
<1>2. StudentInv => Students!DuplicateScoresNeedFailure
    BY <1>1 DEF StudentInv, ScoresOnce, Students!DuplicateScoresNeedFailure
<1>3. StudentInv /\ [Students!Next]_(Students!vars) => StudentInv'
    BY StepStudents
<1>4. Students!Init => StudentInv
    BY InitStudents
<1> QED
    BY <1>2, <1>3, <1>4, PTL DEF DuplicateScoresNeedFailure, Students!Spec

\* Once its seeding has gone by, a stored student lacks a score only if some addScore
\* failed or a crash came before it.
THEOREM GapsNeedCut == Students!Spec => []GapNeedsCut
<1> USE StoresAssumption DEF StoresAssumption
<1>1. StudentInv => Students!GapNeedsCut
    <2> SUFFICES ASSUME StudentInv, ~Students!Running("addScore"), ~cutShort
                 PROVE  Range(students) \subseteq Range(scores)
        BY DEF Students!GapNeedsCut, Students!Range, Range
    <2>1. at \notin {4, 11}
        BY StepNumbers
    <2>2. students = <<>> \/ Range(Seeds) \subseteq Range(scores)
        BY <2>1 DEF StudentInv, ScoresFollow
    <2>3. students = <<>> => Range(students) = {}
        BY DEF Range
    <2> QED BY <2>2, <2>3 DEF StudentInv, StudentsOnce
<1>2. StudentInv /\ [Students!Next]_(Students!vars) => StudentInv'
    BY StepStudents
<1>3. Students!Init => StudentInv
    BY InitStudents
<1> QED
    BY <1>1, <1>2, <1>3, PTL DEF GapNeedsCut, Students!Spec

\* The only step that changes a row once students are stored is the addScore of the
\* same seeding.
THEOREM SeededStaysAsItIs == Students!Spec => SeededDataIsStable
<1> USE StoresAssumption DEF StoresAssumption
<1>1. StudentInv /\ [Students!Next]_(Students!vars) =>
        [students # <<>> /\ ~Students!AddScore => UNCHANGED <<students, scores>>]_(Students!vars)
    <2> SUFFICES ASSUME StudentInv, [Students!Next]_(Students!vars), students # <<>>, ~Students!AddScore
                 PROVE  UNCHANGED <<students, scores>>
        OBVIOUS
    <2>1. CASE Students!AddStus
        <3>1. stuCount # 0
            BY <2>1, StepNumbers DEF StudentInv, StudentsOnce, Students!AddStus
        <3> QED BY <2>1, <3>1 DEF Students!AddStus, Students!MustSeed
    <2>2. CASE ~Students!AddStus
        BY <2>2 DEF Students!Next, Students!Finished, Students!vars, Students!stored, Students!Launch, Students!Crash,
            Students!Create, Students!GetStuCount, Students!Select, Students!SelectJoinOn4,
            Students!SelectJoinOn5, Students!QueryScores, Students!QueryStudents
    <2> QED BY <2>1, <2>2
<1>2. StudentInv /\ [Students!Next]_(Students!vars) => StudentInv'
    BY StepStudents
<1>3. Students!Init => StudentInv
    BY InitStudents
<1> QED
    BY <1>1, <1>2, <1>3, PTL DEF SeededDataIsStable, Students!Spec, Students!SeededDataIsStable

\* Students have distinct ids: the dictionary has one row for each.
LEMMA OneRowEach ==
    ASSUME Students!StudentAssumption, StudentsOnce, NEW found \in SUBSET DOMAIN students,
           NEW j \in found
    PROVE  Students!StudentsDict(found)[students[j]] = j
<1>1. \A i, k \in DOMAIN students : students[i] = students[k] => i = k
    BY DEF StudentsOnce, Students!StudentAssumption, Students!IsInjective
<1>2. \E n : students \in [1..n -> Range(students)] /\ n \in Nat
    <2>1. students \in Seq(Range(students))
        <3>1. students = <<>> \/ students = Seeds
            BY DEF StudentsOnce
        <3> QED BY <3>1, SeedsTyped, EmptySeq
    <2> QED BY <2>1, LenProperties
<1>3. found \subseteq Nat
    BY <1>2
<1> DEFINE D == {students[k] : k \in found}
           row(id) == CHOOSE k \in found : students[k] = id /\ \A m \in found : students[m] = id => m <= k
<1>4. Students!StudentsDict(found) = [id \in D |-> row(id)]
    BY DEF Students!StudentsDict
<1>5. students[j] \in D
    OBVIOUS
<1>6. row(students[j]) = j
    <2>1. \A m \in found : students[m] = students[j] => m = j
        BY <1>1
    <2>2. students[j] = students[j] /\ \A m \in found : students[m] = students[j] => m <= j
        BY <1>3, <2>1
    <2> QED BY <2>1, <2>2
<1> HIDE DEF row, D
<1> QED BY <1>4, <1>5, <1>6

\* The join made in two queries is the one the database makes.
LEMMA JoinIsSql ==
    ASSUME Students!StudentAssumption, StudentsOnce, NEW wanted, scoreList = ScoresAsked(wanted)
    PROVE  Students!Joined(scoreList, Students!RowsIn(Students!Range(scoreList))) = Students!SqlJoin(wanted)
<1> DEFINE list == scoreList
           found == Students!RowsIn(Students!Range(list))
           dict == Students!StudentsDict(found)
<1>1. /\ DOMAIN list = {n \in DOMAIN scores : scores[n] \in wanted}
      /\ \A i \in DOMAIN list : list[i] = scores[i]
    BY DEF ScoresAsked
<1>2. found = {j \in DOMAIN students : \E i \in DOMAIN list : students[j] = list[i]}
    BY DEF Students!RowsIn, Students!Range
<1>3. DOMAIN dict = {students[j] : j \in found}
    BY DEF Students!StudentsDict
<1>4. \A j \in found : dict[students[j]] = j
    BY <1>2, OneRowEach
<1>5. Students!Joined(list, found) = {<<i, dict[list[i]]>> : i \in {n \in DOMAIN list : list[n] \in DOMAIN dict}}
    BY DEF Students!Joined
<1> HIDE DEF list, found, dict
<1>6. ASSUME NEW i \in DOMAIN list, list[i] \in DOMAIN dict
      PROVE  <<i, dict[list[i]]>> \in Students!SqlJoin(wanted)
    <2>1. PICK j \in found : list[i] = students[j]
        BY <1>3, <1>6
    <2>2. dict[list[i]] = j /\ j \in DOMAIN students /\ i \in DOMAIN scores /\ scores[i] = students[j]
          /\ scores[i] \in wanted
        BY <1>1, <1>2, <1>4, <2>1
    <2> QED BY <2>2 DEF Students!SqlJoin
<1>7. ASSUME NEW pair \in Students!SqlJoin(wanted)
      PROVE  pair \in {<<i, dict[list[i]]>> : i \in {n \in DOMAIN list : list[n] \in DOMAIN dict}}
    <2> DEFINE i == pair[1]
               j == pair[2]
    <2>1. /\ pair = <<i, j>> /\ i \in DOMAIN scores /\ j \in DOMAIN students
          /\ scores[i] = students[j] /\ scores[i] \in wanted
        BY DEF Students!SqlJoin
    <2>2. i \in DOMAIN list /\ list[i] = students[j] /\ j \in found
        BY <1>1, <1>2, <2>1
    <2>3. list[i] \in DOMAIN dict /\ dict[list[i]] = j
        BY <1>3, <1>4, <2>2
    <2> HIDE DEF i, j
    <2> QED BY <2>1, <2>2, <2>3
<1>8. Students!Joined(list, found) \subseteq Students!SqlJoin(wanted)
    BY <1>5, <1>6
<1>9. Students!SqlJoin(wanted) \subseteq Students!Joined(list, found)
    BY <1>5, <1>7
<1> QED BY <1>8, <1>9 DEF list, found

\* Joining in two queries through a dictionary gives what the SQL JOIN gives.
THEOREM JoinsAreSqlJoins == Students!Spec => JoinsAgree
<1> USE StoresAssumption DEF StoresAssumption
<1>1. ASSUME StudentInv, NEW step, Students!QueryStudents(step), UNCHANGED faults,
             "Students" \in studentTables
      PROVE  unionList' = Students!Joined(scoreList, Students!RowsIn(Students!Range(scoreList)))
    <2>1. faults \in Nat
        BY <1>1 DEF StudentInv, StudentTyped
    <2>2. ~Students!CountFault("Students")
        BY <1>1, <2>1 DEF Students!CountFault
    <2> QED BY <1>1, <2>2 DEF Students!QueryStudents
<1>2. StudentInv /\ [Students!Next]_(Students!vars) =>
        [/\ Students!QueryStudents("students4") /\ UNCHANGED faults /\ "Students" \in studentTables
                => unionList' = Students!SqlJoin(Students!Range(Seeds))
         /\ Students!QueryStudents("students5") /\ UNCHANGED faults /\ "Students" \in studentTables
                => unionList' = Students!SqlJoin({Chosen})]_(Students!vars)
    <2> SUFFICES ASSUME StudentInv
                 PROVE  /\ Students!QueryStudents("students4") /\ UNCHANGED faults /\ "Students" \in studentTables
                                => unionList' = Students!SqlJoin(Students!Range(Seeds))
                        /\ Students!QueryStudents("students5") /\ UNCHANGED faults /\ "Students" \in studentTables
                                => unionList' = Students!SqlJoin({Chosen})
        OBVIOUS
    <2>1. Students!QueryStudents("students4") => scoreList = ScoresAsked(Students!Range(Seeds))
        BY StepNumbers DEF StudentInv, Queried, Students!QueryStudents, Range, Students!Range
    <2>2. Students!QueryStudents("students5") => scoreList = ScoresAsked({Chosen})
        BY StepNumbers DEF StudentInv, Queried, Students!QueryStudents
    <2>3. StudentsOnce
        BY DEF StudentInv
    <2> QED BY <1>1, <2>1, <2>2, <2>3, JoinIsSql
<1>3. StudentInv /\ [Students!Next]_(Students!vars) => StudentInv'
    BY StepStudents
<1>4. Students!Init => StudentInv
    BY InitStudents
<1> QED
    BY <1>2, <1>3, <1>4, PTL DEF JoinsAgree, Students!Spec, Students!JoinsAgree

-----------------------------------------------------------------------------
(* The timing log.                                                          *)

\* What a call prints: the time between the last of the records and the one compared
\* with, the record before or the first.
Printed(all, type) ==
    IF Len(all) = 1 THEN 0
    ELSE all[Len(all)] - (IF type = "preTime" THEN all[Len(all) - 1] ELSE all[1])

Stamped(t) ==
    /\ stamps[tag[t]] # <<>>
    /\ duration[t] = Printed(stamps[tag[t]], logType[t])

\* Where a call is, as long as it is alone.
AloneAt(t) ==
    CASE pc[t] = "read" -> timeRecodDict = stamps /\ tagTimeList[t] = stamps[tag[t]]
      [] pc[t] = "stamped" -> stamps = [timeRecodDict EXCEPT ![tag[t]] = tagTimeList[t]] /\ Stamped(t)
      [] pc[t] = "storing" -> copy[t] = stamps /\ Stamped(t)
      [] OTHER -> TRUE

TimingTyped ==
    /\ pc \in [Thread -> {"idle", "read", "stamped", "storing"}]
    /\ DOMAIN tag = Thread /\ \A t \in Thread : pc[t] # "idle" => tag[t] \in Tag
    /\ DOMAIN logType = Thread /\ DOMAIN tagTimeList = Thread
    /\ DOMAIN duration = Thread /\ DOMAIN copy = Thread
    /\ clock \in Int
    /\ stamps \in [Tag -> Seq(Int)]
    /\ overlapped \in BOOLEAN

TimingInv ==
    /\ TimingTyped
    /\ ~overlapped =>
        /\ \A t, u \in Thread : pc[t] # "idle" /\ pc[u] # "idle" => t = u
        /\ (\A t \in Thread : pc[t] = "idle") => timeRecodDict = stamps
        /\ \A t \in Thread : AloneAt(t)

\* At first no call is being made and nothing is recorded.
LEMMA InitTiming == Timing!Init => TimingInv
<1> SUFFICES ASSUME Timing!Init PROVE TimingInv
    OBVIOUS
<1>1. stamps \in [Tag -> Seq(Int)] /\ timeRecodDict = stamps
    BY EmptySeq DEF Timing!Init, Timing!NoRecords
<1>2. TimingTyped
    <2>1. DOMAIN tag = Thread /\ DOMAIN logType = Thread /\ DOMAIN tagTimeList = Thread
          /\ DOMAIN duration = Thread /\ DOMAIN copy = Thread
        BY DEF Timing!Init
    <2>2. pc \in [Thread -> {"idle", "read", "stamped", "storing"}] /\ \A t \in Thread : pc[t] = "idle"
        BY DEF Timing!Init
    <2>3. clock \in Int
        BY DEF Timing!Init
    <2>4. overlapped \in BOOLEAN
        BY Zenon DEF Timing!Init
    <2> QED BY <1>1, <2>1, <2>2, <2>3, <2>4 DEF TimingTyped
<1> QED BY <1>1, <1>2 DEF Timing!Init, TimingInv, AloneAt

\* A call reads the tag's list.
LEMMA LogKeeps ==
    ASSUME TimingInv, NEW t \in Thread, Timing!Log(t)
    PROVE  TimingInv'
<1>1. PICK g \in Tag, type \in Timing!RecordTimeType :
        /\ tag' = [tag EXCEPT ![t] = g]
        /\ logType' = [logType EXCEPT ![t] = type]
        /\ tagTimeList' = [tagTimeList EXCEPT ![t] = timeRecodDict[g]]
    BY DEF Timing!Log
<1>2. /\ pc[t] = "idle" /\ pc' = [pc EXCEPT ![t] = "read"] /\ duration' = [duration EXCEPT ![t] = 0]
      /\ overlapped' = (overlapped \/ Timing!Active # {})
      /\ UNCHANGED <<timeRecodDict, clock, copy, stamps>>
    BY DEF Timing!Log
<1>3. TimingTyped'
    BY <1>1, <1>2 DEF TimingInv, TimingTyped
<1>4. SUFFICES ASSUME ~overlapped'
               PROVE  /\ \A u, v \in Thread : pc'[u] # "idle" /\ pc'[v] # "idle" => u = v
                      /\ (\A u \in Thread : pc'[u] = "idle") => timeRecodDict' = stamps'
                      /\ \A u \in Thread : AloneAt(u)'
    BY <1>3 DEF TimingInv
<1>5. ~overlapped /\ \A u \in Thread : pc[u] = "idle"
    BY <1>2, <1>4 DEF Timing!Active, TimingInv, TimingTyped
<1>6. timeRecodDict = stamps
    BY <1>5 DEF TimingInv
<1>7. pc'[t] = "read" /\ tag'[t] = g /\ tagTimeList'[t] = timeRecodDict[g]
      /\ \A u \in Thread : u # t => pc'[u] = "idle"
    BY <1>1, <1>2, <1>5 DEF TimingInv, TimingTyped
<1> QED BY <1>2, <1>6, <1>7 DEF AloneAt

\* A record is appended: what will be printed is the distance to the one compared with.
LEMMA PrintedIsDistance ==
    ASSUME NEW list \in Seq(Int), NEW type, NEW now \in Int, clock = now
    PROVE  Timing!DistanceToNow(list, type) = Printed(Append(list, now), type)
<1> DEFINE all == Append(list, now)
<1>1. /\ Len(all) = Len(list) + 1 /\ all[Len(list) + 1] = now /\ Len(list) \in Nat
      /\ \A i \in 1..Len(list) : all[i] = list[i]
    BY AppendProperties
<1>2. CASE list = <<>>
    BY <1>2 DEF Timing!DistanceToNow, Printed
<1>3. CASE list # <<>>
    <2>1. Len(list) >= 1 /\ Len(all) # 1 /\ Len(all) - 1 = Len(list)
        BY <1>1, <1>3, EmptySeq
    <2>2. 1 \in 1..Len(list) /\ Len(list) \in 1..Len(list)
        BY <1>1, <2>1
    <2>3. all[1] = list[1] /\ all[Len(all) - 1] = list[Len(list)] /\ all[Len(all)] = now
        BY <1>1, <2>1, <2>2
    <2>4. Head(list) = list[1]
        BY <1>3
    <2> HIDE DEF all
    <2>5. Printed(all, type) = now - (IF type = "preTime" THEN list[Len(list)] ELSE list[1])
        BY <2>1, <2>3 DEF Printed
    <2>6. Timing!DistanceToNow(list, type) = now - (IF type = "preTime" THEN list[Len(list)] ELSE list[1])
        BY <1>3, <2>4 DEF Timing!DistanceToNow, Timing!Reference, Timing!Last
    <2> QED BY <2>5, <2>6 DEF all
<1> QED BY <1>2, <1>3

\* A call takes its time.
LEMMA StampKeeps ==
    ASSUME TimingInv, NEW t \in Thread, Timing!Stamp(t)
    PROVE  TimingInv'
<1> DEFINE g == tag[t]
           list == stamps[g]
<1>1. /\ pc[t] = "read" /\ pc' = [pc EXCEPT ![t] = "stamped"]
      /\ duration' = [duration EXCEPT ![t] = Timing!DistanceToNow(tagTimeList[t], logType[t])]
      /\ tagTimeList' = [tagTimeList EXCEPT ![t] = Append(tagTimeList[t], clock)]
      /\ stamps' = [stamps EXCEPT ![g] = Append(list, clock)]
      /\ UNCHANGED <<timeRecodDict, clock, tag, logType, copy, overlapped>>
    BY DEF Timing!Stamp, Timing!Recorded
<1>2. g \in Tag /\ list \in Seq(Int) /\ clock \in Int
    BY <1>1 DEF TimingInv, TimingTyped
<1>3. TimingTyped'
    <2>1. Append(list, clock) \in Seq(Int)
        BY <1>2, AppendProperties
    <2> HIDE DEF list, g
    <2> QED BY <1>1, <1>2, <2>1 DEF TimingInv, TimingTyped
<1>4. SUFFICES ASSUME ~overlapped'
               PROVE  /\ \A u, v \in Thread : pc'[u] # "idle" /\ pc'[v] # "idle" => u = v
                      /\ (\A u \in Thread : pc'[u] = "idle") => timeRecodDict' = stamps'
                      /\ \A u \in Thread : AloneAt(u)'
    BY <1>3 DEF TimingInv
<1>5. \A u \in Thread : u # t => pc[u] = "idle"
    BY <1>1, <1>4 DEF TimingInv
<1>6. pc'[t] = "stamped" /\ \A u \in Thread : u # t => pc'[u] = "idle"
    BY <1>1, <1>5 DEF TimingInv, TimingTyped
<1>7. timeRecodDict = stamps /\ tagTimeList[t] = list
    BY <1>1, <1>4 DEF TimingInv, AloneAt
<1>8. stamps' = [timeRecodDict' EXCEPT ![tag'[t]] = tagTimeList'[t]]
    BY <1>1, <1>2, <1>7 DEF TimingInv, TimingTyped
<1>9. Stamped(t)'
    <2>1. duration'[t] = Printed(Append(list, clock), logType[t])
        <3>1. duration'[t] = Timing!DistanceToNow(list, logType[t])
            BY <1>1, <1>7 DEF TimingInv, TimingTyped
        <3> HIDE DEF list
        <3> QED BY <1>2, <3>1, PrintedIsDistance
    <2>2. stamps'[tag'[t]] = Append(list, clock)
        BY <1>1, <1>2 DEF TimingInv, TimingTyped
    <2>3. Append(list, clock) # <<>>
        BY <1>2, AppendProperties
    <2> QED BY <1>1, <2>1, <2>2, <2>3 DEF Stamped
<1> QED BY <1>6, <1>8, <1>9 DEF AloneAt

\* The dictionary is copied and changed.
LEMMA StoreBeginKeeps ==
    ASSUME TimingInv, NEW t \in Thread, Timing!StoreBegin(t)
    PROVE  TimingInv'
<1>1. /\ pc[t] = "stamped" /\ pc' = [pc EXCEPT ![t] = "storing"]
      /\ copy' = [copy EXCEPT ![t] = [timeRecodDict EXCEPT ![tag[t]] = tagTimeList[t]]]
      /\ UNCHANGED <<timeRecodDict, clock, tag, logType, tagTimeList, duration, stamps, overlapped>>
    BY DEF Timing!StoreBegin
<1>2. TimingTyped'
    BY <1>1 DEF TimingInv, TimingTyped
<1>3. SUFFICES ASSUME ~overlapped'
               PROVE  /\ \A u, v \in Thread : pc'[u] # "idle" /\ pc'[v] # "idle" => u = v
                      /\ (\A u \in Thread : pc'[u] = "idle") => timeRecodDict' = stamps'
                      /\ \A u \in Thread : AloneAt(u)'
    BY <1>2 DEF TimingInv
<1>4. \A u \in Thread : u # t => pc[u] = "idle"
    BY <1>1, <1>3 DEF TimingInv
<1>5. pc'[t] = "storing" /\ \A u \in Thread : u # t => pc'[u] = "idle"
    BY <1>1, <1>4 DEF TimingInv, TimingTyped
<1>6. stamps = [timeRecodDict EXCEPT ![tag[t]] = tagTimeList[t]] /\ Stamped(t)
    BY <1>1, <1>3 DEF TimingInv, AloneAt
<1>7. copy'[t] = stamps'
    BY <1>1, <1>6 DEF TimingInv, TimingTyped
<1>8. Stamped(t)'
    BY <1>1, <1>6 DEF Stamped
<1> QED BY <1>5, <1>7, <1>8 DEF AloneAt

\* It takes the place of the old one, and the call returns.
LEMMA StoreEndKeeps ==
    ASSUME TimingInv, NEW t \in Thread, Timing!StoreEnd(t)
    PROVE  TimingInv'
<1>1. /\ pc[t] = "storing" /\ pc' = [pc EXCEPT ![t] = "idle"] /\ timeRecodDict' = copy[t]
      /\ UNCHANGED <<clock, stamps, overlapped>>
    BY DEF Timing!StoreEnd
<1>2. TimingTyped'
    BY <1>1 DEF TimingInv, TimingTyped, Timing!StoreEnd
<1>3. SUFFICES ASSUME ~overlapped'
               PROVE  /\ \A u, v \in Thread : pc'[u] # "idle" /\ pc'[v] # "idle" => u = v
                      /\ (\A u \in Thread : pc'[u] = "idle") => timeRecodDict' = stamps'
                      /\ \A u \in Thread : AloneAt(u)'
    BY <1>2 DEF TimingInv
<1>4. \A u \in Thread : pc'[u] = "idle"
    BY <1>1, <1>3 DEF TimingInv, TimingTyped
<1>5. copy[t] = stamps
    BY <1>1, <1>3 DEF TimingInv, AloneAt
<1> QED BY <1>1, <1>4, <1>5 DEF AloneAt

\* The clock moves, or nothing does.
LEMMA ClockKeeps ==
    ASSUME TimingInv, clock' \in Int, UNCHANGED <<timeRecodDict, pc, tag, logType, tagTimeList, duration, copy, stamps, overlapped>>
    PROVE  TimingInv'
<1>1. TimingTyped'
    BY DEF TimingInv, TimingTyped
<1>2. \A t \in Thread : AloneAt(t) => AloneAt(t)'
    BY DEF AloneAt, Stamped
<1> QED BY <1>1, <1>2 DEF TimingInv

\* Every step of a call keeps the invariant.
LEMMA StepTiming == TimingInv /\ [Timing!Next]_(Timing!vars) => TimingInv'
<1> SUFFICES ASSUME TimingInv, [Timing!Next]_(Timing!vars) PROVE TimingInv'
    OBVIOUS
<1>1. CASE UNCHANGED Timing!vars
    BY <1>1, ClockKeeps DEF Timing!vars, Timing!locals, TimingInv, TimingTyped
<1>2. CASE Timing!Tick
    <2>1. clock' = clock + 1 /\ clock \in Int
        BY <1>2 DEF Timing!Tick, TimingInv, TimingTyped
    <2> QED BY <1>2, <2>1, ClockKeeps DEF Timing!Tick, Timing!locals
<1>3. CASE Timing!SetClockBack
    <2>1. clock' = clock - 1 /\ clock \in Int
        BY <1>3 DEF Timing!SetClockBack, TimingInv, TimingTyped
    <2> QED BY <1>3, <2>1, ClockKeeps DEF Timing!SetClockBack, Timing!locals
<1> QED
    BY <1>1, <1>2, <1>3, LogKeeps, StampKeeps, StoreBeginKeeps, StoreEndKeeps DEF Timing!Next

\* Calls of log that never overlap lose nothing: between calls the dictionary holds every
\* time ever taken for every tag, however the wall clock moves.
THEOREM NothingIsLostAlone == Timing!Spec => []NothingLostAlone
<1>1. TimingInv => Timing!NothingLostAlone
    BY DEF TimingInv, TimingTyped, Timing!NothingLostAlone, Timing!Active
<1> QED
    BY InitTiming, StepTiming, <1>1, PTL DEF NothingLostAlone, Timing!Spec

\* What a call that no other overlaps prints is the time between its record and the one
\* named, the tag's previous or first.
THEOREM PrintedIsSinceReference == Timing!Spec => PrintedSinceReference
<1>1. ASSUME TimingInv, NEW t \in Thread, Timing!StoreEnd(t), ~overlapped
      PROVE  LET all == stamps[tag[t]] IN
             duration[t] = IF Len(all) = 1 THEN 0
                           ELSE Timing!Last(all) - IF logType[t] = "preTime" THEN all[Len(all) - 1] ELSE all[1]
    <2>1. pc[t] = "storing"
        BY <1>1 DEF Timing!StoreEnd
    <2>2. AloneAt(t)
        BY <1>1 DEF TimingInv
    <2> QED BY <2>1, <2>2 DEF AloneAt, Stamped, Printed, Timing!Last
<1>2. TimingInv /\ [Timing!Next]_(Timing!vars) =>
        [\A t \in Thread : Timing!StoreEnd(t) /\ ~overlapped =>
            LET all == stamps[tag[t]] IN
            duration[t] = IF Len(all) = 1 THEN 0
                          ELSE Timing!Last(all) - IF logType[t] = "preTime" THEN all[Len(all) - 1]
                                                                            ELSE all[1]]_(Timing!vars)
    BY <1>1
<1> QED
    BY InitTiming, StepTiming, <1>2, PTL DEF PrintedSinceReference, Timing!Spec, Timing!PrintedSinceReference

-----------------------------------------------------------------------------
(* The components side by side.                                             *)

\* A behaviour of Stores is one of each component: what one of them does is no step of
\* another.
THEOREM SharesNothing ==
    StoresSpec => Spec /\ Members!Spec /\ WebSites!Spec /\ Students!Spec /\ Timing!Spec
<1>1. StoresInit => Init /\ Members!Init /\ WebSites!Init /\ Students!Init /\ Timing!Init
    BY DEF StoresInit
<1>2. [StoresNext]_storesVars => [Next]_vars
    BY DEF StoresNext, storesVars
<1>3. [StoresNext]_storesVars => [Members!Next]_(Members!vars)
    BY DEF StoresNext, storesVars, Members!vars, memberVars
<1>4. [StoresNext]_storesVars => [WebSites!Next]_(WebSites!vars)
    BY DEF StoresNext, storesVars, WebSites!vars, siteVars
<1>5. [StoresNext]_storesVars => [Students!Next]_(Students!vars)
    BY DEF StoresNext, storesVars, Students!vars, Students!stored, Students!locals, Students!history, studentVars
<1>6. [StoresNext]_storesVars => [Timing!Next]_(Timing!vars)
    BY DEF StoresNext, storesVars, Timing!vars, Timing!locals, timingVars
<1> QED
    BY <1>1, <1>2, <1>3, <1>4, <1>5, <1>6, PTL
    DEF StoresSpec, Spec, Members!Spec, WebSites!Spec, Students!Spec, Timing!Spec
=============================================================================
