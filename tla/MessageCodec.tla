---------------------------- MODULE MessageCodec ----------------------------
(***************************************************************************)
(* How StudyWCDB turns a chat message into a row of the database and back. *)
(* There are three ways, one per table: the fields of the message's class  *)
(* as a json Data column (1), as a json String column (2), or each in a    *)
(* column of its own (3).  The class of the message read is found from its *)
(* type alone.                                                             *)
(*                                                                         *)
(* Values are opaque.  The members all messages share and that are copied  *)
(* as they are (flag, chatType, content, atUids, atUsers, atMe, extra) are *)
(* one value, rest.                                                        *)
(***************************************************************************)
EXTENDS Naturals, Sequences

CONSTANTS
    Value,      \* what a member may hold
    Nil,
    Initial     \* what a member that is not optional holds at first: 0, "", .audio ...

\* The members of a RefMessage that are archived.
RefKey == {"msgId", "content", "type"}

\* Nil is none of the values and none of the json dictionaries.
ASSUME CodecAssumption ==
    /\ Nil \notin Value
    /\ Initial \in Value
    /\ \A keys \in SUBSET RefKey : Nil \notin [keys -> Value]

MessageType ==
    {"text", "image", "audio", "video", "location", "card", "system", "file",
     "notice", "dynamicImage", "call"}

Class == {"Message", "Text", "Image", "Video", "Card", "Location", "Notice", "File", "Call"}

\* MessageModel.model(messageType:).  audio, system, dynamicImage and nil have no
\* class of their own.
ClassOf(type) ==
    CASE type = "text" -> "Text"
      [] type = "image" -> "Image"
      [] type = "video" -> "Video"
      [] type = "card" -> "Card"
      [] type = "location" -> "Location"
      [] type = "notice" -> "Notice"
      [] type = "file" -> "File"
      [] type = "call" -> "Call"
      [] OTHER -> "Message"

\* The members each class adds to those of its superclass, and that it encodes and
\* decodes in its overrides.
MediaFields == {"fileSize", "fileName", "url"}
ImageFields == {"width", "height", "thumbFileName", "thumbUrl"}
VideoFields == {"compressed"}
FileFields == {"mimeType", "localFileName"}
CardFields == {"cardUid", "cardName", "cardIcon", "cardId"}
LocationFields == {"lat", "lng", "address"}
NoticeFields == {"noticeId", "showNotify"}
CallFields == {"callType", "callStatus", "duration", "channelName"}

Own(c) ==
    CASE c = "Image" -> ImageFields
      [] c = "Video" -> VideoFields
      [] c = "File" -> FileFields
      [] c = "Card" -> CardFields
      [] c = "Location" -> LocationFields
      [] c = "Notice" -> NoticeFields
      [] c = "Call" -> CallFields
      [] OTHER -> {}

\* MediaMessageModel is the superclass of three of them.
Inherited(c) == IF c \in {"Image", "Video", "File"} THEN MediaFields ELSE {}

Fields(c) == Own(c) \cup Inherited(c)

OptionalField == {"fileName", "url", "thumbFileName", "thumbUrl", "localFileName"}

Default(f) == IF f \in OptionalField THEN Nil ELSE Initial

SubInfo(c) ==
    {s \in [Fields(c) -> Value \cup {Nil}] : \A f \in Fields(c) : s[f] = Nil => f \in OptionalField}

RefMessage ==
    [msgId : Value \cup {Nil}, content : Value \cup {Nil}, type : Value \cup {Nil},
     uid : Value \cup {Nil}, nickname : Value]

MessageOf(c) ==
    [class : {c}, messageType : MessageType \cup {Nil}, msgId : Value \cup {Nil},
     rest : Value, refMsg : RefMessage \cup {Nil}, sub : SubInfo(c)]

\* The messages whose class is the one their type names.
IsMessage(m) ==
    /\ m.class \in Class
    /\ m \in MessageOf(m.class)
    /\ m.class = ClassOf(m.messageType)

-----------------------------------------------------------------------------
\* A Swift dictionary assigned member by member has no key for a nil.
Present(d) == [k \in {i \in DOMAIN d : d[i] # Nil} |-> d[k]]

\* RefMessage.archivedValue: a json dictionary of three members.
ArchivedRef(ref) == Present([k \in RefKey |-> ref[k]])

\* RefMessage.init(with:).  A "uid" would be put into msgId.
UnarchivedRef(d) ==
    [msgId |-> IF "uid" \in DOMAIN d THEN d["uid"]
               ELSE IF "msgId" \in DOMAIN d THEN d["msgId"] ELSE Nil,
     content |-> IF "content" \in DOMAIN d THEN d["content"] ELSE Nil,
     type |-> IF "type" \in DOMAIN d THEN d["type"] ELSE Nil,
     uid |-> Nil,
     nickname |-> IF "nickname" \in DOMAIN d THEN d["nickname"] ELSE Initial]

\* Mutant of EncodeSubInfoDict: super is not called.
EncodeOwnOnly(m) == Present([f \in Own(m.class) |-> m.sub[f]])

\* encodeSubInfoDict: the class's members and its superclass's.
EncodeSubInfoDict(m) == Present(m.sub)

\* decodeSubInfoDict: a missing key leaves what the new object holds.
DecodeSubInfoDict(c, dict) ==
    [f \in Fields(c) |-> IF f \in DOMAIN dict THEN dict[f] ELSE Default(f)]

Column == UNION {Fields(c) : c \in Class}

\* encodeSubInfoModel: the columns of other classes stay nil.
EncodeSubInfoModel(m) == [f \in Column |-> IF f \in Fields(m.class) THEN m.sub[f] ELSE Nil]

\* decodeSubInfoModel.
DecodeSubInfoModel(c, row) == [f \in Fields(c) |-> IF row[f] # Nil THEN row[f] ELSE Default(f)]

-----------------------------------------------------------------------------
Family == 1..3

\* dbModel, dbModel2, dbModel3, stored.
Stored(f, m) ==
    [messageType |-> m.messageType,
     msgId |-> m.msgId,
     rest |-> m.rest,
     refMsg |-> IF m.refMsg = Nil THEN Nil ELSE ArchivedRef(m.refMsg),
     sub |-> IF f = 3 THEN EncodeSubInfoModel(m) ELSE EncodeSubInfoDict(m)]

\* The model of MessageDBModel, 2 and 3, as read back.
Loaded(f, row) ==
    [class |-> ClassOf(row.messageType),
     messageType |-> row.messageType,
     msgId |-> row.msgId,
     rest |-> row.rest,
     refMsg |-> IF row.refMsg = Nil THEN Nil ELSE UnarchivedRef(row.refMsg),
     sub |-> IF f = 3 THEN DecodeSubInfoModel(ClassOf(row.messageType), row.sub)
                      ELSE DecodeSubInfoDict(ClassOf(row.messageType), row.sub)]

\* What every one of the tables keeps of a message: all but the uid and the nickname
\* of the message it refers to.
KeptRef(ref) ==
    [msgId |-> ref.msgId, content |-> ref.content, type |-> ref.type,
     uid |-> Nil, nickname |-> Initial]

Kept(m) == [m EXCEPT !.refMsg = IF @ = Nil THEN Nil ELSE KeptRef(@)]
=============================================================================
