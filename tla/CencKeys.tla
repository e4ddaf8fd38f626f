------------------------------ MODULE CencKeys ------------------------------
(***************************************************************************)
(* The keys of a session: the list that CommonEncryptionData keeps of them  *)
(* and how it is filled from init data (plugin/CENCParser.h, Protobuf.h).    *)
(*                                                                         *)
(* Parsing goes through the init data piece by piece: a PSSH box holds ids   *)
(* and a payload, the payload of PlayReady is an object of records, one of   *)
(* them XML; the payload of Widevine is a message of fields.  Every piece is *)
(* described by what the parser looks at.  Init data is PSSH boxes one after *)
(* the other, what follows them not being looked at, or else XML, JSON or an *)
(* object without a box around it.                                          *)
(*                                                                         *)
(* PlayReady writes an id in another byte order than everybody else; the    *)
(* comparison of ids (Exchange::KeyId, external) takes both as the same.    *)
(***************************************************************************)
EXTENDS Integers, Sequences

CONSTANTS
  Ids,      \* ids of keys, as their bytes are written
  Twin,     \* the same id in the other byte order
  Pending,  \* StatusPending, which an entry begins with
  None      \* no id: KID data that is not as long as an id

ASSUME IdAssumption ==
  /\ Twin \in [Ids -> Ids]
  /\ \A id \in Ids : Twin[Twin[id]] = id
  /\ None \notin Ids

-----------------------------------------------------------------------------
(* The list *)

Equal(i, j) == i = j \/ i = Twin[j]

\* Mutant: ids are compared byte by byte.
Matches_ByBytes(list, id) == {n \in DOMAIN list : list[n].id = id}

Matches(list, id) == {n \in DOMAIN list : Equal(list[n].id, id)}

\* The entry that std::find comes to first.
Find(list, id) == CHOOSE n \in Matches(list, id) : \A m \in Matches(list, id) : n <= m

\* None: the key is not listed. To opencdm_session_status it is pending then, too.
StatusOf(list, id) == IF Matches(list, id) = {} THEN None ELSE list[Find(list, id)].status

\* For which systems a key is listed is noted with it, and read by nobody.
AddKeyId(list, id) ==
  IF Matches(list, id) = {} THEN Append(list, [id |-> id, status |-> Pending]) ELSE list

\* A key that is not listed is added, one that is gets the status.
UpdateKeyStatus(list, id, status) ==
  IF Matches(list, id) = {} THEN Append(list, [id |-> id, status |-> status])
  ELSE [list EXCEPT ![Find(list, id)].status = status]

-----------------------------------------------------------------------------
(* Pieces of init data *)

\* Protobuf::IElement::WireType, the two for groups as one.
WireTypes == {"varint", "fixed64", "bytes", "group", "fixed32"}

Keys == [is : {"key"}, id : Ids \cup {None}]
Kids == [form : {"text", "attribute"}, id : Ids \cup {None}]
Xmls == [is : {"xml"}, kids : Seq(Kids), open : BOOLEAN]   \* open: it breaks off in <KID>
Records == [is : {"record"}, type : Nat, xml : Xmls]
Objects == [is : {"object"}, whole : BOOLEAN, count : Nat, records : Seq(Records)]
\* A field that is not whole ends in the middle of its number or of its length.
Fields == [number : Nat, type : WireTypes, whole : BOOLEAN, id : Ids]
Messages == [is : {"message"}, fields : Seq(Fields)]
Boxes == [is : {"box"}, version : Nat, kids : Seq(Ids), kidsFit : BOOLEAN,
          payload : Objects \cup Messages \cup {None}]
          \* None: it does not fit, or is that of a system whose payload is not read
Jsons == [is : {"json"}, ids : Seq(Ids)]

Pieces == Keys \cup Xmls \cup Records \cup Objects \cup Messages \cup Boxes \cup Jsons

AsKeys(ids) == [n \in 1..Len(ids) |-> [is |-> "key", id |-> ids[n]]]

\* Mutant: a box that has a payload is searched for ids there alone.
ParsePSSHBox_PayloadOnly(box) ==
  IF box.version \in {0, 1} /\ box.payload # None THEN <<box.payload>>
  ELSE IF box.version = 1 /\ box.kidsFit THEN AsKeys(box.kids) ELSE <<>>

\* Version 0 has a payload; version 1 has ids ahead of it, without which it cannot be
\* found; further versions are not read.
ParsePSSHBox(box) ==
  (IF box.payload # None /\ (box.version = 0 \/ (box.version = 1 /\ box.kidsFit))
   THEN <<box.payload>> ELSE <<>>)
  \o (IF box.version = 1 /\ box.kidsFit THEN AsKeys(box.kids) ELSE <<>>)

\* The records the object says it has, as far as there are.
ParsePlayReadyPSSHData(object) ==
  IF ~object.whole THEN <<>>
  ELSE LET count == IF object.count < Len(object.records) THEN object.count ELSE Len(object.records)
       IN  SubSeq(object.records, 1, count)

RightsManagement == 1
ParseRecord(record) == IF record.type = RightsManagement THEN <<record.xml>> ELSE <<>>

\* First <KID>id</KID> is looked for, and from the last of those on <KID VALUE="id">.
\* Text that breaks off in the first form ends both searches.
ParseXMLBox(xml) ==
  LET kids == xml.kids
      text == [n \in 1..Len(kids) |-> IF kids[n].form = "text" THEN kids[n].id ELSE None]
      attributes ==
        [n \in 1..Len(kids) |->
          IF \A m \in n..Len(kids) : kids[m].form = "attribute" THEN kids[n].id ELSE None]
  IN  AsKeys(text) \o IF xml.open THEN <<>> ELSE AsKeys(attributes)

\* The fields of WidevinePsshPB2.  A message looks them up by the lowest 8 bits of
\* their number.
Declared == [n \in 1..10 |-> IF n \in {2, 3, 4, 5, 6, 8} THEN "bytes" ELSE "varint"]
KeyIDs == 2
Index(field) == field.number % 256

\* A field that is not declared is passed over if its length is known.
Skips(field) == field.type # "group"

FieldFails(field) ==
  \/ field.number = 0
  \/ ~field.whole
  \/ IF Index(field) \in DOMAIN Declared
     THEN field.type # Declared[Index(field)] ELSE ~Skips(field)

\* One field that cannot be read, and the message has no ids.
ParseWidevinePSSHData(message) ==
  IF \E n \in DOMAIN message.fields : FieldFails(message.fields[n]) THEN <<>>
  ELSE AsKeys([n \in 1..Len(message.fields) |->
                IF Index(message.fields[n]) = KeyIDs THEN message.fields[n].id ELSE None])

ParseJSONInitData(json) == AsKeys(json.ids)

\* What a piece that is not a key consists of.
Parse(piece) ==
  CASE piece.is = "box" -> ParsePSSHBox(piece)
    [] piece.is = "object" -> ParsePlayReadyPSSHData(piece)
    [] piece.is = "record" -> ParseRecord(piece)
    [] piece.is = "xml" -> ParseXMLBox(piece)
    [] piece.is = "message" -> ParseWidevinePSSHData(piece)
    [] piece.is = "json" -> ParseJSONInitData(piece)

-----------------------------------------------------------------------------
(* What init data says, without parsing it *)

IdsOfXml(xml) == {xml.kids[n].id : n \in DOMAIN xml.kids} \ {None}

IdsOfObject(object) ==
  UNION {IdsOfXml(object.records[n].xml) :
           n \in {m \in DOMAIN object.records : object.records[m].type = RightsManagement}}

IdsOfMessage(message, numbers) ==
  {message.fields[n].id : n \in {m \in DOMAIN message.fields : message.fields[m].number \in numbers}}

\* The ids that are written in a piece, those of messages in fields of some numbers.
IdsOf(piece, numbers) ==
  CASE piece.is = "key" -> {piece.id} \ {None}
    [] piece.is = "xml" -> IdsOfXml(piece)
    [] piece.is = "record" -> IF piece.type = RightsManagement THEN IdsOfXml(piece.xml) ELSE {}
    [] piece.is = "object" -> IdsOfObject(piece)
    [] piece.is = "message" -> IdsOfMessage(piece, numbers)
    [] piece.is = "json" -> {piece.ids[n] : n \in DOMAIN piece.ids}
    [] piece.is = "box" ->
         {piece.kids[n] : n \in DOMAIN piece.kids}
           \cup (IF piece.payload = None THEN {}
                 ELSE IF piece.payload.is = "object" THEN IdsOfObject(piece.payload)
                 ELSE IdsOfMessage(piece.payload, numbers))

\* In the format one number is that of key ids; this parser takes all for it that
\* have the same lowest 8 bits.
Mentioned(piece) == IdsOf(piece, {KeyIDs})
TakenForKeyIDs == {number \in Nat : number % 256 = KeyIDs}
Mistakable(piece) == IdsOf(piece, TakenForKeyIDs)

\* XML of one version of PlayReady writes all its KIDs in one form.
SoundXml(xml) ==
  ~xml.open /\ \A m, n \in DOMAIN xml.kids : xml.kids[m].form = xml.kids[n].form

SoundObject(object) ==
  /\ object.whole /\ object.count = Len(object.records)
  /\ \A n \in DOMAIN object.records : SoundXml(object.records[n].xml)

\* A field of the format, or one of a later version of it that still numbers its fields
\* in a byte.
SoundField(field) ==
  /\ field.whole /\ field.number \in 1..255
  /\ IF field.number \in DOMAIN Declared THEN field.type = Declared[field.number]
     ELSE field.type # "group"

SoundMessage(message) == \A n \in DOMAIN message.fields : SoundField(message.fields[n])

\* A piece as the formats have it, in a version this parser knows.
Sound(piece) ==
  CASE piece.is \in {"key", "json"} -> TRUE
    [] piece.is = "xml" -> SoundXml(piece)
    [] piece.is = "record" -> SoundXml(piece.xml)
    [] piece.is = "object" -> SoundObject(piece)
    [] piece.is = "message" -> SoundMessage(piece)
    [] piece.is = "box" ->
         /\ IF piece.version = 0 THEN piece.kids = <<>> ELSE piece.version = 1 /\ piece.kidsFit
         /\ IF piece.payload = None THEN TRUE
            ELSE IF piece.payload.is = "object" THEN SoundObject(piece.payload)
            ELSE SoundMessage(piece.payload)

=============================================================================
