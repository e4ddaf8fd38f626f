------------------------- MODULE KeyStatusesProofs -------------------------
(***************************************************************************)
(* What a session's list of keys begins with, and what client and            *)
(* application know of the keys, for any init data and any number of keys,    *)
(* statuses and reports.  The strengthening says what the properties leave   *)
(* open on the way: what parsing has found and what is left to be parsed,     *)
(* that no list has a key twice, and that a report under way still carries    *)
(* the status the server's list has.                                        *)
(***************************************************************************)
EXTENDS KeyStatuses, TLAPS

Status == Reported \cup {Pending}

---------------------------------------------------------------------------
(* The list *)

\* Ids are equal in one byte order or the other: an equivalence.
LEMMA EqualIds ==
  ASSUME NEW i \in Ids, NEW j \in Ids, NEW k \in Ids
  PROVE  /\ Equal(i, i)
         /\ Equal(i, j) => Equal(j, i)
         /\ Equal(i, j) /\ Equal(j, k) => Equal(i, k)
BY IdAssumption DEF Equal

\* What an entry of a list is.
LEMMA EntryType ==
  ASSUME NEW list \in Seq(Entries), NEW n \in DOMAIN list
  PROVE  list[n] \in Entries /\ list[n].id \in Ids /\ list[n].status \in Status
<1>1. list[n] \in Entries
  OBVIOUS
<1> QED BY <1>1 DEF Entries, Status

\* In a list without doubles the entry that is found is the only one.
LEMMA OnlyEntry ==
  ASSUME NEW list \in Seq(Entries), Distinct(list),
         NEW n \in DOMAIN list, NEW k \in Ids, Equal(list[n].id, k)
  PROVE  Matches(list, k) = {n} /\ Find(list, k) = n /\ StatusOf(list, k) = list[n].status
<1>1. \A m \in DOMAIN list : list[m].id \in Ids
  BY EntryType
<1>2. Matches(list, k) = {n}
  <2>1. n \in Matches(list, k)
    BY DEF Matches
  <2>2. ASSUME NEW m \in Matches(list, k) PROVE m = n
    BY <2>2, <1>1, EqualIds DEF Matches, Distinct
  <2> QED BY <2>1, <2>2
<1>3. Find(list, k) = n
  BY <1>2 DEF Find
<1> QED BY <1>2, <1>3 DEF StatusOf

\* What UpdateKeyStatus makes of a list: the status of k is s, in whichever byte order k
\* is listed, and no other is another one.
IsUpdated(list, new, k, s) ==
  /\ new \in Seq(Entries) /\ Distinct(new)
  /\ new[Find(new, k)].id \in Ids /\ Equal(new[Find(new, k)].id, k)
  /\ \A n \in DOMAIN new : new[n].id = k \/ \E m \in DOMAIN list : list[m].id = new[n].id
  /\ \A j \in Ids : Equal(j, k) => StatusOf(new, j) = s
  /\ \A j \in Ids : ~Equal(j, k) => StatusOf(new, j) = StatusOf(list, j)

\* A key that is not listed is appended.
LEMMA UpdatedAdds ==
  ASSUME NEW list \in Seq(Entries), Distinct(list), NEW k \in Ids, NEW s \in Status,
         NEW new, new = UpdateKeyStatus(list, k, s), Matches(list, k) = {}
  PROVE  IsUpdated(list, new, k, s)
<1> DEFINE N == Len(list) + 1
           e == [id |-> k, status |-> s]
<1>e. e \in Entries /\ e.id = k /\ e.status = s /\ new = Append(list, e)
  BY DEF Entries, Status, UpdateKeyStatus
<1> HIDE DEF e
<1>1. /\ new \in Seq(Entries)
      /\ new[N] = e /\ new[N].id = k /\ new[N].status = s
      /\ \A n \in DOMAIN list : new[n] = list[n]
      /\ DOMAIN list = 1..Len(list) /\ DOMAIN new = 1..N /\ Len(list) \in Nat
  BY <1>e
<1>0. new \in Seq(Entries)
  BY <1>1
<1>2. DOMAIN new = DOMAIN list \cup {N} /\ N \notin DOMAIN list /\ N \in DOMAIN new
  BY <1>1
<1>3. \A n \in DOMAIN new : new[n].id \in Ids
  BY <1>0, EntryType
<1>4. \A n \in DOMAIN list : ~Equal(list[n].id, k)
  BY DEF Matches
<1> HIDE DEF N
<1>5. Distinct(new)
  <2> SUFFICES ASSUME NEW m \in DOMAIN new, NEW n \in DOMAIN new, Equal(new[m].id, new[n].id)
               PROVE  m = n
    BY DEF Distinct
  <2>1. CASE m \in DOMAIN list /\ n \in DOMAIN list
    BY <2>1, <1>1 DEF Distinct
  <2>2. CASE m \in DOMAIN list /\ n = N
    BY <2>2, <1>1, <1>4
  <2>3. CASE m = N /\ n \in DOMAIN list
    <3>1. Equal(new[n].id, new[m].id)
      BY <1>3, EqualIds
    <3> QED BY <2>3, <3>1, <1>1, <1>4
  <2> QED BY <2>1, <2>2, <2>3, <1>2
<1>6. ASSUME NEW j \in Ids, Equal(j, k) PROVE StatusOf(new, j) = s
  <2>1. Equal(new[N].id, j)
    BY <1>6, <1>1, EqualIds
  <2>2. StatusOf(new, j) = new[N].status
    BY <2>1, <1>0, <1>2, <1>5, OnlyEntry
  <2> QED BY <2>2, <1>1
<1>7. ASSUME NEW j \in Ids, ~Equal(j, k) PROVE StatusOf(new, j) = StatusOf(list, j)
  <2>1. ~Equal(new[N].id, j)
    BY <1>7, <1>1, EqualIds
  <2>2. Matches(new, j) = Matches(list, j)
    BY <2>1, <1>1, <1>2 DEF Matches
  <2>3. Matches(list, j) = {} => StatusOf(new, j) = StatusOf(list, j)
    BY <2>2 DEF StatusOf
  <2>4. ASSUME NEW n \in Matches(list, j) PROVE StatusOf(new, j) = StatusOf(list, j)
    <3>1. n \in DOMAIN list /\ n \in DOMAIN new /\ new[n] = list[n]
           /\ Equal(list[n].id, j) /\ Equal(new[n].id, j)
      BY <1>1, <1>2 DEF Matches
    <3>2. StatusOf(list, j) = list[n].status
      BY <3>1, OnlyEntry
    <3>3. StatusOf(new, j) = new[n].status
      BY <3>1, <1>0, <1>5, OnlyEntry
    <3> QED BY <3>1, <3>2, <3>3
  <2> QED BY <2>3, <2>4
<1>8. Find(new, k) = N
  BY <1>0, <1>1, <1>2, <1>5, OnlyEntry, EqualIds
<1>9. \A n \in DOMAIN new : new[n].id = k \/ \E m \in DOMAIN list : list[m].id = new[n].id
  BY <1>1, <1>2
<1> QED BY <1>0, <1>1, <1>5, <1>6, <1>7, <1>8, <1>9, EqualIds DEF IsUpdated

\* One that is listed keeps its place and the bytes of its id.
LEMMA UpdatedChanges ==
  ASSUME NEW list \in Seq(Entries), Distinct(list), NEW k \in Ids, NEW s \in Status,
         NEW new, new = UpdateKeyStatus(list, k, s), NEW n \in Matches(list, k)
  PROVE  IsUpdated(list, new, k, s)
<1>1. n \in DOMAIN list /\ Equal(list[n].id, k) /\ list[n].id \in Ids
  BY EntryType DEF Matches
<1>2. Find(list, k) = n
  BY <1>1, OnlyEntry
<1> DEFINE x == [list[n] EXCEPT !.status = s]
<1>3. x \in Entries /\ x.id = list[n].id /\ x.status = s
  <2>1. list[n] \in Entries
    BY <1>1
  <2> QED BY <2>1 DEF Entries, Status
<1>4. new = [list EXCEPT ![n] = x]
  BY <1>1, <1>2 DEF UpdateKeyStatus
<1> HIDE DEF x
<1>5. /\ new \in Seq(Entries) /\ DOMAIN new = DOMAIN list
      /\ \A m \in DOMAIN list : new[m].id = list[m].id
      /\ \A m \in DOMAIN list \ {n} : new[m] = list[m]
      /\ new[n].status = s
  BY <1>1, <1>3, <1>4
<1>0. new \in Seq(Entries)
  BY <1>5
<1>6. Distinct(new)
  BY <1>5 DEF Distinct
<1>7. Find(new, k) = n
  BY <1>0, <1>1, <1>5, <1>6, OnlyEntry
<1>8. ASSUME NEW j \in Ids, Equal(j, k) PROVE StatusOf(new, j) = s
  <2>1. Equal(new[n].id, j)
    BY <1>1, <1>5, <1>8, EqualIds
  <2>2. StatusOf(new, j) = new[n].status
    BY <2>1, <1>0, <1>1, <1>5, <1>6, OnlyEntry
  <2> QED BY <2>2, <1>5
<1>9. ASSUME NEW j \in Ids, ~Equal(j, k) PROVE StatusOf(new, j) = StatusOf(list, j)
  <2>1. Matches(new, j) = Matches(list, j)
    BY <1>5 DEF Matches
  <2>2. Matches(list, j) = {} => StatusOf(new, j) = StatusOf(list, j)
    BY <2>1 DEF StatusOf
  <2>3. ASSUME NEW m \in Matches(list, j) PROVE StatusOf(new, j) = StatusOf(list, j)
    <3>1. m \in DOMAIN list /\ Equal(list[m].id, j) /\ m # n
      BY <1>1, <1>9, EqualIds DEF Matches
    <3>2. StatusOf(list, j) = list[m].status
      BY <3>1, OnlyEntry
    <3>3. new[m] = list[m] /\ m \in DOMAIN new /\ Equal(new[m].id, j)
      BY <3>1, <1>5
    <3>4. StatusOf(new, j) = new[m].status
      BY <3>3, <1>0, <1>6, OnlyEntry
    <3> QED BY <3>2, <3>3, <3>4
  <2> QED BY <2>2, <2>3
<1>10. \A m \in DOMAIN new : \E i \in DOMAIN list : list[i].id = new[m].id
  BY <1>5
<1> QED BY <1>0, <1>1, <1>5, <1>6, <1>7, <1>8, <1>9, <1>10 DEF IsUpdated

LEMMA Updated ==
  ASSUME NEW list \in Seq(Entries), Distinct(list), NEW k \in Ids, NEW s \in Status
  PROVE  IsUpdated(list, UpdateKeyStatus(list, k, s), k, s)
<1> DEFINE new == UpdateKeyStatus(list, k, s)
<1>1. CASE Matches(list, k) = {}
  BY <1>1, UpdatedAdds
<1>2. CASE Matches(list, k) # {}
  BY <1>2, UpdatedChanges
<1> QED BY <1>1, <1>2

---------------------------------------------------------------------------
(* Parsing *)

\* What a piece is made of has its ids and no others, if it is sound all of them.
IsParsed(piece, parts) ==
  /\ parts \in Seq(Pieces)
  /\ \A n \in DOMAIN parts : Mistakable(parts[n]) \subseteq Mistakable(piece)
  /\ Sound(piece) =>
       /\ \A n \in DOMAIN parts : Sound(parts[n])
       /\ \A id \in Mistakable(piece) : \E n \in DOMAIN parts : id \in Mistakable(parts[n])

\* Keys have themselves.
LEMMA KeysAreParsed ==
  ASSUME NEW ids \in Seq(Ids \cup {None})
  PROVE  /\ AsKeys(ids) \in Seq(Pieces) /\ DOMAIN AsKeys(ids) = DOMAIN ids
         /\ \A n \in DOMAIN ids : /\ AsKeys(ids)[n].is = "key"
                                /\ Mistakable(AsKeys(ids)[n]) = {ids[n]} \ {None}
                                /\ Sound(AsKeys(ids)[n])
<1>1. DOMAIN ids = 1..Len(ids) /\ Len(ids) \in Nat /\ \A n \in 1..Len(ids) : ids[n] \in Ids \cup {None}
  OBVIOUS
<1>2. \A n \in 1..Len(ids) : AsKeys(ids)[n] = [is |-> "key", id |-> ids[n]]
  BY <1>1 DEF AsKeys
<1>3. AsKeys(ids) \in Seq(Keys)
  BY <1>1 DEF AsKeys, Keys
<1>4. AsKeys(ids) \in Seq(Pieces)
  BY <1>3 DEF Pieces
<1>5. DOMAIN AsKeys(ids) = DOMAIN ids
  BY <1>1 DEF AsKeys
<1>6. ASSUME NEW n \in DOMAIN ids
      PROVE  /\ AsKeys(ids)[n].is = "key"
             /\ Mistakable(AsKeys(ids)[n]) = {ids[n]} \ {None}
             /\ Sound(AsKeys(ids)[n])
  <2>1. AsKeys(ids)[n] = [is |-> "key", id |-> ids[n]]
    BY <1>1, <1>2
  <2>2. AsKeys(ids)[n].is = "key" /\ AsKeys(ids)[n].id = ids[n]
    BY <2>1
  <2> QED BY <2>2 DEF Mistakable, IdsOf, Sound
<1> QED BY <1>4, <1>5, <1>6

LEMMA JsonIsParsed == ASSUME NEW p \in Jsons PROVE IsParsed(p, Parse(p))
<1>1. p.is = "json" /\ p.ids \in Seq(Ids) /\ p.ids \in Seq(Ids \cup {None})
  BY DEF Jsons
<1>2. Parse(p) = AsKeys(p.ids) /\ Mistakable(p) = {p.ids[n] : n \in DOMAIN p.ids}
  BY <1>1 DEF Parse, ParseJSONInitData, Mistakable, IdsOf
<1>3. \A n \in DOMAIN p.ids : p.ids[n] \in Ids
  BY <1>1
<1>4. /\ Parse(p) \in Seq(Pieces) /\ DOMAIN Parse(p) = DOMAIN p.ids
      /\ \A n \in DOMAIN p.ids : Mistakable(Parse(p)[n]) = {p.ids[n]} \ {None} /\ Sound(Parse(p)[n])
  BY <1>1, <1>2, KeysAreParsed
<1>5. \A n \in DOMAIN p.ids : Mistakable(Parse(p)[n]) = {p.ids[n]}
  BY <1>3, <1>4, IdAssumption
<1>6. \A id \in Mistakable(p) : \E n \in DOMAIN p.ids : id = p.ids[n]
  BY <1>2
<1>7. \A n \in DOMAIN p.ids : p.ids[n] \in Mistakable(p)
  BY <1>2
<1>8. ASSUME NEW n \in DOMAIN Parse(p)
      PROVE  Mistakable(Parse(p)[n]) \subseteq Mistakable(p) /\ Sound(Parse(p)[n])
  <2>1. n \in DOMAIN p.ids
    BY <1>4
  <2> QED BY <2>1, <1>4, <1>5, <1>7
<1>9. ASSUME NEW id \in Mistakable(p) PROVE \E n \in DOMAIN Parse(p) : id \in Mistakable(Parse(p)[n])
  <2>1. PICK n \in DOMAIN p.ids : id = p.ids[n]
    BY <1>6
  <2>2. n \in DOMAIN Parse(p) /\ id \in Mistakable(Parse(p)[n])
    BY <1>4, <1>5, <2>1
  <2> QED BY <2>2
<1> QED BY <1>4, <1>8, <1>9 DEF IsParsed

LEMMA RecordIsParsed == ASSUME NEW p \in Records PROVE IsParsed(p, Parse(p))
<1>1. p.is = "record" /\ p.xml \in Xmls /\ p.xml.is = "xml"
  BY DEF Records, Xmls
<1>2. Parse(p) = IF p.type = RightsManagement THEN <<p.xml>> ELSE <<>>
  BY <1>1 DEF Parse, ParseRecord
<1>3. /\ Mistakable(p) = IF p.type = RightsManagement THEN IdsOfXml(p.xml) ELSE {}
      /\ Mistakable(p.xml) = IdsOfXml(p.xml)
  BY <1>1 DEF Mistakable, IdsOf
<1>4. Sound(p) => Sound(p.xml)
  BY <1>1 DEF Sound
<1>5. p.xml \in Pieces
  BY <1>1 DEF Pieces
<1>6. CASE p.type = RightsManagement
  <2>1. Parse(p) = <<p.xml>> /\ Mistakable(p) = Mistakable(p.xml)
    BY <1>2, <1>3, <1>6
  <2> QED BY <2>1, <1>4, <1>5 DEF IsParsed
<1>7. CASE p.type # RightsManagement
  <2>1. Parse(p) = <<>> /\ Mistakable(p) = {}
    BY <1>2, <1>3, <1>7
  <2> QED BY <2>1 DEF IsParsed
<1> QED BY <1>6, <1>7

LEMMA ObjectIsParsed == ASSUME NEW p \in Objects PROVE IsParsed(p, Parse(p))
<1>1. p.is = "object" /\ p.records \in Seq(Records) /\ p.count \in Nat
  BY DEF Objects
<1>2. Parse(p) = ParsePlayReadyPSSHData(p) /\ Mistakable(p) = IdsOfObject(p)
      /\ (Sound(p) = SoundObject(p))
  BY <1>1 DEF Parse, Mistakable, IdsOf, Sound
<1>3. ASSUME NEW n \in DOMAIN p.records
      PROVE  /\ p.records[n] \in Records /\ p.records[n].is = "record"
             /\ Mistakable(p.records[n]) = (IF p.records[n].type = RightsManagement
                                          THEN IdsOfXml(p.records[n].xml) ELSE {})
             /\ Sound(p.records[n]) = SoundXml(p.records[n].xml)
  <2>1. p.records[n] \in Records
    BY <1>1
  <2>2. p.records[n].is = "record"
    BY <2>1 DEF Records
  <2> QED BY <2>1, <2>2 DEF Mistakable, IdsOf, Sound
<1>4. /\ Parse(p) \in Seq(Records)
      /\ \A n \in DOMAIN Parse(p) : n \in DOMAIN p.records /\ Parse(p)[n] = p.records[n]
      /\ SoundObject(p) => DOMAIN Parse(p) = DOMAIN p.records
  BY <1>1, <1>2 DEF ParsePlayReadyPSSHData, SoundObject
<1>5. Parse(p) \in Seq(Pieces)
  BY <1>4 DEF Pieces
<1>6. ASSUME NEW n \in DOMAIN p.records PROVE Mistakable(p.records[n]) \subseteq Mistakable(p)
  BY <1>2, <1>3 DEF IdsOfObject
<1>7. ASSUME NEW id \in Mistakable(p) PROVE \E n \in DOMAIN p.records : id \in Mistakable(p.records[n])
  BY <1>2, <1>3 DEF IdsOfObject
<1>8. Sound(p) => \A n \in DOMAIN p.records : Sound(p.records[n])
  BY <1>2, <1>3 DEF SoundObject
<1> QED BY <1>2, <1>4, <1>5, <1>6, <1>7, <1>8 DEF IsParsed

\* Two sequences of keys one after the other.
LEMMA JoinedKeys ==
  ASSUME NEW one \in Seq(Pieces), NEW two \in Seq(Pieces)
  PROVE  /\ one \o two \in Seq(Pieces)
         /\ \A n \in DOMAIN (one \o two) : \/ \E m \in DOMAIN one : (one \o two)[n] = one[m]
                                         \/ \E m \in DOMAIN two : (one \o two)[n] = two[m]
         /\ \A m \in DOMAIN one : \E n \in DOMAIN (one \o two) : (one \o two)[n] = one[m]
         /\ \A m \in DOMAIN two : \E n \in DOMAIN (one \o two) : (one \o two)[n] = two[m]
<1> DEFINE both == one \o two
<1>1. /\ both \in Seq(Pieces) /\ Len(both) = Len(one) + Len(two)
      /\ Len(one) \in Nat /\ Len(two) \in Nat
      /\ DOMAIN one = 1..Len(one) /\ DOMAIN two = 1..Len(two) /\ DOMAIN both = 1..Len(both)
      /\ \A n \in 1..Len(both) : both[n] = IF n <= Len(one) THEN one[n] ELSE two[n - Len(one)]
  OBVIOUS
<1> HIDE DEF both
<1>2. ASSUME NEW n \in DOMAIN both
      PROVE  (\E m \in DOMAIN one : both[n] = one[m]) \/ \E m \in DOMAIN two : both[n] = two[m]
  <2>1. CASE n <= Len(one)
    BY <1>1, <2>1
  <2>2. CASE ~(n <= Len(one))
    <3>1. n - Len(one) \in DOMAIN two /\ both[n] = two[n - Len(one)]
      BY <1>1, <2>2
    <3> QED BY <3>1
  <2> QED BY <2>1, <2>2
<1>3. ASSUME NEW m \in DOMAIN one PROVE \E n \in DOMAIN both : both[n] = one[m]
  BY <1>1
<1>4. ASSUME NEW m \in DOMAIN two PROVE \E n \in DOMAIN both : both[n] = two[m]
  <2>1. Len(one) + m \in DOMAIN both /\ both[Len(one) + m] = two[m]
    BY <1>1
  <2> QED BY <2>1
<1> QED BY <1>1, <1>2, <1>3, <1>4 DEF both

\* What is parsed one after the other.
LEMMA JoinedParts ==
  ASSUME NEW p, NEW one \in Seq(Pieces), NEW two \in Seq(Pieces),
         \A n \in DOMAIN one : Mistakable(one[n]) \subseteq Mistakable(p) /\ (Sound(p) => Sound(one[n])),
         \A n \in DOMAIN two : Mistakable(two[n]) \subseteq Mistakable(p) /\ (Sound(p) => Sound(two[n])),
         Sound(p) => \A id \in Mistakable(p) : \/ \E n \in DOMAIN one : id \in Mistakable(one[n])
                                           \/ \E n \in DOMAIN two : id \in Mistakable(two[n])
  PROVE  IsParsed(p, one \o two)
<1>1. \A n \in DOMAIN (one \o two) : /\ Mistakable((one \o two)[n]) \subseteq Mistakable(p)
                                   /\ Sound(p) => Sound((one \o two)[n])
  BY JoinedKeys
<1>2. ASSUME Sound(p), NEW id \in Mistakable(p)
      PROVE  \E n \in DOMAIN (one \o two) : id \in Mistakable((one \o two)[n])
  <2>1. CASE \E n \in DOMAIN one : id \in Mistakable(one[n])
    <3>1. PICK m \in DOMAIN one : id \in Mistakable(one[m])
      BY <2>1
    <3>2. PICK n \in DOMAIN (one \o two) : (one \o two)[n] = one[m]
      BY JoinedKeys
    <3> QED BY <3>1, <3>2
  <2>2. CASE \E n \in DOMAIN two : id \in Mistakable(two[n])
    <3>1. PICK m \in DOMAIN two : id \in Mistakable(two[m])
      BY <2>2
    <3>2. PICK n \in DOMAIN (one \o two) : (one \o two)[n] = two[m]
      BY JoinedKeys
    <3> QED BY <3>1, <3>2
  <2> QED BY <1>2, <2>1, <2>2
<1> QED BY <1>1, <1>2, JoinedKeys DEF IsParsed

LEMMA XmlIsParsed == ASSUME NEW p \in Xmls PROVE IsParsed(p, Parse(p))
<1> DEFINE N == Len(p.kids)
           text == [n \in 1..N |-> IF p.kids[n].form = "text" THEN p.kids[n].id ELSE None]
           attributes ==
             [n \in 1..N |->
               IF \A m \in n..N : p.kids[m].form = "attribute" THEN p.kids[n].id ELSE None]
           one == AsKeys(text)
           two == IF p.open THEN <<>> ELSE AsKeys(attributes)
<1>1. p.is = "xml" /\ p.kids \in Seq(Kids)
  BY DEF Xmls
<1>2. Parse(p) = one \o two
  BY <1>1 DEF Parse, ParseXMLBox
<1>3. Mistakable(p) = IdsOfXml(p) /\ Sound(p) = SoundXml(p)
  BY <1>1 DEF Mistakable, IdsOf, Sound
<1>4. /\ N \in Nat /\ DOMAIN p.kids = 1..N
      /\ \A n \in 1..N : p.kids[n].id \in Ids \cup {None} /\ p.kids[n].form \in {"text", "attribute"}
  <2>1. N \in Nat /\ DOMAIN p.kids = 1..N /\ \A n \in 1..N : p.kids[n] \in Kids
    BY <1>1
  <2> QED BY <2>1 DEF Kids
<1>5. text \in Seq(Ids \cup {None}) /\ attributes \in Seq(Ids \cup {None})
  BY <1>4
<1>6. DOMAIN text = 1..N /\ DOMAIN attributes = 1..N
  OBVIOUS
<1>7. \A n \in 1..N : /\ {text[n]} \ {None} \subseteq Mistakable(p)
                      /\ {attributes[n]} \ {None} \subseteq Mistakable(p)
  BY <1>3, <1>4 DEF IdsOfXml
<1>8. ASSUME SoundXml(p), NEW n \in 1..N
      PROVE  ~p.open /\ p.kids[n].id \in {text[n], attributes[n]}
  <2>1. ~p.open /\ \A m \in n..N : p.kids[m].form = p.kids[n].form
    BY <1>4, <1>8 DEF SoundXml
  <2> QED BY <1>4, <2>1
<1> HIDE DEF text, attributes
<1>9. /\ one \in Seq(Pieces) /\ DOMAIN one = 1..N
      /\ \A n \in 1..N : Mistakable(one[n]) = {text[n]} \ {None} /\ Sound(one[n])
  BY <1>5, <1>6, KeysAreParsed
<1>10. /\ AsKeys(attributes) \in Seq(Pieces) /\ DOMAIN AsKeys(attributes) = 1..N
       /\ \A n \in 1..N : /\ Mistakable(AsKeys(attributes)[n]) = {attributes[n]} \ {None}
                         /\ Sound(AsKeys(attributes)[n])
  BY <1>5, <1>6, KeysAreParsed
<1>11. /\ two \in Seq(Pieces) /\ DOMAIN two \subseteq 1..N
       /\ \A n \in DOMAIN two : Mistakable(two[n]) = {attributes[n]} \ {None} /\ Sound(two[n])
       /\ ~p.open => DOMAIN two = 1..N
  <2>1. CASE p.open
    <3>1. two = <<>>
      BY <2>1
    <3> QED BY <2>1, <3>1
  <2>2. CASE ~p.open
    <3>1. two = AsKeys(attributes)
      BY <2>2
    <3> QED BY <2>2, <3>1, <1>10
  <2> QED BY <2>1, <2>2
<1> HIDE DEF one, two
<1>12. ASSUME Sound(p), NEW id \in Mistakable(p)
       PROVE  \/ \E n \in DOMAIN one : id \in Mistakable(one[n])
              \/ \E n \in DOMAIN two : id \in Mistakable(two[n])
  <2>1. PICK n \in 1..N : id = p.kids[n].id /\ id # None
    BY <1>3, <1>4, <1>12 DEF IdsOfXml
  <2>2. ~p.open /\ (id = text[n] \/ id = attributes[n])
    BY <1>3, <1>8, <1>12, <2>1
  <2> QED BY <2>1, <2>2, <1>9, <1>11
<1>13. \A n \in DOMAIN one : Mistakable(one[n]) \subseteq Mistakable(p) /\ (Sound(p) => Sound(one[n]))
  BY <1>7, <1>9
<1>14. \A n \in DOMAIN two : Mistakable(two[n]) \subseteq Mistakable(p) /\ (Sound(p) => Sound(two[n]))
  BY <1>7, <1>11
<1>15. one \in Seq(Pieces) /\ two \in Seq(Pieces)
  BY <1>9, <1>11
<1>16. IsParsed(p, one \o two)
  BY <1>12, <1>13, <1>14, <1>15, JoinedParts
<1> QED BY <1>2, <1>16

\* A sound field is read, and taken for an id only if it is one.
LEMMA SoundFieldIsRead ==
  ASSUME NEW f \in Fields, SoundField(f)
  PROVE  ~FieldFails(f) /\ (f.number \in TakenForKeyIDs <=> f.number \in {KeyIDs})
<1>1. f.number \in 1..255 /\ f.number % 256 = f.number /\ f.whole
  BY DEF SoundField
<1>2. Index(f) = f.number
  BY <1>1 DEF Index
<1> QED BY <1>1, <1>2 DEF SoundField, FieldFails, Skips, TakenForKeyIDs

LEMMA MessageIsParsed == ASSUME NEW p \in Messages PROVE IsParsed(p, Parse(p))
<1> DEFINE N == Len(p.fields)
           ids == [n \in 1..N |-> IF Index(p.fields[n]) = KeyIDs THEN p.fields[n].id ELSE None]
<1>1. p.is = "message" /\ p.fields \in Seq(Fields)
  BY DEF Messages
<1>2. /\ N \in Nat /\ DOMAIN p.fields = 1..N
      /\ \A n \in 1..N : p.fields[n] \in Fields
  BY <1>1
<1>3. /\ Mistakable(p) = IdsOfMessage(p, TakenForKeyIDs) /\ Sound(p) = SoundMessage(p)
      /\ Parse(p) = ParseWidevinePSSHData(p)
  BY <1>1 DEF Mistakable, IdsOf, Sound, Parse
<1>4. \A n \in 1..N : p.fields[n].id \in Ids
  BY <1>2 DEF Fields
<1>5. ids \in Seq(Ids \cup {None}) /\ DOMAIN ids = 1..N
  BY <1>2, <1>4
<1>6. \A n \in 1..N : (Index(p.fields[n]) = KeyIDs) = (p.fields[n].number \in TakenForKeyIDs)
  BY <1>2 DEF Fields, Index, TakenForKeyIDs
<1>7. \A n \in 1..N : ids[n] = IF p.fields[n].number \in TakenForKeyIDs THEN p.fields[n].id ELSE None
  BY <1>6
<1>8. ParseWidevinePSSHData(p) =
        IF \E n \in 1..N : FieldFails(p.fields[n]) THEN <<>> ELSE AsKeys(ids)
  BY <1>2 DEF ParseWidevinePSSHData
<1>9. SoundMessage(p) => \A n \in 1..N : ~FieldFails(p.fields[n])
  BY <1>2, SoundFieldIsRead DEF SoundMessage
<1> HIDE DEF ids
<1>10. /\ Parse(p) = <<>> \/ Parse(p) = AsKeys(ids)
       /\ Sound(p) => Parse(p) = AsKeys(ids)
  BY <1>3, <1>8, <1>9
<1>11. \A n \in 1..N : {ids[n]} \ {None} \subseteq Mistakable(p)
  <2>1. \A n \in 1..N : p.fields[n].number \in TakenForKeyIDs => p.fields[n].id \in Mistakable(p)
    BY <1>2, <1>3 DEF IdsOfMessage
  <2> QED BY <1>7, <2>1
<1>12. \A id \in Mistakable(p) : id # None /\ \E n \in 1..N : id = ids[n]
  <2>1. ASSUME NEW id \in Mistakable(p)
        PROVE  \E n \in 1..N : p.fields[n].number \in TakenForKeyIDs /\ id = p.fields[n].id
    BY <1>2, <1>3 DEF IdsOfMessage
  <2>2. ASSUME NEW id \in Mistakable(p) PROVE id # None /\ \E n \in 1..N : id = ids[n]
    <3>1. PICK n \in 1..N : p.fields[n].number \in TakenForKeyIDs /\ id = p.fields[n].id
      BY <2>1
    <3>2. id = ids[n]
      BY <1>7, <3>1
    <3>3. id \in Ids
      BY <1>4, <3>1
    <3> QED BY <3>2, <3>3, IdAssumption
  <2> QED BY <2>2
<1>13. /\ AsKeys(ids) \in Seq(Pieces) /\ DOMAIN AsKeys(ids) = 1..N
       /\ \A n \in 1..N : Mistakable(AsKeys(ids)[n]) = {ids[n]} \ {None} /\ Sound(AsKeys(ids)[n])
  BY <1>5, KeysAreParsed
<1>14. IsParsed(p, AsKeys(ids))
  BY <1>11, <1>12, <1>13 DEF IsParsed
<1>15. ~Sound(p) => IsParsed(p, <<>>)
  BY DEF IsParsed
<1> QED BY <1>10, <1>14, <1>15

LEMMA BoxIsParsed == ASSUME NEW p \in Boxes PROVE IsParsed(p, Parse(p))
<1> DEFINE found == p.payload # None /\ (p.version = 0 \/ (p.version = 1 /\ p.kidsFit))
           listed == p.version = 1 /\ p.kidsFit
           one == IF found THEN <<p.payload>> ELSE <<>>
           two == IF listed THEN AsKeys(p.kids) ELSE <<>>
           kids == {p.kids[n] : n \in DOMAIN p.kids}
<1>1. /\ p.is = "box" /\ p.kids \in Seq(Ids) /\ p.kids \in Seq(Ids \cup {None})
      /\ p.payload \in Objects \cup Messages \cup {None}
  BY DEF Boxes
<1>2. Parse(p) = one \o two
  BY <1>1 DEF Parse, ParsePSSHBox
<1>3. ASSUME p.payload # None
      PROVE  /\ p.payload \in Pieces
             /\ Mistakable(p) = kids \cup Mistakable(p.payload)
             /\ Sound(p) => Sound(p.payload)
  <2>1. CASE p.payload \in Objects
    <3>1. p.payload.is = "object" /\ p.payload \in Pieces
      BY <2>1 DEF Objects, Pieces
    <3>2. Mistakable(p.payload) = IdsOfObject(p.payload) /\ Sound(p.payload) = SoundObject(p.payload)
      BY <3>1 DEF Mistakable, IdsOf, Sound
    <3>3. Mistakable(p) = kids \cup IdsOfObject(p.payload)
      BY <1>1, <1>3, <3>1 DEF Mistakable, IdsOf
    <3>4. Sound(p) => SoundObject(p.payload)
      BY <1>1, <1>3, <3>1 DEF Sound
    <3> QED BY <3>1, <3>2, <3>3, <3>4
  <2>2. CASE p.payload \in Messages
    <3>1. p.payload.is = "message" /\ p.payload \in Pieces
      BY <2>2 DEF Messages, Pieces
    <3>2. Mistakable(p.payload) = IdsOfMessage(p.payload, TakenForKeyIDs) /\ Sound(p.payload) = SoundMessage(p.payload)
      BY <3>1 DEF Mistakable, IdsOf, Sound
    <3>3. Mistakable(p) = kids \cup IdsOfMessage(p.payload, TakenForKeyIDs)
      BY <1>1, <1>3, <3>1 DEF Mistakable, IdsOf
    <3>4. Sound(p) => SoundMessage(p.payload)
      BY <1>1, <1>3, <3>1 DEF Sound
    <3> QED BY <3>1, <3>2, <3>3, <3>4
  <2> QED BY <1>1, <1>3, <2>1, <2>2
<1>4. p.payload = None => Mistakable(p) = kids
  BY <1>1 DEF Mistakable, IdsOf
<1>5. Sound(p) => IF p.version = 0 THEN p.kids = <<>> ELSE listed
  BY <1>1 DEF Sound
<1>6. kids \subseteq Mistakable(p) /\ \A n \in DOMAIN p.kids : p.kids[n] \in kids /\ p.kids[n] # None
  BY <1>1, <1>3, <1>4, IdAssumption
<1>7. /\ AsKeys(p.kids) \in Seq(Pieces) /\ DOMAIN AsKeys(p.kids) = DOMAIN p.kids
      /\ \A n \in DOMAIN p.kids : /\ Mistakable(AsKeys(p.kids)[n]) = {p.kids[n]} \ {None}
                                /\ Sound(AsKeys(p.kids)[n])
  BY <1>1, KeysAreParsed
<1>8. one \in Seq(Pieces) /\ two \in Seq(Pieces)
  BY <1>3, <1>7
<1>9. \A n \in DOMAIN one : Mistakable(one[n]) \subseteq Mistakable(p) /\ (Sound(p) => Sound(one[n]))
  <2>1. CASE found
    <3>1. one = <<p.payload>>
      BY <2>1
    <3> HIDE DEF one
    <3> QED BY <1>3, <2>1, <3>1
  <2>2. CASE ~found
    BY <2>2
  <2> QED BY <2>1, <2>2
<1>10. \A n \in DOMAIN two : Mistakable(two[n]) \subseteq Mistakable(p) /\ (Sound(p) => Sound(two[n]))
  <2>1. CASE listed
    <3>1. two = AsKeys(p.kids)
      BY <2>1
    <3> HIDE DEF two
    <3> QED BY <1>6, <1>7, <3>1
  <2>2. CASE ~listed
    BY <2>2
  <2> QED BY <2>1, <2>2
<1>11. ASSUME Sound(p), NEW id \in Mistakable(p)
       PROVE  \/ \E n \in DOMAIN one : id \in Mistakable(one[n])
              \/ \E n \in DOMAIN two : id \in Mistakable(two[n])
  <2>1. CASE id \in kids
    <3>1. PICK n \in DOMAIN p.kids : id = p.kids[n]
      BY <2>1
    <3>2. two = AsKeys(p.kids)
      BY <1>1, <1>5, <1>11, <3>1
    <3> HIDE DEF two
    <3>3. n \in DOMAIN two /\ id \in Mistakable(two[n])
      BY <1>6, <1>7, <3>1, <3>2
    <3> QED BY <3>3
  <2>2. CASE id \notin kids
    <3>1. p.payload # None /\ id \in Mistakable(p.payload)
      BY <1>3, <1>4, <1>11, <2>2
    <3>2. one = <<p.payload>>
      BY <1>5, <1>11, <3>1
    <3> HIDE DEF one
    <3>3. 1 \in DOMAIN one /\ id \in Mistakable(one[1])
      BY <3>1, <3>2
    <3> QED BY <3>3
  <2> QED BY <2>1, <2>2
<1> HIDE DEF one, two
<1> QED BY <1>2, <1>8, <1>9, <1>10, <1>11, JoinedParts

\* Every piece, but a key, is parsed.
LEMMA PieceIsParsed == ASSUME NEW p \in Pieces, p.is # "key" PROVE IsParsed(p, Parse(p))
<1>1. p \notin Keys
  BY DEF Keys
<1> QED BY <1>1, XmlIsParsed, RecordIsParsed, ObjectIsParsed, MessageIsParsed, BoxIsParsed, JsonIsParsed
        DEF Pieces

\* In a sound piece nothing can be mistaken for an id.
LEMMA SoundIsUnmistakable ==
  ASSUME NEW p \in Pieces, Sound(p)
  PROVE  Mistakable(p) = Mentioned(p)
<1>1. ASSUME NEW m \in Messages, SoundMessage(m)
      PROVE  IdsOfMessage(m, TakenForKeyIDs) = IdsOfMessage(m, {KeyIDs})
  <2>1. \A n \in DOMAIN m.fields : m.fields[n] \in Fields /\ SoundField(m.fields[n])
    BY <1>1 DEF Messages, SoundMessage
  <2>2. \A n \in DOMAIN m.fields :
          m.fields[n].number \in TakenForKeyIDs <=> m.fields[n].number \in {KeyIDs}
    BY <2>1, SoundFieldIsRead
  <2> QED BY <2>2 DEF IdsOfMessage
<1>2. CASE p \in Messages
  <2>1. p.is = "message" /\ SoundMessage(p)
    BY <1>2 DEF Messages, Sound
  <2> QED BY <1>1, <1>2, <2>1 DEF Mistakable, Mentioned, IdsOf
<1>3. CASE p \in Boxes
  <2>1. p.is = "box" /\ p.payload \in Objects \cup Messages \cup {None}
    BY <1>3 DEF Boxes
  <2>2. CASE p.payload = None
    BY <2>1, <2>2 DEF Mistakable, Mentioned, IdsOf
  <2>3. CASE p.payload # None /\ p.payload.is = "object"
    BY <2>1, <2>3 DEF Mistakable, Mentioned, IdsOf
  <2>4. CASE p.payload # None /\ p.payload.is # "object"
    <3>1. p.payload \in Messages
      BY <2>1, <2>4 DEF Objects
    <3>2. SoundMessage(p.payload)
      BY <2>1, <2>4 DEF Sound
    <3>3. IdsOfMessage(p.payload, TakenForKeyIDs) = IdsOfMessage(p.payload, {KeyIDs})
      BY <1>1, <3>1, <3>2
    <3> QED BY <2>1, <2>4, <3>3 DEF Mistakable, Mentioned, IdsOf
  <2> QED BY <2>2, <2>3, <2>4
<1>4. CASE p \notin Messages /\ p \notin Boxes
  <2>1. p.is \in {"key", "xml", "record", "object", "json"}
    BY <1>4 DEF Pieces, Keys, Xmls, Records, Objects, Jsons
  <2> QED BY <2>1 DEF Mistakable, Mentioned, IdsOf
<1> QED BY <1>2, <1>3, <1>4

---------------------------------------------------------------------------
(* The strengthening *)

\* Nothing else happens to a session before it is constructed, and nothing is left of
\* its init data after.
BeforeConstruction ==
  /\ phase = "parsing" =>
       server = <<>> /\ client = <<>> /\ announced = 0 /\ report = None /\ told = [k \in Ids |-> None]
  /\ phase # "parsing" => todo = <<>>

\* All lists are without doubles, and the keys of the init data as they were found.
Lists ==
  /\ Distinct(keyIds) /\ Distinct(server) /\ Distinct(client)
  /\ \A n \in DOMAIN keyIds : keyIds[n].status = Pending

\* What parsing has found and has still to look at is what the init data has.
Finding ==
  /\ \A n \in DOMAIN keyIds : keyIds[n].id \in MistakableIn(initData)
  /\ \A n \in DOMAIN todo : Mistakable(todo[n]) \subseteq MistakableIn(initData)
  /\ (\A n \in DOMAIN initData : Sound(initData[n])) =>
       /\ \A n \in DOMAIN todo : Sound(todo[n])
       /\ \A id \in MistakableIn(initData) :
            Matches(keyIds, id) # {} \/ \E n \in DOMAIN todo : id \in Mistakable(todo[n])

\* Nobody changes the server's status of a key behind its report.
ReportIsFresh == report # None => StatusOf(server, report.key) = report.status

IInv == TypeOK /\ BeforeConstruction /\ Lists /\ Finding /\ ReportIsFresh /\ ClientKeepsUp /\ ToldTheLatest

\* Who is listed has a status.
LEMMA ListedStatus ==
  ASSUME NEW list \in Seq(Entries), Distinct(list), NEW k \in Ids
  PROVE  /\ StatusOf(list, k) \in Status \cup {None}
         /\ Matches(list, k) = {} <=> StatusOf(list, k) = None
<1>1. CASE Matches(list, k) = {}
  BY <1>1 DEF StatusOf
<1>2. ASSUME NEW n \in Matches(list, k) PROVE StatusOf(list, k) \in Status /\ StatusOf(list, k) # None
  <2>1. n \in DOMAIN list /\ Equal(list[n].id, k) /\ list[n].status \in Status
    BY EntryType DEF Matches
  <2>2. StatusOf(list, k) = list[n].status
    BY <2>1, OnlyEntry
  <2> QED BY <2>1, <2>2, StatusAssumption DEF Status
<1> QED BY <1>1, <1>2

\* The first of what is to be parsed, and the rest.
LEMMA HeadAndTail ==
  ASSUME NEW list \in Seq(Pieces), list # <<>>
  PROVE  /\ Head(list) = list[1] /\ 1 \in DOMAIN list /\ Head(list) \in Pieces
         /\ Tail(list) \in Seq(Pieces)
         /\ \A m \in DOMAIN Tail(list) : m + 1 \in DOMAIN list /\ Tail(list)[m] = list[m + 1]
         /\ \A n \in DOMAIN list : n = 1 \/ (n - 1 \in DOMAIN Tail(list) /\ Tail(list)[n - 1] = list[n])
OBVIOUS

\* A key that is found is listed, and no other is forgotten.
LEMMA AddedKey ==
  ASSUME NEW list \in Seq(Entries), Distinct(list), NEW k \in Ids,
         \A n \in DOMAIN list : list[n].status = Pending,
         NEW new, new = AddKeyId(list, k)
  PROVE  /\ new \in Seq(Entries) /\ Distinct(new)
         /\ \A n \in DOMAIN new : new[n].status = Pending
         /\ \A n \in DOMAIN new : new[n].id = k \/ \E m \in DOMAIN list : list[m].id = new[n].id
         /\ Matches(new, k) # {}
         /\ \A n \in DOMAIN list : n \in DOMAIN new /\ new[n] = list[n]
<1>1. CASE Matches(list, k) = {}
  <2> DEFINE e == [id |-> k, status |-> Pending]
  <2>1. new = UpdateKeyStatus(list, k, Pending) /\ new = Append(list, e) /\ e.status = Pending
    BY <1>1 DEF AddKeyId, UpdateKeyStatus
  <2>2. IsUpdated(list, new, k, Pending)
    BY <2>1, Updated DEF Status
  <2>3. \A n \in DOMAIN new : new[n].status = Pending
    <3> HIDE DEF e
    <3>1. \A n \in DOMAIN new : (n \in DOMAIN list /\ new[n] = list[n]) \/ new[n] = e
      BY <2>1
    <3> QED BY <2>1, <3>1
  <2>4. new \in Seq(Entries) /\ Distinct(new)
    BY <2>2 DEF IsUpdated
  <2>5. StatusOf(new, k) = Pending
    BY <2>2, EqualIds DEF IsUpdated
  <2>6. Matches(new, k) # {}
    BY <2>4, <2>5, ListedStatus, StatusAssumption
  <2>7. \A n \in DOMAIN list : n \in DOMAIN new /\ new[n] = list[n]
    <3> HIDE DEF e
    <3> QED BY <2>1
  <2>8. \A n \in DOMAIN new : new[n].id = k \/ \E m \in DOMAIN list : list[m].id = new[n].id
    BY <2>2 DEF IsUpdated
  <2> QED BY <2>3, <2>4, <2>6, <2>7, <2>8
<1>2. CASE Matches(list, k) # {}
  <2>1. new = list
    BY <1>2 DEF AddKeyId
  <2> QED BY <1>2, <2>1
<1> QED BY <1>1, <1>2

\* While a piece is taken apart nothing is lost.
LEMMA ParsePieceStep == IInv /\ ParsePiece => IInv'
<1> SUFFICES ASSUME IInv, ParsePiece PROVE IInv'
  OBVIOUS
<1> DEFINE parts == Parse(Head(todo))
           rest == Tail(todo)
<1>1. /\ todo \in Seq(Pieces) /\ todo # <<>> /\ Head(todo).is # "key" /\ phase = "parsing"
      /\ todo' = parts \o rest
      /\ UNCHANGED <<phase, initData, keyIds, server, announced, callback, report, client, told>>
  BY DEF ParsePiece, SessionKeeps, IInv, TypeOK
<1>2. IsParsed(Head(todo), parts)
  BY <1>1, HeadAndTail, PieceIsParsed
<1>3. /\ Head(todo) = todo[1] /\ 1 \in DOMAIN todo /\ rest \in Seq(Pieces)
      /\ \A m \in DOMAIN rest : \E n \in DOMAIN todo : rest[m] = todo[n]
      /\ \A n \in DOMAIN todo : n = 1 \/ \E m \in DOMAIN rest : rest[m] = todo[n]
  BY <1>1, HeadAndTail
<1> HIDE DEF rest, parts
<1>4. /\ parts \in Seq(Pieces) /\ todo' \in Seq(Pieces)
      /\ \A n \in DOMAIN todo' : \/ \E m \in DOMAIN parts : todo'[n] = parts[m]
                               \/ \E m \in DOMAIN rest : todo'[n] = rest[m]
      /\ \A m \in DOMAIN parts : \E n \in DOMAIN todo' : todo'[n] = parts[m]
      /\ \A m \in DOMAIN rest : \E n \in DOMAIN todo' : todo'[n] = rest[m]
  <2>1. parts \in Seq(Pieces)
    BY <1>2 DEF IsParsed
  <2>2. /\ (parts \o rest) \in Seq(Pieces)
        /\ \A n \in DOMAIN (parts \o rest) :
             \/ \E m \in DOMAIN parts : (parts \o rest)[n] = parts[m]
             \/ \E m \in DOMAIN rest : (parts \o rest)[n] = rest[m]
        /\ \A m \in DOMAIN parts : \E n \in DOMAIN (parts \o rest) : (parts \o rest)[n] = parts[m]
        /\ \A m \in DOMAIN rest : \E n \in DOMAIN (parts \o rest) : (parts \o rest)[n] = rest[m]
    <3>1. rest \in Seq(Pieces)
      BY <1>3
    <3> QED BY <2>1, <3>1, JoinedKeys
  <2>3. todo' = parts \o rest
    BY <1>1
  <2> QED BY <2>1, <2>2, <2>3
<1>5. TypeOK'
  BY <1>1, <1>4 DEF IInv, TypeOK
<1>6. Finding'
  <2>1. \A n \in DOMAIN todo : Mistakable(todo[n]) \subseteq MistakableIn(initData)
    BY DEF IInv, Finding
  <2>2. \A m \in DOMAIN parts : Mistakable(parts[m]) \subseteq MistakableIn(initData)
    BY <1>2, <1>3, <2>1 DEF IsParsed
  <2>3. ASSUME NEW n \in DOMAIN todo' PROVE Mistakable(todo'[n]) \subseteq MistakableIn(initData)
    <3>1. CASE \E m \in DOMAIN parts : todo'[n] = parts[m]
      <4>1. PICK m \in DOMAIN parts : todo'[n] = parts[m]
        BY <3>1
      <4> QED BY <2>2, <4>1
    <3>2. CASE \E m \in DOMAIN rest : todo'[n] = rest[m]
      <4>1. PICK m \in DOMAIN rest : todo'[n] = rest[m]
        BY <3>2
      <4>2. PICK i \in DOMAIN todo : rest[m] = todo[i]
        BY <1>3
      <4> QED BY <2>1, <4>1, <4>2
    <3> QED BY <1>4, <3>1, <3>2
  <2>4. ASSUME \A n \in DOMAIN initData : Sound(initData[n])
        PROVE  \A n \in DOMAIN todo' : Sound(todo'[n])
    <3>1. \A n \in DOMAIN todo : Sound(todo[n])
      BY <2>4 DEF IInv, Finding
    <3>2. \A m \in DOMAIN parts : Sound(parts[m])
      BY <1>2, <1>3, <3>1 DEF IsParsed
    <3> QED BY <1>3, <1>4, <3>1, <3>2
  <2>5. ASSUME \A n \in DOMAIN initData : Sound(initData[n]), NEW id \in MistakableIn(initData),
               Matches(keyIds, id) = {}
        PROVE  \E n \in DOMAIN todo' : id \in Mistakable(todo'[n])
    <3>1. PICK n \in DOMAIN todo : id \in Mistakable(todo[n])
      BY <2>5 DEF IInv, Finding
    <3>2. CASE n = 1
      <4>1. Sound(Head(todo)) /\ id \in Mistakable(Head(todo))
        BY <1>3, <2>5, <3>1, <3>2 DEF IInv, Finding
      <4>2. PICK m \in DOMAIN parts : id \in Mistakable(parts[m])
        BY <1>2, <4>1 DEF IsParsed
      <4> QED BY <1>4, <4>2
    <3>3. CASE n # 1
      <4>1. PICK m \in DOMAIN rest : rest[m] = todo[n]
        BY <1>3, <3>3
      <4> QED BY <1>4, <3>1, <4>1
    <3> QED BY <3>2, <3>3
  <2> QED BY <1>1, <2>3, <2>4, <2>5 DEF IInv, Finding
<1>7. BeforeConstruction' /\ Lists'
  BY <1>1 DEF IInv, BeforeConstruction, Lists
<1>8. ReportIsFresh' /\ ClientKeepsUp' /\ ToldTheLatest'
  BY <1>1 DEF IInv, ReportIsFresh, ClientKeepsUp, ToldTheLatest, OnItsWay, Agree, Announced, ToBeAnnounced
<1> QED BY <1>5, <1>6, <1>7, <1>8 DEF IInv

\* A key that is parsed moves from what is left to what is found.
LEMMA ParseKeyStep == IInv /\ ParseKey => IInv'
<1> SUFFICES ASSUME IInv, ParseKey PROVE IInv'
  OBVIOUS
<1> DEFINE id == Head(todo).id
<1>1. /\ todo \in Seq(Pieces) /\ todo # <<>> /\ Head(todo).is = "key" /\ phase = "parsing"
      /\ keyIds' = IF id = None THEN keyIds ELSE AddKeyId(keyIds, id)
      /\ todo' = Tail(todo)
      /\ UNCHANGED <<phase, initData, server, announced, callback, report, client, told>>
  BY DEF ParseKey, SessionKeeps, IInv, TypeOK
<1>2. /\ Head(todo) = todo[1] /\ 1 \in DOMAIN todo /\ Head(todo) \in Pieces
      /\ todo' \in Seq(Pieces)
      /\ \A m \in DOMAIN todo' : \E n \in DOMAIN todo : todo'[m] = todo[n]
      /\ \A n \in DOMAIN todo : n = 1 \/ \E m \in DOMAIN todo' : todo'[m] = todo[n]
  BY <1>1, HeadAndTail
<1>3. /\ id \in Ids \cup {None} /\ Mistakable(Head(todo)) = {id} \ {None}
  <2>1. Head(todo) \in Keys
    BY <1>1, <1>2 DEF Pieces, Xmls, Records, Objects, Messages, Boxes, Jsons
  <2> QED BY <1>1, <2>1 DEF Keys, Mistakable, IdsOf
<1>4. /\ keyIds \in Seq(Entries) /\ Distinct(keyIds) /\ \A n \in DOMAIN keyIds : keyIds[n].status = Pending
      /\ announced = 0 /\ server = <<>> /\ client = <<>> /\ report = None
  BY <1>1 DEF IInv, TypeOK, Lists, BeforeConstruction
<1> HIDE DEF id
<1>5. /\ keyIds' \in Seq(Entries) /\ Distinct(keyIds') /\ \A n \in DOMAIN keyIds' : keyIds'[n].status = Pending
      /\ \A n \in DOMAIN keyIds' :
           (id # None /\ keyIds'[n].id = id) \/ \E m \in DOMAIN keyIds : keyIds[m].id = keyIds'[n].id
      /\ id # None => Matches(keyIds', id) # {}
      /\ \A n \in DOMAIN keyIds : n \in DOMAIN keyIds' /\ keyIds'[n] = keyIds[n]
  <2>1. CASE id = None
    <3>1. keyIds' = keyIds
      BY <1>1, <2>1
    <3> QED BY <1>4, <2>1, <3>1
  <2>2. CASE id # None
    <3>1. keyIds' = AddKeyId(keyIds, id) /\ id \in Ids
      BY <1>1, <1>3, <2>2
    <3> QED BY <1>4, <2>2, <3>1, AddedKey
  <2> QED BY <2>1, <2>2
<1>6. \A n \in DOMAIN todo : Mistakable(todo[n]) \subseteq MistakableIn(initData)
  BY DEF IInv, Finding
<1>7. id # None => id \in MistakableIn(initData)
  BY <1>2, <1>3, <1>6
<1>8. MistakableIn(initData)' = MistakableIn(initData)
  BY <1>1 DEF MistakableIn
<1>9. \A n \in DOMAIN keyIds' : keyIds'[n].id \in MistakableIn(initData)
  BY <1>5, <1>7 DEF IInv, Finding
<1>10. \A n \in DOMAIN todo' : Mistakable(todo'[n]) \subseteq MistakableIn(initData)
  BY <1>2, <1>6
<1>11. ASSUME \A n \in DOMAIN initData : Sound(initData[n])
       PROVE  \A n \in DOMAIN todo' : Sound(todo'[n])
  BY <1>2, <1>11 DEF IInv, Finding
<1>12. ASSUME \A n \in DOMAIN initData : Sound(initData[n]), NEW j \in MistakableIn(initData)
       PROVE  Matches(keyIds', j) # {} \/ \E n \in DOMAIN todo' : j \in Mistakable(todo'[n])
  <2>1. CASE Matches(keyIds, j) # {}
    <3>1. PICK n \in DOMAIN keyIds : Equal(keyIds[n].id, j)
      BY <2>1 DEF Matches
    <3>2. n \in DOMAIN keyIds' /\ Equal(keyIds'[n].id, j)
      BY <1>5, <3>1
    <3> QED BY <3>2 DEF Matches
  <2>2. CASE Matches(keyIds, j) = {}
    <3>1. PICK n \in DOMAIN todo : j \in Mistakable(todo[n])
      BY <1>12, <2>2 DEF IInv, Finding
    <3>2. CASE n = 1
      <4>1. j = id /\ id # None
        BY <1>2, <1>3, <3>1, <3>2
      <4> QED BY <1>5, <4>1
    <3>3. CASE n # 1
      <4>1. PICK m \in DOMAIN todo' : todo'[m] = todo[n]
        BY <1>2, <3>3
      <4> QED BY <3>1, <4>1
    <3> QED BY <3>2, <3>3
  <2> QED BY <2>1, <2>2
<1>13. Finding'
  BY <1>1, <1>8, <1>9, <1>10, <1>11, <1>12 DEF Finding
<1>14. TypeOK'
  <2>1. announced' = 0 /\ Len(keyIds') \in Nat
    BY <1>1, <1>4, <1>5
  <2> QED BY <1>1, <1>2, <1>5, <2>1 DEF IInv, TypeOK
<1>15. BeforeConstruction' /\ Lists'
  BY <1>1, <1>5 DEF IInv, BeforeConstruction, Lists
<1>16. ReportIsFresh'
  BY <1>1, <1>4 DEF ReportIsFresh
<1>17. ClientKeepsUp' /\ ToldTheLatest'
  <2>1. server' = <<>> /\ client' = <<>> /\ told' = [k \in Ids |-> None]
    BY <1>1 DEF IInv, BeforeConstruction
  <2>2. \A k \in Ids : StatusOf(server', k) = None /\ StatusOf(client', k) = None
    BY <2>1 DEF StatusOf, Matches
  <2> QED BY <2>1, <2>2 DEF ClientKeepsUp, ToldTheLatest, Agree
<1> QED BY <1>13, <1>14, <1>15, <1>16, <1>17 DEF IInv

\* The server begins with the keys that were found, all pending, the client with none.
LEMMA ConstructStep == IInv /\ Construct => IInv'
<1> SUFFICES ASSUME IInv, Construct PROVE IInv'
  OBVIOUS
<1>1. /\ phase = "parsing" /\ phase' = "running" /\ todo = <<>> /\ server' = keyIds
      /\ UNCHANGED <<initData, todo, keyIds, announced, callback, report, client, told>>
  BY DEF Construct, creation, SessionKeeps
<1>2. /\ keyIds \in Seq(Entries) /\ Distinct(keyIds) /\ \A n \in DOMAIN keyIds : keyIds[n].status = Pending
      /\ announced = 0 /\ client = <<>> /\ report = None /\ told = [k \in Ids |-> None]
  BY <1>1 DEF IInv, TypeOK, Lists, BeforeConstruction
<1>3. TypeOK' /\ BeforeConstruction'
  BY <1>1 DEF IInv, TypeOK, BeforeConstruction, Phases
<1>4. Lists' /\ Finding'
  BY <1>1 DEF IInv, Lists, Finding, MistakableIn
<1>5. ReportIsFresh'
  BY <1>1, <1>2 DEF ReportIsFresh
<1>6. ASSUME NEW k \in Ids
      PROVE  \/ StatusOf(keyIds, k) = None
             \/ StatusOf(keyIds, k) = Pending /\ \E n \in 1..Len(keyIds) : Equal(keyIds[n].id, k)
  <2>1. CASE Matches(keyIds, k) = {}
    BY <2>1 DEF StatusOf
  <2>2. ASSUME NEW n \in Matches(keyIds, k)
        PROVE  StatusOf(keyIds, k) = Pending /\ \E m \in 1..Len(keyIds) : Equal(keyIds[m].id, k)
    <3>1. n \in DOMAIN keyIds /\ Equal(keyIds[n].id, k) /\ DOMAIN keyIds = 1..Len(keyIds)
      BY <1>2 DEF Matches
    <3>2. StatusOf(keyIds, k) = keyIds[n].status
      BY <1>2, <3>1, OnlyEntry
    <3> QED BY <1>2, <3>1, <3>2
  <2> QED BY <2>1, <2>2
<1>7. \A k \in Ids : StatusOf(client', k) = None /\ told'[k] = None
  BY <1>1, <1>2 DEF StatusOf, Matches
<1>8. ClientKeepsUp'
  BY <1>1, <1>2, <1>6, <1>7 DEF ClientKeepsUp, Agree, ToBeAnnounced
<1>9. ToldTheLatest'
  BY <1>1, <1>6, <1>7 DEF ToldTheLatest
<1> QED BY <1>3, <1>4, <1>5, <1>8, <1>9 DEF IInv

\* A report changes the server's list and is on its way from then on.
LEMMA ReportStep ==
  ASSUME NEW k \in Ids, NEW s \in Reported
  PROVE  IInv /\ Report(k, s) => IInv'
<1> SUFFICES ASSUME IInv, Report(k, s) PROVE IInv'
  OBVIOUS
<1> DEFINE id == server'[Find(server', k)].id
<1>1. /\ phase \notin {"parsing", "crashed"} /\ report = None
      /\ server' = UpdateKeyStatus(server, k, s)
      /\ report' = [key |-> id, status |-> s, at |-> "updated"]
      /\ UNCHANGED <<phase, initData, todo, keyIds, announced, callback, client, told>>
  BY DEF Report, Up, creation
<1>2. server \in Seq(Entries) /\ Distinct(server) /\ s \in Status
  BY DEF IInv, TypeOK, Lists, Status
<1>3. IsUpdated(server, server', k, s)
  BY <1>1, <1>2, Updated
<1>4. /\ server' \in Seq(Entries) /\ Distinct(server') /\ id \in Ids /\ Equal(id, k)
      /\ \A j \in Ids : Equal(j, k) => StatusOf(server', j) = s
      /\ \A j \in Ids : ~Equal(j, k) => StatusOf(server', j) = StatusOf(server, j)
  BY <1>3 DEF IsUpdated
<1> HIDE DEF id
<1>5. report'.key = id /\ report'.status = s /\ report' \in Reports /\ report' # None
  BY <1>1, <1>4, StatusAssumption DEF Reports
<1>6. TypeOK'
  BY <1>1, <1>4, <1>5 DEF IInv, TypeOK
<1>7. BeforeConstruction' /\ Lists' /\ Finding'
  BY <1>1, <1>4 DEF IInv, BeforeConstruction, Lists, Finding, MistakableIn
<1>8. ReportIsFresh'
  BY <1>4, <1>5 DEF ReportIsFresh
<1>9. ASSUME NEW j \in Ids PROVE OnItsWay(j)' \/ StatusOf(server', j) = StatusOf(server, j)
  <2>1. CASE Equal(j, k)
    <3>1. Equal(id, j)
      BY <1>4, <2>1, EqualIds
    <3> QED BY <1>5, <3>1 DEF OnItsWay
  <2>2. CASE ~Equal(j, k)
    BY <1>4, <2>2
  <2> QED BY <2>1, <2>2
<1>10. ASSUME NEW j \in Ids PROVE ~OnItsWay(j)
  BY <1>1 DEF OnItsWay
<1>11. ClientKeepsUp'
  BY <1>1, <1>9, <1>10 DEF IInv, ClientKeepsUp, Agree, Announced, ToBeAnnounced
<1>12. ToldTheLatest'
  BY <1>1, <1>9, <1>10 DEF IInv, ToldTheLatest
<1> QED BY <1>6, <1>7, <1>8, <1>11, <1>12 DEF IInv

LEMMA CheckCallbackStep == IInv /\ CheckCallback => IInv'
<1> SUFFICES ASSUME IInv, CheckCallback PROVE IInv'
  OBVIOUS
<1>1. /\ report # None /\ report \in Reports
      /\ report' = IF callback THEN [report EXCEPT !.at = "calling"] ELSE None
      /\ UNCHANGED <<phase, initData, todo, keyIds, announced, server, callback, client, told>>
  BY DEF CheckCallback, creation, IInv, TypeOK
<1>2. CASE callback
  <2>1. report' = [report EXCEPT !.at = "calling"]
    BY <1>1, <1>2
  <2>2. report' \in Reports /\ report'.key = report.key /\ report'.status = report.status /\ report' # None
    BY <1>1, <2>1, StatusAssumption DEF Reports
  <2>3. TypeOK' /\ BeforeConstruction' /\ Lists' /\ Finding'
    BY <1>1, <2>2 DEF IInv, TypeOK, BeforeConstruction, Lists, Finding, MistakableIn
  <2>4. ReportIsFresh' /\ \A j \in Ids : OnItsWay(j)' = OnItsWay(j)
    BY <1>1, <2>2 DEF IInv, ReportIsFresh, OnItsWay
  <2>5. ClientKeepsUp' /\ ToldTheLatest'
    BY <1>1, <2>4 DEF IInv, ClientKeepsUp, ToldTheLatest, Agree, Announced, ToBeAnnounced
  <2> QED BY <2>3, <2>4, <2>5 DEF IInv
<1>3. CASE ~callback
  <2>1. report' = None /\ ~callback'
    BY <1>1, <1>3
  <2> QED BY <1>1, <2>1 DEF IInv, TypeOK, BeforeConstruction, Lists, Finding, MistakableIn,
             ReportIsFresh, ClientKeepsUp, ToldTheLatest
<1> QED BY <1>2, <1>3

\* The client has what was reported, and the application is told of that.
LEMMA DeliverStep == IInv /\ Deliver => IInv'
<1> SUFFICES ASSUME IInv, Deliver PROVE IInv'
  OBVIOUS
<1> DEFINE k == report.key
           s == report.status
<1>1. /\ phase \notin {"parsing", "crashed"} /\ report # None /\ report' = None /\ callback
      /\ client' = UpdateKeyStatus(client, k, s)
      /\ Tell(k, s)
      /\ UNCHANGED <<phase, initData, todo, keyIds, announced, server, callback>>
  BY DEF Deliver, Up, OnKeyStatusUpdate, creation
<1>2. report \in Reports /\ k \in Ids /\ s \in Reported /\ s \in Status /\ s # Pending
  BY <1>1, StatusAssumption DEF IInv, TypeOK, Reports, Status
<1>3. client \in Seq(Entries) /\ Distinct(client) /\ told \in [Ids -> Reported \cup {None}]
  BY DEF IInv, TypeOK, Lists
<1>4. IsUpdated(client, client', k, s)
  BY <1>1, <1>2, <1>3, Updated
<1>5. /\ client' \in Seq(Entries) /\ Distinct(client')
      /\ \A j \in Ids : Equal(j, k) => StatusOf(client', j) = s
      /\ \A j \in Ids : ~Equal(j, k) => StatusOf(client', j) = StatusOf(client, j)
  BY <1>4 DEF IsUpdated
<1>6. StatusOf(client', k) = s
  BY <1>2, <1>5, EqualIds
<1>7. told' = [j \in Ids |-> IF Equal(j, k) THEN s ELSE told[j]]
  BY <1>1, <1>2, <1>6 DEF Tell
<1>8. StatusOf(server, k) = s /\ server \in Seq(Entries) /\ Distinct(server)
  BY <1>1 DEF IInv, ReportIsFresh, TypeOK, Lists
<1>9. ASSUME NEW j \in Ids, Equal(j, k) PROVE StatusOf(server, j) = s
  <2>1. Matches(server, k) # {}
    BY <1>2, <1>8, ListedStatus, StatusAssumption
  <2>2. PICK n \in DOMAIN server : Equal(server[n].id, k)
    BY <2>1 DEF Matches
  <2>3. Equal(server[n].id, j)
    BY <1>2, <1>8, <1>9, <2>2, EntryType, EqualIds
  <2> QED BY <1>2, <1>8, <2>2, <2>3, OnlyEntry
<1>10. \A j \in Ids : OnItsWay(j) => Equal(j, k)
  BY <1>2, EqualIds DEF OnItsWay
<1> HIDE DEF k, s
<1>11. TypeOK'
  <2>1. told' \in [Ids -> Reported \cup {None}]
    BY <1>2, <1>3, <1>7
  <2> QED BY <1>1, <1>5, <2>1 DEF IInv, TypeOK
<1>12. BeforeConstruction' /\ Lists' /\ Finding' /\ ReportIsFresh'
  BY <1>1, <1>5 DEF IInv, BeforeConstruction, Lists, Finding, MistakableIn, ReportIsFresh
<1>13. ClientKeepsUp'
  <2>1. ASSUME NEW j \in Ids, Equal(j, k) PROVE Agree(j)'
    BY <1>1, <1>5, <1>9, <2>1 DEF Agree
  <2>2. ASSUME NEW j \in Ids, ~Equal(j, k)
        PROVE  \/ Agree(j)'
               \/ ToBeAnnounced(j)' /\ StatusOf(client', j) = None /\ StatusOf(server', j) = Pending
               \/ Announced(j)' /\ StatusOf(client', j) = Pending
    <3>1. ~OnItsWay(j) /\ StatusOf(client', j) = StatusOf(client, j)
      BY <1>5, <1>10, <2>2
    <3> QED BY <1>1, <3>1 DEF IInv, ClientKeepsUp, Agree, Announced, ToBeAnnounced
  <2> QED BY <2>1, <2>2 DEF ClientKeepsUp
<1>14. ToldTheLatest'
  <2>1. ASSUME NEW j \in Ids, Equal(j, k) PROVE told'[j] = StatusOf(server', j)
    BY <1>1, <1>7, <1>9, <2>1
  <2>2. ASSUME NEW j \in Ids, ~Equal(j, k)
        PROVE  told'[j] = StatusOf(server', j) \/ (told'[j] = None /\ StatusOf(server', j) = Pending)
    <3>1. ~OnItsWay(j) /\ told'[j] = told[j]
      BY <1>7, <1>10, <2>2
    <3>2. told[j] = StatusOf(server, j) \/ (told[j] = None /\ StatusOf(server, j) = Pending)
      BY <1>1, <3>1 DEF IInv, ToldTheLatest
    <3>3. server' = server
      BY <1>1
    <3> QED BY <3>1, <3>2, <3>3
  <2> QED BY <2>1, <2>2 DEF ToldTheLatest
<1> QED BY <1>11, <1>12, <1>13, <1>14 DEF IInv

\* Only the client's list changes, to pending.
LEMMA AnnounceStep == IInv /\ Announce => IInv'
<1> SUFFICES ASSUME IInv, Announce PROVE IInv'
  OBVIOUS
<1> DEFINE k == keyIds[announced + 1].id
<1>1. /\ phase = "announcing" /\ announced < Len(keyIds) /\ announced' = announced + 1
      /\ client' = UpdateKeyStatus(client, k, Pending) /\ told' = told
      /\ UNCHANGED <<phase, initData, todo, keyIds, server, callback, report>>
  BY DEF Announce, OnKeyStatusUpdate, Tell, creation
<1>2. /\ keyIds \in Seq(Entries) /\ announced \in Nat /\ Len(keyIds) \in Nat
      /\ announced + 1 \in DOMAIN keyIds /\ announced + 1 \in 0..Len(keyIds)
      /\ DOMAIN keyIds = 1..Len(keyIds)
  BY <1>1 DEF IInv, TypeOK
<1>3. k \in Ids /\ Pending \in Status /\ client \in Seq(Entries) /\ Distinct(client)
  <2>1. k \in Ids
    BY <1>2, EntryType
  <2> QED BY <2>1 DEF IInv, TypeOK, Lists, Status
<1>4. IsUpdated(client, client', k, Pending)
  BY <1>1, <1>3, Updated
<1>5. /\ client' \in Seq(Entries) /\ Distinct(client')
      /\ \A j \in Ids : Equal(j, k) => StatusOf(client', j) = Pending
      /\ \A j \in Ids : ~Equal(j, k) => StatusOf(client', j) = StatusOf(client, j)
  BY <1>4 DEF IsUpdated
<1>6. /\ TypeOK'
  BY <1>1, <1>2, <1>5 DEF IInv, TypeOK
<1>7. BeforeConstruction' /\ Lists' /\ Finding' /\ ReportIsFresh' /\ ToldTheLatest'
  BY <1>1, <1>5 DEF IInv, BeforeConstruction, Lists, Finding, MistakableIn, ReportIsFresh,
                    ToldTheLatest, OnItsWay
<1>8. ASSUME NEW j \in Ids, Equal(j, k)
      PROVE  Announced(j)' /\ StatusOf(client', j) = Pending
  <2>1. Equal(k, j)
    BY <1>3, <1>8, EqualIds
  <2>2. announced' \in 1..announced' /\ keyIds'[announced'].id = k
    BY <1>1, <1>2
  <2> QED BY <1>5, <1>8, <2>1, <2>2 DEF Announced
<1>9. ASSUME NEW j \in Ids, ~Equal(j, k)
      PROVE  /\ Announced(j) => Announced(j)'
             /\ ToBeAnnounced(j) => ToBeAnnounced(j)'
             /\ OnItsWay(j)' = OnItsWay(j)
             /\ StatusOf(client', j) = StatusOf(client, j) /\ StatusOf(server', j) = StatusOf(server, j)
  <2>1. ~Equal(k, j)
    BY <1>3, <1>9, EqualIds
  <2>2. Announced(j) => Announced(j)'
    BY <1>1, <1>2 DEF Announced
  <2>3. ASSUME NEW n \in (announced + 1)..Len(keyIds), Equal(keyIds[n].id, j)
        PROVE  n \in (announced' + 1)..Len(keyIds')
    <3>1. n # announced + 1
      BY <2>1, <2>3
    <3> QED BY <1>1, <1>2, <3>1
  <2>4. ToBeAnnounced(j) => ToBeAnnounced(j)'
    BY <1>1, <2>3 DEF ToBeAnnounced
  <2> QED BY <1>1, <1>5, <1>9, <2>2, <2>4 DEF OnItsWay
<1>10. ClientKeepsUp'
  <2> SUFFICES ASSUME callback', NEW j \in Ids
               PROVE  \/ OnItsWay(j)'
                      \/ Agree(j)'
                      \/ ToBeAnnounced(j)' /\ StatusOf(client', j) = None /\ StatusOf(server', j) = Pending
                      \/ Announced(j)' /\ StatusOf(client', j) = Pending
    BY DEF ClientKeepsUp
  <2>1. CASE Equal(j, k)
    BY <1>8, <2>1
  <2>2. CASE ~Equal(j, k)
    <3>1. \/ OnItsWay(j)
          \/ Agree(j)
          \/ ToBeAnnounced(j) /\ StatusOf(client, j) = None /\ StatusOf(server, j) = Pending
          \/ Announced(j) /\ StatusOf(client, j) = Pending
      BY <1>1 DEF IInv, ClientKeepsUp
    <3> QED BY <1>9, <2>2, <3>1 DEF Agree
  <2> QED BY <2>1, <2>2
<1> QED BY <1>6, <1>7, <1>10 DEF IInv

\* The rest changes no list: the session moves on, or the callback is gone.
LEMMA OtherSteps ==
  IInv /\ (DeliverToNobody \/ KeyStatusesUpdated \/ Listed \/ Created \/ Revoke \/ UNCHANGED vars) => IInv'
<1> SUFFICES ASSUME IInv,
                    DeliverToNobody \/ KeyStatusesUpdated \/ Listed \/ Created \/ Revoke \/ UNCHANGED vars
             PROVE  IInv'
  OBVIOUS
<1>1. /\ UNCHANGED <<initData, todo, keyIds, announced, server, client, told>>
      /\ phase' \in Phases /\ callback' \in BOOLEAN
      /\ phase' = "parsing" <=> phase = "parsing"
      /\ report' = report \/ (report' = None /\ ~callback)
      /\ callback' => callback
  <2>1. phase \in Phases /\ callback \in BOOLEAN
    BY DEF IInv, TypeOK
  <2>2. CASE DeliverToNobody
    BY <2>1, <2>2 DEF DeliverToNobody, creation, Up, Phases
  <2>3. CASE KeyStatusesUpdated
    BY <2>1, <2>3 DEF KeyStatusesUpdated, creation, Up, Phases
  <2>4. CASE Listed \/ Created
    BY <2>1, <2>4 DEF Listed, Created, creation, Phases
  <2>5. CASE Revoke
    BY <2>1, <2>5 DEF Revoke, creation, Phases
  <2>6. CASE UNCHANGED vars
    BY <2>1, <2>6 DEF vars
  <2> QED BY <2>2, <2>3, <2>4, <2>5, <2>6
<1>2. TypeOK'
  BY <1>1 DEF IInv, TypeOK
<1>3. BeforeConstruction' /\ Lists' /\ Finding' /\ ReportIsFresh'
  BY <1>1 DEF IInv, BeforeConstruction, Lists, Finding, MistakableIn, ReportIsFresh
<1>4. callback' => report' = report
  BY <1>1
<1>5. ClientKeepsUp' /\ ToldTheLatest'
  BY <1>1, <1>4 DEF IInv, ClientKeepsUp, ToldTheLatest, OnItsWay, Agree, Announced, ToBeAnnounced
<1> QED BY <1>2, <1>3, <1>5 DEF IInv

LEMMA Initially == Init => IInv
<1> SUFFICES ASSUME Init PROVE IInv
  OBVIOUS
<1>1. /\ phase = "parsing" /\ initData \in InitData /\ todo = initData /\ initData \in Seq(Pieces)
      /\ keyIds = <<>> /\ announced = 0 /\ server = <<>> /\ callback = TRUE /\ report = None
      /\ client = <<>> /\ told = [k \in Ids |-> None]
  BY StatusAssumption DEF Init
<1>2. TypeOK
  BY <1>1 DEF TypeOK, Phases
<1>3. BeforeConstruction /\ Lists /\ ReportIsFresh
  BY <1>1 DEF BeforeConstruction, Lists, ReportIsFresh, Distinct
<1>4. Finding
  <2>1. \A n \in DOMAIN todo : Mistakable(todo[n]) \subseteq MistakableIn(initData)
    BY <1>1 DEF MistakableIn
  <2>2. \A id \in MistakableIn(initData) : \E n \in DOMAIN todo : id \in Mistakable(todo[n])
    BY <1>1 DEF MistakableIn
  <2> QED BY <1>1, <2>1, <2>2 DEF Finding
<1>5. ClientKeepsUp /\ ToldTheLatest
  BY <1>1 DEF ClientKeepsUp, ToldTheLatest, Agree, StatusOf, Matches
<1> QED BY <1>2, <1>3, <1>4, <1>5 DEF IInv

---------------------------------------------------------------------------
(* The theorems *)

\* The strengthening holds in every state.
THEOREM IInvHolds == Spec => []IInv
<1>1. IInv /\ [Next]_vars => IInv'
  <2> SUFFICES ASSUME IInv, [Next]_vars PROVE IInv'
    OBVIOUS
  <2>1. ASSUME NEW k \in Ids, NEW s \in Reported, Report(k, s) PROVE IInv'
    BY <2>1, ReportStep
  <2>2. CASE CdmStep
    BY <2>2, CheckCallbackStep, DeliverStep, OtherSteps DEF CdmStep
  <2>3. CASE Creation
    BY <2>3, ParsePieceStep, ParseKeyStep, ConstructStep, AnnounceStep, OtherSteps DEF Creation
  <2>4. CASE KeyStatusesUpdated \/ Revoke \/ UNCHANGED vars
    BY <2>4, OtherSteps
  <2> QED BY <2>1, <2>2, <2>3, <2>4 DEF Next
<1> QED BY Initially, <1>1, PTL DEF Spec

\* The variables have their types (both sides of a session, and its init data).
THEOREM TypeCorrect == Spec => []TypeOK
<1>1. IInv => TypeOK
  BY DEF IInv
<1> QED BY IInvHolds, <1>1, PTL

\* CommonEncryptionData: a session begins with every id its sound init data mentions,
\* once in whichever byte order, and with no other; with broken init data it may lack
\* ids, and have those of fields whose number the parser mistakes.
THEOREM KeysAreFound == Spec => []KeysOfInitData
<1>1. IInv => KeysOfInitData
  <2> SUFFICES ASSUME IInv, phase # "parsing"
               PROVE  /\ Distinct(keyIds)
                      /\ \A n \in DOMAIN keyIds : keyIds[n].id \in MistakableIn(initData)
                      /\ (\A n \in DOMAIN initData : Sound(initData[n])) =>
                           /\ \A n \in DOMAIN keyIds : keyIds[n].id \in MentionedIn(initData)
                           /\ \A id \in MentionedIn(initData) : Matches(keyIds, id) # {}
    BY DEF KeysOfInitData
  <2>1. todo = <<>>
    BY DEF IInv, BeforeConstruction
  <2>2. \A n \in DOMAIN todo : FALSE
    BY <2>1
  <2>3. initData \in Seq(Pieces)
    BY StatusAssumption DEF IInv, TypeOK
  <2>4. ASSUME \A n \in DOMAIN initData : Sound(initData[n])
        PROVE  MistakableIn(initData) = MentionedIn(initData)
    <3>1. \A n \in DOMAIN initData : initData[n] \in Pieces
      BY <2>3
    <3>2. \A n \in DOMAIN initData : Mistakable(initData[n]) = Mentioned(initData[n])
      BY <2>4, <3>1, SoundIsUnmistakable
    <3> QED BY <3>2 DEF MistakableIn, MentionedIn
  <2> QED BY <2>2, <2>4 DEF IInv, Lists, Finding
<1> QED BY IInvHolds, <1>1, PTL

\* The client's list follows the server's: what differs is on its way or is an
\* announcement (OpenCDMSession::OnKeyStatusUpdate, CreateSession).
THEOREM ClientFollowsServer == Spec => []ClientKeepsUp
<1>1. IInv => ClientKeepsUp
  BY DEF IInv
<1> QED BY IInvHolds, <1>1, PTL

\* What the application was told last of a key is what the CDM reported last
\* (key_update_callback).
THEOREM ApplicationIsToldTheLatest == Spec => []ToldTheLatest
<1>1. IInv => ToldTheLatest
  BY DEF IInv
<1> QED BY IInvHolds, <1>1, PTL

=============================================================================
