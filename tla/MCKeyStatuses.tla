--------------------------- MODULE MCKeyStatuses ---------------------------
(* TLC instances of KeyStatuses.  Two keys, each in both byte orders.  Init    *)
(* data of every format: boxes of all versions, with ids, with a payload, with *)
(* both, and with parts that do not fit; objects with fewer records than they  *)
(* say, with another record, or of the wrong size; XML with KIDs of each form,  *)
(* of both, with one that is not an id, and broken off; messages with other    *)
(* fields, with a number beyond 8 bits, and with a field that cannot be read. *)
EXTENDS KeyStatuses

CONSTANTS a, aTwin, b, bTwin

MCIds == {a, aTwin, b, bTwin}
MCTwin == [id \in MCIds |-> CASE id = a -> aTwin [] id = aTwin -> a
                               [] id = b -> bTwin [] id = bTwin -> b]

Kid(form, id) == [form |-> form, id |-> id]
Xml(kids) == [is |-> "xml", kids |-> kids, open |-> FALSE]
Rights(xml) == [is |-> "record", type |-> 1, xml |-> xml]
Object(records) ==
  [is |-> "object", whole |-> TRUE, count |-> Len(records), records |-> records]
Field(number, type, id) == [number |-> number, type |-> type, whole |-> TRUE, id |-> id]
Message(fields) == [is |-> "message", fields |-> fields]
Box(version, kids, payload) ==
  [is |-> "box", version |-> version, kids |-> kids, kidsFit |-> TRUE, payload |-> payload]

Texts == Xml(<<Kid("text", aTwin), Kid("text", b)>>)
Attributes == Xml(<<Kid("attribute", b), Kid("attribute", None), Kid("attribute", b)>>)
Widevine == Message(<<Field(1, "varint", b), Field(2, "bytes", a), Field(20, "fixed64", b)>>)

MCInitData ==
  {<<>>,
   <<Box(1, <<a>>, Object(<<Rights(Texts)>>))>>,
   <<Box(0, <<>>, Widevine), Box(0, <<>>, Object(<<Rights(Attributes)>>))>>,
   <<Box(1, <<a, b>>, None), [Box(1, <<b>>, Widevine) EXCEPT !.kidsFit = FALSE], Box(2, <<b>>, None)>>,
   <<[Object(<<[Rights(Texts) EXCEPT !.type = 3], Rights(Attributes), Rights(Texts)>>) EXCEPT !.count = 2]>>,
   <<[Object(<<Rights(Attributes)>>) EXCEPT !.count = 2]>>,
   <<Box(0, <<>>, [Object(<<Rights(Texts)>>) EXCEPT !.whole = FALSE]), Box(1, <<b>>, None)>>,
   <<Xml(<<Kid("attribute", a), Kid("text", bTwin), Kid("attribute", b)>>)>>,
   <<[Xml(<<Kid("text", a), Kid("attribute", b)>>) EXCEPT !.open = TRUE]>>,
   <<Box(0, <<>>, Message(<<Field(2, "bytes", a), Field(258, "bytes", b)>>))>>,
   <<Box(0, <<>>, Message(<<Field(2, "bytes", a), Field(20, "group", b)>>)),
     Box(1, <<a>>, Object(<<Rights(Attributes)>>))>>,
   <<Box(1, <<a>>, Object(<<Rights(Attributes)>>))>>,
   <<[is |-> "json", ids |-> <<a, b, a>>]>>}

\* The first key is in the init data, the second is not.
OneKey == {<<Box(1, <<a>>, None)>>}

=============================================================================
