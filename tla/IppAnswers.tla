------------------------------ MODULE IppAnswers ------------------------------
(***************************************************************************)
(* What CUPS answers over the wire of IppWire: the bytes of a message as    *)
(* RFC 8010 has them, collections in collections included, and what they     *)
(* mean at the agent's end.                                                 *)
(***************************************************************************)
EXTENDS IppWire

-----------------------------------------------------------------------------
(* The answers, as RFC 8010 encodes them *)

Field(bytes) == <<Len(bytes) \div 256, Len(bytes) % 256>> \o bytes

\* A value: its tag and its content.
RECURSIVE EncodedValue(_), EncodedAttribute(_, _)
EncodedValue(v) ==
  CASE v[1] \in {"integer", "enum"} -> Field(Int32(v[2]))
    [] v[1] = "boolean" -> Field(<<IF v[2] THEN 1 ELSE 0>>)
    [] v[1] = "rangeOfInteger" -> Field(Int32(v[2]) \o Int32(v[3]))
    [] v[1] = "resolution" -> Field(Int32(v[2]) \o Int32(v[3]) \o <<IF v[4] = "dpi" THEN 3 ELSE 4>>)
    [] v[1] = "dateTime" -> Field(v[2])
    [] v[1] \in {"textWithLanguage", "nameWithLanguage"} ->
         Field(Field(Utf8(v[2])) \o Field(Utf8(v[3])))
    [] v[1] = "begCollection" ->
         Field(<<>>)
         \o FlattenSeq([i \in DOMAIN v[2] |->
              <<ValueTags["memberAttrName"]>> \o Field(<<>>) \o Field(Utf8(v[2][i].name))
              \o EncodedAttribute(<<>>, v[2][i].values)])
         \o <<ValueTags["endCollection"]>> \o Field(<<>>) \o Field(<<>>)
    [] v[1] \in {"no-value", "unknown", "unsupported"} -> Field(<<>>)
    [] OTHER -> Field(Utf8(v[2]))

EncodedAttribute(name, values) ==
  FlattenSeq([i \in DOMAIN values |->
    <<ValueTags[values[i][1]]>> \o Field(IF i = 1 THEN Utf8(name) ELSE <<>>)
    \o EncodedValue(values[i])])

EncodedGroup(group) ==
  <<GroupTags[group.tag]>>
  \o FlattenSeq([i \in DOMAIN group.attributes |->
       EncodedAttribute(group.attributes[i].name, group.attributes[i].values)])

Encoded(message) ==
  <<2, 0, message.code \div 256, message.code % 256>> \o Int32(RequestId)
  \o FlattenSeq([i \in DOMAIN message.groups |-> EncodedGroup(message.groups[i])])
  \o <<GroupTags["end-of-attributes-tag"]>> \o message.data

-----------------------------------------------------------------------------
(* Properties *)

RECURSIVE MeantBy(_, _)
MeantBy(name, values) ==
  LET One(v) == IF v[1] # "begCollection" THEN Meant(name, v)
                ELSE Coll([i \in DOMAIN v[2] |->
                       [name |-> v[2][i].name, value |-> MeantBy(v[2][i].name, v[2][i].values)]])
  IN IF Len(values) = 1 THEN One(values[1]) ELSE Arr([i \in DOMAIN values |-> One(values[i])])

\* README.md: "Parsed IPP groups and attributes remain ordered arrays.  Repeated
\* complete attributes are preserved".  Whatever the chunks it arrived in, an
\* answer is read as the groups, attributes and values CUPS wrote, in their order,
\* collections in collections included.
AnswerIsUnderstood ==
  phase = "answered" =>
    /\ Understood(reply, response)
    /\ \A g \in DOMAIN reply.groups : \A i \in DOMAIN reply.groups[g].attributes :
         LET sent == reply.groups[g].attributes[i]
         IN response.groups[g].attributes[i].value = MeantBy(sent.name, sent.values)
    /\ response.id = RequestId /\ response.data = reply.data
    /\ response.version = {"2.0"}
=============================================================================
