------------------------------- MODULE IppWire -------------------------------
(***************************************************************************)
(* IppExchange with the codec of packages/ipp: which requests the codec can *)
(* write so that they are read again, and what they are read as.            *)
(***************************************************************************)
EXTENDS IppExchange, IppCodec

-----------------------------------------------------------------------------
(* The values of attributes that are read as they were written *)

Integers32 == -LastInteger - 1..LastInteger
Characters == 0..2047
Lengths == 0..65535                \* of two bytes
LastMinute == 31 * 1440 - 1        \* of a month

IsInteger(value) == value = Num(value[2]) /\ value[2] \in Integers32
IsText(value, chars) ==
  /\ value = Str(value[2]) /\ value[2] \in Seq(chars)
  /\ Len(Utf8(value[2])) \in Lengths

\* A number that stands for a keyword is read as the keyword, a text with a language
\* as something else (codec.ts:371-395), and a date whose local time is in another
\* month is not written by writeDateTime of IppFields.
Readable(word, syntax, value) ==
  CASE syntax = "integer" -> IsInteger(value)
    [] syntax = "boolean" -> value \in {Bool(TRUE), Bool(FALSE)}
    [] syntax = "enum" ->
         \E code \in DOMAIN ippEnumValues[word] : value = K(ippEnumValues[word][code])
    [] syntax \in AsciiTags -> IsText(value, 0..127)
    [] syntax \in {"name", "text"} -> IsText(value, Characters \ {LanguageSeparator})
    [] syntax = "octetString" -> IsText(value, Characters)
    [] syntax = "resolution" ->
         /\ value = Arr(<<value[2][1], value[2][2], value[2][3]>>)
         /\ IsInteger(value[2][1]) /\ IsInteger(value[2][2])
         /\ value[2][3] \in {K("dpi"), K("dpcm")}
    [] syntax = "dateTime" ->
         /\ value = Date(value[2], value[3], value[4], value[5])
         /\ value[2] \in Lengths /\ value[2] >= 100 /\ value[3] \in 1..12
         /\ value[4] \in Int /\ value[4] - TimezoneOffset \in 0..LastMinute /\ value[5] \in 0..599

IsReadable(group, attribute) ==
  \E word \in DOMAIN groupAttributeSyntax[group] :
    LET syntax == groupAttributeSyntax[group][word]
        value == attribute[2]
    IN /\ attribute = <<W(word), value>>
       /\ \/ /\ value = Arr(value[2]) /\ syntax # "resolution" /\ IsSequence(value[2])
             /\ \A i \in DOMAIN value[2] : Readable(word, syntax, value[2][i])
          \/ Readable(word, syntax, value)

IsReadableRequest(request) ==
  /\ request.operation \in DOMAIN ippOperations /\ request.data \in Seq(0..255)
  /\ "operation-attributes-tag" \in DOMAIN request.groups
  /\ \A group \in DOMAIN request.groups :
       LET attributes == request.groups[group]
       IN /\ group \in ToSet(orderedRequestGroups) /\ IsSequence(attributes)
          /\ \A i \in DOMAIN attributes : IsReadable(group, attributes[i])
          /\ \A i, j \in DOMAIN attributes : i # j => attributes[i][1] # attributes[j][1]
  /\ \A a \in ToSet(request.groups["operation-attributes-tag"]) :
       \A own \in ToSet(OwnOperationAttributes) : a[1] = own[1] => a[2] # Arr(<<>>)

\* The requests of others are such, or the writer refuses them.
ASSUME RequestsAssumption ==
  \A other \in DOMAIN OtherRequests :
    \/ IsReadableRequest(OtherRequests[other])
    \/ Throws(serializeIppRequest(OtherRequests[other], RequestId))

\* The writer of the exchange is that of IppCodec.
CodecWrites == \A request : Serialize(request, RequestId) = serializeIppRequest(request, RequestId)

-----------------------------------------------------------------------------
(* Properties *)

Kept(attribute) ==
  LET value == attribute[2]
  IN [name |-> attribute[1],
      value |-> IF IsA(value, "array") /\ Len(value[2]) = 1 THEN value[2][1] ELSE value]

ReadAs(request, message) ==
  LET Asked(tag) == {Kept(a) : a \in {a \in ToSet(request.groups[tag]) : a[2] # Arr(<<>>)}}
      Own == {Kept(a) : a \in {a \in ToSet(OwnOperationAttributes) :
                \A b \in ToSet(request.groups["operation-attributes-tag"]) : b[1] # a[1]}}
  IN /\ message.ok /\ message.operation = {request.operation} /\ message.data = request.data
     /\ {message.groups[g].tag : g \in DOMAIN message.groups} = DOMAIN request.groups
     /\ Cardinality(DOMAIN message.groups) = Cardinality(DOMAIN request.groups)
     /\ \A g \in DOMAIN message.groups :
          LET group == message.groups[g]
          IN /\ ToSet(group.attributes) =
                  Asked(group.tag) \cup (IF g = 1 THEN Own ELSE {})
             /\ Cardinality(ToSet(group.attributes)) = Len(group.attributes)
     /\ \A i \in 1..3 :
          message.groups[1].attributes[i].name = OwnOperationAttributes[i][1]

\* packages/ipp is a "Lossless IPP codec" (README.md).  A request that is sent
\* reads back, with its id, as the attributes it was made of, each once, with the
\* charset, the language and the printer before all others, as IPP demands.
RequestReadsBack ==
  phase = "connecting" =>
    \E message \in {parseIppMessage(Sent)} : ReadAs(Request, message) /\ message.id = RequestId
=============================================================================
