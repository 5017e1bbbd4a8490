------------------------------ MODULE IppCodec -------------------------------
(***************************************************************************)
(* The codec of packages/ipp (codec.ts): serializeIppRequest and            *)
(* parseIppMessage over real bytes.                                         *)
(*                                                                         *)
(* A request is a map, kept as a sequence of names and values in insertion  *)
(* order; a parsed message has a sequence of groups, each with a sequence   *)
(* of attributes.                                                          *)
(***************************************************************************)
EXTENDS IppFields

-----------------------------------------------------------------------------
(* serializeIppRequest *)

AsciiTags == {"keyword", "uri", "charset", "naturalLanguage"}
TextTags == {"nameWithoutLanguage", "textWithoutLanguage", "octetString", "memberAttrName"}

resolveEnumCode(name, value) ==
  IF ~ IsA(value, "string") THEN value
  ELSE LET codes == UNION {{code \in DOMAIN ippEnumValues[attribute] :
                              K(ippEnumValues[attribute][code]) = value} :
                             attribute \in Unspelled(name) \cap DOMAIN ippEnumValues}
       IN IF codes = {} THEN Null ELSE Num(CHOOSE code \in codes : TRUE)

writeLanguageQualifiedString(value) ==
  LET separator == SelectInSeq(value[2], LAMBDA c : c = LanguageSeparator)
  IN Sized(Utf8(SubSeq(value[2], 1, separator - 1)))
     \o Sized(Utf8(SubSeq(value[2], separator + 1, Len(value[2]))))

resolveValueTag(syntax, value) ==
  LET qualified == IsA(value, "string") /\ LanguageSeparator \in ToSet(value[2])
  IN IF syntax = "name"
     THEN IF qualified THEN "nameWithLanguage" ELSE "nameWithoutLanguage"
     ELSE IF syntax = "text"
     THEN IF qualified THEN "textWithLanguage" ELSE "textWithoutLanguage"
     ELSE syntax

writeValue(name, tag, value) ==
  CASE tag = "integer" -> writeInteger(value)
    [] tag = "enum" -> writeInteger(resolveEnumCode(name, value))
    [] tag = "boolean" ->
         IF IsA(value, "boolean") THEN Sized(<<IF value[2] THEN 1 ELSE 0>>) ELSE Refused
    [] tag \in AsciiTags -> IF IsA(value, "string") THEN Sized(Ascii(value[2])) ELSE Refused
    [] tag \in TextTags -> IF IsA(value, "string") THEN Sized(Utf8(value[2])) ELSE Refused
    [] tag \in {"nameWithLanguage", "textWithLanguage"} -> writeLanguageQualifiedString(value)
    [] tag = "resolution" -> writeResolution(value)
    [] tag = "dateTime" -> writeDateTime(value)

\* Mutant of writeAttribute: the name is written before each value.
writeAttributeNamed(group, name, value) ==
  LET known == Unspelled(name) \cap DOMAIN groupAttributeSyntax[group]
      syntax == groupAttributeSyntax[group][CHOOSE word \in known : TRUE]
      values == IF IsA(value, "array") /\ syntax # "resolution" THEN value[2] ELSE <<value>>
  IN IF known = {} THEN Refused
     ELSE FlattenSeq([i \in DOMAIN values |->
            LET tag == resolveValueTag(syntax, values[i])
            IN <<ippTags[tag]>> \o Sized(name) \o writeValue(name, tag, values[i])])

\* The values of one attribute: the name comes with the first.
writeAttribute(group, name, value) ==
  LET known == Unspelled(name) \cap DOMAIN groupAttributeSyntax[group]
      syntax == groupAttributeSyntax[group][CHOOSE word \in known : TRUE]
      values == IF IsA(value, "array") /\ syntax # "resolution" THEN value[2] ELSE <<value>>
  IN IF known = {} THEN Refused
     ELSE FlattenSeq([i \in DOMAIN values |->
            LET tag == resolveValueTag(syntax, values[i])
            IN <<ippTags[tag]>> \o Sized(IF i = 1 THEN name ELSE <<>>)
               \o writeValue(name, tag, values[i])])

\* The sort is stable: attributes without a place of their own keep theirs.
specialOperationAttributesOrder ==
  <<"attributes-charset", "attributes-natural-language", "printer-uri", "job-id", "job-uri">>
orderedOperationAttributes(attributes) ==
  LET Named(names) == Only(attributes, {i \in DOMAIN attributes : attributes[i][1] \in names})
      special == [i \in DOMAIN specialOperationAttributesOrder |->
                    W(specialOperationAttributesOrder[i])]
  IN FlattenSeq([i \in DOMAIN special |-> Named({special[i]})])
     \o Named({attributes[i][1] : i \in DOMAIN attributes} \ ToSet(special))

writeGroup(message, group) ==
  LET attributes == IF group = "operation-attributes-tag"
                    THEN orderedOperationAttributes(message[group]) ELSE message[group]
  IN IF group \notin DOMAIN message THEN <<>>
     ELSE <<ippTags[group]>> \o FlattenSeq([i \in DOMAIN attributes |->
            writeAttribute(group, attributes[i][1], attributes[i][2])])

\* Object spread: what is in both keeps the place of the first and the value of
\* the second.
Spread(first, second) ==
  LET Keys(attributes) == {attributes[i][1] : i \in DOMAIN attributes}
      Value(name) == second[CHOOSE i \in DOMAIN second : second[i][1] = name][2]
  IN [i \in DOMAIN first |-> <<first[i][1], IF first[i][1] \in Keys(second)
                               THEN Value(first[i][1]) ELSE first[i][2]>>]
     \o Only(second, {i \in DOMAIN second : second[i][1] \notin Keys(first)})

OwnOperationAttributes ==
  <<<<W("attributes-charset"), K("utf-8")>>, <<W("attributes-natural-language"), K("en")>>,
    <<W("printer-uri"), K("ipp://queue")>>>>

\* request: operation, the groups of its message by tag, and data.  The request id
\* is drawn at random.
serializeIppRequest(request, requestId) ==
  LET own == IF "operation-attributes-tag" \in DOMAIN request.groups
             THEN request.groups["operation-attributes-tag"] ELSE <<>>
      message == [group \in {"operation-attributes-tag"} \cup DOMAIN request.groups |->
                    IF group = "operation-attributes-tag" THEN Spread(OwnOperationAttributes, own)
                    ELSE request.groups[group]]
  IN UInt16(ippVersions["2.0"])
     \o (IF request.operation \in DOMAIN ippOperations
         THEN UInt16(ippOperations[request.operation]) ELSE Refused)
     \o Int32(requestId)
     \o FlattenSeq([i \in DOMAIN orderedRequestGroups |->
                      writeGroup(message, orderedRequestGroups[i])])
     \o <<ippTags["end-of-attributes-tag"]>> \o request.data

-----------------------------------------------------------------------------
(* parseIppMessage: a reader takes the place in the buffer it starts at, and *)
(* says whether the buffer was long enough, what it read and what is next.   *)

\* A while loop of a reader: what it has come to when a turn takes it no further,
\* after as many turns as there are bytes at the most.
Loop(buffer, start, Turn(_)) ==
  LET after[n \in 0..Len(buffer)] == IF n = 0 THEN start ELSE Turn(after[n - 1])
  IN after[CHOOSE n \in 0..Len(buffer) :
             LET so == after[n] IN Turn(so).next = so.next]

\* A list that is being read, from a place on, and with one thing more.
ListFrom(at) == [ok |-> TRUE, value |-> <<>>, next |-> at]
Further(list, one, item) ==
  IF one.ok THEN [ok |-> TRUE, value |-> Append(list.value, item), next |-> one.next]
  ELSE TooShort

Slice(buffer, at, length) == SubSeq(buffer, at, at + length - 1)

decodeEnum(name, code) ==
  LET listed == {attribute \in Unspelled(name) \cap DOMAIN ippEnumValues :
                   code \in DOMAIN ippEnumValues[attribute]}
  IN IF listed = {} THEN Num(code)
     ELSE K(ippEnumValues[CHOOSE attribute \in listed : TRUE][code])

\* language and text, each with its length; the length of the whole is not used.
readLanguageQualified(buffer, at) ==
  IF ~ Fits(buffer, at, 2) \/ ~ Fits(buffer, at + 2, UInt16At(buffer, at) + 2) THEN TooShort
  ELSE LET language == UInt16At(buffer, at)
           text == UInt16At(buffer, at + 2 + language)
       IN Read(buffer, at, 4 + language + text,
               Str(FromUtf8(Slice(buffer, at + 2, language)) \o <<LanguageSeparator>>
                   \o FromUtf8(Slice(buffer, at + 4 + language, text))))

\* Mutant of hasAdditionalValue: nothing tells a value from a member's name.
hasAdditionalValueOrMember(buffer, at) ==
  /\ at + 2 <= Len(buffer)
  /\ buffer[at] # ippTags["end-of-attributes-tag"]
  /\ buffer[at + 1] = 0 /\ buffer[at + 2] = 0

\* A value tag and a name of no length.
hasAdditionalValue(buffer, at) ==
  /\ at + 2 <= Len(buffer)
  /\ buffer[at] \notin {ippTags["memberAttrName"], ippTags["endCollection"],
                        ippTags["end-of-attributes-tag"]}
  /\ buffer[at + 1] = 0 /\ buffer[at + 2] = 0

\* A value.  collection[at] is the collection that begins at a place of the buffer.
readValue(buffer, collection, lengthAt, code, name) ==
  LET tag == CHOOSE t \in NamesOf(ValueTags, code) \cup {"other"} :
               NamesOf(ValueTags, code) # {} => t # "other"
      length == UInt16At(buffer, lengthAt)
      at == lengthAt + 2
  IN CASE ~ Fits(buffer, lengthAt, 2) -> TooShort
       [] tag = "integer" -> Read(buffer, at, 4, Num(Int32At(buffer, at)))
       [] tag = "enum" -> Read(buffer, at, 4, decodeEnum(name, Int32At(buffer, at)))
       [] tag = "boolean" -> Read(buffer, at, 1, Bool(buffer[at] # 0))
       [] tag = "rangeOfInteger" -> Read(buffer, at, 8, rangeAt(buffer, at))
       [] tag = "resolution" -> Read(buffer, at, 9, resolutionAt(buffer, at))
       [] tag = "dateTime" -> Read(buffer, at, 11, dateTimeAt(buffer, at))
       [] tag \in {"textWithLanguage", "nameWithLanguage"} -> readLanguageQualified(buffer, at)
       [] tag \in AsciiTags -> Read(buffer, at, length, Str(FromAscii(Slice(buffer, at, length))))
       [] tag = "begCollection" ->
            IF Fits(buffer, at, length) THEN collection[at + length] ELSE TooShort
       [] tag = "no-value" -> Read(buffer, at, length, Null)
       [] OTHER -> Read(buffer, at, length, Str(FromUtf8(Slice(buffer, at, length))))

\* One value, or all that follow it.
nextValue(buffer, collection, name, values) ==
  IF ~ values.ok \/ ~ hasAdditionalValue(buffer, values.next) THEN values
  ELSE LET one == readValue(buffer, collection, values.next + 3, buffer[values.next], name)
       IN Further(values, one, one.value)

readValues(buffer, collection, at, tag, name) ==
  LET first == readValue(buffer, collection, at, tag, name)
      values == Loop(buffer, Further(ListFrom(at), first, first.value),
                     LAMBDA so : nextValue(buffer, collection, name, so))
  IN IF ~ first.ok \/ ~ hasAdditionalValue(buffer, first.next) THEN first
     ELSE IF values.ok THEN [values EXCEPT !.value = Arr(@)] ELSE TooShort

\* Members until the end of the collection, with its two lengths of nothing.
nextMember(buffer, collection, members) ==
  LET at == members.next
      member == readValue(buffer, collection, at + 3, ippTags["memberAttrName"], W("none"))
      name == member.value[2]
      values == readValues(buffer, collection, member.next + 3, buffer[member.next], name)
  IN IF ~ members.ok THEN members
     ELSE IF ~ Fits(buffer, at, 3) THEN TooShort
     ELSE IF buffer[at] = ippTags["endCollection"] THEN members
     ELSE IF ~ member.ok \/ ~ Fits(buffer, member.next, 3) THEN TooShort
     ELSE Further(members, values, [name |-> name, value |-> values.value])

\* The end of a collection, after its members.
readEnd(buffer, members) ==
  LET end == members.next
  IN IF ~ members.ok \/ ~ Fits(buffer, end + 3, 2) THEN TooShort
     ELSE Read(buffer, end + 5, UInt16At(buffer, end + 3), Coll(members.value))

readCollection(buffer) ==
  LET collection[at \in Nat] ==
        readEnd(buffer, Loop(buffer, ListFrom(at),
                             LAMBDA so : nextMember(buffer, collection, so)))
  IN collection

\* The attributes of a group, up to the tag of the next one.
nextAttribute(buffer, collection, attributes) ==
  LET at == attributes.next
      length == UInt16At(buffer, at + 1)
      name == FromUtf8(Slice(buffer, at + 3, length))
      values == readValues(buffer, collection, at + 3 + length, buffer[at], name)
  IN IF ~ attributes.ok \/ at > Len(buffer) \/ ~ (buffer[at] >= 15) THEN attributes
     ELSE IF ~ Fits(buffer, at, 3) \/ ~ Fits(buffer, at + 3, length) THEN TooShort
     ELSE Further(attributes, values, [name |-> name, value |-> values.value])

readAttributes(buffer, collection, at) ==
  Loop(buffer, ListFrom(at), LAMBDA so : nextAttribute(buffer, collection, so))

\* The groups, up to the end of the attributes.
nextGroup(buffer, collection, groups) ==
  LET at == groups.next
      tag == CHOOSE t \in NamesOf(GroupTags, buffer[at]) \cup {"unknown-group"} :
               NamesOf(GroupTags, buffer[at]) # {} => t # "unknown-group"
      attributes == readAttributes(buffer, collection, at + 1)
  IN IF ~ groups.ok \/ at > Len(buffer) \/ buffer[at] = ippTags["end-of-attributes-tag"]
     THEN groups
     ELSE Further(groups, attributes, [tag |-> tag, attributes |-> attributes.value])

readGroups(buffer, collection, at) ==
  Loop(buffer, ListFrom(at), LAMBDA so : nextGroup(buffer, collection, so))

\* The operation and the status a code stands for: {} is undefined.
readMessage(buffer, groups) ==
  IF ~ Fits(buffer, 1, 8) \/ ~ groups.ok THEN TooShort
  ELSE [ok |-> TRUE,
        version |-> NamesOf(ippVersions, UInt16At(buffer, 1)),
        operation |-> NamesOf(ippOperations, UInt16At(buffer, 3)),
        statusCode |-> NamesOf(ippStatusCodes, UInt16At(buffer, 3)),
        id |-> Int32At(buffer, 5),
        groups |-> groups.value,
        data |-> SubSeq(buffer, groups.next + 1, Len(buffer))]

parseIppMessage(buffer) == readMessage(buffer, readGroups(buffer, readCollection(buffer), 9))
=============================================================================
