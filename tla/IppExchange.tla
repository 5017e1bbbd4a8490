----------------------------- MODULE IppExchange -----------------------------
(***************************************************************************)
(* One IPP request after the other, from the values a caller passes to what *)
(* it makes of the answer: requestIpp and postIpp of packages/ipp           *)
(* (client.ts), the queue client of the agent (CupsIppQueueClient.ts) and   *)
(* the readers of subscriptions.ts, for the requests of the event stream    *)
(* and for any others.                                                     *)
(*                                                                         *)
(* What the codec makes of a request and of the bytes of an answer is a      *)
(* parameter here; IppWire gives it that of IppCodec.                       *)
(*                                                                         *)
(* CUPS, the network and Node's http are external: an answer is a message   *)
(* encoded as RFC 8010 has it, which arrives in chunks; a connection is     *)
(* refused, reset (the request emits an error) or closed before the answer  *)
(* is whole (nothing that this code listens for is emitted).                *)
(***************************************************************************)
EXTENDS IppFields, JobReconciliation

CONSTANTS
  Serialize(_, _),  \* the bytes of a request with an id, or those of one that threw
  Parse(_),       \* what parseIppMessage reads in bytes, or that it throws
  Encode(_),      \* the bytes CUPS sends for a message
  Replies,        \* what CUPS may answer to each operation
  OtherRequests,  \* requests besides those of the stream
  RequestId,      \* drawn at random for each request
  ChunkSize       \* bytes of the first chunks; the last one brings the rest

LastRequestId == 99999999

ASSUME ExchangeAssumption ==
  /\ RequestId \in 0..LastRequestId /\ ChunkSize \in Nat \ {0}
  /\ DOMAIN OtherRequests \cap {"create", "jobs", "poll"} = {}
  /\ {"Create-Printer-Subscriptions", "Get-Jobs", "Get-Notifications"} \subseteq DOMAIN Replies
  /\ \A other \in DOMAIN OtherRequests : OtherRequests[other].operation \in DOMAIN Replies

VARIABLES
  todo,           \* the next request: "create", "jobs", "poll" or one of the others
  subscription,   \* notify-subscription-id of the session, Null before it has one
  nextSequenceNumber,
  phase,          \* of the request: "idle", "connecting", "receiving", "answered", "hung"
  reply,          \* the message CUPS answers with
  received,       \* the bytes of it that have arrived
  response,       \* what they say, once all have
  outcome         \* how the last request ended

sessionVars == <<todo, subscription, nextSequenceNumber>>
wireVars == <<phase, reply, received, response>>
exchangeVars == <<jobVars, sessionVars, wireVars, outcome>>

Silence == [code |-> 0, groups |-> <<>>, data |-> <<>>, bytes |-> <<>>]
Unread == [ok |-> FALSE]

Init ==
  /\ JobsInit
  /\ todo = "create" /\ subscription = Null /\ nextSequenceNumber = Num(1)
  /\ phase = "idle" /\ reply = Silence /\ received = <<>> /\ response = Unread
  /\ outcome = "none"

-----------------------------------------------------------------------------
(* The requests *)

Message(operation, groups) == [operation |-> operation, groups |-> Table(groups), data |-> <<>>]
Identity == <<<<W("printer-uri"), K("ipp://queue")>>, <<W("requesting-user-name"), K("agent")>>>>

createPrinterSubscriptionRequest ==
  Message("Create-Printer-Subscriptions",
    {<<"operation-attributes-tag", Identity>>,
     <<"subscription-attributes-tag",
       <<<<W("notify-pull-method"), K("ippget")>>,
         <<W("notify-events"), Arr(<<K("printer-state-changed"), K("job-state-changed")>>)>>,
         <<W("notify-lease-duration"), Num(0)>>>>>>})

retainedJobsRequest ==
  Message("Get-Jobs",
    {<<"operation-attributes-tag", Identity \o
       <<<<W("which-jobs"), K("all")>>,
         <<W("requested-attributes"), Arr(<<K("job-id"), K("job-state"), K("job-state-reasons"),
             K("job-media-sheets-completed"), K("job-impressions-completed")>>)>>>>>>})

getNotificationsRequest(id, next) ==
  Message("Get-Notifications",
    {<<"operation-attributes-tag", Identity \o
       <<<<W("notify-subscription-ids"), Arr(<<id>>)>>,
         <<W("notify-sequence-numbers"), Arr(<<next>>)>>,
         <<W("notify-wait"), Bool(TRUE)>>>>>>})

cancelSubscriptionRequest(id) ==
  Message("Cancel-Subscription",
    {<<"operation-attributes-tag", Identity>>,
     <<"subscription-attributes-tag", <<<<W("notify-subscription-id"), id>>>>>>})

Request ==
  CASE todo = "create" -> createPrinterSubscriptionRequest
    [] todo = "jobs" -> retainedJobsRequest
    [] todo = "poll" -> getNotificationsRequest(subscription, nextSequenceNumber)
    [] OTHER -> OtherRequests[todo]

Sent == Serialize(Request, RequestId)

\* What CUPS may answer, with the bytes it sends.
Answers == [operation \in DOMAIN Replies |->
              {[code |-> message.code, groups |-> message.groups, data |-> message.data,
                bytes |-> Encode(message)] : message \in Replies[operation]}]

\* The values RFC 8011 allows in the attributes that the agent reads.
ReadSyntax ==
  Table({<<"job-id", {"integer"}>>, <<"job-state", {"enum"}>>,
         <<"job-state-reasons", {"keyword"}>>,
         <<"job-media-sheets-completed", {"integer", "no-value"}>>,
         <<"job-impressions-completed", {"integer", "no-value"}>>,
         <<"notify-sequence-number", {"integer"}>>})

IsSequence(s) == s \in Seq(ToSet(s))

\* Every attribute has a value, and those that the agent reads have values of their
\* syntax.
WellFormed(group) ==
  /\ IsSequence(group.attributes)
  /\ \A i \in DOMAIN group.attributes :
       LET name == group.attributes[i].name
           values == group.attributes[i].values
       IN /\ IsSequence(values) /\ values # <<>>
          /\ name = W("notify-sequence-number") => Len(values) = 1
          /\ \A word \in DOMAIN ReadSyntax : name = W(word) =>
               \A k \in DOMAIN values : values[k][1] \in ReadSyntax[word]

ASSUME RepliesAssumption ==
  \A operation \in DOMAIN Replies : \A message \in Replies[operation] :
    /\ \E name \in DOMAIN ippStatusCodes : message.code = ippStatusCodes[name]
    /\ IsSequence(message.groups)
    /\ \A g \in DOMAIN message.groups : WellFormed(message.groups[g])

AttributesOf(message) ==
  UNION {ToSet(message.groups[g].attributes) : g \in DOMAIN message.groups}

\* The codec reads lists of groups of attributes, and integers as the 32-bit numbers
\* they are.
IsMessage(message) ==
  /\ IsSequence(message.groups)
  /\ \A g \in DOMAIN message.groups : IsSequence(message.groups[g].attributes)
  /\ \A attribute \in AttributesOf(message) : IsA(attribute.value, "number") =>
       /\ attribute.value = Num(attribute.value[2])
       /\ attribute.value[2] \in -LastInteger - 1..LastInteger

ASSUME AnswersAssumption ==
  \A operation \in DOMAIN Replies : \A answer \in Answers[operation] :
    /\ answer.bytes \in Seq(0..255)
    /\ Parse(answer.bytes).ok => IsMessage(Parse(answer.bytes))

-----------------------------------------------------------------------------
(* requestIpp and postIpp *)

RequestOver == phase' = "idle" /\ reply' = Silence /\ received' = <<>> /\ response' = Unread

\* Mutant of Fails: the next session goes on with the subscription of this one.
FailsWithinSession(error) ==
  /\ RequestOver
  /\ outcome' = error
  /\ todo' = "create"
  /\ UNCHANGED <<jobVars, subscription, nextSequenceNumber>>

\* The request failed, for the caller as CupsIppUnavailable or
\* CupsIppProtocolError: the session is over, and the next one subscribes again.
Fails(error) ==
  /\ RequestOver
  /\ outcome' = error
  /\ todo' = "create" /\ subscription' = Null /\ nextSequenceNumber' = Num(1)
  /\ UNCHANGED jobVars

Ask ==
  /\ phase = "idle" /\ ~ Throws(Sent)
  /\ phase' = "connecting" /\ outcome' = "none"
  /\ UNCHANGED <<jobVars, sessionVars, reply, received, response>>

CannotSerialize ==
  /\ phase = "idle" /\ Throws(Sent)
  /\ Fails("IppSerializationError")

\* Mutant of ConnectionFails: a status that is not 200 is never rejected.
ConnectionForgotten ==
  /\ phase = "connecting"
  /\ phase' = "refused"
  /\ UNCHANGED <<jobVars, sessionVars, reply, received, response, outcome>>

\* Refused, or an HTTP status that is not 200.
ConnectionFails ==
  /\ phase = "connecting"
  /\ Fails("IppTransportError")

Answer ==
  /\ phase = "connecting"
  /\ reply' \in Answers[Request.operation]
  /\ phase' = "receiving"
  /\ UNCHANGED <<jobVars, sessionVars, received, response, outcome>>

\* Mutant of Chunk: the chunks are put together the wrong way round.
ChunkInFront ==
  /\ phase = "receiving" /\ Len(received) < Len(reply.bytes)
  /\ LET rest == SubSeq(reply.bytes, Len(received) + 1, Len(reply.bytes))
     IN \E length \in {ChunkSize, Len(rest)} :
          length <= Len(rest) /\ received' = SubSeq(rest, 1, length) \o received
  /\ UNCHANGED <<jobVars, sessionVars, phase, reply, response, outcome>>

Chunk ==
  /\ phase = "receiving" /\ Len(received) < Len(reply.bytes)
  /\ LET rest == SubSeq(reply.bytes, Len(received) + 1, Len(reply.bytes))
     IN \E length \in {ChunkSize, Len(rest)} :
          length <= Len(rest) /\ received' = received \o SubSeq(rest, 1, length)
  /\ UNCHANGED <<jobVars, sessionVars, phase, reply, response, outcome>>

\* The request emits an error while the answer arrives.
ConnectionReset ==
  /\ phase = "receiving" /\ Len(received) < Len(reply.bytes)
  /\ Fails("IppTransportError")

\* The response is aborted: neither "end" nor an error of the request follows,
\* and there is no timeout.
ConnectionCut ==
  /\ phase = "receiving" /\ Len(received) < Len(reply.bytes)
  /\ phase' = "hung"
  /\ UNCHANGED <<jobVars, sessionVars, reply, received, response, outcome>>

\* "end": the body is parsed.
Whole ==
  /\ phase = "receiving" /\ Len(received) = Len(reply.bytes)
  /\ phase' = "answered"

End ==
  /\ Whole /\ response' = Parse(received)
  /\ UNCHANGED <<jobVars, sessionVars, reply, received, outcome>>

\* validateIppMessage throws.
HasDuplicateAttribute(message) ==
  \E g \in DOMAIN message.groups :
    LET attributes == message.groups[g].attributes
    IN \E i, j \in DOMAIN attributes : i # j /\ attributes[i].name = attributes[j].name
\* validateIppMessage and the queue client's look at the status: a code that is in no
\* table counts as success.
Error ==
  IF ~ response.ok THEN "IppParseError"
  ELSE IF HasDuplicateAttribute(response) THEN "IppDuplicateAttributeError"
  ELSE IF ~ (response.statusCode \subseteq Successes) THEN "CupsIppProtocolError" ELSE "none"

Rejected ==
  /\ phase = "answered" /\ Error # "none"
  /\ Fails(Error)

-----------------------------------------------------------------------------
(* What the callers make of an answer *)

Accepted(operation) ==
  /\ phase = "answered" /\ todo = operation /\ Error = "none"

Succeeds(next) ==
  /\ RequestOver
  /\ outcome' = "success"
  /\ todo' = next

extractSubscriptionId ==
  LET groups == attributeGroups(response, "subscription-attributes-tag")
      ids == FlattenSeq([g \in DOMAIN groups |->
                           attributeValues(groups[g], "notify-subscription-id")])
  IN IF Len(ids) = 1 /\ IsA(ids[1], "number") /\ ids[1][2] > 0 THEN ids[1] ELSE Null

Subscribed ==
  /\ Accepted("create") /\ extractSubscriptionId # Null
  /\ Succeeds("jobs")
  /\ subscription' = extractSubscriptionId
  /\ UNCHANGED <<jobVars, nextSequenceNumber>>

NotSubscribed ==
  /\ Accepted("create") /\ extractSubscriptionId = Null
  /\ Fails("CupsIppProtocolError")

Reconciled ==
  /\ Accepted("jobs") /\ Observe(response)
  /\ Succeeds("poll")
  /\ UNCHANGED <<subscription, nextSequenceNumber>>

NotReconciled ==
  /\ Accepted("jobs") /\ RefuseJobs(response)
  /\ Fails("CupsIppProtocolError")

NotificationAttributes ==
  UNION {ToSet(response.groups[g].attributes) : g \in {g \in DOMAIN response.groups :
           response.groups[g].tag = "event-notification-attributes-tag"}}
NotificationValues(name) == {a.value : a \in {a \in NotificationAttributes : a.name = W(name)}}

maxNotificationSequenceNumber ==
  Max({0} \cup {value[2] : value \in {v \in NotificationValues("notify-sequence-number") :
                                      IsA(v, "number")}})

\* Mutant of SequenceNumberAfter: the event of that number is asked for again.
SequenceNumberAt(maxSeen, next) == IF maxSeen >= next[2] THEN Num(maxSeen) ELSE next

\* A JavaScript number goes on after the last 32-bit integer.
SequenceNumberAfter(maxSeen, next) ==
  IF maxSeen < next[2] THEN next
  ELSE IF maxSeen = LastInteger THEN Beyond ELSE Num(maxSeen + 1)

\* decideCupsNotification.
Notified ==
  /\ Accepted("poll")
  /\ Succeeds(IF K("job-state-changed") \in NotificationValues("notify-subscribed-event")
              THEN "jobs" ELSE "poll")
  /\ nextSequenceNumber' =
       SequenceNumberAfter(maxNotificationSequenceNumber, nextSequenceNumber)
  /\ UNCHANGED <<jobVars, subscription>>

\* Another user of the client.
AskOther ==
  /\ phase = "idle" /\ todo = "create"
  /\ todo' \in DOMAIN OtherRequests
  /\ UNCHANGED <<jobVars, subscription, nextSequenceNumber, wireVars, outcome>>

OtherAnswered ==
  /\ \E other \in DOMAIN OtherRequests : Accepted(other)
  /\ Succeeds("create")
  /\ UNCHANGED <<jobVars, subscription, nextSequenceNumber>>

\* The process ends at any moment and another one starts.
Restart ==
  /\ RequestOver /\ outcome' = "none"
  /\ todo' = "create" /\ subscription' = Null /\ nextSequenceNumber' = Num(1)
  /\ ForgetJobs

-----------------------------------------------------------------------------
Settle == \/ Rejected \/ Subscribed \/ NotSubscribed \/ Reconciled \/ NotReconciled
          \/ Notified \/ OtherAnswered

Next == \/ Ask \/ CannotSerialize \/ ConnectionFails \/ Answer \/ Chunk \/ End
        \/ ConnectionReset \/ ConnectionCut
        \/ Settle \/ AskOther \/ Restart

Spec == Init /\ [][Next]_exchangeVars

\* The step out of "answered": one of Settle is possible, whatever the answer says.
Handled == phase = "answered" /\ phase' = "idle"

\* CUPS answers what it is asked, what it sends arrives, and the agent goes on with
\* it.  End is possible whenever Whole is: a parser always comes to an end.
Fairness ==
  /\ WF_exchangeVars(Answer) /\ WF_exchangeVars(Chunk)
  /\ WF_phase(Whole) /\ WF_phase(Handled)

FairSpec == Spec /\ Fairness

-----------------------------------------------------------------------------
(* What an answer means *)

\* What a value means to a caller: an enum its keyword if it has one, an
\* out-of-band value nothing, or an empty string.
Meant(name, v) ==
  CASE v[1] = "integer" -> Num(v[2])
    [] v[1] = "enum" ->
         IF name = W("job-state") /\ v[2] \in DOMAIN ippEnumValues["job-state"]
         THEN K(ippEnumValues["job-state"][v[2]]) ELSE Num(v[2])
    [] v[1] = "boolean" -> Bool(v[2])
    [] v[1] = "rangeOfInteger" -> Arr(<<Num(v[2]), Num(v[3])>>)
    [] v[1] = "resolution" -> Arr(<<Num(v[2]), Num(v[3]), K(v[4])>>)
    [] v[1] \in {"textWithLanguage", "nameWithLanguage"} ->
         Str(v[2] \o <<LanguageSeparator>> \o v[3])
    [] v[1] = "no-value" -> Null
    [] v[1] \in {"unknown", "unsupported"} -> Str(<<>>)
    [] OTHER -> Str(v[2])

\* What an attribute without collections is read as.
PlainMeaning(name, values) ==
  IF Len(values) = 1 THEN Meant(name, values[1])
  ELSE Arr([i \in DOMAIN values |-> Meant(name, values[i])])

\* A group is read as it was sent, attribute by attribute.
GroupUnderstood(sent, read) ==
  /\ read.tag = sent.tag
  /\ IsSequence(read.attributes) /\ DOMAIN read.attributes = DOMAIN sent.attributes
  /\ \A i \in DOMAIN sent.attributes :
       LET name == sent.attributes[i].name
           values == sent.attributes[i].values
       IN /\ read.attributes[i].name = name
          /\ (\A k \in DOMAIN values : values[k][1] # "begCollection") =>
               read.attributes[i].value = PlainMeaning(name, values)

\* A parsed message has the status, the groups and the attributes that were sent, in
\* their order, and the values of those without collections.
Understood(message, parsed) ==
  /\ parsed.ok
  /\ parsed.statusCode = NamesOf(ippStatusCodes, message.code)
  /\ IsSequence(parsed.groups) /\ DOMAIN parsed.groups = DOMAIN message.groups
  /\ \A g \in DOMAIN message.groups : GroupUnderstood(message.groups[g], parsed.groups[g])

\* What the readers of an answer rely on: the codec reads each answer as it was sent,
\* and writeInteger throws on a number that is not a 32-bit integer.
CodecUnderstands ==
  \A operation \in DOMAIN Replies : \A answer \in Answers[operation] :
    Understood(answer, Parse(answer.bytes))
CodecRefusesBeyond ==
  \A n : n \in 1..LastInteger =>
    Throws(Serialize(getNotificationsRequest(Num(n), Beyond), RequestId))

\* The jobs of an answer, as their sender means them.
sentValues(group, word) ==
  FlattenSeq([i \in DOMAIN group.attributes |->
    IF group.attributes[i].name = W(word) THEN group.attributes[i].values ELSE <<>>])
sentCount(group, word) ==
  LET values == sentValues(group, word)
  IN IF Len(values) = 1 /\ values[1][1] = "integer" /\ values[1][2] >= 0
     THEN Num(values[1][2]) ELSE Null
sentState(group) ==
  LET values == sentValues(group, "job-state")
  IN IF Len(values) = 1 /\ values[1][2] \in DOMAIN ippEnumValues["job-state"]
     THEN K(ippEnumValues["job-state"][values[1][2]]) ELSE K("unknown")
sentReasons(group) ==
  LET values == sentValues(group, "job-state-reasons")
  IN [k \in DOMAIN values |-> Str(values[k][2])]
sentJob(group) ==
  [state |-> sentState(group),
   reasons |-> sentReasons(group),
   mediaSheetsCompleted |-> sentCount(group, "job-media-sheets-completed"),
   impressionsCompleted |-> sentCount(group, "job-impressions-completed")]

GroupsOf(tag) == {g \in DOMAIN reply.groups : reply.groups[g].tag = tag}

-----------------------------------------------------------------------------
(* Properties *)

\* Type invariant: a session has an id from CUPS once it is past subscribing, and
\* only a request under way has bytes.
TypeOK ==
  /\ todo \in {"create", "jobs", "poll"} \cup DOMAIN OtherRequests
  /\ IF todo \in {"jobs", "poll"} THEN IsA(subscription, "number") /\ subscription[2] > 0
     ELSE subscription = Null /\ nextSequenceNumber = Num(1)
  /\ \/ nextSequenceNumber = Beyond
     \/ IsA(nextSequenceNumber, "number") /\ nextSequenceNumber[2] > 0
  /\ phase \in {"idle", "connecting", "receiving", "answered", "hung"}
  /\ phase \in {"idle", "connecting"} => reply = Silence /\ received = <<>>
  /\ phase \in {"receiving", "answered", "hung"} => reply \in Answers[Request.operation]
  /\ phase # "answered" => response = Unread
  /\ outcome \in {"none", "success", "IppSerializationError", "IppTransportError", "IppParseError",
                  "IppDuplicateAttributeError", "CupsIppProtocolError"}

\* What is parsed is what CUPS sent, whatever the chunks it arrived in.
AnswerIsWhole ==
  phase = "answered" => received = reply.bytes /\ response = Parse(reply.bytes)

\* What is retained changes only with a whole answer to Get-Jobs that gives every
\* job one positive id of its own, and then it is the jobs of that answer; any
\* error, at any point of the exchange, leaves it alone.  Only a restart forgets it.
RetainedIsAnswered ==
  [][retained' # retained /\ ~ (outcome' = "none" /\ phase' = "idle") =>
       LET jobs == GroupsOf("job-attributes-tag")
       IN /\ todo = "jobs" /\ outcome' = "success" /\ reply.code < 1024
          /\ \A g \in jobs :
               LET id == sentValues(reply.groups[g], "job-id")
               IN /\ Len(id) = 1 /\ id[1][1] = "integer" /\ id[1][2] > 0
                  /\ retained'[id[1][2]] = sentJob(reply.groups[g])
          /\ Cardinality(jobs) = Cardinality(DOMAIN retained')]_exchangeVars

\* After a poll the next number is beyond every event it brought, and never lower
\* than before: no event is read twice and none is skipped.
SequenceMovesOn ==
  [][(todo = "poll" /\ outcome' = "success" /\ phase = "answered") =>
       LET events == GroupsOf("event-notification-attributes-tag")
           numbers == UNION {{value[2] : value \in ToSet(sentValues(reply.groups[g],
                                "notify-sequence-number"))} : g \in events}
           highest == Max(numbers \cup {nextSequenceNumber[2] - 1})
       IN nextSequenceNumber' =
            IF highest = LastInteger THEN Beyond ELSE Num(highest + 1)]_exchangeVars

\* A request settles, one way or another, unless the connection is cut while the
\* answer arrives: nothing in the client notices that.
SettlesUnlessCut == phase # "idle" ~> phase \in {"idle", "hung"}
=============================================================================
