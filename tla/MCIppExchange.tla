---------------------------- MODULE MCIppExchange ----------------------------
(* A small instance of IppExchange: the answers CUPS may give, and two other   *)
(* users of the client.                                                      *)
EXTENDS IppAnswers

AheadOfUtc == -330   \* five hours and a half

Attribute(word, values) == [name |-> W(word), values |-> values]
Group(tag, attributes) == [tag |-> tag, attributes |-> attributes]
Reply(code, groups) ==
  [code |-> code, data |-> <<>>,
   groups |-> <<Group("operation-attributes-tag",
                      <<Attribute("attributes-charset", <<<<"charset", W("utf-8")>>>>),
                        Attribute("attributes-natural-language",
                                  <<<<"naturalLanguage", W("en")>>>>)>>)>> \o groups]

Subscription(ids) ==
  Group("subscription-attributes-tag",
        [i \in DOMAIN ids |-> Attribute("notify-subscription-id", <<<<"integer", ids[i]>>>>)])

Job(id, state, why, sheets) ==
  Group("job-attributes-tag",
        <<Attribute("job-id", <<<<"integer", id>>>>),
          Attribute("job-state", <<<<"enum", state>>>>),
          Attribute("job-state-reasons", [i \in DOMAIN why |-> <<"keyword", W(why[i])>>]),
          Attribute("job-media-sheets-completed", <<sheets>>)>>)

Event(number, kind) ==
  Group("event-notification-attributes-tag",
        <<Attribute("notify-sequence-number", <<<<"integer", number>>>>),
          Attribute("notify-subscribed-event", <<<<"keyword", W(kind)>>>>)>>)

\* An attribute of every syntax that an answer may have, with sets, a collection in a
\* collection and characters of two bytes.
Everything ==
  Group("printer-attributes-tag",
        <<Attribute("media-col",
            <<<<"begCollection",
                <<Attribute("media-size",
                    <<<<"begCollection", <<Attribute("x-dimension",
                                                     <<<<"integer", -7>>, <<"integer", 21000>>>>)>>>>>>),
                  Attribute("none", <<<<"keyword", W("none")>>>>)>>>>,
              <<"begCollection", <<>>>>>>),
          Attribute("page-ranges", <<<<"rangeOfInteger", 1, 2147483647>>, <<"rangeOfInteger", -1, 3>>>>),
          Attribute("printer-resolution", <<<<"resolution", 600, 300, "dpi">>>>),
          Attribute("status-message", <<<<"textWithLanguage", W("en"), <<233, 70>>>>,
                                        <<"textWithoutLanguage", <<>>>>>>),
          Attribute("notify-wait", <<<<"boolean", TRUE>>>>),
          Attribute("media-col-database", <<<<"unknown">>>>),
          Attribute("copies", <<<<"no-value">>>>)>>)

MCReplies ==
  "Create-Printer-Subscriptions" :>
    {Reply(0, <<Subscription(<<7>>)>>), Reply(1, <<Subscription(<<>>)>>),
     Reply(0, <<Subscription(<<7>>), Subscription(<<8>>)>>), Reply(0, <<Subscription(<<0>>)>>),
     Reply(1045, <<>>)}
  @@ "Get-Jobs" :>
    {Reply(0, <<>>), Reply(0, <<Job(1, 5, <<"job-printing">>, <<"integer", 0>>)>>),
     Reply(1, <<Job(1, 9, <<"none">>, <<"integer", 2>>), Job(2, 5, <<"none">>, <<"no-value">>)>>),
     Reply(2, <<Job(2, 99, <<"none", "job-printing">>, <<"integer", -1>>), Everything>>),
     Reply(0, <<Job(1, 9, <<"none">>, <<"integer", 0>>)>>),
     Reply(0, <<Job(1, 5, <<"none">>, <<"integer", 0>>), Job(1, 9, <<"none">>, <<"integer", 1>>)>>),
     Reply(0, <<Job(0, 5, <<"none">>, <<"integer", 0>>)>>),
     Reply(0, <<Group("job-attributes-tag", <<Attribute("job-state", <<<<"enum", 5>>>>)>>)>>),
     Reply(0, <<Group("job-attributes-tag",
                      <<Attribute("job-id", <<<<"integer", 1>>>>),
                        Attribute("job-id", <<<<"integer", 2>>>>)>>)>>),
     Reply(1282, <<Job(2, 9, <<"none">>, <<"integer", 1>>)>>)}
  @@ "Get-Notifications" :>
    {Reply(0, <<>>), Reply(0, <<Event(1, "job-state-changed"), Event(2, "printer-state-changed")>>),
     Reply(0, <<Event(2, "printer-state-changed"), Event(1, "printer-state-changed")>>),
     Reply(0, <<Event(2147483647, "job-state-changed")>>), Reply(1030, <<>>)}
  @@ "Print-Job" :> {[Reply(0, <<>>) EXCEPT !.data = <<0, 255>>]}
  @@ "Cancel-Subscription" :> {Reply(0, <<>>)}

\* A job with an attribute of each syntax, in an order of its own.
Submission(user, message) ==
  [operation |-> "Print-Job", data |-> <<3, 0>>,
   groups |->
     "operation-attributes-tag" :>
       <<<<W("status-message"), message>>, <<W("job-id"), Num(2147483647)>>,
         <<W("requesting-user-name"), user>>, <<W("printer-uri"), K("ipp://queue")>>,
         <<W("job-uri"), K("ipp://queue")>>, <<W("requested-attributes"), Arr(<<>>)>>>>
     @@ "job-attributes-tag" :>
       <<<<W("job-state"), K("pending")>>, <<W("copies"), Num(-2147483647 - 1)>>,
         <<W("job-hold-until-time"), Date(2024, 2, 20000, 599)>>,
         <<W("printer-resolution"), Arr(<<Num(600), Num(300), K("dpcm")>>)>>>>
     @@ "printer-attributes-tag" :> <<<<W("media-col-database"), Str(<<65, 233>>)>>>>]

MCOtherRequests ==
  "submit" :> Submission(Str(<<233, 70>>), Str(<<>>))
  @@ "cancel" :> cancelSubscriptionRequest(Num(7))
  @@ "unlisted" :> [operation |-> "Print-Job", data |-> <<>>,
                    groups |-> "operation-attributes-tag" :> <<<<W("copies"), Num(1)>>>>]

\* CodecRefusesBeyond, for a small id, the one of the answers above and the last one;
\* BeyondIsRefused of IppCodecProofs is the same for every id.  CodecUnderstands is what
\* AnswerIsUnderstood checks of every answer.
ASSUME CodecRefuses ==
  \A n \in {1, 7, LastInteger} :
    Throws(serializeIppRequest(getNotificationsRequest(Num(n), Beyond), RequestId))
=============================================================================
