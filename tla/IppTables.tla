------------------------------ MODULE IppTables ------------------------------
(***************************************************************************)
(* The values and the tables of packages/ipp (model.ts, tables.ts), cut to  *)
(* the operations, statuses, attributes and enumerations that the agent's   *)
(* requests and CUPS' answers need, and an attribute of every syntax.       *)
(*                                                                         *)
(* A string of the program is a sequence of characters, each a number.      *)
(* What a name or keyword says does not matter, only which one it is: every *)
(* word below is spelled with one printable ASCII character of its own.     *)
(***************************************************************************)
EXTENDS Integers, SequencesExt

Words ==
  << \* names of attributes
     "attributes-charset", "attributes-natural-language", "printer-uri", "job-id", "job-uri",
     "requesting-user-name", "which-jobs", "requested-attributes", "notify-subscription-ids",
     "notify-subscription-id", "notify-sequence-numbers", "notify-wait", "notify-pull-method",
     "notify-events", "notify-lease-duration", "status-message", "job-state",
     "job-state-reasons", "job-media-sheets-completed", "job-impressions-completed",
     "notify-sequence-number", "notify-subscribed-event", "notify-get-interval", "copies",
     "job-hold-until-time", "printer-resolution", "page-ranges", "media-col",
     "media-size", "x-dimension", "media-col-database",
     \* values
     "utf-8", "en", "ipp://queue", "agent", "all", "none", "ippget", "dpi", "dpcm",
     "printer-state-changed", "job-state-changed", "job-printing",
     "pending", "processing", "canceled", "aborted", "completed", "unknown" >>

Spelling == [word \in {Words[i] : i \in DOMAIN Words} |->
               <<32 + (CHOOSE i \in DOMAIN Words : Words[i] = word)>>]
W(word) == Spelling[word]

\* The words a program table lists under a string, or none.
Unspelled(string) == {word \in DOMAIN Spelling : Spelling[word] = string}

-----------------------------------------------------------------------------
\* The values of attributes (model.ts): tuples that begin with the type.
Str(chars) == <<"string", chars>>
Num(n) == <<"number", n>>
LastInteger == 2147483647          \* of 32 bits
Beyond == <<"beyond">>             \* a number, but not a 32-bit integer
Bool(b) == <<"boolean", b>>
Null == <<"null">>
Arr(items) == <<"array", items>>
Coll(members) == <<"collection", members>>
\* A Date, by its month, the minutes since that month began in UTC, and the
\* deciseconds of the minute.
Date(year, month, minutes, deciseconds) == <<"date", year, month, minutes, deciseconds>>

IsA(value, type) == value[1] = type
K(word) == Str(W(word))

\* The elements of a sequence at some of its places, in their order: SelectSeq, which
\* the provers cannot expand.
Only(s, places) == FlattenSeq([i \in DOMAIN s |-> IF i \in places THEN <<s[i]>> ELSE <<>>])

-----------------------------------------------------------------------------
\* A table, by its rows: a key and what it stands for.
Table(rows) ==
  [key \in {row[1] : row \in rows} |-> (CHOOSE row \in rows : row[1] = key)[2]]

ippVersions == Table({<<"1.0", 256>>, <<"1.1", 257>>, <<"2.0", 512>>, <<"2.1", 513>>})

ippOperations ==
  Table({<<"Print-Job", 2>>, <<"Get-Jobs", 10>>, <<"Create-Printer-Subscriptions", 22>>,
         <<"Cancel-Subscription", 27>>, <<"Get-Notifications", 28>>})

ippStatusCodes ==
  Table({<<"successful-ok", 0>>, <<"successful-ok-ignored-or-substituted-attributes", 1>>,
         <<"successful-ok-conflicting-attributes", 2>>, <<"client-error-not-found", 1030>>,
         <<"client-error-too-many-subscriptions", 1045>>,
         <<"server-error-service-unavailable", 1282>>})

Successes == {"successful-ok", "successful-ok-ignored-or-substituted-attributes",
              "successful-ok-conflicting-attributes"}

GroupTags ==
  Table({<<"operation-attributes-tag", 1>>, <<"job-attributes-tag", 2>>,
         <<"end-of-attributes-tag", 3>>, <<"printer-attributes-tag", 4>>,
         <<"unsupported-attributes-tag", 5>>, <<"subscription-attributes-tag", 6>>,
         <<"event-notification-attributes-tag", 7>>})

ValueTags ==
  Table({<<"unsupported", 16>>, <<"unknown", 18>>, <<"no-value", 19>>, <<"integer", 33>>,
         <<"boolean", 34>>, <<"enum", 35>>, <<"octetString", 48>>, <<"dateTime", 49>>,
         <<"resolution", 50>>, <<"rangeOfInteger", 51>>, <<"begCollection", 52>>,
         <<"textWithLanguage", 53>>, <<"nameWithLanguage", 54>>, <<"endCollection", 55>>,
         <<"textWithoutLanguage", 65>>, <<"nameWithoutLanguage", 66>>, <<"keyword", 68>>,
         <<"uri", 69>>, <<"charset", 71>>, <<"naturalLanguage", 72>>, <<"memberAttrName", 74>>})

ippTags == [name \in DOMAIN GroupTags \cup DOMAIN ValueTags |->
              IF name \in DOMAIN GroupTags THEN GroupTags[name] ELSE ValueTags[name]]

\* reverseLookup: the names a code stands for, at most one in each table.
NamesOf(table, code) == {name \in DOMAIN table : table[name] = code}

ippEnumValues ==
  [attribute \in {"job-state"} |->
     Table({<<3, "pending">>, <<5, "processing">>, <<7, "canceled">>, <<8, "aborted">>,
            <<9, "completed">>})]

-----------------------------------------------------------------------------
\* The syntax of the attributes a request may have, by group.
groupAttributeSyntax ==
  Table({
    <<"operation-attributes-tag",
      Table({<<"attributes-charset", "charset">>, <<"attributes-natural-language", "naturalLanguage">>,
             <<"printer-uri", "uri">>, <<"job-uri", "uri">>, <<"job-id", "integer">>,
             <<"requesting-user-name", "name">>, <<"which-jobs", "keyword">>,
             <<"requested-attributes", "keyword">>, <<"notify-subscription-id", "integer">>,
             <<"notify-subscription-ids", "integer">>, <<"notify-sequence-numbers", "integer">>,
             <<"notify-wait", "boolean">>, <<"status-message", "text">>})>>,
    <<"job-attributes-tag",
      Table({<<"copies", "integer">>, <<"job-id", "integer">>, <<"job-state", "enum">>,
             <<"job-state-reasons", "keyword">>, <<"job-hold-until-time", "dateTime">>,
             <<"printer-resolution", "resolution">>})>>,
    <<"printer-attributes-tag", Table({<<"media-col-database", "octetString">>})>>,
    <<"subscription-attributes-tag",
      Table({<<"notify-pull-method", "keyword">>, <<"notify-events", "keyword">>,
             <<"notify-lease-duration", "integer">>, <<"notify-subscription-id", "integer">>})>>})

orderedRequestGroups ==
  <<"operation-attributes-tag", "job-attributes-tag", "printer-attributes-tag",
    "subscription-attributes-tag">>
=============================================================================
