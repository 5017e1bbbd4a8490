-------------------------- MODULE IppExchangeProofs --------------------------
(***************************************************************************)
(* Proofs about JobReconciliation and IppExchange, for any answers of CUPS, *)
(* any requests, any chunks and any codec; and about IppWire, with the      *)
(* codec of packages/ipp.                                                  *)
(*                                                                         *)
(* What the codec makes of an answer is a hypothesis where a theorem needs  *)
(* it (CodecUnderstands, CodecRefusesBeyond, CodecWrites).  What is proved is that *)
(* everything around it - the chunks, the errors, the readers of the        *)
(* answers, the retained map and the sequence number - keeps what the codec *)
(* understood.  ToldIsRetained is inductive: in an accepted response a job   *)
(* that changed is published as it is now, and one that did not was told     *)
(* before and is the same, because sameObservation compares every field.    *)
(***************************************************************************)
EXTENDS IppCodecProofs

-----------------------------------------------------------------------------
(* The jobs an agent retains (JobReconciliation) *)

\* The fields reconcileRetainedCupsJobs gives an observation.
IsObservation(o) ==
  o = [state |-> o.state, reasons |-> o.reasons,
       mediaSheetsCompleted |-> o.mediaSheetsCompleted,
       impressionsCompleted |-> o.impressionsCompleted]

\* What is retained are observations.
RetainedObservations == \A id \in DOMAIN retained : IsObservation(retained[id])

Inv == RetainedObservations /\ ToldIsRetained

-----------------------------------------------------------------------------
\* Observations that sameObservation takes for the same are the same.
LEMMA SameIsEqual ==
  ASSUME NEW left, NEW right, IsObservation(left), IsObservation(right),
         sameObservation(left, right)
  PROVE  left = right
  BY DEF IsObservation, sameObservation

\* What the reconciliation makes of a group is an observation.
LEMMA CurrentAreObservations ==
  ASSUME NEW groups, NEW id \in DOMAIN currentJobs(groups)
  PROVE  IsObservation(currentJobs(groups)[id])
<1> DEFINE group == groups[CHOOSE g \in DOMAIN groups : jobId(groups[g])[2] = id]
<1>1. currentJobs(groups)[id] = CupsJobObservation(group)
  BY DEF currentJobs
<1>2. IsObservation(CupsJobObservation(group))
  BY DEF IsObservation, CupsJobObservation
<1> QED BY <1>1, <1>2

\* A job that is not among the changed ones was there before, and is the same.
LEMMA UnchangedIsSame ==
  ASSUME NEW previous, NEW current, NEW id \in DOMAIN current,
         id \notin changedJobs(previous, current),
         \A i \in DOMAIN previous : IsObservation(previous[i]),
         \A i \in DOMAIN current : IsObservation(current[i])
  PROVE  id \in DOMAIN previous /\ previous[id] = current[id]
<1>1. id \in DOMAIN previous /\ sameObservation(previous[id], current[id])
  BY DEF changedJobs
<1> QED BY <1>1, SameIsEqual

-----------------------------------------------------------------------------
\* An agent that knows no job has nothing to tell.
LEMMA JobsInitInv == JobsInit => Inv
  BY DEF JobsInit, NoJobs, Inv, RetainedObservations, ToldIsRetained

\* An accepted answer keeps the invariant.
LEMMA ObserveInv ==
  ASSUME Inv, NEW answer, Observe(answer)
  PROVE  Inv'
<1> DEFINE current == currentJobs(attributeGroups(answer, "job-attributes-tag"))
           changed == changedJobs(retained, current)
<1>1. /\ retained' = current
      /\ told' = [id \in DOMAIN told \cup changed |->
                    IF id \in changed THEN Published(current[id]) ELSE told[id]]
  BY DEF Observe
<1>2. \A id \in DOMAIN current : IsObservation(current[id])
  BY CurrentAreObservations
<1>3. RetainedObservations'
  BY <1>1, <1>2 DEF RetainedObservations
<1>4. ASSUME NEW id \in DOMAIN current
      PROVE  id \in DOMAIN told' /\ told'[id] = Published(current[id])
  <2>1. CASE id \in changed
    BY <2>1, <1>1
  <2>2. CASE id \notin changed
    <3>1. id \in DOMAIN retained /\ retained[id] = current[id]
      BY <2>2, <1>2, UnchangedIsSame DEF Inv, RetainedObservations
    <3>2. id \in DOMAIN told /\ told[id] = Published(retained[id])
      BY <3>1 DEF Inv, ToldIsRetained
    <3> QED BY <2>2, <3>1, <3>2, <1>1
  <2> QED BY <2>1, <2>2
<1>5. ToldIsRetained'
  BY <1>1, <1>4 DEF ToldIsRetained
<1> QED BY <1>3, <1>5 DEF Inv

\* Every step keeps the invariant.
LEMMA JobsNextInv == Inv /\ [JobsNext]_jobVars => Inv'
<1> SUFFICES ASSUME Inv, [JobsNext]_jobVars PROVE Inv'
  OBVIOUS
<1>1. CASE \E answer : Observe(answer)
  BY <1>1, ObserveInv
<1>2. CASE ForgetJobs
  BY <1>2 DEF ForgetJobs, NoJobs, Inv, RetainedObservations, ToldIsRetained
<1>3. CASE UNCHANGED jobVars
  BY <1>3 DEF jobVars, Inv, RetainedObservations, ToldIsRetained
<1> QED BY <1>1, <1>2, <1>3 DEF JobsNext

\* After any responses and restarts the events published last about a retained
\* job, the observation and its accounting anomaly, are those of the job as it is
\* retained now (observeRetainedJobs).
THEOREM ReadersAlwaysKnow == JobsSpec => []ToldIsRetained
<1>1. JobsSpec => []Inv
  BY JobsInitInv, JobsNextInv, PTL DEF JobsSpec
<1>2. Inv => ToldIsRetained
  BY DEF Inv
<1> QED BY <1>1, <1>2, PTL

-----------------------------------------------------------------------------
(* Greatest numbers *)

\* A bounded set of integers has a greatest one, and Max is it.
LEMMA MaxIsGreatest ==
  ASSUME NEW S, S \subseteq Int, S # {}, NEW bound \in Int, \A x \in S : x <= bound
  PROVE  Max(S) \in S /\ \A x \in S : x <= Max(S)
<1> DEFINE Below == {bound - x : x \in S}
<1>1. Below \subseteq Nat
  OBVIOUS
<1>2. PICK least \in Below : \A y \in Below : least <= y
  BY <1>1, LeastNumber
<1>3. PICK greatest \in S : least = bound - greatest
  BY <1>2
<1>4. \A x \in S : bound - greatest <= bound - x
  BY <1>2, <1>3
<1>5. \A x \in S : greatest >= x
  BY <1>4
<1> QED BY <1>5 DEF Max

-----------------------------------------------------------------------------
(* What the agent reads in a group is what was sent in it *)

\* No name comes twice among these attributes.
Distinct(attributes) ==
  \A i, j \in DOMAIN attributes : attributes[i].name = attributes[j].name => i = j

\* The words of ReadSyntax, and the values each of them allows.
LEMMA Allowed ==
  /\ DOMAIN ReadSyntax =
       {"job-id", "job-state", "job-state-reasons", "job-media-sheets-completed",
        "job-impressions-completed", "notify-sequence-number"}
  /\ ReadSyntax["job-id"] = {"integer"} /\ ReadSyntax["job-state"] = {"enum"}
  /\ ReadSyntax["job-state-reasons"] = {"keyword"}
  /\ ReadSyntax["job-media-sheets-completed"] = {"integer", "no-value"}
  /\ ReadSyntax["job-impressions-completed"] = {"integer", "no-value"}
  /\ ReadSyntax["notify-sequence-number"] = {"integer"}
  BY DEF ReadSyntax, Table

\* What these values mean is never an array.
LEMMA MeantOne ==
  ASSUME NEW name, NEW v, v[1] \in {"integer", "enum", "keyword", "no-value"}
  PROVE  /\ ~ IsA(Meant(name, v), "array")
         /\ v[1] = "integer" => Meant(name, v) = Num(v[2])
         /\ v[1] = "keyword" => Meant(name, v) = Str(v[2])
         /\ v[1] = "no-value" => Meant(name, v) = Null
         /\ v[1] = "enum" =>
              Meant(name, v) =
                IF name = W("job-state") /\ v[2] \in DOMAIN ippEnumValues["job-state"]
                THEN K(ippEnumValues["job-state"][v[2]]) ELSE Num(v[2])
  BY DEF Meant, IsA, Num, Str, Null, K

\* The values of an attribute that the agent reads: one value for each that was sent.
LEMMA AttributeRead ==
  ASSUME NEW sent, NEW read, WellFormed(sent), GroupUnderstood(sent, read),
         NEW word \in DOMAIN ReadSyntax, NEW i \in DOMAIN sent.attributes,
         sent.attributes[i].name = W(word)
  PROVE  LET values == sent.attributes[i].values
             value == read.attributes[i].value
         IN /\ values \in Seq(ToSet(values)) /\ Len(values) > 0
            /\ \A k \in DOMAIN values : values[k][1] \in ReadSyntax[word]
            /\ Len(values) = 1 => value = Meant(W(word), values[1]) /\ ~ IsA(value, "array")
            /\ Len(values) # 1 => value = Arr([k \in DOMAIN values |-> Meant(W(word), values[k])])
<1> DEFINE values == sent.attributes[i].values
           value == read.attributes[i].value
<1>1. /\ values \in Seq(ToSet(values)) /\ values # <<>>
      /\ \A k \in DOMAIN values : values[k][1] \in ReadSyntax[word]
  BY DEF WellFormed, IsSequence
<1>2. \A k \in DOMAIN values : values[k][1] \in {"integer", "enum", "keyword", "no-value"}
  BY <1>1, Allowed
<1>3. value = PlainMeaning(W(word), values)
  <2>1. (\A k \in DOMAIN values : values[k][1] # "begCollection") =>
          value = PlainMeaning(sent.attributes[i].name, values)
    BY DEF GroupUnderstood
  <2> QED BY <2>1, <1>2
<1> HIDE DEF values, value
<1>4. Len(values) > 0
  BY <1>1
<1>5. CASE Len(values) = 1
  <2>1. 1 \in DOMAIN values
    BY <1>1, <1>5
  <2>2. ~ IsA(Meant(W(word), values[1]), "array")
    BY <2>1, <1>2, MeantOne
  <2> QED BY <1>1, <1>3, <1>4, <1>5, <2>2 DEF PlainMeaning, values, value
<1>6. CASE Len(values) # 1
  BY <1>1, <1>3, <1>4, <1>6 DEF PlainMeaning, values, value
<1> QED BY <1>5, <1>6

\* What was sent under a name that comes once are the values of that attribute.
LEMMA SentOne ==
  ASSUME NEW sent, WellFormed(sent), Distinct(sent.attributes), NEW word
  PROVE  /\ \A i \in DOMAIN sent.attributes :
              sent.attributes[i].name = W(word) =>
                sentValues(sent, word) = sent.attributes[i].values
         /\ (\A i \in DOMAIN sent.attributes : sent.attributes[i].name # W(word)) =>
              sentValues(sent, word) = <<>>
<1> DEFINE parts == [i \in DOMAIN sent.attributes |->
                       IF sent.attributes[i].name = W(word) THEN sent.attributes[i].values ELSE <<>>]
<1>1. /\ DOMAIN sent.attributes = 1..Len(sent.attributes) /\ Len(sent.attributes) \in Nat
      /\ Len(parts) = Len(sent.attributes)
  <2>1. sent.attributes \in Seq(ToSet(sent.attributes))
    BY DEF WellFormed, IsSequence
  <2> QED BY <2>1
<1>2. sentValues(sent, word) = FlattenSeq(parts)
  BY DEF sentValues
<1>3. ASSUME NEW i \in DOMAIN sent.attributes, sent.attributes[i].name = W(word)
      PROVE  sentValues(sent, word) = sent.attributes[i].values
  <2> DEFINE values == sent.attributes[i].values
  <2>1. values \in Seq(ToSet(values))
    BY DEF WellFormed, IsSequence
  <2>2. /\ \A j \in DOMAIN sent.attributes \ {i} : parts[j] = <<>>
        /\ parts[i] = values
    BY <1>3 DEF Distinct
  <2>3. parts \in Seq(Seq(ToSet(values))) /\ i \in DOMAIN parts
    <3> HIDE DEF values
    <3>1. <<>> \in Seq(ToSet(values))
      OBVIOUS
    <3>2. parts = [j \in DOMAIN sent.attributes |-> parts[j]]
      OBVIOUS
    <3> HIDE DEF parts
    <3>3. \A j \in DOMAIN sent.attributes : parts[j] \in Seq(ToSet(values))
      BY <2>1, <2>2, <3>1
    <3>4. parts \in [1..Len(sent.attributes) -> Seq(ToSet(values))]
      BY <1>1, <3>2, <3>3
    <3> QED BY <1>1, <3>4
  <2> HIDE DEF values
  <2>4. \A j \in DOMAIN parts \ {i} : parts[j] = <<>>
    BY <2>2
  <2> HIDE DEF parts
  <2>5. FlattenSeq(parts) = values
    BY <2>2, <2>3, <2>4, FlattenOne
  <2> QED BY <1>2, <2>5 DEF values
<1>4. ASSUME \A i \in DOMAIN sent.attributes : sent.attributes[i].name # W(word)
      PROVE  sentValues(sent, word) = <<>>
  <2>1. \A i \in DOMAIN sent.attributes : parts[i] = <<>>
    BY <1>4
  <2>2. Len(sent.attributes) = 0 => parts = <<>>
    BY <1>1
  <2> HIDE DEF parts
  <2>3. CASE Len(parts) = 0
    BY <1>1, <1>2, <2>2, <2>3 DEF FlattenSeq
  <2>4. CASE Len(parts) # 0
    BY <1>1, <1>2, <2>1, <2>4, FlattenNone
  <2> QED BY <2>3, <2>4
<1> QED BY <1>3, <1>4

\* What flattenedValues gives of such an attribute is what was sent, value by value.
LEMMA ValuesRead ==
  ASSUME NEW sent, NEW read, WellFormed(sent), GroupUnderstood(sent, read),
         Distinct(read.attributes), NEW word \in DOMAIN ReadSyntax
  PROVE  LET values == sentValues(sent, word)
         IN /\ values \in Seq(ToSet(values))
            /\ \A k \in DOMAIN values : values[k][1] \in ReadSyntax[word]
            /\ flattenedValues(read, word) = [k \in DOMAIN values |-> Meant(W(word), values[k])]
<1> DEFINE places == {i \in DOMAIN read.attributes : read.attributes[i].name = W(word)}
           named == Only(read.attributes, places)
           Flat(v) == IF IsA(v, "array") THEN v[2] ELSE <<v>>
<1>1. /\ sent.attributes \in Seq(ToSet(sent.attributes))
      /\ read.attributes \in Seq(ToSet(read.attributes))
      /\ DOMAIN read.attributes = DOMAIN sent.attributes
      /\ \A i \in DOMAIN sent.attributes : read.attributes[i].name = sent.attributes[i].name
  BY SMTT(30) DEF WellFormed, GroupUnderstood, IsSequence
<1>2. flattenedValues(read, word) = FlattenSeq([j \in DOMAIN named |-> Flat(named[j].value)])
  <2>1. attributeValues(read, word) = [j \in DOMAIN named |-> named[j].value]
    BY DEF attributeValues
  <2>2. [j \in DOMAIN attributeValues(read, word) |->
           IF IsA(attributeValues(read, word)[j], "array") THEN attributeValues(read, word)[j][2]
           ELSE <<attributeValues(read, word)[j]>>]
        = [j \in DOMAIN named |-> Flat(named[j].value)]
    BY <2>1
  <2> QED BY <2>2 DEF flattenedValues
<1>3. Distinct(sent.attributes)
  BY <1>1 DEF Distinct
<1>4. CASE places = {}
  <2>1. named = <<>>
    BY <1>1, <1>4, OnlyNone
  <2>2. flattenedValues(read, word) = <<>>
    <3> HIDE DEF named, Flat
    <3>1. [j \in DOMAIN named |-> Flat(named[j].value)] = <<>>
      BY <2>1
    <3> QED BY <1>2, <3>1 DEF FlattenSeq
  <2>3. sentValues(sent, word) = <<>>
    BY <1>1, <1>3, <1>4, SentOne
  <2> QED BY <2>2, <2>3
<1>5. ASSUME NEW i \in places
      PROVE  LET values == sentValues(sent, word)
             IN /\ values \in Seq(ToSet(values))
                /\ \A k \in DOMAIN values : values[k][1] \in ReadSyntax[word]
                /\ flattenedValues(read, word) =
                     [k \in DOMAIN values |-> Meant(W(word), values[k])]
  <2> DEFINE values == sent.attributes[i].values
             meant == [k \in DOMAIN values |-> Meant(W(word), values[k])]
             value == read.attributes[i].value
  <2>1. i \in DOMAIN sent.attributes /\ sent.attributes[i].name = W(word)
    BY <1>1
  <2>2. /\ values \in Seq(ToSet(values)) /\ Len(values) > 0
        /\ \A k \in DOMAIN values : values[k][1] \in ReadSyntax[word]
        /\ Len(values) = 1 => value = Meant(W(word), values[1]) /\ ~ IsA(value, "array")
        /\ Len(values) # 1 => value = Arr(meant)
    BY <2>1, AttributeRead
  <2>3. places = {i}
    BY DEF Distinct
  <2>4. sentValues(sent, word) = values
    BY <1>3, <2>1, SentOne
  <2>5. flattenedValues(read, word) = meant
    <3>1. named = <<read.attributes[i]>>
      BY <1>1, <2>3, OnlyOne, SMTT(30)
    <3>2. [j \in DOMAIN named |-> Flat(named[j].value)] = <<Flat(value)>>
      BY <3>1
    <3>3. Flat(value) = meant
      <4>1. CASE Len(values) = 1
        <5>1. value = Meant(W(word), values[1]) /\ Flat(value) = <<value>>
          BY <2>2, <4>1
        <5>2. DOMAIN values = 1..1
          BY <2>2, <4>1
        <5> QED BY <5>1, <5>2
      <4>2. CASE Len(values) # 1
        BY <2>2, <4>2 DEF Arr, IsA
      <4> QED BY <4>1, <4>2
    <3>4. meant \in Seq(ToSet(meant))
      <4>1. DOMAIN values = 1..Len(values) /\ Len(values) \in Nat
        BY <2>2
      <4>2. meant \in [1..Len(values) -> ToSet(meant)]
        BY <4>1 DEF ToSet
      <4> QED BY <4>1, <4>2
    <3> HIDE DEF named, Flat, value, meant
    <3>5. FlattenSeq(<<meant>>) = meant
      BY <3>4, FlattenAlone
    <3> QED BY <1>2, <3>2, <3>3, <3>5
  <2> QED BY <2>2, <2>4, <2>5
<1> QED BY <1>4, <1>5

\* A single value is read as what the one value sent means.
LEMMA SingleRead ==
  ASSUME NEW sent, NEW read, WellFormed(sent), GroupUnderstood(sent, read),
         Distinct(read.attributes), NEW word \in DOMAIN ReadSyntax
  PROVE  LET values == sentValues(sent, word)
         IN /\ Len(values) \in Nat /\ DOMAIN values = 1..Len(values)
            /\ singleValue(read, word) =
                 IF Len(values) = 1 THEN Meant(W(word), values[1]) ELSE <<"undefined">>
            /\ Len(values) = 1 => values[1][1] \in ReadSyntax[word]
<1> DEFINE values == sentValues(sent, word)
<1>1. /\ values \in Seq(ToSet(values))
      /\ \A k \in DOMAIN values : values[k][1] \in ReadSyntax[word]
      /\ flattenedValues(read, word) = [k \in DOMAIN values |-> Meant(W(word), values[k])]
  BY ValuesRead
<1> HIDE DEF values
<1>2. Len(values) \in Nat /\ DOMAIN values = 1..Len(values)
  BY <1>1
<1>3. Len(flattenedValues(read, word)) = Len(values)
  BY <1>1, <1>2
<1>4. CASE Len(values) = 1
  <2>1. 1 \in DOMAIN values
    BY <1>2, <1>4
  <2> QED BY <1>1, <1>2, <1>3, <1>4, <2>1 DEF singleValue, values
<1>5. CASE Len(values) # 1
  BY <1>2, <1>3, <1>5 DEF singleValue, values
<1> QED BY <1>4, <1>5

\* A count is the integer that was sent, if one was and it is not negative.
LEMMA CountRead ==
  ASSUME NEW sent, NEW read, WellFormed(sent), GroupUnderstood(sent, read),
         Distinct(read.attributes),
         NEW word \in {"job-media-sheets-completed", "job-impressions-completed"}
  PROVE  nonNegativeInteger(read, word) = sentCount(sent, word)
<1> DEFINE values == sentValues(sent, word)
<1>1. word \in DOMAIN ReadSyntax /\ ReadSyntax[word] = {"integer", "no-value"}
  BY Allowed
<1>2. /\ singleValue(read, word) =
           IF Len(values) = 1 THEN Meant(W(word), values[1]) ELSE <<"undefined">>
      /\ Len(values) = 1 => values[1][1] \in {"integer", "no-value"}
  BY <1>1, SingleRead
<1>3. sentCount(sent, word) =
        IF Len(values) = 1 /\ values[1][1] = "integer" /\ values[1][2] >= 0
        THEN Num(values[1][2]) ELSE Null
  BY DEF sentCount
<1> HIDE DEF values
<1>4. CASE Len(values) # 1
  BY <1>2, <1>3, <1>4 DEF nonNegativeInteger, IsA
<1>5. CASE Len(values) = 1 /\ values[1][1] = "integer"
  <2>1. singleValue(read, word) = Num(values[1][2])
    BY <1>2, <1>5, MeantOne
  <2> QED BY <1>3, <1>5, <2>1 DEF nonNegativeInteger, IsA, Num
<1>6. CASE Len(values) = 1 /\ values[1][1] = "no-value"
  <2>1. singleValue(read, word) = Null
    BY <1>2, <1>6, MeantOne
  <2> QED BY <1>3, <1>6, <2>1 DEF nonNegativeInteger, IsA, Null
<1> QED BY <1>2, <1>4, <1>5, <1>6

\* The states of the table are states the agent knows.
LEMMA StatesKnown ==
  \A code \in DOMAIN ippEnumValues["job-state"] :
    K(ippEnumValues["job-state"][code]) \in CupsJobStates
<1>1. ippEnumValues["job-state"] =
        Table({<<3, "pending">>, <<5, "processing">>, <<7, "canceled">>, <<8, "aborted">>,
               <<9, "completed">>})
  BY DEF ippEnumValues
<1>2. \A code \in DOMAIN ippEnumValues["job-state"] :
        ippEnumValues["job-state"][code] \in
          {"pending", "processing", "canceled", "aborted", "completed"}
  BY <1>1 DEF Table
<1> QED BY <1>2 DEF CupsJobStates

\* A state is the one that was sent, if the table lists it.
LEMMA StateRead ==
  ASSUME NEW sent, NEW read, WellFormed(sent), GroupUnderstood(sent, read),
         Distinct(read.attributes)
  PROVE  jobState(read) = sentState(sent)
<1> DEFINE values == sentValues(sent, "job-state")
           listed == ippEnumValues["job-state"]
<1>1. "job-state" \in DOMAIN ReadSyntax /\ ReadSyntax["job-state"] = {"enum"}
  BY Allowed
<1>2. /\ singleValue(read, "job-state") =
           IF Len(values) = 1 THEN Meant(W("job-state"), values[1]) ELSE <<"undefined">>
      /\ Len(values) = 1 => values[1][1] = "enum"
  BY <1>1, SingleRead
<1>3. sentState(sent) = IF Len(values) = 1 /\ values[1][2] \in DOMAIN listed
                        THEN K(listed[values[1][2]]) ELSE K("unknown")
  BY DEF sentState
<1> HIDE DEF values, listed
<1>4. CASE Len(values) # 1
  <2>1. <<"undefined">> \notin CupsJobStates
    BY DEF CupsJobStates, K, Str
  <2> QED BY <1>2, <1>3, <1>4, <2>1 DEF jobState
<1>5. CASE Len(values) = 1 /\ values[1][2] \in DOMAIN listed
  <2>1. singleValue(read, "job-state") = K(listed[values[1][2]])
    BY <1>2, <1>5, MeantOne DEF listed
  <2>2. K(listed[values[1][2]]) \in CupsJobStates
    BY <1>5, StatesKnown DEF listed
  <2> QED BY <1>3, <1>5, <2>1, <2>2 DEF jobState
<1>6. CASE Len(values) = 1 /\ values[1][2] \notin DOMAIN listed
  <2>1. singleValue(read, "job-state") = Num(values[1][2])
    BY <1>2, <1>6, MeantOne DEF listed
  <2>2. Num(values[1][2]) \notin CupsJobStates
    BY DEF CupsJobStates, K, Str, Num
  <2> QED BY <1>3, <1>6, <2>1, <2>2 DEF jobState
<1> QED BY <1>4, <1>5, <1>6

\* The reasons are those that were sent, in their order.
LEMMA ReasonsRead ==
  ASSUME NEW sent, NEW read, WellFormed(sent), GroupUnderstood(sent, read),
         Distinct(read.attributes)
  PROVE  reasons(read) = sentReasons(sent)
<1> DEFINE word == "job-state-reasons"
           values == sentValues(sent, word)
           meant == [k \in DOMAIN values |-> Meant(W(word), values[k])]
<1>1. word \in DOMAIN ReadSyntax /\ ReadSyntax[word] = {"keyword"}
  BY Allowed
<1>2. /\ values \in Seq(ToSet(values))
      /\ \A k \in DOMAIN values : values[k][1] = "keyword"
      /\ flattenedValues(read, word) = meant
  BY <1>1, ValuesRead
<1>3. sentReasons(sent) = [k \in DOMAIN values |-> Str(values[k][2])]
  BY DEF sentReasons
<1>4. reasons(read) = Only(meant, {k \in DOMAIN meant : IsA(meant[k], "string")})
  BY <1>2 DEF reasons
<1> HIDE DEF values
<1>5. \A k \in DOMAIN values : Meant(W(word), values[k]) = Str(values[k][2])
  BY <1>2, MeantOne
<1>6. meant = [k \in DOMAIN values |-> Str(values[k][2])]
  BY <1>5
<1>7. \A k \in DOMAIN meant : IsA(meant[k], "string")
  BY <1>6 DEF IsA, Str
<1>8. meant \in Seq(ToSet(meant))
  <2>1. DOMAIN values = 1..Len(values) /\ Len(values) \in Nat
    BY <1>2
  <2>2. meant \in [1..Len(values) -> ToSet(meant)]
    BY <2>1 DEF ToSet
  <2> HIDE DEF meant
  <2> QED BY <2>1, <2>2
<1> HIDE DEF meant
<1>9. Only(meant, {k \in DOMAIN meant : IsA(meant[k], "string")}) = meant
  BY <1>7, <1>8, OnlyAll
<1> QED BY <1>3, <1>4, <1>6, <1>9

\* What is observed of a job is what was sent of it.
LEMMA JobRead ==
  ASSUME NEW sent, NEW read, WellFormed(sent), GroupUnderstood(sent, read),
         Distinct(read.attributes)
  PROVE  CupsJobObservation(read) = sentJob(sent)
<1>1. /\ jobState(read) = sentState(sent) /\ reasons(read) = sentReasons(sent)
      /\ nonNegativeInteger(read, "job-media-sheets-completed") =
           sentCount(sent, "job-media-sheets-completed")
      /\ nonNegativeInteger(read, "job-impressions-completed") =
           sentCount(sent, "job-impressions-completed")
  BY StateRead, ReasonsRead, CountRead
<1> QED BY <1>1 DEF CupsJobObservation, sentJob

\* The id of a job is the one positive integer that was sent.
LEMMA IdRead ==
  ASSUME NEW sent, NEW read, WellFormed(sent), GroupUnderstood(sent, read),
         Distinct(read.attributes), IsA(jobId(read), "number")
  PROVE  LET id == sentValues(sent, "job-id")
         IN Len(id) = 1 /\ id[1][1] = "integer" /\ jobId(read) = Num(id[1][2])
<1> DEFINE id == sentValues(sent, "job-id")
<1>1. "job-id" \in DOMAIN ReadSyntax /\ ReadSyntax["job-id"] = {"integer"}
  BY Allowed
<1>2. /\ jobId(read) =
           IF Len(id) = 1 THEN Meant(W("job-id"), id[1]) ELSE <<"undefined">>
      /\ Len(id) = 1 => id[1][1] = "integer"
  BY <1>1, SingleRead DEF jobId
<1> HIDE DEF id
<1>3. Len(id) = 1
  BY <1>2 DEF IsA
<1>4. jobId(read) = Num(id[1][2])
  BY <1>2, <1>3, MeantOne
<1> QED BY <1>2, <1>3, <1>4 DEF id

\* The jobs of a list that is accepted are those that were sent, each once.
LEMMA ListRead ==
  ASSUME NEW message, NEW parsed, Understood(message, parsed),
         IsSequence(message.groups),
         \A g \in DOMAIN message.groups : WellFormed(message.groups[g]),
         ~ HasDuplicateAttribute(parsed),
         ValidJobs(attributeGroups(parsed, "job-attributes-tag"))
  PROVE  LET jobs == {g \in DOMAIN message.groups :
                        message.groups[g].tag = "job-attributes-tag"}
             current == currentJobs(attributeGroups(parsed, "job-attributes-tag"))
         IN /\ \A g \in jobs :
                 LET id == sentValues(message.groups[g], "job-id")
                 IN /\ Len(id) = 1 /\ id[1][1] = "integer" /\ id[1][2] > 0
                    /\ current[id[1][2]] = sentJob(message.groups[g])
            /\ Cardinality(jobs) = Cardinality(DOMAIN current)
<1> DEFINE jobs == {g \in DOMAIN message.groups : message.groups[g].tag = "job-attributes-tag"}
           groups == attributeGroups(parsed, "job-attributes-tag")
           current == currentJobs(groups)
<1>1. /\ parsed.groups \in Seq(ToSet(parsed.groups))
      /\ DOMAIN parsed.groups = DOMAIN message.groups
      /\ \A g \in DOMAIN message.groups :
           /\ GroupUnderstood(message.groups[g], parsed.groups[g])
           /\ WellFormed(message.groups[g])
           /\ Distinct(parsed.groups[g].attributes)
           /\ parsed.groups[g].tag = message.groups[g].tag
  BY DEF Understood, IsSequence, HasDuplicateAttribute, Distinct, GroupUnderstood
<1>2. jobs = {g \in DOMAIN parsed.groups : parsed.groups[g].tag = "job-attributes-tag"}
  BY <1>1
<1>3. groups = Only(parsed.groups, jobs)
  BY <1>2 DEF attributeGroups
<1>4. jobs \subseteq DOMAIN parsed.groups
  BY <1>1
<1> HIDE DEF jobs, groups
<1>5. groups \in Seq(ToSet(parsed.groups)) /\ \E p : Keeps(parsed.groups, jobs, groups, p)
  BY <1>1, <1>3, <1>4, OnlyKeeps
<1>6. PICK p : Keeps(parsed.groups, jobs, groups, p)
  BY <1>5
<1>7. DOMAIN groups = 1..Len(groups) /\ Len(groups) \in Nat
  BY <1>5
<1>8. ASSUME NEW g \in jobs
      PROVE  /\ p[g] \in DOMAIN groups /\ groups[p[g]] = parsed.groups[g]
             /\ g \in DOMAIN message.groups
  BY <1>1, <1>4, <1>6, <1>7 DEF Keeps
<1> DEFINE id(g) == sentValues(message.groups[g], "job-id")
           number(k) == jobId(groups[k])[2]
<1>9. \A k \in DOMAIN groups : /\ IsA(jobId(groups[k]), "number") /\ number(k) > 0
                               /\ \A h \in DOMAIN groups :
                                    jobId(groups[h]) = jobId(groups[k]) => h = k
  BY DEF ValidJobs, groups
<1>10. ASSUME NEW g \in jobs
       PROVE  /\ Len(id(g)) = 1 /\ id(g)[1][1] = "integer" /\ id(g)[1][2] > 0
              /\ jobId(groups[p[g]]) = Num(id(g)[1][2]) /\ number(p[g]) = id(g)[1][2]
  <2>1. IsA(jobId(parsed.groups[g]), "number") /\ jobId(groups[p[g]]) = jobId(parsed.groups[g])
    BY <1>8, <1>9
  <2>2. /\ Len(id(g)) = 1 /\ id(g)[1][1] = "integer"
        /\ jobId(parsed.groups[g]) = Num(id(g)[1][2])
    BY <1>1, <1>8, <2>1, IdRead
  <2>3. number(p[g]) = id(g)[1][2]
    BY <2>1, <2>2 DEF Num
  <2>4. id(g)[1][2] > 0
    BY <1>8, <1>9, <2>3
  <2> HIDE DEF id, number
  <2> QED BY <2>1, <2>2, <2>3, <2>4
<1>11. \A k \in DOMAIN groups : \E g \in jobs : p[g] = k
  BY <1>6, <1>7 DEF Keeps
<1>12. ASSUME NEW h \in DOMAIN groups, NEW k \in DOMAIN groups, number(h) = number(k)
       PROVE  h = k
  <2>1. PICK a \in jobs : p[a] = h
    BY <1>11
  <2>2. PICK b \in jobs : p[b] = k
    BY <1>11
  <2>3. jobId(groups[h]) = Num(number(h)) /\ jobId(groups[k]) = Num(number(k))
    BY <1>10, <2>1, <2>2
  <2> QED BY <1>9, <1>12, <2>3
<1>13. DOMAIN current = {number(k) : k \in DOMAIN groups}
  BY DEF currentJobs
<1>14. ASSUME NEW g \in jobs
       PROVE  current[id(g)[1][2]] = sentJob(message.groups[g])
  <2> DEFINE n == number(p[g])
             found == CHOOSE k \in DOMAIN groups : number(k) = n
  <2>1. n \in DOMAIN current /\ p[g] \in DOMAIN groups
    BY <1>8, <1>13
  <2>2. current[n] = CupsJobObservation(groups[found])
    BY <2>1 DEF currentJobs
  <2>3. found \in DOMAIN groups /\ number(found) = n
    BY <2>1
  <2>4. found = p[g]
    BY <1>12, <2>1, <2>3
  <2>5. current[n] = CupsJobObservation(parsed.groups[g])
    BY <1>8, <2>2, <2>4
  <2>6. CupsJobObservation(parsed.groups[g]) = sentJob(message.groups[g])
    BY <1>1, <1>8, JobRead
  <2> HIDE DEF n, current, id
  <2>7. n = id(g)[1][2]
    BY <1>10 DEF n
  <2> QED BY <2>5, <2>6, <2>7
<1>15. Cardinality(jobs) = Cardinality(DOMAIN current)
  <2>1. IsFiniteSet(jobs)
    <3>1. IsFiniteSet(1..Len(parsed.groups))
      BY <1>1, FS_Interval
    <3>2. jobs \subseteq 1..Len(parsed.groups)
      BY <1>1, <1>4
    <3> QED BY <3>1, <3>2, FS_Subset
  <2> DEFINE b == [g \in jobs |-> number(p[g])]
  <2>2. b \in [jobs -> DOMAIN current]
    BY <1>8, <1>13
  <2>3. ASSUME NEW g \in jobs, NEW h \in jobs, b[g] = b[h] PROVE g = h
    <3>1. p[g] = p[h]
      BY <1>8, <1>12, <2>3
    <3> QED BY <3>1, <1>6 DEF Keeps
  <2>4. ASSUME NEW n \in DOMAIN current PROVE \E g \in jobs : b[g] = n
    BY <1>11, <1>13
  <2>5. b \in Bijection(jobs, DOMAIN current)
    <3> HIDE DEF b, current
    <3> QED BY <2>2, <2>3, <2>4 DEF Bijection, Injection, Surjection, IsInjective
  <2>6. ExistsBijection(jobs, DOMAIN current)
    <3> HIDE DEF b
    <3> QED BY <2>5 DEF ExistsBijection
  <2> QED BY <2>1, <2>6, FS_Bijection
<1> HIDE DEF id, current
<1>16. \A g \in jobs : /\ Len(id(g)) = 1 /\ id(g)[1][1] = "integer" /\ id(g)[1][2] > 0
                       /\ current[id(g)[1][2]] = sentJob(message.groups[g])
  BY <1>10, <1>14
<1> QED BY <1>15, <1>16, SMTT(30) DEF id, current, jobs, groups

-----------------------------------------------------------------------------
(* The invariant of an exchange *)


\* The next number is one of the protocol, or beyond them.
NumberIsKnown ==
  \/ nextSequenceNumber = Beyond
  \/ \E n \in 1..LastInteger : nextSequenceNumber = Num(n)

\* A session past subscribing has an id of the protocol.
SubscriptionIsKnown ==
  todo \in {"jobs", "poll"} => \E n \in 1..LastInteger : subscription = Num(n)

\* What has arrived is the beginning of the answer.
BeginningArrived ==
  phase = "receiving" =>
    \E n \in 0..Len(reply.bytes) : received = SubSeq(reply.bytes, 1, n)

ExchangeInv ==
  /\ TypeOK
  /\ NumberIsKnown
  /\ SubscriptionIsKnown
  /\ BeginningArrived
  /\ AnswerIsWhole

\* A poll is under way only with a number that can be sent.
PollIsSent == todo = "poll" /\ phase # "idle" => nextSequenceNumber # Beyond

\* The answers to a request are among those that CUPS gives.
LEMMA OperationKnown ==
  ASSUME TypeOK
  PROVE  Request.operation \in DOMAIN Replies
<1>1. CASE todo = "create"
  BY <1>1, ExchangeAssumption DEF Request, createPrinterSubscriptionRequest, Message
<1>2. CASE todo = "jobs"
  BY <1>2, ExchangeAssumption DEF Request, retainedJobsRequest, Message
<1>3. CASE todo = "poll"
  BY <1>3, ExchangeAssumption DEF Request, getNotificationsRequest, Message
<1>4. CASE todo \notin {"create", "jobs", "poll"}
  <2>1. todo \in DOMAIN OtherRequests
    BY <1>4 DEF TypeOK
  <2>2. Request = OtherRequests[todo]
    BY <1>4 DEF Request
  <2> QED BY <2>1, <2>2, ExchangeAssumption
<1> QED BY <1>1, <1>2, <1>3, <1>4

\* An answer under way is one of CUPS, with what the assumptions say of it.
LEMMA ReplyKnown ==
  ASSUME TypeOK, phase \in {"receiving", "answered", "hung"}
  PROVE  /\ \E operation \in DOMAIN Replies : \E message \in Replies[operation] :
              reply = [code |-> message.code, groups |-> message.groups, data |-> message.data,
                       bytes |-> Encode(message)]
         /\ reply.bytes \in Seq(0..255)
         /\ Parse(reply.bytes).ok => IsMessage(Parse(reply.bytes))
<1>1. Request.operation \in DOMAIN Replies /\ reply \in Answers[Request.operation]
  BY OperationKnown DEF TypeOK
<1>2. PICK operation \in DOMAIN Replies : reply \in Answers[operation]
  BY <1>1
<1>3. \E message \in Replies[operation] :
        reply = [code |-> message.code, groups |-> message.groups, data |-> message.data,
                 bytes |-> Encode(message)]
  BY <1>2 DEF Answers
<1>4. /\ reply.bytes \in Seq(0..255)
      /\ Parse(reply.bytes).ok => IsMessage(Parse(reply.bytes))
  BY <1>2, AnswersAssumption
<1> QED BY <1>3, <1>4

\* A session that goes on asks the same until it is answered.
LEMMA SameRequest ==
  ASSUME UNCHANGED sessionVars
  PROVE  Request' = Request
  BY DEF sessionVars, Request, createPrinterSubscriptionRequest, retainedJobsRequest,
         getNotificationsRequest, Message, Identity

\* The numbers of the events in a response are those of the protocol, and the
\* greatest of them is not negative.
LEMMA NumbersKnown ==
  ASSUME ExchangeInv, phase = "answered", Error = "none"
  PROVE  LET numbers == {value[2] : value \in {v \in NotificationValues("notify-sequence-number") :
                                                IsA(v, "number")}}
         IN /\ numbers \subseteq -LastInteger - 1..LastInteger
            /\ maxNotificationSequenceNumber \in {0} \cup numbers
            /\ maxNotificationSequenceNumber \in 0..LastInteger
            /\ \A n \in numbers : n <= maxNotificationSequenceNumber
<1> DEFINE numbers == {value[2] : value \in {v \in NotificationValues("notify-sequence-number") :
                                              IsA(v, "number")}}
<1>1. response = Parse(reply.bytes) /\ response.ok
  BY DEF ExchangeInv, AnswerIsWhole, Error
<1>2. \A attribute \in AttributesOf(response) :
        IsA(attribute.value, "number") => attribute.value[2] \in -LastInteger - 1..LastInteger
  BY <1>1, ReplyKnown DEF ExchangeInv, IsMessage
<1>3. NotificationAttributes \subseteq AttributesOf(response)
  BY DEF NotificationAttributes, AttributesOf
<1>4. numbers \subseteq -LastInteger - 1..LastInteger
  BY <1>2, <1>3 DEF NotificationValues
<1>5. maxNotificationSequenceNumber = Max({0} \cup numbers)
  BY DEF maxNotificationSequenceNumber
<1> HIDE DEF numbers
<1>6. /\ Max({0} \cup numbers) \in {0} \cup numbers
      /\ \A n \in {0} \cup numbers : n <= Max({0} \cup numbers)
  <2>1. {0} \cup numbers \subseteq Int /\ {0} \cup numbers # {}
        /\ \A n \in {0} \cup numbers : n <= LastInteger
    BY <1>4, LastIsNumber
  <2> HIDE DEF numbers
  <2> QED BY <2>1, LastIsNumber, MaxIsGreatest
<1>7. Max({0} \cup numbers) \in 0..LastInteger
  <2> DEFINE highest == Max({0} \cup numbers)
  <2> HIDE DEF highest
  <2>1. highest \in {0} \cup numbers /\ 0 <= highest
    BY <1>6 DEF highest
  <2>2. highest \in 0..LastInteger
    BY <1>4, <2>1, LastIsNumber
  <2> QED BY <2>2 DEF highest
<1> QED BY <1>4, <1>5, <1>6, <1>7 DEF numbers

\* The values of an attribute in a group are values of the group.
LEMMA ValuesOfGroup ==
  ASSUME NEW group, IsSequence(group.attributes), NEW word, NEW V,
         \A attribute \in ToSet(group.attributes) : attribute.value \in V
  PROVE  attributeValues(group, word) \in Seq(V)
<1> DEFINE list == group.attributes
           A == ToSet(list)
           places == {i \in DOMAIN list : list[i].name = W(word)}
           named == Only(list, places)
<1>1. list \in Seq(A) /\ places \subseteq DOMAIN list
  BY DEF IsSequence
<1>2. attributeValues(group, word) = [i \in DOMAIN named |-> named[i].value]
  BY DEF attributeValues
<1>3. \A attribute \in A : attribute.value \in V
  OBVIOUS
<1> HIDE DEF places, A, list
<1>4. named \in Seq(A)
  BY <1>1, OnlyKeeps
<1> HIDE DEF named
<1>5. Len(named) \in Nat /\ DOMAIN named = 1..Len(named) /\ \A i \in 1..Len(named) : named[i] \in A
  BY <1>4
<1>6. [i \in DOMAIN named |-> named[i].value] \in Seq(V)
  BY <1>3, <1>5
<1> QED BY <1>2, <1>6

\* The id of a subscription is one of the protocol.
LEMMA IdKnown ==
  ASSUME ExchangeInv, phase = "answered", Error = "none", extractSubscriptionId # Null
  PROVE  \E n \in 1..LastInteger : extractSubscriptionId = Num(n)
<1> DEFINE V == {attribute.value : attribute \in AttributesOf(response)}
           word == "notify-subscription-id"
           groups == attributeGroups(response, "subscription-attributes-tag")
           seqs == [g \in DOMAIN groups |-> attributeValues(groups[g], word)]
           ids == FlattenSeq(seqs)
<1>1. response = Parse(reply.bytes) /\ response.ok
  BY DEF ExchangeInv, AnswerIsWhole, Error
<1>2. IsMessage(response)
  BY <1>1, ReplyKnown DEF ExchangeInv
<1>3. /\ groups \in Seq(ToSet(response.groups))
      /\ \A group \in ToSet(response.groups) :
           /\ IsSequence(group.attributes)
           /\ \A attribute \in ToSet(group.attributes) : attribute.value \in V
  <2> DEFINE list == response.groups
             S == ToSet(list)
             places == {g \in DOMAIN list : list[g].tag = "subscription-attributes-tag"}
  <2>1. list \in Seq(S) /\ places \subseteq DOMAIN list
    BY <1>2 DEF IsMessage, IsSequence
  <2>2. groups = Only(list, places)
    BY DEF attributeGroups
  <2>3. Only(list, places) \in Seq(S)
    <3> HIDE DEF list, S, places
    <3> QED BY <2>1, OnlyKeeps
  <2>4. ASSUME NEW group \in ToSet(response.groups)
        PROVE  /\ IsSequence(group.attributes)
               /\ \A attribute \in ToSet(group.attributes) : attribute.value \in V
    <3>1. PICK g \in DOMAIN response.groups : group = response.groups[g]
      BY DEF ToSet
    <3>2. \A attribute \in ToSet(group.attributes) : attribute \in AttributesOf(response)
      BY <3>1 DEF AttributesOf
    <3> QED BY <1>2, <3>1, <3>2 DEF IsMessage
  <2> QED BY <2>2, <2>3, <2>4
<1>4. \A value \in V : IsA(value, "number") =>
         value = Num(value[2]) /\ value[2] \in -LastInteger - 1..LastInteger
  BY <1>2 DEF IsMessage
<1>5. extractSubscriptionId =
        IF Len(ids) = 1 /\ IsA(ids[1], "number") /\ ids[1][2] > 0 THEN ids[1] ELSE Null
  BY DEF extractSubscriptionId
<1> HIDE DEF V, groups
<1>6. ids \in Seq(V)
  <2> DEFINE S == ToSet(response.groups)
  <2>0. groups \in Seq(S)
    BY <1>3
  <2> HIDE DEF S, word
  <2>1. /\ Len(groups) \in Nat /\ DOMAIN groups = 1..Len(groups)
        /\ \A g \in 1..Len(groups) : groups[g] \in S
    BY <2>0
  <2>2. \A g \in 1..Len(groups) : attributeValues(groups[g], word) \in Seq(V)
    BY <1>3, <2>1, ValuesOfGroup DEF S
  <2>3. seqs \in Seq(Seq(V))
    <3> DEFINE Q == Seq(V)
               f(g) == attributeValues(groups[g], word)
    <3>1. \A g \in 1..Len(groups) : f(g) \in Q
      BY <2>2
    <3> HIDE DEF Q, f
    <3>2. [g \in 1..Len(groups) |-> f(g)] \in Seq(Q)
      BY <2>1, <3>1
    <3> QED BY <2>1, <3>2 DEF Q, f
  <2> HIDE DEF seqs
  <2> QED BY <2>3, PiecesPlaced
<1> HIDE DEF ids
<1>7. /\ Len(ids) = 1 /\ IsA(ids[1], "number") /\ ids[1][2] > 0
      /\ extractSubscriptionId = ids[1]
  BY <1>5
<1>8. ids[1] \in V
  BY <1>6, <1>7, ElementOfSeq
<1>9. ids[1] = Num(ids[1][2]) /\ ids[1][2] \in 1..LastInteger
  BY <1>4, <1>7, <1>8, LastIsNumber
<1> QED BY <1>7, <1>9

\* The next number is again one of the protocol, or beyond them.
LEMMA NextNumberKnown ==
  ASSUME NumberIsKnown, NEW maxSeen \in 0..LastInteger
  PROVE  \/ SequenceNumberAfter(maxSeen, nextSequenceNumber) = Beyond
         \/ \E n \in 1..LastInteger : SequenceNumberAfter(maxSeen, nextSequenceNumber) = Num(n)
<1>1. CASE maxSeen < nextSequenceNumber[2]
  BY <1>1, LastIsNumber DEF SequenceNumberAfter, NumberIsKnown
<1>2. CASE ~ (maxSeen < nextSequenceNumber[2]) /\ maxSeen = LastInteger
  BY <1>2 DEF SequenceNumberAfter
<1>3. CASE ~ (maxSeen < nextSequenceNumber[2]) /\ maxSeen # LastInteger
  <2>1. maxSeen + 1 \in 1..LastInteger
    BY <1>3, LastIsNumber
  <2> QED BY <1>3, <2>1 DEF SequenceNumberAfter
<1> QED BY <1>1, <1>2, <1>3

\* How a request may have ended.
Endings == {"none", "success", "IppSerializationError", "IppTransportError", "IppParseError",
            "IppDuplicateAttributeError", "CupsIppProtocolError"}

LEMMA ExchangeInitInv == Init => ExchangeInv
<1> SUFFICES ASSUME Init PROVE ExchangeInv
  OBVIOUS
<1>1. TypeOK
  <2>1. IsA(Num(1), "number") /\ Num(1)[2] > 0
    BY DEF IsA, Num
  <2> QED BY <2>1 DEF Init, TypeOK
<1>2. NumberIsKnown
  BY LastIsNumber DEF Init, NumberIsKnown
<1>3. SubscriptionIsKnown /\ BeginningArrived /\ AnswerIsWhole
  BY DEF Init, SubscriptionIsKnown, BeginningArrived, AnswerIsWhole
<1> QED BY <1>1, <1>2, <1>3 DEF ExchangeInv

\* A request that is over leaves nothing on the wire.
LEMMA OverInv ==
  ASSUME RequestOver, outcome' \in Endings,
         todo' \in {"create", "jobs", "poll"} \cup DOMAIN OtherRequests,
         IF todo' \in {"jobs", "poll"} THEN IsA(subscription', "number") /\ subscription'[2] > 0
         ELSE subscription' = Null /\ nextSequenceNumber' = Num(1),
         NumberIsKnown', SubscriptionIsKnown'
  PROVE  ExchangeInv'
<1>1. \/ nextSequenceNumber' = Beyond
      \/ IsA(nextSequenceNumber', "number") /\ nextSequenceNumber'[2] > 0
  BY DEF NumberIsKnown, Num, IsA
<1>2. TypeOK'
  BY <1>1 DEF RequestOver, TypeOK, Endings
<1>3. BeginningArrived' /\ AnswerIsWhole'
  BY DEF RequestOver, BeginningArrived, AnswerIsWhole
<1> QED BY <1>2, <1>3 DEF ExchangeInv

\* A session that failed starts again.
LEMMA FailsInv ==
  ASSUME NEW error \in Endings, Fails(error)
  PROVE  ExchangeInv'
<1>1. NumberIsKnown' /\ SubscriptionIsKnown'
  BY LastIsNumber DEF Fails, NumberIsKnown, SubscriptionIsKnown
<1> QED BY <1>1, OverInv DEF Fails

\* A request under way goes on within its session.
LEMMA OnTheWireInv ==
  ASSUME ExchangeInv, UNCHANGED sessionVars, outcome' \in {"none", outcome}, response' = Unread,
         \/ phase' = "connecting" /\ reply' = Silence /\ received' = <<>>
         \/ phase' \in {"receiving", "hung"} /\ reply' \in Answers[Request.operation],
         BeginningArrived'
  PROVE  ExchangeInv'
<1>1. Request' = Request /\ todo' = todo /\ subscription' = subscription
      /\ nextSequenceNumber' = nextSequenceNumber
  BY SameRequest DEF sessionVars
<1>2. TypeOK'
  BY <1>1 DEF ExchangeInv, TypeOK
<1>3. NumberIsKnown' /\ SubscriptionIsKnown' /\ AnswerIsWhole'
  BY <1>1 DEF ExchangeInv, NumberIsKnown, SubscriptionIsKnown, AnswerIsWhole
<1> QED BY <1>2, <1>3 DEF ExchangeInv

\* A part of a sequence.
LEMMA PartOf ==
  ASSUME NEW S, NEW s \in Seq(S), NEW a \in 1..Len(s) + 1, NEW b \in a - 1..Len(s)
  PROVE  /\ SubSeq(s, a, b) \in Seq(S) /\ Len(SubSeq(s, a, b)) = b - a + 1
         /\ \A k \in 1..b - a + 1 : SubSeq(s, a, b)[k] = s[a + k - 1]
<1>1. a \in Int /\ b \in Int
  OBVIOUS
<1>2. \A i \in a..b : s[i] \in S
  <2> TAKE i \in a..b
  <2>1. i \in 1..Len(s)
    OBVIOUS
  <2> QED BY <2>1, ElementOfSeq
<1>3. /\ SubSeq(s, a, b) \in Seq(S)
      /\ Len(SubSeq(s, a, b)) = IF a <= b THEN b - a + 1 ELSE 0
      /\ \A i \in 1..b - a + 1 : SubSeq(s, a, b)[i] = s[a + i - 1]
  BY <1>1, <1>2, SubSeqProperties
<1>4. a <= b \/ b - a + 1 = 0
  OBVIOUS
<1> QED BY <1>3, <1>4

\* The beginning of a sequence and what comes after it are a longer beginning.
LEMMA LongerBeginning ==
  ASSUME NEW S, NEW s \in Seq(S), NEW n \in 0..Len(s), NEW length \in 0..Len(s) - n
  PROVE  SubSeq(s, 1, n) \o SubSeq(SubSeq(s, n + 1, Len(s)), 1, length) = SubSeq(s, 1, n + length)
<1> DEFINE first == SubSeq(s, 1, n)
           rest == SubSeq(s, n + 1, Len(s))
           part == SubSeq(rest, 1, length)
           whole == SubSeq(s, 1, n + length)
<1>1. /\ first \in Seq(S) /\ Len(first) = n
      /\ \A k \in 1..n : first[k] = s[1 + k - 1]
  <2>1. 1 \in 1..Len(s) + 1 /\ n \in 1 - 1..Len(s) /\ n - 1 + 1 = n
    BY SMTT(30)
  <2> QED BY <2>1, PartOf
<1>2. /\ rest \in Seq(S) /\ Len(rest) = Len(s) - n
      /\ \A k \in 1..Len(s) - n : rest[k] = s[n + 1 + k - 1]
  <2> DEFINE a == n + 1
             b == Len(s)
  <2>1. a \in 1..Len(s) + 1 /\ b \in a - 1..Len(s) /\ b - a + 1 = Len(s) - n
    OBVIOUS
  <2> HIDE DEF a, b
  <2>2. /\ SubSeq(s, a, b) \in Seq(S) /\ Len(SubSeq(s, a, b)) = b - a + 1
        /\ \A k \in 1..b - a + 1 : SubSeq(s, a, b)[k] = s[a + k - 1]
    BY <2>1, PartOf
  <2> QED BY <2>1, <2>2 DEF a, b
<1>3. /\ whole \in Seq(S) /\ Len(whole) = n + length
      /\ \A k \in 1..n + length : whole[k] = s[1 + k - 1]
  <2>1. 1 \in 1..Len(s) + 1 /\ n + length \in 1 - 1..Len(s) /\ n + length - 1 + 1 = n + length
    OBVIOUS
  <2> QED BY <2>1, PartOf
<1> HIDE DEF first, rest, whole
<1>4. /\ part \in Seq(S) /\ Len(part) = length
      /\ \A k \in 1..length : part[k] = rest[1 + k - 1]
  <2>1. 1 \in 1..Len(rest) + 1 /\ length \in 1 - 1..Len(rest) /\ length - 1 + 1 = length
    BY <1>2
  <2> QED BY <1>2, <2>1, PartOf
<1> HIDE DEF part
<1> DEFINE put == first \o part
<1>5. /\ put \in Seq(S) /\ Len(put) = n + length
      /\ \A k \in 1..n + length : put[k] = IF k <= n THEN first[k] ELSE part[k - n]
  BY <1>1, <1>4, ConcatProperties
<1> HIDE DEF put
<1>6. ASSUME NEW k \in 1..n + length PROVE put[k] = whole[k]
  <2>1. CASE k <= n
    BY <2>1, <1>1, <1>3, <1>5
  <2>2. CASE ~ (k <= n)
    <3>1. k - n \in 1..length /\ k - n \in 1..Len(s) - n /\ n + 1 + (k - n) - 1 = 1 + k - 1
          /\ 1 + (k - n) - 1 = k - n
      BY <2>2
    <3>2. part[k - n] = rest[k - n]
      BY <3>1, <1>4
    <3>3. rest[k - n] = s[1 + k - 1]
      BY <3>1, <1>2
    <3> QED BY <2>2, <3>2, <3>3, <1>3, <1>5
  <2> QED BY <2>1, <2>2
<1>7. put = whole
  BY <1>3, <1>5, <1>6, SeqEqual
<1> QED BY <1>7 DEF put, first, part, rest, whole

\* A chunk that is put at the end of what has arrived is the next of the answer.
LEMMA ChunkGathered ==
  ASSUME ExchangeInv, Chunk
  PROVE  \E m \in 0..Len(reply.bytes) : received' = SubSeq(reply.bytes, 1, m)
<1> DEFINE bytes == reply.bytes
<1>1. bytes \in Seq(0..255) /\ phase = "receiving"
  BY ReplyKnown DEF ExchangeInv, Chunk
<1>2. PICK n \in 0..Len(bytes) : received = SubSeq(bytes, 1, n)
  BY <1>1 DEF ExchangeInv, BeginningArrived
<1>3. PICK length \in {ChunkSize, Len(SubSeq(bytes, Len(received) + 1, Len(bytes)))} :
        /\ length <= Len(SubSeq(bytes, Len(received) + 1, Len(bytes)))
        /\ received' = received \o SubSeq(SubSeq(bytes, Len(received) + 1, Len(bytes)), 1, length)
  BY DEF Chunk
<1> HIDE DEF bytes
<1>4. Len(received) = n
  <2>1. 1 \in 1..Len(bytes) + 1 /\ n \in 1 - 1..Len(bytes) /\ n - 1 + 1 = n
    BY <1>1
  <2> QED BY <1>1, <1>2, <2>1, PartOf
<1>5. Len(SubSeq(bytes, n + 1, Len(bytes))) = Len(bytes) - n
  <2> DEFINE a == n + 1
             b == Len(bytes)
  <2>1. a \in 1..Len(bytes) + 1 /\ b \in a - 1..Len(bytes) /\ b - a + 1 = Len(bytes) - n
    BY <1>1
  <2> HIDE DEF a, b
  <2>2. Len(SubSeq(bytes, a, b)) = b - a + 1
    BY <1>1, <2>1, PartOf
  <2> QED BY <2>1, <2>2 DEF a, b
<1>6. length \in 0..Len(bytes) - n
  BY <1>1, <1>3, <1>4, <1>5, ExchangeAssumption
<1>7. received' = SubSeq(bytes, 1, n + length)
  BY <1>1, <1>2, <1>3, <1>4, <1>6, LongerBeginning
<1>8. n + length \in 0..Len(bytes)
  BY <1>1, <1>6
<1> QED BY <1>7, <1>8 DEF bytes

\* Every step keeps the invariant.
LEMMA ExchangeNextInv == ExchangeInv /\ [Next]_exchangeVars => ExchangeInv'
<1> SUFFICES ASSUME ExchangeInv, [Next]_exchangeVars PROVE ExchangeInv'
  OBVIOUS
<1>0. TypeOK /\ NumberIsKnown /\ SubscriptionIsKnown /\ BeginningArrived /\ AnswerIsWhole
  BY DEF ExchangeInv
<1>1. CASE Ask
  <2>1. /\ reply' = Silence /\ received' = <<>> /\ response' = Unread /\ phase' = "connecting"
        /\ outcome' = "none"
    BY <1>0, <1>1 DEF Ask, TypeOK
  <2>2. UNCHANGED sessionVars /\ BeginningArrived'
    BY <1>1, <2>1 DEF Ask, BeginningArrived
  <2> QED BY <2>1, <2>2, OnTheWireInv
<1>2. CASE CannotSerialize
  BY <1>2, FailsInv DEF CannotSerialize, Endings
<1>3. CASE ConnectionFails
  BY <1>3, FailsInv DEF ConnectionFails, Endings
<1>4. CASE Answer
  <2>1. /\ reply' \in Answers[Request.operation] /\ phase' = "receiving"
        /\ received' = <<>> /\ response' = Unread /\ outcome' = outcome
    BY <1>0, <1>4 DEF Answer, TypeOK
  <2>2. Request.operation \in DOMAIN Replies
    BY <1>0, OperationKnown
  <2>3. reply'.bytes \in Seq(0..255)
    BY <2>1, <2>2, AnswersAssumption
  <2>4. 0 \in 0..Len(reply'.bytes) /\ <<>> = SubSeq(reply'.bytes, 1, 0)
    BY <2>3
  <2>5. BeginningArrived'
    BY <2>1, <2>4 DEF BeginningArrived
  <2>6. UNCHANGED sessionVars
    BY <1>4 DEF Answer
  <2> QED BY <2>1, <2>5, <2>6, OnTheWireInv
<1>5. CASE Chunk
  <2>1. /\ reply' = reply /\ phase' = phase /\ phase = "receiving" /\ response' = Unread
        /\ outcome' = outcome /\ UNCHANGED sessionVars
        /\ reply' \in Answers[Request.operation]
    BY <1>0, <1>5 DEF Chunk, TypeOK
  <2>2. BeginningArrived'
    BY <1>5, <2>1, ChunkGathered DEF BeginningArrived
  <2> QED BY <2>1, <2>2, OnTheWireInv
<1>6. CASE End
  <2>1. /\ phase = "receiving" /\ phase' = "answered" /\ Len(received) = Len(reply.bytes)
        /\ response' = Parse(received) /\ reply' = reply /\ received' = received
        /\ outcome' = outcome /\ UNCHANGED <<sessionVars, jobVars>>
    BY <1>6 DEF End, Whole
  <2>2. reply.bytes \in Seq(0..255)
    BY <1>0, <2>1, ReplyKnown
  <2>3. received = reply.bytes
    <3> DEFINE bytes == reply.bytes
    <3>1. PICK n \in 0..Len(bytes) : received = SubSeq(bytes, 1, n)
      BY <1>0, <2>1 DEF BeginningArrived
    <3> HIDE DEF bytes
    <3>2. bytes \in Seq(0..255) /\ Len(received) = Len(bytes)
      BY <2>1, <2>2 DEF bytes
    <3>3. n = Len(bytes)
      BY <3>1, <3>2
    <3>4. received = bytes
      BY <3>1, <3>2, <3>3
    <3> QED BY <3>4 DEF bytes
  <2>4. Request' = Request /\ todo' = todo /\ subscription' = subscription
        /\ nextSequenceNumber' = nextSequenceNumber
    BY <2>1, SameRequest DEF sessionVars
  <2>5. TypeOK'
    BY <1>0, <2>1, <2>4 DEF TypeOK
  <2>6. NumberIsKnown' /\ SubscriptionIsKnown' /\ BeginningArrived' /\ AnswerIsWhole'
    BY <1>0, <2>1, <2>3, <2>4
    DEF NumberIsKnown, SubscriptionIsKnown, BeginningArrived, AnswerIsWhole
  <2> QED BY <2>5, <2>6 DEF ExchangeInv
<1>7. CASE ConnectionReset
  BY <1>7, FailsInv DEF ConnectionReset, Endings
<1>8. CASE ConnectionCut
  <2>1. /\ reply' = reply /\ phase' = "hung" /\ phase = "receiving" /\ response' = Unread
        /\ outcome' = outcome /\ UNCHANGED sessionVars
        /\ reply' \in Answers[Request.operation]
    BY <1>0, <1>8 DEF ConnectionCut, TypeOK
  <2>2. BeginningArrived'
    BY <2>1 DEF BeginningArrived
  <2> QED BY <2>1, <2>2, OnTheWireInv
<1>9. CASE Rejected
  <2>1. Error \in Endings
    BY DEF Error, Endings
  <2> QED BY <1>9, <2>1, FailsInv DEF Rejected
<1>10. CASE Subscribed
  <2>1. IsA(extractSubscriptionId, "number") /\ extractSubscriptionId[2] > 0
    BY <1>10 DEF Subscribed, extractSubscriptionId
  <2>2. NumberIsKnown'
    BY <1>0, <1>10 DEF Subscribed, NumberIsKnown
  <2>3. SubscriptionIsKnown'
    BY <1>10, IdKnown DEF Subscribed, Accepted, SubscriptionIsKnown
  <2> QED BY <1>10, <2>1, <2>2, <2>3, OverInv DEF Subscribed, Succeeds, Endings
<1>11. CASE NotSubscribed
  BY <1>11, FailsInv DEF NotSubscribed, Endings
<1>12. CASE Reconciled
  <2>1. IsA(subscription, "number") /\ subscription[2] > 0
    BY <1>0, <1>12 DEF Reconciled, Accepted, TypeOK
  <2>2. NumberIsKnown' /\ SubscriptionIsKnown'
    BY <1>0, <1>12 DEF Reconciled, Accepted, NumberIsKnown, SubscriptionIsKnown
  <2> QED BY <1>12, <2>1, <2>2, OverInv DEF Reconciled, Succeeds, Endings
<1>13. CASE NotReconciled
  BY <1>13, FailsInv DEF NotReconciled, Endings
<1>14. CASE Notified
  <2>1. IsA(subscription, "number") /\ subscription[2] > 0
    BY <1>0, <1>14 DEF Notified, Accepted, TypeOK
  <2>2. maxNotificationSequenceNumber \in 0..LastInteger
    BY <1>14, NumbersKnown DEF Notified, Accepted
  <2>3. nextSequenceNumber' =
          SequenceNumberAfter(maxNotificationSequenceNumber, nextSequenceNumber)
    BY <1>14 DEF Notified
  <2>4. NumberIsKnown'
    BY <1>0, <2>2, <2>3, NextNumberKnown DEF NumberIsKnown
  <2>5. /\ RequestOver /\ outcome' = "success" /\ todo' \in {"jobs", "poll"}
        /\ subscription' = subscription /\ todo = "poll"
    BY <1>14 DEF Notified, Accepted, Succeeds
  <2>6. SubscriptionIsKnown'
    BY <1>0, <2>5 DEF SubscriptionIsKnown
  <2> QED BY <2>1, <2>4, <2>5, <2>6, OverInv DEF Endings
<1>15. CASE OtherAnswered
  <2>1. todo \in DOMAIN OtherRequests
    BY <1>15 DEF OtherAnswered, Accepted
  <2>2. subscription = Null /\ nextSequenceNumber = Num(1)
    BY <1>0, <2>1, ExchangeAssumption DEF TypeOK
  <2>3. /\ RequestOver /\ outcome' = "success" /\ todo' = "create"
        /\ subscription' = subscription /\ nextSequenceNumber' = nextSequenceNumber
    BY <1>15 DEF OtherAnswered, Succeeds
  <2>4. NumberIsKnown' /\ SubscriptionIsKnown'
    BY <1>0, <2>3 DEF NumberIsKnown, SubscriptionIsKnown
  <2> QED BY <2>2, <2>3, <2>4, OverInv DEF Endings
<1>16. CASE AskOther
  <2>1. /\ todo' \in DOMAIN OtherRequests /\ todo' \notin {"jobs", "poll"}
        /\ subscription' = Null /\ nextSequenceNumber' = Num(1) /\ outcome' = outcome
    BY <1>0, <1>16, ExchangeAssumption DEF AskOther, TypeOK
  <2>2. RequestOver
    BY <1>0, <1>16 DEF AskOther, RequestOver, wireVars, TypeOK
  <2>3. NumberIsKnown' /\ SubscriptionIsKnown'
    BY <1>0, <1>16, <2>1 DEF AskOther, NumberIsKnown, SubscriptionIsKnown
  <2>4. outcome \in Endings
    BY <1>0 DEF TypeOK, Endings
  <2> QED BY <2>1, <2>2, <2>3, <2>4, OverInv
<1>17. CASE Restart
  <2>1. NumberIsKnown' /\ SubscriptionIsKnown'
    BY <1>17, LastIsNumber DEF Restart, NumberIsKnown, SubscriptionIsKnown
  <2> QED BY <1>17, <2>1, OverInv DEF Restart, Endings
<1>18. CASE UNCHANGED exchangeVars
  <2>1. Request' = Request
    BY <1>18, SameRequest DEF exchangeVars
  <2>2. TypeOK'
    BY <1>0, <1>18, <2>1 DEF exchangeVars, sessionVars, wireVars, TypeOK
  <2>3. NumberIsKnown' /\ SubscriptionIsKnown' /\ BeginningArrived' /\ AnswerIsWhole'
    BY <1>0, <1>18 DEF exchangeVars, sessionVars, wireVars, NumberIsKnown, SubscriptionIsKnown,
                       BeginningArrived, AnswerIsWhole
  <2> QED BY <2>2, <2>3 DEF ExchangeInv
<1> QED
  BY <1>1, <1>2, <1>3, <1>4, <1>5, <1>6, <1>7, <1>8, <1>9, <1>10, <1>11, <1>12, <1>13, <1>14,
     <1>15, <1>16, <1>17, <1>18 DEF Next, Settle

-----------------------------------------------------------------------------
(* What is always so *)

\* After any requests, answers, chunks, failures and restarts: a session that is past
\* subscribing has an id from CUPS and a next number to ask for, and only a request
\* under way has bytes (requestIpp and the loop of the event stream).
THEOREM ExchangeAlwaysTypeOK == Spec => []TypeOK
<1>1. Spec => []ExchangeInv
  BY ExchangeInitInv, ExchangeNextInv, PTL DEF Spec
<1>2. ExchangeInv => TypeOK
  BY DEF ExchangeInv
<1> QED BY <1>1, <1>2, PTL

\* Whatever the chunks an answer arrives in, what postIpp parses is what CUPS sent.
THEOREM AnswersAlwaysWhole == Spec => []AnswerIsWhole
<1>1. Spec => []ExchangeInv
  BY ExchangeInitInv, ExchangeNextInv, PTL DEF Spec
<1>2. ExchangeInv => AnswerIsWhole
  BY DEF ExchangeInv
<1> QED BY <1>1, <1>2, PTL

\* A step of an exchange is one of its jobs, or leaves them alone.
LEMMA StepOfJobs ==
  ASSUME [Next]_exchangeVars
  PROVE  [JobsNext]_jobVars
<1>1. CASE Reconciled
  BY <1>1 DEF Reconciled, JobsNext
<1>2. CASE Restart
  BY <1>2 DEF Restart, JobsNext
<1>3. CASE UNCHANGED exchangeVars
  BY <1>3 DEF exchangeVars
<1>4. CASE CannotSerialize \/ ConnectionFails \/ ConnectionReset \/ Rejected \/ NotSubscribed
  BY <1>4 DEF CannotSerialize, ConnectionFails, ConnectionReset, Rejected, NotSubscribed, Fails
<1>5. CASE Ask \/ Answer \/ Chunk \/ End \/ ConnectionCut
  BY <1>5 DEF Ask, Answer, Chunk, End, ConnectionCut
<1>6. CASE Subscribed \/ NotReconciled \/ Notified \/ OtherAnswered \/ AskOther
  BY <1>6 DEF Subscribed, NotReconciled, RefuseJobs, Notified, OtherAnswered, AskOther
<1> QED BY <1>1, <1>2, <1>3, <1>4, <1>5, <1>6 DEF Next, Settle

\* Through any failures of the exchange and restarts of the process, readers of the
\* published events know every retained job as the agent does (observeRetainedJobs).
THEOREM ExchangeReadersAlwaysKnow == Spec => []ToldIsRetained
<1>1. Init => Inv
  BY JobsInitInv DEF Init
<1>2. Inv /\ [Next]_exchangeVars => Inv'
  BY StepOfJobs, JobsNextInv
<1>3. Inv => ToldIsRetained
  BY DEF Inv
<1> QED BY <1>1, <1>2, <1>3, PTL DEF Spec

-----------------------------------------------------------------------------
(* What the session makes of an answer *)

\* An answer to a request of the session is understood, and well formed.
LEMMA AnswerRead ==
  ASSUME CodecUnderstands, ExchangeInv, phase = "answered", Error = "none"
  PROVE  /\ Understood(reply, response)
         /\ IsSequence(reply.groups)
         /\ \A g \in DOMAIN reply.groups : WellFormed(reply.groups[g])
         /\ ~ HasDuplicateAttribute(response)
         /\ reply.code < 1024
<1>1. TypeOK /\ response = Parse(reply.bytes)
  BY DEF ExchangeInv, AnswerIsWhole
<1>2. Request.operation \in DOMAIN Replies /\ reply \in Answers[Request.operation]
  BY <1>1, OperationKnown DEF TypeOK
<1>3. Understood(reply, response)
  BY <1>1, <1>2 DEF CodecUnderstands
<1>4. PICK operation \in DOMAIN Replies : reply \in Answers[operation]
  BY <1>2
<1>5. PICK message \in Replies[operation] :
        reply = [code |-> message.code, groups |-> message.groups, data |-> message.data,
                 bytes |-> Encode(message)]
  BY <1>4 DEF Answers
<1>6. /\ \E name \in DOMAIN ippStatusCodes : message.code = ippStatusCodes[name]
      /\ IsSequence(message.groups)
      /\ \A g \in DOMAIN message.groups : WellFormed(message.groups[g])
  BY RepliesAssumption
<1>7. reply.code = message.code /\ reply.groups = message.groups
  BY <1>5
<1>8. ~ HasDuplicateAttribute(response) /\ response.statusCode \subseteq Successes
  BY DEF Error
<1>9. reply.code < 1024
  <2>1. PICK name \in DOMAIN ippStatusCodes : reply.code = ippStatusCodes[name]
    BY <1>6, <1>7
  <2>2. name \in Successes
    BY <1>3, <1>8, <2>1 DEF Understood, NamesOf
  <2>3. \A success \in Successes : ippStatusCodes[success] < 1024
    BY DEF ippStatusCodes, Table, Successes
  <2> QED BY <2>1, <2>2, <2>3
<1> QED BY <1>3, <1>6, <1>7, <1>8, <1>9

\* A step that changes what is retained is the end of a list of jobs, or a restart.
LEMMA RetainedStep ==
  ASSUME [Next]_exchangeVars, retained' # retained
  PROVE  Reconciled \/ Restart
<1>1. CASE UNCHANGED exchangeVars
  BY <1>1 DEF exchangeVars, jobVars
<1>2. CASE CannotSerialize \/ ConnectionFails \/ ConnectionReset \/ Rejected \/ NotSubscribed
  BY <1>2 DEF CannotSerialize, ConnectionFails, ConnectionReset, Rejected, NotSubscribed, Fails,
              jobVars
<1>3. CASE Ask \/ Answer \/ Chunk \/ End \/ ConnectionCut
  BY <1>3 DEF Ask, Answer, Chunk, End, ConnectionCut, jobVars
<1>4. CASE Subscribed \/ NotReconciled \/ Notified \/ OtherAnswered \/ AskOther
  BY <1>4 DEF Subscribed, NotReconciled, RefuseJobs, Notified, OtherAnswered, AskOther, jobVars
<1> QED BY <1>1, <1>2, <1>3, <1>4 DEF Next, Settle

\* The step that ends a list of jobs retains the jobs that were sent.
LEMMA ReconciledRead ==
  ASSUME CodecUnderstands, ExchangeInv, Reconciled
  PROVE  LET jobs == GroupsOf("job-attributes-tag")
         IN /\ todo = "jobs" /\ outcome' = "success" /\ reply.code < 1024
            /\ \A g \in jobs :
                 LET id == sentValues(reply.groups[g], "job-id")
                 IN /\ Len(id) = 1 /\ id[1][1] = "integer" /\ id[1][2] > 0
                    /\ retained'[id[1][2]] = sentJob(reply.groups[g])
            /\ Cardinality(jobs) = Cardinality(DOMAIN retained')
<1>1. /\ phase = "answered" /\ todo = "jobs" /\ Error = "none" /\ outcome' = "success"
      /\ ValidJobs(attributeGroups(response, "job-attributes-tag"))
      /\ retained' = currentJobs(attributeGroups(response, "job-attributes-tag"))
  BY DEF Reconciled, Accepted, Observe, Succeeds
<1>2. /\ Understood(reply, response) /\ IsSequence(reply.groups)
      /\ \A g \in DOMAIN reply.groups : WellFormed(reply.groups[g])
      /\ ~ HasDuplicateAttribute(response) /\ reply.code < 1024
  BY <1>1, AnswerRead
<1> DEFINE jobs == {g \in DOMAIN reply.groups : reply.groups[g].tag = "job-attributes-tag"}
           current == currentJobs(attributeGroups(response, "job-attributes-tag"))
<1>3. /\ \A g \in jobs :
           LET id == sentValues(reply.groups[g], "job-id")
           IN /\ Len(id) = 1 /\ id[1][1] = "integer" /\ id[1][2] > 0
              /\ current[id[1][2]] = sentJob(reply.groups[g])
      /\ Cardinality(jobs) = Cardinality(DOMAIN current)
  BY <1>1, <1>2, ListRead, Zenon
<1>4. jobs = GroupsOf("job-attributes-tag")
  BY DEF GroupsOf
<1>5. current = retained'
  BY <1>1
<1> HIDE DEF jobs, current
<1> QED BY <1>1, <1>2, <1>3, <1>4, <1>5

\* Where the codec reads the answers as what was sent: what is retained changes only
\* with a whole answer to Get-Jobs, accepted and with one positive id for each job,
\* and then it is the jobs CUPS sent; no failure, at any point, changes it.
THEOREM RetainedIsAlwaysAnswered ==
  ASSUME CodecUnderstands
  PROVE  Spec => RetainedIsAnswered
<1>1. Spec => []ExchangeInv
  BY ExchangeInitInv, ExchangeNextInv, PTL DEF Spec
<1> DEFINE Answered ==
      retained' # retained /\ ~ (outcome' = "none" /\ phase' = "idle") =>
        LET jobs == GroupsOf("job-attributes-tag")
        IN /\ todo = "jobs" /\ outcome' = "success" /\ reply.code < 1024
           /\ \A g \in jobs :
                LET id == sentValues(reply.groups[g], "job-id")
                IN /\ Len(id) = 1 /\ id[1][1] = "integer" /\ id[1][2] > 0
                   /\ retained'[id[1][2]] = sentJob(reply.groups[g])
           /\ Cardinality(jobs) = Cardinality(DOMAIN retained')
<1>2. ExchangeInv /\ [Next]_exchangeVars => [Answered]_exchangeVars
  <2> SUFFICES ASSUME ExchangeInv, [Next]_exchangeVars, retained' # retained,
                      ~ (outcome' = "none" /\ phase' = "idle")
               PROVE  Answered
    OBVIOUS
  <2>1. CASE Reconciled
    BY <2>1, ReconciledRead, Zenon
  <2>2. CASE Restart
    BY <2>2 DEF Restart, RequestOver
  <2> QED BY <2>1, <2>2, RetainedStep
<1>3. RetainedIsAnswered <=> [][Answered]_exchangeVars
  BY DEF RetainedIsAnswered
<1> HIDE DEF Answered
<1> QED BY <1>1, <1>2, <1>3, PTL DEF Spec

\* A poll that is under way has a number that can be sent.
LEMMA PollAlwaysSent ==
  ASSUME CodecRefusesBeyond
  PROVE  Spec => [](ExchangeInv /\ PollIsSent)
<1>1. Init => PollIsSent
  BY DEF Init, PollIsSent
<1>2. ExchangeInv /\ PollIsSent /\ [Next]_exchangeVars => PollIsSent'
  <2> SUFFICES ASSUME ExchangeInv, PollIsSent, [Next]_exchangeVars PROVE PollIsSent'
    OBVIOUS
  <2>1. CASE Ask
    <3> SUFFICES ASSUME todo = "poll", nextSequenceNumber = Beyond PROVE FALSE
      BY <2>1 DEF Ask, sessionVars, PollIsSent
    <3>1. PICK n \in 1..LastInteger : subscription = Num(n)
      BY DEF ExchangeInv, SubscriptionIsKnown
    <3>2. Sent = Serialize(getNotificationsRequest(Num(n), Beyond), RequestId)
      BY <3>1 DEF Sent, Request
    <3>3. Throws(Sent)
      BY <3>1, <3>2 DEF CodecRefusesBeyond
    <3> QED BY <2>1, <3>3 DEF Ask
  <2>2. CASE Answer \/ Chunk \/ End \/ ConnectionCut
    <3>1. phase # "idle" /\ UNCHANGED sessionVars
      BY <2>2 DEF Answer, Chunk, End, Whole, ConnectionCut
    <3> QED BY <3>1 DEF PollIsSent, sessionVars
  <2>3. CASE CannotSerialize \/ ConnectionFails \/ ConnectionReset \/ Settle \/ Restart
    <3>1. RequestOver
      BY <2>3 DEF CannotSerialize, ConnectionFails, ConnectionReset, Settle, Rejected, Subscribed,
                  NotSubscribed, Reconciled, NotReconciled, Notified, OtherAnswered, Restart,
                  Fails, Succeeds
    <3> QED BY <3>1 DEF RequestOver, PollIsSent
  <2>4. CASE AskOther
    BY <2>4 DEF AskOther, wireVars, PollIsSent
  <2>5. CASE UNCHANGED exchangeVars
    BY <2>5 DEF exchangeVars, sessionVars, wireVars, PollIsSent
  <2> QED BY <2>1, <2>2, <2>3, <2>4, <2>5 DEF Next
<1> QED BY <1>1, <1>2, ExchangeInitInv, ExchangeNextInv, PTL DEF Spec

\* The numbers in a group of attributes, as it was sent and as it is read.
sentNumbers(group) == {value[2] : value \in ToSet(sentValues(group, "notify-sequence-number"))}
readNumbers(group) ==
  {value[2] : value \in {a.value : a \in {a \in ToSet(group.attributes) :
                           a.name = W("notify-sequence-number") /\ IsA(a.value, "number")}}}

\* The number of an event is read as it was sent.
LEMMA NumberRead ==
  ASSUME NEW sent, NEW read, WellFormed(sent), GroupUnderstood(sent, read),
         Distinct(read.attributes)
  PROVE  readNumbers(read) = sentNumbers(sent)
<1> DEFINE word == "notify-sequence-number"
<1>1. /\ sent.attributes \in Seq(ToSet(sent.attributes))
      /\ read.attributes \in Seq(ToSet(read.attributes))
      /\ DOMAIN read.attributes = DOMAIN sent.attributes
      /\ \A i \in DOMAIN sent.attributes : read.attributes[i].name = sent.attributes[i].name
  BY DEF WellFormed, GroupUnderstood, IsSequence
<1>2. Distinct(sent.attributes)
  BY <1>1 DEF Distinct
<1>3. word \in DOMAIN ReadSyntax /\ ReadSyntax[word] = {"integer"}
  BY Allowed
<1>4. ASSUME NEW i \in DOMAIN sent.attributes, sent.attributes[i].name = W(word)
      PROVE  readNumbers(read) = sentNumbers(sent)
  <2> DEFINE values == sent.attributes[i].values
             n == values[1][2]
  <2>1. sentValues(sent, word) = values
    BY <1>2, <1>4, SentOne
  <2>2. Len(values) = 1 /\ values \in Seq(ToSet(values))
    BY <1>4 DEF WellFormed, IsSequence
  <2>3. /\ \A k \in DOMAIN values : values[k][1] \in ReadSyntax[word]
        /\ Len(values) = 1 => read.attributes[i].value = Meant(W(word), values[1])
    <3>1. word \in DOMAIN ReadSyntax
      BY <1>3
    <3> HIDE DEF word
    <3> QED BY <1>4, <3>1, AttributeRead, Zenon
  <2>4. values[1][1] = "integer" /\ read.attributes[i].value = Meant(W(word), values[1])
    BY <1>3, <2>2, <2>3
  <2>5. read.attributes[i].value = Num(n)
    BY <2>4, MeantOne
  <2>6. ToSet(values) = {values[1]}
    BY <2>2 DEF ToSet
  <2>7. sentNumbers(sent) = {n}
    BY <2>1, <2>6 DEF sentNumbers
  <2>8. \A j \in DOMAIN read.attributes : read.attributes[j].name = W(word) <=> j = i
    BY <1>1, <1>2, <1>4 DEF Distinct
  <2>9. {a \in ToSet(read.attributes) : a.name = W(word) /\ IsA(a.value, "number")}
          = {read.attributes[i]}
    BY <1>1, <1>4, <2>5, <2>8, SMTT(30) DEF ToSet, IsA, Num
  <2> HIDE DEF n, values
  <2>10. readNumbers(read) = {n}
    BY <2>5, <2>9 DEF readNumbers, Num
  <2> QED BY <2>7, <2>10
<1>5. ASSUME \A i \in DOMAIN sent.attributes : sent.attributes[i].name # W(word)
      PROVE  readNumbers(read) = sentNumbers(sent)
  <2>1. sentValues(sent, word) = <<>>
    BY <1>2, <1>5, SentOne
  <2>2. sentNumbers(sent) = {}
    BY <2>1 DEF sentNumbers, ToSet
  <2>3. {a \in ToSet(read.attributes) : a.name = W(word) /\ IsA(a.value, "number")} = {}
    BY <1>1, <1>5 DEF ToSet
  <2>4. readNumbers(read) = {}
    BY <2>3 DEF readNumbers
  <2> QED BY <2>2, <2>4
<1> QED BY <1>4, <1>5

\* The numbers of the events of a message.
sentEvents(message, tag) ==
  UNION {sentNumbers(message.groups[g]) : g \in {g \in DOMAIN message.groups :
                                                   message.groups[g].tag = tag}}
readEvents(message, tag) ==
  UNION {readNumbers(message.groups[g]) : g \in {g \in DOMAIN message.groups :
                                                   message.groups[g].tag = tag}}

\* They are read as they were sent.
LEMMA EventsRead ==
  ASSUME NEW sent, NEW read, Understood(sent, read),
         \A g \in DOMAIN sent.groups : WellFormed(sent.groups[g]),
         ~ HasDuplicateAttribute(read), NEW tag
  PROVE  readEvents(read, tag) = sentEvents(sent, tag)
<1>1. /\ DOMAIN read.groups = DOMAIN sent.groups
      /\ \A g \in DOMAIN sent.groups :
           /\ GroupUnderstood(sent.groups[g], read.groups[g])
           /\ Distinct(read.groups[g].attributes)
           /\ read.groups[g].tag = sent.groups[g].tag
  BY DEF Understood, HasDuplicateAttribute, Distinct, GroupUnderstood
<1>2. \A g \in DOMAIN sent.groups : readNumbers(read.groups[g]) = sentNumbers(sent.groups[g])
  BY <1>1, NumberRead
<1> QED BY <1>1, <1>2 DEF readEvents, sentEvents

\* The greatest number of a response and the number that was next make the next one.
LEMMA HighestNext ==
  ASSUME NEW numbers \in SUBSET Int, NEW n \in 1..LastInteger,
         NEW maxSeen \in 0..LastInteger, maxSeen \in {0} \cup numbers,
         \A x \in numbers : x <= maxSeen
  PROVE  SequenceNumberAfter(maxSeen, Num(n)) =
           LET highest == Max(numbers \cup {n - 1})
           IN IF highest = LastInteger THEN Beyond ELSE Num(highest + 1)
<1> DEFINE all == numbers \cup {n - 1}
           highest == Max(all)
<1>1. highest \in all /\ \A x \in all : x <= highest
  <2>1. all \subseteq Int /\ all # {} /\ \A x \in all : x <= LastInteger
    BY LastIsNumber
  <2>2. LastInteger \in Int
    BY LastIsNumber
  <2> HIDE DEF all
  <2> QED BY <2>1, <2>2, MaxIsGreatest DEF highest
<1> HIDE DEF highest
<1>2. CASE maxSeen < n
  <2>1. highest = n - 1
    BY <1>1, <1>2, LastIsNumber
  <2> QED BY <1>2, <2>1, LastIsNumber DEF SequenceNumberAfter, Num, highest
<1>3. CASE ~ (maxSeen < n)
  <2>1. maxSeen \in numbers
    BY <1>3, LastIsNumber
  <2>2. highest = maxSeen
    BY <1>1, <1>3, <2>1, LastIsNumber
  <2>3. Num(n)[2] = n
    BY DEF Num
  <2> QED BY <1>3, <2>2, <2>3 DEF SequenceNumberAfter, highest
<1> QED BY <1>2, <1>3 DEF highest

\* The step that ends a poll.
LEMMA NotifiedRead ==
  ASSUME CodecUnderstands, ExchangeInv, PollIsSent, Notified
  PROVE  LET events == GroupsOf("event-notification-attributes-tag")
             numbers == UNION {{value[2] : value \in ToSet(sentValues(reply.groups[g],
                                  "notify-sequence-number"))} : g \in events}
             highest == Max(numbers \cup {nextSequenceNumber[2] - 1})
         IN nextSequenceNumber' = IF highest = LastInteger THEN Beyond ELSE Num(highest + 1)
<1> DEFINE events == GroupsOf("event-notification-attributes-tag")
           numbers == UNION {{value[2] : value \in ToSet(sentValues(reply.groups[g],
                                "notify-sequence-number"))} : g \in events}
           read == {value[2] : value \in {v \in NotificationValues("notify-sequence-number") :
                                           IsA(v, "number")}}
<1>1. /\ phase = "answered" /\ todo = "poll" /\ Error = "none"
      /\ nextSequenceNumber' =
           SequenceNumberAfter(maxNotificationSequenceNumber, nextSequenceNumber)
  BY DEF Notified, Accepted
<1>2. /\ Understood(reply, response) /\ ~ HasDuplicateAttribute(response)
      /\ \A g \in DOMAIN reply.groups : WellFormed(reply.groups[g])
  BY <1>1, AnswerRead
<1>3. PICK n \in 1..LastInteger : nextSequenceNumber = Num(n)
  BY <1>1 DEF ExchangeInv, NumberIsKnown, PollIsSent
<1>4. numbers = read
  <2> DEFINE tag == "event-notification-attributes-tag"
  <2>1. readEvents(response, tag) = sentEvents(reply, tag)
    BY <1>2, EventsRead
  <2>2. numbers = sentEvents(reply, tag)
    BY DEF sentEvents, sentNumbers, GroupsOf
  <2>3. ASSUME NEW x \in read PROVE x \in readEvents(response, tag)
    <3>1. PICK a \in NotificationAttributes :
            a.name = W("notify-sequence-number") /\ IsA(a.value, "number") /\ x = a.value[2]
      BY DEF NotificationValues
    <3>2. PICK g \in DOMAIN response.groups :
            response.groups[g].tag = tag /\ a \in ToSet(response.groups[g].attributes)
      BY <3>1 DEF NotificationAttributes
    <3>3. x \in readNumbers(response.groups[g])
      BY <3>1, <3>2 DEF readNumbers
    <3> QED BY <3>2, <3>3 DEF readEvents
  <2>4. ASSUME NEW x \in readEvents(response, tag) PROVE x \in read
    <3>1. PICK g \in DOMAIN response.groups :
            response.groups[g].tag = tag /\ x \in readNumbers(response.groups[g])
      BY DEF readEvents
    <3>2. PICK a \in ToSet(response.groups[g].attributes) :
            a.name = W("notify-sequence-number") /\ IsA(a.value, "number") /\ x = a.value[2]
      BY <3>1 DEF readNumbers
    <3>3. a \in NotificationAttributes
      BY <3>1, <3>2 DEF NotificationAttributes
    <3>4. a.value \in {v \in NotificationValues("notify-sequence-number") : IsA(v, "number")}
      BY <3>2, <3>3 DEF NotificationValues
    <3> QED BY <3>2, <3>4
  <2> HIDE DEF read, numbers
  <2> QED BY <2>1, <2>2, <2>3, <2>4
<1>5. /\ read \subseteq -LastInteger - 1..LastInteger
      /\ maxNotificationSequenceNumber \in {0} \cup read
      /\ maxNotificationSequenceNumber \in 0..LastInteger
      /\ \A x \in read : x <= maxNotificationSequenceNumber
  BY <1>1, NumbersKnown
<1> HIDE DEF read
<1>6. read \in SUBSET Int
  BY <1>5
<1>7. SequenceNumberAfter(maxNotificationSequenceNumber, Num(n)) =
        LET highest == Max(read \cup {n - 1})
        IN IF highest = LastInteger THEN Beyond ELSE Num(highest + 1)
  BY <1>5, <1>6, HighestNext
<1>8. nextSequenceNumber[2] = n
  BY <1>3 DEF Num
<1> HIDE DEF numbers
<1>9. nextSequenceNumber' =
        LET highest == Max(numbers \cup {nextSequenceNumber[2] - 1})
        IN IF highest = LastInteger THEN Beyond ELSE Num(highest + 1)
  BY <1>1, <1>3, <1>4, <1>7, <1>8
<1> QED BY <1>9 DEF numbers

\* Where the codec reads the answers as what was sent and refuses a number beyond the
\* protocol's: a poll takes the next number past the highest of the events CUPS sent,
\* never back, so that no event is read twice and none is skipped.
THEOREM SequenceAlwaysMovesOn ==
  ASSUME CodecUnderstands, CodecRefusesBeyond
  PROVE  Spec => SequenceMovesOn
<1>1. Spec => [](ExchangeInv /\ PollIsSent)
  BY PollAlwaysSent
<1> DEFINE Moved ==
      (todo = "poll" /\ outcome' = "success" /\ phase = "answered") =>
        LET events == GroupsOf("event-notification-attributes-tag")
            numbers == UNION {{value[2] : value \in ToSet(sentValues(reply.groups[g],
                                 "notify-sequence-number"))} : g \in events}
            highest == Max(numbers \cup {nextSequenceNumber[2] - 1})
        IN nextSequenceNumber' = IF highest = LastInteger THEN Beyond ELSE Num(highest + 1)
<1>2. ExchangeInv /\ PollIsSent /\ [Next]_exchangeVars => [Moved]_exchangeVars
  <2> SUFFICES ASSUME ExchangeInv, PollIsSent, Next,
                      todo = "poll", outcome' = "success", phase = "answered"
               PROVE  Moved
    OBVIOUS
  <2>1. CASE Notified
    BY <2>1, NotifiedRead, Zenon
  <2>2. CASE Ask \/ CannotSerialize \/ ConnectionFails \/ Answer \/ Chunk \/ End
             \/ ConnectionReset \/ ConnectionCut \/ AskOther
    BY <2>2 DEF Ask, CannotSerialize, ConnectionFails, Answer, Chunk, End, Whole,
                ConnectionReset, ConnectionCut, AskOther
  <2>3. CASE Rejected
    BY <2>3 DEF Rejected, Fails, Error
  <2>4. CASE NotSubscribed \/ NotReconciled \/ Restart
    BY <2>4 DEF NotSubscribed, NotReconciled, Restart, Fails
  <2>5. CASE Subscribed \/ Reconciled
    BY <2>5 DEF Subscribed, Reconciled, Accepted
  <2>6. CASE OtherAnswered
    BY <2>6, ExchangeAssumption DEF OtherAnswered, Accepted
  <2> QED BY <2>1, <2>2, <2>3, <2>4, <2>5, <2>6 DEF Next, Settle
<1>3. SequenceMovesOn <=> [][Moved]_exchangeVars
  BY DEF SequenceMovesOn
<1> HIDE DEF Moved
<1> QED BY <1>1, <1>2, <1>3, PTL DEF Spec

-----------------------------------------------------------------------------
(* What is sent, with the codec of packages/ipp *)

\* The ids that are drawn for requests are integers of 32 bits.
LEMMA RequestIdIsInteger == RequestId \in Integers32
<1>1. LastRequestId \in Nat /\ LastInteger \in Nat /\ LastRequestId <= LastInteger
  BY DEF LastRequestId, LastInteger
<1>2. RequestId \in 0..LastRequestId
  BY ExchangeAssumption
<1> QED BY <1>1, <1>2 DEF Integers32

\* With the writer of packages/ipp, a poll for a number beyond 32 bits is refused,
\* whatever the id of the subscription: Buffer.writeInt32BE throws (writeInteger).
THEOREM BeyondAlwaysRefused ==
  ASSUME CodecWrites
  PROVE  CodecRefusesBeyond
<1> SUFFICES ASSUME NEW n \in 1..LastInteger
             PROVE  Throws(Serialize(getNotificationsRequest(Num(n), Beyond), RequestId))
  BY DEF CodecRefusesBeyond
<1>1. Throws(serializeIppRequest(getNotificationsRequest(Num(n), Beyond), RequestId))
  BY RequestIdIsInteger, BeyondIsRefused
<1> QED BY <1>1 DEF CodecWrites

\* A request is under way only if it could be written.
RequestIsWritten == phase = "connecting" => ~ Throws(Sent)

\* It always could.
LEMMA RequestAlwaysWritten == Spec => []RequestIsWritten
<1>1. Init => RequestIsWritten
  BY DEF Init, RequestIsWritten
<1>2. RequestIsWritten /\ [Next]_exchangeVars => RequestIsWritten'
  <2> SUFFICES ASSUME RequestIsWritten, [Next]_exchangeVars PROVE RequestIsWritten'
    OBVIOUS
  <2>1. CASE Ask
    <3>1. Request' = Request
      BY <2>1, SameRequest DEF Ask
    <3>2. Sent' = Sent /\ ~ Throws(Sent)
      BY <2>1, <3>1 DEF Ask, Sent
    <3> QED BY <3>2 DEF RequestIsWritten, Throws
  <2>2. CASE Answer \/ Chunk \/ End \/ ConnectionCut
    <3>1. phase' # "connecting"
      BY <2>2 DEF Answer, Chunk, End, Whole, ConnectionCut
    <3> QED BY <3>1 DEF RequestIsWritten
  <2>3. CASE CannotSerialize \/ ConnectionFails \/ ConnectionReset \/ Settle \/ Restart
    <3>1. RequestOver
      BY <2>3 DEF CannotSerialize, ConnectionFails, ConnectionReset, Settle, Rejected, Subscribed,
                  NotSubscribed, Reconciled, NotReconciled, Notified, OtherAnswered, Restart,
                  Fails, Succeeds
    <3> QED BY <3>1 DEF RequestOver, RequestIsWritten
  <2>4. CASE AskOther
    BY <2>4 DEF AskOther, wireVars, RequestIsWritten
  <2>5. CASE UNCHANGED exchangeVars
    <3>1. Request' = Request /\ phase' = phase
      BY <2>5, SameRequest DEF exchangeVars, wireVars
    <3>2. Sent' = Sent
      BY <3>1 DEF Sent
    <3> QED BY <3>1, <3>2 DEF RequestIsWritten, Throws
  <2> QED BY <2>1, <2>2, <2>3, <2>4, <2>5 DEF Next
<1> QED BY <1>1, <1>2, PTL DEF Spec

\* What is under way are requests of readable attributes: those of the session, whose
\* ids and numbers are of the protocol, and those of others that could be written.
LEMMA SentIsReadable ==
  ASSUME CodecWrites, ExchangeInv, PollIsSent, RequestIsWritten, phase = "connecting"
  PROVE  IsReadableRequest(Request)
<1>1. CASE todo = "create"
  <2>1. Request = createPrinterSubscriptionRequest
    BY <1>1 DEF Request
  <2> QED BY <2>1, CreateReadable
<1>2. CASE todo = "jobs"
  <2>1. Request = retainedJobsRequest
    BY <1>2 DEF Request
  <2> QED BY <2>1, JobsReadable
<1>3. CASE todo = "poll"
  <2>1. PICK n \in 1..LastInteger : subscription = Num(n)
    BY <1>3 DEF ExchangeInv, SubscriptionIsKnown
  <2>2. PICK m \in 1..LastInteger : nextSequenceNumber = Num(m)
    BY <1>3 DEF ExchangeInv, NumberIsKnown, PollIsSent
  <2>3. Request = getNotificationsRequest(Num(n), Num(m))
    BY <1>3, <2>1, <2>2 DEF Request
  <2>4. IsReadableRequest(getNotificationsRequest(Num(n), Num(m)))
    BY PollReadable
  <2> QED BY <2>3, <2>4
<1>4. CASE todo \notin {"create", "jobs", "poll"}
  <2>1. todo \in DOMAIN OtherRequests
    BY <1>4 DEF ExchangeInv, TypeOK
  <2>2. Request = OtherRequests[todo]
    BY <1>4 DEF Request
  <2>3. Sent = serializeIppRequest(Request, RequestId)
    BY DEF Sent, CodecWrites
  <2>4. ~ Throws(serializeIppRequest(Request, RequestId))
    BY <2>3 DEF RequestIsWritten
  <2> QED BY <2>1, <2>2, <2>4, RequestsAssumption
<1> QED BY <1>1, <1>2, <1>3, <1>4

\* With the writer of packages/ipp: whatever CUPS answered before, every request the
\* agent sends, and every one of others that can be written, reads back as the
\* attributes it was made of, each once, with its id (the README's "Lossless IPP codec").
THEOREM RequestsAlwaysReadBack ==
  ASSUME CodecWrites
  PROVE  Spec => []RequestReadsBack
<1>1. Spec => [](ExchangeInv /\ PollIsSent)
  BY BeyondAlwaysRefused, PollAlwaysSent
<1>2. ExchangeInv /\ PollIsSent /\ RequestIsWritten => RequestReadsBack
  <2> SUFFICES ASSUME ExchangeInv, PollIsSent, RequestIsWritten, phase = "connecting"
               PROVE  ReadAs(Request, parseIppMessage(Sent)) /\ parseIppMessage(Sent).id = RequestId
    BY DEF RequestReadsBack
  <2>1. IsReadableRequest(Request)
    BY SentIsReadable
  <2>2. Sent = serializeIppRequest(Request, RequestId)
    BY DEF Sent, CodecWrites
  <2>3. /\ ReadAs(Request, parseIppMessage(serializeIppRequest(Request, RequestId)))
        /\ parseIppMessage(serializeIppRequest(Request, RequestId)).id = RequestId
    BY <2>1, RequestIdIsInteger, RequestsReadBack
  <2> QED BY <2>2, <2>3
<1> QED BY <1>1, <1>2, RequestAlwaysWritten, PTL
=============================================================================
