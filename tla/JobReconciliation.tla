-------------------------- MODULE JobReconciliation --------------------------
(***************************************************************************)
(* The retained jobs of the event stream: what a Get-Jobs response says     *)
(* (cups-observation/CupsJobObservation.ts) and what observeRetainedJobs    *)
(* does with it.  A response is a parsed IPP message.                       *)
(***************************************************************************)
EXTENDS IppTables

VARIABLES
  retained,   \* retainedJobsRef: what is known of each job
  told        \* of each job, the observation last published and its anomaly

jobVars == <<retained, told>>

NoJobs == [id \in {} |-> Null]

JobsInit ==
  /\ retained = NoJobs
  /\ told = NoJobs

-----------------------------------------------------------------------------
(* Reading a message *)

attributeGroups(message, tag) ==
  Only(message.groups, {g \in DOMAIN message.groups : message.groups[g].tag = tag})

attributeValues(group, name) ==
  LET named == Only(group.attributes,
                    {i \in DOMAIN group.attributes : group.attributes[i].name = W(name)})
  IN [i \in DOMAIN named |-> named[i].value]

flattenedValues(group, name) ==
  LET values == attributeValues(group, name)
  IN FlattenSeq([i \in DOMAIN values |->
                   IF IsA(values[i], "array") THEN values[i][2] ELSE <<values[i]>>])

singleValue(group, name) ==
  LET values == flattenedValues(group, name)
  IN IF Len(values) = 1 THEN values[1] ELSE <<"undefined">>

nonNegativeInteger(group, name) ==
  LET value == singleValue(group, name)
  IN IF IsA(value, "number") /\ value[2] >= 0 THEN value ELSE Null

CupsJobStates == {K("pending"), K("processing"), K("canceled"), K("aborted"), K("completed"),
                  K("unknown")}

jobState(group) ==
  LET value == singleValue(group, "job-state")
  IN IF value \in CupsJobStates THEN value ELSE K("unknown")

reasons(group) ==
  LET values == flattenedValues(group, "job-state-reasons")
  IN Only(values, {i \in DOMAIN values : IsA(values[i], "string")})

CupsJobObservation(group) ==
  [state |-> jobState(group),
   reasons |-> reasons(group),
   mediaSheetsCompleted |-> nonNegativeInteger(group, "job-media-sheets-completed"),
   impressionsCompleted |-> nonNegativeInteger(group, "job-impressions-completed")]

-----------------------------------------------------------------------------
(* reconcileRetainedCupsJobs *)

jobId(group) == singleValue(group, "job-id")

\* Mutant of ValidJobs: a job with an id that is already taken replaces the other.
ValidIds(groups) ==
  \A g \in DOMAIN groups : IsA(jobId(groups[g]), "number") /\ jobId(groups[g])[2] > 0

\* Each job has one positive id of its own; otherwise the response is refused whole.
ValidJobs(groups) ==
  \A g \in DOMAIN groups :
    /\ IsA(jobId(groups[g]), "number") /\ jobId(groups[g])[2] > 0
    /\ \A h \in DOMAIN groups : jobId(groups[h]) = jobId(groups[g]) => h = g

currentJobs(groups) ==
  [id \in {jobId(groups[g])[2] : g \in DOMAIN groups} |->
     CupsJobObservation(groups[CHOOSE g \in DOMAIN groups : jobId(groups[g])[2] = id])]

\* Mutant of sameObservation: the accounting is not compared.
sameState(left, right) == left.state = right.state /\ left.reasons = right.reasons

sameObservation(left, right) ==
  /\ left.state = right.state
  /\ left.mediaSheetsCompleted = right.mediaSheetsCompleted
  /\ left.impressionsCompleted = right.impressionsCompleted
  /\ left.reasons = right.reasons

changedJobs(previous, current) ==
  {id \in DOMAIN current :
     id \notin DOMAIN previous \/ ~ sameObservation(previous[id], current[id])}

cupsJobAccountingAnomaly(observation) ==
  LET sheets == observation.mediaSheetsCompleted
  IN IF observation.state = K("completed")
     THEN IF sheets = Null THEN "completed-without-media-sheet-accounting"
          ELSE IF sheets = Num(0) THEN "completed-with-zero-media-sheets" ELSE "none"
     ELSE IF observation.state \in {K("canceled"), K("aborted")} /\ sheets # Null /\ sheets # Num(0)
     THEN "unsuccessful-with-media-sheets" ELSE "none"

-----------------------------------------------------------------------------
(* observeRetainedJobs, and the process *)

\* What is published of a job: cups.job.observed, and cups.job.accounting.anomaly
\* if there is one.
Published(observation) == <<observation, cupsJobAccountingAnomaly(observation)>>

Observe(response) ==
  LET groups == attributeGroups(response, "job-attributes-tag")
      current == currentJobs(groups)
      changed == changedJobs(retained, current)
  IN /\ ValidJobs(groups)
     /\ retained' = current
     /\ told' = [id \in DOMAIN told \cup changed |->
                   IF id \in changed THEN Published(current[id]) ELSE told[id]]

RefuseJobs(response) ==
  /\ ~ ValidJobs(attributeGroups(response, "job-attributes-tag"))
  /\ UNCHANGED jobVars

\* A new process knows no job.
ForgetJobs ==
  /\ retained' = NoJobs
  /\ UNCHANGED told

JobsNext == (\E response : Observe(response)) \/ ForgetJobs

JobsSpec == JobsInit /\ [][JobsNext]_jobVars

-----------------------------------------------------------------------------
(* Properties *)

\* A reader of the published events knows every retained job as the agent does,
\* with the accounting anomaly it has now: what sameObservation takes for the
\* same must be the same (README.md: "changed lifecycle/accounting snapshots").
ToldIsRetained ==
  \A id \in DOMAIN retained : id \in DOMAIN told /\ told[id] = Published(retained[id])
=============================================================================
