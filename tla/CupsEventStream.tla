--------------------------- MODULE CupsEventStream ---------------------------
(***************************************************************************)
(* The event stream fiber (live/CupsEventStreamIppLive.ts): it subscribes  *)
(* to the queue's events, observes everything once, then polls             *)
(* Get-Notifications and observes what the notifications call for.  A      *)
(* failed request ends the session: the failure is recorded, and after a   *)
(* backoff a new session subscribes again.                                 *)
(*                                                                         *)
(* A job is known by its version, the number of changes CUPS made to it,   *)
(* a notification by its kind.  CUPS itself (jobs, subscriptions, logs of  *)
(* events) is external and modelled by what the requests expect of it: an  *)
(* event of a change is logged, in order, in every live subscription, and  *)
(* subscriptions never expire (notify-lease-duration 0).  A subscription   *)
(* and the number of its next event outlive a restart of CUPS, the events  *)
(* it had logged do not.                                                   *)
(***************************************************************************)
EXTENDS Naturals, Sequences, FiniteSets

CONSTANTS Jobs, JobSteps,
          MaxSubscriptions,    \* CUPS refuses to hold more (cupsd: 100)
          SubscriptionIds,     \* 1..n: enough for every session the limits allow
          Limits               \* how often each kind of trouble may happen

\* printer: printer events; outages: CUPS goes down; refusals: a running CUPS
\* answers with an error; unanswered: an answer is lost after CUPS acted on the
\* request; uncancelled: a running CUPS refuses to cancel a subscription; stops,
\* crashes: of the agent process.
Troubles == {"printer", "outages", "refusals", "unanswered", "uncancelled", "stops",
             "crashes"}

ASSUME StreamAssumption ==
  /\ JobSteps \in Nat /\ MaxSubscriptions \in Nat
  /\ SubscriptionIds \subseteq Nat \ {0}
  /\ Limits \in [Troubles -> Nat]

VARIABLES
  server,         \* is cupsd answering?
  jobs,           \* the retained jobs, each with its version (0: no such job)
  subscriptions,  \* the subscriptions CUPS holds
  log,            \* the events logged in each subscription; the sequence number
                  \* of an event is its position, also where it is "lost"
  spent,          \* the troubles so far, for the limits
  pc,             \* where run() is
  subscription,   \* subscriptionId of the session, 0 before it has one
  nextSequenceNumber,
  todo,           \* observations the session still owes: "printer", "jobs"
  answer,         \* the jobs of the Get-Jobs response in hand
  retained,       \* retainedJobsRef (0: not in the map)
  held,           \* subscriptions whose release the scope of run() still owes
  reports         \* the versions this process has published, per job

cupsVars == <<server, jobs, subscriptions, log>>
sessionVars == <<subscription, nextSequenceNumber, todo, answer>>
streamVars == <<cupsVars, spent, pc, sessionVars, retained, held, reports>>

NoJobs == [j \in Jobs |-> 0]

Init ==
  /\ server = "up"
  /\ jobs = NoJobs
  /\ subscriptions = {}
  /\ log = [s \in SubscriptionIds |-> <<>>]
  /\ spent = [trouble \in Troubles |-> 0]
  /\ pc = "create"
  /\ subscription = 0 /\ nextSequenceNumber = 1 /\ todo = {} /\ answer = NoJobs
  /\ retained = NoJobs
  /\ held = {}
  /\ reports = [j \in Jobs |-> <<>>]

-----------------------------------------------------------------------------
(* CUPS *)

Spend(trouble) == /\ spent[trouble] < Limits[trouble]
                  /\ spent' = [spent EXCEPT ![trouble] = @ + 1]

Logged(kind) ==
  [s \in SubscriptionIds |-> IF s \in subscriptions THEN Append(log[s], kind) ELSE log[s]]

JobAdvances(j) ==
  /\ server = "up" /\ jobs[j] < JobSteps
  /\ jobs' = [jobs EXCEPT ![j] = @ + 1]
  /\ log' = Logged("jobs")
  /\ UNCHANGED <<server, subscriptions, spent, pc, sessionVars, retained, held,
                 reports>>

PrinterChanges ==
  /\ server = "up" /\ Spend("printer")
  /\ log' = Logged("printer")
  /\ UNCHANGED <<server, jobs, subscriptions, pc, sessionVars,
                 retained, held, reports>>

CupsStops ==
  /\ server = "up" /\ Spend("outages")
  /\ server' = "down"
  /\ UNCHANGED <<jobs, subscriptions, log, pc, sessionVars,
                 retained, held, reports>>

\* Subscriptions are kept on disk, but the newest may not have been saved.  Of an event
\* that CUPS had logged only the number is kept.
CupsStarts ==
  /\ server = "down"
  /\ server' = "up"
  /\ \E saved \in {subscriptions, subscriptions \ {subscription}} :
       subscriptions' = saved
  /\ log' = [s \in SubscriptionIds |-> [i \in DOMAIN log[s] |-> "lost"]]
  /\ UNCHANGED <<jobs, spent, pc, sessionVars, retained, held, reports>>

-----------------------------------------------------------------------------
(* One session *)

\* Mutant of Create: only the printer is observed after connecting.
CreateWithoutJobs ==
  /\ pc = "create" /\ server = "up"
  /\ Cardinality(subscriptions) < MaxSubscriptions
  /\ \E s \in SubscriptionIds \ (subscriptions \cup held) :
       /\ subscriptions' = subscriptions \cup {s}
       /\ log' = [log EXCEPT ![s] = <<>>]
       /\ held' = held \cup {s}
       /\ subscription' = s
  /\ nextSequenceNumber' = 1
  /\ todo' = {"printer"}
  /\ pc' = "work"
  /\ UNCHANGED <<server, jobs, spent, answer, retained, reports>>

\* acquireRelease(createPrinterSubscription): the new id, its release owed by
\* the scope, and everything to observe afresh.
Create ==
  /\ pc = "create" /\ server = "up"
  /\ Cardinality(subscriptions) < MaxSubscriptions
  /\ \E s \in SubscriptionIds \ (subscriptions \cup held) :
       /\ \A t \in SubscriptionIds : t < s => t \in subscriptions \cup held
       /\ subscriptions' = subscriptions \cup {s}
       /\ log' = [log EXCEPT ![s] = <<>>]
       /\ held' = held \cup {s}
       /\ subscription' = s
  /\ nextSequenceNumber' = 1
  /\ todo' = {"printer", "jobs"}
  /\ pc' = "work"
  /\ UNCHANGED <<server, jobs, spent, answer, retained, reports>>

\* CUPS makes the subscription, but its answer is lost or has no id the code
\* accepts: no release is ever owed for it.
CreateUnanswered ==
  /\ pc = "create" /\ server = "up"
  /\ Cardinality(subscriptions) < MaxSubscriptions
  /\ Spend("unanswered")
  /\ \E s \in SubscriptionIds \ (subscriptions \cup held) :
       /\ \A t \in SubscriptionIds : t < s => t \in subscriptions \cup held
       /\ subscriptions' = subscriptions \cup {s}
       /\ log' = [log EXCEPT ![s] = <<>>]
  /\ pc' = "record"
  /\ UNCHANGED <<server, jobs, sessionVars, held, retained, reports>>

\* observeNow, a call into the status runtime that cannot fail.
CallObserve ==
  /\ pc = "work" /\ "printer" \in todo
  /\ pc' = "observing"
  /\ UNCHANGED <<cupsVars, spent, sessionVars, retained, held, reports>>

ObserveReturns ==
  /\ pc = "observing"
  /\ todo' = todo \ {"printer"}
  /\ pc' = "work"
  /\ UNCHANGED <<cupsVars, spent, subscription, nextSequenceNumber, answer, retained,
                 held, reports>>

\* observeRetainedJobs: the request, then what is done with its response.
GetJobs ==
  /\ pc = "work" /\ todo = {"jobs"} /\ server = "up"
  /\ answer' = jobs
  /\ pc' = "reconcile"
  /\ UNCHANGED <<cupsVars, spent, subscription, nextSequenceNumber, todo, retained,
                 held, reports>>

\* Mutant of ChangedJobs: a snapshot is not compared with the one before.
PresentJobs(previous, current) == {j \in Jobs : current[j] # 0}

ChangedJobs(previous, current) ==
  {j \in Jobs : current[j] # 0 /\ current[j] # previous[j]}

Reconcile ==
  /\ pc = "reconcile"
  /\ retained' = answer
  /\ reports' = [j \in Jobs |-> IF j \in ChangedJobs(retained, answer)
                                THEN Append(reports[j], answer[j]) ELSE reports[j]]
  /\ answer' = NoJobs
  /\ todo' = {}
  /\ pc' = "work"
  /\ UNCHANGED <<cupsVars, spent, subscription, nextSequenceNumber, held>>

\* Nothing owed: poll again, at once or after the notify-get-interval.
NothingOwed ==
  /\ pc = "work" /\ todo = {}
  /\ pc' = "poll"
  /\ UNCHANGED <<cupsVars, spent, sessionVars, retained, held, reports>>

\* What CUPS answers a request for the events from the next number on.
Unread == {i \in DOMAIN log[subscription] :
             i >= nextSequenceNumber /\ log[subscription][i] # "lost"}

\* Mutant of Poll: the next number is one too high.
PollSkips ==
  /\ pc = "poll" /\ server = "up" /\ subscription \in subscriptions
  /\ nextSequenceNumber' =
       IF Unread = {} THEN nextSequenceNumber ELSE Len(log[subscription]) + 2
  /\ todo' = {log[subscription][i] : i \in Unread}
  /\ pc' = "work"
  /\ UNCHANGED <<cupsVars, spent, subscription, answer, retained, held, reports>>

\* Get-Notifications and decideCupsNotification: the events from the next
\* number on; the highest of them moves it, their kinds decide what is owed.
Poll ==
  /\ pc = "poll" /\ server = "up" /\ subscription \in subscriptions
  /\ nextSequenceNumber' =
       IF Unread = {} THEN nextSequenceNumber ELSE Len(log[subscription]) + 1
  /\ todo' = {log[subscription][i] : i \in Unread}
  /\ pc' = "work"
  /\ UNCHANGED <<cupsVars, spent, subscription, answer, retained, held, reports>>

-----------------------------------------------------------------------------
(* The end of a session, and of the process *)

Requesting == pc \in {"create", "poll"} \/ (pc = "work" /\ todo = {"jobs"})

\* The request in flight cannot be answered with success.
Hopeless ==
  \/ server = "down"
  \/ pc = "create" /\ Cardinality(subscriptions) >= MaxSubscriptions
  \/ pc = "poll" /\ subscription \notin subscriptions

\* Mutant of SessionOver: the next session starts with the old subscription.
SessionOverKeepsId ==
  /\ pc' = "record"
  /\ nextSequenceNumber' = 1 /\ todo' = {}
  /\ UNCHANGED <<cupsVars, subscription, answer, retained, held, reports>>

SessionOver ==
  /\ pc' = "record"
  /\ subscription' = 0 /\ nextSequenceNumber' = 1 /\ todo' = {}
  /\ UNCHANGED <<cupsVars, answer, retained, held, reports>>

\* CupsIppUnavailable, or an error status of a CUPS that cannot serve it.
RequestFails ==
  /\ Requesting /\ Hopeless
  /\ SessionOver
  /\ UNCHANGED spent

\* CupsIppProtocolError: CUPS answers, with an error or with a response the
\* code refuses (no subscription id, an invalid or duplicate job id).
RequestRefused ==
  /\ Requesting /\ ~ Hopeless /\ Spend("refusals")
  /\ SessionOver

\* recordCupsDisconnected, a call into the status runtime.
CallRecord ==
  /\ pc = "record"
  /\ pc' = "recording"
  /\ UNCHANGED <<cupsVars, spent, sessionVars, retained, held, reports>>

RecordReturns ==
  /\ pc = "recording"
  /\ pc' = "backoff"
  /\ UNCHANGED <<cupsVars, spent, sessionVars, retained, held, reports>>

\* Mutant of Retry: nobody is left to release the subscription of the session.
RetryForgets ==
  /\ pc = "backoff"
  /\ pc' = "create"
  /\ held' = {}
  /\ UNCHANGED <<cupsVars, spent, sessionVars, retained, reports>>

\* Effect.retry(reconnectSchedule) runs the session again.  The scope is that of
\* run(), outside the retry: the subscription of the failed session stays held.
Retry ==
  /\ pc = "backoff"
  /\ pc' = "create"
  /\ UNCHANGED <<cupsVars, spent, sessionVars, retained, held, reports>>

\* The process is told to stop: run() is interrupted and its scope closes.
Stop ==
  /\ pc \notin {"closing", "stopped"} /\ Spend("stops")
  /\ pc' = "closing"
  /\ subscription' = 0 /\ nextSequenceNumber' = 1 /\ todo' = {} /\ answer' = NoJobs
  /\ UNCHANGED <<cupsVars, retained, held, reports>>

\* cancelSubscription of the newest held id, as a scope closes; that it fails because
\* CUPS is down is ignored.
Release ==
  /\ pc = "closing"
  /\ \E s \in held :
       /\ \A t \in held : t <= s
       /\ held' = held \ {s}
       /\ IF server = "up"
          THEN /\ subscriptions' = subscriptions \ {s}
               /\ log' = [log EXCEPT ![s] = <<>>]
          ELSE UNCHANGED <<subscriptions, log>>
  /\ UNCHANGED <<server, jobs, spent, pc, sessionVars, retained, reports>>

\* A running CUPS refuses the Cancel-Subscription: that is ignored as well, and nobody
\* is left to release the subscription.
ReleaseRefused ==
  /\ pc = "closing" /\ server = "up" /\ Spend("uncancelled")
  /\ \E s \in held \cap subscriptions :
       /\ \A t \in held : t <= s
       /\ held' = held \ {s}
  /\ UNCHANGED <<cupsVars, pc, sessionVars, retained, reports>>

Closed ==
  /\ pc = "closing" /\ held = {}
  /\ pc' = "stopped"
  /\ UNCHANGED <<cupsVars, spent, sessionVars, retained, held, reports>>

\* The process dies at any point: no release is run.
Crash ==
  /\ pc # "stopped" /\ Spend("crashes")
  /\ pc' = "stopped"
  /\ subscription' = 0 /\ nextSequenceNumber' = 1 /\ todo' = {} /\ answer' = NoJobs
  /\ held' = {}
  /\ UNCHANGED <<cupsVars, retained, reports>>

\* systemd starts a new process, with an empty map and nothing held.
Restart ==
  /\ pc = "stopped"
  /\ pc' = "create"
  /\ retained' = NoJobs
  /\ reports' = [j \in Jobs |-> <<>>]
  /\ UNCHANGED <<cupsVars, spent, sessionVars, held>>

-----------------------------------------------------------------------------
Session == \/ Create \/ CallObserve \/ ObserveReturns \/ GetJobs \/ Reconcile
           \/ NothingOwed \/ Poll
           \/ RequestFails \/ CallRecord \/ RecordReturns \/ Retry
           \/ Release \/ Closed \/ Restart

Next == \/ \E j \in Jobs : JobAdvances(j)
        \/ PrinterChanges \/ CupsStops \/ CupsStarts
        \/ CreateUnanswered \/ RequestRefused \/ ReleaseRefused \/ Stop \/ Crash
        \/ Session

Spec == Init /\ [][Next]_streamVars

\* Every await of the stream settles; systemd restarts the process.
FairSpec == Spec /\ WF_streamVars(Session)

-----------------------------------------------------------------------------
(* Properties *)

Positions == {"create", "work", "observing", "reconcile", "poll", "record", "recording",
              "backoff", "closing", "stopped"}
InSession == pc \in {"work", "observing", "reconcile", "poll"}

CupsTyped ==
  /\ server \in {"up", "down"}
  /\ jobs \in [Jobs -> 0..JobSteps]
  /\ subscriptions \subseteq SubscriptionIds
  /\ IsFiniteSet(subscriptions) /\ Cardinality(subscriptions) <= MaxSubscriptions
  /\ log \in [SubscriptionIds -> Seq({"printer", "jobs", "lost"})]

TroublesTyped ==
  /\ spent \in [Troubles -> Nat]
  /\ \A trouble \in Troubles : spent[trouble] <= Limits[trouble]

SessionTyped ==
  /\ pc \in Positions
  /\ IF InSession THEN subscription \in held ELSE subscription = 0
  /\ nextSequenceNumber \in Nat \ {0}
  /\ todo \subseteq {"printer", "jobs"}
  /\ pc = "observing" => "printer" \in todo
  /\ pc = "reconcile" => todo = {"jobs"}
  /\ pc \notin {"work", "observing", "reconcile"} => todo = {}
  /\ answer \in [Jobs -> 0..JobSteps]
  /\ pc # "reconcile" => answer = NoJobs

ProcessTyped ==
  /\ retained \in [Jobs -> 0..JobSteps]
  /\ held \subseteq SubscriptionIds
  /\ reports \in [Jobs -> Seq(1..JobSteps)]

\* Type invariant: a session has a subscription of its own, it holds an answer
\* only while it reconciles, and CUPS never holds too many subscriptions.
TypeOK == CupsTyped /\ TroublesTyped /\ SessionTyped /\ ProcessTyped

\* What the session will know of job j once it has dealt with what it holds.
Known(j) == IF pc = "reconcile" THEN answer[j] ELSE retained[j]

\* Events were lost with a CUPS that restarted, and no event of a job has followed.
Forgotten == /\ \E i \in DOMAIN log[subscription] : log[subscription][i] = "lost"
             /\ \A i \in DOMAIN log[subscription] : log[subscription][i] # "jobs"

\* A session whose subscription CUPS still holds never loses track of a job: a version
\* it does not know is followed by an event it has yet to read, or it owes a Get-Jobs,
\* unless it slept through a restart of CUPS that lost the event, and only until the next
\* event of a job.  This is what subscribing before the first Get-Jobs, and moving
\* nextSequenceNumber before the Get-Jobs of a notification (runNotificationSession,
\* decideCupsNotification), are for.
NoChangeIsMissed ==
  (InSession /\ subscription \in subscriptions) =>
    \A j \in Jobs : jobs[j] # Known(j) =>
      \/ "jobs" \in todo /\ pc # "reconcile"
      \/ \E i \in Unread : log[subscription][i] = "jobs"
      \/ Forgotten

\* As long as neither the process nor CUPS went away, the scope of run() owes nothing
\* that is not there, and of the subscriptions CUPS holds it owes the release of all but
\* one for each answer to a Create that was lost and each Cancel that was refused
\* (CupsEventStreamIppLive.ts:66, :97): the sessions that failed in between add none,
\* and after a stop no more than these are left behind.
EverySubscriptionIsOwed ==
  (spent["crashes"] = 0 /\ spent["outages"] = 0) =>
    /\ held \subseteq subscriptions
    /\ Cardinality(subscriptions \ held) <= spent["unanswered"] + spent["uncancelled"]

\* What a reader of cups.job.observed is promised (README.md: the agent "emits
\* changed lifecycle/accounting snapshots"): newer and newer versions of a job.
Feed == INSTANCE JobFeed WITH Jobs <- Jobs, JobSteps <- JobSteps,
                              jobs <- jobs, reports <- reports
ImplementsFeed == Feed!Spec

\* Once CUPS stays up, the last published version of every job becomes, and
\* stays, the one CUPS has, whatever failed before, but for a session that goes on
\* with a subscription whose events were lost.
EventuallyReported ==
  <>[](server = "up") =>
    \A j \in Jobs : <>[](Feed!LastReport(j) = jobs[j] \/ (InSession /\ Forgotten))

\* docs/adr-0001: the observer "reconciles CUPS' retained Get-Jobs snapshots
\* after connecting and after job notifications".  With CUPS up for good, a
\* changed job is reconciled again and again, or is up to date.
KeepsReconciling ==
  <>[](server = "up") => \A j \in Jobs : []<>(retained[j] = jobs[j])
=============================================================================
