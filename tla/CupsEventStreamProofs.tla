------------------------ MODULE CupsEventStreamProofs ------------------------
(***************************************************************************)
(* Proofs about CupsEventStream, for any jobs, subscription ids and limits. *)
(* The inductive invariant IInv says where a session stands in the log of  *)
(* its subscription, over restarts of CUPS that lose the events, and that  *)
(* retained is what was published last; from it follow NoChangeIsMissed,   *)
(* EverySubscriptionIsOwed and the refinement of JobFeed.                  *)
(***************************************************************************)
EXTENDS CupsEventStream, TLAPS, FiniteSetTheorems, SequenceTheorems

\* The session never asks for a number further than the next one to come.
NumberInLog ==
  (InSession /\ subscription \in subscriptions)
    => nextSequenceNumber <= Len(log[subscription]) + 1

\* An absent CUPS, an outage that was counted.
OutageCounted == server = "down" => spent["outages"] > 0

\* retainedJobsRef is what this process has published last of each job, and
\* never ahead of CUPS; an answer in hand lies between the two.
Published == \A j \in Jobs : retained[j] = Feed!LastReport(j)
VersionsInOrder ==
  \A j \in Jobs : /\ retained[j] <= jobs[j]
                  /\ pc = "reconcile" => retained[j] <= answer[j] /\ answer[j] <= jobs[j]

IInv == /\ TypeOK /\ NumberInLog /\ NoChangeIsMissed
        /\ OutageCounted /\ EverySubscriptionIsOwed
        /\ Published /\ VersionsInOrder

-----------------------------------------------------------------------------
(* Types *)

LEMMA InitTyped == Init => TypeOK
  <1>. SUFFICES ASSUME Init PROVE TypeOK
    OBVIOUS
  <1>1. CupsTyped
    BY StreamAssumption, FS_EmptySet DEF Init, CupsTyped, NoJobs
  <1>2. TroublesTyped
    BY StreamAssumption DEF Init, TroublesTyped
  <1>3. SessionTyped /\ ProcessTyped
    BY StreamAssumption DEF Init, SessionTyped, ProcessTyped, NoJobs, Positions, InSession
  <1>. QED BY <1>1, <1>2, <1>3 DEF TypeOK

\* A counted trouble stays within its limit.
LEMMA SpendTyped ==
  ASSUME NEW trouble \in Troubles, TroublesTyped, Spend(trouble)
  PROVE  TroublesTyped'
  <1>1. spent \in [Troubles -> Nat] /\ Limits \in [Troubles -> Nat]
    BY StreamAssumption DEF TroublesTyped
  <1>2. spent' = [spent EXCEPT ![trouble] = @ + 1] /\ spent[trouble] < Limits[trouble]
    BY DEF Spend
  <1>3. spent' \in [Troubles -> Nat]
    BY <1>1, <1>2
  <1>4. ASSUME NEW t \in Troubles PROVE spent'[t] <= Limits[t]
    <2>1. CASE t = trouble
      <3>1. spent'[t] = spent[t] + 1 BY <1>1, <1>2, <2>1
      <3>2. spent[t] \in Nat /\ Limits[t] \in Nat BY <1>1
      <3>. QED BY <1>2, <2>1, <3>1, <3>2
    <2>2. CASE t # trouble
      BY <1>1, <1>2, <2>2 DEF TroublesTyped
    <2>. QED BY <2>1, <2>2
  <1>. QED BY <1>3, <1>4 DEF TroublesTyped

\* A new subscription is made only below the number CUPS accepts.
LEMMA OneMoreFits ==
  ASSUME CupsTyped, NEW s \in SubscriptionIds, s \notin subscriptions,
         Cardinality(subscriptions) < MaxSubscriptions
  PROVE  /\ IsFiniteSet(subscriptions \cup {s})
         /\ Cardinality(subscriptions \cup {s}) <= MaxSubscriptions
  <1>1. IsFiniteSet(subscriptions) BY DEF CupsTyped
  <1>2. Cardinality(subscriptions) \in Nat BY <1>1, FS_CardinalityType
  <1>3. /\ IsFiniteSet(subscriptions \cup {s})
        /\ Cardinality(subscriptions \cup {s}) = Cardinality(subscriptions) + 1
    BY <1>1, FS_AddElement
  <1>. QED BY <1>2, <1>3, StreamAssumption

\* Losing or releasing one keeps the set small.
LEMMA OneLessFits ==
  ASSUME CupsTyped, NEW s
  PROVE  /\ IsFiniteSet(subscriptions \ {s})
         /\ Cardinality(subscriptions \ {s}) <= MaxSubscriptions
  <1>1. IsFiniteSet(subscriptions) BY DEF CupsTyped
  <1>2. /\ IsFiniteSet(subscriptions \ {s})
        /\ Cardinality(subscriptions \ {s}) <= Cardinality(subscriptions)
    BY <1>1, FS_Subset
  <1>3. /\ Cardinality(subscriptions) \in Nat
        /\ Cardinality(subscriptions \ {s}) \in Nat
        /\ Cardinality(subscriptions) <= MaxSubscriptions
    BY <1>1, <1>2, FS_CardinalityType DEF CupsTyped
  <1>. QED BY <1>2, <1>3, StreamAssumption

\* The logs after a restart of CUPS: as long as before, and all is lost.
LEMMA LostLogs ==
  ASSUME CupsTyped, log' = [s \in SubscriptionIds |-> [i \in DOMAIN log[s] |-> "lost"]]
  PROVE  /\ log' \in [SubscriptionIds -> Seq({"printer", "jobs", "lost"})]
         /\ \A s \in SubscriptionIds :
              /\ Len(log'[s]) = Len(log[s]) /\ DOMAIN log'[s] = DOMAIN log[s]
              /\ \A i \in DOMAIN log[s] : log'[s][i] = "lost"
  <1>1. ASSUME NEW s \in SubscriptionIds
        PROVE  /\ log'[s] \in Seq({"printer", "jobs", "lost"})
               /\ Len(log'[s]) = Len(log[s]) /\ DOMAIN log'[s] = DOMAIN log[s]
               /\ \A i \in DOMAIN log[s] : log'[s][i] = "lost"
    <2>1. log[s] \in Seq({"printer", "jobs", "lost"})
      BY DEF CupsTyped
    <2>2. DOMAIN log[s] = 1..Len(log[s]) /\ Len(log[s]) \in Nat
      BY <2>1
    <2>3. log'[s] = [i \in 1..Len(log[s]) |-> "lost"]
      BY <2>2
    <2>. QED BY <2>2, <2>3
  <1>. QED BY <1>1

LEMMA StepCupsTyped == TypeOK /\ [Next]_streamVars => CupsTyped'
  <1>. SUFFICES ASSUME TypeOK, [Next]_streamVars PROVE CupsTyped'
    OBVIOUS
  <1>. USE StreamAssumption
  <1>1. CASE \E j \in Jobs : JobAdvances(j)
    BY <1>1 DEF TypeOK, CupsTyped, JobAdvances, Logged, cupsVars
  <1>2. CASE PrinterChanges
    BY <1>2 DEF TypeOK, CupsTyped, PrinterChanges, Logged, cupsVars
  <1>3. CASE CupsStops
    BY <1>3 DEF TypeOK, CupsTyped, CupsStops, cupsVars
  <1>4. CASE CupsStarts
    <2>1. log' \in [SubscriptionIds -> Seq({"printer", "jobs", "lost"})]
      BY <1>4, LostLogs DEF TypeOK, CupsStarts
    <2>. QED BY <1>4, <2>1, OneLessFits DEF TypeOK, CupsTyped, CupsStarts
  <1>5. CASE Create
    <2>1. PICK s \in SubscriptionIds \ subscriptions :
             /\ subscriptions' = subscriptions \cup {s}
             /\ log' = [log EXCEPT ![s] = <<>>]
      BY <1>5 DEF Create
    <2>2. /\ Cardinality(subscriptions) < MaxSubscriptions
          /\ UNCHANGED <<server, jobs>>
      BY <1>5 DEF Create
    <2>3. IsFiniteSet(subscriptions') /\ Cardinality(subscriptions') <= MaxSubscriptions
      BY <2>1, <2>2, OneMoreFits DEF TypeOK
    <2>4. log' \in [SubscriptionIds -> Seq({"printer", "jobs", "lost"})]
      BY <2>1 DEF TypeOK, CupsTyped
    <2>. QED BY <2>1, <2>2, <2>3, <2>4 DEF TypeOK, CupsTyped
  <1>6. CASE CreateUnanswered
    <2>1. PICK s \in SubscriptionIds \ subscriptions :
             /\ subscriptions' = subscriptions \cup {s}
             /\ log' = [log EXCEPT ![s] = <<>>]
      BY <1>6 DEF CreateUnanswered
    <2>2. /\ Cardinality(subscriptions) < MaxSubscriptions
          /\ UNCHANGED <<server, jobs>>
      BY <1>6 DEF CreateUnanswered
    <2>3. IsFiniteSet(subscriptions') /\ Cardinality(subscriptions') <= MaxSubscriptions
      BY <2>1, <2>2, OneMoreFits DEF TypeOK
    <2>4. log' \in [SubscriptionIds -> Seq({"printer", "jobs", "lost"})]
      BY <2>1 DEF TypeOK, CupsTyped
    <2>. QED BY <2>1, <2>2, <2>3, <2>4 DEF TypeOK, CupsTyped
  <1>7. CASE CallObserve
    BY <1>7 DEF TypeOK, CupsTyped, CallObserve, cupsVars
  <1>8. CASE ObserveReturns
    BY <1>8 DEF TypeOK, CupsTyped, ObserveReturns, cupsVars
  <1>9. CASE GetJobs
    BY <1>9 DEF TypeOK, CupsTyped, GetJobs, cupsVars
  <1>10. CASE Reconcile
    BY <1>10 DEF TypeOK, CupsTyped, Reconcile, cupsVars
  <1>11. CASE NothingOwed
    BY <1>11 DEF TypeOK, CupsTyped, NothingOwed, cupsVars
  <1>12. CASE Poll
    BY <1>12 DEF TypeOK, CupsTyped, Poll, cupsVars
  <1>13. CASE RequestFails
    BY <1>13 DEF TypeOK, CupsTyped, RequestFails, SessionOver, cupsVars
  <1>14. CASE RequestRefused
    BY <1>14 DEF TypeOK, CupsTyped, RequestRefused, SessionOver, cupsVars
  <1>15. CASE CallRecord
    BY <1>15 DEF TypeOK, CupsTyped, CallRecord, cupsVars
  <1>16. CASE RecordReturns
    BY <1>16 DEF TypeOK, CupsTyped, RecordReturns, cupsVars
  <1>17. CASE Retry
    BY <1>17 DEF TypeOK, CupsTyped, Retry, cupsVars
  <1>18. CASE Stop
    BY <1>18 DEF TypeOK, CupsTyped, Stop, cupsVars
  <1>19. CASE Release
    <2>1. PICK s \in SubscriptionIds : log' \in {[log EXCEPT ![s] = <<>>], log}
      BY <1>19 DEF Release, TypeOK, ProcessTyped
    <2>2. [log EXCEPT ![s] = <<>>] \in [SubscriptionIds -> Seq({"printer", "jobs", "lost"})]
      BY <2>1 DEF TypeOK, CupsTyped
    <2> QED BY <1>19, <2>1, <2>2, OneLessFits DEF TypeOK, CupsTyped, Release
  <1>20. CASE Closed
    BY <1>20 DEF TypeOK, CupsTyped, Closed, cupsVars
  <1>21. CASE Crash
    BY <1>21 DEF TypeOK, CupsTyped, Crash, cupsVars
  <1>22. CASE Restart
    BY <1>22 DEF TypeOK, CupsTyped, Restart, cupsVars
  <1>23. CASE UNCHANGED streamVars
    BY <1>23 DEF TypeOK, CupsTyped, streamVars, cupsVars
  <1>24. CASE ReleaseRefused
    BY <1>24 DEF TypeOK, CupsTyped, ReleaseRefused, cupsVars
  <1>. QED
    BY <1>1, <1>2, <1>3, <1>4, <1>5, <1>6, <1>7, <1>8, <1>9, <1>10, <1>11, <1>12,
       <1>13, <1>14, <1>15, <1>16, <1>17, <1>18, <1>19, <1>20, <1>21, <1>22, <1>23, <1>24
    DEF Next, Session

LEMMA StepTroublesTyped == TypeOK /\ [Next]_streamVars => TroublesTyped'
  <1>. SUFFICES ASSUME TypeOK, [Next]_streamVars PROVE TroublesTyped'
    OBVIOUS
  <1>. USE StreamAssumption
  <1>1. CASE \E j \in Jobs : JobAdvances(j)
    BY <1>1 DEF TypeOK, TroublesTyped, JobAdvances
  <1>2. CASE PrinterChanges
    BY <1>2, SpendTyped DEF TypeOK, PrinterChanges, Troubles
  <1>3. CASE CupsStops
    BY <1>3, SpendTyped DEF TypeOK, CupsStops, Troubles
  <1>4. CASE CupsStarts
    BY <1>4 DEF TypeOK, TroublesTyped, CupsStarts
  <1>5. CASE Create
    BY <1>5 DEF TypeOK, TroublesTyped, Create
  <1>6. CASE CreateUnanswered
    BY <1>6, SpendTyped DEF TypeOK, CreateUnanswered, Troubles
  <1>7. CASE CallObserve
    BY <1>7 DEF TypeOK, TroublesTyped, CallObserve
  <1>8. CASE ObserveReturns
    BY <1>8 DEF TypeOK, TroublesTyped, ObserveReturns
  <1>9. CASE GetJobs
    BY <1>9 DEF TypeOK, TroublesTyped, GetJobs
  <1>10. CASE Reconcile
    BY <1>10 DEF TypeOK, TroublesTyped, Reconcile
  <1>11. CASE NothingOwed
    BY <1>11 DEF TypeOK, TroublesTyped, NothingOwed
  <1>12. CASE Poll
    BY <1>12 DEF TypeOK, TroublesTyped, Poll
  <1>13. CASE RequestFails
    BY <1>13 DEF TypeOK, TroublesTyped, RequestFails
  <1>14. CASE RequestRefused
    BY <1>14, SpendTyped DEF TypeOK, RequestRefused, Troubles
  <1>15. CASE CallRecord
    BY <1>15 DEF TypeOK, TroublesTyped, CallRecord
  <1>16. CASE RecordReturns
    BY <1>16 DEF TypeOK, TroublesTyped, RecordReturns
  <1>17. CASE Retry
    BY <1>17 DEF TypeOK, TroublesTyped, Retry
  <1>18. CASE Stop
    BY <1>18, SpendTyped DEF TypeOK, Stop, Troubles
  <1>19. CASE Release
    BY <1>19 DEF TypeOK, TroublesTyped, Release
  <1>20. CASE Closed
    BY <1>20 DEF TypeOK, TroublesTyped, Closed
  <1>21. CASE Crash
    BY <1>21, SpendTyped DEF TypeOK, Crash, Troubles
  <1>22. CASE Restart
    BY <1>22 DEF TypeOK, TroublesTyped, Restart
  <1>23. CASE UNCHANGED streamVars
    BY <1>23 DEF TypeOK, TroublesTyped, streamVars
  <1>24. CASE ReleaseRefused
    BY <1>24, SpendTyped DEF TypeOK, ReleaseRefused, Troubles
  <1>. QED
    BY <1>1, <1>2, <1>3, <1>4, <1>5, <1>6, <1>7, <1>8, <1>9, <1>10, <1>11, <1>12,
       <1>13, <1>14, <1>15, <1>16, <1>17, <1>18, <1>19, <1>20, <1>21, <1>22, <1>23, <1>24
    DEF Next, Session

LEMMA StepSessionTyped == TypeOK /\ [Next]_streamVars => SessionTyped'
  <1>. SUFFICES ASSUME TypeOK, [Next]_streamVars PROVE SessionTyped'
    OBVIOUS
  <1>. USE StreamAssumption
  <1>1. CASE \E j \in Jobs : JobAdvances(j)
    BY <1>1 DEF TypeOK, SessionTyped, CupsTyped, ProcessTyped, JobAdvances,
             Positions, InSession, NoJobs, sessionVars
  <1>2. CASE PrinterChanges
    BY <1>2 DEF TypeOK, SessionTyped, CupsTyped, ProcessTyped, PrinterChanges,
             Positions, InSession, NoJobs, sessionVars
  <1>3. CASE CupsStops
    BY <1>3 DEF TypeOK, SessionTyped, CupsTyped, ProcessTyped, CupsStops,
             Positions, InSession, NoJobs, sessionVars
  <1>4. CASE CupsStarts
    BY <1>4 DEF TypeOK, SessionTyped, CupsTyped, ProcessTyped, CupsStarts,
             Positions, InSession, NoJobs, sessionVars
  <1>5. CASE Create
    BY <1>5 DEF TypeOK, SessionTyped, CupsTyped, ProcessTyped, Create,
             Positions, InSession, NoJobs, sessionVars
  <1>6. CASE CreateUnanswered
    BY <1>6 DEF TypeOK, SessionTyped, CupsTyped, ProcessTyped, CreateUnanswered,
             Positions, InSession, NoJobs, sessionVars
  <1>7. CASE CallObserve
    BY <1>7 DEF TypeOK, SessionTyped, CupsTyped, ProcessTyped, CallObserve,
             Positions, InSession, NoJobs, sessionVars
  <1>8. CASE ObserveReturns
    BY <1>8 DEF TypeOK, SessionTyped, CupsTyped, ProcessTyped, ObserveReturns,
             Positions, InSession, NoJobs, sessionVars
  <1>9. CASE GetJobs
    BY <1>9 DEF TypeOK, SessionTyped, CupsTyped, ProcessTyped, GetJobs,
             Positions, InSession, NoJobs, sessionVars
  <1>10. CASE Reconcile
    BY <1>10 DEF TypeOK, SessionTyped, CupsTyped, ProcessTyped, Reconcile,
             Positions, InSession, NoJobs, sessionVars
  <1>11. CASE NothingOwed
    BY <1>11 DEF TypeOK, SessionTyped, CupsTyped, ProcessTyped, NothingOwed,
             Positions, InSession, NoJobs, sessionVars
  <1>12. CASE Poll
    BY <1>12 DEF TypeOK, SessionTyped, CupsTyped, ProcessTyped, Poll, Unread,
             Positions, InSession, NoJobs, sessionVars
  <1>13. CASE RequestFails
    BY <1>13 DEF TypeOK, SessionTyped, CupsTyped, ProcessTyped, RequestFails,
             Requesting, SessionOver, Positions, InSession, NoJobs, sessionVars
  <1>14. CASE RequestRefused
    BY <1>14 DEF TypeOK, SessionTyped, CupsTyped, ProcessTyped, RequestRefused,
             Requesting, SessionOver, Positions, InSession, NoJobs, sessionVars
  <1>15. CASE CallRecord
    BY <1>15 DEF TypeOK, SessionTyped, CupsTyped, ProcessTyped, CallRecord,
             Positions, InSession, NoJobs, sessionVars
  <1>16. CASE RecordReturns
    BY <1>16 DEF TypeOK, SessionTyped, CupsTyped, ProcessTyped, RecordReturns,
             Positions, InSession, NoJobs, sessionVars
  <1>17. CASE Retry
    BY <1>17 DEF TypeOK, SessionTyped, CupsTyped, ProcessTyped, Retry,
             Positions, InSession, NoJobs, sessionVars
  <1>18. CASE Stop
    BY <1>18 DEF TypeOK, SessionTyped, CupsTyped, ProcessTyped, Stop,
             Positions, InSession, NoJobs, sessionVars
  <1>19. CASE Release
    BY <1>19 DEF TypeOK, SessionTyped, CupsTyped, ProcessTyped, Release,
             Positions, InSession, NoJobs, sessionVars
  <1>20. CASE Closed
    BY <1>20 DEF TypeOK, SessionTyped, CupsTyped, ProcessTyped, Closed,
             Positions, InSession, NoJobs, sessionVars
  <1>21. CASE Crash
    BY <1>21 DEF TypeOK, SessionTyped, CupsTyped, ProcessTyped, Crash,
             Positions, InSession, NoJobs, sessionVars
  <1>22. CASE Restart
    BY <1>22 DEF TypeOK, SessionTyped, CupsTyped, ProcessTyped, Restart,
             Positions, InSession, NoJobs, sessionVars
  <1>23. CASE UNCHANGED streamVars
    BY <1>23 DEF TypeOK, SessionTyped, streamVars, sessionVars, InSession
  <1>24. CASE ReleaseRefused
    BY <1>24 DEF TypeOK, SessionTyped, CupsTyped, ProcessTyped, ReleaseRefused,
             Positions, InSession, NoJobs, sessionVars
  <1>. QED
    BY <1>1, <1>2, <1>3, <1>4, <1>5, <1>6, <1>7, <1>8, <1>9, <1>10, <1>11, <1>12,
       <1>13, <1>14, <1>15, <1>16, <1>17, <1>18, <1>19, <1>20, <1>21, <1>22, <1>23, <1>24
    DEF Next, Session

LEMMA StepProcessTyped == TypeOK /\ [Next]_streamVars => ProcessTyped'
  <1>. SUFFICES ASSUME TypeOK, [Next]_streamVars PROVE ProcessTyped'
    OBVIOUS
  <1>. USE StreamAssumption
  <1>1. CASE \E j \in Jobs : JobAdvances(j)
    BY <1>1 DEF TypeOK, ProcessTyped, JobAdvances
  <1>2. CASE PrinterChanges
    BY <1>2 DEF TypeOK, ProcessTyped, PrinterChanges
  <1>3. CASE CupsStops
    BY <1>3 DEF TypeOK, ProcessTyped, CupsStops
  <1>4. CASE CupsStarts
    BY <1>4 DEF TypeOK, ProcessTyped, CupsStarts
  <1>5. CASE Create
    BY <1>5 DEF TypeOK, ProcessTyped, Create
  <1>6. CASE CreateUnanswered
    BY <1>6 DEF TypeOK, ProcessTyped, CreateUnanswered
  <1>7. CASE CallObserve
    BY <1>7 DEF TypeOK, ProcessTyped, CallObserve
  <1>8. CASE ObserveReturns
    BY <1>8 DEF TypeOK, ProcessTyped, ObserveReturns
  <1>9. CASE GetJobs
    BY <1>9 DEF TypeOK, ProcessTyped, GetJobs
  <1>10. CASE Reconcile
    <2>1. retained' \in [Jobs -> 0..JobSteps] /\ held' = held
      BY <1>10 DEF TypeOK, ProcessTyped, SessionTyped, Reconcile
    <2>2. ASSUME NEW j \in ChangedJobs(retained, answer)
          PROVE  j \in Jobs /\ answer[j] \in 1..JobSteps
      BY DEF TypeOK, SessionTyped, ChangedJobs
    <2>3. reports' \in [Jobs -> Seq(1..JobSteps)]
      <3>1. ASSUME NEW j \in Jobs, j \in ChangedJobs(retained, answer)
            PROVE  Append(reports[j], answer[j]) \in Seq(1..JobSteps)
        <4>1. reports[j] \in Seq(1..JobSteps) BY DEF TypeOK, ProcessTyped
        <4>. QED BY <2>2, <3>1, <4>1, AppendProperties
      <3>2. ASSUME NEW j \in Jobs PROVE reports[j] \in Seq(1..JobSteps)
        BY DEF TypeOK, ProcessTyped
      <3>. QED BY <1>10, <3>1, <3>2 DEF Reconcile
    <2>. QED BY <2>1, <2>3 DEF TypeOK, ProcessTyped
  <1>11. CASE NothingOwed
    BY <1>11 DEF TypeOK, ProcessTyped, NothingOwed
  <1>12. CASE Poll
    BY <1>12 DEF TypeOK, ProcessTyped, Poll
  <1>13. CASE RequestFails
    BY <1>13 DEF TypeOK, ProcessTyped, RequestFails, Requesting, SessionOver
  <1>14. CASE RequestRefused
    BY <1>14 DEF TypeOK, ProcessTyped, RequestRefused, Requesting, SessionOver
  <1>15. CASE CallRecord
    BY <1>15 DEF TypeOK, ProcessTyped, CallRecord
  <1>16. CASE RecordReturns
    BY <1>16 DEF TypeOK, ProcessTyped, RecordReturns
  <1>17. CASE Retry
    BY <1>17 DEF TypeOK, ProcessTyped, Retry
  <1>18. CASE Stop
    BY <1>18 DEF TypeOK, ProcessTyped, Stop
  <1>19. CASE Release
    BY <1>19 DEF TypeOK, ProcessTyped, Release
  <1>20. CASE Closed
    BY <1>20 DEF TypeOK, ProcessTyped, Closed
  <1>21. CASE Crash
    BY <1>21 DEF TypeOK, ProcessTyped, Crash
  <1>22. CASE Restart
    BY <1>22 DEF TypeOK, ProcessTyped, Restart, NoJobs
  <1>23. CASE UNCHANGED streamVars
    BY <1>23 DEF TypeOK, ProcessTyped, streamVars
  <1>24. CASE ReleaseRefused
    BY <1>24 DEF TypeOK, ProcessTyped, ReleaseRefused
  <1>. QED
    BY <1>1, <1>2, <1>3, <1>4, <1>5, <1>6, <1>7, <1>8, <1>9, <1>10, <1>11, <1>12,
       <1>13, <1>14, <1>15, <1>16, <1>17, <1>18, <1>19, <1>20, <1>21, <1>22, <1>23, <1>24
    DEF Next, Session

LEMMA StepTyped == TypeOK /\ [Next]_streamVars => TypeOK'
  BY StepCupsTyped, StepTroublesTyped, StepSessionTyped, StepProcessTyped DEF TypeOK

-----------------------------------------------------------------------------
(* The other parts of the invariant *)

LEMMA InitInv == Init => IInv
  <1>. SUFFICES ASSUME Init PROVE IInv
    OBVIOUS
  <1>1. TypeOK BY InitTyped
  <1>2. NumberInLog /\ NoChangeIsMissed
    BY DEF Init, NumberInLog, NoChangeIsMissed, InSession
  <1>3. OutageCounted /\ EverySubscriptionIsOwed
    <2>1. subscriptions \ held = {} /\ spent = [trouble \in Troubles |-> 0]
      BY DEF Init
    <2>. QED BY <2>1, FS_EmptySet DEF Init, OutageCounted, EverySubscriptionIsOwed, Troubles
  <1>4. Published /\ VersionsInOrder
    BY DEF Init, Published, VersionsInOrder, NoJobs, Feed!LastReport
  <1>. QED BY <1>1, <1>2, <1>3, <1>4 DEF IInv

\* A trouble that has happened is never forgotten.
LEMMA SpendCounts ==
  ASSUME NEW trouble \in Troubles, TroublesTyped, Spend(trouble)
  PROVE  /\ spent'[trouble] > 0
         /\ \A t \in Troubles : spent[t] > 0 => spent'[t] > 0
         /\ \A t \in Troubles : spent'[t] = 0 => spent[t] = 0
  <1>. spent \in [Troubles -> Nat] /\ spent' = [spent EXCEPT ![trouble] = @ + 1]
    BY DEF TroublesTyped, Spend
  <1>. QED OBVIOUS

\* The subscriptions nobody owes: one more at most when a subscription is made or a
\* release dropped, none when both sides change by the same one.
LEMMA Unowed ==
  ASSUME CupsTyped, held \subseteq subscriptions, NEW s
  PROVE  /\ Cardinality(subscriptions \ held) \in Nat
         /\ s \notin subscriptions =>
              /\ (subscriptions \cup {s}) \ (held \cup {s}) = subscriptions \ held
              /\ Cardinality((subscriptions \cup {s}) \ held)
                   = Cardinality(subscriptions \ held) + 1
         /\ s \in held =>
              /\ (subscriptions \ {s}) \ (held \ {s}) = subscriptions \ held
              /\ Cardinality(subscriptions \ (held \ {s}))
                   = Cardinality(subscriptions \ held) + 1
  <1>. DEFINE left == subscriptions \ held
  <1>1. IsFiniteSet(left)
    BY FS_Subset DEF CupsTyped
  <1>2. Cardinality(left) \in Nat
    BY <1>1, FS_CardinalityType
  <1>3. ASSUME s \notin left
        PROVE  Cardinality(left \cup {s}) = Cardinality(left) + 1
    BY <1>1, <1>3, FS_AddElement
  <1>4. CASE s \in held
    <2>1. subscriptions \ (held \ {s}) = left \cup {s}
      BY <1>4
    <2>2. (subscriptions \ {s}) \ (held \ {s}) = left
      BY <1>4
    <2>3. s \notin left /\ s \in subscriptions
      BY <1>4
    <2>. HIDE DEF left
    <2>. QED BY <1>2, <1>3, <2>1, <2>2, <2>3 DEF left
  <1>5. CASE s \notin held
    <2>1. (subscriptions \cup {s}) \ held = left \cup {s}
      BY <1>5
    <2>2. s \notin subscriptions => (subscriptions \cup {s}) \ (held \cup {s}) = left
      OBVIOUS
    <2>3. s \notin subscriptions => s \notin left
      OBVIOUS
    <2>. HIDE DEF left
    <2>. QED BY <1>2, <1>3, <1>5, <2>1, <2>2, <2>3 DEF left
  <1>. QED BY <1>4, <1>5

LEMMA StepOutage == IInv /\ [Next]_streamVars => OutageCounted'
  <1>. SUFFICES ASSUME IInv, [Next]_streamVars PROVE OutageCounted'
    OBVIOUS
  <1>. USE DEF IInv, TypeOK, OutageCounted, Troubles
  <1>1. CASE PrinterChanges
    BY <1>1, SpendCounts DEF PrinterChanges
  <1>2. CASE CupsStops
    BY <1>2, SpendCounts DEF CupsStops
  <1>3. CASE CupsStarts
    BY <1>3 DEF CupsStarts
  <1>4. CASE CreateUnanswered
    BY <1>4, SpendCounts DEF CreateUnanswered
  <1>5. CASE RequestRefused
    BY <1>5, SpendCounts DEF RequestRefused, SessionOver, cupsVars
  <1>6. CASE Stop
    BY <1>6, SpendCounts DEF Stop, cupsVars
  <1>7. CASE ReleaseRefused
    BY <1>7, SpendCounts DEF ReleaseRefused, cupsVars
  <1>8. CASE Crash
    BY <1>8, SpendCounts DEF Crash, cupsVars
  <1>9. CASE UNCHANGED <<server, spent>>
    BY <1>9
  <1>. QED
    BY <1>1, <1>2, <1>3, <1>4, <1>5, <1>6, <1>7, <1>8, <1>9
    DEF Next, Session, JobAdvances, Create, CallObserve, ObserveReturns, GetJobs,
        Reconcile, NothingOwed, Poll, RequestFails, SessionOver, CallRecord,
        RecordReturns, Retry, Release, Closed, Restart, streamVars, cupsVars

LEMMA StepOwed == IInv /\ [Next]_streamVars => EverySubscriptionIsOwed'
  <1>. SUFFICES ASSUME IInv, [Next]_streamVars,
                       spent'["crashes"] = 0, spent'["outages"] = 0
                PROVE  /\ held' \subseteq subscriptions'
                       /\ Cardinality(subscriptions' \ held')
                            <= spent'["unanswered"] + spent'["uncancelled"]
    BY DEF EverySubscriptionIsOwed
  <1>. USE DEF IInv, TypeOK, EverySubscriptionIsOwed, Troubles
  <1>1. CupsTyped /\ spent \in [Troubles -> Nat]
    BY DEF TroublesTyped
  <1>2. ASSUME NEW trouble \in Troubles, Spend(trouble)
        PROVE  /\ trouble # "crashes" /\ trouble # "outages"
               /\ spent["crashes"] = 0 /\ spent["outages"] = 0
               /\ spent'[trouble] = spent[trouble] + 1
               /\ \A t \in Troubles \ {trouble} : spent'[t] = spent[t]
    <2>1. spent' = [spent EXCEPT ![trouble] = @ + 1]
      BY <1>2 DEF Spend
    <2>. QED BY <1>1, <1>2, <2>1, SpendCounts
  <1>3. ASSUME spent' = spent
        PROVE  /\ server = "up"
               /\ held \subseteq subscriptions
               /\ Cardinality(subscriptions \ held)
                    <= spent["unanswered"] + spent["uncancelled"]
    BY <1>1, <1>3 DEF OutageCounted, CupsTyped
  <1>4. CASE Create
    <2>1. PICK s \in SubscriptionIds \ (subscriptions \cup held) :
            subscriptions' = subscriptions \cup {s} /\ held' = held \cup {s}
      BY <1>4 DEF Create
    <2>2. spent' = spent BY <1>4 DEF Create
    <2>. QED BY <1>1, <1>3, <2>1, <2>2, Unowed
  <1>5. CASE CreateUnanswered
    <2>1. PICK s \in SubscriptionIds \ (subscriptions \cup held) :
            subscriptions' = subscriptions \cup {s}
      BY <1>5 DEF CreateUnanswered
    <2>2. Spend("unanswered") /\ held' = held BY <1>5 DEF CreateUnanswered
    <2>3. /\ spent["crashes"] = 0 /\ spent["outages"] = 0
          /\ spent'["unanswered"] = spent["unanswered"] + 1
          /\ spent'["uncancelled"] = spent["uncancelled"]
      BY <1>2, <2>2
    <2>4. /\ Cardinality(subscriptions \ held) \in Nat
          /\ Cardinality((subscriptions \cup {s}) \ held)
               = Cardinality(subscriptions \ held) + 1
      BY <1>1, <2>3, Unowed
    <2>5. spent["unanswered"] \in Nat /\ spent["uncancelled"] \in Nat
      BY <1>1
    <2>. QED BY <2>1, <2>2, <2>3, <2>4, <2>5
  <1>6. CASE Release
    <2>1. spent' = spent BY <1>6 DEF Release
    <2>2. PICK s \in held :
            held' = held \ {s} /\ subscriptions' = subscriptions \ {s}
      BY <1>3, <1>6, <2>1 DEF Release
    <2>. QED BY <1>1, <1>3, <2>1, <2>2, Unowed
  <1>7. CASE ReleaseRefused
    <2>1. PICK s \in held : held' = held \ {s}
      BY <1>7 DEF ReleaseRefused
    <2>2. Spend("uncancelled") /\ subscriptions' = subscriptions
      BY <1>7 DEF ReleaseRefused, cupsVars
    <2>3. /\ spent["crashes"] = 0 /\ spent["outages"] = 0
          /\ spent'["uncancelled"] = spent["uncancelled"] + 1
          /\ spent'["unanswered"] = spent["unanswered"]
      BY <1>2, <2>2
    <2>4. /\ Cardinality(subscriptions \ held) \in Nat
          /\ Cardinality(subscriptions \ (held \ {s}))
               = Cardinality(subscriptions \ held) + 1
      BY <1>1, <2>3, Unowed
    <2>5. spent["unanswered"] \in Nat /\ spent["uncancelled"] \in Nat
      BY <1>1
    <2>. QED BY <2>1, <2>2, <2>3, <2>4, <2>5
  <1>8. CASE PrinterChanges
    <2>1. Spend("printer") /\ UNCHANGED <<subscriptions, held>>
      BY <1>8 DEF PrinterChanges
    <2>. QED BY <1>2, <2>1
  <1>9. CASE RequestRefused
    <2>1. Spend("refusals") /\ UNCHANGED <<subscriptions, held>>
      BY <1>9 DEF RequestRefused, SessionOver, cupsVars
    <2>. QED BY <1>2, <2>1
  <1>10. CASE Stop
    <2>1. Spend("stops") /\ UNCHANGED <<subscriptions, held>>
      BY <1>10 DEF Stop, cupsVars
    <2>. QED BY <1>2, <2>1
  <1>11. CASE CupsStops \/ Crash
    BY <1>2, <1>11 DEF CupsStops, Crash
  <1>12. CASE CupsStarts
    BY <1>3, <1>12 DEF CupsStarts
  <1>13. CASE UNCHANGED <<subscriptions, held, spent>>
    BY <1>3, <1>13
  <1>. QED
    BY <1>4, <1>5, <1>6, <1>7, <1>8, <1>9, <1>10, <1>11, <1>12, <1>13
    DEF Next, Session, JobAdvances, CallObserve, ObserveReturns, GetJobs, Reconcile,
        NothingOwed, Poll, RequestFails, SessionOver, CallRecord, RecordReturns, Retry,
        Closed, Restart, streamVars, cupsVars

LEMMA StepVersions ==
  ASSUME IInv, [Next]_streamVars
  PROVE  Published' /\ VersionsInOrder'
  <1>. USE DEF IInv, TypeOK, Published, VersionsInOrder, Feed!LastReport
  <1>1. ASSUME NEW j \in Jobs, JobAdvances(j)
        PROVE  Published' /\ VersionsInOrder'
    BY <1>1, StreamAssumption DEF JobAdvances, CupsTyped, SessionTyped, ProcessTyped, sessionVars
  <1>2. CASE GetJobs
    BY <1>2 DEF GetJobs, cupsVars, CupsTyped
  <1>3. CASE Reconcile
    <2>1. VersionsInOrder'
      BY <1>3, StreamAssumption DEF Reconcile, CupsTyped, SessionTyped, cupsVars
    <2>2. ASSUME NEW j \in Jobs, j \in ChangedJobs(retained, answer)
          PROVE  retained'[j] = Feed!LastReport(j)'
      <3>1. /\ retained'[j] = answer[j]
            /\ reports'[j] = Append(reports[j], answer[j])
        BY <1>3, <2>2 DEF Reconcile
      <3>2. reports[j] \in Seq(1..JobSteps) BY DEF ProcessTyped
      <3>3. /\ Len(reports'[j]) = Len(reports[j]) + 1
            /\ reports'[j][Len(reports[j]) + 1] = answer[j]
            /\ reports'[j] # <<>>
        BY <3>1, <3>2
      <3>. QED BY <3>1, <3>3
    <2>3. ASSUME NEW j \in Jobs, j \notin ChangedJobs(retained, answer)
          PROVE  retained'[j] = Feed!LastReport(j)'
      <3>1. answer[j] = 0 => retained[j] = 0
        BY <1>3, StreamAssumption DEF Reconcile, SessionTyped, ProcessTyped
      <3>2. answer[j] = retained[j]
        BY <2>3, <3>1 DEF ChangedJobs
      <3>3. retained'[j] = answer[j] /\ reports'[j] = reports[j]
        BY <1>3, <2>3 DEF Reconcile
      <3>. QED BY <3>2, <3>3
    <2>. QED BY <2>1, <2>2, <2>3
  <1>4. CASE Restart
    BY <1>4, StreamAssumption DEF Restart, NoJobs, CupsTyped, cupsVars, sessionVars
  <1>5. ASSUME UNCHANGED <<jobs, retained, reports>>,
               pc' = "reconcile" => pc = "reconcile" /\ answer' = answer
        PROVE  Published' /\ VersionsInOrder'
    BY <1>5
  <1>. QED
    BY <1>1, <1>2, <1>3, <1>4, <1>5
    DEF Next, Session, PrinterChanges, CupsStops, CupsStarts, Create, CreateUnanswered,
        CallObserve, ObserveReturns, NothingOwed, Poll, RequestFails, RequestRefused,
        SessionOver, CallRecord, RecordReturns, Retry, Stop, Release, ReleaseRefused,
        Closed, Crash, streamVars, cupsVars, sessionVars

\* An event appended to the log of a subscription disturbs no unread event, and only one
\* of a job ends that lost events are forgotten.
LEMMA LoggedUnread ==
  ASSUME IInv, InSession, subscription \in subscriptions,
         NEW kind \in {"printer", "jobs"}, log' = Logged(kind),
         UNCHANGED <<subscription, nextSequenceNumber>>
  PROVE  /\ nextSequenceNumber <= Len(log'[subscription])
         /\ Len(log'[subscription]) \in Unread'
         /\ log'[subscription][Len(log'[subscription])] = kind
         /\ \A i \in Unread : i \in Unread' /\ log'[subscription][i] = log[subscription][i]
         /\ kind = "printer" /\ Forgotten => Forgotten'
  <1>. DEFINE events == log[subscription]
  <1>1. /\ events \in Seq({"printer", "jobs", "lost"})
        /\ nextSequenceNumber \in Nat \ {0}
        /\ nextSequenceNumber <= Len(events) + 1
    BY DEF IInv, TypeOK, CupsTyped, SessionTyped, NumberInLog
  <1>2. log'[subscription] = Append(events, kind)
    BY DEF Logged, IInv, TypeOK, CupsTyped
  <1>3. /\ Len(Append(events, kind)) = Len(events) + 1
        /\ Append(events, kind)[Len(events) + 1] = kind
        /\ \A i \in 1..Len(events) : Append(events, kind)[i] = events[i]
    BY <1>1
  <1>4. DOMAIN events = 1..Len(events) /\ DOMAIN Append(events, kind) = 1..(Len(events) + 1)
    BY <1>1
  <1>. QED BY <1>1, <1>2, <1>3, <1>4 DEF Unread, Forgotten

LEMMA StepCovered ==
  ASSUME IInv, [Next]_streamVars
  PROVE  NumberInLog' /\ NoChangeIsMissed'
  <1>. USE DEF NumberInLog, NoChangeIsMissed, InSession, Known
  <1>1. ASSUME NEW j \in Jobs, JobAdvances(j)
        PROVE  NumberInLog' /\ NoChangeIsMissed'
    <2>. SUFFICES ASSUME InSession, subscription \in subscriptions
                  PROVE  NumberInLog' /\ NoChangeIsMissed'
      BY <1>1 DEF JobAdvances, sessionVars
    <2>1. /\ log' = Logged("jobs")
          /\ jobs' = [jobs EXCEPT ![j] = @ + 1]
          /\ UNCHANGED <<pc, subscription, subscriptions, nextSequenceNumber, todo,
                         answer, retained>>
      BY <1>1 DEF JobAdvances, sessionVars
    <2>2. /\ nextSequenceNumber <= Len(log'[subscription])
          /\ Len(log'[subscription]) \in Unread'
          /\ log'[subscription][Len(log'[subscription])] = "jobs"
      BY <2>1, LoggedUnread
    <2>3. NumberInLog'
      <3>1. log'[subscription] \in Seq({"printer", "jobs", "lost"})
        BY StepCupsTyped, <2>1 DEF IInv, TypeOK, CupsTyped
      <3>. QED BY <2>1, <2>2, <3>1 DEF IInv, TypeOK, SessionTyped
    <2>. QED BY <2>1, <2>2, <2>3
  <1>2. CASE PrinterChanges
    <2>. SUFFICES ASSUME InSession, subscription \in subscriptions
                  PROVE  NumberInLog' /\ NoChangeIsMissed'
      BY <1>2 DEF PrinterChanges, sessionVars
    <2>1. /\ log' = Logged("printer")
          /\ UNCHANGED <<pc, subscription, subscriptions, nextSequenceNumber, todo,
                         jobs, answer, retained>>
      BY <1>2 DEF PrinterChanges, sessionVars
    <2>2. /\ nextSequenceNumber <= Len(log'[subscription])
          /\ \A i \in Unread : i \in Unread' /\ log'[subscription][i] = log[subscription][i]
          /\ Forgotten => Forgotten'
      BY <2>1, LoggedUnread
    <2>3. NumberInLog'
      <3>1. log'[subscription] \in Seq({"printer", "jobs", "lost"})
        BY StepCupsTyped, <2>1 DEF IInv, TypeOK, CupsTyped
      <3>. QED BY <2>1, <2>2, <3>1 DEF IInv, TypeOK, SessionTyped
    <2>. QED BY <2>1, <2>2, <2>3 DEF IInv
  <1>3. CASE CupsStarts
    <2>. SUFFICES ASSUME InSession, subscription \in subscriptions
                  PROVE  NumberInLog' /\ NoChangeIsMissed'
      BY <1>3 DEF CupsStarts, sessionVars
    <2>1. /\ log' = [s \in SubscriptionIds |-> [i \in DOMAIN log[s] |-> "lost"]]
          /\ UNCHANGED <<pc, subscription, nextSequenceNumber, todo, jobs, answer, retained>>
      BY <1>3 DEF CupsStarts, sessionVars
    <2>2. /\ Len(log'[subscription]) = Len(log[subscription])
          /\ DOMAIN log'[subscription] = DOMAIN log[subscription]
          /\ \A i \in DOMAIN log[subscription] : log'[subscription][i] = "lost"
      BY <2>1, LostLogs DEF IInv, TypeOK, CupsTyped
    <2>3. DOMAIN log[subscription] # {} => Forgotten'
      BY <2>1, <2>2 DEF Forgotten
    <2>4. NumberInLog'
      BY <2>1, <2>2 DEF IInv
    <2>5. NoChangeIsMissed'
      BY <2>1, <2>3 DEF IInv, Unread, Forgotten
    <2>. QED BY <2>4, <2>5
  <1>4. CASE Create
    <2>1. /\ pc' = "work" /\ todo' = {"printer", "jobs"} /\ nextSequenceNumber' = 1
          /\ log'[subscription'] = <<>>
      BY <1>4 DEF Create, IInv, TypeOK, CupsTyped
    <2>. QED BY <2>1
  <1>5. CASE GetJobs
    BY <1>5 DEF GetJobs, cupsVars, IInv, Forgotten
  <1>6. CASE Reconcile
    BY <1>6 DEF Reconcile, cupsVars, IInv, Unread, Forgotten
  <1>7. CASE CallObserve \/ ObserveReturns \/ NothingOwed
    BY <1>7 DEF CallObserve, ObserveReturns, NothingOwed, cupsVars, sessionVars, IInv,
             Unread, Forgotten
  <1>8. CASE Poll
    <2>1. /\ log[subscription] \in Seq({"printer", "jobs", "lost"})
          /\ nextSequenceNumber \in Nat \ {0}
          /\ nextSequenceNumber <= Len(log[subscription]) + 1
      BY <1>8 DEF Poll, IInv, TypeOK, CupsTyped, SessionTyped
    <2>2. NumberInLog'
      BY <1>8, <2>1 DEF Poll, cupsVars
    <2>3. NoChangeIsMissed'
      BY <1>8 DEF Poll, cupsVars, IInv, TypeOK, SessionTyped, Forgotten
    <2>. QED BY <2>2, <2>3
  <1>9. ASSUME pc' \notin {"work", "observing", "reconcile", "poll"}
        PROVE  NumberInLog' /\ NoChangeIsMissed'
    BY <1>9
  <1>10. CASE CupsStops \/ UNCHANGED streamVars
    BY <1>10 DEF CupsStops, streamVars, cupsVars, sessionVars, IInv, Unread, Forgotten
  <1>. QED
    BY <1>1, <1>2, <1>3, <1>4, <1>5, <1>6, <1>7, <1>8, <1>9, <1>10
    DEF Next, Session, CreateUnanswered, RequestFails, RequestRefused,
        SessionOver, CallRecord, RecordReturns, Retry, Stop, Release, ReleaseRefused,
        Closed, Crash, Restart, sessionVars

LEMMA Invariance == Spec => []IInv
  <1>1. IInv /\ [Next]_streamVars => IInv'
    BY StepTyped, StepCovered, StepOutage, StepOwed, StepVersions DEF IInv
  <1>. QED
    BY InitInv, <1>1, PTL DEF Spec

-----------------------------------------------------------------------------
(* Theorems *)

\* The type invariant, among it the bound on the subscriptions in CUPS.
THEOREM TypeCorrect == Spec => []TypeOK
  BY Invariance, PTL DEF IInv

\* A session whose subscription is alive never loses track of a job but by sleeping
\* through a restart of CUPS, and then only until the next event of a job
\* (runNotificationSession, decideCupsNotification).
THEOREM NoChangeIsEverMissed == Spec => []NoChangeIsMissed
  BY Invariance, PTL DEF IInv

\* Failed sessions leave no subscription that nobody will release: of those CUPS holds
\* the scope of run() owes all but one for each lost answer to a Create and each refused
\* Cancel (Effect.acquireRelease, cancelSubscription).
THEOREM EverySubscriptionIsAlwaysOwed == Spec => []EverySubscriptionIsOwed
  BY Invariance, PTL DEF IInv

LEMMA InitImplements == Init => Feed!Init
  BY DEF Init, Feed!Init, NoJobs

\* Reconcile publishes newer versions or nothing.
LEMMA ReconcilePublishes ==
  ASSUME IInv, Reconcile
  PROVE  Feed!Publish \/ UNCHANGED Feed!feedVars
  <1>. DEFINE changed == ChangedJobs(retained, answer)
              version == [j \in Jobs |-> IF j \in changed THEN answer[j] ELSE 1]
  <1>1. /\ jobs' = jobs
        /\ reports' = [j \in Jobs |-> IF j \in changed THEN Append(reports[j], answer[j])
                                      ELSE reports[j]]
    BY DEF Reconcile, cupsVars
  <1>2. ASSUME NEW j \in changed
        PROVE  /\ j \in Jobs /\ answer[j] \in 1..JobSteps
               /\ Feed!LastReport(j) < answer[j] /\ answer[j] <= jobs[j]
    <2>1. /\ j \in Jobs /\ answer[j] # 0 /\ answer[j] # retained[j]
          /\ answer[j] \in 0..JobSteps /\ retained[j] \in 0..JobSteps
      BY DEF ChangedJobs, IInv, TypeOK, SessionTyped, ProcessTyped
    <2>2. retained[j] <= answer[j] /\ answer[j] <= jobs[j] /\ retained[j] = Feed!LastReport(j)
      BY <2>1 DEF Reconcile, IInv, VersionsInOrder, Published
    <2>. QED BY <2>1, <2>2, StreamAssumption
  <1>3. CASE changed = {}
    <2>1. reports' = reports
      BY <1>1, <1>3 DEF IInv, TypeOK, ProcessTyped
    <2>. QED BY <1>1, <2>1 DEF Feed!feedVars
  <1>4. CASE changed # {}
    <2>1. 1 \in 1..JobSteps
      BY <1>2, <1>4, StreamAssumption
    <2>2. version \in [Jobs -> 1..JobSteps]
      BY <1>2, <2>1
    <2>3. changed \in SUBSET Jobs
      BY DEF ChangedJobs
    <2>4. \A j \in changed : Feed!LastReport(j) < version[j] /\ version[j] <= jobs[j]
      BY <1>2
    <2>5. reports' = [j \in Jobs |-> IF j \in changed THEN Append(reports[j], version[j])
                                     ELSE reports[j]]
      BY <1>1
    <2>. HIDE DEF changed, version
    <2>. QED BY <1>1, <2>2, <2>3, <2>4, <2>5 DEF Feed!Publish
  <1>. QED BY <1>3, <1>4

LEMMA StepImplements ==
  IInv /\ [Next]_streamVars => [Feed!Next]_Feed!feedVars
  <1>. SUFFICES ASSUME IInv, [Next]_streamVars PROVE Feed!Next \/ UNCHANGED Feed!feedVars
    OBVIOUS
  <1>1. ASSUME NEW j \in Jobs, JobAdvances(j) PROVE Feed!Next
    BY <1>1 DEF JobAdvances, Feed!JobAdvances, Feed!Next
  <1>2. CASE Reconcile
    BY <1>2, ReconcilePublishes DEF Feed!Next
  <1>3. CASE Restart
    BY <1>3 DEF Restart, cupsVars, Feed!ProcessRestarts, Feed!Next
  <1>4. CASE UNCHANGED <<jobs, reports>>
    BY <1>4 DEF Feed!feedVars
  <1>. QED
    BY <1>1, <1>2, <1>3, <1>4
    DEF Next, Session, PrinterChanges, CupsStops, CupsStarts, Create, CreateUnanswered,
        CallObserve, ObserveReturns, GetJobs, NothingOwed, Poll, RequestFails,
        RequestRefused, SessionOver, CallRecord, RecordReturns, Retry, Stop, Release,
        ReleaseRefused, Closed, Crash, streamVars, cupsVars

\* Whatever fails, the published snapshots of a job are newer and newer versions
\* of it (observeRetainedJobs, reconcileRetainedCupsJobs).
THEOREM StreamImplementsFeed == Spec => ImplementsFeed
  BY Invariance, InitImplements, StepImplements, PTL DEF Spec, ImplementsFeed, Feed!Spec

=============================================================================
