------------------------------- MODULE JobFeed -------------------------------
(***************************************************************************)
(* What a consumer of the cups.job.observed events is promised, whatever   *)
(* the subscription, polling and reconnection machinery does: for each job *)
(* the versions it went through, in order, none twice in the life of one   *)
(* agent process, possibly skipping some, and in the end the last one.     *)
(***************************************************************************)
EXTENDS Naturals, Sequences

CONSTANTS Jobs, JobSteps   \* a job's version counts the changes CUPS made to it

VARIABLES jobs,            \* the version of each job in CUPS, 0 before it exists
          reports          \* the versions this agent process has published, per job

feedVars == <<jobs, reports>>

LastReport(j) == IF reports[j] = <<>> THEN 0 ELSE reports[j][Len(reports[j])]

Init == /\ jobs = [j \in Jobs |-> 0]
        /\ reports = [j \in Jobs |-> <<>>]

JobAdvances(j) ==
  /\ jobs[j] < JobSteps
  /\ jobs' = [jobs EXCEPT ![j] = @ + 1]
  /\ UNCHANGED reports

\* One reconciliation may publish several jobs at once, each with a newer version.
Publish ==
  /\ \E changed \in SUBSET Jobs, version \in [Jobs -> 1..JobSteps] :
       /\ \A j \in changed : LastReport(j) < version[j] /\ version[j] <= jobs[j]
       /\ reports' = [j \in Jobs |-> IF j \in changed THEN Append(reports[j], version[j])
                                     ELSE reports[j]]
  /\ UNCHANGED jobs

\* A new agent process knows nothing of what the last one published.
ProcessRestarts ==
  /\ reports' = [j \in Jobs |-> <<>>]
  /\ UNCHANGED jobs

Next == (\E j \in Jobs : JobAdvances(j)) \/ Publish \/ ProcessRestarts

Spec == Init /\ [][Next]_feedVars
=============================================================================
