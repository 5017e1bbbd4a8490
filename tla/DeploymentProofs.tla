-------------------------- MODULE DeploymentProofs --------------------------
(***************************************************************************)
(* What a deployment that ends well has achieved, for any number of        *)
(* attempts, failures, reboots, crashes and deployments - provided no      *)
(* attempt breaks off between the write of the last unit and the restart   *)
(* of the journal.                                                         *)
(***************************************************************************)
EXTENDS Deployment, TLAPS

\* The steps of an attempt whose predecessors include the named write.
PastEnvironment == Steps \ {"repository", "environment"}
PastHelpers == PastEnvironment \ {"artifacts", "helpers"}
PastAgent == PastHelpers \ {"agent"}
PastJournald == PastAgent \ {"journald"}

\* What an attempt has written before its step is there.
Written ==
  /\ step \in PastEnvironment \cup {"complete"} => disk["environment"] = "new"
  /\ step \in PastHelpers \cup {"complete"} => disk["helpers"] = "new"
  /\ step \in PastAgent \cup {"complete"} => disk["agent"] = "new"
  /\ step \in PastJournald \cup {"complete"} => disk["journald"] = "new"

\* The agent's unit is the last one written.
AgentIsLast == disk["agent"] = "new" => disk["helpers"] = "new"

\* New units are in use, or this attempt knows that they are not.
UnitsKnown ==
  disk["agent"] = "new" =>
    \/ loaded["agent"] = "new" /\ loaded["helpers"] = "new"
    \/ "units" \in changed /\ step \in {"journald", "reload"}

\* So is the configuration of the journal.
JournalKnown ==
  disk["journald"] = "new" =>
    \/ inUse["journald"] = "new"
    \/ "journald" \in changed /\ step \in {"reload", "flush"}

\* Helpers restarted by this attempt run what is new.
HelpersRestarted ==
  /\ step \in {"restart", "restarting", "timer", "health", "complete"} => inUse["watcher"] = "new"
  /\ step \in {"health", "complete"} => inUse["timer"] = "new"

HostInv == Written /\ AgentIsLast /\ UnitsKnown /\ JournalKnown /\ HelpersRestarted

\* The agent that runs after the restart is the new one.
AgentRestarted ==
  step \in {"restarting", "timer", "health"} /\ phase \in Alive =>
    program = "new" /\ settings = "new"

\* An agent that serves has observed.
Observed == phase = "serving" => status # Nothing

\* The answer came from such an agent.
AnswerKept ==
  step = "complete" =>
    answered.program = "new" /\ answered.settings = "new" /\ answered.status # Nothing

\* A step of the script is one of the attempts it has.
AttemptOK == step \in Steps => attempt <= MaxAttempts

TypeInv == TypeOK /\ AttemptOK

-----------------------------------------------------------------------------
(* Types *)

\* The parts of the type invariant, by who changes them.
ScriptTypes ==
  /\ step \in Steps \cup {"ready", "failed", "complete"}
  /\ attempt \in 1..(MaxAttempts + 1) /\ polls \in 0..MaxPolls
  /\ changed \subseteq {"units", "journald"}
  /\ deployments \in 0..MaxDeployments
  /\ AttemptOK

HostTypes ==
  /\ disk \in [Files -> Versions] /\ loaded \in [Units -> Versions]
  /\ inUse \in [Users -> Versions]
  /\ enabled \in BOOLEAN /\ valid \in BOOLEAN

AgentTypes == ProcessTypeOK /\ {program, settings} \subseteq Versions

\* The three parts are the invariant.
LEMMA TypeParts == TypeInv <=> ScriptTypes /\ HostTypes /\ AgentTypes
  BY DEF TypeInv, TypeOK, ScriptTypes, HostTypes, AgentTypes

\* They hold at first.
LEMMA TypeInit == Init => ScriptTypes /\ HostTypes /\ AgentTypes
<1> SUFFICES ASSUME Init PROVE ScriptTypes /\ HostTypes /\ AgentTypes
  OBVIOUS
<1> USE ProcessAssumption, DeploymentAssumption
<1>1. PICK v \in {"none", "old"} :
        /\ disk = [f \in Files |-> v] /\ loaded = [u \in Units |-> v]
        /\ inUse = [u \in Users |-> v] /\ enabled = (v = "old")
        /\ program = v /\ settings = v
        /\ phase = IF v = "old" THEN "down" ELSE "off"
  BY DEF Init
<1>2. ScriptTypes
  BY DEF Init, ScriptTypes, AttemptOK, Steps, After
<1>3. HostTypes
  BY <1>1 DEF Init, HostTypes, Versions
<1>4. fiber \in [Fibers -> {Idle, Asking, Hung} \cup {Holding(n) : n \in 0..usb}]
  BY DEF Init, ProcessInit
<1>5. AgentTypes
  BY <1>1, <1>4 DEF Init, ProcessInit, AgentTypes, ProcessTypeOK, Phases, Versions, Nothing
<1> QED
  BY <1>2, <1>3, <1>5

\* Every step of the process keeps its types.
LEMMA ProcessTypes ==
  ASSUME AgentTypes, HostTypes, StartAgent \/ LoadAgent \/ RefuseSettings \/ ProcessNext
  PROVE  AgentTypes'
<1> USE ProcessAssumption DEF AgentTypes, ProcessTypeOK, Trouble, Phases, Alive
<1> DEFINE Waits(k) == {Idle, Asking, Hung} \cup {Holding(n) : n \in 0..k}
<1>0. fiber \in [Fibers -> Waits(usb)] /\ usb \in Nat
  OBVIOUS
<1>1. CASE StartAgent
  BY <1>1 DEF StartAgent, Start, loops, HostTypes, Units, Files
<1>2. CASE LoadAgent
  BY <1>2 DEF LoadAgent, Load, loops
<1>3. CASE RefuseSettings
  BY <1>3 DEF RefuseSettings, Refuse, loops
<1>4. ASSUME Fresh, usb' = usb
      PROVE  /\ fiber' \in [Fibers -> Waits(usb)]
             /\ status' = Nothing /\ lines' \in 0..usb /\ monitor' = "absent"
  BY <1>0, <1>4 DEF Fresh
<1>5. CASE Crash
  BY <1>4, <1>5 DEF Crash
<1>6. CASE Exit
  BY <1>4, <1>6 DEF Exit
<1>7. CASE Terminate
  BY <1>7 DEF Terminate, loops
<1>8. ASSUME NEW f \in Fibers, Ask(f) PROVE AgentTypes'
  <2>1. fiber' \in [Fibers -> Waits(usb)]
    BY <1>0, <1>8 DEF Ask
  <2>2. lines' \in 0..usb
    BY <1>8 DEF Ask, MayAsk
  <2> QED
    BY <1>8, <2>1, <2>2 DEF Ask, process
<1>9. ASSUME NEW f \in Fibers, Read(f) PROVE AgentTypes'
  <2>1. Holding(usb) \in Waits(usb)
    BY <1>0
  <2>2. fiber' \in [Fibers -> Waits(usb)]
    BY <1>0, <1>9, <2>1 DEF Read
  <2> QED
    BY <1>9, <2>2 DEF Read, process
<1>10. ASSUME NEW f \in Fibers, Hang(f) PROVE AgentTypes'
  <2>1. fiber' \in [Fibers -> Waits(usb)]
    BY <1>0, <1>10 DEF Hang
  <2> QED
    BY <1>10, <2>1 DEF Hang, process
<1>11. ASSUME NEW f \in Fibers, Store(f) PROVE AgentTypes'
  <2>1. fiber' \in [Fibers -> Waits(usb)]
    BY <1>0, <1>11 DEF Store
  <2>2. fiber[f].seen \in 0..usb
    BY <1>0, <1>11 DEF Store, Idle, Asking, Hung, Holding
  <2> QED
    BY <1>11, <2>1, <2>2 DEF Store
<1>12. CASE MonitorUp
  BY <1>12 DEF MonitorUp, process
<1>13. CASE MonitorGone
  BY <1>13 DEF MonitorGone, process
<1>14. CASE UsbChange
  <2>1. usb' = usb + 1 /\ Waits(usb) \subseteq Waits(usb + 1)
    BY <1>0, <1>14 DEF UsbChange
  <2>2. fiber' \in [Fibers -> Waits(usb')]
    BY <1>0, <1>14, <2>1 DEF UsbChange
  <2> QED
    BY <1>14, <2>1, <2>2 DEF UsbChange, process
<1> QED
  BY <1>1, <1>2, <1>3, <1>5, <1>6, <1>7, <1>8, <1>9, <1>10, <1>11, <1>12, <1>13, <1>14
  DEF ProcessNext

\* Every step of the script, and a reboot, keeps its types and those of the host.
LEMMA ScriptStepTypes ==
  ASSUME ScriptTypes, HostTypes, Script \/ Reboot
  PROVE  ScriptTypes' /\ HostTypes'
<1> USE DeploymentAssumption
<1> USE DEF ScriptTypes, HostTypes, AttemptOK, Versions, Users, Units, Files, host, At
<1>1. Steps = {"repository", "environment", "artifacts", "helpers", "agent", "journald",
               "reload", "flush", "enable", "watcher", "restart", "restarting", "timer",
               "health"}
  BY DEF Steps, After
<1>2. ASSUME Proceed, step \in DOMAIN After, changed' \subseteq {"units", "journald"}
      PROVE  ScriptTypes'
  <2>1. After[step] \in Steps /\ step \in Steps
    BY <1>2, <1>1 DEF After
  <2> QED
    BY <1>2, <2>1 DEF Proceed
<1>3. ASSUME TryAgain, step \in Steps, UNCHANGED deployments
      PROVE  ScriptTypes'
  BY <1>1, <1>3 DEF TryAgain, InRemote
<1>4. CASE Begin
  BY <1>1, <1>4 DEF Begin
<1>5. ASSUME NEW file \in Files, CopyFile(file) PROVE ScriptTypes' /\ HostTypes'
  BY <1>2, <1>5 DEF CopyFile, Write, After
<1>6. ASSUME NEW file \in Files, InstallUnit(file) PROVE ScriptTypes' /\ HostTypes'
  <2>1. changed' \subseteq {"units", "journald"}
    BY <1>6 DEF InstallUnit
  <2>2. step \in DOMAIN After /\ Proceed /\ Write(file)
    BY <1>6 DEF InstallUnit, After
  <2> QED
    BY <1>2, <2>1, <2>2 DEF Write
<1>7. OnDisk \in [Units -> Versions]
  BY DEF OnDisk
<1>8. CASE Reload
  BY <1>2, <1>7, <1>8 DEF Reload, After
<1>9. CASE RestartJournald
  BY <1>2, <1>9 DEF RestartJournald, After
<1>10. CASE Enable
  BY <1>2, <1>7, <1>10 DEF Enable, After
<1>11. ASSUME NEW helper \in {"watcher", "timer"}, RestartHelper(helper)
       PROVE  ScriptTypes' /\ HostTypes'
  BY <1>2, <1>11 DEF RestartHelper, After
<1>12. CASE RestartAgent
  BY <1>2, <1>12 DEF RestartAgent, After
<1>13. CASE Restarted
  BY <1>2, <1>13 DEF Restarted, After
<1>14. CASE Healthy
  BY <1>1, <1>14 DEF Healthy
<1>15. CASE Poll
  BY <1>15 DEF Poll
<1>16. CASE Unhealthy
  BY <1>3, <1>16, <1>1 DEF Unhealthy
<1>17. CASE BreakOff
  BY <1>3, <1>17 DEF BreakOff
<1>18. CASE Reboot
  <2>1. HostTypes'
    BY <1>7, <1>18 DEF Reboot
  <2>2. ScriptTypes'
    BY <1>3, <1>18 DEF Reboot, script
  <2> QED
    BY <2>1, <2>2
<1> QED
  BY <1>4, <1>5, <1>6, <1>8, <1>9, <1>10, <1>11, <1>12, <1>13, <1>14, <1>15, <1>16,
     <1>17, <1>18
  DEF Script

\* They leave the types of the process alone.
LEMMA ScriptLeavesProcess ==
  ASSUME AgentTypes, Script \/ Reboot
  PROVE  AgentTypes'
<1> USE ProcessAssumption DEF AgentTypes, ProcessTypeOK
<1>1. CASE Quiet
  BY <1>1 DEF Quiet, agentVars
<1>2. CASE RestartAgent
  BY <1>2 DEF RestartAgent, loops, Phases
<1>3. CASE BreakOff
  BY <1>3 DEF BreakOff, Trouble, process, loops
<1>4. CASE Reboot
  <2>1. fiber' \in [Fibers -> {Idle, Asking, Hung} \cup {Holding(n) : n \in 0..usb}]
    BY <1>4 DEF Reboot, Fresh
  <2> QED
    BY <1>4, <2>1 DEF Reboot, Fresh, Trouble, Phases
<1> QED
  BY <1>1, <1>2, <1>3, <1>4
  DEF Script, Begin, CopyFile, InstallUnit, Reload, RestartJournald, Enable, RestartHelper,
      Restarted, Healthy, Poll, Unhealthy

\* The type invariant, for any bounds, askers and steps at which attempts break off.
THEOREM TypeCorrect == Spec => []TypeOK
<1>1. Init => TypeInv
  BY TypeInit, TypeParts
<1>2. TypeInv /\ [Next]_vars => TypeInv'
  <2> SUFFICES ASSUME TypeInv, [Next]_vars PROVE TypeInv'
    OBVIOUS
  <2>0. ScriptTypes /\ HostTypes /\ AgentTypes
    BY TypeParts
  <2>1. CASE Agent
    <3>1. AgentTypes'
      BY <2>0, <2>1, ProcessTypes DEF Agent
    <3>2. ScriptTypes' /\ HostTypes'
      BY <2>0, <2>1 DEF Agent, StartAgent, LoadAgent, RefuseSettings, Aside, script, host,
         ScriptTypes, HostTypes, AttemptOK
    <3> QED
      BY <3>1, <3>2 DEF TypeInv, TypeOK, ScriptTypes, HostTypes, AgentTypes
  <2>2. CASE Script \/ Reboot
    <3>1. ScriptTypes' /\ HostTypes' /\ AgentTypes'
      BY <2>0, <2>2, ScriptStepTypes, ScriptLeavesProcess
    <3> QED
      BY <3>1 DEF TypeInv, TypeOK, ScriptTypes, HostTypes, AgentTypes
  <2>3. CASE UNCHANGED vars
    BY <2>3 DEF vars, agentVars, script, host, TypeInv, TypeOK, ProcessTypeOK, AttemptOK
  <2> QED
    BY <2>1, <2>2, <2>3 DEF Next
<1>3. TypeInv => TypeOK
  BY DEF TypeInv
<1> QED
  BY <1>1, <1>2, <1>3, PTL DEF Spec

-----------------------------------------------------------------------------
(* What the host has *)

\* The steps, written out.
LEMMA StepNames ==
  /\ Steps = {"repository", "environment", "artifacts", "helpers", "agent", "journald",
              "reload", "flush", "enable", "watcher", "restart", "restarting", "timer",
              "health"}
  /\ PastEnvironment = Steps \ {"repository", "environment"}
  /\ PastHelpers = Steps \ {"repository", "environment", "artifacts", "helpers"}
  /\ PastAgent = Steps \ {"repository", "environment", "artifacts", "helpers", "agent"}
  /\ PastJournald = Steps \ {"repository", "environment", "artifacts", "helpers", "agent",
                             "journald"}
  BY DEF Steps, After, PastEnvironment, PastHelpers, PastAgent, PastJournald

\* Going back to the beginning of a phase loses nothing outside the window.
LEMMA TryAgainKeepsHost ==
  ASSUME ScriptTypes, HostTypes, HostInv, TryAgain, step \in Steps \ Window, UNCHANGED host
  PROVE  HostInv'
<1> USE StepNames
<1>1. step' \in {"repository", "environment", "artifacts", "failed"}
  BY DEF TryAgain, InRemote, Window
<1>2. step' \in PastEnvironment => step \in PastEnvironment
  BY DEF TryAgain, InRemote
<1>3. Written'
  BY <1>1, <1>2 DEF HostInv, Written, host
<1>4. AgentIsLast'
  BY DEF HostInv, AgentIsLast, host
<1>5. UnitsKnown' /\ JournalKnown'
  BY DEF HostInv, UnitsKnown, JournalKnown, host, Window
<1>6. HelpersRestarted'
  BY <1>1 DEF HelpersRestarted
<1> QED
  BY <1>3, <1>4, <1>5, <1>6 DEF HostInv

\* What holds of the host is kept by every step of the script.
LEMMA ScriptKeepsHost ==
  ASSUME BreaksAt \cap Window = {}, ScriptTypes, HostTypes, HostInv, Script \/ Reboot
  PROVE  HostInv'
<1> USE StepNames DEF HostTypes, Versions, Users, Units, Files, At
<1> DEFINE Parts == Written /\ AgentIsLast /\ UnitsKnown /\ JournalKnown /\ HelpersRestarted
<1>0. Parts
  BY DEF HostInv
<1>1. CASE Begin
  BY <1>0, <1>1 DEF Begin, host, HostInv, Written, AgentIsLast, UnitsKnown, JournalKnown,
     HelpersRestarted
<1>2. ASSUME NEW file \in Files, CopyFile(file) PROVE HostInv'
  <2>1. /\ disk' = [disk EXCEPT ![file] = "new"] /\ step' = After[file] /\ step = file
        /\ file \in {"repository", "environment", "artifacts"}
        /\ UNCHANGED <<loaded, inUse, changed>>
    BY <1>2 DEF CopyFile, Write, Proceed
  <2> QED
    BY <1>0, <2>1 DEF After, HostInv, Written, AgentIsLast, UnitsKnown, JournalKnown,
       HelpersRestarted
<1>3. ASSUME NEW file \in Files, InstallUnit(file) PROVE HostInv'
  <2>1. /\ disk' = [disk EXCEPT ![file] = "new"] /\ step' = After[file] /\ step = file
        /\ file \in {"helpers", "agent", "journald"}
        /\ UNCHANGED <<loaded, inUse>>
        /\ changed \subseteq changed'
        /\ disk[file] # "new" /\ file \in Units => "units" \in changed'
        /\ disk[file] # "new" /\ file = "journald" => "journald" \in changed'
    BY <1>3 DEF InstallUnit, Write, Proceed
  <2>2. Written' /\ AgentIsLast' /\ HelpersRestarted'
    BY <1>0, <2>1 DEF After, Written, AgentIsLast, HelpersRestarted
  <2>3. UnitsKnown'
    BY <1>0, <2>1 DEF After, UnitsKnown
  <2>4. JournalKnown'
    BY <1>0, <2>1 DEF After, JournalKnown
  <2> QED
    BY <2>2, <2>3, <2>4 DEF HostInv
<1>4. CASE Reload
  BY <1>0, <1>4 DEF Reload, OnDisk, Proceed, After, HostInv, Written, AgentIsLast,
     UnitsKnown, JournalKnown, HelpersRestarted
<1>5. CASE RestartJournald
  BY <1>0, <1>5 DEF RestartJournald, Proceed, After, HostInv, Written, AgentIsLast,
     UnitsKnown, JournalKnown, HelpersRestarted
<1>6. CASE Enable
  BY <1>0, <1>6 DEF Enable, OnDisk, Proceed, After, HostInv, Written, AgentIsLast,
     UnitsKnown, JournalKnown, HelpersRestarted
<1>7. ASSUME NEW helper \in {"watcher", "timer"}, RestartHelper(helper)
      PROVE  HostInv'
  BY <1>0, <1>7 DEF RestartHelper, Proceed, After, HostInv, Written, AgentIsLast,
     UnitsKnown, JournalKnown, HelpersRestarted
<1>8. CASE RestartAgent \/ Restarted
  BY <1>0, <1>8 DEF RestartAgent, Restarted, Proceed, After, host, HostInv, Written,
     AgentIsLast, UnitsKnown, JournalKnown, HelpersRestarted
<1>9. CASE Healthy
  BY <1>0, <1>9 DEF Healthy, host, HostInv, Written, AgentIsLast, UnitsKnown, JournalKnown,
     HelpersRestarted
<1>10. CASE Poll
  BY <1>0, <1>10 DEF Poll, host, HostInv, Written, AgentIsLast, UnitsKnown, JournalKnown,
     HelpersRestarted
<1>11. CASE Unhealthy
  BY <1>11, TryAgainKeepsHost DEF Unhealthy, Window
<1>12. CASE BreakOff
  BY <1>12, TryAgainKeepsHost, DeploymentAssumption DEF BreakOff
<1>13. CASE Reboot
  <2>1. /\ loaded' = [u \in Units |-> disk[u]] /\ UNCHANGED disk
        /\ inUse' = [u \in Users |-> IF u = "journald" THEN disk[u] ELSE disk["helpers"]]
    BY <1>13 DEF Reboot, OnDisk
  <2>2. AgentIsLast' /\ UnitsKnown' /\ JournalKnown'
    BY <1>0, <2>1 DEF AgentIsLast, UnitsKnown, JournalKnown
  <2>3. CASE step \in Steps
    <3>1. /\ step' \in {"repository", "environment", "artifacts", "failed"}
          /\ step' \in PastEnvironment => step \in PastEnvironment
      BY <1>13, <2>3 DEF Reboot, TryAgain, InRemote
    <3> QED
      BY <1>0, <2>1, <2>2, <3>1 DEF HostInv, Written, HelpersRestarted
  <2>4. CASE step \notin Steps
    <3>1. step' = step
      BY <1>13, <2>4 DEF Reboot, script
    <3> QED
      BY <1>0, <2>1, <2>2, <2>4, <3>1 DEF HostInv, Written, HelpersRestarted
  <2> QED
    BY <2>3, <2>4
<1> QED
  BY <1>1, <1>2, <1>3, <1>4, <1>5, <1>6, <1>7, <1>8, <1>9, <1>10, <1>11, <1>12, <1>13
  DEF Script

-----------------------------------------------------------------------------
(* What the agent is *)

AgentInv == AgentRestarted /\ Observed /\ AnswerKept

\* An agent started once the units are known and the environment is written is new.
LEMMA AgentKeepsInv ==
  ASSUME AgentTypes, HostInv, AgentInv, Agent
  PROVE  AgentInv'
<1> USE DEF AgentTypes, ProcessTypeOK, Alive
<1>1. AnswerKept'
  BY DEF Agent, StartAgent, LoadAgent, RefuseSettings, Aside, script, AgentInv, AnswerKept
<1>2. step' = step
  BY DEF Agent, StartAgent, LoadAgent, RefuseSettings, Aside, script
<1>3. CASE StartAgent
  <2>1. step \in {"restarting", "timer", "health"} =>
          loaded["agent"] = "new" /\ disk["environment"] = "new"
    BY StepNames DEF HostInv, Written, UnitsKnown
  <2>2. phase' = "loading" /\ program' = loaded["agent"] /\ settings' = disk["environment"]
    BY <1>3 DEF StartAgent, Start
  <2> QED
    BY <1>1, <1>2, <2>1, <2>2 DEF AgentInv, AgentRestarted, Observed
<1>4. CASE LoadAgent
  BY <1>1, <1>2, <1>4 DEF LoadAgent, Load, loops, AgentInv, AgentRestarted, Observed
<1>5. ASSUME phase' \notin Alive PROVE AgentInv'
  BY <1>1, <1>5 DEF AgentInv, AgentRestarted, Observed
<1>6. CASE RefuseSettings \/ Crash \/ Terminate \/ Exit
  BY <1>5, <1>6 DEF RefuseSettings, Refuse, Crash, Terminate, Exit
<1>7. ASSUME UNCHANGED process, UNCHANGED status PROVE AgentInv'
  BY <1>1, <1>2, <1>7 DEF process, AgentInv, AgentRestarted, Observed
<1>8. ASSUME NEW f \in Fibers, Ask(f) \/ Read(f) \/ Hang(f) PROVE AgentInv'
  BY <1>7, <1>8 DEF Ask, Read, Hang
<1>9. ASSUME NEW f \in Fibers, Store(f) PROVE AgentInv'
  <2>1. fiber[f] \in {Idle, Asking, Hung} \cup {Holding(n) : n \in 0..usb}
    OBVIOUS
  <2>2. fiber[f].seen \in 0..usb
    BY <1>9, <2>1 DEF Store, Idle, Asking, Hung, Holding
  <2>3. status' # Nothing
    BY <1>9, <2>2 DEF Store, Nothing
  <2>4. phase \in Alive /\ UNCHANGED <<program, settings>>
    BY <1>9 DEF Store
  <2> QED
    BY <1>1, <1>2, <2>3, <2>4 DEF AgentInv, AgentRestarted, Observed
<1>10. CASE MonitorUp \/ MonitorGone \/ UsbChange
  BY <1>7, <1>10 DEF MonitorUp, MonitorGone, UsbChange
<1> QED
  BY <1>3, <1>4, <1>6, <1>8, <1>9, <1>10 DEF Agent, ProcessNext

\* The script restarts the agent before it asks it anything.
LEMMA ScriptKeepsAgent ==
  ASSUME ScriptTypes, AgentInv, Script \/ Reboot
  PROVE  AgentInv'
<1> USE StepNames DEF Alive, At
<1>1. Observed'
  <2>1. CASE UNCHANGED <<phase, status>>
    BY <2>1 DEF AgentInv, Observed
  <2>2. CASE phase' # "serving"
    BY <2>2 DEF Observed
  <2> QED
    BY <2>1, <2>2 DEF Script, Begin, CopyFile, InstallUnit, Reload, RestartJournald, Enable,
       RestartHelper, Restarted, Healthy, Poll, Unhealthy, BreakOff, RestartAgent, Reboot,
       Quiet, agentVars, process, loops
<1>2. CASE Healthy
  BY <1>1, <1>2 DEF Healthy, AgentInv, AgentRestarted, Observed, AnswerKept
<1>3. CASE RestartAgent
  BY <1>1, <1>3 DEF RestartAgent, Proceed, After, AgentInv, AgentRestarted, AnswerKept
<1>4. CASE Restarted \/ RestartHelper("timer")
  <2>1. step \in {"restarting", "timer"} /\ step' \in {"timer", "health"}
    BY <1>4 DEF Restarted, RestartHelper, Proceed, After
  <2>2. UNCHANGED agentVars
    BY <1>4 DEF Restarted, RestartHelper, Quiet
  <2> QED
    BY <1>1, <2>1, <2>2 DEF agentVars, AgentInv, AgentRestarted, AnswerKept
<1>5. CASE Poll
  BY <1>1, <1>5 DEF Poll, Quiet, agentVars, AgentInv, AgentRestarted, AnswerKept
<1>6. ASSUME step' \in (Steps \cup {"failed"}) \ {"restarting", "timer", "health"} PROVE AgentInv'
  BY <1>1, <1>6 DEF AgentInv, AgentRestarted, AnswerKept
<1>7. CASE Begin
  BY <1>6, <1>7 DEF Begin
<1>8. ASSUME NEW file \in Files, CopyFile(file) \/ InstallUnit(file) PROVE AgentInv'
  BY <1>6, <1>8 DEF CopyFile, InstallUnit, Proceed, After, Files
<1>9. CASE Reload \/ RestartJournald \/ Enable \/ RestartHelper("watcher")
  BY <1>6, <1>9 DEF Reload, RestartJournald, Enable, RestartHelper, Proceed, After
<1>10. CASE Unhealthy \/ BreakOff
  BY <1>6, <1>10, DeploymentAssumption DEF Unhealthy, BreakOff, TryAgain, InRemote
<1>11. CASE Reboot
  <2>1. CASE step \in Steps
    BY <1>6, <1>11, <2>1 DEF Reboot, TryAgain, InRemote
  <2>2. CASE step \notin Steps
    BY <1>1, <1>11, <2>2 DEF Reboot, script, AgentInv, AgentRestarted, AnswerKept
  <2> QED
    BY <2>1, <2>2
<1> QED
  BY <1>2, <1>3, <1>4, <1>5, <1>7, <1>8, <1>9, <1>10, <1>11 DEF Script

-----------------------------------------------------------------------------
\* A deployment that ends well has replaced all that runs, whatever failed before
\* and however often, if nothing breaks off inside the window.
THEOREM DeploymentsReplaceEverything ==
  ASSUME BreaksAt \cap Window = {}
  PROVE  Spec => []DeployedIsNew
<1> DEFINE IInv == ScriptTypes /\ HostTypes /\ AgentTypes /\ HostInv /\ AgentInv
<1>1. Init => IInv
  <2> SUFFICES ASSUME Init PROVE IInv
    OBVIOUS
  <2>1. ScriptTypes /\ HostTypes /\ AgentTypes
    BY TypeInit
  <2>2. PICK v \in {"none", "old"} :
          /\ disk = [f \in Files |-> v] /\ loaded = [u \in Units |-> v]
          /\ phase = IF v = "old" THEN "down" ELSE "off"
    BY DEF Init
  <2>3. HostInv
    BY <2>2, StepNames DEF Init, HostInv, Written, AgentIsLast, UnitsKnown, JournalKnown,
       HelpersRestarted, Files
  <2>4. AgentInv
    BY <2>2 DEF Init, AgentInv, AgentRestarted, Observed, AnswerKept
  <2> QED
    BY <2>1, <2>3, <2>4
<1>2. IInv /\ [Next]_vars => IInv'
  <2> SUFFICES ASSUME IInv, [Next]_vars PROVE IInv'
    OBVIOUS
  <2>1. CASE Agent
    <3>1. AgentTypes' /\ AgentInv'
      BY <2>1, ProcessTypes, AgentKeepsInv DEF Agent
    <3>2. UNCHANGED <<script, host, deployments>>
      BY <2>1 DEF Agent, StartAgent, LoadAgent, RefuseSettings, Aside
    <3>3. ScriptTypes' /\ HostTypes' /\ HostInv'
      BY <3>2 DEF script, host, ScriptTypes, HostTypes, AttemptOK, HostInv, Written,
         AgentIsLast, UnitsKnown, JournalKnown, HelpersRestarted
    <3> QED
      BY <3>1, <3>3
  <2>2. CASE Script \/ Reboot
    BY <2>2, ScriptStepTypes, ScriptLeavesProcess, ScriptKeepsHost, ScriptKeepsAgent
  <2>3. CASE UNCHANGED vars
    BY <2>3 DEF vars, agentVars, script, host, ScriptTypes, HostTypes, AgentTypes,
       ProcessTypeOK, AttemptOK, HostInv, Written, AgentIsLast, UnitsKnown, JournalKnown,
       HelpersRestarted, AgentInv, AgentRestarted, Observed, AnswerKept
  <2> QED
    BY <2>1, <2>2, <2>3 DEF Next
<1>3. IInv => DeployedIsNew
  BY StepNames DEF HostInv, Written, UnitsKnown, JournalKnown, HelpersRestarted, AgentInv,
     AnswerKept, DeployedIsNew, Units, Users
<1> QED
  BY <1>1, <1>2, <1>3, PTL DEF Spec
=============================================================================
