----------------------------- MODULE Deployment -----------------------------
(***************************************************************************)
(* A deployment: the development machine brings a new version of           *)
(* everything to a host that runs an older one or nothing                  *)
(* (scripts/deploy-live-to-pi.nu), in phases it retries; the last phase is *)
(* a script on the host (scripts/deploy-live-from-pi.nu) with the          *)
(* installation of the units inside it                                     *)
(* (scripts/install-systemd-live-from-pi.nu).  Each attempt at it begins   *)
(* at its first command and knows nothing of the attempts before.          *)
(*                                                                         *)
(* systemd is external: it runs the unit it has in memory, which it reads  *)
(* at boot, at daemon-reload, when something is enabled, and when it does  *)
(* not know the unit yet.                                                  *)
(***************************************************************************)
EXTENDS AgentProcess

CONSTANTS
  MaxAttempts,    \* --attempts of run-with-retries (5 in the code)
  MaxPolls,       \* attempts of the health check (20 in the code)
  MaxDeployments, \* how often the operator starts the script
  BreaksAt        \* the steps at which an attempt may break off

\* What follows each step; the host's script begins with "artifacts".
After == [repository |-> "environment", environment |-> "artifacts",
          artifacts |-> "helpers", helpers |-> "agent", agent |-> "journald",
          journald |-> "reload", reload |-> "flush", flush |-> "enable",
          enable |-> "watcher", watcher |-> "restart", restart |-> "restarting",
          restarting |-> "timer", timer |-> "health"]

Steps == DOMAIN After \cup {"health"}

Files == {"repository", "environment", "artifacts", "helpers", "agent", "journald"}
Units == {"helpers", "agent"}
Users == {"journald", "watcher", "timer"}
Versions == {"none", "old", "new"}

ASSUME DeploymentAssumption ==
  /\ MaxAttempts \in Nat \ {0} /\ MaxPolls \in Nat \ {0}
  /\ MaxDeployments \in Nat
  /\ BreaksAt \subseteq Steps

VARIABLES
  step,       \* the next one, or how the deployment ended
  attempt,    \* at the current phase
  polls,      \* failed health checks of this attempt
  changed,    \* what this attempt has found changed: "units", "journald"
  disk,       \* the versions of the files on the host
  loaded,     \* the versions of the units in systemd's memory
  inUse,      \* the versions that helpers running on the host were started with
  enabled,    \* does a boot start the agent?
  answered,   \* the agent whose answer ended the last deployment
  valid,      \* does the agent accept the new environment?
  deployments

agentVars == <<phase, program, settings, fiber, status, usb, lines, monitor, troubles>>
script == <<step, attempt, polls, changed, answered>>
host == <<disk, loaded, inUse, enabled, valid>>
vars == <<agentVars, script, host, deployments>>

NoAnswer == [program |-> "none", settings |-> "none", status |-> Nothing]

Init ==
  /\ ProcessInit
  /\ \E v \in {"none", "old"} :
       /\ disk = [f \in Files |-> v] /\ loaded = [u \in Units |-> v]
       /\ inUse = [u \in Users |-> v] /\ enabled = (v = "old")
       /\ program = v /\ settings = v
       /\ phase = IF v = "old" THEN "down" ELSE "off"
  /\ valid \in BOOLEAN
  /\ step = "ready" /\ attempt = 1 /\ polls = 0 /\ changed = {}
  /\ answered = NoAnswer
  /\ deployments = 0

Accepts(environment) == environment = "old" \/ valid

-----------------------------------------------------------------------------
(* The script *)

At(s) == step = s
InRemote == step \in Steps \ {"repository", "environment"}

\* A new phase has all its attempts before it.
Proceed ==
  /\ step' = After[step]
  /\ attempt' = IF step \in {"repository", "environment"} THEN 1 ELSE attempt
  /\ polls' = 0
  /\ UNCHANGED <<answered, deployments>>

Quiet == UNCHANGED agentVars

\* The operator runs the script; the closures were built and copied.
Begin ==
  /\ step \in {"ready", "failed", "complete"} /\ deployments < MaxDeployments
  /\ step' = "repository" /\ attempt' = 1 /\ deployments' = deployments + 1
  /\ answered' = NoAnswer
  /\ Quiet /\ UNCHANGED <<polls, changed, host>>

Write(file) ==
  /\ disk' = [disk EXCEPT ![file] = "new"]
  /\ UNCHANGED <<loaded, inUse, enabled, valid>>

\* rsync, the environment file, the artifacts of CUPS: written whatever was there.
CopyFile(file) ==
  /\ At(file) /\ file \in {"repository", "environment", "artifacts"}
  /\ Write(file) /\ Proceed /\ Quiet /\ UNCHANGED changed

\* Mutant of InstallUnit: the answer of the last installation is not appended.
InstallUnflagged(file) ==
  /\ At(file) /\ file \in {"helpers", "agent", "journald"}
  /\ Write(file)
  /\ changed' = IF disk[file] = "new" \/ file = "agent" THEN changed
                ELSE changed \cup {IF file \in Units THEN "units" ELSE file}
  /\ Proceed /\ Quiet

\* install-rendered-unit: writes the file and says so only when it differs.
InstallUnit(file) ==
  /\ At(file) /\ file \in {"helpers", "agent", "journald"}
  /\ Write(file)
  /\ changed' = IF disk[file] = "new" THEN changed
                ELSE changed \cup {IF file \in Units THEN "units" ELSE file}
  /\ Proceed /\ Quiet

OnDisk == [u \in Units |-> disk[u]]

\* systemctl daemon-reload, unless no unit changed.
Reload ==
  /\ At("reload")
  /\ loaded' = IF "units" \in changed THEN OnDisk ELSE loaded
  /\ Proceed /\ Quiet /\ UNCHANGED <<changed, disk, inUse, enabled, valid>>

\* systemctl restart systemd-journald, unless its configuration did not change.
RestartJournald ==
  /\ At("flush")
  /\ inUse' = IF "journald" \in changed
              THEN [inUse EXCEPT !["journald"] = disk["journald"]] ELSE inUse
  /\ Proceed /\ Quiet /\ UNCHANGED <<changed, disk, loaded, enabled, valid>>

\* ensure-systemd-enabled: enabling reloads.
Enable ==
  /\ At("enable")
  /\ enabled' = TRUE
  /\ loaded' = IF enabled THEN loaded ELSE OnDisk
  /\ Proceed /\ Quiet /\ UNCHANGED <<changed, disk, inUse, valid>>

\* systemctl restart of the TLS watcher, then, later, of the heartbeat timer.
RestartHelper(helper) ==
  /\ At(helper) /\ helper \in {"watcher", "timer"}
  /\ inUse' = [inUse EXCEPT ![helper] = loaded["helpers"]]
  /\ Proceed /\ Quiet /\ UNCHANGED <<changed, disk, loaded, enabled, valid>>

\* systemctl restart of the agent: SIGTERM if it runs; the command returns when
\* the new process has been started.
RestartAgent ==
  /\ At("restart")
  /\ phase' = IF phase \in {"off", "down"} THEN "down" ELSE "stopping"
  /\ Proceed
  /\ UNCHANGED <<program, settings, loops, usb, troubles, changed, host>>

Restarted ==
  /\ At("restarting") /\ phase \in Alive
  /\ Proceed /\ Quiet /\ UNCHANGED <<changed, host>>

\* /v1/health answers: the deployment is complete.
Healthy ==
  /\ At("health") /\ phase = "serving"
  /\ step' = "complete"
  /\ answered' = [program |-> program, settings |-> settings, status |-> status]
  /\ changed' = {}
  /\ Quiet /\ UNCHANGED <<attempt, polls, host, deployments>>

\* No process, or nothing yet behind its port: the next check is a second later.
Poll ==
  /\ At("health") /\ phase # "serving" /\ polls < MaxPolls
  /\ polls' = polls + 1
  /\ Quiet /\ UNCHANGED <<step, attempt, changed, answered, host, deployments>>

-----------------------------------------------------------------------------
(* Failures *)

\* run-with-retries: from the beginning of the phase, or never again.
TryAgain ==
  /\ IF attempt < MaxAttempts
       THEN step' = IF InRemote THEN "artifacts" ELSE step
       ELSE step' = "failed"
  /\ attempt' = attempt + 1 /\ polls' = 0 /\ changed' = {}
  /\ UNCHANGED answered

\* The checks are used up.
Unhealthy ==
  /\ At("health") /\ polls = MaxPolls
  /\ TryAgain /\ Quiet /\ UNCHANGED <<host, deployments>>

\* A command fails or the connection is lost; the terminal of the script goes
\* with it.
BreakOff ==
  /\ step \in BreaksAt /\ Trouble
  /\ TryAgain /\ UNCHANGED <<process, loops, usb, host, deployments>>

\* The host restarts: everything is started from what is on its disk.
Reboot ==
  /\ Trouble
  /\ loaded' = OnDisk
  /\ inUse' = [u \in Users |-> IF u = "journald" THEN disk[u] ELSE disk["helpers"]]
  /\ phase' = IF enabled THEN "down" ELSE "off"
  /\ Fresh
  /\ IF step \in Steps THEN TryAgain ELSE UNCHANGED script
  /\ UNCHANGED <<program, settings, usb, disk, enabled, valid, deployments>>

-----------------------------------------------------------------------------
(* The agent beside the script *)

Aside == UNCHANGED <<script, host, deployments>>

StartAgent == Start(loaded["agent"], disk["environment"]) /\ Aside
LoadAgent == Accepts(settings) /\ Load /\ Aside
RefuseSettings == ~Accepts(settings) /\ Refuse /\ Aside

Agent == StartAgent \/ LoadAgent \/ RefuseSettings \/ (ProcessNext /\ Aside)

Script ==
  \/ Begin
  \/ \E file \in Files : CopyFile(file) \/ InstallUnit(file)
  \/ Reload \/ RestartJournald \/ Enable \/ RestartAgent \/ Restarted
  \/ \E helper \in {"watcher", "timer"} : RestartHelper(helper)
  \/ Healthy \/ Poll \/ Unhealthy \/ BreakOff

Next == Agent \/ Script \/ Reboot

\* systemd starts what is down and ends what is stopping; a request that is not
\* hung settles; a fiber that holds a reading stores it; the heartbeat comes
\* round; a line of udevadm is read.  Nothing is asked of the operator, of the
\* connection or of the askers.
Fairness ==
  /\ WF_vars(StartAgent)
  /\ WF_vars(LoadAgent)
  /\ WF_vars(Exit /\ Aside)
  /\ \A f \in Fibers : WF_vars(Read(f) /\ Aside) /\ WF_vars(Store(f) /\ Aside)
  /\ \A f \in {"cold", "heartbeat", "hotplug"} : WF_vars(Ask(f) /\ Aside)

Spec == Init /\ [][Next]_vars /\ Fairness

\* From the write of the last unit to the restart of the journal an attempt knows
\* what the next one cannot find out.
Window == {"journald", "reload", "flush"}

-----------------------------------------------------------------------------
(* Properties *)

\* The values the variables take.
TypeOK ==
  /\ ProcessTypeOK
  /\ {program, settings} \subseteq Versions
  /\ step \in Steps \cup {"ready", "failed", "complete"}
  /\ attempt \in 1..(MaxAttempts + 1) /\ polls \in 0..MaxPolls
  /\ changed \subseteq {"units", "journald"}
  /\ disk \in [Files -> Versions] /\ loaded \in [Units -> Versions]
  /\ inUse \in [Users -> Versions]
  /\ enabled \in BOOLEAN /\ valid \in BOOLEAN
  /\ deployments \in 0..MaxDeployments

\* A deployment that ends well has replaced what runs: the agent that answered is
\* the new executable with the new environment and has observed the printer,
\* and systemd, the journal, the watcher and the timer use the new files -
\* whatever broke off, rebooted or crashed on the way
\* (deploy-live-from-pi.nu:86-88, install-systemd-live-from-pi.nu:149-158).
DeployedIsNew ==
  step = "complete" =>
    /\ answered.program = "new" /\ answered.settings = "new"
    /\ answered.status # Nothing
    /\ \A u \in Units : loaded[u] = "new"
    /\ \A u \in Users : inUse[u] = "new"

\* Nothing helps an agent whose request hangs or whose settings are refused.
Stuck ==
  \/ fiber["cold"] = Hung \/ fiber["heartbeat"] = Hung
  \/ disk["environment"] = "new" /\ ~valid

\* A change of the USB device is noticed even when the hotplug loop has ended, did
\* not see the change or was overtaken by an older reading, and across crashes
\* and restarts: the heartbeat observes too (main.ts:49-51).
Noticed == phase = "serving" /\ status # usb ~> status = usb \/ Stuck

\* However the agent ends, and wherever a deployment is left off, it serves again
\* (Restart=always, ipp-print-orchestrator.service:13).
ComesBack == phase \notin {"off", "serving"} ~> phase = "serving" \/ Stuck
=============================================================================
