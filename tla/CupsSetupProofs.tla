-------------------------- MODULE CupsSetupProofs --------------------------
(***************************************************************************)
(* Theorems about the setup of the print queue, for any modes, numbers of  *)
(* activations, reboots and ignored failures, jobs and earlier queues.     *)
(***************************************************************************)
EXTENDS CupsSetup, TLAPS

\* The type invariant in parts.
ScriptTypes ==
  /\ mode \in Modes \cup {"none", "rollback"}
  /\ pc \in Required \cup
       {"none", "kill", "disable", "reject", "policy stop", "final disable", "final reject",
        "final unshare", "final unadvertise", "final kill", "final units", "end"}
  /\ ended \in {"none", "failed", "enabled", "safe", "stopped", "off", "installed",
                "rolled back"}
  /\ pc \in Exposing => mode = "enable"

CountTypes ==
  ignored \in 0..MaxIgnored /\ invocations \in 0..MaxInvocations /\ reboots \in 0..MaxReboots

HostTypes ==
  /\ units \in BOOLEAN /\ usb \in BOOLEAN /\ advertised \in BOOLEAN /\ verified \in BOOLEAN
  /\ watcher \in {"idle", "restart"} /\ revived \in BOOLEAN

CupsTypes ==
  /\ running \in BOOLEAN /\ live \in Queues /\ saved \in Queues
  /\ pending \subseteq Jobs /\ files \subseteq Jobs
  /\ ~running => live = saved /\ pending = {}

Typed == ScriptTypes /\ CountTypes /\ HostTypes /\ CupsTypes

\* Where the closing of a queue begins and where it ends.
Closing == {"final disable", "final reject", "final unshare", "final unadvertise",
            "final kill", "final spool"}

\* The commands from the configuration of the queue to its exposure.
Configured == {"disable", "reject", "policy stop", "policy edit", "policy start",
               "clear spool", "verify local"}

\* Which command belongs to which mode; an end is recorded until the next start.
Places ==
  /\ mode = "none" <=> pc = "none"
  /\ mode # "none" => ended = "none"
  /\ pc = "deauthorize" => mode = "stop"
  /\ pc = "artifacts" => mode \in {"enable", "safe", "artifacts"}
  /\ pc \in {"kill", "spool"} => mode \in {"enable", "safe", "stop"}
  /\ pc \in {"packages", "authorize", "tls", "uri", "start", "network", "configure"}
              \cup Configured => mode \in {"enable", "safe"}
  /\ pc \in Closing => mode \in {"safe", "rollback"}
  /\ pc = "final units" => mode \in {"safe", "rollback", "stop"}

\* What the activation has reached at each command on the way to an exposed queue,
\* whatever it ignored.
Reached ==
  /\ pc \in {"disable", "reject", "policy stop"} \cup Exposing => running
  /\ pc \in Configured \cup Exposing => live.config = "new"
  /\ pc \in Exposing => verified
  /\ pc \in Exposing \ {"share"} => live.shared
  /\ pc \in Exposing \ {"share", "enable"} => live.enabled
  /\ pc \in Exposing \ {"share", "enable", "accept"} => live.accepting
  /\ pc \in {"enable units", "verify tls", "verify public"} => advertised
  /\ pc \in {"verify tls", "verify public"} => units

Open(queue) ==
  queue.enabled /\ queue.accepting /\ queue.shared /\ queue.config = "new"

Enabled ==
  ended = "enabled" \/ (mode = "enable" /\ pc = "end") =>
    running /\ units /\ advertised /\ verified /\ Open(live)

\* From its rejection to its exposure a queue takes no job, and from the second
\* clearing of the spool none is there.
Emptied ==
  ignored = 0 =>
    /\ pc \in {"policy stop", "policy edit", "policy start", "clear spool", "verify local",
               "share", "enable", "accept"} => ~live.accepting
    /\ pc \in {"verify local", "share", "enable", "accept"} => files = {}

Sealed(queue) == Closed(queue) /\ queue.config = "new" /\ queue.policy = "abort"

\* Was the last command of a mode, or the end of its script, reached?
Stopping(modes, outcomes) == (pc = "end" /\ mode \in modes) \/ ended \in outcomes

\* What a stop has reached at each command, if nothing was ignored and the watcher
\* revived nothing.
Stopped ==
  ignored = 0 /\ ~revived =>
    /\ \/ pc \in {"spool", "deauthorize", "final spool", "final units"}
       \/ Stopping({"safe", "rollback", "stop"}, {"safe", "rolled back", "stopped", "off"})
       => ~running
    /\ \/ pc \in {"deauthorize", "final units"}
       \/ Stopping({"safe", "rollback", "stop"}, {"safe", "rolled back", "stopped", "off"})
       => files = {}
    /\ Stopping({"safe", "rollback", "stop"}, {"safe", "rolled back", "stopped", "off"})
       => ~units
    /\ (pc = "final units" /\ mode = "stop") \/ Stopping({"stop"}, {"stopped"}) => ~usb
    /\ \/ pc \in {"final kill", "final spool"}
       \/ pc = "final units" /\ mode \in {"safe", "rollback"}
       \/ Stopping({"safe", "rollback"}, {"safe", "rolled back"})
       => ~advertised

\* A safe activation seals the queue, in memory and in printers.conf.
Sealing ==
  ignored = 0 /\ ~revived =>
    /\ pc \in {"disable", "reject", "policy stop", "policy edit"} => ~live.shared
    /\ pc \in {"reject", "policy stop", "policy edit"} => ~live.enabled
    /\ pc = "policy edit" => ~running
    /\ \/ pc \in {"policy start", "clear spool", "verify local"}
       \/ mode = "safe" /\ pc \in Closing \cup {"final units", "end"}
       \/ ended = "safe"
       => Sealed(live) /\ Sealed(saved)

IInv == Typed /\ Places /\ Reached /\ Enabled /\ Emptied /\ Stopped /\ Sealing

\* No failure is forgotten: after one more the count is not zero.
LEMMA FailureCounts ==
  ASSUME CountTypes
  PROVE  ignored \in Nat /\ (ignored' = ignored + 1 => ignored' # 0)
<1>1. ignored \in Nat
  BY SetupAssumption DEF CountTypes
<1>2. ignored + 1 # 0
  BY <1>1
<1> QED
  BY <1>1, <1>2

\* How the end of each mode is called.
LEMMA Outcomes ==
  /\ Outcome["enable"] = "enabled" /\ Outcome["safe"] = "safe" /\ Outcome["stop"] = "stopped"
  /\ Outcome["artifacts"] = "installed" /\ Outcome["rollback"] = "rolled back"
  BY DEF Outcome

\* Every step keeps the types of what the script is at ...
LEMMA ScriptTypesKept ==
  ASSUME ScriptTypes, Places, [Next]_setupVars
  PROVE  ScriptTypes'
<1> USE SetupAssumption DEF SetupAssumption, ScriptTypes, Places, Configured, Closing,
    Required, Exposing
<1>1. CASE UNCHANGED setupVars
  BY <1>1 DEF setupVars, scriptVars, cupsVars, hostVars, watcherVars
<1>2. CASE Begin
  BY <1>2 DEF Begin, cupsVars, hostVars
<1>3. CASE clear_spool_and_stop_cups
  BY <1>3 DEF clear_spool_and_stop_cups, Goto, BestEffort, KillCupsd, StopCupsd, hostVars,
     watcherVars
<1>4. CASE clear_spool_files \/ remove_avahi_ipps_service
  BY <1>4 DEF clear_spool_files, remove_avahi_ipps_service, Goto, BestEffort, cupsVars,
     hostVars, watcherVars
<1>5. CASE deauthorize_hp_usb \/ DisableUnits
  BY <1>5 DEF deauthorize_hp_usb, DisableUnits, Goto, Step, BestEffort, cupsVars, hostVars,
     watcherVars
<1>6. CASE ensure_apt_packages
  BY <1>6 DEF ensure_apt_packages, Goto, Step, StartCupsd, cupsVars, hostVars, watcherVars
<1>7. CASE Prepare \/ authorize_hp_usb \/ install_cups_artifacts
  BY <1>7 DEF Prepare, authorize_hp_usb, install_cups_artifacts, Goto, Step, cupsVars,
     hostVars, watcherVars
<1>8. CASE StartForConfiguration \/ StartWithPolicy \/ EnableUnits
  BY <1>8 DEF StartForConfiguration, StartWithPolicy, EnableUnits, Goto, Step, StartCupsd,
     cupsVars, hostVars, watcherVars
<1>9. CASE configure_cups_network \/ ConfigureQueue
  BY <1>9 DEF configure_cups_network, ConfigureQueue, Goto, Step, hostVars, watcherVars
<1>10. CASE DisableQueue
  BY <1>10 DEF DisableQueue, AskBestEffort, Goto, BestEffort, hostVars, watcherVars
<1>11. CASE RejectJobs
  BY <1>11 DEF RejectJobs, AskBestEffort, Goto, BestEffort, hostVars, watcherVars
<1>12. CASE UnshareQueue
  BY <1>12 DEF UnshareQueue, AskBestEffort, Goto, BestEffort, hostVars, watcherVars
<1>13. CASE StopForPolicy
  BY <1>13 DEF StopForPolicy, Goto, BestEffort, StopCupsd, hostVars, watcherVars
<1>14. CASE EditPolicy
  BY <1>14 DEF EditPolicy, Goto, Step, hostVars, watcherVars
<1>15. CASE verify_ipp_contract \/ verify_cups_tls_identity
  BY <1>15 DEF verify_ipp_contract, verify_cups_tls_identity, Goto, Step, cupsVars, hostVars,
     watcherVars
<1>16. CASE enable_queue \/ install_avahi_ipps_service
  BY <1>16 DEF enable_queue, install_avahi_ipps_service, Goto, Step, cupsVars, hostVars,
     watcherVars
<1>17. CASE End
  <2>1. mode \in {"enable", "safe", "stop", "artifacts", "rollback"} /\ pc = "end"
    BY <1>17 DEF End
  <2>2. /\ mode' = "none" /\ pc' = "none" /\ ended' = Outcome[mode]
        /\ UNCHANGED <<ignored, running, live, saved, files>>
        /\ UNCHANGED <<units, usb, advertised, verified, revived>>
    BY <1>17 DEF End, Over, cupsVars, hostVars, watcherVars
  <2> QED
    BY <2>1, <2>2, Outcomes
<1>18. CASE RollBack
  BY <1>18 DEF RollBack, cupsVars, hostVars, watcherVars
<1>19. CASE StepFails \/ Interrupted
  BY <1>19 DEF StepFails, Interrupted, Over, cupsVars, hostVars, watcherVars
<1>20. CASE CupsdSaves
  BY <1>20 DEF CupsdSaves, scriptVars, hostVars, watcherVars
<1>21. ASSUME NEW j \in Jobs, Submit(j) \/ JobEnds(j) PROVE ScriptTypes'
  BY <1>21 DEF Submit, JobEnds, scriptVars, hostVars, watcherVars
<1>22. CASE WatcherFindsActive \/ WatcherRestarts
  BY <1>22 DEF WatcherFindsActive, WatcherRestarts, scriptVars, cupsVars, hostVars
<1>23. CASE Reboot
  BY <1>23 DEF Reboot
<1> QED
  BY <1>1, <1>2, <1>3, <1>4, <1>5, <1>6, <1>7, <1>8, <1>9, <1>10, <1>11, <1>12, <1>13, <1>14,
     <1>15, <1>16, <1>17, <1>18, <1>19, <1>20, <1>21, <1>22, <1>23 DEF Next, ScriptStep,
     Environment

\* ... the bounds of what is counted ...
LEMMA CountTypesKept ==
  ASSUME CountTypes, [Next]_setupVars
  PROVE  CountTypes'
<1> USE SetupAssumption DEF SetupAssumption, CountTypes
<1>1. CASE UNCHANGED setupVars
  BY <1>1 DEF setupVars, scriptVars
<1>2. CASE Begin
  BY <1>2 DEF Begin
<1>3. CASE ScriptStep
  <2>1. UNCHANGED <<invocations, reboots>>
    BY <1>3 DEF ScriptStep, AskBestEffort, ConfigureQueue, DisableQueue, DisableUnits,
       EditPolicy, EnableUnits, End, Goto, Interrupted, Over, Prepare, RejectJobs, RollBack,
       StartForConfiguration, StartWithPolicy, Step, StepFails, StopForPolicy, UnshareQueue,
       authorize_hp_usb, clear_spool_and_stop_cups, clear_spool_files, configure_cups_network,
       deauthorize_hp_usb, enable_queue, ensure_apt_packages, install_avahi_ipps_service,
       install_cups_artifacts, remove_avahi_ipps_service, verify_cups_tls_identity,
       verify_ipp_contract
  <2>2. ignored' = ignored \/ (ignored < MaxIgnored /\ ignored' = ignored + 1)
    BY <1>3 DEF ScriptStep, AskBestEffort, BestEffort, ConfigureQueue, DisableQueue,
       DisableUnits, EditPolicy, EnableUnits, End, Goto, Interrupted, Over, Prepare,
       RejectJobs, RollBack, StartForConfiguration, StartWithPolicy, Step, StepFails,
       StopForPolicy, UnshareQueue, authorize_hp_usb, clear_spool_and_stop_cups,
       clear_spool_files, configure_cups_network, deauthorize_hp_usb, enable_queue,
       ensure_apt_packages, install_avahi_ipps_service, install_cups_artifacts,
       remove_avahi_ipps_service, verify_cups_tls_identity, verify_ipp_contract
  <2> QED
    BY <2>1, <2>2
<1>4. CASE Environment
  BY <1>4 DEF Environment, CupsdSaves, Submit, JobEnds, WatcherFindsActive, WatcherRestarts,
     Reboot, scriptVars
<1> QED
  BY <1>1, <1>2, <1>3, <1>4 DEF Next

\* ... the types of the host and the watcher ...
LEMMA HostTypesKept ==
  ASSUME HostTypes, [Next]_setupVars
  PROVE  HostTypes'
<1> USE SetupAssumption DEF HostTypes
<1>1. CASE UNCHANGED setupVars
  BY <1>1 DEF setupVars, scriptVars, cupsVars, hostVars, watcherVars
<1>2. CASE Begin
  BY <1>2 DEF Begin, cupsVars, hostVars
<1>3. CASE clear_spool_and_stop_cups
  BY <1>3 DEF clear_spool_and_stop_cups, Goto, BestEffort, KillCupsd, StopCupsd, hostVars,
     watcherVars
<1>4. CASE clear_spool_files \/ remove_avahi_ipps_service
  BY <1>4 DEF clear_spool_files, remove_avahi_ipps_service, Goto, BestEffort, cupsVars,
     hostVars, watcherVars
<1>5. CASE deauthorize_hp_usb \/ DisableUnits
  BY <1>5 DEF deauthorize_hp_usb, DisableUnits, Goto, Step, BestEffort, cupsVars, hostVars,
     watcherVars
<1>6. CASE ensure_apt_packages
  BY <1>6 DEF ensure_apt_packages, Goto, Step, StartCupsd, cupsVars, hostVars, watcherVars
<1>7. CASE Prepare \/ authorize_hp_usb \/ install_cups_artifacts
  BY <1>7 DEF Prepare, authorize_hp_usb, install_cups_artifacts, Goto, Step, cupsVars,
     hostVars, watcherVars
<1>8. CASE StartForConfiguration \/ StartWithPolicy \/ EnableUnits
  BY <1>8 DEF StartForConfiguration, StartWithPolicy, EnableUnits, Goto, Step, StartCupsd,
     cupsVars, hostVars, watcherVars
<1>9. CASE configure_cups_network \/ ConfigureQueue
  BY <1>9 DEF configure_cups_network, ConfigureQueue, Goto, Step, hostVars, watcherVars
<1>10. CASE DisableQueue
  BY <1>10 DEF DisableQueue, AskBestEffort, Goto, BestEffort, hostVars, watcherVars
<1>11. CASE RejectJobs
  BY <1>11 DEF RejectJobs, AskBestEffort, Goto, BestEffort, hostVars, watcherVars
<1>12. CASE UnshareQueue
  BY <1>12 DEF UnshareQueue, AskBestEffort, Goto, BestEffort, hostVars, watcherVars
<1>13. CASE StopForPolicy
  BY <1>13 DEF StopForPolicy, Goto, BestEffort, StopCupsd, hostVars, watcherVars
<1>14. CASE EditPolicy
  BY <1>14 DEF EditPolicy, Goto, Step, hostVars, watcherVars
<1>15. CASE verify_ipp_contract \/ verify_cups_tls_identity
  BY <1>15 DEF verify_ipp_contract, verify_cups_tls_identity, Goto, Step, cupsVars, hostVars,
     watcherVars
<1>16. CASE enable_queue \/ install_avahi_ipps_service
  BY <1>16 DEF enable_queue, install_avahi_ipps_service, Goto, Step, cupsVars, hostVars,
     watcherVars
<1>17. CASE End
  BY <1>17 DEF End, Over, Outcome, cupsVars, hostVars, watcherVars
<1>18. CASE RollBack
  BY <1>18 DEF RollBack, cupsVars, hostVars, watcherVars
<1>19. CASE StepFails \/ Interrupted
  BY <1>19 DEF StepFails, Interrupted, Over, cupsVars, hostVars, watcherVars
<1>20. CASE CupsdSaves
  BY <1>20 DEF CupsdSaves, scriptVars, hostVars, watcherVars
<1>21. ASSUME NEW j \in Jobs, Submit(j) \/ JobEnds(j) PROVE HostTypes'
  BY <1>21 DEF Submit, JobEnds, scriptVars, hostVars, watcherVars
<1>22. CASE WatcherFindsActive \/ WatcherRestarts
  BY <1>22 DEF WatcherFindsActive, WatcherRestarts, scriptVars, cupsVars, hostVars
<1>23. CASE Reboot
  BY <1>23 DEF Reboot
<1> QED
  BY <1>1, <1>2, <1>3, <1>4, <1>5, <1>6, <1>7, <1>8, <1>9, <1>10, <1>11, <1>12, <1>13, <1>14,
     <1>15, <1>16, <1>17, <1>18, <1>19, <1>20, <1>21, <1>22, <1>23 DEF Next, ScriptStep,
     Environment

\* ... and of cupsd, which holds nothing of its own while it is stopped.
LEMMA CupsTypesKept ==
  ASSUME HostTypes, CupsTypes, [Next]_setupVars
  PROVE  CupsTypes'
<1> USE SetupAssumption DEF CupsTypes, Queues
<1>1. CASE UNCHANGED setupVars
  BY <1>1 DEF setupVars, scriptVars, cupsVars, hostVars, watcherVars
<1>2. CASE Begin
  BY <1>2 DEF Begin, cupsVars, hostVars
<1>3. CASE clear_spool_and_stop_cups
  <2>1. CASE KillCupsd
    BY <1>3, <2>1 DEF clear_spool_and_stop_cups, KillCupsd
  <2>2. CASE StopCupsd
    BY <1>3, <2>2 DEF clear_spool_and_stop_cups, StopCupsd
  <2>3. CASE UNCHANGED <<running, live, saved, pending>>
    <3>1. files' = files
      BY <1>3 DEF clear_spool_and_stop_cups
    <3> QED
      BY <2>3, <3>1
  <2> QED
    BY <1>3, <2>1, <2>2, <2>3 DEF clear_spool_and_stop_cups, BestEffort
<1>4. CASE clear_spool_files \/ remove_avahi_ipps_service
  BY <1>4 DEF clear_spool_files, remove_avahi_ipps_service, Goto, BestEffort, cupsVars,
     hostVars, watcherVars
<1>5. CASE deauthorize_hp_usb \/ DisableUnits
  BY <1>5 DEF deauthorize_hp_usb, DisableUnits, Goto, Step, BestEffort, cupsVars, hostVars,
     watcherVars
<1>6. CASE ensure_apt_packages
  BY <1>6 DEF ensure_apt_packages, Goto, Step, StartCupsd, cupsVars, hostVars, watcherVars
<1>7. CASE Prepare \/ authorize_hp_usb \/ install_cups_artifacts
  BY <1>7 DEF Prepare, authorize_hp_usb, install_cups_artifacts, Goto, Step, cupsVars,
     hostVars, watcherVars
<1>8. CASE StartForConfiguration \/ StartWithPolicy \/ EnableUnits
  BY <1>8 DEF StartForConfiguration, StartWithPolicy, EnableUnits, Goto, Step, StartCupsd,
     cupsVars, hostVars, watcherVars
<1>9. CASE configure_cups_network \/ ConfigureQueue
  BY <1>9, ZenonT(60) DEF configure_cups_network, ConfigureQueue, Goto, Step, hostVars, watcherVars
<1>10. CASE DisableQueue
  BY <1>10 DEF DisableQueue, AskBestEffort, Goto, BestEffort, hostVars, watcherVars
<1>11. CASE RejectJobs
  BY <1>11 DEF RejectJobs, AskBestEffort, Goto, BestEffort, hostVars, watcherVars
<1>12. CASE UnshareQueue
  BY <1>12 DEF UnshareQueue, AskBestEffort, Goto, BestEffort, hostVars, watcherVars
<1>13. CASE StopForPolicy
  BY <1>13 DEF StopForPolicy, Goto, BestEffort, StopCupsd, hostVars, watcherVars
<1>14. CASE EditPolicy
  BY <1>14 DEF EditPolicy, Goto, Step, hostVars, watcherVars
<1>15. CASE verify_ipp_contract \/ verify_cups_tls_identity
  BY <1>15 DEF verify_ipp_contract, verify_cups_tls_identity, Goto, Step, cupsVars, hostVars,
     watcherVars
<1>16. CASE enable_queue \/ install_avahi_ipps_service
  BY <1>16 DEF enable_queue, install_avahi_ipps_service, Goto, Step, cupsVars, hostVars,
     watcherVars
<1>17. CASE End
  <2>1. UNCHANGED <<running, live, saved, pending, files>>
    BY <1>17 DEF End, Over, cupsVars
  <2> QED
    BY <2>1
<1>18. CASE RollBack
  <2>1. UNCHANGED <<running, live, saved, pending, files>>
    BY <1>18 DEF RollBack, Over, cupsVars
  <2> QED
    BY <2>1
<1>19. CASE StepFails \/ Interrupted
  BY <1>19 DEF StepFails, Interrupted, Over, cupsVars, hostVars, watcherVars
<1>20. CASE CupsdSaves
  BY <1>20 DEF CupsdSaves, scriptVars, hostVars, watcherVars
<1>21. ASSUME NEW j \in Jobs, Submit(j) \/ JobEnds(j) PROVE CupsTypes'
  BY <1>21 DEF Submit, JobEnds, scriptVars, hostVars, watcherVars
<1>22. CASE WatcherFindsActive \/ WatcherRestarts
  BY <1>22 DEF WatcherFindsActive, WatcherRestarts, scriptVars, cupsVars, hostVars
<1>23. CASE Reboot
  <2>1. running' \in BOOLEAN /\ pending' \subseteq Jobs /\ files' \subseteq Jobs
    BY <1>23 DEF Reboot, HostTypes
  <2>2. live' \in Queues /\ saved' \in Queues /\ live' = saved'
    BY <1>23 DEF Reboot
  <2>3. ~running' => pending' = {}
    BY <1>23 DEF Reboot
  <2> QED
    BY <2>1, <2>2, <2>3
<1> QED
  BY <1>1, <1>2, <1>3, <1>4, <1>5, <1>6, <1>7, <1>8, <1>9, <1>10, <1>11, <1>12, <1>13, <1>14,
     <1>15, <1>16, <1>17, <1>18, <1>19, <1>20, <1>21, <1>22, <1>23 DEF Next, ScriptStep,
     Environment

\* Every step keeps to the order of the script.
LEMMA PlacesKept ==
  ASSUME ScriptTypes, Places, [Next]_setupVars
  PROVE  Places'
<1> USE SetupAssumption DEF SetupAssumption, ScriptTypes, Places, Required, Exposing,
    Configured, Closing
<1>1. CASE UNCHANGED setupVars
  BY <1>1 DEF setupVars, scriptVars, cupsVars, hostVars, watcherVars
<1>2. CASE Begin
  BY <1>2 DEF Begin, cupsVars, hostVars
<1>3. CASE clear_spool_and_stop_cups
  BY <1>3 DEF clear_spool_and_stop_cups, Goto, BestEffort, KillCupsd, StopCupsd, hostVars,
     watcherVars
<1>4. CASE clear_spool_files \/ remove_avahi_ipps_service
  BY <1>4 DEF clear_spool_files, remove_avahi_ipps_service, Goto, BestEffort, cupsVars,
     hostVars, watcherVars
<1>5. CASE deauthorize_hp_usb \/ DisableUnits
  BY <1>5 DEF deauthorize_hp_usb, DisableUnits, Goto, Step, BestEffort, cupsVars, hostVars,
     watcherVars
<1>6. CASE ensure_apt_packages
  BY <1>6 DEF ensure_apt_packages, Goto, Step, StartCupsd, cupsVars, hostVars, watcherVars
<1>7. CASE Prepare \/ authorize_hp_usb \/ install_cups_artifacts
  BY <1>7 DEF Prepare, authorize_hp_usb, install_cups_artifacts, Goto, Step, cupsVars,
     hostVars, watcherVars
<1>8. CASE StartForConfiguration \/ StartWithPolicy \/ EnableUnits
  BY <1>8 DEF StartForConfiguration, StartWithPolicy, EnableUnits, Goto, Step, StartCupsd,
     cupsVars, hostVars, watcherVars
<1>9. CASE configure_cups_network \/ ConfigureQueue
  BY <1>9 DEF configure_cups_network, ConfigureQueue, Goto, Step, hostVars, watcherVars
<1>10. CASE DisableQueue
  BY <1>10 DEF DisableQueue, AskBestEffort, Goto, BestEffort, hostVars, watcherVars
<1>11. CASE RejectJobs
  BY <1>11 DEF RejectJobs, AskBestEffort, Goto, BestEffort, hostVars, watcherVars
<1>12. CASE UnshareQueue
  BY <1>12 DEF UnshareQueue, AskBestEffort, Goto, BestEffort, hostVars, watcherVars
<1>13. CASE StopForPolicy
  BY <1>13 DEF StopForPolicy, Goto, BestEffort, StopCupsd, hostVars, watcherVars
<1>14. CASE EditPolicy
  BY <1>14 DEF EditPolicy, Goto, Step, hostVars, watcherVars
<1>15. CASE verify_ipp_contract \/ verify_cups_tls_identity
  BY <1>15 DEF verify_ipp_contract, verify_cups_tls_identity, Goto, Step, cupsVars, hostVars,
     watcherVars
<1>16. CASE enable_queue \/ install_avahi_ipps_service
  BY <1>16 DEF enable_queue, install_avahi_ipps_service, Goto, Step, cupsVars, hostVars,
     watcherVars
<1>17. CASE End
  <2>1. mode \in {"enable", "safe", "stop", "artifacts", "rollback"} /\ pc = "end"
    BY <1>17 DEF End
  <2>2. /\ mode' = "none" /\ pc' = "none" /\ ended' = Outcome[mode]
        /\ UNCHANGED <<ignored, running, live, saved, files>>
        /\ UNCHANGED <<units, usb, advertised, verified, revived>>
    BY <1>17 DEF End, Over, cupsVars, hostVars, watcherVars
  <2> QED
    BY <2>1, <2>2, Outcomes
<1>18. CASE RollBack
  BY <1>18 DEF RollBack, cupsVars, hostVars, watcherVars
<1>19. CASE StepFails \/ Interrupted
  BY <1>19 DEF StepFails, Interrupted, Over, cupsVars, hostVars, watcherVars
<1>20. CASE CupsdSaves
  BY <1>20 DEF CupsdSaves, scriptVars, hostVars, watcherVars
<1>21. ASSUME NEW j \in Jobs, Submit(j) \/ JobEnds(j) PROVE Places'
  BY <1>21 DEF Submit, JobEnds, scriptVars, hostVars, watcherVars
<1>22. CASE WatcherFindsActive \/ WatcherRestarts
  BY <1>22 DEF WatcherFindsActive, WatcherRestarts, scriptVars, cupsVars, hostVars
<1>23. CASE Reboot
  BY <1>23 DEF Reboot
<1> QED
  BY <1>1, <1>2, <1>3, <1>4, <1>5, <1>6, <1>7, <1>8, <1>9, <1>10, <1>11, <1>12, <1>13, <1>14,
     <1>15, <1>16, <1>17, <1>18, <1>19, <1>20, <1>21, <1>22, <1>23 DEF Next, ScriptStep,
     Environment

\* Every step of the exposure keeps what those before it reached.
LEMMA ReachedKept ==
  ASSUME ScriptTypes, CupsTypes, Places, Reached, [Next]_setupVars
  PROVE  Reached'
<1> USE SetupAssumption DEF ScriptTypes, CupsTypes, Places, Reached, Exposing, Configured,
    Queues, Required
<1>1. CASE UNCHANGED setupVars
  BY <1>1 DEF setupVars, scriptVars, cupsVars, hostVars, watcherVars
<1>2. CASE Begin
  BY <1>2 DEF Begin, cupsVars, hostVars
<1>3. CASE clear_spool_and_stop_cups
  BY <1>3 DEF clear_spool_and_stop_cups, Goto, BestEffort, KillCupsd, StopCupsd, hostVars,
     watcherVars
<1>4. CASE clear_spool_files \/ remove_avahi_ipps_service
  BY <1>4 DEF clear_spool_files, remove_avahi_ipps_service, Goto, BestEffort, cupsVars,
     hostVars, watcherVars
<1>5. CASE deauthorize_hp_usb \/ DisableUnits
  BY <1>5 DEF deauthorize_hp_usb, DisableUnits, Goto, Step, BestEffort, cupsVars, hostVars,
     watcherVars
<1>6. CASE ensure_apt_packages
  BY <1>6 DEF ensure_apt_packages, Goto, Step, StartCupsd, cupsVars, hostVars, watcherVars
<1>7. CASE Prepare \/ authorize_hp_usb \/ install_cups_artifacts
  BY <1>7 DEF Prepare, authorize_hp_usb, install_cups_artifacts, Goto, Step, cupsVars,
     hostVars, watcherVars
<1>8. CASE StartForConfiguration \/ StartWithPolicy \/ EnableUnits
  BY <1>8 DEF StartForConfiguration, StartWithPolicy, EnableUnits, Goto, Step, StartCupsd,
     cupsVars, hostVars, watcherVars
<1>9. CASE configure_cups_network \/ ConfigureQueue
  BY <1>9 DEF configure_cups_network, ConfigureQueue, Goto, Step, hostVars, watcherVars
<1>10. CASE DisableQueue
  BY <1>10 DEF DisableQueue, AskBestEffort, Goto, BestEffort, hostVars, watcherVars
<1>11. CASE RejectJobs
  BY <1>11 DEF RejectJobs, AskBestEffort, Goto, BestEffort, hostVars, watcherVars
<1>12. CASE UnshareQueue
  BY <1>12 DEF UnshareQueue, AskBestEffort, Goto, BestEffort, hostVars, watcherVars
<1>13. CASE StopForPolicy
  BY <1>13 DEF StopForPolicy, Goto, BestEffort, StopCupsd, hostVars, watcherVars
<1>14. CASE EditPolicy
  BY <1>14 DEF EditPolicy, Goto, Step, hostVars, watcherVars
<1>15. CASE verify_ipp_contract \/ verify_cups_tls_identity
  BY <1>15 DEF verify_ipp_contract, verify_cups_tls_identity, Goto, Step, cupsVars, hostVars,
     watcherVars
<1>16. CASE enable_queue \/ install_avahi_ipps_service
  BY <1>16 DEF enable_queue, install_avahi_ipps_service, Goto, Step, cupsVars, hostVars,
     watcherVars
<1>17. CASE End
  BY <1>17 DEF End, Over, Outcome, cupsVars, hostVars, watcherVars
<1>18. CASE RollBack
  BY <1>18 DEF RollBack, cupsVars, hostVars, watcherVars
<1>19. CASE StepFails \/ Interrupted
  BY <1>19 DEF StepFails, Interrupted, Over, cupsVars, hostVars, watcherVars
<1>20. CASE CupsdSaves
  BY <1>20 DEF CupsdSaves, scriptVars, hostVars, watcherVars
<1>21. ASSUME NEW j \in Jobs, Submit(j) \/ JobEnds(j) PROVE Reached'
  BY <1>21 DEF Submit, JobEnds, scriptVars, hostVars, watcherVars
<1>22. CASE WatcherFindsActive \/ WatcherRestarts
  BY <1>22 DEF WatcherFindsActive, WatcherRestarts, scriptVars, cupsVars, hostVars
<1>23. CASE Reboot
  BY <1>23 DEF Reboot
<1> QED
  BY <1>1, <1>2, <1>3, <1>4, <1>5, <1>6, <1>7, <1>8, <1>9, <1>10, <1>11, <1>12, <1>13, <1>14,
     <1>15, <1>16, <1>17, <1>18, <1>19, <1>20, <1>21, <1>22, <1>23 DEF Next, ScriptStep,
     Environment

\* What is exposed stays so until the next activation or boot.
LEMMA EnabledKept ==
  ASSUME ScriptTypes, CupsTypes, Places, Reached, Enabled, [Next]_setupVars
  PROVE  Enabled'
<1> USE SetupAssumption DEF ScriptTypes, CupsTypes, Places, Reached, Enabled, Open, Exposing,
    Queues
<1>1. CASE UNCHANGED setupVars
  BY <1>1 DEF setupVars, scriptVars, cupsVars, hostVars, watcherVars
<1>2. CASE Begin
  BY <1>2 DEF Begin, cupsVars, hostVars
<1>3. CASE clear_spool_and_stop_cups
  BY <1>3 DEF clear_spool_and_stop_cups, Goto, BestEffort, KillCupsd, StopCupsd, hostVars,
     watcherVars
<1>4. CASE clear_spool_files \/ remove_avahi_ipps_service
  BY <1>4 DEF clear_spool_files, remove_avahi_ipps_service, Goto, BestEffort, cupsVars,
     hostVars, watcherVars
<1>5. CASE deauthorize_hp_usb \/ DisableUnits
  BY <1>5 DEF deauthorize_hp_usb, DisableUnits, Goto, Step, BestEffort, cupsVars, hostVars,
     watcherVars
<1>6. CASE ensure_apt_packages
  BY <1>6 DEF ensure_apt_packages, Goto, Step, StartCupsd, cupsVars, hostVars, watcherVars
<1>7. CASE Prepare \/ authorize_hp_usb \/ install_cups_artifacts
  BY <1>7 DEF Prepare, authorize_hp_usb, install_cups_artifacts, Goto, Step, cupsVars,
     hostVars, watcherVars
<1>8. CASE StartForConfiguration \/ StartWithPolicy \/ EnableUnits
  BY <1>8 DEF StartForConfiguration, StartWithPolicy, EnableUnits, Goto, Step, StartCupsd,
     cupsVars, hostVars, watcherVars
<1>9. CASE configure_cups_network \/ ConfigureQueue
  BY <1>9 DEF configure_cups_network, ConfigureQueue, Goto, Step, hostVars, watcherVars
<1>10. CASE DisableQueue
  BY <1>10 DEF DisableQueue, AskBestEffort, Goto, BestEffort, hostVars, watcherVars
<1>11. CASE RejectJobs
  BY <1>11 DEF RejectJobs, AskBestEffort, Goto, BestEffort, hostVars, watcherVars
<1>12. CASE UnshareQueue
  BY <1>12 DEF UnshareQueue, AskBestEffort, Goto, BestEffort, hostVars, watcherVars
<1>13. CASE StopForPolicy
  BY <1>13 DEF StopForPolicy, Goto, BestEffort, StopCupsd, hostVars, watcherVars
<1>14. CASE EditPolicy
  BY <1>14 DEF EditPolicy, Goto, Step, hostVars, watcherVars
<1>15. CASE verify_ipp_contract \/ verify_cups_tls_identity
  BY <1>15 DEF verify_ipp_contract, verify_cups_tls_identity, Goto, Step, cupsVars, hostVars,
     watcherVars
<1>16. CASE enable_queue \/ install_avahi_ipps_service
  BY <1>16 DEF enable_queue, install_avahi_ipps_service, Goto, Step, cupsVars, hostVars,
     watcherVars
<1>17. CASE End
  <2>1. mode \in {"enable", "safe", "stop", "artifacts", "rollback"} /\ pc = "end"
    BY <1>17 DEF End
  <2>2. /\ mode' = "none" /\ pc' = "none" /\ ended' = Outcome[mode]
        /\ UNCHANGED <<ignored, running, live, saved, files>>
        /\ UNCHANGED <<units, usb, advertised, verified, revived>>
    BY <1>17 DEF End, Over, cupsVars, hostVars, watcherVars
  <2> QED
    BY <2>1, <2>2, Outcomes
<1>18. CASE RollBack
  BY <1>18 DEF RollBack, cupsVars, hostVars, watcherVars
<1>19. CASE StepFails \/ Interrupted
  BY <1>19 DEF StepFails, Interrupted, Over, cupsVars, hostVars, watcherVars
<1>20. CASE CupsdSaves
  BY <1>20 DEF CupsdSaves, scriptVars, hostVars, watcherVars
<1>21. ASSUME NEW j \in Jobs, Submit(j) \/ JobEnds(j) PROVE Enabled'
  BY <1>21 DEF Submit, JobEnds, scriptVars, hostVars, watcherVars
<1>22. CASE WatcherFindsActive \/ WatcherRestarts
  BY <1>22 DEF WatcherFindsActive, WatcherRestarts, scriptVars, cupsVars, hostVars
<1>23. CASE Reboot
  BY <1>23 DEF Reboot
<1> QED
  BY <1>1, <1>2, <1>3, <1>4, <1>5, <1>6, <1>7, <1>8, <1>9, <1>10, <1>11, <1>12, <1>13, <1>14,
     <1>15, <1>16, <1>17, <1>18, <1>19, <1>20, <1>21, <1>22, <1>23 DEF Next, ScriptStep,
     Environment

\* Nothing comes into the spool of a queue that rejects.
LEMMA EmptiedKept ==
  ASSUME ScriptTypes, CupsTypes, CountTypes, Places, Reached, Emptied, [Next]_setupVars
  PROVE  Emptied'
<1> USE SetupAssumption DEF ScriptTypes, CupsTypes, Places, Reached, Emptied, Exposing,
    Configured, Queues
<1>0. ignored \in Nat /\ (ignored' = ignored + 1 => ignored' # 0)
  BY FailureCounts
<1>1. CASE UNCHANGED setupVars
  BY <1>0, <1>1 DEF setupVars, scriptVars, cupsVars, hostVars, watcherVars
<1>2. CASE Begin
  BY <1>0, <1>2 DEF Begin, cupsVars, hostVars
<1>3. CASE clear_spool_and_stop_cups
  BY <1>0, <1>3 DEF clear_spool_and_stop_cups, Goto, BestEffort, KillCupsd, StopCupsd,
     hostVars, watcherVars
<1>4. CASE clear_spool_files \/ remove_avahi_ipps_service
  BY <1>0, <1>4 DEF clear_spool_files, remove_avahi_ipps_service, Goto, BestEffort, cupsVars,
     hostVars, watcherVars
<1>5. CASE deauthorize_hp_usb \/ DisableUnits
  BY <1>0, <1>5 DEF deauthorize_hp_usb, DisableUnits, Goto, Step, BestEffort, cupsVars,
     hostVars, watcherVars
<1>6. CASE ensure_apt_packages
  BY <1>0, <1>6 DEF ensure_apt_packages, Goto, Step, StartCupsd, cupsVars, hostVars,
     watcherVars
<1>7. CASE Prepare \/ authorize_hp_usb \/ install_cups_artifacts
  BY <1>0, <1>7 DEF Prepare, authorize_hp_usb, install_cups_artifacts, Goto, Step, cupsVars,
     hostVars, watcherVars
<1>8. CASE StartForConfiguration \/ StartWithPolicy \/ EnableUnits
  BY <1>0, <1>8 DEF StartForConfiguration, StartWithPolicy, EnableUnits, Goto, Step,
     StartCupsd, cupsVars, hostVars, watcherVars
<1>9. CASE configure_cups_network \/ ConfigureQueue
  BY <1>0, <1>9 DEF configure_cups_network, ConfigureQueue, Goto, Step, hostVars, watcherVars
<1>10. CASE DisableQueue
  BY <1>0, <1>10 DEF DisableQueue, AskBestEffort, Goto, BestEffort, hostVars, watcherVars
<1>11. CASE RejectJobs
  BY <1>0, <1>11 DEF RejectJobs, AskBestEffort, Goto, BestEffort, hostVars, watcherVars
<1>12. CASE UnshareQueue
  BY <1>0, <1>12 DEF UnshareQueue, AskBestEffort, Goto, BestEffort, hostVars, watcherVars
<1>13. CASE StopForPolicy
  BY <1>0, <1>13 DEF StopForPolicy, Goto, BestEffort, StopCupsd, hostVars, watcherVars
<1>14. CASE EditPolicy
  BY <1>0, <1>14 DEF EditPolicy, Goto, Step, hostVars, watcherVars
<1>15. CASE verify_ipp_contract \/ verify_cups_tls_identity
  BY <1>0, <1>15 DEF verify_ipp_contract, verify_cups_tls_identity, Goto, Step, cupsVars,
     hostVars, watcherVars
<1>16. CASE enable_queue \/ install_avahi_ipps_service
  BY <1>0, <1>16 DEF enable_queue, install_avahi_ipps_service, Goto, Step, cupsVars, hostVars,
     watcherVars
<1>17. CASE End
  BY <1>0, <1>17 DEF End, Over, Outcome, cupsVars, hostVars, watcherVars
<1>18. CASE RollBack
  BY <1>0, <1>18 DEF RollBack, cupsVars, hostVars, watcherVars
<1>19. CASE StepFails \/ Interrupted
  BY <1>0, <1>19 DEF StepFails, Interrupted, Over, cupsVars, hostVars, watcherVars
<1>20. CASE CupsdSaves
  BY <1>0, <1>20 DEF CupsdSaves, scriptVars, hostVars, watcherVars
<1>21. ASSUME NEW j \in Jobs, Submit(j) \/ JobEnds(j) PROVE Emptied'
  BY <1>0, <1>21 DEF Submit, JobEnds, scriptVars, hostVars, watcherVars
<1>22. CASE WatcherFindsActive \/ WatcherRestarts
  BY <1>0, <1>22 DEF WatcherFindsActive, WatcherRestarts, scriptVars, cupsVars, hostVars
<1>23. CASE Reboot
  BY <1>0, <1>23 DEF Reboot
<1> QED
  BY <1>1, <1>2, <1>3, <1>4, <1>5, <1>6, <1>7, <1>8, <1>9, <1>10, <1>11, <1>12, <1>13, <1>14,
     <1>15, <1>16, <1>17, <1>18, <1>19, <1>20, <1>21, <1>22, <1>23 DEF Next, ScriptStep,
     Environment

\* What a stop has reached stays so, over boots too.
LEMMA StoppedKept ==
  ASSUME ScriptTypes, CupsTypes, CountTypes, Places, Stopped, [Next]_setupVars
  PROVE  Stopped'
<1> USE SetupAssumption DEF ScriptTypes, CupsTypes, Places, Stopped, Stopping, Exposing,
    Configured, Closing
<1>0. ignored \in Nat /\ (ignored' = ignored + 1 => ignored' # 0)
  BY FailureCounts
<1>1. CASE UNCHANGED setupVars
  BY <1>0, <1>1 DEF setupVars, scriptVars, cupsVars, hostVars, watcherVars
<1>2. CASE Begin
  BY <1>0, <1>2 DEF Begin, cupsVars, hostVars
<1>3. CASE clear_spool_and_stop_cups
  <2>1. CASE ignored' = ignored + 1
    BY <2>1, FailureCounts
  <2>2. CASE KillCupsd
    <3>1. /\ \/ pc = "kill" /\ pc' = "spool"
             \/ pc = "final kill" /\ pc' = "final spool"
          /\ UNCHANGED <<mode, ended, files, units, usb, advertised, verified, revived>>
      BY <1>3 DEF clear_spool_and_stop_cups, Goto, hostVars, watcherVars
    <3>2. ignored' = 0 => ignored = 0
      BY <1>0, <1>3 DEF clear_spool_and_stop_cups, BestEffort
    <3> QED
      BY <2>2, <3>1, <3>2 DEF KillCupsd
  <2> QED
    BY <1>3, <2>1, <2>2 DEF clear_spool_and_stop_cups, BestEffort
<1>4. CASE clear_spool_files \/ remove_avahi_ipps_service
  BY <1>0, <1>4 DEF clear_spool_files, remove_avahi_ipps_service, Goto, BestEffort, cupsVars,
     hostVars, watcherVars
<1>5. CASE deauthorize_hp_usb \/ DisableUnits
  BY <1>0, <1>5 DEF deauthorize_hp_usb, DisableUnits, Goto, Step, BestEffort, cupsVars,
     hostVars, watcherVars
<1>6. CASE ensure_apt_packages
  BY <1>0, <1>6 DEF ensure_apt_packages, Goto, Step, StartCupsd, cupsVars, hostVars,
     watcherVars
<1>7. CASE Prepare \/ authorize_hp_usb \/ install_cups_artifacts
  BY <1>0, <1>7 DEF Prepare, authorize_hp_usb, install_cups_artifacts, Goto, Step, cupsVars,
     hostVars, watcherVars
<1>8. CASE StartForConfiguration \/ StartWithPolicy \/ EnableUnits
  BY <1>0, <1>8 DEF StartForConfiguration, StartWithPolicy, EnableUnits, Goto, Step,
     StartCupsd, cupsVars, hostVars, watcherVars
<1>9. CASE configure_cups_network \/ ConfigureQueue
  BY <1>0, <1>9 DEF configure_cups_network, ConfigureQueue, Goto, Step, hostVars, watcherVars
<1>10. CASE DisableQueue
  BY <1>0, <1>10 DEF DisableQueue, AskBestEffort, Goto, BestEffort, hostVars, watcherVars
<1>11. CASE RejectJobs
  BY <1>0, <1>11 DEF RejectJobs, AskBestEffort, Goto, BestEffort, hostVars, watcherVars
<1>12. CASE UnshareQueue
  BY <1>0, <1>12 DEF UnshareQueue, AskBestEffort, Goto, BestEffort, hostVars, watcherVars
<1>13. CASE StopForPolicy
  BY <1>0, <1>13 DEF StopForPolicy, Goto, BestEffort, StopCupsd, hostVars, watcherVars
<1>14. CASE EditPolicy
  BY <1>0, <1>14 DEF EditPolicy, Goto, Step, hostVars, watcherVars
<1>15. CASE verify_ipp_contract \/ verify_cups_tls_identity
  BY <1>0, <1>15 DEF verify_ipp_contract, verify_cups_tls_identity, Goto, Step, cupsVars,
     hostVars, watcherVars
<1>16. CASE enable_queue \/ install_avahi_ipps_service
  BY <1>0, <1>16 DEF enable_queue, install_avahi_ipps_service, Goto, Step, cupsVars, hostVars,
     watcherVars
<1>17. CASE End
  <2>1. mode \in {"enable", "safe", "stop", "artifacts", "rollback"} /\ pc = "end"
    BY <1>17 DEF End
  <2>2. /\ mode' = "none" /\ pc' = "none" /\ ended' = Outcome[mode]
        /\ UNCHANGED <<ignored, running, live, saved, files>>
        /\ UNCHANGED <<units, usb, advertised, verified, revived>>
    BY <1>17 DEF End, Over, cupsVars, hostVars, watcherVars
  <2> QED
    BY <1>0, <2>1, <2>2, Outcomes
<1>18. CASE RollBack
  BY <1>0, <1>18 DEF RollBack, cupsVars, hostVars, watcherVars
<1>19. CASE StepFails \/ Interrupted
  BY <1>0, <1>19 DEF StepFails, Interrupted, Over, cupsVars, hostVars, watcherVars
<1>20. CASE CupsdSaves
  BY <1>0, <1>20 DEF CupsdSaves, scriptVars, hostVars, watcherVars
<1>21. ASSUME NEW j \in Jobs, Submit(j) \/ JobEnds(j) PROVE Stopped'
  BY <1>0, <1>21 DEF Submit, JobEnds, scriptVars, hostVars, watcherVars
<1>22. CASE WatcherFindsActive \/ WatcherRestarts
  BY <1>0, <1>22 DEF WatcherFindsActive, WatcherRestarts, scriptVars, cupsVars, hostVars
<1>23. CASE Reboot
  BY <1>0, <1>23 DEF Reboot
<1> QED
  BY <1>1, <1>2, <1>3, <1>4, <1>5, <1>6, <1>7, <1>8, <1>9, <1>10, <1>11, <1>12, <1>13, <1>14,
     <1>15, <1>16, <1>17, <1>18, <1>19, <1>20, <1>21, <1>22, <1>23 DEF Next, ScriptStep,
     Environment

\* A queue that was sealed is opened by no later step of a safe activation.
LEMMA SealingKept ==
  ASSUME ScriptTypes, CupsTypes, CountTypes, Places, Reached, Emptied, Stopped, Sealing,
         [Next]_setupVars
  PROVE  Sealing'
<1> USE SetupAssumption DEF ScriptTypes, CupsTypes, Places, Reached, Emptied, Stopped,
    Stopping, Sealing, Sealed, Closed, Exposing, Configured, Closing, Queues, Required
<1>0. ignored \in Nat /\ (ignored' = ignored + 1 => ignored' # 0)
  BY FailureCounts
<1>1. CASE UNCHANGED setupVars
  BY <1>0, <1>1 DEF setupVars, scriptVars, cupsVars, hostVars, watcherVars
<1>2. CASE Begin
  BY <1>0, <1>2 DEF Begin, cupsVars, hostVars
<1>3. CASE clear_spool_and_stop_cups
  <2>1. CASE ignored' = ignored + 1
    BY <2>1, FailureCounts
  <2>2. CASE KillCupsd
    <3>1. /\ \/ pc = "kill" /\ pc' = "spool"
             \/ pc = "final kill" /\ pc' = "final spool"
          /\ UNCHANGED <<mode, ended, files, units, usb, advertised, verified, revived>>
      BY <1>3 DEF clear_spool_and_stop_cups, Goto, hostVars, watcherVars
    <3>2. ignored' = 0 => ignored = 0
      BY <1>0, <1>3 DEF clear_spool_and_stop_cups, BestEffort
    <3> QED
      BY <2>2, <3>1, <3>2 DEF KillCupsd
  <2> QED
    BY <1>3, <2>1, <2>2 DEF clear_spool_and_stop_cups, BestEffort
<1>4. CASE clear_spool_files \/ remove_avahi_ipps_service
  <2>1. ignored' = 0 => ignored = 0
    BY <1>0, <1>4 DEF clear_spool_files, remove_avahi_ipps_service, BestEffort
  <2>2. UNCHANGED <<mode, ended, running, live, saved, revived>>
    BY <1>4 DEF clear_spool_files, remove_avahi_ipps_service, Goto, cupsVars, watcherVars
  <2>3. \/ pc = "spool" /\ pc' \in {"deauthorize", "packages"}
        \/ pc = "clear spool" /\ pc' = "verify local"
        \/ pc = "final spool" /\ pc' = "final units"
        \/ pc = "final unadvertise" /\ pc' = "final kill"
    BY <1>4 DEF clear_spool_files, remove_avahi_ipps_service, Goto
  <2> QED
    BY <2>1, <2>2, <2>3
<1>5. CASE deauthorize_hp_usb \/ DisableUnits
  BY <1>0, <1>5 DEF deauthorize_hp_usb, DisableUnits, Goto, Step, BestEffort, cupsVars,
     hostVars, watcherVars
<1>6. CASE ensure_apt_packages
  BY <1>0, <1>6 DEF ensure_apt_packages, Goto, Step, StartCupsd, cupsVars, hostVars,
     watcherVars
<1>7. CASE Prepare \/ authorize_hp_usb \/ install_cups_artifacts
  BY <1>0, <1>7 DEF Prepare, authorize_hp_usb, install_cups_artifacts, Goto, Step, cupsVars,
     hostVars, watcherVars
<1>8. CASE StartForConfiguration \/ StartWithPolicy \/ EnableUnits
  BY <1>0, <1>8, ZenonT(60) DEF StartForConfiguration, StartWithPolicy, EnableUnits, Goto, Step,
     StartCupsd, cupsVars, hostVars, watcherVars
<1>9. CASE configure_cups_network \/ ConfigureQueue
  BY <1>0, <1>9 DEF configure_cups_network, ConfigureQueue, Goto, Step, hostVars, watcherVars
<1>10. CASE DisableQueue
  <2>1. CASE ignored' = ignored + 1
    BY <2>1, FailureCounts
  <2>2. CASE live' = IF running THEN [live EXCEPT !.enabled = FALSE] ELSE live
    <3>1. /\ \/ pc = "disable" /\ pc' = "reject"
             \/ pc = "final disable" /\ pc' = "final reject"
          /\ UNCHANGED <<mode, ended, running, saved, revived>>
      BY <1>10 DEF DisableQueue, AskBestEffort, Goto, watcherVars
    <3>2. ignored' = 0 => ignored = 0
      BY <1>0, <1>10 DEF DisableQueue, AskBestEffort, BestEffort
    <3>3. live'.config = live.config /\ live'.policy = live.policy
          /\ (running => live'.enabled = FALSE)
          /\ (~live.enabled => ~live'.enabled) /\ (~live.accepting => ~live'.accepting)
          /\ (~live.shared => ~live'.shared)
      BY <2>2 DEF CupsTypes, Queues
    <3> QED
      BY <3>1, <3>2, <3>3
  <2> QED
    BY <1>10, <2>1, <2>2 DEF DisableQueue, AskBestEffort, BestEffort
<1>11. CASE RejectJobs
  <2>1. CASE ignored' = ignored + 1
    BY <2>1, FailureCounts
  <2>2. CASE live' = IF running THEN [live EXCEPT !.accepting = FALSE] ELSE live
    <3>1. /\ \/ pc = "reject" /\ pc' = "policy stop"
             \/ pc = "final reject" /\ pc' = "final unshare"
          /\ UNCHANGED <<mode, ended, running, saved, revived>>
      BY <1>11 DEF RejectJobs, AskBestEffort, Goto, watcherVars
    <3>2. ignored' = 0 => ignored = 0
      BY <1>0, <1>11 DEF RejectJobs, AskBestEffort, BestEffort
    <3>3. live'.config = live.config /\ live'.policy = live.policy
          /\ (running => live'.accepting = FALSE)
          /\ (~live.enabled => ~live'.enabled) /\ (~live.accepting => ~live'.accepting)
          /\ (~live.shared => ~live'.shared)
      BY <2>2 DEF CupsTypes, Queues
    <3> QED
      BY <3>1, <3>2, <3>3
  <2> QED
    BY <1>11, <2>1, <2>2 DEF RejectJobs, AskBestEffort, BestEffort
<1>12. CASE UnshareQueue
  <2>1. CASE ignored' = ignored + 1
    BY <2>1, FailureCounts
  <2>2. CASE live' = IF running THEN [live EXCEPT !.shared = FALSE] ELSE live
    <3>1. /\ pc = "final unshare" /\ pc' = "final unadvertise"
          /\ UNCHANGED <<mode, ended, running, saved, revived>>
      BY <1>12 DEF UnshareQueue, AskBestEffort, Goto, watcherVars
    <3>2. ignored' = 0 => ignored = 0
      BY <1>0, <1>12 DEF UnshareQueue, AskBestEffort, BestEffort
    <3>3. live'.config = live.config /\ live'.policy = live.policy
          /\ (running => live'.shared = FALSE)
          /\ (~live.enabled => ~live'.enabled) /\ (~live.accepting => ~live'.accepting)
          /\ (~live.shared => ~live'.shared)
      BY <2>2 DEF CupsTypes, Queues
    <3> QED
      BY <3>1, <3>2, <3>3
  <2> QED
    BY <1>12, <2>1, <2>2 DEF UnshareQueue, AskBestEffort, BestEffort
<1>13. CASE StopForPolicy
  BY <1>0, <1>13 DEF StopForPolicy, Goto, BestEffort, StopCupsd, hostVars, watcherVars
<1>14. CASE EditPolicy
  BY <1>0, <1>14 DEF EditPolicy, Goto, Step, hostVars, watcherVars
<1>15. CASE verify_ipp_contract \/ verify_cups_tls_identity
  BY <1>0, <1>15 DEF verify_ipp_contract, verify_cups_tls_identity, Goto, Step, cupsVars,
     hostVars, watcherVars
<1>16. CASE enable_queue \/ install_avahi_ipps_service
  BY <1>0, <1>16 DEF enable_queue, install_avahi_ipps_service, Goto, Step, cupsVars, hostVars,
     watcherVars
<1>17. CASE End
  <2>1. mode \in {"enable", "safe", "stop", "artifacts", "rollback"} /\ pc = "end"
    BY <1>17 DEF End
  <2>2. /\ mode' = "none" /\ pc' = "none" /\ ended' = Outcome[mode]
        /\ UNCHANGED <<ignored, running, live, saved, files>>
        /\ UNCHANGED <<units, usb, advertised, verified, revived>>
    BY <1>17 DEF End, Over, cupsVars, hostVars, watcherVars
  <2> QED
    BY <1>0, <2>1, <2>2, Outcomes
<1>18. CASE RollBack
  BY <1>0, <1>18 DEF RollBack, cupsVars, hostVars, watcherVars
<1>19. CASE StepFails \/ Interrupted
  BY <1>0, <1>19 DEF StepFails, Interrupted, Over, cupsVars, hostVars, watcherVars
<1>20. CASE CupsdSaves
  BY <1>0, <1>20 DEF CupsdSaves, scriptVars, hostVars, watcherVars
<1>21. ASSUME NEW j \in Jobs, Submit(j) \/ JobEnds(j) PROVE Sealing'
  BY <1>0, <1>21, ZenonT(60) DEF Submit, JobEnds, scriptVars, hostVars, watcherVars
<1>22. CASE WatcherFindsActive \/ WatcherRestarts
  <2>1. UNCHANGED <<mode, pc, ended, ignored, live>>
    BY <1>22 DEF WatcherFindsActive, WatcherRestarts, scriptVars, cupsVars
  <2>2. \/ UNCHANGED <<running, saved, revived>>
        \/ running' = TRUE /\ saved' = live /\ revived' = (revived \/ ~running)
    BY <1>22 DEF WatcherFindsActive, WatcherRestarts, cupsVars
  <2>3. ~revived' => ~revived /\ (running' = running)
    BY <2>2 DEF CupsTypes
  <2> QED
    BY <2>1, <2>2, <2>3
<1>23. CASE Reboot
  BY <1>0, <1>23 DEF Reboot
<1> QED
  BY <1>1, <1>2, <1>3, <1>4, <1>5, <1>6, <1>7, <1>8, <1>9, <1>10, <1>11, <1>12, <1>13, <1>14,
     <1>15, <1>16, <1>17, <1>18, <1>19, <1>20, <1>21, <1>22, <1>23 DEF Next, ScriptStep,
     Environment

\* All of it holds at first.
LEMMA InvariantInit == Init => IInv
<1> SUFFICES ASSUME Init PROVE IInv
  OBVIOUS
<1>1. ScriptTypes /\ CountTypes
  BY SetupAssumption DEF Init, ScriptTypes, CountTypes, Required, Exposing
<1>2. CupsTypes
  BY SetupAssumption DEF Init, CupsTypes
<1>3. HostTypes
  <2>1. saved \in Queues /\ advertised = saved.shared
    BY SetupAssumption DEF Init
  <2>2. advertised \in BOOLEAN
    BY <2>1 DEF Queues
  <2> QED
    BY <2>2 DEF Init, HostTypes
<1>4. Places /\ Reached /\ Enabled
  BY DEF Init, Places, Reached, Enabled, Configured, Closing, Exposing
<1>5. Emptied /\ Stopped /\ Sealing
  BY DEF Init, Emptied, Stopped, Stopping, Sealing, Closing
<1> QED
  BY <1>1, <1>2, <1>3, <1>4, <1>5 DEF IInv, Typed

\* And it is inductive.
LEMMA InvariantKept == IInv /\ [Next]_setupVars => IInv'
  BY ScriptTypesKept, CountTypesKept, HostTypesKept, CupsTypesKept, PlacesKept, ReachedKept,
     EnabledKept, EmptiedKept, StoppedKept, SealingKept DEF IInv, Typed

LEMMA Invariance == Spec => []IInv
  BY InvariantInit, InvariantKept, PTL DEF Spec

\* The type invariant, for any constants.
THEOREM TypeCorrect == Spec => []TypeOK
<1>1. IInv => TypeOK
  BY DEF IInv, Typed, ScriptTypes, CountTypes, HostTypes, CupsTypes, TypeOK
<1> QED
  BY <1>1, Invariance, PTL

\* A script that says it enabled the queue (main, after the last verification) has
\* enabled a new and verified one that boots with the host, whatever it ignored.
THEOREM EnabledAlwaysWhole == Spec => []EnabledIsWhole
<1>1. IInv => EnabledIsWhole
  BY DEF IInv, Enabled, Open, EnabledIsWhole
<1> QED
  BY <1>1, Invariance, PTL

\* No job of before an activation is printed through the new queue
\* (clear-spool-files a second time).
THEOREM NothingEverWaits == Spec => []NothingWaits
<1>1. IInv => NothingWaits
  BY DEF IInv, Emptied, NothingWaits
<1> QED
  BY <1>1, Invariance, PTL

\* What is reported stopped (final-safe-stop, --stop-only) is and stays stopped.
THEOREM StoppedAlwaysSafe == Spec => []StoppedIsSafe
<1>1. IInv => StoppedIsSafe
  BY DEF IInv, Stopped, Stopping, Sealing, Sealed, StoppedIsSafe
<1> QED
  BY <1>1, Invariance, PTL
-----------------------------------------------------------------------------
(* The gate of an activation *)

\* A queue that takes and prints jobs, and a host that has none, not even in
\* printers.conf.
Opens(queue) == queue.enabled /\ queue.accepting
Shut == ~Opens(live) /\ ~Opens(saved)

\* The commands before the queue is verified.
ToVerify == {"kill", "spool", "packages", "authorize", "tls", "uri", "start", "artifacts",
             "network", "configure"} \cup Configured

Unverified ==
  /\ pc \in ToVerify => Shut
  /\ Opens(live) \/ Opens(saved) => verified

\* A script that begins over a closed queue does not open it before it verified it.
LEMMA UnverifiedKept ==
  ASSUME Typed, Places, Reached, Unverified, [Next]_setupVars, Begin => Shut
  PROVE  Unverified'
<1> USE DEF Typed, ScriptTypes, CupsTypes, Places, Reached, Unverified, ToVerify, Shut, Opens,
    Exposing, Configured, Queues
<1>1. CASE UNCHANGED setupVars
  BY <1>1 DEF setupVars, scriptVars, cupsVars, hostVars, watcherVars
<1>2. CASE Begin
  BY <1>2 DEF Begin, cupsVars, hostVars
<1>3. CASE clear_spool_and_stop_cups
  BY <1>3 DEF clear_spool_and_stop_cups, Goto, BestEffort, KillCupsd, StopCupsd,
     hostVars, watcherVars
<1>4. CASE clear_spool_files \/ remove_avahi_ipps_service
  BY <1>4 DEF clear_spool_files, remove_avahi_ipps_service, Goto, BestEffort, cupsVars,
     hostVars, watcherVars
<1>5. CASE deauthorize_hp_usb \/ DisableUnits
  BY <1>5 DEF deauthorize_hp_usb, DisableUnits, Goto, Step, BestEffort, cupsVars,
     hostVars, watcherVars
<1>6. CASE ensure_apt_packages
  BY <1>6 DEF ensure_apt_packages, Goto, Step, StartCupsd, cupsVars, hostVars,
     watcherVars
<1>7. CASE Prepare \/ authorize_hp_usb \/ install_cups_artifacts
  BY <1>7 DEF Prepare, authorize_hp_usb, install_cups_artifacts, Goto, Step, cupsVars,
     hostVars, watcherVars
<1>8. CASE StartForConfiguration \/ StartWithPolicy \/ EnableUnits
  BY <1>8 DEF StartForConfiguration, StartWithPolicy, EnableUnits, Goto, Step,
     StartCupsd, cupsVars, hostVars, watcherVars
<1>9. CASE configure_cups_network
  BY <1>9 DEF configure_cups_network, Goto, Step, hostVars, watcherVars
<1>24. CASE ConfigureQueue
  <2>1. /\ pc = "configure" /\ pc' = "disable" /\ saved' = saved /\ verified' = FALSE
    BY <1>24 DEF ConfigureQueue, Goto, Step
  <2>2. live'.enabled = live.enabled /\ live'.accepting = live.accepting
    <3>1. PICK policy :
            live' = [live EXCEPT !.config = "new", !.shared = FALSE, !.policy = policy]
      BY <1>24 DEF ConfigureQueue
    <3>2. live \in Queues
      OBVIOUS
    <3> QED BY ONLY <3>1, <3>2 DEF Queues
  <2>3. Shut /\ Shut'
    BY <2>1, <2>2
  <2> QED BY <2>1, <2>3
<1>10. CASE DisableQueue
  BY <1>10 DEF DisableQueue, AskBestEffort, Goto, BestEffort, hostVars, watcherVars
<1>11. CASE RejectJobs
  BY <1>11 DEF RejectJobs, AskBestEffort, Goto, BestEffort, hostVars, watcherVars
<1>12. CASE UnshareQueue
  BY <1>12 DEF UnshareQueue, AskBestEffort, Goto, BestEffort, hostVars, watcherVars
<1>13. CASE StopForPolicy
  BY <1>13 DEF StopForPolicy, Goto, BestEffort, StopCupsd, hostVars, watcherVars
<1>14. CASE EditPolicy
  BY <1>14 DEF EditPolicy, Goto, Step, hostVars, watcherVars
<1>15. CASE verify_ipp_contract \/ verify_cups_tls_identity
  BY <1>15 DEF verify_ipp_contract, verify_cups_tls_identity, Goto, Step, cupsVars,
     hostVars, watcherVars
<1>16. CASE enable_queue \/ install_avahi_ipps_service
  BY <1>16 DEF enable_queue, install_avahi_ipps_service, Goto, Step, cupsVars, hostVars,
     watcherVars
<1>17. CASE End
  BY <1>17 DEF End, Over, Outcome, cupsVars, hostVars, watcherVars
<1>18. CASE RollBack
  BY <1>18 DEF RollBack, cupsVars, hostVars, watcherVars
<1>19. CASE StepFails \/ Interrupted
  BY <1>19 DEF StepFails, Interrupted, Over, cupsVars, hostVars, watcherVars
<1>20. CASE CupsdSaves
  BY <1>20 DEF CupsdSaves, scriptVars, hostVars, watcherVars
<1>21. ASSUME NEW j \in Jobs, Submit(j) \/ JobEnds(j) PROVE Unverified'
  BY <1>21 DEF Submit, JobEnds, scriptVars, hostVars, watcherVars
<1>22. CASE WatcherFindsActive \/ WatcherRestarts
  BY <1>22 DEF WatcherFindsActive, WatcherRestarts, scriptVars, cupsVars, hostVars
<1>23. CASE Reboot
  BY <1>23 DEF Reboot
<1> QED
  BY <1>1, <1>2, <1>3, <1>4, <1>5, <1>6, <1>7, <1>8, <1>9, <1>10, <1>11, <1>12, <1>13, <1>14,
     <1>15, <1>16, <1>17, <1>18, <1>19, <1>20, <1>21, <1>22, <1>23, <1>24 DEF Next, ScriptStep,
     Environment

\* docs/adr-0001 claims that an activation verifies the queue before it opens it
\* (ExposedIsVerified, which the run setup_gate refutes).  The claim is true of every
\* script that begins on a host without an open queue, however many there are and
\* whatever fails: what the queue of an earlier activation is left to do until it is
\* disabled is all that breaks it.
THEOREM ClosedBeginsStayVerified ==
  Spec /\ [][Begin => Shut]_setupVars => []ExposedIsVerified
<1>1. Init => Unverified
  BY DEF Init, Unverified, ToVerify, Configured
<1>2. /\ IInv /\ Unverified /\ [Next]_setupVars /\ [Begin => Shut]_setupVars
      => Unverified'
  <2>1. CASE UNCHANGED setupVars
    BY <2>1 DEF setupVars, scriptVars, cupsVars, hostVars, watcherVars, Unverified, ToVerify,
       Shut, Opens
  <2>2. CASE ~ UNCHANGED setupVars
    BY <2>2, UnverifiedKept DEF IInv
  <2> QED
    BY <2>1, <2>2
<1>3. Unverified => ExposedIsVerified
  BY DEF Unverified, Opens, ExposedIsVerified
<1> QED
  BY <1>1, <1>2, <1>3, Invariance, PTL DEF Spec
=============================================================================
