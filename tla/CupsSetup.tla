------------------------------ MODULE CupsSetup ------------------------------
(***************************************************************************)
(* The setup of the print queue (scripts/setup-cups-live-from-pi.nu): one  *)
(* sequential script that stops CUPS, installs what the queue needs,       *)
(* configures the queue, verifies it and either exposes it or leaves       *)
(* everything stopped.  Any required command may fail, the script may be   *)
(* cut off and the host may restart between two commands; clients submit   *)
(* jobs whenever CUPS takes them; the watcher of the TLS identity          *)
(* (scripts/watch-cups-tls-identity-from-pi.nu) restarts CUPS on its own.  *)
(*                                                                         *)
(* cupsd is external.  It holds the queue in memory and writes it to       *)
(* printers.conf some time after a change, or when it is told to stop; a   *)
(* SIGKILL loses what was not written.  What a command installs is known   *)
(* by its age: "old" is from an earlier activation, "new" from this tree.  *)
(***************************************************************************)
EXTENDS Naturals, FiniteSets

CONSTANTS
  Modes,            \* what the operator may ask for: "enable" (--enable-printing),
                    \* "safe" (no option), "stop" (--stop-only), "artifacts"
  MaxInvocations,   \* how often
  MaxReboots,
  Previous,         \* the queues an earlier activation may have left behind
  Jobs,             \* the jobs clients may submit
  WatcherRepairs,   \* does the watcher run?
  MaxIgnored        \* how many failures one script may ignore

\* A queue: does it print, does it take jobs, do others see it, what is it made
\* of, what does it do on an error.
Queue(enabled, accepting, shared, config, policy) ==
  [enabled |-> enabled, accepting |-> accepting, shared |-> shared,
   config |-> config, policy |-> policy]

NoQueue == Queue(FALSE, FALSE, FALSE, "none", "none")

Queues == [enabled : BOOLEAN, accepting : BOOLEAN, shared : BOOLEAN,
           config : {"none", "old", "new"}, policy : {"none", "other", "abort"}]

ASSUME SetupAssumption ==
  /\ Modes \subseteq {"enable", "safe", "stop", "artifacts"}
  /\ MaxInvocations \in Nat /\ MaxReboots \in Nat
  /\ Previous \subseteq Queues
  /\ WatcherRepairs \in BOOLEAN /\ MaxIgnored \in Nat

VARIABLES
  mode,        \* what the running script does: one of Modes, "rollback", "none"
  pc,          \* its next command
  ended,       \* how the last script ended
  invocations, reboots,
  ignored,     \* how many failures the script has ignored
  running,     \* is cupsd?
  live,        \* the queue in its memory (the saved one while it is not running)
  saved,       \* the queue in printers.conf
  pending,     \* the jobs in its memory
  files,       \* the jobs with files in the spool
  units,       \* are the units enabled, so that a boot starts cupsd?
  usb,         \* is the device authorized?
  advertised,  \* is there an Avahi service file for the queue?
  verified,    \* has the IPP contract held since the last change of what it covers?
  watcher,     \* where the watcher is in a repair
  revived      \* has it started a cupsd that the script had stopped?

scriptVars == <<mode, pc, ended, invocations, ignored>>
cupsVars == <<running, live, saved, pending, files>>
hostVars == <<units, usb, advertised, verified>>
watcherVars == <<watcher, revived>>
setupVars == <<scriptVars, reboots, cupsVars, hostVars, watcherVars>>

\* A verified queue of before, with cupsd running if a boot starts it.
Init ==
  /\ mode = "none" /\ pc = "none" /\ ended = "none"
  /\ invocations = 0 /\ reboots = 0 /\ ignored = 0
  /\ saved \in Previous /\ live = saved
  /\ units \in BOOLEAN /\ running = units
  /\ pending = {} /\ files = {}
  /\ usb \in BOOLEAN /\ advertised = saved.shared
  /\ verified = TRUE
  /\ watcher = "idle" /\ revived = FALSE

-----------------------------------------------------------------------------
(* cupsd *)

StartCupsd ==
  /\ running' = TRUE
  /\ IF running THEN UNCHANGED <<live, pending>>
     ELSE live' = saved /\ pending' = files

\* Told to stop, cupsd writes printers.conf first; killed, it does not.
StopCupsd == running' = FALSE /\ saved' = live /\ pending' = {} /\ UNCHANGED live
KillCupsd == running' = FALSE /\ live' = saved /\ UNCHANGED saved /\ pending' = {}

CupsdSaves ==
  /\ running /\ saved # live
  /\ saved' = live
  /\ UNCHANGED <<scriptVars, reboots, running, live, pending, files, hostVars, watcherVars>>

Submit(j) ==
  /\ running /\ live.accepting /\ j \notin pending
  /\ pending' = pending \cup {j}
  /\ files' = files \cup {j}
  /\ UNCHANGED <<scriptVars, reboots, running, live, saved, hostVars, watcherVars>>

\* A job is printed, or aborted if its file is gone; either way it is over.
JobEnds(j) ==
  /\ running /\ live.enabled /\ j \in pending
  /\ pending' = pending \ {j}
  /\ files' = files \ {j}
  /\ UNCHANGED <<scriptVars, reboots, running, live, saved, hostVars, watcherVars>>

-----------------------------------------------------------------------------
(* The script, one action per command or group of commands *)

Goto(from, to) ==
  /\ pc = from
  /\ pc' = to
  /\ UNCHANGED <<mode, ended, invocations, reboots, watcherVars>>

Step(from, to) == Goto(from, to) /\ UNCHANGED ignored

\* run-best-effort: the command has its effect on vars, or it fails and the
\* script goes on.
BestEffort(Effect, vars) ==
  \/ Effect /\ UNCHANGED ignored
  \/ ignored < MaxIgnored /\ ignored' = ignored + 1 /\ UNCHANGED vars

Begin ==
  /\ mode = "none" /\ invocations < MaxInvocations
  /\ mode' \in Modes
  /\ pc' = IF mode' = "artifacts" THEN "artifacts" ELSE "kill"
  /\ ended' = "none"
  /\ invocations' = invocations + 1
  /\ ignored' = 0 /\ revived' = FALSE
  /\ UNCHANGED <<reboots, cupsVars, hostVars, watcher>>

\* clear-spool-and-stop-cups: SIGKILL, then systemctl stop and killall, which may
\* be the first that works ...
clear_spool_and_stop_cups ==
  /\ Goto("kill", "spool") \/ Goto("final kill", "final spool")
  /\ \/ BestEffort(KillCupsd, <<running, live, saved, pending>>)
     \/ ignored < MaxIgnored /\ ignored' = ignored + 1 /\ StopCupsd
  /\ UNCHANGED <<files, hostVars>>

\* Mutant: the files are not cleared a second time.
ClearSpoolOnce ==
  /\ \/ Goto("spool", IF mode = "stop" THEN "deauthorize" ELSE "packages")
     \/ Goto("clear spool", "verify local")
     \/ Goto("final spool", "final units")
  /\ BestEffort(files' = IF pc = "clear spool" THEN files ELSE {}, files)
  /\ UNCHANGED <<running, live, saved, pending, hostVars>>

\* ... and the spool files, which a running cupsd still has in memory.
clear_spool_files ==
  /\ \/ Goto("spool", IF mode = "stop" THEN "deauthorize" ELSE "packages")
     \/ Goto("clear spool", "verify local")
     \/ Goto("final spool", "final units")
  /\ BestEffort(files' = {}, files)
  /\ UNCHANGED <<running, live, saved, pending, hostVars>>

deauthorize_hp_usb ==
  /\ Step("deauthorize", "final units")
  /\ usb' = FALSE
  /\ UNCHANGED <<cupsVars, units, advertised, verified>>

\* Mutant: the units stay enabled after a stop.
DisableNoUnits ==
  /\ Step("final units", "end")
  /\ UNCHANGED <<cupsVars, hostVars>>

DisableUnits ==
  /\ Goto("final units", "end")
  /\ BestEffort(units' = FALSE, units)
  /\ UNCHANGED <<cupsVars, usb, advertised, verified>>

\* Nothing is missing, or the package of CUPS is: its installation enables the
\* units and starts cupsd.
ensure_apt_packages ==
  /\ Step("packages", "authorize")
  /\ \/ UNCHANGED <<cupsVars, units>>
     \/ saved.config = "none" /\ units' = TRUE /\ StartCupsd /\ UNCHANGED <<saved, files>>
  /\ UNCHANGED <<usb, advertised, verified>>

\* install-cups-tls-certificate, resolve-hp-device-uri.
Prepare ==
  /\ \/ Step("tls", "uri")
     \/ Step("uri", "start")
  /\ UNCHANGED <<cupsVars, hostVars>>

authorize_hp_usb ==
  /\ Step("authorize", "tls")
  /\ usb' = TRUE
  /\ UNCHANGED <<cupsVars, units, advertised, verified>>

\* systemctl start, with the queue as printers.conf has it.
StartForConfiguration ==
  /\ Step("start", "artifacts")
  /\ StartCupsd
  /\ UNCHANGED <<saved, files, hostVars>>

\* The driver, the filter, the backend, and the PPD of a queue that is there.
install_cups_artifacts ==
  /\ Step("artifacts", IF mode = "artifacts" THEN "end" ELSE "network")
  /\ verified' = FALSE
  /\ UNCHANGED <<cupsVars, units, usb, advertised>>

\* cupsctl changes cupsd.conf, and cupsd loads it: it writes its state first.
configure_cups_network ==
  /\ Step("network", "configure")
  /\ running
  /\ saved' = live
  /\ UNCHANGED <<running, live, pending, files, hostVars>>

\* configure-queue: lpadmin neither enables a queue nor disables one, and may
\* leave the policy of a queue as it was ...
ConfigureQueue ==
  /\ Step("configure", "disable")
  /\ running
  /\ \E policy \in {"abort", IF live.policy = "none" THEN "other" ELSE live.policy} :
       live' = [live EXCEPT !.config = "new", !.shared = FALSE, !.policy = policy]
  /\ verified' = FALSE
  /\ UNCHANGED <<running, saved, pending, files, units, usb, advertised>>

\* ... cupsdisable, cupsreject and lpadmin do, if there is a cupsd to ask.
AskBestEffort(queue) ==
  /\ BestEffort(live' = IF running THEN queue ELSE live, live)
  /\ UNCHANGED <<running, saved, pending, files, hostVars>>

DisableQueue ==
  /\ Goto("disable", "reject") \/ Goto("final disable", "final reject")
  /\ AskBestEffort([live EXCEPT !.enabled = FALSE])

RejectJobs ==
  /\ Goto("reject", "policy stop") \/ Goto("final reject", "final unshare")
  /\ AskBestEffort([live EXCEPT !.accepting = FALSE])

UnshareQueue ==
  /\ Goto("final unshare", "final unadvertise")
  /\ AskBestEffort([live EXCEPT !.shared = FALSE])

\* force-queue-error-policy-abort-job: cupsd is stopped, because it would not
\* read an edited printers.conf and would write over it.
StopForPolicy ==
  /\ Goto("policy stop", "policy edit")
  /\ BestEffort(StopCupsd, <<running, saved, live, pending>>)
  /\ UNCHANGED <<files, hostVars>>

EditPolicy ==
  /\ Step("policy edit", "policy start")
  /\ saved.config # "none"
  /\ saved' = [saved EXCEPT !.policy = "abort"]
  /\ live' = IF running THEN live ELSE saved'
  /\ UNCHANGED <<running, pending, files, hostVars>>

StartWithPolicy ==
  /\ Step("policy start", "clear spool")
  /\ StartCupsd
  /\ UNCHANGED <<saved, files, hostVars>>

\* Mutant: every activation goes on to expose the queue.
VerifyAndExpose ==
  /\ Step("verify local", "share") \/ Step("verify public", "end")
  /\ running
  /\ verified' = TRUE
  /\ UNCHANGED <<cupsVars, units, usb, advertised>>

verify_ipp_contract ==
  /\ \/ Step("verify local", IF mode = "enable" THEN "share" ELSE "final disable")
     \/ Step("verify public", "end")
  /\ running
  /\ verified' = TRUE
  /\ UNCHANGED <<cupsVars, units, usb, advertised>>

\* Mutant: the queue is enabled, and nobody lets it take jobs.
EnableNotAccept ==
  /\ running
  /\ \/ Step("share", "enable") /\ live' = [live EXCEPT !.shared = TRUE]
     \/ Step("enable", "advertise") /\ live' = [live EXCEPT !.enabled = TRUE]
  /\ UNCHANGED <<running, saved, pending, files, hostVars>>

enable_queue ==
  /\ running
  /\ \/ Step("share", "enable") /\ live' = [live EXCEPT !.shared = TRUE]
     \/ Step("enable", "accept") /\ live' = [live EXCEPT !.enabled = TRUE]
     \/ Step("accept", "advertise") /\ live' = [live EXCEPT !.accepting = TRUE]
  /\ UNCHANGED <<running, saved, pending, files, hostVars>>

install_avahi_ipps_service ==
  /\ Step("advertise", "enable units")
  /\ advertised' = TRUE
  /\ UNCHANGED <<cupsVars, units, usb, verified>>

EnableUnits ==
  /\ Step("enable units", "verify tls")
  /\ units' = TRUE
  /\ StartCupsd
  /\ UNCHANGED <<saved, files, usb, advertised, verified>>

verify_cups_tls_identity ==
  /\ Step("verify tls", "verify public")
  /\ running
  /\ UNCHANGED <<cupsVars, hostVars>>

remove_avahi_ipps_service ==
  /\ Goto("final unadvertise", "final kill")
  /\ BestEffort(advertised' = FALSE, advertised)
  /\ UNCHANGED <<cupsVars, units, usb, verified>>

Outcome ==
  [enable |-> "enabled", safe |-> "safe", stop |-> "stopped",
   artifacts |-> "installed", rollback |-> "rolled back"]

Over(outcome) ==
  /\ mode' = "none" /\ pc' = "none" /\ ended' = outcome
  /\ UNCHANGED <<invocations, ignored, reboots, cupsVars, hostVars, watcherVars>>

End == pc = "end" /\ Over(Outcome[mode])

Exposing == {"share", "enable", "accept", "advertise", "enable units", "verify tls",
             "verify public"}

\* The commands whose failure the script does not ignore.
Required ==
  Exposing \cup {"spool", "deauthorize", "packages", "authorize", "tls", "uri", "start",
                 "artifacts", "network", "configure", "policy edit", "policy start",
                 "clear spool", "verify local", "final spool"}

\* What fails while the queue is being exposed is caught, and rolled back.
RollBack ==
  /\ pc \in Exposing
  /\ mode' = "rollback" /\ pc' = "final disable"
  /\ UNCHANGED <<ended, invocations, ignored, reboots, cupsVars, hostVars, watcherVars>>

StepFails == pc \in Required \ Exposing /\ Over("failed")

\* The script is cut off at any command: ^C, a lost connection.
Interrupted == mode # "none" /\ Over("failed")

ScriptStep ==
  \/ clear_spool_and_stop_cups \/ clear_spool_files \/ deauthorize_hp_usb
  \/ DisableUnits \/ ensure_apt_packages \/ Prepare \/ authorize_hp_usb \/ StartForConfiguration
  \/ install_cups_artifacts \/ configure_cups_network \/ ConfigureQueue
  \/ DisableQueue \/ RejectJobs \/ UnshareQueue
  \/ StopForPolicy \/ EditPolicy \/ StartWithPolicy
  \/ verify_ipp_contract \/ enable_queue \/ install_avahi_ipps_service
  \/ EnableUnits \/ verify_cups_tls_identity \/ remove_avahi_ipps_service
  \/ End \/ RollBack \/ StepFails \/ Interrupted

-----------------------------------------------------------------------------
(* The watcher and the host *)

\* A repair asks whether cupsd runs (it fails if no certificate is served) ...
WatcherFindsActive ==
  /\ WatcherRepairs /\ watcher = "idle" /\ running
  /\ watcher' = "restart"
  /\ UNCHANGED <<scriptVars, reboots, cupsVars, hostVars, revived>>

\* ... and restarts it, which starts one that was stopped meanwhile.
WatcherRestarts ==
  /\ watcher = "restart"
  /\ watcher' = "idle"
  /\ revived' = (revived \/ ~running)
  /\ running' = TRUE
  /\ saved' = live
  /\ pending' = files
  /\ UNCHANGED <<scriptVars, reboots, live, files, hostVars>>

\* An orderly shutdown lets cupsd write its state, a power cut does not.  USB
\* devices are authorized when they are found.
Reboot ==
  /\ reboots < MaxReboots
  /\ reboots' = reboots + 1
  /\ mode' = "none" /\ pc' = "none"
  /\ ended' = IF mode # "none" THEN "failed"
              ELSE IF ended = "stopped" THEN "off"
              ELSE IF ended = "enabled" THEN "none" ELSE ended
  /\ saved' \in {saved, live} /\ live' = saved'
  /\ running' = units
  /\ pending' = IF units THEN files ELSE {}
  /\ usb' = TRUE
  /\ watcher' = "idle"
  /\ UNCHANGED <<invocations, ignored, revived, files, units, advertised, verified>>

Environment ==
  \/ CupsdSaves
  \/ \E j \in Jobs : Submit(j) \/ JobEnds(j)
  \/ WatcherFindsActive \/ WatcherRestarts
  \/ Reboot

Next == Begin \/ ScriptStep \/ Environment

Spec == Init /\ [][Next]_setupVars

-----------------------------------------------------------------------------
(* Properties *)

\* Every variable has its type, a queue is exposed only on demand, and a cupsd
\* that does not run holds nothing that printers.conf does not.
TypeOK ==
  /\ mode \in Modes \cup {"none", "rollback"}
  /\ pc \in Required \cup
       {"none", "kill", "disable", "reject", "policy stop", "final disable", "final reject",
        "final unshare", "final unadvertise", "final kill", "final units", "end"}
  /\ ended \in {"none", "failed", "enabled", "safe", "stopped", "off", "installed",
                "rolled back"}
  /\ invocations \in 0..MaxInvocations /\ reboots \in 0..MaxReboots
  /\ running \in BOOLEAN /\ live \in Queues /\ saved \in Queues
  /\ pending \subseteq Jobs /\ files \subseteq Jobs
  /\ units \in BOOLEAN /\ usb \in BOOLEAN /\ advertised \in BOOLEAN /\ verified \in BOOLEAN
  /\ watcher \in {"idle", "restart"} /\ revived \in BOOLEAN /\ ignored \in 0..MaxIgnored
  /\ pc \in Exposing => mode = "enable"
  /\ ~running => live = saved /\ pending = {}

Closed(queue) == ~queue.enabled /\ ~queue.accepting /\ ~queue.shared

\* What the script reports of a stop is so and stays so until the next
\* activation, over reboots too, unless a command failed unnoticed or the watcher
\* revived cupsd: no cupsd, none at the next boot, nothing in the spool; the device
\* off the bus until a boot finds it; and after a safe activation no record of the
\* queue, and a queue that is new, closed and aborts what fails, even if somebody
\* starts cupsd by hand (main, final-safe-stop).
StoppedIsSafe ==
  ignored = 0 /\ ~revived =>
    /\ ended \in {"safe", "rolled back", "stopped", "off"} => ~running /\ ~units /\ files = {}
    /\ ended = "stopped" => ~usb
    /\ ended \in {"safe", "rolled back"} => ~advertised
    /\ ended = "safe" => Closed(saved) /\ saved.config = "new" /\ saved.policy = "abort"

\* An activation that says it enabled the queue leaves one that prints, is new,
\* whose contract was verified, and that boots with the host, whatever was
\* ignored on the way and whenever the watcher restarted cupsd (main).
EnabledIsWhole ==
  ended = "enabled" =>
    /\ running /\ units /\ advertised /\ verified
    /\ live.enabled /\ live.accepting /\ live.shared /\ live.config = "new"

\* No job of before an activation is in the spool when the new queue begins to
\* print (the second clear-spool-files of main).
NothingWaits ==
  ignored = 0 /\ pc \in {"share", "enable", "accept"} => pending \cap files = {}

\* docs/adr-0001: activation verifies the IPP contract "and only then enables,
\* shares, and advertises the queue".  A queue that takes and prints jobs is one
\* whose contract was verified since it was last changed.
ExposedIsVerified == running /\ live.enabled /\ live.accepting => verified
=============================================================================
