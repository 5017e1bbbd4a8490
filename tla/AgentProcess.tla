---------------------------- MODULE AgentProcess ----------------------------
(***************************************************************************)
(* The agent as a process (apps/agent/src/main.ts) under its systemd unit: *)
(* what it does before it serves, the loops it then runs side by side, and *)
(* how systemd brings it back.  Who starts, stops and configures it is the *)
(* business of the module that composes this one.                          *)
(*                                                                         *)
(* Of a status only the USB part is kept, as the number of changes it has  *)
(* seen; StatusRuntime has the rest.  An observation asks CUPS first, may  *)
(* wait there for ever (packages/ipp/src/client.ts has no timeout), reads  *)
(* sysfs when CUPS has answered or failed, and is stored later.            *)
(***************************************************************************)
EXTENDS Integers

CONSTANTS
  Askers,       \* fibers that observe when others ask: the event stream, status requests
  MaxChanges,   \* how often the USB device comes or goes
  MaxTroubles   \* how often a request to CUPS never settles, the process crashes or is
                \* sent SIGTERM by others, or what the composing module adds

ASSUME ProcessAssumption ==
  /\ MaxChanges \in Nat /\ MaxTroubles \in Nat
  /\ Askers \cap {"cold", "heartbeat", "hotplug"} = {}

VARIABLES
  phase,     \* of the process, see Phases
  program,   \* the version of the executable it runs
  settings,  \* the version of the environment it was given
  fiber,     \* what each fiber waits for, or the reading it has not stored yet
  status,    \* the USB part of the stored status
  usb,       \* the changes of the device so far
  lines,     \* lines of udevadm not yet read
  monitor,   \* udevadm: "absent", "up" or, for the rest of the process, "gone"
  troubles

process == <<phase, program, settings>>
loops == <<fiber, status, lines, monitor>>

\* "off": systemd has no reason to start it.  "down": it is about to.  "loading":
\* reading the environment and building the layers.  "cold": the port listens, the
\* first observation runs.  "serving": requests are answered.  "stopping":
\* SIGTERM has interrupted the program, its finalizers run.
Phases == {"off", "down", "loading", "cold", "serving", "stopping"}
Alive == {"loading", "cold", "serving"}

Fibers == {"cold", "heartbeat", "hotplug"} \cup Askers
Nothing == -1
Idle == [at |-> "idle", seen |-> Nothing]
Asking == [at |-> "asking", seen |-> Nothing]
Hung == [at |-> "hung", seen |-> Nothing]
Holding(reading) == [at |-> "holding", seen |-> reading]

\* A process that has just begun: no status, no loops.
Fresh ==
  /\ fiber' = [f \in Fibers |-> Idle]
  /\ status' = Nothing /\ lines' = 0 /\ monitor' = "absent"

Trouble == troubles < MaxTroubles /\ troubles' = troubles + 1

ProcessInit ==
  /\ fiber = [f \in Fibers |-> Idle] /\ status = Nothing
  /\ usb = 0 /\ lines = 0 /\ monitor = "absent"
  /\ troubles = 0

-----------------------------------------------------------------------------
(* Life and death *)

\* systemd runs ExecStart with the EnvironmentFile.
Start(executable, environment) ==
  /\ phase = "down"
  /\ phase' = "loading" /\ program' = executable /\ settings' = environment
  /\ UNCHANGED <<loops, usb, troubles>>

\* AppConfig decodes the environment while the layers are built: a value it does
\* not accept ends the process.
Refuse ==
  /\ phase = "loading" /\ phase' = "down"
  /\ UNCHANGED <<program, settings, loops, usb, troubles>>

\* The layers are there, the HTTP port among them, which listens from now on.
Load ==
  /\ phase = "loading" /\ phase' = "cold"
  /\ UNCHANGED <<program, settings, loops, usb, troubles>>

\* A defect of any loop, or the kernel, ends the whole process.
Crash ==
  /\ phase \in Alive /\ Trouble
  /\ phase' = "down" /\ Fresh
  /\ UNCHANGED <<program, settings, usb>>

\* SIGTERM from anyone but systemctl.
Terminate ==
  /\ phase \in Alive /\ Trouble
  /\ phase' = "stopping"
  /\ UNCHANGED <<program, settings, loops, usb>>

\* Mutant of Exit: Restart=on-failure, for which an end by SIGTERM is no failure.
ExitForGood ==
  /\ phase = "stopping" /\ phase' = "off" /\ Fresh
  /\ UNCHANGED <<program, settings, usb, troubles>>

\* The finalizers have run or TimeoutStopSec has passed.  Restart=always starts
\* the process again, although 130 counts as a success (SuccessExitStatus).
Exit ==
  /\ phase = "stopping" /\ phase' = "down" /\ Fresh
  /\ UNCHANGED <<program, settings, usb, troubles>>

-----------------------------------------------------------------------------
(* Observations *)

\* Mutant of MayAsk: the heartbeat publishes the stored status.
MayAskOnNews(f) ==
  /\ phase = IF f = "cold" THEN "cold" ELSE "serving"
  /\ f # "heartbeat"
  /\ f = "hotplug" => lines > 0

\* Mutant of MayAsk: the hotplug loop observes without a line.
MayAskAnyTime(f) == phase = IF f = "cold" THEN "cold" ELSE "serving"

\* What makes a fiber observe: the start of the program; a line of udevadm; the
\* interval of the heartbeat; a notification or a request.
MayAsk(f) ==
  /\ phase = IF f = "cold" THEN "cold" ELSE "serving"
  /\ f = "hotplug" => lines > 0

Ask(f) ==
  /\ MayAsk(f) /\ fiber[f] = Idle
  /\ fiber' = [fiber EXCEPT ![f] = Asking]
  /\ lines' = IF f = "hotplug" THEN lines - 1 ELSE lines
  /\ UNCHANGED <<process, status, monitor, usb, troubles>>

\* CUPS answered or refused, and sysfs was read.
Read(f) ==
  /\ phase \in Alive /\ fiber[f] = Asking
  /\ fiber' = [fiber EXCEPT ![f] = Holding(usb)]
  /\ UNCHANGED <<process, status, lines, monitor, usb, troubles>>

\* A half-open connection: the request never settles.
Hang(f) ==
  /\ phase \in Alive /\ fiber[f] = Asking /\ Trouble
  /\ fiber' = [fiber EXCEPT ![f] = Hung]
  /\ UNCHANGED <<process, status, lines, monitor, usb>>

\* The reading becomes the status.  Only when the first one has does the program
\* start its loops, and install the handler that answers requests.
Store(f) ==
  /\ phase \in Alive /\ fiber[f].at = "holding"
  /\ status' = fiber[f].seen
  /\ fiber' = [fiber EXCEPT ![f] = Idle]
  /\ phase' = IF f = "cold" THEN "serving" ELSE phase
  /\ UNCHANGED <<program, settings, lines, monitor, usb, troubles>>

\* udevadm has been spawned and has subscribed: earlier changes give no line.
MonitorUp ==
  /\ phase = "serving" /\ monitor = "absent" /\ monitor' = "up"
  /\ UNCHANGED <<process, fiber, status, lines, usb, troubles>>

\* udevadm cannot be run, or ends: the loop says so and is never started again.
MonitorGone ==
  /\ phase = "serving" /\ monitor # "gone" /\ monitor' = "gone"
  /\ UNCHANGED <<process, fiber, status, lines, usb, troubles>>

\* The device is plugged in, unplugged or deauthorized.
UsbChange ==
  /\ usb < MaxChanges /\ usb' = usb + 1
  /\ lines' = IF monitor = "up" THEN lines + 1 ELSE lines
  /\ UNCHANGED <<process, fiber, status, monitor, troubles>>

\* Everything but the start, which depends on the files of the host.
ProcessNext ==
  \/ Crash \/ Terminate \/ Exit
  \/ \E f \in Fibers : Ask(f) \/ Read(f) \/ Hang(f) \/ Store(f)
  \/ MonitorUp \/ MonitorGone \/ UsbChange

ProcessTypeOK ==
  /\ phase \in Phases
  /\ fiber \in [Fibers -> {Idle, Asking, Hung} \cup {Holding(n) : n \in 0..usb}]
  /\ status \in {Nothing} \cup 0..usb
  /\ usb \in 0..MaxChanges /\ lines \in 0..usb
  /\ monitor \in {"absent", "up", "gone"}
  /\ troubles \in 0..MaxTroubles
=============================================================================
