------------------------------ MODULE Readiness ------------------------------
(***************************************************************************)
(* The pure derivations that turn what CUPS and sysfs answer into the      *)
(* readiness the agent reports: the queue observation                      *)
(* (cups-observation/CupsQueueObservation.ts), the USB device state        *)
(* (live/PrinterReadinessProbeLive.ts, domain/UsbDeviceIdentity.ts), the   *)
(* readiness and its status projection (domain/PrinterReadiness.ts).       *)
(*                                                                         *)
(* A printer-state-reason is a record: the keyword and the severity suffix *)
(* that reasonKeyword strips.  Queue name, host name, local addresses and  *)
(* timestamps decide nothing and are left out.                             *)
(***************************************************************************)
EXTENDS Sequences

CONSTANTS Null      \* the code's null: no message, no state, nothing observed

Sources == {"sysfs", "cups-inference"}

-----------------------------------------------------------------------------
(* The CUPS queue *)

physicalPrinterDetachedReasons ==
  {"connecting-to-device", "offline", "shutdown", "stopped-partly", "timed-out"}

cupsQueueBlockingReasons ==
  physicalPrinterDetachedReasons \cup
    {"cover-open", "door-open", "input-tray-missing", "interlock-open",
     "marker-supply-empty", "media-empty", "media-jam", "paused", "toner-empty"}

CupsQueueStates == {"idle", "processing", "stopped", "unknown"}

Reason(keyword, severity) == [keyword |-> keyword, severity |-> severity]

\* What CUPS sends for "no reason"; an empty or a non-string item is the same
\* to the code and stands behind it.
NoReason == Reason("none", "")

reasonKeyword(reason) == reason.keyword

normalizeReasons(items) == SelectSeq(items, LAMBDA item : item # NoReason)

normalizeCupsQueueState(value) ==
  IF value \in CupsQueueStates THEN value ELSE "unknown"

SomeReasonIn(reasons, keywords) ==
  \E i \in DOMAIN reasons : reasonKeyword(reasons[i]) \in keywords

derivePhysicalPrinterAppearsAttachedFromCups(reasons, state) ==
  /\ state # "stopped"
  /\ ~ SomeReasonIn(reasons, physicalPrinterDetachedReasons)

deriveCupsQueueAvailable(acceptingJobs, state, reasons) ==
  /\ acceptingJobs
  /\ state # "stopped"
  /\ ~ SomeReasonIn(reasons, cupsQueueBlockingReasons)

\* attrs: the printer attributes of one Get-Printer-Attributes answer.  The
\* boolean is already normalised: anything but a true value is FALSE.
makeCupsQueueObservation(attrs) ==
  LET state == normalizeCupsQueueState(attrs.state)
      reasons == normalizeReasons(attrs.reasons)
  IN  [acceptingJobs |-> attrs.acceptingJobs,
       state |-> state,
       reasons |-> reasons,
       message |-> attrs.message,
       available |-> deriveCupsQueueAvailable(attrs.acceptingJobs, state, reasons),
       physicalPrinterAppearsAttached |->
         derivePhysicalPrinterAppearsAttachedFromCups(reasons, state)]

Reachable(observation) == [tag |-> "Reachable", observation |-> observation]
Unreachable(message) == [tag |-> "Unreachable", message |-> message]

\* What the queue observer's request comes back with: attributes of the one
\* printer group, or an error (the server is unavailable, it answers with an
\* error status, or the number of printer groups is not one).
CupsFailure(message) == [tag |-> "Failure", message |-> message]
CupsAnswer(attrs) == [tag |-> "Answer", attrs |-> attrs]

CupsQueueStatusOf(answer) ==
  IF answer.tag = "Answer"
  THEN Reachable(makeCupsQueueObservation(answer.attrs))
  ELSE Unreachable(answer.message)

-----------------------------------------------------------------------------
(* The USB device *)

UsbDeviceState(name, source) == [name |-> name, source |-> source]

UsbDeviceStates ==
  [name : {"attached", "missing"}, source : Sources]
    \cup {UsbDeviceState("deauthorized", "sysfs")}

usbDeviceIdentityMatches(target, candidate) ==
  /\ target.vendorId = candidate.vendorId
  /\ target.productId = candidate.productId
  /\ target.serial \in {Null, candidate.serial}

\* A device whose idVendor or idProduct cannot be read is not in the sequence;
\* one whose "authorized" cannot be read has authorized = Null.
usbDeviceStateFromDevices(target, devices) ==
  LET matching == SelectSeq(devices,
        LAMBDA device : usbDeviceIdentityMatches(target, device.identity))
  IN  IF matching = <<>> THEN UsbDeviceState("missing", "sysfs")
      ELSE IF matching[1].authorized = "0" THEN UsbDeviceState("deauthorized", "sysfs")
      ELSE UsbDeviceState("attached", "sysfs")

usbDeviceStateFromCupsInference(appearsAttached) ==
  UsbDeviceState(IF appearsAttached THEN "attached" ELSE "missing", "cups-inference")

\* The sysfs directory lists the devices, or cannot be read.
Listing(devices) == [tag |-> "Listing", devices |-> devices]
Unreadable == [tag |-> "Unreadable"]

readUsbDeviceState(target, sysfs, appearsAttached) ==
  IF sysfs.tag = "Listing"
  THEN usbDeviceStateFromDevices(target, sysfs.devices)
  ELSE usbDeviceStateFromCupsInference(appearsAttached)

\* The hint the probe hands to readUsbDeviceState: false when CUPS failed.
AppearsAttached(cupsQueue) ==
  IF cupsQueue.tag = "Reachable"
  THEN cupsQueue.observation.physicalPrinterAppearsAttached
  ELSE FALSE

-----------------------------------------------------------------------------
(* Readiness and its projection *)

derivePrinterReadiness(cupsQueue, usbDevice) ==
  [cupsQueue |-> cupsQueue,
   usbDevice |-> usbDevice,
   ready |-> /\ cupsQueue.tag = "Reachable"
             /\ cupsQueue.observation.available
             /\ usbDevice.name = "attached"]

CupsQueueFields(cupsQueue) ==
  IF cupsQueue.tag = "Reachable"
  THEN [reachable |-> TRUE,
        available |-> cupsQueue.observation.available,
        state |-> cupsQueue.observation.state,
        reasons |-> cupsQueue.observation.reasons,
        message |-> cupsQueue.observation.message]
  ELSE [reachable |-> FALSE, available |-> FALSE, state |-> Null,
        reasons |-> <<>>, message |-> cupsQueue.message]

printerReadinessStatus(readiness) ==
  LET queue == CupsQueueFields(readiness.cupsQueue)
  IN  [printerReady |-> readiness.ready,
       cupsReachable |-> queue.reachable,
       cupsQueueAvailable |-> queue.available,
       cupsQueueState |-> queue.state,
       cupsQueueReasons |-> queue.reasons,
       cupsQueueMessage |-> queue.message,
       usbDeviceState |-> readiness.usbDevice.name,
       usbDeviceStateSource |-> readiness.usbDevice.source]

\* Mutant of samePrinterReadiness: where the USB state was learnt is not compared.
SameButForTheSource(left, right) ==
  [printerReadinessStatus(left) EXCEPT !.usbDeviceStateSource = Null]
    = [printerReadinessStatus(right) EXCEPT !.usbDeviceStateSource = Null]

\* The comparison that decides whether printer.status.changed is published.
samePrinterReadiness(left, right) ==
  LET l == printerReadinessStatus(left)
      r == printerReadinessStatus(right)
  IN  /\ l.printerReady = r.printerReady
      /\ l.cupsReachable = r.cupsReachable
      /\ l.cupsQueueAvailable = r.cupsQueueAvailable
      /\ l.cupsQueueState = r.cupsQueueState
      /\ l.cupsQueueMessage = r.cupsQueueMessage
      /\ l.cupsQueueReasons = r.cupsQueueReasons
      /\ l.usbDeviceState = r.usbDeviceState
      /\ l.usbDeviceStateSource = r.usbDeviceStateSource
=============================================================================
