-------------------------- MODULE StatusSnapshots --------------------------
(***************************************************************************)
(* What the status runtime stores (live/StatusRuntimeLive.ts), and the     *)
(* events it publishes between two of them.                                *)
(***************************************************************************)
EXTENDS Readiness

\* The host is online if the probe finds an address (NetworkProbeCliLive).
Snapshot(localIps, cupsQueue, usbDevice) ==
  [networkOnline |-> localIps # <<>>, localIps |-> localIps,
   cupsQueue |-> cupsQueue, usbDevice |-> usbDevice]

PrinterReadiness(snapshot) ==
  derivePrinterReadiness(snapshot.cupsQueue, snapshot.usbDevice)

StatusOf(snapshot) == printerReadinessStatus(PrinterReadiness(snapshot))

\* What a snapshot says to a reader of the event log: all that a heartbeat reports.
View(snapshot) ==
  [networkOnline |-> snapshot.networkOnline, localIps |-> snapshot.localIps,
   status |-> StatusOf(snapshot)]

\* What the rules for change events look at.  The addresses are not among it: they are
\* carried by network.status.changed, but a change of them alone publishes nothing.
Compared(view) == [networkOnline |-> view.networkOnline, status |-> view.status]

StatusChangeEvents(previous, current) ==
  {name \in {"network.status.changed", "cups.status.changed", "printer.status.changed"} :
     \/ /\ name = "network.status.changed"
        /\ previous.networkOnline # current.networkOnline
     \/ /\ name = "cups.status.changed"
        /\ StatusOf(previous).cupsReachable # StatusOf(current).cupsReachable
     \/ /\ name = "printer.status.changed"
        /\ ~ samePrinterReadiness(PrinterReadiness(previous), PrinterReadiness(current))}

\* A reader that holds view and reads the change events published for current.
Learn(view, events, current) ==
  [networkOnline |-> IF "network.status.changed" \in events
                     THEN current.networkOnline ELSE view.networkOnline,
   localIps |-> IF "network.status.changed" \in events
                THEN current.localIps ELSE view.localIps,
   status |-> IF events \cap {"cups.status.changed", "printer.status.changed"} # {}
              THEN StatusOf(current) ELSE view.status]

\* What that reader should know then: all of current, but of the addresses only what
\* the last change of the network told.
Informed(view, previous, current) ==
  IF previous.networkOnline # current.networkOnline THEN View(current)
  ELSE [View(current) EXCEPT !.localIps = view.localIps]
=============================================================================
