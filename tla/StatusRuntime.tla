---------------------------- MODULE StatusRuntime ----------------------------
(***************************************************************************)
(* The status runtime of the agent (live/StatusRuntimeLive.ts) and the     *)
(* probe it calls (live/PrinterReadinessProbeLive.ts).  Several fibers of  *)
(* one process share lastObservedStatusRef (last).  An observing fiber     *)
(* reads the network, then asks CUPS, then lists sysfs, each at a moment   *)
(* of its own, and only then compares what it saw with last, publishes the *)
(* change events and replaces last.  A recording fiber starts from last    *)
(* and marks CUPS unreachable.                                             *)
(*                                                                         *)
(* Fibers are cooperative: a fiber gives up the thread where it awaits.    *)
(* From Ref.get to the return of the call nothing awaits, so another fiber *)
(* gets in between only when the scheduler preempts a fiber that ran too   *)
(* many operations (AutoYield).                                            *)
(***************************************************************************)
EXTENDS StatusSnapshots

\* Fibers are named by what they call: one that both observes and records (the
\* event stream) has two names and never uses both at once.
CONSTANTS Observers,     \* fibers that call observeNow or current
          Periodic,      \* the observers that call again and again and report what
                         \* they are handed (the heartbeat)
          Recorders,     \* fibers that call recordCupsUnavailable
          AddressLists,  \* what the network interfaces may show
          Target,        \* the configured USB identity
          CupsAnswers,   \* what CUPS may answer to Get-Printer-Attributes
          SysfsViews,    \* what reading the sysfs directory may yield
          Messages,      \* error messages a recording fiber may carry
          AutoYield      \* may the scheduler preempt a running fiber?

Fibers == Observers \cup Recorders

ASSUME RuntimeAssumption ==
  /\ Periodic \subseteq Observers
  /\ Observers \cap Recorders = {}
  /\ Null \notin Fibers
  /\ AutoYield \in BOOLEAN

VARIABLES
  network, cups, sysfs,   \* the environment: the addresses of the host, what CUPS
                          \* answers, what sysfs shows
  last,      \* lastObservedStatusRef
  pc,        \* where each fiber is in observeNow / recordCupsUnavailable
  seen,      \* currentObservedStatus of the fiber, filled as it reads
  prev,      \* previousObservedStatus of the fiber
  running,   \* the fiber that holds the thread between two awaits
  told       \* the status a reader of the published events holds

environment == <<network, cups, sysfs>>
runtime == <<last, pc, seen, prev, running, told>>
statusVars == <<environment, runtime>>

\* An observation made now, in one instant.
Truth == LET queue == CupsQueueStatusOf(cups)
         IN  Snapshot(network, queue,
                      readUsbDeviceState(Target, sysfs, AppearsAttached(queue)))

-----------------------------------------------------------------------------
Init ==
  /\ network \in AddressLists /\ cups \in CupsAnswers /\ sysfs \in SysfsViews
  /\ last = Null
  /\ pc = [f \in Fibers |-> "idle"]
  /\ seen = [f \in Fibers |-> Null]
  /\ prev = [f \in Fibers |-> Null]
  /\ running = Null
  /\ told = Null

\* The outside world moves on, at any moment.
WorldChanges ==
  /\ network' \in AddressLists /\ cups' \in CupsAnswers /\ sysfs' \in SysfsViews
  /\ environment' # environment
  /\ UNCHANGED runtime

MayRun(f) == AutoYield \/ running \in {Null, f}
Holding(f) == IF AutoYield THEN Null ELSE f

\* observeNow: the network probe is synchronous, then the fiber awaits CUPS.
StartObserve(f) ==
  /\ pc[f] = "idle" /\ MayRun(f)
  /\ seen' = [seen EXCEPT ![f] = Snapshot(network, Null, Null)]
  /\ pc' = [pc EXCEPT ![f] = "readQueue"]
  /\ UNCHANGED <<environment, last, prev, running, told>>

\* CUPS answers (or the request fails); the fiber then awaits sysfs.
ReadQueue(f) ==
  /\ pc[f] = "readQueue"
  /\ seen' = [seen EXCEPT ![f].cupsQueue = CupsQueueStatusOf(cups)]
  /\ pc' = [pc EXCEPT ![f] = "readUsb"]
  /\ UNCHANGED <<environment, last, prev, running, told>>

ReadUsb(f) ==
  /\ pc[f] = "readUsb"
  /\ seen' = [seen EXCEPT ![f].usbDevice =
                readUsbDeviceState(Target, sysfs, AppearsAttached(seen[f].cupsQueue))]
  /\ pc' = [pc EXCEPT ![f] = "getLast"]
  /\ UNCHANGED <<environment, last, prev, running, told>>

\* Mutants of GetLast: the first observation is compared with nothing; the fiber
\* awaits something before it publishes.
GetLastOfNothing(f) ==
  /\ pc[f] = "getLast" /\ MayRun(f)
  /\ prev' = [prev EXCEPT ![f] = last]
  /\ pc' = [pc EXCEPT ![f] = "emit"]
  /\ running' = Holding(f)
  /\ UNCHANGED <<environment, last, seen, told>>

GetLastThenAwait(f) ==
  /\ pc[f] = "getLast" /\ MayRun(f)
  /\ prev' = [prev EXCEPT ![f] = last]
  /\ pc' = [pc EXCEPT ![f] = IF last = Null THEN "setLast" ELSE "emit"]
  /\ UNCHANGED <<environment, last, seen, told, running>>

\* Ref.get: the first observation ever has nothing to compare with.
GetLast(f) ==
  /\ pc[f] = "getLast" /\ MayRun(f)
  /\ prev' = [prev EXCEPT ![f] = last]
  /\ pc' = [pc EXCEPT ![f] = IF last = Null THEN "setLast" ELSE "emit"]
  /\ running' = Holding(f)
  /\ UNCHANGED <<environment, last, seen, told>>

\* Mutant of RecordCupsUnavailable: it awaits something after its Ref.get.
RecordThenAwait(f, message) ==
  /\ pc[f] = "idle" /\ MayRun(f) /\ last # Null
  /\ prev' = [prev EXCEPT ![f] = last]
  /\ seen' = [seen EXCEPT ![f] =
                Snapshot(last.localIps, Unreachable(message), last.usbDevice)]
  /\ pc' = [pc EXCEPT ![f] = "emit"]
  /\ UNCHANGED <<environment, last, told, running>>

\* recordCupsUnavailable up to its Ref.get; before the first observation it
\* returns without a trace.
RecordCupsUnavailable(f, message) ==
  /\ pc[f] = "idle" /\ MayRun(f)
  /\ running' = Holding(f)
  /\ IF last = Null
     THEN /\ pc' = [pc EXCEPT ![f] = "done"]
          /\ UNCHANGED <<seen, prev>>
     ELSE /\ prev' = [prev EXCEPT ![f] = last]
          /\ seen' = [seen EXCEPT ![f] =
                        Snapshot(last.localIps, Unreachable(message), last.usbDevice)]
          /\ pc' = [pc EXCEPT ![f] = "emit"]
  /\ UNCHANGED <<environment, last, told>>

\* Mutant of Emit: publishing awaits something.
EmitThenAwait(f) ==
  /\ pc[f] = "emit" /\ MayRun(f)
  /\ told' = Learn(told, StatusChangeEvents(prev[f], seen[f]), seen[f])
  /\ pc' = [pc EXCEPT ![f] = "setLast"]
  /\ running' = Null
  /\ UNCHANGED <<environment, last, seen, prev>>

Emit(f) ==
  /\ pc[f] = "emit" /\ MayRun(f)
  /\ told' = Learn(told, StatusChangeEvents(prev[f], seen[f]), seen[f])
  /\ pc' = [pc EXCEPT ![f] = "setLast"]
  /\ UNCHANGED <<environment, last, seen, prev, running>>

\* Mutant of SetLast: the fiber awaits something before it returns.
SetLastThenAwait(f) ==
  /\ pc[f] = "setLast" /\ MayRun(f)
  /\ last' = seen[f]
  /\ told' = IF prev[f] = Null THEN View(seen[f]) ELSE told
  /\ pc' = [pc EXCEPT ![f] = "done"]
  /\ prev' = [prev EXCEPT ![f] = Null]
  /\ running' = Null
  /\ UNCHANGED <<environment, seen>>

\* Ref.set.  The baseline is published by no event: a reader is given it.  What the call
\* compared with is not looked at again.
SetLast(f) ==
  /\ pc[f] = "setLast" /\ MayRun(f)
  /\ last' = seen[f]
  /\ told' = IF prev[f] = Null THEN View(seen[f]) ELSE told
  /\ pc' = [pc EXCEPT ![f] = "done"]
  /\ prev' = [prev EXCEPT ![f] = Null]
  /\ UNCHANGED <<environment, seen, running>>

\* The call is over: the caller has its snapshot and gives up the thread.
Return(f) ==
  /\ pc[f] = "done" /\ MayRun(f)
  /\ pc' = [pc EXCEPT ![f] = "idle"]
  /\ seen' = [seen EXCEPT ![f] = Null]
  /\ running' = Null
  /\ UNCHANGED <<environment, last, prev, told>>

\* Mutant of Beat: the heartbeat reports no addresses.
BeatWithoutAddresses(f) ==
  /\ pc[f] = "done" /\ MayRun(f)
  /\ told' = [View(seen[f]) EXCEPT !.localIps = told.localIps]
  /\ pc' = [pc EXCEPT ![f] = "idle"]
  /\ seen' = [seen EXCEPT ![f] = Null]
  /\ running' = Null
  /\ UNCHANGED <<environment, last, prev>>

\* Heartbeat.beat: the snapshot it is handed is published whole before it awaits.
Beat(f) ==
  /\ pc[f] = "done" /\ MayRun(f)
  /\ told' = View(seen[f])
  /\ pc' = [pc EXCEPT ![f] = "idle"]
  /\ seen' = [seen EXCEPT ![f] = Null]
  /\ running' = Null
  /\ UNCHANGED <<environment, last, prev>>

\* The part of a call that needs no new decision of the caller.
Proceed(f) == ReadQueue(f) \/ ReadUsb(f) \/ GetLast(f) \/ Emit(f) \/ SetLast(f)

Next ==
  \/ WorldChanges
  \/ \E f \in Observers : StartObserve(f)
  \/ \E f \in Recorders, message \in Messages : RecordCupsUnavailable(f, message)
  \/ \E f \in Fibers : Proceed(f)
  \/ \E f \in Fibers \ Periodic : Return(f)
  \/ \E f \in Periodic : Beat(f)

Spec == Init /\ [][Next]_statusVars

Positions == {"idle", "readQueue", "readUsb", "getLast", "emit", "setLast", "done"}

\* A step of fiber f: only its own steps move it, and they lack nothing but the thread, so
\* fairness is stated of pc alone.
Moves(f) == \E position \in Positions \ {pc[f]} : pc' = [pc EXCEPT ![f] = position]
Ready(f) == MayRun(f) \/ pc[f] \in {"readQueue", "readUsb"}

\* The fiber that holds the thread goes on.  The heartbeat observes for ever, what it
\* awaits settles, and it gets its turn: a ready fiber is queued behind the one that holds
\* the thread, however often others are ready as well, hence strong fairness.  Nothing
\* else has to happen: the world may rest, other callers may stay away or wait for ever.
Fairness ==
  /\ WF_pc(running # Null /\ Moves(running))
  /\ \A f \in Periodic : SF_pc(Ready(f) /\ Moves(f))

FairSpec == Spec /\ Fairness

-----------------------------------------------------------------------------
(* Properties *)

\* From Ref.get to the return nothing awaits.
Uninterrupted == {"emit", "setLast", "done"}

CupsQueueStatuses ==
  {CupsQueueStatusOf(answer) : answer \in CupsAnswers}
    \cup {Unreachable(message) : message \in Messages}

\* A host is online if it has an address.
NetworkFits(record) == record.networkOnline = (record.localIps # <<>>)

Snapshots == {snapshot \in [networkOnline : BOOLEAN, localIps : AddressLists,
                            cupsQueue : CupsQueueStatuses, usbDevice : UsbDeviceStates] :
                NetworkFits(snapshot)}

ASSUME NullAssumption == Null \notin Snapshots

PartialSnapshots == {snapshot \in [networkOnline : BOOLEAN, localIps : AddressLists,
                                   cupsQueue : CupsQueueStatuses \cup {Null},
                                   usbDevice : UsbDeviceStates \cup {Null}] :
                       NetworkFits(snapshot)}

\* What a reader of the log can hold.
Views == {view \in [networkOnline : BOOLEAN, localIps : AddressLists,
                    status : {StatusOf(snapshot) : snapshot \in Snapshots}] :
            NetworkFits(view)}

\* Type invariant: every fiber holds what its position has gathered, and there
\* is a baseline before there is a difference to publish.
TypeOK ==
  /\ network \in AddressLists /\ cups \in CupsAnswers /\ sysfs \in SysfsViews
  /\ last \in Snapshots \cup {Null}
  /\ pc \in [Fibers -> Positions]
  /\ seen \in [Fibers -> PartialSnapshots \cup {Null}]
  /\ \A f \in Fibers :
       /\ pc[f] = "idle" => seen[f] = Null
       /\ pc[f] = "readQueue" => seen[f] \in PartialSnapshots
       /\ pc[f] = "readUsb" => /\ seen[f] \in PartialSnapshots
                               /\ seen[f].cupsQueue \in CupsQueueStatuses
       /\ pc[f] \in {"getLast", "emit", "setLast"} => seen[f] \in Snapshots
       /\ pc[f] = "done" =>
            seen[f] \in Snapshots \cup IF f \in Recorders THEN {Null} ELSE {}
       /\ pc[f] = "emit" => prev[f] # Null
       /\ prev[f] # Null => last # Null
  /\ prev \in [Fibers -> Snapshots \cup {Null}]
  /\ running \in Fibers \cup {Null}
  /\ told \in Views \cup {Null}
  /\ last # Null => told \in Views

\* The previous* fields of the events about to be published are the status the
\* reader of the log holds: no event contradicts the one before it, however
\* the observations of the fibers interleave (emitStatusChangeEvents).
EventsChain ==
  \A f \in Fibers : pc[f] = "emit" => Compared(View(prev[f])) = Compared(told)

\* Replaying the published events from the baseline gives the status the
\* runtime holds: no difference between two snapshots goes unpublished
\* (samePrinterReadiness and the three comparisons of emitStatusChangeEvents),
\* except that of the addresses of a host that stays online, which the rule for
\* network.status.changed does not compare.
LogTellsStatus ==
  (last # Null /\ \A f \in Fibers : pc[f] # "setLast") =>
    /\ Compared(told) = Compared(View(last))
    /\ last.networkOnline \/ told = View(last)

\* A caller gets back the snapshot the runtime holds at that moment, so what
\* the heartbeat and /v1/status report never contradicts the event log.
CallerAgrees ==
  \A f \in Fibers : pc[f] = "done" /\ seen[f] # Null => seen[f] = last

\* recordCupsUnavailable speaks of CUPS only: it never brings back an older
\* network or USB state over one that another fiber has stored meanwhile.
DisconnectKeepsTheRest ==
  [][\A f \in Recorders : SetLast(f) =>
       /\ last'.networkOnline = last.networkOnline
       /\ last'.localIps = last.localIps
       /\ last'.usbDevice = last.usbDevice]_statusVars

\* A step of the world, or a disconnect recorded by the stream.
Disturbance ==
  \/ environment' # environment
  \/ \E f \in Recorders : pc[f] = "idle" /\ pc'[f] # "idle"

\* A stale observation (one that began before the last change, or one that
\* overtook a newer one) does not stay: once the world is quiet, the runtime
\* ends up holding the truth, and stays there.  So does a reader of the log: what no
\* change event tells, the new addresses of a host that stays online, the heartbeat
\* does, and no late change event takes it back (Heartbeat.beat).
Converges ==
  <>[][~ Disturbance]_statusVars => <>[](last = Truth /\ told = View(Truth))

-----------------------------------------------------------------------------
(* StatusRuntime implements StatusLog *)

\* A call takes effect where it publishes its events, the first one where it stores the
\* baseline.
Published(f) == pc[f] = "done" \/ (pc[f] = "setLast" /\ prev[f] # Null)

LogStatus ==
  IF running # Null /\ pc[running] = "setLast" /\ prev[running] # Null
  THEN seen[running] ELSE last
LogCall ==
  [f \in Fibers |-> IF pc[f] = "idle" THEN "none"
                    ELSE IF Published(f) THEN "over" ELSE "pending"]
LogAnswer == [f \in Fibers |-> IF Published(f) THEN seen[f] ELSE Null]

Log == INSTANCE StatusLog WITH
  QueueStatuses <- {CupsQueueStatusOf(answer) : answer \in CupsAnswers},
  status <- LogStatus, call <- LogCall, answer <- LogAnswer

\* However the fibers overlap, each call compares, publishes and stores as one, at an
\* instant between its beginning and its return (observeNow, recordCupsUnavailable).
ImplementsLog == Log!Spec
=============================================================================
