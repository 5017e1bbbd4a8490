------------------------- MODULE StatusRuntimeProofs -------------------------
(***************************************************************************)
(* What StatusRuntime promises for any number of fibers, any queue         *)
(* answers and any devices, as long as the scheduler does not preempt a    *)
(* fiber between two awaits.                                               *)
(***************************************************************************)
EXTENDS StatusRuntime, TLAPS

\* One fiber at a time is between Ref.get and the return of its call.
OneHolder == \A f \in Fibers : pc[f] \in Uninterrupted => running = f

\* A recording fiber never stands at the reading positions, and what it is
\* about to store differs from what it started from in the queue only.
RecordersCopy ==
  \A f \in Recorders :
    /\ pc[f] \in {"idle", "emit", "setLast", "done"}
    /\ pc[f] \in {"emit", "setLast"} =>
         /\ prev[f] # Null
         /\ seen[f].networkOnline = prev[f].networkOnline
         /\ seen[f].localIps = prev[f].localIps
         /\ seen[f].usbDevice = prev[f].usbDevice
         /\ \E message \in Messages : seen[f].cupsQueue = Unreachable(message)

\* An observing fiber stores what CUPS answered.
ObserversAsk ==
  \A f \in Observers : pc[f] \in {"readUsb", "getLast", "emit", "setLast"} =>
    \E answer \in CupsAnswers : seen[f].cupsQueue = CupsQueueStatusOf(answer)

\* What LogTellsStatus says of one snapshot.
Agree(view, snapshot) ==
  /\ Compared(view) = Compared(View(snapshot))
  /\ snapshot.networkOnline \/ view = View(snapshot)

\* From Ref.get on, the fiber's previous status is the current one, and the
\* reader is told of the difference exactly once.
UpToDate ==
  /\ \A f \in Fibers : pc[f] = "emit" => last # Null /\ prev[f] = last
  /\ \A f \in Fibers : pc[f] = "setLast" =>
       /\ prev[f] = last
       /\ last # Null => Agree(told, seen[f])
  /\ CallerAgrees
  /\ LogTellsStatus

IInv == TypeOK /\ OneHolder /\ RecordersCopy /\ ObserversAsk /\ UpToDate

-----------------------------------------------------------------------------
(* Facts about the derivations *)

\* Whatever sysfs shows, the probe ends up with one of the five USB states.
LEMMA UsbStateTyped ==
  \A view, hint : readUsbDeviceState(Target, view, hint) \in UsbDeviceStates
  BY DEF readUsbDeviceState, usbDeviceStateFromDevices,
         usbDeviceStateFromCupsInference, UsbDeviceStates, UsbDeviceState, Sources

\* The comparison that suppresses printer.status.changed leaves no field of the
\* projection out: equal by it means equal altogether.
LEMMA SameMeansSame ==
  \A left, right : samePrinterReadiness(left, right) =>
                     printerReadinessStatus(left) = printerReadinessStatus(right)
  BY DEF samePrinterReadiness, printerReadinessStatus

\* A reader who knows what the rules compare of the previous snapshot and reads the
\* events between the two knows the current one, but for addresses that no event tells.
LEMMA EventsSuffice ==
  ASSUME NEW view, NEW p, NEW c, Compared(view) = Compared(View(p))
  PROVE  Learn(view, StatusChangeEvents(p, c), c) = Informed(view, p, c)
<1> DEFINE E == StatusChangeEvents(p, c)
<1>1. "network.status.changed" \notin E => p.networkOnline = c.networkOnline
  BY DEF StatusChangeEvents
<1>2. E \cap {"cups.status.changed", "printer.status.changed"} = {} =>
        StatusOf(p) = StatusOf(c)
  <2>1. "printer.status.changed" \notin E =>
          samePrinterReadiness(PrinterReadiness(p), PrinterReadiness(c))
    BY DEF StatusChangeEvents
  <2>2. QED
    BY <2>1, SameMeansSame DEF StatusOf
<1>3. view.networkOnline = p.networkOnline /\ view.status = StatusOf(p)
  BY DEF Compared, View
<1>4. "network.status.changed" \in E => p.networkOnline # c.networkOnline
  BY DEF StatusChangeEvents
<1>5. Informed(view, p, c) =
        [networkOnline |-> c.networkOnline,
         localIps |-> IF p.networkOnline # c.networkOnline THEN c.localIps ELSE view.localIps,
         status |-> StatusOf(c)]
  BY DEF Informed, View
<1>6. QED
  BY <1>1, <1>2, <1>3, <1>4, <1>5 DEF Learn

\* Being informed of a snapshot is agreeing with it: a host that has become or that stays
\* offline has no address to be told.
LEMMA InformedAgree ==
  ASSUME NEW view \in Views, NEW p \in Snapshots, NEW c \in Snapshots,
         Compared(view) = Compared(View(p))
  PROVE  Informed(view, p, c) \in Views /\ Agree(Informed(view, p, c), c)
<1>1. NetworkFits(view) /\ NetworkFits(p) /\ NetworkFits(c)
      /\ view.networkOnline = p.networkOnline
  BY DEF Compared, View, Views, Snapshots
<1>2. CASE p.networkOnline # c.networkOnline
  BY <1>1, <1>2 DEF Informed, Agree, View, Views, Snapshots, NetworkFits
<1>3. CASE p.networkOnline = c.networkOnline
  <2>1. Informed(view, p, c) = [networkOnline |-> c.networkOnline, localIps |-> view.localIps,
                                status |-> StatusOf(c)]
    BY <1>3 DEF Informed, View
  <2>2. ~ c.networkOnline => view.localIps = c.localIps
    BY <1>1, <1>3 DEF NetworkFits
  <2> QED BY <1>1, <1>3, <2>1, <2>2 DEF Agree, Compared, View, Views, Snapshots, NetworkFits
<1> QED BY <1>2, <1>3

-----------------------------------------------------------------------------
(* Type correctness *)

LEMMA InitTyped == Init => TypeOK
  BY DEF Init, TypeOK, Positions

\* The queue statuses the fibers can store are in the type.
LEMMA QueueStatusTyped ==
  ASSUME TypeOK
  PROVE  CupsQueueStatusOf(cups) \in CupsQueueStatuses
  BY DEF TypeOK, CupsQueueStatuses

\* How a snapshot is gathered, copied and shown.
LEMMA SnapshotsGathered ==
  /\ Snapshots \subseteq PartialSnapshots
  /\ \A localIps \in AddressLists : Snapshot(localIps, Null, Null) \in PartialSnapshots
  /\ \A partial \in PartialSnapshots, queue \in CupsQueueStatuses :
       [partial EXCEPT !.cupsQueue = queue] \in PartialSnapshots
  /\ \A partial \in PartialSnapshots, usb \in UsbDeviceStates :
       partial.cupsQueue \in CupsQueueStatuses
         => [partial EXCEPT !.usbDevice = usb] \in Snapshots
<1>1. \A localIps \in AddressLists : Snapshot(localIps, Null, Null) \in PartialSnapshots
  BY DEF Snapshot, PartialSnapshots, NetworkFits
<1>2. \A partial \in PartialSnapshots, queue \in CupsQueueStatuses :
        [partial EXCEPT !.cupsQueue = queue] \in PartialSnapshots
  BY DEF PartialSnapshots, NetworkFits
<1>3. ASSUME NEW partial \in PartialSnapshots, NEW usb \in UsbDeviceStates,
             partial.cupsQueue \in CupsQueueStatuses
      PROVE  [partial EXCEPT !.usbDevice = usb] \in Snapshots
  BY <1>3 DEF PartialSnapshots, Snapshots, NetworkFits
<1>4. Snapshots \subseteq PartialSnapshots
  BY DEF PartialSnapshots, Snapshots
<1> QED BY <1>1, <1>2, <1>3, <1>4

LEMMA SnapshotsCopied ==
  ASSUME NEW snapshot \in Snapshots, NEW message \in Messages
  PROVE  Snapshot(snapshot.localIps, Unreachable(message), snapshot.usbDevice) \in Snapshots
  BY DEF Snapshot, Snapshots, NetworkFits, CupsQueueStatuses

LEMMA SnapshotsShown == \A snapshot \in Snapshots : View(snapshot) \in Views
  BY DEF View, Views, Snapshots, NetworkFits

\* A reader of change events goes on holding a view.
LEMMA LearnTyped ==
  ASSUME NEW view \in Views, NEW snapshot \in Snapshots, NEW events
  PROVE  Learn(view, events, snapshot) \in Views
<1> DEFINE V == Learn(view, events, snapshot)
<1>1. /\ V.networkOnline \in BOOLEAN /\ V.localIps \in AddressLists
      /\ V.status \in {StatusOf(s) : s \in Snapshots}
  BY DEF Learn, Views, Snapshots
<1>2. NetworkFits(V)
  BY DEF Learn, Views, Snapshots, NetworkFits
<1> QED BY <1>1, <1>2 DEF Views, Learn

LEMMA StepTyped ==
  ASSUME TypeOK, [Next]_statusVars
  PROVE  TypeOK'
<1> USE RuntimeAssumption, SnapshotsGathered DEF TypeOK, Positions, environment, runtime
<1>1. CASE WorldChanges
  BY <1>1 DEF WorldChanges
<1>2. ASSUME NEW f \in Observers, StartObserve(f)
      PROVE  TypeOK'
  BY <1>2 DEF StartObserve, Fibers
<1>3. ASSUME NEW f \in Fibers, ReadQueue(f)
      PROVE  TypeOK'
  <2>1. seen[f] \in PartialSnapshots
    BY <1>3 DEF ReadQueue
  <2> DEFINE S == [seen[f] EXCEPT !.cupsQueue = CupsQueueStatusOf(cups)]
  <2>2. S \in PartialSnapshots /\ S.cupsQueue \in CupsQueueStatuses
    <3>1. S \in PartialSnapshots
      BY <2>1, QueueStatusTyped
    <3>2. S.cupsQueue = CupsQueueStatusOf(cups)
      BY <2>1 DEF PartialSnapshots
    <3> QED BY <3>1, <3>2, QueueStatusTyped
  <2>3. seen' = [seen EXCEPT ![f] = S]
    BY <1>3 DEF ReadQueue
  <2> HIDE DEF S
  <2> QED BY <1>3, <2>2, <2>3 DEF ReadQueue
<1>4. ASSUME NEW f \in Fibers, ReadUsb(f)
      PROVE  TypeOK'
  <2>1. seen[f] \in PartialSnapshots /\ seen[f].cupsQueue \in CupsQueueStatuses
    BY <1>4 DEF ReadUsb
  <2> DEFINE S == [seen[f] EXCEPT !.usbDevice =
                     readUsbDeviceState(Target, sysfs, AppearsAttached(seen[f].cupsQueue))]
  <2>2. S \in Snapshots
    BY <2>1, UsbStateTyped
  <2>3. seen' = [seen EXCEPT ![f] = S]
    BY <1>4 DEF ReadUsb
  <2> HIDE DEF S
  <2> QED BY <1>4, <2>2, <2>3 DEF ReadUsb
<1>5. ASSUME NEW f \in Fibers, GetLast(f)
      PROVE  TypeOK'
  BY <1>5 DEF GetLast, Holding
<1>6. ASSUME NEW f \in Recorders, NEW message \in Messages,
             RecordCupsUnavailable(f, message)
      PROVE  TypeOK'
  <2>1. CASE last = Null
    BY <1>6, <2>1 DEF RecordCupsUnavailable, Fibers, Holding
  <2>2. CASE last # Null
    <3> DEFINE S == Snapshot(last.localIps, Unreachable(message), last.usbDevice)
    <3>1. S \in Snapshots
      BY <2>2, SnapshotsCopied
    <3>2. seen' = [seen EXCEPT ![f] = S]
      BY <1>6, <2>2 DEF RecordCupsUnavailable
    <3> HIDE DEF S
    <3>3. QED
      BY <1>6, <2>2, <3>1, <3>2 DEF RecordCupsUnavailable, Fibers, Holding
  <2>3. QED
    BY <2>1, <2>2
<1>7. ASSUME NEW f \in Fibers, Emit(f)
      PROVE  TypeOK'
  <2>1. seen[f] \in Snapshots /\ told \in Views
    BY <1>7 DEF Emit
  <2>2. told' \in Views
    BY <1>7, <2>1, LearnTyped DEF Emit
  <2>3. QED
    BY <1>7, <2>2 DEF Emit
<1>8. ASSUME NEW f \in Fibers, SetLast(f)
      PROVE  TypeOK'
  <2>1. seen[f] \in Snapshots
    BY <1>8 DEF SetLast
  <2>2. View(seen[f]) \in Views
    BY <2>1, SnapshotsShown
  <2>3. last' \in Snapshots /\ last' # Null
    BY <1>8, <2>1, NullAssumption DEF SetLast
  <2>4. told' \in Views
    BY <1>8, <2>2 DEF SetLast
  <2>5. QED
    BY <1>8, <2>3, <2>4 DEF SetLast
<1>9. ASSUME NEW f \in Fibers, Return(f)
      PROVE  TypeOK'
  BY <1>9 DEF Return
<1>10. ASSUME NEW f \in Periodic, Beat(f)
       PROVE  TypeOK'
  <2>1. f \in Fibers /\ f \notin Recorders
    BY DEF Fibers
  <2>2. seen[f] \in Snapshots
    BY <1>10, <2>1 DEF Beat
  <2>3. told' \in Views
    BY <1>10, <2>2, SnapshotsShown DEF Beat
  <2> QED BY <1>10, <2>1, <2>3 DEF Beat
<1>11. CASE UNCHANGED statusVars
  BY <1>11 DEF statusVars
<1>12. QED
  BY <1>1, <1>2, <1>3, <1>4, <1>5, <1>6, <1>7, <1>8, <1>9, <1>10, <1>11 DEF Next, Proceed

\* Theorem: every behaviour of the runtime is well typed, preempted or not.
THEOREM TypeCorrect == Spec => []TypeOK
  BY InitTyped, StepTyped, PTL DEF Spec

-----------------------------------------------------------------------------
(* The inductive invariant *)

LEMMA InitInv == Init => IInv
  BY InitTyped DEF Init, IInv, OneHolder, RecordersCopy, ObserversAsk, UpToDate, CallerAgrees,
                   LogTellsStatus, Uninterrupted, Fibers

LEMMA StepOneHolder ==
  ASSUME ~ AutoYield, TypeOK, OneHolder, [Next]_statusVars
  PROVE  OneHolder'
<1> USE RuntimeAssumption DEF OneHolder, Uninterrupted, TypeOK, Positions, MayRun,
                              Holding, Fibers
<1>1. CASE WorldChanges
  BY <1>1 DEF WorldChanges, runtime
<1>2. ASSUME NEW f \in Observers, StartObserve(f)
      PROVE  OneHolder'
  BY <1>2 DEF StartObserve
<1>3. ASSUME NEW f \in Fibers, ReadQueue(f) \/ ReadUsb(f)
      PROVE  OneHolder'
  BY <1>3 DEF ReadQueue, ReadUsb
<1>4. ASSUME NEW f \in Fibers, GetLast(f)
      PROVE  OneHolder'
  BY <1>4 DEF GetLast
<1>5. ASSUME NEW f \in Recorders, NEW message \in Messages,
             RecordCupsUnavailable(f, message)
      PROVE  OneHolder'
  BY <1>5 DEF RecordCupsUnavailable
<1>6. ASSUME NEW f \in Fibers, Emit(f) \/ SetLast(f) \/ Return(f) \/ Beat(f)
      PROVE  OneHolder'
  BY <1>6 DEF Emit, SetLast, Return, Beat
<1>7. CASE UNCHANGED statusVars
  BY <1>7 DEF statusVars, runtime
<1>8. QED
  BY <1>1, <1>2, <1>3, <1>4, <1>5, <1>6, <1>7 DEF Next, Proceed

LEMMA StepRecordersCopy ==
  ASSUME TypeOK, RecordersCopy, [Next]_statusVars
  PROVE  RecordersCopy'
<1> USE RuntimeAssumption, NullAssumption DEF RecordersCopy, TypeOK, Positions, Fibers
<1>1. CASE WorldChanges
  BY <1>1 DEF WorldChanges, runtime
<1>2. ASSUME NEW f \in Observers, StartObserve(f)
      PROVE  RecordersCopy'
  BY <1>2 DEF StartObserve
<1>3. ASSUME NEW f \in Fibers, ReadQueue(f) \/ ReadUsb(f) \/ GetLast(f)
      PROVE  RecordersCopy'
  BY <1>3 DEF ReadQueue, ReadUsb, GetLast
<1>4. ASSUME NEW f \in Recorders, NEW message \in Messages,
             RecordCupsUnavailable(f, message)
      PROVE  RecordersCopy'
  <2>1. CASE last = Null
    BY <1>4, <2>1 DEF RecordCupsUnavailable
  <2>2. CASE last # Null
    <3> DEFINE S == Snapshot(last.localIps, Unreachable(message), last.usbDevice)
    <3>1. /\ S.networkOnline = last.networkOnline /\ S.localIps = last.localIps
          /\ S.usbDevice = last.usbDevice /\ S.cupsQueue = Unreachable(message)
      BY <2>2 DEF Snapshot, Snapshots, NetworkFits
    <3>2. /\ seen' = [seen EXCEPT ![f] = S] /\ prev' = [prev EXCEPT ![f] = last]
          /\ pc' = [pc EXCEPT ![f] = "emit"]
      BY <1>4, <2>2 DEF RecordCupsUnavailable
    <3> HIDE DEF S
    <3> QED BY <2>2, <3>1, <3>2
  <2> QED BY <2>1, <2>2
<1>5. ASSUME NEW f \in Fibers, Emit(f) \/ SetLast(f) \/ Return(f) \/ Beat(f)
      PROVE  RecordersCopy'
  BY <1>5 DEF Emit, SetLast, Return, Beat
<1>6. CASE UNCHANGED statusVars
  BY <1>6 DEF statusVars, runtime
<1>7. QED
  BY <1>1, <1>2, <1>3, <1>4, <1>5, <1>6 DEF Next, Proceed

LEMMA StepObserversAsk ==
  ASSUME TypeOK, ObserversAsk, [Next]_statusVars
  PROVE  ObserversAsk'
<1> USE RuntimeAssumption, NullAssumption DEF ObserversAsk, TypeOK, Positions, Fibers
<1>1. CASE WorldChanges
  BY <1>1 DEF WorldChanges, runtime
<1>2. ASSUME NEW f \in Observers, StartObserve(f)
      PROVE  ObserversAsk'
  BY <1>2 DEF StartObserve
<1>3. ASSUME NEW f \in Fibers, ReadQueue(f)
      PROVE  ObserversAsk'
  <2>1. seen[f] \in PartialSnapshots
    BY <1>3 DEF ReadQueue
  <2>2. seen'[f].cupsQueue = CupsQueueStatusOf(cups) /\ cups \in CupsAnswers
    BY <1>3, <2>1 DEF ReadQueue, PartialSnapshots
  <2> QED BY <1>3, <2>2 DEF ReadQueue
<1>4. ASSUME NEW f \in Fibers, ReadUsb(f)
      PROVE  ObserversAsk'
  <2>1. seen[f] \in PartialSnapshots
    BY <1>4 DEF ReadUsb
  <2>2. seen'[f].cupsQueue = seen[f].cupsQueue
    BY <1>4, <2>1 DEF ReadUsb, PartialSnapshots
  <2> QED BY <1>4, <2>2 DEF ReadUsb
<1>5. ASSUME NEW f \in Fibers, GetLast(f)
      PROVE  ObserversAsk'
  BY <1>5 DEF GetLast
<1>6. ASSUME NEW f \in Recorders, NEW message \in Messages,
             RecordCupsUnavailable(f, message)
      PROVE  ObserversAsk'
  <2>1. \A g \in Observers : seen'[g] = seen[g] /\ pc'[g] = pc[g]
    BY <1>6 DEF RecordCupsUnavailable
  <2> QED BY <2>1
<1>7. ASSUME NEW f \in Fibers, Emit(f) \/ SetLast(f) \/ Return(f) \/ Beat(f)
      PROVE  ObserversAsk'
  BY <1>7 DEF Emit, SetLast, Return, Beat
<1>8. CASE UNCHANGED statusVars
  BY <1>8 DEF statusVars, runtime
<1>9. QED
  BY <1>1, <1>2, <1>3, <1>4, <1>5, <1>6, <1>7, <1>8 DEF Next, Proceed

LEMMA StepUpToDate ==
  ASSUME ~ AutoYield, IInv, TypeOK', OneHolder', [Next]_statusVars
  PROVE  UpToDate'
<1> USE RuntimeAssumption, NullAssumption
    DEF IInv, OneHolder, Uninterrupted, UpToDate, CallerAgrees, LogTellsStatus, TypeOK,
        Positions, MayRun, Holding, Fibers
<1>1. CASE WorldChanges
  BY <1>1 DEF WorldChanges, runtime
<1>2. ASSUME NEW f \in Observers, StartObserve(f)
      PROVE  UpToDate'
  BY <1>2 DEF StartObserve
<1>3. ASSUME NEW f \in Fibers, ReadQueue(f) \/ ReadUsb(f)
      PROVE  UpToDate'
  BY <1>3 DEF ReadQueue, ReadUsb
<1>4. ASSUME NEW f \in Fibers, GetLast(f)
      PROVE  UpToDate'
  BY <1>4 DEF GetLast
<1>5. ASSUME NEW f \in Recorders, NEW message \in Messages,
             RecordCupsUnavailable(f, message)
      PROVE  UpToDate'
  BY <1>5 DEF RecordCupsUnavailable
<1>6. ASSUME NEW f \in Fibers, Emit(f)
      PROVE  UpToDate'
  <2>1. /\ prev[f] = last /\ last \in Snapshots /\ last # Null /\ seen[f] \in Snapshots
        /\ told \in Views /\ Compared(told) = Compared(View(last))
    BY <1>6 DEF Emit
  <2>2. told' = Informed(told, last, seen[f])
    BY <1>6, <2>1, EventsSuffice DEF Emit
  <2>4. Agree(told', seen[f])
    BY <2>1, <2>2, InformedAgree
  <2>3. QED
    BY <1>6, <2>1, <2>4 DEF Emit
<1>7. ASSUME NEW f \in Fibers, SetLast(f)
      PROVE  UpToDate'
  <2>1. last' = seen[f] /\ Agree(told', seen[f])
    BY <1>7 DEF SetLast, Agree
  <2>2. QED
    BY <1>7, <2>1 DEF SetLast, Agree
<1>8. ASSUME NEW f \in Fibers, Return(f)
      PROVE  UpToDate'
  BY <1>8 DEF Return
<1>9. ASSUME NEW f \in Periodic, Beat(f)
      PROVE  UpToDate'
  <2>1. f \in Fibers /\ seen[f] # Null /\ pc[f] = "done"
    BY <1>9 DEF Beat
  <2>2. last = seen[f] /\ told' = View(last)
    BY <1>9, <2>1 DEF Beat
  <2>3. QED
    BY <1>9, <2>1, <2>2 DEF Beat
<1>10. CASE UNCHANGED statusVars
  BY <1>10 DEF statusVars, runtime
<1>11. QED
  BY <1>1, <1>2, <1>3, <1>4, <1>5, <1>6, <1>7, <1>8, <1>9, <1>10 DEF Next, Proceed

LEMMA StepInv ==
  ASSUME ~ AutoYield, IInv, [Next]_statusVars
  PROVE  IInv'
<1>1. TypeOK'
  BY StepTyped DEF IInv
<1>2. OneHolder'
  BY StepOneHolder DEF IInv
<1>3. RecordersCopy'
  BY StepRecordersCopy DEF IInv
<1>4. ObserversAsk'
  BY StepObserversAsk DEF IInv
<1>5. UpToDate'
  BY <1>1, <1>2, StepUpToDate
<1>6. QED
  BY <1>1, <1>2, <1>3, <1>4, <1>5 DEF IInv

\* The invariant holds in every state when no fiber is preempted.
LEMMA Invariance == ASSUME ~ AutoYield PROVE Spec => []IInv
<1>1. IInv /\ [Next]_statusVars => IInv'
  BY StepInv
<1>2. QED
  BY <1>1, InitInv, PTL DEF Spec

-----------------------------------------------------------------------------
(* What follows *)

\* Theorem: however the observations interleave, the previous* fields of the
\* events about to be published are what the reader of the log holds.
THEOREM EventsAlwaysChain == ASSUME ~ AutoYield PROVE Spec => []EventsChain
<1>1. IInv => EventsChain
  BY NullAssumption DEF IInv, UpToDate, LogTellsStatus, EventsChain, OneHolder,
                        Uninterrupted, Fibers
<1>2. QED
  BY <1>1, Invariance, PTL

\* Theorem: replaying the published events always gives the status the runtime
\* holds, the addresses of a host that stays online excepted.
THEOREM LogAlwaysTellsStatus == ASSUME ~ AutoYield PROVE Spec => []LogTellsStatus
  BY Invariance, PTL DEF IInv, UpToDate

\* Theorem: a caller gets back the snapshot the runtime holds.
THEOREM CallersAlwaysAgree == ASSUME ~ AutoYield PROVE Spec => []CallerAgrees
  BY Invariance, PTL DEF IInv, UpToDate

\* Theorem: recording a disconnect changes nothing but the queue status.
THEOREM DisconnectsKeepTheRest ==
  ASSUME ~ AutoYield PROVE Spec => DisconnectKeepsTheRest
<1>1. IInv /\ [Next]_statusVars =>
        [\A f \in Recorders : SetLast(f) =>
           /\ last'.networkOnline = last.networkOnline
           /\ last'.localIps = last.localIps
           /\ last'.usbDevice = last.usbDevice]_statusVars
  BY DEF IInv, UpToDate, RecordersCopy, SetLast, Fibers
<1>2. QED
  BY <1>1, Invariance, PTL DEF Spec, DisconnectKeepsTheRest

-----------------------------------------------------------------------------
(* The runtime implements StatusLog *)

\* The runtime and StatusLog speak of the same snapshots.
LEMMA SameViews ==
  /\ \A snapshot : Log!View(snapshot) = View(snapshot)
  /\ \A view, previous, current :
       Log!Informed(view, previous, current) = Informed(view, previous, current)
<1> SUFFICES ASSUME NEW snapshot PROVE Log!View(snapshot) = View(snapshot)
  BY DEF Log!Informed, Informed
<1>1. Log!PrinterReadiness(snapshot) = PrinterReadiness(snapshot)
  BY DEF Log!PrinterReadiness, PrinterReadiness, Log!derivePrinterReadiness,
         derivePrinterReadiness
<1>2. \A queue : Log!CupsQueueFields(queue) = CupsQueueFields(queue)
  BY DEF Log!CupsQueueFields, CupsQueueFields
<1>3. Log!StatusOf(snapshot) = StatusOf(snapshot)
  BY <1>1, <1>2 DEF Log!StatusOf, StatusOf, Log!printerReadinessStatus,
                    printerReadinessStatus
<1> QED BY <1>3 DEF Log!View, View

LEMMA SameSnapshots ==
  /\ \A localIps, queue, usb :
       Log!Snapshot(localIps, queue, usb) = Snapshot(localIps, queue, usb)
  /\ \A message : Log!Unreachable(message) = Unreachable(message)
  /\ Log!UsbDeviceStates = UsbDeviceStates
  BY DEF Log!Snapshot, Snapshot, Log!Unreachable, Unreachable, Log!UsbDeviceStates,
         UsbDeviceStates, Log!UsbDeviceState, UsbDeviceState, Log!Sources, Sources

LEMMA InitImplements == Init => Log!Init
  BY DEF Init, Log!Init, LogStatus, LogCall, LogAnswer, Published, Fibers, Log!Callers

\* A step of one fiber that only reads changes nothing that StatusLog speaks of.
LEMMA LogUnchanged ==
  ASSUME TypeOK,
         NEW f \in Fibers, pc[f] \in {"readQueue", "readUsb"},
         pc' \in [Fibers -> Positions], \A g \in Fibers \ {f} : pc'[g] = pc[g] /\ seen'[g] = seen[g],
         pc'[f] \in {"readUsb", "getLast"}, UNCHANGED <<last, prev, running, told>>
  PROVE  UNCHANGED Log!logVars
<1> USE RuntimeAssumption DEF TypeOK, Positions
<1>1. LogStatus' = LogStatus
  BY DEF LogStatus
<1>2. \A g \in Fibers : /\ Published(g)' = Published(g) /\ (Published(g) => seen'[g] = seen[g])
                        /\ (pc'[g] = "idle") = (pc[g] = "idle")
  BY DEF Published
<1>3. LogCall' = LogCall /\ LogAnswer' = LogAnswer
  BY <1>2 DEF LogCall, LogAnswer
<1> QED BY <1>1, <1>3 DEF Log!logVars

\* A step that moves the call of one fiber is a step of a call.
LEMMA CallMoves ==
  ASSUME NEW f \in Fibers, NEW position, LogCall[f] # position,
         LogCall' = [LogCall EXCEPT ![f] = position]
  PROVE  LogCall' # LogCall
<1>1. LogCall'[f] = position
  BY DEF LogCall
<1> QED BY <1>1

\* What a fiber publishes is an observation, or a disconnect that leaves the rest.
LEMMA WhatIsPublished ==
  ASSUME IInv, NEW f \in Fibers, pc[f] \in {"emit", "setLast"},
         NEW before, before = prev[f],
         Log!Settles(f), Log!TakesEffect(f, seen[f]), before = LogStatus,
         before = Null => pc[f] = "setLast"
  PROVE  Log!Next
<1>0. LogCall' # LogCall
  BY CallMoves DEF Log!Settles
<1>1. seen[f] \in Snapshots
  BY DEF IInv, TypeOK
<1>2. seen[f] = Snapshot(seen[f].localIps, seen[f].cupsQueue, seen[f].usbDevice)
  BY <1>1 DEF Snapshots, Snapshot, NetworkFits
<1>3. CASE f \in Observers
  <2>1. seen[f].cupsQueue \in {CupsQueueStatusOf(answer) : answer \in CupsAnswers}
    BY <1>3 DEF IInv, ObserversAsk
  <2>2. Log!ObservationTakesEffect(f)
    BY <1>1, <1>2, <2>1, SameSnapshots DEF Log!ObservationTakesEffect, Snapshots
  <2> QED BY <1>0, <1>3, <2>2 DEF Log!Next
<1>4. CASE f \in Recorders
  <2>1. /\ seen[f].localIps = LogStatus.localIps
        /\ seen[f].usbDevice = LogStatus.usbDevice
    BY <1>4 DEF IInv, RecordersCopy
  <2>2. PICK message \in Messages : seen[f].cupsQueue = Unreachable(message)
    BY <1>4 DEF IInv, RecordersCopy
  <2>3. seen[f] = Snapshot(LogStatus.localIps, Unreachable(message), LogStatus.usbDevice)
    BY <1>2, <2>1, <2>2
  <2>4. Log!DisconnectTakesEffect(f)
    BY <2>3, SameSnapshots DEF Log!DisconnectTakesEffect
  <2> QED BY <1>0, <1>4, <2>4 DEF Log!Next
<1> QED BY <1>3, <1>4 DEF Fibers

LEMMA StepImplements ==
  ASSUME ~ AutoYield, IInv, IInv', [Next]_statusVars
  PROVE  [Log!Next]_Log!logVars
<1> USE RuntimeAssumption, NullAssumption DEF MayRun, Holding
<1>0. TypeOK /\ OneHolder /\ TypeOK'
  BY DEF IInv
<1>1. CASE WorldChanges
  BY <1>1 DEF WorldChanges, runtime, Log!logVars,
              LogStatus, LogCall, LogAnswer, Published
<1>2. ASSUME NEW f \in Observers, StartObserve(f) PROVE Log!Observe(f)
  <2>1. LogStatus' = LogStatus
    BY <1>0, <1>2 DEF StartObserve, LogStatus, TypeOK, Fibers
  <2>2. LogCall[f] = "none" /\ LogCall' = [LogCall EXCEPT ![f] = "pending"]
    BY <1>0, <1>2 DEF StartObserve, LogCall, Published, TypeOK, Fibers
  <2>3. LogAnswer' = LogAnswer
    BY <1>0, <1>2 DEF StartObserve, LogAnswer, Published, TypeOK, Fibers
  <2> QED BY <1>2, <2>1, <2>2, <2>3 DEF Log!Observe, StartObserve
<1>3. ASSUME NEW f \in Fibers, ReadQueue(f) \/ ReadUsb(f) PROVE UNCHANGED Log!logVars
  BY <1>0, <1>3, LogUnchanged DEF ReadQueue, ReadUsb, TypeOK, Positions
<1>4. ASSUME NEW f \in Fibers, GetLast(f) PROVE UNCHANGED Log!logVars
  <2>1. LogStatus = last /\ LogStatus' = last
    BY <1>0, <1>4 DEF GetLast, LogStatus, TypeOK
  <2>2. LogCall' = LogCall
    BY <1>0, <1>4 DEF GetLast, LogCall, Published, TypeOK
  <2>3. LogAnswer' = LogAnswer
    BY <1>0, <1>4 DEF GetLast, LogAnswer, Published, TypeOK
  <2> QED BY <1>4, <2>1, <2>2, <2>3 DEF Log!logVars, GetLast
<1>5. ASSUME NEW f \in Recorders, NEW message \in Messages, RecordCupsUnavailable(f, message)
      PROVE  Log!Record(f)
  <2>1. f \in Fibers /\ pc[f] = "idle" /\ running \in {Null, f} /\ running' = f /\ UNCHANGED <<last, told>>
    BY <1>5 DEF RecordCupsUnavailable, Fibers
  <2>2. LogStatus = last
    BY <2>1 DEF LogStatus
  <2>3. \A g \in Fibers \ {f} : pc'[g] = pc[g] /\ seen'[g] = seen[g] /\ prev'[g] = prev[g]
    BY <1>0, <1>5, <2>1 DEF RecordCupsUnavailable, TypeOK
  <2>4. seen[f] = Null /\ pc'[f] = IF last = Null THEN "done" ELSE "emit"
    BY <1>0, <1>5, <2>1 DEF RecordCupsUnavailable, TypeOK
  <2>5. last = Null => seen'[f] = Null
    BY <1>5, <2>4 DEF RecordCupsUnavailable
  <2>6. LogStatus' = last
    BY <2>1, <2>4 DEF LogStatus
  <2>7. LogCall[f] = "none"
        /\ LogCall' = [LogCall EXCEPT ![f] = IF last = Null THEN "over" ELSE "pending"]
    BY <2>1, <2>3, <2>4 DEF LogCall, Published
  <2>8. LogAnswer' = LogAnswer
    BY <2>1, <2>3, <2>4, <2>5 DEF LogAnswer, Published
  <2> QED BY <2>1, <2>2, <2>6, <2>7, <2>8 DEF Log!Record
<1>6. ASSUME NEW f \in Fibers, Emit(f) PROVE Log!Next
  <2>1. /\ pc[f] = "emit" /\ running = f /\ prev[f] = last /\ last # Null /\ prev[f] # Null
        /\ Compared(told) = Compared(View(last))
    BY <1>6 DEF Emit, IInv, UpToDate, LogTellsStatus, OneHolder, Uninterrupted
  <2>2. LogStatus = prev[f] /\ LogStatus' = seen[f]
    BY <1>0, <1>6, <2>1 DEF Emit, LogStatus, TypeOK, Fibers
  <2>3. told' = Informed(told, LogStatus, seen[f])
    BY <1>6, <2>1, <2>2, EventsSuffice DEF Emit
  <2>4. Log!Settles(f)
    BY <1>0, <1>6, <2>1 DEF Emit, LogCall, Published, TypeOK, Log!Settles
  <2>5. LogAnswer' = [LogAnswer EXCEPT ![f] = seen[f]]
    BY <1>0, <1>6, <2>1 DEF Emit, LogAnswer, Published, TypeOK
  <2>6. Log!TakesEffect(f, seen[f])
    BY <2>1, <2>2, <2>3, <2>5, SameViews DEF Log!TakesEffect
  <2> QED BY <2>1, <2>2, <2>4, <2>6, WhatIsPublished
<1>7. ASSUME NEW f \in Fibers, SetLast(f) PROVE [Log!Next]_Log!logVars
  <2>1. pc[f] = "setLast" /\ running = f /\ running' = f /\ prev[f] = last /\ last' = seen[f]
    BY <1>7 DEF SetLast, IInv, UpToDate, OneHolder, Uninterrupted
  <2>2. /\ pc'[f] = "done" /\ UNCHANGED seen
        /\ \A g \in Fibers \ {f} : pc'[g] = pc[g] /\ prev'[g] = prev[g]
    BY <1>0, <1>7 DEF SetLast, TypeOK
  <2>3. LogStatus' = seen[f]
    BY <2>1, <2>2 DEF LogStatus
  <2>4. CASE prev[f] = Null
    <3>1. LogStatus = prev[f]
      BY <2>1, <2>4 DEF LogStatus
    <3>2. told' = View(seen[f])
      BY <1>7, <2>4 DEF SetLast
    <3>3. Log!Settles(f)
      BY <2>1, <2>2, <2>4 DEF LogCall, Published, Log!Settles
    <3>4. LogAnswer' = [LogAnswer EXCEPT ![f] = seen[f]]
      BY <2>1, <2>2, <2>4 DEF LogAnswer, Published
    <3>5. Log!TakesEffect(f, seen[f])
      BY <2>3, <2>4, <3>1, <3>2, <3>4, SameViews DEF Log!TakesEffect
    <3> QED BY <2>1, <3>1, <3>3, <3>5, WhatIsPublished
  <2>5. CASE prev[f] # Null
    <3>1. LogStatus = seen[f]
      BY <2>1, <2>5 DEF LogStatus, Fibers
    <3>2. told' = told
      BY <1>7, <2>5 DEF SetLast
    <3>3. LogCall' = LogCall /\ LogAnswer' = LogAnswer
      BY <2>1, <2>2, <2>5 DEF LogCall, LogAnswer, Published
    <3> QED BY <2>3, <3>1, <3>2, <3>3 DEF Log!logVars
  <2> QED BY <2>4, <2>5
<1>8. ASSUME NEW f \in Fibers, Return(f) PROVE Log!Return(f)
  <2>1. pc[f] = "done" /\ running = f /\ running' = Null /\ UNCHANGED <<last, told>>
    BY <1>8 DEF Return, OneHolder, IInv, Uninterrupted
  <2>2. /\ pc'[f] = "idle" /\ seen'[f] = Null
        /\ \A g \in Fibers \ {f} : pc'[g] = pc[g] /\ seen'[g] = seen[g] /\ prev'[g] = prev[g]
    BY <1>0, <1>8 DEF Return, TypeOK
  <2>3. LogStatus = last /\ LogStatus' = last
    BY <2>1 DEF LogStatus
  <2>4. LogCall[f] = "over" /\ LogCall' = [LogCall EXCEPT ![f] = "none"]
    BY <2>1, <2>2 DEF LogCall, Published
  <2>5. LogAnswer' = [LogAnswer EXCEPT ![f] = Null]
    BY <2>1, <2>2 DEF LogAnswer, Published
  <2> QED BY <2>1, <2>3, <2>4, <2>5 DEF Log!Return
<1>9. ASSUME NEW f \in Periodic, Beat(f) PROVE Log!Beat(f)
  <2>0. f \in Fibers /\ f \notin Recorders
    BY DEF Fibers
  <2>1. pc[f] = "done" /\ running = f /\ running' = Null /\ last' = last /\ seen[f] = last
    BY <1>0, <1>9, <2>0 DEF Beat, OneHolder, IInv, Uninterrupted, TypeOK, UpToDate, CallerAgrees
  <2>2. /\ pc'[f] = "idle" /\ seen'[f] = Null
        /\ \A g \in Fibers \ {f} : pc'[g] = pc[g] /\ seen'[g] = seen[g] /\ prev'[g] = prev[g]
    BY <1>0, <1>9, <2>0 DEF Beat, TypeOK
  <2>3. LogStatus = last /\ LogStatus' = last
    BY <2>1 DEF LogStatus
  <2>4. LogCall[f] = "over" /\ LogCall' = [LogCall EXCEPT ![f] = "none"]
    BY <2>0, <2>1, <2>2 DEF LogCall, Published
  <2>5. LogAnswer[f] = last /\ LogAnswer' = [LogAnswer EXCEPT ![f] = Null]
    BY <2>0, <2>1, <2>2 DEF LogAnswer, Published
  <2>6. told' = View(last)
    BY <1>9, <2>1 DEF Beat
  <2> QED BY <2>3, <2>4, <2>5, <2>6, SameViews DEF Log!Beat
<1>10. CASE UNCHANGED statusVars
  BY <1>10 DEF statusVars, runtime, Log!logVars, LogStatus, LogCall, LogAnswer, Published
<1>11. ASSUME NEW f \in Fibers, Log!Observe(f) \/ Log!Record(f) \/ Log!Return(f) \/ Log!Beat(f)
       PROVE  LogCall' # LogCall
  BY <1>11, CallMoves DEF Log!Observe, Log!Record, Log!Return, Log!Beat
<1> QED
  BY <1>1, <1>2, <1>3, <1>4, <1>5, <1>6, <1>7, <1>8, <1>9, <1>10, <1>11
     DEF Next, Proceed, Log!Next, Log!Callers, Fibers

\* Theorem: for any fibers, answers, views of the bus and messages, each observation and
\* each recorded disconnect takes effect at one instant between its beginning and its
\* return: the status, the events and the answer agree, whoever overlaps with it; and
\* a heartbeat tells the reader all of it, addresses included.
THEOREM RuntimeImplementsLog == ASSUME ~ AutoYield PROVE Spec => ImplementsLog
<1>1. IInv /\ IInv' /\ [Next]_statusVars => [Log!Next]_Log!logVars
  BY StepImplements
<1>2. QED
  BY InitImplements, <1>1, Invariance, PTL DEF Spec, ImplementsLog, Log!Spec

-----------------------------------------------------------------------------
(* A status that is true stays true while nothing is disturbed *)

\* The status is what the world shows, a reader of the log knows it, and no fiber is on
\* its way with a reading that the world has left behind.
Fresh ==
  /\ last = Truth
  /\ told = View(Truth)
  /\ \A f \in Observers :
       /\ pc[f] \in {"readQueue", "readUsb"} =>
            /\ seen[f].networkOnline = (network # <<>>)
            /\ seen[f].localIps = network
       /\ pc[f] = "readUsb" => seen[f].cupsQueue = CupsQueueStatusOf(cups)
       /\ pc[f] \in {"getLast", "emit", "setLast", "done"} => seen[f] = Truth
  /\ \A f \in Recorders : pc[f] \in {"idle", "done"}

LEMMA FreshKept ==
  ASSUME TypeOK, RecordersCopy, Fresh, [Next]_statusVars, [~ Disturbance]_statusVars
  PROVE  Fresh'
<1> USE RuntimeAssumption DEF TypeOK, Fresh, Fibers, Positions
<1>0. CASE UNCHANGED statusVars
  BY <1>0 DEF statusVars, environment, runtime, Truth
<1>1. SUFFICES ASSUME ~ Disturbance, Next PROVE Fresh'
  BY <1>0
<1>2. UNCHANGED <<network, cups, sysfs>> /\ Truth' = Truth
  BY <1>1 DEF Disturbance, environment, Truth
<1>3. CASE WorldChanges
  BY <1>1, <1>3 DEF WorldChanges, Disturbance
<1>4. ASSUME NEW f \in Observers, StartObserve(f) PROVE Fresh'
  BY <1>2, <1>4 DEF StartObserve, Snapshot
<1>5. ASSUME NEW f \in Fibers, ReadQueue(f) PROVE Fresh'
  <2>1. f \in Observers /\ seen[f] \in PartialSnapshots /\ pc[f] = "readQueue"
    BY <1>5 DEF ReadQueue
  <2>2. /\ seen'[f].networkOnline = (network # <<>>) /\ seen'[f].localIps = network
        /\ seen'[f].cupsQueue = CupsQueueStatusOf(cups)
        /\ pc'[f] = "readUsb"
    BY <1>5, <2>1 DEF ReadQueue, PartialSnapshots
  <2>3. /\ \A g \in Fibers \ {f} : pc'[g] = pc[g] /\ seen'[g] = seen[g]
        /\ last' = last /\ told' = told
    BY <1>5 DEF ReadQueue
  <2> QED BY <1>2, <2>1, <2>2, <2>3
<1>6. ASSUME NEW f \in Fibers, ReadUsb(f) PROVE Fresh'
  <2>1. f \in Observers /\ seen[f] \in PartialSnapshots /\ pc[f] = "readUsb"
    BY <1>6 DEF ReadUsb
  <2>2. seen'[f] = Truth /\ pc'[f] = "getLast"
    BY <1>6, <2>1 DEF ReadUsb, PartialSnapshots, Truth, Snapshot
  <2>3. /\ \A g \in Fibers \ {f} : pc'[g] = pc[g] /\ seen'[g] = seen[g]
        /\ last' = last /\ told' = told
    BY <1>6 DEF ReadUsb
  <2> QED BY <1>2, <2>1, <2>2, <2>3
<1>7. ASSUME NEW f \in Fibers, GetLast(f) PROVE Fresh'
  BY <1>2, <1>7 DEF GetLast
<1>8. ASSUME NEW f \in Recorders, NEW message \in Messages,
             RecordCupsUnavailable(f, message)
      PROVE  Fresh'
  <2>1. pc[f] = "idle" /\ pc'[f] # "idle"
    BY <1>8 DEF RecordCupsUnavailable
  <2> QED BY <1>1, <2>1 DEF Disturbance
<1>9. ASSUME NEW f \in Fibers, Emit(f) PROVE Fresh'
  <2>1. f \in Observers /\ seen[f] = Truth
    BY <1>9 DEF Emit, RecordersCopy
  <2>2. told' = View(Truth)
    BY <1>9, <2>1 DEF Emit, Learn, View
  <2> QED BY <1>2, <1>9, <2>1, <2>2 DEF Emit
<1>10. ASSUME NEW f \in Fibers, SetLast(f) PROVE Fresh'
  <2>1. f \in Observers /\ seen[f] = Truth
    BY <1>10 DEF SetLast, RecordersCopy
  <2>2. told' = View(Truth) /\ last' = Truth
    BY <1>10, <2>1 DEF SetLast
  <2> QED BY <1>2, <1>10, <2>1, <2>2 DEF SetLast
<1>11. ASSUME NEW f \in Fibers, Return(f) PROVE Fresh'
  BY <1>2, <1>11 DEF Return
<1>12. ASSUME NEW f \in Periodic, Beat(f) PROVE Fresh'
  <2>1. f \in Observers /\ seen[f] = Truth
    BY <1>12 DEF Beat
  <2> QED BY <1>2, <1>12, <2>1 DEF Beat
<1> QED
  BY <1>1, <1>3, <1>4, <1>5, <1>6, <1>7, <1>8, <1>9, <1>10, <1>11, <1>12 DEF Next, Proceed

\* Theorem: once the status is true and told, and no older reading is on its way, both
\* stay so until the world changes or a disconnect is recorded, also when fibers are
\* preempted: the half of Converges that needs no fairness.
THEOREM TruthStays ==
  Spec => [](Fresh /\ [][~ Disturbance]_statusVars => [](last = Truth /\ told = View(Truth)))
<1>1. TypeOK /\ RecordersCopy /\ [Next]_statusVars => RecordersCopy'
  BY StepRecordersCopy
<1>2. Init => RecordersCopy
  BY InitInv DEF IInv
<1>3. TypeOK /\ RecordersCopy /\ Fresh /\ [Next]_statusVars /\ [~ Disturbance]_statusVars => Fresh'
  BY FreshKept
<1>4. Fresh => last = Truth /\ told = View(Truth)
  BY DEF Fresh
<1> QED
  BY <1>1, <1>2, <1>3, <1>4, TypeCorrect, PTL DEF Spec
=============================================================================
