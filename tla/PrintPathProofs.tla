--------------------------- MODULE PrintPathProofs ---------------------------
(***************************************************************************)
(* Proofs about PrintPath, for any documents, driver outputs and timers.   *)
(* The gate is in the filter and the bytes pass through the backend, so    *)
(* the inductive invariant ties the position of each process to what the   *)
(* filter has checked, written and accounted, and to whether the pipe may  *)
(* still grow.                                                             *)
(***************************************************************************)
EXTENDS PrintPath, TLAPS

\* The filter has found nothing wrong with the document, or with the output.
Readable == decidePdfPreflight(document.pdfinfo) = "accepted"
Accepted == /\ Readable
            /\ DriverOutputAccepted(document.pdfinfo.pages, document.copies, spl)

\* Where the filter is before, and after, it knows that.
BeforeCopy == {"idle", "start", "allocate", "preflight", "copies", "render", "pdftopdf",
               "pdftopdf done", "gstoraster", "gstoraster done", "rastertospl", "guard",
               "preflightRejected", "guardRejected"}
PastPreflight == {"copies", "render", "pdftopdf", "pdftopdf done", "gstoraster",
                  "gstoraster done", "rastertospl", "guard"}

FilterInv ==
  /\ filter \in BeforeCopy => written = 0
  /\ filter \notin {"accounted", "ok", "killed"} => accounting = NoLines
  /\ accounting # NoLines => Accepted /\ written = spl.bytes
  /\ filter \in PastPreflight => Readable
  /\ filter \in {"copy", "account", "accounted"} \/ written > 0 => Accepted
  /\ filter \in {"account", "accounted", "ok"} => written = spl.bytes
  /\ filter \in {"accounted", "ok"} => accounting = extractCupsJobAccounting(spl.stderr)

ReasonsInv ==
  /\ filter \notin {"start", "failed", "killed", "idle"} => stateReasons = {}
  /\ RejectionLeavesNoTrace

\* Once the backend has seen the end of the file nothing is written any more, and
\* it only succeeds when it has sent what it staged.
BackendInv ==
  /\ backend \in {"check", "deauthorize", "ok"} \cup Transferring =>
       filter \in Exited /\ staged = written
  /\ backend = "ok" => sent = staged /\ staged > 0
  /\ backend \in Transferring => staged > 0
  /\ backend = "idle" <=> filter = "idle"

IInv == TypeOK /\ FilterInv /\ ReasonsInv /\ BackendInv

-----------------------------------------------------------------------------
(* The guards *)

\* The output guard bounds the output by both limits.
LEMMA GuardBounds ==
  ASSUME NEW pages \in Nat, NEW bytes \in Nat, bytes <= maxBytes(pages)
  PROVE  bytes <= pages * MaxBytesPerPage /\ bytes <= MaxTotalBytes
  <1>. DEFINE a == pages * MaxBytesPerPage
              b == MaxTotalBytes
  <1>1. a \in Nat /\ b \in Nat
    BY PathAssumption
  <1>. HIDE DEF a, b
  <1>2. \E m \in {a, b} : \A n \in {a, b} : m <= n
    <2>1. CASE a <= b BY <1>1, <2>1
    <2>2. CASE ~ (a <= b) BY <1>1, <2>2
    <2>. QED BY <2>1, <2>2
  <1>3. Min({a, b}) <= a /\ Min({a, b}) <= b /\ Min({a, b}) \in {a, b}
    BY <1>2 DEF Min
  <1>4. bytes <= Min({a, b})
    BY DEF maxBytes, a, b
  <1>. QED
    <2>1. bytes <= a /\ bytes <= b BY <1>1, <1>3, <1>4
    <2>. QED BY <2>1 DEF a, b

\* Together the checks of the filter are what the printer may be asked to print.
LEMMA AcceptedIsPrintable ==
  ASSUME TypeOK, Accepted PROVE Printable(document, spl) /\ spl.bytes > 0
  <1>1. /\ document.pdfinfo.exitCode = 0 /\ document.pdfinfo.encrypted = "no"
        /\ document.pdfinfo.pages > 0 /\ document.pdfinfo.pages \in Nat
    BY PathAssumption
    DEF TypeOK, FlowTyped, Accepted, Readable, decidePdfPreflight, PositiveOrNotFound, NotFound
  <1>2. decideSplOutputGuard(document.pdfinfo.pages, document.copies, spl) = "accepted"
        /\ spl.suppressed
    BY DEF Accepted, DriverOutputAccepted
  <1>3. document.copies = 1
    BY <1>2, PathAssumption
    DEF TypeOK, FlowTyped, decideSplOutputGuard, decideCupsCopiesGuard, PositiveOrNotFound, NotFound
  <1>4. /\ countCupsPageLogEntries(spl.stderr) = document.pdfinfo.pages
        /\ ~ (spl.bytes > maxBytes(document.pdfinfo.pages)) /\ spl.bytes # 0
    BY <1>2 DEF decideSplOutputGuard
  <1>5. spl.bytes \in Nat
    BY PathAssumption DEF TypeOK, FlowTyped, NoOutput, DriverOutput
  <1>6. maxBytes(document.pdfinfo.pages) \in Int
    <2>1. document.pdfinfo.pages * MaxBytesPerPage \in Nat /\ MaxTotalBytes \in Nat
      BY <1>1, PathAssumption
    <2>2. \E m \in {document.pdfinfo.pages * MaxBytesPerPage, MaxTotalBytes} :
            \A n \in {document.pdfinfo.pages * MaxBytesPerPage, MaxTotalBytes} : m <= n
      BY <2>1
    <2>. QED BY <2>1, <2>2 DEF maxBytes, Min
  <1>7. spl.bytes <= maxBytes(document.pdfinfo.pages)
    BY <1>4, <1>5, <1>6
  <1>. QED
    BY <1>1, <1>2, <1>3, <1>4, <1>5, <1>7, GuardBounds DEF Printable
-----------------------------------------------------------------------------
(* The invariant *)

LEMMA InitInv == Init => IInv
  BY PathAssumption
  DEF Init, IInv, TypeOK, FlowTyped, PlacesTyped, TimersTyped, FilterInv, ReasonsInv, RejectionLeavesNoTrace, BackendInv,
      FilterPositions, BackendPositions, Exited, Transferring, BeforeCopy, PastPreflight,
      NoOutput, DriverOutput, Off, Timers

LEMMA StepFlow ==
  ASSUME IInv, [Next]_pathVars PROVE FlowTyped'
  <1>. USE DEF IInv, TypeOK, FlowTyped
  <1>1. CASE StartJob
    <2>1. /\ spl' = NoOutput /\ written' = 0 /\ staged' = 0 /\ sent' = 0 /\ accounting' = NoLines
          /\ document' \in Documents
      BY <1>1 DEF StartJob
    <2>2. NoOutput.bytes = 0
      BY DEF NoOutput, DriverOutput
    <2>. QED BY <2>1, <2>2
  <1>2. CASE ClearReasons
    BY <1>2 DEF ClearReasons, backendVars
  <1>3. CASE Allocate
    BY <1>3 DEF Allocate, FilterMoves, backendVars
  <1>4. CASE Preflight
    BY <1>4 DEF Preflight, FilterMoves, backendVars
  <1>5. CASE CheckCopies
    BY <1>5 DEF CheckCopies, FilterMoves, backendVars
  <1>6. CASE StartSubfilter
    BY <1>6 DEF StartSubfilter, FilterMoves, backendVars
  <1>7. CASE SubfilterDone
    BY <1>7 DEF SubfilterDone, FilterMoves, backendVars
  <1>8. CASE RasterToSplDone
    <2>1. written = 0 /\ accounting = NoLines
      BY <1>8 DEF RasterToSplDone, FilterInv, BeforeCopy
    <2>2. spl' \in DriverOutputs /\ spl'.bytes \in Nat
      BY <1>8, PathAssumption DEF RasterToSplDone
    <2>3. UNCHANGED <<document, written, accounting, staged, sent>>
      BY <1>8 DEF RasterToSplDone, backendVars
    <2>. QED BY <2>1, <2>2, <2>3
  <1>9. CASE SubfilterFails
    BY <1>9 DEF SubfilterFails, FilterMoves, backendVars
  <1>10. CASE Guard
    BY <1>10 DEF Guard, FilterMoves, backendVars
  <1>11. CASE Copy
    <2>1. /\ written < spl.bytes /\ written' = written + 1
          /\ UNCHANGED <<document, spl, accounting, staged, sent>>
      BY <1>11 DEF Copy, backendVars
    <2>2. spl.bytes \in Nat
      BY PathAssumption DEF NoOutput, DriverOutput
    <2>. QED BY <2>1, <2>2
  <1>12. CASE BrokenPipe
    BY <1>12 DEF BrokenPipe, FilterMoves, backendVars
  <1>13. CASE CopyFails
    BY <1>13 DEF CopyFails, FilterMoves, backendVars
  <1>14. CASE CopyDone
    BY <1>14 DEF CopyDone, FilterMoves, backendVars
  <1>15. CASE Account
    BY <1>15 DEF Account, backendVars
  <1>35. CASE Finish
    BY <1>35 DEF Finish, FilterMoves, backendVars
  <1>16. CASE ReportFailure
    BY <1>16 DEF ReportFailure, Report, backendVars
  <1>17. CASE FilterDies
    BY <1>17 DEF FilterDies, backendVars
  <1>18. CASE Stage
    <2>1. /\ staged' = staged + 1 /\ staged < written
          /\ UNCHANGED <<document, spl, accounting, written, sent>>
      BY <1>18 DEF Stage, filterVars
    <2>2. staged' \in Nat /\ sent <= staged' /\ staged' <= written
      BY <2>1
    <2>. QED BY <2>1, <2>2
  <1>19. CASE StageDone
    BY <1>19 DEF StageDone, BackendMoves, filterVars
  <1>20. CASE CheckFails
    BY <1>20 DEF CheckFails, BackendMoves, filterVars
  <1>21. CASE RejectEmpty
    BY <1>21 DEF RejectEmpty, BackendMoves, filterVars
  <1>22. CASE StartTransfer
    BY <1>22 DEF StartTransfer, BackendMoves, filterVars
  <1>23. CASE Send
    <2>1. /\ sent' = sent + 1 /\ sent < staged
          /\ UNCHANGED <<document, spl, accounting, written, staged>>
      BY <1>23 DEF Send, filterVars
    <2>2. sent' \in Nat /\ sent' <= staged
      BY <2>1
    <2>. QED BY <2>1, <2>2
  <1>24. CASE TransferEnds
    BY <1>24 DEF TransferEnds, BackendMoves, filterVars
  <1>25. CASE TransferExpires
    BY <1>25 DEF TransferExpires, BackendMoves, filterVars
  <1>26. CASE TransferKilled
    BY <1>26 DEF TransferKilled, BackendMoves, filterVars
  <1>27. CASE deauthorize_target_usb
    BY <1>27 DEF deauthorize_target_usb, filterVars
  <1>28. CASE DeviceWedges
    BY <1>28 DEF DeviceWedges, filterVars
  <1>29. CASE DeviceRecovers
    BY <1>29 DEF DeviceRecovers, filterVars
  <1>30. CASE Cancel
    BY <1>30 DEF Cancel, backendVars
  <1>31. CASE TerminateBackend
    BY <1>31 DEF TerminateBackend, Terminated, filterVars
  <1>32. CASE Kill
    BY <1>32 DEF Kill, filterVars
  <1>33. CASE Tick
    BY <1>33 DEF Tick, filterVars, backendVars
  <1>34. CASE UNCHANGED pathVars
    BY <1>34 DEF pathVars, filterVars, backendVars
  <1>. QED
    BY <1>1, <1>2, <1>3, <1>4, <1>5, <1>6, <1>7, <1>8, <1>9, <1>10, <1>11, <1>12,
       <1>13, <1>14, <1>15, <1>16, <1>17, <1>18, <1>19, <1>20, <1>21, <1>22, <1>23, <1>24,
       <1>25, <1>26, <1>27, <1>28, <1>29, <1>30, <1>31, <1>32, <1>33, <1>34, <1>35
    DEF Next, FilterStep, WrapperStep, BackendStep

LEMMA StepPlaces ==
  ASSUME IInv, [Next]_pathVars PROVE PlacesTyped'
  <1>. USE DEF IInv, TypeOK, PlacesTyped, FilterPositions, BackendPositions,
          Exited, Transferring
  <1>1. CASE StartJob
    BY <1>1 DEF StartJob
  <1>2. CASE ClearReasons
    BY <1>2 DEF ClearReasons, backendVars
  <1>3. CASE Allocate
    BY <1>3 DEF Allocate, FilterMoves, backendVars
  <1>4. CASE Preflight
    BY <1>4 DEF Preflight, FilterMoves, backendVars
  <1>5. CASE CheckCopies
    BY <1>5 DEF CheckCopies, FilterMoves, backendVars
  <1>6. CASE StartSubfilter
    BY <1>6 DEF StartSubfilter, FilterMoves, backendVars
  <1>7. CASE SubfilterDone
    BY <1>7 DEF SubfilterDone, FilterMoves, backendVars
  <1>8. CASE RasterToSplDone
    BY <1>8 DEF RasterToSplDone, backendVars
  <1>9. CASE SubfilterFails
    BY <1>9 DEF SubfilterFails, FilterMoves, backendVars
  <1>10. CASE Guard
    BY <1>10 DEF Guard, FilterMoves, backendVars
  <1>11. CASE Copy
    BY <1>11 DEF Copy, backendVars
  <1>12. CASE BrokenPipe
    BY <1>12 DEF BrokenPipe, FilterMoves, backendVars
  <1>13. CASE CopyFails
    BY <1>13 DEF CopyFails, FilterMoves, backendVars
  <1>14. CASE CopyDone
    BY <1>14 DEF CopyDone, FilterMoves, backendVars
  <1>15. CASE Account
    BY <1>15 DEF Account, backendVars
  <1>35. CASE Finish
    BY <1>35 DEF Finish, FilterMoves, backendVars
  <1>16. CASE ReportFailure
    BY <1>16 DEF ReportFailure, Report, backendVars
  <1>17. CASE FilterDies
    BY <1>17 DEF FilterDies, backendVars
  <1>18. CASE Stage
    BY <1>18 DEF Stage, filterVars
  <1>19. CASE StageDone
    BY <1>19 DEF StageDone, BackendMoves, filterVars
  <1>20. CASE CheckFails
    BY <1>20 DEF CheckFails, BackendMoves, filterVars
  <1>21. CASE RejectEmpty
    BY <1>21 DEF RejectEmpty, BackendMoves, filterVars
  <1>22. CASE StartTransfer
    BY <1>22 DEF StartTransfer, BackendMoves, filterVars
  <1>23. CASE Send
    BY <1>23 DEF Send, filterVars
  <1>24. CASE TransferEnds
    BY <1>24 DEF TransferEnds, BackendMoves, filterVars
  <1>25. CASE TransferExpires
    BY <1>25 DEF TransferExpires, BackendMoves, filterVars
  <1>26. CASE TransferKilled
    BY <1>26 DEF TransferKilled, BackendMoves, filterVars
  <1>27. CASE deauthorize_target_usb
    BY <1>27 DEF deauthorize_target_usb, filterVars
  <1>28. CASE DeviceWedges
    BY <1>28 DEF DeviceWedges, filterVars
  <1>29. CASE DeviceRecovers
    BY <1>29 DEF DeviceRecovers, filterVars
  <1>30. CASE Cancel
    BY <1>30 DEF Cancel, backendVars
  <1>31. CASE TerminateBackend
    BY <1>31 DEF TerminateBackend, Terminated, filterVars
  <1>32. CASE Kill
    BY <1>32 DEF Kill, filterVars
  <1>33. CASE Tick
    BY <1>33 DEF Tick, filterVars, backendVars
  <1>34. CASE UNCHANGED pathVars
    BY <1>34 DEF pathVars, filterVars, backendVars
  <1>. QED
    BY <1>1, <1>2, <1>3, <1>4, <1>5, <1>6, <1>7, <1>8, <1>9, <1>10, <1>11, <1>12,
       <1>13, <1>14, <1>15, <1>16, <1>17, <1>18, <1>19, <1>20, <1>21, <1>22, <1>23, <1>24,
       <1>25, <1>26, <1>27, <1>28, <1>29, <1>30, <1>31, <1>32, <1>33, <1>34, <1>35
    DEF Next, FilterStep, WrapperStep, BackendStep

LEMMA StepTimers ==
  ASSUME IInv, [Next]_pathVars PROVE TimersTyped'
  <1>. USE PathAssumption DEF IInv, TypeOK, TimersTyped, Timers, Off, NoLimit
  <1>1. CASE StartJob
    BY <1>1 DEF StartJob
  <1>2. CASE ClearReasons
    BY <1>2 DEF ClearReasons, backendVars
  <1>3. CASE Allocate
    BY <1>3 DEF Allocate, FilterMoves, backendVars
  <1>4. CASE Preflight
    BY <1>4 DEF Preflight, FilterMoves, backendVars
  <1>5. CASE CheckCopies
    BY <1>5 DEF CheckCopies, FilterMoves, backendVars
  <1>6. CASE StartSubfilter
    BY <1>6 DEF StartSubfilter, FilterMoves, backendVars
  <1>7. CASE SubfilterDone
    BY <1>7 DEF SubfilterDone, FilterMoves, backendVars
  <1>8. CASE RasterToSplDone
    BY <1>8 DEF RasterToSplDone, backendVars
  <1>9. CASE SubfilterFails
    BY <1>9 DEF SubfilterFails, FilterMoves, backendVars
  <1>10. CASE Guard
    BY <1>10 DEF Guard, FilterMoves, backendVars
  <1>11. CASE Copy
    BY <1>11 DEF Copy, backendVars
  <1>12. CASE BrokenPipe
    BY <1>12 DEF BrokenPipe, FilterMoves, backendVars
  <1>13. CASE CopyFails
    BY <1>13 DEF CopyFails, FilterMoves, backendVars
  <1>14. CASE CopyDone
    BY <1>14 DEF CopyDone, FilterMoves, backendVars
  <1>15. CASE Account
    BY <1>15 DEF Account, backendVars
  <1>35. CASE Finish
    BY <1>35 DEF Finish, FilterMoves, backendVars
  <1>16. CASE ReportFailure
    BY <1>16 DEF ReportFailure, Report, backendVars
  <1>17. CASE FilterDies
    BY <1>17 DEF FilterDies, backendVars
  <1>18. CASE Stage
    BY <1>18 DEF Stage, filterVars
  <1>19. CASE StageDone
    BY <1>19 DEF StageDone, BackendMoves, filterVars
  <1>20. CASE CheckFails
    BY <1>20 DEF CheckFails, BackendMoves, filterVars
  <1>21. CASE RejectEmpty
    BY <1>21 DEF RejectEmpty, BackendMoves, filterVars
  <1>22. CASE StartTransfer
    BY <1>22 DEF StartTransfer, BackendMoves, filterVars
  <1>23. CASE Send
    BY <1>23 DEF Send, filterVars
  <1>24. CASE TransferEnds
    BY <1>24 DEF TransferEnds, BackendMoves, filterVars
  <1>25. CASE TransferExpires
    BY <1>25 DEF TransferExpires, BackendMoves, filterVars
  <1>26. CASE TransferKilled
    BY <1>26 DEF TransferKilled, BackendMoves, filterVars
  <1>27. CASE deauthorize_target_usb
    BY <1>27 DEF deauthorize_target_usb, filterVars
  <1>28. CASE DeviceWedges
    BY <1>28 DEF DeviceWedges, filterVars
  <1>29. CASE DeviceRecovers
    BY <1>29 DEF DeviceRecovers, filterVars
  <1>30. CASE Cancel
    BY <1>30 DEF Cancel, backendVars
  <1>31. CASE TerminateBackend
    BY <1>31 DEF TerminateBackend, Terminated, filterVars
  <1>32. CASE Kill
    BY <1>32 DEF Kill, filterVars
  <1>33. CASE Tick
    <2>1. timers' = [t \in Timers |-> IF timers[t] > 0 THEN timers[t] - 1 ELSE timers[t]]
      BY <1>33 DEF Tick
    <2>2. ASSUME NEW t \in Timers
          PROVE (IF timers[t] > 0 THEN timers[t] - 1 ELSE timers[t]) \in Nat \cup {Off}
      <3>1. timers[t] \in Nat \cup {Off} OBVIOUS
      <3>. QED BY <3>1
    <2>. QED BY <2>1, <2>2
  <1>34. CASE UNCHANGED pathVars
    BY <1>34 DEF pathVars, filterVars, backendVars
  <1>. QED
    BY <1>1, <1>2, <1>3, <1>4, <1>5, <1>6, <1>7, <1>8, <1>9, <1>10, <1>11, <1>12,
       <1>13, <1>14, <1>15, <1>16, <1>17, <1>18, <1>19, <1>20, <1>21, <1>22, <1>23, <1>24,
       <1>25, <1>26, <1>27, <1>28, <1>29, <1>30, <1>31, <1>32, <1>33, <1>34, <1>35
    DEF Next, FilterStep, WrapperStep, BackendStep

LEMMA ZeroIsNotPositive ==
  ASSUME NEW n, n = 0 PROVE ~ (n > 0)
  OBVIOUS

LEMMA StepFilter ==
  ASSUME IInv, [Next]_pathVars PROVE FilterInv'
  <1>. USE DEF IInv, FilterInv, BeforeCopy, PastPreflight, Readable, Accepted, Exited
  <1>1. CASE StartJob
    <2>1. filter' = "start" /\ written' = 0 /\ accounting' = NoLines
      BY <1>1 DEF StartJob
    <2>2. ~ (written' > 0)
      BY <2>1, ZeroIsNotPositive
    <2>3. /\ filter' \notin {"copy", "account", "ok"} \cup PastPreflight
          /\ filter' # "ok"
      BY <2>1
    <2>. QED BY <2>1, <2>2, <2>3
  <1>2. CASE ClearReasons
    BY <1>2 DEF ClearReasons, backendVars
  <1>3. CASE Allocate
    BY <1>3 DEF Allocate, FilterMoves, backendVars
  <1>4. CASE Preflight
    BY <1>4 DEF Preflight, FilterMoves, backendVars
  <1>5. CASE CheckCopies
    BY <1>5 DEF CheckCopies, FilterMoves, backendVars
  <1>6. CASE StartSubfilter
    BY <1>6 DEF StartSubfilter, FilterMoves, backendVars
  <1>7. CASE SubfilterDone
    BY <1>7 DEF SubfilterDone, FilterMoves, backendVars
  <1>8. CASE RasterToSplDone
    BY <1>8 DEF RasterToSplDone, backendVars
  <1>9. CASE SubfilterFails
    BY <1>9 DEF SubfilterFails, FilterMoves, backendVars
  <1>10. CASE Guard
    BY <1>10 DEF Guard, FilterMoves, backendVars
  <1>11. CASE Copy
    <2>1. filter = "copy" /\ UNCHANGED <<document, filter, spl, accounting>>
      BY <1>11 DEF Copy
    <2>. QED BY <2>1
  <1>12. CASE BrokenPipe
    BY <1>12 DEF BrokenPipe, FilterMoves, backendVars
  <1>13. CASE CopyFails
    BY <1>13 DEF CopyFails, FilterMoves, backendVars
  <1>14. CASE CopyDone
    BY <1>14 DEF CopyDone, FilterMoves, backendVars
  <1>15. CASE Account
    BY <1>15 DEF Account, backendVars
  <1>35. CASE Finish
    BY <1>35 DEF Finish, FilterMoves, backendVars
  <1>16. CASE ReportFailure
    BY <1>16 DEF ReportFailure, Report, backendVars
  <1>17. CASE FilterDies
    BY <1>17 DEF FilterDies, backendVars
  <1>18. CASE Stage
    BY <1>18 DEF Stage, filterVars
  <1>19. CASE StageDone
    BY <1>19 DEF StageDone, BackendMoves, filterVars
  <1>20. CASE CheckFails
    BY <1>20 DEF CheckFails, BackendMoves, filterVars
  <1>21. CASE RejectEmpty
    BY <1>21 DEF RejectEmpty, BackendMoves, filterVars
  <1>22. CASE StartTransfer
    BY <1>22 DEF StartTransfer, BackendMoves, filterVars
  <1>23. CASE Send
    BY <1>23 DEF Send, filterVars
  <1>24. CASE TransferEnds
    BY <1>24 DEF TransferEnds, BackendMoves, filterVars
  <1>25. CASE TransferExpires
    BY <1>25 DEF TransferExpires, BackendMoves, filterVars
  <1>26. CASE TransferKilled
    BY <1>26 DEF TransferKilled, BackendMoves, filterVars
  <1>27. CASE deauthorize_target_usb
    BY <1>27 DEF deauthorize_target_usb, filterVars
  <1>28. CASE DeviceWedges
    BY <1>28 DEF DeviceWedges, filterVars
  <1>29. CASE DeviceRecovers
    BY <1>29 DEF DeviceRecovers, filterVars
  <1>30. CASE Cancel
    BY <1>30 DEF Cancel, backendVars
  <1>31. CASE TerminateBackend
    BY <1>31 DEF TerminateBackend, Terminated, filterVars
  <1>32. CASE Kill
    BY <1>32 DEF Kill, filterVars
  <1>33. CASE Tick
    BY <1>33 DEF Tick, filterVars, backendVars
  <1>34. CASE UNCHANGED pathVars
    BY <1>34 DEF pathVars, filterVars, backendVars
  <1>. QED
    BY <1>1, <1>2, <1>3, <1>4, <1>5, <1>6, <1>7, <1>8, <1>9, <1>10, <1>11, <1>12,
       <1>13, <1>14, <1>15, <1>16, <1>17, <1>18, <1>19, <1>20, <1>21, <1>22, <1>23, <1>24,
       <1>25, <1>26, <1>27, <1>28, <1>29, <1>30, <1>31, <1>32, <1>33, <1>34, <1>35
    DEF Next, FilterStep, WrapperStep, BackendStep

\* What was not written is not sent.
LEMMA NothingFromNothing ==
  ASSUME TypeOK, written = 0 PROVE staged = 0 /\ sent = 0
  BY DEF TypeOK, FlowTyped

LEMMA SendingSomething ==
  ASSUME TypeOK, sent < staged PROVE written # 0
  BY DEF TypeOK, FlowTyped

LEMMA StepReasons ==
  ASSUME IInv, [Next]_pathVars PROVE ReasonsInv'
  <1>. USE DEF IInv, FilterInv, ReasonsInv, RejectionLeavesNoTrace, BeforeCopy, Exited,
          JobRuns
  <1>1. CASE StartJob
    BY <1>1 DEF StartJob
  <1>2. CASE ClearReasons
    BY <1>2 DEF ClearReasons, backendVars
  <1>3. CASE Allocate
    BY <1>3 DEF Allocate, FilterMoves, backendVars
  <1>4. CASE Preflight
    BY <1>4 DEF Preflight, FilterMoves, backendVars
  <1>5. CASE CheckCopies
    BY <1>5 DEF CheckCopies, FilterMoves, backendVars
  <1>6. CASE StartSubfilter
    BY <1>6 DEF StartSubfilter, FilterMoves, backendVars
  <1>7. CASE SubfilterDone
    BY <1>7 DEF SubfilterDone, FilterMoves, backendVars
  <1>8. CASE RasterToSplDone
    BY <1>8 DEF RasterToSplDone, backendVars
  <1>9. CASE SubfilterFails
    BY <1>9 DEF SubfilterFails, FilterMoves, backendVars
  <1>10. CASE Guard
    BY <1>10 DEF Guard, FilterMoves, backendVars
  <1>11. CASE Copy
    BY <1>11 DEF Copy, backendVars
  <1>12. CASE BrokenPipe
    BY <1>12 DEF BrokenPipe, FilterMoves, backendVars
  <1>13. CASE CopyFails
    BY <1>13 DEF CopyFails, FilterMoves, backendVars
  <1>14. CASE CopyDone
    BY <1>14 DEF CopyDone, FilterMoves, backendVars
  <1>15. CASE Account
    BY <1>15 DEF Account, backendVars
  <1>35. CASE Finish
    BY <1>35 DEF Finish, FilterMoves, backendVars
  <1>16. CASE ReportFailure
    <2>1. UNCHANGED <<written, sent, accounting>> /\ filter' = "failed"
      BY <1>16 DEF ReportFailure, Report, backendVars
    <2>2. CASE filter = "commandFailed"
      BY <1>16, <2>1, <2>2 DEF ReportFailure, Report
    <2>3. CASE filter \in {"preflightRejected", "guardRejected"}
      <3>1. written = 0 /\ accounting = NoLines BY <2>3
      <3>. QED BY <2>1, <3>1, NothingFromNothing
    <2>. QED BY <1>16, <2>2, <2>3 DEF ReportFailure, Report
  <1>17. CASE FilterDies
    BY <1>17 DEF FilterDies, backendVars
  <1>18. CASE Stage
    BY <1>18 DEF Stage, filterVars
  <1>19. CASE StageDone
    BY <1>19 DEF StageDone, BackendMoves, filterVars
  <1>20. CASE CheckFails
    BY <1>20 DEF CheckFails, BackendMoves, filterVars
  <1>21. CASE RejectEmpty
    BY <1>21 DEF RejectEmpty, BackendMoves, filterVars
  <1>22. CASE StartTransfer
    BY <1>22 DEF StartTransfer, BackendMoves, filterVars
  <1>23. CASE Send
    <2>1. sent < staged
      BY <1>23 DEF Send
    <2>2. UNCHANGED <<filter, written, accounting, stateReasons>>
      BY <1>23 DEF Send, filterVars
    <2>3. written # 0
      BY <2>1, SendingSomething
    <2>. QED BY <2>2, <2>3
  <1>24. CASE TransferEnds
    BY <1>24 DEF TransferEnds, BackendMoves, filterVars
  <1>25. CASE TransferExpires
    BY <1>25 DEF TransferExpires, BackendMoves, filterVars
  <1>26. CASE TransferKilled
    BY <1>26 DEF TransferKilled, BackendMoves, filterVars
  <1>27. CASE deauthorize_target_usb
    BY <1>27 DEF deauthorize_target_usb, filterVars
  <1>28. CASE DeviceWedges
    BY <1>28 DEF DeviceWedges, filterVars
  <1>29. CASE DeviceRecovers
    BY <1>29 DEF DeviceRecovers, filterVars
  <1>30. CASE Cancel
    BY <1>30 DEF Cancel, backendVars
  <1>31. CASE TerminateBackend
    BY <1>31 DEF TerminateBackend, Terminated, filterVars
  <1>32. CASE Kill
    BY <1>32 DEF Kill, filterVars
  <1>33. CASE Tick
    BY <1>33 DEF Tick, filterVars, backendVars
  <1>34. CASE UNCHANGED pathVars
    BY <1>34 DEF pathVars, filterVars, backendVars
  <1>. QED
    BY <1>1, <1>2, <1>3, <1>4, <1>5, <1>6, <1>7, <1>8, <1>9, <1>10, <1>11,
       <1>12, <1>13, <1>14, <1>15, <1>16, <1>17, <1>18, <1>19, <1>20, <1>21, <1>22,
       <1>23, <1>24, <1>25, <1>26, <1>27, <1>28, <1>29, <1>30, <1>31, <1>32, <1>33,
       <1>34, <1>35
    DEF Next, FilterStep, WrapperStep, BackendStep

LEMMA StepBackend ==
  ASSUME IInv, [Next]_pathVars PROVE BackendInv'
  <1>. USE DEF IInv, TypeOK, PlacesTyped, BackendInv, FilterInv, FilterPositions, Exited, Transferring, JobRuns
  <1>1. CASE StartJob
    BY <1>1 DEF StartJob
  <1>2. CASE ClearReasons
    BY <1>2 DEF ClearReasons, backendVars
  <1>3. CASE Allocate
    BY <1>3 DEF Allocate, FilterMoves, backendVars
  <1>4. CASE Preflight
    BY <1>4 DEF Preflight, FilterMoves, backendVars
  <1>5. CASE CheckCopies
    BY <1>5 DEF CheckCopies, FilterMoves, backendVars
  <1>6. CASE StartSubfilter
    BY <1>6 DEF StartSubfilter, FilterMoves, backendVars
  <1>7. CASE SubfilterDone
    BY <1>7 DEF SubfilterDone, FilterMoves, backendVars
  <1>8. CASE RasterToSplDone
    BY <1>8 DEF RasterToSplDone, backendVars
  <1>9. CASE SubfilterFails
    BY <1>9 DEF SubfilterFails, FilterMoves, backendVars
  <1>10. CASE Guard
    BY <1>10 DEF Guard, FilterMoves, backendVars
  <1>11. CASE Copy
    BY <1>11 DEF Copy, backendVars
  <1>12. CASE BrokenPipe
    BY <1>12 DEF BrokenPipe, FilterMoves, backendVars
  <1>13. CASE CopyFails
    BY <1>13 DEF CopyFails, FilterMoves, backendVars
  <1>14. CASE CopyDone
    BY <1>14 DEF CopyDone, FilterMoves, backendVars
  <1>15. CASE Account
    BY <1>15 DEF Account, backendVars
  <1>35. CASE Finish
    BY <1>35 DEF Finish, FilterMoves, backendVars
  <1>16. CASE ReportFailure
    BY <1>16 DEF ReportFailure, Report, backendVars
  <1>17. CASE FilterDies
    BY <1>17 DEF FilterDies, backendVars
  <1>18. CASE Stage
    BY <1>18 DEF Stage, filterVars
  <1>19. CASE StageDone
    BY <1>19 DEF StageDone, BackendMoves, filterVars
  <1>20. CASE CheckFails
    BY <1>20 DEF CheckFails, BackendMoves, filterVars
  <1>21. CASE RejectEmpty
    BY <1>21 DEF RejectEmpty, BackendMoves, filterVars
  <1>22. CASE StartTransfer
    BY <1>22 DEF StartTransfer, BackendMoves, filterVars
  <1>23. CASE Send
    BY <1>23 DEF Send, filterVars
  <1>24. CASE TransferEnds
    BY <1>24 DEF TransferEnds, BackendMoves, filterVars
  <1>25. CASE TransferExpires
    BY <1>25 DEF TransferExpires, BackendMoves, filterVars
  <1>26. CASE TransferKilled
    BY <1>26 DEF TransferKilled, BackendMoves, filterVars
  <1>27. CASE deauthorize_target_usb
    BY <1>27 DEF deauthorize_target_usb, filterVars
  <1>28. CASE DeviceWedges
    BY <1>28 DEF DeviceWedges, filterVars
  <1>29. CASE DeviceRecovers
    BY <1>29 DEF DeviceRecovers, filterVars
  <1>30. CASE Cancel
    BY <1>30 DEF Cancel, backendVars
  <1>31. CASE TerminateBackend
    BY <1>31 DEF TerminateBackend, Terminated, filterVars
  <1>32. CASE Kill
    BY <1>32 DEF Kill, filterVars
  <1>33. CASE Tick
    BY <1>33 DEF Tick, filterVars, backendVars
  <1>34. CASE UNCHANGED pathVars
    BY <1>34 DEF pathVars, filterVars, backendVars
  <1>. QED
    BY <1>1, <1>2, <1>3, <1>4, <1>5, <1>6, <1>7, <1>8, <1>9, <1>10, <1>11,
       <1>12, <1>13, <1>14, <1>15, <1>16, <1>17, <1>18, <1>19, <1>20, <1>21, <1>22,
       <1>23, <1>24, <1>25, <1>26, <1>27, <1>28, <1>29, <1>30, <1>31, <1>32, <1>33,
       <1>34, <1>35
    DEF Next, FilterStep, WrapperStep, BackendStep

LEMMA Invariance == Spec => []IInv
  <1>1. IInv /\ [Next]_pathVars => IInv'
    BY StepFlow, StepPlaces, StepTimers, StepFilter, StepReasons, StepBackend
    DEF IInv, TypeOK
  <1>. QED
    BY InitInv, <1>1, PTL DEF Spec

-----------------------------------------------------------------------------
(* Theorems *)

\* The type invariant, with the order of what is written, staged and sent.
THEOREM TypeCorrect == Spec => []TypeOK
  BY Invariance, PTL DEF IInv

\* The device only takes data that passed every check of the filter, whatever is
\* killed or cancelled on the way (renderPipeline, ipp-orch-usb).
THEOREM OnlyPrintableIsEverSent == Spec => []OnlyPrintableIsSent
  <1>1. IInv => OnlyPrintableIsSent
    <2>. SUFFICES ASSUME IInv, sent > 0 PROVE Printable(document, spl)
      BY DEF OnlyPrintableIsSent
    <2>1. written > 0
      BY DEF IInv, TypeOK, FlowTyped
    <2>2. Accepted
      BY <2>1 DEF IInv, FilterInv
    <2>. QED BY <2>2, AcceptedIsPrintable DEF IInv
  <1>. QED BY Invariance, <1>1, PTL

\* Accounting is released for complete copies only, and the backend never sends
\* a part of an accounted output as if it were all (renderPipeline).
THEOREM AccountingIsAlwaysEarned == Spec => []AccountingIsEarned
  <1>1. IInv => AccountingIsEarned
    <2>. SUFFICES ASSUME IInv, accounting # NoLines
                  PROVE  /\ Printable(document, spl) /\ written = spl.bytes
                         /\ backend \in Transferring \cup {"ok"} => staged = spl.bytes
      BY DEF AccountingIsEarned
    <2>1. Accepted /\ written = spl.bytes
      BY DEF IInv, FilterInv
    <2>. QED BY <2>1, AcceptedIsPrintable DEF IInv, BackendInv
  <1>. QED BY Invariance, <1>1, PTL

\* A job with a rejection reason left no trace on the printer (reportFailure,
\* clearTransientCupsStateReasons).
THEOREM RejectionsLeaveNoTrace == Spec => []RejectionLeavesNoTrace
  BY Invariance, PTL DEF IInv, ReasonsInv

\* What is accounted for has the page log that was counted.
LEMMA AccountingKeepsPages ==
  ASSUME NEW stderr \in Stderr
  PROVE  countCupsPageLogEntries(extractCupsJobAccounting(stderr)) = countCupsPageLogEntries(stderr)
  BY DEF Stderr, LineKinds, countCupsPageLogEntries, extractCupsJobAccounting

LEMMA OutputTyped ==
  ASSUME FlowTyped PROVE spl.bytes \in Nat /\ spl.stderr \in Stderr
  BY PathAssumption DEF FlowTyped, NoOutput, DriverOutput, NoLines, Stderr

\* A job whose processes both end with 0 is on paper, all of it, and in the page log
\* of cupsd: an exit code of the filter says nothing of the device, and one of the
\* wrapper nothing of the pages (main, ipp-orch-usb).
THEOREM SuccessAlwaysMeansPrinted == Spec => []SuccessMeansPrinted
  <1>1. IInv => SuccessMeansPrinted
    <2>. SUFFICES ASSUME IInv, filter = "ok", backend = "ok"
                  PROVE  /\ sent = spl.bytes /\ sent > 0
                         /\ countCupsPageLogEntries(accounting) = document.pdfinfo.pages
      BY DEF SuccessMeansPrinted
    <2>1. sent = staged /\ staged > 0 /\ staged = written /\ written = spl.bytes
      BY DEF IInv, BackendInv, FilterInv
    <2>2. accounting = extractCupsJobAccounting(spl.stderr)
      BY DEF IInv, FilterInv
    <2>3. Printable(document, spl)
      BY <2>1, AcceptedIsPrintable DEF IInv, FilterInv
    <2>. QED
      BY <2>1, <2>2, <2>3, OutputTyped, AccountingKeepsPages DEF IInv, TypeOK, Printable
  <1>. QED BY Invariance, <1>1, PTL

-----------------------------------------------------------------------------
(* The promises of PrintJob *)

\* The guards are the same in PrintJob.
LEMMA SameGuards ==
  /\ Job!NoLines = NoLines /\ Job!NoOutput = NoOutput
  /\ \A doc, output : Printable(doc, output) => Job!Printable(doc, output)
  /\ \A stderr : Job!extractCupsJobAccounting(stderr) = extractCupsJobAccounting(stderr)
  <1>1. Job!NoLines = NoLines
    BY DEF Job!NoLines, NoLines, Job!LineKinds, LineKinds
  <1>2. Job!NoOutput = NoOutput
    BY <1>1 DEF Job!NoOutput, NoOutput, Job!DriverOutput, DriverOutput
  <1>3. ASSUME NEW doc, NEW output, Printable(doc, output) PROVE Job!Printable(doc, output)
    BY <1>3 DEF Printable, Job!Printable, countCupsPageLogEntries, Job!countCupsPageLogEntries
  <1>4. \A stderr : Job!extractCupsJobAccounting(stderr) = extractCupsJobAccounting(stderr)
    BY DEF Job!extractCupsJobAccounting, extractCupsJobAccounting
  <1>. QED BY <1>1, <1>2, <1>3, <1>4

LEMMA InitImplements == Init => Job!Init
  BY SameGuards DEF Init, Job!Init, JobState

\* What is accepted is not the output of nothing.
LEMMA AcceptedIsOutput ==
  ASSUME IInv, Accepted
  PROVE  Printable(document, spl) /\ spl \in DriverOutputs /\ spl # NoOutput
  <1>1. Printable(document, spl) /\ spl.bytes > 0
    BY AcceptedIsPrintable DEF IInv
  <1>. QED BY <1>1 DEF IInv, TypeOK, FlowTyped, NoOutput, DriverOutput

\* While the filter runs the job is filtered, whatever became of the backend.
LEMMA FilteringState ==
  ASSUME PlacesTyped, BackendInv, filter \notin Exited PROVE JobState = "filtering"
  BY DEF PlacesTyped, BackendInv, JobState, JobRuns, Exited

LEMMA FilteringStateNext ==
  ASSUME PlacesTyped', BackendInv', filter' \notin Exited PROVE JobState' = "filtering"
  BY DEF PlacesTyped, BackendInv, JobState, JobRuns, Exited

\* A step that lets nothing through, accounts for nothing and sends nothing is one
\* that PrintJob does not see, or the end of a job that failed.
QuietStep ==
  /\ UNCHANGED <<document, accounting, sent>>
  /\ UNCHANGED written
  /\ written = 0 \/ UNCHANGED spl
  /\ \/ JobState' = JobState /\ (JobState = "sending" => UNCHANGED staged)
     \/ JobState \in {"filtering", "sending"} /\ JobState' = "failed"

LEMMA QuietImplements ==
  ASSUME TypeOK, QuietStep PROVE [Job!Next]_Job!jobVars
  <1>1. UNCHANGED (IF written > 0 THEN spl ELSE NoOutput)
    BY DEF TypeOK, FlowTyped, QuietStep
  <1>2. CASE JobState' = JobState /\ (JobState = "sending" => UNCHANGED staged)
    BY <1>1, <1>2 DEF QuietStep, Job!jobVars
  <1>3. CASE JobState \in {"filtering", "sending"} /\ JobState' = "failed"
    BY <1>1, <1>3 DEF QuietStep, Job!Next, Job!Fail
  <1>. QED BY <1>2, <1>3 DEF QuietStep

\* The filter, while it runs.
LEMMA FilterImplements ==
  ASSUME IInv, IInv', filter \notin Exited, filter' \notin Exited,
         UNCHANGED <<document, written, accounting, sent>>, written = 0 \/ UNCHANGED spl
  PROVE  [Job!Next]_Job!jobVars
  <1>1. JobState = "filtering" /\ JobState' = "filtering"
    BY FilteringState, FilteringStateNext DEF IInv, TypeOK
  <1>. QED BY <1>1, QuietImplements DEF IInv, QuietStep

\* The filter ends: the job goes on, or has failed, if the backend has ended before.
LEMMA FilterEnds ==
  ASSUME IInv, IInv', filter \notin Exited, filter' \in {"ok", "failed", "killed"},
         UNCHANGED <<document, spl, written, accounting, backend, sent>>
  PROVE  [Job!Next]_Job!jobVars
  <1>1. JobState = "filtering"
    BY FilteringState DEF IInv, TypeOK
  <1>2. backend # "ok" /\ backend \notin Transferring \cup {"deauthorize"}
    BY DEF IInv, BackendInv
  <1>3. JobState' \in {"filtering", "failed"}
    BY <1>2 DEF JobState
  <1>. QED BY <1>1, <1>3, QuietImplements DEF IInv, QuietStep

\* The backend moves on or ends without a transfer.
LEMMA BackendMovesOn ==
  ASSUME IInv, backend \in {"stage", "check"}, backend' \in {"stage", "check", "failed", "killed"},
         UNCHANGED <<document, filter, spl, written, accounting, sent>>
  PROVE  [Job!Next]_Job!jobVars
  <1>1. filter # "idle"
    BY DEF IInv, BackendInv
  <1>2. JobState = "filtering" /\ JobState' \in {"filtering", "failed"}
    BY <1>1 DEF JobState, JobRuns, Exited, Transferring
  <1>. QED BY <1>2, QuietImplements DEF IInv, QuietStep

\* The transfer goes on, or the device is being detached.
LEMMA TransferGoesOn ==
  ASSUME IInv, backend \in Transferring \cup {"deauthorize"},
         backend' \in Transferring \cup {"deauthorize"},
         UNCHANGED <<document, filter, spl, written, accounting, staged, sent>>
  PROVE  [Job!Next]_Job!jobVars
  <1>1. filter # "idle"
    BY DEF IInv, BackendInv, Transferring
  <1>2. JobState = "sending" /\ JobState' = "sending"
    BY <1>1 DEF JobState, JobRuns, Exited, Transferring
  <1>. QED BY <1>2, QuietImplements DEF IInv, QuietStep

\* The transfer has failed.
LEMMA TransferFails ==
  ASSUME IInv, backend \in Transferring \cup {"deauthorize"}, backend' \in {"failed", "killed"},
         UNCHANGED <<document, filter, spl, written, accounting, sent>>
  PROVE  [Job!Next]_Job!jobVars
  <1>1. filter # "idle" /\ filter \in Exited
    BY DEF IInv, BackendInv, Transferring
  <1>2. JobState = "sending" /\ JobState' = "failed"
    BY <1>1 DEF JobState, JobRuns, Exited, Transferring
  <1>. QED BY <1>2, QuietImplements DEF IInv, QuietStep

\* The backend is through: the job is printed if it is accounted for, which is so
\* when the filter has ended with 0.
LEMMA TransferSucceeds ==
  ASSUME IInv, IInv', backend \in {"send", "stopping"}, backend' = "ok", sent = staged,
         UNCHANGED <<document, filter, spl, written, accounting, staged, sent>>
  PROVE  [Job!Next]_Job!jobVars
  <1>1. filter # "idle" /\ filter \in Exited /\ staged = written /\ staged > 0
    BY DEF IInv, BackendInv, Transferring
  <1>2. JobState = "sending"
    BY <1>1 DEF JobState, JobRuns, Exited, Transferring
  <1>3. CASE filter = "ok"
    <2>1. JobState' = "printed"
      BY <1>3 DEF JobState
    <2>2. written = spl.bytes /\ accounting = extractCupsJobAccounting(spl.stderr)
      BY <1>3 DEF IInv, FilterInv
    <2>3. accounting # NoLines
      <3>1. Printable(document, spl)
        BY <1>1, AcceptedIsOutput DEF IInv, FilterInv, TypeOK, FlowTyped
      <3>2. accounting["page"] # 0 /\ NoLines["page"] = 0
        BY <2>2, <3>1, OutputTyped, AccountingKeepsPages
        DEF IInv, TypeOK, Printable, countCupsPageLogEntries, NoLines, LineKinds
      <3>. QED BY <3>2
    <2>4. Job!Succeed
      BY <1>1, <1>2, <2>1, <2>2, <2>3, SameGuards DEF Job!Succeed, IInv, TypeOK, FlowTyped
    <2>. QED BY <2>4 DEF Job!Next
  <1>4. CASE filter # "ok"
    <2>1. JobState' = "failed"
      BY <1>1, <1>4 DEF JobState, JobRuns, Exited
    <2>. QED BY <1>2, <2>1, QuietImplements DEF IInv, QuietStep
  <1>. QED BY <1>3, <1>4

LEMMA StartImplements ==
  ASSUME IInv, StartJob PROVE Job!Next
  <1>1. JobState \in {"idle", "printed", "failed"} /\ JobState' = "filtering"
    BY DEF StartJob, JobState, JobRuns, Exited, Transferring
  <1>2. document' \in Documents /\ written' = 0 /\ accounting' = NoLines /\ sent' = 0
    BY DEF StartJob
  <1>3. Job!Start
    BY <1>1, <1>2, SameGuards DEF Job!Start
  <1>. QED BY <1>3 DEF Job!Next

\* The first unit in the pipe lets the output through.
LEMMA CopyImplements ==
  ASSUME IInv, IInv', Copy PROVE [Job!Next]_Job!jobVars
  <1>1. /\ filter = "copy" /\ written' = written + 1
        /\ UNCHANGED <<document, filter, spl, accounting, backend, staged, sent>>
    BY DEF Copy, backendVars
  <1>2. JobState = "filtering" /\ JobState' = "filtering"
    BY <1>1, FilteringState, FilteringStateNext DEF IInv, TypeOK, Exited
  <1>3. written \in Nat /\ written' > 0
    BY <1>1 DEF IInv, TypeOK, FlowTyped
  <1>4. CASE written = 0
    <2>1. spl \in DriverOutputs /\ Job!Printable(document, spl)
      BY <1>1, AcceptedIsOutput, SameGuards DEF IInv, FilterInv
    <2>2. Job!Release
      BY <1>1, <1>2, <1>3, <1>4, <2>1, SameGuards DEF Job!Release
    <2>. QED BY <2>2 DEF Job!Next
  <1>5. CASE written > 0
    BY <1>1, <1>2, <1>3, <1>5 DEF Job!jobVars
  <1>. QED BY <1>3, <1>4, <1>5

LEMMA AccountImplements ==
  ASSUME IInv, IInv', Account PROVE [Job!Next]_Job!jobVars
  <1>1. /\ filter = "account" /\ filter' = "accounted"
        /\ accounting' = extractCupsJobAccounting(spl.stderr)
        /\ UNCHANGED <<document, spl, written, staged, sent>>
    BY DEF Account, backendVars
  <1>2. JobState = "filtering" /\ JobState' = "filtering"
    BY <1>1, FilteringState, FilteringStateNext DEF IInv, TypeOK, Exited
  <1>3. written > 0 /\ accounting = NoLines
    BY <1>1, AcceptedIsPrintable DEF IInv, FilterInv
  <1>4. spl # NoOutput
    BY <1>3, AcceptedIsOutput DEF IInv, FilterInv
  <1>5. Job!Account
    BY <1>1, <1>2, <1>3, <1>4, SameGuards DEF Job!Account
  <1>. QED BY <1>5 DEF Job!Next

\* What the wrapper hands to the real backend is settled, and whole if accounted for.
LEMMA TransferImplements ==
  ASSUME IInv, StartTransfer PROVE [Job!Next]_Job!jobVars
  <1>1. /\ backend = "check" /\ backend' = "send" /\ staged > 0
        /\ UNCHANGED <<document, filter, spl, written, accounting, staged, sent>>
    BY DEF StartTransfer, BackendMoves, filterVars
  <1>2. filter # "idle" /\ staged = written
    BY <1>1 DEF IInv, BackendInv
  <1>3. JobState = "filtering" /\ JobState' = "sending"
    BY <1>1, <1>2 DEF JobState, JobRuns, Exited, Transferring
  <1>4. staged \in 1..spl.bytes /\ written > 0
    BY <1>1, <1>2, OutputTyped DEF IInv, TypeOK, FlowTyped
  <1>5. accounting # NoLines => staged = spl.bytes
    BY <1>2 DEF IInv, FilterInv
  <1>6. spl # NoOutput
    BY <1>4, AcceptedIsOutput DEF IInv, FilterInv
  <1>7. Job!Transfer
    BY <1>1, <1>3, <1>4, <1>5, <1>6, SameGuards DEF Job!Transfer
  <1>. QED BY <1>7 DEF Job!Next

LEMMA SendImplements ==
  ASSUME IInv, Send PROVE Job!Next
  <1>1. /\ backend \in Transferring /\ sent < staged /\ sent' = sent + 1
        /\ UNCHANGED <<document, filter, spl, written, accounting, backend, staged>>
    BY DEF Send, filterVars
  <1>2. filter # "idle"
    BY <1>1 DEF IInv, BackendInv, Transferring
  <1>3. JobState = "sending" /\ JobState' = "sending"
    BY <1>1, <1>2 DEF JobState, JobRuns, Exited, Transferring
  <1>4. Job!Deliver
    BY <1>1, <1>3 DEF Job!Deliver
  <1>. QED BY <1>4 DEF Job!Next

\* Every step of the processes, of cupsd and of the device keeps the promises.
LEMMA StepImplements ==
  ASSUME IInv, IInv', [Next]_pathVars PROVE [Job!Next]_Job!jobVars
  <1>. USE DEF Exited, Transferring
  <1>1. CASE StartJob
    BY <1>1, StartImplements
  <1>2. CASE ClearReasons
    BY <1>2, FilterImplements DEF ClearReasons, backendVars
  <1>3. CASE Allocate
    BY <1>3, FilterImplements DEF Allocate, FilterMoves, backendVars
  <1>4. CASE Preflight
    BY <1>4, FilterImplements DEF Preflight, FilterMoves, backendVars
  <1>5. CASE CheckCopies
    BY <1>5, FilterImplements DEF CheckCopies, FilterMoves, backendVars
  <1>6. CASE StartSubfilter
    BY <1>6, FilterImplements DEF StartSubfilter, FilterMoves, backendVars
  <1>7. CASE SubfilterDone
    BY <1>7, FilterImplements DEF SubfilterDone, FilterMoves, backendVars
  <1>8. CASE RasterToSplDone
    <2>1. written = 0
      BY <1>8 DEF RasterToSplDone, IInv, FilterInv, BeforeCopy
    <2>. QED BY <1>8, <2>1, FilterImplements DEF RasterToSplDone, backendVars
  <1>9. CASE SubfilterFails
    BY <1>9, FilterImplements DEF SubfilterFails, FilterMoves, backendVars
  <1>10. CASE Guard
    BY <1>10, FilterImplements DEF Guard, FilterMoves, backendVars
  <1>11. CASE Copy
    BY <1>11, CopyImplements
  <1>12. CASE BrokenPipe
    BY <1>12, FilterImplements DEF BrokenPipe, FilterMoves, backendVars
  <1>13. CASE CopyFails
    BY <1>13, FilterImplements DEF CopyFails, FilterMoves, backendVars
  <1>14. CASE CopyDone
    BY <1>14, FilterImplements DEF CopyDone, FilterMoves, backendVars
  <1>15. CASE Account
    BY <1>15, AccountImplements
  <1>16. CASE Finish
    BY <1>16, FilterEnds DEF Finish, FilterMoves, backendVars
  <1>17. CASE ReportFailure
    BY <1>17, FilterEnds DEF ReportFailure, Report, backendVars
  <1>18. CASE FilterDies
    BY <1>18, FilterEnds DEF FilterDies, backendVars
  <1>19. CASE Stage
    BY <1>19, BackendMovesOn DEF Stage, filterVars
  <1>20. CASE StageDone
    BY <1>20, BackendMovesOn DEF StageDone, BackendMoves, filterVars
  <1>21. CASE CheckFails
    BY <1>21, BackendMovesOn DEF CheckFails, BackendMoves, filterVars
  <1>22. CASE RejectEmpty
    BY <1>22, BackendMovesOn DEF RejectEmpty, BackendMoves, filterVars
  <1>23. CASE StartTransfer
    BY <1>23, TransferImplements
  <1>24. CASE Send
    BY <1>24, SendImplements
  <1>25. CASE TransferEnds
    BY <1>25, TransferSucceeds, TransferFails, TransferGoesOn
    DEF TransferEnds, BackendMoves, filterVars
  <1>26. CASE TransferExpires
    BY <1>26, TransferGoesOn DEF TransferExpires, BackendMoves, filterVars
  <1>27. CASE TransferKilled
    BY <1>27, TransferGoesOn DEF TransferKilled, BackendMoves, filterVars
  <1>28. CASE deauthorize_target_usb
    BY <1>28, TransferFails DEF deauthorize_target_usb, filterVars
  <1>29. CASE DeviceWedges \/ DeviceRecovers \/ Tick \/ UNCHANGED pathVars
    <2>1. UNCHANGED <<filterVars, backend, staged, sent>>
      BY <1>29 DEF DeviceWedges, DeviceRecovers, Tick, pathVars, backendVars
    <2>. QED BY <2>1 DEF Job!jobVars, JobState, JobRuns, filterVars
  <1>30. CASE Cancel
    <2>1. CASE filter \in Exited
      BY <1>30, <2>1 DEF Cancel, backendVars, Job!jobVars, JobState, JobRuns
    <2>2. CASE filter \notin Exited
      BY <1>30, <2>2, FilterEnds DEF Cancel, backendVars
    <2>. QED BY <2>1, <2>2
  <1>31. CASE TerminateBackend
    <2>1. UNCHANGED <<document, filter, spl, written, accounting, staged, sent>>
          /\ backend' \in Terminated(backend)
      BY <1>31 DEF TerminateBackend, filterVars
    <2>2. CASE backend \in {"stage", "check"}
      BY <2>1, <2>2, BackendMovesOn DEF Terminated
    <2>3. CASE backend \in Transferring \cup {"deauthorize"}
      BY <2>1, <2>3, TransferGoesOn, TransferFails DEF Terminated
    <2>4. CASE backend \in Exited
      BY <2>1, <2>4 DEF Terminated, Job!jobVars, JobState, JobRuns
    <2>. QED BY <2>2, <2>3, <2>4 DEF IInv, TypeOK, PlacesTyped, BackendPositions
  <1>32. CASE Kill
    <2>1. UNCHANGED <<document, filter, spl, written, accounting, staged, sent>>
          /\ backend' = IF backend \in Exited THEN backend ELSE "killed"
      BY <1>32 DEF Kill, filterVars
    <2>2. CASE backend \in {"stage", "check"}
      BY <2>1, <2>2, BackendMovesOn
    <2>3. CASE backend \in Transferring \cup {"deauthorize"}
      BY <2>1, <2>3, TransferFails
    <2>4. CASE backend \in Exited
      BY <2>1, <2>4 DEF Job!jobVars, JobState, JobRuns
    <2>. QED BY <2>2, <2>3, <2>4 DEF IInv, TypeOK, PlacesTyped, BackendPositions
  <1>. QED
    BY <1>1, <1>2, <1>3, <1>4, <1>5, <1>6, <1>7, <1>8, <1>9, <1>10, <1>11, <1>12,
       <1>13, <1>14, <1>15, <1>16, <1>17, <1>18, <1>19, <1>20, <1>21, <1>22, <1>23, <1>24,
       <1>25, <1>26, <1>27, <1>28, <1>29, <1>30, <1>31, <1>32
    DEF Next, FilterStep, WrapperStep, BackendStep

\* The filter and the wrapper together implement PrintJob, whatever is cancelled or
\* killed: the output is chosen once, what is sent of it is settled before the
\* transfer and whole if accounted for, and success means all of it (renderPipeline,
\* ipp-orch-usb).
THEOREM PathImplementsPrintJob == Spec => ImplementsPrintJob
  <1>1. IInv /\ IInv' /\ [Next]_pathVars => [Job!Next]_Job!jobVars
    BY StepImplements
  <1>. QED BY InitImplements, <1>1, Invariance, PTL DEF Spec, ImplementsPrintJob, Job!Spec

-----------------------------------------------------------------------------
(* A device that is stuck *)

\* What moves the filter or the backend on, or makes time pass, but for the last
\* signal of cupsd and its timer.
LEMMA TimersOfTheJob ==
  ASSUME TimersTyped,
         FilterStep \/ SubfilterDone \/ RasterToSplDone \/ SubfilterFails \/ CopyFails
           \/ FilterDies \/ WrapperStep \/ CheckFails \/ Send \/ TransferEnds
           \/ DeviceWedges \/ DeviceRecovers
  PROVE  cupsd' = cupsd /\ timers'["kill"] = timers["kill"] /\ timers'["job"] = timers["job"]
  <1>. USE DEF TimersTyped, Timers
  <1>1. CASE FilterStep
    BY <1>1 DEF FilterStep, ClearReasons, Allocate, Preflight, CheckCopies, StartSubfilter,
       Guard, Copy, BrokenPipe, CopyDone, Account, Finish, ReportFailure, Report, FilterMoves
  <1>2. CASE SubfilterDone \/ RasterToSplDone \/ SubfilterFails \/ CopyFails \/ FilterDies
    BY <1>2 DEF SubfilterDone, RasterToSplDone, SubfilterFails, CopyFails, FilterDies, FilterMoves
  <1>3. CASE WrapperStep
    BY <1>3 DEF WrapperStep, BackendStep, Stage, StageDone, RejectEmpty, StartTransfer,
       TransferExpires, TransferKilled, deauthorize_target_usb, BackendMoves
  <1>4. CASE CheckFails \/ Send \/ TransferEnds
    BY <1>4 DEF CheckFails, Send, TransferEnds, BackendMoves
  <1>5. CASE DeviceWedges \/ DeviceRecovers
    BY <1>5 DEF DeviceWedges, DeviceRecovers
  <1>. QED BY <1>1, <1>2, <1>3, <1>4, <1>5

\* SIGKILL comes only after SIGTERM.
KillArmed == timers["kill"] # Off => cupsd = "kill"

LEMMA StepKill ==
  ASSUME IInv, KillArmed, [Next]_pathVars PROVE KillArmed'
  <1>. USE DEF KillArmed, IInv, TypeOK, TimersTyped, Timers
  <1>1. CASE StartJob
    BY <1>1 DEF StartJob
  <1>2. CASE Cancel
    BY <1>2, PathAssumption DEF Cancel, Off
  <1>3. CASE TerminateBackend
    BY <1>3 DEF TerminateBackend
  <1>4. CASE Kill
    BY <1>4 DEF Kill
  <1>5. CASE Tick
    BY <1>5 DEF Tick, Off
  <1>6. CASE UNCHANGED pathVars
    BY <1>6 DEF pathVars
  <1>. QED BY <1>1, <1>2, <1>3, <1>4, <1>5, <1>6, TimersOfTheJob DEF Next

LEMMA KillFollows == Spec => [](IInv /\ KillArmed)
  <1>1. Init => KillArmed
    BY DEF Init, KillArmed, Timers
  <1>2. IInv /\ KillArmed /\ [Next]_pathVars => KillArmed'
    BY StepKill
  <1>. QED BY <1>1, <1>2, Invariance, PTL DEF Spec

\* A transfer to a stuck device ends with the device detached, whatever the timers
\* are, unless cupsd has begun to terminate the job (ipp-orch-usb, timeout(1)).
THEOREM StuckTransfersDetach == Spec => StuckTransferDetaches
  <1>1. ASSUME IInv, KillArmed, [Next]_pathVars,
               device = "wedged", backend \in Transferring \cup {"deauthorize"},
               backend' \in Exited
        PROVE  device' = "deauthorized" \/ cupsd # "running"
    <2>. USE <1>1 DEF Transferring, Exited
    <2>1. CASE StartJob \/ Cancel \/ Tick \/ UNCHANGED pathVars
      BY <2>1 DEF StartJob, JobRuns, Cancel, Tick, pathVars, backendVars
    <2>2. CASE \/ FilterStep \/ SubfilterDone \/ RasterToSplDone \/ SubfilterFails
               \/ CopyFails \/ FilterDies
      BY <2>2 DEF FilterStep, ClearReasons, Allocate, Preflight, CheckCopies, StartSubfilter,
         Guard, Copy, BrokenPipe, CopyDone, Account, Finish, ReportFailure, Report, FilterMoves,
         SubfilterDone, RasterToSplDone, SubfilterFails, CopyFails, FilterDies, backendVars
    <2>3. CASE WrapperStep
      BY <2>3 DEF WrapperStep, BackendStep, Stage, StageDone, RejectEmpty, StartTransfer,
         TransferExpires, TransferKilled, deauthorize_target_usb, BackendMoves
    <2>4. CASE CheckFails \/ Send \/ TransferEnds \/ DeviceWedges \/ DeviceRecovers
      BY <2>4 DEF CheckFails, Send, TransferEnds, DeviceWedges, DeviceRecovers, BackendMoves
    <2>5. CASE TerminateBackend
      BY <2>5 DEF TerminateBackend
    <2>6. CASE Kill
      BY <2>6 DEF Kill, KillArmed, Off
    <2>. QED BY <2>1, <2>2, <2>3, <2>4, <2>5, <2>6 DEF Next
  <1>2. IInv /\ KillArmed /\ [Next]_pathVars
          => [device = "wedged" /\ backend \in Transferring \cup {"deauthorize"}
                /\ backend' \in Exited
              => device' = "deauthorized" \/ cupsd # "running"]_pathVars
    BY <1>1
  <1>. QED BY <1>2, KillFollows, PTL DEF Spec, StuckTransferDetaches

\* Where nothing limits or cancels a job cupsd stays out of it, and a stuck device
\* is in the hands of the wrapper.
Undisturbed ==
  /\ cupsd = "running" /\ timers["job"] = Off /\ timers["kill"] = Off
  /\ device = "wedged" => backend \in Transferring \cup {"deauthorize"}

LEMMA StepUndisturbed ==
  ASSUME MaxJobTime = NoLimit, ~UsersCancel, IInv, Undisturbed, [Next]_pathVars
  PROVE  Undisturbed'
  <1>. USE DEF Undisturbed, Transferring
  <1>1. CASE StartJob
    BY <1>1 DEF StartJob, JobRuns, Exited, Timers, Off, NoLimit
  <1>2. CASE Cancel \/ TerminateBackend \/ Kill
    BY <1>2 DEF Cancel, TerminateBackend, Kill, Off
  <1>3. CASE Tick
    BY <1>3 DEF Tick, Timers, Off, backendVars
  <1>4. CASE UNCHANGED pathVars
    BY <1>4 DEF pathVars, backendVars
  <1>5. CASE \/ FilterStep \/ SubfilterDone \/ RasterToSplDone \/ SubfilterFails \/ CopyFails
             \/ FilterDies
    <2>1. UNCHANGED <<backend, device>>
      BY <1>5 DEF FilterStep, ClearReasons, Allocate, Preflight, CheckCopies, StartSubfilter,
         Guard, Copy, BrokenPipe, CopyDone, Account, Finish, ReportFailure, Report, FilterMoves,
         SubfilterDone, RasterToSplDone, SubfilterFails, CopyFails, FilterDies, backendVars
    <2>. QED BY <1>5, <2>1, TimersOfTheJob DEF IInv, TypeOK
  <1>6. CASE \/ WrapperStep \/ CheckFails \/ Send \/ TransferEnds \/ DeviceWedges
             \/ DeviceRecovers
    <2>1. device' = "wedged" => backend' \in Transferring \cup {"deauthorize"}
      BY <1>6 DEF WrapperStep, BackendStep, Stage, StageDone, RejectEmpty, StartTransfer,
         TransferExpires, TransferKilled, deauthorize_target_usb, BackendMoves, CheckFails,
         Send, TransferEnds, DeviceWedges, DeviceRecovers
    <2>. QED BY <1>6, <2>1, TimersOfTheJob DEF IInv, TypeOK
  <1>. QED BY <1>1, <1>2, <1>3, <1>4, <1>5, <1>6 DEF Next

\* docs/adr-0001 is right of jobs without a limit: none of them leaves a stuck
\* device attached, whatever the other timers are (ipp-orch-usb).
THEOREM WedgesAlwaysDetach ==
  ASSUME MaxJobTime = NoLimit, ~UsersCancel PROVE Spec => []WedgeDetaches
  <1>1. Init => Undisturbed
    BY DEF Init, Undisturbed, Timers
  <1>2. IInv /\ Undisturbed /\ [Next]_pathVars => Undisturbed'
    BY StepUndisturbed
  <1>3. Undisturbed => WedgeDetaches
    BY DEF Undisturbed, WedgeDetaches, JobRuns, Transferring, Exited
  <1>. QED BY <1>1, <1>2, <1>3, Invariance, PTL DEF Spec
=============================================================================
