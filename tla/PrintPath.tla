------------------------------ MODULE PrintPath ------------------------------
(***************************************************************************)
(* The way of a job to the printer: the filter process                     *)
(* (cli/cups-pdf-preflight-filter.ts), the supervised backend process      *)
(* (scripts/cups/backend/ipp-orch-usb) that runs at the same time at the   *)
(* other end of its pipe, and cupsd, which starts both, cancels a job on   *)
(* demand or after MaxJobTime, and kills what is left after JobKillDelay.  *)
(* cupsd, timeout(1), the real USB backend and the device are external and *)
(* modelled by what the code relies on: a signal goes to the process group *)
(* of a process, the real backend ignores SIGTERM while it reads stdin, so *)
(* only a SIGKILL ends a transfer that is stuck.                           *)
(*                                                                         *)
(* Printer data is counted in units.  Time is counted in ticks, and no     *)
(* tick passes while a timer that has run out waits to be served.          *)
(***************************************************************************)
EXTENDS PrintGuards

CONSTANTS
  Documents,          \* what a job may bring: its pdfinfo and its copies
  DriverOutputs,      \* what the final driver may make of it
  PipeCapacity,       \* units the pipe between the processes holds
  SubfilterTimeout,   \* cupsSubfilterTimeoutMs
  BackendTimeout,     \* TIMEOUT_SECONDS of the wrapper
  KillAfter,          \* --kill-after of timeout(1)
  MaxJobTime,         \* of cupsd; NoLimit when there is none
  JobKillDelay,       \* of cupsd
  UsersCancel         \* may a job be cancelled?

NoLimit == -1

ASSUME PathAssumption ==
  /\ {PipeCapacity, SubfilterTimeout, BackendTimeout, KillAfter, JobKillDelay,
      MaxBytesPerPage, MaxTotalBytes} \subseteq Nat
  /\ MaxJobTime \in Nat \cup {NoLimit}
  /\ UsersCancel \in BOOLEAN
  /\ DriverOutputs \subseteq
       [bytes : Nat, stderr : Stderr, suppressed : BOOLEAN]
  /\ \A doc \in Documents : doc.pdfinfo.pages \in Int /\ doc.copies \in Int

VARIABLES
  document,     \* the document of the current job
  filter,       \* where the filter is, or how it ended
  spl,          \* the output of the final driver, once it ran
  written,      \* units the filter has written to its stdout
  accounting,   \* the accounting lines cupsd has got from the filter
  stateReasons, \* the printer-state-reasons the filter has set
  backend,      \* where the wrapper is, or how it ended
  staged,       \* units in the wrapper's payload file
  sent,         \* units of the current job the device has taken
  device,       \* "ready", "wedged" or "deauthorized"
  cupsd,        \* "running" the job, "terminating" it, or waiting to "kill" it
  timers        \* ticks left of the timers that run

filterVars == <<document, filter, spl, written, accounting, stateReasons>>
backendVars == <<backend, staged, sent, device>>
pathVars == <<filterVars, backendVars, cupsd, timers>>

Off == -1
Timers == {"subfilter", "backend", "job", "kill"}

Exited == {"idle", "ok", "failed", "killed"}
JobRuns == filter \notin Exited \/ backend \notin Exited

Init ==
  /\ document \in Documents
  /\ filter = "idle" /\ backend = "idle"
  /\ spl = NoOutput /\ written = 0 /\ accounting = NoLines /\ stateReasons = {}
  /\ staged = 0 /\ sent = 0
  /\ device = "ready"
  /\ cupsd = "running"
  /\ timers = [t \in Timers |-> Off]

\* Mutant of StartJob: the payload file of the last job is appended to.
StartJobOldPayload ==
  /\ ~ JobRuns
  /\ document' \in Documents
  /\ filter' = "start" /\ backend' = "stage"
  /\ spl' = NoOutput /\ written' = 0 /\ accounting' = NoLines
  /\ sent' = 0
  /\ cupsd' = "running"
  /\ timers' = [t \in Timers |-> IF t = "job" THEN MaxJobTime ELSE Off]
  /\ UNCHANGED <<stateReasons, device, staged>>

\* cupsd starts the two processes of the next job.
StartJob ==
  /\ ~ JobRuns
  /\ document' \in Documents
  /\ filter' = "start" /\ backend' = "stage"
  /\ spl' = NoOutput /\ written' = 0 /\ accounting' = NoLines
  /\ staged' = 0 /\ sent' = 0
  /\ cupsd' = "running"
  /\ timers' = [t \in Timers |-> IF t = "job" THEN MaxJobTime ELSE Off]
  /\ UNCHANGED <<stateReasons, device>>

-----------------------------------------------------------------------------
(* The filter *)

\* A step of the filter that only moves it on.
FilterMoves(from, to) ==
  /\ filter = from
  /\ filter' = to
  /\ UNCHANGED <<document, spl, written, accounting, stateReasons, backendVars,
                 cupsd>>

\* Mutant of ClearReasons: one of the reasons is not cleared.
ClearPreflightReason ==
  /\ filter = "start"
  /\ filter' = "allocate"
  /\ stateReasons' = stateReasons \ {"pdf-preflight-rejected"}
  /\ UNCHANGED <<document, spl, written, accounting, backendVars, cupsd, timers>>

\* clearTransientCupsStateReasons, after the arguments were accepted.
ClearReasons ==
  /\ filter = "start"
  /\ filter' = "allocate"
  /\ stateReasons' = {}
  /\ UNCHANGED <<document, spl, written, accounting, backendVars, cupsd, timers>>

\* withTempDir and prepareInputFile: space, directory, input; each may fail.
Allocate ==
  /\ \/ FilterMoves("allocate", "preflight")
     \/ FilterMoves("allocate", "commandFailed")
  /\ UNCHANGED timers

Preflight ==
  /\ FilterMoves("preflight", IF decidePdfPreflight(document.pdfinfo) = "accepted"
                              THEN "copies" ELSE "preflightRejected")
  /\ UNCHANGED timers

CheckCopies ==
  /\ FilterMoves("copies", IF decideCupsCopiesGuard(document.copies) = "accepted"
                           THEN "render" ELSE "guardRejected")
  /\ UNCHANGED timers

\* runCupsFilter, in turn for pdftopdf, gstoraster and rastertospl: the child
\* runs under spawnSync's timeout.
StartSubfilter ==
  /\ \/ FilterMoves("render", "pdftopdf")
     \/ FilterMoves("pdftopdf done", "gstoraster")
     \/ FilterMoves("gstoraster done", "rastertospl")
  /\ timers' = [timers EXCEPT !["subfilter"] = SubfilterTimeout]

SubfilterDone ==
  /\ \/ FilterMoves("pdftopdf", "pdftopdf done")
     \/ FilterMoves("gstoraster", "gstoraster done")
  /\ timers' = [timers EXCEPT !["subfilter"] = Off]

\* Mutant of RasterToSplDone: the driver's output goes out before it is guarded.
RasterToSplStreams ==
  /\ filter = "rastertospl"
  /\ spl' \in DriverOutputs
  /\ filter' = "copy"
  /\ timers' = [timers EXCEPT !["subfilter"] = Off]
  /\ UNCHANGED <<document, written, accounting, stateReasons, backendVars, cupsd>>

RasterToSplDone ==
  /\ filter = "rastertospl"
  /\ spl' \in DriverOutputs
  /\ filter' = "guard"
  /\ timers' = [timers EXCEPT !["subfilter"] = Off]
  /\ UNCHANGED <<document, written, accounting, stateReasons, backendVars, cupsd>>

\* The child fails, writes too much to stderr, or runs out of time.
SubfilterFails ==
  /\ \E child \in {"pdftopdf", "gstoraster", "rastertospl"} :
       FilterMoves(child, "commandFailed")
  /\ timers' = [timers EXCEPT !["subfilter"] = Off]

\* decideSplOutputGuard and validateSplBlankPageSuppression.
Guard ==
  /\ FilterMoves("guard",
       IF DriverOutputAccepted(document.pdfinfo.pages, document.copies, spl)
       THEN "copy" ELSE "guardRejected")
  /\ UNCHANGED timers

\* copyFileToStdout, unit by unit, as far as the pipe has room.
Copy ==
  /\ filter = "copy" /\ backend \notin Exited
  /\ written < spl.bytes /\ written - staged < PipeCapacity
  /\ written' = written + 1
  /\ UNCHANGED <<document, filter, spl, accounting, stateReasons, backendVars,
                 cupsd, timers>>

\* Nobody reads the pipe any more.
BrokenPipe ==
  /\ backend \in Exited /\ written < spl.bytes
  /\ FilterMoves("copy", "commandFailed")
  /\ UNCHANGED timers

\* The output cannot be read back.
CopyFails ==
  /\ FilterMoves("copy", "commandFailed")
  /\ UNCHANGED timers

\* Mutant of CopyDone: accounting does not wait for the copy.
CopyDoneEarly ==
  /\ FilterMoves("copy", "account")
  /\ UNCHANGED timers

CopyDone ==
  /\ written = spl.bytes
  /\ FilterMoves("copy", "account")
  /\ UNCHANGED timers

\* The accounting lines go to cupsd ...
Account ==
  /\ filter = "account"
  /\ accounting' = extractCupsJobAccounting(spl.stderr)
  /\ filter' = "accounted"
  /\ UNCHANGED <<document, spl, written, stateReasons, backendVars, cupsd, timers>>

\* ... and, once the temp directory is gone (or could not be removed), the filter
\* ends with exit code 0.
Finish ==
  /\ FilterMoves("accounted", "ok")
  /\ UNCHANGED timers

\* reportFailure, after the temp directory is gone: exit code 1.
Report(from, reasons) ==
  /\ filter = from
  /\ stateReasons' = reasons
  /\ filter' = "failed"
  /\ UNCHANGED <<document, spl, written, accounting, backendVars, cupsd, timers>>

ReportFailure ==
  \/ Report("preflightRejected", {"pdf-preflight-rejected"})
  \/ Report("guardRejected", {"output-guard-rejected"})
  \/ Report("commandFailed", stateReasons)

FilterStep == \/ ClearReasons \/ Allocate \/ Preflight \/ CheckCopies \/ StartSubfilter
              \/ Guard \/ Copy \/ BrokenPipe \/ CopyDone \/ Account \/ Finish
              \/ ReportFailure

\* The filter has no handler for a signal: it dies as it is.
FilterDies ==
  /\ filter \notin Exited
  /\ filter' = "killed"
  /\ timers' = [timers EXCEPT !["subfilter"] = Off]
  /\ UNCHANGED <<document, spl, written, accounting, stateReasons, backendVars, cupsd>>

-----------------------------------------------------------------------------
(* The backend *)

BackendMoves(from, to) ==
  /\ backend = from
  /\ backend' = to
  /\ UNCHANGED <<filterVars, staged, sent, device, cupsd>>

\* cat >"$payload" reads what there is in the pipe.
Stage ==
  /\ backend = "stage" /\ staged < written
  /\ staged' = staged + 1
  /\ UNCHANGED <<filterVars, backend, sent, device, cupsd, timers>>

\* Mutant of StageDone: an empty pipe is taken for the end of the file.
StageDoneEarly ==
  /\ staged = written
  /\ BackendMoves("stage", "check")
  /\ UNCHANGED timers

\* The end of file: the pipe is empty and the filter, whatever became of it, gone.
StageDone ==
  /\ filter \in Exited /\ staged = written
  /\ BackendMoves("stage", "check")
  /\ UNCHANGED timers

\* No temp file, no room in it, or no timeout(1) that can do the job.
CheckFails ==
  /\ BackendMoves("stage", "failed") \/ BackendMoves("check", "failed")
  /\ UNCHANGED timers

RejectEmpty ==
  /\ staged = 0
  /\ BackendMoves("check", "failed")
  /\ UNCHANGED timers

StartTransfer ==
  /\ staged > 0
  /\ BackendMoves("check", "send")
  /\ timers' = [timers EXCEPT !["backend"] = BackendTimeout]

BackendStep == Stage \/ StageDone \/ RejectEmpty \/ StartTransfer

\* timeout(1) and the real backend run: within the time, after the timeout, or
\* after timeout(1) itself was told to stop.
Transferring == {"send", "expired", "stopping"}

Send ==
  /\ backend \in Transferring /\ device = "ready" /\ sent < staged
  /\ sent' = sent + 1
  /\ UNCHANGED <<filterVars, backend, staged, device, cupsd, timers>>

\* The real backend is through, or gives up, which it cannot while the device is
\* stuck.  Its status is the wrapper's, unless timeout(1) had run out of time:
\* 124 and 137 call for deauthorize_target_usb.
TransferEnds ==
  /\ device # "wedged"
  /\ \/ sent = staged /\ \E from \in {"send", "stopping"} : BackendMoves(from, "ok")
     \/ \E from \in {"send", "stopping"} : BackendMoves(from, "failed")
     \/ BackendMoves("expired", "deauthorize")
  /\ timers' = [timers EXCEPT !["backend"] = Off]

\* Mutant of TransferExpires: timeout(1) without --kill-after.
ExpiresWithoutKill ==
  /\ timers["backend"] = 0
  /\ BackendMoves("send", "expired")
  /\ timers' = [timers EXCEPT !["backend"] = Off]

\* timeout(1): SIGTERM, which the real backend ignores, then SIGKILL.
TransferExpires ==
  /\ timers["backend"] = 0
  /\ BackendMoves("send", "expired")
  /\ timers' = [timers EXCEPT !["backend"] = KillAfter]

\* Mutant of TransferKilled: a status of 137 is like any other.
KilledIsFailed ==
  /\ timers["backend"] = 0
  /\ BackendMoves("expired", "failed") \/ BackendMoves("stopping", "failed")
  /\ timers' = [timers EXCEPT !["backend"] = Off]

TransferKilled ==
  /\ timers["backend"] = 0
  /\ BackendMoves("expired", "deauthorize") \/ BackendMoves("stopping", "deauthorize")
  /\ timers' = [timers EXCEPT !["backend"] = Off]

deauthorize_target_usb ==
  /\ backend = "deauthorize"
  /\ device' = "deauthorized"
  /\ backend' = "failed"
  /\ UNCHANGED <<filterVars, staged, sent, cupsd, timers>>

WrapperStep == BackendStep \/ TransferExpires \/ TransferKilled \/ deauthorize_target_usb

-----------------------------------------------------------------------------
(* The device, and cupsd *)

\* The printer stops taking data (it jams, it hangs, it runs out of paper).
DeviceWedges ==
  /\ device = "ready" /\ backend \in Transferring
  /\ device' = "wedged"
  /\ UNCHANGED <<filterVars, backend, staged, sent, cupsd, timers>>

\* Somebody power-cycles or reauthorizes it.
DeviceRecovers ==
  /\ device # "ready" /\ ~ JobRuns
  /\ device' = "ready"
  /\ UNCHANGED <<filterVars, backend, staged, sent, cupsd, timers>>

\* A user cancels, or MaxJobTime is over: SIGTERM to the filter ...
Cancel ==
  /\ JobRuns /\ cupsd = "running"
  /\ UsersCancel \/ timers["job"] = 0
  /\ cupsd' = "terminating"
  /\ filter' = IF filter \in Exited THEN filter ELSE "killed"
  /\ timers' = [timers EXCEPT !["subfilter"] = Off, !["job"] = Off]
  /\ UNCHANGED <<document, spl, written, accounting, stateReasons, backendVars>>

\* ... and then to the process group of the backend.  cat and the checks die of
\* it (unless the shell was about to start the transfer), and so may the tr that
\* deauthorizing needs; a transfer goes on under timeout(1), which now arms its
\* kill, unless it has already.
Terminated(from) ==
  IF from = "stage" THEN {"failed"}
  ELSE IF from \in {"check", "deauthorize"} THEN {from, "failed"}
  ELSE IF from = "send" THEN {"stopping"}
  ELSE {from}

TerminateBackend ==
  /\ cupsd = "terminating"
  /\ cupsd' = "kill"
  /\ backend' \in Terminated(backend)
  /\ timers' = [timers EXCEPT !["kill"] = JobKillDelay,
                              !["backend"] = IF backend = "send" THEN KillAfter ELSE @]
  /\ UNCHANGED <<filterVars, staged, sent, device>>

\* SIGKILL for what is left of the job.
Kill ==
  /\ JobRuns /\ timers["kill"] = 0
  /\ backend' = IF backend \in Exited THEN backend ELSE "killed"
  /\ timers' = [timers EXCEPT !["kill"] = Off, !["backend"] = Off]
  /\ UNCHANGED <<filterVars, staged, sent, device, cupsd>>

Tick ==
  /\ JobRuns /\ cupsd # "terminating"
  /\ \A t \in Timers : timers[t] # 0
  /\ \E t \in Timers : timers[t] > 0
  /\ timers' = [t \in Timers |-> IF timers[t] > 0 THEN timers[t] - 1 ELSE timers[t]]
  /\ UNCHANGED <<filterVars, backendVars, cupsd>>

-----------------------------------------------------------------------------
Next == \/ StartJob
        \/ FilterStep \/ SubfilterDone \/ RasterToSplDone \/ SubfilterFails \/ CopyFails
        \/ FilterDies
        \/ WrapperStep \/ CheckFails \/ Send \/ TransferEnds
        \/ DeviceWedges \/ DeviceRecovers
        \/ Cancel \/ TerminateBackend \/ Kill \/ Tick

Spec == Init /\ [][Next]_pathVars

\* The two processes take their own steps and timers are served; a subfilter, the
\* real backend and the device may hang for ever.
Fairness ==
  /\ WF_pathVars(FilterStep) /\ WF_pathVars(WrapperStep)
  /\ WF_pathVars(timers["subfilter"] = 0 /\ SubfilterFails)
  /\ WF_pathVars(timers["job"] = 0 /\ Cancel)
  /\ WF_pathVars(TerminateBackend) /\ WF_pathVars(Kill)
  /\ WF_pathVars(Tick)

FairSpec == Spec /\ Fairness

-----------------------------------------------------------------------------
(* Properties *)

FilterPositions ==
  Exited \cup
  {"start", "allocate", "preflight", "copies", "render", "pdftopdf", "pdftopdf done",
   "gstoraster", "gstoraster done", "rastertospl", "guard", "copy", "account", "accounted",
   "preflightRejected", "guardRejected", "commandFailed"}
BackendPositions == Exited \cup {"stage", "check", "deauthorize"} \cup Transferring

\* Type invariant: nothing is staged that was not written, nothing sent that was
\* not staged.
FlowTyped ==
  /\ document \in Documents
  /\ spl \in DriverOutputs \cup {NoOutput}
  /\ written \in Nat /\ staged \in Nat /\ sent \in Nat
  /\ sent <= staged /\ staged <= written /\ written <= spl.bytes
  /\ accounting \in {NoLines, extractCupsJobAccounting(spl.stderr)}
PlacesTyped ==
  /\ filter \in FilterPositions /\ backend \in BackendPositions
  /\ stateReasons \subseteq {"pdf-preflight-rejected", "output-guard-rejected"}
  /\ device \in {"ready", "wedged", "deauthorized"}
  /\ cupsd \in {"running", "terminating", "kill"}
TimersTyped == timers \in [Timers -> Nat \cup {Off}]

TypeOK == FlowTyped /\ PlacesTyped /\ TimersTyped

\* Whatever dies, fails or is cancelled, the device only ever takes data of a
\* driver output that passed every check.
OnlyPrintableIsSent == sent > 0 => Printable(document, spl)

\* Accounting reaches cupsd only for a job whose output was copied to its end,
\* and then the backend sends all of it or nothing: a payload cut short by a
\* dying filter is never accounted for.
AccountingIsEarned ==
  accounting # NoLines =>
    /\ Printable(document, spl) /\ written = spl.bytes
    /\ backend \in Transferring \cup {"ok"} => staged = spl.bytes

\* When both processes exit with 0 the device has taken the whole output and
\* cupsd has a page log for every page.
SuccessMeansPrinted ==
  (filter = "ok" /\ backend = "ok") =>
    /\ sent = spl.bytes /\ sent > 0
    /\ countCupsPageLogEntries(accounting) = document.pdfinfo.pages

\* A job that set a rejection reason left no trace on the printer, and a reason
\* never survives into a job that prints.
RejectionLeavesNoTrace ==
  stateReasons # {} => written = 0 /\ sent = 0 /\ accounting = NoLines

\* docs/adr-0001: the wrapper "deauthorizes the HP USB device if that backend
\* wedges".  A job never leaves a stuck device authorized behind.
WedgeDetaches == device = "wedged" => JobRuns

\* What remains of it when jobs are cancelled: a transfer to a stuck device only
\* ends with the device detached, unless cupsd is terminating the job.
StuckTransferDetaches ==
  [][device = "wedged" /\ backend \in Transferring \cup {"deauthorize"}
       /\ backend' \in Exited
     => device' = "deauthorized" \/ cupsd # "running"]_pathVars

\* The two processes together keep the promises of PrintJob.  An output counts as
\* let through when its first unit is in the pipe.
JobState ==
  IF filter = "idle" THEN "idle"
  ELSE IF filter = "ok" /\ backend = "ok" THEN "printed"
  ELSE IF ~ JobRuns THEN "failed"
  ELSE IF backend \in Transferring \cup {"deauthorize"} THEN "sending"
  ELSE "filtering"

Job == INSTANCE PrintJob WITH
  state <- JobState,
  output <- IF written > 0 THEN spl ELSE NoOutput,
  payload <- IF JobState = "sending" THEN staged ELSE 0,
  delivered <- sent

ImplementsPrintJob == Job!Spec

\* docs/adr-0001: the wrapper "makes that failure bounded".  Every job ends.
EveryJobEnds == JobRuns ~> ~ JobRuns
=============================================================================
