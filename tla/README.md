# ipp-print-orchestrator: verification project

TLA+ models of the print server in this repository, the TLC runs that check them
and the TLAPS proofs about them. A module is translated from the source; the docs
(`README.md`, `docs/adr-0001-hp135a-cups-driver-and-safety.md`, "the ADR") are where
some of the properties come from. `PROJECT.json` holds the map from definitions to
source lines, the runs, the mutants, the hazards, the findings and the theorems.

## 1. The system

A Raspberry Pi shares an HP Laser MFP 135a through CUPS. An agent (Effect/TypeScript)
watches CUPS, USB and the network and publishes wide events; a CUPS filter and a
backend wrapper guard what reaches the printer; Nushell scripts install, deploy and
repair it all.

| Component | State it keeps | Operations | Talks to | What is hard |
|---|---|---|---|---|
| Status runtime `live/StatusRuntimeLive.ts`, `HeartbeatLive.ts` | `lastObservedStatusRef` | `observeNow`, `current`, `recordCupsUnavailable` | probe (call), publisher (call); called by heartbeat, hotplug, HTTP, event stream | fibers read the world at three moments and write one Ref |
| Readiness `PrinterReadinessProbeLive.ts`, `domain/PrinterReadiness.ts`, `CupsQueueObservation.ts`, `UsbDeviceIdentity.ts` | none | `observe`, `derivePrinterReadiness`, `samePrinterReadiness` ... | CUPS (Get-Printer-Attributes), sysfs | two sources disagree, one falls back on the other |
| Event stream `live/CupsEventStreamIppLive.ts`, `CupsNotificationPolicy.ts` | subscription id, next sequence number, `retainedJobsRef`, the scope's finalizers | subscribe, poll, reconcile, cancel, retry | CUPS (IPP), status runtime | changes between requests, lost answers, restarts, a bounded number of subscriptions |
| Job reconciliation `CupsJobObservation.ts` | the map of retained jobs | validate a Get-Jobs answer, compare, accounting anomalies | event stream | one bad job, a vanished job, decreasing counters |
| CUPS filter `cli/cups-pdf-preflight-filter.ts`, `CupsFilterOutputGuard.ts`, `PdfPreflight.ts` | temp directory, staged output, printer-state-reasons | preflight, render, guard, copy, account, sweep | cupsd (stdout, stderr, signals), sub-filters | dies or times out anywhere; the reader of its stdout is another process |
| Backend wrapper `scripts/cups/backend/ipp-orch-usb` | payload file, the device's `authorized` | stage, refuse, supervise, deauthorize | filter (pipe), real backend, sysfs | four timers race, signals, a device that wedges |
| Agent process `main.ts`, `http/*`, `MainLayer.ts`, its unit | its fibers, the settings it was started with | load, first observation, loops, shutdown | all of the above, systemd, udevadm | a loop that ends silently, a request that never settles, crashes and restarts |
| IPP package `packages/ipp`, `CupsIppQueueClient.ts` | none (a connection per request) | build, encode, send, decode, reject | CUPS | widths, groups, nested collections, answers in pieces, no timeout |
| CUPS setup `scripts/setup-cups-live-from-pi.nu` | the host: cupsd, printers.conf, spool, units, Avahi record, USB authorization | enable, safe activation, stop, artifacts, TLS repair | systemd, cupsd, Avahi, watcher | any command fails, is ignored or is the last one before a reboot |
| TLS identity `lib/cups-tls.nu`, `watch-cups-tls-identity-from-pi.nu` | certificate, key, links in `/etc/cups/ssl` | verify, generate, link, watch | CUPS, Avahi, setup | two files are not one, two installers, addresses come and go |
| Deployment `deploy-*`, `install-systemd-*`, `bootstrap-*`, `build-nix-*` | files on the Pi, units in systemd's memory, what runs | sync, install, reload, restart, health check, retry | ssh, nix, systemd, agent | an attempt that breaks off, what the next one can find out |
| Observability `observability/*`, `TelemetryLive.ts`, `WideEventPublisherLive.ts` | exporter, started or not | start, publish, shut down | OTLP endpoint | shutdown before or during start, flush order |
| Configuration, diagnostics, packaging | none | parse, print, build | | none kept here |

What makes each component correct:

- *Status runtime*: published changes form one gapless story that ends at the stored
  status; a caller never contradicts it; a stale observation does not stay.
- *Event stream*: no change of a retained job escapes a live session unless CUPS lost its
  event, versions are published once and in order, the last one is in the end; failed
  sessions leak nothing in CUPS.
- *Print path*: only guarded output reaches the device, whole; accounting and exit
  codes tell the truth; a wedge is bounded and detached.
- *Setup*: what the script reports is so and stays so; no old job prints through the
  new queue; nothing unverified is exposed.
- *TLS*: one certificate that covers the identity on every address, kept while it does.
- *Reconciliation*: whoever reads the published job events knows every retained job as
  the agent does; one bad job in an answer refuses all of it and changes nothing.
- *IPP package*: what is sent reads back as what was asked, what arrives means to the
  caller what CUPS meant, however it was cut into chunks; an exchange that fails anywhere
  leaves jobs and sequence numbers alone; a request settles.
- *Agent process*: every change of the device is noticed although the hotplug loop may
  miss it or end; whatever ends the process, it serves again.
- *Deployment*: when it says "complete" everything that runs is of the new version.

## 2. Modules

| Module | Stands for | Composes |
|---|---|---|
| `Readiness` | the pure derivations from a CUPS answer and a sysfs listing to the published status | |
| `StatusSnapshots` | what the runtime stores, its host's addresses among it, the events between two of them, and what a reader of those events holds | extends `Readiness` |
| `StatusLog` | abstract: one status, replaced, published and answered at one instant of each call | extends `StatusSnapshots` |
| `StatusRuntime` | the Ref and every fiber that touches it; the probe's reads; the world | extends `StatusSnapshots`, implements `StatusLog` |
| `JobFeed` | abstract: what a consumer of `cups.job.observed` is promised | |
| `CupsEventStream` | the stream fiber, CUPS' jobs, subscriptions and event logs, the process' crashes | implements `JobFeed` |
| `PrintGuards` | preflight, copies and output guards as functions | |
| `PrintJob` | abstract: what a job is promised to do to the device and the page log | |
| `PrintPath` | filter, pipe, wrapper, `timeout(1)`, cupsd's job control, the device | extends `PrintGuards`, implements `PrintJob` |
| `CupsSetup` | the setup script, cupsd's queue in memory and on disk, clients, watcher, reboots | |
| `CupsTls` | installers of the pair, links, the watcher, what CUPS serves | |
| `IppTables` | the tables of `tables.ts` and the kinds of values a caller passes and gets | |
| `IppFields` | the fields of `codec.ts`: lengths, integers, strings, dates, resolutions, written to and read from bytes | extends `IppTables` |
| `IppCodec` | the rest of `codec.ts`: serializing requests, parsing messages, with collections that nest | extends `IppFields` |
| `JobReconciliation` | `CupsJobObservation.ts` and the retained map over parsed messages | extends `IppTables` |
| `IppExchange` | request after request: connection, chunks, the queue client, the readers of `subscriptions.ts`, for any codec (`Serialize`, `Parse`, `Encode`) | extends `IppFields`, `JobReconciliation` |
| `IppWire` | the exchange with the codec of `codec.ts`: which requests it can write, and what they are read as | extends `IppExchange`, `IppCodec` |
| `IppAnswers` | the answers as CUPS encodes them, with collections in collections, and what they mean | extends `IppWire` |
| `AgentProcess` | the agent under its unit: phases, fibers, udevadm, crashes, signals | |
| `Deployment` | the deployment scripts, files, units and users of them, reboots | extends `AgentProcess` |
| `MC*` | small instances | extend the module they are named for |
| `StatusRuntimeProofs`, `CupsEventStreamProofs`, `PrintPathProofs`, `CupsSetupProofs`, `CupsTlsProofs`, `DeploymentProofs` | theorems | extend theirs |
| `IppCodecProofs`, `IppExchangeProofs` | theorems about the fields and the codec; about the jobs and the exchange, with any codec and with this one | extend `IppWire`, `IppCodecProofs` |

`StatusRuntime` and `CupsEventStream` are the inside of two fibers that `AgentProcess`
shows from outside; `IppExchange` is what happens inside one request of
`CupsEventStream`, and its retained map is that of `JobReconciliation`. `StatusLog`,
`PrintJob` and `JobFeed` are what the rest of the world may rely on; they name no fiber,
process or request.

### How state and actions correspond to the code

**StatusRuntime.** `last` is `lastObservedStatusRef`; a fiber's `seen` is
`currentObservedStatus`, `prev` is `previousObservedStatus`. `StartObserve` (network,
synchronous), `ReadQueue` (awaits CUPS), `ReadUsb` (awaits sysfs), `GetLast`, `Emit`,
`SetLast`, `Return` are `observeNow` cut at its awaits and at its accesses of the Ref;
`RecordCupsUnavailable` is the other writer. `running` is the fiber that holds the
thread: Effect's fibers give it up where they await, and nothing awaits from
`Ref.get` to the return. With `AutoYield = TRUE` the scheduler may preempt anywhere.
`network` is the host's list of addresses: it is stored and reported whole, online means
it is not empty, and only that is compared. `Beat` is the return of the heartbeat, which
publishes all of the snapshot it got. `told` is what a reader of the published events
knows, addresses included; it is not in the program.
`LogStatus`, `LogCall` and `LogAnswer` map this to `StatusLog`: a call takes effect with
`Emit`, where its events go out, or with `SetLast` if it stores the baseline.

**CupsEventStream.** `pc` walks through `run` and `runNotificationSession`; `held`
is what the scope of `run` still has to release, `retained` is `retainedJobsRef`. A
job is its version (how often CUPS changed it), an event its kind. `Create`,
`GetJobs`, `Reconcile`, `Poll`, `Release` are the requests with all they change.
Every request may fail because CUPS is down (`RequestFails`), refuses
(`RequestRefused`) or acts without an accepted answer (`CreateUnanswered`); a refused
Cancel-Subscription is swallowed (`ReleaseRefused`). `CupsStarts` turns every event that
was logged into a `"lost"` one: cupsd keeps subscriptions and their next numbers on disk,
the events themselves only in memory. A session that sleeps meanwhile polls on with its
old number and is told of none of them.

**PrintPath.** `filter` and `backend` are the places of the two processes, data is
counted in units that go through a pipe of `PipeCapacity` (`written`, `staged`,
`sent`). `timers` are the sub-filter timeout, the wrapper's `timeout`, cupsd's
`MaxJobTime` and its `JobKillDelay` (or `--kill-after`); no tick passes while an
expired timer is unserved. `FilterDies`, `Terminated`, `Kill` may strike at any place.

**CupsSetup.** One action per command or group of commands of `main`, in its order;
`pc` names the next one. `run-required` commands may fail (`StepFails`, or `RollBack`
inside the `try`), `run-best-effort` commands may fail unnoticed (`BestEffort`,
counted in `ignored`). `live` is the queue in cupsd's memory, `saved` the one in
`printers.conf`; cupsd writes the one to the other at a time of its own or when it is
stopped, never when it is killed. `WatcherFindsActive`/`WatcherRestarts` are the two
halves of `restart-cups-if-active`.

**CupsTls.** A pair is a number: `cert.pair` and `key` say whose the installed files
are. `Read`, `InstallCertificate`, `InstallKey`, `LinkNames`, `RemoveOthers` are
`install-cups-tls-certificate`. `Watch` is enabled only if every address answers,
because the check throws otherwise. `Connect` is CUPS making credentials of its own.

**IppTables, IppFields, IppCodec.** A JavaScript value is a tuple whose head is its kind; a
string is a sequence of characters (`W` turns a word into one). `serializeIppRequest` and
`parseIppMessage` are the functions of those names; a `throw` is the value `Refused`, a
parse error a result with `ok = FALSE`. The parser is the code's: a cursor, groups until
the end tag, further values of an attribute without a name, collections that nest. Each
`while` of a reader is a `Loop` over a turn (`nextValue`, `nextMember`, `nextAttribute`,
`nextGroup`) that leaves what it has alone once there is nothing more to read; a collection
is read by the function `readCollection`, which calls itself for the ones within it.

**JobReconciliation.** `retained` is `retainedJobsRef`; `Observe` is
`observeRetainedJobs` after `reconcileRetainedCupsJobs` accepted the answer,
`RefuseJobs` when it did not. `told` is what a reader of the events knows; it outlives
the process (`ForgetJobs`).

**IppExchange.** `phase` is where a request is: `connecting` (after `request.end`),
`receiving` (chunks), `answered` (at `"end"`), `hung` (closed before the end: no event
that `postIpp` listens for follows). `todo` is what the session asks next. `Rejected` is
every way from a whole answer to an error, `Subscribed`, `Reconciled`, `Notified` and
their counterparts are what the callers make of it. The codec is a parameter, so that the
proofs about the exchange hold for any codec that keeps the stated hypotheses; the
configuration of `ipp` gives the parameters their values, so the run exchanges real bytes.

**IppWire, IppAnswers.** `Readable` says, syntax by syntax, which values the writer can
write so that they are read again, `IsReadableRequest` which requests are made of those;
`ReadAs` is what "lossless" means: the operation, the data, the groups and each attribute
once, an array of one value as that value, with the client's own attributes first.
`Encoded` of `IppAnswers` is RFC 8010, not the repository: what CUPS sends.

**AgentProcess.** `phase` is `off`, `down`, `loading` (layers and `AppConfig`), `cold`
(the port listens, the first observation runs), `serving` or `stopping`. A fiber is idle,
asking CUPS, hung, or holding a reading it has not stored. `lines` are udevadm's unread
lines. `Exit` leads to `down`, because `Restart=always`.

**Deployment.** `step` walks through `deploy-live-to-pi.nu`, `deploy-live-from-pi.nu` and
`install-systemd-live-from-pi.nu`; a version is on `disk`, `loaded` by systemd, and
`inUse` by what was started with it. `changed` is what an attempt remembers of its own
writes (`TryAgain` forgets it). `Poll`, `Healthy` and `Unhealthy` are the health check.

## 3. Runs

Passing runs; every property has a mutant of the mapped code (in the module, marked
`Mutant`) that breaks it under the same configuration.

| Run | Instance | Shows |
|---|---|---|
| `status` | two observers, one of them the heartbeat, and the recorder of a lost CUPS, a healthy answer, a printer that is unplugged and plugged in, a bus that is now and then unreadable, a host that goes offline and moves to another address, no preemption, fair | `EventsChain`, `LogTellsStatus`, `CallerAgrees`, `DisconnectKeepsTheRest`: the published changes form one story that replays to the stored status, whatever order the fibers read and write in, but for the addresses of a host that moves while it stays online; the refinement `ImplementsLog`: overlapping calls take effect one after the other; `Converges`: after the last disturbance the stored status becomes the truth, a reader of the log ends up with all of it, addresses included, and both stay so |
| `stream` | one job with two changes, one of each trouble (printer event, outage, refusal, lost answer, refused cancel, stop, crash), six subscriptions, fair | `NoChangeIsMissed`: a session with a living subscription loses track of no job but by sleeping through a restart of CUPS, and then only until the next event of a job; `EverySubscriptionIsOwed`: with neither crash nor outage, the scope owes the release of all subscriptions in CUPS but one for each lost answer and each refused cancel; the refinement `ImplementsFeed`; `EventuallyReported`: the last version is published once CUPS stays up, with the same exception as the first |
| `print` | seven documents, eight driver outputs, pipe of one unit, cancels and kills, a device that wedges, no `MaxJobTime`, fair | `OnlyPrintableIsSent`, `AccountingIsEarned`, `SuccessMeansPrinted`, `RejectionLeavesNoTrace`, `StuckTransferDetaches`, the refinement `ImplementsPrintJob` (the two processes act on device and page log like one job), `EveryJobEnds` |
| `setup_safe` | two activations of any mode, a fresh or an exposed host, one reboot, one ignored failure per activation, a client, the watcher | `StoppedIsSafe`, `EnabledIsWhole`, `NothingWaits` |
| `tls_watch` | an address of each sort, two changes of addresses, CUPS stopped once, a setup, one cut, any first certificate, fair | `OnePair`, `PinnedStays`, `ServedUnlessSplit` |
| `ipp` | the four requests of the stream and three of others with an attribute of every syntax; good, empty, duplicate, ambiguous and refused answers; chunks; refusal, reset, cut and restart at any point; fair | `AnswerIsWhole`, `RequestReadsBack`, `AnswerIsUnderstood`, `ToldIsRetained`, `RetainedIsAnswered`, `SequenceMovesOn`, `SettlesUnlessCut` |
| `deploy` | two deployments over a fresh or an older host, environments the agent accepts or refuses, any two of: an attempt that breaks off, a reboot, a crash, a foreign SIGTERM, a request that hangs; the device changes, udevadm ends; fair | `DeployedIsNew`, `Noticed`, `ComesBack` |

Runs that find a disagreement with what the documentation or the code says of itself:

| Run | Property | Finding |
|---|---|---|
| `stream_leak` | `KeepsReconciling` | the scope of `run` is outside its retry: each failed session leaves a never-expiring subscription in CUPS until CUPS refuses for good |
| `print_max_job_time` | `WedgeDetaches` | the 300 s of the wrapper start after staging, cupsd's `MaxJobTime=300` with the job: cupsd terminates and kills first, the wedged device stays attached |
| `setup_gate` | `ExposedIsVerified` | an activation restarts the previous, open queue and changes it before it closes and verifies it |
| `tls_cut` | `EventuallyServed` | a certificate and a key of two pairs: the watcher's check throws, its repair would keep them |
| `deploy_window` | `DeployedIsNew` | an attempt that breaks off between the write of the agent's unit and `daemon-reload` leaves nothing for the next one to find changed: it reports completion with the old agent running |

More that the models show without a run of their own. A new address of a host that stays
online is stored without an event (`StatusRuntimeLive.ts:90` compares `networkOnline`
only), so `told = View(last)` is false in `status` between the change and the next
heartbeat; `LogTellsStatus` claims it of all fields but the addresses, and of those while
the host is offline. A session asleep in its notify-get-interval does not notice that CUPS
restarted, and a change whose event was lost is not reported before the next event of a
job or the next session (`Forgotten`): one outage is enough to violate `EventuallyReported`
without that exception. Each refused cancel leaves a subscription that never expires. The
exposure's rollback closes the
queue in cupsd's memory and kills cupsd at once (`KillCupsd` after `CupsdSaves`), so
`printers.conf` may stay open; `StoppedIsSafe` therefore says nothing of the saved queue
after a rollback. The watcher may restart a cupsd that `--stop-only` has just stopped
(`revived`); `StoppedIsSafe` excludes that. A setup beside the watcher may split a pair as
a cut does; `ServedUnlessSplit` is what remains. A text with a language is written
without its outer length (`codec.ts:391`): `RequestReadsBack` fails with such a value,
which the agent never sends, so `ipp` has none. An agent whose first observation, or
whose heartbeat, meets a connection that never answers stays as it is (`Stuck`).

### Bounds, and why they are enough

- *Status*: what a fiber can do to another is a matter of two writers and a reader of
  one Ref; three fibers have every role. No list, one and another of addresses make every
  change of the network: coming, going and moving. CUPS answers and is
  healthy, so that an unreadable bus is inferred to hold the printer; that it is lost comes
  from the recorder, which stores the queue as an observer whose request failed would (with
  the failing answer as a second one TLC needs too long). The fields of a snapshot are
  compared apart from each other, so more values of each add no new order. The proofs
  remove the bounds of the safety properties.
- *Stream*: one change may fall into any gap of a session and a second one behind it;
  each trouble occurs at any moment and after any other. More jobs only multiply
  independent comparisons. The proofs remove these bounds too.
- *Print*: sizes 0..4 lie below, at and above both limits (2 per page, 3 in all); the
  documents and outputs fail each check alone. A pipe of one unit makes filter and
  backend overlap in every way. Timers of 1-3 ticks order in every way that the code's
  constants can: `BackendTimeout` equals `MaxJobTime` and `KillAfter` equals
  `JobKillDelay`, as the source has them, in `print_max_job_time`.
- *Setup*: what a script finds is what one earlier script left, so two activations
  meet every kind of leftover; one job distinguishes "waits" from "does not".
- *TLS*: the code treats addresses alike but for those that CUPS makes pairs for: one
  of each sort. Two changes let an address go and come back.
- *IPP*: `RequestId` 99999999 (`05 f5 e0 ff`) has four different bytes; `ChunkSize` 47
  cuts answers inside a length, a name and a value. Numbers lie at both ends of 32 bits,
  in both signs; strings are empty, of one byte and of two bytes a character. An
  answer has none, one or two jobs, a repeated, a missing, a zero and an ambiguous id.
  `TimezoneOffset` is -330, as JavaScript gives it for a zone 5:30 h ahead of UTC.
- *Deployment*: a host knows at most the versions none, old and new; a second deployment
  meets what the first left. Two attempts and one failed health check have the first, the
  last and the exhausted case of both loops (5 and 20 in the code). Two troubles are
  enough for one to hit the recovery from the other. `Askers` is empty: a further fiber
  that observes only overtakes, as the heartbeat and the hotplug loop already do to each
  other, and is not fair. `BreaksAt` leaves out the three steps of the `Window`, for which
  `deploy_window` shows that `DeployedIsNew` is false.

Deadlock is checked except in `stream_leak` and the setup, TLS and deployment runs, where
the system may come to rest (CUPS refuses, the activations are over, all is served).

### Fairness

- *Status* (`Fairness`): the fiber that holds the thread goes on (weak), and the heartbeat,
  which repeats for ever (`HeartbeatLive`), gets each of its steps, its requests and reads
  of sysfs settling. The latter is strong: one fiber holds the thread at a time, so a ready
  one is enabled again and again but not all the time, and Effect's scheduler runs ready
  fibers in the order they were queued; with weak fairness other callers could overtake it
  for ever. Both are stated of `pc`, which only the steps of a fiber itself change. Nothing
  is assumed of the calls of HTTP, hotplug and the recorder: none needs to begin, and one
  that began may wait for ever.
- *Stream*: the fiber's own steps, the retry after a backoff and the restart by systemd
  (`Restart=always`). CUPS is not fair: the properties are conditional on its staying up.
- *Print*: the steps of the two processes, expired timers, cupsd's signals and time.
  Not the real backend and not the device, which may stop for ever; that is the point.
- *TLS*: the watcher (`Restart=always`, a loop), a started installer, CUPS coming back
  (an assumption about the host: with CUPS down there is nothing to serve)
  and somebody connecting, since the watcher itself does every 30 s.
- *IPP*: CUPS answers a connection that holds, what it sends arrives, and the code goes on
  when an answer is whole. A cut is not excluded: it is the second half of
  `SettlesUnlessCut`.
- *Deployment*: systemd starts what is down and ends what is stopping
  (`TimeoutStopSec`), a request that does not hang settles, a reading is stored, the
  heartbeat comes round and a line of udevadm is read. Nothing is asked of the operator
  or of the connection. `RestartSec=5` keeps the unit below systemd's start limit.

Where the status and the stream claim liveness they assume that every request settles.
The IPP client sets no timeout, so a half-open connection breaks this: `Hang` in
`AgentProcess` and `ConnectionCut` in `IppExchange` are what it looks like.

## 4. Proofs

| Theorem | Statement | Argument |
|---|---|---|
| `StatusRuntimeProofs!TypeCorrect` | `Spec => []TypeOK` | step by step |
| `EventsAlwaysChain`, `LogAlwaysTellsStatus`, `CallersAlwaysAgree`, `DisconnectsKeepTheRest` | with `~AutoYield`, for any fibers, answers, views, messages | `IInv` |
| `RuntimeImplementsLog` | with `~AutoYield`, `Spec => Log!Spec` | `InitImplements`, `StepImplements` from `IInv` |
| `TruthStays` | `Spec => [](Fresh /\ [][~Disturbance]_statusVars => [](last = Truth /\ told = View(Truth)))`, preempted or not: the half of `Converges` that needs no fairness | `FreshKept` |
| `CupsEventStreamProofs!TypeCorrect`, `NoChangeIsEverMissed`, `EverySubscriptionIsAlwaysOwed` | for any jobs, steps, ids, limits; the last two with lost events and refused cancels as above | `IInv`; `LostLogs`, `Unowed` |
| `StreamImplementsFeed` | `Spec => Feed!Spec` | `InitImplements`, `StepImplements` from `IInv` |
| `PrintPathProofs!TypeCorrect`, `OnlyPrintableIsEverSent`, `AccountingIsAlwaysEarned`, `SuccessAlwaysMeansPrinted`, `RejectionsLeaveNoTrace` | for any documents, outputs, limits, timers | `IInv` |
| `PathImplementsPrintJob` | `Spec => Job!Spec` | `InitImplements`, `StepImplements` from `IInv` |
| `StuckTransfersDetach` | `Spec => StuckTransferDetaches`, for any timers | `IInv` and `KillArmed` |
| `WedgesAlwaysDetach` | with `MaxJobTime = NoLimit` and no cancels, `Spec => []WedgeDetaches`: what `print_max_job_time` refutes holds where cupsd stays out of the job | `IInv` and `Undisturbed` |
| `CupsSetupProofs!TypeCorrect`, `EnabledAlwaysWhole`, `NothingEverWaits`, `StoppedAlwaysSafe` | for any modes, jobs, numbers of activations, reboots and ignored failures | `IInv` |
| `ClosedBeginsStayVerified` | `Spec /\ [][Begin => Shut]_setupVars => []ExposedIsVerified`: what `setup_gate` refutes holds as long as each script begins over a closed queue | `IInv` and `Unverified` |
| `CupsTlsProofs!TypeCorrect`, `AlwaysOnePair`, `PinnedAlwaysStays` | for any addresses, installers, first certificates, changes and cuts | `Typed`, `Alone`, `Whole` |
| `IppExchangeProofs!ReadersAlwaysKnow` | `JobsSpec => []ToldIsRetained`, for any sequence of answers and restarts | `RetainedObservations` |
| `ExchangeAlwaysTypeOK`, `AnswersAlwaysWhole`, `ExchangeReadersAlwaysKnow` | for any requests, answers, chunks and any codec that returns messages (`AnswersAssumption`) | `ExchangeInv`, `StepOfJobs` |
| `RetainedIsAlwaysAnswered`, `SequenceAlwaysMovesOn` | for any codec that reads answers as what was sent (`CodecUnderstands`) and, the second, refuses numbers beyond 32 bits (`CodecRefusesBeyond`) | `ExchangeInv`, `PollIsSent` |
| `RequestsAlwaysReadBack` | with the writer of `codec.ts` (`CodecWrites`), `Spec => []RequestReadsBack`, whatever CUPS answered before | `ExchangeInv`, `PollIsSent`, `RequestIsWritten`, `RequestsReadBack` |
| `BeyondAlwaysRefused` | with the writer of `codec.ts`, `CodecRefusesBeyond`: the second hypothesis of `SequenceAlwaysMovesOn` is true of it | `BeyondIsRefused` |
| `IppCodecProofs!LengthsReadBack`, `IntegersReadBack`, `ResolutionsReadBack`, `DatesReadBack`, `StringsReadBack` | each such field reads back as it was written, wherever it stands in a message | arithmetic; `FlattenPlaces`, `CharsReadBack` |
| `ValueReadsBack` | each readable value of each attribute of the tables reads back, tag and all, wherever it stands | the fields; the tables, one by one |
| `RequestsReadBack` | each readable request, with any number of groups' attributes, values and bytes of data, reads back from its own bytes, with its id | from values to attributes to groups to the message, see below |
| `BeyondIsRefused` | a poll for a number beyond 32 bits is never written, whatever the subscription | the place of the refused field in the message |
| `DeploymentProofs!TypeCorrect` | for any askers, attempts, polls, troubles | by part and by action |
| `DeploymentsReplaceEverything` | with `BreaksAt \cap Window = {}`, `Spec => []DeployedIsNew` | `HostInv`, `AgentInv` |

The inductive invariants, and why the properties alone are not inductive:

- *Status*: `EventsChain` says nothing of a fiber that is about to store. `OneHolder` (one fiber
  between `Ref.get` and its return), `UpToDate` (its `prev` is `last`, and between publishing and
  storing the reader knows `seen`), `RecordersCopy` and `ObserversAsk` (where the parts of what
  is about to be stored come from) close the gap. What the reader knows is compared field by
  field but for the addresses (`Agree`, `InformedAgree`), because a new address of a host
  that stays online goes out with no change event. `SameMeansSame` and `EventsSuffice` are the
  facts about `samePrinterReadiness` and the comparisons of `emitStatusChangeEvents` that
  `LogTellsStatus` rests on.
- *Stream*: `NumberInLog` (a session never asks beyond the end of its log) carries
  `NoChangeIsMissed`; `Published` and `VersionsInOrder` (what is retained is what was
  published last, never ahead of CUPS) carry the refinement. `OutageCounted` (a CUPS that is
  down had an outage) lets a `Release` reach CUPS, so that what is owed and what CUPS holds
  shrink together; `Unowed` counts the difference, which only a lost answer and a refused
  cancel increase.
- *Print*: the gate is in the filter and the bytes leave the backend. `FilterInv`
  says what each place of the filter has established, `BackendInv` that a backend past
  staging has everything and that nothing more comes.
- *Print*, success: an exit code of 0 of the wrapper says nothing of the page log and one
  of the filter nothing of the device. `FilterInv` keeps the accounting that was counted,
  `BackendInv` that a whole transfer is of the whole output; together they give
  `SuccessMeansPrinted` and each step of the refinement.
- *Print*, detaching: `KillArmed` (the second timer of cupsd runs only when cupsd is
  killing) for `StuckTransfersDetach`; `Undisturbed` (no timer of cupsd ever runs, and a
  stuck device is in the hands of the wrapper) for `WedgesAlwaysDetach`.
- *Setup*: a report speaks of what commands long before it did. `Places` says which
  command belongs to which mode, `Reached` what holds wherever the script has got to
  (cupsd up, configured, verified), `Emptied` from where on the spool is empty and stays
  so, `Sealing` how far the queue is closed before its policy is replaced, `Stopped` what
  each command of an ending has settled, `Enabled` that nothing disturbs what is exposed.
  TLC checked their conjunction before it was proved.
- *Setup*, the gate: `Unverified` adds to `IInv` that a script that has not yet verified
  the queue (`ToVerify`) has it closed, in memory and on disk, and that a queue that is
  open in either has been verified; only a script that begins over an open one breaks it.
- *TLS*: `OnePair` is about installed files, and a pair is installed in two steps: `Whole`
  says whose key is still to come; `Alone` that without a setup only the watcher installs,
  and never over a missing key.
- *Exchange*: `ExchangeInv` joins `TypeOK` with `NumberIsKnown` (a session that polls has a
  number from 1 to the greatest of 32 bits, or one beyond), `SubscriptionIsKnown` (a session
  past subscribing has an id of the protocol), `BeginningArrived` (what has arrived is the
  beginning of the answer, in whole chunks) and `AnswerIsWhole`; `PollIsSent` says that the
  number of a poll that was sent fits into 32 bits, which is what the codec's refusal gives.
- *Exchange, what is sent*: `RequestReadsBack` speaks of the request under way, and whether
  that one can be read again depends on what CUPS answered before: the id of the
  subscription and the next number come from answers. `SubscriptionIsKnown`, `NumberIsKnown`
  and `PollIsSent` say that what is put into a poll are integers of 32 bits;
  `RequestIsWritten` that a request of others that is under way did not throw, so that by
  `RequestsAssumption` it is readable. Then `CreateReadable`, `JobsReadable` and
  `PollReadable`, about the three requests of the session, and `RequestsReadBack`.
- *Fields*: what is said of every length of a sequence is an induction over numbers, which
  is made with the least number that would break it (`LeastNumber`, `StepByStep`).
  `FlattenPlaces` finds each piece of a flattened sequence at its place; `CharsFrom` is
  what the recursive function of the reader is proved to be, character by character.
- *Codec*: what a reader does is said of any buffer in which the bytes stand at some place
  (`Written`, `ReadsAs`, `FirstValue`, `FurtherValue`, `AttributeBytes`, `GroupBytes`), so
  that pieces can be put together. A loop of the reader is at its k-th turn what the first k
  pieces say (`ValuesRun`, `AttributesRun`, `GroupsRun`), and it ends where the byte behind
  them is no further piece: that no value, tag of a group or end can be taken for another is
  where the codes of the tables matter (`ValueTagsApart`, `GroupTagsApart`, `RequestTagsKnown`).
  `OrderedOnce` and `SpreadOnce` say that merging the client's own attributes into those of
  a request and ordering them loses and repeats none.
- *Reconciliation*: `SameIsEqual` (what `sameObservation` takes for the same is the
  same) needs that retained things are observations: `RetainedObservations`. The steps of
  `IppExchange` change `retained` and `told` only by `Observe`, `RefuseJobs` and
  `ForgetJobs`, so the theorem is about them as well.
- *Deployment*: `DeployedIsNew` compares the end with files written many steps and
  attempts earlier. `Written` says what each step can rely on, `AgentIsLast` that units are
  written in order, `UnitsKnown` and `JournalKnown` that what is new on disk is in use or
  this attempt still knows that it is not - the invariant that the window breaks -,
  `HelpersRestarted`, `AgentRestarted` and `AnswerKept` carry it to the health check.

Assumptions: the named `ASSUME`s of the modules (ranges of constants; `RuntimeAssumption`,
`NullAssumption`, `StreamAssumption`, `PathAssumption`, `ProcessAssumption`,
`DeploymentAssumption`, `RepliesAssumption`, `AnswersAssumption` ...), which TLC evaluates in
each run, and the ones stated in a theorem: `~AutoYield` (with preemption `EventsChain` is false,
so the theorems also say what the code relies on), `BreaksAt \cap Window = {}`, `MaxJobTime =
NoLimit /\ ~UsersCancel`, `[][Begin => Shut]` (TLC finds the property true under it too) and the
three about the codec. `CodecWrites` says that the parameter `Serialize` is the writer of
`IppCodec`, which the configuration of `ipp` makes it; `CodecRefusesBeyond` follows from it;
`CodecUnderstands` TLC checks of the real reader, as the invariant `AnswerIsUnderstood` of
`ipp`. `AnswersAssumption` (a parsed answer is lists of groups of attributes, its integers
have 32 bits) and `RequestsAssumption` (a request of another user of the client is readable,
or the writer refuses it) are about what CUPS and the other users may pass.

Model-checked only: everything under fairness (`Converges`, `EventuallyReported`,
`EveryJobEnds`, `ServedUnlessSplit`, `SettlesUnlessCut`, `Noticed`, `ComesBack`), which is
beyond the prover; and `AnswerIsUnderstood`: CUPS may nest collections in collections, so
what it sends and what that means (`EncodedValue`, `MeantBy`) are recursive over the message,
and that the reader understands every one of them is an induction over data. The requests
have no collections: their round trip is proved whole. `StringsReadBack` stops at U+07FF, as
`Utf8Char` does: the agent sends no character of three bytes. `DatesReadBack` starts with
the year 100, because `Date.UTC` moves the years before to the twentieth century, and is
about moments whose local time is in the same month, as `writeDateTime` models them.

## 5. Abstractions

- Names, URIs, messages, certificates, document contents, log text: opaque, or the one
  or two distinctions a decision looks at.
- CUPS, systemd, `timeout(1)`, the real USB backend, the device, Avahi, openssl: modelled
  as `external` by what the code relies on. cupsd may write `printers.conf` at any time
  after a change; it starts filter and backend at once and signals process groups.
- cupsd over a restart: subscriptions and the numbers of their next events survive, but for
  the newest subscription if it was not saved yet; logged events do not. Not modelled: a
  cupsd killed with an older next number on disk, which then gives numbers a second time,
  and more events between two polls than it keeps (`MaxEvents`). It also stands for cupsd
  that a restart by itself changes no job without an event.
- A command group of the setup is one step when nothing outside can tell its parts
  apart; its failure halfway is then the failure of the command behind it. SIGKILL,
  `systemctl stop` and `killall` are one step: a cupsd that systemd restarts in between
  is stopped by the second.
- Durations: only the order of timers is kept. The length of a backoff is not.

- The agent's unit is started from the version systemd has loaded and the environment on
  disk; building and copying closures changes nothing that runs. A cut inside
  `ensure-systemd-enabled` is the cut before or after it. The terminal of the script ends
  with its connection, so no two attempts run at once.
- The exchange asks one request at a time and ends a session at its first error, as the
  stream does; the length of waits and the backoff belong to `CupsEventStream`.

## 6. Not modelled, and why

- *Observability*: reads its configuration once and hands records to the OpenTelemetry
  SDK, whose batching and flushing, the only things that happen out of order, are not in
  this repository. Publishing an event is part of the step that publishes it.
- *Configuration*: the parsing of variables keeps no state. Whether an environment is
  accepted, and with which one a process was started, is in `Deployment`.
- *Diagnostics, smoke tests, packaging*: read and print, send one job, or describe builds.
- *Bootstrap* (`bootstrap-*`) and *closure builds* (`build-nix-*`, `check-nix-*`):
  sequential preparation of a host before anything of this system runs on it.
- *`setup-cups-live-to-pi.nu`*: copies the setup script and its libraries and starts it;
  `CupsSetup` begins there. The list of libraries it copies (line 80) leaves out
  `lib/cups-tls.nu`, which the script imports: without a deployment on the host the script
  does not load. That is one fact about a list of names, which no interleaving changes.
- *The filter's sweep* of stale temp directories: touches nothing of the job it runs in.
  A killed filter's directory, which it removes later, is listed as a hazard.
- *The length of the reconnect backoff*: arithmetic over one counter that no other actor
  touches; the models let it take any time.
- *The codec's answers and ranges*: `serializeIppResponse`, `rangeOfInteger` and the
  groups of document attributes in requests; the agent is never a server and sends none.
  `makePrinter` wraps `requestIpp` in closures.

Hazards that no property covers are listed in `PROJECT.json` with the reason.
