# libssc in TLA+

A verification project for libssc, the GLib library that talks to the Qualcomm
Sensor Core (a DSP) over QRTR and QMI and offers its sensors to applications.
Paths `src/...` are those of the repository copy; `file.c:123` means
`src/src/file.c`. Run everything inside this directory:

    tlc -workers 2 -config MCSensorReliable.cfg MCSSCSensor.tla
    tlapm SSCSensor_proofs.tla

Sections: the system, the models, the runs, the fairness, the proofs, what the
models show of the code, what is not modelled, and the plan.


## 1. The system

Everything runs in one GLib main loop of the application's process: there are
no threads of the library's own, and the only concurrency is that of callbacks,
of the messages on their way to and from the DSP, and of the DSP itself. Every
public operation is a `GTask` in the style of GIO (`_async`, `_finish`): the
call returns at once, and some later callback must return the task, exactly
once. The answer to a request comes in two parts, and this is where libssc is
hard: a **QMI response**, matched to its request by a transaction id, which
only says that the DSP took the request; and later a **report** (a QMI
indication) that carries the answer and is matched to nothing. `SSCClient` gives
every report to every handler of its `report` signal, and each handler decides
from the UID and the kind of the message whether it is meant.

### Inventory

**SSCSensor** (`libssc-sensor.c`): base class of all sensors.
State: the client, the data type, the UID (`uid_high`, `uid_low`), what the
attribute report said (`available`, `stream_type`, `sample_rate`,
`mount_matrix`, name, vendor), `service_available` and `service_retries` of the
wait for the sensor service, and `report_id`, the identifier of the one
"report" handler it expects to have.
Operations: asynchronous initialisation (create a client, poll for the registry
sensor up to `MAX_RETRIES` times, discover the UID of its data type, read the
attributes), `open`, `close`, `report_received`, disposal.
Hard: initialisation is a chain of four requests, each sent from the report of
the one before; the context of a task (`ReportReceivedContext`) stays connected
until some report ends it; requests time out, are cancelled or rejected on
their own; a response and the report may arrive in either order; reports of
other data types, and reports left over from before, reach the same handler;
`close` may be called at any time; and the sensor may go while requests are out.
Correct means: every call returns exactly once; a context is connected exactly
while its task waits; a report is taken for the answer to the request it
answers; success means what it says (the service was seen, the UID known, the
sensor enabled); the errors name the reason; letting go releases the client.

**SSCClient** (`libssc-client.c`): one QMI client of the DSP's service.
State: QRTR bus, QMI device, QMI client, its reference count.
Operations: creation over four asynchronous calls of libqrtr and libqmi, `send`,
the two "report" indications (small and large), and `dispose`, which releases
the QMI client and closes the device, waiting for each in a nested main loop.
Hard: any of the four steps of creation may fail or be cancelled, also just as
it succeeds; every request holds a reference, so disposal happens after the last
of them; other callbacks run inside the nested loops of `dispose`.
Correct means: the count is that of the holders; a holder finds everything it
needs; creation, requests and disposal end; nothing is left behind.

**Mount matrix** (`libssc-sensor.c:386-418`, `libssc-sensor-accelerometer.c`):
nine cells read from the attributes, a fallback for a matrix of zeros, and its
application to an acceleration. Correct means: the matrix is the firmware's or
the identity, and applying it keeps the magnitude.

**Six drivers** (`libssc-sensor-{accelerometer,gyroscope,magnetometer,light,
compass,proximity}.c`): subclasses that connect a handler of their own to
`report` when opened, disconnect it when closed, unpack measurements and emit a
`measurement` signal from an idle callback. State: `report_id` again, and the
last value (proximity). Hard: the idle callback runs after the handler returned,
perhaps after a close, and holds no reference of the sensor; the driver's handler
sees a report before the base class's returns the open with it; an open that is
refused or fails leaves the handler connected; proximity reports changes only. Correct means: what is heard are the reports between an
open and the next close, once each, in order and in the application's units;
open and close balance.

**Synchronous wrappers** (`libssc-common.c`, the `_sync` functions): run a nested
main loop until the asynchronous call is done. Correct means: they return when,
and only when, their own call did.

**ssccli** (`libssc-cli.c`): opens one sensor, prints, closes after a time.
State: where `main` is. Hard: everything else runs inside its nested loops, and it
exits right after its close, or without one where the open failed. Correct means:
it ends, with the exit code of what failed, and leaves the sensor disabled.

**Mock DSP server** (`src/mocking/ssc_server`): the only description of the DSP's
side in the repository. It confirms a request with a response first, then acts
upon it and indicates (`ssc-server.in:180`, `:228`).

**Protobuf and QMI encoding** (`src/data`): generated code and message layouts.

**Tests, build files, documentation**: `src/tests`, `src/docs`, `src/CHANGELOG.md`.

### How they interact

    application ──calls──▶ driver ──▶ SSCSensor ──▶ SSCClient ──QMI──▶ DSP
         ▲                   ▲            ▲             │
         └───── signals ─────┴── GTask ───┴── "report" ─┴◀── responses, indications

A driver and its base class both listen to the `report` signal of one client.
A sensor owns one reference of its client, and so does every request.


## 2. The models

| module | models | lines it stands for |
|---|---|---|
| `SSCSensor` | one sensor, the request and report halves of its client, the DSP | `libssc-sensor.c`, `libssc-client.c:120-300`, the server's order of events |
| `SSCClientLife` | the promise of a client, abstract | - |
| `SSCClient` | one client: creation, requests, references, disposal | `libssc-client.c` |
| `SSCMountMatrix` | reading and applying the mount matrix | `libssc-sensor.c:386-418`, the accelerometer |
| `SSCSensorApi` | the promise of an `SSCSensor` to its subclasses, abstract | `libssc-sensor.c:96-290`, `:452-497` |
| `SSCSensorDrivers` | the six drivers over that promise | `libssc-sensor-*.c` |
| `SSCMeasurements` | the promise of a driver to an application, abstract | the drivers' `report_received` |
| `SSCPrograms` | ssccli and any other program over a driver, synchronous calls | `libssc-cli.c`, `libssc-common.c`, the `_sync` functions |
| `Subsequences` | what belongs to a set of a queue, as a function that proofs can expand | - |
| `MCSSC*` | instances for TLC | - |
| `*_proofs` | theorems, section 5 | - |

`PROJECT.json` maps every definition to the lines it stands for.

### SSCSensor

An action is one callback of the main loop, run to its return. The state is that
of `SSCSensorPrivate` plus what the code keeps elsewhere:

* `task` is the status of every `GTask`: unused, pending, or what it returned.
  `InitTask` is the one of `ssc_sensor_new`, the others those of the
  application's opens and closes.
* `listeners` are the tasks whose context is connected to `report`, and
  `report_id` names the context whose handler identifier the sensor remembers.
  The two are separate in the code (the handler list of the signal, a field of
  the sensor), so they are here; `StopListening` is
  `g_signal_handler_disconnect (client, priv->report_id)` with the reset after it.
* `requests`, `dsp_busy`, `wire` and `inds` are where a message may be: on its way
  to the DSP, answered but not acted upon, on its way back, and read from the
  device but waiting for libqmi's idle callback. Responses are dispatched when
  read and indications from the idle loop, so a response overtakes an indication
  that came just before it.
* `outstanding` are the transactions whose callback has not run.
* `attrs`, `uid_known`, `service_available`, `service_retries` are the fields of
  the private structure, with the data reduced to what decides: availability,
  stream type, whether there is a sample rate.
* `client` goes from "creating" over "up" and "disposing" to "gone".
* `halt` says that the process stopped or did something undefined: a
  `g_assert`, a returned (hence freed) task used by a report or a callback
  ("stale_task"), a handler that ran for a freed sensor ("stale_sensor"), a
  freed error read ("freed_error"). The model stops there, as nothing can be
  said of what follows.

`New`, `ClientReady`, `Open`, `Close`, `SensorDispose` are the calls and the
callback of the client's creation. `RequestReady` is `request_ready` with the
callback handed to `ssc_client_send`, reached from a response
(`ReceiveResponse`) or from a failure on the host (`Abort`). `Dispatch` is one
indication handed to `report_received` for each listener; `Handle` is that
function's case distinction (`ServiceFound`, `ServiceMissing`, `SensorFound`,
`SensorMissing`, `AttributesReceived`, `EnableConfirmed`). `DspReply`, `DspAct`,
`DspStream` are the DSP, in the mock server's order; `DspForeign` is the SUID
report of a data type nobody here asked for, which a comment in `report_received`
says does happen "due to concurrency".

`Faults` says what goes wrong in an instance: `abort` (time-out, cancellation, a
request that cannot be sent), `reject` (a QMI error), `foreign`, `garbled`.

### SSCClient and SSCClientLife

`SSCClientLife` is what whoever creates a client relies on: creation ends, with a
client or without; the client is up while it is owned or busy, is disposed
exactly when it is neither, and takes no new request then. `SSCClient` is the
code: `stage` is the callback it waits for (bus, device, open, allocate; then
idle; then releasing and closing, the two nested loops of `ssc_client_dispose`),
`refs` the reference count, and `bus`, `device`, `device_open`, `qmi_client` what
it holds. `cancelled` is the cancellable of the creation: `GTask` returns the
cancellation instead of whatever a callback returns
(`g_task_return_error_if_cancelled` and the check of `g_task_propagate_*`), also
when the last step succeeded.

Both sides of the interface meet in the promise: `SSCClient` **implements**
`SSCClientLife` (`ImplementsLife`), and the small client inside `SSCSensor` is
shown to **be used** exactly as `SSCClientLife` has it (`UsesClient`), so the
one may stand for the other. `SSCSensor` keeps requests and reports in detail,
`SSCClient` creation and disposal.

### SSCMountMatrix

Values are integers in units of 1/`One`. `CellSum` is the `gint sum` of the code,
truncated at each addition; `Fallback` sets the diagonal and nothing else.

### SSCSensorApi, SSCSensorDrivers, SSCMeasurements, SSCPrograms

Three layers, each resting on what the one below it promises:

    SSCPrograms ──▶ SSCSensorDrivers ──▶ SSCSensorApi ◀── SSCSensor
    (ssccli, _sync)   │  (six drivers)      (abstract)       (ImplementsApi)
                      └──▶ SSCMeasurements   (MeasurementsHeard)

* `SSCSensorApi` replaces requests, responses, listeners and transactions by what
  a subclass may rely on: a creation ends; an open ends with the first report
  after its call; a close ends once the DSP has seen all that was called before
  it; a report dispatched is there for every handler. With `CallsFail` FALSE it
  describes requests that succeed, and `SSCSensor` **implements** it
  (`ImplementsApi`, `MCSensorReliable`) under the mapping at its end: a pending
  call's request, wherever it is, is an element of `ops`, and the reports on the
  wire and in the idle queue are `reports`.
  With `CallsFail` TRUE any request may fail on the host, and the DSP still gets to
  see it or does not: `FailClose` and `FailOpen` return the call with an error, and
  `FailOpen` leaves the context of the base class connected (`stale`, libssc-sensor.c:170),
  as a creation that failed may; `CreationHangs` is the creation whose attribute
  request failed (:507). What then uses a returned task or a freed error stops the
  model (`UseFreed`, `halt`): a report that finds a stale context, an error's message
  read late (:173), the failure of an enable request whose open a report has returned.
  A rejection is one step here (the DSP drops the request and the host hears of it);
  reports that do not unpack, and SUID reports of other data types, are left to
  `SSCSensor`.
* `SSCSensorDrivers` **extends** it: every action of a driver contains an action of
  the base sensor or leaves it alone. `handlers` are the opens
  whose handler is connected, `report_id` the one `priv->report_id` names,
  `client_refs` the references `g_object_get` gave, `near` and `reported_once` the
  proximity driver's, `idle` the queued idle callbacks, `done` the driver's own
  task of each call. `DispatchReport` is `handle_report` of the client, with the
  handlers in the order they were connected: the driver's, then the base class's.
  A driver's `Report` says what it makes of a measurement, which is the id of its
  message, how many values it holds, and one value: an acceleration along one
  axis, the angle `atan2` gave, the `near` of a proximity report. `heard` and `turn`
  are the application's: the last measurement since its last open, and whether it
  opened or closed last. `leftover` and `fresh` tell measurements of an earlier
  opening from those of the last: how many of the queued callbacks are older than
  it, and whether `heard` is not.
  An idle callback may run at any time, before or after a close returns or another
  open is called: nothing in the code orders them. The source holds no reference
  of the sensor, an idle source yields to a response that is ready, and the loop may
  have been blocked in between (`g_usleep`, libssc-sensor.c:325). `EmitStops` is such
  a callback that finds its sensor freed, `HandlerStops` a report whose handler does.
* `SSCMeasurements` knows neither handlers nor tasks: whether the application
  listens, what is about to be heard, and which report says something new. The
  drivers **implement** it.
* `SSCPrograms` is ssccli, branch by branch of `main`, or (`pc = "other"`) any program
  that keeps to `ApplicationStep`: it opens and closes in turn, waits for its calls
  before it opens again, may close at any time and more than once, and lets go of
  a sensor it has closed or whose last open has failed. A `_sync` function is its call and
  the nested loop that ends when the call's own callback has run (`Finished`);
  everything else of the model goes on meanwhile. `stop` is "exit" when the process
  is gone.


## 3. The runs

| run | distinct states | result |
|---|---|---|
| `MCSensorReliable` | 66537 | holds |
| `MCSensorFaulty` | 676164 | holds |
| `MCPrograms` | 146374 | holds |
| `MCClient` | 230 | holds |
| `MCMountAxes` | 500 | holds |
| `MCSensorStaleMeasurement`, `MCSensorTimedOut`, `MCSensorClosedWhileOpening`, `MCSensorAttributesRejected`, `MCClientNotAllocated`, `MCDriverFreed`, `MCDriverClientKept` | - | each violated, section 6 |

**MCSensorReliable**: two opens and two closes, in any order the application may
choose, over a DSP that answers every request and firmware with every kind of
attributes. `TypeOK`, `ListenerDiscipline` (a context is connected exactly while
its task waits, one at most, and `report_id` names it; so no report and no
callback ever uses a returned task or a freed sensor), `OneStepInFlight` (during
initialisation exactly one message is anywhere, so a report can only belong to
the request it seems to answer), `FirstOpenMeansEnabled` (when the first open of a
sensor has succeeded its enable request is not still waiting at a DSP that does
not stream), `ImplementsApi` (with the fairness of `SSCSensorApi`), and
`InitReturns`, `OpenReturnsUnlessClosed`, `CloseReturns`, `ClientReleased`: every
call returns, an open unless a disable request overtakes it, and letting go ends
with the client released.

**MCSensorFaulty**: one open, one close, every fault. `NoServiceMeansExhausted`
(`NO_SERVICE` is returned exactly when the polls are used up and the service was
never seen), `ReadyOnlyAfterService` (no fault hands out a sensor that was not
discovered), `NobodyWaitsInVain` (what hangs here is never a call whose answer was
forgotten: a pending close has its request or the response to it on the way, and
a pending open, where no close was called, has its request or the rejection of
it on the way, or a sensor that streams), `UsesClient`.

**MCPrograms**: every driver under ssccli and under any other program, two opens
and a close, any request of which may fail, and for each driver readings that differ
to the application: two values, one too few, one out of range, a message of the other
kind. `HandlerDiscipline` (exactly one handler, the last open's, from an open to
the next close and otherwise none; a report finds a freed sensor only after an open
that failed, whose handler nobody disconnects), `NothingBeforeOpenReturns` (no
report of an opening is heard before its open has returned, although callbacks of
an earlier one may be), `MeasurementsHeard` (the refinement),
`ReturnsPassedOn` (a driver's call hangs only if the base class's does),
`OutputsWhenOpened` (each successful open is followed by a measurement unless the
sensor is closed first, "Proximity sensor will always output a measurement now
when opened"), `SensorLeftDisabled` (when ssccli exits the DSP does not stream, or
has answered the close and has nothing else to act upon, unless the request of its
open or of its close failed on the host: after the former it exits without a close,
libssc-cli.c:212, and after the latter it exits all the same), `CliEnds` (unless the
creation of the sensor never ends).

**MCClient**: three requests; every step of the creation, the cancellable, the
requests and the close may fail. `ReferencesHeld`, `UsableWhileUsed`,
`UsedClientLeavesNothing`, and `ImplementsLife` (with its liveness);
deadlock checked.

**MCMountAxes**: all 48 mountings along the axes, the zero matrix, reports of no,
nine and twelve values, and nine values that are no floats. `FirmwareOrIdentity` is
about reports of up to nine values: of a 3x4 matrix the code takes the first nine
values and the documentation the first three columns, which row by row are not the
same (section 6), so there what the firmware says is left open. `MagnitudeKept` covers
twelve values whose first nine are the matrix.

Bounds, and why they are enough:

* `MaxRetries` is 2 or 3 for the code's 100: the counter is compared with the
  limit only, so "first", "between" and "last" poll are there. The theorems of
  section 5 hold for every limit.
* `MaxInFlight` (2 or 3) stops the DSP from streaming unasked while so many
  messages travel; answers to requests are never bounded. A report handled
  first, one behind it and one that arrives meanwhile are there, and no action
  looks further than the head of a queue.
* In `MCPrograms` `MaxInFlight` bounds reports and queued idle callbacks together:
  one of each kind, and two of either, are there.
* Two opens and one close are the least in which something of one opening can
  meet the next, and `MCPrograms` has no more: a second close makes the instance
  ten times as large. Overlapping closes are in `MCSensorReliable`, which has two
  of each, and the theorems about the drivers hold for any number. An open waits for the previous open (`Open`'s guard); a close
  may come at any time. Overlapping opens are not modelled (section 7).
* `next_id` and `service_retries` are not capped: tasks and retries are finite,
  so they are as well.
* No symmetry is used: no set of values in these instances is large.

`CHECK_DEADLOCK FALSE` stands where the system really may stop: an open that a
close overtook stays pending with nothing on its way (section 6), a sensor whose
initialisation never returned likewise, and a program that has exited.
`MCClient` and `MCMountAxes` check for deadlock: nothing may stop there but what
is finished.


## 4. Fairness

`SSCSensor!Fairness` is weak fairness of the main loop's callbacks
(`ClientReady`, `ClientDisposed`, `ReceiveResponse`, `QueueIndication`,
`Dispatch`) and of the DSP (`DspReply`, `DspAct`, `DspStream`). The first is what
a GLib main loop does: a ready source of equal priority is served, and the idle
callback of libqmi runs when nothing else is ready, which the finite traffic of
requests allows again and again. That the creation of a client and its disposal
end is what `SSCClient` shows of its own (`ImplementsLife` contains both as
fairness of the abstract promise). The DSP answers and, once enabled, streams;
where a run lets it fail (`reject`) its answer is an error, so it still answers.
Nothing makes the application open, close or let go, nothing makes a fault
happen, and nothing makes the DSP send foreign reports: those actions have no
fairness. Weak fairness is enough: a message stays at the head of its queue until
its own callback takes it, or, where the instance has that fault, until it is
dropped, which moves the queue on as well.

`SSCSensorApi!ApiFairness` is the same of the abstract sensor, and is implied by it
(`ImplementsApi`). `DriversFairness` adds the drivers' callbacks: the return of a
refused open, the idle callback (idle sources run when nothing of a higher
priority is ready, and reports are finite in between) and the client's disposal,
which `ClientReleased` shows of the base class. It is strong for one action, that
a streaming sensor now and then measures something it should report: the DSP
streams at its sample rate as long as it is enabled, and between two such
measurements the queue may be full again and again. Programs add that `main` goes
on when its nested loop has ended, and that its timeout fires; other
applications have no fairness.

`SSCClient!Fairness`: libqmi and libqrtr call back from every asynchronous call,
after their own time-outs at the latest (15 s for the open, 10 s for the
allocation, the requests, the release and the close).


## 5. The proofs

TLAPS proves the following for every value of the constants the `ASSUME`s allow:
any sets of tasks, any retry limit, any attributes, any faults, any bound on the
traffic.

`SSCSensor_proofs`, from `ConstantsAssumption`:

* `TypeCorrect == Spec => []TypeOK`, inductive as it stands.
* `NoServiceIsExhaustion == Spec => []NoServiceMeansExhausted` and
  `ReadyAfterService == Spec => []ReadyOnlyAfterService`, from `ServiceInv`. Neither
  is inductive: a discovered sensor might be "ready" because an open was called
  before initialisation ended, or because the response of a close returned the
  wrong task. `ServiceInv` adds that nothing is out before the client is there,
  that the UID is learnt only after the service was seen, that the application
  calls only an initialised sensor, and that a request which returns its task on
  success is that of a close. It holds under **every** fault, because it does not
  say who listens.
* `ListenersCorrect`: if requests succeed (`Faults` has neither `abort` nor
  `reject`), `Spec => []ListenerDiscipline`, whatever foreign or garbled reports
  come. Without that assumption it is false (section 6). `ListenerInv` adds that
  the client goes after its sensor and the sensor after its last task, that every
  response on its way is a success, and that each pending close has exactly one
  disable request out (otherwise the second response would return it again).
* `ClientUsedAsPromised == Spec => UsesClient`: a refinement. `LifeInv` says when
  requests may be out and that disposal is not late; `NextIsLifeStep` sorts the
  actions into those which leave the client alone, send, or end a request; and
  `LifeStepImplements` maps each to a step or a stutter of `SSCClientLife`.

`SSCSensorMessages_proofs`, about what travels between the sensor and the DSP:

* `ChainUnbroken`: if nothing but `abort` goes wrong, `Spec => []OneStepInFlight`. The
  count says nothing of *which* message travels, so a report might be taken for the
  answer to a request it does not answer, which sends a second one. `ChainInv`
  says where every message is from, in each phase: nothing before the first
  request, then one message of the chain at most and that for the next thing to be
  known (`Asks`, `Answers`), then only the application's own. It holds whatever is
  lost, rejected or garbled (`ChainInvariant`), but not with `foreign` reports, which
  start a second chain (section 6). `TokenInv` adds that the context listens, so the
  message that ends one step begins the next; a rejected or a garbled message
  ends the chain early, so there "exactly one" is false and "one at most" remains.
* `FirstOpenEnables`: unless `foreign`, `Spec => []FirstOpenMeansEnabled`. `EnableInv`
  counts enable requests not acted upon: one at most while one open is called,
  none before, and none once anything of the stream is there, which is what makes
  a report proof that the request was seen. It leans on `ChainInv`: no message of
  initialisation is left when the first open is called.
* `OrderKept`, under **every** fault: transactions grow along the queue, what is on the
  wire answers earlier ones, and no request is answered twice (`OrderInv`); requests
  are those of calls, and one whose call waits has not ended on the host
  (`SentInv`); a sensor goes only when nothing waits (`GoneInv`).
* `NobodyWaits == Spec => []NobodyWaitsInVain`, under **every** fault: the safety core of
  "every call returns", which the fairness of section 4 then turns into returning.
  From `OrderKept`: a response can only be dropped if its transaction had ended,
  and `SentInv` says that its call had then returned.

`SSCSensorApi_proofs`:

* `SensorImplementsApi`: if `Faults = {}`, `Spec => Api!ApiSpec`, the safety part of
  `ImplementsApi`, for any number of calls, any retry limit and any attributes. One
  lemma per action says what the drivers see of it (`SeesOpen`, `SeesDspAct`, ...),
  from all the invariants above at once (`AllInvariants`). The two steps that need
  them: when the response to a close arrives, no other request waits at the DSP
  before that close's own (`CloseSeenFirst`, from `OrderInv`), and the report that
  returns an open returns every open that waits (`EveryOpenConfirmed`, from
  `ListenerInv`).
  `Faults = {}` is what the promise is about: with a failing request the base class
  breaks it. The proof changed the model once: the `CASE` of
  `SensorSeen` let a disposed sensor be "gone" and "ready" at a time, which TLC
  resolved silently by the order and a proof could not.

`Subsequences_proofs`: what `Only` selects of an empty queue, of one with an element more
or less at either end, and of two in a row. The induction theorems of the library take
a predicate as a parameter and cannot be used here. What can be used is a *set*: the
least element of a set of numbers (`LeastNatural`, from the well-foundedness of finite
sets) gives induction on sequences for a set of sequences (`AllSequences`), and that
`Only`'s recursive function exists (`SelectsExists`).

`SSCMountMatrix_proofs`, from `MountAssumption`, for any unit, reports and readings:

* `MountTypeCorrect == Spec => []TypeOK`: nine cells and three values, however many
  values come.
* `FirmwareDecides`: `Spec => []FirmwareOrIdentity` for every firmware whose 3x3
  matrices have whole cells that sum up to 0 only where all are 0 (`Telling`).
* `AxesKept`: where the first nine values are a matrix along the axes, or nothing,
  `Spec => []FirmwareOrIdentity /\ []MagnitudeKept`: any permutation with any signs, any
  reading. `AxesTell` shows that such cells sum up to an odd number.
* `AskewIsOverwritten`: of any matrix without a cell that reaches 1.0 or -1.0 the diagonal is overwritten and the rest
  kept, so the hypothesis of `FirmwareDecides` is needed.

`SSCClient_proofs`, from `ClientAssumption`:

* `TypeCorrect`, `ReferencesCounted == Spec => []ReferencesHeld`,
  `HoldersCanUse == Spec => []UsableWhileUsed`, all from one inductive invariant
  `ClientInv`: `TypeOK` needs the count (it is never negative), the count needs
  the stage (who may still take or drop a reference), the stage needs the count
  (the client is disposed when it reaches 0), so none is inductive alone.
  The count is a cardinality, hence the lemmas on `PendingSends` first.
* `NothingIsLeft == Spec => []UsedClientLeavesNothing`.
* `ClientLivesAsPromised == Spec => Life!Spec`: the safety part of
  `ImplementsLife`.

`SSCSensorDrivers_proofs`, from `ApiAssumption` and `DriversAssumption`, for any calls,
readings, mounting and bound on the traffic:

* `DriversTyped == DriversSpec => []DriversTypeOK`, from the types of the base
  sensor (`ApiStepType`) and of each driver's report (`ReportType`).
* `HandlersBalance` and `NothingHeardEarly`: `DriversSpec => []HandlerDiscipline` and
  `=> []NothingBeforeOpenReturns`, with failing requests and whenever idle callbacks
  run. Neither is inductive.
  `HandlerInv` adds that nothing travels of a sensor that was never open-able, nor of
  one that is gone unless it has no handler or an open has failed (`QuietUnlessReady`),
  that nothing is due of a sensor that was never open-able (`NoneDue`), that an open
  whose request failed has left its context (`FailedIsStale`), that the driver's task
  waits only while the base class's does (`TasksFollow`), and that what is due or
  heard and not older than the last open belongs to one that has returned
  (`TellsOpened`).
* `HearsWhatIsMeasured == DriversSpec => MeasurementsHeard`. `MeasureInv`
  says which sensors have told nothing and that a sensor reports what its data
  type may measure; `DriverTells` compares the six handlers with
  `SSCMeasurements!Wanted` and `Value`, the heading among them
  (`v % 360` for the code's `v + 360` below zero); `MeasuredStep` maps each action.

`SSCPrograms_proofs`, from `ProgramsAssumption` (there is an open and a close):

* `ProgramsUseDrivers == Spec => DriversSpec`: ssccli is an application in the sense
  of `ApplicationStep`, and so `ProgramsHearWhatIsMeasured` carries the theorems above
  to it. `ProgramsTyped` is `TypeOK`.
* `CliLeavesSensorDisabled == Spec => []SensorLeftDisabled`. `CliInv` says for each place of `main` what has been called and which requests
  the DSP has yet to see.

Only model-checked: what holds under fairness (`InitReturns`,
`OpenReturnsUnlessClosed`, `CloseReturns`, `ClientReleased`,
`ReturnsPassedOn`, `OutputsWhenOpened`, `CliEnds`, and the liveness in `ImplementsLife` and
`ImplementsApi`), since neither fairness nor ENABLED is in the prover's reach. Every
invariant of a passing run, and the safety part of every refinement, is a theorem.
What a theorem assumes of `Faults` is needed: with one open and one close TLC finds
`OneStepInFlight` violated under `reject`, `garbled` and `foreign` each, `FirstOpenMeansEnabled`
under `foreign`, `ListenerDiscipline` under `abort` and `reject` each, and a step that is
none of `SSCSensorApi`'s under every one of the four (with `CallsFail` FALSE; with
`abort` alone, two opens and a close it finds `Api!ApiSpec` implemented with
`CallsFail` TRUE, `stale` a listener whose task has returned, and `halt` any stop: that
instance is not among the runs, and for `reject` the one step of a rejection is in the
way). What happens without the assumption on the firmware is in section 6.


## 6. What the models show of the code

Seven properties that the repository's own words promise do not hold; each has a
run whose behaviour can be read step by step.

* **A measurement of the last opening confirms the next one**
  (`MCSensorStaleMeasurement`, `OpenMeansEnabled`): open, close, open. A report
  streamed before the close is dispatched after the second open listens
  (`libssc-sensor.c:486`): the open returns TRUE while the DSP is disabled and its
  enable request is unread.
* **A report after a failed request** (`MCSensorTimedOut`, `NoReturnedTaskUsed`):
  the `*_ready` callbacks return the task on failure and leave the context
  connected (`:170`); the report that comes after all uses the returned task.
* **A close during an open** (`MCSensorClosedWhileOpening`, `OpenReturns`): the
  close neither returns nor disconnects the open, and once the DSP is disabled
  nothing does.
* **Rejected attributes** (`MCSensorAttributesRejected`, `InitReturns`):
  `attribute_ready` only warns, so `ssc_sensor_new` never completes.
* **No QMI client** (`MCClientNotAllocated`, `NothingLeft`): `ssc_client_dispose`
  returns at once without a QMI client (`libssc-client.c:408`), leaving bus,
  device and the open file.
* **An idle callback outlives its sensor** (`MCDriverFreed`, `NoFreedSensorUsed`):
  open, a measurement, close, and the application lets go: `emit_signal`, queued at
  `libssc-sensor-accelerometer.c:103` with a plain pointer, emits on a freed sensor
  if the close has returned before it runs. No request fails in this run.
* **A driver keeps its client** (`MCDriverClientKept`, `DriverClientReleased`): open
  and close of every driver read the client with `g_object_get`
  (`libssc-sensor-accelerometer.c:146`, `:209`), which returns a reference, and
  nobody drops it; after one open the sensor's disposal no longer releases the
  QMI client.

Met on the way, and not among the runs:

* The test for a mount matrix that is "all 0" is a sum in a `gint`
  (`libssc-sensor.c:412`): fractions vanish and signs cancel, and the diagonal of a
  matrix that is not zero is overwritten (`AskewIsOverwritten`).
* A measurement of the last opening may be heard while the next open is pending, when
  its idle callback is still queued: `NothingBeforeOpenReturns` is about new ones.
* An open whose request fails leaves the driver's handler connected as well as the
  base class's context; a sensor let go then is used by the next report
  ("stale_report", which `HandlerDiscipline` admits for this case).
* ssccli exits after a failed open without a close (`libssc-cli.c:212`), although the
  DSP may have enabled the sensor.
* A proximity report that is neither near nor far stops the process
  (`libssc-sensor-proximity.c:98`, `HandlerStops`): only the firmware decides.
* `CLOSE_FAIL_EXIT_CODE` is defined in `libssc-cli.c:25` and never used: a failed
  close exits with 0.

* With `Faults = {"foreign"}`, `OpenMeansEnabled` fails in one opening: a SUID
  report of another data type before the service is up counts as a failed poll
  and starts a second chain of polls (`:307-330`), so a second attribute report
  may arrive during the open and complete it.
* `docs/Qualcomm-Sensorcore-Docs.md:1295` describes a 3x4 matrix, while
  `libssc-sensor.c:402-407` takes the first nine values; which layout the
  firmware uses cannot be told from the repository.
* `sensor_open_ready` and `sensor_close_ready` read the error's message after the
  task took the error over ("freed_error" in `FailRequest`).


## 7. What is not modelled

* Time. A time-out is an action that may happen; `g_usleep (1 s)` between polls
  is part of the poll.
* The contents of messages beyond what decides a branch; UIDs are "own",
  "registry" or "foreign". Of several sensors of one type the code takes the
  first, the default; the model knows one.
* The wrong thread, memory exhaustion, and a DSP that restarts: the code has no
  handler for the last, so nothing but time-outs (`abort`) would be seen.
* The nested main loops of `ssc_client_dispose` appear as the stages in which
  other callbacks run. A synchronous call made from inside a callback is not
  modelled.
* What libqmi does with an indication still queued for a client that has been
  finalized is not to be read from this repository (`ClientDisposed` drops them).
* Overlapping opens: `SSCSensor` lets the application wait for an open before the
  next, `SSCSensorDrivers` for a close too. ssccli and the tests do; the code does
  not ask for it, and with one slot for `report_id` it could not be otherwise.
* What follows once freed memory was used: the models stop there.
* A retry of an open that failed, without a close in between: the driver's second
  handler would take the only `report_id`. `ApplicationStep` closes first.
* The cancellable of a call of the sensor: `g_task_propagate_*` turns the result of a
  call into a cancellation where it fired meanwhile, which the caller sees and the
  sensor does not (in `SSCClient` it decides who gets the client, and is modelled).
  That a cancellable ends a request is `Abort`.
* The success callbacks cast a task that a report may have returned
  (`libssc-sensor.c:167`, `:548`, `:602`) and do nothing else with it: the check of
  the cast is compiled out of optimised builds, and no action stands for it.
* The cancellables of drivers: they are handed on to the base class.
* What ssccli prints, the length of its timeout (a 64-bit number of seconds passed
  as a `guint`), and its option parsing beyond "fails or not".
* Protobuf code (`src/data`, 3590 lines) is generated; a message is a record of the
  fields the code looks at. The mock server's encoding is left out likewise.


## 8. The plan

Done: 1. `SSCSensor`, its runs, `SSCSensor_proofs`. 2. `SSCClientLife`,
`SSCClient`, `SSCClient_proofs`. 3. `SSCMountMatrix`. 4. `SSCSensorApi`, implemented by
`SSCSensor`. 5. `SSCSensorDrivers` and `SSCMeasurements`, `SSCSensorDrivers_proofs`.
6. `SSCPrograms`, `SSCPrograms_proofs`.

7. `OneStepInFlight`, `FirstOpenMeansEnabled`, `NobodyWaitsInVain`, the safety part of
`SSCSensor => SSCSensorApi`, and the mount matrix, as theorems.

Left, in this order:

8. The refinement of `SSCSensorApi` with `CallsFail`, under `abort` and `reject`, as a
   run and a theorem: rejections need their two steps in the abstract module.
9. Overlapping opens: `Open`'s guard on pending opens as a constant, and what one
   `report_id` slot for two contexts does.
