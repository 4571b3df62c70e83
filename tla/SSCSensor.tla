----------------------------- MODULE SSCSensor -----------------------------
(***************************************************************************)
(* The life of one SSCSensor: asynchronous initialisation, opening,        *)
(* closing and disposal (src/src/libssc-sensor.c), over the request and    *)
(* report halves of its SSCClient (src/src/libssc-client.c), against the   *)
(* sensor service of the DSP as the mock server answers                    *)
(* (src/mocking/ssc_server/ssc-server.in).                                 *)
(*                                                                         *)
(* Everything on the host runs in one GLib main loop, so an action is one  *)
(* callback, run to its return.  A call of the asynchronous API is a       *)
(* GTask: it starts "pending" and must be returned exactly once.  The      *)
(* answer to a request is split in two: a QMI response, matched to the     *)
(* request by its transaction, and later a report (a QMI indication),      *)
(* matched to nothing and given to every listener of the "report" signal.  *)
(***************************************************************************)
EXTENDS Naturals, Subsequences

CONSTANTS
    InitTask,       \* the GTask of ssc_sensor_new
    OpenTasks,      \* the GTasks of the application's calls of ssc_sensor_open
    CloseTasks,     \* the GTasks of its calls of ssc_sensor_close
    NoTask,         \* "no task": user_data NULL, report_id 0
    MaxRetries,     \* MAX_RETRIES, 100 in the code
    Attributes,     \* the attribute reports the firmware may send
    Faults,         \* what the environment may do wrong, a subset of FaultKinds
    MaxInFlight     \* bound: no unsolicited report while so many messages travel

Tasks == {InitTask} \cup OpenTasks \cup CloseTasks

\* "abort": a request times out, is cancelled or cannot be sent;
\* "reject": the DSP answers a request with a QMI error;
\* "foreign": the DSP reports the SUID of a data type nobody here asked for;
\* "garbled": a report that does not unpack.
FaultKinds == {"abort", "reject", "foreign", "garbled"}

\* What one attribute report says; "absent" leaves the field as it was.
AttributeReports ==
    [available : {"yes", "no", "absent"},
     stream    : {"continuous", "on_change", "other", "absent"},
     rate      : {"positive", "absent"}]

\* What the sensor knows of itself; no positive rate is a rate of zero.
AttributeValues ==
    [available : {"yes", "no"},
     stream    : {"continuous", "on_change", "other"},
     rate      : {"positive", "absent"}]

ASSUME ConstantsAssumption ==
    /\ InitTask \notin OpenTasks \cup CloseTasks
    /\ OpenTasks \cap CloseTasks = {}
    /\ NoTask \notin Tasks
    /\ MaxRetries \in Nat \ {0}
    /\ MaxInFlight \in Nat
    /\ Attributes \subseteq AttributeReports
    /\ Faults \subseteq FaultKinds

VARIABLES
    task,               \* the status of every GTask
    listeners,          \* tasks whose ReportReceivedContext is connected to "report"
    report_id,          \* priv->report_id, named by the task of its context
    attrs,              \* priv->available, stream_type and sample_rate
    uid_known,          \* priv->uid_high and uid_low are those of the sensor
    service_available,  \* priv->service_available
    service_retries,    \* priv->service_retries
    disposed,           \* the sensor's memory is gone
    client,             \* the SSCClient the sensor refers to
    requests,           \* QMI requests on their way to the DSP
    outstanding,        \* transactions whose callback has not run
    next_id,            \* the next QMI transaction id
    wire,               \* responses and indications on their way to the host
    inds,               \* indications libqmi dispatches from the idle loop
    dsp_busy,           \* the request answered but not yet acted upon
    dsp_enabled,        \* the DSP streams measurements of this sensor
    halt                \* why the process stopped, "no" while it runs

sensorVars   == <<attrs, uid_known, service_available, service_retries>>
listenerVars == <<listeners, report_id>>
sendVars     == <<requests, outstanding, next_id>>
hostVars     == <<task, sensorVars, listenerVars, disposed, client, halt>>
dspVars      == <<dsp_busy, dsp_enabled>>
vars == <<hostVars, sendVars, wire, inds, dspVars>>

-----------------------------------------------------------------------------
(* Types *)

TaskStatus ==
    {"unused", "pending", "true", "false",          \* not called, running, returned
     "no_service", "unavailable", "no_sample_rate", \* SSCSensorError
     "request_failed", "client_failed"}             \* errors passed on

Ops == {"registry", "suid", "attributes", "enable", "disable"}
Request == [id : Nat, op : Ops, task : Tasks \cup {NoTask}]

Response == [kind : {"response"}, req : Request, ok : BOOLEAN]
Report ==
         [kind : {"suid"}, type : {"registry", "own", "foreign"}, found : BOOLEAN]
    \cup [kind : {"attributes"}, attrs : AttributeReports]
    \cup [kind : {"config", "measurement"}]

Halts == {"no", "stale_task", "stale_sensor", "freed_error", "assert"}

TypeOK ==
    /\ task \in [Tasks -> TaskStatus]
    /\ listeners \subseteq {InitTask} \cup OpenTasks
    /\ report_id \in {InitTask, NoTask} \cup OpenTasks
    /\ attrs \in AttributeValues
    /\ uid_known \in BOOLEAN
    /\ service_available \in BOOLEAN
    /\ service_retries \in Nat
    /\ disposed \in BOOLEAN
    /\ client \in {"none", "creating", "up", "disposing", "gone"}
    /\ requests \in Seq(Request)
    /\ outstanding \subseteq Request
    /\ next_id \in Nat
    /\ wire \in Seq(Response \cup Report)
    /\ inds \in Seq(Report)
    /\ dsp_busy \in Seq(Request)
    /\ dsp_enabled \in BOOLEAN
    /\ halt \in Halts

-----------------------------------------------------------------------------
(* Helpers *)

\* ssc_client_send: one QMI request with a transaction of its own.
Send(op, t) ==
    LET r == [id |-> next_id, op |-> op, task |-> t] IN
    /\ requests' = Append(requests, r)
    /\ outstanding' = outstanding \cup {r}
    /\ next_id' = next_id + 1

\* wait_for_sensor_service: ask for the registry sensor.
\* (mutant: no return after it, so the code goes on and discovers as well)
PollAndDiscover(t) ==
    LET r(i, op) == [id |-> next_id + i, op |-> op, task |-> t] IN
    /\ requests' = requests \o <<r(0, "registry"), r(1, "suid")>>
    /\ outstanding' = outstanding \cup {r(0, "registry"), r(1, "suid")}
    /\ next_id' = next_id + 2
Poll(t) == Send("registry", t)

\* g_task_return_*: a second return acts on a task that was already given
\* back and freed, which is undefined: the model stops there.
Return(t, result) ==
    IF task[t] = "pending"
    THEN task' = [task EXCEPT ![t] = result] /\ halt' = halt
    ELSE halt' = "stale_task" /\ UNCHANGED task

\* g_signal_connect of a context on "report".
Listen(t) == listeners' = listeners \cup {t} /\ report_id' = t

\* g_signal_handler_disconnect (priv->report_id), then report_id = 0.
\* (mutant: the identifier is cleared, the handler stays connected)
ForgetListener == UNCHANGED listeners /\ report_id' = NoTask
StopListening == listeners' = listeners \ {report_id} /\ report_id' = NoTask

\* The fields an attribute report names are overwritten, the others kept.
\* (mutant: a field the report leaves out is lost)
PopulateAll(old, report) == report
Populate(old, report) ==
    [f \in DOMAIN old |-> IF report[f] = "absent" THEN old[f] ELSE report[f]]

\* When the sensor is gone the transactions hold the last references of the
\* client: it is disposed as the last of them ends.
\* (mutants: a reference of the client is leaked; transactions hold none)
ClientLeaked(transactions, gone) == client
ClientUnheld(transactions, gone) == IF client = "up" /\ gone THEN "disposing" ELSE client
ClientAfter(transactions, gone) ==
    IF client = "up" /\ gone /\ transactions = {} THEN "disposing" ELSE client

Pending(tasks) == {t \in tasks : task[t] = "pending"}

-----------------------------------------------------------------------------
Init ==
    /\ task = [t \in Tasks |-> "unused"]
    /\ listeners = {} /\ report_id = NoTask
    /\ attrs = [available |-> "no", stream |-> "continuous", rate |-> "absent"]
    /\ uid_known = FALSE
    /\ service_available = FALSE /\ service_retries = 0
    /\ disposed = FALSE /\ client = "none"
    /\ requests = <<>> /\ outstanding = {} /\ next_id = 0
    /\ wire = <<>> /\ inds = <<>>
    /\ dsp_busy = <<>> /\ dsp_enabled = FALSE
    /\ halt = "no"

-----------------------------------------------------------------------------
(* The application *)

\* ssc_sensor_new: initable_init_async starts the creation of a client.
New ==
    /\ task[InitTask] = "unused"
    /\ task' = [task EXCEPT ![InitTask] = "pending"]
    /\ client' = "creating"
    /\ UNCHANGED <<sensorVars, listenerVars, disposed, halt, sendVars, wire, inds, dspVars>>

\* client_ready: the client could not be created, or initialisation starts
\* listening and polls for the sensor service.
ClientReady ==
    /\ client = "creating"
    /\ \/ /\ client' = "none"
          /\ Return(InitTask, "client_failed")
          /\ UNCHANGED <<sensorVars, listenerVars, sendVars>>
       \/ /\ client' = "up"
          /\ Listen(InitTask)
          /\ service_available' = FALSE /\ service_retries' = 0
          /\ Poll(InitTask)
          /\ UNCHANGED <<task, attrs, uid_known, halt>>
    /\ UNCHANGED <<disposed, wire, inds, dspVars>>

\* sensor_open.  The application waits for an open to return before it calls
\* the next one; nothing else orders its calls.
Open(t) ==
    /\ task[InitTask] = "true" /\ ~disposed
    /\ task[t] = "unused" /\ Pending(OpenTasks) = {}
    /\ \/ /\ attrs.available # "yes"
          /\ task' = [task EXCEPT ![t] = "unavailable"]
          /\ UNCHANGED <<halt, listenerVars, sendVars>>
       \/ /\ attrs.available = "yes"
          /\ attrs.stream = "continuous" /\ attrs.rate # "positive"
          /\ task' = [task EXCEPT ![t] = "no_sample_rate"]
          /\ UNCHANGED <<halt, listenerVars, sendVars>>
       \/ /\ attrs.available = "yes"
          /\ attrs.stream = "other"
          /\ halt' = "assert"
          /\ UNCHANGED <<task, listenerVars, sendVars>>
       \/ /\ attrs.available = "yes"
          /\ \/ attrs.stream = "continuous" /\ attrs.rate = "positive"
             \/ attrs.stream = "on_change"
          /\ task' = [task EXCEPT ![t] = "pending"]
          /\ Listen(t)
          /\ Send("enable", t)
          /\ UNCHANGED halt
    /\ UNCHANGED <<sensorVars, disposed, client, wire, inds, dspVars>>

\* sensor_close: no check of anything, and it does not stop listening.
Close(t) ==
    /\ task[InitTask] = "true" /\ ~disposed
    /\ task[t] = "unused"
    /\ task' = [task EXCEPT ![t] = "pending"]
    /\ Send("disable", t)
    /\ UNCHANGED <<sensorVars, listenerVars, disposed, client, halt, wire, inds, dspVars>>

\* The last reference of the sensor goes: the failed ssc_sensor_new_finish or
\* the application drops it, and no GTask holds it.
SensorDispose ==
    /\ ~disposed
    /\ task[InitTask] \notin {"unused", "pending"} /\ Pending(Tasks) = {}
    /\ disposed' = TRUE
    /\ client' = ClientAfter(outstanding, TRUE)
    /\ UNCHANGED <<task, sensorVars, listenerVars, halt, sendVars, wire, inds, dspVars>>

\* ssc_client_dispose returns from its nested main loops: the client id is
\* released, the device closed, and with it all that was on the way.
ClientDisposed ==
    /\ client = "disposing"
    /\ client' = "gone"
    /\ listeners' = {}
    /\ requests' = <<>> /\ wire' = <<>> /\ inds' = <<>>
    /\ dsp_busy' = <<>> /\ dsp_enabled' = FALSE
    /\ UNCHANGED <<task, sensorVars, report_id, disposed, halt, outstanding, next_id>>

-----------------------------------------------------------------------------
(* The end of a request *)

\* What the callback of a failed request does.  attribute_ready only warns;
\* sensor_open_ready and sensor_close_ready read the error's message after
\* the task took the error over, which may find it freed.
FailRequest(r) ==
    IF r.op = "attributes" THEN UNCHANGED <<task, halt>>
    ELSE \/ Return(r.task, "request_failed")
         \/ /\ r.op \in {"enable", "disable"}
            /\ halt' = "freed_error" /\ UNCHANGED task

\* Only sensor_close_ready returns its task when the request succeeds; the
\* others wait for a report.  (They cast a task that a report may have returned
\* and freed, libssc-sensor.c:167, and do not use it: no action here.)
\* (mutants: every callback returns its task; sensor_open_ready does, too;
\* sensor_close_ready forgets to)
EverySuccessReturns(r) == r.op # "attributes"
OpenSuccessReturns(r) == r.op \in {"enable", "disable"}
NoSuccessReturns(r) == FALSE
SuccessReturns(r) == r.op = "disable"

\* request_ready and the callback given to ssc_client_send.
RequestReady(r, ok) ==
    /\ r \in outstanding
    /\ outstanding' = outstanding \ {r}
    /\ client' = ClientAfter(outstanding', disposed)
    /\ IF ~ok THEN FailRequest(r)
       ELSE IF SuccessReturns(r) THEN Return(r.task, "true")
       ELSE UNCHANGED <<task, halt>>
    /\ UNCHANGED <<sensorVars, listenerVars, disposed, requests, next_id, inds, dspVars>>

\* A response arrives; one that comes after its request ended is dropped.
ReceiveResponse ==
    /\ wire # <<>> /\ Head(wire).kind = "response"
    /\ wire' = Tail(wire)
    /\ \/ RequestReady(Head(wire).req, Head(wire).ok)
       \/ /\ Head(wire).req \notin outstanding
          /\ UNCHANGED <<hostVars, sendVars, inds, dspVars>>

\* The ten seconds of a request pass, its cancellable fires, or it cannot be
\* sent: it ends on the host, whatever the DSP makes of it.
Abort ==
    /\ "abort" \in Faults
    /\ \E r \in outstanding : RequestReady(r, FALSE)
    /\ UNCHANGED wire

-----------------------------------------------------------------------------
(* Reports: report_received, for the context of task t *)

\* An indication is read from the device and waits for the idle loop, where
\* a response read after it overtakes it.
QueueIndication ==
    /\ wire # <<>> /\ Head(wire).kind # "response"
    /\ wire' = Tail(wire)
    /\ inds' = Append(inds, Head(wire))
    /\ UNCHANGED <<hostVars, sendVars, dspVars>>

IsService(m) == m.kind = "suid" /\ m.type = "registry" /\ m.found

\* The reports on which report_received uses its context's task.
\* (mutant: a measurement does not confirm an open)
ConcernsNotMeasurement(m) ==
    IF m.kind = "suid"
    THEN IsService(m) \/ ~service_available \/ m.type = "own"
    ELSE uid_known /\ m.kind # "measurement"
Concerns(m) ==
    IF m.kind = "suid"
    THEN IsService(m) \/ ~service_available \/ m.type = "own"
    ELSE uid_known

\* The registry sensor is there, so the others are: discover.
ServiceFound(t, m) ==
    /\ IsService(m)
    /\ service_available' = TRUE
    /\ Send("suid", t)
    /\ UNCHANGED <<task, halt, listenerVars, attrs, uid_known, service_retries>>

\* MAX_RETRIES polls were in vain.  (mutants: one too many, one too few)
ExhaustedLate(n) == n > MaxRetries
ExhaustedEarly(n) == n + 1 >= MaxRetries
Exhausted(n) == n >= MaxRetries

\* The service is not up yet: wait a second and poll again, or give up.
ServiceMissing(t, m) ==
    /\ m.kind = "suid" /\ ~IsService(m) /\ ~service_available
    /\ service_retries' = service_retries + 1
    /\ IF Exhausted(service_retries')
       THEN StopListening /\ Return(t, "no_service") /\ UNCHANGED sendVars
       ELSE Poll(t) /\ UNCHANGED <<task, halt, listenerVars>>
    /\ UNCHANGED <<attrs, uid_known, service_available>>

\* The sensor has a UID: ask for its attributes, for no task.
SensorFound(m) ==
    /\ m.kind = "suid" /\ service_available /\ m.type = "own" /\ m.found
    /\ uid_known' = TRUE
    /\ Send("attributes", NoTask)
    /\ UNCHANGED <<task, halt, listenerVars, attrs, service_available, service_retries>>

\* There is no sensor of this data type.
\* (mutant: initialisation is never told)
SensorMissingUntold(t, m) ==
    /\ m.kind = "suid" /\ service_available /\ m.type = "own" /\ ~m.found
    /\ StopListening
    /\ UNCHANGED <<task, halt, sensorVars, sendVars>>
SensorMissing(t, m) ==
    /\ m.kind = "suid" /\ service_available /\ m.type = "own" /\ ~m.found
    /\ StopListening /\ Return(t, "false")
    /\ UNCHANGED <<sensorVars, sendVars>>

\* The attributes are read, whichever task listens is done.
AttributesReceived(t, m) ==
    /\ m.kind = "attributes"
    /\ attrs' = Populate(attrs, m.attrs)
    /\ StopListening /\ Return(t, "true")
    /\ UNCHANGED <<uid_known, service_available, service_retries, sendVars>>

\* A configuration update or a measurement: whichever task listens is done.
EnableConfirmed(t, m) ==
    /\ m.kind \in {"config", "measurement"}
    /\ StopListening /\ Return(t, "true")
    /\ UNCHANGED <<sensorVars, sendVars>>

Handle(t, m) ==
    \/ ServiceFound(t, m)
    \/ ServiceMissing(t, m)
    \/ SensorFound(m)
    \/ SensorMissing(t, m)
    \/ AttributesReceived(t, m)
    \/ EnableConfirmed(t, m)

\* handle_report emits "report".  A context whose task was returned, or whose
\* sensor is gone, is used all the same: the model stops there.
Emit(m) ==
    \/ /\ listeners # {} /\ disposed
       /\ halt' = "stale_sensor"
       /\ UNCHANGED <<task, sensorVars, listenerVars, sendVars>>
    \/ /\ ~disposed /\ Concerns(m)
       /\ \E t \in listeners : task[t] # "pending"
       /\ halt' = "stale_task"
       /\ UNCHANGED <<task, sensorVars, listenerVars, sendVars>>
    \/ /\ ~disposed /\ Concerns(m)
       /\ \A t \in listeners : task[t] = "pending"
       /\ \E t \in listeners : Handle(t, m)
    \/ /\ listeners = {} \/ (~disposed /\ ~Concerns(m))
       /\ UNCHANGED <<task, halt, sensorVars, listenerVars, sendVars>>

Dispatch ==
    /\ client \in {"up", "disposing"} /\ inds # <<>>
    /\ inds' = Tail(inds)
    /\ Emit(Head(inds))
    /\ UNCHANGED <<disposed, client, wire, dspVars>>

\* A report that does not unpack is dropped with a warning.
DropGarbled ==
    /\ "garbled" \in Faults
    /\ client \in {"up", "disposing"} /\ inds # <<>>
    /\ inds' = Tail(inds)
    /\ UNCHANGED <<hostVars, sendVars, wire, dspVars>>

-----------------------------------------------------------------------------
(* The DSP, as the mock server does it: a QMI response first, then the act *)

DspReply ==
    /\ requests # <<>> /\ dsp_busy = <<>>
    /\ requests' = Tail(requests)
    /\ \/ /\ wire' = Append(wire, [kind |-> "response", req |-> Head(requests), ok |-> TRUE])
          /\ dsp_busy' = <<Head(requests)>>
       \/ /\ "reject" \in Faults
          /\ wire' = Append(wire, [kind |-> "response", req |-> Head(requests), ok |-> FALSE])
          /\ UNCHANGED dsp_busy
    /\ UNCHANGED <<hostVars, outstanding, next_id, inds, dsp_enabled>>

\* The service comes up when it likes, and sensors exist or do not.
DspAct ==
    /\ dsp_busy # <<>>
    /\ dsp_busy' = <<>>
    /\ LET op == Head(dsp_busy).op IN
       \/ /\ op = "registry"
          /\ \E found \in BOOLEAN :
                wire' = Append(wire, [kind |-> "suid", type |-> "registry", found |-> found])
          /\ UNCHANGED dsp_enabled
       \/ /\ op = "suid"
          /\ \E found \in BOOLEAN :
                wire' = Append(wire, [kind |-> "suid", type |-> "own", found |-> found])
          /\ UNCHANGED dsp_enabled
       \/ /\ op = "attributes"
          /\ \E a \in Attributes :
                wire' = Append(wire, [kind |-> "attributes", attrs |-> a])
          /\ UNCHANGED dsp_enabled
       \/ /\ op \in {"enable", "disable"}
          /\ dsp_enabled' = (op = "enable")
          /\ UNCHANGED wire
    /\ UNCHANGED <<hostVars, sendVars, inds>>

\* While a sensor is enabled it streams; the bound keeps the queues short.
DspStream ==
    /\ dsp_enabled /\ Len(wire) + Len(inds) < MaxInFlight
    /\ \E k \in {"config", "measurement"} : wire' = Append(wire, [kind |-> k])
    /\ UNCHANGED <<hostVars, sendVars, inds, dspVars>>

\* "due to concurrency" in report_received: SUID reports of other data types.
DspForeign ==
    /\ "foreign" \in Faults /\ client \in {"up", "disposing"}
    /\ Len(wire) + Len(inds) < MaxInFlight
    /\ \E found \in BOOLEAN :
          wire' = Append(wire, [kind |-> "suid", type |-> "foreign", found |-> found])
    /\ UNCHANGED <<hostVars, sendVars, inds, dspVars>>

-----------------------------------------------------------------------------
\* All is over: nothing is left of the sensor, or the process has stopped.
Finished ==
    /\ (disposed /\ client \in {"none", "gone"}) \/ halt # "no"
    /\ UNCHANGED vars

Step ==
    \/ New \/ ClientReady \/ SensorDispose \/ ClientDisposed
    \/ \E t \in OpenTasks : Open(t)
    \/ \E t \in CloseTasks : Close(t)
    \/ ReceiveResponse \/ Abort
    \/ QueueIndication \/ Dispatch \/ DropGarbled
    \/ DspReply \/ DspAct \/ DspStream \/ DspForeign

Next == (halt = "no" /\ Step) \/ Finished

Spec == Init /\ [][Next]_vars

\* The main loop serves what is ready, the DSP answers what it is asked and
\* streams while enabled.  Nothing makes the application call or let go.
Fairness ==
    /\ WF_vars(halt = "no" /\ ClientReady)
    /\ WF_vars(halt = "no" /\ ClientDisposed)
    /\ WF_vars(halt = "no" /\ ReceiveResponse)
    /\ WF_vars(halt = "no" /\ QueueIndication)
    /\ WF_vars(halt = "no" /\ Dispatch)
    /\ WF_vars(halt = "no" /\ DspReply)
    /\ WF_vars(halt = "no" /\ DspAct)
    /\ WF_vars(halt = "no" /\ DspStream)

FairSpec == Spec /\ Fairness

-----------------------------------------------------------------------------
(* Properties *)

\* The tasks that wait for a report to return them.
Awaiting == {t \in Pending({InitTask} \cup OpenTasks) : t # InitTask \/ client # "creating"}

\* No report and no failed request uses a task that was already returned:
\* whatever returned it also ended the listening (libssc-sensor.c:484).
NoReturnedTaskUsed == halt # "stale_task"

\* "complete task and stop listening" (libssc-sensor.c:441, 470, 484): a
\* context is connected exactly while its task waits, there is one at most
\* and report_id names it, so no report ever reaches a task already returned
\* or a sensor already freed.
ListenerDiscipline ==
    /\ listeners = Awaiting
    /\ \A t \in Awaiting : report_id = t
    /\ Awaiting = {} => report_id = NoTask
    /\ NoReturnedTaskUsed /\ halt # "stale_sensor"

\* Initialisation is one chain of request, report, request: while it runs
\* exactly one of its messages is anywhere between the host and the DSP, so a
\* report always belongs to the request it seems to answer (report_received
\* has no other way to tell).
OneStepInFlight ==
    task[InitTask] = "pending" /\ client = "up" =>
        Len(requests) + Len(dsp_busy) + Len(Only(wire, Report)) + Len(inds) = 1

\* SSC_SENSOR_ERROR_NO_SERVICE means just that: MAX_RETRIES reports without
\* the registry sensor and none with it, and initialisation gives up as soon
\* as the count is reached, whatever else the environment does.
NoServiceMeansExhausted ==
    task[InitTask] = "no_service" <=> service_retries = MaxRetries /\ ~service_available

\* A sensor is handed to the application only after the service was seen and
\* the sensor was found, however responses and reports are lost, late,
\* rejected or mixed with those of other data types.
ReadyOnlyAfterService ==
    task[InitTask] = "true" => service_available /\ uid_known

\* An open that reports success has enabled the sensor: while the DSP does
\* not stream, no successful open's enable request is still waiting there
\* ("Assume they are enabled when a measurement is received",
\* libssc-sensor.c:482).
EnabledOnceOpen(t) ==
    task[t] = "true" /\ ~dsp_enabled =>
        \A i \in DOMAIN (requests \o dsp_busy) :
            LET r == (requests \o dsp_busy)[i] IN ~(r.op = "enable" /\ r.task = t)
OpenMeansEnabled == \A t \in OpenTasks : EnabledOnceOpen(t)

\* The same of the first open of a sensor, before which nothing of it can be
\* on the way: no close and no leftover makes it succeed too early.
FirstOpenMeansEnabled ==
    \A t \in OpenTasks :
        (\A o \in OpenTasks \ {t} : task[o] = "unused") => EnabledOnceOpen(t)

\* No call waits for what cannot come, whatever is lost, rejected, garbled or
\* mixed up: a close that waits has its request or the response to it on the
\* way, and an open that waits, where no close was called, its request or the
\* rejection of it, or a sensor that streams.
Waits(queue, op, t) == \E i \in DOMAIN queue : queue[i].op = op /\ queue[i].task = t
ResponseComes(op, t, answers) ==
    \E i \in DOMAIN wire :
        /\ wire[i].kind = "response" /\ wire[i].ok \in answers
        /\ wire[i].req \in outstanding /\ wire[i].req.op = op /\ wire[i].req.task = t
CloseComes(t) == Waits(requests, "disable", t) \/ ResponseComes("disable", t, BOOLEAN)
OpenComes(t) ==
    \/ Waits(requests, "enable", t) \/ Waits(dsp_busy, "enable", t)
    \/ ResponseComes("enable", t, {FALSE})
    \/ dsp_enabled
NoClose == \A t \in CloseTasks : task[t] = "unused"
NobodyWaitsInVain ==
    halt = "no" =>
        /\ \A t \in Pending(CloseTasks) : CloseComes(t)
        /\ NoClose => \A t \in Pending(OpenTasks) : OpenComes(t)

\* The sensor, its requests and its disposal use the client as SSCClientLife
\* promises it, whatever is lost or late: the same promise that SSCClient
\* keeps, so that one model's client may stand for the other's.
Life == INSTANCE SSCClientLife WITH
    life <- IF client # "none" THEN client
            ELSE IF task[InitTask] = "unused" THEN "none" ELSE "failed",
    owned <- client = "up" /\ ~disposed,
    busy <- outstanding # {}
UsesClient == Life!Spec

\* To its subclasses the sensor is what SSCSensorApi says, as long as requests
\* succeed: which is all the drivers are checked against.  Requests become the
\* calls that sent them, and only the sensor's own reports are seen.
Usable ==
    attrs.available = "yes"
    /\ (attrs.stream = "on_change" \/ (attrs.stream = "continuous" /\ attrs.rate = "positive"))
SensorSeen ==
    IF disposed THEN "gone"
    ELSE CASE task[InitTask] = "unused" -> "none"
           [] task[InitTask] = "pending" -> "creating"
           [] task[InitTask] = "true" -> IF Usable THEN "ready" ELSE "unusable"
           [] OTHER -> "failed"
CallSeen(status) ==
    CASE status \in {"unused", "pending", "true"} -> status
      [] status \in {"unavailable", "no_sample_rate"} -> "refused"
      [] OTHER -> "failed"
CallsSeen == [t \in OpenTasks \cup CloseTasks |-> CallSeen(task[t])]
Commands == [id : Nat, op : {"enable", "disable"}, task : Tasks]
OpsSeen ==
    LET ops == Only(dsp_busy \o requests, Commands)
    IN  [i \in DOMAIN ops |-> ops[i].task]
StreamReports == [kind : {"config", "measurement"}]
ReportsSeen == Only(inds \o wire, StreamReports)

Api == INSTANCE SSCSensorApi WITH
    Opens <- OpenTasks, Closes <- CloseTasks, CallsFail <- FALSE,
    Measurements <- {[kind |-> "measurement"]},
    sensor <- SensorSeen,
    call <- CallsSeen,
    ops <- OpsSeen, streaming <- dsp_enabled, reports <- ReportsSeen,
    released <- client = "gone", stale <- FALSE, halt <- halt = "assert"
ImplementsApi == Api!ApiFairSpec

\* An application gets a sensor or an error from ssc_sensor_new.
InitReturns == task[InitTask] = "pending" ~> task[InitTask] # "pending"

\* Every call of ssc_sensor_open returns.
OpenReturns == \A t \in OpenTasks : task[t] = "pending" ~> task[t] # "pending"

\* An open returns unless a close gets in its way: it stays pending for ever
\* only if the disable request of a close was there while it waited.
DisableWaiting ==
    \E i \in DOMAIN (requests \o dsp_busy) : (requests \o dsp_busy)[i].op = "disable"
OpenReturnsUnlessClosed ==
    \A t \in OpenTasks :
        <>[](task[t] = "pending") => <>(task[t] = "pending" /\ DisableWaiting)

\* Every call of ssc_sensor_close returns, unless an open of a sensor with an
\* unknown stream type stops the process.
CloseReturns ==
    \A t \in CloseTasks :
        task[t] = "pending" ~> (task[t] # "pending" \/ halt = "assert")

\* Letting go of the sensor always ends with the client released.
ClientReleased == disposed ~> client \in {"none", "gone"}

=============================================================================
