-------------------------- MODULE SSCSensor_proofs --------------------------
(***************************************************************************)
(* Theorems about SSCSensor for every set of calls, every retry limit and  *)
(* every behaviour of the environment the constants allow.                 *)
(***************************************************************************)
EXTENDS SSCSensor, SequenceTheorems, TLAPS

-----------------------------------------------------------------------------
(* Type correctness *)

\* Sending keeps the types: the new request has the next transaction.
LEMMA SendType ==
    ASSUME TypeOK, NEW op \in Ops, NEW t \in Tasks \cup {NoTask}, Send(op, t)
    PROVE  /\ requests' \in Seq(Request)
           /\ outstanding' \subseteq Request
           /\ next_id' \in Nat
<1> DEFINE r == [id |-> next_id, op |-> op, task |-> t]
<1>1. r \in Request
    BY DEF TypeOK, Request
<1>2. requests' = Append(requests, r) /\ requests \in Seq(Request)
    BY DEF Send, TypeOK
<1>3. requests' \in Seq(Request)
    BY <1>1, <1>2
<1>4. outstanding' \subseteq Request /\ next_id' \in Nat
    BY <1>1 DEF Send, TypeOK
<1> QED
    BY <1>3, <1>4

\* Returning a task keeps the types.
LEMMA ReturnType ==
    ASSUME TypeOK, NEW t, NEW result \in TaskStatus, Return(t, result), halt \in Halts
    PROVE  task' \in [Tasks -> TaskStatus] /\ halt' \in Halts
BY DEF TypeOK, Return, Halts

\* No longer listening keeps the types.
LEMMA StopListeningType ==
    ASSUME TypeOK, StopListening
    PROVE  listeners' \subseteq {InitTask} \cup OpenTasks /\ report_id' \in {InitTask, NoTask} \cup OpenTasks
BY DEF TypeOK, StopListening

\* A report that fills in a sensor's attributes leaves no field absent.
LEMMA PopulateType ==
    ASSUME NEW old \in AttributeValues, NEW report \in AttributeReports
    PROVE  Populate(old, report) \in AttributeValues
BY DEF Populate, AttributeValues, AttributeReports

\* What is at the head of a queue has the queue's type, and so has the rest.
LEMMA QueueType ==
    ASSUME NEW S, NEW q \in Seq(S), q # <<>>
    PROVE  Head(q) \in S /\ Tail(q) \in Seq(S)
BY HeadTailProperties

\* A queue may be empty, and what is put at its end has its type.
LEMMA EnqueueType ==
    ASSUME NEW S
    PROVE  /\ <<>> \in Seq(S)
           /\ \A q \in Seq(S), e \in S : Append(q, e) \in Seq(S)
           /\ \A e \in S : <<e>> \in Seq(S)
BY EmptySeq, AppendProperties

\* The initial state has the types.
LEMMA InitTypeOK == Init => TypeOK
<1>1. <<>> \in Seq(Request) /\ <<>> \in Seq(Response \cup Report) /\ <<>> \in Seq(Report)
    BY EnqueueType
<1>2. NoTask \in {InitTask, NoTask} \cup OpenTasks /\ 0 \in Nat
    OBVIOUS
<1>3. Init => /\ requests \in Seq(Request) /\ dsp_busy \in Seq(Request)
             /\ wire \in Seq(Response \cup Report) /\ inds \in Seq(Report)
    BY <1>1 DEF Init
<1>4. Init => task \in [Tasks -> TaskStatus]
    BY DEF Init, TaskStatus
<1>5. Init => attrs \in AttributeValues
    BY DEF Init, AttributeValues
<1> QED
    BY <1>2, <1>3, <1>4, <1>5 DEF Init, TypeOK, Halts

\* report_received keeps the types, whatever it does with the report.
LEMMA EmitType ==
    ASSUME TypeOK, NEW m \in Report, Emit(m)
    PROVE  /\ task' \in [Tasks -> TaskStatus]
           /\ listeners' \subseteq {InitTask} \cup OpenTasks
           /\ report_id' \in {InitTask, NoTask} \cup OpenTasks
           /\ attrs' \in AttributeValues
           /\ uid_known' \in BOOLEAN
           /\ service_available' \in BOOLEAN
           /\ service_retries' \in Nat
           /\ requests' \in Seq(Request)
           /\ outstanding' \subseteq Request
           /\ next_id' \in Nat
           /\ halt' \in Halts
<1> USE DEF TypeOK, sensorVars, listenerVars, sendVars
<1>0. /\ {"no_service", "true", "false"} \subseteq TaskStatus
      /\ {"registry", "suid", "attributes"} \subseteq Ops
      /\ listeners \subseteq Tasks
    BY DEF TaskStatus, Ops, Tasks
<1>1. CASE halt' \in {"stale_sensor", "stale_task"}
           /\ UNCHANGED <<task, sensorVars, listenerVars, sendVars>>
    BY <1>1 DEF Halts
<1>2. CASE UNCHANGED <<task, halt, sensorVars, listenerVars, sendVars>>
    BY <1>2
<1>3. ASSUME NEW t \in listeners, Handle(t, m)
      PROVE  /\ task' \in [Tasks -> TaskStatus]
             /\ listeners' \subseteq {InitTask} \cup OpenTasks
             /\ report_id' \in {InitTask, NoTask} \cup OpenTasks
             /\ attrs' \in AttributeValues
             /\ uid_known' \in BOOLEAN
             /\ service_available' \in BOOLEAN
             /\ service_retries' \in Nat
             /\ requests' \in Seq(Request)
             /\ outstanding' \subseteq Request
             /\ next_id' \in Nat
             /\ halt' \in Halts
    <2>1. CASE ServiceFound(t, m)
        BY <2>1, <1>0, SendType DEF ServiceFound
    <2>2. CASE ServiceMissing(t, m)
        <3>1. CASE StopListening /\ Return(t, "no_service") /\ UNCHANGED sendVars
            BY <3>1, <2>2, <1>0, ReturnType, StopListeningType DEF ServiceMissing
        <3>2. CASE Poll(t) /\ UNCHANGED <<task, halt, listenerVars>>
            BY <3>2, <2>2, <1>0, SendType DEF ServiceMissing, Poll
        <3> QED BY <2>2, <3>1, <3>2 DEF ServiceMissing
    <2>3. CASE SensorFound(m)
        BY <2>3, <1>0, SendType DEF SensorFound
    <2>4. CASE SensorMissing(t, m)
        BY <2>4, <1>0, ReturnType, StopListeningType DEF SensorMissing
    <2>5. CASE AttributesReceived(t, m)
        <3>1. m.attrs \in AttributeReports
            BY <2>5 DEF AttributesReceived, Report
        <3> QED BY <3>1, <2>5, <1>0, ReturnType, StopListeningType, PopulateType DEF AttributesReceived
    <2>6. CASE EnableConfirmed(t, m)
        BY <2>6, <1>0, ReturnType, StopListeningType DEF EnableConfirmed
    <2> QED BY <1>3, <2>1, <2>2, <2>3, <2>4, <2>5, <2>6 DEF Handle
<1> QED BY <1>1, <1>2, <1>3 DEF Emit

\* Every step keeps the types.
LEMMA NextTypeOK == TypeOK /\ [Next]_vars => TypeOK'
<1> SUFFICES ASSUME TypeOK, [Next]_vars PROVE TypeOK'
    OBVIOUS
<1> USE ConstantsAssumption
<1>0. /\ OpenTasks \subseteq Tasks /\ CloseTasks \subseteq Tasks /\ InitTask \in Tasks
      /\ Report \subseteq Response \cup Report
    BY DEF Tasks
<1>1. CASE New
    BY <1>1, <1>0 DEF New, TypeOK, sensorVars, listenerVars, sendVars, dspVars, TaskStatus
<1>2. CASE ClientReady
    <2>1. CASE client' = "none" /\ Return(InitTask, "client_failed")
               /\ UNCHANGED <<sensorVars, listenerVars, sendVars>>
        BY <2>1, <1>2, <1>0, ReturnType DEF ClientReady, TypeOK, TaskStatus, sensorVars, listenerVars, sendVars, dspVars
    <2>2. CASE client' = "up" /\ Listen(InitTask) /\ service_available' = FALSE /\ service_retries' = 0
               /\ Poll(InitTask) /\ UNCHANGED <<task, attrs, uid_known, halt>>
        <3>1. Send("registry", InitTask)
            BY <2>2 DEF Poll
        <3> QED BY <3>1, <2>2, <1>2, <1>0, SendType
                DEF ClientReady, Listen, TypeOK, Ops, dspVars
    <2> QED BY <1>2, <2>1, <2>2 DEF ClientReady
<1>3. CASE SensorDispose \/ ClientDisposed
    BY <1>3, EnqueueType DEF SensorDispose, ClientDisposed, ClientAfter, TypeOK, sensorVars, listenerVars, sendVars, dspVars
<1>4. ASSUME NEW t \in OpenTasks, Open(t)
      PROVE TypeOK'
    <2>1. CASE Send("enable", t) /\ Listen(t) /\ task' = [task EXCEPT ![t] = "pending"] /\ UNCHANGED halt
        BY <2>1, <1>4, <1>0, SendType
           DEF Open, Listen, TypeOK, Ops, TaskStatus, sensorVars, dspVars
    <2>2. CASE UNCHANGED <<listenerVars, sendVars>> /\ halt' \in {halt, "assert"}
               /\ \/ task' = task
                  \/ task' = [task EXCEPT ![t] = "unavailable"]
                  \/ task' = [task EXCEPT ![t] = "no_sample_rate"]
        BY <2>2, <1>4, <1>0 DEF Open, TypeOK, TaskStatus, Halts, sensorVars, listenerVars, sendVars, dspVars
    <2> QED BY <1>4, <2>1, <2>2 DEF Open
<1>5. ASSUME NEW t \in CloseTasks, Close(t)
      PROVE TypeOK'
    BY <1>5, <1>0, SendType DEF Close, TypeOK, Ops, TaskStatus, sensorVars, listenerVars, dspVars
<1>6. ASSUME NEW r \in outstanding, NEW ok \in BOOLEAN, RequestReady(r, ok),
             wire' \in Seq(Response \cup Report)
      PROVE TypeOK'
    <2>1. task' \in [Tasks -> TaskStatus] /\ halt' \in Halts
        BY <1>6, ReturnType DEF RequestReady, FailRequest, TypeOK, TaskStatus, Halts
    <2> QED BY <2>1, <1>6 DEF RequestReady, ClientAfter, TypeOK, sensorVars, listenerVars, dspVars
<1>7. CASE ReceiveResponse
    <2>1. Head(wire) \in Response \cup Report /\ wire' \in Seq(Response \cup Report)
        BY <1>7, QueueType DEF ReceiveResponse, TypeOK
    <2>2. Head(wire).ok \in BOOLEAN
        BY <2>1, <1>7 DEF ReceiveResponse, Response, Report
    <2>3. CASE RequestReady(Head(wire).req, Head(wire).ok)
        BY <2>1, <2>2, <2>3, <1>6 DEF RequestReady
    <2>4. CASE UNCHANGED <<hostVars, sendVars, inds, dspVars>>
        BY <2>4, <2>1 DEF TypeOK, hostVars, sensorVars, listenerVars, sendVars, dspVars
    <2> QED BY <1>7, <2>3, <2>4 DEF ReceiveResponse
<1>8. CASE Abort
    BY <1>8, <1>6 DEF Abort, TypeOK
<1>9. CASE QueueIndication
    <2>1. Head(wire) \in Response \cup Report /\ wire' \in Seq(Response \cup Report)
        BY <1>9, QueueType DEF QueueIndication, TypeOK
    <2>2. Head(wire) \in Report
        BY <2>1, <1>9 DEF QueueIndication, Response
    <2>3. inds' \in Seq(Report)
        BY <2>2, <1>9 DEF QueueIndication, TypeOK
    <2> QED BY <2>1, <2>3, <1>9 DEF QueueIndication, TypeOK, hostVars, sensorVars, listenerVars, sendVars, dspVars
<1>10. CASE Dispatch \/ DropGarbled
    <2>1. inds \in Seq(Report) /\ inds # <<>> /\ inds' = Tail(inds)
        BY <1>10 DEF Dispatch, DropGarbled, TypeOK
    <2>a. Head(inds) \in Report /\ inds' \in Seq(Report)
        BY <2>1, QueueType
    <2>2. CASE Dispatch
        BY <2>a, <2>2, EmitType DEF Dispatch, TypeOK, dspVars
    <2>3. CASE DropGarbled
        BY <2>a, <2>3 DEF DropGarbled, TypeOK, hostVars, sensorVars, listenerVars, sendVars, dspVars
    <2> QED BY <1>10, <2>2, <2>3
<1>11. CASE DspReply
    <2>1. Head(requests) \in Request /\ requests' \in Seq(Request)
        BY <1>11, QueueType DEF DspReply, TypeOK
    <2>2. \A b \in BOOLEAN : [kind |-> "response", req |-> Head(requests), ok |-> b] \in Response
        BY <2>1 DEF Response
    <2>3. /\ \E b \in BOOLEAN : wire' = Append(wire, [kind |-> "response", req |-> Head(requests), ok |-> b])
          /\ dsp_busy' \in {dsp_busy, <<Head(requests)>>}
        BY <1>11 DEF DspReply
    <2>4. wire' \in Seq(Response \cup Report)
        BY <2>2, <2>3, EnqueueType DEF TypeOK
    <2>5. dsp_busy' \in Seq(Request)
        <3>1. <<Head(requests)>> \in Seq(Request) /\ dsp_busy \in Seq(Request)
            BY <2>1, EnqueueType DEF TypeOK
        <3> QED BY <2>3, <3>1
    <2> QED BY <2>1, <2>4, <2>5, <1>11 DEF DspReply, TypeOK, hostVars, sensorVars, listenerVars
<1>12. CASE DspAct
    <2>1. /\ \A f \in BOOLEAN : /\ [kind |-> "suid", type |-> "registry", found |-> f] \in Report
                                /\ [kind |-> "suid", type |-> "own", found |-> f] \in Report
          /\ \A a \in Attributes : [kind |-> "attributes", attrs |-> a] \in Report
        BY DEF Report
    <2>2. wire' = wire \/ \E m \in Report : wire' = Append(wire, m)
        BY <2>1, <1>12 DEF DspAct
    <2>3. wire' \in Seq(Response \cup Report)
        <3>1. wire \in Seq(Response \cup Report)
            BY DEF TypeOK
        <3>2. ASSUME NEW m \in Report PROVE Append(wire, m) \in Seq(Response \cup Report)
            BY <3>1, EnqueueType
        <3> QED BY <2>2, <3>1, <3>2
    <2>4. dsp_busy' \in Seq(Request) /\ dsp_enabled' \in BOOLEAN
        BY <1>12, EnqueueType DEF DspAct, TypeOK
    <2> QED BY <2>3, <2>4, <1>12 DEF DspAct, TypeOK, hostVars, sensorVars, listenerVars, sendVars
<1>13. CASE DspStream \/ DspForeign
    <2>1. \E m \in Report : wire' = Append(wire, m)
        BY <1>13 DEF DspStream, DspForeign, Report
    <2>2. wire' \in Seq(Response \cup Report)
        BY <2>1 DEF TypeOK
    <2> QED BY <2>2, <1>13 DEF DspStream, DspForeign, TypeOK, hostVars, sensorVars, listenerVars, sendVars, dspVars
<1>14. CASE UNCHANGED vars
    BY <1>14 DEF TypeOK, vars, hostVars, sensorVars, listenerVars, sendVars, dspVars
<1> QED
    BY <1>1, <1>2, <1>3, <1>4, <1>5, <1>7, <1>8, <1>9, <1>10, <1>11, <1>12, <1>13, <1>14
       DEF Next, Step, Finished

\* Every variable keeps its type in every behaviour of the sensor: a returned
\* task carries one of the API's results, what travels is a QMI message, and
\* the attributes of a sensor are never left half filled in.
THEOREM TypeCorrect == Spec => []TypeOK
<1>1. Init => TypeOK
    BY InitTypeOK
<1>2. TypeOK /\ [Next]_vars => TypeOK'
    BY NextTypeOK
<1> QED
    BY <1>1, <1>2, PTL DEF Spec

-----------------------------------------------------------------------------
(* Initialisation and the sensor service, whatever the environment does *)

\* The strengthening that makes NoServiceMeansExhausted and
\* ReadyOnlyAfterService inductive: nothing is known or asked before
\* initialisation listens, the UID is learnt after the service was seen, the
\* application calls only an initialised sensor, and only the request of a
\* close returns its task on a QMI response.
ServiceInv ==
    /\ task[InitTask] = "unused" \/ client = "creating" =>
            ~uid_known /\ outstanding = {} /\ listeners = {}
    /\ client = "creating" => task[InitTask] = "pending"
    /\ uid_known => service_available
    /\ \A t \in OpenTasks \cup CloseTasks : task[t] # "unused" => task[InitTask] = "true"
    /\ \A r \in outstanding : r.op = "disable" => r.task \in CloseTasks
    /\ service_retries <= MaxRetries
    /\ ReadyOnlyAfterService
    /\ NoServiceMeansExhausted

\* Before initialisation nothing is known, and nothing was asked.
LEMMA ServiceInit == Init => ServiceInv
BY ConstantsAssumption
   DEF Init, ServiceInv, ReadyOnlyAfterService, NoServiceMeansExhausted, Tasks

\* The end of a request cannot make a sensor ready, nor say the service is
\* missing.
LEMMA ServiceRequestReady ==
    ASSUME TypeOK, ServiceInv, NEW r \in outstanding, NEW ok, RequestReady(r, ok)
    PROVE  ServiceInv'
<1>1. UNCHANGED <<uid_known, service_available, service_retries>> /\ outstanding' \subseteq outstanding
    BY DEF RequestReady, sensorVars
<1>2. client # "creating" /\ client' # "creating" /\ task[InitTask] # "unused"
    BY DEF RequestReady, ClientAfter, ServiceInv
<1>3. CASE task' = task
    BY <1>1, <1>2, <1>3 DEF ServiceInv, ReadyOnlyAfterService, NoServiceMeansExhausted
<1>4. ASSUME NEW result, task[r.task] = "pending", task' = [task EXCEPT ![r.task] = result],
             result = "request_failed" \/ (result = "true" /\ r.op = "disable")
      PROVE  ServiceInv'
    <2>1. result = "true" => r.task # InitTask
        BY <1>4, ConstantsAssumption DEF ServiceInv
    <2>2. /\ task'[InitTask] # "unused"
          /\ task[InitTask] # "pending" => task'[InitTask] = task[InitTask]
          /\ task[InitTask] = "pending" => task'[InitTask] \in {"pending", "request_failed"}
        BY <1>2, <1>4, <2>1 DEF TypeOK, Tasks
    <2>3. \A t \in OpenTasks \cup CloseTasks : task'[t] # "unused" => task[t] # "unused"
        BY <1>4 DEF TypeOK, Tasks
    <2> QED
        BY <1>1, <1>2, <2>2, <2>3 DEF ServiceInv, ReadyOnlyAfterService, NoServiceMeansExhausted
<1> QED
    BY <1>3, <1>4 DEF RequestReady, FailRequest, Return, SuccessReturns

\* A report handled by report_received advances initialisation by one step.
LEMMA ServiceHandle ==
    ASSUME TypeOK, ServiceInv, NEW m \in Report, NEW t \in listeners, task[t] = "pending",
           Concerns(m), Handle(t, m), UNCHANGED client
    PROVE  ServiceInv'
<1>1. t \in OpenTasks \cup {InitTask} /\ t \in Tasks /\ InitTask \in Tasks
    BY DEF TypeOK, Tasks
<1>2. t # InitTask => task[InitTask] = "true" /\ service_available
    BY <1>1 DEF ServiceInv, ReadyOnlyAfterService
<1>3. client # "creating" /\ task[InitTask] # "unused" /\ task[InitTask] # "no_service"
    BY <1>2 DEF ServiceInv
<1>4. ASSUME NEW op \in Ops, NEW u, op # "disable", Send(op, u)
      PROVE  \A r \in outstanding' : r.op = "disable" => r.task \in CloseTasks
    BY <1>4 DEF Send, ServiceInv
<1>5. ASSUME NEW result, result \in {"true", "false", "no_service"}, Return(t, result)
      PROVE  /\ task' = [task EXCEPT ![t] = result]
             /\ t # InitTask => task'[InitTask] = task[InitTask]
             /\ t = InitTask => task'[InitTask] = result
             /\ t = InitTask => \A u \in OpenTasks \cup CloseTasks : task'[u] = "unused"
             /\ \A u \in OpenTasks \cup CloseTasks : task'[u] # "unused" => task[u] # "unused"
    BY <1>1, <1>5, ConstantsAssumption DEF Return, ServiceInv, TypeOK, Tasks
<1>6. CASE ServiceFound(t, m)
    <2>1. \A r \in outstanding' : r.op = "disable" => r.task \in CloseTasks
        BY <1>4, <1>6 DEF ServiceFound, Ops
    <2> QED
        BY <2>1, <1>3, <1>6 DEF ServiceFound, ServiceInv, ReadyOnlyAfterService, NoServiceMeansExhausted
<1>7. CASE ServiceMissing(t, m)
    <2>1. t = InitTask /\ service_retries < MaxRetries
        BY <1>2, <1>7, ConstantsAssumption
           DEF ServiceMissing, ServiceInv, NoServiceMeansExhausted, TypeOK
    <2>2. CASE Exhausted(service_retries') /\ StopListening /\ Return(t, "no_service") /\ UNCHANGED sendVars
        <3>1. service_retries' = MaxRetries /\ ~service_available'
            BY <1>7, <2>1, <2>2, ConstantsAssumption DEF ServiceMissing, Exhausted, TypeOK
        <3>2. task'[InitTask] = "no_service" /\ \A u \in OpenTasks \cup CloseTasks : task'[u] = "unused"
            BY <1>5, <2>1, <2>2
        <3>3. service_retries' <= MaxRetries
            BY <3>1, ConstantsAssumption
        <3>4. UNCHANGED <<uid_known, outstanding, client>> /\ ~uid_known
            BY <1>7, <2>2 DEF ServiceMissing, sendVars, ServiceInv
        <3>5. NoServiceMeansExhausted' /\ ReadyOnlyAfterService'
            BY <3>1, <3>2 DEF NoServiceMeansExhausted, ReadyOnlyAfterService
        <3>6. ~uid_known' /\ client' # "creating" /\ task'[InitTask] # "unused"
            BY <3>2, <3>4, <1>3
        <3>7. \A r \in outstanding' : r.op = "disable" => r.task \in CloseTasks
            BY <3>4 DEF ServiceInv
        <3> QED
            BY <3>2, <3>3, <3>5, <3>6, <3>7 DEF ServiceInv
    <2>3. CASE ~Exhausted(service_retries') /\ Poll(t) /\ UNCHANGED <<task, halt, listenerVars>>
        <3>1. \A r \in outstanding' : r.op = "disable" => r.task \in CloseTasks
            BY <1>4, <2>3 DEF Poll, Ops
        <3>2. service_retries' <= MaxRetries /\ service_retries' # MaxRetries
            BY <1>7, <2>1, <2>3, ConstantsAssumption DEF ServiceMissing, Exhausted, TypeOK
        <3>3. UNCHANGED <<task, uid_known, service_available, client>>
            BY <1>7, <2>3 DEF ServiceMissing
        <3>4. NoServiceMeansExhausted' /\ ReadyOnlyAfterService'
            BY <3>2, <3>3, <1>3 DEF ServiceInv, NoServiceMeansExhausted, ReadyOnlyAfterService
        <3> QED
            BY <3>1, <3>2, <3>3, <3>4, <1>3 DEF ServiceInv
    <2> QED
        BY <1>7, <2>2, <2>3 DEF ServiceMissing
<1>8. CASE SensorFound(m)
    <2>1. \A r \in outstanding' : r.op = "disable" => r.task \in CloseTasks
        BY <1>4, <1>8 DEF SensorFound, Ops
    <2> QED
        BY <2>1, <1>3, <1>8 DEF SensorFound, ServiceInv, ReadyOnlyAfterService, NoServiceMeansExhausted
<1>9. CASE SensorMissing(t, m)
    <2>1. Return(t, "false") /\ UNCHANGED <<uid_known, service_available, service_retries, outstanding>>
          /\ service_available
        BY <1>9 DEF SensorMissing, sensorVars, sendVars
    <2> QED
        BY <2>1, <1>2, <1>3, <1>5 DEF ServiceInv, ReadyOnlyAfterService, NoServiceMeansExhausted
<1>10. CASE AttributesReceived(t, m) \/ EnableConfirmed(t, m)
    <2>1. Return(t, "true") /\ UNCHANGED <<uid_known, service_available, service_retries, outstanding>>
        BY <1>10 DEF AttributesReceived, EnableConfirmed, sensorVars, sendVars
    <2>2. uid_known /\ service_available
        BY <1>10 DEF AttributesReceived, EnableConfirmed, Concerns, ServiceInv
    <2> QED
        BY <2>1, <2>2, <1>2, <1>3, <1>5 DEF ServiceInv, ReadyOnlyAfterService, NoServiceMeansExhausted
<1> QED
    BY <1>6, <1>7, <1>8, <1>9, <1>10 DEF Handle

\* Every step keeps what initialisation rests on.
LEMMA ServiceNext == TypeOK /\ ServiceInv /\ [Next]_vars => ServiceInv'
<1> SUFFICES ASSUME TypeOK, ServiceInv, [Next]_vars PROVE ServiceInv'
    OBVIOUS
<1>0. /\ InitTask \in Tasks /\ OpenTasks \subseteq Tasks /\ CloseTasks \subseteq Tasks
      /\ InitTask \notin OpenTasks /\ InitTask \notin CloseTasks
    BY ConstantsAssumption DEF Tasks
<1>1. CASE New
    BY <1>0, <1>1 DEF New, sensorVars, listenerVars, sendVars, TypeOK,
          ServiceInv, ReadyOnlyAfterService, NoServiceMeansExhausted
<1>2. CASE ClientReady
    <2>1. CASE client' = "none" /\ Return(InitTask, "client_failed")
               /\ UNCHANGED <<sensorVars, listenerVars, sendVars>>
        BY <1>0, <1>2, <2>1 DEF ClientReady, Return, sensorVars, listenerVars, sendVars, TypeOK,
              ServiceInv, ReadyOnlyAfterService, NoServiceMeansExhausted
    <2>2. CASE client' = "up" /\ service_available' = FALSE /\ service_retries' = 0
               /\ Poll(InitTask) /\ UNCHANGED <<task, attrs, uid_known, halt>>
        BY <1>0, <1>2, <2>2, ConstantsAssumption DEF ClientReady, Poll, Send,
              ServiceInv, ReadyOnlyAfterService, NoServiceMeansExhausted
    <2> QED
        BY <1>2, <2>1, <2>2 DEF ClientReady
<1>3. CASE SensorDispose \/ ClientDisposed
    BY <1>3 DEF SensorDispose, ClientDisposed, ClientAfter, sensorVars, listenerVars, sendVars,
          ServiceInv, ReadyOnlyAfterService, NoServiceMeansExhausted
<1>4. ASSUME NEW t \in OpenTasks, Open(t) PROVE ServiceInv'
    <2>1. /\ task[InitTask] = "true" /\ task'[InitTask] = "true"
          /\ UNCHANGED <<uid_known, service_available, service_retries, client>>
        BY <1>0, <1>4 DEF Open, sensorVars, TypeOK
    <2>2. \A r \in outstanding' : r.op = "disable" => r.task \in CloseTasks
        BY <1>4 DEF Open, Send, sendVars, ServiceInv
    <2> QED
        BY <2>1, <2>2 DEF ServiceInv, ReadyOnlyAfterService, NoServiceMeansExhausted
<1>5. ASSUME NEW t \in CloseTasks, Close(t) PROVE ServiceInv'
    <2>1. /\ task[InitTask] = "true" /\ task'[InitTask] = "true"
          /\ UNCHANGED <<uid_known, service_available, service_retries, client>>
        BY <1>0, <1>5 DEF Close, sensorVars, TypeOK
    <2>2. \A r \in outstanding' : r.op = "disable" => r.task \in CloseTasks
        BY <1>5 DEF Close, Send, ServiceInv
    <2> QED
        BY <2>1, <2>2 DEF ServiceInv, ReadyOnlyAfterService, NoServiceMeansExhausted
<1>6. CASE UNCHANGED <<hostVars, sendVars>>
    BY <1>6 DEF hostVars, sensorVars, listenerVars, sendVars,
          ServiceInv, ReadyOnlyAfterService, NoServiceMeansExhausted
<1>7. CASE ReceiveResponse \/ Abort
    <2>1. (\E r \in outstanding : \E ok : RequestReady(r, ok)) \/ UNCHANGED <<hostVars, sendVars>>
        BY <1>7 DEF ReceiveResponse, Abort, RequestReady
    <2> QED
        BY <2>1, <1>6, ServiceRequestReady
<1>8. CASE Dispatch
    <2>1. Head(inds) \in Report
        <3>1. inds \in Seq(Report) /\ inds # <<>>
            BY <1>8 DEF Dispatch, TypeOK
        <3> QED BY <3>1, QueueType
    <2>2. CASE UNCHANGED <<task, sensorVars, listenerVars, sendVars>>
        BY <1>8, <2>2 DEF Dispatch, sensorVars, listenerVars, sendVars,
              ServiceInv, ReadyOnlyAfterService, NoServiceMeansExhausted
    <2>3. ASSUME NEW t \in listeners, task[t] = "pending", Concerns(Head(inds)), Handle(t, Head(inds))
          PROVE  ServiceInv'
        BY <1>8, <2>1, <2>3, ServiceHandle DEF Dispatch
    <2> QED
        BY <1>8, <2>2, <2>3 DEF Dispatch, Emit
<1>9. CASE QueueIndication \/ DropGarbled \/ DspAct \/ DspStream \/ DspForeign
    BY <1>6, <1>9 DEF QueueIndication, DropGarbled, DspAct, DspStream, DspForeign
<1>10. CASE DspReply
    BY <1>10 DEF DspReply, hostVars, sensorVars, listenerVars,
          ServiceInv, ReadyOnlyAfterService, NoServiceMeansExhausted
<1>11. CASE UNCHANGED vars
    BY <1>6, <1>11 DEF vars
<1> QED
    BY <1>1, <1>2, <1>3, <1>4, <1>5, <1>7, <1>8, <1>9, <1>10, <1>11 DEF Next, Step, Finished

\* The order of initialisation is kept, under every fault: the strengthening
\* of the two theorems that follow.
THEOREM ServiceInvariant == Spec => []ServiceInv
<1>1. Init => ServiceInv
    BY ServiceInit
<1>2. TypeOK /\ ServiceInv /\ [Next]_vars => ServiceInv'
    BY ServiceNext
<1> QED
    BY <1>1, <1>2, TypeCorrect, PTL DEF Spec

\* Initialisation fails for want of the service exactly when MAX_RETRIES
\* reports in a row lacked it: for every retry limit, and with requests that
\* time out or are rejected, foreign reports and garbled ones.
THEOREM NoServiceIsExhaustion == Spec => []NoServiceMeansExhausted
<1>1. ServiceInv => NoServiceMeansExhausted
    BY DEF ServiceInv
<1> QED
    BY <1>1, ServiceInvariant, PTL

\* No fault of the environment hands out a sensor whose service was not seen
\* or whose UID is not known.
THEOREM ReadyAfterService == Spec => []ReadyOnlyAfterService
<1>1. ServiceInv => ReadyOnlyAfterService
    BY DEF ServiceInv
<1> QED
    BY <1>1, ServiceInvariant, PTL

-----------------------------------------------------------------------------
(* Listening, when every request is answered with success *)

\* No request fails: neither on the host nor at the DSP.
RequestsSucceed == Faults \cap {"abort", "reject"} = {}

Success == [kind : {"response"}, req : Request, ok : {TRUE}]

\* The strengthening of ListenerDiscipline: a client is let go only with its
\* sensor, a sensor only when no call is pending, responses tell of success,
\* and every disable request still out belongs to a pending close of its own.
ListenerInv ==
    /\ ListenerDiscipline
    /\ client \in {"disposing", "gone"} => disposed
    /\ disposed => Pending(Tasks) = {} /\ task[InitTask] # "unused"
    /\ wire \in Seq(Success \cup Report)
    /\ \A r \in outstanding : r.op = "disable" => task[r.task] = "pending"
    /\ \A r, s \in outstanding :
            r.op = "disable" /\ s.op = "disable" /\ r.task = s.task => r = s

\* Initially nobody listens and nothing waits.
LEMMA ListenerInit == Init => ListenerInv
<1>1. <<>> \in Seq(Success \cup Report)
    BY EnqueueType
<1>2. Init => Pending(Tasks) = {} /\ Awaiting = {}
    BY DEF Init, Pending, Awaiting, Tasks
<1> QED
    BY <1>1, <1>2 DEF Init, ListenerInv, ListenerDiscipline, NoReturnedTaskUsed

\* A successful response returns a pending close or nothing.
LEMMA ListenerRequestReady ==
    ASSUME TypeOK, ServiceInv, ListenerInv, NEW r \in outstanding, RequestReady(r, TRUE),
           wire' \in Seq(Success \cup Report)
    PROVE  ListenerInv'
<1>0. OpenTasks \cap CloseTasks = {} /\ InitTask \notin CloseTasks /\ CloseTasks \subseteq Tasks
    BY ConstantsAssumption DEF Tasks
<1>1. /\ client' = "creating" <=> client = "creating"
      /\ client' \in {"disposing", "gone"} => disposed
      /\ disposed' = disposed /\ UNCHANGED listenerVars
    BY DEF RequestReady, ClientAfter, ListenerInv
<1>2. outstanding' = outstanding \ {r}
    BY DEF RequestReady
<1>3. CASE r.op # "disable"
    <2>1. UNCHANGED <<task, halt>>
        BY <1>3 DEF RequestReady, SuccessReturns
    <2>2. Awaiting' = Awaiting /\ Pending(Tasks)' = Pending(Tasks)
        BY <1>1, <2>1 DEF Awaiting, Pending
    <2> QED
        BY <1>1, <1>2, <2>1, <2>2
           DEF ListenerInv, ListenerDiscipline, NoReturnedTaskUsed, listenerVars
<1>4. CASE r.op = "disable"
    <2>1. r.task \in CloseTasks /\ task[r.task] = "pending"
        BY <1>4 DEF ServiceInv, ListenerInv
    <2>2. task' = [task EXCEPT ![r.task] = "true"] /\ halt' = halt
        BY <1>4, <2>1 DEF RequestReady, SuccessReturns, Return
    <2>3. Awaiting' = Awaiting /\ Pending(Tasks)' \subseteq Pending(Tasks)
        BY <1>0, <1>1, <2>1, <2>2 DEF Awaiting, Pending, TypeOK, Tasks
    <2>4. ASSUME NEW s \in outstanding', s.op = "disable" PROVE task'[s.task] = "pending"
        BY <1>2, <1>4, <2>1, <2>2, <2>4, <1>0 DEF ListenerInv, ServiceInv, TypeOK
    <2> QED
        BY <1>1, <1>2, <2>2, <2>3, <2>4
           DEF ListenerInv, ListenerDiscipline, NoReturnedTaskUsed, listenerVars
<1> QED
    BY <1>3, <1>4

\* A report returns the one task that listens and stops the listening, or
\* asks for the next report and changes neither.
LEMMA ListenerHandle ==
    ASSUME TypeOK, ServiceInv, ListenerInv, NEW m \in Report, NEW t \in listeners,
           Handle(t, m), UNCHANGED <<client, disposed, wire>>
    PROVE  ListenerInv'
<1>0. OpenTasks \cap CloseTasks = {} /\ InitTask \notin CloseTasks /\ CloseTasks \subseteq Tasks
    BY ConstantsAssumption DEF Tasks
<1>1. /\ t \in Awaiting /\ task[t] = "pending" /\ t \in Tasks /\ t \notin CloseTasks
      /\ report_id = t /\ listeners = {t} /\ ~disposed
    BY <1>0 DEF ListenerInv, ListenerDiscipline, Awaiting, Pending, Tasks
<1>2. CASE \E op \in {"registry", "suid", "attributes"} : \E u :
              Send(op, u) /\ UNCHANGED <<task, halt, listenerVars>>
    <2>1. Awaiting' = Awaiting /\ Pending(Tasks)' = Pending(Tasks)
        BY <1>2 DEF Awaiting, Pending
    <2>2. \A r \in outstanding' : r.op = "disable" => r \in outstanding
        BY <1>2 DEF Send
    <2> QED
        BY <1>2, <2>1, <2>2 DEF ListenerInv, ListenerDiscipline, NoReturnedTaskUsed, listenerVars
<1>3. CASE \E result \in {"true", "false", "no_service"} :
                StopListening /\ Return(t, result) /\ UNCHANGED sendVars
    <2>1. PICK result \in {"true", "false", "no_service"} :
                StopListening /\ Return(t, result) /\ UNCHANGED sendVars
        BY <1>3
    <2>2. task' = [task EXCEPT ![t] = result] /\ halt' = halt
        BY <1>1, <2>1 DEF Return
    <2>3. listeners' = {} /\ report_id' = NoTask
        BY <1>1, <2>1 DEF StopListening
    <2>4. Awaiting' = {}
        <3>1. Awaiting = {t}
            BY <1>1 DEF ListenerInv, ListenerDiscipline
        <3> QED
            BY <1>1, <2>2, <3>1 DEF Awaiting, Pending, TypeOK, Tasks
    <2>5. \A r \in outstanding' : r.op = "disable" => task'[r.task] = "pending"
        BY <1>1, <2>1, <2>2, <1>0 DEF sendVars, ListenerInv, ServiceInv, TypeOK
    <2> QED
        BY <1>1, <2>1, <2>2, <2>3, <2>4, <2>5
           DEF ListenerInv, ListenerDiscipline, NoReturnedTaskUsed, sendVars
<1> QED
    BY <1>2, <1>3 DEF Handle, ServiceFound, ServiceMissing, SensorFound, SensorMissing,
          AttributesReceived, EnableConfirmed, Poll

\* Every step keeps listening and waiting together while requests succeed.
LEMMA ListenerNext ==
    ASSUME RequestsSucceed, TypeOK, ServiceInv, ListenerInv, [Next]_vars
    PROVE  ListenerInv'
<1>0. /\ OpenTasks \cap CloseTasks = {} /\ InitTask \notin OpenTasks \cup CloseTasks
      /\ OpenTasks \subseteq Tasks /\ CloseTasks \subseteq Tasks /\ InitTask \in Tasks
      /\ "abort" \notin Faults /\ "reject" \notin Faults
    BY ConstantsAssumption DEF Tasks, RequestsSucceed
<1>a. ASSUME UNCHANGED <<task, listenerVars, disposed, client, halt, outstanding>>,
             wire' \in Seq(Success \cup Report)
      PROVE  ListenerInv'
    <2>1. Awaiting' = Awaiting /\ Pending(Tasks)' = Pending(Tasks)
        BY <1>a DEF Awaiting, Pending
    <2> QED
        BY <1>a, <2>1 DEF ListenerInv, ListenerDiscipline, NoReturnedTaskUsed, listenerVars
<1>1. CASE New
    <2>1. Awaiting = {} /\ Awaiting' = {}
        BY <1>0, <1>1 DEF New, Awaiting, Pending, ServiceInv, TypeOK
    <2> QED
        BY <1>0, <1>1, <2>1
           DEF New, ListenerInv, ListenerDiscipline, NoReturnedTaskUsed, listenerVars, sendVars,
               ServiceInv, TypeOK
<1>2. CASE ClientReady
    <2>1. /\ \A u \in OpenTasks : task[u] # "pending"
          /\ task[InitTask] = "pending" /\ Awaiting = {} /\ ~disposed
        BY <1>0, <1>2 DEF ClientReady, Awaiting, Pending, ServiceInv, ListenerInv, TypeOK
    <2>2. CASE client' = "none" /\ Return(InitTask, "client_failed")
               /\ UNCHANGED <<sensorVars, listenerVars, sendVars>>
        <3>1. task' = [task EXCEPT ![InitTask] = "client_failed"] /\ halt' = halt
            BY <2>1, <2>2 DEF Return
        <3>2. Awaiting' = {}
            BY <1>0, <2>1, <3>1 DEF Awaiting, Pending, TypeOK
        <3>3. outstanding' = {}
            BY <1>2, <2>2 DEF ClientReady, ServiceInv, sendVars
        <3> QED
            BY <1>2, <2>1, <2>2, <3>1, <3>2, <3>3
               DEF ClientReady, ListenerInv, ListenerDiscipline, NoReturnedTaskUsed, listenerVars
    <2>3. CASE client' = "up" /\ Listen(InitTask) /\ Poll(InitTask)
               /\ UNCHANGED <<task, attrs, uid_known, halt>>
        <3>1. Awaiting' = {InitTask} /\ listeners' = {InitTask} /\ report_id' = InitTask
            BY <1>0, <1>2, <2>1, <2>3 DEF Awaiting, Pending, Listen, ListenerInv, ListenerDiscipline
        <3>2. \A r \in outstanding' : r.op # "disable"
            BY <1>2, <2>3 DEF Poll, Send, ClientReady, ServiceInv
        <3> QED
            BY <1>2, <2>1, <2>3, <3>1, <3>2
               DEF ClientReady, ListenerInv, ListenerDiscipline, NoReturnedTaskUsed
    <2> QED
        BY <1>2, <2>2, <2>3 DEF ClientReady
<1>3. CASE SensorDispose
    <2>1. Awaiting = {} /\ Awaiting' = {} /\ Pending(Tasks)' = {} /\ task' = task
        BY <1>0, <1>3 DEF SensorDispose, Awaiting, Pending
    <2> QED
        BY <1>3, <2>1 DEF SensorDispose, ListenerInv, ListenerDiscipline, NoReturnedTaskUsed,
              ClientAfter, listenerVars, sendVars
<1>4. CASE ClientDisposed
    <2>1. disposed /\ Awaiting = {} /\ Awaiting' = {} /\ Pending(Tasks)' = {} /\ task' = task
        BY <1>0, <1>4 DEF ClientDisposed, ListenerInv, Awaiting, Pending
    <2>2. <<>> \in Seq(Success \cup Report)
        BY EnqueueType
    <2> QED
        BY <1>4, <2>1, <2>2 DEF ClientDisposed, ListenerInv, ListenerDiscipline, NoReturnedTaskUsed
<1>5. ASSUME NEW t \in OpenTasks, Open(t) PROVE ListenerInv'
    <2>1. /\ Awaiting = {} /\ listeners = {} /\ report_id = NoTask /\ ~disposed
          /\ \A u \in OpenTasks : task[u] # "pending"
        BY <1>0, <1>5 DEF Open, Awaiting, Pending, ListenerInv, ListenerDiscipline
    <2>2. /\ UNCHANGED <<client, disposed, wire>> /\ task[t] = "unused" /\ task[InitTask] = "true"
          /\ halt' \in {halt, "assert"}
        BY <1>5 DEF Open
    <2>3. \A r \in outstanding : r.op = "disable" => r.task \in CloseTasks
        BY DEF ServiceInv
    <2>4. CASE Listen(t) /\ Send("enable", t) /\ task' = [task EXCEPT ![t] = "pending"]
        <3>1. Awaiting' = {t} /\ listeners' = {t} /\ report_id' = t
            BY <1>0, <2>1, <2>2, <2>4 DEF Listen, Awaiting, Pending, TypeOK
        <3>2. \A r \in outstanding' : r.op = "disable" => r \in outstanding /\ task'[r.task] = "pending"
            BY <1>0, <2>3, <2>4 DEF Send, ListenerInv, TypeOK
        <3> QED
            BY <2>1, <2>2, <3>1, <3>2 DEF ListenerInv, ListenerDiscipline, NoReturnedTaskUsed
    <2>5. CASE /\ UNCHANGED <<listenerVars, sendVars>>
               /\ task' \in {task, [task EXCEPT ![t] = "unavailable"], [task EXCEPT ![t] = "no_sample_rate"]}
        <3>1. Awaiting' = {}
            BY <1>0, <2>1, <2>2, <2>5 DEF Awaiting, Pending, TypeOK
        <3>2. \A r \in outstanding' : r.op = "disable" => r \in outstanding /\ task'[r.task] = "pending"
            BY <1>0, <2>3, <2>5 DEF sendVars, ListenerInv, TypeOK
        <3> QED
            BY <2>1, <2>2, <2>5, <3>1, <3>2
               DEF ListenerInv, ListenerDiscipline, NoReturnedTaskUsed, listenerVars, sendVars
    <2> QED
        BY <1>5, <2>4, <2>5 DEF Open
<1>6. ASSUME NEW t \in CloseTasks, Close(t) PROVE ListenerInv'
    <2>1. /\ task[t] = "unused" /\ task' = [task EXCEPT ![t] = "pending"] /\ ~disposed /\ Send("disable", t)
          /\ UNCHANGED <<listenerVars, client, disposed, halt, wire>>
        BY <1>6 DEF Close
    <2>2. Awaiting' = Awaiting
        BY <1>0, <2>1 DEF Awaiting, Pending, TypeOK
    <2>3. \A r \in outstanding : r.op = "disable" => r.task # t
        BY <2>1 DEF ListenerInv
    <2>4. \A r \in outstanding' : r.op = "disable" => task'[r.task] = "pending"
        BY <1>0, <2>1, <2>3 DEF Send, ListenerInv, TypeOK
    <2>5. \A r, s \in outstanding' :
            r.op = "disable" /\ s.op = "disable" /\ r.task = s.task => r = s
        BY <2>1, <2>3 DEF Send, ListenerInv
    <2> QED
        BY <2>1, <2>2, <2>4, <2>5 DEF ListenerInv, ListenerDiscipline, NoReturnedTaskUsed, listenerVars
<1>7. CASE ReceiveResponse
    <2>1. wire \in Seq(Success \cup Report) /\ wire # <<>> /\ wire' = Tail(wire)
        BY <1>7 DEF ReceiveResponse, ListenerInv
    <2>2. Head(wire) \in Success \cup Report /\ wire' \in Seq(Success \cup Report)
        BY <2>1, QueueType
    <2>3. Head(wire).ok = TRUE
        BY <1>7, <2>2 DEF ReceiveResponse, Success, Report
    <2>4. CASE RequestReady(Head(wire).req, Head(wire).ok)
        BY <2>2, <2>3, <2>4, ListenerRequestReady DEF RequestReady
    <2>5. CASE UNCHANGED <<hostVars, sendVars, inds, dspVars>>
        BY <1>a, <2>2, <2>5 DEF hostVars, sendVars
    <2> QED
        BY <1>7, <2>4, <2>5 DEF ReceiveResponse
<1>8. CASE Abort
    BY <1>0, <1>8 DEF Abort
<1>9. CASE QueueIndication
    <2>1. wire \in Seq(Success \cup Report) /\ wire # <<>> /\ wire' = Tail(wire)
        BY <1>9 DEF QueueIndication, ListenerInv
    <2>2. wire' \in Seq(Success \cup Report)
        BY <2>1, QueueType
    <2> QED
        BY <1>9, <1>a, <2>2 DEF QueueIndication, hostVars, sendVars
<1>10. CASE Dispatch
    <2>1. Head(inds) \in Report
        <3>1. inds \in Seq(Report) /\ inds # <<>>
            BY <1>10 DEF Dispatch, TypeOK
        <3> QED BY <3>1, QueueType
    <2>2. wire' \in Seq(Success \cup Report) /\ UNCHANGED <<client, disposed, wire>>
        BY <1>10 DEF Dispatch, ListenerInv
    <2>3. listeners # {} => ~disposed /\ \A t \in listeners : task[t] = "pending"
        BY <1>0 DEF ListenerInv, ListenerDiscipline, Awaiting, Pending
    <2>4. CASE UNCHANGED <<task, halt, sensorVars, listenerVars, sendVars>>
        BY <1>a, <2>2, <2>4 DEF sendVars
    <2>5. ASSUME NEW t \in listeners, Handle(t, Head(inds)) PROVE ListenerInv'
        BY <2>1, <2>2, <2>5, ListenerHandle
    <2> QED
        BY <1>10, <2>3, <2>4, <2>5 DEF Dispatch, Emit
<1>11. CASE DropGarbled
    BY <1>a, <1>11 DEF DropGarbled, hostVars, sendVars, ListenerInv
<1>12. CASE DspReply
    <2>1. Head(requests) \in Request
        <3>1. requests \in Seq(Request) /\ requests # <<>>
            BY <1>12 DEF DspReply, TypeOK
        <3> QED BY <3>1, QueueType
    <2>2. wire' = Append(wire, [kind |-> "response", req |-> Head(requests), ok |-> TRUE])
        BY <1>0, <1>12 DEF DspReply
    <2>3. [kind |-> "response", req |-> Head(requests), ok |-> TRUE] \in Success \cup Report
        BY <2>1 DEF Success
    <2>4. wire' \in Seq(Success \cup Report)
        <3>1. wire \in Seq(Success \cup Report)
            BY DEF ListenerInv
        <3> QED BY <2>2, <2>3, <3>1, EnqueueType
    <2> QED
        BY <1>a, <1>12, <2>4 DEF DspReply, hostVars
<1>13. CASE DspAct \/ DspStream \/ DspForeign
    <2>1. wire' = wire \/ \E m \in Success \cup Report : wire' = Append(wire, m)
        BY <1>13, ConstantsAssumption DEF DspAct, DspStream, DspForeign, Report
    <2>2. wire' \in Seq(Success \cup Report)
        <3>1. wire \in Seq(Success \cup Report)
            BY DEF ListenerInv
        <3> QED BY <2>1, <3>1, EnqueueType
    <2> QED
        BY <1>a, <1>13, <2>2 DEF DspAct, DspStream, DspForeign, hostVars, sendVars
<1>14. CASE UNCHANGED vars
    <2>1. wire' \in Seq(Success \cup Report)
        BY <1>14 DEF vars, ListenerInv
    <2> QED
        BY <1>a, <1>14, <2>1 DEF vars, hostVars, sendVars
<1> QED
    BY <1>1, <1>2, <1>3, <1>4, <1>5, <1>6, <1>7, <1>8, <1>9, <1>10, <1>11, <1>12, <1>13, <1>14
       DEF Next, Step, Finished

\* As long as requests succeed, whatever foreign and garbled reports come and
\* whenever the application closes: a context listens exactly while its task
\* waits, so no report ever uses a returned task or a freed sensor.
THEOREM ListenersCorrect ==
    ASSUME RequestsSucceed
    PROVE  Spec => []ListenerDiscipline
<1>1. Init => ListenerInv
    BY ListenerInit
<1>2. TypeOK /\ ServiceInv /\ ListenerInv /\ [Next]_vars => ListenerInv'
    BY ListenerNext
<1>3. ListenerInv => ListenerDiscipline
    BY DEF ListenerInv
<1> QED
    BY <1>1, <1>2, <1>3, TypeCorrect, ServiceInvariant, PTL DEF Spec

-----------------------------------------------------------------------------
(* The client is used as SSCClientLife promises it, under every fault *)

\* Requests are out only while the client is up, a client is disposed only
\* after the sensor and the last request, and without delay.
LifeInv ==
    /\ task[InitTask] = "unused" => client = "none" /\ ~disposed
    /\ client = "creating" => task[InitTask] = "pending" /\ ~disposed
    /\ client = "none" => task[InitTask] \in {"unused", "client_failed"}
    /\ client # "up" => outstanding = {}
    /\ client = "up" /\ disposed => outstanding # {}
    /\ client \in {"disposing", "gone"} => disposed

\* The initial state satisfies it.
LEMMA LifeInit == Init => LifeInv
BY DEF Init, LifeInv, Tasks

\* A report neither unmakes the creation nor touches the client, and sends
\* requests only for a sensor that is there.
LEMMA LifeEmit ==
    ASSUME TypeOK, NEW m, Emit(m), task[InitTask] # "unused"
    PROVE  /\ task'[InitTask] # "unused"
           /\ disposed => outstanding' = outstanding
           /\ disposed => task' = task
<1>0. InitTask \in Tasks /\ listeners \subseteq Tasks
    BY DEF TypeOK, Tasks
<1>1. ASSUME NEW t \in listeners, Handle(t, m), ~disposed
      PROVE  task'[InitTask] # "unused"
    BY <1>0, <1>1
    DEF Handle, ServiceFound, ServiceMissing, SensorFound, SensorMissing, AttributesReceived,
        EnableConfirmed, Return, Send, Poll, sendVars, TypeOK
<1> QED
    BY <1>1 DEF Emit, sendVars

\* What a step may do to the client, the sensor's hold of it and its
\* requests: the steps of SSCClientLife, under the mapping of Life, and those
\* that it does not see.
LifeStays ==
    /\ UNCHANGED <<client, disposed, outstanding>>
    /\ client # "up" => task'[InitTask] = task[InitTask]
LifeStarts ==
    /\ task[InitTask] = "unused" /\ task'[InitTask] = "pending"
    /\ client' = "creating" /\ UNCHANGED <<disposed, outstanding>>
LifeFails ==
    /\ client = "creating" /\ client' = "none"
    /\ task'[InitTask] = "client_failed" /\ UNCHANGED <<disposed, outstanding>>
LifeBegins == client = "creating" /\ client' = "up" /\ task'[InitTask] = "pending" /\ UNCHANGED disposed
LifeDrops ==
    /\ client = "up" /\ client' = ClientAfter(outstanding', disposed')
    /\ disposed => disposed'
    /\ outstanding' \subseteq outstanding
LifeUses == client = "up" /\ client' = client /\ ~disposed /\ ~disposed'
LifeSensorGoes ==
    /\ task[InitTask] # "unused" /\ task[InitTask] # "pending"
    /\ client # "up" /\ client' = client /\ task'[InitTask] = task[InitTask]
    /\ disposed' = TRUE /\ UNCHANGED outstanding
LifeEnds ==
    /\ client = "disposing" /\ client' = "gone"
    /\ task'[InitTask] = task[InitTask] /\ UNCHANGED <<disposed, outstanding>>

LifeStep ==
    /\ task[InitTask] # "unused" => task'[InitTask] # "unused"
    /\ \/ LifeStays \/ LifeStarts \/ LifeFails \/ LifeBegins
       \/ LifeDrops \/ LifeUses \/ LifeSensorGoes \/ LifeEnds

\* Every step of the sensor is one of these.
LEMMA NextIsLifeStep ==
    ASSUME TypeOK, ServiceInv, LifeInv, [Next]_vars
    PROVE  LifeStep
<1>0. InitTask \in Tasks /\ OpenTasks \subseteq Tasks /\ CloseTasks \subseteq Tasks
      /\ InitTask \notin OpenTasks \cup CloseTasks
    BY ConstantsAssumption DEF Tasks
<1>1. CASE New
    BY <1>0, <1>1 DEF New, LifeStep, LifeStarts, sendVars, TypeOK
<1>2. CASE ClientReady
    <2>1. task[InitTask] = "pending" /\ client = "creating" /\ UNCHANGED disposed
        BY <1>2 DEF ClientReady, LifeInv
    <2>2. CASE client' = "none" /\ Return(InitTask, "client_failed") /\ UNCHANGED sendVars
        <3>1. task'[InitTask] = "client_failed"
            BY <1>0, <2>1, <2>2 DEF Return, TypeOK
        <3> QED BY <2>1, <2>2, <3>1 DEF LifeStep, LifeFails, sendVars
    <2>3. CASE client' = "up" /\ UNCHANGED task
        BY <2>1, <2>3 DEF LifeStep, LifeBegins
    <2> QED BY <1>2, <2>2, <2>3 DEF ClientReady
<1>3. CASE SensorDispose
    <2>1. /\ task[InitTask] \notin {"unused", "pending"} /\ UNCHANGED <<task, outstanding>>
          /\ disposed' = TRUE /\ client' = ClientAfter(outstanding, TRUE)
        BY <1>3 DEF SensorDispose, sendVars
    <2>2. client' = ClientAfter(outstanding', disposed')
        BY <2>1 DEF ClientAfter
    <2>3. CASE client = "up"
        BY <2>1, <2>2, <2>3 DEF LifeStep, LifeDrops
    <2>4. CASE client # "up"
        BY <2>1, <2>4 DEF LifeStep, LifeSensorGoes, ClientAfter
    <2> QED BY <2>3, <2>4
<1>4. CASE ClientDisposed
    BY <1>4 DEF ClientDisposed, LifeStep, LifeEnds
<1>5. ASSUME NEW t \in OpenTasks, Open(t) PROVE LifeStep
    <2>1. /\ ~disposed /\ task[InitTask] = "true" /\ UNCHANGED <<client, disposed>>
          /\ task' \in {task, [task EXCEPT ![t] = "unavailable"],
                         [task EXCEPT ![t] = "no_sample_rate"], [task EXCEPT ![t] = "pending"]}
        BY <1>5 DEF Open
    <2>2. task'[InitTask] = "true"
        BY <1>0, <2>1 DEF TypeOK
    <2>3. client = "up"
        BY <2>1 DEF LifeInv, TypeOK
    <2> QED BY <2>1, <2>2, <2>3 DEF LifeStep, LifeUses
<1>6. ASSUME NEW t \in CloseTasks, Close(t) PROVE LifeStep
    <2>1. /\ ~disposed /\ task[InitTask] = "true" /\ UNCHANGED <<client, disposed>>
          /\ task' = [task EXCEPT ![t] = "pending"]
        BY <1>6 DEF Close
    <2>2. task'[InitTask] = "true"
        BY <1>0, <2>1 DEF TypeOK
    <2>3. client = "up"
        BY <2>1 DEF LifeInv, TypeOK
    <2> QED BY <2>1, <2>2, <2>3 DEF LifeStep, LifeUses
<1>7. ASSUME NEW r, NEW ok, RequestReady(r, ok) PROVE LifeStep
    <2>1. r \in outstanding /\ outstanding' \subseteq outstanding /\ UNCHANGED disposed
          /\ client' = ClientAfter(outstanding', disposed)
        BY <1>7 DEF RequestReady
    <2>2. client = "up" /\ task[InitTask] # "unused"
        BY <2>1 DEF LifeInv
    <2>3. task' = task \/ \E t : task[t] = "pending" /\ \E v \in {"true", "request_failed"} : task' = [task EXCEPT ![t] = v]
        BY <1>7 DEF RequestReady, FailRequest, Return
    <2>4. task'[InitTask] # "unused"
        BY <1>0, <2>2, <2>3 DEF TypeOK
    <2>5. client' = ClientAfter(outstanding', disposed')
        BY <2>1 DEF ClientAfter
    <2> QED BY <2>1, <2>2, <2>4, <2>5 DEF LifeStep, LifeDrops
<1>8. CASE ReceiveResponse \/ Abort
    <2>1. CASE UNCHANGED <<hostVars, sendVars>>
        BY <2>1 DEF hostVars, sendVars, LifeStep, LifeStays
    <2> QED BY <1>7, <1>8, <2>1 DEF ReceiveResponse, Abort
<1>9. CASE Dispatch
    <2>1. Emit(Head(inds)) /\ UNCHANGED <<disposed, client>> /\ client \in {"up", "disposing"}
        BY <1>9 DEF Dispatch
    <2>2. task[InitTask] # "unused"
        BY <2>1 DEF LifeInv
    <2>3. /\ task'[InitTask] # "unused"
          /\ disposed => outstanding' = outstanding
          /\ disposed => task' = task
        BY <2>1, <2>2, LifeEmit
    <2>4. client = "disposing" => disposed
        BY DEF LifeInv
    <2> QED BY <2>1, <2>2, <2>3, <2>4 DEF LifeStep, LifeUses, LifeStays
<1>10. CASE QueueIndication \/ DropGarbled \/ DspReply \/ DspAct \/ DspStream \/ DspForeign
    BY <1>10
    DEF QueueIndication, DropGarbled, DspReply, DspAct, DspStream, DspForeign, hostVars, sendVars, LifeStep, LifeStays
<1>11. CASE UNCHANGED vars
    BY <1>11 DEF vars, hostVars, sendVars, LifeStep, LifeStays
<1> QED
    BY <1>1, <1>2, <1>3, <1>4, <1>5, <1>6, <1>8, <1>9, <1>10, <1>11 DEF Next, Step, Finished

\* So every step keeps the invariant,
LEMMA LifeNext ==
    ASSUME TypeOK, LifeInv, LifeStep
    PROVE  LifeInv'
<1>1. CASE LifeStays
    BY <1>1 DEF LifeStays, LifeInv, LifeStep
<1>2. CASE LifeStarts
    BY <1>2 DEF LifeStarts, LifeInv
<1>3. CASE LifeFails
    BY <1>3 DEF LifeFails, LifeInv
<1>4. CASE LifeBegins
    BY <1>4 DEF LifeBegins, LifeInv
<1>5. CASE LifeDrops
    <2>1. task'[InitTask] # "unused"
        BY <1>5 DEF LifeDrops, LifeStep, LifeInv
    <2> QED BY <1>5, <2>1 DEF LifeDrops, LifeInv, ClientAfter
<1>6. CASE LifeUses
    <2>1. task'[InitTask] # "unused"
        BY <1>6 DEF LifeUses, LifeStep, LifeInv
    <2> QED BY <1>6, <2>1 DEF LifeUses, LifeInv
<1>7. CASE LifeSensorGoes
    BY <1>7 DEF LifeSensorGoes, LifeInv
<1>8. CASE LifeEnds
    BY <1>8 DEF LifeEnds, LifeInv
<1> QED
    BY <1>1, <1>2, <1>3, <1>4, <1>5, <1>6, <1>7, <1>8 DEF LifeStep

\* and is a step of SSCClientLife or none.
LEMMA LifeStepImplements ==
    ASSUME TypeOK, LifeInv, LifeInv', LifeStep
    PROVE  [Life!Next]_(Life!vars)
<1> DEFINE owned == client = "up" /\ ~disposed
           busy == outstanding # {}
<1>1. CASE LifeStays
    <2>1. task'[InitTask] = "unused" <=> task[InitTask] = "unused"
        BY <1>1 DEF LifeStays, LifeStep, LifeInv
    <2> QED BY <1>1, <2>1 DEF LifeStays, Life!vars
<1>2. CASE LifeStarts
    BY <1>2 DEF LifeStarts, Life!Next, Life!Create, LifeInv
<1>3. CASE LifeFails
    BY <1>3 DEF LifeFails, Life!Next, Life!Created
<1>4. CASE LifeBegins
    BY <1>4 DEF LifeBegins, Life!Next, Life!Created, LifeInv
<1>5. CASE LifeDrops
    <2>1. client' = IF owned' \/ busy' THEN "up" ELSE "disposing"
        BY <1>5 DEF LifeDrops, ClientAfter
    <2>2. owned' \in {owned, FALSE} /\ busy' \in {owned, busy, FALSE}
        BY <1>5 DEF LifeDrops, ClientAfter
    <2> QED BY <1>5, <2>1, <2>2 DEF LifeDrops, Life!Next, Life!Use
<1>6. CASE LifeUses
    <2>1. owned /\ owned' /\ busy' \in BOOLEAN
        BY <1>6 DEF LifeUses
    <2> QED BY <1>6, <2>1 DEF LifeUses, Life!Next, Life!Use
<1>7. CASE LifeSensorGoes
    BY <1>7 DEF LifeSensorGoes, Life!vars
<1>8. CASE LifeEnds
    BY <1>8 DEF LifeEnds, Life!Next, Life!Disposed
<1> QED
    BY <1>1, <1>2, <1>3, <1>4, <1>5, <1>6, <1>7, <1>8 DEF LifeStep

\* Whatever requests fail and whatever reports come, the sensor creates, uses
\* and lets go of its client as SSCClientLife has it: no request is sent to a
\* client that is disposed, and none outlives it.
THEOREM ClientUsedAsPromised == Spec => UsesClient
<1>1. Init => LifeInv /\ Life!Init
    BY LifeInit DEF Init, Life!Init, Tasks
<1>2. TypeOK /\ ServiceInv /\ LifeInv /\ [Next]_vars => LifeInv' /\ [Life!Next]_(Life!vars)
    BY NextIsLifeStep, LifeNext, LifeStepImplements
<1> QED
    BY <1>1, <1>2, TypeCorrect, ServiceInvariant, PTL DEF Spec, UsesClient, Life!Spec

=============================================================================
