---------------------- MODULE SSCSensorMessages_proofs ----------------------
(***************************************************************************)
(* Theorems about what travels between an SSCSensor and the DSP: that      *)
(* initialisation is one chain of requests and reports, that the first     *)
(* open that succeeds has enabled the sensor, and that no open or close    *)
(* waits for what cannot come.                                             *)
(***************************************************************************)
EXTENDS SSCSensor_proofs, Subsequences_proofs

-----------------------------------------------------------------------------
(* The messages of initialisation, and those of an initialised sensor *)

\* What initialisation asks the DSP for, from what it knows.
Asked ==
    IF ~service_available THEN "registry" ELSE IF ~uid_known THEN "suid" ELSE "attributes"
Asks == [id : Nat, op : {Asked}, task : Tasks \cup {NoTask}]

\* What the DSP answers.
Answers ==
    IF ~service_available THEN [kind : {"suid"}, type : {"registry"}, found : BOOLEAN]
    ELSE IF ~uid_known THEN [kind : {"suid"}, type : {"own"}, found : BOOLEAN]
    ELSE [kind : {"attributes"}, attrs : AttributeReports]

\* The messages of the chain: a response is not one, it moves nothing.
InFlight == Len(requests) + Len(dsp_busy) + Len(Only(wire, Report)) + Len(inds)

Silent ==
    requests = <<>> /\ dsp_busy = <<>> /\ wire = <<>> /\ inds = <<>> /\ ~dsp_enabled

Discovering ==
    /\ requests \in Seq(Asks) /\ dsp_busy \in Seq(Asks)
    /\ inds \in Seq(Answers) /\ wire \in Seq(Response \cup Answers)
    /\ ~dsp_enabled
    /\ InFlight <= 1

Enables == [id : Nat, op : {"enable"}, task : OpenTasks]
Disables == [id : Nat, op : {"disable"}, task : CloseTasks]

Running ==
    /\ requests \in Seq(Enables \cup Disables) /\ dsp_busy \in Seq(Enables \cup Disables)
    /\ inds \in Seq(StreamReports) /\ wire \in Seq(Response \cup StreamReports)

\* Nothing travels before the first request; then at most one message of the
\* chain does, and it belongs to what is known; once the sensor is handed to
\* the application only its own calls and reports do.
ChainInv ==
    /\ disposed => task[InitTask] \notin {"unused", "pending"}
    /\ task[InitTask] = "unused" \/ client = "creating" => Silent
    /\ task[InitTask] # "true" => Discovering
    /\ task[InitTask] = "true" => Running

\* An answer is a report, an ask a request, and no report is a response.
LEMMA MessageKinds ==
    /\ Answers \subseteq Report /\ StreamReports \subseteq Report /\ Asks \subseteq Request
    /\ \A m \in Report : m.kind # "response" /\ m \notin Response
    /\ \A m \in Response : m.kind = "response" /\ m \notin Report
<1>1. Asked \in Ops
    BY DEF Asked, Ops
<1> QED
    BY <1>1 DEF Answers, StreamReports, Asks, Request, Report, Response

\* How the number of reports on the wire changes with what enters and leaves.
LEMMA WireReports ==
    ASSUME NEW q \in Seq(Response \cup Report)
    PROVE  /\ Len(Only(q, Report)) \in Nat
           /\ \A m \in Report : Len(Only(Append(q, m), Report)) = Len(Only(q, Report)) + 1
           /\ \A m \in Response : Len(Only(Append(q, m), Report)) = Len(Only(q, Report))
           /\ q # <<>> => Len(Only(q, Report)) =
                IF Head(q).kind = "response" THEN Len(Only(Tail(q), Report))
                ELSE Len(Only(Tail(q), Report)) + 1
<1>1. /\ Len(Only(q, Report)) \in Nat
      /\ \A m \in Response \cup Report : Len(Only(Append(q, m), Report)) =
            IF m \in Report THEN Len(Only(q, Report)) + 1 ELSE Len(Only(q, Report))
      /\ q # <<>> => Len(Only(q, Report)) =
            IF Head(q) \in Report THEN Len(Only(Tail(q), Report)) + 1 ELSE Len(Only(Tail(q), Report))
    BY OnlyLength
<1>2. q # <<>> => Head(q) \in Response \cup Report
    BY QueueType
<1> QED
    BY <1>1, <1>2, MessageKinds

\* Nothing on the way fits any moment.
LEMMA SilentFits ==
    ASSUME Silent
    PROVE  Discovering /\ Running /\ InFlight = 0
<1>1. \A S : <<>> \in Seq(S)
    OBVIOUS
<1>2. Only(wire, Report) = <<>>
    BY OnlyEmpty DEF Silent
<1>3. InFlight = 0
    BY <1>2 DEF InFlight, Silent
<1> QED
    BY <1>1, <1>3 DEF Silent, Discovering, Running

\* The chain's messages are counted in natural numbers.
LEMMA InFlightType ==
    ASSUME TypeOK
    PROVE  /\ Len(requests) \in Nat /\ Len(dsp_busy) \in Nat /\ Len(inds) \in Nat
           /\ Len(Only(wire, Report)) \in Nat /\ InFlight \in Nat
<1>1. /\ Len(requests) \in Nat /\ Len(dsp_busy) \in Nat /\ Len(inds) \in Nat
      /\ wire \in Seq(Response \cup Report)
    BY DEF TypeOK
<1>2. Len(Only(wire, Report)) \in Nat
    BY <1>1, WireReports
<1> QED
    BY <1>1, <1>2 DEF InFlight

known == <<service_available, uid_known>>

\* A response leaves the wire.
LEMMA ResponseLeaves ==
    ASSUME TypeOK, wire # <<>>, Head(wire).kind = "response", wire' = Tail(wire),
           UNCHANGED <<known, requests, inds, dspVars>>
    PROVE  /\ Discovering => Discovering'
           /\ Running => Running'
           /\ InFlight' = InFlight
<1>1. wire \in Seq(Response \cup Report)
    BY DEF TypeOK
<1>2. Len(Only(wire', Report)) = Len(Only(wire, Report))
    BY <1>1, WireReports
<1>3. InFlight' = InFlight
    BY <1>2 DEF InFlight, dspVars
<1>4. \A S : wire \in Seq(S) => wire' \in Seq(S)
    BY QueueType
<1>5. Asks' = Asks /\ Answers' = Answers
    BY DEF Asks, Asked, Answers, known
<1>6. Discovering => Discovering'
    BY <1>3, <1>4, <1>5 DEF Discovering, dspVars
<1> QED
    BY <1>3, <1>4, <1>6 DEF Running, dspVars

\* An indication goes from the wire to the idle loop.
LEMMA QueueIndicationMoves ==
    ASSUME TypeOK, QueueIndication
    PROVE  /\ Discovering => Discovering'
           /\ Running => Running'
           /\ InFlight' = InFlight
<1>1. /\ wire \in Seq(Response \cup Report) /\ wire # <<>> /\ Head(wire).kind # "response"
      /\ wire' = Tail(wire) /\ inds' = Append(inds, Head(wire)) /\ inds \in Seq(Report)
      /\ UNCHANGED <<known, requests, dspVars>>
    BY DEF TypeOK, QueueIndication, hostVars, sensorVars, sendVars, known
<1>2. Len(Only(wire, Report)) = Len(Only(wire', Report)) + 1 /\ Len(Only(wire', Report)) \in Nat
    <2>1. wire' \in Seq(Response \cup Report)
        BY <1>1, QueueType
    <2> QED
        BY <1>1, <2>1, WireReports
<1>3. ASSUME NEW S, wire \in Seq(Response \cup S)
      PROVE  Head(wire) \in S /\ wire' \in Seq(Response \cup S)
    <2>1. Head(wire) \in Response \cup S /\ wire' \in Seq(Response \cup S)
        BY <1>1, <1>3, QueueType
    <2> QED
        BY <1>1, <2>1, MessageKinds
<1>4. ASSUME NEW S, wire \in Seq(Response \cup S), inds \in Seq(S)
      PROVE  inds' \in Seq(S) /\ wire' \in Seq(Response \cup S) /\ Len(inds') = Len(inds) + 1
    <2>1. Head(wire) \in S /\ wire' \in Seq(Response \cup S)
        BY <1>3, <1>4
    <2> QED
        BY <1>1, <1>4, <2>1, AppendProperties
<1>5. InFlight' = InFlight
    <2>1. Len(inds') = Len(inds) + 1 /\ Len(inds) \in Nat
        BY <1>1, <1>4
    <2> QED
        BY <1>1, <1>2, <2>1, InFlightType DEF InFlight, dspVars
<1>6. Asks' = Asks /\ Answers' = Answers
    BY <1>1 DEF Asks, Asked, Answers, known
<1>7. Discovering => Discovering'
    BY <1>1, <1>4, <1>5, <1>6 DEF Discovering, dspVars
<1> QED
    BY <1>1, <1>4, <1>5, <1>7 DEF Running, dspVars

\* The DSP takes a request and responds; a rejected one goes no further.
LEMMA DspReplyMoves ==
    ASSUME TypeOK, DspReply
    PROVE  /\ Discovering => Discovering'
           /\ Running => Running'
           /\ "reject" \notin Faults => InFlight' = InFlight
<1>1. /\ requests \in Seq(Request) /\ requests # <<>> /\ requests' = Tail(requests)
      /\ dsp_busy = <<>> /\ wire \in Seq(Response \cup Report)
      /\ UNCHANGED <<known, inds, dsp_enabled>>
    BY DEF TypeOK, DspReply, hostVars, sensorVars, known
<1>2. PICK ok \in BOOLEAN :
        /\ wire' = Append(wire, [kind |-> "response", req |-> Head(requests), ok |-> ok])
        /\ ok => dsp_busy' = <<Head(requests)>>
        /\ ~ok => dsp_busy' = <<>> /\ "reject" \in Faults
    BY <1>1 DEF DspReply
<1>3. /\ [kind |-> "response", req |-> Head(requests), ok |-> ok] \in Response
      /\ Len(requests) = Len(requests') + 1 /\ Len(requests') \in Nat
    <2>1. Head(requests) \in Request /\ requests' \in Seq(Request) /\ Len(requests') = Len(requests) - 1
        BY <1>1, HeadTailProperties
    <2> QED
        BY <1>1, <2>1 DEF Response
<1>4. Len(Only(wire', Report)) = Len(Only(wire, Report)) /\ Len(Only(wire, Report)) \in Nat
    BY <1>1, <1>2, <1>3, WireReports
<1>5. /\ InFlight' <= InFlight
      /\ "reject" \notin Faults => InFlight' = InFlight
    <2>1. Len(inds') = Len(inds) /\ Len(inds) \in Nat /\ Len(dsp_busy) = 0
        BY <1>1, InFlightType
    <2>2. CASE ok = TRUE
        <3>1. Len(dsp_busy') = 1
            BY <1>2, <2>2
        <3> QED
            BY <1>3, <1>4, <2>1, <3>1 DEF InFlight
    <2>3. CASE ok = FALSE
        <3>1. Len(dsp_busy') = 0 /\ "reject" \in Faults
            BY <1>2, <2>3
        <3> QED
            BY <1>3, <1>4, <2>1, <3>1 DEF InFlight
    <2> QED
        BY <2>2, <2>3
<1>6. ASSUME NEW S, requests \in Seq(S)
      PROVE  requests' \in Seq(S) /\ dsp_busy' \in Seq(S)
    <2>1. Head(requests) \in S /\ requests' \in Seq(S)
        BY <1>1, <1>6, QueueType
    <2>2. <<Head(requests)>> \in Seq(S) /\ <<>> \in Seq(S)
        BY <2>1, EnqueueType
    <2> QED
        BY <1>2, <2>1, <2>2
<1>7. ASSUME NEW S, wire \in Seq(Response \cup S)
      PROVE  wire' \in Seq(Response \cup S)
    BY <1>2, <1>3, <1>7, EnqueueType
<1>8. Asks' = Asks /\ Answers' = Answers
    BY <1>1 DEF Asks, Asked, Answers, known
<1>9. Discovering => Discovering'
    <2> SUFFICES ASSUME Discovering PROVE Discovering'
        OBVIOUS
    <2>1. InFlight' <= 1
        BY <1>5, InFlightType DEF Discovering, InFlight
    <2>2. wire' \in Seq(Response \cup Answers) /\ requests' \in Seq(Asks) /\ dsp_busy' \in Seq(Asks)
        BY <1>6, <1>7 DEF Discovering
    <2> QED
        BY <1>1, <1>8, <2>1, <2>2 DEF Discovering
<1> QED
    BY <1>1, <1>5, <1>6, <1>7, <1>9 DEF Running

\* The DSP acts upon the request it took: it answers one of initialisation,
\* and enables or disables the sensor for one of the application.
LEMMA DspActMoves ==
    ASSUME TypeOK, DspAct
    PROVE  /\ Discovering => Discovering' /\ InFlight' = InFlight
           /\ Running => Running'
<1>1. /\ dsp_busy # <<>> /\ dsp_busy' = <<>> /\ wire \in Seq(Response \cup Report)
      /\ UNCHANGED <<known, requests, inds>> /\ dsp_busy \in Seq(Request)
    BY DEF TypeOK, DspAct, hostVars, sensorVars, sendVars, known
<1>2. \A S : <<>> \in Seq(S)
    OBVIOUS
<1>3. Asks' = Asks /\ Answers' = Answers
    BY <1>1 DEF Asks, Asked, Answers, known
<1>4. ASSUME Discovering
      PROVE  Discovering' /\ InFlight' = InFlight
    <2>1. dsp_busy \in Seq(Asks) /\ wire \in Seq(Response \cup Answers) /\ InFlight <= 1
        BY <1>4 DEF Discovering
    <2>2. Head(dsp_busy) \in Asks
        BY <1>1, <2>1, QueueType
    <2>3. dsp_enabled' = dsp_enabled /\ \E m \in Answers : wire' = Append(wire, m)
        BY <2>2, ConstantsAssumption DEF Asks, Asked, Answers, DspAct
    <2>4. PICK m \in Answers : wire' = Append(wire, m)
        BY <2>3
    <2>5. wire' \in Seq(Response \cup Answers)
        BY <2>1, <2>4, EnqueueType
    <2>6. Len(Only(wire', Report)) = Len(Only(wire, Report)) + 1 /\ Len(Only(wire, Report)) \in Nat
        BY <1>1, <2>4, WireReports, MessageKinds
    <2>7. Len(dsp_busy) \in Nat \ {0} /\ Len(dsp_busy') = 0 /\ Len(requests') = Len(requests)
          /\ Len(inds') = Len(inds)
        BY <1>1
    <2>8. InFlight' = InFlight /\ InFlight' <= 1
        BY <2>1, <2>6, <2>7, InFlightType DEF InFlight
    <2> QED
        BY <1>1, <1>2, <1>3, <1>4, <2>3, <2>5, <2>8 DEF Discovering
<1>5. ASSUME Running
      PROVE  Running'
    <2>1. Head(dsp_busy) \in Enables \cup Disables
        BY <1>1, <1>5, QueueType DEF Running
    <2>2. wire' = wire
        BY <2>1 DEF DspAct, Enables, Disables
    <2> QED
        BY <1>1, <1>2, <1>5, <2>2 DEF Running
<1> QED
    BY <1>4, <1>5

\* Only an enabled sensor streams, and none is before it is initialised.
LEMMA DspStreamMoves ==
    ASSUME TypeOK, DspStream
    PROVE  ~Discovering /\ (Running => Running')
<1>1. ~Discovering
    BY DEF DspStream, Discovering
<1>2. \E m \in StreamReports : wire' = Append(wire, m)
    BY DEF DspStream, StreamReports
<1>3. Running => wire' \in Seq(Response \cup StreamReports)
    BY <1>2, EnqueueType DEF Running
<1> QED
    BY <1>1, <1>3 DEF Running, DspStream, sendVars, dspVars

\* A report of the chain is the only message there is, so that nothing else
\* travels when it is handled.
LEMMA LastOfChain ==
    ASSUME TypeOK, Discovering, inds # <<>>, inds' = Tail(inds)
    PROVE  /\ Head(inds) \in Answers /\ requests = <<>> /\ dsp_busy = <<>> /\ inds' = <<>>
           /\ Len(Only(wire, Report)) = 0 /\ InFlight = 1
<1>1. inds \in Seq(Answers) /\ Head(inds) \in Answers /\ Len(inds') = Len(inds) - 1 /\ inds' \in Seq(Answers)
    BY HeadTailProperties DEF Discovering
<1>2. Len(inds) \in Nat \ {0}
    BY <1>1
<1>3. Len(requests) + Len(dsp_busy) + Len(Only(wire, Report)) + Len(inds) <= 1
    BY DEF Discovering, InFlight
<1>4. Len(requests) = 0 /\ Len(dsp_busy) = 0 /\ Len(inds) = 1 /\ Len(Only(wire, Report)) = 0
    <2>1. \A a, b, c, d \in Nat : a + b + c + d <= 1 /\ d # 0 => a = 0 /\ b = 0 /\ c = 0 /\ d = 1
        OBVIOUS
    <2> QED
        BY <1>2, <1>3, <2>1, InFlightType
<1>5. InFlight = 1
    BY <1>4 DEF InFlight
<1> QED
    BY <1>1, <1>4, <1>5 DEF TypeOK

\* A queue of responses and reports none of which is a report.
LEMMA OnlyResponses ==
    ASSUME TypeOK, Len(Only(wire, Report)) = 0
    PROVE  \A S : wire \in Seq(Response \cup S)
<1>1. wire \in Seq(Response \cup Report)
    BY DEF TypeOK
<1>2. Only(wire, Report) \in Seq((Response \cup Report) \cap Report)
    BY <1>1, OnlyType
<1>3. Only(wire, Report) = <<>>
    BY <1>2
<1>4. wire \in Seq((Response \cup Report) \ Report)
    BY <1>1, <1>3, OnlyLeftOut
<1>5. ASSUME NEW S PROVE (Response \cup Report) \ Report \subseteq Response \cup S
    OBVIOUS
<1> QED
    BY <1>4, <1>5

\* No message of the chain travels.
Rest ==
    /\ requests = <<>> /\ dsp_busy = <<>> /\ inds = <<>> /\ ~dsp_enabled
    /\ Len(Only(wire, Report)) = 0 /\ \A S : wire \in Seq(Response \cup S)

\* It fits any moment.
LEMMA RestFits ==
    ASSUME Rest
    PROVE  Discovering /\ Running
<1>1. \A S : <<>> \in Seq(S)
    OBVIOUS
<1>2. InFlight <= 1
    BY DEF InFlight, Rest
<1>3. /\ \A S : wire \in Seq(Response \cup S)
      /\ \A S : requests \in Seq(S) /\ dsp_busy \in Seq(S) /\ inds \in Seq(S)
    BY <1>1 DEF Rest
<1>4. Discovering
    BY <1>2, <1>3, Zenon DEF Rest, Discovering
<1>5. Running
    BY <1>3, Zenon DEF Running
<1> QED
    BY <1>4, <1>5

\* One request alone on its way, for what is to be known next.
LEMMA AskMoves ==
    ASSUME TypeOK, requests = <<>>, dsp_busy = <<>>, ~dsp_enabled, Len(Only(wire, Report)) = 0,
           inds' = <<>>, UNCHANGED <<wire, dspVars>>,
           NEW op \in Ops, NEW t \in Tasks \cup {NoTask}, Send(op, t), Asked' = op
    PROVE  Discovering' /\ InFlight' = 1
<1> DEFINE r == [id |-> next_id, op |-> op, task |-> t]
<1>1. r \in Asks'
    BY DEF Asks, TypeOK
<1>2. requests' = <<r>> /\ Len(requests') = 1
    BY DEF Send
<1>3. requests' \in Seq(Asks')
    <2> HIDE DEF r
    <2> QED
        BY <1>1, <1>2, EnqueueType
<1>4. wire' \in Seq(Response \cup Answers')
    BY OnlyResponses
<1>5. <<>> \in Seq(Asks') /\ <<>> \in Seq(Answers')
    OBVIOUS
<1>6. InFlight' = 1
    BY <1>2 DEF InFlight, dspVars
<1> QED
    BY <1>3, <1>4, <1>5, <1>6 DEF Discovering, dspVars

\* report_received during initialisation: the chain goes on or ends.
LEMMA HandleMoves ==
    ASSUME TypeOK, ServiceInv, Discovering, task[InitTask] # "true",
           inds # <<>>, inds' = Tail(inds), UNCHANGED <<wire, dspVars>>,
           NEW t \in listeners, task[t] = "pending", Handle(t, Head(inds))
    PROVE  /\ t = InitTask /\ task'[InitTask] # "unused"
           /\ Discovering'
           /\ task'[InitTask] = "true" => Running'
           /\ task'[InitTask] = "pending" => InFlight' = 1 /\ UNCHANGED listenerVars
<1> DEFINE m == Head(inds)
<1>1. /\ m \in Answers /\ requests = <<>> /\ dsp_busy = <<>> /\ inds' = <<>>
      /\ Len(Only(wire, Report)) = 0 /\ ~dsp_enabled
    BY LastOfChain DEF Discovering
<1>2. t = InitTask /\ InitTask \in Tasks /\ InitTask \in Tasks \cup {NoTask} /\ NoTask \in Tasks \cup {NoTask}
    BY DEF ServiceInv, TypeOK, Tasks
<1>3. requests' = requests => Rest'
    BY <1>1, OnlyResponses DEF Rest, dspVars
<1>4. ASSUME NEW op \in Ops, NEW u \in Tasks \cup {NoTask}, Send(op, u), Asked' = op,
             UNCHANGED <<task, listenerVars>>
      PROVE  /\ task'[InitTask] # "unused" /\ task'[InitTask] # "true" /\ Discovering'
             /\ InFlight' = 1 /\ UNCHANGED listenerVars
    BY <1>1, <1>2, <1>4, AskMoves
<1>5. ASSUME NEW result \in {"no_service", "false", "true"}, Return(t, result), requests' = requests
      PROVE  /\ task'[InitTask] = result /\ Discovering' /\ Running'
    <2>1. Discovering' /\ Running'
        BY <1>3, <1>5, RestFits, PTL
    <2> QED
        BY <1>2, <1>5, <2>1 DEF Return, TypeOK
<1>6. {"registry", "suid", "attributes"} \subseteq Ops
    BY DEF Ops
<1> HIDE DEF m
<1>7. CASE ServiceFound(t, m)
    <2>1. ~service_available
        BY <1>1, <1>7 DEF ServiceFound, IsService, Answers
    <2>2. Asked' = "suid" /\ Send("suid", t) /\ UNCHANGED <<task, listenerVars>>
        BY <1>7, <2>1 DEF ServiceFound, Asked, ServiceInv
    <2>3. task'[InitTask] # "unused" /\ task'[InitTask] # "true" /\ Discovering'
          /\ InFlight' = 1 /\ UNCHANGED listenerVars
        BY <1>2, <1>4, <1>6, <2>2
    <2> QED
        BY <1>2, <2>3
<1>8. CASE ServiceMissing(t, m)
    <2>1. CASE Poll(t) /\ UNCHANGED <<task, halt, listenerVars>>
        <3>1. Asked' = "registry" /\ Send("registry", t)
            BY <1>8, <2>1 DEF ServiceMissing, Asked, Poll
        <3>2. task'[InitTask] # "unused" /\ task'[InitTask] # "true" /\ Discovering'
              /\ InFlight' = 1 /\ UNCHANGED listenerVars
            BY <1>2, <1>4, <1>6, <2>1, <3>1
        <3> QED
            BY <1>2, <3>2
    <2>2. CASE StopListening /\ Return(t, "no_service") /\ UNCHANGED sendVars
        <3>1. requests' = requests
            BY <2>2 DEF sendVars
        <3> QED
            BY <1>2, <1>5, <2>2, <3>1
    <2> QED
        BY <1>8, <2>1, <2>2 DEF ServiceMissing
<1>9. CASE SensorFound(m)
    <2>1. Asked' = "attributes" /\ Send("attributes", NoTask) /\ UNCHANGED <<task, listenerVars>>
        BY <1>9 DEF SensorFound, Asked
    <2>2. task'[InitTask] # "unused" /\ task'[InitTask] # "true" /\ Discovering'
          /\ InFlight' = 1 /\ UNCHANGED listenerVars
        BY <1>2, <1>4, <1>6, <2>1
    <2> QED
        BY <1>2, <2>2
<1>10. CASE SensorMissing(t, m)
    <2>1. Return(t, "false") /\ requests' = requests
        BY <1>10 DEF SensorMissing, sendVars
    <2> QED
        BY <1>2, <1>5, <2>1
<1>11. CASE AttributesReceived(t, m)
    <2>1. Return(t, "true") /\ requests' = requests
        BY <1>11 DEF AttributesReceived, sendVars
    <2> QED
        BY <1>2, <1>5, <2>1
<1>12. CASE EnableConfirmed(t, m)
    BY <1>1, <1>12 DEF EnableConfirmed, Answers
<1> QED
    BY <1>7, <1>8, <1>9, <1>10, <1>11, <1>12 DEF Handle, m

-----------------------------------------------------------------------------
(* The chain is kept by every step, unless other sensors' reports mix in *)

\* The end of a request decides neither that a sensor is there, nor what
\* travels.
LEMMA RequestReadyMoves ==
    ASSUME TypeOK, ServiceInv, NEW r \in outstanding, NEW ok, RequestReady(r, ok)
    PROVE  /\ client # "creating" /\ client' # "creating"
           /\ task[InitTask] # "unused" /\ task'[InitTask] # "unused"
           /\ task'[InitTask] = "true" <=> task[InitTask] = "true"
           /\ task'[InitTask] = "pending" => task[InitTask] = "pending"
           /\ disposed' = disposed /\ UNCHANGED <<known, listenerVars, requests, inds, dspVars>>
<1>1. client # "creating" /\ client' # "creating" /\ task[InitTask] # "unused"
    BY DEF RequestReady, ClientAfter, ServiceInv
<1>2. CASE task' = task
    BY <1>1, <1>2 DEF RequestReady, known, sensorVars
<1>3. ASSUME NEW result, task[r.task] = "pending", task' = [task EXCEPT ![r.task] = result],
             result = "request_failed" \/ (result = "true" /\ r.op = "disable")
      PROVE  /\ task'[InitTask] # "unused"
             /\ task'[InitTask] = "true" <=> task[InitTask] = "true"
             /\ task'[InitTask] = "pending" => task[InitTask] = "pending"
    <2>1. result = "true" => r.task # InitTask
        BY <1>3, ConstantsAssumption DEF ServiceInv
    <2> QED
        BY <1>1, <1>3, <2>1 DEF TypeOK, Tasks
<1>4. task' = task \/ \E result :
        /\ task[r.task] = "pending" /\ task' = [task EXCEPT ![r.task] = result]
        /\ result = "request_failed" \/ (result = "true" /\ r.op = "disable")
    BY DEF RequestReady, FailRequest, Return, SuccessReturns
<1> QED
    BY <1>1, <1>2, <1>3, <1>4 DEF RequestReady, known, sensorVars

\* Before the first message nothing is on its way.
LEMMA ChainInit == Init => ChainInv
<1> SUFFICES ASSUME Init PROVE ChainInv
    OBVIOUS
<1>1. Silent /\ task[InitTask] = "unused" /\ ~disposed
    BY DEF Init, Silent, Tasks
<1> QED
    BY <1>1, SilentFits DEF ChainInv

\* A step that leaves the calls and the sensor alone keeps the chain if it
\* keeps what travels in its kind.
LEMMA ChainKept ==
    ASSUME ChainInv, UNCHANGED <<task, disposed, client>>,
           Discovering => Discovering', Running => Running', Silent => Silent'
    PROVE  ChainInv'
BY DEF ChainInv

\* Every step of the application and the host's calls keeps the chain.
LEMMA ChainCalls ==
    ASSUME TypeOK, ServiceInv, ChainInv,
           \/ New \/ ClientReady \/ SensorDispose \/ ClientDisposed
           \/ \E t \in OpenTasks : Open(t)
           \/ \E t \in CloseTasks : Close(t)
    PROVE  ChainInv'
<1>0. /\ InitTask \in Tasks /\ OpenTasks \subseteq Tasks /\ CloseTasks \subseteq Tasks
      /\ InitTask \notin OpenTasks /\ InitTask \notin CloseTasks
    BY ConstantsAssumption DEF Tasks
<1>1. CASE New
    <2>1. Silent /\ UNCHANGED <<requests, wire, inds, dspVars>>
        BY <1>1 DEF New, ChainInv, sendVars
    <2>2. Silent'
        BY <2>1 DEF Silent, dspVars
    <2>3. Discovering'
        BY <2>2, SilentFits, PTL
    <2>4. task'[InitTask] = "pending" /\ ~disposed'
        BY <1>0, <1>1 DEF New, ChainInv, TypeOK
    <2> QED
        BY <2>2, <2>3, <2>4 DEF ChainInv
<1>2. CASE ClientReady
    <2>1. /\ Silent /\ client' # "creating" /\ UNCHANGED <<wire, inds, dspVars>>
          /\ task[InitTask] = "pending" /\ ~disposed'
        BY <1>2 DEF ClientReady, ChainInv, ServiceInv
    <2>2. CASE client' = "none" /\ Return(InitTask, "client_failed")
               /\ UNCHANGED <<sensorVars, listenerVars, sendVars>>
        <3>1. Silent' /\ task'[InitTask] = "client_failed"
            BY <1>0, <2>1, <2>2 DEF Silent, dspVars, sendVars, Return, TypeOK
        <3>2. Discovering'
            BY <3>1, SilentFits, PTL
        <3> QED
            BY <2>1, <3>1, <3>2 DEF ChainInv
    <2>3. CASE service_available' = FALSE /\ Poll(InitTask) /\ UNCHANGED <<task, attrs, uid_known, halt>>
        <3>1. Asked' = "registry" /\ Send("registry", InitTask) /\ "registry" \in Ops
              /\ InitTask \in Tasks \cup {NoTask}
            BY <1>0, <2>3 DEF Asked, Poll, Ops
        <3>2. Len(Only(wire, Report)) = 0 /\ requests = <<>> /\ dsp_busy = <<>> /\ ~dsp_enabled /\ inds' = <<>>
            BY <2>1, OnlyEmpty DEF Silent
        <3>3. Discovering'
            BY <2>1, <3>1, <3>2, AskMoves
        <3> QED
            BY <2>1, <2>3, <3>3 DEF ChainInv
    <2> QED
        BY <1>2, <2>2, <2>3 DEF ClientReady
<1>3. CASE SensorDispose
    <2>1. /\ UNCHANGED <<task, known, requests, wire, inds, dspVars>>
          /\ task[InitTask] \notin {"unused", "pending"} /\ client # "creating" /\ client' # "creating"
        BY <1>3 DEF SensorDispose, sensorVars, sendVars, known, ClientAfter, ServiceInv
    <2>2. Asks' = Asks /\ Answers' = Answers /\ InFlight' = InFlight
        BY <2>1 DEF Asks, Asked, Answers, InFlight, known, dspVars
    <2>3. (Discovering => Discovering') /\ (Running => Running')
        BY <2>1, <2>2 DEF Discovering, Running, dspVars
    <2> QED
        BY <2>1, <2>3 DEF ChainInv
<1>4. CASE ClientDisposed
    <2>1. Silent' /\ UNCHANGED <<task, disposed>>
        BY <1>4 DEF ClientDisposed, Silent
    <2>2. Discovering' /\ Running'
        BY <2>1, SilentFits, PTL
    <2> QED
        BY <2>1, <2>2 DEF ChainInv
<1>5. ASSUME NEW t \in Tasks, NEW r \in Enables \cup Disables, requests' = Append(requests, r) \/ requests' = requests,
             task[InitTask] = "true", task'[InitTask] = "true",
             UNCHANGED <<client, wire, inds, dspVars>>
      PROVE  ChainInv'
    <2>1. requests' \in Seq(Enables \cup Disables)
        BY <1>5, EnqueueType DEF ChainInv, Running
    <2>2. Running'
        BY <1>5, <2>1 DEF ChainInv, Running, dspVars
    <2> QED
        BY <1>5, <2>2 DEF ChainInv, ServiceInv
<1>6. ASSUME NEW t \in OpenTasks, Open(t) PROVE ChainInv'
    <2> DEFINE r == [id |-> next_id, op |-> "enable", task |-> t]
    <2>1. r \in Enables \cup Disables /\ t \in Tasks
        BY <1>0 DEF Enables, TypeOK
    <2>2. /\ requests' = Append(requests, r) \/ requests' = requests
          /\ task[InitTask] = "true" /\ task'[InitTask] = "true"
          /\ UNCHANGED <<client, wire, inds, dspVars>>
        BY <1>0, <1>6 DEF Open, Send, sendVars, TypeOK
    <2> HIDE DEF r
    <2> QED
        BY <1>5, <2>1, <2>2
<1>7. ASSUME NEW t \in CloseTasks, Close(t) PROVE ChainInv'
    <2> DEFINE r == [id |-> next_id, op |-> "disable", task |-> t]
    <2>1. r \in Enables \cup Disables /\ t \in Tasks
        BY <1>0 DEF Disables, TypeOK
    <2>2. /\ requests' = Append(requests, r) \/ requests' = requests
          /\ task[InitTask] = "true" /\ task'[InitTask] = "true"
          /\ UNCHANGED <<client, wire, inds, dspVars>>
        BY <1>0, <1>7 DEF Close, Send, TypeOK
    <2> HIDE DEF r
    <2> QED
        BY <1>5, <2>1, <2>2
<1> QED
    BY <1>1, <1>2, <1>3, <1>4, <1>6, <1>7

\* Once the sensor is initialised a report is one of its stream, and ends an
\* open at most.
LEMMA StreamReportMoves ==
    ASSUME TypeOK, ServiceInv, Running, task[InitTask] = "true", Dispatch
    PROVE  /\ Head(inds) \in StreamReports
           /\ Running' /\ task'[InitTask] = "true" /\ UNCHANGED <<attrs, sendVars>>
           /\ \/ UNCHANGED task
              \/ \E t \in listeners : task[t] = "pending" /\ task' = [task EXCEPT ![t] = "true"]
<1> DEFINE m == Head(inds)
<1>1. inds \in Seq(StreamReports) /\ inds # <<>> /\ inds' = Tail(inds)
    BY DEF Running, Dispatch
<1>2. m \in StreamReports /\ inds' \in Seq(StreamReports)
    BY <1>1, QueueType
<1>3. m.kind \in {"config", "measurement"}
    BY <1>2 DEF StreamReports
<1> HIDE DEF m
<1>4. Emit(m)
    BY DEF Dispatch, m
<1>5. /\ UNCHANGED <<attrs, sendVars>>
      /\ \/ UNCHANGED task
         \/ \E t \in listeners : task[t] = "pending" /\ task' = [task EXCEPT ![t] = "true"]
    BY <1>3, <1>4 DEF Emit, Handle, ServiceFound, ServiceMissing, SensorFound, SensorMissing,
          AttributesReceived, EnableConfirmed, IsService, Return, sensorVars
<1>6. task'[InitTask] = "true"
    BY <1>5 DEF TypeOK, Tasks
<1>7. Running'
    BY <1>2, <1>5 DEF Running, Dispatch, sendVars, dspVars
<1> QED
    BY <1>2, <1>5, <1>6, <1>7 DEF m

\* A report dispatched keeps the chain.
LEMMA ChainDispatch ==
    ASSUME TypeOK, ServiceInv, ChainInv, Dispatch
    PROVE  ChainInv'
<1>1. /\ inds # <<>> /\ inds' = Tail(inds) /\ UNCHANGED <<disposed, client, wire, dspVars>> /\ ~Silent
      /\ Emit(Head(inds)) /\ task[InitTask] # "unused" /\ client # "creating"
    BY DEF Dispatch, ChainInv, Silent
<1>2. CASE task[InitTask] = "true"
    <2>1. Running' /\ task'[InitTask] = "true"
        BY <1>2, StreamReportMoves DEF ChainInv
    <2> QED
        BY <1>1, <2>1 DEF ChainInv
<1>3. CASE task[InitTask] # "true"
    <2>0. Discovering
        BY <1>3 DEF ChainInv
    <2>1. ASSUME UNCHANGED <<task, sensorVars, sendVars>>
          PROVE  ChainInv'
        <3>1. requests = <<>> /\ dsp_busy = <<>> /\ inds' = <<>> /\ Len(Only(wire, Report)) = 0 /\ ~dsp_enabled
            BY <1>1, <2>0, LastOfChain DEF Discovering
        <3>2. Rest'
            BY <1>1, <2>1, <3>1, OnlyResponses DEF Rest, sendVars, dspVars
        <3>3. Discovering'
            BY <3>2, RestFits, PTL
        <3> QED
            BY <1>1, <1>3, <2>1, <3>3 DEF ChainInv
    <2>2. ASSUME NEW t \in listeners, task[t] = "pending", Handle(t, Head(inds)), ~disposed
          PROVE  ChainInv'
        BY <1>1, <1>3, <2>0, <2>2, HandleMoves DEF ChainInv
    <2> QED
        BY <1>1, <2>1, <2>2 DEF Emit
<1> QED
    BY <1>2, <1>3

\* Every step keeps the chain.
LEMMA ChainNext ==
    ASSUME "foreign" \notin Faults, TypeOK, ServiceInv, ChainInv, [Next]_vars
    PROVE  ChainInv'
<1>1. CASE ReceiveResponse
    <2>1. wire # <<>> /\ Head(wire).kind = "response" /\ wire' = Tail(wire) /\ ~Silent
        BY <1>1 DEF ReceiveResponse, Silent
    <2>2. CASE RequestReady(Head(wire).req, Head(wire).ok)
        <3>1. Head(wire).req \in outstanding
            BY <2>2 DEF RequestReady
        <3>2. /\ client # "creating" /\ client' # "creating"
              /\ task[InitTask] # "unused" /\ task'[InitTask] # "unused"
              /\ task'[InitTask] = "true" <=> task[InitTask] = "true"
              /\ task'[InitTask] = "pending" => task[InitTask] = "pending"
              /\ disposed' = disposed /\ UNCHANGED <<known, requests, inds, dspVars>>
            BY <2>2, <3>1, RequestReadyMoves
        <3>3. (Discovering => Discovering') /\ (Running => Running')
            BY <2>1, <3>2, ResponseLeaves
        <3> QED
            BY <3>2, <3>3 DEF ChainInv
    <2>3. CASE UNCHANGED <<hostVars, sendVars, inds, dspVars>>
        <3>1. UNCHANGED <<known, requests, inds, dspVars, task, disposed, client>>
            BY <2>3 DEF hostVars, sensorVars, sendVars, known
        <3>2. (Discovering => Discovering') /\ (Running => Running')
            BY <2>1, <3>1, ResponseLeaves
        <3> QED
            BY <2>1, <3>1, <3>2, ChainKept
    <2> QED
        BY <1>1, <2>2, <2>3 DEF ReceiveResponse
<1>2. CASE Abort
    <2>1. PICK r \in outstanding : RequestReady(r, FALSE) /\ wire' = wire
        BY <1>2 DEF Abort
    <2>2. /\ client # "creating" /\ client' # "creating"
          /\ task[InitTask] # "unused" /\ task'[InitTask] # "unused"
          /\ task'[InitTask] = "true" <=> task[InitTask] = "true"
          /\ task'[InitTask] = "pending" => task[InitTask] = "pending"
          /\ disposed' = disposed /\ UNCHANGED <<known, requests, inds, dspVars>>
        BY <2>1, RequestReadyMoves
    <2>3. Asks' = Asks /\ Answers' = Answers /\ InFlight' = InFlight
        BY <2>1, <2>2 DEF Asks, Asked, Answers, InFlight, known, dspVars
    <2>4. (Discovering => Discovering') /\ (Running => Running')
        BY <2>1, <2>2, <2>3 DEF Discovering, Running, dspVars
    <2> QED
        BY <2>2, <2>4 DEF ChainInv
<1>3. CASE QueueIndication
    BY <1>3, QueueIndicationMoves, ChainKept DEF QueueIndication, hostVars, Silent
<1>4. CASE DropGarbled
    <2>1. /\ inds # <<>> /\ inds' = Tail(inds)
          /\ UNCHANGED <<task, disposed, client, known, requests, wire, dspVars>>
        BY <1>4 DEF DropGarbled, hostVars, sensorVars, sendVars, known
    <2>2. ASSUME NEW S, inds \in Seq(S)
          PROVE  inds' \in Seq(S) /\ Len(inds') = Len(inds) - 1 /\ Len(inds) \in Nat
        BY <2>1, <2>2, HeadTailProperties
    <2>3. ASSUME Discovering PROVE Discovering'
        <3>1. Asks' = Asks /\ Answers' = Answers
            BY <2>1 DEF Asks, Asked, Answers, known
        <3>2. InFlight = 1 /\ Len(requests) = 0 /\ Len(dsp_busy) = 0 /\ inds' = <<>>
              /\ Len(Only(wire, Report)) = 0
            BY <2>1, <2>3, LastOfChain
        <3>3. InFlight' <= 1
            BY <2>1, <3>2 DEF InFlight, dspVars
        <3> QED
            BY <2>1, <2>2, <2>3, <3>1, <3>3 DEF Discovering, dspVars
    <2>4. Running => Running'
        BY <2>1, <2>2 DEF Running, dspVars
    <2> QED
        BY <2>1, <2>3, <2>4, ChainKept DEF Silent
<1>5. CASE DspReply
    BY <1>5, DspReplyMoves, ChainKept DEF DspReply, hostVars, Silent
<1>6. CASE DspAct
    BY <1>6, DspActMoves, ChainKept DEF DspAct, hostVars, Silent
<1>7. CASE DspStream
    BY <1>7, DspStreamMoves, ChainKept DEF DspStream, hostVars, Silent
<1>8. CASE DspForeign
    BY <1>8 DEF DspForeign
<1>9. CASE UNCHANGED vars
    <2>1. UNCHANGED <<task, disposed, client, known, requests, wire, inds, dspVars>>
        BY <1>9 DEF vars, hostVars, sensorVars, sendVars, known
    <2>2. Asks' = Asks /\ Answers' = Answers /\ InFlight' = InFlight
        BY <2>1 DEF Asks, Asked, Answers, InFlight, known, dspVars
    <2>3. (Discovering => Discovering') /\ (Running => Running') /\ (Silent => Silent')
        BY <2>1, <2>2 DEF Discovering, Running, Silent, dspVars
    <2> QED
        BY <2>1, <2>3, ChainKept
<1> QED
    BY <1>1, <1>2, <1>3, <1>4, <1>5, <1>6, <1>7, <1>8, <1>9, ChainCalls, ChainDispatch
       DEF Next, Step, Finished

\* Unless reports of other data types mix in, and whatever is lost, rejected
\* or garbled: at most one message of initialisation travels at a time and it
\* is for the next thing to be known, and nothing of initialisation is left on
\* the way when the application gets its sensor.
THEOREM ChainInvariant ==
    ASSUME "foreign" \notin Faults
    PROVE  Spec => []ChainInv
<1>1. Init => ChainInv
    BY ChainInit
<1>2. TypeOK /\ ServiceInv /\ ChainInv /\ [Next]_vars => ChainInv'
    BY ChainNext
<1> QED
    BY <1>1, <1>2, TypeCorrect, ServiceInvariant, PTL DEF Spec

-----------------------------------------------------------------------------
(* And it never stops before initialisation returns, unless a message is lost *)

\* The strengthening of OneStepInFlight: the answer finds its listener.
TokenInv ==
    task[InitTask] = "pending" /\ client = "up" => listeners = {InitTask} /\ InFlight = 1

\* The answer of the chain is always for the one that waits.
LEMMA AnswersConcern ==
    ASSUME ServiceInv, NEW m \in Answers
    PROVE  Concerns(m)
BY DEF Answers, Concerns, IsService, ServiceInv

\* Every step keeps the chain's one message while initialisation waits.
LEMMA TokenNext ==
    ASSUME Faults \subseteq {"abort"}, TypeOK, ServiceInv, ChainInv, TokenInv, [Next]_vars
    PROVE  TokenInv'
<1> SUFFICES ASSUME task'[InitTask] = "pending", client' = "up"
             PROVE  listeners' = {InitTask} /\ InFlight' = 1
    BY DEF TokenInv
<1>0. /\ InitTask \in Tasks /\ InitTask \notin OpenTasks /\ InitTask \notin CloseTasks
      /\ "reject" \notin Faults /\ "garbled" \notin Faults /\ "foreign" \notin Faults
    BY ConstantsAssumption DEF Tasks
<1>a. ASSUME task[InitTask] = "pending", client = "up", UNCHANGED listenerVars,
             Discovering => InFlight' = InFlight
      PROVE  listeners' = {InitTask} /\ InFlight' = 1
    BY <1>a DEF TokenInv, ChainInv, listenerVars
<1>1. CASE ClientReady
    <2>1. /\ Silent /\ UNCHANGED <<wire, inds, dspVars>> /\ listeners = {}
          /\ client' = "up" /\ Listen(InitTask) /\ Poll(InitTask) /\ service_available' = FALSE
        BY <1>1 DEF ClientReady, ChainInv, ServiceInv
    <2>2. Asked' = "registry" /\ Send("registry", InitTask) /\ "registry" \in Ops
          /\ InitTask \in Tasks \cup {NoTask}
        BY <1>0, <2>1 DEF Asked, Poll, Ops
    <2>3. Len(Only(wire, Report)) = 0 /\ requests = <<>> /\ dsp_busy = <<>> /\ ~dsp_enabled /\ inds' = <<>>
        BY <2>1, OnlyEmpty DEF Silent
    <2>4. InFlight' = 1
        BY <2>1, <2>2, <2>3, AskMoves
    <2> QED
        BY <2>1, <2>4 DEF Listen
<1>2. CASE New \/ SensorDispose \/ ClientDisposed
    BY <1>2 DEF New, SensorDispose, ClientDisposed
<1>3. ASSUME NEW t \in OpenTasks, Open(t) PROVE FALSE
    BY <1>0, <1>3 DEF Open, TypeOK
<1>4. ASSUME NEW t \in CloseTasks, Close(t) PROVE FALSE
    BY <1>0, <1>4 DEF Close, TypeOK
<1>5. CASE ReceiveResponse
    <2>1. wire # <<>> /\ Head(wire).kind = "response" /\ wire' = Tail(wire)
        BY <1>5 DEF ReceiveResponse
    <2>2. CASE RequestReady(Head(wire).req, Head(wire).ok)
        <3>1. Head(wire).req \in outstanding /\ client = "up"
            BY <2>2 DEF RequestReady, ClientAfter
        <3>2. task[InitTask] = "pending" /\ UNCHANGED <<known, listenerVars, requests, inds, dspVars>>
            BY <2>2, <3>1, RequestReadyMoves
        <3> QED
            BY <1>a, <2>1, <3>1, <3>2, ResponseLeaves
    <2>3. CASE UNCHANGED <<hostVars, sendVars, inds, dspVars>>
        <3>1. UNCHANGED <<task, client, known, listenerVars, requests, inds, dspVars>>
            BY <2>3 DEF hostVars, sensorVars, sendVars, known
        <3> QED
            BY <1>a, <2>1, <3>1, ResponseLeaves
    <2> QED
        BY <1>5, <2>2, <2>3 DEF ReceiveResponse
<1>6. CASE Abort
    <2>1. PICK r \in outstanding : RequestReady(r, FALSE) /\ wire' = wire
        BY <1>6 DEF Abort
    <2>2. client = "up" /\ task[InitTask] = "pending"
          /\ UNCHANGED <<listenerVars, requests, inds, dspVars>>
        BY <2>1, RequestReadyMoves DEF RequestReady, ClientAfter
    <2>3. InFlight' = InFlight
        BY <2>1, <2>2 DEF InFlight, dspVars
    <2> QED
        BY <1>a, <2>2, <2>3
<1>7. CASE QueueIndication
    BY <1>7, <1>a, QueueIndicationMoves DEF QueueIndication, hostVars
<1>8. CASE Dispatch
    <2>1. /\ inds # <<>> /\ inds' = Tail(inds) /\ UNCHANGED <<disposed, client, wire, dspVars>>
          /\ Emit(Head(inds)) /\ client = "up"
        BY <1>8 DEF Dispatch
    <2>2. task[InitTask] = "pending"
        BY <1>0, <2>1 DEF Emit, Handle, ServiceFound, ServiceMissing, SensorFound, SensorMissing,
              AttributesReceived, EnableConfirmed, Return, TypeOK
    <2>3. listeners = {InitTask} /\ Discovering /\ ~disposed
        BY <2>1, <2>2 DEF TokenInv, ChainInv
    <2>4. Concerns(Head(inds))
        BY <2>1, <2>3, LastOfChain, AnswersConcern
    <2>5. PICK t \in listeners : Handle(t, Head(inds))
        BY <2>1, <2>2, <2>3, <2>4 DEF Emit
    <2>6. task[t] = "pending" /\ task[InitTask] # "true"
        BY <2>2, <2>3
    <2>7. task'[InitTask] = "pending" => InFlight' = 1 /\ UNCHANGED listenerVars
        BY <2>1, <2>3, <2>5, <2>6, HandleMoves
    <2> QED
        BY <2>3, <2>7 DEF listenerVars
<1>9. CASE DropGarbled \/ DspForeign
    BY <1>0, <1>9 DEF DropGarbled, DspForeign
<1>10. CASE DspReply
    BY <1>0, <1>10, <1>a, DspReplyMoves DEF DspReply, hostVars
<1>11. CASE DspAct
    BY <1>11, <1>a, DspActMoves DEF DspAct, hostVars
<1>12. CASE DspStream
    BY <1>12, <1>a, DspStreamMoves DEF DspStream, hostVars
<1>13. CASE UNCHANGED vars
    <2>1. UNCHANGED <<task, client, listenerVars, requests, wire, inds, dspVars>>
        BY <1>13 DEF vars, hostVars, sendVars
    <2>2. InFlight' = InFlight
        BY <2>1 DEF InFlight, dspVars
    <2> QED
        BY <1>a, <2>1, <2>2
<1> QED
    BY <1>1, <1>2, <1>3, <1>4, <1>5, <1>6, <1>7, <1>8, <1>9, <1>10, <1>11, <1>12, <1>13
       DEF Next, Step, Finished

\* Even when requests time out or are cancelled: while ssc_sensor_new waits
\* with its client there is exactly one message of the chain somewhere between
\* the host and the DSP, so the report that comes is the answer to the only
\* request there can be, and initialisation never waits for nothing.
THEOREM ChainUnbroken ==
    ASSUME Faults \subseteq {"abort"}
    PROVE  Spec => []OneStepInFlight
<1>0. "foreign" \notin Faults
    OBVIOUS
<1>1. Init => TokenInv
    BY DEF Init, TokenInv
<1>2. TypeOK /\ ServiceInv /\ ChainInv /\ TokenInv /\ [Next]_vars => TokenInv'
    BY TokenNext
<1>3. TokenInv => OneStepInFlight
    BY DEF TokenInv, OneStepInFlight, InFlight
<1>4. Spec => []ChainInv
    BY <1>0, ChainInvariant
<1> QED
    BY <1>1, <1>2, <1>3, <1>4, TypeCorrect, ServiceInvariant, PTL DEF Spec

-----------------------------------------------------------------------------
(* The first open that succeeds has enabled the sensor *)

\* t is the only open that was called, if it was.
OnlyOpen(t) == \A o \in OpenTasks \ {t} : task[o] = "unused"

\* The enable requests the DSP has not acted upon.
Queued == Len(Only(dsp_busy, Enables)) + Len(Only(requests, Enables))

\* The sensor streams, or did.
Streamed ==
    \/ dsp_enabled
    \/ Len(Only(wire, StreamReports)) # 0
    \/ Len(Only(inds, StreamReports)) # 0

\* The strengthening of FirstOpenMeansEnabled: an only open has one enable
\* request at most, nothing of the stream is there before its call, and none
\* of its requests waits once something of the stream is there.
EnableInv ==
    \A t \in OpenTasks : OnlyOpen(t) =>
        /\ Queued <= 1
        /\ task[t] = "unused" => Queued = 0 /\ ~Streamed
        /\ Streamed \/ task[t] = "true" => Queued = 0

\* The counts are natural numbers.
LEMMA EnableTypes ==
    ASSUME TypeOK
    PROVE  /\ Len(Only(dsp_busy, Enables)) \in Nat /\ Len(Only(requests, Enables)) \in Nat
           /\ Len(Only(wire, StreamReports)) \in Nat /\ Len(Only(inds, StreamReports)) \in Nat
BY OnlyLength DEF TypeOK

\* Fewer requests wait, nothing of the stream is new, and what succeeds does
\* so because of the stream.
LEMMA EnableLess ==
    ASSUME TypeOK, EnableInv,
           Len(Only(dsp_busy, Enables)') + Len(Only(requests, Enables)') \in 0 .. Queued,
           Streamed' => Streamed,
           \A t \in OpenTasks : /\ task'[t] = "unused" => task[t] = "unused"
                                /\ task'[t] = "true" => task[t] = "true" \/ Streamed
    PROVE  EnableInv'
<1> SUFFICES ASSUME NEW t \in OpenTasks, OnlyOpen(t)'
             PROVE  /\ Queued' <= 1
                    /\ task'[t] = "unused" => Queued' = 0 /\ ~Streamed'
                    /\ Streamed' \/ task'[t] = "true" => Queued' = 0
    BY DEF EnableInv
<1>1. OnlyOpen(t)
    BY DEF OnlyOpen
<1>2. /\ Queued <= 1
      /\ task[t] = "unused" => Queued = 0 /\ ~Streamed
      /\ Streamed \/ task[t] = "true" => Queued = 0
    BY <1>1 DEF EnableInv
<1>3. \A a, b \in Nat : b \in 0 .. a => (a <= 1 => b <= 1) /\ (a = 0 => b = 0)
    OBVIOUS
<1>4. Queued \in Nat
    BY EnableTypes DEF Queued
<1> DEFINE q == Len(Only(dsp_busy, Enables)') + Len(Only(requests, Enables)')
<1>5. Queued' = q
    BY DEF Queued
<1> HIDE DEF q
<1>6. q \in 0 .. Queued
    BY DEF q
<1>7. (Queued <= 1 => q <= 1) /\ (Queued = 0 => q = 0)
    BY <1>3, <1>4, <1>6
<1> QED
    BY <1>2, <1>5, <1>7

\* The same, when requests and answers of the host alone are concerned.
LEMMA EnableQuiet ==
    ASSUME TypeOK, EnableInv, UNCHANGED <<requests, dsp_busy>>, Streamed' => Streamed,
           \A t \in OpenTasks : /\ task'[t] = "unused" => task[t] = "unused"
                                /\ task'[t] = "true" => task[t] = "true" \/ Streamed
    PROVE  EnableInv'
<1>1. Queued \in Nat
    BY EnableTypes DEF Queued
<1>2. Len(Only(dsp_busy, Enables)') + Len(Only(requests, Enables)') = Queued
    BY DEF Queued
<1> QED
    BY <1>1, <1>2, EnableLess

\* What leaves the wire, or the idle loop, was there.
LEMMA StreamedLess ==
    ASSUME NEW A, NEW q \in Seq(A), q # <<>>
    PROVE  /\ Len(Only(Tail(q), StreamReports)) # 0 => Len(Only(q, StreamReports)) # 0
           /\ Head(q) \in StreamReports => Len(Only(q, StreamReports)) # 0
<1>1. /\ Len(Only(q, StreamReports)) = IF Head(q) \in StreamReports
            THEN Len(Only(Tail(q), StreamReports)) + 1 ELSE Len(Only(Tail(q), StreamReports))
    BY OnlyLength
<1>2. Len(Only(Tail(q), StreamReports)) \in Nat
    <2>1. Tail(q) \in Seq(A)
        BY QueueType
    <2> QED
        BY <2>1, OnlyLength
<1> QED
    BY <1>1, <1>2

\* A request that is no enable request does not count as one.
LEMMA SendNoEnable ==
    ASSUME TypeOK, NEW op \in Ops, op # "enable", NEW u \in Tasks \cup {NoTask}, Send(op, u)
    PROVE  Len(Only(requests', Enables)) = Len(Only(requests, Enables))
<1> DEFINE r == [id |-> next_id, op |-> op, task |-> u]
<1>1. r \in Request /\ r \notin Enables /\ requests \in Seq(Request) /\ requests' = Append(requests, r)
    BY DEF TypeOK, Request, Enables, Send
<1> HIDE DEF r
<1> QED
    BY <1>1, OnlyLength

\* report_received returns an open only with a report of the stream.
LEMMA EnableDispatch ==
    ASSUME TypeOK, ServiceInv, ChainInv, EnableInv, Dispatch
    PROVE  EnableInv'
<1>0. InitTask \notin OpenTasks /\ OpenTasks \subseteq Tasks /\ InitTask \in Tasks
    BY ConstantsAssumption DEF Tasks
<1>1. /\ inds \in Seq(Report) /\ inds # <<>> /\ inds' = Tail(inds) /\ Emit(Head(inds)) /\ ~Silent
      /\ UNCHANGED <<wire, dsp_busy, dsp_enabled>>
    BY DEF Dispatch, dspVars, TypeOK, Silent
<1>2. Streamed' => Streamed
    <2>1. Len(Only(inds', StreamReports)) # 0 => Len(Only(inds, StreamReports)) # 0
        BY <1>1, StreamedLess
    <2> QED
        BY <1>1, <2>1 DEF Streamed
<1>3. \A t \in OpenTasks : task'[t] = "unused" => task[t] = "unused"
    BY <1>0, <1>1 DEF Emit, Handle, ServiceFound, ServiceMissing, SensorFound, SensorMissing,
          AttributesReceived, EnableConfirmed, Return, TypeOK
<1>4. \A t \in OpenTasks : task'[t] = "true" => task[t] = "true" \/ Streamed
    <2>1. CASE task[InitTask] = "true"
        <3>1. Head(inds) \in StreamReports
            BY <2>1, StreamReportMoves DEF ChainInv
        <3> QED
            BY <1>1, <3>1, StreamedLess DEF Streamed
    <2>2. CASE task[InitTask] # "true"
        <3>1. ASSUME NEW t \in listeners, task[t] = "pending", Handle(t, Head(inds)), ~disposed
              PROVE  t = InitTask
            BY <1>1, <2>2, <3>1 DEF ServiceInv, TypeOK
        <3>2. \A t \in OpenTasks : task'[t] = task[t]
            BY <1>0, <1>1, <3>1 DEF Emit, Handle, ServiceFound, ServiceMissing, SensorFound,
                  SensorMissing, AttributesReceived, EnableConfirmed, Return, TypeOK
        <3> QED
            BY <3>2
    <2> QED
        BY <2>1, <2>2
<1>5. Len(Only(requests', Enables)) = Len(Only(requests, Enables))
    <2>1. {"registry", "suid", "attributes"} \subseteq Ops
          /\ \A t \in listeners : t \in Tasks \cup {NoTask}
        BY DEF Ops, TypeOK, Tasks
    <2>2. \/ requests' = requests
          \/ \E op \in {"registry", "suid", "attributes"}, u \in Tasks \cup {NoTask} : Send(op, u)
        BY <1>1, <2>1 DEF Emit, Handle, ServiceFound, ServiceMissing, SensorFound, SensorMissing,
              AttributesReceived, EnableConfirmed, Poll, sendVars
    <2> QED
        BY <2>1, <2>2, SendNoEnable
<1>6. /\ Len(Only(dsp_busy, Enables)') + Len(Only(requests, Enables)') = Queued
      /\ Queued \in Nat
    BY <1>1, <1>5, EnableTypes DEF Queued
<1> QED
    BY <1>2, <1>3, <1>4, <1>6, EnableLess

\* An open asks the DSP to enable the sensor; nothing was asked before.
LEMMA EnableOpen ==
    ASSUME TypeOK, EnableInv, NEW t \in OpenTasks, Open(t)
    PROVE  EnableInv'
<1>0. OpenTasks \subseteq Tasks
    BY DEF Tasks
<1>1. /\ task[t] = "unused" /\ task'[t] \in {"unavailable", "no_sample_rate", "pending", "unused"}
      /\ \A o \in OpenTasks \ {t} : task'[o] = task[o]
      /\ UNCHANGED <<wire, inds, dspVars>>
    BY <1>0 DEF Open, TypeOK
<1>2. Streamed' = Streamed
    BY <1>1 DEF Streamed, dspVars
<1>3. CASE UNCHANGED sendVars
    BY <1>1, <1>2, <1>3, EnableQuiet DEF sendVars, dspVars
<1>4. CASE Send("enable", t) /\ task' = [task EXCEPT ![t] = "pending"]
    <2>1. task'[t] = "pending"
        BY <1>0, <1>4 DEF TypeOK
    <2> SUFFICES ASSUME NEW o \in OpenTasks, OnlyOpen(o)'
                 PROVE  Queued' <= 1 /\ task'[o] = "pending" /\ ~Streamed'
        BY DEF EnableInv
    <2>2. o = t
        BY <2>1 DEF OnlyOpen
    <2>3. OnlyOpen(t)
        BY <1>1, <2>2 DEF OnlyOpen
    <2>4. Queued = 0 /\ ~Streamed
        BY <1>1, <2>3 DEF EnableInv
    <2> DEFINE r == [id |-> next_id, op |-> "enable", task |-> t]
    <2>5. r \in Request /\ r \in Enables /\ requests \in Seq(Request) /\ requests' = Append(requests, r)
        BY <1>0, <1>4 DEF TypeOK, Request, Ops, Enables, Send
    <2> HIDE DEF r
    <2>6. Len(Only(requests', Enables)) = Len(Only(requests, Enables)) + 1
        BY <2>5, OnlyLength
    <2>7. Queued' <= 1
        BY <1>1, <2>4, <2>6, EnableTypes DEF Queued, dspVars
    <2> QED
        BY <1>2, <2>1, <2>2, <2>4, <2>7
<1> QED
    BY <1>3, <1>4 DEF Open, sendVars

\* The DSP enables the sensor: the only request there was is acted upon.
LEMMA EnableAct ==
    ASSUME TypeOK, ChainInv, EnableInv, DspAct
    PROVE  EnableInv'
<1>1. /\ dsp_busy # <<>> /\ dsp_busy' = <<>> /\ dsp_busy \in Seq(Request)
      /\ wire \in Seq(Response \cup Report)
      /\ UNCHANGED <<task, requests, inds>>
    BY DEF TypeOK, DspAct, hostVars, sendVars
<1>2. Len(Only(dsp_busy', Enables)) = 0
    BY <1>1, OnlyEmpty
<1>3. Queued' = Len(Only(requests, Enables)) /\ Len(Only(requests, Enables)) \in 0 .. Queued
    BY <1>1, <1>2, EnableTypes DEF Queued
<1>4. wire' = wire \/ \E m \in Report : m \notin StreamReports /\ wire' = Append(wire, m)
    BY ConstantsAssumption DEF DspAct, Report, StreamReports
<1>5. Len(Only(wire', StreamReports)) = Len(Only(wire, StreamReports))
    <2>1. \A m \in Response \cup Report : Len(Only(Append(wire, m), StreamReports)) =
            IF m \in StreamReports THEN Len(Only(wire, StreamReports)) + 1
            ELSE Len(Only(wire, StreamReports))
        BY <1>1, OnlyLength
    <2>2. ASSUME NEW m \in Report, m \notin StreamReports, wire' = Append(wire, m)
          PROVE  Len(Only(wire', StreamReports)) = Len(Only(wire, StreamReports))
        BY <2>1, <2>2
    <2> QED
        BY <1>4, <2>2
<1>6. CASE dsp_enabled' => dsp_enabled
    <2>1. Streamed' => Streamed
        BY <1>1, <1>5, <1>6 DEF Streamed
    <2>2. Len(Only(dsp_busy, Enables)') + Len(Only(requests, Enables)') \in 0 .. Queued
        BY <1>1, <1>2, <1>3, EnableTypes DEF Queued
    <2> QED
        BY <1>1, <2>1, <2>2, EnableLess
<1>7. CASE dsp_enabled' /\ ~dsp_enabled
    <2>1. Head(dsp_busy).op = "enable"
        BY <1>7 DEF DspAct
    <2>2. Head(dsp_busy) \in Enables
        <3>1. CASE task[InitTask] = "true"
            <4>1. Head(dsp_busy) \in Enables \cup Disables
                BY <1>1, <3>1, QueueType DEF ChainInv, Running
            <4> QED
                BY <2>1, <4>1 DEF Disables
        <3>2. CASE task[InitTask] # "true"
            <4>1. Head(dsp_busy) \in Asks
                BY <1>1, <3>2, QueueType DEF ChainInv, Discovering
            <4> QED
                BY <2>1, <4>1 DEF Asks, Asked
        <3> QED
            BY <3>1, <3>2
    <2>3. Len(Only(dsp_busy, Enables)) = Len(Only(Tail(dsp_busy), Enables)) + 1
          /\ Len(Only(Tail(dsp_busy), Enables)) \in Nat
        <3>1. Tail(dsp_busy) \in Seq(Request)
            BY <1>1, QueueType
        <3> QED
            BY <1>1, <2>2, <3>1, OnlyLength
    <2>4. Queued = Len(Only(Tail(dsp_busy), Enables)) + 1 + Len(Only(requests, Enables))
        BY <2>3 DEF Queued
    <2> SUFFICES ASSUME NEW t \in OpenTasks, OnlyOpen(t)'
                 PROVE  Queued' = 0 /\ task'[t] # "unused"
        BY DEF EnableInv
    <2>5. OnlyOpen(t)
        BY <1>1 DEF OnlyOpen
    <2>6. Queued <= 1 /\ (task[t] = "unused" => Queued = 0)
        BY <2>5 DEF EnableInv
    <2>7. \A a, b \in Nat : a + 1 + b <= 1 => b = 0 /\ a + 1 + b # 0
        OBVIOUS
    <2>8. Len(Only(requests, Enables)) = 0 /\ Queued # 0
        BY <2>3, <2>4, <2>6, <2>7, EnableTypes
    <2> QED
        BY <1>1, <1>3, <2>6, <2>8
<1> QED
    BY <1>6, <1>7

\* Every step keeps it, unless other sensors' reports mix in.
LEMMA EnableNext ==
    ASSUME "foreign" \notin Faults, TypeOK, ServiceInv, ChainInv, EnableInv, [Next]_vars
    PROVE  EnableInv'
<1>0. /\ InitTask \in Tasks /\ OpenTasks \subseteq Tasks /\ CloseTasks \subseteq Tasks
      /\ InitTask \notin OpenTasks /\ OpenTasks \cap CloseTasks = {}
    BY ConstantsAssumption DEF Tasks
<1>1. CASE New
    BY <1>0, <1>1, EnableQuiet DEF New, sendVars, dspVars, Streamed, TypeOK
<1>2. CASE ClientReady
    <2>1. UNCHANGED <<wire, inds, dspVars>> /\ task[InitTask] = "pending"
          /\ \A t \in OpenTasks : task'[t] = task[t]
        BY <1>0, <1>2 DEF ClientReady, Return, TypeOK, ServiceInv
    <2>2. requests' = requests \/ Send("registry", InitTask)
        BY <1>2 DEF ClientReady, Poll, sendVars
    <2>3. Len(Only(requests', Enables)) = Len(Only(requests, Enables))
        BY <1>0, <2>2, SendNoEnable DEF Ops
    <2>4. /\ Len(Only(dsp_busy, Enables)') + Len(Only(requests, Enables)') = Queued
          /\ Queued \in Nat /\ (Streamed' => Streamed)
        BY <2>1, <2>3, EnableTypes DEF Queued, Streamed, dspVars
    <2> QED
        BY <2>1, <2>4, EnableLess
<1>3. CASE SensorDispose
    BY <1>3, EnableQuiet DEF SensorDispose, sendVars, dspVars, Streamed
<1>4. CASE ClientDisposed
    <2>1. /\ Len(Only(dsp_busy', Enables)) = 0 /\ Len(Only(requests', Enables)) = 0
          /\ ~Streamed' /\ Queued \in Nat
        BY <1>4, OnlyEmpty, EnableTypes DEF ClientDisposed, Streamed, Queued
    <2> QED
        BY <1>4, <2>1, EnableLess DEF ClientDisposed
<1>5. ASSUME NEW t \in CloseTasks, Close(t) PROVE EnableInv'
    <2>1. UNCHANGED <<wire, inds, dspVars>> /\ Send("disable", t)
          /\ \A o \in OpenTasks : task'[o] = task[o]
        BY <1>0, <1>5 DEF Close, TypeOK
    <2>2. Len(Only(requests', Enables)) = Len(Only(requests, Enables))
        BY <1>0, <2>1, SendNoEnable DEF Ops
    <2>3. /\ Len(Only(dsp_busy, Enables)') + Len(Only(requests, Enables)') = Queued
          /\ Queued \in Nat /\ (Streamed' => Streamed)
        BY <2>1, <2>2, EnableTypes DEF Queued, Streamed, dspVars
    <2> QED
        BY <2>1, <2>3, EnableLess
<1>6. ASSUME NEW r \in outstanding, NEW ok, RequestReady(r, ok)
      PROVE  /\ UNCHANGED <<requests, inds, dspVars>>
             /\ \A t \in OpenTasks : /\ task'[t] = "unused" => task[t] = "unused"
                                     /\ task'[t] = "true" => task[t] = "true"
    <2>1. r.op = "disable" => r.task \notin OpenTasks
        BY <1>0 DEF ServiceInv
    <2> QED
        BY <1>0, <1>6, <2>1 DEF RequestReady, FailRequest, Return, SuccessReturns, TypeOK
<1>7. CASE ReceiveResponse
    <2>1. wire # <<>> /\ wire' = Tail(wire) /\ wire \in Seq(Response \cup Report)
        BY <1>7 DEF ReceiveResponse, TypeOK
    <2>2. /\ UNCHANGED <<requests, inds, dspVars>>
          /\ \A t \in OpenTasks : /\ task'[t] = "unused" => task[t] = "unused"
                                  /\ task'[t] = "true" => task[t] = "true"
        <3>1. CASE RequestReady(Head(wire).req, Head(wire).ok)
            <4>1. Head(wire).req \in outstanding
                BY <3>1 DEF RequestReady
            <4> QED
                BY <3>1, <4>1, <1>6
        <3>2. CASE UNCHANGED <<hostVars, sendVars, inds, dspVars>>
            BY <3>2 DEF hostVars, sendVars
        <3> QED
            BY <1>7, <3>1, <3>2 DEF ReceiveResponse
    <2>3. Streamed' => Streamed
        BY <2>1, <2>2, StreamedLess DEF Streamed, dspVars
    <2> QED
        BY <2>2, <2>3, EnableQuiet DEF dspVars
<1>8. CASE Abort
    <2>1. PICK r \in outstanding : RequestReady(r, FALSE) /\ wire' = wire
        BY <1>8 DEF Abort
    <2>2. /\ UNCHANGED <<requests, inds, dspVars>>
          /\ \A t \in OpenTasks : /\ task'[t] = "unused" => task[t] = "unused"
                                  /\ task'[t] = "true" => task[t] = "true"
        BY <1>6, <2>1
    <2> QED
        BY <2>1, <2>2, EnableQuiet DEF Streamed, dspVars
<1>9. CASE QueueIndication
    <2>1. /\ wire # <<>> /\ wire' = Tail(wire) /\ wire \in Seq(Response \cup Report)
          /\ inds \in Seq(Report) /\ inds' = Append(inds, Head(wire)) /\ Head(wire) \in Report
          /\ UNCHANGED <<task, requests, dspVars>>
        <3>1. wire # <<>> /\ wire \in Seq(Response \cup Report) /\ Head(wire).kind # "response"
            BY <1>9 DEF QueueIndication, TypeOK
        <3>2. Head(wire) \in Response \cup Report
            BY <3>1, QueueType
        <3> QED
            BY <1>9, <3>1, <3>2, MessageKinds DEF QueueIndication, TypeOK, hostVars, sendVars
    <2>2. Len(Only(inds', StreamReports)) # 0 =>
            Len(Only(inds, StreamReports)) # 0 \/ Head(wire) \in StreamReports
        BY <2>1, OnlyLength
    <2>3. Streamed' => Streamed
        BY <2>1, <2>2, StreamedLess DEF Streamed, dspVars
    <2> QED
        BY <2>1, <2>3, EnableQuiet DEF dspVars
<1>10. CASE DropGarbled
    <2>1. /\ inds # <<>> /\ inds' = Tail(inds) /\ inds \in Seq(Report)
          /\ UNCHANGED <<task, requests, wire, dspVars>>
        BY <1>10 DEF DropGarbled, hostVars, sendVars, TypeOK
    <2>2. Streamed' => Streamed
        BY <2>1, StreamedLess DEF Streamed, dspVars
    <2> QED
        BY <2>1, <2>2, EnableQuiet DEF dspVars
<1>11. CASE DspReply
    <2>1. /\ requests \in Seq(Request) /\ requests # <<>> /\ requests' = Tail(requests)
          /\ dsp_busy = <<>> /\ dsp_busy' \in {<<>>, <<Head(requests)>>}
          /\ wire \in Seq(Response \cup Report) /\ Head(requests) \in Request
          /\ UNCHANGED <<task, inds, dsp_enabled>>
        BY <1>11, QueueType DEF DspReply, TypeOK, hostVars
    <2>2. \E m \in Response : wire' = Append(wire, m)
        BY <1>11, <2>1 DEF DspReply, Response
    <2>3. Len(Only(wire', StreamReports)) = Len(Only(wire, StreamReports))
        <3>1. \A m \in Response : m \notin StreamReports /\ m \in Response \cup Report
            BY MessageKinds
        <3> QED
            BY <2>1, <2>2, <3>1, OnlyLength
    <2>4. Streamed' => Streamed
        BY <2>1, <2>3 DEF Streamed
    <2>5. Len(Only(requests, Enables)) = IF Head(requests) \in Enables
            THEN Len(Only(requests', Enables)) + 1 ELSE Len(Only(requests', Enables))
        BY <2>1, OnlyLength
    <2>6. /\ Len(Only(dsp_busy, Enables)) = 0
          /\ Len(Only(dsp_busy', Enables)) \in {0, IF Head(requests) \in Enables THEN 1 ELSE 0}
        <3>1. Only(<<Head(requests)>>, Enables) = IF Head(requests) \in Enables THEN <<Head(requests)>> ELSE <<>>
            BY OnlyOne
        <3>2. Only(<<>>, Enables) = <<>>
            BY OnlyEmpty
        <3> QED
            BY <2>1, <3>1, <3>2
    <2>7. Len(Only(requests', Enables)) \in Nat
        <3>1. requests' \in Seq(Request)
            BY <2>1, QueueType
        <3> QED
            BY <3>1, OnlyLength
    <2>8. Len(Only(dsp_busy, Enables)') + Len(Only(requests, Enables)') \in 0 .. Queued
        <3>1. CASE Head(requests) \in Enables
            <4>1. Queued = Len(Only(requests', Enables)) + 1 /\ Len(Only(dsp_busy', Enables)) \in {0, 1}
                BY <2>5, <2>6, <2>7, <3>1 DEF Queued
            <4>2. \A a \in {0, 1}, b \in Nat : a + b \in 0 .. b + 1
                OBVIOUS
            <4> QED
                BY <2>7, <4>1, <4>2
        <3>2. CASE Head(requests) \notin Enables
            <4>1. Queued = Len(Only(requests', Enables)) /\ Len(Only(dsp_busy', Enables)) = 0
                BY <2>5, <2>6, <2>7, <3>2 DEF Queued
            <4> QED
                BY <2>7, <4>1
        <3> QED
            BY <3>1, <3>2
    <2> QED
        BY <2>1, <2>4, <2>8, EnableLess
<1>12. CASE DspStream
    BY <1>12, EnableQuiet DEF DspStream, Streamed, hostVars, sendVars, dspVars
<1>13. CASE DspForeign
    BY <1>13 DEF DspForeign
<1>14. CASE UNCHANGED vars
    BY <1>14, EnableQuiet DEF vars, hostVars, sendVars, dspVars, Streamed
<1> QED
    BY <1>1, <1>2, <1>3, <1>4, <1>5, <1>7, <1>8, <1>9, <1>10, <1>11, <1>12, <1>13, <1>14,
       EnableOpen, EnableDispatch, EnableAct
       DEF Next, Step, Finished

\* Initially nothing is queued and nothing streams.
LEMMA EnableInit == Init => EnableInv
<1> SUFFICES ASSUME Init PROVE EnableInv
    OBVIOUS
<1>1. Queued = 0 /\ ~Streamed
    BY OnlyEmpty DEF Init, Queued, Streamed
<1> QED
    BY <1>1 DEF EnableInv

\* A queue in which none is counted has none.
LEMMA NoneQueued ==
    ASSUME TypeOK, ChainInv, Queued = 0, NEW i \in DOMAIN (requests \o dsp_busy)
    PROVE  (requests \o dsp_busy)[i].op # "enable"
<1>1. requests \in Seq(Request) /\ dsp_busy \in Seq(Request)
    BY DEF TypeOK
<1>2. Len(Only(dsp_busy, Enables)) = 0 /\ Len(Only(requests, Enables)) = 0
    <2>1. \A a, b \in Nat : a + b = 0 => a = 0 /\ b = 0
        OBVIOUS
    <2> QED
        BY <2>1, EnableTypes DEF Queued
<1>3. Only(dsp_busy, Enables) = <<>> /\ Only(requests, Enables) = <<>>
    <2>1. Only(dsp_busy, Enables) \in Seq(Request \cap Enables)
          /\ Only(requests, Enables) \in Seq(Request \cap Enables)
        BY <1>1, OnlyType
    <2> QED
        BY <1>2, <2>1
<1>4. requests \in Seq(Request \ Enables) /\ dsp_busy \in Seq(Request \ Enables)
    BY <1>1, <1>3, OnlyLeftOut
<1>5. (requests \o dsp_busy)[i] \notin Enables
    BY <1>4
<1>6. (requests \o dsp_busy)[i] \in Asks \cup Enables \cup Disables
    <2>1. CASE task[InitTask] = "true"
        BY <2>1 DEF ChainInv, Running
    <2>2. CASE task[InitTask] # "true"
        BY <2>2 DEF ChainInv, Discovering
    <2> QED
        BY <2>1, <2>2
<1> QED
    BY <1>5, <1>6 DEF Asks, Asked, Disables

\* Unless reports of other data types mix in, and whatever is lost, rejected
\* or garbled: when the first open of a sensor reports success, the DSP has
\* acted upon its enable request.
THEOREM FirstOpenEnables ==
    ASSUME "foreign" \notin Faults
    PROVE  Spec => []FirstOpenMeansEnabled
<1>1. Init => EnableInv
    BY EnableInit
<1>2. TypeOK /\ ServiceInv /\ ChainInv /\ EnableInv /\ [Next]_vars => EnableInv'
    BY EnableNext
<1>3. TypeOK /\ ChainInv /\ EnableInv => FirstOpenMeansEnabled
    <2> SUFFICES ASSUME TypeOK, ChainInv, EnableInv, NEW t \in OpenTasks,
                        \A o \in OpenTasks \ {t} : task[o] = "unused", task[t] = "true",
                        NEW i \in DOMAIN (requests \o dsp_busy)
                 PROVE  (requests \o dsp_busy)[i].op # "enable"
        BY DEF FirstOpenMeansEnabled, EnabledOnceOpen
    <2>1. Queued = 0
        BY DEF EnableInv, OnlyOpen
    <2> QED
        BY <2>1, NoneQueued
<1>4. Spec => []ChainInv
    BY ChainInvariant
<1> QED
    BY <1>1, <1>2, <1>3, <1>4, TypeCorrect, ServiceInvariant, PTL DEF Spec

-----------------------------------------------------------------------------
(* Requests reach the DSP in the order of their transactions *)

\* The responses to requests that went before every one still waiting.
Answered ==
    {m \in Response : m.req.id < next_id /\ requests \in Seq({r \in Request : m.req.id < r.id})}

\* No request is responded to twice.
OneResponse ==
    \A i, j \in DOMAIN wire :
        wire[i].kind = "response" /\ wire[j].kind = "response" /\ wire[i].req = wire[j].req => i = j

\* Transactions grow along the queue, and what is on the wire answers earlier
\* ones.
OrderInv ==
    /\ requests \in Seq({r \in Request : r.id < next_id})
    /\ \A i, j \in DOMAIN requests : i < j => requests[i].id < requests[j].id
    /\ wire \in Seq(Answered \cup Report)
    /\ OneResponse
    /\ Len(dsp_busy) <= 1

\* Initially nothing waits.
LEMMA OrderInit == Init => OrderInv
<1> SUFFICES ASSUME Init PROVE OrderInv
    OBVIOUS
<1>1. \A S : <<>> \in Seq(S)
    OBVIOUS
<1>2. DOMAIN requests = {} /\ DOMAIN wire = {} /\ Len(dsp_busy) = 0
    BY DEF Init
<1> QED
    BY <1>1, <1>2 DEF Init, OrderInv, OneResponse

\* A larger set types as many queues.
LEMMA SeqLarger ==
    ASSUME NEW S, NEW T, S \subseteq T, NEW q \in Seq(S)
    PROVE  q \in Seq(T)
OBVIOUS

\* Two types are one.
LEMMA SeqBoth ==
    ASSUME NEW S, NEW T, NEW U, S \cap T \subseteq U, NEW q \in Seq(S), q \in Seq(T)
    PROVE  q \in Seq(U)
<1>1. \A i \in 1 .. Len(q) : q[i] \in U
    BY ElementOfSeq
<1> QED
    BY <1>1, LenProperties

\* A request sent goes to the end of the queue.
LEMMA OrderSend ==
    ASSUME TypeOK, OrderInv, NEW op \in Ops, NEW t \in Tasks \cup {NoTask}, Send(op, t),
           UNCHANGED <<wire, dspVars>>
    PROVE  OrderInv'
<1> DEFINE r == [id |-> next_id, op |-> op, task |-> t]
           old == {s \in Request : s.id < next_id}
<1>1. /\ r \in Request /\ r.id = next_id /\ next_id \in Nat /\ requests \in Seq(Request)
      /\ requests' = Append(requests, r) /\ next_id' = next_id + 1
      /\ \A s \in Request : s.id \in Nat
    BY DEF TypeOK, Send, Request
<1> HIDE DEF r
<1>2. requests' \in Seq({s \in Request : s.id < next_id'})
    <2>1. old \cup {r} \subseteq {s \in Request : s.id < next_id'}
        BY <1>1
    <2>2. requests \in Seq(old \cup {r})
        BY SeqLarger DEF OrderInv
    <2>3. requests' \in Seq(old \cup {r})
        BY <1>1, <2>2, EnqueueType
    <2> HIDE DEF old
    <2> QED
        BY <2>1, <2>3, SeqLarger
<1>3. \A i, j \in DOMAIN requests' : i < j => requests'[i].id < requests'[j].id
    <2>1. \A i \in 1 .. Len(requests) : requests[i].id < next_id
        BY ElementOfSeq DEF OrderInv
    <2>2. /\ Len(requests) \in Nat /\ DOMAIN requests = 1 .. Len(requests)
          /\ DOMAIN requests' = 1 .. Len(requests) + 1
          /\ \A i \in 1 .. Len(requests) : requests'[i] = requests[i]
          /\ requests'[Len(requests) + 1] = r
        BY <1>1, AppendProperties, LenProperties
    <2> QED
        BY <1>1, <2>1, <2>2 DEF OrderInv
<1>4. Answered \subseteq Answered'
    <2> SUFFICES ASSUME NEW m \in Answered PROVE m \in Answered'
        OBVIOUS
    <2>1. m \in Response /\ m.req.id < next_id /\ m.req.id \in Nat
          /\ requests \in Seq({s \in Request : m.req.id < s.id})
        BY DEF Answered, Response, Request
    <2>2. r \in {s \in Request : m.req.id < s.id}
        BY <1>1, <2>1
    <2>3. requests' \in Seq({s \in Request : m.req.id < s.id})
        BY <1>1, <2>1, <2>2, EnqueueType
    <2> QED
        BY <1>1, <2>1, <2>3 DEF Answered
<1>5. wire' \in Seq(Answered \cup Report)'
    BY <1>4, SeqLarger DEF OrderInv
<1> QED
    BY <1>2, <1>3, <1>5 DEF OrderInv, OneResponse, dspVars

\* Fewer responses are no more alike, and a new one may differ.
LEMMA OneResponseKept ==
    ASSUME TypeOK, OneResponse,
           \/ wire' = wire \/ wire' = <<>>
           \/ wire # <<>> /\ wire' = Tail(wire)
           \/ \E m \in Report : wire' = Append(wire, m)
           \/ \E m \in Response : wire' = Append(wire, m) /\
                    \A i \in DOMAIN wire : wire[i].kind = "response" => wire[i].req # m.req
    PROVE  OneResponse'
<1>1. wire \in Seq(Response \cup Report) /\ Len(wire) \in Nat /\ DOMAIN wire = 1 .. Len(wire)
    BY LenProperties DEF TypeOK
<1>2. CASE wire' = wire \/ wire' = <<>>
    BY <1>2 DEF OneResponse
<1>3. CASE wire # <<>> /\ wire' = Tail(wire)
    <2>1. /\ Len(wire') = Len(wire) - 1 /\ DOMAIN wire' = 1 .. Len(wire) - 1
          /\ \A i \in 1 .. Len(wire) - 1 : wire'[i] = wire[i + 1]
        <3>1. /\ wire' \in Seq(Response \cup Report) /\ Len(wire') = Len(wire) - 1
              /\ \A i \in 1 .. Len(wire') : wire'[i] = wire[i + 1]
            BY <1>1, <1>3, HeadTailProperties
        <3> QED
            BY <3>1, LenProperties
    <2>2. \A i \in 1 .. Len(wire) - 1 : i + 1 \in DOMAIN wire
        BY <1>1
    <2>3. ASSUME NEW i \in 1 .. Len(wire) - 1, NEW j \in 1 .. Len(wire) - 1,
                 wire'[i].kind = "response", wire'[j].kind = "response", wire'[i].req = wire'[j].req
          PROVE  i = j
        <3>1. i + 1 = j + 1
            BY <2>1, <2>2, <2>3 DEF OneResponse
        <3> QED
            BY <3>1
    <2> QED
        BY <2>1, <2>3 DEF OneResponse
<1>4. ASSUME NEW m \in Response \cup Report, wire' = Append(wire, m),
             m.kind = "response" =>
                \A i \in DOMAIN wire : wire[i].kind = "response" => wire[i].req # m.req
      PROVE  OneResponse'
    <2> DEFINE A == Response \cup Report
    <2>1. wire \in Seq(A) /\ m \in A
        BY <1>1, <1>4
    <2> HIDE DEF A
    <2>2. /\ wire' \in Seq(A) /\ Len(wire') = Len(wire) + 1 /\ wire'[Len(wire) + 1] = m
          /\ \A i \in 1 .. Len(wire) : wire'[i] = wire[i]
        BY <2>1, <1>4, AppendProperties
    <2>3. DOMAIN wire' = 1 .. Len(wire) + 1
        BY <2>2, LenProperties
    <2>4. ASSUME NEW i \in 1 .. Len(wire), NEW j \in 1 .. Len(wire) + 1,
                 wire'[i].kind = "response", wire'[j].kind = "response", wire'[i].req = wire'[j].req
          PROVE  i = j
        <3>1. CASE j \in 1 .. Len(wire)
            BY <3>1, <1>1, <2>2, <2>4 DEF OneResponse
        <3>2. CASE j = Len(wire) + 1
            BY <3>2, <1>1, <1>4, <2>2, <2>4
        <3> QED
            BY <1>1, <3>1, <3>2, <2>4
    <2>5. ASSUME NEW i \in DOMAIN wire', NEW j \in DOMAIN wire',
                 wire'[i].kind = "response", wire'[j].kind = "response", wire'[i].req = wire'[j].req
          PROVE  i = j
        <3>1. CASE i \in 1 .. Len(wire)
            BY <3>1, <2>3, <2>4, <2>5
        <3>2. CASE j \in 1 .. Len(wire)
            BY <3>2, <2>3, <2>4, <2>5
        <3>3. CASE i = Len(wire) + 1 /\ j = Len(wire) + 1
            BY <3>3
        <3>4. \A k \in 1 .. Len(wire) + 1 : k \in 1 .. Len(wire) \/ k = Len(wire) + 1
            BY <1>1
        <3> QED
            BY <2>3, <3>1, <3>2, <3>3, <3>4
    <2> QED
        BY <2>5 DEF OneResponse
<1> QED
    BY <1>2, <1>3, <1>4, MessageKinds

\* Requests stay where they are, and the wire gets no response.
LEMMA OrderWire ==
    ASSUME TypeOK, OrderInv, UNCHANGED <<requests, next_id>>, dsp_busy' = dsp_busy \/ dsp_busy' = <<>>,
           \/ wire' = wire \/ wire' = <<>>
           \/ wire # <<>> /\ wire' = Tail(wire)
           \/ \E m \in Report : wire' = Append(wire, m)
    PROVE  OrderInv'
<1>1. Answered' = Answered
    BY DEF Answered
<1>2. wire \in Seq(Answered \cup Report) /\ OneResponse
    BY DEF OrderInv
<1>3. wire' \in Seq(Answered \cup Report)
    BY <1>2, QueueType, EnqueueType
<1>4. Len(dsp_busy') <= 1
    BY DEF OrderInv
<1>5. OneResponse'
    BY <1>2, OneResponseKept
<1> QED
    BY <1>1, <1>3, <1>4, <1>5 DEF OrderInv

\* The DSP takes the first request and responds to it.
LEMMA OrderDspReply ==
    ASSUME TypeOK, OrderInv, DspReply
    PROVE  OrderInv'
<1> DEFINE h == Head(requests)
           old == {r \in Request : r.id < next_id}
<1>1. /\ requests \in Seq(Request) /\ requests # <<>> /\ requests' = Tail(requests) /\ dsp_busy = <<>>
      /\ UNCHANGED next_id /\ dsp_busy' \in {<<>>, <<h>>}
      /\ requests \in Seq(old)
    BY DEF TypeOK, DspReply, OrderInv
<1>2. PICK ok \in BOOLEAN : wire' = Append(wire, [kind |-> "response", req |-> h, ok |-> ok])
    BY DEF DspReply
<1>3. h \in Request /\ h \in old /\ h.id \in Nat /\ requests' \in Seq(Request) /\ requests' \in Seq(old)
    <2>1. h \in Request /\ requests' \in Seq(Request)
        BY <1>1, QueueType
    <2>2. h \in old /\ requests' \in Seq(old)
        <3> HIDE DEF old
        <3> QED
            BY <1>1, QueueType
    <2> QED
        BY <2>1, <2>2 DEF Request
<1>4. /\ Len(requests) \in Nat \ {0} /\ DOMAIN requests = 1 .. Len(requests) /\ h = requests[1]
      /\ DOMAIN requests' = 1 .. Len(requests) - 1
      /\ \A i \in 1 .. Len(requests) - 1 : requests'[i] = requests[i + 1]
    BY <1>1, HeadTailProperties, LenProperties
<1>a. \A i, j \in 1 .. Len(requests) : i < j => requests[i].id < requests[j].id
    BY <1>4 DEF OrderInv
<1>5. \A i, j \in DOMAIN requests' : i < j => requests'[i].id < requests'[j].id
    <2> SUFFICES ASSUME NEW i \in 1 .. Len(requests) - 1, NEW j \in 1 .. Len(requests) - 1, i < j
                 PROVE  requests'[i].id < requests'[j].id
        BY <1>4
    <2>1. i + 1 \in 1 .. Len(requests) /\ j + 1 \in 1 .. Len(requests) /\ i + 1 < j + 1
        BY <1>4
    <2>2. requests[i + 1].id < requests[j + 1].id
        BY <1>a, <2>1
    <2> QED
        BY <1>4, <2>2
<1>6. requests' \in Seq({r \in Request : h.id < r.id})
    <2> DEFINE U == {r \in Request : h.id < r.id}
    <2>1. ASSUME NEW i \in 1 .. Len(requests) - 1
          PROVE  requests'[i] \in Request /\ h.id < requests'[i].id
        <3>1. 1 \in 1 .. Len(requests) /\ i + 1 \in 1 .. Len(requests) /\ 1 < i + 1
            BY <1>4
        <3>2. requests[1].id < requests[i + 1].id
            BY <1>a, <3>1
        <3>3. requests[i + 1] \in Request
            BY <1>1, <3>1, ElementOfSeq
        <3> QED
            BY <1>4, <3>2, <3>3
    <2>2. Len(requests') = Len(requests) - 1
        BY <1>1, HeadTailProperties
    <2>3. \A i \in 1 .. Len(requests') : requests'[i] \in U
        BY <2>1, <2>2
    <2> HIDE DEF U
    <2>4. requests' \in Seq(U)
        BY <1>3, <2>3, LenProperties
    <2> QED
        BY <2>4 DEF U
<1>7. Answered \subseteq Answered'
    <2> SUFFICES ASSUME NEW m \in Answered PROVE m \in Answered'
        OBVIOUS
    <2> DEFINE U == {r \in Request : m.req.id < r.id}
    <2>1. requests \in Seq(U)
        BY DEF Answered
    <2> HIDE DEF U
    <2>2. requests' \in Seq(U)
        BY <1>1, <2>1, QueueType
    <2> QED
        BY <1>1, <2>2 DEF Answered, U
<1>8. [kind |-> "response", req |-> h, ok |-> ok] \in Answered'
    BY <1>1, <1>3, <1>6 DEF Answered, Response
<1>9. wire' \in Seq(Answered \cup Report)'
    <2>1. wire \in Seq(Answered' \cup Report)
        BY <1>7, SeqLarger DEF OrderInv
    <2> QED
        BY <1>2, <1>8, <2>1, EnqueueType
<1>10. Len(dsp_busy') <= 1
    <2>1. Len(<<>>) <= 1 /\ Len(<<h>>) <= 1
        OBVIOUS
    <2> QED
        BY <1>1, <2>1
<1>11. OneResponse'
    <2>1. ASSUME NEW i \in DOMAIN wire, wire[i].kind = "response"
          PROVE  wire[i].req # h
        <3>1. wire[i] \in Answered \cup Report
            BY LenProperties, ElementOfSeq DEF OrderInv
        <3>2. wire[i] \in Answered
            BY <2>1, <3>1, MessageKinds
        <3> DEFINE U == {r \in Request : wire[i].req.id < r.id}
        <3>3. requests \in Seq(U)
            BY <3>2 DEF Answered
        <3> HIDE DEF U
        <3>4. h \in U
            BY <1>1, <3>3, QueueType
        <3>5. wire[i].req.id < h.id
            BY <3>4 DEF U
        <3> QED
            BY <1>3, <3>5
    <2>2. [kind |-> "response", req |-> h, ok |-> ok] \in Response
        BY <1>3 DEF Response
    <2>3. \E m \in Response : wire' = Append(wire, m) /\
                \A i \in DOMAIN wire : wire[i].kind = "response" => wire[i].req # m.req
        BY <1>2, <2>1, <2>2
    <2> QED
        BY <2>3, OneResponseKept DEF OrderInv
<1> QED
    BY <1>1, <1>3, <1>5, <1>9, <1>10, <1>11 DEF OrderInv

\* Every step keeps the order.
LEMMA OrderNext ==
    ASSUME TypeOK, OrderInv, [Next]_vars
    PROVE  OrderInv'
<1>0. /\ InitTask \in Tasks \cup {NoTask} /\ \A t \in OpenTasks \cup CloseTasks : t \in Tasks \cup {NoTask}
      /\ {"registry", "suid", "attributes", "enable", "disable"} \subseteq Ops
    BY DEF Tasks, Ops
<1>1. CASE New \/ SensorDispose \/ DropGarbled
    BY <1>1, OrderWire DEF New, SensorDispose, DropGarbled, sendVars, dspVars
<1>2. CASE ClientReady
    <2>1. (UNCHANGED sendVars \/ Send("registry", InitTask)) /\ UNCHANGED <<wire, dspVars>>
        BY <1>2 DEF ClientReady, Poll
    <2> QED
        BY <1>0, <2>1, OrderSend, OrderWire DEF sendVars, dspVars
<1>3. CASE ClientDisposed
    <2>1. \A S : <<>> \in Seq(S)
        OBVIOUS
    <2>2. Len(dsp_busy') <= 1 /\ DOMAIN requests' = {} /\ DOMAIN wire' = {}
        BY <1>3 DEF ClientDisposed
    <2> QED
        BY <1>3, <2>1, <2>2 DEF ClientDisposed, OrderInv, OneResponse
<1>4. ASSUME NEW t \in OpenTasks, Open(t) PROVE OrderInv'
    <2>1. (UNCHANGED sendVars \/ Send("enable", t)) /\ UNCHANGED <<wire, dspVars>>
        BY <1>4 DEF Open
    <2> QED
        BY <1>0, <2>1, OrderSend, OrderWire DEF sendVars, dspVars
<1>5. ASSUME NEW t \in CloseTasks, Close(t) PROVE OrderInv'
    <2>1. Send("disable", t) /\ UNCHANGED <<wire, dspVars>>
        BY <1>5 DEF Close
    <2> QED
        BY <1>0, <2>1, OrderSend
<1>6. CASE ReceiveResponse
    BY <1>6, OrderWire DEF ReceiveResponse, RequestReady, sendVars, dspVars
<1>7. CASE Abort
    BY <1>7, OrderWire DEF Abort, RequestReady, dspVars
<1>8. CASE QueueIndication
    BY <1>8, OrderWire DEF QueueIndication, sendVars, dspVars
<1>9. CASE Dispatch
    <2>1. UNCHANGED <<wire, dspVars>> /\ Emit(Head(inds)) /\ listeners \subseteq Tasks \cup {NoTask}
        BY <1>9 DEF Dispatch, TypeOK, Tasks
    <2>2. \/ UNCHANGED sendVars
          \/ \E op \in Ops, t \in Tasks \cup {NoTask} : Send(op, t)
        BY <1>0, <2>1 DEF Emit, Handle, ServiceFound, ServiceMissing, SensorFound, SensorMissing,
              AttributesReceived, EnableConfirmed, Poll
    <2> QED
        BY <2>1, <2>2, OrderSend, OrderWire DEF sendVars, dspVars
<1>10. CASE DspReply
    BY <1>10, OrderDspReply
<1>11. CASE DspAct
    <2>1. wire' = wire \/ \E m \in Report : wire' = Append(wire, m)
        BY <1>11, ConstantsAssumption DEF DspAct, Report
    <2> QED
        BY <1>11, <2>1, OrderWire DEF DspAct, sendVars
<1>12. CASE DspStream \/ DspForeign
    <2>1. \E m \in Report : wire' = Append(wire, m)
        BY <1>12 DEF DspStream, DspForeign, Report
    <2> QED
        BY <1>12, <2>1, OrderWire DEF DspStream, DspForeign, sendVars, dspVars
<1>13. CASE UNCHANGED vars
    BY <1>13, OrderWire DEF vars, sendVars, dspVars
<1> QED
    BY <1>1, <1>2, <1>3, <1>4, <1>5, <1>6, <1>7, <1>8, <1>9, <1>10, <1>11, <1>12, <1>13
       DEF Next, Step, Finished

-----------------------------------------------------------------------------
(* No call waits for what cannot come *)

\* Requests of the application's calls were sent by such calls.
Sent ==
    {r \in Request :
        /\ r.op = "enable" => r.task \in OpenTasks /\ task[r.task] # "unused"
        /\ r.op = "disable" => r.task \in CloseTasks /\ task[r.task] # "unused"}

\* Those whose call still waits have not ended on the host.
Held ==
    {r \in Sent : r.op \in {"enable", "disable"} /\ task[r.task] = "pending" => r \in outstanding}

SentInv ==
    /\ requests \in Seq(Sent) /\ dsp_busy \in Seq(Sent)
    /\ halt = "no" => requests \in Seq(Held)

\* A sensor goes only when no call waits.
GoneInv == disposed => Pending(Tasks) = {} /\ task[InitTask] # "unused"

\* A step that calls nothing may return tasks and no more.
Settles == \A t \in Tasks : task'[t] = task[t] \/ task'[t] \notin {"unused", "pending"}

\* What initialisation asks.
Inquiries == {"registry", "suid", "attributes"}
Inquires ==
    \/ UNCHANGED sendVars
    \/ \E op \in Inquiries, t \in Tasks \cup {NoTask} : Send(op, t)

\* Returning a task settles it.
LEMMA ReturnSettles ==
    ASSUME TypeOK, NEW t, NEW result, result \notin {"unused", "pending"}, Return(t, result)
    PROVE  Settles
BY DEF TypeOK, Return, Settles

\* The end of a request settles its call, at most.
LEMMA RequestReadySettles ==
    ASSUME TypeOK, NEW r, NEW ok, RequestReady(r, ok)
    PROVE  Settles
<1>1. CASE UNCHANGED task
    BY <1>1 DEF Settles
<1>2. CASE \E result \in {"true", "request_failed"} : Return(r.task, result)
    BY <1>2, ReturnSettles
<1> QED
    BY <1>1, <1>2 DEF RequestReady, FailRequest

\* A report settles the call that listens, or inquires further.
LEMMA EmitSettles ==
    ASSUME TypeOK, NEW m, Emit(m)
    PROVE  Settles /\ Inquires
<1>1. CASE UNCHANGED <<task, sendVars>>
    BY <1>1 DEF Settles, Inquires
<1>2. ASSUME NEW t \in listeners, Handle(t, m)
      PROVE  Settles /\ Inquires
    <2>1. t \in Tasks
        BY <1>2 DEF TypeOK, Tasks
    <2>2. CASE UNCHANGED sendVars /\ \E result \in {"true", "false", "no_service"} : Return(t, result)
        BY <2>2, ReturnSettles DEF Inquires
    <2>3. CASE UNCHANGED task /\ \E op \in Inquiries, u \in {t, NoTask} : Send(op, u)
        BY <2>1, <2>3 DEF Settles, Inquires
    <2> QED
        BY <1>2, <2>2, <2>3 DEF Handle, ServiceFound, ServiceMissing, SensorFound, SensorMissing,
              AttributesReceived, EnableConfirmed, Poll, Inquiries
<1> QED
    BY <1>1, <1>2 DEF Emit

\* Every step settles tasks, or is a call.
LEMMA NextSettles ==
    ASSUME TypeOK, [Next]_vars
    PROVE  Settles \/ New \/ (\E t \in OpenTasks : Open(t)) \/ (\E t \in CloseTasks : Close(t))
<1>1. CASE UNCHANGED task
    BY <1>1 DEF Settles
<1>2. CASE ClientReady
    <2>1. CASE Return(InitTask, "client_failed")
        BY <2>1, ReturnSettles
    <2> QED
        BY <1>1, <1>2, <2>1 DEF ClientReady
<1>3. CASE ReceiveResponse \/ Abort
    BY <1>1, <1>3, RequestReadySettles DEF ReceiveResponse, Abort, hostVars
<1>4. CASE Dispatch
    BY <1>4, EmitSettles DEF Dispatch
<1>5. CASE \/ SensorDispose \/ ClientDisposed \/ QueueIndication \/ DropGarbled
           \/ DspReply \/ DspAct \/ DspStream \/ DspForeign \/ UNCHANGED vars
    BY <1>1, <1>5 DEF SensorDispose, ClientDisposed, QueueIndication, DropGarbled,
          DspReply, DspAct, DspStream, DspForeign, hostVars, vars
<1> QED
    BY <1>2, <1>3, <1>4, <1>5 DEF Next, Step, Finished

\* A disposed sensor is not called.
LEMMA GoneNext ==
    ASSUME TypeOK, GoneInv, [Next]_vars
    PROVE  GoneInv'
<1>0. InitTask \in Tasks
    BY DEF Tasks
<1>1. CASE disposed' /\ disposed
    <2>1. Settles
        BY <1>1, NextSettles DEF GoneInv, New, Open, Close
    <2> QED
        BY <1>0, <1>1, <2>1 DEF GoneInv, Settles, Pending
<1>2. CASE disposed' /\ ~disposed
    <2>1. SensorDispose
        BY <1>2 DEF Next, Step, Finished, New, ClientReady, SensorDispose, ClientDisposed, Open, Close,
              ReceiveResponse, RequestReady, Abort, QueueIndication, Dispatch, DropGarbled, DspReply,
              DspAct, DspStream, DspForeign, hostVars, vars
    <2> QED
        BY <2>1 DEF SensorDispose, GoneInv, Pending
<1> QED
    BY <1>1, <1>2 DEF GoneInv

\* Initially nothing was sent, and nothing is gone.
LEMMA SentInit == Init => SentInv /\ GoneInv
<1>1. \A S : <<>> \in Seq(S)
    OBVIOUS
<1> QED
    BY <1>1 DEF Init, SentInv, GoneInv

\* What was sent and is held stays so while tasks only settle.
LEMMA HeldKept ==
    ASSUME TypeOK, Settles
    PROVE  /\ Sent \subseteq Sent'
           /\ outstanding \subseteq outstanding' => Held \subseteq Held'
           /\ \A r \in Held : (r \in outstanding => r \in outstanding') => r \in Held'
<1>0. OpenTasks \subseteq Tasks /\ CloseTasks \subseteq Tasks
    BY DEF Tasks
<1>1. \A t \in Tasks : /\ task[t] # "unused" => task'[t] # "unused"
                       /\ task'[t] = "pending" => task[t] = "pending"
    BY DEF Settles
<1>2. Sent \subseteq Sent'
    BY <1>0, <1>1 DEF Sent
<1>3. ASSUME NEW r \in Held, r \in outstanding => r \in outstanding'
      PROVE  r \in Held'
    <2>1. r \in Sent /\ r \in Sent'
        BY <1>2 DEF Held
    <2>2. r.op \in {"enable", "disable"} => r.task \in Tasks
        BY <1>0, <2>1 DEF Sent
    <2> QED
        BY <1>1, <1>3, <2>1, <2>2 DEF Held
<1> QED
    BY <1>2, <1>3

\* Nothing but an inquiry is sent.
LEMMA SentQuiet ==
    ASSUME TypeOK, SentInv, Settles, Inquires, halt = "no", dsp_busy' = dsp_busy \/ dsp_busy' = <<>>
    PROVE  SentInv'
<1>1. Sent \subseteq Sent' /\ (outstanding \subseteq outstanding' => Held \subseteq Held')
    BY HeldKept
<1>2. dsp_busy' \in Seq(Sent')
    BY <1>1, SeqLarger, EnqueueType DEF SentInv
<1>3. CASE UNCHANGED sendVars
    BY <1>1, <1>2, <1>3, SeqLarger DEF SentInv, sendVars
<1>4. ASSUME NEW op \in Inquiries, NEW t \in Tasks \cup {NoTask}, Send(op, t)
      PROVE  SentInv'
    <2> DEFINE r == [id |-> next_id, op |-> op, task |-> t]
    <2>1. r \in Request /\ r.op \notin {"enable", "disable"}
        BY <1>4 DEF Inquiries, TypeOK, Request, Ops
    <2>2. r \in Sent' /\ r \in Held'
        BY <2>1 DEF Sent, Held
    <2>3. requests' = Append(requests, r) /\ outstanding \subseteq outstanding'
        BY <1>4 DEF Send
    <2> HIDE DEF r
    <2>4. requests \in Seq(Sent') /\ requests \in Seq(Held')
        BY <1>1, <2>3, SeqLarger DEF SentInv
    <2>5. requests' \in Seq(Sent') /\ requests' \in Seq(Held')
        BY <2>2, <2>3, <2>4, EnqueueType
    <2> QED
        BY <1>2, <2>5 DEF SentInv
<1> QED
    BY <1>3, <1>4 DEF Inquires

\* A call sends its own request.
LEMMA SentCall ==
    ASSUME TypeOK, SentInv, halt = "no", dsp_busy' = dsp_busy,
           NEW op, NEW t, task[t] = "unused", task' = [task EXCEPT ![t] = "pending"], Send(op, t),
           \/ op = "enable" /\ t \in OpenTasks
           \/ op = "disable" /\ t \in CloseTasks
    PROVE  SentInv'
<1> DEFINE r == [id |-> next_id, op |-> op, task |-> t]
<1>0. OpenTasks \subseteq Tasks /\ CloseTasks \subseteq Tasks
    BY DEF Tasks
<1>1. \A u \in Tasks : task'[u] = IF u = t THEN "pending" ELSE task[u]
    BY DEF TypeOK
<1>2. r \in Request /\ r.task = t /\ r.op = op /\ requests' = Append(requests, r)
      /\ outstanding' = outstanding \cup {r}
    BY <1>0 DEF TypeOK, Request, Ops, Send
<1>3. Sent \subseteq Sent' /\ r \in Sent'
    BY <1>0, <1>1, <1>2 DEF Sent
<1>4. Held \subseteq Held' /\ r \in Held'
    <2>1. ASSUME NEW s \in Held PROVE s \in Held'
        <3>1. s \in Sent /\ s \in Sent'
            BY <1>3 DEF Held
        <3>2. s.op \in {"enable", "disable"} => s.task \in Tasks /\ s.task # t
            BY <1>0, <3>1 DEF Sent
        <3> QED
            BY <1>1, <1>2, <3>1, <3>2 DEF Held
    <2>2. r \in Held'
        BY <1>2, <1>3 DEF Held
    <2> QED
        BY <2>1, <2>2
<1> HIDE DEF r
<1>5. dsp_busy' \in Seq(Sent')
    BY <1>3, SeqLarger DEF SentInv
<1>6. requests \in Seq(Sent') /\ requests \in Seq(Held')
    BY <1>3, <1>4, SeqLarger DEF SentInv
<1>7. requests' \in Seq(Sent') /\ requests' \in Seq(Held')
    BY <1>2, <1>3, <1>4, <1>6, EnqueueType
<1> QED
    BY <1>5, <1>7 DEF SentInv

\* A request ends on the host: it was not waiting for the DSP any more, or its
\* call is returned.
LEMMA SentReady ==
    ASSUME TypeOK, OrderInv, SentInv, halt = "no", NEW r, NEW ok, RequestReady(r, ok),
           \/ wire # <<>> /\ Head(wire).kind = "response" /\ Head(wire).req = r
           \/ ok = FALSE
    PROVE  SentInv'
<1>0. /\ Settles /\ r \in outstanding /\ outstanding' = outstanding \ {r}
      /\ UNCHANGED <<requests, dsp_busy>> /\ r \in Request
    BY RequestReadySettles DEF RequestReady, dspVars, TypeOK
<1>1. Sent \subseteq Sent' /\ \A s \in Held : (s \in outstanding => s \in outstanding') => s \in Held'
    BY <1>0, HeldKept
<1>2. requests' \in Seq(Sent') /\ dsp_busy' \in Seq(Sent')
    BY <1>0, <1>1, SeqLarger DEF SentInv
<1>3. CASE wire # <<>> /\ Head(wire).kind = "response" /\ Head(wire).req = r
    <2>1. Head(wire) \in Answered
        <3>1. Head(wire) \in Answered \cup Report
            BY <1>3, QueueType DEF OrderInv
        <3> QED
            BY <1>3, <3>1, MessageKinds
    <2> DEFINE U == {s \in Request : r.id < s.id}
    <2>2. requests \in Seq(U) /\ requests \in Seq(Held)
        BY <1>3, <2>1 DEF Answered, SentInv
    <2>3. ASSUME NEW s \in U \cap Held PROVE s \in Held'
        <3>1. s # r
            BY <1>0 DEF Request
        <3> QED
            BY <1>0, <3>1, <1>1
    <2> HIDE DEF U
    <2>4. requests \in Seq(Held')
        BY <2>2, <2>3, SeqBoth
    <2> QED
        BY <1>0, <1>2, <2>4 DEF SentInv
<1>4. CASE ok = FALSE /\ halt' = "no"
    <2>1. r.op \in {"enable", "disable"} => Return(r.task, "request_failed")
        BY <1>4 DEF RequestReady, FailRequest
    <2>2. r \in Sent /\ r.op \in {"enable", "disable"} => task'[r.task] # "pending"
        BY <2>1, <1>4 DEF Return, TypeOK, Sent, Tasks
    <2>3. Held \subseteq Held'
        <3> SUFFICES ASSUME NEW s \in Held PROVE s \in Held'
            OBVIOUS
        <3>1. CASE s = r
            BY <3>1, <1>1, <2>2 DEF Held
        <3>2. CASE s # r
            BY <3>2, <1>0, <1>1
        <3> QED
            BY <3>1, <3>2
    <2> QED
        BY <1>0, <1>2, <2>3, SeqLarger DEF SentInv
<1>5. CASE halt' # "no"
    BY <1>2, <1>5 DEF SentInv
<1> QED
    BY <1>3, <1>4, <1>5

\* Every step keeps what was sent and is held.
LEMMA SentNext ==
    ASSUME TypeOK, OrderInv, SentInv, [Next]_vars
    PROVE  SentInv'
<1>0. CASE UNCHANGED vars
    <2>1. Sent' = Sent /\ UNCHANGED <<requests, dsp_busy, halt>>
        BY <1>0 DEF Sent, vars, hostVars, sendVars, dspVars
    <2>2. Held' = Held
        BY <1>0, <2>1 DEF Held, vars, hostVars, sendVars
    <2> QED
        BY <2>1, <2>2 DEF SentInv
<1> SUFFICES ASSUME halt = "no", Step PROVE SentInv'
    BY <1>0 DEF Next, Finished
<1>1. ASSUME UNCHANGED <<task, sendVars>>, dsp_busy' = dsp_busy \/ dsp_busy' = <<>>
      PROVE  SentInv'
    <2>1. Settles /\ Inquires
        BY <1>1 DEF Settles, Inquires
    <2> QED
        BY <1>1, <2>1, SentQuiet
<1>2. CASE New
    <2>1. Settles \/ task[InitTask] = "unused"
        BY <1>2 DEF New
    <2>2. ASSUME NEW r \in Sent PROVE r \in Sent'
        BY <1>2, <2>2, ConstantsAssumption DEF Sent, New, TypeOK, Tasks
    <2>3. ASSUME NEW r \in Held PROVE r \in Held'
        BY <1>2, <2>2, <2>3, ConstantsAssumption DEF Held, Sent, New, TypeOK, Tasks, sendVars
    <2>4. UNCHANGED <<requests, dsp_busy, halt>>
        BY <1>2 DEF New, sendVars, dspVars
    <2> QED
        BY <2>2, <2>3, <2>4, SeqLarger DEF SentInv
<1>3. CASE ClientReady
    <2>0. InitTask \in Tasks
        BY DEF Tasks
    <2>1. Settles /\ UNCHANGED dsp_busy
        BY <1>3, ReturnSettles DEF ClientReady, Settles, dspVars
    <2>2. Inquires
        BY <1>3, <2>0 DEF ClientReady, Inquires, Inquiries, Poll
    <2> QED
        BY <2>1, <2>2, SentQuiet
<1>4. ASSUME NEW t \in OpenTasks, Open(t) PROVE SentInv'
    <2>1. CASE task' = [task EXCEPT ![t] = "pending"] /\ Send("enable", t)
        BY <1>4, <2>1, SentCall DEF Open, dspVars
    <2>2. CASE UNCHANGED task /\ UNCHANGED sendVars
        BY <1>1, <1>4, <2>2 DEF Open, dspVars
    <2>3. CASE UNCHANGED sendVars /\ \E result \in {"unavailable", "no_sample_rate"} :
                    task' = [task EXCEPT ![t] = result]
        <3>1. Settles /\ Inquires
            BY <2>3 DEF Settles, Inquires, TypeOK
        <3> QED
            BY <1>4, <3>1, SentQuiet DEF Open, dspVars
    <2> QED
        BY <1>4, <2>1, <2>2, <2>3 DEF Open
<1>5. ASSUME NEW t \in CloseTasks, Close(t) PROVE SentInv'
    BY <1>5, SentCall DEF Close, dspVars
<1>6. CASE SensorDispose \/ QueueIndication \/ DropGarbled \/ DspStream \/ DspForeign \/ DspAct
    BY <1>1, <1>6 DEF SensorDispose, QueueIndication, DropGarbled, DspStream, DspForeign, DspAct,
          hostVars, dspVars
<1>7. CASE ClientDisposed
    <2>1. requests' = <<>> /\ dsp_busy' = <<>>
        BY <1>7 DEF ClientDisposed
    <2> QED
        BY <2>1, EnqueueType DEF SentInv
<1>8. CASE ReceiveResponse
    <2>1. CASE RequestReady(Head(wire).req, Head(wire).ok)
        BY <1>8, <2>1, SentReady DEF ReceiveResponse
    <2>2. CASE UNCHANGED <<hostVars, sendVars, inds, dspVars>>
        BY <1>1, <2>2 DEF hostVars, dspVars
    <2> QED
        BY <1>8, <2>1, <2>2 DEF ReceiveResponse
<1>9. CASE Abort
    <2>1. PICK r \in outstanding : RequestReady(r, FALSE)
        BY <1>9 DEF Abort
    <2> QED
        BY <2>1, SentReady
<1>10. CASE Dispatch
    BY <1>10, EmitSettles, SentQuiet DEF Dispatch, dspVars
<1>11. CASE DspReply
    <2>1. /\ UNCHANGED <<task, halt, outstanding>> /\ requests # <<>> /\ requests' = Tail(requests)
          /\ dsp_busy' \in {dsp_busy, <<Head(requests)>>}
        BY <1>11 DEF DspReply, hostVars
    <2>a. Sent' = Sent
        BY <2>1 DEF Sent
    <2>2. Sent' = Sent /\ Held' = Held
        BY <2>1, <2>a DEF Held
    <2>b. requests \in Seq(Sent) /\ requests \in Seq(Held)
        BY DEF SentInv
    <2>3. Head(requests) \in Sent /\ Tail(requests) \in Seq(Sent) /\ Tail(requests) \in Seq(Held)
        BY <2>1, <2>b, QueueType
    <2>4. dsp_busy' \in Seq(Sent)
        BY <2>1, <2>3, EnqueueType DEF SentInv
    <2> QED
        BY <2>1, <2>2, <2>3, <2>4 DEF SentInv
<1> QED
    BY <1>2, <1>3, <1>4, <1>5, <1>6, <1>7, <1>8, <1>9, <1>10, <1>11 DEF Step

\* A request put at the end of a queue waits with the others.
LEMMA WaitsAppend ==
    ASSUME NEW q \in Seq(Request), NEW r \in Request, NEW op, NEW t,
           Waits(q, op, t) \/ (r.op = op /\ r.task = t)
    PROVE  Waits(Append(q, r), op, t)
<1>1. /\ Len(q) \in Nat /\ DOMAIN q = 1 .. Len(q) /\ DOMAIN Append(q, r) = 1 .. Len(q) + 1
      /\ \A i \in 1 .. Len(q) : Append(q, r)[i] = q[i]
      /\ Append(q, r)[Len(q) + 1] = r
    BY AppendProperties, LenProperties
<1> QED
    BY <1>1 DEF Waits

\* The head of a queue is taken, the others wait on.
LEMMA WaitsTail ==
    ASSUME NEW q \in Seq(Request), q # <<>>, NEW op, NEW t, Waits(q, op, t)
    PROVE  Waits(Tail(q), op, t) \/ (Head(q).op = op /\ Head(q).task = t)
<1>1. /\ Len(q) \in Nat /\ DOMAIN q = 1 .. Len(q) /\ DOMAIN Tail(q) = 1 .. Len(q) - 1
      /\ \A i \in 1 .. Len(q) - 1 : Tail(q)[i] = q[i + 1]
      /\ Head(q) = q[1]
    <2>1. /\ Tail(q) \in Seq(Request) /\ Len(Tail(q)) = Len(q) - 1 /\ Head(q) = q[1]
          /\ \A i \in 1 .. Len(Tail(q)) : Tail(q)[i] = q[i + 1]
        BY HeadTailProperties
    <2> QED
        BY <2>1, LenProperties
<1>2. PICK i \in 1 .. Len(q) : q[i].op = op /\ q[i].task = t
    BY <1>1 DEF Waits
<1>3. CASE i = 1
    BY <1>1, <1>2, <1>3
<1>4. CASE i - 1 \in 1 .. Len(q) - 1
    <2>1. Tail(q)[i - 1] = q[i]
        BY <1>1, <1>4
    <2> QED
        BY <1>1, <1>2, <1>4, <2>1 DEF Waits
<1> QED
    BY <1>1, <1>3, <1>4

\* A response on the way comes closer, unless it is dropped.
LEMMA ResponseKept ==
    ASSUME TypeOK, NEW op, NEW t, NEW answers, ResponseComes(op, t, answers),
           outstanding \subseteq outstanding',
           \/ wire' = wire
           \/ /\ wire # <<>> /\ wire' = Tail(wire)
              /\ Head(wire).kind # "response" \/ Head(wire).req \notin outstanding
           \/ \E m \in Response \cup Report : wire' = Append(wire, m)
    PROVE  ResponseComes(op, t, answers)'
<1> DEFINE A == Response \cup Report
<1>0. wire \in Seq(A)
    BY DEF TypeOK
<1>1. Len(wire) \in Nat /\ DOMAIN wire = 1 .. Len(wire)
    BY <1>0, LenProperties
<1> HIDE DEF A
<1>2. PICK i \in 1 .. Len(wire) :
            /\ wire[i].kind = "response" /\ wire[i].ok \in answers
            /\ wire[i].req \in outstanding /\ wire[i].req.op = op /\ wire[i].req.task = t
    BY <1>1 DEF ResponseComes
<1>3. CASE wire' = wire
    BY <1>1, <1>2, <1>3 DEF ResponseComes
<1>4. CASE /\ wire # <<>> /\ wire' = Tail(wire)
           /\ Head(wire).kind # "response" \/ Head(wire).req \notin outstanding
    <2>1. /\ wire' \in Seq(A) /\ Len(wire') = Len(wire) - 1 /\ Head(wire) = wire[1]
          /\ \A j \in 1 .. Len(wire') : wire'[j] = wire[j + 1]
        BY <1>0, <1>4, HeadTailProperties
    <2>2. i # 1
        BY <1>2, <1>4, <2>1
    <2>3. i - 1 \in 1 .. Len(wire')
        BY <1>1, <2>1, <2>2
    <2>4. wire'[i - 1] = wire[i] /\ i - 1 \in DOMAIN wire'
        BY <2>1, <2>3, LenProperties
    <2> QED
        BY <1>2, <2>4 DEF ResponseComes
<1>5. ASSUME NEW m \in A, wire' = Append(wire, m)
      PROVE  ResponseComes(op, t, answers)'
    <2>1. /\ wire' \in Seq(A) /\ Len(wire') = Len(wire) + 1
          /\ \A j \in 1 .. Len(wire) : wire'[j] = wire[j]
        BY <1>0, <1>5, AppendProperties
    <2>2. i \in 1 .. Len(wire) /\ i \in 1 .. Len(wire) + 1
        BY <1>1, <1>2
    <2>3. DOMAIN wire' = 1 .. Len(wire) + 1
        BY <2>1, LenProperties
    <2> QED
        BY <1>2, <2>1, <2>2, <2>3 DEF ResponseComes
<1> QED
    BY <1>3, <1>4, <1>5 DEF A

\* When a request ends, its own response is all that is lost.
LEMMA ResponseTaken ==
    ASSUME TypeOK, OneResponse, NEW op, NEW t, NEW answers, ResponseComes(op, t, answers),
           NEW r, outstanding' = outstanding \ {r},
           \/ wire' = wire
           \/ /\ wire # <<>> /\ wire' = Tail(wire)
              /\ Head(wire).kind = "response" /\ Head(wire).req = r
    PROVE  \/ ResponseComes(op, t, answers)'
           \/ r.op = op /\ r.task = t /\ (wire' = wire \/ Head(wire).ok \in answers)
<1> DEFINE A == Response \cup Report
<1>0. wire \in Seq(A)
    BY DEF TypeOK
<1>1. Len(wire) \in Nat /\ DOMAIN wire = 1 .. Len(wire)
    BY <1>0, LenProperties
<1> HIDE DEF A
<1>2. PICK i \in 1 .. Len(wire) :
            /\ wire[i].kind = "response" /\ wire[i].ok \in answers
            /\ wire[i].req \in outstanding /\ wire[i].req.op = op /\ wire[i].req.task = t
    BY <1>1 DEF ResponseComes
<1>3. CASE wire' = wire
    <2>1. CASE wire[i].req = r
        BY <1>2, <1>3, <2>1
    <2>2. CASE wire[i].req # r
        BY <1>1, <1>2, <1>3, <2>2 DEF ResponseComes
    <2> QED
        BY <2>1, <2>2
<1>4. CASE /\ wire # <<>> /\ wire' = Tail(wire)
           /\ Head(wire).kind = "response" /\ Head(wire).req = r
    <2>1. /\ wire' \in Seq(A) /\ Len(wire') = Len(wire) - 1 /\ Head(wire) = wire[1]
          /\ \A j \in 1 .. Len(wire') : wire'[j] = wire[j + 1]
        BY <1>0, <1>4, HeadTailProperties
    <2>2. CASE i = 1
        BY <1>2, <1>4, <2>1, <2>2
    <2>3. CASE i # 1
        <3>1. 1 \in 1 .. Len(wire)
            BY <1>1, <1>2
        <3>2. wire[i].req # r
            BY <1>1, <1>2, <1>4, <2>1, <2>3, <3>1 DEF OneResponse
        <3>3. i - 1 \in 1 .. Len(wire')
            BY <1>1, <2>1, <2>3
        <3>4. wire'[i - 1] = wire[i] /\ i - 1 \in DOMAIN wire'
            BY <2>1, <3>3, LenProperties
        <3>5. wire[i].req \in outstanding'
            BY <1>2, <3>2
        <3> QED
            BY <1>2, <3>4, <3>5 DEF ResponseComes
    <2> QED
        BY <2>2, <2>3
<1> QED
    BY <1>3, <1>4

\* A response put on the wire is on its way.
LEMMA ResponseSent ==
    ASSUME TypeOK, NEW m \in Response, wire' = Append(wire, m), m.req \in outstanding',
           NEW answers, m.ok \in answers
    PROVE  ResponseComes(m.req.op, m.req.task, answers)'
<1> DEFINE A == Response \cup Report
<1>1. wire \in Seq(A) /\ m \in A /\ m.kind = "response"
    BY DEF TypeOK, Response
<1> HIDE DEF A
<1>2. /\ wire' \in Seq(A) /\ Len(wire') = Len(wire) + 1 /\ Len(wire) \in Nat
      /\ wire'[Len(wire) + 1] = m
    BY <1>1, AppendProperties, LenProperties
<1>3. Len(wire) + 1 \in DOMAIN wire'
    BY <1>2, LenProperties
<1> QED
    BY <1>1, <1>2, <1>3 DEF ResponseComes

\* What a call waits for still comes when queues only grow at the end or lose
\* what concerns no call.
LEMMA ComesKept ==
    ASSUME TypeOK, NEW t, UNCHANGED dspVars, outstanding \subseteq outstanding',
           requests' = requests \/ \E r \in Request : requests' = Append(requests, r),
           \/ wire' = wire
           \/ /\ wire # <<>> /\ wire' = Tail(wire)
              /\ Head(wire).kind # "response" \/ Head(wire).req \notin outstanding
           \/ \E m \in Response \cup Report : wire' = Append(wire, m)
    PROVE  /\ CloseComes(t) => CloseComes(t)'
           /\ OpenComes(t) => OpenComes(t)'
<1>1. ASSUME NEW op, Waits(requests, op, t) PROVE Waits(requests', op, t)
    <2>1. requests \in Seq(Request)
        BY DEF TypeOK
    <2> QED
        BY <1>1, <2>1, WaitsAppend
<1>2. /\ Waits(requests, "disable", t) => Waits(requests', "disable", t)
      /\ Waits(requests, "enable", t) => Waits(requests', "enable", t)
    BY <1>1
<1>3. ResponseComes("disable", t, BOOLEAN) => ResponseComes("disable", t, BOOLEAN)'
    BY ResponseKept
<1>4. ResponseComes("enable", t, {FALSE}) => ResponseComes("enable", t, {FALSE})'
    BY ResponseKept
<1> QED
    BY <1>2, <1>3, <1>4 DEF CloseComes, OpenComes, dspVars

\* No call starts and some may return.
CallsSettle ==
    \A t \in OpenTasks \cup CloseTasks : task'[t] = task[t] \/ task'[t] \notin {"unused", "pending"}

\* Then who waits waited before, and no close was called in between.
LEMMA PendingSettles ==
    ASSUME CallsSettle
    PROVE  /\ Pending(CloseTasks)' \subseteq Pending(CloseTasks)
           /\ Pending(OpenTasks)' \subseteq Pending(OpenTasks)
           /\ NoClose' => NoClose
BY DEF CallsSettle, Pending, NoClose

\* Nobody who waited is let down.
LEMMA NobodyKept ==
    ASSUME TypeOK, NobodyWaitsInVain, halt = "no", CallsSettle,
           UNCHANGED dspVars, outstanding \subseteq outstanding',
           requests' = requests \/ \E r \in Request : requests' = Append(requests, r),
           \/ wire' = wire
           \/ /\ wire # <<>> /\ wire' = Tail(wire)
              /\ Head(wire).kind # "response" \/ Head(wire).req \notin outstanding
           \/ \E m \in Response \cup Report : wire' = Append(wire, m)
    PROVE  NobodyWaitsInVain'
<1>1. \A t : CloseComes(t) => CloseComes(t)'
    BY ComesKept
<1>2. \A t : OpenComes(t) => OpenComes(t)'
    BY ComesKept
<1> QED
    BY <1>1, <1>2, PendingSettles DEF NobodyWaitsInVain

\* An inquiry lets nobody down.
LEMMA NobodyInquires ==
    ASSUME TypeOK, NobodyWaitsInVain, halt = "no", CallsSettle, Inquires, UNCHANGED <<wire, dspVars>>
    PROVE  NobodyWaitsInVain'
<1>1. CASE UNCHANGED sendVars
    BY <1>1, NobodyKept DEF sendVars
<1>2. ASSUME NEW op \in Inquiries, NEW t \in Tasks \cup {NoTask}, Send(op, t)
      PROVE  NobodyWaitsInVain'
    <2> DEFINE r == [id |-> next_id, op |-> op, task |-> t]
    <2>1. r \in Request /\ requests' = Append(requests, r) /\ outstanding \subseteq outstanding'
        BY <1>2 DEF Inquiries, TypeOK, Request, Ops, Send
    <2> QED
        BY <2>1, NobodyKept
<1> QED
    BY <1>1, <1>2 DEF Inquires

\* The call whose request fails, or whose close succeeds, has its answer.
LEMMA ReadyReturns ==
    ASSUME TypeOK, halt = "no", halt' = "no", NEW r \in Request, r.task \in Tasks, NEW ok \in BOOLEAN,
           RequestReady(r, ok), r.op = "disable" \/ (r.op = "enable" /\ ok = FALSE)
    PROVE  task'[r.task] # "pending"
<1>1. Return(r.task, "true") \/ Return(r.task, "request_failed")
    <2>1. CASE ok = TRUE
        BY <2>1 DEF RequestReady, SuccessReturns
    <2>2. CASE ok = FALSE
        BY <2>2 DEF RequestReady, FailRequest
    <2> QED
        BY <2>1, <2>2
<1> QED
    BY <1>1 DEF Return, TypeOK

\* The end of a request takes no other call's answer.
LEMMA NobodyReady ==
    ASSUME TypeOK, OneResponse, NobodyWaitsInVain, halt = "no", NEW r \in Request, NEW ok \in BOOLEAN,
           RequestReady(r, ok),
           \/ wire' = wire /\ ok = FALSE
           \/ /\ wire # <<>> /\ wire' = Tail(wire)
              /\ Head(wire).kind = "response" /\ Head(wire).req = r /\ Head(wire).ok = ok
    PROVE  NobodyWaitsInVain'
<1> SUFFICES ASSUME halt' = "no" PROVE NobodyWaitsInVain'
    BY DEF NobodyWaitsInVain
<1>0. OpenTasks \subseteq Tasks /\ CloseTasks \subseteq Tasks
    BY DEF Tasks
<1>1. outstanding' = outstanding \ {r} /\ requests' = requests /\ UNCHANGED dspVars
    BY DEF RequestReady
<1>2. CallsSettle
    BY <1>0, RequestReadySettles DEF Settles, CallsSettle
<1>3. ASSUME NEW t \in Pending(CloseTasks)' PROVE CloseComes(t)'
    <2>1. t \in Tasks /\ task'[t] = "pending" /\ CloseComes(t)
        BY <1>0, <1>2, <1>3, PendingSettles DEF NobodyWaitsInVain, Pending
    <2>2. CASE Waits(requests, "disable", t)
        BY <1>1, <2>2 DEF CloseComes
    <2>3. CASE ResponseComes("disable", t, BOOLEAN)
        <3>1. \/ ResponseComes("disable", t, BOOLEAN)'
              \/ r.op = "disable" /\ r.task = t
            BY <1>1, <2>3, ResponseTaken
        <3>2. ~(r.op = "disable" /\ r.task = t)
            BY <2>1, ReadyReturns
        <3> QED
            BY <3>1, <3>2 DEF CloseComes
    <2> QED
        BY <2>1, <2>2, <2>3 DEF CloseComes
<1>4. ASSUME NoClose', NEW t \in Pending(OpenTasks)' PROVE OpenComes(t)'
    <2>1. t \in Tasks /\ task'[t] = "pending" /\ OpenComes(t)
        BY <1>0, <1>2, <1>4, PendingSettles DEF NobodyWaitsInVain, Pending
    <2>2. CASE Waits(requests, "enable", t) \/ Waits(dsp_busy, "enable", t) \/ dsp_enabled
        BY <1>1, <2>2 DEF OpenComes, dspVars
    <2>3. CASE ResponseComes("enable", t, {FALSE})
        <3>1. CASE ok = FALSE
            <4>1. \/ ResponseComes("enable", t, {FALSE})'
                  \/ r.op = "enable" /\ r.task = t
                BY <1>1, <2>3, ResponseTaken
            <4> QED
                BY <2>1, <3>1, <4>1, ReadyReturns DEF OpenComes
        <3>2. CASE ok = TRUE
            <4>1. /\ wire # <<>> /\ wire' = Tail(wire)
                  /\ Head(wire).kind = "response" /\ Head(wire).req = r /\ Head(wire).ok = TRUE
                BY <3>2
            <4>2. wire' # wire
                <5>1. Len(wire) \in Nat /\ Len(Tail(wire)) = Len(wire) - 1
                    BY <4>1, LenProperties, HeadTailProperties DEF TypeOK
                <5>2. Len(wire) # Len(Tail(wire))
                    BY <5>1
                <5> QED
                    BY <4>1, <5>2
            <4>3. \/ ResponseComes("enable", t, {FALSE})'
                  \/ wire' = wire \/ Head(wire).ok \in {FALSE}
                BY <1>1, <2>3, <4>1, ResponseTaken
            <4> QED
                BY <4>1, <4>2, <4>3 DEF OpenComes
        <3> QED
            BY <3>1, <3>2
    <2> QED
        BY <2>1, <2>2, <2>3 DEF OpenComes
<1> QED
    BY <1>3, <1>4 DEF NobodyWaitsInVain

\* The DSP responds to the call whose request it takes.
LEMMA NobodyReply ==
    ASSUME TypeOK, SentInv, NobodyWaitsInVain, halt = "no", DspReply
    PROVE  NobodyWaitsInVain'
<1> DEFINE h == Head(requests)
<1>1. /\ requests # <<>> /\ requests' = Tail(requests) /\ dsp_busy = <<>>
      /\ UNCHANGED <<task, halt, outstanding, dsp_enabled>> /\ requests \in Seq(Request)
    BY DEF DspReply, hostVars, TypeOK
<1>2. h \in Request /\ h \in Held
    <2>1. requests \in Seq(Held)
        BY DEF SentInv
    <2> QED
        BY <1>1, <2>1, QueueType
<1>3. PICK m \in Response :
            wire' = Append(wire, m) /\ m.req = h /\ (m.ok = FALSE \/ dsp_busy' = <<h>>)
    <2> DEFINE good == [kind |-> "response", req |-> h, ok |-> TRUE]
               bad == [kind |-> "response", req |-> h, ok |-> FALSE]
    <2>1. good \in Response /\ good.req = h
        BY <1>2 DEF Response
    <2>2. bad \in Response /\ bad.req = h /\ bad.ok = FALSE
        BY <1>2 DEF Response
    <2>3. \/ wire' = Append(wire, good) /\ dsp_busy' = <<h>>
          \/ wire' = Append(wire, bad)
        BY DEF DspReply
    <2> HIDE DEF good, bad, h
    <2> QED
        BY <2>1, <2>2, <2>3
<1>4. m.ok \in BOOLEAN
    BY DEF Response
<1>5. h.op \in {"enable", "disable"} /\ task[h.task] = "pending" => h \in outstanding'
    BY <1>1, <1>2 DEF Held
<1> HIDE DEF h
<1>6. ASSUME NEW op, NEW t, Waits(requests, op, t)
      PROVE  Waits(requests', op, t) \/ (h.op = op /\ h.task = t)
    BY <1>1, <1>6, WaitsTail DEF h
<1>7. ASSUME NEW op, NEW t, NEW answers, ResponseComes(op, t, answers)
      PROVE  ResponseComes(op, t, answers)'
    BY <1>1, <1>3, <1>7, ResponseKept
<1>8. ASSUME NEW op, NEW t, h.op = op, h.task = t, h \in outstanding',
             NEW answers, m.ok \in answers
      PROVE  ResponseComes(op, t, answers)'
    <2>1. ASSUME NEW r, r = m.req PROVE ResponseComes(r.op, r.task, answers)'
        BY <1>3, <1>8, <2>1, ResponseSent
    <2>2. PICK r : r = m.req
        OBVIOUS
    <2>3. r.op = op /\ r.task = t
        BY <1>3, <1>8, <2>2
    <2> QED
        BY <2>1, <2>2, <2>3
<1>9. ASSUME NEW t \in Pending(CloseTasks) PROVE CloseComes(t)'
    <2>1. task[t] = "pending" /\ CloseComes(t)
        BY <1>9 DEF NobodyWaitsInVain, Pending
    <2>2. CASE Waits(requests, "disable", t)
        <3>1. CASE h.op = "disable" /\ h.task = t
            <4>1. ResponseComes("disable", t, BOOLEAN)'
                BY <1>4, <1>5, <1>8, <2>1, <3>1
            <4> QED
                BY <4>1 DEF CloseComes
        <3> QED
            BY <1>6, <2>2, <3>1 DEF CloseComes
    <2>3. CASE ResponseComes("disable", t, BOOLEAN)
        BY <1>7, <2>3 DEF CloseComes
    <2> QED
        BY <2>1, <2>2, <2>3 DEF CloseComes
<1>10. ASSUME NoClose, NEW t \in Pending(OpenTasks) PROVE OpenComes(t)'
    <2>1. task[t] = "pending" /\ OpenComes(t) /\ ~Waits(dsp_busy, "enable", t)
        BY <1>1, <1>10 DEF NobodyWaitsInVain, Pending, Waits
    <2>2. CASE Waits(requests, "enable", t)
        <3>1. CASE h.op = "enable" /\ h.task = t /\ dsp_busy' = <<h>>
            <4>1. 1 \in DOMAIN dsp_busy' /\ dsp_busy'[1] = h
                BY <3>1
            <4> QED
                BY <3>1, <4>1 DEF OpenComes, Waits
        <3>2. CASE h.op = "enable" /\ h.task = t /\ m.ok = FALSE
            <4>1. ResponseComes("enable", t, {FALSE})'
                BY <1>5, <1>8, <2>1, <3>2
            <4> QED
                BY <4>1 DEF OpenComes
        <3> QED
            BY <1>3, <1>6, <2>2, <3>1, <3>2 DEF OpenComes
    <2>3. CASE ResponseComes("enable", t, {FALSE})
        BY <1>7, <2>3 DEF OpenComes
    <2>4. CASE dsp_enabled
        BY <1>1, <2>4 DEF OpenComes
    <2> QED
        BY <2>1, <2>2, <2>3, <2>4 DEF OpenComes
<1>11. /\ Pending(CloseTasks)' = Pending(CloseTasks) /\ Pending(OpenTasks)' = Pending(OpenTasks)
       /\ NoClose' => NoClose
    BY <1>1 DEF Pending, NoClose
<1> QED
    BY <1>9, <1>10, <1>11 DEF NobodyWaitsInVain

\* The DSP enables the sensor for the open whose request it acts upon, and
\* disables it only for a close.
LEMMA NobodyAct ==
    ASSUME TypeOK, OrderInv, SentInv, NobodyWaitsInVain, halt = "no", DspAct
    PROVE  NobodyWaitsInVain'
<1> DEFINE h == Head(dsp_busy)
<1>1. /\ dsp_busy # <<>> /\ dsp_busy \in Seq(Request) /\ Len(dsp_busy) <= 1
      /\ UNCHANGED <<task, halt, requests, outstanding>>
      /\ dsp_enabled' = IF h.op \in {"enable", "disable"} THEN h.op = "enable" ELSE dsp_enabled
    BY DEF DspAct, hostVars, sendVars, TypeOK, OrderInv
<1>2. wire' = wire \/ \E m \in Response \cup Report : wire' = Append(wire, m)
    BY ConstantsAssumption DEF DspAct, Report
<1>3. ASSUME NEW op, NEW t, NEW answers, ResponseComes(op, t, answers)
      PROVE  ResponseComes(op, t, answers)'
    BY <1>1, <1>2, <1>3, ResponseKept
<1>4. h \in Sent
    BY <1>1, QueueType DEF SentInv
<1>5. \A i \in DOMAIN dsp_busy : dsp_busy[i] = h
    <2>1. DOMAIN dsp_busy = 1 .. Len(dsp_busy) /\ Len(dsp_busy) \in Nat /\ h = dsp_busy[1]
        BY <1>1, LenProperties, HeadTailProperties
    <2> QED
        BY <1>1, <2>1
<1> HIDE DEF h
<1>6. ASSUME NEW t \in Pending(CloseTasks) PROVE CloseComes(t)'
    BY <1>1, <1>3, <1>6 DEF NobodyWaitsInVain, CloseComes
<1>7. ASSUME NoClose, NEW t \in Pending(OpenTasks) PROVE OpenComes(t)'
    <2>1. OpenComes(t)
        BY <1>7 DEF NobodyWaitsInVain
    <2>2. h.op # "disable"
        BY <1>4, <1>7 DEF Sent, NoClose
    <2>3. CASE Waits(dsp_busy, "enable", t)
        BY <1>1, <1>5, <2>3 DEF Waits, OpenComes
    <2>4. CASE Waits(requests, "enable", t) \/ dsp_enabled
        BY <1>1, <2>2, <2>4 DEF OpenComes
    <2>5. CASE ResponseComes("enable", t, {FALSE})
        BY <1>3, <2>5 DEF OpenComes
    <2> QED
        BY <2>1, <2>3, <2>4, <2>5 DEF OpenComes
<1>8. /\ Pending(CloseTasks)' = Pending(CloseTasks) /\ Pending(OpenTasks)' = Pending(OpenTasks)
       /\ NoClose' => NoClose
    BY <1>1 DEF Pending, NoClose
<1>9. ASSUME NEW t \in Pending(CloseTasks)' PROVE CloseComes(t)'
    BY <1>1, <1>6, <1>9 DEF Pending
<1>10. ASSUME NoClose', NEW t \in Pending(OpenTasks)' PROVE OpenComes(t)'
    BY <1>1, <1>7, <1>10 DEF Pending, NoClose
<1> QED
    BY <1>9, <1>10 DEF NobodyWaitsInVain

\* A call sends its request, which then waits for it.
LEMMA NobodyCall ==
    ASSUME TypeOK, NobodyWaitsInVain, halt = "no", UNCHANGED <<wire, dspVars>>,
           NEW op, NEW t, task' = [task EXCEPT ![t] = "pending"], Send(op, t),
           \/ op = "enable" /\ t \in OpenTasks
           \/ op = "disable" /\ t \in CloseTasks
    PROVE  NobodyWaitsInVain'
<1> DEFINE r == [id |-> next_id, op |-> op, task |-> t]
<1>0. OpenTasks \subseteq Tasks /\ CloseTasks \subseteq Tasks /\ OpenTasks \cap CloseTasks = {}
    BY ConstantsAssumption DEF Tasks
<1>1. r \in Request /\ r.op = op /\ r.task = t /\ requests' = Append(requests, r)
      /\ outstanding \subseteq outstanding' /\ requests \in Seq(Request)
    BY <1>0 DEF TypeOK, Request, Ops, Send
<1>2. Waits(requests', op, t)
    <2> HIDE DEF r
    <2> QED
        BY <1>1, WaitsAppend
<1>3. \A u : CloseComes(u) => CloseComes(u)'
    BY <1>1, ComesKept
<1>4. \A u : OpenComes(u) => OpenComes(u)'
    BY <1>1, ComesKept
<1>5. /\ \A u \in Tasks : task'[u] = IF u = t THEN "pending" ELSE task[u]
      /\ task'[t] = "pending"
    BY <1>0 DEF TypeOK
<1>6. CASE op = "enable" /\ t \in OpenTasks
    <2>1. OpenComes(t)' /\ (NoClose' => NoClose)
        BY <1>0, <1>2, <1>5, <1>6 DEF OpenComes, NoClose
    <2> QED
        BY <1>0, <1>3, <1>4, <1>5, <1>6, <2>1 DEF NobodyWaitsInVain, Pending
<1>7. CASE op = "disable" /\ t \in CloseTasks
    <2>1. CloseComes(t)' /\ ~NoClose'
        BY <1>2, <1>5, <1>7 DEF CloseComes, NoClose
    <2> QED
        BY <1>0, <1>3, <1>5, <1>7, <2>1 DEF NobodyWaitsInVain, Pending
<1> QED
    BY <1>6, <1>7

\* Every step leaves no call waiting for what cannot come.
LEMMA NobodyNext ==
    ASSUME TypeOK, LifeInv, GoneInv, OrderInv, SentInv, NobodyWaitsInVain, [Next]_vars
    PROVE  NobodyWaitsInVain'
<1>0. CASE UNCHANGED vars
    <2>1. CallsSettle /\ UNCHANGED <<requests, outstanding, wire, dspVars, halt>>
        BY <1>0 DEF vars, hostVars, sendVars, CallsSettle
    <2>2. CASE halt = "no"
        BY <2>1, <2>2, NobodyKept
    <2> QED
        BY <2>1, <2>2 DEF NobodyWaitsInVain
<1> SUFFICES ASSUME halt = "no", Step PROVE NobodyWaitsInVain'
    BY <1>0 DEF Next, Finished
<1>a. InitTask \in Tasks /\ InitTask \notin OpenTasks \cup CloseTasks
      /\ OpenTasks \subseteq Tasks /\ CloseTasks \subseteq Tasks
    BY ConstantsAssumption DEF Tasks
<1>b. Settles => CallsSettle
    BY <1>a DEF Settles, CallsSettle
<1>1. CASE New
    <2>1. CallsSettle /\ Inquires /\ UNCHANGED <<wire, dspVars>>
        BY <1>1, <1>a DEF New, CallsSettle, TypeOK, Inquires
    <2> QED
        BY <2>1, NobodyInquires
<1>2. CASE ClientReady
    <2>1. Settles /\ UNCHANGED <<wire, dspVars>>
        BY <1>2, ReturnSettles DEF ClientReady, Settles
    <2>2. Inquires
        BY <1>2, <1>a DEF ClientReady, Inquires, Inquiries, Poll
    <2> QED
        BY <1>b, <2>1, <2>2, NobodyInquires
<1>3. ASSUME NEW t \in OpenTasks, Open(t) PROVE NobodyWaitsInVain'
    <2>0. UNCHANGED <<wire, dspVars>>
        BY <1>3 DEF Open
    <2>1. CASE task' = [task EXCEPT ![t] = "pending"] /\ Send("enable", t)
        BY <2>0, <2>1, NobodyCall
    <2>2. CASE /\ UNCHANGED sendVars
               /\ \/ UNCHANGED task
                  \/ \E result \in {"unavailable", "no_sample_rate"} :
                        task' = [task EXCEPT ![t] = result]
        <3>1. Settles /\ Inquires
            BY <2>2 DEF Settles, Inquires, TypeOK
        <3> QED
            BY <1>b, <2>0, <3>1, NobodyInquires
    <2> QED
        BY <1>3, <2>1, <2>2 DEF Open
<1>4. ASSUME NEW t \in CloseTasks, Close(t) PROVE NobodyWaitsInVain'
    BY <1>4, NobodyCall DEF Close
<1>5. CASE SensorDispose \/ DropGarbled
    <2>1. CallsSettle /\ Inquires /\ UNCHANGED <<wire, dspVars>>
        BY <1>5 DEF SensorDispose, DropGarbled, hostVars, CallsSettle, Inquires
    <2> QED
        BY <2>1, NobodyInquires
<1>6. CASE ClientDisposed
    <2>1. task' = task /\ Pending(Tasks) = {}
        BY <1>6 DEF ClientDisposed, LifeInv, GoneInv
    <2>2. Pending(OpenTasks)' = {} /\ Pending(CloseTasks)' = {}
        BY <1>a, <2>1 DEF Pending
    <2> QED
        BY <2>2 DEF NobodyWaitsInVain
<1>7. CASE ReceiveResponse
    <2>1. wire # <<>> /\ Head(wire).kind = "response" /\ wire' = Tail(wire)
          /\ wire \in Seq(Response \cup Report)
        BY <1>7 DEF ReceiveResponse, TypeOK
    <2>2. Head(wire) \in Response
        BY <2>1, QueueType, MessageKinds
    <2>3. CASE RequestReady(Head(wire).req, Head(wire).ok)
        <3>1. Head(wire).req \in Request /\ Head(wire).ok \in BOOLEAN
            BY <2>2 DEF Response
        <3>2. OneResponse
            BY DEF OrderInv
        <3> QED
            BY <2>1, <2>3, <3>1, <3>2, NobodyReady
    <2>4. CASE UNCHANGED <<hostVars, sendVars, inds, dspVars>> /\ Head(wire).req \notin outstanding
        <3>1. CallsSettle /\ UNCHANGED <<requests, outstanding, dspVars>>
            BY <2>4 DEF hostVars, sendVars, CallsSettle
        <3> QED
            BY <2>1, <2>4, <3>1, NobodyKept
    <2> QED
        BY <1>7, <2>3, <2>4 DEF ReceiveResponse
<1>8. CASE Abort
    <2>1. PICK r \in outstanding : RequestReady(r, FALSE) /\ wire' = wire
        BY <1>8 DEF Abort
    <2>2. r \in Request /\ OneResponse
        BY DEF TypeOK, OrderInv
    <2> QED
        BY <2>1, <2>2, NobodyReady
<1>9. CASE QueueIndication
    <2>1. CallsSettle /\ UNCHANGED <<requests, outstanding, dspVars>>
          /\ wire # <<>> /\ wire' = Tail(wire) /\ Head(wire).kind # "response"
        BY <1>9 DEF QueueIndication, hostVars, sendVars, CallsSettle
    <2> QED
        BY <2>1, NobodyKept
<1>10. CASE Dispatch
    <2>1. Settles /\ Inquires /\ UNCHANGED <<wire, dspVars>>
        BY <1>10, EmitSettles DEF Dispatch
    <2> QED
        BY <1>b, <2>1, NobodyInquires
<1>11. CASE DspReply
    BY <1>11, NobodyReply
<1>12. CASE DspAct
    BY <1>12, NobodyAct
<1>13. CASE DspStream \/ DspForeign
    <2>1. CallsSettle /\ UNCHANGED <<requests, outstanding, dspVars>>
        BY <1>13 DEF DspStream, DspForeign, hostVars, sendVars, CallsSettle
    <2>2. \E m \in Response \cup Report : wire' = Append(wire, m)
        BY <1>13 DEF DspStream, DspForeign, Report
    <2> QED
        BY <2>1, <2>2, NobodyKept
<1> QED
    BY <1>1, <1>2, <1>3, <1>4, <1>5, <1>6, <1>7, <1>8, <1>9, <1>10, <1>11, <1>12, <1>13 DEF Step

\* The order of requests and of what answers them, and whose they are, are kept
\* whatever the environment does.
THEOREM OrderKept == Spec => [](OrderInv /\ SentInv /\ GoneInv)
<1>1. Init => OrderInv /\ SentInv /\ GoneInv
    BY OrderInit, SentInit
<1>2. TypeOK /\ OrderInv /\ SentInv /\ GoneInv /\ [Next]_vars => (OrderInv /\ SentInv /\ GoneInv)'
    BY OrderNext, SentNext, GoneNext
<1> QED
    BY <1>1, <1>2, TypeCorrect, PTL DEF Spec

\* Whatever is lost, rejected, garbled or late, the answer to a close that
\* waits is on its way, and so is that to an open, where no close was called.
THEOREM NobodyWaits == Spec => []NobodyWaitsInVain
<1>1. Init => LifeInv /\ NobodyWaitsInVain
    <2>1. Init => Pending(OpenTasks) = {} /\ Pending(CloseTasks) = {}
        BY DEF Init, Pending, Tasks
    <2> QED
        BY <2>1, LifeInit DEF NobodyWaitsInVain
<1>2. TypeOK /\ ServiceInv /\ LifeInv /\ [Next]_vars => LifeInv'
    BY NextIsLifeStep, LifeNext
<1>3. TypeOK /\ LifeInv /\ OrderInv /\ SentInv /\ GoneInv /\ NobodyWaitsInVain /\ [Next]_vars
            => NobodyWaitsInVain'
    BY NobodyNext
<1> QED
    BY <1>1, <1>2, <1>3, TypeCorrect, ServiceInvariant, OrderKept, PTL DEF Spec

=============================================================================
