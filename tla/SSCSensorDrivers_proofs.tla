---------------------- MODULE SSCSensorDrivers_proofs ----------------------
(***************************************************************************)
(* Theorems about SSCSensorDrivers for every set of calls, every mounting  *)
(* and every set of readings.                                              *)
(***************************************************************************)
EXTENDS SSCSensorDrivers, SequenceTheorems, TLAPS

-----------------------------------------------------------------------------
(* Sequences *)

\* What is at the head of a queue has the queue's type, and so has the rest.
LEMMA QueueType ==
    ASSUME NEW S, NEW q \in Seq(S), q # <<>>
    PROVE  Head(q) \in S /\ Tail(q) \in Seq(S)
BY HeadTailProperties

\* A queue may be empty, and what is put at its end has its type.
LEMMA EnqueueType ==
    ASSUME NEW S
    PROVE  <<>> \in Seq(S) /\ \A q \in Seq(S), e \in S : Append(q, e) \in Seq(S)
BY EmptySeq, AppendProperties

\* Taking an element out of a queue leaves its type.
LEMMA RemoveAtType ==
    ASSUME NEW S, NEW q \in Seq(S), NEW i \in DOMAIN q
    PROVE  RemoveAt(q, i) \in Seq(S)
<1>1. SubSeq(q, 1, i-1) \in Seq(S)
    BY SubSeqProperties
<1>2. SubSeq(q, i+1, Len(q)) \in Seq(S)
    BY SubSeqProperties
<1> QED
    BY <1>1, <1>2, ConcatProperties DEF RemoveAt

-----------------------------------------------------------------------------
(* Type correctness of the base sensor *)

\* A call keeps the types: it is new, and its request is the last.
LEMMA CallType ==
    ASSUME ApiTypeOK, NEW t \in Calls
    PROVE  /\ \A status \in {"unused", "pending", "true", "refused", "failed"} :
                  [call EXCEPT ![t] = status]
                      \in [Calls -> {"unused", "pending", "true", "refused", "failed"}]
           /\ Append(ops, t) \in Seq(Calls)
BY EnqueueType DEF ApiTypeOK

\* Every step of the base sensor keeps its types.
LEMMA ApiStepType == ASSUME ApiTypeOK, ApiStep PROVE ApiTypeOK'
<1>1. CASE New \/ Created \/ CreationHangs \/ LetGo
    BY <1>1 DEF New, Created, CreationHangs, LetGo, ApiTypeOK
<1>2. CASE Release
    BY <1>2, EnqueueType DEF Release, ApiTypeOK
<1>3. ASSUME NEW t \in Opens, CallOpen(t) PROVE ApiTypeOK'
    <2>1. t \in Calls
        BY DEF Calls
    <2> QED
        BY <1>3, <2>1, CallType DEF CallOpen, ApiTypeOK
<1>4. ASSUME NEW t \in Closes, CallClose(t) \/ ReturnClose(t) PROVE ApiTypeOK'
    <2>1. t \in Calls
        BY DEF Calls
    <2> QED
        BY <1>4, <2>1, CallType DEF CallClose, ReturnClose, ApiTypeOK
<1>5. ASSUME NEW t \in Calls, FailOpen(t) \/ FailClose(t) PROVE ApiTypeOK'
    <2>1. Fail(t) /\ ops \in Seq(Calls) /\ stale' \in BOOLEAN
        BY <1>5 DEF FailOpen, FailClose, ApiTypeOK
    <2>2. ops' \in Seq(Calls)
        BY <2>1, RemoveAtType DEF Fail
    <2> QED
        BY <2>1, <2>2, CallType DEF Fail, ApiTypeOK
<1>6. CASE Act
    BY <1>6, QueueType DEF Act, ApiTypeOK
<1>7. CASE Deliver
    <2>1. call' \in [Calls -> {"unused", "pending", "true", "refused", "failed"}]
        BY <1>7 DEF Deliver, OpensConfirmed, ApiTypeOK
    <2> QED
        BY <1>7, <2>1, QueueType DEF Deliver, ApiTypeOK
<1>8. ASSUME NEW r \in Reports, Stream(r) PROVE ApiTypeOK'
    BY <1>8, EnqueueType DEF Stream, ApiTypeOK
<1>9. CASE UseFreed
    <2>1. SubSeq(reports, 2, Len(reports)) \in Seq(Reports)
        BY SubSeqProperties, \A i \in 2..Len(reports) : i \in 1..Len(reports) DEF ApiTypeOK
    <2> QED
        BY <1>9, <2>1 DEF UseFreed, ApiTypeOK
<1> QED
    BY <1>1, <1>2, <1>3, <1>4, <1>5, <1>6, <1>7, <1>8, <1>9 DEF ApiStep, Calls

-----------------------------------------------------------------------------
(* The six drivers *)

\* What a sensor measures, and whatever else it reports, is a report.
LEMMA ReadingsAreReports ==
    /\ \A d \in Types : Readings[d] \subseteq Reports /\ Readings[d] \subseteq Measurements
    /\ Config \in Reports /\ Config \notin Measurements
    /\ \A r \in Reports : r # Config => r \in Measurements /\ r \in Reading
BY DriversAssumption DEF Reports, Config, Reading

\* The creations differ in the data type.
LEMMA CreationsAre == ASSUME DriverNew PROVE \E d \in Types : CreateAs(d)
BY DEF DriverNew, AccelerometerNew, GyroscopeNew, MagnetometerNew, LightNew,
       CompassNew, ProximityNew, Types

\* The opens differ in what becomes of reported_once.
LEMMA OpensAre ==
    ASSUME NEW t, DriverOpen(t)
    PROVE  /\ OpenDriver(t) /\ type \in Types
           /\ reported_once' = IF type = "proximity" THEN FALSE ELSE reported_once
BY DEF DriverOpen, AccelerometerOpen, GyroscopeOpen, MagnetometerOpen, LightOpen,
       CompassOpen, ProximityOpen, Types

\* The closes do not differ.
LEMMA ClosesAre == ASSUME NEW t, DriverClose(t) PROVE CloseDriver(t)
BY DEF DriverClose, AccelerometerClose, GyroscopeClose, MagnetometerClose, LightClose,
       CompassClose, ProximityClose

-----------------------------------------------------------------------------
(* The drivers take no steps of the base class but its own *)

\* Every step of a driver is one of the base sensor, or leaves it alone.
LEMMA DriversStepIsApiStep ==
    ASSUME DriversTypeOK, [DriversNext]_driversVars PROVE [ApiNext]_apiVars
<1> SUFFICES ASSUME DriversNext PROVE ApiStep \/ UNCHANGED apiVars
    BY DEF driversVars, ApiNext, DriversNext, Running
<1>1. ASSUME NewFinish \/ BaseFails \/ DispatchReport \/ ReleaseClient PROVE ApiStep
    BY <1>1 DEF NewFinish, BaseFails, DispatchReport, ReleaseClient, ApiStep
<1>2. ASSUME HandlerStops \/ EmitSignal \/ EmitStops \/ ProcessEnds PROVE UNCHANGED apiVars
    BY <1>2 DEF HandlerStops, EmitSignal, EmitStops, ProcessEnds
<1>3. ASSUME NEW t \in Opens, RefusedReady(t) PROVE UNCHANGED apiVars
    BY <1>3 DEF RefusedReady
<1>4. ASSUME NEW t \in Closes, CloseReady(t) PROVE ApiStep
    BY <1>4 DEF CloseReady, ApiStep
<1>7. ASSUME NEW t \in Opens, OpenFailedReady(t) PROVE ApiStep
    BY <1>7 DEF OpenFailedReady, ApiStep
<1>5. ASSUME DspStep PROVE ApiStep
    <2>1. CASE Act /\ UNCHANGED driverVars
        BY <2>1 DEF ApiStep
    <2>2. CASE DspStreams({Config})
        BY <2>2 DEF DspStreams, ApiStep, Reports
    <2>3. CASE DspStreams(Readings[type])
        <3>1. Readings[type] \subseteq Reports
            BY <2>3, ReadingsAreReports DEF DspStreams, DriversTypeOK
        <3> QED
            BY <2>3, <3>1 DEF DspStreams, ApiStep
    <2> QED
        BY <1>5, <2>1, <2>2, <2>3 DEF DspStep
<1>6. ASSUME ApplicationStep PROVE ApiStep
    <2>1. CASE DriverNew
        BY <2>1, CreationsAre DEF CreateAs, ApiStep
    <2>2. ASSUME NEW t \in Opens, DriverOpen(t) PROVE ApiStep
        BY <2>2, OpensAre DEF OpenDriver, ApiStep
    <2>3. ASSUME NEW t \in Closes, DriverClose(t) PROVE ApiStep
        BY <2>3, ClosesAre DEF CloseDriver, ApiStep
    <2>4. CASE LetGo
        BY <2>4 DEF ApiStep
    <2> QED
        BY <1>6, <2>1, <2>2, <2>3, <2>4 DEF ApplicationStep
<1> QED
    BY <1>1, <1>2, <1>3, <1>4, <1>5, <1>6, <1>7 DEF DriversNext, HostStep

-----------------------------------------------------------------------------
(* Type correctness of the drivers *)

\* The end of a task is a status of it.
LEMMA DoneType ==
    ASSUME DriversTypeOK, NEW t \in Calls
    PROVE  \A status \in {"unused", "pending", "true", "error"} :
              [done EXCEPT ![t] = status] \in [Calls -> {"unused", "pending", "true", "error"}]
BY DEF DriversTypeOK

\* Measured values are integers in the application's units too.
LEMMA ValueType ==
    ASSUME NEW r \in Reading
    PROVE  r.value \in Int /\ Mounted(r.value) \in Int /\ Azimuth(r.value) \in Int
<1>1. r.value \in Int
    BY DEF Reading
<1>2. Mounted(r.value) \in Int
    BY <1>1, DriversAssumption DEF Mounted
<1>3. Azimuth(r.value) \in Int
    BY <1>1 DEF Azimuth
<1> QED
    BY <1>1, <1>2, <1>3

\* A driver keeps its types on every measurement it gets.
LEMMA ReportType ==
    ASSUME DriversTypeOK, NEW r \in Reading, r # Config, DriverReport(r),
           ~ProximityUnreachable(r)
    PROVE  /\ near' \in {0, 1} /\ reported_once' \in BOOLEAN
           /\ idle' \in Seq(Int) /\ Len(idle) <= Len(idle')
<1>1. \A v \in Int : Append(idle, v) \in Seq(Int) /\ Len(idle) <= Len(Append(idle, v))
    BY EnqueueType, AppendProperties, LenProperties DEF DriversTypeOK
<1>2. /\ idle \in Seq(Int) /\ near \in {0, 1} /\ reported_once \in BOOLEAN
      /\ Len(idle) <= Len(idle)
    BY LenProperties DEF DriversTypeOK
<1>3. CASE AccelerometerReport(r)
    BY <1>1, <1>2, <1>3, ValueType DEF AccelerometerReport, Queue, proximityVars
<1>4. CASE GyroscopeReport(r)
    BY <1>1, <1>2, <1>4, ValueType DEF GyroscopeReport, Queue, proximityVars
<1>8. CASE MagnetometerReport(r)
    BY <1>1, <1>2, <1>8, ValueType DEF MagnetometerReport, Queue, proximityVars
<1>5. CASE LightReport(r)
    BY <1>1, <1>2, <1>5, ValueType DEF LightReport, Queue, proximityVars
<1>6. CASE CompassReport(r)
    BY <1>1, <1>2, <1>6, ValueType DEF CompassReport, Queue, proximityVars
<1>7. CASE ProximityReport(r)
    BY <1>1, <1>2, <1>7, ValueType DEF ProximityReport, ProximityUnreachable, Queue, proximityVars
<1> QED
    BY <1>3, <1>4, <1>5, <1>6, <1>7, <1>8 DEF DriverReport

\* So do all the reports dispatched.
LEMMA DispatchType == ASSUME DriversTypeOK, DispatchReport PROVE DriversTypeOK'
<1> DEFINE r == Head(reports)
<1>1. reports # <<>> /\ r \in Reports /\ ApiTypeOK
    BY QueueType DEF DispatchReport, Deliver, DriversTypeOK, ApiTypeOK
<1>2. /\ near' \in {0, 1} /\ reported_once' \in BOOLEAN
      /\ idle' \in Seq(Int) /\ Len(idle) <= Len(idle')
    <2>1. CASE handlers # {} /\ r # Config
        BY <1>1, <2>1, ReadingsAreReports, ReportType DEF DispatchReport
    <2>2. CASE ~(handlers # {} /\ r # Config)
        BY <1>1, <2>2, LenProperties DEF DispatchReport, proximityVars, DriversTypeOK
    <2> QED
        BY <2>1, <2>2
<1>3. done' \in [Calls -> {"unused", "pending", "true", "error"}]
    BY DEF DispatchReport, DriversTypeOK
<1>4. UNCHANGED heardVars /\ leftover' \in 0..Len(idle')
    BY <1>2, LenProperties DEF DispatchReport, heardVars, DriversTypeOK
<1>5. ApiTypeOK'
    BY <1>1, ApiStepType DEF DispatchReport, ApiStep
<1> QED
    BY <1>2, <1>3, <1>4, <1>5 DEF DispatchReport, DriversTypeOK, handlerVars, heardVars

\* An idle callback leaves one fewer, of those from before the open too.
LEMMA EmitType == ASSUME DriversTypeOK, EmitSignal PROVE DriversTypeOK'
<1>1. Head(idle) \in Int /\ idle' \in Seq(Int) /\ Len(idle') = Len(idle) - 1
    BY HeadTailProperties DEF EmitSignal, DriversTypeOK
<1>2. leftover' \in 0..Len(idle')
    BY <1>1, LenProperties DEF EmitSignal, DriversTypeOK
<1> QED
    BY <1>1, <1>2 DEF EmitSignal, apiVars, handlerVars, proximityVars, DriversTypeOK, ApiTypeOK

\* Every step keeps the types.
LEMMA DriversStepType ==
    ASSUME DriversTypeOK, [DriversNext]_driversVars PROVE DriversTypeOK'
<1>1. ApiTypeOK'
    BY DriversStepIsApiStep, ApiStepType DEF ApiNext, apiVars, ApiTypeOK, DriversTypeOK
<1>2. CASE UNCHANGED driverVars
    BY <1>1, <1>2 DEF driverVars, handlerVars, proximityVars, heardVars, DriversTypeOK
<1>3. CASE NewFinish
    BY <1>1, <1>3 DEF NewFinish, handlerVars, heardVars, DriversTypeOK
<1>4. CASE DispatchReport
    BY <1>4, DispatchType
<1>5. CASE HandlerStops \/ EmitStops \/ ProcessEnds
    BY <1>1, <1>5
    DEF HandlerStops, EmitStops, ProcessEnds, handlerVars, proximityVars, heardVars, DriversTypeOK
<1>6. CASE EmitSignal
    BY <1>6, EmitType
<1>7. ASSUME NEW t \in Opens, RefusedReady(t) \/ OpenFailedReady(t) PROVE DriversTypeOK'
    <2>1. t \in Calls
        BY DEF Calls
    <2> QED
        BY <1>1, <1>7, <2>1, DoneType
        DEF RefusedReady, OpenFailedReady, Ended, handlerVars, proximityVars, heardVars, DriversTypeOK
<1>8. ASSUME NEW t \in Closes, CloseReady(t) PROVE DriversTypeOK'
    <2>1. t \in Calls
        BY DEF Calls
    <2> QED
        BY <1>1, <1>8, <2>1, DoneType
        DEF CloseReady, Ended, handlerVars, proximityVars, heardVars, DriversTypeOK
<1>9. CASE DriverNew
    BY <1>1, <1>9, CreationsAre DEF CreateAs, handlerVars, proximityVars, heardVars, DriversTypeOK
<1>10. ASSUME NEW t \in Opens, DriverOpen(t) PROVE DriversTypeOK'
    <2>1. t \in Calls
        BY DEF Calls
    <2>2. OpenDriver(t)
        BY <1>10, OpensAre
    <2>3. reported_once' \in BOOLEAN
        BY <1>10, OpensAre DEF DriversTypeOK
    <2>4. done' \in [Calls -> {"unused", "pending", "true", "error"}]
        BY <2>1, <2>2, DoneType DEF OpenDriver
    <2>5. handlers' \subseteq Opens /\ report_id' \in Opens /\ client_refs' \in Nat
        BY <2>2 DEF OpenDriver, StartListening, GetClient, DriversTypeOK
    <2>6. leftover' \in 0..Len(idle')
        BY <2>2, LenProperties DEF OpenDriver, DriversTypeOK
    <2> QED
        BY <1>1, <2>2, <2>3, <2>4, <2>5, <2>6 DEF OpenDriver, DriversTypeOK
<1>11. ASSUME NEW t \in Closes, DriverClose(t) PROVE DriversTypeOK'
    <2>1. t \in Calls
        BY DEF Calls
    <2> QED
        BY <1>1, <1>11, <2>1, DoneType, ClosesAre
        DEF CloseDriver, StopListening, GetClient, proximityVars, heardVars, DriversTypeOK
<1> QED
    BY <1>2, <1>3, <1>4, <1>5, <1>6, <1>7, <1>8, <1>9, <1>10, <1>11
    DEF DriversNext, HostStep, BaseFails, ReleaseClient, DspStep, DspStreams, ApplicationStep, driversVars

\* The initial state has the types.
LEMMA DriversInitType == DriversInit => DriversTypeOK
<1>1. <<>> \in Seq(Calls) /\ <<>> \in Seq(Reports) /\ <<>> \in Seq(Int)
    BY EnqueueType
<1>2. DriversInit => ApiTypeOK
    BY <1>1 DEF DriversInit, ApiInit, ApiTypeOK
<1>3. DriversInit => done \in [Calls -> {"unused", "pending", "true", "error"}]
    BY DEF DriversInit
<1>4. DriversInit => handlers \subseteq Opens /\ client_refs \in Nat /\ near \in {0, 1}
    BY DEF DriversInit
<1>5. DriversInit => /\ type \in Types \cup {"none"} /\ report_id \in Opens \cup {NoCall}
                    /\ heard \in Int \cup {NoValue} /\ turn \in {"open", "close"}
                    /\ stop \in {"no", "assert", "stale_report", "stale_idle", "exit"}
    BY DEF DriversInit
<1>6. ASSUME DriversInit PROVE leftover \in 0..Len(idle) /\ fresh \in BOOLEAN
    <2>1. idle = <<>> /\ leftover = 0 /\ fresh = FALSE
        BY <1>6 DEF DriversInit
    <2>2. Len(idle) = 0
        BY <2>1
    <2>3. leftover \in 0..Len(idle)
        BY <2>1, <2>2, SMT
    <2>4. fresh \in BOOLEAN
        BY <2>1, Zenon
    <2> QED
        BY <2>3, <2>4
<1> QED
    BY <1>1, <1>2, <1>3, <1>4, <1>5, <1>6 DEF DriversInit, DriversTypeOK

\* The types of the drivers' state hold for every set of calls, every mounting
\* and all readings, an unknown proximity value among them.
THEOREM DriversTyped == DriversSpec => []DriversTypeOK
BY DriversInitType, DriversStepType, PTL DEF DriversSpec

-----------------------------------------------------------------------------
(* Handlers: the inductive invariant *)

\* One handler from an open to the next close.
OneHandler == handlers = IF turn = "open" THEN {report_id} ELSE {}

\* Nothing of a sensor that was never enabled travels.
Quiet == ~streaming /\ reports = <<>> /\ ops \in Seq(Closes)

\* What is not open-able is quiet; what was and is gone has no handler, unless
\* an open has failed.
QuietUnlessReady ==
    sensor # "ready" => Quiet \/ (sensor = "gone" /\ (handlers = {} \/ stale))

\* No measurement is about to be told of what never was open-able.
NoneDue == sensor \notin {"ready", "gone"} => idle = <<>>

\* A failed open was refused, or has left a context connected.
FailedIsStale ==
    \A t \in Opens :
        done[t] = "error" => sensor \in {"unusable", "gone"} \/ (sensor = "ready" /\ stale)

\* The task of a driver's call waits only while that of the base class does,
\* or for its refusal; only a sensor that can be open has an open that waits.
TasksFollow ==
    /\ \A t \in Closes : done[t] = "pending" => call[t] = "pending"
    /\ halt \/ \A t \in Opens : done[t] = "pending" => call[t] \in {"pending", "refused"}
    /\ \A t \in Opens : call[t] = "refused" => sensor \in {"unusable", "gone"}
    /\ \A t \in Opens : call[t] = "pending" => sensor = "ready"

\* What was told, or is about to be, of reports since the last open belongs to
\* an open that has returned.
TellsOpened == fresh \/ leftover < Len(idle) => \A t \in Opens : done[t] # "pending"

\* A report that found a freed sensor came after a failed open.
ReportsFindSensor == stop = "stale_report" => stale

HandlerInv ==
    /\ OneHandler /\ QuietUnlessReady /\ NoneDue /\ FailedIsStale
    /\ TasksFollow /\ TellsOpened /\ ReportsFindSensor

\* Where a report finds a handler there is a sensor, enabled by an open, or one
\* whose open has failed.
LEMMA HandledMeansReady ==
    ASSUME QuietUnlessReady, reports # <<>>, handlers # {}
    PROVE  sensor = "ready" \/ (sensor = "gone" /\ stale)
BY DEF QuietUnlessReady, Quiet

\* The end of one task leaves the others.
LEMMA OthersWait ==
    ASSUME DriversTypeOK, NEW t \in Calls, NEW status, done' = [done EXCEPT ![t] = status]
    PROVE  done'[t] = status /\ \A u \in Calls \ {t} : done'[u] = done[u]
BY DEF DriversTypeOK

\* So does the end of one call.
LEMMA OtherCallsWait ==
    ASSUME DriversTypeOK, NEW t \in Calls, NEW status, call' = [call EXCEPT ![t] = status]
    PROVE  call'[t] = status /\ \A u \in Calls \ {t} : call'[u] = call[u]
BY DEF DriversTypeOK, ApiTypeOK

\* What no step of the invariant's proof but a few changes.
LEMMA HandlerKept ==
    ASSUME HandlerInv,
           UNCHANGED <<handlers, report_id, idle, leftover, fresh, turn, done, call>>,
           sensor' = sensor \/ (sensor = "creating" /\ sensor' = "stuck"),
           stale' = stale, ops' = ops, streaming' = streaming, reports' = reports,
           halt' = halt \/ halt', stop' = "stale_report" => stale
    PROVE  HandlerInv'
<1>1. OneHandler' /\ NoneDue' /\ FailedIsStale' /\ TellsOpened' /\ ReportsFindSensor'
    BY DEF HandlerInv, OneHandler, NoneDue, FailedIsStale, TellsOpened, ReportsFindSensor
<1>2. QuietUnlessReady' /\ TasksFollow'
    BY DEF HandlerInv, QuietUnlessReady, Quiet, TasksFollow
<1> QED
    BY <1>1, <1>2 DEF HandlerInv

\* The initial state.
LEMMA HandlerInit == DriversInit => HandlerInv
<1> SUFFICES ASSUME DriversInit PROVE HandlerInv
    OBVIOUS
<1>1. OneHandler /\ NoneDue /\ ReportsFindSensor
    BY DEF DriversInit, OneHandler, NoneDue, ReportsFindSensor
<1>2. QuietUnlessReady
    BY EnqueueType DEF DriversInit, ApiInit, QuietUnlessReady, Quiet
<1>3. TasksFollow /\ FailedIsStale /\ TellsOpened
    BY DEF DriversInit, ApiInit, TasksFollow, FailedIsStale, TellsOpened, Calls
<1> QED
    BY <1>1, <1>2, <1>3 DEF HandlerInv

\* The creation of a sensor, a base class that fails or is let go.
LEMMA HandlerBase ==
    ASSUME DriversTypeOK, HandlerInv, Running,
           \/ NewFinish
           \/ BaseFails
           \/ \E d \in Types : CreateAs(d)
           \/ (Idle /\ NotOpen /\ LetGo /\ UNCHANGED driverVars)
    PROVE  HandlerInv'
<1> USE DEF driverVars, handlerVars, proximityVars, heardVars, Running
<1>1. CASE NewFinish
    <2>1. /\ sensor = "creating" /\ sensor' \in {"ready", "unusable", "failed"}
          /\ UNCHANGED <<call, ops, streaming, reports, released, halt>>
          /\ UNCHANGED <<type, done, handlers, report_id, idle, leftover, heard, fresh, turn, stop>>
        BY <1>1 DEF NewFinish, Created
    <2>2. OneHandler' /\ NoneDue' /\ TellsOpened' /\ ReportsFindSensor'
        BY <2>1 DEF HandlerInv, OneHandler, NoneDue, TellsOpened, ReportsFindSensor
    <2>3. QuietUnlessReady' /\ TasksFollow' /\ FailedIsStale'
        BY <2>1 DEF HandlerInv, QuietUnlessReady, Quiet, TasksFollow, FailedIsStale
    <2> QED
        BY <2>2, <2>3 DEF HandlerInv
<1>2. CASE BaseFails
    <2>1. /\ UNCHANGED <<call, ops, streaming, reports, stale>>
          /\ sensor' = sensor \/ (sensor = "creating" /\ sensor' = "stuck")
          /\ halt' = halt \/ halt'
        BY <1>2 DEF BaseFails, CreationHangs, UseFreed
    <2> QED
        BY <1>2, <2>1, HandlerKept DEF BaseFails
<1>3. CASE \E d \in Types : CreateAs(d)
    <2>1. /\ sensor = "none" /\ sensor' = "creating"
          /\ UNCHANGED <<call, ops, streaming, reports, stale, halt>>
          /\ UNCHANGED <<done, handlers, report_id, idle, leftover, heard, fresh, turn, stop>>
        BY <1>3 DEF CreateAs, New
    <2>2. OneHandler' /\ NoneDue' /\ TellsOpened' /\ ReportsFindSensor'
        BY <2>1 DEF HandlerInv, OneHandler, NoneDue, TellsOpened, ReportsFindSensor
    <2>3. QuietUnlessReady' /\ TasksFollow' /\ FailedIsStale'
        BY <2>1 DEF HandlerInv, QuietUnlessReady, Quiet, TasksFollow, FailedIsStale
    <2> QED
        BY <2>2, <2>3 DEF HandlerInv
<1>4. CASE Idle /\ NotOpen /\ LetGo /\ UNCHANGED driverVars
    <2>1. /\ sensor' = "gone"
          /\ UNCHANGED <<call, ops, streaming, reports, stale, halt>>
          /\ UNCHANGED <<done, handlers, report_id, idle, leftover, heard, fresh, turn, stop>>
        BY <1>4 DEF LetGo
    <2>2. sensor = "ready" => handlers = {} \/ stale
        BY <1>4 DEF NotOpen, HandlerInv, OneHandler, FailedIsStale, DriversTypeOK
    <2>3. OneHandler' /\ NoneDue' /\ TellsOpened' /\ ReportsFindSensor'
        BY <2>1 DEF HandlerInv, OneHandler, NoneDue, TellsOpened, ReportsFindSensor
    <2>5. \A t \in Opens : call[t] # "pending"
        BY <1>4 DEF LetGo, PendingCalls, Calls
    <2>4. QuietUnlessReady' /\ TasksFollow' /\ FailedIsStale'
        BY <2>1, <2>2, <2>5 DEF HandlerInv, QuietUnlessReady, Quiet, TasksFollow, FailedIsStale
    <2> QED
        BY <2>3, <2>4 DEF HandlerInv
<1> QED
    BY <1>1, <1>2, <1>3, <1>4

\* The DSP acts and streams, and the client goes.
LEMMA HandlerDsp ==
    ASSUME DriversTypeOK, HandlerInv, Running,
           \/ Act /\ UNCHANGED driverVars
           \/ \E r \in Reports : Stream(r) /\ UNCHANGED driverVars
           \/ ReleaseClient
    PROVE  HandlerInv'
<1> USE DEF driverVars, handlerVars, proximityVars, heardVars, Running
<1>1. UNCHANGED driverVars /\ sensor' = sensor /\ call' = call /\ halt' = halt
      /\ (stale' = stale \/ sensor = "gone")
    BY DEF Act, Stream, ReleaseClient, Release
<1>2. QuietUnlessReady'
    <2>1. CASE Act
        <3>3. stale' = stale
            BY <2>1 DEF Act
        <3>1. ops \in Seq(Closes) => Head(ops) \notin Opens /\ Tail(ops) \in Seq(Closes)
            BY <2>1, QueueType, ApiAssumption DEF Act
        <3>2. Quiet => Quiet'
            <4> SUFFICES ASSUME Quiet PROVE Quiet'
                OBVIOUS
            <4>1. Head(ops) \notin Opens
                BY <3>1 DEF Quiet
            <4>2. ~streaming'
                BY <2>1, <4>1 DEF Act
            <4> QED
                BY <2>1, <3>1, <4>2 DEF Act, Quiet
        <3> QED
            BY <1>1, <3>2, <3>3 DEF HandlerInv, QuietUnlessReady
    <2>2. CASE \E r \in Reports : Stream(r)
        BY <1>1, <2>2 DEF Stream, HandlerInv, QuietUnlessReady, Quiet
    <2>3. CASE ReleaseClient
        BY <1>1, <2>3, EnqueueType DEF ReleaseClient, Release, HandlerInv, QuietUnlessReady, Quiet
    <2> QED
        BY <2>1, <2>2, <2>3
<1> QED
    BY <1>1, <1>2 DEF HandlerInv, OneHandler, NoneDue, FailedIsStale, TasksFollow, TellsOpened,
        ReportsFindSensor

\* An open: nothing is due of it, whatever still is of an earlier one.
LEMMA HandlerOpen ==
    ASSUME DriversTypeOK, HandlerInv, Running, turn = "close", Idle,
           NEW t \in Opens, DriverOpen(t)
    PROVE  HandlerInv'
<1>1. OpenDriver(t) /\ t \in Calls /\ t \notin Closes
    BY OpensAre, ApiAssumption DEF Calls
<1>2. handlers = {} /\ Len(idle) \in Nat
    BY LenProperties DEF HandlerInv, OneHandler, DriversTypeOK
<1>3. done'[t] = "pending" /\ \A u \in Calls \ {t} : done'[u] = done[u]
    BY <1>1, OthersWait DEF OpenDriver
<1>4. OneHandler'
    BY <1>1, <1>2 DEF OpenDriver, StartListening, OneHandler
<1>5. QuietUnlessReady'
    BY <1>1 DEF OpenDriver, CallOpen, HandlerInv, QuietUnlessReady, Quiet
<1>6. NoneDue' /\ TellsOpened' /\ ReportsFindSensor'
    BY <1>1, <1>2 DEF OpenDriver, CallOpen, HandlerInv, NoneDue, TellsOpened, ReportsFindSensor
<1>8. FailedIsStale'
    BY <1>1, <1>3 DEF OpenDriver, CallOpen, Calls, HandlerInv, FailedIsStale
<1>7. TasksFollow'
    <2>1. \A u \in Calls \ {t} : call'[u] = call[u]
        BY <1>1 DEF OpenDriver, CallOpen, DriversTypeOK, ApiTypeOK
    <2>2. halt' \/ call'[t] = "refused" \/ call'[t] = "pending"
        BY <1>1, OtherCallsWait DEF OpenDriver, CallOpen
    <2>3. sensor' = sensor /\ sensor \in {"ready", "unusable"}
        BY <1>1 DEF OpenDriver, CallOpen
    <2>4. call'[t] = "refused" => sensor = "unusable" \/ call[t] = "refused"
        BY <1>1, OtherCallsWait DEF OpenDriver, CallOpen
    <2>5. \A u \in Opens : call'[u] = "refused" => sensor' \in {"unusable", "gone"}
        BY <2>1, <2>3, <2>4 DEF Calls, HandlerInv, TasksFollow
    <2>6. \A u \in Closes : done'[u] = "pending" => call'[u] = "pending"
        BY <1>1, <1>3, <2>1 DEF Calls, HandlerInv, TasksFollow
    <2>8. call'[t] = "pending" => sensor = "ready" \/ call[t] = "pending"
        BY <1>1, OtherCallsWait DEF OpenDriver, CallOpen
    <2>9. \A u \in Opens : call'[u] = "pending" => sensor' = "ready"
        BY <2>1, <2>3, <2>8 DEF Calls, HandlerInv, TasksFollow
    <2>7. halt' \/ \A u \in Opens : done'[u] = "pending" => call'[u] \in {"pending", "refused"}
        BY <1>3, <2>1, <2>2 DEF Calls, HandlerInv, TasksFollow, Running
    <2> QED
        BY <2>5, <2>6, <2>7, <2>9 DEF TasksFollow
<1> QED
    BY <1>1, <1>4, <1>5, <1>6, <1>7, <1>8 DEF HandlerInv

\* A close: the handler goes before anything else.
LEMMA HandlerClose ==
    ASSUME DriversTypeOK, HandlerInv, Running, NEW t \in Closes, DriverClose(t)
    PROVE  HandlerInv'
<1>1. CloseDriver(t) /\ t \in Calls /\ t \notin Opens
    BY ClosesAre, ApiAssumption DEF Calls
<1>2. done'[t] = "pending" /\ \A u \in Calls \ {t} : done'[u] = done[u]
    BY <1>1, OthersWait DEF CloseDriver
<1>3. call'[t] = "pending" /\ \A u \in Calls \ {t} : call'[u] = call[u]
    BY <1>1, OtherCallsWait DEF CloseDriver, CallClose
<1>4. OneHandler'
    BY <1>1 DEF CloseDriver, StopListening, HandlerInv, OneHandler
<1>5. QuietUnlessReady'
    BY <1>1, EnqueueType
    DEF CloseDriver, CallClose, StopListening, HandlerInv, QuietUnlessReady, Quiet
<1>6. NoneDue' /\ TellsOpened' /\ FailedIsStale' /\ ReportsFindSensor'
    BY <1>1, <1>2
    DEF Calls, CloseDriver, CallClose, heardVars, HandlerInv, NoneDue, TellsOpened, FailedIsStale,
        ReportsFindSensor
<1>7. TasksFollow'
    BY <1>1, <1>2, <1>3 DEF Calls, CloseDriver, CallClose, HandlerInv, TasksFollow
<1> QED
    BY <1>4, <1>5, <1>6, <1>7 DEF HandlerInv

\* A report: the opens that wait return with it, before anything is told of it.
LEMMA HandlerReport ==
    ASSUME DriversTypeOK, HandlerInv, Running, DispatchReport
    PROVE  HandlerInv'
<1>1. /\ reports # <<>> /\ reports' = Tail(reports) /\ ~stale
      /\ UNCHANGED <<sensor, ops, streaming, stale, halt, stop>>
      /\ UNCHANGED <<handlers, report_id, leftover, fresh, turn>>
    BY DEF DispatchReport, Deliver, handlerVars, heardVars
<1>2. handlers = {} => idle' = idle
    BY DEF DispatchReport
<1>3. \A t \in Closes : call'[t] = call[t] /\ done'[t] = done[t]
    BY ApiAssumption DEF DispatchReport, Deliver, OpensConfirmed, PendingCalls, Calls, HandlerInv, TasksFollow
<1>4. \A t \in Opens : call'[t] = IF call[t] = "pending" THEN "true" ELSE call[t]
    BY DEF DispatchReport, Deliver, OpensConfirmed, PendingCalls, Calls
<1>5. \A t \in Opens : done'[t] = IF done[t] = "pending" /\ call'[t] = "true" THEN "true" ELSE done[t]
    BY DEF DispatchReport, Calls
<1>6. OneHandler' /\ QuietUnlessReady'
    BY <1>1, QueueType DEF HandlerInv, OneHandler, QuietUnlessReady, Quiet
<1>7. NoneDue'
    BY <1>1, <1>2, HandledMeansReady DEF HandlerInv, NoneDue
<1>8. TasksFollow'
    BY <1>1, <1>3, <1>4, <1>5 DEF HandlerInv, TasksFollow
<1>9. TellsOpened'
    <2>1. CASE handlers = {}
        BY <1>1, <1>2, <1>5, <2>1 DEF HandlerInv, TellsOpened
    <2>2. CASE handlers # {}
        <3>1. sensor = "ready"
            BY <1>1, <2>2, HandledMeansReady DEF HandlerInv
        <3>2. \A t \in Opens : done[t] = "pending" => call[t] = "pending"
            BY <3>1 DEF HandlerInv, TasksFollow, Running
        <3> QED
            BY <1>4, <1>5, <3>2 DEF TellsOpened
    <2> QED
        BY <2>1, <2>2
<1>10. FailedIsStale' /\ ReportsFindSensor'
    BY <1>1, <1>5 DEF HandlerInv, FailedIsStale, ReportsFindSensor
<1> QED
    BY <1>6, <1>7, <1>8, <1>9, <1>10 DEF HandlerInv

\* The driver's handler stops the process: a freed sensor has had a failed open.
LEMMA HandlerStopsKeeps ==
    ASSUME DriversTypeOK, HandlerInv, HandlerStops PROVE HandlerInv'
<1>1. stop' = "stale_report" => stale
    BY HandledMeansReady DEF HandlerStops, HandlerInv
<1> QED
    BY <1>1, HandlerKept DEF HandlerStops, apiVars, handlerVars, heardVars

\* An idle callback: where those from before the open have run, what is heard
\* is of this one.
LEMMA HandlerIdle ==
    ASSUME DriversTypeOK, HandlerInv, EmitSignal PROVE HandlerInv'
<1>1. /\ idle # <<>> /\ idle' = Tail(idle)
      /\ UNCHANGED <<handlers, report_id, turn, stop, done>> /\ UNCHANGED apiVars
    BY DEF EmitSignal, handlerVars
<1>2. Len(idle) \in Nat \ {0} /\ Len(idle') = Len(idle) - 1 /\ leftover \in 0..Len(idle)
    BY <1>1, HeadTailProperties, LenProperties, EmptySeq DEF DriversTypeOK
<1>6. leftover' = IF leftover = 0 THEN 0 ELSE leftover - 1
    BY DEF EmitSignal
<1>7. fresh' => leftover = 0
    BY DEF EmitSignal
<1>3. TellsOpened'
    BY <1>1, <1>2, <1>6, <1>7 DEF HandlerInv, TellsOpened
<1>4. OneHandler' /\ NoneDue' /\ FailedIsStale' /\ ReportsFindSensor'
    BY <1>1 DEF EmitSignal, apiVars, HandlerInv, OneHandler, NoneDue, FailedIsStale, ReportsFindSensor
<1>5. QuietUnlessReady' /\ TasksFollow'
    BY <1>1 DEF apiVars, HandlerInv, QuietUnlessReady, Quiet, TasksFollow
<1> QED
    BY <1>3, <1>4, <1>5 DEF HandlerInv

\* A call of the base class fails or returns.
LEMMA FailKeepsQuiet ==
    ASSUME NEW t \in Calls, Fail(t), ops \in Seq(Closes)
    PROVE  ops' \in Seq(Closes)
BY RemoveAtType DEF Fail

\* A call returns.
LEMMA HandlerReturn ==
    ASSUME DriversTypeOK, HandlerInv, Running,
           \/ \E t \in Opens : RefusedReady(t) \/ OpenFailedReady(t)
           \/ \E t \in Closes : CloseReady(t)
    PROVE  HandlerInv'
<1> USE DEF heardVars, handlerVars, Running
<1>1. ASSUME NEW t \in Opens, RefusedReady(t) PROVE HandlerInv'
    <2>1. t \in Calls /\ t \notin Closes
        BY ApiAssumption DEF Calls
    <2>2. done'[t] = "error" /\ \A u \in Calls \ {t} : done'[u] = done[u]
        BY <1>1, <2>1, OthersWait DEF RefusedReady, Ended
    <2>3. /\ UNCHANGED apiVars /\ stop' = stop
          /\ UNCHANGED <<handlers, report_id, idle, leftover, fresh, turn>>
        BY <1>1 DEF RefusedReady
    <2>4. OneHandler' /\ QuietUnlessReady' /\ NoneDue' /\ ReportsFindSensor'
        BY <2>3 DEF apiVars, HandlerInv, OneHandler, QuietUnlessReady, Quiet, NoneDue, ReportsFindSensor
    <2>5. sensor \in {"unusable", "gone"}
        BY <1>1 DEF RefusedReady, HandlerInv, TasksFollow
    <2>6. TasksFollow' /\ TellsOpened' /\ FailedIsStale'
        BY <2>1, <2>2, <2>3, <2>5 DEF Calls, apiVars, HandlerInv, TasksFollow, TellsOpened, FailedIsStale
    <2> QED
        BY <2>4, <2>6 DEF HandlerInv
<1>2. ASSUME NEW t \in Opens, OpenFailedReady(t) PROVE HandlerInv'
    <2>1. t \in Calls /\ t \notin Closes /\ Fail(t)
        BY <1>2, ApiAssumption DEF Calls, OpenFailedReady, FailOpen
    <2>2. done'[t] = "error" /\ \A u \in Calls \ {t} : done'[u] = done[u]
        BY <1>2, <2>1, OthersWait DEF OpenFailedReady, Ended
    <2>3. call[t] = "pending" /\ call'[t] = "failed" /\ \A u \in Calls \ {t} : call'[u] = call[u]
        BY <2>1, OtherCallsWait DEF Fail
    <2>4. /\ UNCHANGED <<sensor, streaming, reports, halt, stop>> /\ stale'
          /\ UNCHANGED <<handlers, report_id, idle, leftover, fresh, turn>>
        BY <1>2 DEF OpenFailedReady, FailOpen, Fail
    <2>5. OneHandler' /\ QuietUnlessReady' /\ NoneDue' /\ ReportsFindSensor'
        BY <2>1, <2>4, FailKeepsQuiet
        DEF HandlerInv, OneHandler, QuietUnlessReady, Quiet, NoneDue, ReportsFindSensor
    <2>6. sensor = "ready"
        BY <2>3 DEF HandlerInv, TasksFollow
    <2>7. TasksFollow' /\ TellsOpened' /\ FailedIsStale'
        BY <2>1, <2>2, <2>3, <2>4, <2>6 DEF Calls, HandlerInv, TasksFollow, TellsOpened, FailedIsStale
    <2> QED
        BY <2>5, <2>7 DEF HandlerInv
<1>3. ASSUME NEW t \in Closes, CloseReady(t) PROVE HandlerInv'
    <2>1. t \in Calls /\ t \notin Opens
        BY ApiAssumption DEF Calls
    <2>2. done'[t] # "pending" /\ \A u \in Calls \ {t} : done'[u] = done[u]
        BY <1>3, <2>1, OthersWait DEF CloseReady, Ended
    <2>3. \A u \in Calls \ {t} : call'[u] = call[u]
        BY <1>3, <2>1, OtherCallsWait DEF CloseReady, ReturnClose, FailClose, Fail
    <2>4. /\ UNCHANGED <<sensor, streaming, reports, stale, halt, stop>>
          /\ UNCHANGED <<handlers, report_id, idle, leftover, fresh, turn>>
        BY <1>3 DEF CloseReady, ReturnClose, FailClose, Fail
    <2>5. ops \in Seq(Closes) => ops' \in Seq(Closes)
        BY <1>3, <2>1, FailKeepsQuiet DEF CloseReady, ReturnClose, FailClose
    <2>6. OneHandler' /\ QuietUnlessReady' /\ NoneDue' /\ ReportsFindSensor'
        BY <2>4, <2>5 DEF HandlerInv, OneHandler, QuietUnlessReady, Quiet, NoneDue, ReportsFindSensor
    <2>7. TasksFollow' /\ TellsOpened' /\ FailedIsStale'
        BY <2>1, <2>2, <2>3, <2>4 DEF Calls, HandlerInv, TasksFollow, TellsOpened, FailedIsStale
    <2> QED
        BY <2>6, <2>7 DEF HandlerInv
<1> QED
    BY <1>1, <1>2, <1>3

\* Every step keeps the invariant.
LEMMA HandlerStep ==
    ASSUME DriversTypeOK, HandlerInv, [DriversNext]_driversVars
    PROVE  HandlerInv'
<1>1. CASE UNCHANGED driversVars
    BY <1>1, HandlerKept
    DEF driversVars, apiVars, driverVars, handlerVars, heardVars, HandlerInv, ReportsFindSensor
<1>2. CASE Running /\ (EmitStops \/ ProcessEnds)
    BY <1>2, HandlerKept DEF EmitStops, ProcessEnds, apiVars, handlerVars, heardVars
<1>3. ASSUME DriversNext, DspStep PROVE HandlerInv'
    <2>1. \/ Act /\ UNCHANGED driverVars
          \/ \E r \in Reports : Stream(r) /\ UNCHANGED driverVars
        <3>1. type \in Types => Readings[type] \subseteq Reports
            BY ReadingsAreReports
        <3> QED
            BY <1>3, <3>1 DEF DspStep, DspStreams, Reports, DriversTypeOK
    <2> QED
        BY <1>3, <2>1, HandlerDsp DEF DriversNext
<1>4. ASSUME DriversNext, HostStep PROVE HandlerInv'
    BY <1>2, <1>4, HandlerBase, HandlerReport, HandlerStopsKeeps, HandlerIdle, HandlerDsp,
       HandlerReturn
    DEF HostStep, DriversNext
<1>5. ASSUME DriversNext, ApplicationStep PROVE HandlerInv'
    BY <1>5, CreationsAre, HandlerBase, HandlerOpen, HandlerClose DEF ApplicationStep, DriversNext
<1> QED
    BY <1>1, <1>2, <1>3, <1>4, <1>5 DEF DriversNext

\* The invariant.
LEMMA HandlerInvariant == DriversSpec => []HandlerInv
BY HandlerInit, HandlerStep, DriversTyped, PTL DEF DriversSpec

-----------------------------------------------------------------------------
(* What it implies *)

\* Exactly one handler is connected from an open to the next close, and a
\* report finds a freed sensor only where an open's request has failed, for
\* every number of opens and closes, every report and every failure.
THEOREM HandlersBalance == DriversSpec => []HandlerDiscipline
<1>1. HandlerInv => HandlerDiscipline
    BY DEF HandlerInv, OneHandler, ReportsFindSensor, HandlerDiscipline
<1> QED
    BY <1>1, HandlerInvariant, PTL

\* However long idle callbacks wait, no application hears of a report of this
\* opening before the open that asked for it has returned.
THEOREM NothingHeardEarly == DriversSpec => []NothingBeforeOpenReturns
<1>1. HandlerInv => NothingBeforeOpenReturns
    BY DEF HandlerInv, TellsOpened, NothingBeforeOpenReturns
<1> QED
    BY <1>1, HandlerInvariant, PTL

-----------------------------------------------------------------------------
(* The drivers implement SSCMeasurements *)

\* A sensor that cannot be open has no handler and has told nothing; a sensor
\* reports what its data type may measure.
MeasureInv ==
    /\ sensor = "none" <=> type = "none"
    /\ sensor \in {"none", "creating", "stuck", "failed"} => turn = "close"
    /\ sensor \notin {"ready", "gone"} => heard = NoValue
    /\ type = "none" => reports = <<>>
    /\ type \in Types => reports \in Seq(Readings[type] \cup {Config})

\* The initial state.
LEMMA MeasureInit == DriversInit => MeasureInv
BY DEF DriversInit, ApiInit, MeasureInv, Types

\* The step of a creation keeps the invariant, and so does every other.
LEMMA MeasureStep ==
    ASSUME DriversTypeOK, HandlerInv, MeasureInv, [DriversNext]_driversVars
    PROVE  MeasureInv'
<1> USE DEF heardVars
<1>1. CASE UNCHANGED driversVars
    BY <1>1 DEF driversVars, apiVars, driverVars, MeasureInv
<1>2. CASE HandlerStops \/ EmitStops \/ ProcessEnds \/ \E t \in Opens : RefusedReady(t)
    BY <1>2 DEF HandlerStops, EmitStops, ProcessEnds, RefusedReady, apiVars, MeasureInv
<1>3. CASE NewFinish
    BY <1>3 DEF NewFinish, Created, MeasureInv
<1>17. CASE BaseFails
    BY <1>17 DEF BaseFails, CreationHangs, UseFreed, driverVars, MeasureInv
<1>18. ASSUME NEW t \in Opens, OpenFailedReady(t) PROVE MeasureInv'
    BY <1>18 DEF OpenFailedReady, FailOpen, Fail, MeasureInv
<1>4. CASE DispatchReport
    <2>1. UNCHANGED <<sensor, type, turn, heard>> /\ reports' = Tail(reports) /\ reports # <<>>
        BY <1>4 DEF DispatchReport, Deliver
    <2> QED
        BY <2>1, QueueType DEF MeasureInv
<1>5. CASE EmitSignal
    BY <1>5 DEF EmitSignal, apiVars, MeasureInv, HandlerInv, NoneDue
<1>6. CASE ReleaseClient
    BY <1>6, EnqueueType DEF ReleaseClient, Release, driverVars, MeasureInv
<1>7. ASSUME NEW t \in Closes, CloseReady(t) PROVE MeasureInv'
    BY <1>7 DEF CloseReady, ReturnClose, FailClose, Fail, MeasureInv
<1>8. CASE Act /\ UNCHANGED driverVars
    BY <1>8 DEF Act, driverVars, MeasureInv
<1>9. ASSUME NEW r, Stream(r), r \in Readings[type] \cup {Config}, type \in Types, UNCHANGED driverVars
      PROVE  MeasureInv'
    <2>1. UNCHANGED <<sensor, type, turn, heard>> /\ reports' = Append(reports, r)
        BY <1>9 DEF Stream, driverVars
    <2>2. reports' \in Seq(Readings[type] \cup {Config})
        BY <1>9, <2>1, EnqueueType DEF MeasureInv
    <2> QED
        BY <1>9, <2>1, <2>2 DEF MeasureInv, Types
<1>10. ASSUME NEW d \in Types, CreateAs(d) PROVE MeasureInv'
    <2>1. reports = <<>>
        BY <1>10 DEF CreateAs, New, MeasureInv
    <2> QED
        BY <1>10, <2>1, EnqueueType DEF CreateAs, New, MeasureInv, Types
<1>11. ASSUME NEW t \in Opens, DriverOpen(t) PROVE MeasureInv'
    BY <1>11, OpensAre DEF OpenDriver, CallOpen, MeasureInv
<1>12. ASSUME NEW t \in Closes, DriverClose(t) PROVE MeasureInv'
    BY <1>12, ClosesAre DEF CloseDriver, CallClose, MeasureInv
<1>13. CASE LetGo /\ UNCHANGED driverVars
    BY <1>13 DEF LetGo, driverVars, MeasureInv
<1>14. CASE DspStep
    BY <1>8, <1>9, <1>14 DEF DspStep, DspStreams, DriversTypeOK
<1>15. CASE HostStep
    BY <1>2, <1>3, <1>4, <1>5, <1>6, <1>7, <1>15, <1>17, <1>18 DEF HostStep
<1>16. CASE ApplicationStep
    BY <1>10, <1>11, <1>12, <1>13, <1>16, CreationsAre DEF ApplicationStep
<1> QED
    BY <1>1, <1>2, <1>14, <1>15, <1>16 DEF DriversNext

\* The invariant.
LEMMA MeasureInvariant == DriversSpec => []MeasureInv
BY MeasureInit, MeasureStep, HandlerInvariant, DriversTyped, PTL DEF DriversSpec

\* Whether an application is to hear of a report is the driver's decision, and
\* so is what it hears.
Tells(r) == Measured!Wanted(r) /\ (type = "proximity" => ~reported_once \/ near # r.value)

\* A driver decides as SSCMeasurements does.
LEMMA DriverTells ==
    ASSUME DriversTypeOK, type \in Types, NEW r \in Readings[type], DriverReport(r)
    PROVE  /\ idle' = IF Tells(r) THEN Append(idle, Measured!Value(r)) ELSE idle
           /\ IF type = "proximity" /\ Tells(r) THEN near' = r.value /\ reported_once'
              ELSE UNCHANGED proximityVars
<1> USE DEF Tells, Measured!Wanted, Measured!Value, Measured!Needed, Queue, proximityVars
<1>1. r \in Measurements /\ r \in Reading /\ r.value \in Int
    BY ReadingsAreReports, ValueType, DriversAssumption DEF DriversTypeOK
<1>2. CASE AccelerometerReport(r)
    BY <1>1, <1>2 DEF AccelerometerReport, Mounted
<1>3. CASE GyroscopeReport(r)
    BY <1>1, <1>3 DEF GyroscopeReport
<1>4. CASE MagnetometerReport(r)
    BY <1>1, <1>4 DEF MagnetometerReport
<1>5. CASE LightReport(r)
    BY <1>1, <1>5 DEF LightReport
<1>6. CASE CompassReport(r)
    <2>1. type = "rotv" /\ r.value \in -180..180
        BY <1>6, DriversAssumption DEF CompassReport
    <2>2. Azimuth(r.value) = r.value % 360
        BY <2>1 DEF Azimuth
    <2> QED
        BY <1>1, <1>6, <2>2 DEF CompassReport
<1>7. CASE ProximityReport(r)
    <2>1. type = "proximity" /\ Measured!Value(r) = r.value
        BY <1>7 DEF ProximityReport
    <2>2. Tells(r) <=> ProximityUnpacks(r) /\ (near # r.value \/ ~reported_once)
        BY <1>1, <2>1 DEF ProximityUnpacks
    <2> HIDE DEF Tells
    <2> QED
        BY <1>7, <2>1, <2>2 DEF ProximityReport
<1> QED
    BY <1>2, <1>3, <1>4, <1>5, <1>6, <1>7 DEF DriverReport

\* A step that is none of the application's: what it hears, and whether it
\* listens, stays.
LEMMA MeasuredStutters ==
    ASSUME UNCHANGED <<type, reports, handlers, reported_once, near, idle, heard>>,
           (handlers # {} /\ sensor = "ready") <=> (handlers # {} /\ sensor' = "ready")
    PROVE  UNCHANGED Measured!vars
BY DEF Measured!vars

\* A report dispatched is taken.
LEMMA MeasuredTake ==
    ASSUME DriversTypeOK, HandlerInv, MeasureInv, DispatchReport
    PROVE  Measured!Take
<1> DEFINE r == Head(reports)
           last == IF type = "proximity" /\ reported_once /\ handlers # {} /\ sensor = "ready"
                   THEN near ELSE NoValue
<1>1. /\ reports # <<>> /\ reports' = Tail(reports)
      /\ UNCHANGED <<sensor, type, heard, handlers>>
    BY DEF DispatchReport, Deliver, handlerVars, heardVars
<1>2. type \in Types /\ r \in Readings[type] \cup {Config}
    <2>1. type \in Types /\ reports \in Seq(Readings[type] \cup {Config})
        BY <1>1 DEF MeasureInv, DriversTypeOK
    <2> QED
        BY <1>1, <2>1, QueueType
<1>3. CASE handlers # {} /\ r # Config
    <2>1. sensor = "ready" /\ r \in Readings[type] /\ DriverReport(r)
        BY <1>1, <1>2, <1>3, HandledMeansReady DEF HandlerInv, DispatchReport
    <2>2. r \in Reading /\ r.value \in Int /\ NoValue \notin Int
        BY <1>2, <2>1, ReadingsAreReports, ValueType, DriversAssumption
    <2>3. type = "proximity" => Measured!Value(r) = r.value
        BY DEF Measured!Value
    <2>4. Tells(r) <=> Measured!Wanted(r) /\ (type = "proximity" => Measured!Value(r) # last)
        BY <1>3, <2>1, <2>2, <2>3 DEF Tells
    <2>5. /\ idle' = IF Tells(r) THEN Append(idle, Measured!Value(r)) ELSE idle
          /\ IF type = "proximity" /\ Tells(r) THEN near' = r.value /\ reported_once'
             ELSE UNCHANGED proximityVars
        BY <1>2, <2>1, DriverTells
    <2>6. last' = IF Tells(r) /\ type = "proximity" THEN Measured!Value(r) ELSE last
        BY <1>1, <1>3, <2>1, <2>3, <2>5 DEF proximityVars
    <2>7. CASE Tells(r)
        BY <1>1, <1>3, <2>1, <2>4, <2>5, <2>6, <2>7 DEF Measured!Take
    <2>8. CASE ~Tells(r)
        BY <1>1, <1>3, <2>1, <2>4, <2>5, <2>6, <2>8 DEF Measured!Take
    <2> QED
        BY <2>7, <2>8
<1>4. CASE ~(handlers # {} /\ r # Config)
    <2>1. UNCHANGED <<near, reported_once, idle>>
        BY <1>1, <1>4 DEF DispatchReport, proximityVars
    <2>2. ~(handlers # {} /\ sensor = "ready" /\ Measured!Wanted(r))
        BY <1>4, ReadingsAreReports DEF Measured!Wanted
    <2> QED
        BY <1>1, <2>1, <2>2 DEF Measured!Take
<1> QED
    BY <1>3, <1>4

\* An open forgets what was heard before.
LEMMA MeasuredOpen ==
    ASSUME HandlerInv, MeasureInv, NEW t \in Opens, DriverOpen(t)
    PROVE  [Measured!Next]_(Measured!vars)
<1>1. OpenDriver(t) /\ type \in Types
      /\ reported_once' = IF type = "proximity" THEN FALSE ELSE reported_once
    BY OpensAre
<1>2. /\ t \in handlers' /\ heard' = NoValue
      /\ UNCHANGED <<type, reports, near, idle, sensor>> /\ sensor \in {"ready", "unusable"}
    BY <1>1 DEF OpenDriver, StartListening, CallOpen
<1>3. CASE sensor = "ready"
    BY <1>1, <1>2, <1>3 DEF Measured!Next, Measured!Open
<1>4. CASE sensor = "unusable"
    BY <1>1, <1>2, <1>4 DEF MeasureInv, Measured!vars
<1> QED
    BY <1>2, <1>3, <1>4

\* A close ends the listening at once.
LEMMA MeasuredClose ==
    ASSUME HandlerInv, NEW t \in Closes, DriverClose(t)
    PROVE  Measured!Close
<1>1. CloseDriver(t)
    BY ClosesAre
<1>2. handlers' = {}
    BY <1>1 DEF CloseDriver, StopListening, HandlerInv, OneHandler
<1>3. UNCHANGED <<type, reports, near, reported_once, idle, heard>>
    BY <1>1 DEF CloseDriver, CallClose, proximityVars, heardVars
<1> QED
    BY <1>2, <1>3 DEF Measured!Close

\* Every step maps to one of SSCMeasurements.
LEMMA MeasuredStep ==
    ASSUME DriversTypeOK, HandlerInv, MeasureInv, [DriversNext]_driversVars
    PROVE  [Measured!Next]_(Measured!vars)
<1> USE DEF driverVars, handlerVars, proximityVars, heardVars
<1>1. CASE UNCHANGED driversVars
    BY <1>1 DEF driversVars, apiVars, Measured!vars
<1>2. CASE HandlerStops \/ EmitStops \/ ProcessEnds
    BY <1>2, MeasuredStutters DEF HandlerStops, EmitStops, ProcessEnds, apiVars
<1>3. ASSUME NEW t \in Opens, RefusedReady(t) \/ OpenFailedReady(t) PROVE UNCHANGED Measured!vars
    BY <1>3, MeasuredStutters DEF RefusedReady, OpenFailedReady, FailOpen, Fail, apiVars
<1>18. CASE BaseFails
    BY <1>18, MeasuredStutters DEF BaseFails, CreationHangs, UseFreed
<1>4. CASE NewFinish
    <2>1. handlers = {} /\ handlers' = {}
        BY <1>4 DEF NewFinish, Created, MeasureInv, HandlerInv, OneHandler
    <2> QED
        BY <1>4, <2>1 DEF NewFinish, Created, Measured!vars
<1>5. CASE DispatchReport
    BY <1>5, MeasuredTake DEF Measured!Next
<1>6. CASE EmitSignal
    <2>1. sensor = "ready"
        BY <1>6 DEF EmitSignal, HandlerInv, NoneDue
    <2> QED
        BY <1>6, <2>1 DEF EmitSignal, apiVars, Measured!Next, Measured!Hear
<1>7. CASE ReleaseClient
    BY <1>7 DEF ReleaseClient, Release, Measured!Next, Measured!Release
<1>8. ASSUME NEW t \in Closes, CloseReady(t) PROVE UNCHANGED Measured!vars
    BY <1>8, MeasuredStutters DEF CloseReady, ReturnClose, FailClose, Fail
<1>9. CASE Act /\ UNCHANGED driverVars
    BY <1>9, MeasuredStutters DEF Act
<1>10. ASSUME NEW r \in Measurements \cup {Config}, Stream(r), UNCHANGED driverVars PROVE Measured!Arrive
    BY <1>10 DEF Stream, Config, Measured!Arrive
<1>11. ASSUME NEW d \in Types, CreateAs(d) PROVE Measured!Create
    <2>1. type = "none" /\ handlers = {}
        BY <1>11 DEF CreateAs, New, MeasureInv, HandlerInv, OneHandler
    <2> QED
        BY <1>11, <2>1 DEF CreateAs, New, Measured!Create, Measured!Types, Measured!Needed, Types
<1>12. ASSUME NEW t \in Opens, DriverOpen(t) PROVE [Measured!Next]_(Measured!vars)
    BY <1>12, MeasuredOpen
<1>13. ASSUME NEW t \in Closes, DriverClose(t) PROVE Measured!Next
    BY <1>13, MeasuredClose DEF Measured!Next
<1>14. CASE LetGo /\ UNCHANGED driverVars
    BY <1>14 DEF LetGo, Measured!Next, Measured!Close
<1>15. CASE DspStep
    <2>1. type \in Types => Readings[type] \subseteq Measurements
        BY ReadingsAreReports
    <2> QED
        BY <1>9, <1>10, <1>15, <2>1 DEF DspStep, DspStreams, DriversTypeOK, Measured!Next
<1>16. CASE HostStep
    BY <1>2, <1>3, <1>4, <1>5, <1>6, <1>7, <1>8, <1>16, <1>18 DEF HostStep
<1>17. CASE ApplicationStep
    BY <1>11, <1>12, <1>13, <1>14, <1>17, CreationsAre DEF ApplicationStep, Measured!Next
<1> QED
    BY <1>1, <1>2, <1>15, <1>16, <1>17 DEF DriversNext

\* For every mounting, every set of readings and any number of opens and
\* closes an application hears what SSCMeasurements says: each report between
\* an open and the next close, once, in order and in its units, unless the
\* report says too little or a proximity sensor nothing new.
THEOREM HearsWhatIsMeasured == DriversSpec => MeasurementsHeard
<1>1. DriversInit => Measured!Init
    BY DEF DriversInit, ApiInit, Measured!Init
<1> QED
    BY <1>1, MeasuredStep, MeasureInvariant, HandlerInvariant, DriversTyped, PTL
    DEF DriversSpec, MeasurementsHeard, Measured!Spec

============================================================================
