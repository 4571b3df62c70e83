-------------------------- MODULE SSCSensorDrivers --------------------------
(***************************************************************************)
(* The six sensor drivers (src/src/libssc-sensor-*.c), each a subclass of  *)
(* SSCSensor with a handler of its own on the client's "report" signal:    *)
(* connected before the base class opens, called before the base class's   *)
(* on every report, disconnected before the base class closes.  What it    *)
(* makes of a report is emitted later as "measurement", from an idle       *)
(* callback.                                                               *)
(*                                                                         *)
(* The base class and the DSP are those of SSCSensorApi, an action of      *)
(* which is part of every action here.                                     *)
(***************************************************************************)
EXTENDS SSCSensorApi, Integers

CONSTANTS
    Readings,   \* what the DSP may measure, for each data type
    Mount,      \* the mount matrix along one axis
    NoCall,     \* "no call": a report_id of 0
    NoValue     \* no measurement

Types == {"accel", "gyro", "mag", "ambient_light", "rotv", "proximity"}

\* A measurement report: the id of its message, how many values it holds,
\* none if it does not unpack, and the value that matters.
Reading == [kind : {"measurement"}, id : {769, 1025}, values : Nat, value : Int]

ASSUME DriversAssumption ==
    /\ Measurements \subseteq Reading
    /\ Readings \in [Types -> SUBSET Measurements]
    /\ \A r \in Readings["rotv"] : r.value \in -180..180
    /\ Mount \in Int
    /\ NoCall \notin Opens
    /\ NoValue \notin Int

VARIABLES
    type,           \* SSC_SENSOR_DATA_TYPE, which stands for the driver
    done,           \* the status of the driver's GTask of every call
    handlers,       \* opens whose handler is connected to "report"
    report_id,      \* priv->report_id, named by the open that connected it
    client_refs,    \* references of the client taken and not dropped
    near,           \* priv->near, of a proximity sensor
    reported_once,  \* priv->reported_once, of a proximity sensor
    idle,           \* measurements for which an idle callback is queued
    leftover,       \* how many of them are of reports before the last open
    heard,          \* the last one the application heard since it opened
    fresh,          \* and it is of a report since then
    turn,           \* what the application did last: "close" or "open"
    stop            \* why the process stopped, "no" while it runs

handlerVars == <<handlers, report_id, client_refs>>
proximityVars == <<near, reported_once>>
heardVars == <<leftover, heard, fresh>>
driverVars == <<type, done, handlerVars, proximityVars, idle, heardVars, turn, stop>>
driversVars == <<apiVars, driverVars>>

DriversTypeOK ==
    /\ ApiTypeOK
    /\ type \in Types \cup {"none"}
    /\ done \in [Calls -> {"unused", "pending", "true", "error"}]
    /\ handlers \subseteq Opens
    /\ report_id \in Opens \cup {NoCall}
    /\ client_refs \in Nat
    /\ near \in {0, 1} /\ reported_once \in BOOLEAN
    /\ idle \in Seq(Int)
    /\ leftover \in 0..Len(idle)
    /\ heard \in Int \cup {NoValue}
    /\ fresh \in BOOLEAN
    /\ turn \in {"open", "close"}
    /\ stop \in {"no", "assert", "stale_report", "stale_idle", "exit"}

DriversInit ==
    /\ ApiInit
    /\ type = "none"
    /\ done = [t \in Calls |-> "unused"]
    /\ handlers = {} /\ report_id = NoCall /\ client_refs = 0
    /\ near = 0 /\ reported_once = FALSE
    /\ idle = <<>> /\ leftover = 0 /\ heard = NoValue /\ fresh = FALSE
    /\ turn = "close" /\ stop = "no"

-----------------------------------------------------------------------------
(* Creation *)

CreateAs(data_type) ==
    /\ New
    /\ type' = data_type
    /\ UNCHANGED <<done, handlerVars, proximityVars, idle, heardVars, turn, stop>>

AccelerometerNew == CreateAs("accel")
GyroscopeNew     == CreateAs("gyro")
MagnetometerNew  == CreateAs("mag")
LightNew         == CreateAs("ambient_light")
CompassNew       == CreateAs("rotv")
ProximityNew     == CreateAs("proximity")

DriverNew ==
    \/ AccelerometerNew \/ GyroscopeNew \/ MagnetometerNew
    \/ LightNew \/ CompassNew \/ ProximityNew

\* *_new_finish; that of a proximity sensor, if there is one, has it report
\* changes only.
NewFinish ==
    /\ Created
    /\ reported_once' = (reported_once \/ (type = "proximity" /\ sensor' # "failed"))
    /\ UNCHANGED <<type, done, handlerVars, near, idle, heardVars, turn, stop>>

-----------------------------------------------------------------------------
(* Opening *)

\* g_object_get (SSC_SENSOR_CLIENT) gives a reference that nobody drops.
GetClient == client_refs' = client_refs + 1

\* "Start listening for reports before opening sensor so we don't miss the
\* first measurement"
StartListening(t) == GetClient /\ handlers' = handlers \cup {t} /\ report_id' = t

\* The driver's handler, its task, and the open of the base class.  heard,
\* turn and what tells old measurements from new are the application's.
OpenDriver(t) ==
    /\ StartListening(t)
    /\ done' = [done EXCEPT ![t] = "pending"]
    /\ CallOpen(t)
    /\ leftover' = Len(idle) /\ heard' = NoValue /\ fresh' = FALSE /\ turn' = "open"
    /\ UNCHANGED <<type, near, idle, stop>>

AccelerometerOpen(t) == type = "accel" /\ OpenDriver(t) /\ UNCHANGED reported_once
GyroscopeOpen(t)     == type = "gyro" /\ OpenDriver(t) /\ UNCHANGED reported_once
MagnetometerOpen(t)  == type = "mag" /\ OpenDriver(t) /\ UNCHANGED reported_once
LightOpen(t)         == type = "ambient_light" /\ OpenDriver(t) /\ UNCHANGED reported_once
CompassOpen(t)       == type = "rotv" /\ OpenDriver(t) /\ UNCHANGED reported_once

\* (mutant: an open does not ask for a first report)
ProximityOpenSilent(t) == type = "proximity" /\ OpenDriver(t) /\ UNCHANGED reported_once
ProximityOpen(t) == type = "proximity" /\ OpenDriver(t) /\ reported_once' = FALSE

DriverOpen(t) ==
    \/ AccelerometerOpen(t) \/ GyroscopeOpen(t) \/ MagnetometerOpen(t)
    \/ LightOpen(t) \/ CompassOpen(t) \/ ProximityOpen(t)

-----------------------------------------------------------------------------
(* Closing *)

\* "Stop listening for reports", if there ever was a handler: report_id is
\* not cleared, and disconnecting it again has no effect.
\* (mutant: the handler of a pending open is left connected)
StopWhenOpened ==
    /\ GetClient
    /\ handlers' = {t \in handlers : t # report_id \/ done[t] = "pending"}
    /\ UNCHANGED report_id
StopListening ==
    /\ GetClient
    /\ handlers' = handlers \ {report_id}
    /\ UNCHANGED report_id

CloseDriver(t) ==
    /\ StopListening
    /\ done' = [done EXCEPT ![t] = "pending"]
    /\ CallClose(t)
    /\ turn' = "close"
    /\ UNCHANGED <<type, proximityVars, idle, heardVars, stop>>

AccelerometerClose(t) == type = "accel" /\ CloseDriver(t)
GyroscopeClose(t)     == type = "gyro" /\ CloseDriver(t)
MagnetometerClose(t)  == type = "mag" /\ CloseDriver(t)
LightClose(t)         == type = "ambient_light" /\ CloseDriver(t)
CompassClose(t)       == type = "rotv" /\ CloseDriver(t)
ProximityClose(t)     == type = "proximity" /\ CloseDriver(t)

DriverClose(t) ==
    \/ AccelerometerClose(t) \/ GyroscopeClose(t) \/ MagnetometerClose(t)
    \/ LightClose(t) \/ CompassClose(t) \/ ProximityClose(t)

-----------------------------------------------------------------------------
(* Reports: the driver's report_received *)

\* g_idle_add_full (emit_signal) if the report says enough.
Queue(enough, value) == idle' = IF enough THEN Append(idle, value) ELSE idle

Mounted(v) == Mount * v

AccelerometerReport(r) ==
    /\ type = "accel"
    /\ Queue(r.id = 1025 /\ r.values >= 3, Mounted(r.value))
    /\ UNCHANGED proximityVars

GyroscopeReport(r) ==
    /\ type = "gyro"
    /\ Queue(r.id = 1025 /\ r.values >= 3, r.value)
    /\ UNCHANGED proximityVars

MagnetometerReport(r) ==
    /\ type = "mag"
    /\ Queue(r.id = 1025 /\ r.values >= 3, r.value)
    /\ UNCHANGED proximityVars

\* (mutant: zero and negative light are told as well)
LightReportAny(r) ==
    /\ type = "ambient_light"
    /\ Queue(r.id = 1025 /\ r.values >= 1, r.value)
    /\ UNCHANGED proximityVars
LightReport(r) ==
    /\ type = "ambient_light"
    /\ Queue(r.id = 1025 /\ r.values >= 1 /\ r.value >= 0, r.value)
    /\ UNCHANGED proximityVars

\* atan2 gives -180..180.
Azimuth(angle) == IF angle < 0 THEN angle + 360 ELSE angle

CompassReport(r) ==
    /\ type = "rotv"
    /\ Queue(r.id = 1025 /\ r.values >= 4, Azimuth(r.value))
    /\ UNCHANGED proximityVars

\* It unpacks, and the payload of message 1025 has the length of the struct.
ProximityUnpacks(r) == r.values = 1

\* g_assert_not_reached: neither near nor far.
\* (mutant: any value is taken)
ProximityTakesAny(r) == FALSE
ProximityUnreachable(r) ==
    type = "proximity" /\ r # Config /\ ProximityUnpacks(r) /\ r.value \notin {0, 1}

\* Only changes are told, and the first value after an open.
ProximityReport(r) ==
    /\ type = "proximity"
    /\ LET news == ProximityUnpacks(r) /\ (near # r.value \/ ~reported_once) IN
       /\ Queue(news, r.value)
       /\ IF news THEN near' = r.value /\ reported_once' = TRUE
          ELSE UNCHANGED proximityVars

DriverReport(r) ==
    \/ AccelerometerReport(r) \/ GyroscopeReport(r) \/ MagnetometerReport(r)
    \/ LightReport(r) \/ CompassReport(r) \/ ProximityReport(r)

\* The driver's task ends as that of the base class did.
\* (mutant: only a success is passed on)
EndedWell(t, status) ==
    IF status = "true" THEN done' = [done EXCEPT ![t] = "true"] ELSE UNCHANGED done
Ended(t, status) ==
    done' = [done EXCEPT ![t] = IF status = "true" THEN "true" ELSE "error"]

\* handle_report, with handlers in the order they were connected: the driver's
\* first, then that of the base class, whose return is passed on at once.
DispatchReport ==
    LET r == IF reports # <<>> THEN Head(reports) ELSE Config IN
    /\ handlers # {} => sensor # "gone" /\ ~ProximityUnreachable(r)
    /\ Deliver
    /\ IF handlers # {} /\ r # Config THEN DriverReport(r)
       ELSE UNCHANGED <<proximityVars, idle>>
    /\ done' = [t \in Calls |->
                  IF done[t] = "pending" /\ call'[t] = "true" THEN "true" ELSE done[t]]
    /\ UNCHANGED <<type, handlerVars, heardVars, turn, stop>>

\* The driver's handler stops the process: it finds its sensor freed (which a
\* handler still connected does not prevent), or an unknown proximity.
HandlerStops ==
    /\ reports # <<>> /\ handlers # {}
    /\ \/ sensor = "gone" /\ stop' = "stale_report"
       \/ sensor # "gone" /\ ProximityUnreachable(Head(reports)) /\ stop' = "assert"
    /\ UNCHANGED <<apiVars, type, done, handlerVars, proximityVars, idle, heardVars, turn>>

\* emit_signal.
EmitSignal ==
    /\ sensor # "gone" /\ idle # <<>>
    /\ idle' = Tail(idle) /\ heard' = Head(idle)
    /\ leftover' = IF leftover = 0 THEN 0 ELSE leftover - 1
    /\ fresh' = (leftover = 0)
    /\ UNCHANGED <<apiVars, type, done, handlerVars, proximityVars, turn, stop>>

\* The queued callback holds no reference of the sensor: the same for a sensor
\* that was freed.
EmitStops ==
    /\ sensor = "gone" /\ idle # <<>>
    /\ stop' = "stale_idle"
    /\ UNCHANGED <<apiVars, type, done, handlerVars, proximityVars, idle, heardVars, turn>>

-----------------------------------------------------------------------------
(* Returns *)

\* *_open_ready, for an open the base class refused: an error returned before
\* the call came back is delivered from the main loop.
RefusedReady(t) ==
    /\ done[t] = "pending" /\ call[t] = "refused"
    /\ Ended(t, "refused")
    /\ UNCHANGED <<apiVars, type, handlerVars, proximityVars, idle, heardVars, turn, stop>>

\* *_open_ready, for an open whose request failed; the handler stays.
OpenFailedReady(t) ==
    /\ FailOpen(t) /\ Ended(t, "failed")
    /\ UNCHANGED <<type, handlerVars, proximityVars, idle, heardVars, turn, stop>>

\* *_close_ready, whatever idle callbacks are queued.
CloseReady(t) ==
    /\ \/ ReturnClose(t) /\ Ended(t, "true")
       \/ FailClose(t) /\ Ended(t, "failed")
    /\ UNCHANGED <<type, handlerVars, proximityVars, idle, heardVars, turn, stop>>

\* The client goes with its last reference.
ReleaseClient ==
    /\ client_refs = 0
    /\ Release
    /\ UNCHANGED driverVars

-----------------------------------------------------------------------------
\* What an application hears is what SSCMeasurements says.
Measured == INSTANCE SSCMeasurements WITH
    listening <- handlers # {} /\ sensor = "ready",
    last <- IF type = "proximity" /\ reported_once /\ handlers # {} /\ sensor = "ready"
            THEN near ELSE NoValue,
    due <- idle
MeasurementsHeard == Measured!Spec

\* The base class alone, where what becomes of the report found does not
\* matter any more.
BaseFails ==
    /\ CreationHangs \/ (UNCHANGED reports /\ UseFreed)
    /\ UNCHANGED driverVars

HostStep ==
    \/ NewFinish \/ BaseFails \/ ReleaseClient
    \/ DispatchReport \/ HandlerStops \/ EmitSignal \/ EmitStops
    \/ \E t \in Opens : RefusedReady(t) \/ OpenFailedReady(t)
    \/ \E t \in Closes : CloseReady(t)

DspStreams(readings) ==
    /\ type # "none" /\ Len(reports) + Len(idle) < MaxInFlight
    /\ \E r \in readings : Stream(r)
    /\ UNCHANGED driverVars

DspStep ==
    \/ Act /\ UNCHANGED driverVars
    \/ DspStreams({Config})
    \/ DspStreams(Readings[type])

\* An application opens and closes in turn, and waits for its calls before it
\* opens again; it may close at any time, more than once, and lets go of a
\* sensor it has closed or whose last open has failed.
Idle == \A t \in Calls : done[t] # "pending"
NotOpen == turn = "close" \/ (report_id # NoCall /\ done[report_id] = "error")
ApplicationStep ==
    \/ DriverNew
    \/ turn = "close" /\ Idle /\ \E t \in Opens : DriverOpen(t)
    \/ \E t \in Closes : DriverClose(t)
    \/ /\ Idle /\ NotOpen
       /\ LetGo
       /\ UNCHANGED driverVars

\* The process may end at any time, and with it all its callbacks.
ProcessEnds ==
    /\ stop' = "exit"
    /\ UNCHANGED <<apiVars, type, done, handlerVars, proximityVars, idle, heardVars, turn>>

Running == ~halt /\ stop = "no"

DriversNext == Running /\ (HostStep \/ DspStep \/ ApplicationStep \/ ProcessEnds)

DriversSpec == DriversInit /\ [][DriversNext]_driversVars

\* The fairness of SSCSensorApi, of idle callbacks and of the client's
\* disposal; and a sensor that streams measures now and then.
DriversFairness ==
    /\ WF_driversVars(Running /\ NewFinish)
    /\ WF_driversVars(Running /\ (DispatchReport \/ HandlerStops))
    /\ WF_driversVars(Running /\ (EmitSignal \/ EmitStops))
    /\ WF_driversVars(Running /\ ReleaseClient)
    /\ \A t \in Opens : WF_driversVars(Running /\ RefusedReady(t))
    /\ \A t \in Closes : WF_driversVars(Running /\ CloseReady(t))
    /\ WF_driversVars(Running /\ Act /\ UNCHANGED driverVars)
    /\ SF_driversVars(Running /\ DspStreams({r \in Readings[type] : Measured!Wanted(r)}))

-----------------------------------------------------------------------------
(* Properties *)

\* Open and close balance, whatever reports, closes, failures and late returns
\* come in between: from the call of an open to the next close exactly one
\* handler is connected, that of the open, and otherwise none; so a report
\* finds a freed sensor only where the request of an open has failed, whose
\* handler nobody disconnects (the idle callbacks are another matter).
HandlerDiscipline ==
    /\ handlers = IF turn = "open" THEN {report_id} ELSE {}
    /\ stop = "stale_report" => stale

\* "Start listening for reports before opening sensor": and yet no report of
\* this opening is heard of before the open that asked for it has returned,
\* although the handler sees the report first, and although idle callbacks of
\* an earlier opening may still be queued when it is called.
NothingBeforeOpenReturns ==
    fresh => \A t \in Opens : done[t] # "pending"

\* "Race condition if the sensor is rapidly probed by opening and closing it"
\* is fixed (CHANGELOG.md:119): no idle callback finds a freed sensor.
NoFreedSensorUsed == stop # "stale_idle"

\* A driver passes on every end of the base class: one of its calls hangs
\* only if that of the base class does.
ReturnsPassedOn ==
    \A t \in Calls : <>[](Running /\ done[t] = "pending") => <>[](call[t] = "pending")

\* "Proximity sensor will always output a measurement now when opened"
\* (CHANGELOG.md:107), and so do the others: each open that succeeded is
\* followed by a measurement of this opening, unless the sensor is closed
\* first.
OutputsWhenOpened ==
    \A t \in Opens :
        (report_id = t /\ done[t] = "true" /\ turn = "open") ~>
            (fresh \/ turn = "close" \/ ~Running)

\* Letting go of a sensor ends with its client released.
DriverClientReleased == sensor = "gone" ~> (released \/ ~Running)

=============================================================================
