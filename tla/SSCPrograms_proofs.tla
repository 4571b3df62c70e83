------------------------- MODULE SSCPrograms_proofs -------------------------
(***************************************************************************)
(* Theorems about SSCPrograms: ssccli is one of the applications the       *)
(* theorems about drivers are for, and leaves the sensor as it found it.   *)
(***************************************************************************)
EXTENDS SSCPrograms, SSCSensorDrivers_proofs

\* What ssccli has called, and what the DSP is yet to see of it, wherever main
\* is.
Disabled == ops = <<CliClose>> \/ (ops = <<>> /\ ~streaming)

NotOpened ==
    /\ turn = "close" /\ ops = <<>> /\ ~streaming
    /\ \A t \in Calls : call[t] = "unused" /\ done[t] = "unused"

NotClosed ==
    /\ call[CliClose] = "unused" /\ done[CliClose] = "unused"
    /\ ops \in {<<>>, <<CliOpen>>}

Opening ==
    /\ done[CliOpen] # "unused"
    /\ call[CliOpen] = "refused" \/ (done[CliOpen] = "error" /\ call[CliOpen] # "failed")
          => ops = <<>> /\ ~streaming

Closing ==
    /\ done[CliClose] # "unused"
    /\ call[CliClose] = "pending" <=> done[CliClose] = "pending"
    /\ done[CliClose] = "pending" => ops = <<CliOpen, CliClose>> \/ Disabled
    /\ done[CliClose] \notin {"pending", "error"} => Disabled

CliInv ==
    /\ pc \in {"other", "options", "new_sync", "open_sync", "main_loop", "close_sync", "exit"}
    /\ pc # "other" => sensor # "gone"
    /\ pc \in {"options", "new_sync"} => NotOpened
    /\ pc \in {"open_sync", "main_loop"} => NotClosed
    /\ pc = "open_sync" => Opening
    /\ pc = "close_sync" => Closing
    /\ pc = "exit" => stop = "exit"
    /\ SensorLeftDisabled

\* The calls of ssccli are calls.
LEMMA CliCalls ==
    /\ CliOpen \in Opens /\ CliOpen \in Calls /\ CliOpen \notin Closes
    /\ CliClose \in Closes /\ CliClose \in Calls /\ CliClose \notin Opens
    /\ CliOpen # CliClose
BY ProgramsAssumption, ApiAssumption DEF CliOpen, CliClose, Calls

\* One call after the other.
LEMMA Pairs == ASSUME NEW a, NEW b PROVE Append(<<a>>, b) = <<a, b>>
<1>1. <<a>> \in Seq({a, b}) /\ <<a, b>> \in Seq({a, b})
    OBVIOUS
<1>2. Append(<<a>>, b) \in Seq({a, b}) /\ Len(Append(<<a>>, b)) = 2
    BY <1>1, AppendProperties
<1>3. Append(<<a>>, b)[1] = a /\ Append(<<a>>, b)[2] = b
    BY <1>1, AppendProperties
<1>4. \A i \in 1 .. 2 : Append(<<a>>, b)[i] = <<a, b>>[i]
    BY <1>3
<1>5. Len(<<a, b>>) = 2
    OBVIOUS
<1> QED
    BY <1>1, <1>2, <1>4, <1>5, SeqEqual

\* Taking the first of one or two away leaves the other.
LEMMA Singles ==
    ASSUME NEW a, NEW b
    PROVE  RemoveAt(<<a>>, 1) = <<>> /\ RemoveAt(<<a, b>>, 1) = <<b>>
<1>1. /\ <<a>> \in Seq({a, b}) /\ <<a, b>> \in Seq({a, b}) /\ <<b>> \in Seq({a, b})
      /\ Len(<<a>>) = 1 /\ Len(<<a, b>>) = 2 /\ Len(<<b>>) = 1
    OBVIOUS
<1>2. SubSeq(<<a>>, 1, 0) = <<>> /\ SubSeq(<<a>>, 2, 1) = <<>> /\ SubSeq(<<a, b>>, 1, 0) = <<>>
    BY <1>1, SubSeqProperties, EmptySeq
<1>3. SubSeq(<<a, b>>, 2, 2) \in Seq({a, b}) /\ Len(SubSeq(<<a, b>>, 2, 2)) = 1
      /\ SubSeq(<<a, b>>, 2, 2)[1] = b
    BY <1>1, SubSeqProperties
<1>4. SubSeq(<<a, b>>, 2, 2) = <<b>>
    BY <1>1, <1>3, SeqEqual, \A i \in 1..1 : i = 1 /\ SubSeq(<<a, b>>, 2, 2)[i] = <<b>>[i]
<1>5. <<>> \o <<>> = <<>> /\ <<>> \o <<b>> = <<b>>
    BY <1>1, ConcatEmptySeq, EmptySeq
<1>6. RemoveAt(<<a>>, 1) = SubSeq(<<a>>, 1, 0) \o SubSeq(<<a>>, 2, 1)
    BY <1>1 DEF RemoveAt
<1>7. RemoveAt(<<a, b>>, 1) = SubSeq(<<a, b>>, 1, 0) \o SubSeq(<<a, b>>, 2, 2)
    BY <1>1 DEF RemoveAt
<1>8. RemoveAt(<<a>>, 1) = <<>>
    BY ONLY <1>2, <1>5, <1>6
<1>9. RemoveAt(<<a, b>>, 1) = <<b>>
    BY ONLY <1>2, <1>4, <1>5, <1>7
<1> QED
    BY <1>8, <1>9

-----------------------------------------------------------------------------
(* ssccli is an application of a driver *)

\* Its steps are those of an application that opens what it has not opened.
LEMMA ProgramStep ==
    ASSUME CliInv, [Next]_vars PROVE [DriversNext]_driversVars
<1> SUFFICES ASSUME Next PROVE DriversNext \/ UNCHANGED driversVars
    BY DEF vars
<1>1. CASE HostStep \/ DspStep \/ ApplicationStep
    BY <1>1 DEF Next, DriversNext
<1>2. CASE NothingToDo \/ InitFailed \/ OpenFailed \/ Closed
    BY <1>2 DEF NothingToDo, InitFailed, OpenFailed, Closed, Exit, Next, DriversNext
<1>3. CASE ChooseSensor
    BY <1>3 DEF ChooseSensor, ApplicationStep, Next, DriversNext
<1>4. CASE OpenSync
    BY <1>4, CliCalls DEF OpenSync, CliInv, NotOpened, Idle, ApplicationStep, Next, DriversNext
<1>5. CASE Opened
    BY <1>5 DEF Opened
<1>6. CASE TimeOut
    BY <1>6, CliCalls DEF TimeOut, ApplicationStep, Next, DriversNext
<1> QED
    BY <1>1, <1>2, <1>3, <1>4, <1>5, <1>6 DEF Next, Main

-----------------------------------------------------------------------------
(* ssccli leaves the sensor disabled *)

\* The initial state.
LEMMA CliInit == Init => CliInv
BY DEF Init, DriversInit, ApiInit, CliInv, NotOpened, SensorLeftDisabled

\* A step of main itself.
LEMMA CliMain == ASSUME DriversTypeOK, CliInv, Running, Main PROVE CliInv'
<1>1. CASE NothingToDo \/ InitFailed
    <2>1. ~streaming' /\ ops' = <<>> /\ sensor' = sensor /\ pc' = "exit" /\ pc # "other" /\ stop' = "exit"
        BY <1>1 DEF NothingToDo, InitFailed, Exit, ProcessEnds, apiVars, CliInv, NotOpened
    <2> QED
        BY <2>1 DEF CliInv, SensorLeftDisabled
<1>2. CASE ChooseSensor
    BY <1>2, CreationsAre DEF ChooseSensor, CreateAs, New, CliInv, NotOpened, SensorLeftDisabled
<1>3. CASE OpenSync
    <2>1. OpenDriver(CliOpen) /\ pc' = "open_sync" /\ pc = "new_sync" /\ NotOpened /\ sensor # "gone"
        BY <1>3, OpensAre DEF OpenSync, CliInv
    <2>2. done'[CliOpen] = "pending" /\ done'[CliClose] = "unused"
        BY <2>1, CliCalls, OthersWait DEF OpenDriver, NotOpened
    <2>3. /\ call'[CliClose] = "unused"
          /\ \/ call' = call /\ UNCHANGED ops
             \/ call'[CliOpen] = "refused" /\ UNCHANGED ops
             \/ call'[CliOpen] = "pending" /\ ops' = Append(ops, CliOpen)
          /\ UNCHANGED <<sensor, streaming>>
        BY <2>1, CliCalls, OtherCallsWait DEF OpenDriver, CallOpen, NotOpened
    <2>4. Opening' /\ NotClosed'
        BY <2>1, <2>2, <2>3, CliCalls DEF NotOpened, NotClosed, Opening
    <2> QED
        BY <2>1, <2>3, <2>4 DEF CliInv, SensorLeftDisabled
<1>4. CASE OpenFailed
    <2>1. done[CliOpen] \in {"unused", "pending", "true", "error"}
        BY CliCalls DEF DriversTypeOK
    <2> QED
        BY <1>4, <2>1 DEF OpenFailed, Exit, ProcessEnds, apiVars, Finished, CliInv, Opening, SensorLeftDisabled
<1>5. CASE Opened
    BY <1>5 DEF Opened, driversVars, apiVars, driverVars, CliInv, NotClosed, SensorLeftDisabled
<1>6. CASE TimeOut
    <2>1. CloseDriver(CliClose) /\ pc' = "close_sync" /\ pc = "main_loop" /\ NotClosed /\ sensor # "gone"
        BY <1>6, ClosesAre DEF TimeOut, CliInv
    <2>2. done'[CliClose] = "pending" /\ call'[CliClose] = "pending"
        BY <2>1, CliCalls, OthersWait, OtherCallsWait DEF CloseDriver, CallClose
    <2>3. ops' = Append(ops, CliClose) /\ sensor' = sensor
        BY <2>1 DEF CloseDriver, CallClose
    <2>4. ops' = <<CliOpen, CliClose>> \/ ops' = <<CliClose>>
        <3>1. CASE ops = <<>>
            BY <2>3, <3>1
        <3>2. CASE ops = <<CliOpen>>
            BY <2>3, <3>2, Pairs
        <3> QED
            BY <2>1, <3>1, <3>2 DEF NotClosed
    <2> QED
        BY <2>1, <2>2, <2>3, <2>4 DEF CliInv, Closing, Disabled, SensorLeftDisabled
<1>7. CASE Closed
    <2>1. done[CliClose] \in {"unused", "pending", "true", "error"}
        BY CliCalls DEF DriversTypeOK
    <2> QED
        BY <1>7, <2>1 DEF Closed, Exit, ProcessEnds, apiVars, Finished, CliInv, Closing, Disabled, SensorLeftDisabled
<1> QED
    BY <1>1, <1>2, <1>3, <1>4, <1>5, <1>6, <1>7 DEF Main

\* What the host does meanwhile.
LEMMA CliHost ==
    ASSUME DriversTypeOK, CliInv, Running, HostStep, UNCHANGED <<pc, code>>
    PROVE  CliInv'
<1> USE DEF Running, apiVars, CliInv, NotOpened, NotClosed, Opening, Closing, Disabled, SensorLeftDisabled
<1>1. CASE NewFinish
    BY <1>1 DEF NewFinish, Created
<1>2. CASE HandlerStops \/ EmitSignal \/ EmitStops
    BY <1>2 DEF HandlerStops, EmitSignal, EmitStops
<1>7. CASE BaseFails
    BY <1>7 DEF BaseFails, CreationHangs, UseFreed, driverVars
<1>3. CASE ReleaseClient
    BY <1>3 DEF ReleaseClient, Release
<1>4. CASE DispatchReport
    <2>1. UNCHANGED <<sensor, ops, streaming, turn>>
        BY <1>4 DEF DispatchReport, Deliver
    <2>2. call'[CliClose] = call[CliClose]
        BY <1>4, CliCalls DEF DispatchReport, Deliver, OpensConfirmed, PendingCalls
    <2>3. \A t \in Calls : call[t] # "pending" => call'[t] = call[t]
        BY <1>4 DEF DispatchReport, Deliver, OpensConfirmed, PendingCalls
    <2>4. \A t \in Calls : call[t] = "pending" => call'[t] \in {"pending", "true"}
        BY <1>4 DEF DispatchReport, Deliver, OpensConfirmed, PendingCalls
    <2>5. \A t \in Calls : done'[t] = IF done[t] = "pending" /\ call'[t] = "true" THEN "true" ELSE done[t]
        BY <1>4 DEF DispatchReport
    <2> QED
        BY <2>1, <2>2, <2>3, <2>4, <2>5, CliCalls
<1>5. ASSUME NEW t \in Opens, RefusedReady(t) PROVE CliInv'
    <2>1. done'[t] = "error" /\ \A u \in Calls \ {t} : done'[u] = done[u]
        BY <1>5, OthersWait DEF RefusedReady, Ended, Calls
    <2>2. UNCHANGED <<sensor, call, ops, streaming, turn>> /\ done[t] = "pending" /\ call[t] = "refused"
        BY <1>5 DEF RefusedReady
    <2>3. done'[CliClose] = done[CliClose] /\ (t # CliOpen => done'[CliOpen] = done[CliOpen])
        BY <2>1, CliCalls
    <2> QED
        BY <2>1, <2>2, <2>3, CliCalls DEF Calls
<1>8. ASSUME NEW t \in Opens, OpenFailedReady(t) PROVE CliInv'
    <2>1. t \in Calls /\ t # CliClose /\ Fail(t)
        BY <1>8, CliCalls DEF Calls, OpenFailedReady, FailOpen
    <2>2. done'[t] = "error" /\ \A u \in Calls \ {t} : done'[u] = done[u]
        BY <1>8, <2>1, OthersWait DEF OpenFailedReady, Ended
    <2>3. call[t] = "pending" /\ call'[t] = "failed" /\ \A u \in Calls \ {t} : call'[u] = call[u]
        BY <2>1, OtherCallsWait DEF Fail
    <2>4. UNCHANGED <<sensor, streaming, turn, stop>>
        BY <1>8, <2>1 DEF OpenFailedReady, Fail
    <2>5. UNCHANGED <<done[CliClose], call[CliClose]>>
        BY <2>1, <2>2, <2>3, CliCalls
    <2>6. pc \notin {"options", "new_sync", "exit"}
        BY <2>1, <2>3
    <2>7. ops' = ops \/ \E i \in DOMAIN ops : ops[i] = t /\ ops' = RemoveAt(ops, i)
        BY <2>1 DEF Fail
    <2>8. ops = <<>> => ops' = <<>>
        BY <2>7
    <2>9. ops = <<CliOpen>> => ops' = ops \/ ops' = <<>>
        <3> SUFFICES ASSUME ops = <<CliOpen>>, NEW i \in DOMAIN ops, ops[i] = t,
                            ops' = RemoveAt(ops, i)
                     PROVE  ops' = <<>>
            BY <2>7
        <3>1. i = 1
            OBVIOUS
        <3> QED
            BY <3>1, Singles
    <2>10. ops = <<CliClose>> => ops' = ops
        BY <2>1, <2>7
    <2>11. ops = <<CliOpen, CliClose>> => ops' = ops \/ ops' = <<CliClose>>
        <3> SUFFICES ASSUME ops = <<CliOpen, CliClose>>,
                            NEW i \in DOMAIN ops, ops[i] = t, ops' = RemoveAt(ops, i)
                     PROVE  ops' = <<CliClose>>
            BY <2>7
        <3>1. i = 1
            BY <2>1
        <3> QED
            BY <3>1, Singles
    <2>12. pc \in {"open_sync", "main_loop"} => NotClosed'
        BY <2>5, <2>8, <2>9
    <2>13. pc = "open_sync" => Opening'
        <3>1. CASE t = CliOpen
            BY <2>2, <2>3, <3>1
        <3>2. CASE t # CliOpen
            <4>1. UNCHANGED <<done[CliOpen], call[CliOpen]>>
                BY <2>2, <2>3, <3>2, CliCalls
            <4> QED
                BY <2>4, <2>8, <4>1
        <3> QED
            BY <3>1, <3>2
    <2>14. pc = "close_sync" => Closing'
        BY <2>4, <2>5, <2>8, <2>10, <2>11
    <2> QED
        BY <2>4, <2>6, <2>12, <2>13, <2>14
<1>6. ASSUME NEW t \in Closes, CloseReady(t) PROVE CliInv'
    <2>1. t \in Calls /\ t # CliOpen
        BY CliCalls DEF Calls
    <2>2. UNCHANGED <<sensor, streaming, turn>>
        BY <1>6 DEF CloseReady, ReturnClose, FailClose, Fail
    <2>3. \A u \in Calls \ {t} : done'[u] = done[u] /\ call'[u] = call[u]
        BY <1>6, <2>1, OthersWait, OtherCallsWait DEF CloseReady, Ended, ReturnClose, FailClose, Fail
    <2>5. CASE ReturnClose(t) /\ Ended(t, "true")
        <3>1. done'[t] = "true" /\ call'[t] = "true" /\ ops' = ops /\ call[t] = "pending"
            BY <2>1, <2>5, OthersWait, OtherCallsWait DEF Ended, ReturnClose, PendingCalls
        <3>2. t = CliClose => ops # <<CliOpen, CliClose>>
            <4>1. ops = <<CliOpen, CliClose>> => 2 \in DOMAIN ops /\ ops[2] = CliClose
                OBVIOUS
            <4> QED
                BY <2>5, <4>1 DEF ReturnClose
        <3>3. CASE t = CliClose
            <4>1. pc \in {"other", "close_sync"}
                BY <3>1, <3>3, CliCalls
            <4>2. pc = "close_sync" => Closing'
                BY <2>2, <3>1, <3>2, <3>3
            <4> QED
                BY <2>2, <4>1, <4>2
        <3>4. CASE t # CliClose
            <4>1. UNCHANGED <<done[CliOpen], done[CliClose], call[CliOpen], call[CliClose]>>
                BY <2>1, <2>3, <3>4, CliCalls
            <4> QED
                BY <2>1, <2>2, <3>1, <4>1
        <3> QED
            BY <3>3, <3>4
    <2>6. CASE FailClose(t) /\ Ended(t, "failed")
        <3>1. done'[t] = "error" /\ call'[t] = "failed" /\ call[t] = "pending"
            BY <2>1, <2>6, OthersWait, OtherCallsWait DEF Ended, FailClose, Fail
        <3>2. t # CliClose => ops' = ops \/ \E i \in DOMAIN ops : ops[i] = t
            BY <2>6 DEF FailClose, Fail
        <3>3. CASE t = CliClose
            <4>1. pc \in {"other", "close_sync"}
                BY <3>1, <3>3, CliCalls
            <4> QED
                BY <2>2, <2>3, <2>6, <3>1, <3>3, <4>1 DEF FailClose, Fail
        <3>4. CASE t # CliClose
            <4>1. UNCHANGED <<done[CliOpen], done[CliClose], call[CliOpen], call[CliClose]>>
                BY <2>1, <2>3, <3>4, CliCalls
            <4> QED
                BY <2>1, <2>2, <3>1, <3>2, <3>4, <4>1
        <3> QED
            BY <3>3, <3>4
    <2> QED
        BY <1>6, <2>5, <2>6 DEF CloseReady
<1> QED
    BY <1>1, <1>2, <1>3, <1>4, <1>5, <1>6, <1>7, <1>8 DEF HostStep

\* What the DSP does meanwhile.
LEMMA CliDsp ==
    ASSUME DriversTypeOK, CliInv, Running, DspStep, UNCHANGED <<pc, code>>
    PROVE  CliInv'
<1>1. UNCHANGED <<sensor, call, done, turn, stop>>
    BY DEF DspStep, DspStreams, Act, Stream, driverVars
<1>2. CASE Act
    <2>1. ops # <<>> /\ ops' = Tail(ops)
        BY <1>2 DEF Act
    <2>2. ops = <<CliOpen, CliClose>> => ops' = <<CliClose>>
        BY <2>1
    <2>3. ops = <<CliOpen>> => ops' = <<>>
        BY <2>1
    <2>4. ops = <<CliClose>> => ops' = <<>> /\ ~streaming'
        <3> SUFFICES ASSUME ops = <<CliClose>> PROVE ops' = <<>> /\ ~streaming'
            OBVIOUS
        <3>1. ops' = <<>> /\ Head(ops) = CliClose
            BY <2>1
        <3>2. Head(ops) \notin Opens
            BY <3>1, CliCalls
        <3>3. ~streaming'
            BY <1>2, <3>2 DEF Act
        <3> QED
            BY <3>1, <3>3
    <2>5. Disabled => Disabled'
        BY <2>1, <2>4 DEF Disabled
    <2>6. NotClosed => NotClosed'
        BY <1>1, <2>1, <2>3 DEF NotClosed
    <2>7. Opening => Opening'
        BY <1>1, <2>1 DEF Opening
    <2>8. Closing => Closing'
        BY <1>1, <2>2, <2>5 DEF Closing, Disabled
    <2> QED
        BY <1>1, <2>1, <2>6, <2>7, <2>8 DEF CliInv, NotOpened, SensorLeftDisabled, Running
<1>3. CASE streaming /\ UNCHANGED <<streaming, ops>>
    BY <1>1, <1>3 DEF CliInv, NotOpened, NotClosed, Opening, Closing, Disabled,
        SensorLeftDisabled, Running
<1> QED
    BY <1>2, <1>3 DEF DspStep, DspStreams, Stream

\* Every step keeps the invariant.
LEMMA CliStep == ASSUME DriversTypeOK, CliInv, [Next]_vars PROVE CliInv'
<1>1. CASE UNCHANGED vars
    BY <1>1 DEF vars, driversVars, apiVars, driverVars, CliInv, NotOpened, NotClosed, Opening,
        Closing, Disabled, SensorLeftDisabled
<1>2. CASE Running /\ pc = "other" /\ ApplicationStep /\ UNCHANGED <<pc, code>>
    BY <1>2 DEF CliInv, SensorLeftDisabled
<1>3. CASE Next
    BY <1>2, <1>3, CliMain, CliHost, CliDsp DEF Next
<1> QED
    BY <1>1, <1>3

\* Types and the invariant together: each step is one of a driver.
LEMMA CliInvariant == Spec => [](DriversTypeOK /\ CliInv)
<1>1. Init => DriversTypeOK /\ CliInv
    BY CliInit, DriversInitType DEF Init
<1>2. DriversTypeOK /\ CliInv /\ [Next]_vars => (DriversTypeOK /\ CliInv)'
    BY ProgramStep, DriversStepType, CliStep
<1> QED
    BY <1>1, <1>2, PTL DEF Spec

-----------------------------------------------------------------------------
\* ssccli, or any other program the model has, is an application of a driver.
THEOREM ProgramsUseDrivers == Spec => DriversSpec
<1>1. Init => DriversInit
    BY DEF Init
<1> QED
    BY <1>1, ProgramStep, CliInvariant, PTL DEF Spec, DriversSpec

\* The types of the programs' state.
THEOREM ProgramsTyped == Spec => []TypeOK
<1> DEFINE CodeOK == code \in Codes
<1>1. Init => CodeOK
    BY DEF Init, Codes
<1>2. CodeOK /\ [Next]_vars => CodeOK'
    BY DEF Next, vars, Main, NothingToDo, ChooseSensor, InitFailed, OpenSync, OpenFailed, Opened,
        TimeOut, Closed, Exit, Codes
<1>3. DriversTypeOK /\ CliInv /\ CodeOK => TypeOK
    BY DEF CliInv, TypeOK
<1> QED
    BY <1>1, <1>2, <1>3, CliInvariant, PTL DEF Spec

\* Whenever ssccli exits, and whatever was refused or has failed but the
\* requests of its open and its close, the DSP does not stream, and has nothing
\* left to act upon but the close it has answered.
THEOREM CliLeavesSensorDisabled == Spec => []SensorLeftDisabled
<1>1. CliInv => SensorLeftDisabled
    BY DEF CliInv
<1> QED
    BY <1>1, CliInvariant, PTL

\* What was shown of the drivers holds under ssccli and every other program.
THEOREM ProgramsHearWhatIsMeasured ==
    Spec => MeasurementsHeard /\ []HandlerDiscipline /\ []NothingBeforeOpenReturns
BY ProgramsUseDrivers, HearsWhatIsMeasured, HandlersBalance, NothingHeardEarly, PTL

============================================================================
