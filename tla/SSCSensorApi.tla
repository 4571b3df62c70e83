---------------------------- MODULE SSCSensorApi ----------------------------
(***************************************************************************)
(* What a sensor driver may rely on: an SSCSensor as its subclasses see    *)
(* it, in place of requests, responses, listeners and transactions.  A     *)
(* creation ends, an open ends with the first report of the sensor, a      *)
(* close ends once the DSP has seen it, and every report dispatched is     *)
(* there for every handler of the client's "report" signal.                *)
(*                                                                         *)
(* While requests succeed, SSCSensor implements it.  With CallsFail they   *)
(* may fail on the host too, whether or not the DSP gets to see them: a    *)
(* timeout, a cancellable, a rejection.                                    *)
(***************************************************************************)
EXTENDS Naturals, SequencesExt

CONSTANTS
    Opens,          \* the calls of ssc_sensor_open
    Closes,         \* the calls of ssc_sensor_close
    Measurements,   \* the measurement reports of the sensor
    MaxInFlight,    \* bound: the DSP streams while fewer reports travel
    CallsFail       \* the requests of a creation, an open or a close may fail

Calls == Opens \cup Closes
Config == [kind |-> "config"]   \* a configuration update
Reports == Measurements \cup {Config}

ASSUME ApiAssumption ==
    /\ Opens \cap Closes = {}
    /\ MaxInFlight \in Nat
    /\ CallsFail \in BOOLEAN

VARIABLES
    sensor,     \* what there is of it, "stuck" if its creation never ends
    call,       \* the status of every call
    ops,        \* calls whose request the DSP has not acted upon
    streaming,  \* the DSP streams reports of this sensor
    reports,    \* reports not dispatched
    released,   \* the client is disposed
    stale,      \* a context listens whose call has failed
    halt        \* g_assert_not_reached or a use of freed memory stopped it

apiVars == <<sensor, call, ops, streaming, reports, released, stale, halt>>

ApiTypeOK ==
    /\ sensor \in {"none", "creating", "stuck", "ready", "unusable", "failed", "gone"}
    /\ call \in [Calls -> {"unused", "pending", "true", "refused", "failed"}]
    /\ ops \in Seq(Calls)
    /\ streaming \in BOOLEAN
    /\ reports \in Seq(Reports)
    /\ released \in BOOLEAN
    /\ stale \in BOOLEAN
    /\ halt \in BOOLEAN

PendingCalls(calls) == {t \in calls : call[t] = "pending"}

ApiInit ==
    /\ sensor = "none"
    /\ call = [t \in Calls |-> "unused"]
    /\ ops = <<>> /\ streaming = FALSE /\ reports = <<>>
    /\ released = FALSE /\ stale = FALSE /\ halt = FALSE

-----------------------------------------------------------------------------
New ==
    /\ sensor = "none"
    /\ sensor' = "creating"
    /\ UNCHANGED <<call, ops, streaming, reports, released, stale, halt>>

\* There is a sensor, or one whose attributes do not allow to open it, or
\* none; where a request has failed the context still listens.
Created ==
    /\ sensor = "creating"
    /\ sensor' \in {"ready", "unusable", "failed"}
    /\ stale' \in (IF CallsFail /\ sensor' = "failed" THEN BOOLEAN ELSE {FALSE})
    /\ UNCHANGED <<call, ops, streaming, reports, released, halt>>

\* attribute_ready only warns: nobody is told that the request was rejected.
CreationHangs ==
    /\ CallsFail /\ sensor = "creating"
    /\ sensor' = "stuck"
    /\ UNCHANGED <<call, ops, streaming, reports, released, stale, halt>>

CallOpen(t) ==
    /\ call[t] = "unused" /\ PendingCalls(Opens) = {}
    /\ \/ /\ sensor = "unusable"
          /\ call' = [call EXCEPT ![t] = "refused"]
          /\ UNCHANGED <<ops, halt>>
       \/ /\ sensor = "unusable"
          /\ halt' = TRUE
          /\ UNCHANGED <<call, ops>>
       \/ /\ sensor = "ready"
          /\ call' = [call EXCEPT ![t] = "pending"]
          /\ ops' = Append(ops, t)
          /\ UNCHANGED halt
    /\ UNCHANGED <<sensor, streaming, reports, released, stale>>

CallClose(t) ==
    /\ sensor \in {"ready", "unusable"}
    /\ call[t] = "unused"
    /\ call' = [call EXCEPT ![t] = "pending"]
    /\ ops' = Append(ops, t)
    /\ UNCHANGED <<sensor, streaming, reports, released, stale, halt>>

\* Nobody calls any more and the last reference goes.
LetGo ==
    /\ sensor \in {"ready", "unusable", "failed"} /\ PendingCalls(Calls) = {}
    /\ sensor' = "gone"
    /\ UNCHANGED <<call, ops, streaming, reports, released, stale, halt>>

\* The client goes, and everything on the way with it, listeners included.
Release ==
    /\ sensor = "gone" /\ ~released
    /\ released' = TRUE
    /\ ops' = <<>> /\ reports' = <<>> /\ streaming' = FALSE /\ stale' = FALSE
    /\ UNCHANGED <<sensor, call, halt>>

-----------------------------------------------------------------------------
\* The DSP enables or disables the sensor.
Act ==
    /\ ops # <<>>
    /\ ops' = Tail(ops)
    /\ streaming' = (Head(ops) \in Opens)
    /\ UNCHANGED <<sensor, call, reports, released, stale, halt>>

Stream(r) ==
    /\ streaming /\ Len(reports) < MaxInFlight
    /\ reports' = Append(reports, r)
    /\ UNCHANGED <<sensor, call, ops, streaming, released, stale, halt>>

\* The first report after the call of an open returns it, whatever it says.
\* (mutant: only a configuration update does)
OpensConfirmedByConfig(r) ==
    [t \in Calls |->
        IF t \in PendingCalls(Opens) /\ r = Config THEN "true" ELSE call[t]]
OpensConfirmed(r) ==
    [t \in Calls |-> IF t \in PendingCalls(Opens) THEN "true" ELSE call[t]]

Deliver ==
    /\ ~stale /\ reports # <<>>
    /\ reports' = Tail(reports)
    /\ call' = OpensConfirmed(Head(reports))
    /\ UNCHANGED <<sensor, ops, streaming, released, stale, halt>>

\* A close returns when the DSP has seen all that was called before it.
ReturnClose(t) ==
    /\ t \in PendingCalls(Closes)
    /\ \A i \in DOMAIN ops : ops[i] = t => i = 1
    /\ call' = [call EXCEPT ![t] = "true"]
    /\ UNCHANGED <<sensor, ops, streaming, reports, released, stale, halt>>

\* The request of t fails on the host; the DSP may still get to see it.
Fail(t) ==
    /\ CallsFail /\ call[t] = "pending"
    /\ call' = [call EXCEPT ![t] = "failed"]
    /\ \/ UNCHANGED ops
       \/ \E i \in DOMAIN ops : ops[i] = t /\ ops' = RemoveAt(ops, i)
    /\ UNCHANGED <<sensor, streaming, reports, released, halt>>

FailClose(t) == Fail(t) /\ UNCHANGED stale

\* sensor_open_ready returns the task and leaves its context connected.
FailOpen(t) == Fail(t) /\ stale' = TRUE

\* Freed memory is used, and the model stops: a failed request's callback
\* reads the error that the task took over, or returns a task that a report
\* has returned before; or a report finds the context of a failed call.
UseFreed ==
    /\ CallsFail /\ sensor # "none" /\ ~released
    /\ halt' = TRUE
    /\ reports' \in {reports, SubSeq(reports, 2, Len(reports))}
    /\ UNCHANGED <<sensor, call, ops, streaming, released, stale>>

-----------------------------------------------------------------------------
ApiStep ==
    \/ New \/ Created \/ CreationHangs \/ LetGo \/ Release \/ UseFreed
    \/ \E t \in Opens : CallOpen(t) \/ FailOpen(t)
    \/ \E t \in Closes : CallClose(t) \/ ReturnClose(t) \/ FailClose(t)
    \/ Act \/ Deliver
    \/ \E r \in Reports : Stream(r)

ApiNext == ~halt /\ ApiStep

ApiSpec == ApiInit /\ [][ApiNext]_apiVars

\* Nothing makes an application call or let go, or a request fail.
ApiFairness ==
    /\ WF_apiVars(~halt /\ Created)
    /\ WF_apiVars(~halt /\ Act)
    /\ WF_apiVars(~halt /\ Deliver)
    /\ WF_apiVars(~halt /\ \E r \in Reports : Stream(r))
    /\ \A t \in Closes : WF_apiVars(~halt /\ ReturnClose(t))

ApiFairSpec == ApiSpec /\ ApiFairness

=============================================================================
