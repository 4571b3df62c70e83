---------------------------- MODULE SSCPrograms ----------------------------
(***************************************************************************)
(* Programs that use a driver: ssccli (src/src/libssc-cli.c), or any other *)
(* that opens and closes as ApplicationStep of SSCSensorDrivers allows.    *)
(*                                                                         *)
(* ssccli calls the _sync functions: each starts an asynchronous call and  *)
(* runs the main loop until that call's own callback has set "finished"    *)
(* (src/src/libssc-common.c), so everything else goes on meanwhile.        *)
(***************************************************************************)
EXTENDS SSCSensorDrivers

VARIABLES
    pc,     \* where main is, or "other": not ssccli
    code    \* its exit code

vars == <<driversVars, pc, code>>

ASSUME ProgramsAssumption == Opens # {} /\ Closes # {}

\* ssccli opens once and closes once.
CliOpen == CHOOSE t \in Opens : TRUE
CliClose == CHOOSE t \in Closes : TRUE

Codes == {"none", "0", "EXIT_FAILURE", "GENERAL_FAIL", "INIT_FAIL", "OPEN_FAIL"}

TypeOK ==
    /\ DriversTypeOK
    /\ pc \in {"other", "options", "new_sync", "open_sync", "main_loop", "close_sync", "exit"}
    /\ code \in Codes

Init == DriversInit /\ pc \in {"other", "options"} /\ code = "none"

-----------------------------------------------------------------------------
Exit(with) == ProcessEnds /\ pc' = "exit" /\ code' = with

\* g_option_context_parse or --debug fails, --version, or an unknown sensor.
NothingToDo ==
    /\ pc = "options"
    /\ \E with \in {"GENERAL_FAIL", "EXIT_FAILURE", "0"} : Exit(with)

\* The branch of main for the --sensor given: *_new_sync.
ChooseSensor == pc = "options" /\ DriverNew /\ pc' = "new_sync" /\ UNCHANGED code

\* *_new_sync returns.
InitFailed ==
    /\ pc = "new_sync" /\ sensor = "failed"
    /\ Exit("INIT_FAIL")
OpenSync ==
    /\ pc = "new_sync" /\ sensor \in {"ready", "unusable"}
    /\ DriverOpen(CliOpen)
    /\ pc' = "open_sync" /\ UNCHANGED code

\* ssc_common_wait_sync_context: the nested loop ends when the call's own
\* callback has run.
Finished(t) == done[t] # "pending"

\* *_open_sync returns.
OpenFailed ==
    /\ pc = "open_sync" /\ Finished(CliOpen) /\ done[CliOpen] # "true"
    /\ Exit("OPEN_FAIL")
Opened ==
    /\ pc = "open_sync" /\ Finished(CliOpen) /\ done[CliOpen] = "true"
    /\ pc' = "main_loop"
    /\ UNCHANGED <<driversVars, code>>

\* The timeout added after the open: the *_close_cb.
TimeOut ==
    /\ pc = "main_loop"
    /\ DriverClose(CliClose)
    /\ pc' = "close_sync" /\ UNCHANGED code

\* *_close_sync returns, and exit(0) whatever it returned.
\* (mutant: exit without waiting)
ClosedAtOnce == pc = "close_sync" /\ Exit("0")
Closed ==
    /\ pc = "close_sync" /\ Finished(CliClose)
    /\ Exit("0")

Main ==
    \/ NothingToDo \/ ChooseSensor
    \/ InitFailed \/ OpenSync
    \/ OpenFailed \/ Opened \/ TimeOut \/ Closed

Next ==
    /\ Running
    /\ \/ Main
       \/ pc = "other" /\ ApplicationStep /\ UNCHANGED <<pc, code>>
       \/ (HostStep \/ DspStep) /\ UNCHANGED <<pc, code>>

Spec == Init /\ [][Next]_vars

\* The main loop also serves the timeout; ssccli goes on when a call is done.
FairSpec == Spec /\ DriversFairness /\ WF_vars(Running /\ Main)

-----------------------------------------------------------------------------
(* Properties *)

\* ssccli leaves the sensor as it found it, when it exits early and when a
\* report, a close and its timeout cross: the DSP does not stream and has
\* nothing to act upon but the close that it has answered.  Two requests that
\* fail on the host are excepted: that of the close, and that of the open,
\* after which main exits without a close (libssc-cli.c:212) although the DSP
\* may have enabled the sensor.
SensorLeftDisabled ==
    pc = "exit" /\ done[CliClose] # "error" /\ call[CliOpen] # "failed" =>
        \/ ops = <<>> /\ ~streaming
        \/ ops = <<CliClose>> /\ done[CliClose] = "true"

\* ssccli always ends, with an error or after its time, unless the sensor's
\* creation never does.
CliEnds == pc = "options" ~> (pc = "exit" \/ sensor = "stuck" \/ ~Running)

=============================================================================
