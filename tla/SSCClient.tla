----------------------------- MODULE SSCClient -----------------------------
(***************************************************************************)
(* The life of one SSCClient (src/src/libssc-client.c): its asynchronous   *)
(* creation over four calls of libqrtr and libqmi, the requests it sends,  *)
(* and its disposal, which waits for libqmi in nested main loops.          *)
(*                                                                         *)
(* Every GTask holds a reference of the client it was made for, whoever    *)
(* received the client holds one more, and the last of them to go disposes *)
(* the client.  An action is one callback, run to its return or, in        *)
(* ssc_client_dispose, to the next nested main loop.                       *)
(***************************************************************************)
EXTENDS Integers, FiniteSets

CONSTANTS
    Sends,      \* the GTasks of ssc_client_send
    Faults      \* what may fail, a subset of FaultKinds

\* "bus" ... "allocate": a step of the creation; "cancel": the caller cancels
\* it; "send": a request; "close": the closing of the device.
FaultKinds == {"bus", "lookup", "device", "open", "allocate", "cancel", "send", "close"}

ASSUME ClientAssumption == IsFiniteSet(Sends) /\ Faults \subseteq FaultKinds

VARIABLES
    stage,        \* the callback awaited
    refs,         \* the reference count of the client
    owned,        \* one of the references is that of ssc_client_new's caller
    result,       \* the status of the GTask of ssc_client_new
    cancelled,    \* its cancellable has fired
    send,         \* the status of the GTask of every ssc_client_send
    bus,          \* priv->bus is set
    device,       \* priv->device is set
    device_open,  \* the QMI device is open
    qmi_client    \* priv->qmi_client_ssc is set, and its signals connected

heldVars == <<bus, device, device_open, qmi_client>>
vars == <<stage, refs, owned, result, cancelled, send, heldVars>>

Creating == {"bus", "device", "open", "allocate"}
Stages == {"none", "idle", "releasing", "closing", "done"} \cup Creating

Results ==
    {"unused", "pending", "true", "cancelled",
     "bus_failed", "lookup_failed", "device_failed", "open_failed", "allocate_failed"}

TypeOK ==
    /\ stage \in Stages
    /\ refs \in Nat
    /\ owned \in BOOLEAN
    /\ result \in Results
    /\ cancelled \in BOOLEAN
    /\ send \in [Sends -> {"unused", "pending", "true", "failed"}]
    /\ bus \in BOOLEAN /\ device \in BOOLEAN
    /\ device_open \in BOOLEAN /\ qmi_client \in BOOLEAN

-----------------------------------------------------------------------------
(* Helpers *)

\* What a callback of libqmi may report: the step failed by itself or, where
\* it was given the cancellable, because that fired.
MayFail(step) == step \in Faults \/ (step # "bus" /\ cancelled)

\* The first thing ssc_client_dispose does: without a QMI client it returns.
DisposeStage(has_qmi_client) == IF has_qmi_client THEN "releasing" ELSE "done"

\* g_task_return_error of the creation, whose task held the only reference.
\* A task whose cancellable fired returns the cancellation, whatever happened.
Fail(why) ==
    /\ result' = IF cancelled THEN "cancelled" ELSE why
    /\ refs' = refs - 1
    /\ stage' = DisposeStage(qmi_client)
    /\ UNCHANGED <<owned, cancelled, send>>

\* g_object_unref.  (mutant: the reference is dropped twice)
DropRefTwice == refs' = refs - 2 /\ stage' = IF refs' <= 0 THEN DisposeStage(qmi_client) ELSE stage
DropRef == refs' = refs - 1 /\ stage' = IF refs' = 0 THEN DisposeStage(qmi_client) ELSE stage

-----------------------------------------------------------------------------
Init ==
    /\ stage = "none" /\ refs = 0 /\ owned = FALSE
    /\ result = "unused" /\ cancelled = FALSE
    /\ send = [s \in Sends |-> "unused"]
    /\ bus = FALSE /\ device = FALSE /\ device_open = FALSE /\ qmi_client = FALSE

-----------------------------------------------------------------------------
(* Creation *)

\* ssc_client_new, initable_init_async
New ==
    /\ stage = "none"
    /\ stage' = "bus" /\ refs' = 1 /\ result' = "pending"
    /\ UNCHANGED <<owned, cancelled, send, heldVars>>

\* The caller's cancellable fires while the client is created.
Cancel ==
    /\ "cancel" \in Faults /\ stage \in Creating
    /\ cancelled' = TRUE
    /\ UNCHANGED <<stage, refs, owned, result, send, heldVars>>

\* bus_new_ready: the bus, then the node with the SSC service.
BusReady ==
    /\ stage = "bus"
    /\ \/ MayFail("bus") /\ Fail("bus_failed") /\ UNCHANGED bus
       \/ "lookup" \in Faults /\ Fail("lookup_failed") /\ bus' = TRUE
       \/ /\ stage' = "device" /\ bus' = TRUE
          /\ UNCHANGED <<refs, owned, result, cancelled, send>>
    /\ UNCHANGED <<device, device_open, qmi_client>>

\* device_new_ready
DeviceReady ==
    /\ stage = "device"
    /\ \/ MayFail("device") /\ Fail("device_failed") /\ UNCHANGED device
       \/ /\ stage' = "open" /\ device' = TRUE
          /\ UNCHANGED <<refs, owned, result, cancelled, send>>
    /\ UNCHANGED <<bus, device_open, qmi_client>>

\* device_open_ready
DeviceOpened ==
    /\ stage = "open"
    /\ \/ MayFail("open") /\ Fail("open_failed") /\ UNCHANGED device_open
       \/ /\ stage' = "allocate" /\ device_open' = TRUE
          /\ UNCHANGED <<refs, owned, result, cancelled, send>>
    /\ UNCHANGED <<bus, device, qmi_client>>

\* allocate_client_ready, and ssc_client_new_finish in the caller's callback:
\* it takes a reference before the task gives up its own, unless the
\* cancellable fired, for then there is no result and the client goes.
\* (mutant: the error is not looked at)
AllocatedUnchecked ==
    /\ stage = "allocate"
    /\ \/ /\ MayFail("allocate") /\ ~cancelled
          /\ stage' = "idle" /\ owned' = TRUE /\ result' = "true"
          /\ UNCHANGED <<refs, qmi_client>>
       \/ /\ qmi_client' = TRUE
          /\ stage' = "idle" /\ owned' = TRUE /\ result' = "true"
          /\ UNCHANGED refs
    /\ UNCHANGED <<cancelled, send, bus, device, device_open>>
ClientAllocated ==
    /\ stage = "allocate"
    /\ \/ MayFail("allocate") /\ Fail("allocate_failed") /\ UNCHANGED qmi_client
       \/ /\ qmi_client' = TRUE
          /\ IF cancelled
             THEN /\ stage' = DisposeStage(TRUE) /\ refs' = refs - 1
                  /\ result' = "cancelled" /\ UNCHANGED owned
             ELSE /\ stage' = "idle" /\ owned' = TRUE
                  /\ result' = "true" /\ UNCHANGED refs
          /\ UNCHANGED <<cancelled, send>>
    /\ UNCHANGED <<bus, device, device_open>>

-----------------------------------------------------------------------------
(* Use *)

\* ssc_client_send, by the one who holds the client.
\* (mutant: the task holds no reference of the client)
SendUnheld(s) ==
    /\ owned /\ send[s] = "unused"
    /\ send' = [send EXCEPT ![s] = "pending"]
    /\ UNCHANGED <<refs, stage, owned, result, cancelled, heldVars>>
Send(s) ==
    /\ owned /\ send[s] = "unused"
    /\ send' = [send EXCEPT ![s] = "pending"]
    /\ refs' = refs + 1
    /\ UNCHANGED <<stage, owned, result, cancelled, heldVars>>

\* request_ready: the task returns and is dropped.
\* (mutant: the task is never dropped)
RequestReadyKept(s) ==
    /\ send[s] = "pending"
    /\ \/ send' = [send EXCEPT ![s] = "true"]
       \/ "send" \in Faults /\ send' = [send EXCEPT ![s] = "failed"]
    /\ UNCHANGED <<refs, stage, owned, result, cancelled, heldVars>>
RequestReady(s) ==
    /\ send[s] = "pending"
    /\ \/ send' = [send EXCEPT ![s] = "true"]
       \/ "send" \in Faults /\ send' = [send EXCEPT ![s] = "failed"]
    /\ DropRef
    /\ UNCHANGED <<owned, result, cancelled, heldVars>>

\* Whoever received the client lets go of it (sensor_dispose).
LetGo ==
    /\ owned
    /\ owned' = FALSE
    /\ DropRef
    /\ UNCHANGED <<result, cancelled, send, heldVars>>

-----------------------------------------------------------------------------
(* ssc_client_dispose, between its two nested main loops and after them *)

\* A release that fails is only warned about: it changes nothing here.
Released ==
    /\ stage = "releasing"
    /\ stage' = "closing"
    /\ UNCHANGED <<refs, owned, result, cancelled, send, heldVars>>

\* So is a close; everything the client refers to is dropped all the same.
\* (mutant: the bus is not)
ClosedKeepingBus ==
    /\ stage = "closing"
    /\ stage' = "done"
    /\ device_open' \in IF "close" \in Faults THEN {device_open, FALSE} ELSE {FALSE}
    /\ qmi_client' = FALSE /\ device' = FALSE
    /\ UNCHANGED <<bus, refs, owned, result, cancelled, send>>
Closed ==
    /\ stage = "closing"
    /\ stage' = "done"
    /\ device_open' \in IF "close" \in Faults THEN {device_open, FALSE} ELSE {FALSE}
    /\ qmi_client' = FALSE /\ device' = FALSE /\ bus' = FALSE
    /\ UNCHANGED <<refs, owned, result, cancelled, send>>

-----------------------------------------------------------------------------
Finished == stage = "done" /\ UNCHANGED vars

Next ==
    \/ New \/ Cancel
    \/ BusReady \/ DeviceReady \/ DeviceOpened \/ ClientAllocated
    \/ \E s \in Sends : Send(s) \/ RequestReady(s)
    \/ LetGo \/ Released \/ Closed
    \/ Finished

Spec == Init /\ [][Next]_vars

\* libqmi answers every call, with an error after its timeout at the latest,
\* and the main loop runs the callback.  Nobody must use a client or let go.
Fairness ==
    /\ WF_vars(BusReady) /\ WF_vars(DeviceReady)
    /\ WF_vars(DeviceOpened) /\ WF_vars(ClientAllocated)
    /\ \A s \in Sends : WF_vars(RequestReady(s))
    /\ WF_vars(Released) /\ WF_vars(Closed)

FairSpec == Spec /\ Fairness

-----------------------------------------------------------------------------
(* Properties *)

\* The requests on their way.
PendingSends == {s \in Sends : send[s] = "pending"}

\* Every reference belongs to somebody who will drop it, and nobody uses a
\* client without one: the creation, the caller and each request on its way.
ReferencesHeld ==
    refs = (IF result = "pending" THEN 1 ELSE 0) + (IF owned THEN 1 ELSE 0)
             + Cardinality(PendingSends)

\* Whoever was given a client, and every request, finds the QMI client, the
\* open device and the bus in place, however creation was cancelled or ended.
UsableWhileUsed ==
    owned \/ PendingSends # {} =>
        stage = "idle" /\ bus /\ device /\ device_open /\ qmi_client

\* A client that somebody has used takes its bus, device and QMI client with
\* it, whatever its last requests came to: it is never disposed by the early
\* return of ssc_client_dispose.  A device that does not close stays open.
UsedClientLeavesNothing ==
    stage = "done" /\ result = "true" =>
        ~bus /\ ~device /\ ~qmi_client /\ (device_open => "close" \in Faults)

\* "Properly close QMI client." (CHANGELOG.md:51): a client that is gone, or
\* could not be created, leaves no bus, no device and no open QMI client.
NothingLeft == stage = "done" => ~bus /\ ~device /\ ~device_open /\ ~qmi_client

\* The promise of SSCClientLife, and that creation and disposal come to an
\* end.
Life == INSTANCE SSCClientLife WITH
    life <- IF result = "unused" THEN "none"
            ELSE IF result = "pending" THEN "creating"
            ELSE IF result # "true" THEN "failed"
            ELSE IF stage = "idle" THEN "up"
            ELSE IF stage = "done" THEN "gone"
            ELSE "disposing",
    busy <- PendingSends # {}
ImplementsLife == Life!FairSpec

=============================================================================
