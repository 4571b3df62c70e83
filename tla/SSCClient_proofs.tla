-------------------------- MODULE SSCClient_proofs --------------------------
(***************************************************************************)
(* Theorems about SSCClient for every finite set of requests and whatever  *)
(* may fail: its references are counted right, those who hold one can use  *)
(* the client, and it keeps the promise of SSCClientLife (its safety part).*)
(***************************************************************************)
EXTENDS SSCClient, FiniteSetTheorems, TLAPS

-----------------------------------------------------------------------------
(* Type correctness, as far as it does not rest on the reference count *)

\* Everything of TypeOK but that the reference count is not negative, the
\* flags apart from the rest.
FlagsInv ==
    /\ owned \in BOOLEAN /\ cancelled \in BOOLEAN
    /\ bus \in BOOLEAN /\ device \in BOOLEAN
    /\ device_open \in BOOLEAN /\ qmi_client \in BOOLEAN

TypeInv ==
    /\ stage \in Stages
    /\ refs \in Int
    /\ result \in Results
    /\ send \in [Sends -> {"unused", "pending", "true", "failed"}]

\* Where the client stands determines who uses it and what it holds.
StageInv ==
    /\ result = "pending" <=> stage \in Creating
    /\ result = "unused" <=> stage = "none"
    /\ result = "true" => stage \in {"idle", "releasing", "closing", "done"}
    /\ stage = "idle" <=> owned \/ PendingSends # {}
    /\ stage = "idle" => result = "true"
    /\ stage \in {"device", "open", "allocate", "idle"} => bus
    /\ stage \in {"open", "allocate", "idle"} => device
    /\ stage \in {"allocate", "idle"} => device_open
    /\ stage \in {"idle", "releasing", "closing"} => qmi_client
    /\ stage \in {"none"} \cup Creating => ~qmi_client

\* The inductive invariant of the client.
ClientInv == FlagsInv /\ TypeInv /\ StageInv /\ ReferencesHeld

\* The requests on their way are finitely many, and counting them is sound.
LEMMA PendingFinite ==
    /\ IsFiniteSet(PendingSends)
    /\ Cardinality(PendingSends) \in Nat
    /\ Cardinality(PendingSends) = 0 <=> PendingSends = {}
<1>1. PendingSends \in SUBSET Sends
    BY DEF PendingSends
<1>2. IsFiniteSet(PendingSends)
    BY <1>1, ClientAssumption, FS_Subset
<1> QED
    BY <1>2, FS_CardinalityType, FS_EmptySet

\* A request sent is one more on its way.
LEMMA SendPending ==
    ASSUME TypeInv, NEW s \in Sends, Send(s)
    PROVE  /\ PendingSends' = PendingSends \cup {s}
           /\ Cardinality(PendingSends') = Cardinality(PendingSends) + 1
<1>1. PendingSends' = PendingSends \cup {s} /\ s \notin PendingSends
    BY DEF TypeInv, Send, PendingSends
<1>2. Cardinality(PendingSends \cup {s}) = Cardinality(PendingSends) + 1
    BY <1>1, PendingFinite, FS_AddElement
<1> QED
    BY <1>1, <1>2

\* A request that returned is one less.
LEMMA RequestReadyPending ==
    ASSUME TypeInv, NEW s \in Sends, RequestReady(s)
    PROVE  /\ s \in PendingSends
           /\ PendingSends' = PendingSends \ {s}
           /\ Cardinality(PendingSends') = Cardinality(PendingSends) - 1
           /\ Cardinality(PendingSends') \in Nat
           /\ Cardinality(PendingSends') = 0 <=> PendingSends' = {}
<1>1. PendingSends' = PendingSends \ {s} /\ s \in PendingSends
    BY DEF TypeInv, RequestReady, PendingSends
<1>2. /\ IsFiniteSet(PendingSends \ {s})
      /\ Cardinality(PendingSends \ {s}) = Cardinality(PendingSends) - 1
    BY <1>1, PendingFinite, FS_RemoveElement
<1>3. /\ Cardinality(PendingSends \ {s}) \in Nat
      /\ Cardinality(PendingSends \ {s}) = 0 <=> PendingSends \ {s} = {}
    BY <1>2, FS_CardinalityType, FS_EmptySet
<1> QED
    BY <1>1, <1>2, <1>3

\* An action that leaves the requests alone leaves their count alone.
LEMMA PendingUnchanged ==
    ASSUME send' = send
    PROVE  PendingSends' = PendingSends
BY DEF PendingSends

\* The initial state satisfies the invariant.
LEMMA ClientInvInit == Init => ClientInv
<1> SUFFICES ASSUME Init PROVE ClientInv
    OBVIOUS
<1>1. PendingSends = {} /\ Cardinality(PendingSends) = 0
    BY PendingFinite DEF Init, PendingSends
<1>2. TypeInv
    BY DEF Init, TypeInv, Stages, Creating, Results
<1>5. FlagsInv
    BY DEF Init, FlagsInv
<1>3. StageInv
    BY <1>1 DEF Init, StageInv, Creating
<1>4. ReferencesHeld
    BY <1>1 DEF Init, ReferencesHeld
<1> QED
    BY <1>2, <1>3, <1>4, <1>5 DEF ClientInv

\* Every step keeps the types.
LEMMA TypeInvNext == TypeInv /\ [Next]_vars => TypeInv'
<1> SUFFICES ASSUME TypeInv, [Next]_vars PROVE TypeInv'
    OBVIOUS
<1> USE DEF TypeInv, Stages, Creating, Results
<1>1. CASE New \/ Cancel \/ LetGo \/ Released
    BY <1>1 DEF New, Cancel, LetGo, DropRef, DisposeStage, Released
<1>6. CASE Closed
    <2>1. stage' = "done" /\ UNCHANGED <<refs, result, send>>
        BY <1>6 DEF Closed
    <2> QED BY <2>1
<1>2. CASE BusReady \/ DeviceReady \/ DeviceOpened
    BY <1>2 DEF BusReady, DeviceReady, DeviceOpened, Fail, DisposeStage
<1>3. CASE ClientAllocated
    BY <1>3 DEF ClientAllocated, Fail, DisposeStage
<1>4. ASSUME NEW s \in Sends, Send(s) \/ RequestReady(s) PROVE TypeInv'
    BY <1>4 DEF Send, RequestReady, DropRef, DisposeStage
<1>5. CASE Finished \/ UNCHANGED vars
    BY <1>5 DEF Finished, vars
<1> QED
    BY <1>1, <1>2, <1>3, <1>4, <1>5, <1>6 DEF Next

\* Every step keeps the flags flags.
LEMMA FlagsInvNext == FlagsInv /\ [Next]_vars => FlagsInv'
<1> SUFFICES ASSUME FlagsInv, [Next]_vars PROVE FlagsInv'
    OBVIOUS
<1> USE DEF FlagsInv, heldVars
<1>1. CASE New \/ Cancel \/ LetGo \/ Released
    BY <1>1 DEF New, Cancel, LetGo, Released
<1>2. CASE BusReady \/ DeviceReady \/ DeviceOpened
    BY <1>2 DEF BusReady, DeviceReady, DeviceOpened, Fail
<1>3. CASE ClientAllocated
    BY <1>3 DEF ClientAllocated, Fail
<1>4. ASSUME NEW s \in Sends, Send(s) \/ RequestReady(s) PROVE FlagsInv'
    BY <1>4 DEF Send, RequestReady
<1>5. CASE Closed
    BY <1>5 DEF Closed
<1>6. CASE Finished \/ UNCHANGED vars
    BY <1>6 DEF Finished, vars
<1> QED
    BY <1>1, <1>2, <1>3, <1>4, <1>5, <1>6 DEF Next

\* Every step keeps the rest of the invariant: the reference that goes last
\* is the one that starts the disposal.
LEMMA ClientInvNext == ClientInv /\ [Next]_vars => StageInv' /\ ReferencesHeld'
<1> SUFFICES ASSUME ClientInv, [Next]_vars PROVE StageInv' /\ ReferencesHeld'
    OBVIOUS
<1>0. TypeInv /\ StageInv /\ ReferencesHeld
    BY DEF ClientInv
<1>f. /\ Cardinality(PendingSends) \in Nat
      /\ Cardinality(PendingSends) = 0 <=> PendingSends = {}
    BY PendingFinite
<1>1. CASE New \/ Cancel
    <2>1. PendingSends' = PendingSends
        BY <1>1, PendingUnchanged DEF New, Cancel
    <2>2. StageInv'
        <3>1. CASE New
            <4>1. stage = "none" /\ stage' = "bus" /\ result' = "pending" /\ owned' = owned /\ qmi_client' = qmi_client
                BY <3>1 DEF New, heldVars
            <4>2. ~owned /\ PendingSends = {}
                BY <1>0, <4>1 DEF StageInv
            <4> QED BY <1>0, <4>1, <4>2, <2>1 DEF StageInv, Creating
        <3>2. CASE Cancel
            BY <1>0, <3>2, <2>1 DEF Cancel, StageInv, heldVars
        <3> QED BY <1>1, <3>1, <3>2
    <2>3. ReferencesHeld'
        BY <1>0, <1>1, <1>f, <2>1 DEF New, Cancel, StageInv, ReferencesHeld, TypeInv, Creating
    <2> QED BY <2>2, <2>3
<1>2. CASE BusReady \/ DeviceReady \/ DeviceOpened
    <2>1. PendingSends' = PendingSends
        BY <1>2, PendingUnchanged DEF BusReady, DeviceReady, DeviceOpened, Fail
    <2>2. StageInv'
        BY <1>0, <1>2, <2>1 DEF BusReady, DeviceReady, DeviceOpened, Fail, DisposeStage, StageInv, Creating, TypeInv
    <2>3. ReferencesHeld'
        BY <1>0, <1>2, <1>f, <2>1 DEF BusReady, DeviceReady, DeviceOpened, Fail, StageInv, ReferencesHeld, TypeInv, Creating
    <2> QED BY <2>2, <2>3
<1>3. CASE ClientAllocated
    <2>1. PendingSends' = PendingSends
        BY <1>3, PendingUnchanged DEF ClientAllocated, Fail
    <2>2. StageInv'
        BY <1>0, <1>3, <2>1 DEF ClientAllocated, Fail, DisposeStage, StageInv, Creating, TypeInv
    <2>3. /\ result = "pending" /\ result' # "pending" /\ ~owned
          /\ \/ refs' = refs - 1 /\ owned' = owned
             \/ refs' = refs /\ owned' = TRUE
        BY <1>0, <1>3 DEF ClientAllocated, Fail, StageInv, Creating
    <2>4. ReferencesHeld'
        BY <1>0, <1>f, <2>1, <2>3 DEF ReferencesHeld, TypeInv
    <2> QED BY <2>2, <2>4
<1>4. ASSUME NEW s \in Sends, Send(s) PROVE StageInv' /\ ReferencesHeld'
    <2>1. PendingSends' # {} /\ Cardinality(PendingSends') = Cardinality(PendingSends) + 1
        BY <1>0, <1>4, SendPending
    <2>2. StageInv'
        BY <1>0, <1>4, <2>1 DEF Send, StageInv, Creating, heldVars
    <2>3. ReferencesHeld'
        BY <1>0, <1>4, <1>f, <2>1 DEF Send, ReferencesHeld, TypeInv
    <2> QED BY <2>2, <2>3
<1>5. ASSUME NEW s \in Sends, RequestReady(s) PROVE StageInv' /\ ReferencesHeld'
    <2>1. /\ PendingSends # {}
          /\ Cardinality(PendingSends') = Cardinality(PendingSends) - 1
          /\ Cardinality(PendingSends') \in Nat
          /\ Cardinality(PendingSends') = 0 <=> PendingSends' = {}
        BY <1>0, <1>5, RequestReadyPending
    <2>2. ReferencesHeld'
        BY <1>0, <1>5, <1>f, <2>1 DEF RequestReady, DropRef, ReferencesHeld, TypeInv
    <2>3. result = "true" /\ stage = "idle"
        BY <1>0, <2>1 DEF StageInv
    <2>4. refs' = 0 <=> ~owned /\ PendingSends' = {}
        BY <1>0, <1>5, <1>f, <2>1, <2>3 DEF RequestReady, DropRef, ReferencesHeld, TypeInv
    <2>5. stage' = IF refs' = 0 THEN "releasing" ELSE "idle"
        BY <1>0, <1>5, <2>3 DEF RequestReady, DropRef, DisposeStage, StageInv
    <2>6. StageInv'
        BY <1>0, <1>5, <2>3, <2>4, <2>5 DEF RequestReady, StageInv, Creating, heldVars
    <2> QED BY <2>2, <2>6
<1>6. CASE LetGo
    <2>1. PendingSends' = PendingSends
        BY <1>6, PendingUnchanged DEF LetGo
    <2>2. ReferencesHeld'
        BY <1>0, <1>6, <1>f, <2>1 DEF LetGo, DropRef, ReferencesHeld, TypeInv
    <2>3. result = "true" /\ stage = "idle"
        BY <1>0, <1>6 DEF LetGo, StageInv
    <2>4. refs' = 0 <=> PendingSends' = {}
        BY <1>0, <1>6, <1>f, <2>1, <2>3 DEF LetGo, DropRef, ReferencesHeld, TypeInv
    <2>5. stage' = IF refs' = 0 THEN "releasing" ELSE "idle"
        BY <1>0, <1>6, <2>3 DEF LetGo, DropRef, DisposeStage, StageInv
    <2>6. StageInv'
        BY <1>0, <1>6, <2>3, <2>4, <2>5 DEF LetGo, StageInv, Creating, heldVars
    <2> QED BY <2>2, <2>6
<1>7. CASE Released \/ Closed
    <2>1. PendingSends' = PendingSends
        BY <1>7, PendingUnchanged DEF Released, Closed
    <2>2. \/ stage = "releasing" /\ stage' = "closing" /\ UNCHANGED heldVars
          \/ stage = "closing" /\ stage' = "done"
        BY <1>7 DEF Released, Closed
    <2>3. UNCHANGED <<refs, owned, result, cancelled, send>>
        BY <1>7 DEF Released, Closed
    <2>4. StageInv'
        BY <1>0, <2>1, <2>2, <2>3 DEF StageInv, Creating, heldVars
    <2>5. ReferencesHeld'
        BY <1>0, <2>1, <2>3 DEF ReferencesHeld
    <2> QED BY <2>4, <2>5
<1>8. CASE Finished \/ UNCHANGED vars
    <2>1. UNCHANGED vars /\ PendingSends' = PendingSends
        BY <1>8, PendingUnchanged DEF Finished, vars
    <2> QED BY <1>0, <2>1 DEF vars, heldVars, StageInv, ReferencesHeld
<1> QED
    BY <1>1, <1>2, <1>3, <1>4, <1>5, <1>6, <1>7, <1>8 DEF Next

\* The invariant holds of every reachable state.
LEMMA ClientInvariant == Spec => []ClientInv
<1>1. ClientInv /\ [Next]_vars => ClientInv'
    BY TypeInvNext, FlagsInvNext, ClientInvNext DEF ClientInv
<1> QED
    BY ClientInvInit, <1>1, PTL DEF Spec

-----------------------------------------------------------------------------
(* What follows from it *)

\* The types hold, and the reference count never goes below zero.
THEOREM TypeCorrect == Spec => []TypeOK
<1>1. ClientInv => refs \in Nat
    BY PendingFinite DEF ClientInv, TypeInv, ReferencesHeld
<1>2. ClientInv => TypeOK
    BY <1>1 DEF ClientInv, FlagsInv, TypeInv, TypeOK
<1> QED
    BY ClientInvariant, <1>2, PTL

\* Every reference of the client is somebody's, at every moment of its life.
THEOREM ReferencesCounted == Spec => []ReferencesHeld
<1>1. ClientInv => ReferencesHeld
    BY DEF ClientInv
<1> QED
    BY ClientInvariant, <1>1, PTL

\* Whoever holds the client finds what it needs, whatever failed before.
THEOREM HoldersCanUse == Spec => []UsableWhileUsed
<1>1. ClientInv => UsableWhileUsed
    BY DEF ClientInv, StageInv, UsableWhileUsed
<1> QED
    BY ClientInvariant, <1>1, PTL

-----------------------------------------------------------------------------
(* A client that was used leaves nothing behind *)

\* Before it is used and while it is, the client is not done, and only the
\* end of a whole disposal makes it so.
LEMMA LeavesNothingNext ==
    ASSUME ClientInv, UsedClientLeavesNothing, [Next]_vars
    PROVE  UsedClientLeavesNothing'
<1>0. StageInv
    BY DEF ClientInv
<1>1. CASE New \/ Cancel
    BY <1>0, <1>1 DEF New, Cancel, StageInv, Creating, UsedClientLeavesNothing
<1>2. CASE BusReady \/ DeviceReady \/ DeviceOpened
    <2>1. result' # "true"
        BY <1>0, <1>2 DEF BusReady, DeviceReady, DeviceOpened, Fail, StageInv, Creating
    <2> QED BY <2>1 DEF UsedClientLeavesNothing
<1>3. CASE ClientAllocated
    <2>1. result' # "true" \/ stage' = "idle"
        BY <1>3 DEF ClientAllocated, Fail
    <2> QED BY <2>1 DEF UsedClientLeavesNothing
<1>4. ASSUME NEW s \in Sends, Send(s) PROVE UsedClientLeavesNothing'
    BY <1>4 DEF Send, UsedClientLeavesNothing, heldVars
<1>5. ASSUME NEW s \in Sends, RequestReady(s) PROVE UsedClientLeavesNothing'
    <2>1. stage = "idle" /\ qmi_client
        BY <1>0, <1>5 DEF RequestReady, StageInv, PendingSends
    <2>2. stage' \in {"idle", "releasing"}
        BY <1>5, <2>1 DEF RequestReady, DropRef, DisposeStage
    <2> QED BY <2>2 DEF UsedClientLeavesNothing
<1>6. CASE LetGo
    <2>1. stage = "idle" /\ qmi_client
        BY <1>0, <1>6 DEF LetGo, StageInv
    <2>2. stage' \in {"idle", "releasing"}
        BY <1>6, <2>1 DEF LetGo, DropRef, DisposeStage
    <2> QED BY <2>2 DEF UsedClientLeavesNothing
<1>7. CASE Released
    BY <1>7 DEF Released, UsedClientLeavesNothing
<1>8. CASE Closed
    <2>1. "close" \notin Faults => device_open' = FALSE
        BY <1>8 DEF Closed
    <2> QED BY <1>8, <2>1 DEF Closed, UsedClientLeavesNothing
<1>9. CASE Finished \/ UNCHANGED vars
    BY <1>9 DEF Finished, vars, heldVars, UsedClientLeavesNothing
<1> QED
    BY <1>1, <1>2, <1>3, <1>4, <1>5, <1>6, <1>7, <1>8, <1>9 DEF Next

\* A client that was handed out takes its bus, device and QMI client with it
\* when it goes, whatever became of its requests: it always has a QMI client
\* then, so ssc_client_dispose does not return early.
THEOREM NothingIsLeft == Spec => []UsedClientLeavesNothing
<1>1. Init => UsedClientLeavesNothing
    BY DEF Init, UsedClientLeavesNothing
<1>2. ClientInv /\ UsedClientLeavesNothing /\ [Next]_vars => UsedClientLeavesNothing'
    BY LeavesNothingNext
<1> QED
    BY <1>1, <1>2, ClientInvariant, PTL DEF Spec

-----------------------------------------------------------------------------
(* SSCClient implements SSCClientLife *)

\* Creation, use and disposal follow the life a client promises: it is not
\* disposed while somebody holds it or awaits a request, and always then.
THEOREM ClientLivesAsPromised == Spec => Life!Spec
<1>1. Init => Life!Init
    BY DEF Init, Life!Init, PendingSends
<1>2. ClientInv /\ ClientInv' /\ [Next]_vars => [Life!Next]_(Life!vars)
    <2> SUFFICES ASSUME ClientInv, ClientInv', [Next]_vars PROVE [Life!Next]_(Life!vars)
        OBVIOUS
    <2> DEFINE busy == PendingSends # {}
    <2>0. StageInv /\ StageInv'
        BY DEF ClientInv
    <2>1. CASE New
        <3>1. result = "unused" /\ result' = "pending" /\ owned' = owned /\ busy' = busy
            BY <2>0, <2>1, PendingUnchanged DEF New, StageInv
        <3> QED BY <3>1 DEF Life!Next, Life!Create
    <2>2. CASE Cancel \/ Finished \/ UNCHANGED vars
        <3>1. UNCHANGED <<stage, result, owned>> /\ busy' = busy
            BY <2>2, PendingUnchanged DEF Cancel, Finished, vars
        <3> QED BY <3>1 DEF Life!vars
    <2>3. CASE BusReady \/ DeviceReady \/ DeviceOpened
        <3>1. /\ result = "pending" /\ owned' = owned /\ busy' = busy
              /\ result' \notin {"true", "unused"}
            BY <2>0, <2>3, PendingUnchanged
            DEF BusReady, DeviceReady, DeviceOpened, Fail, StageInv, Creating
        <3> QED BY <3>1 DEF Life!Next, Life!Created, Life!vars
    <2>4. CASE ClientAllocated
        <3>1. /\ result = "pending" /\ busy' = busy
              /\ \/ result' \notin {"true", "unused", "pending"} /\ owned' = owned
                 \/ result' = "true" /\ stage' = "idle" /\ owned' = TRUE
            BY <2>0, <2>4, PendingUnchanged DEF ClientAllocated, Fail, StageInv, Creating
        <3> QED BY <3>1 DEF Life!Next, Life!Created
    <2>5. ASSUME NEW s \in Sends, Send(s) PROVE [Life!Next]_(Life!vars)
        <3>1. owned /\ owned' = owned /\ UNCHANGED <<result, stage>>
            BY <2>5 DEF Send
        <3>2. result = "true" /\ stage = "idle"
            BY <2>0, <3>1 DEF StageInv
        <3>3. busy'
            BY <2>5, SendPending DEF ClientInv
        <3> QED BY <3>1, <3>2, <3>3 DEF Life!Next, Life!Use
    <2>6. ASSUME NEW s \in Sends, RequestReady(s) PROVE [Life!Next]_(Life!vars)
        <3>1. busy /\ owned' = owned /\ result' = result
            BY <2>6, RequestReadyPending DEF ClientInv, RequestReady
        <3>2. result = "true" /\ stage = "idle"
            BY <2>0, <3>1 DEF StageInv
        <3>3. stage' \in {"idle", "releasing"}
            BY <2>0, <2>6, <3>2 DEF StageInv, RequestReady, DropRef, DisposeStage
        <3>4. stage' = "idle" <=> owned' \/ busy'
            BY <2>0 DEF StageInv
        <3> QED BY <3>1, <3>2, <3>3, <3>4 DEF Life!Next, Life!Use
    <2>7. CASE LetGo
        <3>1. owned /\ owned' = FALSE /\ busy' = busy /\ result' = result
            BY <2>7, PendingUnchanged DEF LetGo
        <3>2. result = "true" /\ stage = "idle"
            BY <2>0, <3>1 DEF StageInv
        <3>3. stage' \in {"idle", "releasing"}
            BY <2>0, <2>7, <3>2 DEF StageInv, LetGo, DropRef, DisposeStage
        <3>4. stage' = "idle" <=> owned' \/ busy'
            BY <2>0 DEF StageInv
        <3> QED BY <3>1, <3>2, <3>3, <3>4 DEF Life!Next, Life!Use
    <2>8. CASE Released
        <3>1. /\ stage = "releasing" /\ stage' = "closing"
              /\ UNCHANGED <<result, owned>> /\ busy' = busy
            BY <2>8, PendingUnchanged DEF Released
        <3> QED BY <3>1 DEF Life!vars
    <2>9. CASE Closed
        <3>1. /\ stage = "closing" /\ stage' = "done"
              /\ UNCHANGED <<result, owned>> /\ busy' = busy
            BY <2>9, PendingUnchanged DEF Closed
        <3>2. result \notin {"unused", "pending"}
            BY <2>0, <3>1 DEF StageInv, Creating
        <3> QED BY <3>1, <3>2 DEF Life!Next, Life!Disposed, Life!vars
    <2> QED
        BY <2>1, <2>2, <2>3, <2>4, <2>5, <2>6, <2>7, <2>8, <2>9 DEF Next
<1> QED
    BY <1>1, <1>2, ClientInvariant, PTL DEF Spec, Life!Spec

=============================================================================
