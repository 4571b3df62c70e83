------------------------- MODULE SSCSensorApi_proofs -------------------------
(***************************************************************************)
(* SSCSensor implements SSCSensorApi, step by step, when nothing goes      *)
(* wrong on the way to the DSP.                                            *)
(***************************************************************************)
EXTENDS SSCSensorMessages_proofs

-----------------------------------------------------------------------------
(* What the drivers see of the messages *)

\* The calls that sent some requests.
TasksOf(q) == [i \in DOMAIN q |-> q[i].task]

\* It is a queue of tasks, in the order of the requests.
LEMMA TasksOfType ==
    ASSUME NEW q \in Seq(Request)
    PROVE  /\ TasksOf(q) \in Seq(Tasks \cup {NoTask}) /\ Len(TasksOf(q)) = Len(q)
           /\ \A i \in 1 .. Len(q) : TasksOf(q)[i] = q[i].task
<1>1. Len(q) \in Nat /\ DOMAIN q = 1 .. Len(q)
    BY LenProperties
<1>2. \A i \in 1 .. Len(q) : q[i].task \in Tasks \cup {NoTask}
    <2>1. \A i \in 1 .. Len(q) : q[i] \in Request
        BY ElementOfSeq
    <2> QED
        BY <2>1 DEF Request
<1>3. TasksOf(q) \in [1 .. Len(q) -> Tasks \cup {NoTask}]
    BY <1>1, <1>2 DEF TasksOf
<1>4. TasksOf(q) \in Seq(Tasks \cup {NoTask})
    BY <1>1, <1>3
<1>5. DOMAIN TasksOf(q) = 1 .. Len(q)
    BY <1>1 DEF TasksOf
<1>6. Len(TasksOf(q)) = Len(q)
    BY <1>1, <1>4, <1>5, LenProperties
<1> QED
    BY <1>1, <1>4, <1>6 DEF TasksOf

\* No task of nothing, one more for one more, one less for one less.
LEMMA TasksOfQueue ==
    ASSUME NEW q \in Seq(Request)
    PROVE  /\ q = <<>> <=> TasksOf(q) = <<>>
           /\ \A r \in Request : TasksOf(Append(q, r)) = Append(TasksOf(q), r.task)
           /\ q # <<>> => /\ Head(TasksOf(q)) = Head(q).task
                          /\ TasksOf(Tail(q)) = Tail(TasksOf(q))
<1>1. /\ TasksOf(q) \in Seq(Tasks \cup {NoTask}) /\ Len(TasksOf(q)) = Len(q) /\ Len(q) \in Nat
      /\ \A i \in 1 .. Len(q) : TasksOf(q)[i] = q[i].task
    BY TasksOfType
<1>2. q = <<>> <=> TasksOf(q) = <<>>
    BY <1>1
<1>3. ASSUME NEW r \in Request
      PROVE  TasksOf(Append(q, r)) = Append(TasksOf(q), r.task)
    <2> DEFINE p == Append(q, r)
               s == Append(TasksOf(q), r.task)
    <2>1. /\ p \in Seq(Request) /\ Len(p) = Len(q) + 1 /\ p[Len(q) + 1] = r
          /\ \A i \in 1 .. Len(q) : p[i] = q[i]
        BY AppendProperties
    <2>2. r.task \in Tasks \cup {NoTask}
        BY DEF Request
    <2>3. /\ s \in Seq(Tasks \cup {NoTask}) /\ Len(s) = Len(q) + 1 /\ s[Len(q) + 1] = r.task
          /\ \A i \in 1 .. Len(q) : s[i] = TasksOf(q)[i]
        BY <1>1, <2>2, AppendProperties
    <2> HIDE DEF p, s
    <2>4. /\ TasksOf(p) \in Seq(Tasks \cup {NoTask}) /\ Len(TasksOf(p)) = Len(p)
          /\ \A i \in 1 .. Len(p) : TasksOf(p)[i] = p[i].task
        BY <2>1, TasksOfType
    <2>5. \A i \in 1 .. Len(p) : TasksOf(p)[i] = s[i]
        BY <1>1, <2>1, <2>3, <2>4
    <2>6. TasksOf(p) = s
        BY <2>1, <2>3, <2>4, <2>5, SeqEqual
    <2> QED
        BY <2>6 DEF p, s
<1>4. ASSUME q # <<>>
      PROVE  Head(TasksOf(q)) = Head(q).task /\ TasksOf(Tail(q)) = Tail(TasksOf(q))
    <2> DEFINE p == Tail(q)
               s == Tail(TasksOf(q))
    <2>1. /\ p \in Seq(Request) /\ Len(p) = Len(q) - 1 /\ Head(q) = q[1]
          /\ \A i \in 1 .. Len(p) : p[i] = q[i + 1]
        BY <1>4, HeadTailProperties
    <2>2. TasksOf(q) # <<>> /\ Len(q) \in Nat \ {0}
        BY <1>2, <1>4
    <2>3. /\ s \in Seq(Tasks \cup {NoTask}) /\ Len(s) = Len(q) - 1 /\ Head(TasksOf(q)) = TasksOf(q)[1]
          /\ \A i \in 1 .. Len(s) : s[i] = TasksOf(q)[i + 1]
        BY <1>1, <2>2, HeadTailProperties
    <2> HIDE DEF p, s
    <2>4. /\ TasksOf(p) \in Seq(Tasks \cup {NoTask}) /\ Len(TasksOf(p)) = Len(p)
          /\ \A i \in 1 .. Len(p) : TasksOf(p)[i] = p[i].task
        BY <2>1, TasksOfType
    <2>5. \A i \in 1 .. Len(p) : TasksOf(p)[i] = s[i]
        <3> TAKE i \in 1 .. Len(p)
        <3>1. i + 1 \in 1 .. Len(q) /\ i \in 1 .. Len(s)
            BY <2>1, <2>2, <2>3
        <3> QED
            BY <1>1, <2>1, <2>3, <2>4, <3>1
    <2>6. Len(TasksOf(p)) = Len(s) /\ \A i \in 1 .. Len(s) : TasksOf(p)[i] = s[i]
        BY <2>1, <2>3, <2>4, <2>5
    <2>7. TasksOf(p) = s
        BY <2>3, <2>4, <2>6, SeqEqual
    <2> QED
        BY <1>1, <2>1, <2>2, <2>3, <2>7 DEF p, s
<1> QED
    BY <1>2, <1>3, <1>4

\* Before the sensor is there the drivers see no request and no report.
LEMMA NothingSeen ==
    ASSUME Discovering
    PROVE  OpsSeen = <<>> /\ ReportsSeen = <<>>
<1>1. OpsSeen = TasksOf(Only(dsp_busy \o requests, Commands))
    BY DEF OpsSeen, TasksOf
<1>2. dsp_busy \o requests \in Seq(Asks) /\ Asks \cap Commands = {}
    BY ConcatProperties DEF Discovering, Asks, Asked, Commands
<1>3. Only(dsp_busy \o requests, Commands) = <<>>
    <2> DEFINE q == dsp_busy \o requests
    <2>1. q \in Seq(Asks)
        BY <1>2
    <2> HIDE DEF q
    <2>2. Only(q, Commands) = <<>>
        BY <1>2, <2>1, OnlyNone
    <2> QED
        BY <2>2 DEF q
<1>4. TasksOf(<<>>) = <<>>
    <2>1. <<>> \in Seq(Request)
        OBVIOUS
    <2> QED
        BY <2>1, TasksOfQueue
<1>5. ReportsSeen = <<>>
    <2> DEFINE q == inds \o wire
               A == Response \cup Answers
    <2>1. inds \in Seq(A) /\ wire \in Seq(A)
        BY SeqLarger DEF Discovering
    <2>2. A \cap StreamReports = {}
        BY DEF Answers, Response, StreamReports
    <2> HIDE DEF A
    <2>3. q \in Seq(A)
        BY <2>1, ConcatProperties
    <2> HIDE DEF q
    <2>4. Only(q, StreamReports) = <<>>
        BY <2>2, <2>3, OnlyNone
    <2> QED
        BY <2>4 DEF q, ReportsSeen
<1> QED
    BY <1>1, <1>3, <1>4, <1>5

\* Afterwards they see every request.
LEMMA EveryRequestSeen ==
    ASSUME Running
    PROVE  /\ dsp_busy \o requests \in Seq(Enables \cup Disables)
           /\ dsp_busy \o requests \in Seq(Request)
           /\ OpsSeen = TasksOf(dsp_busy \o requests)
<1> DEFINE q == dsp_busy \o requests
<1>1. q \in Seq(Enables \cup Disables)
    BY ConcatProperties DEF Running
<1>2. /\ Enables \cup Disables \subseteq Commands /\ Enables \cup Disables \subseteq Request
    BY DEF Enables, Disables, Commands, Request, Tasks, Ops
<1>3. OpsSeen = TasksOf(Only(q, Commands))
    BY DEF OpsSeen, TasksOf
<1> HIDE DEF q
<1>4. Only(q, Commands) = q /\ q \in Seq(Request)
    BY <1>1, <1>2, OnlyAll, SeqLarger
<1> QED
    BY <1>1, <1>3, <1>4 DEF q

\* The element moved from one queue to the next stays where it is in the two.
LEMMA MoveBetween ==
    ASSUME NEW A, NEW q \in Seq(A), NEW r \in Seq(A), r # <<>>
    PROVE  Append(q, Head(r)) \o Tail(r) = q \o r
<1>1. /\ Head(r) \in A /\ Tail(r) \in Seq(A) /\ <<Head(r)>> \in Seq(A)
      /\ r = <<Head(r)>> \o Tail(r)
    BY HeadThenTail
<1> DEFINE h == <<Head(r)>>
           t == Tail(r)
<1>2. Append(q, Head(r)) = q \o h
    BY <1>1, AppendIsConcat
<1>3. h \in Seq(A) /\ t \in Seq(A) /\ r = h \o t
    BY <1>1
<1> HIDE DEF h, t
<1>4. (q \o h) \o t = q \o (h \o t)
    BY <1>3, ConcatAssociative
<1> QED
    BY <1>2, <1>3, <1>4 DEF t

\* What is put at the end of the second of two queues is at the end of both.
LEMMA AppendToSecond ==
    ASSUME NEW A, NEW q \in Seq(A), NEW r \in Seq(A), NEW e \in A
    PROVE  q \o Append(r, e) = Append(q \o r, e)
<1>1. <<e>> \in Seq(A) /\ Append(r, e) = r \o <<e>>
    BY AppendIsConcat
<1>2. q \o (r \o <<e>>) = (q \o r) \o <<e>>
    BY <1>1, ConcatAssociative
<1>3. q \o r \in Seq(A)
    BY ConcatProperties
<1> QED
    BY <1>1, <1>2, <1>3, AppendIsConcat

\* The first element of a queue and the rest, put together, come apart again.
LEMMA OneThenMore ==
    ASSUME NEW A, NEW h \in A, NEW t \in Seq(A)
    PROVE  <<h>> \o t # <<>> /\ Head(<<h>> \o t) = h /\ Tail(<<h>> \o t) = t
<1> DEFINE s == <<h>> \o t
<1>1. <<h>> \in Seq(A) /\ Len(<<h>>) = 1 /\ <<h>>[1] = h
    OBVIOUS
<1>2. /\ s \in Seq(A) /\ Len(s) = Len(t) + 1 /\ Len(t) \in Nat /\ s[1] = h
      /\ \A i \in 1 .. Len(t) : s[i + 1] = t[i]
    <2> DEFINE u == <<h>>
    <2>1. u \in Seq(A) /\ Len(u) = 1 /\ u[1] = h
        BY <1>1
    <2> HIDE DEF u
    <2>a. Len(t) \in Nat
        OBVIOUS
    <2>2. /\ u \o t \in Seq(A) /\ Len(u \o t) = Len(u) + Len(t)
          /\ \A i \in 1 .. Len(u) + Len(t) : (u \o t)[i] = IF i <= Len(u) THEN u[i] ELSE t[i - Len(u)]
        BY <2>1, ConcatProperties
    <2>3. (u \o t)[1] = h
        BY <2>1, <2>2, <2>a
    <2>4. \A i \in 1 .. Len(t) : (u \o t)[i + 1] = t[i]
        BY <2>1, <2>2, <2>a
    <2> QED
        BY <2>1, <2>2, <2>3, <2>4, <2>a DEF u
<1> HIDE DEF s
<1>3. s # <<>>
    BY <1>2
<1>4. /\ Head(s) = s[1] /\ Tail(s) \in Seq(A) /\ Len(Tail(s)) = Len(t)
      /\ \A i \in 1 .. Len(t) : Tail(s)[i] = t[i]
    BY <1>2, <1>3, HeadTailProperties
<1>5. Tail(s) = t
    BY <1>4, SeqEqual
<1> QED
    BY <1>2, <1>3, <1>4, <1>5 DEF s

\* The head of the first of two queues is that of both.
LEMMA HeadOfFirst ==
    ASSUME NEW A, NEW q \in Seq(A), NEW r \in Seq(A), q # <<>>
    PROVE  /\ q \o r # <<>> /\ Head(q \o r) = Head(q)
           /\ Tail(q \o r) = Tail(q) \o r
<1>1. /\ Head(q) \in A /\ Tail(q) \in Seq(A) /\ <<Head(q)>> \in Seq(A)
      /\ q = <<Head(q)>> \o Tail(q)
    BY HeadThenTail
<1> DEFINE h == Head(q)
           t == Tail(q) \o r
<1>2. t \in Seq(A)
    BY <1>1, ConcatProperties
<1>3. q \o r = <<h>> \o t
    <2> DEFINE u == <<h>>
               v == Tail(q)
    <2>1. u \in Seq(A) /\ v \in Seq(A) /\ q = u \o v
        BY <1>1
    <2> HIDE DEF u, v
    <2>2. (u \o v) \o r = u \o (v \o r)
        BY <2>1, ConcatAssociative
    <2> QED
        BY <2>1, <2>2 DEF u, v
<1>4. h \in A
    BY <1>1
<1> HIDE DEF h, t
<1>5. <<h>> \o t # <<>> /\ Head(<<h>> \o t) = h /\ Tail(<<h>> \o t) = t
    BY <1>2, <1>4, OneThenMore
<1> QED
    BY <1>3, <1>5 DEF h, t

-----------------------------------------------------------------------------
(* Every step of the sensor is one the drivers may see, or none *)

calls == OpenTasks \cup CloseTasks

\* All that holds of the sensor when nothing goes wrong.
AllInv == TypeOK /\ ServiceInv /\ ListenerInv /\ ChainInv /\ OrderInv /\ SentInv

\* What a call looks like follows from its task alone.
LEMMA CallsAsSeen ==
    ASSUME TypeOK
    PROVE  /\ \A t \in calls : /\ CallsSeen[t] = CallSeen(task[t])
                               /\ CallsSeen[t] = "pending" <=> task[t] = "pending"
                               /\ CallsSeen[t] = "unused" <=> task[t] = "unused"
           /\ (\A t \in calls : task'[t] = task[t]) => CallsSeen' = CallsSeen
           /\ task' = task => CallsSeen' = CallsSeen
<1>1. \A t \in calls : CallsSeen[t] = CallSeen(task[t]) /\ t \in Tasks
    BY DEF CallsSeen, calls, Tasks
<1>2. \A t \in calls : /\ CallsSeen[t] = "pending" <=> task[t] = "pending"
                       /\ CallsSeen[t] = "unused" <=> task[t] = "unused"
    BY <1>1 DEF CallSeen
<1>3. (\A t \in calls : task'[t] = task[t]) => CallsSeen' = CallsSeen
    BY DEF CallsSeen, calls
<1> QED
    BY <1>1, <1>2, <1>3

\* One task that changes is one call that does.
LEMMA CallMoves ==
    ASSUME TypeOK, NEW t \in calls, NEW s, task' = [task EXCEPT ![t] = s]
    PROVE  CallsSeen' = [CallsSeen EXCEPT ![t] = CallSeen(s)]
<1>1. \A u \in calls : task'[u] = IF u = t THEN s ELSE task[u]
    BY DEF TypeOK, Tasks, calls
<1>2. CallsSeen' = [u \in calls |-> CallSeen(task'[u])] /\ CallsSeen = [u \in calls |-> CallSeen(task[u])]
    BY DEF CallsSeen, calls
<1> QED
    BY <1>1, <1>2

\* What the sensor looks like follows from its disposal, its creation and its
\* attributes.
LEMMA SensorAsSeen ==
    /\ UNCHANGED <<disposed, attrs>> /\ task'[InitTask] = task[InitTask] => SensorSeen' = SensorSeen
    /\ disposed => SensorSeen = "gone"
    /\ ~disposed /\ task[InitTask] = "unused" => SensorSeen = "none"
    /\ ~disposed /\ task[InitTask] = "pending" => SensorSeen = "creating"
    /\ ~disposed /\ task[InitTask] = "true" => SensorSeen = IF Usable THEN "ready" ELSE "unusable"
    /\ ~disposed /\ task[InitTask] \notin {"unused", "pending", "true"} => SensorSeen = "failed"
<1>1. UNCHANGED <<disposed, attrs>> /\ task'[InitTask] = task[InitTask] => SensorSeen' = SensorSeen
    <2> SUFFICES ASSUME UNCHANGED <<disposed, attrs>>, task'[InitTask] = task[InitTask]
                 PROVE  SensorSeen' = SensorSeen
        OBVIOUS
    <2>1. Usable' = Usable
        BY DEF Usable
    <2> QED
        BY <2>1 DEF SensorSeen
<1>2. disposed => SensorSeen = "gone"
    BY DEF SensorSeen
<1>3. ~disposed /\ task[InitTask] = "unused" => SensorSeen = "none"
    BY DEF SensorSeen
<1>4. ~disposed /\ task[InitTask] = "pending" => SensorSeen = "creating"
    BY DEF SensorSeen
<1>5. ~disposed /\ task[InitTask] = "true" => SensorSeen = IF Usable THEN "ready" ELSE "unusable"
    BY DEF SensorSeen
<1>6. ~disposed /\ task[InitTask] \notin {"unused", "pending", "true"} => SensorSeen = "failed"
    BY DEF SensorSeen
<1> QED
    BY <1>1, <1>2, <1>3, <1>4, <1>5, <1>6

\* Until the sensor is there, only its creation is seen.
LEMMA NotReadySeen ==
    ASSUME ChainInv, task[InitTask] # "true"
    PROVE  OpsSeen = <<>> /\ ReportsSeen = <<>> /\ ~dsp_enabled
BY NothingSeen DEF ChainInv, Discovering

\* ssc_sensor_new.
LEMMA SeesNew ==
    ASSUME AllInv, AllInv', halt = "no", New
    PROVE  Api!ApiNext
<1>0. /\ InitTask \in Tasks /\ InitTask \notin calls /\ calls \subseteq Tasks
    BY ConstantsAssumption DEF Tasks, calls
<1>1. /\ task[InitTask] = "unused" /\ task'[InitTask] = "pending" /\ ~disposed /\ ~disposed'
      /\ \A t \in calls : task'[t] = task[t]
      /\ client # "gone" /\ client' # "gone" /\ halt' = halt /\ dsp_enabled' = dsp_enabled
    BY <1>0 DEF New, AllInv, ChainInv, ListenerInv, TypeOK, dspVars
<1>2. OpsSeen = <<>> /\ ReportsSeen = <<>>
    BY <1>1, NotReadySeen DEF AllInv
<1>3. OpsSeen' = <<>> /\ ReportsSeen' = <<>>
    <2>1. ChainInv' /\ (task[InitTask] # "true")'
        BY <1>1 DEF AllInv
    <2>2. (OpsSeen = <<>> /\ ReportsSeen = <<>> /\ ~dsp_enabled)'
        BY <2>1, NotReadySeen, PTL
    <2> QED
        BY <2>2
<1>4. SensorSeen = "none" /\ SensorSeen' = "creating"
    <2>1. SensorSeen = "none"
        BY <1>1, SensorAsSeen
    <2>2. SensorSeen' = "creating"
        BY <1>1 DEF SensorSeen
    <2> QED
        BY <2>1, <2>2
<1>5. CallsSeen' = CallsSeen
    BY <1>1, CallsAsSeen DEF AllInv
<1> QED
    BY <1>1, <1>2, <1>3, <1>4, <1>5 DEF Api!ApiNext, Api!ApiStep, Api!New

\* While initialisation's messages travel the drivers see none of them move.
LEMMA QuietSeen ==
    ASSUME Discovering, Discovering'
    PROVE  UNCHANGED <<OpsSeen, ReportsSeen, dsp_enabled>>
<1>1. OpsSeen = <<>> /\ ReportsSeen = <<>> /\ ~dsp_enabled
    BY NothingSeen DEF Discovering
<1>2. OpsSeen' = <<>> /\ ReportsSeen' = <<>>
    <2>1. Discovering'
        OBVIOUS
    <2>2. (OpsSeen = <<>> /\ ReportsSeen = <<>>)'
        BY <2>1, NothingSeen, PTL
    <2> QED
        BY <2>2
<1>3. ~dsp_enabled'
    BY DEF Discovering
<1>4. (dsp_enabled = FALSE) /\ (dsp_enabled' = FALSE)
    BY <1>1, <1>3
<1> QED
    BY <1>1, <1>2, <1>4

\* client_ready: a failure is the end of the creation, success is not seen.
LEMMA SeesClientReady ==
    ASSUME AllInv, AllInv', halt = "no", ClientReady
    PROVE  Api!ApiNext \/ UNCHANGED Api!apiVars
<1>0. /\ InitTask \in Tasks /\ InitTask \notin calls /\ calls \subseteq Tasks
    BY ConstantsAssumption DEF Tasks, calls
<1>1. /\ task[InitTask] = "pending" /\ ~disposed /\ ~disposed' /\ UNCHANGED <<disposed, dsp_enabled>>
      /\ client # "gone" /\ client' # "gone" /\ TypeOK
    BY DEF ClientReady, AllInv, ChainInv, ServiceInv, dspVars
<1>2. CASE client' = "none" /\ Return(InitTask, "client_failed")
           /\ UNCHANGED <<sensorVars, listenerVars, sendVars>>
    <2>1. task' = [task EXCEPT ![InitTask] = "client_failed"] /\ halt' = halt
        BY <1>1, <1>2 DEF Return
    <2>2. task'[InitTask] = "client_failed" /\ \A t \in calls : task'[t] = task[t]
        BY <1>0, <1>1, <2>1 DEF TypeOK
    <2>3. Discovering /\ Discovering'
        BY <1>1, <2>2 DEF AllInv, ChainInv
    <2>4. UNCHANGED <<OpsSeen, ReportsSeen>>
        BY <2>3, QuietSeen
    <2>5. SensorSeen = "creating"
        BY <1>1, SensorAsSeen
    <2>6. SensorSeen' = "failed"
        BY <1>1, <2>2 DEF SensorSeen
    <2>7. CallsSeen' = CallsSeen
        BY <1>1, <2>2, CallsAsSeen
    <2> QED
        BY <1>1, <2>1, <2>4, <2>5, <2>6, <2>7 DEF Api!ApiNext, Api!ApiStep, Api!Created
<1>3. CASE UNCHANGED <<task, attrs, uid_known, halt>>
    <2>1. Discovering /\ Discovering'
        BY <1>1, <1>3 DEF AllInv, ChainInv
    <2>2. UNCHANGED <<OpsSeen, ReportsSeen>>
        BY <2>1, QuietSeen
    <2>3. SensorSeen' = SensorSeen /\ CallsSeen' = CallsSeen
        BY <1>1, <1>3, SensorAsSeen, CallsAsSeen
    <2> QED
        BY <1>1, <1>3, <2>2, <2>3 DEF Api!apiVars
<1> QED
    BY <1>2, <1>3 DEF ClientReady

\* The sensor's last reference goes.
LEMMA SeesSensorDispose ==
    ASSUME AllInv, AllInv', halt = "no", SensorDispose
    PROVE  Api!ApiNext
<1>0. /\ InitTask \in Tasks /\ InitTask \notin calls /\ calls \subseteq Tasks
    BY ConstantsAssumption DEF Tasks, calls
<1>1. /\ task[InitTask] \notin {"unused", "pending"} /\ ~disposed /\ disposed'
      /\ UNCHANGED <<task, halt, requests, wire, inds, dspVars>>
      /\ TypeOK /\ Pending(Tasks) = {}
      /\ client # "gone" <=> client' # "gone"
    BY DEF SensorDispose, AllInv, sendVars, ClientAfter
<1>2. UNCHANGED <<OpsSeen, ReportsSeen, dsp_enabled>>
    BY <1>1 DEF OpsSeen, ReportsSeen, dspVars
<1>3. CallsSeen' = CallsSeen
    BY <1>1, CallsAsSeen
<1>4. SensorSeen \in {"ready", "unusable", "failed"}
    BY <1>1, SensorAsSeen
<1>5. SensorSeen' = "gone"
    BY <1>1 DEF SensorSeen
<1>6. \A t \in calls : CallsSeen[t] # "pending"
    BY <1>0, <1>1, CallsAsSeen DEF Pending
<1>7. Api!PendingCalls(Api!Calls) = {}
    BY <1>6 DEF Api!PendingCalls, Api!Calls, calls
<1>8. Api!LetGo
    BY <1>1, <1>2, <1>3, <1>4, <1>5, <1>7 DEF Api!LetGo
<1> QED
    BY <1>1, <1>8 DEF Api!ApiNext, Api!ApiStep

\* The client is disposed, and nothing is on the way any more.
LEMMA SeesClientDisposed ==
    ASSUME AllInv, AllInv', halt = "no", ClientDisposed
    PROVE  Api!ApiNext
<1>1. /\ disposed /\ UNCHANGED <<disposed, task, attrs, halt>> /\ TypeOK
      /\ client # "gone" /\ client' = "gone" /\ Silent' /\ dsp_enabled' = FALSE
    BY DEF ClientDisposed, AllInv, ListenerInv, Silent, sensorVars
<1>2. Discovering'
    BY <1>1, SilentFits, PTL
<1>3. OpsSeen' = <<>> /\ ReportsSeen' = <<>>
    <2>1. (OpsSeen = <<>> /\ ReportsSeen = <<>>)'
        BY <1>2, NothingSeen, PTL
    <2> QED
        BY <2>1
<1>4. CallsSeen' = CallsSeen
    BY <1>1, CallsAsSeen
<1>5. SensorSeen = "gone" /\ SensorSeen' = SensorSeen
    BY <1>1, SensorAsSeen
<1>6. Api!Release
    BY <1>1, <1>3, <1>4, <1>5 DEF Api!Release
<1> QED
    BY <1>1, <1>6 DEF Api!ApiNext, Api!ApiStep

\* A request sent is one the drivers see at the end of theirs.
LEMMA SeesSend ==
    ASSUME TypeOK, Running, Running', NEW op \in {"enable", "disable"}, NEW t \in calls, Send(op, t),
           UNCHANGED <<wire, inds, dspVars>>
    PROVE  OpsSeen' = Append(OpsSeen, t) /\ UNCHANGED <<ReportsSeen, dsp_enabled>>
<1> DEFINE r == [id |-> next_id, op |-> op, task |-> t]
           q == dsp_busy \o requests
<1>1. r \in Request /\ r.task = t
    BY DEF TypeOK, Request, Ops, Tasks, calls
<1>2. /\ dsp_busy \in Seq(Request) /\ requests \in Seq(Request)
      /\ requests' = Append(requests, r) /\ dsp_busy' = dsp_busy
    BY DEF TypeOK, Send, dspVars
<1>3. q \in Seq(Request) /\ OpsSeen = TasksOf(q)
    BY EveryRequestSeen
<1>4. OpsSeen' = TasksOf(dsp_busy' \o requests')
    <2>1. (OpsSeen = TasksOf(dsp_busy \o requests))'
        BY EveryRequestSeen, PTL
    <2> QED
        BY <2>1 DEF TasksOf
<1> HIDE DEF r
<1>5. dsp_busy' \o requests' = Append(q, r)
    BY <1>1, <1>2, AppendToSecond
<1> HIDE DEF q
<1>6. TasksOf(Append(q, r)) = Append(TasksOf(q), r.task)
    BY <1>1, <1>3, TasksOfQueue
<1>7. OpsSeen' = Append(OpsSeen, t)
    BY <1>1, <1>3, <1>4, <1>5, <1>6
<1> QED
    BY <1>7 DEF ReportsSeen, dspVars

\* ssc_sensor_open: it is refused, stops the process or sends its request.
LEMMA SeesOpen ==
    ASSUME AllInv, AllInv', halt = "no", NEW t \in OpenTasks, Open(t)
    PROVE  Api!ApiNext
<1>0. /\ InitTask \in Tasks /\ InitTask \notin calls /\ calls \subseteq Tasks
      /\ t \in calls /\ OpenTasks \subseteq calls
    BY ConstantsAssumption DEF Tasks, calls
<1>1. /\ task[InitTask] = "true" /\ ~disposed /\ ~disposed' /\ attrs' = attrs /\ client' = client
      /\ disposed' = disposed /\ UNCHANGED <<wire, inds, dspVars>> /\ TypeOK /\ Running
    BY DEF Open, AllInv, ChainInv, sensorVars
<1>2. task'[InitTask] = "true" /\ Running'
    BY <1>0, <1>1 DEF Open, AllInv, ChainInv, TypeOK
<1>3. SensorSeen' = SensorSeen /\ SensorSeen = IF Usable THEN "ready" ELSE "unusable"
    BY <1>1, <1>2, SensorAsSeen
<1>4. CallsSeen[t] = "unused" /\ Api!PendingCalls(OpenTasks) = {}
    <2>1. task[t] = "unused" /\ Pending(OpenTasks) = {}
        BY DEF Open
    <2>2. CallsSeen[t] = "unused" /\ \A u \in OpenTasks : CallsSeen[u] # "pending"
        BY <1>0, <1>1, <2>1, CallsAsSeen DEF Pending
    <2> QED
        BY <2>2 DEF Api!PendingCalls
<1>5. ASSUME requests' = requests
      PROVE  UNCHANGED <<OpsSeen, ReportsSeen, dsp_enabled>>
    BY <1>1, <1>5 DEF OpsSeen, ReportsSeen, dspVars
<1>6. ASSUME NEW s \in {"unavailable", "no_sample_rate"}, task' = [task EXCEPT ![t] = s], ~Usable,
             UNCHANGED <<halt, sendVars>>
      PROVE  Api!CallOpen(t)
    <2>1. CallSeen(s) = "refused"
        BY DEF CallSeen
    <2>2. CallsSeen' = [CallsSeen EXCEPT ![t] = "refused"]
        BY <1>0, <1>1, <1>6, <2>1, CallMoves
    <2>3. UNCHANGED <<OpsSeen, ReportsSeen, dsp_enabled>>
        BY <1>5, <1>6 DEF sendVars
    <2> QED
        BY <1>1, <1>3, <1>4, <1>6, <2>2, <2>3 DEF Api!CallOpen
<1>7. ASSUME halt' = "assert", UNCHANGED <<task, sendVars>>, ~Usable
      PROVE  Api!CallOpen(t)
    <2>1. CallsSeen' = CallsSeen
        BY <1>0, <1>1, <1>7, CallsAsSeen
    <2>2. UNCHANGED <<OpsSeen, ReportsSeen, dsp_enabled>>
        BY <1>5, <1>7 DEF sendVars
    <2> QED
        BY <1>1, <1>3, <1>4, <1>7, <2>1, <2>2 DEF Api!CallOpen
<1>8. ASSUME Usable, task' = [task EXCEPT ![t] = "pending"], Send("enable", t), halt' = halt
      PROVE  Api!CallOpen(t)
    <2>1. CallSeen("pending") = "pending"
        BY DEF CallSeen
    <2>2. CallsSeen' = [CallsSeen EXCEPT ![t] = "pending"]
        BY <1>0, <1>1, <1>8, <2>1, CallMoves
    <2>3. OpsSeen' = Append(OpsSeen, t) /\ UNCHANGED <<ReportsSeen, dsp_enabled>>
        BY <1>0, <1>1, <1>2, <1>8, SeesSend
    <2> QED
        BY <1>1, <1>3, <1>4, <1>8, <2>2, <2>3 DEF Api!CallOpen
<1>9. Api!CallOpen(t)
    <2>1. attrs.available # "yes" => ~Usable
        BY DEF Usable
    <2>2. attrs.stream = "continuous" /\ attrs.rate # "positive" => ~Usable
        BY DEF Usable
    <2>3. attrs.stream = "other" => ~Usable
        BY DEF Usable
    <2>4. attrs.available = "yes" /\
          ((attrs.stream = "continuous" /\ attrs.rate = "positive") \/ attrs.stream = "on_change")
          => Usable
        BY DEF Usable
    <2> QED
        BY <1>6, <1>7, <1>8, <2>1, <2>2, <2>3, <2>4 DEF Open
<1> QED
    BY <1>1, <1>9 DEF Api!ApiNext, Api!ApiStep

\* ssc_sensor_close sends its request.
LEMMA SeesClose ==
    ASSUME AllInv, AllInv', halt = "no", NEW t \in CloseTasks, Close(t)
    PROVE  Api!ApiNext
<1>0. /\ InitTask \in Tasks /\ InitTask \notin calls /\ calls \subseteq Tasks
      /\ t \in calls /\ CloseTasks \subseteq calls
    BY ConstantsAssumption DEF Tasks, calls
<1>1. /\ task[InitTask] = "true" /\ ~disposed /\ ~disposed' /\ attrs' = attrs /\ client' = client
      /\ disposed' = disposed /\ halt' = halt /\ UNCHANGED <<wire, inds, dspVars>> /\ TypeOK /\ Running
      /\ task' = [task EXCEPT ![t] = "pending"] /\ Send("disable", t)
    BY DEF Close, AllInv, ChainInv, sensorVars
<1>2. task'[InitTask] = "true" /\ Running'
    BY <1>0, <1>1 DEF AllInv, ChainInv, TypeOK
<1>3. SensorSeen' = SensorSeen /\ SensorSeen = IF Usable THEN "ready" ELSE "unusable"
    BY <1>1, <1>2, SensorAsSeen
<1>4. CallsSeen[t] = "unused"
    BY <1>0, <1>1, CallsAsSeen DEF Close
<1>5. CallSeen("pending") = "pending"
    BY DEF CallSeen
<1>6. CallsSeen' = [CallsSeen EXCEPT ![t] = "pending"]
    BY <1>0, <1>1, <1>5, CallMoves
<1>7. OpsSeen' = Append(OpsSeen, t) /\ UNCHANGED <<ReportsSeen, dsp_enabled>>
    BY <1>0, <1>1, <1>2, SeesSend
<1>8. Api!CallClose(t)
    BY <1>1, <1>3, <1>4, <1>6, <1>7 DEF Api!CallClose
<1> QED
    BY <1>1, <1>8 DEF Api!ApiNext, Api!ApiStep

\* The reports the drivers see are those of the idle loop and of the wire.
LEMMA ReportsInTwo ==
    ASSUME TypeOK
    PROVE  ReportsSeen = Only(inds, StreamReports) \o Only(wire, StreamReports)
<1>1. inds \in Seq(Response \cup Report) /\ wire \in Seq(Response \cup Report)
    BY SeqLarger DEF TypeOK
<1> QED
    BY <1>1, OnlyConcat DEF ReportsSeen

\* The drivers see no response.
LEMMA SeesNoResponse ==
    ASSUME TypeOK, TypeOK', wire # <<>>, Head(wire).kind = "response", wire' = Tail(wire), inds' = inds
    PROVE  ReportsSeen' = ReportsSeen
<1>1. wire \in Seq(Response \cup Report)
    BY DEF TypeOK
<1>2. Head(wire) \notin StreamReports
    BY DEF StreamReports
<1>3. Only(wire, StreamReports) = Only(wire', StreamReports)
    BY <1>1, <1>2, OnlyHeadTail
<1>4. ReportsSeen' = Only(inds', StreamReports) \o Only(wire', StreamReports)
    <2>1. (ReportsSeen = Only(inds, StreamReports) \o Only(wire, StreamReports))'
        BY ReportsInTwo, PTL
    <2> QED
        BY <2>1 DEF StreamReports
<1> QED
    BY <1>3, <1>4, ReportsInTwo

\* The request of a close whose response arrives is not behind another one,
\* and no other request of that close is on its way.
LEMMA CloseSeenFirst ==
    ASSUME AllInv, Running, halt = "no", wire # <<>>, Head(wire).kind = "response",
           Head(wire).req \in outstanding, Head(wire).req.op = "disable"
    PROVE  \A i \in DOMAIN OpsSeen : OpsSeen[i] = Head(wire).req.task => i = 1
<1> DEFINE r == Head(wire).req
           q == dsp_busy \o requests
<1>1. /\ r \in outstanding /\ r.op = "disable" /\ r.task \in CloseTasks /\ OpenTasks \cap CloseTasks = {}
      /\ r.id \in Nat
    BY ConstantsAssumption DEF AllInv, ServiceInv, TypeOK, Request
<1>2. requests \in Seq({s \in Request : r.id < s.id})
    <2>1. Head(wire) \in Answered \cup Report
        BY QueueType DEF AllInv, OrderInv
    <2>2. Head(wire) \in Answered
        BY <2>1, MessageKinds
    <2> QED
        BY <2>2 DEF Answered
<1>3. requests \in Seq(Held) /\ Len(dsp_busy) <= 1
    BY DEF AllInv, OrderInv, SentInv
<1>4. /\ requests \in Seq(Enables \cup Disables) /\ dsp_busy \in Seq(Enables \cup Disables)
      /\ Len(requests) \in Nat /\ Len(dsp_busy) \in Nat
    BY DEF Running
<1>5. ASSUME NEW j \in 1 .. Len(requests)
      PROVE  requests[j].task # r.task
    <2> DEFINE s == requests[j]
    <2>1. s \in Held /\ r.id < s.id
        <3>1. requests[j] \in Held
            BY <1>3, ElementOfSeq
        <3>2. requests[j] \in {u \in Request : r.id < u.id}
            BY <1>2, ElementOfSeq
        <3> QED
            BY <3>1, <3>2
    <2>2. s \in Enables \cup Disables
        BY <1>4, ElementOfSeq
    <2>3. s.id \in Nat
        BY <2>2 DEF Enables, Disables
    <2> HIDE DEF s
    <2>4. s # r
        BY <1>1, <2>1, <2>3
    <2>5. CASE s \in Enables
        BY <1>1, <2>5 DEF Enables, s
    <2>6. CASE s \in Disables
        <3>1. s.op = "disable"
            BY <2>6 DEF Disables
        <3>2. s.task # r.task
            <4>1. task[r.task] = "pending"
                BY <1>1 DEF AllInv, ListenerInv
            <4>2. s.task = r.task => s \in outstanding
                BY <2>1, <3>1, <4>1 DEF Held
            <4> QED
                BY <1>1, <2>4, <3>1, <4>2 DEF AllInv, ListenerInv
        <3> QED
            BY <3>2 DEF s
    <2> QED
        BY <2>2, <2>5, <2>6
<1>6. q \in Seq(Request) /\ OpsSeen = TasksOf(q)
    BY EveryRequestSeen
<1>7. /\ Len(q) = Len(dsp_busy) + Len(requests)
      /\ \A i \in 1 .. Len(dsp_busy) + Len(requests) :
            q[i] = IF i <= Len(dsp_busy) THEN dsp_busy[i] ELSE requests[i - Len(dsp_busy)]
    BY <1>4, ConcatProperties
<1> HIDE DEF q, r
<1>8. DOMAIN OpsSeen = 1 .. Len(q) /\ \A i \in 1 .. Len(q) : OpsSeen[i] = q[i].task
    BY <1>6, TasksOfType, LenProperties DEF TasksOf
<1>9. ASSUME NEW i \in 1 .. Len(q), i # 1
      PROVE  OpsSeen[i] # r.task
    <2>1. ~(i <= Len(dsp_busy)) /\ i - Len(dsp_busy) \in 1 .. Len(requests)
        BY <1>3, <1>4, <1>7, <1>9
    <2>2. OpsSeen[i] = requests[i - Len(dsp_busy)].task
        BY <1>7, <1>8, <2>1
    <2> QED
        BY <1>5, <2>1, <2>2
<1> QED
    BY <1>8, <1>9 DEF r

\* A response ends a close, or is not seen.
LEMMA SeesReceiveResponse ==
    ASSUME AllInv, AllInv', halt = "no", ReceiveResponse
    PROVE  Api!ApiNext \/ UNCHANGED Api!apiVars
<1> DEFINE r == Head(wire).req
<1>0. /\ InitTask \in Tasks /\ InitTask \notin calls /\ calls \subseteq Tasks
      /\ CloseTasks \subseteq calls
    BY ConstantsAssumption DEF Tasks, calls
<1>1. /\ wire # <<>> /\ Head(wire).kind = "response" /\ wire' = Tail(wire) /\ TypeOK /\ TypeOK'
      /\ inds' = inds /\ requests' = requests /\ UNCHANGED <<dspVars, disposed, attrs>>
      /\ client = "gone" <=> client' = "gone"
    BY DEF ReceiveResponse, AllInv, RequestReady, ClientAfter, hostVars, sensorVars, sendVars
<1>2. UNCHANGED <<OpsSeen, ReportsSeen, dsp_enabled>>
    BY <1>1, SeesNoResponse DEF OpsSeen, dspVars
<1>3. ASSUME UNCHANGED <<task, halt>> PROVE UNCHANGED Api!apiVars
    <2>1. SensorSeen' = SensorSeen /\ CallsSeen' = CallsSeen
        BY <1>1, <1>3, SensorAsSeen, CallsAsSeen
    <2> QED
        BY <1>1, <1>2, <1>3, <2>1 DEF Api!apiVars
<1>4. ASSUME r \in outstanding, r.op = "disable", Return(r.task, "true") PROVE Api!ApiNext
    <2>1. r.task \in CloseTasks /\ task[r.task] = "pending" /\ r.task \in calls /\ r.task # InitTask
        BY <1>0, <1>4 DEF AllInv, ServiceInv, ListenerInv
    <2>2. task' = [task EXCEPT ![r.task] = "true"] /\ halt' = halt
        BY <1>4, <2>1 DEF Return
    <2>3. Running
        BY <2>1 DEF AllInv, ServiceInv, ChainInv
    <2>4. \A i \in DOMAIN OpsSeen : OpsSeen[i] = r.task => i = 1
        BY <1>1, <1>4, <2>3, CloseSeenFirst
    <2>5. CallsSeen[r.task] = "pending"
        BY <1>1, <2>1, CallsAsSeen
    <2>6. CallsSeen' = [CallsSeen EXCEPT ![r.task] = "true"]
        <3>1. CallSeen("true") = "true"
            BY DEF CallSeen
        <3> QED
            BY <1>1, <2>1, <2>2, <3>1, CallMoves
    <2>7. SensorSeen' = SensorSeen
        <3>1. task'[InitTask] = task[InitTask]
            BY <1>0, <1>1, <2>1, <2>2 DEF TypeOK
        <3> QED
            BY <1>1, <3>1, SensorAsSeen
    <2> HIDE DEF r
    <2>8. Api!ReturnClose(r.task)
        BY <1>1, <1>2, <2>1, <2>2, <2>4, <2>5, <2>6, <2>7 DEF Api!ReturnClose, Api!PendingCalls
    <2> QED
        BY <2>1, <2>2, <2>8 DEF Api!ApiNext, Api!ApiStep
<1>5. Head(wire).ok = TRUE
    <2>1. Head(wire) \in Success \cup Report
        BY <1>1, QueueType DEF AllInv, ListenerInv
    <2> QED
        BY <1>1, <2>1, MessageKinds DEF Success
<1>6. CASE RequestReady(r, Head(wire).ok)
    BY <1>3, <1>4, <1>5, <1>6 DEF RequestReady, SuccessReturns
<1>7. CASE UNCHANGED <<hostVars, sendVars, inds, dspVars>>
    BY <1>3, <1>7 DEF hostVars
<1> QED
    BY <1>6, <1>7 DEF ReceiveResponse

\* An indication goes from the wire to the idle loop: the drivers see neither.
LEMMA SeesQueueIndication ==
    ASSUME AllInv, halt = "no", QueueIndication
    PROVE  UNCHANGED Api!apiVars
<1>1. /\ wire # <<>> /\ wire' = Tail(wire) /\ inds' = Append(inds, Head(wire))
      /\ UNCHANGED <<task, attrs, disposed, client, halt, requests, dspVars>> /\ TypeOK
    BY DEF QueueIndication, AllInv, hostVars, sensorVars, sendVars
<1>2. inds \in Seq(Response \cup Report) /\ wire \in Seq(Response \cup Report)
    BY <1>1, SeqLarger DEF TypeOK
<1>3. inds' \o wire' = inds \o wire
    BY <1>1, <1>2, MoveBetween
<1>4. UNCHANGED <<OpsSeen, ReportsSeen, dsp_enabled>>
    BY <1>1, <1>3 DEF OpsSeen, ReportsSeen, dspVars
<1>5. SensorSeen' = SensorSeen /\ CallsSeen' = CallsSeen
    BY <1>1, SensorAsSeen, CallsAsSeen
<1> QED
    BY <1>1, <1>4, <1>5 DEF Api!apiVars

\* The DSP takes a request and responds: the drivers see neither.
LEMMA SeesDspReply ==
    ASSUME "reject" \notin Faults, AllInv, halt = "no", DspReply
    PROVE  UNCHANGED Api!apiVars
<1>1. /\ requests # <<>> /\ requests' = Tail(requests) /\ dsp_busy = <<>> /\ requests \in Seq(Request)
      /\ dsp_busy' = <<Head(requests)>> /\ wire \in Seq(Response \cup Report)
      /\ wire' = Append(wire, [kind |-> "response", req |-> Head(requests), ok |-> TRUE])
      /\ UNCHANGED <<task, attrs, disposed, client, halt, inds, dsp_enabled>> /\ TypeOK
    BY DEF DspReply, AllInv, hostVars, sensorVars, TypeOK
<1>2. dsp_busy' \o requests' = dsp_busy \o requests
    <2> DEFINE h == Head(requests)
               none == <<>>
    <2>1. none \in Seq(Request) /\ Append(none, h) = <<h>>
        OBVIOUS
    <2>2. Append(none, h) \o Tail(requests) = none \o requests
        <3> HIDE DEF none
        <3> QED
            BY <1>1, <2>1, MoveBetween
    <2> QED
        BY <1>1, <2>1, <2>2
<1>3. UNCHANGED ReportsSeen
    <2> DEFINE m == [kind |-> "response", req |-> Head(requests), ok |-> TRUE]
               A == Response \cup Report
               q == inds \o wire
    <2>1. Head(requests) \in Request
        BY <1>1, QueueType
    <2>2. m \in A /\ m \notin StreamReports
        BY <2>1 DEF Response, StreamReports
    <2>3. inds \in Seq(A) /\ wire \in Seq(A)
        BY <1>1, SeqLarger DEF TypeOK
    <2>4. inds' \o wire' = inds \o Append(wire, m)
        BY <1>1
    <2> HIDE DEF m, A
    <2>5. q \in Seq(A) /\ inds \o Append(wire, m) = Append(q, m)
        BY <2>2, <2>3, AppendToSecond, ConcatProperties
    <2> HIDE DEF q
    <2>6. Only(Append(q, m), StreamReports) = Only(q, StreamReports)
        BY <2>2, <2>5, OnlyAppend
    <2> QED
        BY <2>4, <2>5, <2>6 DEF ReportsSeen, q, StreamReports
<1>4. UNCHANGED OpsSeen
    BY <1>2 DEF OpsSeen, Commands, Tasks
<1>5. SensorSeen' = SensorSeen /\ CallsSeen' = CallsSeen
    BY <1>1, SensorAsSeen, CallsAsSeen
<1> QED
    BY <1>1, <1>3, <1>4, <1>5 DEF Api!apiVars

\* The DSP acts upon the first request of the drivers, or initialisation's.
LEMMA SeesDspAct ==
    ASSUME AllInv, AllInv', halt = "no", DspAct
    PROVE  Api!ApiNext \/ UNCHANGED Api!apiVars
<1>1. /\ dsp_busy # <<>> /\ dsp_busy' = <<>> /\ TypeOK
      /\ UNCHANGED <<task, attrs, disposed, client, halt, requests, inds>>
    BY DEF DspAct, AllInv, hostVars, sensorVars, sendVars
<1>2. SensorSeen' = SensorSeen /\ CallsSeen' = CallsSeen
    BY <1>1, SensorAsSeen, CallsAsSeen
<1>3. CASE task[InitTask] # "true"
    <2>1. Discovering /\ Discovering'
        BY <1>1, <1>3 DEF AllInv, ChainInv
    <2> QED
        BY <1>1, <1>2, <2>1, QuietSeen DEF Api!apiVars
<1>4. CASE task[InitTask] = "true"
    <2>1. Running /\ Running' /\ requests \in Seq(Request) /\ dsp_busy \in Seq(Request)
        BY <1>1, <1>4 DEF AllInv, ChainInv, TypeOK
    <2>2. Head(dsp_busy) \in Enables \cup Disables
        BY <1>1, <2>1, QueueType DEF Running
    <2>3. wire' = wire /\ dsp_enabled' = (Head(dsp_busy).op = "enable")
        BY <2>2 DEF DspAct, Enables, Disables
    <2> DEFINE q == dsp_busy \o requests
    <2>4. Tail(dsp_busy) = <<>>
        <3>1. Len(dsp_busy) \in Nat \ {0} /\ Len(dsp_busy) <= 1
            BY <1>1, <2>1 DEF AllInv, OrderInv
        <3>2. Tail(dsp_busy) \in Seq(Request) /\ Len(Tail(dsp_busy)) = Len(dsp_busy) - 1
            BY <1>1, <2>1, HeadTailProperties
        <3>3. Len(Tail(dsp_busy)) = 0
            BY <3>1, <3>2
        <3> QED
            BY <3>2, <3>3
    <2>5. q # <<>> /\ Head(q) = Head(dsp_busy) /\ Tail(q) = dsp_busy' \o requests'
        <3>1. /\ dsp_busy \o requests # <<>> /\ Head(dsp_busy \o requests) = Head(dsp_busy)
              /\ Tail(dsp_busy \o requests) = Tail(dsp_busy) \o requests
            BY <1>1, <2>1, HeadOfFirst
        <3>2. Tail(dsp_busy) = dsp_busy' /\ requests' = requests
            BY <1>1, <2>4
        <3>3. Tail(dsp_busy) \o requests = dsp_busy' \o requests'
            BY <3>2
        <3> QED
            BY <3>1, <3>3
    <2>6. q \in Seq(Request) /\ OpsSeen = TasksOf(q)
        BY <2>1, EveryRequestSeen
    <2>7. OpsSeen' = TasksOf(dsp_busy' \o requests')
        <3>1. (OpsSeen = TasksOf(dsp_busy \o requests))'
            BY <2>1, EveryRequestSeen, PTL
        <3> QED
            BY <3>1 DEF TasksOf
    <2> HIDE DEF q
    <2>8. /\ OpsSeen # <<>> /\ Head(OpsSeen) = Head(dsp_busy).task
          /\ OpsSeen' = Tail(OpsSeen)
        BY <2>5, <2>6, <2>7, TasksOfQueue
    <2>9. dsp_enabled' = (Head(OpsSeen) \in OpenTasks)
        <3>1. Head(dsp_busy).op = "enable" <=> Head(dsp_busy).task \in OpenTasks
            BY <2>2, ConstantsAssumption DEF Enables, Disables
        <3> QED
            BY <2>3, <2>8, <3>1
    <2>10. ReportsSeen' = ReportsSeen
        BY <1>1, <2>3 DEF ReportsSeen
    <2>11. Api!Act
        BY <1>1, <1>2, <2>8, <2>9, <2>10 DEF Api!Act
    <2> QED
        BY <1>1, <2>11 DEF Api!ApiNext, Api!ApiStep
<1> QED
    BY <1>3, <1>4

\* The DSP streams a report.
LEMMA SeesDspStream ==
    ASSUME AllInv, halt = "no", DspStream
    PROVE  Api!ApiNext
<1> DEFINE A == Response \cup Report
           q == inds \o wire
<1>1. PICK k \in {"config", "measurement"} : wire' = Append(wire, [kind |-> k])
    BY DEF DspStream
<1>2. /\ dsp_enabled /\ Len(wire) + Len(inds) < MaxInFlight /\ TypeOK
      /\ UNCHANGED <<task, attrs, disposed, client, halt, requests, inds, dspVars>>
    BY DEF DspStream, AllInv, hostVars, sensorVars, sendVars
<1>3. inds \in Seq(A) /\ wire \in Seq(A)
    BY <1>2, SeqLarger DEF TypeOK
<1>4. [kind |-> k] \in A /\ [kind |-> k] \in StreamReports /\ [kind |-> k] \in Api!Reports
    BY DEF Report, StreamReports, Api!Reports, Api!Config
<1> HIDE DEF A
<1>5. q \in Seq(A) /\ Len(q) = Len(inds) + Len(wire) /\ Len(inds) \in Nat /\ Len(wire) \in Nat
    BY <1>3, ConcatProperties
<1>6. inds' \o wire' = Append(q, [kind |-> k])
    BY <1>1, <1>2, <1>3, <1>4, AppendToSecond
<1> HIDE DEF q
<1>7. Only(Append(q, [kind |-> k]), StreamReports) = Append(Only(q, StreamReports), [kind |-> k])
    BY <1>4, <1>5, OnlyAppend
<1>8. ReportsSeen' = Append(ReportsSeen, [kind |-> k])
    BY <1>6, <1>7 DEF ReportsSeen, q, StreamReports
<1>9. Len(ReportsSeen) < MaxInFlight
    <2>1. Len(Only(q, StreamReports)) \in Nat /\ Len(Only(q, StreamReports)) <= Len(q)
        <3>1. Only(q, StreamReports) \in Seq(A \cap StreamReports) /\ Len(Only(q, StreamReports)) <= Len(q)
            BY <1>5, OnlyType
        <3> QED
            BY <3>1, LenProperties
    <2> QED
        BY <1>2, <1>5, <2>1, ConstantsAssumption DEF ReportsSeen, q
<1>10. SensorSeen' = SensorSeen /\ CallsSeen' = CallsSeen /\ OpsSeen' = OpsSeen
    BY <1>2, SensorAsSeen, CallsAsSeen DEF OpsSeen, dspVars
<1>11. Api!Stream([kind |-> k])
    BY <1>2, <1>8, <1>9, <1>10 DEF Api!Stream, dspVars
<1> QED
    BY <1>2, <1>4, <1>11 DEF Api!ApiNext, Api!ApiStep

\* What a report of initialisation does to the call that waits for it.
LEMMA CreationMoves ==
    ASSUME TypeOK, task[InitTask] = "pending", NEW m, Handle(InitTask, m)
    PROVE  /\ halt' = halt /\ \A t \in calls : task'[t] = task[t]
           /\ task'[InitTask] \in {"pending", "no_service", "false", "true"}
<1>0. InitTask \in Tasks /\ InitTask \notin calls /\ calls \subseteq Tasks
    BY ConstantsAssumption DEF Tasks, calls
<1>1. \/ UNCHANGED <<task, halt>>
      \/ \E result \in {"no_service", "false", "true"} : Return(InitTask, result)
    BY DEF Handle, ServiceFound, ServiceMissing, SensorFound, SensorMissing, AttributesReceived,
           EnableConfirmed
<1> QED
    BY <1>0, <1>1 DEF Return, TypeOK

\* A report dispatched during initialisation may end it.
LEMMA SeesAnswer ==
    ASSUME AllInv, AllInv', halt = "no", Dispatch, task[InitTask] # "true"
    PROVE  Api!ApiNext \/ UNCHANGED Api!apiVars
<1>1. /\ inds # <<>> /\ inds' = Tail(inds) /\ UNCHANGED <<disposed, client, wire, dspVars>> /\ TypeOK
      /\ Emit(Head(inds)) /\ Discovering /\ ServiceInv
      /\ halt' # "stale_task" /\ halt' # "stale_sensor"
    BY DEF Dispatch, AllInv, ChainInv, ListenerInv, ListenerDiscipline, NoReturnedTaskUsed
<1>2. ASSUME UNCHANGED <<task, halt, sensorVars>>
      PROVE  UNCHANGED Api!apiVars
    <2>1. Discovering'
        BY <1>2 DEF AllInv, ChainInv
    <2>2. SensorSeen' = SensorSeen /\ CallsSeen' = CallsSeen
        BY <1>1, <1>2, SensorAsSeen, CallsAsSeen DEF sensorVars
    <2> QED
        BY <1>1, <1>2, <2>1, <2>2, QuietSeen DEF Api!apiVars
<1>3. ASSUME NEW t \in listeners, task[t] = "pending", Handle(t, Head(inds)), ~disposed
      PROVE  Api!ApiNext \/ UNCHANGED Api!apiVars
    <2>1. t = InitTask /\ Discovering'
        BY <1>1, <1>3, HandleMoves
    <2>2. /\ halt' = halt /\ \A u \in calls : task'[u] = task[u]
          /\ task'[InitTask] \in {"pending", "no_service", "false", "true"}
          /\ task[InitTask] = "pending"
        BY <1>1, <1>3, <2>1, CreationMoves
    <2>3. UNCHANGED <<OpsSeen, ReportsSeen, dsp_enabled>> /\ CallsSeen' = CallsSeen
        BY <1>1, <2>1, <2>2, QuietSeen, CallsAsSeen
    <2>4. SensorSeen = "creating"
        BY <1>3, <2>2, SensorAsSeen
    <2>5. CASE task'[InitTask] = "pending"
        <3>1. SensorSeen' = "creating"
            BY <1>1, <1>3, <2>5 DEF SensorSeen
        <3> QED
            BY <1>1, <2>2, <2>3, <2>4, <3>1 DEF Api!apiVars
    <2>6. CASE task'[InitTask] \in {"no_service", "false", "true"}
        <3>1. SensorSeen' \in {"ready", "unusable", "failed"}
            BY <1>1, <1>3, <2>6 DEF SensorSeen
        <3>2. Api!Created
            BY <1>1, <2>2, <2>3, <2>4, <3>1 DEF Api!Created
        <3> QED
            BY <3>2 DEF Api!ApiNext, Api!ApiStep
    <2> QED
        BY <2>2, <2>5, <2>6
<1> QED
    BY <1>1, <1>2, <1>3 DEF Emit

\* Afterwards a report dispatched returns every open that waits.
LEMMA EveryOpenConfirmed ==
    ASSUME AllInv, AllInv', Dispatch, task[InitTask] = "true"
    PROVE  /\ CallsSeen' = [t \in calls |-> IF t \in Pending(OpenTasks) THEN "true" ELSE CallsSeen[t]]
           /\ halt' = halt /\ UNCHANGED attrs
<1> DEFINE m == Head(inds)
<1>0. /\ InitTask \in Tasks /\ InitTask \notin calls /\ calls \subseteq Tasks /\ OpenTasks \subseteq calls
      /\ InitTask \notin OpenTasks
    BY ConstantsAssumption DEF Tasks, calls
<1>1. /\ Emit(m) /\ Running /\ ServiceInv /\ TypeOK /\ uid_known /\ client # "creating"
      /\ halt' # "stale_task" /\ halt' # "stale_sensor"
    BY DEF Dispatch, AllInv, ChainInv, ListenerInv, ListenerDiscipline, NoReturnedTaskUsed,
           ServiceInv, ReadyOnlyAfterService
<1>2. m.kind \in {"config", "measurement"} /\ UNCHANGED attrs
    <2>1. m \in StreamReports /\ UNCHANGED attrs
        BY <1>1, StreamReportMoves
    <2> QED
        BY <2>1 DEF StreamReports
<1> HIDE DEF m
<1>3. Concerns(m)
    BY <1>1, <1>2 DEF Concerns
<1>4. listeners = Pending(OpenTasks) /\ \A t \in listeners : report_id = t
    BY <1>1 DEF AllInv, ListenerInv, ListenerDiscipline, Awaiting, Pending
<1>5. CASE listeners = {}
    <2>1. UNCHANGED <<task, halt>>
        BY <1>1, <1>5 DEF Emit
    <2>2. CallsSeen' = CallsSeen /\ Pending(OpenTasks) = {}
        BY <1>1, <1>4, <1>5, <2>1, CallsAsSeen
    <2> QED
        BY <1>2, <2>1, <2>2 DEF CallsSeen, calls
<1>6. CASE listeners # {}
    <2>1. PICK t \in listeners : Handle(t, m)
        BY <1>1, <1>3, <1>6 DEF Emit
    <2>2. task[t] = "pending" /\ t \in OpenTasks /\ Pending(OpenTasks) = {t}
        BY <1>4, <2>1 DEF Pending
    <2>3. task' = [task EXCEPT ![t] = "true"] /\ halt' = halt
        BY <1>2, <2>1, <2>2 DEF Handle, ServiceFound, ServiceMissing, SensorFound, SensorMissing,
              AttributesReceived, EnableConfirmed, IsService, Return
    <2>4. CallsSeen' = [CallsSeen EXCEPT ![t] = "true"]
        <3>1. CallSeen("true") = "true"
            BY DEF CallSeen
        <3>2. t \in calls /\ TypeOK
            BY <1>0, <1>1, <2>2
        <3>3. CallsSeen' = [CallsSeen EXCEPT ![t] = CallSeen("true")]
            BY <2>3, <3>2, CallMoves
        <3> QED
            BY <3>1, <3>3
    <2>5. DOMAIN CallsSeen = calls /\ CallsSeen = [u \in calls |-> CallsSeen[u]]
        BY DEF CallsSeen, calls
    <2>6. CallsSeen' = [u \in calls |-> IF u = t THEN "true" ELSE CallsSeen[u]]
        BY <2>4, <2>5
    <2> QED
        BY <1>2, <2>2, <2>3, <2>6
<1> QED
    BY <1>5, <1>6

\* What the drivers see is the delivery of the first report of the sensor.
LEMMA SeesReport ==
    ASSUME AllInv, AllInv', halt = "no", Dispatch, task[InitTask] = "true"
    PROVE  Api!ApiNext
<1> DEFINE A == Response \cup Report
           h == Head(inds)
           t == Only(inds' \o wire, StreamReports)
<1>1. /\ inds # <<>> /\ inds' = Tail(inds) /\ UNCHANGED <<disposed, client, wire, dspVars>> /\ TypeOK
      /\ Running
    BY DEF Dispatch, AllInv, ChainInv
<1>2. h \in StreamReports /\ UNCHANGED sendVars /\ task'[InitTask] = "true"
    BY <1>1, StreamReportMoves DEF AllInv
<1>3. inds \in Seq(A) /\ wire \in Seq(A)
    BY <1>1, SeqLarger DEF TypeOK
<1> HIDE DEF A
<1>4. /\ inds \o wire # <<>> /\ Head(inds \o wire) = h /\ Tail(inds \o wire) = inds' \o wire
      /\ inds \o wire \in Seq(A) /\ inds' \in Seq(A) /\ inds' \o wire \in Seq(A)
    <2>1. inds \o wire # <<>> /\ Head(inds \o wire) = Head(inds) /\ Tail(inds \o wire) = Tail(inds) \o wire
        BY <1>1, <1>3, HeadOfFirst
    <2>2. inds' \in Seq(A)
        BY <1>1, <1>3, QueueType
    <2>3. inds \o wire \in Seq(A) /\ inds' \o wire \in Seq(A)
        BY <1>3, <2>2, ConcatProperties
    <2> QED
        BY <1>1, <2>1, <2>2, <2>3
<1>5. ReportsSeen = <<h>> \o t /\ t \in Seq(StreamReports)
    <2> DEFINE q == inds \o wire
    <2>1. Only(q, StreamReports) = IF Head(q) \in StreamReports
            THEN <<Head(q)>> \o Only(Tail(q), StreamReports) ELSE Only(Tail(q), StreamReports)
        <3> HIDE DEF q
        <3>1. q \in Seq(A) /\ q # <<>>
            BY <1>4 DEF q
        <3> QED
            BY <3>1, OnlyHeadTail
    <2>2. Only(inds' \o wire, StreamReports) \in Seq(A \cap StreamReports)
        BY <1>4, OnlyType
    <2>3. t \in Seq(StreamReports)
        BY <2>2, SeqLarger
    <2> QED
        BY <1>2, <1>4, <2>1, <2>3 DEF ReportsSeen
<1>6. ReportsSeen' = t
    BY <1>1 DEF ReportsSeen, StreamReports
<1> HIDE DEF h, t
<1>7. ReportsSeen # <<>> /\ ReportsSeen' = Tail(ReportsSeen)
    BY <1>2, <1>5, <1>6, OneThenMore
<1>8. /\ CallsSeen' = [u \in calls |-> IF u \in Pending(OpenTasks) THEN "true" ELSE CallsSeen[u]]
      /\ halt' = halt /\ UNCHANGED attrs
    BY EveryOpenConfirmed
<1>9. Pending(OpenTasks) = {u \in OpenTasks : CallsSeen[u] = "pending"}
    BY <1>1, CallsAsSeen DEF Pending, calls
<1>10. SensorSeen' = SensorSeen /\ OpsSeen' = OpsSeen
    BY <1>1, <1>2, <1>8, SensorAsSeen DEF AllInv, OpsSeen, sendVars, dspVars
<1>11. Api!Deliver
    BY <1>1, <1>7, <1>8, <1>9, <1>10
       DEF Api!Deliver, Api!OpensConfirmed, Api!PendingCalls, Api!Calls, calls, dspVars
<1> QED
    BY <1>11 DEF Api!ApiNext, Api!ApiStep

\* A step of the sensor is one the drivers may see, or none.
LEMMA SeesNext ==
    ASSUME Faults = {}, AllInv, AllInv', [Next]_vars
    PROVE  [Api!ApiNext]_Api!apiVars
<1>1. CASE UNCHANGED vars
    <2>1. /\ UNCHANGED <<task, attrs, disposed, client, halt, requests, inds, wire, dspVars>> /\ TypeOK
        BY <1>1 DEF vars, hostVars, sensorVars, sendVars, AllInv
    <2>2. SensorSeen' = SensorSeen /\ CallsSeen' = CallsSeen
        BY <2>1, SensorAsSeen, CallsAsSeen
    <2> QED
        BY <2>1, <2>2 DEF Api!apiVars, OpsSeen, ReportsSeen, dspVars
<1>2. CASE halt = "no" /\ Step
    <2>1. ~Abort /\ ~DropGarbled /\ ~DspForeign
        BY DEF Abort, DropGarbled, DspForeign
    <2>2. CASE New \/ SensorDispose \/ ClientDisposed
        BY <1>2, <2>2, SeesNew, SeesSensorDispose, SeesClientDisposed
    <2>3. CASE ClientReady \/ ReceiveResponse \/ DspAct
        BY <1>2, <2>3, SeesClientReady, SeesReceiveResponse, SeesDspAct
    <2>4. CASE QueueIndication \/ DspReply
        BY <1>2, <2>4, SeesQueueIndication, SeesDspReply
    <2>5. CASE (\E t \in OpenTasks : Open(t)) \/ (\E t \in CloseTasks : Close(t))
        BY <1>2, <2>5, SeesOpen, SeesClose
    <2>6. CASE Dispatch
        BY <1>2, <2>6, SeesAnswer, SeesReport
    <2>7. CASE DspStream
        BY <1>2, <2>7, SeesDspStream
    <2> QED
        BY <1>2, <2>1, <2>2, <2>3, <2>4, <2>5, <2>6, <2>7 DEF Step
<1> QED
    BY <1>1, <1>2 DEF Next, Finished

\* What the drivers see at first is a sensor nobody made.
LEMMA SeesInit == Init => Api!ApiInit
<1> SUFFICES ASSUME Init PROVE Api!ApiInit
    OBVIOUS
<1>1. /\ ~disposed /\ client = "none" /\ halt = "no" /\ ~dsp_enabled /\ dsp_enabled = FALSE
      /\ \A t \in Tasks : task[t] = "unused"
    BY DEF Init
<1>2. SensorSeen = "none"
    BY <1>1 DEF SensorSeen, Tasks
<1>3. CallsSeen = [t \in OpenTasks \cup CloseTasks |-> "unused"]
    BY <1>1 DEF CallsSeen, CallSeen, Tasks
<1>4. Silent
    BY DEF Init, Silent
<1>5. OpsSeen = <<>> /\ ReportsSeen = <<>>
    BY <1>4, SilentFits, NothingSeen
<1> QED
    BY <1>1, <1>2, <1>3, <1>5 DEF Api!ApiInit, Api!Calls

\* When nothing goes wrong on the way, all invariants of the sensor hold.
THEOREM AllInvariants ==
    ASSUME Faults = {}
    PROVE  Spec => []AllInv
<1>1. RequestsSucceed /\ "foreign" \notin Faults
    BY DEF RequestsSucceed
<1>2. Init => AllInv
    BY InitTypeOK, ServiceInit, ListenerInit, ChainInit, OrderInit, SentInit DEF AllInv
<1>3. AllInv /\ [Next]_vars => AllInv'
    BY <1>1, NextTypeOK, ServiceNext, ListenerNext, ChainNext, OrderNext, SentNext DEF AllInv
<1> QED
    BY <1>2, <1>3, PTL DEF Spec

\* To a driver an SSCSensor is what SSCSensorApi promises, for any number of
\* calls, any retry limit and any attributes: every step of its requests,
\* responses, reports and listeners is a step of that promise or not seen.
THEOREM SensorImplementsApi ==
    ASSUME Faults = {}
    PROVE  Spec => Api!ApiSpec
<1>1. Init => Api!ApiInit
    BY SeesInit
<1>2. AllInv /\ AllInv' /\ [Next]_vars => [Api!ApiNext]_Api!apiVars
    BY SeesNext
<1>3. Spec => []AllInv
    BY AllInvariants
<1> QED
    BY <1>1, <1>2, <1>3, PTL DEF Spec, Api!ApiSpec

=============================================================================
