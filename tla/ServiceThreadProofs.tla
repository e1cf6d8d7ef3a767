-------------------------- MODULE ServiceThreadProofs --------------------------
(***************************************************************************)
(* The lives of the services, in two parts.  For every timeout, and over    *)
(* any number of starts, stops and stops that failed half way: a worker     *)
(* that may still run keeps the logger and the resources it uses, and a     *)
(* stopped service has released everything.  And for any set of resources   *)
(* that may fail to come up and of threads that may not start: at each step *)
(* of each start, rollback and stop what is held and what runs is in order, *)
(* and main answers what is so.                                             *)
(***************************************************************************)
EXTENDS MCServiceThread, SequenceTheorems, TLAPS

-----------------------------------------------------------------------------
(* The stop of one service: the inductive invariant *)

(* A worker that has reported its end does not run again before the next     *)
(* start.                                                                   *)
StopInv == thread_stopped => worker # "run"

(* A call of deinit is under way only in a started service.  It is past the  *)
(* wait only if the worker has stopped, past the logger only if that is     *)
(* down, and past the thread only if that is gone.                          *)
CallInv ==
  /\ caller # "idle" => service_started
  /\ caller \in {"child", "detach", "execute", "parent"} => thread_stopped
  /\ caller \in {"detach", "execute", "parent"} => ~child
  /\ caller \in {"execute", "parent"} => worker = "gone"

(* The resources go last. *)
ResourceInv == service_started => resources

IInv == /\ TypeOK /\ StopInv /\ CallInv /\ ResourceInv
        /\ WorkerStopsFirst /\ StoppedIsReleased

-----------------------------------------------------------------------------

LEMMA InitIInv == Init => IInv
<1> SUFFICES ASSUME Init PROVE IInv
  OBVIOUS
<1>1. waited \in 0 .. Timeout
  BY TimeoutAssumption, SMT DEF Init
<1>2. TypeOK
  BY <1>1, Zenon DEF Init, TypeOK
<1> QED
  BY <1>2 DEF Init, IInv, StopInv, CallInv, ResourceInv, WorkerStopsFirst,
     StoppedIsReleased

(* The parts of the invariant other than the types, step by step. *)
StateInv == StopInv /\ CallInv /\ ResourceInv /\ WorkerStopsFirst /\ StoppedIsReleased

LEMMA NextType == ASSUME TypeOK, StateInv, Next PROVE TypeOK'
<1> USE TimeoutAssumption DEF TypeOK
<1>1. ASSUME NEW t \in {"worker", "caller", "idle"}, Switch(t) PROVE TypeOK'
  BY <1>1 DEF Switch, flags, parts, call, kernel
<1>2. CASE DelayEnds
  BY <1>2 DEF DelayEnds, flags, parts, kernel
<1>3. CASE ReportStopped
  BY <1>3 DEF ReportStopped, flags, parts, call, kernel
<1>4. CASE SuspendSelf
  BY <1>4 DEF SuspendSelf, flags, parts, call
<1>5. CASE ThreadExit
  <2>1. running' \in {"worker", "caller", "idle"}
    BY <1>5 DEF ThreadExit
  <2> QED BY <1>5, <2>1 DEF ThreadExit, flags, parts, call
<1>6. CASE IdleTakes
  <2>1. listed' \in BOOLEAN /\ idle_holds' \in BOOLEAN
    BY <1>6, Zenon DEF IdleTakes
  <2> QED BY <1>6, <2>1 DEF IdleTakes, flags, parts, call
<1>7. CASE IdleReaps
  <2>1. corrupted' \in BOOLEAN
    BY <1>7, Zenon DEF IdleReaps, Reap
  <2>2. type' = "null" /\ idle_holds' \in BOOLEAN
    BY <1>7, Zenon DEF IdleReaps, Reap
  <2> QED BY <1>7, <2>1, <2>2 DEF IdleReaps, flags, parts, call
<1>8. CASE ServiceInit
  BY <1>8 DEF ServiceInit, call
<1>9. CASE DeinitBegin
  <2>1. thread_should_run' \in BOOLEAN
    BY <1>9, Zenon DEF DeinitBegin
  <2>2. waited' \in 0 .. Timeout
    BY <1>9, SMT DEF DeinitBegin
  <2> QED BY <1>9, <2>1, <2>2 DEF DeinitBegin, parts, kernel
<1>10. CASE WaitForStop
  <2>1. waited' \in 0 .. Timeout
    BY <1>10, SMT DEF WaitForStop, WaitFor
  <2>2. /\ caller' \in {"wait", "delay", "child", "idle"}
        /\ running' \in {"worker", "caller", "idle"}
    BY <1>10 DEF WaitForStop, WaitFor
  <2> QED BY <1>10, <2>1, <2>2 DEF WaitForStop, WaitFor, flags, parts, kernel
<1>11. CASE CleanupChild
  <2>1. PICK ok \in BOOLEAN : /\ child' = (child /\ ~ok)
                              /\ caller' = IF child' THEN "idle" ELSE "detach"
    BY <1>11 DEF CleanupChild
  <2>2. child' \in BOOLEAN
    BY <2>1, Zenon
  <2>3. caller' \in {"idle", "detach"}
    BY <2>1
  <2> QED BY <1>11, <2>2, <2>3 DEF CleanupChild, flags, kernel
<1>12. CASE DetachThread
  BY <1>12 DEF DetachThread, flags, parts
<1>13. CASE DefunctExecute
  <2>1. corrupted' \in BOOLEAN
    BY <1>13, Zenon DEF DefunctExecute, Reap
  <2>2. type' = "null"
    BY <1>13, Zenon DEF DefunctExecute, Reap
  <2> QED BY <1>13, <2>1, <2>2 DEF DefunctExecute, parts
<1>14. CASE CleanupResources
  <2>1. resources' \in BOOLEAN /\ service_started' \in BOOLEAN
    BY <1>14, Zenon DEF CleanupResources
  <2> QED BY <1>14, <2>1 DEF CleanupResources, kernel
<1> QED
  BY <1>1, <1>2, <1>3, <1>4, <1>5, <1>6, <1>7, <1>8, <1>9, <1>10, <1>11, <1>12,
     <1>13, <1>14 DEF Next, DeinitStep

(* Only the start, the end of the worker and the steps of deinit touch what   *)
(* the rest of the invariant speaks of.                                     *)
LEMMA NextState == ASSUME TypeOK, StateInv, Next PROVE StateInv'
<1> USE DEF TypeOK, StateInv, StopInv, CallInv, ResourceInv, WorkerStopsFirst,
            StoppedIsReleased
<1>1. ASSUME NEW t \in {"worker", "caller", "idle"}, Switch(t) PROVE StateInv'
  BY <1>1 DEF Switch, flags, parts, call, kernel
<1>2. CASE DelayEnds
  BY <1>2 DEF DelayEnds, flags, parts, kernel
<1>3. CASE ReportStopped \/ SuspendSelf \/ ThreadExit
  BY <1>3 DEF ReportStopped, SuspendSelf, ThreadExit, flags, parts, call, kernel
<1>4. CASE IdleTakes \/ IdleReaps
  BY <1>4 DEF IdleTakes, IdleReaps, flags, parts, call, kernel
<1>5. CASE ServiceInit
  BY <1>5 DEF ServiceInit, call
<1>6. CASE DeinitBegin
  BY <1>6 DEF DeinitBegin, parts, kernel
<1>7. CASE WaitForStop
  BY <1>7 DEF WaitForStop, WaitFor, flags, parts, kernel
<1>8. CASE CleanupChild
  BY <1>8 DEF CleanupChild, flags, kernel
<1>9. CASE DetachThread
  BY <1>9 DEF DetachThread, flags, parts
<1>10. CASE DefunctExecute
  BY <1>10 DEF DefunctExecute, parts
<1>11. CASE CleanupResources
  BY <1>11 DEF CleanupResources, kernel
<1> QED
  BY <1>1, <1>2, <1>3, <1>4, <1>5, <1>6, <1>7, <1>8, <1>9, <1>10, <1>11
  DEF Next, DeinitStep

(* Every step of worker, caller and idle thread keeps the invariant. *)
LEMMA NextIInv == IInv /\ [Next]_vars => IInv'
<1> SUFFICES ASSUME IInv, [Next]_vars PROVE IInv'
  OBVIOUS
<1>1. CASE Next
  BY <1>1, NextType, NextState DEF IInv, StateInv
<1>2. CASE UNCHANGED vars
  BY <1>2 DEF IInv, TypeOK, StopInv, CallInv, ResourceInv, WorkerStopsFirst,
     StoppedIsReleased, vars, flags, parts, call, kernel
<1> QED BY <1>1, <1>2

(* The invariant of the service's stop is inductive. *)
THEOREM ServiceIInv == Spec => []IInv
  BY InitIInv, NextIInv, PTL DEF Spec

-----------------------------------------------------------------------------

(* Type correctness: the wait never exceeds the timeout. *)
THEOREM ServiceTypeOK == Spec => []TypeOK
<1>1. IInv => TypeOK
  BY DEF IInv
<1> QED BY <1>1, ServiceIInv, PTL

(* However many deinit calls timed out, the logger and the resources are     *)
(* there as long as the worker may use them.                                *)
THEOREM ServiceWorkerStopsFirst == Spec => []WorkerStopsFirst
<1>1. IInv => WorkerStopsFirst
  BY DEF IInv
<1> QED BY <1>1, ServiceIInv, PTL

(* A service that counts as stopped has released logger, resources and        *)
(* thread, also when an earlier attempt failed half way.                    *)
THEOREM ServiceStoppedIsReleased == Spec => []StoppedIsReleased
<1>1. IInv => StoppedIsReleased
  BY DEF IInv
<1> QED BY <1>1, ServiceIInv, PTL
-----------------------------------------------------------------------------
(* The start and the stop of all services (Startup)                         *)
(*                                                                         *)
(* A call is a list of steps.  The lists that the code runs through are     *)
(* named here, each by its first step; the invariant says of every one what *)
(* the services hold when a call has come to it.                            *)

(* The lists of steps: a step, and the steps behind it. *)
Then(step, rest) == <<step>> \o rest

(* The services that are a resource and a thread. *)
Plain     == {"telemetry", "foxglove"}
Port(s)   == IF s = "telemetry" THEN "uart" ELSE "uart1"
Thread(s) == IF s = "telemetry" THEN "telemetry_thread" ELSE "foxglove_thread"

(* Their init from each of its steps on, ... *)
Init4(s) == Then(U!Started(s), <<>>)
Init3(s) == Then(U!StartUp(s), Init4(s))
Init2(s) == Then(U!Enable(s), Init3(s))
Init1(s) == Then(U!Acquire(Thread(s)), Init2(s))
Init0(s) == Then(U!Acquire(Port(s)), Init1(s))

(* ... its rollback, ... *)
Back1(s) == Then(U!Release(Port(s)), <<>>)
Back2(s) == Then(U!Release(Thread(s)), Back1(s))
Back3(s) == Then(U!Disable(s), Back2(s))

(* ... and their deinit. *)
Deinit4(s) == Then(U!Stopped(s), <<>>)
Deinit3(s) == Then(U!Release(Port(s)), Deinit4(s))
Deinit2(s) == Then(U!Release(Thread(s)), Deinit3(s))
Deinit1(s) == Then(U!Wait(s, <<>>), Deinit2(s))
Deinit0(s) == Then(U!Disable(s), Deinit1(s))

(* imu_service_init, ... *)
Imu7 == Then(U!Started("imu"), <<>>)
Imu6 == Then(U!StartUp("imu"), Imu7)
Imu5 == Then(U!Enable("imu"), Imu6)
Imu4 == Then(U!InitLog, Imu5)
Imu3 == Then(U!Acquire("adapter"), Imu4)
Imu2 == Then(U!Acquire("imu_thread"), Imu3)
Imu1 == Then(U!Acquire("event"), Imu2)
Imu0 == Then(U!Acquire("clock"), Imu1)

(* ... imu_log_service_init in it, ... *)
Log4 == Then(U!Started("log"), Imu5)
Log3 == Then(U!StartUp("log"), Log4)
Log2 == Then(U!Enable("log"), Log3)
Log1 == Then(U!Acquire("log_thread"), Log2)
Log0 == Then(U!Acquire("queue"), Log1)

(* ... the rollback of both, ... *)
Undo1 == Then(U!Release("clock"), <<>>)
Undo2 == Then(U!Release("event"), Undo1)
Undo3 == Then(U!Release("imu_thread"), Undo2)
Undo4 == Then(U!Release("adapter"), Undo3)
Undo5 == Then(U!Release("queue"), Undo4)
Undo6 == Then(U!Release("log_thread"), Undo5)
Undo7 == Then(U!Disable("log"), Undo6)

(* ... with imu_log_service_deinit when the IMU thread does not start, ... *)
Fail5 == Then(U!Disable("imu"), Undo4)
Fail4 == Then(U!Stopped("log"), Fail5)
Fail3 == Then(U!Release("queue"), Fail4)
Fail2 == Then(U!Release("log_thread"), Fail3)
Fail1 == Then(U!Wait("log", Fail5), Fail2)
Fail0 == Then(U!Disable("log"), Fail1)

(* ... and imu_service_deinit. *)
Stop11 == Then(U!Stopped("imu"), <<>>)
Stop10 == Then(U!Release("clock"), Stop11)
Stop9  == Then(U!Release("event"), Stop10)
Stop8  == Then(U!Release("adapter"), Stop9)
Stop7  == Then(U!Release("imu_thread"), Stop8)
Stop6  == Then(U!Stopped("log"), Stop7)
Stop5  == Then(U!Release("queue"), Stop6)
Stop4  == Then(U!Release("log_thread"), Stop5)
Stop3  == Then(U!Wait("log", <<>>), Stop4)
Stop2  == Then(U!Disable("log"), Stop3)
Stop1  == Then(U!Wait("imu", <<>>), Stop2)
Stop0  == Then(U!Disable("imu"), Stop1)

-----------------------------------------------------------------------------
(* The inductive invariant: what is held, and what runs, at every step. *)

Kept(s) == U!Owned[s] \cap U!Held

(* A service that is not up, but may be on its way. *)
Off(s, held)   == ~started[s] /\ s \notin alive /\ Kept(s) = held
Fresh(s, held) == Off(s, held) /\ ~stopped[s]
Launched(s)    == ~started[s] /\ s \in alive /\ Kept(s) = U!Owned[s] /\ should_run[s]

(* One that is up, but may be on its way down. *)
On(s, held)    == started[s] /\ Kept(s) = held
Ended(s, held) == On(s, held) /\ s \notin alive
Told(s)        == On(s, U!Owned[s]) /\ ~should_run[s]
Works(s)       == On(s, U!Owned[s]) /\ (should_run[s] => s \in alive)

Resting(s) == Off(s, {}) \/ Works(s)

ImuResting ==
  /\ Resting("imu") /\ Resting("log")
  /\ started["imu"] => started["log"] /\ (should_run["imu"] => should_run["log"])

PlainAt(s) ==
  \/ todo = Init0(s) /\ Fresh(s, {})
  \/ todo = Init1(s) /\ Fresh(s, {Port(s)})
  \/ todo = Init2(s) /\ Fresh(s, U!Owned[s])
  \/ todo = Init3(s) /\ Fresh(s, U!Owned[s]) /\ should_run[s]
  \/ todo = Init4(s) /\ Launched(s)
  \/ todo = Back3(s) /\ Off(s, U!Owned[s])
  \/ todo = Back2(s) /\ Off(s, U!Owned[s])
  \/ todo = Back1(s) /\ Off(s, {Port(s)})
  \/ todo = Deinit0(s) /\ Works(s)
  \/ todo = Deinit1(s) /\ Told(s)
  \/ todo = Deinit2(s) /\ Ended(s, U!Owned[s])
  \/ todo = Deinit3(s) /\ Ended(s, {Port(s)})
  \/ todo = Deinit4(s) /\ Ended(s, {})

AllImu == U!Owned["imu"]
AllLog == U!Owned["log"]
LogUp  == Works("log") /\ should_run["log"]

ImuInitAt ==
  \/ todo = Imu0 /\ Fresh("imu", {}) /\ Resting("log")
  \/ todo = Imu1 /\ Fresh("imu", {"clock"}) /\ Resting("log")
  \/ todo = Imu2 /\ Fresh("imu", {"clock", "event"}) /\ Resting("log")
  \/ todo = Imu3 /\ Fresh("imu", {"clock", "event", "imu_thread"}) /\ Resting("log")
  \/ todo = Imu4 /\ Fresh("imu", AllImu) /\ Resting("log")
  \/ todo = Imu5 /\ Fresh("imu", AllImu) /\ LogUp
  \/ todo = Imu6 /\ Fresh("imu", AllImu) /\ LogUp /\ should_run["imu"]
  \/ todo = Imu7 /\ Launched("imu") /\ LogUp

LogInitAt ==
  /\ Fresh("imu", AllImu)
  /\ \/ todo = Log0 /\ Fresh("log", {})
     \/ todo = Log1 /\ Fresh("log", {"queue"})
     \/ todo = Log2 /\ Fresh("log", AllLog)
     \/ todo = Log3 /\ Fresh("log", AllLog) /\ should_run["log"]
     \/ todo = Log4 /\ Launched("log")

UndoAt ==
  \/ todo = Undo1 /\ Off("imu", {"clock"}) /\ Resting("log")
  \/ todo = Undo2 /\ Off("imu", {"clock", "event"}) /\ Resting("log")
  \/ todo = Undo3 /\ Off("imu", {"clock", "event", "imu_thread"}) /\ Resting("log")
  \/ todo = Undo4 /\ Off("imu", AllImu) /\ Resting("log")
  \/ todo = Undo5 /\ Off("imu", AllImu) /\ Off("log", {"queue"})
  \/ todo = Undo6 /\ Off("imu", AllImu) /\ Off("log", AllLog)
  \/ todo = Undo7 /\ Off("imu", AllImu) /\ Off("log", AllLog)

FailAt ==
  /\ Off("imu", AllImu)
  /\ \/ todo = Fail0 /\ Works("log")
     \/ todo = Fail1 /\ Told("log")
     \/ todo = Fail2 /\ Ended("log", AllLog)
     \/ todo = Fail3 /\ Ended("log", {"queue"})
     \/ todo = Fail4 /\ Ended("log", {})
     \/ todo = Fail5 /\ Resting("log")

StopAt ==
  \/ todo = Stop0 /\ Works("imu") /\ Works("log")
  \/ todo = Stop1 /\ Told("imu") /\ Works("log")
  \/ todo = Stop2 /\ Told("imu") /\ "imu" \notin alive /\ Works("log")
  \/ todo = Stop3 /\ Told("imu") /\ "imu" \notin alive /\ Told("log")
  \/ todo = Stop4 /\ Ended("imu", AllImu) /\ Ended("log", AllLog)
  \/ todo = Stop5 /\ Ended("imu", AllImu) /\ Ended("log", {"queue"})
  \/ todo = Stop6 /\ Ended("imu", AllImu) /\ Ended("log", {})
  \/ todo = Stop7 /\ Ended("imu", AllImu) /\ Off("log", {})
  \/ todo = Stop8 /\ Ended("imu", {"clock", "event", "adapter"}) /\ Off("log", {})
  \/ todo = Stop9 /\ Ended("imu", {"clock", "event"}) /\ Off("log", {})
  \/ todo = Stop10 /\ Ended("imu", {"clock"}) /\ Off("log", {})
  \/ todo = Stop11 /\ Ended("imu", {}) /\ Off("log", {})

ImuAt == ImuInitAt \/ LogInitAt \/ UndoAt \/ FailAt \/ StopAt

(* One call at a time; the services it is not about rest. *)
Calls ==
  \/ todo = <<>> /\ Resting("telemetry") /\ Resting("foxglove") /\ ImuResting
  \/ PlainAt("telemetry") /\ Resting("foxglove") /\ ImuResting
  \/ PlainAt("foxglove") /\ Resting("telemetry") /\ ImuResting
  \/ ImuAt /\ Resting("telemetry") /\ Resting("foxglove")

(* What a service that is not up holds it took in the order of its init. *)
Rank ==
  [uart |-> 1, telemetry_thread |-> 2, uart1 |-> 1, foxglove_thread |-> 2,
   clock |-> 1, event |-> 2, imu_thread |-> 3, adapter |-> 4, queue |-> 5,
   log_thread |-> 6]

Before(o, q, r) == \E i, j \in DOMAIN o : i < j /\ o[i] = q /\ o[j] = r

Fallen == UNION {U!Owned[s] : s \in {t \in U!Services : ~started[t]}}

Stacked ==
  \A q, r \in U!Held \cap Fallen : Rank[q] < Rank[r] => Before(order, q, r)

(* main, between and in its calls *)
MainAt ==
  /\ main = "begin" => todo = <<>> /\ ~started["imu"]
  /\ main = "telemetry" => /\ ~started["imu"]
                           /\ todo # <<>> => PlainAt("telemetry")
  /\ main = "imu" => /\ U!Up("telemetry")
                     /\ IF todo = <<>> THEN started["imu"] => should_run["imu"]
                        ELSE ImuAt /\ ~started["imu"]
  /\ main = "undo" => /\ ~started["imu"]
                      /\ \/ todo = Deinit0("telemetry")
                         \/ ~started["telemetry"] \/ ~should_run["telemetry"]
                      /\ todo # <<>> => PlainAt("telemetry") /\ started["telemetry"]
  /\ main = "foxglove" => /\ U!Up("telemetry") /\ U!Up("imu")
                          /\ todo # <<>> => PlainAt("foxglove")

StartupInv ==
  /\ U!TypeOK /\ (\A s \in U!Services : stopped[s] => s \notin alive)
  /\ Calls /\ Stacked /\ MainAt

-----------------------------------------------------------------------------
(* The lists *)

Kinds   == {"acquire", "release", "enable", "disable", "startup", "started",
            "gone", "init"}
StepSet == [do : Kinds, what : U!Resources \cup U!Services]
             \cup {U!Wait(s, late) : s \in U!Services, late \in {<<>>, Fail5}}

(* What a list is: a step to make, and the ones behind it. *)
Now(list, step, rest) ==
  /\ list \in Seq(StepSet) /\ list # <<>>
  /\ Head(list) = step /\ Tail(list) = rest /\ step \in StepSet

(* The names of the code. *)
LEMMA Names ==
  /\ U!Services = {"telemetry", "imu", "log", "foxglove"}
  /\ U!Owned["telemetry"] = {"uart", "telemetry_thread"}
  /\ U!Owned["imu"] = {"clock", "event", "imu_thread", "adapter"}
  /\ U!Owned["log"] = {"queue", "log_thread"}
  /\ U!Owned["foxglove"] = {"uart1", "foxglove_thread"}
  /\ U!Resources = {"uart", "telemetry_thread", "clock", "event", "imu_thread",
                    "adapter", "queue", "log_thread", "uart1", "foxglove_thread"}
  BY DEF U!Services, U!Owned, U!Resources

(* The two plain services own their port and their thread. *)
LEMMA PlainNames ==
  \A s \in Plain : /\ s \in U!Services /\ U!Owned[s] = {Port(s), Thread(s)}
                   /\ Port(s) \in U!Resources /\ Thread(s) \in U!Resources
                   /\ Port(s) # Thread(s)
  BY Names, SMT DEF Plain, Port, Thread

(* Every step the code makes is one. *)
LEMMA StepTypes ==
  /\ \A r \in U!Resources : U!Acquire(r) \in StepSet /\ U!Release(r) \in StepSet
  /\ \A s \in U!Services :
       /\ U!Enable(s) \in StepSet /\ U!Disable(s) \in StepSet
       /\ U!StartUp(s) \in StepSet /\ U!Started(s) \in StepSet
       /\ U!Stopped(s) \in StepSet
       /\ U!Wait(s, <<>>) \in StepSet /\ U!Wait(s, Fail5) \in StepSet
  /\ U!InitLog \in StepSet
<1>1. \A k \in Kinds, w \in U!Resources \cup U!Services :
        [do |-> k, what |-> w] \in StepSet
  BY DEF StepSet
<1>2. "log" \in U!Services
  BY Names
<1>3. U!InitLog \in StepSet
  BY <1>1, <1>2 DEF U!InitLog, Kinds
<1>4. \A r \in U!Resources : U!Acquire(r) \in StepSet /\ U!Release(r) \in StepSet
  BY <1>1 DEF U!Acquire, U!Release, Kinds
<1>5. \A s \in U!Services :
        /\ U!Enable(s) \in StepSet /\ U!Disable(s) \in StepSet
        /\ U!StartUp(s) \in StepSet /\ U!Started(s) \in StepSet
        /\ U!Stopped(s) \in StepSet
  BY <1>1 DEF U!Enable, U!Disable, U!StartUp, U!Started, U!Stopped, Kinds
<1>6. \A s \in U!Services : U!Wait(s, <<>>) \in StepSet /\ U!Wait(s, Fail5) \in StepSet
  <2> DEFINE W(s, late) == U!Wait(s, late)
  <2> HIDE DEF W
  <2>1. StepSet = [do : Kinds, what : U!Resources \cup U!Services]
                    \cup {W(s, late) : s \in U!Services, late \in {<<>>, Fail5}}
    BY DEF StepSet, W
  <2>2. \A s \in U!Services : W(s, <<>>) \in StepSet /\ W(s, Fail5) \in StepSet
    BY <2>1
  <2> QED BY <2>2 DEF W
<1> QED
  BY <1>3, <1>4, <1>5, <1>6

(* Every step names a resource or a service. *)
LEMMA StepNames == \A step \in StepSet : step.what \in U!Resources \cup U!Services
  BY SMT DEF StepSet, U!Wait

(* A step put before a list. *)
LEMMA NowThen ==
  \A step \in StepSet, rest \in Seq(StepSet) : Now(Then(step, rest), step, rest)
<1> SUFFICES ASSUME NEW step \in StepSet, NEW rest \in Seq(StepSet)
             PROVE  Now(Then(step, rest), step, rest)
  OBVIOUS
<1> DEFINE one == <<step>>
<1>1. one \in Seq(StepSet) /\ Len(one) = 1 /\ one[1] = step
  OBVIOUS
<1> HIDE DEF one
<1>3. Len(rest) \in Nat
  BY LenProperties
<1>2. /\ one \o rest \in Seq(StepSet) /\ Len(one \o rest) = 1 + Len(rest)
      /\ \A i \in 1 .. Len(one \o rest) :
           (one \o rest)[i] = IF i <= 1 THEN one[i] ELSE rest[i - 1]
  <2>1. /\ one \o rest \in Seq(StepSet)
        /\ Len(one \o rest) = Len(one) + Len(rest)
        /\ \A i \in 1 .. Len(one) + Len(rest) :
             (one \o rest)[i] = IF i <= Len(one) THEN one[i] ELSE rest[i - Len(one)]
    BY <1>1, ConcatProperties, Zenon
  <2> QED BY <1>1, <1>3, <2>1
<1> DEFINE l == one \o rest
<1>4. l = Then(step, rest)
  BY DEF one, Then
<1> HIDE DEF l
<1>5. /\ l \in Seq(StepSet) /\ Len(l) = 1 + Len(rest) /\ l # <<>>
      /\ \A i \in 1 .. Len(l) : l[i] = IF i <= 1 THEN one[i] ELSE rest[i - 1]
  BY <1>2, <1>3 DEF l
<1>6. Head(l) = step
  BY <1>1, <1>3, <1>5
<1>7. /\ Tail(l) \in Seq(StepSet) /\ Len(Tail(l)) = Len(l) - 1
      /\ \A i \in 1 .. Len(l) - 1 : Tail(l)[i] = l[i + 1]
  BY <1>3, <1>5, HeadTailProperties
<1>8. Len(Tail(l)) = Len(rest)
  BY <1>3, <1>5, <1>7
<1>9. \A i \in 1 .. Len(rest) : Tail(l)[i] = rest[i]
  BY <1>3, <1>5, <1>7
<1>10. Tail(l) = rest
  BY <1>7, <1>8, <1>9, SeqEqual
<1> QED
  BY <1>4, <1>5, <1>6, <1>10 DEF Now

(* The empty list is one. *)
LEMMA EmptySteps == <<>> \in Seq(StepSet) /\ {"imu", "log"} \subseteq U!Services
  BY Names

(* The lists of a service that is a resource and a thread. *)
LEMMA PlainLists ==
  ASSUME NEW s \in Plain
  PROVE  /\ Now(Init4(s), U!Started(s), <<>>)
         /\ Now(Init3(s), U!StartUp(s), Init4(s))
         /\ Now(Init2(s), U!Enable(s), Init3(s))
         /\ Now(Init1(s), U!Acquire(Thread(s)), Init2(s))
         /\ Now(Init0(s), U!Acquire(Port(s)), Init1(s))
         /\ Now(Back1(s), U!Release(Port(s)), <<>>)
         /\ Now(Back2(s), U!Release(Thread(s)), Back1(s))
         /\ Now(Back3(s), U!Disable(s), Back2(s))
         /\ Now(Deinit4(s), U!Stopped(s), <<>>)
         /\ Now(Deinit3(s), U!Release(Port(s)), Deinit4(s))
         /\ Now(Deinit2(s), U!Release(Thread(s)), Deinit3(s))
         /\ Now(Deinit1(s), U!Wait(s, <<>>), Deinit2(s))
         /\ Now(Deinit0(s), U!Disable(s), Deinit1(s))
<1>1. Now(Init4(s), U!Started(s), <<>>)
  BY NowThen, StepTypes, EmptySteps, PlainNames, Zenon DEF Init4, Now
<1>2. Now(Init3(s), U!StartUp(s), Init4(s))
  BY NowThen, <1>1, StepTypes, EmptySteps, PlainNames, Zenon DEF Init3, Now
<1>3. Now(Init2(s), U!Enable(s), Init3(s))
  BY NowThen, <1>2, StepTypes, EmptySteps, PlainNames, Zenon DEF Init2, Now
<1>4. Now(Init1(s), U!Acquire(Thread(s)), Init2(s))
  BY NowThen, <1>3, StepTypes, EmptySteps, PlainNames, Zenon DEF Init1, Now
<1>5. Now(Init0(s), U!Acquire(Port(s)), Init1(s))
  BY NowThen, <1>4, StepTypes, EmptySteps, PlainNames, Zenon DEF Init0, Now
<1>6. Now(Back1(s), U!Release(Port(s)), <<>>)
  BY NowThen, StepTypes, EmptySteps, PlainNames, Zenon DEF Back1, Now
<1>7. Now(Back2(s), U!Release(Thread(s)), Back1(s))
  BY NowThen, <1>6, StepTypes, EmptySteps, PlainNames, Zenon DEF Back2, Now
<1>8. Now(Back3(s), U!Disable(s), Back2(s))
  BY NowThen, <1>7, StepTypes, EmptySteps, PlainNames, Zenon DEF Back3, Now
<1>9. Now(Deinit4(s), U!Stopped(s), <<>>)
  BY NowThen, StepTypes, EmptySteps, PlainNames, Zenon DEF Deinit4, Now
<1>10. Now(Deinit3(s), U!Release(Port(s)), Deinit4(s))
  BY NowThen, <1>9, StepTypes, EmptySteps, PlainNames, Zenon DEF Deinit3, Now
<1>11. Now(Deinit2(s), U!Release(Thread(s)), Deinit3(s))
  BY NowThen, <1>10, StepTypes, EmptySteps, PlainNames, Zenon DEF Deinit2, Now
<1>12. Now(Deinit1(s), U!Wait(s, <<>>), Deinit2(s))
  BY NowThen, <1>11, StepTypes, EmptySteps, PlainNames, Zenon DEF Deinit1, Now
<1>13. Now(Deinit0(s), U!Disable(s), Deinit1(s))
  BY NowThen, <1>12, StepTypes, EmptySteps, PlainNames, Zenon DEF Deinit0, Now
<1> QED
  BY <1>1, <1>2, <1>3, <1>4, <1>5, <1>6, <1>7, <1>8, <1>9, <1>10, <1>11, <1>12,
     <1>13

(* The lists of imu_service and imu_log_service. *)
LEMMA ImuLists ==
  /\ Now(Imu7, U!Started("imu"), <<>>)
  /\ Now(Imu6, U!StartUp("imu"), Imu7)
  /\ Now(Imu5, U!Enable("imu"), Imu6)
  /\ Now(Imu4, U!InitLog, Imu5)
  /\ Now(Imu3, U!Acquire("adapter"), Imu4)
  /\ Now(Imu2, U!Acquire("imu_thread"), Imu3)
  /\ Now(Imu1, U!Acquire("event"), Imu2)
  /\ Now(Imu0, U!Acquire("clock"), Imu1)
  /\ Now(Log4, U!Started("log"), Imu5)
  /\ Now(Log3, U!StartUp("log"), Log4)
  /\ Now(Log2, U!Enable("log"), Log3)
  /\ Now(Log1, U!Acquire("log_thread"), Log2)
  /\ Now(Log0, U!Acquire("queue"), Log1)
  /\ Now(Undo1, U!Release("clock"), <<>>)
  /\ Now(Undo2, U!Release("event"), Undo1)
  /\ Now(Undo3, U!Release("imu_thread"), Undo2)
  /\ Now(Undo4, U!Release("adapter"), Undo3)
  /\ Now(Undo5, U!Release("queue"), Undo4)
  /\ Now(Undo6, U!Release("log_thread"), Undo5)
  /\ Now(Undo7, U!Disable("log"), Undo6)
  /\ Now(Fail5, U!Disable("imu"), Undo4)
  /\ Now(Fail4, U!Stopped("log"), Fail5)
  /\ Now(Fail3, U!Release("queue"), Fail4)
  /\ Now(Fail2, U!Release("log_thread"), Fail3)
  /\ Now(Fail1, U!Wait("log", Fail5), Fail2)
  /\ Now(Fail0, U!Disable("log"), Fail1)
  /\ Now(Stop11, U!Stopped("imu"), <<>>)
  /\ Now(Stop10, U!Release("clock"), Stop11)
  /\ Now(Stop9, U!Release("event"), Stop10)
  /\ Now(Stop8, U!Release("adapter"), Stop9)
  /\ Now(Stop7, U!Release("imu_thread"), Stop8)
  /\ Now(Stop6, U!Stopped("log"), Stop7)
  /\ Now(Stop5, U!Release("queue"), Stop6)
  /\ Now(Stop4, U!Release("log_thread"), Stop5)
  /\ Now(Stop3, U!Wait("log", <<>>), Stop4)
  /\ Now(Stop2, U!Disable("log"), Stop3)
  /\ Now(Stop1, U!Wait("imu", <<>>), Stop2)
  /\ Now(Stop0, U!Disable("imu"), Stop1)
<1>1. Now(Imu7, U!Started("imu"), <<>>)
  BY NowThen, StepTypes, EmptySteps, Names, Zenon DEF Imu7, Now
<1>2. Now(Imu6, U!StartUp("imu"), Imu7)
  BY NowThen, <1>1, StepTypes, EmptySteps, Names, Zenon DEF Imu6, Now
<1>3. Now(Imu5, U!Enable("imu"), Imu6)
  BY NowThen, <1>2, StepTypes, EmptySteps, Names, Zenon DEF Imu5, Now
<1>4. Now(Imu4, U!InitLog, Imu5)
  BY NowThen, <1>3, StepTypes, EmptySteps, Names, Zenon DEF Imu4, Now
<1>5. Now(Imu3, U!Acquire("adapter"), Imu4)
  BY NowThen, <1>4, StepTypes, EmptySteps, Names, Zenon DEF Imu3, Now
<1>6. Now(Imu2, U!Acquire("imu_thread"), Imu3)
  BY NowThen, <1>5, StepTypes, EmptySteps, Names, Zenon DEF Imu2, Now
<1>7. Now(Imu1, U!Acquire("event"), Imu2)
  BY NowThen, <1>6, StepTypes, EmptySteps, Names, Zenon DEF Imu1, Now
<1>8. Now(Imu0, U!Acquire("clock"), Imu1)
  BY NowThen, <1>7, StepTypes, EmptySteps, Names, Zenon DEF Imu0, Now
<1>9. Now(Log4, U!Started("log"), Imu5)
  BY NowThen, <1>3, StepTypes, EmptySteps, Names, Zenon DEF Log4, Now
<1>10. Now(Log3, U!StartUp("log"), Log4)
  BY NowThen, <1>9, StepTypes, EmptySteps, Names, Zenon DEF Log3, Now
<1>11. Now(Log2, U!Enable("log"), Log3)
  BY NowThen, <1>10, StepTypes, EmptySteps, Names, Zenon DEF Log2, Now
<1>12. Now(Log1, U!Acquire("log_thread"), Log2)
  BY NowThen, <1>11, StepTypes, EmptySteps, Names, Zenon DEF Log1, Now
<1>13. Now(Log0, U!Acquire("queue"), Log1)
  BY NowThen, <1>12, StepTypes, EmptySteps, Names, Zenon DEF Log0, Now
<1>14. Now(Undo1, U!Release("clock"), <<>>)
  BY NowThen, StepTypes, EmptySteps, Names, Zenon DEF Undo1, Now
<1>15. Now(Undo2, U!Release("event"), Undo1)
  BY NowThen, <1>14, StepTypes, EmptySteps, Names, Zenon DEF Undo2, Now
<1>16. Now(Undo3, U!Release("imu_thread"), Undo2)
  BY NowThen, <1>15, StepTypes, EmptySteps, Names, Zenon DEF Undo3, Now
<1>17. Now(Undo4, U!Release("adapter"), Undo3)
  BY NowThen, <1>16, StepTypes, EmptySteps, Names, Zenon DEF Undo4, Now
<1>18. Now(Undo5, U!Release("queue"), Undo4)
  BY NowThen, <1>17, StepTypes, EmptySteps, Names, Zenon DEF Undo5, Now
<1>19. Now(Undo6, U!Release("log_thread"), Undo5)
  BY NowThen, <1>18, StepTypes, EmptySteps, Names, Zenon DEF Undo6, Now
<1>20. Now(Undo7, U!Disable("log"), Undo6)
  BY NowThen, <1>19, StepTypes, EmptySteps, Names, Zenon DEF Undo7, Now
<1>21. Now(Fail5, U!Disable("imu"), Undo4)
  BY NowThen, <1>17, StepTypes, EmptySteps, Names, Zenon DEF Fail5, Now
<1>22. Now(Fail4, U!Stopped("log"), Fail5)
  BY NowThen, <1>21, StepTypes, EmptySteps, Names, Zenon DEF Fail4, Now
<1>23. Now(Fail3, U!Release("queue"), Fail4)
  BY NowThen, <1>22, StepTypes, EmptySteps, Names, Zenon DEF Fail3, Now
<1>24. Now(Fail2, U!Release("log_thread"), Fail3)
  BY NowThen, <1>23, StepTypes, EmptySteps, Names, Zenon DEF Fail2, Now
<1>25. Now(Fail1, U!Wait("log", Fail5), Fail2)
  BY NowThen, <1>21, <1>24, StepTypes, EmptySteps, Names, Zenon DEF Fail1, Now
<1>26. Now(Fail0, U!Disable("log"), Fail1)
  BY NowThen, <1>25, StepTypes, EmptySteps, Names, Zenon DEF Fail0, Now
<1>27. Now(Stop11, U!Stopped("imu"), <<>>)
  BY NowThen, StepTypes, EmptySteps, Names, Zenon DEF Stop11, Now
<1>28. Now(Stop10, U!Release("clock"), Stop11)
  BY NowThen, <1>27, StepTypes, EmptySteps, Names, Zenon DEF Stop10, Now
<1>29. Now(Stop9, U!Release("event"), Stop10)
  BY NowThen, <1>28, StepTypes, EmptySteps, Names, Zenon DEF Stop9, Now
<1>30. Now(Stop8, U!Release("adapter"), Stop9)
  BY NowThen, <1>29, StepTypes, EmptySteps, Names, Zenon DEF Stop8, Now
<1>31. Now(Stop7, U!Release("imu_thread"), Stop8)
  BY NowThen, <1>30, StepTypes, EmptySteps, Names, Zenon DEF Stop7, Now
<1>32. Now(Stop6, U!Stopped("log"), Stop7)
  BY NowThen, <1>31, StepTypes, EmptySteps, Names, Zenon DEF Stop6, Now
<1>33. Now(Stop5, U!Release("queue"), Stop6)
  BY NowThen, <1>32, StepTypes, EmptySteps, Names, Zenon DEF Stop5, Now
<1>34. Now(Stop4, U!Release("log_thread"), Stop5)
  BY NowThen, <1>33, StepTypes, EmptySteps, Names, Zenon DEF Stop4, Now
<1>35. Now(Stop3, U!Wait("log", <<>>), Stop4)
  BY NowThen, <1>34, StepTypes, EmptySteps, Names, Zenon DEF Stop3, Now
<1>36. Now(Stop2, U!Disable("log"), Stop3)
  BY NowThen, <1>35, StepTypes, EmptySteps, Names, Zenon DEF Stop2, Now
<1>37. Now(Stop1, U!Wait("imu", <<>>), Stop2)
  BY NowThen, <1>36, StepTypes, EmptySteps, Names, Zenon DEF Stop1, Now
<1>38. Now(Stop0, U!Disable("imu"), Stop1)
  BY NowThen, <1>37, StepTypes, EmptySteps, Names, Zenon DEF Stop0, Now
<1> QED
  BY <1>1, <1>2, <1>3, <1>4, <1>5, <1>6, <1>7, <1>8, <1>9, <1>10, <1>11, <1>12,
     <1>13, <1>14, <1>15, <1>16, <1>17, <1>18, <1>19, <1>20, <1>21, <1>22,
     <1>23, <1>24, <1>25, <1>26, <1>27, <1>28, <1>29, <1>30, <1>31, <1>32,
     <1>33, <1>34, <1>35, <1>36, <1>37, <1>38

-----------------------------------------------------------------------------
(* The lists of the code are these lists. *)

(* Tuples by their length, so that a proof need not look into them. *)
Tup1(l) == <<l>>
Tup2(k, l) == <<k, l>>
Tup3(j, k, l) == <<j, k, l>>
Tup4(i, j, k, l) == <<i, j, k, l>>
Tup5(h, i, j, k, l) == <<h, i, j, k, l>>
Tup6(g, h, i, j, k, l) == <<g, h, i, j, k, l>>
Tup7(f, g, h, i, j, k, l) == <<f, g, h, i, j, k, l>>
Tup8(e, f, g, h, i, j, k, l) == <<e, f, g, h, i, j, k, l>>
Tup9(d, e, f, g, h, i, j, k, l) == <<d, e, f, g, h, i, j, k, l>>
Tup10(c, d, e, f, g, h, i, j, k, l) == <<c, d, e, f, g, h, i, j, k, l>>
Tup11(b, c, d, e, f, g, h, i, j, k, l) == <<b, c, d, e, f, g, h, i, j, k, l>>
Tup12(a, b, c, d, e, f, g, h, i, j, k, l) == <<a, b, c, d, e, f, g, h, i, j, k, l>>

(* A tuple is its first member put before the others. *)
LEMMA Tuples ==
  /\ \A l :
       Tup1(l) = Then(l, <<>>)
  /\ \A k, l :
       Tup2(k, l) = Then(k, Tup1(l))
  /\ \A j, k, l :
       Tup3(j, k, l) = Then(j, Tup2(k, l))
  /\ \A i, j, k, l :
       Tup4(i, j, k, l) = Then(i, Tup3(j, k, l))
  /\ \A h, i, j, k, l :
       Tup5(h, i, j, k, l) = Then(h, Tup4(i, j, k, l))
  /\ \A g, h, i, j, k, l :
       Tup6(g, h, i, j, k, l) = Then(g, Tup5(h, i, j, k, l))
  /\ \A f, g, h, i, j, k, l :
       Tup7(f, g, h, i, j, k, l) = Then(f, Tup6(g, h, i, j, k, l))
  /\ \A e, f, g, h, i, j, k, l :
       Tup8(e, f, g, h, i, j, k, l) = Then(e, Tup7(f, g, h, i, j, k, l))
  /\ \A d, e, f, g, h, i, j, k, l :
       Tup9(d, e, f, g, h, i, j, k, l) = Then(d, Tup8(e, f, g, h, i, j, k, l))
  /\ \A c, d, e, f, g, h, i, j, k, l :
       Tup10(c, d, e, f, g, h, i, j, k, l) = Then(c, Tup9(d, e, f, g, h, i, j, k, l))
  /\ \A b, c, d, e, f, g, h, i, j, k, l :
       Tup11(b, c, d, e, f, g, h, i, j, k, l) = Then(b, Tup10(c, d, e, f, g, h, i, j, k, l))
  /\ \A a, b, c, d, e, f, g, h, i, j, k, l :
       Tup12(a, b, c, d, e, f, g, h, i, j, k, l) = Then(a, Tup11(b, c, d, e, f, g, h, i, j, k, l))
<1>1. ASSUME NEW l
      PROVE  Tup1(l) = Then(l, <<>>)
  BY SMT DEF Then, Tup1
<1>2. ASSUME NEW k, NEW l
      PROVE  Tup2(k, l) = Then(k, Tup1(l))
  <2> DEFINE S == {k, l}
             x == <<k>>
             y == <<l>>
             t == <<k, l>>
  <2>1. /\ x \in Seq(S) /\ Len(x) = 1 /\ x[1] = k
        /\ y \in Seq(S) /\ Len(y) = 1 /\ y[1] = l
        /\ t \in Seq(S) /\ Len(t) = 2 /\ t[1] = k /\ t[2] = l
    OBVIOUS
  <2> HIDE DEF x, y, t, S
  <2>2. /\ x \o y \in Seq(S) /\ Len(x \o y) = Len(x) + Len(y)
        /\ \A i \in 1 .. Len(x) + Len(y) :
             (x \o y)[i] = IF i <= Len(x) THEN x[i] ELSE y[i - Len(x)]
    BY <2>1, ConcatProperties, Zenon
  <2>3. \A i \in 1 .. Len(t) : t[i] = (x \o y)[i]
    BY <2>1, <2>2
  <2>4. Len(t) = Len(x \o y)
    BY <2>1, <2>2
  <2>5. t = x \o y
    BY <2>1, <2>2, <2>3, <2>4, SeqEqual, Zenon
  <2> QED
    BY <2>5, Zenon DEF Then, Tup1, Tup2, t, x, y
<1>3. ASSUME NEW j, NEW k, NEW l
      PROVE  Tup3(j, k, l) = Then(j, Tup2(k, l))
  BY SMT DEF Then, Tup3, Tup2
<1>4. ASSUME NEW i, NEW j, NEW k, NEW l
      PROVE  Tup4(i, j, k, l) = Then(i, Tup3(j, k, l))
  BY SMT DEF Then, Tup4, Tup3
<1>5. ASSUME NEW h, NEW i, NEW j, NEW k, NEW l
      PROVE  Tup5(h, i, j, k, l) = Then(h, Tup4(i, j, k, l))
  BY SMT DEF Then, Tup5, Tup4
<1>6. ASSUME NEW g, NEW h, NEW i, NEW j, NEW k, NEW l
      PROVE  Tup6(g, h, i, j, k, l) = Then(g, Tup5(h, i, j, k, l))
  BY SMT DEF Then, Tup6, Tup5
<1>7. ASSUME NEW f, NEW g, NEW h, NEW i, NEW j, NEW k, NEW l
      PROVE  Tup7(f, g, h, i, j, k, l) = Then(f, Tup6(g, h, i, j, k, l))
  BY SMT DEF Then, Tup7, Tup6
<1>8. ASSUME NEW e, NEW f, NEW g, NEW h, NEW i, NEW j, NEW k, NEW l
      PROVE  Tup8(e, f, g, h, i, j, k, l) = Then(e, Tup7(f, g, h, i, j, k, l))
  BY SMT DEF Then, Tup8, Tup7
<1>9. ASSUME NEW d, NEW e, NEW f, NEW g, NEW h, NEW i, NEW j, NEW k, NEW l
      PROVE  Tup9(d, e, f, g, h, i, j, k, l) = Then(d, Tup8(e, f, g, h, i, j, k, l))
  BY SMT DEF Then, Tup9, Tup8
<1>10. ASSUME NEW c, NEW d, NEW e, NEW f, NEW g, NEW h, NEW i, NEW j, NEW k, NEW l
      PROVE  Tup10(c, d, e, f, g, h, i, j, k, l) = Then(c, Tup9(d, e, f, g, h, i, j, k, l))
  BY SMT DEF Then, Tup10, Tup9
<1>11. ASSUME NEW b, NEW c, NEW d, NEW e, NEW f, NEW g, NEW h, NEW i, NEW j, NEW k, NEW l
      PROVE  Tup11(b, c, d, e, f, g, h, i, j, k, l) = Then(b, Tup10(c, d, e, f, g, h, i, j, k, l))
  BY SMT DEF Then, Tup11, Tup10
<1>12. ASSUME NEW a, NEW b, NEW c, NEW d, NEW e, NEW f, NEW g, NEW h, NEW i, NEW j, NEW k, NEW l
      PROVE  Tup12(a, b, c, d, e, f, g, h, i, j, k, l) = Then(a, Tup11(b, c, d, e, f, g, h, i, j, k, l))
  BY SMT DEF Then, Tup12, Tup11
<1> QED
  BY <1>1, <1>2, <1>3, <1>4, <1>5, <1>6, <1>7, <1>8, <1>9, <1>10, <1>11, <1>12

(* The init of a plain service, of imu_service, and of the log within it. *)
LEMMA InitLists ==
  /\ \A s \in Plain : U!InitSteps[s] = Init0(s)
  /\ U!InitSteps["imu"] = Imu0 /\ U!InitSteps["log"] \o Imu5 = Log0
<1>1. \A s \in Plain :
        Init0(s) = Tup5(U!Acquire(Port(s)), U!Acquire(Thread(s)), U!Enable(s),
                     U!StartUp(s), U!Started(s))
  BY Tuples, SMT
     DEF Init0, Init1, Init2, Init3, Init4
<1>2. U!InitSteps["telemetry"] = Init0("telemetry")
  <2>1. U!InitSteps["telemetry"]
          = <<U!Acquire("uart"), U!Acquire("telemetry_thread")>>
              \o <<U!Enable("telemetry"), U!StartUp("telemetry"),
                   U!Started("telemetry")>>
    BY Zenon DEF U!InitSteps, U!Running
  <2>2. <<U!Acquire("uart"), U!Acquire("telemetry_thread"), U!Enable("telemetry"),
          U!StartUp("telemetry"), U!Started("telemetry")>>
          = <<U!Acquire("uart"), U!Acquire("telemetry_thread")>>
              \o <<U!Enable("telemetry"), U!StartUp("telemetry"),
                   U!Started("telemetry")>>
    BY SMT
  <2>3. Port("telemetry") = "uart" /\ Thread("telemetry") = "telemetry_thread"
    BY DEF Port, Thread
  <2> QED BY <1>1, <2>1, <2>2, <2>3, Zenon DEF Tup5, Plain
<1>3. U!InitSteps["foxglove"] = Init0("foxglove")
  <2>1. U!InitSteps["foxglove"]
          = <<U!Acquire("uart1"), U!Acquire("foxglove_thread")>>
              \o <<U!Enable("foxglove"), U!StartUp("foxglove"),
                   U!Started("foxglove")>>
    BY Zenon DEF U!InitSteps, U!Running
  <2>2. <<U!Acquire("uart1"), U!Acquire("foxglove_thread"), U!Enable("foxglove"),
          U!StartUp("foxglove"), U!Started("foxglove")>>
          = <<U!Acquire("uart1"), U!Acquire("foxglove_thread")>>
              \o <<U!Enable("foxglove"), U!StartUp("foxglove"),
                   U!Started("foxglove")>>
    BY SMT
  <2>3. Port("foxglove") = "uart1" /\ Thread("foxglove") = "foxglove_thread"
    BY DEF Port, Thread
  <2> QED BY <1>1, <2>1, <2>2, <2>3, Zenon DEF Tup5, Plain
<1>4. Imu5 = Tup3(U!Enable("imu"), U!StartUp("imu"), U!Started("imu"))
  BY Tuples, SMT DEF Imu5, Imu6, Imu7
<1>5. Imu0 = Tup8(U!Acquire("clock"), U!Acquire("event"), U!Acquire("imu_thread"),
               U!Acquire("adapter"), U!InitLog, U!Enable("imu"), U!StartUp("imu"),
               U!Started("imu"))
  BY <1>4, Tuples, SMT
     DEF Imu0, Imu1, Imu2, Imu3, Imu4
<1>6. Log0 = Tup8(U!Acquire("queue"), U!Acquire("log_thread"), U!Enable("log"),
               U!StartUp("log"), U!Started("log"), U!Enable("imu"),
               U!StartUp("imu"), U!Started("imu"))
  BY <1>4, Tuples, SMT
     DEF Log0, Log1, Log2, Log3, Log4
<1>7. U!InitSteps["imu"] = Imu0
  <2>1. <<U!Acquire("clock"), U!Acquire("event"), U!Acquire("imu_thread"),
          U!Acquire("adapter"), U!InitLog, U!Enable("imu"), U!StartUp("imu"),
          U!Started("imu")>>
          = <<U!Acquire("clock"), U!Acquire("event"), U!Acquire("imu_thread"),
              U!Acquire("adapter"), U!InitLog>>
              \o <<U!Enable("imu"), U!StartUp("imu"), U!Started("imu")>>
    BY SMT
  <2>2. U!InitSteps["imu"]
          = <<U!Acquire("clock"), U!Acquire("event"), U!Acquire("imu_thread"),
              U!Acquire("adapter"), U!InitLog>>
              \o <<U!Enable("imu"), U!StartUp("imu"), U!Started("imu")>>
    BY Zenon DEF U!InitSteps, U!Running
  <2> QED BY <1>5, <2>1, <2>2, Zenon DEF Tup8
<1>8. U!InitSteps["log"] \o Imu5 = Log0
  <2>1. <<U!Acquire("queue"), U!Acquire("log_thread"), U!Enable("log"),
          U!StartUp("log"), U!Started("log"), U!Enable("imu"),
          U!StartUp("imu"), U!Started("imu")>>
          = (<<U!Acquire("queue"), U!Acquire("log_thread")>>
               \o <<U!Enable("log"), U!StartUp("log"), U!Started("log")>>)
              \o <<U!Enable("imu"), U!StartUp("imu"), U!Started("imu")>>
    BY SMT
  <2>2. U!InitSteps["log"]
          = <<U!Acquire("queue"), U!Acquire("log_thread")>>
              \o <<U!Enable("log"), U!StartUp("log"), U!Started("log")>>
    BY Zenon DEF U!InitSteps, U!Running
  <2> QED BY <1>4, <1>6, <2>1, <2>2, Zenon DEF Tup3, Tup8
<1> QED
  BY <1>2, <1>3, <1>7, <1>8 DEF Plain

(* The deinit of a plain service and of imu_service, whose logger is up. *)
LEMMA DeinitLists ==
  /\ \A s \in Plain : U!DeinitSteps(s) = Deinit0(s)
  /\ started["log"] => U!DeinitSteps("imu") = Stop0
<1>1. \A s \in Plain :
        Deinit0(s) = Tup5(U!Disable(s), U!Wait(s, <<>>), U!Release(Thread(s)),
                       U!Release(Port(s)), U!Stopped(s))
  BY Tuples, SMT
     DEF Deinit0, Deinit1, Deinit2, Deinit3, Deinit4
<1>2. \A s \in Plain : U!DeinitSteps(s) = Deinit0(s)
  <2>1. /\ Port("telemetry") = "uart" /\ Thread("telemetry") = "telemetry_thread"
        /\ Port("foxglove") = "uart1" /\ Thread("foxglove") = "foxglove_thread"
    BY DEF Port, Thread
  <2>2. U!DeinitSteps("telemetry") = Deinit0("telemetry")
    BY <1>1, <2>1, Zenon DEF U!DeinitSteps, Plain, Tup5
  <2>3. U!DeinitSteps("foxglove") = Deinit0("foxglove")
    BY <1>1, <2>1, "telemetry" # "foxglove", "imu" # "foxglove", Zenon
       DEF U!DeinitSteps, Plain, Tup5
  <2> QED BY <2>2, <2>3 DEF Plain
<1>3. ASSUME started["log"] PROVE U!DeinitSteps("imu") = Stop0
  <2>1. U!LogDeinit(<<>>) = <<U!Disable("log"), U!Wait("log", <<>>),
                              U!Release("log_thread"), U!Release("queue"),
                              U!Stopped("log")>>
    BY <1>3 DEF U!LogDeinit
  <2>2. U!ReleaseAll(<<"imu_thread">> \o U!ImuResourceList)
          = <<U!Release("imu_thread"), U!Release("adapter"), U!Release("event"),
              U!Release("clock")>>
    BY SMT DEF U!ReleaseAll, U!ImuResourceList
  <2>3. U!DeinitSteps("imu")
          = <<U!Disable("imu"), U!Wait("imu", <<>>)>> \o U!LogDeinit(<<>>)
              \o U!ReleaseAll(<<"imu_thread">> \o U!ImuResourceList)
              \o <<U!Stopped("imu")>>
    BY DEF U!DeinitSteps
  <2>4. <<U!Disable("imu"), U!Wait("imu", <<>>), U!Disable("log"),
          U!Wait("log", <<>>), U!Release("log_thread"), U!Release("queue"),
          U!Stopped("log"), U!Release("imu_thread"), U!Release("adapter"),
          U!Release("event"), U!Release("clock"), U!Stopped("imu")>>
          = <<U!Disable("imu"), U!Wait("imu", <<>>)>>
              \o <<U!Disable("log"), U!Wait("log", <<>>), U!Release("log_thread"),
                   U!Release("queue"), U!Stopped("log")>>
              \o <<U!Release("imu_thread"), U!Release("adapter"),
                   U!Release("event"), U!Release("clock")>>
              \o <<U!Stopped("imu")>>
    BY SMT
  <2>5. Stop6 = Tup6(U!Stopped("log"), U!Release("imu_thread"), U!Release("adapter"),
                  U!Release("event"), U!Release("clock"), U!Stopped("imu"))
    BY Tuples, SMT
       DEF Stop6, Stop7, Stop8, Stop9, Stop10, Stop11
  <2>6. Stop0 = Tup12(U!Disable("imu"), U!Wait("imu", <<>>), U!Disable("log"),
                  U!Wait("log", <<>>), U!Release("log_thread"), U!Release("queue"),
                  U!Stopped("log"), U!Release("imu_thread"), U!Release("adapter"),
                  U!Release("event"), U!Release("clock"), U!Stopped("imu"))
    BY <2>5, Tuples, SMT
       DEF Stop0, Stop1, Stop2, Stop3, Stop4, Stop5
  <2> QED
    BY <2>1, <2>2, <2>3, <2>4, <2>6, Zenon DEF Tup12
<1> QED
  BY <1>2, <1>3

(* The rollbacks, branch by branch. *)
LEMMA PlainFailing ==
  ASSUME NEW s \in Plain
  PROVE  /\ U!AfterFailing(U!Acquire(Port(s))) = <<>>
         /\ U!AfterFailing(U!Acquire(Thread(s))) = Back1(s)
         /\ U!AfterFailing(U!StartUp(s)) = Back3(s)
<1>1. /\ Back1(s) = Tup1(U!Release(Port(s)))
      /\ Back3(s) = Tup3(U!Disable(s), U!Release(Thread(s)), U!Release(Port(s)))
  BY Tuples, SMT DEF Back1, Back2, Back3
<1>2. /\ U!ReleaseAll(<<>>) = <<>>
      /\ U!ReleaseAll(<<Port(s)>>) = <<U!Release(Port(s))>>
      /\ U!ReleaseAll(<<Thread(s), Port(s)>>) = <<U!Release(Thread(s)), U!Release(Port(s))>>
  BY SMT DEF U!ReleaseAll
<1>3. /\ U!Undo[Port(s)] = <<>> /\ U!Undo[Thread(s)] = <<Port(s)>>
      /\ U!Undo[s] = <<Thread(s), Port(s)>>
  BY DEF Plain, Port, Thread, U!Undo
<1>4. U!AfterFailing(U!Acquire(Port(s))) = U!ReleaseAll(U!Undo[Port(s)])
  BY Names DEF Plain, Port, U!AfterFailing, U!Acquire, U!InitLog, U!StartUp
<1>5. U!AfterFailing(U!Acquire(Thread(s))) = U!ReleaseAll(U!Undo[Thread(s)])
  BY Names DEF Plain, Thread, U!AfterFailing, U!Acquire, U!InitLog, U!StartUp
<1>6. U!AfterFailing(U!StartUp(s)) = <<U!Disable(s)>> \o U!ReleaseAll(U!Undo[s])
  BY Names DEF Plain, U!AfterFailing, U!InitLog, U!StartUp
<1>7. <<U!Disable(s), U!Release(Thread(s)), U!Release(Port(s))>>
        = <<U!Disable(s)>> \o <<U!Release(Thread(s)), U!Release(Port(s))>>
  BY SMT
<1> QED
  BY <1>1, <1>2, <1>3, <1>4, <1>5, <1>6, <1>7, Zenon DEF Tup1, Tup3

(* What follows a failing step of imu_service_init and of the log in it. *)
LEMMA ImuFailing ==
  /\ U!AfterFailing(U!Acquire("clock")) = <<>>
  /\ U!AfterFailing(U!Acquire("event")) = Undo1
  /\ U!AfterFailing(U!Acquire("imu_thread")) = Undo2
  /\ U!AfterFailing(U!Acquire("adapter")) = Undo3
  /\ U!AfterFailing(U!InitLog) = Undo4
  /\ U!AfterFailing(U!Acquire("queue")) = Undo4
  /\ U!AfterFailing(U!Acquire("log_thread")) = Undo5
  /\ U!AfterFailing(U!StartUp("log")) = Undo7
  /\ started["log"] => U!AfterFailing(U!StartUp("imu")) = Fail0
<1>1. /\ Undo1 = Tup1(U!Release("clock"))
      /\ Undo2 = Tup2(U!Release("event"), U!Release("clock"))
      /\ Undo3 = Tup3(U!Release("imu_thread"), U!Release("event"), U!Release("clock"))
      /\ Undo4 = Tup4(U!Release("adapter"), U!Release("imu_thread"), U!Release("event"),
                   U!Release("clock"))
  BY Tuples, SMT DEF Undo1, Undo2, Undo3, Undo4
<1>2. /\ Undo5 = Tup5(U!Release("queue"), U!Release("adapter"), U!Release("imu_thread"),
                   U!Release("event"), U!Release("clock"))
      /\ Undo7 = Tup7(U!Disable("log"), U!Release("log_thread"), U!Release("queue"),
                   U!Release("adapter"), U!Release("imu_thread"), U!Release("event"),
                   U!Release("clock"))
  BY <1>1, Tuples, SMT DEF Undo5, Undo6, Undo7
<1>3. /\ Fail5 = Tup5(U!Disable("imu"), U!Release("adapter"), U!Release("imu_thread"),
                   U!Release("event"), U!Release("clock"))
      /\ Fail0 = Tup10(U!Disable("log"), U!Wait("log", Fail5), U!Release("log_thread"),
                   U!Release("queue"), U!Stopped("log"), U!Disable("imu"),
                   U!Release("adapter"), U!Release("imu_thread"), U!Release("event"),
                   U!Release("clock"))
  <2>1. Fail5 = Tup5(U!Disable("imu"), U!Release("adapter"), U!Release("imu_thread"),
                  U!Release("event"), U!Release("clock"))
    BY <1>1, Tuples, SMT DEF Fail5
  <2>2. Fail4 = Tup6(U!Stopped("log"), U!Disable("imu"),
                   U!Release("adapter"), U!Release("imu_thread"), U!Release("event"),
                   U!Release("clock"))
    BY <2>1, Tuples, SMT DEF Fail4
  <2> QED
    BY <2>1, <2>2, Tuples, SMT
       DEF Fail0, Fail1, Fail2, Fail3
<1>4. /\ U!Undo["clock"] = <<>> /\ U!Undo["event"] = <<"clock">>
      /\ U!Undo["imu_thread"] = <<"event", "clock">>
      /\ U!Undo["adapter"] = <<"imu_thread", "event", "clock">>
      /\ U!Undo["log"] = <<"adapter", "imu_thread", "event", "clock">>
      /\ U!Undo["queue"] = <<>> /\ U!Undo["log_thread"] = <<"queue">>
      /\ U!Undo["log_startup"] = <<"log_thread", "queue">>
  BY DEF U!Undo, U!AdapterFailed, U!LogThreadFailed
<1>5. /\ U!ReleaseAll(<<>>) = <<>>
      /\ U!ReleaseAll(<<"clock">>) = Undo1
      /\ U!ReleaseAll(<<"event", "clock">>) = Undo2
      /\ U!ReleaseAll(<<"imu_thread", "event", "clock">>) = Undo3
      /\ U!ReleaseAll(<<"adapter", "imu_thread", "event", "clock">>) = Undo4
  <2>1. /\ U!ReleaseAll(<<>>) = <<>>
        /\ U!ReleaseAll(<<"clock">>) = <<U!Release("clock")>>
        /\ U!ReleaseAll(<<"event", "clock">>)
             = <<U!Release("event"), U!Release("clock")>>
        /\ U!ReleaseAll(<<"imu_thread", "event", "clock">>)
             = <<U!Release("imu_thread"), U!Release("event"), U!Release("clock")>>
        /\ U!ReleaseAll(<<"adapter", "imu_thread", "event", "clock">>)
             = <<U!Release("adapter"), U!Release("imu_thread"),
                 U!Release("event"), U!Release("clock")>>
    BY SMT DEF U!ReleaseAll
  <2> QED BY <1>1, <2>1, Zenon DEF Tup1, Tup2, Tup3, Tup4
<1>6. /\ <<>> \o U!Undo["log"] = U!Undo["log"]
      /\ U!ReleaseAll(<<"queue">> \o U!Undo["log"]) = Undo5
      /\ <<U!Disable("log")>> \o U!ReleaseAll(<<"log_thread", "queue">> \o U!Undo["log"])
           = Undo7
  <2>1. <<>> \o U!Undo["log"] = U!Undo["log"]
    BY <1>4, SMT
  <2>2. U!ReleaseAll(<<"queue">> \o U!Undo["log"]) = Undo5
    <3>1. U!ReleaseAll(<<"queue">> \o U!Undo["log"])
            = <<U!Release("queue"), U!Release("adapter"), U!Release("imu_thread"),
                U!Release("event"), U!Release("clock")>>
      BY <1>4, SMT DEF U!ReleaseAll
    <3> QED BY <1>2, <3>1, Zenon DEF Tup5
  <2>3. U!ReleaseAll(<<"log_thread", "queue">> \o U!Undo["log"])
          = <<U!Release("log_thread"), U!Release("queue"), U!Release("adapter"),
              U!Release("imu_thread"), U!Release("event"), U!Release("clock")>>
    BY <1>4, SMT DEF U!ReleaseAll
  <2>4. <<U!Disable("log"), U!Release("log_thread"), U!Release("queue"),
          U!Release("adapter"), U!Release("imu_thread"), U!Release("event"),
          U!Release("clock")>>
          = <<U!Disable("log")>>
              \o <<U!Release("log_thread"), U!Release("queue"), U!Release("adapter"),
                   U!Release("imu_thread"), U!Release("event"), U!Release("clock")>>
    BY SMT
  <2> QED
    BY <1>2, <2>1, <2>2, <2>3, <2>4, Zenon DEF Tup7
<1>7. ASSUME NEW r \in {"clock", "event", "imu_thread", "adapter"}
      PROVE  U!AfterFailing(U!Acquire(r)) = U!ReleaseAll(U!Undo[r])
  BY Names DEF U!AfterFailing, U!Acquire, U!InitLog, U!StartUp
<1>8. ASSUME NEW r \in {"queue", "log_thread"}
      PROVE  U!AfterFailing(U!Acquire(r)) = U!ReleaseAll(U!Undo[r] \o U!Undo["log"])
  BY Names DEF U!AfterFailing, U!Acquire, U!InitLog, U!StartUp
<1>9. U!AfterFailing(U!InitLog) = U!ReleaseAll(U!Undo["log"])
  BY Names DEF U!AfterFailing, U!InitLog, U!StartUp
<1>10. U!AfterFailing(U!StartUp("log"))
         = <<U!Disable("log")>> \o U!ReleaseAll(U!Undo["log_startup"] \o U!Undo["log"])
  BY Names DEF U!AfterFailing, U!InitLog, U!StartUp
<1>11. ASSUME started["log"] PROVE U!AfterFailing(U!StartUp("imu")) = Fail0
  <2>1. U!AfterFailing(U!StartUp("imu"))
          = U!LogDeinit(<<U!Disable("imu")>> \o U!ReleaseAll(U!Undo["log"]))
              \o <<U!Disable("imu")>> \o U!ReleaseAll(U!Undo["log"])
    BY Names DEF U!AfterFailing, U!InitLog, U!StartUp
  <2>2. <<U!Disable("imu")>> \o U!ReleaseAll(U!Undo["log"]) = Fail5
    <3>1. <<U!Disable("imu"), U!Release("adapter"), U!Release("imu_thread"),
            U!Release("event"), U!Release("clock")>>
            = <<U!Disable("imu")>>
                \o <<U!Release("adapter"), U!Release("imu_thread"),
                     U!Release("event"), U!Release("clock")>>
      BY SMT
    <3> QED BY <1>1, <1>3, <1>4, <1>5, <3>1, Zenon DEF Tup4, Tup5
  <2>3. U!LogDeinit(Fail5)
          = <<U!Disable("log"), U!Wait("log", Fail5), U!Release("log_thread"),
              U!Release("queue"), U!Stopped("log")>>
    BY <1>11 DEF U!LogDeinit
  <2>4. U!AfterFailing(U!StartUp("imu"))
          = U!LogDeinit(Fail5) \o <<U!Disable("imu")>> \o U!ReleaseAll(U!Undo["log"])
    BY <2>1, <2>2, Zenon
  <2>5. <<U!Disable("log"), U!Wait("log", Fail5), U!Release("log_thread"),
          U!Release("queue"), U!Stopped("log"), U!Disable("imu"),
          U!Release("adapter"), U!Release("imu_thread"), U!Release("event"),
          U!Release("clock")>>
          = <<U!Disable("log"), U!Wait("log", Fail5), U!Release("log_thread"),
              U!Release("queue"), U!Stopped("log")>>
              \o <<U!Disable("imu")>>
              \o <<U!Release("adapter"), U!Release("imu_thread"),
                   U!Release("event"), U!Release("clock")>>
    BY SMT
  <2> QED
    BY <1>1, <1>3, <1>4, <1>5, <2>3, <2>4, <2>5, Zenon DEF Tup4, Tup10
<1> QED
  BY <1>4, <1>5, <1>6, <1>7, <1>8, <1>9, <1>10, <1>11

-----------------------------------------------------------------------------
(* The order in which the resources were taken. *)

(* No resource twice. *)
Once(o) == o \in Seq(U!Resources) /\ U!IsInjective(o)

(* What is taken comes behind all that is held. *)
LEMMA Appended ==
  ASSUME NEW o, Once(o), NEW r \in U!Resources, r \notin U!ToSet(o)
  PROVE  LET p == Append(o, r) IN
         /\ Once(p) /\ U!ToSet(p) = U!ToSet(o) \cup {r}
         /\ \A x, y : Before(o, x, y) => Before(p, x, y)
         /\ \A x \in U!ToSet(o) : Before(p, x, r)
<1> DEFINE p == Append(o, r)
           n == Len(o)
<1>1. o \in Seq(U!Resources) /\ n \in Nat /\ DOMAIN o = 1 .. n
  BY LenProperties DEF Once
<1>2. /\ p \in Seq(U!Resources) /\ Len(p) = n + 1 /\ p[n + 1] = r
      /\ \A i \in 1 .. n : p[i] = o[i]
  BY <1>1, AppendProperties
<1>3. DOMAIN p = 1 .. n + 1
  BY <1>2, LenProperties
<1>4. \A i, j \in 1 .. n : o[i] = o[j] => i = j
  BY <1>1, Zenon DEF Once, U!IsInjective
<1>5. \A i \in 1 .. n : o[i] # r
  BY <1>1, Zenon DEF U!ToSet
<1> HIDE DEF p, n
<1>6. \A i, j \in 1 .. n + 1 : p[i] = p[j] => i = j
  <2> SUFFICES ASSUME NEW i \in 1 .. n + 1, NEW j \in 1 .. n + 1, p[i] = p[j]
               PROVE  i = j
    OBVIOUS
  <2>1. i \in 1 .. n \/ i = n + 1
    BY <1>1
  <2>2. j \in 1 .. n \/ j = n + 1
    BY <1>1
  <2> QED BY <1>2, <1>4, <1>5, <2>1, <2>2
<1>7. Once(p)
  BY <1>2, <1>3, <1>6, Zenon DEF Once, U!IsInjective
<1>8. U!ToSet(p) = U!ToSet(o) \cup {r}
  <2>1. \A i \in 1 .. n : i \in 1 .. n + 1
    BY <1>1
  <2>2. \A i \in 1 .. n + 1 : i \in 1 .. n \/ i = n + 1
    BY <1>1
  <2>3. n + 1 \in 1 .. n + 1
    BY <1>1
  <2> QED BY <1>1, <1>2, <1>3, <2>1, <2>2, <2>3, Zenon DEF U!ToSet
<1>9. ASSUME NEW x, NEW y, Before(o, x, y) PROVE Before(p, x, y)
  <2>1. PICK i \in 1 .. n, j \in 1 .. n : i < j /\ o[i] = x /\ o[j] = y
    BY <1>1, <1>9, Zenon DEF Before
  <2>2. i \in 1 .. n + 1 /\ j \in 1 .. n + 1
    BY <1>1
  <2> QED BY <1>2, <1>3, <2>1, <2>2, Zenon DEF Before
<1>10. ASSUME NEW x \in U!ToSet(o) PROVE Before(p, x, r)
  <2>1. PICK i \in 1 .. n : o[i] = x
    BY <1>1, <1>10, Zenon DEF U!ToSet
  <2>2. i \in 1 .. n + 1 /\ n + 1 \in 1 .. n + 1 /\ i < n + 1
    BY <1>1
  <2> QED BY <1>2, <1>3, <2>1, <2>2, Zenon DEF Before
<1> QED
  BY <1>7, <1>8, <1>9, <1>10 DEF p

(* What is given back leaves the others in their order. *)
LEMMA Removed ==
  ASSUME NEW o, Once(o), NEW r \in U!ToSet(o)
  PROVE  LET p == U!RemoveFirst(o, r) IN
         /\ Once(p) /\ U!ToSet(p) = U!ToSet(o) \ {r}
         /\ \A x, y \in U!ToSet(p) : Before(o, x, y) => Before(p, x, y)
<1> DEFINE p == U!RemoveFirst(o, r)
           n == Len(o)
<1>1. o \in Seq(U!Resources) /\ n \in Nat /\ DOMAIN o = 1 .. n
  BY LenProperties DEF Once
<1>2. \A i \in 1 .. n : o[i] \in U!Resources
  BY <1>1, ElementOfSeq, Zenon
<1>3. \A i, j \in 1 .. n : o[i] = o[j] => i = j
  BY <1>1, Zenon DEF Once, U!IsInjective
<1>4. PICK k \in 1 .. n : o[k] = r
  BY <1>1, Zenon DEF U!ToSet
<1>5. p = SubSeq(o, 1, k - 1) \o SubSeq(o, k + 1, n)
  <2>1. {i \in 1 .. Len(o) : o[i] = r} = {k}
    BY <1>3, <1>4
  <2>2. U!Min({k}) = k
    BY <1>4, SMT DEF U!Min
  <2>3. U!SelectInSeq(o, LAMBDA v : v = r) = k
    BY <2>1, <2>2 DEF U!SelectInSeq
  <2> QED BY <1>4, <2>3 DEF U!RemoveFirst, U!RemoveAt
<1> DEFINE a == SubSeq(o, 1, k - 1)
           b == SubSeq(o, k + 1, n)
<1>6. /\ a \in Seq(U!Resources) /\ Len(a) = k - 1
      /\ \A i \in 1 .. k - 1 : a[i] = o[i]
  <2>1. 1 \in Int /\ k - 1 \in Int /\ \A i \in 1 .. k - 1 : o[i] \in U!Resources
    BY <1>1, <1>2
  <2>2. /\ a \in Seq(U!Resources)
        /\ Len(a) = IF 1 <= k - 1 THEN k - 1 - 1 + 1 ELSE 0
        /\ \A i \in 1 .. k - 1 - 1 + 1 : a[i] = o[1 + i - 1]
    BY <2>1, SubSeqProperties
  <2> HIDE DEF a, n
  <2>3. k - 1 - 1 + 1 = k - 1 /\ (~(1 <= k - 1) => k - 1 = 0)
    BY <1>1, <1>4
  <2>4. \A i \in 1 .. k - 1 : 1 + i - 1 = i
    BY <1>1, <1>4
  <2> QED BY <2>2, <2>3, <2>4
<1>7. /\ b \in Seq(U!Resources) /\ Len(b) = n - k
      /\ \A i \in 1 .. n - k : b[i] = o[k + i]
  <2>1. k + 1 \in Int /\ n \in Int /\ \A i \in k + 1 .. n : o[i] \in U!Resources
    BY <1>1, <1>2
  <2>2. /\ b \in Seq(U!Resources)
        /\ Len(b) = IF k + 1 <= n THEN n - (k + 1) + 1 ELSE 0
        /\ \A i \in 1 .. n - (k + 1) + 1 : b[i] = o[k + 1 + i - 1]
    BY <2>1, SubSeqProperties
  <2> HIDE DEF b, n
  <2>3. n - (k + 1) + 1 = n - k /\ (~(k + 1 <= n) => n - k = 0)
    BY <1>1, <1>4
  <2>4. \A i \in 1 .. n - k : k + 1 + i - 1 = k + i
    BY <1>1, <1>4
  <2> QED BY <2>2, <2>3, <2>4
<1> HIDE DEF a, b
<1>8. /\ a \o b \in Seq(U!Resources) /\ Len(a \o b) = Len(a) + Len(b)
      /\ \A i \in 1 .. Len(a) + Len(b) :
           (a \o b)[i] = IF i <= Len(a) THEN a[i] ELSE b[i - Len(a)]
  BY <1>6, <1>7, ConcatProperties, Zenon
<1>9. p = a \o b
  BY <1>5 DEF a, b
<1> HIDE DEF p, n
<1>10. /\ p \in Seq(U!Resources) /\ Len(p) = n - 1
       /\ \A i \in 1 .. n - 1 : p[i] = IF i < k THEN o[i] ELSE o[i + 1]
  <2>1. p \in Seq(U!Resources) /\ Len(p) = n - 1
    <3>1. k - 1 + (n - k) = n - 1
      BY <1>1, <1>4
    <3> QED BY <1>6, <1>7, <1>8, <1>9, <3>1
  <2>2. ASSUME NEW i \in 1 .. n - 1 PROVE p[i] = IF i < k THEN o[i] ELSE o[i + 1]
    <3>1. p[i] = IF i <= k - 1 THEN a[i] ELSE b[i - (k - 1)]
      BY <1>1, <1>6, <1>7, <1>8, <1>9, <2>2
    <3>2. CASE i < k
      BY <1>1, <1>6, <3>1, <3>2
    <3>3. CASE ~(i < k)
      <4>1. i - (k - 1) \in 1 .. n - k /\ k + (i - (k - 1)) = i + 1
        BY <1>1, <2>2, <3>3
      <4> QED BY <1>1, <1>7, <3>1, <3>3, <4>1
    <3> QED BY <3>2, <3>3
  <2> QED BY <2>1, <2>2
<1>11. DOMAIN p = 1 .. n - 1
  BY <1>10, LenProperties
<1> DEFINE At(i) == IF i < k THEN i ELSE i + 1
<1>12. \A i \in 1 .. n - 1 : At(i) \in 1 .. n /\ At(i) # k /\ p[i] = o[At(i)]
  BY <1>1, <1>10
<1>13. \A i, j \in 1 .. n - 1 : (At(i) = At(j) => i = j) /\ (At(i) < At(j) => i < j)
  BY <1>1
<1>14. \A j \in 1 .. n : j # k => \E i \in 1 .. n - 1 : At(i) = j
  <2> SUFFICES ASSUME NEW j \in 1 .. n, j # k PROVE \E i \in 1 .. n - 1 : At(i) = j
    OBVIOUS
  <2>1. CASE j < k
    BY <1>1, <2>1
  <2>2. CASE j > k
    <3>1. j - 1 \in 1 .. n - 1 /\ At(j - 1) = j
      BY <1>1, <2>2
    <3> QED BY <3>1
  <2> QED BY <1>1, <2>1, <2>2
<1> HIDE DEF At
<1>15. Once(p)
  <2>1. \A i, j \in 1 .. n - 1 : p[i] = p[j] => i = j
    BY <1>3, <1>12, <1>13
  <2> QED BY <1>10, <1>11, <2>1, Zenon DEF Once, U!IsInjective
<1>16. U!ToSet(p) = U!ToSet(o) \ {r}
  <2>1. ASSUME NEW x \in U!ToSet(p) PROVE x \in U!ToSet(o) \ {r}
    <3>1. PICK i \in 1 .. n - 1 : p[i] = x
      BY <1>11, <2>1, Zenon DEF U!ToSet
    <3>2. At(i) \in 1 .. n /\ At(i) # k /\ x = o[At(i)]
      BY <1>12, <3>1
    <3>3. x \in U!ToSet(o)
      BY <1>1, <3>2, Zenon DEF U!ToSet
    <3> QED BY <1>3, <1>4, <3>2, <3>3
  <2>2. ASSUME NEW x \in U!ToSet(o), x # r PROVE x \in U!ToSet(p)
    <3>1. PICK j \in 1 .. n : o[j] = x
      BY <1>1, <2>2, Zenon DEF U!ToSet
    <3>2. PICK i \in 1 .. n - 1 : At(i) = j
      BY <1>4, <1>14, <2>2, <3>1
    <3> QED BY <1>11, <1>12, <3>1, <3>2, Zenon DEF U!ToSet
  <2> QED BY <2>1, <2>2
<1>17. ASSUME NEW x \in U!ToSet(p), NEW y \in U!ToSet(p), Before(o, x, y)
       PROVE  Before(p, x, y)
  <2>1. PICK i \in 1 .. n, j \in 1 .. n : i < j /\ o[i] = x /\ o[j] = y
    BY <1>1, <1>17, Zenon DEF Before
  <2>2. x # r /\ y # r
    BY <1>16, <1>17
  <2>3. PICK c \in 1 .. n - 1, d \in 1 .. n - 1 : At(c) = i /\ At(d) = j
    BY <1>4, <1>14, <2>1, <2>2
  <2>4. c < d
    BY <1>13, <2>1, <2>3
  <2> QED BY <1>11, <1>12, <2>1, <2>3, <2>4, Zenon DEF Before
<1> QED
  BY <1>15, <1>16, <1>17 DEF p

-----------------------------------------------------------------------------
(* What each step does, seen from the services. *)

FlagTypes ==
  /\ should_run \in [U!Services -> BOOLEAN] /\ stopped \in [U!Services -> BOOLEAN]
  /\ started \in [U!Services -> BOOLEAN] /\ alive \subseteq U!Services
  /\ \A s \in U!Services : stopped[s] => s \notin alive

(* What every step keeps, whatever the call. *)
Sound == Once(order) /\ Stacked /\ FlagTypes

SameFlags(s) ==
  /\ should_run'[s] = should_run[s] /\ stopped'[s] = stopped[s]
  /\ started'[s] = started[s] /\ (s \in alive' <=> s \in alive)

Same(s) == Kept(s)' = Kept(s) /\ SameFlags(s)

OthersSame(s) == \A t \in U!Services \ {s} : Same(t)

AllSame == \A t \in U!Services : Same(t)

(* What a service that is not up holds was taken before r. *)
Topped(r) ==
  \A t \in U!Services : ~started[t] =>
    \A q \in Kept(t) : q # r => Rank[q] < Rank[r]

(* A resource belongs to one service. *)
LEMMA Owner ==
  ASSUME NEW s \in U!Services, NEW r \in U!Owned[s]
  PROVE  r \in U!Resources /\ \A t \in U!Services \ {s} : r \notin U!Owned[t]
  BY Names

(* The ranks of the resources are numbers, different within a service. *)
LEMMA Ranks == \A r \in U!Resources : Rank[r] \in Nat
  BY Names DEF Rank

(* What is held by services that are not up, service by service. *)
LEMMA FallenIs ==
  \A q : q \in U!Held \cap Fallen <=> \E t \in U!Services : ~started[t] /\ q \in Kept(t)
  BY Zenon DEF Fallen, Kept

(* A resource is taken behind all that is held and may be given back. *)
LEMMA TakeIs ==
  ASSUME Sound, NEW s \in U!Services, NEW r \in U!Owned[s], r \notin Kept(s),
         Topped(r), order' = Append(order, r), UNCHANGED U!threads
  PROVE  /\ Sound' /\ Kept(s)' = Kept(s) \cup {r} /\ SameFlags(s)
         /\ OthersSame(s)
<1>1. r \in U!Resources /\ \A t \in U!Services \ {s} : r \notin U!Owned[t]
  BY Owner
<1>2. PICK o : o = order
  OBVIOUS
<1>3. Once(o) /\ r \notin U!ToSet(o)
  BY <1>2 DEF Sound, Kept, U!Held
<1> DEFINE p == Append(o, r)
<1>4. /\ Once(p) /\ U!ToSet(p) = U!ToSet(o) \cup {r}
      /\ \A x, y : Before(o, x, y) => Before(p, x, y)
      /\ \A x \in U!ToSet(o) : Before(p, x, r)
  BY <1>1, <1>3, Appended, Zenon
<1>5. order' = p
  BY <1>2
<1> HIDE DEF p
<1>6. Once(order)' /\ U!Held' = U!Held \cup {r}
  BY <1>2, <1>4, <1>5 DEF Once, U!Held
<1>7. Kept(s)' = Kept(s) \cup {r}
  BY <1>6 DEF Kept
<1>8. SameFlags(s) /\ OthersSame(s) /\ FlagTypes'
  BY <1>1, <1>6 DEF SameFlags, OthersSame, Same, Kept, U!threads, FlagTypes, Sound
<1>9. Fallen' = Fallen
  BY DEF Fallen, U!threads
<1>10. Stacked'
  <2> SUFFICES ASSUME NEW x \in U!Held' \cap Fallen', NEW y \in U!Held' \cap Fallen',
                      Rank[x] < Rank[y]
               PROVE  Before(p, x, y)
    BY <1>5 DEF Stacked
  <2>1. CASE x \in U!Held /\ y \in U!Held
    <3>1. Before(o, x, y)
      BY <1>2, <1>9, <2>1 DEF Sound, Stacked
    <3> QED BY <1>4, <3>1
  <2>2. CASE x \in U!Held /\ y = r
    BY <1>2, <1>4, <2>2 DEF U!Held
  <2>3. CASE x = r /\ y # r
    <3>1. y \in U!Held \cap Fallen
      BY <1>6, <1>9, <2>3
    <3>2. PICK t \in U!Services : ~started[t] /\ y \in Kept(t)
      BY <3>1, FallenIs
    <3>3. Rank[y] < Rank[r]
      BY <2>3, <3>2 DEF Topped
    <3>4. y \in U!Resources
      BY <3>2, Owner DEF Kept
    <3> QED BY <1>1, <2>3, <3>3, <3>4, Ranks
  <2>4. CASE x = r /\ y = r
    BY <1>1, <2>4, Ranks
  <2> QED BY <1>6, <2>1, <2>2, <2>3, <2>4
<1> QED
  BY <1>6, <1>7, <1>8, <1>10 DEF Sound

(* A resource is given back; the order of the others stays. *)
LEMMA GiveIs ==
  ASSUME Sound, NEW s \in U!Services, NEW r \in U!Owned[s], r \in Kept(s),
         order' = U!RemoveFirst(order, r), UNCHANGED U!threads
  PROVE  /\ Sound' /\ Kept(s)' = Kept(s) \ {r} /\ SameFlags(s)
         /\ OthersSame(s)
<1>1. r \in U!Resources /\ \A t \in U!Services \ {s} : r \notin U!Owned[t]
  BY Owner
<1>2. PICK o : o = order
  OBVIOUS
<1>3. Once(o) /\ r \in U!ToSet(o)
  BY <1>2 DEF Sound, Kept, U!Held
<1> DEFINE p == U!RemoveFirst(o, r)
<1>4. /\ Once(p) /\ U!ToSet(p) = U!ToSet(o) \ {r}
      /\ \A x, y \in U!ToSet(p) : Before(o, x, y) => Before(p, x, y)
  BY <1>1, <1>3, Removed, Zenon
<1>5. order' = p
  BY <1>2
<1> HIDE DEF p
<1>6. Once(order)' /\ U!Held' = U!Held \ {r}
  BY <1>2, <1>4, <1>5 DEF Once, U!Held
<1>7. Kept(s)' = Kept(s) \ {r}
  BY <1>6 DEF Kept
<1>8. SameFlags(s) /\ OthersSame(s) /\ FlagTypes'
  BY <1>1, <1>6 DEF SameFlags, OthersSame, Same, Kept, U!threads, FlagTypes, Sound
<1>9. Fallen' = Fallen
  BY DEF Fallen, U!threads
<1>10. Stacked'
  <2> SUFFICES ASSUME NEW x \in U!Held' \cap Fallen', NEW y \in U!Held' \cap Fallen',
                      Rank[x] < Rank[y]
               PROVE  Before(p, x, y)
    BY <1>5 DEF Stacked
  <2>1. Before(o, x, y)
    BY <1>2, <1>6, <1>9 DEF Sound, Stacked
  <2>2. x \in U!ToSet(p) /\ y \in U!ToSet(p)
    BY <1>5 DEF U!Held
  <2> QED BY <1>4, <2>1, <2>2
<1> QED
  BY <1>6, <1>7, <1>8, <1>10 DEF Sound

(* Steps that take and give back nothing. *)
LEMMA NothingMoves ==
  ASSUME Sound, UNCHANGED order, FlagTypes',
         \A t \in U!Services : started[t] /\ ~started'[t] => Kept(t) = {}
  PROVE  Sound' /\ \A t \in U!Services : Kept(t)' = Kept(t)
<1>1. Once(order)' /\ U!Held' = U!Held
  BY DEF Sound, Once, U!Held
<1>2. \A t \in U!Services : Kept(t)' = Kept(t)
  BY <1>1 DEF Kept
<1>3. U!Held' \cap Fallen' \subseteq U!Held \cap Fallen
  BY <1>1 DEF Fallen, Kept
<1>4. Stacked'
  BY <1>3 DEF Sound, Stacked, Before
<1> QED
  BY <1>1, <1>2, <1>4 DEF Sound

-----------------------------------------------------------------------------
(* The steps of a call, by the step at its head. *)

Stops == \E t \in U!Services : U!ThreadStops(t)

(* The step at the head of the list is the one that the caller makes. *)
LEMMA CallerIs ==
  ASSUME NEW step, NEW rest, Now(todo, step, rest), U!Next, ~Stops
  PROVE  /\ Head(todo) = step /\ Tail(todo) = rest
         /\ \/ U!AcquireStep /\ step.do = "acquire"
            \/ U!ReleaseStep /\ step.do = "release"
            \/ U!FlagStep /\ step.do \in {"enable", "disable"}
            \/ U!StartUpStep /\ step.do = "startup"
            \/ U!StartedStep /\ step.do \in {"started", "gone"}
            \/ U!WaitStep /\ step.do = "wait"
            \/ U!InitLogStep /\ step.do = "init"
<1>1. todo # <<>> /\ Head(todo) = step /\ Tail(todo) = rest
  BY DEF Now
<1>2. ~U!MainStep /\ ~U!LaterCall
  BY <1>1, Zenon DEF U!MainStep, U!LaterCall
<1>3. U!Caller
  BY <1>2, Zenon DEF U!Next, Stops
<1> QED
  BY <1>1, <1>2, <1>3 DEF U!Caller, U!AcquireStep, U!ReleaseStep, U!FlagStep,
     U!StartUpStep, U!StartedStep, U!WaitStep, U!InitLogStep, U!At

(* A resource of s is taken, or fails to come up. *)
LEMMA AcquireAt ==
  ASSUME Sound, NEW s \in U!Services, NEW r \in U!Owned[s], NEW rest,
         Now(todo, U!Acquire(r), rest), r \notin Kept(s), Topped(r),
         U!Next, ~Stops
  PROVE  /\ Sound' /\ main' = main /\ OthersSame(s)
         /\ \/ todo' = rest /\ Kept(s)' = Kept(s) \cup {r} /\ SameFlags(s)
            \/ todo' = U!AfterFailing(U!Acquire(r)) /\ Same(s)
<1> DEFINE step == U!Acquire(r)
<1>1. step.do = "acquire" /\ step.what = r
  BY DEF U!Acquire
<1>2. Now(todo, step, rest)
  OBVIOUS
<1> HIDE DEF step
<1>3. Head(todo) = step /\ Tail(todo) = rest /\ U!AcquireStep
  BY <1>1, <1>2, CallerIs
<1>4. /\ main' = main /\ UNCHANGED U!threads
      /\ \/ todo' = rest /\ order' = Append(order, r)
         \/ todo' = U!AfterFailing(step) /\ UNCHANGED order
  BY <1>1, <1>3 DEF U!AcquireStep, U!Continue, U!Fail
<1>5. CASE todo' = rest /\ order' = Append(order, r)
  <2>1. Sound' /\ Kept(s)' = Kept(s) \cup {r} /\ SameFlags(s) /\ OthersSame(s)
    BY <1>4, <1>5, TakeIs
  <2> QED BY <1>4, <1>5, <2>1
<1>6. CASE todo' = U!AfterFailing(step) /\ UNCHANGED order
  <2>1. FlagTypes' /\ \A t \in U!Services : SameFlags(t) /\ started'[t] = started[t]
    BY <1>4 DEF U!threads, FlagTypes, Sound, SameFlags
  <2>2. Sound' /\ \A t \in U!Services : Kept(t)' = Kept(t)
    BY <1>6, <2>1, NothingMoves
  <2>3. Same(s) /\ OthersSame(s)
    BY <2>1, <2>2 DEF Same, OthersSame
  <2> QED BY <1>4, <1>6, <2>2, <2>3 DEF step
<1> QED
  BY <1>4, <1>5, <1>6

(* A resource of s is given back. *)
LEMMA ReleaseAt ==
  ASSUME Sound, NEW s \in U!Services, NEW r \in U!Owned[s], NEW rest,
         Now(todo, U!Release(r), rest), r \in Kept(s), U!Next, ~Stops
  PROVE  /\ Sound' /\ main' = main /\ OthersSame(s)
         /\ todo' = rest /\ Kept(s)' = Kept(s) \ {r} /\ SameFlags(s)
<1> DEFINE step == U!Release(r)
<1>1. step.do = "release" /\ step.what = r
  BY DEF U!Release
<1>2. Now(todo, step, rest)
  OBVIOUS
<1> HIDE DEF step
<1>3. Head(todo) = step /\ Tail(todo) = rest /\ U!ReleaseStep
  BY <1>1, <1>2, CallerIs
<1>4. /\ main' = main /\ UNCHANGED U!threads
      /\ todo' = rest /\ order' = U!RemoveFirst(order, r)
  BY <1>1, <1>3 DEF U!ReleaseStep, U!Continue
<1> QED
  BY <1>4, GiveIs

(* should_run of s is set or cleared. *)
LEMMA FlagAt ==
  ASSUME Sound, NEW s \in U!Services, NEW rest, NEW on \in BOOLEAN,
         Now(todo, IF on THEN U!Enable(s) ELSE U!Disable(s), rest), U!Next, ~Stops
  PROVE  /\ Sound' /\ main' = main /\ OthersSame(s)
         /\ todo' = rest /\ Kept(s)' = Kept(s) /\ should_run'[s] = on
         /\ stopped'[s] = stopped[s] /\ started'[s] = started[s]
         /\ (s \in alive' <=> s \in alive)
<1> DEFINE step == IF on THEN U!Enable(s) ELSE U!Disable(s)
<1>1. step.do = (IF on THEN "enable" ELSE "disable") /\ step.what = s
  BY DEF U!Enable, U!Disable
<1>2. Now(todo, step, rest)
  OBVIOUS
<1> HIDE DEF step
<1>3. Head(todo) = step /\ Tail(todo) = rest /\ U!FlagStep
  BY <1>1, <1>2, CallerIs
<1>4. /\ main' = main /\ UNCHANGED <<order, stopped, started, alive>>
      /\ todo' = rest /\ should_run' = [should_run EXCEPT ![s] = on]
  BY <1>1, <1>3 DEF U!FlagStep, U!Continue
<1>5. /\ FlagTypes' /\ \A t \in U!Services : started'[t] = started[t]
      /\ should_run'[s] = on /\ \A t \in U!Services \ {s} : SameFlags(t)
  BY <1>4 DEF FlagTypes, Sound, SameFlags
<1>6. Sound' /\ \A t \in U!Services : Kept(t)' = Kept(t)
  BY <1>4, <1>5, NothingMoves
<1> QED
  BY <1>4, <1>5, <1>6 DEF OthersSame, Same

(* The thread of s starts, or does not. *)
LEMMA StartUpAt ==
  ASSUME Sound, NEW s \in U!Services, NEW rest,
         Now(todo, U!StartUp(s), rest), ~stopped[s], U!Next, ~Stops
  PROVE  /\ Sound' /\ main' = main /\ OthersSame(s)
         /\ \/ /\ todo' = rest /\ Kept(s)' = Kept(s) /\ s \in alive'
               /\ should_run'[s] = should_run[s] /\ stopped'[s] = stopped[s]
               /\ started'[s] = started[s]
            \/ todo' = U!AfterFailing(U!StartUp(s)) /\ Same(s)
<1> DEFINE step == U!StartUp(s)
<1>1. step.do = "startup" /\ step.what = s
  BY DEF U!StartUp
<1>2. Now(todo, step, rest)
  OBVIOUS
<1> HIDE DEF step
<1>3. Head(todo) = step /\ Tail(todo) = rest /\ U!StartUpStep
  BY <1>1, <1>2, CallerIs
<1>4. /\ main' = main /\ UNCHANGED <<order, should_run, stopped, started>>
      /\ \/ todo' = rest /\ alive' = alive \cup {s}
         \/ todo' = U!AfterFailing(step) /\ UNCHANGED alive
  BY <1>1, <1>3 DEF U!StartUpStep, U!Continue, U!Fail
<1>5. /\ FlagTypes' /\ \A t \in U!Services : started'[t] = started[t]
      /\ \A t \in U!Services \ {s} : SameFlags(t)
      /\ UNCHANGED alive => SameFlags(s)
  BY <1>4 DEF FlagTypes, Sound, SameFlags
<1>6. Sound' /\ \A t \in U!Services : Kept(t)' = Kept(t)
  BY <1>4, <1>5, NothingMoves
<1> QED
  BY <1>4, <1>5, <1>6 DEF OthersSame, Same, step

(* s is up, or is no more. *)
LEMMA StartedAt ==
  ASSUME Sound, NEW s \in U!Services, NEW rest, NEW on \in BOOLEAN,
         Now(todo, IF on THEN U!Started(s) ELSE U!Stopped(s), rest),
         ~on => Kept(s) = {}, U!Next, ~Stops
  PROVE  /\ Sound' /\ main' = main /\ OthersSame(s)
         /\ todo' = rest /\ Kept(s)' = Kept(s) /\ should_run'[s] = should_run[s]
         /\ stopped'[s] = stopped[s] /\ started'[s] = on
         /\ (s \in alive' <=> s \in alive)
<1> DEFINE step == IF on THEN U!Started(s) ELSE U!Stopped(s)
<1>1. step.do = (IF on THEN "started" ELSE "gone") /\ step.what = s
  BY DEF U!Started, U!Stopped
<1>2. Now(todo, step, rest)
  OBVIOUS
<1> HIDE DEF step
<1>3. Head(todo) = step /\ Tail(todo) = rest /\ U!StartedStep
  BY <1>1, <1>2, CallerIs
<1>4. /\ main' = main /\ UNCHANGED <<order, should_run, stopped, alive>>
      /\ todo' = rest /\ started' = [started EXCEPT ![s] = on]
  BY <1>1, <1>3 DEF U!StartedStep, U!Continue
<1>5. /\ FlagTypes' /\ started'[s] = on /\ \A t \in U!Services \ {s} : SameFlags(t)
  BY <1>4 DEF FlagTypes, Sound, SameFlags
<1>6. \A t \in U!Services : started[t] /\ ~started'[t] => Kept(t) = {}
  BY <1>5 DEF SameFlags
<1>7. Sound' /\ \A t \in U!Services : Kept(t)' = Kept(t)
  BY <1>4, <1>5, <1>6, NothingMoves
<1> QED
  BY <1>4, <1>5, <1>7 DEF OthersSame, Same

(* The caller waits for the thread of s. *)
LEMMA WaitAt ==
  ASSUME Sound, NEW s \in U!Services, NEW rest, NEW late,
         Now(todo, U!Wait(s, late), rest), U!Next, ~Stops
  PROVE  /\ Sound' /\ main' = main /\ AllSame
         /\ todo' = IF stopped[s] THEN rest ELSE late
<1> DEFINE step == U!Wait(s, late)
<1>1. step.do = "wait" /\ step.what = s /\ step.late = late
  BY DEF U!Wait
<1>2. Now(todo, step, rest)
  OBVIOUS
<1> HIDE DEF step
<1>3. Head(todo) = step /\ Tail(todo) = rest /\ U!WaitStep
  BY <1>1, <1>2, CallerIs
<1>4. /\ main' = main /\ UNCHANGED order /\ UNCHANGED U!threads
      /\ todo' = IF stopped[s] THEN rest ELSE late
  BY <1>1, <1>3 DEF U!WaitStep, U!Continue
<1>5. FlagTypes' /\ \A t \in U!Services : SameFlags(t) /\ started'[t] = started[t]
  BY <1>4 DEF U!threads, FlagTypes, Sound, SameFlags
<1>6. Sound' /\ \A t \in U!Services : Kept(t)' = Kept(t)
  BY <1>4, <1>5, NothingMoves
<1> QED
  BY <1>4, <1>5, <1>6 DEF AllSame, Same

(* A thread that is told to stop does so. *)
LEMMA StopsIs ==
  ASSUME Sound, NEW s \in U!Services, U!ThreadStops(s)
  PROVE  /\ Sound' /\ main' = main /\ todo' = todo /\ OthersSame(s)
         /\ s \in alive /\ s \notin alive' /\ ~should_run[s] /\ ~should_run'[s]
         /\ Kept(s)' = Kept(s) /\ started'[s] = started[s]
<1>1. /\ FlagTypes' /\ \A t \in U!Services : started'[t] = started[t]
      /\ \A t \in U!Services \ {s} : SameFlags(t)
  BY DEF U!ThreadStops, FlagTypes, Sound, SameFlags
<1>2. Sound' /\ \A t \in U!Services : Kept(t)' = Kept(t)
  BY <1>1, NothingMoves DEF U!ThreadStops
<1> QED
  BY <1>1, <1>2 DEF U!ThreadStops, OthersSame, Same

(* A service is set up: its flags are cleared, and its list is begun. *)
LEMMA BeginIs ==
  ASSUME Sound, NEW s \in U!Services, NEW answer, NEW rest,
         U!Begin(s, answer, rest), UNCHANGED order
  PROVE  /\ Sound' /\ OthersSame(s)
         /\ \/ started[s] /\ todo' = answer /\ Same(s)
            \/ /\ ~started[s] /\ todo' = U!InitSteps[s] \o rest
               /\ Kept(s)' = Kept(s) /\ ~stopped'[s] /\ ~started'[s]
               /\ (s \in alive' <=> s \in alive)
<1>1. CASE started[s] /\ todo' = answer /\ UNCHANGED U!threads
  <2>1. FlagTypes' /\ \A t \in U!Services : SameFlags(t) /\ started'[t] = started[t]
    BY <1>1 DEF U!threads, FlagTypes, Sound, SameFlags
  <2>2. Sound' /\ \A t \in U!Services : Kept(t)' = Kept(t)
    BY <2>1, NothingMoves
  <2> QED BY <1>1, <2>1, <2>2 DEF OthersSame, Same
<1>2. CASE ~started[s] /\ U!SetUp(s, answer, rest)
  <2>1. /\ FlagTypes' /\ ~stopped'[s]
        /\ \A t \in U!Services : started'[t] = started[t]
        /\ \A t \in U!Services \ {s} : SameFlags(t)
    BY <1>2 DEF U!SetUp, FlagTypes, Sound, SameFlags
  <2>2. Sound' /\ \A t \in U!Services : Kept(t)' = Kept(t)
    BY <2>1, NothingMoves
  <2> QED BY <1>2, <2>1, <2>2 DEF U!SetUp, OthersSame, Same
<1> QED
  BY <1>1, <1>2 DEF U!Begin

-----------------------------------------------------------------------------
(* The calls about a plain service *)

(* The services that a call is not about hold nothing unless they are up. *)
OthersIdle(S) == \A t \in U!Services \ S : ~started[t] => Kept(t) = {}

(* A plain service takes its port before its thread. *)
LEMMA PlainRanks == \A s \in Plain : Rank[Port(s)] < Rank[Thread(s)]
  BY DEF Plain, Port, Thread, Rank

(* While a plain service starts, no other resource is above its own. *)
LEMMA PlainTopped ==
  ASSUME NEW s \in Plain, OthersIdle({s})
  PROVE  /\ Kept(s) \subseteq {Port(s)} => Topped(Thread(s)) /\ Topped(Port(s))
         /\ Topped(Thread(s))
<1>1. U!Owned[s] = {Port(s), Thread(s)} /\ Rank[Port(s)] < Rank[Thread(s)]
  BY PlainNames, PlainRanks
<1> QED
  BY <1>1 DEF Topped, OthersIdle, Kept

(* The deinit has only one beginning. *)
LEMMA PlainNotFirst ==
  ASSUME NEW s \in Plain
  PROVE  Deinit0(s) \notin {Deinit1(s), Deinit2(s), Deinit3(s), Deinit4(s)}
<1>1. /\ Head(Deinit0(s)) = U!Disable(s) /\ Head(Deinit1(s)) = U!Wait(s, <<>>)
      /\ Head(Deinit2(s)) = U!Release(Thread(s)) /\ Head(Deinit3(s)) = U!Release(Port(s))
      /\ Head(Deinit4(s)) = U!Stopped(s)
  BY PlainLists, Zenon DEF Now
<1>2. /\ U!Disable(s).do = "disable" /\ U!Wait(s, <<>>).do = "wait"
      /\ U!Release(Thread(s)).do = "release" /\ U!Release(Port(s)).do = "release"
      /\ U!Stopped(s).do = "gone"
  BY DEF U!Disable, U!Wait, U!Release, U!Stopped
<1> QED
  BY <1>1, <1>2

(* What a step of a call about s makes of it. *)
PlainNext(s) ==
  /\ PlainAt(s)' \/ (todo' = <<>> /\ Resting(s)')
  /\ started[s] => \/ todo' = <<>> /\ ~started'[s]
                   \/ started'[s] /\ (todo = Deinit0(s) \/ ~should_run[s] => ~should_run'[s])

(* A step of a call about a plain service leads to the next of its points. *)
LEMMA PlainStep ==
  ASSUME Sound, NEW s \in Plain, PlainAt(s), OthersIdle({s}), U!Next, ~Stops
  PROVE  Sound' /\ main' = main /\ OthersSame(s) /\ PlainNext(s)
<1>1. /\ s \in U!Services /\ U!Owned[s] = {Port(s), Thread(s)} /\ Port(s) # Thread(s)
      /\ Port(s) \in U!Owned[s] /\ Thread(s) \in U!Owned[s]
  BY PlainNames
<1>2. CASE todo = Init0(s) /\ Fresh(s, {})
  <2>1. Now(todo, U!Acquire(Port(s)), Init1(s))
    BY <1>2, PlainLists
  <2>2. Port(s) \notin Kept(s) /\ Topped(Port(s))
    BY <1>2, PlainTopped DEF Fresh, Off
  <2>3. /\ Sound' /\ main' = main /\ OthersSame(s)
        /\ \/ todo' = Init1(s) /\ Kept(s)' = Kept(s) \cup {Port(s)} /\ SameFlags(s)
           \/ todo' = <<>> /\ Same(s)
    BY <1>1, <2>1, <2>2, AcquireAt, PlainFailing
  <2>4. \/ todo' = Init1(s) /\ Fresh(s, {Port(s)})'
        \/ todo' = <<>> /\ Off(s, {})'
    BY <1>2, <2>3 DEF Fresh, Off, SameFlags, Same
  <2> QED BY <1>2, <2>3, <2>4, Zenon DEF PlainNext, PlainAt, Resting, Fresh, Off
<1>3. CASE todo = Init1(s) /\ Fresh(s, {Port(s)})
  <2>1. Now(todo, U!Acquire(Thread(s)), Init2(s))
    BY <1>3, PlainLists
  <2>2. Thread(s) \notin Kept(s) /\ Topped(Thread(s))
    BY <1>1, <1>3, PlainTopped DEF Fresh, Off
  <2>3. /\ Sound' /\ main' = main /\ OthersSame(s)
        /\ \/ todo' = Init2(s) /\ Kept(s)' = Kept(s) \cup {Thread(s)} /\ SameFlags(s)
           \/ todo' = Back1(s) /\ Same(s)
    BY <1>1, <2>1, <2>2, AcquireAt, PlainFailing
  <2>4. \/ todo' = Init2(s) /\ Fresh(s, U!Owned[s])'
        \/ todo' = Back1(s) /\ Off(s, {Port(s)})'
    BY <1>1, <1>3, <2>3 DEF Fresh, Off, SameFlags, Same
  <2> QED BY <1>3, <2>3, <2>4, Zenon DEF PlainNext, PlainAt, Fresh, Off
<1>4. CASE todo = Init2(s) /\ Fresh(s, U!Owned[s])
  <2>1. Now(todo, IF TRUE THEN U!Enable(s) ELSE U!Disable(s), Init3(s))
    BY <1>4, PlainLists
  <2>2. /\ Sound' /\ main' = main /\ OthersSame(s)
        /\ todo' = Init3(s) /\ Fresh(s, U!Owned[s])' /\ should_run'[s]
    BY <1>1, <1>4, <2>1, FlagAt DEF Fresh, Off
  <2> QED BY <1>4, <2>2, Zenon DEF PlainNext, PlainAt, Fresh, Off
<1>5. CASE todo = Init3(s) /\ Fresh(s, U!Owned[s]) /\ should_run[s]
  <2>1. Now(todo, U!StartUp(s), Init4(s))
    BY <1>5, PlainLists
  <2>2. ~stopped[s]
    BY <1>5 DEF Fresh
  <2>3. /\ Sound' /\ main' = main /\ OthersSame(s)
        /\ \/ todo' = Init4(s) /\ Launched(s)'
           \/ todo' = Back3(s) /\ Off(s, U!Owned[s])'
    BY <1>1, <1>5, <2>1, <2>2, StartUpAt, PlainFailing
       DEF Fresh, Off, Launched, Same, SameFlags
  <2> QED BY <1>5, <2>3, Zenon DEF PlainNext, PlainAt, Fresh, Off
<1>6. CASE todo = Init4(s) /\ Launched(s)
  <2>1. Now(todo, IF TRUE THEN U!Started(s) ELSE U!Stopped(s), <<>>)
    BY <1>6, PlainLists
  <2>2. Sound' /\ main' = main /\ OthersSame(s) /\ todo' = <<>> /\ Works(s)'
    BY <1>1, <1>6, <2>1, StartedAt DEF Launched, Works, On
  <2> QED BY <1>6, <2>2, Zenon DEF PlainNext, Resting, Launched
<1>7. CASE todo = Back3(s) /\ Off(s, U!Owned[s])
  <2>1. Now(todo, IF FALSE THEN U!Enable(s) ELSE U!Disable(s), Back2(s))
    BY <1>7, PlainLists
  <2>3. /\ Sound' /\ main' = main /\ OthersSame(s)
        /\ todo' = Back2(s) /\ (Off(s, U!Owned[s]))'
    BY <1>1, <1>7, <2>1, FlagAt DEF Off, Works, Told, Ended, On, SameFlags
  <2>4. started[s] =>
          \/ todo' = <<>> /\ ~started'[s]
          \/ started'[s] /\ (todo = Deinit0(s) \/ ~should_run[s] => ~should_run'[s])
    BY <1>1, <1>7, <2>1, FlagAt, <2>3
      DEF Off, Told, Ended, On, Works, SameFlags, AllSame, Same
  <2> QED BY <1>7, <2>3, <2>4, Zenon DEF PlainNext, PlainAt, Resting
<1>8. CASE todo = Back2(s) /\ Off(s, U!Owned[s])
  <2>1. Now(todo, U!Release(Thread(s)), Back1(s))
    BY <1>8, PlainLists
  <2>2. Thread(s) \in Kept(s)
    BY <1>1, <1>8 DEF Off, Ended, On
  <2>3. /\ Sound' /\ main' = main /\ OthersSame(s)
        /\ todo' = Back1(s) /\ (Off(s, {Port(s)}))'
    BY <1>1, <1>8, <2>1, <2>2, ReleaseAt DEF Off, Works, Told, Ended, On, SameFlags
  <2>4. started[s] =>
          \/ todo' = <<>> /\ ~started'[s]
          \/ started'[s] /\ (todo = Deinit0(s) \/ ~should_run[s] => ~should_run'[s])
    BY <1>1, <1>8, <2>1, <2>2, ReleaseAt, PlainNotFirst
      DEF Off, Told, Ended, On, Works, SameFlags, AllSame, Same
  <2> QED BY <1>8, <2>3, <2>4, Zenon DEF PlainNext, PlainAt, Resting
<1>9. CASE todo = Back1(s) /\ Off(s, {Port(s)})
  <2>1. Now(todo, U!Release(Port(s)), <<>>)
    BY <1>9, PlainLists
  <2>2. Port(s) \in Kept(s)
    BY <1>1, <1>9 DEF Off, Ended, On
  <2>3. /\ Sound' /\ main' = main /\ OthersSame(s)
        /\ todo' = <<>> /\ (Off(s, {}))'
    BY <1>1, <1>9, <2>1, <2>2, ReleaseAt DEF Off, Works, Told, Ended, On, SameFlags
  <2>4. started[s] =>
          \/ todo' = <<>> /\ ~started'[s]
          \/ started'[s] /\ (todo = Deinit0(s) \/ ~should_run[s] => ~should_run'[s])
    BY <1>1, <1>9, <2>1, <2>2, ReleaseAt, PlainNotFirst
      DEF Off, Told, Ended, On, Works, SameFlags, AllSame, Same
  <2> QED BY <1>9, <2>3, <2>4, Zenon DEF PlainNext, PlainAt, Resting
<1>10. CASE todo = Deinit0(s) /\ Works(s)
  <2>1. Now(todo, IF FALSE THEN U!Enable(s) ELSE U!Disable(s), Deinit1(s))
    BY <1>10, PlainLists
  <2>3. /\ Sound' /\ main' = main /\ OthersSame(s)
        /\ todo' = Deinit1(s) /\ (Told(s))'
    BY <1>1, <1>10, <2>1, FlagAt DEF Off, Works, Told, Ended, On, SameFlags
  <2>4. started[s] =>
          \/ todo' = <<>> /\ ~started'[s]
          \/ started'[s] /\ (todo = Deinit0(s) \/ ~should_run[s] => ~should_run'[s])
    BY <1>1, <1>10, <2>1, FlagAt, <2>3
      DEF Off, Told, Ended, On, Works, SameFlags, AllSame, Same
  <2> QED BY <1>10, <2>3, <2>4, Zenon DEF PlainNext, PlainAt, Resting
<1>11. CASE todo = Deinit1(s) /\ Told(s)
  <2>1. Now(todo, U!Wait(s, <<>>), Deinit2(s))
    BY <1>11, PlainLists
  <2>2. Sound' /\ main' = main /\ AllSame /\ todo' = IF stopped[s] THEN Deinit2(s) ELSE <<>>
    BY <1>1, <2>1, WaitAt
  <2>3. stopped[s] => s \notin alive
    BY <1>1 DEF Sound, FlagTypes
  <2>4. /\ Sound' /\ main' = main /\ OthersSame(s)
        /\ \/ todo' = Deinit2(s) /\ (Ended(s, U!Owned[s]))'
           \/ todo' = <<>> /\ (Works(s))'
    BY <1>1, <1>11, <2>2, <2>3
      DEF Told, Ended, On, Works, Resting, AllSame, Same, SameFlags, OthersSame,
          Plain
  <2>5. started[s] =>
          \/ todo' = <<>> /\ ~started'[s]
          \/ started'[s] /\ (todo = Deinit0(s) \/ ~should_run[s] => ~should_run'[s])
    BY <1>1, <1>11, <2>2, PlainNotFirst
      DEF Off, Told, Ended, On, Works, SameFlags, AllSame, Same
  <2> QED BY <1>11, <2>4, <2>5, Zenon DEF PlainNext, PlainAt, Resting
<1>12. CASE todo = Deinit2(s) /\ Ended(s, U!Owned[s])
  <2>1. Now(todo, U!Release(Thread(s)), Deinit3(s))
    BY <1>12, PlainLists
  <2>2. Thread(s) \in Kept(s)
    BY <1>1, <1>12 DEF Off, Ended, On
  <2>3. /\ Sound' /\ main' = main /\ OthersSame(s)
        /\ todo' = Deinit3(s) /\ (Ended(s, {Port(s)}))'
    BY <1>1, <1>12, <2>1, <2>2, ReleaseAt DEF Off, Works, Told, Ended, On, SameFlags
  <2>4. started[s] =>
          \/ todo' = <<>> /\ ~started'[s]
          \/ started'[s] /\ (todo = Deinit0(s) \/ ~should_run[s] => ~should_run'[s])
    BY <1>1, <1>12, <2>1, <2>2, ReleaseAt, PlainNotFirst
      DEF Off, Told, Ended, On, Works, SameFlags, AllSame, Same
  <2> QED BY <1>12, <2>3, <2>4, Zenon DEF PlainNext, PlainAt, Resting
<1>13. CASE todo = Deinit3(s) /\ Ended(s, {Port(s)})
  <2>1. Now(todo, U!Release(Port(s)), Deinit4(s))
    BY <1>13, PlainLists
  <2>2. Port(s) \in Kept(s)
    BY <1>1, <1>13 DEF Off, Ended, On
  <2>3. /\ Sound' /\ main' = main /\ OthersSame(s)
        /\ todo' = Deinit4(s) /\ (Ended(s, {}))'
    BY <1>1, <1>13, <2>1, <2>2, ReleaseAt DEF Off, Works, Told, Ended, On, SameFlags
  <2>4. started[s] =>
          \/ todo' = <<>> /\ ~started'[s]
          \/ started'[s] /\ (todo = Deinit0(s) \/ ~should_run[s] => ~should_run'[s])
    BY <1>1, <1>13, <2>1, <2>2, ReleaseAt, PlainNotFirst
      DEF Off, Told, Ended, On, Works, SameFlags, AllSame, Same
  <2> QED BY <1>13, <2>3, <2>4, Zenon DEF PlainNext, PlainAt, Resting
<1>14. CASE todo = Deinit4(s) /\ Ended(s, {})
  <2>1. Now(todo, IF FALSE THEN U!Started(s) ELSE U!Stopped(s), <<>>)
    BY <1>14, PlainLists
  <2>2. Kept(s) = {}
    BY <1>14 DEF Ended, On
  <2>3. /\ Sound' /\ main' = main /\ OthersSame(s)
        /\ todo' = <<>> /\ (Off(s, {}))'
    BY <1>1, <1>14, <2>1, <2>2, StartedAt DEF Off, Works, Told, Ended, On, SameFlags
  <2>4. started[s] =>
          \/ todo' = <<>> /\ ~started'[s]
          \/ started'[s] /\ (todo = Deinit0(s) \/ ~should_run[s] => ~should_run'[s])
    BY <1>1, <1>14, <2>1, <2>2, StartedAt
      DEF Off, Told, Ended, On, Works, SameFlags, AllSame, Same
  <2> QED BY <1>14, <2>3, <2>4, Zenon DEF PlainNext, PlainAt, Resting
<1> QED
  BY <1>2, <1>3, <1>4, <1>5, <1>6, <1>7, <1>8, <1>9, <1>10, <1>11, <1>12, <1>13,
     <1>14, Zenon
    DEF PlainAt

-----------------------------------------------------------------------------
(* The calls about imu_service and its logger *)

Both == {"imu", "log"}

(* What a step of such a call makes of it. *)
ImuNext ==
  /\ ImuAt' \/ (todo' = <<>> /\ ImuResting')
  /\ ~started["imu"] => ~started'["imu"] \/ (todo' = <<>> /\ should_run'["imu"])

PlainSame == \A t \in Plain : Same(t)

(* imu_log_service_init, called by imu_service_init. *)
LEMMA InitLogAt ==
  ASSUME Sound, Now(todo, U!InitLog, Imu5), U!Next, ~Stops
  PROVE  /\ Sound' /\ main' = main /\ OthersSame("log")
         /\ \/ /\ started["log"] /\ Same("log")
               /\ todo' = IF should_run["log"] THEN Imu5 ELSE Undo4
            \/ /\ ~started["log"] /\ todo' = Log0 /\ Kept("log")' = Kept("log")
               /\ ~stopped'["log"] /\ ~started'["log"]
               /\ ("log" \in alive' <=> "log" \in alive)
<1> DEFINE step == U!InitLog
<1>1. step.do = "init"
  BY DEF U!InitLog
<1>2. Now(todo, step, Imu5)
  OBVIOUS
<1> HIDE DEF step
<1>3. Head(todo) = step /\ Tail(todo) = Imu5 /\ U!InitLogStep
  BY <1>1, <1>2, CallerIs
<1>4. /\ main' = main /\ UNCHANGED order
      /\ U!Begin("log", IF should_run["log"] THEN Imu5 ELSE U!AfterFailing(U!InitLog), Imu5)
  BY <1>3, Zenon DEF U!InitLogStep
<1>5. "log" \in U!Services
  BY Names
<1> QED
  BY <1>4, <1>5, BeginIs, InitLists, ImuFailing

(* A list with a step in it is not empty. *)
LEMMA NotEmpty ==
  /\ Imu1 # <<>> /\ Stop2 # <<>> /\ Stop4 # <<>>
  BY ImuLists, Zenon DEF Now

(* imu_service_init. *)
LEMMA ImuInitStep ==
  ASSUME Sound, ImuInitAt, OthersIdle(Both), U!Next, ~Stops
  PROVE  Sound' /\ main' = main /\ PlainSame /\ ImuNext
<1>1. CASE todo = Imu0 /\ Fresh("imu", {}) /\ Resting("log")
  <2>1. Now(todo, U!Acquire("clock"), Imu1)
    BY <1>1, ImuLists
  <2>2. /\ "clock" \in U!Owned["imu"] /\ "imu" \in U!Services
        /\ "clock" \notin Kept("imu") /\ Topped("clock")
    BY <1>1, Names
      DEF Topped, OthersIdle, Both, Rank, Fresh, Off, On, Works, Resting
  <2>3. /\ Sound' /\ main' = main /\ OthersSame("imu")
        /\ \/ todo' = Imu1 /\ Kept("imu")' = Kept("imu") \cup {"clock"} /\ SameFlags("imu")
           \/ todo' = <<>> /\ Same("imu")
    BY <2>1, <2>2, AcquireAt, ImuFailing
  <2>4. /\ PlainSame
        /\ \/ todo' = Imu1 /\ (Fresh("imu", {"clock"}) /\ Resting("log"))'
           \/ todo' = <<>> /\ (Off("imu", {}) /\ Resting("log"))'
    BY <1>1, <2>2, <2>3, Names
      DEF Fresh, Off, On, Works, Resting, Same, SameFlags, OthersSame,
          PlainSame, Plain
  <2>5. ~started["imu"] => ~started'["imu"] \/ (todo' = <<>> /\ should_run'["imu"])
    BY <1>1, <2>3, <2>4
      DEF Fresh, Off, On, Works, Resting, Same, SameFlags, OthersSame,
          PlainSame, Plain
  <2>6. todo' = <<>> => ImuResting'
    BY <1>1, <2>3, <2>4, Names, NotEmpty
      DEF ImuResting, Fresh, Off, On, Works, Resting, Same, SameFlags,
          OthersSame, PlainSame, Plain
  <2> QED BY <1>1, <2>3, <2>4, <2>5, <2>6, Zenon DEF ImuNext, ImuAt, ImuInitAt
<1>2. CASE todo = Imu1 /\ Fresh("imu", {"clock"}) /\ Resting("log")
  <2>1. Now(todo, U!Acquire("event"), Imu2)
    BY <1>2, ImuLists
  <2>2. /\ "event" \in U!Owned["imu"] /\ "imu" \in U!Services
        /\ "event" \notin Kept("imu") /\ Topped("event")
    BY <1>2, Names
      DEF Topped, OthersIdle, Both, Rank, Fresh, Off, On, Works, Resting
  <2>3. /\ Sound' /\ main' = main /\ OthersSame("imu")
        /\ \/ todo' = Imu2 /\ Kept("imu")' = Kept("imu") \cup {"event"} /\ SameFlags("imu")
           \/ todo' = Undo1 /\ Same("imu")
    BY <2>1, <2>2, AcquireAt, ImuFailing
  <2>4. /\ PlainSame
        /\ \/ todo' = Imu2 /\ (Fresh("imu", {"clock", "event"}) /\ Resting("log"))'
           \/ todo' = Undo1 /\ (Off("imu", {"clock"}) /\ Resting("log"))'
    BY <1>2, <2>2, <2>3, Names
      DEF Fresh, Off, On, Works, Resting, Same, SameFlags, OthersSame,
          PlainSame, Plain
  <2>5. ~started["imu"] => ~started'["imu"] \/ (todo' = <<>> /\ should_run'["imu"])
    BY <1>2, <2>3, <2>4
      DEF Fresh, Off, On, Works, Resting, Same, SameFlags, OthersSame,
          PlainSame, Plain
  <2> QED BY <1>2, <2>3, <2>4, <2>5, Zenon DEF ImuNext, ImuAt, ImuInitAt, UndoAt
<1>3. CASE todo = Imu2 /\ Fresh("imu", {"clock", "event"}) /\ Resting("log")
  <2>1. Now(todo, U!Acquire("imu_thread"), Imu3)
    BY <1>3, ImuLists
  <2>2. /\ "imu_thread" \in U!Owned["imu"] /\ "imu" \in U!Services
        /\ "imu_thread" \notin Kept("imu") /\ Topped("imu_thread")
    BY <1>3, Names
      DEF Topped, OthersIdle, Both, Rank, Fresh, Off, On, Works, Resting
  <2>3. /\ Sound' /\ main' = main /\ OthersSame("imu")
        /\ \/ todo' = Imu3 /\ Kept("imu")' = Kept("imu") \cup {"imu_thread"} /\ SameFlags("imu")
           \/ todo' = Undo2 /\ Same("imu")
    BY <2>1, <2>2, AcquireAt, ImuFailing
  <2>4. /\ PlainSame
        /\ \/ todo' = Imu3 /\ (Fresh("imu", {"clock", "event", "imu_thread"}) /\ Resting("log"))'
           \/ todo' = Undo2 /\ (Off("imu", {"clock", "event"}) /\ Resting("log"))'
    BY <1>3, <2>2, <2>3, Names
      DEF Fresh, Off, On, Works, Resting, Same, SameFlags, OthersSame,
          PlainSame, Plain
  <2>5. ~started["imu"] => ~started'["imu"] \/ (todo' = <<>> /\ should_run'["imu"])
    BY <1>3, <2>3, <2>4
      DEF Fresh, Off, On, Works, Resting, Same, SameFlags, OthersSame,
          PlainSame, Plain
  <2> QED BY <1>3, <2>3, <2>4, <2>5, Zenon DEF ImuNext, ImuAt, ImuInitAt, UndoAt
<1>4. CASE todo = Imu3 /\ Fresh("imu", {"clock", "event", "imu_thread"}) /\ Resting("log")
  <2>1. Now(todo, U!Acquire("adapter"), Imu4)
    BY <1>4, ImuLists
  <2>2. /\ "adapter" \in U!Owned["imu"] /\ "imu" \in U!Services
        /\ "adapter" \notin Kept("imu") /\ Topped("adapter")
    BY <1>4, Names
      DEF Topped, OthersIdle, Both, Rank, Fresh, Off, On, Works, Resting
  <2>3. /\ Sound' /\ main' = main /\ OthersSame("imu")
        /\ \/ todo' = Imu4 /\ Kept("imu")' = Kept("imu") \cup {"adapter"} /\ SameFlags("imu")
           \/ todo' = Undo3 /\ Same("imu")
    BY <2>1, <2>2, AcquireAt, ImuFailing
  <2>4. /\ PlainSame
        /\ \/ todo' = Imu4 /\ (Fresh("imu", AllImu) /\ Resting("log"))'
           \/ todo' = Undo3 /\ (Off("imu", {"clock", "event", "imu_thread"}) /\ Resting("log"))'
    BY <1>4, <2>2, <2>3, Names
      DEF Fresh, Off, On, Works, Resting, Same, SameFlags, OthersSame,
          PlainSame, AllImu, Plain
  <2>5. ~started["imu"] => ~started'["imu"] \/ (todo' = <<>> /\ should_run'["imu"])
    BY <1>4, <2>3, <2>4
      DEF Fresh, Off, On, Works, Resting, Same, SameFlags, OthersSame,
          PlainSame, AllImu, Plain
  <2> QED BY <1>4, <2>3, <2>4, <2>5, Zenon DEF ImuNext, ImuAt, ImuInitAt, UndoAt
<1>5. CASE todo = Imu4 /\ Fresh("imu", AllImu) /\ Resting("log")
  <2>1. Now(todo, U!InitLog, Imu5)
    BY <1>5, ImuLists
  <2>2. "log" \in U!Services
    BY Names
  <2>3. /\ Sound' /\ main' = main /\ OthersSame("log")
        /\ \/ /\ started["log"] /\ Same("log")
              /\ todo' = IF should_run["log"] THEN Imu5 ELSE Undo4
           \/ /\ ~started["log"] /\ todo' = Log0 /\ Kept("log")' = Kept("log")
              /\ ~stopped'["log"] /\ ~started'["log"]
              /\ ("log" \in alive' <=> "log" \in alive)
    BY <2>1, InitLogAt
  <2>4. /\ PlainSame
        /\ \/ todo' = Imu5 /\ (Fresh("imu", AllImu) /\ LogUp)'
           \/ todo' = Undo4 /\ (Off("imu", AllImu) /\ Resting("log"))'
           \/ todo' = Log0 /\ (Fresh("imu", AllImu) /\ Fresh("log", {}))'
    BY <1>5, <2>2, <2>3, Names
      DEF Fresh, Off, On, Works, Resting, LogUp, Same, SameFlags, OthersSame,
          PlainSame, AllImu, Plain
  <2>5. ~started["imu"] => ~started'["imu"] \/ (todo' = <<>> /\ should_run'["imu"])
    BY <1>5, <2>3, <2>4
      DEF Fresh, Off, On, Works, Resting, LogUp, Same, SameFlags, OthersSame,
          PlainSame, AllImu, Plain
  <2> QED
    BY <1>5, <2>3, <2>4, <2>5, Zenon
      DEF ImuNext, ImuAt, ImuInitAt, LogInitAt, UndoAt
<1>6. CASE todo = Imu5 /\ Fresh("imu", AllImu) /\ LogUp
  <2>1. Now(todo, IF TRUE THEN U!Enable("imu") ELSE U!Disable("imu"), Imu6)
    BY <1>6, ImuLists
  <2>2. "imu" \in U!Services
    BY Names
  <2>3. /\ Sound' /\ main' = main /\ OthersSame("imu")
        /\ todo' = Imu6 /\ Kept("imu")' = Kept("imu")
        /\ should_run'["imu"] = TRUE /\ started'["imu"] = started["imu"]
        /\ stopped'["imu"] = stopped["imu"] /\ ("imu" \in alive' <=> "imu" \in alive)
    BY <2>1, <2>2, FlagAt
  <2>4. /\ PlainSame
        /\ todo' = Imu6 /\ (Fresh("imu", AllImu) /\ LogUp /\ should_run["imu"])'
    BY <1>6, <2>2, <2>3, Names
      DEF Fresh, Off, On, Works, LogUp, Same, SameFlags, OthersSame, PlainSame,
          AllImu, Plain
  <2>5. ~started["imu"] => ~started'["imu"] \/ (todo' = <<>> /\ should_run'["imu"])
    BY <1>6, <2>3, <2>4
      DEF Fresh, Off, On, Works, LogUp, Same, SameFlags, OthersSame, PlainSame,
          AllImu, Plain
  <2> QED BY <1>6, <2>3, <2>4, <2>5, Zenon DEF ImuNext, ImuAt, ImuInitAt
<1>7. CASE todo = Imu6 /\ Fresh("imu", AllImu) /\ LogUp /\ should_run["imu"]
  <2>1. Now(todo, U!StartUp("imu"), Imu7)
    BY <1>7, ImuLists
  <2>2. "imu" \in U!Services /\ ~stopped["imu"]
    BY <1>7, Names DEF Fresh, Off, On, Works, LogUp, AllImu
  <2>3. started["log"]
    BY <1>7 DEF LogUp, Works, On
  <2>4. /\ Sound' /\ main' = main /\ OthersSame("imu")
        /\ \/ /\ todo' = Imu7 /\ Kept("imu")' = Kept("imu") /\ "imu" \in alive'
              /\ should_run'["imu"] = should_run["imu"] /\ started'["imu"] = started["imu"]
           \/ todo' = Fail0 /\ Same("imu")
    BY <2>1, <2>2, <2>3, StartUpAt, ImuFailing
  <2>5. /\ PlainSame
        /\ \/ todo' = Imu7 /\ (Launched("imu") /\ LogUp)'
           \/ todo' = Fail0 /\ (Off("imu", AllImu) /\ Works("log"))'
    BY <1>7, <2>2, <2>4, Names
      DEF Fresh, Off, On, Works, Launched, LogUp, Same, SameFlags, OthersSame,
          PlainSame, AllImu, Plain
  <2>6. ~started["imu"] => ~started'["imu"] \/ (todo' = <<>> /\ should_run'["imu"])
    BY <1>7, <2>4, <2>5
      DEF Fresh, Off, On, Works, Launched, LogUp, Same, SameFlags, OthersSame,
          PlainSame, AllImu, Plain
  <2> QED BY <1>7, <2>4, <2>5, <2>6, Zenon DEF ImuNext, ImuAt, ImuInitAt, FailAt
<1>8. CASE todo = Imu7 /\ Launched("imu") /\ LogUp
  <2>1. Now(todo, IF TRUE THEN U!Started("imu") ELSE U!Stopped("imu"), <<>>)
    BY <1>8, ImuLists
  <2>2. "imu" \in U!Services
    BY Names
  <2>3. /\ Sound' /\ main' = main /\ OthersSame("imu")
        /\ todo' = <<>> /\ Kept("imu")' = Kept("imu")
        /\ should_run'["imu"] = should_run["imu"] /\ started'["imu"] = TRUE
        /\ stopped'["imu"] = stopped["imu"] /\ ("imu" \in alive' <=> "imu" \in alive)
    BY <2>1, <2>2, StartedAt
  <2>4. /\ PlainSame
        /\ todo' = <<>> /\ (Works("imu") /\ should_run["imu"] /\ LogUp)'
    BY <1>8, <2>2, <2>3, Names
      DEF On, Works, Launched, LogUp, Same, SameFlags, OthersSame, PlainSame,
          Plain
  <2>5. ~started["imu"] => ~started'["imu"] \/ (todo' = <<>> /\ should_run'["imu"])
    BY <1>8, <2>3, <2>4
      DEF On, Works, Launched, LogUp, Same, SameFlags, OthersSame, PlainSame,
          Plain
  <2>6. todo' = <<>> => ImuResting'
    BY <1>8, <2>3, <2>4, Names, NotEmpty
      DEF ImuResting, Off, On, Works, Resting, Launched, LogUp, Same, SameFlags,
          OthersSame, PlainSame, Plain
  <2> QED BY <1>8, <2>3, <2>4, <2>5, <2>6, Zenon DEF ImuNext, ImuAt
<1> QED
  BY <1>1, <1>2, <1>3, <1>4, <1>5, <1>6, <1>7, <1>8, Zenon DEF ImuInitAt

(* imu_log_service_init. *)
LEMMA LogInitStep ==
  ASSUME Sound, LogInitAt, OthersIdle(Both), U!Next, ~Stops
  PROVE  Sound' /\ main' = main /\ PlainSame /\ ImuNext
<1>1. CASE todo = Log0 /\ Fresh("imu", AllImu) /\ Fresh("log", {})
  <2>1. Now(todo, U!Acquire("queue"), Log1)
    BY <1>1, ImuLists
  <2>2. /\ "queue" \in U!Owned["log"] /\ "log" \in U!Services
        /\ "queue" \notin Kept("log") /\ Topped("queue")
    BY <1>1, Names DEF Topped, OthersIdle, Both, Rank, Fresh, Off, AllImu
  <2>3. /\ Sound' /\ main' = main /\ OthersSame("log")
        /\ \/ todo' = Log1 /\ Kept("log")' = Kept("log") \cup {"queue"} /\ SameFlags("log")
           \/ todo' = Undo4 /\ Same("log")
    BY <2>1, <2>2, AcquireAt, ImuFailing
  <2>4. /\ PlainSame
        /\ \/ todo' = Log1 /\ (Fresh("imu", AllImu) /\ Fresh("log", {"queue"}))'
           \/ todo' = Undo4 /\ (Off("imu", AllImu) /\ Resting("log"))'
    BY <1>1, <2>2, <2>3, Names
      DEF Fresh, Off, On, Works, Resting, Same, SameFlags, OthersSame,
          PlainSame, AllImu, Plain
  <2>5. ~started["imu"] => ~started'["imu"] \/ (todo' = <<>> /\ should_run'["imu"])
    BY <1>1, <2>3, <2>4
      DEF Fresh, Off, On, Works, Resting, Same, SameFlags, OthersSame,
          PlainSame, AllImu, Plain
  <2> QED BY <1>1, <2>3, <2>4, <2>5, Zenon DEF ImuNext, ImuAt, LogInitAt, UndoAt
<1>2. CASE todo = Log1 /\ Fresh("imu", AllImu) /\ Fresh("log", {"queue"})
  <2>1. Now(todo, U!Acquire("log_thread"), Log2)
    BY <1>2, ImuLists
  <2>2. /\ "log_thread" \in U!Owned["log"] /\ "log" \in U!Services
        /\ "log_thread" \notin Kept("log") /\ Topped("log_thread")
    BY <1>2, Names DEF Topped, OthersIdle, Both, Rank, Fresh, Off, AllImu
  <2>3. /\ Sound' /\ main' = main /\ OthersSame("log")
        /\ \/ todo' = Log2 /\ Kept("log")' = Kept("log") \cup {"log_thread"} /\ SameFlags("log")
           \/ todo' = Undo5 /\ Same("log")
    BY <2>1, <2>2, AcquireAt, ImuFailing
  <2>4. /\ PlainSame
        /\ \/ todo' = Log2 /\ (Fresh("imu", AllImu) /\ Fresh("log", AllLog))'
           \/ todo' = Undo5 /\ (Off("imu", AllImu) /\ Off("log", {"queue"}))'
    BY <1>2, <2>2, <2>3, Names
      DEF Fresh, Off, Same, SameFlags, OthersSame, PlainSame, AllImu, AllLog,
          Plain
  <2>5. ~started["imu"] => ~started'["imu"] \/ (todo' = <<>> /\ should_run'["imu"])
    BY <1>2, <2>3, <2>4
      DEF Fresh, Off, Same, SameFlags, OthersSame, PlainSame, AllImu, AllLog,
          Plain
  <2> QED BY <1>2, <2>3, <2>4, <2>5, Zenon DEF ImuNext, ImuAt, LogInitAt, UndoAt
<1>3. CASE todo = Log2 /\ Fresh("imu", AllImu) /\ Fresh("log", AllLog)
  <2>1. Now(todo, IF TRUE THEN U!Enable("log") ELSE U!Disable("log"), Log3)
    BY <1>3, ImuLists
  <2>2. "log" \in U!Services
    BY Names
  <2>3. /\ Sound' /\ main' = main /\ OthersSame("log")
        /\ todo' = Log3 /\ Kept("log")' = Kept("log")
        /\ should_run'["log"] = TRUE /\ started'["log"] = started["log"]
        /\ stopped'["log"] = stopped["log"] /\ ("log" \in alive' <=> "log" \in alive)
    BY <2>1, <2>2, FlagAt
  <2>4. /\ PlainSame
        /\ todo' = Log3 /\ (Fresh("imu", AllImu) /\ Fresh("log", AllLog) /\ should_run["log"])'
    BY <1>3, <2>2, <2>3, Names
      DEF Fresh, Off, Same, SameFlags, OthersSame, PlainSame, AllImu, AllLog,
          Plain
  <2>5. ~started["imu"] => ~started'["imu"] \/ (todo' = <<>> /\ should_run'["imu"])
    BY <1>3, <2>3, <2>4
      DEF Fresh, Off, Same, SameFlags, OthersSame, PlainSame, AllImu, AllLog,
          Plain
  <2> QED BY <1>3, <2>3, <2>4, <2>5, Zenon DEF ImuNext, ImuAt, LogInitAt
<1>4. CASE todo = Log3 /\ Fresh("imu", AllImu) /\ Fresh("log", AllLog) /\ should_run["log"]
  <2>1. Now(todo, U!StartUp("log"), Log4)
    BY <1>4, ImuLists
  <2>2. "log" \in U!Services /\ ~stopped["log"]
    BY <1>4, Names DEF Fresh, Off, AllImu, AllLog
  <2>3. /\ Sound' /\ main' = main /\ OthersSame("log")
        /\ \/ /\ todo' = Log4 /\ Kept("log")' = Kept("log") /\ "log" \in alive'
              /\ should_run'["log"] = should_run["log"] /\ started'["log"] = started["log"]
           \/ todo' = Undo7 /\ Same("log")
    BY <2>1, <2>2, StartUpAt, ImuFailing
  <2>4. /\ PlainSame
        /\ \/ todo' = Log4 /\ (Fresh("imu", AllImu) /\ Launched("log"))'
           \/ todo' = Undo7 /\ (Off("imu", AllImu) /\ Off("log", AllLog))'
    BY <1>4, <2>2, <2>3, Names
      DEF Fresh, Off, Launched, Same, SameFlags, OthersSame, PlainSame, AllImu,
          AllLog, Plain
  <2>5. ~started["imu"] => ~started'["imu"] \/ (todo' = <<>> /\ should_run'["imu"])
    BY <1>4, <2>3, <2>4
      DEF Fresh, Off, Launched, Same, SameFlags, OthersSame, PlainSame, AllImu,
          AllLog, Plain
  <2> QED BY <1>4, <2>3, <2>4, <2>5, Zenon DEF ImuNext, ImuAt, LogInitAt, UndoAt
<1>5. CASE todo = Log4 /\ Fresh("imu", AllImu) /\ Launched("log")
  <2>1. Now(todo, IF TRUE THEN U!Started("log") ELSE U!Stopped("log"), Imu5)
    BY <1>5, ImuLists
  <2>2. "log" \in U!Services
    BY Names
  <2>3. /\ Sound' /\ main' = main /\ OthersSame("log")
        /\ todo' = Imu5 /\ Kept("log")' = Kept("log")
        /\ should_run'["log"] = should_run["log"] /\ started'["log"] = TRUE
        /\ stopped'["log"] = stopped["log"] /\ ("log" \in alive' <=> "log" \in alive)
    BY <2>1, <2>2, StartedAt
  <2>4. /\ PlainSame
        /\ todo' = Imu5 /\ (Fresh("imu", AllImu) /\ LogUp)'
    BY <1>5, <2>2, <2>3, Names
      DEF Fresh, Off, On, Works, Launched, LogUp, Same, SameFlags, OthersSame,
          PlainSame, AllImu, Plain
  <2>5. ~started["imu"] => ~started'["imu"] \/ (todo' = <<>> /\ should_run'["imu"])
    BY <1>5, <2>3, <2>4
      DEF Fresh, Off, On, Works, Launched, LogUp, Same, SameFlags, OthersSame,
          PlainSame, AllImu, Plain
  <2> QED BY <1>5, <2>3, <2>4, <2>5, Zenon DEF ImuNext, ImuAt, ImuInitAt
<1> QED
  BY <1>1, <1>2, <1>3, <1>4, <1>5, Zenon DEF LogInitAt

(* The rollback of a start. *)
LEMMA UndoStep ==
  ASSUME Sound, UndoAt, OthersIdle(Both), U!Next, ~Stops
  PROVE  Sound' /\ main' = main /\ PlainSame /\ ImuNext
<1>1. CASE todo = Undo1 /\ Off("imu", {"clock"}) /\ Resting("log")
  <2>1. Now(todo, U!Release("clock"), <<>>)
    BY <1>1, ImuLists
  <2>2. "clock" \in U!Owned["imu"] /\ "imu" \in U!Services /\ "clock" \in Kept("imu")
    BY <1>1, Names DEF Off, On, Works, Resting
  <2>3. /\ Sound' /\ main' = main /\ OthersSame("imu")
        /\ todo' = <<>> /\ Kept("imu")' = Kept("imu") \ {"clock"} /\ SameFlags("imu")
    BY <2>1, <2>2, ReleaseAt
  <2>4. /\ PlainSame
        /\ todo' = <<>> /\ (Off("imu", {}) /\ Resting("log"))'
    BY <1>1, <2>2, <2>3, Names
      DEF Off, On, Works, Resting, Same, SameFlags, OthersSame, PlainSame, Plain
  <2>5. ~started["imu"] => ~started'["imu"] \/ (todo' = <<>> /\ should_run'["imu"])
    BY <1>1, <2>3, <2>4
      DEF Off, On, Works, Resting, Same, SameFlags, OthersSame, PlainSame, Plain
  <2>6. todo' = <<>> => ImuResting'
    BY <1>1, <2>3, <2>4, Names, NotEmpty
      DEF ImuResting, Off, On, Works, Resting, Same, SameFlags, OthersSame,
          PlainSame, Plain
  <2> QED BY <1>1, <2>3, <2>4, <2>5, <2>6, Zenon DEF ImuNext, ImuAt
<1>2. CASE todo = Undo2 /\ Off("imu", {"clock", "event"}) /\ Resting("log")
  <2>1. Now(todo, U!Release("event"), Undo1)
    BY <1>2, ImuLists
  <2>2. "event" \in U!Owned["imu"] /\ "imu" \in U!Services /\ "event" \in Kept("imu")
    BY <1>2, Names DEF Off, On, Works, Resting
  <2>3. /\ Sound' /\ main' = main /\ OthersSame("imu")
        /\ todo' = Undo1 /\ Kept("imu")' = Kept("imu") \ {"event"} /\ SameFlags("imu")
    BY <2>1, <2>2, ReleaseAt
  <2>4. /\ PlainSame
        /\ todo' = Undo1 /\ (Off("imu", {"clock"}) /\ Resting("log"))'
    BY <1>2, <2>2, <2>3, Names
      DEF Off, On, Works, Resting, Same, SameFlags, OthersSame, PlainSame, Plain
  <2>5. ~started["imu"] => ~started'["imu"] \/ (todo' = <<>> /\ should_run'["imu"])
    BY <1>2, <2>3, <2>4
      DEF Off, On, Works, Resting, Same, SameFlags, OthersSame, PlainSame, Plain
  <2> QED BY <1>2, <2>3, <2>4, <2>5, Zenon DEF ImuNext, ImuAt, UndoAt
<1>3. CASE todo = Undo3 /\ Off("imu", {"clock", "event", "imu_thread"}) /\ Resting("log")
  <2>1. Now(todo, U!Release("imu_thread"), Undo2)
    BY <1>3, ImuLists
  <2>2. "imu_thread" \in U!Owned["imu"] /\ "imu" \in U!Services /\ "imu_thread" \in Kept("imu")
    BY <1>3, Names DEF Off, On, Works, Resting
  <2>3. /\ Sound' /\ main' = main /\ OthersSame("imu")
        /\ todo' = Undo2 /\ Kept("imu")' = Kept("imu") \ {"imu_thread"} /\ SameFlags("imu")
    BY <2>1, <2>2, ReleaseAt
  <2>4. /\ PlainSame
        /\ todo' = Undo2 /\ (Off("imu", {"clock", "event"}) /\ Resting("log"))'
    BY <1>3, <2>2, <2>3, Names
      DEF Off, On, Works, Resting, Same, SameFlags, OthersSame, PlainSame, Plain
  <2>5. ~started["imu"] => ~started'["imu"] \/ (todo' = <<>> /\ should_run'["imu"])
    BY <1>3, <2>3, <2>4
      DEF Off, On, Works, Resting, Same, SameFlags, OthersSame, PlainSame, Plain
  <2> QED BY <1>3, <2>3, <2>4, <2>5, Zenon DEF ImuNext, ImuAt, UndoAt
<1>4. CASE todo = Undo4 /\ Off("imu", AllImu) /\ Resting("log")
  <2>1. Now(todo, U!Release("adapter"), Undo3)
    BY <1>4, ImuLists
  <2>2. "adapter" \in U!Owned["imu"] /\ "imu" \in U!Services /\ "adapter" \in Kept("imu")
    BY <1>4, Names DEF Off, On, Works, Resting, AllImu
  <2>3. /\ Sound' /\ main' = main /\ OthersSame("imu")
        /\ todo' = Undo3 /\ Kept("imu")' = Kept("imu") \ {"adapter"} /\ SameFlags("imu")
    BY <2>1, <2>2, ReleaseAt
  <2>4. /\ PlainSame
        /\ todo' = Undo3 /\ (Off("imu", {"clock", "event", "imu_thread"}) /\ Resting("log"))'
    BY <1>4, <2>2, <2>3, Names
      DEF Off, On, Works, Resting, Same, SameFlags, OthersSame, PlainSame,
          AllImu, Plain
  <2>5. ~started["imu"] => ~started'["imu"] \/ (todo' = <<>> /\ should_run'["imu"])
    BY <1>4, <2>3, <2>4
      DEF Off, On, Works, Resting, Same, SameFlags, OthersSame, PlainSame,
          AllImu, Plain
  <2> QED BY <1>4, <2>3, <2>4, <2>5, Zenon DEF ImuNext, ImuAt, UndoAt
<1>5. CASE todo = Undo5 /\ Off("imu", AllImu) /\ Off("log", {"queue"})
  <2>1. Now(todo, U!Release("queue"), Undo4)
    BY <1>5, ImuLists
  <2>2. "queue" \in U!Owned["log"] /\ "log" \in U!Services /\ "queue" \in Kept("log")
    BY <1>5, Names DEF Off, AllImu
  <2>3. /\ Sound' /\ main' = main /\ OthersSame("log")
        /\ todo' = Undo4 /\ Kept("log")' = Kept("log") \ {"queue"} /\ SameFlags("log")
    BY <2>1, <2>2, ReleaseAt
  <2>4. /\ PlainSame
        /\ todo' = Undo4 /\ (Off("imu", AllImu) /\ Resting("log"))'
    BY <1>5, <2>2, <2>3, Names
      DEF Off, On, Works, Resting, Same, SameFlags, OthersSame, PlainSame,
          AllImu, Plain
  <2>5. ~started["imu"] => ~started'["imu"] \/ (todo' = <<>> /\ should_run'["imu"])
    BY <1>5, <2>3, <2>4
      DEF Off, On, Works, Resting, Same, SameFlags, OthersSame, PlainSame,
          AllImu, Plain
  <2> QED BY <1>5, <2>3, <2>4, <2>5, Zenon DEF ImuNext, ImuAt, UndoAt
<1>6. CASE todo = Undo6 /\ Off("imu", AllImu) /\ Off("log", AllLog)
  <2>1. Now(todo, U!Release("log_thread"), Undo5)
    BY <1>6, ImuLists
  <2>2. "log_thread" \in U!Owned["log"] /\ "log" \in U!Services /\ "log_thread" \in Kept("log")
    BY <1>6, Names DEF Off, AllImu, AllLog
  <2>3. /\ Sound' /\ main' = main /\ OthersSame("log")
        /\ todo' = Undo5 /\ Kept("log")' = Kept("log") \ {"log_thread"} /\ SameFlags("log")
    BY <2>1, <2>2, ReleaseAt
  <2>4. /\ PlainSame
        /\ todo' = Undo5 /\ (Off("imu", AllImu) /\ Off("log", {"queue"}))'
    BY <1>6, <2>2, <2>3, Names
      DEF Off, Same, SameFlags, OthersSame, PlainSame, AllImu, AllLog, Plain
  <2>5. ~started["imu"] => ~started'["imu"] \/ (todo' = <<>> /\ should_run'["imu"])
    BY <1>6, <2>3, <2>4
      DEF Off, Same, SameFlags, OthersSame, PlainSame, AllImu, AllLog, Plain
  <2> QED BY <1>6, <2>3, <2>4, <2>5, Zenon DEF ImuNext, ImuAt, UndoAt
<1>7. CASE todo = Undo7 /\ Off("imu", AllImu) /\ Off("log", AllLog)
  <2>1. Now(todo, IF FALSE THEN U!Enable("log") ELSE U!Disable("log"), Undo6)
    BY <1>7, ImuLists
  <2>2. "log" \in U!Services
    BY Names
  <2>3. /\ Sound' /\ main' = main /\ OthersSame("log")
        /\ todo' = Undo6 /\ Kept("log")' = Kept("log")
        /\ should_run'["log"] = FALSE /\ started'["log"] = started["log"]
        /\ stopped'["log"] = stopped["log"] /\ ("log" \in alive' <=> "log" \in alive)
    BY <2>1, <2>2, FlagAt
  <2>4. /\ PlainSame
        /\ todo' = Undo6 /\ (Off("imu", AllImu) /\ Off("log", AllLog))'
    BY <1>7, <2>2, <2>3, Names
      DEF Off, Same, SameFlags, OthersSame, PlainSame, AllImu, AllLog, Plain
  <2>5. ~started["imu"] => ~started'["imu"] \/ (todo' = <<>> /\ should_run'["imu"])
    BY <1>7, <2>3, <2>4
      DEF Off, Same, SameFlags, OthersSame, PlainSame, AllImu, AllLog, Plain
  <2> QED BY <1>7, <2>3, <2>4, <2>5, Zenon DEF ImuNext, ImuAt, UndoAt
<1> QED
  BY <1>1, <1>2, <1>3, <1>4, <1>5, <1>6, <1>7, Zenon DEF UndoAt

(* The rollback when the IMU thread does not start. *)
LEMMA FailStep ==
  ASSUME Sound, FailAt, OthersIdle(Both), U!Next, ~Stops
  PROVE  Sound' /\ main' = main /\ PlainSame /\ ImuNext
<1>1. CASE todo = Fail0 /\ Off("imu", AllImu) /\ Works("log")
  <2>1. Now(todo, IF FALSE THEN U!Enable("log") ELSE U!Disable("log"), Fail1)
    BY <1>1, ImuLists
  <2>2. "log" \in U!Services
    BY Names
  <2>3. /\ Sound' /\ main' = main /\ OthersSame("log")
        /\ todo' = Fail1 /\ Kept("log")' = Kept("log")
        /\ should_run'["log"] = FALSE /\ started'["log"] = started["log"]
        /\ stopped'["log"] = stopped["log"] /\ ("log" \in alive' <=> "log" \in alive)
    BY <2>1, <2>2, FlagAt
  <2>4. /\ PlainSame
        /\ todo' = Fail1 /\ (Off("imu", AllImu) /\ Told("log"))'
    BY <1>1, <2>2, <2>3, Names
      DEF Off, On, Works, Told, Same, SameFlags, OthersSame, PlainSame, AllImu,
          Plain
  <2>5. ~started["imu"] => ~started'["imu"] \/ (todo' = <<>> /\ should_run'["imu"])
    BY <1>1, <2>3, <2>4
      DEF Off, On, Works, Told, Same, SameFlags, OthersSame, PlainSame, AllImu,
          Plain
  <2> QED BY <1>1, <2>3, <2>4, <2>5, Zenon DEF ImuNext, ImuAt, FailAt
<1>2. CASE todo = Fail1 /\ Off("imu", AllImu) /\ Told("log")
  <2>1. Now(todo, U!Wait("log", Fail5), Fail2)
    BY <1>2, ImuLists
  <2>2. "log" \in U!Services /\ (stopped["log"] => "log" \notin alive)
    BY Names DEF Sound, FlagTypes
  <2>3. /\ Sound' /\ main' = main /\ AllSame
        /\ todo' = IF stopped["log"] THEN Fail2 ELSE Fail5
    BY <2>1, <2>2, WaitAt
  <2>4. /\ PlainSame
        /\ \/ todo' = Fail2 /\ (Off("imu", AllImu) /\ Ended("log", AllLog))'
           \/ todo' = Fail5 /\ (Off("imu", AllImu) /\ Resting("log"))'
    BY <1>2, <2>2, <2>3, Names
      DEF Off, On, Works, Resting, Told, Ended, Same, SameFlags, AllSame,
          PlainSame, AllImu, AllLog, Plain
  <2>5. ~started["imu"] => ~started'["imu"] \/ (todo' = <<>> /\ should_run'["imu"])
    BY <1>2, <2>3, <2>4
      DEF Off, On, Works, Resting, Told, Ended, Same, SameFlags, AllSame,
          PlainSame, AllImu, AllLog, Plain
  <2> QED BY <1>2, <2>3, <2>4, <2>5, Zenon DEF ImuNext, ImuAt, FailAt
<1>3. CASE todo = Fail2 /\ Off("imu", AllImu) /\ Ended("log", AllLog)
  <2>1. Now(todo, U!Release("log_thread"), Fail3)
    BY <1>3, ImuLists
  <2>2. "log_thread" \in U!Owned["log"] /\ "log" \in U!Services /\ "log_thread" \in Kept("log")
    BY <1>3, Names DEF Off, On, Ended, AllImu, AllLog
  <2>3. /\ Sound' /\ main' = main /\ OthersSame("log")
        /\ todo' = Fail3 /\ Kept("log")' = Kept("log") \ {"log_thread"} /\ SameFlags("log")
    BY <2>1, <2>2, ReleaseAt
  <2>4. /\ PlainSame
        /\ todo' = Fail3 /\ (Off("imu", AllImu) /\ Ended("log", {"queue"}))'
    BY <1>3, <2>2, <2>3, Names
      DEF Off, On, Ended, Same, SameFlags, OthersSame, PlainSame, AllImu,
          AllLog, Plain
  <2>5. ~started["imu"] => ~started'["imu"] \/ (todo' = <<>> /\ should_run'["imu"])
    BY <1>3, <2>3, <2>4
      DEF Off, On, Ended, Same, SameFlags, OthersSame, PlainSame, AllImu,
          AllLog, Plain
  <2> QED BY <1>3, <2>3, <2>4, <2>5, Zenon DEF ImuNext, ImuAt, FailAt
<1>4. CASE todo = Fail3 /\ Off("imu", AllImu) /\ Ended("log", {"queue"})
  <2>1. Now(todo, U!Release("queue"), Fail4)
    BY <1>4, ImuLists
  <2>2. "queue" \in U!Owned["log"] /\ "log" \in U!Services /\ "queue" \in Kept("log")
    BY <1>4, Names DEF Off, On, Ended, AllImu
  <2>3. /\ Sound' /\ main' = main /\ OthersSame("log")
        /\ todo' = Fail4 /\ Kept("log")' = Kept("log") \ {"queue"} /\ SameFlags("log")
    BY <2>1, <2>2, ReleaseAt
  <2>4. /\ PlainSame
        /\ todo' = Fail4 /\ (Off("imu", AllImu) /\ Ended("log", {}))'
    BY <1>4, <2>2, <2>3, Names
      DEF Off, On, Ended, Same, SameFlags, OthersSame, PlainSame, AllImu, Plain
  <2>5. ~started["imu"] => ~started'["imu"] \/ (todo' = <<>> /\ should_run'["imu"])
    BY <1>4, <2>3, <2>4
      DEF Off, On, Ended, Same, SameFlags, OthersSame, PlainSame, AllImu, Plain
  <2> QED BY <1>4, <2>3, <2>4, <2>5, Zenon DEF ImuNext, ImuAt, FailAt
<1>5. CASE todo = Fail4 /\ Off("imu", AllImu) /\ Ended("log", {})
  <2>1. Now(todo, IF FALSE THEN U!Started("log") ELSE U!Stopped("log"), Fail5)
    BY <1>5, ImuLists
  <2>2. "log" \in U!Services /\ Kept("log") = {}
    BY <1>5, Names DEF Off, On, Ended, AllImu
  <2>3. /\ Sound' /\ main' = main /\ OthersSame("log")
        /\ todo' = Fail5 /\ Kept("log")' = Kept("log")
        /\ should_run'["log"] = should_run["log"] /\ started'["log"] = FALSE
        /\ stopped'["log"] = stopped["log"] /\ ("log" \in alive' <=> "log" \in alive)
    BY <2>1, <2>2, StartedAt
  <2>4. /\ PlainSame
        /\ todo' = Fail5 /\ (Off("imu", AllImu) /\ Resting("log"))'
    BY <1>5, <2>2, <2>3, Names
      DEF Off, On, Works, Resting, Ended, Same, SameFlags, OthersSame,
          PlainSame, AllImu, Plain
  <2>5. ~started["imu"] => ~started'["imu"] \/ (todo' = <<>> /\ should_run'["imu"])
    BY <1>5, <2>3, <2>4
      DEF Off, On, Works, Resting, Ended, Same, SameFlags, OthersSame,
          PlainSame, AllImu, Plain
  <2> QED BY <1>5, <2>3, <2>4, <2>5, Zenon DEF ImuNext, ImuAt, FailAt
<1>6. CASE todo = Fail5 /\ Off("imu", AllImu) /\ Resting("log")
  <2>1. Now(todo, IF FALSE THEN U!Enable("imu") ELSE U!Disable("imu"), Undo4)
    BY <1>6, ImuLists
  <2>2. "imu" \in U!Services
    BY Names
  <2>3. /\ Sound' /\ main' = main /\ OthersSame("imu")
        /\ todo' = Undo4 /\ Kept("imu")' = Kept("imu")
        /\ should_run'["imu"] = FALSE /\ started'["imu"] = started["imu"]
        /\ stopped'["imu"] = stopped["imu"] /\ ("imu" \in alive' <=> "imu" \in alive)
    BY <2>1, <2>2, FlagAt
  <2>4. /\ PlainSame
        /\ todo' = Undo4 /\ (Off("imu", AllImu) /\ Resting("log"))'
    BY <1>6, <2>2, <2>3, Names
      DEF Off, On, Works, Resting, Same, SameFlags, OthersSame, PlainSame,
          AllImu, Plain
  <2>5. ~started["imu"] => ~started'["imu"] \/ (todo' = <<>> /\ should_run'["imu"])
    BY <1>6, <2>3, <2>4
      DEF Off, On, Works, Resting, Same, SameFlags, OthersSame, PlainSame,
          AllImu, Plain
  <2> QED BY <1>6, <2>3, <2>4, <2>5, Zenon DEF ImuNext, ImuAt, UndoAt
<1> QED
  BY <1>1, <1>2, <1>3, <1>4, <1>5, <1>6, Zenon DEF FailAt

(* imu_service_deinit. *)
LEMMA StopStep ==
  ASSUME Sound, StopAt, OthersIdle(Both), U!Next, ~Stops
  PROVE  Sound' /\ main' = main /\ PlainSame /\ ImuNext
<1>1. CASE todo = Stop0 /\ Works("imu") /\ Works("log")
  <2>1. Now(todo, IF FALSE THEN U!Enable("imu") ELSE U!Disable("imu"), Stop1)
    BY <1>1, ImuLists
  <2>2. "imu" \in U!Services
    BY Names
  <2>3. /\ Sound' /\ main' = main /\ OthersSame("imu")
        /\ todo' = Stop1 /\ Kept("imu")' = Kept("imu")
        /\ should_run'["imu"] = FALSE /\ started'["imu"] = started["imu"]
        /\ stopped'["imu"] = stopped["imu"] /\ ("imu" \in alive' <=> "imu" \in alive)
    BY <2>1, <2>2, FlagAt
  <2>4. /\ PlainSame
        /\ todo' = Stop1 /\ (Told("imu") /\ Works("log"))'
    BY <1>1, <2>2, <2>3, Names
      DEF On, Works, Told, Same, SameFlags, OthersSame, PlainSame, Plain
  <2>5. ~started["imu"] => ~started'["imu"] \/ (todo' = <<>> /\ should_run'["imu"])
    BY <1>1, <2>3, <2>4
      DEF On, Works, Told, Same, SameFlags, OthersSame, PlainSame, Plain
  <2> QED BY <1>1, <2>3, <2>4, <2>5, Zenon DEF ImuNext, ImuAt, StopAt
<1>2. CASE todo = Stop1 /\ Told("imu") /\ Works("log")
  <2>1. Now(todo, U!Wait("imu", <<>>), Stop2)
    BY <1>2, ImuLists
  <2>2. "imu" \in U!Services /\ (stopped["imu"] => "imu" \notin alive)
    BY Names DEF Sound, FlagTypes
  <2>3. /\ Sound' /\ main' = main /\ AllSame
        /\ todo' = IF stopped["imu"] THEN Stop2 ELSE <<>>
    BY <2>1, <2>2, WaitAt
  <2>4. /\ PlainSame
        /\ \/ todo' = Stop2 /\ (Told("imu") /\ "imu" \notin alive /\ Works("log"))'
           \/ todo' = <<>> /\ (Told("imu") /\ Works("log"))'
    BY <1>2, <2>2, <2>3, Names
      DEF On, Works, Told, Same, SameFlags, AllSame, PlainSame, Plain
  <2>5. ~started["imu"] => ~started'["imu"] \/ (todo' = <<>> /\ should_run'["imu"])
    BY <1>2, <2>3, <2>4
      DEF On, Works, Told, Same, SameFlags, AllSame, PlainSame, Plain
  <2>6. todo' = <<>> => ImuResting'
    BY <1>2, <2>3, <2>4, Names, NotEmpty
      DEF ImuResting, Off, On, Works, Resting, Told, Same, SameFlags, AllSame,
          PlainSame, Plain
  <2> QED BY <1>2, <2>3, <2>4, <2>5, <2>6, Zenon DEF ImuNext, ImuAt, StopAt
<1>3. CASE todo = Stop2 /\ Told("imu") /\ "imu" \notin alive /\ Works("log")
  <2>1. Now(todo, IF FALSE THEN U!Enable("log") ELSE U!Disable("log"), Stop3)
    BY <1>3, ImuLists
  <2>2. "log" \in U!Services
    BY Names
  <2>3. /\ Sound' /\ main' = main /\ OthersSame("log")
        /\ todo' = Stop3 /\ Kept("log")' = Kept("log")
        /\ should_run'["log"] = FALSE /\ started'["log"] = started["log"]
        /\ stopped'["log"] = stopped["log"] /\ ("log" \in alive' <=> "log" \in alive)
    BY <2>1, <2>2, FlagAt
  <2>4. /\ PlainSame
        /\ todo' = Stop3 /\ (Told("imu") /\ "imu" \notin alive /\ Told("log"))'
    BY <1>3, <2>2, <2>3, Names
      DEF On, Works, Told, Same, SameFlags, OthersSame, PlainSame, Plain
  <2>5. ~started["imu"] => ~started'["imu"] \/ (todo' = <<>> /\ should_run'["imu"])
    BY <1>3, <2>3, <2>4
      DEF On, Works, Told, Same, SameFlags, OthersSame, PlainSame, Plain
  <2> QED BY <1>3, <2>3, <2>4, <2>5, Zenon DEF ImuNext, ImuAt, StopAt
<1>4. CASE todo = Stop3 /\ Told("imu") /\ "imu" \notin alive /\ Told("log")
  <2>1. Now(todo, U!Wait("log", <<>>), Stop4)
    BY <1>4, ImuLists
  <2>2. "log" \in U!Services /\ (stopped["log"] => "log" \notin alive)
    BY Names DEF Sound, FlagTypes
  <2>3. /\ Sound' /\ main' = main /\ AllSame
        /\ todo' = IF stopped["log"] THEN Stop4 ELSE <<>>
    BY <2>1, <2>2, WaitAt
  <2>4. /\ PlainSame
        /\ \/ todo' = Stop4 /\ (Ended("imu", AllImu) /\ Ended("log", AllLog))'
           \/ todo' = <<>> /\ (Told("imu") /\ Told("log"))'
    BY <1>4, <2>2, <2>3, Names
      DEF On, Told, Ended, Same, SameFlags, AllSame, PlainSame, AllImu, AllLog,
          Plain
  <2>5. ~started["imu"] => ~started'["imu"] \/ (todo' = <<>> /\ should_run'["imu"])
    BY <1>4, <2>3, <2>4
      DEF On, Told, Ended, Same, SameFlags, AllSame, PlainSame, AllImu, AllLog,
          Plain
  <2>6. todo' = <<>> => ImuResting'
    BY <1>4, <2>3, <2>4, Names, NotEmpty
      DEF ImuResting, Off, On, Works, Resting, Told, Ended, Same, SameFlags,
          AllSame, PlainSame, AllImu, AllLog, Plain
  <2> QED BY <1>4, <2>3, <2>4, <2>5, <2>6, Zenon DEF ImuNext, ImuAt, StopAt
<1>5. CASE todo = Stop4 /\ Ended("imu", AllImu) /\ Ended("log", AllLog)
  <2>1. Now(todo, U!Release("log_thread"), Stop5)
    BY <1>5, ImuLists
  <2>2. "log_thread" \in U!Owned["log"] /\ "log" \in U!Services /\ "log_thread" \in Kept("log")
    BY <1>5, Names DEF On, Ended, AllImu, AllLog
  <2>3. /\ Sound' /\ main' = main /\ OthersSame("log")
        /\ todo' = Stop5 /\ Kept("log")' = Kept("log") \ {"log_thread"} /\ SameFlags("log")
    BY <2>1, <2>2, ReleaseAt
  <2>4. /\ PlainSame
        /\ todo' = Stop5 /\ (Ended("imu", AllImu) /\ Ended("log", {"queue"}))'
    BY <1>5, <2>2, <2>3, Names
      DEF On, Ended, Same, SameFlags, OthersSame, PlainSame, AllImu, AllLog,
          Plain
  <2>5. ~started["imu"] => ~started'["imu"] \/ (todo' = <<>> /\ should_run'["imu"])
    BY <1>5, <2>3, <2>4
      DEF On, Ended, Same, SameFlags, OthersSame, PlainSame, AllImu, AllLog,
          Plain
  <2> QED BY <1>5, <2>3, <2>4, <2>5, Zenon DEF ImuNext, ImuAt, StopAt
<1>6. CASE todo = Stop5 /\ Ended("imu", AllImu) /\ Ended("log", {"queue"})
  <2>1. Now(todo, U!Release("queue"), Stop6)
    BY <1>6, ImuLists
  <2>2. "queue" \in U!Owned["log"] /\ "log" \in U!Services /\ "queue" \in Kept("log")
    BY <1>6, Names DEF On, Ended, AllImu
  <2>3. /\ Sound' /\ main' = main /\ OthersSame("log")
        /\ todo' = Stop6 /\ Kept("log")' = Kept("log") \ {"queue"} /\ SameFlags("log")
    BY <2>1, <2>2, ReleaseAt
  <2>4. /\ PlainSame
        /\ todo' = Stop6 /\ (Ended("imu", AllImu) /\ Ended("log", {}))'
    BY <1>6, <2>2, <2>3, Names
      DEF On, Ended, Same, SameFlags, OthersSame, PlainSame, AllImu, Plain
  <2>5. ~started["imu"] => ~started'["imu"] \/ (todo' = <<>> /\ should_run'["imu"])
    BY <1>6, <2>3, <2>4
      DEF On, Ended, Same, SameFlags, OthersSame, PlainSame, AllImu, Plain
  <2> QED BY <1>6, <2>3, <2>4, <2>5, Zenon DEF ImuNext, ImuAt, StopAt
<1>7. CASE todo = Stop6 /\ Ended("imu", AllImu) /\ Ended("log", {})
  <2>1. Now(todo, IF FALSE THEN U!Started("log") ELSE U!Stopped("log"), Stop7)
    BY <1>7, ImuLists
  <2>2. "log" \in U!Services /\ Kept("log") = {}
    BY <1>7, Names DEF On, Ended, AllImu
  <2>3. /\ Sound' /\ main' = main /\ OthersSame("log")
        /\ todo' = Stop7 /\ Kept("log")' = Kept("log")
        /\ should_run'["log"] = should_run["log"] /\ started'["log"] = FALSE
        /\ stopped'["log"] = stopped["log"] /\ ("log" \in alive' <=> "log" \in alive)
    BY <2>1, <2>2, StartedAt
  <2>4. /\ PlainSame
        /\ todo' = Stop7 /\ (Ended("imu", AllImu) /\ Off("log", {}))'
    BY <1>7, <2>2, <2>3, Names
      DEF Off, On, Ended, Same, SameFlags, OthersSame, PlainSame, AllImu, Plain
  <2>5. ~started["imu"] => ~started'["imu"] \/ (todo' = <<>> /\ should_run'["imu"])
    BY <1>7, <2>3, <2>4
      DEF Off, On, Ended, Same, SameFlags, OthersSame, PlainSame, AllImu, Plain
  <2> QED BY <1>7, <2>3, <2>4, <2>5, Zenon DEF ImuNext, ImuAt, StopAt
<1>8. CASE todo = Stop7 /\ Ended("imu", AllImu) /\ Off("log", {})
  <2>1. Now(todo, U!Release("imu_thread"), Stop8)
    BY <1>8, ImuLists
  <2>2. "imu_thread" \in U!Owned["imu"] /\ "imu" \in U!Services /\ "imu_thread" \in Kept("imu")
    BY <1>8, Names DEF Off, On, Ended, AllImu
  <2>3. /\ Sound' /\ main' = main /\ OthersSame("imu")
        /\ todo' = Stop8 /\ Kept("imu")' = Kept("imu") \ {"imu_thread"} /\ SameFlags("imu")
    BY <2>1, <2>2, ReleaseAt
  <2>4. /\ PlainSame
        /\ todo' = Stop8 /\ (Ended("imu", {"clock", "event", "adapter"}) /\ Off("log", {}))'
    BY <1>8, <2>2, <2>3, Names
      DEF Off, On, Ended, Same, SameFlags, OthersSame, PlainSame, AllImu, Plain
  <2>5. ~started["imu"] => ~started'["imu"] \/ (todo' = <<>> /\ should_run'["imu"])
    BY <1>8, <2>3, <2>4
      DEF Off, On, Ended, Same, SameFlags, OthersSame, PlainSame, AllImu, Plain
  <2> QED BY <1>8, <2>3, <2>4, <2>5, Zenon DEF ImuNext, ImuAt, StopAt
<1>9. CASE todo = Stop8 /\ Ended("imu", {"clock", "event", "adapter"}) /\ Off("log", {})
  <2>1. Now(todo, U!Release("adapter"), Stop9)
    BY <1>9, ImuLists
  <2>2. "adapter" \in U!Owned["imu"] /\ "imu" \in U!Services /\ "adapter" \in Kept("imu")
    BY <1>9, Names DEF Off, On, Ended
  <2>3. /\ Sound' /\ main' = main /\ OthersSame("imu")
        /\ todo' = Stop9 /\ Kept("imu")' = Kept("imu") \ {"adapter"} /\ SameFlags("imu")
    BY <2>1, <2>2, ReleaseAt
  <2>4. /\ PlainSame
        /\ todo' = Stop9 /\ (Ended("imu", {"clock", "event"}) /\ Off("log", {}))'
    BY <1>9, <2>2, <2>3, Names
      DEF Off, On, Ended, Same, SameFlags, OthersSame, PlainSame, Plain
  <2>5. ~started["imu"] => ~started'["imu"] \/ (todo' = <<>> /\ should_run'["imu"])
    BY <1>9, <2>3, <2>4
      DEF Off, On, Ended, Same, SameFlags, OthersSame, PlainSame, Plain
  <2> QED BY <1>9, <2>3, <2>4, <2>5, Zenon DEF ImuNext, ImuAt, StopAt
<1>10. CASE todo = Stop9 /\ Ended("imu", {"clock", "event"}) /\ Off("log", {})
  <2>1. Now(todo, U!Release("event"), Stop10)
    BY <1>10, ImuLists
  <2>2. "event" \in U!Owned["imu"] /\ "imu" \in U!Services /\ "event" \in Kept("imu")
    BY <1>10, Names DEF Off, On, Ended
  <2>3. /\ Sound' /\ main' = main /\ OthersSame("imu")
        /\ todo' = Stop10 /\ Kept("imu")' = Kept("imu") \ {"event"} /\ SameFlags("imu")
    BY <2>1, <2>2, ReleaseAt
  <2>4. /\ PlainSame
        /\ todo' = Stop10 /\ (Ended("imu", {"clock"}) /\ Off("log", {}))'
    BY <1>10, <2>2, <2>3, Names
      DEF Off, On, Ended, Same, SameFlags, OthersSame, PlainSame, Plain
  <2>5. ~started["imu"] => ~started'["imu"] \/ (todo' = <<>> /\ should_run'["imu"])
    BY <1>10, <2>3, <2>4
      DEF Off, On, Ended, Same, SameFlags, OthersSame, PlainSame, Plain
  <2> QED BY <1>10, <2>3, <2>4, <2>5, Zenon DEF ImuNext, ImuAt, StopAt
<1>11. CASE todo = Stop10 /\ Ended("imu", {"clock"}) /\ Off("log", {})
  <2>1. Now(todo, U!Release("clock"), Stop11)
    BY <1>11, ImuLists
  <2>2. "clock" \in U!Owned["imu"] /\ "imu" \in U!Services /\ "clock" \in Kept("imu")
    BY <1>11, Names DEF Off, On, Ended
  <2>3. /\ Sound' /\ main' = main /\ OthersSame("imu")
        /\ todo' = Stop11 /\ Kept("imu")' = Kept("imu") \ {"clock"} /\ SameFlags("imu")
    BY <2>1, <2>2, ReleaseAt
  <2>4. /\ PlainSame
        /\ todo' = Stop11 /\ (Ended("imu", {}) /\ Off("log", {}))'
    BY <1>11, <2>2, <2>3, Names
      DEF Off, On, Ended, Same, SameFlags, OthersSame, PlainSame, Plain
  <2>5. ~started["imu"] => ~started'["imu"] \/ (todo' = <<>> /\ should_run'["imu"])
    BY <1>11, <2>3, <2>4
      DEF Off, On, Ended, Same, SameFlags, OthersSame, PlainSame, Plain
  <2> QED BY <1>11, <2>3, <2>4, <2>5, Zenon DEF ImuNext, ImuAt, StopAt
<1>12. CASE todo = Stop11 /\ Ended("imu", {}) /\ Off("log", {})
  <2>1. Now(todo, IF FALSE THEN U!Started("imu") ELSE U!Stopped("imu"), <<>>)
    BY <1>12, ImuLists
  <2>2. "imu" \in U!Services /\ Kept("imu") = {}
    BY <1>12, Names DEF Off, On, Ended
  <2>3. /\ Sound' /\ main' = main /\ OthersSame("imu")
        /\ todo' = <<>> /\ Kept("imu")' = Kept("imu")
        /\ should_run'["imu"] = should_run["imu"] /\ started'["imu"] = FALSE
        /\ stopped'["imu"] = stopped["imu"] /\ ("imu" \in alive' <=> "imu" \in alive)
    BY <2>1, <2>2, StartedAt
  <2>4. /\ PlainSame
        /\ todo' = <<>> /\ (Off("imu", {}) /\ Off("log", {}))'
    BY <1>12, <2>2, <2>3, Names
      DEF Off, On, Ended, Same, SameFlags, OthersSame, PlainSame, Plain
  <2>5. ~started["imu"] => ~started'["imu"] \/ (todo' = <<>> /\ should_run'["imu"])
    BY <1>12, <2>3, <2>4
      DEF Off, On, Ended, Same, SameFlags, OthersSame, PlainSame, Plain
  <2>6. todo' = <<>> => ImuResting'
    BY <1>12, <2>3, <2>4, Names, NotEmpty
      DEF ImuResting, Off, On, Works, Resting, Ended, Same, SameFlags,
          OthersSame, PlainSame, Plain
  <2> QED BY <1>12, <2>3, <2>4, <2>5, <2>6, Zenon DEF ImuNext, ImuAt
<1> QED
  BY <1>1, <1>2, <1>3, <1>4, <1>5, <1>6, <1>7, <1>8, <1>9, <1>10, <1>11, <1>12,
     Zenon
    DEF StopAt

-----------------------------------------------------------------------------
(* A thread that stops *)

(* It takes no call from its place. *)
LEMMA StopsKeeps ==
  ASSUME Sound, NEW s \in U!Services, U!ThreadStops(s), NEW t \in U!Services
  PROVE  /\ \A h : Off(t, h) => Off(t, h)'
         /\ \A h : Fresh(t, h) => Fresh(t, h)'
         /\ \A h : Ended(t, h) => Ended(t, h)'
         /\ Launched(t) => Launched(t)'
         /\ Told(t) => Told(t)'
         /\ Works(t) => Works(t)'
         /\ Resting(t) => Resting(t)'
         /\ t \notin alive => t \notin alive'
         /\ should_run'[t] = should_run[t] /\ started'[t] = started[t]
<1>1. /\ OthersSame(s) /\ s \in alive /\ s \notin alive' /\ ~should_run[s]
      /\ ~should_run'[s] /\ Kept(s)' = Kept(s) /\ started'[s] = started[s]
  BY StopsIs
<1>2. CASE t = s
  <2>1. should_run'[s] = should_run[s]
    BY DEF U!ThreadStops
  <2> QED
    BY <1>1, <1>2, <2>1 DEF Off, Fresh, Ended, On, Launched, Told, Works, Resting
<1>3. CASE t # s
  <2>1. Same(t)
    BY <1>1, <1>3 DEF OthersSame
  <2> QED
    BY <2>1
      DEF Same, SameFlags, Off, Fresh, Ended, On, Launched, Told, Works, Resting
<1> QED
  BY <1>2, <1>3

(* Nor does it move a call that is under way. *)
LEMMA StopsPlaces ==
  ASSUME Sound, NEW s \in U!Services, U!ThreadStops(s)
  PROVE  /\ \A t \in Plain : PlainAt(t) => PlainAt(t)'
         /\ \A t \in U!Services : Resting(t) => Resting(t)'
         /\ ImuResting => ImuResting'
         /\ ImuAt => ImuAt'
<1>1. todo' = todo
  BY StopsIs
<1>2. \A t \in U!Services :
        /\ \A h : Off(t, h) => Off(t, h)'
        /\ \A h : Fresh(t, h) => Fresh(t, h)'
        /\ \A h : Ended(t, h) => Ended(t, h)'
        /\ Launched(t) => Launched(t)'
        /\ Told(t) => Told(t)'
        /\ Works(t) => Works(t)'
        /\ Resting(t) => Resting(t)'
        /\ t \notin alive => t \notin alive'
        /\ should_run'[t] = should_run[t] /\ started'[t] = started[t]
  BY StopsKeeps
<1>3. {"telemetry", "imu", "log", "foxglove"} = U!Services
  BY Names
<1>4. \A t \in Plain : PlainAt(t) => PlainAt(t)'
  <2> SUFFICES ASSUME NEW t \in Plain, PlainAt(t) PROVE PlainAt(t)'
    OBVIOUS
  <2>1. t \in U!Services
    BY PlainNames
  <2> QED
    BY <1>1, <1>2, <2>1 DEF PlainAt
<1>5. ImuResting => ImuResting'
  BY <1>2, <1>3 DEF ImuResting
<1>6. LogUp => LogUp'
  BY <1>2, <1>3 DEF LogUp
<1>7. ImuInitAt => ImuInitAt'
  BY <1>1, <1>2, <1>3, <1>6 DEF ImuInitAt, AllImu
<1>8. LogInitAt => LogInitAt'
  BY <1>1, <1>2, <1>3 DEF LogInitAt, AllImu, AllLog
<1>9. UndoAt => UndoAt'
  BY <1>1, <1>2, <1>3 DEF UndoAt, AllImu, AllLog
<1>10. FailAt => FailAt'
  BY <1>1, <1>2, <1>3 DEF FailAt, AllImu, AllLog
<1>11. StopAt => StopAt'
  BY <1>1, <1>2, <1>3 DEF StopAt, AllImu, AllLog
<1> QED
  BY <1>2, <1>4, <1>5, <1>7, <1>8, <1>9, <1>10, <1>11 DEF ImuAt

(* The calls go on as they were. *)
LEMMA StopsCalls ==
  ASSUME Sound, Calls, NEW s \in U!Services, U!ThreadStops(s)
  PROVE  Calls'
<1>1. todo' = todo
  BY StopsIs
<1>2. {"telemetry", "foxglove"} = Plain /\ Plain \subseteq U!Services
  BY PlainNames DEF Plain
<1> QED
  BY <1>1, <1>2, StopsPlaces DEF Calls

-----------------------------------------------------------------------------
(* Between two calls *)

AllRest == \A s \in Plain : Resting(s)

(* In a call there is a step to make; the list is one of the lists. *)
LEMMA InPlain ==
  ASSUME NEW s \in Plain, PlainAt(s)
  PROVE  todo \in Seq(StepSet) /\ todo # <<>>
  BY PlainLists DEF PlainAt, Now

(* So it is in a call about the IMU. *)
LEMMA InImu ==
  ASSUME ImuAt
  PROVE  todo \in Seq(StepSet) /\ todo # <<>>
<1>0. \A l, step, rest : Now(l, step, rest) => l \in Seq(StepSet) /\ l # <<>>
  BY DEF Now
<1>1. CASE ImuInitAt
  BY <1>1, <1>0, ImuLists DEF ImuInitAt
<1>2. CASE LogInitAt
  BY <1>2, <1>0, ImuLists DEF LogInitAt
<1>3. CASE UndoAt
  BY <1>3, <1>0, ImuLists DEF UndoAt
<1>4. CASE FailAt
  BY <1>4, <1>0, ImuLists DEF FailAt
<1>5. CASE StopAt
  BY <1>5, <1>0, ImuLists DEF StopAt
<1> QED
  BY <1>1, <1>2, <1>3, <1>4, <1>5 DEF ImuAt

(* Between two calls every service rests. *)
LEMMA CallsAre ==
  ASSUME Calls
  PROVE  /\ todo \in Seq(StepSet)
         /\ todo = <<>> => AllRest /\ ImuResting
  BY InPlain, InImu, EmptySteps DEF Calls, AllRest, Plain

(* At rest nothing that is not up holds anything. *)
LEMMA RestIdle ==
  /\ \A s \in U!Services : Resting(s) => (~started[s] => Kept(s) = {})
  /\ ImuResting => Resting("imu") /\ Resting("log")
  BY DEF Resting, ImuResting, Off, Works, On

(* What rests and is left alone goes on resting. *)
LEMMA SameRests ==
  /\ \A s : Same(s) /\ Resting(s) => Resting(s)'
  /\ Same("imu") /\ Same("log") /\ ImuResting => ImuResting'
  BY DEF Same, SameFlags, Resting, ImuResting, Off, Works, On

(* service_init and service_deinit of a plain service, and of imu_service. *)
LEMMA PlainInitIs ==
  ASSUME Sound, NEW s \in Plain, Resting(s), U!CallInit(s)
  PROVE  /\ Sound' /\ OthersSame(s)
         /\ \/ todo' = <<>> /\ Same(s)
            \/ PlainAt(s)'
<1>1. s \in U!Services
  BY PlainNames
<1>2. U!InitSteps[s] \o <<>> = Init0(s)
  <2>1. U!InitSteps[s] = Init0(s) /\ Init0(s) \in Seq(StepSet)
    BY InitLists, PlainLists, Zenon DEF Now
  <2> QED BY <2>1, ConcatEmptySeq
<1>3. /\ Sound' /\ OthersSame(s)
      /\ \/ started[s] /\ todo' = <<>> /\ Same(s)
         \/ /\ ~started[s] /\ todo' = Init0(s)
            /\ Kept(s)' = Kept(s) /\ ~stopped'[s] /\ ~started'[s]
            /\ (s \in alive' <=> s \in alive)
  BY <1>1, <1>2, BeginIs DEF U!CallInit
<1>4. ~started[s] => s \notin alive /\ Kept(s) = {}
  BY DEF Resting, Off, Works, On
<1>5. CASE todo' = <<>> /\ Same(s)
  BY <1>3, <1>5
<1>6. CASE ~started[s] /\ todo' = Init0(s) /\ ~(todo' = <<>> /\ Same(s))
  <2>1. todo' = Init0(s) /\ Fresh(s, {})'
    BY <1>3, <1>4, <1>6 DEF Fresh, Off
  <2> QED BY <1>3, <2>1, Zenon DEF PlainAt
<1> QED
  BY <1>3, <1>5, <1>6

(* A service that is up answers at once; otherwise its list begins. *)
LEMMA ImuInitIs ==
  ASSUME Sound, ImuResting, U!CallInit("imu")
  PROVE  /\ Sound' /\ OthersSame("imu")
         /\ \/ started["imu"] /\ todo' = <<>> /\ Same("imu")
            \/ ~started["imu"] /\ ~started'["imu"] /\ ImuAt'
<1>1. {"imu", "log"} \subseteq U!Services
  BY Names
<1>2. U!InitSteps["imu"] \o <<>> = Imu0
  <2>1. U!InitSteps["imu"] = Imu0 /\ Imu0 \in Seq(StepSet)
    BY InitLists, ImuLists, Zenon DEF Now
  <2> QED BY <2>1, ConcatEmptySeq
<1>3. /\ Sound' /\ OthersSame("imu")
      /\ \/ started["imu"] /\ todo' = <<>> /\ Same("imu")
         \/ /\ ~started["imu"] /\ todo' = Imu0
            /\ Kept("imu")' = Kept("imu") /\ ~stopped'["imu"] /\ ~started'["imu"]
            /\ ("imu" \in alive' <=> "imu" \in alive)
  BY <1>1, <1>2, BeginIs DEF U!CallInit
<1>4. ~started["imu"] => "imu" \notin alive /\ Kept("imu") = {}
  BY DEF ImuResting, Resting, Off, Works, On
<1>5. Resting("log")'
  BY <1>1, <1>3, SameRests DEF OthersSame, ImuResting
<1>6. CASE ~started["imu"]
  <2>1. todo' = Imu0 /\ Fresh("imu", {})' /\ Resting("log")'
    BY <1>3, <1>4, <1>5, <1>6 DEF Fresh, Off
  <2> QED BY <1>3, <1>6, <2>1, Zenon DEF ImuAt, ImuInitAt
<1> QED
  BY <1>3, <1>6

(* Nothing taken, nothing given back, no flag: nothing changes. *)
LEMMA NothingIs ==
  ASSUME Sound, UNCHANGED order, UNCHANGED U!threads
  PROVE  Sound' /\ AllSame
<1>1. FlagTypes' /\ \A t \in U!Services : SameFlags(t) /\ started'[t] = started[t]
  BY DEF U!threads, FlagTypes, Sound, SameFlags
<1>2. Sound' /\ \A t \in U!Services : Kept(t)' = Kept(t)
  BY <1>1, NothingMoves
<1> QED
  BY <1>1, <1>2 DEF AllSame, Same

(* A service that is not up has nothing to stop. *)
LEMMA PlainDeinitIs ==
  ASSUME Sound, NEW s \in Plain, Resting(s), U!CallDeinit(s)
  PROVE  /\ Sound' /\ AllSame
         /\ \/ ~started[s] /\ todo' = <<>>
            \/ started[s] /\ todo' = Deinit0(s) /\ PlainAt(s)'
<1>1. s \in U!Services
  BY PlainNames
<1>2. Sound' /\ AllSame
  BY NothingIs DEF U!CallDeinit
<1>3. started[s] => Works(s)
  BY DEF Resting, Off
<1>4. started[s] => Works(s)'
  BY <1>1, <1>2, <1>3 DEF AllSame, Same, SameFlags, Works, On
<1>5. todo' = IF started[s] THEN Deinit0(s) ELSE <<>>
  BY DeinitLists DEF U!CallDeinit
<1>6. CASE started[s]
  <2>1. todo' = Deinit0(s) /\ Works(s)'
    BY <1>4, <1>5, <1>6
  <2> QED BY <1>2, <1>6, <2>1, Zenon DEF PlainAt
<1> QED
  BY <1>2, <1>5, <1>6

(* imu_service_deinit stops the logger too, which is up with the IMU. *)
LEMMA ImuDeinitIs ==
  ASSUME Sound, ImuResting, U!CallDeinit("imu")
  PROVE  Sound' /\ AllSame /\ (todo' = <<>> \/ ImuAt')
<1>1. {"imu", "log"} \subseteq U!Services
  BY Names
<1>2. Sound' /\ AllSame
  BY NothingIs DEF U!CallDeinit
<1>3. started["imu"] => Works("imu") /\ Works("log") /\ started["log"]
  BY DEF ImuResting, Resting, Off
<1>4. started["imu"] => Works("imu")' /\ Works("log")'
  BY <1>1, <1>2, <1>3 DEF AllSame, Same, SameFlags, Works, On
<1>5. todo' = IF started["imu"] THEN Stop0 ELSE <<>>
  BY <1>3, DeinitLists DEF U!CallDeinit
<1>6. CASE started["imu"]
  <2>1. todo' = Stop0 /\ Works("imu")' /\ Works("log")'
    BY <1>4, <1>5, <1>6
  <2> QED BY <1>2, <2>1, Zenon DEF ImuAt, StopAt
<1> QED
  BY <1>2, <1>5, <1>6

-----------------------------------------------------------------------------
(* The calls, whatever the step *)

(* A step of the caller in a call. *)
LEMMA CallStep ==
  ASSUME Sound, Calls, todo # <<>>, U!Next, ~Stops
  PROVE  /\ Sound' /\ Calls' /\ main' = main
         /\ \/ /\ PlainAt("telemetry") /\ PlainNext("telemetry")
               /\ OthersSame("telemetry")
            \/ /\ PlainAt("foxglove") /\ PlainNext("foxglove")
               /\ OthersSame("foxglove")
            \/ ImuAt /\ ImuNext /\ PlainSame
<1>1. /\ U!Services = {"telemetry", "imu", "log", "foxglove"}
      /\ Plain = {"telemetry", "foxglove"}
  BY Names DEF Plain
<1>2. ASSUME NEW s \in Plain, NEW t \in Plain, s # t,
             PlainAt(s), Resting(t), ImuResting
      PROVE  /\ Sound' /\ main' = main /\ OthersSame(s) /\ PlainNext(s)
             /\ PlainAt(s)' \/ (todo' = <<>> /\ Resting(s)')
             /\ Resting(t)' /\ ImuResting'
  <2>1. OthersIdle({s})
    BY <1>1, <1>2, RestIdle DEF OthersIdle
  <2>2. Sound' /\ main' = main /\ OthersSame(s) /\ PlainNext(s)
    BY <1>2, <2>1, PlainStep
  <2>3. Same(t) /\ Same("imu") /\ Same("log")
    BY <1>1, <1>2, <2>2 DEF OthersSame
  <2> QED BY <1>2, <2>2, <2>3, SameRests DEF PlainNext
<1>3. ASSUME ImuAt, Resting("telemetry"), Resting("foxglove")
      PROVE  /\ Sound' /\ main' = main /\ PlainSame /\ ImuNext
             /\ Resting("telemetry")' /\ Resting("foxglove")'
             /\ ImuAt' \/ (todo' = <<>> /\ ImuResting')
  <2>1. OthersIdle(Both)
    BY <1>1, <1>3, RestIdle DEF OthersIdle, Both
  <2>2. Sound' /\ main' = main /\ PlainSame /\ ImuNext
    BY <1>3, <2>1, ImuInitStep, LogInitStep, UndoStep, FailStep, StopStep DEF ImuAt
  <2>3. Same("telemetry") /\ Same("foxglove")
    BY <1>1, <2>2 DEF PlainSame
  <2> QED BY <1>3, <2>2, <2>3, SameRests DEF ImuNext
<1>4. CASE PlainAt("telemetry") /\ Resting("foxglove") /\ ImuResting
  BY <1>1, <1>2, <1>4 DEF Calls
<1>5. CASE PlainAt("foxglove") /\ Resting("telemetry") /\ ImuResting
  BY <1>1, <1>2, <1>5 DEF Calls
<1>6. CASE ImuAt /\ Resting("telemetry") /\ Resting("foxglove")
  BY <1>3, <1>6 DEF Calls
<1> QED
  BY <1>4, <1>5, <1>6 DEF Calls

(* Between two calls the next one begins. *)
LEMMA NextCall ==
  ASSUME todo = <<>>, U!Next, ~Stops
  PROVE  U!MainStep \/ U!LaterCall
  BY DEF U!Next, U!Caller, Stops, U!AcquireStep, U!ReleaseStep, U!FlagStep,
     U!StartUpStep, U!StartedStep, U!WaitStep, U!InitLogStep, U!At

(* The call of an init or a deinit, from rest. *)
LEMMA CallBegins ==
  ASSUME Sound, AllRest, ImuResting,
         \/ \E s \in {"telemetry", "imu", "foxglove"} : U!CallInit(s) \/ U!CallDeinit(s)
         \/ todo = <<>> /\ U!NoCall
  PROVE  Sound' /\ Calls'
<1>1. /\ U!Services = {"telemetry", "imu", "log", "foxglove"}
      /\ Plain = {"telemetry", "foxglove"}
  BY Names DEF Plain
<1>2. ASSUME NEW s \in Plain, U!CallInit(s) \/ U!CallDeinit(s)
      PROVE  /\ Sound' /\ OthersSame(s)
             /\ PlainAt(s)' \/ (todo' = <<>> /\ Resting(s)')
  <2>1. Resting(s) /\ s \in U!Services
    BY PlainNames DEF AllRest
  <2>2. CASE U!CallInit(s)
    BY <2>1, <2>2, PlainInitIs, SameRests
  <2>3. CASE U!CallDeinit(s)
    <3>1. Sound' /\ AllSame /\ (todo' = <<>> \/ PlainAt(s)')
      BY <2>1, <2>3, PlainDeinitIs
    <3>2. OthersSame(s) /\ Resting(s)'
      BY <2>1, <3>1, SameRests DEF AllSame, OthersSame
    <3> QED BY <3>1, <3>2
  <2> QED BY <1>2, <2>2, <2>3
<1>3. ASSUME U!CallInit("imu") \/ U!CallDeinit("imu")
      PROVE  /\ Sound' /\ Same("telemetry") /\ Same("foxglove")
             /\ ImuAt' \/ (todo' = <<>> /\ ImuResting')
  <2>2. CASE U!CallInit("imu")
    <3>1. /\ Sound' /\ OthersSame("imu")
          /\ (todo' = <<>> /\ Same("imu")) \/ ImuAt'
      BY <2>2, ImuInitIs
    <3>2. Same("log") /\ Same("telemetry") /\ Same("foxglove")
      BY <1>1, <3>1 DEF OthersSame
    <3> QED BY <3>1, <3>2, SameRests
  <2>3. CASE U!CallDeinit("imu")
    <3>1. Sound' /\ AllSame /\ (todo' = <<>> \/ ImuAt')
      BY <2>3, ImuDeinitIs
    <3>2. Same("imu") /\ Same("log") /\ Same("telemetry") /\ Same("foxglove")
      BY <1>1, <3>1 DEF AllSame
    <3> QED BY <3>1, <3>2, SameRests
  <2> QED BY <1>3, <2>2, <2>3
<1>4. CASE U!CallInit("telemetry") \/ U!CallDeinit("telemetry")
  <2>1. /\ Sound' /\ OthersSame("telemetry")
        /\ PlainAt("telemetry")' \/ (todo' = <<>> /\ Resting("telemetry")')
    BY <1>1, <1>2, <1>4
  <2>2. Same("foxglove") /\ Same("imu") /\ Same("log")
    BY <1>1, <2>1 DEF OthersSame
  <2>3. Resting("foxglove")' /\ ImuResting'
    BY <1>1, <2>2, SameRests DEF AllRest
  <2> QED BY <2>1, <2>3 DEF Calls
<1>5. CASE U!CallInit("foxglove") \/ U!CallDeinit("foxglove")
  <2>1. /\ Sound' /\ OthersSame("foxglove")
        /\ PlainAt("foxglove")' \/ (todo' = <<>> /\ Resting("foxglove")')
    BY <1>1, <1>2, <1>5
  <2>2. Same("telemetry") /\ Same("imu") /\ Same("log")
    BY <1>1, <2>1 DEF OthersSame
  <2>3. Resting("telemetry")' /\ ImuResting'
    BY <1>1, <2>2, SameRests DEF AllRest
  <2> QED BY <2>1, <2>3 DEF Calls
<1>6. CASE U!CallInit("imu") \/ U!CallDeinit("imu")
  <2>1. /\ Sound' /\ Same("telemetry") /\ Same("foxglove")
        /\ ImuAt' \/ (todo' = <<>> /\ ImuResting')
    BY <1>3, <1>6
  <2>2. Resting("telemetry")' /\ Resting("foxglove")'
    BY <1>1, <2>1, SameRests DEF AllRest
  <2> QED BY <2>1, <2>2 DEF Calls
<1>7. CASE todo = <<>> /\ U!NoCall
  <2>1. Sound' /\ AllSame /\ todo' = <<>>
    BY <1>7, NothingIs DEF U!NoCall
  <2>2. Resting("telemetry")' /\ Resting("foxglove")' /\ ImuResting'
    BY <1>1, <2>1, SameRests DEF AllSame, AllRest
  <2> QED BY <2>1, <2>2 DEF Calls
<1> QED
  BY <1>4, <1>5, <1>6, <1>7

(* main and its successors only make calls to init and deinit. *)
LEMMA MainCalls ==
  ASSUME U!MainStep \/ U!LaterCall
  PROVE  /\ todo = <<>>
         /\ \/ \E s \in {"telemetry", "imu", "foxglove"} : U!CallInit(s) \/ U!CallDeinit(s)
            \/ U!NoCall
<1>1. CASE U!MainStep
  BY <1>1, Zenon DEF U!MainStep, U!TelemetryUndone
<1>2. CASE U!LaterCall
  <2>1. U!Called \subseteq {"telemetry", "imu", "foxglove"}
    BY DEF U!Called
  <2> QED BY <1>2, <2>1 DEF U!LaterCall
<1> QED
  BY <1>1, <1>2

(* Every step keeps what is held and what runs in order. *)
LEMMA NextCalls ==
  ASSUME Sound, Calls, U!Next
  PROVE  Sound' /\ Calls'
<1>1. CASE Stops
  BY <1>1, StopsIs, StopsCalls DEF Stops
<1>2. CASE ~Stops /\ todo # <<>>
  BY <1>2, CallStep
<1>3. CASE ~Stops /\ todo = <<>>
  <2>1. U!MainStep \/ U!LaterCall
    BY <1>3, NextCall
  <2>2. AllRest /\ ImuResting
    BY <1>3, CallsAre
  <2> QED BY <2>1, <2>2, MainCalls, CallBegins
<1> QED
  BY <1>1, <1>2, <1>3

-----------------------------------------------------------------------------
(* main *)

(* A step of a call names what the call is about, so that a list is of one    *)
(* call only.                                                               *)
LEMMA WhoseStep ==
  /\ \A s \in Plain : PlainAt(s) => Head(todo).what \in {s} \cup U!Owned[s]
  /\ ImuAt => Head(todo).what \in {"imu", "log"} \cup U!Owned["imu"] \cup U!Owned["log"]
<1>0. /\ \A l, step, rest : Now(l, step, rest) => Head(l) = step
      /\ \A x : U!Acquire(x).what = x /\ U!Release(x).what = x
      /\ \A x : U!Enable(x).what = x /\ U!Disable(x).what = x
      /\ \A x : U!StartUp(x).what = x /\ U!Started(x).what = x
      /\ \A x : U!Stopped(x).what = x
      /\ \A x, late : U!Wait(x, late).what = x
      /\ U!InitLog.what = "log"
  BY DEF Now, U!Acquire, U!Release, U!Enable, U!Disable, U!StartUp, U!Started,
     U!Stopped, U!Wait, U!InitLog
<1>1. ASSUME NEW s \in Plain, PlainAt(s) PROVE Head(todo).what \in {s} \cup U!Owned[s]
  <2>1. U!Owned[s] = {Port(s), Thread(s)}
    BY PlainNames
  <2>2. Head(todo).what \in {s, Port(s), Thread(s)}
    BY <1>0, <1>1, PlainLists DEF PlainAt
  <2> QED BY <2>1, <2>2
<1>2. ASSUME ImuAt
      PROVE  Head(todo).what \in {"imu", "log", "clock", "event", "imu_thread",
                                  "adapter", "queue", "log_thread"}
  <2>1. CASE ImuInitAt
    BY <1>0, <2>1, ImuLists DEF ImuInitAt
  <2>2. CASE LogInitAt
    BY <1>0, <2>2, ImuLists DEF LogInitAt
  <2>3. CASE UndoAt
    BY <1>0, <2>3, ImuLists DEF UndoAt
  <2>4. CASE FailAt
    BY <1>0, <2>4, ImuLists DEF FailAt
  <2>5. CASE StopAt
    BY <1>0, <2>5, ImuLists DEF StopAt
  <2> QED BY <1>2, <2>1, <2>2, <2>3, <2>4, <2>5 DEF ImuAt
<1>3. ImuAt => Head(todo).what \in {"imu", "log"} \cup U!Owned["imu"] \cup U!Owned["log"]
  BY <1>2, Names
<1> QED
  BY <1>1, <1>3

(* There is one call at a time. *)
LEMMA OneCall ==
  /\ ~(PlainAt("telemetry") /\ PlainAt("foxglove"))
  /\ \A s \in Plain : ~(PlainAt(s) /\ ImuAt)
<1> DEFINE w == Head(todo).what
<1>1. /\ PlainAt("telemetry") => w \in {"telemetry", "uart", "telemetry_thread"}
      /\ PlainAt("foxglove") => w \in {"foxglove", "uart1", "foxglove_thread"}
      /\ ImuAt => w \in {"imu", "log", "clock", "event", "imu_thread", "adapter",
                         "queue", "log_thread"}
  BY WhoseStep, Names DEF Plain
<1> HIDE DEF w
<1>2. \A s \in Plain : s = "telemetry" \/ s = "foxglove"
  BY DEF Plain
<1> QED
  BY <1>1, <1>2

(* A thread that stops does not move main, ... *)
LEMMA StopsMain ==
  ASSUME Sound, MainAt, NEW s \in U!Services, U!ThreadStops(s)
  PROVE  MainAt'
<1>1. main' = main /\ todo' = todo
  BY StopsIs
<1>2. \A t \in U!Services : should_run'[t] = should_run[t] /\ started'[t] = started[t]
  BY StopsKeeps
<1>3. /\ {"telemetry", "imu", "foxglove"} \subseteq U!Services
      /\ {"telemetry", "foxglove"} \subseteq Plain
  BY Names DEF Plain
<1>4. /\ PlainAt("telemetry") => PlainAt("telemetry")'
      /\ PlainAt("foxglove") => PlainAt("foxglove")'
      /\ ImuAt => ImuAt'
  BY <1>3, StopsPlaces
<1> QED
  BY <1>1, <1>2, <1>3, <1>4 DEF MainAt, U!Up

(* ... nor does a step of the call that it is in, ... *)
LEMMA CallMain ==
  ASSUME Sound, Calls, MainAt, todo # <<>>, U!Next, ~Stops
  PROVE  MainAt'
<1>1. /\ main' = main
      /\ \/ /\ PlainAt("telemetry") /\ PlainNext("telemetry")
            /\ OthersSame("telemetry")
         \/ /\ PlainAt("foxglove") /\ PlainNext("foxglove")
            /\ OthersSame("foxglove")
         \/ ImuAt /\ ImuNext /\ PlainSame
  BY CallStep
<1>2. /\ U!Services = {"telemetry", "imu", "log", "foxglove"}
      /\ Plain = {"telemetry", "foxglove"}
  BY Names DEF Plain
<1>3. main # "begin"
  BY DEF MainAt
<1>4. CASE main = "telemetry"
  <2>1. PlainNext("telemetry") /\ OthersSame("telemetry")
    BY <1>1, <1>2, <1>4, OneCall DEF MainAt
  <2>2. started'["imu"] = started["imu"]
    BY <1>2, <2>1 DEF OthersSame, Same, SameFlags
  <2> QED BY <1>1, <1>4, <2>1, <2>2 DEF MainAt, PlainNext
<1>5. CASE main = "imu"
  <2>1. ImuNext /\ PlainSame
    BY <1>1, <1>2, <1>5, OneCall DEF MainAt
  <2>2. U!Up("telemetry")'
    BY <1>2, <1>5, <2>1 DEF MainAt, U!Up, PlainSame, Same, SameFlags
  <2>3. IF todo' = <<>> THEN started'["imu"] => should_run'["imu"]
                        ELSE ImuAt' /\ ~started'["imu"]
    BY <1>5, <2>1 DEF MainAt, ImuNext
  <2> QED BY <1>1, <1>5, <2>2, <2>3 DEF MainAt
<1>6. CASE main = "undo"
  <2>1. PlainNext("telemetry") /\ OthersSame("telemetry")
    BY <1>1, <1>2, <1>6, OneCall DEF MainAt
  <2>2. started'["imu"] = started["imu"]
    BY <1>2, <2>1 DEF OthersSame, Same, SameFlags
  <2>3. /\ todo' # <<>> => PlainAt("telemetry")' /\ started'["telemetry"]
        /\ ~started'["telemetry"] \/ ~should_run'["telemetry"]
    BY <1>6, <2>1 DEF MainAt, PlainNext
  <2> QED BY <1>1, <1>6, <2>2, <2>3 DEF MainAt
<1>7. CASE main = "foxglove"
  <2>1. PlainNext("foxglove") /\ OthersSame("foxglove")
    BY <1>1, <1>2, <1>7, OneCall DEF MainAt
  <2>2. U!Up("telemetry")' /\ U!Up("imu")'
    BY <1>2, <1>7, <2>1 DEF MainAt, U!Up, OthersSame, Same, SameFlags
  <2> QED BY <1>1, <1>7, <2>1, <2>2 DEF MainAt, PlainNext
<1> QED
  BY <1>1, <1>3, <1>4, <1>5, <1>6, <1>7 DEF MainAt

(* ... and main goes on to the next call. *)
LEMMA MainMoves ==
  ASSUME Sound, Calls, MainAt, todo = <<>>, U!MainStep \/ U!LaterCall
  PROVE  MainAt'
<1>1. /\ U!Services = {"telemetry", "imu", "log", "foxglove"}
      /\ Plain = {"telemetry", "foxglove"}
  BY Names DEF Plain
<1>2. Resting("telemetry") /\ Resting("foxglove") /\ ImuResting
  BY <1>1, CallsAre DEF AllRest
<1>3. ASSUME main' \in {"ok", "error"} PROVE MainAt'
  BY <1>3 DEF MainAt
<1>4. CASE U!LaterCall
  BY <1>3, <1>4 DEF U!LaterCall
<1>5. CASE main = "begin" /\ main' = "telemetry" /\ U!CallInit("telemetry")
  <2>1. /\ OthersSame("telemetry")
        /\ todo' = <<>> \/ PlainAt("telemetry")'
    BY <1>1, <1>2, <1>5, PlainInitIs
  <2>2. ~started'["imu"]
    BY <1>1, <1>5, <2>1 DEF MainAt, OthersSame, Same, SameFlags
  <2> QED BY <1>5, <2>1, <2>2 DEF MainAt
<1>6. CASE main = "telemetry" /\ U!Up("telemetry") /\ main' = "imu" /\ U!CallInit("imu")
  <2>1. OthersSame("imu") /\ ~started'["imu"] /\ ImuAt'
    BY <1>2, <1>6, ImuInitIs DEF MainAt
  <2>2. U!Up("telemetry")'
    BY <1>1, <1>6, <2>1 DEF U!Up, OthersSame, Same, SameFlags
  <2> QED BY <1>6, <2>1, <2>2 DEF MainAt
<1>7. CASE main = "imu" /\ ~U!Up("imu") /\ main' = "undo" /\ U!CallDeinit("telemetry")
  <2>1. /\ AllSame
        /\ \/ ~started["telemetry"] /\ todo' = <<>>
           \/ /\ started["telemetry"] /\ todo' = Deinit0("telemetry")
              /\ PlainAt("telemetry")'
    BY <1>1, <1>2, <1>7, PlainDeinitIs
  <2>2. ~started["imu"]
    BY <1>7 DEF MainAt, U!Up
  <2>3. /\ ~started'["imu"]
        /\ started'["telemetry"] = started["telemetry"]
    BY <1>1, <2>1, <2>2 DEF AllSame, Same, SameFlags
  <2> QED BY <1>7, <2>1, <2>3 DEF MainAt
<1>8. CASE main = "imu" /\ U!Up("imu") /\ main' = "foxglove" /\ U!CallInit("foxglove")
  <2>1. /\ OthersSame("foxglove")
        /\ todo' = <<>> \/ PlainAt("foxglove")'
    BY <1>1, <1>2, <1>8, PlainInitIs
  <2>2. U!Up("telemetry")' /\ U!Up("imu")'
    BY <1>1, <1>8, <2>1 DEF MainAt, U!Up, OthersSame, Same, SameFlags
  <2> QED BY <1>8, <2>1, <2>2 DEF MainAt
<1> QED
  BY <1>3, <1>4, <1>5, <1>6, <1>7, <1>8 DEF U!MainStep, U!TelemetryUndone

(* Wherever it is, main knows what it has brought up. *)
LEMMA NextMain ==
  ASSUME Sound, Calls, MainAt, U!Next
  PROVE  MainAt'
<1>1. CASE Stops
  BY <1>1, StopsMain DEF Stops
<1>2. CASE ~Stops /\ todo # <<>>
  BY <1>2, CallMain
<1>3. CASE ~Stops /\ todo = <<>>
  BY <1>3, NextCall, MainMoves
<1> QED
  BY <1>1, <1>2, <1>3

-----------------------------------------------------------------------------
(* The inductive invariant of Startup *)

(* A call only has steps of the code before it. *)
LEMMA CallsTypes == Calls => todo \in Seq(StepSet)
  BY CallsAre

(* Each step of a list names a resource or a service. *)
LEMMA StepsTyped ==
  ASSUME NEW l \in Seq(StepSet)
  PROVE  \A i \in DOMAIN l : l[i].what \in U!Resources \cup U!Services
<1> SUFFICES ASSUME NEW i \in DOMAIN l
             PROVE  l[i].what \in U!Resources \cup U!Services
  OBVIOUS
<1>1. l[i] \in StepSet
  BY ElementOfSeq, LenProperties, Zenon
<1> QED
  BY <1>1, StepNames, Zenon

(* Where main is *)
Mains == {"begin", "telemetry", "imu", "undo", "foxglove", "ok", "error"}

(* Every step leaves main somewhere in its code. *)
LEMMA NextMains ==
  ASSUME Sound, Calls, main \in Mains, U!Next
  PROVE  main' \in Mains
<1>1. CASE Stops
  BY <1>1, StopsIs DEF Stops
<1>2. CASE ~Stops /\ todo # <<>>
  BY <1>2, CallStep
<1>3. CASE ~Stops /\ todo = <<>>
  BY <1>3, NextCall DEF U!MainStep, U!TelemetryUndone, U!LaterCall, Mains
<1> QED
  BY <1>1, <1>2, <1>3

(* The invariant, as the proofs above split it. *)
Whole == Sound /\ Calls /\ MainAt /\ main \in Mains

(* The two forms of the invariant are one. *)
LEMMA WholeIs == StartupInv <=> Whole
<1>1. ASSUME StartupInv PROVE Whole
  BY <1>1 DEF StartupInv, U!TypeOK, Whole, Sound, Once, FlagTypes, Mains
<1>2. ASSUME Whole PROVE StartupInv
  <2>1. \A i \in DOMAIN todo : todo[i].what \in U!Resources \cup U!Services
    BY <1>2, CallsAre, StepsTyped, Zenon DEF Whole
  <2> QED
    BY <1>2, <2>1 DEF StartupInv, U!TypeOK, Whole, Sound, Once, FlagTypes, Mains
<1> QED
  BY <1>1, <1>2

(* Before main begins nothing is held and nothing runs. *)
LEMMA StartupInit == U!Init => Whole
<1> SUFFICES ASSUME U!Init PROVE Whole
  OBVIOUS
<1>1. Once(<<>>) /\ U!ToSet(<<>>) = {}
  BY DEF Once, U!IsInjective, U!ToSet
<1>2. Once(order) /\ U!Held = {}
  BY <1>1 DEF U!Init, U!Held
<1>3. Stacked
  BY <1>2 DEF Stacked
<1>4. FlagTypes
  BY DEF U!Init, FlagTypes
<1>5. \A s \in U!Services : Off(s, {})
  BY <1>2 DEF U!Init, Off, Kept
<1>6. Calls
  <2>1. {"telemetry", "imu", "log", "foxglove"} \subseteq U!Services
    BY Names
  <2>2. ~started["imu"]
    BY <1>5, <2>1 DEF Off
  <2> QED BY <1>5, <2>1, <2>2 DEF U!Init, Calls, Resting, ImuResting
<1>7. MainAt /\ main \in Mains
  BY Names DEF U!Init, MainAt, Mains
<1> QED
  BY <1>2, <1>3, <1>4, <1>6, <1>7 DEF Whole, Sound

(* Every step of main, of a call and of a thread keeps the invariant. *)
LEMMA StartupNext == Whole /\ [U!Next]_startupVars => Whole'
<1>1. CASE Whole /\ U!Next
  BY <1>1, NextCalls, NextMain, NextMains DEF Whole
<1>2. CASE Whole /\ UNCHANGED startupVars
  <2>1. UNCHANGED <<order, should_run, stopped, started, alive, todo, main>>
    BY <1>2 DEF startupVars
  <2>2. Sound'
    BY <1>2, <2>1 DEF Whole, Sound, Once, Stacked, Fallen, Before, U!Held, FlagTypes
  <2>3. \A s, h : /\ (Off(s, h) => Off(s, h)') /\ (Fresh(s, h) => Fresh(s, h)')
                  /\ (Ended(s, h) => Ended(s, h)') /\ (Launched(s) => Launched(s)')
                  /\ (Told(s) => Told(s)') /\ (Works(s) => Works(s)')
                  /\ (Resting(s) => Resting(s)')
    BY <2>1 DEF Off, Fresh, Ended, Launched, Told, Works, Resting, On, Kept, U!Held
  <2>4. /\ PlainAt("telemetry") => PlainAt("telemetry")'
        /\ PlainAt("foxglove") => PlainAt("foxglove")'
    BY <2>1, <2>3 DEF PlainAt
  <2>5. ImuResting => ImuResting'
    BY <2>1, <2>3 DEF ImuResting
  <2>6. /\ ImuInitAt => ImuInitAt'
        /\ LogInitAt => LogInitAt'
    BY <2>1, <2>3 DEF ImuInitAt, LogInitAt, LogUp, AllImu, AllLog
  <2>7. /\ UndoAt => UndoAt'
        /\ FailAt => FailAt'
    BY <2>1, <2>3 DEF UndoAt, FailAt, AllImu, AllLog
  <2>8. StopAt => StopAt'
    BY <2>1, <2>3 DEF StopAt, AllImu, AllLog
  <2>9. ImuAt => ImuAt'
    BY <2>6, <2>7, <2>8 DEF ImuAt
  <2>10. Calls'
    BY <1>2, <2>1, <2>3, <2>4, <2>5, <2>9 DEF Whole, Calls
  <2>11. MainAt'
    BY <1>2, <2>1, <2>4, <2>9 DEF Whole, MainAt, U!Up
  <2> QED BY <1>2, <2>1, <2>2, <2>10, <2>11 DEF Whole
<1> QED
  BY <1>1, <1>2

-----------------------------------------------------------------------------
(* What the invariant says of what is held *)

(* A thread that runs has what its service takes. *)
Covered(s) == s \in alive => Kept(s) = U!Owned[s]

(* The interrupt of the adapter finds the clock and the event. *)
Wired == "adapter" \in Kept("imu") => {"clock", "event"} \subseteq Kept("imu")

ImuCovered ==
  /\ Covered("imu") /\ Covered("log") /\ Wired
  /\ "imu" \in alive => Kept("log") = U!Owned["log"]

(* In each state of a service a thread that runs has what it uses. *)
LEMMA StatesCovered ==
  /\ \A s, h : Off(s, h) \/ Fresh(s, h) \/ Ended(s, h)
                 => s \notin alive /\ Kept(s) = h /\ Covered(s)
  /\ \A s : Launched(s) \/ Told(s) \/ Works(s) => Kept(s) = U!Owned[s] /\ Covered(s)
  /\ \A s : Resting(s) => Covered(s) /\ (Kept(s) = {} \/ Kept(s) = U!Owned[s])
  BY DEF Off, Fresh, Ended, On, Launched, Told, Works, Resting, Covered

(* Also at every point of a call about a plain service, ... *)
LEMMA PlainCovered ==
  ASSUME NEW s \in Plain, PlainAt(s)
  PROVE  Covered(s)
  BY StatesCovered DEF PlainAt

(* ... of the IMU and its logger at rest, ... *)
LEMMA ImuRestCovered ==
  ASSUME ImuResting
  PROVE  ImuCovered
<1>1. Covered("imu") /\ Covered("log") /\ Wired
  BY StatesCovered, Names DEF ImuResting, Wired
<1>2. "imu" \in alive => Kept("log") = U!Owned["log"]
  BY DEF ImuResting, Resting, Off, Works, On
<1> QED
  BY <1>1, <1>2 DEF ImuCovered

(* ... and at every point of a call about them. *)
LEMMA ImuCallCovered ==
  ASSUME ImuAt
  PROVE  ImuCovered
<1> USE StatesCovered, Names DEF ImuCovered, Wired, AllImu, AllLog
<1>1. CASE ImuInitAt
  BY <1>1 DEF ImuInitAt, LogUp
<1>2. CASE LogInitAt
  BY <1>2 DEF LogInitAt
<1>3. CASE UndoAt
  BY <1>3 DEF UndoAt
<1>4. CASE FailAt
  BY <1>4 DEF FailAt
<1>5. CASE StopAt
  BY <1>5 DEF StopAt
<1> QED
  BY <1>1, <1>2, <1>3, <1>4, <1>5 DEF ImuAt

(* At every step of every call the services have what they use. *)
LEMMA AllCovered ==
  ASSUME Whole
  PROVE  Covered("telemetry") /\ Covered("foxglove") /\ ImuCovered
<1>1. Resting("telemetry") => Covered("telemetry")
  BY StatesCovered
<1>2. Resting("foxglove") => Covered("foxglove")
  BY StatesCovered
<1>3. /\ PlainAt("telemetry") => Covered("telemetry")
      /\ PlainAt("foxglove") => Covered("foxglove")
  BY PlainCovered DEF Plain
<1> QED
  BY <1>1, <1>2, <1>3, ImuRestCovered, ImuCallCovered DEF Whole, Calls

(* The interrupt has its targets and the threads have their resources. *)
LEMMA WholeTargets ==
  ASSUME Whole
  PROVE  U!InterruptHasTargets /\ U!ThreadHasResources
<1>1. Covered("telemetry") /\ Covered("foxglove") /\ ImuCovered
  BY AllCovered
<1>2. U!InterruptHasTargets
  BY <1>1, Names DEF ImuCovered, Wired, Kept, U!InterruptHasTargets
<1>3. \A s \in alive : U!Owned[s] \subseteq U!Held
  <2>1. \A s \in U!Services : Covered(s)
    BY <1>1, Names DEF ImuCovered
  <2>2. alive \subseteq U!Services
    BY DEF Whole, Sound, FlagTypes
  <2> QED BY <2>1, <2>2 DEF Covered, Kept
<1>4. "imu" \in alive => U!Owned["log"] \subseteq U!Held
  BY <1>1 DEF ImuCovered, Kept
<1> QED
  BY <1>2, <1>3, <1>4 DEF U!ThreadHasResources

(* Between calls a service that is not up holds nothing. *)
LEMMA WholeDown ==
  ASSUME Whole
  PROVE  U!DownHoldsNothing
<1>1. todo = <<>> => \A s \in U!Services : Resting(s)
  <2>1. todo = <<>> => AllRest /\ ImuResting
    BY CallsAre DEF Whole
  <2> QED BY <2>1, Names DEF AllRest, ImuResting, Plain
<1> QED
  BY <1>1 DEF U!DownHoldsNothing, Resting, Off, Works, On, Kept

-----------------------------------------------------------------------------
(* What is given back *)

(* What a step gives back of a service that is not up. *)
Freed == U!At("release") /\ Head(todo).what \in Fallen

(* It was the last to be taken. *)
LEMMA ToppedIsLast ==
  ASSUME Sound, NEW s \in U!Services, NEW r \in Kept(s), ~started[s], Topped(r)
  PROVE  \E i \in DOMAIN order :
           /\ order[i] = r
           /\ \A j \in DOMAIN order : j > i => order[j] \notin Fallen
<1>1. PICK n \in Nat : DOMAIN order = 1 .. n
  BY LenProperties DEF Sound, Once
<1>2. \A i, j \in 1 .. n : order[i] = order[j] => i = j
  BY <1>1, Zenon DEF Sound, Once, U!IsInjective
<1>3. PICK i \in 1 .. n : order[i] = r
  BY <1>1, Zenon DEF Kept, U!Held, U!ToSet
<1>4. ASSUME NEW j \in 1 .. n, j > i, order[j] \in Fallen PROVE FALSE
  <2>1. order[j] # r
    BY <1>2, <1>3, <1>4
  <2>2. order[j] \in U!Held \cap Fallen
    BY <1>1, <1>4, Zenon DEF U!Held, U!ToSet
  <2>3. r \in U!Held \cap Fallen
    BY FallenIs
  <2>4. Rank[order[j]] < Rank[r]
    BY <2>1, <2>2, FallenIs DEF Topped
  <2>5. Before(order, order[j], r)
    BY <2>2, <2>3, <2>4 DEF Sound, Stacked
  <2>6. PICK c \in 1 .. n, d \in 1 .. n : c < d /\ order[c] = order[j] /\ order[d] = r
    BY <1>1, <2>5, Zenon DEF Before
  <2>7. c = j /\ d = i
    BY <1>2, <1>3, <2>6
  <2> QED BY <1>4, <2>6, <2>7
<1> QED
  BY <1>1, <1>3, <1>4

(* A step that gives back gives back a resource. *)
LEMMA StepDoes ==
  /\ \A l, step, rest : Now(l, step, rest) => Head(l) = step
  /\ \A x : U!Release(x).do = "release" /\ U!Release(x).what = x
  /\ \A x : U!Acquire(x).do # "release" /\ U!Enable(x).do # "release"
  /\ \A x : U!Disable(x).do # "release" /\ U!StartUp(x).do # "release"
  /\ \A x : U!Started(x).do # "release" /\ U!Stopped(x).do # "release"
  /\ \A x, late : U!Wait(x, late).do # "release"
  /\ U!InitLog.do # "release"
  BY DEF Now, U!Acquire, U!Release, U!Enable, U!Disable, U!StartUp, U!Started,
     U!Stopped, U!Wait, U!InitLog

(* What a service that is up holds is not of one that is not. *)
LEMMA UpIsNotFallen ==
  \A s \in U!Services : started[s] => \A r \in U!Owned[s] : r \notin Fallen
<1> SUFFICES ASSUME NEW s \in U!Services, started[s], NEW r \in U!Owned[s], r \in Fallen
             PROVE  FALSE
  OBVIOUS
<1>1. PICK t \in U!Services : ~started[t] /\ r \in U!Owned[t]
  BY DEF Fallen
<1> QED
  BY <1>1, Owner

(* A service that is not up holds it, and it is the last of those. *)
Falls(r) == \E s \in U!Services : ~started[s] /\ r \in Kept(s) /\ Topped(r)

(* A plain service gives back its thread, then its port. *)
LEMMA PlainFalls ==
  ASSUME NEW s \in Plain, PlainAt(s), OthersIdle({s}), Freed
  PROVE  Falls(Head(todo).what)
<1>1. /\ s \in U!Services /\ U!Owned[s] = {Port(s), Thread(s)}
  BY PlainNames
<1>2. Head(todo).do = "release" /\ Head(todo).what \in Fallen
  BY DEF Freed, U!At
<1>3. CASE ~started[s]
  <2>1. \/ todo = Back2(s) /\ Off(s, U!Owned[s])
        \/ todo = Back1(s) /\ Off(s, {Port(s)})
    BY <1>2, <1>3, StepDoes, PlainLists DEF PlainAt, Told, Ended, On, Works
  <2>2. CASE todo = Back2(s) /\ Off(s, U!Owned[s])
    <3>1. Head(todo).what = Thread(s) /\ Thread(s) \in Kept(s)
      BY <1>1, <2>2, StepDoes, PlainLists DEF Off
    <3> QED BY <1>1, <1>3, <3>1, PlainTopped DEF Falls
  <2>3. CASE todo = Back1(s) /\ Off(s, {Port(s)})
    <3>1. Head(todo).what = Port(s) /\ Kept(s) = {Port(s)}
      BY <2>3, StepDoes, PlainLists DEF Off
    <3> QED BY <1>1, <1>3, <3>1, PlainTopped DEF Falls
  <2> QED BY <2>1, <2>2, <2>3
<1>4. CASE started[s]
  <2>1. Head(todo).what \in {s} \cup U!Owned[s]
    BY WhoseStep
  <2>2. Head(todo).what = s \/ Head(todo).what \in U!Owned[s]
    BY <2>1
  <2>3. Head(todo).what # s
    BY <1>2, Names DEF Fallen, Plain
  <2> QED BY <1>1, <1>2, <1>4, <2>2, <2>3, UpIsNotFallen
<1> QED
  BY <1>3, <1>4

(* The rollback of the IMU and its logger gives back in reverse. *)
LEMMA UndoFalls ==
  ASSUME UndoAt, OthersIdle(Both), Freed
  PROVE  Falls(Head(todo).what)
<1>1. /\ Head(todo).do = "release"
      /\ U!Services = {"telemetry", "imu", "log", "foxglove"}
  BY Names DEF Freed, U!At
<1>2. Resting("log") /\ ~started["log"] => Kept("log") = {}
  BY <1>1, RestIdle
<1>3. CASE todo = Undo1 /\ Off("imu", {"clock"}) /\ Resting("log")
  <2>1. Head(todo).what = "clock"
    BY <1>3, StepDoes, ImuLists
  <2> QED BY <1>1, <1>2, <1>3, <2>1 DEF Falls, Topped, OthersIdle, Both, Off, Rank
<1>4. CASE todo = Undo2 /\ Off("imu", {"clock", "event"}) /\ Resting("log")
  <2>1. Head(todo).what = "event"
    BY <1>4, StepDoes, ImuLists
  <2> QED BY <1>1, <1>2, <1>4, <2>1 DEF Falls, Topped, OthersIdle, Both, Off, Rank
<1>5. CASE /\ todo = Undo3 /\ Off("imu", {"clock", "event", "imu_thread"})
           /\ Resting("log")
  <2>1. Head(todo).what = "imu_thread"
    BY <1>5, StepDoes, ImuLists
  <2> QED BY <1>1, <1>2, <1>5, <2>1 DEF Falls, Topped, OthersIdle, Both, Off, Rank
<1>6. CASE todo = Undo4 /\ Off("imu", AllImu) /\ Resting("log")
  <2>1. Head(todo).what = "adapter"
    BY <1>6, StepDoes, ImuLists
  <2>2. AllImu = {"clock", "event", "imu_thread", "adapter"}
    BY Names DEF AllImu
  <2> QED
    BY <1>1, <1>2, <1>6, <2>1, <2>2 DEF Falls, Topped, OthersIdle, Both, Off, Rank
<1>7. CASE todo = Undo5 /\ Off("imu", AllImu) /\ Off("log", {"queue"})
  <2>1. Head(todo).what = "queue"
    BY <1>7, StepDoes, ImuLists
  <2>2. AllImu = {"clock", "event", "imu_thread", "adapter"}
    BY Names DEF AllImu
  <2> QED BY <1>1, <1>7, <2>1, <2>2 DEF Falls, Topped, OthersIdle, Both, Off, Rank
<1>8. CASE todo = Undo6 /\ Off("imu", AllImu) /\ Off("log", AllLog)
  <2>1. Head(todo).what = "log_thread"
    BY <1>8, StepDoes, ImuLists
  <2>2. /\ AllImu = {"clock", "event", "imu_thread", "adapter"}
        /\ AllLog = {"queue", "log_thread"}
    BY Names DEF AllImu, AllLog
  <2> QED BY <1>1, <1>8, <2>1, <2>2 DEF Falls, Topped, OthersIdle, Both, Off, Rank
<1>9. CASE todo = Undo7
  BY <1>1, <1>9, StepDoes, ImuLists
<1> QED
  BY <1>3, <1>4, <1>5, <1>6, <1>7, <1>8, <1>9 DEF UndoAt

(* The other calls give back what a service that is up holds, or nothing. *)
LEMMA ImuFalls ==
  ASSUME ImuAt, OthersIdle(Both), Freed
  PROVE  Falls(Head(todo).what)
<1>1. Head(todo).do = "release" /\ Head(todo).what \in Fallen
  BY DEF Freed, U!At
<1>2. /\ started["imu"] => Fallen \cap {"clock", "event", "imu_thread", "adapter"} = {}
      /\ started["log"] => Fallen \cap {"queue", "log_thread"} = {}
  BY UpIsNotFallen, Names
<1>3. CASE ImuInitAt
  BY <1>1, <1>3, StepDoes, ImuLists DEF ImuInitAt
<1>4. CASE LogInitAt
  BY <1>1, <1>4, StepDoes, ImuLists DEF LogInitAt
<1>5. CASE UndoAt
  BY <1>5, UndoFalls
<1>6. CASE FailAt
  BY <1>1, <1>2, <1>6, StepDoes, ImuLists DEF FailAt, Ended, On
<1>7. CASE StopAt
  BY <1>1, <1>2, <1>7, StepDoes, ImuLists DEF StopAt, Ended, On
<1> QED
  BY <1>3, <1>4, <1>5, <1>6, <1>7 DEF ImuAt

(* What a service that is not up gives back was the last to be taken. *)
LEMMA WholeReversed ==
  ASSUME Whole
  PROVE  U!ReleasedInReverse
<1>1. /\ U!Services = {"telemetry", "imu", "log", "foxglove"}
      /\ Plain = {"telemetry", "foxglove"}
  BY Names DEF Plain
<1>2. ASSUME Freed PROVE Falls(Head(todo).what)
  <2>1. CASE PlainAt("telemetry") /\ Resting("foxglove") /\ ImuResting
    <3>1. OthersIdle({"telemetry"})
      BY <1>1, <2>1, RestIdle DEF OthersIdle
    <3> QED BY <1>1, <1>2, <2>1, <3>1, PlainFalls
  <2>2. CASE PlainAt("foxglove") /\ Resting("telemetry") /\ ImuResting
    <3>1. OthersIdle({"foxglove"})
      BY <1>1, <2>2, RestIdle DEF OthersIdle
    <3> QED BY <1>1, <1>2, <2>2, <3>1, PlainFalls
  <2>3. CASE ImuAt /\ Resting("telemetry") /\ Resting("foxglove")
    <3>1. OthersIdle(Both)
      BY <1>1, <2>3, RestIdle DEF OthersIdle, Both
    <3> QED BY <1>2, <2>3, <3>1, ImuFalls
  <2>4. todo # <<>>
    BY <1>2 DEF Freed, U!At
  <2> QED BY <2>1, <2>2, <2>3, <2>4 DEF Whole, Calls
<1>3. ASSUME Freed
      PROVE  \E i \in DOMAIN order :
               /\ order[i] = Head(todo).what
               /\ \A j \in DOMAIN order : j > i => order[j] \notin Fallen
  <2>1. PICK s \in U!Services : /\ ~started[s] /\ Head(todo).what \in Kept(s)
                                /\ Topped(Head(todo).what)
    BY <1>2, <1>3 DEF Falls
  <2> QED BY <2>1, ToppedIsLast DEF Whole
<1> QED
  BY <1>3, Zenon DEF U!ReleasedInReverse, Freed, Fallen

-----------------------------------------------------------------------------
(* What main answers *)

(* What main knows when it answers is what runs. *)
LEMMA MainAnswers ==
  ASSUME Whole, U!Next, main' # main
  PROVE  /\ main' = "ok" => {"telemetry", "imu", "log"} \subseteq alive
         /\ main' = "error" => /\ "imu" \notin alive /\ ~started["imu"]
                               /\ started["telemetry"] => ~should_run["telemetry"]
<1>1. ~Stops
  BY StopsIs DEF Whole, Stops
<1>2. todo = <<>>
  BY <1>1, CallStep DEF Whole
<1>3. U!MainStep
  BY <1>1, <1>2, NextCall DEF U!LaterCall
<1>4. Resting("telemetry") /\ ImuResting
  BY <1>2, CallsAre DEF Whole, AllRest, Plain
<1>5. /\ U!Up("telemetry") => "telemetry" \in alive
      /\ U!Up("imu") => {"imu", "log"} \subseteq alive
      /\ ~started["imu"] => "imu" \notin alive
  BY <1>4 DEF ImuResting, Resting, Works, On, Off, U!Up
<1>6. CASE main = "begin" /\ main' = "telemetry"
  BY <1>6
<1>7. CASE main = "telemetry"
  BY <1>3, <1>5, <1>7 DEF Whole, MainAt, U!MainStep, U!Up
<1>8. CASE main = "imu"
  BY <1>3, <1>5, <1>8 DEF Whole, MainAt, U!MainStep, U!TelemetryUndone, U!Up
<1>9. CASE main = "foxglove" /\ main' = "ok"
  BY <1>5, <1>9 DEF Whole, MainAt
<1>10. CASE main = "undo" /\ main' = "error"
  <2>1. ~started["imu"] /\ (~started["telemetry"] \/ ~should_run["telemetry"])
    BY <1>2, <1>10, PlainLists DEF Whole, MainAt, Now, Plain
  <2> QED BY <1>5, <1>10, <2>1
<1> QED
  BY <1>3, <1>6, <1>7, <1>8, <1>9, <1>10 DEF U!MainStep

-----------------------------------------------------------------------------
(* The invariant and the properties of the run *)

(* A step of the composition is one of Startup or leaves it alone. *)
LEMMA MCStartup == Whole /\ [MCNext]_allVars => Whole' /\ [U!Next]_startupVars
<1>1. ASSUME [MCNext]_allVars PROVE [U!Next]_startupVars
  BY <1>1 DEF MCNext, ThreadStep, StartupStep, Rests, allVars, startupVars
<1> QED
  BY <1>1, StartupNext

(* Whatever fails to come up or to stop, what is held and what runs is what   *)
(* the point that the call has reached says.                                *)
THEOREM StartupInvariant == MCSpec => []StartupInv
<1>1. MCInit => Whole
  BY StartupInit DEF MCInit
<1>2. Whole => StartupInv
  BY WholeIs
<1> QED
  BY <1>1, <1>2, MCStartup, PTL DEF MCSpec

(* For any set of resources that may fail and of threads that may not start,  *)
(* at every step of every start, rollback and stop: the interrupt finds its *)
(* clock and event, a running thread what it uses, a service that is not up *)
(* holds nothing between calls, and a failing start releases in reverse.    *)
THEOREM StartupIsOrdered == MCSpec => []StartupOrdered
<1>1. StartupInv => StartupOrdered
  <2> SUFFICES ASSUME StartupInv PROVE StartupOrdered
    OBVIOUS
  <2>1. Whole
    BY WholeIs
  <2>2. U!TypeOK
    BY DEF StartupInv
  <2> QED BY <2>1, <2>2, WholeTargets, WholeDown, WholeReversed DEF StartupOrdered
<1> QED
  BY <1>1, StartupInvariant, PTL

(* main answers success only with telemetry, IMU and logger running, and an   *)
(* error only with the IMU down and the telemetry down or told to stop.     *)
THEOREM MainHonest == MCSpec => MainIsHonest
<1>1. StartupInv /\ [MCNext]_allVars
        => [main' # main =>
              /\ main' = "ok" => {"telemetry", "imu", "log"} \subseteq alive
              /\ main' = "error" => /\ "imu" \notin alive /\ ~started["imu"]
                                    /\ started["telemetry"] => ~should_run["telemetry"]
           ]_(U!vars)
  <2> SUFFICES ASSUME StartupInv, [MCNext]_allVars, main' # main
               PROVE  /\ main' = "ok" => {"telemetry", "imu", "log"} \subseteq alive
                      /\ main' = "error" =>
                           /\ "imu" \notin alive /\ ~started["imu"]
                           /\ started["telemetry"] => ~should_run["telemetry"]
    BY DEF U!vars
  <2>1. Whole
    BY WholeIs
  <2>2. U!Next
    BY <2>1, MCStartup DEF startupVars
  <2> QED BY <2>1, <2>2, MainAnswers
<1> QED
  BY <1>1, StartupInvariant, PTL DEF MCSpec, MainIsHonest, U!MainIsHonest
=============================================================================
