-------------------------------- MODULE Startup --------------------------------
(***************************************************************************)
(* How the firmware starts and stops: main.c and the init and deinit of    *)
(* the telemetry, IMU, log and Foxglove services, down to the resources    *)
(* they take.  Each step of a start may fail, and the code then releases,  *)
(* written out branch by branch, what the steps before it took.  A thread  *)
(* that is told to stop may do so late or never.                           *)
(*                                                                         *)
(* A call is the list of the steps it still has to make; a failing step    *)
(* replaces the rest of the list.                                          *)
(***************************************************************************)
EXTENDS Sequences, SequencesExt

CONSTANTS
  MayFail,       \* the resources whose init may fail
  MayNotStart,   \* the services whose rt_thread_startup may fail
  FoxgloveDebug  \* HUOKONG_FOXGLOVE_DEBUG is defined

Services == {"telemetry", "imu", "log", "foxglove"}

Owned ==
  [telemetry |-> {"uart", "telemetry_thread"},
   imu       |-> {"clock", "event", "imu_thread", "adapter"},
   log       |-> {"queue", "log_thread"},
   foxglove  |-> {"uart1", "foxglove_thread"}]

Resources == UNION {Owned[s] : s \in Services}

VARIABLES
  order,       \* the resources held, in the order they were taken
  should_run,  \* thread_should_run of each service
  stopped,     \* thread_stopped
  started,     \* service_started; of the logger service_initialized
  alive,       \* the services whose thread runs
  todo,        \* the steps the current call still has to make
  main         \* where main is: what it calls, or what it returned

vars    == <<order, should_run, stopped, started, alive, todo, main>>
threads == <<should_run, stopped, started, alive>>

Held == ToSet(order)

-----------------------------------------------------------------------------
(* Steps *)

Acquire(r)    == [do |-> "acquire", what |-> r]
Release(r)    == [do |-> "release", what |-> r]
Enable(s)     == [do |-> "enable", what |-> s]
Disable(s)    == [do |-> "disable", what |-> s]
StartUp(s)    == [do |-> "startup", what |-> s]
Started(s)    == [do |-> "started", what |-> s]
Stopped(s)    == [do |-> "gone", what |-> s]
InitLog       == [do |-> "init", what |-> "log"]
Wait(s, late) == [do |-> "wait", what |-> s, late |-> late]

ReleaseAll(rs) == [i \in DOMAIN rs |-> Release(rs[i])]

Running(s) == <<Enable(s), StartUp(s), Started(s)>>

(* telemetry_service_init, imu_service_init, imu_log_service_init and        *)
(* foxglove_debug_service_init.  The build with the Foxglove service stubs   *)
(* the log out (imu_log_service.c:9-30): its init and deinit do nothing and  *)
(* succeed.  Here the logger is there in both builds; what is said of the    *)
(* debug build then holds with more that can fail than it has.              *)
InitSteps ==
  [telemetry |-> <<Acquire("uart"), Acquire("telemetry_thread")>>
                   \o Running("telemetry"),
   imu       |-> <<Acquire("clock"), Acquire("event"), Acquire("imu_thread"),
                   Acquire("adapter"), InitLog>> \o Running("imu"),
   log       |-> <<Acquire("queue"), Acquire("log_thread")>> \o Running("log"),
   foxglove  |-> <<Acquire("uart1"), Acquire("foxglove_thread")>>
                   \o Running("foxglove")]

(* imu_log_service_deinit; late is what its caller does when it fails.       *)
LogDeinit(late) ==
  IF ~started["log"] THEN <<>>
  ELSE <<Disable("log"), Wait("log", late), Release("log_thread"),
         Release("queue"), Stopped("log")>>

(* cleanup_imu_resources.  Faulty form: the interrupt is stopped last.       *)
AdapterLast     == <<"event", "clock", "adapter">>
ImuResourceList == <<"adapter", "event", "clock">>

DeinitSteps(s) ==
  CASE s = "telemetry" ->
         <<Disable(s), Wait(s, <<>>), Release("telemetry_thread"),
           Release("uart"), Stopped(s)>>
    [] s = "imu" ->
         <<Disable(s), Wait(s, <<>>)>> \o LogDeinit(<<>>)
           \o ReleaseAll(<<"imu_thread">> \o ImuResourceList) \o <<Stopped(s)>>
    [] s = "foxglove" ->
         <<Disable(s), Wait(s, <<>>), Release("foxglove_thread"),
           Release("uart1"), Stopped(s)>>

(* What each init does after a failing step, as its branches write it out.   *)
(* Faulty forms: the event goes before the thread; the queue is forgotten.   *)
EventFirst     == <<"event", "imu_thread", "clock">>
AdapterFailed  == <<"imu_thread", "event", "clock">>
QueueForgotten == <<>>
LogThreadFailed == <<"queue">>

Undo ==
  [uart |-> <<>>, telemetry_thread |-> <<"uart">>,
   telemetry |-> <<"telemetry_thread", "uart">>,
   clock |-> <<>>, event |-> <<"clock">>, imu_thread |-> <<"event", "clock">>,
   adapter |-> AdapterFailed,
   log |-> <<"adapter", "imu_thread", "event", "clock">>,
   queue |-> <<>>, log_thread |-> LogThreadFailed,
   log_startup |-> <<"log_thread", "queue">>,
   uart1 |-> <<>>, foxglove_thread |-> <<"uart1">>,
   foxglove |-> <<"foxglove_thread", "uart1">>]

(* imu_log_service_init is called by imu_service_init, which fails with it. *)
AfterFailing(step) ==
  LET w == step.what IN
  CASE step = InitLog     -> ReleaseAll(Undo["log"])
    [] w \in Owned["log"] -> ReleaseAll(Undo[w] \o Undo["log"])
    [] step = StartUp("log") ->
         <<Disable(w)>> \o ReleaseAll(Undo["log_startup"] \o Undo["log"])
    [] step = StartUp("imu") ->
         LogDeinit(<<Disable(w)>> \o ReleaseAll(Undo["log"]))
           \o <<Disable(w)>> \o ReleaseAll(Undo["log"])
    [] step.do = "startup" /\ w \notin {"log", "imu"} ->
         <<Disable(w)>> \o ReleaseAll(Undo[w])
    [] OTHER -> ReleaseAll(Undo[w])

-----------------------------------------------------------------------------
(* One step of the current call *)

At(what) == todo # <<>> /\ Head(todo).do = what

Continue == todo' = Tail(todo) /\ UNCHANGED main
Fail     == todo' = AfterFailing(Head(todo)) /\ UNCHANGED main

AcquireStep ==
  /\ At("acquire")
  /\ \/ Continue /\ order' = Append(order, Head(todo).what)
     \/ Head(todo).what \in MayFail /\ Fail /\ UNCHANGED order
  /\ UNCHANGED threads

ReleaseStep ==
  /\ At("release") /\ Continue
  /\ order' = RemoveFirst(order, Head(todo).what)
  /\ UNCHANGED threads

FlagStep ==
  /\ At("enable") \/ At("disable")
  /\ Continue
  /\ should_run' = [should_run EXCEPT ![Head(todo).what] = Head(todo).do = "enable"]
  /\ UNCHANGED <<order, stopped, started, alive>>

StartUpStep ==
  /\ At("startup")
  /\ \/ Continue /\ alive' = alive \cup {Head(todo).what}
     \/ Head(todo).what \in MayNotStart /\ Fail /\ UNCHANGED alive
  /\ UNCHANGED <<order, should_run, stopped, started>>

StartedStep ==
  /\ At("started") \/ At("gone")
  /\ Continue
  /\ started' = [started EXCEPT ![Head(todo).what] = Head(todo).do = "started"]
  /\ UNCHANGED <<order, should_run, stopped, alive>>

(* service_wait_for_thread_stop.  Faulty form: giving up counts as stopped. *)
WaitIgnoringTimeout ==
  /\ At("wait") /\ Continue
  /\ UNCHANGED <<order, threads>>
WaitStep ==
  /\ At("wait")
  /\ IF stopped[Head(todo).what] THEN Continue
     ELSE todo' = Head(todo).late /\ UNCHANGED main
  /\ UNCHANGED <<order, threads>>

(* The head of an init: a service that is up answers at once.  Faulty form:  *)
(* it is set up again.                                                      *)
SetUp(s, answer, rest) ==
  /\ todo' = InitSteps[s] \o rest
  /\ should_run' = [should_run EXCEPT ![s] = FALSE]
  /\ stopped' = [stopped EXCEPT ![s] = FALSE]
  /\ UNCHANGED <<started, alive>>
Begin(s, answer, rest) ==
  IF started[s] THEN todo' = answer /\ UNCHANGED threads
                ELSE SetUp(s, answer, rest)

InitLogStep ==
  /\ At("init")
  /\ Begin("log", IF should_run["log"] THEN Tail(todo) ELSE AfterFailing(InitLog),
           Tail(todo))
  /\ UNCHANGED <<order, main>>

(* A thread leaves its loop, reports that it has stopped and suspends.      *)
ThreadStops(s) ==
  /\ s \in alive /\ ~should_run[s]
  /\ alive' = alive \ {s}
  /\ stopped' = [stopped EXCEPT ![s] = TRUE]
  /\ UNCHANGED <<order, should_run, started, todo, main>>

-----------------------------------------------------------------------------
(* main, between two of its calls, and the init and deinit calls that may    *)
(* follow it in any order.                                                  *)

Up(s) == started[s] /\ should_run[s]

CallInit(s)   == Begin(s, <<>>, <<>>) /\ UNCHANGED order
CallDeinit(s) == /\ todo' = (IF started[s] THEN DeinitSteps(s) ELSE <<>>)
                 /\ UNCHANGED <<order, threads>>
NoCall        == UNCHANGED <<todo, order, threads>>

(* Faulty form: a failing IMU service leaves the telemetry up.               *)
TelemetryLeftUp == main' = "error" /\ NoCall
TelemetryUndone == main' = "undo" /\ CallDeinit("telemetry")

MainStep ==
  /\ todo = <<>>
  /\ \/ main = "begin" /\ main' = "telemetry" /\ CallInit("telemetry")
     \/ /\ main = "telemetry"
        /\ IF Up("telemetry") THEN main' = "imu" /\ CallInit("imu")
                              ELSE main' = "error" /\ NoCall
     \/ /\ main = "imu"
        /\ IF ~Up("imu") THEN TelemetryUndone
           ELSE IF FoxgloveDebug THEN main' = "foxglove" /\ CallInit("foxglove")
           ELSE main' = "ok" /\ NoCall
     \/ main = "foxglove" /\ main' = "ok" /\ NoCall
     \/ main = "undo" /\ main' = "error" /\ NoCall

Called == {"telemetry", "imu"} \cup (IF FoxgloveDebug THEN {"foxglove"} ELSE {})

LaterCall ==
  /\ todo = <<>> /\ main \in {"ok", "error"}
  /\ \E s \in Called : CallInit(s) \/ CallDeinit(s)
  /\ UNCHANGED main

Init ==
  /\ order = <<>> /\ alive = {} /\ todo = <<>> /\ main = "begin"
  /\ should_run = [s \in Services |-> FALSE]
  /\ stopped = [s \in Services |-> FALSE]
  /\ started = [s \in Services |-> FALSE]

Caller == \/ AcquireStep \/ ReleaseStep \/ FlagStep \/ StartUpStep
          \/ StartedStep \/ WaitStep \/ InitLogStep \/ MainStep

Next == Caller \/ LaterCall \/ \E s \in Services : ThreadStops(s)

Spec == Init /\ [][Next]_vars
-----------------------------------------------------------------------------
(* Properties *)

TypeOK ==
  /\ order \in Seq(Resources) /\ IsInjective(order)
  /\ should_run \in [Services -> BOOLEAN] /\ stopped \in [Services -> BOOLEAN]
  /\ started \in [Services -> BOOLEAN] /\ alive \subseteq Services
  /\ \A i \in DOMAIN todo : todo[i].what \in Resources \cup Services
  /\ main \in {"begin", "telemetry", "imu", "undo", "foxglove", "ok", "error"}

(* While the data-ready interrupt is enabled it finds the clock it reads and *)
(* the event it sends to, at every step of every start, rollback and stop.  *)
InterruptHasTargets == "adapter" \in Held => {"clock", "event"} \subseteq Held

(* A running thread has everything it uses, its own object included, however *)
(* often it was told to stop and did not; the IMU thread also submits to the *)
(* log queue.                                                               *)
ThreadHasResources ==
  \A s \in alive :
    Owned[s] \cup (IF s = "imu" THEN Owned["log"] ELSE {}) \subseteq Held

(* docs/requirements/firmware-behavior.md:65: between calls a service that    *)
(* is not up, because it was stopped or because its start failed at whatever *)
(* step, holds nothing and has no thread.                                   *)
DownHoldsNothing ==
  todo = <<>> =>
    \A s \in Services :
      ~started[s] => s \notin alive /\ Owned[s] \cap Held = {}

(* docs/requirements/firmware-behavior.md:65: a failing start gives back what *)
(* it took in the reverse order.  Only a logger that did not stop in time    *)
(* stays where it was.                                                      *)
ReleasedInReverse ==
  LET down == UNION {Owned[s] : s \in {t \in Services : ~started[t]}}
  IN  At("release") /\ Head(todo).what \in down
        => \E i \in DOMAIN order :
             /\ order[i] = Head(todo).what
             /\ \A j \in DOMAIN order : j > i => order[j] \notin down

(* main.c:16-25: main answers success only with telemetry and IMU running;    *)
(* after a failure no IMU thread runs and telemetry is down, or at least     *)
(* told to stop.                                                            *)
MainIsHonest ==
  [][ main' # main =>
        /\ main' = "ok" => {"telemetry", "imu", "log"} \subseteq alive
        /\ main' = "error" => /\ "imu" \notin alive /\ ~started["imu"]
                              /\ started["telemetry"] => ~should_run["telemetry"]
    ]_vars
=============================================================================
