---------------------------- MODULE ServiceThread ----------------------------
(***************************************************************************)
(* How a service stops and releases its worker thread: imu_service_deinit  *)
(* with kernel/service_lifecycle.h, the end of imu_thread_entry, and the   *)
(* RT-Thread functions they rely on: self-suspension, the exit of a thread *)
(* whose entry returns, rt_thread_detach, and rt_defunct_execute, which    *)
(* the idle thread also runs.                                              *)
(*                                                                         *)
(* There is one core.  A thread that suspends itself runs on until the     *)
(* scheduler switches away from it; from then on it does not come back.    *)
(***************************************************************************)
EXTENDS Naturals

CONSTANT Timeout  \* SERVICE_THREAD_STOP_TIMEOUT_TICKS

ASSUME TimeoutAssumption == Timeout \in Nat

VARIABLES
  service_started, thread_should_run, thread_stopped,
  imu_thread_detached,
  child,      \* imu_log_service is up
  resources,  \* sensor adapter, event and clock are up
  caller,     \* where imu_service_deinit is; "idle" outside of it
  waited,     \* ticks it has waited for the worker
  worker,     \* where the IMU thread is
  running,    \* who has the core
  stat,       \* the worker's scheduler state
  type,       \* the type of its thread object
  listed,     \* it is in the list of defunct threads
  idle_holds, \* the idle thread has taken it from the list to reap it
  corrupted   \* a kernel list or the heap is damaged: all bets are off

flags  == <<service_started, thread_should_run, imu_thread_detached>>
parts  == <<child, resources>>
call   == <<caller, waited>>
kernel == <<stat, type, listed, idle_holds, corrupted>>
vars   == <<flags, thread_stopped, parts, call, worker, running, kernel>>

Has(t) == running = t /\ ~corrupted

-----------------------------------------------------------------------------
(* The scheduler *)

(* Outside of deinit the caller may sleep for any time. *)
Ready(t) == CASE t = "worker" -> stat = "ready"
              [] t = "caller" -> caller # "delay"
              [] t = "idle"   -> caller \in {"delay", "idle"}

Switch(t) ==
  /\ ~corrupted /\ running # t /\ Ready(t)
  /\ running' = t
  /\ UNCHANGED <<flags, thread_stopped, parts, call, worker, kernel>>

DelayEnds ==
  /\ ~corrupted /\ caller = "delay"
  /\ caller' = "wait"
  /\ UNCHANGED <<flags, thread_stopped, parts, waited, worker, running, kernel>>

-----------------------------------------------------------------------------
(* The end of imu_thread_entry *)

ReportStopped ==
  /\ Has("worker") /\ worker = "run" /\ ~thread_should_run
  /\ thread_stopped' = TRUE
  /\ worker' = "stopped"
  /\ UNCHANGED <<flags, parts, call, running, kernel>>

(* rt_thread_suspend of the running thread: it leaves the ready list, and   *)
(* no rescheduling takes place.                                             *)
SuspendSelf ==
  /\ Has("worker") /\ worker = "stopped"
  /\ stat' = "suspend"
  /\ worker' = "suspended"
  /\ UNCHANGED <<flags, thread_stopped, parts, call, running, type, listed,
                 idle_holds, corrupted>>

(* The entry returns into _thread_exit, which closes the thread, lists it   *)
(* as defunct and gives the core away.                                      *)
ThreadExit ==
  /\ Has("worker") /\ worker = "suspended"
  /\ stat' = "close"
  /\ listed' = TRUE
  /\ worker' = "gone"
  /\ running' \in {t \in {"caller", "idle"} : Ready(t)}
  /\ UNCHANGED <<flags, thread_stopped, parts, call, type, idle_holds, corrupted>>

-----------------------------------------------------------------------------
(* rt_defunct_execute *)

(* A static object loses its type; of any other the kernel frees stack and  *)
(* object, which here are static storage.                                   *)
Reap == /\ type' = "null"
        /\ corrupted' = (type # "static")

(* The idle thread may lose the core between taking a thread from the list  *)
(* and detaching its object.                                                *)
IdleTakes ==
  /\ Has("idle") /\ listed /\ ~idle_holds
  /\ listed' = FALSE /\ idle_holds' = TRUE
  /\ UNCHANGED <<flags, thread_stopped, parts, call, worker, running, stat,
                 type, corrupted>>

IdleReaps ==
  /\ Has("idle") /\ idle_holds
  /\ idle_holds' = FALSE
  /\ Reap
  /\ UNCHANGED <<flags, thread_stopped, parts, call, worker, running, stat, listed>>

-----------------------------------------------------------------------------
(* imu_service_init, all of whose steps succeed *)

ServiceInit ==
  /\ Has("caller") /\ caller = "idle" /\ ~service_started
  /\ service_started' = TRUE /\ thread_should_run' = TRUE
  /\ thread_stopped' = FALSE /\ imu_thread_detached' = FALSE
  /\ worker' = "run" /\ stat' = "ready" /\ type' = "static"
  /\ child' = TRUE /\ resources' = TRUE
  /\ UNCHANGED <<call, running, listed, idle_holds, corrupted>>

-----------------------------------------------------------------------------
(* imu_service_deinit *)

DeinitBegin ==
  /\ Has("caller") /\ caller = "idle" /\ service_started
  /\ thread_should_run' = FALSE
  /\ caller' = "wait" /\ waited' = 0
  /\ UNCHANGED <<service_started, imu_thread_detached, thread_stopped, parts,
                 worker, running, kernel>>

(* service_wait_for_thread_stop: a delay of a tick at a time. *)
WaitFor(bound, given_up) ==
  /\ Has("caller") /\ caller = "wait"
  /\ IF ~thread_stopped /\ waited < bound
     THEN /\ waited' = waited + 1
          /\ caller' = "delay"
          /\ running' = IF stat = "ready" THEN "worker" ELSE "idle"
     ELSE /\ caller' = IF thread_stopped THEN "child" ELSE given_up
          /\ UNCHANGED <<waited, running>>
  /\ UNCHANGED <<flags, thread_stopped, parts, worker, kernel>>

(* Faulty forms: giving up counts as stopped; a tick too many; the ticks    *)
(* are not counted.                                                         *)
GivingUpIsStopped == WaitFor(Timeout, "child")
WaitTooLong       == WaitFor(Timeout + 1, "idle")
WaitForever ==
  /\ Has("caller") /\ caller = "wait"
  /\ IF thread_stopped
     THEN caller' = "child" /\ UNCHANGED running
     ELSE caller' = "delay" /\ running' = IF stat = "ready" THEN "worker" ELSE "idle"
  /\ UNCHANGED <<flags, thread_stopped, parts, waited, worker, kernel>>

WaitForStop == WaitFor(Timeout, "idle")

(* service_cleanup_child_then_parent.  imu_log_service_deinit fails when    *)
(* the logger does not stop in time.  Faulty form: its failure is ignored.  *)
IgnoreChildFailure ==
  /\ Has("caller") /\ caller = "child"
  /\ \E ok \in BOOLEAN : child' = (child /\ ~ok)
  /\ caller' = "detach"
  /\ UNCHANGED <<flags, thread_stopped, resources, waited, worker, running, kernel>>

CleanupChild ==
  /\ Has("caller") /\ caller = "child"
  /\ \E ok \in BOOLEAN :
       /\ child' = (child /\ ~ok)
       /\ caller' = IF child' THEN "idle" ELSE "detach"
  /\ UNCHANGED <<flags, thread_stopped, resources, waited, worker, running, kernel>>

(* detach_imu_thread.  rt_thread_detach closes the thread and lists it as   *)
(* defunct whatever its state; a node inserted a second time damages the    *)
(* list.                                                                    *)
DetachThread ==
  /\ Has("caller") /\ caller = "detach" /\ ~imu_thread_detached
  /\ caller' = "execute"
  /\ stat' = "close" /\ worker' = "gone"
  /\ listed' = TRUE
  /\ corrupted' = listed
  /\ UNCHANGED <<flags, thread_stopped, parts, waited, running, type, idle_holds>>

DefunctExecute ==
  /\ Has("caller") /\ caller = "execute"
  /\ listed' = FALSE
  /\ Reap
  /\ imu_thread_detached' = TRUE
  /\ caller' = "parent"
  /\ UNCHANGED <<service_started, thread_should_run, thread_stopped, parts,
                 waited, worker, running, stat, idle_holds>>

CleanupResources ==
  /\ Has("caller") /\ caller = "parent"
  /\ resources' = FALSE
  /\ service_started' = FALSE
  /\ caller' = "idle"
  /\ UNCHANGED <<thread_should_run, thread_stopped, imu_thread_detached, child,
                 waited, worker, running, kernel>>

-----------------------------------------------------------------------------

Init ==
  /\ service_started = FALSE /\ thread_should_run = FALSE
  /\ thread_stopped = FALSE /\ imu_thread_detached = FALSE
  /\ child = FALSE /\ resources = FALSE
  /\ caller = "idle" /\ waited = 0
  /\ worker = "gone" /\ running = "caller"
  /\ stat = "close" /\ type = "null"
  /\ listed = FALSE /\ idle_holds = FALSE /\ corrupted = FALSE

DeinitStep == WaitForStop \/ CleanupChild \/ DetachThread \/ DefunctExecute
                \/ CleanupResources

Next ==
  \/ \E t \in {"worker", "caller", "idle"} : Switch(t)
  \/ DelayEnds
  \/ ReportStopped \/ SuspendSelf \/ ThreadExit
  \/ IdleTakes \/ IdleReaps
  \/ ServiceInit \/ DeinitBegin \/ DeinitStep

Spec == Init /\ [][Next]_vars

(* The tick ends delays, and a caller that is ready gets the core again and *)
(* again, whoever else wants it.  The worker owes nothing: it may be stuck. *)
FairSpec == Spec /\ WF_vars(DelayEnds) /\ SF_vars(Switch("caller"))
                 /\ SF_vars(DeinitStep)
-----------------------------------------------------------------------------
(* Properties *)

TypeOK ==
  /\ service_started \in BOOLEAN /\ thread_should_run \in BOOLEAN
  /\ thread_stopped \in BOOLEAN /\ imu_thread_detached \in BOOLEAN
  /\ child \in BOOLEAN /\ resources \in BOOLEAN
  /\ listed \in BOOLEAN /\ idle_holds \in BOOLEAN /\ corrupted \in BOOLEAN
  /\ caller \in {"idle", "wait", "delay", "child", "detach", "execute", "parent"}
  /\ waited \in 0 .. Timeout
  /\ worker \in {"run", "stopped", "suspended", "gone"}
  /\ running \in {"worker", "caller", "idle"}
  /\ stat \in {"ready", "suspend", "close"}
  /\ type \in {"static", "null"}

(* The logger and the resources of the service are not taken away from a     *)
(* worker that may still use them, however many deinit calls timed out.     *)
WorkerStopsFirst == ~child \/ ~resources => worker # "run"

(* A service that counts as stopped has released everything: logger,         *)
(* resources and thread, also when an earlier deinit failed half way.       *)
StoppedIsReleased ==
  ~service_started => ~child /\ ~resources /\ worker = "gone"

(* deinit returns, after its timeout if the worker is stuck, unless the      *)
(* kernel has been damaged.                                                 *)
DeinitReturns == caller = "wait" ~> caller = "idle" \/ corrupted

(* thread.c:490: rt_thread_detach is only called for a thread object that is *)
(* still a system object.                                                   *)
DetachesSystemObject ==
  caller = "detach" /\ ~imu_thread_detached => type = "static"
=============================================================================
