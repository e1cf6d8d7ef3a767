--------------------------- MODULE MCServiceThread ---------------------------
(* The lives of the services: how the thread of one is stopped and released, *)
(* step by step of the kernel (ServiceThread), with two ticks of waiting, so *)
(* that the worker stops before, between and after them; and how all of them *)
(* are brought up and taken down (Startup), where every resource may fail to *)
(* come up and every thread to start.  The two share no state: a behaviour   *)
(* follows one of them, its subject, and the other one rests.               *)
EXTENDS ServiceThread, Sequences

CONSTANTS Subjects, MayFail, MayNotStart, FoxgloveDebug

VARIABLES subject, order, should_run, stopped, started, alive, todo, main

U == INSTANCE Startup

startupVars == <<order, should_run, stopped, started, alive, todo, main>>
allVars     == <<subject, vars, startupVars>>

MCInit == subject \in Subjects /\ Init /\ U!Init

ThreadStep  == subject = "thread" /\ Next /\ UNCHANGED <<subject, startupVars>>
StartupStep == subject = "startup" /\ U!Next /\ UNCHANGED <<subject, vars>>

(* After damage to the kernel nothing is said of what comes. *)
Rests == corrupted /\ UNCHANGED allVars

MCNext == ThreadStep \/ StartupStep \/ Rests

(* The fairness of FairSpec; of a part that rests it asks for nothing, its    *)
(* caller having the core and no call to make.                              *)
MCSpec == MCInit /\ [][MCNext]_allVars
            /\ WF_vars(DelayEnds) /\ SF_vars(Switch("caller")) /\ SF_vars(DeinitStep)

(* The resources and the services of Startup, all of them. *)
MCMayNotStart == {"telemetry", "imu", "log", "foxglove"}
MCMayFail     == {"uart", "telemetry_thread", "clock", "event", "imu_thread",
                  "adapter", "queue", "log_thread", "uart1", "foxglove_thread"}
-----------------------------------------------------------------------------
(* What is asked of Startup *)

(* imu_service_init, cleanup_imu_resources: while the data-ready interrupt is *)
(* enabled it finds the clock and the event, a running thread has everything *)
(* it uses, a service that is not up holds nothing, and a failing start     *)
(* gives back in reverse order.                                             *)
StartupOrdered ==
  /\ U!TypeOK /\ U!InterruptHasTargets /\ U!ThreadHasResources
  /\ U!DownHoldsNothing /\ U!ReleasedInReverse

(* main: success only with telemetry and IMU running, nothing up after a      *)
(* failure unless it would not stop.                                        *)
MainIsHonest == U!MainIsHonest
=============================================================================
