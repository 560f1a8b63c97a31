---- MODULE Callbacks ----
(***************************************************************************)
(* The scheduler of callbacks, which this module extends, and              *)
(* machine.Timer, whose interrupts hand callbacks to the queue that the    *)
(* scheduler is shown to implement.  They share no state: the timers have  *)
(* variables of their own here, and their invariant under the name the     *)
(* runs check.                                                             *)
(***************************************************************************)
EXTENDS Scheduler

CONSTANTS Timer, TimerDepth   \* the timers; the depth of their queue

ASSUME TimerAssumption == None \notin Timer /\ TimerDepth \in Nat \ {0}

VARIABLES listed, repeat, timer_callback, handle, intr, counter, alarm, int_ena,
          status, due, timer_pc, self, todo, waiting, accepted, ran

T == INSTANCE MachineTimer WITH
        Depth <- TimerDepth, callback <- timer_callback, pc <- timer_pc
-----------------------------------------------------------------------------
(* No alarm calls the callback of a later configuration of its timer       *)
(* (machine_timer.c:163-186), and no interrupt is left whose timer object  *)
(* is gone (machine_timer.c:54-63, 251-257).                               *)
TimersSound == T!TimersSound
====
