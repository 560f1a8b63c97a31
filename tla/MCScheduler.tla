---- MODULE MCScheduler ----
(***************************************************************************)
(* A small instance of Scheduler, a ring of two, two callbacks of either   *)
(* kind and two polling threads, and one of MachineTimer.  "part" says     *)
(* which of the two a behaviour is about; it never changes, and what the   *)
(* other one keeps stays as it is initially.                               *)
(***************************************************************************)
EXTENDS Callbacks

CONSTANTS f1, f2, n1, n2, t1, t2, timer1, timer2

MCFunc == {f1, f2}
MCNode == {n1, n2}
MCThread == {t1, t2}
MCTimer == {timer1, timer2}

VARIABLE part

timerVars == <<listed, repeat, timer_callback, handle, intr, counter, alarm, int_ena,
               status, due, timer_pc, self, todo, waiting, accepted, ran>>
mcVars == <<part, vars, timerVars>>

MCInit == part \in {"scheduler", "two timers", "one timer"} /\ Init /\ T!Init

SchedulerNext == part = "scheduler" /\ Next /\ UNCHANGED <<part, timerVars>>

(* The program uses two timers with one callback, or one with two.         *)
TimerNext ==
    /\ T!Next /\ UNCHANGED <<part, vars>>
    /\ \/ part = "two timers" /\ \A m \in MCTimer : timer_callback'[m] # f2
       \/ part = "one timer" /\ timer2 \notin listed'

MCNext == SchedulerNext \/ TimerNext

(* Fairness and T!Fairness, for the part that runs.                        *)
MCFairness ==
    /\ WF_vars(part = "scheduler" /\ mp_sched_unlock)
    /\ SF_vars(part = "scheduler" /\ \E t \in Thread : SeePending(t))
    /\ SF_vars(part = "scheduler" /\ \E t \in Thread : LockAndRun(t))
    /\ \A t \in MCThread : WF_vars(part = "scheduler" /\ GoOn(t))
    /\ \A m \in MCTimer :
         /\ WF_timerVars(part = "two timers" /\ T!Fire(m))
         /\ WF_timerVars(part = "two timers" /\ T!machine_timer_isr(m))
    /\ SF_timerVars(part = "two timers" /\ T!RunCallback)
    /\ WF_timerVars(part = "two timers" /\ T!Proceed)

MCSpec == MCInit /\ [][MCNext]_mcVars /\ MCFairness
-----------------------------------------------------------------------------
(* The progress of MachineTimer.  Timers are interchangeable: it is looked *)
(* at for one of them.                                                     *)

(* An armed alarm gets its callback run, unless the timer is stopped or    *)
(* the queue refuses it (machine_timer.c:144-161); a periodic timer that   *)
(* runs is armed again after every alarm (machine_timer.c:151-153).        *)
TimersServe ==
    /\ (part = "two timers" /\ counter[timer1] /\ alarm[timer1])
           ~> (ran = timer1 \/ ~counter[timer1] \/ ~accepted)
    /\ (part = "two timers" /\ counter[timer1] /\ repeat[timer1])
           ~> (alarm[timer1] \/ ~counter[timer1])
====
