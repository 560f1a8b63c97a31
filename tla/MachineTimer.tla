---- MODULE MachineTimer ----
(***************************************************************************)
(* machine.Timer (ports/esp32/machine_timer.c) and its interrupt.  The     *)
(* main thread stops, configures and starts a timer register by register;  *)
(* the alarm's interrupt preempts it anywhere and hands the callback to    *)
(* the scheduler, used here by what CallbackQueue promises.  Periods are   *)
(* left out: an alarm that is due may fire at any time.                    *)
(***************************************************************************)
EXTENDS Integers, Sequences

CONSTANTS Timer,   \* hardware timers; each has at most one object
          Func,    \* callbacks
          Depth,   \* MICROPY_SCHEDULER_DEPTH
          None

VARIABLES listed,                          \* timers with an object
          repeat, callback,                \* fields of the object
          handle, intr,                    \* interrupt allocated; enabled
          counter, alarm, int_ena, status, \* the registers
          due,       \* history: the callback in force when the alarm fired
          pc, self, todo,   \* the main thread: step, timer, what it came for
          waiting, accepted, \* the scheduler's queue and its last answer
          ran        \* history: the timer whose callback ran last

fields == <<repeat, callback>>
regs == <<counter, alarm, int_ena, status, due>>
queue == <<waiting, accepted>>
vars == <<listed, fields, handle, intr, regs, pc, self, todo, queue, ran>>

Event == [fun : Func, timer : Timer, due : Func]

Q == INSTANCE CallbackQueue WITH Func <- Event

Off == [t \in Timer |-> FALSE]

Init ==
    /\ listed = {}
    /\ repeat = Off /\ callback = [t \in Timer |-> None]
    /\ handle = Off /\ intr = Off
    /\ counter = Off /\ alarm = Off /\ int_ena = Off /\ status = Off
    /\ due = [t \in Timer |-> None]
    /\ pc = "python" /\ self = None /\ todo = "none"
    /\ waiting = <<>> /\ accepted = TRUE
    /\ ran = None
-----------------------------------------------------------------------------
(* The hardware: an alarm fires once, its counter goes on.                 *)
Fire(t) ==
    /\ counter[t] /\ alarm[t]
    /\ status' = [status EXCEPT ![t] = TRUE]
    /\ alarm' = [alarm EXCEPT ![t] = FALSE]
    /\ due' = [due EXCEPT ![t] = callback[t]]
    /\ UNCHANGED <<listed, fields, handle, intr, counter, int_ena, pc, self, todo, queue, ran>>

Rearm(t) == alarm' = [alarm EXCEPT ![t] = repeat[t] \/ alarm[t]]

(* machine_timer_isr with machine_timer_isr_handler: a full queue refuses  *)
(* the callback and the handler does not look at the answer.               *)
machine_timer_isr(t) ==
    /\ status[t] /\ int_ena[t] /\ handle[t] /\ intr[t]
    /\ status' = [status EXCEPT ![t] = FALSE]
    /\ Rearm(t)
    /\ Q!Accept([fun |-> callback[t], timer |-> t, due |-> due[t]]) \/ Q!Refuse
    /\ due' = [due EXCEPT ![t] = None]
    /\ UNCHANGED <<listed, fields, handle, intr, counter, int_ena, pc, self, todo, ran>>

(* The virtual machine runs the oldest callback.                           *)
RunCallback ==
    /\ pc = "python"
    /\ Q!Take
    /\ ran' = waiting[1].timer
    /\ UNCHANGED <<listed, fields, handle, intr, regs, pc, self, todo>>
-----------------------------------------------------------------------------
Goto(from, to) == pc = from /\ pc' = to

(* Timer(t) and t.init(): machine_timer_create, machine_timer_init_helper. *)
machine_timer_init(t) ==
    /\ Goto("python", "stop")
    /\ self' = t /\ todo' = "init"
    /\ listed' = listed \cup {t}
    /\ UNCHANGED <<fields, handle, intr, regs, queue, ran>>

machine_timer_deinit(t) ==
    /\ t \in listed
    /\ Goto("python", "stop")
    /\ self' = t /\ todo' = "deinit"
    /\ UNCHANGED <<listed, fields, handle, intr, regs, queue, ran>>

(* machine_timer_disable: counter and alarm, then the interrupt.  (A new   *)
(* object leaves the registers alone; its counter does not run anyway.)    *)
StopCounter ==
    /\ Goto("stop", "mask")
    /\ counter' = [counter EXCEPT ![self] = FALSE]
    /\ alarm' = [alarm EXCEPT ![self] = FALSE]
    /\ UNCHANGED <<listed, fields, handle, intr, int_ena, status, due, self, todo, queue, ran>>

DisableInterrupt ==
    /\ Goto("mask", IF todo = "init" THEN "parse" ELSE "free")
    /\ intr' = [intr EXCEPT ![self] = FALSE]
    /\ UNCHANGED <<listed, fields, handle, regs, self, todo, queue, ran>>

(* Bad arguments: the timer stays disabled.                                *)
ParseFails ==
    /\ Goto("parse", "python")
    /\ self' = None /\ todo' = "none"
    /\ UNCHANGED <<listed, fields, handle, intr, regs, queue, ran>>

Configure(f, r) ==
    /\ Goto("parse", "clear")
    /\ callback' = [callback EXCEPT ![self] = f]
    /\ repeat' = [repeat EXCEPT ![self] = r]
    /\ UNCHANGED <<listed, handle, intr, regs, self, todo, queue, ran>>

ClearStatus_kept ==
    /\ Goto("clear", "unmask")
    /\ counter' = [counter EXCEPT ![self] = FALSE]
    /\ int_ena' = [int_ena EXCEPT ![self] = FALSE]
    /\ UNCHANGED <<listed, fields, handle, intr, alarm, status, due, self, todo, queue, ran>>

(* machine_timer_enable in four steps.                                     *)
ClearStatus ==
    /\ Goto("clear", "unmask")
    /\ counter' = [counter EXCEPT ![self] = FALSE]
    /\ int_ena' = [int_ena EXCEPT ![self] = FALSE]
    /\ status' = [status EXCEPT ![self] = FALSE]
    /\ due' = [due EXCEPT ![self] = None]
    /\ UNCHANGED <<listed, fields, handle, intr, alarm, self, todo, queue, ran>>

EnableInterrupt ==
    /\ Goto("unmask", "allow")
    /\ handle' = [handle EXCEPT ![self] = TRUE]
    /\ intr' = [intr EXCEPT ![self] = TRUE]
    /\ UNCHANGED <<listed, fields, regs, self, todo, queue, ran>>

AllowAlarm_not ==
    /\ Goto("allow", "start")
    /\ UNCHANGED <<listed, fields, handle, intr, regs, self, todo, queue, ran>>

AllowAlarm ==
    /\ Goto("allow", "start")
    /\ int_ena' = [int_ena EXCEPT ![self] = TRUE]
    /\ UNCHANGED <<listed, fields, handle, intr, counter, alarm, status, due, self, todo, queue, ran>>

StartCounter ==
    /\ Goto("start", "python")
    /\ alarm' = [alarm EXCEPT ![self] = TRUE]
    /\ counter' = [counter EXCEPT ![self] = TRUE]
    /\ self' = None /\ todo' = "none"
    /\ UNCHANGED <<listed, fields, handle, intr, int_ena, status, due, queue, ran>>

(* The end of machine_timer_deinit.                                        *)
FreeInterrupt ==
    /\ Goto("free", IF todo = "deinit" THEN "python" ELSE "next")
    /\ handle' = [handle EXCEPT ![self] = FALSE]
    /\ IF todo = "deinit" THEN listed' = listed /\ self' = None /\ todo' = "none"
       ELSE listed' = listed \ {self} /\ self' = None /\ UNCHANGED todo
    /\ UNCHANGED <<fields, intr, regs, queue, ran>>
-----------------------------------------------------------------------------
(* A soft reset: machine_timer_deinit_all, later a new scheduler queue.    *)
SoftReset ==
    /\ Goto("python", "next")
    /\ todo' = "reset"
    /\ UNCHANGED <<listed, fields, handle, intr, regs, self, queue, ran>>

NextTimer(t) ==
    /\ t \in listed
    /\ Goto("next", "stop")
    /\ self' = t
    /\ UNCHANGED <<listed, fields, handle, intr, regs, todo, queue, ran>>

Rebooted ==
    /\ Goto("next", "python")
    /\ listed = {}
    /\ todo' = "none"
    /\ Q!Discard
    /\ UNCHANGED <<listed, fields, handle, intr, regs, self, ran>>

(* What the main thread has begun.                                         *)
Proceed ==
    \/ StopCounter \/ DisableInterrupt \/ FreeInterrupt
    \/ ParseFails \/ (\E f \in Func, r \in BOOLEAN : Configure(f, r))
    \/ ClearStatus \/ EnableInterrupt \/ AllowAlarm \/ StartCounter
    \/ (\E t \in Timer : NextTimer(t)) \/ Rebooted

Next ==
    \/ \E t \in Timer : \/ Fire(t) \/ machine_timer_isr(t)
                        \/ machine_timer_init(t) \/ machine_timer_deinit(t)
    \/ RunCallback \/ SoftReset \/ Proceed

(* Time passes, interrupts are served, C code returns; the virtual machine *)
(* polls whenever it is back in Python.                                    *)
Fairness ==
    /\ \A t \in Timer : WF_vars(Fire(t)) /\ WF_vars(machine_timer_isr(t))
    /\ SF_vars(RunCallback)
    /\ WF_vars(Proceed)

Spec == Init /\ [][Next]_vars
FairSpec == Spec /\ Fairness
-----------------------------------------------------------------------------
(* Type correctness.                                                       *)
TypeOK ==
    /\ listed \subseteq Timer
    /\ \A b \in {repeat, handle, intr, counter, alarm, int_ena, status} :
           b \in [Timer -> BOOLEAN]
    /\ callback \in [Timer -> Func \cup {None}] /\ due \in [Timer -> Func \cup {None}]
    /\ pc \in {"python", "stop", "mask", "parse", "clear", "unmask", "allow", "start",
               "free", "next"}
    /\ self \in Timer \cup {None}
    /\ todo \in {"none", "init", "deinit", "reset"}
    /\ Len(waiting) <= Depth /\ \A i \in 1 .. Len(waiting) : waiting[i] \in Event
    /\ accepted \in BOOLEAN /\ ran \in Timer \cup {None}

(* An alarm calls the callback it was set for: one left over from before a *)
(* new init() never calls the new callback, at whatever point of           *)
(* machine_timer_disable and machine_timer_enable it fired.                *)
AlarmCallsItsCallback == \A i \in 1 .. Len(waiting) : waiting[i].fun = waiting[i].due

(* An interrupt is allocated only to a timer object that exists, and a     *)
(* timer outside of any call is either running or cannot interrupt.        *)
InterruptHasOwner ==
    /\ \A t \in Timer : handle[t] => t \in listed
    /\ \A t \in Timer : intr[t] => handle[t]
    /\ \A t \in Timer : self # t /\ ~counter[t] => ~intr[t]

(* The three together: what the interrupt finds is consistent at every     *)
(* step of the main thread.                                                *)
TimersSound == TypeOK /\ AlarmCallsItsCallback /\ InterruptHasOwner

(* An armed timer's callback runs, unless the timer is stopped first or    *)
(* the queue was full when the alarm came.                                 *)
AlarmServed ==
    \A t \in Timer : (counter[t] /\ alarm[t]) ~> (ran = t \/ ~counter[t] \/ ~accepted)

(* A periodic timer does not stop by itself, whatever else interrupts.     *)
PeriodicGoesOn ==
    \A t \in Timer : (counter[t] /\ repeat[t]) ~> (alarm[t] \/ ~counter[t])

(* Alarms are served, and periodic ones again and again.                   *)
TimersServe == AlarmServed /\ PeriodicGoesOn
====
