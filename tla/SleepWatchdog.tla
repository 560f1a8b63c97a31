---- MODULE SleepWatchdog ----
(***************************************************************************)
(* The automatic sleep of the calculator: the one-shot hardware timer      *)
(* (ports/esp32/machine_timer.c), the soft watchdog on top of it           *)
(* (lib/soft_watch_dog_timer.py), the key reader that feeds it             *)
(* (process_modules/typer.py), the setting kept in db/settings.json        *)
(* (lib/sleeping_features.py) and the form that changes it                 *)
(* (apps/settings/sleep_after.py).  Time advances in ticks of one          *)
(* millisecond; the timer's interrupt only schedules the callback, which   *)
(* runs at a later poll of the virtual machine.                            *)
(***************************************************************************)
EXTENDS Integers

CONSTANTS WordMin, WordMax,  \* range of a machine word: -2^31 and 2^31 - 1
          MsPerMinute,       \* 60000
          MaxMinutes,        \* 14400, the largest minutes the form accepts
          Entries,           \* what the form may hold when "ok" is pressed
          NotANumber,        \* an entry int() rejects
          InitialSetting,    \* the setting the device is shipped with
          MaxIdle            \* bound of the clock

ASSUME WordAssumption == /\ WordMin \in Int /\ WordMax \in Nat
                         /\ WordMin < 0
                         /\ MaxIdle \in Nat /\ MaxIdle >= WordMax
ASSUME FormAssumption == /\ MsPerMinute \in Nat \ {0} /\ MaxMinutes \in Nat
                         /\ MaxMinutes * MsPerMinute <= WordMax
                         /\ Entries \subseteq Int \cup {NotANumber}
                         /\ NotANumber \notin Int
ASSUME SettingAssumption == InitialSetting \in 0 .. WordMax

VARIABLES stored,      \* "sleep_timer" in db/settings.json, survives a reset
          timeout_ms,  \* swdt.timeout_ms
          alarm,       \* ticks until the timer's alarm, Never, or Off when
                       \* counter, alarm and interrupt are disabled
          queued,      \* _timeout in the scheduler's queue: "no", "fresh", or
                       \* "stale" when the watchdog was fed after it fired
          idle,        \* ticks since the watchdog was last fed
          stopped,     \* start_typing's handler stopped the watchdog
          message,     \* third line of the sleep_after form
          pc           \* where the main thread is

vars == <<stored, timeout_ms, alarm, queued, idle, stopped, message, pc>>

Never == -1
Off == -2

InWord(n) == WordMin <= n /\ n <= WordMax

(* The alarm for a period.  A negative period becomes, as an unsigned      *)
(* number of timer ticks, a time that does not come.                       *)
AlarmAfter(ms) == IF ms < 0 THEN Never ELSE ms

(* Does timer.init(period=ms) raise OverflowError?  It has already         *)
(* disabled the timer when it does.                                        *)
InitRaises(ms) == ~InWord(ms)

Init ==
    /\ stored = InitialSetting
    /\ timeout_ms = 0
    /\ alarm = Off
    /\ queued = "no"
    /\ idle = 0
    /\ stopped = FALSE
    /\ message = "none"
    /\ pc = "boot"
-----------------------------------------------------------------------------
(* timer.deinit() and timer.init(): a callback the old timer scheduled     *)
(* stays in the scheduler's queue.                                         *)
Restart(ms) ==
    /\ alarm' = IF InitRaises(ms) THEN Off ELSE AlarmAfter(ms)
    /\ queued' = IF queued = "fresh" THEN "stale" ELSE queued
    /\ idle' = 0

(* swdt.stop(): timer.deinit() alone.                                      *)
Stop ==
    /\ alarm' = Off
    /\ stopped' = TRUE
    /\ UNCHANGED <<queued, idle>>

(* Import of sleeping_features by boot.py: the watchdog starts with the    *)
(* stored setting.  If that raises boot.py ends and so main.py never runs. *)
SettingAtBoot == stored

Boot ==
    /\ pc = "boot"
    /\ timeout_ms' = SettingAtBoot
    /\ alarm' = IF InitRaises(SettingAtBoot) THEN Off ELSE AlarmAfter(SettingAtBoot)
    /\ pc' = IF InitRaises(SettingAtBoot) THEN "repl" ELSE "run"
    /\ UNCHANGED <<stored, queued, idle, stopped, message>>

(* Power loss, reset button or wake-up: everything but the file is lost.   *)
Reset ==
    /\ pc # "boot"
    /\ pc' = "boot"
    /\ alarm' = Off
    /\ queued' = "no"
    /\ timeout_ms' = 0 /\ idle' = 0
    /\ stopped' = FALSE /\ message' = "none"
    /\ UNCHANGED stored
-----------------------------------------------------------------------------
(* Time passes, until the alarm is due.                                    *)
Tick ==
    /\ pc \notin {"boot", "asleep"}
    /\ alarm # 0
    /\ alarm' = IF alarm > 0 THEN alarm - 1 ELSE alarm
    /\ idle' = IF idle < MaxIdle THEN idle + 1 ELSE idle
    /\ UNCHANGED <<stored, timeout_ms, queued, stopped, message, pc>>

(* machine_timer_isr: one shot, schedules _timeout.                        *)
Isr ==
    /\ alarm = 0
    /\ alarm' = Off
    /\ queued' = IF queued = "stale" THEN "stale" ELSE "fresh"
    /\ UNCHANGED <<stored, timeout_ms, idle, stopped, message, pc>>

(* test_deep_sleep_awake: hold the wake-up pins and enter deep sleep.      *)
DeepSleep ==
    /\ pc' = "asleep"
    /\ alarm' = Off /\ queued' = "no"
    /\ UNCHANGED <<stored, timeout_ms, idle, stopped, message>>

FeedsInsteadOfSleeping ==
    /\ queued # "no"
    /\ alarm' = IF InitRaises(timeout_ms) THEN Off ELSE AlarmAfter(timeout_ms)
    /\ queued' = "no" /\ idle' = 0
    /\ UNCHANGED <<stored, timeout_ms, stopped, message, pc>>

(* The scheduler calls _timeout, at a poll of the virtual machine.         *)
Timeout ==
    /\ queued # "no"
    /\ DeepSleep

IgnoresPending == TRUE

(* Leaving a stretch of code that polls: what waited when the stretch was  *)
(* entered has run.                                                        *)
Polled == queued # "stale"
-----------------------------------------------------------------------------
(* keypad_loop returned a key.                                             *)
ReadKey ==
    /\ pc = "scan"
    /\ pc' = "pressed"
    /\ UNCHANGED <<stored, timeout_ms, alarm, queued, idle, stopped, message>>

(* swdt.feed() by start_typing.                                            *)
Feed ==
    /\ pc = "pressed"
    /\ ~InitRaises(timeout_ms)
    /\ Restart(timeout_ms)
    /\ stopped' = FALSE
    /\ pc' = "fed"
    /\ UNCHANGED <<stored, timeout_ms, message>>

(* feed() raises in start_typing: the handler stops the watchdog and the   *)
(* app gets None for a key.                                                *)
FeedRaises ==
    /\ pc = "pressed"
    /\ InitRaises(timeout_ms)
    /\ Stop
    /\ pc' = "run"
    /\ UNCHANGED <<stored, timeout_ms, message>>

(* Any other exception in start_typing, such as KeyboardInterrupt.         *)
StartTypingRaises ==
    /\ pc \in {"scan", "pressed", "fed"}
    /\ Stop
    /\ pc' = "run"
    /\ UNCHANGED <<stored, timeout_ms, message>>

OffKey ==
    /\ pc = "fed"
    /\ DeepSleep

ReturnKey ==
    /\ pc = "fed"
    /\ Polled
    /\ pc' = "app"
    /\ UNCHANGED <<stored, timeout_ms, alarm, queued, idle, stopped, message>>
-----------------------------------------------------------------------------
(* The main thread is in "app" with a key to handle, in "run" without one: *)
(* after boot.py, or when start_typing returned None.  An app other than   *)
(* sleep_after, or sleep_after opening, goes on to the next key.           *)
OtherApp ==
    /\ pc \in {"app", "run"}
    /\ Polled
    /\ message' = "none"
    /\ pc' = "scan"
    /\ UNCHANGED <<stored, timeout_ms, alarm, queued, idle, stopped>>

(* sleep_after handles a key that edits the form, or None.                 *)
FormEdit ==
    /\ pc \in {"app", "run"}
    /\ Polled
    /\ message' = IF message = "updated" THEN "none" ELSE message
    /\ pc' = "scan"
    /\ UNCHANGED <<stored, timeout_ms, alarm, queued, idle, stopped>>

(* sleep_after handles "alpha" or "beta".                                  *)
FormShift ==
    /\ pc = "app"
    /\ Polled
    /\ UNCHANGED message
    /\ pc' = "scan"
    /\ UNCHANGED <<stored, timeout_ms, alarm, queued, idle, stopped>>

(* An exception nobody catches ends app_handler, and main.py with it.      *)
AppRaises ==
    /\ pc \in {"app", "run"}
    /\ pc' = "repl"
    /\ UNCHANGED <<stored, timeout_ms, alarm, queued, idle, stopped, message>>

OkRejected(e, text) ==
    /\ pc = "app"
    /\ Polled
    /\ message' = text
    /\ pc' = "scan"
    /\ UNCHANGED <<stored, timeout_ms, alarm, queued, idle, stopped>>

OkNotANumber(e) == e = NotANumber /\ OkRejected(e, "wrong")
OkTooLarge(e) ==
    /\ e # NotANumber
    /\ e > MaxMinutes
    /\ OkRejected(e, "maximum")

(* "ok" with an acceptable time: db.update commits the new file.           *)
OkStore(e) ==
    /\ pc = "app"
    /\ Polled
    /\ e # NotANumber
    /\ e <= MaxMinutes
    /\ stored' = e * MsPerMinute
    /\ pc' = "stored"
    /\ UNCHANGED <<timeout_ms, alarm, queued, idle, stopped, message>>

StopsInsteadOfFeeding(ms) ==
    /\ alarm' = Off
    /\ idle' = 0 /\ UNCHANGED queued
FeedAfterUpdate(ms) == Restart(ms)

KeepsOldTimeout == timeout_ms
NewTimeout == stored

(* swdt.update_time(): the new timeout is in force from now on.            *)
UpdateTime ==
    /\ pc = "stored"
    /\ timeout_ms' = NewTimeout
    /\ FeedAfterUpdate(NewTimeout)
    /\ pc' = "told"
    /\ message' = IF InitRaises(NewTimeout) THEN "wrong"
                  ELSE "updated"
    /\ UNCHANGED <<stored, stopped>>

(* The form is painted and the next key is read.                           *)
Refresh ==
    /\ pc = "told"
    /\ Polled
    /\ pc' = "scan"
    /\ UNCHANGED <<stored, timeout_ms, alarm, queued, idle, stopped, message>>

Ok(e) == OkNotANumber(e) \/ OkTooLarge(e) \/ OkStore(e)

Next ==
    \/ Boot \/ Reset
    \/ Tick \/ Isr \/ Timeout
    \/ ReadKey \/ Feed \/ FeedRaises \/ StartTypingRaises \/ OffKey \/ ReturnKey
    \/ OtherApp \/ FormEdit \/ FormShift \/ AppRaises
    \/ \E e \in Entries : Ok(e)
    \/ UpdateTime \/ Refresh

Spec == Init /\ [][Next]_vars

(* Time passes, the interrupt and the scheduled callback are served.       *)
Fairness == WF_vars(Tick) /\ WF_vars(Isr) /\ WF_vars(Timeout)

FairSpec == Spec /\ Fairness
-----------------------------------------------------------------------------
(* Type invariant of the watchdog, its timer and its setting.              *)
TypeOK ==
    /\ stored \in Int
    /\ timeout_ms \in Int
    /\ alarm \in Nat \cup {Never, Off}
    /\ queued \in {"no", "fresh", "stale"}
    /\ idle \in 0 .. MaxIdle
    /\ stopped \in BOOLEAN
    /\ message \in {"none", "updated", "maximum", "wrong"}
    /\ pc \in {"boot", "scan", "pressed", "fed", "app", "stored", "told", "run", "repl",
              "asleep"}

Awake == pc \notin {"boot", "asleep"}

(* The device never stays awake for want of a watchdog: while it is awake  *)
(* the timer runs or the timeout is already scheduled, unless start_typing *)
(* stopped the watchdog on an exception (typer.py:9-19) or the setting is  *)
(* one timer.init() rejects (soft_watch_dog_timer.py:18-27).               *)
NeverSilentlyDisarmed ==
    Awake => alarm # Off \/ queued # "no" \/ stopped \/ InitRaises(timeout_ms)

(* Outside of update_sleep_time the file, the watchdog's timeout and the   *)
(* running timer agree, over resets at any moment                          *)
(* (sleeping_features.py:22-29).                                           *)
SettingInForce ==
    Awake /\ pc # "stored" =>
        /\ timeout_ms = stored
        /\ alarm = Never => stored < 0
        /\ alarm \notin {Never, Off} => alarm = stored - idle

(* The timeout that runs while keys are awaited is due: nobody pressed a   *)
(* key for the whole of the setting, though the callback may have been     *)
(* scheduled while a key was being handled (machine_timer.c:144-161,       *)
(* 247-257).                                                               *)
TimeoutIsDue == pc = "scan" /\ queued # "no" => 0 <= stored /\ stored <= idle

(* An awake device that nobody touches falls asleep, unless the setting is *)
(* a time that never comes or an exception stopped the watchdog.           *)
IdleSleeps == ~<>[](Awake /\ timeout_ms >= 0 /\ ~stopped /\ pc \in {"scan", "repl"})

(* "wrong input" is what the form answers when it does not take an entry   *)
(* (sleep_after.py:42-45): the file still holds the timeout that was in    *)
(* force before.                                                           *)
WrongInputTakesNothing ==
    [][(/\ pc \in {"app", "stored"}
        /\ pc' \in {"scan", "told"}
        /\ message' = "wrong") => stored' = timeout_ms]_vars
=============================================================================
