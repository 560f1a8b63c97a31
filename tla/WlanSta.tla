---- MODULE WlanSta ----
(***************************************************************************)
(* The WiFi station interface (ports/esp32/network_wlan.c).  Python calls  *)
(* active(), connect(), disconnect() and config(); the driver, a library,  *)
(* posts events; the system-event task handles them one by one, on another *)
(* core, and tries to associate again after a loss.  The flags between the *)
(* two sides are plain variables without a lock.  A second Python thread   *)
(* stands for whoever waits for the GIL.                                   *)
(***************************************************************************)
EXTENDS Integers, Sequences

CONSTANTS Width,       \* values of a uint8_t: 256
          Reconnects,  \* what config(reconnects=...) may be given
          MaxEvents,   \* bound: events posted and not yet handled
          MaxTries     \* bound of the history variable tries

(* Reasons as status() tells them apart: those it always reports (no AP    *)
(* found, wrong password), the user's own disconnect, all others.          *)
Reason == {"NO_AP_FOUND", "OTHER", "ASSOC_LEAVE"}

VARIABLES driver, events,         \* state of the driver; events in order
          started, active,        \* wifi_started, wlan_sta_obj.active
          requested, connected,   \* wifi_sta_connect_requested, _connected
          reason,                 \* wifi_sta_disconn_reason, "NONE" for 0
          conf, reconnects,       \* conf_wifi_sta_reconnects, the counter
          pc, want,               \* the calling thread; active()'s argument
          hpc,                    \* the event handler
          gil,                    \* "main", "other" or "free"
          asked, tries,           \* history: reconnects asked for; attempts since
          around                  \* history: the counter has come round since

wlan == <<started, active, requested, connected, reason>>
retry == <<conf, reconnects, asked, tries, around>>
vars == <<driver, events, wlan, retry, pc, want, hpc, gil>>

Init ==
    /\ driver = "stopped" /\ events = <<>>
    /\ started = FALSE /\ active = FALSE
    /\ requested = FALSE /\ connected = FALSE /\ reason = "NONE"
    /\ conf = 0 /\ reconnects = 0 /\ asked = -1 /\ tries = 0 /\ around = FALSE
    /\ pc = "python" /\ want = FALSE /\ hpc = "wait" /\ gil = "main"

Post(s) == events' = events \o s
Room == Len(events) < MaxEvents
Left(r) == [type |-> "DISCONNECTED", reason |-> r]
Plain(e) == [type |-> e, reason |-> "NONE"]
-----------------------------------------------------------------------------
(* The driver by itself: association succeeds, fails, or is lost.          *)
Associate ==
    /\ driver = "connecting" /\ Room
    /\ driver' = "connected"
    /\ Post(<<Plain("GOT_IP")>>)
    /\ UNCHANGED <<wlan, retry, pc, want, hpc, gil>>

Lose(r) ==
    /\ driver \in {"connecting", "connected"} /\ Room
    /\ driver' = "idle"
    /\ Post(<<Left(r)>>)
    /\ UNCHANGED <<wlan, retry, pc, want, hpc, gil>>

(* esp_wifi_disconnect and esp_wifi_stop end an association.               *)
Leave == IF driver \in {"connecting", "connected"} THEN <<Left("ASSOC_LEAVE")>> ELSE <<>>
-----------------------------------------------------------------------------
(* network_wlan_active, then its loop that waits for the event.            *)
network_wlan_active(on) ==
    /\ pc = "python" /\ Room
    /\ pc' = "activating" /\ want' = on
    /\ started' = on
    /\ driver' = IF ~on THEN (IF started THEN "stopped" ELSE driver)
                 ELSE IF started THEN driver ELSE "idle"
    /\ Post(IF on = started THEN <<>>
            ELSE IF on THEN <<Plain("START")>> ELSE Leave \o <<Plain("STOP")>>)
    /\ UNCHANGED <<active, requested, connected, reason, retry, hpc, gil>>

ActiveReturns ==
    /\ pc = "activating"
    /\ active = want
    /\ pc' = "python"
    /\ UNCHANGED <<driver, events, wlan, retry, want, hpc, gil>>

(* MICROPY_EVENT_POLL_HOOK raises KeyboardInterrupt.                       *)
ActiveInterrupted ==
    /\ pc = "activating"
    /\ pc' = "python"
    /\ UNCHANGED <<driver, events, wlan, retry, want, hpc, gil>>

(* network_wlan_connect up to the call of the driver, made without GIL.    *)
(* The driver takes no configuration while it connects: connect() raises   *)
(* at once if it is given a network.                                       *)
network_wlan_connect(ssid_given) ==
    /\ pc = "python"
    /\ ssid_given => driver # "connecting"
    /\ reconnects' = 0 /\ tries' = 0 /\ around' = FALSE
    /\ pc' = "connecting"
    /\ gil' = "free"
    /\ UNCHANGED <<driver, events, wlan, conf, asked, want, hpc>>

ConnectCall ==
    /\ pc = "connecting"
    /\ driver = "idle"
    /\ driver' = "connecting"
    /\ pc' = "returning"
    /\ UNCHANGED <<events, wlan, retry, want, hpc, gil>>

(* The driver refuses: the exception leaves MP_THREAD_GIL_ENTER out.       *)
ConnectRaises ==
    /\ pc = "connecting"
    /\ driver # "idle"
    /\ pc' = "python"
    /\ UNCHANGED <<driver, events, wlan, retry, want, hpc, gil>>

ConnectReturns ==
    /\ pc = "returning"
    /\ gil = "free"
    /\ gil' = "main"
    /\ requested' = TRUE
    /\ pc' = "python"
    /\ UNCHANGED <<driver, events, started, active, connected, reason, retry, want, hpc>>

network_wlan_disconnect ==
    /\ pc = "python"
    /\ requested' = FALSE
    /\ pc' = "disconnecting"
    /\ UNCHANGED <<driver, events, started, active, connected, reason, retry, want, hpc, gil>>

DisconnectCall ==
    /\ pc = "disconnecting" /\ Room
    /\ driver' = IF driver = "stopped" THEN "stopped" ELSE "idle"
    /\ Post(Leave)
    /\ pc' = "python"
    /\ UNCHANGED <<wlan, retry, want, hpc, gil>>

ConfiguredAs(n) == IF n = -1 THEN 0 ELSE (n + 1) % Width

network_wlan_config(n) ==
    /\ pc = "python"
    /\ conf' = ConfiguredAs(n)
    /\ asked' = n /\ tries' = 0 /\ around' = FALSE
    /\ UNCHANGED <<driver, events, wlan, reconnects, pc, want, hpc, gil>>

(* The other thread runs while the GIL is free.                            *)
OtherThread ==
    /\ \/ gil = "free" /\ gil' = "other"
       \/ gil = "other" /\ gil' = "free"
    /\ UNCHANGED <<driver, events, wlan, retry, pc, want, hpc>>
-----------------------------------------------------------------------------
Handling(type) == hpc = "wait" /\ events # <<>> /\ events[1].type = type

HandleStart ==
    /\ Handling("START")
    /\ events' = Tail(events)
    /\ active' = TRUE
    /\ reconnects' = 0 /\ tries' = 0 /\ around' = FALSE
    /\ UNCHANGED <<driver, started, requested, connected, reason, conf, asked, pc, want,
                   hpc, gil>>

HandleStop_ignored ==
    /\ Handling("STOP")
    /\ events' = Tail(events)
    /\ UNCHANGED <<driver, wlan, retry, pc, want, hpc, gil>>

HandleStop ==
    /\ Handling("STOP")
    /\ events' = Tail(events)
    /\ active' = FALSE
    /\ UNCHANGED <<driver, started, requested, connected, reason, retry, pc, want, hpc, gil>>

HandleGotIp ==
    /\ Handling("GOT_IP")
    /\ events' = Tail(events)
    /\ connected' = TRUE
    /\ reason' = "NONE"
    /\ UNCHANGED <<driver, started, active, requested, retry, pc, want, hpc, gil>>

HandleDisconnected_requested ==
    /\ Handling("DISCONNECTED")
    /\ events' = Tail(events)
    /\ reason' = events[1].reason
    /\ connected' = (connected /\ requested)
    /\ hpc' = "lost"
    /\ UNCHANGED <<driver, started, active, requested, retry, pc, want, gil>>

HandleDisconnected ==
    /\ Handling("DISCONNECTED")
    /\ events' = Tail(events)
    /\ reason' = events[1].reason
    /\ connected' = FALSE
    /\ hpc' = "lost"
    /\ UNCHANGED <<driver, started, active, requested, retry, pc, want, gil>>

CheckRequested ==
    /\ hpc = "lost"
    /\ hpc' = IF requested THEN "count" ELSE "wait"
    /\ UNCHANGED <<driver, events, wlan, retry, pc, want, gil>>

(* The attempt counts from here on, even if connect() or config() come     *)
(* before it is made.                                                      *)
CountRetry ==
    /\ hpc = "count"
    /\ reconnects' = IF conf = 0 THEN reconnects ELSE (reconnects + 1) % Width
    /\ around' = (around \/ (conf # 0 /\ reconnects' = 0))
    /\ \/ conf # 0 /\ reconnects' >= conf /\ hpc' = "wait" /\ UNCHANGED tries
       \/ /\ conf = 0 \/ reconnects' < conf
          /\ hpc' = "retry"
          /\ tries' = IF tries < MaxTries THEN tries + 1 ELSE tries
    /\ UNCHANGED <<driver, events, wlan, conf, asked, pc, want, gil>>

(* esp_wifi_connect by the handler; a refusal is only logged.              *)
Retry ==
    /\ hpc = "retry"
    /\ driver' = IF driver = "idle" THEN "connecting" ELSE driver
    /\ hpc' = "wait"
    /\ UNCHANGED <<events, wlan, retry, pc, want, gil>>

Handler ==
    \/ HandleStart \/ HandleStop \/ HandleGotIp \/ HandleDisconnected
    \/ CheckRequested \/ CountRetry \/ Retry

Calls ==
    \/ \E on \in BOOLEAN : network_wlan_active(on)
    \/ ActiveInterrupted
    \/ \E ssid_given \in BOOLEAN : network_wlan_connect(ssid_given)
    \/ network_wlan_disconnect
    \/ \E n \in Reconnects : network_wlan_config(n)

Proceed == ActiveReturns \/ ConnectCall \/ ConnectRaises \/ ConnectReturns \/ DisconnectCall

Next ==
    \/ Associate \/ (\E r \in Reason \ {"ASSOC_LEAVE"} : Lose(r))
    \/ Calls \/ Proceed \/ OtherThread \/ Handler

(* The event task and the calling thread go on with what they have begun.  *)
Spec == Init /\ [][Next]_vars /\ WF_vars(Handler) /\ SF_vars(Proceed)
-----------------------------------------------------------------------------
(* Type correctness.                                                       *)
TypeOK ==
    /\ driver \in {"stopped", "idle", "connecting", "connected"}
    /\ events \in Seq([type : {"START", "STOP", "GOT_IP", "DISCONNECTED"},
                       reason : Reason \cup {"NONE"}])
    /\ Len(events) <= MaxEvents + 2
    /\ {started, active, requested, connected, want, around} \subseteq BOOLEAN
    /\ reason \in Reason \cup {"NONE"}
    /\ conf \in 0 .. Width - 1 /\ reconnects \in 0 .. Width - 1
    /\ asked \in Reconnects \cup {-1} /\ tries \in 0 .. MaxTries
    /\ pc \in {"python", "activating", "connecting", "returning", "disconnecting"}
    /\ hpc \in {"wait", "lost", "count", "retry"}
    /\ gil \in {"main", "other", "free"}

Quiet == events = <<>> /\ hpc = "wait"

(* What isconnected() and active() go by is out of date only while events  *)
(* wait: with all events handled, whatever their order and the calls in    *)
(* between, they tell the state of the driver.                             *)
FlagsFollowDriver ==
    Quiet => /\ connected <=> driver = "connected"
             /\ active <=> driver # "stopped"
             /\ started = active

(* A station told to try n times again, n >= 0, decides to do so n times   *)
(* at most after a connect(), a start or the config() that said so, over   *)
(* calls and losses in any order; unless n + 1 comes round in the uint8_t  *)
(* it is stored in, so that 255 is "for ever", or the counter itself comes *)
(* round, which losses still to be handled may take past its limit.        *)
RetriesBounded == asked >= 0 /\ conf # 0 /\ ~around => tries <= asked

(* The station interface in one: its flags, its counter and their types.   *)
StationInv == TypeOK /\ FlagsFollowDriver /\ RetriesBounded

(* active() comes back: the event it waits for is on its way.              *)
ActiveEnds == (pc = "activating") ~> (pc = "python")
====
