---- MODULE MCSettings ----
(***************************************************************************)
(* What the settings menu is about, in small instances: the sleep watchdog *)
(* and its setting, the WiFi station interface, and the applications that  *)
(* connect it.  "part" says which a behaviour is about; it never changes,  *)
(* and what the other parts keep stays as it is initially.                 *)
(***************************************************************************)
EXTENDS MCSleepWatchdog, Settings

CONSTANTS n1, n2, p1, p2

VARIABLE part

stationVars == <<driver, events, started, active, requested, connected, reason,
                 conf, reconnects, sta_pc, want, hpc, gil, asked, tries, around>>
appVars == <<file, ssid_g, status_g, sta, app_conf, near, app_pc, names, password,
             untried, untested>>
mcVars == <<part, vars, stationVars, appVars>>

(* A byte of 4 values in place of 256: 2 reconnects are the most it can    *)
(* hold, and 3 come round to "for ever".  Two networks and one row, so     *)
(* that the list scrolls; each has a password that is wrong for the other. *)
MCReconnects == -1 .. 3
MCRight == [n \in {n1, n2} |-> IF n = n1 THEN p1 ELSE p2]

MCInit ==
    /\ part \in {"sleep", "station", "apps"}
    /\ Init /\ W!Init /\ A!Init
    /\ part # "apps" => near = {}

SleepNext == part = "sleep" /\ Next /\ UNCHANGED <<part, stationVars, appVars>>
StationNext == part = "station" /\ W!Next /\ UNCHANGED <<part, vars, appVars>>
AppsNext == part = "apps" /\ A!Next /\ UNCHANGED <<part, vars, stationVars>>
MCNext == SleepNext \/ StationNext \/ AppsNext

(* The fairness of SleepWatchdog and of WlanSta, for the part that runs.   *)
MCSpec ==
    /\ MCInit /\ [][MCNext]_mcVars
    /\ WF_vars(part = "sleep" /\ Tick)
    /\ WF_vars(part = "sleep" /\ Isr)
    /\ WF_vars(part = "sleep" /\ Timeout)
    /\ WF_stationVars(part = "station" /\ W!Handler)
    /\ SF_stationVars(part = "station" /\ W!Proceed)
-----------------------------------------------------------------------------
(* active() comes back (network_wlan.c:291-295).                           *)
ActiveEnds == W!ActiveEnds
====
