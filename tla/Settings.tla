---- MODULE Settings ----
(***************************************************************************)
(* What the settings menu is about: the sleep watchdog and its setting,    *)
(* which this module extends, the WiFi station interface and the           *)
(* applications that connect it.  They share no state: each has variables  *)
(* of its own here, and its properties under the names the runs check.     *)
(***************************************************************************)
EXTENDS SleepWatchdog, FiniteSets

CONSTANTS Width, Reconnects, MaxEvents, MaxTries,  \* of WlanSta
          Network, Password, Right, Rows, None     \* of WifiApps

ASSUME NetworkAssumption == IsFiniteSet(Network)
ASSUME StationAssumption ==
    /\ Width \in Nat \ {0} /\ Reconnects \subseteq Int
    /\ MaxEvents \in Nat /\ MaxTries \in Nat

VARIABLES driver, events, started, active, requested, connected, reason,
          conf, reconnects, sta_pc, want, hpc, gil, asked, tries, around,
          file, ssid_g, status_g, sta, app_conf, near, app_pc, names, password,
          untried, untested

W == INSTANCE WlanSta WITH pc <- sta_pc
A == INSTANCE WifiApps WITH conf <- app_conf, pc <- app_pc
-----------------------------------------------------------------------------
(* With all events handled isconnected() and active() tell the state of    *)
(* the driver (network_wlan.c:83-160), and the station does not decide to  *)
(* try more often than config(reconnects) says (network_wlan.c:147-159,    *)
(* 599), unless the setting or the counter comes round in its byte.        *)
StationInv == W!StationInv

(* No network is stored twice, and the stored password is right unless it  *)
(* was stored without an attempt (wifi_connector.py:56-70, 99-105, 127).   *)
AppsInv == A!AppsInv

(* What is stored is what the station is connected with, unless no attempt *)
(* was made (wifi_connector.py:127-139).                                   *)
StoredWorked == A!StoredWorked

(* "Connected to:" (wifi_connector.py:36) names the station's network.     *)
ConnectedToNamed == A!ConnectedToNamed
====
