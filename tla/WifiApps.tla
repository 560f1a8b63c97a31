---- MODULE WifiApps ----
(***************************************************************************)
(* WiFi as the user meets it: boot.py connects to a stored network,        *)
(* wifi_app lists networks, wifi_connector tries a password and stores it, *)
(* network_status reports and disconnects.  The station below them is the  *)
(* one of WlanSta with reconnects = -1: once asked to connect it tries for *)
(* ever, and it refuses a scan and a new configuration while it tries.     *)
(* Networks come and go, power fails at any time; littlefs replaces a file *)
(* when it is closed.  Where the list scrolled to is any window that       *)
(* MenuBuffer's CursorInWindow allows.                                     *)
(***************************************************************************)
EXTENDS Integers, Sequences, SequencesExt

CONSTANTS Network, Password,
          Right,      \* the password each network has
          Rows,       \* rows of the menu
          None

Credential == [ssid : Network, password : Password]

VARIABLES file,           \* wifi.json
          ssid_g, status_g, \* data_bucket
          sta, conf,      \* station: idle, connecting, connected; its network
          near,           \* networks in range
          pc, names, password,  \* application; network_names; what was typed
          untried,        \* history: do_connect returned without an attempt
          untested        \* history: networks stored after such a return

bucket == <<ssid_g, status_g>>
station == <<sta, conf>>
history == <<untried, untested>>
vars == <<file, bucket, station, near, pc, names, password, history>>

Init ==
    /\ file = <<>> /\ ssid_g = None /\ status_g = FALSE
    /\ sta = "idle" /\ conf = [ssid |-> None, password |-> None]
    /\ near \in SUBSET Network
    /\ pc = "boot" /\ names = <<>> /\ password = None
    /\ untried = FALSE /\ untested = {}
-----------------------------------------------------------------------------
(* The station and the world.                                              *)
Associate ==
    /\ sta = "connecting" /\ conf.ssid \in near /\ Right[conf.ssid] = conf.password
    /\ sta' = "connected"
    /\ UNCHANGED <<file, bucket, conf, near, pc, names, password, history>>

Lose ==
    /\ sta = "connected" /\ sta' = "connecting"
    /\ UNCHANGED <<file, bucket, conf, near, pc, names, password, history>>

Roam ==
    /\ near' \in SUBSET Network
    /\ UNCHANGED <<file, bucket, station, pc, names, password, history>>

PowerFails ==
    /\ pc' = "boot" /\ sta' = "idle"
    /\ ssid_g' = None /\ status_g' = FALSE
    /\ names' = <<>> /\ password' = None
    /\ untried' = FALSE
    /\ UNCHANGED <<file, conf, near, untested>>
-----------------------------------------------------------------------------
(* boot.py: the first stored network in range, if any.                     *)
Stored == {i \in DOMAIN file : file[i].ssid \in near}

BootConnect ==
    /\ pc = "boot"
    /\ \/ /\ Stored = {} /\ pc' = "boot_status" /\ UNCHANGED station
       \/ /\ Stored # {} /\ pc' = "boot_wait" /\ sta' = "connecting"
          /\ \E i \in Stored : (\A j \in Stored : i <= j) /\ conf' = file[i]
    /\ UNCHANGED <<file, bucket, near, names, password, history>>

BootWait ==
    /\ pc = "boot_wait"
    /\ pc' = "boot_status"
    /\ ssid_g' = IF sta = "connected" THEN conf.ssid ELSE ssid_g
    /\ UNCHANGED <<file, status_g, station, near, names, password, history>>

BootStatus ==
    /\ pc = "boot_status"
    /\ pc' = "menu"
    /\ status_g' = (sta = "connected")
    /\ UNCHANGED <<file, ssid_g, station, near, names, password, history>>

(* wifi_app: a refused scan gives no names, and a key ends the program.    *)
wifi_app ==
    /\ pc = "menu"
    /\ pc' = "wifi_app"
    /\ names' \in IF sta = "connecting" THEN {<<>>} ELSE SetToSeqs(near)
    /\ UNCHANGED <<file, bucket, station, near, password, history>>

Chosen(cursor, top) == cursor - top

Ok(cursor, top) ==
    /\ pc = "wifi_app"
    /\ cursor \in 0 .. Len(names) - 1 /\ top \in 0 .. cursor
    /\ cursor < top + Rows /\ (top = 0 \/ top + Rows <= Len(names))
    /\ LET i == Chosen(cursor, top) + 1
       IN  IF i \in DOMAIN names
           THEN pc' = "wifi_connector" /\ ssid_g' = names[i]
           ELSE pc' = "stopped" /\ UNCHANGED ssid_g
    /\ UNCHANGED <<file, status_g, station, near, names, password, history>>

KeyWithoutNames ==
    /\ pc = "wifi_app" /\ names = <<>>
    /\ pc' = "stopped"
    /\ UNCHANGED <<file, bucket, station, near, names, password, history>>

Back ==
    /\ pc \in {"wifi_app", "wifi_connector", "connected_page", "error_page", "status_page"}
    /\ pc' = "menu" /\ names' = <<>> /\ password' = None
    /\ untried' = FALSE
    /\ UNCHANGED <<file, bucket, station, near, untested>>

(* do_connect up to its loop; connect() raises while the station tries.    *)
do_connect(p) ==
    /\ pc = "wifi_connector"
    /\ password' = p
    /\ untried' = (sta = "connected")
    /\ \/ sta = "connected" /\ pc' = "connect_done" /\ UNCHANGED station
       \/ sta = "connecting" /\ pc' = "stopped" /\ UNCHANGED station
       \/ /\ sta = "idle" /\ pc' = "connect_done"
          /\ sta' = "connecting" /\ conf' = [ssid |-> ssid_g, password |-> p]
    /\ UNCHANGED <<file, bucket, near, names, untested>>

update_every_credential(c) ==
    IF \E i \in DOMAIN file : file[i].ssid = c.ssid
    THEN [i \in DOMAIN file |-> [file[i] EXCEPT !.password = c.password]]
    ELSE Append(file, c)

update_wifi_credentials(c) ==
    IF \E i \in DOMAIN file : file[i].ssid = c.ssid
    THEN [i \in DOMAIN file |-> IF file[i].ssid = c.ssid THEN c ELSE file[i]]
    ELSE Append(file, c)

Store_always == TRUE
Store == sta = "connected"

(* After the loop, at the last of its polls or earlier.                    *)
ConnectDone ==
    /\ pc = "connect_done"
    /\ status_g' = (sta = "connected")
    /\ file' = IF Store THEN update_wifi_credentials([ssid |-> ssid_g, password |-> password])
               ELSE file
    /\ untested' = IF ~Store THEN untested
                   ELSE IF untried THEN untested \cup {ssid_g} ELSE untested \ {ssid_g}
    /\ pc' = IF sta = "connected" THEN "connected_page" ELSE "error_page"
    /\ UNCHANGED <<ssid_g, station, near, names, password, untried>>

network_status ==
    /\ pc = "menu" /\ pc' = "status_page"
    /\ UNCHANGED <<file, bucket, station, near, names, password, history>>

disconnect_network ==
    /\ pc = "status_page" /\ status_g
    /\ pc' = "menu" /\ sta' = "idle"
    /\ ssid_g' = None /\ status_g' = FALSE
    /\ UNCHANGED <<file, conf, near, names, password, history>>

Next ==
    \/ Associate \/ Lose \/ Roam \/ PowerFails
    \/ BootConnect \/ BootWait \/ BootStatus
    \/ wifi_app \/ KeyWithoutNames \/ Back
    \/ \E cursor, top \in 0 .. Len(names) : Ok(cursor, top)
    \/ \E p \in Password : do_connect(p)
    \/ ConnectDone \/ network_status \/ disconnect_network

Spec == Init /\ [][Next]_vars
-----------------------------------------------------------------------------
(* Type correctness; a network is stored at most once.                     *)
TypeOK ==
    /\ file \in Seq(Credential)
    /\ \A i, j \in DOMAIN file : file[i].ssid = file[j].ssid => i = j
    /\ ssid_g \in Network \cup {None} /\ status_g \in BOOLEAN
    /\ sta \in {"idle", "connecting", "connected"}
    /\ conf \in Credential \cup {[ssid |-> None, password |-> None]}
    /\ near \subseteq Network
    /\ pc \in {"boot", "boot_wait", "boot_status", "menu", "wifi_app", "wifi_connector",
               "connect_done", "connected_page", "error_page", "status_page", "stopped"}
    /\ names \in Seq(Network) /\ password \in Password \cup {None}
    /\ untried \in BOOLEAN /\ untested \subseteq Network

(* What is stored is what the station is connected with, unless do_connect *)
(* made no attempt: a password that does not work, or whose network came   *)
(* and went between the polls, is not stored.                              *)
StoredWorkedStep ==
    file' # file => \/ untried
                    \/ /\ sta = "connected" /\ Right[conf.ssid] = conf.password
                       /\ conf = [ssid |-> ssid_g, password |-> password]
                       /\ conf \in ToSet(file')
StoredWorked == [][StoredWorkedStep]_vars

(* The file holds the right password of every network in it, over attempts *)
(* that fail, networks that go, losses and power failures; except of those *)
(* that were last stored while the station was connected already, when     *)
(* do_connect tries nothing (wifi_connector.py:127).                       *)
StoredRight ==
    \A i \in DOMAIN file :
        file[i].ssid \in untested \/ file[i].password = Right[file[i].ssid]

(* The applications in one: no network is stored twice, and what is stored *)
(* after an attempt is right.                                              *)
AppsInv == TypeOK /\ StoredRight

(* "Connected to:" and a name (wifi_connector.py:36-37): the network that  *)
(* the station is connected to, or was when the page was shown, is the one *)
(* named.                                                                  *)
ConnectedToNamed == pc = "connected_page" => conf.ssid = ssid_g
====
