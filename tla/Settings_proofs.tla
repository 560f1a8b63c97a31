---- MODULE Settings_proofs ----
(***************************************************************************)
(* Proofs about what the settings menu is about: SleepWatchdog for every   *)
(* word size, every bound of the form and every entry a user may type;     *)
(* WifiApps and WlanSta for all networks, passwords and events.            *)
(***************************************************************************)
EXTENDS Settings, Sequences, FiniteSetTheorems, TLAPS

(* Without power there is no timer and nothing is scheduled.               *)
DarkIsQuiet == ~Awake => alarm = Off /\ queued = "no"
BootIsClean == pc = "boot" => idle = 0

(* A running timer counts the watchdog's own timeout down, even while a    *)
(* new setting is in the file and not yet in force.                        *)
TimerCounts ==
    alarm # Off => /\ InWord(timeout_ms)
                   /\ timeout_ms < 0 => alarm = Never
                   /\ timeout_ms >= 0 => alarm = timeout_ms - idle /\ alarm >= 0

Loaded == Awake /\ pc # "stored" => timeout_ms = stored

(* Where a timeout may wait: a fresh one is due, a stale one is met by a   *)
(* poll before keys are scanned again.                                     *)
FreshIsDue == queued = "fresh" => 0 <= timeout_ms /\ timeout_ms <= idle
StaleIsBrief == queued = "stale" => pc \in {"fed", "told", "run", "repl"}

IInv ==
    /\ TypeOK
    /\ DarkIsQuiet
    /\ BootIsClean
    /\ TimerCounts
    /\ Loaded
    /\ FreshIsDue
    /\ StaleIsBrief
    /\ NeverSilentlyDisarmed

USE DEF Never, Off, InWord, AlarmAfter, InitRaises, Awake
-----------------------------------------------------------------------------
(* The device as it is switched on.                                        *)
LEMMA InitIInv == Init => IInv
<1> SUFFICES ASSUME Init PROVE IInv
  OBVIOUS
<1>1. stopped \in BOOLEAN
  BY DEF Init
<1>2. /\ pc = "boot" /\ alarm = Off /\ queued = "no" /\ message = "none"
      /\ timeout_ms = 0 /\ idle = 0 /\ stored \in Int
  BY WordAssumption, SettingAssumption DEF Init
<1> QED
  BY ONLY <1>1, <1>2, WordAssumption
  
     DEF IInv, Never, Off, InWord, AlarmAfter, InitRaises, Awake, TypeOK,
         DarkIsQuiet, BootIsClean, TimerCounts, Loaded,
       FreshIsDue, StaleIsBrief, NeverSilentlyDisarmed

(* A time the form accepts is an integer.                                  *)
LEMMA AcceptedIsInt ==
    ASSUME NEW e \in Entries, e # NotANumber
    PROVE  e * MsPerMinute \in Int
BY FormAssumption

(* Every step of the timer, the interpreter, the key reader and the apps   *)
(* preserves the invariant.                                                *)
LEMMA NextIInv == IInv /\ [Next]_vars => IInv'
<1> SUFFICES ASSUME IInv, [Next]_vars PROVE IInv'
  OBVIOUS
<1> USE WordAssumption
<1> USE DEF IInv, TypeOK, DarkIsQuiet, BootIsClean, TimerCounts, Loaded,
            FreshIsDue, StaleIsBrief, NeverSilentlyDisarmed
<1>1. CASE Boot
  BY <1>1 DEF Boot, SettingAtBoot
<1>2. CASE Reset
  <2>1. stopped' \in BOOLEAN
    BY <1>2 DEF Reset
  <2>2. /\ pc' = "boot" /\ alarm' = Off /\ queued' = "no" /\ message' = "none"
        /\ timeout_ms' = 0 /\ idle' = 0 /\ stored' = stored
    BY <1>2 DEF Reset
  <2> QED
    BY <2>1, <2>2
<1>3. CASE Tick
  BY <1>3 DEF Tick
<1>4. CASE Isr
  BY <1>4 DEF Isr
<1>5. CASE Timeout
  BY <1>5 DEF Timeout, DeepSleep
<1>6. CASE ReadKey
  BY <1>6 DEF ReadKey
<1>7. CASE Feed
  <2>1. stopped' \in BOOLEAN
    BY <1>7 DEF Feed
  <2>2. /\ pc = "pressed" /\ pc' = "fed"
        /\ ~InitRaises(timeout_ms) /\ Restart(timeout_ms)
        /\ UNCHANGED <<stored, timeout_ms, message>>
    BY <1>7 DEF Feed
  <2> QED
    BY <2>1, <2>2 DEF Restart
<1>8. CASE FeedRaises
  BY <1>8 DEF FeedRaises, Stop
<1>9. CASE StartTypingRaises
  BY <1>9 DEF StartTypingRaises, Stop
<1>10. CASE OffKey
  BY <1>10 DEF OffKey, DeepSleep
<1>11. CASE ReturnKey
  BY <1>11 DEF ReturnKey, Polled
<1>12. CASE OtherApp
  BY <1>12 DEF OtherApp, Polled
<1>13. CASE FormEdit
  BY <1>13 DEF FormEdit, Polled
<1>14. CASE FormShift
  BY <1>14 DEF FormShift, Polled
<1>15. CASE AppRaises
  BY <1>15 DEF AppRaises
<1>16. ASSUME NEW e \in Entries, Ok(e) PROVE IInv'
  <2>1. CASE OkNotANumber(e)
    BY <2>1 DEF OkNotANumber, OkRejected, Polled
  <2>2. CASE OkTooLarge(e)
    BY <2>2 DEF OkTooLarge, OkRejected, Polled
  <2>3. CASE OkStore(e)
    <3>1. stored' \in Int
      BY <2>3, AcceptedIsInt DEF OkStore
    <3> QED
      BY <2>3, <3>1 DEF OkStore, Polled
  <2> QED
    BY <1>16, <2>1, <2>2, <2>3 DEF Ok
<1>17. CASE UpdateTime
  BY <1>17 DEF UpdateTime, NewTimeout, FeedAfterUpdate, Restart
<1>18. CASE Refresh
  BY <1>18 DEF Refresh, Polled
<1>19. CASE UNCHANGED vars
  BY <1>19 DEF vars
<1> QED
  BY <1>1, <1>2, <1>3, <1>4, <1>5, <1>6, <1>7, <1>8, <1>9, <1>10, <1>11, <1>12,
     <1>13, <1>14, <1>15, <1>16, <1>17, <1>18, <1>19 DEF Next

(* The invariant holds in every behaviour.                                 *)
THEOREM InductiveInvariant == Spec => []IInv
BY InitIInv, NextIInv, PTL DEF Spec

(* The watchdog and its setting keep their types.                          *)
THEOREM TypeCorrect == Spec => []TypeOK
<1>1. IInv => TypeOK
  BY DEF IInv
<1> QED
  BY InductiveInvariant, <1>1, PTL

(* An awake device always has a running timer or a scheduled timeout,      *)
(* unless an exception stopped the watchdog or the setting overflows a     *)
(* machine word (typer.py:9-19, soft_watch_dog_timer.py:18-27).            *)
THEOREM WatchdogAlive == Spec => []NeverSilentlyDisarmed
<1>1. IInv => NeverSilentlyDisarmed
  BY DEF IInv
<1> QED
  BY InductiveInvariant, <1>1, PTL

(* File, watchdog and timer agree whenever no update is under way          *)
(* (sleeping_features.py:22-29).                                           *)
THEOREM SettingAlwaysInForce == Spec => []SettingInForce
<1>1. IInv => SettingInForce
  BY WordAssumption DEF IInv, TypeOK, Loaded, TimerCounts, SettingInForce
<1> QED
  BY InductiveInvariant, <1>1, PTL

(* The device does not fall asleep under the user's hands while keys are   *)
(* awaited: the timeout that is served then is due                         *)
(* (machine_timer.c:144-161, 247-257).                                     *)
THEOREM TimeoutAlwaysDue == Spec => []TimeoutIsDue
<1>1. IInv => TimeoutIsDue
  BY DEF IInv, TypeOK, Loaded, FreshIsDue, StaleIsBrief, TimeoutIsDue
<1> QED
  BY InductiveInvariant, <1>1, PTL
-----------------------------------------------------------------------------
(* The WiFi applications.                                                  *)
(* A connected station was configured with the right password, and what    *)
(* do_connect will store, if it made the attempt, is that configuration.   *)
ConnectedIsRight ==
    /\ sta # "idle" => app_conf \in A!Credential
    /\ sta = "connected" => Right[app_conf.ssid] = app_conf.password
    /\ app_pc \in {"wifi_connector", "connect_done"} => ssid_g \in Network
    /\ app_pc = "connect_done" =>
          /\ password \in Password
          /\ ~untried => app_conf = [ssid |-> ssid_g, password |-> password]
                         /\ sta # "idle"

AppsIInv == A!AppsInv /\ ConnectedIsRight

LEMMA InitAppsIInv == A!Init => AppsIInv
<1>1. A!Init => A!TypeOK
  <2> SUFFICES ASSUME A!Init PROVE A!TypeOK
    OBVIOUS
  <2>1. file = <<>> /\ names = <<>> /\ near \subseteq Network
    BY DEF A!Init
  <2>2. status_g \in BOOLEAN /\ untried \in BOOLEAN /\ untested = {}
    BY DEF A!Init
  <2>3. app_conf \in A!Credential \cup {[ssid |-> None, password |-> None]}
    BY DEF A!Init
  <2> QED
    BY <2>1, <2>2, <2>3 DEF A!Init, A!TypeOK
<1> QED
  BY <1>1 DEF A!Init, AppsIInv, A!AppsInv, A!TypeOK, A!StoredRight, ConnectedIsRight

(* A new password replaces that of the same network, or is appended: the   *)
(* file stays a list without duplicates, holds what was stored, and keeps  *)
(* what it has of other networks.                                          *)
LEMMA UpdatedFile ==
    ASSUME A!TypeOK, NEW c \in A!Credential
    PROVE  LET new == A!update_wifi_credentials(c)
           IN  /\ new \in Seq(A!Credential)
               /\ \A i, j \in DOMAIN new : new[i].ssid = new[j].ssid => i = j
               /\ \E i \in DOMAIN new : new[i] = c
               /\ \A i \in DOMAIN new :
                    \/ new[i] = c
                    \/ \E j \in DOMAIN file : new[i] = file[j] /\ file[j].ssid # c.ssid
<1> DEFINE new == A!update_wifi_credentials(c)
<1>0. file \in Seq(A!Credential) /\ DOMAIN file = 1 .. Len(file) /\ Len(file) \in Nat
  BY DEF A!TypeOK
<1>1. CASE \E i \in DOMAIN file : file[i].ssid = c.ssid
  <2>1. new = [i \in DOMAIN file |-> IF file[i].ssid = c.ssid THEN c ELSE file[i]]
    BY <1>1 DEF A!update_wifi_credentials
  <2> HIDE DEF new
  <2>2. new \in [1 .. Len(file) -> A!Credential]
    BY <1>0, <2>1
  <2>3. \A i \in DOMAIN new : new[i].ssid = file[i].ssid
    BY <2>1
  <2>4. \A i, j \in DOMAIN new : new[i].ssid = new[j].ssid => i = j
    BY <2>1, <2>3 DEF A!TypeOK
  <2>5. \E i \in DOMAIN new : new[i] = c
    BY <1>1, <2>1
  <2>6. \A i \in DOMAIN new :
           \/ new[i] = c
           \/ \E j \in DOMAIN file : new[i] = file[j] /\ file[j].ssid # c.ssid
    BY <2>1
  <2> QED
    BY <1>0, <2>2, <2>4, <2>5, <2>6 DEF new
<1>2. CASE \A i \in DOMAIN file : file[i].ssid # c.ssid
  <2>1. new = Append(file, c)
    BY <1>2 DEF A!update_wifi_credentials
  <2> HIDE DEF new
  <2>2. /\ new \in Seq(A!Credential) /\ DOMAIN new = 1 .. Len(file) + 1
        /\ \A i \in 1 .. Len(file) : new[i] = file[i]
        /\ new[Len(file) + 1] = c
    BY <1>0, <2>1
  <2>3. ASSUME NEW i \in DOMAIN new, NEW j \in DOMAIN new, new[i].ssid = new[j].ssid
        PROVE  i = j
    <3>1. i = Len(file) + 1 \/ i \in DOMAIN file
      BY <1>0, <2>2
    <3>2. j = Len(file) + 1 \/ j \in DOMAIN file
      BY <1>0, <2>2
    <3>3. CASE i \in DOMAIN file /\ j \in DOMAIN file
      BY <2>2, <2>3, <3>3, <1>0 DEF A!TypeOK
    <3> QED
      BY <1>0, <1>2, <2>2, <2>3, <3>1, <3>2, <3>3
  <2>4. Len(file) + 1 \in DOMAIN new
    BY <1>0, <2>2
  <2>5. \A i \in DOMAIN new :
           \/ new[i] = c
           \/ \E j \in DOMAIN file : new[i] = file[j] /\ file[j].ssid # c.ssid
    BY <1>0, <1>2, <2>2
  <2> QED
    BY <2>2, <2>3, <2>4, <2>5 DEF new
<1> QED
  BY <1>1, <1>2

LEMMA StoredIsCredential ==
    ASSUME A!TypeOK, NEW i \in A!Stored PROVE file[i] \in A!Credential
BY DEF A!TypeOK, A!Stored

LEMMA AppsNext ==
    ASSUME IsFiniteSet(Network), AppsIInv, [A!Next]_(A!vars)
    PROVE  AppsIInv'
<1> USE DEF AppsIInv, A!AppsInv, A!TypeOK, A!StoredRight, ConnectedIsRight,
            A!bucket, A!station, A!history, A!Credential
<1>1. CASE A!Associate
  BY <1>1 DEF A!Associate
<1>2. CASE A!Lose
  BY <1>2 DEF A!Lose
<1>3. CASE A!Roam
  BY <1>3 DEF A!Roam
<1>4. CASE A!PowerFails
  <2>1. A!TypeOK'
    <3>1. status_g' \in BOOLEAN /\ untried' \in BOOLEAN
      BY <1>4 DEF A!PowerFails
    <3> QED
      BY <1>4, <3>1 DEF A!PowerFails
  <2> QED
    BY <1>4, <2>1 DEF A!PowerFails
<1>5. CASE A!BootConnect
  <2>1. CASE A!Stored = {}
    BY <1>5, <2>1 DEF A!BootConnect
  <2>2. CASE A!Stored # {}
    <3>1. PICK i \in A!Stored : app_conf' = file[i]
      BY <1>5, <2>2 DEF A!BootConnect
    <3>2. app_conf' \in A!Credential
      BY <3>1, StoredIsCredential
    <3> QED
      BY <1>5, <2>2, <3>2 DEF A!BootConnect
  <2> QED
    BY <2>1, <2>2
<1>6. CASE A!BootWait
  BY <1>6 DEF A!BootWait
<1>7. CASE A!BootStatus
  BY <1>7 DEF A!BootStatus
<1>8. CASE A!wifi_app
  <2>1. names' \in Seq(Network)
    <3>1. CASE sta = "connecting"
      BY <1>8, <3>1 DEF A!wifi_app
    <3>2. CASE sta # "connecting"
      <4>1. A!Cardinality(near) \in Nat
        BY FS_Subset, FS_CardinalityType DEF A!Cardinality, Cardinality
      <4>2. names' \in A!SetToSeqs(near)
        BY <1>8, <3>2 DEF A!wifi_app
      <4>3. names' \in [1 .. A!Cardinality(near) -> near]
        BY <4>2 DEF A!SetToSeqs
      <4> QED
        BY <4>1, <4>3
    <3> QED
      BY <3>1, <3>2
  <2> QED
    BY <1>8, <2>1 DEF A!wifi_app
<1>9. ASSUME NEW cursor \in 0 .. Len(names), NEW top \in 0 .. Len(names), A!Ok(cursor, top)
      PROVE  AppsIInv'
  <2> DEFINE i == A!Chosen(cursor, top) + 1
  <2>1. CASE i \in DOMAIN names
    <3>1. ssid_g' = names[i] /\ names[i] \in Network /\ app_pc' = "wifi_connector"
      BY <1>9, <2>1 DEF A!Ok
    <3> QED
      BY <1>9, <2>1, <3>1 DEF A!Ok
  <2>2. CASE i \notin DOMAIN names
    BY <1>9, <2>2 DEF A!Ok
  <2> QED
    BY <2>1, <2>2
<1>10. CASE A!KeyWithoutNames
  BY <1>10 DEF A!KeyWithoutNames
<1>11. CASE A!Back
  <2>1. A!TypeOK'
    <3>1. status_g' \in BOOLEAN /\ untried' \in BOOLEAN
      BY <1>11 DEF A!Back
    <3> QED
      BY <1>11, <3>1 DEF A!Back
  <2> QED
    BY <1>11, <2>1 DEF A!Back
<1>12. ASSUME NEW p \in Password, A!do_connect(p) PROVE AppsIInv'
  <2>1. A!TypeOK'
    <3>1. status_g' \in BOOLEAN /\ untried' \in BOOLEAN
      BY <1>12 DEF A!do_connect
    <3> QED
      BY <1>12, <3>1 DEF A!do_connect
  <2>2. CASE sta = "connected"
    <3>1. untried'
      BY <1>12, <2>2 DEF A!do_connect
    <3> QED
      BY <1>12, <2>1, <2>2, <3>1 DEF A!do_connect
  <2>3. CASE sta # "connected"
    BY <1>12, <2>1, <2>3 DEF A!do_connect
  <2> QED
    BY <2>2, <2>3
<1>13. CASE A!ConnectDone
  <2> DEFINE c == [ssid |-> ssid_g, password |-> password]
  <2>1. c \in A!Credential
    BY <1>13 DEF A!ConnectDone
  <2>2. LET new == A!update_wifi_credentials(c)
        IN  /\ new \in Seq(A!Credential)
            /\ \A i, j \in DOMAIN new : new[i].ssid = new[j].ssid => i = j
            /\ \A i \in DOMAIN new :
                 \/ new[i] = c
                 \/ \E j \in DOMAIN file : new[i] = file[j] /\ file[j].ssid # c.ssid
    <3> HIDE DEF c
    <3> QED
      BY <2>1, UpdatedFile
  <2>3. A!Store => file' = A!update_wifi_credentials(c)
    BY <1>13 DEF A!ConnectDone
  <2>4. /\ file' \in Seq(A!Credential)
        /\ \A i, j \in DOMAIN file' : file'[i].ssid = file'[j].ssid => i = j
    <3> HIDE DEF c
    <3>1. CASE A!Store
      BY <2>2, <2>3, <3>1
    <3>2. CASE ~A!Store
      BY <1>13, <3>2 DEF A!ConnectDone
    <3> QED
      BY <3>1, <3>2
  <2>5. A!StoredRight'
    <3>1. CASE A!Store
      <4>1. ~untried => c.password = Right[c.ssid]
        BY <1>13, <3>1 DEF A!ConnectDone, A!Store
      <4>2. /\ untried => untested' = untested \cup {c.ssid}
            /\ ~untried => untested' = untested \ {c.ssid}
        BY <1>13, <3>1 DEF A!ConnectDone
      <4>3. \A i \in DOMAIN file' :
               \/ file'[i] = c
               \/ \E j \in DOMAIN file : file'[i] = file[j] /\ file[j].ssid # c.ssid
        BY <2>2, <2>3, <3>1
      <4> HIDE DEF c
      <4>4. ASSUME NEW i \in DOMAIN file'
            PROVE  \/ file'[i].ssid \in untested'
                   \/ file'[i].password = Right[file'[i].ssid]
        <5>1. CASE file'[i] = c
          BY <4>1, <4>2, <5>1
        <5>2. ASSUME NEW j \in DOMAIN file, file'[i] = file[j], file[j].ssid # c.ssid
              PROVE  \/ file'[i].ssid \in untested'
                     \/ file'[i].password = Right[file'[i].ssid]
          BY <4>2, <5>2
        <5> QED
          BY <4>3, <5>1, <5>2
      <4> QED
        BY <4>4
    <3>2. CASE ~A!Store
      BY <1>13, <3>2 DEF A!ConnectDone
    <3> QED
      BY <3>1, <3>2
  <2>6. untested' \subseteq Network
    BY <1>13 DEF A!ConnectDone
  <2> QED
    BY <1>13, <2>4, <2>5, <2>6 DEF A!ConnectDone
<1>14. CASE A!network_status
  BY <1>14 DEF A!network_status
<1>15. CASE A!disconnect_network
  BY <1>15 DEF A!disconnect_network
<1>16. CASE UNCHANGED A!vars
  BY <1>16 DEF A!vars
<1> QED
  BY <1>1, <1>2, <1>3, <1>4, <1>5, <1>6, <1>7, <1>8, <1>9, <1>10, <1>11, <1>12, <1>13,
     <1>14, <1>15, <1>16 DEF A!Next

(* No network is stored twice, and the stored password of a network is the *)
(* right one, unless it was last stored while the station was connected    *)
(* already and do_connect tried nothing (wifi_connector.py:56-70, 99-105,  *)
(* 127): for every set of networks and passwords, over failed attempts,    *)
(* losses, networks that come and go, and power failures.                  *)
THEOREM AppsAlwaysSound == A!Spec => []AppsInv
<1>1. AppsIInv /\ [A!Next]_(A!vars) => AppsIInv'
  BY NetworkAssumption, AppsNext
<1>2. AppsIInv => AppsInv
  BY DEF AppsIInv, AppsInv
<1> QED
  BY InitAppsIInv, <1>1, <1>2, PTL DEF A!Spec

(* After an attempt of do_connect only what the station is connected with  *)
(* is stored.  A station that was connected already makes no attempt, and  *)
(* then what was typed is stored all the same: the exception is the code's *)
(* (wifi_connector.py:127-139).                                            *)
THEOREM OnlyWorkingStored == A!Spec => StoredWorked
<1>1. ASSUME AppsIInv, [A!Next]_(A!vars), file' # file
      PROVE  A!StoredWorkedStep
  <2>1. A!ConnectDone /\ A!Store
    BY <1>1 DEF A!Next, A!vars, A!Associate, A!Lose, A!Roam, A!PowerFails, A!BootConnect,
       A!BootWait, A!BootStatus, A!wifi_app, A!Ok, A!KeyWithoutNames, A!Back,
       A!do_connect, A!ConnectDone, A!network_status, A!disconnect_network
  <2> DEFINE c == [ssid |-> ssid_g, password |-> password]
  <2>2. c \in A!Credential
    BY <1>1, <2>1 DEF A!ConnectDone, AppsIInv, ConnectedIsRight, A!Credential
  <2>3. \E i \in DOMAIN file' : file'[i] = c
    BY <1>1, <2>1, <2>2, UpdatedFile DEF A!ConnectDone, AppsIInv, A!AppsInv
  <2>4. c \in A!ToSet(file')
    BY <2>3 DEF A!ToSet
  <2> QED
    BY <1>1, <2>1, <2>4
       DEF A!ConnectDone, A!Store, AppsIInv, ConnectedIsRight, A!StoredWorkedStep
<1>2. AppsIInv /\ [A!Next]_(A!vars) => [A!StoredWorkedStep]_(A!vars)
  BY <1>1 DEF A!StoredWorkedStep, A!vars
<1>3. AppsIInv /\ [A!Next]_(A!vars) => AppsIInv'
  BY NetworkAssumption, AppsNext
<1> QED
  BY InitAppsIInv, <1>2, <1>3, PTL DEF A!Spec, StoredWorked, A!StoredWorked
-----------------------------------------------------------------------------
(* The WiFi station: its flags follow the driver because what the events   *)
(* still to be handled will leave behind already agrees with the driver.   *)
Event == [type : {"START", "STOP", "GOT_IP", "DISCONNECTED"},
          reason : W!Reason \cup {"NONE"}]

(* A flag that "on" sets and "off" clears has the value goal once the      *)
(* events es are handled.                                                  *)
Settles(es, on, off, flag, goal) ==
    /\ (\A i \in 1 .. Len(es) : es[i].type \notin {on, off}) => (flag <=> goal)
    /\ \A i \in 1 .. Len(es) :
          /\ es[i].type \in {on, off}
          /\ \A j \in i + 1 .. Len(es) : es[j].type \notin {on, off}
          => (es[i].type = on <=> goal)

FlagsSettle ==
    /\ started <=> driver # "stopped"
    /\ Settles(events, "START", "STOP", active, started)
    /\ Settles(events, "GOT_IP", "DISCONNECTED", connected, driver = "connected")

(* Posting an event of another flag changes nothing, posting one of this   *)
(* flag sets the goal.                                                     *)
LEMMA SettlesPosted ==
    ASSUME NEW es \in Seq(Event), NEW e \in Event, NEW on, NEW off,
           NEW flag, NEW goal, NEW new,
           Settles(es, on, off, flag, goal),
           e.type \in {on, off} => (e.type = on <=> new),
           e.type \notin {on, off} => (goal <=> new)
    PROVE  Settles(Append(es, e), on, off, flag, new)
<1> DEFINE fs == Append(es, e)
<1>0. /\ Len(es) \in Nat /\ Len(fs) = Len(es) + 1 /\ fs[Len(es) + 1] = e
      /\ \A i \in 1 .. Len(es) : fs[i] = es[i]
  OBVIOUS
<1> HIDE DEF fs
<1>1. Len(es) + 1 \in 1 .. Len(fs) /\ \A i \in 1 .. Len(es) : i \in 1 .. Len(fs)
  BY <1>0
<1>2. CASE e.type \in {on, off}
  <2>1. ~ \A i \in 1 .. Len(fs) : fs[i].type \notin {on, off}
    BY <1>0, <1>1, <1>2
  <2>2. ASSUME NEW i \in 1 .. Len(fs), \A j \in i + 1 .. Len(fs) : fs[j].type \notin {on, off}
        PROVE  i = Len(es) + 1
    <3>1. i # Len(es) + 1 => Len(es) + 1 \in i + 1 .. Len(fs)
      BY <1>0
    <3> QED
      BY <1>0, <1>2, <2>2, <3>1
  <2> QED
    BY <1>0, <1>2, <2>1, <2>2 DEF Settles, fs
<1>3. CASE e.type \notin {on, off}
  <2>1. (\A i \in 1 .. Len(fs) : fs[i].type \notin {on, off}) => (flag <=> new)
    BY <1>0, <1>1, <1>3 DEF Settles
  <2>2. ASSUME NEW i \in 1 .. Len(fs), fs[i].type \in {on, off},
               \A j \in i + 1 .. Len(fs) : fs[j].type \notin {on, off}
        PROVE  fs[i].type = on <=> new
    <3>1. i \in 1 .. Len(es)
      BY <1>0, <1>3, <2>2
    <3>2. \A j \in i + 1 .. Len(es) : j \in i + 1 .. Len(fs) /\ j \in 1 .. Len(es)
      BY <1>0, <3>1
    <3>3. \A j \in i + 1 .. Len(es) : es[j].type \notin {on, off}
      BY <1>0, <2>2, <3>2
    <3> QED
      BY <1>0, <1>3, <2>2, <3>1, <3>3 DEF Settles
  <2> QED
    BY <2>1, <2>2 DEF Settles, fs
<1> QED
  BY <1>2, <1>3

(* Handling the first event moves its effect to the flag.                  *)
LEMMA SettlesHandled ==
    ASSUME NEW es \in Seq(Event), es # <<>>, NEW on, NEW off,
           NEW flag, NEW goal, NEW new,
           Settles(es, on, off, flag, goal),
           es[1].type \in {on, off} => (es[1].type = on <=> new),
           es[1].type \notin {on, off} => (flag <=> new)
    PROVE  Settles(Tail(es), on, off, new, goal)
<1> DEFINE ts == Tail(es)
<1>0. /\ Len(es) \in Nat /\ Len(es) >= 1 /\ Len(ts) = Len(es) - 1
      /\ \A i \in 1 .. Len(ts) : ts[i] = es[i + 1]
  OBVIOUS
<1> HIDE DEF ts
<1>1. \A i \in 1 .. Len(ts) : i + 1 \in 1 .. Len(es)
  BY <1>0
<1>2. \A i \in 1 .. Len(es) : i # 1 => i - 1 \in 1 .. Len(ts) /\ ts[i - 1] = es[i]
  BY <1>0
<1>3. ASSUME \A i \in 1 .. Len(ts) : ts[i].type \notin {on, off} PROVE new <=> goal
  <2>1. \A i \in 1 .. Len(es) : i # 1 => es[i].type \notin {on, off}
    BY <1>2, <1>3
  <2>2. CASE es[1].type \in {on, off}
    <3>1. 1 \in 1 .. Len(es) /\ \A j \in 1 + 1 .. Len(es) : j # 1 /\ j \in 1 .. Len(es)
      BY <1>0
    <3>2. es[1].type = on <=> goal
      BY <2>1, <2>2, <3>1 DEF Settles
    <3> QED
      BY <2>2, <3>2
  <2>3. CASE es[1].type \notin {on, off}
    BY <2>1, <2>3 DEF Settles
  <2> QED
    BY <2>2, <2>3
<1>4. ASSUME NEW i \in 1 .. Len(ts), ts[i].type \in {on, off},
             \A j \in i + 1 .. Len(ts) : ts[j].type \notin {on, off}
      PROVE  ts[i].type = on <=> goal
  <2>1. i + 1 \in 1 .. Len(es) /\ es[i + 1] = ts[i]
    BY <1>0, <1>1
  <2>2. \A j \in (i + 1) + 1 .. Len(es) : /\ j - 1 \in i + 1 .. Len(ts)
                                          /\ ts[j - 1] = es[j]
    <3> SUFFICES ASSUME NEW j \in (i + 1) + 1 .. Len(es)
                 PROVE  j - 1 \in i + 1 .. Len(ts) /\ ts[j - 1] = es[j]
      OBVIOUS
    <3>1. j - 1 \in i + 1 .. Len(ts) /\ j \in 1 .. Len(es) /\ j # 1
      BY <1>0
    <3> QED
      BY <1>2, <3>1
  <2>3. \A j \in (i + 1) + 1 .. Len(es) : es[j].type \notin {on, off}
    BY <1>4, <2>2
  <2> QED
    BY <1>4, <2>1, <2>3 DEF Settles
<1> QED
  BY <1>3, <1>4 DEF Settles, ts

(* Losses that wait to be handled, and how their number changes.           *)
Losses(es) == {i \in 1 .. Len(es) : es[i].type = "DISCONNECTED"}
One(b) == IF b THEN 1 ELSE 0
Lost(e) == One(e.type = "DISCONNECTED")

LEMMA LossesCounted ==
    ASSUME NEW es \in Seq(Event)
    PROVE  IsFiniteSet(Losses(es)) /\ Cardinality(Losses(es)) \in 0 .. Len(es)
<1>1. Len(es) \in Nat /\ Losses(es) \in SUBSET (1 .. Len(es))
  BY DEF Losses
<1>2. IsFiniteSet(1 .. Len(es)) /\ Cardinality(1 .. Len(es)) = Len(es)
  <2>1. 1 \in Int /\ Len(es) \in Int
    BY <1>1
  <2>2. /\ IsFiniteSet(1 .. Len(es))
        /\ Cardinality(1 .. Len(es)) = IF 1 > Len(es) THEN 0 ELSE Len(es) - 1 + 1
    BY ONLY <2>1, FS_Interval
  <2> QED
    BY <1>1, <2>2
<1>3. IsFiniteSet(Losses(es)) /\ Cardinality(Losses(es)) <= Len(es)
  BY <1>1, <1>2, FS_Subset
<1> QED
  BY <1>1, <1>3, FS_CardinalityType

LEMMA LossPosted ==
    ASSUME NEW es \in Seq(Event), NEW e \in Event
    PROVE  Cardinality(Losses(Append(es, e))) = Cardinality(Losses(es)) + Lost(e)
<1> DEFINE fs == Append(es, e)
<1>0. /\ Len(es) \in Nat /\ Len(fs) = Len(es) + 1 /\ fs[Len(es) + 1] = e
      /\ \A i \in 1 .. Len(es) : fs[i] = es[i]
  OBVIOUS
<1> HIDE DEF fs
<1>1. IsFiniteSet(Losses(es)) /\ Cardinality(Losses(es)) \in Nat
  BY LossesCounted, FS_CardinalityType
<1>2. \A i : i \in 1 .. Len(fs) <=> i \in 1 .. Len(es) \/ i = Len(es) + 1
  BY <1>0
<1>3. CASE e.type = "DISCONNECTED"
  <2>1. Losses(fs) = Losses(es) \cup {Len(es) + 1}
    BY <1>0, <1>2, <1>3 DEF Losses
  <2>2. Len(es) + 1 \notin Losses(es)
    BY <1>0 DEF Losses
  <2> QED
    BY <1>1, <1>3, <2>1, <2>2, FS_AddElement DEF Lost, One, fs
<1>4. CASE e.type # "DISCONNECTED"
  <2>1. Losses(fs) = Losses(es)
    BY <1>0, <1>2, <1>4 DEF Losses
  <2> QED
    BY <1>1, <1>4, <2>1 DEF Lost, One, fs
<1> QED
  BY <1>3, <1>4

LEMMA LossHandled ==
    ASSUME NEW es \in Seq(Event), es # <<>>
    PROVE  Cardinality(Losses(Tail(es))) + Lost(es[1]) <= Cardinality(Losses(es))
<1> DEFINE ts == Tail(es)
           later == Losses(es) \ {1}
           f == [i \in later |-> i - 1]
<1>0. /\ Len(es) \in Nat /\ Len(es) >= 1 /\ Len(ts) = Len(es) - 1
      /\ \A i \in 1 .. Len(ts) : ts[i] = es[i + 1]
      /\ ts \in Seq(Event)
  OBVIOUS
<1> HIDE DEF ts
<1>1. IsFiniteSet(Losses(es)) /\ Cardinality(Losses(es)) \in Nat
  BY LossesCounted, FS_CardinalityType
<1>2. /\ IsFiniteSet(later)
      /\ Cardinality(later) = Cardinality(Losses(es)) - Lost(es[1])
  <2>1. 1 \in Losses(es) <=> es[1].type = "DISCONNECTED"
    BY <1>0 DEF Losses
  <2> QED
    BY <1>1, <2>1, FS_RemoveElement DEF Lost, One
<1>3. f \in Surjection(later, Losses(ts))
  <2>1. ASSUME NEW i \in later PROVE i - 1 \in Losses(ts)
    <3>1. i \in 1 .. Len(es) /\ i # 1 /\ es[i].type = "DISCONNECTED"
      BY DEF Losses
    <3>2. i - 1 \in 1 .. Len(ts) /\ (i - 1) + 1 = i
      BY <1>0, <3>1
    <3> QED
      BY <1>0, <3>1, <3>2 DEF Losses
  <2>2. ASSUME NEW k \in Losses(ts) PROVE \E i \in later : f[i] = k
    <3>1. k \in 1 .. Len(ts) /\ ts[k].type = "DISCONNECTED"
      BY DEF Losses
    <3>2. k + 1 \in 1 .. Len(es) /\ k + 1 # 1 /\ (k + 1) - 1 = k
      BY <1>0, <3>1
    <3>3. k + 1 \in later
      BY <1>0, <3>1, <3>2 DEF Losses
    <3> QED
      BY <3>2, <3>3
  <2>3. f \in [later -> Losses(ts)]
    BY <2>1
  <2> HIDE DEF f, later
  <2> QED
    BY <2>2, <2>3 DEF Surjection, Range
<1>4. Cardinality(Losses(ts)) <= Cardinality(later)
  <2> HIDE DEF f, later
  <2> QED
    BY <1>2, <1>3, FS_Surjection
<1>5. Cardinality(Losses(ts)) \in Nat
  BY <1>0, LossesCounted, FS_CardinalityType
<1> QED
  BY <1>1, <1>2, <1>4, <1>5 DEF Lost, One, ts

(* How often a loss may still be counted without an attempt that the       *)
(* handler has decided on: losses that wait or are being handled, and one  *)
(* association that stands or is about to be asked for.                    *)
Pending ==
    Cardinality(Losses(events)) + One(driver \in {"connecting", "connected"})
      + One(hpc # "wait") + One(sta_pc = "connecting")

(* As long as the counter has not come round it counts every attempt that  *)
(* was decided on, and its limit is no higher than what was asked for.     *)
TriesCounted ==
    /\ asked >= 0 => conf <= asked + 1
    /\ conf # 0 /\ ~around => tries <= reconnects

StationIInv == W!TypeOK /\ FlagsSettle /\ TriesCounted /\ W!RetriesBounded

(* The values config(reconnects) is given leave room in the counter.       *)
RoomToCount(C) ==
    /\ C \in Nat
    /\ Reconnects \subseteq -1 .. C - 1
    /\ C + MaxEvents + 5 < Width

(* C bounds the counter's limit.  The counter never gets near its width,   *)
(* so it does not come round, and neither does the setting.                *)
CounterInv(C) ==
    /\ conf \in 0 .. C
    /\ reconnects + Pending <= C + MaxEvents + 5
    /\ ~around
    /\ asked >= 0 => conf # 0

LEMMA PendingRange ==
    ASSUME W!TypeOK
    PROVE  /\ Pending \in Nat
           /\ Pending <= Len(events) + 3
           /\ Cardinality(Losses(events)) \in 0 .. Len(events)
           /\ Len(events) \in 0 .. MaxEvents + 2
           /\ events \in Seq(Event)
<1>1. events \in Seq(Event) /\ Len(events) <= MaxEvents + 2
  BY DEF W!TypeOK, Event
<1>2. Cardinality(Losses(events)) \in 0 .. Len(events) /\ Len(events) \in Nat
  BY <1>1, LossesCounted
<1> QED
  BY <1>1, <1>2, StationAssumption DEF Pending, One

LEMMA InitStationIInv == W!Init => StationIInv
<1> SUFFICES ASSUME W!Init PROVE StationIInv
  OBVIOUS
<1>1. W!TypeOK
  <2>1. {started, active, requested, connected, want, around} \subseteq BOOLEAN
    BY DEF W!Init
  <2> QED
    BY <2>1, StationAssumption DEF W!Init, W!TypeOK
<1>2. FlagsSettle
  BY DEF W!Init, FlagsSettle, Settles
<1>3. TriesCounted /\ W!RetriesBounded
  BY DEF W!Init, TriesCounted, W!RetriesBounded
<1> QED
  BY <1>1, <1>2, <1>3 DEF StationIInv

LEMMA InitCounterInv ==
    ASSUME NEW C, RoomToCount(C), W!Init PROVE CounterInv(C)
<1>1. W!TypeOK
  BY InitStationIInv DEF StationIInv
<1>2. Cardinality(Losses(events)) = 0
  BY <1>1, PendingRange DEF W!Init
<1> QED
  BY <1>2, StationAssumption DEF W!Init, CounterInv, Pending, One, RoomToCount

LEMMA PostedEvents ==
    ASSUME NEW es \in Seq(Event), NEW d \in Event, NEW e \in Event
    PROVE  /\ es \o <<>> = es
           /\ es \o <<e>> = Append(es, e)
           /\ es \o (<<>> \o <<e>>) = Append(es, e)
           /\ es \o (<<d>> \o <<e>>) = Append(Append(es, d), e)
OBVIOUS

LEMMA EventKinds ==
    /\ \A t \in {"START", "STOP", "GOT_IP"} : W!Plain(t) \in Event /\ W!Plain(t).type = t
    /\ \A r \in W!Reason : W!Left(r) \in Event /\ W!Left(r).type = "DISCONNECTED"
BY DEF W!Plain, W!Left, Event

(* What a step does to the events: it posts none, one or two, or handles   *)
(* the first.                                                              *)
LEMMA EventsNext ==
    ASSUME W!TypeOK, [W!Next]_(W!vars)
    PROVE  \/ events' = events
           \/ /\ Len(events) < MaxEvents
              /\ \E e \in Event : events' = Append(events, e)
           \/ /\ Len(events) < MaxEvents
              /\ \E r \in W!Reason :
                   events' = Append(Append(events, W!Left(r)), W!Plain("STOP"))
           \/ events # <<>> /\ events' = Tail(events)
<1>0. events \in Seq(Event)
  BY DEF W!TypeOK, Event
<1> USE DEF W!Post, W!Room, W!wlan, W!retry
<1>1. CASE W!Associate
  BY <1>0, <1>1, EventKinds, PostedEvents DEF W!Associate
<1>2. ASSUME NEW r \in W!Reason \ {"ASSOC_LEAVE"}, W!Lose(r)
      PROVE  \E e \in Event : events' = Append(events, e) /\ Len(events) < MaxEvents
  BY <1>0, <1>2, EventKinds, PostedEvents DEF W!Lose
<1>3. W!Leave = <<>> \/ W!Leave = <<W!Left("ASSOC_LEAVE")>>
  BY DEF W!Leave
<1>4. CASE W!DisconnectCall
  BY <1>0, <1>3, <1>4, EventKinds, PostedEvents DEF W!DisconnectCall, W!Reason
<1>5. ASSUME NEW on \in BOOLEAN, W!network_wlan_active(on)
      PROVE  \/ events' = events
             \/ /\ Len(events) < MaxEvents
                /\ \E e \in Event : events' = Append(events, e)
             \/ /\ Len(events) < MaxEvents
                /\ events' = Append(Append(events, W!Left("ASSOC_LEAVE")), W!Plain("STOP"))
  <2>0. W!Plain("START") \in Event /\ W!Plain("STOP") \in Event
        /\ W!Left("ASSOC_LEAVE") \in Event
    BY EventKinds DEF W!Reason
  <2>1. CASE on = started
    BY <1>0, <1>5, <2>0, <2>1, PostedEvents DEF W!network_wlan_active
  <2>2. CASE on # started /\ on
    BY <1>0, <1>5, <2>0, <2>2, PostedEvents DEF W!network_wlan_active
  <2>3. CASE on # started /\ ~on
    BY <1>0, <1>3, <1>5, <2>0, <2>3, PostedEvents DEF W!network_wlan_active
  <2> QED
    BY <2>1, <2>2, <2>3
<1>6. "ASSOC_LEAVE" \in W!Reason
  BY DEF W!Reason
<1>7. CASE W!Handler
  BY <1>7 DEF W!Handler, W!HandleStart, W!HandleStop, W!HandleGotIp, W!HandleDisconnected,
     W!CheckRequested, W!CountRetry, W!Retry, W!Handling
<1>8. CASE UNCHANGED W!vars
  BY <1>8 DEF W!vars
<1> QED
  BY <1>1, <1>2, <1>4, <1>5, <1>6, <1>7, <1>8
     DEF W!Next, W!Calls, W!Proceed, W!ActiveReturns, W!ActiveInterrupted,
         W!network_wlan_connect, W!ConnectCall, W!ConnectRaises, W!ConnectReturns,
         W!network_wlan_disconnect, W!network_wlan_config, W!OtherThread

LEMMA StationTypes ==
    ASSUME W!TypeOK, [W!Next]_(W!vars)
    PROVE  W!TypeOK'
<1>0. Width \in Nat \ {0} /\ MaxTries \in Nat /\ MaxEvents \in Nat
  BY StationAssumption
<1>1. events' \in Seq(Event) /\ Len(events') <= MaxEvents + 2
  <2>1. events \in Seq(Event) /\ Len(events) <= MaxEvents + 2
    BY DEF W!TypeOK, Event
  <2>2. W!Plain("STOP") \in Event /\ \A r \in W!Reason : W!Left(r) \in Event
    BY EventKinds
  <2>3. CASE events' = events
    BY <2>1, <2>3
  <2>4. ASSUME Len(events) < MaxEvents, NEW e \in Event, events' = Append(events, e)
        PROVE  events' \in Seq(Event) /\ Len(events') <= MaxEvents + 2
    BY <1>0, <2>1, <2>4
  <2>5. ASSUME Len(events) < MaxEvents, NEW r \in W!Reason,
               events' = Append(Append(events, W!Left(r)), W!Plain("STOP"))
        PROVE  events' \in Seq(Event) /\ Len(events') <= MaxEvents + 2
    BY <1>0, <2>1, <2>2, <2>5
  <2>6. CASE events # <<>> /\ events' = Tail(events)
    BY <1>0, <2>1, <2>6
  <2> QED
    BY <2>3, <2>4, <2>5, <2>6, EventsNext
<1> USE DEF W!wlan, W!retry
<1>2. {started, active, requested, connected, want, around}' \subseteq BOOLEAN
  BY DEF W!TypeOK, W!Next, W!vars, W!Associate, W!Lose, W!Calls, W!Proceed,
     W!network_wlan_active, W!ActiveReturns, W!ActiveInterrupted, W!network_wlan_connect,
     W!ConnectCall, W!ConnectRaises, W!ConnectReturns, W!network_wlan_disconnect,
     W!DisconnectCall, W!network_wlan_config, W!OtherThread, W!Handler, W!HandleStart,
     W!HandleStop, W!HandleGotIp, W!HandleDisconnected, W!CheckRequested, W!CountRetry,
     W!Retry
<1>3. driver' \in {"stopped", "idle", "connecting", "connected"}
  BY DEF W!TypeOK, W!Next, W!vars, W!Associate, W!Lose, W!Calls, W!Proceed,
     W!network_wlan_active, W!ActiveReturns, W!ActiveInterrupted, W!network_wlan_connect,
     W!ConnectCall, W!ConnectRaises, W!ConnectReturns, W!network_wlan_disconnect,
     W!DisconnectCall, W!network_wlan_config, W!OtherThread, W!Handler, W!HandleStart,
     W!HandleStop, W!HandleGotIp, W!HandleDisconnected, W!CheckRequested, W!CountRetry,
     W!Retry
<1>4. reason' \in W!Reason \cup {"NONE"}
  <2>0. events \in Seq(Event)
    BY DEF W!TypeOK, Event
  <2>2. events # <<>> => events[1] \in Event
    BY <2>0
  <2>1. events # <<>> => events[1].reason \in W!Reason \cup {"NONE"}
    BY <2>2 DEF Event
  <2> QED
    BY <2>1 DEF W!TypeOK, W!Next, W!vars, W!Associate, W!Lose, W!Calls, W!Proceed,
       W!network_wlan_active, W!ActiveReturns, W!ActiveInterrupted,
       W!network_wlan_connect, W!ConnectCall, W!ConnectRaises, W!ConnectReturns,
       W!network_wlan_disconnect, W!DisconnectCall, W!network_wlan_config, W!OtherThread,
       W!Handler, W!HandleStart, W!HandleStop, W!HandleGotIp, W!HandleDisconnected,
       W!CheckRequested, W!CountRetry, W!Retry, W!Handling
<1>5. /\ conf' \in 0 .. Width - 1 /\ reconnects' \in 0 .. Width - 1
      /\ asked' \in Reconnects \cup {-1} /\ tries' \in 0 .. MaxTries
  <2>1. ASSUME NEW n \in Reconnects, W!network_wlan_config(n)
        PROVE  /\ conf' \in 0 .. Width - 1 /\ reconnects' \in 0 .. Width - 1
               /\ asked' \in Reconnects \cup {-1} /\ tries' \in 0 .. MaxTries
    <3>1. n \in Int
      BY StationAssumption
    <3>2. W!ConfiguredAs(n) \in 0 .. Width - 1
      BY <1>0, <3>1 DEF W!ConfiguredAs
    <3> QED
      BY <1>0, <2>1, <3>2 DEF W!network_wlan_config, W!TypeOK
  <2>2. (reconnects + 1) % Width \in 0 .. Width - 1
    BY <1>0 DEF W!TypeOK
  <2>3. CASE W!CountRetry
    BY <1>0, <2>2, <2>3 DEF W!CountRetry, W!TypeOK
  <2>4. CASE W!HandleStart
    BY <1>0, <2>4 DEF W!HandleStart, W!TypeOK
  <2>5. ASSUME NEW g \in BOOLEAN, W!network_wlan_connect(g)
        PROVE  /\ conf' \in 0 .. Width - 1 /\ reconnects' \in 0 .. Width - 1
               /\ asked' \in Reconnects \cup {-1} /\ tries' \in 0 .. MaxTries
    BY <1>0, <2>5 DEF W!network_wlan_connect, W!TypeOK
  <2>6. ASSUME UNCHANGED <<conf, reconnects, asked, tries>>
        PROVE  /\ conf' \in 0 .. Width - 1 /\ reconnects' \in 0 .. Width - 1
               /\ asked' \in Reconnects \cup {-1} /\ tries' \in 0 .. MaxTries
    BY <2>6 DEF W!TypeOK
  <2> QED
    BY <2>1, <2>3, <2>4, <2>5, <2>6
       DEF W!Next, W!vars, W!Associate, W!Lose, W!Calls, W!Proceed,
       W!network_wlan_active, W!ActiveReturns, W!ActiveInterrupted,
       W!ConnectCall, W!ConnectRaises, W!ConnectReturns,
       W!network_wlan_disconnect, W!DisconnectCall, W!OtherThread,
       W!Handler, W!HandleStop, W!HandleGotIp, W!HandleDisconnected, W!CheckRequested, W!Retry
<1>6. /\ sta_pc' \in {"python", "activating", "connecting", "returning", "disconnecting"}
      /\ hpc' \in {"wait", "lost", "count", "retry"}
      /\ gil' \in {"main", "other", "free"}
  BY DEF W!TypeOK, W!Next, W!vars, W!Associate, W!Lose, W!Calls, W!Proceed,
     W!network_wlan_active, W!ActiveReturns, W!ActiveInterrupted, W!network_wlan_connect,
     W!ConnectCall, W!ConnectRaises, W!ConnectReturns, W!network_wlan_disconnect,
     W!DisconnectCall, W!network_wlan_config, W!OtherThread, W!Handler, W!HandleStart,
     W!HandleStop, W!HandleGotIp, W!HandleDisconnected, W!CheckRequested, W!CountRetry,
     W!Retry
<1> QED
  BY <1>1, <1>2, <1>3, <1>4, <1>5, <1>6 DEF W!TypeOK, Event

LEMMA FlagsNext ==
    ASSUME W!TypeOK, FlagsSettle, [W!Next]_(W!vars)
    PROVE  FlagsSettle'
<1>0. events \in Seq(Event)
  BY DEF W!TypeOK, Event
<1> USE DEF W!Post, W!wlan, W!retry
<1> DEFINE linked == driver = "connected"
<1>1. ASSUME UNCHANGED <<events, started, active, connected>>,
             driver' = driver \/ (driver = "idle" /\ driver' = "connecting")
      PROVE  FlagsSettle'
  BY <1>1 DEF FlagsSettle
<1>2. CASE W!Associate
  <2> DEFINE e == W!Plain("GOT_IP")
  <2>1. e \in Event /\ e.type = "GOT_IP" /\ events' = Append(events, e)
    BY <1>0, <1>2, EventKinds, PostedEvents DEF W!Associate
  <2> HIDE DEF e
  <2>2. Settles(events', "START", "STOP", active, started)
    BY <1>0, <2>1, SettlesPosted DEF FlagsSettle
  <2>3. Settles(events', "GOT_IP", "DISCONNECTED", connected, TRUE)
    BY <1>0, <2>1, SettlesPosted DEF FlagsSettle
  <2> QED
    BY <1>2, <2>2, <2>3 DEF W!Associate, FlagsSettle, Settles
<1>3. ASSUME NEW r \in W!Reason \ {"ASSOC_LEAVE"}, W!Lose(r) PROVE FlagsSettle'
  <2> DEFINE e == W!Left(r)
  <2>1. e \in Event /\ e.type = "DISCONNECTED" /\ events' = Append(events, e)
    BY <1>0, <1>3, EventKinds, PostedEvents DEF W!Lose
  <2> HIDE DEF e
  <2>2. Settles(events', "START", "STOP", active, started)
    BY <1>0, <2>1, SettlesPosted DEF FlagsSettle
  <2>3. Settles(events', "GOT_IP", "DISCONNECTED", connected, FALSE)
    BY <1>0, <2>1, SettlesPosted DEF FlagsSettle
  <2> QED
    BY <1>3, <2>2, <2>3 DEF W!Lose, FlagsSettle, Settles
<1>4. CASE W!HandleStart \/ W!HandleStop
  <2>1. events # <<>> /\ events' = Tail(events) /\ events[1].type \in {"START", "STOP"}
    BY <1>4 DEF W!HandleStart, W!HandleStop, W!Handling
  <2>2. events[1].type = "START" <=> active'
    BY <1>4 DEF W!HandleStart, W!HandleStop, W!Handling
  <2>3. Settles(events', "START", "STOP", active', started)
    BY <1>0, <2>1, <2>2, SettlesHandled DEF FlagsSettle
  <2>4. Settles(events', "GOT_IP", "DISCONNECTED", connected, linked)
    <3>1. Settles(events, "GOT_IP", "DISCONNECTED", connected, linked)
      BY DEF FlagsSettle
    <3> HIDE DEF linked
    <3> QED
      BY <1>0, <2>1, <3>1, SettlesHandled
  <2> QED
    BY <1>4, <2>3, <2>4 DEF W!HandleStart, W!HandleStop, FlagsSettle
<1>5. CASE W!HandleGotIp \/ W!HandleDisconnected
  <2>1. events # <<>> /\ events' = Tail(events) /\ events[1].type \in {"GOT_IP", "DISCONNECTED"}
    BY <1>5 DEF W!HandleGotIp, W!HandleDisconnected, W!Handling
  <2>2. events[1].type = "GOT_IP" <=> connected'
    BY <1>5 DEF W!HandleGotIp, W!HandleDisconnected, W!Handling
  <2>3. Settles(events', "START", "STOP", active, started)
    BY <1>0, <2>1, SettlesHandled DEF FlagsSettle
  <2>4. Settles(events', "GOT_IP", "DISCONNECTED", connected', linked)
    <3>1. Settles(events, "GOT_IP", "DISCONNECTED", connected, linked)
      BY DEF FlagsSettle
    <3> HIDE DEF linked
    <3> QED
      BY <1>0, <2>1, <2>2, <3>1, SettlesHandled
  <2> QED
    BY <1>5, <2>3, <2>4 DEF W!HandleGotIp, W!HandleDisconnected, FlagsSettle
<1>6. W!Left("ASSOC_LEAVE") \in Event /\ W!Left("ASSOC_LEAVE").type = "DISCONNECTED"
  BY EventKinds DEF W!Reason
<1>7. ASSUME driver \in {"connecting", "connected"}
      PROVE  /\ W!Leave = <<W!Left("ASSOC_LEAVE")>>
             /\ Settles(Append(events, W!Left("ASSOC_LEAVE")), "START", "STOP", active, started)
             /\ Settles(Append(events, W!Left("ASSOC_LEAVE")), "GOT_IP", "DISCONNECTED",
                        connected, FALSE)
  <2> DEFINE e == W!Left("ASSOC_LEAVE")
  <2>1. e \in Event /\ e.type = "DISCONNECTED"
    BY <1>6
  <2> HIDE DEF e
  <2>2. /\ Settles(Append(events, e), "START", "STOP", active, started)
        /\ Settles(Append(events, e), "GOT_IP", "DISCONNECTED", connected, FALSE)
    BY <1>0, <2>1, SettlesPosted DEF FlagsSettle
  <2> QED
    BY <1>7, <2>2 DEF W!Leave, e
<1>8. ASSUME driver \notin {"connecting", "connected"}
      PROVE  /\ W!Leave = <<>>
             /\ Settles(events, "GOT_IP", "DISCONNECTED", connected, FALSE)
  BY <1>8 DEF W!Leave, FlagsSettle, Settles
<1>9. CASE W!DisconnectCall
  <2>1. UNCHANGED <<started, active, connected>> /\ driver' # "connected"
        /\ (driver' = "stopped" <=> driver = "stopped")
    BY <1>9 DEF W!DisconnectCall
  <2>2. CASE driver \in {"connecting", "connected"}
    <3>1. events' = Append(events, W!Left("ASSOC_LEAVE"))
      BY <1>0, <1>6, <1>7, <1>9, <2>2, PostedEvents DEF W!DisconnectCall
    <3> QED
      BY <1>7, <2>1, <2>2, <3>1 DEF FlagsSettle, Settles
  <2>3. CASE driver \notin {"connecting", "connected"}
    <3>1. events' = events
      BY <1>0, <1>8, <1>9, <2>3 DEF W!DisconnectCall
    <3> QED
      BY <1>8, <2>1, <2>3, <3>1 DEF FlagsSettle, Settles
  <2> QED
    BY <2>2, <2>3
<1>10. ASSUME NEW on \in BOOLEAN, W!network_wlan_active(on) PROVE FlagsSettle'
  <2>0. UNCHANGED <<active, connected>> /\ started' = on /\ started \in BOOLEAN
    BY <1>10 DEF W!network_wlan_active, W!TypeOK
  <2>1. CASE on = started
    <3>1. events' = events /\ driver' = driver
      BY <1>0, <1>10, <2>0, <2>1 DEF W!network_wlan_active
    <3> QED
      BY <1>1, <2>0, <2>1, <3>1
  <2>2. CASE on /\ ~started
    <3> DEFINE e == W!Plain("START")
    <3>1. e \in Event /\ e.type = "START" /\ events' = Append(events, e)
      BY <1>0, <1>10, <2>2, EventKinds, PostedEvents DEF W!network_wlan_active
    <3> HIDE DEF e
    <3>2. driver = "stopped" /\ driver' = "idle"
      BY <1>10, <2>2 DEF W!network_wlan_active, FlagsSettle
    <3>3. Settles(events', "START", "STOP", active, TRUE)
      BY <1>0, <3>1, SettlesPosted DEF FlagsSettle
    <3>4. Settles(events', "GOT_IP", "DISCONNECTED", connected, FALSE)
      BY <1>0, <1>8, <3>1, <3>2, SettlesPosted
    <3> QED
      BY <2>0, <2>2, <3>2, <3>3, <3>4 DEF FlagsSettle, Settles
  <2>3. CASE ~on /\ started
    <3> DEFINE e == W!Plain("STOP")
               es == events \o W!Leave
    <3>1. e \in Event /\ e.type = "STOP"
      BY EventKinds
    <3>2. /\ es \in Seq(Event) /\ events' = Append(es, e)
          /\ Settles(es, "START", "STOP", active, started)
          /\ Settles(es, "GOT_IP", "DISCONNECTED", connected, FALSE)
      <4>1. CASE driver \in {"connecting", "connected"}
        <5>0. W!Leave = <<W!Left("ASSOC_LEAVE")>>
          BY <1>7, <4>1
        <5>1. es = Append(events, W!Left("ASSOC_LEAVE")) /\ es \in Seq(Event)
          BY <1>0, <1>6, <5>0, PostedEvents
        <5>3. events' = events \o (W!Leave \o <<W!Plain("STOP")>>)
          BY <1>10, <2>3 DEF W!network_wlan_active
        <5>2. events' = Append(Append(events, W!Left("ASSOC_LEAVE")), W!Plain("STOP"))
          BY <1>0, <1>6, <3>1, <5>0, <5>3, PostedEvents
        <5> QED
          BY <1>7, <4>1, <5>1, <5>2
      <4>2. CASE driver \notin {"connecting", "connected"}
        <5>0. W!Leave = <<>>
          BY <1>8, <4>2
        <5>1. es = events
          BY <1>0, <5>0
        <5>2. events' = events \o (W!Leave \o <<W!Plain("STOP")>>)
          BY <1>10, <2>3 DEF W!network_wlan_active
        <5>3. events' = Append(events, W!Plain("STOP"))
          BY <1>0, <3>1, <5>0, <5>2, PostedEvents
        <5> QED
          BY <1>0, <1>8, <4>2, <5>1, <5>3 DEF FlagsSettle
      <4> QED
        BY <4>1, <4>2
    <3>3. driver' = "stopped"
      BY <1>10, <2>3 DEF W!network_wlan_active
    <3> HIDE DEF e, es
    <3>4. Settles(events', "START", "STOP", active, FALSE)
      BY <3>1, <3>2, SettlesPosted
    <3>5. Settles(events', "GOT_IP", "DISCONNECTED", connected, FALSE)
      BY <3>1, <3>2, SettlesPosted
    <3> QED
      BY <2>0, <2>3, <3>3, <3>4, <3>5 DEF FlagsSettle, Settles
  <2> QED
    BY <2>0, <2>1, <2>2, <2>3
<1>11. CASE W!Retry \/ W!CheckRequested \/ W!CountRetry
  BY <1>1, <1>11 DEF W!Retry, W!CheckRequested, W!CountRetry
<1>12. CASE UNCHANGED W!vars
  BY <1>1, <1>12 DEF W!vars
<1> QED
  BY <1>1, <1>2, <1>3, <1>4, <1>5, <1>9, <1>10, <1>11, <1>12
     DEF W!Next, W!Calls, W!Proceed, W!Handler, W!ActiveReturns, W!ActiveInterrupted,
         W!network_wlan_connect, W!ConnectCall, W!ConnectRaises, W!ConnectReturns,
         W!network_wlan_disconnect, W!network_wlan_config, W!OtherThread

LEMMA SumBelow ==
    ASSUME NEW r \in Nat, NEW p \in Nat, NEW c \in Nat, NEW b \in Nat, r <= c, p <= b + 5
    PROVE  r + p <= c + b + 5
OBVIOUS

LEMMA SumKept ==
    ASSUME NEW r \in Nat, NEW p \in Nat, NEW q \in Nat, NEW b \in Nat, r + p <= b, q <= p
    PROVE  r + q <= b
OBVIOUS

(* An attempt is decided on only after it was counted, below the limit.    *)
LEMMA TriesNext ==
    ASSUME StationIInv, [W!Next]_(W!vars)
    PROVE  TriesCounted' /\ W!RetriesBounded'
<1>0. /\ conf \in Nat /\ reconnects \in Nat /\ tries \in Nat /\ asked \in Int
      /\ conf' \in Nat /\ reconnects' \in Nat /\ tries' \in Nat /\ asked' \in Int
      /\ TriesCounted /\ W!RetriesBounded
  <2>1. W!TypeOK /\ W!TypeOK' /\ TriesCounted /\ W!RetriesBounded
    BY StationTypes DEF StationIInv
  <2>2. Reconnects \subseteq Int /\ Width \in Nat /\ MaxTries \in Nat
    BY StationAssumption
  <2>3. /\ {conf, reconnects, tries} \subseteq Nat /\ asked \in Int
        /\ {conf, reconnects, tries}' \subseteq Nat /\ asked' \in Int
    BY <2>1, <2>2 DEF W!TypeOK
  <2> QED
    BY <2>1, <2>3
<1> USE DEF TriesCounted, W!RetriesBounded, W!wlan, W!retry
<1>1. ASSUME UNCHANGED <<conf, reconnects, asked, tries, around>>
      PROVE  TriesCounted' /\ W!RetriesBounded'
  BY <1>0, <1>1
<1>2. ASSUME tries' = 0, conf' = conf, asked' = asked PROVE TriesCounted' /\ W!RetriesBounded'
  BY <1>0, <1>2
<1>3. ASSUME NEW n \in Reconnects, W!network_wlan_config(n)
      PROVE  TriesCounted' /\ W!RetriesBounded'
  <2>1. n \in Int /\ Width \in Nat \ {0}
    BY StationAssumption
  <2>2. n >= 0 => (n + 1) % Width <= n + 1
    BY <2>1
  <2>3. n >= 0 => W!ConfiguredAs(n) <= n + 1
    BY <2>1, <2>2 DEF W!ConfiguredAs
  <2>4. conf' = W!ConfiguredAs(n) /\ asked' = n /\ tries' = 0
    BY <1>3 DEF W!network_wlan_config
  <2> QED
    BY <1>0, <2>3, <2>4
<1>4. CASE W!CountRetry
  <2>1. conf' = conf /\ asked' = asked
    BY <1>4 DEF W!CountRetry
  <2>2. CASE conf = 0
    BY <1>0, <2>1, <2>2
  <2>3. CASE conf # 0 /\ around'
    BY <1>0, <2>1, <2>3
  <2>4. CASE conf # 0 /\ ~around'
    <3>1. ~around /\ reconnects' # 0 /\ reconnects' = (reconnects + 1) % Width
      BY <1>4, <2>4 DEF W!CountRetry
    <3>2. reconnects \in 0 .. Width - 1 /\ Width \in Nat \ {0}
      BY StationAssumption DEF StationIInv, W!TypeOK
    <3>3. reconnects' = reconnects + 1
      <4>1. CASE reconnects + 1 < Width
        BY <3>1, <3>2, <4>1
      <4>2. CASE reconnects + 1 = Width
        <5>1. Width % Width = 0
          BY <3>2
        <5> QED
          BY <3>1, <4>2, <5>1
      <4> QED
        BY <3>2, <4>1, <4>2
    <3>4. CASE tries' = tries
      BY <1>0, <2>1, <2>4, <3>1, <3>3, <3>4
    <3>5. CASE tries' = tries + 1 /\ reconnects' < conf
      BY <1>0, <2>1, <2>4, <3>1, <3>3, <3>5
    <3> QED
      BY <1>4, <2>4, <3>4, <3>5 DEF W!CountRetry
  <2> QED
    BY <2>2, <2>3, <2>4
<1>5. ASSUME NEW g \in BOOLEAN, W!network_wlan_connect(g)
      PROVE  TriesCounted' /\ W!RetriesBounded'
  BY <1>2, <1>5 DEF W!network_wlan_connect
<1>6. CASE W!HandleStart
  BY <1>2, <1>6 DEF W!HandleStart
<1> QED
  BY <1>1, <1>3, <1>4, <1>5, <1>6
     DEF W!Next, W!vars, W!Associate, W!Lose, W!Calls, W!Proceed, W!network_wlan_active,
         W!ActiveReturns, W!ActiveInterrupted, W!ConnectCall, W!ConnectRaises,
         W!ConnectReturns, W!network_wlan_disconnect, W!DisconnectCall, W!OtherThread,
         W!Handler, W!HandleStop, W!HandleGotIp, W!HandleDisconnected, W!CheckRequested,
         W!Retry

(* With room to count: a step either begins anew from 0 or keeps the sum   *)
(* of what is counted and what may still be, except when the handler       *)
(* decides on another attempt, and then the count is below its limit.      *)
LEMMA CounterNext ==
    ASSUME NEW C, RoomToCount(C), StationIInv, CounterInv(C), [W!Next]_(W!vars)
    PROVE  CounterInv(C)'
<1>0. /\ C \in Nat /\ MaxEvents \in Nat /\ MaxTries \in Nat /\ Width \in Nat
      /\ C + MaxEvents + 5 < Width /\ Reconnects \subseteq -1 .. C - 1
  BY StationAssumption DEF RoomToCount
<1>1. W!TypeOK /\ FlagsSettle /\ CounterInv(C) /\ W!TypeOK'
  BY StationTypes DEF StationIInv
<1>2. /\ Pending \in Nat /\ events \in Seq(Event)
      /\ Cardinality(Losses(events)) \in Nat
      /\ Pending' \in Nat /\ Pending' <= MaxEvents + 5
      /\ Cardinality(Losses(events')) \in Nat
  <2>1. /\ Pending \in Nat /\ Pending <= Len(events) + 3
        /\ Cardinality(Losses(events)) \in 0 .. Len(events)
        /\ Len(events) \in 0 .. MaxEvents + 2
        /\ events \in Seq(Event)
    BY <1>1, PendingRange
  <2>2. events' \in Seq(Event) /\ Len(events') <= MaxEvents + 2
    BY <1>1 DEF W!TypeOK, Event
  <2>3. Cardinality(Losses(events')) \in 0 .. Len(events') /\ Len(events') \in Nat
    BY <2>2, LossesCounted
  <2>4. Pending' \in Nat /\ Pending' <= MaxEvents + 5
    BY <1>0, <2>2, <2>3 DEF Pending, One
  <2> QED
    BY <1>0, <2>1, <2>3, <2>4
<1>3. /\ reconnects \in Nat /\ tries \in Nat /\ asked \in Int /\ conf \in Nat
      /\ reconnects + Pending <= C + MaxEvents + 5
  BY <1>0, <1>1 DEF W!TypeOK, CounterInv
<1>n. C \in Nat /\ MaxEvents \in Nat /\ C + MaxEvents + 5 \in Nat
  BY <1>0
<1>p. Pending \in Nat /\ Pending' \in Nat /\ Pending' <= MaxEvents + 5
  BY <1>2
<1> USE DEF W!wlan, W!retry
<1>4. ASSUME UNCHANGED <<conf, reconnects, asked, around>>, Pending' <= Pending
      PROVE  CounterInv(C)'
  <2>1. reconnects + Pending' <= C + MaxEvents + 5
    BY <1>n, <1>p, <1>3, <1>4, SumKept
  <2>2. reconnects' + Pending' <= C + MaxEvents + 5
    BY <1>4, <2>1
  <2> QED
    BY <1>1, <1>4, <2>2 DEF CounterInv
<1>5. ASSUME reconnects' = 0, asked' = asked, conf' = conf, around' = FALSE
      PROVE  CounterInv(C)'
  <2>1. reconnects' \in Nat /\ reconnects' <= C
    BY <1>n, <1>5
  <2>2. reconnects' + Pending' <= C + MaxEvents + 5
    BY <1>n, <1>p, <2>1, SumBelow
  <2> QED
    BY <1>1, <1>5, <2>2 DEF CounterInv
<1>6. ASSUME NEW n \in Reconnects, W!network_wlan_config(n)
      PROVE  CounterInv(C)'
  <2>1. n \in -1 .. C - 1
    BY <1>0
  <2>2. n + 1 \in 0 .. Width - 1 /\ (n + 1) % Width = n + 1
    BY <1>0, <2>1
  <2>3. W!ConfiguredAs(n) = n + 1
    BY <2>1, <2>2 DEF W!ConfiguredAs
  <2>4. /\ conf' = n + 1 /\ asked' = n /\ around' = FALSE /\ reconnects' = reconnects
        /\ hpc' = hpc /\ events' = events /\ driver' = driver /\ sta_pc' = sta_pc
    BY <1>6, <2>3 DEF W!network_wlan_config
  <2>5. Pending' = Pending
    BY <2>4 DEF Pending
  <2> QED
    BY <1>0, <1>2, <1>3, <2>1, <2>4, <2>5 DEF CounterInv
<1>7. CASE W!CountRetry
  <2>0. /\ UNCHANGED <<driver, events, sta_pc, conf, asked>>
        /\ hpc = "count" /\ hpc' \in {"wait", "retry"}
    BY <1>7 DEF W!CountRetry
  <2>1. CASE conf = 0
    <3>1. Pending' = Pending /\ reconnects' = reconnects
      BY <1>7, <2>0, <2>1 DEF Pending, One, W!CountRetry
    <3>2. around' = around
      BY <1>1, <1>7, <2>1 DEF W!CountRetry, CounterInv, W!TypeOK
    <3> QED
      BY <1>4, <1>p, <2>0, <3>1, <3>2
  <2>2. CASE conf # 0
    <3>0. One(hpc # "wait") = 1 /\ Pending >= 1
      BY <2>0, <1>2 DEF One, Pending
    <3>1. reconnects + 1 < Width /\ (reconnects + 1) % Width = reconnects + 1
      BY <1>0, <1>2, <1>3, <3>0
    <3>2. reconnects' = reconnects + 1 /\ ~around'
      <4>1. reconnects' = reconnects + 1
        BY <1>7, <2>2, <3>1 DEF W!CountRetry
      <4>2. reconnects' # 0
        BY <1>3, <4>1
      <4> QED
        BY <1>1, <1>7, <4>1, <4>2 DEF W!CountRetry, CounterInv
    <3>3. CASE hpc' = "wait"
      <4>1. Pending' = Pending - 1
        BY <1>2, <2>0, <3>3 DEF Pending, One
      <4> QED
        BY <1>0, <1>1, <1>2, <1>3, <2>0, <3>2, <4>1 DEF CounterInv
    <3>4. CASE hpc' = "retry"
      <4>1. reconnects' < conf
        BY <1>3, <1>7, <2>2, <3>2, <3>4 DEF W!CountRetry
      <4>2. reconnects' + Pending' <= C + MaxEvents + 5
        <5>1. conf <= C
          BY <1>1, <1>n DEF CounterInv
        <5>2. reconnects' \in Nat /\ reconnects' <= C
          BY <5>1, <1>n, <1>3, <3>2, <4>1
        <5> QED
          BY <1>n, <1>p, <5>2, SumBelow
      <4> QED
        BY <1>1, <2>0, <3>2, <4>2 DEF CounterInv
    <3> QED
      BY <2>0, <3>3, <3>4
  <2> QED
    BY <2>1, <2>2
<1>8. CASE W!Retry
  <2>1. Pending' <= Pending
    BY <1>2, <1>8 DEF Pending, One, W!Retry
  <2> QED
    BY <1>4, <1>8, <2>1 DEF W!Retry
<1>9. CASE W!Associate
  <2> DEFINE e == W!Plain("GOT_IP")
  <2>1. e \in Event /\ e.type = "GOT_IP" /\ events' = Append(events, e)
    BY <1>2, <1>9, EventKinds, PostedEvents DEF W!Associate, W!Post
  <2> HIDE DEF e
  <2>2. Cardinality(Losses(events')) = Cardinality(Losses(events))
    BY <1>2, <2>1, LossPosted DEF Lost, One
  <2>3. Pending' = Pending
    BY <1>9, <2>2 DEF W!Associate, Pending, One
  <2> QED
    BY <1>2, <1>4, <1>9, <2>3 DEF W!Associate
<1>10. ASSUME NEW r \in W!Reason \ {"ASSOC_LEAVE"}, W!Lose(r)
       PROVE  CounterInv(C)'
  <2> DEFINE e == W!Left(r)
  <2>1. e \in Event /\ e.type = "DISCONNECTED" /\ events' = Append(events, e)
    BY <1>2, <1>10, EventKinds, PostedEvents DEF W!Lose, W!Post
  <2> HIDE DEF e
  <2>2. Cardinality(Losses(events')) = Cardinality(Losses(events)) + 1
    BY <1>2, <2>1, LossPosted DEF Lost, One
  <2>3. Pending' = Pending
    BY <1>2, <1>10, <2>2 DEF W!Lose, Pending, One
  <2> QED
    BY <1>2, <1>4, <1>10, <2>3 DEF W!Lose
<1>11. CASE W!HandleStop \/ W!HandleGotIp
  <2>1. events # <<>> /\ events' = Tail(events) /\ UNCHANGED <<driver, hpc, sta_pc>>
    BY <1>11 DEF W!HandleStop, W!HandleGotIp, W!Handling
  <2>2. Cardinality(Losses(events')) <= Cardinality(Losses(events))
    <3>1. Cardinality(Losses(events')) + Lost(events[1]) <= Cardinality(Losses(events))
      BY <1>2, <2>1, LossHandled
    <3>2. Lost(events[1]) \in Nat
      BY DEF Lost, One
    <3> QED
      BY <1>2, <3>1, <3>2
  <2>3. Pending' <= Pending
    BY <1>2, <2>1, <2>2 DEF Pending, One
  <2> QED
    BY <1>4, <1>11, <2>1, <2>3 DEF W!HandleStop, W!HandleGotIp
<1>12. CASE W!HandleDisconnected
  <2>1. /\ events # <<>> /\ events' = Tail(events) /\ events[1].type = "DISCONNECTED"
        /\ UNCHANGED <<driver, sta_pc>> /\ hpc = "wait" /\ hpc' = "lost"
    BY <1>12 DEF W!HandleDisconnected, W!Handling
  <2>2. Cardinality(Losses(events')) + 1 <= Cardinality(Losses(events))
    <3>1. Cardinality(Losses(events')) + Lost(events[1]) <= Cardinality(Losses(events))
      BY <1>2, <2>1, LossHandled
    <3>2. Lost(events[1]) = 1
      BY <2>1 DEF Lost, One
    <3> QED
      BY <1>2, <3>1, <3>2
  <2>3. Pending' <= Pending
    BY <1>2, <2>1, <2>2 DEF Pending, One
  <2> QED
    BY <1>4, <1>12, <2>1, <2>3 DEF W!HandleDisconnected
<1>13. W!Left("ASSOC_LEAVE") \in Event /\ W!Left("ASSOC_LEAVE").type = "DISCONNECTED"
  BY EventKinds DEF W!Reason
<1>14. CASE W!DisconnectCall
  <2>1. CASE driver \in {"connecting", "connected"}
    <3> DEFINE e == W!Left("ASSOC_LEAVE")
    <3>1. events' = Append(events, e)
      BY <1>2, <1>13, <1>14, <2>1, PostedEvents DEF W!DisconnectCall, W!Post, W!Leave
    <3> HIDE DEF e
    <3>2. Cardinality(Losses(events')) = Cardinality(Losses(events)) + 1
      BY <1>2, <1>13, <3>1, LossPosted DEF Lost, One, e
    <3>3. Pending' <= Pending
      BY <1>2, <1>14, <2>1, <3>2 DEF W!DisconnectCall, Pending, One
    <3> QED
      BY <1>4, <1>14, <3>3 DEF W!DisconnectCall
  <2>2. CASE driver \notin {"connecting", "connected"}
    <3>1. events' = events
      BY <1>2, <1>14, <2>2 DEF W!DisconnectCall, W!Post, W!Leave
    <3>3. Pending' <= Pending
      BY <1>2, <1>14, <2>2, <3>1 DEF W!DisconnectCall, Pending, One
    <3> QED
      BY <1>4, <1>14, <3>3 DEF W!DisconnectCall
  <2> QED
    BY <2>1, <2>2
<1>15. ASSUME NEW on \in BOOLEAN, W!network_wlan_active(on)
       PROVE  CounterInv(C)'
  <2>0. /\ UNCHANGED <<conf, reconnects, asked, around, hpc>>
        /\ sta_pc = "python" /\ sta_pc' = "activating" /\ started \in BOOLEAN
    BY <1>1, <1>15 DEF W!network_wlan_active, W!TypeOK
  <2>1. CASE on = started
    <3>1. events' = events /\ driver' = driver
      BY <1>2, <1>15, <2>0, <2>1 DEF W!network_wlan_active, W!Post
    <3>2. Pending' <= Pending
      BY <1>2, <2>0, <3>1 DEF Pending, One
    <3> QED
      BY <1>4, <2>0, <3>2
  <2>2. CASE on /\ ~started
    <3> DEFINE e == W!Plain("START")
    <3>1. e \in Event /\ e.type = "START" /\ events' = Append(events, e)
      BY <1>2, <1>15, <2>2, EventKinds, PostedEvents DEF W!network_wlan_active, W!Post
    <3> HIDE DEF e
    <3>2. Cardinality(Losses(events')) = Cardinality(Losses(events))
      BY <1>2, <3>1, LossPosted DEF Lost, One
    <3>3. driver' = "idle"
      BY <1>15, <2>2 DEF W!network_wlan_active
    <3>4. Pending' <= Pending
      BY <1>2, <2>0, <3>2, <3>3 DEF Pending, One
    <3> QED
      BY <1>4, <2>0, <3>4
  <2>3. CASE ~on /\ started
    <3> DEFINE e == W!Plain("STOP")
               d == W!Left("ASSOC_LEAVE")
    <3>1. /\ e \in Event /\ e.type = "STOP" /\ d \in Event /\ d.type = "DISCONNECTED"
          /\ events' = events \o (W!Leave \o <<e>>) /\ driver' = "stopped"
      BY <1>13, <1>15, <2>3, EventKinds DEF W!network_wlan_active, W!Post
    <3>2. CASE driver \in {"connecting", "connected"}
      <4>1. W!Leave = <<d>>
        BY <3>2 DEF W!Leave
      <4> HIDE DEF e, d
      <4> DEFINE es == Append(events, d)
      <4>2. events' = Append(es, e) /\ es \in Seq(Event)
        BY <1>2, <3>1, <4>1, PostedEvents, SMTT(30)
      <4>4. Cardinality(Losses(es)) = Cardinality(Losses(events)) + 1
        BY <1>2, <3>1, LossPosted DEF Lost, One
      <4> HIDE DEF es
      <4>3. Cardinality(Losses(events')) = Cardinality(Losses(es))
        <5>1. Lost(e) = 0 /\ e \in Event
          BY <3>1 DEF Lost, One
        <5>2. Cardinality(Losses(es)) \in Nat
          BY <1>2, <4>4
        <5> QED
          BY <4>2, <5>1, <5>2, LossPosted
      <4>5. Pending' <= Pending
        BY <1>2, <2>0, <3>1, <3>2, <4>3, <4>4 DEF Pending, One
      <4> QED
        BY <1>4, <2>0, <4>5
    <3>3. CASE driver \notin {"connecting", "connected"}
      <4>1. W!Leave = <<>>
        BY <3>3 DEF W!Leave
      <4> HIDE DEF e, d
      <4>2. events' = Append(events, e)
        BY <1>2, <3>1, <4>1, PostedEvents
      <4>3. Cardinality(Losses(events')) = Cardinality(Losses(events))
        <5>1. Lost(e) = 0 /\ e \in Event
          BY <3>1 DEF Lost, One
        <5> QED
          BY <1>2, <4>2, <5>1, LossPosted
      <4>4. Pending' <= Pending
        BY <1>2, <2>0, <3>1, <3>3, <4>3 DEF Pending, One
      <4> QED
        BY <1>4, <2>0, <4>4
    <3> QED
      BY <3>2, <3>3
  <2> QED
    BY <2>0, <2>1, <2>2, <2>3
<1>16. CASE W!ConnectCall
  <2>1. Pending' <= Pending
    BY <1>2, <1>16 DEF W!ConnectCall, Pending, One
  <2> QED
    BY <1>4, <1>16, <2>1 DEF W!ConnectCall
<1>17. CASE W!CheckRequested
  <2>1. Pending' <= Pending
    BY <1>2, <1>17 DEF W!CheckRequested, Pending, One
  <2> QED
    BY <1>4, <1>17, <2>1 DEF W!CheckRequested
<1>18. CASE \/ W!ActiveReturns \/ W!ActiveInterrupted \/ W!ConnectRaises \/ W!ConnectReturns
            \/ W!network_wlan_disconnect \/ W!OtherThread
  <2>1. /\ UNCHANGED <<driver, events, conf, reconnects, asked, around, hpc>>
        /\ sta_pc' = "connecting" => sta_pc = "connecting"
    BY <1>18 DEF W!ActiveReturns, W!ActiveInterrupted, W!ConnectRaises, W!ConnectReturns,
       W!network_wlan_disconnect, W!OtherThread
  <2>2. Pending' <= Pending
    BY <1>2, <2>1 DEF Pending, One
  <2> QED
    BY <1>4, <2>1, <2>2
<1>19. CASE UNCHANGED W!vars
  <2>1. UNCHANGED <<driver, events, conf, reconnects, asked, around, hpc, sta_pc>>
    BY <1>19 DEF W!vars
  <2>2. Pending' <= Pending
    BY <1>2, <2>1 DEF Pending
  <2> QED
    BY <1>4, <2>1, <2>2
<1>20. CASE W!HandleStart
  BY <1>5, <1>20 DEF W!HandleStart
<1>21. ASSUME NEW g \in BOOLEAN, W!network_wlan_connect(g)
       PROVE  CounterInv(C)'
  BY <1>5, <1>21 DEF W!network_wlan_connect
<1> QED
  BY <1>6, <1>7, <1>8, <1>9, <1>10, <1>11, <1>12, <1>14, <1>15, <1>16, <1>17, <1>18,
     <1>19, <1>20, <1>21 DEF W!Next, W!Calls, W!Proceed, W!Handler

(* With every event handled isconnected() and active() tell the state of   *)
(* the driver (network_wlan.c:83-160), and the station does not decide to  *)
(* try more often than config(reconnects) says (network_wlan.c:147-159,    *)
(* 599): for every width of the counter, every setting and any number of   *)
(* waiting events.  The two exceptions are those of the code: a setting    *)
(* that comes round to 0 is "for ever", and a counter that comes round     *)
(* begins again.                                                           *)
THEOREM StationAlwaysSound == W!Spec => []StationInv
<1>1. StationIInv /\ [W!Next]_(W!vars) => StationIInv'
  BY StationTypes, FlagsNext, TriesNext DEF StationIInv
<1>2. StationIInv => StationInv
  BY DEF StationInv, StationIInv, W!StationInv, W!FlagsFollowDriver, W!Quiet, W!TypeOK,
     FlagsSettle, Settles
<1> QED
  BY InitStationIInv, <1>1, <1>2, PTL DEF W!Spec

(* The bound on the attempts, without an exception.                        *)
NeverMoreThanAsked == asked >= 0 => tries <= asked

(* The exceptions need a setting near the byte's limit: with settings that *)
(* leave room in the counter for the losses that may wait, neither comes   *)
(* round, and the station never decides on more attempts than it was asked *)
(* for (network_wlan.c:147-159).                                           *)
THEOREM RetriesWithRoom ==
    ASSUME NEW C, RoomToCount(C)
    PROVE  W!Spec => []NeverMoreThanAsked
<1> DEFINE I == StationIInv /\ CounterInv(C)
<1>1. W!Init => I
  BY InitStationIInv, InitCounterInv
<1>2. I /\ [W!Next]_(W!vars) => I'
  BY StationTypes, FlagsNext, TriesNext, CounterNext DEF StationIInv
<1>3. I => NeverMoreThanAsked
  BY DEF StationIInv, CounterInv, W!RetriesBounded, NeverMoreThanAsked
<1> HIDE DEF I
<1> QED
  BY <1>1, <1>2, <1>3, PTL DEF W!Spec
====
