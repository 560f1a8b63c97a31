---- MODULE AppInstaller ----
(***************************************************************************)
(* Installing apps over the network: the five operations of                *)
(* process_modules/app_downloader.py, stepped through with the "ok" key in *)
(* apps/settings/download_updates.py, and the menu of installed apps       *)
(* (apps/root/installed_apps.py), which reads the list through a database  *)
(* object of its own.  Requests fail, responses get lost, the user leaves  *)
(* with "back" and the device loses power or falls asleep at any moment.   *)
(* The server is external: it hands out the oldest pending app, with its   *)
(* name and its code, and forgets it on confirmation.  The file system     *)
(* (littlefs) creates a file when it is opened and commits its content     *)
(* when it is closed.                                                      *)
(***************************************************************************)
EXTENDS Integers, Sequences

CONSTANTS App,        \* apps the server may offer
          Shipped,    \* apps the device is shipped with, in their order
          MaxPushes,  \* bound: how often the server offers an app
          None        \* no app name; a cache without the list

ASSUME ShippedAssumption == /\ Shipped \in Seq(App)
                            /\ \A i, j \in 1 .. Len(Shipped) :
                                 Shipped[i] = Shipped[j] => i = j
ASSUME NoneAssumption == None \notin App /\ None \notin Seq(App)
ASSUME PushAssumption == MaxPushes \in Nat

VARIABLES pending,       \* server: apps to be fetched by this device
          pushed,        \* server: every app it ever offered
          pushes,        \* server: how many offers it made
          files,         \* files[a]: /apps/installed_apps/a.py
          listed,        \* db/installed_apps.json
          screen,        \* the app that runs
          operation_no,  \* local of download_updates
          app_name,      \* App_downloader.app_name
          handle,        \* "open" while download_app has its file open
          query_cache,   \* apps_installer's cached search result, or None
          menu_list      \* the menu installed_apps shows

server == <<pending, pushed, pushes>>
storage == <<files, listed>>
download == <<operation_no, app_name, handle>>
vars == <<server, storage, screen, download, query_cache, menu_list>>

IsListed(a) == \E i \in 1 .. Len(listed) : listed[i] = a
Complete(a) == files[a] = "code"

Init ==
    /\ pending = <<>> /\ pushed = {} /\ pushes = 0
    /\ listed = Shipped
    /\ files = [a \in App |-> IF \E i \in 1 .. Len(Shipped) : Shipped[i] = a
                              THEN "code" ELSE "none"]
    /\ screen = "settings"
    /\ operation_no = 0
    /\ app_name = None
    /\ handle = "closed"
    /\ query_cache = None
    /\ menu_list = <<>>
-----------------------------------------------------------------------------
(* The server offers an app, or a new version of one.                      *)
Offer(a) ==
    /\ pushes < MaxPushes
    /\ \A i \in 1 .. Len(pending) : pending[i] # a
    /\ pending' = Append(pending, a)
    /\ pushed' = pushed \cup {a}
    /\ pushes' = pushes + 1
    /\ UNCHANGED <<storage, screen, download, query_cache, menu_list>>
-----------------------------------------------------------------------------
(* Order in which "ok" calls the operations.                               *)
ConfirmsFirst == <<"check_status", "download_app", "send_confirmation",
                   "update_app_list", "reset">>
operations == <<"check_status", "download_app", "update_app_list",
                "send_confirmation", "reset">>

(* "ok" calls the operation that is next, unless it is already running.    *)
Call(op) ==
    /\ screen = "download_updates"
    /\ operation_no < 5
    /\ operations[operation_no + 1] = op
    /\ handle = "closed"

(* An operation returned: the next screen.                                 *)
Advance ==
    /\ operation_no' = operation_no + 1
    /\ UNCHANGED screen

(* "back", an exception or nothing to download: settings.                  *)
Leave ==
    /\ screen' = "settings"
    /\ handle' = "closed"
    /\ UNCHANGED operation_no

OpenDownloadUpdates ==
    /\ screen = "settings"
    /\ screen' = "download_updates"
    /\ operation_no' = 0
    /\ app_name' = None
    /\ UNCHANGED <<server, storage, handle, query_cache, menu_list>>

Back ==
    /\ screen = "download_updates"
    /\ handle = "closed"
    /\ Leave
    /\ UNCHANGED <<server, storage, app_name, query_cache, menu_list>>

(* The except clause of download_updates: a request that fails or whose    *)
(* answer is lost or has no such app, a write that fails.  littlefs marks  *)
(* the file of a failed write, and commits nothing when the finaliser      *)
(* closes it later (lfs2.c:3431-3434).                                     *)
OperationRaises ==
    /\ screen = "download_updates"
    /\ operation_no < 4
    /\ Leave
    /\ UNCHANGED <<server, storage, app_name, query_cache, menu_list>>

check_status ==
    /\ Call("check_status")
    /\ \/ /\ pending # <<>>
          /\ Advance
          /\ UNCHANGED handle
       \/ /\ pending = <<>>
          /\ Leave
    /\ UNCHANGED <<server, storage, app_name, query_cache, menu_list>>

(* The file a name opens for writing: a new file exists at once, an old    *)
(* one keeps its content until the new one is closed.                      *)
OpenForWriting(a) == [files EXCEPT ![a] = IF @ = "none" THEN "empty" ELSE @]

download_app_open ==
    /\ Call("download_app")
    /\ pending # <<>>
    /\ app_name' = Head(pending)
    /\ files' = OpenForWriting(Head(pending))
    /\ handle' = "open"
    /\ UNCHANGED <<server, listed, screen, operation_no, query_cache, menu_list>>

download_app_without_close ==
    /\ handle = "open"
    /\ handle' = "closed"
    /\ Advance
    /\ UNCHANGED <<server, storage, app_name, query_cache, menu_list>>

download_app_close ==
    /\ handle = "open"
    /\ files' = [files EXCEPT ![app_name] = "code"]
    /\ handle' = "closed"
    /\ Advance
    /\ UNCHANGED <<server, listed, app_name, query_cache, menu_list>>

insert_new_app(a) == IF IsListed(a) THEN listed ELSE Append(listed, a)

update_app_list ==
    /\ Call("update_app_list")
    /\ listed' = insert_new_app(app_name)
    /\ Advance
    /\ UNCHANGED <<server, files, app_name, handle, query_cache, menu_list>>

(* confirm-download names the device, not the app.  The answer may be      *)
(* lost after the server has acted on the request.                         *)
send_confirmation ==
    /\ Call("send_confirmation")
    /\ pending # <<>>
    /\ pending' = Tail(pending)
    /\ \/ Advance /\ UNCHANGED handle
       \/ Leave
    /\ UNCHANGED <<pushed, pushes, storage, app_name, query_cache, menu_list>>
-----------------------------------------------------------------------------
(* The last operation, a power loss or the deep sleep of the watchdog.     *)
Reboot ==
    /\ screen' = "settings"
    /\ operation_no' = 0
    /\ app_name' = None
    /\ handle' = "closed"
    /\ query_cache' = None
    /\ menu_list' = <<>>
    /\ UNCHANGED <<server, storage>>

reset == Call("reset") /\ Reboot

Crash == Reboot
-----------------------------------------------------------------------------

(* get_group_apps of the database object made at boot: TinyDB answers a    *)
(* repeated search from its cache, which only its own writes clear.        *)
get_group_apps == IF query_cache = None THEN listed ELSE query_cache

OpenInstalledApps ==
    /\ screen = "settings"
    /\ screen' = "installed_apps"
    /\ menu_list' = get_group_apps
    /\ query_cache' = get_group_apps
    /\ UNCHANGED <<server, storage, download>>

(* "back", or "ok" on an app that then ran to its end.                     *)
LeaveInstalledApps ==
    /\ screen = "installed_apps"
    /\ screen' = "settings"
    /\ UNCHANGED <<server, storage, download, query_cache, menu_list>>

Next ==
    \/ \E a \in App : Offer(a)
    \/ OpenDownloadUpdates \/ Back \/ OperationRaises
    \/ check_status \/ download_app_open \/ download_app_close
    \/ update_app_list \/ send_confirmation \/ reset
    \/ Crash
    \/ OpenInstalledApps \/ LeaveInstalledApps

Spec == Init /\ [][Next]_vars
-----------------------------------------------------------------------------
(* Type invariant of the installer, the files and the server.              *)
TypeOK ==
    /\ pending \in Seq(App)
    /\ pushed \subseteq App
    /\ pushes \in 0 .. MaxPushes
    /\ files \in [App -> {"none", "empty", "code"}]
    /\ listed \in Seq(App)
    /\ screen \in {"settings", "download_updates", "installed_apps"}
    /\ operation_no \in 0 .. 4
    /\ app_name \in App \cup {None}
    /\ handle \in {"open", "closed"}
    /\ query_cache \in Seq(App) \cup {None}
    /\ menu_list \in Seq(App)

(* An app that is listed, or that the menu offers from its cache, can be   *)
(* imported: no failure or power loss between the operations leaves a name *)
(* without its code (app_downloader.py:77-99, app_runner.py:11-17).        *)
ListedAppsRun ==
    /\ \A i \in 1 .. Len(listed) : Complete(listed[i])
    /\ \A i \in 1 .. Len(menu_list) : Complete(menu_list[i])

(* No app gets lost: what the server has forgotten is on the device and    *)
(* listed, whichever request or answer was lost (app_downloader.py:97-107).*)
NothingLost ==
    \A a \in pushed : \/ \E i \in 1 .. Len(pending) : pending[i] = a
                      \/ IsListed(a) /\ Complete(a)

(* However often an installation is repeated, no app is listed twice       *)
(* (app_downloader.py:33-40).                                              *)
ListedOnce == \A i, j \in 1 .. Len(listed) : listed[i] = listed[j] => i = j

(* get_group_apps is to "read current apps" (app_downloader.py:26): the    *)
(* menu that opens shows the apps that are listed.                         *)
MenuIsCurrent == screen = "installed_apps" => menu_list = listed
=============================================================================
