---- MODULE Network_proofs ----
(***************************************************************************)
(* Proofs about what the device exchanges with others.  The installer, for *)
(* any set of apps, any list the device is shipped with and any number of  *)
(* offers, failures and power losses.  The lock-free ring, for every size  *)
(* and every set of bytes: what one side copies the other leaves alone,    *)
(* and the ring is a bounded FIFO.  Receiving with ESP-NOW, for any        *)
(* threads, messages and size of the ring: messages come whole and in      *)
(* order.  Sending, for any threads and peers: the counters balance and    *)
(* what send() answers is true.                                            *)
(***************************************************************************)
EXTENDS Network, SequenceTheorems, FiniteSetTheorems, TLAPS

In(a, s) == \E i \in 1 .. Len(s) : s[i] = a

(* What the progress of an installation stands for: from the check to the  *)
(* confirmation the server's oldest offer stays the same, from the         *)
(* download on its code is on the device, and at the confirmation its name *)
(* is listed.                                                              *)
Progress ==
    /\ handle = "open" =>
         /\ screen = "download_updates" /\ operation_no = 1
         /\ pending # <<>> /\ app_name = Head(pending)
    /\ screen = "download_updates" /\ operation_no \in {2, 3} =>
         /\ pending # <<>> /\ app_name = Head(pending)
         /\ Complete(app_name)
    /\ screen = "download_updates" /\ operation_no = 3 => IsListed(app_name)

CacheRuns == query_cache # None =>
                 \A i \in 1 .. Len(query_cache) : Complete(query_cache[i])

InstallIInv == /\ TypeOK
        /\ Progress
        /\ ListedAppsRun
        /\ CacheRuns
        /\ NothingLost
        /\ ListedOnce
-----------------------------------------------------------------------------
(* Membership in the lists the installer builds.                           *)
LEMMA InAppend ==
    ASSUME NEW s \in Seq(App), NEW a \in App
    PROVE  /\ Append(s, a) \in Seq(App)
           /\ In(a, Append(s, a))
           /\ \A b : In(b, s) => In(b, Append(s, a))
           /\ \A i \in 1 .. Len(Append(s, a)) : Append(s, a)[i] = a \/ In(Append(s, a)[i], s)
<1>1. Append(s, a)[Len(s) + 1] = a /\ Len(s) + 1 \in 1 .. Len(Append(s, a))
  OBVIOUS
<1>2. \A i \in 1 .. Len(s) : Append(s, a)[i] = s[i] /\ i \in 1 .. Len(Append(s, a))
  OBVIOUS
<1>3. \A i \in 1 .. Len(Append(s, a)) : i = Len(s) + 1 \/ i \in 1 .. Len(s)
  OBVIOUS
<1> QED
  BY <1>1, <1>2, <1>3 DEF In

(* A member of a sequence is its head or in its tail.                      *)
LEMMA InTail ==
    ASSUME NEW s \in Seq(App), s # <<>>, NEW a, In(a, s)
    PROVE  a = Head(s) \/ In(a, Tail(s))
<1>1. PICK i \in 1 .. Len(s) : s[i] = a
  BY DEF In
<1>2. CASE i = 1
  BY <1>1, <1>2
<1>3. CASE i # 1
  <2>1. i - 1 \in 1 .. Len(Tail(s)) /\ Tail(s)[i - 1] = s[i]
    BY <1>3
  <2> QED
    BY <1>1, <2>1 DEF In
<1> QED
  BY <1>2, <1>3

(* An app that is not in a list without repetitions can be appended.       *)
LEMMA AppendOnce ==
    ASSUME NEW s \in Seq(App), NEW a \in App, ~In(a, s),
           \A i, j \in 1 .. Len(s) : s[i] = s[j] => i = j
    PROVE  \A i, j \in 1 .. Len(Append(s, a)) :
               Append(s, a)[i] = Append(s, a)[j] => i = j
<1>1. \A i \in 1 .. Len(Append(s, a)) :
         \/ i = Len(s) + 1 /\ Append(s, a)[i] = a
         \/ i \in 1 .. Len(s) /\ Append(s, a)[i] = s[i]
  OBVIOUS
<1> QED
  BY <1>1 DEF In

(* A device as shipped satisfies the invariant.                            *)
LEMMA InitInstallIInv == Init => InstallIInv
<1> SUFFICES ASSUME Init PROVE InstallIInv
  OBVIOUS
<1>1. TypeOK
  BY ShippedAssumption, PushAssumption DEF Init, TypeOK
<1>2. ListedAppsRun /\ ListedOnce
  <2>1. \A i \in 1 .. Len(listed) : Complete(listed[i])
    BY ShippedAssumption DEF Init, Complete
  <2>2. \A i \in 1 .. Len(menu_list) : Complete(menu_list[i])
    BY DEF Init
  <2> QED
    BY <2>1, <2>2, ShippedAssumption DEF Init, ListedAppsRun, ListedOnce
<1> QED
  BY <1>1, <1>2 DEF Init, InstallIInv, Progress, CacheRuns, NothingLost
-----------------------------------------------------------------------------
(* Steps that leave the server, the files and the lists alone keep what is *)
(* said of them.                                                           *)
LEMMA StorageKept ==
    ASSUME InstallIInv, UNCHANGED <<server, storage>>,
           menu_list' \in {menu_list, <<>>}, query_cache' \in {query_cache, None}
    PROVE  ListedAppsRun' /\ CacheRuns' /\ NothingLost' /\ ListedOnce'
<1>1. ListedOnce'
  BY DEF InstallIInv, ListedOnce, storage
<1>2. NothingLost'
  BY DEF InstallIInv, NothingLost, server, storage, IsListed, Complete
<1>3. ListedAppsRun'
  BY DEF InstallIInv, ListedAppsRun, storage, Complete
<1>4. CacheRuns'
  BY DEF InstallIInv, CacheRuns, storage, Complete
<1> QED
  BY <1>1, <1>2, <1>3, <1>4

(* Every step keeps it.                                                    *)
LEMMA InstallNext == InstallIInv /\ [Next]_vars => InstallIInv'
<1> SUFFICES ASSUME InstallIInv, [Next]_vars PROVE InstallIInv'
  OBVIOUS
<1>0. /\ pending \in Seq(App) /\ pushed \subseteq App /\ pushes \in 0 .. MaxPushes
      /\ files \in [App -> {"none", "empty", "code"}] /\ listed \in Seq(App)
      /\ operation_no \in 0 .. 4 /\ app_name \in App \cup {None}
      /\ query_cache \in Seq(App) \cup {None} /\ menu_list \in Seq(App)
  BY DEF InstallIInv, TypeOK
<1>1. ASSUME NEW a \in App, Offer(a) PROVE InstallIInv'
  <2>1. TypeOK'
    BY <1>1, PushAssumption DEF Offer, InstallIInv, TypeOK, storage, download
  <2>2. pending # <<>> => Head(pending') = Head(pending) /\ pending' # <<>>
    BY <1>0, <1>1 DEF Offer
  <2>3. Progress'
    BY <1>1, <2>2 DEF Offer, InstallIInv, Progress, storage, download, IsListed, Complete
  <2>4. ListedAppsRun' /\ CacheRuns' /\ ListedOnce'
    BY <1>1 DEF Offer, InstallIInv, ListedAppsRun, CacheRuns, ListedOnce, storage, Complete
  <2>5. NothingLost'
    <3>1. \A b : In(b, pending) => In(b, pending')
      BY <1>0, <1>1, InAppend DEF Offer
    <3>2. In(a, pending')
      BY <1>0, <1>1, InAppend DEF Offer
    <3> QED
      BY <1>1, <3>1, <3>2 DEF Offer, InstallIInv, NothingLost, In, storage, IsListed, Complete
  <2> QED
    BY <2>1, <2>3, <2>4, <2>5 DEF InstallIInv
<1>2. CASE OpenDownloadUpdates
  <2>1. TypeOK' /\ Progress'
    BY <1>2 DEF OpenDownloadUpdates, InstallIInv, TypeOK, Progress, server, storage
  <2> QED
    BY <1>2, <2>1, StorageKept DEF OpenDownloadUpdates, InstallIInv
<1>3. CASE Back \/ OperationRaises
  <2>1. TypeOK' /\ Progress'
    BY <1>3 DEF Back, OperationRaises, Leave, InstallIInv, TypeOK, Progress, server, storage
  <2> QED
    BY <1>3, <2>1, StorageKept DEF Back, OperationRaises, InstallIInv
<1>4. CASE check_status
  <2>1. operation_no = 0
    BY <1>0, <1>4 DEF check_status, Call, operations
  <2>2. TypeOK'
    BY <1>4, <2>1 DEF check_status, Advance, Leave, InstallIInv, TypeOK, server, storage
  <2>3. Progress'
    BY <1>4, <2>1 DEF check_status, Call, Advance, Leave, InstallIInv, Progress
  <2> QED
    BY <1>4, <2>2, <2>3, StorageKept DEF check_status, InstallIInv
<1>5. ASSUME NEW a \in App, NEW c \in {"empty", "code"},
             files' = [files EXCEPT ![a] = c], files[a] = "code" => c = "code"
      PROVE  \A b \in App : Complete(b) => Complete(b)'
  BY <1>0, <1>5 DEF Complete
<1>6. ASSUME \A b \in App : Complete(b) => Complete(b)',
             UNCHANGED <<listed, menu_list, query_cache, server>>
      PROVE  ListedAppsRun' /\ CacheRuns' /\ NothingLost' /\ ListedOnce'
  <2>1. ListedAppsRun'
    BY <1>0, <1>6 DEF InstallIInv, ListedAppsRun
  <2>2. CacheRuns'
    BY <1>0, <1>6 DEF InstallIInv, CacheRuns
  <2>3. NothingLost'
    BY <1>0, <1>6 DEF InstallIInv, NothingLost, server, IsListed
  <2>4. ListedOnce'
    BY <1>6 DEF InstallIInv, ListedOnce
  <2> QED
    BY <2>1, <2>2, <2>3, <2>4
<1>7. CASE download_app_open
  <2>0. operation_no = 1 /\ screen = "download_updates" /\ handle = "closed"
    BY <1>0, <1>7 DEF download_app_open, Call, operations
  <2>1. Head(pending) \in App /\ pending # <<>>
    BY <1>0, <1>7 DEF download_app_open
  <2>2. PICK c \in {"empty", "code"} :
          /\ files' = [files EXCEPT ![Head(pending)] = c]
          /\ files[Head(pending)] = "code" => c = "code"
    BY <1>0, <1>7, <2>1 DEF download_app_open, OpenForWriting
  <2>3. \A b \in App : Complete(b) => Complete(b)'
    BY <1>5, <2>1, <2>2
  <2>4. TypeOK'
    BY <1>0, <1>7, <2>1, <2>2 DEF download_app_open, InstallIInv, TypeOK, server
  <2>5. Progress'
    BY <1>7, <2>0, <2>1 DEF download_app_open, Progress, server
  <2> QED
    BY <1>6, <1>7, <2>3, <2>4, <2>5 DEF download_app_open, InstallIInv
<1>8. CASE download_app_close
  <2>0. /\ handle = "open" /\ handle' = "closed" /\ operation_no = 1
        /\ operation_no' = 2 /\ screen' = screen /\ app_name' = app_name
        /\ UNCHANGED server /\ pending # <<>> /\ app_name = Head(pending)
    BY <1>8 DEF download_app_close, Advance, InstallIInv, Progress
  <2>1. app_name \in App
    BY <1>0, <2>0
  <2>2. files' = [files EXCEPT ![app_name] = "code"]
    BY <1>8 DEF download_app_close
  <2>3. \A b \in App : Complete(b) => Complete(b)'
    BY <1>5, <2>1, <2>2
  <2>4. TypeOK'
    BY <1>0, <1>8, <2>0, <2>2 DEF download_app_close, InstallIInv, TypeOK, server
  <2>5. Progress'
    BY <1>0, <2>0, <2>1, <2>2 DEF Progress, server, Complete
  <2> QED
    BY <1>6, <1>8, <2>3, <2>4, <2>5 DEF download_app_close, InstallIInv
<1>9. CASE update_app_list
  <2>0. /\ operation_no = 2 /\ operation_no' = 3 /\ screen = "download_updates"
        /\ handle = "closed"
        /\ UNCHANGED <<server, files, app_name, handle, query_cache, menu_list, screen>>
    BY <1>0, <1>9 DEF update_app_list, Call, operations, Advance
  <2>1. pending # <<>> /\ app_name = Head(pending) /\ Complete(app_name) /\ app_name \in App
    BY <1>0, <2>0 DEF InstallIInv, Progress
  <2>2. listed' = IF In(app_name, listed) THEN listed ELSE Append(listed, app_name)
    BY <1>9 DEF update_app_list, insert_new_app, IsListed, In
  <2>3. listed' \in Seq(App) /\ In(app_name, listed')
        /\ (\A b : In(b, listed) => In(b, listed'))
        /\ (\A i \in 1 .. Len(listed') : listed'[i] = app_name \/ In(listed'[i], listed))
    <3>1. CASE In(app_name, listed)
      BY <1>0, <2>2, <3>1 DEF In
    <3>2. CASE ~In(app_name, listed)
      BY <1>0, <2>1, <2>2, <3>2, InAppend
    <3> QED
      BY <3>1, <3>2
  <2>4. TypeOK'
    BY <2>0, <2>3 DEF InstallIInv, TypeOK, server
  <2>5. Progress'
    BY <2>0, <2>1, <2>3 DEF Progress, IsListed, In, server, Complete
  <2>6. ListedAppsRun'
    <3>1. \A i \in 1 .. Len(listed') : Complete(listed'[i])
      BY <2>1, <2>3 DEF InstallIInv, ListedAppsRun, In
    <3> QED
      BY <2>0, <3>1 DEF InstallIInv, ListedAppsRun, Complete
  <2>7. CacheRuns'
    BY <2>0 DEF InstallIInv, CacheRuns, Complete
  <2>8. NothingLost'
    BY <2>0, <2>3 DEF InstallIInv, NothingLost, IsListed, In, server, Complete
  <2>9. ListedOnce'
    BY <1>0, <2>1, <2>2, AppendOnce DEF InstallIInv, ListedOnce
  <2> QED
    BY <2>4, <2>5, <2>6, <2>7, <2>8, <2>9 DEF InstallIInv
<1>10. CASE send_confirmation
  <2>0. /\ operation_no = 3 /\ screen = "download_updates" /\ handle = "closed"
        /\ pending # <<>> /\ pending' = Tail(pending)
    BY <1>0, <1>10 DEF send_confirmation, Call, operations
  <2>1. app_name = Head(pending) /\ Complete(app_name) /\ IsListed(app_name)
    BY <2>0 DEF InstallIInv, Progress
  <2>2. /\ UNCHANGED <<pushed, pushes, storage, app_name, query_cache, menu_list>>
        /\ handle' = "closed"
        /\ \/ screen' = "settings" /\ operation_no' = 3
           \/ screen' = "download_updates" /\ operation_no' = 4
    <3>1. UNCHANGED <<pushed, pushes, storage, app_name, query_cache, menu_list>>
      BY <1>10 DEF send_confirmation
    <3>2. CASE Advance /\ UNCHANGED handle
      BY <2>0, <3>1, <3>2 DEF Advance
    <3>3. CASE Leave
      BY <2>0, <3>1, <3>3 DEF Leave
    <3> QED
      BY <1>10, <3>2, <3>3 DEF send_confirmation
  <2>3. TypeOK'
    BY <1>0, <2>0, <2>2 DEF InstallIInv, TypeOK, storage
  <2>4. Progress'
    BY <2>2 DEF Progress
  <2>5. ListedAppsRun' /\ CacheRuns' /\ ListedOnce'
    BY <2>2 DEF InstallIInv, ListedAppsRun, CacheRuns, ListedOnce, storage, Complete
  <2>6. NothingLost'
    <3>1. ASSUME NEW a \in pushed, In(a, pending) PROVE a = Head(pending) \/ In(a, pending')
      BY <1>0, <2>0, <3>1, InTail
    <3> QED
      BY <2>1, <2>2, <3>1 DEF InstallIInv, NothingLost, In, storage, IsListed, Complete
  <2> QED
    BY <2>3, <2>4, <2>5, <2>6 DEF InstallIInv
<1>11. CASE Reboot
  <2>1. TypeOK' /\ Progress'
    BY <1>11 DEF Reboot, InstallIInv, TypeOK, Progress, server, storage
  <2> QED
    BY <1>11, <2>1, StorageKept DEF Reboot, InstallIInv
<1>12. CASE OpenInstalledApps
  <2>0. /\ get_group_apps \in Seq(App)
        /\ \A i \in 1 .. Len(get_group_apps) : Complete(get_group_apps[i])
    BY <1>0 DEF get_group_apps, InstallIInv, ListedAppsRun, CacheRuns
  <2>1. TypeOK' /\ Progress'
    BY <1>12, <2>0 DEF OpenInstalledApps, InstallIInv, TypeOK, Progress, server, storage, download
  <2>2. ListedAppsRun' /\ CacheRuns'
    BY <1>12, <2>0 DEF OpenInstalledApps, InstallIInv, ListedAppsRun, CacheRuns, storage, Complete
  <2>3. NothingLost' /\ ListedOnce'
    BY <1>12 DEF OpenInstalledApps, InstallIInv, NothingLost, ListedOnce, server, storage,
                 IsListed, Complete
  <2> QED
    BY <2>1, <2>2, <2>3 DEF InstallIInv
<1>13. CASE LeaveInstalledApps
  <2>1. TypeOK' /\ Progress'
    BY <1>13 DEF LeaveInstalledApps, InstallIInv, TypeOK, Progress, server, storage, download
  <2> QED
    BY <1>13, <2>1, StorageKept DEF LeaveInstalledApps, InstallIInv
<1>14. CASE UNCHANGED vars
  <2>1. TypeOK' /\ Progress'
    BY <1>14 DEF vars, InstallIInv, TypeOK, Progress, server, storage, download, IsListed, Complete
  <2> QED
    BY <1>14, <2>1, StorageKept DEF vars, InstallIInv
<1> QED
  BY <1>1, <1>2, <1>3, <1>4, <1>7, <1>8, <1>9, <1>10, <1>11, <1>12, <1>13, <1>14
     DEF Next, reset, Crash

(* The invariant holds in every behaviour.                                 *)
THEOREM InstallInvariant == Spec => []InstallIInv
BY InitInstallIInv, InstallNext, PTL DEF Spec

(* The installer's state keeps its type; operation_no never passes the     *)
(* last screen (download_updates.py:13-80).                                *)
THEOREM InstallerTypeCorrect == Spec => []TypeOK
<1>1. InstallIInv => TypeOK
  BY DEF InstallIInv
<1> QED
  BY InstallInvariant, <1>1, PTL

(* Every listed app has its code, whatever fails and whenever the power    *)
(* goes (app_downloader.py:77-99).                                         *)
THEOREM ListedAppsAlwaysRun == Spec => []ListedAppsRun
<1>1. InstallIInv => ListedAppsRun
  BY DEF InstallIInv
<1> QED
  BY InstallInvariant, <1>1, PTL

(* The server forgets an app only when it is installed                     *)
(* (app_downloader.py:97-107).                                             *)
THEOREM NoAppIsLost == Spec => []NothingLost
<1>1. InstallIInv => NothingLost
  BY DEF InstallIInv
<1> QED
  BY InstallInvariant, <1>1, PTL

(* No app is listed twice (app_downloader.py:33-40).                       *)
THEOREM NoAppListedTwice == Spec => []ListedOnce
<1>1. InstallIInv => ListedOnce
  BY DEF InstallIInv
<1> QED
  BY InstallInvariant, <1>1, PTL
-----------------------------------------------------------------------------
(* Where each side is in its copy.  A copy to or from the end of the ring  *)
(* is begun only if the block reaches that end, so what memcpy is given    *)
(* stays inside the block.                                                 *)
PutSteps ==
    /\ put_pc = "idle" => put_len = 0 /\ put_data = <<>>
    /\ put_pc = "end" => put_len = 0 /\ iput + Len(put_data) >= Size
    /\ put_pc = "publish" => put_len = Len(put_data)
    /\ put_data \in B!Block

GetSteps ==
    /\ get_pc = "idle" => get_len = 0 /\ get_data = <<>>
    /\ get_pc = "end" => get_data = <<>> /\ iget + get_len >= Size
    /\ get_pc = "publish" => Len(get_data) = get_len
    /\ get_len <= MaxLen

(* The inductive invariant.                                                *)
RingInv == B!RingStable /\ PutSteps /\ GetSteps
-----------------------------------------------------------------------------
(* What a concatenation holds.                                             *)
LEMMA Joined ==
    ASSUME NEW S, NEW s \in Seq(S), NEW t \in Seq(S)
    PROVE  /\ s \o t \in Seq(S)
           /\ Len(s \o t) = Len(s) + Len(t)
           /\ \A k \in 1 .. Len(s) : (s \o t)[k] = s[k]
           /\ \A k \in 1 .. Len(t) : (s \o t)[Len(s) + k] = t[k]
OBVIOUS

(* Arithmetic of the ring.  The k-th free slot is k away from iput, and no *)
(* slot that holds an unread byte is among the free ones.                  *)
LEMMA ModRange ==
    ASSUME Size \in Nat \ {0}, NEW x \in 0 .. 2 * Size - 1
    PROVE  B!Mod(x) \in 0 .. Size - 1
BY DEF B!Mod

LEMMA SlotOffset ==
    ASSUME Size \in Nat \ {0}, NEW i \in 0 .. Size - 1, NEW k \in 0 .. Size - 1
    PROVE  /\ B!Slot(i, k) \in 0 .. Size - 1
           /\ B!Mod(Size + B!Slot(i, k) - i) = k
BY DEF B!Mod, B!Slot

LEMMA UnreadNotFree ==
    ASSUME Size \in Nat \ {0}, iget \in 0 .. Size - 1, iput \in 0 .. Size - 1,
           NEW k \in 0 .. Size - 1, k < B!ringbuf_avail
    PROVE  B!Mod(Size + B!Slot(iget, k) - iput) >= B!ringbuf_free
BY DEF B!Mod, B!Slot, B!ringbuf_avail, B!ringbuf_free

LEMMA Room ==
    ASSUME Size \in Nat \ {0}, iget \in 0 .. Size - 1, iput \in 0 .. Size - 1
    PROVE  /\ B!ringbuf_avail \in 0 .. Size - 1
           /\ B!ringbuf_free \in 0 .. Size - 1
           /\ B!ringbuf_avail + B!ringbuf_free = Size - 1
BY DEF B!Mod, B!ringbuf_avail, B!ringbuf_free

LEMMA BlockIsSeq ==
    ASSUME NEW d \in B!Block, MaxLen \in Nat
    PROVE  d \in Seq(Byte) /\ Len(d) \in 0 .. MaxLen
BY DEF B!Block
-----------------------------------------------------------------------------
(* memcpy_put: unread bytes keep their values, and the bytes copied so far *)
(* are now those of put_data.                                              *)
LEMMA PutCopies ==
    ASSUME Size \in Nat \ {0}, B!TypeOK, B!WriteIsStable, put_pc # "idle",
           NEW n \in Nat, put_len + n <= Len(put_data), B!memcpy_put(n),
           iget' = iget, iput' = iput
    PROVE  /\ buf' \in [0 .. Size - 1 -> Byte]
           /\ \A k \in 0 .. B!ringbuf_avail - 1 : buf'[B!Slot(iget, k)] = buf[B!Slot(iget, k)]
           /\ \A k \in 1 .. put_len + n : buf'[B!Slot(iput, k - 1)] = put_data[k]
<1> DEFINE Off(i) == B!Mod(Size + i - iput)
           New(i) == IF put_len <= Off(i) /\ Off(i) < put_len + n
                     THEN put_data[Off(i) + 1] ELSE buf[i]
<1>0. /\ B!ringbuf_avail \in 0 .. Size - 1 /\ B!ringbuf_free \in 0 .. Size - 1
      /\ Len(put_data) <= B!ringbuf_free
  BY Room DEF B!TypeOK, B!WriteIsStable
<1>1. buf' = [i \in 0 .. Size - 1 |-> New(i)]
  BY DEF B!memcpy_put
<1>2. \A i \in 0 .. Size - 1 : Off(i) \in 0 .. Size - 1
  BY ModRange DEF B!TypeOK
<1>3. \A i \in 0 .. Size - 1 : New(i) \in Byte
  <2> SUFFICES ASSUME NEW i \in 0 .. Size - 1 PROVE New(i) \in Byte
    OBVIOUS
  <2> HIDE DEF Off
  <2>1. Off(i) \in 0 .. Size - 1
    BY <1>2
  <2>2. CASE put_len <= Off(i) /\ Off(i) < put_len + n
    <3>1. Off(i) + 1 \in 1 .. Len(put_data)
      BY <2>1, <2>2 DEF B!TypeOK
    <3> QED
      BY <3>1, <2>2 DEF B!TypeOK
  <2> QED
    BY <2>2 DEF B!TypeOK
<1>4. ASSUME NEW k \in 0 .. B!ringbuf_avail - 1
      PROVE  buf'[B!Slot(iget, k)] = buf[B!Slot(iget, k)]
  <2>1. k \in 0 .. Size - 1 /\ k < B!ringbuf_avail
    BY <1>0
  <2>2. B!Slot(iget, k) \in 0 .. Size - 1
    BY <2>1, SlotOffset DEF B!TypeOK
  <2>3. Off(B!Slot(iget, k)) >= B!ringbuf_free
    BY <2>1, UnreadNotFree DEF B!TypeOK
  <2>4. Off(B!Slot(iget, k)) \in 0 .. Size - 1
    BY <2>2, <1>2
  <2> HIDE DEF Off
  <2>5. ~(Off(B!Slot(iget, k)) < put_len + n)
    BY <2>3, <2>4, <1>0 DEF B!TypeOK
  <2> QED
    BY <1>1, <2>2, <2>5
<1>5. ASSUME NEW k \in 1 .. put_len + n
      PROVE  buf'[B!Slot(iput, k - 1)] = put_data[k]
  <2>1. k - 1 \in 0 .. Size - 1
    BY <1>0 DEF B!TypeOK
  <2>2. B!Slot(iput, k - 1) \in 0 .. Size - 1 /\ Off(B!Slot(iput, k - 1)) = k - 1
    BY <2>1, SlotOffset DEF B!TypeOK
  <2> HIDE DEF Off
  <2>3. CASE put_len <= k - 1
    BY <1>1, <2>2, <2>3 DEF B!TypeOK
  <2>4. CASE k \in 1 .. put_len
    <3>1. buf[B!Slot(iput, k - 1)] = put_data[k]
      BY <2>4 DEF B!WriteIsStable
    <3>2. ~(put_len <= k - 1)
      BY <2>4 DEF B!TypeOK
    <3> QED
      BY <1>1, <2>2, <3>1, <3>2
  <2> QED
    BY <2>3, <2>4 DEF B!TypeOK
<1> HIDE DEF New
<1> QED
  BY <1>1, <1>3, <1>4, <1>5

(* memcpy_get: the bytes copied so far are the oldest unread ones.         *)
LEMMA GetCopies ==
    ASSUME Size \in Nat \ {0}, B!TypeOK, B!ReadIsStable, get_pc # "idle",
           NEW n \in Nat, Len(get_data) + n <= get_len, B!memcpy_get(n)
    PROVE  /\ get_data' \in Seq(Byte)
           /\ Len(get_data') = Len(get_data) + n
           /\ \A k \in 1 .. Len(get_data') : get_data'[k] = B!Unread[k]
<1> DEFINE new == [k \in 1 .. n |-> buf[B!Mod(iget + Len(get_data) + k - 1)]]
<1>0. get_len <= B!ringbuf_avail /\ B!ringbuf_avail \in 0 .. Size - 1
  BY Room DEF B!ReadIsStable, B!TypeOK
<1>1. \A k \in 1 .. n : B!Slot(iget, Len(get_data) + k - 1) \in 0 .. Size - 1
  <2> SUFFICES ASSUME NEW k \in 1 .. n
               PROVE  B!Slot(iget, Len(get_data) + k - 1) \in 0 .. Size - 1
    OBVIOUS
  <2>1. Len(get_data) + k - 1 \in 0 .. Size - 1
    BY <1>0 DEF B!TypeOK
  <2> QED
    BY <2>1, SlotOffset DEF B!TypeOK
<1>2. \A k \in 1 .. n : /\ B!Mod(iget + Len(get_data) + k - 1) \in 0 .. Size - 1
                        /\ B!Mod(iget + Len(get_data) + k - 1)
                             = B!Slot(iget, Len(get_data) + k - 1)
  <2> SUFFICES ASSUME NEW k \in 1 .. n
               PROVE  B!Mod(iget + Len(get_data) + k - 1)
                        = B!Slot(iget, Len(get_data) + k - 1)
    BY <1>1
  <2>1. iget + Len(get_data) + k - 1 = iget + (Len(get_data) + k - 1)
    BY DEF B!TypeOK
  <2> QED
    BY <2>1 DEF B!Slot
<1>3. new \in Seq(Byte) /\ Len(new) = n
  <2>1. \A k \in 1 .. n : buf[B!Mod(iget + Len(get_data) + k - 1)] \in Byte
    BY <1>2 DEF B!TypeOK
  <2>2. new \in [1 .. n -> Byte]
    BY <2>1
  <2> HIDE DEF new
  <2> QED
    BY <2>2
<1>4. get_data' = get_data \o new
  BY DEF B!memcpy_get
<1>5. Len(get_data') = Len(get_data) + n
  BY <1>3, <1>4 DEF B!TypeOK
<1>6. ASSUME NEW k \in 1 .. Len(get_data') PROVE get_data'[k] = B!Unread[k]
  <2>1. CASE k \in 1 .. Len(get_data)
    <3>1. get_data \in Seq(Byte)
      BY DEF B!TypeOK
    <3>2. get_data'[k] = get_data[k]
      BY <2>1, <3>1, <1>3, <1>4, Joined
    <3> QED
      BY <2>1, <3>2 DEF B!ReadIsStable
  <2>2. CASE k \in Len(get_data) + 1 .. Len(get_data) + n
    <3> DEFINE j == k - Len(get_data)
    <3>1. j \in 1 .. n /\ k \in 1 .. B!ringbuf_avail /\ k = Len(get_data) + j
      BY <2>2, <1>0 DEF B!TypeOK
    <3>2. get_data'[k] = new[j]
      BY <3>1, <1>3, <1>4 DEF B!TypeOK
    <3>3. new[j] = buf[B!Slot(iget, Len(get_data) + j - 1)]
      BY <3>1, <1>2
    <3>4. B!Unread[k] = buf[B!Slot(iget, k - 1)]
      BY <3>1 DEF B!Unread
    <3> QED
      BY <3>1, <3>2, <3>3, <3>4
  <2> QED
    BY <1>5, <2>1, <2>2 DEF B!TypeOK
<1> QED
  BY <1>3, <1>4, <1>5, <1>6 DEF B!TypeOK
-----------------------------------------------------------------------------
LEMMA InitRingInv ==
    ASSUME Size \in Nat \ {0}, MaxLen \in Nat, B!Init
    PROVE  RingInv
<1>1. <<>> \in B!Block
  <2>1. <<>> \in [1 .. 0 -> Byte] /\ 0 \in 0 .. MaxLen
    OBVIOUS
  <2> QED
    BY <2>1 DEF B!Block
<1> QED
  BY <1>1 DEF B!Init, RingInv, B!RingStable, B!TypeOK, B!ReadIsStable, B!WriteIsStable, PutSteps, GetSteps

(* The producer's steps leave alone what the consumer reads: they change   *)
(* no unread byte and iput, stored last, only adds unread bytes.           *)
LEMMA PutNext ==
    ASSUME Size \in Nat \ {0}, MaxLen \in Nat, RingInv, B!Producer
    PROVE  RingInv'
<1> USE DEF RingInv, B!RingStable
<1>0. /\ B!ringbuf_avail \in 0 .. Size - 1 /\ B!ringbuf_free \in 0 .. Size - 1
      /\ B!ringbuf_avail + B!ringbuf_free = Size - 1
  BY Room DEF B!TypeOK
<1>1. ASSUME NEW d \in B!Block, B!ringbuf_put_bytes(d) PROVE RingInv'
  <2>0. d \in Seq(Byte) /\ Len(d) \in 0 .. MaxLen
    BY BlockIsSeq
  <2>1. B!TypeOK'
    BY <1>1, <2>0 DEF B!TypeOK, B!ringbuf_put_bytes, B!getVars
  <2>2. B!ReadIsStable'
    BY <1>1 DEF B!ReadIsStable, B!ringbuf_put_bytes, B!getVars, B!Unread, B!ringbuf_avail
  <2>3. B!WriteIsStable'
    BY <1>1 DEF B!WriteIsStable, B!ringbuf_put_bytes, B!ringbuf_free
  <2>4. PutSteps' /\ GetSteps'
    <3>1. B!Mod(iput + Len(d)) < iput => iput + Len(d) >= Size
      BY <2>0 DEF B!Mod, B!TypeOK
    <3> QED
      BY <1>1, <3>1, <2>0 DEF PutSteps, GetSteps, B!ringbuf_put_bytes, B!getVars
  <2> QED
    BY <2>1, <2>2, <2>3, <2>4
<1>2. ASSUME NEW n \in Nat, put_len + n <= Len(put_data), B!memcpy_put(n), put_pc # "idle",
             put_pc' \in {"rest", "publish"}, put_pc' = "publish" => put_len + n = Len(put_data),
             UNCHANGED <<iget, iput, put_data, B!getVars, got>>
      PROVE  RingInv'
  <2>1. /\ buf' \in [0 .. Size - 1 -> Byte]
        /\ \A k \in 0 .. B!ringbuf_avail - 1 : buf'[B!Slot(iget, k)] = buf[B!Slot(iget, k)]
        /\ \A k \in 1 .. put_len + n : buf'[B!Slot(iput, k - 1)] = put_data[k]
    BY <1>2, PutCopies
  <2>2. B!TypeOK'
    <3>1. put_len' = put_len + n
      BY <1>2 DEF B!memcpy_put
    <3> QED
      BY <1>2, <2>1, <3>1 DEF B!TypeOK, B!getVars
  <2>3. B!ringbuf_avail' = B!ringbuf_avail /\ B!ringbuf_free' = B!ringbuf_free
    BY <1>2 DEF B!ringbuf_avail, B!ringbuf_free
  <2>4. B!Unread' = B!Unread
    <3>1. B!Unread' = [k \in 1 .. B!ringbuf_avail |-> buf'[B!Slot(iget, k - 1)]]
      BY <1>2, <2>3 DEF B!Unread
    <3>2. \A k \in 1 .. B!ringbuf_avail : buf'[B!Slot(iget, k - 1)] = buf[B!Slot(iget, k - 1)]
      <4> SUFFICES ASSUME NEW k \in 1 .. B!ringbuf_avail
                   PROVE  buf'[B!Slot(iget, k - 1)] = buf[B!Slot(iget, k - 1)]
        OBVIOUS
      <4>1. k - 1 \in 0 .. B!ringbuf_avail - 1
        BY <1>0
      <4> QED
        BY <4>1, <2>1
    <3> QED
      BY <3>1, <3>2 DEF B!Unread
  <2>5. B!ReadIsStable'
    BY <1>2, <2>3, <2>4 DEF B!ReadIsStable, B!getVars
  <2>6. B!WriteIsStable'
    <3>1. put_len' = put_len + n
      BY <1>2 DEF B!memcpy_put
    <3> QED
      BY <1>2, <2>1, <2>3, <3>1 DEF B!WriteIsStable, B!Slot
  <2>7. PutSteps' /\ GetSteps'
    BY <1>2 DEF PutSteps, GetSteps, B!memcpy_put, B!getVars
  <2> QED
    BY <2>2, <2>5, <2>6, <2>7
<1>3. CASE B!PutCopyEnd
  <2>1. Size - iput \in Nat /\ put_len + (Size - iput) <= Len(put_data)
    BY <1>3 DEF B!PutCopyEnd, PutSteps, B!TypeOK
  <2> QED
    BY <1>2, <1>3, <2>1 DEF B!PutCopyEnd
<1>4. CASE B!PutCopyRest
  <2>1. /\ Len(put_data) - put_len \in Nat
        /\ put_len + (Len(put_data) - put_len) = Len(put_data)
    BY DEF B!TypeOK
  <2> QED
    BY <1>2, <1>4, <2>1 DEF B!PutCopyRest
<1>5. CASE B!PutPublish
  <2>0. Len(put_data) \in Nat /\ Len(put_data) <= B!ringbuf_free /\ <<>> \in Seq(Byte)
    BY <1>5 DEF B!PutPublish, B!WriteIsStable, B!TypeOK
  <2>1. B!TypeOK'
    <3>1. B!Mod(iput + Len(put_data)) \in 0 .. Size - 1
      BY <2>0, <1>0 DEF B!Mod, B!TypeOK
    <3> QED
      BY <1>5, <2>0, <3>1 DEF B!TypeOK, B!PutPublish, B!getVars
  <2>2. B!ringbuf_avail' = B!ringbuf_avail + Len(put_data)
    BY <1>5, <2>0, <1>0 DEF B!TypeOK, B!PutPublish, B!ringbuf_avail, B!ringbuf_free, B!Mod
  <2>3. \A k \in 1 .. B!ringbuf_avail : B!Unread'[k] = B!Unread[k]
    <3>1. B!ringbuf_avail' \in Int /\ B!ringbuf_avail <= B!ringbuf_avail'
      BY <2>0, <2>2, <1>0
    <3> QED
      BY <1>5, <3>1, <1>0 DEF B!PutPublish, B!Unread
  <2>4. B!ReadIsStable'
    <3>1. CASE get_pc # "idle"
      <4>1. /\ get_len \in Nat /\ get_len <= B!ringbuf_avail /\ Len(get_data) <= get_len
            /\ Len(get_data) \in Nat
        BY <3>1 DEF B!ReadIsStable, B!TypeOK
      <4>2. \A k \in 1 .. Len(get_data) : k \in 1 .. B!ringbuf_avail
        BY <4>1, <1>0
      <4>3. \A k \in 1 .. Len(get_data) : get_data[k] = B!Unread'[k]
        BY <3>1, <4>2, <2>3 DEF B!ReadIsStable
      <4> QED
        BY <1>5, <2>0, <2>2, <1>0, <4>1, <4>3 DEF B!ReadIsStable, B!PutPublish, B!getVars
    <3> QED
      BY <1>5, <3>1 DEF B!ReadIsStable, B!PutPublish, B!getVars
  <2>5. PutSteps' /\ GetSteps' /\ B!WriteIsStable'
    <3>1. <<>> \in B!Block
      <4>1. <<>> \in [1 .. 0 -> Byte] /\ 0 \in 0 .. MaxLen
        OBVIOUS
      <4> QED
        BY <4>1 DEF B!Block
    <3> QED
      BY <1>5, <3>1 DEF PutSteps, GetSteps, B!WriteIsStable, B!PutPublish, B!getVars
  <2> QED
    BY <2>1, <2>4, <2>5
<1> QED
  BY <1>1, <1>3, <1>4, <1>5 DEF B!Producer

(* The consumer's steps only read the buffer, and iget, stored last, only  *)
(* adds room.                                                              *)
LEMMA GetNext ==
    ASSUME Size \in Nat \ {0}, MaxLen \in Nat, RingInv, B!Consumer
    PROVE  RingInv'
<1> USE DEF RingInv, B!RingStable
<1>0. /\ B!ringbuf_avail \in 0 .. Size - 1 /\ B!ringbuf_free \in 0 .. Size - 1
      /\ B!ringbuf_avail + B!ringbuf_free = Size - 1
  BY Room DEF B!TypeOK
<1>1. ASSUME NEW n \in 0 .. MaxLen, B!ringbuf_get_bytes(n) PROVE RingInv'
  <2>1. B!TypeOK'
    BY <1>1 DEF B!TypeOK, B!ringbuf_get_bytes, B!putVars
  <2>2. B!ReadIsStable'
    BY <1>1 DEF B!ReadIsStable, B!ringbuf_get_bytes, B!ringbuf_avail
  <2>3. B!WriteIsStable'
    BY <1>1 DEF B!WriteIsStable, B!ringbuf_get_bytes, B!ringbuf_free, B!putVars, B!Slot
  <2>4. PutSteps' /\ GetSteps'
    <3>1. B!Mod(iget + n) < iget => iget + n >= Size
      BY DEF B!Mod, B!TypeOK
    <3> QED
      BY <1>1, <3>1 DEF PutSteps, GetSteps, B!ringbuf_get_bytes, B!putVars
  <2> QED
    BY <2>1, <2>2, <2>3, <2>4
<1>2. ASSUME NEW n \in Nat, Len(get_data) + n <= get_len, B!memcpy_get(n), get_pc # "idle",
             get_pc' \in {"rest", "publish"},
             get_pc' = "publish" => Len(get_data) + n = get_len,
             UNCHANGED <<buf, iget, iput, B!putVars, get_len, got>>
      PROVE  RingInv'
  <2>1. /\ get_data' \in Seq(Byte)
        /\ Len(get_data') = Len(get_data) + n
        /\ \A k \in 1 .. Len(get_data') : get_data'[k] = B!Unread[k]
    BY <1>2, GetCopies
  <2>2. B!TypeOK'
    BY <1>2, <2>1 DEF B!TypeOK, B!putVars
  <2>3. B!ringbuf_avail' = B!ringbuf_avail /\ B!ringbuf_free' = B!ringbuf_free /\ B!Unread' = B!Unread
    BY <1>2 DEF B!ringbuf_avail, B!ringbuf_free, B!Unread, B!Slot
  <2>4. B!ReadIsStable'
    BY <1>2, <2>1, <2>3 DEF B!ReadIsStable
  <2>5. B!WriteIsStable'
    BY <1>2, <2>3 DEF B!WriteIsStable, B!putVars, B!Slot
  <2>6. PutSteps' /\ GetSteps'
    BY <1>2, <2>1 DEF PutSteps, GetSteps, B!putVars
  <2> QED
    BY <2>2, <2>4, <2>5, <2>6
<1>3. CASE B!GetCopyEnd
  <2>1. Size - iget \in Nat /\ Len(get_data) + (Size - iget) <= get_len
    BY <1>3 DEF B!GetCopyEnd, GetSteps, B!TypeOK
  <2> QED
    BY <1>2, <1>3, <2>1 DEF B!GetCopyEnd
<1>4. CASE B!GetCopyRest
  <2>1. /\ get_len - Len(get_data) \in Nat
        /\ Len(get_data) + (get_len - Len(get_data)) = get_len
    BY DEF B!TypeOK
  <2> QED
    BY <1>2, <1>4, <2>1 DEF B!GetCopyRest
<1>5. CASE B!GetPublish
  <2>0. get_len \in Nat /\ get_len <= B!ringbuf_avail
    BY <1>5 DEF B!GetPublish, B!ReadIsStable, B!TypeOK
  <2>1. B!TypeOK'
    <3>1. B!Mod(iget + get_len) \in 0 .. Size - 1
      BY <2>0, <1>0 DEF B!Mod, B!TypeOK
    <3> QED
      BY <1>5, <2>0, <3>1 DEF B!TypeOK, B!GetPublish, B!putVars
  <2>2. B!ringbuf_free' = B!ringbuf_free + get_len
    BY <1>5, <2>0, <1>0 DEF B!TypeOK, B!GetPublish, B!ringbuf_avail, B!ringbuf_free, B!Mod
  <2>3. B!WriteIsStable'
    <3>1. put_pc # "idle" => Len(put_data) <= B!ringbuf_free'
      BY <2>2, <2>0, <1>0 DEF B!WriteIsStable, B!TypeOK
    <3> QED
      BY <1>5, <3>1 DEF B!WriteIsStable, B!GetPublish, B!putVars, B!Slot
  <2>4. PutSteps' /\ GetSteps' /\ B!ReadIsStable'
    BY <1>5 DEF PutSteps, GetSteps, B!ReadIsStable, B!GetPublish, B!putVars
  <2> QED
    BY <2>1, <2>3, <2>4
<1> QED
  BY <1>1, <1>3, <1>4, <1>5 DEF B!Consumer

LEMMA RingNextInv ==
    ASSUME Size \in Nat \ {0}, MaxLen \in Nat, RingInv, [B!Next]_(B!vars)
    PROVE  RingInv'
<1>1. CASE UNCHANGED B!vars
  BY <1>1 DEF B!vars, B!putVars, B!getVars, RingInv, B!RingStable, B!TypeOK, B!ReadIsStable,
              B!WriteIsStable, PutSteps, GetSteps, B!Unread, B!Slot, B!ringbuf_avail, B!ringbuf_free
<1> QED
  BY <1>1, PutNext, GetNext DEF B!Next

(* Neither side disturbs the other while both copy (ringbuf.c:65-117), in  *)
(* a ring of any size.                                                     *)
THEOREM RingAlwaysStable ==
    B!Spec => []RingStable
<1>1. B!Init => RingInv
  BY RingAssumption, InitRingInv
<1>2. RingInv /\ [B!Next]_(B!vars) => RingInv'
  BY RingAssumption, RingNextInv
<1>3. RingInv => RingStable
  BY DEF RingInv, RingStable
<1> QED
  BY <1>1, <1>2, <1>3, PTL DEF B!Spec
-----------------------------------------------------------------------------
(* The refinement.  What waits in the ring is a sequence of bytes as long  *)
(* as ringbuf_avail.                                                       *)
LEMMA UnreadIsSeq ==
    ASSUME Size \in Nat \ {0}, B!TypeOK
    PROVE  B!Unread \in Seq(Byte) /\ Len(B!Unread) = B!ringbuf_avail
<1>1. B!ringbuf_avail \in 0 .. Size - 1
  BY Room DEF B!TypeOK
<1>2. ASSUME NEW k \in 1 .. B!ringbuf_avail PROVE buf[B!Slot(iget, k - 1)] \in Byte
  <2>1. k - 1 \in 0 .. Size - 1
    BY <1>1
  <2> QED
    BY <2>1, SlotOffset DEF B!TypeOK
<1>3. B!Unread \in [1 .. B!ringbuf_avail -> Byte]
  BY <1>2 DEF B!Unread
<1> QED
  BY <1>1, <1>3

(* Two sequences are equal when they agree everywhere.                     *)
LEMMA SeqsEqual ==
    ASSUME NEW S, NEW s \in Seq(S), NEW t \in Seq(S), Len(s) = Len(t),
           \A k \in 1 .. Len(s) : s[k] = t[k]
    PROVE  s = t
OBVIOUS

(* Storing iput appends the block to the queue.                            *)
LEMMA PublishIsPut ==
    ASSUME Size \in Nat \ {0}, MaxLen \in Nat, RingInv, B!PutPublish, B!TypeOK'
    PROVE  B!Queue!Put(put_data)
<1> USE DEF RingInv, B!RingStable
<1>0. /\ B!ringbuf_avail \in 0 .. Size - 1 /\ B!ringbuf_free \in 0 .. Size - 1
      /\ B!ringbuf_avail + B!ringbuf_free = Size - 1
  BY Room DEF B!TypeOK
<1>1. /\ Len(put_data) \in Nat /\ Len(put_data) <= B!ringbuf_free
      /\ \A k \in 1 .. Len(put_data) : buf[B!Slot(iput, k - 1)] = put_data[k]
  BY DEF B!PutPublish, B!WriteIsStable, PutSteps, B!TypeOK
<1>2. B!ringbuf_avail' = B!ringbuf_avail + Len(put_data)
  <2>1. /\ iget \in 0 .. Size - 1 /\ iput \in 0 .. Size - 1 /\ iget' = iget
        /\ Len(put_data) \in Nat /\ Len(put_data) <= B!ringbuf_free
        /\ iput' = B!Mod(iput + Len(put_data))
    BY <1>1 DEF B!TypeOK, B!PutPublish
  <2> QED
    BY <2>1 DEF B!ringbuf_avail, B!ringbuf_free, B!Mod
<1>3. /\ B!Unread \in Seq(Byte) /\ Len(B!Unread) = B!ringbuf_avail
      /\ B!Unread' \in Seq(Byte) /\ Len(B!Unread') = B!ringbuf_avail'
  <2>1. B!Unread \in Seq(Byte) /\ Len(B!Unread) = B!ringbuf_avail
    BY UnreadIsSeq
  <2>2. ASSUME B!TypeOK' PROVE B!Unread' \in Seq(Byte) /\ Len(B!Unread') = B!ringbuf_avail'
    <3>1. (B!TypeOK => B!Unread \in Seq(Byte) /\ Len(B!Unread) = B!ringbuf_avail)'
      BY UnreadIsSeq, PTL
    <3> QED
      BY <2>2, <3>1
  <2> QED
    BY <2>1, <2>2
<1> DEFINE both == B!Unread \o put_data
<1>4. /\ both \in Seq(Byte) /\ Len(both) = Len(B!Unread')
      /\ \A k \in 1 .. B!ringbuf_avail : both[k] = B!Unread[k]
      /\ \A k \in 1 .. Len(put_data) : both[B!ringbuf_avail + k] = put_data[k]
  <2>1. put_data \in Seq(Byte)
    BY DEF B!TypeOK
  <2>2. /\ both \in Seq(Byte) /\ Len(both) = Len(B!Unread) + Len(put_data)
        /\ \A k \in 1 .. Len(B!Unread) : both[k] = B!Unread[k]
        /\ \A k \in 1 .. Len(put_data) : both[Len(B!Unread) + k] = put_data[k]
    <3>1. PICK u \in Seq(Byte) : u = B!Unread
      BY <1>3
    <3>2. /\ u \o put_data \in Seq(Byte) /\ Len(u \o put_data) = Len(u) + Len(put_data)
          /\ \A k \in 1 .. Len(u) : (u \o put_data)[k] = u[k]
          /\ \A k \in 1 .. Len(put_data) : (u \o put_data)[Len(u) + k] = put_data[k]
      BY ONLY <2>1, u \in Seq(Byte), Joined
    <3> QED
      BY ONLY <3>1, <3>2
  <2> HIDE DEF both
  <2> QED
    BY <2>2, <1>2, <1>3
<1> HIDE DEF both
<1>5. ASSUME NEW k \in 1 .. Len(B!Unread') PROVE B!Unread'[k] = both[k]
  <2>1. B!Unread'[k] = buf[B!Slot(iget, k - 1)]
    BY <1>3 DEF B!Unread, B!PutPublish
  <2>2. CASE k \in 1 .. B!ringbuf_avail
    <3>1. both[k] = B!Unread[k]
      BY <2>2, <1>4
    <3> QED
      BY <2>1, <2>2, <3>1 DEF B!Unread
  <2>3. CASE k \in B!ringbuf_avail + 1 .. B!ringbuf_avail + Len(put_data)
    <3> DEFINE j == k - B!ringbuf_avail
    <3>1. j \in 1 .. Len(put_data) /\ k = B!ringbuf_avail + j
      BY <2>3, <1>0, <1>1
    <3>2. both[k] = put_data[j]
      BY <3>1, <1>4
    <3>3. B!Slot(iget, k - 1) = B!Slot(iput, j - 1)
      <4>1. iget \in 0 .. Size - 1 /\ iput \in 0 .. Size - 1
        BY DEF B!TypeOK
      <4>2. j \in 1 .. B!ringbuf_free /\ k = B!ringbuf_avail + j
        BY <3>1, <1>0, <1>1
      <4> HIDE DEF j
      <4> QED
        BY <4>1, <4>2 DEF B!Slot, B!Mod, B!ringbuf_avail, B!ringbuf_free
    <3> QED
      BY <2>1, <3>1, <3>2, <3>3, <1>1
  <2> QED
    BY <2>2, <2>3, <1>2, <1>3, <1>0, <1>1
<1>6. B!Unread' = both
  BY <1>3, <1>4, <1>5, SeqsEqual
<1>7. Len(B!Unread) + Len(put_data) <= Size - 1
  BY <1>0, <1>1, <1>3
<1> QED
  BY <1>6, <1>7 DEF both, B!Queue!Put, B!PutPublish

(* Storing iget takes the bytes that were copied from the queue.           *)
LEMMA PublishIsGet ==
    ASSUME Size \in Nat \ {0}, MaxLen \in Nat, RingInv, B!GetPublish, B!TypeOK'
    PROVE  B!Queue!Get(get_len)
<1> USE DEF RingInv, B!RingStable
<1>0. /\ B!ringbuf_avail \in 0 .. Size - 1 /\ B!ringbuf_free \in 0 .. Size - 1
      /\ B!ringbuf_avail + B!ringbuf_free = Size - 1
  BY Room DEF B!TypeOK
<1>1. /\ get_len \in Nat /\ get_len <= B!ringbuf_avail
      /\ Len(get_data) = get_len
      /\ \A k \in 1 .. Len(get_data) : get_data[k] = B!Unread[k]
  BY DEF B!GetPublish, B!ReadIsStable, GetSteps, B!TypeOK
<1>2. B!ringbuf_avail' = B!ringbuf_avail - get_len
  <2>1. /\ iget \in 0 .. Size - 1 /\ iput \in 0 .. Size - 1 /\ iput' = iput
        /\ get_len \in Nat /\ get_len <= B!ringbuf_avail /\ iget' = B!Mod(iget + get_len)
    BY <1>1 DEF B!TypeOK, B!GetPublish
  <2> QED
    BY <2>1 DEF B!ringbuf_avail, B!Mod
<1>3. /\ B!Unread \in Seq(Byte) /\ Len(B!Unread) = B!ringbuf_avail
      /\ B!Unread' \in Seq(Byte) /\ Len(B!Unread') = B!ringbuf_avail'
  <2>1. B!Unread \in Seq(Byte) /\ Len(B!Unread) = B!ringbuf_avail
    BY UnreadIsSeq
  <2>2. ASSUME B!TypeOK' PROVE B!Unread' \in Seq(Byte) /\ Len(B!Unread') = B!ringbuf_avail'
    <3>1. (B!TypeOK => B!Unread \in Seq(Byte) /\ Len(B!Unread) = B!ringbuf_avail)'
      BY UnreadIsSeq, PTL
    <3> QED
      BY <2>2, <3>1
  <2> QED
    BY <2>1, <2>2
<1>4. get_data = SubSeq(B!Unread, 1, get_len)
  <2> DEFINE sub == SubSeq(B!Unread, 1, get_len)
  <2>1. /\ sub \in Seq(Byte) /\ Len(sub) = get_len
        /\ \A k \in 1 .. get_len : sub[k] = B!Unread[k]
    BY <1>0, <1>1, <1>3
  <2> HIDE DEF sub
  <2> QED
    BY <2>1, <1>1, SeqsEqual DEF B!TypeOK
<1> DEFINE rest == SubSeq(B!Unread, get_len + 1, Len(B!Unread))
<1>5. /\ rest \in Seq(Byte) /\ Len(rest) = Len(B!Unread')
      /\ \A k \in 1 .. Len(rest) : rest[k] = B!Unread[get_len + k]
  BY <1>0, <1>1, <1>2, <1>3
<1>6. ASSUME NEW k \in 1 .. Len(B!Unread') PROVE B!Unread'[k] = rest[k]
  <2>1. k \in 1 .. B!ringbuf_avail - get_len /\ get_len + k \in 1 .. B!ringbuf_avail
    BY <1>0, <1>1, <1>2, <1>3
  <2>2. B!Unread'[k] = buf[B!Slot(B!Mod(iget + get_len), k - 1)]
    BY <1>3 DEF B!Unread, B!GetPublish, B!Slot
  <2>3. B!Slot(B!Mod(iget + get_len), k - 1) = B!Slot(iget, get_len + k - 1)
    BY <2>1, <1>0, <1>1, SMTT(30) DEF B!TypeOK, B!Slot, B!Mod
  <2>4. B!Unread[get_len + k] = buf[B!Slot(iget, get_len + k - 1)]
    <3> DEFINE m == get_len + k
    <3>1. m \in 1 .. B!ringbuf_avail
      BY <2>1
    <3>3. m - 1 = get_len + k - 1
      BY <1>1, <2>1
    <3> HIDE DEF m
    <3>2. B!Unread[m] = buf[B!Slot(iget, m - 1)]
      BY <3>1 DEF B!Unread
    <3> QED
      BY <3>2, <3>3 DEF m
  <2>5. rest[k] = B!Unread[get_len + k]
    BY <1>5
  <2> QED
    BY <2>2, <2>3, <2>4, <2>5
<1>7. B!Unread' = rest
  <2> HIDE DEF rest
  <2> QED
    BY <1>3, <1>5, <1>6, SeqsEqual
<1> QED
  BY <1>1, <1>3, <1>4, <1>7 DEF B!Queue!Get, B!GetPublish

(* Until an index is stored, the queue does not change.                    *)
LEMMA CopiesAreHidden ==
    ASSUME Size \in Nat \ {0}, RingInv, [B!Next]_(B!vars), ~B!PutPublish, ~B!GetPublish
    PROVE  B!Unread' = B!Unread /\ got' = got
<1> USE DEF RingInv, B!RingStable
<1>1. ASSUME buf' = buf, iget' = iget, iput' = iput PROVE B!Unread' = B!Unread
  BY <1>1 DEF B!Unread, B!ringbuf_avail, B!Slot
<1>2. ASSUME NEW n \in Nat, put_len + n <= Len(put_data), B!memcpy_put(n), put_pc # "idle",
             iget' = iget, iput' = iput
      PROVE  B!Unread' = B!Unread
  <2>0. B!ringbuf_avail \in 0 .. Size - 1 /\ B!ringbuf_avail' = B!ringbuf_avail
    BY <1>2, Room DEF B!TypeOK, B!ringbuf_avail
  <2>1. \A k \in 0 .. B!ringbuf_avail - 1 : buf'[B!Slot(iget, k)] = buf[B!Slot(iget, k)]
    BY <1>2, PutCopies
  <2>2. \A k \in 1 .. B!ringbuf_avail : buf'[B!Slot(iget, k - 1)] = buf[B!Slot(iget, k - 1)]
    <3> SUFFICES ASSUME NEW k \in 1 .. B!ringbuf_avail
                 PROVE  buf'[B!Slot(iget, k - 1)] = buf[B!Slot(iget, k - 1)]
      OBVIOUS
    <3>1. k - 1 \in 0 .. B!ringbuf_avail - 1
      BY <2>0
    <3> QED
      BY <3>1, <2>1
  <2>3. B!Unread' = [k \in 1 .. B!ringbuf_avail |-> buf'[B!Slot(iget, k - 1)]]
    BY <1>2, <2>0 DEF B!Unread
  <2> QED
    BY <2>2, <2>3 DEF B!Unread
<1>3. CASE B!PutCopyEnd
  <2>1. Size - iput \in Nat /\ put_len + (Size - iput) <= Len(put_data)
    BY <1>3 DEF B!PutCopyEnd, PutSteps, B!TypeOK
  <2> QED
    BY <1>2, <1>3, <2>1 DEF B!PutCopyEnd
<1>4. CASE B!PutCopyRest
  <2>1. Len(put_data) - put_len \in Nat /\ put_len + (Len(put_data) - put_len) <= Len(put_data)
    BY DEF B!TypeOK
  <2> QED
    BY <1>2, <1>4, <2>1 DEF B!PutCopyRest
<1>5. ASSUME NEW d \in B!Block, B!ringbuf_put_bytes(d) PROVE B!Unread' = B!Unread /\ got' = got
  BY <1>1, <1>5 DEF B!ringbuf_put_bytes
<1>6. ASSUME NEW n \in 0 .. MaxLen, B!ringbuf_get_bytes(n) PROVE B!Unread' = B!Unread /\ got' = got
  BY <1>1, <1>6 DEF B!ringbuf_get_bytes
<1>7. CASE B!GetCopyEnd \/ B!GetCopyRest
  BY <1>1, <1>7 DEF B!GetCopyEnd, B!GetCopyRest
<1>8. CASE UNCHANGED B!vars
  BY <1>1, <1>8 DEF B!vars
<1> QED
  BY <1>3, <1>4, <1>5, <1>6, <1>7, <1>8 DEF B!Next, B!Producer, B!Consumer

(* The ring that two cores use without a lock implements ByteQueue: a      *)
(* bounded FIFO of Size - 1 bytes in which a block is written and read as  *)
(* a whole (ringbuf.c:65-117).                                             *)
THEOREM RingImplementsByteQueue ==
    B!Spec => IsByteQueue
<1> USE RingAssumption
<1>1. B!Init => B!Queue!Init
  <2> SUFFICES ASSUME B!Init PROVE B!Unread = <<>> /\ got = <<>>
    BY DEF B!Queue!Init
  <2>1. B!ringbuf_avail = 0
    BY DEF B!Init, B!ringbuf_avail, B!Mod
  <2> QED
    BY <2>1 DEF B!Init, B!Unread
<1>2. RingInv /\ [B!Next]_(B!vars) => [B!Queue!Next]_<<B!Unread, got>>
  <2> SUFFICES ASSUME RingInv, [B!Next]_(B!vars) PROVE [B!Queue!Next]_<<B!Unread, got>>
    OBVIOUS
  <2>0. RingInv' /\ B!TypeOK'
    BY RingAssumption, RingNextInv DEF RingInv, B!RingStable
  <2>1. CASE B!PutPublish
    <3>1. B!Queue!Put(put_data) /\ put_data \in B!Queue!Block
      BY <2>0, <2>1, PublishIsPut DEF RingInv, PutSteps, B!Block, B!Queue!Block
    <3> QED
      BY <3>1 DEF B!Queue!Next
  <2>2. CASE B!GetPublish
    <3>1. B!Queue!Get(get_len) /\ get_len \in 0 .. MaxLen
      BY <2>0, <2>2, PublishIsGet, SMTT(30) DEF RingInv, B!RingStable, GetSteps, B!TypeOK
    <3> QED
      BY <3>1 DEF B!Queue!Next
  <2>3. CASE ~B!PutPublish /\ ~B!GetPublish
    BY <2>3, CopiesAreHidden
  <2> QED
    BY <2>1, <2>2, <2>3
<1>3. B!Init => RingInv
  BY RingAssumption, InitRingInv
<1>4. RingInv /\ [B!Next]_(B!vars) => RingInv'
  BY RingAssumption, RingNextInv
<1> QED
  BY <1>1, <1>2, <1>3, <1>4, PTL DEF B!Spec, IsByteQueue, B!IsByteQueue, B!Queue!Spec
-----------------------------------------------------------------------------
(* Receiving, for headers that hold magic and length, any addresses and    *)
(* messages, and any size of the ring.                                     *)
RadioGiven ==
    /\ HdrLen \in Nat /\ HdrLen >= 2 /\ PeerLen \in Nat /\ recv_buffer_size \in Nat \ {0}
    /\ Magic \in Nat /\ Messages \subseteq Seq(Nat) /\ None \notin E!Thread

(* The bytes of a packet, and their number.                                *)
Bytes(a) == E!Header(a[2]) \o a[1] \o a[2]
PacketLen(a) == HdrLen + PeerLen + Len(a[2])
Packets == {a \in Seq(Nat) \X Seq(Nat) : Len(a[1]) = PeerLen}

LEMMA JoinedBytes ==
    ASSUME NEW s \in Seq(Nat), NEW t \in Seq(Nat)
    PROVE  /\ s \o t \in Seq(Nat) /\ Len(s \o t) = Len(s) + Len(t)
           /\ \A k \in 1 .. Len(s) : (s \o t)[k] = s[k]
           /\ \A k \in 1 .. Len(t) : (s \o t)[Len(s) + k] = t[k]
<1>1. /\ s \o t \in Seq(Nat) /\ Len(s \o t) = Len(s) + Len(t)
      /\ \A i \in 1 .. Len(s) + Len(t) :
            (s \o t)[i] = IF i <= Len(s) THEN s[i] ELSE t[i - Len(s)]
  BY ConcatProperties
<1>2. PICK m \in Nat, n \in Nat : m = Len(s) /\ n = Len(t)
  OBVIOUS
<1>3. ASSUME NEW k \in 1 .. m PROVE (s \o t)[k] = s[k]
  <2>1. k \in 1 .. m + n /\ k <= m
    BY <1>2
  <2> QED
    BY <1>1, <1>2, <2>1
<1>4. ASSUME NEW k \in 1 .. n PROVE (s \o t)[m + k] = t[k]
  <2>1. m + k \in 1 .. m + n /\ ~(m + k <= m) /\ (m + k) - m = k
    BY <1>2
  <2> QED
    BY <1>1, <1>2, <2>1
<1> QED
  BY <1>1, <1>2, <1>3, <1>4

LEMMA PacketBytes ==
    ASSUME RadioGiven, NEW a \in Packets
    PROVE  /\ PacketLen(a) \in Nat /\ a[1] \in Seq(Nat) /\ a[2] \in Seq(Nat)
           /\ E!Header(a[2]) \in Seq(Nat) /\ Len(E!Header(a[2])) = HdrLen
           /\ E!Header(a[2])[1] = Magic /\ E!Header(a[2])[2] = Len(a[2])
           /\ \A k \in 1 .. HdrLen : Bytes(a)[k] = E!Header(a[2])[k]
           /\ \A k \in 1 .. PeerLen : Bytes(a)[HdrLen + k] = a[1][k]
           /\ \A k \in 1 .. Len(a[2]) : Bytes(a)[(HdrLen + PeerLen) + k] = a[2][k]
<1>0. /\ HdrLen \in Nat /\ HdrLen >= 2 /\ PeerLen \in Nat /\ Magic \in Nat
      /\ a[1] \in Seq(Nat) /\ a[2] \in Seq(Nat) /\ Len(a[1]) = PeerLen /\ Len(a[2]) \in Nat
  BY DEF RadioGiven, Packets
<1>1. PICK z : z = [i \in 1 .. HdrLen - 2 |-> 0]
  OBVIOUS
<1>2. z \in Seq(Nat) /\ Len(z) = HdrLen - 2
  <2>1. HdrLen - 2 \in Nat /\ \A i \in 1 .. HdrLen - 2 : 0 \in Nat
    BY <1>0
  <2> QED
    BY <1>1, <2>1
<1>3. PICK l \in Nat : l = Len(a[2])
  BY <1>0
<1>4. PICK h : h = <<Magic, l>> \o z
  OBVIOUS
<1>5. h \in Seq(Nat) /\ Len(h) = HdrLen /\ h[1] = Magic /\ h[2] = l
  <2>1. <<Magic, l>> \in Seq(Nat) /\ Len(<<Magic, l>>) = 2
    BY <1>0, <1>3
  <2>2. Len(h) = 2 + (HdrLen - 2) /\ h \in Seq(Nat)
    BY <1>2, <1>4, <2>1
  <2>3. h[1] = Magic /\ h[2] = l
    BY <1>0, <1>2, <1>4, <2>1
  <2> QED
    BY <1>0, <2>2, <2>3
<1>6. E!Header(a[2]) = h
  BY <1>1, <1>3, <1>4 DEF E!Header
<1>7. PICK x, y : x = a[1] /\ y = a[2]
  OBVIOUS
<1>8. PICK u : u = h \o x
  OBVIOUS
<1>9. /\ u \in Seq(Nat) /\ Len(u) = HdrLen + PeerLen
      /\ \A k \in 1 .. HdrLen : u[k] = h[k]
      /\ \A k \in 1 .. PeerLen : u[HdrLen + k] = x[k]
  BY <1>0, <1>5, <1>7, <1>8, JoinedBytes
<1>10. Bytes(a) = u \o y
  BY <1>6, <1>7, <1>8 DEF Bytes
<1>11. /\ \A k \in 1 .. HdrLen + PeerLen : (u \o y)[k] = u[k]
       /\ \A k \in 1 .. Len(y) : (u \o y)[(HdrLen + PeerLen) + k] = y[k]
  <2>1. y \in Seq(Nat)
    BY <1>0, <1>7
  <2>2. PICK m \in Nat : m = HdrLen + PeerLen
    BY <1>0
  <2>3. u \in Seq(Nat) /\ Len(u) = m
    BY <1>9, <2>2
  <2>4. /\ \A k \in 1 .. m : (u \o y)[k] = u[k]
        /\ \A k \in 1 .. Len(y) : (u \o y)[m + k] = y[k]
    BY <2>1, <2>3, JoinedBytes
  <2> QED
    BY <2>2, <2>4
<1>12. \A k \in 1 .. HdrLen : (u \o y)[k] = h[k]
  BY <1>0, <1>9, <1>11
<1>13. \A k \in 1 .. PeerLen : (u \o y)[HdrLen + k] = x[k]
  <2> SUFFICES ASSUME NEW k \in 1 .. PeerLen PROVE (u \o y)[HdrLen + k] = x[k]
    OBVIOUS
  <2>1. HdrLen + k \in 1 .. HdrLen + PeerLen
    BY <1>0
  <2> QED
    BY <1>9, <1>11, <2>1
<1>14. PacketLen(a) \in Nat
  <2>1. HdrLen + PeerLen + l \in Nat
    BY <1>0
  <2> QED
    BY <1>3, <2>1 DEF PacketLen
<1> QED
  BY <1>0, <1>3, <1>5, <1>6, <1>7, <1>10, <1>11, <1>12, <1>13, <1>14

(* pos[i] is where the i-th accepted packet begins in the stream of all    *)
(* bytes; the ring q is what follows byte r of that stream.                *)
Chain(acc, pos) ==
    /\ pos \in [1 .. Len(acc) + 1 -> Int]
    /\ \A i \in 1 .. Len(acc) : pos[i + 1] = pos[i] + PacketLen(acc[i])
    /\ \A i \in 1 .. Len(acc), j \in 1 .. Len(acc) + 1 :
          i < j => pos[i] + PacketLen(acc[i]) <= pos[j]
Content(acc, pos, r, q) ==
    \A i \in 1 .. Len(acc) : \A k \in 1 .. PacketLen(acc[i]) :
        r < pos[i] + k /\ pos[i] + k <= r + Len(q) =>
            q[(pos[i] + k) - r] = Bytes(acc[i])[k]

LEMMA PutKeeps ==
    ASSUME RadioGiven, NEW acc \in Seq(Packets), NEW n \in 1 .. Len(acc), n = Len(acc),
           NEW pos, Chain(acc, pos), NEW r \in Int, NEW q \in Seq(Nat), Content(acc, pos, r, q),
           NEW w \in Nat, r + Len(q) = pos[n] + w, NEW d \in Seq(Nat),
           w + Len(d) <= PacketLen(acc[n]),
           \A k \in 1 .. Len(d) : d[k] = Bytes(acc[n])[w + k]
    PROVE  Content(acc, pos, r, q \o d)
<1> SUFFICES ASSUME NEW i \in 1 .. Len(acc), NEW k \in 1 .. PacketLen(acc[i]),
                    r < pos[i] + k, pos[i] + k <= r + Len(q \o d)
             PROVE  (q \o d)[(pos[i] + k) - r] = Bytes(acc[i])[k]
  BY DEF Content
<1>0. /\ Len(acc) \in Nat /\ Len(q) \in Nat /\ Len(d) \in Nat /\ Len(q \o d) = Len(q) + Len(d)
      /\ pos[i] \in Int /\ pos[n] \in Int
  <2>1. Len(acc) \in Nat /\ Len(q) \in Nat /\ Len(d) \in Nat
    OBVIOUS
  <2>2. i \in 1 .. Len(acc) + 1 /\ n \in 1 .. Len(acc) + 1
    BY <2>1
  <2> QED
    BY <2>1, <2>2, JoinedBytes DEF Chain
<1>1. acc[i] \in Packets /\ PacketLen(acc[i]) \in Nat
  BY PacketBytes
<1>2. PICK x \in Int : x = (pos[i] + k) - r
  BY <1>0, <1>1, SMTT(30)
<1>3. x \in 1 .. Len(q) + Len(d)
  BY <1>0, <1>1, <1>2, SMTT(30)
<1>4. CASE x <= Len(q)
  <2>1. q[x] = Bytes(acc[i])[k]
    BY <1>0, <1>1, <1>2, <1>4, SMTT(30) DEF Content
  <2>2. (q \o d)[x] = q[x]
    <3>1. x \in 1 .. Len(q)
      BY <1>0, <1>3, <1>4
    <3> QED
      BY <3>1, JoinedBytes
  <2> QED
    BY <1>2, <2>1, <2>2
<1>5. CASE x > Len(q)
  <2>0. PICK l \in Nat, m \in Nat, e \in Nat, g \in Int, h \in Int :
            /\ l = Len(q) /\ m = Len(d) /\ e = PacketLen(acc[i]) /\ g = pos[i] /\ h = pos[n]
    BY <1>0, <1>1
  <2>1. i = n
    <3>1. i < n => g + e <= h
      <4>1. n \in 1 .. Len(acc) + 1
        BY <1>0
      <4> QED
        BY <2>0, <4>1 DEF Chain
    <3>2. k <= e /\ r + l = h + w /\ x = (g + k) - r /\ x > l /\ k \in Int
      BY <1>1, <1>2, <1>5, <2>0
    <3>3. ~(i < n)
      BY ONLY <3>1, <3>2, l \in Nat, e \in Nat, g \in Int, h \in Int, w \in Nat,
              r \in Int, x \in Int
    <3> QED
      BY <1>0, <3>3
  <2>2. x - Len(q) = k - w /\ x - Len(q) \in 1 .. Len(d)
    <3>1. r + l = g + w /\ x = (g + k) - r /\ x > l /\ k \in Int /\ x \in 1 .. l + m
      BY <1>1, <1>2, <1>3, <1>5, <2>0, <2>1
    <3>2. x - l = k - w /\ x - l \in 1 .. m
      BY ONLY <3>1, l \in Nat, m \in Nat, g \in Int, w \in Nat, r \in Int
    <3> QED
      BY <2>0, <3>2
  <2>3. (q \o d)[x] = d[x - Len(q)]
    <3>1. Len(q) + (x - Len(q)) = x
      BY <1>0, <1>2
    <3>2. PICK y \in 1 .. Len(d) : y = x - Len(q)
      BY <2>2
    <3>3. (q \o d)[Len(q) + y] = d[y]
      BY JoinedBytes
    <3> QED
      BY <3>1, <3>2, <3>3
  <2>4. d[k - w] = Bytes(acc[n])[w + (k - w)]
    BY <2>2
  <2>5. w + (k - w) = k
    BY <1>1
  <2> QED
    BY <1>2, <2>1, <2>2, <2>3, <2>4, <2>5
<1>6. x <= Len(q) \/ x > Len(q)
  BY <1>0, <1>2
<1> QED
  BY <1>4, <1>5, <1>6

LEMMA DropKeeps ==
    ASSUME RadioGiven, NEW acc \in Seq(Packets), NEW pos, Chain(acc, pos), NEW r \in Int,
           NEW q \in Seq(Nat), Content(acc, pos, r, q), NEW n \in 0 .. Len(q)
    PROVE  /\ SubSeq(q, n + 1, Len(q)) \in Seq(Nat)
           /\ Len(SubSeq(q, n + 1, Len(q))) = Len(q) - n
           /\ Content(acc, pos, r + n, SubSeq(q, n + 1, Len(q)))
<1>0. Len(acc) \in Nat /\ Len(q) \in Nat /\ n \in Nat
  OBVIOUS
<1>1. PICK s : s = SubSeq(q, n + 1, Len(q))
  OBVIOUS
<1>2. n + 1 \in Int /\ Len(q) \in Int /\ \A j \in n + 1 .. Len(q) : q[j] \in Nat
  BY <1>0
<1>3. /\ s \in Seq(Nat) /\ Len(s) = IF n + 1 <= Len(q) THEN Len(q) - (n + 1) + 1 ELSE 0
      /\ \A j \in 1 .. Len(q) - (n + 1) + 1 : s[j] = q[(n + 1) + j - 1]
  BY <1>1, <1>2, SubSeqProperties
<1>4. Len(s) = Len(q) - n
  BY <1>0, <1>3
<1>5. \A j \in 1 .. Len(q) - n : s[j] = q[j + n]
  <2> SUFFICES ASSUME NEW j \in 1 .. Len(q) - n PROVE s[j] = q[j + n]
    OBVIOUS
  <2>1. j \in 1 .. Len(q) - (n + 1) + 1 /\ (n + 1) + j - 1 = j + n
    BY <1>0
  <2> QED
    BY <1>3, <2>1
<1>6. ASSUME NEW i \in 1 .. Len(acc), NEW k \in 1 .. PacketLen(acc[i]),
             r + n < pos[i] + k, pos[i] + k <= (r + n) + Len(s)
      PROVE  s[(pos[i] + k) - (r + n)] = Bytes(acc[i])[k]
  <2>0. pos[i] \in Int /\ acc[i] \in Packets
    BY <1>0, SMTT(30) DEF Chain
  <2>1. PacketLen(acc[i]) \in Nat
    BY <2>0, PacketBytes
  <2>2. PICK x \in Int : x = (pos[i] + k) - (r + n)
    BY <1>0, <2>0, <2>1
  <2>3. x \in 1 .. Len(q) - n /\ x + n = (pos[i] + k) - r
    <3>1. PICK l \in Nat, g \in Int : l = Len(q) /\ g = pos[i]
      BY <1>0, <2>0
    <3>2. /\ x = (g + k) - (r + n) /\ k \in Int /\ r + n < g + k
          /\ g + k <= (r + n) + (l - n) /\ n \in Nat
      BY <1>0, <1>4, <1>6, <2>1, <2>2, <3>1
    <3>3. x \in 1 .. l - n /\ x + n = (g + k) - r
      BY ONLY <3>2, l \in Nat, g \in Int, r \in Int
    <3> QED
      BY <3>1, <3>3
  <2>4. q[x + n] = Bytes(acc[i])[k]
    <3>1. r < pos[i] + k /\ pos[i] + k <= r + Len(q)
      BY <1>0, <1>4, <1>6, <2>0, <2>1
    <3> QED
      BY <2>3, <3>1 DEF Content
  <2> QED
    BY <1>5, <2>2, <2>3, <2>4
<1> QED
  BY <1>1, <1>3, <1>4, <1>6 DEF Content

LEMMA AcceptKeeps ==
    ASSUME RadioGiven, NEW acc \in Seq(Packets), NEW pos, Chain(acc, pos), NEW r \in Int,
           NEW q \in Seq(Nat), Content(acc, pos, r, q), NEW a \in Packets,
           r + Len(q) <= pos[Len(acc) + 1]
    PROVE  \E new : /\ Chain(Append(acc, a), new) /\ Content(Append(acc, a), new, r, q)
                    /\ \A i \in 1 .. Len(acc) + 1 : new[i] = pos[i]
<1>0. Len(acc) \in Nat /\ Len(q) \in Nat /\ \A i \in 1 .. Len(acc) + 1 : pos[i] \in Int
  <2>1. pos \in [1 .. Len(acc) + 1 -> Int]
    BY DEF Chain
  <2> QED
    BY <2>1
<1>1. PICK n \in Nat : n = Len(acc)
  BY <1>0
<1>2. PacketLen(a) \in Nat /\ \A i \in 1 .. n : acc[i] \in Packets /\ PacketLen(acc[i]) \in Nat
  BY <1>1, PacketBytes
<1>3. PICK bcc : bcc = Append(acc, a)
  OBVIOUS
<1>4. /\ bcc \in Seq(Packets) /\ Len(bcc) = n + 1 /\ bcc[n + 1] = a
      /\ \A i \in 1 .. n : bcc[i] = acc[i]
  BY <1>1, <1>3
<1>5. PICK new : new = [i \in 1 .. n + 2 |-> IF i = n + 2 THEN pos[n + 1] + PacketLen(a)
                                               ELSE pos[i]]
  OBVIOUS
<1>6. new[n + 2] = pos[n + 1] + PacketLen(a) /\ \A i \in 1 .. n + 1 : new[i] = pos[i]
  BY <1>5
<1>7. new \in [1 .. Len(bcc) + 1 -> Int]
  <2>1. \A i \in 1 .. n + 2 : i # n + 2 => i \in 1 .. n + 1
    OBVIOUS
  <2>2. \A i \in 1 .. n + 2 : new[i] \in Int
    BY <1>0, <1>1, <1>2, <1>6, <2>1
  <2>3. Len(bcc) + 1 = n + 2
    BY <1>4
  <2> QED
    BY <1>5, <2>2, <2>3
<1>8. ASSUME NEW i \in 1 .. n + 1 PROVE new[i + 1] = new[i] + PacketLen(bcc[i])
  <2>1. CASE i = n + 1
    <3>1. i + 1 = n + 2
      BY <2>1
    <3> QED
      BY <1>4, <1>6, <2>1, <3>1
  <2>2. CASE i \in 1 .. n
    <3>1. i + 1 \in 1 .. n + 1 /\ i \in 1 .. n + 1
      BY <2>2
    <3>2. pos[i + 1] = pos[i] + PacketLen(acc[i])
      BY <1>1, <2>2 DEF Chain
    <3> QED
      BY <1>4, <1>6, <2>2, <3>1, <3>2
  <2> QED
    BY <2>1, <2>2
<1>9. ASSUME NEW i \in 1 .. n + 1, NEW j \in 1 .. n + 2, i < j
      PROVE  new[i] + PacketLen(bcc[i]) <= new[j]
  <2>1. CASE i = n + 1
    <3>1. j = n + 2
      BY <1>9, <2>1
    <3> QED
      BY <1>0, <1>1, <1>2, <1>4, <1>6, <2>1, <3>1
  <2>2. CASE i \in 1 .. n /\ j = n + 2
    <3>1. pos[i] + PacketLen(acc[i]) <= pos[n + 1]
      <4>1. n + 1 \in 1 .. Len(acc) + 1 /\ i < n + 1
        BY <1>1, <2>2
      <4> QED
        BY <1>1, <2>2, <4>1 DEF Chain
    <3>2. pos[i] \in Int /\ pos[n + 1] \in Int /\ new[i] = pos[i]
      BY <1>0, <1>1, <1>6, <2>2
    <3>3. bcc[i] = acc[i] /\ PacketLen(acc[i]) \in Nat
      BY <1>2, <1>4, <2>2
    <3> QED
      BY <1>2, <1>6, <2>2, <3>1, <3>2, <3>3, SMTT(30)
  <2>3. CASE i \in 1 .. n /\ j \in 1 .. n + 1
    <3>1. pos[i] + PacketLen(acc[i]) <= pos[j]
      BY <1>1, <1>9, <2>3 DEF Chain
    <3> QED
      BY <1>4, <1>6, <2>3, <3>1
  <2> QED
    BY <2>1, <2>2, <2>3
<1>10. Chain(bcc, new)
  <2>1. Len(bcc) + 1 = n + 2
    BY <1>4
  <2> QED
    BY <1>4, <1>7, <1>8, <1>9, <2>1 DEF Chain
<1>11. ASSUME NEW i \in 1 .. n + 1, NEW k \in 1 .. PacketLen(bcc[i]),
              r < new[i] + k, new[i] + k <= r + Len(q)
       PROVE  q[(new[i] + k) - r] = Bytes(bcc[i])[k]
  <2>1. CASE i = n + 1
    <3>1. new[i] = pos[n + 1] /\ pos[n + 1] \in Int /\ r + Len(q) <= pos[n + 1] /\ bcc[i] = a
      BY <1>0, <1>1, <1>4, <1>6, <2>1
    <3> QED
      BY <1>0, <1>2, <1>11, <3>1
  <2>2. CASE i \in 1 .. n
    <3>1. bcc[i] = acc[i] /\ new[i] = pos[i]
      BY <1>4, <1>6, <2>2
    <3> QED
      BY <1>1, <1>11, <2>2, <3>1 DEF Content
  <2> QED
    BY <2>1, <2>2
<1>12. Content(bcc, new, r, q)
  BY <1>4, <1>11 DEF Content
<1>13. \A i \in 1 .. Len(acc) + 1 : new[i] = pos[i]
  BY <1>1, <1>6
<1> QED
  BY <1>3, <1>10, <1>12, <1>13

(* How much of the next packet is read and of the last one is stored.      *)
ReadBytes == IF recv_gil = None THEN 0
             ELSE IF recv_pc[recv_gil] = "peer" THEN HdrLen ELSE HdrLen + PeerLen
PutBytes == IF cb_pc = "peer" THEN HdrLen
            ELSE IF cb_pc = "msg" THEN HdrLen + PeerLen ELSE 0

Stream(pos, r) ==
    /\ Chain(accepted, pos) /\ Content(accepted, pos, r, ring)
    /\ r = pos[Len(taken) + 1] + ReadBytes
    /\ r + Len(ring) = pos[rx_packets + 1] + PutBytes

(* As long as nothing failed, the packets read are the first ones, the     *)
(* reader has the next one in hand, and the ring holds what follows.       *)
InStep ==
    /\ taken \in Seq(Packets) /\ Len(taken) <= Len(accepted)
    /\ \A i \in 1 .. Len(taken) : taken[i] = accepted[i]
    /\ recv_gil # None =>
         /\ Len(taken) < Len(accepted)
         /\ msg_len = Len(accepted[Len(taken) + 1][2])
         /\ recv_pc[recv_gil] = "msg" => peer_buf = accepted[Len(taken) + 1][1]
    /\ \E r \in Int : \E pos : Stream(pos, r)

OneReader == \A t \in E!Thread : recv_pc[t] \in {"peer", "msg"} <=> recv_gil = t

(* What recv_cb has in hand.                                               *)
InHand ==
    /\ accepted \in Seq(Packets)
    /\ cb_pc # "idle" => accepted[Len(accepted)] = <<E!Address(rx_packets + 1), packet>>

(* The inductive invariant.                                                *)
EspInv ==
    /\ E!TypeOK /\ E!PutsNeverFail /\ msg_len \in Nat
    /\ InHand /\ OneReader
    /\ failed = FALSE => InStep

LEMMA Addresses ==
    ASSUME RadioGiven, NEW n \in Nat
    PROVE  E!Address(n) \in Seq(Nat) /\ Len(E!Address(n)) = PeerLen
<1>1. PeerLen \in Nat /\ 100 + n \in Nat
  BY DEF RadioGiven
<1> QED
  BY <1>1 DEF E!Address

LEMMA EspInit == ASSUME RadioGiven, E!Init PROVE EspInv
<1>0. /\ HdrLen \in Nat /\ PeerLen \in Nat /\ recv_buffer_size \in Nat \ {0}
      /\ None \notin E!Thread /\ Len(<<>>) = 0 /\ <<>> \in Seq(Nat) /\ <<>> \in Seq(Packets)
  BY DEF RadioGiven
<1>1. /\ ring = <<>> /\ cb_pc = "idle" /\ rx_packets = 0 /\ dropped_rx_pkts = 0
      /\ recv_gil = None /\ msg_len = 0 /\ accepted = <<>> /\ taken = <<>> /\ failed = FALSE
      /\ packet = <<>> /\ espnow_state = TRUE /\ task = FALSE
      /\ recv_pc = [t \in E!Thread |-> IF t \in Boot THEN "loop" ELSE "off"]
  BY DEF E!Init
<1>2. /\ recv_pc \in [E!Thread -> {"off", "loop", "wait", "peer", "msg", "host", "text"}]
      /\ \A t \in E!Thread : recv_pc[t] \notin {"peer", "msg"}
  BY <1>1
<1>3. E!TypeOK
  <2>1. espnow_state \in BOOLEAN /\ task \in BOOLEAN /\ failed \in BOOLEAN
    BY <1>1
  <2>2. ring \in Seq(Nat) /\ Len(ring) < recv_buffer_size /\ packet \in Seq(Nat)
    BY <1>0, <1>1
  <2>3. Len(accepted) = rx_packets + (IF cb_pc = "idle" THEN 0 ELSE 1)
    BY <1>0, <1>1
  <2>4. rx_packets \in Nat /\ dropped_rx_pkts \in Nat
    BY <1>1
  <2> QED
    BY <1>1, <1>2, <2>1, <2>2, <2>3, <2>4 DEF E!TypeOK
<1>4. E!PutsNeverFail
  BY <1>0, <1>1 DEF E!PutsNeverFail, E!ToPut, E!ringbuf_free
<1>5. InHand /\ OneReader
  BY <1>0, <1>1, <1>2 DEF InHand, OneReader
<1>6. PICK pos : pos = [i \in 1 .. 1 |-> 0]
  OBVIOUS
<1>7. Chain(<<>>, pos)
  BY <1>0, <1>6 DEF Chain
<1>8. Content(<<>>, pos, 0, <<>>)
  BY <1>0 DEF Content
<1>9. Stream(pos, 0)
  <2>1. pos[1] = 0 /\ ReadBytes = 0 /\ PutBytes = 0
    BY <1>1, <1>6 DEF ReadBytes, PutBytes
  <2> QED
    BY <1>0, <1>1, <1>7, <1>8, <2>1 DEF Stream
<1>10. InStep
  BY <1>0, <1>1, <1>9 DEF InStep
<1> QED
  BY <1>1, <1>3, <1>4, <1>5, <1>10 DEF EspInv

(* A step that touches neither the ring nor a packet being read.           *)
LEMMA QuietStep ==
    ASSUME RadioGiven, EspInv, NEW t \in E!Thread, NEW v \in {"off", "loop", "wait", "host", "text"},
           recv_pc[t] \notin {"peer", "msg"}, recv_pc' = [recv_pc EXCEPT ![t] = v],
           UNCHANGED <<ring, cb_pc, packet, rx_packets, accepted, recv_gil, msg_len, peer_buf,
                       taken, failed, dropped_rx_pkts>>,
           espnow_state' \in BOOLEAN, task' \in BOOLEAN
    PROVE  EspInv'
<1>0. /\ recv_pc \in [E!Thread -> {"off", "loop", "wait", "peer", "msg", "host", "text"}]
      /\ recv_gil # t /\ None \notin E!Thread /\ recv_gil \in E!Thread \cup {None}
  BY DEF EspInv, OneReader, E!TypeOK, RadioGiven
<1>1. /\ recv_pc' \in [E!Thread -> {"off", "loop", "wait", "peer", "msg", "host", "text"}]
      /\ recv_pc'[t] = v /\ \A u \in E!Thread : u # t => recv_pc'[u] = recv_pc[u]
  BY <1>0
<1>2. OneReader'
  BY <1>0, <1>1 DEF EspInv, OneReader
<1>3. E!TypeOK'
  BY <1>1 DEF EspInv, E!TypeOK
<1>4. E!PutsNeverFail' /\ msg_len' \in Nat /\ InHand'
  BY DEF EspInv, E!PutsNeverFail, E!ToPut, E!ringbuf_free, InHand, E!Address
<1>5. recv_gil # None => recv_pc'[recv_gil] = recv_pc[recv_gil]
  BY <1>0, <1>1
<1>6. ASSUME InStep PROVE InStep'
  <2>1. ReadBytes' = ReadBytes /\ PutBytes' = PutBytes
    BY <1>5 DEF ReadBytes, PutBytes
  <2>2. PICK r \in Int, pos \in [1 .. Len(accepted) + 1 -> Int] : Stream(pos, r)
    BY <1>6 DEF InStep, Stream, Chain
  <2>3. Stream(pos, r)'
    BY <2>1, <2>2 DEF Stream, Chain, Content, Bytes, PacketLen, E!Header
  <2> QED
    BY <1>5, <1>6, <2>3 DEF InStep
<1> QED
  BY <1>2, <1>3, <1>4, <1>6 DEF EspInv

(* recv_cb finds room and takes a message in hand.                         *)
LEMMA AcceptStep ==
    ASSUME RadioGiven, EspInv, NEW m \in Messages, E!recv_cb(m)
    PROVE  EspInv'
<1>0. /\ HdrLen \in Nat /\ PeerLen \in Nat /\ recv_buffer_size \in Nat /\ m \in Seq(Nat)
      /\ Len(m) \in Nat /\ ring \in Seq(Nat) /\ Len(ring) \in Nat /\ rx_packets \in Nat
      /\ cb_pc = "idle" /\ accepted \in Seq(Packets) /\ Len(accepted) = rx_packets
  BY DEF RadioGiven, EspInv, E!TypeOK, E!recv_cb, InHand
<1>1. PICK a : a = <<E!Address(rx_packets + 1), m>>
  OBVIOUS
<1>2. a \in Packets /\ a[2] = m
  <2>1. E!Address(rx_packets + 1) \in Seq(Nat) /\ Len(E!Address(rx_packets + 1)) = PeerLen
    BY <1>0, Addresses
  <2> QED
    BY <1>0, <1>1, <2>1 DEF Packets
<1>3. /\ cb_pc' = "header" /\ packet' = m /\ accepted' = Append(accepted, a)
      /\ UNCHANGED <<ring, rx_packets, dropped_rx_pkts, recv_pc, recv_gil, msg_len, peer_buf,
                     taken, failed, espnow_state, task>>
  BY <1>1 DEF E!recv_cb, E!recvVars, E!chatVars
<1>4. /\ accepted' \in Seq(Packets) /\ Len(accepted') = rx_packets + 1
      /\ accepted'[rx_packets + 1] = a
      /\ \A i \in 1 .. rx_packets : accepted'[i] = accepted[i]
  BY <1>0, <1>2, <1>3, SMTT(30)
<1>5. E!TypeOK'
  <2>1. Len(accepted') = rx_packets' + (IF cb_pc' = "idle" THEN 0 ELSE 1)
    BY <1>3, <1>4
  <2> QED
    BY <1>0, <1>3, <2>1 DEF EspInv, E!TypeOK
<1>6. E!PutsNeverFail'
  <2>1. ~(HdrLen + PeerLen + Len(m) >= recv_buffer_size - 1 - Len(ring))
    BY DEF E!recv_cb, E!TooLong, E!ringbuf_free
  <2>2. HdrLen + PeerLen + Len(m) <= recv_buffer_size - 1 - Len(ring)
    BY <1>0, <2>1
  <2>3. E!ToPut' = HdrLen + PeerLen + Len(m)
    BY <1>3 DEF E!ToPut
  <2> QED
    BY <1>3, <2>2, <2>3 DEF E!PutsNeverFail, E!ringbuf_free
<1>7. msg_len' \in Nat /\ OneReader'
  BY <1>3 DEF EspInv, OneReader
<1>8. InHand'
  <2>1. E!Address(rx_packets + 1)' = E!Address(rx_packets + 1)
    BY <1>3 DEF E!Address
  <2> QED
    BY <1>1, <1>3, <1>4, <2>1 DEF InHand
<1>9. ASSUME InStep PROVE InStep'
  <2>0. taken \in Seq(Packets) /\ Len(taken) \in Nat /\ Len(taken) <= rx_packets
    BY <1>0, <1>9 DEF InStep
  <2>1. PICK r \in Int : \E pos : Stream(pos, r)
    BY <1>9 DEF InStep
  <2>2. PICK pos : Stream(pos, r)
    BY <2>1
  <2>3. /\ Chain(accepted, pos) /\ Content(accepted, pos, r, ring)
        /\ r = pos[Len(taken) + 1] + ReadBytes
        /\ r + Len(ring) = pos[rx_packets + 1] + 0
    BY <1>0, <2>2 DEF Stream, PutBytes
  <2>4. r + Len(ring) <= pos[Len(accepted) + 1]
    <3>1. pos[rx_packets + 1] \in Int
      BY <1>0, <2>3 DEF Chain
    <3> QED
      BY <1>0, <2>3, <3>1
  <2>5. PICK new : /\ Chain(Append(accepted, a), new)
                   /\ Content(Append(accepted, a), new, r, ring)
                   /\ \A i \in 1 .. Len(accepted) + 1 : new[i] = pos[i]
    <3>1. accepted \in Seq(Packets) /\ ring \in Seq(Nat) /\ a \in Packets
      BY <1>0, <1>2
    <3>2. Chain(accepted, pos) /\ Content(accepted, pos, r, ring)
      BY <2>3
    <3> QED
      BY ONLY RadioGiven, r \in Int, <2>4, <3>1, <3>2, AcceptKeeps
  <2>6. ReadBytes' = ReadBytes /\ PutBytes' = 0
    BY <1>3 DEF ReadBytes, PutBytes
  <2>7. new[Len(taken) + 1] = pos[Len(taken) + 1] /\ new[rx_packets + 1] = pos[rx_packets + 1]
    <3>1. Len(taken) + 1 \in 1 .. Len(accepted) + 1 /\ rx_packets + 1 \in 1 .. Len(accepted) + 1
      BY <1>0, <2>0
    <3> QED
      BY <2>5, <3>1
  <2>8. /\ Chain(accepted', new) /\ Content(accepted', new, r, ring')
        /\ r = new[Len(taken') + 1] + ReadBytes'
        /\ r + Len(ring') = new[rx_packets' + 1] + PutBytes'
    BY <1>3, <2>3, <2>5, <2>6, <2>7
  <2>9. \E q \in Int : \E p : /\ Chain(accepted', p) /\ Content(accepted', p, q, ring')
                              /\ q = p[Len(taken') + 1] + ReadBytes'
                              /\ q + Len(ring') = p[rx_packets' + 1] + PutBytes'
    BY <2>8
  <2>10. (\E q \in Int : \E p : Stream(p, q))'
    BY <2>9 DEF Stream, Chain, Content, Bytes, PacketLen, E!Header
  <2>11. /\ taken' \in Seq(Packets) /\ Len(taken') <= Len(accepted')
         /\ \A i \in 1 .. Len(taken') : taken'[i] = accepted'[i]
    <3>1. \A i \in 1 .. Len(taken) : i \in 1 .. rx_packets
      BY <1>0, <2>0
    <3> QED
      BY <1>0, <1>3, <1>4, <1>9, <2>0, <3>1 DEF InStep
  <2>12. recv_gil' # None =>
           /\ Len(taken') < Len(accepted')
           /\ msg_len' = Len(accepted'[Len(taken') + 1][2])
           /\ recv_pc'[recv_gil'] = "msg" => peer_buf' = accepted'[Len(taken') + 1][1]
    <3> SUFFICES ASSUME recv_gil # None
                 PROVE  /\ Len(taken) < rx_packets + 1
                        /\ msg_len = Len(accepted'[Len(taken) + 1][2])
                        /\ recv_pc[recv_gil] = "msg" => peer_buf = accepted'[Len(taken) + 1][1]
      BY <1>3, <1>4
    <3>1. Len(taken) + 1 \in 1 .. rx_packets
      BY <1>0, <1>9, <2>0 DEF InStep
    <3> QED
      BY <1>0, <1>4, <1>9, <2>0, <3>1, SMTT(30) DEF InStep
  <2>13. Packets' = Packets
    BY DEF Packets
  <2> QED
    BY <2>10, <2>11, <2>12, <2>13 DEF InStep
<1>10. InHand' /\ OneReader' /\ failed' = failed
  BY <1>3, <1>7, <1>8
<1> QED
  BY <1>5, <1>6, <1>7, <1>9, <1>10 DEF EspInv

(* The packet in hand and what is still to be put of it.                   *)
LEMMA PacketInHand ==
    ASSUME RadioGiven, EspInv, cb_pc # "idle"
    PROVE  LET a == accepted[rx_packets + 1]
           IN  /\ Len(accepted) = rx_packets + 1 /\ rx_packets \in Nat
               /\ a \in Packets /\ a[1] = E!Address(rx_packets + 1) /\ a[2] = packet
               /\ packet \in Seq(Nat) /\ Len(packet) \in Nat
<1>1. /\ accepted \in Seq(Packets) /\ rx_packets \in Nat /\ packet \in Seq(Nat)
      /\ Len(accepted) = rx_packets + 1
      /\ accepted[Len(accepted)] = <<E!Address(rx_packets + 1), packet>>
  BY DEF EspInv, InHand, E!TypeOK
<1>2. rx_packets + 1 \in 1 .. Len(accepted) /\ accepted[rx_packets + 1] \in Packets
  BY <1>1
<1> QED
  BY <1>1, <1>2

(* ringbuf_put_bytes of the next part d of the packet in hand.             *)
LEMMA PutStep ==
    ASSUME RadioGiven, EspInv, cb_pc # "idle",
           NEW d \in Seq(Nat), Len(d) <= E!ringbuf_free, E!ringbuf_put_bytes(d),
           PutBytes + Len(d) <= PacketLen(accepted[rx_packets + 1]),
           \A k \in 1 .. Len(d) : d[k] = Bytes(accepted[rx_packets + 1])[PutBytes + k],
           \/ cb_pc' # "idle" /\ rx_packets' = rx_packets /\ PutBytes' = PutBytes + Len(d)
           \/ /\ cb_pc' = "idle" /\ rx_packets' = rx_packets + 1 /\ PutBytes' = 0
              /\ PutBytes + Len(d) = PacketLen(accepted[rx_packets + 1]),
           cb_pc' \in {"idle", "header", "peer", "msg"},
           E!ToPut' = E!ToPut - Len(d), E!ToPut \in Int,
           UNCHANGED <<packet, accepted, dropped_rx_pkts, recv_pc, recv_gil, msg_len, peer_buf,
                       taken, failed, espnow_state, task>>
    PROVE  EspInv'
<1>0. /\ HdrLen \in Nat /\ PeerLen \in Nat /\ recv_buffer_size \in Nat /\ Len(d) \in Nat
      /\ ring \in Seq(Nat) /\ Len(ring) \in Nat /\ Len(ring) < recv_buffer_size
      /\ accepted \in Seq(Packets) /\ Len(accepted) = rx_packets + 1 /\ rx_packets \in Nat
      /\ PutBytes \in Nat /\ rx_packets + 1 \in 1 .. Len(accepted)
      /\ rx_packets + 1 = Len(accepted)
  BY PacketInHand DEF RadioGiven, EspInv, InHand, E!TypeOK, PutBytes
<1>1. ring' = ring \o d
  <2>1. ~(E!ringbuf_free < Len(d))
    BY <1>0 DEF E!ringbuf_free
  <2> QED
    BY <2>1 DEF E!ringbuf_put_bytes
<1>2. ring' \in Seq(Nat) /\ Len(ring') = Len(ring) + Len(d)
  BY <1>0, <1>1, JoinedBytes
<1>3. Len(d) <= recv_buffer_size - 1 - Len(ring)
  BY DEF E!ringbuf_free
<1>4. E!TypeOK'
  <2>1. rx_packets' \in Nat /\ Len(accepted') = rx_packets' + (IF cb_pc' = "idle" THEN 0 ELSE 1)
    BY <1>0
  <2>2. Len(ring') < recv_buffer_size
    BY <1>0, <1>2, <1>3
  <2> QED
    BY <1>2, <2>1, <2>2 DEF EspInv, E!TypeOK
<1>5. E!PutsNeverFail'
  <2>1. E!ToPut <= recv_buffer_size - 1 - Len(ring)
    BY DEF EspInv, E!PutsNeverFail, E!ringbuf_free
  <2>2. E!ToPut' <= recv_buffer_size - 1 - Len(ring')
    BY <1>0, <1>2, <2>1
  <2> QED
    BY <2>2 DEF E!PutsNeverFail, E!ringbuf_free
<1>6. msg_len' \in Nat /\ OneReader'
  BY DEF EspInv, OneReader
<1>7. InHand'
  <2>1. E!Address(rx_packets + 1)' = [i \in 1 .. PeerLen |-> 100 + (rx_packets' + 1)]
    BY DEF E!Address
  <2>2. CASE cb_pc' # "idle"
    BY <2>1, <2>2 DEF EspInv, InHand, E!Address, Packets
  <2>3. CASE cb_pc' = "idle"
    BY <2>3 DEF EspInv, InHand, Packets
  <2> QED
    BY <2>2, <2>3
<1>8. ASSUME InStep PROVE InStep'
  <2>1. PICK r \in Int : \E pos : Stream(pos, r)
    BY <1>8 DEF InStep
  <2>2. PICK pos : Stream(pos, r)
    BY <2>1
  <2>3. /\ Chain(accepted, pos) /\ Content(accepted, pos, r, ring)
        /\ r = pos[Len(taken) + 1] + ReadBytes
        /\ r + Len(ring) = pos[rx_packets + 1] + PutBytes
    BY <2>2 DEF Stream
  <2>4. Content(accepted, pos, r, ring \o d)
    <3>1. PICK n \in 1 .. Len(accepted), w \in Nat : n = rx_packets + 1 /\ w = PutBytes
      BY <1>0
    <3>2. /\ n = Len(accepted) /\ r + Len(ring) = pos[n] + w /\ w + Len(d) <= PacketLen(accepted[n])
          /\ \A k \in 1 .. Len(d) : d[k] = Bytes(accepted[n])[w + k]
      BY <1>0, <2>3, <3>1
    <3>3. accepted \in Seq(Packets) /\ ring \in Seq(Nat)
      BY <1>0
    <3> QED
      BY ONLY RadioGiven, r \in Int, d \in Seq(Nat), w \in Nat, n \in 1 .. Len(accepted),
              <2>3, <3>2, <3>3, PutKeeps
  <2>5. ReadBytes' = ReadBytes
    BY DEF ReadBytes
  <2>6. pos[rx_packets + 1] \in Int
        /\ pos[(rx_packets + 1) + 1] = pos[rx_packets + 1] + PacketLen(accepted[rx_packets + 1])
    BY <1>0, <2>3 DEF Chain
  <2>7. r + Len(ring') = pos[rx_packets' + 1] + PutBytes'
    <3>1. PICK x \in Int, y \in Nat, z \in Nat, l \in Nat :
             x = pos[rx_packets + 1] /\ y = PutBytes /\ z = Len(d) /\ l = Len(ring)
      BY <1>0, <2>6
    <3>2. r + l = x + y /\ Len(ring') = l + z
      BY <1>2, <2>3, <3>1
    <3>3. r + (l + z) = x + (y + z)
      BY ONLY <3>2, x \in Int, y \in Nat, z \in Nat, l \in Nat, r \in Int
    <3>4. CASE cb_pc' # "idle"
      BY <3>1, <3>2, <3>3, <3>4
    <3>5. CASE cb_pc' = "idle"
      <4>1. rx_packets' + 1 = (rx_packets + 1) + 1 /\ PutBytes' = 0
            /\ PacketLen(accepted[rx_packets + 1]) = y + z
        BY <3>1, <3>5
      <4>2. pos[(rx_packets + 1) + 1] = x + (y + z)
        BY <2>6, <3>1, <4>1
      <4>3. x + (y + z) = x + (y + z) + 0
        BY ONLY x \in Int, y \in Nat, z \in Nat
      <4> QED
        BY <3>2, <3>3, <4>1, <4>2, <4>3
    <3> QED
      BY <3>4, <3>5
  <2>8. /\ Chain(accepted', pos) /\ Content(accepted', pos, r, ring')
        /\ r = pos[Len(taken') + 1] + ReadBytes'
    BY <1>1, <2>3, <2>4, <2>5
  <2>9. (\E q \in Int : \E p : Stream(p, q))'
    <3>1. \E q \in Int : \E p : /\ Chain(accepted', p) /\ Content(accepted', p, q, ring')
                                /\ q = p[Len(taken') + 1] + ReadBytes'
                                /\ q + Len(ring') = p[rx_packets' + 1] + PutBytes'
      BY <2>7, <2>8
    <3> QED
      BY <3>1 DEF Stream, Chain, Content, Bytes, PacketLen, E!Header
  <2>10. Packets' = Packets
    BY DEF Packets
  <2> QED
    BY <1>8, <2>9, <2>10 DEF InStep
<1> QED
  BY <1>4, <1>5, <1>6, <1>7, <1>8 DEF EspInv

LEMMA PutsRight ==
    ASSUME RadioGiven, EspInv, E!PutPacket
    PROVE  EspInv'
<1>0. HdrLen \in Nat /\ HdrLen >= 2 /\ PeerLen \in Nat
  BY DEF RadioGiven
<1>1. cb_pc # "idle"
  BY DEF E!PutPacket, E!PutHeader, E!PutPeer, E!PutMsg
<1>2. PICK a : a = accepted[rx_packets + 1]
  OBVIOUS
<1>3. PICK l \in Nat : l = Len(packet)
  BY <1>1, PacketInHand
<1>4. /\ a \in Packets /\ a[1] = E!Address(rx_packets + 1) /\ a[2] = packet
      /\ packet \in Seq(Nat) /\ PacketLen(a) = HdrLen + PeerLen + l
  BY <1>1, <1>2, <1>3, PacketInHand DEF PacketLen
<1>5. /\ E!Header(packet) \in Seq(Nat) /\ Len(E!Header(packet)) = HdrLen
      /\ E!Address(rx_packets + 1) \in Seq(Nat) /\ Len(E!Address(rx_packets + 1)) = PeerLen
      /\ \A k \in 1 .. HdrLen : E!Header(packet)[k] = Bytes(a)[k]
      /\ \A k \in 1 .. PeerLen : E!Address(rx_packets + 1)[k] = Bytes(a)[HdrLen + k]
      /\ \A k \in 1 .. l : packet[k] = Bytes(a)[(HdrLen + PeerLen) + k]
  BY <1>3, <1>4, PacketBytes, SMTT(30) DEF Packets
<1>6. E!ToPut <= E!ringbuf_free
  BY DEF EspInv, E!PutsNeverFail
<1>7. E!ringbuf_free \in Int
  BY DEF E!ringbuf_free, EspInv, E!TypeOK, RadioGiven
<1>8. CASE E!PutHeader
  <2>1. /\ cb_pc = "header" /\ cb_pc' = "peer" /\ E!ringbuf_put_bytes(E!Header(packet))
        /\ UNCHANGED <<packet, rx_packets, accepted, dropped_rx_pkts, recv_pc, recv_gil, msg_len,
                       peer_buf, taken, failed, espnow_state, task>>
    BY <1>8 DEF E!PutHeader, E!recvVars, E!chatVars
  <2>2. /\ E!ToPut = HdrLen + PeerLen + l /\ E!ToPut' = PeerLen + l
        /\ PutBytes = 0 /\ PutBytes' = HdrLen
    BY <1>3, <2>1 DEF E!ToPut, PutBytes
  <2>3. PICK d \in Seq(Nat) : d = E!Header(packet) /\ Len(d) = HdrLen
    BY <1>5
  <2>4. /\ Len(d) <= E!ringbuf_free /\ E!ToPut' = E!ToPut - Len(d) /\ E!ToPut \in Int
        /\ PutBytes' = PutBytes + Len(d) /\ PutBytes + Len(d) <= PacketLen(a)
    BY <1>0, <1>3, <1>4, <1>6, <1>7, <2>2, <2>3
  <2>5. \A k \in 1 .. Len(d) : d[k] = Bytes(a)[PutBytes + k]
    <3>1. \A k \in 1 .. HdrLen : 0 + k = k
      BY <1>0
    <3> QED
      BY <1>5, <2>2, <2>3, <3>1
  <2> QED
    BY <1>1, <1>2, <2>1, <2>3, <2>4, <2>5, PutStep
<1>9. CASE E!PutPeer
  <2>1. /\ cb_pc = "peer" /\ cb_pc' = "msg" /\ E!ringbuf_put_bytes(E!Address(rx_packets + 1))
        /\ UNCHANGED <<packet, rx_packets, accepted, dropped_rx_pkts, recv_pc, recv_gil, msg_len,
                       peer_buf, taken, failed, espnow_state, task>>
    BY <1>9 DEF E!PutPeer, E!recvVars, E!chatVars
  <2>2. /\ E!ToPut = PeerLen + l /\ E!ToPut' = l
        /\ PutBytes = HdrLen /\ PutBytes' = HdrLen + PeerLen
    BY <1>3, <2>1 DEF E!ToPut, PutBytes
  <2>3. PICK d \in Seq(Nat) : d = E!Address(rx_packets + 1) /\ Len(d) = PeerLen
    BY <1>5
  <2>4. /\ Len(d) <= E!ringbuf_free /\ E!ToPut' = E!ToPut - Len(d) /\ E!ToPut \in Int
        /\ PutBytes' = PutBytes + Len(d) /\ PutBytes + Len(d) <= PacketLen(a)
    <3>1. PICK f \in Int : f = E!ringbuf_free
      BY <1>7
    <3>2. /\ PeerLen <= f /\ (PeerLen + l) - PeerLen = l /\ PeerLen + l \in Int
          /\ HdrLen + PeerLen <= HdrLen + PeerLen + l
      <4>1. PeerLen + l <= f
        BY <1>6, <2>2, <3>1
      <4> QED
        BY ONLY <1>0, <4>1, f \in Int, l \in Nat
    <3> QED
      BY <1>4, <2>2, <2>3, <3>1, <3>2
  <2>5. \A k \in 1 .. Len(d) : d[k] = Bytes(a)[PutBytes + k]
    BY <1>5, <2>2, <2>3
  <2> QED
    BY <1>1, <1>2, <2>1, <2>3, <2>4, <2>5, PutStep
<1>10. CASE E!PutMsg
  <2>1. /\ cb_pc = "msg" /\ cb_pc' = "idle" /\ E!ringbuf_put_bytes(packet)
        /\ rx_packets' = rx_packets + 1
        /\ UNCHANGED <<packet, accepted, dropped_rx_pkts, recv_pc, recv_gil, msg_len,
                       peer_buf, taken, failed, espnow_state, task>>
    BY <1>10 DEF E!PutMsg, E!recvVars, E!chatVars
  <2>2. E!ToPut = l /\ E!ToPut' = 0 /\ PutBytes = HdrLen + PeerLen /\ PutBytes' = 0
    BY <1>3, <2>1 DEF E!ToPut, PutBytes
  <2>3. PICK d \in Seq(Nat) : d = packet /\ Len(d) = l
    BY <1>3, <1>4
  <2>4. /\ Len(d) <= E!ringbuf_free /\ E!ToPut' = E!ToPut - Len(d) /\ E!ToPut \in Int
        /\ PutBytes + Len(d) <= PacketLen(a) /\ PutBytes + Len(d) = PacketLen(a)
    BY <1>0, <1>3, <1>4, <1>6, <1>7, <2>2, <2>3
  <2>5. \A k \in 1 .. Len(d) : d[k] = Bytes(a)[PutBytes + k]
    BY <1>5, <2>2, <2>3
  <2> QED
    BY <1>1, <1>2, <2>1, <2>2, <2>3, <2>4, <2>5, PutStep
<1> QED
  BY <1>8, <1>9, <1>10 DEF E!PutPacket

(* Taking bytes leaves the callback what it has, and more room.            *)
LEMMA ReadKeeps ==
    ASSUME RadioGiven, EspInv, NEW m \in 0 .. Len(ring),
           ring' = SubSeq(ring, m + 1, Len(ring)),
           UNCHANGED <<cb_pc, packet, rx_packets, dropped_rx_pkts, accepted, espnow_state, task>>,
           recv_pc' \in [E!Thread -> {"off", "loop", "wait", "peer", "msg", "host", "text"}],
           recv_gil' \in E!Thread \cup {None}, failed' \in BOOLEAN
    PROVE  E!TypeOK' /\ E!PutsNeverFail' /\ InHand'
<1>0. /\ ring \in Seq(Nat) /\ Len(ring) \in Nat /\ Len(ring) < recv_buffer_size
      /\ recv_buffer_size \in Nat
  BY DEF RadioGiven, EspInv, E!TypeOK
<1>1. ring' \in Seq(Nat) /\ Len(ring') = Len(ring) - m
  <2>1. m + 1 \in 1 .. Len(ring) + 1 /\ m \in Nat
    BY <1>0
  <2> QED
    BY <1>0, <2>1
<1>2. E!TypeOK'
  <2>1. Len(ring') < recv_buffer_size
    BY <1>0, <1>1
  <2>2. espnow_state' \in BOOLEAN /\ task' \in BOOLEAN
    BY DEF EspInv, E!TypeOK
  <2> QED
    BY <1>1, <2>1, <2>2 DEF EspInv, E!TypeOK
<1>3. E!PutsNeverFail'
  <2>1. E!ToPut' = E!ToPut
    BY DEF E!ToPut
  <2>2. E!ToPut <= recv_buffer_size - 1 - Len(ring)
    BY DEF EspInv, E!PutsNeverFail, E!ringbuf_free
  <2>3. E!ToPut \in Int
    BY SMTT(30) DEF E!ToPut, EspInv, E!TypeOK, RadioGiven
  <2>4. E!ToPut' <= recv_buffer_size - 1 - Len(ring')
    BY <1>0, <1>1, <2>1, <2>2, <2>3
  <2> QED
    BY <2>4 DEF E!PutsNeverFail, E!ringbuf_free
<1>4. InHand'
  <2>1. Packets' = Packets /\ E!Address(rx_packets + 1)' = E!Address(rx_packets + 1)
    BY DEF Packets, E!Address
  <2> QED
    BY <2>1 DEF EspInv, InHand
<1> QED
  BY <1>2, <1>3, <1>4

(* The reader moves on in the packet, or to the next one.                  *)
LEMMA ReadStream ==
    ASSUME RadioGiven, EspInv, InStep, NEW m \in 0 .. Len(ring),
           ring' = SubSeq(ring, m + 1, Len(ring)), UNCHANGED <<cb_pc, rx_packets, accepted>>,
           \/ Len(taken') = Len(taken) /\ ReadBytes' = ReadBytes + m
           \/ /\ Len(taken') = Len(taken) + 1 /\ ReadBytes' = 0
              /\ Len(taken) < Len(accepted)
              /\ ReadBytes + m = PacketLen(accepted[Len(taken) + 1])
    PROVE  (\E q \in Int : \E p : Stream(p, q))'
<1>0. /\ ring \in Seq(Nat) /\ accepted \in Seq(Packets) /\ HdrLen \in Nat /\ PeerLen \in Nat
      /\ taken \in Seq(Packets) /\ Len(taken) \in Nat /\ Len(taken) <= Len(accepted)
      /\ Len(ring) \in Nat /\ Len(accepted) \in Nat
  BY DEF RadioGiven, EspInv, InHand, E!TypeOK, InStep
<1>1. PICK b \in Nat : b = ReadBytes
  BY <1>0 DEF ReadBytes
<1>2. PICK r \in Int : \E pos : Stream(pos, r)
  BY DEF InStep
<1>3. PICK pos : Stream(pos, r)
  BY <1>2
<1>4. /\ Chain(accepted, pos) /\ Content(accepted, pos, r, ring)
      /\ r = pos[Len(taken) + 1] + b
      /\ r + Len(ring) = pos[rx_packets + 1] + PutBytes
  BY <1>1, <1>3 DEF Stream
<1>5. /\ Len(ring') = Len(ring) - m /\ Content(accepted, pos, r + m, ring')
  BY ONLY RadioGiven, <1>0, <1>4, r \in Int, m \in 0 .. Len(ring),
          ring' = SubSeq(ring, m + 1, Len(ring)), DropKeeps
<1>6. Len(taken) + 1 \in 1 .. Len(accepted) + 1 /\ pos[Len(taken) + 1] \in Int
  <2>1. Len(taken) + 1 \in 1 .. Len(accepted) + 1
    BY <1>0
  <2> QED
    BY <1>4, <2>1 DEF Chain
<1>7. PICK x \in Int : x = pos[Len(taken) + 1]
  BY <1>6
<1>8. r + m = pos[Len(taken') + 1] + ReadBytes'
  <2>1. CASE Len(taken') = Len(taken) /\ ReadBytes' = ReadBytes + m
    <3>1. r = x + b /\ m \in Int
      BY <1>4, <1>7
    <3>2. r + m = x + (b + m)
      BY ONLY <3>1, x \in Int, b \in Nat, r \in Int
    <3> QED
      BY <1>1, <1>7, <2>1, <3>2
  <2>2. CASE /\ Len(taken') = Len(taken) + 1 /\ ReadBytes' = 0
             /\ Len(taken) < Len(accepted)
             /\ ReadBytes + m = PacketLen(accepted[Len(taken) + 1])
    <3>1. r = x + b /\ m \in Int /\ Len(taken) + 1 \in 1 .. Len(accepted)
      BY <1>0, <1>4, <1>7, <2>2, SMTT(30)
    <3>2. pos[(Len(taken) + 1) + 1] = x + (b + m)
      BY <1>1, <1>4, <1>7, <2>2, <3>1 DEF Chain
    <3>3. r + m = x + (b + m) + 0
      BY ONLY <3>1, x \in Int, b \in Nat, r \in Int
    <3> QED
      BY <2>2, <3>2, <3>3
  <2> QED
    BY <2>1, <2>2
<1>9. (r + m) + Len(ring') = pos[rx_packets' + 1] + PutBytes'
  <2>1. PutBytes' = PutBytes /\ rx_packets' = rx_packets
    BY DEF PutBytes
  <2>2. (r + m) + (Len(ring) - m) = r + Len(ring)
    BY ONLY r \in Int, m \in 0 .. Len(ring), <1>0
  <2> QED
    BY <1>4, <1>5, <2>1, <2>2
<1>10. r + m \in Int
  OBVIOUS
<1>11. \E q \in Int : \E p : /\ Chain(accepted', p) /\ Content(accepted', p, q, ring')
                            /\ q = p[Len(taken') + 1] + ReadBytes'
                            /\ q + Len(ring') = p[rx_packets' + 1] + PutBytes'
  BY <1>4, <1>5, <1>8, <1>9, <1>10
<1> QED
  BY <1>11 DEF Stream, Chain, Content, Bytes, PacketLen, E!Header

(* The bytes at the front of the ring are the next of the packet being     *)
(* read.                                                                   *)
LEMMA FrontOfRing ==
    ASSUME RadioGiven, EspInv, InStep, Len(taken) < Len(accepted),
           NEW m \in 0 .. Len(ring), ReadBytes + m <= PacketLen(accepted[Len(taken) + 1]),
           NEW k \in 1 .. m
    PROVE  ring[k] = Bytes(accepted[Len(taken) + 1])[ReadBytes + k]
<1>0. /\ ring \in Seq(Nat) /\ accepted \in Seq(Packets) /\ HdrLen \in Nat /\ PeerLen \in Nat
      /\ taken \in Seq(Packets) /\ Len(taken) \in Nat
      /\ Len(ring) \in Nat /\ Len(accepted) \in Nat
  BY DEF RadioGiven, EspInv, InHand, E!TypeOK, InStep
<1>1. PICK b \in Nat : b = ReadBytes
  BY <1>0 DEF ReadBytes
<1>2. PICK r \in Int : \E pos : Stream(pos, r)
  BY DEF InStep
<1>3. PICK pos : Stream(pos, r)
  BY <1>2
<1>4. PICK n \in 1 .. Len(accepted) : n = Len(taken) + 1
  BY <1>0
<1>5. /\ Chain(accepted, pos) /\ Content(accepted, pos, r, ring) /\ r = pos[n] + b
  BY <1>1, <1>3, <1>4 DEF Stream
<1>6. pos[n] \in Int
  BY <1>0, <1>4, <1>5 DEF Chain
<1>7. accepted[n] \in Packets
  BY <1>0
<1>8. PICK l \in Nat : l = PacketLen(accepted[n])
  BY <1>7, PacketBytes
<1>9. PICK x \in Int : x = pos[n]
  BY <1>6
<1>10. PICK y \in Nat : y = Len(ring)
  BY <1>0
<1>11. r = x + b /\ b + m <= l /\ m \in 0 .. y
  BY <1>1, <1>4, <1>5, <1>8, <1>9, <1>10
<1>12. /\ b + k \in 1 .. l /\ r < x + (b + k) /\ x + (b + k) <= r + y
       /\ (x + (b + k)) - r = k
  BY ONLY <1>11, k \in 1 .. m, b \in Nat, l \in Nat, x \in Int, y \in Nat, r \in Int
<1>13. ring[(pos[n] + (b + k)) - r] = Bytes(accepted[n])[b + k]
  BY <1>5, <1>8, <1>9, <1>10, <1>12 DEF Content
<1> QED
  BY <1>1, <1>4, <1>9, <1>12, <1>13

(* The three gets of recvinto.                                             *)
LEMMA HeaderStep ==
    ASSUME RadioGiven, EspInv, NEW t \in E!Thread, E!GetHeader(t)
    PROVE  EspInv'
<1>0. /\ HdrLen \in Nat /\ HdrLen >= 2 /\ PeerLen \in Nat /\ None \notin E!Thread
      /\ ring \in Seq(Nat) /\ Len(ring) \in Nat /\ HdrLen \in 0 .. Len(ring)
      /\ recv_pc \in [E!Thread -> {"off", "loop", "wait", "peer", "msg", "host", "text"}]
      /\ recv_pc[t] = "wait" /\ recv_gil = None /\ accepted \in Seq(Packets)
      /\ Len(accepted) \in Nat
  BY DEF RadioGiven, EspInv, E!TypeOK, E!GetHeader, E!ringbuf_avail, InHand
<1>1. /\ ring' = SubSeq(ring, HdrLen + 1, Len(ring)) /\ msg_len' = ring[2]
      /\ failed' = (failed \/ E!BadHeader)
      /\ recv_pc' = [recv_pc EXCEPT ![t] = IF E!BadHeader THEN E!AfterError(t) ELSE "peer"]
      /\ recv_gil' = IF E!BadHeader THEN None ELSE t
      /\ UNCHANGED <<cb_pc, packet, rx_packets, dropped_rx_pkts, accepted, peer_buf, taken,
                     espnow_state, task>>
  BY DEF E!GetHeader, E!Drop, E!cbVars, E!chatVars
<1>2. failed' \in BOOLEAN
  BY <1>1 DEF EspInv, E!TypeOK
<1>3. ring[2] \in Nat /\ ring[1] \in Nat
  BY <1>0
<1>4. /\ recv_pc' \in [E!Thread -> {"off", "loop", "wait", "peer", "msg", "host", "text"}]
      /\ recv_pc'[t] = (IF E!BadHeader THEN E!AfterError(t) ELSE "peer")
      /\ \A u \in E!Thread : u # t => recv_pc'[u] = recv_pc[u]
  BY <1>0, <1>1 DEF E!AfterError
<1>5. recv_gil' \in E!Thread \cup {None}
  BY <1>1
<1>6. OneReader'
  <2>1. \A u \in E!Thread : recv_pc[u] \notin {"peer", "msg"}
    BY <1>0 DEF EspInv, OneReader
  <2>2. CASE E!BadHeader
    BY <1>0, <1>1, <1>4, <2>1, <2>2 DEF OneReader, E!AfterError
  <2>3. CASE ~E!BadHeader
    BY <1>0, <1>1, <1>4, <2>1, <2>3 DEF OneReader
  <2> QED
    BY <2>2, <2>3
<1>7. E!TypeOK' /\ E!PutsNeverFail' /\ InHand'
  BY <1>0, <1>1, <1>2, <1>4, <1>5, ReadKeeps
<1>8. ASSUME failed' = FALSE PROVE InStep'
  <2>0. failed = FALSE /\ ~E!BadHeader
    BY <1>1, <1>8 DEF EspInv, E!TypeOK
  <2>1. InStep
    BY <2>0 DEF EspInv
  <2>2. taken \in Seq(Packets) /\ Len(taken) \in Nat /\ Len(taken) <= Len(accepted)
    BY <2>1 DEF InStep
  <2>3. ReadBytes = 0 /\ ReadBytes' = HdrLen
    BY <1>0, <1>1, <1>4, <2>0 DEF ReadBytes
  <2>4. Len(taken) < Len(accepted)
    <3>1. SUFFICES ASSUME Len(taken) = Len(accepted) PROVE FALSE
      BY <1>0, <2>2
    <3>2. PICK r \in Int : \E pos : Stream(pos, r)
      BY <2>1 DEF InStep
    <3>3. PICK pos : Stream(pos, r)
      BY <3>2
    <3>4. /\ Chain(accepted, pos) /\ r = pos[Len(accepted) + 1] + 0
          /\ r + Len(ring) = pos[rx_packets + 1] + PutBytes
      BY <2>3, <3>1, <3>3 DEF Stream
    <3>5. pos[Len(accepted) + 1] \in Int
      <4>1. Len(accepted) + 1 \in 1 .. Len(accepted) + 1
        BY <1>0
      <4> QED
        BY <3>4, <4>1 DEF Chain
    <3>6. PICK x \in Int : x = pos[Len(accepted) + 1]
      BY <3>5
    <3>7. CASE cb_pc = "idle"
      <4>1. rx_packets = Len(accepted) /\ PutBytes = 0
        BY <3>7 DEF EspInv, E!TypeOK, PutBytes
      <4>2. r = x + 0 /\ r + Len(ring) = x + 0
        BY <3>4, <3>6, <4>1
      <4> QED
        BY ONLY <1>0, <4>2, x \in Int, r \in Int
    <3>8. CASE cb_pc # "idle"
      <4>1. /\ rx_packets \in Nat /\ Len(accepted) = rx_packets + 1
            /\ accepted[rx_packets + 1] \in Packets
        BY <3>8, PacketInHand
      <4>2. PICK y \in Int : y = pos[rx_packets + 1]
        BY <3>4, <4>1 DEF Chain
      <4>3. PICK l \in Nat : l = Len(accepted[rx_packets + 1][2])
        BY <4>1, PacketBytes
      <4>4. rx_packets + 1 \in 1 .. Len(accepted) /\ Len(accepted) + 1 = (rx_packets + 1) + 1
        BY <1>0, <4>1
      <4>5. x = y + (HdrLen + PeerLen + l)
        BY <3>4, <3>6, <4>2, <4>3, <4>4 DEF Chain, PacketLen
      <4>6. PICK w \in Nat : w = PutBytes /\ w <= HdrLen + PeerLen
        BY <1>0 DEF PutBytes
      <4>7. r = x + 0 /\ r + Len(ring) = y + w
        BY <3>4, <3>6, <4>2, <4>6
      <4> QED
        BY ONLY <1>0, <4>5, <4>6, <4>7, x \in Int, y \in Int, l \in Nat, r \in Int, w \in Nat
    <3> QED
      BY <3>7, <3>8
  <2>5. PICK a \in Packets : a = accepted[Len(taken) + 1]
    <3>1. Len(taken) + 1 \in 1 .. Len(accepted)
      BY <1>0, <2>2, <2>4
    <3> QED
      BY <1>0, <3>1
  <2>6. PICK l \in Nat : l = Len(a[2])
    BY <2>5, PacketBytes
  <2>7. ring[2] = Len(a[2])
    <3>1. PacketLen(a) = HdrLen + PeerLen + l
      BY <2>6 DEF PacketLen
    <3>2. 0 + HdrLen <= PacketLen(a) /\ 2 \in 1 .. HdrLen /\ 0 + 2 = 2
      BY ONLY <1>0, <3>1, l \in Nat
    <3>3. ring[2] = Bytes(a)[0 + 2]
      BY <1>0, <2>1, <2>3, <2>4, <2>5, <3>2, FrontOfRing
    <3> QED
      BY <2>5, <3>2, <3>3, PacketBytes
  <2>8. (\E q \in Int : \E p : Stream(p, q))'
    <3>1. Len(taken') = Len(taken) /\ ReadBytes' = ReadBytes + HdrLen
      BY <1>0, <1>1, <2>3
    <3> QED
      BY <1>0, <1>1, <2>1, <3>1, ReadStream
  <2>9. Packets' = Packets
    BY DEF Packets
  <2>10. recv_pc'[recv_gil'] = "peer"
    BY <1>1, <1>4, <2>0
  <2> QED
    BY <1>1, <2>1, <2>4, <2>5, <2>7, <2>8, <2>9, <2>10 DEF InStep
<1> QED
  BY <1>1, <1>3, <1>6, <1>7, <1>8 DEF EspInv

(* The packet the reader has in hand.                                      *)
LEMMA Reading ==
    ASSUME RadioGiven, EspInv, NEW t \in E!Thread, recv_pc[t] \in {"peer", "msg"}
    PROVE  /\ recv_gil = t /\ recv_gil # None
           /\ \A u \in E!Thread : u # t => recv_pc[u] \notin {"peer", "msg"}
           /\ InStep =>
                /\ taken \in Seq(Packets) /\ Len(taken) \in Nat
                /\ accepted[Len(taken) + 1] \in Packets
                /\ Len(taken) < Len(accepted)
                /\ msg_len = Len(accepted[Len(taken) + 1][2])
<1>1. recv_gil = t /\ recv_gil # None
  BY DEF EspInv, OneReader, RadioGiven
<1>2. \A u \in E!Thread : u # t => recv_pc[u] \notin {"peer", "msg"}
  BY <1>1 DEF EspInv, OneReader
<1>3. ASSUME InStep
      PROVE  /\ taken \in Seq(Packets) /\ Len(taken) \in Nat
             /\ Len(taken) < Len(accepted)
             /\ msg_len = Len(accepted[Len(taken) + 1][2])
  BY <1>1, <1>3 DEF InStep
<1>4. accepted \in Seq(Packets)
  BY DEF EspInv, InHand
<1>5. ASSUME InStep PROVE accepted[Len(taken) + 1] \in Packets
  <2>1. Len(taken) + 1 \in 1 .. Len(accepted)
    BY <1>3, <1>4, <1>5
  <2> QED
    BY <1>4, <2>1
<1> QED
  BY <1>1, <1>2, <1>3, <1>5

LEMMA PeerStep ==
    ASSUME RadioGiven, EspInv, NEW t \in E!Thread, E!GetPeer(t)
    PROVE  EspInv'
<1>0. /\ HdrLen \in Nat /\ PeerLen \in Nat /\ None \notin E!Thread
      /\ ring \in Seq(Nat) /\ Len(ring) \in Nat /\ PeerLen \in 0 .. Len(ring)
      /\ recv_pc \in [E!Thread -> {"off", "loop", "wait", "peer", "msg", "host", "text"}]
      /\ recv_pc[t] = "peer"
  BY DEF RadioGiven, EspInv, E!TypeOK, E!GetPeer, E!ringbuf_avail
<1>1. /\ ring' = SubSeq(ring, PeerLen + 1, Len(ring))
      /\ peer_buf' = SubSeq(ring, 1, PeerLen)
      /\ recv_pc' = [recv_pc EXCEPT ![t] = "msg"]
      /\ UNCHANGED <<cb_pc, packet, rx_packets, dropped_rx_pkts, accepted, recv_gil, msg_len,
                     taken, failed, espnow_state, task>>
  BY DEF E!GetPeer, E!Drop, E!cbVars, E!chatVars
<1>2. failed' \in BOOLEAN /\ recv_gil' \in E!Thread \cup {None}
  BY <1>1 DEF EspInv, E!TypeOK
<1>3. recv_gil = t /\ recv_gil # None
  BY <1>0, Reading
<1>4. /\ recv_pc' \in [E!Thread -> {"off", "loop", "wait", "peer", "msg", "host", "text"}]
      /\ recv_pc'[t] = "msg"
      /\ \A u \in E!Thread : u # t => recv_pc'[u] = recv_pc[u]
  BY <1>0, <1>1
<1>5. OneReader'
  BY <1>0, <1>1, <1>3, <1>4 DEF EspInv, OneReader
<1>6. E!TypeOK' /\ E!PutsNeverFail' /\ InHand'
  BY <1>0, <1>1, <1>2, <1>4, ReadKeeps
<1>7. ASSUME InStep PROVE InStep'
  <2>1. ReadBytes = HdrLen /\ ReadBytes' = HdrLen + PeerLen
    BY <1>0, <1>1, <1>3, <1>4 DEF ReadBytes
  <2>2. PICK a \in Packets : a = accepted[Len(taken) + 1]
    BY <1>0, <1>7, Reading
  <2>3. PICK l \in Nat : l = Len(a[2])
    BY <2>2, PacketBytes
  <2>4. PacketLen(a) = HdrLen + PeerLen + l
    BY <2>3 DEF PacketLen
  <2>5. HdrLen + PeerLen <= PacketLen(a)
    BY ONLY <1>0, <2>4, l \in Nat
  <2>6. ASSUME NEW k \in 1 .. PeerLen PROVE ring[k] = a[1][k]
    <3>1. Len(taken) < Len(accepted)
      BY <1>0, <1>7, Reading
    <3>2. ring[k] = Bytes(a)[HdrLen + k]
      BY <1>0, <1>7, <2>1, <2>2, <2>5, <3>1, FrontOfRing
    <3> QED
      BY <2>2, <3>2, PacketBytes
  <2>7. SubSeq(ring, 1, PeerLen) = a[1]
    <3>1. PICK s : s = SubSeq(ring, 1, PeerLen)
      OBVIOUS
    <3>2. s \in Seq(Nat) /\ Len(s) = PeerLen /\ \A k \in 1 .. PeerLen : s[k] = ring[k]
      BY <1>0, <3>1
    <3>3. a[1] \in Seq(Nat) /\ Len(a[1]) = PeerLen
      BY <2>2 DEF Packets
    <3>4. \A k \in 1 .. Len(s) : s[k] = a[1][k]
      BY <2>6, <3>2
    <3> QED
      BY ONLY <3>1, <3>2, <3>3, <3>4, SeqsEqual
  <2>8. (\E q \in Int : \E p : Stream(p, q))'
    <3>1. Len(taken') = Len(taken) /\ ReadBytes' = ReadBytes + PeerLen
      BY <1>0, <1>1, <2>1
    <3> QED
      BY <1>0, <1>1, <1>7, <3>1, ReadStream
  <2>9. Packets' = Packets
    BY DEF Packets
  <2> QED
    BY <1>1, <1>7, <2>2, <2>7, <2>8, <2>9 DEF InStep
<1> QED
  BY <1>1, <1>5, <1>6, <1>7 DEF EspInv

LEMMA MsgStep ==
    ASSUME RadioGiven, EspInv, NEW t \in E!Thread, E!GetMsg(t)
    PROVE  EspInv'
<1>0. /\ HdrLen \in Nat /\ PeerLen \in Nat /\ None \notin E!Thread
      /\ ring \in Seq(Nat) /\ Len(ring) \in Nat /\ msg_len \in 0 .. Len(ring)
      /\ recv_pc \in [E!Thread -> {"off", "loop", "wait", "peer", "msg", "host", "text"}]
      /\ recv_pc[t] = "msg" /\ accepted \in Seq(Packets) /\ Len(accepted) \in Nat
  BY DEF RadioGiven, EspInv, InHand, E!TypeOK, E!GetMsg, E!ringbuf_avail
<1>1. /\ ring' = SubSeq(ring, msg_len + 1, Len(ring))
      /\ taken' = Append(taken, <<peer_buf, SubSeq(ring, 1, msg_len)>>)
      /\ recv_pc' = [recv_pc EXCEPT ![t] = IF msg_len = 0 THEN "loop" ELSE "host"]
      /\ recv_gil' = None
      /\ UNCHANGED <<cb_pc, packet, rx_packets, dropped_rx_pkts, accepted, msg_len,
                     peer_buf, failed, espnow_state, task>>
  BY DEF E!GetMsg, E!Drop, E!cbVars, E!chatVars
<1>2. failed' \in BOOLEAN /\ recv_gil' \in E!Thread \cup {None}
  BY <1>1 DEF EspInv, E!TypeOK
<1>3. recv_gil = t /\ recv_gil # None
  BY <1>0, Reading
<1>4. /\ recv_pc' \in [E!Thread -> {"off", "loop", "wait", "peer", "msg", "host", "text"}]
      /\ recv_pc'[t] \in {"loop", "host"}
      /\ \A u \in E!Thread : u # t => recv_pc'[u] = recv_pc[u]
  BY <1>0, <1>1
<1>5. OneReader'
  <2>1. \A u \in E!Thread : u # t => recv_pc[u] \notin {"peer", "msg"}
    BY <1>0, Reading
  <2> QED
    BY <1>0, <1>1, <1>4, <2>1 DEF OneReader
<1>6. E!TypeOK' /\ E!PutsNeverFail' /\ InHand'
  BY <1>0, <1>1, <1>2, <1>4, ReadKeeps
<1>7. ASSUME InStep PROVE InStep'
  <2>0. taken \in Seq(Packets) /\ Len(taken) \in Nat /\ Len(taken) < Len(accepted)
        /\ \A i \in 1 .. Len(taken) : taken[i] = accepted[i]
    BY <1>0, <1>7, Reading DEF InStep
  <2>1. ReadBytes = HdrLen + PeerLen /\ ReadBytes' = 0
    BY <1>0, <1>1, <1>3 DEF ReadBytes
  <2>2. PICK a \in Packets : a = accepted[Len(taken) + 1]
    BY <1>0, <1>7, Reading
  <2>3. msg_len = Len(a[2]) /\ peer_buf = a[1]
    BY <1>0, <1>3, <1>7, <2>2 DEF InStep
  <2>4. PacketLen(a) = (HdrLen + PeerLen) + msg_len /\ msg_len \in Nat
    BY <1>0, <2>3 DEF PacketLen
  <2>5. (HdrLen + PeerLen) + msg_len <= PacketLen(a)
    BY ONLY <1>0, <2>4
  <2>6. ASSUME NEW k \in 1 .. msg_len PROVE ring[k] = a[2][k]
    <3>1. ring[k] = Bytes(a)[(HdrLen + PeerLen) + k]
      BY <1>0, <1>7, <2>0, <2>1, <2>2, <2>5, FrontOfRing
    <3> QED
      BY <2>2, <2>3, <3>1, PacketBytes
  <2>7. SubSeq(ring, 1, msg_len) = a[2]
    <3>1. PICK s : s = SubSeq(ring, 1, msg_len)
      OBVIOUS
    <3>2. s \in Seq(Nat) /\ Len(s) = msg_len /\ \A k \in 1 .. msg_len : s[k] = ring[k]
      BY <1>0, <3>1
    <3>3. a[2] \in Seq(Nat)
      BY <2>2 DEF Packets
    <3>4. \A k \in 1 .. Len(s) : s[k] = a[2][k]
      BY <2>6, <3>2
    <3> QED
      BY ONLY <2>3, <3>1, <3>2, <3>3, <3>4, SeqsEqual
  <2>8. a = <<a[1], a[2]>>
    BY <2>2 DEF Packets
  <2>9. taken' = Append(taken, a)
    BY <1>1, <2>3, <2>7, <2>8
  <2>10. /\ taken' \in Seq(Packets) /\ Len(taken') = Len(taken) + 1
         /\ \A i \in 1 .. Len(taken) : taken'[i] = taken[i]
         /\ taken'[Len(taken) + 1] = a
    BY <2>0, <2>2, <2>9
  <2>11. \A i \in 1 .. Len(taken') : i = Len(taken) + 1 \/ i \in 1 .. Len(taken)
    BY <2>0, <2>10
  <2>12. (\E q \in Int : \E p : Stream(p, q))'
    <3>1. ReadBytes + msg_len = PacketLen(accepted[Len(taken) + 1])
      BY <2>1, <2>2, <2>4
    <3> QED
      BY <1>0, <1>1, <1>7, <2>0, <2>1, <2>10, <3>1, ReadStream
  <2>13. Packets' = Packets /\ Len(taken') <= Len(accepted')
    BY <1>0, <1>1, <2>0, <2>10 DEF Packets
  <2> QED
    BY <1>1, <2>0, <2>2, <2>10, <2>11, <2>12, <2>13 DEF InStep
<1> QED
  BY <1>0, <1>1, <1>5, <1>6, <1>7 DEF EspInv

(* After a buffer error nothing more is promised of the order.             *)
LEMMA ErrorStep ==
    ASSUME RadioGiven, EspInv, NEW t \in E!Thread, E!BufferError(t)
    PROVE  EspInv'
<1>0. /\ None \notin E!Thread
      /\ recv_pc \in [E!Thread -> {"off", "loop", "wait", "peer", "msg", "host", "text"}]
      /\ recv_pc[t] \in {"peer", "msg"}
  BY DEF RadioGiven, EspInv, E!TypeOK, E!BufferError
<1>1. /\ failed' = TRUE /\ recv_gil' = None
      /\ recv_pc' = [recv_pc EXCEPT ![t] = E!AfterError(t)]
      /\ UNCHANGED <<ring, cb_pc, packet, rx_packets, dropped_rx_pkts, accepted, msg_len,
                     espnow_state, task>>
  BY DEF E!BufferError, E!cbVars, E!chatVars
<1>2. /\ recv_pc' \in [E!Thread -> {"off", "loop", "wait", "peer", "msg", "host", "text"}]
      /\ recv_pc'[t] \in {"loop", "off"}
      /\ \A u \in E!Thread : u # t => recv_pc'[u] = recv_pc[u]
  BY <1>0, <1>1 DEF E!AfterError
<1>3. OneReader'
  <2>1. \A u \in E!Thread : u # t => recv_pc[u] \notin {"peer", "msg"}
    BY <1>0, Reading
  <2> QED
    BY <1>0, <1>1, <1>2, <2>1 DEF OneReader
<1>4. E!TypeOK'
  <2>1. failed' \in BOOLEAN /\ espnow_state' \in BOOLEAN /\ task' \in BOOLEAN
    BY <1>1 DEF EspInv, E!TypeOK
  <2> QED
    BY <1>1, <1>2, <2>1 DEF EspInv, E!TypeOK
<1>5. E!PutsNeverFail' /\ msg_len' \in Nat /\ InHand'
  BY <1>1 DEF EspInv, E!PutsNeverFail, E!ToPut, E!ringbuf_free, InHand, E!Address, Packets
<1> QED
  BY <1>1, <1>3, <1>4, <1>5 DEF EspInv

LEMMA EspNext ==
    ASSUME RadioGiven, EspInv, [E!Next]_(E!vars) PROVE EspInv'
<1>0. espnow_state \in BOOLEAN /\ task \in BOOLEAN
  BY DEF EspInv, E!TypeOK
<1>1. CASE \E m \in Messages : E!recv_cb(m)
  BY <1>1, AcceptStep
<1>2. CASE E!PutPacket
  BY <1>2, PutsRight
<1>3. CASE \/ UNCHANGED E!vars \/ E!end_espnow_task \/ \E m \in Messages : E!recv_cb_drops(m)
  <2>1. /\ UNCHANGED <<ring, cb_pc, packet, rx_packets, accepted, recv_pc, recv_gil, msg_len,
                       peer_buf, taken, failed>>
        /\ dropped_rx_pkts' \in Nat
    BY <1>3 DEF E!vars, E!cbVars, E!recvVars, E!chatVars, E!end_espnow_task,
                E!recv_cb_drops, EspInv, E!TypeOK
  <2>2. espnow_state' \in BOOLEAN
    BY <1>0, <1>3 DEF E!vars, E!chatVars, E!end_espnow_task, E!recv_cb_drops
  <2>3. task' \in BOOLEAN
    BY <1>0, <1>3 DEF E!vars, E!chatVars, E!end_espnow_task, E!recv_cb_drops
  <2>4. E!TypeOK'
    BY <2>1, <2>2, <2>3 DEF EspInv, E!TypeOK
  <2>5. E!PutsNeverFail' /\ msg_len' \in Nat /\ InHand' /\ OneReader'
    BY <2>1 DEF EspInv, E!PutsNeverFail, E!ToPut, E!ringbuf_free, InHand, E!Address,
                Packets, OneReader
  <2>6. ASSUME InStep PROVE InStep'
    <3>1. ReadBytes' = ReadBytes /\ PutBytes' = PutBytes /\ Packets' = Packets
      BY <2>1 DEF ReadBytes, PutBytes, Packets
    <3>2. (\E q \in Int : \E p : Stream(p, q))'
      <4>1. \E q \in Int : \E p : Stream(p, q)
        BY <2>6 DEF InStep
      <4> QED
        BY <2>1, <3>1, <4>1 DEF Stream, Chain, Content, Bytes, PacketLen, E!Header
    <3> QED
      BY <2>1, <2>6, <3>1, <3>2 DEF InStep
  <2> QED
    BY <2>1, <2>4, <2>5, <2>6 DEF EspInv
<1>4. ASSUME NEW t \in Chat, E!run_espnow_message(t) PROVE EspInv'
  <2>1. /\ t \in E!Thread /\ recv_pc[t] \notin {"peer", "msg"}
        /\ recv_pc' = [recv_pc EXCEPT ![t] = "loop"]
        /\ UNCHANGED <<ring, cb_pc, packet, rx_packets, accepted, recv_gil, msg_len, peer_buf,
                       taken, failed, dropped_rx_pkts>>
    BY <1>4 DEF E!run_espnow_message, E!cbVars, E!recvVars, E!Thread
  <2>2. espnow_state' \in BOOLEAN /\ task' \in BOOLEAN
    BY <1>4 DEF E!run_espnow_message
  <2> QED
    BY <2>1, <2>2, QuietStep
<1>5. ASSUME NEW t \in E!Thread,
             E!Loop(t) \/ E!Timeout(t) \/ E!CopyHost(t) \/ E!CopyMsg(t)
      PROVE  EspInv'
  <2>1. /\ recv_pc[t] \notin {"peer", "msg"}
        /\ \E v \in {"off", "loop", "wait", "host", "text"} : recv_pc' = [recv_pc EXCEPT ![t] = v]
    BY <1>5 DEF E!Loop, E!Timeout, E!CopyHost, E!CopyMsg
  <2>2. UNCHANGED <<ring, cb_pc, packet, rx_packets, accepted, recv_gil, msg_len, peer_buf,
                    taken, failed, dropped_rx_pkts, espnow_state, task>>
    BY <1>5 DEF E!Loop, E!Timeout, E!CopyHost, E!CopyMsg, E!cbVars, E!recvVars, E!chatVars
  <2>3. espnow_state' \in BOOLEAN /\ task' \in BOOLEAN
    BY <1>0, <2>2
  <2> QED
    BY <2>1, <2>2, <2>3, QuietStep
<1>6. ASSUME NEW t \in E!Thread, E!Receive(t) PROVE EspInv'
  BY <1>5, <1>6, HeaderStep, PeerStep, MsgStep, ErrorStep DEF E!Receive
<1> QED
  BY <1>1, <1>2, <1>3, <1>4, <1>6 DEF E!Next, E!WifiTask, E!Key

(* An accepted packet is stored whole (modespnow.c:559-573), and until the *)
(* first buffer error the receivers take the packets in order, each once   *)
(* and unaltered (modespnow.c:403-456): for every size of the ring, of     *)
(* headers and of addresses, all messages and any number of receivers.     *)
THEOREM PacketsAlwaysInOrder == E!Spec => []PacketsInOrder
<1>0. RadioGiven
  BY RadioAssumption DEF RadioGiven, E!Thread
<1>1. E!Init => EspInv
  BY <1>0, EspInit
<1>2. EspInv /\ [E!Next]_(E!vars) => EspInv'
  BY <1>0, EspNext
<1>3. EspInv => PacketsInOrder
  <2> SUFFICES ASSUME EspInv, ~failed
               PROVE  /\ Len(taken) <= Len(accepted)
                      /\ taken = SubSeq(accepted, 1, Len(taken))
    BY DEF EspInv, PacketsInOrder, E!PacketsInOrder, E!TakenInOrder
  <2>1. InStep
    BY DEF EspInv, E!TypeOK
  <2>2. /\ taken \in Seq(Packets) /\ accepted \in Seq(Packets) /\ Len(taken) \in Nat
        /\ Len(taken) <= Len(accepted)
        /\ \A i \in 1 .. Len(taken) : taken[i] = accepted[i]
    BY <2>1 DEF InStep, EspInv, InHand
  <2>3. PICK s : s = SubSeq(accepted, 1, Len(taken))
    OBVIOUS
  <2>4. /\ s \in Seq(Packets) /\ Len(s) = Len(taken)
        /\ \A i \in 1 .. Len(taken) : s[i] = accepted[i]
    BY <2>2, <2>3
  <2>5. \A i \in 1 .. Len(taken) : taken[i] = s[i]
    BY <2>2, <2>4
  <2>6. taken = s
    BY ONLY <2>2, <2>4, <2>5, SeqsEqual
  <2> QED
    BY <2>2, <2>3, <2>6
<1> QED
  BY <1>1, <1>2, <1>3, PTL DEF E!Spec
-----------------------------------------------------------------------------
(* Sending, for any finite sets of threads and of peers and any number of  *)
(* packets and lost responses.  The responses due, as a set with one       *)
(* element for each.                                                       *)
DueOf(f) == UNION {{t} \X (1 .. f[t]) : t \in Sender}

(* A call that has n responses due, instead of what it had.                *)
LEMMA DueChanges ==
    ASSUME NEW f \in [Sender -> Nat], NEW t \in Sender, NEW n \in Nat,
           IsFiniteSet(DueOf(f))
    PROVE  LET g == [f EXCEPT ![t] = n]
           IN  /\ IsFiniteSet(DueOf(g))
               /\ Cardinality(DueOf(g)) = (Cardinality(DueOf(f)) - f[t]) + n
<1> DEFINE g == [f EXCEPT ![t] = n]
           Rest == UNION {{u} \X (1 .. f[u]) : u \in Sender \ {t}}
<1>1. \A m \in Nat : /\ IsFiniteSet({t} \X (1 .. m))
                     /\ Cardinality({t} \X (1 .. m)) = m
  <2> TAKE m \in Nat
  <2>1. IsFiniteSet(1 .. m) /\ Cardinality(1 .. m) = m
    <3>1. /\ IsFiniteSet(1 .. m)
          /\ Cardinality(1 .. m) = IF 1 > m THEN 0 ELSE (m - 1) + 1
      BY FS_Interval
    <3> QED
      BY <3>1
  <2>2. IsFiniteSet({t}) /\ Cardinality({t}) = 1
    BY FS_Singleton
  <2>3. /\ IsFiniteSet({t} \X (1 .. m))
        /\ Cardinality({t} \X (1 .. m)) = Cardinality({t}) * Cardinality(1 .. m)
    BY <2>1, <2>2, FS_Product
  <2> QED
    BY <2>1, <2>2, <2>3
<1>2. /\ DueOf(f) = Rest \cup ({t} \X (1 .. f[t]))
      /\ Rest \cap ({t} \X (1 .. f[t])) = {}
  BY DEF DueOf
<1>3. /\ DueOf(g) = Rest \cup ({t} \X (1 .. n))
      /\ Rest \cap ({t} \X (1 .. n)) = {}
  <2>1. g[t] = n /\ \A u \in Sender \ {t} : g[u] = f[u]
    OBVIOUS
  <2> QED
    BY <2>1 DEF DueOf
<1>4. IsFiniteSet(Rest)
  BY <1>2, FS_Subset
<1> HIDE DEF Rest
<1>5. ASSUME NEW m \in Nat, Rest \cap ({t} \X (1 .. m)) = {}
      PROVE  /\ IsFiniteSet(Rest \cup ({t} \X (1 .. m)))
             /\ Cardinality(Rest \cup ({t} \X (1 .. m))) = Cardinality(Rest) + m
  <2>1. /\ IsFiniteSet(Rest \cup ({t} \X (1 .. m)))
        /\ Cardinality(Rest \cup ({t} \X (1 .. m))) =
             Cardinality(Rest) + Cardinality({t} \X (1 .. m))
                - Cardinality(Rest \cap ({t} \X (1 .. m)))
    <3>1. IsFiniteSet({t} \X (1 .. m))
      BY <1>1
    <3> QED
      BY ONLY <1>4, <3>1, FS_Union
  <2>2. Cardinality(Rest) \in Nat /\ Cardinality({}) = 0
    BY <1>4, FS_CardinalityType, FS_EmptySet
  <2>3. Cardinality({t} \X (1 .. m)) = m
    BY <1>1
  <2>4. Cardinality(Rest \cap ({t} \X (1 .. m))) = 0
    BY <1>5, <2>2
  <2> QED
    BY <2>1, <2>2, <2>3, <2>4
<1>6. /\ IsFiniteSet(DueOf(g))
      /\ Cardinality(DueOf(g)) = Cardinality(Rest) + n
  BY <1>3, <1>5
<1>7. Cardinality(DueOf(f)) = Cardinality(Rest) + f[t] /\ f[t] \in Nat
  BY <1>2, <1>5
<1>8. Cardinality(Rest) \in Nat
  BY <1>4, FS_CardinalityType
<1> QED
  BY <1>6, <1>7, <1>8

(* No response is due when each call has none.                             *)
LEMMA NothingDue == DueOf([t \in Sender |-> 0]) = {}
  BY DEF DueOf

(* EspNowSend counts as FiniteSets does.                                   *)
LEMMA SameCardinality == \A X : Tx!Cardinality(X) = Cardinality(X)
  BY DEF Tx!Cardinality, Cardinality

(* The packet accepted but not yet counted.                                *)
Uncounted ==
    IF send_gil \in Sender /\ send_pc[send_gil] = "count" THEN Tx!Count(dest[send_gil])
                                                          ELSE 0

GilHeld == \A t \in Sender : send_gil = t <=> send_pc[t] \in {"send", "count"}
Addressed ==
    /\ peer_count = Cardinality(peers)
    /\ \A t \in Sender : dest[t] = {} \/ Cardinality(dest[t]) = 1
Fresh == \A t \in Sender :
    send_pc[t] \in {"idle", "flush", "send", "retry"} => own[t] = 0 /\ missed[t] = FALSE
Waits == \A t \in Sender : send_pc[t] = "wait" => sync[t] = TRUE
Balanced ==
    /\ IsFiniteSet(DueOf(own))
    /\ tx_packets + Uncounted = tx_responses + (Cardinality(DueOf(own)) + (old + lost))

(* What a call that missed a recipient will find: a failure counted since  *)
(* it began, or a response that never comes.                               *)
MissSeen == \A t \in Sender :
    /\ tx_failures >= saved_failures[t]
    /\ missed[t] = TRUE /\ t \notin cut => tx_failures > saved_failures[t] \/ lost > 0

(* What a lone sender finds is its own.                                    *)
LoneKnows == \A t \in Sender :
    Tx!Lone(t) /\ sync[t] = TRUE /\ send_pc[t] \in {"send", "retry", "count", "wait"} =>
        old = 0 /\ (tx_failures > saved_failures[t] => missed[t] = TRUE)

SendInv ==
    /\ Tx!TypeOK /\ GilHeld /\ Addressed /\ Fresh /\ Waits
    /\ Balanced /\ MissSeen /\ LoneKnows

LEMMA SendInitInv == Tx!Init => SendInv
<1> SUFFICES ASSUME Tx!Init PROVE SendInv
  OBVIOUS
<1>1. Tx!TypeOK
  BY SendAssumption DEF Tx!Init, Tx!TypeOK
<1>2. GilHeld
  BY SendAssumption DEF Tx!Init, GilHeld
<1>3. Addressed
  BY FS_EmptySet DEF Tx!Init, Addressed
<1>4. Fresh /\ Waits /\ LoneKnows
  BY DEF Tx!Init, Fresh, Waits, LoneKnows
<1>5. Balanced
  <2>1. own = [t \in Sender |-> 0] /\ tx_packets = 0 /\ tx_responses = 0
        /\ old = 0 /\ lost = 0 /\ send_gil \notin Sender
    BY SendAssumption DEF Tx!Init
  <2>2. IsFiniteSet(DueOf(own)) /\ Cardinality(DueOf(own)) = 0
    BY <2>1, NothingDue, FS_EmptySet
  <2> QED
    BY <2>1, <2>2 DEF Balanced, Uncounted
<1>6. MissSeen
  BY DEF Tx!Init, MissSeen
<1> QED
  BY <1>1, <1>2, <1>3, <1>4, <1>5, <1>6 DEF SendInv

(* The number of recipients, and what send() counts for them.              *)
LEMMA RecipientsCounted ==
    ASSUME Tx!TypeOK, Addressed, NEW t \in Sender
    PROVE  /\ Cardinality(Tx!Recipients(dest[t])) = Tx!Count(dest[t])
           /\ Tx!Count(dest[t]) \in Nat
  BY DEF Tx!TypeOK, Addressed, Tx!Recipients, Tx!Count

(* Types.                                                                  *)
LEMMA SendNextType ==
    ASSUME SendInv, Tx!Next
    PROVE  Tx!TypeOK'
<1> USE SendAssumption
<1>0. Tx!TypeOK /\ Addressed /\ Fresh
  BY DEF SendInv
<1> USE DEF Tx!TypeOK
<1>1. CASE Tx!espnow_init
  BY <1>0, <1>1 DEF Tx!espnow_init, Tx!counters, Tx!args, Tx!air
<1>2. CASE Tx!espnow_deinit
  BY <1>0, <1>2 DEF Tx!espnow_deinit, Tx!args
<1>3. ASSUME NEW p \in Peer, Tx!espnow_add_peer(p) \/ Tx!espnow_del_peer(p) PROVE Tx!TypeOK'
  <2>1. peers' \subseteq Peer
    BY <1>0, <1>3 DEF Tx!espnow_add_peer, Tx!espnow_del_peer
  <2>2. peer_count' \in Nat
    <3>1. IsFiniteSet(peers')
      BY <2>1, FS_Subset
    <3>2. peer_count' = Cardinality(peers')
      BY <1>3, SameCardinality DEF Tx!espnow_add_peer, Tx!espnow_del_peer
    <3> QED
      BY <3>1, <3>2, FS_CardinalityType
  <2> QED
    BY <1>0, <1>3, <2>1, <2>2
       DEF Tx!espnow_add_peer, Tx!espnow_del_peer, Tx!counters, Tx!args, Tx!air
<1>4. ASSUME NEW t \in Sender, NEW s \in BOOLEAN, NEW d \in {{}} \cup {{p} : p \in Peer},
             Tx!espnow_send(t, s, d)
      PROVE  Tx!TypeOK'
  BY <1>0, <1>4 DEF Tx!espnow_send, Tx!Goto, Tx!counters, Tx!air
<1>5. ASSUME NEW t \in Sender, Tx!Send(t) PROVE Tx!TypeOK'
  <2>ret. ASSUME NEW r \in {"True", "False", "OSError"}, Tx!Return(t, r),
                 UNCHANGED <<espnow_active, peers, peer_count, tx_responses, tx_failures, lost>>,
                 tx_packets' \in Nat
          PROVE  Tx!TypeOK'
    BY <1>0, <2>ret DEF Tx!Return, Tx!Goto
  <2>1. CASE Tx!Flush(t)
    BY <1>0, <2>1 DEF Tx!Flush, Tx!Goto, Tx!counters, Tx!air
  <2>2. CASE Tx!TimedOut(t)
    BY <1>0, <2>ret, <2>2 DEF Tx!TimedOut, Tx!counters
  <2>3. CASE Tx!CountPackets(t)
    <3>1. tx_packets' \in Nat
      BY <1>0, <2>3, RecipientsCounted DEF Tx!CountPackets
    <3>2. CASE sync[t]
      BY <1>0, <2>3, <3>1, <3>2 DEF Tx!CountPackets, Tx!Goto, Tx!args
    <3>3. CASE ~sync[t]
      BY <2>ret, <2>3, <3>1, <3>3 DEF Tx!CountPackets
    <3> QED
      BY <3>2, <3>3
  <2>4. CASE Tx!Answered(t)
    BY <1>0, <2>ret, <2>4 DEF Tx!Answered, Tx!counters
  <2>5. CASE Tx!SendAccepted(t)
    <3>1. PICK n \in Nat : n = Tx!Cardinality(Tx!Recipients(dest[t]))
      BY <1>0, RecipientsCounted, SameCardinality
    <3> QED
      BY <1>0, <2>5, <3>1 DEF Tx!SendAccepted, Tx!Goto, Tx!counters, Tx!args
  <2>6. CASE Tx!SendFull(t) \/ Tx!Retry(t)
    BY <1>0, <2>6 DEF Tx!SendFull, Tx!Retry, Tx!Goto, Tx!counters, Tx!args, Tx!air
  <2>7. CASE Tx!SendRefused(t)
    BY <1>0, <2>ret, <2>7 DEF Tx!SendRefused, Tx!counters
  <2> QED
    BY <1>5, <2>1, <2>2, <2>3, <2>4, <2>5, <2>6, <2>7 DEF Tx!Send, Tx!GoOn
<1>6. ASSUME NEW t \in Sender, NEW ok \in BOOLEAN, Tx!ResponseOwn(t, ok) PROVE Tx!TypeOK'
  BY <1>0, <1>6 DEF Tx!ResponseOwn, Tx!send_cb, Tx!args
<1>7. ASSUME NEW ok \in BOOLEAN, Tx!ResponseOld(ok) PROVE Tx!TypeOK'
  BY <1>0, <1>7 DEF Tx!ResponseOld, Tx!send_cb, Tx!args
<1>8. ASSUME NEW t \in Sender, Tx!Lose(t) PROVE Tx!TypeOK'
  BY <1>0, <1>8 DEF Tx!Lose, Tx!counters, Tx!args
<1> QED
  BY <1>1, <1>2, <1>3, <1>4, <1>5, <1>6, <1>7, <1>8 DEF Tx!Next

(* Who holds the GIL, what is counted for a packet, and that a call has    *)
(* nothing due before its packet is accepted.                              *)
LEMMA SendNextShape ==
    ASSUME SendInv, Tx!Next
    PROVE  GilHeld' /\ Addressed' /\ Fresh' /\ Waits'
<1> USE SendAssumption
<1>0. /\ Tx!TypeOK /\ GilHeld /\ Addressed /\ Fresh /\ Waits
  BY DEF SendInv
<1> DEFINE Shape == GilHeld /\ Addressed /\ Fresh /\ Waits
<1>one. \A p \in Peer : Cardinality({p}) = 1
  BY FS_Singleton
<1>1. CASE Tx!espnow_init
  BY <1>0, <1>1
     DEF Tx!espnow_init, Tx!counters, Tx!args, Tx!air, GilHeld, Addressed, Fresh, Waits
<1>2. CASE Tx!espnow_deinit
  <2>1. Addressed'
    BY <1>0, <1>2, FS_EmptySet DEF Tx!espnow_deinit, Tx!args, Addressed
  <2>2. Fresh'
    BY <1>0, <1>2 DEF Tx!espnow_deinit, Tx!TypeOK, Fresh
  <2> QED
    BY <1>0, <1>2, <2>1, <2>2 DEF Tx!espnow_deinit, Tx!args, GilHeld, Waits
<1>3. ASSUME NEW p \in Peer, Tx!espnow_add_peer(p) \/ Tx!espnow_del_peer(p) PROVE Shape'
  BY <1>0, <1>3, SameCardinality
     DEF Tx!espnow_add_peer, Tx!espnow_del_peer, Tx!counters, Tx!args, Tx!air,
         GilHeld, Addressed, Fresh, Waits
<1>4. ASSUME NEW t \in Sender, NEW s \in BOOLEAN, NEW d \in {{}} \cup {{p} : p \in Peer},
             Tx!espnow_send(t, s, d)
      PROVE  Shape'
  <2>1. d = {} \/ Cardinality(d) = 1
    BY <1>one
  <2>2. Addressed'
    BY <1>0, <1>4, <2>1 DEF Tx!espnow_send, Tx!TypeOK, Addressed
  <2> QED
    BY <1>0, <1>4, <2>2
       DEF Tx!espnow_send, Tx!Goto, Tx!counters, Tx!air, Tx!TypeOK, GilHeld, Fresh, Waits
<1>5. ASSUME NEW t \in Sender, Tx!Send(t) PROVE Shape'
  <2>ret. ASSUME NEW r \in {"True", "False", "OSError"}, Tx!Return(t, r),
                 send_gil \in {t, None}, UNCHANGED <<peers, peer_count>>
          PROVE  Shape'
    BY <1>0, <2>ret DEF Tx!Return, Tx!Goto, Tx!TypeOK, GilHeld, Addressed, Fresh, Waits
  <2>1. CASE Tx!Flush(t)
    BY <1>0, <2>1 DEF Tx!Flush, Tx!Goto, Tx!air, Tx!TypeOK, GilHeld, Addressed, Fresh, Waits
  <2>2. CASE Tx!TimedOut(t)
    BY <2>ret, <2>2 DEF Tx!TimedOut
  <2>3. CASE Tx!CountPackets(t)
    <3>1. send_gil = t
      BY <1>0, <2>3 DEF Tx!CountPackets, GilHeld
    <3>2. CASE sync[t]
      BY <1>0, <2>3, <3>1, <3>2
         DEF Tx!CountPackets, Tx!Goto, Tx!args, Tx!TypeOK, GilHeld, Addressed, Fresh, Waits
    <3>3. CASE ~sync[t]
      BY <2>ret, <2>3, <3>1, <3>3 DEF Tx!CountPackets
    <3> QED
      BY <3>2, <3>3
  <2>4. CASE Tx!Answered(t)
    BY <2>ret, <2>4 DEF Tx!Answered
  <2>5. CASE Tx!SendAccepted(t)
    BY <1>0, <2>5
       DEF Tx!SendAccepted, Tx!Goto, Tx!args, Tx!TypeOK, GilHeld, Addressed, Fresh, Waits
  <2>6. CASE Tx!SendFull(t) \/ Tx!Retry(t)
    BY <1>0, <2>6
       DEF Tx!SendFull, Tx!Retry, Tx!Goto, Tx!args, Tx!air, Tx!TypeOK,
           GilHeld, Addressed, Fresh, Waits
  <2>7. CASE Tx!SendRefused(t)
    <3>1. send_gil = t
      BY <1>0, <2>7 DEF Tx!SendRefused, GilHeld
    <3> QED
      BY <2>ret, <2>7, <3>1 DEF Tx!SendRefused
  <2> QED
    BY <1>5, <2>1, <2>2, <2>3, <2>4, <2>5, <2>6, <2>7 DEF Tx!Send, Tx!GoOn
<1>6. ASSUME NEW t \in Sender, NEW ok \in BOOLEAN, Tx!ResponseOwn(t, ok) PROVE Shape'
  BY <1>0, <1>6
     DEF Tx!ResponseOwn, Tx!send_cb, Tx!args, Tx!TypeOK, GilHeld, Addressed, Fresh, Waits
<1>7. ASSUME NEW ok \in BOOLEAN, Tx!ResponseOld(ok) PROVE Shape'
  BY <1>0, <1>7
     DEF Tx!ResponseOld, Tx!send_cb, Tx!args, GilHeld, Addressed, Fresh, Waits
<1>8. ASSUME NEW t \in Sender, Tx!Lose(t) PROVE Shape'
  BY <1>0, <1>8 DEF Tx!Lose, Tx!args, Tx!TypeOK, GilHeld, Addressed, Fresh, Waits
<1> QED
  BY <1>1, <1>2, <1>3, <1>4, <1>5, <1>6, <1>7, <1>8 DEF Tx!Next

(* The counters balance, counting what is accepted and not yet counted.    *)
LEMMA SendNextBalance ==
    ASSUME SendInv, Tx!Next, Tx!TypeOK'
    PROVE  Balanced'
<1> USE SendAssumption
<1>0. /\ Tx!TypeOK /\ GilHeld /\ Addressed /\ Fresh
  BY DEF SendInv
<1>inv. IsFiniteSet(DueOf(own)) /\ own \in [Sender -> Nat]
  BY DEF SendInv, Balanced, Tx!TypeOK
<1>d. PICK d \in Nat : d = Cardinality(DueOf(own))
  BY <1>inv, FS_CardinalityType
<1>nat. /\ tx_packets \in Nat /\ tx_responses \in Nat /\ old \in Nat /\ lost \in Nat
        /\ \A t \in Sender : own[t] \in Nat
  BY <1>0 DEF Tx!TypeOK
<1>zero. Uncounted' = 0 => tx_packets' + Uncounted' = tx_packets'
  <2>1. PICK p \in Nat : p = tx_packets'
    BY DEF Tx!TypeOK
  <2>2. p + 0 = p
    OBVIOUS
  <2> QED
    BY <2>1, <2>2
<1>bal. tx_packets + Uncounted = tx_responses + (d + (old + lost))
  BY <1>d DEF SendInv, Balanced
<1>none. send_gil = None => Uncounted = 0
  BY DEF Uncounted
<1>same. ASSUME UNCHANGED <<tx_packets, tx_responses, own, old, lost>>, Uncounted' = Uncounted
         PROVE  Balanced'
  BY <1>inv, <1>d, <1>bal, <1>same DEF Balanced
<1>move. ASSUME NEW t \in Sender, NEW n \in Nat, own' = [own EXCEPT ![t] = n]
         PROVE  /\ IsFiniteSet(DueOf(own'))
                /\ Cardinality(DueOf(own')) = (d - own[t]) + n
  BY <1>inv, <1>d, <1>move, DueChanges
<1>1. CASE Tx!espnow_init
  BY <1>1, <1>same DEF Tx!espnow_init, Tx!counters, Tx!args, Tx!air, Uncounted, Tx!Count
<1>2. CASE Tx!espnow_deinit
  <2>1. /\ own' = [t \in Sender |-> 0] /\ old' = 0 /\ lost' = 0
        /\ tx_packets' = tx_responses /\ tx_responses' = tx_responses
    BY <1>2 DEF Tx!espnow_deinit
  <2>2. IsFiniteSet(DueOf(own')) /\ Cardinality(DueOf(own')) = 0
    BY <2>1, NothingDue, FS_EmptySet
  <2>3. Uncounted' = 0
    BY <1>2 DEF Tx!espnow_deinit, Uncounted
  <2> QED
    BY <1>nat, <2>1, <2>2, <2>3 DEF Balanced
<1>3. ASSUME NEW p \in Peer, Tx!espnow_add_peer(p) \/ Tx!espnow_del_peer(p) PROVE Balanced'
  BY <1>3, <1>same
     DEF Tx!espnow_add_peer, Tx!espnow_del_peer, Tx!counters, Tx!air, Uncounted
<1>4. ASSUME NEW t \in Sender, NEW s \in BOOLEAN, NEW to \in {{}} \cup {{p} : p \in Peer},
             Tx!espnow_send(t, s, to)
      PROVE  Balanced'
  BY <1>4, <1>same DEF Tx!espnow_send, Tx!counters, Tx!air, Uncounted
<1>5. ASSUME NEW t \in Sender, Tx!Send(t) PROVE Balanced'
  <2>ret. ASSUME NEW r \in {"True", "False", "OSError"}, Tx!Return(t, r),
                 UNCHANGED <<tx_responses, lost>>, tx_packets' = tx_packets + Uncounted
          PROVE  Balanced'
    <3>1. /\ own' = [own EXCEPT ![t] = 0] /\ old' = old + own[t]
          /\ tx_responses' = tx_responses /\ lost' = lost
      BY <2>ret DEF Tx!Return
    <3>2. IsFiniteSet(DueOf(own')) /\ Cardinality(DueOf(own')) = (d - own[t]) + 0
      BY <1>move, <3>1
    <3>3. Uncounted' = 0
      BY <2>ret DEF Tx!Return, Uncounted
    <3>4. PICK o \in Nat : o = own[t]
      BY <1>nat
    <3>5. Cardinality(DueOf(own')) + (old' + lost') = d + (old + lost)
      BY <1>nat, <3>1, <3>2, <3>4
    <3>6. tx_packets' + Uncounted' = tx_responses' + (Cardinality(DueOf(own')) + (old' + lost'))
      BY <1>bal, <1>zero, <2>ret, <3>1, <3>3, <3>5
    <3> QED
      BY <3>2, <3>6 DEF Balanced
  <2>held. send_pc[t] \in {"send", "count"} =>
             send_gil = t /\ Uncounted = IF send_pc[t] = "count" THEN Tx!Count(dest[t]) ELSE 0
    BY <1>0 DEF GilHeld, Uncounted
  <2>1. CASE Tx!Flush(t)
    <3>1. Uncounted' = 0
      BY <1>0, <2>1 DEF Tx!Flush, Tx!Goto, Tx!TypeOK, Uncounted
    <3> QED
      BY <1>none, <1>same, <2>1, <3>1 DEF Tx!Flush, Tx!counters, Tx!air
  <2>2. CASE Tx!TimedOut(t)
    BY <1>nat, <1>none, <2>ret, <2>2 DEF Tx!TimedOut, Tx!counters
  <2>3. CASE Tx!CountPackets(t)
    <3>1. tx_packets' = tx_packets + Uncounted
      BY <2>held, <2>3 DEF Tx!CountPackets
    <3>2. CASE sync[t]
      <4>1. UNCHANGED <<tx_responses, own, old, lost>> /\ send_gil' = None
        BY <2>3, <3>2 DEF Tx!CountPackets
      <4>2. Uncounted' = 0
        BY <4>1 DEF Uncounted
      <4> QED
        BY <1>inv, <1>d, <1>bal, <1>zero, <3>1, <4>1, <4>2 DEF Balanced
    <3>3. CASE ~sync[t]
      BY <2>ret, <2>3, <3>1, <3>3 DEF Tx!CountPackets
    <3> QED
      BY <3>2, <3>3
  <2>4. CASE Tx!Answered(t)
    BY <1>nat, <1>none, <2>ret, <2>4 DEF Tx!Answered, Tx!counters
  <2>5. CASE Tx!SendAccepted(t)
    <3>1. PICK n \in Nat : n = Tx!Count(dest[t]) /\ n = Tx!Cardinality(Tx!Recipients(dest[t]))
      BY <1>0, RecipientsCounted, SameCardinality
    <3>2. own' = [own EXCEPT ![t] = n] /\ own[t] = 0 /\ Uncounted = 0
      BY <1>0, <2>held, <2>5, <3>1 DEF Tx!SendAccepted, Fresh
    <3>3. UNCHANGED <<tx_packets, tx_responses, old, lost>>
      BY <2>5 DEF Tx!SendAccepted, Tx!counters
    <3>4. IsFiniteSet(DueOf(own')) /\ Cardinality(DueOf(own')) = (d - 0) + n
      BY <1>move, <3>2
    <3>5. Uncounted' = n
      BY <1>0, <2>held, <2>5, <3>1
         DEF Tx!SendAccepted, Tx!Goto, Tx!args, Tx!TypeOK, Uncounted, Tx!Count
    <3>6. tx_packets' + n = tx_responses' + (Cardinality(DueOf(own')) + (old' + lost'))
      BY <1>nat, <1>bal, <3>2, <3>3, <3>4
    <3> QED
      BY <3>4, <3>5, <3>6 DEF Balanced
  <2>6. CASE Tx!SendFull(t) \/ Tx!Retry(t)
    <3>1. Uncounted = 0
      BY <1>none, <2>held, <2>6 DEF Tx!SendFull, Tx!Retry
    <3>2. Uncounted' = 0
      BY <1>0, <2>6 DEF Tx!SendFull, Tx!Retry, Tx!Goto, Tx!TypeOK, Uncounted
    <3> QED
      BY <1>same, <2>6, <3>1, <3>2 DEF Tx!SendFull, Tx!Retry, Tx!counters, Tx!air
  <2>7. CASE Tx!SendRefused(t)
    BY <1>nat, <2>held, <2>ret, <2>7 DEF Tx!SendRefused, Tx!counters
  <2> QED
    BY <1>5, <2>1, <2>2, <2>3, <2>4, <2>5, <2>6, <2>7 DEF Tx!Send, Tx!GoOn
<1>less. ASSUME NEW t \in Sender, own[t] > 0, own' = [own EXCEPT ![t] = @ - 1]
         PROVE  /\ IsFiniteSet(DueOf(own')) /\ Cardinality(DueOf(own')) = d - 1
  <2>1. PICK n \in Nat : n = own[t] - 1
    BY <1>nat, <1>less
  <2>2. own' = [own EXCEPT ![t] = n]
    BY <1>less, <2>1
  <2>3. /\ IsFiniteSet(DueOf(own')) /\ Cardinality(DueOf(own')) = (d - own[t]) + n
    BY <1>move, <2>2
  <2> QED
    BY <1>nat, <2>1, <2>3
<1>6. ASSUME NEW t \in Sender, NEW ok \in BOOLEAN, Tx!ResponseOwn(t, ok) PROVE Balanced'
  <2>1. IsFiniteSet(DueOf(own')) /\ Cardinality(DueOf(own')) = d - 1
    BY <1>6, <1>less DEF Tx!ResponseOwn
  <2>2. Uncounted' = Uncounted
    BY <1>6 DEF Tx!ResponseOwn, Tx!send_cb, Tx!args, Uncounted, Tx!Count
  <2>3. /\ tx_packets' = tx_packets /\ tx_responses' = tx_responses + 1
        /\ old' = old /\ lost' = lost
    BY <1>6 DEF Tx!ResponseOwn, Tx!send_cb
  <2>4. tx_packets' + Uncounted' = tx_responses' + (Cardinality(DueOf(own')) + (old' + lost'))
    BY <1>nat, <1>bal, <2>1, <2>2, <2>3
  <2> QED
    BY <2>1, <2>4 DEF Balanced
<1>7. ASSUME NEW ok \in BOOLEAN, Tx!ResponseOld(ok) PROVE Balanced'
  <2>1. Uncounted' = Uncounted
    BY <1>7 DEF Tx!ResponseOld, Tx!send_cb, Tx!args, Uncounted, Tx!Count
  <2>2. /\ tx_packets' = tx_packets /\ tx_responses' = tx_responses + 1
        /\ old' = old - 1 /\ lost' = lost /\ own' = own
    BY <1>7 DEF Tx!ResponseOld, Tx!send_cb
  <2>3. tx_packets' + Uncounted' = tx_responses' + (d + (old' + lost'))
    BY <1>nat, <1>bal, <2>1, <2>2
  <2> QED
    BY <1>inv, <1>d, <2>2, <2>3 DEF Balanced
<1>8. ASSUME NEW t \in Sender, Tx!Lose(t) PROVE Balanced'
  <2>1. IsFiniteSet(DueOf(own')) /\ Cardinality(DueOf(own')) = d - 1
    BY <1>8, <1>less DEF Tx!Lose
  <2>2. Uncounted' = Uncounted
    BY <1>8 DEF Tx!Lose, Tx!args, Uncounted, Tx!Count
  <2>3. /\ tx_packets' = tx_packets /\ tx_responses' = tx_responses
        /\ old' = old /\ lost' = lost + 1
    BY <1>8 DEF Tx!Lose, Tx!counters
  <2>4. tx_packets' + Uncounted' = tx_responses' + (Cardinality(DueOf(own')) + (old' + lost'))
    BY <1>nat, <1>bal, <2>1, <2>2, <2>3
  <2> QED
    BY <2>1, <2>4 DEF Balanced
<1> QED
  BY <1>1, <1>2, <1>3, <1>4, <1>5, <1>6, <1>7, <1>8 DEF Tx!Next

(* A miss shows in the failures counted or in the responses lost.          *)
LEMMA SendNextMiss ==
    ASSUME SendInv, Tx!Next
    PROVE  MissSeen'
<1> USE SendAssumption
<1>0. Tx!TypeOK /\ Fresh /\ MissSeen
  BY DEF SendInv
<1>nat. /\ tx_failures \in Nat /\ lost \in Nat
        /\ \A t \in Sender : own[t] \in Nat /\ saved_failures[t] \in Nat
  BY <1>0 DEF Tx!TypeOK
<1>same. ASSUME UNCHANGED <<tx_failures, saved_failures, missed, cut, lost>> PROVE MissSeen'
  BY <1>0, <1>same DEF MissSeen
<1>1. CASE Tx!espnow_init
  BY <1>1, <1>same DEF Tx!espnow_init, Tx!counters, Tx!args, Tx!air
<1>2. CASE Tx!espnow_deinit
  BY <1>0, <1>nat, <1>2 DEF Tx!espnow_deinit, Tx!args, Tx!TypeOK, Fresh, MissSeen
<1>3. ASSUME NEW p \in Peer, Tx!espnow_add_peer(p) \/ Tx!espnow_del_peer(p) PROVE MissSeen'
  BY <1>3, <1>same DEF Tx!espnow_add_peer, Tx!espnow_del_peer, Tx!counters, Tx!args, Tx!air
<1>4. ASSUME NEW t \in Sender, NEW s \in BOOLEAN, NEW d \in {{}} \cup {{p} : p \in Peer},
             Tx!espnow_send(t, s, d)
      PROVE  MissSeen'
  BY <1>4, <1>same DEF Tx!espnow_send, Tx!counters, Tx!air
<1>5. ASSUME NEW t \in Sender, Tx!Send(t) PROVE MissSeen'
  <2>ret. ASSUME NEW r \in {"True", "False", "OSError"}, Tx!Return(t, r),
                 UNCHANGED <<tx_failures, lost>>
          PROVE  MissSeen'
    BY <1>0, <1>nat, <2>ret DEF Tx!Return, Tx!TypeOK, MissSeen
  <2>1. CASE Tx!Flush(t)
    BY <1>0, <1>nat, <2>1 DEF Tx!Flush, Tx!counters, Tx!air, Tx!TypeOK, Fresh, MissSeen
  <2>2. CASE Tx!TimedOut(t)
    BY <2>ret, <2>2 DEF Tx!TimedOut, Tx!counters
  <2>3. CASE Tx!CountPackets(t)
    BY <1>same, <2>ret, <2>3 DEF Tx!CountPackets, Tx!args
  <2>4. CASE Tx!Answered(t)
    BY <2>ret, <2>4 DEF Tx!Answered, Tx!counters
  <2>5. CASE Tx!SendAccepted(t)
    BY <1>same, <2>5 DEF Tx!SendAccepted, Tx!counters, Tx!args
  <2>6. CASE Tx!SendFull(t) \/ Tx!Retry(t)
    BY <1>same, <2>6 DEF Tx!SendFull, Tx!Retry, Tx!counters, Tx!args, Tx!air
  <2>7. CASE Tx!SendRefused(t)
    BY <2>ret, <2>7 DEF Tx!SendRefused, Tx!counters
  <2> QED
    BY <1>5, <2>1, <2>2, <2>3, <2>4, <2>5, <2>6, <2>7 DEF Tx!Send, Tx!GoOn
<1>6. ASSUME NEW t \in Sender, NEW ok \in BOOLEAN, Tx!ResponseOwn(t, ok) PROVE MissSeen'
  <2>1. CASE ok = TRUE
    BY <1>0, <1>nat, <1>6, <2>1 DEF Tx!ResponseOwn, Tx!send_cb, Tx!args, Tx!TypeOK, MissSeen
  <2>2. CASE ok = FALSE
    BY <1>0, <1>nat, <1>6, <2>2 DEF Tx!ResponseOwn, Tx!send_cb, Tx!args, Tx!TypeOK, MissSeen
  <2> QED
    BY <2>1, <2>2
<1>7. ASSUME NEW ok \in BOOLEAN, Tx!ResponseOld(ok) PROVE MissSeen'
  BY <1>0, <1>nat, <1>7 DEF Tx!ResponseOld, Tx!send_cb, Tx!args, MissSeen
<1>8. ASSUME NEW t \in Sender, Tx!Lose(t) PROVE MissSeen'
  BY <1>0, <1>nat, <1>8 DEF Tx!Lose, Tx!counters, Tx!args, Tx!TypeOK, MissSeen
<1> QED
  BY <1>1, <1>2, <1>3, <1>4, <1>5, <1>6, <1>7, <1>8 DEF Tx!Next

(* A sender that has not been alone is not alone later.                    *)
LEMMA LoneBefore ==
    ASSUME Tx!TypeOK, Tx!Next, NEW t \in Sender, Tx!Lone(t)'
    PROVE  Tx!Lone(t)
<1> USE SendAssumption
<1> SUFFICES ASSUME NEW u \in Sender \ {t}
             PROVE  send_pc[u] = "idle" /\ result[u] = None
  BY DEF Tx!Lone
<1>0. /\ send_pc'[u] = "idle" /\ result'[u] = None
      /\ send_pc \in [Sender -> {"idle", "flush", "send", "retry", "count", "wait"}]
      /\ result \in [Sender -> {None, "True", "False", "OSError"}]
  BY DEF Tx!Lone, Tx!TypeOK
<1>same. ASSUME UNCHANGED <<send_pc, result>> PROVE send_pc[u] = "idle" /\ result[u] = None
  BY <1>0, <1>same
<1>1. CASE Tx!espnow_init
  BY <1>1, <1>same DEF Tx!espnow_init
<1>2. CASE Tx!espnow_deinit
  BY <1>2, <1>same DEF Tx!espnow_deinit
<1>3. ASSUME NEW p \in Peer, Tx!espnow_add_peer(p) \/ Tx!espnow_del_peer(p)
      PROVE  send_pc[u] = "idle" /\ result[u] = None
  BY <1>3, <1>same DEF Tx!espnow_add_peer, Tx!espnow_del_peer
<1>4. ASSUME NEW v \in Sender, NEW s \in BOOLEAN, NEW d \in {{}} \cup {{p} : p \in Peer},
             Tx!espnow_send(v, s, d)
      PROVE  send_pc[u] = "idle" /\ result[u] = None
  BY <1>0, <1>4 DEF Tx!espnow_send, Tx!Goto
<1>5. ASSUME NEW v \in Sender, Tx!Send(v) PROVE send_pc[u] = "idle" /\ result[u] = None
  <2>ret. ASSUME NEW r \in {"True", "False", "OSError"}, Tx!Return(v, r)
          PROVE  send_pc[u] = "idle" /\ result[u] = None
    BY <1>0, <2>ret DEF Tx!Return, Tx!Goto
  <2>goto. ASSUME NEW l \in {"send", "retry", "count", "wait"}, Tx!Goto(v, l), UNCHANGED result
           PROVE  send_pc[u] = "idle" /\ result[u] = None
    BY <1>0, <2>goto DEF Tx!Goto
  <2>1. CASE Tx!Flush(v)
    BY <2>goto, <2>1 DEF Tx!Flush
  <2>2. CASE Tx!TimedOut(v) \/ Tx!SendRefused(v)
    BY <2>ret, <2>2 DEF Tx!TimedOut, Tx!SendRefused
  <2>3. CASE Tx!CountPackets(v)
    BY <2>goto, <2>ret, <2>3 DEF Tx!CountPackets
  <2>4. CASE Tx!Answered(v)
    BY <2>ret, <2>4 DEF Tx!Answered
  <2>5. CASE Tx!SendAccepted(v) \/ Tx!SendFull(v) \/ Tx!Retry(v)
    BY <2>goto, <2>5 DEF Tx!SendAccepted, Tx!SendFull, Tx!Retry
  <2> QED
    BY <1>5, <2>1, <2>2, <2>3, <2>4, <2>5 DEF Tx!Send, Tx!GoOn
<1>6. ASSUME NEW v \in Sender, NEW ok \in BOOLEAN, Tx!ResponseOwn(v, ok)
      PROVE  send_pc[u] = "idle" /\ result[u] = None
  BY <1>6, <1>same DEF Tx!ResponseOwn, Tx!send_cb
<1>7. ASSUME NEW ok \in BOOLEAN, Tx!ResponseOld(ok)
      PROVE  send_pc[u] = "idle" /\ result[u] = None
  BY <1>7, <1>same DEF Tx!ResponseOld, Tx!send_cb
<1>8. ASSUME NEW v \in Sender, Tx!Lose(v) PROVE send_pc[u] = "idle" /\ result[u] = None
  BY <1>8, <1>same DEF Tx!Lose
<1> QED
  BY <1>1, <1>2, <1>3, <1>4, <1>5, <1>6, <1>7, <1>8 DEF Tx!Next

(* A lone sender finds no response but its own.                            *)
LEMMA SendNextLone ==
    ASSUME SendInv, Tx!Next
    PROVE  LoneKnows'
<1> USE SendAssumption
<1>0. Tx!TypeOK /\ GilHeld /\ Fresh /\ LoneKnows
  BY DEF SendInv
<1>nat. /\ tx_failures \in Nat /\ old \in Nat /\ lost \in Nat
        /\ tx_packets \in Nat /\ tx_responses \in Nat
        /\ \A t \in Sender : own[t] \in Nat /\ saved_failures[t] \in Nat
  BY <1>0 DEF Tx!TypeOK
<1> SUFFICES ASSUME NEW t \in Sender, Tx!Lone(t)', sync'[t] = TRUE,
                    send_pc'[t] \in {"send", "retry", "count", "wait"}
             PROVE  old' = 0 /\ (tx_failures' > saved_failures'[t] => missed'[t] = TRUE)
  BY DEF LoneKnows
<1> DEFINE Goal == old' = 0 /\ (tx_failures' > saved_failures'[t] => missed'[t] = TRUE)
<1>lone. Tx!Lone(t)
  BY <1>0, LoneBefore
<1>others. \A u \in Sender \ {t} : send_pc[u] = "idle" /\ send_pc'[u] = "idle" /\ own[u] = 0
  BY <1>0, <1>lone DEF Tx!Lone, Fresh
<1>was. ASSUME sync[t] = TRUE, send_pc[t] \in {"send", "retry", "count", "wait"}
        PROVE  old = 0 /\ (tx_failures > saved_failures[t] => missed[t] = TRUE)
  BY <1>0, <1>lone, <1>was DEF LoneKnows
<1>same. ASSUME UNCHANGED <<tx_failures, saved_failures, missed, old, sync>>,
                send_pc[t] \in {"send", "retry", "count", "wait"}
         PROVE  Goal
  BY <1>was, <1>same
<1>1. CASE Tx!espnow_init
  BY <1>1, <1>same DEF Tx!espnow_init, Tx!counters, Tx!args, Tx!air
<1>2. CASE Tx!espnow_deinit
  BY <1>0, <1>2, <1>was DEF Tx!espnow_deinit, Tx!args, Tx!TypeOK
<1>3. ASSUME NEW p \in Peer, Tx!espnow_add_peer(p) \/ Tx!espnow_del_peer(p) PROVE Goal
  BY <1>3, <1>same DEF Tx!espnow_add_peer, Tx!espnow_del_peer, Tx!counters, Tx!args, Tx!air
<1>4. ASSUME NEW v \in Sender, NEW s \in BOOLEAN, NEW d \in {{}} \cup {{p} : p \in Peer},
             Tx!espnow_send(v, s, d)
      PROVE  Goal
  <2>1. send_pc'[v] = "flush"
    BY <1>0, <1>4 DEF Tx!espnow_send, Tx!Goto, Tx!TypeOK
  <2> QED
    BY <1>others, <2>1
<1>5. ASSUME NEW v \in Sender, Tx!Send(v) PROVE Goal
  <2>v. v = t
    BY <1>5, <1>others
       DEF Tx!Send, Tx!GoOn, Tx!Flush, Tx!TimedOut, Tx!CountPackets, Tx!Answered,
           Tx!SendAccepted, Tx!SendFull, Tx!Retry, Tx!SendRefused
  <2>ret. ASSUME NEW r \in {"True", "False", "OSError"}, Tx!Return(t, r) PROVE Goal
    <3>1. send_pc'[t] = "idle"
      BY <1>0, <2>ret DEF Tx!Return, Tx!Goto, Tx!TypeOK
    <3> QED
      BY <3>1
  <2>1. CASE Tx!Flush(t)
    <3>1. /\ send_gil = None /\ sync[t] = TRUE /\ tx_responses >= tx_packets
          /\ saved_failures'[t] = tx_failures /\ tx_failures' = tx_failures /\ old' = old
      BY <1>0, <2>1 DEF Tx!Flush, Tx!AllAnswered, Tx!counters, Tx!air, Tx!TypeOK
    <3>2. PICK d \in Nat : d = Cardinality(DueOf(own))
      BY FS_CardinalityType DEF SendInv, Balanced
    <3>3. tx_packets + 0 = tx_responses + (d + (old + lost))
      BY <3>1, <3>2 DEF SendInv, Balanced, Uncounted
    <3>4. old = 0
      BY <1>nat, <3>1, <3>3
    <3> QED
      BY <1>nat, <3>1, <3>4
  <2>2. CASE Tx!TimedOut(t)
    BY <2>ret, <2>2 DEF Tx!TimedOut
  <2>3. CASE Tx!CountPackets(t)
    BY <1>same, <2>ret, <2>3 DEF Tx!CountPackets, Tx!args
  <2>4. CASE Tx!Answered(t)
    BY <2>ret, <2>4 DEF Tx!Answered
  <2>5. CASE Tx!SendAccepted(t)
    BY <1>same, <2>5 DEF Tx!SendAccepted, Tx!counters, Tx!args
  <2>6. CASE Tx!SendFull(t) \/ Tx!Retry(t)
    BY <1>same, <2>6 DEF Tx!SendFull, Tx!Retry, Tx!counters, Tx!args, Tx!air
  <2>7. CASE Tx!SendRefused(t)
    BY <2>ret, <2>7 DEF Tx!SendRefused
  <2> QED
    BY <1>5, <2>v, <2>1, <2>2, <2>3, <2>4, <2>5, <2>6, <2>7 DEF Tx!Send, Tx!GoOn
<1>6. ASSUME NEW v \in Sender, NEW ok \in BOOLEAN, Tx!ResponseOwn(v, ok) PROVE Goal
  <2>1. v = t
    BY <1>6, <1>others DEF Tx!ResponseOwn
  <2>2. /\ old' = old /\ saved_failures' = saved_failures
        /\ sync' = sync /\ send_pc' = send_pc
    BY <1>6 DEF Tx!ResponseOwn, Tx!send_cb, Tx!args
  <2>3. CASE ok = TRUE
    <3>1. tx_failures' = tx_failures
      BY <1>nat, <1>6, <2>3 DEF Tx!ResponseOwn, Tx!send_cb
    <3>2. missed'[t] = missed[t]
      BY <1>0, <1>6, <2>1, <2>3 DEF Tx!ResponseOwn, Tx!TypeOK
    <3> QED
      BY <1>was, <2>2, <3>1, <3>2
  <2>4. CASE ok = FALSE
    BY <1>0, <1>was, <1>6, <2>1, <2>2, <2>4 DEF Tx!ResponseOwn, Tx!TypeOK
  <2> QED
    BY <2>3, <2>4
<1>7. ASSUME NEW ok \in BOOLEAN, Tx!ResponseOld(ok) PROVE Goal
  <2>1. old > 0 /\ sync' = sync /\ send_pc' = send_pc
    BY <1>7 DEF Tx!ResponseOld, Tx!send_cb, Tx!args
  <2>2. old = 0
    BY <1>was, <2>1
  <2> QED
    BY <2>1, <2>2
<1>8. ASSUME NEW v \in Sender, Tx!Lose(v) PROVE Goal
  <2>1. v = t
    BY <1>8, <1>others DEF Tx!Lose
  <2> QED
    BY <1>0, <1>was, <1>8, <2>1 DEF Tx!Lose, Tx!counters, Tx!args, Tx!TypeOK
<1> QED
  BY <1>1, <1>2, <1>3, <1>4, <1>5, <1>6, <1>7, <1>8 DEF Tx!Next

LEMMA SendNextInv == SendInv /\ [Tx!Next]_(Tx!vars) => SendInv'
<1> SUFFICES ASSUME SendInv, [Tx!Next]_(Tx!vars) PROVE SendInv'
  OBVIOUS
<1>1. CASE Tx!Next
  <2>1. Tx!TypeOK'
    BY <1>1, SendNextType
  <2> QED
    BY <1>1, <2>1, SendNextShape, SendNextBalance, SendNextMiss, SendNextLone DEF SendInv
<1>2. CASE UNCHANGED Tx!vars
  <2>1. /\ UNCHANGED <<espnow_active, peers, peer_count, tx_packets, tx_responses, tx_failures>>
        /\ UNCHANGED <<send_pc, send_gil, sync, dest, saved_failures, own, missed>>
        /\ UNCHANGED <<old, lost, result, cut>>
    BY <1>2 DEF Tx!vars, Tx!counters, Tx!args, Tx!air
  <2>2. Tx!TypeOK'
    BY <2>1 DEF SendInv, Tx!TypeOK
  <2>3. GilHeld' /\ Addressed' /\ Fresh' /\ Waits'
    BY <2>1 DEF SendInv, GilHeld, Addressed, Fresh, Waits
  <2>4. Balanced'
    BY <2>1 DEF SendInv, Balanced, Uncounted, Tx!Count
  <2>5. MissSeen' /\ LoneKnows'
    BY <2>1 DEF SendInv, MissSeen, LoneKnows, Tx!Lone
  <2> QED
    BY <2>2, <2>3, <2>4, <2>5 DEF SendInv
<1> QED
  BY <1>1, <1>2

(* For any senders and peers, however their calls, the responses, changes  *)
(* of the peers and active(False) interleave: between the calls' own       *)
(* steps, the packets counted but not answered are exactly the responses   *)
(* still to come or lost (modespnow.c:471-483, 534-548, 672-680).          *)
THEOREM SendAlwaysCounts == Tx!Spec => []SendCounts
<1>1. SendInv => SendCounts
  <2> SUFFICES ASSUME SendInv, \A t \in Sender : send_pc[t] # "count"
               PROVE  tx_packets - tx_responses = (Cardinality(DueOf(own)) + old) + lost
    <3>1. Tx!Cardinality(Tx!Due) = Cardinality(DueOf(own))
      BY SameCardinality DEF Tx!Due, DueOf
    <3> QED
      BY <3>1 DEF SendInv, SendCounts, Tx!SendCounts, Tx!CountersBalance
  <2>1. PICK d \in Nat : d = Cardinality(DueOf(own))
    BY FS_CardinalityType DEF SendInv, Balanced
  <2>2. tx_packets + 0 = tx_responses + (d + (old + lost))
    BY <2>1 DEF SendInv, Balanced, Uncounted
  <2>3. tx_packets \in Nat /\ tx_responses \in Nat /\ old \in Nat /\ lost \in Nat
    BY DEF SendInv, Tx!TypeOK
  <2> QED
    BY <2>1, <2>2, <2>3
<1> QED
  BY <1>1, SendInitInv, SendNextInv, PTL DEF Tx!Spec

(* A synchronous send that answers has waited.                             *)
LEMMA OnlyAnswered ==
    ASSUME SendInv, Tx!Next, NEW t \in Sender, NEW r \in {"True", "False"}, Tx!Returns(t, r)
    PROVE  Tx!Answered(t) /\ r = IF tx_failures = saved_failures[t] THEN "True" ELSE "False"
<1> USE SendAssumption
<1>0. /\ send_pc[t] = "wait" /\ send_pc'[t] = "idle" /\ result'[t] = r
      /\ send_pc \in [Sender -> {"idle", "flush", "send", "retry", "count", "wait"}]
      /\ result \in [Sender -> {None, "True", "False", "OSError"}]
  BY DEF Tx!Returns, SendInv, Tx!TypeOK
<1>1. send_pc' # send_pc
  BY <1>0
<1>2. ~ \E v \in Sender, s \in BOOLEAN, d \in {{}} \cup {{p} : p \in Peer} : Tx!espnow_send(v, s, d)
  BY <1>0 DEF Tx!espnow_send, Tx!Goto
<1>3. PICK v \in Sender : Tx!Send(v)
  BY <1>1, <1>2
     DEF Tx!Next, Tx!espnow_init, Tx!espnow_deinit, Tx!espnow_add_peer, Tx!espnow_del_peer,
         Tx!ResponseOwn, Tx!ResponseOld, Tx!send_cb, Tx!Lose
<1>4. v = t
  BY <1>0, <1>3
     DEF Tx!Send, Tx!GoOn, Tx!Flush, Tx!TimedOut, Tx!CountPackets, Tx!Answered, Tx!Return, Tx!Goto,
         Tx!SendAccepted, Tx!SendFull, Tx!Retry, Tx!SendRefused
<1>5. Tx!TimedOut(t) \/ Tx!Answered(t)
  BY <1>0, <1>3, <1>4
     DEF Tx!Send, Tx!GoOn, Tx!Flush, Tx!CountPackets,
         Tx!SendAccepted, Tx!SendFull, Tx!Retry, Tx!SendRefused
<1>6. ~ Tx!TimedOut(t)
  BY <1>0 DEF Tx!TimedOut, Tx!Return
<1>7. Tx!Answered(t)
  BY <1>5, <1>6
<1> QED
  BY <1>0, <1>7 DEF Tx!Answered, Tx!Return

(* What send(sync) answers is true: True of every sender whose recipients  *)
(* all received, unless ESP-NOW was switched off during the call; False of *)
(* a lone sender that was missed (modespnow.c:507-551).                    *)
THEOREM ResultAlwaysTrue == Tx!Spec => ResultIsTrue
<1>1. SendInv /\ [Tx!Next]_(Tx!vars) => [Tx!ResultIsTrueStep]_(Tx!vars)
  <2> SUFFICES ASSUME SendInv, Tx!Next PROVE Tx!ResultIsTrueStep
    OBVIOUS
  <2>nat. /\ tx_packets \in Nat /\ tx_responses \in Nat /\ old \in Nat /\ lost \in Nat
          /\ tx_failures \in Nat
          /\ \A t \in Sender : own[t] \in Nat /\ saved_failures[t] \in Nat /\ missed[t] \in BOOLEAN
    BY DEF SendInv, Tx!TypeOK
  <2>1. ASSUME NEW t \in Sender, Tx!Returns(t, "True")
        PROVE  (own[t] = 0 /\ ~missed[t]) \/ t \in cut
    <3>1. /\ Tx!Answered(t) /\ tx_failures = saved_failures[t]
      BY <2>1, OnlyAnswered
    <3>2. send_gil = None /\ tx_responses >= tx_packets
      BY <3>1 DEF Tx!Answered, Tx!AllAnswered
    <3>3. PICK d \in Nat : d = Cardinality(DueOf(own))
      BY FS_CardinalityType DEF SendInv, Balanced
    <3>4. tx_packets + 0 = tx_responses + (d + (old + lost))
      BY SendAssumption, <3>2, <3>3 DEF SendInv, Balanced, Uncounted
    <3>5. d = 0 /\ lost = 0
      BY <2>nat, <3>2, <3>4
    <3>6. DueOf(own) = {}
      BY <3>3, <3>5, FS_EmptySet DEF SendInv, Balanced
    <3>7. own[t] = 0
      <4>1. own[t] > 0 => <<t, 1>> \in DueOf(own)
        BY <2>nat DEF DueOf
      <4> QED
        BY <2>nat, <3>6, <4>1
    <3>8. missed[t] = TRUE => t \in cut
      BY <2>nat, <3>1, <3>5 DEF SendInv, MissSeen
    <3> QED
      BY <2>nat, <3>7, <3>8
  <2>2. ASSUME NEW t \in Sender, Tx!Returns(t, "False"), Tx!Lone(t) PROVE missed[t]
    <3>1. Tx!Answered(t) /\ tx_failures # saved_failures[t]
      BY <2>2, OnlyAnswered
    <3>2. send_pc[t] = "wait" /\ sync[t] = TRUE
      BY <3>1 DEF Tx!Answered, SendInv, Waits
    <3>3. tx_failures > saved_failures[t]
      BY <2>nat, <3>1 DEF SendInv, MissSeen
    <3> QED
      BY <2>2, <3>2, <3>3 DEF SendInv, LoneKnows
  <2> QED
    BY <2>1, <2>2 DEF Tx!ResultIsTrueStep, Tx!TrueMeansReceivedStep, Tx!FalseMeansMissedStep
<1> QED
  BY <1>1, SendInitInv, SendNextInv, PTL DEF Tx!Spec, ResultIsTrue, Tx!ResultIsTrue
====
