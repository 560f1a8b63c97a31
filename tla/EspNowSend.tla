---- MODULE EspNowSend ----
(***************************************************************************)
(* Sending with ESPNow.send() of modespnow.c: the call waits until as many *)
(* responses have been counted as packets were sent, and compares the      *)
(* count of failures with the one it saved.  The counters are shared by    *)
(* all threads and the callback send_cb, which runs in the WiFi task on    *)
(* the other core; the waits and the retries release the GIL.              *)
(***************************************************************************)
EXTENDS Integers, FiniteSets

CONSTANTS Thread,     \* threads that send
          Peer,       \* peers that may be registered
          MaxSends,   \* bound: packets sent
          MaxLost,    \* bound: responses the library never delivers
          None

VARIABLES active,      \* recv_buffer # NULL
          peers,       \* the peers registered with the library
          peer_count, tx_packets, tx_responses, tx_failures,
          pc, gil,
          sync,        \* arguments and local of send(), per thread
          dest,        \* set of recipients, {} for "all registered peers"
          saved_failures,
          own,         \* responses due to the packets of this call
          missed,      \* some recipient of this call did not get them
          old,         \* responses due to calls that have returned
          lost,        \* responses that will not come
          result,      \* what the call returned
          cut          \* history: calls during which active(False) was called

counters == <<tx_packets, tx_responses, tx_failures>>
args == <<sync, dest, saved_failures>>
air == <<own, missed, old, lost, cut>>
vars == <<active, peers, peer_count, counters, pc, gil, args, air, result>>

(* Recipients, and what send() adds to tx_packets for them.                *)
Recipients(d) == IF d = {} THEN peers ELSE d
Count(d) == IF d = {} THEN peer_count ELSE 1

Init ==
    /\ active = TRUE /\ peers = {} /\ peer_count = 0
    /\ tx_packets = 0 /\ tx_responses = 0 /\ tx_failures = 0
    /\ pc = [t \in Thread |-> "idle"]
    /\ gil = None
    /\ sync = [t \in Thread |-> TRUE]
    /\ dest = [t \in Thread |-> {}]
    /\ saved_failures = [t \in Thread |-> 0]
    /\ own = [t \in Thread |-> 0]
    /\ missed = [t \in Thread |-> FALSE]
    /\ old = 0 /\ lost = 0 /\ cut = {}
    /\ result = [t \in Thread |-> None]
-----------------------------------------------------------------------------
(* The library raises for a peer that is there already, or not there.      *)
espnow_add_peer(p) ==
    /\ gil = None /\ active /\ p \notin peers
    /\ peers' = peers \cup {p}
    /\ peer_count' = Cardinality(peers')
    /\ UNCHANGED <<active, counters, pc, gil, args, air, result>>

espnow_del_peer_uncounted(p) ==
    /\ gil = None /\ active /\ p \in peers
    /\ peers' = peers \ {p}
    /\ UNCHANGED <<active, peer_count, counters, pc, gil, args, air, result>>

espnow_del_peer(p) ==
    /\ gil = None /\ active /\ p \in peers
    /\ peers' = peers \ {p}
    /\ peer_count' = Cardinality(peers')
    /\ UNCHANGED <<active, counters, pc, gil, args, air, result>>

espnow_init ==
    /\ gil = None /\ ~active
    /\ active' = TRUE
    /\ UNCHANGED <<peers, peer_count, counters, pc, gil, args, air, result>>

(* active(False), by a thread that may find others inside send(): the      *)
(* library forgets peers and responses.                                    *)
espnow_deinit ==
    /\ gil = None /\ active
    /\ active' = FALSE
    /\ peers' = {} /\ peer_count' = 0
    /\ tx_packets' = tx_responses
    /\ own' = [t \in Thread |-> 0] /\ old' = 0 /\ lost' = 0
    /\ missed' = [t \in Thread |-> missed[t] \/ own[t] > 0]
    /\ cut' = {t \in Thread : pc[t] # "idle"}
    /\ UNCHANGED <<tx_responses, tx_failures, pc, gil, args, result>>
-----------------------------------------------------------------------------
Goto(t, label) == pc' = [pc EXCEPT ![t] = label]

(* The responses still due when a call returns are nobody's any more.      *)
Return(t, r) ==
    /\ Goto(t, "idle")
    /\ gil' = None
    /\ result' = [result EXCEPT ![t] = r]
    /\ old' = old + own[t]
    /\ own' = [own EXCEPT ![t] = 0]
    /\ missed' = [missed EXCEPT ![t] = FALSE]
    /\ cut' = cut \ {t}
    /\ sync' = [sync EXCEPT ![t] = TRUE]
    /\ dest' = [dest EXCEPT ![t] = {}]
    /\ saved_failures' = [saved_failures EXCEPT ![t] = 0]

AllAnswered == tx_responses >= tx_packets

espnow_send(t, s, d) ==
    /\ pc[t] = "idle" /\ gil = None /\ active
    /\ tx_responses + old + lost < MaxSends
    /\ sync' = [sync EXCEPT ![t] = s]
    /\ dest' = [dest EXCEPT ![t] = d]
    /\ result' = [result EXCEPT ![t] = None]
    /\ Goto(t, "flush")
    /\ UNCHANGED <<active, peers, peer_count, counters, gil, saved_failures, air>>

Flush_unless_sent(t) ==
    /\ pc[t] = "flush" /\ gil = None
    /\ saved_failures' = [saved_failures EXCEPT ![t] = tx_failures]
    /\ Goto(t, "send") /\ gil' = t
    /\ UNCHANGED <<active, peers, peer_count, counters, sync, dest, air, result>>

(* _wait_for_pending_responses before a synchronous send.                  *)
Flush(t) ==
    /\ pc[t] = "flush" /\ gil = None
    /\ sync[t] => AllAnswered
    /\ saved_failures' = [saved_failures EXCEPT ![t] = tx_failures]
    /\ Goto(t, "send") /\ gil' = t
    /\ UNCHANGED <<active, peers, peer_count, counters, sync, dest, air, result>>

TimedOut_after_sending(t) ==
    /\ pc[t] = "wait" /\ gil = None
    /\ sync[t] /\ ~AllAnswered
    /\ Return(t, "OSError")
    /\ UNCHANGED <<active, peers, peer_count, counters, lost>>

(* PENDING_RESPONSES_TIMEOUT_MS is over: OSError, before or after sending. *)
TimedOut(t) ==
    /\ pc[t] \in {"flush", "wait"} /\ gil = None
    /\ sync[t] /\ ~AllAnswered
    /\ Return(t, "OSError")
    /\ UNCHANGED <<active, peers, peer_count, counters, lost>>

(* esp_now_send: accepted, so that each recipient will answer;             *)
SendAccepted(t) ==
    /\ pc[t] = "send" /\ active
    /\ dest[t] \subseteq peers
    /\ own' = [own EXCEPT ![t] = Cardinality(Recipients(dest[t]))]
    /\ Goto(t, "count")
    /\ UNCHANGED <<active, peers, peer_count, counters, gil, args, missed, old, lost, cut, result>>

(* or ESP_ERR_ESPNOW_NO_MEM: poll, which releases the GIL, and try again;  *)
SendFull(t) ==
    /\ pc[t] = "send"
    /\ Goto(t, "retry") /\ gil' = None
    /\ UNCHANGED <<active, peers, peer_count, counters, args, air, result>>

Retry(t) ==
    /\ pc[t] = "retry" /\ gil = None
    /\ Goto(t, "send") /\ gil' = t
    /\ UNCHANGED <<active, peers, peer_count, counters, args, air, result>>

(* or another error, or no memory for DEFAULT_SEND_TIMEOUT_MS.             *)
SendRefused(t) ==
    /\ pc[t] = "send"
    /\ Return(t, "OSError")
    /\ UNCHANGED <<active, peers, peer_count, counters, lost>>

(* Responses may have come before the packets are counted.                 *)
CountPackets(t) ==
    /\ pc[t] = "count"
    /\ tx_packets' = tx_packets + Count(dest[t])
    /\ \/ /\ sync[t]
          /\ Goto(t, "wait") /\ gil' = None
          /\ UNCHANGED <<own, old, missed, cut, args, result>>
       \/ /\ ~sync[t]
          /\ Return(t, "True")
    /\ UNCHANGED <<active, peers, peer_count, tx_responses, tx_failures, lost>>

Answered(t) ==
    /\ pc[t] = "wait" /\ gil = None
    /\ AllAnswered
    /\ Return(t, IF tx_failures = saved_failures[t] THEN "True" ELSE "False")
    /\ UNCHANGED <<active, peers, peer_count, counters, lost>>
-----------------------------------------------------------------------------
(* send_cb in the WiFi task: one response, to a call in progress or to one *)
(* that has returned.                                                      *)
send_cb(ok) ==
    /\ tx_responses' = tx_responses + 1
    /\ tx_failures' = tx_failures + (IF ok THEN 0 ELSE 1)
    /\ UNCHANGED <<active, peers, peer_count, tx_packets, pc, gil, args, lost, cut, result>>

ResponseOwn(t, ok) ==
    /\ own[t] > 0
    /\ own' = [own EXCEPT ![t] = @ - 1]
    /\ missed' = [missed EXCEPT ![t] = @ \/ ~ok]
    /\ send_cb(ok)
    /\ UNCHANGED old

ResponseOld(ok) ==
    /\ old > 0
    /\ old' = old - 1
    /\ send_cb(ok)
    /\ UNCHANGED <<own, missed>>

(* A response that never comes.                                            *)
Lose(t) ==
    /\ own[t] > 0 /\ lost < MaxLost
    /\ own' = [own EXCEPT ![t] = @ - 1]
    /\ missed' = [missed EXCEPT ![t] = TRUE]
    /\ lost' = lost + 1
    /\ UNCHANGED <<active, peers, peer_count, counters, pc, gil, args, old, cut, result>>

GoOn(t) == Flush(t) \/ TimedOut(t) \/ CountPackets(t) \/ Answered(t)
Send(t) == GoOn(t) \/ SendAccepted(t) \/ SendFull(t) \/ Retry(t) \/ SendRefused(t)

Next ==
    \/ espnow_init \/ espnow_deinit
    \/ \E p \in Peer : espnow_add_peer(p) \/ espnow_del_peer(p)
    \/ \E t \in Thread :
          \/ \E s \in BOOLEAN, d \in {{}} \cup {{p} : p \in Peer} : espnow_send(t, s, d)
          \/ Send(t)
          \/ \E ok \in BOOLEAN : ResponseOwn(t, ok)
          \/ Lose(t)
    \/ \E ok \in BOOLEAN : ResponseOld(ok)

(* The GIL is a FreeRTOS semaphore, given to the threads of equal priority *)
(* in turn, so that a thread gets it however often others take it; and     *)
(* send() gives up when the library's buffers stay full for                *)
(* DEFAULT_SEND_TIMEOUT_MS.                                                *)
Fairness == \A t \in Thread :
    /\ SF_vars(GoOn(t))
    /\ SF_vars(Retry(t))
    /\ SF_vars(SendRefused(t))

Spec == Init /\ [][Next]_vars
FairSpec == Spec /\ Fairness
-----------------------------------------------------------------------------
(* Type correctness.                                                       *)
TypeOK ==
    /\ active \in BOOLEAN
    /\ peers \subseteq Peer
    /\ peer_count \in Nat
    /\ tx_packets \in Nat /\ tx_responses \in Nat /\ tx_failures \in Nat
    /\ pc \in [Thread -> {"idle", "flush", "send", "retry", "count", "wait"}]
    /\ gil \in Thread \cup {None}
    /\ sync \in [Thread -> BOOLEAN]
    /\ dest \in [Thread -> SUBSET Peer]
    /\ saved_failures \in [Thread -> Nat]
    /\ own \in [Thread -> Nat] /\ missed \in [Thread -> BOOLEAN]
    /\ old \in Nat /\ lost \in Nat /\ cut \subseteq Thread
    /\ result \in [Thread -> {None, "True", "False", "OSError"}]

(* The responses due to calls in progress, one by one.                     *)
Due == UNION {{t} \X (1 .. own[t]) : t \in Thread}

(* When no thread is between esp_now_send and its count, the packets       *)
(* counted but not answered are exactly the responses still to come or     *)
(* lost: peer_count stays what the library will answer for, over changes   *)
(* of the peers and active(False).                                         *)
CountersBalance ==
    (\A t \in Thread : pc[t] # "count") =>
        tx_packets - tx_responses = Cardinality(Due) + old + lost

(* The counters balance and none of them, nor the count of the peers,      *)
(* falls below zero.                                                       *)
SendCounts == TypeOK /\ CountersBalance

(* A synchronous send of thread t returns r in this step.                  *)
Returns(t, r) == pc[t] = "wait" /\ pc'[t] = "idle" /\ result'[t] = r

(* A synchronous send that returns True was received by all its            *)
(* recipients, whatever other threads send meanwhile, unless ESP-NOW was   *)
(* switched off during the call.                                           *)
TrueMeansReceivedStep ==
    \A t \in Thread : Returns(t, "True") => (own[t] = 0 /\ ~missed[t]) \/ t \in cut

(* A send ends, even if a response never comes.                            *)
SendEnds == \A t \in Thread : (pc[t] # "idle") ~> (pc[t] = "idle")

(* When no other thread has ever sent, a synchronous send that returns     *)
(* False was not received by at least one of its recipients: failures of   *)
(* its earlier sends do not count.                                         *)
Lone(t) == \A u \in Thread \ {t} : pc[u] = "idle" /\ result[u] = None
FalseMeansMissedStep == \A t \in Thread : Returns(t, "False") /\ Lone(t) => missed[t]

(* What send(sync) answers is true; False, of a lone sender only.          *)
ResultIsTrueStep == TrueMeansReceivedStep /\ FalseMeansMissedStep
ResultIsTrue == [][ResultIsTrueStep]_vars
====
