---- MODULE EspNow ----
(***************************************************************************)
(* Receiving ESP-NOW messages: the callback recv_cb of modespnow.c in the  *)
(* WiFi task on core 0, and on core 1 the Python threads that call         *)
(* ESPNow.recv(): the receiver of boot.py, and the "chat" receivers that   *)
(* calculate() starts and stops with the key "ok".                         *)
(*                                                                         *)
(* The ring is the FIFO of bytes that RingBuf implements.  The callback    *)
(* stores a packet with three puts and a receiver takes it with three      *)
(* gets; each is a step.  The GIL keeps the threads apart while one is     *)
(* inside recvinto and has found a header, but not the callback.           *)
(***************************************************************************)
EXTENDS Integers, Sequences

CONSTANTS Boot,             \* the receiver started by boot.py, or none
          Chat,             \* the threads the chat may use
          HdrLen, PeerLen,  \* bytes of header and address, 7 and 6
          MaxData,          \* ESP_NOW_MAX_DATA_LEN, 250
          recv_buffer_size, \* DEFAULT_RECV_BUFFER_SIZE
          Magic,            \* ESPNOW_MAGIC
          Messages,         \* the messages peers send, sequences of bytes
          End,              \* the message b'end'
          MaxPackets,       \* bound: packets on the air
          None

Thread == Boot \cup Chat

VARIABLES ring,         \* the unread bytes of recv_buffer
          cb_pc,        \* where recv_cb is
          packet,       \* the message recv_cb stores
          rx_packets, dropped_rx_pkts,
          pc,           \* where each thread is
          gil,          \* the thread inside recvinto, past its wait
          msg_len,      \* hdr.msg_len of that thread
          peer_buf,     \* peer_buf of that thread
          data,         \* ESPNow._data, the list all recv() calls share
          host,         \* recv(): the first element, already copied
          espnow_state, \* test_thread.espnow_state
          task,         \* calculate.task is not None
          accepted,     \* history: messages recv_cb accepted, in order
          taken,        \* history: messages recvinto returned, in order
          failed        \* history: "ESPNow.recv(): buffer error" was raised

cbVars == <<cb_pc, packet, rx_packets, dropped_rx_pkts, accepted>>
chatVars == <<espnow_state, task>>
recvVars == <<gil, msg_len, peer_buf, data, host, taken, failed>>
vars == <<ring, cbVars, pc, recvVars, chatVars>>

(* The address of the sender of the n-th packet: n in each byte, so that   *)
(* every message has a sender of its own.                                  *)
Address(n) == [i \in 1 .. PeerLen |-> 100 + n]
Header(m) == <<Magic, Len(m)>> \o [i \in 1 .. HdrLen - 2 |-> 0]

ringbuf_free == recv_buffer_size - 1 - Len(ring)
ringbuf_avail == Len(ring)

Init ==
    /\ ring = <<>>
    /\ cb_pc = "idle" /\ packet = <<>>
    /\ rx_packets = 0 /\ dropped_rx_pkts = 0
    /\ pc = [t \in Thread |-> IF t \in Boot THEN "loop" ELSE "off"]
    /\ gil = None
    /\ msg_len = 0 /\ peer_buf = <<>>
    /\ data = <<<<>>, <<>>>>
    /\ host = [t \in Thread |-> <<>>]
    /\ espnow_state = TRUE /\ task = FALSE
    /\ accepted = <<>> /\ taken = <<>> /\ failed = FALSE
-----------------------------------------------------------------------------
(* recv_cb, called by the ESP-NOW library in the WiFi task.                *)
Air == rx_packets + dropped_rx_pkts

TooLong(m) == HdrLen + PeerLen + Len(m) >= ringbuf_free

recv_cb_drops(m) ==
    /\ cb_pc = "idle" /\ Air < MaxPackets
    /\ TooLong(m)
    /\ dropped_rx_pkts' = dropped_rx_pkts + 1
    /\ UNCHANGED <<ring, cb_pc, packet, rx_packets, accepted, pc, recvVars, chatVars>>

recv_cb(m) ==
    /\ cb_pc = "idle" /\ Air < MaxPackets
    /\ ~TooLong(m)
    /\ cb_pc' = "header"
    /\ packet' = m
    /\ accepted' = Append(accepted, <<Address(rx_packets + 1), m>>)
    /\ UNCHANGED <<ring, rx_packets, dropped_rx_pkts, pc, recvVars, chatVars>>

(* ringbuf_put_bytes, whose result recv_cb ignores.                        *)
ringbuf_put_bytes(d) == ring' = IF ringbuf_free < Len(d) THEN ring ELSE ring \o d

PutHeader ==
    /\ cb_pc = "header"
    /\ ringbuf_put_bytes(Header(packet))
    /\ cb_pc' = "peer"
    /\ UNCHANGED <<packet, rx_packets, dropped_rx_pkts, accepted, pc, recvVars, chatVars>>

PutPeer ==
    /\ cb_pc = "peer"
    /\ ringbuf_put_bytes(Address(rx_packets + 1))
    /\ cb_pc' = "msg"
    /\ UNCHANGED <<packet, rx_packets, dropped_rx_pkts, accepted, pc, recvVars, chatVars>>

PutMsg ==
    /\ cb_pc = "msg"
    /\ ringbuf_put_bytes(packet)
    /\ cb_pc' = "idle"
    /\ rx_packets' = rx_packets + 1
    /\ UNCHANGED <<packet, dropped_rx_pkts, accepted, pc, recvVars, chatVars>>
-----------------------------------------------------------------------------
(* The key "ok" in calculate().                                            *)
run_espnow_message(t) ==
    /\ ~task /\ pc[t] = "off"
    /\ espnow_state' = TRUE
    /\ task' = TRUE
    /\ pc' = [pc EXCEPT ![t] = "loop"]
    /\ UNCHANGED <<ring, cbVars, recvVars>>

end_espnow_task ==
    /\ task
    /\ espnow_state' = FALSE
    /\ task' = FALSE
    /\ UNCHANGED <<ring, cbVars, pc, recvVars>>

(* while True / while espnow_state: e.recv()                               *)
Loop(t) ==
    /\ pc[t] = "loop" /\ gil = None
    /\ pc' = [pc EXCEPT ![t] = IF t \in Boot \/ espnow_state THEN "wait" ELSE "off"]
    /\ UNCHANGED <<ring, cbVars, recvVars, chatVars>>

(* ringbuf_get_bytes_wait polls at least once before it times out; then    *)
(* recv() returns (None, None).                                            *)
Timeout(t) ==
    /\ pc[t] = "wait" /\ gil = None
    /\ ringbuf_avail < HdrLen
    /\ pc' = [pc EXCEPT ![t] = "loop"]
    /\ UNCHANGED <<ring, cbVars, recvVars, chatVars>>

Drop(n) == ring' = SubSeq(ring, n + 1, Len(ring))

(* What an exception does to the thread: boot.py catches everything, an    *)
(* exception in espnow_test ends its thread.                               *)
AfterError(t) == IF t \in Boot THEN "loop" ELSE "off"

BadHeader == ring[1] # Magic \/ ring[2] > MaxData

GetHeader_releases_gil(t) ==
    /\ pc[t] = "wait" /\ gil = None
    /\ ringbuf_avail >= HdrLen
    /\ Drop(HdrLen)
    /\ msg_len' = ring[2]
    /\ failed' = (failed \/ BadHeader)
    /\ pc' = [pc EXCEPT ![t] = IF BadHeader THEN AfterError(t) ELSE "peer"]
    /\ UNCHANGED <<cbVars, gil, peer_buf, data, host, taken, chatVars>>

(* The wait ends with a header: its bytes are gone from the ring whether   *)
(* or not they make sense.                                                 *)
GetHeader(t) ==
    /\ pc[t] = "wait" /\ gil = None
    /\ ringbuf_avail >= HdrLen
    /\ Drop(HdrLen)
    /\ msg_len' = ring[2]
    /\ failed' = (failed \/ BadHeader)
    /\ pc' = [pc EXCEPT ![t] = IF BadHeader THEN AfterError(t) ELSE "peer"]
    /\ gil' = IF BadHeader THEN None ELSE t
    /\ UNCHANGED <<cbVars, peer_buf, data, host, taken, chatVars>>

GetPeer(t) ==
    /\ pc[t] = "peer"
    /\ ringbuf_avail >= PeerLen
    /\ Drop(PeerLen)
    /\ peer_buf' = SubSeq(ring, 1, PeerLen)
    /\ pc' = [pc EXCEPT ![t] = "msg"]
    /\ UNCHANGED <<cbVars, gil, msg_len, data, host, taken, failed, chatVars>>

(* recvinto returns msg_len, and recv() takes 0 for "no message".          *)
GetMsg(t) ==
    /\ pc[t] = "msg"
    /\ ringbuf_avail >= msg_len
    /\ Drop(msg_len)
    /\ data' = <<peer_buf, SubSeq(ring, 1, msg_len)>>
    /\ taken' = Append(taken, data')
    /\ pc' = [pc EXCEPT ![t] = IF msg_len = 0 THEN "loop" ELSE "host"]
    /\ gil' = None
    /\ UNCHANGED <<cbVars, msg_len, peer_buf, host, failed, chatVars>>

(* Too few bytes behind the header: ValueError, what was read is lost.     *)
BufferError(t) ==
    /\ \/ pc[t] = "peer" /\ ringbuf_avail < PeerLen
       \/ pc[t] = "msg" /\ ringbuf_avail < msg_len
    /\ failed' = TRUE
    /\ pc' = [pc EXCEPT ![t] = AfterError(t)]
    /\ gil' = None
    /\ UNCHANGED <<ring, cbVars, msg_len, peer_buf, data, host, taken, chatVars>>

(* [bytes(x) for x in self._data], which other threads may interrupt.      *)
CopyHost(t) ==
    /\ pc[t] = "host" /\ gil = None
    /\ host' = [host EXCEPT ![t] = data[1]]
    /\ pc' = [pc EXCEPT ![t] = "text"]
    /\ UNCHANGED <<ring, cbVars, gil, msg_len, peer_buf, data, taken, failed, chatVars>>

CopyMsg(t) ==
    /\ pc[t] = "text" /\ gil = None
    /\ pc' = [pc EXCEPT ![t] = IF t \in Chat /\ data[2] = End THEN "off" ELSE "loop"]
    /\ UNCHANGED <<ring, cbVars, recvVars, chatVars>>

PutPacket == PutHeader \/ PutPeer \/ PutMsg
WifiTask == (\E m \in Messages : recv_cb(m) \/ recv_cb_drops(m)) \/ PutPacket
Receive(t) == Loop(t) \/ Timeout(t) \/ GetHeader(t) \/ GetPeer(t) \/ GetMsg(t)
              \/ BufferError(t) \/ CopyHost(t) \/ CopyMsg(t)
Key == end_espnow_task \/ \E t \in Chat : run_espnow_message(t)

Next == WifiTask \/ Key \/ \E t \in Thread : Receive(t)

(* The callback runs to its end and the threads share the GIL fairly; no   *)
(* packet need ever arrive and no key be pressed.                          *)
Fairness == /\ WF_vars(PutPacket)
            /\ \A t \in Thread : WF_vars(Receive(t))

Spec == Init /\ [][Next]_vars
FairSpec == Spec /\ Fairness
-----------------------------------------------------------------------------
(* Type correctness.                                                       *)
TypeOK ==
    /\ ring \in Seq(Nat) /\ Len(ring) < recv_buffer_size
    /\ cb_pc \in {"idle", "header", "peer", "msg"}
    /\ packet \in Seq(Nat)
    /\ rx_packets \in Nat /\ dropped_rx_pkts \in Nat
    /\ pc \in [Thread -> {"off", "loop", "wait", "peer", "msg", "host", "text"}]
    /\ gil \in Thread \cup {None}
    /\ espnow_state \in BOOLEAN /\ task \in BOOLEAN /\ failed \in BOOLEAN
    /\ Len(accepted) = rx_packets + (IF cb_pc = "idle" THEN 0 ELSE 1)

(* What recv_cb still has to put.                                          *)
ToPut == CASE cb_pc = "header" -> HdrLen + PeerLen + Len(packet)
           [] cb_pc = "peer" -> PeerLen + Len(packet)
           [] cb_pc = "msg" -> Len(packet)
           [] OTHER -> 0

(* recv_cb tests once for room and then ignores what its three puts        *)
(* return: the room is still there at each of them, so that a packet is    *)
(* stored whole or not at all.                                             *)
PutsNeverFail == ToPut <= ringbuf_free

(* As long as no buffer error was raised, the receivers between them have  *)
(* taken the stored messages in order, each once and unaltered, however    *)
(* their waits and the callback interleave.                                *)
TakenInOrder ==
    ~failed => /\ Len(taken) <= Len(accepted)
               /\ taken = SubSeq(accepted, 1, Len(taken))

(* Packets stay whole and in order from the callback to the receivers.     *)
PacketsInOrder == TypeOK /\ PutsNeverFail /\ TakenInOrder

(* Every message stored is taken in the end, or a buffer error is raised:  *)
(* a receiver that polls never waits on a message that is there.           *)
EverythingTaken == (Len(accepted) > Len(taken)) ~> (failed \/ Len(accepted) = Len(taken))
====
