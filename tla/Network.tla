---- MODULE Network ----
(***************************************************************************)
(* What the device exchanges with others: the app installer, which this    *)
(* module extends, and ESP-NOW, which is three modules: RingBuf, the       *)
(* lock-free ring, shown to be a FIFO of bytes, EspNow, which receives     *)
(* through such a FIFO, and EspNowSend.  They share no state: each has     *)
(* variables of its own here, and its properties under the names the runs  *)
(* check.                                                                  *)
(***************************************************************************)
EXTENDS AppInstaller, FiniteSets

CONSTANTS Size, Byte, MaxLen,              \* of RingBuf
          Boot, Chat, HdrLen, PeerLen, MaxData, recv_buffer_size,
          Magic, Messages, End, MaxPackets, \* of EspNow
          Sender, Peer, MaxSends, MaxLost  \* of EspNowSend

VARIABLES buf, iget, iput, put_pc, put_data, put_len, get_pc, get_data, get_len, got,
          ring, cb_pc, packet, rx_packets, dropped_rx_pkts, recv_pc, recv_gil,
          msg_len, peer_buf, data, host, espnow_state, task,
          accepted, taken, failed,
          espnow_active, peers, peer_count, tx_packets, tx_responses, tx_failures,
          send_pc, send_gil, sync, dest, saved_failures, own, missed, old, lost,
          result, cut

B == INSTANCE RingBuf
E == INSTANCE EspNow WITH pc <- recv_pc, gil <- recv_gil
Tx == INSTANCE EspNowSend WITH
        Thread <- Sender, active <- espnow_active, pc <- send_pc, gil <- send_gil

ASSUME RingAssumption == Size \in Nat \ {0} /\ MaxLen \in Nat
(* A header holds the magic byte and the length, and the messages are      *)
(* sequences of bytes.                                                     *)
ASSUME RadioAssumption ==
    /\ HdrLen \in Nat /\ HdrLen >= 2 /\ PeerLen \in Nat
    /\ recv_buffer_size \in Nat \ {0}
    /\ Magic \in Nat
    /\ \A m \in Messages : m \in Seq(Nat)
    /\ None \notin Boot \cup Chat
ASSUME SendAssumption ==
    /\ IsFiniteSet(Sender) /\ IsFiniteSet(Peer)
    /\ None \notin Sender \cup {"True", "False", "OSError"}
-----------------------------------------------------------------------------
(* Bytes being read are not overwritten, and the room found by a put stays *)
(* until it is done (ringbuf.c:65-117).                                    *)
RingStable == B!RingStable

(* The lock-free ring implements ByteQueue.                                *)
IsByteQueue == B!IsByteQueue

(* No put of an accepted packet fails: it is stored whole                  *)
(* (modespnow.c:559-573). Messages are taken in order, each once, up to    *)
(* the first buffer error (modespnow.c:403-456).                           *)
PacketsInOrder == E!PacketsInOrder

(* tx_packets counts exactly what has been or will be answered             *)
(* (modespnow.c:524-548, 672-680).                                         *)
SendCounts == Tx!SendCounts

(* send() returns True only when every recipient got the message, and      *)
(* False of a lone sender means that a recipient missed this message       *)
(* (modespnow.c:507-532).                                                  *)
ResultIsTrue == Tx!ResultIsTrue
====
