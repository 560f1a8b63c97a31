---- MODULE MCNetwork ----
(***************************************************************************)
(* What the device exchanges with others, in small instances: the app      *)
(* installer, the ring buffer, receiving and sending with ESP-NOW.  "part" *)
(* says which a behaviour is about; it never changes, and what the other   *)
(* parts keep stays as it is initially.                                    *)
(***************************************************************************)
EXTENDS MCAppInstaller, Network

CONSTANTS boot, chat1, chat2,  \* receiving threads: boot.py's and two of the chat
          sender1, sender2,    \* sending threads
          peer1, peer2         \* peers

(* Header and address scaled to 2 and 1 bytes and messages to 2, which     *)
(* keeps the sums the code compares in proportion: the buffer holds two    *)
(* largest packets less one byte, as 526 bytes do for 263.                 *)
MCMessages == {<<>>, <<1>>, <<9, 0>>}
MCEnd == <<1>>

VARIABLE part

ringVars == <<buf, iget, iput, put_pc, put_data, put_len, get_pc, get_data, get_len,
              got>>
recvVars == <<ring, cb_pc, packet, rx_packets, dropped_rx_pkts, recv_pc, recv_gil,
              msg_len, peer_buf, data, host, espnow_state, task,
              accepted, taken, failed>>
sendVars == <<espnow_active, peers, peer_count, tx_packets, tx_responses,
              tx_failures, send_pc, send_gil, sync, dest, saved_failures, own,
              missed, old, lost, result, cut>>
mcVars == <<part, vars, ringVars, recvVars, sendVars>>

MCInit ==
    /\ part \in {"installer", "ring", "receive", "send", "solo"}
    /\ Init /\ B!Init /\ E!Init
    /\ Tx!Init
    /\ part # "ring" => \A i \in 0 .. Size - 1 : buf[i] = 0

InstallerNext ==
    part = "installer" /\ Next /\ UNCHANGED <<part, ringVars, recvVars, sendVars>>
RingNext == part = "ring" /\ B!Next /\ UNCHANGED <<part, vars, recvVars, sendVars>>
ReceiveNext == part = "receive" /\ E!Next /\ UNCHANGED <<part, vars, ringVars, sendVars>>

(* Two threads that send to one peer, until two packets are answered, or   *)
(* one that sends to two.                                                  *)
SendNext ==
    /\ Tx!Next /\ UNCHANGED <<part, vars, ringVars, recvVars>>
    /\ \/ /\ part = "send" /\ peers' \subseteq {peer1}
          /\ \A u \in Sender : send_pc[u] = "idle" /\ send_pc'[u] = "flush" =>
                                  tx_responses + old + lost < 2
       \/ part = "solo" /\ send_pc'[sender2] = "idle"

MCNext == InstallerNext \/ RingNext \/ ReceiveNext \/ SendNext

(* E!Fairness and Tx!Fairness, for the part that is running.               *)
MCFairness ==
    /\ WF_recvVars(part = "receive" /\ E!PutPacket)
    /\ \A u \in {boot, chat1, chat2} : WF_recvVars(part = "receive" /\ E!Receive(u))
    /\ SF_sendVars(part = "solo" /\ Tx!GoOn(sender1))
    /\ SF_sendVars(part = "solo" /\ Tx!Retry(sender1))
    /\ SF_sendVars(part = "solo" /\ Tx!SendRefused(sender1))

MCSpec == MCInit /\ [][MCNext]_mcVars /\ MCFairness
-----------------------------------------------------------------------------
(* A stored message is taken, or a buffer error was raised                 *)
(* (boot.py:106-117); a send comes back, whatever responses are lost       *)
(* (modespnow.c:471-483).                                                  *)
RadioProgress ==
    /\ E!EverythingTaken
    /\ (part = "solo" /\ send_pc[sender1] # "idle") ~> (send_pc[sender1] = "idle")
====
