---- MODULE RingBuf ----
(***************************************************************************)
(* The byte ring of py/ringbuf.c between one producer and one consumer     *)
(* that run at the same time: the WiFi task on core 0 writes received      *)
(* ESP-NOW packets, the thread that holds the GIL reads them on core 1.    *)
(* There is no lock.  Each side reads the other's index once, copies with  *)
(* one or two memcpy calls and stores its own index last; each of these is *)
(* a step here.  memcpy may alias the ring_t, so the compiler keeps that   *)
(* order, and the cores of the esp32-s3 keep the order of their stores.    *)
(***************************************************************************)
EXTENDS Integers, Sequences

CONSTANTS Size,    \* r->size
          Byte,    \* the bytes
          MaxLen   \* bound: longest block put or got

VARIABLES buf, iget, iput,      \* the ring
          put_pc, put_data, put_len,  \* ringbuf_put_bytes: data, bytes copied
          get_pc, get_data, get_len,  \* ringbuf_get_bytes: bytes copied, wanted
          got                         \* what the last ringbuf_get_bytes returned

putVars == <<put_pc, put_data, put_len>>
getVars == <<get_pc, get_data, get_len>>
vars == <<buf, iget, iput, putVars, getVars, got>>

Block == UNION {[1 .. n -> Byte] : n \in 0 .. MaxLen}

(* x % r->size, for the arguments the code gives it: 0 .. 2 * size - 1.    *)
Mod(x) == IF x >= Size THEN x - Size ELSE x

ringbuf_free == Mod(Size + iget - iput - 1)
ringbuf_avail == Mod(Size + iput - iget)

Init ==
    /\ buf \in [0 .. Size - 1 -> Byte]
    /\ iget = 0 /\ iput = 0
    /\ put_pc = "idle" /\ put_data = <<>> /\ put_len = 0
    /\ get_pc = "idle" /\ get_data = <<>> /\ get_len = 0
    /\ got = <<>>
-----------------------------------------------------------------------------
ringbuf_put_bytes_unchecked(d) ==
    /\ put_pc = "idle"
    /\ put_pc' = IF Mod(iput + Len(d)) < iput THEN "end" ELSE "rest"
    /\ put_data' = d
    /\ put_len' = 0
    /\ UNCHANGED <<buf, iget, iput, getVars, got>>

(* ringbuf_put_bytes(r, d, len) that finds room; without room it returns   *)
(* -1 or -2 and changes nothing.                                           *)
ringbuf_put_bytes(d) ==
    /\ put_pc = "idle"
    /\ ringbuf_free >= Len(d)
    /\ put_pc' = IF Mod(iput + Len(d)) < iput THEN "end" ELSE "rest"
    /\ put_data' = d
    /\ put_len' = 0
    /\ UNCHANGED <<buf, iget, iput, getVars, got>>

(* memcpy of the n bytes of put_data after the put_len that are copied.    *)
memcpy_put(n) ==
    /\ buf' = [i \in 0 .. Size - 1 |->
                 LET k == Mod(Size + i - iput)
                 IN  IF put_len <= k /\ k < put_len + n
                     THEN put_data[k + 1] ELSE buf[i]]
    /\ put_len' = put_len + n

PutCopyEnd ==
    /\ put_pc = "end"
    /\ memcpy_put(Size - iput)
    /\ put_pc' = "rest"
    /\ UNCHANGED <<iget, iput, put_data, getVars, got>>

PutCopyRest ==
    /\ put_pc = "rest"
    /\ memcpy_put(Len(put_data) - put_len)
    /\ put_pc' = "publish"
    /\ UNCHANGED <<iget, iput, put_data, getVars, got>>

PutPublish ==
    /\ put_pc = "publish"
    /\ iput' = Mod(iput + Len(put_data))
    /\ put_pc' = "idle"
    /\ put_data' = <<>>
    /\ put_len' = 0
    /\ UNCHANGED <<buf, iget, getVars, got>>
-----------------------------------------------------------------------------

(* ringbuf_get_bytes(r, data, n) that finds enough bytes.                  *)
ringbuf_get_bytes(n) ==
    /\ get_pc = "idle"
    /\ ringbuf_avail >= n
    /\ get_pc' = IF Mod(iget + n) < iget THEN "end" ELSE "rest"
    /\ get_data' = <<>>
    /\ get_len' = n
    /\ UNCHANGED <<buf, iget, iput, putVars, got>>

memcpy_get_restarts(n) ==
    get_data' = get_data \o [k \in 1 .. n |-> buf[Mod(iget + k - 1)]]

memcpy_get(n) ==
    get_data' = get_data \o
        [k \in 1 .. n |-> buf[Mod(iget + Len(get_data) + k - 1)]]

GetCopyEnd ==
    /\ get_pc = "end"
    /\ memcpy_get(Size - iget)
    /\ get_pc' = "rest"
    /\ UNCHANGED <<buf, iget, iput, putVars, get_len, got>>

GetCopyRest ==
    /\ get_pc = "rest"
    /\ memcpy_get(get_len - Len(get_data))
    /\ get_pc' = "publish"
    /\ UNCHANGED <<buf, iget, iput, putVars, get_len, got>>

GetPublish ==
    /\ get_pc = "publish"
    /\ iget' = Mod(iget + get_len)
    /\ got' = get_data
    /\ get_pc' = "idle"
    /\ get_data' = <<>>
    /\ get_len' = 0
    /\ UNCHANGED <<buf, iput, putVars>>

Producer == (\E d \in Block : ringbuf_put_bytes(d))
            \/ PutCopyEnd \/ PutCopyRest \/ PutPublish
Consumer == (\E n \in 0 .. MaxLen : ringbuf_get_bytes(n))
            \/ GetCopyEnd \/ GetCopyRest \/ GetPublish

Next == Producer \/ Consumer

Spec == Init /\ [][Next]_vars
-----------------------------------------------------------------------------
(* Type correctness; the indices stay inside the buffer.                   *)
TypeOK ==
    /\ buf \in [0 .. Size - 1 -> Byte]
    /\ iget \in 0 .. Size - 1
    /\ iput \in 0 .. Size - 1
    /\ put_pc \in {"idle", "end", "rest", "publish"}
    /\ put_data \in Seq(Byte)
    /\ put_len \in 0 .. Len(put_data)
    /\ get_pc \in {"idle", "end", "rest", "publish"}
    /\ get_data \in Seq(Byte)
    /\ get_len \in Nat
    /\ Len(get_data) <= get_len
    /\ got \in Seq(Byte)

Slot(i, k) == Mod(i + k)

(* The bytes that wait to be read, oldest first.                           *)
Unread == [k \in 1 .. ringbuf_avail |-> buf[Slot(iget, k - 1)]]

(* While ringbuf_get_bytes copies, the bytes it has copied are still the   *)
(* oldest in the ring: a put that runs on the other core at the same time  *)
(* never overwrites a byte that is being read.                             *)
ReadIsStable ==
    get_pc # "idle" =>
        /\ get_len <= ringbuf_avail
        /\ \A k \in 1 .. Len(get_data) : get_data[k] = Unread[k]

(* While ringbuf_put_bytes copies, the room it found is still there and    *)
(* the bytes it has copied are what was given: reads on the other core     *)
(* only ever make more room.                                               *)
WriteIsStable ==
    put_pc # "idle" =>
        /\ Len(put_data) <= ringbuf_free
        /\ \A k \in 1 .. put_len : buf[Slot(iput, k - 1)] = put_data[k]

(* Neither side disturbs the other while both copy.                        *)
RingStable == TypeOK /\ ReadIsStable /\ WriteIsStable

(* The lock-free ring is a bounded FIFO of size - 1 bytes: each put appears*)
(* as a whole when iput is stored, each get when iget is stored.           *)
Queue == INSTANCE ByteQueue WITH queue <- Unread, Capacity <- Size - 1
IsByteQueue == Queue!Spec
====
