---- MODULE ByteQueue ----
(***************************************************************************)
(* What a byte ring promises to one writer and one reader: a bounded FIFO  *)
(* of bytes, in which a block of bytes is written or read as a whole.      *)
(***************************************************************************)
EXTENDS Integers, Sequences

CONSTANTS Capacity, Byte, MaxLen

VARIABLES queue,  \* the bytes written and not yet read, oldest first
          got     \* the bytes of the last read

Block == UNION {[1 .. n -> Byte] : n \in 0 .. MaxLen}

Init == queue = <<>> /\ got = <<>>

Put(d) ==
    /\ Len(queue) + Len(d) <= Capacity
    /\ queue' = queue \o d
    /\ UNCHANGED got

Get(n) ==
    /\ n <= Len(queue)
    /\ got' = SubSeq(queue, 1, n)
    /\ queue' = SubSeq(queue, n + 1, Len(queue))

Next == (\E d \in Block : Put(d)) \/ (\E n \in 0 .. MaxLen : Get(n))

Spec == Init /\ [][Next]_<<queue, got>>
====
