---- MODULE MCGcHeap ----
(* Instance of GcHeap for TLC: all of its constants are numbers.            *)
EXTENDS GcHeap
====
