---- MODULE MCThreadPort ----
(* The main thread and handles for two others, three heap cells for their   *)
(* list nodes: a new thread may be created while two are still ending.      *)
EXTENDS ThreadPort

CONSTANTS main, t1, t2, n1, n2, n3

MCTask == {main, t1, t2}
MCNode == {n1, n2, n3}
====
