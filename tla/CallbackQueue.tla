---- MODULE CallbackQueue ----
(***************************************************************************)
(* What the scheduler promises to those who hand it Python callbacks: a    *)
(* bounded first-in first-out queue.  A callback is accepted unless Depth  *)
(* of them wait, and accepted callbacks are taken in order, each once,     *)
(* unless a soft reset discards them all.                                  *)
(***************************************************************************)
EXTENDS Integers, Sequences

CONSTANTS Func,   \* the callbacks
          Depth   \* how many may wait

VARIABLES waiting,   \* the accepted callbacks, oldest first
          accepted   \* the answer the last caller got

vars == <<waiting, accepted>>

Init == waiting = <<>> /\ accepted = TRUE

Accept(f) ==
    /\ Len(waiting) < Depth
    /\ waiting' = Append(waiting, f)
    /\ accepted' = TRUE

Refuse ==
    /\ Len(waiting) = Depth
    /\ accepted' = FALSE
    /\ UNCHANGED waiting

Take ==
    /\ waiting # <<>>
    /\ waiting' = Tail(waiting)
    /\ UNCHANGED accepted

(* A soft reset. *)
Discard ==
    /\ waiting' = <<>>
    /\ UNCHANGED accepted

Next == (\E f \in Func : Accept(f)) \/ Refuse \/ Take \/ Discard

Spec == Init /\ [][Next]_vars
====
