---- MODULE LineEditor ----
(***************************************************************************)
(* What the calculator's input line promises: a text and a cursor in it,   *)
(* characters go in before the cursor and are deleted before it, the       *)
(* cursor moves by one or by a display row and wraps around at the ends.   *)
(* Nothing is said of rows, scrolling or the display.                      *)
(***************************************************************************)
EXTENDS Integers, Sequences

CONSTANTS Words,    \* what a key may type: sequences of characters
          Results,  \* what an evaluation may answer
          Cols      \* characters in a display row

VARIABLES text, cursor

vars == <<text, cursor>>

Init == text = <<>> /\ cursor = 0

Insert(w) ==
    /\ text' = SubSeq(text, 1, cursor) \o w \o SubSeq(text, cursor + 1, Len(text))
    /\ cursor' = cursor + Len(w)

Delete ==
    /\ cursor > 0
    /\ text' = SubSeq(text, 1, cursor - 1) \o SubSeq(text, cursor + 1, Len(text))
    /\ cursor' = cursor - 1

Forward(n) == /\ cursor' = IF cursor + n > Len(text) THEN 0 ELSE cursor + n
              /\ UNCHANGED text

Backward(n) == /\ cursor' = IF cursor - n < 0 THEN Len(text) ELSE cursor - n
               /\ UNCHANGED text

(* The line is cleared, or replaced by a result with the cursor behind it. *)
Replace == text' \in Results \cup {<<>>} /\ cursor' = Len(text')

Next ==
    \/ \E w \in Words : Insert(w)
    \/ Delete
    \/ \E n \in {1, Cols} : Forward(n) \/ Backward(n)
    \/ Replace

Spec == Init /\ [][Next]_vars
====
