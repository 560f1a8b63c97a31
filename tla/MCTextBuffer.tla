---- MODULE MCTextBuffer ----
(* A small instance of TextBuffer: a display of two rows of two characters *)
(* and texts of up to seven, so that three and four rows are scrolled.     *)
EXTENDS TextBuffer

CONSTANT x

MCChar == {x, Blank}
MCWords == {<<>>, <<x>>, <<Blank>>, <<Blank, x, Blank>>}
MCResults == {<<x>>, <<x, x, Blank, x, x>>}
====
