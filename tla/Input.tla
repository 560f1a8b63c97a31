---- MODULE Input ----
(***************************************************************************)
(* The two ways to enter text: the form, which this module extends, and    *)
(* the calculator's input line.  They share the characters and no state:   *)
(* the line has variables of its own here, and its properties under the    *)
(* names the runs check.                                                   *)
(***************************************************************************)
EXTENDS FormBuffer

CONSTANTS LineRows, LineCols,  \* the display of the line
          LineWords,           \* what the keys type into it
          LineMaxText,         \* bound: longest line
          Results, End         \* as in TextBuffer

ASSUME LineAssumption ==
    /\ LineRows \in Nat \ {0} /\ LineCols \in Nat \ {0}
    /\ LineWords \subseteq Seq(Char) /\ Results \subseteq Seq(Char)
    /\ End # Blank

VARIABLES text, menu_buffer_cursor, display_buffer_position, text_screen, text_app

T == INSTANCE TextBuffer WITH
        Rows <- LineRows, Cols <- LineCols, Words <- LineWords, MaxText <- LineMaxText,
        screen <- text_screen, app <- text_app
-----------------------------------------------------------------------------
(* The line: the cursor is in the text or on its end                       *)
(* (text_buffer.py:70-143), and the display shows the text and its cursor, *)
(* up to rows of typed blanks (text_buffer_uploader.py:9-32).              *)
TextFaithful == T!TextFaithful

(* No key but "ans" moves the cursor off the display                       *)
(* (text_buffer.py:88-143).                                                *)
CursorStaysShown == T!CursorStaysShown

(* The buffer implements LineEditor (text_buffer.py:70-179).               *)
EditorSpec == T!EditorSpec
====
