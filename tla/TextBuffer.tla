---- MODULE TextBuffer ----
(***************************************************************************)
(* The calculator's input line: class Textbuffer of                        *)
(* process_modules/text_buffer.py, the uploader that paints it, and the    *)
(* key loop of apps/root/calculate.py that drives the two.  The text is    *)
(* kept with an end mark and padded with blanks to whole rows and at least *)
(* one full display; the display shows Rows rows of it from                *)
(* display_buffer_position on, and a key repaints only the rows of its     *)
(* refresh_area.                                                           *)
(*                                                                         *)
(* One thread does all this, so a key and its repaint are one step.        *)
(* Python's text_buffer[i] is Cell(t, i) here.                             *)
(***************************************************************************)
EXTENDS Integers, Sequences

CONSTANTS Rows, Cols,  \* 7 and 21
          Char,        \* characters a key may type
          Words,       \* what the keys type: sequences of characters
          Results,     \* what an evaluation may answer
          MaxText,     \* bound: longest text
          Blank, End   \* the padding and the end mark

VARIABLES text,                     \* text_buffer[:text_buffer_nospace]
          menu_buffer_cursor,
          display_buffer_position,
          screen,                   \* the text rows of the display
          app                       \* "open" while calculate() runs

vars == <<text, menu_buffer_cursor, display_buffer_position, screen, app>>

DisplaySize == Rows * Cols
RoundUp(n) == ((n + Cols - 1) \div Cols) * Cols

(* menu_buffer_size after buffer(): the text and its end mark, padded.     *)
BufferSize(t) == IF RoundUp(Len(t) + 1) < DisplaySize
                 THEN DisplaySize ELSE RoundUp(Len(t) + 1)

Cell(t, i) == IF i < Len(t) THEN t[i + 1] ELSE IF i = Len(t) THEN End ELSE Blank

(* display_buffer as the last buffer() left it: its first and last index.  *)
FirstShown == display_buffer_position
LastShown == display_buffer_position + DisplaySize - 1
LastRowShown == display_buffer_position + DisplaySize - Cols

Dark == [ch |-> Blank, inv |-> FALSE]
Cleared == [i \in 0 .. Rows - 1 |-> [k \in 0 .. Cols - 1 |-> Dark]]

(* The slice for display_buffer is too short and indexing it raises.       *)
BufferRaises(t, p) == p < 0 \/ p + DisplaySize > BufferSize(t)

RowBlank(t, p, i) == \A k \in 0 .. Cols - 1 : Cell(t, p + i * Cols + k) = Blank

(* refresh() over rows from .. to - 1: of a blank row without the cursor   *)
(* only the first character is wiped.                                      *)
Paint(scr, t, c, p, from, to) ==
    [i \in 0 .. Rows - 1 |-> [k \in 0 .. Cols - 1 |->
        IF i \notin from .. to - 1 THEN scr[i][k]
        ELSE IF RowBlank(t, p, i) /\ (c - p) \div Cols # i
             THEN IF k = 0 THEN Dark ELSE scr[i][k]
             ELSE [ch |-> Cell(t, p + i * Cols + k), inv |-> c = p + i * Cols + k]]]

(* A row of the refresh area that the display does not have raises too.    *)
PaintRaises(from, to) == from < to /\ to > Rows

Init ==
    /\ text = <<>>
    /\ menu_buffer_cursor = 0
    /\ display_buffer_position = 0
    /\ screen = Cleared
    /\ app = "closed"
-----------------------------------------------------------------------------
(* all_clear() and refresh() on a cleared display.                         *)
StartOver ==
    /\ text' = <<>>
    /\ menu_buffer_cursor' = 0
    /\ display_buffer_position' = 0
    /\ screen' = Paint(Cleared, <<>>, 0, 0, 0, Rows)

Open ==
    /\ app = "closed"
    /\ StartOver
    /\ app' = "open"

(* "back", or an exception elsewhere in the loop.                          *)
Leave ==
    /\ app = "open"
    /\ app' = "closed"
    /\ UNCHANGED <<text, menu_buffer_cursor, display_buffer_position, screen>>

(* The end of the key loop once update_buffer() has made text t, cursor c  *)
(* and position p.  An exception ends calculate(); whatever it leaves on   *)
(* the display is cleared by the app that follows.                         *)
Settle(scr, t, c, p, from, to) ==
    \/ /\ t = <<>>
       /\ StartOver
       /\ UNCHANGED app
    \/ /\ t # <<>>
       /\ text' = t
       /\ menu_buffer_cursor' = c
       /\ display_buffer_position' = p
       /\ \/ /\ ~BufferRaises(t, p) /\ ~PaintRaises(from, to)
             /\ screen' = Paint(scr, t, c, p, from, to)
             /\ UNCHANGED app
          \/ /\ BufferRaises(t, p) \/ PaintRaises(from, to)
             /\ app' = "closed"
             /\ UNCHANGED screen

RowOf(c) == (c - display_buffer_position) \div Cols
SettleAll(t, c, p) == Settle(screen, t, c, p, 0, Rows)

(* Where "nav_d" and "nav_r" wrap around: buffer_length counts the mark.   *)
PastText(c) == c >= Len(text)
PastEnd(c) == c >= Len(text) + 1

NoScroll == display_buffer_position
RowDown == display_buffer_position + Cols
RowUp == display_buffer_position - Cols

Forward(n) ==
    LET c == menu_buffer_cursor + n
    IN  /\ app = "open"
        /\ \/ /\ PastEnd(c)
              /\ SettleAll(text, 0, 0)
           \/ /\ ~PastEnd(c) /\ c > LastShown
              /\ SettleAll(text, c, RowDown)
           \/ /\ ~PastEnd(c) /\ c <= LastShown
              /\ Settle(screen, text, c, display_buffer_position,
                        RowOf(menu_buffer_cursor), RowOf(c) + 1)

ForgetsOldRow(c) == RowOf(c) + 1
UpperEnd(c) == RowOf(menu_buffer_cursor) + 1

Backward(n) ==
    LET c == menu_buffer_cursor - n
    IN  /\ app = "open"
        /\ \/ /\ c < 0
              /\ SettleAll(text, Len(text), BufferSize(text) - DisplaySize)
           \/ /\ c >= 0 /\ c < FirstShown
              /\ SettleAll(text, c, RowUp)
           \/ /\ c >= FirstShown /\ c >= 0
              /\ Settle(screen, text, c, display_buffer_position,
                        RowOf(c), UpperEnd(c))

nav_d == Forward(Cols)
nav_r == Forward(1)
nav_u == Backward(Cols)
nav_l == Backward(1)

(* "nav_b": the deletion takes away the last row shown when the end mark   *)
(* was its first character.                                                *)
LastRowGoes == Len(text) = LastRowShown /\ Len(text) >= DisplaySize

nav_b ==
    LET c == menu_buffer_cursor - 1
        t == SubSeq(text, 1, c) \o SubSeq(text, c + 2, Len(text))
        up == IF LastRowGoes THEN Cols ELSE 0
    IN  /\ app = "open"
        /\ \/ /\ c < 0
              /\ SettleAll(text, Len(text), BufferSize(text) - DisplaySize - up)
           \/ /\ c >= 0 /\ c < FirstShown
              /\ SettleAll(t, c, RowUp - up)
           \/ /\ c >= FirstShown /\ c >= 0 /\ LastRowGoes
              /\ SettleAll(t, c, RowUp)
           \/ /\ c >= FirstShown /\ c >= 0 /\ ~LastRowGoes
              /\ Settle(screen, t, c, display_buffer_position, RowOf(c), Rows)

AC ==
    /\ app = "open"
    /\ StartOver
    /\ UNCHANGED app

(* The position that puts the cursor into the last row shown.              *)
CursorInLastRow(c) == c - (c % Cols) - (Rows - 1) * Cols

(* Any other key types its own text; "alpha" and "beta" type nothing.      *)
Type(w) ==
    LET c == menu_buffer_cursor
        t == SubSeq(text, 1, c) \o w \o SubSeq(text, c + 1, Len(text))
    IN  /\ app = "open"
        /\ Len(t) <= MaxText
        /\ \/ /\ c + Len(w) > LastShown
              /\ SettleAll(t, c + Len(w), CursorInLastRow(c + Len(w)))
           \/ /\ c + Len(w) <= LastShown
              /\ Settle(screen, t, c + Len(w), display_buffer_position, RowOf(c), Rows)

(* "ans": all_clear() leaves display_buffer as it was, so whether the      *)
(* result scrolls is decided by what was shown before.                     *)
ans(res) ==
    /\ app = "open"
    /\ text # <<>>
    /\ \/ /\ Len(res) > LastShown
          /\ Settle(Cleared, res, Len(res), CursorInLastRow(Len(res)), 0, Rows)
       \/ /\ Len(res) <= LastShown
          /\ Settle(Cleared, res, Len(res), 0, 0, Rows)

Next ==
    \/ Open
    \/ Leave
    \/ nav_d \/ nav_r \/ nav_u \/ nav_l
    \/ nav_b
    \/ AC
    \/ \E w \in Words : Type(w)
    \/ \E res \in Results : ans(res)

Spec == Init /\ [][Next]_vars
-----------------------------------------------------------------------------
(* Type invariant of the buffer and the display.                           *)
TypeOK ==
    /\ text \in Seq(Char)
    /\ menu_buffer_cursor \in 0 .. Len(text)
    /\ display_buffer_position \in Int
    /\ app = "open" => display_buffer_position \in Nat
    /\ \A i \in 0 .. Rows - 1, k \in 0 .. Cols - 1 :
         screen[i][k] \in [ch : Char \cup {Blank, End}, inv : BOOLEAN]
    /\ app \in {"open", "closed"}

(* The display shows the window of the text it should, and the cursor and  *)
(* nothing else inverted, although a key repaints only part of it; the one *)
(* exception is a row of the text that is nothing but typed blanks, whose  *)
(* cells behind the first may be stale (text_buffer.py:79-170,             *)
(* text_buffer_uploader.py:9-32).                                          *)
ScreenFaithful ==
    app = "open" =>
        \A i \in 0 .. Rows - 1 :
            LET p == display_buffer_position
                TypedBlanks == RowBlank(text, p, i) /\ p + i * Cols < Len(text)
            IN  \A k \in 0 .. Cols - 1 :
                    \/ screen[i][k] = [ch |-> Cell(text, p + i * Cols + k),
                                      inv |-> p + i * Cols + k = menu_buffer_cursor]
                    \/ TypedBlanks /\ k > 0

(* The line: the cursor is in the text or on its end                       *)
(* (text_buffer.py:70-143), and the display shows the text and its cursor, *)
(* up to rows of typed blanks (text_buffer_uploader.py:9-32).              *)
TextFaithful == TypeOK /\ ScreenFaithful

CursorShown == FirstShown <= menu_buffer_cursor /\ menu_buffer_cursor <= LastShown

(* No key but "ans" makes the cursor leave the display while the           *)
(* application runs (text_buffer.py:88-94, 125-143, 172-178).              *)
CursorStaysShown ==
    [][(/\ app = "open" /\ app' = "open"
        /\ CursorShown
        /\ \A res \in Results : ~ans(res)) => CursorShown']_vars

(* Rows, scrolling and padding never change what is edited: the buffer is  *)
(* the plain line of LineEditor (text_buffer.py:70-179).                   *)
Editor == INSTANCE LineEditor
            WITH text <- IF app = "open" THEN text ELSE <<>>,
                 cursor <- IF app = "open" THEN menu_buffer_cursor ELSE 0

EditorSpec == Editor!Spec

(* "Ensure text_buffer has enough characters to fill display buffer"       *)
(* (text_buffer.py:43): buffer() always finds a full display to show.      *)
DisplayBufferFilled == ~BufferRaises(text, display_buffer_position)
=============================================================================
