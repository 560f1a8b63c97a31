---- MODULE FormBuffer ----
(***************************************************************************)
(* Forms: class Form of process_modules/form_buffer.py, the uploader that  *)
(* paints it, and the loops of the applications that use it                *)
(* (apps/settings/sleep_after.py, apps/scientific_calculator/              *)
(* mymolecule.py).  A form is a list of labels and input fields of which   *)
(* FormRows are shown; keys go to the selected row's field.  All fields    *)
(* share one cursor and one scroll position, and a key repaints only the   *)
(* rows of refresh_rows.                                                   *)
(*                                                                         *)
(* One Form object serves every application, so its positions outlive the  *)
(* application that left them.  One thread does all this: a key and its    *)
(* repaint are one step.                                                   *)
(***************************************************************************)
EXTENDS Integers, Sequences, SequencesExt

CONSTANTS FormRows, FormCols,     \* 7 and 21
          Char,           \* characters of texts
          Words,          \* what the keys type: sequences of characters
          Field, Label,   \* rows of a form: "inp_..." and anything else
          LabelText,      \* the text of a label
          Message,        \* the label "updated successfully"
          FormLists,      \* the forms of the applications
          FirstTexts,     \* what an application puts into the fields
          InitialList, InitialTexts,   \* the defaults of Form.__init__
          Blank, Arrow,   \* " " and "=>"
          MaxText, MaxCursor           \* bounds: length of a text, cursor

ASSUME SizeAssumption == FormRows \in Nat \ {0} /\ FormCols \in Nat /\ FormCols > 2
ASSUME BoundAssumption == MaxText \in Nat /\ MaxCursor \in Nat
ASSUME TextAssumption ==
    /\ Words \subseteq Seq(Char) /\ Blank \in Char
    /\ LabelText \in [Label -> Seq(Char)] /\ Message \in Label
    /\ Arrow \in Seq(Char) /\ Len(Arrow) = 2
    /\ \A t \in FirstTexts \cup {InitialTexts} :
         t \in [Field -> Seq(Char) \ {<<>>}]
(* Every form starts with a label other than the message, and shows no     *)
(* field in two rows.                                                      *)
ASSUME ListAssumption ==
    /\ Field \cap Label = {}
    /\ \A l \in FormLists \cup {InitialList} :
         /\ l \in Seq(Field \cup Label) /\ l # <<>> /\ l[1] \in Label \ {Message}
         /\ \A m, n \in 1 .. Len(l) : l[m] = l[n] /\ l[m] \in Field => m = n

VARIABLES form_list,
          input_list,               \* the text of every field
          form_cursor, form_display_position,
          form_refresh_rows,        \* the rows painted last: <<first, end>>
          input_cursor, input_display_position,
          form_screen,
          app                       \* "open" while an application runs

formVars == <<form_list, input_list, form_cursor, form_display_position,
              form_refresh_rows, input_cursor, input_display_position, form_screen, app>>

input_cols == FormCols - 2
ActualRows(list) == IF Len(list) >= FormRows THEN FormRows ELSE Len(list)
AllRows(list) == <<0, ActualRows(list)>>

form_display_cursor == form_cursor - form_display_position
Selected == form_list[form_cursor + 1]
OnField == Selected \in Field
Text == input_list[Selected]

Dark == [ch |-> Blank, inv |-> FALSE]
Cleared == [i \in 0 .. FormRows - 1 |-> [k \in 0 .. FormCols - 1 |-> Dark]]

(* Python's t[from:to], where a negative index counts from the end.        *)
PyIndex(t, n) ==
    IF n < 0 THEN (IF Len(t) + n < 0 THEN 0 ELSE Len(t) + n)
    ELSE IF n < Len(t) THEN n ELSE Len(t)
Slice(t, from, to) == SubSeq(t, PyIndex(t, from) + 1, PyIndex(t, to))

(* buf[i] of the uploader, and its text when fields are shown from q on.   *)
Entry(i) == form_list[form_display_position + i + 1]
RowText(i, q) == IF Entry(i) \in Field
                 THEN Arrow \o Slice(input_list[Entry(i)], q, q + input_cols)
                 ELSE LabelText[Entry(i)]

(* Only a text shorter than input_cols is padded, and then to the whole    *)
(* row: one that lacks one or two characters of a row leaves the cells     *)
(* behind it alone.                                                        *)
Written(i, q) == IF Len(RowText(i, q)) < input_cols THEN FormCols ELSE Len(RowText(i, q))
Cell(i, k, q) ==
    [ch  |-> IF k < Len(RowText(i, q)) THEN RowText(i, q)[k + 1] ELSE Blank,
     inv |-> i = form_display_cursor /\ (Entry(i) \in Field => k + q = input_cursor + 2)]

(* refresh(), on a display that shows scr.                                 *)
RefreshForm(scr) ==
    form_screen' = [i \in 0 .. FormRows - 1 |-> [k \in 0 .. FormCols - 1 |->
                 IF /\ form_refresh_rows'[1] <= i /\ i < form_refresh_rows'[2]
                    /\ k < Written(i, input_display_position)'
                 THEN Cell(i, k, input_display_position)'
                 ELSE scr[i][k]]]

FormInit ==
    /\ form_list = InitialList
    /\ input_list = InitialTexts
    /\ form_cursor = 0 /\ form_display_position = 0
    /\ form_refresh_rows = AllRows(InitialList)
    /\ input_cursor = 0 /\ input_display_position = 0
    /\ form_screen = Cleared
    /\ app = "closed"
-----------------------------------------------------------------------------
(* update() leaves the position in the field as it is.                     *)
UpdateForm(list) ==
    /\ form_list' = list
    /\ form_cursor' = 0
    /\ form_display_position' = 0
    /\ form_refresh_rows' = AllRows(list)

OpenForm(list, texts) ==
    /\ app = "closed"
    /\ app' = "open"
    /\ input_list' = texts
    /\ UpdateForm(list)
    /\ UNCHANGED <<input_cursor, input_display_position>>
    /\ RefreshForm(Cleared)

(* "back", or an exception elsewhere in the loop.                          *)
Leave ==
    /\ app = "open"
    /\ app' = "closed"
    /\ UNCHANGED <<form_list, input_list, form_cursor, form_display_position,
                   form_refresh_rows, input_cursor, input_display_position, form_screen>>

(* "ok": the answer is another form, on a cleared display or over the old. *)
OkForm(list) ==
    /\ app = "open"
    /\ UpdateForm(list)
    /\ UNCHANGED <<input_list, input_cursor, input_display_position, app>>
    /\ \E scr \in {form_screen, Cleared} : RefreshForm(scr)
-----------------------------------------------------------------------------
HasMessage == \E n \in 1 .. Len(form_list) : form_list[n] = Message

(* A key other than "alpha" and "beta" takes the message, the last row,    *)
(* off the form again; update() then overrides where the key went.         *)
Settle(mc, mp, rows) ==
    \/ /\ HasMessage
       /\ UpdateForm(Front(form_list))
    \/ /\ ~HasMessage
       /\ form_list' = form_list
       /\ form_cursor' = mc /\ form_display_position' = mp
       /\ form_refresh_rows' = rows

(* "nav_d" and "nav_u" go to another row, and to its first character.      *)
GoTo(mc, mp, rows) ==
    /\ app = "open"
    /\ Settle(mc, mp, rows)
    /\ input_cursor' = 0 /\ input_display_position' = 0
    /\ UNCHANGED <<input_list, app>>
    /\ RefreshForm(form_screen)

OneRow(r) == <<r, r + 1>>
TwoFormRows(r) == <<r, r + 2>>
BottomOfForm == Len(form_list) - ActualRows(form_list)

nav_d ==
    LET mc == form_cursor + 1
    IN  \/ /\ mc = Len(form_list)
           /\ GoTo(0, 0, AllRows(form_list))
        \/ /\ mc # Len(form_list)
           /\ mc - form_display_position = ActualRows(form_list)
           /\ GoTo(mc, form_display_position + 1, AllRows(form_list))
        \/ /\ mc # Len(form_list)
           /\ mc - form_display_position # ActualRows(form_list)
           /\ GoTo(mc, form_display_position, TwoFormRows(form_display_cursor))

nav_u ==
    LET mc == form_cursor - 1
    IN  \/ /\ mc < 0
           /\ GoTo(Len(form_list) - 1, BottomOfForm, AllRows(form_list))
        \/ /\ mc >= 0 /\ mc < form_display_position
           /\ GoTo(mc, form_display_position - 1, AllRows(form_list))
        \/ /\ mc >= 0 /\ mc >= form_display_position
           /\ GoTo(mc, form_display_position, TwoFormRows(form_display_cursor - 1))
-----------------------------------------------------------------------------
(* rstrip(), and the blank that is put behind it.                          *)
OnlyBlanksAfter(t, n) == \A m \in n + 1 .. Len(t) : t[m] = Blank
Rstrip(t) == SubSeq(t, 1, CHOOSE n \in 0 .. Len(t) :
                             /\ OnlyBlanksAfter(t, n)
                             /\ n = 0 \/ t[n] # Blank)
Trimmed(t) == Append(Rstrip(t), Blank)

(* What a key in a field does once it has made text t, cursor c and scroll *)
(* position p; only its row is painted.                                    *)
Edit(t, c, p) ==
    /\ app = "open" /\ OnField
    /\ input_list' = [input_list EXCEPT ![Selected] = Trimmed(t)]
    /\ input_cursor' = c
    /\ input_display_position' = p
    /\ UNCHANGED app

EditRow(t, c, p) ==
    /\ Edit(t, c, p)
    /\ Settle(form_cursor, form_display_position, OneRow(form_display_cursor))
    /\ RefreshForm(form_screen)

PastFieldLate(c) == c = Len(Text) + 1
PastField(c) == c = Len(Text)

nav_r ==
    LET c == input_cursor + 1
    IN  /\ OnField /\ c <= MaxCursor
        /\ \/ /\ PastField(c)
              /\ EditRow(Text, 0, 0)
           \/ /\ ~PastField(c)
              /\ c = input_display_position + input_cols
              /\ EditRow(Text, c, input_display_position + 1)
           \/ /\ ~PastField(c)
              /\ c # input_display_position + input_cols
              /\ EditRow(Text, c, input_display_position)

(* "nav_l" and "nav_b" move alike: cursor and position after the move.     *)
LastPosition == IF Len(Text) < input_cols THEN 0 ELSE Len(Text) - input_cols
CursorLeft == IF input_cursor = 0 THEN Len(Text) - 1 ELSE input_cursor - 1
PositionLeft == IF input_cursor = 0 THEN LastPosition
                ELSE IF input_cursor - 1 < input_display_position
                     THEN input_display_position - 1
                     ELSE input_display_position

nav_l == OnField /\ EditRow(Text, CursorLeft, PositionLeft)

(* "nav_b" deletes under the cursor it has moved, unless that is the last  *)
(* character, and closes the gap that opens at the end of the row.         *)
Deleted == Slice(Text, 0, CursorLeft) \o Slice(Text, CursorLeft + 1, Len(Text))
PositionAfter(t, p) ==
    IF Len(t) <= input_cols THEN 0
    ELSE IF Len(t) - p < input_cols THEN Len(t) - input_cols ELSE p

nav_b ==
    /\ OnField
    /\ \/ /\ CursorLeft = Len(Text) - 1
          /\ EditRow(Text, CursorLeft, PositionLeft)
       \/ /\ CursorLeft # Len(Text) - 1
          /\ EditRow(Deleted, CursorLeft, PositionAfter(Deleted, PositionLeft))

AC == OnField /\ EditRow(<<Blank>>, 0, 0)

(* Any other key types its text.  The position follows the cursor when a   *)
(* character takes it to the end of the row; a key without text tests the  *)
(* cursor where it is.                                                     *)
Inserted(w) == Slice(Text, 0, input_cursor) \o w
               \o Slice(Text, input_cursor, Len(Text))
PositionTyped(n) ==
    LET end == input_display_position + input_cols
    IN  IF \/ n = 0 /\ input_cursor = end
           \/ input_cursor < end /\ end <= input_cursor + n
        THEN input_cursor + n - input_cols + 1
        ELSE input_display_position

Type(w) ==
    /\ OnField
    /\ Len(Inserted(w)) <= MaxText /\ input_cursor + Len(w) <= MaxCursor
    /\ EditRow(Inserted(w), input_cursor + Len(w), PositionTyped(Len(w)))

(* "alpha" and "beta" call update_buffer("") and leave the message.        *)
Shift ==
    /\ Edit(Text, input_cursor, PositionTyped(0))
    /\ form_refresh_rows' = OneRow(form_display_cursor)
    /\ UNCHANGED <<form_list, form_cursor, form_display_position>>
    /\ RefreshForm(form_screen)

(* A key on a label changes nothing of the form; "alpha" and "beta" leave  *)
(* the message there, too.                                                 *)
KeyOnLabel ==
    /\ app = "open" /\ ~OnField
    /\ \/ Settle(form_cursor, form_display_position, form_refresh_rows)
       \/ UNCHANGED <<form_list, form_cursor, form_display_position, form_refresh_rows>>
    /\ UNCHANGED <<input_list, input_cursor, input_display_position, app>>
    /\ RefreshForm(form_screen)

FormNext ==
    \/ \E list \in FormLists, texts \in FirstTexts : OpenForm(list, texts)
    \/ Leave
    \/ \E list \in FormLists : OkForm(list)
    \/ nav_d \/ nav_u
    \/ nav_r \/ nav_l
    \/ nav_b
    \/ AC
    \/ \E w \in Words : Type(w)
    \/ Shift
    \/ KeyOnLabel

FormSpec == FormInit /\ [][FormNext]_formVars
-----------------------------------------------------------------------------
(* Type invariant of the form and the display; the scroll position never   *)
(* becomes negative, where a Python slice would count from the end.        *)
FormTypeOK ==
    /\ form_list \in Seq(Field \cup Label)
    /\ input_list \in [Field -> Seq(Char) \ {<<>>}]
    /\ form_cursor \in 0 .. Len(form_list) - 1
    /\ form_display_position \in Nat
    /\ form_refresh_rows \in (0 .. FormRows) \X (0 .. FormRows)
    /\ input_cursor \in Nat /\ input_display_position \in Nat
    /\ form_screen \in [0 .. FormRows - 1 -> [0 .. FormCols - 1 -> [ch : Char, inv : BOOLEAN]]]
    /\ app \in {"open", "closed"}

(* The selected row is among the rows shown, these are rows of the form,   *)
(* and what refresh() paints next is among them, over all the ways in      *)
(* which forms of different lengths follow each other (form_buffer.py      *)
(* 18-55, 137-144).                                                        *)
SelectionShown ==
    /\ form_display_cursor \in 0 .. ActualRows(form_list) - 1
    /\ form_display_position + ActualRows(form_list) <= Len(form_list)
    /\ form_refresh_rows[2] <= ActualRows(form_list)

(* Row i shows its entry, a field from character q on.                     *)
Shows(i, q) == \A k \in 0 .. Written(i, q) - 1 : k < FormCols => form_screen[i][k] = Cell(i, k, q)
Positions(i) == IF i = form_display_cursor THEN {input_display_position}
                ELSE IF Entry(i) \in Field THEN 0 .. Len(input_list[Entry(i)])
                ELSE {0}

(* Partial repainting is right: every row of the form shows its label or   *)
(* the present text of its field, the selected row with the cursor and     *)
(* from the present position on, a field of another row from some place in *)
(* its text; the exception are the cells behind a text that lacks one or   *)
(* two characters of a row, which nothing paints (form_buffer.py:25-59,    *)
(* form_buffer_uploader.py:8-47).                                          *)
FormShown ==
    app = "open" =>
        \A i \in 0 .. ActualRows(form_list) - 1 : \E q \in Positions(i) : Shows(i, q)

(* The form: the selected row is shown (form_buffer.py:18-55), every row   *)
(* shows its label or the present text of its field, the selected one with *)
(* the cursor, up to the cells nothing paints                              *)
(* (form_buffer_uploader.py:8-47).                                         *)
FormFaithful == FormTypeOK /\ SelectionShown /\ FormShown

CursorInField ==
    OnField => /\ input_cursor < Len(Text)
               /\ input_display_position <= input_cursor
               /\ input_cursor < input_display_position + input_cols

(* rstrip() takes away more than the blank that is put back.               *)
LosesBlank(t) == Len(Trimmed(t)) < Len(t)

(* No key takes the cursor out of the text or out of the cells shown of    *)
(* it, over moves, wrapping, scrolling, deletions and changes of row and   *)
(* form, unless its edit ends in a blank that rstrip() takes away          *)
(* (form_buffer.py:60-108).                                                *)
CursorStaysInField ==
    [][\/ ~CursorInField
       \/ CursorInField'
       \/ nav_b /\ LosesBlank(Deleted)
       \/ \E w \in Words : Type(w) /\ LosesBlank(Inserted(w))]_formVars
=============================================================================
