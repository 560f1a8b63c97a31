---- MODULE Input_proofs ----
(***************************************************************************)
(* Proofs about FormBuffer for every size of the display and every set of  *)
(* forms, texts and words: first the rows of a form, then what the display *)
(* shows of them, then the cursor inside a field; and about TextBuffer     *)
(* for the same displays and words: what the display shows of the line,    *)
(* that the line is a plain line editor, and that its cursor is shown.     *)
(***************************************************************************)
EXTENDS Input, SequenceTheorems, WellFoundedInduction, TLAPS

FieldsOnce(l) ==
    \A m, n \in 1 .. Len(l) : l[m] = l[n] /\ l[m] \in Field => m = n

(* A form is never empty: the message may be taken off it because the      *)
(* first row is a label of its own.                                        *)
FormOK ==
    /\ form_list \in Seq(Field \cup Label)
    /\ form_list # <<>>
    /\ form_list[1] \in Label \ {Message}
    /\ FieldsOnce(form_list)

RowsOK ==
    /\ form_cursor \in Int /\ form_display_position \in Nat
    /\ form_refresh_rows \in Nat \X Nat
    /\ form_refresh_rows[1] <= form_refresh_rows[2]

IInv == FormOK /\ RowsOK /\ SelectionShown

rowvars == <<form_list, form_cursor, form_display_position, form_refresh_rows>>
-----------------------------------------------------------------------------
(* The rows shown of a form: at least one, and no more than it has.        *)
LEMMA ActualRowsBounds ==
    ASSUME NEW S, NEW l \in Seq(S), l # <<>>
    PROVE  /\ Len(l) \in Nat \ {0}
           /\ ActualRows(l) \in 1 .. Len(l)
<1>1. Len(l) \in Nat \ {0}
  BY EmptySeq
<1> QED
  BY <1>1, SizeAssumption DEF ActualRows

(* Taking the message off a form leaves a form.                            *)
LEMMA FrontIsAForm ==
    ASSUME FormOK, HasMessage
    PROVE  /\ Front(form_list) \in Seq(Field \cup Label)
           /\ Front(form_list) # <<>>
           /\ Front(form_list)[1] \in Label \ {Message}
           /\ FieldsOnce(Front(form_list))
<1> DEFINE n == Len(form_list)
<1>1. n \in Nat /\ \A m \in 1 .. n : form_list[m] \in Field \cup Label
  BY LenProperties, ElementOfSeq DEF FormOK
<1>2. n >= 2
  BY <1>1 DEF FormOK, HasMessage
<1>3. n - 1 \in Int /\ 1 \in Int /\ \A m \in 1 .. n - 1 : form_list[m] \in Field \cup Label
  BY <1>1
<1> HIDE DEF n
<1>4. /\ SubSeq(form_list, 1, n - 1) \in Seq(Field \cup Label)
      /\ Len(SubSeq(form_list, 1, n - 1)) = IF 1 <= n - 1 THEN n - 1 - 1 + 1 ELSE 0
      /\ \A i \in 1 .. n - 1 - 1 + 1 : SubSeq(form_list, 1, n - 1)[i] = form_list[1 + i - 1]
  BY ONLY <1>3, SubSeqProperties
<1>5. /\ Len(SubSeq(form_list, 1, n - 1)) = n - 1
      /\ \A i \in 1 .. n - 1 : SubSeq(form_list, 1, n - 1)[i] = form_list[i]
  BY <1>1, <1>2, <1>4
<1>6. SubSeq(form_list, 1, n - 1) # <<>> /\ 1 \in 1 .. n - 1
  <2>1. Len(SubSeq(form_list, 1, n - 1)) # 0 /\ 1 \in 1 .. n - 1
    BY <1>1, <1>2, <1>5
  <2> QED
    BY <2>1, EmptySeq
<1>7. FieldsOnce(SubSeq(form_list, 1, n - 1))
  BY <1>1, <1>5 DEF FieldsOnce, FormOK, n
<1> QED
  BY <1>4, <1>5, <1>6, <1>7 DEF Front, n, FormOK

(* update() on a form selects its first row.                               *)
LEMMA UpdateIInv ==
    ASSUME NEW list \in Seq(Field \cup Label), list # <<>>,
           list[1] \in Label \ {Message}, FieldsOnce(list), UpdateForm(list)
    PROVE  IInv'
<1>1. Len(list) \in Nat \ {0} /\ ActualRows(list) \in 1 .. Len(list)
  BY ActualRowsBounds
<1> QED
  BY <1>1 DEF IInv, FormOK, FieldsOnce, RowsOK, SelectionShown, UpdateForm, AllRows, form_display_cursor, ActualRows

(* The end of a key: the rows it chose, or the form without its message.   *)
LEMMA SettleIInv ==
    ASSUME IInv, NEW mc \in Int, NEW mp \in Nat, NEW rows \in Nat \X Nat,
           mc - mp \in 0 .. ActualRows(form_list) - 1,
           mp + ActualRows(form_list) <= Len(form_list),
           rows[1] <= rows[2], rows[2] <= ActualRows(form_list),
           Settle(mc, mp, rows)
    PROVE  IInv'
<1>1. CASE HasMessage /\ UpdateForm(Front(form_list))
  BY <1>1, FrontIsAForm, UpdateIInv DEF IInv
<1>2. CASE /\ form_list' = form_list
           /\ form_cursor' = mc /\ form_display_position' = mp
           /\ form_refresh_rows' = rows
  BY <1>2 DEF IInv, FormOK, RowsOK, SelectionShown, form_display_cursor, ActualRows
<1> QED
  BY <1>1, <1>2 DEF Settle

(* A key that stays in its row.                                            *)
LEMMA EditIInv ==
    ASSUME IInv, NEW t, NEW c, NEW p, EditRow(t, c, p)
    PROVE  IInv'
<1>1. ActualRows(form_list) \in Nat /\ form_display_cursor \in Nat
  BY ActualRowsBounds DEF IInv, FormOK, RowsOK, form_display_cursor, SelectionShown
<1>2. /\ OneRow(form_display_cursor) \in Nat \X Nat
      /\ OneRow(form_display_cursor)[1] = form_display_cursor
      /\ OneRow(form_display_cursor)[2] = form_display_cursor + 1
  BY <1>1 DEF OneRow
<1>3. Settle(form_cursor, form_display_position, OneRow(form_display_cursor))
  BY DEF EditRow
<1> QED
  BY <1>1, <1>2, <1>3, SettleIInv DEF IInv, RowsOK, SelectionShown, form_display_cursor

(* The form the device starts with.                                        *)
LEMMA InitIInv == FormInit => IInv
<1> SUFFICES ASSUME FormInit PROVE IInv
  OBVIOUS
<1>1. /\ InitialList \in Seq(Field \cup Label) /\ InitialList # <<>>
      /\ InitialList[1] \in Label \ {Message} /\ FieldsOnce(InitialList)
  BY ListAssumption DEF FieldsOnce
<1>2. Len(InitialList) \in Nat \ {0} /\ ActualRows(InitialList) \in 1 .. Len(InitialList)
  BY <1>1, ActualRowsBounds
<1> QED
  BY <1>1, <1>2 DEF FormInit, IInv, FormOK, FieldsOnce, RowsOK, SelectionShown, AllRows, form_display_cursor, ActualRows

(* Every key and every change of form preserves the invariant.             *)
LEMMA NextIInv == IInv /\ [FormNext]_formVars => IInv'
<1> SUFFICES ASSUME IInv, [FormNext]_formVars PROVE IInv'
  OBVIOUS
<1> DEFINE n == Len(form_list)
           a == ActualRows(form_list)
<1>0. /\ n \in Nat \ {0} /\ a \in 1 .. n
      /\ form_cursor \in Int /\ form_display_position \in Nat
      /\ form_cursor - form_display_position \in 0 .. a - 1
      /\ form_display_position + a <= n
      /\ form_refresh_rows \in Nat \X Nat /\ form_refresh_rows[1] <= form_refresh_rows[2]
      /\ form_refresh_rows[2] <= a
  BY ActualRowsBounds DEF IInv, FormOK, RowsOK, SelectionShown, form_display_cursor
<1>same. ASSUME UNCHANGED rowvars PROVE IInv'
  BY <1>same DEF rowvars, IInv, FormOK, RowsOK, SelectionShown, form_display_cursor, ActualRows
<1>list. ASSUME NEW list \in FormLists, UpdateForm(list) PROVE IInv'
  BY <1>list, ListAssumption, UpdateIInv DEF FieldsOnce
<1>all. /\ AllRows(form_list) \in Nat \X Nat
        /\ AllRows(form_list)[1] <= AllRows(form_list)[2] /\ AllRows(form_list)[2] <= a
  BY <1>0 DEF AllRows
<1>1. CASE \E list \in FormLists, texts \in FirstTexts : OpenForm(list, texts)
  BY <1>1, <1>list DEF OpenForm
<1>2. CASE Leave
  BY <1>2, <1>same DEF Leave, rowvars
<1>3. CASE \E list \in FormLists : OkForm(list)
  BY <1>3, <1>list DEF OkForm
<1>4. CASE nav_d
  <2> DEFINE mc == form_cursor + 1
  <2>1. CASE mc = n /\ Settle(0, 0, AllRows(form_list))
    BY <1>0, <1>all, <2>1, SettleIInv, SMTT(30)
  <2>2. CASE /\ mc # n /\ mc - form_display_position = a
             /\ Settle(mc, form_display_position + 1, AllRows(form_list))
    <3>1. /\ mc - (form_display_position + 1) \in 0 .. a - 1
          /\ form_display_position + 1 + a <= n
      BY <1>0, <2>2
    <3> QED
      BY <1>0, <1>all, <2>2, <3>1, SettleIInv, SMTT(30)
  <2>3. CASE /\ mc # n /\ mc - form_display_position # a
             /\ Settle(mc, form_display_position, TwoFormRows(form_display_cursor))
    <3>1. mc - form_display_position \in 0 .. a - 1
      BY <1>0, <2>3
    <3>2. form_display_cursor \in Nat /\ form_display_cursor + 2 <= a
      BY <1>0, <3>1 DEF form_display_cursor
    <3>3. /\ TwoFormRows(form_display_cursor) \in Nat \X Nat
          /\ TwoFormRows(form_display_cursor)[1] <= TwoFormRows(form_display_cursor)[2]
          /\ TwoFormRows(form_display_cursor)[2] <= a
      BY <1>0, <3>2 DEF TwoFormRows
    <3> HIDE DEF mc, a, n
    <3>4. mc \in Int /\ form_display_position \in Nat /\ form_display_position + a <= n
      BY <1>0 DEF mc
    <3> QED
      BY <2>3, <3>1, <3>3, <3>4, SettleIInv DEF a, n
  <2> QED
    BY <1>4, <2>1, <2>2, <2>3 DEF nav_d, GoTo
<1>5. CASE nav_u
  <2> DEFINE mc == form_cursor - 1
  <2>1. CASE mc < 0 /\ Settle(n - 1, BottomOfForm, AllRows(form_list))
    <3>1. BottomOfForm \in Nat /\ BottomOfForm = n - a
      BY <1>0 DEF BottomOfForm
    <3> QED
      BY <1>0, <1>all, <2>1, <3>1, SettleIInv, SMTT(30)
  <2>2. CASE /\ mc >= 0 /\ mc < form_display_position
             /\ Settle(mc, form_display_position - 1, AllRows(form_list))
    BY <1>0, <1>all, <2>2, SettleIInv, SMTT(30)
  <2>3. CASE /\ mc >= 0 /\ mc >= form_display_position
             /\ Settle(mc, form_display_position, TwoFormRows(form_display_cursor - 1))
    <3>1. mc - form_display_position \in 0 .. a - 1
      BY <1>0, <2>3
    <3>2. form_display_cursor - 1 \in Nat /\ (form_display_cursor - 1) + 2 <= a
      BY <1>0, <3>1 DEF form_display_cursor
    <3>3. /\ TwoFormRows(form_display_cursor - 1) \in Nat \X Nat
          /\ TwoFormRows(form_display_cursor - 1)[1] <= TwoFormRows(form_display_cursor - 1)[2]
          /\ TwoFormRows(form_display_cursor - 1)[2] <= a
      BY <1>0, <3>2 DEF TwoFormRows
    <3> HIDE DEF mc, a, n
    <3>4. mc \in Int /\ form_display_position \in Nat /\ form_display_position + a <= n
      BY <1>0 DEF mc
    <3> QED
      BY <2>3, <3>1, <3>3, <3>4, SettleIInv DEF a, n
  <2> QED
    BY <1>5, <2>1, <2>2, <2>3 DEF nav_u, GoTo
<1>6. CASE nav_r
  BY <1>6, EditIInv DEF nav_r
<1>7. CASE nav_l
  BY <1>7, EditIInv DEF nav_l
<1>8. CASE nav_b
  BY <1>8, EditIInv DEF nav_b
<1>9. CASE AC
  BY <1>9, EditIInv DEF AC
<1>10. CASE \E w \in Words : Type(w)
  BY <1>10, EditIInv DEF Type
<1>11. CASE Shift
  <2>1. /\ form_list' = form_list /\ form_cursor' = form_cursor
        /\ form_display_position' = form_display_position
        /\ form_refresh_rows' = <<form_display_cursor, form_display_cursor + 1>>
    BY <1>11 DEF Shift, OneRow
  <2> QED
    BY <1>0, <2>1 DEF IInv, FormOK, RowsOK, SelectionShown, form_display_cursor, ActualRows
<1>12. CASE KeyOnLabel
  <2>1. CASE Settle(form_cursor, form_display_position, form_refresh_rows)
    BY <1>0, <2>1, SettleIInv
  <2>2. CASE UNCHANGED rowvars
    BY <2>2, <1>same
  <2> QED
    BY <1>12, <2>1, <2>2 DEF KeyOnLabel, rowvars
<1>13. CASE UNCHANGED formVars
  BY <1>13, <1>same DEF formVars, rowvars
<1> QED
  BY <1>1, <1>2, <1>3, <1>4, <1>5, <1>6, <1>7, <1>8, <1>9, <1>10, <1>11, <1>12, <1>13 DEF FormNext

(* Over any sequence of keys and applications the selected row is shown,   *)
(* the rows shown are rows of the form, and refresh() never asks for a row *)
(* the form does not have (form_buffer.py:18-55, 137-144;                  *)
(* form_buffer_uploader.py:11-14).                                         *)
THEOREM SelectionAlwaysShown == FormSpec => []SelectionShown
<1>1. IInv => SelectionShown
  BY DEF IInv
<1> QED
  BY <1>1, InitIInv, NextIInv, PTL DEF FormSpec
-----------------------------------------------------------------------------
(* What the display shows.                                                 *)
Screens == [0 .. FormRows - 1 -> [0 .. FormCols - 1 -> [ch : Char, inv : BOOLEAN]]]

FieldsOK ==
    /\ input_list \in [Field -> Seq(Char) \ {<<>>}]
    /\ input_cursor \in Nat /\ input_display_position \in Nat

Typed == IInv /\ FieldsOK

Painted(i) == form_refresh_rows[1] <= i /\ i < form_refresh_rows[2]
ShownRight(i) == \E q \in Positions(i) : Shows(i, q)

(* A row not selected shows a field from some place in its text whatever   *)
(* the position of the cursor was: from the end on all of them are alike.  *)
EntriesOK ==
    \A i \in 0 .. ActualRows(form_list) - 1 : \A q \in Nat :
        /\ Entry(i) \in Field \cup Label
        /\ RowText(i, q) \in Seq(Char)
        /\ i # form_display_cursor => \E p \in Positions(i) : p \in Nat /\ RowText(i, p) = RowText(i, q)

LEMMA PyIndexRange ==
    ASSUME NEW S, NEW t \in Seq(S), NEW n \in Int
    PROVE  PyIndex(t, n) \in 0 .. Len(t)
BY DEF PyIndex

LEMMA PySliceType ==
    ASSUME NEW S, NEW t \in Seq(S), NEW a \in Int, NEW b \in Int
    PROVE  /\ Slice(t, a, b) \in Seq(S)
           /\ Len(Slice(t, a, b)) = IF PyIndex(t, a) < PyIndex(t, b)
                                      THEN PyIndex(t, b) - PyIndex(t, a) ELSE 0
<1>1. PICK x \in 0 .. Len(t) : x = PyIndex(t, a)
  BY PyIndexRange
<1>2. PICK y \in 0 .. Len(t) : y = PyIndex(t, b)
  BY PyIndexRange
<1>3. /\ SubSeq(t, x + 1, y) \in Seq(S)
      /\ Len(SubSeq(t, x + 1, y)) = IF x + 1 <= y THEN y - (x + 1) + 1 ELSE 0
  OBVIOUS
<1> QED
  BY <1>1, <1>2, <1>3 DEF Slice

LEMMA EntriesTyped == Typed => EntriesOK
<1> SUFFICES ASSUME Typed, NEW i \in 0 .. ActualRows(form_list) - 1, NEW q \in Nat
             PROVE  /\ Entry(i) \in Field \cup Label
                    /\ RowText(i, q) \in Seq(Char)
                    /\ i # form_display_cursor =>
                         \E p \in Positions(i) : p \in Nat /\ RowText(i, p) = RowText(i, q)
  BY DEF EntriesOK
<1>0. input_cols \in Nat
  BY SizeAssumption DEF input_cols
<1>1. Entry(i) \in Field \cup Label
  <2>1. form_display_position + i + 1 \in 1 .. Len(form_list)
    BY ActualRowsBounds DEF Typed, IInv, FormOK, RowsOK, SelectionShown
  <2> QED
    BY <2>1, ElementOfSeq DEF Entry, Typed, IInv, FormOK
<1>2. CASE Entry(i) \in Field
  <2> DEFINE t == input_list[Entry(i)]
  <2>1. t \in Seq(Char)
    BY <1>2 DEF Typed, FieldsOK
  <2>2. ASSUME NEW p \in Nat
        PROVE  RowText(i, p) = Arrow \o Slice(t, p, p + input_cols)
    BY <1>2 DEF RowText
  <2>3. Slice(t, q, q + input_cols) \in Seq(Char)
    BY <1>0, <2>1, PySliceType
  <2> HIDE DEF t
  <2>4. RowText(i, q) \in Seq(Char)
    <3>1. Arrow \o Slice(t, q, q + input_cols) \in Seq(Char)
      BY <2>3, TextAssumption, ConcatProperties
    <3> QED
      BY <2>2, <3>1
  <2>5. ASSUME i # form_display_cursor
        PROVE  \E p \in Positions(i) : p \in Nat /\ RowText(i, p) = RowText(i, q)
    <3>1. Positions(i) = 0 .. Len(t)
      BY <1>2, <2>5 DEF Positions, t
    <3>2. CASE q <= Len(t)
      BY <2>1, <3>1, <3>2
    <3>3. CASE q > Len(t)
      <4>1. Len(t) \in 0 .. Len(t) /\ Len(t) \in Nat
        BY <2>1
      <4>2. /\ PyIndex(t, q) = Len(t) /\ PyIndex(t, q + input_cols) = Len(t)
            /\ PyIndex(t, Len(t)) = Len(t) /\ PyIndex(t, Len(t) + input_cols) = Len(t)
        BY <1>0, <3>3, <4>1 DEF PyIndex
      <4>3. Slice(t, q, q + input_cols) = Slice(t, Len(t), Len(t) + input_cols)
        BY <4>2 DEF Slice
      <4>4. RowText(i, Len(t)) = RowText(i, q)
        BY <2>2, <4>1, <4>3
      <4> QED
        BY <3>1, <4>1, <4>4
    <3> QED
      BY <2>1, <3>2, <3>3
  <2> QED
    BY <1>1, <2>4, <2>5
<1>3. CASE Entry(i) \in Label
  <2>1. Entry(i) \notin Field
    BY <1>3, ListAssumption
  <2>2. ASSUME NEW p PROVE RowText(i, p) = LabelText[Entry(i)]
    BY <2>1 DEF RowText
  <2>3. LabelText[Entry(i)] \in Seq(Char)
    BY <1>3, TextAssumption
  <2>4. i # form_display_cursor => 0 \in Positions(i)
    BY <2>1 DEF Positions
  <2> QED
    BY <1>1, <2>2, <2>3, <2>4
<1> QED
  BY <1>1, <1>2, <1>3

(* What refresh() writes are cells.                                        *)
LEMMA PaintedScreen ==
    ASSUME Typed', NEW scr \in Screens, RefreshForm(scr)
    PROVE  form_screen' \in Screens
<1>0. EntriesOK'
  BY EntriesTyped, PTL
<1> SUFFICES ASSUME NEW i \in 0 .. FormRows - 1, NEW k \in 0 .. FormCols - 1
             PROVE  form_screen'[i][k] \in [ch : Char, inv : BOOLEAN]
  <2>1. /\ DOMAIN form_screen' = 0 .. FormRows - 1
        /\ \A i \in 0 .. FormRows - 1 :
             form_screen'[i] = [k \in 0 .. FormCols - 1 |-> form_screen'[i][k]]
    BY DEF RefreshForm
  <2>2. form_screen' = [i \in 0 .. FormRows - 1 |-> [k \in 0 .. FormCols - 1 |-> form_screen'[i][k]]]
    BY <2>1 DEF RefreshForm
  <2> QED
    BY <2>2 DEF Screens
<1>1. CASE Painted(i)' /\ k < Written(i, input_display_position)'
  <2>1. form_screen'[i][k] = Cell(i, k, input_display_position)'
    BY <1>1 DEF RefreshForm, Painted
  <2>2. PICK t \in Seq(Char) : t = RowText(i, input_display_position)'
    <3>1. i \in 0 .. ActualRows(form_list)' - 1 /\ input_display_position' \in Nat
      BY <1>1, ActualRowsBounds, SMTT(30)
         DEF Painted, Typed, FieldsOK, IInv, FormOK, RowsOK, SelectionShown, ActualRows
    <3> QED
      BY <1>0, <3>1 DEF EntriesOK
  <2>3. Cell(i, k, input_display_position)'.ch =
          IF k < Len(t) THEN t[k + 1] ELSE Blank
    BY <2>2 DEF Cell
  <2>4. Cell(i, k, input_display_position)'.ch \in Char
    BY <2>3, TextAssumption
  <2>5. Cell(i, k, input_display_position)' \in [ch : Char, inv : BOOLEAN]
    BY <2>4 DEF Cell
  <2> QED
    BY <2>1, <2>5
<1>2. CASE ~(Painted(i)' /\ k < Written(i, input_display_position)')
  <2>1. form_screen'[i][k] = scr[i][k]
    BY <1>2 DEF RefreshForm, Painted
  <2> QED
    BY <2>1 DEF Screens
<1> QED
  BY <1>1, <1>2

(* A row that is painted shows its entry.                                  *)
LEMMA PaintedRow ==
    ASSUME Typed', NEW scr, RefreshForm(scr), NEW i \in 0 .. ActualRows(form_list') - 1,
           Painted(i)'
    PROVE  ShownRight(i)'
<1>0. EntriesOK'
  BY EntriesTyped, PTL
<1>1. i \in 0 .. FormRows - 1 /\ input_display_position' \in Nat
  BY ActualRowsBounds, SizeAssumption
     DEF Typed, FieldsOK, IInv, FormOK, ActualRows
<1>2. Shows(i, input_display_position)'
  <2> SUFFICES ASSUME NEW k \in 0 .. Written(i, input_display_position)' - 1, k < FormCols
               PROVE  form_screen'[i][k] = Cell(i, k, input_display_position)'
    BY DEF Shows
  <2>1. Written(i, input_display_position)' \in Nat
    <3>1. RowText(i, input_display_position)' \in Seq(Char)
      BY <1>0, <1>1 DEF EntriesOK, ActualRows
    <3> QED
      BY <3>1, SizeAssumption DEF Written
  <2>2. k \in 0 .. FormCols - 1 /\ k < Written(i, input_display_position)'
    BY <2>1, SizeAssumption
  <2> QED
    BY <1>1, <2>2 DEF RefreshForm, Painted
<1>3. CASE i = form_display_cursor'
  BY <1>2, <1>3 DEF ShownRight, Positions
<1>4. CASE i # form_display_cursor'
  <2>1. PICK p : /\ p \in Positions(i)'
                 /\ RowText(i, p)' = RowText(i, input_display_position)'
    BY <1>0, <1>1, <1>4 DEF EntriesOK, ActualRows
  <2>2. /\ Written(i, p)' = Written(i, input_display_position)'
        /\ \A k : Cell(i, k, p)' = Cell(i, k, input_display_position)'
    BY <1>4, <2>1 DEF Written, Cell
  <2>3. Shows(i, p)'
    BY <1>2, <2>2 DEF Shows
  <2> QED
    BY <2>1, <2>3 DEF ShownRight
<1> QED
  BY <1>3, <1>4

(* A row that is not painted goes on showing its entry, if that is what it *)
(* was, its text is, and the cursor neither was nor comes there.           *)
LEMMA KeptRow ==
    ASSUME form_list' = form_list, form_display_position' = form_display_position,
           NEW i, ShownRight(i), form_screen'[i] = form_screen[i],
           Entry(i) \in Field => input_list'[Entry(i)] = input_list[Entry(i)],
           i # form_display_cursor, i # form_display_cursor'
    PROVE  ShownRight(i)'
<1>1. Entry(i)' = Entry(i)
  BY DEF Entry
<1>2. Positions(i)' = Positions(i)
  BY <1>1 DEF Positions
<1>3. \A q : RowText(i, q)' = RowText(i, q)
  BY <1>1 DEF RowText
<1>4. \A q, k : Written(i, q)' = Written(i, q) /\ Cell(i, k, q)' = Cell(i, k, q)
  BY <1>3 DEF Written, Cell
<1>5. \A q : Shows(i, q) => Shows(i, q)'
  BY <1>4 DEF Shows
<1> QED
  BY <1>2, <1>5 DEF ShownRight

(* Refreshing leaves the rows alone that it does not paint.                *)
LEMMA UnpaintedRow ==
    ASSUME form_screen \in Screens, RefreshForm(form_screen), NEW i \in 0 .. FormRows - 1, ~Painted(i)'
    PROVE  form_screen'[i] = form_screen[i]
<1>1. form_screen'[i] = [k \in 0 .. FormCols - 1 |-> form_screen[i][k]]
  BY DEF RefreshForm, Painted
<1> QED
  BY <1>1 DEF Screens

(* rstrip() and the blank behind it make a text that is not empty, and     *)
(* what it takes away are blanks.                                          *)
LEMMA RstripLength ==
    ASSUME NEW t \in Seq(Char)
    PROVE  \E n \in 0 .. Len(t) :
              /\ Rstrip(t) = SubSeq(t, 1, n)
              /\ OnlyBlanksAfter(t, n)
              /\ n = 0 \/ t[n] # Blank
<1> DEFINE R == OpToRel(<, Nat)
           B == {n \in 0 .. Len(t) : OnlyBlanksAfter(t, n)}
           Good(n) == OnlyBlanksAfter(t, n) /\ (n = 0 \/ t[n] # Blank)
<1>1. IsWellFoundedOn(R, Nat)
  BY NatLessThanWellFounded
<1>2. R = {ss \in Nat \X Nat : ss[1] < ss[2]}
  BY DEF OpToRel
<1>3. Len(t) \in B /\ B \subseteq Nat
  BY DEF OnlyBlanksAfter
<1>4. PICK x \in B : \A y \in B : ~(<<y, x>> \in R)
  <2> HIDE DEF R, B
  <2> QED
    BY <1>1, <1>3, WFMin
<1>5. x \in 0 .. Len(t) /\ OnlyBlanksAfter(t, x)
  BY <1>4
<1> HIDE DEF R, B
<1>6. x = 0 \/ t[x] # Blank
  <2> SUFFICES ASSUME x # 0, t[x] = Blank PROVE FALSE
    OBVIOUS
  <2>1. x - 1 \in 0 .. Len(t) /\ x \in Nat /\ x - 1 \in Nat /\ x - 1 < x
    BY <1>5
  <2>2. \A m \in (x - 1) + 1 .. Len(t) : m = x \/ m \in x + 1 .. Len(t)
    BY <2>1
  <2>3. x - 1 \in B
    BY <1>5, <2>1, <2>2 DEF OnlyBlanksAfter, B
  <2>4. <<x - 1, x>> \in R
    BY <1>2, <2>1
  <2> QED
    BY <1>4, <2>3, <2>4
<1>7. \E n \in 0 .. Len(t) : Good(n)
  BY <1>5, <1>6
<1> DEFINE c == CHOOSE n \in 0 .. Len(t) : Good(n)
<1>8. c \in 0 .. Len(t) /\ Good(c)
  BY <1>7, Zenon
<1>9. Rstrip(t) = SubSeq(t, 1, c)
  BY DEF Rstrip
<1> QED
  BY <1>8, <1>9

LEMMA TrimmedType ==
    ASSUME NEW t \in Seq(Char)
    PROVE  Trimmed(t) \in Seq(Char) \ {<<>>} /\ Len(Trimmed(t)) \in Nat \ {0}
<1>1. PICK n \in 0 .. Len(t) : Rstrip(t) = SubSeq(t, 1, n)
  BY RstripLength
<1>2. Rstrip(t) \in Seq(Char)
  BY <1>1
<1>3. /\ Append(Rstrip(t), Blank) \in Seq(Char)
      /\ Len(Append(Rstrip(t), Blank)) \in Nat \ {0}
  BY <1>2, TextAssumption
<1> QED
  BY <1>3 DEF Trimmed

(* What a key in a field makes of the texts.                               *)
LEMMA EditFields ==
    ASSUME Typed, NEW t \in Seq(Char), NEW c \in Nat, NEW p \in Nat, Edit(t, c, p)
    PROVE  /\ FieldsOK'
           /\ \A f \in Field : f # Selected => input_list'[f] = input_list[f]
<1>1. Trimmed(t) \in Seq(Char) \ {<<>>}
  BY TrimmedType
<1>2. input_list' = [input_list EXCEPT ![Selected] = Trimmed(t)]
  BY DEF Edit
<1>3. input_cursor' \in Nat /\ input_display_position' \in Nat
  BY DEF Edit
<1>4. input_list \in [Field -> Seq(Char) \ {<<>>}]
  BY DEF Typed, FieldsOK
<1> QED
  BY <1>1, <1>2, <1>3, <1>4 DEF FieldsOK

(* Where "nav_l" goes, what "nav_b" deletes and what is typed.             *)
LEMMA FieldTypes ==
    ASSUME Typed, OnField
    PROVE  /\ Text \in Seq(Char) /\ Len(Text) \in Nat \ {0}
           /\ CursorLeft \in Nat /\ PositionLeft \in Nat /\ Deleted \in Seq(Char)
           /\ \A t \in Seq(Char) : PositionAfter(t, PositionLeft) \in Nat
           /\ \A w \in Words : Inserted(w) \in Seq(Char)
           /\ \A n \in Nat : PositionTyped(n) \in Nat
<1>0. input_cols \in Nat \ {0} /\ input_cursor \in Nat /\ input_display_position \in Nat
  BY SizeAssumption DEF input_cols, Typed, FieldsOK
<1>1. Text \in Seq(Char) /\ Len(Text) \in Nat \ {0}
  <2>1. Text \in Seq(Char) /\ Text # <<>>
    BY DEF OnField, Text, Typed, FieldsOK
  <2> QED
    BY <2>1, EmptySeq
<1>2. CursorLeft \in Nat
  BY <1>0, <1>1 DEF CursorLeft
<1>3. LastPosition \in Nat
  BY <1>0, <1>1 DEF LastPosition
<1>4. PositionLeft \in Nat
  BY <1>0, <1>3 DEF PositionLeft
<1>5. ASSUME NEW t \in Seq(Char) PROVE PositionAfter(t, PositionLeft) \in Nat
  BY <1>0, <1>4 DEF PositionAfter
<1>6. ASSUME NEW a \in Nat, NEW b \in Nat PROVE Slice(Text, a, b) \in Seq(Char)
  BY <1>1, PySliceType
<1>7. Deleted \in Seq(Char)
  <2>1. /\ Slice(Text, 0, CursorLeft) \in Seq(Char)
        /\ Slice(Text, CursorLeft + 1, Len(Text)) \in Seq(Char)
    <3>1. 0 \in Nat /\ CursorLeft + 1 \in Nat /\ Len(Text) \in Nat
      BY <1>1, <1>2
    <3> QED
      BY <1>2, <1>6, <3>1
  <2> QED
    BY <2>1, ConcatProperties DEF Deleted
<1>8. ASSUME NEW w \in Words PROVE Inserted(w) \in Seq(Char)
  <2>1. /\ Slice(Text, 0, input_cursor) \in Seq(Char)
        /\ Slice(Text, input_cursor, Len(Text)) \in Seq(Char)
    BY <1>0, <1>1, <1>6
  <2>2. w \in Seq(Char)
    BY TextAssumption
  <2> QED
    BY <2>1, <2>2, ConcatProperties DEF Inserted
<1>9. ASSUME NEW n \in Nat PROVE PositionTyped(n) \in Nat
  BY <1>0, <1>9 DEF PositionTyped
<1> QED
  BY <1>1, <1>2, <1>4, <1>5, <1>7, <1>8, <1>9

(* A form that is painted as a whole is shown.                             *)
LEMMA AllShown ==
    ASSUME Typed', NEW scr, RefreshForm(scr), form_refresh_rows' = AllRows(form_list')
    PROVE  FormShown'
<1> SUFFICES ASSUME NEW i \in 0 .. ActualRows(form_list') - 1
             PROVE  ShownRight(i)'
  BY DEF FormShown, ShownRight, ActualRows
<1>1. ActualRows(form_list') \in Nat
  BY ActualRowsBounds DEF Typed, IInv, FormOK
<1>2. Painted(i)'
  BY <1>1 DEF Painted, AllRows
<1> QED
  BY <1>2, PaintedRow

(* So is one of which the rows that change are painted.                    *)
LEMMA RowsShown ==
    ASSUME Typed, Typed', form_screen \in Screens, FormShown, app = "open", RefreshForm(form_screen),
           form_list' = form_list, form_display_position' = form_display_position,
           \A i \in 0 .. ActualRows(form_list) - 1 :
              \/ Painted(i)'
              \/ /\ i # form_display_cursor /\ i # form_display_cursor'
                 /\ Entry(i) \in Field => input_list'[Entry(i)] = input_list[Entry(i)]
    PROVE  FormShown'
<1> SUFFICES ASSUME NEW i \in 0 .. ActualRows(form_list') - 1
             PROVE  ShownRight(i)'
  BY DEF FormShown, ShownRight, ActualRows
<1>1. CASE Painted(i)'
  BY <1>1, PaintedRow
<1>2. CASE ~Painted(i)'
  <2>1. i \in 0 .. FormRows - 1 /\ ShownRight(i)
    BY ActualRowsBounds, SizeAssumption
       DEF FormShown, ShownRight, Typed, IInv, FormOK, ActualRows
  <2>2. form_screen'[i] = form_screen[i]
    BY <1>2, <2>1, UnpaintedRow
  <2> QED
    BY <1>2, <2>1, <2>2, KeptRow
<1> QED
  BY <1>1, <1>2

(* The end of a key paints the whole form, or the rows it chose.           *)
LEMMA SettleRows ==
    ASSUME NEW mc, NEW mp, NEW rows, Settle(mc, mp, rows)
    PROVE  \/ form_refresh_rows' = AllRows(form_list')
           \/ /\ form_list' = form_list
              /\ form_cursor' = mc /\ form_display_position' = mp
              /\ form_refresh_rows' = rows
BY DEF Settle, UpdateForm

ScreenOK == form_screen \in Screens /\ app \in {"open", "closed"} /\ FormShown

FormInv == Typed /\ ScreenOK

(* A key that moves inside a field or changes its text paints the row.     *)
LEMMA EditShown ==
    ASSUME FormInv, Typed', NEW t \in Seq(Char), NEW c \in Nat, NEW p \in Nat,
           Edit(t, c, p), RefreshForm(form_screen),
           \/ form_refresh_rows' = AllRows(form_list')
           \/ /\ form_list' = form_list
              /\ form_cursor' = form_cursor
              /\ form_display_position' = form_display_position
              /\ form_refresh_rows' = OneRow(form_display_cursor)
    PROVE  ScreenOK'
<1>1. form_screen' \in Screens /\ app' \in {"open", "closed"} /\ app = "open"
  BY PaintedScreen DEF FormInv, ScreenOK, Edit
<1>2. CASE form_refresh_rows' = AllRows(form_list')
  BY <1>1, <1>2, AllShown DEF ScreenOK
<1>3. CASE /\ form_list' = form_list
           /\ form_cursor' = form_cursor
           /\ form_display_position' = form_display_position
           /\ form_refresh_rows' = OneRow(form_display_cursor)
  <2>1. ASSUME NEW i \in 0 .. ActualRows(form_list) - 1
        PROVE  \/ Painted(i)'
               \/ /\ i # form_display_cursor /\ i # form_display_cursor'
                  /\ Entry(i) \in Field => input_list'[Entry(i)] = input_list[Entry(i)]
    <3>1. CASE i = form_display_cursor
      BY <1>3, <3>1 DEF Painted, OneRow, FormInv, Typed, IInv, RowsOK, form_display_cursor
    <3>2. CASE i # form_display_cursor
      <4>1. form_display_cursor' = form_display_cursor
        BY <1>3 DEF form_display_cursor
      <4>2. ASSUME Entry(i) \in Field PROVE Entry(i) # Selected
        <5>1. /\ form_display_position + i + 1 \in 1 .. Len(form_list)
              /\ form_cursor + 1 \in 1 .. Len(form_list)
              /\ form_display_position + i + 1 # form_cursor + 1
          <6>1. /\ Len(form_list) \in Nat /\ ActualRows(form_list) \in Nat
                /\ form_cursor \in Int /\ form_display_position \in Nat
                /\ form_cursor - form_display_position \in 0 .. ActualRows(form_list) - 1
                /\ form_display_position + ActualRows(form_list) <= Len(form_list)
            <7>1. Len(form_list) \in Nat \ {0} /\ ActualRows(form_list) \in 1 .. Len(form_list)
              BY ActualRowsBounds DEF FormInv, Typed, IInv, FormOK
            <7>2. ActualRows(form_list) \in Nat
              BY <7>1
            <7> QED
              BY <7>1, <7>2 DEF FormInv, Typed, IInv, RowsOK, SelectionShown, form_display_cursor
          <6> QED
            BY <3>2, <6>1 DEF form_display_cursor
        <5> QED
          BY <4>2, <5>1 DEF Entry, Selected, FormInv, Typed, IInv, FormOK, FieldsOnce
      <4>3. Entry(i) \in Field => input_list'[Entry(i)] = input_list[Entry(i)]
        BY <4>2, EditFields DEF FormInv
      <4> QED
        BY <3>2, <4>1, <4>3
    <3> QED
      BY <3>1, <3>2
  <2> QED
    BY <1>1, <1>3, <2>1, RowsShown DEF FormInv, ScreenOK
<1> QED
  BY <1>2, <1>3

(* "nav_d" and "nav_u" paint the row they leave and the one they reach.    *)
LEMMA MoveShown ==
    ASSUME FormInv, Typed', NEW mc, NEW mp, NEW rows, GoTo(mc, mp, rows),
           \/ rows = AllRows(form_list)
           \/ /\ mp = form_display_position
              /\ rows[1] <= form_display_cursor /\ form_display_cursor < rows[2]
              /\ rows[1] <= mc - mp /\ mc - mp < rows[2]
    PROVE  ScreenOK'
<1>1. form_screen' \in Screens /\ app' \in {"open", "closed"} /\ app = "open"
  BY PaintedScreen DEF FormInv, ScreenOK, GoTo
<1>2. CASE form_refresh_rows' = AllRows(form_list')
  BY <1>1, <1>2, AllShown DEF ScreenOK, GoTo
<1>3. CASE /\ form_list' = form_list
           /\ form_cursor' = mc /\ form_display_position' = mp
           /\ form_refresh_rows' = rows
           /\ rows # AllRows(form_list)
  <2>1. \A i \in 0 .. ActualRows(form_list) - 1 :
           i \in {form_display_cursor, form_display_cursor'} => Painted(i)'
    BY <1>3 DEF Painted, form_display_cursor
  <2>2. input_list' = input_list
    BY DEF GoTo
  <2> QED
    BY <1>1, <1>3, <2>1, <2>2, RowsShown DEF FormInv, ScreenOK, GoTo
<1> QED
  BY <1>2, <1>3, SettleRows DEF GoTo

(* Init and every step of the form preserve the invariant.                 *)
LEMMA InitFormInv == FormInit => FormInv
<1> SUFFICES ASSUME FormInit PROVE FormInv
  OBVIOUS
<1>1. IInv /\ FieldsOK
  BY InitIInv, TextAssumption DEF FormInit, FieldsOK
<1>2. Cleared \in Screens
  BY TextAssumption DEF Cleared, Dark, Screens
<1> QED
  BY <1>1, <1>2 DEF FormInit, FormInv, Typed, ScreenOK, FormShown

LEMMA NextFormInv == FormInv /\ [FormNext]_formVars => FormInv'
<1> SUFFICES ASSUME FormInv, [FormNext]_formVars PROVE FormInv'
  OBVIOUS
<1>0. IInv /\ IInv' /\ Typed /\ FieldsOK /\ ScreenOK
  BY NextIInv DEF FormInv, Typed
<1>dark. Cleared \in Screens
  BY TextAssumption DEF Cleared, Dark, Screens
<1>edit. ASSUME NEW t \in Seq(Char), NEW c \in Nat, NEW p \in Nat, Edit(t, c, p),
                RefreshForm(form_screen),
                \/ form_refresh_rows' = AllRows(form_list')
                \/ /\ form_list' = form_list
                   /\ form_cursor' = form_cursor
                   /\ form_display_position' = form_display_position
                   /\ form_refresh_rows' = OneRow(form_display_cursor)
         PROVE  FormInv'
  <2>1. Typed'
    BY <1>0, <1>edit, EditFields DEF Typed
  <2> QED
    BY <1>edit, <2>1, EditShown DEF FormInv
<1>row. ASSUME NEW t \in Seq(Char), NEW c \in Nat, NEW p \in Nat, EditRow(t, c, p)
        PROVE  FormInv'
  BY <1>edit, <1>row, SettleRows DEF EditRow
<1>left. ASSUME OnField PROVE /\ CursorLeft \in Nat /\ PositionLeft \in Nat
                              /\ Text \in Seq(Char) /\ Deleted \in Seq(Char)
                              /\ PositionAfter(Deleted, PositionLeft) \in Nat
  BY <1>0, <1>left, FieldTypes
<1>goto. ASSUME NEW mc, NEW mp, NEW rows, GoTo(mc, mp, rows),
                \/ rows = AllRows(form_list)
                \/ /\ mp = form_display_position
                   /\ rows[1] <= form_display_cursor /\ form_display_cursor < rows[2]
                   /\ rows[1] <= mc - mp /\ mc - mp < rows[2]
         PROVE  FormInv'
  <2>1. Typed'
    BY <1>0, <1>goto DEF Typed, FieldsOK, GoTo
  <2> QED
    BY <1>goto, <2>1, MoveShown DEF FormInv
<1>num. form_display_cursor \in Nat /\ form_cursor \in Int /\ form_display_position \in Nat
  BY <1>0, ActualRowsBounds DEF IInv, RowsOK, SelectionShown, form_display_cursor, FormOK
<1>1. ASSUME NEW list \in FormLists, NEW texts \in FirstTexts, OpenForm(list, texts)
      PROVE  FormInv'
  <2>1. Typed'
    BY <1>0, <1>1, TextAssumption DEF Typed, FieldsOK, OpenForm
  <2>2. form_screen' \in Screens
    BY <1>1, <1>dark, <2>1, PaintedScreen DEF OpenForm
  <2>3. FormShown'
    BY <1>1, <2>1, AllShown DEF OpenForm, UpdateForm
  <2> QED
    BY <1>1, <2>1, <2>2, <2>3 DEF FormInv, ScreenOK, OpenForm
<1>2. CASE Leave
  BY <1>0, <1>2 DEF Leave, FormInv, Typed, FieldsOK, ScreenOK, FormShown
<1>3. ASSUME NEW list \in FormLists, OkForm(list) PROVE FormInv'
  <2>1. Typed'
    BY <1>0, <1>3 DEF Typed, FieldsOK, OkForm
  <2>2. PICK scr \in {form_screen, Cleared} : RefreshForm(scr)
    BY <1>3 DEF OkForm
  <2>3. form_screen' \in Screens
    BY <1>0, <1>dark, <2>1, <2>2, PaintedScreen DEF ScreenOK
  <2>4. FormShown'
    BY <1>3, <2>1, <2>2, AllShown DEF OkForm, UpdateForm
  <2> QED
    BY <1>0, <1>3, <2>1, <2>3, <2>4 DEF FormInv, ScreenOK, OkForm
<1>4. CASE nav_d
  <2>1. /\ TwoFormRows(form_display_cursor)[1] <= form_display_cursor
        /\ form_display_cursor < TwoFormRows(form_display_cursor)[2]
        /\ TwoFormRows(form_display_cursor)[1] <= (form_cursor + 1) - form_display_position
        /\ (form_cursor + 1) - form_display_position < TwoFormRows(form_display_cursor)[2]
    BY <1>num DEF TwoFormRows, form_display_cursor
  <2> QED
    BY <1>4, <1>goto, <2>1 DEF nav_d
<1>5. CASE nav_u
  <2>1. /\ TwoFormRows(form_display_cursor - 1)[1] <= form_display_cursor
        /\ form_display_cursor < TwoFormRows(form_display_cursor - 1)[2]
        /\ TwoFormRows(form_display_cursor - 1)[1] <= (form_cursor - 1) - form_display_position
        /\ (form_cursor - 1) - form_display_position < TwoFormRows(form_display_cursor - 1)[2]
    BY <1>num DEF TwoFormRows, form_display_cursor
  <2> QED
    BY <1>5, <1>goto, <2>1 DEF nav_u
<1>6. CASE nav_r
  <2>1. OnField /\ input_cursor + 1 \in Nat /\ input_display_position + 1 \in Nat
        /\ input_display_position \in Nat
    BY <1>0, <1>6 DEF FieldsOK, nav_r
  <2> QED
    BY <1>6, <1>left, <1>row, <2>1 DEF nav_r
<1>7. CASE nav_l
  BY <1>7, <1>left, <1>row DEF nav_l
<1>8. CASE nav_b
  BY <1>8, <1>left, <1>row DEF nav_b
<1>9. CASE AC
  <2>1. <<Blank>> \in Seq(Char)
    BY TextAssumption
  <2> QED
    BY <1>9, <1>row, <2>1 DEF AC
<1>10. ASSUME NEW w \in Words, Type(w) PROVE FormInv'
  <2>1. OnField /\ Len(w) \in Nat /\ input_cursor + Len(w) \in Nat
    BY <1>0, <1>10, TextAssumption DEF FieldsOK, Type
  <2>2. Inserted(w) \in Seq(Char) /\ PositionTyped(Len(w)) \in Nat
    BY <1>0, <2>1, FieldTypes
  <2> QED
    BY <1>10, <1>row, <2>1, <2>2 DEF Type
<1>11. CASE Shift
  <2>1. OnField
    BY <1>11 DEF Shift, Edit
  <2>2. Text \in Seq(Char) /\ PositionTyped(0) \in Nat /\ input_cursor \in Nat
    BY <1>0, <2>1, FieldTypes DEF FieldsOK
  <2> QED
    BY <1>11, <1>edit, <2>2 DEF Shift
<1>12. CASE KeyOnLabel
  <2>0. /\ input_list' = input_list /\ input_cursor' = input_cursor
        /\ input_display_position' = input_display_position
        /\ app' = app /\ app = "open" /\ RefreshForm(form_screen)
    BY <1>12 DEF KeyOnLabel
  <2>1. Typed'
    BY <1>0, <2>0 DEF Typed, FieldsOK
  <2>2. form_screen' \in Screens
    BY <1>0, <2>0, <2>1, PaintedScreen DEF ScreenOK
  <2>3. \/ form_refresh_rows' = AllRows(form_list')
        \/ UNCHANGED <<form_list, form_cursor, form_display_position, form_refresh_rows>>
    BY <1>12, SettleRows DEF KeyOnLabel
  <2>4. CASE form_refresh_rows' = AllRows(form_list')
    BY <1>0, <2>0, <2>1, <2>2, <2>4, AllShown DEF FormInv, ScreenOK
  <2>5. CASE UNCHANGED <<form_list, form_cursor, form_display_position, form_refresh_rows>>
    <3>1. ASSUME NEW i \in 0 .. ActualRows(form_list') - 1 PROVE ShownRight(i)'
      <4>1. CASE Painted(i)'
        BY <2>0, <2>1, <4>1, PaintedRow
      <4>2. CASE ~Painted(i)'
        <5>1. i \in 0 .. FormRows - 1 /\ ShownRight(i)
          BY <1>0, <2>0, <2>5, ActualRowsBounds, SizeAssumption
             DEF ScreenOK, FormShown, ShownRight, Typed, IInv, FormOK, ActualRows
        <5>2. form_screen'[i] = form_screen[i]
          BY <1>0, <2>0, <4>2, <5>1, UnpaintedRow DEF ScreenOK
        <5>3. \A q : RowText(i, q)' = RowText(i, q)
          BY <2>0, <2>5 DEF RowText, Entry
        <5>4. \A q : Written(i, q)' = Written(i, q)
          BY <5>3 DEF Written
        <5>5. \A k, q : Cell(i, k, q)' = Cell(i, k, q)
          BY ONLY <2>0, <2>5, <5>3 DEF Cell, Entry, form_display_cursor
        <5>6. Positions(i)' = Positions(i)
          BY ONLY <2>0, <2>5 DEF Positions, Entry, form_display_cursor
        <5> QED
          BY ONLY <5>1, <5>2, <5>4, <5>5, <5>6 DEF ShownRight, Shows
      <4> QED
        BY <4>1, <4>2
    <3>2. FormShown'
      BY <3>1 DEF FormShown, ShownRight, ActualRows
    <3> QED
      BY <1>0, <2>0, <2>1, <2>2, <3>2 DEF FormInv, ScreenOK
  <2> QED
    BY <2>3, <2>4, <2>5
<1>13. CASE UNCHANGED formVars
  <2>1. Typed' /\ form_screen' \in Screens /\ app' \in {"open", "closed"}
    BY <1>0, <1>13 DEF formVars, Typed, FieldsOK, ScreenOK
  <2>2. ASSUME NEW i PROVE ShownRight(i)' <=> ShownRight(i)
    BY <1>13 DEF formVars, ShownRight, Positions, Shows, Written, Cell, RowText, Entry,
                 form_display_cursor
  <2>3. FormShown'
    BY <1>0, <1>13, <2>2 DEF formVars, ScreenOK, FormShown, ShownRight, ActualRows
  <2> QED
    BY <2>1, <2>3 DEF FormInv, ScreenOK
<1> QED
  BY <1>1, <1>2, <1>3, <1>4, <1>5, <1>6, <1>7, <1>8, <1>9, <1>10, <1>11, <1>12, <1>13 DEF FormNext

(* Over any sequence of keys, forms and applications the selected row is   *)
(* shown and every row of the display shows its label or the present text  *)
(* of its field, although a key repaints one or two rows only              *)
(* (form_buffer.py:18-108, form_buffer_uploader.py:8-47).                  *)
THEOREM FormAlwaysFaithful == FormSpec => []FormFaithful
<1>1. FormInv => FormFaithful
  <2> SUFFICES ASSUME FormInv PROVE FormFaithful
    OBVIOUS
  <2>1. /\ Len(form_list) \in Nat \ {0} /\ ActualRows(form_list) \in 1 .. Len(form_list)
        /\ ActualRows(form_list) <= FormRows
    BY ActualRowsBounds, SizeAssumption DEF FormInv, Typed, IInv, FormOK, ActualRows
  <2>2. form_cursor \in 0 .. Len(form_list) - 1
    BY <2>1 DEF FormInv, Typed, IInv, RowsOK, SelectionShown, form_display_cursor
  <2>3. form_refresh_rows \in (0 .. FormRows) \X (0 .. FormRows)
    BY <2>1, SizeAssumption DEF FormInv, Typed, IInv, RowsOK, SelectionShown
  <2>4. FormTypeOK
    BY <2>2, <2>3
       DEF FormTypeOK, FormInv, Typed, IInv, FormOK, RowsOK, FieldsOK, ScreenOK, Screens
  <2> QED
    BY <2>4 DEF FormFaithful, FormInv, Typed, IInv, ScreenOK
<1> QED
  BY <1>1, InitFormInv, NextFormInv, PTL DEF FormSpec
-----------------------------------------------------------------------------
(* The cursor inside a field.  No text has two blanks at its end once a    *)
(* key has trimmed it, so a key that only moves the cursor shortens none.  *)
NoLoss == \A f \in Field : ~LosesBlank(input_list[f])

(* The texts the applications put into the fields end in one blank at most.*)
TextsTrimmed ==
    \A t \in FirstTexts \cup {InitialTexts} : \A f \in Field : ~LosesBlank(t[f])

LEMMA TrimmedTwice ==
    ASSUME NEW t \in Seq(Char)
    PROVE  ~LosesBlank(Trimmed(t))
<1> DEFINE s == Trimmed(t)
<1>1. PICK n \in 0 .. Len(t) : /\ Rstrip(t) = SubSeq(t, 1, n)
                               /\ n = 0 \/ t[n] # Blank
  BY RstripLength
<1>2. /\ Rstrip(t) \in Seq(Char) /\ Len(Rstrip(t)) = n
      /\ \A i \in 1 .. n : Rstrip(t)[i] = t[i]
  BY <1>1
<1>3. /\ s \in Seq(Char) /\ Len(s) = n + 1
      /\ \A i \in 1 .. n : s[i] = t[i]
  BY <1>2, TextAssumption DEF Trimmed
<1> HIDE DEF s
<1>4. PICK m \in 0 .. Len(s) : Rstrip(s) = SubSeq(s, 1, m) /\ OnlyBlanksAfter(s, m)
  BY <1>3, RstripLength
<1>5. m >= n
  <2> SUFFICES ASSUME m < n PROVE FALSE
    BY <1>3, <1>4
  <2>1. n \in m + 1 .. Len(s) /\ n \in 1 .. n
    BY <1>3, <1>4
  <2>2. s[n] = Blank
    BY <1>4, <2>1 DEF OnlyBlanksAfter
  <2> QED
    BY <1>1, <1>3, <2>1, <2>2
<1>6. Rstrip(s) \in Seq(Char) /\ Len(Rstrip(s)) = m
  BY <1>3, <1>4
<1>7. Len(Trimmed(s)) = m + 1
  BY <1>6, TextAssumption DEF Trimmed
<1> QED
  BY <1>3, <1>4, <1>5, <1>7 DEF LosesBlank, s

(* The lengths of the text of a field after a key.                         *)
LEMMA FieldLengths ==
    ASSUME Typed, OnField, CursorInField
    PROVE  /\ CursorLeft < Len(Text)
           /\ CursorLeft # Len(Text) - 1 => Len(Deleted) = Len(Text) - 1
           /\ \A w \in Words : Len(Inserted(w)) = Len(Text) + Len(w)
<1> DEFINE n == Len(Text)
<1>0. /\ Text \in Seq(Char) /\ n \in Nat \ {0} /\ CursorLeft \in Nat
      /\ input_cursor \in Nat /\ input_cursor < n
  BY FieldTypes DEF Typed, FieldsOK, CursorInField
<1>1. CursorLeft < n
  BY <1>0 DEF CursorLeft
<1>2. ASSUME NEW a \in 0 .. n
      PROVE  /\ Slice(Text, 0, a) \in Seq(Char) /\ Len(Slice(Text, 0, a)) = a
             /\ Slice(Text, a, n) \in Seq(Char) /\ Len(Slice(Text, a, n)) = n - a
  <2> HIDE DEF n
  <2>1. a \in Int /\ n \in Int /\ 0 \in Int
    BY <1>0
  <2>2. PyIndex(Text, 0) = 0 /\ PyIndex(Text, a) = a /\ PyIndex(Text, n) = n
    BY <1>0, <1>2 DEF PyIndex, n
  <2> QED
    BY <1>0, <1>2, <2>1, <2>2, PySliceType, SMTT(30)
<1>3. ASSUME CursorLeft # n - 1 PROVE Len(Deleted) = n - 1
  <2>1. CursorLeft \in 0 .. n /\ CursorLeft + 1 \in 0 .. n
    BY <1>0, <1>1
  <2> QED
    BY <1>0, <1>2, <2>1, ConcatProperties, SMTT(30) DEF Deleted
<1>4. ASSUME NEW w \in Words PROVE Len(Inserted(w)) = n + Len(w)
  <2>1. input_cursor \in 0 .. n /\ w \in Seq(Char)
    BY <1>0, TextAssumption
  <2>2. PICK u \in Seq(Char) : u = Slice(Text, 0, input_cursor) /\ Len(u) = input_cursor
    BY <1>2, <2>1
  <2>3. PICK v \in Seq(Char) : v = Slice(Text, input_cursor, n) /\ Len(v) = n - input_cursor
    BY <1>2, <2>1
  <2>4. u \o w \in Seq(Char) /\ Len(u \o w) = input_cursor + Len(w)
    BY <2>1, <2>2, ConcatProperties
  <2>5. Len((u \o w) \o v) = (input_cursor + Len(w)) + (n - input_cursor)
    BY <2>3, <2>4, ConcatProperties
  <2>6. Inserted(w) = (u \o w) \o v /\ Len(w) \in Nat
    BY <2>1, <2>2, <2>3 DEF Inserted
  <2>7. \A a, b, d \in Int : (a + b) + (d - a) = d + b
    OBVIOUS
  <2>8. input_cursor \in Int /\ Len(w) \in Int /\ n \in Int
    BY <1>0, <2>6
  <2> HIDE DEF n
  <2> QED
    BY <2>5, <2>6, <2>7, <2>8
<1> QED
  BY <1>1, <1>3, <1>4

(* A key that leaves the cursor inside of the text it makes and of the     *)
(* cells it shows.                                                         *)
LEMMA EditInField ==
    ASSUME Typed, NEW t \in Seq(Char), NEW c \in Nat, NEW p \in Nat, Edit(t, c, p),
           p <= c, c < p + input_cols, c < Len(Trimmed(t)),
           \/ Selected' \in Label
           \/ Selected' = Selected
    PROVE  CursorInField'
<1>1. CASE Selected' \in Label
  BY <1>1, ListAssumption DEF CursorInField, OnField
<1>2. CASE Selected' = Selected
  <2>1. Text' = Trimmed(t)
    BY <1>2 DEF Edit, Text, OnField, Typed, FieldsOK
  <2> QED
    BY <2>1 DEF Edit, CursorInField
<1> QED
  BY <1>1, <1>2

LEMMA NoLossNext ==
    ASSUME TextsTrimmed, FormInv, NoLoss, [FormNext]_formVars
    PROVE  NoLoss'
<1>1. ASSUME NEW t \in Seq(Char), NEW c, NEW p, Edit(t, c, p) PROVE NoLoss'
  <2>1. ~LosesBlank(Trimmed(t))
    BY TrimmedTwice
  <2>2. input_list' = [input_list EXCEPT ![Selected] = Trimmed(t)]
    BY <1>1 DEF Edit
  <2>3. ASSUME NEW f \in Field
        PROVE  input_list'[f] = input_list[f] \/ input_list'[f] = Trimmed(t)
    BY <2>2 DEF FormInv, Typed, FieldsOK
  <2> QED
    BY <2>1, <2>3 DEF NoLoss
<1>2. ASSUME input_list' = input_list PROVE NoLoss'
  BY <1>2 DEF NoLoss
<1>3. ASSUME OnField PROVE /\ Text \in Seq(Char) /\ Deleted \in Seq(Char)
                           /\ \A w \in Words : Inserted(w) \in Seq(Char)
  BY <1>3, FieldTypes DEF FormInv
<1>4. CASE \E list \in FormLists, texts \in FirstTexts : OpenForm(list, texts)
  BY <1>4 DEF OpenForm, NoLoss, TextsTrimmed
<1>5. CASE Leave \/ (\E list \in FormLists : OkForm(list)) \/ nav_d \/ nav_u \/ KeyOnLabel
  BY <1>2, <1>5 DEF Leave, OkForm, nav_d, nav_u, GoTo, KeyOnLabel
<1>6. CASE nav_r \/ nav_l \/ nav_b
  BY <1>1, <1>3, <1>6 DEF nav_r, nav_l, nav_b, EditRow
<1>7. CASE AC
  <2>1. <<Blank>> \in Seq(Char)
    BY TextAssumption
  <2> QED
    BY <1>1, <1>7, <2>1 DEF AC, EditRow
<1>8. CASE \E w \in Words : Type(w)
  BY <1>1, <1>3, <1>8 DEF Type, EditRow
<1>9. CASE Shift
  BY <1>1, <1>3, <1>9 DEF Shift, Edit
<1>10. CASE UNCHANGED formVars
  BY <1>2, <1>10 DEF formVars
<1> QED
  BY <1>4, <1>5, <1>6, <1>7, <1>8, <1>9, <1>10 DEF FormNext

(* Where the cursor is after a step.                                       *)
LEMMA CursorNext ==
    ASSUME FormInv, NoLoss, CursorInField, [FormNext]_formVars
    PROVE  \/ CursorInField'
           \/ nav_b /\ LosesBlank(Deleted)
           \/ \E w \in Words : Type(w) /\ LosesBlank(Inserted(w))
<1>0. /\ Typed /\ IInv' /\ input_cols \in Nat \ {0}
      /\ input_cursor \in Nat /\ input_display_position \in Nat
  BY NextIInv, SizeAssumption DEF FormInv, Typed, FieldsOK, input_cols
<1>label. ASSUME Selected' \in Label PROVE CursorInField'
  BY <1>label, ListAssumption DEF CursorInField, OnField
<1>first. ASSUME NEW list, UpdateForm(list) PROVE Selected' \in Label
  BY <1>0, <1>first DEF UpdateForm, Selected, IInv, FormOK
<1>settle. ASSUME NEW rows, Settle(form_cursor, form_display_position, rows)
           PROVE  Selected' \in Label \/ Selected' = Selected
  BY <1>first, <1>settle DEF Settle, Selected
<1>same. ASSUME UNCHANGED <<input_list, input_cursor, input_display_position>>,
                Selected' \in Label \/ Selected' = Selected
         PROVE  CursorInField'
  BY <1>same, <1>label DEF CursorInField, OnField, Text
<1>row. ASSUME NEW t \in Seq(Char), NEW c \in Nat, NEW p \in Nat, EditRow(t, c, p),
               p <= c, c < p + input_cols, c < Len(Trimmed(t))
        PROVE  CursorInField'
  BY <1>0, <1>row, <1>settle, EditInField DEF EditRow
<1>field. ASSUME OnField
          PROVE  /\ Text \in Seq(Char) /\ Len(Text) \in Nat \ {0}
                 /\ Len(Trimmed(Text)) \in Nat /\ Len(Text) <= Len(Trimmed(Text))
                 /\ input_cursor < Len(Text) /\ input_display_position <= input_cursor
                 /\ input_cursor < input_display_position + input_cols
                 /\ CursorLeft \in Nat /\ CursorLeft < Len(Text)
                 /\ PositionLeft \in Nat /\ PositionLeft <= CursorLeft
                 /\ CursorLeft < PositionLeft + input_cols
  <2>1. /\ Text \in Seq(Char) /\ Len(Text) \in Nat \ {0}
        /\ CursorLeft \in Nat /\ PositionLeft \in Nat /\ CursorLeft < Len(Text)
    BY <1>0, <1>field, FieldTypes, FieldLengths
  <2>2. Len(Trimmed(Text)) \in Nat /\ ~LosesBlank(Text)
    BY <1>field, <2>1, TrimmedType DEF NoLoss, OnField, Text
  <2>3. Len(Text) <= Len(Trimmed(Text))
    BY <2>1, <2>2 DEF LosesBlank
  <2>4. /\ input_cursor < Len(Text) /\ input_display_position <= input_cursor
        /\ input_cursor < input_display_position + input_cols
    BY <1>field DEF CursorInField
  <2>5. PositionLeft <= CursorLeft /\ CursorLeft < PositionLeft + input_cols
    BY <1>0, <2>1, <2>4 DEF CursorLeft, PositionLeft, LastPosition
  <2> QED
    BY <2>1, <2>2, <2>3, <2>4, <2>5
<1>1. CASE \E list \in FormLists, texts \in FirstTexts : OpenForm(list, texts)
  BY <1>1, <1>first, <1>label DEF OpenForm
<1>2. CASE Leave
  BY <1>2, <1>same DEF Leave, Selected
<1>3. CASE \E list \in FormLists : OkForm(list)
  BY <1>3, <1>first, <1>label DEF OkForm
<1>4. CASE nav_d \/ nav_u
  <2>1. input_cursor' = 0 /\ input_display_position' = 0 /\ input_list' = input_list
    BY <1>4 DEF nav_d, nav_u, GoTo
  <2>2. ASSUME OnField' PROVE Len(Text') \in Nat \ {0}
    <3>1. Text' \in Seq(Char) /\ Text' # <<>>
      BY <1>0, <2>1, <2>2 DEF Typed, FieldsOK, OnField, Text
    <3> QED
      BY <3>1, EmptySeq
  <2> QED
    BY <1>0, <2>1, <2>2 DEF CursorInField
<1>5. CASE nav_r
  <2> DEFINE c == input_cursor + 1
  <2>0. OnField /\ c \in Nat
    BY <1>0, <1>5 DEF nav_r
  <2>1. CASE PastField(c) /\ EditRow(Text, 0, 0)
    BY <1>0, <1>row, <1>field, <2>0, <2>1
  <2>2. CASE /\ ~PastField(c) /\ c = input_display_position + input_cols
             /\ EditRow(Text, c, input_display_position + 1)
    <3>1. /\ input_display_position + 1 \in Nat /\ input_display_position + 1 <= c
          /\ c < (input_display_position + 1) + input_cols /\ c < Len(Trimmed(Text))
      BY <1>0, <1>field, <2>0, <2>2 DEF PastField
    <3> QED
      BY <1>row, <1>field, <2>0, <2>2, <3>1
  <2>3. CASE /\ ~PastField(c) /\ c # input_display_position + input_cols
             /\ EditRow(Text, c, input_display_position)
    <3>1. /\ input_display_position <= c
          /\ c < input_display_position + input_cols /\ c < Len(Trimmed(Text))
      BY <1>0, <1>field, <2>0, <2>3 DEF PastField
    <3> QED
      BY <1>0, <1>row, <1>field, <2>0, <2>3, <3>1
  <2> QED
    BY <1>5, <2>1, <2>2, <2>3 DEF nav_r
<1>6. CASE nav_l
  <2>1. OnField /\ EditRow(Text, CursorLeft, PositionLeft)
    BY <1>6 DEF nav_l
  <2>2. CursorLeft < Len(Trimmed(Text))
    BY <1>field, <2>1
  <2> QED
    BY <1>row, <1>field, <2>1, <2>2
<1>7. CASE nav_b
  <2>0. OnField
    BY <1>7 DEF nav_b
  <2>1. CASE EditRow(Text, CursorLeft, PositionLeft)
    <3>1. CursorLeft < Len(Trimmed(Text))
      BY <1>field, <2>0
    <3> QED
      BY <1>row, <1>field, <2>0, <2>1, <3>1
  <2>2. CASE /\ CursorLeft # Len(Text) - 1 /\ ~LosesBlank(Deleted)
             /\ EditRow(Deleted, CursorLeft, PositionAfter(Deleted, PositionLeft))
    <3>1. /\ Deleted \in Seq(Char) /\ Len(Deleted) = Len(Text) - 1
          /\ PositionAfter(Deleted, PositionLeft) \in Nat
      BY <1>0, <2>0, <2>2, FieldTypes, FieldLengths
    <3>2. Len(Trimmed(Deleted)) \in Nat /\ Len(Deleted) <= Len(Trimmed(Deleted))
      BY <2>2, <3>1, TrimmedType DEF LosesBlank
    <3>3. CursorLeft < Len(Deleted) /\ CursorLeft < Len(Trimmed(Deleted))
      BY <1>field, <2>0, <2>2, <3>1, <3>2
    <3>4. /\ PositionAfter(Deleted, PositionLeft) <= CursorLeft
          /\ CursorLeft < PositionAfter(Deleted, PositionLeft) + input_cols
      BY <1>0, <1>field, <2>0, <3>1, <3>3 DEF PositionAfter
    <3> QED
      BY <1>row, <1>field, <2>0, <2>2, <3>1, <3>3, <3>4
  <2> QED
    BY <1>7, <2>1, <2>2 DEF nav_b
<1>8. CASE AC
  <2>1. <<Blank>> \in Seq(Char)
    BY TextAssumption
  <2>2. Len(Trimmed(<<Blank>>)) \in Nat \ {0}
    BY <2>1, TrimmedType
  <2>3. 0 \in Nat /\ 0 <= 0 /\ 0 < 0 + input_cols /\ 0 < Len(Trimmed(<<Blank>>))
    BY <1>0, <2>2
  <2>4. EditRow(<<Blank>>, 0, 0)
    BY <1>8 DEF AC
  <2> QED
    BY <1>row, <2>1, <2>3, <2>4
<1>typed. ASSUME OnField, NEW n \in Nat
          PROVE  /\ PositionTyped(n) \in Nat /\ PositionTyped(n) <= input_cursor + n
                 /\ input_cursor + n < PositionTyped(n) + input_cols
  <2>1. PositionTyped(n) \in Nat
    BY <1>0, <1>typed, FieldTypes
  <2>2. /\ input_display_position <= input_cursor
        /\ input_cursor < input_display_position + input_cols
    BY <1>field, <1>typed
  <2> QED
    BY <1>0, <2>1, <2>2 DEF PositionTyped
<1>9. ASSUME NEW w \in Words, Type(w), ~LosesBlank(Inserted(w)) PROVE CursorInField'
  <2>0. /\ OnField /\ Len(w) \in Nat /\ input_cursor + Len(w) \in Nat
        /\ EditRow(Inserted(w), input_cursor + Len(w), PositionTyped(Len(w)))
    BY <1>0, <1>9, TextAssumption DEF Type
  <2>1. Inserted(w) \in Seq(Char) /\ Len(Inserted(w)) = Len(Text) + Len(w)
    BY <1>0, <2>0, FieldTypes, FieldLengths
  <2>2. Len(Trimmed(Inserted(w))) \in Nat /\ Len(Inserted(w)) <= Len(Trimmed(Inserted(w)))
    BY <1>9, <2>1, TrimmedType DEF LosesBlank
  <2>3. input_cursor + Len(w) < Len(Trimmed(Inserted(w)))
    BY <1>0, <1>field, <2>0, <2>1, <2>2
  <2> QED
    BY <1>row, <1>typed, <2>0, <2>1, <2>3
<1>10. CASE Shift
  <2>1. /\ OnField /\ Edit(Text, input_cursor, PositionTyped(0)) /\ Selected' = Selected
    BY <1>10 DEF Shift, Edit, Selected
  <2>2. /\ PositionTyped(0) \in Nat /\ PositionTyped(0) <= input_cursor
        /\ input_cursor < PositionTyped(0) + input_cols
    BY <1>0, <1>typed, <2>1
  <2>3. input_cursor < Len(Trimmed(Text)) /\ Text \in Seq(Char)
    BY <1>0, <1>field, <2>1
  <2> QED
    BY <1>0, <2>1, <2>2, <2>3, EditInField
<1>11. CASE KeyOnLabel
  BY <1>11, <1>same, <1>settle DEF KeyOnLabel, Selected
<1>12. CASE UNCHANGED formVars
  BY <1>12, <1>same DEF formVars, Selected
<1> QED
  BY <1>1, <1>2, <1>3, <1>4, <1>5, <1>6, <1>7, <1>8, <1>9, <1>10, <1>11, <1>12 DEF FormNext

(* No key takes the cursor out of its text or out of the cells shown of it *)
(* unless its edit ends in a blank that rstrip() takes away, for every     *)
(* size of the display and all texts and words (form_buffer.py:60-108).    *)
THEOREM CursorAlwaysInField ==
    ASSUME TextsTrimmed PROVE FormSpec => CursorStaysInField
<1> DEFINE Moves == \/ ~CursorInField
                    \/ CursorInField'
                    \/ nav_b /\ LosesBlank(Deleted)
                    \/ \E w \in Words : Type(w) /\ LosesBlank(Inserted(w))
<1>1. FormInit => FormInv /\ NoLoss
  BY InitFormInv DEF FormInit, NoLoss, TextsTrimmed
<1>2. FormInv /\ NoLoss /\ [FormNext]_formVars => FormInv' /\ NoLoss'
  BY NextFormInv, NoLossNext
<1>3. FormInv /\ NoLoss /\ [FormNext]_formVars => [Moves]_formVars
  BY CursorNext
<1> QED
  BY <1>1, <1>2, <1>3, PTL DEF FormSpec, CursorStaysInField
-----------------------------------------------------------------------------
(* The calculator's input line, for all displays, words and results.       *)

(* The size of the display, row i of it, and the size of the buffer.       *)
LEMMA DisplaySizes ==
    /\ T!DisplaySize \in Nat /\ T!DisplaySize >= LineCols
    /\ (LineRows - 1) * LineCols = T!DisplaySize - LineCols
    /\ \A i \in 0 .. LineRows - 1 : i * LineCols \in Nat /\ i * LineCols <= T!DisplaySize - LineCols
<1>1. LineRows \in Nat /\ LineRows >= 1 /\ LineCols \in Nat /\ LineCols > 0
  BY LineAssumption
<1>2. T!DisplaySize = LineRows * LineCols /\ LineRows * LineCols \in Nat
  BY <1>1 DEF T!DisplaySize
<1>3. (LineRows - 1) * LineCols = LineRows * LineCols - LineCols
  BY <1>1
<1>4. ASSUME NEW i \in 0 .. LineRows - 1
      PROVE  i * LineCols \in Nat /\ i * LineCols <= (LineRows - 1) * LineCols
  BY <1>1, <1>4
<1>5. 0 <= (LineRows - 1) * LineCols
  BY <1>1, <1>4
<1> QED
  BY <1>1, <1>2, <1>3, <1>4, <1>5

LEMMA RowNumber ==
    ASSUME NEW d \in Int, NEW i \in Int
    PROVE  d \div LineCols = i <=> i * LineCols <= d /\ d < i * LineCols + LineCols
<1> DEFINE q == d \div LineCols
           r == d % LineCols
<1>1. LineCols \in Nat /\ LineCols > 0
  BY LineAssumption
<1>2. q \in Int /\ r \in 0 .. LineCols - 1 /\ d = LineCols * q + r
  BY <1>1
<1> HIDE DEF q, r
<1>3. CASE q = i
  BY <1>1, <1>2, <1>3 DEF q
<1>4. CASE q < i
  <2>1. LineCols * (q + 1) <= LineCols * i
    BY <1>1, <1>2, <1>4
  <2>2. LineCols * (q + 1) = LineCols * q + LineCols /\ LineCols * i = i * LineCols
    BY <1>1, <1>2
  <2> QED
    BY <1>1, <1>2, <1>4, <2>1, <2>2 DEF q
<1>5. CASE q > i
  <2>1. LineCols * (i + 1) <= LineCols * q
    BY <1>1, <1>2, <1>5
  <2>2. LineCols * (i + 1) = LineCols * i + LineCols /\ LineCols * i = i * LineCols
    BY <1>1
  <2> QED
    BY <1>1, <1>2, <1>5, <2>1, <2>2 DEF q
<1> QED
  BY <1>2, <1>3, <1>4, <1>5

LEMMA RoundedUp ==
    ASSUME NEW n \in Nat
    PROVE  /\ T!RoundUp(n) \in Int
           /\ n <= T!RoundUp(n) /\ T!RoundUp(n) < n + LineCols
<1> DEFINE d == n + LineCols - 1
           q == d \div LineCols
<1>1. LineCols \in Nat /\ LineCols > 0 /\ d \in Int
  BY LineAssumption
<1>2. q \in Int
  BY <1>1
<1>3. q * LineCols <= d /\ d < q * LineCols + LineCols
  BY <1>1, <1>2, RowNumber
<1>4. T!RoundUp(n) = q * LineCols /\ q * LineCols \in Int
  BY <1>1, <1>2 DEF T!RoundUp
<1> HIDE DEF q
<1> QED
  BY <1>1, <1>3, <1>4

LEMMA BufferSizes ==
    ASSUME NEW t \in Seq(Char)
    PROVE  /\ T!BufferSize(t) \in Nat /\ Len(t) + 1 <= T!BufferSize(t)
           /\ T!BufferSize(t) >= T!DisplaySize
           /\ T!BufferSize(t) = T!DisplaySize \/ T!BufferSize(t) <= Len(t) + LineCols
<1>1. Len(t) + 1 \in Nat /\ T!DisplaySize \in Nat /\ LineCols \in Nat
  BY DisplaySizes, LineAssumption
<1>2. /\ T!RoundUp(Len(t) + 1) \in Int /\ Len(t) + 1 <= T!RoundUp(Len(t) + 1)
      /\ T!RoundUp(Len(t) + 1) < (Len(t) + 1) + LineCols
  BY <1>1, RoundedUp
<1> QED
  BY <1>1, <1>2 DEF T!BufferSize

(* What row i is to show of text t, cursor c and position p.               *)
Exact(t, c, p, i, k) ==
    [ch |-> T!Cell(t, p + i * LineCols + k), inv |-> p + i * LineCols + k = c]
RowRight(scr, t, c, p, i) ==
    \A k \in 0 .. LineCols - 1 :
        \/ scr[i][k] = Exact(t, c, p, i, k)
        \/ T!RowBlank(t, p, i) /\ p + i * LineCols < Len(t) /\ k > 0

CellsOK(scr) ==
    \A i \in 0 .. LineRows - 1, k \in 0 .. LineCols - 1 :
        scr[i][k] \in [ch : Char \cup {Blank, End}, inv : BOOLEAN]

(* A row is dark behind its first cell, as rows past the end mark are.     *)
DarkBehind(scr, i) == \A k \in 1 .. LineCols - 1 : scr[i][k] = T!Dark

(* A painted row is right if it is dark behind its first cell whenever it  *)
(* lies behind the end mark.                                               *)
LEMMA LinePainted ==
    ASSUME NEW scr, NEW t \in Seq(Char), NEW c \in 0 .. Len(t), NEW p \in Nat,
           NEW from \in Int, NEW to \in Int,
           NEW i \in 0 .. LineRows - 1, i \in from .. to - 1,
           p + i * LineCols > Len(t) => DarkBehind(scr, i)
    PROVE  RowRight(T!Paint(scr, t, c, p, from, to), t, c, p, i)
<1> SUFFICES ASSUME NEW k \in 0 .. LineCols - 1
             PROVE  \/ T!Paint(scr, t, c, p, from, to)[i][k] = Exact(t, c, p, i, k)
                    \/ T!RowBlank(t, p, i) /\ p + i * LineCols < Len(t) /\ k > 0
  BY DEF RowRight
<1>0. LineCols \in Nat /\ LineCols > 0 /\ Len(t) \in Nat
  BY LineAssumption
<1>1. PICK x \in Nat : x = p + i * LineCols
  BY <1>0, DisplaySizes
<1>2. CASE T!RowBlank(t, p, i) /\ (c - p) \div LineCols # i
  <2>1. T!Paint(scr, t, c, p, from, to)[i][k] = IF k = 0 THEN T!Dark ELSE scr[i][k]
    BY <1>2 DEF T!Paint
  <2>2. \A m \in 0 .. LineCols - 1 : T!Cell(t, x + m) = Blank
    BY <1>1, <1>2 DEF T!RowBlank
  <2>3. CASE k = 0
    <3>1. x # c
      <4>1. PICK d \in Int : d = c - p
        BY <1>0
      <4>2. PICK z \in Int : z = i * LineCols
        BY <1>0
      <4>3. ~(z <= d /\ d < z + LineCols)
        BY <1>2, <4>1, <4>2, RowNumber
      <4> QED
        BY <1>0, <1>1, <4>1, <4>2, <4>3
    <3>2. Exact(t, c, p, i, k) = T!Dark
      <4>1. T!Cell(t, x + k) = Blank /\ x + k = p + i * LineCols + k /\ ~(x + k = c)
        <5>1. PICK z \in Int : z = i * LineCols
          BY <1>0
        <5>2. x = p + z /\ x + k = x /\ p + z + k = x
          BY ONLY <1>1, <5>1, <2>3, x \in Nat, z \in Int, p \in Nat
        <5>3. 0 \in 0 .. LineCols - 1 /\ x + 0 = x
          BY ONLY <1>0, x \in Nat
        <5>4. T!Cell(t, x) = Blank
          BY <2>2, <5>3
        <5> QED
          BY <3>1, <5>1, <5>2, <5>4
      <4> QED
        BY <4>1 DEF Exact, T!Dark
    <3> QED
      BY <2>1, <2>3, <3>2
  <2>4. CASE k # 0 /\ x < Len(t)
    BY <1>1, <1>2, <2>4
  <2>5. CASE k # 0 /\ x >= Len(t)
    <3>1. x # Len(t)
      <4>1. T!Cell(t, Len(t)) = End
        BY <1>0 DEF T!Cell
      <4>2. T!Cell(t, x + 0) = Blank /\ x + 0 = x
        <5>1. 0 \in 0 .. LineCols - 1 /\ x + 0 = x
          BY <1>0, <1>1
        <5> QED
          BY <2>2, <5>1
      <4> QED
        BY <4>1, <4>2, LineAssumption
    <3>2. x > Len(t) /\ x + k # c
      BY <1>0, <1>1, <2>5, <3>1
    <3>3. scr[i][k] = T!Dark
      BY <1>1, <2>5, <3>2 DEF DarkBehind
    <3>4. Exact(t, c, p, i, k) = T!Dark
      BY <1>1, <2>2, <3>2 DEF Exact, T!Dark
    <3> QED
      BY <2>1, <2>5, <3>3, <3>4
  <2> QED
    BY <1>0, <1>1, <2>3, <2>4, <2>5
<1>3. CASE ~(T!RowBlank(t, p, i) /\ (c - p) \div LineCols # i)
  <2>1. T!Paint(scr, t, c, p, from, to)[i][k] =
          [ch |-> T!Cell(t, p + i * LineCols + k), inv |-> c = p + i * LineCols + k]
    BY <1>3 DEF T!Paint
  <2> QED
    BY <2>1 DEF Exact
<1> QED
  BY <1>2, <1>3

(* What refresh() writes are cells, and it leaves other rows alone.        *)
LEMMA LineCells ==
    ASSUME NEW scr, CellsOK(scr), NEW t \in Seq(Char), NEW c \in Int, NEW p \in Nat,
           NEW from, NEW to
    PROVE  /\ CellsOK(T!Paint(scr, t, c, p, from, to))
           /\ \A i \in 0 .. LineRows - 1, k \in 0 .. LineCols - 1 :
                i \notin from .. to - 1 => T!Paint(scr, t, c, p, from, to)[i][k] = scr[i][k]
<1>1. ASSUME NEW i \in 0 .. LineRows - 1, NEW k \in 0 .. LineCols - 1
      PROVE  /\ T!Paint(scr, t, c, p, from, to)[i][k]
                   \in [ch : Char \cup {Blank, End}, inv : BOOLEAN]
             /\ i \notin from .. to - 1 => T!Paint(scr, t, c, p, from, to)[i][k] = scr[i][k]
  <2>0. T!Paint(scr, t, c, p, from, to)[i][k] =
          IF i \notin from .. to - 1 THEN scr[i][k]
          ELSE IF T!RowBlank(t, p, i) /\ (c - p) \div LineCols # i
               THEN IF k = 0 THEN T!Dark ELSE scr[i][k]
               ELSE [ch |-> T!Cell(t, p + i * LineCols + k), inv |-> c = p + i * LineCols + k]
    BY DEF T!Paint
  <2>1. PICK x \in Nat : x = p + i * LineCols + k
    BY DisplaySizes, LineAssumption
  <2>2. T!Cell(t, x) \in Char \cup {Blank, End}
    BY <2>1 DEF T!Cell
  <2>3. [ch |-> T!Cell(t, p + i * LineCols + k), inv |-> c = p + i * LineCols + k]
           \in [ch : Char \cup {Blank, End}, inv : BOOLEAN]
    BY <2>1, <2>2
  <2>4. T!Dark \in [ch : Char \cup {Blank, End}, inv : BOOLEAN]
    BY DEF T!Dark
  <2>5. scr[i][k] \in [ch : Char \cup {Blank, End}, inv : BOOLEAN]
    BY DEF CellsOK
  <2> QED
    BY <2>0, <2>3, <2>4, <2>5
<1> QED
  BY <1>1 DEF CellsOK

LEMMA ClearedDark == CellsOK(T!Cleared) /\ \A i \in 0 .. LineRows - 1 : DarkBehind(T!Cleared, i)
BY LineAssumption DEF CellsOK, DarkBehind, T!Cleared, T!Dark

(* The inductive invariant of the input line: every row is right, and the  *)
(* buffer fills the display.                                               *)
LineInv ==
    /\ text \in Seq(Char) /\ menu_buffer_cursor \in 0 .. Len(text)
    /\ display_buffer_position \in Int /\ text_app \in {"open", "closed"}
    /\ CellsOK(text_screen)
    /\ text_app = "open" =>
         /\ display_buffer_position \in Nat
         /\ display_buffer_position + T!DisplaySize <= T!BufferSize(text)
         /\ \A i \in 0 .. LineRows - 1 : RowRight(text_screen, text, menu_buffer_cursor,
                                             display_buffer_position, i)

(* The rows that are painted get right, the others are.                    *)
PaintsEnough(scr, t, c, p, from, to) ==
    \A i \in 0 .. LineRows - 1 :
        \/ i \in from .. to - 1 /\ (p + i * LineCols > Len(t) => DarkBehind(scr, i))
        \/ i \notin from .. to - 1 /\ RowRight(scr, t, c, p, i)

LEMMA PaintRight ==
    ASSUME NEW scr, CellsOK(scr), NEW t \in Seq(Char), NEW c \in 0 .. Len(t),
           NEW p \in Nat, NEW from \in Int, NEW to \in Int,
           PaintsEnough(scr, t, c, p, from, to)
    PROVE  /\ CellsOK(T!Paint(scr, t, c, p, from, to))
           /\ \A i \in 0 .. LineRows - 1 : RowRight(T!Paint(scr, t, c, p, from, to), t, c, p, i)
<1>0. c \in Int
  OBVIOUS
<1>1. CellsOK(T!Paint(scr, t, c, p, from, to))
  BY <1>0, LineCells
<1>2. ASSUME NEW i \in 0 .. LineRows - 1
      PROVE  RowRight(T!Paint(scr, t, c, p, from, to), t, c, p, i)
  <2>1. CASE i \in from .. to - 1
    <3>1. p + i * LineCols > Len(t) => DarkBehind(scr, i)
      BY <2>1 DEF PaintsEnough
    <3> QED
      BY <2>1, <3>1, LinePainted
  <2>2. CASE i \notin from .. to - 1
    <3>1. RowRight(scr, t, c, p, i)
      BY <2>2 DEF PaintsEnough
    <3>2. \A k \in 0 .. LineCols - 1 : T!Paint(scr, t, c, p, from, to)[i][k] = scr[i][k]
      BY <1>0, <2>2, LineCells
    <3> QED
      BY <3>1, <3>2 DEF RowRight
  <2> QED
    BY <2>1, <2>2
<1> QED
  BY <1>1, <1>2

(* all_clear().                                                            *)
LEMMA StartOverRight ==
    ASSUME T!StartOver, text_app' \in {"open", "closed"}
    PROVE  LineInv'
<1>1. <<>> \in Seq(Char) /\ Len(<<>>) = 0 /\ 0 \in 0 .. Len(<<>>) /\ 0 \in Nat
      /\ LineRows \in Int /\ 0 \in Int
  BY LineAssumption
<1>2. PaintsEnough(T!Cleared, <<>>, 0, 0, 0, LineRows)
  BY ClearedDark DEF PaintsEnough
<1>3. /\ CellsOK(T!Paint(T!Cleared, <<>>, 0, 0, 0, LineRows))
      /\ \A i \in 0 .. LineRows - 1 :
           RowRight(T!Paint(T!Cleared, <<>>, 0, 0, 0, LineRows), <<>>, 0, 0, i)
  BY <1>1, <1>2, ClearedDark, PaintRight
<1>4. 0 + T!DisplaySize <= T!BufferSize(<<>>)
  <2>1. PICK e \in Seq(Char) : e = <<>>
    BY <1>1
  <2>2. T!BufferSize(e) >= T!DisplaySize /\ T!BufferSize(e) \in Nat /\ T!DisplaySize \in Nat
    BY BufferSizes, DisplaySizes
  <2> QED
    BY <2>1, <2>2
<1>5. /\ text' = <<>> /\ menu_buffer_cursor' = 0 /\ display_buffer_position' = 0
      /\ text_screen' = T!Paint(T!Cleared, <<>>, 0, 0, 0, LineRows)
  BY DEF T!StartOver
<1> QED
  BY <1>1, <1>3, <1>4, <1>5 DEF LineInv

(* The end of a key.                                                       *)
LEMMA SettleRight ==
    ASSUME LineInv, text_app = "open",
           NEW scr, CellsOK(scr), NEW t \in Seq(Char), NEW c \in 0 .. Len(t),
           NEW p \in Int, NEW from \in Int, NEW to \in Int,
           T!Settle(scr, t, c, p, from, to),
           p \in Nat /\ ~T!BufferRaises(t, p) => PaintsEnough(scr, t, c, p, from, to)
    PROVE  LineInv'
<1>1. CASE t = <<>> /\ T!StartOver /\ text_app' = text_app
  BY <1>1, StartOverRight
<1>2. CASE /\ text' = t /\ menu_buffer_cursor' = c /\ display_buffer_position' = p
           /\ text_app' = "closed" /\ text_screen' = text_screen
  BY <1>2 DEF LineInv
<1>3. CASE /\ text' = t /\ menu_buffer_cursor' = c /\ display_buffer_position' = p
           /\ ~T!BufferRaises(t, p) /\ ~T!PaintRaises(from, to)
           /\ text_screen' = T!Paint(scr, t, c, p, from, to)
           /\ text_app' = text_app
  <2>0. T!BufferSize(t) \in Nat /\ T!DisplaySize \in Nat
    BY BufferSizes, DisplaySizes
  <2>1. p \in Nat /\ p + T!DisplaySize <= T!BufferSize(t)
    BY <1>3, <2>0 DEF T!BufferRaises
  <2>2. /\ CellsOK(T!Paint(scr, t, c, p, from, to))
        /\ \A i \in 0 .. LineRows - 1 : RowRight(T!Paint(scr, t, c, p, from, to), t, c, p, i)
    BY <1>3, <2>1, PaintRight
  <2> QED
    BY <1>3, <2>1, <2>2 DEF LineInv
<1> QED
  BY <1>1, <1>2, <1>3 DEF T!Settle

(* A row before that of an offset ends before it.                          *)
LEMMA RowBefore ==
    ASSUME NEW d \in Int, NEW i \in Int, i < d \div LineCols
    PROVE  i * LineCols + LineCols <= d
<1>1. LineCols \in Nat /\ LineCols > 0
  BY LineAssumption
<1>2. PICK r \in Int : r = d \div LineCols
  BY <1>1
<1>3. r * LineCols <= d /\ r * LineCols \in Int /\ (i + 1) * LineCols \in Int
  BY <1>1, <1>2, RowNumber
<1>4. (i + 1) * LineCols <= r * LineCols
  BY <1>1, <1>2
<1>5. (i + 1) * LineCols = i * LineCols + LineCols /\ i * LineCols \in Int
  BY <1>1
<1> QED
  BY <1>3, <1>4, <1>5

(* Behind the end mark the display is dark.                                *)
LEMMA OldDark ==
    ASSUME LineInv, text_app = "open", NEW i \in 0 .. LineRows - 1,
           display_buffer_position + i * LineCols >= Len(text)
    PROVE  DarkBehind(text_screen, i)
<1> SUFFICES ASSUME NEW k \in 1 .. LineCols - 1 PROVE text_screen[i][k] = T!Dark
  BY DEF DarkBehind
<1>1. /\ LineCols \in Nat /\ k \in Nat /\ k > 0 /\ k \in 0 .. LineCols - 1 /\ Len(text) \in Nat
      /\ menu_buffer_cursor \in 0 .. Len(text)
  BY LineAssumption DEF LineInv
<1>2. PICK x \in Nat : x = display_buffer_position + i * LineCols
  BY DisplaySizes DEF LineInv
<1>3. x >= Len(text) /\ x + k > Len(text) /\ x + k = display_buffer_position + i * LineCols + k
  BY <1>1, <1>2
<1>4. text_screen[i][k] = Exact(text, menu_buffer_cursor, display_buffer_position, i, k)
  <2>1. RowRight(text_screen, text, menu_buffer_cursor, display_buffer_position, i)
    BY DEF LineInv
  <2>2. ~(x < Len(text))
    BY <1>1, <1>2, <1>3
  <2> QED
    BY <1>1, <1>2, <2>1, <2>2 DEF RowRight
<1>5. T!Cell(text, x + k) = Blank /\ ~(x + k = menu_buffer_cursor)
  BY <1>1, <1>2, <1>3 DEF T!Cell
<1> QED
  BY <1>3, <1>4, <1>5 DEF Exact, T!Dark

(* A key that repaints everything.                                         *)
LEMMA ScrollRight ==
    ASSUME LineInv, text_app = "open",
           NEW t \in Seq(Char), NEW c \in 0 .. Len(t), NEW p \in Int, T!SettleAll(t, c, p),
           Len(t) >= Len(text) - 1
    PROVE  LineInv'
<1>0. /\ CellsOK(text_screen) /\ 0 \in Int /\ LineRows \in Int /\ Len(t) \in Nat
      /\ Len(text) \in Nat /\ LineCols \in Nat /\ T!DisplaySize \in Nat
      /\ T!BufferSize(t) \in Nat /\ T!BufferSize(text) \in Nat
      /\ display_buffer_position \in Nat
      /\ display_buffer_position + T!DisplaySize <= T!BufferSize(text)
  BY LineAssumption, DisplaySizes, BufferSizes DEF LineInv
<1>1. ASSUME p \in Nat, ~T!BufferRaises(t, p)
      PROVE  p = display_buffer_position \/ p + T!DisplaySize - LineCols <= Len(t)
  <2>1. p + T!DisplaySize <= T!BufferSize(t)
    BY <1>0, <1>1 DEF T!BufferRaises
  <2>2. T!BufferSize(t) = T!DisplaySize \/ T!BufferSize(t) <= Len(t) + LineCols
    BY BufferSizes
  <2>3. T!BufferSize(text) = T!DisplaySize \/ T!BufferSize(text) <= Len(text) + LineCols
    BY BufferSizes DEF LineInv
  <2> QED
    BY <1>0, <1>1, <2>1, <2>2, <2>3
<1>2. ASSUME p \in Nat, ~T!BufferRaises(t, p), NEW i \in 0 .. LineRows - 1, p + i * LineCols > Len(t)
      PROVE  DarkBehind(text_screen, i)
  <2>1. i * LineCols \in Nat /\ i * LineCols <= T!DisplaySize - LineCols
    BY DisplaySizes
  <2>2. p = display_buffer_position
    BY <1>0, <1>1, <1>2, <2>1
  <2>3. display_buffer_position + i * LineCols >= Len(text)
    BY <1>0, <1>2, <2>1, <2>2
  <2> QED
    BY <2>3, OldDark
<1>3. p \in Nat /\ ~T!BufferRaises(t, p) => PaintsEnough(text_screen, t, c, p, 0, LineRows)
  BY <1>2 DEF PaintsEnough
<1>4. T!Settle(text_screen, t, c, p, 0, LineRows)
  BY DEF T!SettleAll
<1> QED
  BY <1>0, <1>3, <1>4, SettleRight

(* A key that moves the cursor inside of the display.                      *)
LEMMA MoveRight ==
    ASSUME LineInv, text_app = "open",
           NEW c \in 0 .. Len(text), NEW from \in Int, NEW to \in Int,
           T!Settle(text_screen, text, c, display_buffer_position, from, to),
           T!RowOf(menu_buffer_cursor) \in from .. to - 1,
           T!RowOf(c) \in from .. to - 1
    PROVE  LineInv'
<1>0. /\ text \in Seq(Char) /\ CellsOK(text_screen) /\ display_buffer_position \in Nat
      /\ display_buffer_position \in Int /\ menu_buffer_cursor \in Int /\ c \in Int
      /\ LineCols \in Nat /\ Len(text) \in Nat
  BY LineAssumption DEF LineInv
<1>1. PaintsEnough(text_screen, text, c, display_buffer_position, from, to)
  <2> SUFFICES ASSUME NEW i \in 0 .. LineRows - 1
               PROVE  \/ i \in from .. to - 1 /\ (display_buffer_position + i * LineCols > Len(text)
                                                    => DarkBehind(text_screen, i))
                      \/ i \notin from .. to - 1
                         /\ RowRight(text_screen, text, c, display_buffer_position, i)
    BY DEF PaintsEnough
  <2>1. PICK z \in Nat : z = i * LineCols
    BY DisplaySizes
  <2>2. display_buffer_position + i * LineCols > Len(text) => DarkBehind(text_screen, i)
    BY <1>0, <2>1, OldDark
  <2>3. ASSUME i \notin from .. to - 1
        PROVE  RowRight(text_screen, text, c, display_buffer_position, i)
    <3>1. ASSUME NEW m \in Int, T!RowOf(m) # i, NEW k \in 0 .. LineCols - 1
          PROVE  display_buffer_position + i * LineCols + k # m
      <4>1. PICK d \in Int : d = m - display_buffer_position
        BY <1>0
      <4>2. d \div LineCols # i
        BY <3>1, <4>1 DEF T!RowOf
      <4>3. ~(z <= d /\ d < z + LineCols)
        BY <2>1, <4>2, RowNumber
      <4> QED
        BY <1>0, <2>1, <4>1, <4>3
    <3>2. \A k \in 0 .. LineCols - 1 :
             Exact(text, c, display_buffer_position, i, k) =
               Exact(text, menu_buffer_cursor, display_buffer_position, i, k)
      <4>1. ASSUME NEW k \in 0 .. LineCols - 1
            PROVE  /\ display_buffer_position + i * LineCols + k # menu_buffer_cursor
                   /\ display_buffer_position + i * LineCols + k # c
        BY <1>0, <2>3, <3>1
      <4> QED
        BY <4>1 DEF Exact
    <3> QED
      BY <3>2 DEF RowRight, LineInv
  <2> QED
    BY <2>2, <2>3
<1> QED
  BY <1>0, <1>1, SettleRight

(* A key that changes the text from c0 on.                                 *)
LEMMA TailRight ==
    ASSUME LineInv, text_app = "open",
           NEW t \in Seq(Char), NEW c \in 0 .. Len(t), NEW c0 \in Nat,
           c0 <= c, c0 <= menu_buffer_cursor, Len(t) >= Len(text) - 1,
           \A x \in Nat : x < c0 => T!Cell(t, x) = T!Cell(text, x),
           T!Settle(text_screen, t, c, display_buffer_position, T!RowOf(c0), LineRows)
    PROVE  LineInv'
<1>0. /\ text \in Seq(Char) /\ CellsOK(text_screen) /\ display_buffer_position \in Nat
      /\ display_buffer_position \in Int /\ menu_buffer_cursor \in Int /\ c \in Int
      /\ LineCols \in Nat /\ LineCols > 0 /\ Len(text) \in Nat /\ Len(t) \in Nat /\ LineRows \in Int
  BY LineAssumption DEF LineInv
<1>1. PICK d \in Int : d = c0 - display_buffer_position
  BY <1>0
<1>2. T!RowOf(c0) = d \div LineCols /\ d \div LineCols \in Int
  BY <1>0, <1>1 DEF T!RowOf
<1>3. PaintsEnough(text_screen, t, c, display_buffer_position, T!RowOf(c0), LineRows)
  <2> SUFFICES ASSUME NEW i \in 0 .. LineRows - 1
               PROVE  \/ /\ i \in T!RowOf(c0) .. LineRows - 1
                         /\ display_buffer_position + i * LineCols > Len(t)
                              => DarkBehind(text_screen, i)
                      \/ /\ i \notin T!RowOf(c0) .. LineRows - 1
                         /\ RowRight(text_screen, t, c, display_buffer_position, i)
    BY DEF PaintsEnough
  <2>1. PICK z \in Nat : z = i * LineCols
    BY DisplaySizes
  <2>2. display_buffer_position + i * LineCols > Len(t) => DarkBehind(text_screen, i)
    BY <1>0, <2>1, OldDark
  <2>3. ASSUME i \notin T!RowOf(c0) .. LineRows - 1
        PROVE  RowRight(text_screen, t, c, display_buffer_position, i)
    <3>1. i < d \div LineCols
      BY <1>0, <1>2, <2>3
    <3>2. z + LineCols <= d
      BY <2>1, <3>1, RowBefore
    <3>3. ASSUME NEW k \in 0 .. LineCols - 1
          PROVE  /\ T!Cell(t, display_buffer_position + i * LineCols + k)
                      = T!Cell(text, display_buffer_position + i * LineCols + k)
                 /\ display_buffer_position + i * LineCols + k # c
                 /\ display_buffer_position + i * LineCols + k # menu_buffer_cursor
      <4>1. PICK x \in Nat : x = display_buffer_position + i * LineCols + k
        BY <1>0, <2>1
      <4>2. x < c0
        BY <1>0, <1>1, <2>1, <3>2, <4>1
      <4> QED
        BY <1>0, <4>1, <4>2
    <3>4. \A k \in 0 .. LineCols - 1 :
             Exact(t, c, display_buffer_position, i, k) =
               Exact(text, menu_buffer_cursor, display_buffer_position, i, k)
      BY <3>3 DEF Exact
    <3>5. T!RowBlank(text, display_buffer_position, i) =>
            T!RowBlank(t, display_buffer_position, i)
      BY <3>3 DEF T!RowBlank
    <3>6. display_buffer_position + i * LineCols < Len(t)
      BY <1>0, <1>1, <2>1, <3>2
    <3>7. RowRight(text_screen, text, menu_buffer_cursor, display_buffer_position, i)
      BY DEF LineInv
    <3> QED
      BY <3>4, <3>5, <3>6, <3>7 DEF RowRight
  <2> QED
    BY <2>2, <2>3
<1>4. T!RowOf(c0) \in Int
  BY <1>2
<1> QED
  BY <1>0, <1>3, <1>4, SettleRight

(* LineRows are numbered upwards.                                              *)
LEMMA RowsAscend ==
    ASSUME LineInv, NEW c \in Int, NEW d \in Int, c <= d
    PROVE  T!RowOf(c) \in Int /\ T!RowOf(d) \in Int /\ T!RowOf(c) <= T!RowOf(d)
<1>0. display_buffer_position \in Int /\ LineCols \in Nat /\ LineCols > 0
  BY LineAssumption DEF LineInv
<1>1. PICK x \in Int, y \in Int : x = c - display_buffer_position
                                  /\ y = d - display_buffer_position
  BY <1>0
<1>2. PICK r \in Int, q \in Int : r = x \div LineCols /\ q = y \div LineCols
  BY <1>0
<1>3. ~(q < r)
  <2> SUFFICES ASSUME q < r PROVE FALSE
    OBVIOUS
  <2>1. q * LineCols + LineCols <= x
    BY <1>2, RowBefore
  <2>2. y < q * LineCols + LineCols /\ q * LineCols \in Int
    BY <1>0, <1>2, RowNumber
  <2> QED
    BY <1>0, <1>1, <2>1, <2>2
<1> QED
  BY <1>1, <1>2, <1>3 DEF T!RowOf

LEMMA ForwardRight ==
    ASSUME LineInv, NEW n \in Nat, T!Forward(n)
    PROVE  LineInv'
<1>0. /\ text \in Seq(Char) /\ Len(text) \in Nat /\ menu_buffer_cursor \in Nat
      /\ display_buffer_position \in Int /\ text_app = "open" /\ LineCols \in Nat
  BY LineAssumption DEF LineInv, T!Forward
<1>1. PICK c \in Nat : c = menu_buffer_cursor + n
  BY <1>0
<1>2. CASE T!SettleAll(text, 0, 0)
  BY <1>0, <1>2, ScrollRight
<1>3. CASE c <= Len(text) /\ T!SettleAll(text, c, display_buffer_position + LineCols)
  <2>1. PICK p \in Int : p = display_buffer_position + LineCols
    BY <1>0
  <2> QED
    BY <1>0, <1>1, <1>3, <2>1, ScrollRight
<1>4. CASE /\ c <= Len(text)
           /\ T!Settle(text_screen, text, c, display_buffer_position,
                       T!RowOf(menu_buffer_cursor), T!RowOf(c) + 1)
  <2>1. PICK from \in Int, to \in Int : from = T!RowOf(menu_buffer_cursor)
                                        /\ to = T!RowOf(c) + 1 /\ from <= to - 1
                                        /\ T!RowOf(c) = to - 1
    BY <1>0, <1>1, RowsAscend, SMTT(30)
  <2>2. T!RowOf(menu_buffer_cursor) \in from .. to - 1 /\ T!RowOf(c) \in from .. to - 1
    BY <2>1
  <2>3. c \in 0 .. Len(text)
    BY <1>0, <1>1, <1>4
  <2> QED
    BY <1>0, <1>4, <2>1, <2>2, <2>3, MoveRight
<1>5. ~T!PastEnd(c) => c <= Len(text)
  BY <1>0, <1>1 DEF T!PastEnd
<1> QED
  BY <1>1, <1>2, <1>3, <1>4, <1>5 DEF T!Forward, T!RowDown

LEMMA BackwardRight ==
    ASSUME LineInv, NEW n \in Nat, T!Backward(n)
    PROVE  LineInv'
<1>0. /\ text \in Seq(Char) /\ Len(text) \in Nat /\ menu_buffer_cursor \in 0 .. Len(text)
      /\ display_buffer_position \in Int /\ text_app = "open" /\ LineCols \in Nat
      /\ Len(text) \in 0 .. Len(text)
  BY LineAssumption DEF LineInv, T!Backward
<1>1. PICK c \in Int : c = menu_buffer_cursor - n
  BY <1>0
<1>2. CASE T!SettleAll(text, Len(text), T!BufferSize(text) - T!DisplaySize)
  <2>1. PICK p \in Int : p = T!BufferSize(text) - T!DisplaySize
    BY <1>0, BufferSizes, DisplaySizes
  <2> QED
    BY <1>0, <1>2, <2>1, ScrollRight
<1>3. CASE c >= 0 /\ T!SettleAll(text, c, display_buffer_position - LineCols)
  <2>1. PICK p \in Int : p = display_buffer_position - LineCols
    BY <1>0
  <2>2. c \in 0 .. Len(text)
    BY <1>0, <1>1, <1>3
  <2> QED
    BY <1>0, <1>3, <2>1, <2>2, ScrollRight
<1>4. CASE /\ c >= 0
           /\ T!Settle(text_screen, text, c, display_buffer_position,
                       T!RowOf(c), T!RowOf(menu_buffer_cursor) + 1)
  <2>0. c \in 0 .. Len(text) /\ menu_buffer_cursor \in Int /\ c <= menu_buffer_cursor
    BY <1>0, <1>1, <1>4
  <2>1. PICK from \in Int, to \in Int : /\ from = T!RowOf(c)
                                        /\ to = T!RowOf(menu_buffer_cursor) + 1
                                        /\ from <= to - 1
                                        /\ T!RowOf(menu_buffer_cursor) = to - 1
    <3>1. /\ T!RowOf(c) \in Int /\ T!RowOf(menu_buffer_cursor) \in Int
          /\ T!RowOf(c) <= T!RowOf(menu_buffer_cursor)
      BY <2>0, RowsAscend
    <3> QED
      BY <3>1
  <2>2. T!RowOf(menu_buffer_cursor) \in from .. to - 1 /\ T!RowOf(c) \in from .. to - 1
    BY <2>1
  <2> QED
    BY <1>0, <1>4, <2>0, <2>1, <2>2, MoveRight
<1> QED
  BY <1>1, <1>2, <1>3, <1>4 DEF T!Backward, T!RowUp, T!UpperEnd

(* A beginning and an end of a text, and what joins them.                  *)
LEMMA Beginning ==
    ASSUME NEW s \in Seq(Char), NEW c \in 0 .. Len(s)
    PROVE  /\ SubSeq(s, 1, c) \in Seq(Char) /\ Len(SubSeq(s, 1, c)) = c
           /\ \A j \in 1 .. c : SubSeq(s, 1, c)[j] = s[j]
<1>1. Len(s) \in Nat /\ c \in Int /\ 1 \in Int /\ \A i \in 1 .. c : s[i] \in Char
  OBVIOUS
<1>2. /\ SubSeq(s, 1, c) \in Seq(Char)
      /\ Len(SubSeq(s, 1, c)) = IF 1 <= c THEN c - 1 + 1 ELSE 0
      /\ \A i \in 1 .. c - 1 + 1 : SubSeq(s, 1, c)[i] = s[1 + i - 1]
  BY ONLY <1>1, SubSeqProperties
<1>3. c - 1 + 1 = c /\ \A i \in 1 .. c : 1 + i - 1 = i
  BY <1>1
<1> QED
  BY <1>1, <1>2, <1>3

LEMMA Ending ==
    ASSUME NEW s \in Seq(Char), NEW c \in 0 .. Len(s)
    PROVE  SubSeq(s, c + 1, Len(s)) \in Seq(Char) /\ Len(SubSeq(s, c + 1, Len(s))) = Len(s) - c
<1>1. Len(s) \in Int /\ c + 1 \in Int /\ \A i \in c + 1 .. Len(s) : s[i] \in Char
  OBVIOUS
<1>2. /\ SubSeq(s, c + 1, Len(s)) \in Seq(Char)
      /\ Len(SubSeq(s, c + 1, Len(s))) =
           IF c + 1 <= Len(s) THEN Len(s) - (c + 1) + 1 ELSE 0
  BY ONLY <1>1, SubSeqProperties
<1> QED
  BY <1>1, <1>2

LEMMA Joined ==
    ASSUME NEW a \in Seq(Char), NEW b \in Seq(Char), NEW s \in Seq(Char), Len(a) <= Len(s),
           \A j \in 1 .. Len(a) : a[j] = s[j]
    PROVE  /\ a \o b \in Seq(Char) /\ Len(a \o b) = Len(a) + Len(b)
           /\ \A x \in Nat : x < Len(a) => T!Cell(a \o b, x) = T!Cell(s, x)
<1>0. Len(s) \in Nat /\ Len(a) \in Nat /\ Len(b) \in Nat
  OBVIOUS
<1>1. /\ a \o b \in Seq(Char) /\ Len(a \o b) = Len(a) + Len(b)
      /\ \A j \in 1 .. Len(a) : (a \o b)[j] = a[j]
  OBVIOUS
<1>2. ASSUME NEW x \in Nat, x < Len(a) PROVE T!Cell(a \o b, x) = T!Cell(s, x)
  <2>1. x + 1 \in 1 .. Len(a) /\ x < Len(s) /\ x < Len(a \o b)
    BY <1>0, <1>1, <1>2
  <2>2. (a \o b)[x + 1] = s[x + 1]
    BY <1>1, <2>1
  <2> QED
    BY <2>1, <2>2 DEF T!Cell
<1> QED
  BY <1>1, <1>2

(* What a key types and takes away.                                        *)
LEMMA TypedText ==
    ASSUME NEW s \in Seq(Char), NEW w \in Seq(Char), NEW c \in 0 .. Len(s)
    PROVE  LET t == SubSeq(s, 1, c) \o w \o SubSeq(s, c + 1, Len(s))
           IN  /\ t \in Seq(Char) /\ Len(t) = Len(s) + Len(w)
               /\ \A x \in Nat : x < c => T!Cell(t, x) = T!Cell(s, x)
<1>0. Len(s) \in Nat /\ Len(w) \in Nat /\ c \in Nat
  OBVIOUS
<1>1. PICK a : a = SubSeq(s, 1, c)
  OBVIOUS
<1>2. PICK b : b = SubSeq(s, c + 1, Len(s))
  OBVIOUS
<1>3. a \in Seq(Char) /\ Len(a) = c /\ \A j \in 1 .. c : a[j] = s[j]
  BY <1>1, Beginning
<1>4. b \in Seq(Char) /\ Len(b) = Len(s) - c
  BY <1>2, Ending
<1>5. w \o b \in Seq(Char) /\ Len(w \o b) = Len(w) + (Len(s) - c)
  BY <1>4
<1>6. PICK d : d = w \o b
  OBVIOUS
<1>7. /\ a \o d \in Seq(Char) /\ Len(a \o d) = c + (Len(w) + (Len(s) - c))
      /\ \A x \in Nat : x < c => T!Cell(a \o d, x) = T!Cell(s, x)
  <2>1. d \in Seq(Char) /\ Len(d) = Len(w) + (Len(s) - c) /\ c <= Len(s)
    BY <1>5, <1>6
  <2> QED
    BY <1>3, <2>1, Joined, SMTT(30)
<1>8. a \o w \o b = a \o d
  BY <1>3, <1>4, <1>6, ConcatAssociative, SMTT(30)
<1>9. PICK t : t = a \o w \o b
  OBVIOUS
<1>10. /\ t \in Seq(Char) /\ Len(t) = Len(s) + Len(w)
       /\ \A x \in Nat : x < c => T!Cell(t, x) = T!Cell(s, x)
  BY <1>0, <1>7, <1>8, <1>9
<1> QED
  BY <1>1, <1>2, <1>9, <1>10

LEMMA DeletedText ==
    ASSUME NEW s \in Seq(Char), NEW c \in 0 .. Len(s) - 1
    PROVE  LET t == SubSeq(s, 1, c) \o SubSeq(s, c + 2, Len(s))
           IN  /\ t \in Seq(Char) /\ Len(t) = Len(s) - 1
               /\ \A x \in Nat : x < c => T!Cell(t, x) = T!Cell(s, x)
<1>0. Len(s) \in Nat /\ c \in Nat /\ c \in 0 .. Len(s) /\ c + 1 \in 0 .. Len(s)
      /\ (c + 1) + 1 = c + 2
  OBVIOUS
<1>1. PICK a : a = SubSeq(s, 1, c)
  OBVIOUS
<1>2. PICK b : b = SubSeq(s, c + 2, Len(s))
  OBVIOUS
<1>3. a \in Seq(Char) /\ Len(a) = c /\ \A j \in 1 .. c : a[j] = s[j]
  BY <1>0, <1>1, Beginning
<1>4. b \in Seq(Char) /\ Len(b) = Len(s) - (c + 1)
  <2>1. /\ SubSeq(s, (c + 1) + 1, Len(s)) \in Seq(Char)
        /\ Len(SubSeq(s, (c + 1) + 1, Len(s))) = Len(s) - (c + 1)
    BY <1>0, Ending
  <2> QED
    BY <1>0, <1>2, <2>1
<1>5. PICK t : t = a \o b
  OBVIOUS
<1>6. /\ t \in Seq(Char) /\ Len(t) = c + (Len(s) - (c + 1))
      /\ \A x \in Nat : x < c => T!Cell(t, x) = T!Cell(s, x)
  <2>1. Len(a) <= Len(s) /\ \A j \in 1 .. Len(a) : a[j] = s[j]
    BY <1>0, <1>3
  <2> QED
    BY <1>3, <1>4, <1>5, <2>1, Joined, SMTT(30)
<1>7. Len(t) = Len(s) - 1
  BY <1>0, <1>6
<1> QED
  BY <1>1, <1>2, <1>5, <1>6, <1>7

LEMMA TypeRight ==
    ASSUME LineInv, NEW w \in LineWords, T!Type(w)
    PROVE  LineInv'
<1>0. /\ text \in Seq(Char) /\ Len(text) \in Nat /\ menu_buffer_cursor \in 0 .. Len(text)
      /\ display_buffer_position \in Int /\ text_app = "open" /\ LineCols \in Nat /\ LineCols > 0
      /\ LineRows \in Int /\ w \in Seq(Char) /\ Len(w) \in Nat /\ menu_buffer_cursor \in Nat
  BY LineAssumption DEF LineInv, T!Type
<1>1. PICK t : t = SubSeq(text, 1, menu_buffer_cursor) \o w
                     \o SubSeq(text, menu_buffer_cursor + 1, Len(text))
  OBVIOUS
<1>2. /\ t \in Seq(Char) /\ Len(t) = Len(text) + Len(w)
      /\ \A x \in Nat : x < menu_buffer_cursor => T!Cell(t, x) = T!Cell(text, x)
  BY <1>0, <1>1, TypedText
<1>3. PICK c \in Nat : c = menu_buffer_cursor + Len(w)
  BY <1>0
<1>4. c \in 0 .. Len(t) /\ Len(t) >= Len(text) - 1 /\ menu_buffer_cursor <= c
  BY <1>0, <1>2, <1>3
<1>5. CASE T!SettleAll(t, c, T!CursorInLastRow(c))
  <2>1. PICK p \in Int : p = T!CursorInLastRow(c)
    BY <1>0 DEF T!CursorInLastRow
  <2> QED
    BY <1>0, <1>2, <1>4, <1>5, <2>1, ScrollRight
<1>6. CASE T!Settle(text_screen, t, c, display_buffer_position,
                    T!RowOf(menu_buffer_cursor), LineRows)
  <2>1. menu_buffer_cursor <= menu_buffer_cursor
    BY <1>0
  <2>2. PICK c0 \in Nat : c0 = menu_buffer_cursor
    BY <1>0
  <2> QED
    BY ONLY LineInv, <1>0, <1>2, <1>4, <1>6, <2>1, <2>2, TailRight
<1> QED
  BY <1>1, <1>3, <1>5, <1>6 DEF T!Type

LEMMA DeleteRight ==
    ASSUME LineInv, T!nav_b
    PROVE  LineInv'
<1>0. /\ text \in Seq(Char) /\ Len(text) \in Nat /\ menu_buffer_cursor \in 0 .. Len(text)
      /\ display_buffer_position \in Int /\ text_app = "open" /\ LineCols \in Nat /\ LineCols > 0
      /\ LineRows \in Int /\ menu_buffer_cursor \in Nat /\ Len(text) \in 0 .. Len(text)
  BY LineAssumption DEF LineInv, T!nav_b
<1>1. PICK c \in Int : c = menu_buffer_cursor - 1
  BY <1>0
<1>2. PICK t : t = SubSeq(text, 1, c) \o SubSeq(text, c + 2, Len(text))
  OBVIOUS
<1>3. c >= 0 => /\ t \in Seq(Char) /\ Len(t) = Len(text) - 1 /\ c \in 0 .. Len(t)
                /\ \A x \in Nat : x < c => T!Cell(t, x) = T!Cell(text, x)
  <2> SUFFICES ASSUME c >= 0
               PROVE  /\ t \in Seq(Char) /\ Len(t) = Len(text) - 1 /\ c \in 0 .. Len(t)
                      /\ \A x \in Nat : x < c => T!Cell(t, x) = T!Cell(text, x)
    OBVIOUS
  <2>1. c \in 0 .. Len(text) - 1
    BY <1>0, <1>1
  <2>2. /\ t \in Seq(Char) /\ Len(t) = Len(text) - 1
        /\ \A x \in Nat : x < c => T!Cell(t, x) = T!Cell(text, x)
    BY <1>0, <1>2, <2>1, DeletedText
  <2> QED
    BY <2>1, <2>2
<1>4. PICK up \in Nat : up = IF T!LastRowGoes THEN LineCols ELSE 0
  BY <1>0
<1>5. CASE T!SettleAll(text, Len(text), T!BufferSize(text) - T!DisplaySize - up)
  <2>1. PICK p \in Int : p = T!BufferSize(text) - T!DisplaySize - up
    BY <1>0, BufferSizes, DisplaySizes
  <2> QED
    BY <1>0, <1>5, <2>1, ScrollRight
<1>6. CASE c >= 0 /\ T!SettleAll(t, c, T!RowUp - up)
  <2>1. PICK p \in Int : p = T!RowUp - up
    BY <1>0 DEF T!RowUp
  <2> QED
    BY <1>0, <1>3, <1>6, <2>1, ScrollRight
<1>7. CASE c >= 0 /\ T!SettleAll(t, c, T!RowUp)
  <2>1. PICK p \in Int : p = T!RowUp
    BY <1>0 DEF T!RowUp
  <2> QED
    BY <1>0, <1>3, <1>7, <2>1, ScrollRight
<1>8. CASE c >= 0 /\ T!Settle(text_screen, t, c, display_buffer_position, T!RowOf(c), LineRows)
  <2>1. /\ t \in Seq(Char) /\ c \in 0 .. Len(t) /\ c \in Nat /\ c <= menu_buffer_cursor
        /\ Len(t) >= Len(text) - 1
    BY <1>0, <1>1, <1>3, <1>8
  <2> QED
    BY <1>0, <1>3, <1>8, <2>1, TailRight
<1> QED
  BY <1>1, <1>2, <1>4, <1>5, <1>6, <1>7, <1>8 DEF T!nav_b

LEMMA AnswerRight ==
    ASSUME LineInv, NEW res \in Results, T!ans(res)
    PROVE  LineInv'
<1>0. /\ res \in Seq(Char) /\ Len(res) \in Nat /\ Len(res) \in 0 .. Len(res)
      /\ text_app = "open" /\ LineCols \in Nat /\ LineCols > 0 /\ LineRows \in Int /\ 0 \in Int
  BY LineAssumption DEF T!ans
<1>1. ASSUME NEW p \in Int, T!Settle(T!Cleared, res, Len(res), p, 0, LineRows)
      PROVE  LineInv'
  <2>1. PaintsEnough(T!Cleared, res, Len(res), p, 0, LineRows)
    BY ClearedDark DEF PaintsEnough
  <2> QED
    BY <1>0, <1>1, <2>1, ClearedDark, SettleRight
<1>2. T!CursorInLastRow(Len(res)) \in Int
  BY <1>0 DEF T!CursorInLastRow
<1> QED
  BY <1>0, <1>1, <1>2 DEF T!ans

LEMMA InitLine == T!Init => LineInv
BY ClearedDark DEF T!Init, LineInv

LEMMA LineNext ==
    ASSUME LineInv, [T!Next]_(T!vars)
    PROVE  LineInv'
<1>0. LineCols \in Nat /\ 1 \in Nat
  BY LineAssumption
<1>1. CASE T!Open
  BY <1>1, StartOverRight DEF T!Open
<1>2. CASE T!Leave
  BY <1>2 DEF T!Leave, LineInv
<1>3. CASE T!nav_d
  BY <1>0, <1>3, ForwardRight DEF T!nav_d
<1>4. CASE T!nav_r
  BY <1>0, <1>4, ForwardRight DEF T!nav_r
<1>5. CASE T!nav_u
  BY <1>0, <1>5, BackwardRight DEF T!nav_u
<1>6. CASE T!nav_l
  BY <1>0, <1>6, BackwardRight DEF T!nav_l
<1>7. CASE T!nav_b
  BY <1>7, DeleteRight
<1>8. CASE T!AC
  BY <1>8, StartOverRight DEF T!AC
<1>9. CASE \E w \in LineWords : T!Type(w)
  BY <1>9, TypeRight
<1>10. CASE \E res \in Results : T!ans(res)
  BY <1>10, AnswerRight
<1>11. CASE UNCHANGED T!vars
  BY <1>11 DEF T!vars, LineInv
<1> QED
  BY <1>1, <1>2, <1>3, <1>4, <1>5, <1>6, <1>7, <1>8, <1>9, <1>10, <1>11 DEF T!Next

(* The display shows the window of the text it should and the cursor and   *)
(* nothing else inverted, up to rows of typed blanks, for every size of    *)
(* the display and all words and results (text_buffer.py:70-179,           *)
(* text_buffer_uploader.py:9-32).                                          *)
THEOREM LineAlwaysFaithful ==
    T!Spec => []TextFaithful
<1>1. LineInv => TextFaithful
  <2> SUFFICES ASSUME LineInv PROVE T!TypeOK /\ T!ScreenFaithful
    BY DEF TextFaithful, T!TextFaithful
  <2>1. T!TypeOK
    BY DEF LineInv, T!TypeOK, CellsOK
  <2>2. T!ScreenFaithful
    BY DEF LineInv, T!ScreenFaithful, RowRight, Exact
  <2> QED
    BY <2>1, <2>2
<1>2. LineInv /\ [T!Next]_(T!vars) => LineInv'
  BY LineNext
<1> QED
  BY <1>1, <1>2, InitLine, PTL DEF T!Spec

(* What the end of a key leaves: the text, cursor and position it was      *)
(* given, a line started over, or no application.                          *)
LEMMA SettleLeaves ==
    ASSUME text_app = "open", NEW scr, NEW t \in Seq(Char), NEW c \in 0 .. Len(t),
           NEW p, NEW from, NEW to, T!Settle(scr, t, c, p, from, to)
    PROVE  /\ text_app' \in {"open", "closed"}
           /\ text_app' = "open" =>
                /\ text' = t /\ menu_buffer_cursor' = c
                /\ \/ display_buffer_position' = p
                   \/ c = 0 /\ display_buffer_position' = 0
<1>1. CASE t = <<>> /\ T!StartOver /\ text_app' = text_app
  <2>1. c = 0
    BY <1>1
  <2> QED
    BY <1>1, <2>1 DEF T!StartOver
<1>2. CASE t # <<>>
  BY <1>2 DEF T!Settle
<1> QED
  BY <1>1, <1>2 DEF T!Settle

(* Every key is a step of the plain line; closing the application clears   *)
(* it.                                                                     *)
LEMMA LineStep ==
    ASSUME LineInv, [T!Next]_(T!vars)
    PROVE  [T!Editor!Next]_(T!Editor!vars)
<1>0. /\ text \in Seq(Char) /\ Len(text) \in Nat /\ menu_buffer_cursor \in 0 .. Len(text)
      /\ Len(<<>>) = 0 /\ Len(text) \in 0 .. Len(text) /\ text_app \in {"open", "closed"}
  BY DEF LineInv
<1>1. ASSUME \/ text_app' = "closed"
             \/ text_app' = "open" /\ text' = <<>> /\ menu_buffer_cursor' = 0
      PROVE  T!Editor!Replace
  BY <1>0, <1>1 DEF T!Editor!Replace
<1>2. CASE T!Open
  <2>1. text_app' = "open" /\ text' = <<>> /\ menu_buffer_cursor' = 0
    BY <1>2 DEF T!Open, T!StartOver
  <2> QED
    BY <1>1, <2>1 DEF T!Editor!Next
<1>3. CASE T!Leave
  BY <1>1, <1>3 DEF T!Leave, T!Editor!Next
<1>4. ASSUME NEW n \in {1, LineCols}, T!Forward(n) PROVE T!Editor!Forward(n) \/ T!Editor!Replace
  <2>1. text_app = "open" /\ n \in Nat
    BY <1>4, LineAssumption DEF T!Forward
  <2>2. PICK c \in Nat : c = menu_buffer_cursor + n
    BY <1>0, <2>1
  <2>3. PICK d \in 0 .. Len(text) : d = IF c > Len(text) THEN 0 ELSE c
    BY <1>0, <2>1, <2>2
  <2>4. PICK scr, p, from, to : T!Settle(scr, text, d, p, from, to)
    BY <1>0, <1>4, <2>2, <2>3 DEF T!Forward, T!SettleAll, T!PastEnd
  <2>5. /\ text_app' \in {"open", "closed"}
        /\ text_app' = "open" => text' = text /\ menu_buffer_cursor' = d
    BY <1>0, <2>1, <2>4, SettleLeaves
  <2>6. CASE text_app' = "open"
    BY <2>1, <2>2, <2>3, <2>5, <2>6 DEF T!Editor!Forward
  <2> QED
    BY <1>1, <2>5, <2>6
<1>5. ASSUME NEW n \in {1, LineCols}, T!Backward(n)
      PROVE  T!Editor!Backward(n) \/ T!Editor!Replace
  <2>1. text_app = "open" /\ n \in Nat
    BY <1>5, LineAssumption DEF T!Backward
  <2>2. PICK c \in Int : c = menu_buffer_cursor - n
    BY <1>0, <2>1
  <2>3. PICK d \in 0 .. Len(text) : d = IF c < 0 THEN Len(text) ELSE c
    <3>1. CASE c < 0
      BY <1>0, <3>1
    <3>2. CASE c >= 0
      <4>1. c \in 0 .. Len(text)
        BY <1>0, <2>1, <2>2, <3>2
      <4> QED
        BY <2>2, <3>2, <4>1
    <3> QED
      BY <2>2, <3>1, <3>2
  <2>4. PICK scr, p, from, to : T!Settle(scr, text, d, p, from, to)
    BY <1>0, <1>5, <2>1, <2>2, <2>3 DEF T!Backward, T!SettleAll
  <2>5. /\ text_app' \in {"open", "closed"}
        /\ text_app' = "open" => text' = text /\ menu_buffer_cursor' = d
    BY <1>0, <2>1, <2>4, SettleLeaves
  <2>6. CASE text_app' = "open"
    BY <2>1, <2>2, <2>3, <2>5, <2>6 DEF T!Editor!Backward
  <2> QED
    BY <1>1, <2>5, <2>6
<1>6. CASE T!nav_b
  <2>1. text_app = "open"
    BY <1>6 DEF T!nav_b
  <2>2. PICK c \in Int : c = menu_buffer_cursor - 1
    BY <1>0
  <2>3. CASE c < 0
    <3>1. PICK scr, p, from, to : T!Settle(scr, text, Len(text), p, from, to)
      BY <1>6, <2>2, <2>3 DEF T!nav_b, T!SettleAll
    <3>2. /\ text_app' \in {"open", "closed"}
          /\ text_app' = "open" => text' = text /\ menu_buffer_cursor' = Len(text)
      BY <1>0, <2>1, <3>1, SettleLeaves
    <3>3. CASE text_app' = "open"
      <4>1. T!Editor!Backward(1)
        BY <2>1, <2>2, <2>3, <3>2, <3>3 DEF T!Editor!Backward
      <4> QED
        BY <4>1 DEF T!Editor!Next
    <3> QED
      BY <1>1, <3>2, <3>3 DEF T!Editor!Next
  <2>4. CASE c >= 0
    <3>1. PICK t : t = SubSeq(text, 1, c) \o SubSeq(text, c + 2, Len(text))
      OBVIOUS
    <3>2. PICK scr, p, from, to : T!Settle(scr, t, c, p, from, to)
      BY <1>6, <2>2, <2>4, <3>1 DEF T!nav_b, T!SettleAll
    <3>3. c \in 0 .. Len(text) - 1
      BY <1>0, <2>2, <2>4
    <3>4. t \in Seq(Char) /\ c \in 0 .. Len(t)
      BY <1>0, <3>1, <3>3, DeletedText
    <3>5. /\ text_app' \in {"open", "closed"}
          /\ text_app' = "open" => text' = t /\ menu_buffer_cursor' = c
      BY <2>1, <3>2, <3>4, SettleLeaves
    <3>6. CASE text_app' = "open"
      <4>1. c + 2 = menu_buffer_cursor + 1 /\ menu_buffer_cursor > 0
        BY <1>0, <2>2, <2>4
      <4>2. T!Editor!Delete
        BY <2>1, <2>2, <3>1, <3>5, <3>6, <4>1 DEF T!Editor!Delete
      <4> QED
        BY <4>2 DEF T!Editor!Next
    <3> QED
      BY <1>1, <3>5, <3>6 DEF T!Editor!Next
  <2> QED
    BY <2>2, <2>3, <2>4
<1>7. CASE T!AC
  BY <1>1, <1>7 DEF T!AC, T!StartOver, T!Editor!Next
<1>8. ASSUME NEW w \in LineWords, T!Type(w) PROVE T!Editor!Insert(w) \/ T!Editor!Replace
  <2>1. text_app = "open" /\ w \in Seq(Char) /\ Len(w) \in Nat
    BY <1>8, LineAssumption DEF T!Type
  <2>2. PICK t : t = SubSeq(text, 1, menu_buffer_cursor) \o w
                       \o SubSeq(text, menu_buffer_cursor + 1, Len(text))
    OBVIOUS
  <2>3. PICK c \in Nat : c = menu_buffer_cursor + Len(w)
    BY <1>0, <2>1
  <2>4. PICK scr, p, from, to : T!Settle(scr, t, c, p, from, to)
    BY <1>8, <2>2, <2>3 DEF T!Type, T!SettleAll
  <2>5. t \in Seq(Char) /\ Len(t) = Len(text) + Len(w)
    BY <1>0, <2>1, <2>2, TypedText
  <2>6. c \in 0 .. Len(t)
    BY <1>0, <2>1, <2>3, <2>5
  <2>7. /\ text_app' \in {"open", "closed"}
        /\ text_app' = "open" => text' = t /\ menu_buffer_cursor' = c
    BY <2>1, <2>4, <2>5, <2>6, SettleLeaves
  <2>8. CASE text_app' = "open"
    BY <2>1, <2>2, <2>3, <2>7, <2>8 DEF T!Editor!Insert
  <2> QED
    BY <1>1, <2>7, <2>8
<1>9. ASSUME NEW res \in Results, T!ans(res) PROVE T!Editor!Replace
  <2>1. text_app = "open" /\ res \in Seq(Char) /\ Len(res) \in 0 .. Len(res)
    BY <1>9, LineAssumption DEF T!ans
  <2>2. PICK scr, p, from, to : T!Settle(scr, res, Len(res), p, from, to)
    BY <1>9 DEF T!ans
  <2>3. /\ text_app' \in {"open", "closed"}
        /\ text_app' = "open" => text' = res /\ menu_buffer_cursor' = Len(res)
    BY <2>1, <2>2, SettleLeaves
  <2>4. CASE text_app' = "open"
    BY <2>3, <2>4 DEF T!Editor!Replace
  <2> QED
    BY <1>1, <2>3, <2>4
<1>10. CASE UNCHANGED T!vars
  BY <1>10 DEF T!vars, T!Editor!vars
<1>11. CASE \E n \in {1, LineCols} : T!Forward(n) \/ T!Backward(n)
  BY <1>4, <1>5, <1>11 DEF T!Editor!Next
<1>12. CASE \E w \in LineWords : T!Type(w)
  BY <1>8, <1>12 DEF T!Editor!Next
<1>13. CASE \E res \in Results : T!ans(res)
  BY <1>9, <1>13 DEF T!Editor!Next
<1> QED
  BY <1>2, <1>3, <1>6, <1>7, <1>10, <1>11, <1>12, <1>13
  DEF T!Next, T!nav_d, T!nav_r, T!nav_u, T!nav_l

(* LineRows, scrolling and padding never change what is edited: the line is a  *)
(* plain text with a cursor that wraps around (text_buffer.py:70-179).     *)
THEOREM LineImplementsEditor ==
    T!Spec => EditorSpec
<1>1. T!Init => T!Editor!Init
  BY DEF T!Init, T!Editor!Init
<1>2. LineInv /\ [T!Next]_(T!vars) => LineInv' /\ [T!Editor!Next]_(T!Editor!vars)
  BY LineNext, LineStep
<1> QED
  BY <1>1, <1>2, InitLine, PTL DEF T!Spec, EditorSpec, T!EditorSpec, T!Editor!Spec

(* A display of one row cannot keep its cursor; the calculator's has 7.    *)
LEMMA ShownNext ==
    ASSUME LineRows >= 2, LineInv, [T!Next]_(T!vars)
    PROVE  [(/\ text_app = "open" /\ text_app' = "open"
             /\ T!CursorShown
             /\ \A res \in Results : ~T!ans(res)) => T!CursorShown']_(T!vars)
<1> SUFFICES ASSUME T!Next, text_app = "open", text_app' = "open", T!CursorShown,
                    \A res \in Results : ~T!ans(res)
             PROVE  T!CursorShown'
  OBVIOUS
<1>0. /\ text \in Seq(Char) /\ Len(text) \in Nat /\ menu_buffer_cursor \in 0 .. Len(text)
      /\ display_buffer_position \in Nat /\ LineCols \in Nat /\ LineCols > 0
      /\ T!DisplaySize \in Nat /\ Len(text) \in 0 .. Len(text)
      /\ display_buffer_position <= menu_buffer_cursor
      /\ menu_buffer_cursor < display_buffer_position + T!DisplaySize
  BY LineAssumption, DisplaySizes
  DEF LineInv, T!CursorShown, T!FirstShown, T!LastShown
<1>1. T!DisplaySize >= LineCols + LineCols
  <2>1. T!DisplaySize = LineRows * LineCols /\ LineRows \in Nat
    BY LineAssumption DEF T!DisplaySize
  <2>2. (LineRows - 2) * LineCols >= 0 /\ (LineRows - 2) * LineCols = LineRows * LineCols - (LineCols + LineCols)
    BY <1>0, <2>1
  <2> QED
    BY <1>0, <2>1, <2>2
<1>2. ASSUME NEW t \in Seq(Char), NEW c \in 0 .. Len(t), NEW p \in Int, NEW scr, NEW from,
             NEW to, T!Settle(scr, t, c, p, from, to), p <= c, c < p + T!DisplaySize
      PROVE  T!CursorShown'
  <2>1. /\ menu_buffer_cursor' = c
        /\ \/ display_buffer_position' = p
           \/ c = 0 /\ display_buffer_position' = 0
    BY <1>2, SettleLeaves
  <2>2. PICK q \in Int : q = display_buffer_position' /\ q <= c /\ c < q + T!DisplaySize
    BY <1>0, <1>1, <1>2, <2>1
  <2>3. T!DisplaySize' = T!DisplaySize
    BY DEF T!DisplaySize
  <2>4. T!FirstShown' = q /\ T!LastShown' = q + T!DisplaySize - 1
    BY <2>2, <2>3 DEF T!FirstShown, T!LastShown
  <2>5. q <= c /\ c <= q + T!DisplaySize - 1
    <3>1. c \in Int
      OBVIOUS
    <3>2. PICK n \in Int : n = T!DisplaySize
      BY <1>0
    <3>3. q <= c /\ c < q + n
      BY <2>2, <3>2
    <3>4. c <= q + n - 1
      BY ONLY <3>1, <3>3, q \in Int, n \in Int
    <3> QED
      BY <3>2, <3>3, <3>4
  <2>6. T!FirstShown' <= menu_buffer_cursor' /\ menu_buffer_cursor' <= T!LastShown'
    BY <2>1, <2>4, <2>5
  <2> QED
    BY <2>6 DEF T!CursorShown
<1>3. ASSUME T!StartOver PROVE T!CursorShown'
  BY <1>0, <1>1, <1>3 DEF T!StartOver, T!CursorShown, T!FirstShown, T!LastShown
<1>4. PICK e \in Int : e = T!BufferSize(text) - T!DisplaySize
  BY <1>0, BufferSizes
<1>5. e <= Len(text) /\ Len(text) < e + T!DisplaySize
  <2>1. /\ T!BufferSize(text) \in Nat /\ Len(text) + 1 <= T!BufferSize(text)
        /\ T!BufferSize(text) = T!DisplaySize \/ T!BufferSize(text) <= Len(text) + LineCols
    BY <1>0, BufferSizes
  <2> QED
    BY <1>0, <1>1, <1>4, <2>1
<1>6. ASSUME NEW n \in {1, LineCols}, T!Forward(n) PROVE T!CursorShown'
  <2>1. n \in Nat /\ n <= LineCols
    BY <1>0
  <2>2. PICK c \in Nat : c = menu_buffer_cursor + n
    BY <1>0, <2>1
  <2>3. CASE T!SettleAll(text, 0, 0)
    <3>1. T!Settle(text_screen, text, 0, 0, 0, LineRows)
      BY <2>3 DEF T!SettleAll
    <3> QED
      BY <1>0, <1>1, <1>2, <3>1
  <2>4. CASE ~T!PastEnd(c) /\ c > T!LastShown /\ T!SettleAll(text, c, T!RowDown)
    <3>1. PICK p \in Int : p = display_buffer_position + LineCols
      BY <1>0
    <3>2. T!Settle(text_screen, text, c, p, 0, LineRows)
      BY <2>4, <3>1 DEF T!SettleAll, T!RowDown
    <3>3. c \in 0 .. Len(text) /\ p <= c /\ c < p + T!DisplaySize
      BY <1>0, <1>1, <2>1, <2>2, <2>4, <3>1 DEF T!PastEnd, T!LastShown
    <3> QED
      BY <1>0, <1>2, <3>2, <3>3
  <2>5. CASE /\ ~T!PastEnd(c) /\ c <= T!LastShown
             /\ T!Settle(text_screen, text, c, display_buffer_position,
                         T!RowOf(menu_buffer_cursor), T!RowOf(c) + 1)
    <3>1. /\ c \in 0 .. Len(text) /\ display_buffer_position <= c
          /\ c < display_buffer_position + T!DisplaySize /\ display_buffer_position \in Int
      BY <1>0, <2>1, <2>2, <2>5 DEF T!PastEnd, T!LastShown
    <3> QED
      BY <1>0, <1>2, <2>5, <3>1
  <2> QED
    BY <1>6, <2>2, <2>3, <2>4, <2>5 DEF T!Forward
<1>7. ASSUME NEW n \in {1, LineCols}, T!Backward(n) PROVE T!CursorShown'
  <2>1. n \in Nat /\ n <= LineCols
    BY <1>0
  <2>2. PICK c \in Int : c = menu_buffer_cursor - n
    BY <1>0, <2>1
  <2>3. CASE T!SettleAll(text, Len(text), T!BufferSize(text) - T!DisplaySize)
    <3>1. T!Settle(text_screen, text, Len(text), e, 0, LineRows)
      BY <1>4, <2>3 DEF T!SettleAll
    <3> QED
      BY <1>0, <1>2, <1>5, <3>1
  <2>4. CASE c >= 0 /\ c < T!FirstShown /\ T!SettleAll(text, c, T!RowUp)
    <3>1. PICK p \in Int : p = display_buffer_position - LineCols
      BY <1>0
    <3>2. T!Settle(text_screen, text, c, p, 0, LineRows)
      BY <2>4, <3>1 DEF T!SettleAll, T!RowUp
    <3>3. c \in 0 .. Len(text) /\ p <= c /\ c < p + T!DisplaySize
      BY <1>0, <1>1, <2>1, <2>2, <2>4, <3>1 DEF T!FirstShown
    <3> QED
      BY <1>0, <1>2, <3>2, <3>3
  <2>5. CASE /\ c >= T!FirstShown /\ c >= 0
             /\ T!Settle(text_screen, text, c, display_buffer_position,
                         T!RowOf(c), T!UpperEnd(c))
    <3>1. /\ c \in 0 .. Len(text) /\ display_buffer_position <= c
          /\ c < display_buffer_position + T!DisplaySize /\ display_buffer_position \in Int
      BY <1>0, <2>1, <2>2, <2>5 DEF T!FirstShown
    <3> QED
      BY <1>0, <1>2, <2>5, <3>1
  <2> QED
    BY <1>7, <2>2, <2>3, <2>4, <2>5 DEF T!Backward
<1>8. ASSUME T!nav_b PROVE T!CursorShown'
  <2>1. PICK c \in Int : c = menu_buffer_cursor - 1
    BY <1>0
  <2>2. PICK t : t = SubSeq(text, 1, c) \o SubSeq(text, c + 2, Len(text))
    OBVIOUS
  <2>3. PICK up \in {0, LineCols} : up = IF T!LastRowGoes THEN LineCols ELSE 0
    OBVIOUS
  <2>4. c >= 0 => t \in Seq(Char) /\ c \in 0 .. Len(t)
    <3>1. c >= 0 => c \in 0 .. Len(text) - 1
      BY <1>0, <2>1
    <3>2. c >= 0 => t \in Seq(Char) /\ Len(t) = Len(text) - 1
      BY <1>0, <2>2, <3>1, DeletedText
    <3> QED
      BY <1>0, <3>1, <3>2
  <2>5. CASE c < 0 /\ T!SettleAll(text, Len(text),
                                   T!BufferSize(text) - T!DisplaySize - up)
    <3>1. display_buffer_position = 0
      BY <1>0, <2>1, <2>5
    <3>2. ~T!LastRowGoes
      BY <1>0, <3>1 DEF T!LastRowGoes, T!LastRowShown
    <3>3. T!BufferSize(text) - T!DisplaySize - up = e
      BY <1>0, <1>4, <2>3, <3>2, BufferSizes
    <3>4. T!Settle(text_screen, text, Len(text), e, 0, LineRows)
      BY <2>5, <3>3 DEF T!SettleAll
    <3> QED
      BY <1>0, <1>2, <1>5, <3>4
  <2>6. CASE c >= 0 /\ c < T!FirstShown /\ T!SettleAll(t, c, T!RowUp - up)
    <3>1. PICK p \in Int : p = display_buffer_position - LineCols - up
      BY <1>0
    <3>2. T!RowUp - up = p
      BY <1>0, <3>1 DEF T!RowUp
    <3>3. T!Settle(text_screen, t, c, p, 0, LineRows)
      BY <2>6, <3>2 DEF T!SettleAll
    <3>4. p <= c /\ c < p + T!DisplaySize
      BY <1>0, <1>1, <2>1, <2>6, <3>1 DEF T!FirstShown
    <3> QED
      BY <1>2, <2>4, <2>6, <3>3, <3>4
  <2>7. CASE c >= T!FirstShown /\ c >= 0 /\ T!LastRowGoes /\ T!SettleAll(t, c, T!RowUp)
    <3>1. PICK p \in Int : p = display_buffer_position - LineCols
      BY <1>0
    <3>2. T!Settle(text_screen, t, c, p, 0, LineRows)
      BY <2>7, <3>1 DEF T!SettleAll, T!RowUp
    <3>3. Len(text) = display_buffer_position + T!DisplaySize - LineCols
      BY <2>7 DEF T!LastRowGoes, T!LastRowShown
    <3>4. p <= c /\ c < p + T!DisplaySize
      BY <1>0, <1>1, <2>1, <2>7, <3>1, <3>3 DEF T!FirstShown
    <3> QED
      BY <1>2, <2>4, <2>7, <3>2, <3>4
  <2>8. CASE /\ c >= T!FirstShown /\ c >= 0
             /\ T!Settle(text_screen, t, c, display_buffer_position, T!RowOf(c), LineRows)
    <3>1. /\ display_buffer_position <= c /\ display_buffer_position \in Int
          /\ c < display_buffer_position + T!DisplaySize
      BY <1>0, <2>1, <2>8 DEF T!FirstShown
    <3> QED
      BY <1>2, <2>4, <2>8, <3>1
  <2> QED
    BY <1>8, <2>1, <2>2, <2>3, <2>5, <2>6, <2>7, <2>8 DEF T!nav_b
<1>9. ASSUME NEW w \in LineWords, T!Type(w) PROVE T!CursorShown'
  <2>1. w \in Seq(Char) /\ Len(w) \in Nat
    BY LineAssumption
  <2>2. PICK t : t = SubSeq(text, 1, menu_buffer_cursor) \o w
                       \o SubSeq(text, menu_buffer_cursor + 1, Len(text))
    OBVIOUS
  <2>3. PICK c \in Nat : c = menu_buffer_cursor + Len(w)
    BY <1>0, <2>1
  <2>4. t \in Seq(Char) /\ Len(t) = Len(text) + Len(w)
    BY <1>0, <2>1, <2>2, TypedText
  <2>5. c \in 0 .. Len(t)
    BY <1>0, <2>1, <2>3, <2>4
  <2>6. CASE T!SettleAll(t, c, T!CursorInLastRow(c))
    <3>1. PICK r \in 0 .. LineCols - 1 : r = c % LineCols
      BY <1>0
    <3>2. PICK p \in Int : p = c - r - (T!DisplaySize - LineCols)
      BY <1>0
    <3>3. T!CursorInLastRow(c) = p
      <4>1. (LineRows - 1) * LineCols = T!DisplaySize - LineCols
        BY DisplaySizes
      <4> QED
        BY <3>1, <3>2, <4>1 DEF T!CursorInLastRow
    <3>4. T!Settle(text_screen, t, c, p, 0, LineRows)
      BY <2>6, <3>3 DEF T!SettleAll
    <3>5. p <= c /\ c < p + T!DisplaySize
      BY <1>0, <1>1, <3>1, <3>2
    <3> QED
      BY <1>2, <2>4, <2>5, <3>4, <3>5
  <2>7. CASE /\ c <= T!LastShown
             /\ T!Settle(text_screen, t, c, display_buffer_position,
                         T!RowOf(menu_buffer_cursor), LineRows)
    <3>1. /\ display_buffer_position <= c /\ display_buffer_position \in Int
          /\ c < display_buffer_position + T!DisplaySize
      BY <1>0, <2>1, <2>3, <2>7 DEF T!LastShown
    <3> QED
      BY <1>2, <2>4, <2>5, <2>7, <3>1
  <2> QED
    BY <1>9, <2>2, <2>3, <2>6, <2>7 DEF T!Type
<1>10. CASE T!Open \/ T!Leave \/ T!AC
  BY <1>3, <1>10 DEF T!Open, T!Leave, T!AC
<1>11. CASE \E n \in {1, LineCols} : T!Forward(n) \/ T!Backward(n)
  BY <1>6, <1>7, <1>11
<1> QED
  BY <1>8, <1>9, <1>10, <1>11 DEF T!Next, T!nav_d, T!nav_r, T!nav_u, T!nav_l

(* No key but "ans" makes the cursor leave the display, if the display has *)
(* two rows at least (text_buffer.py:88-94, 125-143, 172-178).             *)
THEOREM CursorAlwaysShown ==
    ASSUME LineRows >= 2 PROVE T!Spec => CursorStaysShown
<1> DEFINE Kept == (/\ text_app = "open" /\ text_app' = "open"
                    /\ T!CursorShown
                    /\ \A res \in Results : ~T!ans(res)) => T!CursorShown'
<1>1. LineInv /\ [T!Next]_(T!vars) => LineInv' /\ [Kept]_(T!vars)
  BY LineNext, ShownNext
<1> QED
  BY <1>1, InitLine, PTL DEF T!Spec, CursorStaysShown, T!CursorStaysShown
=============================================================================
