---- MODULE MenuSelector ----
(***************************************************************************)
(* What a scrolling menu promises to the person in front of the display:   *)
(* a list is opened, exactly one entry of it is highlighted, "down" and    *)
(* "up" move the highlight cyclically, and "ok" takes the highlighted      *)
(* entry.  Nothing is said of windows, scrolling or partial repaints.      *)
(***************************************************************************)
EXTENDS Integers, Sequences

CONSTANTS Item,       \* the entries a menu may list
          MenuLists,  \* the lists an application may open
          NoItem      \* "nothing was chosen"

VARIABLES items,        \* the open list
          sel,          \* index of the selected entry, from 0
          highlighted,  \* the entries the display shows inverted
          chosen,       \* the entry the last "ok" took
          mode          \* "closed", "open" or "failed"

vars == <<items, sel, highlighted, chosen, mode>>

Init ==
    /\ items \in MenuLists
    /\ sel = 0
    /\ highlighted = {}
    /\ chosen = NoItem
    /\ mode = "closed"

(* An empty list leaves at most an older highlight behind.                 *)
Open(L) ==
    /\ items' = L
    /\ sel' = 0
    /\ highlighted' \in IF L = <<>> THEN {{}, highlighted} ELSE {{L[1]}}
    /\ chosen' = NoItem
    /\ mode' = "open"

Move(i) ==
    /\ sel' = i
    /\ highlighted' = {items[i + 1]}
    /\ UNCHANGED <<items, chosen, mode>>

Down == /\ mode = "open" /\ items # <<>>
        /\ Move(IF sel + 1 = Len(items) THEN 0 ELSE sel + 1)

Up == /\ mode = "open" /\ items # <<>>
      /\ Move(IF sel = 0 THEN Len(items) - 1 ELSE sel - 1)

Choose ==
    /\ mode = "open" /\ items # <<>>
    /\ highlighted = {items[sel + 1]}
    /\ chosen' = items[sel + 1]
    /\ mode' = "closed"
    /\ UNCHANGED <<items, sel, highlighted>>

Leave ==
    /\ mode = "open"
    /\ mode' = "closed"
    /\ UNCHANGED <<items, sel, highlighted, chosen>>

(* A menu without entries promises nothing but that nothing is chosen.     *)
EmptyMenu ==
    /\ mode = "open" /\ items = <<>>
    /\ mode' \in {"open", "failed"}
    /\ sel' \in Int
    /\ UNCHANGED <<items, highlighted, chosen>>

Next ==
    \/ \E L \in MenuLists : Open(L)
    \/ Down
    \/ Up
    \/ Choose
    \/ Leave
    \/ EmptyMenu

Spec == Init /\ [][Next]_vars
====
