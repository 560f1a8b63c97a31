---- MODULE MCFormBuffer ----
(* A small instance of FormBuffer: two rows of six characters, forms of    *)
(* one to four rows, texts longer than the four characters a field shows,  *)
(* typed blanks included.                                                  *)
EXTENDS FormBuffer

CONSTANTS x, eq, gt, f1, f2, l1, l2, msg

MCChar == {x, eq, gt, Blank}
MCArrow == <<eq, gt>>
MCWords == {<<Blank>>, <<x, x>>}
MCLabelText == [l \in {l1, l2, msg} |->
                  IF l = l1 THEN <<x, x>> ELSE IF l = l2 THEN <<x>> ELSE <<x, x, x, x, x>>]
MCFormLists == {<<l1, f1, msg>>, <<l1, f1, l2, f2>>, <<l2>>}
MCFirstTexts == {[f \in {f1, f2} |-> IF f = f1 THEN <<x, x>> ELSE <<Blank>>]}
MCInitialList == <<l1, f1, l2>>
MCInitialTexts == [f \in {f1, f2} |-> <<Blank>>]
====
