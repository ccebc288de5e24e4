------------------------------ MODULE MCSources ------------------------------
(* Sources with two sheets and two workbooks to save or to upload. *)
EXTENDS Sources, TLC

CONSTANTS sheet1, sheet2, l1, l2

MCVars == {sheet1, sheet2}
MCLists == {l1, l2}

\* One with one sheet only, and one with both.
MCWorkbooks == {sheet1 :> l1 @@ sheet2 :> None, sheet1 :> l2 @@ sheet2 :> l1}

=============================================================================
