---------------------------- MODULE AdvanceRules ----------------------------
(***************************************************************************)
(* When an advance may be asked for, and for which month it counts         *)
(* (backend/app/core/advance_rules.py).  A date is [y, m, d].              *)
(***************************************************************************)
EXTENDS Naturals

(* in_window: a window that begins later in the month than it ends goes    *)
(* over the end of the month.                                              *)
InWindow(day, from, to) ==
  IF from <= to THEN from <= day /\ day <= to ELSE from <= day \/ day <= to

\* mutant: the first month goes back to the last of the same year
RequestMonthSameYear(date, from, to) ==
  IF from > to /\ date.d <= to
  THEN [y |-> date.y, m |-> IF date.m = 1 THEN 12 ELSE date.m - 1]
  ELSE [y |-> date.y, m |-> date.m]

(* request_month: the first days of a month belong to a window that was    *)
(* opened in the month before.                                             *)
RequestMonth(date, from, to) ==
  IF from > to /\ date.d <= to
  THEN IF date.m = 1 THEN [y |-> date.y - 1, m |-> 12] ELSE [y |-> date.y, m |-> date.m - 1]
  ELSE [y |-> date.y, m |-> date.m]
=============================================================================
