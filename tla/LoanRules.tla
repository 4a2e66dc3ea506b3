------------------------------ MODULE LoanRules ------------------------------
(***************************************************************************)
(* The pure rules of the loans (backend/app/core/loan_rules.py), step by   *)
(* step as the code computes them.                                         *)
(***************************************************************************)
EXTENDS LoanSteps, SequencesExt

CONSTANT MaxInstallments  \* MAX_INSTALLMENTS

ASSUME MaxInstallmentsAssumption == MaxInstallments \in Nat \ {0}

DefaultSteps == <<"guarantors", "unit_manager", "hr", "site_manager", "finance">>

(* normalize_steps: steps is what was stored, None if that is no list. *)
NormalizeSteps(steps) ==
  LET Keep(out, k) ==
        IF k \in (StepKeys \ {"finance", "site_manager"}) \ Range(out)
        THEN Append(out, k) ELSE out
  IN  IF steps = None THEN DefaultSteps
      ELSE FoldLeft(Keep, <<>>, steps)
           \o (IF "site_manager" \in Range(steps) THEN <<"site_manager">> ELSE <<>>)
           \o <<"finance">>

\* mutant: remembers only the approver of the step before
EffectiveStepsInARow(policySteps, guarantorCount, e, person) ==
  LET Skipped(k, seen) ==
        \/ k = "guarantors" /\ guarantorCount = 0
        \/ k \in PersonSteps /\ person[k] \in {e} \cup seen
      Keep(acc, k) ==
        IF Skipped(k, acc.seen) THEN acc
        ELSE [out  |-> Append(acc.out, k),
              seen |-> IF k \in PersonSteps THEN {person[k]} \ {None} ELSE acc.seen]
  IN  FoldLeft(Keep, [out |-> <<>>, seen |-> {}],
               WithGuarantors(NormalizeSteps(policySteps), guarantorCount)).out

(* effective_steps *)
EffectiveSteps(policySteps, guarantorCount, e, person) ==
  LET Skipped(k, seen) ==
        \/ k = "guarantors" /\ guarantorCount = 0
        \/ k \in PersonSteps /\ person[k] \in {e} \cup seen
      Keep(acc, k) ==
        IF Skipped(k, acc.seen) THEN acc
        ELSE [out  |-> Append(acc.out, k),
              seen |-> acc.seen \cup (IF k \in PersonSteps THEN {person[k]} \ {None} ELSE {})]
  IN  FoldLeft(Keep, [out |-> <<>>, seen |-> {}],
               WithGuarantors(NormalizeSteps(policySteps), guarantorCount)).out

-----------------------------------------------------------------------------
\* mutant: the day of the anniversary itself does not count
MonthsBetweenLate(s, t) ==
  LET months == (t.y - s.y) * 12 + (t.m - s.m) - (IF t.d <= s.d THEN 1 ELSE 0)
  IN  IF months > 0 THEN months ELSE 0

(* months_between: complete months from the date s to the date t. *)
MonthsBetween(s, t) ==
  LET months == (t.y - s.y) * 12 + (t.m - s.m) - (IF t.d < s.d THEN 1 ELSE 0)
  IN  IF months > 0 THEN months ELSE 0

(* The month after (y, m), as build_installments steps through them. *)
NextMonth(ym) == IF ym.m = 12 THEN [y |-> ym.y + 1, m |-> 1] ELSE [ym EXCEPT !.m = @ + 1]

Schedule(amounts, first) ==
  LET due[i \in DOMAIN amounts] == IF i = 1 THEN first ELSE NextMonth(due[i - 1])
  IN  [i \in DOMAIN amounts |-> [due |-> due[i], amount |-> amounts[i]]]

\* mutant: the last installment leaves the remainder out
InstallmentsEqual(total, count, first) ==
  IF total < 1 \/ count \notin 1..MaxInstallments \/ count > total THEN <<>>
  ELSE Schedule([i \in 1..count |-> total \div count], first)

(* build_installments with a count or with an amount; <<>> is a refusal. *)
InstallmentsByCount(total, count, first) ==
  LET base == total \div count
  IN  IF total < 1 \/ count \notin 1..MaxInstallments \/ count > total THEN <<>>
      ELSE Schedule([i \in 1..count |->
                       IF i = count THEN base + (total - base * count) ELSE base], first)

InstallmentsByAmount(total, amount, first) ==
  LET n == -((-total) \div amount)
  IN  IF total < 1 \/ amount < 1 \/ n > MaxInstallments THEN <<>>
      ELSE Schedule([i \in 1..n |->
                       IF i = n THEN total - amount * (n - 1) ELSE amount], first)

-----------------------------------------------------------------------------
(* payslip_loans for a payslip with columns: each row is a label and a     *)
(* value; a label that is already filled starts the next loan.             *)
NoFields == [name |-> None, amount |-> None, remaining |-> None]

ReadColumn(acc, row) ==
  IF acc.current[row.label] # None
  THEN [out     |-> Append(acc.out, acc.current),
        current |-> [NoFields EXCEPT ![row.label] = row.value]]
  ELSE [acc EXCEPT !.current[row.label] = row.value]

ReadColumns(rows) == FoldLeft(ReadColumn, [out |-> <<>>, current |-> NoFields], rows)

(* The loans of which something was kept back. *)
Deducted(loans) ==
  FoldLeft(LAMBDA out, loan : IF loan.amount \in {None, 0} THEN out ELSE Append(out, loan),
           <<>>, loans)

\* mutant: the loan that is still being read at the end is lost
LoansByColumnsClosed(rows) == Deducted(ReadColumns(rows).out)

LoansByColumns(rows) ==
  LET read == ReadColumns(rows) IN Deducted(Append(read.out, read.current))

(* ... and for one of names and values: the label is the loan's name, a    *)
(* row of the label "remaining" belongs to the loan before it, the total   *)
(* is no loan.                                                             *)
ReadName(out, row) ==
  IF row.label = "total" THEN out
  ELSE IF row.label # "remaining"
  THEN Append(out, [name |-> row.label, amount |-> row.value, remaining |-> None])
  ELSE IF out # <<>> /\ Last(out).remaining = None
  THEN Append(Front(out), [Last(out) EXCEPT !.remaining = row.value])
  ELSE out

ReadNames(rows) == FoldLeft(ReadName, <<>>, rows)

LoansByNames(rows) == Deducted(ReadNames(rows))

\* mutant: a row without a remaining amount is as good as an exact one
MatchAnyRow(rows, taken, amount, remainingAfter, named) ==
  LET fits == {i \in DOMAIN rows :
                 /\ i \notin taken /\ rows[i].amount = amount /\ rows[i].name \in named
                 /\ rows[i].remaining \in {None, remainingAfter}}
  IN  IF fits = {} THEN 0 ELSE CHOOSE i \in fits : \A j \in fits : i <= j

(* match_payslip_row: the row that pays an installment of this amount,     *)
(* after which remainingAfter is left of the loan; 0 if there is none.     *)
MatchPayslipRow(rows, taken, amount, remainingAfter, named) ==
  LET Fits(i) == i \notin taken /\ rows[i].amount = amount /\ rows[i].name \in named
      exact    == {i \in DOMAIN rows : Fits(i) /\ rows[i].remaining = remainingAfter}
      fallback == {i \in DOMAIN rows : Fits(i) /\ rows[i].remaining = None}
      First(S) == CHOOSE i \in S : \A j \in S : i <= j
  IN  IF exact # {} THEN First(exact) ELSE IF fallback # {} THEN First(fallback) ELSE 0

(* What apply_payslips makes of the loans of one employee, oldest first:   *)
(* the row taken by each loan, 0 for none.                                 *)
TakePayslipRows(rows, loans, named) ==
  LET Take(got, loan) ==
        Append(got, MatchPayslipRow(rows, Range(got) \ {0}, loan.amount, loan.remaining, named))
  IN  FoldLeft(Take, <<>>, loans)
==============================================================================
