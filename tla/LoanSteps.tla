------------------------------ MODULE LoanSteps ------------------------------
(***************************************************************************)
(* The vocabulary of a loan request: the approval steps, the statuses, the *)
(* path a request follows and the rule that moves the remaining steps of a *)
(* path to new approvers (backend/app/core/loan_rules.py).                 *)
(***************************************************************************)
EXTENDS Integers, Sequences, Functions

CONSTANTS Employees,  \* employee rows of the site
          None        \* SQL NULL for a reference to an employee

ASSUME NoneAssumption == None \notin Employees

PersonSteps == {"unit_manager", "hr", "site_manager"}
SiteSteps   == {"hr", "site_manager"}  \* their approver is a setting of the site
StepKeys    == PersonSteps \cup {"guarantors", "finance"}

OpenStatuses      == {"in_review", "waiting_finance"}
UnsettledStatuses == OpenStatuses \cup {"active"}
PaidStatuses      == {"active", "settled"}
ClosedStatuses    == {"rejected", "cancelled"}

(* What normalize_steps leaves of a stored path: known keys, no repetition, *)
(* finance last and the site manager right before it.                       *)
StepPaths ==
  {p \in UNION {[1..n -> StepKeys] : n \in 1..5} :
     /\ IsInjective(p)
     /\ p[Len(p)] = "finance"
     /\ \A i \in DOMAIN p : p[i] = "site_manager" => i = Len(p) - 1}

Maybe(S) == S \cup {None}

(* The person who decides each personal step. *)
Approvers == [PersonSteps -> Maybe(Employees)]

(***************************************************************************)
(* effective_steps as a relation: p keeps, in the order of path, exactly   *)
(* the steps that are asked for a request of employee e.  The step of the  *)
(* guarantors goes when the loan needs none, a personal step goes when its *)
(* person is e or already has an earlier step.                             *)
(***************************************************************************)
Earlier(path, k, l) ==
  \E i, j \in DOMAIN path : i < j /\ path[i] = k /\ path[j] = l

Asked(path, guarantorCount, e, person, k) ==
  /\ k = "guarantors" => guarantorCount > 0
  /\ k \in PersonSteps =>
       /\ person[k] # e
       /\ person[k] # None =>
            \A l \in PersonSteps : Earlier(path, l, k) => person[l] # person[k]

WithGuarantors(path, guarantorCount) ==
  IF guarantorCount > 0 /\ "guarantors" \notin Range(path)
  THEN <<"guarantors">> \o path ELSE path

IsEffectivePath(p, policySteps, guarantorCount, e, person) ==
  LET path == WithGuarantors(policySteps, guarantorCount)
  IN  /\ Range(p) = {k \in Range(path) : Asked(path, guarantorCount, e, person, k)}
      /\ \A k, l \in Range(p) : Earlier(p, k, l) => Earlier(path, k, l)

(* plan_reassignment: the personal steps from position idx on (idx steps   *)
(* are done) whose approver of today is known, is not the requester and    *)
(* differs from the stored one.  fresh is defined on the steps looked up.  *)
\* mutant: the steps already done are looked at again
RemainingStepsFromTheStart(path, idx) == Range(path) \cap PersonSteps

RemainingSteps(path, idx) ==
  {path[i] : i \in {j \in DOMAIN path : j > idx}} \cap PersonSteps

\* mutant: the requester is not left out
PlanReassignmentToAnyone(path, idx, stored, fresh, requester) ==
  [k \in {l \in RemainingSteps(path, idx) \cap DOMAIN fresh :
            fresh[l] \notin {None, stored[l]}} |-> fresh[k]]

PlanReassignment(path, idx, stored, fresh, requester) ==
  [k \in {l \in RemainingSteps(path, idx) \cap DOMAIN fresh :
            fresh[l] \notin {None, requester, stored[l]}} |-> fresh[k]]

==============================================================================
