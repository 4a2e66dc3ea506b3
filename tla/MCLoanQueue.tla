----------------------------- MODULE MCLoanQueue -----------------------------
(***************************************************************************)
(* Several requests in the payment queue: guarantors, numbers given by     *)
(* hand, loans paid out, repaid by hand and from payslips, reopened.       *)
(***************************************************************************)
EXTENDS LoanProperties

CONSTANTS ann, bob, cy

MCPolicies == {[steps |-> <<"guarantors", "finance">>, blockIfUnsettled |-> FALSE]}

MCType == [t \in LoanTypes |->
  [guarantors |-> 2, outOfQueue |-> FALSE, maxActive |-> 2, noActiveLoan |-> FALSE,
   borrowers |-> {ann}, sponsors |-> Employees]]

MCKaraManagers == [e \in Employees |-> <<>>]
MCCandidates   == [k \in SiteSteps |-> {}]
MCNobody       == [e \in Employees |-> None]

(* A payslip of the first month and one that names no month. *)
MCSlipMonth == [s \in {"month1", "notice"} |-> IF s = "month1" THEN 1 ELSE 0]
==============================================================================
