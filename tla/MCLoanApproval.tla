--------------------------- MODULE MCLoanApproval ---------------------------
(***************************************************************************)
(* One request on its way through a full approval path while people leave, *)
(* return, lose access and the settings of the site change.                *)
(***************************************************************************)
EXTENDS LoanProperties

CONSTANTS asker, friend, lead, chief

(* The full path, and a version without guarantors, who are asked first    *)
(* all the same, and without a unit manager.                               *)
MCPolicies ==
  {[steps |-> <<"guarantors", "unit_manager", "hr", "site_manager", "finance">>,
    blockIfUnsettled |-> TRUE],
   [steps |-> <<"hr", "finance">>, blockIfUnsettled |-> FALSE]}

MCType == [t \in LoanTypes |->
  [guarantors |-> 1, outOfQueue |-> FALSE, maxActive |-> 1, noActiveLoan |-> TRUE,
   borrowers |-> {asker}, sponsors |-> {friend, asker}]]

(* asker's section is led by lead, the section above by chief. *)
MCKaraManagers ==
  [e \in Employees |-> IF e = asker THEN <<lead, chief>> ELSE <<chief>>]
MCUnitApprover == [e \in Employees |-> friend]
MCSubstitute   == [e \in Employees |-> IF e = chief THEN asker
                                       ELSE IF e = lead THEN friend ELSE None]
MCNoSubstitute == [e \in Employees |-> None]
MCCandidates   == [k \in SiteSteps |-> IF k = "hr" THEN {lead, chief} ELSE {asker, chief}]
MCSlipMonth    == [s \in {} |-> 0]
==============================================================================
