------------------------- MODULE EvaluationStructure -------------------------
(***************************************************************************)
(* The structure of a site's evaluations: one action per handler of        *)
(* services/evaluation_structure_service.py, and the sync of employees,    *)
(* which changes departments and asks nothing of the structure.            *)
(***************************************************************************)
EXTENDS EvaluationRules, FiniteSets

CONSTANTS MaxLeads, MaxManagers   \* bounds: shift leads, managers of the site

ASSUME StructureAssumption ==
  /\ Nobody \notin Staff \cup Departments
  /\ Nobody \notin Staff \X Departments

VARIABLE structure

NoStructure ==
  [dept |-> [e \in Staff |-> Nobody], supervisor |-> [d \in Departments |-> Nobody],
   leads |-> {}, shift |-> [e \in Staff |-> Nobody], managers |-> {}, managed |-> {}]

StructureInit == structure = NoStructure

SetDepartmentSupervisor(d, e) == structure' = [structure EXCEPT !.supervisor[d] = e]

RemoveDepartmentSupervisor(d) == structure' = [structure EXCEPT !.supervisor[d] = Nobody]

AddManager(e) ==
  /\ e \notin structure.managers /\ Cardinality(structure.managers) < MaxManagers
  /\ structure' = [structure EXCEPT !.managers = @ \cup {e}]

\* With a manager his list goes.
RemoveManager(e) ==
  structure' = [structure EXCEPT !.managers = @ \ {e}, !.managed = {m \in @ : m[1] # e}]

\* Nobody is on two lists, and no manager on his own.
AddManagerTarget(e, x) ==
  /\ e \in structure.managers /\ x # e
  /\ \A m \in structure.managed : m[2] # x
  /\ structure' = [structure EXCEPT !.managed = @ \cup {<<e, x>>}]

RemoveManagerTarget(e, x) == structure' = [structure EXCEPT !.managed = @ \ {<<e, x>>}]

AddShiftLead(d, e) ==
  /\ structure.dept[e] = d /\ structure.shift[e] = Nobody
  /\ <<e, d>> \notin structure.leads
  /\ Cardinality(structure.leads) < MaxLeads
  /\ structure' = [structure EXCEPT !.leads = @ \cup {<<e, d>>}]

\* Those he had are without a shift lead.
RemoveShiftLead(l) ==
  /\ l \in structure.leads
  /\ structure' = [structure EXCEPT
       !.leads = @ \ {l},
       !.shift = [x \in Staff |-> IF @[x] = l THEN Nobody ELSE @[x]]]

SetShiftAssignment(x, l) ==
  /\ l \in structure.leads /\ structure.dept[x] = l[2]
  /\ <<x, l[2]>> \notin structure.leads
  /\ structure' = [structure EXCEPT !.shift[x] = l]

RemoveShiftAssignment(x) == structure' = [structure EXCEPT !.shift[x] = Nobody]

SyncDepartment(x, d) == structure' = [structure EXCEPT !.dept[x] = d]

StructureNext ==
  \/ \E d \in Departments, e \in Staff :
        SetDepartmentSupervisor(d, e) \/ AddShiftLead(d, e)
  \/ \E d \in Departments : RemoveDepartmentSupervisor(d)
  \/ \E e \in Staff : AddManager(e) \/ RemoveManager(e) \/ RemoveShiftAssignment(e)
  \/ \E e, x \in Staff : AddManagerTarget(e, x) \/ RemoveManagerTarget(e, x)
  \/ \E l \in structure.leads : RemoveShiftLead(l) \/ \E x \in Staff : SetShiftAssignment(x, l)
  \/ \E x \in Staff, d \in Departments \cup {Nobody} : SyncDepartment(x, d)

StructureSpec == StructureInit /\ [][StructureNext]_structure

-----------------------------------------------------------------------------
Evaluates(s, e, x) == x \in EvaluationTargets(s, e)

(* No sync moved him away from where he is a shift lead or has one. *)
AtHome(s, x) ==
  /\ \A l \in s.leads : l[1] = x => l[2] = s.dept[x]
  /\ s.shift[x] # Nobody => s.shift[x][2] = s.dept[x]

(* Whoever is on the list of a manager is evaluated by him alone; anybody  *)
(* else whose department has a supervisor other than himself is evaluated  *)
(* by that supervisor or a shift lead of the department, wherever the sync *)
(* moved people; and nobody by two, unless the sync moved him away from    *)
(* where he is a shift lead or has one.                                    *)
EvaluatedOnce ==
  \A x \in Staff :
    LET managers == {e \in Staff : <<e, x>> \in structure.managed}
        d        == structure.dept[x]
    IN  /\ managers # {} => \A e \in Staff : Evaluates(structure, e, x) <=> e \in managers
        /\ managers = {} /\ d # Nobody /\ structure.supervisor[d] \notin {Nobody, x} =>
             \E e \in {structure.supervisor[d]} \cup LeadsOf(structure, d) :
               Evaluates(structure, e, x)
        /\ AtHome(structure, x) =>
             \A e, f \in Staff :
               Evaluates(structure, e, x) /\ Evaluates(structure, f, x) => e = f
==============================================================================
