--------------------------- MODULE EvaluationRules ---------------------------
(***************************************************************************)
(* Whom an evaluator evaluates (core/evaluation_rules.py, with what        *)
(* evaluation_structure_service.py reads for it).  A structure s has the   *)
(* department of each person, the supervisor of each department, the shift *)
(* leads as pairs <<person, department>>, the lead each person is assigned *)
(* to, and the lists of the managers as pairs <<manager, target>>.         *)
(***************************************************************************)
EXTENDS Naturals

CONSTANTS Nobody, Staff, Departments

LeadsOf(s, d) == {l[1] : l \in {l \in s.leads : l[2] = d}}

\* mutant: whoever has a shift lead anywhere is left out
UnassignedAnywhere(s, d, e) ==
  {x \in Staff \ {e} : s.dept[x] = d /\ x \notin LeadsOf(s, d) /\ s.shift[x] = Nobody}

\* Those of the department whom no shift lead of the department has.
Unassigned(s, d, e) ==
  {x \in Staff \ {e} : /\ s.dept[x] = d /\ x \notin LeadsOf(s, d)
                       /\ s.shift[x] = Nobody \/ s.shift[x][2] # d}

Supervised(s, d, e) ==
  IF LeadsOf(s, d) = {} THEN {x \in Staff \ {e} : s.dept[x] = d}
  ELSE LeadsOf(s, d) \cup Unassigned(s, d, e)

\* resolve_evaluation_target_ids: who is on the list of a manager is only his.
EvaluationTargets(s, e) ==
  LET taken   == {m[2] : m \in s.managed}
      asChief == UNION {Supervised(s, d, e) : d \in {d \in Departments : s.supervisor[d] = e}}
      asLead  == {x \in Staff : s.shift[x] # Nobody /\ s.shift[x][1] = e}
      asManager == {m[2] : m \in {m \in s.managed : m[1] = e}}
  IN  (((asChief \cup asLead) \ taken) \cup asManager) \ {e}
==============================================================================
