----------------------------- MODULE AdvanceRows -----------------------------
(***************************************************************************)
(* What the handlers of advance_service.py lock, check and write, for use  *)
(* in transactions (see LoanRows).  Amounts, groups and the window of days *)
(* only decide who may ask and for which month (AdvanceRules); both come   *)
(* with the call.                                                          *)
(***************************************************************************)
EXTENDS LoanSteps, RowLocks, FiniteSets

CONSTANTS
  MaxAdvances,  \* bound: advance_requests rows ever inserted
  MaxPerMonth,  \* max_per_month of the site
  Managers,     \* whom resolve_unit_manager tries in turn, for each employee
  Substitutes   \* pairs <<manager, substitute>> that Kara holds, none if the site has it off

Advances == 1..MaxAdvances

AdvanceSteps    == <<"unit_manager", "site_manager", "finance">>
CountedStatuses == {"in_review", "waiting_finance", "approved", "paid"}
UnpaidStatuses  == {"in_review", "waiting_finance", "approved"}   \* OPEN_STATUSES

Row == [status : CountedStatuses \cup {"rejected", "cancelled", "none"}, emp : Maybe(Employees),
        month : Nat, steps : Seq(Range(AdvanceSteps)), idx : Nat, unit_manager : Maybe(Employees),
        site_manager : Maybe(Employees), cur : Maybe(Employees)]

NoRow == [status |-> "none", emp |-> None, month |-> 0, steps |-> <<"finance">>, idx |-> 0,
          unit_manager |-> None, site_manager |-> None, cur |-> None]

-----------------------------------------------------------------------------
UnitManager(e, working) ==
  LET here == {i \in DOMAIN Managers[e] : Managers[e][i] \in working}
  IN  IF here = {} THEN None ELSE Managers[e][CHOOSE i \in here : \A j \in here : i <= j]

(* effective_steps of an employee whose two managers are known.            *)
EffectiveSteps(e, unit, site) ==
  (IF unit = e THEN <<>> ELSE <<"unit_manager">>)
    \o (IF site \in {e, unit} THEN <<>> ELSE <<"site_manager">>) \o <<"finance">>

CurrentStep(q) == IF q.status \in OpenStatuses THEN q.steps[q.idx + 1] ELSE "none"

(* reassign_requests with the site manager of the settings.                *)
Fresh(q, refresh, working, manager) ==
  [k \in {l \in RemainingSteps(q.steps, q.idx) :
            l = "unit_manager" => refresh \/ q.unit_manager \notin working} |->
     IF k = "unit_manager" THEN UnitManager(q.emp, working)
     ELSE IF manager \in working THEN manager ELSE None]

Changes(q, refresh, working, manager) ==
  PlanReassignment(q.steps, q.idx, q, Fresh(q, refresh, working, manager), q.emp)

Reassigned(q, refresh, working, manager) ==
  LET c == Changes(q, refresh, working, manager)
  IN  [Over(c, q) EXCEPT !.cur = IF CurrentStep(q) \in DOMAIN c THEN c[CurrentStep(q)] ELSE @]

Usable(q, k, working, manager) ==
  q[k] \in working /\ (k = "site_manager" => manager \in {None, q[k]})

(* _enter_step: the request comes to the step its idx points at.           *)
Entered(q, db) ==
  LET k == q.steps[q.idx + 1]
      u == IF Usable(q, k, db.working, db.manager) THEN q
           ELSE Over(Changes(q, FALSE, db.working, db.manager), q)
  IN  IF k = "finance" THEN [q EXCEPT !.status = "waiting_finance", !.cur = None]
      ELSE [u EXCEPT !.status = "in_review", !.cur = u[k]]

Inserted(job, db) ==
  LET unit == UnitManager(job.by, db.working)
  IN  Entered([NoRow EXCEPT !.emp = job.by, !.month = job.month, !.unit_manager = unit,
                            !.site_manager = db.manager,
                            !.steps = EffectiveSteps(job.by, unit, db.manager)], db)

Closed(q, status) == [q EXCEPT !.status = status, !.cur = None]

-----------------------------------------------------------------------------
HasOpen(e, db) == \E r \in Advances : db.advances[r].emp = e /\ db.advances[r].status \in UnpaidStatuses

Counted(e, month, db) ==
  {r \in Advances : /\ db.advances[r].emp = e /\ db.advances[r].month = month
                    /\ db.advances[r].status \in CountedStatuses}

(* The approver on duty or his substitute, as far as the request tells;    *)
(* HasPeople asks the rows of the two.                                     *)
CanDecide(e, q) == e = q.cur \/ (<<q.cur, e>> \in Substitutes /\ e # q.emp)

Allowed(job, stage, db) ==
  CASE stage.do = "ask" ->
         /\ ~HasOpen(job.by, db)
         /\ Cardinality(Counted(job.by, job.month, db)) < MaxPerMonth
         /\ db.freeAdvances # {}
    [] stage.do = "decide" -> /\ CurrentStep(db.advances[stage.on]) \in PersonSteps
                              /\ CanDecide(job.by, db.advances[stage.on])
    [] stage.do = "finance"  -> db.advances[stage.on].status = "waiting_finance"
    [] stage.do = "pay_out"  -> db.advances[stage.on].status = "approved"
    [] stage.do = "withdraw" -> db.advances[stage.on].status \in OpenStatuses
    [] OTHER                 -> TRUE

(* The people that a stage needs are there: a substitute decides only      *)
(* while the approver and himself work here (active_substitute_employees). *)
HasPeople(job, stage, db) ==
  /\ stage.do = "ask" => UnitManager(job.by, db.working) # None /\ db.manager # None
  /\ stage.do = "choose" => job.new \in Maybe(db.working)
  /\ stage.do = "decide" /\ job.by # db.advances[stage.on].cur =>
       {db.advances[stage.on].cur, job.by} \subseteq db.working

\* mutant: a request of a batch is read without a lock
FirstLocksNotBatches(job, stage) ==
  CASE stage.do = "ask"     -> {LockOf(EmployeeRow(job.by), "for_update")}
    [] stage.do = "manager" -> {LockOf(SettingsRow("advance"), "no_key_update")}
    [] OTHER                -> {}

FirstLocks(job, stage) ==
  CASE stage.do = "ask"     -> {LockOf(EmployeeRow(job.by), "for_update")}
    [] stage.do = "manager" -> {LockOf(SettingsRow("advance"), "no_key_update")}
    [] stage.do \in {"choose", "leave", "replace", "move"} -> {}
    [] OTHER                -> {LockOf(RequestRow("advance", stage.on), "for_update")}

(* What becomes of a request that is decided, paid or withdrawn.           *)
Decided(job, stage, db) ==
  LET q == db.advances[stage.on]
  IN  CASE stage.do = "withdraw" -> Closed(q, "cancelled")
        [] stage.do = "pay_out"  -> [q EXCEPT !.status = "paid"]
        [] stage.do = "finance" /\ job.approve ->
             [q EXCEPT !.status = "approved", !.idx = Len(q.steps)]
        [] stage.do = "decide" /\ job.approve -> Entered([q EXCEPT !.idx = @ + 1], db)
        [] OTHER -> Closed(q, "rejected")

(* Requests in review that the settings, the administrator or the sync     *)
(* gives to the approvers of today.                                        *)
MovedRows(job, stage, db) ==
  LET manager == IF stage.do = "manager" THEN job.new ELSE db.manager
      refresh == stage.do = "move"
  IN  [r \in {i \in Advances :
                /\ db.advances[i].status = "in_review"
                /\ stage.do = "replace" =>
                     job.by \in {db.advances[i].unit_manager, db.advances[i].site_manager}} |->
         Reassigned(db.advances[r], refresh, db.working, manager)]

Written(job, stage, db) ==
  CASE stage.do = "choose" -> <<>>
    [] stage.do = "ask" ->
         [r \in {CHOOSE i \in db.freeAdvances : \A j \in db.freeAdvances : i <= j} |->
            Inserted(job, db)]
    [] stage.do = "leave" ->
         [r \in {i \in Advances : /\ db.advances[i].emp = job.by
                                  /\ db.advances[i].status \in UnpaidStatuses} |->
            Closed(db.advances[r], "cancelled")]
    [] stage.do \in {"manager", "move", "replace"} -> MovedRows(job, stage, db)
    [] OTHER -> [r \in {stage.on} |-> Decided(job, stage, db)]

(* The columns a stage writes, by request.                                 *)
Writes(job, stage, db) ==
  LET new == Written(job, stage, db)
  IN  [r \in {i \in DOMAIN new : new[i] # db.advances[i]} |-> Columns(new[r], db.advances[r])]

References(columns) ==
  {columns[c] : c \in DOMAIN columns \cap {"unit_manager", "site_manager", "cur"}} \ {None}

Locks(writes) ==
  FlushLocks("advance", [r \in DOMAIN writes |-> References(writes[r])])
==============================================================================
