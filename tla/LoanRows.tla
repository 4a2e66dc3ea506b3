------------------------------ MODULE LoanRows -------------------------------
(***************************************************************************)
(* What the handlers of loan_service.py lock, check and write, for use in  *)
(* transactions.  The requests of one path are enough to see how these     *)
(* meet.  A stage is a part of a call between two flushes: its operation   *)
(* do and the request on it is about; db is what the session reads.        *)
(***************************************************************************)
EXTENDS LoanSteps, RowLocks, FiniteSets

CONSTANTS
  MaxLoans,       \* bound: loan_requests rows ever inserted
  MaxGuarantees,  \* guarantor_max_active of the loan type, 0 for no limit
  Path            \* the path of all requests

Loans == 1..MaxLoans

Row == [status : UnsettledStatuses \cup {"cancelled", "none"}, emp : Maybe(Employees),
        guarantor : Maybe(Employees), idx : Nat, hr : Maybe(Employees),
        site_manager : Maybe(Employees), cur : Maybe(Employees), seq : Nat]

NoRow == [status |-> "none", emp |-> None, guarantor |-> None, idx |-> 0, hr |-> None,
          site_manager |-> None, cur |-> None, seq |-> 0]

IsOpen(q) == q.status \in OpenStatuses

-----------------------------------------------------------------------------
(* What a handler makes of a row, with the settings st.                    *)
Step(q) == IF q.status = "in_review" THEN Path[q.idx + 1] ELSE "none"

Changes(q, st) ==
  PlanReassignment(Path, q.idx, q, [k \in RemainingSteps(Path, q.idx) |-> st[k]], q.emp)

Advanced(q, st) ==
  LET n    == [q EXCEPT !.idx = @ + 1]
      step == Path[n.idx + 1]
      u    == IF st[step] \in {None, n[step]} THEN n ELSE Over(Changes(n, st), n)
  IN  IF step = "finance" THEN [n EXCEPT !.status = "waiting_finance", !.cur = None]
      ELSE [u EXCEPT !.cur = u[step]]

Reassigned(q, st) ==
  LET c == Changes(q, st)
  IN  [Over(c, q) EXCEPT !.cur = IF Step(q) \in DOMAIN c THEN c[Step(q)] ELSE @]

Cancelled(q) == [q EXCEPT !.status = "cancelled", !.cur = None]

Inserted(job, st) ==
  [NoRow EXCEPT !.status = "in_review", !.emp = job.by, !.guarantor = job.guarantor,
                !.hr = IF "hr" \in Range(Path) THEN st.hr ELSE None,
                !.site_manager = IF "site_manager" \in Range(Path) THEN st.site_manager ELSE None]

-----------------------------------------------------------------------------
HasOpen(e, db) == \E r \in Loans : db.loans[r].emp = e /\ IsOpen(db.loans[r])

Guarantees(g, db) ==
  {r \in Loans : db.loans[r].guarantor = g /\ db.loans[r].status \in UnsettledStatuses}

Allowed(job, stage, db) ==
  CASE stage.do = "submit" ->
         /\ ~HasOpen(job.by, db)
         /\ MaxGuarantees > 0 => Cardinality(Guarantees(job.guarantor, db)) < MaxGuarantees
         /\ db.freeLoans # {}
    [] stage.do = "guarantee" ->
         Step(db.loans[job.on]) = "guarantors" /\ db.loans[job.on].guarantor = job.by
    [] stage.do = "approve" ->
         Step(db.loans[job.on]) \in SiteSteps /\ db.loans[job.on].cur = job.by
    [] stage.do = "pay"     -> db.loans[job.on].status = "waiting_finance"
    [] stage.do = "cancel"  -> IsOpen(db.loans[job.on])
    [] OTHER                -> TRUE

\* mutant: the submission does not lock its employee
FirstLocksUnlessSubmit(job, stage) ==
  CASE stage.do = "submit"   -> {}
    [] stage.do = "leave"    -> {LockOf(EmployeeRow(job.by), "no_key_update")}
    [] stage.do = "settings" -> {LockOf(SettingsRow("loan"), "no_key_update")}
    [] OTHER                 -> {LockOf(RequestRow("loan", job.on), "for_update")}

(* What the first statement of a stage locks.                              *)
FirstLocks(job, stage) ==
  CASE stage.do = "submit"   -> {LockOf(EmployeeRow(job.by), "for_update")}
    [] stage.do = "leave"    -> {LockOf(EmployeeRow(job.by), "no_key_update")}
    [] stage.do = "settings" -> {LockOf(SettingsRow("loan"), "no_key_update")}
    [] OTHER                 -> {LockOf(RequestRow("loan", job.on), "for_update")}

(* The columns a stage writes, by request; the sync and the settings work  *)
(* on rows that they read without a lock.                                  *)
Writes(job, stage, db) ==
  CASE stage.do = "submit" ->
         [r \in {CHOOSE i \in db.freeLoans : \A j \in db.freeLoans : i <= j} |->
            Columns(Inserted(job, db.settings), NoRow)]
    [] stage.do \in {"guarantee", "approve"} ->
         [r \in {job.on} |-> Columns(Advanced(db.loans[r], db.settings), db.loans[r])]
    [] stage.do = "pay"    -> [r \in {job.on} |-> [status |-> "active"]]
    [] stage.do = "cancel" -> [r \in {job.on} |-> Columns(Cancelled(db.loans[r]), db.loans[r])]
    [] stage.do = "leave"  ->
         [r \in {i \in Loans : db.loans[i].emp = job.by /\ IsOpen(db.loans[i])} |->
            Columns(Cancelled(db.loans[r]), db.loans[r])]
    [] stage.do = "settings" ->
         [r \in {i \in Loans : /\ Step(db.loans[i]) # "none"
                               /\ Changes(db.loans[i], job.new) # <<>>} |->
            Columns(Reassigned(db.loans[r], job.new), db.loans[r])]

(* Requests that the next queue number goes to.                            *)
Joining(writes) ==
  {r \in DOMAIN writes : "status" \in DOMAIN writes[r] /\ writes[r].status = "waiting_finance"}

References(columns) ==
  {columns[c] : c \in DOMAIN columns \cap {"guarantor", "hr", "site_manager", "cur"}} \ {None}

\* mutant: the counter of the queue is read, not updated in place
LocksReadingCounter(writes) ==
  FlushLocks("loan", [r \in DOMAIN writes |-> References(writes[r])])
    \cup {Due(2 * MaxLoans + 2, SettingsRow("loan"), "key_share") : r \in Joining(writes)}

(* The locks of the flush; a queue number comes from the settings row.     *)
Locks(writes) ==
  FlushLocks("loan", [r \in DOMAIN writes |-> References(writes[r])])
    \cup {Due(2 * MaxLoans + 2, SettingsRow("loan"), "no_key_update") : r \in Joining(writes)}
==============================================================================
