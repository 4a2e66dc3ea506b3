-------------------------------- MODULE Loan --------------------------------
(***************************************************************************)
(* The loan requests of one site (backend/app/services/loan_service.py and *)
(* approver_reassign.py), one action per handler.  A handler is one        *)
(* database transaction here; RequestTransactions looks inside it.         *)
(***************************************************************************)
EXTENDS LoanSteps, FiniteSets

CONSTANTS
  MaxRequests,   \* bound: loan_requests rows ever inserted
  MaxSeq,        \* bound: queue numbers
  MaxInst,       \* bound: installments of a loan (MAX_INSTALLMENTS in the code)
  MaxMonth,      \* bound: months in which a first installment may be due
  MaxAway,       \* bound: employees inactive or disabled at once
  Candidates,    \* bound: employees each setting of the site may name
  Policies,      \* versions of the site's rules: [steps, blockIfUnsettled]
  LoanTypes,     \* the active loan types of those versions
  Type,          \* [LoanTypes -> guarantors, outOfQueue, maxActive, noActiveLoan,
                 \*  borrowers, sponsors]; maxActive = 0 is "no limit"
  KaraManagers,  \* managers of an employee's section and the sections above
  UnitApprover,  \* the leave approver set by hand for the employee's unit
  Substitute,    \* active substitute of a manager in Kara, None if the site has it off
  MaxAutoCancel, \* MAX_AUTO_CANCEL_DEACTIVATIONS of the employee sync
  SlipMonth,     \* month of each payslip source (paid_source); 0 if it names none
  KaraAnswers    \* bound: whether Kara may answer, fail to answer, or both

ASSUME LoanAssumption ==
  /\ MaxRequests \in Nat /\ MaxSeq \in Nat /\ MaxInst \in Nat /\ MaxMonth \in Nat
  /\ MaxAway \in Nat /\ MaxAutoCancel \in Nat
  /\ Candidates \in [SiteSteps -> SUBSET Employees]
  /\ Policies \subseteq [steps : StepPaths, blockIfUnsettled : BOOLEAN]
  /\ Type \in [LoanTypes -> [guarantors : Nat, outOfQueue : BOOLEAN, maxActive : Nat,
                             noActiveLoan : BOOLEAN, borrowers : SUBSET Employees,
                             sponsors : SUBSET Employees]]
  /\ KaraManagers \in [Employees -> Seq(Employees)]
  /\ UnitApprover \in [Employees -> Maybe(Employees)]
  /\ Substitute \in [Employees -> Maybe(Employees)]
  /\ SlipMonth \in [DOMAIN SlipMonth -> Nat]
  /\ {"unpaid", "manual"} \cap DOMAIN SlipMonth = {}
  /\ KaraAnswers \subseteq BOOLEAN

VARIABLES
  active,    \* employees.is_active, kept by the sync with the site's source
  enabled,   \* employees.is_enabled, kept by the administrator
  karaUp,    \* Kara, the attendance system with the chart of managers, answers
  settings,  \* loan_site_settings of the site
  policy,    \* the version of the rules in force
  req        \* loan_requests with their guarantors, installments and decisions

vars == <<active, enabled, karaUp, settings, policy, req>>

Requests  == 1..MaxRequests
Slips     == DOMAIN SlipMonth
Guarantor == [emp : Employees, status : {"pending", "accepted", "rejected"}]
Marks     == {"unpaid", "manual"} \cup Slips  \* paid_at and paid_source of an installment
Statuses  == UnsettledStatuses \cup PaidStatuses \cup ClosedStatuses \cup {"none"}

(* by[k]: who is in the history as having approved step k;                 *)
(* idx: steps done (step_index); seq = 0: no queue number;                 *)
(* first: month of the first installment.                                  *)
Row == [status : Statuses, emp : Maybe(Employees), type : LoanTypes \cup {None},
        steps : StepPaths, idx : Nat, appr : Approvers, by : Approvers,
        cur : Maybe(Employees), seq : Nat, outOfQueue : BOOLEAN,
        guar : Seq(Guarantor), first : Nat, inst : Seq(Marks)]

NoOne == [k \in PersonSteps |-> None]

NoRow == [status |-> "none", emp |-> None, type |-> None, steps |-> <<"finance">>,
          idx |-> 0, appr |-> NoOne, by |-> NoOne, cur |-> None, seq |-> 0,
          outOfQueue |-> FALSE, guar |-> <<>>, first |-> 0,
          inst |-> <<>>]

TypeOK ==
  /\ active \subseteq Employees
  /\ enabled \subseteq Employees
  /\ karaUp \in BOOLEAN
  /\ settings \in [enabled : BOOLEAN, site_manager : Maybe(Employees),
                   hr : Maybe(Employees), lastSeq : Nat]
  /\ policy \in Policies
  /\ req \in [Requests -> Row]

Init ==
  /\ active = Employees
  /\ enabled = Employees
  /\ karaUp \in KaraAnswers
  /\ settings = [enabled |-> FALSE, site_manager |-> None, hr |-> None, lastSeq |-> 0]
  /\ policy \in Policies
  /\ req = [r \in Requests |-> NoRow]

-----------------------------------------------------------------------------
(* Who can act: get_current_user and ApproverChecker ask for the same two  *)
(* flags (every employee of the model has a portal account).               *)
Usable == active \cap enabled

IsOpen(q)      == q.status \in OpenStatuses
IsUnsettled(q) == q.status \in UnsettledStatuses
StepAt(q)      == q.steps[q.idx + 1]
CurrentStep(q) == IF q.status = "in_review" THEN StepAt(q) ELSE "none"

\* mutant: a request in the payment queue does not count
HasOpenInReview(e) == \E r \in Requests : req[r].emp = e /\ req[r].status = "in_review"

HasOpen(e)    == \E r \in Requests : req[r].emp = e /\ IsOpen(req[r])
HasActive(e)  == \E r \in Requests : req[r].emp = e /\ req[r].status = "active"
IsBorrower(e) == \E r \in Requests : req[r].emp = e /\ IsUnsettled(req[r])

(* resolve_unit_manager: the first manager of Kara's chain who did not     *)
(* leave if Kara answers and the portal has enabled him, else the unit's   *)
(* own approver.                                                           *)
FirstManager(e, act) ==
  LET here == {i \in DOMAIN KaraManagers[e] : KaraManagers[e][i] \in act \ {e}}
  IN  IF here = {} THEN None
      ELSE KaraManagers[e][CHOOSE i \in here : \A j \in here : i <= j]

UnitManager(e, act) ==
  IF karaUp /\ FirstManager(e, act) \in act \cap enabled THEN FirstManager(e, act)
  ELSE IF UnitApprover[e] \in act \cap enabled THEN UnitApprover[e] ELSE None

(* reassign_requests for one request, with the employees act active, the   *)
(* settings st and now the step whose approver is on duty.                 *)
\* mutant: asks who could act before the employees left
FreshBeforeLeaving(q, refresh, act, st) ==
  [k \in {l \in RemainingSteps(q.steps, q.idx) :
            l = "unit_manager" =>
              refresh \/ q.appr["unit_manager"] \notin active \cap enabled} |->
     IF k = "unit_manager" THEN UnitManager(q.emp, active)
     ELSE IF st[k] \in active \cap enabled THEN st[k] ELSE None]

Fresh(q, refresh, act, st) ==
  [k \in {l \in RemainingSteps(q.steps, q.idx) :
            l = "unit_manager" =>
              refresh \/ q.appr["unit_manager"] \notin act \cap enabled} |->
     IF k = "unit_manager" THEN UnitManager(q.emp, act)
     ELSE IF st[k] \in act \cap enabled THEN st[k] ELSE None]

Reassigned(q, now, refresh, act, st) ==
  LET changes == PlanReassignment(q.steps, q.idx, q.appr,
                                  Fresh(q, refresh, act, st), q.emp)
  IN  [q EXCEPT
        !.appr = [k \in PersonSteps |-> IF k \in DOMAIN changes THEN changes[k] ELSE @[k]],
        !.cur = IF now \in DOMAIN changes THEN changes[now] ELSE @]

(* _usable_approver: the approver stored for step k is replaced on the     *)
(* spot if he cannot act or the site's setting names another one.          *)
\* mutant: the stored approver is taken as he is
WithStoredApprover(q, k) == q

WithUsableApprover(q, k) ==
  IF /\ q.appr[k] \in Usable
     /\ k \in SiteSteps => settings[k] \in {None, q.appr[k]}
  THEN q ELSE Reassigned(q, "none", FALSE, active, settings)

(* _enter_step: the request comes to the step its idx points at. *)
Entered(q) ==
  CASE StepAt(q) = "finance" ->
         [q EXCEPT !.status = "waiting_finance", !.cur = None,
                   !.seq = IF @ = 0 /\ ~q.outOfQueue THEN settings.lastSeq + 1 ELSE @]
    [] StepAt(q) = "guarantors" -> [q EXCEPT !.status = "in_review", !.cur = None]
    [] OTHER -> LET u == WithUsableApprover(q, StepAt(q))
                IN  [u EXCEPT !.status = "in_review", !.cur = u.appr[StepAt(q)]]

Save(r, q) ==
  /\ req' = [req EXCEPT ![r] = q]
  /\ UNCHANGED <<active, enabled, karaUp, settings, policy>>

\* mutant: a number given by hand does not move the counter
SaveInQueueNoBump(r, q) ==
  /\ q.seq <= MaxSeq
  /\ Save(r, q)

(* Save a request that may just have got a queue number: _next_queue_seq   *)
(* and _bump_queue_seq leave the site's counter at that number or above.   *)
SaveInQueue(r, q) ==
  /\ q.seq <= MaxSeq
  /\ req' = [req EXCEPT ![r] = q]
  /\ settings' = [settings EXCEPT !.lastSeq = IF @ < q.seq THEN q.seq ELSE @]
  /\ UNCHANGED <<active, enabled, karaUp, policy>>

Advanced(q) == Entered([q EXCEPT !.idx = @ + 1])

Closed(q, status) == [q EXCEPT !.status = status, !.cur = None]

FreeId(r) ==
  /\ req[r].status = "none"
  /\ \A s \in Requests : s < r => req[s].status # "none"

-----------------------------------------------------------------------------
(* _guarantor_problem: what a guarantor of a loan of type t must satisfy.  *)
GuaranteesOf(g) ==
  {p \in UNION {{r} \X DOMAIN req[r].guar : r \in Requests} :
     LET q == req[p[1]]
     IN  /\ q.guar[p[2]].emp = g
         /\ q.guar[p[2]].status \in {"pending", "accepted"}
         /\ IsUnsettled(q)}

MayGuarantee(t, requester, g) ==
  /\ g # requester
  /\ g \in Usable
  /\ g \in Type[t].sponsors
  /\ Type[t].maxActive > 0 => Cardinality(GuaranteesOf(g)) < Type[t].maxActive
  /\ Type[t].noActiveLoan => ~IsBorrower(g)

Submit(r, e, t, gs) ==
  LET need   == Type[t].guarantors
      person == [k \in PersonSteps |->
                   IF k \notin Range(policy.steps) THEN None
                   ELSE IF k = "unit_manager" THEN UnitManager(e, active)
                   ELSE settings[k]]
  IN  /\ FreeId(r)
      /\ e \in Usable
      /\ settings.enabled
      /\ e \in Type[t].borrowers
      /\ ~HasOpen(e)
      /\ policy.blockIfUnsettled => ~HasActive(e)
      /\ Cardinality(gs) = need
      /\ \A g \in gs : MayGuarantee(t, e, g)
      /\ \A k \in PersonSteps \cap Range(policy.steps) : person[k] # None
      /\ \E path \in StepPaths, order \in {f \in [1..need -> gs] : IsInjective(f)} :
           /\ IsEffectivePath(path, policy.steps, need, e, person)
           /\ SaveInQueue(r, Entered([NoRow EXCEPT
                     !.emp = e, !.type = t, !.steps = path, !.appr = person,
                     !.outOfQueue = Type[t].outOfQueue,
                     !.guar = [i \in 1..need |->
                                 [emp |-> order[i], status |-> "pending"]]]))

\* mutant: also when the money was paid out
CancelUnsettled(r) ==
  /\ req[r].emp \in Usable
  /\ IsUnsettled(req[r])
  /\ Save(r, Closed(req[r], "cancelled"))

Cancel(r) ==
  /\ req[r].emp \in Usable
  /\ IsOpen(req[r])
  /\ Save(r, Closed(req[r], "cancelled"))

\* mutant: the other guarantors are not looked at
ReplaceGuarantorTwice(r, i, g) ==
  LET q == req[r]
  IN  /\ q.emp \in Usable
      /\ CurrentStep(q) = "guarantors"
      /\ q.guar[i].status # "accepted"
      /\ MayGuarantee(q.type, q.emp, g)
      /\ Save(r, [q EXCEPT !.guar[i] = [emp |-> g, status |-> "pending"]])

ReplaceGuarantor(r, i, g) ==
  LET q == req[r]
  IN  /\ q.emp \in Usable
      /\ CurrentStep(q) = "guarantors"
      /\ q.guar[i].status # "accepted"
      /\ \A j \in DOMAIN q.guar \ {i} : q.guar[j].emp # g
      /\ MayGuarantee(q.type, q.emp, g)
      /\ Save(r, [q EXCEPT !.guar[i] = [emp |-> g, status |-> "pending"]])

\* mutant: goes on when nobody is left to answer, whatever they said
GuaranteeDecideAnswered(r, i, accept) ==
  LET q == req[r]
      d == [q EXCEPT !.guar[i].status = IF accept THEN "accepted" ELSE "rejected"]
  IN  /\ CurrentStep(q) = "guarantors"
      /\ q.guar[i].emp \in Usable
      /\ q.guar[i].status = "pending"
      /\ SaveInQueue(r, IF \A j \in DOMAIN q.guar : d.guar[j].status # "pending"
                        THEN Advanced(d) ELSE d)

\* mutant: stores the word of the approvers' decisions
GuaranteeDecideApproved(r, i, accept) ==
  LET q == req[r]
  IN  /\ CurrentStep(q) = "guarantors"
      /\ q.guar[i].emp \in Usable
      /\ q.guar[i].status = "pending"
      /\ Save(r, [q EXCEPT !.guar[i].status = IF accept THEN "approved" ELSE "rejected"])

GuaranteeDecide(r, i, accept) ==
  LET q == req[r]
      d == [q EXCEPT !.guar[i].status = IF accept THEN "accepted" ELSE "rejected"]
  IN  /\ CurrentStep(q) = "guarantors"
      /\ q.guar[i].emp \in Usable
      /\ q.guar[i].status = "pending"
      /\ SaveInQueue(r, IF \A j \in DOMAIN q.guar : d.guar[j].status = "accepted"
                        THEN Advanced(d) ELSE d)

(* e is the approver on duty or, where the site allows it, his active      *)
(* substitute: of an approver who can act himself, and not of his own      *)
(* request.                                                                *)
MayDecide(q, e) ==
  \/ q.cur = e
  \/ e # q.emp /\ q.cur \in Usable /\ Substitute[q.cur] = e

Approve(r, e) ==
  /\ e \in Usable
  /\ CurrentStep(req[r]) \in PersonSteps
  /\ MayDecide(req[r], e)
  /\ SaveInQueue(r, Advanced([req[r] EXCEPT !.by[StepAt(req[r])] = e]))

Reject(r, e) ==
  /\ e \in Usable
  /\ CurrentStep(req[r]) \in PersonSteps
  /\ MayDecide(req[r], e)
  /\ Save(r, Closed(req[r], "rejected"))

-----------------------------------------------------------------------------
(* The finance unit; its handlers hold the row lock (_request_for).        *)

FinancePay(r, n, first) ==
  /\ req[r].status = "waiting_finance"
  /\ Save(r, [req[r] EXCEPT !.status = "active", !.first = first,
                            !.inst = [i \in 1..n |-> "unpaid"]])

FinanceReject(r) ==
  /\ IsOpen(req[r])
  /\ Save(r, Closed(req[r], "rejected"))

\* mutant: the counter is not moved
FinanceSetQueueOnly(r, seq) ==
  /\ req[r].status = "waiting_finance"
  /\ ~req[r].outOfQueue
  /\ Save(r, [req[r] EXCEPT !.seq = seq])

FinanceSetQueue(r, seq) ==
  /\ req[r].status = "waiting_finance"
  /\ ~req[r].outOfQueue
  /\ SaveInQueue(r, [req[r] EXCEPT !.seq = seq])

AllPaid(q) == \A i \in DOMAIN q.inst : q.inst[i] # "unpaid"

(* _sync_settled *)
Synced(q) == [q EXCEPT !.status = IF AllPaid(q) THEN "settled" ELSE "active"]

\* mutant: the status of the loan is not looked at again
FinanceToggleOnly(r, i) ==
  /\ req[r].status \in PaidStatuses
  /\ Save(r, [req[r] EXCEPT !.inst[i] = IF @ = "unpaid" THEN "manual" ELSE "unpaid"])

FinanceToggleInstallment(r, i) ==
  /\ req[r].status \in PaidStatuses
  /\ Save(r, Synced([req[r] EXCEPT
                       !.inst[i] = IF @ = "unpaid" THEN "manual" ELSE "unpaid"]))

FinanceSettle(r) ==
  /\ req[r].status = "active"
  /\ Save(r, [req[r] EXCEPT
                !.status = "settled",
                !.inst = [i \in DOMAIN @ |-> IF @[i] = "unpaid" THEN "manual" ELSE @[i]]])

(* A request the finance unit enters by hand, straight into the queue: of  *)
(* a type of the rules (t) or with a title of its own, with the number it  *)
(* was given on paper (seq) or the next one (seq = 0).                     *)
FinanceManual(r, e, t, ownOutOfQueue, seq) ==
  LET out == IF t = None THEN ownOutOfQueue ELSE Type[t].outOfQueue
  IN  /\ FreeId(r)
      /\ ~HasOpen(e)
      /\ SaveInQueue(r, [NoRow EXCEPT
           !.status = "waiting_finance", !.emp = e, !.type = t, !.outOfQueue = out,
           !.seq = IF out THEN 0 ELSE IF seq > 0 THEN seq ELSE settings.lastSeq + 1])

-----------------------------------------------------------------------------
(* apply_payslips: a payslip pays the first unpaid installment of a loan   *)
(* that is due by its month, one for each slip.                            *)
FirstUnpaid(q) ==
  CHOOSE i \in DOMAIN q.inst :
    q.inst[i] = "unpaid" /\ \A j \in DOMAIN q.inst : j < i => q.inst[j] # "unpaid"

\* mutant: a payslip that is uploaded again pays again
SlipAppliesAgain(q, slip) ==
  /\ q.status = "active"
  /\ ~AllPaid(q)
  /\ SlipMonth[slip] = 0 \/ q.first + FirstUnpaid(q) - 1 <= SlipMonth[slip]

SlipApplies(q, slip) ==
  /\ q.status = "active"
  /\ \A i \in DOMAIN q.inst : q.inst[i] # slip
  /\ ~AllPaid(q)
  /\ SlipMonth[slip] = 0 \/ q.first + FirstUnpaid(q) - 1 <= SlipMonth[slip]

(* matched: the loans for which match_payslip_row finds a row of the slip. *)
ApplyPayslips(slip, matched) ==
  /\ \E r \in matched : SlipApplies(req[r], slip)
  /\ req' = [r \in Requests |->
               IF r \in matched /\ SlipApplies(req[r], slip)
               THEN Synced([req[r] EXCEPT !.inst[FirstUnpaid(req[r])] = slip])
               ELSE req[r]]
  /\ UNCHANGED <<active, enabled, karaUp, settings, policy>>

-----------------------------------------------------------------------------
(* Moving requests to the approvers of today (reassign_approvers).         *)
ReassignedAll(rows, chosen, refresh, act, st) ==
  [r \in Requests |->
     IF r \in chosen /\ rows[r].status = "in_review"
     THEN Reassigned(rows[r], CurrentStep(rows[r]), refresh, act, st) ELSE rows[r]]

\* mutant: open requests keep their approvers
UpdateSiteSettingsOnly(on, manager, hr) ==
  /\ {manager, hr} \subseteq Maybe(Usable)
  /\ settings' = [settings EXCEPT !.enabled = on, !.site_manager = manager, !.hr = hr]
  /\ UNCHANGED <<active, enabled, karaUp, policy, req>>

UpdateSiteSettings(on, manager, hr) ==
  LET st == [settings EXCEPT !.enabled = on, !.site_manager = manager, !.hr = hr]
  IN  /\ {manager, hr} \subseteq Maybe(Usable)
      /\ settings' = st
      /\ req' = ReassignedAll(req, Requests, FALSE, active, st)
      /\ UNCHANGED <<active, enabled, karaUp, policy>>

(* The administrator's "move to the current approvers". *)
ReassignApprovers ==
  /\ req' = ReassignedAll(req, Requests, TRUE, active, settings)
  /\ UNCHANGED <<active, enabled, karaUp, settings, policy>>

(* The sync finds that left no longer work here.  on_employees_left        *)
(* cancels their unpaid requests, unless suspiciously many left at once;   *)
(* then the requests that have one of them on their path are moved.  Both  *)
(* run in a savepoint: if they fail the employees are inactive and the     *)
(* requests as they were.                                                  *)
CancelledOf(left) ==
  [r \in Requests |-> IF req[r].emp \in left /\ IsOpen(req[r])
                      THEN Closed(req[r], "cancelled") ELSE req[r]]

EmployeesLeft(left, moved) ==
  LET rows   == IF Cardinality(left) <= MaxAutoCancel THEN CancelledOf(left) ELSE req
      onPath == {r \in Requests : \E k \in PersonSteps : req[r].appr[k] \in left}
  IN  /\ left # {} /\ left \subseteq active
      /\ Cardinality(Employees \ (Usable \ left)) <= MaxAway
      /\ active' = active \ left
      /\ req' = IF moved THEN ReassignedAll(rows, onPath, FALSE, active \ left, settings)
                ELSE req
      /\ UNCHANGED <<enabled, karaUp, settings, policy>>

EmployeeReturns(e) ==
  /\ e \notin active
  /\ active' = active \cup {e}
  /\ UNCHANGED <<enabled, karaUp, settings, policy, req>>

(* The administrator blocks or restores an employee's portal access. *)
SetEmployeeEnabled(e) ==
  /\ e \in enabled => Cardinality(Employees \ (Usable \ {e})) <= MaxAway
  /\ enabled' = IF e \in enabled THEN enabled \ {e} ELSE enabled \cup {e}
  /\ UNCHANGED <<active, karaUp, settings, policy, req>>

(* create_policy, update_policy or a date of effect that comes. *)
ChangePolicy(p) ==
  /\ p # policy
  /\ policy' = p
  /\ UNCHANGED <<active, enabled, karaUp, settings, req>>

(* Kara's database stops answering, or answers again. *)
KaraChanges ==
  /\ karaUp' \in KaraAnswers \ {karaUp}
  /\ UNCHANGED <<active, enabled, settings, policy, req>>

-----------------------------------------------------------------------------
Months == 1..MaxMonth

RequesterStep ==
  \/ \E r \in Requests, e \in Employees, t \in LoanTypes :
       \E gs \in SUBSET Employees : Submit(r, e, t, gs)
  \/ \E r \in Requests : Cancel(r)
  \/ \E r \in Requests : \E i \in DOMAIN req[r].guar, g \in Employees :
       ReplaceGuarantor(r, i, g)

DeciderStep ==
  \/ \E r \in Requests : \E i \in DOMAIN req[r].guar, accept \in BOOLEAN :
       GuaranteeDecide(r, i, accept)
  \/ \E r \in Requests, e \in Employees : Approve(r, e)
  \/ \E r \in Requests, e \in Employees : Reject(r, e)

FinanceStep ==
  \/ \E r \in Requests, n \in 1..MaxInst, first \in Months : FinancePay(r, n, first)
  \/ \E r \in Requests : FinanceReject(r)
  \/ \E r \in Requests, seq \in 1..MaxSeq : FinanceSetQueue(r, seq)
  \/ \E r \in Requests : \E i \in DOMAIN req[r].inst : FinanceToggleInstallment(r, i)
  \/ \E r \in Requests : FinanceSettle(r)
  \/ \E r \in Requests, e \in Employees, t \in LoanTypes \cup {None},
        out \in BOOLEAN, seq \in 0..MaxSeq : FinanceManual(r, e, t, out, seq)
  \/ \E slip \in Slips, matched \in SUBSET Requests : ApplyPayslips(slip, matched)

SiteStep ==
  \/ \E on \in BOOLEAN, manager \in Maybe(Candidates["site_manager"]),
        hr \in Maybe(Candidates["hr"]) : UpdateSiteSettings(on, manager, hr)
  \/ ReassignApprovers
  \/ \E left \in SUBSET Employees, moved \in BOOLEAN : EmployeesLeft(left, moved)
  \/ \E e \in Employees : EmployeeReturns(e)
  \/ \E e \in Employees : SetEmployeeEnabled(e)
  \/ \E p \in Policies : ChangePolicy(p)
  \/ KaraChanges

Next == RequesterStep \/ DeciderStep \/ FinanceStep \/ SiteStep

Spec == Init /\ [][Next]_vars

==============================================================================
