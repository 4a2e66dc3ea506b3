--------------------------- MODULE LoanProperties ---------------------------
(***************************************************************************)
(* What must hold of the loan requests of a site, and the lifecycle they   *)
(* implement.                                                              *)
(***************************************************************************)
EXTENDS Loan

(* An employee has at most one open request, whoever entered it (the       *)
(* employee or the finance unit) and whatever happened to earlier ones.    *)
OneOpenRequest ==
  \A r, s \in Requests :
    r # s /\ IsOpen(req[r]) /\ IsOpen(req[s]) => req[r].emp # req[s].emp

Done(q, k) ==
  /\ k \in PersonSteps => q.by[k] # None
  /\ k = "guarantors" => \A i \in DOMAIN q.guar : q.guar[i].status = "accepted"

(* The steps of a path are decided one after the other, and a request is   *)
(* in the payment queue or paid only when every step was decided.          *)
DecisionsInOrder ==
  \A r \in Requests :
    LET q == req[r]
    IN  /\ q.idx < Len(q.steps)
        /\ \A i \in DOMAIN q.steps :
             /\ i <= q.idx => Done(q, q.steps[i])
             /\ i > q.idx /\ q.steps[i] \in PersonSteps => q.by[q.steps[i]] = None
        /\ q.status \in PaidStatuses \cup {"waiting_finance"} => StepAt(q) = "finance"
        /\ q.status = "in_review" => StepAt(q) # "finance"

(* Nobody approves or guarantees his own loan, even after approvers were   *)
(* moved or a substitute decided.                                          *)
NoSelfDecision ==
  \A r \in Requests :
    LET q == req[r]
    IN  q.status # "none" =>
          /\ \A k \in PersonSteps : q.by[k] # q.emp
          /\ \A i \in DOMAIN q.guar : q.guar[i].emp # q.emp

(* The site manager and the HR approver named by the settings are the ones *)
(* that the remaining steps of every request in review wait for, but for   *)
(* their own requests.                                                     *)
SettingsInForce ==
  \A r \in Requests :
    LET q == req[r]
    IN  q.status = "in_review" =>
          \A k \in SiteSteps \cap RemainingSteps(q.steps, q.idx) :
            settings[k] \in {None, q.emp, q.appr[k]}

(* Queue numbers never pass the site's counter, so the counter gives a     *)
(* number behind every one in use; who waits in the queue has one.         *)
QueueNumbers ==
  \A r \in Requests :
    LET q == req[r]
    IN  /\ q.seq <= settings.lastSeq
        /\ q.outOfQueue => q.seq = 0
        /\ q.status = "waiting_finance" /\ ~q.outOfQueue => q.seq > 0

(* A loan is settled exactly when all of its installments are paid, and    *)
(* only a loan that was paid out has installments.                         *)
SettledWhenAllPaid ==
  \A r \in Requests :
    LET q == req[r]
    IN  IF q.status \in PaidStatuses
        THEN q.inst # <<>> /\ (q.status = "settled" <=> AllPaid(q))
        ELSE q.inst = <<>>

(* A payslip of one month, however often it is uploaded, has paid at most  *)
(* one installment of a loan.                                              *)
OneTickPerSlip ==
  \A r \in Requests : \A i, j \in DOMAIN req[r].inst :
    i # j /\ req[r].inst[i] = req[r].inst[j] => req[r].inst[i] \notin Slips

(* The guarantors of a request are different people. *)
DistinctGuarantors ==
  \A r \in Requests : \A i, j \in DOMAIN req[r].guar :
    req[r].guar[i].emp = req[r].guar[j].emp => i = j

(* Nobody approves a request twice: of two steps of the same person only   *)
(* the first is asked.                                                     *)
NobodyApprovesTwice ==
  \A r \in Requests : \A k, l \in PersonSteps :
    k # l /\ req[r].by[k] # None => req[r].by[k] # req[r].by[l]

-----------------------------------------------------------------------------
Arrives(r) ==
  /\ CurrentStep(req'[r]) \in PersonSteps
  /\ CurrentStep(req'[r]) # CurrentStep(req[r])

Replacement(q, k, act) == IF k = "unit_manager" THEN UnitManager(q.emp, act) ELSE settings[k]

HasReplacement(q, k, act) == Replacement(q, k, act) \in (act \cap enabled) \ {q.emp}

(* A request that arrives at a person's step is given to somebody who can  *)
(* act if there is one, even when the approver stored at submission left.  *)
ArrivesAtUsable ==
  [][\A r \in Requests :
       Arrives(r) =>
         \/ req'[r].cur \in Usable
         \/ ~HasReplacement(req'[r], CurrentStep(req'[r]), active)]_vars

(* When employees leave, no request in review stays on the desk of one of  *)
(* them if somebody can take over.                                         *)
LeaversReplaced ==
  [][LET left == active \ active'
     IN  left # {} /\ EmployeesLeft(left, TRUE) =>
           \A r \in Requests :
             /\ CurrentStep(req'[r]) \in PersonSteps
             /\ req'[r].cur \in left
             => ~HasReplacement(req'[r], CurrentStep(req'[r]), active')]_vars

(* What was decided stands: the path never changes, it is never walked     *)
(* back, past approvers and accepted guarantees are not touched.           *)
DecisionsStand ==
  [][\A r \in Requests :
       LET q == req[r]  n == req'[r]
       IN  q.status # "none" =>
             /\ n.steps = q.steps /\ n.emp = q.emp
             /\ n.idx >= q.idx
             /\ \A k \in PersonSteps : q.by[k] # None =>
                  n.by[k] = q.by[k] /\ n.appr[k] = q.appr[k]
             /\ \A i \in DOMAIN q.guar :
                  q.guar[i].status = "accepted" => n.guar[i] = q.guar[i]]_vars

(* A request that joins the queue by itself gets a place behind everyone   *)
(* who waits there.                                                        *)
JoinsAtTheEnd ==
  [][\A r, s \in Requests :
       LET n == req'[r]
       IN  /\ req[r].status = "in_review" /\ n.status = "waiting_finance"
           /\ req[s].status = "waiting_finance"
           /\ ~n.outOfQueue
           => req[s].seq < n.seq]_vars

-----------------------------------------------------------------------------
(* The lifecycle each request goes through. *)
Phase(q) ==
  CASE q.status = "none"            -> "none"
    [] q.status = "in_review"       -> "review"
    [] q.status = "waiting_finance" -> "queue"
    [] q.status = "active"          -> "lent"
    [] q.status = "settled"         -> "repaid"
    [] OTHER                        -> "closed"

Lifecycle == INSTANCE LoanLifecycle WITH
  Borrowers <- Maybe(Employees),
  phase     <- [r \in Requests |-> Phase(req[r])],
  borrower  <- [r \in Requests |-> req[r].emp]

(* Every handler moves a request along that lifecycle or leaves its phase  *)
(* alone: nothing is paid twice, and what is closed stays closed.          *)
ImplementsLifecycle == Lifecycle!Spec
==============================================================================
