----------------------------- MODULE LoanProofs -----------------------------
(***************************************************************************)
(* What the provers establish of the loan requests for every set of        *)
(* employees, every policy and every bound.                                *)
(***************************************************************************)
EXTENDS LoanProperties, SequenceTheorems, WellFoundedInduction, TLAPS

(* A path is a finite sequence of steps that ends with finance. *)
LEMMA PathShape ==
  ASSUME NEW p \in StepPaths
  PROVE  /\ p \in Seq(StepKeys)
         /\ Len(p) \in Nat \ {0}
         /\ DOMAIN p = 1..Len(p)
         /\ \A i \in 1..Len(p) : p[i] \in StepKeys
         /\ p[Len(p)] = "finance"
<1>1. PICK n \in 1..5 : p \in [1..n -> StepKeys]
  BY DEF StepPaths
<1>2. p \in Seq(StepKeys) /\ Len(p) = n
  BY <1>1
<1> QED
  BY <1>1, <1>2 DEF StepPaths

(* The path of a request that waits before finance. *)
LEMMA EmptyPath == <<"finance">> \in StepPaths
<1>1. <<"finance">> \in [1..1 -> StepKeys]
  BY DEF StepKeys
<1> QED
  BY <1>1 DEF StepPaths, IsInjective

-----------------------------------------------------------------------------
(* A row whose next step lies on its path. *)
GoodRow == {q \in Row : q.idx < Len(q.steps)}

SiteSettings == [enabled : BOOLEAN, site_manager : Maybe(Employees),
                 hr : Maybe(Employees), lastSeq : Nat]

(* The unit manager who is looked up can act, or there is none. *)
LEMMA UnitManagerCanAct ==
  ASSUME NEW e, NEW act
  PROVE  UnitManager(e, act) \in (act \cap enabled) \cup {None}
BY DEF UnitManager

(* What neither a change of approvers nor the arrival at a step touches. *)
SameRequest(n, q) ==
  /\ n.emp = q.emp /\ n.type = q.type /\ n.steps = q.steps /\ n.idx = q.idx
  /\ n.by = q.by /\ n.outOfQueue = q.outOfQueue /\ n.guar = q.guar
  /\ n.first = q.first /\ n.inst = q.inst

(* Moving a request to other approvers changes its approvers and whose     *)
(* desk it is on, nothing else.                                            *)
LEMMA ReassignedRow ==
  ASSUME NEW q \in GoodRow, NEW now, NEW refresh \in BOOLEAN, NEW act,
         NEW st \in SiteSettings, enabled \subseteq Employees
  PROVE  LET n == Reassigned(q, now, refresh, act, st)
         IN  n \in GoodRow /\ SameRequest(n, q) /\ n.status = q.status /\ n.seq = q.seq
<1> DEFINE fresh   == Fresh(q, refresh, act, st)
           changes == PlanReassignment(q.steps, q.idx, q.appr, fresh, q.emp)
           a       == [k \in PersonSteps |-> IF k \in DOMAIN changes THEN changes[k] ELSE q.appr[k]]
           c       == IF now \in DOMAIN changes THEN changes[now] ELSE q.cur
<1>1. \A k \in DOMAIN fresh : fresh[k] \in Maybe(Employees)
  BY UnitManagerCanAct DEF Fresh, Maybe
<1>2. DOMAIN changes \subseteq DOMAIN fresh /\ \A k \in DOMAIN changes : changes[k] = fresh[k]
  BY DEF PlanReassignment
<1>3. q \in Row /\ q.idx < Len(q.steps) /\ q.appr \in Approvers /\ q.cur \in Maybe(Employees)
  BY DEF GoodRow, Row
<1>4. a \in Approvers
  BY <1>1, <1>2, <1>3 DEF Approvers
<1>5. c \in Maybe(Employees)
  BY <1>1, <1>2, <1>3
<1>6. Reassigned(q, now, refresh, act, st) = [q EXCEPT !.appr = a, !.cur = c]
  BY <1>3 DEF Reassigned, Row
<1> HIDE DEF a, c
<1> QED
  BY <1>3, <1>4, <1>5, <1>6 DEF GoodRow, Row, SameRequest

(* Coming to a step keeps the row typed, opens it, and changes at most its *)
(* approvers, its desk and its queue number.                               *)
LEMMA EnteredRow ==
  ASSUME NEW q \in GoodRow, active \subseteq Employees, enabled \subseteq Employees,
         settings \in SiteSettings
  PROVE  /\ Entered(q) \in GoodRow
         /\ SameRequest(Entered(q), q)
         /\ Entered(q).status = IF StepAt(q) = "finance" THEN "waiting_finance" ELSE "in_review"
         /\ Entered(q).seq = IF StepAt(q) = "finance" /\ q.seq = 0 /\ ~q.outOfQueue
                             THEN settings.lastSeq + 1 ELSE q.seq
<1>1. q \in Row /\ q.steps \in StepPaths /\ q.idx \in Nat /\ q.idx < Len(q.steps)
  BY DEF GoodRow, Row
<1>2. StepAt(q) \in StepKeys
  BY <1>1, PathShape DEF StepAt
<1>3. CASE StepAt(q) = "finance"
  <2> DEFINE n == IF q.seq = 0 /\ ~q.outOfQueue THEN settings.lastSeq + 1 ELSE q.seq
  <2>1. n \in Nat
    BY <1>1 DEF SiteSettings, Row
  <2>2. Entered(q) = [q EXCEPT !.status = "waiting_finance", !.cur = None, !.seq = n]
    BY <1>1, <1>3 DEF Entered, Row
  <2>3. n = IF StepAt(q) = "finance" /\ q.seq = 0 /\ ~q.outOfQueue
            THEN settings.lastSeq + 1 ELSE q.seq
    BY <1>3
  <2> HIDE DEF n
  <2> QED
    BY ZenonT(60), <1>1, <1>3, <2>1, <2>2, <2>3
    DEF GoodRow, Row, SameRequest, Statuses, UnsettledStatuses, OpenStatuses, Maybe
<1>4. CASE StepAt(q) = "guarantors"
  <2>1. Entered(q) = [q EXCEPT !.status = "in_review", !.cur = None]
    BY <1>4 DEF Entered
  <2> QED
    BY <1>1, <1>4, <2>1
    DEF GoodRow, Row, SameRequest, Statuses, UnsettledStatuses, OpenStatuses, Maybe
<1>5. CASE StepAt(q) \notin {"finance", "guarantors"}
  <2> DEFINE u == WithUsableApprover(q, StepAt(q))
  <2>1. u \in GoodRow /\ SameRequest(u, q) /\ u.status = q.status /\ u.seq = q.seq
    <3>1. CASE u = q
      BY <3>1 DEF SameRequest
    <3>2. LET n == Reassigned(q, "none", FALSE, active, settings)
          IN  n \in GoodRow /\ SameRequest(n, q) /\ n.status = q.status /\ n.seq = q.seq
      BY ZenonT(60), ReassignedRow
    <3>3. CASE u = Reassigned(q, "none", FALSE, active, settings)
      <4> HIDE DEF u
      <4> QED
        BY <3>2, <3>3
    <3> QED
      BY <3>1, <3>3 DEF WithUsableApprover
  <2>2. Entered(q) = [u EXCEPT !.status = "in_review", !.cur = u.appr[StepAt(q)]]
    BY <1>5 DEF Entered
  <2> HIDE DEF u
  <2>3. u.appr[StepAt(q)] \in Maybe(Employees)
    BY <1>2, <1>5, <2>1 DEF StepKeys, Approvers, GoodRow, Row
  <2> QED
    BY <1>1, <1>5, <2>1, <2>2, <2>3
    DEF GoodRow, Row, SameRequest, Statuses, UnsettledStatuses, OpenStatuses
<1> QED
  BY <1>3, <1>4, <1>5

(* The step after one that is not finance. *)
LEMMA AdvancedRow ==
  ASSUME NEW q \in GoodRow, active \subseteq Employees, enabled \subseteq Employees,
         settings \in SiteSettings, StepAt(q) # "finance"
  PROVE  /\ Advanced(q) \in GoodRow
         /\ SameRequest(Advanced(q), [q EXCEPT !.idx = @ + 1])
         /\ Advanced(q).status \in OpenStatuses
         /\ \/ Advanced(q).seq = q.seq /\ Advanced(q).status = "in_review"
            \/ /\ Advanced(q).status = "waiting_finance"
               /\ Advanced(q).seq = IF q.seq = 0 /\ ~q.outOfQueue
                                    THEN settings.lastSeq + 1 ELSE q.seq
<1> DEFINE n == [q EXCEPT !.idx = q.idx + 1]
<1>1. q \in Row /\ q.steps \in StepPaths /\ q.idx \in Nat /\ q.idx < Len(q.steps)
  BY DEF GoodRow, Row
<1>2. q.idx + 1 # Len(q.steps)
  BY <1>1, PathShape DEF StepAt
<1>3. q.idx + 1 \in Nat /\ q.idx + 1 < Len(q.steps)
  BY <1>1, <1>2, PathShape
<1>4. n \in GoodRow /\ n.seq = q.seq /\ n.outOfQueue = q.outOfQueue
  BY <1>1, <1>3 DEF GoodRow, Row
<1>5. Advanced(q) = Entered(n)
  BY <1>1 DEF Advanced
<1> HIDE DEF n
<1>6. /\ Entered(n) \in GoodRow
      /\ SameRequest(Entered(n), n)
      /\ Entered(n).status = IF StepAt(n) = "finance" THEN "waiting_finance" ELSE "in_review"
      /\ Entered(n).seq = IF StepAt(n) = "finance" /\ n.seq = 0 /\ ~n.outOfQueue
                          THEN settings.lastSeq + 1 ELSE n.seq
  BY <1>4, EnteredRow
<1>7. SameRequest(Advanced(q), [q EXCEPT !.idx = @ + 1])
  BY <1>5, <1>6 DEF n
<1> QED
  BY <1>4, <1>5, <1>6, <1>7 DEF OpenStatuses

-----------------------------------------------------------------------------
(* The inductive form of TypeOK: the step a request is at lies on its      *)
(* path, or its next handler would look beyond the end of it.              *)
Typed ==
  /\ active \subseteq Employees
  /\ enabled \subseteq Employees
  /\ karaUp \in BOOLEAN
  /\ settings \in SiteSettings
  /\ policy \in Policies
  /\ req \in [Requests -> GoodRow]

LEMMA SaveTyped ==
  ASSUME Typed, NEW r \in Requests, NEW q \in GoodRow, Save(r, q)
  PROVE  Typed'
BY DEF Typed, Save

LEMMA SaveInQueueTyped ==
  ASSUME Typed, NEW r \in Requests, NEW q \in GoodRow, SaveInQueue(r, q)
  PROVE  Typed'
<1>1. q.seq \in Nat
  BY DEF GoodRow, Row
<1>2. settings' \in SiteSettings
  BY <1>1 DEF Typed, SaveInQueue, SiteSettings
<1> QED
  BY <1>2 DEF Typed, SaveInQueue

LEMMA ClosedRow ==
  ASSUME NEW q \in GoodRow, NEW status \in ClosedStatuses
  PROVE  /\ Closed(q, status) \in GoodRow
         /\ SameRequest(Closed(q, status), q)
         /\ Closed(q, status).status = status
         /\ Closed(q, status).seq = q.seq
BY DEF Closed, GoodRow, Row, Statuses, Maybe, SameRequest

LEMMA FreshRow == NoRow \in GoodRow
BY EmptyPath DEF NoRow, NoOne, GoodRow, Row, Statuses, Maybe, Approvers

(* Settling keeps everything but the status. *)
LEMMA SyncedRow ==
  ASSUME NEW q \in GoodRow
  PROVE  /\ Synced(q) \in GoodRow
         /\ SameRequest(Synced(q), q)
         /\ Synced(q).status = IF AllPaid(q) THEN "settled" ELSE "active"
         /\ Synced(q).seq = q.seq
<1> DEFINE s == IF AllPaid(q) THEN "settled" ELSE "active"
<1>1. s \in Statuses
  BY DEF Statuses, PaidStatuses
<1>2. Synced(q) = [q EXCEPT !.status = s]
  BY DEF Synced
<1> HIDE DEF s
<1>3. Synced(q) \in GoodRow /\ SameRequest(Synced(q), q) /\ Synced(q).seq = q.seq
      /\ Synced(q).status = s
  BY <1>1, <1>2 DEF GoodRow, Row, SameRequest
<1> QED
  BY <1>3 DEF s

-----------------------------------------------------------------------------
LEMMA ReassignedAllTyped ==
  ASSUME NEW rows \in [Requests -> GoodRow], NEW chosen, NEW refresh \in BOOLEAN, NEW act,
         NEW st \in SiteSettings, enabled \subseteq Employees
  PROVE  /\ ReassignedAll(rows, chosen, refresh, act, st) \in [Requests -> GoodRow]
         /\ \A r \in Requests :
              /\ SameRequest(ReassignedAll(rows, chosen, refresh, act, st)[r], rows[r])
              /\ ReassignedAll(rows, chosen, refresh, act, st)[r].status = rows[r].status
              /\ ReassignedAll(rows, chosen, refresh, act, st)[r].seq = rows[r].seq
<1> DEFINE n(r) == ReassignedAll(rows, chosen, refresh, act, st)[r]
<1>1. ASSUME NEW r \in Requests
      PROVE  /\ n(r) \in GoodRow /\ SameRequest(n(r), rows[r])
             /\ n(r).status = rows[r].status /\ n(r).seq = rows[r].seq
  <2>1. CASE r \in chosen /\ rows[r].status = "in_review"
    <3>1. n(r) = Reassigned(rows[r], CurrentStep(rows[r]), refresh, act, st)
      BY <2>1 DEF ReassignedAll
    <3> HIDE DEF n
    <3> QED
      BY <3>1, ReassignedRow
  <2>2. CASE ~(r \in chosen /\ rows[r].status = "in_review")
    <3>1. n(r) = rows[r]
      BY <2>2 DEF ReassignedAll
    <3> HIDE DEF n
    <3> QED
      BY <3>1 DEF SameRequest
  <2> QED
    BY <2>1, <2>2
<1>2. DOMAIN ReassignedAll(rows, chosen, refresh, act, st) = Requests
  BY DEF ReassignedAll
<1>3. ReassignedAll(rows, chosen, refresh, act, st)
        = [r \in Requests |-> ReassignedAll(rows, chosen, refresh, act, st)[r]]
  BY DEF ReassignedAll
<1> QED
  BY <1>1, <1>2, <1>3

LEMMA CancelledOfTyped ==
  ASSUME Typed, NEW left
  PROVE  /\ CancelledOf(left) \in [Requests -> GoodRow]
         /\ \A r \in Requests :
              \/ CancelledOf(left)[r] = req[r]
              \/ /\ IsOpen(req[r])
                 /\ CancelledOf(left)[r] = Closed(req[r], "cancelled")
BY ClosedRow DEF Typed, CancelledOf, ClosedStatuses

(* A guarantor who answered or was replaced. *)
LEMMA GuarantorRow ==
  ASSUME NEW q \in GoodRow, NEW i \in DOMAIN q.guar, NEW g \in Guarantor
  PROVE  LET n == [q EXCEPT !.guar[i] = g]
         IN  /\ n \in GoodRow /\ n.emp = q.emp /\ n.status = q.status /\ n.seq = q.seq
             /\ n.inst = q.inst /\ n.outOfQueue = q.outOfQueue /\ n.idx = q.idx
             /\ n.steps = q.steps
<1>1. q.guar \in Seq(Guarantor)
  BY DEF GoodRow, Row
<1> DEFINE s == [q.guar EXCEPT ![i] = g]
<1>2. s \in Seq(Guarantor)
  BY <1>1
<1>3. [q EXCEPT !.guar[i] = g] = [q EXCEPT !.guar = s]
  OBVIOUS
<1> HIDE DEF s
<1> QED
  BY <1>2, <1>3 DEF GoodRow, Row

(* An installment that was ticked or un-ticked. *)
LEMMA InstallmentRow ==
  ASSUME NEW q \in GoodRow, NEW i \in DOMAIN q.inst, NEW m \in Marks
  PROVE  LET n == [q EXCEPT !.inst[i] = m]
         IN  /\ n \in GoodRow /\ n.emp = q.emp /\ n.status = q.status /\ n.seq = q.seq
             /\ n.outOfQueue = q.outOfQueue /\ n.inst = [q.inst EXCEPT ![i] = m]
<1>1. q.inst \in Seq(Marks)
  BY DEF GoodRow, Row
<1> DEFINE s == [q.inst EXCEPT ![i] = m]
<1>2. s \in Seq(Marks)
  BY <1>1
<1>3. [q EXCEPT !.inst[i] = m] = [q EXCEPT !.inst = s]
  OBVIOUS
<1> HIDE DEF s
<1>4. [q EXCEPT !.inst[i] = m].inst = s
  BY <1>3 DEF GoodRow, Row
<1>5. [q EXCEPT !.inst[i] = m] \in GoodRow
  BY <1>2, <1>3 DEF GoodRow, Row
<1> QED
  BY <1>3, <1>4, <1>5 DEF GoodRow, Row, s

-----------------------------------------------------------------------------
(* What one handler may do to one request: q before, n after. *)
Kept(q, n) ==
  /\ n.emp = q.emp /\ n.status = q.status /\ n.seq = q.seq
  /\ n.outOfQueue = q.outOfQueue /\ n.inst = q.inst

Given(q, n) ==  \* the queue number of a request that may reach the queue
  n.seq = IF n.status = "waiting_finance" /\ q.seq = 0 /\ ~n.outOfQueue
          THEN settings.lastSeq + 1 ELSE q.seq

Born(q, n) ==
  /\ q.status = "none" /\ n.status \in OpenStatuses /\ n.inst = <<>>
  /\ \A s \in Requests : IsOpen(req[s]) => req[s].emp # n.emp
  /\ n.outOfQueue => n.seq = 0
  /\ n.status = "waiting_finance" /\ ~n.outOfQueue => n.seq > 0
  /\ n.status = "in_review" => n.seq = 0

Moved(q, n) ==
  /\ q.status = "in_review" /\ n.status \in OpenStatuses
  /\ n.emp = q.emp /\ n.inst = q.inst /\ n.outOfQueue = q.outOfQueue /\ Given(q, n)

Renumbered(q, n) ==
  /\ q.status = "waiting_finance" /\ ~q.outOfQueue /\ n.seq > 0
  /\ n.emp = q.emp /\ n.status = q.status /\ n.outOfQueue = q.outOfQueue /\ n.inst = q.inst

Ended(q, n) ==
  /\ IsOpen(q) /\ n.status \in ClosedStatuses
  /\ n.emp = q.emp /\ n.seq = q.seq /\ n.outOfQueue = q.outOfQueue /\ n.inst = q.inst

Paid(q, n) ==
  /\ q.status = "waiting_finance" /\ n.status = "active"
  /\ n.emp = q.emp /\ n.seq = q.seq /\ n.outOfQueue = q.outOfQueue
  /\ n.inst # <<>> /\ ~AllPaid(n)
  /\ \A i \in DOMAIN n.inst : n.inst[i] = "unpaid"

Twice(q, i, j) ==  \* the same payslip has paid two installments
  i # j /\ q.inst[i] = q.inst[j] /\ q.inst[i] \in Slips

Marked(q, n) ==
  /\ q.status \in PaidStatuses
  /\ n.status = IF AllPaid(n) THEN "settled" ELSE "active"
  /\ n.emp = q.emp /\ n.seq = q.seq /\ n.outOfQueue = q.outOfQueue
  /\ q.inst # <<>> => n.inst # <<>>
  /\ DOMAIN n.inst = DOMAIN q.inst
  /\ \A i, j \in DOMAIN n.inst : Twice(n, i, j) => Twice(q, i, j)

OneRow(r) ==
  LET q == req[r]  n == req'[r]
  IN  /\ \A s \in Requests \ {r} : req'[s] = req[s]
      /\ n.seq = q.seq \/ n.seq <= settings'.lastSeq
      /\ \/ Kept(q, n) \/ Born(q, n) \/ Moved(q, n) \/ Renumbered(q, n)
         \/ Ended(q, n) \/ Paid(q, n) \/ Marked(q, n)

AllRows ==
  \/ \A r \in Requests : Kept(req[r], req'[r]) \/ Ended(req[r], req'[r])
  \/ \A r \in Requests :
       Kept(req[r], req'[r]) \/ (req[r].status = "active" /\ Marked(req[r], req'[r]))

Effect ==
  /\ Typed'
  /\ settings'.lastSeq >= settings.lastSeq
  /\ AllRows \/ \E r \in Requests : OneRow(r)

(* Saving one row has the effect of that row's change. *)
LEMMA SaveEffect ==
  ASSUME Typed, NEW r \in Requests, NEW q \in GoodRow, Save(r, q),
         \/ Kept(req[r], q) \/ Ended(req[r], q) \/ Paid(req[r], q) \/ Marked(req[r], q)
  PROVE  Effect
<1>1. req'[r] = q /\ \A s \in Requests \ {r} : req'[s] = req[s]
  BY DEF Save, Typed
<1>2. settings' = settings /\ settings.lastSeq \in Nat
  BY DEF Save, Typed, SiteSettings
<1>3. q.seq = req[r].seq
  BY DEF Kept, Ended, Paid, Marked
<1>4. OneRow(r)
  BY <1>1, <1>2, <1>3 DEF OneRow
<1>5. Typed'
  BY SaveTyped
<1> QED
  BY <1>2, <1>4, <1>5 DEF Effect

LEMMA SaveInQueueEffect ==
  ASSUME Typed, NEW r \in Requests, NEW q \in GoodRow, SaveInQueue(r, q),
         \/ Kept(req[r], q) \/ Born(req[r], q) \/ Moved(req[r], q) \/ Renumbered(req[r], q)
  PROVE  Effect
<1>1. req'[r] = q /\ \A s \in Requests \ {r} : req'[s] = req[s]
  BY DEF SaveInQueue, Typed
<1>2. settings.lastSeq \in Nat /\ q.seq \in Nat
  BY DEF Typed, SiteSettings, GoodRow, Row
<1>3. settings'.lastSeq = IF settings.lastSeq < q.seq THEN q.seq ELSE settings.lastSeq
  BY DEF SaveInQueue, Typed, SiteSettings
<1>4. q.seq <= settings'.lastSeq /\ settings'.lastSeq >= settings.lastSeq
  BY <1>2, <1>3
<1>5. OneRow(r)
  BY <1>1, <1>4 DEF OneRow
<1>6. Typed'
  BY SaveInQueueTyped
<1> QED
  BY <1>4, <1>5, <1>6 DEF Effect

-----------------------------------------------------------------------------
(* One lemma for each handler: its effect on the rows. *)
LEMMA SubmitEffect ==
  ASSUME Typed, NEW r \in Requests, NEW e \in Employees, NEW t \in LoanTypes,
         NEW gs \in SUBSET Employees, Submit(r, e, t, gs)
  PROVE  Effect
<1> DEFINE need   == Type[t].guarantors
           person == [k \in PersonSteps |->
                        IF k \notin Range(policy.steps) THEN None
                        ELSE IF k = "unit_manager" THEN UnitManager(e, active)
                        ELSE settings[k]]
           guar(order) == [i \in 1..need |-> [emp |-> order[i], status |-> "pending"]]
           new(path, order) == [NoRow EXCEPT
             !.emp = e, !.type = t, !.steps = path, !.appr = person,
             !.outOfQueue = Type[t].outOfQueue, !.guar = guar(order)]
<1>1. PICK path \in StepPaths, order \in [1..need -> gs] :
        SaveInQueue(r, Entered(new(path, order)))
  BY DEF Submit
<1> DEFINE q == new(path, order)
<1>2. person \in Approvers
  BY UnitManagerCanAct DEF Typed, SiteSettings, Approvers, PersonSteps, Maybe
<1>3. need \in Nat /\ Type[t].outOfQueue \in BOOLEAN
  BY LoanAssumption
<1>4. guar(order) \in Seq(Guarantor)
  <2>1. guar(order) \in [1..need -> Guarantor]
    BY <1>1 DEF Guarantor
  <2> HIDE DEF guar
  <2> QED
    BY <1>3, <2>1
<1> HIDE DEF person, guar
<1>5. 0 < Len(path)
  BY PathShape
<1>6. q \in GoodRow /\ q.emp = e /\ q.inst = <<>> /\ q.seq = 0
      /\ q.outOfQueue = Type[t].outOfQueue
  BY <1>2, <1>3, <1>4, <1>5, FreshRow DEF NoRow, GoodRow, Row, Maybe
<1>7. SaveInQueue(r, Entered(q))
  BY <1>1
<1> HIDE DEF q
<1>8. /\ Entered(q) \in GoodRow
      /\ SameRequest(Entered(q), q)
      /\ Entered(q).status = IF StepAt(q) = "finance" THEN "waiting_finance" ELSE "in_review"
      /\ Entered(q).seq = IF StepAt(q) = "finance" /\ q.seq = 0 /\ ~q.outOfQueue
                          THEN settings.lastSeq + 1 ELSE q.seq
  BY <1>6, EnteredRow DEF Typed
<1>9. settings.lastSeq + 1 > 0
  BY DEF Typed, SiteSettings
<1>10. req[r].status = "none" /\ ~HasOpen(e)
  BY DEF Submit, FreeId
<1>11. Born(req[r], Entered(q))
  BY <1>6, <1>8, <1>9, <1>10 DEF Born, HasOpen, SameRequest, OpenStatuses
<1> QED
  BY <1>7, <1>8, <1>11, SaveInQueueEffect

LEMMA CancelEffect ==
  ASSUME Typed, NEW r \in Requests, Cancel(r)
  PROVE  Effect
<1>1. req[r] \in GoodRow /\ IsOpen(req[r]) /\ Save(r, Closed(req[r], "cancelled"))
  BY DEF Typed, Cancel
<1>2. Ended(req[r], Closed(req[r], "cancelled"))
  BY <1>1, ClosedRow DEF Ended, SameRequest, ClosedStatuses
<1> QED
  BY <1>1, <1>2, ClosedRow, SaveEffect DEF ClosedStatuses

LEMMA ReplaceGuarantorEffect ==
  ASSUME Typed, NEW r \in Requests, NEW i \in DOMAIN req[r].guar, NEW g \in Employees,
         ReplaceGuarantor(r, i, g)
  PROVE  Effect
<1> DEFINE new == [emp |-> g, status |-> "pending"]
           n   == [req[r] EXCEPT !.guar[i] = new]
<1>1. req[r] \in GoodRow /\ new \in Guarantor
  BY DEF Typed, Guarantor
<1>2. Save(r, n)
  BY DEF ReplaceGuarantor
<1> HIDE DEF new
<1>3. n \in GoodRow /\ Kept(req[r], n)
  BY <1>1, GuarantorRow DEF Kept
<1> QED
  BY <1>2, <1>3, SaveEffect

(* A step was decided and the request goes on. *)
LEMMA AdvanceEffect ==
  ASSUME Typed, NEW r \in Requests, NEW q \in GoodRow, SaveInQueue(r, Advanced(q)),
         req[r].status = "in_review", StepAt(q) # "finance",
         q.emp = req[r].emp, q.inst = req[r].inst, q.outOfQueue = req[r].outOfQueue,
         q.seq = req[r].seq
  PROVE  Effect
<1>1. /\ Advanced(q) \in GoodRow
      /\ SameRequest(Advanced(q), [q EXCEPT !.idx = @ + 1])
      /\ Advanced(q).status \in OpenStatuses
      /\ \/ Advanced(q).seq = q.seq /\ Advanced(q).status = "in_review"
         \/ /\ Advanced(q).status = "waiting_finance"
            /\ Advanced(q).seq = IF q.seq = 0 /\ ~q.outOfQueue
                                 THEN settings.lastSeq + 1 ELSE q.seq
  BY AdvancedRow DEF Typed
<1>2. Advanced(q).emp = q.emp /\ Advanced(q).inst = q.inst
      /\ Advanced(q).outOfQueue = q.outOfQueue
  BY <1>1 DEF SameRequest, GoodRow, Row
<1>3. Moved(req[r], Advanced(q))
  BY <1>1, <1>2 DEF Moved, Given
<1> QED
  BY <1>1, <1>3, SaveInQueueEffect

LEMMA GuaranteeDecideEffect ==
  ASSUME Typed, NEW r \in Requests, NEW i \in DOMAIN req[r].guar, NEW accept \in BOOLEAN,
         GuaranteeDecide(r, i, accept)
  PROVE  Effect
<1> DEFINE answer == IF accept THEN "accepted" ELSE "rejected"
           new    == [req[r].guar[i] EXCEPT !.status = answer]
           d      == [req[r] EXCEPT !.guar[i] = new]
<1>1. req[r] \in GoodRow /\ req[r].guar \in Seq(Guarantor)
  BY DEF Typed, GoodRow, Row
<1>2. new \in Guarantor
  <2>1. req[r].guar[i] \in Guarantor
    BY <1>1
  <2>2. answer \in {"pending", "accepted", "rejected"}
    OBVIOUS
  <2> HIDE DEF answer
  <2> QED
    BY <2>1, <2>2 DEF Guarantor
<1>3. d = [req[r] EXCEPT !.guar[i].status = IF accept THEN "accepted" ELSE "rejected"]
  OBVIOUS
<1>4. SaveInQueue(r, Advanced(d)) \/ SaveInQueue(r, d)
  BY <1>3 DEF GuaranteeDecide
<1>5. req[r].status = "in_review" /\ StepAt(req[r]) = "guarantors"
  BY DEF GuaranteeDecide, CurrentStep
<1> HIDE DEF new
<1>6. /\ d \in GoodRow /\ d.emp = req[r].emp /\ d.status = req[r].status
      /\ d.seq = req[r].seq /\ d.inst = req[r].inst /\ d.outOfQueue = req[r].outOfQueue
      /\ d.idx = req[r].idx /\ d.steps = req[r].steps
  BY <1>1, <1>2, GuarantorRow
<1> HIDE DEF d
<1>7. StepAt(d) # "finance"
  BY <1>5, <1>6 DEF StepAt
<1>8. Kept(req[r], d)
  BY <1>6 DEF Kept
<1> QED
  BY <1>4, <1>5, <1>6, <1>7, <1>8, AdvanceEffect, SaveInQueueEffect

LEMMA ApproveEffect ==
  ASSUME Typed, NEW r \in Requests, NEW e \in Employees, Approve(r, e)
  PROVE  Effect
<1> DEFINE q == [req[r] EXCEPT !.by[StepAt(req[r])] = e]
           b == [req[r].by EXCEPT ![StepAt(req[r])] = e]
<1>1. req[r] \in GoodRow /\ req[r].by \in Approvers
  BY DEF Typed, GoodRow, Row
<1>2. req[r].status = "in_review" /\ StepAt(req[r]) \in PersonSteps
  BY DEF Approve, CurrentStep, PersonSteps
<1>3. b \in Approvers /\ q = [req[r] EXCEPT !.by = b]
  BY <1>1 DEF Approvers, Maybe
<1>4. SaveInQueue(r, Advanced(q))
  BY DEF Approve
<1> HIDE DEF b
<1>5. /\ q \in GoodRow /\ q.emp = req[r].emp /\ q.seq = req[r].seq /\ q.inst = req[r].inst
      /\ q.outOfQueue = req[r].outOfQueue /\ q.idx = req[r].idx /\ q.steps = req[r].steps
  BY <1>1, <1>3 DEF GoodRow, Row
<1> HIDE DEF q
<1>6. StepAt(q) # "finance"
  BY <1>2, <1>5 DEF StepAt, PersonSteps
<1> QED
  BY <1>2, <1>4, <1>5, <1>6, AdvanceEffect

LEMMA RejectEffect ==
  ASSUME Typed, NEW r \in Requests, NEW e \in Employees, Reject(r, e)
  PROVE  Effect
<1>1. req[r] \in GoodRow /\ Save(r, Closed(req[r], "rejected"))
  BY DEF Typed, Reject
<1>2. IsOpen(req[r])
  BY DEF Reject, CurrentStep, PersonSteps, IsOpen, OpenStatuses
<1>3. Ended(req[r], Closed(req[r], "rejected"))
  BY <1>1, <1>2, ClosedRow DEF Ended, SameRequest, ClosedStatuses
<1> QED
  BY <1>1, <1>3, ClosedRow, SaveEffect DEF ClosedStatuses

LEMMA FinancePayEffect ==
  ASSUME Typed, NEW r \in Requests, NEW n \in 1..MaxInst, NEW first \in Months,
         FinancePay(r, n, first)
  PROVE  Effect
<1> DEFINE inst == [i \in 1..n |-> "unpaid"]
           q    == [req[r] EXCEPT !.status = "active", !.first = first, !.inst = inst]
<1>1. req[r] \in GoodRow /\ req[r].status = "waiting_finance" /\ Save(r, q)
  BY DEF Typed, FinancePay
<1>2. n \in Nat /\ n >= 1 /\ first \in Nat
  BY LoanAssumption DEF Months
<1>3. inst \in [1..n -> Marks]
  BY DEF Marks
<1>4. inst \in Seq(Marks) /\ inst # <<>> /\ DOMAIN inst = 1..n
      /\ \A i \in 1..n : inst[i] = "unpaid"
  BY <1>2, <1>3
<1> HIDE DEF inst
<1>5. /\ q \in GoodRow /\ q.status = "active" /\ q.inst = inst /\ q.emp = req[r].emp
      /\ q.seq = req[r].seq /\ q.outOfQueue = req[r].outOfQueue
  BY <1>1, <1>2, <1>4 DEF GoodRow, Row, Statuses, PaidStatuses
<1> HIDE DEF q
<1>6. ~AllPaid(q)
  BY <1>2, <1>4, <1>5 DEF AllPaid
<1>7. Paid(req[r], q)
  BY <1>1, <1>4, <1>5, <1>6 DEF Paid
<1> QED
  BY <1>1, <1>5, <1>7, SaveEffect

LEMMA FinanceRejectEffect ==
  ASSUME Typed, NEW r \in Requests, FinanceReject(r)
  PROVE  Effect
<1>1. req[r] \in GoodRow /\ IsOpen(req[r]) /\ Save(r, Closed(req[r], "rejected"))
  BY DEF Typed, FinanceReject
<1>2. Ended(req[r], Closed(req[r], "rejected"))
  BY <1>1, ClosedRow DEF Ended, SameRequest, ClosedStatuses
<1> QED
  BY <1>1, <1>2, ClosedRow, SaveEffect DEF ClosedStatuses

LEMMA FinanceSetQueueEffect ==
  ASSUME Typed, NEW r \in Requests, NEW seq \in 1..MaxSeq, FinanceSetQueue(r, seq)
  PROVE  Effect
<1> DEFINE q == [req[r] EXCEPT !.seq = seq]
<1>1. req[r] \in GoodRow /\ SaveInQueue(r, q)
  BY DEF Typed, FinanceSetQueue
<1>2. seq \in Nat /\ seq > 0
  BY LoanAssumption
<1>3. q \in GoodRow /\ Renumbered(req[r], q)
  BY <1>1, <1>2 DEF FinanceSetQueue, Renumbered, GoodRow, Row
<1> QED
  BY <1>1, <1>3, SaveInQueueEffect

(* Ticking or un-ticking one installment of a loan that was paid out. *)
LEMMA TickedRow ==
  ASSUME NEW q \in GoodRow, q.status \in PaidStatuses, NEW i \in DOMAIN q.inst, NEW m \in Marks,
         m \in Slips => \A j \in DOMAIN q.inst : q.inst[j] # m
  PROVE  /\ Synced([q EXCEPT !.inst[i] = m]) \in GoodRow
         /\ Marked(q, Synced([q EXCEPT !.inst[i] = m]))
<1> DEFINE n == [q EXCEPT !.inst[i] = m]
<1>1. /\ n \in GoodRow /\ n.emp = q.emp /\ n.status = q.status /\ n.seq = q.seq
      /\ n.outOfQueue = q.outOfQueue /\ n.inst = [q.inst EXCEPT ![i] = m]
  BY InstallmentRow
<1>2. n.inst # <<>>
  <2>1. DOMAIN n.inst = DOMAIN q.inst
    BY <1>1
  <2> QED
    BY <2>1
<1>6. DOMAIN n.inst = DOMAIN q.inst /\ \A j, k \in DOMAIN n.inst : Twice(n, j, k) => Twice(q, j, k)
  BY <1>1 DEF Twice
<1> HIDE DEF n
<1>3. /\ Synced(n) \in GoodRow /\ SameRequest(Synced(n), n) /\ Synced(n).seq = n.seq
      /\ Synced(n).status = IF AllPaid(n) THEN "settled" ELSE "active"
  BY <1>1, SyncedRow
<1>4. AllPaid(Synced(n)) <=> AllPaid(n)
  BY <1>3 DEF AllPaid, SameRequest
<1>5. Marked(q, Synced(n))
  BY <1>1, <1>2, <1>3, <1>4, <1>6 DEF Marked, SameRequest, Twice
<1> QED
  BY <1>3, <1>5 DEF n

LEMMA FinanceToggleEffect ==
  ASSUME Typed, NEW r \in Requests, NEW i \in DOMAIN req[r].inst,
         FinanceToggleInstallment(r, i)
  PROVE  Effect
<1> DEFINE m == IF req[r].inst[i] = "unpaid" THEN "manual" ELSE "unpaid"
           n == Synced([req[r] EXCEPT !.inst[i] = m])
<1>1. req[r] \in GoodRow /\ req[r].status \in PaidStatuses
  BY DEF Typed, FinanceToggleInstallment
<1>2. Save(r, n)
  BY DEF FinanceToggleInstallment
<1>3. m \in Marks /\ m \notin Slips
  BY LoanAssumption DEF Marks, Slips
<1> HIDE DEF m
<1>4. n \in GoodRow /\ Marked(req[r], n)
  BY <1>1, <1>3, TickedRow
<1> QED
  BY <1>2, <1>4, SaveEffect

LEMMA FinanceSettleEffect ==
  ASSUME Typed, NEW r \in Requests, FinanceSettle(r)
  PROVE  Effect
<1> DEFINE old  == req[r].inst
           inst == [i \in DOMAIN old |-> IF old[i] = "unpaid" THEN "manual" ELSE old[i]]
           q    == [req[r] EXCEPT !.status = "settled", !.inst = inst]
<1>1. req[r] \in GoodRow /\ req[r].status = "active" /\ old \in Seq(Marks)
  BY DEF Typed, FinanceSettle, GoodRow, Row
<1>2. Save(r, q)
  BY DEF FinanceSettle
<1>3. inst \in Seq(Marks) /\ DOMAIN inst = DOMAIN old /\ \A i \in DOMAIN inst : inst[i] # "unpaid"
  <2>1. inst \in [1..Len(old) -> Marks]
    BY <1>1 DEF Marks
  <2> QED
    BY <1>1, <2>1
<1>4. old # <<>> => inst # <<>>
  BY <1>1, <1>3
<1>7. \A i, j \in DOMAIN inst : inst[i] = inst[j] /\ inst[i] \in Slips => old[i] = old[j]
                                                                     /\ old[i] \in Slips
  BY LoanAssumption DEF Slips
<1> HIDE DEF inst
<1>5. /\ q \in GoodRow /\ q.status = "settled" /\ q.inst = inst /\ q.emp = req[r].emp
      /\ q.seq = req[r].seq /\ q.outOfQueue = req[r].outOfQueue
  BY <1>1, <1>3 DEF GoodRow, Row, Statuses, PaidStatuses
<1> HIDE DEF q
<1>6. Marked(req[r], q)
  BY <1>1, <1>3, <1>4, <1>5, <1>7 DEF Marked, AllPaid, PaidStatuses, Twice
<1> QED
  BY <1>2, <1>5, <1>6, SaveEffect

LEMMA FinanceManualEffect ==
  ASSUME Typed, NEW r \in Requests, NEW e \in Employees, NEW t \in LoanTypes \cup {None},
         NEW own \in BOOLEAN, NEW seq \in 0..MaxSeq, FinanceManual(r, e, t, own, seq)
  PROVE  Effect
<1> DEFINE out == IF t = None THEN own ELSE Type[t].outOfQueue
           num == IF out THEN 0 ELSE IF seq > 0 THEN seq ELSE settings.lastSeq + 1
           q   == [NoRow EXCEPT !.status = "waiting_finance", !.emp = e, !.type = t,
                                !.outOfQueue = out, !.seq = num]
<1>1. SaveInQueue(r, q) /\ req[r].status = "none" /\ ~HasOpen(e)
  BY DEF FinanceManual, FreeId
<1>2. out \in BOOLEAN
  BY LoanAssumption
<1>3. num \in Nat /\ (out => num = 0) /\ (~out => num > 0)
  BY <1>2, LoanAssumption DEF Typed, SiteSettings
<1> HIDE DEF out, num
<1>4. /\ q \in GoodRow /\ q.status = "waiting_finance" /\ q.emp = e /\ q.outOfQueue = out
      /\ q.seq = num /\ q.inst = <<>>
  BY <1>2, <1>3, FreshRow
  DEF NoRow, GoodRow, Row, Maybe, Statuses, UnsettledStatuses, OpenStatuses
<1> HIDE DEF q
<1>5. Born(req[r], q)
  BY <1>1, <1>3, <1>4 DEF Born, HasOpen, OpenStatuses
<1> QED
  BY <1>1, <1>4, <1>5, SaveInQueueEffect

(* The payslip always finds the installment it pays: the first unpaid one. *)
LEMMA FirstUnpaidExists ==
  ASSUME NEW q \in GoodRow, ~AllPaid(q)
  PROVE  FirstUnpaid(q) \in DOMAIN q.inst
<1> DEFINE U == {i \in DOMAIN q.inst : q.inst[i] = "unpaid"}
<1>1. DOMAIN q.inst = 1..Len(q.inst) /\ Len(q.inst) \in Nat
  BY DEF GoodRow, Row
<1>2. U # {} /\ U \subseteq Nat
  BY <1>1 DEF AllPaid
<1>3. PICK m \in U : \A j \in U : <<j, m>> \notin OpToRel(<, Nat)
  <2> HIDE DEF U
  <2> QED
    BY <1>2, NatLessThanWellFounded, WFMin
<1>4. \A j \in DOMAIN q.inst : j < m => q.inst[j] # "unpaid"
  BY <1>1, <1>2, <1>3 DEF OpToRel
<1> QED
  BY <1>3, <1>4 DEF FirstUnpaid

LEMMA ApplyPayslipsEffect ==
  ASSUME Typed, NEW slip \in Slips, NEW matched \in SUBSET Requests,
         ApplyPayslips(slip, matched)
  PROVE  Effect
<1>1. slip \in Marks
  BY DEF Marks
<1>2. ASSUME NEW r \in Requests
      PROVE  /\ req'[r] \in GoodRow
             /\ \/ Kept(req[r], req'[r])
                \/ req[r].status = "active" /\ Marked(req[r], req'[r])
  <2>1. req[r] \in GoodRow
    BY DEF Typed
  <2>2. CASE r \in matched /\ SlipApplies(req[r], slip)
    <3>1. req'[r] = Synced([req[r] EXCEPT !.inst[FirstUnpaid(req[r])] = slip])
      BY <2>2 DEF ApplyPayslips
    <3>2. /\ req[r].status = "active" /\ FirstUnpaid(req[r]) \in DOMAIN req[r].inst
          /\ \A j \in DOMAIN req[r].inst : req[r].inst[j] # slip
      BY <2>1, <2>2, FirstUnpaidExists DEF SlipApplies
    <3> QED
      BY <1>1, <2>1, <3>1, <3>2, TickedRow DEF PaidStatuses
  <2>3. CASE ~(r \in matched /\ SlipApplies(req[r], slip))
    <3>1. req'[r] = req[r]
      BY <2>3 DEF ApplyPayslips
    <3> QED
      BY <2>1, <3>1 DEF Kept
  <2> QED
    BY <2>2, <2>3
<1>3. req' = [r \in Requests |-> req'[r]]
  BY DEF ApplyPayslips
<1>4. req' \in [Requests -> GoodRow]
  BY <1>2, <1>3
<1>5. UNCHANGED <<active, enabled, karaUp, settings, policy>>
  BY DEF ApplyPayslips
<1>6. Typed' /\ settings'.lastSeq >= settings.lastSeq
  BY <1>4, <1>5 DEF Typed, SiteSettings
<1>7. AllRows
  BY <1>2 DEF AllRows
<1> QED
  BY <1>6, <1>7 DEF Effect

-----------------------------------------------------------------------------
(* Requests that only change hands. *)
LEMMA ReassignedAllEffect ==
  ASSUME Typed, NEW rows \in [Requests -> GoodRow],
         NEW chosen, NEW refresh \in BOOLEAN, NEW act, NEW st \in SiteSettings,
         \A r \in Requests : Kept(req[r], rows[r]) \/ Ended(req[r], rows[r]),
         req' = ReassignedAll(rows, chosen, refresh, act, st)
  PROVE  /\ req' \in [Requests -> GoodRow]
         /\ \A r \in Requests : Kept(req[r], req'[r]) \/ Ended(req[r], req'[r])
<1> DEFINE new == ReassignedAll(rows, chosen, refresh, act, st)
<1>1. enabled \subseteq Employees
  BY DEF Typed
<1>2. /\ new \in [Requests -> GoodRow]
      /\ \A r \in Requests : /\ SameRequest(new[r], rows[r])
                             /\ new[r].status = rows[r].status
                             /\ new[r].seq = rows[r].seq
  BY <1>1, ReassignedAllTyped
<1> HIDE DEF new
<1> QED
  BY <1>2 DEF Kept, Ended, SameRequest, new

(* A step that closes or hands over requests and leaves the queue alone. *)
LEMMA HandsEffect ==
  ASSUME Typed, req' \in [Requests -> GoodRow],
         \A r \in Requests : Kept(req[r], req'[r]) \/ Ended(req[r], req'[r]),
         settings' \in SiteSettings, settings'.lastSeq = settings.lastSeq,
         active' \subseteq Employees, enabled' \subseteq Employees, karaUp' \in BOOLEAN,
         policy' \in Policies
  PROVE  Effect
<1>1. Typed'
  BY DEF Typed
<1>2. settings'.lastSeq >= settings.lastSeq
  BY DEF SiteSettings
<1> QED
  BY <1>1, <1>2 DEF Effect, AllRows

LEMMA NoRequestEffect ==
  ASSUME Typed, UNCHANGED <<settings, req>>, active' \subseteq Employees,
         enabled' \subseteq Employees, karaUp' \in BOOLEAN, policy' \in Policies
  PROVE  Effect
BY HandsEffect DEF Typed, Kept

LEMMA UpdateSiteSettingsEffect ==
  ASSUME Typed, NEW on \in BOOLEAN, NEW manager, NEW hr,
         UpdateSiteSettings(on, manager, hr)
  PROVE  Effect
<1> DEFINE st == [settings EXCEPT !.enabled = on, !.site_manager = manager, !.hr = hr]
<1>1. {manager, hr} \subseteq Maybe(Employees)
  BY DEF UpdateSiteSettings, Usable, Typed, Maybe
<1>2. st \in SiteSettings /\ st.lastSeq = settings.lastSeq
  BY <1>1 DEF Typed, SiteSettings
<1>3. settings' = st /\ req' = ReassignedAll(req, Requests, FALSE, active, st)
      /\ UNCHANGED <<active, enabled, karaUp, policy>>
  BY DEF UpdateSiteSettings
<1> HIDE DEF st
<1>4. \A r \in Requests : Kept(req[r], req[r])
  BY DEF Kept
<1>5. /\ req' \in [Requests -> GoodRow]
      /\ \A r \in Requests : Kept(req[r], req'[r]) \/ Ended(req[r], req'[r])
  BY <1>2, <1>3, <1>4, ReassignedAllEffect DEF Typed
<1> QED
  BY <1>2, <1>3, <1>5, HandsEffect DEF Typed

LEMMA ReassignApproversEffect ==
  ASSUME Typed, ReassignApprovers
  PROVE  Effect
<1>1. \A r \in Requests : Kept(req[r], req[r])
  BY DEF Kept
<1>2. /\ req' \in [Requests -> GoodRow]
      /\ \A r \in Requests : Kept(req[r], req'[r]) \/ Ended(req[r], req'[r])
  BY <1>1, ReassignedAllEffect DEF Typed, ReassignApprovers
<1> QED
  BY <1>2, HandsEffect DEF Typed, ReassignApprovers

LEMMA EmployeesLeftEffect ==
  ASSUME Typed, NEW left \in SUBSET Employees, NEW moved \in BOOLEAN,
         EmployeesLeft(left, moved)
  PROVE  Effect
<1> DEFINE rows   == IF Cardinality(left) <= MaxAutoCancel THEN CancelledOf(left) ELSE req
           onPath == {r \in Requests : \E k \in PersonSteps : req[r].appr[k] \in left}
<1>1. rows = CancelledOf(left) \/ rows = req
  OBVIOUS
<1>2. \/ req' = ReassignedAll(rows, onPath, FALSE, active \ left, settings)
      \/ req' = req
  BY DEF EmployeesLeft
<1> HIDE DEF rows, onPath
<1>3. rows \in [Requests -> GoodRow]
  BY <1>1, CancelledOfTyped DEF Typed
<1>4. ASSUME NEW r \in Requests
      PROVE  Kept(req[r], rows[r]) \/ Ended(req[r], rows[r])
  <2>1. \/ rows[r] = req[r]
        \/ IsOpen(req[r]) /\ rows[r] = Closed(req[r], "cancelled")
    BY <1>1, CancelledOfTyped
  <2>2. req[r] \in GoodRow
    BY DEF Typed
  <2>3. CASE rows[r] = req[r]
    BY <2>3 DEF Kept
  <2>4. CASE IsOpen(req[r]) /\ rows[r] = Closed(req[r], "cancelled")
    BY <2>2, <2>4, ClosedRow DEF Ended, SameRequest, ClosedStatuses
  <2> QED
    BY <2>1, <2>3, <2>4
<1>5. /\ req' \in [Requests -> GoodRow]
      /\ \A r \in Requests : Kept(req[r], req'[r]) \/ Ended(req[r], req'[r])
  <2>1. CASE req' = ReassignedAll(rows, onPath, FALSE, active \ left, settings)
    BY <1>3, <1>4, <2>1, ReassignedAllEffect DEF Typed
  <2>2. CASE req' = req
    BY <2>2 DEF Typed, Kept
  <2> QED
    BY <1>2, <2>1, <2>2
<1> QED
  BY <1>5, HandsEffect DEF Typed, EmployeesLeft

(* Every step of the system, one handler after the other. *)
LEMMA StepEffect ==
  ASSUME Typed, [Next]_vars
  PROVE  Effect
<1>1. CASE RequesterStep
  BY <1>1, SubmitEffect, CancelEffect, ReplaceGuarantorEffect DEF RequesterStep
<1>2. CASE DeciderStep
  BY <1>2, GuaranteeDecideEffect, ApproveEffect, RejectEffect DEF DeciderStep
<1>3. CASE FinanceStep
  BY <1>3, FinancePayEffect, FinanceRejectEffect, FinanceSetQueueEffect, FinanceToggleEffect,
     FinanceSettleEffect, FinanceManualEffect, ApplyPayslipsEffect DEF FinanceStep
<1>4. CASE SiteStep
  <2>1. ASSUME NEW on \in BOOLEAN, NEW manager \in Maybe(Candidates["site_manager"]),
               NEW hr \in Maybe(Candidates["hr"]), UpdateSiteSettings(on, manager, hr)
        PROVE  Effect
    BY <2>1, UpdateSiteSettingsEffect
  <2>2. CASE ReassignApprovers
    BY <2>2, ReassignApproversEffect
  <2>3. ASSUME NEW left \in SUBSET Employees, NEW moved \in BOOLEAN, EmployeesLeft(left, moved)
        PROVE  Effect
    BY <2>3, EmployeesLeftEffect
  <2>4. ASSUME NEW e \in Employees, EmployeeReturns(e)
        PROVE  Effect
    BY <2>4, NoRequestEffect DEF EmployeeReturns, Typed
  <2>5. ASSUME NEW e \in Employees, SetEmployeeEnabled(e)
        PROVE  Effect
    BY <2>5, NoRequestEffect DEF SetEmployeeEnabled, Typed
  <2>6. ASSUME NEW p \in Policies, ChangePolicy(p)
        PROVE  Effect
    BY <2>6, NoRequestEffect DEF ChangePolicy, Typed
  <2>7. CASE KaraChanges
    BY <2>7, NoRequestEffect, LoanAssumption DEF KaraChanges, Typed
  <2> QED
    BY <1>4, <2>1, <2>2, <2>3, <2>4, <2>5, <2>6, <2>7 DEF SiteStep
<1>5. CASE UNCHANGED vars
  BY <1>5, NoRequestEffect DEF vars, Typed
<1> QED
  BY <1>1, <1>2, <1>3, <1>4, <1>5 DEF Next

-----------------------------------------------------------------------------
LEMMA InitTyped ==
  ASSUME Init
  PROVE  Typed
<1>1. settings \in SiteSettings
  BY DEF Init, SiteSettings, Maybe
<1>2. karaUp \in BOOLEAN
  BY LoanAssumption DEF Init
<1>3. req \in [Requests -> GoodRow]
  BY FreshRow DEF Init
<1> QED
  BY <1>1, <1>2, <1>3 DEF Typed, Init

LEMMA TypedHolds == Spec => []Typed
<1>1. Init => Typed
  BY InitTyped
<1>2. Typed /\ [Next]_vars => Typed'
  BY StepEffect DEF Effect
<1> QED
  BY <1>1, <1>2, PTL DEF Spec

(* Every variable keeps its type, and every request keeps a step to be at: *)
(* no handler runs past the end of a path (finance never advances).   *)
THEOREM TypeCorrect == Spec => []TypeOK
<1>1. Typed => TypeOK
  BY DEF Typed, TypeOK, SiteSettings, GoodRow
<1> QED
  BY <1>1, TypedHolds, PTL

(* An employee never has two open requests, for all ways in (submission    *)
(* and manual entry) and whatever happens to earlier requests.             *)
THEOREM OneOpenRequestHolds == Spec => []OneOpenRequest
<1>1. Init => OneOpenRequest
  BY DEF Init, OneOpenRequest, NoRow, IsOpen, OpenStatuses
<1>2. Typed /\ OneOpenRequest /\ [Next]_vars => OneOpenRequest'
  <2> SUFFICES ASSUME Typed, OneOpenRequest, [Next]_vars,
                      NEW r \in Requests, NEW s \in Requests, r # s,
                      IsOpen(req'[r]), IsOpen(req'[s])
               PROVE  req'[r].emp # req'[s].emp
    BY DEF OneOpenRequest, IsOpen
  <2>1. Effect
    BY StepEffect
  <2>2. ASSUME NEW x \in Requests,
               Kept(req[x], req'[x]) \/ Moved(req[x], req'[x]) \/ Renumbered(req[x], req'[x])
               \/ Ended(req[x], req'[x]) \/ Paid(req[x], req'[x]) \/ Marked(req[x], req'[x]),
               IsOpen(req'[x])
        PROVE  IsOpen(req[x]) /\ req'[x].emp = req[x].emp
    BY <2>2 DEF Kept, Moved, Renumbered, Ended, Paid, Marked, IsOpen, OpenStatuses,
       ClosedStatuses, PaidStatuses
  <2>3. CASE AllRows
    BY <2>2, <2>3 DEF AllRows, OneOpenRequest
  <2>4. ASSUME NEW x \in Requests, OneRow(x)
        PROVE  req'[r].emp # req'[s].emp
    <3>1. \A y \in Requests \ {x} : req'[y] = req[y]
      BY <2>4 DEF OneRow
    <3>2. CASE Born(req[x], req'[x])
      BY <3>1, <3>2 DEF Born, OneOpenRequest
    <3>3. CASE ~Born(req[x], req'[x])
      <4>1. IsOpen(req'[x]) => IsOpen(req[x]) /\ req'[x].emp = req[x].emp
        BY <2>2, <2>4, <3>3 DEF OneRow
      <4> QED
        BY <3>1, <4>1 DEF OneOpenRequest
    <3> QED
      BY <3>2, <3>3
  <2> QED
    BY <2>1, <2>3, <2>4 DEF Effect
<1> QED
  BY <1>1, <1>2, TypedHolds, PTL DEF Spec

(* The site's counter is never behind a queue number in use, so the next   *)
(* request in the queue gets a number of its own behind all others.        *)
THEOREM QueueNumbersHold == Spec => []QueueNumbers
<1>1. Init => QueueNumbers
  BY DEF Init, QueueNumbers, NoRow
<1>2. Typed /\ QueueNumbers /\ [Next]_vars => QueueNumbers'
  <2> SUFFICES ASSUME Typed, QueueNumbers, [Next]_vars, NEW r \in Requests
               PROVE  /\ req'[r].seq <= settings'.lastSeq
                      /\ req'[r].outOfQueue => req'[r].seq = 0
                      /\ req'[r].status = "waiting_finance" /\ ~req'[r].outOfQueue
                         => req'[r].seq > 0
    BY DEF QueueNumbers
  <2>1. Effect
    BY StepEffect
  <2>2. /\ req[r].seq \in Nat /\ req'[r].seq \in Nat
        /\ settings.lastSeq \in Nat /\ settings'.lastSeq \in Nat
        /\ settings'.lastSeq >= settings.lastSeq
    BY <2>1 DEF Effect, Typed, SiteSettings, GoodRow, Row
  <2>3. /\ req[r].seq <= settings.lastSeq
        /\ req[r].outOfQueue => req[r].seq = 0
        /\ req[r].status = "waiting_finance" /\ ~req[r].outOfQueue => req[r].seq > 0
    BY DEF QueueNumbers
  <2>4. CASE Kept(req[r], req'[r])
    BY <2>2, <2>3, <2>4 DEF Kept
  <2>5. CASE Ended(req[r], req'[r])
    BY <2>2, <2>3, <2>5 DEF Ended, ClosedStatuses
  <2>6. CASE Marked(req[r], req'[r])
    BY <2>2, <2>3, <2>6 DEF Marked
  <2>7. CASE OneRow(r)
    <3>1. req'[r].seq <= settings'.lastSeq
      BY <2>2, <2>3, <2>7 DEF OneRow
    <3>2. CASE Born(req[r], req'[r])
      BY <3>1, <3>2 DEF Born
    <3>3. CASE Moved(req[r], req'[r])
      BY <2>2, <2>3, <3>1, <3>3 DEF Moved, Given
    <3>4. CASE Renumbered(req[r], req'[r])
      BY <2>3, <3>1, <3>4 DEF Renumbered
    <3>5. CASE Paid(req[r], req'[r])
      BY <2>3, <3>1, <3>5 DEF Paid
    <3> QED
      BY <2>4, <2>5, <2>6, <2>7, <3>2, <3>3, <3>4, <3>5 DEF OneRow
  <2>8. CASE req'[r] = req[r]
    BY <2>2, <2>3, <2>8
  <2> QED
    BY <2>1, <2>4, <2>5, <2>6, <2>7, <2>8 DEF Effect, AllRows, OneRow
<1> QED
  BY <1>1, <1>2, TypedHolds, PTL DEF Spec

(* A loan is settled exactly while all its installments are paid, through  *)
(* ticks, un-ticks, payslips and settling at once.                         *)
THEOREM SettledWhenAllPaidHolds == Spec => []SettledWhenAllPaid
<1>1. Init => SettledWhenAllPaid
  BY DEF Init, SettledWhenAllPaid, NoRow, PaidStatuses
<1>2. Typed /\ SettledWhenAllPaid /\ [Next]_vars => SettledWhenAllPaid'
  <2> DEFINE Money(q) == IF q.status \in PaidStatuses
                         THEN q.inst # <<>> /\ (q.status = "settled" <=> AllPaid(q))
                         ELSE q.inst = <<>>
  <2> SUFFICES ASSUME Typed, SettledWhenAllPaid, [Next]_vars, NEW r \in Requests
               PROVE  Money(req'[r])
    BY DEF SettledWhenAllPaid, AllPaid
  <2>1. Effect
    BY StepEffect
  <2>2. Money(req[r])
    BY DEF SettledWhenAllPaid
  <2>3. CASE Kept(req[r], req'[r])
    BY <2>2, <2>3 DEF Kept, AllPaid
  <2>4. CASE Ended(req[r], req'[r])
    BY <2>2, <2>4 DEF Ended, IsOpen, OpenStatuses, PaidStatuses, ClosedStatuses
  <2>5. CASE Marked(req[r], req'[r])
    BY <2>2, <2>5 DEF Marked, PaidStatuses
  <2>6. CASE Born(req[r], req'[r])
    BY <2>6 DEF Born, OpenStatuses, PaidStatuses
  <2>7. CASE Moved(req[r], req'[r])
    BY <2>2, <2>7 DEF Moved, OpenStatuses, PaidStatuses
  <2>8. CASE Renumbered(req[r], req'[r])
    BY <2>2, <2>8 DEF Renumbered, PaidStatuses
  <2>9. CASE Paid(req[r], req'[r])
    BY <2>9 DEF Paid, PaidStatuses
  <2>10. CASE req'[r] = req[r]
    BY <2>2, <2>10
  <2> QED
    BY <2>1, <2>3, <2>4, <2>5, <2>6, <2>7, <2>8, <2>9, <2>10 DEF Effect, AllRows, OneRow
<1> QED
  BY <1>1, <1>2, TypedHolds, PTL DEF Spec

(* A payslip, however often it is uploaded and whatever was ticked or      *)
(* un-ticked by hand in between, has paid at most one installment.         *)
THEOREM OneTickPerSlipHolds == Spec => []OneTickPerSlip
<1>1. Init => OneTickPerSlip
  BY DEF Init, OneTickPerSlip, NoRow
<1>2. Typed /\ OneTickPerSlip /\ [Next]_vars => OneTickPerSlip'
  <2> DEFINE Once(q) == \A i, j \in DOMAIN q.inst : ~Twice(q, i, j)
  <2> SUFFICES ASSUME Typed, OneTickPerSlip, [Next]_vars, NEW r \in Requests
               PROVE  Once(req'[r])
    BY DEF OneTickPerSlip, Twice
  <2>1. Effect
    BY StepEffect
  <2>2. Once(req[r])
    BY DEF OneTickPerSlip, Twice
  <2>3. CASE Marked(req[r], req'[r])
    BY <2>2, <2>3 DEF Marked
  <2>4. CASE Born(req[r], req'[r])
    BY <2>4 DEF Born
  <2>5. CASE Paid(req[r], req'[r])
    <3>1. "unpaid" \notin Slips
      BY LoanAssumption DEF Slips
    <3> QED
      BY <2>5, <3>1 DEF Paid, Twice
  <2>6. ASSUME req'[r].inst = req[r].inst
        PROVE  Once(req'[r])
    BY <2>2, <2>6 DEF Twice
  <2> QED
    BY <2>1, <2>3, <2>4, <2>5, <2>6
    DEF Effect, AllRows, OneRow, Kept, Ended, Moved, Renumbered
<1> QED
  BY <1>1, <1>2, TypedHolds, PTL DEF Spec

(* Only a request that reached the queue has a queue number. *)
NoNumberInReview == \A r \in Requests : req[r].status = "in_review" => req[r].seq = 0

LEMMA NoNumberInReviewHolds == Spec => []NoNumberInReview
<1>1. Init => NoNumberInReview
  BY DEF Init, NoNumberInReview, NoRow
<1>2. Typed /\ NoNumberInReview /\ [Next]_vars => NoNumberInReview'
  <2> SUFFICES ASSUME Typed, NoNumberInReview, [Next]_vars, NEW r \in Requests,
                      req'[r].status = "in_review"
               PROVE  req'[r].seq = 0
    BY DEF NoNumberInReview
  <2>1. Effect
    BY StepEffect
  <2>2. req[r].status = "in_review" => req[r].seq = 0
    BY DEF NoNumberInReview
  <2>3. CASE Kept(req[r], req'[r]) \/ Moved(req[r], req'[r])
    BY <2>2, <2>3 DEF Kept, Moved, Given
  <2> QED
    BY <2>1, <2>2, <2>3
    DEF Effect, AllRows, OneRow, Born, Renumbered, Ended, Paid, Marked, ClosedStatuses
<1> QED
  BY <1>1, <1>2, TypedHolds, PTL DEF Spec

(* A request that leaves the review for the queue stands behind everyone   *)
(* who waits there, whatever numbers the finance unit gave by hand.        *)
THEOREM JoinsAtTheEndHolds == Spec => JoinsAtTheEnd
<1> DEFINE A == \A r, s \in Requests :
                  LET n == req'[r]
                  IN  /\ req[r].status = "in_review" /\ n.status = "waiting_finance"
                      /\ req[s].status = "waiting_finance"
                      /\ ~n.outOfQueue
                      => req[s].seq < n.seq
<1>1. Typed /\ QueueNumbers /\ NoNumberInReview /\ [Next]_vars => A
  <2> SUFFICES ASSUME Typed, QueueNumbers, NoNumberInReview, [Next]_vars,
                      NEW r \in Requests, NEW s \in Requests,
                      req[r].status = "in_review", req'[r].status = "waiting_finance",
                      ~req'[r].outOfQueue
               PROVE  req[s].seq < req'[r].seq
    OBVIOUS
  <2>1. Effect
    BY StepEffect
  <2>2. Moved(req[r], req'[r])
    BY <2>1 DEF Effect, AllRows, OneRow, Kept, Born, Renumbered, Ended, Paid, Marked,
       ClosedStatuses, PaidStatuses
  <2>3. req'[r].seq = settings.lastSeq + 1
    BY <2>2 DEF Moved, Given, NoNumberInReview
  <2>4. req[s].seq <= settings.lastSeq /\ req[s].seq \in Nat /\ settings.lastSeq \in Nat
    BY DEF QueueNumbers, Typed, GoodRow, Row, SiteSettings
  <2> QED
    BY <2>3, <2>4
<1>2. JoinsAtTheEnd <=> [][A]_vars
  BY DEF JoinsAtTheEnd
<1> HIDE DEF A
<1>3. Typed /\ QueueNumbers /\ NoNumberInReview /\ [Next]_vars => [A]_vars
  BY <1>1
<1> QED
  BY <1>2, <1>3, TypedHolds, QueueNumbersHold, NoNumberInReviewHolds, PTL DEF Spec

-----------------------------------------------------------------------------
(* How the effect on a row shows in the lifecycle. *)
LEMMA PhaseOfChange ==
  ASSUME NEW q, NEW n
  PROVE  /\ Kept(q, n) => Phase(n) = Phase(q) /\ n.emp = q.emp
         /\ Born(q, n) => Phase(q) = "none" /\ Phase(n) \in {"review", "queue"}
         /\ Moved(q, n) => /\ Phase(q) = "review" /\ Phase(n) \in {"review", "queue"}
                           /\ n.emp = q.emp
         /\ Renumbered(q, n) => Phase(n) = Phase(q) /\ n.emp = q.emp
         /\ Ended(q, n) => /\ Phase(q) \in {"review", "queue"} /\ Phase(n) = "closed"
                           /\ n.emp = q.emp
         /\ Paid(q, n) => Phase(q) = "queue" /\ Phase(n) = "lent" /\ n.emp = q.emp
         /\ Marked(q, n) => /\ Phase(q) \in {"lent", "repaid"} /\ Phase(n) \in {"lent", "repaid"}
                            /\ n.emp = q.emp
         /\ q.status = "active" => Phase(q) = "lent"
<1>1. Kept(q, n) => Phase(n) = Phase(q) /\ n.emp = q.emp
  BY DEF Kept, Phase
<1>2. Born(q, n) => Phase(q) = "none" /\ Phase(n) \in {"review", "queue"}
  BY DEF Born, Phase, OpenStatuses
<1>3. Moved(q, n) => /\ Phase(q) = "review" /\ Phase(n) \in {"review", "queue"}
                     /\ n.emp = q.emp
  BY DEF Moved, Phase, OpenStatuses
<1>4. Renumbered(q, n) => Phase(n) = Phase(q) /\ n.emp = q.emp
  BY DEF Renumbered, Phase
<1>5. Ended(q, n) => /\ Phase(q) \in {"review", "queue"} /\ Phase(n) = "closed"
                     /\ n.emp = q.emp
  BY DEF Ended, Phase, IsOpen, OpenStatuses, ClosedStatuses
<1>6. Paid(q, n) => Phase(q) = "queue" /\ Phase(n) = "lent" /\ n.emp = q.emp
  BY DEF Paid, Phase
<1>7. Marked(q, n) => /\ Phase(q) \in {"lent", "repaid"} /\ Phase(n) \in {"lent", "repaid"}
                      /\ n.emp = q.emp
  BY DEF Marked, Phase, PaidStatuses
<1>8. q.status = "active" => Phase(q) = "lent"
  BY DEF Phase
<1> QED
  BY <1>1, <1>2, <1>3, <1>4, <1>5, <1>6, <1>7, <1>8

(* Every handler of the loan requests is a step of the lifecycle or leaves *)
(* all phases alone.                                                       *)
THEOREM LifecycleImplemented == Spec => ImplementsLifecycle
<1> DEFINE phase == [r \in Requests |-> Phase(req[r])]
           borrower == [r \in Requests |-> req[r].emp]
<1>1. Init => Lifecycle!Init
  BY DEF Init, Lifecycle!Init, Phase, NoRow, Maybe
<1>2. Typed /\ [Next]_vars => [Lifecycle!Next]_<<phase, borrower>>
  <2> SUFFICES ASSUME Typed, [Next]_vars
               PROVE  [Lifecycle!Next]_<<phase, borrower>>
    OBVIOUS
  <2>1. Effect
    BY StepEffect
  <2>2. \A r \in Requests : phase[r] = Phase(req[r]) /\ phase'[r] = Phase(req'[r])
                           /\ borrower[r] = req[r].emp /\ borrower'[r] = req'[r].emp
    OBVIOUS
  <2>3. DOMAIN phase = Requests /\ DOMAIN phase' = Requests
        /\ DOMAIN borrower = Requests /\ DOMAIN borrower' = Requests
    OBVIOUS
  <2>4. CASE \A r \in Requests : Kept(req[r], req'[r]) \/ Ended(req[r], req'[r])
    <3> DEFINE S == {r \in Requests : Ended(req[r], req'[r])}
    <3>1. Lifecycle!Close(S)
      BY <2>4, PhaseOfChange DEF Lifecycle!Close, Lifecycle!Move, Lifecycle!Open
    <3> QED
      BY <3>1 DEF Lifecycle!Next
  <2>5. CASE \A r \in Requests :
               Kept(req[r], req'[r]) \/ (req[r].status = "active" /\ Marked(req[r], req'[r]))
    <3> DEFINE S == {r \in Requests : Phase(req[r]) = "lent" /\ Phase(req'[r]) = "repaid"}
    <3>1. Lifecycle!Repay(S)
      BY <2>5, PhaseOfChange DEF Lifecycle!Repay, Lifecycle!Move
    <3> QED
      BY <3>1 DEF Lifecycle!Next
  <2>6. ASSUME NEW r \in Requests, OneRow(r)
        PROVE  [Lifecycle!Next]_<<phase, borrower>>
    <3>1. \A s \in Requests \ {r} : req'[s] = req[s]
      BY <2>6 DEF OneRow
    <3>2. CASE Phase(req'[r]) = Phase(req[r]) /\ req'[r].emp = req[r].emp
      <4>1. phase' = phase /\ borrower' = borrower
        BY <3>1, <3>2
      <4> QED
        BY <4>1
    <3>3. CASE Born(req[r], req'[r])
      <4>1. PICK b \in Maybe(Employees), to \in Lifecycle!Open :
              b = req'[r].emp /\ to = Phase(req'[r])
        BY <2>1, <3>3, PhaseOfChange DEF Lifecycle!Open, Effect, Typed, GoodRow, Row
      <4>2. \A s \in Requests : phase[s] \in Lifecycle!Open => borrower[s] # b
        BY <3>3, <4>1 DEF Born, Lifecycle!Open, Phase, IsOpen, OpenStatuses
      <4>3. phase[r] = "none"
        BY <3>3, PhaseOfChange
      <4>4. phase' = [phase EXCEPT ![r] = to] /\ borrower' = [borrower EXCEPT ![r] = b]
        BY <3>1, <4>1
      <4>5. Lifecycle!Ask(r, b, to)
        BY <4>2, <4>3, <4>4 DEF Lifecycle!Ask
      <4> QED
        BY <4>5, Zenon DEF Lifecycle!Next
    <3>4. CASE Moved(req[r], req'[r]) /\ Phase(req'[r]) # Phase(req[r])
      <4>1. Lifecycle!Queue(r)
        BY <3>1, <3>4, PhaseOfChange DEF Lifecycle!Queue, Lifecycle!Move
      <4> QED
        BY <4>1 DEF Lifecycle!Next
    <3>5. CASE Ended(req[r], req'[r])
      <4>1. Lifecycle!Close({r})
        BY <3>1, <3>5, PhaseOfChange DEF Lifecycle!Close, Lifecycle!Move, Lifecycle!Open
      <4> QED
        BY <4>1 DEF Lifecycle!Next
    <3>6. CASE Paid(req[r], req'[r])
      <4>1. Lifecycle!Lend(r)
        BY <3>1, <3>6, PhaseOfChange DEF Lifecycle!Lend, Lifecycle!Move
      <4> QED
        BY <4>1 DEF Lifecycle!Next
    <3>7. CASE Marked(req[r], req'[r]) /\ Phase(req'[r]) # Phase(req[r])
      <4>1. CASE Phase(req[r]) = "lent"
        <5>1. Lifecycle!Repay({r})
          BY <3>1, <3>7, <4>1, PhaseOfChange DEF Lifecycle!Repay, Lifecycle!Move
        <5> QED
          BY <5>1 DEF Lifecycle!Next
      <4>2. CASE Phase(req[r]) = "repaid"
        <5>1. Lifecycle!Reopen(r)
          BY <3>1, <3>7, <4>2, PhaseOfChange DEF Lifecycle!Reopen, Lifecycle!Move
        <5> QED
          BY <5>1 DEF Lifecycle!Next
      <4> QED
        BY <3>7, <4>1, <4>2, PhaseOfChange
    <3> QED
      BY <2>6, <3>2, <3>3, <3>4, <3>5, <3>6, <3>7, PhaseOfChange DEF OneRow
  <2> QED
    BY <2>1, <2>4, <2>5, <2>6 DEF Effect, AllRows
<1> QED
  BY <1>1, <1>2, TypedHolds, PTL DEF Spec, ImplementsLifecycle, Lifecycle!Spec

==============================================================================
