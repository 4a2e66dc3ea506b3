-------------------------- MODULE TransactionProofs --------------------------
(***************************************************************************)
(* Proofs about the transactions, for any number of sessions, employees    *)
(* and requests and for all calls that may come in together.  What a       *)
(* session has read under a lock stays as it was; what it read without one *)
(* it may only cancel or give to other approvers.                          *)
(***************************************************************************)
EXTENDS RequestTransactions, FiniteSetTheorems, WellFoundedInduction, TLAPS

Held(s, row, mode) == [session |-> s, row |-> row, mode |-> mode] \in locks

(* The session has the lock, or its flush is going to wait for it.         *)
Secured(s, row, mode) ==
  Held(s, row, mode) \/ \E l \in tx[s].todo : l.row = row /\ l.mode = mode

LoanRow(r)    == RequestRow("loan", r)
AdvanceRow(r) == RequestRow("advance", r)

Settings ==
  /\ DOMAIN settings = SiteSteps \cup {"lastSeq"} /\ settings.lastSeq \in Nat
  /\ \A k \in SiteSteps : settings[k] \in Employees

-----------------------------------------------------------------------------
(* Rows.  One in review is at a step before the last one, finance.         *)
GoodLoan(q) ==
  /\ q \in L!Row
  /\ q.status = "none" => q = L!NoRow
  /\ q.status = "in_review" => q.idx + 1 \in DOMAIN Path /\ Path[q.idx + 1] # "finance"

GoodAdvance(q) ==
  /\ q \in A!Row
  /\ q.status = "none" => q = A!NoRow
  /\ q.status # "none" => q.emp \in Employees
  /\ q.steps # <<>> /\ q.steps[Len(q.steps)] = "finance"
  /\ q.status = "in_review" => q.idx + 1 \in DOMAIN q.steps /\ q.steps[q.idx + 1] # "finance"
  /\ q.status = "waiting_finance" => q.idx + 1 \in DOMAIN q.steps /\ q.steps[q.idx + 1] = "finance"

-----------------------------------------------------------------------------
(* Transactions in progress.                                               *)
TypedTx(t) ==
  /\ t = [job |-> t.job, rest |-> t.rest, taken |-> t.taken, loans |-> t.loans,
          advances |-> t.advances, todo |-> t.todo, number |-> t.number]
  /\ \A l \in t.todo : l = Due(l.turn, l.row, l.mode) /\ l.turn \in Nat
  /\ t.number \in Nat
  /\ t = Idle \/ t.job \in Days[day]

(* The stages to come are the last ones of the call, and what was written  *)
(* up to now leaves the requests alone that they look at.                  *)
Ahead(t) ==
  LET stages == Stages(t.job)
      done   == Len(stages) - Len(t.rest)
  IN  /\ t.rest \in Seq(Range(stages)) /\ t.taken \subseteq Range(stages)
      /\ done >= 0 /\ \A i \in DOMAIN t.rest : t.rest[i] = stages[done + i]
      /\ done = 0 => t.taken = {} /\ DOMAIN t.loans = {} /\ DOMAIN t.advances = {}
      /\ t.job.do \in Batches => \A r \in DOMAIN t.advances : \E i \in 1..done : r = t.job.on[i]
      /\ t.job.do = "manager" /\ t.rest # <<>> => DOMAIN t.advances = {}
      /\ t.job.do = "leave" /\ Len(t.rest) > 1 => DOMAIN t.advances = {}
      /\ t.job.do = "leave" /\ Len(t.rest) = 1 =>
           \A r \in DOMAIN t.advances :
             "status" \in DOMAIN t.advances[r] /\ t.advances[r].status = "cancelled"

-----------------------------------------------------------------------------
(* What a stage has checked, of the rows db and the writes own.            *)
Checked(job, stage, db, own) ==
  /\ stage.do \notin {"submit", "ask"} => Allowed(job, stage, db)
  /\ stage.do = "submit" =>
       /\ ~L!HasOpen(job.by, db)
       /\ \E r \in DOMAIN own.loans : db.loans[r].status = "none"
  /\ stage.do = "ask" =>
       /\ ~A!HasOpen(job.by, db)
       /\ Cardinality(A!Counted(job.by, job.month, db)) < MaxPerMonth
       /\ \E r \in DOMAIN own.advances : db.advances[r].status = "none"

(* It still holds, for what it was checked of is locked.                   *)
Stands(s, stage) ==
  /\ \A l \in FirstLocks(tx[s].job, stage) : Held(s, l.row, l.mode)
  /\ Checked(tx[s].job, stage, [loans |-> loans, advances |-> advances], tx[s])

(* Columns that were worked out from a row read without a lock.            *)
Unlocked(w, columns) ==
  DOMAIN w \subseteq columns /\ ("status" \in DOMAIN w => w.status = "cancelled")

(* The columns w over the row q: the insert of a call that writes nothing  *)
(* else, or an update that opens nothing.                                  *)
LoanEffect(job, w, q, locked, alone) ==
  LET n == Over(w, q)
  IN  /\ DOMAIN w \subseteq DOMAIN L!NoRow \ {"seq"}
      /\ GoodLoan(n) /\ n.status # "none"
      /\ \/ /\ job.do = "submit" /\ alone
            /\ q.status = "none" /\ n.status = "in_review" /\ n.emp = job.by
         \/ /\ q.status # "none" /\ n.emp = q.emp /\ "emp" \notin DOMAIN w
            /\ L!IsOpen(n) => L!IsOpen(q)
            /\ locked \/ Unlocked(w, {"status", "hr", "site_manager", "cur"})

AdvanceEffect(job, w, q, locked, alone) ==
  LET n == Over(w, q)
  IN  /\ DOMAIN w \subseteq DOMAIN A!NoRow
      /\ GoodAdvance(n) /\ n.status # "none"
      /\ \/ /\ job.do = "ask" /\ alone
            /\ q.status = "none" /\ n.emp = job.by /\ n.month = job.month
         \/ /\ q.status # "none" /\ n.emp = q.emp /\ n.month = q.month
            /\ {"emp", "month"} \cap DOMAIN w = {}
            /\ n.status \in A!UnpaidStatuses => q.status \in A!UnpaidStatuses
            /\ n.status \in A!CountedStatuses => q.status \in A!CountedStatuses
            /\ locked \/ Unlocked(w, {"status", "unit_manager", "site_manager", "cur"})

(* A stage that writes the columns over the row r, and the requests D.     *)
LoanStageEffect(job, stage, columns, r, D) ==
  LoanEffect(job, columns, loans[r], LockOf(LoanRow(r), "for_update") \in FirstLocks(job, stage), D = {r})

AdvanceStageEffect(job, stage, columns, r, D) ==
  AdvanceEffect(job, columns, advances[r],
                LockOf(AdvanceRow(r), "for_update") \in FirstLocks(job, stage), D = {r})

(* What a session is going to write.                                       *)
LoanWrite(s, r) ==
  /\ r \in L!Loans /\ Secured(s, LoanRow(r), "no_key_update")
  /\ LoanEffect(tx[s].job, tx[s].loans[r], loans[r], Held(s, LoanRow(r), "for_update"),
                DOMAIN tx[s].loans = {r})
  /\ loans[r].status = "none" => Stands(s, Stage("loan", "submit", 0))

AdvanceWrite(s, r) ==
  /\ r \in A!Advances /\ Secured(s, AdvanceRow(r), "no_key_update")
  /\ AdvanceEffect(tx[s].job, tx[s].advances[r], advances[r], Held(s, AdvanceRow(r), "for_update"),
                   DOMAIN tx[s].advances = {r})
  /\ advances[r].status = "none" => Stands(s, Stage("advance", "ask", 0))

(* A request that joins the queue has a number, or is going to draw one.   *)
Queueing(s) ==
  /\ \A r \in L!Joining(tx[s].loans) : r = tx[s].job.on /\ tx[s].job.do # "settings"
  /\ L!Joining(tx[s].loans) # {} =>
       \/ Held(s, SettingsRow("loan"), "no_key_update") /\ tx[s].number = settings.lastSeq + 1
       \/ \E l \in tx[s].todo : l.row = SettingsRow("loan")
  /\ \A l \in tx[s].todo : l.row = SettingsRow("loan") => l.mode = "no_key_update"

(* Two sessions never insert the same row.                                 *)
Apart(s, u) ==
  /\ \A r \in DOMAIN tx[s].loans \cap DOMAIN tx[u].loans : loans[r].status # "none"
  /\ \A r \in DOMAIN tx[s].advances \cap DOMAIN tx[u].advances : advances[r].status # "none"

-----------------------------------------------------------------------------
Locked ==
  /\ \A l \in locks : /\ l = [session |-> l.session, row |-> l.row, mode |-> l.mode]
                      /\ l.session \in Sessions /\ tx[l.session] # Idle
  /\ \A k, l \in locks :
       k.row = l.row /\ k.session # l.session => Compatible(k.mode, l.mode)

Tables ==
  /\ working \subseteq Employees /\ Settings /\ manager \in Maybe(Employees)
  /\ loans = [r \in L!Loans |-> loans[r]] /\ \A r \in L!Loans : GoodLoan(loans[r])
  /\ advances = [r \in A!Advances |-> advances[r]] /\ \A r \in A!Advances : GoodAdvance(advances[r])
  /\ tx = [s \in Sessions |-> tx[s]] /\ day \in DOMAIN Days

Numbers ==
  /\ \A r \in L!Loans : loans[r].seq <= settings.lastSeq
  /\ NumbersDiffer

InOrder(s) ==
  /\ TypedTx(tx[s]) /\ (tx[s] # Idle => Ahead(tx[s]))
  /\ \A r \in DOMAIN tx[s].loans : LoanWrite(s, r)
  /\ \A r \in DOMAIN tx[s].advances : AdvanceWrite(s, r)
  /\ Queueing(s)
  /\ \A stage \in tx[s].taken : Stands(s, stage)

Transactions ==
  \A s \in Sessions : InOrder(s) /\ \A u \in Sessions \ {s} : Apart(s, u)

TransactionInv == Tables /\ Locked /\ Transactions /\ Numbers /\ SubmissionLimits

-----------------------------------------------------------------------------
(* Columns over rows.                                                      *)
LEMMA OverAt ==
  ASSUME NEW w, NEW q
  PROVE  /\ DOMAIN Over(w, q) = DOMAIN w \cup DOMAIN q
         /\ \A c \in DOMAIN w : Over(w, q)[c] = w[c]
         /\ \A c \in DOMAIN q : c \notin DOMAIN w => Over(w, q)[c] = q[c]
  BY DEF Over

LEMMA SameOver ==
  ASSUME NEW w, NEW q
  PROVE  /\ L!Over(w, q) = Over(w, q) /\ A!Over(w, q) = Over(w, q)
         /\ L!Columns(w, q) = Columns(w, q) /\ A!Columns(w, q) = Columns(w, q)
  BY DEF Over, L!Over, A!Over, Columns, L!Columns, A!Columns

Shaped(D, n) == n = [c \in D |-> n[c]]

(* The columns that differ, over the row they differ from.                 *)
LEMMA ColumnsOver ==
  ASSUME NEW D, NEW n, NEW q, Shaped(D, n), Shaped(D, q)
  PROVE  /\ Over(Columns(n, q), q) = n
         /\ \A c : c \in DOMAIN Columns(n, q) <=> c \in D /\ n[c] # q[c]
         /\ \A c \in DOMAIN Columns(n, q) : Columns(n, q)[c] = n[c]
<1>0. n = [c \in D |-> n[c]] /\ q = [c \in D |-> q[c]]
  BY DEF Shaped
<1>1. DOMAIN Columns(n, q) = {c \in D : n[c] # q[c]}
  BY <1>0 DEF Columns
<1>2. \A c \in DOMAIN Columns(n, q) : Columns(n, q)[c] = n[c]
  BY DEF Columns
<1> DEFINE o == Over(Columns(n, q), q)
<1>3. o = [c \in D |-> o[c]]
  BY <1>0, <1>1 DEF Over
<1>4. \A c \in D : o[c] = n[c]
  <2> SUFFICES ASSUME NEW c \in D PROVE o[c] = n[c]
    OBVIOUS
  <2>1. CASE n[c] = q[c]
    <3>1. c \notin DOMAIN Columns(n, q) /\ c \in DOMAIN q
      BY <1>0, <1>1, <2>1
    <3> QED
      BY ONLY <2>1, <3>1 DEF o, Over
  <2>2. CASE n[c] # q[c]
    <3>1. c \in DOMAIN Columns(n, q)
      BY <1>1, <2>2
    <3> QED
      BY ONLY <1>2, <3>1 DEF o, Over
  <2> QED
    BY <2>1, <2>2
<1> QED
  BY <1>0, <1>1, <1>2, <1>3, <1>4

-----------------------------------------------------------------------------
(* Rows of loans.                                                          *)
LoanColumns == {"status", "emp", "guarantor", "idx", "hr", "site_manager", "cur", "seq"}

LEMMA LoanShape ==
  /\ DOMAIN L!NoRow = LoanColumns
  /\ \A q \in L!Row : q = [c \in LoanColumns |-> q[c]]
  /\ \A q : q \in L!Row <=>
       /\ q = [c \in LoanColumns |-> q[c]]
       /\ q.status \in UnsettledStatuses \cup {"cancelled", "none"}
       /\ q.emp \in Maybe(Employees) /\ q.guarantor \in Maybe(Employees) /\ q.idx \in Nat
       /\ q.hr \in Maybe(Employees) /\ q.site_manager \in Maybe(Employees)
       /\ q.cur \in Maybe(Employees) /\ q.seq \in Nat
  BY DEF L!Row, L!NoRow, LoanColumns, L!UnsettledStatuses, UnsettledStatuses, L!OpenStatuses, OpenStatuses,
     L!Maybe, Maybe

LEMMA PathShape ==
  /\ Len(Path) \in Nat \ {0} /\ DOMAIN Path = 1..Len(Path)
  /\ \A i \in DOMAIN Path : Path[i] \in StepKeys \ {"unit_manager"}
  /\ Path[Len(Path)] = "finance" /\ Path[1] = "guarantors" /\ Len(Path) > 1
  /\ \A i \in DOMAIN Path : Path[i] = "guarantors" => i = 1
<1>1. PICK n \in 1..5 : Path \in [1..n -> StepKeys]
  BY TransactionsAssumption DEF StepPaths
<1>2. Path \in Seq(StepKeys) /\ Len(Path) = n
  BY <1>1
<1>3. \A i \in DOMAIN Path : Path[i] # "unit_manager"
  BY TransactionsAssumption DEF Range
<1>4. Path[Len(Path)] = "finance" /\ Path[1] = "guarantors"
  BY TransactionsAssumption DEF StepPaths
<1>5. \A i \in DOMAIN Path : Path[i] = "guarantors" => i = 1
  <2>1. IsInjective(Path) /\ 1 \in DOMAIN Path
    BY <1>1, TransactionsAssumption DEF StepPaths
  <2> QED
    BY <1>4, <2>1 DEF IsInjective
<1> QED
  BY <1>1, <1>2, <1>3, <1>4, <1>5

(* Whom the settings put at the steps to come.                             *)
LEMMA LoanChanges ==
  ASSUME NEW q, NEW st, \A k \in SiteSteps : st[k] \in Employees
  PROVE  /\ DOMAIN L!Changes(q, st) \subseteq SiteSteps
         /\ \A k \in DOMAIN L!Changes(q, st) : L!Changes(q, st)[k] = st[k] /\ st[k] \in Employees
<1> DEFINE R == L!RemainingSteps(Path, q.idx)
           f == [k \in R |-> st[k]]
<1>1. R \subseteq SiteSteps
  BY PathShape DEF L!RemainingSteps, L!PersonSteps, SiteSteps
<1>2. L!Changes(q, st) = L!PlanReassignment(Path, q.idx, q, f, q.emp)
  BY DEF L!Changes
<1>3. /\ DOMAIN L!PlanReassignment(Path, q.idx, q, f, q.emp) \subseteq R
      /\ \A k \in DOMAIN L!PlanReassignment(Path, q.idx, q, f, q.emp) :
           L!PlanReassignment(Path, q.idx, q, f, q.emp)[k] = st[k]
  BY DEF L!PlanReassignment
<1> QED
  BY <1>1, <1>2, <1>3

LEMMA CancelledLoan ==
  ASSUME NEW q, GoodLoan(q), q.status # "none"
  PROVE  /\ GoodLoan(L!Cancelled(q)) /\ L!Cancelled(q) = [c \in LoanColumns |-> L!Cancelled(q)[c]]
         /\ L!Cancelled(q).status = "cancelled"
         /\ \A c \in LoanColumns \ {"status", "cur"} : L!Cancelled(q)[c] = q[c]
<1>1. q \in L!Row /\ q = [c \in LoanColumns |-> q[c]]
  BY LoanShape DEF GoodLoan
<1>2. L!Cancelled(q) \in L!Row /\ L!Cancelled(q).status = "cancelled"
  BY <1>1 DEF L!Row, L!Cancelled, L!Maybe
<1>3. \A c \in LoanColumns \ {"status", "cur"} : L!Cancelled(q)[c] = q[c]
  BY <1>1 DEF L!Cancelled
<1> QED
  BY <1>2, <1>3, LoanShape DEF GoodLoan

LEMMA ReassignedLoan ==
  ASSUME NEW q, GoodLoan(q), q.status = "in_review",
         NEW st, \A k \in SiteSteps : st[k] \in Employees
  PROVE  LET n == L!Reassigned(q, st)
         IN  /\ GoodLoan(n) /\ n = [c \in LoanColumns |-> n[c]]
             /\ \A c \in LoanColumns \ {"hr", "site_manager", "cur"} : n[c] = q[c]
<1> DEFINE c == L!Changes(q, st)
           o == Over(c, q)
           n == L!Reassigned(q, st)
<1>1. q \in L!Row /\ q = [d \in LoanColumns |-> q[d]]
  BY LoanShape DEF GoodLoan
<1>2. DOMAIN c \subseteq {"hr", "site_manager"} /\ \A k \in DOMAIN c : c[k] \in Employees
  BY LoanChanges DEF SiteSteps
<1>3. n = [o EXCEPT !.cur = IF L!Step(q) \in DOMAIN c THEN c[L!Step(q)] ELSE @]
  BY SameOver DEF L!Reassigned
<1> HIDE DEF c, n
<1>4. o = [d \in LoanColumns |-> o[d]] /\ \A d \in LoanColumns \ {"hr", "site_manager"} : o[d] = q[d]
  BY <1>1, <1>2 DEF Over, LoanColumns
<1>5. o.hr \in Maybe(Employees) /\ o.site_manager \in Maybe(Employees)
  BY <1>1, <1>2, LoanShape DEF Over, LoanColumns, Maybe
<1> HIDE DEF o
<1>6. /\ n = [d \in LoanColumns |-> n[d]]
      /\ \A d \in LoanColumns \ {"cur"} : n[d] = o[d]
      /\ n.cur \in Maybe(Employees)
  <2>1. o.cur \in Maybe(Employees)
    BY <1>1, <1>4, LoanShape DEF LoanColumns
  <2> QED
    BY <1>2, <1>3, <1>4, <2>1 DEF LoanColumns, Maybe
<1>7. \A d \in LoanColumns \ {"hr", "site_manager", "cur"} : n[d] = q[d]
  BY <1>4, <1>6
<1>8. n \in L!Row
  <2>1. n.hr \in Maybe(Employees) /\ n.site_manager \in Maybe(Employees)
    BY <1>5, <1>6 DEF LoanColumns
  <2>2. /\ n.status = q.status /\ n.emp = q.emp /\ n.guarantor = q.guarantor /\ n.idx = q.idx
        /\ n.seq = q.seq
    BY <1>7 DEF LoanColumns
  <2> QED
    BY <1>1, <1>6, <2>1, <2>2, LoanShape
<1>9. n.status = q.status /\ n.idx = q.idx
  BY <1>7 DEF LoanColumns
<1>10. GoodLoan(n)
  BY <1>8, <1>9 DEF GoodLoan
<1>11. n = [d \in LoanColumns |-> n[d]]
  BY <1>6
<1> QED
  BY ONLY <1>7, <1>10, <1>11 DEF n

LEMMA AdvancedLoan ==
  ASSUME NEW q, GoodLoan(q), q.status = "in_review",
         NEW st, \A k \in SiteSteps : st[k] \in Employees
  PROVE  LET n == L!Advanced(q, st)
         IN  /\ GoodLoan(n) /\ n = [c \in LoanColumns |-> n[c]]
             /\ n.status \in OpenStatuses /\ n.emp = q.emp /\ n.seq = q.seq
<1> DEFINE m == [q EXCEPT !.idx = @ + 1]
           step == Path[q.idx + 2]
           ch == L!Changes(m, st)
           u == IF st[step] \in {None, m[step]} THEN m ELSE Over(ch, m)
           n == L!Advanced(q, st)
<1>1. q \in L!Row /\ q = [d \in LoanColumns |-> q[d]]
  BY LoanShape DEF GoodLoan
<1>2. q.idx \in Nat /\ q.idx + 1 \in DOMAIN Path /\ Path[q.idx + 1] # "finance"
  BY <1>1, LoanShape DEF GoodLoan
<1>3. q.idx + 2 \in DOMAIN Path
  BY <1>2, PathShape
<1>4. /\ m = [d \in LoanColumns |-> m[d]] /\ m.idx = q.idx + 1
      /\ \A d \in LoanColumns \ {"idx"} : m[d] = q[d]
  BY <1>1, <1>2 DEF LoanColumns
<1>5. m \in L!Row
  BY <1>1, <1>2, <1>4, LoanShape DEF LoanColumns
<1>6. DOMAIN ch \subseteq {"hr", "site_manager"} /\ \A k \in DOMAIN ch : ch[k] \in Employees
  BY LoanChanges DEF SiteSteps
<1>7. n = IF step = "finance" THEN [m EXCEPT !.status = "waiting_finance", !.cur = None]
          ELSE [u EXCEPT !.cur = u[step]]
  <2>1. m.idx + 1 = q.idx + 2
    BY <1>2, <1>4
  <2> QED
    BY SMTT(30), <2>1, SameOver DEF L!Advanced
<1> HIDE DEF m, ch, n
<1>8. CASE step = "finance"
  <2>1. n = [m EXCEPT !.status = "waiting_finance", !.cur = None]
    BY <1>7, <1>8
  <2> HIDE DEF u, step
  <2>2. /\ n = [d \in LoanColumns |-> n[d]] /\ n.status = "waiting_finance" /\ n.cur = None
        /\ \A d \in LoanColumns \ {"status", "cur"} : n[d] = m[d]
    BY <1>4, <2>1 DEF LoanColumns
  <2>3. n \in L!Row
    BY <1>5, <2>2, LoanShape DEF LoanColumns, Maybe, OpenStatuses, UnsettledStatuses
  <2>4. GoodLoan(n)
    BY <2>2, <2>3 DEF GoodLoan
  <2>5. n.emp = q.emp /\ n.seq = q.seq
    BY <1>4, <2>2 DEF LoanColumns
  <2> QED
    BY ONLY <2>2, <2>4, <2>5 DEF n, OpenStatuses
<1>9. CASE step # "finance"
  <2>1. step \in {"hr", "site_manager"}
    <3>1. q.idx + 2 # 1
      BY <1>2
    <3> QED
      BY <1>3, <1>9, <3>1, PathShape DEF StepKeys, PersonSteps
  <2>2. /\ u = [d \in LoanColumns |-> u[d]]
        /\ \A d \in LoanColumns \ {"hr", "site_manager"} : u[d] = m[d]
        /\ u.hr \in Maybe(Employees) /\ u.site_manager \in Maybe(Employees)
    <3>1. CASE u = m
      BY <1>4, <1>5, <3>1, LoanShape
    <3>2. CASE u = Over(ch, m)
      <4> HIDE DEF u, step
      <4>1. DOMAIN u = LoanColumns /\ u = [d \in LoanColumns |-> u[d]]
        BY <1>4, <1>6, <3>2 DEF Over, LoanColumns
      <4>2. \A d \in LoanColumns \ {"hr", "site_manager"} : u[d] = m[d]
        BY <1>4, <1>6, <3>2 DEF Over
      <4>3. u.hr \in Maybe(Employees) /\ u.site_manager \in Maybe(Employees)
        BY <1>4, <1>5, <1>6, <3>2, LoanShape DEF Over, LoanColumns, Maybe
      <4> QED
        BY <4>1, <4>2, <4>3
    <3> QED
      BY <3>1, <3>2
  <2>3. n = [u EXCEPT !.cur = u[step]]
    BY <1>7, <1>9
  <2> HIDE DEF u
  <2>4. /\ n = [d \in LoanColumns |-> n[d]]
        /\ \A d \in LoanColumns \ {"cur"} : n[d] = u[d]
        /\ n.cur = u[step]
    BY <2>2, <2>3 DEF LoanColumns
  <2>5. n.cur \in Maybe(Employees)
    BY <2>1, <2>2, <2>4
  <2> HIDE DEF step
  <2>6. /\ n.status = "in_review" /\ n.idx = q.idx + 1 /\ n.emp = q.emp /\ n.seq = q.seq
        /\ n.guarantor = q.guarantor
    BY <1>4, <2>2, <2>4 DEF LoanColumns
  <2>7. n.hr \in Maybe(Employees) /\ n.site_manager \in Maybe(Employees)
    BY <2>2, <2>4 DEF LoanColumns
  <2>8. n \in L!Row
    BY <1>1, <1>2, <2>4, <2>5, <2>6, <2>7, LoanShape DEF UnsettledStatuses, OpenStatuses
  <2>9. n.idx + 1 \in DOMAIN Path /\ Path[n.idx + 1] # "finance"
    <3>1. n.idx + 1 = q.idx + 2
      BY <1>2, <2>6
    <3> QED
      BY <1>3, <1>9, <3>1 DEF step
  <2>10. GoodLoan(n)
    BY <2>6, <2>8, <2>9 DEF GoodLoan
  <2> QED
    BY ONLY <2>4, <2>6, <2>10 DEF n, OpenStatuses
<1> QED
  BY <1>8, <1>9

LEMMA InsertedLoan ==
  ASSUME NEW job, job.by \in Employees, job.guarantor \in Employees,
         NEW st, \A k \in SiteSteps : st[k] \in Employees
  PROVE  LET n == L!Inserted(job, st)
         IN  /\ GoodLoan(n) /\ n = [c \in LoanColumns |-> n[c]]
             /\ n.status = "in_review" /\ n.emp = job.by /\ n.seq = 0
<1> DEFINE n == L!Inserted(job, st)
<1>1. st.hr \in Employees /\ st.site_manager \in Employees
  BY DEF SiteSteps
<1>2. /\ n = [c \in LoanColumns |-> n[c]] /\ n.status = "in_review" /\ n.emp = job.by
      /\ n.guarantor = job.guarantor /\ n.idx = 0 /\ n.cur = None /\ n.seq = 0
      /\ n.hr \in {st.hr, None} /\ n.site_manager \in {st.site_manager, None}
  BY DEF L!Inserted, L!NoRow, LoanColumns
<1> HIDE DEF n
<1>3. n \in L!Row
  BY <1>1, <1>2, LoanShape DEF Maybe, UnsettledStatuses, OpenStatuses
<1>4. n.idx + 1 \in DOMAIN Path /\ Path[n.idx + 1] # "finance"
  BY <1>2, PathShape
<1>5. GoodLoan(n)
  BY <1>2, <1>3, <1>4 DEF GoodLoan
<1> QED
  BY ONLY <1>2, <1>5 DEF n

-----------------------------------------------------------------------------
(* Rows of advances.                                                       *)
AdvanceColumns == {"status", "emp", "month", "steps", "idx", "unit_manager", "site_manager", "cur"}
Managing       == {"unit_manager", "site_manager"}

LEMMA Least ==
  ASSUME NEW T, T \subseteq Nat, T # {}
  PROVE  \E i \in T : \A j \in T : i <= j
<1>1. PICK i \in T : \A j \in T : ~(<<j, i>> \in OpToRel(<, Nat))
  BY NatLessThanWellFounded, WFMin
<1>2. \A j \in T : ~(j < i)
  BY <1>1 DEF OpToRel
<1> QED
  BY <1>2

LEMMA AdvanceShape ==
  /\ DOMAIN A!NoRow = AdvanceColumns
  /\ \A q : q \in A!Row <=>
       /\ q = [c \in AdvanceColumns |-> q[c]]
       /\ q.status \in A!CountedStatuses \cup {"rejected", "cancelled", "none"}
       /\ q.emp \in Maybe(Employees) /\ q.month \in Nat
       /\ q.steps \in Seq(Managing \cup {"finance"}) /\ q.idx \in Nat
       /\ q.unit_manager \in Maybe(Employees) /\ q.site_manager \in Maybe(Employees)
       /\ q.cur \in Maybe(Employees)
<1>1. Range(A!AdvanceSteps) = Managing \cup {"finance"}
  BY DEF Range, A!AdvanceSteps, Managing
<1>2. A!Range(A!AdvanceSteps) = Managing \cup {"finance"}
  BY <1>1 DEF A!Range, Range
<1> QED
  BY <1>2 DEF A!Row, A!NoRow, AdvanceColumns, A!Maybe, Maybe

LEMMA UnitManagers ==
  ASSUME NEW e \in Employees, NEW here
  PROVE  A!UnitManager(e, here) \in Maybe(Employees)
<1> DEFINE T == {i \in DOMAIN Managers[e] : Managers[e][i] \in here}
<1>1. Managers[e] \in Seq(Employees)
  BY TransactionsAssumption
<1>2. CASE T = {}
  BY <1>2 DEF A!UnitManager, Maybe
<1>3. CASE T # {}
  <2>1. T \subseteq Nat
    BY <1>1
  <2>2. \E i \in T : \A j \in T : i <= j
    BY <1>3, <2>1, Least
  <2>3. (CHOOSE i \in T : \A j \in T : i <= j) \in T
    BY <2>2
  <2>4. A!UnitManager(e, here) = Managers[e][CHOOSE i \in T : \A j \in T : i <= j]
    BY <1>3 DEF A!UnitManager
  <2>5. \A i \in T : Managers[e][i] \in Employees
    BY <1>1
  <2> HIDE DEF T
  <2> QED
    BY <2>3, <2>4, <2>5 DEF Maybe
<1> QED
  BY <1>2, <1>3

(* Whom reassign_requests puts at the steps to come.                       *)
LEMMA AdvanceChanges ==
  ASSUME NEW q \in A!Row, q.emp \in Employees, NEW refresh, NEW here, here \subseteq Employees,
         NEW boss
  PROVE  /\ DOMAIN A!Changes(q, refresh, here, boss) \subseteq Managing
         /\ \A k \in DOMAIN A!Changes(q, refresh, here, boss) :
              A!Changes(q, refresh, here, boss)[k] \in Employees
<1> DEFINE R == A!RemainingSteps(q.steps, q.idx)
           f == A!Fresh(q, refresh, here, boss)
           c == A!Changes(q, refresh, here, boss)
<1>1. R \subseteq Managing
  <2>1. q.steps \in Seq(Managing \cup {"finance"})
    BY AdvanceShape
  <2> QED
    BY <2>1 DEF A!RemainingSteps, A!PersonSteps, Managing
<1>2. /\ DOMAIN c \subseteq R \cap DOMAIN f
      /\ \A k \in DOMAIN c : c[k] = f[k] /\ f[k] # None
  BY DEF A!Changes, A!PlanReassignment
<1>3. \A k \in DOMAIN f : f[k] \in Maybe(Employees)
  <2>1. A!UnitManager(q.emp, here) \in Maybe(Employees)
    BY UnitManagers
  <2>2. (IF boss \in here THEN boss ELSE None) \in Maybe(Employees)
    BY DEF Maybe
  <2>3. \A k \in DOMAIN f : f[k] = (IF k = "unit_manager" THEN A!UnitManager(q.emp, here)
                                   ELSE IF boss \in here THEN boss ELSE None)
    BY DEF A!Fresh
  <2> QED
    BY <2>1, <2>2, <2>3
<1> HIDE DEF R, f, c
<1>4. \A k \in DOMAIN c : c[k] \in Employees
  BY <1>2, <1>3 DEF Maybe
<1> QED
  BY <1>1, <1>2, <1>4 DEF c

(* New managers in the columns of a row.                                   *)
LEMMA NewManagers ==
  ASSUME NEW q \in A!Row, NEW c, DOMAIN c \subseteq Managing, \A k \in DOMAIN c : c[k] \in Employees
  PROVE  /\ Over(c, q) \in A!Row
         /\ \A d \in AdvanceColumns \ Managing : Over(c, q)[d] = q[d]
<1> DEFINE o == Over(c, q)
<1>1. q = [d \in AdvanceColumns |-> q[d]]
  BY AdvanceShape
<1>2. o = [d \in AdvanceColumns |-> o[d]] /\ \A d \in AdvanceColumns \ Managing : o[d] = q[d]
  BY <1>1 DEF Over, AdvanceColumns, Managing
<1>3. o.unit_manager \in Maybe(Employees) /\ o.site_manager \in Maybe(Employees)
  BY <1>1, AdvanceShape DEF Over, AdvanceColumns, Maybe
<1> HIDE DEF o
<1>4. /\ o.status = q.status /\ o.emp = q.emp /\ o.month = q.month /\ o.steps = q.steps
      /\ o.idx = q.idx /\ o.cur = q.cur
  BY <1>2 DEF AdvanceColumns, Managing
<1>5. o \in A!Row
  BY <1>2, <1>3, <1>4, AdvanceShape
<1> QED
  BY <1>2, <1>5 DEF o

LEMMA ReassignedAdvance ==
  ASSUME NEW q, GoodAdvance(q), q.status = "in_review", NEW refresh,
         NEW here, here \subseteq Employees, NEW boss
  PROVE  LET n == A!Reassigned(q, refresh, here, boss)
         IN  /\ GoodAdvance(n) /\ n = [c \in AdvanceColumns |-> n[c]]
             /\ \A c \in AdvanceColumns \ {"unit_manager", "site_manager", "cur"} : n[c] = q[c]
<1> DEFINE c == A!Changes(q, refresh, here, boss)
           o == Over(c, q)
           n == A!Reassigned(q, refresh, here, boss)
<1>1. q \in A!Row /\ q.emp \in Employees
  BY DEF GoodAdvance
<1>2. DOMAIN c \subseteq Managing /\ \A k \in DOMAIN c : c[k] \in Employees
  BY <1>1, AdvanceChanges
<1>3. n = [o EXCEPT !.cur = IF A!CurrentStep(q) \in DOMAIN c THEN c[A!CurrentStep(q)] ELSE @]
  BY SameOver DEF A!Reassigned
<1> HIDE DEF c, n
<1>4. o \in A!Row /\ \A d \in AdvanceColumns \ Managing : o[d] = q[d]
  BY <1>1, <1>2, NewManagers
<1> HIDE DEF o
<1>5. o = [d \in AdvanceColumns |-> o[d]] /\ o.cur \in Maybe(Employees)
  BY <1>4, AdvanceShape
<1>6. /\ n = [d \in AdvanceColumns |-> n[d]]
      /\ \A d \in AdvanceColumns \ {"cur"} : n[d] = o[d]
      /\ n.cur \in Maybe(Employees)
  BY <1>2, <1>3, <1>5 DEF AdvanceColumns, Maybe
<1>7. \A d \in AdvanceColumns \ {"unit_manager", "site_manager", "cur"} : n[d] = q[d]
  BY <1>4, <1>6 DEF Managing
<1>8. /\ n.status = o.status /\ n.emp = o.emp /\ n.month = o.month /\ n.steps = o.steps
      /\ n.idx = o.idx /\ n.unit_manager = o.unit_manager /\ n.site_manager = o.site_manager
  BY <1>6 DEF AdvanceColumns
<1>9. n \in A!Row
  BY <1>4, <1>6, <1>8, AdvanceShape
<1>10. n.status = q.status /\ n.idx = q.idx /\ n.steps = q.steps /\ n.emp = q.emp
  BY <1>7 DEF AdvanceColumns
<1>11. GoodAdvance(n)
  BY <1>9, <1>10 DEF GoodAdvance
<1> QED
  BY ONLY <1>6, <1>7, <1>11 DEF n

LEMMA ClosedAdvance ==
  ASSUME NEW q, GoodAdvance(q), q.status # "none", NEW status \in {"cancelled", "rejected"}
  PROVE  LET n == A!Closed(q, status)
         IN  /\ GoodAdvance(n) /\ n = [c \in AdvanceColumns |-> n[c]] /\ n.status = status
             /\ \A c \in AdvanceColumns \ {"status", "cur"} : n[c] = q[c]
<1> DEFINE n == A!Closed(q, status)
<1>1. q \in A!Row /\ q = [c \in AdvanceColumns |-> q[c]]
  BY AdvanceShape DEF GoodAdvance
<1>2. /\ n = [c \in AdvanceColumns |-> n[c]] /\ n.status = status /\ n.cur = None
      /\ \A c \in AdvanceColumns \ {"status", "cur"} : n[c] = q[c]
  BY <1>1 DEF A!Closed, AdvanceColumns
<1> HIDE DEF n
<1>3. /\ n.emp = q.emp /\ n.month = q.month /\ n.steps = q.steps /\ n.idx = q.idx
      /\ n.unit_manager = q.unit_manager /\ n.site_manager = q.site_manager
  BY <1>2 DEF AdvanceColumns
<1>4. n \in A!Row
  BY <1>1, <1>2, <1>3, AdvanceShape DEF Maybe
<1>5. GoodAdvance(n)
  BY <1>2, <1>3, <1>4 DEF GoodAdvance
<1> QED
  BY ONLY <1>2, <1>5 DEF n

(* A request enters the step its idx points at.                            *)
LEMMA EnteredAdvance ==
  ASSUME NEW q \in A!Row, q.emp \in Employees,
         q.steps # <<>>, q.steps[Len(q.steps)] = "finance", q.idx + 1 \in DOMAIN q.steps,
         NEW db, db.working \subseteq Employees
  PROVE  LET n == A!Entered(q, db)
         IN  /\ GoodAdvance(n) /\ n = [c \in AdvanceColumns |-> n[c]]
             /\ n.status \in OpenStatuses /\ n.emp = q.emp /\ n.month = q.month
<1> DEFINE k == q.steps[q.idx + 1]
           c == A!Changes(q, FALSE, db.working, db.manager)
           u == IF A!Usable(q, k, db.working, db.manager) THEN q ELSE Over(c, q)
           n == A!Entered(q, db)
<1>1. /\ q = [d \in AdvanceColumns |-> q[d]] /\ q.steps \in Seq(Managing \cup {"finance"})
      /\ q.unit_manager \in Maybe(Employees) /\ q.site_manager \in Maybe(Employees)
  BY AdvanceShape
<1>2. k \in Managing \cup {"finance"}
  BY <1>1
<1>3. u \in A!Row /\ \A d \in AdvanceColumns \ Managing : u[d] = q[d]
  <2>1. DOMAIN c \subseteq Managing /\ \A d \in DOMAIN c : c[d] \in Employees
    BY AdvanceChanges
  <2>2. Over(c, q) \in A!Row /\ \A d \in AdvanceColumns \ Managing : Over(c, q)[d] = q[d]
    BY <2>1, NewManagers
  <2> QED
    BY <2>2
<1>4. n = IF k = "finance" THEN [q EXCEPT !.status = "waiting_finance", !.cur = None]
          ELSE [u EXCEPT !.status = "in_review", !.cur = u[k]]
  BY SameOver DEF A!Entered
<1> HIDE DEF u, n, c
<1>5. CASE k = "finance"
  <2>1. n = [q EXCEPT !.status = "waiting_finance", !.cur = None]
    BY <1>4, <1>5
  <2>2. /\ n = [d \in AdvanceColumns |-> n[d]] /\ n.status = "waiting_finance" /\ n.cur = None
        /\ n.emp = q.emp /\ n.month = q.month /\ n.steps = q.steps /\ n.idx = q.idx
        /\ n.unit_manager = q.unit_manager /\ n.site_manager = q.site_manager
    BY <1>1, <2>1 DEF AdvanceColumns
  <2>3. n \in A!Row
    BY <2>2, AdvanceShape DEF Maybe, A!CountedStatuses
  <2>4. GoodAdvance(n)
    BY <1>5, <2>2, <2>3 DEF GoodAdvance
  <2> QED
    BY ONLY <2>2, <2>4 DEF n, OpenStatuses
<1>6. CASE k # "finance"
  <2>1. n = [u EXCEPT !.status = "in_review", !.cur = u[k]]
    BY <1>4, <1>6
  <2>2. u = [d \in AdvanceColumns |-> u[d]] /\ u.unit_manager \in Maybe(Employees)
        /\ u.site_manager \in Maybe(Employees)
    BY <1>3, AdvanceShape
  <2>3. u[k] \in Maybe(Employees)
    BY <1>2, <1>6, <2>2 DEF Managing
  <2> HIDE DEF k
  <2>4. /\ n = [d \in AdvanceColumns |-> n[d]] /\ n.status = "in_review" /\ n.cur = u[k]
        /\ n.emp = u.emp /\ n.month = u.month /\ n.steps = u.steps /\ n.idx = u.idx
        /\ n.unit_manager = u.unit_manager /\ n.site_manager = u.site_manager
    BY <2>1, <2>2 DEF AdvanceColumns
  <2>5. u.emp = q.emp /\ u.month = q.month /\ u.steps = q.steps /\ u.idx = q.idx
    BY <1>3 DEF AdvanceColumns, Managing
  <2>6. n \in A!Row
    BY <1>3, <2>3, <2>4, AdvanceShape DEF A!CountedStatuses
  <2>7. n.idx + 1 \in DOMAIN n.steps /\ n.steps[n.idx + 1] # "finance"
    BY <1>6, <2>4, <2>5 DEF k
  <2>8. GoodAdvance(n)
    BY <2>4, <2>5, <2>6, <2>7 DEF GoodAdvance
  <2> QED
    BY ONLY <2>4, <2>5, <2>8 DEF n, OpenStatuses
<1> QED
  BY <1>5, <1>6

LEMMA InsertedAdvance ==
  ASSUME NEW job, job.by \in Employees, job.month \in Nat,
         NEW db, db.working \subseteq Employees, db.manager \in Employees,
         A!UnitManager(job.by, db.working) \in Employees
  PROVE  LET n == A!Inserted(job, db)
         IN  /\ GoodAdvance(n) /\ n = [c \in AdvanceColumns |-> n[c]]
             /\ n.status \in OpenStatuses /\ n.emp = job.by /\ n.month = job.month
<1> DEFINE unit  == A!UnitManager(job.by, db.working)
           steps == A!EffectiveSteps(job.by, unit, db.manager)
           q == [A!NoRow EXCEPT !.emp = job.by, !.month = job.month, !.unit_manager = unit,
                                !.site_manager = db.manager, !.steps = steps]
<1>1. steps \in Seq(Managing \cup {"finance"}) /\ Len(steps) >= 1 /\ steps[Len(steps)] = "finance"
  <2> DEFINE a == IF unit = job.by THEN <<>> ELSE <<"unit_manager">>
             b == IF db.manager \in {job.by, unit} THEN <<>> ELSE <<"site_manager">>
  <2>1. a \in Seq(Managing \cup {"finance"}) /\ b \in Seq(Managing \cup {"finance"})
    <3>1. <<>> \in Seq(Managing \cup {"finance"})
      OBVIOUS
    <3>2. <<"unit_manager">> \in Seq(Managing \cup {"finance"})
      BY DEF Managing
    <3>3. <<"site_manager">> \in Seq(Managing \cup {"finance"})
      BY DEF Managing
    <3>4. a \in {<<>>, <<"unit_manager">>} /\ b \in {<<>>, <<"site_manager">>}
      OBVIOUS
    <3> QED
      BY ONLY <3>1, <3>2, <3>3, <3>4
  <2>2. steps = a \o b \o <<"finance">>
    BY DEF A!EffectiveSteps
  <2> HIDE DEF a, b, steps
  <2>3. a \o b \in Seq(Managing \cup {"finance"})
    BY <2>1
  <2> DEFINE ab == a \o b
  <2> HIDE DEF ab
  <2>4. ab \in Seq(Managing \cup {"finance"}) /\ steps = ab \o <<"finance">>
    BY <2>2, <2>3 DEF ab
  <2>5. <<"finance">> \in Seq(Managing \cup {"finance"})
    OBVIOUS
  <2>6. steps \in Seq(Managing \cup {"finance"}) /\ Len(steps) = Len(ab) + 1
    BY <2>4, <2>5
  <2>7. steps[Len(ab) + 1] = "finance"
    BY <2>4
  <2> QED
    BY <2>4, <2>6, <2>7
<1>2. /\ q = [c \in AdvanceColumns |-> q[c]] /\ q.status = "none" /\ q.emp = job.by
      /\ q.month = job.month /\ q.steps = steps /\ q.idx = 0 /\ q.unit_manager = unit
      /\ q.site_manager = db.manager /\ q.cur = None
  BY DEF A!NoRow, AdvanceColumns
<1>3. A!Inserted(job, db) = A!Entered(q, db)
  BY DEF A!Inserted
<1> HIDE DEF q, steps, unit
<1>4. q \in A!Row
  <2>1. unit \in Employees
    BY DEF unit
  <2> QED
    BY <1>1, <1>2, <2>1, AdvanceShape DEF Maybe
<1>5. q.steps # <<>> /\ q.idx + 1 \in DOMAIN q.steps
  BY <1>1, <1>2
<1> QED
  BY <1>1, <1>2, <1>3, <1>4, <1>5, EnteredAdvance

(* What becomes of a request that is decided, paid or withdrawn: it was    *)
(* there, and it does not count where it did not count before.             *)
LEMMA DecidedAdvance ==
  ASSUME NEW job, NEW stage, stage.do \in Batches \cup {"withdraw"},
         NEW db, db.working \subseteq Employees, GoodAdvance(db.advances[stage.on]),
         A!Allowed(job, stage, db)
  PROVE  LET q == db.advances[stage.on]  n == A!Decided(job, stage, db)
         IN  /\ GoodAdvance(n) /\ n = [c \in AdvanceColumns |-> n[c]] /\ n.status # "none"
             /\ q.status # "none" /\ n.emp = q.emp /\ n.month = q.month
             /\ n.status \in A!UnpaidStatuses => q.status \in A!UnpaidStatuses
             /\ n.status \in A!CountedStatuses => q.status \in A!CountedStatuses
<1> DEFINE q == db.advances[stage.on]
           n == A!Decided(job, stage, db)
<1>1. /\ q \in A!Row /\ q = [c \in AdvanceColumns |-> q[c]] /\ q.idx \in Nat
      /\ q.steps \in Seq(Managing \cup {"finance"})
  BY AdvanceShape DEF GoodAdvance
<1> USE DEF Batches
<1>2. CASE stage.do = "withdraw"
  <2>1. q.status \in OpenStatuses
    BY <1>2 DEF A!Allowed, A!OpenStatuses, OpenStatuses
  <2>2. n = A!Closed(q, "cancelled")
    BY <1>2 DEF A!Decided
  <2> HIDE DEF q, n
  <2>3. q.status # "none" /\ GoodAdvance(q)
    BY <2>1 DEF OpenStatuses, q
  <2>4. GoodAdvance(n) /\ n = [c \in AdvanceColumns |-> n[c]] /\ n.status = "cancelled"
        /\ \A c \in AdvanceColumns \ {"status", "cur"} : n[c] = q[c]
    BY <2>2, <2>3, ClosedAdvance
  <2>5. n.emp = q.emp /\ n.month = q.month
    BY <2>4 DEF AdvanceColumns
  <2> QED
    BY ONLY <2>1, <2>4, <2>5 DEF q, n, OpenStatuses, A!UnpaidStatuses, A!CountedStatuses
<1>3. CASE stage.do = "pay_out"
  <2>1. q.status = "approved"
    BY <1>3 DEF A!Allowed
  <2>2. n = [q EXCEPT !.status = "paid"]
    BY <1>3 DEF A!Decided
  <2>3. GoodAdvance(q)
    OBVIOUS
  <2> HIDE DEF q, n
  <2>4. /\ n = [c \in AdvanceColumns |-> n[c]] /\ n.status = "paid" /\ n.emp = q.emp
        /\ n.month = q.month /\ n.steps = q.steps /\ n.idx = q.idx
        /\ n.unit_manager = q.unit_manager /\ n.site_manager = q.site_manager /\ n.cur = q.cur
    BY <1>1, <2>2 DEF AdvanceColumns
  <2>5. n \in A!Row
    BY <1>1, <2>4, AdvanceShape DEF A!CountedStatuses
  <2>6. GoodAdvance(n)
    BY <2>1, <2>3, <2>4, <2>5 DEF GoodAdvance
  <2> QED
    BY ONLY <2>1, <2>4, <2>6 DEF q, n, A!UnpaidStatuses, A!CountedStatuses
<1>4. CASE stage.do = "finance" /\ job.approve
  <2>1. q.status = "waiting_finance"
    BY <1>4 DEF A!Allowed
  <2>2. n = [q EXCEPT !.status = "approved", !.idx = Len(q.steps)]
    BY <1>4 DEF A!Decided
  <2>3. GoodAdvance(q)
    OBVIOUS
  <2> HIDE DEF q, n
  <2>4. /\ n = [c \in AdvanceColumns |-> n[c]] /\ n.status = "approved" /\ n.emp = q.emp
        /\ n.month = q.month /\ n.steps = q.steps /\ n.idx = Len(q.steps)
        /\ n.unit_manager = q.unit_manager /\ n.site_manager = q.site_manager /\ n.cur = q.cur
    BY <1>1, <2>2 DEF AdvanceColumns
  <2>5. n \in A!Row
    BY <1>1, <2>4, AdvanceShape DEF A!CountedStatuses
  <2>6. GoodAdvance(n)
    BY <2>1, <2>3, <2>4, <2>5 DEF GoodAdvance
  <2> QED
    BY ONLY <2>1, <2>4, <2>6 DEF q, n, A!UnpaidStatuses, A!CountedStatuses
<1>5. CASE stage.do = "decide" /\ job.approve
  <2> DEFINE m == [q EXCEPT !.idx = @ + 1]
  <2>1. q.status \in OpenStatuses /\ q.steps[q.idx + 1] \in PersonSteps
    BY <1>5 DEF A!Allowed, A!CurrentStep, A!OpenStatuses, OpenStatuses, A!PersonSteps, PersonSteps
  <2>2. n = A!Entered(m, db)
    BY <1>5 DEF A!Decided
  <2>3. GoodAdvance(q)
    OBVIOUS
  <2> HIDE DEF q, n
  <2>4. q.steps[q.idx + 1] # "finance" /\ q.status = "in_review"
    BY <2>1, <2>3 DEF GoodAdvance, OpenStatuses, PersonSteps
  <2>5. q.idx + 1 \in DOMAIN q.steps /\ q.steps[Len(q.steps)] = "finance" /\ q.emp \in Employees
    BY <2>3, <2>4 DEF GoodAdvance
  <2>6. /\ m = [c \in AdvanceColumns |-> m[c]] /\ m.status = q.status /\ m.emp = q.emp
        /\ m.month = q.month /\ m.steps = q.steps /\ m.idx = q.idx + 1
        /\ m.unit_manager = q.unit_manager /\ m.site_manager = q.site_manager /\ m.cur = q.cur
    BY <1>1 DEF AdvanceColumns
  <2> HIDE DEF m
  <2>7. m \in A!Row
    BY <1>1, <2>6, AdvanceShape
  <2>8. m.idx + 1 \in DOMAIN m.steps /\ m.steps # <<>>
    BY <1>1, <2>4, <2>5, <2>6
  <2>9. GoodAdvance(n) /\ n = [c \in AdvanceColumns |-> n[c]] /\ n.status \in OpenStatuses
        /\ n.emp = m.emp /\ n.month = m.month
    BY <2>2, <2>5, <2>6, <2>7, <2>8, EnteredAdvance
  <2> QED
    BY ONLY <2>4, <2>6, <2>9 DEF q, n, OpenStatuses, A!UnpaidStatuses, A!CountedStatuses
<1>6. CASE stage.do \in {"finance", "decide"} /\ ~job.approve
  <2>1. q.status \in OpenStatuses
    BY <1>6 DEF A!Allowed, A!CurrentStep, A!OpenStatuses, OpenStatuses, A!PersonSteps, PersonSteps
  <2>2. n = A!Closed(q, "rejected")
    BY <1>6 DEF A!Decided
  <2>3. GoodAdvance(q) /\ q.status # "none"
    BY <2>1 DEF OpenStatuses
  <2> HIDE DEF q, n
  <2>4. GoodAdvance(n) /\ n = [c \in AdvanceColumns |-> n[c]] /\ n.status = "rejected"
        /\ \A c \in AdvanceColumns \ {"status", "cur"} : n[c] = q[c]
    BY <2>2, <2>3, ClosedAdvance
  <2>5. n.emp = q.emp /\ n.month = q.month
    BY <2>4 DEF AdvanceColumns
  <2> QED
    BY ONLY <2>3, <2>4, <2>5 DEF q, n, A!UnpaidStatuses, A!CountedStatuses
<1> QED
  BY <1>2, <1>3, <1>4, <1>5, <1>6

-----------------------------------------------------------------------------
(* Locks.                                                                  *)
LEMMA RowsDiffer ==
  /\ \A r, q : LoanRow(r) = LoanRow(q) => r = q
  /\ \A r, q : AdvanceRow(r) = AdvanceRow(q) => r = q
  /\ \A kind, r : SettingsRow("loan") # RequestRow(kind, r)
  /\ \A e : SettingsRow("loan") # EmployeeRow(e)
<1>1. \A kind, r, q : RequestRow(kind, r) = RequestRow(kind, q) => r = q
  BY DEF RequestRow
<1>2. \A kind, r : SettingsRow("loan") # RequestRow(kind, r)
  BY DEF RequestRow, SettingsRow
<1>3. \A e : SettingsRow("loan") # EmployeeRow(e)
  BY DEF EmployeeRow, SettingsRow
<1> QED
  BY <1>1, <1>2, <1>3 DEF LoanRow, AdvanceRow

LEMMA SameCardinality ==
  \A S : A!Cardinality(S) = Cardinality(S) /\ L!Cardinality(S) = Cardinality(S)
  BY DEF A!Cardinality, L!Cardinality, Cardinality

LEMMA SameLocks ==
  /\ \A kind, f : L!FlushLocks(kind, f) = FlushLocks(kind, f)
  /\ \A kind, f : A!FlushLocks(kind, f) = FlushLocks(kind, f)
  /\ \A turn, row, mode : L!Due(turn, row, mode) = Due(turn, row, mode)
  /\ L!SettingsRow("loan") = SettingsRow("loan")
<1>1. \A kind, f : L!FlushLocks(kind, f) = FlushLocks(kind, f)
  BY DEF L!FlushLocks, FlushLocks, L!Due, Due, L!RequestRow, RequestRow, L!EmployeeRow, EmployeeRow
<1>2. \A kind, f : A!FlushLocks(kind, f) = FlushLocks(kind, f)
  BY DEF A!FlushLocks, FlushLocks, A!Due, Due, A!RequestRow, RequestRow, A!EmployeeRow, EmployeeRow
<1> QED
  BY <1>1, <1>2 DEF L!Due, Due, L!SettingsRow, SettingsRow

(* Every row of a flush is locked for its update.                          *)
LEMMA Flushed ==
  ASSUME NEW kind, NEW f, DOMAIN f \subseteq Nat
  PROVE  /\ \A l \in FlushLocks(kind, f) :
              l = Due(l.turn, l.row, l.mode) /\ l.turn \in Nat /\ l.row # SettingsRow("loan")
         /\ \A r \in DOMAIN f : Due(2 * r, RequestRow(kind, r), "no_key_update") \in FlushLocks(kind, f)
<1>1. ASSUME NEW l \in FlushLocks(kind, f)
      PROVE  l = Due(l.turn, l.row, l.mode) /\ l.turn \in Nat /\ l.row # SettingsRow("loan")
  <2>1. PICK r \in DOMAIN f :
          \/ l = Due(2 * r, RequestRow(kind, r), "no_key_update")
          \/ \E e \in f[r] : l = Due(2 * r + 1, EmployeeRow(e), "key_share")
    BY <1>1 DEF FlushLocks
  <2>2. r \in Nat
    BY <2>1
  <2>3. CASE l = Due(2 * r, RequestRow(kind, r), "no_key_update")
    BY <2>2, <2>3, RowsDiffer DEF Due
  <2>4. CASE \E e \in f[r] : l = Due(2 * r + 1, EmployeeRow(e), "key_share")
    BY <2>2, <2>4, RowsDiffer DEF Due
  <2> QED
    BY <2>1, <2>3, <2>4
<1>2. \A r \in DOMAIN f : Due(2 * r, RequestRow(kind, r), "no_key_update") \in FlushLocks(kind, f)
  BY DEF FlushLocks
<1> QED
  BY <1>1, <1>2

LEMMA LoanLocks ==
  ASSUME NEW w, DOMAIN w \subseteq L!Loans
  PROVE  /\ \A l \in L!Locks(w) : /\ l = Due(l.turn, l.row, l.mode) /\ l.turn \in Nat
                                  /\ l.row = SettingsRow("loan") => l.mode = "no_key_update"
         /\ \A r \in DOMAIN w :
              \E l \in L!Locks(w) : l.row = LoanRow(r) /\ l.mode = "no_key_update"
         /\ L!Joining(w) # {} => \E l \in L!Locks(w) : l.row = SettingsRow("loan")
<1> DEFINE f == [r \in DOMAIN w |-> L!References(w[r])]
           queue == Due(2 * MaxLoans + 2, SettingsRow("loan"), "no_key_update")
<1>1. L!Locks(w) = FlushLocks("loan", f) \cup {queue : r \in L!Joining(w)}
  BY SameLocks DEF L!Locks
<1>2. DOMAIN f \subseteq Nat /\ MaxLoans \in Nat
  BY TransactionsAssumption DEF L!Loans
<1> HIDE DEF f
<1>3. /\ \A l \in FlushLocks("loan", f) :
           l = Due(l.turn, l.row, l.mode) /\ l.turn \in Nat /\ l.row # SettingsRow("loan")
      /\ \A r \in DOMAIN f : Due(2 * r, LoanRow(r), "no_key_update") \in FlushLocks("loan", f)
  BY <1>2, Flushed DEF LoanRow
<1>4. /\ queue = Due(queue.turn, queue.row, queue.mode) /\ queue.turn \in Nat
      /\ queue.row = SettingsRow("loan") /\ queue.mode = "no_key_update"
  BY <1>2 DEF Due
<1> HIDE DEF queue
<1>5. \A r \in DOMAIN f : \E l \in L!Locks(w) : l.row = LoanRow(r) /\ l.mode = "no_key_update"
  BY <1>1, <1>3 DEF Due
<1>6. DOMAIN f = DOMAIN w
  BY DEF f
<1> QED
  BY <1>1, <1>3, <1>4, <1>5, <1>6

LEMMA AdvanceLocks ==
  ASSUME NEW w, DOMAIN w \subseteq A!Advances
  PROVE  /\ \A l \in A!Locks(w) : /\ l = Due(l.turn, l.row, l.mode) /\ l.turn \in Nat
                                  /\ l.row # SettingsRow("loan")
         /\ \A r \in DOMAIN w :
              \E l \in A!Locks(w) : l.row = AdvanceRow(r) /\ l.mode = "no_key_update"
<1> DEFINE f == [r \in DOMAIN w |-> A!References(w[r])]
<1>1. A!Locks(w) = FlushLocks("advance", f)
  BY SameLocks DEF A!Locks
<1>2. DOMAIN f \subseteq Nat
  BY DEF A!Advances
<1>3. DOMAIN f = DOMAIN w
  OBVIOUS
<1> HIDE DEF f
<1>4. /\ \A l \in FlushLocks("advance", f) :
           l = Due(l.turn, l.row, l.mode) /\ l.turn \in Nat /\ l.row # SettingsRow("loan")
      /\ \A r \in DOMAIN f : Due(2 * r, AdvanceRow(r), "no_key_update") \in FlushLocks("advance", f)
  BY <1>2, Flushed DEF AdvanceRow
<1>5. \A r \in DOMAIN f : \E l \in A!Locks(w) : l.row = AdvanceRow(r) /\ l.mode = "no_key_update"
  BY <1>1, <1>4 DEF Due
<1> QED
  BY <1>1, <1>3, <1>4, <1>5

(* The flush waits for one of its locks.                                   *)
LEMMA NextIsDue ==
  ASSUME NEW todo, todo # {}, \A l \in todo : l.turn \in Nat
  PROVE  NextDue(todo) \in todo
<1> DEFINE T == {l.turn : l \in todo}
<1>1. T \subseteq Nat /\ T # {}
  OBVIOUS
<1>2. PICK i \in T : \A j \in T : i <= j
  BY <1>1, Least
<1>3. \E l \in todo : \A k \in todo : l.turn <= k.turn
  BY <1>2
<1> QED
  BY <1>3 DEF NextDue

-----------------------------------------------------------------------------
(* Stages.                                                                 *)
Jobs == UNION Range(Days)

LEMMA JobTypes ==
  ASSUME NEW job \in Jobs
  PROVE  /\ job.do = "submit" => job.by \in Employees /\ job.guarantor \in Employees
         /\ job.do \in {"guarantee", "approve", "pay", "cancel"} => job.on \in L!Loans
         /\ job.do = "settings" => job.new \in [SiteSteps -> Employees]
         /\ job.do = "ask" => job.by \in Employees /\ job.month \in Nat
         /\ job.do \in Batches => job.on \in Seq(A!Advances) /\ IsInjective(job.on)
         /\ job.do = "withdraw" => job.on \in A!Advances
         /\ job.do = "manager" => job.new \in Maybe(Employees)
         /\ job.do = "leave" => job.by \in Employees
  BY TransactionsAssumption DEF Jobs, Batches

LEMMA StageKinds ==
  ASSUME NEW job \in Jobs, NEW stage \in Range(Stages(job))
  PROVE  \/ job.do \in LoanCalls /\ stage = Stage("loan", job.do, 0)
         \/ /\ job.do \in Batches \cup {"withdraw"}
            /\ stage.of = "advance" /\ stage.do = job.do /\ stage.on \in A!Advances
         \/ job.do = "manager" /\ stage \in {Stage("advance", "choose", 0), Stage("advance", "manager", 0)}
         \/ job.do = "leave" /\ stage \in {Stage("loan", "leave", 0), Stage("advance", "leave", 0),
                                          Stage("advance", "replace", 0)}
         \/ job.do \in {"ask", "move"} /\ stage = Stage("advance", job.do, 0)
<1>1. CASE job.do \in LoanCalls
  <2>1. Stages(job) = <<Stage("loan", job.do, 0)>>
    BY <1>1 DEF Stages, LoanCalls, Batches
  <2> QED
    BY <1>1, <2>1 DEF Range
<1>2. CASE job.do \in Batches
  <2>1. job.on \in Seq(A!Advances) /\ job.do \notin LoanCalls
    BY <1>2, TransactionsAssumption DEF Batches, LoanCalls, Jobs
  <2>2. Stages(job) = [i \in DOMAIN job.on |-> Stage("advance", job.do, job.on[i])]
    BY <1>2, <2>1 DEF Stages, LoanCalls, Batches
  <2>3. PICK i \in DOMAIN job.on : stage = Stage("advance", job.do, job.on[i])
    BY <2>2 DEF Range
  <2>4. job.on[i] \in A!Advances
    BY <2>1, <2>3
  <2> QED
    BY <1>2, <2>3, <2>4 DEF Stage
<1>3. CASE job.do = "withdraw"
  <2>1. job.on \in A!Advances
    BY <1>3, TransactionsAssumption DEF Batches, Jobs
  <2> QED
    BY <1>3, <2>1 DEF Stages, Range, Stage, LoanCalls, Batches
<1>4. CASE job.do = "manager"
  BY <1>4 DEF Stages, Range, Stage, LoanCalls, Batches
<1>5. CASE job.do = "leave"
  BY <1>5 DEF Stages, Range, Stage, LoanCalls, Batches
<1>6. CASE job.do \in {"ask", "move"}
  <2>1. Stages(job) = <<Stage("advance", job.do, 0)>>
    BY <1>6 DEF Stages, LoanCalls, Batches
  <2> QED
    BY <1>6, <2>1 DEF Range
<1> QED
  BY <1>1, <1>2, <1>3, <1>4, <1>5, <1>6, TransactionsAssumption DEF Jobs, LoanCalls, Batches

(* The stages are as many as the call has parts, and the next one is the   *)
(* part that follows those that are done.                                  *)
LEMMA StageCount ==
  ASSUME NEW job \in Jobs
  PROVE  /\ Stages(job) \in Seq(Range(Stages(job)))
         /\ job.do \in LoanCalls => Len(Stages(job)) = 1 /\ Stages(job)[1].of = "loan"
         /\ job.do \in {"withdraw", "ask", "move"} => Len(Stages(job)) = 1
         /\ job.do \in Batches => /\ Len(Stages(job)) = Len(job.on)
                                  /\ \A i \in DOMAIN Stages(job) : Stages(job)[i].on = job.on[i]
         /\ job.do = "leave" => /\ Len(Stages(job)) = 3 /\ Stages(job)[1] = Stage("loan", "leave", 0)
                                /\ Stages(job)[2] = Stage("advance", "leave", 0)
                                /\ Stages(job)[3] = Stage("advance", "replace", 0)
         /\ job.do = "manager" => /\ Len(Stages(job)) = 2 /\ Stages(job)[1] = Stage("advance", "choose", 0)
                                  /\ Stages(job)[2] = Stage("advance", "manager", 0)
<1>1. CASE job.do \in LoanCalls
  <2>1. Stages(job) = <<Stage("loan", job.do, 0)>>
    BY <1>1 DEF Stages, LoanCalls, Batches
  <2>2. Stages(job) \in Seq(Range(Stages(job))) /\ Len(Stages(job)) = 1
    BY <2>1 DEF Range
  <2>3. Stages(job)[1].of = "loan"
    BY <2>1 DEF Stage
  <2> QED
    BY <1>1, <2>2, <2>3 DEF LoanCalls, Batches
<1>2. CASE job.do \in Batches
  <2>1. job.on \in Seq(A!Advances) /\ job.do \notin LoanCalls
    BY <1>2, TransactionsAssumption DEF Batches, LoanCalls, Jobs
  <2> DEFINE S == Stages(job)  n == Len(job.on)
  <2>2. S = [i \in DOMAIN job.on |-> Stage("advance", job.do, job.on[i])]
    BY <1>2, <2>1 DEF Stages, LoanCalls, Batches
  <2>3. n \in Nat /\ DOMAIN job.on = 1..n
    BY <2>1
  <2> HIDE DEF S, n
  <2>4. DOMAIN S = 1..n /\ S = [i \in 1..n |-> S[i]] /\ \A i \in 1..n : S[i].on = job.on[i]
    BY <2>2, <2>3 DEF Stage
  <2>5. \A i \in 1..n : S[i] \in Range(S)
    BY <2>4 DEF Range
  <2>6. S \in Seq(Range(S)) /\ Len(S) = n
    BY <2>3, <2>4, <2>5
  <2> QED
    BY <1>2, <2>4, <2>6 DEF LoanCalls, Batches, S, n
<1>3. CASE job.do \in {"withdraw", "ask", "move"}
  <2>1. \E x : Stages(job) = <<x>>
    <3>1. CASE job.do = "withdraw"
      <4>1. Stages(job) = <<Stage("advance", job.do, job.on)>>
        BY <3>1 DEF Stages, LoanCalls, Batches
      <4> QED
        BY <4>1
    <3>2. CASE job.do \in {"ask", "move"}
      <4>1. Stages(job) = <<Stage("advance", job.do, 0)>>
        BY <3>2 DEF Stages, LoanCalls, Batches
      <4> QED
        BY <4>1
    <3> QED
      BY <1>3, <3>1, <3>2
  <2> QED
    BY <1>3, <2>1 DEF Range, LoanCalls, Batches
<1>4. CASE job.do = "manager"
  <2>1. Stages(job) = <<Stage("advance", "choose", 0), Stage("advance", "manager", 0)>>
    BY <1>4 DEF Stages, LoanCalls, Batches
  <2>2. Stages(job) \in Seq(Range(Stages(job))) /\ Len(Stages(job)) = 2
    BY <2>1 DEF Range
  <2> QED
    BY <1>4, <2>1, <2>2 DEF LoanCalls, Batches
<1>5. CASE job.do = "leave"
  <2>1. Stages(job) = <<Stage("loan", "leave", 0), Stage("advance", "leave", 0), Stage("advance", "replace", 0)>>
    BY <1>5 DEF Stages, LoanCalls, Batches
  <2>2. Stages(job) \in Seq(Range(Stages(job))) /\ Len(Stages(job)) = 3
    BY <2>1 DEF Range
  <2> QED
    BY <1>5, <2>1, <2>2 DEF LoanCalls, Batches
<1> QED
  BY <1>1, <1>2, <1>3, <1>4, <1>5, TransactionsAssumption DEF Jobs, LoanCalls, Batches

LEMMA NextStage ==
  ASSUME NEW t, t.job \in Jobs, Ahead(t), t.rest # <<>>
  PROVE  LET stages == Stages(t.job)
             done   == Len(stages) - Len(t.rest)
         IN  /\ done \in Nat /\ done + 1 \in DOMAIN stages /\ Head(t.rest) = stages[done + 1]
             /\ Head(t.rest) \in Range(stages) /\ Len(t.rest) \in Nat
             /\ Tail(t.rest) \in Seq(Range(stages)) /\ Len(Tail(t.rest)) = Len(t.rest) - 1
             /\ \A i \in DOMAIN Tail(t.rest) : Tail(t.rest)[i] = stages[done + 1 + i]
<1> DEFINE stages == Stages(t.job)
           done == Len(stages) - Len(t.rest)
<1>1. stages \in Seq(Range(stages)) /\ t.rest \in Seq(Range(stages)) /\ done >= 0
  BY StageCount DEF Ahead
<1>2. \A i \in DOMAIN t.rest : t.rest[i] = stages[done + i]
  BY DEF Ahead
<1> DEFINE n == Len(t.rest)  m == Len(stages)  d == m - n
<1>3. n \in Nat /\ m \in Nat /\ n > 0 /\ d \in Nat
  BY <1>1
<1>4. done = d
  OBVIOUS
<1> DEFINE R == Range(stages)
<1> HIDE DEF stages, R
<1>5. Head(t.rest) = t.rest[1] /\ 1 \in DOMAIN t.rest
  BY <1>1, <1>3
<1>6. Tail(t.rest) \in Seq(R) /\ Len(Tail(t.rest)) = n - 1
      /\ \A i \in 1..n - 1 : Tail(t.rest)[i] = t.rest[i + 1] /\ i + 1 \in DOMAIN t.rest
  BY <1>1, <1>3 DEF R
<1> HIDE DEF n, m, d
<1>7. \A i \in DOMAIN Tail(t.rest) : Tail(t.rest)[i] = stages[d + 1 + i]
  <2> TAKE i \in DOMAIN Tail(t.rest)
  <2>1. i \in 1..n - 1
    BY <1>6
  <2>2. i \in Nat /\ d + (i + 1) = d + 1 + i
    BY <1>3, <2>1
  <2> QED
    BY <1>2, <1>4, <1>6, <2>1, <2>2
<1>8. d + 1 \in DOMAIN stages /\ Head(t.rest) = stages[d + 1]
  <2>1. Head(t.rest) = stages[d + 1]
    BY <1>2, <1>4, <1>5
  <2>2. d + 1 \in 1..m
    BY <1>3 DEF d
  <2>3. DOMAIN stages = 1..m
    BY <1>1 DEF m
  <2> QED
    BY <2>1, <2>2, <2>3
<1>9. Head(t.rest) \in R
  BY <1>8 DEF R, Range
<1> QED
  BY <1>3, <1>4, <1>6, <1>7, <1>8, <1>9 DEF stages, R, n, m, d

-----------------------------------------------------------------------------
(* What the stages about loans write.                                      *)
LEMMA LoanUpdate ==
  ASSUME NEW q, GoodLoan(q), q.status # "none",
         NEW n, GoodLoan(n), n = [c \in LoanColumns |-> n[c]],
         n.status # "none", n.emp = q.emp, n.seq = q.seq, L!IsOpen(n) => L!IsOpen(q),
         NEW job, NEW locked \in BOOLEAN, NEW alone \in BOOLEAN,
         locked \/ /\ \A c \in LoanColumns \ {"status", "hr", "site_manager", "cur"} : n[c] = q[c]
                   /\ n.status # q.status => n.status = "cancelled"
  PROVE  LoanEffect(job, Columns(n, q), q, locked, alone)
<1> DEFINE w == Columns(n, q)
<1>1. Shaped(LoanColumns, q) /\ Shaped(LoanColumns, n)
  BY LoanShape DEF GoodLoan, Shaped
<1>2. Over(w, q) = n /\ (\A c : c \in DOMAIN w <=> c \in LoanColumns /\ n[c] # q[c]) /\ \A c \in DOMAIN w : w[c] = n[c]
  BY <1>1, ColumnsOver
<1> HIDE DEF w
<1>3. DOMAIN w \subseteq DOMAIN L!NoRow \ {"seq"} /\ "emp" \notin DOMAIN w
  BY <1>2, LoanShape DEF LoanColumns
<1>4. locked \/ Unlocked(w, {"status", "hr", "site_manager", "cur"})
  <2>1. CASE ~locked
    <3>1. DOMAIN w \subseteq {"status", "hr", "site_manager", "cur"}
      BY <1>2, <2>1
    <3>2. "status" \in DOMAIN w => w.status = "cancelled"
      BY <1>2, <2>1
    <3> QED
      BY <3>1, <3>2 DEF Unlocked
  <2> QED
    BY <2>1
<1>5. LoanEffect(job, w, q, locked, alone)
  BY <1>2, <1>3, <1>4 DEF LoanEffect
<1> QED
  BY <1>5 DEF w

LEMMA LoanInsert ==
  ASSUME NEW n, GoodLoan(n), n = [c \in LoanColumns |-> n[c]], n.status = "in_review", n.seq = 0,
         NEW job, job.do = "submit", n.emp = job.by
  PROVE  /\ LoanEffect(job, Columns(n, L!NoRow), L!NoRow, FALSE, TRUE)
         /\ "status" \in DOMAIN Columns(n, L!NoRow) => Columns(n, L!NoRow).status = "in_review"
<1> DEFINE q == L!NoRow  w == Columns(n, q)
<1>1. q = [c \in LoanColumns |-> q[c]] /\ q.seq = 0 /\ q.status = "none"
  BY DEF L!NoRow, LoanColumns
<1>2. DOMAIN L!NoRow = LoanColumns
  BY LoanShape
<1> HIDE DEF q
<1>3. Over(w, q) = n /\ (\A c : c \in DOMAIN w <=> c \in LoanColumns /\ n[c] # q[c]) /\ \A c \in DOMAIN w : w[c] = n[c]
  <2>1. Shaped(LoanColumns, q) /\ Shaped(LoanColumns, n)
    BY <1>1 DEF Shaped
  <2> QED
    BY <2>1, ColumnsOver DEF w
<1> HIDE DEF w
<1>4. DOMAIN w \subseteq DOMAIN L!NoRow \ {"seq"}
  BY <1>1, <1>2, <1>3
<1>5. LoanEffect(job, w, q, FALSE, TRUE)
  BY <1>1, <1>3, <1>4 DEF LoanEffect
<1>6. "status" \in DOMAIN w => w.status = "in_review"
  BY <1>3
<1> QED
  BY <1>5, <1>6 DEF w, q

(* A stage about loans is the first of its call.                           *)
LEMMA LoansFirst ==
  ASSUME Tables, NEW s \in Sessions, tx[s].job \in Jobs, Ahead(tx[s]),
         tx[s].rest # <<>>, Head(tx[s].rest).of = "loan"
  PROVE  /\ DOMAIN tx[s].loans = {} /\ DOMAIN tx[s].advances = {} /\ tx[s].taken = {}
         /\ Db(s, tx[s]).loans = loans /\ Db(s, tx[s]).advances = advances
<1> DEFINE job == tx[s].job  stages == Stages(job)  done == Len(stages) - Len(tx[s].rest)
<1>1. done \in Nat /\ done + 1 \in DOMAIN stages /\ Head(tx[s].rest) = stages[done + 1]
      /\ Head(tx[s].rest) \in Range(stages)
  BY NextStage
<1>2. stages \in Seq(Range(stages))
  BY StageCount
<1>3. done + 1 \in 1..Len(stages)
  BY <1>1, <1>2
<1>4. job.do \in LoanCalls \/ job.do = "leave"
  BY <1>1, StageKinds DEF Stage
<1>5. done = 0
  <2>1. CASE job.do \in LoanCalls
    <3>1. Len(stages) = 1
      BY <2>1, StageCount
    <3> HIDE DEF stages, done
    <3> QED
      BY <1>1, <1>3, <3>1
  <2>2. CASE job.do = "leave"
    <3>1. /\ Len(stages) = 3 /\ stages[2].of = "advance" /\ stages[3].of = "advance"
      BY <2>2, StageCount DEF Stage
    <3>2. done + 1 \in {1, 2, 3}
      BY <1>3, <3>1
    <3>3. stages[done + 1].of = "loan"
      BY <1>1
    <3> HIDE DEF stages, done
    <3> QED
      BY <1>1, <3>1, <3>2, <3>3
  <2> QED
    BY <1>4, <2>1, <2>2
<1>6. tx[s].taken = {} /\ DOMAIN tx[s].loans = {} /\ DOMAIN tx[s].advances = {}
  BY <1>5 DEF Ahead
<1>7. After(loans, tx[s].loans) = loans /\ After(advances, tx[s].advances) = advances
  BY <1>6 DEF After, Tables
<1> QED
  BY <1>6, <1>7 DEF Db

LoanWrites(s, w) ==
  /\ DOMAIN w \subseteq L!Loans
  /\ \A r \in DOMAIN w :
       /\ LoanStageEffect(tx[s].job, Head(tx[s].rest), w[r], r, DOMAIN w)
       /\ loans[r].status = "none" => /\ Head(tx[s].rest) = Stage("loan", "submit", 0)
                                     /\ \A u \in Sessions \ {s} : r \notin DOMAIN tx[u].loans
  /\ \A r \in L!Joining(w) : r = tx[s].job.on /\ tx[s].job.do # "settings"
  /\ Head(tx[s].rest).do = "submit" => \E r \in DOMAIN w : loans[r].status = "none"

LEMMA LoanEffects ==
  ASSUME Tables, NEW s \in Sessions, tx[s].job \in Jobs, Ahead(tx[s]),
         tx[s].rest # <<>>, Head(tx[s].rest).of = "loan",
         NEW db, db = Db(s, tx[s]), GoesAhead(s, db),
         NEW w, w = L!Writes(tx[s].job, Head(tx[s].rest), db)
  PROVE  LoanWrites(s, w)
<1> DEFINE job == tx[s].job  stage == Head(tx[s].rest)
<1>0. job \in Jobs
  OBVIOUS
<1>1. db.loans = loans
  BY LoansFirst
<1>2. stage \in Range(Stages(job))
  BY NextStage
<1>3. \/ job.do \in LoanCalls /\ stage = Stage("loan", job.do, 0)
      \/ job.do = "leave" /\ stage = Stage("loan", "leave", 0)
  BY <1>2, StageKinds DEF Stage
<1>4. L!Allowed(job, stage, db)
  BY DEF GoesAhead, Allowed
<1>5. /\ \A r \in L!Loans : GoodLoan(loans[r])
      /\ db.settings = settings /\ \A k \in SiteSteps : settings[k] \in Employees
  BY DEF Tables, Settings, Db
<1>6. FirstLocks(job, stage) = L!FirstLocks(job, stage)
  BY DEF FirstLocks
<1> HIDE DEF job, stage
<1>7. CASE stage.do = "submit"
  <2>1. job.do = "submit" /\ stage = Stage("loan", "submit", 0)
    BY <1>3, <1>7 DEF Stage
  <2>2. job.by \in Employees /\ job.guarantor \in Employees
    BY <1>0, <2>1, JobTypes
  <2> DEFINE free == FreeIn(loans, UNION {DOMAIN t.loans : t \in {tx[u] : u \in Sessions \ {s}}})
             r == CHOOSE i \in free : \A j \in free : i <= j
             n == L!Inserted(job, settings)
  <2>3. db.freeLoans = free
    BY DEF Db
  <2>4. free # {}
    BY <1>4, <1>7, <2>3 DEF L!Allowed
  <2>5. free \subseteq L!Loans
    BY DEF FreeIn, Tables
  <2>6. free \subseteq Nat
    BY <2>5 DEF L!Loans
  <2>7. r \in free
    <3>1. \E i \in free : \A j \in free : i <= j
      BY <2>4, <2>6, Least
    <3> QED
      BY <3>1
  <2>8. w = [x \in {r} |-> L!Columns(n, L!NoRow)]
    <3>1. w = [x \in {CHOOSE i \in db.freeLoans : \A j \in db.freeLoans : i <= j} |->
                 L!Columns(L!Inserted(job, db.settings), L!NoRow)]
      BY <1>7 DEF L!Writes, job, stage
    <3>2. db.settings = settings
      BY <1>5
    <3> QED
      BY ONLY <2>3, <3>1, <3>2
  <2>9. loans[r].status = "none" /\ \A u \in Sessions \ {s} : r \notin DOMAIN tx[u].loans
    BY <2>7 DEF FreeIn
  <2> HIDE DEF free, r
  <2>10. loans[r] = L!NoRow
    BY <1>5, <2>5, <2>7, <2>9 DEF GoodLoan
  <2>11. GoodLoan(n) /\ n = [c \in LoanColumns |-> n[c]] /\ n.status = "in_review"
         /\ n.emp = job.by /\ n.seq = 0
    BY <1>5, <2>2, InsertedLoan
  <2> HIDE DEF n
  <2>12. DOMAIN w = {r} /\ w[r] = Columns(n, L!NoRow)
    BY <2>8, SameOver
  <2>14. /\ LoanEffect(job, Columns(n, L!NoRow), L!NoRow, FALSE, TRUE)
         /\ "status" \in DOMAIN Columns(n, L!NoRow) => Columns(n, L!NoRow).status = "in_review"
    BY <2>1, <2>11, LoanInsert
  <2>15. LoanEffect(job, w[r], loans[r], FALSE, TRUE)
    BY <2>10, <2>12, <2>14
  <2>16. LoanStageEffect(job, stage, w[r], r, DOMAIN w)
    BY <2>12, <2>15 DEF LoanStageEffect, LoanEffect
  <2>17. L!Joining(w) = {}
    BY <2>12, <2>14 DEF L!Joining
  <2>18. r \in L!Loans
    BY <2>5, <2>7
  <2> QED
    BY <2>1, <2>9, <2>12, <2>16, <2>17, <2>18 DEF LoanWrites, job, stage
<1>8. CASE stage.do \in {"guarantee", "approve"}
  <2>1. job.do \in {"guarantee", "approve"} /\ job.on \in L!Loans
    BY <1>0, <1>3, <1>8, JobTypes DEF Stage
  <2> DEFINE r == job.on  q == loans[r]  n == L!Advanced(q, settings)
  <2>2. GoodLoan(q)
    BY <1>5, <2>1
  <2>3. q.status = "in_review"
    BY <1>1, <1>4, <1>8 DEF L!Allowed, L!Step, L!SiteSteps
  <2>4. /\ GoodLoan(n) /\ n = [c \in LoanColumns |-> n[c]]
        /\ n.status \in OpenStatuses /\ n.emp = q.emp /\ n.seq = q.seq
    BY <1>5, <2>2, <2>3, AdvancedLoan
  <2>5. DOMAIN w = {r} /\ w[r] = Columns(n, q)
    BY <1>1, <1>5, <1>8, SameOver DEF L!Writes, job, stage
  <2>6. LockOf(LoanRow(r), "for_update") \in FirstLocks(job, stage)
    BY <1>6, <1>8 DEF L!FirstLocks, L!LockOf, LockOf, L!RequestRow, RequestRow, LoanRow
  <2> HIDE DEF n
  <2>7. LoanEffect(job, Columns(n, q), q, TRUE, FALSE)
    BY <2>2, <2>3, <2>4, LoanUpdate DEF L!IsOpen, L!OpenStatuses, OpenStatuses
  <2>8. LoanStageEffect(job, stage, w[r], r, DOMAIN w)
    BY <2>5, <2>6, <2>7 DEF LoanStageEffect, LoanEffect
  <2>9. \A i \in L!Joining(w) : i = job.on /\ job.do # "settings"
    BY <2>1, <2>5 DEF L!Joining
  <2> QED
    BY <1>8, <2>1, <2>3, <2>5, <2>8, <2>9 DEF LoanWrites, job, stage
<1>9. CASE stage.do = "pay"
  <2>1. job.do = "pay" /\ job.on \in L!Loans
    BY <1>0, <1>3, <1>9, JobTypes DEF Stage
  <2> DEFINE r == job.on  q == loans[r]  n == Over([status |-> "active"], q)
  <2>2. GoodLoan(q)
    BY <1>5, <2>1
  <2>3. q.status = "waiting_finance"
    BY <1>1, <1>4, <1>9 DEF L!Allowed
  <2>4. DOMAIN w = {r} /\ w[r] = [status |-> "active"]
    BY <1>9 DEF L!Writes, job, stage
  <2>5. LockOf(LoanRow(r), "for_update") \in FirstLocks(job, stage)
    BY <1>6, <1>9 DEF L!FirstLocks, L!LockOf, LockOf, L!RequestRow, RequestRow, LoanRow
  <2>6. /\ n = [c \in LoanColumns |-> n[c]] /\ n.status = "active"
        /\ \A c \in LoanColumns \ {"status"} : n[c] = q[c]
    BY <2>2, LoanShape DEF Over, GoodLoan, LoanColumns
  <2> HIDE DEF n
  <2>7. /\ n.emp = q.emp /\ n.guarantor = q.guarantor /\ n.idx = q.idx /\ n.hr = q.hr
        /\ n.site_manager = q.site_manager /\ n.cur = q.cur /\ n.seq = q.seq
    BY <2>6 DEF LoanColumns
  <2>8. q \in L!Row
    BY <2>2 DEF GoodLoan
  <2>9. n \in L!Row
    BY <2>6, <2>7, <2>8, LoanShape DEF UnsettledStatuses
  <2>10. GoodLoan(n)
    BY <2>6, <2>9 DEF GoodLoan
  <2>11. DOMAIN w[r] \subseteq DOMAIN L!NoRow \ {"seq"} /\ "emp" \notin DOMAIN w[r]
    BY <2>4, LoanShape DEF LoanColumns
  <2>12. ~L!IsOpen(n)
    BY <2>6 DEF L!IsOpen, L!OpenStatuses
  <2>13. n = Over(w[r], q)
    BY <2>4 DEF n
  <2>14. LoanStageEffect(job, stage, w[r], r, DOMAIN w)
    BY <2>3, <2>5, <2>6, <2>7, <2>10, <2>11, <2>12, <2>13 DEF LoanStageEffect, LoanEffect
  <2>15. \A i \in L!Joining(w) : i = job.on /\ job.do # "settings"
    BY <2>4 DEF L!Joining
  <2> QED
    BY <1>9, <2>1, <2>3, <2>4, <2>14, <2>15 DEF LoanWrites, job, stage
<1>10. CASE stage.do \in {"cancel", "leave"}
  <2>1. DOMAIN w \subseteq L!Loans /\ \A r \in DOMAIN w : /\ L!IsOpen(loans[r])
                                                        /\ w[r] = Columns(L!Cancelled(loans[r]), loans[r])
    <3>1. CASE stage.do = "cancel"
      <4>1. job.on \in L!Loans
        BY <1>0, <1>3, <3>1, JobTypes DEF Stage
      <4> QED
        <5>1. w = [r \in {job.on} |-> Columns(L!Cancelled(loans[r]), loans[r])]
          BY <1>1, <3>1, SameOver DEF L!Writes, job, stage
        <5>2. L!IsOpen(loans[job.on])
          BY <1>1, <1>4, <3>1 DEF L!Allowed, job, stage
        <5> QED
          BY <4>1, <5>1, <5>2
    <3>2. CASE stage.do = "leave"
      BY <1>1, <3>2, SameOver DEF L!Writes, job, stage
    <3> QED
      BY <1>10, <3>1, <3>2
  <2>2. ASSUME NEW r \in DOMAIN w
        PROVE  /\ loans[r].status # "none"
               /\ LoanStageEffect(job, stage, w[r], r, DOMAIN w)
               /\ "status" \in DOMAIN w[r] => w[r].status = "cancelled"
    <3> DEFINE q == loans[r]  n == L!Cancelled(q)
    <3>1. GoodLoan(q) /\ q.status # "none"
      BY <1>5, <2>1 DEF L!IsOpen, L!OpenStatuses
    <3>2. /\ GoodLoan(n) /\ n = [c \in LoanColumns |-> n[c]] /\ n.status = "cancelled"
          /\ \A c \in LoanColumns \ {"status", "cur"} : n[c] = q[c]
      BY <3>1, CancelledLoan
    <3> HIDE DEF n
    <3>3. n.emp = q.emp /\ n.seq = q.seq /\ ~L!IsOpen(n)
      BY <3>2 DEF LoanColumns, L!IsOpen, L!OpenStatuses
    <3>4. LoanEffect(job, Columns(n, q), q, FALSE, FALSE)
      BY <3>1, <3>2, <3>3, LoanUpdate
    <3>5. w[r] = Columns(n, q)
      BY <2>1 DEF n
    <3>7. LoanStageEffect(job, stage, w[r], r, DOMAIN w)
      BY <3>4, <3>5 DEF LoanStageEffect, LoanEffect
    <3>6. "status" \in DOMAIN w[r] => w[r].status = "cancelled"
      BY <3>2, <3>5 DEF Columns
    <3> QED
      BY <3>1, <3>6, <3>7
  <2>3. L!Joining(w) = {}
    BY <2>2 DEF L!Joining
  <2> QED
    BY <1>10, <2>1, <2>2, <2>3 DEF LoanWrites, job, stage
<1>11. CASE stage.do = "settings"
  <2>1. job.do = "settings" /\ \A k \in SiteSteps : job.new[k] \in Employees
    BY <1>0, <1>3, <1>11, JobTypes DEF Stage, SiteSteps
  <2>2. DOMAIN w \subseteq L!Loans /\ \A r \in DOMAIN w : /\ loans[r].status = "in_review"
                                                        /\ w[r] = Columns(L!Reassigned(loans[r], job.new), loans[r])
    BY <1>1, <1>11, SameOver DEF L!Writes, L!Step, job, stage
  <2>3. ASSUME NEW r \in DOMAIN w
        PROVE  /\ loans[r].status # "none"
               /\ LoanStageEffect(job, stage, w[r], r, DOMAIN w)
               /\ "status" \notin DOMAIN w[r]
    <3> DEFINE q == loans[r]  n == L!Reassigned(q, job.new)
    <3>1. GoodLoan(q) /\ q.status = "in_review"
      BY <1>5, <2>2
    <3>2. /\ GoodLoan(n) /\ n = [c \in LoanColumns |-> n[c]]
          /\ \A c \in LoanColumns \ {"hr", "site_manager", "cur"} : n[c] = q[c]
      BY <2>1, <3>1, ReassignedLoan
    <3> HIDE DEF n
    <3>3. n.emp = q.emp /\ n.seq = q.seq /\ n.status = q.status
      BY <3>2 DEF LoanColumns
    <3>4. LoanEffect(job, Columns(n, q), q, FALSE, FALSE)
      BY <3>1, <3>2, <3>3, LoanUpdate DEF L!IsOpen
    <3>5. w[r] = Columns(n, q)
      BY <2>2 DEF n
    <3>7. LoanStageEffect(job, stage, w[r], r, DOMAIN w)
      BY <3>4, <3>5 DEF LoanStageEffect, LoanEffect
    <3>6. "status" \notin DOMAIN w[r]
      BY <3>3, <3>5 DEF Columns
    <3> QED
      BY <3>1, <3>6, <3>7
  <2>4. L!Joining(w) = {}
    BY <2>3 DEF L!Joining
  <2> QED
    BY <1>11, <2>2, <2>3, <2>4 DEF LoanWrites, job, stage
<1>12. stage.do \in LoanCalls \cup {"leave"}
  BY <1>3 DEF Stage
<1>13. \/ stage.do = "submit" \/ stage.do \in {"guarantee", "approve"} \/ stage.do = "pay"
       \/ stage.do \in {"cancel", "leave"} \/ stage.do = "settings"
  BY ONLY <1>12 DEF LoanCalls
<1> QED
  BY ONLY <1>7, <1>8, <1>9, <1>10, <1>11, <1>13 DEF LoanWrites, job, stage

-----------------------------------------------------------------------------
(* What the stages about advances write.                                   *)
LEMMA AdvanceUpdate ==
  ASSUME NEW q, GoodAdvance(q), q.status # "none",
         NEW n, GoodAdvance(n), n = [c \in AdvanceColumns |-> n[c]],
         n.status # "none", n.emp = q.emp, n.month = q.month,
         n.status \in A!UnpaidStatuses => q.status \in A!UnpaidStatuses,
         n.status \in A!CountedStatuses => q.status \in A!CountedStatuses,
         NEW job, NEW locked \in BOOLEAN,
         locked \/ /\ \A c \in AdvanceColumns \ {"status", "unit_manager", "site_manager", "cur"} : n[c] = q[c]
                   /\ n.status # q.status => n.status = "cancelled"
  PROVE  AdvanceEffect(job, Columns(n, q), q, locked, FALSE)
<1> DEFINE w == Columns(n, q)
<1>1. Shaped(AdvanceColumns, q) /\ Shaped(AdvanceColumns, n)
  BY AdvanceShape DEF GoodAdvance, Shaped
<1>2. /\ Over(w, q) = n /\ (\A c : c \in DOMAIN w <=> c \in AdvanceColumns /\ n[c] # q[c])
      /\ \A c \in DOMAIN w : w[c] = n[c]
  BY <1>1, ColumnsOver
<1> HIDE DEF w
<1>3. DOMAIN w \subseteq DOMAIN A!NoRow /\ {"emp", "month"} \cap DOMAIN w = {}
  BY <1>2, AdvanceShape DEF AdvanceColumns
<1>4. locked \/ Unlocked(w, {"status", "unit_manager", "site_manager", "cur"})
  <2>1. CASE ~locked
    <3>1. DOMAIN w \subseteq {"status", "unit_manager", "site_manager", "cur"}
      BY <1>2, <2>1
    <3>2. "status" \in DOMAIN w => w.status = "cancelled"
      BY <1>2, <2>1
    <3> QED
      BY <3>1, <3>2 DEF Unlocked
  <2> QED
    BY <2>1
<1>5. AdvanceEffect(job, w, q, locked, FALSE)
  BY <1>2, <1>3, <1>4 DEF AdvanceEffect
<1> QED
  BY <1>5 DEF w

LEMMA AdvanceInsert ==
  ASSUME NEW n, GoodAdvance(n), n = [c \in AdvanceColumns |-> n[c]], n.status # "none",
         NEW job, job.do = "ask", n.emp = job.by, n.month = job.month
  PROVE  AdvanceEffect(job, Columns(n, A!NoRow), A!NoRow, FALSE, TRUE)
<1> DEFINE q == A!NoRow  w == Columns(n, q)
<1>1. q = [c \in AdvanceColumns |-> q[c]] /\ q.status = "none"
  BY DEF A!NoRow, AdvanceColumns
<1>2. DOMAIN A!NoRow = AdvanceColumns
  BY AdvanceShape
<1> HIDE DEF q
<1>3. Over(w, q) = n /\ (\A c : c \in DOMAIN w <=> c \in AdvanceColumns /\ n[c] # q[c])
  <2>1. Shaped(AdvanceColumns, q) /\ Shaped(AdvanceColumns, n)
    BY <1>1 DEF Shaped
  <2> QED
    BY <2>1, ColumnsOver DEF w
<1> HIDE DEF w
<1>4. DOMAIN w \subseteq DOMAIN A!NoRow
  BY <1>2, <1>3
<1>5. AdvanceEffect(job, w, q, FALSE, TRUE)
  BY <1>1, <1>3, <1>4 DEF AdvanceEffect
<1> QED
  BY <1>5 DEF w, q

(* A stage looks at requests that its call has left alone, or cancelled.   *)
LEMMA OwnAdvances ==
  ASSUME Tables, NEW s \in Sessions, tx[s].job \in Jobs, Ahead(tx[s]),
         tx[s].rest # <<>>, Head(tx[s].rest).of = "advance"
  PROVE  /\ Db(s, tx[s]).working \subseteq Employees /\ Db(s, tx[s]).manager = manager
         /\ \A r \in A!Advances \ DOMAIN tx[s].advances : Db(s, tx[s]).advances[r] = advances[r]
         /\ \A r \in A!Advances \cap DOMAIN tx[s].advances :
              \/ Head(tx[s].rest).do \in Batches /\ r # Head(tx[s].rest).on
              \/ /\ Head(tx[s].rest).do \in {"choose", "replace"}
                 /\ Db(s, tx[s]).advances[r].status = "cancelled"
<1> DEFINE job == tx[s].job  stages == Stages(job)  done == Len(stages) - Len(tx[s].rest)
           stage == Head(tx[s].rest)  own == tx[s].advances
<1>1. /\ done \in Nat /\ done + 1 \in DOMAIN stages /\ stage = stages[done + 1]
      /\ stage \in Range(stages) /\ Len(tx[s].rest) \in Nat
  BY NextStage
<1>2. stages \in Seq(Range(stages)) /\ job \in Jobs
  BY StageCount
<1>3. done + 1 \in 1..Len(stages)
  BY <1>1, <1>2
<1>4. Db(s, tx[s]).advances = After(advances, own)
  BY DEF Db
<1>5. \A r \in A!Advances : After(advances, own)[r] = IF r \in DOMAIN own THEN Over(own[r], advances[r]) ELSE advances[r]
  BY DEF After, Tables
<1>6. Db(s, tx[s]).working \subseteq Employees /\ Db(s, tx[s]).manager = manager
  BY DEF Db, Tables
<1>7. done = 0 => DOMAIN own = {}
  BY DEF Ahead
<1>8. /\ job.do \in Batches => \A r \in DOMAIN own : \E i \in 1..done : r = job.on[i]
      /\ job.do = "manager" => DOMAIN own = {}
      /\ job.do = "leave" /\ Len(tx[s].rest) > 1 => DOMAIN own = {}
      /\ job.do = "leave" /\ Len(tx[s].rest) = 1 =>
           \A r \in DOMAIN own : "status" \in DOMAIN own[r] /\ own[r].status = "cancelled"
  BY DEF Ahead
<1>9. Len(stages) \in Nat
  BY <1>2
<1> HIDE DEF own
<1>10. ASSUME NEW r \in A!Advances \cap DOMAIN own
       PROVE  \/ stage.do \in Batches /\ r # stage.on
              \/ stage.do \in {"choose", "replace"} /\ Db(s, tx[s]).advances[r].status = "cancelled"
  <2>1. CASE job.do \in {"withdraw", "ask", "move"}
    <3>1. Len(stages) = 1
      BY <2>1, StageCount
    <3> HIDE DEF stages, done
    <3>2. done = 0
      BY <1>1, <1>3, <3>1
    <3> QED
      BY <1>7, <3>2
  <2>2. CASE job.do = "manager"
    BY <1>8, <2>2
  <2>3. CASE job.do = "leave"
    <3>1. Len(stages) = 3 /\ stages[1].of = "loan" /\ stages[3] = Stage("advance", "replace", 0)
      BY <2>3, StageCount DEF Stage
    <3>2. Len(tx[s].rest) = 1
      <4> DEFINE n == Len(tx[s].rest)
      <4>1. n \in Nat /\ n <= 1
        BY <1>1, <1>8, <2>3
      <4>2. \A a, b \in Nat : (a - b) + 1 \in 1..a => b # 0
        OBVIOUS
      <4>3. n # 0
        BY <1>3, <1>9, <4>1, <4>2
      <4> HIDE DEF n
      <4>4. n = 1
        BY ONLY <4>1, <4>3
      <4> QED
        BY <4>4 DEF n
    <3>3. stage = Stage("advance", "replace", 0)
      BY <1>1, <3>1, <3>2
    <3>4. "status" \in DOMAIN own[r] /\ own[r].status = "cancelled"
      BY <1>8, <2>3, <3>2
    <3>5. Over(own[r], advances[r]).status = "cancelled"
      BY <3>4 DEF Over
    <3> QED
      BY <1>4, <1>5, <3>3, <3>5 DEF Stage
  <2>4. CASE job.do \in Batches
    <3>1. job.on \in Seq(A!Advances) /\ IsInjective(job.on)
      BY <1>2, <2>4, JobTypes
    <3>2. Len(stages) = Len(job.on) /\ \A i \in DOMAIN stages : stages[i].on = job.on[i]
      BY <1>2, <2>4, StageCount
    <3>3. stage.on = job.on[done + 1] /\ stage.do = job.do
      BY <1>1, <1>2, <2>4, <3>2, StageKinds DEF Stage, Batches, LoanCalls
    <3>4. PICK i \in 1..done : r = job.on[i]
      BY <1>8, <2>4
    <3>5. DOMAIN job.on = 1..Len(stages)
      BY <3>1, <3>2
    <3> HIDE DEF stages, done
    <3>6. i \in DOMAIN job.on /\ done + 1 \in DOMAIN job.on /\ i # done + 1
      BY <1>1, <1>3, <1>9, <3>5
    <3>7. job.on[i] # job.on[done + 1]
      BY <3>1, <3>6 DEF IsInjective
    <3> QED
      BY <2>4, <3>3, <3>4, <3>7
  <2>5. job.do \in {"withdraw", "ask", "move", "manager", "leave"} \cup Batches
    BY <1>1, <1>2, StageKinds DEF Stage
  <2> QED
    BY <2>1, <2>2, <2>3, <2>4, <2>5
<1> QED
  BY <1>4, <1>5, <1>6, <1>10 DEF own

AdvanceWrites(s, w) ==
  /\ DOMAIN w \subseteq A!Advances \ DOMAIN tx[s].advances
  /\ \A r \in DOMAIN w :
       /\ AdvanceStageEffect(tx[s].job, Head(tx[s].rest), w[r], r, DOMAIN w)
       /\ advances[r].status = "none" => /\ Head(tx[s].rest) = Stage("advance", "ask", 0)
                                        /\ \A u \in Sessions \ {s} : r \notin DOMAIN tx[u].advances
  /\ Head(tx[s].rest).do \in Batches => DOMAIN w \subseteq {Head(tx[s].rest).on}
  /\ Head(tx[s].rest).do = "choose" => DOMAIN w = {}
  /\ Head(tx[s].rest).do = "leave" =>
       \A r \in DOMAIN w : "status" \in DOMAIN w[r] /\ w[r].status = "cancelled"
  /\ Head(tx[s].rest).do = "ask" => \E r \in DOMAIN w : advances[r].status = "none"

LEMMA AdvanceEffects ==
  ASSUME Tables, NEW s \in Sessions, tx[s].job \in Jobs, Ahead(tx[s]),
         tx[s].rest # <<>>, Head(tx[s].rest).of = "advance",
         NEW db, db = Db(s, tx[s]), GoesAhead(s, db),
         NEW w, w = A!Writes(tx[s].job, Head(tx[s].rest), db)
  PROVE  AdvanceWrites(s, w)
<1> DEFINE job == tx[s].job  stage == Head(tx[s].rest)  own == DOMAIN tx[s].advances
           new == A!Written(job, stage, db)
           locked(r) == LockOf(AdvanceRow(r), "for_update") \in FirstLocks(job, stage)
<1>0. job \in Jobs
  OBVIOUS
<1>1. /\ db.working \subseteq Employees /\ db.manager = manager
      /\ \A r \in A!Advances \ own : db.advances[r] = advances[r]
      /\ \A r \in A!Advances \cap own :
           \/ stage.do \in Batches /\ r # stage.on
           \/ stage.do \in {"choose", "replace"} /\ db.advances[r].status = "cancelled"
  BY OwnAdvances
<1>2. stage \in Range(Stages(job))
  BY NextStage
<1>3. \/ /\ job.do \in Batches \cup {"withdraw"} /\ stage.do = job.do /\ stage.on \in A!Advances
      \/ job.do = "manager" /\ stage \in {Stage("advance", "choose", 0), Stage("advance", "manager", 0)}
      \/ job.do = "leave" /\ stage \in {Stage("advance", "leave", 0), Stage("advance", "replace", 0)}
      \/ job.do \in {"ask", "move"} /\ stage = Stage("advance", job.do, 0)
  BY <1>2, StageKinds DEF Stage
<1>4. A!Allowed(job, stage, db) /\ A!HasPeople(job, stage, db)
  BY DEF GoesAhead, Allowed, HasPeople
<1>5. \A r \in A!Advances : GoodAdvance(advances[r])
  BY DEF Tables
<1>6. FirstLocks(job, stage) = A!FirstLocks(job, stage)
  BY DEF FirstLocks
<1>7. /\ DOMAIN w = {i \in DOMAIN new : new[i] # db.advances[i]}
      /\ \A r \in DOMAIN w : w[r] = Columns(new[r], db.advances[r])
  BY SameOver DEF A!Writes
<1> HIDE DEF job, stage, own, new
(* Rows of a stage that is not an insert.                                  *)
<1>8. ASSUME NEW r \in DOMAIN w, r \in A!Advances \ own, advances[r].status # "none",
             GoodAdvance(new[r]), new[r] = [c \in AdvanceColumns |-> new[r][c]],
             new[r].status # "none", new[r].emp = advances[r].emp, new[r].month = advances[r].month,
             new[r].status \in A!UnpaidStatuses => advances[r].status \in A!UnpaidStatuses,
             new[r].status \in A!CountedStatuses => advances[r].status \in A!CountedStatuses,
             \/ locked(r)
             \/ /\ \A c \in AdvanceColumns \ {"status", "unit_manager", "site_manager", "cur"} :
                     new[r][c] = advances[r][c]
                /\ new[r].status # advances[r].status => new[r].status = "cancelled"
      PROVE  AdvanceStageEffect(job, stage, w[r], r, DOMAIN w)
  <2> DEFINE q == advances[r]  n == new[r]
  <2>1. w[r] = Columns(n, q)
    BY <1>1, <1>7, <1>8
  <2>2. GoodAdvance(q)
    BY <1>5, <1>8
  <2> HIDE DEF q, n
  <2>3. CASE locked(r)
    <3>1. AdvanceEffect(job, Columns(n, q), q, TRUE, FALSE)
      BY <1>8, <2>2, AdvanceUpdate DEF q, n
    <3>2. AdvanceStageEffect(job, stage, w[r], r, DOMAIN w)
      BY <2>1, <2>3, <3>1 DEF AdvanceStageEffect, AdvanceEffect, q
    <3> QED
      BY <3>2 DEF q
  <2>4. CASE ~locked(r)
    <3>1. AdvanceEffect(job, Columns(n, q), q, FALSE, FALSE)
      BY <1>8, <2>2, <2>4, AdvanceUpdate DEF q, n
    <3>2. AdvanceStageEffect(job, stage, w[r], r, DOMAIN w)
      BY <2>1, <3>1 DEF AdvanceStageEffect, AdvanceEffect, q
    <3> QED
      BY <3>2 DEF q
  <2> QED
    BY <2>3, <2>4
<1>9. CASE stage.do = "ask"
  <2>1. job.do = "ask" /\ stage = Stage("advance", "ask", 0)
    BY <1>3, <1>9 DEF Stage, Batches
  <2>2. job.by \in Employees /\ job.month \in Nat
    BY <1>0, <2>1, JobTypes
  <2> DEFINE free == FreeIn(advances, UNION {DOMAIN t.advances : t \in {tx[u] : u \in Sessions \ {s}}})
             r == CHOOSE i \in free : \A j \in free : i <= j
             n == A!Inserted(job, db)
  <2>3. db.freeAdvances = free
    BY DEF Db
  <2>4. free # {}
    BY <1>4, <1>9, <2>3 DEF A!Allowed
  <2>5. free \subseteq A!Advances
    BY DEF FreeIn, Tables
  <2>6. free \subseteq Nat
    BY <2>5 DEF A!Advances
  <2>7. r \in free
    <3>1. \E i \in free : \A j \in free : i <= j
      BY <2>4, <2>6, Least
    <3> QED
      BY <3>1
  <2>8. new = [x \in {r} |-> n]
    <3>1. new = [x \in {CHOOSE i \in db.freeAdvances : \A j \in db.freeAdvances : i <= j} |-> A!Inserted(job, db)]
      BY <1>9 DEF A!Written, new
    <3> QED
      BY ONLY <2>3, <3>1
  <2>9. advances[r].status = "none" /\ \A u \in Sessions \ {s} : r \notin DOMAIN tx[u].advances
    BY <2>7 DEF FreeIn
  <2> HIDE DEF free, r
  <2>10. r \in A!Advances
    BY <2>5, <2>7
  <2>11. r \notin own
    BY <1>1, <1>9, <2>10 DEF Batches
  <2>12. advances[r] = A!NoRow /\ db.advances[r] = A!NoRow
    BY <1>1, <1>5, <2>9, <2>10, <2>11 DEF GoodAdvance
  <2>13. A!UnitManager(job.by, db.working) \in Employees /\ db.manager \in Employees
    <3>1. A!UnitManager(job.by, db.working) \in Maybe(Employees)
      BY <2>2, UnitManagers
    <3>2. A!UnitManager(job.by, db.working) # None /\ db.manager # None
      BY <1>4, <1>9 DEF A!HasPeople
    <3>3. manager \in Maybe(Employees)
      BY DEF Tables
    <3> QED
      BY <1>1, <3>1, <3>2, <3>3 DEF Maybe
  <2>14. /\ GoodAdvance(n) /\ n = [c \in AdvanceColumns |-> n[c]]
         /\ n.status \in OpenStatuses /\ n.emp = job.by /\ n.month = job.month
    BY <1>1, <2>2, <2>13, InsertedAdvance
  <2> HIDE DEF n
  <2>15. n.status # "none" /\ A!NoRow.status = "none"
    BY <2>14 DEF OpenStatuses, A!NoRow
  <2>16. AdvanceEffect(job, Columns(n, A!NoRow), A!NoRow, FALSE, TRUE)
    BY <2>1, <2>14, <2>15, AdvanceInsert
  <2>17. DOMAIN w = {r} /\ w[r] = Columns(n, A!NoRow)
    <3>1. DOMAIN new = {r} /\ new[r] = n
      BY <2>8
    <3>2. n # A!NoRow
      BY <2>15
    <3> QED
      BY <1>7, <2>12, <3>1, <3>2
  <2>18. AdvanceEffect(job, w[r], advances[r], FALSE, TRUE)
    BY <2>12, <2>16, <2>17
  <2>19. AdvanceStageEffect(job, stage, w[r], r, DOMAIN w)
    BY <2>17, <2>18 DEF AdvanceStageEffect, AdvanceEffect
  <2> HIDE DEF locked
  <2> QED
    BY <1>9, <2>1, <2>9, <2>10, <2>11, <2>17, <2>19 DEF AdvanceWrites, Batches, job, stage, own, locked
<1>10. CASE stage.do \in Batches \cup {"withdraw"}
  <2> DEFINE r == stage.on
  <2>1. r \in A!Advances \ own
    BY <1>1, <1>3, <1>10 DEF Batches, Stage
  <2>2. db.advances[r] = advances[r] /\ GoodAdvance(advances[r])
    BY <1>1, <1>5, <2>1
  <2>3. new = [x \in {r} |-> A!Decided(job, stage, db)]
    BY <1>10 DEF A!Written, new, Batches
  <2>4. DOMAIN new = {r} /\ new[r] = A!Decided(job, stage, db)
    BY <2>3
  <2>5. locked(r)
    BY <1>6, <1>10 DEF A!FirstLocks, A!LockOf, LockOf, A!RequestRow, RequestRow, AdvanceRow, Batches
  <2> HIDE DEF locked
  <2>6. LET q == db.advances[stage.on]  n == A!Decided(job, stage, db)
        IN  /\ GoodAdvance(n) /\ n = [c \in AdvanceColumns |-> n[c]] /\ n.status # "none"
            /\ q.status # "none" /\ n.emp = q.emp /\ n.month = q.month
            /\ n.status \in A!UnpaidStatuses => q.status \in A!UnpaidStatuses
            /\ n.status \in A!CountedStatuses => q.status \in A!CountedStatuses
    BY <1>1, <1>4, <1>10, <2>2, DecidedAdvance
  <2>7. DOMAIN w \subseteq {r}
    BY <1>7, <2>4
  <2>8. ASSUME r \in DOMAIN w
        PROVE  AdvanceStageEffect(job, stage, w[r], r, DOMAIN w)
    BY <1>8, <2>1, <2>2, <2>4, <2>5, <2>6, <2>8
  <2>9. advances[r].status # "none"
    BY <2>2, <2>6
  <2> QED
    BY <1>10, <2>1, <2>7, <2>8, <2>9 DEF AdvanceWrites, Batches, job, stage, own, locked
<1>11. CASE stage.do \in {"choose", "leave", "manager", "move", "replace"}
  <2>1. \A r \in DOMAIN w : /\ r \in A!Advances \ own
                            /\ stage.do # "choose"
                            /\ IF stage.do = "leave"
                               THEN advances[r].status \in A!UnpaidStatuses /\ new[r] = A!Closed(advances[r], "cancelled")
                               ELSE advances[r].status = "in_review" /\ \E refresh, boss :
                                      new[r] = A!Reassigned(advances[r], refresh, db.working, boss)
    <3> SUFFICES ASSUME NEW r \in DOMAIN w
                 PROVE  /\ r \in A!Advances \ own
                        /\ stage.do # "choose"
                        /\ IF stage.do = "leave"
                           THEN advances[r].status \in A!UnpaidStatuses /\ new[r] = A!Closed(advances[r], "cancelled")
                           ELSE advances[r].status = "in_review" /\ \E refresh, boss :
                                  new[r] = A!Reassigned(advances[r], refresh, db.working, boss)
      OBVIOUS
    <3>1. r \in DOMAIN new
      BY <1>7
    <3>2. CASE stage.do = "choose"
      <4>1. new = <<>>
        BY <3>2 DEF A!Written, new
      <4> QED
        BY <3>1, <4>1
    <3>3. CASE stage.do = "leave"
      <4>1. r \in A!Advances /\ db.advances[r].status \in A!UnpaidStatuses
            /\ new[r] = A!Closed(db.advances[r], "cancelled")
        BY <3>1, <3>3 DEF A!Written, new
      <4>2. r \notin own
        BY <1>1, <3>3, <4>1 DEF Batches
      <4> QED
        BY <1>1, <3>3, <4>1, <4>2
    <3>4. CASE stage.do \in {"manager", "move", "replace"}
      <4>1. new = A!MovedRows(job, stage, db)
        BY <3>4 DEF A!Written, new
      <4>2. /\ r \in A!Advances /\ db.advances[r].status = "in_review"
            /\ \E refresh, boss : new[r] = A!Reassigned(db.advances[r], refresh, db.working, boss)
        BY <3>1, <4>1 DEF A!MovedRows
      <4>3. r \notin own
        BY <1>1, <3>4, <4>2 DEF Batches
      <4> QED
        BY <1>1, <3>4, <4>2, <4>3
    <3> QED
      BY <1>11, <3>2, <3>3, <3>4
  <2> HIDE DEF locked
  <2>2. ASSUME NEW r \in DOMAIN w
        PROVE  /\ advances[r].status # "none"
               /\ AdvanceStageEffect(job, stage, w[r], r, DOMAIN w)
               /\ stage.do = "leave" => "status" \in DOMAIN w[r] /\ w[r].status = "cancelled"
    <3> DEFINE q == advances[r]  n == new[r]
    <3>1. GoodAdvance(q) /\ r \in A!Advances \ own
      BY <1>5, <2>1
    <3>2. CASE stage.do = "leave"
      <4>1. q.status \in A!UnpaidStatuses /\ n = A!Closed(q, "cancelled")
        BY <2>1, <3>2
      <4> HIDE DEF q, n
      <4>2. q.status # "none" /\ q.status # "cancelled"
        BY <4>1 DEF A!UnpaidStatuses
      <4>3. /\ GoodAdvance(n) /\ n = [c \in AdvanceColumns |-> n[c]] /\ n.status = "cancelled"
            /\ \A c \in AdvanceColumns \ {"status", "cur"} : n[c] = q[c]
        BY <3>1, <4>1, <4>2, ClosedAdvance DEF q
      <4>4. n.emp = q.emp /\ n.month = q.month
        BY <4>3 DEF AdvanceColumns
      <4>5. AdvanceStageEffect(job, stage, w[r], r, DOMAIN w)
        BY <1>8, <3>1, <4>2, <4>3, <4>4 DEF A!UnpaidStatuses, A!CountedStatuses, q, n
      <4>6. q = [c \in AdvanceColumns |-> q[c]]
        BY <3>1, AdvanceShape DEF GoodAdvance, q
      <4>7. w[r] = Columns(n, q)
        BY <1>1, <1>7, <3>1 DEF q, n
      <4>8. "status" \in DOMAIN w[r] /\ w[r].status = "cancelled"
        BY <4>2, <4>3, <4>6, <4>7 DEF Columns, AdvanceColumns
      <4> QED
        BY <4>2, <4>5, <4>8 DEF q
    <3>3. CASE stage.do # "leave"
      <4>1. q.status = "in_review" /\ \E refresh, boss : n = A!Reassigned(q, refresh, db.working, boss)
        BY <2>1, <3>3
      <4> HIDE DEF q, n
      <4>2. /\ GoodAdvance(n) /\ n = [c \in AdvanceColumns |-> n[c]]
            /\ \A c \in AdvanceColumns \ {"unit_manager", "site_manager", "cur"} : n[c] = q[c]
        BY <1>1, <3>1, <4>1, ReassignedAdvance DEF q
      <4>3. n.emp = q.emp /\ n.month = q.month /\ n.status = q.status
        BY <4>2 DEF AdvanceColumns
      <4>4. AdvanceStageEffect(job, stage, w[r], r, DOMAIN w)
        BY <1>8, <3>1, <4>1, <4>2, <4>3 DEF q, n
      <4> QED
        BY <3>3, <4>1, <4>4 DEF q
    <3> QED
      BY <3>2, <3>3
  <2> QED
    BY <1>11, <2>1, <2>2 DEF AdvanceWrites, Batches, job, stage, own, locked
<1>12. stage.do \in Batches \cup {"withdraw", "ask", "choose", "leave", "manager", "move", "replace"}
  BY <1>3 DEF Stage
<1> QED
  BY ONLY <1>9, <1>10, <1>11, <1>12 DEF AdvanceWrites, job, stage, own

-----------------------------------------------------------------------------
(* Steps of one session while the tables stay as they are.                 *)

LEMMA IdleInOrder ==
  ASSUME NEW s, tx'[s] = Idle
  PROVE  InOrder(s)'
<1>1. /\ Idle.job = [do |-> "none"] /\ Idle.rest = <<>> /\ Idle.taken = {} /\ Idle.todo = {}
      /\ Idle.number = 0 /\ DOMAIN Idle.loans = {} /\ DOMAIN Idle.advances = {}
  BY DEF Idle
<1>2. TypedTx(Idle)
  BY DEF TypedTx, Idle
<1>3. TypedTx(tx[s])'
  BY <1>2 DEF TypedTx
<1>4. L!Joining(Idle.loans) = {}
  BY <1>1 DEF L!Joining
<1>5. Queueing(s)'
  BY <1>1, <1>4 DEF Queueing
<1> QED
  BY <1>1, <1>3, <1>5 DEF InOrder

(* What a session was going to write it still is, if it has kept its locks *)
(* and nobody has touched the row.                                         *)
LEMMA StillWritesLoan ==
  ASSUME NEW s, NEW r, LoanWrite(s, r), loans'[r] = loans[r], tx'[s].job = tx[s].job,
         tx'[s].loans[r] = tx[s].loans[r],
         DOMAIN tx[s].loans = {r} => DOMAIN tx'[s].loans = {r},
         Held(s, LoanRow(r), "for_update") => Held(s, LoanRow(r), "for_update")',
         Secured(s, LoanRow(r), "no_key_update")',
         loans[r].status = "none" /\ Stands(s, Stage("loan", "submit", 0)) =>
           Stands(s, Stage("loan", "submit", 0))'
  PROVE  LoanWrite(s, r)'
<1>1. LoanEffect(tx'[s].job, tx'[s].loans[r], loans'[r], Held(s, LoanRow(r), "for_update")',
                 DOMAIN tx'[s].loans = {r})
  BY DEF LoanWrite, LoanEffect
<1> QED
  BY <1>1 DEF LoanWrite

LEMMA StillWritesAdvance ==
  ASSUME NEW s, NEW r, AdvanceWrite(s, r), advances'[r] = advances[r], tx'[s].job = tx[s].job,
         tx'[s].advances[r] = tx[s].advances[r],
         DOMAIN tx[s].advances = {r} => DOMAIN tx'[s].advances = {r},
         Held(s, AdvanceRow(r), "for_update") => Held(s, AdvanceRow(r), "for_update")',
         Secured(s, AdvanceRow(r), "no_key_update")',
         advances[r].status = "none" /\ Stands(s, Stage("advance", "ask", 0)) =>
           Stands(s, Stage("advance", "ask", 0))'
  PROVE  AdvanceWrite(s, r)'
<1>1. AdvanceEffect(tx'[s].job, tx'[s].advances[r], advances'[r], Held(s, AdvanceRow(r), "for_update")',
                    DOMAIN tx'[s].advances = {r})
  BY DEF AdvanceWrite, AdvanceEffect
<1> QED
  BY <1>1 DEF AdvanceWrite

(* A session that does nothing, and whose locks stay.                      *)
LEMMA OthersInOrder ==
  ASSUME NEW u, InOrder(u), tx'[u] = tx[u], UNCHANGED <<committed, day>>,
         \A row, mode : Held(u, row, mode)' <=> Held(u, row, mode)
  PROVE  InOrder(u)'
<1> USE DEF committed
<1>1. TypedTx(tx[u])' /\ (tx[u] # Idle => Ahead(tx[u]))'
  <2>1. TypedTx(tx[u])'
    BY DEF InOrder, TypedTx
  <2>2. (tx[u] # Idle => Ahead(tx[u]))'
    BY DEF InOrder
  <2> QED
    BY <2>1, <2>2
<1>2. \A row, mode : Secured(u, row, mode)' <=> Secured(u, row, mode)
  BY DEF Secured
<1>3. \A stage : Stands(u, stage)' <=> Stands(u, stage)
  BY DEF Stands
<1>4. ASSUME NEW r, LoanWrite(u, r) PROVE LoanWrite(u, r)'
  <2>1. Secured(u, LoanRow(r), "no_key_update")'
    BY <1>2, <1>4 DEF LoanWrite
  <2> QED
    BY <1>3, <1>4, <2>1, StillWritesLoan
<1>5. ASSUME NEW r, AdvanceWrite(u, r) PROVE AdvanceWrite(u, r)'
  <2>1. Secured(u, AdvanceRow(r), "no_key_update")'
    BY <1>2, <1>5 DEF AdvanceWrite
  <2> QED
    BY <1>3, <1>5, <2>1, StillWritesAdvance
<1>6. Queueing(u)'
  BY DEF InOrder, Queueing
<1> QED
  BY <1>1, <1>3, <1>4, <1>5, <1>6 DEF InOrder

(* The invariant after a step of session s, from what s has changed.       *)
LEMMA SessionStep ==
  ASSUME TransactionInv, NEW s \in Sessions, UNCHANGED <<committed, day>>,
         tx' = [t \in Sessions |-> tx'[t]], \A u \in Sessions \ {s} : tx'[u] = tx[u],
         \A u \in Sessions \ {s} : \A row, mode : Held(u, row, mode)' <=> Held(u, row, mode),
         Locked', InOrder(s)', \A u \in Sessions \ {s} : Apart(s, u)'
  PROVE  TransactionInv'
<1>1. Tables'
  BY DEF TransactionInv, Tables, committed, Settings
<1>2. ASSUME NEW u \in Sessions \ {s} PROVE InOrder(u)'
  BY <1>2, OthersInOrder DEF TransactionInv, Transactions
<1>3. ASSUME NEW t \in Sessions, NEW u \in Sessions \ {t} PROVE Apart(t, u)'
  <2>1. CASE t = s
    BY <2>1
  <2>2. CASE u = s
    <3>1. Apart(s, t)'
      BY <2>2
    <3> QED
      BY <2>2, <3>1 DEF Apart
  <2>3. CASE t # s /\ u # s
    <3>1. Apart(t, u)
      BY DEF TransactionInv, Transactions
    <3> QED
      BY <2>3, <3>1 DEF Apart, committed
  <2> QED
    BY <2>1, <2>2, <2>3
<1>4. Transactions'
  BY <1>2, <1>3 DEF Transactions
<1>5. Numbers' /\ SubmissionLimits'
  BY DEF TransactionInv, Numbers, NumbersDiffer, SubmissionLimits, committed
<1> QED
  BY <1>1, <1>4, <1>5 DEF TransactionInv

(* The end of a transaction, whatever it was about to do.                  *)
LEMMA Released ==
  ASSUME Tables, Locked, NEW s \in Sessions, Release(s)
  PROVE  /\ Locked' /\ tx'[s] = Idle /\ tx' = [t \in Sessions |-> tx'[t]]
         /\ \A u \in Sessions \ {s} : tx'[u] = tx[u]
         /\ \A u \in Sessions \ {s} : \A row, mode : Held(u, row, mode)' <=> Held(u, row, mode)
<1>1. tx'[s] = Idle /\ \A u \in Sessions \ {s} : tx'[u] = tx[u]
  BY DEF Release, Tables
<1>2. tx' = [t \in Sessions |-> tx'[t]]
  BY DEF Release, Tables
<1>3. locks' = {l \in locks : l.session # s}
  BY DEF Release
<1>4. \A u \in Sessions \ {s} : \A row, mode : Held(u, row, mode)' <=> Held(u, row, mode)
  BY <1>3 DEF Held
<1>5. Locked'
  BY <1>1, <1>3 DEF Locked
<1> QED
  BY <1>1, <1>2, <1>4, <1>5

LEMMA RollsBack ==
  ASSUME TransactionInv, NEW s \in Sessions, Release(s), UNCHANGED <<committed, day>>
  PROVE  TransactionInv'
<1>1. /\ Locked' /\ tx'[s] = Idle /\ tx' = [t \in Sessions |-> tx'[t]]
      /\ \A u \in Sessions \ {s} : tx'[u] = tx[u]
      /\ \A u \in Sessions \ {s} : \A row, mode : Held(u, row, mode)' <=> Held(u, row, mode)
  BY Released DEF TransactionInv
<1>2. InOrder(s)'
  BY <1>1, IdleInOrder
<1>3. \A u : Apart(s, u)'
  BY <1>1 DEF Apart, Idle
<1> QED
  BY <1>1, <1>2, <1>3, SessionStep

(* A session that nobody blocks gets what it wants.                        *)
LEMMA Taken ==
  ASSUME Locked, NEW s \in Sessions, BlockedBy(s) = {}, Take(s),
         \A u \in Sessions : tx[u] # Idle => tx'[u] # Idle, tx'[s] # Idle
  PROVE  /\ Locked'
         /\ \A row, mode : Held(s, row, mode) => Held(s, row, mode)'
         /\ \A l \in Wanted(s) : Held(s, l.row, l.mode)'
         /\ \A u \in Sessions \ {s} : \A row, mode : Held(u, row, mode)' <=> Held(u, row, mode)
<1>1. \A k : k \in locks' <=> k \in locks \/ \E l \in Wanted(s) : k = [session |-> s, row |-> l.row, mode |-> l.mode]
  BY DEF Take
<1>2. \A l \in Wanted(s) : Held(s, l.row, l.mode)'
  BY <1>1 DEF Held
<1>3. \A row, mode : Held(s, row, mode) => Held(s, row, mode)'
  BY <1>1 DEF Held
<1>4. \A u \in Sessions \ {s} : \A row, mode : Held(u, row, mode)' <=> Held(u, row, mode)
  BY <1>1 DEF Held
<1>5. \A l \in locks' : /\ l = [session |-> l.session, row |-> l.row, mode |-> l.mode]
                        /\ l.session \in Sessions /\ tx'[l.session] # Idle
  BY <1>1 DEF Locked
<1>6. ASSUME NEW k \in locks', NEW l \in locks', k.row = l.row, k.session # l.session
      PROVE  Compatible(k.mode, l.mode)
  <2>1. ASSUME NEW h \in locks, h.session # s, NEW w \in Wanted(s), h.row = w.row
        PROVE  Compatible(h.mode, w.mode)
    <3>1. h.session \notin Blockers(s, w)
      BY DEF BlockedBy
    <3> QED
      BY <2>1, <3>1 DEF Blockers
  <2>2. CASE k \in locks /\ l \in locks
    BY <1>6, <2>2 DEF Locked
  <2>3. CASE k \in locks /\ l \notin locks
    <3>1. PICK w \in Wanted(s) : l = [session |-> s, row |-> w.row, mode |-> w.mode]
      BY <1>1, <2>3
    <3> QED
      BY <1>6, <2>1, <2>3, <3>1
  <2>4. CASE k \notin locks /\ l \in locks
    <3>1. PICK w \in Wanted(s) : k = [session |-> s, row |-> w.row, mode |-> w.mode]
      BY <1>1, <2>4
    <3>2. Compatible(l.mode, w.mode)
      BY <1>6, <2>1, <2>4, <3>1
    <3> QED
      BY <3>1, <3>2 DEF Compatible
  <2>5. CASE k \notin locks /\ l \notin locks
    <3>1. k.session = s /\ l.session = s
      BY <1>1, <2>5
    <3> QED
      BY <1>6, <3>1
  <2> QED
    BY <2>2, <2>3, <2>4, <2>5
<1>7. Locked'
  BY <1>5, <1>6 DEF Locked
<1> QED
  BY <1>2, <1>3, <1>4, <1>7

LEMMA DayJobs ==
  ASSUME Tables
  PROVE  /\ \A job \in Days[day] : job \in Jobs
         /\ \A s : TypedTx(tx[s]) /\ tx[s] # Idle => tx[s].job \in Jobs
<1>1. Days[day] \in Range(Days)
  BY DEF Tables, Range
<1> QED
  BY <1>1 DEF Jobs, TypedTx

LEMMA Begins ==
  ASSUME TransactionInv, NEW s \in Sessions, NEW job \in Days[day], Begin(s, job)
  PROVE  TransactionInv'
<1>1. job \in Jobs
  BY DayJobs DEF TransactionInv
<1>2. tx[s] = Idle /\ tx = [t \in Sessions |-> tx[t]]
  BY DEF Begin, TransactionInv, Tables
<1>3. /\ tx'[s] = [Idle EXCEPT !.job = job, !.rest = Stages(job)]
      /\ tx' = [t \in Sessions |-> tx'[t]] /\ \A u \in Sessions \ {s} : tx'[u] = tx[u]
  BY <1>2 DEF Begin
<1> DEFINE t == tx'[s]
<1>4. /\ t = [job |-> t.job, rest |-> t.rest, taken |-> t.taken, loans |-> t.loans,
              advances |-> t.advances, todo |-> t.todo, number |-> t.number]
      /\ t.job = job /\ t.rest = Stages(job) /\ t.taken = {} /\ t.todo = {} /\ t.number = 0
      /\ DOMAIN t.loans = {} /\ DOMAIN t.advances = {}
  <2>1. t = [job |-> job, rest |-> Stages(job), taken |-> {}, loans |-> <<>>, advances |-> <<>>,
             todo |-> {}, number |-> 0]
    BY ONLY <1>3 DEF Idle, t
  <2>2. DOMAIN <<>> = {}
    OBVIOUS
  <2> HIDE DEF t
  <2> QED
    BY ONLY <2>1, <2>2
<1>5. UNCHANGED <<committed, day, locks>>
  BY DEF Begin
<1> HIDE DEF t
<1>6. TypedTx(tx[s])'
  BY <1>4, <1>5 DEF TypedTx, t
<1>7. Ahead(t)
  <2> DEFINE S == Stages(job)
  <2>1. S \in Seq(Range(S))
    BY <1>1, StageCount
  <2>2. Len(S) - Len(t.rest) = 0
    BY <1>4, <2>1
  <2> HIDE DEF S
  <2>3. \A i \in DOMAIN t.rest : t.rest[i] = S[0 + i]
    <3>1. \A i \in 1..Len(S) : 0 + i = i
      OBVIOUS
    <3> QED
      BY <1>4, <2>1, <3>1 DEF S
  <2> QED
    BY <1>4, <2>1, <2>2, <2>3 DEF Ahead, S
<1>8. InOrder(s)'
  <2>1. L!Joining(t.loans) = {}
    BY <1>4 DEF L!Joining
  <2>2. Queueing(s)'
    BY <1>4, <2>1 DEF Queueing, t
  <2>3. TypedTx(tx[s])' /\ (tx[s] # Idle => Ahead(tx[s]))'
    BY <1>6, <1>7 DEF t
  <2> QED
    BY <1>4, <2>2, <2>3 DEF InOrder, t
<1>9. \A u : Apart(s, u)'
  BY <1>4 DEF Apart, t
<1>10. Locked'
  BY <1>2, <1>3, <1>5 DEF Locked, TransactionInv
<1>11. \A u, row, mode : Held(u, row, mode)' <=> Held(u, row, mode)
  BY <1>5 DEF Held
<1> QED
  BY <1>3, <1>5, <1>8, <1>9, <1>10, <1>11, SessionStep

(* Stages that were checked stand while the session keeps its locks.       *)
LEMMA StillStands ==
  ASSUME NEW s, NEW stage, Stands(s, stage), UNCHANGED committed, tx'[s].job = tx[s].job,
         \A row, mode : Held(s, row, mode) => Held(s, row, mode)',
         DOMAIN tx[s].loans \subseteq DOMAIN tx'[s].loans,
         DOMAIN tx[s].advances \subseteq DOMAIN tx'[s].advances
  PROVE  Stands(s, stage)'
<1>1. \A l \in FirstLocks(tx'[s].job, stage) : Held(s, l.row, l.mode)'
  BY DEF Stands
<1>2. Checked(tx'[s].job, stage, [loans |-> loans, advances |-> advances], tx'[s])
  BY DEF Stands, Checked
<1> QED
  BY <1>1, <1>2 DEF Stands, committed

(* The next request of a batch has its turn.                               *)
LEMMA PassesOver ==
  ASSUME TransactionInv, NEW s \in Sessions, Ready(s), tx[s].job.do \in Batches,
         tx' = [tx EXCEPT ![s].rest = Tail(@)], Take(s), UNCHANGED <<committed, day>>
  PROVE  TransactionInv'
<1> DEFINE t == tx'[s]  o == tx[s]
<1>1. Tables /\ Locked /\ InOrder(s)
  BY DEF TransactionInv, Transactions
<1>2. o.rest # <<>> /\ o.todo = {} /\ BlockedBy(s) = {}
  BY DEF Ready
<1>3. o # Idle
  BY <1>2 DEF Idle
<1>4. TypedTx(o) /\ Ahead(o)
  BY <1>1, <1>3 DEF InOrder
<1>5. o.job \in Jobs
  BY <1>1, <1>3, <1>4, DayJobs
<1>6. t = [o EXCEPT !.rest = Tail(o.rest)] /\ tx' = [u \in Sessions |-> tx'[u]]
      /\ \A u \in Sessions \ {s} : tx'[u] = tx[u]
  BY <1>1 DEF Tables
<1> HIDE DEF t
<1>7. /\ t = [job |-> t.job, rest |-> t.rest, taken |-> t.taken, loans |-> t.loans,
              advances |-> t.advances, todo |-> t.todo, number |-> t.number]
      /\ t.job = o.job /\ t.rest = Tail(o.rest) /\ t.taken = o.taken /\ t.todo = o.todo
      /\ t.number = o.number /\ t.loans = o.loans /\ t.advances = o.advances
  <2> HIDE DEF o
  <2>1. o = [job |-> o.job, rest |-> o.rest, taken |-> o.taken, loans |-> o.loans,
             advances |-> o.advances, todo |-> o.todo, number |-> o.number]
    BY <1>4 DEF TypedTx
  <2> QED
    BY <1>6, <2>1
<1>8. t # Idle
  <2>1. o.job.do # "none"
    BY DEF Batches
  <2> QED
    BY <1>7, <2>1 DEF Idle
<1>9. TypedTx(tx[s])'
  BY <1>3, <1>4, <1>7 DEF TypedTx, t
<1>10. Ahead(t)
  <2> DEFINE S == Stages(o.job)  d == Len(S) - Len(o.rest)
  <2>1. /\ d \in Nat /\ d + 1 \in DOMAIN S /\ Len(o.rest) \in Nat
        /\ Tail(o.rest) \in Seq(Range(S)) /\ Len(Tail(o.rest)) = Len(o.rest) - 1
        /\ \A i \in DOMAIN Tail(o.rest) : Tail(o.rest)[i] = S[d + 1 + i]
    BY <1>2, <1>4, <1>5, NextStage
  <2>2. S \in Seq(Range(S))
    BY <1>5, StageCount
  <2>3. Len(S) - Len(t.rest) = d + 1
    <3> DEFINE m == Len(S)  n == Len(o.rest)  k == Len(t.rest)
    <3>1. m \in Nat /\ n \in Nat /\ k = n - 1 /\ d = m - n
      BY <1>7, <2>1, <2>2
    <3> HIDE DEF m, n, k, d
    <3>2. m - k = d + 1
      BY ONLY <3>1
    <3> QED
      BY ONLY <3>2 DEF m, k
  <2>4. o.taken \subseteq Range(S) /\ \A r \in DOMAIN o.advances : \E i \in 1..d : r = o.job.on[i]
    BY <1>4 DEF Ahead
  <2> HIDE DEF S, d
  <2>5. 1..d \subseteq 1..d + 1 /\ d + 1 >= 0 /\ d + 1 # 0
    BY <2>1
  <2>6. \A r \in DOMAIN t.advances : \E i \in 1..d + 1 : r = t.job.on[i]
    BY <1>7, <2>4, <2>5
  <2>7. \A i \in DOMAIN t.rest : t.rest[i] = S[d + 1 + i]
    BY <1>7, <2>1
  <2>8. t.rest \in Seq(Range(S)) /\ t.taken \subseteq Range(S)
    BY <1>7, <2>1, <2>4
  <2>9. Len(Stages(t.job)) - Len(t.rest) = d + 1 /\ S = Stages(t.job)
    BY <1>7, <2>3 DEF S
  <2>10. t.job.do \notin {"manager", "leave"} /\ t.job.on = o.job.on
    BY <1>7 DEF Batches
  <2> DEFINE e == d + 1
  <2>11. S = Stages(t.job) /\ Len(S) - Len(t.rest) = e
    BY <2>9
  <2>12. e >= 0 /\ (\A i \in DOMAIN t.rest : t.rest[i] = S[e + i])
         /\ (e = 0 => t.taken = {} /\ DOMAIN t.loans = {} /\ DOMAIN t.advances = {})
         /\ (\A r \in DOMAIN t.advances : \E i \in 1..e : r = t.job.on[i])
    BY <2>5, <2>6, <2>7
  <2> HIDE DEF o, e
  <2> QED
    BY ONLY <2>8, <2>10, <2>11, <2>12 DEF Ahead
<1>11. /\ Locked'
       /\ \A row, mode : Held(s, row, mode) => Held(s, row, mode)'
       /\ \A u \in Sessions \ {s} : \A row, mode : Held(u, row, mode)' <=> Held(u, row, mode)
  BY <1>1, <1>2, <1>6, <1>8, Taken DEF t
<1>12. \A stage : Stands(s, stage) => Stands(s, stage)'
  BY <1>7, <1>11, StillStands DEF t
<1>13. \A row, mode : Secured(s, row, mode) => Secured(s, row, mode)'
  BY <1>7, <1>11 DEF Secured, t
<1>14. ASSUME NEW r, LoanWrite(s, r) PROVE LoanWrite(s, r)'
  <2>1. Secured(s, LoanRow(r), "no_key_update")'
    BY <1>13, <1>14 DEF LoanWrite
  <2> QED
    BY <1>7, <1>11, <1>12, <1>14, <2>1, StillWritesLoan DEF t, committed
<1>15. ASSUME NEW r, AdvanceWrite(s, r) PROVE AdvanceWrite(s, r)'
  <2>1. Secured(s, AdvanceRow(r), "no_key_update")'
    BY <1>13, <1>15 DEF AdvanceWrite
  <2> QED
    BY <1>7, <1>11, <1>12, <1>15, <2>1, StillWritesAdvance DEF t, committed
<1>16. Queueing(s)'
  BY <1>1, <1>7, <1>11 DEF InOrder, Queueing, t, committed
<1>17. InOrder(s)'
  <2>1. TypedTx(tx[s])' /\ (tx[s] # Idle => Ahead(tx[s]))'
    BY <1>9, <1>10 DEF t
  <2> QED
    BY <1>1, <1>7, <1>12, <1>14, <1>15, <1>16, <2>1 DEF InOrder, t
<1>18. \A u \in Sessions \ {s} : Apart(s, u)'
  <2>1. \A u \in Sessions \ {s} : Apart(s, u)
    BY DEF TransactionInv, Transactions
  <2> QED
    BY <1>6, <1>7, <2>1 DEF Apart, t, committed
<1> QED
  BY <1>6, <1>11, <1>17, <1>18, SessionStep

LEMMA Refuses ==
  ASSUME TransactionInv, NEW s \in Sessions, Refuse(s)
  PROVE  TransactionInv'
<1>1. CASE tx[s].job.do \in Batches
  BY <1>1, PassesOver DEF Refuse
<1>2. CASE tx[s].job.do \notin Batches
  BY <1>2, RollsBack DEF Refuse
<1> QED
  BY <1>1, <1>2

LEMMA SingleStage ==
  ASSUME NEW t, t.job \in Jobs, Ahead(t), t.rest # <<>>, t.job.do \in {"submit", "ask"}
  PROVE  DOMAIN t.loans = {} /\ DOMAIN t.advances = {}
<1> DEFINE S == Stages(t.job)  d == Len(S) - Len(t.rest)
<1>1. d \in Nat /\ d + 1 \in DOMAIN S
  BY NextStage
<1>2. S \in Seq(Range(S)) /\ Len(S) = 1
  BY StageCount DEF LoanCalls
<1>3. d = 0 => DOMAIN t.loans = {} /\ DOMAIN t.advances = {}
  BY DEF Ahead
<1> HIDE DEF S, d
<1>4. d + 1 \in 1..1
  BY <1>1, <1>2
<1> QED
  BY <1>1, <1>3, <1>4

(* A stage that goes ahead, writing lw and aw.                             *)
LEMMA GoesOn ==
  ASSUME TransactionInv, NEW s \in Sessions, Ready(s), NEW lw, NEW aw, NEW todo,
         Then(s, lw, aw, todo), NEW stage, stage = Head(tx[s].rest),
         Ahead(tx'[s]),
         DOMAIN lw \cap DOMAIN tx[s].loans = {}, DOMAIN aw \cap DOMAIN tx[s].advances = {},
         \A l \in todo : /\ l = Due(l.turn, l.row, l.mode) /\ l.turn \in Nat
                         /\ l.row = SettingsRow("loan") => l.mode = "no_key_update",
         \A r \in DOMAIN lw :
           /\ r \in L!Loans
           /\ LoanStageEffect(tx[s].job, stage, lw[r], r, DOMAIN Over(lw, tx[s].loans))
           /\ \E l \in todo : l.row = LoanRow(r) /\ l.mode = "no_key_update"
           /\ loans[r].status = "none" => /\ stage = Stage("loan", "submit", 0)
                                         /\ \A u \in Sessions \ {s} : r \notin DOMAIN tx[u].loans,
         \A r \in DOMAIN aw :
           /\ r \in A!Advances
           /\ AdvanceStageEffect(tx[s].job, stage, aw[r], r, DOMAIN Over(aw, tx[s].advances))
           /\ \E l \in todo : l.row = AdvanceRow(r) /\ l.mode = "no_key_update"
           /\ advances[r].status = "none" => /\ stage = Stage("advance", "ask", 0)
                                            /\ \A u \in Sessions \ {s} : r \notin DOMAIN tx[u].advances,
         \A r \in L!Joining(lw) : r = tx[s].job.on /\ tx[s].job.do # "settings",
         L!Joining(lw) # {} => \E l \in todo : l.row = SettingsRow("loan"),
         Checked(tx[s].job, stage, [loans |-> loans, advances |-> advances],
                 [loans |-> Over(lw, tx[s].loans), advances |-> Over(aw, tx[s].advances)])
  PROVE  TransactionInv'
<1> DEFINE t == tx'[s]  o == tx[s]
<1>1. Tables /\ Locked /\ InOrder(s)
  BY DEF TransactionInv, Transactions
<1>2. o.rest # <<>> /\ o.todo = {} /\ BlockedBy(s) = {}
  BY DEF Ready
<1>3. o # Idle
  BY <1>2 DEF Idle
<1>4. TypedTx(o) /\ Ahead(o)
  BY <1>1, <1>3 DEF InOrder
<1>0. o.job.do \in {"submit", "ask"} => DOMAIN o.loans = {} /\ DOMAIN o.advances = {}
  BY <1>1, <1>2, <1>3, <1>4, DayJobs, SingleStage
<1>5. /\ t = [o EXCEPT !.rest = Tail(o.rest), !.taken = o.taken \cup {stage}, !.loans = Over(lw, o.loans),
                       !.advances = Over(aw, o.advances), !.todo = todo]
      /\ tx' = [u \in Sessions |-> tx'[u]] /\ \A u \in Sessions \ {s} : tx'[u] = tx[u]
  BY <1>1 DEF Tables, Then
<1>6. UNCHANGED <<committed, day>> /\ Take(s)
  BY DEF Then
<1> HIDE DEF t
<1>7. /\ t = [job |-> t.job, rest |-> t.rest, taken |-> t.taken, loans |-> t.loans,
              advances |-> t.advances, todo |-> t.todo, number |-> t.number]
      /\ t.job = o.job /\ t.taken = o.taken \cup {stage} /\ t.todo = todo /\ t.number = o.number
      /\ t.loans = Over(lw, o.loans) /\ t.advances = Over(aw, o.advances)
  <2> HIDE DEF o
  <2>1. o = [job |-> o.job, rest |-> o.rest, taken |-> o.taken, loans |-> o.loans,
             advances |-> o.advances, todo |-> o.todo, number |-> o.number]
    BY <1>4 DEF TypedTx
  <2> QED
    BY <1>5, <2>1
<1>8. t # Idle
  <2>1. stage \in t.taken
    BY <1>7
  <2>2. Idle.taken = {}
    BY DEF Idle
  <2> QED
    BY ONLY <2>1, <2>2
<1>9. TypedTx(tx[s])'
  <2>1. o.job \in Days[day] /\ o.number \in Nat
    BY <1>3, <1>4 DEF TypedTx
  <2> HIDE DEF o
  <2> QED
    BY <1>6, <1>7, <2>1 DEF TypedTx, t
<1>10. /\ Locked'
       /\ \A row, mode : Held(s, row, mode) => Held(s, row, mode)'
       /\ \A l \in Wanted(s) : Held(s, l.row, l.mode)'
       /\ \A u \in Sessions \ {s} : \A row, mode : Held(u, row, mode)' <=> Held(u, row, mode)
  BY <1>1, <1>2, <1>5, <1>6, <1>8, Taken DEF t
<1>11. \A l \in FirstLocks(o.job, stage) : Held(s, l.row, l.mode)'
  BY <1>2, <1>10 DEF Wanted
<1>12. Stands(s, stage)'
  <2>1. Checked(t.job, stage, [loans |-> loans, advances |-> advances], t)
    BY <1>7 DEF Checked
  <2> QED
    BY <1>6, <1>7, <1>11, <2>1 DEF Stands, t, committed
<1>13. DOMAIN t.loans = DOMAIN lw \cup DOMAIN o.loans /\ DOMAIN t.advances = DOMAIN aw \cup DOMAIN o.advances
  BY ONLY <1>7 DEF Over
<1>14. \A k : Stands(s, k) => Stands(s, k)'
  BY <1>6, <1>7, <1>10, <1>13, StillStands DEF t
<1>15. \A row, mode : Held(s, row, mode)' => Secured(s, row, mode)'
  BY DEF Secured
<1>16. ASSUME NEW r \in DOMAIN t.loans PROVE LoanWrite(s, r)'
  <2>1. CASE r \in DOMAIN lw
    <3>1. t.loans[r] = lw[r]
      BY ONLY <1>7, <2>1 DEF Over
    <3>2. Secured(s, LoanRow(r), "no_key_update")'
      BY <1>7, <2>1 DEF Secured, t
    <3>3. LockOf(LoanRow(r), "for_update") \in FirstLocks(o.job, stage) => Held(s, LoanRow(r), "for_update")'
      BY <1>11 DEF LockOf
    <3>4. LoanEffect(t.job, t.loans[r], loans'[r], Held(s, LoanRow(r), "for_update")', DOMAIN t.loans = {r})
      <4>1. LoanStageEffect(o.job, stage, lw[r], r, DOMAIN Over(lw, o.loans))
        BY <2>1
      <4>2. loans' = loans /\ t.job = o.job /\ t.loans = Over(lw, o.loans)
        BY <1>6, <1>7 DEF committed
      <4> QED
        BY ONLY <3>1, <3>3, <4>1, <4>2 DEF LoanStageEffect, LoanEffect
    <3>5. loans[r].status = "none" => Stands(s, Stage("loan", "submit", 0))'
      BY <1>12, <2>1
    <3> QED
      BY <1>6, <2>1, <3>2, <3>4, <3>5 DEF LoanWrite, t, committed
  <2>2. CASE r \notin DOMAIN lw
    <3>1. r \in DOMAIN o.loans /\ t.loans[r] = o.loans[r]
      BY ONLY <1>7, <1>16, <2>2 DEF Over
    <3>2. LoanWrite(s, r)
      BY <1>1, <3>1 DEF InOrder
    <3>3. Held(s, LoanRow(r), "no_key_update")
      BY <1>2, <3>2 DEF LoanWrite, Secured
    <3>4. Secured(s, LoanRow(r), "no_key_update")'
      BY <1>10, <1>15, <3>3
    <3>5. loans[r].status # "none"
      BY <1>0, <3>1, <3>2 DEF LoanWrite, LoanEffect
    <3>6. LoanEffect(t.job, t.loans[r], loans'[r], Held(s, LoanRow(r), "for_update")', DOMAIN t.loans = {r})
      BY <1>6, <1>7, <1>10, <3>1, <3>2, <3>5 DEF LoanEffect, LoanWrite, committed
    <3> QED
      BY <1>6, <3>2, <3>4, <3>5, <3>6 DEF LoanWrite, t, committed
  <2> QED
    BY <2>1, <2>2
<1>17. ASSUME NEW r \in DOMAIN t.advances PROVE AdvanceWrite(s, r)'
  <2>1. CASE r \in DOMAIN aw
    <3>1. t.advances[r] = aw[r]
      BY ONLY <1>7, <2>1 DEF Over
    <3>2. Secured(s, AdvanceRow(r), "no_key_update")'
      BY <1>7, <2>1 DEF Secured, t
    <3>3. LockOf(AdvanceRow(r), "for_update") \in FirstLocks(o.job, stage) => Held(s, AdvanceRow(r), "for_update")'
      BY <1>11 DEF LockOf
    <3>4. AdvanceEffect(t.job, t.advances[r], advances'[r], Held(s, AdvanceRow(r), "for_update")', DOMAIN t.advances = {r})
      <4>1. AdvanceStageEffect(o.job, stage, aw[r], r, DOMAIN Over(aw, o.advances))
        BY <2>1
      <4>2. advances' = advances /\ t.job = o.job /\ t.advances = Over(aw, o.advances)
        BY <1>6, <1>7 DEF committed
      <4> QED
        BY ONLY <3>1, <3>3, <4>1, <4>2 DEF AdvanceStageEffect, AdvanceEffect
    <3>5. advances[r].status = "none" => Stands(s, Stage("advance", "ask", 0))'
      BY <1>12, <2>1
    <3> QED
      BY <1>6, <2>1, <3>2, <3>4, <3>5 DEF AdvanceWrite, t, committed
  <2>2. CASE r \notin DOMAIN aw
    <3>1. r \in DOMAIN o.advances /\ t.advances[r] = o.advances[r]
      BY ONLY <1>7, <1>17, <2>2 DEF Over
    <3>2. AdvanceWrite(s, r)
      BY <1>1, <3>1 DEF InOrder
    <3>3. Held(s, AdvanceRow(r), "no_key_update")
      BY <1>2, <3>2 DEF AdvanceWrite, Secured
    <3>4. Secured(s, AdvanceRow(r), "no_key_update")'
      BY <1>10, <1>15, <3>3
    <3>5. advances[r].status # "none"
      BY <1>0, <3>1, <3>2 DEF AdvanceWrite, AdvanceEffect
    <3>6. AdvanceEffect(t.job, t.advances[r], advances'[r], Held(s, AdvanceRow(r), "for_update")', DOMAIN t.advances = {r})
      BY <1>6, <1>7, <1>10, <3>1, <3>2, <3>5 DEF AdvanceEffect, AdvanceWrite, committed
    <3> QED
      BY <1>6, <3>2, <3>4, <3>5, <3>6 DEF AdvanceWrite, t, committed
  <2> QED
    BY <2>1, <2>2
<1>18. \A r \in L!Joining(t.loans) : r \in L!Joining(lw) \/ r \in L!Joining(o.loans)
  BY ONLY <1>7 DEF L!Joining, Over
<1>19. Queueing(s)'
  <2>1. \A r \in L!Joining(t.loans) : r = t.job.on /\ t.job.do # "settings"
    BY <1>1, <1>7, <1>18 DEF InOrder, Queueing
  <2>2. L!Joining(t.loans) # {} =>
          \/ Held(s, SettingsRow("loan"), "no_key_update")' /\ t.number = settings.lastSeq + 1
          \/ \E l \in t.todo : l.row = SettingsRow("loan")
    BY <1>1, <1>2, <1>7, <1>10, <1>18 DEF InOrder, Queueing
  <2>3. \A l \in t.todo : l.row = SettingsRow("loan") => l.mode = "no_key_update"
    BY <1>7
  <2> QED
    BY <1>6, <2>1, <2>2, <2>3 DEF Queueing, t, committed
<1>20. InOrder(s)'
  <2>1. \A k \in t.taken : Stands(s, k)'
    BY <1>1, <1>7, <1>12, <1>14 DEF InOrder
  <2>2. (tx[s] # Idle => Ahead(tx[s]))'
    OBVIOUS
  <2> QED
    BY <1>9, <1>16, <1>17, <1>19, <2>1, <2>2 DEF InOrder, t
<1>21. ASSUME NEW u \in Sessions \ {s} PROVE Apart(s, u)'
  <2>1. Apart(s, u) /\ tx'[u] = tx[u]
    BY <1>5 DEF TransactionInv, Transactions
  <2>2. \A r \in DOMAIN t.loans \cap DOMAIN tx[u].loans : loans[r].status # "none"
    BY <1>13, <2>1 DEF Apart
  <2>3. \A r \in DOMAIN t.advances \cap DOMAIN tx[u].advances : advances[r].status # "none"
    BY <1>13, <2>1 DEF Apart
  <2> QED
    BY <1>6, <2>1, <2>2, <2>3 DEF Apart, t, committed
<1> QED
  <2>1. TransactionInv /\ s \in Sessions
    OBVIOUS
  <2> QED
    BY ONLY <1>5, <1>6, <1>10, <1>20, <1>21, <2>1, SessionStep DEF t

(* A stage leaves the requests alone that the next stages look at.         *)
LEMMA StillAhead ==
  ASSUME NEW o, o.job \in Jobs, Ahead(o), o.rest # <<>>,
         NEW t, t.job = o.job, t.rest = Tail(o.rest), t.taken \subseteq o.taken \cup {Head(o.rest)},
         o.job.do \in Batches => \A r \in DOMAIN t.advances : r \in DOMAIN o.advances \/ r = Head(o.rest).on,
         Head(o.rest).of = "loan" \/ Head(o.rest).do = "choose" => DOMAIN t.advances = DOMAIN o.advances,
         Head(o.rest).do = "leave" =>
           \A r \in DOMAIN t.advances : "status" \in DOMAIN t.advances[r] /\ t.advances[r].status = "cancelled"
  PROVE  Ahead(t)
<1> DEFINE S == Stages(o.job)  m == Len(S)  n == Len(o.rest)  d == m - n  e == d + 1  k == Len(t.rest)
           stage == Head(o.rest)
<1>1. /\ d \in Nat /\ e \in DOMAIN S /\ stage = S[e] /\ stage \in Range(S) /\ n \in Nat
      /\ t.rest \in Seq(Range(S)) /\ k = n - 1 /\ \A i \in DOMAIN t.rest : t.rest[i] = S[e + i]
  BY NextStage
<1>2. /\ S \in Seq(Range(S)) /\ m \in Nat
      /\ o.job.do \in Batches => \A i \in DOMAIN S : S[i].on = o.job.on[i]
      /\ o.job.do = "leave" => /\ m = 3 /\ S[1] = Stage("loan", "leave", 0)
                               /\ S[2] = Stage("advance", "leave", 0)
      /\ o.job.do = "manager" => m = 2 /\ S[1] = Stage("advance", "choose", 0)
  BY StageCount
<1>3. /\ o.taken \subseteq Range(S)
      /\ d = 0 => DOMAIN o.advances = {}
      /\ o.job.do \in Batches => \A r \in DOMAIN o.advances : \E i \in 1..d : r = o.job.on[i]
  BY DEF Ahead
<1>4. k \in Nat /\ e \in Nat /\ e # 0 /\ e >= 0
  <2>1. t.rest \in Seq(Range(S))
    BY <1>1
  <2> HIDE DEF S, d
  <2> QED
    BY <1>1, <2>1
<1> HIDE DEF S, m, n, k
<1>5. m - k = e /\ e = m - k
  BY <1>1, <1>2, <1>4
<1>6. t.taken \subseteq Range(S)
  BY <1>1, <1>3 DEF stage
<1>7. o.job.do \in Batches => \A r \in DOMAIN t.advances : \E i \in 1..e : r = t.job.on[i]
  <2> SUFFICES ASSUME o.job.do \in Batches, NEW r \in DOMAIN t.advances
               PROVE  \E i \in 1..e : r = o.job.on[i]
    OBVIOUS
  <2>1. CASE r \in DOMAIN o.advances
    <3>1. PICK i \in 1..d : r = o.job.on[i]
      BY <1>3, <2>1
    <3>2. i \in 1..e
      BY <1>1
    <3> QED
      BY <3>1, <3>2
  <2>2. CASE r = stage.on
    <3>1. r = o.job.on[e]
      BY <1>1, <1>2, <2>2
    <3>2. e \in 1..e
      BY <1>4
    <3> QED
      BY <3>1, <3>2
  <2> QED
    BY <2>1, <2>2 DEF stage
<1>8. o.job.do = "manager" /\ t.rest # <<>> => DOMAIN t.advances = {}
  <2> SUFFICES ASSUME o.job.do = "manager", t.rest # <<>> PROVE DOMAIN t.advances = {}
    OBVIOUS
  <2>1. k # 0
    <3>1. t.rest \in Seq(Range(S)) /\ t.rest # <<>>
      BY <1>1
    <3> DEFINE R == Range(S)  q == t.rest
    <3>2. q \in Seq(R) /\ q # <<>>
      BY <3>1
    <3> HIDE DEF R, q
    <3>3. Len(q) # 0
      BY <3>2
    <3> QED
      BY <3>3 DEF k, q
  <2>2. d = 0
    BY <1>1, <1>2, <1>4, <1>5, <2>1
  <2>3. stage.do = "choose"
    BY <1>1, <1>2, <2>2 DEF Stage
  <2> QED
    BY <1>3, <2>2, <2>3 DEF stage
<1>9. o.job.do = "leave" /\ k > 1 => DOMAIN t.advances = {}
  <2> SUFFICES ASSUME o.job.do = "leave", k > 1 PROVE DOMAIN t.advances = {}
    OBVIOUS
  <2>1. d = 0
    BY <1>1, <1>2, <1>4, <1>5
  <2>2. stage.of = "loan"
    BY <1>1, <1>2, <2>1 DEF Stage
  <2> QED
    BY <1>3, <2>1, <2>2 DEF stage
<1>10. o.job.do = "leave" /\ k = 1 =>
         \A r \in DOMAIN t.advances : "status" \in DOMAIN t.advances[r] /\ t.advances[r].status = "cancelled"
  <2> SUFFICES ASSUME o.job.do = "leave", k = 1 PROVE stage.do = "leave"
    BY DEF stage
  <2>1. e = 2
    BY <1>2, <1>5
  <2> QED
    BY <1>1, <1>2, <2>1 DEF Stage
<1> HIDE DEF e, stage
<1>11. Len(Stages(t.job)) - Len(t.rest) = e /\ Stages(t.job) = S
  BY <1>5 DEF S, m, k
<1>12. t.job.do = o.job.do /\ t.job.on = o.job.on /\ Len(t.rest) = k
  BY DEF k
<1> QED
  BY ONLY <1>1, <1>4, <1>6, <1>7, <1>8, <1>9, <1>10, <1>11, <1>12 DEF Ahead

(* A stage about loans that goes ahead.                                    *)
LEMMA LoanStage ==
  ASSUME TransactionInv, NEW s \in Sessions, ReadLoan(s)
  PROVE  TransactionInv'
<1> DEFINE t == tx'[s]  o == tx[s]  stage == Head(o.rest)  db == Db(s, o)
           w == L!Writes(o.job, stage, db)  own == [loans |-> Over(w, o.loans), advances |-> Over(<<>>, o.advances)]
<1>1. Tables /\ Locked /\ InOrder(s)
  BY DEF TransactionInv, Transactions
<1>2. Ready(s) /\ stage.of = "loan" /\ GoesAhead(s, db) /\ Then(s, w, <<>>, L!Locks(w))
  BY DEF ReadLoan
<1>3. o.rest # <<>> /\ o # Idle
  BY <1>2 DEF Ready, Idle
<1>4. TypedTx(o) /\ Ahead(o)
  BY <1>1, <1>3 DEF InOrder
<1>5. o.job \in Jobs
  BY <1>1, <1>3, <1>4, DayJobs
<1>6. /\ DOMAIN o.loans = {} /\ DOMAIN o.advances = {} /\ o.taken = {}
      /\ db.loans = loans /\ db.advances = advances
  BY <1>1, <1>2, <1>3, <1>4, <1>5, LoansFirst
<1>7. /\ DOMAIN w \subseteq L!Loans
      /\ \A r \in DOMAIN w :
           /\ LoanStageEffect(o.job, stage, w[r], r, DOMAIN w)
           /\ loans[r].status = "none" => /\ stage = Stage("loan", "submit", 0)
                                         /\ \A u \in Sessions \ {s} : r \notin DOMAIN tx[u].loans
      /\ \A r \in L!Joining(w) : r = o.job.on /\ o.job.do # "settings"
      /\ stage.do = "submit" => \E r \in DOMAIN w : loans[r].status = "none"
  <2>1. db = Db(s, tx[s]) /\ w = L!Writes(tx[s].job, Head(tx[s].rest), db)
    OBVIOUS
  <2>2. GoesAhead(s, db) /\ Head(tx[s].rest).of = "loan"
    BY <1>2
  <2>0. s \in Sessions /\ tx[s].job \in Jobs /\ Ahead(tx[s]) /\ tx[s].rest # <<>> /\ Tables
    BY <1>1, <1>3, <1>4, <1>5
  <2> HIDE DEF db, w, own, t
  <2>3. LoanWrites(s, w)
    BY ONLY <2>0, <2>1, <2>2, LoanEffects
  <2> QED
    BY ONLY <2>3 DEF LoanWrites, o, stage
<1>8. /\ \A l \in L!Locks(w) : /\ l = Due(l.turn, l.row, l.mode) /\ l.turn \in Nat
                               /\ l.row = SettingsRow("loan") => l.mode = "no_key_update"
      /\ \A r \in DOMAIN w : \E l \in L!Locks(w) : l.row = LoanRow(r) /\ l.mode = "no_key_update"
      /\ L!Joining(w) # {} => \E l \in L!Locks(w) : l.row = SettingsRow("loan")
  BY <1>7, LoanLocks
<1>9. stage \in Range(Stages(o.job))
  BY <1>3, <1>4, <1>5, NextStage
<1>10. \/ o.job.do \in LoanCalls /\ stage = Stage("loan", o.job.do, 0)
       \/ o.job.do = "leave" /\ stage = Stage("loan", "leave", 0)
  BY <1>2, <1>5, <1>9, StageKinds DEF Stage
<1>11. L!Allowed(o.job, stage, db)
  BY <1>2 DEF GoesAhead, Allowed
<1>12. /\ t.job = o.job /\ t.rest = Tail(o.rest) /\ t.taken = o.taken \cup {stage}
       /\ t.advances = Over(<<>>, o.advances)
  <2>1. Then(s, w, <<>>, L!Locks(w))
    BY <1>2
  <2>2. t = [o EXCEPT !.rest = Tail(o.rest), !.taken = o.taken \cup {stage}, !.loans = Over(w, o.loans),
                      !.advances = Over(<<>>, o.advances), !.todo = L!Locks(w)]
    BY <1>1, <2>1 DEF Then, Tables
  <2>3. o = [job |-> o.job, rest |-> o.rest, taken |-> o.taken, loans |-> o.loans,
             advances |-> o.advances, todo |-> o.todo, number |-> o.number]
    BY <1>4 DEF TypedTx
  <2> HIDE DEF t, o, stage, db, w
  <2> QED
    BY ONLY <2>2, <2>3
<1> HIDE DEF t, stage, db, w
<1>13. DOMAIN Over(w, o.loans) = DOMAIN w /\ DOMAIN Over(<<>>, o.advances) = {} /\ DOMAIN <<>> = {}
  <2>1. DOMAIN <<>> = {}
    OBVIOUS
  <2>2. \A v : DOMAIN Over(v, o.loans) = DOMAIN v \cup DOMAIN o.loans
    BY OverAt
  <2>3. \A v : DOMAIN Over(v, o.advances) = DOMAIN v \cup DOMAIN o.advances
    BY OverAt
  <2> HIDE DEF o
  <2> QED
    BY ONLY <1>6, <2>1, <2>2, <2>3
<1>14. Ahead(t)
  <2>1. \A r \in DOMAIN t.advances : FALSE
    BY <1>12, <1>13
  <2>2. DOMAIN t.advances = DOMAIN o.advances
    BY <1>6, <1>12, <1>13
  <2> HIDE DEF o
  <2> QED
    BY <1>3, <1>4, <1>5, <1>12, <2>1, <2>2, StillAhead DEF stage
<1>15. Checked(o.job, stage, [loans |-> loans, advances |-> advances], own)
  <2> DEFINE new == [loans |-> loans, advances |-> advances]
  <2>1. stage.do # "ask"
    BY <1>10 DEF Stage, LoanCalls
  <2>2. stage.do \notin {"submit", "ask"} => Allowed(o.job, stage, new)
    BY <1>2, <1>6, <1>11 DEF Allowed, L!Allowed, L!IsOpen
  <2>3. stage.do = "submit" => ~L!HasOpen(o.job.by, new)
    BY <1>6, <1>11 DEF L!Allowed, L!HasOpen
  <2>4. stage.do = "submit" => \E r \in DOMAIN own.loans : new.loans[r].status = "none"
    BY <1>7, <1>13
  <2> HIDE DEF own, new
  <2> QED
    BY <2>1, <2>2, <2>3, <2>4 DEF Checked, new
<1> HIDE DEF o
<1>16. \A r \in DOMAIN w :
         /\ r \in L!Loans
         /\ LoanStageEffect(o.job, stage, w[r], r, DOMAIN Over(w, o.loans))
         /\ \E l \in L!Locks(w) : l.row = LoanRow(r) /\ l.mode = "no_key_update"
         /\ loans[r].status = "none" => /\ stage = Stage("loan", "submit", 0)
                                       /\ \A u \in Sessions \ {s} : r \notin DOMAIN tx[u].loans
  BY <1>7, <1>8, <1>13
<1> DEFINE nothing == <<>>
<1>17. /\ DOMAIN nothing = {} /\ Then(s, w, nothing, L!Locks(w))
       /\ Checked(o.job, stage, [loans |-> loans, advances |-> advances],
                  [loans |-> Over(w, o.loans), advances |-> Over(nothing, o.advances)])
  BY <1>2, <1>13, <1>15
<1>18. DOMAIN w \cap DOMAIN o.loans = {} /\ DOMAIN nothing \cap DOMAIN o.advances = {}
  BY <1>6, <1>13
<1> HIDE DEF nothing
<1>19. \A r \in DOMAIN nothing : FALSE
  BY <1>17
<1> QED
  <2>1. Ready(s) /\ stage = Head(o.rest) /\ TransactionInv /\ s \in Sessions
    BY <1>2 DEF stage
  <2>2. /\ \A l \in L!Locks(w) : /\ l = Due(l.turn, l.row, l.mode) /\ l.turn \in Nat
                                 /\ l.row = SettingsRow("loan") => l.mode = "no_key_update"
        /\ \A r \in L!Joining(w) : r = o.job.on /\ o.job.do # "settings"
        /\ L!Joining(w) # {} => \E l \in L!Locks(w) : l.row = SettingsRow("loan")
    BY <1>7, <1>8
  <2> QED
    BY ONLY SMTT(30), <1>14, <1>16, <1>17, <1>18, <1>19, <2>1, <2>2, GoesOn DEF t, o

(* A stage about advances that goes ahead.                                 *)
LEMMA AdvanceStage ==
  ASSUME TransactionInv, NEW s \in Sessions, ReadAdvance(s)
  PROVE  TransactionInv'
<1> DEFINE t == tx'[s]  o == tx[s]  stage == Head(o.rest)  db == Db(s, o)
           w == A!Writes(o.job, stage, db)  new == [loans |-> loans, advances |-> advances]
<1>1. Tables /\ Locked /\ InOrder(s)
  BY DEF TransactionInv, Transactions
<1>2. Ready(s) /\ stage.of = "advance" /\ GoesAhead(s, db) /\ Then(s, <<>>, w, A!Locks(w))
  BY DEF ReadAdvance
<1>3. o.rest # <<>> /\ o # Idle
  BY <1>2 DEF Ready, Idle
<1>4. TypedTx(o) /\ Ahead(o)
  BY <1>1, <1>3 DEF InOrder
<1>5. o.job \in Jobs
  BY <1>1, <1>3, <1>4, DayJobs
<1>6. /\ \A r \in A!Advances \ DOMAIN o.advances : db.advances[r] = advances[r]
      /\ \A r \in A!Advances \cap DOMAIN o.advances :
           \/ stage.do \in Batches /\ r # stage.on
           \/ stage.do \in {"choose", "replace"} /\ db.advances[r].status = "cancelled"
  BY <1>1, <1>2, <1>3, <1>4, <1>5, OwnAdvances
<1>7. /\ DOMAIN w \subseteq A!Advances \ DOMAIN o.advances
      /\ \A r \in DOMAIN w : AdvanceStageEffect(o.job, stage, w[r], r, DOMAIN w)
      /\ \A r \in DOMAIN w : advances[r].status = "none" =>
           /\ stage = Stage("advance", "ask", 0)
           /\ \A u \in Sessions \ {s} : r \notin DOMAIN tx[u].advances
      /\ stage.do \in Batches => DOMAIN w \subseteq {stage.on}
      /\ stage.do = "choose" => DOMAIN w = {}
      /\ stage.do = "leave" => \A r \in DOMAIN w : "status" \in DOMAIN w[r] /\ w[r].status = "cancelled"
      /\ stage.do = "ask" => \E r \in DOMAIN w : advances[r].status = "none"
  <2>1. db = Db(s, tx[s]) /\ w = A!Writes(tx[s].job, Head(tx[s].rest), db)
    OBVIOUS
  <2>2. GoesAhead(s, db) /\ Head(tx[s].rest).of = "advance"
    BY <1>2
  <2>3. s \in Sessions /\ tx[s].job \in Jobs /\ Ahead(tx[s]) /\ tx[s].rest # <<>> /\ Tables
    BY <1>1, <1>3, <1>4, <1>5
  <2> HIDE DEF db, w, t, new
  <2>4. AdvanceWrites(s, w)
    BY ONLY <2>1, <2>2, <2>3, AdvanceEffects
  <2> QED
    BY ONLY <2>4 DEF AdvanceWrites, o, stage
<1>8. /\ \A l \in A!Locks(w) : /\ l = Due(l.turn, l.row, l.mode) /\ l.turn \in Nat
                               /\ l.row # SettingsRow("loan")
      /\ \A r \in DOMAIN w : \E l \in A!Locks(w) : l.row = AdvanceRow(r) /\ l.mode = "no_key_update"
  <2>1. DOMAIN w \subseteq A!Advances
    BY <1>7
  <2> HIDE DEF w
  <2> QED
    BY <2>1, AdvanceLocks
<1>9. stage \in Range(Stages(o.job))
  BY <1>3, <1>4, <1>5, NextStage
<1>10. \/ o.job.do \in Batches \cup {"withdraw"} /\ stage.do = o.job.do /\ stage.on \in A!Advances
       \/ /\ o.job.do \in {"manager", "leave", "move"}
          /\ stage.do \in {"choose", "manager", "leave", "replace", "move"}
       \/ o.job.do = "ask" /\ stage = Stage("advance", "ask", 0)
  BY <1>2, <1>5, <1>9, StageKinds DEF Stage
<1>11. A!Allowed(o.job, stage, db)
  BY <1>2 DEF GoesAhead, Allowed
<1>12. /\ t.job = o.job /\ t.rest = Tail(o.rest) /\ t.taken = o.taken \cup {stage}
       /\ t.advances = Over(w, o.advances)
  <2>1. Then(s, <<>>, w, A!Locks(w))
    BY <1>2
  <2>2. t = [o EXCEPT !.rest = Tail(o.rest), !.taken = o.taken \cup {stage}, !.loans = Over(<<>>, o.loans),
                      !.advances = Over(w, o.advances), !.todo = A!Locks(w)]
    BY <1>1, <2>1 DEF Then, Tables
  <2>3. o = [job |-> o.job, rest |-> o.rest, taken |-> o.taken, loans |-> o.loans,
             advances |-> o.advances, todo |-> o.todo, number |-> o.number]
    BY <1>4 DEF TypedTx
  <2> HIDE DEF t, o, stage, db, w
  <2> QED
    BY ONLY <2>2, <2>3
<1>13. \A r \in DOMAIN o.advances : r \in A!Advances
  BY <1>1 DEF InOrder, AdvanceWrite
<1>14. db.advances = After(advances, o.advances)
  BY DEF Db
<1> HIDE DEF t, stage, db, w
<1> DEFINE nothing == <<>>
<1>15. /\ DOMAIN Over(w, o.advances) = DOMAIN w \cup DOMAIN o.advances
       /\ \A r \in DOMAIN w : Over(w, o.advances)[r] = w[r]
       /\ DOMAIN nothing = {}
  <2>1. DOMAIN <<>> = {}
    OBVIOUS
  <2> HIDE DEF o
  <2> QED
    BY ONLY <2>1 DEF Over
<1>16. stage.do \in {"ask", "leave"} => DOMAIN o.advances = {}
  BY <1>6, <1>13 DEF Batches
<1>17. Ahead(t)
  <2>1. o.job.do \in Batches => \A r \in DOMAIN t.advances : r \in DOMAIN o.advances \/ r = stage.on
    BY <1>7, <1>10, <1>12, <1>15 DEF Batches, Stage
  <2>2. stage.do = "choose" => DOMAIN t.advances = DOMAIN o.advances
    BY <1>7, <1>12, <1>15
  <2>3. stage.do = "leave" =>
          \A r \in DOMAIN t.advances : "status" \in DOMAIN t.advances[r] /\ t.advances[r].status = "cancelled"
    BY <1>7, <1>12, <1>15, <1>16
  <2>4. stage.of # "loan" /\ o.job \in Jobs /\ Ahead(o) /\ o.rest # <<>>
    BY <1>2, <1>3, <1>4, <1>5
  <2>5. t.job = o.job /\ t.rest = Tail(o.rest) /\ t.taken = o.taken \cup {stage}
    BY <1>12
  <2> HIDE DEF o
  <2> QED
    BY ONLY <2>1, <2>2, <2>3, <2>4, <2>5, StillAhead DEF stage
<1>18. Checked(o.job, stage, new, [loans |-> Over(nothing, o.loans), advances |-> Over(w, o.advances)])
  <2> DEFINE own == [loans |-> Over(nothing, o.loans), advances |-> Over(w, o.advances)]
  <2>1. stage.do # "submit"
    BY <1>10 DEF Stage, Batches
  <2>2. stage.do # "ask" => Allowed(o.job, stage, new)
    <3>1. stage.do \in Batches \cup {"withdraw"} => db.advances[stage.on] = advances[stage.on]
      BY <1>6, <1>10 DEF Batches, Stage
    <3>2. stage.do \in Batches \cup {"withdraw", "choose", "manager", "leave", "replace", "move", "ask"}
      BY <1>10 DEF Stage
    <3>3. stage.do # "ask" => A!Allowed(o.job, stage, new)
      BY <1>11, <3>1, <3>2 DEF A!Allowed, Batches
    <3> QED
      BY <1>2, <3>3 DEF Allowed
  <2>3. stage.do = "ask" => db.advances = advances
    BY <1>1, <1>14, <1>16 DEF After, Tables
  <2>4. stage.do = "ask" => ~A!HasOpen(o.job.by, new) /\ Cardinality(A!Counted(o.job.by, o.job.month, new)) < MaxPerMonth
    <3> SUFFICES ASSUME stage.do = "ask"
                 PROVE  ~A!HasOpen(o.job.by, new) /\ Cardinality(A!Counted(o.job.by, o.job.month, new)) < MaxPerMonth
      OBVIOUS
    <3>1. new.advances = db.advances
      BY <2>3
    <3> HIDE DEF new, own, o
    <3>2. ~A!HasOpen(o.job.by, db) /\ Cardinality(A!Counted(o.job.by, o.job.month, db)) < MaxPerMonth
      BY ONLY <1>11, stage.do = "ask", SameCardinality DEF A!Allowed
    <3>3. A!Counted(o.job.by, o.job.month, new) = A!Counted(o.job.by, o.job.month, db)
      BY <3>1 DEF A!Counted
    <3>4. ~A!HasOpen(o.job.by, new)
      BY <3>1, <3>2 DEF A!HasOpen
    <3> QED
      BY <3>2, <3>3, <3>4
  <2>5. stage.do = "ask" => \E r \in DOMAIN own.advances : new.advances[r].status = "none"
    BY <1>7, <1>15
  <2> HIDE DEF own, new
  <2> QED
    BY <2>1, <2>2, <2>4, <2>5 DEF Checked, own
<1> HIDE DEF o
<1>19. \A r \in DOMAIN w :
         /\ r \in A!Advances
         /\ AdvanceStageEffect(o.job, stage, w[r], r, DOMAIN Over(w, o.advances))
         /\ \E l \in A!Locks(w) : l.row = AdvanceRow(r) /\ l.mode = "no_key_update"
         /\ advances[r].status = "none" => /\ stage = Stage("advance", "ask", 0)
                                          /\ \A u \in Sessions \ {s} : r \notin DOMAIN tx[u].advances
  <2>1. \A r \in DOMAIN w : AdvanceStageEffect(o.job, stage, w[r], r, DOMAIN Over(w, o.advances))
    <3>1. CASE stage.do = "ask"
      <4>1. DOMAIN Over(w, o.advances) = DOMAIN w
        BY <1>15, <1>16, <3>1
      <4> QED
        BY <1>7, <4>1
    <3>2. CASE stage.do # "ask"
      <4>1. o.job.do # "ask"
        BY <1>10, <3>2 DEF Batches, Stage
      <4> QED
        BY <1>7, <4>1 DEF AdvanceStageEffect, AdvanceEffect
    <3> QED
      BY <3>1, <3>2
  <2> QED
    BY <1>7, <1>8, <2>1
<1>20. /\ Then(s, nothing, w, A!Locks(w))
       /\ DOMAIN nothing \cap DOMAIN o.loans = {} /\ DOMAIN w \cap DOMAIN o.advances = {}
       /\ L!Joining(nothing) = {}
  BY <1>2, <1>7, <1>15 DEF L!Joining
<1> HIDE DEF nothing
<1>21. \A r \in DOMAIN nothing : FALSE
  BY <1>15
<1> QED
  BY SMTT(30), <1>2, <1>8, <1>17, <1>18, <1>19, <1>20, <1>21, GoesOn DEF t, o, stage, new

(* The flush gets the next of its locks.                                   *)
LEMMA Flushes ==
  ASSUME TransactionInv, NEW s \in Sessions, Flush(s)
  PROVE  TransactionInv'
<1> DEFINE t == tx'[s]  o == tx[s]
<1>1. Tables /\ Locked /\ InOrder(s)
  BY DEF TransactionInv, Transactions
<1>2. o.todo # {} /\ BlockedBy(s) = {} /\ Take(s) /\ UNCHANGED <<committed, day>>
  BY DEF Flush
<1>3. o # Idle
  BY <1>2 DEF Idle
<1>4. TypedTx(o) /\ Ahead(o)
  BY <1>1, <1>3 DEF InOrder
<1>5. o.job \in Jobs
  BY <1>1, <1>3, <1>4, DayJobs
<1>6. PICK l \in o.todo : l = NextDue(o.todo)
  <2>1. NextDue(o.todo) \in o.todo
    BY <1>2, <1>4, NextIsDue DEF TypedTx
  <2> QED
    BY <2>1
<1>7. /\ t = [o EXCEPT !.todo = o.todo \ {l},
                       !.number = IF l.row = SettingsRow("loan") THEN settings.lastSeq + 1 ELSE o.number]
      /\ tx' = [u \in Sessions |-> tx'[u]] /\ \A u \in Sessions \ {s} : tx'[u] = tx[u]
  BY <1>1, <1>6 DEF Tables, Flush
<1> HIDE DEF t
<1>8. /\ t = [job |-> t.job, rest |-> t.rest, taken |-> t.taken, loans |-> t.loans,
              advances |-> t.advances, todo |-> t.todo, number |-> t.number]
      /\ t.job = o.job /\ t.rest = o.rest /\ t.taken = o.taken /\ t.todo = o.todo \ {l}
      /\ t.number = (IF l.row = SettingsRow("loan") THEN settings.lastSeq + 1 ELSE o.number)
      /\ t.loans = o.loans /\ t.advances = o.advances
  <2> HIDE DEF o
  <2>1. o = [job |-> o.job, rest |-> o.rest, taken |-> o.taken, loans |-> o.loans,
             advances |-> o.advances, todo |-> o.todo, number |-> o.number]
    BY <1>4 DEF TypedTx
  <2> QED
    BY <1>7, <2>1
<1>9. t # Idle
  <2>1. o.job.do # "none"
    BY <1>5, TransactionsAssumption DEF Jobs, Batches
  <2>2. Idle.job.do = "none"
    BY DEF Idle
  <2> QED
    BY <1>8, <2>1, <2>2
<1>10. TypedTx(tx[s])'
  <2>1. o.job \in Days[day] /\ o.number \in Nat /\ settings.lastSeq \in Nat
    BY <1>1, <1>3, <1>4 DEF TypedTx, Tables, Settings
  <2>2. t.number \in Nat
    BY <1>8, <2>1
  <2>3. \A k \in t.todo : k = Due(k.turn, k.row, k.mode) /\ k.turn \in Nat
    BY <1>4, <1>8 DEF TypedTx
  <2> HIDE DEF o
  <2> QED
    BY <1>2, <1>8, <2>1, <2>2, <2>3 DEF TypedTx, t
<1>11. Ahead(t)
  <2> DEFINE S == Stages(o.job)  d == Len(S) - Len(o.rest)
  <2>1. /\ t.rest = o.rest /\ t.taken = o.taken /\ t.loans = o.loans /\ t.advances = o.advances
        /\ t.job = o.job /\ Stages(t.job) = S /\ Len(S) - Len(t.rest) = d
    BY <1>8
  <2>2. /\ o.rest \in Seq(Range(S)) /\ o.taken \subseteq Range(S)
        /\ d >= 0 /\ \A i \in DOMAIN o.rest : o.rest[i] = S[d + i]
        /\ d = 0 => o.taken = {} /\ DOMAIN o.loans = {} /\ DOMAIN o.advances = {}
        /\ o.job.do \in Batches => \A r \in DOMAIN o.advances : \E i \in 1..d : r = o.job.on[i]
        /\ o.job.do = "manager" /\ o.rest # <<>> => DOMAIN o.advances = {}
        /\ o.job.do = "leave" /\ Len(o.rest) > 1 => DOMAIN o.advances = {}
        /\ o.job.do = "leave" /\ Len(o.rest) = 1 =>
             \A r \in DOMAIN o.advances :
               "status" \in DOMAIN o.advances[r] /\ o.advances[r].status = "cancelled"
    BY <1>4 DEF Ahead
  <2> HIDE DEF o, S, d
  <2> QED
    BY ONLY <2>1, <2>2 DEF Ahead
<1>12. /\ Locked'
       /\ \A row, mode : Held(s, row, mode) => Held(s, row, mode)'
       /\ \A k \in Wanted(s) : Held(s, k.row, k.mode)'
       /\ \A u \in Sessions \ {s} : \A row, mode : Held(u, row, mode)' <=> Held(u, row, mode)
  BY <1>1, <1>2, <1>7, <1>9, Taken DEF t
<1>13. Held(s, l.row, l.mode)'
  BY <1>2, <1>6, <1>12 DEF Wanted
<1>14. \A stage : Stands(s, stage) => Stands(s, stage)'
  BY <1>2, <1>8, <1>12, StillStands DEF t
<1>15. \A row, mode : Secured(s, row, mode) => Secured(s, row, mode)'
  <2> SUFFICES ASSUME NEW row, NEW mode, Secured(s, row, mode) PROVE Secured(s, row, mode)'
    OBVIOUS
  <2>1. CASE Held(s, row, mode)
    BY <1>12, <2>1 DEF Secured
  <2>2. CASE \E k \in o.todo : k.row = row /\ k.mode = mode
    <3>1. PICK k \in o.todo : k.row = row /\ k.mode = mode
      BY <2>2
    <3>2. CASE k = l
      BY <1>13, <3>1, <3>2 DEF Secured
    <3>3. CASE k # l
      <4>1. k \in t.todo
        BY <1>8, <3>3
      <4> QED
        BY <3>1, <4>1 DEF Secured, t
    <3> QED
      BY <3>2, <3>3
  <2> QED
    BY <2>1, <2>2 DEF Secured
<1>16. ASSUME NEW r, LoanWrite(s, r) PROVE LoanWrite(s, r)'
  <2>1. Secured(s, LoanRow(r), "no_key_update")'
    BY <1>15, <1>16 DEF LoanWrite
  <2> QED
    BY <1>2, <1>8, <1>12, <1>14, <1>16, <2>1, StillWritesLoan DEF t, committed
<1>17. ASSUME NEW r, AdvanceWrite(s, r) PROVE AdvanceWrite(s, r)'
  <2>1. Secured(s, AdvanceRow(r), "no_key_update")'
    BY <1>15, <1>17 DEF AdvanceWrite
  <2> QED
    BY <1>2, <1>8, <1>12, <1>14, <1>17, <2>1, StillWritesAdvance DEF t, committed
<1>18. Queueing(s)'
  <2>1. /\ \A r \in L!Joining(o.loans) : r = o.job.on /\ o.job.do # "settings"
        /\ L!Joining(o.loans) # {} =>
             \/ Held(s, SettingsRow("loan"), "no_key_update") /\ o.number = settings.lastSeq + 1
             \/ \E k \in o.todo : k.row = SettingsRow("loan")
        /\ \A k \in o.todo : k.row = SettingsRow("loan") => k.mode = "no_key_update"
    BY <1>1 DEF InOrder, Queueing
  <2>2. ASSUME NEW k \in o.todo, k.row = SettingsRow("loan"), k \notin t.todo
        PROVE  Held(s, SettingsRow("loan"), "no_key_update")' /\ t.number = settings.lastSeq + 1
    <3>1. k = l
      BY <1>8, <2>2
    <3> QED
      BY <1>8, <1>13, <2>1, <2>2, <3>1
  <2>3. L!Joining(t.loans) # {} =>
          \/ Held(s, SettingsRow("loan"), "no_key_update")' /\ t.number = settings.lastSeq + 1
          \/ \E k \in t.todo : k.row = SettingsRow("loan")
    <3> SUFFICES ASSUME L!Joining(t.loans) # {}, ~\E k \in t.todo : k.row = SettingsRow("loan")
                 PROVE  Held(s, SettingsRow("loan"), "no_key_update")' /\ t.number = settings.lastSeq + 1
      OBVIOUS
    <3>1. CASE \E k \in o.todo : k.row = SettingsRow("loan")
      BY <2>2, <3>1
    <3>2. CASE Held(s, SettingsRow("loan"), "no_key_update") /\ o.number = settings.lastSeq + 1
      <4>1. t.number = settings.lastSeq + 1
        BY <1>8, <3>2
      <4> QED
        BY <1>12, <3>2, <4>1
    <3> QED
      BY <1>8, <2>1, <3>1, <3>2
  <2>4. \A r \in L!Joining(t.loans) : r = t.job.on /\ t.job.do # "settings"
    BY <1>8, <2>1
  <2>5. \A k \in t.todo : k.row = SettingsRow("loan") => k.mode = "no_key_update"
    BY <1>8, <2>1
  <2> QED
    BY <1>2, <2>3, <2>4, <2>5 DEF Queueing, t, committed
<1>19. InOrder(s)'
  <2>1. TypedTx(tx[s])' /\ (tx[s] # Idle => Ahead(tx[s]))'
    BY <1>10, <1>11 DEF t
  <2> QED
    BY <1>1, <1>8, <1>14, <1>16, <1>17, <1>18, <2>1 DEF InOrder, t
<1>20. \A u \in Sessions \ {s} : Apart(s, u)'
  <2>1. \A u \in Sessions \ {s} : Apart(s, u)
    BY DEF TransactionInv, Transactions
  <2> QED
    BY <1>2, <1>7, <1>8, <2>1 DEF Apart, t, committed
<1> QED
  BY <1>2, <1>7, <1>12, <1>19, <1>20, SessionStep

-----------------------------------------------------------------------------
(* The commit.                                                             *)
LEMMA Conflicting ==
  ASSUME Locked, NEW s, NEW u, s # u, NEW row
  PROVE  /\ Held(s, row, "no_key_update") =>
              ~Held(u, row, "no_key_update") /\ ~Held(u, row, "for_update")
         /\ Held(s, row, "for_update") => ~\E mode : Held(u, row, mode)
<1>1. \A m, n : Held(s, row, m) /\ Held(u, row, n) => Compatible(m, n)
  BY DEF Locked, Held
<1> QED
  BY <1>1 DEF Compatible

LEMMA CommittedTables ==
  ASSUME Tables, NEW s \in Sessions, Commit(s)
  PROVE  /\ loans' = [r \in L!Loans |-> loans'[r]] /\ advances' = [r \in A!Advances |-> advances'[r]]
         /\ \A r \in L!Loans \ DOMAIN tx[s].loans : loans'[r] = loans[r]
         /\ \A r \in (L!Loans \cap DOMAIN tx[s].loans) \ L!Joining(tx[s].loans) :
              loans'[r] = Over(tx[s].loans[r], loans[r])
         /\ \A r \in L!Loans \cap L!Joining(tx[s].loans) :
              loans'[r] = Over([seq |-> tx[s].number], Over(tx[s].loans[r], loans[r]))
         /\ \A r \in A!Advances \ DOMAIN tx[s].advances : advances'[r] = advances[r]
         /\ \A r \in A!Advances \cap DOMAIN tx[s].advances :
              advances'[r] = Over(tx[s].advances[r], advances[r])
<1> DEFINE w == tx[s].loans  joining == L!Joining(w)
           middle == After(loans, w)  numbers == [r \in joining |-> [seq |-> tx[s].number]]
<1>1. loans' = After(middle, numbers) /\ advances' = After(advances, tx[s].advances)
  BY DEF Commit
<1>2. \A r \in joining : r \in DOMAIN w
  BY DEF L!Joining
<1>3. /\ middle = [r \in L!Loans |-> middle[r]]
      /\ \A r \in L!Loans : middle[r] = IF r \in DOMAIN w THEN Over(w[r], loans[r]) ELSE loans[r]
  BY DEF After, Tables
<1> HIDE DEF middle, joining, w
<1>4. DOMAIN numbers = joining /\ \A r \in joining : numbers[r] = [seq |-> tx[s].number]
  OBVIOUS
<1> HIDE DEF numbers
<1>5. DOMAIN middle = L!Loans
  BY <1>3
<1>6. /\ loans' = [r \in L!Loans |-> loans'[r]]
      /\ \A r \in L!Loans : loans'[r] = IF r \in joining THEN Over(numbers[r], middle[r]) ELSE middle[r]
  BY ONLY <1>1, <1>4, <1>5 DEF After
<1>7. /\ advances' = [r \in A!Advances |-> advances'[r]]
      /\ \A r \in A!Advances :
           advances'[r] = IF r \in DOMAIN tx[s].advances THEN Over(tx[s].advances[r], advances[r]) ELSE advances[r]
  BY <1>1 DEF After, Tables
<1>8. \A r \in L!Loans \ DOMAIN w : loans'[r] = loans[r]
  BY <1>2, <1>3, <1>6
<1>9. \A r \in (L!Loans \cap DOMAIN w) \ joining : loans'[r] = Over(w[r], loans[r])
  BY <1>3, <1>6
<1>10. \A r \in L!Loans \cap joining : loans'[r] = Over([seq |-> tx[s].number], Over(w[r], loans[r]))
  BY <1>2, <1>3, <1>4, <1>6
<1> QED
  BY <1>6, <1>7, <1>8, <1>9, <1>10 DEF joining, w

(* What a commit makes of a loan.                                          *)
LEMMA CommittedLoan ==
  ASSUME TransactionInv, NEW s \in Sessions, Commit(s), NEW r \in DOMAIN tx[s].loans
  PROVE  /\ r \in L!Loans /\ GoodLoan(loans'[r]) /\ loans'[r].status # "none"
         /\ Held(s, LoanRow(r), "no_key_update")
         /\ \/ /\ loans[r].status = "none" /\ loans'[r].emp = tx[s].job.by
               /\ DOMAIN tx[s].loans = {r} /\ Stands(s, Stage("loan", "submit", 0))
            \/ /\ loans[r].status # "none" /\ loans'[r].emp = loans[r].emp
               /\ L!IsOpen(loans'[r]) => L!IsOpen(loans[r])
         /\ r \in L!Joining(tx[s].loans) => loans'[r].seq = tx[s].number
         /\ r \notin L!Joining(tx[s].loans) => loans'[r].seq = loans[r].seq
<1> DEFINE t == tx[s]  w == t.loans[r]  q == loans[r]  n == Over(w, q)  m == loans'[r]
           locked == Held(s, LoanRow(r), "for_update")
<1>1. InOrder(s) /\ Tables
  BY DEF TransactionInv, Transactions
<1>2. LoanWrite(s, r) /\ TypedTx(t) /\ t.todo = {}
  BY <1>1 DEF InOrder, Commit
<1>3. r \in L!Loans /\ Held(s, LoanRow(r), "no_key_update")
  BY <1>2 DEF LoanWrite, Secured
<1>4. GoodLoan(q)
  BY <1>1, <1>3 DEF Tables
<1>5. /\ DOMAIN w \subseteq LoanColumns \ {"seq"} /\ GoodLoan(n) /\ n.status # "none"
      /\ \/ /\ t.job.do = "submit" /\ DOMAIN t.loans = {r}
            /\ q.status = "none" /\ n.status = "in_review" /\ n.emp = t.job.by
         \/ q.status # "none" /\ n.emp = q.emp /\ (L!IsOpen(n) => L!IsOpen(q))
      /\ q.status = "none" => Stands(s, Stage("loan", "submit", 0))
  BY <1>2, LoanShape DEF LoanWrite, LoanEffect
<1>6. r \notin L!Joining(t.loans) => m = n
  BY <1>1, <1>3, CommittedTables
<1>7. r \in L!Joining(t.loans) => m = Over([seq |-> t.number], n) /\ w.status = "waiting_finance" /\ "status" \in DOMAIN w
  BY <1>1, <1>3, CommittedTables DEF L!Joining
<1>8. t.number \in Nat
  BY <1>2 DEF TypedTx
<1>9. n.seq = q.seq
  <2>1. "seq" \in DOMAIN q /\ "seq" \notin DOMAIN w
    BY <1>4, <1>5, LoanShape DEF GoodLoan, LoanColumns
  <2> HIDE DEF w, q
  <2> QED
    BY <2>1 DEF Over
<1>10. "status" \in DOMAIN w => n.status = w.status
  BY DEF Over
<1>11. r \in L!Joining(t.loans) => GoodLoan(m) /\ m.status = n.status /\ m.emp = n.emp /\ m.seq = t.number
  <2> SUFFICES ASSUME r \in L!Joining(t.loans)
               PROVE  GoodLoan(m) /\ m.status = n.status /\ m.emp = n.emp /\ m.seq = t.number
    OBVIOUS
  <2> DEFINE k == t.number
  <2>1. m = Over([seq |-> k], n) /\ n.status = "waiting_finance"
    BY <1>7, <1>10
  <2>2. n = [c \in LoanColumns |-> n[c]] /\ n \in L!Row
    BY <1>5, LoanShape DEF GoodLoan
  <2>3. k \in Nat
    BY <1>8
  <2> HIDE DEF n, m, k
  <2>4. /\ m = [c \in LoanColumns |-> m[c]] /\ m.seq = k
        /\ \A c \in LoanColumns \ {"seq"} : m[c] = n[c]
    BY ONLY <2>1, <2>2 DEF Over, LoanColumns
  <2>5. /\ m.status = n.status /\ m.emp = n.emp /\ m.guarantor = n.guarantor /\ m.idx = n.idx
        /\ m.hr = n.hr /\ m.site_manager = n.site_manager /\ m.cur = n.cur
    BY <2>4 DEF LoanColumns
  <2>6. m \in L!Row
    BY <2>2, <2>3, <2>4, <2>5, LoanShape
  <2>7. GoodLoan(m)
    BY <2>1, <2>5, <2>6 DEF GoodLoan
  <2> QED
    BY <2>4, <2>5, <2>7 DEF k
<1>12. L!IsOpen(m) <=> L!IsOpen(n)
  BY <1>6, <1>11 DEF L!IsOpen
<1>13. GoodLoan(m) /\ m.status # "none" /\ m.emp = n.emp
  BY <1>5, <1>6, <1>11
<1>14. \/ q.status = "none" /\ m.emp = t.job.by /\ DOMAIN t.loans = {r} /\ Stands(s, Stage("loan", "submit", 0))
       \/ q.status # "none" /\ m.emp = q.emp /\ (L!IsOpen(m) => L!IsOpen(q))
  BY <1>5, <1>12, <1>13
<1> HIDE DEF n
<1>15. /\ r \in L!Joining(t.loans) => m.seq = t.number
       /\ r \notin L!Joining(t.loans) => m.seq = q.seq
  BY <1>6, <1>9, <1>11
<1> QED
  BY <1>3, <1>13, <1>14, <1>15

(* What a commit makes of an advance.                                      *)
LEMMA CommittedAdvance ==
  ASSUME TransactionInv, NEW s \in Sessions, Commit(s), NEW r \in DOMAIN tx[s].advances
  PROVE  /\ r \in A!Advances /\ GoodAdvance(advances'[r]) /\ advances'[r].status # "none"
         /\ Held(s, AdvanceRow(r), "no_key_update")
         /\ \/ /\ advances[r].status = "none" /\ advances'[r].emp = tx[s].job.by
               /\ advances'[r].month = tx[s].job.month
               /\ DOMAIN tx[s].advances = {r} /\ Stands(s, Stage("advance", "ask", 0))
            \/ /\ advances[r].status # "none"
               /\ advances'[r].emp = advances[r].emp /\ advances'[r].month = advances[r].month
               /\ advances'[r].status \in A!UnpaidStatuses => advances[r].status \in A!UnpaidStatuses
               /\ advances'[r].status \in A!CountedStatuses => advances[r].status \in A!CountedStatuses
<1> DEFINE t == tx[s]  w == t.advances[r]  q == advances[r]  n == Over(w, q)
<1>1. InOrder(s) /\ Tables
  BY DEF TransactionInv, Transactions
<1>2. AdvanceWrite(s, r) /\ t.todo = {}
  BY <1>1 DEF InOrder, Commit
<1>3. r \in A!Advances /\ Held(s, AdvanceRow(r), "no_key_update")
  BY <1>2 DEF AdvanceWrite, Secured
<1>4. advances'[r] = n
  BY <1>1, <1>3, CommittedTables
<1>5. /\ GoodAdvance(n) /\ n.status # "none"
      /\ \/ /\ DOMAIN t.advances = {r} /\ q.status = "none" /\ n.emp = t.job.by /\ n.month = t.job.month
         \/ /\ q.status # "none" /\ n.emp = q.emp /\ n.month = q.month
            /\ n.status \in A!UnpaidStatuses => q.status \in A!UnpaidStatuses
            /\ n.status \in A!CountedStatuses => q.status \in A!CountedStatuses
      /\ q.status = "none" => Stands(s, Stage("advance", "ask", 0))
  BY <1>2 DEF AdvanceWrite, AdvanceEffect
<1> HIDE DEF n
<1> QED
  BY <1>3, <1>4, <1>5

(* The settings, with the queue number that was drawn.                     *)
LEMMA CommittedSettings ==
  ASSUME TransactionInv, NEW s \in Sessions, Commit(s)
  PROVE  /\ Settings'
         /\ L!Joining(tx[s].loans) = {} => settings'.lastSeq = settings.lastSeq
         /\ L!Joining(tx[s].loans) # {} => /\ settings'.lastSeq = settings.lastSeq + 1
                                           /\ tx[s].number = settings.lastSeq + 1
                                           /\ Held(s, SettingsRow("loan"), "no_key_update")
                                           /\ L!Joining(tx[s].loans) = {tx[s].job.on}
<1> DEFINE t == tx[s]  joining == L!Joining(t.loans)
<1>1. InOrder(s) /\ Tables /\ Settings
  BY DEF TransactionInv, Transactions, Tables
<1>2. t # Idle /\ t.todo = {}
  BY DEF Commit
<1>3. t.job \in Jobs
  BY <1>1, <1>2, DayJobs DEF InOrder, TypedTx
<1>4. /\ \A r \in joining : r = t.job.on /\ t.job.do # "settings"
      /\ joining # {} => Held(s, SettingsRow("loan"), "no_key_update") /\ t.number = settings.lastSeq + 1
  BY <1>1, <1>2 DEF InOrder, Queueing
<1>5. /\ t.job.do = "settings" => settings' = Over(t.job.new, settings)
      /\ t.job.do # "settings" =>
           settings' = [settings EXCEPT !.lastSeq = IF joining = {} THEN settings.lastSeq ELSE t.number]
  BY DEF Commit
<1> HIDE DEF joining
<1>6. CASE t.job.do = "settings"
  <2>1. t.job.new \in [SiteSteps -> Employees] /\ joining = {}
    BY <1>3, <1>4, <1>6, JobTypes
  <2>2. settings' = Over(t.job.new, settings)
    BY <1>5, <1>6
  <2> DEFINE new == t.job.new
  <2>3. new \in [SiteSteps -> Employees] /\ settings' = Over(new, settings)
    BY <2>1, <2>2
  <2> HIDE DEF new
  <2>4. Settings' /\ settings'.lastSeq = settings.lastSeq
    BY <1>1, <2>3 DEF Settings, Over, SiteSteps
  <2> QED
    BY <2>1, <2>4 DEF joining
<1>7. CASE t.job.do # "settings"
  <2> DEFINE n == IF joining = {} THEN settings.lastSeq ELSE t.number
  <2>1. settings' = [settings EXCEPT !.lastSeq = n]
    BY <1>5, <1>7
  <2>2. n \in Nat
    BY <1>1, <1>4 DEF Settings
  <2>3. Settings' /\ settings'.lastSeq = n
    <3> HIDE DEF n
    <3> QED
      BY <1>1, <2>1, <2>2 DEF Settings, SiteSteps
  <2>4. joining # {} => joining = {t.job.on}
    BY <1>4
  <2> QED
    BY <1>4, <2>3, <2>4 DEF joining
<1> QED
  BY <1>6, <1>7

(* Nothing that another session has locked to decide about is written.     *)
LEMMA Unwritten ==
  ASSUME TransactionInv, NEW s \in Sessions, Commit(s), NEW u \in Sessions \ {s}
  PROVE  /\ \A r \in L!Loans : Held(u, LoanRow(r), "for_update") => loans'[r] = loans[r]
         /\ \A r \in A!Advances : Held(u, AdvanceRow(r), "for_update") => advances'[r] = advances[r]
<1>1. Tables /\ Locked
  BY DEF TransactionInv
<1>2. ASSUME NEW r \in L!Loans, Held(u, LoanRow(r), "for_update")
      PROVE  loans'[r] = loans[r]
  <2>1. ~Held(s, LoanRow(r), "no_key_update")
    BY <1>1, <1>2, Conflicting
  <2>2. r \notin DOMAIN tx[s].loans
    BY <2>1, CommittedLoan
  <2> QED
    BY <1>1, <2>2, CommittedTables
<1>3. ASSUME NEW r \in A!Advances, Held(u, AdvanceRow(r), "for_update")
      PROVE  advances'[r] = advances[r]
  <2>1. ~Held(s, AdvanceRow(r), "no_key_update")
    BY <1>1, <1>3, Conflicting
  <2>2. r \notin DOMAIN tx[s].advances
    BY <2>1, CommittedAdvance
  <2> QED
    BY <1>1, <2>2, CommittedTables
<1> QED
  BY <1>2, <1>3

(* A submission and a request for an advance lock their employee.          *)
LEMMA SubmitLocks ==
  ASSUME NEW s
  PROVE  /\ Stands(s, Stage("loan", "submit", 0)) =>
              /\ Held(s, EmployeeRow(tx[s].job.by), "for_update")
              /\ ~\E r \in L!Loans : loans[r].emp = tx[s].job.by /\ L!IsOpen(loans[r])
              /\ \E r \in DOMAIN tx[s].loans : loans[r].status = "none"
         /\ Stands(s, Stage("advance", "ask", 0)) =>
              /\ Held(s, EmployeeRow(tx[s].job.by), "for_update")
              /\ ~\E r \in A!Advances : /\ advances[r].emp = tx[s].job.by
                                        /\ advances[r].status \in A!UnpaidStatuses
              /\ Cardinality(A!Counted(tx[s].job.by, tx[s].job.month, [loans |-> loans, advances |-> advances]))
                   < MaxPerMonth
              /\ \E r \in DOMAIN tx[s].advances : advances[r].status = "none"
<1> DEFINE job == tx[s].job  lock == LockOf(EmployeeRow(job.by), "for_update")
           submit == Stage("loan", "submit", 0)  ask == Stage("advance", "ask", 0)
<1>1. FirstLocks(job, submit) = {lock}
  BY DEF FirstLocks, L!FirstLocks, Stage, LockOf, L!LockOf, EmployeeRow, L!EmployeeRow
<1>2. FirstLocks(job, ask) = {lock}
  BY DEF FirstLocks, A!FirstLocks, Stage, LockOf, A!LockOf, EmployeeRow, A!EmployeeRow
<1>3. lock.row = EmployeeRow(job.by) /\ lock.mode = "for_update"
  BY DEF LockOf
<1>4. submit.do = "submit" /\ ask.do = "ask"
  BY DEF Stage
<1> HIDE DEF lock, submit, ask
<1>5. Stands(s, submit) => Held(s, EmployeeRow(job.by), "for_update")
  BY <1>1, <1>3 DEF Stands
<1>6. Stands(s, ask) => Held(s, EmployeeRow(job.by), "for_update")
  BY <1>2, <1>3 DEF Stands
<1>7. Stands(s, submit) =>
        /\ ~\E r \in L!Loans : loans[r].emp = job.by /\ L!IsOpen(loans[r])
        /\ \E r \in DOMAIN tx[s].loans : loans[r].status = "none"
  BY <1>4 DEF Stands, Checked, L!HasOpen
<1>8. Stands(s, ask) =>
        /\ ~\E r \in A!Advances : advances[r].emp = job.by /\ advances[r].status \in A!UnpaidStatuses
        /\ Cardinality(A!Counted(job.by, job.month, [loans |-> loans, advances |-> advances])) < MaxPerMonth
        /\ \E r \in DOMAIN tx[s].advances : advances[r].status = "none"
  BY <1>4 DEF Stands, Checked, A!HasOpen
<1> QED
  BY <1>5, <1>6, <1>7, <1>8 DEF submit, ask

(* An employee whose row another session has locked gets no new request.   *)
LEMMA NothingInserted ==
  ASSUME TransactionInv, NEW s \in Sessions, Commit(s), NEW u \in Sessions \ {s}, NEW e,
         Held(u, EmployeeRow(e), "for_update")
  PROVE  /\ \A r \in L!Loans : loans'[r].emp = e /\ L!IsOpen(loans'[r]) =>
              loans[r].emp = e /\ L!IsOpen(loans[r])
         /\ \A r \in A!Advances : advances'[r].emp = e =>
              /\ advances[r].emp = e /\ advances'[r].month = advances[r].month
              /\ advances'[r].status \in A!UnpaidStatuses => advances[r].status \in A!UnpaidStatuses
              /\ advances'[r].status \in A!CountedStatuses => advances[r].status \in A!CountedStatuses
<1>1. Tables /\ Locked
  BY DEF TransactionInv
<1>2. ~Held(s, EmployeeRow(e), "for_update")
  BY <1>1, Conflicting
<1>3. ASSUME NEW r \in L!Loans, loans'[r].emp = e, L!IsOpen(loans'[r])
      PROVE  loans[r].emp = e /\ L!IsOpen(loans[r])
  <2>1. CASE r \notin DOMAIN tx[s].loans
    BY <1>1, <1>3, <2>1, CommittedTables
  <2>2. CASE r \in DOMAIN tx[s].loans
    <3>1. ~(loans'[r].emp = tx[s].job.by /\ Stands(s, Stage("loan", "submit", 0)))
      BY <1>2, <1>3, SubmitLocks
    <3> QED
      BY <1>3, <2>2, <3>1, CommittedLoan
  <2> QED
    BY <2>1, <2>2
<1>4. ASSUME NEW r \in A!Advances, advances'[r].emp = e
      PROVE  /\ advances[r].emp = e /\ advances'[r].month = advances[r].month
             /\ advances'[r].status \in A!UnpaidStatuses => advances[r].status \in A!UnpaidStatuses
             /\ advances'[r].status \in A!CountedStatuses => advances[r].status \in A!CountedStatuses
  <2>1. CASE r \notin DOMAIN tx[s].advances
    BY <1>1, <1>4, <2>1, CommittedTables
  <2>2. CASE r \in DOMAIN tx[s].advances
    <3>1. ~(advances'[r].emp = tx[s].job.by /\ Stands(s, Stage("advance", "ask", 0)))
      BY <1>2, <1>4, SubmitLocks
    <3> QED
      BY <1>4, <2>2, <3>1, CommittedAdvance
  <2> QED
    BY <2>1, <2>2
<1> QED
  BY <1>3, <1>4

(* The row that a session is going to insert stays free.                   *)
LEMMA StaysFree ==
  ASSUME TransactionInv, NEW s \in Sessions, Commit(s), NEW u \in Sessions \ {s}
  PROVE  /\ \A r \in DOMAIN tx[u].loans : loans[r].status = "none" => loans'[r] = loans[r]
         /\ \A r \in DOMAIN tx[u].advances : advances[r].status = "none" => advances'[r] = advances[r]
<1>1. Tables /\ InOrder(u) /\ Apart(s, u)
  BY DEF TransactionInv, Transactions
<1>2. /\ \A r \in DOMAIN tx[u].loans : r \in L!Loans
      /\ \A r \in DOMAIN tx[u].advances : r \in A!Advances
  BY <1>1 DEF InOrder, LoanWrite, AdvanceWrite
<1>3. \A r \in DOMAIN tx[u].loans : loans[r].status = "none" => loans'[r] = loans[r]
  BY <1>1, <1>2, CommittedTables DEF Apart
<1>4. \A r \in DOMAIN tx[u].advances : advances[r].status = "none" => advances'[r] = advances[r]
  BY <1>1, <1>2, CommittedTables DEF Apart
<1> QED
  BY <1>3, <1>4

Rows(loanRows, advanceRows) == [loans |-> loanRows, advances |-> advanceRows]

(* Other sessions' commits leave it as it was checked.                     *)
LEMMA StillChecked ==
  ASSUME TransactionInv, NEW s \in Sessions, Commit(s), NEW u \in Sessions \ {s},
         tx[u] # Idle, NEW stage \in Range(Stages(tx[u].job)), Stands(u, stage)
  PROVE  Stands(u, stage)'
<1> DEFINE job == tx[u].job  old == Rows(loans, advances)  new == Rows(loans', advances')
<1>1. Tables /\ Locked /\ InOrder(u)
  BY DEF TransactionInv, Transactions
<1>2. job \in Jobs
  BY <1>1, DayJobs DEF InOrder, TypedTx
<1>3. tx'[u] = tx[u] /\ \A row, mode : Held(u, row, mode)' <=> Held(u, row, mode)
  BY <1>1, Released DEF Commit
<1>4. \A l \in FirstLocks(job, stage) : Held(u, l.row, l.mode)
  BY DEF Stands
<1>5. Checked(job, stage, old, tx[u])
  BY DEF Stands, Rows
<1>6. /\ old.loans = loans /\ old.advances = advances
      /\ new.loans = loans' /\ new.advances = advances'
  BY DEF Rows
<1>7. SUFFICES Checked(job, stage, new, tx[u])
  <2>1. \A l \in FirstLocks(tx'[u].job, stage) : Held(u, l.row, l.mode)'
    BY <1>3, <1>4
  <2>2. Checked(tx'[u].job, stage, [loans |-> loans', advances |-> advances'], tx'[u])
    BY <1>3, <1>7 DEF Rows
  <2> QED
    BY <2>1, <2>2 DEF Stands
<1>8. CASE stage = Stage("loan", "submit", 0)
  <2>1. /\ Held(u, EmployeeRow(job.by), "for_update")
        /\ ~\E r \in L!Loans : loans[r].emp = job.by /\ L!IsOpen(loans[r])
        /\ \E r \in DOMAIN tx[u].loans : loans[r].status = "none"
    BY <1>8, SubmitLocks
  <2>2. ~L!HasOpen(job.by, new)
    BY <1>6, <2>1, NothingInserted DEF L!HasOpen
  <2>3. \E r \in DOMAIN tx[u].loans : new.loans[r].status = "none"
    BY <1>6, <2>1, StaysFree
  <2>4. stage.do = "submit"
    BY <1>8 DEF Stage
  <2> HIDE DEF new
  <2> QED
    BY <2>2, <2>3, <2>4 DEF Checked
<1>9. CASE stage = Stage("advance", "ask", 0)
  <2>1. /\ Held(u, EmployeeRow(job.by), "for_update")
        /\ ~\E r \in A!Advances : advances[r].emp = job.by /\ advances[r].status \in A!UnpaidStatuses
        /\ Cardinality(A!Counted(job.by, job.month, old)) < MaxPerMonth
        /\ \E r \in DOMAIN tx[u].advances : advances[r].status = "none"
    BY <1>9, SubmitLocks DEF Rows
  <2>2. ~A!HasOpen(job.by, new)
    BY <1>6, <2>1, NothingInserted DEF A!HasOpen
  <2>3. \E r \in DOMAIN tx[u].advances : new.advances[r].status = "none"
    BY <1>6, <2>1, StaysFree
  <2>4. stage.do = "ask"
    BY <1>9 DEF Stage
  <2>5. Cardinality(A!Counted(job.by, job.month, new)) < MaxPerMonth
    <3>1. A!Counted(job.by, job.month, new) \subseteq A!Counted(job.by, job.month, old)
      BY <1>6, <2>1, NothingInserted DEF A!Counted
    <3>2. IsFiniteSet(A!Counted(job.by, job.month, old))
      <4>1. IsFiniteSet(A!Advances)
        BY TransactionsAssumption, FS_Interval DEF A!Advances
      <4> QED
        BY <4>1, FS_Subset DEF A!Counted
    <3>3. /\ Cardinality(A!Counted(job.by, job.month, new)) <= Cardinality(A!Counted(job.by, job.month, old))
          /\ Cardinality(A!Counted(job.by, job.month, old)) \in Nat
          /\ Cardinality(A!Counted(job.by, job.month, new)) \in Nat
      BY <3>1, <3>2, FS_Subset, FS_CardinalityType
    <3> QED
      BY <2>1, <3>3, TransactionsAssumption
  <2> HIDE DEF new
  <2> QED
    BY <2>2, <2>3, <2>4, <2>5 DEF Checked
<1>10. CASE stage.of = "loan" /\ stage.do \in {"guarantee", "approve", "pay", "cancel"}
  <2>1. job.do = stage.do /\ job.on \in L!Loans
    <3>1. job.do = stage.do
      BY <1>2, <1>10, StageKinds DEF Stage, LoanCalls, Batches
    <3> QED
      BY <1>2, <1>10, <3>1, JobTypes
  <2>2. Held(u, LoanRow(job.on), "for_update")
    <3>1. LockOf(LoanRow(job.on), "for_update") \in FirstLocks(job, stage)
      BY <1>10 DEF FirstLocks, L!FirstLocks, LoanRow, LockOf, L!LockOf, RequestRow, L!RequestRow
    <3> QED
      BY <1>4, <3>1 DEF LockOf
  <2>3. loans'[job.on] = loans[job.on]
    BY <2>1, <2>2, Unwritten
  <2>4. Allowed(job, stage, old)
    BY <1>5, <1>10 DEF Checked
  <2>5. L!Allowed(job, stage, old) => L!Allowed(job, stage, new)
    BY <1>6, <1>10, <2>3 DEF L!Allowed
  <2>6. Allowed(job, stage, new)
    BY <1>10, <2>4, <2>5 DEF Allowed
  <2> QED
    BY <1>10, <2>6 DEF Checked
<1>11. CASE stage.of = "advance" /\ stage.do \in {"decide", "finance", "pay_out", "withdraw"}
  <2>1. stage.on \in A!Advances
    BY <1>2, <1>11, StageKinds DEF Stage, LoanCalls, Batches
  <2>2. Held(u, AdvanceRow(stage.on), "for_update")
    <3>1. LockOf(AdvanceRow(stage.on), "for_update") \in FirstLocks(job, stage)
      BY <1>11 DEF FirstLocks, A!FirstLocks, AdvanceRow, LockOf, A!LockOf, RequestRow, A!RequestRow
    <3> QED
      BY <1>4, <3>1 DEF LockOf
  <2>3. advances'[stage.on] = advances[stage.on]
    BY <2>1, <2>2, Unwritten
  <2>4. Allowed(job, stage, old)
    BY <1>5, <1>11 DEF Checked
  <2>5. A!Allowed(job, stage, old) => A!Allowed(job, stage, new)
    BY <1>6, <1>11, <2>3 DEF A!Allowed
  <2>6. Allowed(job, stage, new)
    BY <1>11, <2>4, <2>5 DEF Allowed
  <2> QED
    BY <1>11, <2>6 DEF Checked
<1>12. CASE stage.do \in {"leave", "settings", "choose", "manager", "replace", "move"}
  <2>1. L!Allowed(job, stage, new) /\ A!Allowed(job, stage, new)
    BY <1>12 DEF L!Allowed, A!Allowed
  <2>2. Allowed(job, stage, new)
    BY <2>1 DEF Allowed
  <2> QED
    BY <1>12, <2>2 DEF Checked
<1> QED
  BY <1>2, <1>8, <1>9, <1>10, <1>11, <1>12, StageKinds DEF Stage, LoanCalls, Batches

(* Columns that were worked out without a lock go over the row as another  *)
(* session has left it.                                                    *)
LEMMA LoanOver ==
  ASSUME NEW w, NEW q, NEW m, Unlocked(w, {"status", "hr", "site_manager", "cur"}),
         GoodLoan(q), GoodLoan(Over(w, q)), GoodLoan(m), m.status # "none"
  PROVE  /\ GoodLoan(Over(w, m)) /\ Over(w, m).status # "none" /\ Over(w, m).emp = m.emp
         /\ L!IsOpen(Over(w, m)) => L!IsOpen(m)
<1> DEFINE n == Over(w, q)  o == Over(w, m)  U == {"status", "hr", "site_manager", "cur"}
<1>1. /\ q = [c \in LoanColumns |-> q[c]] /\ m = [c \in LoanColumns |-> m[c]]
      /\ m \in L!Row /\ n \in L!Row
  BY LoanShape DEF GoodLoan
<1>2. DOMAIN w \subseteq U /\ ("status" \in DOMAIN w => w.status = "cancelled")
  BY DEF Unlocked
<1>3. /\ DOMAIN o = LoanColumns /\ o = [c \in LoanColumns |-> o[c]]
      /\ \A c \in LoanColumns : o[c] = IF c \in DOMAIN w THEN w[c] ELSE m[c]
      /\ \A c \in DOMAIN w : n[c] = w[c]
  BY <1>1, <1>2 DEF Over, LoanColumns
<1>4. \A c \in LoanColumns : o[c] = m[c] \/ (c \in DOMAIN w /\ o[c] = n[c])
  BY <1>3
<1> HIDE DEF n, o
<1>5. o.emp = m.emp /\ o.guarantor = m.guarantor /\ o.idx = m.idx /\ o.seq = m.seq
  BY <1>2, <1>3 DEF LoanColumns
<1>6. o.hr \in {m.hr, n.hr} /\ o.site_manager \in {m.site_manager, n.site_manager} /\ o.cur \in {m.cur, n.cur}
  BY <1>4 DEF LoanColumns
<1>7. o.status \in {m.status, "cancelled"}
  BY <1>2, <1>3 DEF LoanColumns
<1>8. /\ m.status \in UnsettledStatuses \cup {"cancelled", "none"}
      /\ m.emp \in Maybe(Employees) /\ m.guarantor \in Maybe(Employees) /\ m.idx \in Nat
      /\ {m.hr, n.hr, m.site_manager, n.site_manager, m.cur, n.cur} \subseteq Maybe(Employees) /\ m.seq \in Nat
  BY <1>1, LoanShape
<1>9. o.hr \in Maybe(Employees) /\ o.site_manager \in Maybe(Employees) /\ o.cur \in Maybe(Employees)
  BY <1>6, <1>8
<1>10. o \in L!Row
  BY <1>3, <1>5, <1>7, <1>8, <1>9, LoanShape
<1>11. GoodLoan(o) /\ o.status # "none"
  BY <1>5, <1>7, <1>10 DEF GoodLoan
<1>12. L!IsOpen(o) => L!IsOpen(m)
  BY <1>7 DEF L!IsOpen, L!OpenStatuses
<1> QED
  BY <1>5, <1>11, <1>12 DEF o

LEMMA AdvanceOver ==
  ASSUME NEW w, NEW q, NEW m, Unlocked(w, {"status", "unit_manager", "site_manager", "cur"}),
         GoodAdvance(q), GoodAdvance(Over(w, q)), GoodAdvance(m), m.status # "none"
  PROVE  /\ GoodAdvance(Over(w, m)) /\ Over(w, m).status # "none"
         /\ Over(w, m).emp = m.emp /\ Over(w, m).month = m.month
         /\ Over(w, m).status \in A!UnpaidStatuses => m.status \in A!UnpaidStatuses
         /\ Over(w, m).status \in A!CountedStatuses => m.status \in A!CountedStatuses
<1> DEFINE n == Over(w, q)  o == Over(w, m)  U == {"status", "unit_manager", "site_manager", "cur"}
<1>1. m \in A!Row /\ n \in A!Row /\ q \in A!Row
  BY DEF GoodAdvance
<1>2. DOMAIN w \subseteq U /\ ("status" \in DOMAIN w => w.status = "cancelled")
  BY DEF Unlocked
<1>3. /\ DOMAIN o = AdvanceColumns /\ o = [c \in AdvanceColumns |-> o[c]]
      /\ \A c \in AdvanceColumns : o[c] = IF c \in DOMAIN w THEN w[c] ELSE m[c]
      /\ \A c \in DOMAIN w : n[c] = w[c]
  <2>1. m = [c \in AdvanceColumns |-> m[c]]
    BY <1>1, AdvanceShape
  <2> QED
    BY <1>2, <2>1 DEF Over, AdvanceColumns
<1>4. \A c \in AdvanceColumns : o[c] = m[c] \/ (c \in DOMAIN w /\ o[c] = n[c])
  BY <1>3
<1> HIDE DEF n, o
<1>5. o.emp = m.emp /\ o.month = m.month /\ o.steps = m.steps /\ o.idx = m.idx
  BY <1>2, <1>3 DEF AdvanceColumns
<1>6. /\ o.unit_manager \in {m.unit_manager, n.unit_manager}
      /\ o.site_manager \in {m.site_manager, n.site_manager} /\ o.cur \in {m.cur, n.cur}
  BY <1>4 DEF AdvanceColumns
<1>7. o.status \in {m.status, "cancelled"}
  BY <1>2, <1>3 DEF AdvanceColumns
<1>8. /\ m.status \in A!CountedStatuses \cup {"rejected", "cancelled", "none"}
      /\ m.emp \in Maybe(Employees) /\ m.month \in Nat /\ m.steps \in Seq(Managing \cup {"finance"})
      /\ {m.unit_manager, n.unit_manager, m.site_manager, n.site_manager, m.cur, n.cur} \subseteq Maybe(Employees)
      /\ m.idx \in Nat
  BY <1>1, AdvanceShape
<1>9. o.unit_manager \in Maybe(Employees) /\ o.site_manager \in Maybe(Employees) /\ o.cur \in Maybe(Employees)
  BY <1>6, <1>8
<1>10. o \in A!Row
  BY <1>3, <1>5, <1>7, <1>8, <1>9, AdvanceShape
<1>11. GoodAdvance(o) /\ o.status # "none"
  BY <1>5, <1>7, <1>10 DEF GoodAdvance
<1>12. /\ o.status \in A!UnpaidStatuses => m.status \in A!UnpaidStatuses
       /\ o.status \in A!CountedStatuses => m.status \in A!CountedStatuses
  BY <1>7 DEF A!UnpaidStatuses, A!CountedStatuses
<1> QED
  BY <1>5, <1>11, <1>12 DEF o

(* What the other sessions are going to write.                             *)
LEMMA OtherLoanWrite ==
  ASSUME TransactionInv, NEW s \in Sessions, Commit(s), NEW u \in Sessions \ {s}, NEW r \in DOMAIN tx[u].loans
  PROVE  LoanWrite(u, r)'
<1> DEFINE t == tx[u]  w == t.loans[r]  q == loans[r]  m == loans'[r]  submit == Stage("loan", "submit", 0)
<1>1. Tables /\ Locked /\ InOrder(u) /\ Apart(s, u)
  BY DEF TransactionInv, Transactions
<1>2. tx'[u] = t /\ \A row, mode : Held(u, row, mode)' <=> Held(u, row, mode)
  BY <1>1, Released DEF Commit
<1>3. LoanWrite(u, r) /\ t # Idle
  BY <1>1 DEF InOrder, Idle
<1>4. Secured(u, LoanRow(r), "no_key_update")' /\ Secured(u, LoanRow(r), "no_key_update") /\ r \in L!Loans
  BY <1>2, <1>3 DEF LoanWrite, Secured
<1>5. CASE m = q
  <2>1. q.status = "none" /\ Stands(u, submit) => Stands(u, submit)'
    <3> SUFFICES ASSUME q.status = "none", Stands(u, submit) PROVE Stands(u, submit)'
      OBVIOUS
    <3>1. t.job.do = "submit"
      BY <1>3 DEF LoanWrite, LoanEffect
    <3>2. Stages(t.job) = <<submit>>
      BY <3>1 DEF Stages, LoanCalls, Batches
    <3>3. submit \in Range(Stages(t.job))
      BY <3>2 DEF Range
    <3> QED
      BY <1>3, <3>3, StillChecked
  <2> QED
    BY <1>2, <1>3, <1>4, <1>5, <2>1, StillWritesLoan
<1>6. CASE m # q
  <2>1. r \in DOMAIN tx[s].loans
    BY <1>1, <1>4, <1>6, CommittedTables
  <2>2. q.status # "none"
    BY <1>1, <2>1 DEF Apart
  <2>3. GoodLoan(q) /\ GoodLoan(m) /\ m.status # "none" /\ m.emp = q.emp /\ (L!IsOpen(m) => L!IsOpen(q))
    BY <1>1, <1>4, <2>1, <2>2, CommittedLoan DEF Tables
  <2>4. ~Held(u, LoanRow(r), "for_update")
    BY <1>1, <2>1, CommittedLoan, Conflicting
  <2>5. /\ DOMAIN w \subseteq DOMAIN L!NoRow \ {"seq"} /\ "emp" \notin DOMAIN w
        /\ GoodLoan(Over(w, q)) /\ Unlocked(w, {"status", "hr", "site_manager", "cur"})
    BY <1>3, <2>2, <2>4 DEF LoanWrite, LoanEffect
  <2>6. /\ GoodLoan(Over(w, m)) /\ Over(w, m).status # "none" /\ Over(w, m).emp = m.emp
        /\ L!IsOpen(Over(w, m)) => L!IsOpen(m)
    BY <2>3, <2>5, LoanOver
  <2> HIDE DEF w, m, q
  <2>7. LoanEffect(t.job, w, m, Held(u, LoanRow(r), "for_update")', DOMAIN t.loans = {r})
    BY <2>3, <2>5, <2>6 DEF LoanEffect
  <2> QED
    BY <1>2, <1>4, <2>3, <2>7 DEF LoanWrite, w, m
<1> QED
  BY <1>5, <1>6

LEMMA OtherAdvanceWrite ==
  ASSUME TransactionInv, NEW s \in Sessions, Commit(s), NEW u \in Sessions \ {s}, NEW r \in DOMAIN tx[u].advances
  PROVE  AdvanceWrite(u, r)'
<1> DEFINE t == tx[u]  w == t.advances[r]  q == advances[r]  m == advances'[r]  ask == Stage("advance", "ask", 0)
<1>1. Tables /\ Locked /\ InOrder(u) /\ Apart(s, u)
  BY DEF TransactionInv, Transactions
<1>2. tx'[u] = t /\ \A row, mode : Held(u, row, mode)' <=> Held(u, row, mode)
  BY <1>1, Released DEF Commit
<1>3. AdvanceWrite(u, r) /\ t # Idle
  BY <1>1 DEF InOrder, Idle
<1>4. Secured(u, AdvanceRow(r), "no_key_update")' /\ Secured(u, AdvanceRow(r), "no_key_update") /\ r \in A!Advances
  BY <1>2, <1>3 DEF AdvanceWrite, Secured
<1>5. CASE m = q
  <2>1. q.status = "none" /\ Stands(u, ask) => Stands(u, ask)'
    <3> SUFFICES ASSUME q.status = "none", Stands(u, ask) PROVE Stands(u, ask)'
      OBVIOUS
    <3>1. t.job.do = "ask"
      BY <1>3 DEF AdvanceWrite, AdvanceEffect
    <3>2. Stages(t.job) = <<ask>>
      BY <3>1 DEF Stages, LoanCalls, Batches
    <3>3. ask \in Range(Stages(t.job))
      BY <3>2 DEF Range
    <3> QED
      BY <1>3, <3>3, StillChecked
  <2> QED
    BY <1>2, <1>3, <1>4, <1>5, <2>1, StillWritesAdvance
<1>6. CASE m # q
  <2>1. r \in DOMAIN tx[s].advances
    BY <1>1, <1>4, <1>6, CommittedTables
  <2>2. q.status # "none"
    BY <1>1, <2>1 DEF Apart
  <2>3. /\ GoodAdvance(q) /\ GoodAdvance(m) /\ m.status # "none" /\ m.emp = q.emp /\ m.month = q.month
        /\ m.status \in A!UnpaidStatuses => q.status \in A!UnpaidStatuses
        /\ m.status \in A!CountedStatuses => q.status \in A!CountedStatuses
    BY <1>1, <1>4, <2>1, <2>2, CommittedAdvance DEF Tables
  <2>4. ~Held(u, AdvanceRow(r), "for_update")
    BY <1>1, <2>1, CommittedAdvance, Conflicting
  <2>5. /\ DOMAIN w \subseteq DOMAIN A!NoRow /\ {"emp", "month"} \cap DOMAIN w = {}
        /\ GoodAdvance(Over(w, q)) /\ Unlocked(w, {"status", "unit_manager", "site_manager", "cur"})
    BY <1>3, <2>2, <2>4 DEF AdvanceWrite, AdvanceEffect
  <2>6. /\ GoodAdvance(Over(w, m)) /\ Over(w, m).status # "none"
        /\ Over(w, m).emp = m.emp /\ Over(w, m).month = m.month
        /\ Over(w, m).status \in A!UnpaidStatuses => m.status \in A!UnpaidStatuses
        /\ Over(w, m).status \in A!CountedStatuses => m.status \in A!CountedStatuses
    BY <2>3, <2>5, AdvanceOver
  <2> HIDE DEF w, m, q
  <2>7. AdvanceEffect(t.job, w, m, Held(u, AdvanceRow(r), "for_update")', DOMAIN t.advances = {r})
    BY <2>3, <2>5, <2>6 DEF AdvanceEffect
  <2> QED
    BY <1>2, <1>4, <2>3, <2>7 DEF AdvanceWrite, w, m
<1> QED
  BY <1>5, <1>6

(* The other sessions have the numbers they drew to themselves.            *)
LEMMA OtherQueueing ==
  ASSUME TransactionInv, NEW s \in Sessions, Commit(s), NEW u \in Sessions \ {s}
  PROVE  Queueing(u)'
<1>1. Tables /\ Locked /\ Queueing(u)
  BY DEF TransactionInv, Transactions, InOrder
<1>2. tx'[u] = tx[u] /\ \A row, mode : Held(u, row, mode)' <=> Held(u, row, mode)
  BY <1>1, Released DEF Commit
<1>3. Held(u, SettingsRow("loan"), "no_key_update") => settings'.lastSeq = settings.lastSeq
  BY <1>1, CommittedSettings, Conflicting
<1> QED
  BY <1>1, <1>2, <1>3 DEF Queueing

LEMMA OthersAfterCommit ==
  ASSUME TransactionInv, NEW s \in Sessions, Commit(s)
  PROVE  Transactions'
<1>1. Tables /\ Locked /\ \A u \in Sessions : InOrder(u)
  BY DEF TransactionInv, Transactions
<1>2. /\ tx'[s] = Idle /\ \A u \in Sessions \ {s} : tx'[u] = tx[u]
      /\ UNCHANGED day
  BY <1>1, Released DEF Commit
<1>3. InOrder(s)'
  BY <1>2, IdleInOrder
<1>4. ASSUME NEW u \in Sessions \ {s} PROVE InOrder(u)'
  <2>1. InOrder(u) /\ tx'[u] = tx[u]
    BY <1>1, <1>2
  <2>2. TypedTx(tx[u])' /\ (tx[u] # Idle => Ahead(tx[u]))'
    <3>1. TypedTx(tx[u])'
      BY <1>2, <2>1 DEF InOrder, TypedTx
    <3>2. (tx[u] # Idle => Ahead(tx[u]))'
      BY <2>1 DEF InOrder
    <3> QED
      BY <3>1, <3>2
  <2>3. \A r \in DOMAIN tx'[u].loans : LoanWrite(u, r)'
    BY <2>1, OtherLoanWrite
  <2>4. \A r \in DOMAIN tx'[u].advances : AdvanceWrite(u, r)'
    BY <2>1, OtherAdvanceWrite
  <2>5. Queueing(u)'
    BY OtherQueueing
  <2>6. \A stage \in tx'[u].taken : Stands(u, stage)'
    <3> SUFFICES ASSUME NEW stage \in tx[u].taken PROVE Stands(u, stage)'
      BY <2>1
    <3>1. tx[u] # Idle
      BY DEF Idle
    <3>2. Stands(u, stage) /\ stage \in Range(Stages(tx[u].job))
      BY <2>1, <3>1 DEF InOrder, Ahead
    <3> QED
      BY <3>1, <3>2, StillChecked
  <2> QED
    BY <2>2, <2>3, <2>4, <2>5, <2>6 DEF InOrder
<1>5. ASSUME NEW a \in Sessions, NEW b \in Sessions \ {a} PROVE Apart(a, b)'
  <2>1. CASE a = s \/ b = s
    <3>1. DOMAIN tx'[s].loans = {} /\ DOMAIN tx'[s].advances = {}
      BY <1>2 DEF Idle
    <3> QED
      BY <2>1, <3>1 DEF Apart
  <2>2. CASE a # s /\ b # s
    <3>1. Apart(a, b) /\ tx'[a] = tx[a] /\ tx'[b] = tx[b] /\ InOrder(a)
      BY <1>1, <1>2, <2>2 DEF TransactionInv, Transactions
    <3>2. ASSUME NEW r \in L!Loans, loans[r].status # "none" PROVE loans'[r].status # "none"
      <4>1. CASE r \in DOMAIN tx[s].loans
        BY <4>1, CommittedLoan
      <4>2. CASE r \notin DOMAIN tx[s].loans
        BY <1>1, <3>2, <4>2, CommittedTables
      <4> QED
        BY <4>1, <4>2
    <3>3. ASSUME NEW r \in A!Advances, advances[r].status # "none" PROVE advances'[r].status # "none"
      <4>1. CASE r \in DOMAIN tx[s].advances
        BY <4>1, CommittedAdvance
      <4>2. CASE r \notin DOMAIN tx[s].advances
        BY <1>1, <3>3, <4>2, CommittedTables
      <4> QED
        BY <4>1, <4>2
    <3>4. /\ \A r \in DOMAIN tx[a].loans : r \in L!Loans
          /\ \A r \in DOMAIN tx[a].advances : r \in A!Advances
      BY <3>1 DEF InOrder, LoanWrite, AdvanceWrite
    <3> QED
      BY <3>1, <3>2, <3>3, <3>4 DEF Apart
  <2> QED
    BY <2>1, <2>2
<1> QED
  BY <1>3, <1>4, <1>5 DEF Transactions

(* The number that was drawn is greater than all others.                   *)
LEMMA CommittedNumbers ==
  ASSUME TransactionInv, NEW s \in Sessions, Commit(s)
  PROVE  Numbers'
<1> DEFINE joining == L!Joining(tx[s].loans)  last == settings.lastSeq
<1>1. Tables /\ Settings /\ Numbers
  BY DEF TransactionInv, Tables
<1>2. last \in Nat /\ settings'.lastSeq \in Nat
  BY <1>1, CommittedSettings DEF Settings
<1>3. \A r \in L!Loans : r \notin joining => loans'[r].seq = loans[r].seq
  <2> SUFFICES ASSUME NEW r \in L!Loans, r \notin joining PROVE loans'[r].seq = loans[r].seq
    OBVIOUS
  <2>1. CASE r \in DOMAIN tx[s].loans
    BY <2>1, CommittedLoan
  <2>2. CASE r \notin DOMAIN tx[s].loans
    BY <1>1, <2>2, CommittedTables
  <2> QED
    BY <2>1, <2>2
<1>4. \A r \in L!Loans : loans[r].seq \in Nat /\ loans[r].seq <= last
  BY <1>1, LoanShape DEF Tables, GoodLoan, Numbers
<1>5. \A r, p \in L!Loans : r # p /\ loans[r].seq > 0 => loans[r].seq # loans[p].seq
  BY <1>1 DEF Numbers, NumbersDiffer
<1>6. CASE joining = {}
  <2>1. settings'.lastSeq = last
    BY <1>6, CommittedSettings
  <2> HIDE DEF joining, last
  <2>2. \A r \in L!Loans : loans'[r].seq = loans[r].seq
    BY <1>3, <1>6
  <2> QED
    BY <1>4, <1>5, <2>1, <2>2 DEF Numbers, NumbersDiffer
<1>7. CASE joining # {}
  <2> DEFINE n == tx[s].job.on
  <2>1. settings'.lastSeq = last + 1 /\ joining = {n} /\ tx[s].number = last + 1
    BY <1>7, CommittedSettings
  <2>2. n \in L!Loans /\ loans'[n].seq = last + 1
    <3>1. n \in DOMAIN tx[s].loans /\ n \in joining
      BY <2>1 DEF L!Joining
    <3> QED
      BY <2>1, <3>1, CommittedLoan
  <2> HIDE DEF joining, last, n
  <2>3. \A r \in L!Loans : loans'[r].seq = IF r = n THEN last + 1 ELSE loans[r].seq
    BY <1>3, <2>1, <2>2
  <2>4. \A r \in L!Loans : loans'[r].seq <= last + 1
    BY <1>2, <1>4, <2>3
  <2>5. \A r, p \in L!Loans : r # p /\ loans'[r].seq > 0 => loans'[r].seq # loans'[p].seq
    BY <1>2, <1>4, <1>5, <2>3
  <2> QED
    BY <2>1, <2>4, <2>5 DEF Numbers, NumbersDiffer
<1> QED
  BY <1>6, <1>7

(* Requests of an employee that count in a month.                          *)
Counting(rows, e, month) ==
  {r \in A!Advances : rows[r].status \in A!CountedStatuses /\ rows[r].emp = e /\ rows[r].month = month}

LEMMA CommittedCounts ==
  ASSUME TransactionInv, NEW s \in Sessions, Commit(s), NEW p \in A!Advances
  PROVE  Cardinality(Counting(advances', advances'[p].emp, advances'[p].month)) <= MaxPerMonth
<1> DEFINE t == tx[s]  e == advances'[p].emp  m == advances'[p].month  ask == Stage("advance", "ask", 0)
           old == Counting(advances, e, m)  new == Counting(advances', e, m)
<1>1. Tables /\ SubmissionLimits /\ MaxPerMonth \in Nat
  BY TransactionsAssumption DEF TransactionInv
<1>2. \A S : S \subseteq A!Advances => IsFiniteSet(S) /\ Cardinality(S) \in Nat
  <2>1. IsFiniteSet(A!Advances)
    BY TransactionsAssumption, FS_Interval DEF A!Advances
  <2>2. \A S : S \subseteq A!Advances => IsFiniteSet(S)
    BY <2>1, FS_Subset
  <2> QED
    BY <2>2, FS_CardinalityType
<1>3. old \subseteq A!Advances /\ new \subseteq A!Advances
  BY DEF Counting
<1>4. \A r \in A!Advances : Cardinality(Counting(advances, advances[r].emp, advances[r].month)) <= MaxPerMonth
  BY <1>1 DEF SubmissionLimits, Counting
<1>5. ASSUME NEW r \in A!Advances, ~(r \in DOMAIN t.advances /\ advances[r].status = "none")
      PROVE  /\ advances'[r].emp = advances[r].emp /\ advances'[r].month = advances[r].month
             /\ advances'[r].status \in A!CountedStatuses => advances[r].status \in A!CountedStatuses
  <2>1. CASE r \in DOMAIN t.advances
    BY <1>5, <2>1, CommittedAdvance
  <2>2. CASE r \notin DOMAIN t.advances
    BY <1>1, <2>2, CommittedTables
  <2> QED
    BY <2>1, <2>2
<1>6. CASE \E x \in DOMAIN t.advances : /\ advances[x].status = "none"
                                        /\ e = t.job.by /\ m = t.job.month
  <2>1. PICK x \in DOMAIN t.advances : advances[x].status = "none" /\ e = t.job.by /\ m = t.job.month
    BY <1>6
  <2>2. DOMAIN t.advances = {x} /\ Stands(s, ask)
    BY <2>1, CommittedAdvance
  <2>3. Cardinality(old) < MaxPerMonth
    <3>1. A!Counted(t.job.by, t.job.month, [loans |-> loans, advances |-> advances]) = old
      BY <2>1 DEF A!Counted, Counting
    <3> QED
      BY <2>2, <3>1, SubmitLocks
  <2> HIDE DEF e, m
  <2>4. new \subseteq old \cup {x}
    BY <1>5, <2>2 DEF Counting
  <2> HIDE DEF old, new
  <2>5. IsFiniteSet(old) /\ IsFiniteSet(old \cup {x}) /\ Cardinality(old \cup {x}) <= Cardinality(old) + 1
        /\ Cardinality(old) \in Nat
    <3>1. IsFiniteSet(old) /\ Cardinality(old) \in Nat
      BY <1>2, <1>3
    <3>2. /\ IsFiniteSet(old \cup {x})
          /\ Cardinality(old \cup {x}) = Cardinality(old) \/ Cardinality(old \cup {x}) = Cardinality(old) + 1
      BY <3>1, FS_AddElement
    <3> QED
      BY <3>1, <3>2
  <2>6. Cardinality(new) <= Cardinality(old \cup {x}) /\ Cardinality(old \cup {x}) \in Nat /\ Cardinality(new) \in Nat
    BY <1>2, <1>3, <2>4, <2>5, FS_Subset, FS_CardinalityType
  <2> QED
    BY <1>1, <2>3, <2>5, <2>6 DEF new, e, m
<1>7. CASE ~\E x \in DOMAIN t.advances : /\ advances[x].status = "none"
                                         /\ e = t.job.by /\ m = t.job.month
  <2>1. ~(p \in DOMAIN t.advances /\ advances[p].status = "none")
    BY <1>7, CommittedAdvance
  <2>2. e = advances[p].emp /\ m = advances[p].month
    BY <1>5, <2>1
  <2>3. new \subseteq old
    <3> SUFFICES ASSUME NEW r \in new PROVE r \in old
      OBVIOUS
    <3>1. /\ r \in A!Advances /\ advances'[r].status \in A!CountedStatuses
          /\ advances'[r].emp = e /\ advances'[r].month = m
      BY DEF Counting
    <3>2. ~(r \in DOMAIN t.advances /\ advances[r].status = "none")
      BY <1>7, <3>1, CommittedAdvance
    <3> HIDE DEF e, m
    <3> QED
      BY <1>5, <3>1, <3>2 DEF Counting
  <2>4. Cardinality(old) <= MaxPerMonth
    BY <1>4, <2>2
  <2> HIDE DEF old, new
  <2>5. Cardinality(new) <= Cardinality(old) /\ Cardinality(old) \in Nat /\ Cardinality(new) \in Nat
    BY <1>2, <1>3, <2>3, FS_Subset
  <2> QED
    BY <1>1, <2>4, <2>5 DEF new, e, m
<1> QED
  BY <1>6, <1>7

LEMMA CommittedLimits ==
  ASSUME TransactionInv, NEW s \in Sessions, Commit(s)
  PROVE  SubmissionLimits'
<1> DEFINE t == tx[s]
<1>1. Tables /\ SubmissionLimits
  BY DEF TransactionInv
<1>2. ASSUME NEW r \in L!Loans, L!IsOpen(loans'[r])
      PROVE  \/ L!IsOpen(loans[r]) /\ loans'[r].emp = loans[r].emp
             \/ /\ loans'[r].emp = t.job.by
                /\ \A p \in L!Loans \ {r} : /\ loans'[p] = loans[p]
                                            /\ ~(loans[p].emp = t.job.by /\ L!IsOpen(loans[p]))
  <2>1. CASE r \notin DOMAIN t.loans
    BY <1>1, <1>2, <2>1, CommittedTables
  <2>2. CASE r \in DOMAIN t.loans /\ loans[r].status # "none"
    BY <1>2, <2>2, CommittedLoan
  <2>3. CASE r \in DOMAIN t.loans /\ loans[r].status = "none"
    <3>1. loans'[r].emp = t.job.by /\ DOMAIN t.loans = {r} /\ Stands(s, Stage("loan", "submit", 0))
      BY <2>3, CommittedLoan
    <3> QED
      BY <1>1, <3>1, CommittedTables, SubmitLocks
  <2> QED
    BY <2>1, <2>2, <2>3
<1>3. \A r, p \in L!Loans :
        r # p /\ L!IsOpen(loans'[r]) /\ L!IsOpen(loans'[p]) => loans'[r].emp # loans'[p].emp
  <2>1. \A r, p \in L!Loans :
          r # p /\ L!IsOpen(loans[r]) /\ L!IsOpen(loans[p]) => loans[r].emp # loans[p].emp
    BY <1>1 DEF SubmissionLimits
  <2> QED
    BY <1>2, <2>1
<1>4. ASSUME NEW r \in A!Advances, advances'[r].status \in A!UnpaidStatuses
      PROVE  \/ advances[r].status \in A!UnpaidStatuses /\ advances'[r].emp = advances[r].emp
             \/ /\ advances'[r].emp = t.job.by
                /\ \A p \in A!Advances \ {r} :
                     /\ advances'[p] = advances[p]
                     /\ ~(advances[p].emp = t.job.by /\ advances[p].status \in A!UnpaidStatuses)
  <2>1. CASE r \notin DOMAIN t.advances
    BY <1>1, <1>4, <2>1, CommittedTables
  <2>2. CASE r \in DOMAIN t.advances /\ advances[r].status # "none"
    BY <1>4, <2>2, CommittedAdvance
  <2>3. CASE r \in DOMAIN t.advances /\ advances[r].status = "none"
    <3>1. advances'[r].emp = t.job.by /\ DOMAIN t.advances = {r} /\ Stands(s, Stage("advance", "ask", 0))
      BY <2>3, CommittedAdvance
    <3> QED
      BY <1>1, <3>1, CommittedTables, SubmitLocks
  <2> QED
    BY <2>1, <2>2, <2>3
<1>5. \A r, p \in A!Advances :
        r # p /\ {advances'[r].status, advances'[p].status} \subseteq A!UnpaidStatuses
          => advances'[r].emp # advances'[p].emp
  <2>1. \A r, p \in A!Advances :
          r # p /\ {advances[r].status, advances[p].status} \subseteq A!UnpaidStatuses
            => advances[r].emp # advances[p].emp
    BY <1>1 DEF SubmissionLimits
  <2> QED
    BY <1>4, <2>1
<1>6. \A r \in A!Advances : Cardinality(Counting(advances', advances'[r].emp, advances'[r].month)) <= MaxPerMonth
  BY CommittedCounts
<1> QED
  BY <1>3, <1>5, <1>6 DEF SubmissionLimits, Counting

LEMMA Commits ==
  ASSUME TransactionInv, NEW s \in Sessions, Commit(s)
  PROVE  TransactionInv'
<1> DEFINE job == tx[s].job
<1>1. Tables /\ Locked /\ InOrder(s)
  BY DEF TransactionInv, Transactions
<1>2. job \in Jobs
  BY <1>1, DayJobs DEF Commit, InOrder, TypedTx
<1>3. /\ manager' = (IF job.do = "manager" THEN job.new ELSE manager)
      /\ working' = (IF job.do = "leave" THEN working \ {job.by} ELSE working)
      /\ UNCHANGED day
  BY DEF Commit
<1>4. working' \subseteq Employees /\ manager' \in Maybe(Employees)
  BY <1>1, <1>2, <1>3, JobTypes DEF Tables
<1>5. Locked' /\ tx' = [u \in Sessions |-> tx'[u]]
  BY <1>1, Released DEF Commit
<1>6. \A r \in L!Loans : GoodLoan(loans'[r])
  <2> SUFFICES ASSUME NEW r \in L!Loans PROVE GoodLoan(loans'[r])
    OBVIOUS
  <2>1. CASE r \in DOMAIN tx[s].loans
    BY <2>1, CommittedLoan
  <2>2. CASE r \notin DOMAIN tx[s].loans
    <3>1. GoodLoan(loans[r]) /\ loans'[r] = loans[r]
      BY <1>1, <2>2, CommittedTables DEF Tables
    <3> QED
      BY <3>1
  <2> QED
    BY <2>1, <2>2
<1>7. \A r \in A!Advances : GoodAdvance(advances'[r])
  <2> SUFFICES ASSUME NEW r \in A!Advances PROVE GoodAdvance(advances'[r])
    OBVIOUS
  <2>1. CASE r \in DOMAIN tx[s].advances
    BY <2>1, CommittedAdvance
  <2>2. CASE r \notin DOMAIN tx[s].advances
    <3>1. GoodAdvance(advances[r]) /\ advances'[r] = advances[r]
      BY <1>1, <2>2, CommittedTables DEF Tables
    <3> QED
      BY <3>1
  <2> QED
    BY <2>1, <2>2
<1>8. \A r \in L!Loans : GoodLoan(loans[r])'
  BY <1>6 DEF GoodLoan
<1>9. \A r \in A!Advances : GoodAdvance(advances[r])'
  BY <1>7 DEF GoodAdvance
<1>10. Tables'
  <2>1. Settings'
    BY CommittedSettings
  <2>2. loans' = [r \in L!Loans |-> loans'[r]] /\ advances' = [r \in A!Advances |-> advances'[r]]
    BY <1>1, CommittedTables
  <2> QED
    BY <1>1, <1>3, <1>4, <1>5, <1>8, <1>9, <2>1, <2>2 DEF Tables
<1> QED
  BY <1>5, <1>10, OthersAfterCommit, CommittedNumbers, CommittedLimits DEF TransactionInv

-----------------------------------------------------------------------------
(* The invariant is there at the start and after every step.               *)
LEMMA Starts ==
  ASSUME Init
  PROVE  TransactionInv
<1>1. /\ loans = [r \in L!Loans |-> L!NoRow] /\ advances = [r \in A!Advances |-> A!NoRow]
      /\ locks = {} /\ working = Employees /\ manager = FirstManager /\ day \in DOMAIN Days
      /\ settings = Over([lastSeq |-> 0], FirstSettings) /\ tx = [s \in Sessions |-> Idle]
  BY DEF Init
<1>2. GoodLoan(L!NoRow)
  BY DEF GoodLoan, L!Row, L!NoRow, L!Maybe
<1>3. GoodAdvance(A!NoRow)
  <2>1. A!NoRow.steps = <<"finance">> /\ A!NoRow.status = "none"
    BY DEF A!NoRow
  <2>2. A!NoRow \in A!Row
    <3>1. <<"finance">> \in Seq(Managing \cup {"finance"})
      OBVIOUS
    <3> QED
      BY <3>1, AdvanceShape DEF A!NoRow, AdvanceColumns, Maybe
  <2>3. <<"finance">> # <<>> /\ Len(<<"finance">>) = 1 /\ <<"finance">>[1] = "finance"
    OBVIOUS
  <2> QED
    BY <2>1, <2>2, <2>3 DEF GoodAdvance
<1>4. Settings
  <2>1. FirstSettings \in [SiteSteps -> Employees]
    BY TransactionsAssumption
  <2> QED
    BY <1>1, <2>1 DEF Settings, Over, SiteSteps
<1>5. Tables
  <2>1. FirstManager \in Maybe(Employees)
    BY TransactionsAssumption
  <2>2. \A r \in L!Loans : loans[r] = L!NoRow
    BY <1>1
  <2>3. \A r \in A!Advances : advances[r] = A!NoRow
    BY <1>1
  <2> QED
    BY <1>1, <1>2, <1>3, <1>4, <2>1, <2>2, <2>3 DEF Tables
<1>6. Locked
  BY <1>1 DEF Locked
<1>7. Transactions
  <2>1. \A s \in Sessions : tx[s] = Idle
    BY <1>1
  <2>2. \A s \in Sessions, u \in Sessions : Apart(s, u)
    BY <2>1 DEF Apart, Idle
  <2>3. ASSUME NEW s \in Sessions PROVE InOrder(s)
    <3>1. tx[s] = Idle
      BY <2>1
    <3>2. /\ Idle.taken = {} /\ Idle.todo = {} /\ DOMAIN Idle.loans = {} /\ DOMAIN Idle.advances = {}
      BY DEF Idle
    <3>3. TypedTx(Idle) /\ L!Joining(Idle.loans) = {}
      BY <3>2 DEF TypedTx, Idle, L!Joining
    <3> QED
      BY <3>1, <3>2, <3>3 DEF InOrder, Queueing
  <2> QED
    BY <2>2, <2>3 DEF Transactions
<1>8. \A r \in L!Loans : loans[r].seq = 0 /\ loans[r].status = "none"
  BY <1>1 DEF L!NoRow
<1>9. \A r \in A!Advances : advances[r].status = "none"
  BY <1>1 DEF A!NoRow
<1>10. Numbers
  <2>1. settings.lastSeq \in Nat
    BY <1>4 DEF Settings
  <2> QED
    BY <1>8, <2>1 DEF Numbers, NumbersDiffer
<1>11. SubmissionLimits
  <2>1. \A r \in L!Loans : ~L!IsOpen(loans[r])
    BY <1>8 DEF L!IsOpen, L!OpenStatuses
  <2>2. \A r \in A!Advances :
          advances[r].status \notin A!UnpaidStatuses /\ advances[r].status \notin A!CountedStatuses
    BY <1>9 DEF A!UnpaidStatuses, A!CountedStatuses
  <2>3. \A e, m : {p \in A!Advances : /\ advances[p].status \in A!CountedStatuses
                                      /\ advances[p].emp = e /\ advances[p].month = m} = {}
    BY <2>2
  <2>4. Cardinality({}) <= MaxPerMonth
    BY TransactionsAssumption, FS_EmptySet
  <2> QED
    BY <2>1, <2>2, <2>3, <2>4 DEF SubmissionLimits
<1> QED
  BY <1>5, <1>6, <1>7, <1>10, <1>11 DEF TransactionInv

LEMMA Stutters ==
  ASSUME TransactionInv, UNCHANGED vars
  PROVE  TransactionInv'
<1>1. UNCHANGED <<committed, day>> /\ UNCHANGED tx /\ UNCHANGED locks
  BY DEF vars, committed
<1>2. \A s, row, mode : Held(s, row, mode)' <=> Held(s, row, mode)
  BY <1>1 DEF Held
<1>3. Tables'
  BY <1>1 DEF TransactionInv, Tables, committed, Settings
<1>4. Locked'
  BY <1>1 DEF TransactionInv, Locked
<1>5. ASSUME NEW u \in Sessions PROVE InOrder(u)'
  BY <1>1, <1>2, OthersInOrder DEF TransactionInv, Transactions
<1>6. ASSUME NEW t \in Sessions, NEW u \in Sessions \ {t} PROVE Apart(t, u)'
  <2>1. Apart(t, u)
    BY DEF TransactionInv, Transactions
  <2> QED
    BY <1>1, <2>1 DEF Apart, committed
<1>7. Transactions'
  BY <1>5, <1>6 DEF Transactions
<1>8. Numbers' /\ SubmissionLimits'
  BY <1>1 DEF TransactionInv, Numbers, NumbersDiffer, SubmissionLimits, committed
<1> QED
  BY <1>3, <1>4, <1>7, <1>8 DEF TransactionInv

THEOREM Inductive == Spec => []TransactionInv
<1>1. Init => TransactionInv
  BY Starts
<1>2. TransactionInv /\ [Next]_vars => TransactionInv'
  <2> SUFFICES ASSUME TransactionInv, [Next]_vars PROVE TransactionInv'
    OBVIOUS
  <2>1. CASE UNCHANGED vars
    BY <2>1, Stutters
  <2>2. CASE Next
    <3>1. PICK s \in Sessions :
            \/ \E job \in Days[day] : Begin(s, job)
            \/ ReadLoan(s) \/ ReadAdvance(s) \/ Refuse(s)
            \/ Flush(s)
            \/ Commit(s)
            \/ DeadlockDetected(s)
      BY <2>2 DEF Next
    <3>2. CASE \E job \in Days[day] : Begin(s, job)
      BY <3>2, Begins
    <3>3. CASE ReadLoan(s)
      BY <3>3, LoanStage
    <3>4. CASE ReadAdvance(s)
      BY <3>4, AdvanceStage
    <3>5. CASE Refuse(s)
      BY <3>5, Refuses
    <3>6. CASE Flush(s)
      BY <3>6, Flushes
    <3>7. CASE Commit(s)
      BY <3>7, Commits
    <3>8. CASE DeadlockDetected(s)
      BY <3>8, RollsBack DEF DeadlockDetected
    <3> QED
      BY <3>1, <3>2, <3>3, <3>4, <3>5, <3>6, <3>7, <3>8
  <2> QED
    BY <2>1, <2>2
<1> QED
  BY <1>1, <1>2, PTL DEF Spec

-----------------------------------------------------------------------------
(* Rows, settings and transactions have their types, every lock belongs to *)
(* a transaction in progress, and conflicting locks on a row are never     *)
(* held together.                                                          *)
THEOREM TypeCorrect == Spec => []TypeOK
<1>1. TransactionInv => TypeOK
  <2> SUFFICES ASSUME TransactionInv PROVE TypeOK
    OBVIOUS
  <2>1. Tables /\ Locked /\ \A s \in Sessions : InOrder(s)
    BY DEF TransactionInv, Transactions
  <2>2. loans \in [L!Loans -> L!Row]
    BY <2>1 DEF Tables, GoodLoan
  <2>3. advances \in [A!Advances -> A!Row]
    BY <2>1 DEF Tables, GoodAdvance
  <2>4. \A s \in Sessions : tx[s] = Idle \/ tx[s].job \in Days[day]
    BY <2>1 DEF InOrder, TypedTx
  <2> QED
    BY <2>1, <2>2, <2>3, <2>4 DEF TypeOK, Tables, Settings, Locked
<1> QED
  BY <1>1, Inductive, PTL

(* Whatever calls come in together, also for different requests and from   *)
(* any number of workers, nobody has two open loans or two unpaid advances *)
(* or more advances in a month than the site allows: the lock on the row   *)
(* of the employee makes the submissions wait for each other.              *)
THEOREM LimitsHold == Spec => []SubmissionLimits
<1>1. TransactionInv => SubmissionLimits
  BY DEF TransactionInv
<1> QED
  BY <1>1, Inductive, PTL

(* Two loans never get the same queue number: it is drawn from the row of  *)
(* the settings, which stays locked until the commit.                      *)
THEOREM NumbersStayDifferent == Spec => []NumbersDiffer
<1>1. TransactionInv => NumbersDiffer
  BY DEF TransactionInv, Numbers
<1> QED
  BY <1>1, Inductive, PTL

(* What a handler found when it had its lock still allows the call when it *)
(* commits.  The limit of guarantees is the exception: no lock protects it. *)
LEMMA StillAllowed ==
  ASSUME TransactionInv, NEW s \in Sessions, Commit(s), NEW stage \in tx[s].taken,
         stage.do = "submit" => MaxGuarantees = 0
  PROVE  Allowed(tx[s].job, stage, Db(s, Idle))
<1> DEFINE t == tx[s]  job == t.job  db == Db(s, Idle)
<1>1. /\ Tables /\ InOrder(s) /\ t # Idle
      /\ \A u \in Sessions \ {s} : Apart(s, u)
  <2>1. t # Idle
    BY DEF Commit
  <2> QED
    BY <2>1 DEF TransactionInv, Transactions
<1>2. Stands(s, stage) /\ stage \in Range(Stages(job)) /\ job \in Jobs
  BY <1>1, DayJobs DEF InOrder, Ahead, TypedTx
<1>3. db.loans = loans /\ db.advances = advances
  <2>1. DOMAIN Idle.loans = {} /\ DOMAIN Idle.advances = {}
    BY DEF Idle
  <2>2. After(loans, Idle.loans) = loans /\ After(advances, Idle.advances) = advances
    BY <1>1, <2>1 DEF After, Tables
  <2> QED
    BY <2>2 DEF Db
<1>4. CASE stage.do \notin {"submit", "ask"}
  <2>1. Allowed(job, stage, [loans |-> loans, advances |-> advances])
    BY <1>2, <1>4 DEF Stands, Checked
  <2>2. L!Allowed(job, stage, [loans |-> loans, advances |-> advances]) => L!Allowed(job, stage, db)
    BY <1>3, <1>4 DEF L!Allowed, L!HasOpen
  <2>3. A!Allowed(job, stage, [loans |-> loans, advances |-> advances]) => A!Allowed(job, stage, db)
    BY <1>3, <1>4 DEF A!Allowed, A!HasOpen
  <2> QED
    BY <2>1, <2>2, <2>3 DEF Allowed
<1>5. CASE stage = Stage("loan", "submit", 0)
  <2>1. PICK r \in DOMAIN t.loans : loans[r].status = "none"
    BY <1>2, <1>5, SubmitLocks
  <2>2. r \in L!Loans /\ \A u \in Sessions \ {s} : r \notin DOMAIN tx[u].loans
    <3>1. r \in L!Loans
      BY <1>1 DEF InOrder, LoanWrite
    <3>2. \A u \in Sessions \ {s} : r \notin DOMAIN tx[u].loans
      BY <1>1, <2>1 DEF Apart
    <3> QED
      BY <3>1, <3>2
  <2>3. r \in db.freeLoans
    BY <1>1, <2>1, <2>2 DEF Db, FreeIn, Tables
  <2>4. ~L!HasOpen(job.by, db)
    BY <1>2, <1>3, <1>5, SubmitLocks DEF L!HasOpen
  <2> HIDE DEF db
  <2>5. stage.do = "submit" /\ stage.of = "loan"
    BY <1>5 DEF Stage
  <2>6. L!Allowed(job, stage, db)
    BY <2>3, <2>4, <2>5 DEF L!Allowed
  <2> QED
    BY <2>5, <2>6 DEF Allowed, db
<1>6. CASE stage = Stage("advance", "ask", 0)
  <2>1. PICK r \in DOMAIN t.advances : advances[r].status = "none"
    BY <1>2, <1>6, SubmitLocks
  <2>2. r \in A!Advances /\ \A u \in Sessions \ {s} : r \notin DOMAIN tx[u].advances
    <3>1. r \in A!Advances
      BY <1>1 DEF InOrder, AdvanceWrite
    <3>2. \A u \in Sessions \ {s} : r \notin DOMAIN tx[u].advances
      BY <1>1, <2>1 DEF Apart
    <3> QED
      BY <3>1, <3>2
  <2>3. r \in db.freeAdvances
    BY <1>1, <2>1, <2>2 DEF Db, FreeIn, Tables
  <2>4. ~A!HasOpen(job.by, db)
    BY <1>2, <1>3, <1>6, SubmitLocks DEF A!HasOpen
  <2>5. Cardinality(A!Counted(job.by, job.month, db)) < MaxPerMonth
    <3>1. A!Counted(job.by, job.month, [loans |-> loans, advances |-> advances]) = A!Counted(job.by, job.month, db)
      BY <1>3 DEF A!Counted
    <3> QED
      BY <1>2, <1>6, <3>1, SubmitLocks
  <2> HIDE DEF db
  <2>6. stage.do = "ask" /\ stage.of = "advance"
    BY <1>6 DEF Stage
  <2>7. A!Allowed(job, stage, db)
    BY <2>3, <2>4, <2>5, <2>6, SameCardinality DEF A!Allowed
  <2> QED
    BY <2>6, <2>7 DEF Allowed, db
<1> QED
  BY <1>2, <1>4, <1>5, <1>6, StageKinds DEF Stage, LoanCalls, Batches

(* No decision, payment or withdrawal is committed that the committed rows *)
(* do not allow any more: no approver decides about a stale row, be it the *)
(* only request of the call or one of a batch.                             *)
THEOREM DecisionsNotStale ==
  Spec => [][\A s \in Sessions : Commit(s) =>
               \A stage \in tx[s].taken :
                 stage.do # "submit" => Allowed(tx[s].job, stage, Db(s, Idle))]_vars
<1>1. TransactionInv /\ [Next]_vars =>
        [\A s \in Sessions : Commit(s) =>
           \A stage \in tx[s].taken :
             stage.do # "submit" => Allowed(tx[s].job, stage, Db(s, Idle))]_vars
  BY StillAllowed
<1> QED
  BY <1>1, Inductive, PTL DEF Spec

(* The same for every call, submissions included, where the type of the    *)
(* loan sets no limit of guarantees.                                       *)
THEOREM NothingStaleCommitted ==
  ASSUME MaxGuarantees = 0
  PROVE  Spec => AllowedAtCommit
<1>1. TransactionInv /\ [Next]_vars =>
        [\A s \in Sessions : Commit(s) =>
           \A stage \in tx[s].taken : Allowed(tx[s].job, stage, Db(s, Idle))]_vars
  BY StillAllowed
<1> QED
  BY <1>1, Inductive, PTL DEF Spec, AllowedAtCommit
==============================================================================
