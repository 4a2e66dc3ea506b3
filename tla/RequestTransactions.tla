------------------------- MODULE RequestTransactions -------------------------
(***************************************************************************)
(* Loans and advances together: their handlers and the employee sync as    *)
(* PostgreSQL transactions at READ COMMITTED: which rows they lock, what   *)
(* they read without a lock, what they write when, and who waits for whom. *)
(* A call is done in stages, each of which locks, reads, checks and        *)
(* flushes: a batch of decisions has one for each request, the sync one    *)
(* for the loans and two for the advances of somebody who left.            *)
(***************************************************************************)
EXTENDS LoanSteps, RowLocks, FiniteSets

CONSTANTS
  Sessions,       \* database sessions: web workers and the employee sync
  MaxLoans, MaxGuarantees, Path,                     \* of the loans
  MaxAdvances, MaxPerMonth, Managers, Substitutes,   \* of the advances
  FirstSettings,  \* [hr, site_manager] of the loans of the site at the start
  FirstManager,   \* site manager of the advances at the start
  Days            \* bound: on each day, the calls that come in together

L == INSTANCE LoanRows
A == INSTANCE AdvanceRows

LoanCalls == {"submit", "guarantee", "approve", "pay", "cancel", "settings"}
Batches   == {"decide", "finance", "pay_out"}

ASSUME TransactionsAssumption ==
  /\ {MaxLoans, MaxGuarantees, MaxAdvances, MaxPerMonth} \subseteq Nat
  /\ Path \in StepPaths /\ Path[1] = "guarantors" /\ "unit_manager" \notin Range(Path)
  /\ Managers \in [Employees -> Seq(Employees)]
  /\ Substitutes \subseteq Employees \X Employees
  /\ FirstSettings \in [SiteSteps -> Employees] /\ FirstManager \in Maybe(Employees)
  /\ \A job \in UNION Range(Days) :
       \/ job.do = "submit" /\ {job.by, job.guarantor} \subseteq Employees
       \/ job.do \in {"guarantee", "approve"} /\ job.by \in Employees /\ job.on \in L!Loans
       \/ job.do \in {"pay", "cancel"} /\ job.on \in L!Loans
       \/ job.do = "settings" /\ job.new \in [SiteSteps -> Employees]
       \/ job.do = "ask" /\ job.by \in Employees /\ job.month \in Nat
       \/ job.do \in Batches /\ job.on \in Seq(A!Advances) /\ IsInjective(job.on)
       \/ job.do = "withdraw" /\ job.on \in A!Advances
       \/ job.do = "manager" /\ job.new \in Maybe(Employees)
       \/ job.do = "move"
       \/ job.do = "leave" /\ job.by \in Employees

VARIABLES
  working,   \* employees.is_active, committed
  settings,  \* loan_site_settings, committed
  manager,   \* advance_settings.site_manager_employee_id, committed
  loans,     \* loan_requests with the guarantor, committed
  advances,  \* advance_requests, committed
  locks,     \* row locks held: [session, row, mode]
  tx,        \* what each session is doing
  day        \* which calls come in

vars == <<working, settings, manager, loans, advances, locks, tx, day>>
committed == <<working, settings, manager, loans, advances>>

(* rest: the stages to come; taken: those that went ahead; loans and       *)
(* advances: the columns to write; todo: locks of the flush still to be    *)
(* taken; number: the queue number that was drawn.                         *)
Idle == [job |-> [do |-> "none"], rest |-> <<>>, taken |-> {}, loans |-> <<>>, advances |-> <<>>,
         todo |-> {}, number |-> 0]

Init ==
  /\ working = Employees
  /\ settings = Over([lastSeq |-> 0], FirstSettings)
  /\ manager = FirstManager
  /\ loans = [r \in L!Loans |-> L!NoRow]
  /\ advances = [r \in A!Advances |-> A!NoRow]
  /\ locks = {}
  /\ tx = [s \in Sessions |-> Idle]
  /\ day \in DOMAIN Days

-----------------------------------------------------------------------------
(* What session s reads: the committed rows, and its own writes.           *)
FreeIn(table, others) == {r \in DOMAIN table : table[r].status = "none" /\ r \notin others}

Db(s, own) ==
  LET left   == IF tx[s].job.do = "leave" THEN {tx[s].job.by} ELSE {}
      others == {tx[t] : t \in Sessions \ {s}}
  IN  [working |-> working \ left, settings |-> settings, manager |-> manager,
       loans |-> After(loans, own.loans), advances |-> After(advances, own.advances),
       freeLoans |-> FreeIn(loans, UNION {DOMAIN t.loans : t \in others}),
       freeAdvances |-> FreeIn(advances, UNION {DOMAIN t.advances : t \in others})]

Stage(of, do, on) == [of |-> of, do |-> do, on |-> on]

Stages(job) ==
  CASE job.do \in LoanCalls  -> <<Stage("loan", job.do, 0)>>
    [] job.do \in Batches    -> [i \in DOMAIN job.on |-> Stage("advance", job.do, job.on[i])]
    [] job.do = "withdraw"   -> <<Stage("advance", job.do, job.on)>>
    [] job.do = "manager"    -> <<Stage("advance", "choose", 0), Stage("advance", "manager", 0)>>
    [] job.do = "leave"      -> <<Stage("loan", "leave", 0), Stage("advance", "leave", 0),
                                  Stage("advance", "replace", 0)>>
    [] OTHER                 -> <<Stage("advance", job.do, 0)>>

FirstLocks(job, stage) ==
  IF stage.of = "loan" THEN L!FirstLocks(job, stage) ELSE A!FirstLocks(job, stage)

Allowed(job, stage, db) ==
  IF stage.of = "loan" THEN L!Allowed(job, stage, db) ELSE A!Allowed(job, stage, db)

HasPeople(job, stage, db) == stage.of = "advance" => A!HasPeople(job, stage, db)

Wanted(s) ==
  CASE tx[s].todo # {} -> {NextDue(tx[s].todo)}
    [] tx[s].todo = {} /\ tx[s].rest # <<>> -> FirstLocks(tx[s].job, Head(tx[s].rest))
    [] OTHER -> {}

Blockers(s, lock) ==
  {l.session : l \in {k \in locks : /\ k.row = lock.row /\ k.session # s
                                    /\ ~Compatible(k.mode, lock.mode)}}

BlockedBy(s) == UNION {Blockers(s, l) : l \in Wanted(s)}

Take(s) ==
  locks' = locks \cup {[session |-> s, row |-> l.row, mode |-> l.mode] : l \in Wanted(s)}

-----------------------------------------------------------------------------
(* The page of an employee who works here offers the call.                 *)
Begin(s, job) ==
  /\ tx[s] = Idle
  /\ job.do \in {"submit", "guarantee", "approve", "leave", "ask", "decide"} => job.by \in working
  /\ LET db == [Db(s, Idle) EXCEPT !.working = working]
     IN  \E i \in DOMAIN Stages(job) : Allowed(job, Stages(job)[i], db)
  /\ tx' = [tx EXCEPT ![s].job = job, ![s].rest = Stages(job)]
  /\ UNCHANGED <<committed, locks, day>>

Ready(s) == tx[s].todo = {} /\ tx[s].rest # <<>> /\ BlockedBy(s) = {}

GoesAhead(s, db) ==
  /\ Allowed(tx[s].job, Head(tx[s].rest), db)
  /\ HasPeople(tx[s].job, Head(tx[s].rest), db)

Then(s, loanWrites, advanceWrites, todo) ==
  /\ tx' = [tx EXCEPT ![s].rest = Tail(@), ![s].taken = @ \cup {Head(tx[s].rest)},
                      ![s].loans = Over(loanWrites, @), ![s].advances = Over(advanceWrites, @),
                      ![s].todo = todo]
  /\ Take(s) /\ UNCHANGED <<committed, day>>

(* The first statement of a stage takes its lock, and the stage reads,     *)
(* checks and makes its writes.  (The quantifiers name one value each.)    *)
ReadLoan(s) ==
  /\ Ready(s) /\ Head(tx[s].rest).of = "loan"
  /\ \E db \in {Db(s, tx[s])} :
       /\ GoesAhead(s, db)
       /\ \E w \in {L!Writes(tx[s].job, Head(tx[s].rest), db)} :
            Then(s, w, <<>>, L!Locks(w))

ReadAdvance(s) ==
  /\ Ready(s) /\ Head(tx[s].rest).of = "advance"
  /\ \E db \in {Db(s, tx[s])} :
       /\ GoesAhead(s, db)
       /\ \E w \in {A!Writes(tx[s].job, Head(tx[s].rest), db)} :
            Then(s, <<>>, w, A!Locks(w))

\* mutant: the locks outlive the transaction
ReleaseNoLock(s) ==
  /\ locks' = locks
  /\ tx' = [tx EXCEPT ![s] = Idle]

Release(s) ==
  /\ locks' = {l \in locks : l.session # s}
  /\ tx' = [tx EXCEPT ![s] = Idle]

\* mutant: a request of a batch that is refused is tried again
RefuseAndRetry(s) ==
  /\ Ready(s) /\ \E db \in {Db(s, tx[s])} : ~GoesAhead(s, db)
  /\ IF tx[s].job.do \in Batches THEN tx' = tx /\ Take(s) ELSE Release(s)
  /\ UNCHANGED <<committed, day>>

(* A refusal ends the call; in a batch it is noted and the next request    *)
(* has its turn, while the lock of this one is kept.                       *)
Refuse(s) ==
  /\ Ready(s) /\ \E db \in {Db(s, tx[s])} : ~GoesAhead(s, db)
  /\ IF tx[s].job.do \in Batches
     THEN tx' = [tx EXCEPT ![s].rest = Tail(@)] /\ Take(s)
     ELSE Release(s)
  /\ UNCHANGED <<committed, day>>

(* The next statement of the flush gets its row; the one on the settings   *)
(* draws the queue number.                                                 *)
Flush(s) ==
  /\ tx[s].todo # {}
  /\ BlockedBy(s) = {}
  /\ Take(s)
  /\ tx' = [tx EXCEPT ![s].todo = @ \ {NextDue(@)},
                      ![s].number = IF NextDue(tx[s].todo).row = SettingsRow("loan")
                                    THEN settings.lastSeq + 1 ELSE @]
  /\ UNCHANGED <<committed, day>>

Commit(s) ==
  LET t       == tx[s]
      joining == L!Joining(t.loans)
  IN  /\ t # Idle /\ t.rest = <<>> /\ t.todo = {}
      /\ loans' = After(After(loans, t.loans), [r \in joining |-> [seq |-> t.number]])
      /\ advances' = After(advances, t.advances)
      /\ settings' = IF t.job.do = "settings" THEN Over(t.job.new, settings)
                     ELSE [settings EXCEPT !.lastSeq = IF joining = {} THEN @ ELSE t.number]
      /\ manager' = IF t.job.do = "manager" THEN t.job.new ELSE manager
      /\ working' = IF t.job.do = "leave" THEN working \ {t.job.by} ELSE working
      /\ Release(s) /\ UNCHANGED day

(* PostgreSQL ends one of the transactions that wait for each other.       *)
WaitsForItself(s) ==
  \E n \in 1..Cardinality(Sessions) :
    \E path \in [0..n -> Sessions] :
      /\ path[0] = s /\ path[n] = s
      /\ \A i \in 1..n : path[i] \in BlockedBy(path[i - 1])

DeadlockDetected(s) ==
  /\ WaitsForItself(s)
  /\ Release(s)
  /\ UNCHANGED <<committed, day>>

Next ==
  \E s \in Sessions :
    \/ \E job \in Days[day] : Begin(s, job)
    \/ ReadLoan(s) \/ ReadAdvance(s) \/ Refuse(s)
    \/ Flush(s)
    \/ Commit(s)
    \/ DeadlockDetected(s)

(* A waiting transaction gets a row that becomes free again and again (its *)
(* waiters are served in turn), a running one goes on, and the deadlock    *)
(* detector runs.  Nobody has to begin anything.                           *)
Fairness ==
  \A s \in Sessions :
    /\ SF_vars(ReadLoan(s) \/ ReadAdvance(s) \/ Refuse(s))
    /\ SF_vars(Flush(s))
    /\ WF_vars(Commit(s))
    /\ WF_vars(DeadlockDetected(s))

Spec == Init /\ [][Next]_vars /\ Fairness

-----------------------------------------------------------------------------
(* Types; locks belong to transactions in progress, and only those that    *)
(* conflict on no row hold them together.                                  *)
TypeOK ==
  /\ working \subseteq Employees
  /\ DOMAIN settings = SiteSteps \cup {"lastSeq"} /\ settings.lastSeq \in Nat
  /\ \A k \in SiteSteps : settings[k] \in Employees
  /\ manager \in Maybe(Employees)
  /\ loans \in [L!Loans -> L!Row]
  /\ advances \in [A!Advances -> A!Row]
  /\ \A s \in Sessions : tx[s] = Idle \/ tx[s].job \in Days[day]
  /\ \A l \in locks : l.session \in Sessions /\ tx[l.session] # Idle
  /\ \A k, l \in locks :
       k.row = l.row /\ k.session # l.session => Compatible(k.mode, l.mode)

(* Whatever comes in together, no employee ends up with two open requests  *)
(* of a kind, or with more advances in a month than the site allows.       *)
SubmissionLimits ==
  /\ \A r, s \in L!Loans :
       r # s /\ L!IsOpen(loans[r]) /\ L!IsOpen(loans[s]) => loans[r].emp # loans[s].emp
  /\ \A r, s \in A!Advances :
       r # s /\ {advances[r].status, advances[s].status} \subseteq A!UnpaidStatuses
         => advances[r].emp # advances[s].emp
  /\ \A r \in A!Advances :
       Cardinality({s \in A!Advances : /\ advances[s].status \in A!CountedStatuses
                                       /\ advances[s].emp = advances[r].emp
                                       /\ advances[s].month = advances[r].month}) <= MaxPerMonth

(* Two loans never get the same queue number.                              *)
NumbersDiffer ==
  \A r, s \in L!Loans : r # s /\ loans[r].seq > 0 => loans[r].seq # loans[s].seq

(* A handler that locks what it decides about commits only what it would   *)
(* still be allowed to do, for each request of a batch: no decision is     *)
(* taken on a stale row.  (Whether the people work here is not asked again *)
(* at the commit: HasPeople reads rows that nobody locks.)                 *)
AllowedAtCommit ==
  [][\A s \in Sessions : Commit(s) =>
       \A stage \in tx[s].taken : Allowed(tx[s].job, stage, Db(s, Idle))]_vars

(* What was paid out is not touched by the end of the borrower's           *)
(* employment or by anything else that was in progress.                    *)
PaidUntouched ==
  [][/\ \A r \in L!Loans : loans[r].status = "active" => loans'[r].status = "active"
     /\ \A r \in A!Advances : advances[r].status = "paid" => advances'[r].status = "paid"]_vars

(* Every transaction ends, also of batches that lock the same requests in  *)
(* opposite orders.                                                        *)
EveryTransactionEnds ==
  \A s \in Sessions : tx[s] # Idle ~> tx[s] = Idle
==============================================================================
