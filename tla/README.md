# Formal models of the employee portal

TLA+ models of the portal's core logic, the TLC configurations that check them
on small instances, and proofs that TLAPS checks for every instance. Paths are
relative to the repository; `services/`, `core/`, `models/`, `sync_engine/` and
`api/` are under `backend/app/`.

## 1. What the system is

A portal for the employees of several sites: FastAPI workers (several uvicorn
processes) over one PostgreSQL database, a React frontend, and per site an
external attendance system ("Kara", SQL Server) from which employees, the chart
of managers and leave balances are read and into which leave requests are
written. Every worker also runs the scheduler; an advisory lock per job lets
one of them do it.

| Component | State | Operations | Hard behaviour | What makes it correct |
|---|---|---|---|---|
| **Loans** (`services/loan_service.py`, `core/loan_rules.py`, `models/loan.py`) | requests with path, position, approvers, guarantors, queue number, installments; versions of the rules; settings of a site with the queue counter | submit, cancel, replace a guarantor, guarantor's answer, approve, reject, pay, reject by finance, change of place, tick of an installment, settle, manual entry, payslips, settings, move approvers, employees left | people leave or lose access in the middle of a path; numbers by hand and from the counter; row locks of several workers and the sync; payslips uploaded twice | one open request per employee; steps decided in order, by somebody allowed to; nobody decides his own loan; a request is always on a desk where somebody can act if there is such a person; numbers never collide; settled exactly when all is paid |
| **Moving approvers** (`services/approver_reassign.py`) | none of its own | reassign requests to the approvers of today | runs in the middle of a path | past decisions stand; the requester never becomes his own approver |
| **Employee sync** (`sync_engine/`) | `employees.is_active`, mappings, log of runs | sync a site, deactivate, reactivate, cancel and move requests | partial failure in a savepoint, unlocked reads | a loan that was paid out is not touched; those who left are replaced |
| **Advances** (`services/advance_service.py`, `core/advance_rules.py`) | requests, settings, windows of days | submit, decide one or a batch, pay, cancel, move, export | batches that lock many rows, windows over the end of the month, monthly limits | one request per window and limit; no decision twice |
| **Leave, mission, forgotten punch** (`services/leave_request_service.py`, `services/kara_attendance_writeback.py`, `core/leave_request_rules.py`) | rows in Kara's database: requests (`WF_Requests`, `WF_MoveUp`), clockings, daily leave (`Mor_Mam`) | submit, decide, move up to HR, edit, delete, move approvers, write effects and take them back, apply later (job) | no transaction spans the steps; check and write are separate; Kara and the clocking devices change the same tables | nobody decides for himself; the effects in Kara are those of the approved requests; what waits for a clocking is applied when it comes |
| **Office automation letters** (`services/oa_*`) | letters with their version, recipients and attachments, approval steps in rounds, tasks, access rows, counters and issued numbers | save, path, submit, approve, return, withdraw, send, refer, complete, cancel, transfer tasks, discard | handlers that read without a lock meet handlers that lock; transfer against approval; several rounds | a letter leaves once, only when every step of its round approved; whose turn it is has the task and may read; numbers are never reused |
| **Verification codes, sessions, login security** (`services/otp_service.py`, `session_service.py`, `login_security_service.py`, `auth_service.py`) | codes, sessions, counters and tiers of lock-out | send, verify, log in, revoke | unlocked reads before inserts, cool-downs | number of attempts and sessions stays within its limit |
| **Backup and retry queue** (`services/backup_settings_service.py`, `backup_retry_queue.py`, `core/backup_dest_rules.py`) | a directory of archives and JSON descriptions | back up and send, enqueue, retry, discard, drop the oldest | crash between two file operations, stale list of entries, discarding without the lock | the disk does not fill; nothing older is tried where something newer was reported as delivered; a destination leaves the queue only for a reason, and in the end every one does |
| **Scheduler** (`core/scheduler.py`) | advisory locks, time of the last sync | tick of each job | several workers, lost connections, crash before the time is stored | a job runs in one worker at a time |
| **Evaluation** (`services/evaluation_*`, `core/evaluation_rules.py`) | structure (supervisors, shift leads, lists of managers), periods, assignments with their evaluations | generate and remove assignments, start, save, submit, reopen once, status of a period by hand and by its dates | no handler locks a row; a background task closes the period; the sync moves people between departments | an assignment says completed exactly when it was submitted; the last submission closes the period; who is locked out by an undone evaluation can do it; one evaluator per person |
| Insurance and family, notices and payroll, push, birthdays, feedback, mobile app | forms, files, subscriptions | CRUD, publishing, notification | file conversion, external services | validated rows |
| Sites, users, permissions, settings, error log, update | rows | CRUD, shell integration | - | - |
| Kara adapters | external | reads | Kara does not answer, caches | - |
| Frontend, migrations, installers | - | - | - | every call is checked again by the server |

How they meet: the **sync** deactivates employees and calls the loan and advance
services and the leave service in its own transaction; **loans** and
**advances** share `approver_reassign` and take the unit manager from the chain
of the **leave** component, which asks **Kara**; publishing **payroll** calls
`apply_payslips` of the loans; the **scheduler** runs the retry queue and the
job that applies waiting leave; **settings** of a site and the rules in force are
read by every handler. Services hold no state between calls: what components
share is rows of the database, rows of Kara, and files.

The hazards of this code, each with its line, are listed in `PROJECT.json`. They
are what the properties are for.

## 2. Modules

| Module | Models | Notes |
|---|---|---|
| `LoanSteps` | vocabulary of `core/loan_rules.py`: steps, statuses, paths, `effective_steps` as a relation, `plan_reassignment` | used by the three below |
| `Loan` | `loan_service.py` and `approver_reassign.py`, one action per handler, each an atomic transaction | the core |
| `LoanProperties` | the properties of `Loan` and the refinement mapping to `LoanLifecycle` | |
| `LoanLifecycle` | abstract specification: ask, queue, close, lend, repay, reopen | no approvers, numbers or installments |
| `LoanRules` | the pure functions of `loan_rules.py` computed as the code does: paths, months, installments, rows of payslips | |
| `AdvanceRules` | `advance_rules.py`: the window of days and the month a request counts for | checked with `LoanRules` |
| `EvaluationStructure` | the handlers of `evaluation_structure_service.py` and the sync that moves people | checked in `rules` |
| `EvaluationRules` | `evaluation_rules.py` with the reads of `get_evaluation_targets`: whom an evaluator evaluates | used by the one above |
| `RowLocks` | PostgreSQL's row locks and the flush of SQLAlchemy, as the handlers use them | used by the three below |
| `LoanRows`, `AdvanceRows` | what the handlers of `loan_service.py` and `advance_service.py` lock, check and write | operators only |
| `RequestTransactions` | these handlers and the sync as READ COMMITTED transactions: locks, reads, flush statement by statement, commit, deadlock | composes the two |
| `LoanProofs`, `LoanDecisionProofs` | theorems about `Loan` | what is open, numbered and paid, and the lifecycle; who decides what |
| `TransactionProofs` | theorems about `RequestTransactions` | |
| `LeaveProofs`, `OaProofs`, `BackupProofs` | theorems about the three below | |
| `RuleProofs` | theorems about `LoanRules`, `AdvanceRules` and `EvaluationStructure` | extends `MCLoanRules`, where their properties are |
| `LeaveRequest` | leave requests: one action per call to Kara, the other handlers, Kara and the devices in between | `LeaveProperties` has the properties |
| `OaLetter` | letters: one action per handler that locks, two for one that reads without a lock | `OaProperties` has the properties and the refinement mapping |
| `OaRegister` | abstract specification: secretariats that count, numbers that are void | implemented by `OaLetter` |
| `BackupQueue` | a backup, its queue and the retries: one action per file operation | `BackupProperties` has the properties |
| `Evaluation` | assignments, evaluations and status of one period: each handler reads, then commits | `EvaluationProperties` has the properties, `EvaluationProofs` a theorem |
| `MC*` | instances for TLC | |

### `Loan`: state and actions

| Variable | In the code |
|---|---|
| `active`, `enabled` | `employees.is_active` (the sync), `employees.is_enabled` (the administrator) |
| `karaUp` | whether Kara's database answers when the chain of managers is asked for |
| `settings` | the row of `loan_site_settings`; `lastSeq` is `last_queue_seq` |
| `policy` | the version of the rules that `current_policy` returns |
| `req[r]` | a row of `loan_requests` with its guarantors (`guar`) and installments (`inst`), and from its events who approved which step (`by`); `seq = 0` is `queue_seq IS NULL`; an installment is `"unpaid"`, `"manual"` or names the payslip that paid it (`paid_source`) |

| Action | Handler |
|---|---|
| `Submit`, `Cancel`, `ReplaceGuarantor` | `submit`, `cancel`, `replace_guarantor` |
| `GuaranteeDecide`, `Approve`, `Reject` | `guarantee_decide`, `approver_decide`; including `_advance`, `_enter_step`, `_usable_approver` |
| `FinancePay`, `FinanceReject`, `FinanceSetQueue`, `FinanceToggleInstallment`, `FinanceSettle`, `FinanceManual` | the handlers of the same names |
| `ApplyPayslips` | `apply_payslips`; which loans find a row on the slip (`matched`) is any set, `LoanRules` has the matching itself |
| `UpdateSiteSettings`, `ReassignApprovers` | `update_site_settings`, the endpoint `reassign-approvers` |
| `EmployeesLeft`, `EmployeeReturns` | `_reassign_loan_approvers` of the sync, with the limit above which nothing is cancelled (`MaxAutoCancel`) and the savepoint that may fail (`moved = FALSE`); the return of an employee |
| `SetEmployeeEnabled`, `ChangePolicy`, `KaraChanges` | the administrator's switch, `create_policy`/`update_policy` or a date of effect, the surroundings |

What is abstracted, and why nothing checked depends on it:

- Texts, pushes, events other than approvals, and serialization change no state
  that a guard reads.
- Months of service, amounts and their maximum only decide who may borrow or
  guarantee with a type: `Type[t].borrowers` and `.sponsors`.
- Loan types are shared by all versions of the rules and never deleted; the
  code deletes types that an edit of the rules does not list. A version of the
  rules is always in force.
- The active substitute of a manager is a constant, with `allow_kara_substitute`
  of the site in it (nobody has a substitute where it is off); the code reads the
  pair from Kara with a cache of 60 seconds, and the flag may be changed.
  Whether manager and substitute are active and enabled is asked at each
  decision, as `active_substitute_employees` does.
- Every employee of the model has a portal account, one of the three things the
  code asks of somebody who is to act; the other two are `active` and `enabled`.
- One site. The queue, its counter and the settings are per site; an employee's
  requests follow him only by his row.
- `effective_steps` is the relation `IsEffectivePath` here; run `rules` checks
  that the loop of the code computes exactly such a path.

### `RequestTransactions`

`tx[s]` is the transaction of a session. A call is done in stages (`rest`): the
code reads, checks and assigns, and the next query flushes what was assigned.
Most calls have one stage, a batch has one for each request in the order the
caller sent them, `update_settings` of the advances one for the settings and one for
the requests it moves, the sync one for the loans of somebody who left, one for
the advances and one for the advances that wait for that person.

| Action | In the code |
|---|---|
| `Begin` | the call comes in: `get_current_user` looks at `is_active`, the page that offers it was read before |
| `ReadLoan`, `ReadAdvance` | the first statement of a stage gets its lock; what is read, checked and assigned after it |
| `Refuse` | a guard fails: the call ends; in a batch the request is noted as failed, its lock is kept, and the next one has its turn |
| `Flush` | one statement of the flush (or one of its foreign key checks) gets its lock; a queue number is drawn by `UPDATE ... RETURNING`, which holds the settings row until the commit |
| `Commit` | the columns that differ from what was read are written over the row as it is by then, and the locks are released |
| `DeadlockDetected` | PostgreSQL ends one of the transactions that wait in a circle |

Locks are PostgreSQL's row locks `FOR UPDATE`, the one of an `UPDATE` that leaves
the key alone, and `KEY SHARE` of a foreign key check; their conflicts are
`Compatible`. Both `submit`s lock the employee row; an answer, a decision, a
payment and a cancellation lock the request; the settings handlers write the
settings row and then requests that they read without a lock; the sync writes
the employee row and then requests that it read without a lock.

What is left out, and why nothing checked depends on it:

- Of loans: one path for all requests (with guarantors, without a unit manager);
  rejections, which lock and write like a cancellation; of the finance unit only
  the payment; of the sync only the cancellation of the leaver's own requests
  (`Loan` has the moves it makes as well).
- Of advances: amounts, tiers and groups only decide who may ask; the window only
  decides when, and for which month (`AdvanceRules`), so the month comes with
  the call. The chain of managers is a list that is tried in turn (`Managers`).
  The substitutes are a constant as in `Loan`. That a substitute and his manager
  work here is asked when the request is read (`HasPeople`); `AllowedAtCommit` does
  not ask it again at the commit, since the code locks none of these rows.
- Foreign key checks of the settings rows: the approvers named there submit
  nothing in the instance.

### `LeaveRequest`

The requests of one employee, `Owner`. They live in Kara, and each call to it is
a transaction of its own that locks nothing for the next one. A handler is
therefore a sequence of actions: `job[w]` holds what worker `w` has read and the
call it makes next, and anything may happen before that call, also that the
handler stops there (`Stop`).

| Variable | In the code |
|---|---|
| `row[r]` | a row of `WF_Requests`: `final` is `IsFinalApproved`, `cur` is `CurEmpNo`, `by` is `ApprovalByManagerEmpNo`, `accept` is `AcceptCode`; `moved` says that `WF_MoveUp` has a row for it |
| `punch[t]`, `days[t]` | the clocking near a time with the leave mark on it, the rows of daily leave in `Mor_Mam` |
| `active`, `hr` | `employees.is_active`, the HR officer of the site |
| `pending` | rows the ten-minute job has read and not yet tried |

| Actions | Handler |
|---|---|
| `BeginSubmit`, `Insert` | `submit_request`, `_submit_forgotten_punches`: checks, then the insert |
| `BeginDecide`, then `MoveUp`, or `WriteDecision`, `ApplyDecision` or `ApplyFails` and `UndoDecision` | `decide_request` |
| `BeginDelete`, `BeginAdminDelete`, `Revert`, `DeleteDependentRows`, `DeleteRow` | `delete_request`, `admin_delete_request` |
| `BeginEdit`, `Revert`, `WriteEdit`, `Reread`, `ApplyEdit`, `ClearAcceptCode` | `admin_update_request` |
| `EmployeeLeaves`, `SetHrOfficer`, `ReassignStuck`, `Move`, `MoveFails`, `EndReassign` | `on_employees_left` in the sync, the endpoints `hr-officer` and `reassign-approvers`, `reassign_approvers`, `reassign_current_approver` |
| `SelectPending`, `ApplyPending`, `PendingFails` | `apply_pending_hourly_all`, `apply_pending_hourly` |
| `KaraCancels`, `DeviceWrites` | external, as the code expects them: Kara cancels an approved request and takes its effect back, a device writes a clocking |

Abstracted: exit permits have no effect on attendance; the texts of reviews,
balances and limits are left out; a time stands for the day and hour of a
request with its tolerance, and there is one clocking near it; an edit of dates
is an edit of what was asked. One submission of two forgotten punches is two
submissions here. The substitutes are all pairs that Kara, or the copy cached
for 60 seconds, may hold. Those who left do not come back. The sync changes
`is_active` at its commit, after the moves (`EndReassign`). The job looks 31 days
back, which no time of the model is.

### `OaLetter` and `OaRegister`

`submit`, `send`, `withdraw`, `cancel`, `refer`, `set_recipients` and `set_plan`
lock the letter first and are one action each. `save_draft`, `discard_draft`,
attachments, `complete_task` and `transfer` read without that lock, and `approve`
and `return_for_changes` read the step before they lock: each is a `Begin` and an
`End` action, and what `End` writes was made from the rows as `Begin` saw them
(SQLAlchemy writes the columns that changed since they were read, `Columns`).
After the lock `approve` looks at the step again (`InTurn`) and is atomic.

`letter[l]` is the letter with its current version, recipients (`to` and `cc`) and
attachments (`hash` is `content_hash`, `act` is `requires_action`: only then, and only
those in `to`, get a task when it is sent), `path[l][r]` the steps of round `r`; the steps of the next round are those
planned for a draft. `tasks[l]` are the tasks in the order of their numbers;
`access[l]` who has access and whether he may refer; `counter` and `issued` the
numbers. `OaRegister` says what a secretariat promises: it counts, a letter has
one number for good, a void number stays void.

Abstracted: everybody works, may use the automation and has a signature; no
letter is confidential; a stale `row_version` is a refusal; the year does not
change (a counter is one of a site and year); a referral to several people is
several referrals. `closed` is never written by the code and is not a state.
Transferring the open tasks of somebody moves his signature step too, as the
code means it.

### `BackupQueue`

A backup (`run_scheduled_backup`) or a round of retries (`retry_due`) holds the
advisory lock; `job` is where it is. `zip` and `meta` are the files of the
directory `pending`, `local` the archives outside it. Removing an entry is two
actions (`UnlinkZip`, `UnlinkMeta`), a description is replaced in one. `Discard`
and `Heal` take no lock. `Crash`, `NoteFails` and `EnqueueFails` are the faults: the
process dies, or a file operation is refused and the code catches it where it
does. An archive is its place in time, destinations are numbered in the order
they are tried, and whether the wait of an entry is over is a choice of the
round: the destinations of an entry failed together, so their waits end
together. A destination that is not enabled behaves like one that fails for good
(`FailsForGood`). `newest[k]` is the newest archive that `deliver_to` reported as delivered.
What lies at a destination is not in the model: `deliver_to` also raises after
an archive has arrived (it cannot be verified, the retention fails, one of several
e-mails is refused), and for the queue that is a failure like any other (`Fails`). A
crash inside `build_archive` is left out, with the `.part` and `.work-*` files that it
leaves on the disk, which no later backup removes: `DiskBounded` does not count them. Downloads, retention
at the destinations, `given_up` texts and `last_run_*` are left out. That the
connection with the lock is lost while the job goes on is not modelled.

### `Evaluation`

No handler of this component locks a row, so each that reads before it writes is
two actions, with its job in `job[w]` in between: what it has checked and is going
to write. Anything may happen there, also that the row it means is deleted, after
which the handler fails (`Without`).

| Variable | In the code |
|---|---|
| `row[k]` | the assignment of evaluator, target and form `k`: its status, the status of its evaluation (`eval`) and `was_edited` |
| `period` | status, `is_disabled` and `incomplete_closed` (`access`), and where today is between its dates (`phase`) |
| `due` | a background sync was scheduled by a submission and has not begun |
| `fresh` | history: a submission was committed since such a sync last began |

| Actions | Handler |
|---|---|
| `Start`; `BeginSubmit`, `EndSubmit`; `BeginReopen`, `EndReopen` | `start_evaluation`, `submit_evaluation`, `reopen_for_edit` |
| `Generate`, `Reconcile`, `RemovePending`, `Delete`, then `EndChange` | `generate_assignments`, `reconcile_target`, `remove_pending`, `delete_assignment` |
| `UpdateStatus`, `SetDisabled`, `UpdatePeriod` | `update_status`, `set_disabled`, `update_period` |
| `ListPeriods`, `RunSync`, `SyncAgain`, then `Count` and `WriteStatus` | `sync_automatic_statuses` as `list_periods`, the background task and `update_period` run it |

Abstracted: answers and scores (a submission may be refused for a missing answer
at any time, which is not to take the action); what structure and exemptions
amount to is any of `Structures` at each reading; evaluator and supervisor of a
shift lead do the same. One period: they share no row. The first flush of a
sync that activates a period locks its row from the count on; the model lets an
administrator write in between, which amounts to writing before. The task in the
background may fail, its error is only logged; that case is not in the model.

### `EvaluationStructure` and `EvaluationRules`

`EvaluationRules` has `resolve_evaluation_target_ids` with what is read for it.
`EvaluationStructure` has what it is computed from, as one record `structure`:
`dept` of each person, `supervisor` of each department, `leads` (pairs of a person
and a department), the lead of each person (`shift`), `managers` and their lists
(`managed`, pairs of a manager and a person). One action per handler of
`evaluation_structure_service.py`, with its refusals as guards; `RemoveManager` and
`RemoveShiftLead` take along what the foreign keys cascade to. `SyncDepartment` is
the sync of employees, which moves anybody at any time, out of all departments
too, and asks nothing of the structure. One site; the handlers are atomic here:
two administrators at once, of whom each checks before the other writes, are the
note of a hazard. What the routes do after an edit, `reconcile_target`, is
`Reconcile` of `Evaluation`. Titles, site checks and the user made for a person are left out.

### `AdvanceRules`

`InWindow` and `RequestMonth` on dates `[y, m, d]`. The comment at the head of
`advance_rules.py` (lines 11-12) still says that the month of a request is always
that of its day; `request_month` and its own comment have the window that goes
over the end of the month, and the model follows the code.

## 3. Runs

| Run | Question | Bounds |
|---|---|---|
| `approval` | Who decides, in which order, on whose desk is it, while people leave, return, lose access, settings change and Kara comes and goes? | one request, 4 people (requester, guarantor, lead, chief), two versions of the rules (the full path of five steps; a short one to which the guarantors are added), at most one person away at a time, HR is the lead or the chief, the site manager the requester or the chief; 670 176 states |
| `queue` | Is the bookkeeping of queue, guarantors and installments right, and does each request follow `LoanLifecycle`? | 2 requests, 3 people, 2 guarantors, numbers up to 2, up to 2 installments, 2 payslips (one names no month); 369 194 states |
| `rules` | Do the pure functions return what they are for? Is everybody evaluated by one person? | all stored paths up to 4 entries, all approvers among 3 people, amounts up to 9, up to 4 installments, payslips of up to 3 rows, all windows with days around a turn of the month and of the year, all structures of 3 people in 2 departments with up to 2 shift leads and 2 managers, reached by any sequence of edits and moves (people and departments symmetric); 314 820 states |
| `transactions` | Do the locks keep decisions off stale rows and limits kept, do two sessions never block for ever? | 2 sessions, 2 loans of two people who are each other's guarantors, 2 advances, 4 people, one advance per month, five days with the calls that come in together (`MCDays`); 87 495 states |
| `leave_desks` | Who may decide, on whose desk is a request, is a waiting one applied? | one request (hourly or forgotten), 4 people: the owner, who is also a substitute and may become HR officer, two managers above him, of whom one may leave, the HR officer; two workers, calls that fail, an administrator who reopens it; 905 866 states |
| `leave_effects` | Are the effects in Kara those of the approved requests? | two requests of one time, all three kinds, all edits, one handler at a time besides the job, Kara and the devices; 917 240 states |
| `oa_letter` | Whose turn is it, is no step skipped, are numbers in order? | one letter, 3 people (author, who is secretary of another; an approver and recipient), two rounds, 3 tasks, with and without a copy to another person and a required action, one request between its reads and its writes beside those that lock; 2 148 007 states |
| `backup_queue` | Is the disk bounded, is nothing older tried after something newer was delivered, why does a destination leave, does the queue empty? | 3 backups, a queue of 2, 2 destinations, 2 attempts, 1 fault; 592 542 states |
| `evaluation` | What does completed mean, can a lock be lifted, does the last submission close the period? | one period, two evaluators of one employee, one form, two structures (one without the first evaluator), two handlers in progress (one submits or administrates, the other reopens or syncs), all statuses, dates and edits of the period; 119 660 states |
| `twice` (finding) | May one person approve two steps? | as `approval`, Kara answers, and nobody has a substitute, leaves or is disabled |
| `sync_race` (finding) | May the sync cancel what is being paid out? | as `transactions`, two days, with the sync among the calls |
| `oa_content` (finding) | Do all approvers of a round approve the same content? | one letter without files, two texts, an author and two approvers, one round, two requests between their reads and their writes |

Why these bounds are enough for what is asked:

- *approval*: the properties speak about one request and the people on its path;
  requests meet only through the counter, the guarantor's load and the one-open
  rule, which `queue` covers with two. Four people are one for each part plus
  one who replaces; the requester may be named by the settings and be a
  substitute, the cases in which somebody could decide for himself. The lead and
  the chief form a chain of managers, and the unit's own approver is the
  guarantor, so that one person can have two parts.
- *queue*: two requests are needed for order, a third person to take a
  guarantor's place. The path has only guarantors, persons' steps change neither
  numbers nor installments.
- *rules*: the functions are loops with an accumulator of a few values; three
  rows bring every transition between them, a fourth path entry brings
  repetition after another step.
- *transactions*: two sessions give every two-party interleaving and deadlock,
  including two borrowers who guarantee each other, a counter drawn by two and
  batches in opposite orders. Which calls meet is split into days (loans; loans
  and the settings; batches of decisions and payments; requests that come back
  this month or the next; approvers who change while they decide): the state
  space is the sum of the days, not their product. Loans and advances share
  only rows of employees, which they lock and only the sync writes.

- *leave_desks*: the desk of a request depends on no other request. Two workers
  give every pair of handlers that overlap; a third only repeats them, since a
  call depends on the row and on what its own handler has read.
- *leave_effects*: two requests that want the same clocking, day or punch are
  the conflict; a third is in the place of one of the two.
- *oa_letter*: letters meet only at the counter, which a handler locks; two
  rounds are a round after a broken one; three tasks are the approvals of a round
  and a delivery, or an approval that was transferred. With one request between
  its reads and its writes a transfer overlaps `submit`, `withdraw`, `send` and the other
  handlers that lock, but no approval that has read its step: that pair is
  covered by the theorems alone, which are for any number of workers.
- *backup_queue*: three archives for a queue of two are the least that fill it;
  two destinations, that one is reached and the other is not; the cap of two
  attempts that a failure counts and the next one gives up. One fault may come
  anywhere, and the bound of `DiskBounded` names the number of faults.

- *evaluation*: the status of a row depends on no other row, and the period sees
  of the rows only whether one is pending; two are the least where a count can be
  too early. Two handlers in progress give every pair that meets on a row; which
  of them each may be is split (`MCTakes`), and both orders of each pair occur.

Deadlock is checked in `approval`, `queue` and `twice`. `rules` makes one call
and stops where it calls a function; in `transactions` and `sync_race` all requests may be paid or
cancelled, after which no page offers a call; a leave request may be deleted, a
letter discarded, the last backup made, a period over: the system really may stop there.

What the properties say, the hazard first:

- `DecisionsInOrder`, `DecisionsStand`: approvers are moved in the middle of a
  path; what was decided stays, and nothing reaches the queue undecided.
- `NoSelfDecision`: the requester is named in the settings, becomes somebody's
  substitute, or is the next in the chain of managers.
- `SettingsInForce`, `ArrivesAtUsable`, `LeaversReplaced`: three
  different places move requests to new approvers (settings, sync, arrival at a
  step); together they leave no request with somebody who cannot act while there
  is somebody who can. The last two are about a step: an approver who loses his
  access *later* is only replaced by the administrator's button.
- `OneOpenRequest`, `QueueNumbers`, `JoinsAtTheEnd`: two ways to enter a request,
  three ways to get a number. `JoinsAtTheEnd` is about requests that come by
  themselves; two requests may share a number that the finance unit gave twice,
  which the code allows.
- `SettledWhenAllPaid`, `OneTickPerSlip`: installments are ticked, unticked, paid
  by slips and settled at once in any order.
- `DistinctGuarantors`: a guarantor who declined is replaced.
- `ImplementsLifecycle`: no payment from anywhere but the queue, nothing closed
  opens again.
- `AllowedAtCommit`, `NumbersDiffer`: at the commit of a handler that locks, its
  guard still holds in the committed state, for each request of a batch.
- `SubmissionLimits`: one open request of a kind and one advance a month, with
  two submissions at once, batches and withdrawals in between.
- `EveryTransactionEnds`: under the fairness below every call returns.
- `PathsAsStored`, `InstallmentsAddUp`, `CompleteMonths`, `OneMonthPerWindow`,
  `LoansReadBack`, `RowsWellTaken`: loops with an accumulator, and edges of the
  calendar; each is compared with a definition that has no loop.
- `NoSelfDecision`, `StaysWithHr` (leave): the owner is a substitute, a manager of
  the chain or the HR officer; a request that was moved up must not come back
  by a move that was worked out before.
- `EffectsMatch`: every path of decide, edit, delete, cancel and apply later takes
  back exactly what it put. It is stated for behaviours in which no two handlers
  that write the outcome of one request overlap, none of them stops half-way and
  Kara does not cancel under one (`Undisturbed`): in those cases the code has no
  guard and the effects may differ, which the hazards say. Nor is it stated
  beyond the deletion of a clocking another request relies on (`ClockingLost`):
  `revert_forgotten_punch` deletes it without asking for the leave mark on it, and
  the leave stays at AcceptCode 0.
- `PendingApplied`: the job finds what waits, whatever edits and decisions do in
  the meantime.
- `PathInOrder`, `NothingSkipped`, `AssigneesMayRead`: approvals, withdrawals and
  transfers of tasks meet; there is always exactly one step whose turn it is,
  with its task, and nothing leaves with a step open. `AssigneesMayRead` leaves out
  discarded letters: a `discard_draft` that was read before the letter was sent and
  commits after it leaves its recipients open tasks on a letter that `_letter_for`
  finds for nobody (a hazard).
- `ImplementsRegister`: a letter is numbered once, also when it is withdrawn,
  discarded behind its sender's back, or cancelled.
- `DiskBounded`, `LeavesForAReason`, `NothingOlderSent`, `QueueDrains`: the queue is a
  directory that a crash may leave in any state. `NothingOlderSent` says that, as
  long as no process dies and no file operation is refused, nothing older is even
  tried at a destination for which a newer archive was reported as delivered. It
  says nothing of an archive that arrived and was reported as failed: an older one
  may follow it, and the code has nothing against that (a hazard).

- `CompletedMeans`: a reopened evaluation is a draft of a completed assignment;
  the lock of the portal, the reminders and the closing of the period go by the
  assignment, and it must not say completed of anything else.
- `LastSubmitCloses`: the sync of a submission counts in the background, beside
  other submissions, removals and edits of the period; no job comes back to it.
- `LockCanBeLifted`: the period closes while somebody works.
- `EvaluatedOnce`: three sources of evaluators, and people who were moved to
  another department after the structure was made. Somebody who leads a shift,
  or has a lead, in a department he was moved away from may have two evaluators
  (the code does not prevent it); everybody else has at most one, and is never
  lost to a department that has a supervisor.

The type invariants of `LeaveProperties`, `OaProperties` and `BackupProperties` are
proved (section 4) and are in no cfg, and so is the one of `RequestTransactions`.

Every property is accompanied by a mutant in `PROJECT.json`: an operator
commented `\* mutant` in the module, a plausible slip of the code for which TLC
finds the property violated.

### Fairness

`RequestTransactions`: `SF` of a stage and of `Flush`: PostgreSQL queues those
who wait for a row, so a row that becomes free again and again reaches each of
them. `WF(Commit)`: a handler that has all its locks goes on, it waits for nobody.
`WF(DeadlockDetected)`: the detector runs after `deadlock_timeout`. Nothing is
assumed of users or of the sync: nobody has to begin anything, and no decision
has to be taken. The people of the loan process owe the system no progress, so
`Loan` states no liveness, and neither does `OaLetter`.

`LeaveRequest`: `WF(SelectPending)` and `SF(ApplyPending(p))`. The job runs every ten
minutes in whichever worker gets its advisory lock, and goes through all rows it
has read; a row that Kara refuses is tried again in the next run, and Kara does
not refuse it for ever. Strong fairness is needed because a failed attempt takes
the row off the list of this run.

`Evaluation`: `WF(Finish)`, a handler past its reads ends; `SF` of `RunSync`, a task
that was scheduled begins unless its process stops, which is left out;
`WF(Start)` and `SF(BeginSubmit)`, an evaluator goes on trying what he is asked to
do, since the portal locks him out until he does. Strong fairness, because the
administration may disable the period, and a failed attempt is repeated.

`BackupQueue`: `WF(JobStep)`, sending ends, well or not (the destinations have
timeouts); `SF(BeginRetry)` and `SF(NextEntry(TRUE))`, the retry job runs every five
minutes, backups do not hold the lock each time it looks, and no wait is longer
than eight hours.

### Findings

1. `twice`: `docs/loans.md:75` and `core/loan_rules.py:80` say that one person
   approves only once. `effective_steps` ensures it at submission, but
   `plan_reassignment` leaves out only the requester. In the trace the lead approves
   as unit manager, the settings then name him HR approver, which moves the request's
   HR step to him, and he approves the same request again. Nobody has a substitute
   there, leaves or is disabled.
2. `sync_race`: `docs/loans.md:134` and the docstring of `on_employees_left` say
   that a loan under repayment is not touched when its borrower leaves. The
   requests to be cancelled are read without a lock; one that is paid out
   between the read and the write ends up cancelled. The advances do the same
  (`advance_service.py:513`; with the day `batches` alone TLC shows a paid advance
  cancelled).
3. `oa_content`: `docs/office-automation.md:275` and `oa_approval_service.py:11` say
   that the version is locked during approval. `save_draft` looks at the status
   without a lock; a save that was read before the submission commits after the
   first approval, and the second approver of the round approves another text than
   the first one. (The property compares the texts only: the stored hash may also
   differ in the recipients, which `save_draft` leaves out of it.)

## 4. Proofs

The theorems hold for all values of the constants that the assumptions allow: any
number of people, requests, letters, rounds, workers, archives, destinations,
any policy, chart, structure and bound. The number of faults, tasks or rounds is a
bound of the state space only for TLC.

| Theorem | Statement | Module |
|---|---|---|
| `TypeCorrect` | `Spec => []TypeOK` | `LoanProofs` |
| `OneOpenRequestHolds` | `Spec => []OneOpenRequest` | |
| `QueueNumbersHold` | `Spec => []QueueNumbers` | |
| `JoinsAtTheEndHolds` | `Spec => JoinsAtTheEnd` | |
| `SettledWhenAllPaidHolds` | `Spec => []SettledWhenAllPaid` | |
| `OneTickPerSlipHolds` | `Spec => []OneTickPerSlip` | |
| `LifecycleImplemented` | `Spec => ImplementsLifecycle` | |
| `DecisionsInOrderHolds` | `Spec => []DecisionsInOrder` | `LoanDecisionProofs` |
| `NoSelfDecisionHolds` | `Spec => []NoSelfDecision` | |
| `SettingsInForceHolds` | `Spec => []SettingsInForce` | |
| `DistinctGuarantorsHolds` | `Spec => []DistinctGuarantors` | |
| `DecisionsStandHolds` | `Spec => DecisionsStand` | |
| `ArrivesAtUsableHolds` | `Spec => ArrivesAtUsable` | |
| `LeaversReplacedHolds` | `Spec => LeaversReplaced` | |
| `Inductive` | `Spec => []TransactionInv` | `TransactionProofs` |
| `TypeCorrect` | `Spec => []TypeOK` | |
| `LimitsHold` | `Spec => []SubmissionLimits` | |
| `NumbersStayDifferent` | `Spec => []NumbersDiffer` | |
| `DecisionsNotStale` | `Spec =>` no stage but a submission commits against the committed rows | |
| `NothingStaleCommitted` | `Spec => AllowedAtCommit`, if `MaxGuarantees = 0` | |
| `TypeCorrect` | `Spec => []TypeOK` | `LeaveProofs` |
| `NoSelfDecisionHolds` | `Spec => []NoSelfDecision` | |
| `StaysWithHrHolds` | `Spec => []StaysWithHr`, if `Officers \cap Leavers = {}` | |
| `OrderlyKeeps` | `OrderlySpec => [](TypeOK /\ NoSelfDecision)` | |
| `EffectsMatchHolds` | `OrderlySpec => []EffectsMatch` | |
| `TypeCorrect` | `Spec => []TypeOK` | `OaProofs` |
| `PathInOrderHolds` | `Spec => []PathInOrder` | |
| `NothingSkippedHolds` | `Spec => []NothingSkipped` | |
| `AssigneesMayReadHolds` | `Spec => []AssigneesMayRead` | |
| `RegisterImplemented` | `Spec => ImplementsRegister` | |
| `NumbersWithoutGaps` | `Spec => [](Register!NumbersDiffer /\ Register!NoGaps)` | |
| `TypeCorrect` | `Spec => []TypeOK` | `BackupProofs` |
| `DiskBoundedHolds` | `Spec => []DiskBounded` | |
| `NothingOlderSentHolds` | `Spec => NothingOlderSent` | |
| `LeavesForAReasonHolds` | `Spec => LeavesForAReason` | |
| `CompletedMeansHolds` | `Spec => []CompletedMeans` | `EvaluationProofs` |
| `PathsAsStoredHolds` | `Spec => []PathsAsStored` | `RuleProofs` |
| `InstallmentsAddUpHolds` | `Spec => []InstallmentsAddUp` | |
| `CompleteMonthsHolds` | `Spec => []CompleteMonths` | |
| `OneMonthPerWindowHolds` | `Spec => []OneMonthPerWindow` | |
| `LoansReadBackHolds` | `Spec => []LoansReadBack` | |
| `RowsWellTakenHolds` | `Spec => []RowsWellTaken` | |
| `EvaluatedOnceHolds` | `StructureSpec => []EvaluatedOnce` | |

### Assumptions

TLC evaluates each of them in the runs that extend its module.

- `NoneAssumption`: `None` is no employee. `LoanAssumption`: bounds are natural
  numbers, policies hold paths that `normalize_steps` returns, payslip sources are
  not called "unpaid" or "manual".
- `TransactionsAssumption`: bounds are natural numbers, the path is one of `StepPaths`
  with guarantors and without a unit manager, and the calls of the days are calls that the handlers take:
  their people are employees, their requests requests of the tables, a batch
  names no request twice. Nothing is said of which calls come in together.
- `LeaveAssumption`: the owner is an employee, chains and officers are employees,
  an edit has the fields of the form, the requests are finitely many, and `None`
  is no employee and no source of a clocking.
- `LetterAssumption`: the employees are finitely many, plans and tasks have bounds.
  `RegisterAssumption`: `None` is no entry of the register.
- `BackupAssumption`: limits are positive, destinations and archives are numbered.
- `EvaluationAssumption`: `None` is no status and no task, the structures are pairs.
  `StructureAssumption`: `Nobody` is no person, department or pair.
- `MaxInstallmentsAssumption`, `BoundsAssumption`: a plan may have an installment, bounds are natural
  numbers. `NoneIsNoPath`, `NoneIsNoField`: NULL is no list of steps, no
  number and no name.

Two theorems have a hypothesis of their own. `NothingStaleCommitted` asks that the type of the
loan sets no limit of guarantees, as is the default of `guarantor_max_active`
(`models/loan.py:74`). With a limit it is false: two employees who name the same guarantor lock
different rows, and both count one guarantee too few (the hazard at
`loan_service.py:382`). `DecisionsNotStale` needs no hypothesis, because nothing but a
submission looks at the limit. `StaysWithHrHolds` asks that no HR officer
is among those who leave. A moved request
that an administrator has made one of another kind goes by the chain of managers when
the officer leaves, and is with a manager if it is made a forgotten punch again.
Run `leave_desks` has officers who stay, as the theorem.

### Loans: what is open, numbered and paid (`LoanProofs`)

`TypeOK` is not inductive: a handler reads the step *after* the
one that was decided, so the row stays typed only if there is one. The inductive
invariant `Typed` adds `idx < Len(steps)` for every row (`GoodRow`); it is kept
because every path ends with `finance` (`PathShape`) and only steps other than
`finance` are ever decided. Each handler has a lemma `...Effect` that says what
it can do to the rows, in the terms the invariants need: which phase each
request changes to, what becomes of its number and of its installments.
`StepEffect` collects them over `Next`, and the theorems of the module
each follow from it and `Typed`, without opening a handler again.
For `OneOpenRequest` the fact needed is that a request becomes open only from
nothing and only if its employee has no other; for `QueueNumbers` that a number
is never above the new counter and the counter never falls; for
`SettledWhenAllPaid` that a row's status is recomputed in the step that changes
its installments; for `OneTickPerSlip` that a slip marks an installment only of a
loan that has none with its mark. `JoinsAtTheEnd` needs one more fact, that a request in review has no
number (`NoNumberInReview`), so that the number it joins with is the counter's. The
refinement maps the rows a step touches to one `Ask`,
`Queue`, `Close`, `Lend`, `Repay` or `Reopen`; a step of employees who left may
close several requests and a payslip may settle several, which is why `Close`
and `Repay` take sets.

### Loans: who decides what (`LoanDecisionProofs`)

`DecisionsInOrder` is not inductive: that the next decision is the right one
depends on who is stored for the steps to come. `DecisionInv` says of each
request: decided steps have their decisions and the others none (`Walked`), the
status says where on its path it is (`At`), `cur` is the approver stored for the
current step (`OnDesk`), the requester is stored for no step, approved none and
guarantees none (`ByOthers`), guarantors differ (`Distinct`), and of a request in
review the settings name who is stored for what remains (`Named`). A lemma for each handler
shows `Sound(q, n)` for the rows it rewrites: the new row has these parts, it stands
by what was decided (`Stands`), and if it came to another step it came to somebody
usable (`Reached`). The three action properties are read off `Sound`.
The lemmas about `PlanReassignment` (it touches no step behind the current one and never
names the requester) serve all five places that reassign.

### Transactions (`TransactionProofs`)

A session works on what it has read, while others commit, so the invariant
`TransactionInv` says of every session in progress what of its reading still
holds. `Locked`: conflicting locks are never held together. `Stands`: of a stage
that went ahead, the first locks are held and what it checked still is true of the
committed rows; that a commit of another session cannot disturb it follows from
`Locked`, once it is known what that commit may write. That is `LoanWrite` and `AdvanceWrite`: whoever
writes a row has its lock or is going to wait for it in his flush (`Secured`); what he
writes was worked out under the lock, or else touches only the approvers still to decide
and the status, which it can set to cancelled only (`Unlocked`: the sync and the settings, which read
without a lock). Over whatever the row has become since, the columns give a good
row, keep owner and month, and open nothing that is closed (`LoanEffect`,
`AdvanceEffect`). So the finding of run `sync_race` is inside the invariant, not
excluded by it. `Ahead` says of the stages to come that what was written
up to now leaves alone the requests they look at, which is what lets a batch
check each request against the committed rows. `Apart`: two sessions never insert the same row.

`SubmissionLimits` follows because a submission is `Stands` for the employee's row,
which two submissions of one person never hold together, and no other commit opens
anything. For `NumbersDiffer`, `Queueing` says that a number drawn is the committed counter
plus one while the settings row is locked, and that a request joining the queue
without a number still has that statement before it. `AllowedAtCommit` is
`Stands` read at the commit (`StillAllowed`). TLC checked `TransactionInv` on the instance
of `transactions`, on all five days, before it was proved.

### Leave requests (`LeaveProofs`)

A handler writes what it worked out from an older row, so the invariant `LeaveInv` speaks
about jobs too (`GoodJob`): no job is about to send a request to its owner, moves up
go to an officer, planned moves go to an officer or away from somebody who leaves. From
that each call keeps `GoodRow`, whatever the row has become since it was read; no
conjunct relates a job to the present row, because no lock does. `StaysWithHr`
adds `HrInv`: a live request that was moved up is at an officer. A planned move that goes
to no officer takes it from a leaver, who by hypothesis is no officer, so it finds the
request elsewhere.

`EffectsMatch` speaks only of the moments between handlers, and an edit takes four calls to
get from one such moment to the next. `EffectsInv` holds after each call. A request
shows its effect (`Shows`) when its row says so and no handler is between taking the
effect off and the end of the edit or deletion (`Cleared`); `KaraFits(t)` compares days, mark
and clocking of a time with the requests that show one there. `JobsFit` says that what a
handler has read still is so: a decision finds the row undecided, an
effect is written for the row it was read from, an effect taken back was there. That
holds because of `~Overlap` alone, which `Alone` turns into one fact for all
the calls: a handler that writes a request is the only one, so no other job, row
or waiting entry of the scheduler is disturbed. `PendingFits` is what the
scheduler relies on, since it works with rows it read earlier: they are approved, hourly
and unchanged, cancelled at most. `EffectWritten` and `EffectTakenBack` do the arithmetic for the four
kinds of effect once; the second one is where `~ClockingLost` is needed. TLC checked
`EffectsInv` on the instance of `leave_effects` (917 240 states) and, with two handlers
at once, on one with fewer edits (474 816 states), before it was proved.

### Letters (`OaProofs`)

`OaInv` has four parts: the tables (`Tables`), each letter (`Good`), the jobs
(`JobFits`) and the register (`Counted`). `Standing` is the strengthening of
`PathInOrder` and `NothingSkipped`: it says for each status what the current
round looks like, in particular that a draft with a round behind it has a broken one, and
that a letter sent without approvals had nobody planned. `JobFits` is what survives between the
two halves of a handler without a lock: tasks keep their numbers and their origin,
rounds keep their length (`Kept`), hence a stale `complete` meets no approval and a stale
`transfer` no missing task. A transfer that meets an approval is the case that
needs care: the open task is the active step's, so both move or neither. `RegisterImplemented`
maps numbering a letter to `Register`, discarding or cancelling a numbered one to
`MakeVoid`; `NumbersWithoutGaps` shows in the abstract register, by the inductive `RegisterInv`, what
the letters inherit through the refinement.

### Backup queue (`BackupProofs`)

`BackupInv` has five parts. `Typed`; `Structure`, what each phase of a job has left to
do (the model's program counter); `Disk`, which counts archives outside
the queue, in the queue and in it without description against the limit and
the number of faults, with one more while a backup runs; `Reasons`, that what a job is
about to save takes a destination off only for a reason, and that descriptions read
earlier still are what the disk says, unless their entry is gone; `Ordered`, that
nobody waits for an archive older than the newest reported to have reached it, which holds only
while `faults = 0` and is stated so. For `Disk` the step to see is `drop`: of the entries
that are kept each has fewer than `MAX_QUEUED_ARCHIVES` newer ones, and a finite set all of whose members have
fewer than M above them has at most M members (`FewHaveFewAbove`). TLC checked
`BackupInv` on the instance of `backup_queue` before it was proved.

### Evaluation (`EvaluationProofs`, last section of `RuleProofs`)

For `CompletedMeans` the invariant adds that a reopening in progress means a row
that is completed (`ReopensCompleted`): it writes `was_edited` later, when the row
must still be completed. That holds because no handler takes completed back, and
because a removal ends the handlers whose rows it deletes (`Without`), so that a
row made anew in its place is not the one a reopening has read.

For `EvaluatedOnce` the invariant `StructureInv` says what the refusals of the
handlers are there for: a shift lead somebody is assigned to exists
(`RemoveShiftLead` takes the assignments along), nobody who has a lead of a
department is one himself there, nobody is on two lists or on his own. Nothing
of it mentions where people are, so the sync keeps it. `EvaluatorsAre` and
`SupervisedAre` unfold the rule once; the rest is a case split on why somebody
evaluates.

### Rules (`RuleProofs`)

A rule is a call and its result. The invariant `Called` (`Calls`) says that the
result is the function's, of an input as wide as a lemma can take it: a
path or a payslip of any length, any amounts and bounds, any first month. Each theorem
then is a lemma about the function.

The functions are loops with an accumulator, folds in the model, so what they return is
induction over the input. The library's induction theorems take the statement as an
operator, which the provers cannot instantiate, so `StepByStep` takes it as a set, the steps
for which it holds, and follows from `<` being well-founded on the naturals. With it
`LoopExists` shows that the function by which the community modules define a
fold exists, and each `...Loop` lemma says of one rule that
there is a function `f` of the positions, with `f[0]` the start, `f[n]` the result and `f[i]` the loop's
body applied to `f[i - 1]` and the element there. What a rule keeps up is then shown of `f` by `StepByStep`:

- *Paths*: `KeptIs` and `PassedIs` say what the loops have kept after each
  entry (its members, each once, in which order); `Joined` and `Preceded` add the
  steps that the code puts at the ends. `NormalizedTwice` is the second call
  changing nothing. `Effective` is `IsEffectivePath`, the relation on which `Loan` is
  built, for which `SkippedUnlessAsked` compares whom the loop has seen with who was asked before.
- *Installments*: `Scheduled` has the months of a schedule in a row over the turn of the year,
  `SumOfEqual` the sum of all but the last, and `Ceiling` the number of installments of
  a given amount. The rest is arithmetic.
- *Months*: `Anniversaries` counts the anniversaries for all dates; `WindowOpens`
  says when two days of the calendar count for one month, for every window, by the
  months they are in.
- *Payslips*: `ReadFirst` and `ReadNext` read the rows of one loan, `ColumnsRead` and
  `NamesRead` all of them, however many; `DeductedIs` counts off the loans of
  which something was kept back.
- *Rows*: `TakenIs` says which row each loan gets, the first that fits of those not
  taken. That no other way pays more is an exchange (`Exchanged`): a way that agrees with
  the code's for the loans before one can be changed to agree at that one too,
  and pays no fewer. `WellTaken` goes on loan by loan.

Two theorems stay with what the run has: `CompleteMonths` is about `Dates` and its twenty-four
months, where its lemma has all dates; `OneMonthPerWindow` is about the days of `Calendar`, four
months around a new year, one of them of 29 days.

### Only model-checked

- `AllowedAtCommit` for submissions of types with a limit of guarantees: it does not hold
  there (see above).
- Liveness under fairness: `EveryTransactionEnds`, `PendingApplied`, `QueueDrains`,
  `LockCanBeLifted`, `LastSubmitCloses`.
- The three properties of the findings, which the code violates.

Every invariant that a passing run checks is stated by a theorem.

A remark on form: `SelectSeq`, `SortSeq`, `FlattenSeq` and `@@` are recursive or unknown to the
provers. Where a proof needs them the model uses own operators by cases
(`Picked`, `InOrder`, `Written` of `OaLetter`, `Over` of `RowLocks`), or keeps a set whose members
have their turn instead of a list (`todo` of `RequestTransactions`), or writes the fold out
(`Deducted` of `LoanRules`, `Written` of `MCLoanRules`).

## 5. Plan

| Stage | Modules | Abstract specification, properties | Runs |
|---|---|---|---|
| done | `LoanSteps`, `Loan`, `LoanLifecycle`, `LoanRules`, `LoanProofs` | above | 4 |
| done | `RowLocks`, `LoanRows`, `AdvanceRows`, `RequestTransactions`, `LeaveRequest`, `OaLetter`, `OaRegister`, `BackupQueue`, `AdvanceRules`, `Evaluation`, `EvaluationStructure`, `EvaluationRules`, `EvaluationProofs` | above | 8 |
| done | `LoanDecisionProofs`, `OaProofs`, `LeaveProofs`, `BackupProofs`, `TransactionProofs`, `RuleProofs` | section 4 | - |
| next | `VerificationCode` and sessions | a code is used once; attempts within their limit | in place of a run above |

Order: loans came first because they are the largest state machine of the
portal with the most actors; leave requests next because their steps are not
atomic; then letters, which mix handlers that lock and handlers that do not, and
the backup queue for its crashes.

Not modelled, and why:

- *Amounts, tiers and groups of advances*: forms that are replaced as a whole and
  tables looked up at submission; no other handler depends on them.
- *Verification codes, sessions, login security, tokens*: counters and cool-downs
  in windows of the wall clock.
- *Insurance and family, notices, payroll, feedback, birthdays, mobile
  app*: forms and files over single rows; one person writes a row, and the
  lifecycles have two or three states. `apply_payslips` is in `Loan`.
- *Answers, scores, forms, exemptions and results of evaluations*: single rows and
  computations; what structure and exemptions amount to is a choice in `Evaluation`.
- *The other jobs of the scheduler*: they delete old rows or send reminders. The
  advisory locks are a premise of the models (one run at a time); that the
  connection holding one is lost while its job goes on is not modelled.
- *Kara and the adapters, reading of the sources in the sync*: external; what the
  services expect of Kara is modelled where they change it.
- Pushes, reports, imports and exports, authentication and permissions (only the
  flags a handler asks for), frontend, migrations, installers: no state that
  several actors change, or they only pass it on.

## 6. How to run

    tlc -workers 2 -config MCLoanApproval.cfg MCLoanApproval.tla
    tlapm LoanProofs.tla

and `tlapm` likewise for `LoanDecisionProofs`, `TransactionProofs`, `LeaveProofs`, `OaProofs`, `BackupProofs`,
`EvaluationProofs` and `RuleProofs`; the longest takes about ten minutes.

Each cfg belongs to the module named for its run in `PROJECT.json`:
`MCLoanTwice.cfg` to `MCLoanApproval`, `MCRequestSyncRace.cfg` to
`MCRequestTransactions`, `MCLeaveDesks.cfg` and `MCLeaveEffects.cfg` to
`MCLeaveRequest`, `MCOaContent.cfg` to `MCOaLetter`, the
others to the module of their name.
