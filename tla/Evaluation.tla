----------------------------- MODULE Evaluation ------------------------------
(***************************************************************************)
(* The performance evaluation of one period: the assignments that are made *)
(* from the structure, the evaluations filled in for them, and the status  *)
(* of the period (services/evaluation_*_service.py).  No handler locks a   *)
(* row: it is a Begin action that reads and checks and an End action that  *)
(* commits, with its job in between, and anything may happen there.  A     *)
(* handler whose row is deleted under it fails and writes nothing.         *)
(* What the structure and the exemptions amount to (EvaluationRules) is    *)
(* any of Structures at each reading; answers and scores are left out, a   *)
(* submission may be refused for a required answer at any time.            *)
(***************************************************************************)
EXTENDS Naturals, FiniteSets

CONSTANTS
  None,
  Evaluators, Targets, Forms,
  Structures,   \* sets of pairs <<evaluator, target>> the structure may amount to
  Workers,      \* requests and background tasks past their first read
  Access,       \* bound: of "enabled", "disabled", "incomplete_closed"
  Takes(_)      \* bound: what each worker does, of "submit", "reopen", "admin", "sync"

Status == {"draft", "scheduled", "active", "closed", "archived"}
Phase  == {"before", "during", "after"}
Keys   == Evaluators \X Targets \X Forms

ASSUME EvaluationAssumption ==
  /\ None \notin {"draft", "submitted", "pending", "completed",
                  "submit", "reopen", "change", "count", "write"}
  /\ Structures \subseteq SUBSET (Evaluators \X Targets)
  /\ "enabled" \in Access /\ Access \subseteq {"enabled", "disabled", "incomplete_closed"}

VARIABLES
  row,      \* evaluation_assignments, each with its evaluation
  period,   \* evaluation_periods; of the dates, where today is
  due,      \* a background sync is scheduled and has not begun
  fresh,    \* history: a submission was committed since a scheduled sync last began
  job       \* what each worker has read and is going to write

vars == <<row, period, due, fresh, job>>

NoRow == [status |-> None, eval |-> None, edited |-> FALSE]
New   == [NoRow EXCEPT !.status = "pending"]
Idle  == [do |-> None]

Exists(k)  == row[k] # NoRow
Started(k) == row[k].eval # None
Pending(k) == row[k].status = "pending"

Enabled == period.access = "enabled"          \* _ensure_period_enabled
Open    == period.status \in {"draft", "scheduled", "active"}
Closed  == period.status \in {"closed", "archived"}

Init ==
  /\ row = [k \in Keys |-> NoRow]
  /\ period \in [status : {"draft"}, phase : Phase, access : {"enabled"}]
  /\ due = FALSE /\ fresh = FALSE
  /\ job = [w \in Workers |-> Idle]

Begins(w, part, j) ==
  /\ part \in Takes(w) /\ job[w] = Idle
  /\ job' = [job EXCEPT ![w] = j]

Ends(w) == job' = [job EXCEPT ![w] = Idle]

-----------------------------------------------------------------------------
(* The evaluator, or the supervisor of a shift lead in his place.  Only a  *)
(* reopening looks at the status of the period.                            *)

\* mutant: a closed period takes no evaluations any more
StartWhileOpen(k) ==
  /\ Exists(k) /\ ~Started(k) /\ Enabled /\ Open
  /\ row' = [row EXCEPT ![k].eval = "draft"]
  /\ UNCHANGED <<period, due, fresh, job>>

\* A start that loses its race (another start, a deletion) fails: one action.
Start(k) ==
  /\ Exists(k) /\ ~Started(k) /\ Enabled
  /\ row' = [row EXCEPT ![k].eval = "draft"]
  /\ UNCHANGED <<period, due, fresh, job>>

BeginSubmit(w, k) ==
  /\ row[k].eval = "draft" /\ Enabled
  /\ Begins(w, "submit", [do |-> "submit", key |-> k])
  /\ UNCHANGED <<row, period, due, fresh>>

EndSubmit(w, k) ==
  /\ job[w] = [do |-> "submit", key |-> k]
  /\ row' = [row EXCEPT ![k].eval = "submitted", ![k].status = "completed"]
  /\ due' = TRUE /\ fresh' = TRUE
  /\ Ends(w)
  /\ UNCHANGED period

\* Once for each evaluation, and as long as the period runs.
BeginReopen(w, k) ==
  /\ row[k].eval = "submitted" /\ ~row[k].edited /\ Enabled /\ ~Closed
  /\ Begins(w, "reopen", [do |-> "reopen", key |-> k])
  /\ UNCHANGED <<row, period, due, fresh>>

\* mutant: a reopened evaluation is to be done again
EndReopenPending(w, k) ==
  /\ job[w] = [do |-> "reopen", key |-> k]
  /\ row' = [row EXCEPT ![k].eval = "draft", ![k].edited = TRUE, ![k].status = "pending"]
  /\ Ends(w)
  /\ UNCHANGED <<period, due, fresh>>

EndReopen(w, k) ==
  /\ job[w] = [do |-> "reopen", key |-> k]
  /\ row' = [row EXCEPT ![k].eval = "draft", ![k].edited = TRUE]
  /\ Ends(w)
  /\ UNCHANGED <<period, due, fresh>>

-----------------------------------------------------------------------------
(* The administration makes and removes assignments from what it has read. *)
(* With an assignment its evaluation goes (ON DELETE CASCADE).             *)

Reads(w, add, del) ==
  /\ Begins(w, "admin", [do |-> "change", add |-> add, del |-> del])
  /\ UNCHANGED <<row, period, due, fresh>>

\* Pairs that are being evaluated with another form are left alone.
Generate(w, form, scope, valid) ==
  /\ period.access # "incomplete_closed"
  /\ LET Wanted(k) == k[3] = form /\ <<k[1], k[2]>> \in valid
         Begun(k)  == \E f \in Forms : Started(<<k[1], k[2], f>>)
         Scope     == {k \in Keys : k[2] \in scope}
     IN  Reads(w, {k \in Scope : Wanted(k) /\ ~Exists(k) /\ ~Begun(k)},
                  {k \in Scope : ~Wanted(k) /\ Exists(k) /\ ~Started(k)})

\* reconcile_target, with the forms with which the target is being evaluated.
Reconcile(w, t, valid) ==
  /\ Open /\ Enabled
  /\ LET Used == {f \in Forms : \E e \in Evaluators : Exists(<<e, t, f>>)}
         Its  == {k \in Keys : k[2] = t /\ k[3] \in Used}
         Wanted(k) == <<k[1], k[2]>> \in valid
     IN  /\ Used # {}
         /\ Reads(w, {k \in Its : Wanted(k) /\ ~Exists(k)},
                     {k \in Its : ~Wanted(k) /\ Exists(k) /\ ~Started(k)})

\* remove_pending, for an exempt employee; drafts go as well.
RemovePending(w, e, scope) ==
  /\ Open
  /\ Reads(w, {}, {k \in Keys : /\ Pending(k)
                                /\ \/ k[2] = e
                                   \/ k[1] = e /\ scope = "full"})

Delete(w, k) == Exists(k) /\ Reads(w, {}, {k})

\* The other jobs once the rows del are gone.
Without(del) ==
  [v \in Workers |->
     IF job[v].do \in {"submit", "reopen"} /\ job[v].key \in del THEN Idle
     ELSE IF job[v].do = "change" THEN [job[v] EXCEPT !.del = @ \ del]
     ELSE job[v]]

\* An assignment that somebody else has made meanwhile is a unique violation.
EndChange(w) ==
  /\ job[w].do = "change"
  /\ IF \E k \in job[w].add : Exists(k)
     THEN UNCHANGED row /\ Ends(w)
     ELSE /\ row' = [k \in Keys |-> IF k \in job[w].add THEN New
                                    ELSE IF k \in job[w].del THEN NoRow ELSE row[k]]
          /\ job' = [Without(job[w].del) EXCEPT ![w] = Idle]
  /\ UNCHANGED <<period, due, fresh>>

-----------------------------------------------------------------------------
(* The period.  sync_automatic_statuses is run by the listing of periods,  *)
(* after an edition, and in the background of each submission; nothing     *)
(* else looks at the dates.                                                *)

TimePasses ==
  /\ \/ period.phase = "before" /\ period' = [period EXCEPT !.phase = "during"]
     \/ period.phase = "during" /\ period' = [period EXCEPT !.phase = "after"]
  /\ UNCHANGED <<row, due, fresh, job>>

UpdateStatus ==
  /\ \E s \in Status : period' = [period EXCEPT !.status = s]
  /\ UNCHANGED <<row, due, fresh, job>>

SetDisabled ==
  /\ \E a \in Access : period' = [period EXCEPT !.access = a]
  /\ UNCHANGED <<row, due, fresh, job>>

\* A closed period is opened again when its end moves into the future.
UpdatePeriod(w) ==
  /\ period.status # "archived"
  /\ \E p \in Phase :
       period' = [period EXCEPT
         !.phase  = p,
         !.status = IF @ = "closed" /\ p = "before" THEN "scheduled"
                    ELSE IF @ = "closed" /\ p = "during" THEN "active" ELSE @]
  /\ Begins(w, "admin", [do |-> "sync"])
  /\ UNCHANGED <<row, due, fresh>>

\* What becomes of the status a sync reads, by the dates alone.
ByDate ==
  CASE period.status = "active" /\ period.phase = "before"                 -> "scheduled"
    [] period.status \in {"scheduled", "active"} /\ period.phase = "after" -> "closed"
    [] period.status = "scheduled" /\ period.phase = "during"              -> "active"
    [] OTHER                                                               -> period.status

\* mutant: only a period that begins is looked through
ReadBeginning ==
  IF ByDate = "active" /\ period.status = "scheduled" THEN [do |-> "count", seen |-> "scheduled"]
  ELSE IF ByDate # period.status THEN [do |-> "write", to |-> ByDate]
  ELSE Idle

Read ==
  IF ByDate = "active" THEN [do |-> "count", seen |-> period.status]
  ELSE IF ByDate # period.status THEN [do |-> "write", to |-> ByDate]
  ELSE Idle

SyncAgain(w) ==
  /\ job[w].do = "sync" /\ job' = [job EXCEPT ![w] = Read]
  /\ UNCHANGED <<row, period, due, fresh>>

ListPeriods(w) ==
  /\ Begins(w, "sync", Read)
  /\ UNCHANGED <<row, period, due, fresh>>

RunSync(w) ==
  /\ due /\ due' = FALSE /\ fresh' = FALSE
  /\ Begins(w, "sync", Read)
  /\ UNCHANGED <<row, period>>

AllDone == (\E k \in Keys : Exists(k)) /\ \A k \in Keys : ~Pending(k)

Count(w) ==
  /\ job[w].do = "count"
  /\ job' = [job EXCEPT ![w] =
       IF AllDone THEN [do |-> "write", to |-> "closed"]
       ELSE IF job[w].seen # "active" THEN [do |-> "write", to |-> "active"]
       ELSE Idle]
  /\ UNCHANGED <<row, period, due, fresh>>

\* Whatever the status is by now.
WriteStatus(w) ==
  /\ job[w].do = "write"
  /\ period' = [period EXCEPT !.status = job[w].to]
  /\ Ends(w)
  /\ UNCHANGED <<row, due, fresh>>

-----------------------------------------------------------------------------
Begin(w) ==
  \/ \E k \in Keys : BeginSubmit(w, k) \/ BeginReopen(w, k) \/ Delete(w, k)
  \/ \E f \in Forms, s \in SUBSET Targets, v \in Structures : Generate(w, f, s, v)
  \/ \E t \in Targets, v \in Structures : Reconcile(w, t, v)
  \/ \E e \in Evaluators \cup Targets, s \in {"target_only", "full"} : RemovePending(w, e, s)
  \/ UpdatePeriod(w) \/ ListPeriods(w) \/ RunSync(w)

Finish(w) ==
  \/ \E k \in Keys : EndSubmit(w, k) \/ EndReopen(w, k)
  \/ EndChange(w) \/ SyncAgain(w) \/ Count(w) \/ WriteStatus(w)

Next ==
  \/ \E w \in Workers : Begin(w) \/ Finish(w)
  \/ \E k \in Keys : Start(k)
  \/ TimePasses \/ UpdateStatus \/ SetDisabled

(* A request that has begun ends, a scheduled task begins, and an          *)
(* evaluator goes on trying to do what he is asked to.                     *)
Fairness ==
  /\ \A w \in Workers : WF_vars(Finish(w))
  /\ SF_vars(\E w \in Workers : RunSync(w))
  /\ \A k \in Keys : WF_vars(Start(k)) /\ SF_vars(\E w \in Workers : BeginSubmit(w, k))

Spec == Init /\ [][Next]_vars /\ Fairness
==============================================================================
