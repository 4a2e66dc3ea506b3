--------------------------- MODULE EvaluationProofs ---------------------------
(***************************************************************************)
(* CompletedMeans for all evaluators, targets, forms, structures and       *)
(* workers.  It is not inductive: a reopening that is being made writes    *)
(* was_edited later, and the assignment must still be completed then.      *)
(***************************************************************************)
EXTENDS EvaluationProperties, TLAPS

Row == [status : {None, "pending", "completed"}, eval : {None, "draft", "submitted"},
        edited : BOOLEAN]

Task ==
  {Idle} \cup [do : {"submit", "reopen"}, key : Keys]
         \cup [do : {"change"}, add : SUBSET Keys, del : SUBSET Keys]
         \cup [do : {"sync"}] \cup [do : {"count"}, seen : Status]
         \cup [do : {"write"}, to : Status]

Period == [status : Status, phase : Phase, access : Access]

Typed == row \in [Keys -> Row] /\ period \in Period /\ job \in [Workers -> Task]

ReopensCompleted ==
  \A w \in Workers : job[w].do = "reopen" => row[job[w].key].status = "completed"

Inv == Typed /\ CompletedMeans /\ ReopensCompleted

(* What a task holds, by what it does.                                     *)
LEMMA TaskFields ==
  ASSUME NEW t \in Task
  PROVE  /\ t.do \in {"submit", "reopen"} => t.key \in Keys
         /\ t.do = "change" => t \in [do : {"change"}, add : SUBSET Keys, del : SUBSET Keys]
BY EvaluationAssumption DEF Task, Idle

(* What a sync reads and writes is a status.                               *)
LEMMA ReadTask == ASSUME Typed PROVE Read \in Task /\ Read.do \in {None, "count", "write"}
<1>1. period.status \in Status
  BY DEF Typed, Period
<1>2. ByDate \in Status
  BY <1>1 DEF ByDate, Status
<1> QED BY <1>1, <1>2 DEF Read, Task, Idle

LEMMA InitInv == Init => Inv
<1> SUFFICES ASSUME Init PROVE Inv
  OBVIOUS
<1>1. Typed
  BY EvaluationAssumption DEF Init, Typed, Row, NoRow, Task, Period, Status, Phase
<1>2. CompletedMeans
  BY EvaluationAssumption DEF Init, CompletedMeans, NoRow
<1>3. ReopensCompleted
  BY EvaluationAssumption DEF Init, ReopensCompleted, Idle
<1> QED BY <1>1, <1>2, <1>3 DEF Inv

(* A handler that reads gives a worker a task; the rows stay.  A task that *)
(* is a reopening begins on a submitted evaluation.                        *)
LEMMA BeginStep ==
  ASSUME Inv, NEW w \in Workers, NEW t \in Task, job' = [job EXCEPT ![w] = t],
         t.do = "reopen" => row[t.key].status = "completed",
         UNCHANGED row, period' \in Period
  PROVE  Inv'
<1>1. Typed'
  BY DEF Inv, Typed
<1>2. CompletedMeans'
  BY DEF Inv, CompletedMeans
<1>3. ReopensCompleted'
  BY DEF Inv, Typed, ReopensCompleted
<1> QED BY <1>1, <1>2, <1>3 DEF Inv

(* A handler that writes one row, and leaves it completed if it was, ends  *)
(* its task.                                                               *)
LEMMA RowStep ==
  ASSUME Inv, NEW k \in Keys, NEW r \in Row, row' = [row EXCEPT ![k] = r],
         r.status = "completed" <=> r.eval = "submitted" \/ r.edited,
         row[k].status = "completed" => r.status = "completed",
         period' \in Period, job' \in [Workers -> Task], \A v \in Workers : job'[v] \in {job[v], Idle}
  PROVE  Inv'
<1>1. Typed'
  BY DEF Inv, Typed
<1>2. CompletedMeans'
  BY DEF Inv, Typed, CompletedMeans
<1>3. ReopensCompleted'
  <2> SUFFICES ASSUME NEW v \in Workers, job'[v].do = "reopen"
               PROVE  row'[job'[v].key].status = "completed"
    BY DEF ReopensCompleted
  <2>1. job'[v] = job[v]
    BY EvaluationAssumption DEF Idle
  <2>2. row[job[v].key].status = "completed" /\ job[v].key \in Keys
    BY <2>1, TaskFields DEF Inv, Typed, ReopensCompleted
  <2> QED BY <2>1, <2>2 DEF Inv, Typed
<1> QED BY <1>1, <1>2, <1>3 DEF Inv

LEMMA StartStep == ASSUME Inv, NEW k \in Keys, Start(k) PROVE Inv'
<1> DEFINE r == [row[k] EXCEPT !.eval = "draft"]
<1>1. row[k] \in Row /\ row[k].eval = None
  BY DEF Inv, Typed, Start, Started
<1>2. r \in Row /\ r.status = row[k].status /\ r.edited = row[k].edited /\ r.eval = "draft"
  BY <1>1 DEF Row
<1>3. row' = [row EXCEPT ![k] = r] /\ UNCHANGED <<period, job>>
  BY DEF Start
<1>4. row[k].status = "completed" <=> row[k].edited
  BY <1>1, EvaluationAssumption DEF Inv, CompletedMeans
<1> HIDE DEF r
<1> QED BY <1>2, <1>3, <1>4, RowStep DEF Inv, Typed

LEMMA EndSubmitStep ==
  ASSUME Inv, NEW w \in Workers, NEW k \in Keys, EndSubmit(w, k) PROVE Inv'
<1> DEFINE r == [row[k] EXCEPT !.eval = "submitted", !.status = "completed"]
<1>1. r \in Row /\ r.status = "completed" /\ r.eval = "submitted"
  BY DEF Inv, Typed, Row
<1>2. row' = [row EXCEPT ![k] = r] /\ job' = [job EXCEPT ![w] = Idle] /\ UNCHANGED period
  BY DEF EndSubmit, Ends
<1> HIDE DEF r
<1> QED BY <1>1, <1>2, RowStep DEF Inv, Typed, Task

LEMMA EndReopenStep ==
  ASSUME Inv, NEW w \in Workers, NEW k \in Keys, EndReopen(w, k) PROVE Inv'
<1> DEFINE r == [row[k] EXCEPT !.eval = "draft", !.edited = TRUE]
<1>1. r \in Row /\ r.status = row[k].status /\ r.edited
  BY DEF Inv, Typed, Row
<1>2. row[k].status = "completed"
  BY DEF Inv, ReopensCompleted, EndReopen
<1>3. row' = [row EXCEPT ![k] = r] /\ job' = [job EXCEPT ![w] = Idle] /\ UNCHANGED period
  BY DEF EndReopen, Ends
<1> HIDE DEF r
<1> QED BY <1>1, <1>2, <1>3, RowStep DEF Inv, Typed, Task

(* The rows of a change that is made were not there or go; a reopening     *)
(* that stays at work has a row that is neither.                           *)
LEMMA EndChangeStep == ASSUME Inv, NEW w \in Workers, EndChange(w) PROVE Inv'
<1> DEFINE add == job[w].add
           del == job[w].del
<1>1. add \subseteq Keys /\ del \subseteq Keys /\ Idle \in Task
  BY TaskFields DEF Inv, Typed, EndChange, Task
<1>p. period' \in Period
  BY DEF EndChange, Inv, Typed
<1>2. CASE UNCHANGED row /\ Ends(w)
  BY <1>1, <1>p, <1>2, BeginStep, EvaluationAssumption DEF Ends, Idle
<1>3. CASE /\ ~\E k \in add : Exists(k)
           /\ row' = [k \in Keys |-> IF k \in add THEN New ELSE IF k \in del THEN NoRow ELSE row[k]]
           /\ job' = [Without(del) EXCEPT ![w] = Idle]
  <2>1. New \in Row /\ NoRow \in Row /\ New.eval = None /\ NoRow.eval = None
        /\ New.status = "pending" /\ NoRow.status = None /\ ~New.edited /\ ~NoRow.edited
    BY DEF Row, New, NoRow
  <2>2. \A v \in Workers : Without(del)[v] \in Task
    <3> SUFFICES ASSUME NEW v \in Workers PROVE Without(del)[v] \in Task
      OBVIOUS
    <3>1. job[v].do = "change" => [job[v] EXCEPT !.del = @ \ del] \in Task
      <4> SUFFICES ASSUME job[v].do = "change" PROVE [job[v] EXCEPT !.del = @ \ del] \in Task
        OBVIOUS
      <4>1. job[v] \in [do : {"change"}, add : SUBSET Keys, del : SUBSET Keys]
        BY TaskFields DEF Inv, Typed
      <4>2. [job[v] EXCEPT !.del = @ \ del] \in [do : {"change"}, add : SUBSET Keys, del : SUBSET Keys]
        BY <4>1
      <4> QED BY <4>2 DEF Task
    <3> QED BY <1>1, <3>1 DEF Without, Inv, Typed
  <2>3. Typed'
    BY <1>1, <1>p, <1>3, <2>1, <2>2 DEF Inv, Typed, Without
  <2>4. CompletedMeans'
    BY <1>3, <2>1, EvaluationAssumption DEF Inv, CompletedMeans
  <2>5. ReopensCompleted'
    <3> SUFFICES ASSUME NEW v \in Workers, job'[v].do = "reopen"
                 PROVE  row'[job'[v].key].status = "completed"
      BY DEF ReopensCompleted
    <3>1. v # w
      BY <1>3, EvaluationAssumption DEF Idle, Without
    <3>2. job'[v] = Without(del)[v]
      BY <1>3, <3>1 DEF Without
    <3>3. job'[v] = job[v] /\ job[v].key \notin del
      <4>1. CASE job[v].do = "change"
        <5>1. job[v] \in [do : {"change"}, add : SUBSET Keys, del : SUBSET Keys]
          BY <4>1, TaskFields DEF Inv, Typed
        <5>2. [job[v] EXCEPT !.del = @ \ del].do = "change"
          BY <5>1
        <5> QED BY <3>2, <4>1, <5>2 DEF Without
      <4>2. CASE job[v].do # "change"
        BY <3>2, <4>2, EvaluationAssumption DEF Without, Idle
      <4> QED BY <4>1, <4>2
    <3>4. row[job[v].key].status = "completed" /\ job[v].key \in Keys
      BY <3>3, TaskFields DEF Inv, Typed, ReopensCompleted
    <3>5. job[v].key \notin add
      BY <1>3, <3>4, <2>1, EvaluationAssumption DEF Exists
    <3> QED BY <1>3, <3>3, <3>4, <3>5
  <2> QED BY <2>3, <2>4, <2>5 DEF Inv
<1> QED BY <1>2, <1>3 DEF EndChange

LEMMA BeginInv == ASSUME Inv, NEW w \in Workers, Begin(w) PROVE Inv'
<1>1. ASSUME NEW k \in Keys, BeginSubmit(w, k) PROVE Inv'
  <2> DEFINE t == [do |-> "submit", key |-> k]
  <2>1. t \in Task /\ t.do # "reopen"
    BY DEF Task
  <2>2. job' = [job EXCEPT ![w] = t] /\ UNCHANGED <<row, period>>
    BY <1>1 DEF BeginSubmit, Begins
  <2> HIDE DEF t
  <2> QED BY <2>1, <2>2, BeginStep DEF Inv, Typed
<1>2. ASSUME NEW k \in Keys, BeginReopen(w, k) PROVE Inv'
  <2> DEFINE t == [do |-> "reopen", key |-> k]
  <2>1. t \in Task /\ t.key = k
    BY DEF Task
  <2>2. job' = [job EXCEPT ![w] = t] /\ UNCHANGED <<row, period>> /\ row[k].status = "completed"
    BY <1>2 DEF BeginReopen, Begins, Inv, CompletedMeans
  <2> HIDE DEF t
  <2> QED BY <2>1, <2>2, BeginStep DEF Inv, Typed
<1>3. ASSUME NEW add \in SUBSET Keys, NEW del \in SUBSET Keys, Reads(w, add, del) PROVE Inv'
  <2> DEFINE t == [do |-> "change", add |-> add, del |-> del]
  <2>1. t \in Task /\ t.do # "reopen"
    BY DEF Task
  <2>2. job' = [job EXCEPT ![w] = t] /\ UNCHANGED <<row, period>>
    BY <1>3 DEF Reads, Begins
  <2> HIDE DEF t
  <2> QED BY <2>1, <2>2, BeginStep DEF Inv, Typed
<1>4. ASSUME UpdatePeriod(w) PROVE Inv'
  <2> DEFINE t == [do |-> "sync"]
  <2>1. t \in Task /\ t.do # "reopen"
    BY DEF Task
  <2>2. job' = [job EXCEPT ![w] = t] /\ UNCHANGED row
    BY <1>4 DEF UpdatePeriod, Begins
  <2>3. period' \in Period
    BY <1>4 DEF UpdatePeriod, Inv, Typed, Period, Status
  <2> HIDE DEF t
  <2> QED BY <2>1, <2>2, <2>3, BeginStep
<1>5. ASSUME ListPeriods(w) \/ RunSync(w) PROVE Inv'
  <2>1. job' = [job EXCEPT ![w] = Read] /\ UNCHANGED <<row, period>>
    BY <1>5 DEF ListPeriods, RunSync, Begins
  <2> QED BY <2>1, ReadTask, BeginStep, EvaluationAssumption DEF Inv, Typed
<1>6. ASSUME NEW form \in Forms, NEW scope \in SUBSET Targets, NEW valid \in Structures,
             Generate(w, form, scope, valid)
      PROVE  Inv'
  <2> DEFINE Wanted(k) == k[3] = form /\ <<k[1], k[2]>> \in valid
             Begun(k)  == \E f \in Forms : Started(<<k[1], k[2], f>>)
             Scope     == {k \in Keys : k[2] \in scope}
             add == {k \in Scope : Wanted(k) /\ ~Exists(k) /\ ~Begun(k)}
             del == {k \in Scope : ~Wanted(k) /\ Exists(k) /\ ~Started(k)}
  <2>1. Reads(w, add, del)
    BY <1>6, Zenon DEF Generate
  <2>2. add \in SUBSET Keys /\ del \in SUBSET Keys
    OBVIOUS
  <2> HIDE DEF add, del
  <2> QED BY <2>1, <2>2, <1>3
<1>7. ASSUME NEW t \in Targets, NEW valid \in Structures, Reconcile(w, t, valid) PROVE Inv'
  <2> DEFINE Used == {f \in Forms : \E e \in Evaluators : Exists(<<e, t, f>>)}
             Its  == {k \in Keys : k[2] = t /\ k[3] \in Used}
             Wanted(k) == <<k[1], k[2]>> \in valid
             add == {k \in Its : Wanted(k) /\ ~Exists(k)}
             del == {k \in Its : ~Wanted(k) /\ Exists(k) /\ ~Started(k)}
  <2>1. Reads(w, add, del)
    BY <1>7, Zenon DEF Reconcile
  <2>2. add \in SUBSET Keys /\ del \in SUBSET Keys
    OBVIOUS
  <2> HIDE DEF add, del
  <2> QED BY <2>1, <2>2, <1>3
<1>8. ASSUME NEW e, NEW scope, RemovePending(w, e, scope) PROVE Inv'
  <2> DEFINE del == {k \in Keys : Pending(k) /\ (k[2] = e \/ (k[1] = e /\ scope = "full"))}
  <2>1. Reads(w, {}, del)
    BY <1>8, Zenon DEF RemovePending
  <2>2. del \in SUBSET Keys /\ {} \in SUBSET Keys
    OBVIOUS
  <2> HIDE DEF del
  <2> QED BY <2>1, <2>2, <1>3
<1>9. ASSUME NEW k \in Keys, Delete(w, k) PROVE Inv'
  BY <1>9, <1>3 DEF Delete
<1> QED BY <1>1, <1>2, <1>4, <1>5, <1>6, <1>7, <1>8, <1>9 DEF Begin

LEMMA FinishInv == ASSUME Inv, NEW w \in Workers, Finish(w) PROVE Inv'
<1>1. ASSUME NEW k \in Keys, EndSubmit(w, k) \/ EndReopen(w, k) PROVE Inv'
  BY <1>1, EndSubmitStep, EndReopenStep
<1>2. ASSUME EndChange(w) PROVE Inv'
  BY <1>2, EndChangeStep
<1>3. ASSUME SyncAgain(w) PROVE Inv'
  BY <1>3, ReadTask, BeginStep, EvaluationAssumption DEF SyncAgain, Inv, Typed
<1>4. ASSUME Count(w) PROVE Inv'
  <2> DEFINE t == IF AllDone THEN [do |-> "write", to |-> "closed"]
                  ELSE IF job[w].seen # "active" THEN [do |-> "write", to |-> "active"]
                  ELSE Idle
  <2>1. t \in Task /\ t.do # "reopen"
    BY EvaluationAssumption DEF Task, Idle, Status
  <2>2. job' = [job EXCEPT ![w] = t] /\ UNCHANGED <<row, period>>
    BY <1>4 DEF Count
  <2> HIDE DEF t
  <2> QED BY <2>1, <2>2, BeginStep DEF Inv, Typed
<1>5. ASSUME WriteStatus(w) PROVE Inv'
  <2>1. job[w].to \in Status
    BY <1>5, EvaluationAssumption DEF WriteStatus, Inv, Typed, Task, Idle
  <2>2. period' \in Period /\ UNCHANGED row /\ job' = [job EXCEPT ![w] = Idle]
    BY <1>5, <2>1 DEF WriteStatus, Ends, Inv, Typed, Period
  <2>3. Idle \in Task /\ Idle.do # "reopen"
    BY EvaluationAssumption DEF Task, Idle
  <2> QED BY <2>2, <2>3, BeginStep
<1> QED BY <1>1, <1>2, <1>3, <1>4, <1>5 DEF Finish

LEMMA NextInv == Inv /\ [Next]_vars => Inv'
<1> SUFFICES ASSUME Inv, [Next]_vars PROVE Inv'
  OBVIOUS
<1>1. ASSUME NEW w \in Workers, Begin(w) \/ Finish(w) PROVE Inv'
  BY <1>1, BeginInv, FinishInv
<1>2. ASSUME NEW k \in Keys, Start(k) PROVE Inv'
  BY <1>2, StartStep
<1>3. ASSUME TimePasses \/ UpdateStatus \/ SetDisabled PROVE Inv'
  <2>1. period' \in Period /\ UNCHANGED <<row, job>>
    BY <1>3 DEF TimePasses, UpdateStatus, SetDisabled, Inv, Typed, Period, Phase
  <2> QED BY <2>1 DEF Inv, Typed, CompletedMeans, ReopensCompleted
<1>4. ASSUME UNCHANGED vars PROVE Inv'
  BY <1>4 DEF vars, Inv, Typed, CompletedMeans, ReopensCompleted
<1> QED BY <1>1, <1>2, <1>3, <1>4 DEF Next

(* An assignment says completed exactly when its evaluation was submitted  *)
(* once, whatever is removed, started or reopened between the reads and    *)
(* the writes of a handler.                                                *)
THEOREM CompletedMeansHolds == Spec => []CompletedMeans
<1>1. Inv => CompletedMeans
  BY DEF Inv
<1> QED BY <1>1, InitInv, NextInv, PTL DEF Spec
===============================================================================
