------------------------------- MODULE OaLetter -------------------------------
(***************************************************************************)
(* Internal letters of the office automation (services/oa_*.py): drafts,   *)
(* the approval path of a round, dispatch with an official number, and the *)
(* tasks on a letter.  A handler that locks the letter row first is one    *)
(* action; one that reads without a lock is a Begin and an End action with *)
(* its job in between, and End writes what Begin made of the rows it read. *)
(* Everybody here is working, has the automation permission and an active  *)
(* signature; letters are not confidential.  A stale row_version is a      *)
(* refusal, so the callers here send the one that is stored.               *)
(***************************************************************************)
EXTENDS Integers, Sequences, FiniteSets, SequencesExt

CONSTANTS
  Employees, None,
  Letters,
  Author,       \* the employee who creates each letter
  Secretaries,  \* pairs <<principal, secretary>>
  SiteOf,       \* site of each employee
  Texts,        \* subject and body of a letter, once it has them
  Files,        \* attachments
  Lists,        \* lists of recipients: [to, cc], sets of employees
  Plans,        \* approval paths a user may draw up: sequences of employees
  Workers,      \* web requests that are past their unlocked reads
  MaxRounds,    \* bound: rounds of approval of a letter
  MaxTasks      \* bound: tasks on a letter

Maybe(S) == S \cup {None}
Sites    == {SiteOf[e] : e \in Employees}
Rounds   == 1..(MaxRounds + 1)

ASSUME LetterAssumption ==
  /\ None \notin Employees \cup Texts
  /\ Author \in [Letters -> Employees]
  /\ Secretaries \subseteq Employees \X Employees
  /\ DOMAIN SiteOf = Employees
  /\ Lists \subseteq [to : SUBSET Employees, cc : SUBSET Employees]
  /\ \A list \in Lists : list.to \cap list.cc = {}
  /\ \A p \in Plans : p \in Seq(Employees) /\ IsInjective(p)
  /\ MaxRounds \in Nat /\ MaxTasks \in Nat
  /\ IsFiniteSet(Employees)

VARIABLES
  letter,   \* oa_letters with the current version, its attachments and recipients
  path,     \* oa_approval_steps of each letter and round
  tasks,    \* oa_tasks of each letter
  access,   \* oa_letter_access: <<employee, can_refer>> of each letter
  counter,  \* oa_number_counters of each site
  issued,   \* oa_issued_numbers
  job       \* what each worker has read and is going to write

vars == <<letter, path, tasks, access, counter, issued, job>>

StepStatuses == {"planned", "pending", "active", "approved", "returned", "cancelled"}
TaskStatuses == {"open", "done", "cancelled", "reassigned"}
SentStatuses == {"dispatched"}                \* "closed" is never written
TaskLetterStatuses == {"dispatched", "in_approval"}

Content == [text : Maybe(Texts), to : SUBSET Employees, cc : SUBSET Employees,
            files : SUBSET Files]

(* act: requires_action, the recipients have to do something about it.     *)
Letter == [status : {"none", "draft", "in_approval", "dispatched", "cancelled", "discarded"},
           text : Maybe(Texts), files : SUBSET Files, to : SUBSET Employees,
           cc : SUBSET Employees, act : BOOLEAN, hash : Content,
           principal : Maybe(Employees), round : 0..MaxRounds,
           number : Nat, book : Maybe(Sites)]

Step == [who : Employees, required : BOOLEAN, status : StepStatuses, task : 0..MaxTasks,
         hash : Content \cup {None}, by : Maybe(Employees)]

Task == [origin : {"approval", "delivery", "referral"}, who : Employees, status : TaskStatuses]

ContentOf(q) == [text |-> q.text, to |-> q.to, cc |-> q.cc, files |-> q.files]
TextOnly(t)  == [text |-> t, to |-> {}, cc |-> {}, files |-> {}]

NoLetter == [status |-> "none", text |-> None, files |-> {}, to |-> {}, cc |-> {}, act |-> FALSE,
             hash |-> TextOnly(None), principal |-> None, round |-> 0, number |-> 0,
             book |-> None]

Idle == [do |-> "idle"]

Init ==
  /\ letter = [l \in Letters |-> NoLetter]
  /\ path = [l \in Letters |-> [r \in Rounds |-> <<>>]]
  /\ tasks = [l \in Letters |-> <<>>]
  /\ access = [l \in Letters |-> {}]
  /\ counter = [s \in Sites |-> 0]
  /\ issued = {}
  /\ job = [w \in Workers |-> Idle]

-----------------------------------------------------------------------------
(* A finite set of numbers in ascending order, and what a sequence has at  *)
(* those places.  The provers know neither SelectSeq nor SortSeq.          *)
Rank(S, x)    == Cardinality({y \in S : y <= x})
InOrder(S)    == [n \in 1..Cardinality(S) |-> CHOOSE x \in S : Rank(S, x) = n]
Picked(s, ks) == [n \in 1..Cardinality(ks) |-> s[InOrder(ks)[n]]]

IsDraft(l)   == letter[l].status = "draft"
IsSent(l)    == letter[l].status \in SentStatuses
Sender(l)    == IF letter[l].principal = None THEN Author[l] ELSE letter[l].principal
Planned(l)   == path[l][letter[l].round + 1]
Steps(l)     == path[l][letter[l].round]
Referrers(l) == {a[1] : a \in {b \in access[l] : b[2]}}
OpenTasks(l) == {i \in DOMAIN tasks[l] : tasks[l][i].status = "open"}
Assigned(l)  == {tasks[l][i].who : i \in OpenTasks(l)}

(* _letter_for: a discarded letter is not found, whoever has access to it. *)
Readers(l) == IF letter[l].status = "discarded" THEN {} ELSE {a[1] : a \in access[l]}

(* The content can leave: _validate_for_send, for its author.              *)
Sendable(l) ==
  /\ letter[l].principal # None => <<letter[l].principal, Author[l]>> \in Secretaries
  /\ letter[l].text # None
  /\ letter[l].to # {} /\ Sender(l) \notin letter[l].to \cup letter[l].cc

NewTask(origin, e) == [origin |-> origin, who |-> e, status |-> "open"]
NewStep(e, required, status) ==
  [who |-> e, required |-> required, status |-> status, task |-> 0, hash |-> None, by |-> None]

(* Step k of the round p becomes active as task i.                         *)
Activated(p, k, i) == [p EXCEPT ![k].status = "active", ![k].task = i]

-----------------------------------------------------------------------------
Create(l) ==
  /\ letter[l].status = "none"
  /\ letter' = [letter EXCEPT ![l].status = "draft"]
  /\ UNCHANGED <<path, tasks, access, counter, issued, job>>

SetRecipients(l, list) ==
  /\ IsDraft(l)
  /\ letter' = [letter EXCEPT ![l].to = list.to, ![l].cc = list.cc]
  /\ UNCHANGED <<path, tasks, access, counter, issued, job>>

CleanPlan(l, p) == Picked(p, {k \in DOMAIN p : p[k] # letter[l].principal})

SetPlan(l, p) ==
  /\ IsDraft(l)
  /\ Author[l] \notin Range(p)
  /\ path' = [path EXCEPT ![l][letter[l].round + 1] =
       [k \in DOMAIN CleanPlan(l, p) |-> NewStep(CleanPlan(l, p)[k], FALSE, "planned")]]
  /\ UNCHANGED <<letter, tasks, access, counter, issued, job>>

(* The path of the next round as submit makes it: without the explicit     *)
(* step of the principal, and with his automatic signature at the end.     *)
Submitted(l) ==
  LET plan == Planned(l)
      p    == Picked(plan, {k \in DOMAIN plan : plan[k].who # letter[l].principal})
      auto == IF letter[l].principal = None THEN <<>>
              ELSE <<NewStep(letter[l].principal, TRUE, "pending")>>
  IN  [k \in DOMAIN p |-> [p[k] EXCEPT !.status = "pending"]] \o auto

Submit(l) ==
  LET r == letter[l].round + 1
      p == Submitted(l)
      i == Len(tasks[l]) + 1
  IN  /\ IsDraft(l)
      /\ p # <<>> /\ Sendable(l)
      /\ r <= MaxRounds /\ i <= MaxTasks
      /\ letter' = [letter EXCEPT ![l].status = "in_approval", ![l].round = r,
                                  ![l].hash = ContentOf(letter[l])]
      /\ path' = [path EXCEPT ![l][r] = Activated(p, 1, i)]
      /\ tasks' = [tasks EXCEPT ![l] = Append(@, NewTask("approval", p[1].who))]
      /\ access' = [access EXCEPT ![l] = @ \cup {<<Author[l], FALSE>>, <<p[1].who, FALSE>>}]
      /\ UNCHANGED <<counter, issued, job>>

(* The number, the frozen version, the access and the tasks of a letter    *)
(* that leaves, when its tasks are t before.  Only those it is sent to may *)
(* refer it, and they have a task if the letter asks for one.              *)
Dispatch(l, t) ==
  LET s  == SiteOf[Sender(l)]
      to == letter[l].to
      d  == SetToSeq(IF letter[l].act THEN to ELSE {})
  IN  /\ Len(t) + Len(d) <= MaxTasks
      /\ counter' = [counter EXCEPT ![s] = @ + 1]
      /\ issued' = issued \cup {[site |-> s, no |-> counter[s] + 1, letter |-> l, void |-> FALSE]}
      /\ letter' = [letter EXCEPT ![l].status = "dispatched", ![l].number = counter[s] + 1,
                                  ![l].book = s, ![l].hash = ContentOf(letter[l])]
      /\ tasks' = [tasks EXCEPT ![l] = t \o [k \in DOMAIN d |-> NewTask("delivery", d[k])]]
      /\ access' = [access EXCEPT ![l] =
           @ \cup {<<Author[l], FALSE>>, <<Sender(l), TRUE>>}
             \cup (to \X {TRUE}) \cup (letter[l].cc \X {FALSE})]

\* mutant: a second click on a letter that was sent sends it again
SendTwice(l) ==
  /\ IsDraft(l) \/ IsSent(l)
  /\ letter[l].principal = None /\ Planned(l) = <<>>
  /\ Sendable(l)
  /\ Dispatch(l, tasks[l])
  /\ UNCHANGED <<path, job>>

Send(l) ==
  /\ IsDraft(l)
  /\ letter[l].principal = None /\ Planned(l) = <<>>
  /\ Sendable(l)
  /\ Dispatch(l, tasks[l])
  /\ UNCHANGED <<path, job>>

-----------------------------------------------------------------------------
(* A draft again: the steps that are left are cancelled with their tasks,  *)
(* and the explicit steps of p are planned for the next round.             *)
CloseRound(p) ==
  [k \in DOMAIN p |-> IF p[k].status \in {"pending", "active"}
                      THEN [p[k] EXCEPT !.status = "cancelled"] ELSE p[k]]

CopiedPlan(p) ==
  LET explicit == Picked(p, {k \in DOMAIN p : ~p[k].required})
  IN  [k \in DOMAIN explicit |-> NewStep(explicit[k].who, FALSE, "planned")]

BackToDraft(l, p, t) ==
  LET r    == letter[l].round
      left == {p[k].task : k \in {m \in DOMAIN p : p[m].status \in {"pending", "active"}}}
  IN  /\ path' = [path EXCEPT ![l][r] = CloseRound(p), ![l][r + 1] = @ \o CopiedPlan(p)]
      /\ tasks' = [tasks EXCEPT ![l] =
           [i \in DOMAIN t |-> IF i \in left /\ t[i].status = "open"
                               THEN [t[i] EXCEPT !.status = "cancelled"] ELSE t[i]]]
      /\ letter' = [letter EXCEPT ![l].status = "draft"]

Withdraw(l) ==
  /\ letter[l].status = "in_approval"
  /\ BackToDraft(l, Steps(l), tasks[l])
  /\ UNCHANGED <<access, counter, issued, job>>

Cancel(l) ==
  /\ IsSent(l)
  /\ letter' = [letter EXCEPT ![l].status = "cancelled"]
  /\ issued' = {[n EXCEPT !.void = n.void \/ n.letter = l] : n \in issued}
  /\ tasks' = [tasks EXCEPT ![l] =
       [i \in DOMAIN @ |-> IF @[i].status = "open" THEN [@[i] EXCEPT !.status = "cancelled"]
                           ELSE @[i]]]
  /\ UNCHANGED <<path, access, counter, job>>

\* mutant: the referral opens a task without an access row
ReferWithoutAccess(l, e, d, mayRefer) ==
  /\ IsSent(l)
  /\ e \in Referrers(l) /\ d # e
  /\ d \notin Assigned(l)
  /\ Len(tasks[l]) < MaxTasks
  /\ tasks' = [tasks EXCEPT ![l] = Append(@, NewTask("referral", d))]
  /\ UNCHANGED <<letter, path, access, counter, issued, job>>

Refer(l, e, d, mayRefer) ==
  /\ IsSent(l)
  /\ e \in Referrers(l) /\ d # e
  /\ d \notin Assigned(l)
  /\ Len(tasks[l]) < MaxTasks
  /\ tasks' = [tasks EXCEPT ![l] = Append(@, NewTask("referral", d))]
  /\ access' = [access EXCEPT ![l] = @ \cup {<<d, mayRefer>>}]
  /\ UNCHANGED <<letter, path, counter, issued, job>>

-----------------------------------------------------------------------------
(* The handlers that read before they lock, or never lock.                 *)
Begin(w, j) ==
  /\ job[w] = Idle
  /\ job' = [job EXCEPT ![w] = j]
  /\ UNCHANGED <<letter, path, tasks, access, counter, issued>>

End(w) == job' = [job EXCEPT ![w] = Idle]

(* A refusal, an error or a restart: nothing of the job is committed.      *)
GiveUp(w) ==
  /\ job[w] # Idle
  /\ End(w)
  /\ UNCHANGED <<letter, path, tasks, access, counter, issued>>

\* mutant: the whole row is written back
AllColumns(new, old) == new

(* The ORM writes the columns whose value is not the one it has read.      *)
Columns(new, old) == [c \in {d \in DOMAIN old : new[d] # old[d]} |-> new[c]]

BeginSave(w, l, text, act, p) ==
  /\ IsDraft(l)
  /\ p # None => <<p, Author[l]>> \in Secretaries
  /\ LET new == [letter[l] EXCEPT !.text = text, !.hash = TextOnly(text), !.act = act,
                                  !.principal = p]
     IN  Begin(w, [do |-> "save", letter |-> l, writes |-> Columns(new, letter[l])])

Written(row, writes) ==
  [c \in DOMAIN row |-> IF c \in DOMAIN writes THEN writes[c] ELSE row[c]]

EndSave(w) ==
  /\ job[w].do = "save"
  /\ letter' = [letter EXCEPT ![job[w].letter] = Written(@, job[w].writes)]
  /\ End(w) /\ UNCHANGED <<path, tasks, access, counter, issued>>

BeginDiscard(w, l) ==
  /\ IsDraft(l)
  /\ Begin(w, [do |-> "discard", letter |-> l])

EndDiscard(w) ==
  /\ job[w].do = "discard"
  /\ letter' = [letter EXCEPT ![job[w].letter].status = "discarded", ![job[w].letter].files = {}]
  /\ End(w) /\ UNCHANGED <<path, tasks, access, counter, issued>>

BeginAttach(w, l, f) ==
  /\ IsDraft(l) /\ f \notin letter[l].files
  /\ Begin(w, [do |-> "attach", letter |-> l, file |-> f])

EndAttach(w) ==
  /\ job[w].do = "attach"
  /\ letter' = [letter EXCEPT ![job[w].letter].files = @ \cup {job[w].file}]
  /\ End(w) /\ UNCHANGED <<path, tasks, access, counter, issued>>

BeginDetach(w, l, f) ==
  /\ IsDraft(l) /\ f \in letter[l].files
  /\ Begin(w, [do |-> "detach", letter |-> l, file |-> f])

EndDetach(w) ==
  /\ job[w].do = "detach" /\ job[w].file \in letter[job[w].letter].files
  /\ letter' = [letter EXCEPT ![job[w].letter].files = @ \ {job[w].file}]
  /\ End(w) /\ UNCHANGED <<path, tasks, access, counter, issued>>

BeginComplete(w, l, i) ==
  /\ i \in OpenTasks(l) /\ tasks[l][i].origin # "approval"
  /\ IsSent(l) /\ tasks[l][i].who \in Readers(l)
  /\ Begin(w, [do |-> "complete", letter |-> l, task |-> i])

(* The row is locked and read again, but the ORM keeps the status it had.  *)
EndComplete(w) ==
  /\ job[w].do = "complete"
  /\ tasks' = [tasks EXCEPT ![job[w].letter][job[w].task].status = "done"]
  /\ End(w) /\ UNCHANGED <<letter, path, access, counter, issued>>

BeginTransfer(w, e, d) ==
  LET moved == [l \in Letters |-> IF letter[l].status \in TaskLetterStatuses
                                  THEN {i \in OpenTasks(l) : tasks[l][i].who = e} ELSE {}]
  IN  /\ e # d
      /\ \E l \in Letters : moved[l] # {}
      /\ Begin(w, [do |-> "transfer", from |-> e, to |-> d, moved |-> moved])

\* mutant: the task is transferred, the approval step is not
StepLeftBehind(s, e, i) == s

(* The step whose task was read, if it is still active: e's, with task i.  *)
MovedStep(s, e, i) ==
  IF s.status = "active" THEN [s EXCEPT !.who = e, !.task = i] ELSE s

(* Every task that was read is closed as reassigned and opened again for   *)
(* the replacement; an active step goes to him with its task.              *)
EndTransfer(w) ==
  LET moved      == job[w].moved
      d          == job[w].to
      old(l)     == InOrder(moved[l])
      new(l, i)  == Len(tasks[l]) + Rank(moved[l], i)
      newTask(l) == [k \in DOMAIN old(l) |-> [tasks[l][old(l)[k]] EXCEPT !.who = d, !.status = "open"]]
      closed(l)  == [i \in DOMAIN tasks[l] |->
                       IF i \in moved[l] THEN [tasks[l][i] EXCEPT !.status = "reassigned"]
                       ELSE tasks[l][i]]
  IN  /\ job[w].do = "transfer"
      /\ \A l \in Letters : Len(tasks[l]) + Cardinality(moved[l]) <= MaxTasks
      /\ tasks' = [l \in Letters |-> closed(l) \o newTask(l)]
      /\ access' = [l \in Letters |-> IF moved[l] = {} THEN access[l]
                                      ELSE access[l] \cup {<<d, job[w].from \in Referrers(l)>>}]
      /\ path' = [l \in Letters |-> [r \in Rounds |->
                   [k \in DOMAIN path[l][r] |->
                      LET s == path[l][r][k]
                      IN  IF s.task \in moved[l] THEN MovedStep(s, d, new(l, s.task)) ELSE s]]]
      /\ End(w) /\ UNCHANGED <<letter, counter, issued>>

BeginDecision(w, e, l, k) ==
  /\ letter[l].round > 0 /\ k \in DOMAIN Steps(l)
  /\ Steps(l)[k].who = e /\ Steps(l)[k].status \in {"pending", "active"}
  /\ Begin(w, [do |-> "decide", letter |-> l, round |-> letter[l].round, step |-> k, by |-> e])

(* The letter is locked and the step refreshed: still its turn?            *)
InTurn(j) ==
  /\ letter[j.letter].status = "in_approval" /\ letter[j.letter].round = j.round
  /\ Steps(j.letter)[j.step].status = "active"

Decided(j, status) ==
  [Steps(j.letter) EXCEPT ![j.step].status = status, ![j.step].by = j.by,
                          ![j.step].hash = IF status = "approved" THEN letter[j.letter].hash ELSE @]

TaskClosed(j) ==
  LET t == tasks[j.letter]
      i == Steps(j.letter)[j.step].task
  IN  IF t[i].status = "open" THEN [t EXCEPT ![i].status = "done"] ELSE t

\* mutant: off by one, the last step is not waited for
NextButLast(p) ==
  LET rest == {k \in DOMAIN p : p[k].status # "approved"}
  IN  IF rest \subseteq {Len(p)} THEN 0
      ELSE CHOOSE m \in rest : \A n \in rest : m <= n

(* next_index: the first step that is not approved, if it is pending.      *)
NextStep(p) ==
  LET rest == {k \in DOMAIN p : p[k].status # "approved"}
  IN  IF rest = {} THEN 0
      ELSE LET k == CHOOSE m \in rest : \A n \in rest : m <= n
           IN  IF p[k].status = "pending" THEN k ELSE 0

EndApprove(w) ==
  LET j == job[w]
      l == j.letter
      p == Decided(j, "approved")
      t == TaskClosed(j)
      k == NextStep(p)
  IN  /\ j.do = "decide" /\ InTurn(j)
      /\ \/ /\ k # 0
            /\ Len(t) < MaxTasks
            /\ path' = [path EXCEPT ![l][j.round] = Activated(p, k, Len(t) + 1)]
            /\ tasks' = [tasks EXCEPT ![l] = Append(t, NewTask("approval", p[k].who))]
            /\ access' = [access EXCEPT ![l] = @ \cup {<<p[k].who, FALSE>>}]
            /\ UNCHANGED <<letter, counter, issued>>
         \/ /\ k = 0
            /\ Sendable(l)
            /\ Dispatch(l, t)
            /\ path' = [path EXCEPT ![l][j.round] = p]
      /\ End(w)

EndReturn(w) ==
  LET j == job[w]
  IN  /\ j.do = "decide" /\ InTurn(j)
      /\ BackToDraft(j.letter, Decided(j, "returned"), TaskClosed(j))
      /\ End(w) /\ UNCHANGED <<access, counter, issued>>

-----------------------------------------------------------------------------
Locked(l) ==
  \/ Create(l) \/ Submit(l) \/ Send(l) \/ Withdraw(l) \/ Cancel(l)
  \/ \E list \in Lists : SetRecipients(l, list)
  \/ \E p \in Plans : SetPlan(l, p)
  \/ \E e, d \in Employees, mayRefer \in BOOLEAN : Refer(l, e, d, mayRefer)

Started(w, l) ==
  \/ \E text \in Texts, act \in BOOLEAN, p \in Maybe(Employees) : BeginSave(w, l, text, act, p)
  \/ BeginDiscard(w, l)
  \/ \E f \in Files : BeginAttach(w, l, f) \/ BeginDetach(w, l, f)
  \/ \E i \in DOMAIN tasks[l] : BeginComplete(w, l, i)
  \/ \E e \in Employees, r \in Rounds : \E k \in DOMAIN path[l][r] : BeginDecision(w, e, l, k)

Ended(w) ==
  \/ EndSave(w) \/ EndDiscard(w) \/ EndAttach(w) \/ EndDetach(w)
  \/ EndComplete(w) \/ EndTransfer(w) \/ EndApprove(w) \/ EndReturn(w) \/ GiveUp(w)

Next ==
  \/ \E l \in Letters : Locked(l) \/ \E w \in Workers : Started(w, l)
  \/ \E w \in Workers : Ended(w) \/ \E e, d \in Employees : BeginTransfer(w, e, d)

Spec == Init /\ [][Next]_vars
==============================================================================
