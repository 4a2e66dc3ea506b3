------------------------------- MODULE OaProofs -------------------------------
(***************************************************************************)
(* Proofs about the letters, for any number of employees, letters, rounds  *)
(* and requests between their reads and their writes.  The invariant has   *)
(* four parts: the types, the jobs (what a request has read may be old,    *)
(* but tasks keep their numbers and rounds their steps), the path of every *)
(* letter, and the register.                                               *)
(***************************************************************************)
EXTENDS OaProperties, FiniteSetTheorems, SequenceTheorems, TLAPS

-----------------------------------------------------------------------------
(* Finite sets of numbers in ascending order.                              *)

(* A larger element has a larger rank.                                     *)
LEMMA RankGrows ==
  ASSUME NEW S \in SUBSET Nat, IsFiniteSet(S), NEW x \in S, NEW y \in S
  PROVE  /\ Rank(S, x) \in 1..Cardinality(S)
         /\ x < y => Rank(S, x) < Rank(S, y)
<1> DEFINE Below(z) == {u \in S : u <= z}
<1>1. \A z \in S : /\ IsFiniteSet(Below(z)) /\ Rank(S, z) = Cardinality(Below(z))
                   /\ Cardinality(Below(z)) \in Nat /\ Cardinality(Below(z)) <= Cardinality(S)
  <2> TAKE z \in S
  <2>1. Below(z) \in SUBSET S
    OBVIOUS
  <2>2. IsFiniteSet(Below(z)) /\ Cardinality(Below(z)) <= Cardinality(S)
    BY ONLY IsFiniteSet(S), <2>1, FS_Subset
  <2>3. Cardinality(Below(z)) \in Nat
    BY ONLY <2>2, FS_CardinalityType
  <2> QED
    BY <2>2, <2>3 DEF Rank
<1>2. x \in Below(x)
  OBVIOUS
<1>3. Cardinality(Below(x)) # 0
  BY <1>1, <1>2, FS_EmptySet
<1>4. ASSUME x < y PROVE Rank(S, x) < Rank(S, y)
  <2> \A u \in S : u \in Nat
    OBVIOUS
  <2>1. y \in Below(y) /\ y \notin Below(x)
    BY <1>4
  <2>2. \A u \in S : u <= x => u <= y
    BY <1>4
  <2>3. Below(x) \subseteq Below(y)
    BY <2>2
  <2>4. /\ Cardinality(Below(x)) <= Cardinality(Below(y))
        /\ Cardinality(Below(y)) = Cardinality(Below(x)) => Below(y) = Below(x)
    BY <1>1, <2>3, FS_Subset
  <2> QED
    BY <1>1, <2>1, <2>4
<1>5. Cardinality(S) \in Nat
  BY FS_CardinalityType
<1> QED
  BY <1>1, <1>3, <1>4, <1>5

(* InOrder lists every element once, each at the place of its rank.        *)
LEMMA InOrderLists ==
  ASSUME NEW S \in SUBSET Nat, IsFiniteSet(S)
  PROVE  /\ Cardinality(S) \in Nat
         /\ InOrder(S) \in [1..Cardinality(S) -> S]
         /\ \A n \in 1..Cardinality(S) : Rank(S, InOrder(S)[n]) = n
         /\ \A x \in S : Rank(S, x) \in 1..Cardinality(S) /\ InOrder(S)[Rank(S, x)] = x
<1> DEFINE N == Cardinality(S)
           r == [x \in S |-> Rank(S, x)]
<1>1. N \in Nat /\ IsFiniteSet(1..N) /\ Cardinality(1..N) = N
  BY FS_CardinalityType, FS_Interval
<1>2. r \in [S -> 1..N]
  BY RankGrows
<1>3. \A x, y \in S : r[x] = r[y] => x = y
  <2>1. ASSUME NEW x \in S, NEW y \in S, x # y PROVE r[x] # r[y]
    <3>1. x < y \/ y < x
      BY <2>1
    <3> QED
      BY <1>1, <1>2, <3>1, RankGrows
  <2> QED
    BY <2>1
<1>4. r \in Injection(S, 1..N)
  BY <1>2, <1>3 DEF Injection, IsInjective
<1>5. r \in Surjection(S, 1..N)
  BY <1>1, <1>4, FS_Injection
<1>6. \A n \in 1..N : \E x \in S : Rank(S, x) = n
  BY <1>5 DEF Surjection
<1>7. \A n \in 1..N : InOrder(S)[n] \in S /\ Rank(S, InOrder(S)[n]) = n
  BY <1>6 DEF InOrder
<1>8. InOrder(S) \in [1..N -> S]
  BY <1>7 DEF InOrder
<1>9. \A x \in S : Rank(S, x) \in 1..N /\ InOrder(S)[Rank(S, x)] = x
  BY <1>2, <1>3, <1>7
<1> QED
  BY <1>1, <1>7, <1>8, <1>9

(* A function on 1..n is a sequence.                                       *)
LEMMA FunctionIsSeq ==
  ASSUME NEW S, NEW n \in Nat, NEW f \in [1..n -> S]
  PROVE  f \in Seq(S) /\ Len(f) = n /\ DOMAIN f = 1..n
<1>1. f \in Seq(S)
  BY SeqDef
<1> QED
  BY <1>1

(* Picked is a sequence of what stands at the places picked.               *)
LEMMA PickedSome ==
  ASSUME NEW T, NEW s \in Seq(T), NEW ks \in SUBSET DOMAIN s
  PROVE  /\ Picked(s, ks) \in Seq(T)
         /\ \A n \in DOMAIN Picked(s, ks) : \E k \in ks : Picked(s, ks)[n] = s[k]
<1>1. ks \in SUBSET Nat /\ IsFiniteSet(ks)
  <2>1. DOMAIN s = 1..Len(s) /\ Len(s) \in Nat
    OBVIOUS
  <2>2. IsFiniteSet(1..Len(s)) /\ ks \in SUBSET (1..Len(s))
    BY <2>1, FS_Interval
  <2> QED
    BY <2>2, FS_Subset
<1>2. /\ Cardinality(ks) \in Nat
      /\ InOrder(ks) \in [1..Cardinality(ks) -> ks]
  BY <1>1, InOrderLists
<1>3. \A n \in 1..Cardinality(ks) : Picked(s, ks)[n] = s[InOrder(ks)[n]] /\ InOrder(ks)[n] \in ks
  BY <1>2 DEF Picked
<1>4. \A k \in ks : s[k] \in T
  OBVIOUS
<1>5. Picked(s, ks) \in [1..Cardinality(ks) -> T]
  BY <1>3, <1>4 DEF Picked
<1>6. DOMAIN Picked(s, ks) = 1..Cardinality(ks)
  BY DEF Picked
<1> QED
  BY <1>2, <1>3, <1>5, <1>6, SeqDef

(* SetToSeq lists every element of a finite set.                           *)
LEMMA SetToSeqLists ==
  ASSUME NEW S, IsFiniteSet(S)
  PROVE  /\ Cardinality(S) \in Nat
         /\ SetToSeq(S) \in [1..Cardinality(S) -> S]
<1>1. Cardinality(S) \in Nat /\ ExistsBijection(1..Cardinality(S), S)
  BY FS_CardinalityType
<1>2. \E f \in [1..Cardinality(S) -> S] : IsInjective(f)
  BY <1>1 DEF ExistsBijection, Bijection, Injection
<1> QED
  BY <1>1, <1>2 DEF SetToSeq

-----------------------------------------------------------------------------
(* The invariant.                                                          *)

(* Somebody sent the round back, withdrew it, or approved all of it.       *)
Broken(s)   == \E k \in DOMAIN s : s[k].status \in {"returned", "cancelled"}
Approved(s) == \A k \in DOMAIN s : s[k].status = "approved"

(* One step of the round is active, with its open task among t.            *)
InTurnAt(s, t, k) ==
  /\ \A m \in DOMAIN s : /\ m < k => s[m].status = "approved"
                         /\ m > k => s[m].status = "pending"
  /\ s[k].status = "active" /\ s[k].task \in DOMAIN t
  /\ t[s[k].task] = NewTask("approval", s[k].who)

Waiting(s, t) == \E k \in DOMAIN s : InTurnAt(s, t, k)

TypedLetter(q, p, t, a) ==
  /\ q \in Letter /\ p \in [Rounds -> Seq(Step)]
  /\ t \in Seq(Task) /\ Len(t) <= MaxTasks
  /\ a \in SUBSET (Employees \X BOOLEAN)

(* Whoever has or had a task keeps his access.                             *)
ReadersOf(a)  == {x[1] : x \in a}
MayRead(t, a) == \A i \in DOMAIN t : t[i].who \in ReadersOf(a)

(* Where a letter stands, and what its rounds look like then.              *)
Standing(q, p, t) ==
  /\ q.status = "none" => q.round = 0
  /\ q.status = "draft" /\ q.round > 0 => Broken(p[q.round])
  /\ q.status = "in_approval" => q.round > 0 /\ Waiting(p[q.round], t)
  /\ q.status \in {"dispatched", "cancelled"} =>
       \/ q.round > 0 /\ Approved(p[q.round])
       \/ p[q.round + 1] = <<>> /\ (q.round > 0 => Broken(p[q.round]))
  /\ q.number # 0 => q.status \in {"dispatched", "cancelled", "discarded"}

GoodLetter(q, p, t, a) == TypedLetter(q, p, t, a) /\ MayRead(t, a) /\ Standing(q, p, t)
Good(l) == GoodLetter(letter[l], path[l], tasks[l], access[l])

(* What a request may have read long ago still fits: tasks and steps keep  *)
(* their places, tasks their origin.                                       *)
JobFits(j, q, p, t) ==
  /\ j \in Job \/ IsSave(j)
  /\ j.do = "complete" =>
       j.task \in DOMAIN t[j.letter] /\ t[j.letter][j.task].origin # "approval"
  /\ j.do = "transfer" => \A l \in Letters : j.moved[l] \subseteq DOMAIN t[l]
  /\ j.do = "decide" => /\ j.round <= q[j.letter].round
                        /\ j.step \in DOMAIN p[j.letter][j.round]

Kept(q, p, t, q2, p2, t2) ==
  /\ q.round <= q2.round
  /\ DOMAIN t \subseteq DOMAIN t2
  /\ \A i \in DOMAIN t : t2[i].origin = t[i].origin
  /\ \A r \in 1..q.round : DOMAIN p2[r] = DOMAIN p[r]

(* The counters are ahead of the numbers that were issued, and the number  *)
(* on a letter is one of them.                                             *)
RowOf(l, n) == n.letter = l /\ n.site = letter[l].book /\ n.no = letter[l].number

Counted ==
  /\ counter \in [Sites -> Nat]
  /\ issued \subseteq [site : Sites, no : Nat \ {0}, letter : Letters, void : BOOLEAN]
  /\ \A n \in issued : n.no <= counter[n.site]
  /\ \A l \in Letters : letter[l].number # 0 => \E n \in issued : RowOf(l, n)

Tables ==
  /\ letter \in [Letters -> Letter]
  /\ path \in [Letters -> [Rounds -> Seq(Step)]]
  /\ tasks \in [Letters -> Seq(Task)]
  /\ access \in [Letters -> SUBSET (Employees \X BOOLEAN)]
  /\ job = [w \in Workers |-> job[w]]

OaInv ==
  /\ Tables
  /\ \A l \in Letters : Good(l)
  /\ \A w \in Workers : JobFits(job[w], letter, path, tasks)
  /\ Counted

-----------------------------------------------------------------------------
(* Steps and tasks.                                                        *)

LEMMA NewStepType ==
  ASSUME NEW e \in Employees, NEW required \in BOOLEAN, NEW status \in StepStatuses
  PROVE  NewStep(e, required, status) \in Step
<1>1. 0 \in 0..MaxTasks
  BY LetterAssumption
<1> QED
  BY <1>1 DEF NewStep, Step, Maybe

LEMMA ReadersAdded ==
  ASSUME NEW a, NEW b
  PROVE  ReadersOf(a \cup b) = ReadersOf(a) \cup ReadersOf(b)
  BY DEF ReadersOf

LEMMA ReaderOfRow ==
  ASSUME NEW e, NEW mayRefer, NEW b, <<e, mayRefer>> \in b
  PROVE  e \in ReadersOf(b)
<1>1. <<e, mayRefer>>[1] = e
  OBVIOUS
<1> QED
  BY <1>1 DEF ReadersOf

LEMMA AccessRow ==
  ASSUME NEW e \in Employees
  PROVE  <<e, FALSE>> \in Employees \X BOOLEAN
  OBVIOUS

(* The author and the approver get access when a step becomes active.      *)
LEMMA TwoReaders ==
  ASSUME NEW x \in Employees, NEW y \in Employees
  PROVE  /\ {<<x, FALSE>>, <<y, FALSE>>} \in SUBSET (Employees \X BOOLEAN)
         /\ y \in ReadersOf({<<x, FALSE>>, <<y, FALSE>>})
<1>1. {<<x, FALSE>>, <<y, FALSE>>} \in SUBSET (Employees \X BOOLEAN)
  BY AccessRow
<1>2. y \in ReadersOf({<<x, FALSE>>, <<y, FALSE>>})
  BY ReaderOfRow
<1> QED
  BY <1>1, <1>2

LEMMA NewTaskType ==
  ASSUME NEW origin \in {"approval", "delivery", "referral"}, NEW e \in Employees
  PROVE  NewTask(origin, e) \in Task /\ NewTask(origin, e).who = e
                                     /\ NewTask(origin, e).origin = origin
  BY DEF NewTask, Task, TaskStatuses

(* Activating a step changes its status and its task and nothing else.     *)
LEMMA ActivatedStep ==
  ASSUME NEW s \in Seq(Step), NEW k \in DOMAIN s, NEW i \in 1..MaxTasks
  PROVE  /\ Activated(s, k, i) \in Seq(Step)
         /\ DOMAIN Activated(s, k, i) = DOMAIN s
         /\ \A m \in DOMAIN s : m # k => Activated(s, k, i)[m] = s[m]
         /\ Activated(s, k, i)[k].status = "active"
         /\ Activated(s, k, i)[k].task = i
         /\ Activated(s, k, i)[k].who = s[k].who
<1> DEFINE x == [s[k] EXCEPT !.status = "active", !.task = i]
<1>1. s[k] \in Step
  OBVIOUS
<1>2. x \in Step /\ x.status = "active" /\ x.task = i /\ x.who = s[k].who
  <2>1. i \in 0..MaxTasks
    BY LetterAssumption
  <2> QED
    BY ONLY <1>1, <2>1 DEF Step, StepStatuses
<1>3. Activated(s, k, i) = [s EXCEPT ![k] = x]
  BY <1>1 DEF Activated, Step
<1> HIDE DEF x
<1> QED
  BY <1>2, <1>3

(* The steps of the round that a submission opens all wait.                *)
LEMMA SubmittedSteps ==
  ASSUME Tables, NEW l \in Letters, letter[l].round + 1 \in Rounds
  PROVE  /\ Submitted(l) \in Seq(Step)
         /\ \A k \in DOMAIN Submitted(l) : Submitted(l)[k].status = "pending"
<1> DEFINE plan == Planned(l)
           ks   == {k \in DOMAIN plan : plan[k].who # letter[l].principal}
           p    == Picked(plan, ks)
           f    == [k \in DOMAIN p |-> [p[k] EXCEPT !.status = "pending"]]
           auto == IF letter[l].principal = None THEN <<>>
                   ELSE <<NewStep(letter[l].principal, TRUE, "pending")>>
<1>1. plan \in Seq(Step)
  BY DEF Planned, Tables
<1>2. p \in Seq(Step)
  BY <1>1, PickedSome
<1>3. \A k \in DOMAIN p : [p[k] EXCEPT !.status = "pending"] \in Step
                          /\ [p[k] EXCEPT !.status = "pending"].status = "pending"
  <2> TAKE k \in DOMAIN p
  <2>1. p[k] \in Step
    BY ONLY <1>2, k \in DOMAIN p
  <2> QED
    BY ONLY <2>1 DEF Step, StepStatuses
<1>4. f \in Seq(Step) /\ \A k \in DOMAIN f : f[k].status = "pending"
  <2>1. DOMAIN p = 1..Len(p) /\ Len(p) \in Nat
    BY <1>2
  <2>2. f \in [1..Len(p) -> Step]
    BY <1>3, <2>1
  <2> QED
    BY ZenonT(60), <1>3, <2>1, <2>2, SeqDef
<1>5. auto \in Seq(Step) /\ \A k \in DOMAIN auto : auto[k].status = "pending"
  <2>1. CASE letter[l].principal = None
    BY <2>1
  <2>2. CASE letter[l].principal # None
    <3>1. letter[l].principal \in Employees
      BY <2>2 DEF Tables, Letter, Maybe
    <3> DEFINE n == NewStep(letter[l].principal, TRUE, "pending")
    <3>2. n \in Step /\ n.status = "pending"
      BY <3>1, NewStepType DEF StepStatuses, NewStep
    <3> HIDE DEF n
    <3>3. <<n>> \in Seq(Step) /\ \A k \in DOMAIN <<n>> : <<n>>[k].status = "pending"
      BY <3>2
    <3>4. auto = <<n>>
      BY <2>2 DEF n
    <3> QED
      BY <3>3, <3>4
  <2> QED
    BY <2>1, <2>2
<1>6. Submitted(l) = f \o auto
  BY DEF Submitted
<1> HIDE DEF f, auto
<1>7. /\ f \o auto \in Seq(Step)
      /\ DOMAIN (f \o auto) = 1..(Len(f) + Len(auto))
      /\ \A k \in 1..(Len(f) + Len(auto)) :
           (f \o auto)[k] = IF k <= Len(f) THEN f[k] ELSE auto[k - Len(f)]
  BY <1>4, <1>5, ConcatProperties
<1>8. \A k \in 1..(Len(f) + Len(auto)) : (f \o auto)[k].status = "pending"
  <2>1. DOMAIN f = 1..Len(f) /\ DOMAIN auto = 1..Len(auto) /\ Len(f) \in Nat /\ Len(auto) \in Nat
    BY <1>4, <1>5
  <2> TAKE k \in 1..(Len(f) + Len(auto))
  <2>2. CASE k <= Len(f)
    BY <1>4, <1>7, <2>1, <2>2
  <2>3. CASE k > Len(f)
    <3>1. k - Len(f) \in DOMAIN auto /\ (f \o auto)[k] = auto[k - Len(f)]
      BY <1>7, <2>1, <2>3
    <3> QED
      BY <1>5, <3>1
  <2> QED
    BY <2>1, <2>2, <2>3
<1> QED
  BY <1>6, <1>7, <1>8

(* One more task, for somebody who gets access with it.                    *)
LEMMA AppendedTask ==
  ASSUME NEW t \in Seq(Task), Len(t) < MaxTasks,
         NEW n \in Task, NEW a, NEW b, MayRead(t, a), n.who \in ReadersOf(b)
  PROVE  /\ Append(t, n) \in Seq(Task) /\ Len(Append(t, n)) <= MaxTasks
         /\ DOMAIN t \subseteq DOMAIN Append(t, n)
         /\ \A i \in DOMAIN t : Append(t, n)[i] = t[i]
         /\ Len(t) + 1 \in DOMAIN Append(t, n) /\ Append(t, n)[Len(t) + 1] = n
         /\ MayRead(Append(t, n), a \cup b)
<1>1. /\ Append(t, n) \in Seq(Task) /\ Len(Append(t, n)) = Len(t) + 1
      /\ DOMAIN Append(t, n) = 1..(Len(t) + 1) /\ DOMAIN t = 1..Len(t) /\ Len(t) \in Nat
      /\ \A i \in 1..Len(t) : Append(t, n)[i] = t[i]
      /\ Append(t, n)[Len(t) + 1] = n
  OBVIOUS
<1>2. MayRead(Append(t, n), a \cup b)
  <2> SUFFICES ASSUME NEW i \in 1..(Len(t) + 1)
               PROVE  Append(t, n)[i].who \in ReadersOf(a \cup b)
    BY <1>1 DEF MayRead
  <2>1. CASE i = Len(t) + 1
    BY <1>1, <2>1, ReadersAdded
  <2>2. CASE i \in 1..Len(t)
    BY <1>1, <2>2, ReadersAdded DEF MayRead
  <2> QED
    BY <1>1, <2>1, <2>2
<1> QED
  BY <1>1, <1>2, LetterAssumption

(* The tasks keep their places, their origin and their holder.             *)
SameTasks(t, t2) ==
  /\ DOMAIN t2 = DOMAIN t
  /\ \A i \in DOMAIN t : t2[i].origin = t[i].origin /\ t2[i].who = t[i].who

LEMMA SameTasksRead ==
  ASSUME NEW t, NEW t2, NEW a, MayRead(t, a), SameTasks(t, t2)
  PROVE  MayRead(t2, a)
  BY DEF MayRead, SameTasks

(* Writing another element into a sequence.                                *)
LEMMA ReplacedAt ==
  ASSUME NEW T, NEW s \in Seq(T), NEW k \in DOMAIN s, NEW x \in T
  PROVE  /\ [s EXCEPT ![k] = x] \in Seq(T) /\ DOMAIN [s EXCEPT ![k] = x] = DOMAIN s
         /\ [s EXCEPT ![k] = x][k] = x
         /\ \A m \in DOMAIN s : m # k => [s EXCEPT ![k] = x][m] = s[m]
OBVIOUS

(* Closing one task.                                                       *)
LEMMA ClosedTask ==
  ASSUME NEW t \in Seq(Task), NEW i \in DOMAIN t, NEW status \in TaskStatuses
  PROVE  /\ [t EXCEPT ![i].status = status] \in Seq(Task)
         /\ Len([t EXCEPT ![i].status = status]) = Len(t)
         /\ SameTasks(t, [t EXCEPT ![i].status = status])
         /\ \A m \in DOMAIN t : m # i => [t EXCEPT ![i].status = status][m] = t[m]
<1> DEFINE x == [t[i] EXCEPT !.status = status]
<1>1. t[i] \in Task
  OBVIOUS
<1>2. x \in Task /\ x.origin = t[i].origin /\ x.who = t[i].who
  BY ONLY <1>1, status \in TaskStatuses DEF Task
<1>3. [t EXCEPT ![i].status = status] = [t EXCEPT ![i] = x]
  OBVIOUS
<1> HIDE DEF x
<1>4. /\ [t EXCEPT ![i] = x] \in Seq(Task)
      /\ Len([t EXCEPT ![i] = x]) = Len(t)
      /\ DOMAIN [t EXCEPT ![i] = x] = DOMAIN t
      /\ \A m \in DOMAIN t : m # i => [t EXCEPT ![i] = x][m] = t[m]
      /\ [t EXCEPT ![i] = x][i] = x
  BY <1>2
<1>5. SameTasks(t, [t EXCEPT ![i] = x])
  BY <1>2, <1>4 DEF SameTasks
<1> QED
  BY <1>3, <1>4, <1>5

(* Closing the open ones of a set of tasks.                                *)
LEMMA ClosedTasks ==
  ASSUME NEW t \in Seq(Task), NEW P, NEW status \in TaskStatuses, NEW u,
         u = [i \in DOMAIN t |-> IF i \in P THEN [t[i] EXCEPT !.status = status] ELSE t[i]]
  PROVE  u \in Seq(Task) /\ Len(u) = Len(t) /\ SameTasks(t, u)
<1>1. DOMAIN t = 1..Len(t) /\ Len(t) \in Nat
  OBVIOUS
<1>2. \A i \in DOMAIN t : t[i] \in Task
  OBVIOUS
<1>3. \A x \in Task : [x EXCEPT !.status = status] \in Task
                      /\ [x EXCEPT !.status = status].origin = x.origin
                      /\ [x EXCEPT !.status = status].who = x.who
  BY ONLY status \in TaskStatuses DEF Task
<1>4. \A i \in DOMAIN t : u[i] \in Task /\ u[i].origin = t[i].origin /\ u[i].who = t[i].who
  BY <1>2, <1>3
<1>5. DOMAIN u = DOMAIN t /\ u \in [1..Len(t) -> Task]
  BY <1>1, <1>4
<1>6. u \in Seq(Task) /\ Len(u) = Len(t)
  BY <1>1, <1>5
<1>7. SameTasks(t, u)
  BY <1>4, <1>5 DEF SameTasks
<1> QED
  BY <1>6, <1>7

(* Closing the tasks of the steps that are left when a round is broken off. *)
LEMMA BrokenRound ==
  ASSUME NEW s \in Seq(Step), \E k \in DOMAIN s : s[k].status \in {"active", "returned"}
  PROVE  CloseRound(s) \in Seq(Step) /\ DOMAIN CloseRound(s) = DOMAIN s /\ Broken(CloseRound(s))
<1> DEFINE x(k) == IF s[k].status \in {"pending", "active"}
                   THEN [s[k] EXCEPT !.status = "cancelled"] ELSE s[k]
<1>1. DOMAIN s = 1..Len(s) /\ Len(s) \in Nat /\ \A k \in DOMAIN s : s[k] \in Step
  OBVIOUS
<1>2. \A y \in Step : [y EXCEPT !.status = "cancelled"] \in Step
                      /\ [y EXCEPT !.status = "cancelled"].status = "cancelled"
  BY DEF Step, StepStatuses
<1>3. \A k \in DOMAIN s :
        /\ x(k) \in Step
        /\ s[k].status \in {"active", "returned"} => x(k).status \in {"returned", "cancelled"}
  BY ONLY <1>1, <1>2
<1>4. CloseRound(s) = [k \in DOMAIN s |-> x(k)]
  BY DEF CloseRound
<1> HIDE DEF x
<1>5. CloseRound(s) \in [1..Len(s) -> Step] /\ DOMAIN CloseRound(s) = DOMAIN s
  BY <1>1, <1>3, <1>4
<1>6. CloseRound(s) \in Seq(Step)
  BY <1>1, <1>5
<1>7. Broken(CloseRound(s))
  BY <1>3, <1>4 DEF Broken
<1> QED
  BY <1>5, <1>6, <1>7

LEMMA CopiedPlanType ==
  ASSUME NEW s \in Seq(Step)
  PROVE  CopiedPlan(s) \in Seq(Step)
<1> DEFINE e == Picked(s, {k \in DOMAIN s : ~s[k].required})
           x(k) == NewStep(e[k].who, FALSE, "planned")
<1>1. e \in Seq(Step)
  BY PickedSome
<1>2. DOMAIN e = 1..Len(e) /\ Len(e) \in Nat
  BY <1>1
<1>3. \A k \in DOMAIN e : e[k].who \in Employees
  <2>1. \A k \in DOMAIN e : e[k] \in Step
    BY ONLY <1>1
  <2> QED
    BY ONLY <2>1 DEF Step
<1>4. \A k \in DOMAIN e : x(k) \in Step
  BY <1>3, NewStepType DEF StepStatuses
<1>5. CopiedPlan(s) = [k \in DOMAIN e |-> x(k)]
  BY DEF CopiedPlan
<1> HIDE DEF x, e
<1>6. CopiedPlan(s) \in [1..Len(e) -> Step]
  BY <1>2, <1>4, <1>5
<1> QED
  BY <1>2, <1>6, SeqDef

-----------------------------------------------------------------------------
(* One handler, one letter.                                                *)
OnlyAt(l) ==
  /\ letter' = [letter EXCEPT ![l] = letter'[l]] /\ path' = [path EXCEPT ![l] = path'[l]]
  /\ tasks' = [tasks EXCEPT ![l] = tasks'[l]] /\ access' = [access EXCEPT ![l] = access'[l]]

Moved(l) ==
  /\ GoodLetter(letter'[l], path'[l], tasks'[l], access'[l])
  /\ Kept(letter[l], path[l], tasks[l], letter'[l], path'[l], tasks'[l])

LEMMA Facts ==
  ASSUME OaInv, NEW l \in Letters
  PROVE  /\ letter[l] \in Letter /\ path[l] \in [Rounds -> Seq(Step)]
         /\ tasks[l] \in Seq(Task) /\ Len(tasks[l]) <= MaxTasks
         /\ access[l] \in SUBSET (Employees \X BOOLEAN)
         /\ letter[l].round \in 0..MaxRounds /\ MaxRounds \in Nat
         /\ letter[l].round + 1 \in Rounds
         /\ letter[l].round > 0 => letter[l].round \in Rounds
         /\ Author[l] \in Employees /\ Sender(l) \in Employees
         /\ MayRead(tasks[l], access[l]) /\ Standing(letter[l], path[l], tasks[l])
         /\ DOMAIN letter = Letters /\ DOMAIN path = Letters
         /\ DOMAIN tasks = Letters /\ DOMAIN access = Letters
<1>1. Good(l) /\ Tables
  BY DEF OaInv
<1>2. letter[l] \in Letter /\ Author[l] \in Employees
  BY <1>1, LetterAssumption DEF Good, GoodLetter, TypedLetter
<1>3. letter[l].round \in 0..MaxRounds /\ MaxRounds \in Nat /\ letter[l].principal \in Maybe(Employees)
  BY <1>2, LetterAssumption DEF Letter
<1>4. Sender(l) \in Employees
  BY <1>2, <1>3 DEF Sender, Maybe
<1>5. letter[l].round + 1 \in Rounds /\ (letter[l].round > 0 => letter[l].round \in Rounds)
  BY <1>3 DEF Rounds
<1> QED
  BY <1>1, <1>2, <1>3, <1>4, <1>5 DEF Good, GoodLetter, TypedLetter, Tables

(* Handlers that change the row of the letter only.                        *)
LEMMA RowOnly ==
  ASSUME OaInv, NEW l \in Letters, NEW q \in Letter,
         letter' = [letter EXCEPT ![l] = q], UNCHANGED <<path, tasks, access>>,
         q.round = letter[l].round, Standing(q, path[l], tasks[l])
  PROVE  OnlyAt(l) /\ Moved(l)
<1>1. letter'[l] = q
  BY Facts
<1>2. OnlyAt(l)
  BY <1>1, Facts DEF OnlyAt, OaInv, Tables
<1>3. GoodLetter(q, path[l], tasks[l], access[l])
  BY Facts DEF GoodLetter, TypedLetter
<1>4. Kept(letter[l], path[l], tasks[l], q, path[l], tasks[l])
  BY Facts DEF Kept
<1> QED
  BY <1>1, <1>2, <1>3, <1>4 DEF Moved

LEMMA CreateStep ==
  ASSUME OaInv, NEW l \in Letters, Create(l)
  PROVE  OnlyAt(l) /\ Moved(l)
<1> DEFINE q == [letter[l] EXCEPT !.status = "draft"]
<1>1. letter[l] \in Letter /\ Standing(letter[l], path[l], tasks[l]) /\ letter[l].status = "none"
  BY Facts DEF Create
<1>2. /\ q \in Letter /\ q.status = "draft" /\ q.round = letter[l].round
      /\ q.number = letter[l].number
  BY <1>1 DEF Letter
<1>3. letter' = [letter EXCEPT ![l] = q] /\ UNCHANGED <<path, tasks, access>>
  BY DEF Create
<1> HIDE DEF q
<1>4. Standing(q, path[l], tasks[l])
  BY <1>1, <1>2 DEF Standing
<1> QED
  BY <1>2, <1>3, <1>4, RowOnly

LEMMA SetRecipientsStep ==
  ASSUME OaInv, NEW l \in Letters, NEW list \in Lists, SetRecipients(l, list)
  PROVE  OnlyAt(l) /\ Moved(l)
<1> DEFINE q == [letter[l] EXCEPT !.to = list.to, !.cc = list.cc]
<1>1. letter[l] \in Letter /\ Standing(letter[l], path[l], tasks[l])
  BY Facts
<1>2. list.to \in SUBSET Employees /\ list.cc \in SUBSET Employees
  BY LetterAssumption
<1>3. /\ q \in Letter /\ q.status = letter[l].status /\ q.round = letter[l].round
      /\ q.number = letter[l].number
  BY <1>1, <1>2 DEF Letter
<1>4. letter' = [letter EXCEPT ![l] = q] /\ UNCHANGED <<path, tasks, access>>
  BY DEF SetRecipients
<1> HIDE DEF q
<1>5. Standing(q, path[l], tasks[l])
  BY <1>1, <1>3 DEF Standing
<1> QED
  BY <1>3, <1>4, <1>5, RowOnly

(* A save writes columns that decide nothing about where the letter stands. *)
LEMMA WrittenRow ==
  ASSUME NEW q \in Letter, NEW writes, DOMAIN writes \subseteq {"text", "hash", "act", "principal"},
         Written(NoLetter, writes) \in Letter
  PROVE  /\ Written(q, writes) \in Letter
         /\ Written(q, writes).status = q.status /\ Written(q, writes).round = q.round
         /\ Written(q, writes).number = q.number /\ Written(q, writes).book = q.book
<1> DEFINE n == Written(NoLetter, writes)
           x == Written(q, writes)
<1>1. DOMAIN q = DOMAIN NoLetter
  BY DEF Letter, NoLetter
<1>2. \A c \in DOMAIN q : x[c] = IF c \in DOMAIN writes THEN n[c] ELSE q[c]
  BY <1>1 DEF Written
<1>3. DOMAIN x = DOMAIN q /\ x = [c \in DOMAIN x |-> x[c]]
  BY DEF Written
<1>4. n \in Letter
  OBVIOUS
<1> HIDE DEF n, x
<1>5. DOMAIN q = {"status", "text", "files", "to", "cc", "act", "hash", "principal", "round",
                   "number", "book"}
  BY DEF Letter
<1>6. x.status = q.status /\ x.round = q.round /\ x.number = q.number /\ x.book = q.book
      /\ x.files = q.files /\ x.to = q.to /\ x.cc = q.cc
  BY <1>2, <1>5
<1>7. x.text \in {q.text, n.text} /\ x.hash \in {q.hash, n.hash} /\ x.act \in {q.act, n.act}
      /\ x.principal \in {q.principal, n.principal}
  BY <1>2, <1>5
<1>8. x \in Letter
  BY <1>3, <1>4, <1>5, <1>6, <1>7 DEF Letter
<1> QED
  BY <1>6, <1>8 DEF x

(* What a job holds, by what it is about to do.                            *)
LEMMA JobShape ==
  ASSUME OaInv, NEW w \in Workers, NEW j, j = job[w]
  PROVE  /\ j.do = "save" => IsSave(j)
         /\ j.do \in {"discard", "attach", "detach", "complete", "decide"} => j.letter \in Letters
         /\ j.do \in {"attach", "detach"} => j.file \in Files
         /\ j.do = "complete" => /\ j.task \in DOMAIN tasks[j.letter]
                                 /\ tasks[j.letter][j.task].origin # "approval"
         /\ j.do = "decide" => /\ j.round \in 1..MaxRounds /\ j.by \in Employees
                               /\ j.round <= letter[j.letter].round
                               /\ j.step \in DOMAIN path[j.letter][j.round]
         /\ j.do = "transfer" => /\ j.from \in Employees /\ j.to \in Employees
                                 /\ \A l \in Letters : j.moved[l] \subseteq DOMAIN tasks[l]
<1>1. JobFits(j, letter, path, tasks)
  BY DEF OaInv
<1>2. j \in Job \/ IsSave(j)
  BY <1>1 DEF JobFits
<1>3. CASE IsSave(j)
  BY <1>3 DEF IsSave
<1>4. CASE j \in Job
  BY <1>1, <1>4 DEF Job, JobFits, Idle
<1> QED
  BY <1>2, <1>3, <1>4

LEMMA EndSaveStep ==
  ASSUME OaInv, NEW w \in Workers, EndSave(w)
  PROVE  job[w].letter \in Letters /\ OnlyAt(job[w].letter) /\ Moved(job[w].letter)
<1> DEFINE l == job[w].letter
           q == Written(letter[l], job[w].writes)
<1>1. IsSave(job[w])
  BY JobShape DEF EndSave
<1>2. l \in Letters
  BY <1>1 DEF IsSave
<1>3. letter[l] \in Letter /\ Standing(letter[l], path[l], tasks[l])
  BY <1>2, Facts
<1>4. /\ q \in Letter /\ q.status = letter[l].status /\ q.round = letter[l].round
      /\ q.number = letter[l].number
  BY <1>1, <1>3, WrittenRow DEF IsSave
<1>5. letter' = [letter EXCEPT ![l] = q] /\ UNCHANGED <<path, tasks, access>>
  BY DEF EndSave
<1> HIDE DEF q
<1>6. Standing(q, path[l], tasks[l])
  BY <1>3, <1>4 DEF Standing
<1> QED
  BY <1>2, <1>4, <1>5, <1>6, RowOnly

LEMMA EndDiscardStep ==
  ASSUME OaInv, NEW w \in Workers, EndDiscard(w)
  PROVE  job[w].letter \in Letters /\ OnlyAt(job[w].letter) /\ Moved(job[w].letter)
<1> DEFINE l == job[w].letter
           q == [letter[l] EXCEPT !.status = "discarded", !.files = {}]
<1>1. l \in Letters
  BY JobShape DEF EndDiscard
<1>2. letter[l] \in Letter /\ Standing(letter[l], path[l], tasks[l]) /\ DOMAIN letter = Letters
  BY <1>1, Facts
<1>3. q \in Letter /\ q.status = "discarded" /\ q.round = letter[l].round
  BY <1>2 DEF Letter
<1>4. letter' = [letter EXCEPT ![l] = q] /\ UNCHANGED <<path, tasks, access>>
  BY <1>1, <1>2 DEF EndDiscard
<1> HIDE DEF q
<1>5. Standing(q, path[l], tasks[l])
  BY <1>2, <1>3 DEF Standing
<1> QED
  BY <1>1, <1>3, <1>4, <1>5, RowOnly

LEMMA EndAttachStep ==
  ASSUME OaInv, NEW w \in Workers, EndAttach(w) \/ EndDetach(w)
  PROVE  job[w].letter \in Letters /\ OnlyAt(job[w].letter) /\ Moved(job[w].letter)
<1> DEFINE l == job[w].letter
           fs == IF job[w].do = "attach" THEN letter[l].files \cup {job[w].file}
                 ELSE letter[l].files \ {job[w].file}
           q == [letter[l] EXCEPT !.files = fs]
<1>1. l \in Letters /\ job[w].file \in Files
  BY JobShape DEF EndAttach, EndDetach
<1>2. letter[l] \in Letter /\ Standing(letter[l], path[l], tasks[l]) /\ DOMAIN letter = Letters
  BY <1>1, Facts
<1>3. fs \in SUBSET Files
  BY <1>1, <1>2 DEF Letter
<1>4. letter' = [letter EXCEPT ![l] = q] /\ UNCHANGED <<path, tasks, access>>
  BY <1>1, <1>2 DEF EndAttach, EndDetach
<1> HIDE DEF fs
<1>5. /\ q \in Letter /\ q.status = letter[l].status /\ q.round = letter[l].round
      /\ q.number = letter[l].number
  BY <1>2, <1>3 DEF Letter
<1> HIDE DEF q
<1>6. Standing(q, path[l], tasks[l])
  BY <1>2, <1>5 DEF Standing
<1> QED
  BY <1>1, <1>4, <1>5, <1>6, RowOnly

(* A new plan stands in the round after the last one: no round that was    *)
(* opened has changed.                                                     *)
LEMMA SetPlanStep ==
  ASSUME OaInv, NEW l \in Letters, NEW p \in Plans, SetPlan(l, p)
  PROVE  OnlyAt(l) /\ Moved(l)
<1> DEFINE clean == CleanPlan(l, p)
           r     == letter[l].round + 1
           new   == [k \in DOMAIN clean |-> NewStep(clean[k], FALSE, "planned")]
           pl    == [path[l] EXCEPT ![r] = new]
<1>1. p \in Seq(Employees)
  BY LetterAssumption
<1>2. clean \in Seq(Employees)
  BY <1>1, PickedSome DEF CleanPlan
<1>3. DOMAIN clean = 1..Len(clean) /\ Len(clean) \in Nat
      /\ \A k \in DOMAIN clean : clean[k] \in Employees
  BY <1>2
<1>4. \A k \in DOMAIN clean : NewStep(clean[k], FALSE, "planned") \in Step
  BY <1>3, NewStepType DEF StepStatuses
<1>5. new \in Seq(Step)
  <2> HIDE DEF clean
  <2>1. new \in [1..Len(clean) -> Step]
    BY <1>3, <1>4
  <2> QED
    BY <1>3, <2>1, FunctionIsSeq
<1>6. path' = [path EXCEPT ![l] = pl] /\ UNCHANGED <<letter, tasks, access>>
  BY Facts DEF SetPlan
<1> HIDE DEF new
<1>7. pl \in [Rounds -> Seq(Step)] /\ \A n \in Rounds : n # r => pl[n] = path[l][n]
  BY <1>5, Facts
<1> HIDE DEF pl
<1>8. path'[l] = pl /\ letter'[l] = letter[l] /\ tasks'[l] = tasks[l] /\ access'[l] = access[l]
  BY <1>6, Facts
<1>9. OnlyAt(l)
  BY <1>6, <1>8, Facts DEF OnlyAt, OaInv, Tables
<1>10. letter[l].round \in 0..MaxRounds /\ letter[l].status = "draft"
       /\ \A n \in 1..letter[l].round : pl[n] = path[l][n]
  BY <1>7, Facts DEF Rounds, SetPlan, IsDraft
<1>11. Standing(letter[l], pl, tasks[l])
  <2>1. Standing(letter[l], path[l], tasks[l])
    BY Facts
  <2>2. letter[l].round > 0 => pl[letter[l].round] = path[l][letter[l].round]
    BY <1>10
  <2> QED
    BY <1>10, <2>1, <2>2 DEF Standing
<1>12. GoodLetter(letter[l], pl, tasks[l], access[l])
  BY <1>7, <1>11, Facts DEF GoodLetter, TypedLetter
<1>13. Kept(letter[l], path[l], tasks[l], letter[l], pl, tasks[l])
  BY <1>10 DEF Kept
<1> QED
  BY <1>8, <1>9, <1>12, <1>13 DEF Moved

(* Referring appends a task together with the access it needs.             *)
LEMMA ReferStep ==
  ASSUME OaInv, NEW l \in Letters, NEW e \in Employees, NEW d \in Employees,
         NEW mayRefer \in BOOLEAN, Refer(l, e, d, mayRefer)
  PROVE  OnlyAt(l) /\ Moved(l)
<1> DEFINE n  == NewTask("referral", d)
           t2 == Append(tasks[l], n)
           b  == {<<d, mayRefer>>}
           a2 == access[l] \cup b
<1>1. n \in Task /\ n.who = d /\ n.origin = "referral"
  BY NewTaskType
<1>2. tasks' = [tasks EXCEPT ![l] = t2] /\ access' = [access EXCEPT ![l] = a2]
      /\ UNCHANGED <<letter, path>> /\ Len(tasks[l]) < MaxTasks
  BY DEF Refer
<1> HIDE DEF n
<1>3. b \subseteq Employees \X BOOLEAN /\ n.who \in ReadersOf(b)
  <2>1. b \subseteq Employees \X BOOLEAN
    OBVIOUS
  <2>2. d \in ReadersOf(b)
    BY ReaderOfRow
  <2> QED
    BY <1>1, <2>1, <2>2
<1> HIDE DEF b
<1>4. /\ t2 \in Seq(Task) /\ Len(t2) <= MaxTasks
      /\ DOMAIN tasks[l] \subseteq DOMAIN t2
      /\ \A i \in DOMAIN tasks[l] : t2[i] = tasks[l][i]
      /\ MayRead(t2, a2)
  <2>1. tasks[l] \in Seq(Task) /\ MayRead(tasks[l], access[l])
    BY Facts
  <2> QED
    BY <1>1, <1>2, <1>3, <2>1, AppendedTask
<1>5. a2 \in SUBSET (Employees \X BOOLEAN)
  BY <1>3, Facts
<1> HIDE DEF t2, a2
<1>6. letter'[l] = letter[l] /\ path'[l] = path[l] /\ tasks'[l] = t2 /\ access'[l] = a2
  BY <1>2, Facts
<1>7. OnlyAt(l)
  BY <1>2, <1>6, Facts DEF OnlyAt, OaInv, Tables
<1>8. Standing(letter[l], path[l], t2)
  BY <1>2, Facts DEF Standing, Refer, IsSent, SentStatuses
<1>9. GoodLetter(letter[l], path[l], t2, a2)
  BY <1>4, <1>5, <1>8, Facts DEF GoodLetter, TypedLetter
<1>10. Kept(letter[l], path[l], tasks[l], letter[l], path[l], t2)
  BY <1>4, Facts DEF Kept
<1> QED
  BY <1>6, <1>7, <1>9, <1>10 DEF Moved

(* Only closing a task that is no approval: the turn of the path stays.    *)
LEMMA EndCompleteStep ==
  ASSUME OaInv, NEW w \in Workers, EndComplete(w)
  PROVE  job[w].letter \in Letters /\ OnlyAt(job[w].letter) /\ Moved(job[w].letter)
<1> DEFINE l  == job[w].letter
           i  == job[w].task
           t2 == [tasks[l] EXCEPT ![i].status = "done"]
<1>1. l \in Letters /\ i \in DOMAIN tasks[l] /\ tasks[l][i].origin # "approval"
  BY JobShape DEF EndComplete
<1>2. tasks' = [tasks EXCEPT ![l] = t2] /\ UNCHANGED <<letter, path, access>>
  BY <1>1, Facts DEF EndComplete
<1>3. /\ t2 \in Seq(Task) /\ Len(t2) = Len(tasks[l]) /\ SameTasks(tasks[l], t2)
      /\ \A m \in DOMAIN tasks[l] : m # i => t2[m] = tasks[l][m]
  <2> DEFINE t == tasks[l]
  <2>1. t \in Seq(Task) /\ i \in DOMAIN t /\ "done" \in TaskStatuses
    BY <1>1, Facts DEF TaskStatuses
  <2> HIDE DEF t, i
  <2>2. LET n == [t EXCEPT ![i].status = "done"]
        IN  /\ n \in Seq(Task) /\ Len(n) = Len(t) /\ SameTasks(t, n)
            /\ \A m \in DOMAIN t : m # i => n[m] = t[m]
    BY <2>1, ClosedTask
  <2> QED
    BY <2>2 DEF t
<1> HIDE DEF t2
<1>4. letter'[l] = letter[l] /\ path'[l] = path[l] /\ tasks'[l] = t2 /\ access'[l] = access[l]
  BY <1>1, <1>2, Facts
<1>5. OnlyAt(l)
  BY <1>1, <1>2, <1>4, Facts DEF OnlyAt, OaInv, Tables
<1>6. Standing(letter[l], path[l], t2)
  <2>1. Standing(letter[l], path[l], tasks[l])
    BY <1>1, Facts
  <2>2. ASSUME letter[l].status = "in_approval"
        PROVE  Waiting(path[l][letter[l].round], t2)
    <3> DEFINE s == path[l][letter[l].round]
    <3>1. PICK k \in DOMAIN s : InTurnAt(s, tasks[l], k)
      BY <2>1, <2>2 DEF Standing, Waiting
    <3>2. tasks[l][s[k].task].origin = "approval"
      <4>1. tasks[l][s[k].task] = NewTask("approval", s[k].who)
        BY <3>1 DEF InTurnAt
      <4>2. NewTask("approval", s[k].who).origin = "approval"
        BY DEF NewTask
      <4> QED
        BY <4>1, <4>2
    <3>3. t2[s[k].task] = tasks[l][s[k].task] /\ s[k].task \in DOMAIN t2
      BY <1>1, <1>3, <3>1, <3>2 DEF InTurnAt, SameTasks
    <3>4. InTurnAt(s, t2, k)
      BY <3>1, <3>3 DEF InTurnAt
    <3> QED
      BY <3>4 DEF Waiting
  <2> QED
    BY <2>1, <2>2 DEF Standing
<1>7. GoodLetter(letter[l], path[l], t2, access[l])
  BY <1>1, <1>3, <1>6, SameTasksRead, Facts DEF GoodLetter, TypedLetter
<1>8. Kept(letter[l], path[l], tasks[l], letter[l], path[l], t2)
  BY <1>1, <1>3, Facts DEF Kept, SameTasks
<1> QED
  BY <1>1, <1>4, <1>5, <1>7, <1>8 DEF Moved

LEMMA CancelStep ==
  ASSUME OaInv, NEW l \in Letters, Cancel(l)
  PROVE  OnlyAt(l) /\ Moved(l)
<1> DEFINE q  == [letter[l] EXCEPT !.status = "cancelled"]
           t  == tasks[l]
           P  == {i \in DOMAIN t : t[i].status = "open"}
           t2 == [i \in DOMAIN t |-> IF i \in P THEN [t[i] EXCEPT !.status = "cancelled"] ELSE t[i]]
<1>1. letter[l] \in Letter /\ Standing(letter[l], path[l], t) /\ letter[l].status = "dispatched"
  BY Facts DEF Cancel, IsSent, SentStatuses
<1>2. /\ q \in Letter /\ q.status = "cancelled" /\ q.round = letter[l].round
  BY <1>1 DEF Letter
<1>3. t2 = [i \in DOMAIN t |-> IF t[i].status = "open" THEN [t[i] EXCEPT !.status = "cancelled"]
                                ELSE t[i]]
  OBVIOUS
<1>4. letter' = [letter EXCEPT ![l] = q] /\ tasks' = [tasks EXCEPT ![l] = t2]
      /\ UNCHANGED <<path, access>>
  BY <1>3, Facts DEF Cancel
<1>5. t2 \in Seq(Task) /\ Len(t2) = Len(t) /\ SameTasks(t, t2)
  <2>1. t \in Seq(Task) /\ "cancelled" \in TaskStatuses
    BY Facts DEF TaskStatuses
  <2> QED
    BY <2>1, ClosedTasks
<1> HIDE DEF q, t2
<1>6. letter'[l] = q /\ path'[l] = path[l] /\ tasks'[l] = t2 /\ access'[l] = access[l]
  BY <1>4, Facts
<1>7. OnlyAt(l)
  BY <1>4, <1>6, Facts DEF OnlyAt, OaInv, Tables
<1>8. Standing(q, path[l], t2)
  BY <1>1, <1>2 DEF Standing
<1>9. GoodLetter(q, path[l], t2, access[l])
  BY <1>2, <1>5, <1>8, SameTasksRead, Facts DEF GoodLetter, TypedLetter
<1>10. Kept(letter[l], path[l], t, q, path[l], t2)
  BY <1>2, <1>5, Facts DEF Kept, SameTasks
<1> QED
  BY <1>6, <1>7, <1>9, <1>10 DEF Moved

(* The first step of the new round is active and has its task.             *)
LEMMA SubmitStep ==
  ASSUME OaInv, NEW l \in Letters, Submit(l)
  PROVE  OnlyAt(l) /\ Moved(l)
<1> DEFINE r  == letter[l].round + 1
           p  == Submitted(l)
           i  == Len(tasks[l]) + 1
           n  == NewTask("approval", p[1].who)
           s  == Activated(p, 1, i)
           q  == [letter[l] EXCEPT !.status = "in_approval", !.round = r,
                                   !.hash = ContentOf(letter[l])]
           pl == [path[l] EXCEPT ![r] = s]
           t2 == Append(tasks[l], n)
           b  == {<<Author[l], FALSE>>, <<p[1].who, FALSE>>}
           a2 == access[l] \cup b
<1>1. /\ letter[l] \in Letter /\ Standing(letter[l], path[l], tasks[l])
      /\ letter[l].status = "draft" /\ p # <<>> /\ r <= MaxRounds /\ i <= MaxTasks
      /\ letter[l].round \in 0..MaxRounds /\ r \in Rounds /\ MaxRounds \in Nat
  BY Facts DEF Submit, IsDraft
<1>2. /\ letter' = [letter EXCEPT ![l] = q] /\ path' = [path EXCEPT ![l] = pl]
      /\ tasks' = [tasks EXCEPT ![l] = t2] /\ access' = [access EXCEPT ![l] = a2]
  BY Facts DEF Submit
<1>3. p \in Seq(Step) /\ \A k \in DOMAIN p : p[k].status = "pending"
  BY <1>1, SubmittedSteps DEF OaInv
<1>4. 1 \in DOMAIN p /\ p[1].who \in Employees
  <2>1. 1 \in DOMAIN p /\ p[1] \in Step
    BY <1>1, <1>3
  <2> QED
    BY <2>1 DEF Step
<1>5. ContentOf(letter[l]) \in Content
  BY <1>1 DEF ContentOf, Content, Letter
<1>6. r \in 1..MaxRounds /\ r \in 0..MaxRounds
  BY <1>1
<1>7. q \in Letter /\ q.status = "in_approval" /\ q.round = r /\ q.number = letter[l].number
  BY <1>1, <1>5, <1>6 DEF Letter
<1>8. n \in Task /\ n.who = p[1].who
  BY <1>4, NewTaskType
<1> HIDE DEF p
<1>9. Len(tasks[l]) < MaxTasks /\ i \in 1..MaxTasks /\ tasks[l] \in Seq(Task)
      /\ MayRead(tasks[l], access[l])
  BY <1>1, LetterAssumption, Facts
<1>10. /\ s \in Seq(Step) /\ DOMAIN s = DOMAIN p
       /\ \A m \in DOMAIN p : m # 1 => s[m] = p[m]
       /\ s[1].status = "active" /\ s[1].task = i /\ s[1].who = p[1].who
  BY <1>3, <1>4, <1>9, ActivatedStep
<1>11. b \subseteq Employees \X BOOLEAN /\ n.who \in ReadersOf(b)
  BY <1>4, <1>8, TwoReaders, Facts
<1> HIDE DEF n, b
<1>12. /\ t2 \in Seq(Task) /\ Len(t2) <= MaxTasks
       /\ DOMAIN tasks[l] \subseteq DOMAIN t2
       /\ \A m \in DOMAIN tasks[l] : t2[m] = tasks[l][m]
       /\ i \in DOMAIN t2 /\ t2[i] = n
       /\ MayRead(t2, a2)
  BY <1>8, <1>9, <1>11, AppendedTask
<1>13. a2 \in SUBSET (Employees \X BOOLEAN)
  BY <1>11, Facts
<1> HIDE DEF q, s, t2, a2, i
<1>14. pl \in [Rounds -> Seq(Step)] /\ pl[r] = s /\ \A m \in Rounds : m # r => pl[m] = path[l][m]
  BY <1>1, <1>10, Facts
<1> HIDE DEF pl
<1>15. letter'[l] = q /\ path'[l] = pl /\ tasks'[l] = t2 /\ access'[l] = a2
  BY <1>2, Facts
<1>16. OnlyAt(l)
  BY <1>2, <1>15 DEF OnlyAt
<1>17. InTurnAt(s, t2, 1)
  <2>1. \A m \in DOMAIN s : m \in Nat \ {0}
    BY <1>10
  <2>2. t2[s[1].task] = NewTask("approval", s[1].who)
    BY <1>10, <1>12 DEF n
  <2> QED
    BY <1>3, <1>10, <1>12, <2>1, <2>2 DEF InTurnAt
<1>18. Standing(q, pl, t2)
  <2>1. letter[l].number = 0
    BY <1>1 DEF Standing
  <2>2. Waiting(pl[q.round], t2)
    BY <1>4, <1>7, <1>10, <1>14, <1>17 DEF Waiting
  <2> QED
    BY <1>6, <1>7, <2>1, <2>2 DEF Standing
<1>19. GoodLetter(q, pl, t2, a2)
  BY <1>7, <1>12, <1>13, <1>14, <1>18 DEF GoodLetter, TypedLetter
<1>20. Kept(letter[l], path[l], tasks[l], q, pl, t2)
  <2>1. \A m \in 1..letter[l].round : m \in Rounds /\ m # r
    BY <1>1 DEF Rounds
  <2> QED
    BY <1>1, <1>7, <1>12, <1>14, <2>1 DEF Kept
<1> QED
  BY <1>15, <1>16, <1>19, <1>20 DEF Moved

(* What leaves is open to everybody it goes to, and those who get a task   *)
(* are among them.                                                         *)
LEMMA DispatchEffect ==
  ASSUME OaInv, NEW l \in Letters, NEW t \in Seq(Task), SameTasks(tasks[l], t), Dispatch(l, t)
  PROVE  /\ letter' = [letter EXCEPT ![l] = letter'[l]]
         /\ tasks' = [tasks EXCEPT ![l] = tasks'[l]]
         /\ access' = [access EXCEPT ![l] = access'[l]]
         /\ letter'[l] \in Letter /\ letter'[l].status = "dispatched"
         /\ letter'[l].round = letter[l].round
         /\ tasks'[l] \in Seq(Task) /\ Len(tasks'[l]) <= MaxTasks
         /\ DOMAIN tasks[l] \subseteq DOMAIN tasks'[l]
         /\ \A i \in DOMAIN tasks[l] : tasks'[l][i].origin = tasks[l][i].origin
         /\ access'[l] \in SUBSET (Employees \X BOOLEAN)
         /\ MayRead(tasks'[l], access'[l])
<1> DEFINE s  == SiteOf[Sender(l)]
           to == letter[l].to
           do == IF letter[l].act THEN to ELSE {}
           d  == SetToSeq(do)
           n  == [k \in DOMAIN d |-> NewTask("delivery", d[k])]
           q  == [letter[l] EXCEPT !.status = "dispatched", !.number = counter[s] + 1,
                                   !.book = s, !.hash = ContentOf(letter[l])]
           b  == {<<Author[l], FALSE>>, <<Sender(l), TRUE>>}
                   \cup (to \X {TRUE}) \cup (letter[l].cc \X {FALSE})
           t2 == t \o n
           a2 == access[l] \cup b
<1>1. /\ letter[l] \in Letter /\ to \in SUBSET Employees
      /\ letter[l].cc \in SUBSET Employees /\ do \subseteq to
  BY Facts DEF Letter
<1>2. IsFiniteSet(do)
  BY <1>1, FS_Subset, LetterAssumption
<1> HIDE DEF do
<1>3. Cardinality(do) \in Nat /\ d \in [1..Cardinality(do) -> do] /\ Len(d) = Cardinality(do)
  BY <1>2, SetToSeqLists
<1>4. /\ letter' = [letter EXCEPT ![l] = q] /\ tasks' = [tasks EXCEPT ![l] = t2]
      /\ access' = [access EXCEPT ![l] = a2] /\ Len(t) + Len(d) <= MaxTasks
  <2>1. access[l] \cup {<<Author[l], FALSE>>, <<Sender(l), TRUE>>}
          \cup (to \X {TRUE}) \cup (letter[l].cc \X {FALSE}) = a2
    OBVIOUS
  <2> QED
    BY <2>1 DEF Dispatch, do
<1>5. s \in Sites /\ counter[s] + 1 \in Nat
  <2>1. s \in Sites
    BY Facts DEF Sites
  <2> QED
    BY <2>1 DEF OaInv, Counted
<1>6. ContentOf(letter[l]) \in Content
  BY <1>1 DEF ContentOf, Content, Letter
<1>7. q \in Letter /\ q.status = "dispatched" /\ q.round = letter[l].round
  <2> HIDE DEF s
  <2>1. s \in Maybe(Sites)
    BY <1>5 DEF Maybe
  <2> QED
    BY <1>1, <1>5, <1>6, <2>1 DEF Letter
<1> HIDE DEF d, q, s
<1>8. \A k \in DOMAIN d : d[k] \in to /\ d[k] \in Employees
  BY <1>1, <1>3
<1>9. \A k \in DOMAIN d : n[k] \in Task /\ n[k].who = d[k]
  BY <1>8, NewTaskType
<1>10. n \in Seq(Task) /\ Len(n) = Len(d) /\ DOMAIN n = DOMAIN d
  <2>1. DOMAIN n = 1..Cardinality(do)
    BY <1>3
  <2>2. n \in [1..Cardinality(do) -> Task]
    BY <1>9, <2>1
  <2> QED
    BY <1>3, <2>1, <2>2, FunctionIsSeq
<1>11. \A k \in DOMAIN n : n[k].who \in ReadersOf(b)
  <2> TAKE k \in DOMAIN n
  <2>1. n[k].who = d[k] /\ d[k] \in to
    BY <1>8, <1>9, <1>10
  <2>2. <<d[k], TRUE>> \in b
    BY <2>1
  <2> QED
    BY <2>1, <2>2, ReaderOfRow
<1>12. b \in SUBSET (Employees \X BOOLEAN)
  <2>1. <<Author[l], FALSE>> \in Employees \X BOOLEAN
    BY AccessRow, Facts
  <2>2. <<Sender(l), TRUE>> \in Employees \X BOOLEAN
    <3>1. Sender(l) \in Employees
      BY Facts
    <3> QED
      BY <3>1
  <2>3. to \X {TRUE} \subseteq Employees \X BOOLEAN /\ letter[l].cc \X {FALSE} \subseteq Employees \X BOOLEAN
    BY <1>1
  <2> QED
    BY <2>1, <2>2, <2>3
<1> HIDE DEF n, b, to
<1>13. /\ t2 \in Seq(Task) /\ Len(t2) = Len(t) + Len(n) /\ DOMAIN t2 = 1..(Len(t) + Len(n))
       /\ \A i \in 1..(Len(t) + Len(n)) : t2[i] = IF i <= Len(t) THEN t[i] ELSE n[i - Len(t)]
  <2>1. n \in Seq(Task)
    BY <1>10
  <2>2. /\ t2 \in Seq(Task) /\ Len(t2) = Len(t) + Len(n)
        /\ \A i \in 1..(Len(t) + Len(n)) : t2[i] = IF i <= Len(t) THEN t[i] ELSE n[i - Len(t)]
    BY <2>1, ConcatProperties
  <2> HIDE DEF t2
  <2> QED
    BY <2>2
<1>14. DOMAIN t = 1..Len(t) /\ DOMAIN n = 1..Len(n) /\ Len(t) \in Nat /\ Len(n) \in Nat
  BY <1>10
<1> HIDE DEF t2
<1>15. \A i \in DOMAIN t : i \in DOMAIN t2 /\ t2[i] = t[i]
  BY <1>13, <1>14
<1>16. MayRead(t2, a2)
  <2>1. MayRead(t, access[l])
    BY SameTasksRead, Facts
  <2> SUFFICES ASSUME NEW i \in DOMAIN t2
               PROVE  t2[i].who \in ReadersOf(access[l] \cup b)
    BY DEF MayRead
  <2>2. CASE i \in DOMAIN t
    BY <1>15, <2>1, <2>2, ReadersAdded DEF MayRead
  <2>3. CASE i \notin DOMAIN t
    <3>1. i - Len(t) \in DOMAIN n /\ t2[i] = n[i - Len(t)]
      BY <1>13, <1>14, <2>3
    <3> QED
      BY <1>11, <3>1, ReadersAdded
  <2> QED
    BY <2>2, <2>3
<1>17. a2 \in SUBSET (Employees \X BOOLEAN)
  BY <1>12, Facts
<1> HIDE DEF a2
<1>18. letter'[l] = q /\ tasks'[l] = t2 /\ access'[l] = a2
  BY <1>4, Facts
<1>19. DOMAIN tasks[l] \subseteq DOMAIN t2
       /\ \A i \in DOMAIN tasks[l] : t2[i].origin = tasks[l][i].origin
  BY <1>15 DEF SameTasks
<1>20. Len(t2) <= MaxTasks
  BY <1>4, <1>10, <1>13
<1> QED
  BY <1>4, <1>7, <1>13, <1>16, <1>17, <1>18, <1>19, <1>20

LEMMA SendStep ==
  ASSUME OaInv, NEW l \in Letters, Send(l)
  PROVE  OnlyAt(l) /\ Moved(l)
<1> DEFINE q == letter[l]
<1>1. /\ q \in Letter /\ Standing(q, path[l], tasks[l]) /\ q.status = "draft"
      /\ Planned(l) = <<>> /\ Dispatch(l, tasks[l]) /\ path' = path /\ tasks[l] \in Seq(Task)
  BY Facts DEF Send, IsDraft
<1>2. SameTasks(tasks[l], tasks[l])
  BY DEF SameTasks
<1>3. OnlyAt(l)
  BY <1>1, <1>2, DispatchEffect, Facts DEF OnlyAt, OaInv, Tables
<1>4. Standing(letter'[l], path'[l], tasks'[l])
  <2>1. path[l][q.round + 1] = <<>> /\ (q.round > 0 => Broken(path[l][q.round]))
    BY <1>1 DEF Planned, Standing
  <2>2. letter'[l].status = "dispatched" /\ letter'[l].round = q.round
    BY <1>1, <1>2, DispatchEffect
  <2> QED
    BY <1>1, <2>1, <2>2 DEF Standing
<1>5. GoodLetter(letter'[l], path'[l], tasks'[l], access'[l])
  BY <1>1, <1>2, <1>4, DispatchEffect, Facts DEF GoodLetter, TypedLetter
<1>6. Kept(letter[l], path[l], tasks[l], letter'[l], path'[l], tasks'[l])
  BY <1>1, <1>2, DispatchEffect, Facts DEF Kept
<1> QED
  BY <1>3, <1>5, <1>6 DEF Moved

(* A round that is broken off says so, and the plan stands in the next.    *)
LEMMA BackToDraftStep ==
  ASSUME OaInv, NEW l \in Letters, letter[l].status = "in_approval",
         NEW s \in Seq(Step), DOMAIN s = DOMAIN Steps(l),
         \E k \in DOMAIN s : s[k].status \in {"active", "returned"},
         NEW t \in Seq(Task), SameTasks(tasks[l], t), Len(t) <= MaxTasks,
         BackToDraft(l, s, t), UNCHANGED access
  PROVE  OnlyAt(l) /\ Moved(l)
<1> DEFINE r    == letter[l].round
           left == {s[k].task : k \in {m \in DOMAIN s : s[m].status \in {"pending", "active"}}}
           P    == {i \in DOMAIN t : i \in left /\ t[i].status = "open"}
           q    == [letter[l] EXCEPT !.status = "draft"]
           c    == CloseRound(s)
           n    == path[l][r + 1] \o CopiedPlan(s)
           pl   == [path[l] EXCEPT ![r] = c, ![r + 1] = n]
           t2   == [i \in DOMAIN t |-> IF i \in P THEN [t[i] EXCEPT !.status = "cancelled"] ELSE t[i]]
<1>1. /\ letter[l] \in Letter /\ Standing(letter[l], path[l], tasks[l])
      /\ r \in Rounds /\ r + 1 \in Rounds /\ r \in 0..MaxRounds /\ r > 0 /\ r + 1 # r
      /\ path[l] \in [Rounds -> Seq(Step)] /\ MaxRounds \in Nat
  <2>1. Standing(letter[l], path[l], tasks[l])
    BY Facts
  <2>2. r > 0
    BY <2>1 DEF Standing
  <2> QED
    BY <2>1, <2>2, Facts
<1>2. t2 = [i \in DOMAIN t |-> IF i \in left /\ t[i].status = "open"
                               THEN [t[i] EXCEPT !.status = "cancelled"] ELSE t[i]]
  OBVIOUS
<1>3. /\ letter' = [letter EXCEPT ![l] = q] /\ tasks' = [tasks EXCEPT ![l] = t2]
      /\ path' = [path EXCEPT ![l] = pl] /\ UNCHANGED access
  <2>1. letter' = [letter EXCEPT ![l] = q] /\ tasks' = [tasks EXCEPT ![l] = t2]
    BY <1>2 DEF BackToDraft
  <2>2. path' = [path EXCEPT ![l] = pl]
    BY <1>1, Facts DEF BackToDraft
  <2> QED
    BY <2>1, <2>2
<1>4. t2 \in Seq(Task) /\ Len(t2) = Len(t) /\ SameTasks(t, t2)
  <2>1. "cancelled" \in TaskStatuses
    BY DEF TaskStatuses
  <2> QED
    BY <2>1, ClosedTasks
<1>5. q \in Letter /\ q.status = "draft" /\ q.round = r /\ q.number = letter[l].number
  BY <1>1 DEF Letter
<1>6. c \in Seq(Step) /\ DOMAIN c = DOMAIN s /\ Broken(c)
  BY BrokenRound
<1>7. n \in Seq(Step)
  BY <1>1, CopiedPlanType, ConcatProperties
<1> HIDE DEF q, t2, c, n
<1>8. /\ pl \in [Rounds -> Seq(Step)] /\ pl[r] = c
      /\ \A m \in Rounds : m \notin {r, r + 1} => pl[m] = path[l][m]
  <2> DEFINE r1 == r + 1
  <2>1. r1 \in Rounds /\ r1 # r
    BY <1>1
  <2>2. pl = [[path[l] EXCEPT ![r] = c] EXCEPT ![r1] = n]
    BY <1>1
  <2> HIDE DEF r1, pl
  <2>3. /\ pl \in [Rounds -> Seq(Step)] /\ pl[r] = c
        /\ \A m \in Rounds : m \notin {r, r1} => pl[m] = path[l][m]
    BY <1>1, <1>6, <1>7, <2>1, <2>2
  <2> QED
    BY <2>3 DEF r1
<1> HIDE DEF pl
<1>9. letter'[l] = q /\ path'[l] = pl /\ tasks'[l] = t2 /\ access'[l] = access[l]
  BY <1>3, Facts
<1>10. OnlyAt(l)
  BY <1>3, <1>9, Facts DEF OnlyAt, OaInv, Tables
<1>11. SameTasks(tasks[l], t2)
  BY <1>4 DEF SameTasks
<1>12. Standing(q, pl, t2)
  BY <1>1, <1>5, <1>6, <1>8 DEF Standing
<1>13. GoodLetter(q, pl, t2, access[l])
  <2>1. TypedLetter(q, pl, t2, access[l])
    BY <1>4, <1>5, <1>8, Facts DEF TypedLetter
  <2>2. MayRead(t2, access[l])
    BY <1>11, SameTasksRead, Facts
  <2> QED
    BY <1>12, <2>1, <2>2 DEF GoodLetter
<1>14. Kept(letter[l], path[l], tasks[l], q, pl, t2)
  <2>1. \A m \in 1..r : m \in Rounds /\ m # r + 1
    BY <1>1 DEF Rounds
  <2>2. \A m \in 1..r : DOMAIN pl[m] = DOMAIN path[l][m]
    BY <1>6, <1>8, <2>1 DEF Steps
  <2> QED
    BY <1>1, <1>5, <1>11, <2>2 DEF Kept, SameTasks
<1> QED
  BY <1>9, <1>10, <1>13, <1>14 DEF Moved

LEMMA WithdrawStep ==
  ASSUME OaInv, NEW l \in Letters, Withdraw(l)
  PROVE  OnlyAt(l) /\ Moved(l)
<1>1. /\ letter[l].status = "in_approval" /\ BackToDraft(l, Steps(l), tasks[l]) /\ UNCHANGED access
      /\ Standing(letter[l], path[l], tasks[l])
      /\ letter[l].round \in Rounds /\ path[l] \in [Rounds -> Seq(Step)]
  BY Facts DEF Withdraw, Standing
<1>2. Steps(l) \in Seq(Step)
  BY <1>1 DEF Steps
<1>3. \E k \in DOMAIN Steps(l) : Steps(l)[k].status \in {"active", "returned"}
  BY <1>1 DEF Steps, Standing, Waiting, InTurnAt
<1>4. SameTasks(tasks[l], tasks[l]) /\ tasks[l] \in Seq(Task) /\ Len(tasks[l]) <= MaxTasks
  BY Facts DEF SameTasks
<1> QED
  BY <1>1, <1>2, <1>3, <1>4, BackToDraftStep

(* A decision that is in turn is about the one active step.                *)
LEMMA DecisionInTurn ==
  ASSUME OaInv, NEW w \in Workers, NEW j, j = job[w], j.do = "decide", InTurn(j),
         NEW status \in {"approved", "returned"}
  PROVE  /\ j.letter \in Letters /\ letter[j.letter].status = "in_approval"
         /\ letter[j.letter].round = j.round /\ j.round \in Rounds
         /\ Steps(j.letter) = path[j.letter][j.round] /\ Steps(j.letter) \in Seq(Step)
         /\ j.step \in DOMAIN Steps(j.letter)
         /\ InTurnAt(Steps(j.letter), tasks[j.letter], j.step)
         /\ Decided(j, status) \in Seq(Step)
         /\ DOMAIN Decided(j, status) = DOMAIN Steps(j.letter)
         /\ Decided(j, status)[j.step].status = status
         /\ \A k \in DOMAIN Steps(j.letter) : k # j.step => Decided(j, status)[k] = Steps(j.letter)[k]
         /\ TaskClosed(j) \in Seq(Task) /\ Len(TaskClosed(j)) = Len(tasks[j.letter])
         /\ SameTasks(tasks[j.letter], TaskClosed(j))
<1> DEFINE l == j.letter
           s == Steps(l)
           k == j.step
           t == tasks[l]
           i == s[k].task
<1>1. /\ l \in Letters /\ j.by \in Employees /\ j.step \in DOMAIN path[l][j.round]
  BY JobShape
<1>2. /\ letter[l].status = "in_approval" /\ letter[l].round = j.round /\ s[k].status = "active"
  BY DEF InTurn
<1>3. /\ letter[l] \in Letter /\ path[l] \in [Rounds -> Seq(Step)] /\ j.round \in Rounds
      /\ t \in Seq(Task) /\ Waiting(path[l][j.round], t)
  BY <1>1, <1>2, Facts DEF Standing
<1>4. s = path[l][j.round] /\ s \in Seq(Step) /\ k \in DOMAIN s
  BY <1>1, <1>2, <1>3 DEF Steps
<1>5. InTurnAt(s, t, k)
  <2>1. PICK m \in DOMAIN s : InTurnAt(s, t, m)
    BY <1>3, <1>4 DEF Waiting
  <2>2. m \in Nat /\ k \in Nat
    BY <1>4
  <2> HIDE DEF s
  <2>3. ~(k < m) /\ ~(k > m)
    BY <1>2, <1>4, <2>1 DEF InTurnAt
  <2>4. m = k
    BY <2>2, <2>3
  <2> QED
    BY <2>1, <2>4
<1> HIDE DEF s
<1> DEFINE h == IF status = "approved" THEN letter[l].hash ELSE s[k].hash
           x == [s[k] EXCEPT !.status = status, !.by = j.by, !.hash = h]
<1>6. s[k] \in Step
  BY <1>4
<1>7. h \in Content \cup {None}
  BY <1>3, <1>6 DEF Letter, Step
<1>8. Decided(j, status) = [s EXCEPT ![k] = x]
  BY <1>4, <1>6 DEF Decided, Step, s
<1> HIDE DEF h
<1>9. x \in Step /\ x.status = status
  BY <1>1, <1>6, <1>7 DEF Step, StepStatuses, Maybe
<1> HIDE DEF x
<1>10. /\ Decided(j, status) \in Seq(Step) /\ DOMAIN Decided(j, status) = DOMAIN s
       /\ Decided(j, status)[k].status = status
       /\ \A m \in DOMAIN s : m # k => Decided(j, status)[m] = s[m]
  <2> HIDE DEF k
  <2>1. LET d == [s EXCEPT ![k] = x]
        IN  /\ d \in Seq(Step) /\ DOMAIN d = DOMAIN s /\ d[k] = x
            /\ \A m \in DOMAIN s : m # k => d[m] = s[m]
    BY <1>4, <1>9, ReplacedAt
  <2> QED
    BY <1>8, <1>9, <2>1
<1>11. i \in DOMAIN t
  BY <1>5 DEF InTurnAt
<1> HIDE DEF i
<1> DEFINE u == [t EXCEPT ![i].status = "done"]
<1>12. u \in Seq(Task) /\ Len(u) = Len(t) /\ SameTasks(t, u)
  <2>1. "done" \in TaskStatuses
    BY DEF TaskStatuses
  <2> HIDE DEF t
  <2> QED
    BY <1>3, <1>11, <2>1, ClosedTask
<1>13. TaskClosed(j) = u \/ TaskClosed(j) = t
  BY DEF TaskClosed, s, i
<1> HIDE DEF u
<1>14. SameTasks(t, t)
  BY DEF SameTasks
<1> QED
  BY <1>1, <1>2, <1>3, <1>4, <1>5, <1>10, <1>12, <1>13, <1>14 DEF s

LEMMA EndReturnStep ==
  ASSUME OaInv, NEW w \in Workers, EndReturn(w)
  PROVE  job[w].letter \in Letters /\ OnlyAt(job[w].letter) /\ Moved(job[w].letter)
<1> DEFINE j == job[w]
           l == j.letter
<1>1. j.do = "decide" /\ InTurn(j) /\ BackToDraft(l, Decided(j, "returned"), TaskClosed(j))
      /\ UNCHANGED access
  BY DEF EndReturn
<1>2. /\ l \in Letters /\ letter[l].status = "in_approval"
      /\ Decided(j, "returned") \in Seq(Step) /\ DOMAIN Decided(j, "returned") = DOMAIN Steps(l)
      /\ j.step \in DOMAIN Steps(l) /\ Decided(j, "returned")[j.step].status = "returned"
      /\ TaskClosed(j) \in Seq(Task) /\ Len(TaskClosed(j)) = Len(tasks[l])
      /\ SameTasks(tasks[l], TaskClosed(j))
  BY <1>1, DecisionInTurn
<1>3. Len(TaskClosed(j)) <= MaxTasks
  BY <1>2, Facts
<1> QED
  BY <1>1, <1>2, <1>3, BackToDraftStep

(* After an approval in turn the next step is the one behind it.           *)
LEMMA NextInTurn ==
  ASSUME NEW s \in Seq(Step), NEW k \in DOMAIN s, s[k].status = "approved",
         \A m \in DOMAIN s : /\ m < k => s[m].status = "approved"
                             /\ m > k => s[m].status = "pending"
  PROVE  /\ k \in Nat \ {0}
         /\ NextStep(s) = 0 => Approved(s)
         /\ NextStep(s) # 0 => NextStep(s) = k + 1 /\ k + 1 \in DOMAIN s
<1> DEFINE rest == {m \in DOMAIN s : s[m].status # "approved"}
           first == CHOOSE m \in rest : \A n \in rest : m <= n
<1>1. DOMAIN s = 1..Len(s) /\ Len(s) \in Nat
  OBVIOUS
<1>2. k \in Nat \ {0} /\ k <= Len(s) /\ \A m \in DOMAIN s : m \in Nat
  BY <1>1
<1>3. \A m \in DOMAIN s : m > k => m \in rest
  OBVIOUS
<1>4. \A m \in rest : m > k
  <2> TAKE m \in rest
  <2>1. m \in DOMAIN s /\ m # k /\ ~(m < k)
    OBVIOUS
  <2> QED
    BY <1>2, <2>1
<1> HIDE DEF rest
<1>5. CASE rest = {}
  <2>1. NextStep(s) = 0
    BY <1>5 DEF NextStep, rest
  <2>2. Approved(s)
    BY <1>5 DEF Approved, rest
  <2> QED
    BY <1>2, <2>1, <2>2
<1>6. CASE rest # {}
  <2>1. PICK m \in rest : TRUE
    BY <1>6
  <2>2. m \in DOMAIN s /\ m > k
    BY <1>4 DEF rest
  <2>3. k + 1 \in DOMAIN s /\ k + 1 \in rest
    BY <1>1, <1>2, <1>3, <2>2
  <2>4. \A n \in rest : k + 1 <= n /\ n \in Nat
    BY <1>2, <1>4 DEF rest
  <2>5. first \in rest /\ \A n \in rest : first <= n
    BY <2>3, <2>4
  <2> HIDE DEF first
  <2>6. first = k + 1
    BY <1>2, <2>3, <2>4, <2>5
  <2>7. s[first].status = "pending"
    BY <1>2, <2>3, <2>6
  <2>8. NextStep(s) = first
    BY <1>6, <2>7 DEF NextStep, rest, first
  <2> QED
    BY <1>2, <2>3, <2>6, <2>8
<1> QED
  BY <1>5, <1>6

LEMMA ReadersStay ==
  ASSUME NEW t, NEW a, NEW b, MayRead(t, a)
  PROVE  MayRead(t, a \cup b)
  BY ReadersAdded DEF MayRead

(* An approval passes the turn on, or the letter leaves.                   *)
LEMMA EndApproveStep ==
  ASSUME OaInv, NEW w \in Workers, EndApprove(w)
  PROVE  job[w].letter \in Letters /\ OnlyAt(job[w].letter) /\ Moved(job[w].letter)
<1> DEFINE j == job[w]
           l == j.letter
           r == j.round
           s == Steps(l)
           p == Decided(j, "approved")
           t == TaskClosed(j)
           k == NextStep(p)
<1>1. j.do = "decide" /\ InTurn(j)
  BY DEF EndApprove
<1>2. /\ l \in Letters /\ letter[l].status = "in_approval" /\ letter[l].round = r /\ r \in Rounds
      /\ s = path[l][r] /\ s \in Seq(Step) /\ j.step \in DOMAIN s
      /\ InTurnAt(s, tasks[l], j.step)
      /\ p \in Seq(Step) /\ DOMAIN p = DOMAIN s /\ p[j.step].status = "approved"
      /\ \A m \in DOMAIN s : m # j.step => p[m] = s[m]
      /\ t \in Seq(Task) /\ Len(t) = Len(tasks[l]) /\ SameTasks(tasks[l], t)
  BY ZenonT(60), <1>1, DecisionInTurn
<1>3. /\ letter[l] \in Letter /\ Standing(letter[l], path[l], tasks[l])
      /\ r \in 0..MaxRounds /\ r > 0 /\ path[l] \in [Rounds -> Seq(Step)]
      /\ Len(t) <= MaxTasks /\ MayRead(t, access[l]) /\ access[l] \in SUBSET (Employees \X BOOLEAN)
  <2>1. /\ letter[l] \in Letter /\ Standing(letter[l], path[l], tasks[l])
        /\ r \in 0..MaxRounds /\ path[l] \in [Rounds -> Seq(Step)]
        /\ Len(tasks[l]) <= MaxTasks /\ access[l] \in SUBSET (Employees \X BOOLEAN)
        /\ MayRead(tasks[l], access[l])
    BY <1>2, Facts
  <2>2. r > 0
    BY <1>2, <2>1 DEF Standing
  <2>3. MayRead(t, access[l])
    BY <1>2, <2>1, SameTasksRead
  <2> QED
    BY <1>2, <2>1, <2>2, <2>3
<1>4. \A m \in DOMAIN p : /\ m < j.step => p[m].status = "approved"
                          /\ m > j.step => p[m].status = "pending"
  <2> TAKE m \in DOMAIN p
  <2>1. j.step \in Nat /\ m \in Nat
    BY <1>2
  <2>2. m # j.step => p[m] = s[m]
    BY <1>2
  <2>3. (m < j.step => s[m].status = "approved") /\ (m > j.step => s[m].status = "pending")
    BY <1>2 DEF InTurnAt
  <2> QED
    BY <2>1, <2>2, <2>3
<1>5. /\ j.step \in Nat \ {0}
      /\ k = 0 => Approved(p)
      /\ k # 0 => k = j.step + 1 /\ k \in DOMAIN p
  BY <1>2, <1>4, NextInTurn
<1>6. \/ /\ k # 0 /\ Len(t) < MaxTasks
         /\ path' = [path EXCEPT ![l][r] = Activated(p, k, Len(t) + 1)]
         /\ tasks' = [tasks EXCEPT ![l] = Append(t, NewTask("approval", p[k].who))]
         /\ access' = [access EXCEPT ![l] = @ \cup {<<p[k].who, FALSE>>}]
         /\ UNCHANGED letter
      \/ k = 0 /\ Dispatch(l, t) /\ path' = [path EXCEPT ![l][r] = p]
  BY DEF EndApprove
<1> HIDE DEF s, p, t, k, l, r
<1>7. CASE k # 0
  <2> DEFINE i  == Len(t) + 1
             n  == NewTask("approval", p[k].who)
             z  == Activated(p, k, i)
             b  == {<<p[k].who, FALSE>>}
             pl == [path[l] EXCEPT ![r] = z]
             t2 == Append(t, n)
             a2 == access[l] \cup b
  <2>1. /\ Len(t) < MaxTasks /\ tasks' = [tasks EXCEPT ![l] = t2] /\ UNCHANGED letter
        /\ access' = [access EXCEPT ![l] = a2] /\ path' = [path EXCEPT ![l] = pl]
    BY <1>2, <1>6, <1>7, Facts
  <2>2. k \in DOMAIN p /\ p[k] \in Step
    BY <1>2, <1>5, <1>7
  <2>3. p[k].who \in Employees
    BY <2>2 DEF Step
  <2>4. n \in Task /\ n.who = p[k].who
    BY <2>3, NewTaskType
  <2>5. b \in SUBSET (Employees \X BOOLEAN) /\ p[k].who \in ReadersOf(b)
    BY <2>3, TwoReaders
  <2>6. i \in 1..MaxTasks
    BY <1>2, <2>1, LetterAssumption
  <2>7. /\ z \in Seq(Step) /\ DOMAIN z = DOMAIN p /\ \A m \in DOMAIN p : m # k => z[m] = p[m]
        /\ z[k].status = "active" /\ z[k].task = i /\ z[k].who = p[k].who
    <3>1. p \in Seq(Step) /\ k \in DOMAIN p /\ i \in 1..MaxTasks
      BY <1>2, <2>2, <2>6
    <3> HIDE DEF i
    <3> QED
      BY <3>1, ActivatedStep
  <2> HIDE DEF n, b, z
  <2>8. /\ t2 \in Seq(Task) /\ Len(t2) <= MaxTasks /\ DOMAIN t \subseteq DOMAIN t2
        /\ \A m \in DOMAIN t : t2[m] = t[m]
        /\ i \in DOMAIN t2 /\ t2[i] = n /\ MayRead(t2, a2)
    BY <1>2, <1>3, <2>1, <2>4, <2>5, AppendedTask
  <2>9. a2 \in SUBSET (Employees \X BOOLEAN)
    BY <1>3, <2>5
  <2>10. pl \in [Rounds -> Seq(Step)] /\ pl[r] = z /\ \A m \in Rounds : m # r => pl[m] = path[l][m]
    BY <1>2, <1>3, <2>7
  <2> HIDE DEF pl, t2, a2, i
  <2>11. path'[l] = pl /\ tasks'[l] = t2 /\ access'[l] = a2 /\ letter'[l] = letter[l]
    BY <1>2, <2>1, Facts
  <2>12. OnlyAt(l)
    BY <1>2, <2>1, <2>11, Facts DEF OnlyAt, OaInv, Tables
  <2>13. InTurnAt(z, t2, k)
    <3>1. \A m \in DOMAIN z : m \in Nat
      BY <1>2, <2>7
    <3>2. \A m \in DOMAIN z : m < k => z[m].status = "approved"
      <4> TAKE m \in DOMAIN z
      <4>1. HAVE m < k
      <4>2. m = j.step \/ m < j.step
        BY <1>5, <1>7, <3>1, <4>1
      <4>3. z[m] = p[m]
        BY <1>5, <1>7, <2>7, <3>1, <4>1
      <4> QED
        BY <1>2, <1>4, <2>7, <4>2, <4>3
    <3>3. \A m \in DOMAIN z : m > k => z[m].status = "pending"
      <4> TAKE m \in DOMAIN z
      <4>1. HAVE m > k
      <4>2. m > j.step /\ m # k
        BY <1>5, <1>7, <3>1, <4>1
      <4> QED
        BY <1>4, <2>7, <4>2
    <3>4. t2[z[k].task] = NewTask("approval", z[k].who)
      BY <2>7, <2>8 DEF n
    <3> QED
      BY <2>7, <2>8, <3>2, <3>3, <3>4 DEF InTurnAt
  <2>14. Standing(letter[l], pl, t2)
    BY <1>2, <1>3, <2>2, <2>7, <2>10, <2>13 DEF Standing, Waiting
  <2>15. GoodLetter(letter[l], pl, t2, a2)
    BY <1>3, <2>8, <2>9, <2>10, <2>14 DEF GoodLetter, TypedLetter
  <2>16. Kept(letter[l], path[l], tasks[l], letter[l], pl, t2)
    <3>1. \A m \in 1..r : m \in Rounds
      BY <1>3, LetterAssumption DEF Rounds
    <3>2. \A m \in 1..r : DOMAIN pl[m] = DOMAIN path[l][m]
      BY <1>2, <2>7, <2>10, <3>1
    <3>3. DOMAIN tasks[l] \subseteq DOMAIN t2 /\ \A m \in DOMAIN tasks[l] : t2[m].origin = tasks[l][m].origin
      BY <1>2, <2>8 DEF SameTasks
    <3> QED
      BY <1>2, <1>3, <3>2, <3>3 DEF Kept
  <2> QED
    BY <1>2, <2>11, <2>12, <2>15, <2>16 DEF Moved, l
<1>8. CASE k = 0
  <2> DEFINE pl == [path[l] EXCEPT ![r] = p]
  <2>1. Dispatch(l, t) /\ path' = [path EXCEPT ![l] = pl]
    BY <1>2, <1>6, <1>8, Facts
  <2>2. /\ letter' = [letter EXCEPT ![l] = letter'[l]]
        /\ tasks' = [tasks EXCEPT ![l] = tasks'[l]]
        /\ access' = [access EXCEPT ![l] = access'[l]]
        /\ letter'[l] \in Letter /\ letter'[l].status = "dispatched"
        /\ letter'[l].round = letter[l].round
        /\ tasks'[l] \in Seq(Task) /\ Len(tasks'[l]) <= MaxTasks
        /\ DOMAIN tasks[l] \subseteq DOMAIN tasks'[l]
        /\ \A i \in DOMAIN tasks[l] : tasks'[l][i].origin = tasks[l][i].origin
        /\ access'[l] \in SUBSET (Employees \X BOOLEAN)
        /\ MayRead(tasks'[l], access'[l])
    BY <1>2, <2>1, DispatchEffect
  <2>3. pl \in [Rounds -> Seq(Step)] /\ pl[r] = p /\ \A m \in Rounds : m # r => pl[m] = path[l][m]
    BY <1>2, <1>3
  <2> HIDE DEF pl
  <2>4. path'[l] = pl
    BY <1>2, <2>1, Facts
  <2>5. OnlyAt(l)
    BY <1>2, <2>1, <2>2, <2>4 DEF OnlyAt
  <2>6. Standing(letter'[l], pl, tasks'[l])
    BY <1>2, <1>3, <1>5, <1>8, <2>2, <2>3 DEF Standing
  <2>7. GoodLetter(letter'[l], pl, tasks'[l], access'[l])
    BY <2>2, <2>3, <2>6 DEF GoodLetter, TypedLetter
  <2>8. Kept(letter[l], path[l], tasks[l], letter'[l], pl, tasks'[l])
    <3>1. \A m \in 1..r : m \in Rounds
      BY <1>3, LetterAssumption DEF Rounds
    <3>2. \A m \in 1..r : DOMAIN pl[m] = DOMAIN path[l][m]
      BY <1>2, <2>3, <3>1
    <3> QED
      BY <1>2, <1>3, <2>2, <3>2 DEF Kept
  <2> QED
    BY <1>2, <2>4, <2>5, <2>7, <2>8 DEF Moved, l
<1> QED
  BY <1>7, <1>8

(* A step goes to the replacement with its task; nothing else of it moves. *)
LEMMA MovedStepType ==
  ASSUME NEW s \in Step, NEW d \in Employees, NEW i \in 0..MaxTasks
  PROVE  /\ MovedStep(s, d, i) \in Step /\ MovedStep(s, d, i).status = s.status
         /\ s.status = "active" => MovedStep(s, d, i).who = d /\ MovedStep(s, d, i).task = i
<1> DEFINE x == [s EXCEPT !.who = d, !.task = i]
<1>1. x \in Step /\ x.status = s.status /\ x.who = d /\ x.task = i
  BY DEF Step
<1>2. MovedStep(s, d, i) = IF s.status = "active" THEN x ELSE s
  BY DEF MovedStep
<1> QED
  BY <1>1, <1>2

LEMMA ReopenedTask ==
  ASSUME NEW x \in Task, NEW d \in Employees
  PROVE  /\ [x EXCEPT !.who = d, !.status = "open"] \in Task
         /\ [x EXCEPT !.who = d, !.status = "open"].who = d
         /\ x.origin = "approval" =>
              [x EXCEPT !.who = d, !.status = "open"] = NewTask("approval", d)
<1> DEFINE z == [x EXCEPT !.who = d, !.status = "open"]
<1>1. z \in Task /\ z.who = d /\ z.status = "open" /\ z.origin = x.origin
  BY DEF Task, TaskStatuses
<1> HIDE DEF z
<1>2. z = [origin |-> z.origin, who |-> z.who, status |-> z.status]
  BY <1>1 DEF Task
<1> USE DEF z
<1> QED
  BY <1>1, <1>2 DEF NewTask

(* A transfer, seen from one letter: the tasks that were read are closed   *)
(* and opened again for the replacement, whatever became of them since.    *)
LEMMA TransferredLetter ==
  ASSUME OaInv, NEW w \in Workers, EndTransfer(w), NEW l \in Letters
  PROVE  Moved(l)
<1> DEFINE j  == job[w]
           S  == j.moved[l]
           d  == j.to
           t  == tasks[l]
           N  == Cardinality(S)
           cl == [i \in DOMAIN t |-> IF i \in S THEN [t[i] EXCEPT !.status = "reassigned"] ELSE t[i]]
           nt == [k \in DOMAIN InOrder(S) |-> [t[InOrder(S)[k]] EXCEPT !.who = d, !.status = "open"]]
           t2 == cl \o nt
           a2 == IF S = {} THEN access[l] ELSE access[l] \cup {<<d, j.from \in Referrers(l)>>}
           new(i) == Len(t) + Rank(S, i)
           st(s)  == IF s.task \in S THEN MovedStep(s, d, new(s.task)) ELSE s
           pl == [r \in Rounds |-> [k \in DOMAIN path[l][r] |-> st(path[l][r][k])]]
           q  == letter[l]
<1>1. /\ q \in Letter /\ Standing(q, path[l], t) /\ path[l] \in [Rounds -> Seq(Step)]
      /\ t \in Seq(Task) /\ MayRead(t, access[l]) /\ access[l] \in SUBSET (Employees \X BOOLEAN)
      /\ q.round \in 0..MaxRounds /\ MaxRounds \in Nat /\ (q.round > 0 => q.round \in Rounds)
      /\ q.round + 1 \in Rounds
      /\ DOMAIN t = 1..Len(t) /\ Len(t) \in Nat
  BY Facts
<1>2. S \subseteq DOMAIN t /\ d \in Employees
  BY JobShape DEF EndTransfer
<1>3. S \in SUBSET Nat /\ IsFiniteSet(S)
  <2> HIDE DEF S
  <2>1. IsFiniteSet(1..Len(t))
    <3>1. 1 \in Int /\ Len(t) \in Int
      BY <1>1
    <3> QED
      BY <3>1, FS_Interval
  <2>2. S \in SUBSET (1..Len(t))
    BY <1>1, <1>2
  <2>3. IsFiniteSet(S)
    BY <2>1, <2>2, FS_Subset
  <2> QED
    BY <2>2, <2>3
<1>4. /\ N \in Nat /\ InOrder(S) \in [1..N -> S]
      /\ \A x \in S : Rank(S, x) \in 1..N /\ InOrder(S)[Rank(S, x)] = x
  BY <1>3, InOrderLists
<1>5. /\ tasks'[l] = t2 /\ access'[l] = a2 /\ path'[l] = pl /\ letter'[l] = q
      /\ Len(t) + N <= MaxTasks
  BY DEF EndTransfer
<1>6. cl \in Seq(Task) /\ Len(cl) = Len(t) /\ SameTasks(t, cl)
  <2>1. "reassigned" \in TaskStatuses
    BY DEF TaskStatuses
  <2> QED
    BY <1>1, <2>1, ClosedTasks
<1>7. \A i \in DOMAIN t : i \notin S => cl[i] = t[i]
  OBVIOUS
<1> HIDE DEF cl
<1>8. \A x \in Task : /\ [x EXCEPT !.who = d, !.status = "open"] \in Task
                      /\ [x EXCEPT !.who = d, !.status = "open"].who = d
                      /\ x.origin = "approval" =>
                           [x EXCEPT !.who = d, !.status = "open"] = NewTask("approval", d)
  BY ZenonT(60), <1>2, ReopenedTask
<1> HIDE DEF S, N
<1>9. /\ DOMAIN nt = 1..N /\ nt \in Seq(Task) /\ Len(nt) = N
      /\ \A k \in 1..N : nt[k].who = d /\ InOrder(S)[k] \in S
      /\ \A k \in 1..N : t[InOrder(S)[k]].origin = "approval" => nt[k] = NewTask("approval", d)
  <2>1. DOMAIN nt = 1..N
    BY <1>4
  <2>2. \A k \in 1..N : InOrder(S)[k] \in S /\ t[InOrder(S)[k]] \in Task
    BY <1>1, <1>2, <1>4
  <2>3. \A k \in 1..N : /\ nt[k] \in Task /\ nt[k].who = d
                        /\ t[InOrder(S)[k]].origin = "approval" => nt[k] = NewTask("approval", d)
    BY <1>8, <2>1, <2>2
  <2>4. nt \in [1..N -> Task]
    BY <2>1, <2>3
  <2> QED
    BY <1>4, <2>1, <2>2, <2>3, <2>4, FunctionIsSeq
<1> HIDE DEF nt
<1>10. /\ t2 \in Seq(Task) /\ Len(t2) = Len(t) + N /\ DOMAIN t2 = 1..(Len(t) + N)
       /\ \A i \in 1..(Len(t) + N) : t2[i] = IF i <= Len(t) THEN cl[i] ELSE nt[i - Len(t)]
  BY SMTT(30), <1>6, <1>9, ConcatProperties
<1> HIDE DEF t2
<1>11. /\ DOMAIN t \subseteq DOMAIN t2 /\ \A i \in DOMAIN t : t2[i] = cl[i]
       /\ \A k \in 1..N : Len(t) + k \in DOMAIN t2 /\ t2[Len(t) + k] = nt[k]
       /\ \A i \in DOMAIN t2 : i \in DOMAIN t \/ \E k \in 1..N : i = Len(t) + k
  <2>1. DOMAIN t \subseteq DOMAIN t2 /\ \A i \in DOMAIN t : t2[i] = cl[i]
    BY <1>1, <1>4, <1>10
  <2>2. \A k \in 1..N : Len(t) + k \in DOMAIN t2 /\ t2[Len(t) + k] = nt[k]
    <3> TAKE k \in 1..N
    <3>1. Len(t) + k \in 1..(Len(t) + N) /\ ~(Len(t) + k <= Len(t)) /\ Len(t) + k - Len(t) = k
      BY <1>1, <1>4
    <3> QED
      BY <1>10, <3>1
  <2>3. \A i \in DOMAIN t2 : i \in DOMAIN t \/ i - Len(t) \in 1..N
    BY <1>1, <1>4, <1>10
  <2>4. \A i \in DOMAIN t2 : i = Len(t) + (i - Len(t))
    BY <1>1, <1>10
  <2> QED
    BY <2>1, <2>2, <2>3, <2>4
<1>12. a2 \in SUBSET (Employees \X BOOLEAN) /\ MayRead(t, a2) /\ (N > 0 => d \in ReadersOf(a2))
  <2>1. CASE S = {}
    <3>1. N = 0
      BY <2>1, FS_EmptySet DEF N
    <3> QED
      BY <1>1, <2>1, <3>1
  <2>2. CASE S # {}
    <3> DEFINE f == j.from \in Referrers(l)
               b == {<<d, f>>}
    <3>1. f \in BOOLEAN
      OBVIOUS
    <3> HIDE DEF f
    <3>2. b \in SUBSET (Employees \X BOOLEAN) /\ d \in ReadersOf(b)
      <4>1. <<d, f>> \in Employees \X BOOLEAN
        BY <1>2, <3>1
      <4>2. <<d, f>> \in b
        OBVIOUS
      <4> QED
        BY <4>1, <4>2, ReaderOfRow
    <3>3. a2 = access[l] \cup b
      BY <2>2 DEF f
    <3> HIDE DEF b, a2
    <3> QED
      BY <1>1, <3>2, <3>3, ReadersStay, ReadersAdded
  <2> QED
    BY <2>1, <2>2
<1> HIDE DEF a2
<1>13. MayRead(t2, a2)
  <2> SUFFICES ASSUME NEW i \in DOMAIN t2 PROVE t2[i].who \in ReadersOf(a2)
    BY DEF MayRead
  <2>1. CASE i \in DOMAIN t
    BY <1>6, <1>11, <1>12, <2>1 DEF MayRead, SameTasks
  <2>2. CASE \E k \in 1..N : i = Len(t) + k
    <3>1. PICK k \in 1..N : i = Len(t) + k
      BY <2>2
    <3>2. t2[i] = nt[k] /\ nt[k].who = d
      BY <1>9, <1>11, <3>1
    <3>3. N > 0
      BY <1>4
    <3> QED
      BY <1>12, <3>2, <3>3
  <2> QED
    BY <1>11, <2>1, <2>2
<1>14. \A s \in Step : /\ st(s) \in Step /\ st(s).status = s.status
                       /\ s.task \notin S => st(s) = s
                       /\ s.task \in S /\ s.status = "active" =>
                            st(s).who = d /\ st(s).task = Len(t) + Rank(S, s.task)
  <2> TAKE s \in Step
  <2>1. CASE s.task \notin S
    BY <2>1
  <2>2. CASE s.task \in S
    <3> DEFINE i == Len(t) + Rank(S, s.task)
    <3>1. i \in 0..MaxTasks
      BY SMTT(30), <1>1, <1>4, <1>5, <2>2, LetterAssumption
    <3> HIDE DEF i
    <3>2. st(s) = MovedStep(s, d, i)
      BY <2>2 DEF i
    <3> HIDE DEF st
    <3>3. /\ st(s) \in Step /\ st(s).status = s.status
          /\ s.status = "active" => st(s).who = d /\ st(s).task = i
      BY <1>2, <3>1, <3>2, MovedStepType
    <3> QED
      BY <2>2, <3>3 DEF i
  <2> QED
    BY <2>1, <2>2
<1> HIDE DEF st
<1>15. \A r \in Rounds : /\ path[l][r] \in Seq(Step) /\ pl[r] \in Seq(Step)
                         /\ DOMAIN pl[r] = DOMAIN path[l][r]
                         /\ \A k \in DOMAIN path[l][r] : /\ path[l][r][k] \in Step
                                                         /\ pl[r][k] = st(path[l][r][k])
                                                         /\ pl[r][k].status = path[l][r][k].status
                         /\ path[l][r] = <<>> => pl[r] = <<>>
  <2> TAKE r \in Rounds
  <2> DEFINE s == path[l][r]
             u == [k \in DOMAIN s |-> st(s[k])]
  <2>1. s \in Seq(Step) /\ DOMAIN s = 1..Len(s) /\ Len(s) \in Nat /\ \A k \in DOMAIN s : s[k] \in Step
    BY <1>1
  <2>2. pl[r] = u
    OBVIOUS
  <2> HIDE DEF s
  <2>3. \A k \in DOMAIN s : u[k] = st(s[k]) /\ u[k] \in Step /\ u[k].status = s[k].status
    BY <1>14, <2>1
  <2>4. DOMAIN u = 1..Len(s)
    BY <2>1
  <2>5. u \in [1..Len(s) -> Step]
    BY <2>1, <2>3, <2>4
  <2> HIDE DEF u
  <2>6. u \in Seq(Step) /\ Len(u) = Len(s)
    BY <2>1, <2>5, FunctionIsSeq
  <2>7. s = <<>> => u = <<>>
    BY <2>6
  <2> QED
    BY <2>1, <2>2, <2>3, <2>4, <2>6, <2>7 DEF s
<1>16. pl \in [Rounds -> Seq(Step)]
  BY <1>15
<1> HIDE DEF pl
<1>17. \A r \in Rounds : /\ Broken(path[l][r]) => Broken(pl[r])
                         /\ Approved(path[l][r]) => Approved(pl[r])
  BY <1>15 DEF Broken, Approved
<1>18. ASSUME q.status = "in_approval" PROVE Waiting(pl[q.round], t2)
  <2> DEFINE r == q.round
             s == path[l][r]
  <2>1. r > 0 /\ r \in Rounds /\ Waiting(s, t)
    BY <1>1, <1>18 DEF Standing
  <2>2. PICK k \in DOMAIN s : InTurnAt(s, t, k)
    BY <2>1 DEF Waiting
  <2>3. /\ k \in DOMAIN pl[r] /\ DOMAIN pl[r] = DOMAIN s
        /\ \A m \in DOMAIN s : pl[r][m].status = s[m].status
        /\ pl[r][k] = st(s[k]) /\ s[k] \in Step
    BY <1>15, <2>1, <2>2
  <2> DEFINE x == pl[r][k]
             y == s[k]
  <2>4. /\ y.status = "active" /\ y.task \in DOMAIN t
        /\ t[y.task] = NewTask("approval", y.who)
    BY <2>2 DEF InTurnAt
  <2>5. x.task \in DOMAIN t2 /\ t2[x.task] = NewTask("approval", x.who)
    <3> HIDE DEF x, y, s, r
    <3>1. CASE y.task \in S
      <4> DEFINE i == Rank(S, y.task)
      <4>1. x.who = d /\ x.task = Len(t) + i
        BY <1>14, <2>3, <2>4, <3>1 DEF x, y
      <4>2. i \in 1..N /\ InOrder(S)[i] = y.task
        BY <1>4, <3>1
      <4>3. NewTask("approval", y.who).origin = "approval"
        BY DEF NewTask
      <4>4. nt[i] = NewTask("approval", d)
        BY <1>9, <2>4, <4>2, <4>3
      <4> HIDE DEF i
      <4> QED
        BY <1>11, <4>1, <4>2, <4>4
    <3>2. CASE y.task \notin S
      <4>1. x = y
        BY <1>14, <2>3, <3>2 DEF x, y
      <4> QED
        BY <1>7, <1>11, <2>4, <3>2, <4>1
    <3> QED
      BY <3>1, <3>2
  <2>6. InTurnAt(pl[r], t2, k)
    BY <2>2, <2>3, <2>5 DEF InTurnAt
  <2> QED
    BY <2>3, <2>6 DEF Waiting
<1>19. Standing(q, pl, t2)
  <2>1. q.round > 0 => /\ Broken(path[l][q.round]) => Broken(pl[q.round])
                       /\ Approved(path[l][q.round]) => Approved(pl[q.round])
    BY <1>1, <1>17
  <2>2. path[l][q.round + 1] = <<>> => pl[q.round + 1] = <<>>
    BY <1>1, <1>15
  <2>3. /\ q.status = "none" => q.round = 0
        /\ q.status = "draft" /\ q.round > 0 => Broken(path[l][q.round])
        /\ q.status = "in_approval" => q.round > 0
        /\ q.status \in {"dispatched", "cancelled"} =>
             \/ q.round > 0 /\ Approved(path[l][q.round])
             \/ path[l][q.round + 1] = <<>> /\ (q.round > 0 => Broken(path[l][q.round]))
        /\ q.number # 0 => q.status \in {"dispatched", "cancelled", "discarded"}
    BY <1>1 DEF Standing
  <2> QED
    BY <1>18, <2>1, <2>2, <2>3 DEF Standing
<1>20. GoodLetter(q, pl, t2, a2)
  BY <1>1, <1>5, <1>10, <1>12, <1>13, <1>16, <1>19 DEF GoodLetter, TypedLetter
<1>21. Kept(q, path[l], t, q, pl, t2)
  <2>1. \A r \in 1..q.round : r \in Rounds
    BY <1>1 DEF Rounds
  <2>2. \A r \in 1..q.round : DOMAIN pl[r] = DOMAIN path[l][r]
    BY <1>15, <2>1
  <2>3. \A i \in DOMAIN t : t2[i].origin = t[i].origin
    BY <1>6, <1>11 DEF SameTasks
  <2> QED
    BY <1>1, <1>11, <2>2, <2>3 DEF Kept
<1> QED
  BY <1>5, <1>20, <1>21 DEF Moved

-----------------------------------------------------------------------------
(* The step as a whole.                                                    *)

AllTables ==
  /\ letter \in [Letters -> Letter] /\ path \in [Letters -> [Rounds -> Seq(Step)]]
  /\ tasks \in [Letters -> Seq(Task)] /\ access \in [Letters -> SUBSET (Employees \X BOOLEAN)]

LEMMA UnmovedLetter ==
  ASSUME OaInv, NEW l \in Letters, letter'[l] = letter[l], path'[l] = path[l],
         tasks'[l] = tasks[l], access'[l] = access[l]
  PROVE  Moved(l)
  BY Facts DEF Moved, Kept, GoodLetter, TypedLetter

LEMMA LocalStep ==
  ASSUME OaInv, NEW l \in Letters, OnlyAt(l), Moved(l)
  PROVE  AllTables' /\ \A m \in Letters : Moved(m)
<1>1. /\ letter'[l] \in Letter /\ path'[l] \in [Rounds -> Seq(Step)]
      /\ tasks'[l] \in Seq(Task) /\ access'[l] \in SUBSET (Employees \X BOOLEAN)
  BY DEF Moved, GoodLetter, TypedLetter
<1>2. AllTables'
  BY <1>1 DEF OnlyAt, AllTables, OaInv, Tables
<1>3. \A m \in Letters : Moved(m)
  <2> TAKE m \in Letters
  <2>1. CASE m = l
    BY <2>1
  <2>2. CASE m # l
    <3>1. /\ letter'[m] = letter[m] /\ path'[m] = path[m]
          /\ tasks'[m] = tasks[m] /\ access'[m] = access[m]
      BY <2>2, Facts DEF OnlyAt
    <3> QED
      BY <3>1, UnmovedLetter
  <2> QED
    BY <2>1, <2>2
<1> QED
  BY <1>2, <1>3

LEMMA TransferStep ==
  ASSUME OaInv, NEW w \in Workers, EndTransfer(w)
  PROVE  AllTables' /\ \A m \in Letters : Moved(m)
<1>1. \A m \in Letters : Moved(m)
  BY TransferredLetter
<1>2. \A m \in Letters : /\ letter'[m] \in Letter /\ path'[m] \in [Rounds -> Seq(Step)]
                         /\ tasks'[m] \in Seq(Task) /\ access'[m] \in SUBSET (Employees \X BOOLEAN)
  BY <1>1 DEF Moved, GoodLetter, TypedLetter
<1>3. /\ tasks' = [m \in Letters |-> tasks'[m]] /\ path' = [m \in Letters |-> path'[m]]
      /\ access' = [m \in Letters |-> access'[m]] /\ letter' = letter
  BY DEF EndTransfer
<1> QED
  BY <1>1, <1>2, <1>3 DEF AllTables, OaInv, Tables

(* What a request has read a step ago still fits.                          *)
LEMMA StillFits ==
  ASSUME OaInv, \A l \in Letters : Moved(l), NEW w \in Workers, NEW j, j = job[w]
  PROVE  JobFits(j, letter', path', tasks')
<1>1. JobFits(j, letter, path, tasks)
  BY DEF OaInv
<1>2. \A l \in Letters : /\ letter[l].round <= letter'[l].round
                         /\ letter[l].round \in Nat /\ letter'[l].round \in Nat
                         /\ DOMAIN tasks[l] \subseteq DOMAIN tasks'[l]
                         /\ \A i \in DOMAIN tasks[l] : tasks'[l][i].origin = tasks[l][i].origin
                         /\ \A r \in 1..letter[l].round : DOMAIN path'[l][r] = DOMAIN path[l][r]
  <2> TAKE l \in Letters
  <2>1. letter[l].round \in Nat /\ letter'[l] \in Letter
    BY Facts DEF Moved, GoodLetter, TypedLetter
  <2>2. letter'[l].round \in Nat
    BY <2>1 DEF Letter
  <2> QED
    BY <2>1, <2>2 DEF Moved, Kept
<1>3. CASE j.do = "complete"
  <2>1. j.letter \in Letters
    BY <1>3, JobShape
  <2> QED
    BY <1>1, <1>2, <1>3, <2>1 DEF JobFits
<1>4. CASE j.do = "transfer"
  BY <1>1, <1>2, <1>4 DEF JobFits
<1>5. CASE j.do = "decide"
  <2>1. j.letter \in Letters /\ j.round \in 1..MaxRounds /\ j.round <= letter[j.letter].round
    BY <1>5, JobShape
  <2>2. j.round \in 1..letter[j.letter].round /\ j.round <= letter'[j.letter].round
    BY <1>2, <2>1, LetterAssumption
  <2> QED
    BY <1>1, <1>2, <1>5, <2>1, <2>2 DEF JobFits
<1>6. CASE j.do \notin {"complete", "transfer", "decide"}
  BY <1>1, <1>6 DEF JobFits
<1> QED
  BY <1>3, <1>4, <1>5, <1>6

(* A request that begins has read what is there.                           *)
LEMMA NewJobs ==
  ASSUME OaInv, NEW w \in Workers, NEW l \in Letters, Started(w, l)
  PROVE  \E j : /\ job' = [job EXCEPT ![w] = j] /\ JobFits(j, letter, path, tasks)
                /\ UNCHANGED <<letter, path, tasks, access, counter, issued>>
<1>1. ASSUME NEW text \in Texts, NEW act \in BOOLEAN, NEW p \in Maybe(Employees),
             BeginSave(w, l, text, act, p)
      PROVE  \E j : /\ job' = [job EXCEPT ![w] = j] /\ JobFits(j, letter, path, tasks)
                    /\ UNCHANGED <<letter, path, tasks, access, counter, issued>>
  <2> DEFINE h   == TextOnly(text)
             new == [letter[l] EXCEPT !.text = text, !.hash = h, !.act = act, !.principal = p]
             x   == Columns(new, letter[l])
             j   == [do |-> "save", letter |-> l, writes |-> x]
             n   == Written(NoLetter, x)
  <2>1. letter[l] \in Letter /\ h \in Content
    BY Facts DEF Content, TextOnly, Maybe
  <2>2. new \in Letter /\ DOMAIN new = DOMAIN letter[l]
        /\ \A c \in DOMAIN letter[l] : c \notin {"text", "hash", "act", "principal"} => new[c] = letter[l][c]
    <3> HIDE DEF h
    <3> QED
      BY <2>1 DEF Letter, Maybe
  <2>3. DOMAIN letter[l] = {"status", "text", "files", "to", "cc", "act", "hash", "principal",
                            "round", "number", "book"}
    BY <2>1 DEF Letter
  <2>4. NoLetter \in Letter
    BY LetterAssumption DEF NoLetter, Letter, Maybe, Content, TextOnly
  <2> HIDE DEF new
  <2>5. DOMAIN x \subseteq {"text", "hash", "act", "principal"} /\ \A c \in DOMAIN x : x[c] = new[c]
    BY <2>2 DEF Columns
  <2> HIDE DEF x
  <2>6. n \in Letter
    <3>1. DOMAIN n = DOMAIN NoLetter /\ n = [c \in DOMAIN n |-> n[c]]
          /\ \A c \in DOMAIN NoLetter : n[c] = IF c \in DOMAIN x THEN new[c] ELSE NoLetter[c]
      BY <2>5 DEF Written
    <3>2. DOMAIN NoLetter = {"status", "text", "files", "to", "cc", "act", "hash", "principal",
                             "round", "number", "book"}
      BY <2>4 DEF Letter
    <3> HIDE DEF n
    <3>3. /\ n.status = NoLetter.status /\ n.files = NoLetter.files /\ n.to = NoLetter.to
          /\ n.cc = NoLetter.cc /\ n.act \in {new.act, NoLetter.act}
          /\ n.round = NoLetter.round /\ n.number = NoLetter.number /\ n.book = NoLetter.book
          /\ n.text \in {new.text, NoLetter.text} /\ n.hash \in {new.hash, NoLetter.hash}
          /\ n.principal \in {new.principal, NoLetter.principal}
      BY <2>5, <3>1, <3>2
    <3> QED
      BY <2>2, <2>4, <3>1, <3>2, <3>3 DEF Letter
  <2>7. IsSave(j)
    BY <2>5, <2>6 DEF IsSave
  <2>8. JobFits(j, letter, path, tasks)
    BY <2>7 DEF JobFits
  <2> QED
    BY <1>1, <2>8 DEF BeginSave, Begin, new, x
<1>2. ASSUME BeginDiscard(w, l)
      PROVE  \E j : /\ job' = [job EXCEPT ![w] = j] /\ JobFits(j, letter, path, tasks)
                    /\ UNCHANGED <<letter, path, tasks, access, counter, issued>>
  <2>1. JobFits([do |-> "discard", letter |-> l], letter, path, tasks)
    BY DEF JobFits, Job
  <2> QED
    BY <1>2, <2>1 DEF BeginDiscard, Begin
<1>3. ASSUME NEW f \in Files, BeginAttach(w, l, f)
      PROVE  \E j : /\ job' = [job EXCEPT ![w] = j] /\ JobFits(j, letter, path, tasks)
                    /\ UNCHANGED <<letter, path, tasks, access, counter, issued>>
  <2>1. JobFits([do |-> "attach", letter |-> l, file |-> f], letter, path, tasks)
    BY DEF JobFits, Job
  <2> QED
    BY <1>3, <2>1 DEF BeginAttach, Begin
<1>4. ASSUME NEW f \in Files, BeginDetach(w, l, f)
      PROVE  \E j : /\ job' = [job EXCEPT ![w] = j] /\ JobFits(j, letter, path, tasks)
                    /\ UNCHANGED <<letter, path, tasks, access, counter, issued>>
  <2>1. JobFits([do |-> "detach", letter |-> l, file |-> f], letter, path, tasks)
    BY DEF JobFits, Job
  <2> QED
    BY <1>4, <2>1 DEF BeginDetach, Begin
<1>5. ASSUME NEW i \in DOMAIN tasks[l], BeginComplete(w, l, i)
      PROVE  \E j : /\ job' = [job EXCEPT ![w] = j] /\ JobFits(j, letter, path, tasks)
                    /\ UNCHANGED <<letter, path, tasks, access, counter, issued>>
  <2> DEFINE j == [do |-> "complete", letter |-> l, task |-> i]
  <2>1. i \in 1..MaxTasks
    <3>1. tasks[l] \in Seq(Task) /\ Len(tasks[l]) <= MaxTasks /\ MaxTasks \in Nat
      BY Facts, LetterAssumption
    <3> QED
      BY <3>1
  <2>2. tasks[l][i].origin # "approval"
    BY <1>5 DEF BeginComplete
  <2>3. JobFits(j, letter, path, tasks)
    BY <2>1, <2>2 DEF JobFits, Job
  <2> QED
    BY <1>5, <2>3 DEF BeginComplete, Begin
<1>6. ASSUME NEW e \in Employees, NEW k, BeginDecision(w, e, l, k)
      PROVE  \E j : /\ job' = [job EXCEPT ![w] = j] /\ JobFits(j, letter, path, tasks)
                    /\ UNCHANGED <<letter, path, tasks, access, counter, issued>>
  <2> DEFINE r == letter[l].round
             j == [do |-> "decide", letter |-> l, round |-> r, step |-> k, by |-> e]
  <2>1. r \in 1..MaxRounds /\ r \in Rounds /\ path[l][r] \in Seq(Step)
    BY <1>6, Facts DEF BeginDecision
  <2>2. k \in DOMAIN path[l][r]
    BY <1>6 DEF BeginDecision, Steps
  <2>3. k \in Nat
    BY <2>1, <2>2
  <2>4. j \in Job
    <3> HIDE DEF r
    <3> QED
      BY <2>1, <2>3 DEF Job
  <2>5. JobFits(j, letter, path, tasks)
    BY <2>1, <2>2, <2>4 DEF JobFits
  <2> QED
    BY <1>6, <2>5 DEF BeginDecision, Begin
<1> QED
  BY <1>1, <1>2, <1>3, <1>4, <1>5, <1>6 DEF Started

LEMMA NewTransfer ==
  ASSUME OaInv, NEW w \in Workers, NEW e \in Employees, NEW d \in Employees,
         BeginTransfer(w, e, d)
  PROVE  \E j : /\ job' = [job EXCEPT ![w] = j] /\ JobFits(j, letter, path, tasks)
                /\ UNCHANGED <<letter, path, tasks, access, counter, issued>>
<1> DEFINE moved == [l \in Letters |-> IF letter[l].status \in TaskLetterStatuses
                                       THEN {i \in OpenTasks(l) : tasks[l][i].who = e} ELSE {}]
           j == [do |-> "transfer", from |-> e, to |-> d, moved |-> moved]
<1>1. \A l \in Letters : moved[l] \subseteq DOMAIN tasks[l] /\ DOMAIN tasks[l] \subseteq 1..MaxTasks
  <2> TAKE l \in Letters
  <2>1. tasks[l] \in Seq(Task) /\ Len(tasks[l]) <= MaxTasks /\ MaxTasks \in Nat
    BY Facts, LetterAssumption
  <2>2. DOMAIN tasks[l] \subseteq 1..MaxTasks
    BY <2>1
  <2> QED
    BY <2>2 DEF OpenTasks
<1>2. job' = [job EXCEPT ![w] = j] /\ UNCHANGED <<letter, path, tasks, access, counter, issued>>
  BY DEF BeginTransfer, Begin
<1> HIDE DEF moved
<1>3. moved \in [Letters -> SUBSET (1..MaxTasks)]
  BY <1>1 DEF moved
<1>4. JobFits(j, letter, path, tasks)
  BY <1>1, <1>3 DEF JobFits, Job
<1> QED
  BY <1>2, <1>4

(* The numbers stay what they are, ...                                     *)
NumbersSame ==
  /\ UNCHANGED <<counter, issued>>
  /\ \A l \in Letters : letter'[l].number = letter[l].number /\ letter'[l].book = letter[l].book

(* ... or the letter l leaves with the next number of its secretariat, ... *)
Numbered(l) ==
  \E s \in Sites :
    /\ letter[l].number = 0
    /\ counter' = [counter EXCEPT ![s] = @ + 1]
    /\ issued' = issued \cup {[site |-> s, no |-> counter[s] + 1, letter |-> l, void |-> FALSE]}
    /\ letter'[l].number = counter[s] + 1 /\ letter'[l].book = s
    /\ \A m \in Letters : m # l => letter'[m] = letter[m]

(* ... or the number of l is made void.                                    *)
Voided(l) ==
  /\ UNCHANGED counter
  /\ issued' = {[n EXCEPT !.void = n.void \/ n.letter = l] : n \in issued}
  /\ \A m \in Letters : letter'[m].number = letter[m].number /\ letter'[m].book = letter[m].book

RegisterMove == NumbersSame \/ \E l \in Letters : Numbered(l) \/ Voided(l)

LEMMA RowNumbers ==
  ASSUME OaInv, NEW l \in Letters, NEW q, letter' = [letter EXCEPT ![l] = q],
         UNCHANGED <<counter, issued>>,
         q.number = letter[l].number, q.book = letter[l].book
  PROVE  NumbersSame
<1>1. \A m \in Letters : letter'[m] = IF m = l THEN q ELSE letter[m]
  BY Facts
<1> QED
  BY <1>1 DEF NumbersSame

LEMMA DispatchNumbers ==
  ASSUME OaInv, NEW l \in Letters, NEW t, Dispatch(l, t),
         letter[l].status \in {"draft", "in_approval"}
  PROVE  Numbered(l)
<1> DEFINE s == SiteOf[Sender(l)]
           q == [letter[l] EXCEPT !.status = "dispatched", !.number = counter[s] + 1,
                                  !.book = s, !.hash = ContentOf(letter[l])]
<1>1. letter[l] \in Letter /\ Standing(letter[l], path[l], tasks[l])
  BY Facts
<1>2. s \in Sites
  BY Facts DEF Sites
<1>3. letter[l].number = 0
  BY <1>1 DEF Standing
<1>4. /\ counter' = [counter EXCEPT ![s] = @ + 1]
      /\ issued' = issued \cup {[site |-> s, no |-> counter[s] + 1, letter |-> l, void |-> FALSE]}
      /\ letter' = [letter EXCEPT ![l] = q]
  BY DEF Dispatch
<1>5. q.number = counter[s] + 1 /\ q.book = s
  BY <1>1 DEF Letter
<1> HIDE DEF q, s
<1>6. \A m \in Letters : letter'[m] = IF m = l THEN q ELSE letter[m]
  BY <1>4, Facts
<1> QED
  BY <1>2, <1>3, <1>4, <1>5, <1>6 DEF Numbered

LEMMA LockedNumbers ==
  ASSUME OaInv, NEW l \in Letters, Locked(l)
  PROVE  RegisterMove
<1>0. letter[l] \in Letter
  BY Facts
<1>1. CASE Create(l)
  <2>1. [letter[l] EXCEPT !.status = "draft"].number = letter[l].number
        /\ [letter[l] EXCEPT !.status = "draft"].book = letter[l].book
    BY <1>0 DEF Letter
  <2> QED
    BY <1>1, <2>1, RowNumbers DEF Create, RegisterMove
<1>2. CASE Submit(l)
  <2> DEFINE q == [letter[l] EXCEPT !.status = "in_approval", !.round = letter[l].round + 1,
                                    !.hash = ContentOf(letter[l])]
  <2>1. q.number = letter[l].number /\ q.book = letter[l].book
    BY <1>0 DEF Letter
  <2>2. letter' = [letter EXCEPT ![l] = q] /\ UNCHANGED <<counter, issued>>
    BY <1>2 DEF Submit
  <2> QED
    BY <2>1, <2>2, RowNumbers DEF RegisterMove
<1>3. CASE Send(l)
  <2>1. Dispatch(l, tasks[l]) /\ letter[l].status \in {"draft", "in_approval"}
    BY <1>3 DEF Send, IsDraft
  <2> QED
    BY <2>1, DispatchNumbers DEF RegisterMove
<1>4. CASE Withdraw(l)
  <2> DEFINE q == [letter[l] EXCEPT !.status = "draft"]
  <2>1. q.number = letter[l].number /\ q.book = letter[l].book
    BY <1>0 DEF Letter
  <2>2. letter' = [letter EXCEPT ![l] = q] /\ UNCHANGED <<counter, issued>>
    BY <1>4 DEF Withdraw, BackToDraft
  <2> QED
    BY <2>1, <2>2, RowNumbers DEF RegisterMove
<1>5. CASE Cancel(l)
  <2> DEFINE q == [letter[l] EXCEPT !.status = "cancelled"]
  <2>1. q.number = letter[l].number /\ q.book = letter[l].book
    BY <1>0 DEF Letter
  <2>2. letter' = [letter EXCEPT ![l] = q] /\ UNCHANGED counter
        /\ issued' = {[n EXCEPT !.void = n.void \/ n.letter = l] : n \in issued}
    BY <1>5 DEF Cancel
  <2> HIDE DEF q
  <2>3. \A m \in Letters : letter'[m] = IF m = l THEN q ELSE letter[m]
    BY <2>2, Facts
  <2>4. Voided(l)
    BY <2>1, <2>2, <2>3 DEF Voided
  <2> QED
    BY <2>4 DEF RegisterMove
<1>6. ASSUME NEW list \in Lists, SetRecipients(l, list) PROVE RegisterMove
  <2> DEFINE q == [letter[l] EXCEPT !.to = list.to, !.cc = list.cc]
  <2>1. q.number = letter[l].number /\ q.book = letter[l].book
    BY <1>0 DEF Letter
  <2>2. letter' = [letter EXCEPT ![l] = q] /\ UNCHANGED <<counter, issued>>
    BY <1>6 DEF SetRecipients
  <2> QED
    BY <2>1, <2>2, RowNumbers DEF RegisterMove
<1>7. ASSUME NEW p \in Plans, SetPlan(l, p) PROVE RegisterMove
  BY <1>7 DEF SetPlan, RegisterMove, NumbersSame
<1>8. ASSUME NEW e \in Employees, NEW d \in Employees, NEW mayRefer \in BOOLEAN,
             Refer(l, e, d, mayRefer)
      PROVE  RegisterMove
  BY <1>8 DEF Refer, RegisterMove, NumbersSame
<1> QED
  BY <1>1, <1>2, <1>3, <1>4, <1>5, <1>6, <1>7, <1>8 DEF Locked

LEMMA EndedNumbers ==
  ASSUME OaInv, NEW w \in Workers, Ended(w)
  PROVE  RegisterMove
<1> DEFINE l == job[w].letter
<1>1. CASE EndSave(w)
  <2> DEFINE q == Written(letter[l], job[w].writes)
  <2>1. IsSave(job[w])
    BY <1>1, JobShape DEF EndSave
  <2>2. l \in Letters
    BY <2>1 DEF IsSave
  <2>3. q.number = letter[l].number /\ q.book = letter[l].book
    BY <2>1, <2>2, Facts, WrittenRow DEF IsSave
  <2>4. letter' = [letter EXCEPT ![l] = q] /\ UNCHANGED <<counter, issued>>
    BY <1>1 DEF EndSave
  <2> QED
    BY <2>2, <2>3, <2>4, RowNumbers DEF RegisterMove
<1>2. CASE EndDiscard(w)
  <2> DEFINE q == [letter[l] EXCEPT !.status = "discarded", !.files = {}]
  <2>1. l \in Letters /\ letter[l] \in Letter
    BY <1>2, JobShape, Facts DEF EndDiscard
  <2>2. q.number = letter[l].number /\ q.book = letter[l].book
    BY <2>1 DEF Letter
  <2>3. letter' = [letter EXCEPT ![l] = q] /\ UNCHANGED <<counter, issued>>
    BY <1>2, <2>1, Facts DEF EndDiscard
  <2> QED
    BY <2>1, <2>2, <2>3, RowNumbers DEF RegisterMove
<1>3. CASE EndAttach(w) \/ EndDetach(w)
  <2> DEFINE fs == IF job[w].do = "attach" THEN letter[l].files \cup {job[w].file}
                   ELSE letter[l].files \ {job[w].file}
             q  == [letter[l] EXCEPT !.files = fs]
  <2>1. l \in Letters /\ letter[l] \in Letter
    BY <1>3, JobShape, Facts DEF EndAttach, EndDetach
  <2>2. letter' = [letter EXCEPT ![l] = q] /\ UNCHANGED <<counter, issued>>
    BY <1>3, <2>1, Facts DEF EndAttach, EndDetach
  <2> HIDE DEF fs
  <2>3. q.number = letter[l].number /\ q.book = letter[l].book
    BY <2>1 DEF Letter
  <2> QED
    BY <2>1, <2>2, <2>3, RowNumbers DEF RegisterMove
<1>4. CASE EndApprove(w)
  <2>1. job[w].do = "decide" /\ InTurn(job[w])
    BY <1>4 DEF EndApprove
  <2>2. l \in Letters /\ letter[l].status \in {"draft", "in_approval"}
    BY <2>1, DecisionInTurn
  <2>3. UNCHANGED <<letter, counter, issued>> \/ Dispatch(l, TaskClosed(job[w]))
    BY <1>4 DEF EndApprove
  <2>4. CASE UNCHANGED <<letter, counter, issued>>
    BY <2>4 DEF RegisterMove, NumbersSame
  <2> QED
    BY <2>2, <2>3, <2>4, DispatchNumbers DEF RegisterMove
<1>5. CASE EndReturn(w)
  <2> DEFINE q == [letter[l] EXCEPT !.status = "draft"]
  <2>1. job[w].do = "decide"
    BY <1>5 DEF EndReturn
  <2>2. l \in Letters /\ letter[l] \in Letter
    BY <2>1, JobShape, Facts
  <2>3. q.number = letter[l].number /\ q.book = letter[l].book
    BY <2>2 DEF Letter
  <2>4. letter' = [letter EXCEPT ![l] = q] /\ UNCHANGED <<counter, issued>>
    BY <1>5 DEF EndReturn, BackToDraft
  <2> QED
    BY <2>2, <2>3, <2>4, RowNumbers DEF RegisterMove
<1>6. CASE EndComplete(w) \/ EndTransfer(w) \/ GiveUp(w)
  <2>1. UNCHANGED <<letter, counter, issued>>
    BY <1>6 DEF EndComplete, EndTransfer, GiveUp
  <2> QED
    BY <2>1 DEF RegisterMove, NumbersSame
<1> QED
  BY <1>1, <1>2, <1>3, <1>4, <1>5, <1>6 DEF Ended

LEMMA CountedStep ==
  ASSUME OaInv, RegisterMove
  PROVE  Counted'
<1>1. /\ counter \in [Sites -> Nat] /\ \A n \in issued : n.no <= counter[n.site]
      /\ issued \subseteq [site : Sites, no : Nat \ {0}, letter : Letters, void : BOOLEAN]
      /\ \A l \in Letters : letter[l].number # 0 => \E n \in issued : RowOf(l, n)
  BY DEF OaInv, Counted
<1>2. CASE NumbersSame
  BY <1>1, <1>2 DEF NumbersSame, Counted, RowOf
<1>3. ASSUME NEW l \in Letters, Numbered(l) PROVE Counted'
  <2>1. PICK s \in Sites :
          /\ counter' = [counter EXCEPT ![s] = @ + 1]
          /\ issued' = issued \cup {[site |-> s, no |-> counter[s] + 1, letter |-> l, void |-> FALSE]}
          /\ letter'[l].number = counter[s] + 1 /\ letter'[l].book = s
          /\ \A m \in Letters : m # l => letter'[m] = letter[m]
    BY <1>3 DEF Numbered
  <2> DEFINE e == [site |-> s, no |-> counter[s] + 1, letter |-> l, void |-> FALSE]
  <2>2. e \in [site : Sites, no : Nat \ {0}, letter : Letters, void : BOOLEAN]
        /\ e.site = s /\ e.no = counter[s] + 1 /\ e.letter = l
    BY <1>1
  <2>3. counter' \in [Sites -> Nat] /\ counter'[s] = counter[s] + 1
        /\ \A x \in Sites : counter[x] <= counter'[x]
    BY <1>1, <2>1
  <2> HIDE DEF e
  <2>4. issued' = issued \cup {e}
    BY <2>1 DEF e
  <2>5. \A n \in issued' : n.no <= counter'[n.site]
    <3> TAKE n \in issued'
    <3>1. CASE n = e
      BY <2>2, <2>3, <3>1, <1>1
    <3>2. CASE n \in issued
      <4>1. n.site \in Sites /\ n.no \in Nat
        BY <1>1, <3>2
      <4>2. counter[n.site] \in Nat /\ counter'[n.site] \in Nat
        BY <1>1, <2>3, <4>1
      <4> QED
        BY <1>1, <2>3, <3>2, <4>1, <4>2
    <3> QED
      BY <2>4, <3>1, <3>2
  <2>6. \A m \in Letters : letter'[m].number # 0 => \E n \in issued' : RowOf(m, n)'
    <3> TAKE m \in Letters
    <3>1. CASE m = l
      BY <2>1, <2>2, <2>4, <3>1 DEF RowOf
    <3>2. CASE m # l
      BY <1>1, <2>1, <2>4, <3>2 DEF RowOf
    <3> QED
      BY <3>1, <3>2
  <2> QED
    BY <1>1, <2>2, <2>3, <2>4, <2>5, <2>6 DEF Counted
<1>4. ASSUME NEW l \in Letters, Voided(l) PROVE Counted'
  <2> DEFINE x(n) == [n EXCEPT !.void = n.void \/ n.letter = l]
  <2>1. /\ counter' = counter /\ issued' = {x(n) : n \in issued}
        /\ \A m \in Letters : letter'[m].number = letter[m].number /\ letter'[m].book = letter[m].book
    BY <1>4 DEF Voided
  <2>2. \A n \in issued : /\ x(n) \in [site : Sites, no : Nat \ {0}, letter : Letters, void : BOOLEAN]
                          /\ x(n).no = n.no /\ x(n).site = n.site /\ x(n).letter = n.letter
    BY <1>1
  <2> HIDE DEF x
  <2> QED
    BY <1>1, <2>1, <2>2 DEF Counted, RowOf
<1> QED
  BY <1>2, <1>3, <1>4 DEF RegisterMove

(* Whatever a step does to the tables, the jobs of the others still fit.   *)
LEMMA JobsStillFit ==
  ASSUME OaInv, AllTables', \A l \in Letters : Moved(l), RegisterMove,
         job' = job \/ \E w \in Workers : job' = [job EXCEPT ![w] = Idle]
  PROVE  OaInv'
<1>1. job = [w \in Workers |-> job[w]]
  BY DEF OaInv, Tables
<1>2. \A w \in Workers : job'[w] \in {job[w], Idle}
  BY <1>1
<1>3. job' = [w \in Workers |-> job'[w]]
  BY <1>1
<1>4. \A w \in Workers : JobFits(job'[w], letter', path', tasks')
  <2> TAKE w \in Workers
  <2>1. CASE job'[w] = job[w]
    BY <2>1, StillFits
  <2>2. CASE job'[w] = Idle
    <3>1. JobFits(Idle, letter', path', tasks')
      BY DEF JobFits, Job, Idle
    <3> QED
      BY <2>2, <3>1
  <2> QED
    BY <1>2, <2>1, <2>2
<1>5. \A l \in Letters : Good(l)'
  BY DEF Moved, Good
<1>6. Tables'
  BY <1>3 DEF AllTables, Tables
<1>7. Counted'
  BY CountedStep
<1> QED
  BY <1>4, <1>5, <1>6, <1>7 DEF OaInv

(* A request that begins changes its job only.                             *)
LEMMA OneMoreJob ==
  ASSUME OaInv, NEW w \in Workers, NEW j, job' = [job EXCEPT ![w] = j],
         JobFits(j, letter, path, tasks),
         UNCHANGED <<letter, path, tasks, access, counter, issued>>
  PROVE  OaInv'
<1>1. job = [v \in Workers |-> job[v]]
  BY DEF OaInv, Tables
<1>2. \A v \in Workers : job'[v] = IF v = w THEN j ELSE job[v]
  BY <1>1
<1>3. \A v \in Workers : JobFits(job'[v], letter', path', tasks')
  BY <1>2 DEF OaInv
<1>4. Tables'
  <2>1. job' = [v \in Workers |-> job'[v]]
    BY <1>1
  <2> QED
    BY <2>1 DEF OaInv, Tables
<1>5. \A l \in Letters : Good(l)'
  BY DEF OaInv, Good
<1>6. Counted'
  BY DEF OaInv, Counted, RowOf
<1> QED
  BY <1>3, <1>4, <1>5, <1>6 DEF OaInv

LEMMA LockedStep ==
  ASSUME OaInv, NEW l \in Letters, Locked(l)
  PROVE  OnlyAt(l) /\ Moved(l) /\ job' = job
<1>1. OnlyAt(l) /\ Moved(l)
  BY CreateStep, SubmitStep, SendStep, WithdrawStep, CancelStep, SetRecipientsStep, SetPlanStep,
     ReferStep DEF Locked
<1>2. job' = job
  BY DEF Locked, Create, Submit, Send, Withdraw, Cancel, SetRecipients, SetPlan, Refer
<1> QED
  BY <1>1, <1>2

LEMMA EndedStep ==
  ASSUME OaInv, NEW w \in Workers, Ended(w)
  PROVE  AllTables' /\ (\A l \in Letters : Moved(l)) /\ job' = [job EXCEPT ![w] = Idle]
<1>1. job' = [job EXCEPT ![w] = Idle]
  BY DEF Ended, EndSave, EndDiscard, EndAttach, EndDetach, EndComplete, EndTransfer, EndApprove,
         EndReturn, GiveUp, End
<1>2. CASE EndTransfer(w)
  BY <1>1, <1>2, TransferStep
<1>3. CASE GiveUp(w)
  <2>1. UNCHANGED <<letter, path, tasks, access>>
    BY <1>3 DEF GiveUp
  <2>2. \A l \in Letters : Moved(l)
    BY <2>1, UnmovedLetter
  <2> QED
    BY <1>1, <2>1, <2>2 DEF AllTables, OaInv, Tables
<1>4. CASE ~EndTransfer(w) /\ ~GiveUp(w)
  <2>1. job[w].letter \in Letters /\ OnlyAt(job[w].letter) /\ Moved(job[w].letter)
    BY <1>4, EndSaveStep, EndDiscardStep, EndAttachStep, EndCompleteStep, EndApproveStep,
       EndReturnStep DEF Ended
  <2> QED
    BY <1>1, <2>1, LocalStep
<1> QED
  BY <1>2, <1>3, <1>4

LEMMA StepKeeps == OaInv /\ [Next]_vars => OaInv'
<1> SUFFICES ASSUME OaInv, [Next]_vars PROVE OaInv'
  OBVIOUS
<1>1. ASSUME NEW l \in Letters, Locked(l) PROVE OaInv'
  <2>1. AllTables' /\ \A m \in Letters : Moved(m)
    BY <1>1, LockedStep, LocalStep
  <2> QED
    BY <1>1, <2>1, LockedStep, LockedNumbers, JobsStillFit
<1>2. ASSUME NEW l \in Letters, NEW w \in Workers, Started(w, l) PROVE OaInv'
  BY <1>2, NewJobs, OneMoreJob
<1>3. ASSUME NEW w \in Workers, Ended(w) PROVE OaInv'
  BY <1>3, EndedStep, EndedNumbers, JobsStillFit
<1>4. ASSUME NEW w \in Workers, NEW e \in Employees, NEW d \in Employees, BeginTransfer(w, e, d)
      PROVE  OaInv'
  BY <1>4, NewTransfer, OneMoreJob
<1>5. ASSUME UNCHANGED vars PROVE OaInv'
  BY <1>5 DEF vars, OaInv, Tables, Good, Counted, RowOf
<1> QED
  BY <1>1, <1>2, <1>3, <1>4, <1>5 DEF Next

LEMMA StartsGood == Init => OaInv
<1> SUFFICES ASSUME Init PROVE OaInv
  OBVIOUS
<1>1. NoLetter \in Letter
  BY LetterAssumption DEF NoLetter, Letter, Maybe, Content, TextOnly
<1>2. NoLetter.status = "none" /\ NoLetter.round = 0 /\ NoLetter.number = 0
  BY DEF NoLetter
<1>3. \A l \in Letters : /\ letter[l] = NoLetter /\ path[l] = [r \in Rounds |-> <<>>]
                         /\ tasks[l] = <<>> /\ access[l] = {}
  BY DEF Init
<1>4. [r \in Rounds |-> <<>>] \in [Rounds -> Seq(Step)]
  OBVIOUS
<1>5. GoodLetter(NoLetter, [r \in Rounds |-> <<>>], <<>>, {})
  BY <1>1, <1>2, <1>4, LetterAssumption DEF GoodLetter, TypedLetter, MayRead, Standing
<1>6. \A l \in Letters : Good(l)
  BY <1>3, <1>5 DEF Good
<1>7. Tables
  BY <1>1, <1>4 DEF Init, Tables
<1>8. JobFits(Idle, letter, path, tasks)
  BY DEF JobFits, Job, Idle
<1>9. \A w \in Workers : JobFits(job[w], letter, path, tasks)
  BY <1>8 DEF Init
<1>10. Counted
  BY <1>2, <1>3 DEF Init, Counted
<1> QED
  BY <1>6, <1>7, <1>9, <1>10 DEF OaInv

(* The invariant holds throughout, whichever handlers meet.                *)
THEOREM OaInvHolds == Spec => []OaInv
  BY StartsGood, StepKeeps, PTL DEF Spec

-----------------------------------------------------------------------------
(* What the invariant gives.                                               *)

(* Every table keeps its types, and a request holds the columns, the task, *)
(* the step or the tasks that it has read.                                 *)
THEOREM TypeCorrect == Spec => []TypeOK
<1>1. OaInv => TypeOK
  <2> SUFFICES ASSUME OaInv PROVE TypeOK
    OBVIOUS
  <2>1. \A l \in Letters : Len(tasks[l]) <= MaxTasks
    BY Facts
  <2>2. \A w \in Workers : job[w] \in Job \/ IsSave(job[w])
    BY DEF OaInv, JobFits
  <2> QED
    BY <2>1, <2>2 DEF OaInv, Tables, Counted, TypeOK
<1> QED
  BY <1>1, OaInvHolds, PTL

(* A letter in approval waits for exactly one step, whose approver holds   *)
(* its open task, whatever transfers meet the approval.                    *)
THEOREM PathInOrderHolds == Spec => []PathInOrder
<1>1. OaInv => PathInOrder
  <2> SUFFICES ASSUME OaInv, NEW l \in Letters, letter[l].status = "in_approval"
               PROVE  \E k \in DOMAIN Steps(l) :
                        /\ \A m \in DOMAIN Steps(l) :
                             /\ m < k => Steps(l)[m].status = "approved"
                             /\ m > k => Steps(l)[m].status = "pending"
                        /\ LET s == Steps(l)[k]
                           IN  /\ s.status = "active" /\ s.task \in OpenTasks(l)
                               /\ tasks[l][s.task] = NewTask("approval", s.who)
    BY DEF PathInOrder
  <2>1. Waiting(Steps(l), tasks[l])
    BY Facts DEF Standing, Steps
  <2>2. PICK k \in DOMAIN Steps(l) : InTurnAt(Steps(l), tasks[l], k)
    BY <2>1 DEF Waiting
  <2>3. \A e : NewTask("approval", e).status = "open"
    BY DEF NewTask
  <2>4. Steps(l)[k].task \in OpenTasks(l)
    BY <2>2, <2>3 DEF InTurnAt, OpenTasks
  <2> QED
    BY <2>2, <2>4 DEF InTurnAt
<1> QED
  BY <1>1, OaInvHolds, PTL

(* No letter is out past a step that did not approve it.                   *)
THEOREM NothingSkippedHolds == Spec => []NothingSkipped
<1>1. OaInv => NothingSkipped
  <2> SUFFICES ASSUME OaInv, NEW l \in Letters, letter[l].status \in {"dispatched", "cancelled"},
                      ~(letter[l].round > 0 /\ Approved(Steps(l)))
               PROVE  /\ Planned(l) = <<>>
                      /\ letter[l].round > 0 => Broken(Steps(l))
    BY DEF NothingSkipped, Approved, Broken
  <2> QED
    BY Facts DEF Standing, Steps, Planned
<1> QED
  BY <1>1, OaInvHolds, PTL

(* Whoever has an open task on a letter that was not discarded may read    *)
(* it, also when the task was transferred to him.                          *)
THEOREM AssigneesMayReadHolds == Spec => []AssigneesMayRead
<1>1. OaInv => AssigneesMayRead
  BY Facts DEF AssigneesMayRead, Assigned, OpenTasks, Readers, MayRead, ReadersOf
<1> QED
  BY <1>1, OaInvHolds, PTL

-----------------------------------------------------------------------------
(* The official numbers.                                                   *)

(* The row of issued numbers for the number of l is void.                  *)
VoidRow(l) == \E n \in issued : RowOf(l, n) /\ n.void

LEMMA EntryOf ==
  ASSUME NEW l \in Letters
  PROVE  Entries[l] = IF letter[l].number = 0 THEN None
                      ELSE [site |-> letter[l].book, no |-> letter[l].number, void |-> VoidRow(l)]
  BY DEF Entries, VoidRow, RowOf

LEMMA SameEntry ==
  ASSUME NEW l \in Letters, letter'[l].number = letter[l].number,
         letter'[l].book = letter[l].book, VoidRow(l)' <=> VoidRow(l)
  PROVE  Entries'[l] = Entries[l]
<1>1. VoidRow(l)' \in BOOLEAN /\ VoidRow(l) \in BOOLEAN
  BY DEF VoidRow
<1>2. VoidRow(l)' = VoidRow(l)
  BY <1>1
<1>3. /\ Entries'[l] = IF letter'[l].number = 0 THEN None
                       ELSE [site |-> letter'[l].book, no |-> letter'[l].number, void |-> VoidRow(l)']
  BY DEF Entries, VoidRow, RowOf
<1> HIDE DEF VoidRow
<1> QED
  BY <1>2, <1>3, EntryOf

LEMMA NumbersSameEntries ==
  ASSUME OaInv, NumbersSame
  PROVE  UNCHANGED <<counter, Entries>>
<1>1. \A l \in Letters : Entries'[l] = Entries[l]
  <2> TAKE l \in Letters
  <2>1. letter'[l].number = letter[l].number /\ letter'[l].book = letter[l].book
        /\ issued' = issued
    BY DEF NumbersSame
  <2>2. VoidRow(l)' <=> VoidRow(l)
    BY <2>1 DEF VoidRow, RowOf
  <2> QED
    BY <2>1, <2>2, SameEntry
<1>2. Entries = [l \in Letters |-> Entries[l]] /\ Entries' = [l \in Letters |-> Entries'[l]]
  BY DEF Entries
<1>3. Entries' = Entries
  BY <1>1, <1>2
<1> QED
  BY <1>3 DEF NumbersSame

(* A dispatch is the next entry of its secretariat.                        *)
LEMMA NumberedEntries ==
  ASSUME OaInv, NEW l \in Letters, Numbered(l)
  PROVE  \E s \in Sites : Register!Register(l, s)
<1>1. PICK s \in Sites :
        /\ letter[l].number = 0
        /\ counter' = [counter EXCEPT ![s] = @ + 1]
        /\ issued' = issued \cup {[site |-> s, no |-> counter[s] + 1, letter |-> l, void |-> FALSE]}
        /\ letter'[l].number = counter[s] + 1 /\ letter'[l].book = s
        /\ \A m \in Letters : m # l => letter'[m] = letter[m]
  BY DEF Numbered
<1> DEFINE e == [site |-> s, no |-> counter[s] + 1, letter |-> l, void |-> FALSE]
<1>2. /\ counter[s] \in Nat /\ \A n \in issued : n.no <= counter[n.site]
      /\ issued \subseteq [site : Sites, no : Nat \ {0}, letter : Letters, void : BOOLEAN]
  BY DEF OaInv, Counted
<1>3. e.letter = l /\ e.site = s /\ e.no = counter[s] + 1 /\ e.void = FALSE
  OBVIOUS
<1> HIDE DEF e
<1>4. issued' = issued \cup {e}
  BY <1>1 DEF e
<1>5. ASSUME NEW m \in Letters, m # l PROVE Entries'[m] = Entries[m]
  <2>1. ~RowOf(m, e)
    BY <1>3, <1>5 DEF RowOf
  <2>2. letter'[m] = letter[m]
    BY <1>1, <1>5
  <2>3. VoidRow(m)' <=> VoidRow(m)
    BY <1>3, <1>4, <1>5, <2>2 DEF VoidRow, RowOf
  <2> QED
    BY <2>2, <2>3, SameEntry
<1>6. ~VoidRow(l)'
  <2>1. SUFFICES ASSUME NEW n \in issued', n.letter = l, n.site = s, n.no = counter[s] + 1, n.void
                 PROVE  FALSE
    BY <1>1 DEF VoidRow, RowOf
  <2>2. n \in issued
    BY <1>3, <1>4, <2>1
  <2> QED
    BY <1>2, <2>1, <2>2
<1>7. Entries'[l] = [site |-> s, no |-> counter[s] + 1, void |-> FALSE]
  <2>1. VoidRow(l)' = FALSE
    BY <1>6 DEF VoidRow
  <2>2. Entries'[l] = IF letter'[l].number = 0 THEN None
                      ELSE [site |-> letter'[l].book, no |-> letter'[l].number, void |-> VoidRow(l)']
    BY DEF Entries, VoidRow, RowOf
  <2> HIDE DEF VoidRow
  <2>3. letter'[l].number # 0
    BY <1>1, <1>2
  <2> QED
    BY <1>1, <2>1, <2>2, <2>3
<1>8. Entries[l] = None
  BY <1>1, EntryOf
<1>9. Entries' = [Entries EXCEPT ![l] = [site |-> s, no |-> counter[s] + 1, void |-> FALSE]]
  <2>1. Entries = [m \in Letters |-> Entries[m]] /\ Entries' = [m \in Letters |-> Entries'[m]]
    BY DEF Entries
  <2> QED
    BY <1>5, <1>7, <2>1
<1> QED
  BY <1>1, <1>8, <1>9 DEF Register!Register

(* Cancelling makes the number void, if the letter has one that is not.    *)
LEMMA VoidedEntries ==
  ASSUME OaInv, NEW l \in Letters, Voided(l)
  PROVE  Register!MakeVoid(l) \/ UNCHANGED <<counter, Entries>>
<1> DEFINE x(n) == [n EXCEPT !.void = n.void \/ n.letter = l]
<1>1. /\ counter' = counter /\ issued' = {x(n) : n \in issued}
      /\ \A m \in Letters : letter'[m].number = letter[m].number /\ letter'[m].book = letter[m].book
  BY DEF Voided
<1>2. /\ issued \subseteq [site : Sites, no : Nat \ {0}, letter : Letters, void : BOOLEAN]
      /\ letter[l].number # 0 => \E n \in issued : RowOf(l, n)
  BY DEF OaInv, Counted
<1>3. \A n \in issued : /\ x(n).no = n.no /\ x(n).site = n.site /\ x(n).letter = n.letter
                        /\ x(n).void <=> (n.void \/ n.letter = l)
  BY <1>2
<1> HIDE DEF x
<1>4. \A m \in Letters, n \in issued : RowOf(m, x(n))' <=> RowOf(m, n)
  BY <1>1, <1>3 DEF RowOf
<1>5. ASSUME NEW m \in Letters, m # l PROVE Entries'[m] = Entries[m]
  <2>1. \A n \in issued : RowOf(m, n) => (x(n).void <=> n.void)
    BY <1>3, <1>5 DEF RowOf
  <2>2. VoidRow(m)' <=> \E n \in issued : RowOf(m, n) /\ x(n).void
    BY <1>1, <1>4 DEF VoidRow
  <2>3. VoidRow(m)' <=> VoidRow(m)
    BY <2>1, <2>2 DEF VoidRow
  <2> QED
    BY <1>1, <2>3, SameEntry
<1>6. Entries = [m \in Letters |-> Entries[m]] /\ Entries' = [m \in Letters |-> Entries'[m]]
  BY DEF Entries
<1>7. CASE letter[l].number = 0 \/ VoidRow(l)
  <2>1. VoidRow(l) => VoidRow(l)'
    BY <1>1, <1>3, <1>4 DEF VoidRow
  <2>2. Entries'[l] = Entries[l]
    <3>1. CASE letter[l].number = 0
      BY <1>1, <3>1 DEF Entries
    <3>2. CASE VoidRow(l)
      BY <1>1, <2>1, <3>2, SameEntry
    <3> QED
      BY <1>7, <3>1, <3>2
  <2>3. Entries' = Entries
    BY <1>5, <1>6, <2>2
  <2> QED
    BY <1>1, <2>3
<1>8. CASE letter[l].number # 0 /\ ~VoidRow(l)
  <2> DEFINE old == [site |-> letter[l].book, no |-> letter[l].number, void |-> FALSE]
             new == [site |-> letter[l].book, no |-> letter[l].number, void |-> TRUE]
  <2>1. PICK n \in issued : RowOf(l, n)
    BY <1>2, <1>8
  <2>2. x(n) \in issued' /\ x(n).void /\ RowOf(l, x(n))'
    BY <1>1, <1>3, <1>4, <2>1 DEF RowOf
  <2>3. VoidRow(l)' = TRUE /\ VoidRow(l) = FALSE
    BY <1>8, <2>2 DEF VoidRow
  <2>4. Entries[l] = old
    BY <1>8, <2>3, EntryOf
  <2>5. Entries'[l] = new
    <3>1. Entries'[l] = IF letter'[l].number = 0 THEN None
                        ELSE [site |-> letter'[l].book, no |-> letter'[l].number, void |-> VoidRow(l)']
      BY DEF Entries, VoidRow, RowOf
    <3> HIDE DEF VoidRow
    <3> QED
      BY <1>1, <1>8, <2>3, <3>1
  <2>6. letter[l].number \in Nat \ {0} /\ letter[l].book \in Sites
    BY <1>2, <1>8, <2>1 DEF RowOf
  <2>7. old \in Register!Entry
    BY <2>6 DEF Register!Entry
  <2>8. Entries' = [Entries EXCEPT ![l].void = TRUE]
    <3>1. new = [old EXCEPT !.void = TRUE]
      <4> DEFINE put(f, b) == [f EXCEPT !.void = b]
      <4>1. \A b \in BOOLEAN : put(old, b) = [site |-> letter[l].book, no |-> letter[l].number, void |-> b]
        OBVIOUS
      <4> QED
        BY <4>1
    <3> DEFINE upd(e) == [e EXCEPT !.void = TRUE]
    <3>2. upd(Entries[l]) = new
      BY <2>4, <3>1, Zenon
    <3> HIDE DEF upd, new, old
    <3>3. Entries' = [Entries EXCEPT ![l] = upd(Entries[l])]
      BY <1>5, <1>6, <2>5, <3>2
    <3> QED
      BY <3>3, Zenon DEF upd
  <2> HIDE DEF old, new
  <2>9. Entries[l] # None /\ ~Entries[l].void
    <3>1. old.void = FALSE
      BY DEF old
    <3>2. Entries[l] # None
      BY <2>4, <2>7, RegisterAssumption, Zenon
    <3> QED
      BY <2>4, <3>1, <3>2
  <2>10. UNCHANGED counter
    BY <1>1
  <2> QED
    BY <2>8, <2>9, <2>10, Zenon DEF Register!MakeVoid
<1> QED
  BY <1>7, <1>8

LEMMA RegisterMoves ==
  ASSUME OaInv, [Next]_vars
  PROVE  RegisterMove
<1>1. ASSUME NEW w \in Workers, NEW l \in Letters, Started(w, l) PROVE RegisterMove
  <2>1. UNCHANGED <<letter, counter, issued>>
    BY <1>1, NewJobs
  <2> QED
    BY <2>1 DEF RegisterMove, NumbersSame
<1>2. ASSUME NEW w \in Workers, NEW e \in Employees, NEW d \in Employees, BeginTransfer(w, e, d)
      PROVE  RegisterMove
  <2>1. UNCHANGED <<letter, counter, issued>>
    BY <1>2, NewTransfer
  <2> QED
    BY <2>1 DEF RegisterMove, NumbersSame
<1>3. CASE UNCHANGED vars
  BY <1>3 DEF vars, RegisterMove, NumbersSame
<1> QED
  BY <1>1, <1>2, <1>3, LockedNumbers, EndedNumbers DEF Next

(* The letters keep the register: every secretariat counts on by one, a    *)
(* letter that has a number keeps it, and a void number stays void.        *)
THEOREM RegisterImplemented == Spec => ImplementsRegister
<1>1. Init => Register!Init
  BY DEF Init, Register!Init, Entries, NoLetter
<1>2. OaInv /\ [Next]_vars => [Register!Next]_(Register!vars)
  <2> SUFFICES ASSUME OaInv, [Next]_vars PROVE [Register!Next]_(Register!vars)
    OBVIOUS
  <2>1. RegisterMove
    BY RegisterMoves
  <2>2. CASE NumbersSame
    BY <2>2, NumbersSameEntries DEF Register!vars
  <2>3. ASSUME NEW l \in Letters, Numbered(l) PROVE Register!Next
    BY <2>3, NumberedEntries DEF Register!Next
  <2>4. ASSUME NEW l \in Letters, Voided(l) PROVE [Register!Next]_(Register!vars)
    BY <2>4, VoidedEntries DEF Register!Next, Register!vars
  <2> QED
    BY <2>1, <2>2, <2>3, <2>4 DEF RegisterMove
<1> QED
  BY <1>1, <1>2, OaInvHolds, PTL DEF Spec, ImplementsRegister, Register!Spec

(* The register itself: what it has given out is what it has counted.      *)
RegisterInv ==
  /\ counter \in [Sites -> Nat]
  /\ Entries \in [Letters -> Register!Entry \cup {None}]
  /\ \A l \in Letters : Entries[l] # None => Entries[l].no <= counter[Entries[l].site]
  /\ Register!NumbersDiffer
  /\ Register!NoGaps

LEMMA RegisterEntered ==
  ASSUME RegisterInv, NEW l \in Letters, NEW s \in Sites, Register!Register(l, s)
  PROVE  RegisterInv'
<1> DEFINE e == [site |-> s, no |-> counter[s] + 1, void |-> FALSE]
<1>1. /\ counter' = [counter EXCEPT ![s] = @ + 1] /\ Entries' = [Entries EXCEPT ![l] = e]
      /\ Entries[l] = None
  BY DEF Register!Register
<1>2. /\ counter \in [Sites -> Nat] /\ Entries \in [Letters -> Register!Entry \cup {None}]
      /\ \A m \in Letters : Entries[m] # None => Entries[m].no <= counter[Entries[m].site]
  BY DEF RegisterInv
<1>3. e \in Register!Entry /\ e.site = s /\ e.no = counter[s] + 1 /\ e # None
  <2>1. counter[s] \in Nat
    BY <1>2
  <2>2. e \in Register!Entry
    BY <2>1 DEF Register!Entry
  <2> QED
    BY <2>2, RegisterAssumption
<1> HIDE DEF e
<1>4. \A m \in Letters : Entries'[m] = IF m = l THEN e ELSE Entries[m]
  BY <1>1, <1>2
<1>5. /\ counter' \in [Sites -> Nat] /\ counter'[s] = counter[s] + 1
      /\ \A t \in Sites : t # s => counter'[t] = counter[t]
  BY <1>1, <1>2
<1>6. Entries' \in [Letters -> Register!Entry \cup {None}]
  BY <1>1, <1>2, <1>3
<1>7. \A m \in Letters : Entries[m] # None =>
        /\ Entries[m].site \in Sites /\ Entries[m].no \in Nat
        /\ Entries[m].no <= counter[Entries[m].site]
  BY <1>2 DEF Register!Entry
<1>8. \A m \in Letters : Entries'[m] # None => Entries'[m].no <= counter'[Entries'[m].site]
  <2> SUFFICES ASSUME NEW m \in Letters, Entries'[m] # None
               PROVE  Entries'[m].no <= counter'[Entries'[m].site]
    OBVIOUS
  <2>1. CASE m = l
    BY <1>2, <1>3, <1>4, <1>5, <2>1
  <2>2. CASE m # l
    <3>1. Entries'[m] = Entries[m]
      BY <1>4, <2>2
    <3>2. Entries[m].site \in Sites /\ Entries[m].no \in Nat /\ Entries[m].no <= counter[Entries[m].site]
      BY <1>7, <3>1
    <3>3. counter[Entries[m].site] \in Nat /\ counter[s] \in Nat
      BY <1>2, <3>2
    <3> QED
      BY <1>5, <3>1, <3>2, <3>3
  <2> QED
    BY <2>1, <2>2
<1>9. Register!NumbersDiffer'
  <2> SUFFICES ASSUME NEW a \in Letters, NEW b \in Letters, a # b, Entries'[a] # None,
                      Entries'[b] # None, Entries'[a].site = Entries'[b].site
               PROVE  Entries'[a].no # Entries'[b].no
    BY DEF Register!NumbersDiffer
  <2>1. CASE a # l /\ b # l
    BY <1>4, <2>1 DEF RegisterInv, Register!NumbersDiffer
  <2>2. CASE a = l
    BY <1>2, <1>3, <1>4, <1>7, <2>2
  <2>3. CASE b = l
    BY <1>2, <1>3, <1>4, <1>7, <2>3
  <2> QED
    BY <2>1, <2>2, <2>3
<1>10. Register!NoGaps'
  <2> SUFFICES ASSUME NEW t \in Sites, NEW n \in 1..counter'[t]
               PROVE  \E m \in Letters : Entries'[m] # None /\ Entries'[m].site = t
                                         /\ Entries'[m].no = n
    BY DEF Register!NoGaps
  <2>1. CASE t = s /\ n = counter[s] + 1
    BY <1>3, <1>4, <2>1
  <2>2. CASE ~(t = s /\ n = counter[s] + 1)
    <3>1. n \in 1..counter[t]
      BY <1>2, <1>5, <2>2
    <3>2. PICK m \in Letters : Entries[m] # None /\ Entries[m].site = t /\ Entries[m].no = n
      BY <3>1 DEF RegisterInv, Register!NoGaps
    <3>3. Entries'[m] = Entries[m]
      BY <1>1, <1>4, <3>2
    <3> QED
      BY <3>2, <3>3
  <2> QED
    BY <2>1, <2>2
<1> QED
  BY <1>5, <1>6, <1>8, <1>9, <1>10 DEF RegisterInv

LEMMA RegisterVoided ==
  ASSUME RegisterInv, NEW l \in Letters, Register!MakeVoid(l)
  PROVE  RegisterInv'
<1> DEFINE e == [Entries[l] EXCEPT !.void = TRUE]
<1>1. counter' = counter /\ Entries[l] # None
  BY Zenon DEF Register!MakeVoid
<1>2. Entries' = [Entries EXCEPT ![l] = e]
  BY Zenon DEF Register!MakeVoid
<1>3. Entries \in [Letters -> Register!Entry \cup {None}]
  BY DEF RegisterInv
<1>4. Entries[l] \in [site : Sites, no : Nat \ {0}, void : BOOLEAN]
  BY <1>1, <1>3 DEF Register!Entry
<1>5. e \in [site : Sites, no : Nat \ {0}, void : BOOLEAN]
      /\ e.site = Entries[l].site /\ e.no = Entries[l].no
  BY <1>4
<1> HIDE DEF e
<1>6. e # None /\ e \in Register!Entry
  BY <1>5, RegisterAssumption DEF Register!Entry
<1>7. \A m \in Letters : Entries'[m] = IF m = l THEN e ELSE Entries[m]
  BY <1>2, <1>3
<1>8. \A m \in Letters : /\ Entries'[m] # None <=> Entries[m] # None
                         /\ Entries[m] # None => /\ Entries'[m].site = Entries[m].site
                                                 /\ Entries'[m].no = Entries[m].no
  BY <1>1, <1>5, <1>6, <1>7
<1>9. Entries' \in [Letters -> Register!Entry \cup {None}]
  BY <1>2, <1>3, <1>6
<1> QED
  BY <1>1, <1>8, <1>9 DEF RegisterInv, Register!NumbersDiffer, Register!NoGaps

(* No two letters ever carry the same number of a secretariat, and every   *)
(* number up to its counter is on a letter.                                *)
THEOREM NumbersWithoutGaps == Spec => [](Register!NumbersDiffer /\ Register!NoGaps)
<1>1. Register!Init => RegisterInv
  BY DEF Register!Init, RegisterInv, Register!NumbersDiffer, Register!NoGaps
<1>2. RegisterInv /\ [Register!Next]_(Register!vars) => RegisterInv'
  <2> SUFFICES ASSUME RegisterInv, [Register!Next]_(Register!vars) PROVE RegisterInv'
    OBVIOUS
  <2>1. CASE UNCHANGED Register!vars
    BY <2>1 DEF Register!vars, RegisterInv, Register!NumbersDiffer, Register!NoGaps
  <2> QED
    BY <2>1, RegisterEntered, RegisterVoided DEF Register!Next
<1>3. RegisterInv => Register!NumbersDiffer /\ Register!NoGaps
  BY DEF RegisterInv
<1> QED
  BY <1>1, <1>2, <1>3, RegisterImplemented, PTL DEF ImplementsRegister, Register!Spec
==============================================================================
