----------------------------- MODULE RuleProofs -----------------------------
(***************************************************************************)
(* Proofs about the rules of the loans and of the advances, for inputs of  *)
(* any size, and about the rule of who evaluates whom, for any people and  *)
(* departments.  The loops of the rules are followed step by step: for a   *)
(* set of steps that holds the first one, and each one after a step that   *)
(* it holds, StepByStep says that it holds all.                            *)
(***************************************************************************)
EXTENDS MCLoanRules, FiniteSetTheorems, SequenceTheorems, WellFoundedInduction, TLAPS

-----------------------------------------------------------------------------
(* Sums and folds over sequences.  What the rules do to one element after  *)
(* another is followed along a function of the positions.                  *)

(* What holds at first and goes on from one step to the next holds of all: *)
(* the steps for which it holds are given as a set.                        *)
LEMMA StepByStep ==
  ASSUME NEW n \in Nat, NEW G, 0 \in G, \A i \in 1..n : i - 1 \in G => i \in G
  PROVE  \A i \in 0..n : i \in G
<1> DEFINE missed == (0..n) \ G
<1>1. SUFFICES ASSUME missed # {} PROVE FALSE
  OBVIOUS
<1>2. PICK m \in missed : \A k \in missed : <<k, m>> \notin OpToRel(<, Nat)
  <2>1. missed \subseteq Nat
    OBVIOUS
  <2> HIDE DEF missed
  <2> QED
    BY <1>1, <2>1, NatLessThanWellFounded, WFMin
<1>3. m \in 1..n /\ m - 1 \in 0..n /\ m \in Nat /\ m - 1 \in Nat /\ m \notin G
  <2>1. m \in 0..n /\ m \notin G /\ m # 0
    BY <1>2
  <2> QED
    BY <2>1
<1>4. m - 1 \notin G
  BY <1>2, <1>3
<1>5. <<m - 1, m>> \in OpToRel(<, Nat)
  BY <1>3 DEF OpToRel
<1> QED
  BY <1>2, <1>3, <1>4, <1>5

(* The greatest element of a set is the one not below another.             *)
LEMMA MaxIs ==
  ASSUME NEW S, S \subseteq Int, NEW k \in S, \A y \in S : y <= k
  PROVE  Max(S) = k
<1>1. \E x \in S : \A y \in S : x >= y
  OBVIOUS
<1>2. Max(S) \in S /\ \A y \in S : Max(S) >= y
  BY <1>1 DEF Max
<1>3. Max(S) >= k /\ Max(S) <= k /\ Max(S) \in Int
  BY <1>2
<1> QED
  BY <1>3

(* A set of some of the first n positions has a greatest one.              *)
LEMMA Greatest ==
  ASSUME NEW n \in Nat, NEW S \in SUBSET (1..n), S # {}
  PROVE  Max(S) \in S /\ \A y \in S : y <= Max(S)
<1> DEFINE G == {k \in 0..n : \A T \in SUBSET (1..k) : T # {} => \E x \in T : \A y \in T : x >= y}
<1>1. 0 \in G
  <2>1. \A T \in SUBSET (1..0) : T = {}
    OBVIOUS
  <2>2. 0 \in 0..n
    OBVIOUS
  <2> QED
    BY <2>1, <2>2
<1>2. ASSUME NEW k \in 1..n, k - 1 \in G PROVE k \in G
  <2> SUFFICES ASSUME NEW T \in SUBSET (1..k), T # {} PROVE \E x \in T : \A y \in T : x >= y
    OBVIOUS
  <2>1. CASE k \in T
    BY <2>1
  <2>2. CASE k \notin T
    <3>1. T \in SUBSET (1..(k - 1))
      BY <2>2
    <3> QED
      BY <1>2, <3>1
  <2> QED
    BY <2>1, <2>2
<1>3. n \in G
  <2> HIDE DEF G
  <2> QED
    BY <1>1, <1>2, StepByStep
<1>4. \E x \in S : \A y \in S : x >= y
  BY <1>3
<1>5. Max(S) \in S /\ \A y \in S : Max(S) >= y
  BY <1>4 DEF Max
<1> QED
  BY <1>5

(* The greatest of the first i positions is i.                             *)
LEMMA Prefix ==
  ASSUME NEW n \in Nat, NEW i \in 1..n
  PROVE  /\ 1..i \in SUBSET (1..n) /\ 1..i # {}
         /\ Max(1..i) = i /\ (1..i) \ {i} = 1..(i - 1)
<1>1. i \in 1..i /\ 1..i \subseteq Int /\ \A y \in 1..i : y <= i
  OBVIOUS
<1>2. Max(1..i) = i
  BY <1>1, MaxIs
<1> QED
  BY <1>2

(* The function by which a fold is defined.                                *)
IsLoop(F, n, A, b, s, h) ==
  /\ F \in [SUBSET (1..n) -> A]
  /\ \A S \in SUBSET (1..n) : F[S] = IF S = {} THEN b ELSE h[<<F[S \ {Max(S)}], s[Max(S)]>>]

(* It exists: by induction on the sets, smaller ones first.                *)
LEMMA LoopExists ==
  ASSUME NEW n \in Nat, NEW A, NEW b \in A, NEW E, NEW s \in [1..n -> E], NEW h \in [A \X E -> A]
  PROVE  \E F : IsLoop(F, n, A, b, s, h)
<1> DEFINE Right(F, S) == F[S] = IF S = {} THEN b ELSE h[<<F[S \ {Max(S)}], s[Max(S)]>>]
           G == {k \in 0..n : \E F \in [SUBSET (1..n) -> A] : \A S \in SUBSET (1..k) : Right(F, S)}
<1>1. 0 \in G
  <2> DEFINE F == [S \in SUBSET (1..n) |-> b]
  <2>1. F \in [SUBSET (1..n) -> A] /\ \A S \in SUBSET (1..0) : Right(F, S)
    OBVIOUS
  <2> HIDE DEF F, Right
  <2> QED
    BY <2>1
<1>2. ASSUME NEW k \in 1..n, k - 1 \in G PROVE k \in G
  <2>1. PICK F \in [SUBSET (1..n) -> A] : \A S \in SUBSET (1..(k - 1)) : Right(F, S)
    BY <1>2
  <2> DEFINE H == [S \in SUBSET (1..n) |-> IF k \in S THEN h[<<F[S \ {k}], s[k]>>] ELSE F[S]]
  <2>2. H \in [SUBSET (1..n) -> A]
    <3> SUFFICES ASSUME NEW S \in SUBSET (1..n)
                 PROVE  (IF k \in S THEN h[<<F[S \ {k}], s[k]>>] ELSE F[S]) \in A
      OBVIOUS
    <3>1. S \ {k} \in SUBSET (1..n)
      OBVIOUS
    <3>2. F[S \ {k}] \in A /\ F[S] \in A /\ s[k] \in E
      BY <3>1
    <3>3. <<F[S \ {k}], s[k]>> \in A \X E
      BY <3>2
    <3> QED
      BY <3>2, <3>3
  <2>3. ASSUME NEW S \in SUBSET (1..k) PROVE Right(H, S)
    <3>1. S \in SUBSET (1..n)
      OBVIOUS
    <3>2. CASE k \in S
      <4>1. Max(S) = k
        <5>1. S \subseteq Int /\ \A y \in S : y <= k
          OBVIOUS
        <5> QED
          BY <3>2, <5>1, MaxIs
      <4>2. S \ {k} \in SUBSET (1..n) /\ k \notin S \ {k}
        BY <3>1
      <4>3. H[S \ {k}] = F[S \ {k}] /\ H[S] = h[<<F[S \ {k}], s[k]>>]
        BY <3>1, <3>2, <4>2
      <4> HIDE DEF H
      <4> QED
        BY <3>2, <4>1, <4>3
    <3>3. CASE k \notin S
      <4>1. S \in SUBSET (1..(k - 1)) /\ S \ {Max(S)} \in SUBSET (1..n) /\ k \notin S \ {Max(S)}
        <5>1. \A x \in S : x \in 1..(k - 1)
          BY <3>3
        <5> QED
          BY <3>1, <3>3, <5>1
      <4>2. Right(F, S)
        BY <2>1, <4>1
      <4>3. H[S] = F[S] /\ H[S \ {Max(S)}] = F[S \ {Max(S)}]
        BY <3>1, <3>3, <4>1
      <4> HIDE DEF H
      <4> QED
        BY <4>2, <4>3
    <3> QED
      BY <3>2, <3>3
  <2> HIDE DEF H, Right
  <2> QED
    BY <2>2, <2>3
<1>3. n \in G
  <2> HIDE DEF G, Right
  <2>1. \A k \in 1..n : k - 1 \in G => k \in G
    BY <1>2
  <2>2. \A k \in 0..n : k \in G
    BY <1>1, <2>1, StepByStep
  <2> QED
    BY <2>2
<1> QED
  BY <1>3 DEF IsLoop

(* Summation.                                                              *)
LEMMA SumLoop ==
  ASSUME NEW n \in Nat, NEW s \in [1..n -> Int]
  PROVE  \E a \in [0..n -> Int] :
           /\ a[0] = 0 /\ \A i \in 1..n : a[i] = a[i - 1] + s[i]
           /\ TotalOf(s) = a[n]
<1> DEFINE h == [p \in Int \X Int |-> p[1] + p[2]]
           Step(f) == [S \in SUBSET (1..n) |-> IF S = {} THEN 0 ELSE f[S \ {Max(S)}] + s[Max(S)]]
           iter == CHOOSE f : f = Step(f)
           a == [i \in 0..n |-> iter[1..i]]
<1>1. \E f : f = Step(f) /\ f \in [SUBSET (1..n) -> Int]
  <2>1. PICK f : IsLoop(f, n, Int, 0, s, h)
    <3>1. h \in [Int \X Int -> Int] /\ 0 \in Int
      OBVIOUS
    <3> HIDE DEF h
    <3> QED
      BY <3>1, LoopExists
  <2>2. ASSUME NEW S \in SUBSET (1..n), S # {} PROVE f[S] = f[S \ {Max(S)}] + s[Max(S)]
    <3>1. S \ {Max(S)} \in SUBSET (1..n) /\ Max(S) \in 1..n
      BY <2>2, Greatest
    <3>2. f[S \ {Max(S)}] \in Int /\ s[Max(S)] \in Int
      BY <2>1, <3>1 DEF IsLoop
    <3> QED
      BY <2>1, <2>2, <3>2 DEF IsLoop
  <2> QED
    BY <2>1, <2>2 DEF IsLoop
<1>2. iter = Step(iter)
  BY <1>1
<1>3. TotalOf(s) = iter[1..n]
  BY DEF TotalOf, FoldLeft, MapThenFoldSet
<1> HIDE DEF iter
<1>4. iter[{}] = 0 /\ \A i \in 1..n : iter[1..i] = iter[1..(i - 1)] + s[i]
  <2>1. \A S \in SUBSET (1..n) : iter[S] = IF S = {} THEN 0 ELSE iter[S \ {Max(S)}] + s[Max(S)]
    BY <1>2
  <2> HIDE DEF Step, a, h
  <2>2. ASSUME NEW i \in 1..n PROVE iter[1..i] = iter[1..(i - 1)] + s[i]
    <3>1. /\ 1..i \in SUBSET (1..n) /\ 1..i # {}
          /\ Max(1..i) = i /\ (1..i) \ {i} = 1..(i - 1)
      BY Prefix
    <3>2. iter[1..i] = iter[(1..i) \ {Max(1..i)}] + s[Max(1..i)]
      BY <2>1, <3>1
    <3> QED
      BY <3>1, <3>2
  <2> QED
    BY <2>1, <2>2
<1>5. \A i \in 0..n : iter[1..i] \in Int
  <2> DEFINE G == {i \in 0..n : iter[1..i] \in Int}
  <2>1. 0 \in G /\ \A i \in 1..n : i - 1 \in G => i \in G
    BY <1>4
  <2> HIDE DEF G
  <2>2. \A i \in 0..n : i \in G
    BY <2>1, StepByStep
  <2> QED
    BY <2>2 DEF G
<1>6. a[0] = 0 /\ a[n] = iter[1..n] /\ \A i \in 1..n : a[i] = a[i - 1] + s[i]
  BY <1>4
<1> QED
  BY <1>3, <1>5, <1>6

-----------------------------------------------------------------------------
(* Installments.                                                           *)

(* Division of integers.                                                   *)
LEMMA Division ==
  ASSUME NEW a \in Int, NEW b \in Nat, b > 0
  PROVE  /\ a \div b \in Int
         /\ b * (a \div b) <= a /\ a < b * (a \div b) + b
  OBVIOUS

(* Multiples, one by one.                                                  *)
LEMMA Distributes ==
  ASSUME NEW a \in Int, NEW k \in Int
  PROVE  a * (k - 1) = a * k - a /\ a * k \in Int
  OBVIOUS

(* Multiples in order.                                                     *)
LEMMA Monotone ==
  ASSUME NEW a \in Nat, NEW k \in Int, NEW l \in Int, k <= l
  PROVE  a * k <= a * l
  OBVIOUS

(* The next month of twelve.                                               *)
LEMMA NextTwelfth ==
  ASSUME NEW x \in Nat
  PROVE  /\ x \div 12 \in Nat /\ x % 12 \in 0..11
         /\ (x + 1) \div 12 = (IF x % 12 = 11 THEN x \div 12 + 1 ELSE x \div 12)
         /\ (x + 1) % 12 = (IF x % 12 = 11 THEN 0 ELSE (x % 12) + 1)
  OBVIOUS

(* A month of a year.                                                      *)
Month == [y : Nat, m : 1..12]

(* The months of a schedule, one after the other. *)
LEMMA DueExists ==
  ASSUME NEW first \in Month, NEW n \in Nat
  PROVE  \E f : f = [i \in 1..n |-> IF i = 1 THEN first ELSE NextMonth(f[i - 1])]
<1> DEFINE x(i) == first.m + i - 2
           f    == [i \in 1..n |-> [y |-> first.y + x(i) \div 12, m |-> (x(i) % 12) + 1]]
<1>0. first.y \in Nat /\ first.m \in 1..12 /\ first = [y |-> first.y, m |-> first.m]
  BY DEF Month
<1>1. ASSUME NEW i \in 1..n, i = 1 PROVE f[i] = first
  <2>1. x(1) \div 12 = 0 /\ x(1) % 12 = first.m - 1
    BY <1>0
  <2> HIDE DEF x
  <2> QED
    BY <1>0, <1>1, <2>1
<1>2. ASSUME NEW i \in 1..n, i # 1 PROVE f[i] = NextMonth(f[i - 1])
  <2>1. x(i - 1) \in Nat /\ x(i) = x(i - 1) + 1
    BY <1>0, <1>2
  <2> HIDE DEF x
  <2> DEFINE z == x(i - 1)
             before == [y |-> first.y + z \div 12, m |-> (z % 12) + 1]
  <2>2. i - 1 \in 1..n /\ f[i - 1] = before
    BY <1>2
  <2>3. f[i] = [y |-> first.y + (z + 1) \div 12, m |-> ((z + 1) % 12) + 1]
    BY <1>2, <2>1
  <2>4. /\ z \div 12 \in Nat /\ z % 12 \in 0..11
        /\ (z + 1) \div 12 = (IF z % 12 = 11 THEN z \div 12 + 1 ELSE z \div 12)
        /\ (z + 1) % 12 = (IF z % 12 = 11 THEN 0 ELSE (z % 12) + 1)
    BY <2>1, NextTwelfth
  <2> HIDE DEF z
  <2>5. NextMonth(before) = [y |-> first.y + (z + 1) \div 12, m |-> ((z + 1) % 12) + 1]
    <3>1. CASE z % 12 = 11
      BY <1>0, <2>4, <3>1 DEF NextMonth
    <3>2. CASE z % 12 # 11
      <4>1. NextMonth(before) = [before EXCEPT !.m = (z % 12) + 2]
        BY <2>4, <3>2 DEF NextMonth
      <4>2. [before EXCEPT !.m = (z % 12) + 2] = [y |-> first.y + z \div 12, m |-> (z % 12) + 2]
        OBVIOUS
      <4> QED
        BY <2>4, <3>2, <4>1, <4>2
    <3> QED
      BY <3>1, <3>2
  <2> QED
    BY <2>2, <2>3, <2>5
<1> HIDE DEF x
<1>3. f = [i \in 1..n |-> IF i = 1 THEN first ELSE NextMonth(f[i - 1])]
  <2> HIDE DEF f
  <2>1. DOMAIN f = 1..n /\ f = [i \in 1..n |-> f[i]]
    BY DEF f
  <2> QED
    BY <1>1, <1>2, <2>1
<1> QED
  BY <1>3

(* A month from its number, counted from the year 0.                       *)
LEMMA MonthNumber ==
  ASSUME NEW b \in Month
  PROVE  b.y \in Nat /\ b.m \in 1..12 /\ b.y * 12 + b.m \in Nat
<1>1. b.y \in Nat /\ b.m \in 1..12
  BY DEF Month
<1> QED
  BY <1>1

(* The month after.                                                        *)
LEMMA FollowingMonth ==
  ASSUME NEW b \in Month
  PROVE  NextMonth(b) \in Month /\ NextMonth(b).y * 12 + NextMonth(b).m = b.y * 12 + b.m + 1
<1>1. b.y \in Nat /\ b.m \in 1..12 /\ b = [y |-> b.y, m |-> b.m]
  BY DEF Month
<1>2. CASE b.m = 12
  <2>1. NextMonth(b) = [y |-> b.y + 1, m |-> 1]
    BY <1>2 DEF NextMonth
  <2>2. NextMonth(b) \in Month
    BY <1>1, <2>1 DEF Month
  <2> QED
    BY <1>1, <1>2, <2>1, <2>2
<1>3. CASE b.m # 12
  <2>1. NextMonth(b) = [b EXCEPT !.m = b.m + 1]
    BY <1>3 DEF NextMonth
  <2>2. NextMonth(b) = [y |-> b.y, m |-> b.m + 1]
    BY <1>1, <2>1
  <2>3. NextMonth(b) \in Month
    BY <1>1, <1>3, <2>2 DEF Month
  <2> QED
    BY <1>1, <2>2, <2>3
<1> QED
  BY <1>2, <1>3

(* What a schedule is due and how much.                                    *)
LEMMA Scheduled ==
  ASSUME NEW n \in Nat, NEW amounts, DOMAIN amounts = 1..n, NEW first \in Month,
         NEW plan, plan = Schedule(amounts, first)
  PROVE  /\ plan = [i \in 1..n |-> plan[i]]
         /\ \A i \in 1..n :
              /\ plan[i].amount = amounts[i]
              /\ plan[i].due \in Month
              /\ plan[i].due.y * 12 + plan[i].due.m = first.y * 12 + first.m + i - 1
<1> DEFINE due == CHOOSE f : f = [i \in 1..n |-> IF i = 1 THEN first ELSE NextMonth(f[i - 1])]
           Right(i) == due[i] \in Month /\ due[i].y * 12 + due[i].m = first.y * 12 + first.m + i - 1
           G == {i \in 0..n : i = 0 \/ Right(i)}
<1>1. due = [i \in 1..n |-> IF i = 1 THEN first ELSE NextMonth(due[i - 1])]
  BY DueExists
<1>2. plan = [i \in 1..n |-> [due |-> due[i], amount |-> amounts[i]]]
  BY DEF Schedule
<1> HIDE DEF due
<1>3. 0 \in G
  OBVIOUS
<1>4. ASSUME NEW i \in 1..n, i - 1 \in G PROVE i \in G
  <2>1. CASE i = 1
    <3>1. due[i] = first
      BY <1>1, <2>1
    <3> QED
      BY <2>1, <3>1 DEF Month
  <2>2. CASE i # 1
    <3>1. due[i] = NextMonth(due[i - 1]) /\ Right(i - 1)
      BY <1>1, <1>4, <2>2
    <3> DEFINE b == due[i - 1]
    <3>2. b \in Month /\ b.y * 12 + b.m = first.y * 12 + first.m + (i - 1) - 1
      BY <3>1
    <3>3. due[i] \in Month /\ due[i].y * 12 + due[i].m = b.y * 12 + b.m + 1
      BY <3>1, <3>2, FollowingMonth
    <3>5. due[i].y * 12 + due[i].m = first.y * 12 + first.m + i - 1
      <4> DEFINE was == b.y * 12 + b.m
                 start == first.y * 12 + first.m
      <4>1. was \in Nat /\ start \in Nat /\ i \in Int
        BY <3>2, MonthNumber
      <4>2. was = start + (i - 1) - 1 /\ due[i].y * 12 + due[i].m = was + 1
        BY <3>2, <3>3
      <4> HIDE DEF was, start
      <4>3. due[i].y * 12 + due[i].m = start + i - 1
        BY <4>1, <4>2
      <4> QED
        BY <4>3 DEF start
    <3> QED
      BY <3>3, <3>5
  <2> QED
    BY <2>1, <2>2
<1>5. \A i \in 0..n : i \in G
  <2> HIDE DEF G
  <2>1. \A i \in 1..n : i - 1 \in G => i \in G
    BY <1>4
  <2> QED
    BY <1>3, <2>1, StepByStep
<1>6. \A i \in 1..n : Right(i)
  BY <1>5
<1> QED
  BY <1>2, <1>6

(* The sum of amounts that are equal but for the last one.                 *)
LEMMA SumOfEqual ==
  ASSUME NEW n \in Nat, n > 0, NEW base \in Int, NEW last \in Int,
         NEW s \in [1..n -> Int], \A i \in 1..n : s[i] = IF i = n THEN last ELSE base
  PROVE  TotalOf(s) = base * (n - 1) + last
<1>2. PICK a \in [0..n -> Int] :
        /\ a[0] = 0 /\ \A i \in 1..n : a[i] = a[i - 1] + s[i]
        /\ TotalOf(s) = a[n]
  BY SumLoop
<1> DEFINE G == {i \in 0..n : i < n => a[i] = base * i}
<1>3. 0 \in G
  <2>1. base * 0 = 0 /\ 0 \in 0..n
    OBVIOUS
  <2> QED
    BY <1>2, <2>1
<1>4. ASSUME NEW i \in 1..n, i - 1 \in G PROVE i \in G
  <2> SUFFICES ASSUME i < n PROVE a[i] = base * i
    OBVIOUS
  <2>1. a[i] = a[i - 1] + s[i] /\ s[i] = base
    BY <1>2
  <2>3. a[i - 1] = base * (i - 1)
    BY <1>4
  <2>2. base * (i - 1) = base * i - base /\ base * i \in Int
    BY Distributes
  <2> QED
    BY <2>1, <2>2, <2>3
<1>5. \A i \in 0..n : i \in G
  <2> HIDE DEF G
  <2>1. \A i \in 1..n : i - 1 \in G => i \in G
    BY <1>4
  <2> QED
    BY <1>3, <2>1, StepByStep
<1>6. a[n - 1] = base * (n - 1) /\ n - 1 \in 0..n /\ n \in 1..n
  BY <1>5
<1>7. a[n] = a[n - 1] + last
  BY <1>2, <1>6
<1> QED
  BY <1>2, <1>6, <1>7

(* A function on the positions up to n is a sequence of length n.          *)
LEMMA FunctionIsSeq ==
  ASSUME NEW S, NEW n \in Nat, NEW f \in [1..n -> S]
  PROVE  f \in Seq(S) /\ Len(f) = n
  OBVIOUS

(* What there is to say of a plan that pays a total from a month on.       *)
IsPlan(plan, n, total, first) ==
  /\ TotalOf(AmountsOf(plan)) = total
  /\ Len(plan) = n /\ DOMAIN plan = 1..n /\ plan # <<>>
  /\ \A i \in 1..n :
       /\ plan[i].amount > 0
       /\ plan[i].due.m \in 1..12
       /\ plan[i].due.y * 12 + plan[i].due.m = first.y * 12 + first.m + i - 1

(* Amounts that are equal but for the last one.                            *)
IsEven(s, n, base, last) ==
  s \in [1..n -> Int] /\ \A i \in 1..n : s[i] = IF i = n THEN last ELSE base

(* A plan of n installments, of which the last one may differ.             *)
LEMMA Plan ==
  ASSUME NEW n \in Nat, n > 0, NEW base \in Nat, base > 0, NEW last \in Nat, last > 0,
         NEW s, IsEven(s, n, base, last),
         NEW total, total = base * (n - 1) + last,
         NEW first \in Month, NEW plan, plan = Schedule(s, first)
  PROVE  IsPlan(plan, n, total, first)
<1>0. s \in [1..n -> Int] /\ \A i \in 1..n : s[i] = IF i = n THEN last ELSE base
  BY DEF IsEven
<1>1. \A i \in 1..n : s[i] > 0
  BY <1>0
<1>2. TotalOf(s) = base * (n - 1) + last
  BY <1>0, SumOfEqual
<1>4. /\ plan = [i \in 1..n |-> plan[i]]
      /\ \A i \in 1..n :
           /\ plan[i].amount = s[i]
           /\ plan[i].due \in Month
           /\ plan[i].due.y * 12 + plan[i].due.m = first.y * 12 + first.m + i - 1
  <2>1. DOMAIN s = 1..n /\ n \in Nat /\ first \in Month /\ plan = Schedule(s, first)
    BY <1>0
  <2> QED
    BY ONLY <2>1, Scheduled
<1>5. AmountsOf(plan) = s
  <2>1. AmountsOf(plan) = [i \in 1..n |-> plan[i].amount]
    BY <1>4 DEF AmountsOf
  <2>2. [i \in 1..n |-> plan[i].amount] = [i \in 1..n |-> s[i]]
    BY <1>4
  <2> QED
    BY <1>0, <2>1, <2>2
<1>6. plan \in Seq({plan[i] : i \in 1..n}) /\ Len(plan) = n
  <2>2. plan \in [1..n -> {plan[i] : i \in 1..n}]
    BY <1>4
  <2> QED
    BY <2>2, FunctionIsSeq
<1>7. plan # <<>> /\ DOMAIN plan = 1..n
  BY <1>4, <1>6
<1>8. \A i \in 1..n : plan[i].amount > 0 /\ plan[i].due.m \in 1..12
  BY <1>1, <1>4, MonthNumber
<1> QED
  BY <1>2, <1>4, <1>5, <1>6, <1>7, <1>8 DEF IsPlan

(* build_installments with a count.                                        *)
LEMMA CountAddsUp ==
  ASSUME NEW total \in Nat, NEW count \in Nat, NEW first \in Month
  PROVE  AddsUp(InstallmentsByCount(total, count, first), total, first,
                {n \in 1..MaxInstallments : n = count /\ n <= total})
<1> DEFINE plan == InstallmentsByCount(total, count, first)
           feasible == {n \in 1..MaxInstallments : n = count /\ n <= total}
           base == total \div count
           last == base + (total - base * count)
           s == [i \in 1..count |-> IF i = count THEN last ELSE base]
<1>1. CASE total < 1 \/ count \notin 1..MaxInstallments \/ count > total
  <2>1. plan = <<>>
    BY <1>1 DEF InstallmentsByCount
  <2>2. feasible = {}
    BY <1>1
  <2> QED
    BY <2>1, <2>2 DEF AddsUp
<1>2. CASE ~(total < 1 \/ count \notin 1..MaxInstallments \/ count > total)
  <2>1. total > 0 /\ count > 0 /\ count <= total /\ feasible = {count}
    BY <1>2
  <2>2. plan = Schedule(s, first)
    BY <1>2 DEF InstallmentsByCount
  <2>3. base \in Int /\ count * base <= total /\ total < count * base + count
    BY <2>1, Division
  <2> HIDE DEF base, plan
  <2>4. base > 0
    <3>1. CASE base <= 0
      <4>1. count * base <= count * 0
        BY <2>3, <3>1, Monotone
      <4>2. count * base \in Int /\ count * 0 = 0
        BY <2>3
      <4> QED
        BY <2>1, <2>3, <4>1, <4>2
    <3> QED
      BY <2>3, <3>1
  <2>5. base * count = count * base /\ base * count \in Int
    BY <2>3
  <2>6. base \in Nat /\ last \in Nat /\ last > 0
    BY <2>3, <2>4, <2>5
  <2>7. IsEven(s, count, base, last)
    BY <2>6 DEF IsEven
  <2>8. base * (count - 1) + last = total
    <3>1. base * (count - 1) = base * count - base
      BY <2>3, Distributes
    <3> QED
      BY <2>3, <2>5, <3>1
  <2> HIDE DEF last, s, feasible
  <2>9. IsPlan(plan, count, total, first)
    BY <2>1, <2>2, <2>4, <2>6, <2>7, <2>8, Plan
  <2>10. AddsUp(plan, total, first, feasible)
    BY <2>1, <2>8, <2>9 DEF AddsUp, IsPlan
  <2> QED
    BY <2>10 DEF plan, feasible
<1> QED
  BY <1>1, <1>2

(* The least number of installments of an amount that reach a total.       *)
LEMMA Ceiling ==
  ASSUME NEW total \in Nat, NEW amount \in Nat, total > 0, amount > 0,
         NEW n, n = -((-total) \div amount)
  PROVE  /\ n \in Nat /\ n > 0 /\ amount * (n - 1) \in Int
         /\ (n - 1) * amount < total /\ total <= n * amount
         /\ amount * (n - 1) < total /\ total - amount * (n - 1) <= amount
         /\ \A k \in 1..(n - 1) : k * amount < total
<1> DEFINE q == (-total) \div amount
<1>1. q \in Int /\ amount * q <= -total /\ -total < amount * q + amount
  BY Division
<1>2. n = -q
  OBVIOUS
<1> HIDE DEF q
<1>3. n \in Int /\ amount * n = -(amount * q) /\ amount * q \in Int
  BY <1>1, <1>2
<1>4. amount * (n - 1) = amount * n - amount /\ amount * n \in Int
  BY <1>3, Distributes
<1>5. total <= amount * n /\ amount * (n - 1) < total /\ total - amount * (n - 1) <= amount
  BY <1>1, <1>3, <1>4
<1>6. n > 0
  <2>1. CASE n <= 0
    <3>1. amount * n <= amount * 0
      BY <1>3, <2>1, Monotone
    <3>2. amount * 0 = 0
      OBVIOUS
    <3> QED
      BY <1>4, <1>5, <3>1, <3>2
  <2> QED
    BY <1>3, <2>1
<1>7. (n - 1) * amount = amount * (n - 1) /\ n * amount = amount * n
  BY <1>3
<1>8. ASSUME NEW k \in 1..(n - 1) PROVE k * amount < total
  <2>1. k \in Int /\ k <= n - 1 /\ n - 1 \in Int
    BY <1>3
  <2>2. amount * k <= amount * (n - 1)
    BY <2>1, Monotone
  <2>3. k * amount = amount * k /\ amount * k \in Int
    BY <2>1
  <2> QED
    BY <1>4, <1>5, <2>2, <2>3
<1> QED
  BY <1>3, <1>4, <1>5, <1>6, <1>7, <1>8

(* build_installments with an amount.                                      *)
LEMMA AmountAddsUp ==
  ASSUME NEW total \in Nat, NEW amount \in Nat, NEW first \in Month
  PROVE  AddsUp(InstallmentsByAmount(total, amount, first), total, first,
                {n \in 1..MaxInstallments :
                   amount > 0 /\ (n - 1) * amount < total /\ total <= n * amount})
<1> DEFINE plan == InstallmentsByAmount(total, amount, first)
           feasible == {k \in 1..MaxInstallments :
                          amount > 0 /\ (k - 1) * amount < total /\ total <= k * amount}
           n == -((-total) \div amount)
           last == total - amount * (n - 1)
           s == [i \in 1..n |-> IF i = n THEN last ELSE amount]
<1>1. CASE amount < 1
  <2>1. plan = <<>> /\ feasible = {}
    BY <1>1 DEF InstallmentsByAmount
  <2> QED
    BY <2>1 DEF AddsUp
<1>2. CASE total < 1 /\ amount > 0
  <2>1. plan = <<>>
    BY <1>2 DEF InstallmentsByAmount
  <2>2. feasible = {}
    <3> SUFFICES ASSUME NEW k \in 1..MaxInstallments PROVE ~((k - 1) * amount < total)
      OBVIOUS
    <3>1. k - 1 \in Nat /\ k \in Int
      OBVIOUS
    <3>2. amount * 0 <= amount * (k - 1) /\ amount * 0 = 0
      BY <3>1, Monotone
    <3>3. (k - 1) * amount = amount * (k - 1) /\ amount * (k - 1) \in Int
      BY <3>1
    <3> QED
      BY <1>2, <3>2, <3>3
  <2> QED
    BY <2>1, <2>2 DEF AddsUp
<1>3. CASE total > 0 /\ amount > 0
  <2>1. /\ n \in Nat /\ n > 0 /\ amount * (n - 1) \in Int
        /\ (n - 1) * amount < total /\ total <= n * amount
        /\ amount * (n - 1) < total /\ total - amount * (n - 1) <= amount
        /\ \A k \in 1..(n - 1) : k * amount < total
    BY <1>3, Ceiling
  <2>2. CASE n > MaxInstallments
    <3>1. plan = <<>>
      BY <2>2 DEF InstallmentsByAmount
    <3> HIDE DEF n
    <3>2. feasible = {}
      <4> SUFFICES ASSUME NEW k \in 1..MaxInstallments PROVE ~(total <= k * amount)
        OBVIOUS
      <4>1. k \in 1..(n - 1) /\ k * amount \in Int
        BY <2>1, <2>2, MaxInstallmentsAssumption
      <4> QED
        BY <2>1, <4>1
    <3> QED
      BY <3>1, <3>2 DEF AddsUp
  <2>3. CASE ~(n > MaxInstallments)
    <3>1. plan = Schedule(s, first)
      BY <1>3, <2>3 DEF InstallmentsByAmount
    <3> HIDE DEF n, plan
    <3>2. n \in feasible
      BY <1>3, <2>1, <2>3, MaxInstallmentsAssumption
    <3>3. last \in Nat /\ last > 0 /\ amount * (n - 1) + last = total
      BY <1>3, <2>1
    <3>4. IsEven(s, n, amount, last)
      BY <3>3 DEF IsEven
    <3> HIDE DEF last, s, feasible
    <3>5. IsPlan(plan, n, total, first)
      BY <1>3, <2>1, <3>1, <3>3, <3>4, Plan
    <3>6. AddsUp(plan, total, first, feasible)
      BY <3>2, <3>3, <3>5 DEF AddsUp, IsPlan
    <3> QED
      BY <3>6 DEF plan, feasible
  <2> QED
    BY <2>2, <2>3
<1> QED
  BY <1>1, <1>2, <1>3

-----------------------------------------------------------------------------
(* The months of the advances and the months of service.                   *)

(* The month of a day of the calendar, the days before that month, the day *)
(* in it.                                                                  *)
MonthOf(i) == IF i <= 30 THEN 1 ELSE IF i <= 59 THEN 2 ELSE IF i <= 90 THEN 3 ELSE 4
DaysBefore(k) == IF k = 1 THEN 0 ELSE IF k = 2 THEN 30 ELSE IF k = 3 THEN 59
                 ELSE IF k = 4 THEN 90 ELSE 121
DayOf(i) == i - DaysBefore(MonthOf(i))

(* The window opens on the day: the day of opening, or the first of the    *)
(* month after one too short for it.                                       *)
Opening(i, from) ==
  \/ DayOf(i) = from
  \/ DayOf(i) = 1 /\ i > 1 /\ DayOf(i - 1) < from

(* A day lies in one of the months, after the days of the months before.   *)
Placed(i) ==
  /\ MonthOf(i) \in 1..4 /\ DayOf(i) \in 1..31
  /\ i = DaysBefore(MonthOf(i)) + DayOf(i) /\ i <= DaysBefore(MonthOf(i) + 1)

(* Every day of the calendar does.                                         *)
LEMMA DaysPlaced == \A i \in 1..121 : Placed(i)
BY DEF Placed, MonthOf, DayOf, DaysBefore

(* The date of a day, by month and day of the calendar.                    *)
Dated(i, date) ==
  /\ date.d = DayOf(i) /\ date.y * 12 + date.m = 16858 + MonthOf(i)
  /\ date.y \in Nat /\ date.m \in 1..12

(* The calendar gives every day its date.                                  *)
LEMMA CalendarDays == \A i \in 1..121 : Dated(i, Calendar[i])
BY DEF Dated, Calendar, MonthOf, DayOf, DaysBefore

(* Where the d-th day of a month is.                                       *)
LEMMA DayInMonth ==
  ASSUME NEW k \in 1..4, NEW d \in 1..31, DaysBefore(k) + d <= DaysBefore(k + 1)
  PROVE  /\ DaysBefore(k) + d \in 1..121
         /\ MonthOf(DaysBefore(k) + d) = k /\ DayOf(DaysBefore(k) + d) = d
BY DEF MonthOf, DayOf, DaysBefore

(* Months one after the other.                                             *)
LEMMA LaterMonth ==
  ASSUME NEW k \in 1..4, NEW l \in 1..4, k < l
  PROVE  /\ k + 1 \in 1..4 /\ DaysBefore(k + 1) <= DaysBefore(l)
         /\ k + 2 <= l => k + 2 \in 1..4 /\ DaysBefore(k + 1) < DaysBefore(k + 2)
                          /\ DaysBefore(k + 2) <= DaysBefore(l)
         /\ DaysBefore(k) \in Nat /\ DaysBefore(l) \in Nat /\ DaysBefore(k + 1) \in Nat
BY DEF DaysBefore

(* The month in which the window opened that a day belongs to.             *)
WindowOf(i, from, to) ==
  IF from > to /\ DayOf(i) <= to THEN MonthOf(i) - 1 ELSE MonthOf(i)

(* A month as a number.                                                    *)
NumberOf(month) == month.y * 12 + month.m

(* A month that is the w-th of the calendar.                               *)
CountsFor(month, w) == NumberOf(month) = 16858 + w /\ w \in Int

(* The month for which a day counts, as a number.                          *)
LEMMA MonthCounted ==
  ASSUME NEW i \in 1..121, NEW from \in 1..31, NEW to \in 1..31,
         NEW ym, ym = RequestMonth(Calendar[i], from, to)
  PROVE  CountsFor(ym, WindowOf(i, from, to))
<1> USE DEF CountsFor, NumberOf, WindowOf
<1>1. /\ Calendar[i].d = DayOf(i) /\ Calendar[i].y * 12 + Calendar[i].m = 16858 + MonthOf(i)
      /\ Calendar[i].y \in Nat /\ Calendar[i].m \in 1..12 /\ MonthOf(i) \in 1..4 /\ DayOf(i) \in 1..31
  <2>1. Placed(i)
    BY DaysPlaced
  <2>2. /\ Calendar[i].d = DayOf(i) /\ Calendar[i].y * 12 + Calendar[i].m = 16858 + MonthOf(i)
        /\ Calendar[i].y \in Nat /\ Calendar[i].m \in 1..12
    <3>1. Dated(i, Calendar[i])
      BY CalendarDays
    <3> QED
      BY <3>1 DEF Dated
  <2> QED
    BY <2>1, <2>2 DEF Placed
<1> DEFINE date == Calendar[i]
<1>2. CASE ~(from > to /\ date.d <= to)
  <2>1. ym = [y |-> date.y, m |-> date.m]
    BY <1>2 DEF RequestMonth
  <2> QED
    BY <1>1, <1>2, <2>1
<1>3. CASE from > to /\ date.d <= to /\ date.m = 1
  <2>1. ym = [y |-> date.y - 1, m |-> 12]
    BY <1>3 DEF RequestMonth
  <2>2. ym.y * 12 + ym.m = date.y * 12
    BY <1>1, <2>1
  <2> QED
    BY <1>1, <1>3, <2>2
<1>4. CASE from > to /\ date.d <= to /\ date.m # 1
  <2>1. ym = [y |-> date.y, m |-> date.m - 1]
    BY <1>4 DEF RequestMonth
  <2> QED
    BY <1>1, <1>4, <2>1
<1> QED
  BY <1>2, <1>3, <1>4

(* The numbers of the months of two days, in their order.                  *)
InOrder(a, b, i, n, from) ==
  a <= b /\ (a = b <=> \A j \in (i + 1)..n : ~Opening(j, from))

(* Of two days of the calendar on which an advance may be asked for, the   *)
(* later never counts for an earlier month, and both for the same month    *)
(* exactly when no window opens between them.                              *)
LEMMA WindowOpens ==
  ASSUME NEW from \in 1..31, NEW to \in 1..31, NEW i \in 1..121, NEW n \in 1..121, i < n,
         InWindow(DayOf(i), from, to), InWindow(DayOf(n), from, to)
  PROVE  InOrder(WindowOf(i, from, to), WindowOf(n, from, to), i, n, from)
<1> DEFINE a == WindowOf(i, from, to)
           b == WindowOf(n, from, to)
           k == MonthOf(i)
           l == MonthOf(n)
<1> SUFFICES a <= b /\ (a = b <=> \A j \in (i + 1)..n : ~Opening(j, from))
  BY DEF InOrder
<1>1. /\ k \in 1..4 /\ DayOf(i) \in 1..31
      /\ i = DaysBefore(k) + DayOf(i) /\ i <= DaysBefore(k + 1)
  BY DaysPlaced DEF Placed
<1>2. /\ l \in 1..4 /\ DayOf(n) \in 1..31
      /\ n = DaysBefore(l) + DayOf(n) /\ n <= DaysBefore(l + 1)
  BY DaysPlaced DEF Placed
<1>3. k <= l
  BY DEF MonthOf
<1>4. from <= to => from <= DayOf(i) /\ DayOf(i) <= to /\ from <= DayOf(n) /\ DayOf(n) <= to
  BY DEF InWindow
<1>5. from > to => (from <= DayOf(i) \/ DayOf(i) <= to) /\ (from <= DayOf(n) \/ DayOf(n) <= to)
  BY DEF InWindow
<1>6. \A x \in 1..4 : DaysBefore(x) \in Nat /\ DaysBefore(x + 1) \in Nat
  BY DEF DaysBefore
<1>9. /\ a = IF from > to /\ DayOf(i) <= to THEN k - 1 ELSE k
      /\ b = IF from > to /\ DayOf(n) <= to THEN l - 1 ELSE l
  BY DEF WindowOf
<1>10. a \in Int /\ b \in Int
  BY <1>1, <1>2, <1>9
<1> HIDE DEF a, b, k, l
<1>7. CASE k = l
  <2>1. ASSUME NEW j \in (i + 1)..n PROVE DayOf(j) > DayOf(i) /\ DayOf(j) <= DayOf(n)
    <3>1. j \in 1..121 /\ MonthOf(j) = k
      BY <1>7 DEF MonthOf, k, l
    <3>2. j = DaysBefore(k) + DayOf(j) /\ DayOf(j) \in 1..31
      BY <3>1, DaysPlaced DEF Placed
    <3> QED
      BY <1>1, <1>2, <1>6, <1>7, <3>2
  <2>2. ASSUME DayOf(i) < from, from <= DayOf(n)
        PROVE  \E j \in (i + 1)..n : Opening(j, from)
    <3> DEFINE j == DaysBefore(k) + from
    <3>1. j \in (i + 1)..n
      BY <1>1, <1>2, <1>6, <1>7, <2>2
    <3>2. DaysBefore(k) + from <= DaysBefore(k + 1)
      BY <1>1, <1>2, <1>6, <1>7, <3>1
    <3>3. DayOf(j) = from
      BY <1>1, <3>2, DayInMonth
    <3> QED
      BY <3>1, <3>3 DEF Opening
  <2>3. CASE a = b
    <3>1. ASSUME NEW j \in (i + 1)..n PROVE ~Opening(j, from)
      <4>1. DayOf(j) > DayOf(i) /\ DayOf(j) <= DayOf(n)
        BY <2>1
      <4>2. DayOf(j) \in 1..31
        <5>1. j \in 1..121
          OBVIOUS
        <5> QED
          BY <5>1, DaysPlaced DEF Placed
      <4>3. DayOf(j) # from /\ DayOf(j) # 1
        BY <1>1, <1>2, <1>4, <1>5, <1>7, <1>9, <1>10, <2>3, <4>1, <4>2
      <4> QED
        BY <4>3 DEF Opening
    <3> QED
      BY <1>10, <2>3, <3>1
  <2>4. CASE a # b
    <3>1. DayOf(i) < DayOf(n)
      BY <1>1, <1>2, <1>6, <1>7
    <3>2. from > to /\ DayOf(i) < from /\ from <= DayOf(n) /\ a < b
      BY <1>1, <1>2, <1>5, <1>7, <1>9, <1>10, <2>4, <3>1
    <3> QED
      BY <1>10, <2>2, <2>4, <3>2
  <2> QED
    BY <2>3, <2>4
<1>8. CASE k < l
  <2>1. /\ k + 1 \in 1..4 /\ DaysBefore(k + 1) <= DaysBefore(l)
        /\ k + 2 <= l => k + 2 \in 1..4 /\ DaysBefore(k + 1) < DaysBefore(k + 2)
                          /\ DaysBefore(k + 2) <= DaysBefore(l)
    BY <1>1, <1>2, <1>8, LaterMonth
  <2>2. CASE from > to /\ DayOf(i) > to /\ DayOf(n) <= to /\ l = k + 1
    <3>1. a = b
      BY <1>1, <1>2, <1>9, <2>2
    <3>2. ASSUME NEW j \in (i + 1)..n PROVE ~Opening(j, from)
      <4>1. j \in 1..121 /\ (MonthOf(j) = k \/ MonthOf(j) = l)
        BY <2>2 DEF MonthOf, k, l
      <4>2. j = DaysBefore(MonthOf(j)) + DayOf(j) /\ DayOf(j) \in 1..31
        BY <4>1, DaysPlaced DEF Placed
      <4>3. CASE MonthOf(j) = k
        <5>1. DayOf(j) > DayOf(i) /\ DayOf(i) >= from
          BY <1>1, <1>5, <1>6, <2>2, <4>2, <4>3
        <5> QED
          BY <1>1, <4>2, <5>1 DEF Opening
      <4>4. CASE MonthOf(j) = l
        <5>1. DayOf(j) <= DayOf(n) /\ DayOf(j) < from
          BY <1>2, <1>6, <2>2, <4>2, <4>4
        <5>2. ASSUME DayOf(j) = 1 PROVE DayOf(j - 1) >= from
          <6>1. j - 1 = DaysBefore(k + 1) /\ j - 1 \in 1..121 /\ j - 1 >= i
            BY <1>1, <1>2, <1>6, <2>2, <4>1, <4>2, <4>4, <5>2
          <6>2. MonthOf(j - 1) = k
            BY <1>1, <6>1 DEF MonthOf, DaysBefore
          <6>3. j - 1 = DaysBefore(k) + DayOf(j - 1) /\ DayOf(j - 1) \in 1..31
            BY <6>1, <6>2, DaysPlaced DEF Placed
          <6> QED
            BY <1>1, <1>5, <1>6, <2>2, <6>1, <6>3
        <5>3. DayOf(j) = 1 => DayOf(j - 1) \in 1..31
          <6>1. j - 1 \in 1..121
            OBVIOUS
          <6> QED
            BY <6>1, DaysPlaced DEF Placed
        <5> QED
          BY <4>2, <5>1, <5>2, <5>3 DEF Opening
      <4> QED
        BY <4>1, <4>3, <4>4
    <3> QED
      BY <1>10, <3>1, <3>2
  <2>3. CASE ~(from > to /\ DayOf(i) > to /\ DayOf(n) <= to /\ l = k + 1)
    <3>1. a < b
      BY <1>1, <1>2, <1>8, <1>9, <2>3
    <3>2. \E j \in (i + 1)..n : Opening(j, from)
      <4>1. CASE from <= DayOf(n)
        <5> DEFINE j == DaysBefore(l) + from
        <5>1. DaysBefore(l) + from <= DaysBefore(l + 1) /\ j \in (i + 1)..n
          BY <1>1, <1>2, <1>6, <2>1, <4>1
        <5>2. DayOf(j) = from
          BY <1>2, <5>1, DayInMonth
        <5> QED
          BY <5>1, <5>2 DEF Opening
      <4>2. CASE ~(from <= DayOf(n))
        <5>1. from > to /\ DayOf(n) <= to /\ (DayOf(i) <= to \/ k + 2 <= l)
          BY <1>1, <1>2, <1>4, <1>5, <1>8, <2>3, <4>2
        <5> DEFINE g == IF DayOf(i) <= to THEN k ELSE k + 1
        <5>2. /\ g \in 1..4 /\ g + 1 \in 1..4 /\ DaysBefore(g + 1) <= DaysBefore(l)
              /\ DaysBefore(g) \in Nat /\ DaysBefore(g + 1) \in Nat
              /\ DaysBefore(g) + from > i /\ DaysBefore(g + 1) >= i
          <6>1. CASE DayOf(i) <= to
            BY <1>1, <1>2, <1>6, <1>8, <2>1, <5>1, <6>1
          <6>2. CASE ~(DayOf(i) <= to)
            <7>1. k + 2 <= l /\ g = k + 1 /\ g + 1 = k + 2
              BY <1>1, <5>1, <6>2
            <7>2. k + 2 \in 1..4 /\ DaysBefore(k + 2) \in Nat /\ DaysBefore(k + 1) \in Nat
              BY <1>6, <2>1, <7>1
            <7> QED
              BY <1>1, <1>2, <2>1, <7>1, <7>2
          <6> QED
            BY <6>1, <6>2
        <5> HIDE DEF g
        <5>3. CASE DaysBefore(g) + from <= DaysBefore(g + 1)
          <6> DEFINE j == DaysBefore(g) + from
          <6>1. DayOf(j) = from
            BY <5>2, <5>3, DayInMonth
          <6>2. j \in (i + 1)..n
            BY <1>2, <1>6, <5>2, <5>3
          <6> QED
            BY <6>1, <6>2 DEF Opening
        <5>4. CASE DaysBefore(g) + from > DaysBefore(g + 1)
          <6> DEFINE j == DaysBefore(g + 1) + 1
          <6>1. j \in (i + 1)..n
            BY <1>2, <1>6, <5>2
          <6>2. DayOf(j) = 1 /\ j - 1 = DaysBefore(g + 1)
            <7>1. DaysBefore(g + 1) + 1 <= DaysBefore((g + 1) + 1)
              BY <5>2 DEF DaysBefore
            <7> QED
              BY <5>2, <7>1, DayInMonth
          <6>3. DayOf(j - 1) < from
            <7>1. DaysBefore(g + 1) \in 1..121 /\ MonthOf(DaysBefore(g + 1)) = g
              BY <5>2 DEF MonthOf, DaysBefore
            <7> DEFINE eve == DaysBefore(g + 1)
            <7>2. eve \in 1..121 /\ MonthOf(eve) = g /\ j - 1 = eve
              BY <6>2, <7>1
            <7> HIDE DEF eve
            <7>3. eve = DaysBefore(g) + DayOf(eve) /\ DayOf(eve) \in 1..31
              BY <7>2, DaysPlaced DEF Placed
            <7>4. DaysBefore(g) + from > eve
              BY <5>4 DEF eve
            <7> QED
              BY <5>2, <7>2, <7>3, <7>4
          <6>4. j > 1
            BY <1>1, <6>1
          <6> QED
            BY <6>1, <6>2, <6>3, <6>4 DEF Opening
        <5> QED
          BY <5>2, <5>3, <5>4
      <4> QED
        BY <4>1, <4>2
    <3> QED
      BY <1>10, <3>1, <3>2
  <2> QED
    BY <2>2, <2>3
<1> QED
  BY <1>1, <1>2, <1>3, <1>7, <1>8

(* A date, the months as long as the longest.                              *)
Date == [y : Nat, m : 1..12, d : 1..31]

(* months_between counts the monthly anniversaries that have passed.       *)
LEMMA Anniversaries ==
  ASSUME NEW s \in Date, NEW t \in Date, NEW bound \in Nat, MonthsBetween(s, t) <= bound
  PROVE  MonthsBetween(s, t) =
           Cardinality({k \in 1..bound :
             LET m == (t.y * 12 + t.m) - (s.y * 12 + s.m)
             IN  IF k = m THEN s.d <= t.d ELSE k < m})
<1> DEFINE m == (t.y * 12 + t.m) - (s.y * 12 + s.m)
           passed == {k \in 1..bound : IF k = m THEN s.d <= t.d ELSE k < m}
           n == MonthsBetween(s, t)
<1>1. s.y \in Nat /\ s.m \in Nat /\ s.d \in Nat /\ t.y \in Nat /\ t.m \in Nat /\ t.d \in Nat
  BY DEF Date
<1>2. m \in Int /\ n = (IF m - (IF t.d < s.d THEN 1 ELSE 0) > 0 THEN m - (IF t.d < s.d THEN 1 ELSE 0) ELSE 0)
  BY <1>1 DEF MonthsBetween
<1> HIDE DEF m, n
<1>3. n \in Nat /\ n <= bound
  BY <1>1, <1>2 DEF n
<1>4. passed = 1..n
  BY <1>1, <1>2, <1>3
<1>5. Cardinality(1..n) = n
  BY <1>3, FS_Interval
<1> QED
  BY <1>4, <1>5 DEF m, n

(* A set of numbers has a least one.                                       *)
LEMMA LeastOf ==
  ASSUME NEW S \in SUBSET Nat, S # {}
  PROVE  \E j \in S : \A k \in S : j <= k
<1>1. PICK m \in S : \A k \in S : <<k, m>> \notin OpToRel(<, Nat)
  BY NatLessThanWellFounded, WFMin
<1>2. ASSUME NEW k \in S PROVE m <= k
  <2>1. k \in Nat /\ m \in Nat
    OBVIOUS
  <2>2. k < m => <<k, m>> \in OpToRel(<, Nat)
    BY <2>1 DEF OpToRel
  <2>3. ~(k < m)
    BY <1>1, <2>2
  <2> QED
    BY <2>1, <2>3
<1> QED
  BY <1>2

-----------------------------------------------------------------------------
(* The paths of approval: normalize_steps.                                 *)

(* The steps in no fixed place.                                            *)
OtherKeys == StepKeys \ {"finance", "site_manager"}

(* One step of the loop of normalize_steps.                                *)
Keeping(o, k) == IF k \in OtherKeys \ Range(o) THEN Append(o, k) ELSE o

(* What the loop keeps.                                                    *)
KeptOf(s) ==
  FoldLeft(LAMBDA o, k : IF k \in (StepKeys \ {"finance", "site_manager"}) \ Range(o)
                         THEN Append(o, k) ELSE o, <<>>, s)

(* The site manager, if stored.                                            *)
EndOf(s) == (IF "site_manager" \in Range(s) THEN <<"site_manager">> ELSE <<>>)

(* normalize_steps is the loop, the site manager and finance.              *)
LEMMA NormalizedIs ==
  ASSUME NEW s, s # None
  PROVE  NormalizeSteps(s) = KeptOf(s) \o EndOf(s) \o <<"finance">>
BY DEF NormalizeSteps, KeptOf, EndOf

(* One step of the loop, on what it keeps.                                 *)
LEMMA KeepingType ==
  ASSUME NEW o \in Seq(OtherKeys), NEW k
  PROVE  Keeping(o, k) \in Seq(OtherKeys)
BY DEF Keeping

(* The loop, step by step.                                                 *)
LEMMA KeptLoop ==
  ASSUME NEW n \in Nat, NEW X, NEW s \in [1..n -> X]
  PROVE  \E o \in [0..n -> Seq(OtherKeys)] :
           /\ o[0] = <<>> /\ \A i \in 1..n : o[i] = Keeping(o[i - 1], s[i])
           /\ KeptOf(s) = o[n]
<1> DEFINE A == Seq(OtherKeys)
           h == [p \in A \X X |-> Keeping(p[1], p[2])]
           Step(f) == [S \in SUBSET (1..n) |->
                         IF S = {} THEN <<>> ELSE Keeping(f[S \ {Max(S)}], s[Max(S)])]
           iter == CHOOSE f : f = Step(f)
           o == [i \in 0..n |-> iter[1..i]]
<1>1. \E f : f = Step(f)
  <2>1. PICK f : IsLoop(f, n, A, <<>>, s, h)
    <3>1. h \in [A \X X -> A] /\ <<>> \in A
      BY KeepingType
    <3> HIDE DEF h, A
    <3> QED
      BY <3>1, LoopExists
  <2>2. ASSUME NEW S \in SUBSET (1..n), S # {} PROVE f[S] = Keeping(f[S \ {Max(S)}], s[Max(S)])
    <3>1. S \ {Max(S)} \in SUBSET (1..n) /\ Max(S) \in 1..n
      BY <2>2, Greatest
    <3>2. f[S \ {Max(S)}] \in A /\ s[Max(S)] \in X
      BY <2>1, <3>1 DEF IsLoop
    <3> HIDE DEF A
    <3> QED
      BY <2>1, <2>2, <3>2 DEF IsLoop
  <2> QED
    BY <2>1, <2>2 DEF IsLoop
<1>2. iter = Step(iter)
  BY <1>1
<1>3. KeptOf(s) = iter[1..n]
  BY DEF KeptOf, FoldLeft, MapThenFoldSet, Keeping, OtherKeys
<1> HIDE DEF iter
<1>4. iter[{}] = <<>> /\ \A i \in 1..n : iter[1..i] = Keeping(iter[1..(i - 1)], s[i])
  <2>1. \A S \in SUBSET (1..n) : iter[S] = IF S = {} THEN <<>> ELSE Keeping(iter[S \ {Max(S)}], s[Max(S)])
    BY <1>2
  <2> HIDE DEF Step, o, h
  <2>2. ASSUME NEW i \in 1..n PROVE iter[1..i] = Keeping(iter[1..(i - 1)], s[i])
    <3>1. /\ 1..i \in SUBSET (1..n) /\ 1..i # {}
          /\ Max(1..i) = i /\ (1..i) \ {i} = 1..(i - 1)
      BY Prefix
    <3>2. iter[1..i] = Keeping(iter[(1..i) \ {Max(1..i)}], s[Max(1..i)])
      BY <2>1, <3>1
    <3> QED
      BY <3>1, <3>2
  <2> QED
    BY <2>1, <2>2
<1>5. \A i \in 0..n : iter[1..i] \in A
  <2> DEFINE G == {i \in 0..n : iter[1..i] \in A}
  <2>1. 0 \in G /\ \A i \in 1..n : i - 1 \in G => i \in G
    <3>1. 1..0 = {} /\ 0 \in 0..n /\ <<>> \in A
      OBVIOUS
    <3>2. 0 \in G
      BY <1>4, <3>1
    <3>3. \A i \in 1..n : i - 1 \in G => i \in G
      BY <1>4, KeepingType
    <3> QED
      BY <3>2, <3>3
  <2> HIDE DEF G
  <2>2. \A i \in 0..n : i \in G
    BY <2>1, StepByStep
  <2> QED
    BY <2>2 DEF G
<1>6. o[0] = <<>> /\ o[n] = iter[1..n] /\ \A i \in 1..n : o[i] = Keeping(o[i - 1], s[i])
  <2>1. 1..0 = {} /\ 0 \in 0..n /\ n \in 0..n /\ \A i \in 1..n : i \in 0..n /\ i - 1 \in 0..n
    OBVIOUS
  <2> QED
    BY <1>4, <2>1
<1> QED
  BY <1>3, <1>5, <1>6

(* A function on positions.                                                *)
IsRun(o) == \E n \in Nat : DOMAIN o = 1..n /\ Len(o) = n

(* What Append makes of a sequence.                                        *)
LEMMA AppendIs ==
  ASSUME NEW S, NEW o \in Seq(S), NEW k \in S
  PROVE  /\ Append(o, k) \in Seq(S) /\ Len(o) \in Nat
         /\ DOMAIN o = 1..Len(o) /\ Len(Append(o, k)) = Len(o) + 1
         /\ DOMAIN Append(o, k) = 1..(Len(o) + 1)
         /\ Append(o, k)[Len(o) + 1] = k
         /\ \A i \in 1..Len(o) : Append(o, k)[i] = o[i]
         /\ Range(Append(o, k)) = Range(o) \cup {k}
<1>1. /\ Append(o, k) \in Seq(S) /\ Len(o) \in Nat
      /\ DOMAIN o = 1..Len(o) /\ Len(Append(o, k)) = Len(o) + 1
      /\ DOMAIN Append(o, k) = 1..(Len(o) + 1)
      /\ Append(o, k)[Len(o) + 1] = k
      /\ \A i \in 1..Len(o) : Append(o, k)[i] = o[i]
  OBVIOUS
<1>2. \A i \in 1..(Len(o) + 1) : i = Len(o) + 1 \/ i \in 1..Len(o)
  BY <1>1
<1>3. 1..Len(o) \subseteq 1..(Len(o) + 1) /\ Len(o) + 1 \in 1..(Len(o) + 1)
  BY <1>1
<1>4. Range(Append(o, k)) = Range(o) \cup {k}
  BY <1>1, <1>2, <1>3 DEF Range
<1> QED
  BY <1>1, <1>4

(* The elements of o stand in the order in which s names them first.       *)
FirstCome(o, s) ==
  \A a, b \in DOMAIN o : a < b =>
    \E x \in DOMAIN s : s[x] = o[a] /\ \A y \in 1..x : s[y] # o[b]

(* The loop keeps each of the other steps once, in the order met.          *)
LEMMA KeptIs ==
  ASSUME NEW n \in Nat, NEW X, NEW s \in [1..n -> X]
  PROVE  /\ KeptOf(s) \in Seq(OtherKeys) /\ IsInjective(KeptOf(s))
         /\ Range(KeptOf(s)) = Range(s) \cap OtherKeys
         /\ FirstCome(KeptOf(s), s)
<1>1. PICK o \in [0..n -> Seq(OtherKeys)] :
        /\ o[0] = <<>> /\ \A i \in 1..n : o[i] = Keeping(o[i - 1], s[i])
        /\ KeptOf(s) = o[n]
  BY KeptLoop
<1> DEFINE Met(i) == {s[j] : j \in 1..i}
           Good(i) ==
             /\ IsInjective(o[i])
             /\ Range(o[i]) = Met(i) \cap OtherKeys
             /\ \A a, b \in DOMAIN o[i] : a < b =>
                  \E x \in 1..i : s[x] = o[i][a] /\ \A y \in 1..x : s[y] # o[i][b]
           G == {i \in 0..n : Good(i)}
<1>2. 0 \in G
  <2>1. DOMAIN o[0] = {} /\ Met(0) = {} /\ 0 \in 0..n
    BY <1>1
  <2>2. Range(o[0]) = {} /\ IsInjective(o[0])
    BY <2>1 DEF Range, IsInjective
  <2> QED
    BY <2>1, <2>2
<1>3. ASSUME NEW i \in 1..n, i - 1 \in G PROVE i \in G
  <2> DEFINE p == o[i - 1]
             k == s[i]
  <2>1. Good(i - 1) /\ i - 1 \in 0..n /\ p \in Seq(OtherKeys) /\ o[i] = Keeping(p, k)
    BY <1>1, <1>3
  <2>2. Met(i) = Met(i - 1) \cup {k}
    <3>1. \A j \in 1..i : j = i \/ j \in 1..(i - 1)
      OBVIOUS
    <3>2. 1..(i - 1) \subseteq 1..i /\ i \in 1..i
      OBVIOUS
    <3> QED
      BY <3>1, <3>2
  <2>3. CASE k \in OtherKeys \ Range(p)
    <3>1. o[i] = Append(p, k)
      BY <2>1, <2>3 DEF Keeping
    <3> DEFINE m == Len(p)
    <3>2. /\ m \in Nat /\ DOMAIN p = 1..m /\ DOMAIN o[i] = 1..(m + 1)
          /\ o[i][m + 1] = k /\ \A a \in 1..m : o[i][a] = p[a]
          /\ Range(o[i]) = Range(p) \cup {k}
      BY <2>1, <2>3, <3>1, AppendIs
    <3> HIDE DEF m, p, k, Met
    <3>3. Range(o[i]) = Met(i) \cap OtherKeys
      <4>1. Range(p) = Met(i - 1) \cap OtherKeys
        BY <2>1 DEF p
      <4> QED
        BY <2>2, <2>3, <3>2, <4>1
    <3>4. \A a \in 1..m : p[a] \in Range(p)
      BY <3>2 DEF Range
    <3>5. IsInjective(o[i])
      <4> SUFFICES ASSUME NEW a \in 1..(m + 1), NEW b \in 1..(m + 1), o[i][a] = o[i][b] PROVE a = b
        BY <3>2 DEF IsInjective
      <4>1. CASE a \in 1..m /\ b \in 1..m
        BY <2>1, <3>2, <4>1 DEF IsInjective, p
      <4>2. CASE a = m + 1 \/ b = m + 1
        BY <2>3, <3>2, <3>4, <4>2
      <4> QED
        BY <3>2, <4>1, <4>2
    <3>6. ASSUME NEW a \in DOMAIN o[i], NEW b \in DOMAIN o[i], a < b
          PROVE  \E x \in 1..i : s[x] = o[i][a] /\ \A y \in 1..x : s[y] # o[i][b]
      <4>1. a \in 1..m /\ o[i][a] = p[a]
        BY <3>2, <3>6
      <4>2. CASE b = m + 1
        <5>1. p[a] \in Met(i - 1) /\ k \notin Met(i - 1)
          <6>1. Range(p) = Met(i - 1) \cap OtherKeys
            BY <2>1 DEF p
          <6> QED
            BY <2>3, <3>4, <4>1, <6>1
        <5>2. PICK x \in 1..(i - 1) : s[x] = p[a]
          BY <5>1 DEF Met
        <5>3. \A y \in 1..x : s[y] # k
          BY <5>1 DEF Met
        <5>4. x \in 1..i
          OBVIOUS
        <5> QED
          BY <3>2, <4>1, <4>2, <5>2, <5>3, <5>4
      <4>3. CASE b # m + 1
        <5>1. b \in 1..m /\ o[i][b] = p[b]
          BY <3>2, <4>3
        <5>2. PICK x \in 1..(i - 1) : s[x] = p[a] /\ \A y \in 1..x : s[y] # p[b]
          BY <2>1, <3>2, <3>6, <4>1, <5>1 DEF p
        <5>3. x \in 1..i
          OBVIOUS
        <5> QED
          BY <4>1, <5>1, <5>2, <5>3
      <4> QED
        BY <4>2, <4>3
    <3> QED
      BY <3>3, <3>5, <3>6
  <2>4. CASE ~(k \in OtherKeys \ Range(p))
    <3>1. o[i] = p
      BY <2>1, <2>4 DEF Keeping
    <3> HIDE DEF p, k, Met
    <3>2. Range(p) = Met(i - 1) \cap OtherKeys /\ IsInjective(p)
      BY <2>1 DEF p
    <3>3. Range(p) = Met(i) \cap OtherKeys
      BY <2>2, <2>4, <3>2
    <3>4. ASSUME NEW a \in DOMAIN p, NEW b \in DOMAIN p, a < b
          PROVE  \E x \in 1..i : s[x] = p[a] /\ \A y \in 1..x : s[y] # p[b]
      <4>1. PICK x \in 1..(i - 1) : s[x] = p[a] /\ \A y \in 1..x : s[y] # p[b]
        BY <2>1, <3>4 DEF p
      <4>2. x \in 1..i
        OBVIOUS
      <4> QED
        BY <4>1, <4>2
    <3>5. Good(i)
      BY <3>1, <3>2, <3>3, <3>4
    <3> QED
      BY <3>5
  <2> QED
    BY <2>3, <2>4
<1>4. Good(n)
  <2> HIDE DEF Good
  <2>1. \A i \in 1..n : i - 1 \in G => i \in G
    BY <1>3
  <2>2. \A i \in 0..n : i \in G
    <3> HIDE DEF G
    <3> QED
      BY <1>2, <2>1, StepByStep
  <2> QED
    BY <2>2
<1>5. Met(n) = Range(s) /\ DOMAIN s = 1..n
  BY DEF Range
<1> QED
  BY <1>1, <1>4, <1>5 DEF FirstCome

(* The tail of a path. *)
Ends == {<<>>, <<"site_manager">>}

(* A path of the steps kept, an end, and finance.                          *)
IsJoined(p, k, e) ==
  /\ p \in Seq(StepKeys) /\ Len(p) \in Nat /\ Len(k) \in Nat /\ Len(e) \in 0..1
  /\ Len(p) = Len(k) + Len(e) + 1
  /\ DOMAIN p = 1..(Len(k) + Len(e) + 1) /\ DOMAIN k = 1..Len(k)
  /\ \A i \in 1..Len(k) : p[i] = k[i] /\ k[i] \in OtherKeys
  /\ Len(e) = 1 => p[Len(k) + 1] = "site_manager"
  /\ p[Len(k) + Len(e) + 1] = "finance"
  /\ e = <<>> => Len(e) = 0
  /\ e # <<>> => Len(e) = 1

(* Put together so.                                                        *)
LEMMA Joined ==
  ASSUME NEW k \in Seq(OtherKeys), NEW e \in Ends
  PROVE  IsJoined(k \o e \o <<"finance">>, k, e)
<1>1. OtherKeys \subseteq StepKeys /\ "site_manager" \in StepKeys /\ "finance" \in StepKeys
  BY DEF OtherKeys, StepKeys, PersonSteps
<1>2. k \in Seq(StepKeys) /\ Len(k) \in Nat /\ DOMAIN k = 1..Len(k) /\ \A i \in 1..Len(k) : k[i] \in OtherKeys
  BY <1>1
<1>3. CASE e = <<>>
  <2>1. k \o e = k /\ Len(e) = 0
    BY <1>3
  <2>2. k \o e \o <<"finance">> = Append(k, "finance")
    BY <1>2, <2>1
  <2> QED
    BY <1>1, <1>2, <1>3, <2>1, <2>2, AppendIs DEF IsJoined
<1>4. CASE e = <<"site_manager">>
  <2> DEFINE q == Append(k, "site_manager")
  <2>1. k \o e = q /\ Len(e) = 1
    BY <1>2, <1>4
  <2>2. /\ q \in Seq(StepKeys) /\ Len(q) = Len(k) + 1 /\ q[Len(k) + 1] = "site_manager"
        /\ \A i \in 1..Len(k) : q[i] = k[i]
    BY <1>1, <1>2, AppendIs
  <2> HIDE DEF q
  <2>3. k \o e \o <<"finance">> = Append(q, "finance")
    BY <2>1, <2>2
  <2> DEFINE p == Append(q, "finance")
  <2>4. /\ p \in Seq(StepKeys) /\ Len(p) = Len(q) + 1 /\ p[Len(q) + 1] = "finance"
        /\ DOMAIN p = 1..(Len(q) + 1) /\ \A i \in 1..Len(q) : p[i] = q[i]
    BY <1>1, <2>2, AppendIs
  <2> HIDE DEF p
  <2>5. IsJoined(p, k, e)
    <3>1. Len(k) + 1 \in 1..Len(q) /\ \A i \in 1..Len(k) : i \in 1..Len(q)
      BY <1>2, <2>2
    <3> QED
      BY <1>2, <1>4, <2>1, <2>2, <2>4, <3>1 DEF IsJoined
  <2> QED
    BY <2>3, <2>5 DEF p
<1> QED
  BY <1>3, <1>4 DEF Ends

(* No more different keys than there are. *)
LEMMA ThreeKeys ==
  ASSUME NEW k \in Seq(OtherKeys), IsInjective(k)
  PROVE  Len(k) <= 3
<1>1. Len(k) \in Nat /\ DOMAIN k = 1..Len(k) /\ \A i \in 1..Len(k) : k[i] \in OtherKeys
  OBVIOUS
<1>2. ASSUME Len(k) > 3 PROVE FALSE
  <2>1. 1 \in DOMAIN k /\ 2 \in DOMAIN k /\ 3 \in DOMAIN k /\ 4 \in DOMAIN k
    BY <1>1, <1>2
  <2>2. /\ k[1] # k[2] /\ k[1] # k[3] /\ k[1] # k[4]
        /\ k[2] # k[3] /\ k[2] # k[4] /\ k[3] # k[4]
    BY <2>1 DEF IsInjective
  <2>3. /\ k[1] \in {"guarantors", "unit_manager", "hr"} /\ k[2] \in {"guarantors", "unit_manager", "hr"}
        /\ k[3] \in {"guarantors", "unit_manager", "hr"} /\ k[4] \in {"guarantors", "unit_manager", "hr"}
    BY <1>1, <2>1 DEF OtherKeys, StepKeys, PersonSteps
  <2> QED
    BY <2>2, <2>3
<1> QED
  BY <1>1, <1>2

(* It is a path.                                                           *)
LEMMA JoinedIsPath ==
  ASSUME NEW k \in Seq(OtherKeys), IsInjective(k), NEW e, NEW p, IsJoined(p, k, e)
  PROVE  p \in StepPaths
<1> DEFINE m == Len(k)
           r == Len(e)
           n == m + r + 1
<1>2. m <= 3
  BY ThreeKeys
<1>1. /\ m \in Nat /\ r \in 0..1 /\ Len(p) = n /\ DOMAIN p = 1..n
      /\ p \in Seq(StepKeys) /\ DOMAIN k = 1..m
      /\ \A i \in 1..m : p[i] = k[i] /\ k[i] \in OtherKeys
      /\ r = 1 => p[m + 1] = "site_manager"
      /\ p[n] = "finance"
  BY DEF IsJoined
<1>3. m \in 0..3 /\ n \in 1..5 /\ \A i \in 1..n : i \in 1..m \/ (r = 1 /\ i = m + 1) \/ i = n
  <2>1. m \in Nat /\ r \in 0..1 /\ m <= 3
    BY <1>1, <1>2
  <2> HIDE DEF m, r
  <2> QED
    BY <2>1
<1>9. "site_manager" \notin OtherKeys /\ "finance" \notin OtherKeys
  BY DEF OtherKeys
<1>8. r = 1 => m + 1 = n - 1
  BY <1>1
<1> HIDE DEF m, r, n
<1>4. p \in [1..n -> StepKeys]
  BY <1>1
<1>6. IsInjective(p)
  <2> SUFFICES ASSUME NEW a \in 1..n, NEW b \in 1..n, p[a] = p[b] PROVE a = b
    BY <1>1 DEF IsInjective
  <2>1. CASE a \in 1..m /\ b \in 1..m
    BY <1>1, <2>1 DEF IsInjective
  <2>2. CASE a \in 1..m /\ b \notin 1..m
    <3>1. p[a] \in OtherKeys /\ p[b] \notin OtherKeys
      BY <1>1, <1>3, <1>9, <2>2
    <3> QED
      BY <3>1
  <2>3. CASE a \notin 1..m /\ b \in 1..m
    <3>1. p[b] \in OtherKeys /\ p[a] \notin OtherKeys
      BY <1>1, <1>3, <1>9, <2>3
    <3> QED
      BY <3>1
  <2>4. CASE a \notin 1..m /\ b \notin 1..m
    BY <1>1, <1>3, <2>4
  <2> QED
    BY <2>1, <2>2, <2>3, <2>4
<1>7. \A i \in 1..n : p[i] = "site_manager" => i = n - 1
  <2> SUFFICES ASSUME NEW i \in 1..n, p[i] = "site_manager" PROVE i = n - 1
    OBVIOUS
  <2>1. r = 1 /\ i = m + 1
    BY <1>1, <1>3, <1>9
  <2> QED
    BY <1>8, <2>1
<1> QED
  BY <1>1, <1>3, <1>4, <1>6, <1>7 DEF StepPaths

(* The end, by what was stored.                                            *)
LEMMA EndIs ==
  ASSUME NEW s
  PROVE  EndOf(s) \in Ends /\ (EndOf(s) = <<>> <=> "site_manager" \notin Range(s))
BY DEF EndOf, Ends

(* What normalize_steps makes of the list s. *)
IsNormal(p, s) ==
  /\ p \in StepPaths
  /\ Range(p) = (Range(s) \cap StepKeys) \cup {"finance"}
  /\ \A a, b \in DOMAIN p : p[a] \in OtherKeys /\ p[b] \in OtherKeys /\ a < b =>
       \E x \in DOMAIN s : s[x] = p[a] /\ \A y \in 1..x : s[y] # p[b]

(* normalize_steps makes a path of everything that is stored: its known    *)
(* steps and finance, the others but the site manager in the order stored. *)
LEMMA Normalized ==
  ASSUME NEW n \in Nat, NEW X, NEW s \in [1..n -> X], s # None, NEW p, p = NormalizeSteps(s)
  PROVE  IsNormal(p, s)
<1> DEFINE k == KeptOf(s)
           e == EndOf(s)
<1>1. /\ k \in Seq(OtherKeys) /\ IsInjective(k) /\ Range(k) = Range(s) \cap OtherKeys
      /\ FirstCome(k, s)
  BY KeptIs
<1>2. e \in Ends /\ (e = <<>> <=> "site_manager" \notin Range(s))
  BY EndIs
<1>3. p = k \o e \o <<"finance">>
  BY NormalizedIs
<1> HIDE DEF k, e
<1>5. IsJoined(p, k, e)
  BY <1>1, <1>2, <1>3, Joined
<1>4. p \in StepPaths
  BY <1>1, <1>5, JoinedIsPath
<1> DEFINE m == Len(k)
           r == Len(e)
           l == m + r + 1
<1>6. /\ m \in Nat /\ r \in 0..1 /\ DOMAIN p = 1..l /\ DOMAIN k = 1..m
      /\ \A i \in 1..m : p[i] = k[i] /\ k[i] \in OtherKeys
      /\ r = 1 => p[m + 1] = "site_manager"
      /\ p[l] = "finance" /\ (e = <<>> <=> r = 0)
  BY <1>5 DEF IsJoined
<1>7. \A i \in 1..l : i \in 1..m \/ (r = 1 /\ i = m + 1) \/ i = l
  <2>1. m \in Nat /\ r \in 0..1
    BY <1>6
  <2> HIDE DEF m, r
  <2> QED
    BY <2>1
<1>8. l \in 1..l /\ (r = 1 => m + 1 \in 1..l) /\ 1..m \subseteq 1..l
  BY <1>6
<1>9. "site_manager" \notin OtherKeys /\ "finance" \notin OtherKeys
  BY DEF OtherKeys
<1> HIDE DEF m, r, l
<1>10. Range(p) = Range(k) \cup (IF r = 1 THEN {"site_manager"} ELSE {}) \cup {"finance"}
  <2>1. Range(p) = {p[i] : i \in 1..l} /\ Range(k) = {k[i] : i \in 1..m}
    BY <1>6 DEF Range
  <2> QED
    BY <1>6, <1>7, <1>8, <2>1
<1>11. Range(p) = (Range(s) \cap StepKeys) \cup {"finance"}
  <2>1. r = 1 <=> "site_manager" \in Range(s)
    BY <1>2, <1>6
  <2> QED
    BY <1>1, <1>10, <2>1 DEF OtherKeys, StepKeys, PersonSteps
<1>12. ASSUME NEW a \in DOMAIN p, NEW b \in DOMAIN p, p[a] \in OtherKeys, p[b] \in OtherKeys, a < b
       PROVE  \E x \in DOMAIN s : s[x] = p[a] /\ \A y \in 1..x : s[y] # p[b]
  <2>1. a \in 1..m /\ b \in 1..m
    BY <1>6, <1>7, <1>9, <1>12
  <2>2. p[a] = k[a] /\ p[b] = k[b] /\ a \in DOMAIN k /\ b \in DOMAIN k
    BY <1>6, <2>1
  <2> QED
    BY <1>1, <1>12, <2>2 DEF FirstCome
<1> QED
  BY <1>4, <1>11, <1>12 DEF IsNormal

(* What there is to say of a path.                                         *)
LEMMA PathIs ==
  ASSUME NEW p \in StepPaths
  PROVE  /\ Len(p) \in 1..5 /\ DOMAIN p = 1..Len(p) /\ p \in [1..Len(p) -> StepKeys]
         /\ p # None /\ IsInjective(p) /\ p[Len(p)] = "finance"
         /\ \A i \in 1..Len(p) : p[i] = "site_manager" => i = Len(p) - 1
<1>1. PICK n \in 1..5 : p \in [1..n -> StepKeys]
  BY DEF StepPaths
<1>2. Len(p) = n /\ DOMAIN p = 1..n
  BY <1>1, FunctionIsSeq
<1>3. p # None
  <2>1. p \in [1..n -> StepKeys \cup {"other"}] /\ n \in 0..5
    BY <1>1
  <2> QED
    BY <2>1, NoneIsNoPath DEF BoundedSeq, SeqOf
<1> QED
  BY <1>1, <1>2, <1>3 DEF StepPaths

(* The first c steps of a path are kept one by one, if they are others.    *)
LEMMA KeptPrefix ==
  ASSUME NEW n \in Nat, NEW p \in [1..n -> StepKeys], IsInjective(p), NEW c \in 0..n,
         \A i \in 1..n : p[i] \in OtherKeys <=> i <= c
  PROVE  Len(KeptOf(p)) = c /\ \A j \in 1..c : KeptOf(p)[j] = p[j]
<1>1. PICK o \in [0..n -> Seq(OtherKeys)] :
        /\ o[0] = <<>> /\ \A i \in 1..n : o[i] = Keeping(o[i - 1], p[i])
        /\ KeptOf(p) = o[n]
  BY KeptLoop
<1> DEFINE Good(i, d) == Len(o[i]) = d /\ \A j \in 1..d : o[i][j] = p[j]
           G == {i \in 0..n : Good(i, IF i <= c THEN i ELSE c)}
<1>2. 0 \in G
  <2>1. 0 \in 0..n /\ Good(0, 0)
    BY <1>1
  <2> QED
    BY <2>1
<1>3. ASSUME NEW i \in 1..n, i - 1 \in G PROVE i \in G
  <2>1. o[i] = Keeping(o[i - 1], p[i]) /\ i - 1 \in 0..n /\ i \in 0..n /\ o[i - 1] \in Seq(OtherKeys)
    <3>1. i - 1 \in 0..n /\ i \in 0..n
      OBVIOUS
    <3>2. \A j \in 0..n : o[j] \in Seq(OtherKeys)
      <4> HIDE DEF G
      <4> QED
        BY <1>1
    <3>3. o[i] = Keeping(o[i - 1], p[i])
      <4> HIDE DEF G
      <4> QED
        BY <1>1
    <3> QED
      BY <3>1, <3>2, <3>3
  <2>2. CASE i <= c
    <3>1. Good(i - 1, i - 1) /\ p[i] \in OtherKeys /\ i - 1 \in Nat
      <4>1. i - 1 <= c /\ i - 1 \in Nat /\ p[i] \in OtherKeys
        BY <2>2
      <4>2. Good(i - 1, IF i - 1 <= c THEN i - 1 ELSE c)
        BY <1>3
      <4> HIDE DEF Good
      <4> QED
        BY <4>1, <4>2
    <3> DEFINE q == o[i - 1]
    <3>2. q \in Seq(OtherKeys) /\ Len(q) = i - 1 /\ \A j \in 1..(i - 1) : q[j] = p[j]
      BY <2>1, <3>1
    <3> HIDE DEF q
    <3>3. p[i] \notin Range(q)
      <4>1. DOMAIN q = 1..(i - 1) /\ DOMAIN p = 1..n
        BY <3>2
      <4>2. ASSUME NEW j \in 1..(i - 1) PROVE p[j] # p[i]
        <5>1. j \in 1..n /\ j # i
          OBVIOUS
        <5> QED
          BY <4>1, <5>1 DEF IsInjective
      <4> QED
        BY <3>2, <4>1, <4>2 DEF Range
    <3>4. o[i] = Append(q, p[i])
      BY <2>1, <3>1, <3>3 DEF Keeping, q
    <3>5. Len(o[i]) = i /\ o[i][i] = p[i] /\ \A j \in 1..(i - 1) : o[i][j] = p[j]
      BY <3>1, <3>2, <3>4, AppendIs
    <3>6. \A j \in 1..i : j = i \/ j \in 1..(i - 1)
      OBVIOUS
    <3>7. Good(i, i)
      BY <3>5, <3>6
    <3> QED
      BY <2>1, <2>2, <3>7
  <2>3. CASE i > c
    <3>1. Good(i - 1, c) /\ p[i] \notin OtherKeys
      BY <1>3, <2>3
    <3>2. o[i] = o[i - 1]
      BY <2>1, <3>1 DEF Keeping
    <3> QED
      BY <2>1, <2>3, <3>1, <3>2
  <2> QED
    BY <2>2, <2>3
<1>4. Good(n, c)
  <2>1. \A i \in 1..n : i - 1 \in G => i \in G
    BY <1>3
  <2>2. \A i \in 0..n : i \in G
    <3> HIDE DEF G
    <3> QED
      BY <1>2, <2>1, StepByStep
  <2>3. n \in 0..n /\ (IF n <= c THEN n ELSE c) = c
    OBVIOUS
  <2> QED
    BY <2>2, <2>3
<1> QED
  BY <1>1, <1>4

(* Sequences with the same elements are the same.                          *)
LEMMA SameSeq ==
  ASSUME NEW S, NEW p \in Seq(S), NEW q \in Seq(S), Len(p) = Len(q),
         \A i \in 1..Len(p) : p[i] = q[i]
  PROVE  p = q
OBVIOUS

(* normalize_steps leaves a path as it is. *)
LEMMA NormalizedTwice ==
  ASSUME NEW p \in StepPaths
  PROVE  NormalizeSteps(p) = p
<1> DEFINE n == Len(p)
           k == KeptOf(p)
           e == EndOf(p)
           q == NormalizeSteps(p)
           c == IF "site_manager" \in Range(p) THEN n - 2 ELSE n - 1
<1>1. /\ n \in 1..5 /\ DOMAIN p = 1..n /\ p \in [1..n -> StepKeys]
      /\ p # None /\ IsInjective(p) /\ p[n] = "finance"
      /\ \A i \in 1..n : p[i] = "site_manager" => i = n - 1
  BY PathIs
<1> HIDE DEF n
<1>2. e \in Ends /\ (e = <<>> <=> "site_manager" \notin Range(p))
  BY EndIs
<1>3. q = k \o e \o <<"finance">>
  BY <1>1, NormalizedIs
<1>4. k \in Seq(OtherKeys)
  <2>1. p \in [1..n -> StepKeys] /\ n \in Nat
    BY <1>1
  <2> QED
    BY <2>1, KeptIs
<1>5. IsJoined(q, k, e)
  <2> HIDE DEF q, k, e
  <2> QED
    BY <1>2, <1>3, <1>4, Joined
<1>6. "site_manager" \in Range(p) => n - 1 \in 1..n /\ p[n - 1] = "site_manager"
  BY <1>1 DEF Range
<1>7. c \in 0..n /\ \A i \in 1..n : p[i] \in OtherKeys <=> i <= c
  <2>1. \A i \in 1..n : p[i] = "finance" <=> i = n
    <3>1. n \in 1..n
      BY <1>1
    <3> QED
      BY <1>1, <3>1 DEF IsInjective
  <2>2. \A i \in 1..n : p[i] \in OtherKeys <=> p[i] \notin {"finance", "site_manager"}
    BY <1>1 DEF OtherKeys
  <2>3. CASE "site_manager" \in Range(p)
    <3>1. \A i \in 1..n : p[i] = "site_manager" <=> i = n - 1
      BY <1>1, <1>6, <2>3
    <3>2. c = n - 2 /\ n - 1 \in 1..n
      BY <1>6, <2>3
    <3> QED
      BY <1>1, <2>1, <2>2, <3>1, <3>2
  <2>4. CASE "site_manager" \notin Range(p)
    <3>1. \A i \in 1..n : p[i] # "site_manager"
      BY <1>1, <2>4 DEF Range
    <3> QED
      BY <1>1, <2>1, <2>2, <2>4, <3>1
  <2> QED
    BY <2>3, <2>4
<1>8. Len(k) = c /\ \A j \in 1..c : k[j] = p[j]
  <2>1. n \in Nat /\ p \in [1..n -> StepKeys] /\ IsInjective(p)
    BY <1>1
  <2> HIDE DEF c, k
  <2> QED
    BY <1>7, <2>1, KeptPrefix DEF k
<1> HIDE DEF k, e, q
<1>9. Len(q) = n /\ q \in Seq(StepKeys) /\ \A i \in 1..n : q[i] = p[i]
  <2>1. CASE e = <<>>
    <3>1. c = n - 1 /\ Len(e) = 0
      BY <1>2, <1>5, <2>1 DEF IsJoined
    <3>2. Len(q) = n /\ q[n] = "finance" /\ \A i \in 1..(n - 1) : q[i] = p[i]
      BY <1>1, <1>5, <1>8, <3>1 DEF IsJoined
    <3>3. \A i \in 1..n : i = n \/ i \in 1..(n - 1)
      BY <1>1
    <3> QED
      BY <1>1, <1>5, <3>2, <3>3 DEF IsJoined
  <2>2. CASE e # <<>>
    <3>1. c = n - 2 /\ Len(e) = 1 /\ n - 1 \in 1..n /\ p[n - 1] = "site_manager"
      BY <1>2, <1>5, <1>6, <2>2 DEF IsJoined
    <3>2. /\ Len(q) = n /\ q[n] = "finance" /\ q[n - 1] = "site_manager"
          /\ \A i \in 1..(n - 2) : q[i] = p[i]
      BY <1>1, <1>5, <1>8, <3>1 DEF IsJoined
    <3>3. \A i \in 1..n : i = n \/ i = n - 1 \/ i \in 1..(n - 2)
      BY <1>1
    <3> QED
      BY <1>1, <1>5, <3>1, <3>2, <3>3 DEF IsJoined
  <2> QED
    BY <2>1, <2>2
<1>10. p \in Seq(StepKeys) /\ Len(p) = n
  <2>1. p \in [1..n -> StepKeys] /\ n \in Nat
    BY <1>1
  <2> QED
    BY <2>1, FunctionIsSeq
<1>11. q = p
  BY <1>9, <1>10, SameSeq
<1> QED
  BY <1>11 DEF q

-----------------------------------------------------------------------------
(* The paths of approval: effective_steps.                                 *)

(* One step of the loop of effective_steps: the step of the path it skips. *)
Skips(k, seen, g, e, person) ==
  \/ k = "guarantors" /\ g = 0
  \/ k \in PersonSteps /\ person[k] \in {e} \cup seen

(* What it makes of the path and the persons met.                          *)
Passing(acc, k, g, e, person) ==
  IF Skips(k, acc.seen, g, e, person) THEN acc
  ELSE [out  |-> Append(acc.out, k),
        seen |-> acc.seen \cup (IF k \in PersonSteps THEN {person[k]} \ {None} ELSE {})]

(* The loop.                                                               *)
PassedOf(w, g, e, person) ==
  FoldLeft(LAMBDA acc, k : Passing(acc, k, g, e, person), [out |-> <<>>, seen |-> {}], w)

(* effective_steps is the loop over the path with guarantors.              *)
LEMMA EffectiveIs ==
  ASSUME NEW s, NEW g, NEW e, NEW person
  PROVE  EffectiveSteps(s, g, e, person)
           = PassedOf(WithGuarantors(NormalizeSteps(s), g), g, e, person).out
BY DEF EffectiveSteps, PassedOf, Passing, Skips

(* The path and the persons met so far.                                    *)
Passed == [out : Seq(StepKeys), seen : SUBSET Employees]

(* One step of the loop, on what it has so far.                            *)
LEMMA PassingType ==
  ASSUME NEW acc \in Passed, NEW k \in StepKeys, NEW g, NEW e, NEW person \in Approvers
  PROVE  Passing(acc, k, g, e, person) \in Passed
<1>1. acc.out \in Seq(StepKeys) /\ acc.seen \in SUBSET Employees
  BY DEF Passed
<1>2. Append(acc.out, k) \in Seq(StepKeys)
  BY <1>1
<1>3. acc.seen \cup (IF k \in PersonSteps THEN {person[k]} \ {None} ELSE {}) \in SUBSET Employees
  BY <1>1 DEF Approvers, Maybe
<1> QED
  BY <1>1, <1>2, <1>3 DEF Passing, Passed

(* The loop, step by step.                                                 *)
Loops(n, s, g, e, person) ==
  \E o \in [0..n -> Passed] :
    /\ o[0] = [out |-> <<>>, seen |-> {}]
    /\ \A i \in 1..n : o[i] = Passing(o[i - 1], s[i], g, e, person)
    /\ PassedOf(s, g, e, person) = o[n]

(* The loop goes so.                                                       *)
LEMMA PassedLoop ==
  ASSUME NEW n \in Nat, NEW s \in [1..n -> StepKeys], NEW g, NEW e, NEW person \in Approvers
  PROVE  Loops(n, s, g, e, person)
<1> DEFINE A == Passed
           X == StepKeys
           none == [out |-> <<>>, seen |-> {}]
           h == [p \in A \X X |-> Passing(p[1], p[2], g, e, person)]
           Step(f) == [S \in SUBSET (1..n) |->
                         IF S = {} THEN none
                         ELSE Passing(f[S \ {Max(S)}], s[Max(S)], g, e, person)]
           iter == CHOOSE f : f = Step(f)
           o == [i \in 0..n |-> iter[1..i]]
<1>0. none \in A
  BY DEF Passed
<1>1. \E f : f = Step(f)
  <2>1. PICK f : IsLoop(f, n, A, none, s, h)
    <3>1. h \in [A \X X -> A]
      BY PassingType
    <3> HIDE DEF h, A, none
    <3> QED
      BY <1>0, <3>1, LoopExists
  <2>2. ASSUME NEW S \in SUBSET (1..n), S # {}
        PROVE  f[S] = Passing(f[S \ {Max(S)}], s[Max(S)], g, e, person)
    <3>1. S \ {Max(S)} \in SUBSET (1..n) /\ Max(S) \in 1..n
      BY <2>2, Greatest
    <3>2. f[S \ {Max(S)}] \in A /\ s[Max(S)] \in X
      BY <2>1, <3>1 DEF IsLoop
    <3> HIDE DEF A, X, none
    <3> QED
      BY <2>1, <2>2, <3>2 DEF IsLoop
  <2> QED
    BY <2>1, <2>2 DEF IsLoop
<1>2. iter = Step(iter)
  BY <1>1
<1>3. PassedOf(s, g, e, person) = iter[1..n]
  BY DEF PassedOf, FoldLeft, MapThenFoldSet
<1> HIDE DEF iter
<1>4. iter[{}] = none /\ \A i \in 1..n : iter[1..i] = Passing(iter[1..(i - 1)], s[i], g, e, person)
  <2>1. \A S \in SUBSET (1..n) :
          iter[S] = IF S = {} THEN none ELSE Passing(iter[S \ {Max(S)}], s[Max(S)], g, e, person)
    BY <1>2
  <2> HIDE DEF Step, o, h, none
  <2>2. ASSUME NEW i \in 1..n PROVE iter[1..i] = Passing(iter[1..(i - 1)], s[i], g, e, person)
    <3>1. /\ 1..i \in SUBSET (1..n) /\ 1..i # {}
          /\ Max(1..i) = i /\ (1..i) \ {i} = 1..(i - 1)
      BY Prefix
    <3>2. iter[1..i] = Passing(iter[(1..i) \ {Max(1..i)}], s[Max(1..i)], g, e, person)
      BY <2>1, <3>1
    <3> QED
      BY <3>1, <3>2
  <2> QED
    BY <2>1, <2>2
<1> HIDE DEF none, A
<1>5. \A i \in 0..n : iter[1..i] \in A
  <2> DEFINE G == {i \in 0..n : iter[1..i] \in A}
  <2>1. 0 \in G /\ \A i \in 1..n : i - 1 \in G => i \in G
    <3>1. 1..0 = {} /\ 0 \in 0..n
      OBVIOUS
    <3>2. 0 \in G
      BY <1>0, <1>4, <3>1
    <3>3. \A i \in 1..n : i - 1 \in G => i \in G
      BY <1>4, PassingType DEF A
    <3> QED
      BY <3>2, <3>3
  <2> HIDE DEF G
  <2>2. \A i \in 0..n : i \in G
    BY <2>1, StepByStep
  <2> QED
    BY <2>2 DEF G
<1>6. o[0] = none /\ o[n] = iter[1..n] /\ \A i \in 1..n : o[i] = Passing(o[i - 1], s[i], g, e, person)
  <2>1. 1..0 = {} /\ 0 \in 0..n /\ n \in 0..n /\ \A i \in 1..n : i \in 0..n /\ i - 1 \in 0..n
    OBVIOUS
  <2> QED
    BY <1>4, <2>1
<1>7. o \in [0..n -> A]
  BY <1>5
<1> HIDE DEF o
<1> QED
  BY <1>3, <1>6, <1>7 DEF A, none, Loops

(* The elements of p stand in w in the same order. *)
SameOrder(p, w) ==
  \A a, b \in DOMAIN p : a < b =>
    \E x \in DOMAIN w, y \in DOMAIN w : x < y /\ w[x] = p[a] /\ w[y] = p[b]

(* The persons of the personal steps among the first i of w. *)
MetOf(w, i, person) == {person[w[j]] : j \in {x \in 1..i : w[x] \in PersonSteps}}

(* The loop skips a step exactly when the relation does not ask for it.    *)
LEMMA SkippedUnlessAsked ==
  ASSUME NEW n \in Nat, NEW w \in [1..n -> StepKeys], IsInjective(w),
         NEW g \in Nat, NEW e \in Employees, NEW person \in Approvers,
         NEW i \in 1..n, NEW seen \in SUBSET Employees,
         seen \cup {e, None} = MetOf(w, i - 1, person) \cup {e, None}
  PROVE  Skips(w[i], seen, g, e, person) <=> ~Asked(w, g, e, person, w[i])
<1> DEFINE k == w[i]
           met == MetOf(w, i - 1, person)
<1>1. CASE k \notin PersonSteps
  <2>1. Skips(k, seen, g, e, person) <=> k = "guarantors" /\ g = 0
    BY <1>1 DEF Skips
  <2>2. Asked(w, g, e, person, k) <=> (k = "guarantors" => g > 0)
    BY <1>1 DEF Asked
  <2> QED
    BY <2>1, <2>2
<1>2. CASE k \in PersonSteps
  <2>1. k # "guarantors"
    BY <1>2 DEF PersonSteps
  <2>2. (\A l \in PersonSteps : Earlier(w, l, k) => person[l] # person[k]) <=> person[k] \notin met
    <3>1. ASSUME NEW l \in PersonSteps, Earlier(w, l, k), person[l] = person[k]
          PROVE  person[k] \in met
      <4>1. PICK x \in DOMAIN w, y \in DOMAIN w : x < y /\ w[x] = l /\ w[y] = k
        BY <3>1 DEF Earlier
      <4>2. y = i /\ x \in 1..(i - 1)
        BY <4>1 DEF IsInjective
      <4> QED
        BY <3>1, <4>1, <4>2 DEF MetOf
    <3>2. ASSUME person[k] \in met
          PROVE  \E l \in PersonSteps : Earlier(w, l, k) /\ person[l] = person[k]
      <4>1. PICK x \in 1..(i - 1) : w[x] \in PersonSteps /\ person[w[x]] = person[k]
        BY <3>2 DEF MetOf
      <4>2. x \in DOMAIN w /\ i \in DOMAIN w /\ x < i
        OBVIOUS
      <4>3. Earlier(w, w[x], k)
        BY <4>2 DEF Earlier
      <4> QED
        BY <4>1, <4>3
    <3> QED
      BY <3>1, <3>2
  <2>3. Asked(w, g, e, person, k) <=> person[k] # e /\ (person[k] # None => person[k] \notin met)
    BY <1>2, <2>1, <2>2 DEF Asked
  <2>4. Skips(k, seen, g, e, person) <=> person[k] = e \/ person[k] \in seen
    BY <1>2, <2>1 DEF Skips
  <2>5. None \notin seen /\ e # None
    BY NoneAssumption
  <2> HIDE DEF met
  <2>6. CASE person[k] \in {e, None}
    BY <2>3, <2>4, <2>5, <2>6
  <2>7. CASE person[k] \notin {e, None}
    <3>1. person[k] \in seen <=> person[k] \in met
      BY <2>7 DEF met
    <3> QED
      BY <2>3, <2>4, <2>7, <3>1
  <2> QED
    BY <2>6, <2>7
<1> QED
  BY <1>1, <1>2

(* The loop leaves the steps that are asked for, in their order.           *)
LEMMA PassedIs ==
  ASSUME NEW n \in Nat, NEW w \in [1..n -> StepKeys], IsInjective(w),
         NEW g \in Nat, NEW e \in Employees, NEW person \in Approvers,
         NEW p, p = PassedOf(w, g, e, person).out
  PROVE  /\ p \in Seq(StepKeys) /\ IsInjective(p)
         /\ Range(p) = {k \in Range(w) : Asked(w, g, e, person, k)}
         /\ SameOrder(p, w)
<1>1. PICK o \in [0..n -> Passed] :
        /\ o[0] = [out |-> <<>>, seen |-> {}]
        /\ \A i \in 1..n : o[i] = Passing(o[i - 1], w[i], g, e, person)
        /\ PassedOf(w, g, e, person) = o[n]
  <2>1. Loops(n, w, g, e, person)
    BY PassedLoop
  <2> QED
    BY <2>1 DEF Loops
<1> DEFINE AskedAt(i) == Asked(w, g, e, person, w[i])
           Kept(i) == {w[j] : j \in {x \in 1..i : AskedAt(x)}}
           Good(i) ==
             /\ IsInjective(o[i].out)
             /\ Range(o[i].out) = Kept(i)
             /\ SameOrder(o[i].out, w)
             /\ o[i].seen \cup {e, None} = MetOf(w, i, person) \cup {e, None}
           G == {i \in 0..n : Good(i)}
<1>2. 0 \in G
  <2>1. 0 \in 0..n /\ DOMAIN o[0].out = {} /\ o[0].seen = {} /\ Kept(0) = {}
    BY <1>1
  <2>2. MetOf(w, 0, person) = {}
    BY DEF MetOf
  <2>3. IsInjective(o[0].out) /\ Range(o[0].out) = {} /\ SameOrder(o[0].out, w)
    BY <2>1 DEF Range, IsInjective, SameOrder
  <2> QED
    BY <2>1, <2>2, <2>3
<1>3. ASSUME NEW i \in 1..n, i - 1 \in G PROVE i \in G
  <2> DEFINE q == o[i - 1].out
             k == w[i]
             m == Len(q)
  <2>1. /\ Good(i - 1) /\ i - 1 \in 0..n /\ i \in 0..n
        /\ o[i] = Passing(o[i - 1], k, g, e, person) /\ k \in StepKeys
    BY <1>1, <1>3
  <2>2. q \in Seq(StepKeys) /\ o[i - 1].seen \in SUBSET Employees
    BY <1>1, <2>1 DEF Passed
  <2>3. Skips(k, o[i - 1].seen, g, e, person) <=> ~AskedAt(i)
    BY <2>1, <2>2, SkippedUnlessAsked
  <2>4. 1..i = 1..(i - 1) \cup {i}
    OBVIOUS
  <2>5. Kept(i) = Kept(i - 1) \cup (IF AskedAt(i) THEN {k} ELSE {})
    <3> HIDE DEF AskedAt
    <3> QED
      BY <2>4
  <2>6. MetOf(w, i, person) = MetOf(w, i - 1, person) \cup (IF k \in PersonSteps THEN {person[k]} ELSE {})
    BY <2>4 DEF MetOf
  <2>7. k \notin Kept(i - 1)
    <3> HIDE DEF AskedAt
    <3>1. \A j \in 1..(i - 1) : w[j] # k
      BY DEF IsInjective
    <3> QED
      BY <3>1
  <2>8. CASE ~AskedAt(i)
    <3>1. o[i] = o[i - 1]
      BY <2>1, <2>3, <2>8 DEF Passing
    <3>2. k \in PersonSteps => person[k] \in {e} \cup o[i - 1].seen
      <4>1. k \in PersonSteps => k # "guarantors"
        BY DEF PersonSteps
      <4> QED
        BY <2>3, <2>8, <4>1 DEF Skips
    <3> HIDE DEF AskedAt, Kept, k
    <3>3. o[i].seen \cup {e, None} = MetOf(w, i, person) \cup {e, None}
      BY <2>1, <2>6, <3>1, <3>2
    <3>4. Good(i)
      BY <2>1, <2>5, <2>8, <3>1, <3>3
    <3> QED
      BY <2>1, <3>4
  <2>9. CASE AskedAt(i)
    <3>1. o[i] = [out |-> Append(q, k),
                  seen |-> o[i - 1].seen \cup (IF k \in PersonSteps THEN {person[k]} \ {None} ELSE {})]
      BY <2>1, <2>3, <2>9 DEF Passing
    <3> HIDE DEF AskedAt, Kept, q, k
    <3>2. o[i].seen \cup {e, None} = MetOf(w, i, person) \cup {e, None}
      BY <2>1, <2>6, <3>1
    <3> DEFINE r == o[i].out
    <3>3. r = Append(q, k)
      BY <3>1
    <3>4. /\ m \in Nat /\ DOMAIN q = 1..m /\ DOMAIN r = 1..(m + 1)
          /\ r[m + 1] = k /\ \A a \in 1..m : r[a] = q[a]
          /\ Range(r) = Range(q) \cup {k}
      BY <2>1, <2>2, <3>3, AppendIs
    <3> HIDE DEF m, r
    <3>5. Range(r) = Kept(i)
      BY <2>1, <2>5, <2>9, <3>4 DEF q
    <3>6. \A a \in 1..m : q[a] \in Kept(i - 1)
      BY <2>1, <3>4 DEF Range, q
    <3>7. IsInjective(r)
      <4> SUFFICES ASSUME NEW a \in 1..(m + 1), NEW b \in 1..(m + 1), r[a] = r[b] PROVE a = b
        BY <3>4 DEF IsInjective
      <4>1. CASE a \in 1..m /\ b \in 1..m
        BY <2>1, <3>4, <4>1 DEF IsInjective, q
      <4>2. CASE a = m + 1 \/ b = m + 1
        BY <2>7, <3>4, <3>6, <4>2
      <4> QED
        BY <3>4, <4>1, <4>2
    <3>8. SameOrder(r, w)
      <4> SUFFICES ASSUME NEW a \in DOMAIN r, NEW b \in DOMAIN r, a < b
                   PROVE  \E x \in DOMAIN w, y \in DOMAIN w : x < y /\ w[x] = r[a] /\ w[y] = r[b]
        BY DEF SameOrder
      <4>1. a \in 1..m /\ r[a] = q[a] /\ a \in DOMAIN q
        BY <3>4
      <4>2. CASE b = m + 1
        <5>1. PICK x \in 1..(i - 1) : w[x] = q[a]
          BY <3>6, <4>1 DEF Kept
        <5>2. x \in DOMAIN w /\ i \in DOMAIN w /\ x < i
          OBVIOUS
        <5> QED
          BY <3>4, <4>1, <4>2, <5>1, <5>2 DEF k
      <4>3. CASE b # m + 1
        <5>1. b \in 1..m /\ r[b] = q[b] /\ b \in DOMAIN q
          BY <3>4, <4>3
        <5>2. SameOrder(q, w)
          BY <2>1 DEF q
        <5> QED
          BY <4>1, <5>1, <5>2 DEF SameOrder
      <4> QED
        BY <4>2, <4>3
    <3>9. Good(i)
      BY <3>2, <3>5, <3>7, <3>8 DEF r
    <3> QED
      BY <2>1, <3>9
  <2> QED
    BY <2>8, <2>9
<1>4. Good(n)
  <2> HIDE DEF Good
  <2>1. \A i \in 1..n : i - 1 \in G => i \in G
    BY <1>3
  <2>2. \A i \in 0..n : i \in G
    <3> HIDE DEF G
    <3> QED
      BY <1>2, <2>1, StepByStep
  <2> QED
    BY <2>2
<1>5. Kept(n) = {k \in Range(w) : Asked(w, g, e, person, k)}
  <2>1. Range(w) = {w[j] : j \in 1..n}
    BY DEF Range
  <2>2. \A i \in 1..n : AskedAt(i) <=> Asked(w, g, e, person, w[i])
    OBVIOUS
  <2> QED
    BY <2>1, <2>2
<1>6. o[n].out \in Seq(StepKeys)
  BY <1>1 DEF Passed
<1> QED
  BY <1>1, <1>4, <1>5, <1>6

(* No path without repetition is longer than there are steps.              *)
LEMMA FiveKeys ==
  ASSUME NEW n \in Nat, NEW k \in [1..n -> StepKeys], IsInjective(k)
  PROVE  n <= 5 /\ ("guarantors" \notin Range(k) => n <= 4)
<1>1. DOMAIN k = 1..n
  OBVIOUS
<1>2. ASSUME n > 5 PROVE FALSE
  <2>1. 1 \in 1..n /\ 2 \in 1..n /\ 3 \in 1..n /\ 4 \in 1..n /\ 5 \in 1..n /\ 6 \in 1..n
    BY <1>2
  <2>2. /\ k[1] # k[2] /\ k[1] # k[3] /\ k[1] # k[4] /\ k[1] # k[5] /\ k[1] # k[6]
        /\ k[2] # k[3] /\ k[2] # k[4] /\ k[2] # k[5] /\ k[2] # k[6]
        /\ k[3] # k[4] /\ k[3] # k[5] /\ k[3] # k[6]
        /\ k[4] # k[5] /\ k[4] # k[6] /\ k[5] # k[6]
    BY <1>1, <2>1 DEF IsInjective
  <2>3. /\ k[1] \in StepKeys /\ k[2] \in StepKeys /\ k[3] \in StepKeys
        /\ k[4] \in StepKeys /\ k[5] \in StepKeys /\ k[6] \in StepKeys
    BY <2>1
  <2> QED
    BY <2>2, <2>3 DEF StepKeys, PersonSteps
<1>3. ASSUME n > 4, "guarantors" \notin Range(k) PROVE FALSE
  <2>1. 1 \in 1..n /\ 2 \in 1..n /\ 3 \in 1..n /\ 4 \in 1..n /\ 5 \in 1..n
    BY <1>3
  <2>2. /\ k[1] # k[2] /\ k[1] # k[3] /\ k[1] # k[4] /\ k[1] # k[5]
        /\ k[2] # k[3] /\ k[2] # k[4] /\ k[2] # k[5]
        /\ k[3] # k[4] /\ k[3] # k[5] /\ k[4] # k[5]
    BY <1>1, <2>1 DEF IsInjective
  <2>3. \A i \in 1..n : k[i] \in StepKeys /\ k[i] # "guarantors"
    BY <1>1, <1>3 DEF Range
  <2>4. /\ k[1] \in StepKeys \ {"guarantors"} /\ k[2] \in StepKeys \ {"guarantors"}
        /\ k[3] \in StepKeys \ {"guarantors"} /\ k[4] \in StepKeys \ {"guarantors"}
        /\ k[5] \in StepKeys \ {"guarantors"}
    BY <2>1, <2>3
  <2> QED
    BY <2>2, <2>4 DEF StepKeys, PersonSteps
<1> QED
  BY <1>2, <1>3

(* A step put in front of a path.                                          *)
LEMMA Preceded ==
  ASSUME NEW n \in Nat, NEW s \in [1..n -> StepKeys], NEW g \in StepKeys
  PROVE  /\ <<g>> \o s \in [1..(n + 1) -> StepKeys]
         /\ (<<g>> \o s)[1] = g
         /\ \A i \in 1..n : (<<g>> \o s)[i + 1] = s[i]
<1>1. s \in Seq(StepKeys) /\ Len(s) = n
  BY FunctionIsSeq
<1> DEFINE h == <<g>>
           t == h \o s
<1>2. h \in Seq(StepKeys) /\ Len(h) = 1 /\ h[1] = g
  OBVIOUS
<1> HIDE DEF h
<1>3. /\ t \in Seq(StepKeys) /\ Len(t) = Len(h) + Len(s)
      /\ \A i \in 1..(Len(h) + Len(s)) : t[i] = IF i <= Len(h) THEN h[i] ELSE s[i - Len(h)]
  BY <1>1, <1>2, ConcatProperties
<1>4. /\ Len(t) = n + 1
      /\ \A i \in 1..(n + 1) : t[i] = IF i <= 1 THEN h[i] ELSE s[i - 1]
  <2> HIDE DEF t
  <2>1. Len(h) + Len(s) = n + 1
    BY <1>1, <1>2
  <2> QED
    BY <1>1, <1>2, <1>3, <2>1
<1> HIDE DEF t
<1>5. t \in [1..(n + 1) -> StepKeys]
  BY <1>3, <1>4
<1>6. t[1] = g
  BY <1>2, <1>4
<1>7. ASSUME NEW i \in 1..n PROVE t[i + 1] = s[i]
  <2>1. i + 1 \in 1..(n + 1) /\ ~(i + 1 <= 1) /\ (i + 1) - 1 = i
    OBVIOUS
  <2> QED
    BY <1>4, <2>1
<1> QED
  BY <1>5, <1>6, <1>7 DEF t, h

(* The step of the guarantors put in front of a path without it. *)
LEMMA GuarantorsFirst ==
  ASSUME NEW s \in StepPaths, NEW g
  PROVE  WithGuarantors(s, g) \in StepPaths
<1> DEFINE n == Len(s)
           w == <<"guarantors">> \o s
<1>1. /\ n \in 1..5 /\ DOMAIN s = 1..n /\ s \in [1..n -> StepKeys]
      /\ IsInjective(s) /\ s[n] = "finance"
      /\ \A i \in 1..n : s[i] = "site_manager" => i = n - 1
  BY PathIs
<1> HIDE DEF n
<1>2. CASE WithGuarantors(s, g) = s
  BY <1>2
<1>3. CASE "guarantors" \notin Range(s)
  <2>1. n \in 1..4
    BY <1>1, <1>3, FiveKeys
  <2>2. /\ w \in [1..(n + 1) -> StepKeys] /\ w[1] = "guarantors"
        /\ \A i \in 1..n : w[i + 1] = s[i]
    BY <1>1, Preceded DEF StepKeys
  <2> HIDE DEF w
  <2>3. \A i \in 1..(n + 1) : i = 1 \/ (i - 1 \in 1..n /\ w[i] = s[i - 1])
    <3> SUFFICES ASSUME NEW i \in 1..(n + 1), i # 1 PROVE i - 1 \in 1..n /\ w[i] = s[i - 1]
      OBVIOUS
    <3>1. i - 1 \in 1..n /\ (i - 1) + 1 = i
      BY <2>1
    <3> QED
      BY <2>2, <3>1
  <2>4. \A i \in 1..n : s[i] # "guarantors"
    BY <1>1, <1>3 DEF Range
  <2>5. IsInjective(w)
    <3> SUFFICES ASSUME NEW a \in 1..(n + 1), NEW b \in 1..(n + 1), w[a] = w[b] PROVE a = b
      BY <2>2 DEF IsInjective
    <3>1. CASE a = 1 \/ b = 1
      BY <2>2, <2>3, <2>4, <3>1
    <3>2. CASE a # 1 /\ b # 1
      <4>1. a - 1 \in 1..n /\ b - 1 \in 1..n /\ s[a - 1] = s[b - 1]
        BY <2>3, <3>2
      <4>2. a - 1 = b - 1
        BY <1>1, <4>1 DEF IsInjective
      <4> QED
        BY <4>2
    <3> QED
      BY <3>1, <3>2
  <2>6. w[n + 1] = "finance"
    BY <1>1, <2>1, <2>2
  <2>7. \A i \in 1..(n + 1) : w[i] = "site_manager" => i = n
    <3> SUFFICES ASSUME NEW i \in 1..(n + 1), w[i] = "site_manager" PROVE i = n
      OBVIOUS
    <3>1. i - 1 \in 1..n /\ w[i] = s[i - 1]
      BY <2>2, <2>3
    <3>2. i - 1 = n - 1
      BY <1>1, <3>1
    <3> QED
      BY <2>1, <3>2
  <2>8. n + 1 \in 1..5 /\ Len(w) = n + 1 /\ DOMAIN w = 1..(n + 1) /\ (n + 1) - 1 = n
    <3>1. n + 1 \in Nat /\ n + 1 \in 1..5 /\ (n + 1) - 1 = n
      BY <2>1
    <3> QED
      BY <2>2, <3>1, FunctionIsSeq
  <2>9. w \in StepPaths
    BY <2>2, <2>5, <2>6, <2>7, <2>8 DEF StepPaths
  <2> QED
    BY <1>2, <2>9 DEF WithGuarantors, w
<1> QED
  BY <1>2, <1>3 DEF WithGuarantors

(* The loop of effective_steps leaves a path, the one that the relation    *)
(* describes.                                                              *)
LEMMA Effective ==
  ASSUME NEW s \in StepPaths, NEW g \in Nat, NEW e \in Employees, NEW person \in Approvers,
         NEW p, p = EffectiveSteps(s, g, e, person)
  PROVE  p \in StepPaths /\ IsEffectivePath(p, s, g, e, person)
<1> DEFINE w == WithGuarantors(s, g)
           n == Len(w)
           m == Len(p)
<1>1. NormalizeSteps(s) = s
  BY NormalizedTwice
<1>2. p = PassedOf(w, g, e, person).out
  BY <1>1, EffectiveIs
<1>3. w \in StepPaths
  BY GuarantorsFirst
<1>4. /\ n \in 1..5 /\ DOMAIN w = 1..n /\ w \in [1..n -> StepKeys]
      /\ IsInjective(w) /\ w[n] = "finance"
      /\ \A i \in 1..n : w[i] = "site_manager" => i = n - 1
  <2> HIDE DEF w
  <2> QED
    BY <1>3, PathIs
<1> HIDE DEF w, n
<1>5. /\ p \in Seq(StepKeys) /\ IsInjective(p)
      /\ Range(p) = {k \in Range(w) : Asked(w, g, e, person, k)}
      /\ SameOrder(p, w)
  <2>1. n \in Nat
    BY <1>4
  <2> QED
    BY <1>2, <1>4, <2>1, PassedIs
<1>6. m \in Nat /\ DOMAIN p = 1..m /\ p \in [1..m -> StepKeys]
  BY <1>5
<1> HIDE DEF m
<1>7. m <= 5
  BY <1>5, <1>6, FiveKeys
<1>8. "finance" \in Range(p)
  <2>1. Asked(w, g, e, person, "finance")
    BY DEF Asked, PersonSteps
  <2>2. "finance" \in Range(w)
    BY <1>4 DEF Range
  <2> QED
    BY <1>5, <2>1, <2>2
<1>9. m \in 1..5 /\ p[m] = "finance"
  <2>1. PICK f \in 1..m : p[f] = "finance"
    BY <1>6, <1>8 DEF Range
  <2>2. CASE f < m
    <3>1. m \in DOMAIN p /\ f \in DOMAIN p
      BY <1>6
    <3>2. PICK x \in DOMAIN w, y \in DOMAIN w : x < y /\ w[x] = p[f] /\ w[y] = p[m]
      BY <1>5, <2>2, <3>1 DEF SameOrder
    <3>3. x = n
      BY <1>4, <2>1, <3>2 DEF IsInjective
    <3> QED
      BY <1>4, <3>2, <3>3
  <2>3. CASE f = m
    BY <1>6, <1>7, <2>1, <2>3
  <2> QED
    BY <1>6, <2>2, <2>3
<1>10. \A i \in 1..m : p[i] = "site_manager" => i = m - 1
  <2> SUFFICES ASSUME NEW i \in 1..m, p[i] = "site_manager", i # m - 1 PROVE FALSE
    OBVIOUS
  <2>1. i < m - 1 /\ m - 1 \in 1..m
    BY <1>9
  <2>2. m - 1 \in DOMAIN p /\ i \in DOMAIN p /\ m \in DOMAIN p
    BY <1>6, <1>9, <2>1
  <2>3. PICK x \in DOMAIN w, y \in DOMAIN w : x < y /\ w[x] = p[i] /\ w[y] = p[m - 1]
    BY <1>5, <2>1, <2>2 DEF SameOrder
  <2>4. x = n - 1 /\ y = n
    BY <1>4, <2>3
  <2>5. p[m - 1] = p[m]
    BY <1>4, <1>9, <2>3, <2>4
  <2>6. m - 1 = m
    BY <1>5, <2>2, <2>5 DEF IsInjective
  <2> QED
    BY <1>9, <2>6
<1>11. p \in StepPaths
  <2>1. Len(p) = m
    BY DEF m
  <2> QED
    BY <1>5, <1>6, <1>9, <1>10, <2>1 DEF StepPaths
<1>12. \A k, l : Earlier(p, k, l) => Earlier(w, k, l)
  BY <1>5 DEF Earlier, SameOrder
<1> QED
  BY <1>5, <1>11, <1>12 DEF IsEffectivePath, w

-----------------------------------------------------------------------------
(* The loans on a payslip: payslip_loans.                                  *)

(* A loan on a payslip. *)
LoanOf == [name : {"loan"}, amount : Nat, remaining : Nat \cup {None}]

(* What a row can hold.                                                    *)
Value == Nat \cup {None, "loan"}

(* A loan that is being read.                                              *)
ReadLoan == [name : Value, amount : Value, remaining : Value]

(* The rows of both forms.                                                 *)
ColumnRow == [label : {"name", "amount", "remaining"}, value : Nat \cup {"loan"}]
NameRow == [label : {"loan", "remaining", "total"}, value : Nat]
RowIn(form) == IF form = "columns" THEN ColumnRow ELSE NameRow

(* One step of each loop.                                                  *)
Deducting(o, loan) == IF loan.amount \in {None, 0} THEN o ELSE Append(o, loan)

(* The writing of one loan after others.                                   *)
Writing(rows, loan, form) == rows \o RowsOf(form, loan)

(* The loans that are read, and the one being read.                        *)
Reading == [out : Seq(ReadLoan), current : ReadLoan]

(* Every step of the loops leaves what it should.                          *)
LEMMA DeductingType ==
  ASSUME NEW o \in Seq(ReadLoan), NEW loan \in ReadLoan
  PROVE  Deducting(o, loan) \in Seq(ReadLoan)
BY DEF Deducting

(* The rows of a loan are rows of their form.                              *)
LEMMA RowsType ==
  ASSUME NEW form \in {"columns", "names"}, NEW loan \in LoanOf
  PROVE  RowsOf(form, loan) \in Seq(RowIn(form))
<1> DEFINE a == [label |-> "name", value |-> loan.name]
           b == [label |-> "amount", value |-> loan.amount]
           c == [label |-> loan.name, value |-> loan.amount]
           r == [label |-> "remaining", value |-> loan.remaining]
           rest == IF loan.remaining = None THEN <<>> ELSE <<r>>
<1>1. a \in ColumnRow /\ b \in ColumnRow /\ c \in NameRow
  BY DEF LoanOf, ColumnRow, NameRow
<1>2. loan.remaining # None => r \in ColumnRow /\ r \in NameRow
  BY DEF LoanOf, ColumnRow, NameRow
<1>3. RowsOf(form, loan) = (IF form = "columns" THEN <<a, b>> ELSE <<c>>) \o rest
  BY DEF RowsOf
<1> HIDE DEF a, b, c, r
<1>4. rest \in Seq(RowIn(form))
  <2>1. CASE loan.remaining = None
    BY <2>1
  <2>2. CASE loan.remaining # None
    <3>1. r \in RowIn(form) /\ rest = <<r>>
      BY <1>2, <2>2 DEF RowIn
    <3> HIDE DEF rest
    <3> QED
      BY <3>1
  <2> QED
    BY <2>1, <2>2
<1>5. (IF form = "columns" THEN <<a, b>> ELSE <<c>>) \in Seq(RowIn(form))
  <2>1. CASE form = "columns"
    <3>1. a \in RowIn(form) /\ b \in RowIn(form)
      BY <1>1, <2>1 DEF RowIn
    <3> QED
      BY <2>1, <3>1
  <2>2. CASE form # "columns"
    <3>1. c \in RowIn(form)
      BY <1>1, <2>2 DEF RowIn
    <3> QED
      BY <2>2, <3>1
  <2> QED
    BY <2>1, <2>2
<1> HIDE DEF rest
<1> QED
  BY <1>3, <1>4, <1>5, ConcatProperties

(* So are those of more than one.                                          *)
LEMMA WritingType ==
  ASSUME NEW form \in {"columns", "names"}, NEW rows \in Seq(RowIn(form)), NEW loan \in LoanOf
  PROVE  Writing(rows, loan, form) \in Seq(RowIn(form))
BY RowsType, ConcatProperties DEF Writing

(* Reading a row with columns.                                             *)
LEMMA ReadColumnType ==
  ASSUME NEW acc \in Reading, NEW row \in ColumnRow
  PROVE  ReadColumn(acc, row) \in Reading
<1>1. /\ acc = [out |-> acc.out, current |-> acc.current]
      /\ acc.out \in Seq(ReadLoan) /\ acc.current \in ReadLoan
  BY DEF Reading
<1>2. row.label \in {"name", "amount", "remaining"} /\ row.value \in Value
  BY DEF ColumnRow, Value
<1>3. NoFields \in ReadLoan
  BY DEF NoFields, ReadLoan, Value
<1>4. \A c \in ReadLoan : [c EXCEPT ![row.label] = row.value] \in ReadLoan
  BY <1>2 DEF ReadLoan
<1>5. CASE acc.current[row.label] # None
  <2>1. Append(acc.out, acc.current) \in Seq(ReadLoan)
    BY <1>1
  <2> QED
    BY <1>3, <1>4, <1>5, <2>1 DEF ReadColumn, Reading
<1>6. CASE acc.current[row.label] = None
  <2>1. [acc EXCEPT !.current[row.label] = row.value]
          = [out |-> acc.out, current |-> [acc.current EXCEPT ![row.label] = row.value]]
    BY <1>1
  <2> QED
    BY <1>1, <1>4, <1>6, <2>1 DEF ReadColumn, Reading
<1> QED
  BY <1>5, <1>6

(* Reading a row of names and values.                                      *)
LEMMA ReadNameType ==
  ASSUME NEW o \in Seq(ReadLoan), NEW row \in NameRow
  PROVE  ReadName(o, row) \in Seq(ReadLoan)
<1> DEFINE l == [name |-> row.label, amount |-> row.value, remaining |-> None]
<1>1. row.label # "total" /\ row.label # "remaining" => l \in ReadLoan
  BY DEF NameRow, ReadLoan, Value
<1>2. o # <<>> => Front(o) \in Seq(ReadLoan) /\ [Last(o) EXCEPT !.remaining = row.value] \in ReadLoan
  <2> SUFFICES ASSUME o # <<>>
               PROVE  Front(o) \in Seq(ReadLoan) /\ [Last(o) EXCEPT !.remaining = row.value] \in ReadLoan
    OBVIOUS
  <2>1. Len(o) \in Nat /\ Len(o) > 0
    OBVIOUS
  <2>2. Front(o) \in Seq(ReadLoan)
    BY <2>1 DEF Front
  <2>3. Last(o) \in ReadLoan /\ row.value \in Value
    BY <2>1 DEF Last, NameRow, Value
  <2> QED
    BY <2>2, <2>3 DEF ReadLoan
<1> HIDE DEF l
<1> QED
  BY <1>1, <1>2 DEF ReadName, l

(* The loop that leaves out what nothing was kept back of, step by step. *)
DeductLoops(n, s) ==
  \E o \in [0..n -> Seq(ReadLoan)] :
    /\ o[0] = <<>> /\ \A i \in 1..n : o[i] = Deducting(o[i - 1], s[i])
    /\ Deducted(s) = o[n]

(* The loop goes so.                                                       *)
LEMMA DeductLoop ==
  ASSUME NEW n \in Nat, NEW s \in [1..n -> ReadLoan]
  PROVE  DeductLoops(n, s)
<1> DEFINE A == Seq(ReadLoan)
           X == ReadLoan
           none == <<>>
           h == [p \in A \X X |-> Deducting(p[1], p[2])]
           Step(f) == [S \in SUBSET (1..n) |->
                         IF S = {} THEN none
                         ELSE Deducting(f[S \ {Max(S)}], s[Max(S)])]
           iter == CHOOSE f : f = Step(f)
           o == [i \in 0..n |-> iter[1..i]]
<1>1. none \in A
  BY DEF Reading
<1>2. \A x \in A, y \in X : Deducting(x, y) \in A
  BY DeductingType
<1>3. \E f : f = Step(f)
  <2>1. PICK f : IsLoop(f, n, A, none, s, h)
    <3>1. h \in [A \X X -> A]
      BY <1>2
    <3> HIDE DEF h, A, X, none
    <3> QED
      BY <1>1, <3>1, LoopExists DEF X
  <2>2. ASSUME NEW S \in SUBSET (1..n), S # {}
        PROVE  f[S] = Deducting(f[S \ {Max(S)}], s[Max(S)])
    <3>1. S \ {Max(S)} \in SUBSET (1..n) /\ Max(S) \in 1..n
      BY <2>2, Greatest
    <3>2. f[S \ {Max(S)}] \in A /\ s[Max(S)] \in X
      BY <2>1, <3>1 DEF IsLoop
    <3> HIDE DEF A, X, none
    <3> QED
      BY <2>1, <2>2, <3>2 DEF IsLoop
  <2> HIDE DEF A, none
  <2> QED
    BY <2>1, <2>2 DEF IsLoop
<1>4. iter = Step(iter)
  BY <1>3
<1>5. Deducted(s) = iter[1..n]
  BY DEF Deducted, Deducting, FoldLeft, MapThenFoldSet
<1> HIDE DEF iter, A, X, none
<1>6. iter[{}] = none /\ \A i \in 1..n : iter[1..i] = Deducting(iter[1..(i - 1)], s[i])
  <2>1. \A S \in SUBSET (1..n) :
          iter[S] = IF S = {} THEN none ELSE Deducting(iter[S \ {Max(S)}], s[Max(S)])
    BY <1>4
  <2> HIDE DEF Step, o, h
  <2>2. ASSUME NEW i \in 1..n PROVE iter[1..i] = Deducting(iter[1..(i - 1)], s[i])
    <3>1. /\ 1..i \in SUBSET (1..n) /\ 1..i # {}
          /\ Max(1..i) = i /\ (1..i) \ {i} = 1..(i - 1)
      BY Prefix
    <3>2. iter[1..i] = Deducting(iter[(1..i) \ {Max(1..i)}], s[Max(1..i)])
      BY <2>1, <3>1
    <3> QED
      BY <3>1, <3>2
  <2> QED
    BY <2>1, <2>2
<1>7. \A i \in 0..n : iter[1..i] \in A
  <2> DEFINE G == {i \in 0..n : iter[1..i] \in A}
  <2>1. 0 \in G
    <3>1. 1..0 = {} /\ 0 \in 0..n
      OBVIOUS
    <3> QED
      BY <1>1, <1>6, <3>1
  <2>2. \A i \in 1..n : i - 1 \in G => i \in G
    <3> SUFFICES ASSUME NEW i \in 1..n, i - 1 \in G PROVE i \in G
      OBVIOUS
    <3>1. s[i] \in X /\ iter[1..(i - 1)] \in A
      BY DEF X
    <3>2. iter[1..i] \in A
      BY <1>2, <1>6, <3>1
    <3> QED
      BY <3>2
  <2> HIDE DEF G
  <2>3. \A i \in 0..n : i \in G
    BY <2>1, <2>2, StepByStep
  <2> QED
    BY <2>3 DEF G
<1>8. o[0] = none /\ o[n] = iter[1..n] /\ \A i \in 1..n : o[i] = Deducting(o[i - 1], s[i])
  <2>1. 1..0 = {} /\ 0 \in 0..n /\ n \in 0..n /\ \A i \in 1..n : i \in 0..n /\ i - 1 \in 0..n
    OBVIOUS
  <2> QED
    BY <1>6, <2>1
<1>9. o \in [0..n -> A]
  BY <1>7
<1> HIDE DEF o
<1> QED
  BY <1>5, <1>8, <1>9 DEF A, none, DeductLoops

(* The writing of a payslip, loan by loan. *)
WriteLoops(n, s, form) ==
  \E o \in [0..n -> Seq(RowIn(form))] :
    /\ o[0] = <<>> /\ \A i \in 1..n : o[i] = Writing(o[i - 1], s[i], form)
    /\ Written(form, s) = o[n]

(* The writing goes so.                                                    *)
LEMMA WriteLoop ==
  ASSUME NEW n \in Nat, NEW s \in [1..n -> LoanOf], NEW form \in {"columns", "names"}
  PROVE  WriteLoops(n, s, form)
<1> DEFINE A == Seq(RowIn(form))
           X == LoanOf
           none == <<>>
           h == [p \in A \X X |-> Writing(p[1], p[2], form)]
           Step(f) == [S \in SUBSET (1..n) |->
                         IF S = {} THEN none
                         ELSE Writing(f[S \ {Max(S)}], s[Max(S)], form)]
           iter == CHOOSE f : f = Step(f)
           o == [i \in 0..n |-> iter[1..i]]
<1>1. none \in A
  BY DEF Reading
<1>2. \A x \in A, y \in X : Writing(x, y, form) \in A
  BY WritingType
<1>3. \E f : f = Step(f)
  <2>1. PICK f : IsLoop(f, n, A, none, s, h)
    <3>1. h \in [A \X X -> A]
      BY <1>2
    <3> HIDE DEF h, A, X, none
    <3> QED
      BY <1>1, <3>1, LoopExists DEF X
  <2>2. ASSUME NEW S \in SUBSET (1..n), S # {}
        PROVE  f[S] = Writing(f[S \ {Max(S)}], s[Max(S)], form)
    <3>1. S \ {Max(S)} \in SUBSET (1..n) /\ Max(S) \in 1..n
      BY <2>2, Greatest
    <3>2. f[S \ {Max(S)}] \in A /\ s[Max(S)] \in X
      BY <2>1, <3>1 DEF IsLoop
    <3> HIDE DEF A, X, none
    <3> QED
      BY <2>1, <2>2, <3>2 DEF IsLoop
  <2> HIDE DEF A, none
  <2> QED
    BY <2>1, <2>2 DEF IsLoop
<1>4. iter = Step(iter)
  BY <1>3
<1>5. Written(form, s) = iter[1..n]
  BY DEF Written, Writing, FoldLeft, MapThenFoldSet
<1> HIDE DEF iter, A, X, none
<1>6. iter[{}] = none /\ \A i \in 1..n : iter[1..i] = Writing(iter[1..(i - 1)], s[i], form)
  <2>1. \A S \in SUBSET (1..n) :
          iter[S] = IF S = {} THEN none ELSE Writing(iter[S \ {Max(S)}], s[Max(S)], form)
    BY <1>4
  <2> HIDE DEF Step, o, h
  <2>2. ASSUME NEW i \in 1..n PROVE iter[1..i] = Writing(iter[1..(i - 1)], s[i], form)
    <3>1. /\ 1..i \in SUBSET (1..n) /\ 1..i # {}
          /\ Max(1..i) = i /\ (1..i) \ {i} = 1..(i - 1)
      BY Prefix
    <3>2. iter[1..i] = Writing(iter[(1..i) \ {Max(1..i)}], s[Max(1..i)], form)
      BY <2>1, <3>1
    <3> QED
      BY <3>1, <3>2
  <2> QED
    BY <2>1, <2>2
<1>7. \A i \in 0..n : iter[1..i] \in A
  <2> DEFINE G == {i \in 0..n : iter[1..i] \in A}
  <2>1. 0 \in G
    <3>1. 1..0 = {} /\ 0 \in 0..n
      OBVIOUS
    <3> QED
      BY <1>1, <1>6, <3>1
  <2>2. \A i \in 1..n : i - 1 \in G => i \in G
    <3> SUFFICES ASSUME NEW i \in 1..n, i - 1 \in G PROVE i \in G
      OBVIOUS
    <3>1. s[i] \in X /\ iter[1..(i - 1)] \in A
      BY DEF X
    <3>2. iter[1..i] \in A
      BY <1>2, <1>6, <3>1
    <3> QED
      BY <3>2
  <2> HIDE DEF G
  <2>3. \A i \in 0..n : i \in G
    BY <2>1, <2>2, StepByStep
  <2> QED
    BY <2>3 DEF G
<1>8. o[0] = none /\ o[n] = iter[1..n] /\ \A i \in 1..n : o[i] = Writing(o[i - 1], s[i], form)
  <2>1. 1..0 = {} /\ 0 \in 0..n /\ n \in 0..n /\ \A i \in 1..n : i \in 0..n /\ i - 1 \in 0..n
    OBVIOUS
  <2> QED
    BY <1>6, <2>1
<1>9. o \in [0..n -> A]
  BY <1>7
<1> HIDE DEF o
<1> QED
  BY <1>5, <1>8, <1>9 DEF A, none, WriteLoops

(* The reading of a payslip with columns, row by row. *)
ReadColumnLoops(n, s) ==
  \E o \in [0..n -> Reading] :
    /\ o[0] = [out |-> <<>>, current |-> NoFields] /\ \A i \in 1..n : o[i] = ReadColumn(o[i - 1], s[i])
    /\ ReadColumns(s) = o[n]

(* The reading goes so.                                                    *)
LEMMA ReadColumnLoop ==
  ASSUME NEW n \in Nat, NEW s \in [1..n -> ColumnRow]
  PROVE  ReadColumnLoops(n, s)
<1> DEFINE A == Reading
           X == ColumnRow
           none == [out |-> <<>>, current |-> NoFields]
           h == [p \in A \X X |-> ReadColumn(p[1], p[2])]
           Step(f) == [S \in SUBSET (1..n) |->
                         IF S = {} THEN none
                         ELSE ReadColumn(f[S \ {Max(S)}], s[Max(S)])]
           iter == CHOOSE f : f = Step(f)
           o == [i \in 0..n |-> iter[1..i]]
<1>1. none \in A
  BY DEF Reading, NoFields, ReadLoan, Value
<1>2. \A x \in A, y \in X : ReadColumn(x, y) \in A
  BY ReadColumnType
<1>3. \E f : f = Step(f)
  <2>1. PICK f : IsLoop(f, n, A, none, s, h)
    <3>1. h \in [A \X X -> A]
      BY <1>2
    <3> HIDE DEF h, A, X, none
    <3> QED
      BY <1>1, <3>1, LoopExists DEF X
  <2>2. ASSUME NEW S \in SUBSET (1..n), S # {}
        PROVE  f[S] = ReadColumn(f[S \ {Max(S)}], s[Max(S)])
    <3>1. S \ {Max(S)} \in SUBSET (1..n) /\ Max(S) \in 1..n
      BY <2>2, Greatest
    <3>2. f[S \ {Max(S)}] \in A /\ s[Max(S)] \in X
      BY <2>1, <3>1 DEF IsLoop
    <3> HIDE DEF A, X, none
    <3> QED
      BY <2>1, <2>2, <3>2 DEF IsLoop
  <2> HIDE DEF A, none
  <2> QED
    BY <2>1, <2>2 DEF IsLoop
<1>4. iter = Step(iter)
  BY <1>3
<1>5. ReadColumns(s) = iter[1..n]
  BY DEF ReadColumns, FoldLeft, MapThenFoldSet
<1> HIDE DEF iter, A, X, none
<1>6. iter[{}] = none /\ \A i \in 1..n : iter[1..i] = ReadColumn(iter[1..(i - 1)], s[i])
  <2>1. \A S \in SUBSET (1..n) :
          iter[S] = IF S = {} THEN none ELSE ReadColumn(iter[S \ {Max(S)}], s[Max(S)])
    BY <1>4
  <2> HIDE DEF Step, o, h
  <2>2. ASSUME NEW i \in 1..n PROVE iter[1..i] = ReadColumn(iter[1..(i - 1)], s[i])
    <3>1. /\ 1..i \in SUBSET (1..n) /\ 1..i # {}
          /\ Max(1..i) = i /\ (1..i) \ {i} = 1..(i - 1)
      BY Prefix
    <3>2. iter[1..i] = ReadColumn(iter[(1..i) \ {Max(1..i)}], s[Max(1..i)])
      BY <2>1, <3>1
    <3> QED
      BY <3>1, <3>2
  <2> QED
    BY <2>1, <2>2
<1>7. \A i \in 0..n : iter[1..i] \in A
  <2> DEFINE G == {i \in 0..n : iter[1..i] \in A}
  <2>1. 0 \in G
    <3>1. 1..0 = {} /\ 0 \in 0..n
      OBVIOUS
    <3> QED
      BY <1>1, <1>6, <3>1
  <2>2. \A i \in 1..n : i - 1 \in G => i \in G
    <3> SUFFICES ASSUME NEW i \in 1..n, i - 1 \in G PROVE i \in G
      OBVIOUS
    <3>1. s[i] \in X /\ iter[1..(i - 1)] \in A
      BY DEF X
    <3>2. iter[1..i] \in A
      BY <1>2, <1>6, <3>1
    <3> QED
      BY <3>2
  <2> HIDE DEF G
  <2>3. \A i \in 0..n : i \in G
    BY <2>1, <2>2, StepByStep
  <2> QED
    BY <2>3 DEF G
<1>8. o[0] = none /\ o[n] = iter[1..n] /\ \A i \in 1..n : o[i] = ReadColumn(o[i - 1], s[i])
  <2>1. 1..0 = {} /\ 0 \in 0..n /\ n \in 0..n /\ \A i \in 1..n : i \in 0..n /\ i - 1 \in 0..n
    OBVIOUS
  <2> QED
    BY <1>6, <2>1
<1>9. o \in [0..n -> A]
  BY <1>7
<1> HIDE DEF o
<1> QED
  BY <1>5, <1>8, <1>9 DEF A, none, ReadColumnLoops

(* The reading of a payslip of names and values, row by row. *)
ReadNameLoops(n, s) ==
  \E o \in [0..n -> Seq(ReadLoan)] :
    /\ o[0] = <<>> /\ \A i \in 1..n : o[i] = ReadName(o[i - 1], s[i])
    /\ ReadNames(s) = o[n]

(* The reading goes so.                                                    *)
LEMMA ReadNameLoop ==
  ASSUME NEW n \in Nat, NEW s \in [1..n -> NameRow]
  PROVE  ReadNameLoops(n, s)
<1> DEFINE A == Seq(ReadLoan)
           X == NameRow
           none == <<>>
           h == [p \in A \X X |-> ReadName(p[1], p[2])]
           Step(f) == [S \in SUBSET (1..n) |->
                         IF S = {} THEN none
                         ELSE ReadName(f[S \ {Max(S)}], s[Max(S)])]
           iter == CHOOSE f : f = Step(f)
           o == [i \in 0..n |-> iter[1..i]]
<1>1. none \in A
  BY DEF Reading
<1>2. \A x \in A, y \in X : ReadName(x, y) \in A
  BY ReadNameType
<1>3. \E f : f = Step(f)
  <2>1. PICK f : IsLoop(f, n, A, none, s, h)
    <3>1. h \in [A \X X -> A]
      BY <1>2
    <3> HIDE DEF h, A, X, none
    <3> QED
      BY <1>1, <3>1, LoopExists DEF X
  <2>2. ASSUME NEW S \in SUBSET (1..n), S # {}
        PROVE  f[S] = ReadName(f[S \ {Max(S)}], s[Max(S)])
    <3>1. S \ {Max(S)} \in SUBSET (1..n) /\ Max(S) \in 1..n
      BY <2>2, Greatest
    <3>2. f[S \ {Max(S)}] \in A /\ s[Max(S)] \in X
      BY <2>1, <3>1 DEF IsLoop
    <3> HIDE DEF A, X, none
    <3> QED
      BY <2>1, <2>2, <3>2 DEF IsLoop
  <2> HIDE DEF A, none
  <2> QED
    BY <2>1, <2>2 DEF IsLoop
<1>4. iter = Step(iter)
  BY <1>3
<1>5. ReadNames(s) = iter[1..n]
  BY DEF ReadNames, FoldLeft, MapThenFoldSet
<1> HIDE DEF iter, A, X, none
<1>6. iter[{}] = none /\ \A i \in 1..n : iter[1..i] = ReadName(iter[1..(i - 1)], s[i])
  <2>1. \A S \in SUBSET (1..n) :
          iter[S] = IF S = {} THEN none ELSE ReadName(iter[S \ {Max(S)}], s[Max(S)])
    BY <1>4
  <2> HIDE DEF Step, o, h
  <2>2. ASSUME NEW i \in 1..n PROVE iter[1..i] = ReadName(iter[1..(i - 1)], s[i])
    <3>1. /\ 1..i \in SUBSET (1..n) /\ 1..i # {}
          /\ Max(1..i) = i /\ (1..i) \ {i} = 1..(i - 1)
      BY Prefix
    <3>2. iter[1..i] = ReadName(iter[(1..i) \ {Max(1..i)}], s[Max(1..i)])
      BY <2>1, <3>1
    <3> QED
      BY <3>1, <3>2
  <2> QED
    BY <2>1, <2>2
<1>7. \A i \in 0..n : iter[1..i] \in A
  <2> DEFINE G == {i \in 0..n : iter[1..i] \in A}
  <2>1. 0 \in G
    <3>1. 1..0 = {} /\ 0 \in 0..n
      OBVIOUS
    <3> QED
      BY <1>1, <1>6, <3>1
  <2>2. \A i \in 1..n : i - 1 \in G => i \in G
    <3> SUFFICES ASSUME NEW i \in 1..n, i - 1 \in G PROVE i \in G
      OBVIOUS
    <3>1. s[i] \in X /\ iter[1..(i - 1)] \in A
      BY DEF X
    <3>2. iter[1..i] \in A
      BY <1>2, <1>6, <3>1
    <3> QED
      BY <3>2
  <2> HIDE DEF G
  <2>3. \A i \in 0..n : i \in G
    BY <2>1, <2>2, StepByStep
  <2> QED
    BY <2>3 DEF G
<1>8. o[0] = none /\ o[n] = iter[1..n] /\ \A i \in 1..n : o[i] = ReadName(o[i - 1], s[i])
  <2>1. 1..0 = {} /\ 0 \in 0..n /\ n \in 0..n /\ \A i \in 1..n : i \in 0..n /\ i - 1 \in 0..n
    OBVIOUS
  <2> QED
    BY <1>6, <2>1
<1>9. o \in [0..n -> A]
  BY <1>7
<1> HIDE DEF o
<1> QED
  BY <1>5, <1>8, <1>9 DEF A, none, ReadNameLoops

(* One more row is read after the others. *)
LEMMA ReadColumnAppended ==
  ASSUME NEW s \in Seq(ColumnRow), NEW k \in ColumnRow
  PROVE  ReadColumns(s) \in Reading /\ ReadColumns(Append(s, k)) = ReadColumn(ReadColumns(s), k)
<1> DEFINE n == Len(s)
           t == Append(s, k)
<1>1. /\ n \in Nat /\ s \in [1..n -> ColumnRow] /\ t \in [1..(n + 1) -> ColumnRow]
      /\ t[n + 1] = k /\ \A i \in 1..n : t[i] = s[i]
  <2>1. n \in Nat /\ s \in [1..n -> ColumnRow]
    OBVIOUS
  <2>2. t \in Seq(ColumnRow) /\ DOMAIN t = 1..(n + 1) /\ Len(t) = n + 1
    BY AppendIs
  <2>3. t[n + 1] = k /\ \A i \in 1..n : t[i] = s[i]
    BY AppendIs
  <2> HIDE DEF t, n
  <2> QED
    BY <2>1, <2>2, <2>3
<1> HIDE DEF n, t
<1>2. PICK o \in [0..n -> Reading] :
        /\ o[0] = [out |-> <<>>, current |-> NoFields] /\ \A i \in 1..n : o[i] = ReadColumn(o[i - 1], s[i])
        /\ ReadColumns(s) = o[n]
  <2>1. ReadColumnLoops(n, s)
    BY <1>1, ReadColumnLoop
  <2> QED
    BY <2>1 DEF ReadColumnLoops
<1>3. PICK q \in [0..(n + 1) -> Reading] :
        /\ q[0] = [out |-> <<>>, current |-> NoFields] /\ \A i \in 1..(n + 1) : q[i] = ReadColumn(q[i - 1], t[i])
        /\ ReadColumns(t) = q[n + 1]
  <2>1. ReadColumnLoops(n + 1, t)
    <3>1. n + 1 \in Nat
      BY <1>1
    <3> QED
      BY <1>1, <3>1, ReadColumnLoop
  <2> QED
    BY <2>1 DEF ReadColumnLoops
<1>4. \A i \in 0..n : q[i] = o[i]
  <2> DEFINE G == {i \in 0..n : q[i] = o[i]}
  <2>1. 0 \in G
    BY <1>1, <1>2, <1>3
  <2>2. ASSUME NEW i \in 1..n, i - 1 \in G PROVE i \in G
    <3>1. i \in 1..(n + 1)
      BY <1>1
    <3>2. q[i] = ReadColumn(q[i - 1], t[i]) /\ o[i] = ReadColumn(o[i - 1], s[i]) /\ t[i] = s[i]
      BY <1>1, <1>2, <1>3, <3>1
    <3> QED
      BY <2>2, <3>2
  <2> HIDE DEF G
  <2>3. \A i \in 0..n : i \in G
    BY <1>1, <2>1, <2>2, StepByStep
  <2> QED
    BY <2>3 DEF G
<1>5. q[n + 1] = ReadColumn(q[n], t[n + 1]) /\ q[n] = o[n] /\ o[n] \in Reading
  <2>1. n + 1 \in 1..(n + 1) /\ n \in 0..n /\ (n + 1) - 1 = n
    BY <1>1
  <2> QED
    BY <1>2, <1>3, <1>4, <2>1
<1> QED
  BY <1>1, <1>2, <1>3, <1>5 DEF t

(* One more row is read after the others. *)
LEMMA ReadNameAppended ==
  ASSUME NEW s \in Seq(NameRow), NEW k \in NameRow
  PROVE  ReadNames(s) \in Seq(ReadLoan) /\ ReadNames(Append(s, k)) = ReadName(ReadNames(s), k)
<1> DEFINE n == Len(s)
           t == Append(s, k)
<1>1. /\ n \in Nat /\ s \in [1..n -> NameRow] /\ t \in [1..(n + 1) -> NameRow]
      /\ t[n + 1] = k /\ \A i \in 1..n : t[i] = s[i]
  <2>1. n \in Nat /\ s \in [1..n -> NameRow]
    OBVIOUS
  <2>2. t \in Seq(NameRow) /\ DOMAIN t = 1..(n + 1) /\ Len(t) = n + 1
    BY AppendIs
  <2>3. t[n + 1] = k /\ \A i \in 1..n : t[i] = s[i]
    BY AppendIs
  <2> HIDE DEF t, n
  <2> QED
    BY <2>1, <2>2, <2>3
<1> HIDE DEF n, t
<1>2. PICK o \in [0..n -> Seq(ReadLoan)] :
        /\ o[0] = <<>> /\ \A i \in 1..n : o[i] = ReadName(o[i - 1], s[i])
        /\ ReadNames(s) = o[n]
  <2>1. ReadNameLoops(n, s)
    BY <1>1, ReadNameLoop
  <2> QED
    BY <2>1 DEF ReadNameLoops
<1>3. PICK q \in [0..(n + 1) -> Seq(ReadLoan)] :
        /\ q[0] = <<>> /\ \A i \in 1..(n + 1) : q[i] = ReadName(q[i - 1], t[i])
        /\ ReadNames(t) = q[n + 1]
  <2>1. ReadNameLoops(n + 1, t)
    <3>1. n + 1 \in Nat
      BY <1>1
    <3> QED
      BY <1>1, <3>1, ReadNameLoop
  <2> QED
    BY <2>1 DEF ReadNameLoops
<1>4. \A i \in 0..n : q[i] = o[i]
  <2> DEFINE G == {i \in 0..n : q[i] = o[i]}
  <2>1. 0 \in G
    BY <1>1, <1>2, <1>3
  <2>2. ASSUME NEW i \in 1..n, i - 1 \in G PROVE i \in G
    <3>1. i \in 1..(n + 1)
      BY <1>1
    <3>2. q[i] = ReadName(q[i - 1], t[i]) /\ o[i] = ReadName(o[i - 1], s[i]) /\ t[i] = s[i]
      BY <1>1, <1>2, <1>3, <3>1
    <3> QED
      BY <2>2, <3>2
  <2> HIDE DEF G
  <2>3. \A i \in 0..n : i \in G
    BY <1>1, <2>1, <2>2, StepByStep
  <2> QED
    BY <2>3 DEF G
<1>5. q[n + 1] = ReadName(q[n], t[n + 1]) /\ q[n] = o[n] /\ o[n] \in Seq(ReadLoan)
  <2>1. n + 1 \in 1..(n + 1) /\ n \in 0..n /\ (n + 1) - 1 = n
    BY <1>1
  <2> QED
    BY <1>2, <1>3, <1>4, <2>1
<1> QED
  BY <1>1, <1>2, <1>3, <1>5 DEF t

(* Nothing is read from a payslip without rows.                            *)
LEMMA NothingRead ==
  /\ ReadColumns(<<>>) = [out |-> <<>>, current |-> NoFields]
  /\ ReadNames(<<>>) = <<>>
<1>1. <<>> \in [1..0 -> ColumnRow] /\ <<>> \in [1..0 -> NameRow] /\ 0 \in Nat
  OBVIOUS
<1>2. ReadColumns(<<>>) = [out |-> <<>>, current |-> NoFields]
  <2>1. ReadColumnLoops(0, <<>>)
    BY <1>1, ReadColumnLoop
  <2> QED
    BY <2>1 DEF ReadColumnLoops
<1>3. ReadNames(<<>>) = <<>>
  <2>1. ReadNameLoops(0, <<>>)
    BY <1>1, ReadNameLoop
  <2> QED
    BY <2>1 DEF ReadNameLoops
<1> QED
  BY <1>2, <1>3

(* Nothing is being read, or a loan from its name on.                      *)
Started(acc) == acc.current = NoFields \/ acc.current.name # None
Closed(acc)  == IF acc.current = NoFields THEN acc.out ELSE Append(acc.out, acc.current)
Named(v)     == [name |-> v, amount |-> None, remaining |-> None]
Amounted(v, a) == [name |-> v, amount |-> a, remaining |-> None]

(* The row of the name starts the next loan.                               *)
LEMMA ReadFirst ==
  ASSUME NEW acc \in Reading, Started(acc), NEW v, NEW row, row = [label |-> "name", value |-> v]
  PROVE  ReadColumn(acc, row) = [out |-> Closed(acc), current |-> Named(v)]
<1>1. acc = [out |-> acc.out, current |-> acc.current] /\ acc.current \in ReadLoan
  BY DEF Reading
<1>2. row.label = "name" /\ row.value = v
  OBVIOUS
<1>3. acc.current["name"] = acc.current.name
  BY <1>1 DEF ReadLoan
<1>4. [Named(None) EXCEPT !["name"] = v] = Named(v)
  BY DEF Named
<1>5. NoFields = Named(None) /\ NoFields.name = None
  BY DEF Named, NoFields
<1>6. CASE acc.current = NoFields
  <2>1. [acc EXCEPT !.current["name"] = v]
          = [out |-> acc.out, current |-> [acc.current EXCEPT !["name"] = v]]
    BY <1>1
  <2>2. [acc.current EXCEPT !["name"] = v] = Named(v)
    BY <1>4, <1>5, <1>6
  <2>3. ReadColumn(acc, row) = [acc EXCEPT !.current["name"] = v]
    BY <1>2, <1>3, <1>5, <1>6 DEF ReadColumn
  <2> QED
    BY <1>6, <2>1, <2>2, <2>3 DEF Closed
<1>7. CASE acc.current # NoFields
  <2>1. acc.current["name"] # None
    BY <1>3, <1>7 DEF Started
  <2>2. ReadColumn(acc, row) = [out     |-> Append(acc.out, acc.current),
                                current |-> [NoFields EXCEPT !["name"] = v]]
    BY <1>2, <2>1 DEF ReadColumn
  <2> QED
    BY <1>4, <1>5, <1>7, <2>2 DEF Closed
<1> QED
  BY <1>6, <1>7

(* The rows that follow belong to it.                                      *)
LEMMA ReadNext ==
  ASSUME NEW acc, NEW o, NEW v, NEW a, NEW row
  PROVE  /\ acc = [out |-> o, current |-> Named(v)] /\ row = [label |-> "amount", value |-> a]
              => ReadColumn(acc, row) = [out |-> o, current |-> Amounted(v, a)]
         /\ acc = [out |-> o, current |-> Amounted(v, a)]
              => \A r : row = [label |-> "remaining", value |-> r]
                   => ReadColumn(acc, row)
                        = [out |-> o, current |-> [name |-> v, amount |-> a, remaining |-> r]]
<1>1. ASSUME acc = [out |-> o, current |-> Named(v)], row = [label |-> "amount", value |-> a]
      PROVE  ReadColumn(acc, row) = [out |-> o, current |-> Amounted(v, a)]
  <2>1. row.label = "amount" /\ row.value = a /\ Named(v)["amount"] = None
    BY <1>1 DEF Named
  <2>2. ReadColumn(acc, row) = [acc EXCEPT !.current["amount"] = a]
    BY <1>1, <2>1 DEF ReadColumn
  <2>3. [acc EXCEPT !.current["amount"] = a]
          = [out |-> o, current |-> [Named(v) EXCEPT !["amount"] = a]]
    BY <1>1
  <2>4. [Named(v) EXCEPT !["amount"] = a] = Amounted(v, a)
    BY DEF Named, Amounted
  <2> QED
    BY <2>2, <2>3, <2>4
<1>2. ASSUME acc = [out |-> o, current |-> Amounted(v, a)], NEW r,
             row = [label |-> "remaining", value |-> r]
      PROVE  ReadColumn(acc, row)
               = [out |-> o, current |-> [name |-> v, amount |-> a, remaining |-> r]]
  <2>1. row.label = "remaining" /\ row.value = r /\ Amounted(v, a)["remaining"] = None
    BY <1>2 DEF Amounted
  <2>2. ReadColumn(acc, row) = [acc EXCEPT !.current["remaining"] = r]
    BY <1>2, <2>1 DEF ReadColumn
  <2>3. [acc EXCEPT !.current["remaining"] = r]
          = [out |-> o, current |-> [Amounted(v, a) EXCEPT !["remaining"] = r]]
    BY <1>2
  <2>4. [Amounted(v, a) EXCEPT !["remaining"] = r] = [name |-> v, amount |-> a, remaining |-> r]
    BY DEF Amounted
  <2> QED
    BY <2>2, <2>3, <2>4
<1> QED
  BY <1>1, <1>2

(* Rows put after others.                                                  *)
LEMMA AppendedRows ==
  ASSUME NEW X, NEW s \in Seq(X), NEW a \in X, NEW b \in X, NEW c \in X
  PROVE  /\ s \o (<<a>> \o <<>>) = Append(s, a)
         /\ s \o (<<a>> \o <<b>>) = Append(Append(s, a), b)
         /\ s \o (<<a, b>> \o <<>>) = Append(Append(s, a), b)
         /\ s \o (<<a, b>> \o <<c>>) = Append(Append(Append(s, a), b), c)
<1>1. s \o (<<a>> \o <<>>) = Append(s, a)
  OBVIOUS
<1>2. s \o (<<a>> \o <<b>>) = Append(Append(s, a), b)
  OBVIOUS
<1>3. s \o (<<a, b>> \o <<>>) = Append(Append(s, a), b)
  OBVIOUS
<1>4. s \o (<<a, b>> \o <<c>>) = Append(Append(Append(s, a), b), c)
  OBVIOUS
<1> QED
  BY <1>1, <1>2, <1>3, <1>4

(* A loan written in columns after others is read after them. *)
LEMMA ColumnsOfOne ==
  ASSUME NEW s \in Seq(ColumnRow), NEW loan \in LoanOf,
         NEW acc, acc = ReadColumns(s), Started(acc)
  PROVE  ReadColumns(Writing(s, loan, "columns")) = [out |-> Closed(acc), current |-> loan]
<1> DEFINE a == [label |-> "name", value |-> loan.name]
           b == [label |-> "amount", value |-> loan.amount]
           r == [label |-> "remaining", value |-> loan.remaining]
           o == Closed(acc)
<1>1. a \in ColumnRow /\ b \in ColumnRow /\ (loan.remaining # None => r \in ColumnRow)
  BY DEF LoanOf, ColumnRow
<1>2. acc \in Reading
  BY <1>1, ReadColumnAppended
<1>3. loan = [name |-> loan.name, amount |-> loan.amount, remaining |-> loan.remaining]
  BY DEF LoanOf
<1>4. Writing(s, loan, "columns")
        = s \o (<<a, b>> \o (IF loan.remaining = None THEN <<>> ELSE <<r>>))
  BY DEF Writing, RowsOf
<1>5. ReadColumns(Append(s, a)) = [out |-> o, current |-> Named(loan.name)]
  <2>1. ReadColumns(Append(s, a)) = ReadColumn(acc, a)
    <3> HIDE DEF a
    <3> QED
      BY <1>1, ReadColumnAppended
  <2>2. ReadColumn(acc, a) = [out |-> o, current |-> Named(loan.name)]
    <3> HIDE DEF o
    <3> QED
      BY <1>2, ReadFirst DEF o
  <2> QED
    BY <2>1, <2>2
<1> DEFINE t == Append(s, a)
           u == Append(t, b)
<1>6. t \in Seq(ColumnRow) /\ u \in Seq(ColumnRow)
  <2> HIDE DEF a, b
  <2> QED
    BY <1>1
<1>7. ReadColumns(u) = [out |-> o, current |-> Amounted(loan.name, loan.amount)]
  <2>1. ReadColumns(u) = ReadColumn(ReadColumns(t), b)
    <3> HIDE DEF b, t
    <3> QED
      BY <1>1, <1>6, ReadColumnAppended
  <2>2. ReadColumn(ReadColumns(t), b) = [out |-> o, current |-> Amounted(loan.name, loan.amount)]
    <3> HIDE DEF o, t
    <3>1. ReadColumns(t) = [out |-> o, current |-> Named(loan.name)]
      BY <1>5 DEF t
    <3> QED
      BY <3>1, ReadNext
  <2> QED
    BY <2>1, <2>2
<1>8. CASE loan.remaining = None
  <2>1. Writing(s, loan, "columns") = u
    <3> HIDE DEF a, b
    <3> QED
      BY <1>1, <1>4, <1>8, AppendedRows
  <2>2. Amounted(loan.name, loan.amount) = loan
    BY <1>3, <1>8 DEF Amounted
  <2> HIDE DEF u, o
  <2> QED
    BY <1>7, <2>1, <2>2 DEF o
<1>9. CASE loan.remaining # None
  <2> DEFINE x == Append(u, r)
  <2>1. Writing(s, loan, "columns") = x
    <3> HIDE DEF a, b, r
    <3>1. Writing(s, loan, "columns") = s \o (<<a, b>> \o <<r>>)
      BY <1>4, <1>9
    <3>2. s \o (<<a, b>> \o <<r>>) = Append(Append(Append(s, a), b), r)
      BY <1>1, <1>9, AppendedRows
    <3> QED
      BY <3>1, <3>2
  <2>2. ReadColumns(x) = ReadColumn(ReadColumns(u), r)
    <3> HIDE DEF r, u
    <3> QED
      BY <1>1, <1>6, <1>9, ReadColumnAppended
  <2>3. ReadColumn(ReadColumns(u), r)
          = [out |-> o, current |-> [name |-> loan.name, amount |-> loan.amount,
                                     remaining |-> loan.remaining]]
    <3> HIDE DEF o, u
    <3> QED
      BY <1>7, ReadNext
  <2> HIDE DEF x, u, o
  <2> QED
    BY <1>3, <2>1, <2>2, <2>3 DEF o
<1> QED
  BY <1>8, <1>9

(* A loan written by its name after others is read after them. *)
LEMMA NamesOfOne ==
  ASSUME NEW s \in Seq(NameRow), NEW loan \in LoanOf,
         NEW o, o = ReadNames(s)
  PROVE  o \in Seq(ReadLoan) /\ ReadNames(Writing(s, loan, "names")) = Append(o, loan)
<1> DEFINE c == [label |-> loan.name, value |-> loan.amount]
           r == [label |-> "remaining", value |-> loan.remaining]
           l == Amounted(loan.name, loan.amount)
           t == Append(s, c)
           p == Append(o, l)
<1>1. c \in NameRow /\ (loan.remaining # None => r \in NameRow)
  BY DEF LoanOf, NameRow
<1>2. o \in Seq(ReadLoan)
  BY <1>1, ReadNameAppended
<1>3. /\ loan = [name |-> loan.name, amount |-> loan.amount, remaining |-> loan.remaining]
      /\ loan.name = "loan"
  BY DEF LoanOf
<1>4. Writing(s, loan, "names") = s \o (<<c>> \o (IF loan.remaining = None THEN <<>> ELSE <<r>>))
  BY DEF Writing, RowsOf
<1>5. l \in ReadLoan /\ loan \in ReadLoan
  BY DEF LoanOf, ReadLoan, Value, Amounted
<1>6. ReadNames(t) = p
  <2>1. ReadNames(t) = ReadName(o, c)
    <3> HIDE DEF c
    <3> QED
      BY <1>1, ReadNameAppended
  <2>2. c.label = "loan" /\ c.value = loan.amount
    BY <1>3
  <2>3. ReadName(o, c) = p
    <3> HIDE DEF c
    <3> QED
      BY <1>3, <2>2 DEF ReadName, Amounted
  <2> QED
    BY <2>1, <2>3
<1>7. CASE loan.remaining = None
  <2>1. Writing(s, loan, "names") = t
    <3> HIDE DEF c
    <3> QED
      BY <1>1, <1>4, <1>7, AppendedRows
  <2>2. l = loan
    BY <1>3, <1>7 DEF Amounted
  <2> QED
    BY <1>2, <1>6, <2>1, <2>2
<1>8. CASE loan.remaining # None
  <2> DEFINE x == Append(t, r)
  <2>1. Writing(s, loan, "names") = x
    <3> HIDE DEF c, r
    <3> QED
      BY <1>1, <1>4, <1>8, AppendedRows
  <2>2. ReadNames(x) = ReadName(p, r)
    <3>1. t \in Seq(NameRow)
      <4> HIDE DEF c
      <4> QED
        BY <1>1
    <3> HIDE DEF r, t, p
    <3> QED
      BY <1>1, <1>6, <1>8, <3>1, ReadNameAppended
  <2>3. p # <<>> /\ Last(p) = l /\ Front(p) = o
    <3> HIDE DEF l
    <3> QED
      BY <1>2, <1>5 DEF Last, Front
  <2>4. l.remaining = None /\ [l EXCEPT !.remaining = loan.remaining] = loan
    BY <1>3 DEF Amounted
  <2>5. r.label = "remaining" /\ r.value = loan.remaining
    OBVIOUS
  <2>6. ReadName(p, r) = Append(o, loan)
    <3> HIDE DEF p, r, l
    <3> QED
      BY <2>3, <2>4, <2>5 DEF ReadName
  <2> HIDE DEF x, p, r
  <2> QED
    BY <1>2, <2>1, <2>2, <2>6
<1> QED
  BY <1>7, <1>8

(* What is read after the first i of the loans. *)
ColumnsUpTo(acc, i, loans) ==
  /\ acc.out \in Seq(ReadLoan) /\ Started(acc)
  /\ acc.current = IF i = 0 THEN NoFields ELSE loans[i]
  /\ Len(acc.out) = IF i = 0 THEN 0 ELSE i - 1
  /\ \A j \in 1..Len(acc.out) : acc.out[j] = loans[j]

(* Loan by loan, what was written in columns is read.                      *)
LEMMA ColumnsRead ==
  ASSUME NEW n \in Nat, NEW loans \in [1..n -> LoanOf],
         NEW acc, acc = ReadColumns(Written("columns", loans))
  PROVE  ColumnsUpTo(acc, n, loans)
<1>1. PICK w \in [0..n -> Seq(ColumnRow)] :
        /\ w[0] = <<>> /\ \A i \in 1..n : w[i] = Writing(w[i - 1], loans[i], "columns")
        /\ Written("columns", loans) = w[n]
  <2>1. WriteLoops(n, loans, "columns")
    BY WriteLoop
  <2>2. RowIn("columns") = ColumnRow
    BY DEF RowIn
  <2> QED
    BY <2>1, <2>2 DEF WriteLoops
<1> DEFINE G == {i \in 0..n : ColumnsUpTo(ReadColumns(w[i]), i, loans)}
<1>2. 0 \in G
  <2>1. ReadColumns(w[0]) = [out |-> <<>>, current |-> NoFields] /\ 0 \in 0..n
    BY <1>1, NothingRead
  <2> DEFINE none == [out |-> <<>>, current |-> NoFields]
  <2>2. none.out = <<>> /\ none.current = NoFields /\ <<>> \in Seq(ReadLoan) /\ Len(<<>>) = 0
    OBVIOUS
  <2> HIDE DEF none
  <2>3. ColumnsUpTo(none, 0, loans)
    BY <2>2 DEF ColumnsUpTo, Started
  <2>4. ColumnsUpTo(ReadColumns(w[0]), 0, loans)
    BY <2>1, <2>3 DEF none
  <2> QED
    BY <2>1, <2>4
<1>3. ASSUME NEW i \in 1..n, i - 1 \in G PROVE i \in G
  <2> DEFINE a == ReadColumns(w[i - 1])
             b == ReadColumns(w[i])
  <2>1. ColumnsUpTo(a, i - 1, loans) /\ i - 1 \in 0..n /\ loans[i] \in LoanOf
    BY <1>3
  <2>2. w[i - 1] \in Seq(ColumnRow) /\ w[i] = Writing(w[i - 1], loans[i], "columns")
    BY <1>1, <2>1
  <2>3. b = [out |-> Closed(a), current |-> loans[i]]
    <3>1. Started(a)
      BY <2>1 DEF ColumnsUpTo
    <3> QED
      BY <2>1, <2>2, <3>1, ColumnsOfOne
  <2> HIDE DEF a, b
  <2>4. loans[i].name # None /\ NoFields.name = None /\ loans[i] \in ReadLoan
    BY <2>1, NoneIsNoField DEF LoanOf, NoFields, ReadLoan, Value
  <2>5. /\ Closed(a) \in Seq(ReadLoan) /\ Len(Closed(a)) = i - 1
        /\ \A j \in 1..(i - 1) : Closed(a)[j] = loans[j]
    <3>1. CASE i = 1
      <4>1. a.current = NoFields /\ Len(a.out) = 0 /\ a.out \in Seq(ReadLoan)
        BY <2>1, <3>1 DEF ColumnsUpTo
      <4> QED
        BY <3>1, <4>1 DEF Closed
    <3>2. CASE i # 1
      <4>1. /\ a.current = loans[i - 1] /\ Len(a.out) = i - 2 /\ a.out \in Seq(ReadLoan)
            /\ \A j \in 1..(i - 2) : a.out[j] = loans[j]
        BY <2>1, <3>2 DEF ColumnsUpTo
      <4>2. i - 1 \in 1..n /\ loans[i - 1] \in LoanOf
        BY <3>2
      <4>3. loans[i - 1] # NoFields /\ loans[i - 1] \in ReadLoan
        BY <4>2, NoneIsNoField DEF LoanOf, NoFields, ReadLoan, Value
      <4>4. Closed(a) = Append(a.out, loans[i - 1])
        BY <4>1, <4>3 DEF Closed
      <4> DEFINE c == Append(a.out, loans[i - 1])
      <4>5. /\ c \in Seq(ReadLoan) /\ Len(c) = i - 1 /\ c[i - 1] = loans[i - 1]
            /\ \A j \in 1..(i - 2) : c[j] = loans[j]
        BY <4>1, <4>3, AppendIs
      <4> HIDE DEF c
      <4>6. \A j \in 1..(i - 1) : j = i - 1 \/ j \in 1..(i - 2)
        OBVIOUS
      <4> QED
        BY <4>4, <4>5, <4>6 DEF c
    <3> QED
      BY <3>1, <3>2
  <2>6. ColumnsUpTo(b, i, loans)
    <3>1. i # 0 /\ b.out = Closed(a) /\ b.current = loans[i]
      BY <2>3
    <3> QED
      BY <2>4, <2>5, <3>1 DEF ColumnsUpTo, Started
  <2> QED
    BY <2>6 DEF b
<1>4. n \in G
  <2> HIDE DEF G
  <2>1. \A i \in 0..n : i \in G
    BY <1>2, <1>3, StepByStep
  <2> QED
    BY <2>1
<1> QED
  BY <1>1, <1>4

(* Both forms are read as the loans that were written. *)
LEMMA NamesRead ==
  ASSUME NEW n \in Nat, NEW loans \in [1..n -> LoanOf],
         NEW total \in Nat, NEW o,
         o = ReadNames(Append(Written("names", loans), [label |-> "total", value |-> total]))
  PROVE  o = loans
<1>1. PICK w \in [0..n -> Seq(NameRow)] :
        /\ w[0] = <<>> /\ \A i \in 1..n : w[i] = Writing(w[i - 1], loans[i], "names")
        /\ Written("names", loans) = w[n]
  <2>1. WriteLoops(n, loans, "names")
    BY WriteLoop
  <2>2. RowIn("names") = NameRow
    BY DEF RowIn
  <2> QED
    BY <2>1, <2>2 DEF WriteLoops
<1> DEFINE UpTo(p, i) ==
             /\ p \in Seq(ReadLoan) /\ Len(p) = i
             /\ \A j \in 1..i : p[j] = loans[j]
           G == {i \in 0..n : UpTo(ReadNames(w[i]), i)}
<1>2. 0 \in G
  <2>1. ReadNames(w[0]) = <<>> /\ 0 \in 0..n
    BY <1>1, NothingRead
  <2>2. UpTo(<<>>, 0)
    OBVIOUS
  <2> HIDE DEF UpTo
  <2>3. UpTo(ReadNames(w[0]), 0)
    BY <2>1, <2>2
  <2> QED
    BY <2>1, <2>3
<1>3. ASSUME NEW i \in 1..n, i - 1 \in G PROVE i \in G
  <2> DEFINE a == ReadNames(w[i - 1])
             b == ReadNames(w[i])
  <2>1. UpTo(a, i - 1) /\ i - 1 \in 0..n /\ loans[i] \in LoanOf
    BY <1>3
  <2>2. w[i - 1] \in Seq(NameRow) /\ w[i] = Writing(w[i - 1], loans[i], "names")
    BY <1>1, <2>1
  <2>3. b = Append(a, loans[i])
    <3>1. ReadNames(Writing(w[i - 1], loans[i], "names")) = Append(ReadNames(w[i - 1]), loans[i])
      <4>1. w[i - 1] \in Seq(NameRow) /\ loans[i] \in LoanOf
        BY <2>1, <2>2
      <4> HIDE DEF G, UpTo, a, b
      <4> QED
        BY <4>1, NamesOfOne
    <3> QED
      BY <2>2, <3>1
  <2> HIDE DEF a, b
  <2>4. loans[i] \in ReadLoan
    BY <2>1 DEF LoanOf, ReadLoan, Value
  <2>5. b \in Seq(ReadLoan) /\ Len(b) = i /\ b[i] = loans[i] /\ \A j \in 1..(i - 1) : b[j] = loans[j]
    BY <2>1, <2>3, <2>4, AppendIs
  <2>6. \A j \in 1..i : j = i \/ j \in 1..(i - 1)
    OBVIOUS
  <2>7. UpTo(b, i)
    BY <2>5, <2>6
  <2> QED
    BY <2>7 DEF b
<1>4. n \in G
  <2> HIDE DEF G
  <2>1. \A i \in 0..n : i \in G
    BY <1>2, <1>3, StepByStep
  <2> QED
    BY <2>1
<1> DEFINE p == ReadNames(w[n])
           r == [label |-> "total", value |-> total]
<1>5. p \in Seq(ReadLoan) /\ Len(p) = n /\ \A j \in 1..n : p[j] = loans[j]
  BY <1>4
<1>6. o = ReadName(p, r)
  <2>1. r \in NameRow /\ w[n] \in Seq(NameRow)
    BY DEF NameRow
  <2> HIDE DEF r
  <2> QED
    BY <1>1, <2>1, ReadNameAppended DEF r
<1>7. ReadName(p, r) = p
  BY DEF ReadName
<1>8. p = loans
  <2> HIDE DEF p
  <2>1. loans \in Seq(ReadLoan) /\ Len(loans) = n
    <3>1. \A i \in 1..n : loans[i] \in ReadLoan
      BY DEF LoanOf, ReadLoan, Value
    <3>2. loans \in [1..n -> ReadLoan]
      BY <3>1
    <3> QED
      BY <3>2, FunctionIsSeq
  <2> QED
    BY <1>5, <2>1, SameSeq
<1> QED
  BY <1>6, <1>7, <1>8

(* The loans of which something was kept back, among the first i. *)
KeptUpTo(loans, i) == {j \in 1..i : loans[j].amount \notin {None, 0}}

(* They can be counted.                                                    *)
LEMMA KeptFinite ==
  ASSUME NEW loans, NEW i \in Nat
  PROVE  /\ IsFiniteSet(KeptUpTo(loans, i)) /\ Cardinality(KeptUpTo(loans, i)) \in Nat
         /\ KeptUpTo(loans, 0) = {} /\ Cardinality({}) = 0
<1>1. IsFiniteSet(1..i)
  BY FS_Interval
<1>2. KeptUpTo(loans, i) \in SUBSET (1..i)
  BY DEF KeptUpTo
<1>3. IsFiniteSet(KeptUpTo(loans, i))
  BY <1>1, <1>2, FS_Subset
<1>4. KeptUpTo(loans, 0) = {}
  BY DEF KeptUpTo
<1> QED
  BY <1>3, <1>4, FS_CardinalityType, FS_EmptySet

(* What is left are these loans, in their order. *)
AreKept(o, n, loans) ==
  /\ o \in Seq(ReadLoan) /\ Len(o) = Cardinality(KeptUpTo(loans, n))
  /\ \A i \in KeptUpTo(loans, n) :
       /\ Cardinality(KeptUpTo(loans, i)) \in 1..Len(o)
       /\ o[Cardinality(KeptUpTo(loans, i))] = loans[i]

(* One more loan after those before.                                       *)
LEMMA KeptAdded ==
  ASSUME NEW n \in Nat, NEW loans \in [1..n -> ReadLoan], NEW i \in 1..n,
         NEW o, AreKept(o, i - 1, loans)
  PROVE  AreKept(Deducting(o, loans[i]), i, loans)
<1>1. i \in Nat /\ i - 1 \in Nat /\ loans[i] \in ReadLoan
  OBVIOUS
<1> DEFINE K == KeptUpTo(loans, i - 1)
           L == KeptUpTo(loans, i)
           p == Deducting(o, loans[i])
<1>2. /\ IsFiniteSet(K) /\ Cardinality(K) \in Nat /\ Cardinality(L) \in Nat
  BY <1>1, KeptFinite
<1>3. /\ o \in Seq(ReadLoan) /\ Len(o) = Cardinality(K)
      /\ \A j \in K : /\ Cardinality(KeptUpTo(loans, j)) \in 1..Len(o)
                      /\ o[Cardinality(KeptUpTo(loans, j))] = loans[j]
  BY DEF AreKept
<1>4. CASE loans[i].amount \in {None, 0}
  <2>1. L = K
    <3>1. \A j \in 1..i : j = i \/ j \in 1..(i - 1)
      OBVIOUS
    <3>2. \A j \in 1..(i - 1) : j \in 1..i
      OBVIOUS
    <3> QED
      BY <1>4, <3>1, <3>2 DEF KeptUpTo
  <2>2. p = o
    BY <1>4 DEF Deducting
  <2> HIDE DEF p
  <2>3. AreKept(p, i, loans)
    BY <1>3, <2>1, <2>2 DEF AreKept
  <2> QED
    BY <2>3 DEF p
<1>5. CASE loans[i].amount \notin {None, 0}
  <2>1. L = K \cup {i} /\ i \notin K
    <3>1. \A j \in 1..i : j = i \/ j \in 1..(i - 1)
      OBVIOUS
    <3>2. i \in 1..i /\ i \notin 1..(i - 1) /\ \A j \in 1..(i - 1) : j \in 1..i
      OBVIOUS
    <3> QED
      BY <1>5, <3>1, <3>2 DEF KeptUpTo
  <2>2. p = Append(o, loans[i])
    BY <1>5 DEF Deducting
  <2> HIDE DEF p, K, L
  <2>3. Cardinality(L) = Cardinality(K) + 1
    BY <1>2, <2>1, FS_AddElement
  <2>4. /\ p \in Seq(ReadLoan) /\ Len(p) = Len(o) + 1 /\ p[Len(o) + 1] = loans[i]
        /\ \A x \in 1..Len(o) : p[x] = o[x]
    BY <1>1, <1>3, <2>2, AppendIs
  <2>5. ASSUME NEW j \in L
        PROVE  /\ Cardinality(KeptUpTo(loans, j)) \in 1..Len(p)
               /\ p[Cardinality(KeptUpTo(loans, j))] = loans[j]
    <3>1. CASE j = i
      <4>1. Cardinality(KeptUpTo(loans, j)) = Len(o) + 1
        BY <1>3, <2>3, <3>1 DEF L
      <4>2. Len(o) + 1 \in 1..Len(p)
        BY <1>2, <1>3, <2>4
      <4> QED
        BY <2>4, <3>1, <4>1, <4>2
    <3>2. CASE j \in K
      <4> DEFINE x == Cardinality(KeptUpTo(loans, j))
      <4>1. x \in 1..Len(o) /\ o[x] = loans[j]
        BY <1>3, <3>2
      <4> HIDE DEF x
      <4>2. x \in 1..Len(p)
        BY <1>2, <1>3, <2>4, <4>1
      <4>3. p[x] = loans[j]
        BY <2>4, <4>1
      <4> QED
        BY <4>2, <4>3 DEF x
    <3> QED
      BY <2>1, <3>1, <3>2
  <2>6. Len(p) = Cardinality(L)
    BY <1>3, <2>3, <2>4
  <2>7. AreKept(p, i, loans)
    BY <2>4, <2>5, <2>6 DEF AreKept, L
  <2> QED
    BY <2>7 DEF p
<1> QED
  BY <1>4, <1>5

(* The loop leaves them.                                                   *)
LEMMA DeductedIs ==
  ASSUME NEW n \in Nat, NEW loans \in [1..n -> ReadLoan]
  PROVE  AreKept(Deducted(loans), n, loans)
<1>1. PICK o \in [0..n -> Seq(ReadLoan)] :
        /\ o[0] = <<>> /\ \A i \in 1..n : o[i] = Deducting(o[i - 1], loans[i])
        /\ Deducted(loans) = o[n]
  <2>1. DeductLoops(n, loans)
    BY DeductLoop
  <2> QED
    BY <2>1 DEF DeductLoops
<1> DEFINE G == {i \in 0..n : AreKept(o[i], i, loans)}
<1>2. 0 \in G
  <2>1. KeptUpTo(loans, 0) = {} /\ Cardinality({}) = 0
    BY KeptFinite
  <2>2. AreKept(<<>>, 0, loans)
    <3> DEFINE e == <<>>
    <3>1. e \in Seq(ReadLoan) /\ Len(e) = 0
      OBVIOUS
    <3> HIDE DEF e
    <3>2. AreKept(e, 0, loans)
      BY <2>1, <3>1 DEF AreKept
    <3> QED
      BY <3>2 DEF e
  <2>3. 0 \in 0..n
    OBVIOUS
  <2> QED
    BY <1>1, <2>2, <2>3
<1>3. ASSUME NEW i \in 1..n, i - 1 \in G PROVE i \in G
  <2>1. AreKept(o[i - 1], i - 1, loans)
    BY <1>3
  <2>2. AreKept(o[i], i, loans)
    BY <1>1, <2>1, KeptAdded
  <2> QED
    BY <2>2
<1>4. n \in G
  <2> HIDE DEF G
  <2>1. \A i \in 0..n : i \in G
    BY <1>2, <1>3, StepByStep
  <2> QED
    BY <2>1
<1> QED
  BY <1>1, <1>4

(* What the run asks of the loans read back. *)
IsReadBack(o, loans) ==
  LET kept == {i \in DOMAIN loans : loans[i].amount # 0}
  IN  /\ Len(o) = Cardinality(kept)
      /\ \A i \in kept : o[Cardinality({j \in kept : j <= i})] = loans[i]

(* Without the loans of which nothing was kept back, they are.             *)
LEMMA DeductedBack ==
  ASSUME NEW n \in Nat, NEW loans \in [1..n -> LoanOf]
  PROVE  IsReadBack(Deducted(loans), loans)
<1> DEFINE kept == {i \in DOMAIN loans : loans[i].amount # 0}
           o == Deducted(loans)
<1>1. DOMAIN loans = 1..n /\ \A i \in 1..n : loans[i] \in LoanOf
  OBVIOUS
<1>2. \A i \in 1..n : loans[i] \in ReadLoan /\ loans[i].amount # None
  BY <1>1, NoneIsNoField DEF LoanOf, ReadLoan, Value
<1>3. loans \in [1..n -> ReadLoan]
  BY <1>2
<1>4. AreKept(o, n, loans)
  BY <1>3, DeductedIs
<1>5. kept = KeptUpTo(loans, n)
  BY <1>1, <1>2 DEF KeptUpTo
<1>6. \A i \in kept : {j \in kept : j <= i} = KeptUpTo(loans, i)
  <2> SUFFICES ASSUME NEW i \in kept PROVE {j \in kept : j <= i} = KeptUpTo(loans, i)
    OBVIOUS
  <2>1. i \in 1..n
    BY <1>1
  <2>2. \A j \in 1..i : j \in 1..n /\ j <= i
    BY <2>1
  <2>3. \A j \in 1..n : j <= i => j \in 1..i
    BY <2>1
  <2> QED
    BY <1>5, <2>2, <2>3 DEF KeptUpTo
<1> HIDE DEF kept, o
<1>7. Len(o) = Cardinality(kept) /\ \A i \in kept : o[Cardinality({j \in kept : j <= i})] = loans[i]
  BY <1>4, <1>5, <1>6 DEF AreKept
<1> QED
  BY <1>7 DEF IsReadBack, kept, o

(* The form of names and values.                                           *)
LEMMA NamesBack ==
  ASSUME NEW n \in Nat, NEW loans \in [1..n -> LoanOf], NEW total \in Nat
  PROVE  IsReadBack(LoansByNames(Append(Written("names", loans),
                                        [label |-> "total", value |-> total])), loans)
BY NamesRead, DeductedBack DEF LoansByNames

(* The form with columns; the loan still being read at the end is one.     *)
LEMMA ColumnsBack ==
  ASSUME NEW n \in Nat, NEW loans \in [1..n -> LoanOf]
  PROVE  IsReadBack(LoansByColumns(Written("columns", loans)), loans)
<1> DEFINE acc == ReadColumns(Written("columns", loans))
           p == Append(acc.out, acc.current)
<1>1. LoansByColumns(Written("columns", loans)) = Deducted(p)
  BY DEF LoansByColumns
<1>2. ColumnsUpTo(acc, n, loans)
  BY ColumnsRead
<1> HIDE DEF acc
<1>3. CASE n = 0
  <2>1. acc.out \in Seq(ReadLoan) /\ Len(acc.out) = 0 /\ acc.current = NoFields
    BY <1>2, <1>3 DEF ColumnsUpTo
  <2>2. p = <<NoFields>>
    <3>1. acc.out = <<>>
      BY <2>1
    <3>2. p = Append(<<>>, NoFields)
      BY <2>1, <3>1
    <3> HIDE DEF p
    <3> QED
      BY <3>2
  <2>3. NoFields \in ReadLoan /\ NoFields.amount = None
    BY DEF NoFields, ReadLoan, Value
  <2>4. <<NoFields>> \in [1..1 -> ReadLoan] /\ <<NoFields>>[1] = NoFields
    BY <2>3
  <2>5. AreKept(Deducted(<<NoFields>>), 1, <<NoFields>>)
    BY <2>4, DeductedIs
  <2>6. KeptUpTo(<<NoFields>>, 1) = {}
    BY <2>3, <2>4 DEF KeptUpTo
  <2>7. Len(Deducted(p)) = 0
    BY <2>2, <2>5, <2>6, FS_EmptySet DEF AreKept
  <2>8. {i \in DOMAIN loans : loans[i].amount # 0} = {}
    BY <1>3
  <2>9. IsReadBack(Deducted(p), loans)
    <3> HIDE DEF p
    <3> QED
      BY <2>7, <2>8, FS_EmptySet DEF IsReadBack
  <2> QED
    BY <1>1, <2>9
<1>4. CASE n # 0
  <2>1. /\ acc.out \in Seq(ReadLoan) /\ Len(acc.out) = n - 1 /\ acc.current = loans[n]
        /\ \A j \in 1..(n - 1) : acc.out[j] = loans[j]
    BY <1>2, <1>4 DEF ColumnsUpTo
  <2>2. \A i \in 1..n : loans[i] \in ReadLoan
    BY DEF LoanOf, ReadLoan, Value
  <2>3. n \in 1..n /\ loans[n] \in ReadLoan
    BY <1>4, <2>2
  <2>4. p \in Seq(ReadLoan) /\ Len(p) = n /\ p[n] = loans[n] /\ \A j \in 1..(n - 1) : p[j] = loans[j]
    BY <2>1, <2>3, AppendIs
  <2> HIDE DEF p
  <2>5. loans \in Seq(ReadLoan) /\ Len(loans) = n
    <3>1. loans \in [1..n -> ReadLoan]
      BY <2>2
    <3> QED
      BY <3>1, FunctionIsSeq
  <2>6. \A j \in 1..n : p[j] = loans[j]
    <3>1. \A j \in 1..n : j = n \/ j \in 1..(n - 1)
      OBVIOUS
    <3> QED
      BY <2>4, <3>1
  <2>7. p = loans
    BY <2>4, <2>5, <2>6, SameSeq
  <2> QED
    BY <1>1, <2>7, DeductedBack
<1> QED
  BY <1>3, <1>4

-----------------------------------------------------------------------------
(* The rows that pay: match_payslip_row and apply_payslips.                *)

(* The row can pay the loan.                                               *)
FitsLoan(row, loan, named) ==
  /\ row.amount = loan.amount
  /\ row.name \in named
  /\ row.remaining \in {None, loan.remaining}

(* What match_payslip_row answers for a loan: a row that nobody took and   *)
(* that fits, an exact one if there is one; 0 only if none fits.           *)
IsMatch(r, rows, taken, loan, named) ==
  /\ r \in 0..Len(rows)
  /\ r # 0 => /\ r \notin taken /\ FitsLoan(rows[r], loan, named)
              /\ rows[r].remaining # loan.remaining =>
                   \A x \in 1..Len(rows) :
                     x \notin taken /\ FitsLoan(rows[x], loan, named)
                       => rows[x].remaining # loan.remaining
  /\ r = 0 => \A x \in 1..Len(rows) : FitsLoan(rows[x], loan, named) => x \in taken

(* match_payslip_row for one loan.                                         *)
MatchOf(rows, taken, loan, named) ==
  MatchPayslipRow(rows, taken, loan.amount, loan.remaining, named)

(* The least of a set of numbers is in it.                                 *)
LEMMA LeastIs ==
  ASSUME NEW S \in SUBSET Nat, S # {}
  PROVE  (CHOOSE i \in S : \A j \in S : i <= j) \in S
BY LeastOf

(* match_payslip_row answers so.                                           *)
LEMMA Matched ==
  ASSUME NEW X, NEW rows \in Seq(X), NEW taken, NEW loan, NEW named
  PROVE  IsMatch(MatchOf(rows, taken, loan, named), rows, taken, loan, named)
<1> DEFINE Open(i)  == i \notin taken /\ rows[i].amount = loan.amount /\ rows[i].name \in named
           exact    == {i \in DOMAIN rows : Open(i) /\ rows[i].remaining = loan.remaining}
           fallback == {i \in DOMAIN rows : Open(i) /\ rows[i].remaining = None}
           r == MatchOf(rows, taken, loan, named)
<1>1. DOMAIN rows = 1..Len(rows) /\ Len(rows) \in Nat
  OBVIOUS
<1>2. r = IF exact # {} THEN CHOOSE i \in exact : \A j \in exact : i <= j
          ELSE IF fallback # {} THEN CHOOSE i \in fallback : \A j \in fallback : i <= j
          ELSE 0
  BY DEF MatchOf, MatchPayslipRow
<1>3. exact \in SUBSET Nat /\ fallback \in SUBSET Nat
  BY <1>1
<1> HIDE DEF r
<1>4. CASE exact # {}
  <2>1. r \in exact
    <3> HIDE DEF exact, fallback
    <3> QED
      BY <1>2, <1>3, <1>4, LeastIs
  <2>2. r \in 1..Len(rows) /\ Open(r) /\ rows[r].remaining = loan.remaining /\ r # 0
    BY <1>1, <2>1
  <2> QED
    BY <1>1, <2>2 DEF IsMatch, FitsLoan, r
<1>5. CASE exact = {} /\ fallback # {}
  <2>1. r \in fallback
    <3> HIDE DEF exact, fallback
    <3> QED
      BY <1>2, <1>3, <1>5, LeastIs
  <2>2. r \in 1..Len(rows) /\ Open(r) /\ rows[r].remaining = None /\ r # 0
    BY <1>1, <2>1
  <2>3. \A x \in 1..Len(rows) : x \notin taken /\ FitsLoan(rows[x], loan, named)
                                  => rows[x].remaining # loan.remaining
    BY <1>1, <1>5 DEF FitsLoan
  <2> QED
    BY <1>1, <2>2, <2>3 DEF IsMatch, FitsLoan, r
<1>6. CASE exact = {} /\ fallback = {}
  <2>1. r = 0 /\ 0 \in 0..Len(rows)
    BY <1>1, <1>2, <1>6
  <2>2. \A x \in 1..Len(rows) : FitsLoan(rows[x], loan, named) => x \in taken
    BY <1>1, <1>6 DEF FitsLoan
  <2> QED
    BY <2>1, <2>2 DEF IsMatch, r
<1> QED
  BY <1>4, <1>5, <1>6

(* One step of the loop over the loans.                                    *)
Taking(got, loan, rows, named) ==
  Append(got, MatchOf(rows, Range(got) \ {0}, loan, named))

(* One step of the loop, on the rows taken so far.                         *)
LEMMA TakingType ==
  ASSUME NEW X, NEW rows \in Seq(X), NEW named, NEW loan, NEW got \in Seq(0..Len(rows))
  PROVE  Taking(got, loan, rows, named) \in Seq(0..Len(rows))
<1>1. MatchOf(rows, Range(got) \ {0}, loan, named) \in 0..Len(rows)
  BY Matched DEF IsMatch
<1> QED
  BY <1>1 DEF Taking

(* The loop, step by step.                                                 *)
TakeLoops(n, loans, rows, named) ==
  \E o \in [0..n -> Seq(0..Len(rows))] :
    /\ o[0] = <<>>
    /\ \A i \in 1..n : o[i] = Taking(o[i - 1], loans[i], rows, named)
    /\ TakePayslipRows(rows, loans, named) = o[n]

(* The loop goes so.                                                       *)
LEMMA TakeLoop ==
  ASSUME NEW X, NEW rows \in Seq(X), NEW named,
         NEW Y, NEW n \in Nat, NEW loans \in [1..n -> Y]
  PROVE  TakeLoops(n, loans, rows, named)
<1> DEFINE A == Seq(0..Len(rows))
           h == [p \in A \X Y |-> Taking(p[1], p[2], rows, named)]
           Step(f) == [S \in SUBSET (1..n) |->
                         IF S = {} THEN <<>>
                         ELSE Taking(f[S \ {Max(S)}], loans[Max(S)], rows, named)]
           iter == CHOOSE f : f = Step(f)
           o == [i \in 0..n |-> iter[1..i]]
<1>0. <<>> \in A
  OBVIOUS
<1>1. \E f : f = Step(f)
  <2>1. PICK f : IsLoop(f, n, A, <<>>, loans, h)
    <3>1. h \in [A \X Y -> A]
      BY TakingType
    <3> HIDE DEF h, A
    <3> QED
      BY <1>0, <3>1, LoopExists
  <2>2. ASSUME NEW S \in SUBSET (1..n), S # {}
        PROVE  f[S] = Taking(f[S \ {Max(S)}], loans[Max(S)], rows, named)
    <3>1. S \ {Max(S)} \in SUBSET (1..n) /\ Max(S) \in 1..n
      BY <2>2, Greatest
    <3>2. f[S \ {Max(S)}] \in A /\ loans[Max(S)] \in Y
      BY <2>1, <3>1 DEF IsLoop
    <3> HIDE DEF A
    <3> QED
      BY <2>1, <2>2, <3>2 DEF IsLoop
  <2> QED
    BY <2>1, <2>2 DEF IsLoop
<1>2. iter = Step(iter)
  BY <1>1
<1>3. TakePayslipRows(rows, loans, named) = iter[1..n]
  BY DEF TakePayslipRows, FoldLeft, MapThenFoldSet, Taking, MatchOf
<1> HIDE DEF iter
<1>4. iter[{}] = <<>> /\ \A i \in 1..n : iter[1..i] = Taking(iter[1..(i - 1)], loans[i], rows, named)
  <2>1. \A S \in SUBSET (1..n) :
          iter[S] = IF S = {} THEN <<>> ELSE Taking(iter[S \ {Max(S)}], loans[Max(S)], rows, named)
    BY <1>2
  <2> HIDE DEF Step, o, h
  <2>2. ASSUME NEW i \in 1..n PROVE iter[1..i] = Taking(iter[1..(i - 1)], loans[i], rows, named)
    <3>1. /\ 1..i \in SUBSET (1..n) /\ 1..i # {}
          /\ Max(1..i) = i /\ (1..i) \ {i} = 1..(i - 1)
      BY Prefix
    <3>2. iter[1..i] = Taking(iter[(1..i) \ {Max(1..i)}], loans[Max(1..i)], rows, named)
      BY <2>1, <3>1
    <3> QED
      BY <3>1, <3>2
  <2> QED
    BY <2>1, <2>2
<1>5. \A i \in 0..n : iter[1..i] \in A
  <2> DEFINE G == {i \in 0..n : iter[1..i] \in A}
  <2>1. 0 \in G /\ \A i \in 1..n : i - 1 \in G => i \in G
    <3>1. 1..0 = {} /\ 0 \in 0..n
      OBVIOUS
    <3>2. 0 \in G
      BY <1>0, <1>4, <3>1
    <3>3. \A i \in 1..n : i - 1 \in G => i \in G
      BY <1>4, TakingType
    <3> QED
      BY <3>2, <3>3
  <2> HIDE DEF G
  <2>2. \A i \in 0..n : i \in G
    BY <2>1, StepByStep
  <2> QED
    BY <2>2 DEF G
<1>6. o[0] = <<>> /\ o[n] = iter[1..n] /\ \A i \in 1..n : o[i] = Taking(o[i - 1], loans[i], rows, named)
  <2>1. 1..0 = {} /\ 0 \in 0..n /\ n \in 0..n /\ \A i \in 1..n : i \in 0..n /\ i - 1 \in 0..n
    OBVIOUS
  <2> QED
    BY <1>4, <2>1
<1>7. o \in [0..n -> A]
  BY <1>5
<1> HIDE DEF o
<1> QED
  BY <1>3, <1>6, <1>7 DEF TakeLoops

(* The rows taken by the loans before.                                     *)
TakenBefore(f, i) == {f[j] : j \in 1..(i - 1)} \ {0}

(* Every loan has what match_payslip_row answers at its turn.              *)
IsTaken(o, n, rows, loans, named) ==
  /\ o \in [1..n -> 0..Len(rows)]
  /\ \A i \in 1..n : IsMatch(o[i], rows, TakenBefore(o, i), loans[i], named)

(* Loan after loan takes the row that match_payslip_row answers, when the  *)
(* rows of the loans before are taken.                                     *)
LEMMA TakenIs ==
  ASSUME NEW X, NEW rows \in Seq(X), NEW named,
         NEW Y, NEW n \in Nat, NEW loans \in [1..n -> Y],
         NEW got, got = TakePayslipRows(rows, loans, named)
  PROVE  IsTaken(got, n, rows, loans, named)
<1>1. PICK o \in [0..n -> Seq(0..Len(rows))] :
        /\ o[0] = <<>>
        /\ \A i \in 1..n : o[i] = Taking(o[i - 1], loans[i], rows, named)
        /\ TakePayslipRows(rows, loans, named) = o[n]
  <2>1. TakeLoops(n, loans, rows, named)
    BY TakeLoop
  <2> QED
    BY <2>1 DEF TakeLoops
<1> DEFINE Good(i) ==
             /\ DOMAIN o[i] = 1..i /\ Len(o[i]) = i
             /\ \A j \in 1..i :
                  IsMatch(o[i][j], rows, {o[i][x] : x \in 1..(j - 1)} \ {0}, loans[j], named)
           G == {i \in 0..n : Good(i)}
<1>2. 0 \in G
  <2>1. 0 \in 0..n /\ o[0] = <<>>
    BY <1>1
  <2> QED
    BY <2>1
<1>3. ASSUME NEW i \in 1..n, i - 1 \in G PROVE i \in G
  <2> DEFINE p == o[i - 1]
             r == MatchOf(rows, Range(p) \ {0}, loans[i], named)
             q == o[i]
  <2>1. i - 1 \in 0..n /\ i \in 0..n /\ p \in Seq(0..Len(rows)) /\ q = Append(p, r)
    <3>1. i - 1 \in 0..n /\ i \in 0..n
      OBVIOUS
    <3>2. q = Taking(p, loans[i], rows, named)
      BY <1>1
    <3>3. q = Append(p, r)
      BY <3>2 DEF Taking
    <3> HIDE DEF q, r
    <3> QED
      BY <1>1, <3>1, <3>3
  <2>2. /\ DOMAIN p = 1..(i - 1) /\ Len(p) = i - 1
        /\ \A j \in 1..(i - 1) :
             IsMatch(p[j], rows, {p[x] : x \in 1..(j - 1)} \ {0}, loans[j], named)
    BY <1>3
  <2>3. IsMatch(r, rows, Range(p) \ {0}, loans[i], named)
    BY Matched
  <2>4. r \in 0..Len(rows)
    BY <2>3 DEF IsMatch
  <2> HIDE DEF p, r, q
  <2>5. /\ DOMAIN q = 1..i /\ Len(q) = i /\ q[i] = r
        /\ \A j \in 1..(i - 1) : q[j] = p[j]
    <3>1. i - 1 \in Nat /\ (i - 1) + 1 = i
      OBVIOUS
    <3> QED
      BY <2>1, <2>2, <2>4, <3>1, AppendIs
  <2>6. ASSUME NEW j \in 1..i
        PROVE  IsMatch(q[j], rows, {q[x] : x \in 1..(j - 1)} \ {0}, loans[j], named)
    <3>1. \A x \in 1..(j - 1) : q[x] = p[x]
      <4>1. \A x \in 1..(j - 1) : x \in 1..(i - 1)
        OBVIOUS
      <4> QED
        BY <2>5, <4>1
    <3>2. {q[x] : x \in 1..(j - 1)} = {p[x] : x \in 1..(j - 1)}
      BY <3>1
    <3>3. CASE j = i
      <4>1. {p[x] : x \in 1..(i - 1)} = Range(p)
        BY <2>2 DEF Range
      <4> QED
        BY <2>3, <2>5, <3>2, <3>3, <4>1
    <3>4. CASE j # i
      <4>1. j \in 1..(i - 1) /\ q[j] = p[j]
        BY <2>5, <3>4
      <4> QED
        BY <2>2, <3>2, <4>1
    <3> QED
      BY <3>3, <3>4
  <2>7. Good(i)
    BY <2>5, <2>6 DEF q
  <2> QED
    BY <2>1, <2>7
<1>4. Good(n)
  <2> HIDE DEF Good
  <2>1. \A i \in 1..n : i - 1 \in G => i \in G
    BY <1>3
  <2>2. \A i \in 0..n : i \in G
    <3> HIDE DEF G
    <3> QED
      BY <1>2, <2>1, StepByStep
  <2> QED
    BY <2>2
<1>5. got = o[n] /\ got \in Seq(0..Len(rows)) /\ DOMAIN got = 1..n /\ Len(got) = n
  BY <1>1, <1>4
<1>6. got \in [1..n -> 0..Len(rows)]
  BY <1>5
<1> QED
  BY <1>4, <1>5, <1>6 DEF IsTaken, TakenBefore

(* The ways to give loans rows that fit. *)
Givings(n, loans, rows, named) ==
  {f \in [1..n -> 0..Len(rows)] :
     \A i \in 1..n : f[i] # 0 =>
       /\ FitsLoan(rows[f[i]], loans[i], named)
       /\ \A j \in 1..n : f[j] = f[i] => i = j}

(* The loans that are given a row.                                         *)
Given(f, n) == {i \in 1..n : f[i] # 0}

(* They can be counted.                                                    *)
LEMMA GivenFinite ==
  ASSUME NEW n \in Nat, NEW f
  PROVE  IsFiniteSet(Given(f, n)) /\ Cardinality(Given(f, n)) \in Nat
<1>1. IsFiniteSet(1..n)
  BY FS_Interval
<1>2. Given(f, n) \in SUBSET (1..n)
  BY DEF Given
<1>3. IsFiniteSet(Given(f, n))
  BY <1>1, <1>2, FS_Subset
<1> QED
  BY <1>3, FS_CardinalityType

(* A giving like f before loan i that gives i the row r, and no fewer loans*)
(* a row.                                                                  *)
AsGood(f, n, i, r, rows, loans, named) ==
  \E g \in Givings(n, loans, rows, named) :
    /\ \A j \in 1..(i - 1) : g[j] = f[j]
    /\ g[i] = r
    /\ Cardinality(Given(f, n)) <= Cardinality(Given(g, n))

(* Giving loan i the row r that match_payslip_row answers takes nothing    *)
(* from the number of loans that are given one.                            *)
LEMMA Exchanged ==
  ASSUME NEW n \in Nat, NEW X, NEW rows \in Seq(X), NEW loans, NEW named,
         NEW f \in Givings(n, loans, rows, named), NEW i \in 1..n, NEW r,
         IsMatch(r, rows, TakenBefore(f, i), loans[i], named)
  PROVE  AsGood(f, n, i, r, rows, loans, named)
<1> USE DEF AsGood, TakenBefore
<1> DEFINE x == f[i]
           taken == {f[j] : j \in 1..(i - 1)} \ {0}
           fits(y, j) == FitsLoan(rows[y], loans[j], named)
<1>1. /\ f \in [1..n -> 0..Len(rows)] /\ Len(rows) \in Nat
      /\ \A j \in 1..n : f[j] # 0 => fits(f[j], j) /\ \A k \in 1..n : f[k] = f[j] => j = k
  BY DEF Givings
<1>2. r \in 0..Len(rows) /\ (r # 0 => r \notin taken /\ fits(r, i))
  BY DEF IsMatch
<1>3. x # 0 => x \in 1..Len(rows) /\ x \notin taken /\ fits(x, i)
  <2> SUFFICES ASSUME x # 0 PROVE x \in 1..Len(rows) /\ x \notin taken /\ fits(x, i)
    OBVIOUS
  <2>1. x \in 1..Len(rows)
    BY <1>1
  <2>2. fits(x, i)
    <3> HIDE DEF fits
    <3> QED
      BY <1>1
  <2>3. x \notin taken
    <3>1. \A j \in 1..(i - 1) : j \in 1..n /\ j # i
      OBVIOUS
    <3>2. \A j \in 1..n : f[j] = f[i] => j = i
      <4> HIDE DEF fits, taken
      <4> QED
        BY <1>1
    <3> QED
      BY <3>1, <3>2
  <2> QED
    BY <2>1, <2>2, <2>3
<1>4. x # 0 => r # 0 /\ (rows[x].remaining = loans[i].remaining => rows[r].remaining = loans[i].remaining)
  BY <1>3 DEF IsMatch
<1>5. CASE r = x
  BY <1>5, GivenFinite
<1>6. CASE r # x /\ \A j \in 1..n : f[j] # r
  <2> DEFINE g == [f EXCEPT ![i] = r]
  <2>1. g \in [1..n -> 0..Len(rows)] /\ g[i] = r /\ \A j \in 1..n : j # i => g[j] = f[j]
    BY <1>1, <1>2
  <2>2. r # 0
    BY <1>3, <1>4, <1>6
  <2> HIDE DEF g, fits, taken
  <2>3. g \in Givings(n, loans, rows, named)
    <3> SUFFICES ASSUME NEW j \in 1..n, g[j] # 0
                 PROVE  fits(g[j], j) /\ \A k \in 1..n : g[k] = g[j] => j = k
      BY <2>1 DEF Givings, fits
    <3>1. CASE j = i
      BY <1>2, <1>6, <2>1, <2>2, <3>1
    <3>2. CASE j # i
      BY <1>1, <1>6, <2>1, <3>2
    <3> QED
      BY <3>1, <3>2
  <2>4. Given(f, n) \in SUBSET Given(g, n)
    BY <2>1, <2>2 DEF Given
  <2>5. Cardinality(Given(f, n)) <= Cardinality(Given(g, n))
    BY <2>4, GivenFinite, FS_Subset
  <2>6. \A j \in 1..(i - 1) : g[j] = f[j]
    BY <2>1
  <2> QED
    BY <2>1, <2>3, <2>5, <2>6
<1>7. CASE r # x /\ \E j \in 1..n : f[j] = r
  <2>1. r # 0
    BY <1>1, <1>3, <1>4, <1>7
  <2>2. PICK j \in 1..n : f[j] = r
    BY <1>7
  <2>3. j # i /\ j \notin 1..(i - 1)
    BY <1>2, <1>7, <2>1, <2>2
  <2> DEFINE g == [f EXCEPT ![i] = r, ![j] = x]
  <2>4. /\ g \in [1..n -> 0..Len(rows)] /\ g[i] = r /\ g[j] = x
        /\ \A k \in 1..n : k # i /\ k # j => g[k] = f[k]
    BY <1>1, <1>2, <2>3
  <2>5. fits(r, j)
    BY <1>1, <2>1, <2>2
  <2>6. x # 0 => fits(x, j)
    <3> SUFFICES ASSUME x # 0 PROVE fits(x, j)
      OBVIOUS
    <3>1. fits(x, i) /\ fits(r, i)
      BY <1>2, <1>3, <2>1
    <3>2. CASE rows[x].remaining = None
      BY <2>5, <3>1, <3>2 DEF FitsLoan
    <3>3. CASE rows[x].remaining # None
      <4>1. rows[x].remaining = loans[i].remaining /\ rows[r].remaining = rows[x].remaining
        BY <1>4, <3>1, <3>3 DEF FitsLoan
      <4> QED
        BY <2>5, <3>1, <3>3, <4>1 DEF FitsLoan
    <3> QED
      BY <3>2, <3>3
  <2> HIDE DEF g, fits, taken
  <2>7. g \in Givings(n, loans, rows, named)
    <3> SUFFICES ASSUME NEW a \in 1..n, g[a] # 0
                 PROVE  fits(g[a], a) /\ \A k \in 1..n : g[k] = g[a] => a = k
      BY <2>4 DEF Givings, fits
    <3>1. CASE a = i
      BY <1>1, <1>2, <1>7, <2>1, <2>2, <2>4, <3>1
    <3>2. CASE a = j
      BY <1>1, <1>7, <2>2, <2>3, <2>4, <2>6, <3>2
    <3>3. CASE a # i /\ a # j
      BY <1>1, <2>1, <2>2, <2>4, <3>3
    <3> QED
      BY <3>1, <3>2, <3>3
  <2>8. Cardinality(Given(f, n)) <= Cardinality(Given(g, n))
    <3>1. CASE x # 0
      <4>1. Given(f, n) = Given(g, n)
        BY <2>1, <2>2, <2>4, <3>1 DEF Given
      <4> QED
        BY <4>1, GivenFinite
    <3>2. CASE x = 0
      <4> DEFINE S == Given(f, n)
      <4>1. j \in S /\ i \notin S /\ Given(g, n) = (S \ {j}) \cup {i}
        BY <2>1, <2>2, <2>3, <2>4, <3>2 DEF Given
      <4>2. IsFiniteSet(S) /\ Cardinality(S) \in Nat
        BY GivenFinite
      <4> HIDE DEF S
      <4> DEFINE T == S \ {j}
      <4>3. IsFiniteSet(T) /\ Cardinality(T) = Cardinality(S) - 1 /\ i \notin T
        BY <4>1, <4>2, FS_RemoveElement
      <4> HIDE DEF T
      <4>4. Cardinality(T \cup {i}) = Cardinality(T) + 1
        BY <4>3, FS_AddElement
      <4>5. Cardinality(Given(g, n)) = Cardinality(S)
        BY <4>1, <4>2, <4>3, <4>4 DEF T
      <4> QED
        BY <4>2, <4>5 DEF S
    <3> QED
      BY <3>1, <3>2
  <2>9. \A k \in 1..(i - 1) : g[k] = f[k]
    BY <2>3, <2>4
  <2> QED
    BY <2>4, <2>7, <2>8, <2>9
<1> QED
  BY <1>5, <1>6, <1>7

(* What apply_payslips gives the loans is a giving, and none gives more.   *)
LEMMA WellTaken ==
  ASSUME NEW X, NEW rows \in Seq(X), NEW named,
         NEW Y, NEW n \in Nat, NEW loans \in [1..n -> Y],
         NEW o, o = TakePayslipRows(rows, loans, named)
  PROVE  /\ o \in Givings(n, loans, rows, named)
         /\ \A f \in Givings(n, loans, rows, named) :
              Cardinality(Given(f, n)) <= Cardinality(Given(o, n))
<1>1. /\ o \in [1..n -> 0..Len(rows)]
      /\ \A i \in 1..n : IsMatch(o[i], rows, TakenBefore(o, i), loans[i], named)
  BY TakenIs DEF IsTaken
<1>2. o \in Givings(n, loans, rows, named)
  <2>1. ASSUME NEW i \in 1..n, o[i] # 0
        PROVE  FitsLoan(rows[o[i]], loans[i], named) /\ o[i] \notin {o[j] : j \in 1..(i - 1)}
    BY <1>1, <2>1 DEF IsMatch, TakenBefore
  <2>2. ASSUME NEW i \in 1..n, o[i] # 0, NEW j \in 1..n, o[j] = o[i] PROVE i = j
    <3>1. CASE j < i
      <4>1. j \in 1..(i - 1)
        BY <3>1
      <4> QED
        BY <2>1, <2>2, <4>1
    <3>2. CASE i < j
      <4>1. i \in 1..(j - 1)
        BY <3>2
      <4> QED
        BY <2>1, <2>2, <4>1
    <3> QED
      BY <3>1, <3>2
  <2> QED
    BY <1>1, <2>1, <2>2 DEF Givings
<1>3. ASSUME NEW f \in Givings(n, loans, rows, named)
      PROVE  Cardinality(Given(f, n)) <= Cardinality(Given(o, n))
  <2> DEFINE Agrees(g, i) ==
               /\ \A j \in 1..i : g[j] = o[j]
               /\ Cardinality(Given(f, n)) <= Cardinality(Given(g, n))
             G == {i \in 0..n : \E g \in Givings(n, loans, rows, named) : Agrees(g, i)}
  <2>1. 0 \in G
    <3>1. Agrees(f, 0) /\ 0 \in 0..n
      BY GivenFinite
    <3> QED
      BY <3>1
  <2>2. ASSUME NEW i \in 1..n, i - 1 \in G PROVE i \in G
    <3>1. PICK g \in Givings(n, loans, rows, named) : Agrees(g, i - 1)
      BY <2>2
    <3>2. TakenBefore(g, i) = TakenBefore(o, i)
      BY <3>1 DEF TakenBefore
    <3>3. IsMatch(o[i], rows, TakenBefore(g, i), loans[i], named)
      BY <1>1, <3>2
    <3>4. PICK h \in Givings(n, loans, rows, named) :
            /\ \A j \in 1..(i - 1) : h[j] = g[j]
            /\ h[i] = o[i]
            /\ Cardinality(Given(g, n)) <= Cardinality(Given(h, n))
      <4>1. AsGood(g, n, i, o[i], rows, loans, named)
        BY <3>3, Exchanged
      <4> QED
        BY <4>1 DEF AsGood
    <3>5. \A j \in 1..i : j = i \/ j \in 1..(i - 1)
      OBVIOUS
    <3>6. /\ Cardinality(Given(f, n)) \in Nat /\ Cardinality(Given(g, n)) \in Nat
          /\ Cardinality(Given(h, n)) \in Nat
      BY GivenFinite
    <3>7. Agrees(h, i)
      BY <3>1, <3>4, <3>5, <3>6
    <3> QED
      BY <3>7
  <2>3. n \in G
    <3> HIDE DEF G
    <3>1. \A i \in 1..n : i - 1 \in G => i \in G
      BY <2>2
    <3>2. \A i \in 0..n : i \in G
      BY <2>1, <3>1, StepByStep
    <3> QED
      BY <3>2
  <2>4. PICK g \in Givings(n, loans, rows, named) : Agrees(g, n)
    BY <2>3
  <2>5. g = o
    <3>1. g \in [1..n -> 0..Len(rows)]
      BY DEF Givings
    <3>2. \A j \in 1..n : g[j] = o[j]
      BY <2>4
    <3>3. g = [j \in 1..n |-> g[j]] /\ o = [j \in 1..n |-> o[j]]
      BY <1>1, <3>1
    <3> HIDE DEF Agrees
    <3> QED
      BY <3>2, <3>3
  <2> QED
    BY <2>4, <2>5
<1> QED
  BY <1>2, <1>3

-----------------------------------------------------------------------------
(* The invariants of the run.                                              *)

(* A sequence of some length. *)
IsSeqOf(s, X) == \E n \in Nat : s \in [1..n -> X]

(* A call of a function has an input of the function, and its result.      *)
Calls(o, a, r) ==
  /\ o = "normalize" =>
       /\ a = None \/ \E X : IsSeqOf(a, X)
       /\ r = NormalizeSteps(a)
  /\ o = "effective" =>
       \E s \in StepPaths, n \in Nat, e \in Employees, person \in Approvers :
         /\ a = [steps |-> s, guarantors |-> n, emp |-> e, person |-> person]
         /\ r = EffectiveSteps(s, n, e, person)
  /\ o = "count" =>
       \E total \in Nat, n \in Nat, first \in Month :
         /\ a = [total |-> total, by |-> n, first |-> first]
         /\ r = InstallmentsByCount(total, n, first)
  /\ o = "amount" =>
       \E total \in Nat, amount \in Nat, first \in Month :
         /\ a = [total |-> total, by |-> amount, first |-> first]
         /\ r = InstallmentsByAmount(total, amount, first)
  /\ o = "months" =>
       \E s \in Dates, t \in Dates :
         a = [from |-> s, to |-> t] /\ r = MonthsBetween(s, t)
  /\ o = "loans" =>
       /\ IsSeqOf(a, LoanOf)
       /\ r \in {LoansByColumns(Written("columns", a)),
                 LoansByNames(Append(Written("names", a), TotalRow))}
  /\ o = "take" =>
       /\ \E X : IsSeqOf(a.rows, X)
       /\ \E Y : IsSeqOf(a.loans, Y)
       /\ r = TakePayslipRows(a.rows, a.loans, a.named)
  /\ o = "window" =>
       \E from \in 1..31, to \in 1..31 :
         /\ a = [from |-> from, to |-> to]
         /\ r = [i \in {j \in DOMAIN Calendar : InWindow(Calendar[j].d, from, to)} |->
                   RequestMonth(Calendar[i], from, to)]

(* The last call. *)
Called == Calls(op, arg, out)

(* No function has been called at first. *)
LEMMA InitCalled == Init => Called
BY DEF Init, Called, Calls

(* The inputs of the run are sequences.                                    *)
LEMMA BoundedIsSeq ==
  ASSUME NEW X, NEW n \in Nat, NEW s \in BoundedSeq(X, n)
  PROVE  IsSeqOf(s, X)
<1>1. PICK m \in 0..n : s \in [1..m -> X]
  BY DEF BoundedSeq, SeqOf
<1> QED
  BY <1>1 DEF IsSeqOf

(* Every call leaves the input and the result of a function. *)
LEMMA StepCalled == Called /\ [Next]_vars => Called'
<1> SUFFICES ASSUME Called, [Next]_vars PROVE Called'
  OBVIOUS
<1>1. CASE UNCHANGED <<op, arg, out>>
  <2>1. op' = op /\ arg' = arg /\ out' = out
    BY <1>1
  <2> QED
    BY <2>1 DEF Called
<1>2. CASE CallNormalize
  <2>1. PICK s \in Stored : Result("normalize", s, NormalizeSteps(s))
    BY <1>2 DEF CallNormalize
  <2>2. s = None \/ IsSeqOf(s, StepKeys \cup {"other"})
    BY <2>1, BoundedIsSeq DEF Stored
  <2>3. op' = "normalize" /\ arg' = s /\ out' = NormalizeSteps(s)
    BY <2>1 DEF Result
  <2>4. arg' = None \/ \E X : IsSeqOf(arg', X)
    BY <2>2, <2>3
  <2> QED
    BY <2>3, <2>4 DEF Called, Calls
<1>3. CASE CallEffective
  <2>1. PICK s \in StepPaths, n \in 0..1, e \in Employees, person \in Approvers :
          Result("effective", [steps |-> s, guarantors |-> n, emp |-> e, person |-> person],
                 EffectiveSteps(s, n, e, person))
    BY <1>3 DEF CallEffective
  <2>2. n \in Nat
    OBVIOUS
  <2> QED
    BY <2>1, <2>2 DEF Result, Called, Calls
<1>4. CASE CallByCount
  <2>1. PICK total \in 0..MaxTotal, n \in 0..MaxInstallments + 1, first \in FirstMonths :
          Result("count", [total |-> total, by |-> n, first |-> first],
                 InstallmentsByCount(total, n, first))
    BY <1>4 DEF CallByCount
  <2>2. total \in Nat /\ n \in Nat /\ first \in Month
    BY MaxInstallmentsAssumption DEF FirstMonths, Month
  <2> QED
    BY <2>1, <2>2 DEF Result, Called, Calls
<1>5. CASE CallByAmount
  <2>1. PICK total \in 0..MaxTotal, amount \in 0..MaxTotal, first \in FirstMonths :
          Result("amount", [total |-> total, by |-> amount, first |-> first],
                 InstallmentsByAmount(total, amount, first))
    BY <1>5 DEF CallByAmount
  <2>2. total \in Nat /\ amount \in Nat /\ first \in Month
    BY DEF FirstMonths, Month
  <2> QED
    BY <2>1, <2>2 DEF Result, Called, Calls
<1>6. CASE CallMonths
  BY <1>6 DEF CallMonths, Result, Called, Calls
<1>7. CASE CallLoans
  <2>1. PICK loans \in BoundedSeq(Loans, MaxRows) :
          /\ op' = "loans" /\ arg' = loans
          /\ out' \in {LoansByColumns(Written("columns", loans)),
                       LoansByNames(Append(Written("names", loans), TotalRow))}
    BY <1>7 DEF CallLoans, Result
  <2>2. IsSeqOf(loans, LoanOf)
    <3>1. PICK n \in Nat : loans \in [1..n -> Loans]
      BY BoundsAssumption, BoundedIsSeq DEF IsSeqOf
    <3>2. \A i \in 1..n : loans[i] \in LoanOf
      BY <3>1 DEF Loans, LoanOf
    <3>3. loans \in [1..n -> LoanOf]
      BY <3>1, <3>2
    <3> QED
      BY <3>3 DEF IsSeqOf
  <2> QED
    BY <2>1, <2>2 DEF Called, Calls
<1>8. CASE CallTake
  <2> DEFINE R == [name : {"loan", "bank"}, amount : {1, 2}, remaining : {None, 0, 1}]
             Y == [amount : {1}, remaining : {0, 1}]
  <2>1. PICK rows \in BoundedSeq(R, MaxRows), loans \in BoundedSeq(Y, MaxRows),
             named \in {{"loan"}, {"loan", "bank"}} :
          Result("take", [rows |-> rows, loans |-> loans, named |-> named],
                 TakePayslipRows(rows, loans, named))
    BY <1>8 DEF CallTake
  <2>2. IsSeqOf(rows, R) /\ IsSeqOf(loans, Y)
    BY <2>1, BoundsAssumption, BoundedIsSeq
  <2> HIDE DEF R, Y
  <2>3. /\ op' = "take" /\ out' = TakePayslipRows(rows, loans, named)
        /\ arg'.rows = rows /\ arg'.loans = loans /\ arg'.named = named
    BY <2>1 DEF Result
  <2> QED
    BY <2>2, <2>3 DEF Called, Calls
<1>9. CASE CallWindow
  BY <1>9 DEF CallWindow, Result, Called, Calls
<1> QED
  BY <1>1, <1>2, <1>3, <1>4, <1>5, <1>6, <1>7, <1>8, <1>9 DEF Next, CallFunction, vars

(* Whatever is called is called with an input of the function. *)
THEOREM RulesCalled == Spec => []Called
BY InitCalled, StepCalled, PTL DEF Spec

(* The months of service are the monthly anniversaries that have passed.   *)
THEOREM CompleteMonthsHolds == Spec => []CompleteMonths
<1>1. Called => CompleteMonths
  <2> SUFFICES ASSUME Called, op = "months" PROVE CompleteMonths
    BY DEF CompleteMonths
  <2>1. PICK s \in Dates, t \in Dates : arg = [from |-> s, to |-> t] /\ out = MonthsBetween(s, t)
    BY DEF Called, Calls
  <2>2. s \in Date /\ t \in Date /\ MonthsBetween(s, t) <= 24
    BY DEF Dates, Date, MonthsBetween
  <2>3. arg.from = s /\ arg.to = t
    BY <2>1
  <2>4. out = Cardinality({k \in 1..24 :
                LET m == (t.y * 12 + t.m) - (s.y * 12 + s.m)
                IN  IF k = m THEN s.d <= t.d ELSE k < m})
    BY <2>1, <2>2, Anniversaries
  <2> QED
    BY <2>3, <2>4 DEF CompleteMonths
<1> QED
  BY <1>1, RulesCalled, PTL

(* For any total, count and amount, the installments of build_installments *)
(* add up to the loan, none is empty, they are due month after month, and  *)
(* only a plan that cannot be met is refused.                              *)
THEOREM InstallmentsAddUpHolds == Spec => []InstallmentsAddUp
<1>1. Called => InstallmentsAddUp
  <2> SUFFICES ASSUME Called PROVE InstallmentsAddUp
    OBVIOUS
  <2>1. ASSUME op = "count"
        PROVE  AddsUp(out, arg.total, arg.first,
                      {n \in 1..MaxInstallments : n = arg.by /\ n <= arg.total})
    <3>1. PICK total \in Nat, by \in Nat, first \in Month :
            /\ arg = [total |-> total, by |-> by, first |-> first]
            /\ out = InstallmentsByCount(total, by, first)
      BY <2>1 DEF Called, Calls
    <3>2. arg.total = total /\ arg.by = by /\ arg.first = first
      BY <3>1
    <3>3. AddsUp(out, total, first, {n \in 1..MaxInstallments : n = by /\ n <= total})
      BY <3>1, CountAddsUp
    <3> QED
      BY <3>2, <3>3
  <2>2. ASSUME op = "amount"
        PROVE  AddsUp(out, arg.total, arg.first,
                      {n \in 1..MaxInstallments :
                         arg.by > 0 /\ (n - 1) * arg.by < arg.total /\ arg.total <= n * arg.by})
    <3>1. PICK total \in Nat, by \in Nat, first \in Month :
            /\ arg = [total |-> total, by |-> by, first |-> first]
            /\ out = InstallmentsByAmount(total, by, first)
      BY <2>2 DEF Called, Calls
    <3>2. arg.total = total /\ arg.by = by /\ arg.first = first
      BY <3>1
    <3>3. AddsUp(out, total, first,
                 {n \in 1..MaxInstallments :
                    by > 0 /\ (n - 1) * by < total /\ total <= n * by})
      BY <3>1, AmountAddsUp
    <3> QED
      BY <3>2, <3>3
  <2> QED
    BY <2>1, <2>2 DEF InstallmentsAddUp
<1> QED
  BY <1>1, RulesCalled, PTL

(* For all days of opening and closing: two days count for the same month  *)
(* exactly when no window opens between them, later days never for an      *)
(* earlier month.                                                          *)
THEOREM OneMonthPerWindowHolds == Spec => []OneMonthPerWindow
<1>1. Called => OneMonthPerWindow
  <2> SUFFICES ASSUME Called, op = "window" PROVE OneMonthPerWindow
    BY DEF OneMonthPerWindow
  <2>1. PICK from \in 1..31, to \in 1..31 :
          /\ arg = [from |-> from, to |-> to]
          /\ out = [i \in {j \in DOMAIN Calendar : InWindow(Calendar[j].d, from, to)} |->
                      RequestMonth(Calendar[i], from, to)]
    BY DEF Called, Calls
  <2>2. arg.from = from
    BY <2>1
  <2> DEFINE Number(i) == out[i].y * 12 + out[i].m
             Opens(i)  == \/ Calendar[i].d = from
                          \/ Calendar[i].d = 1 /\ i > 1 /\ Calendar[i - 1].d < from
             After(i)  == {j \in DOMAIN out : j > i}
  <2>3. DOMAIN Calendar = 1..121 /\ \A i \in 1..121 : Calendar[i].d = DayOf(i)
    <3>1. DOMAIN Calendar = 1..121
      BY DEF Calendar
    <3>2. ASSUME NEW i \in 1..121 PROVE Calendar[i].d = DayOf(i)
      <4>1. Dated(i, Calendar[i])
        BY CalendarDays
      <4> QED
        BY <4>1 DEF Dated
    <3> QED
      BY <3>1, <3>2
  <2>4. /\ DOMAIN out \subseteq 1..121
        /\ \A i \in DOMAIN out : InWindow(DayOf(i), from, to) /\ out[i] = RequestMonth(Calendar[i], from, to)
    <3> HIDE DEF Number, Opens, After
    <3>1. DOMAIN out = {j \in DOMAIN Calendar : InWindow(Calendar[j].d, from, to)}
      BY <2>1
    <3>2. \A i \in DOMAIN out : out[i] = RequestMonth(Calendar[i], from, to)
      BY <2>1, <3>1
    <3> QED
      BY <2>3, <3>1, <3>2
  <2>5. \A j \in 1..121 : Opens(j) <=> Opening(j, from)
    <3> SUFFICES ASSUME NEW j \in 1..121 PROVE Opens(j) <=> Opening(j, from)
      OBVIOUS
    <3>1. Calendar[j].d = DayOf(j) /\ (j > 1 => Calendar[j - 1].d = DayOf(j - 1))
      <4>1. j > 1 => j - 1 \in 1..121
        OBVIOUS
      <4> HIDE DEF Number, Opens, After
      <4> QED
        BY <2>3, <4>1
    <3> QED
      BY <3>1 DEF Opening
  <2>6. ASSUME NEW i \in DOMAIN out, NEW n \in DOMAIN out, i < n
        PROVE  /\ Number(i) <= Number(n)
               /\ Number(i) = Number(n) <=> \A j \in i + 1..n : ~Opens(j)
    <3> DEFINE a == WindowOf(i, from, to)
               b == WindowOf(n, from, to)
    <3>1. i \in 1..121 /\ n \in 1..121
      BY <2>4
    <3>2. NumberOf(out[i]) = 16858 + a /\ NumberOf(out[n]) = 16858 + b /\ a \in Int /\ b \in Int
      <4>1. out[i] = RequestMonth(Calendar[i], from, to) /\ out[n] = RequestMonth(Calendar[n], from, to)
        BY <2>4
      <4>2. CountsFor(out[i], a) /\ CountsFor(out[n], b)
        BY <3>1, <4>1, MonthCounted
      <4> QED
        BY <4>2 DEF CountsFor
    <3>3. Number(i) = 16858 + a /\ Number(n) = 16858 + b
      BY <3>2 DEF NumberOf
    <3>4. InOrder(a, b, i, n, from)
      <4>1. InWindow(DayOf(i), from, to) /\ InWindow(DayOf(n), from, to)
        BY <2>4
      <4> QED
        BY <2>6, <3>1, <4>1, WindowOpens
    <3>5. \A j \in i + 1..n : j \in 1..121
      BY <3>1
    <3> HIDE DEF a, b, Number, Opens
    <3>6. (\A j \in (i + 1)..n : ~Opening(j, from)) <=> \A j \in i + 1..n : ~Opens(j)
      BY <2>5, <3>5
    <3> QED
      BY <3>2, <3>3, <3>4, <3>6 DEF InOrder
  <2>7. ASSUME NEW i \in DOMAIN out, After(i) # {}
        PROVE  LET n == CHOOSE j \in After(i) : \A k \in After(i) : j <= k
               IN  /\ Number(i) <= Number(n)
                   /\ Number(i) = Number(n) <=> \A j \in i + 1..n : ~Opens(j)
    <3> DEFINE n == CHOOSE j \in After(i) : \A k \in After(i) : j <= k
    <3>1. After(i) \in SUBSET Nat
      BY <2>4
    <3>2. n \in After(i)
      <4> HIDE DEF After
      <4> QED
        BY <2>7, <3>1, LeastOf
    <3>3. n \in DOMAIN out /\ i < n
      BY <2>4, <3>2
    <3> HIDE DEF n, Number, Opens
    <3>4. /\ Number(i) <= Number(n)
          /\ Number(i) = Number(n) <=> \A j \in i + 1..n : ~Opens(j)
      BY <2>6, <3>3
    <3> QED
      BY <3>4 DEF n
  <2> QED
    BY <2>2, <2>7 DEF OneMonthPerWindow
<1> QED
  BY <1>1, RulesCalled, PTL

(* Of the steps of a path, the ones before the site manager are in the     *)
(* order in which they were stored first.                                  *)
LEMMA StoredFirst ==
  ASSUME NEW n \in Nat, NEW s, DOMAIN s = 1..n, NEW x \in 1..n, NEW k, NEW l,
         s[x] = k, \A y \in 1..x : s[y] # l, \E z \in 1..n : s[z] = l
  PROVE  FirstAt(s, k) < FirstAt(s, l)
<1> DEFINE K == {i \in 1..n : s[i] = k}
           L == {i \in 1..n : s[i] = l}
<1>1. ASSUME NEW v, {i \in 1..n : s[i] = v} # {}
      PROVE  /\ FirstAt(s, v) \in {i \in 1..n : s[i] = v}
             /\ \A j \in {i \in 1..n : s[i] = v} : FirstAt(s, v) <= j
  <2> DEFINE V == {i \in 1..n : s[i] = v}
  <2>1. PICK i \in V : \A j \in V : i <= j
    <3>1. V \in SUBSET Nat /\ V # {}
      BY <1>1
    <3> HIDE DEF V
    <3> QED
      BY <3>1, LeastOf
  <2>2. \E i2 \in DOMAIN s : s[i2] = v /\ \A j \in DOMAIN s : s[j] = v => i2 <= j
    BY <2>1
  <2>3. FirstAt(s, v) \in DOMAIN s /\ s[FirstAt(s, v)] = v
        /\ \A j \in DOMAIN s : s[j] = v => FirstAt(s, v) <= j
    BY <2>2 DEF FirstAt
  <2> QED
    BY <2>3
<1>2. x \in K /\ L # {}
  OBVIOUS
<1>3. FirstAt(s, k) <= x /\ FirstAt(s, k) \in 1..n
  BY <1>1, <1>2
<1>4. FirstAt(s, l) \in 1..n /\ s[FirstAt(s, l)] = l
  BY <1>1, <1>2
<1>5. FirstAt(s, l) \notin 1..x
  BY <1>4
<1> QED
  BY <1>3, <1>4, <1>5

(* The default path is a path. *)
LEMMA DefaultIsPath == DefaultSteps \in StepPaths
<1>1. /\ DefaultSteps \in [1..5 -> StepKeys] /\ Len(DefaultSteps) = 5
      /\ DOMAIN DefaultSteps = 1..5 /\ DefaultSteps[5] = "finance"
  BY DEF DefaultSteps, StepKeys, PersonSteps
<1>2. IsInjective(DefaultSteps)
  BY DEF DefaultSteps, IsInjective
<1>3. \A i \in 1..5 : DefaultSteps[i] = "site_manager" => i = 5 - 1
  BY DEF DefaultSteps
<1>4. 5 \in 1..5
  OBVIOUS
<1> QED
  BY <1>1, <1>2, <1>3, <1>4 DEF StepPaths

(* What is called with a list of steps, and what it answers. *)
LEMMA CalledWith ==
  ASSUME Called, op = "normalize"
  PROVE  (arg # None => \E X : IsSeqOf(arg, X)) /\ out = NormalizeSteps(arg)
BY Zenon DEF Called, Calls

(* normalize_steps is called with a list or with none.                     *)
LEMMA CalledNormal ==
  ASSUME Called, op = "normalize", arg # None
  PROVE  IsNormal(out, arg)
<1>1. PICK X : IsSeqOf(arg, X)
  BY CalledWith
<1>2. PICK n \in Nat : arg \in [1..n -> X]
  BY <1>1 DEF IsSeqOf
<1>3. out = NormalizeSteps(arg)
  BY CalledWith
<1> DEFINE s == arg
           p == out
<1>4. s \in [1..n -> X] /\ s # None /\ p = NormalizeSteps(s)
  BY <1>2, <1>3
<1> HIDE DEF s, p
<1>5. IsNormal(p, s)
  BY <1>4, Normalized
<1> QED
  BY <1>5 DEF s, p

(* normalize_steps makes a path of whatever is stored, the known steps in  *)
(* the order stored, and leaves a path as it is; effective_steps leaves    *)
(* the path the relation of the model of the requests describes.           *)
THEOREM PathsAsStoredHolds == Spec => []PathsAsStored
<1>1. Called => PathsAsStored
  <2> SUFFICES ASSUME Called PROVE PathsAsStored
    OBVIOUS
  <2>1. ASSUME op = "normalize" PROVE out \in StepPaths /\ NormalizeSteps(out) = out
    <3>1. out \in StepPaths
      <4>1. CASE arg = None
        <5>1. out = NormalizeSteps(None)
          BY <2>1, <4>1, CalledWith
        <5> QED
          BY <5>1, DefaultIsPath DEF NormalizeSteps
      <4>2. CASE arg # None
        <5>1. IsNormal(out, arg)
          BY <2>1, <4>2, CalledNormal
        <5> QED
          BY <5>1 DEF IsNormal
      <4> QED
        BY <4>1, <4>2
    <3> QED
      BY <3>1, NormalizedTwice
  <2>2. ASSUME op = "normalize", arg # None
        PROVE  /\ Range(out) = (Range(arg) \cap StepKeys) \cup {"finance"}
               /\ \A k, l \in Range(out) \ {"site_manager", "finance"} :
                    Earlier(out, k, l) => FirstAt(arg, k) < FirstAt(arg, l)
    <3>1. IsNormal(out, arg)
      BY <2>2, CalledNormal
    <3>2. PICK n \in Nat : DOMAIN arg = 1..n
      <4>1. PICK X : IsSeqOf(arg, X)
        BY <2>2, CalledWith
      <4>2. PICK n \in Nat : arg \in [1..n -> X]
        BY <4>1 DEF IsSeqOf
      <4> QED
        BY <4>2
    <3>3. /\ out \in StepPaths
          /\ Range(out) = (Range(arg) \cap StepKeys) \cup {"finance"}
          /\ \A a, b \in DOMAIN out : out[a] \in OtherKeys /\ out[b] \in OtherKeys /\ a < b =>
               \E x \in DOMAIN arg : arg[x] = out[a] /\ \A y \in 1..x : arg[y] # out[b]
      BY <3>1 DEF IsNormal
    <3>4. ASSUME NEW k \in Range(out) \ {"site_manager", "finance"},
                 NEW l \in Range(out) \ {"site_manager", "finance"}, Earlier(out, k, l)
          PROVE  FirstAt(arg, k) < FirstAt(arg, l)
      <4>1. k \in OtherKeys /\ l \in OtherKeys /\ l \in Range(arg)
        BY <3>3 DEF OtherKeys
      <4>2. PICK a \in DOMAIN out, b \in DOMAIN out : a < b /\ out[a] = k /\ out[b] = l
        BY <3>4 DEF Earlier
      <4>3. PICK x \in DOMAIN arg : arg[x] = k /\ \A y \in 1..x : arg[y] # l
        BY <3>3, <4>1, <4>2
      <4>4. DOMAIN arg = 1..n
        BY <3>2
      <4>5. \E z \in 1..n : arg[z] = l
        BY <4>1, <4>4 DEF Range
      <4> QED
        BY <4>3, <4>4, <4>5, StoredFirst
    <3> QED
      BY <3>3, <3>4
  <2>3. ASSUME op = "effective"
        PROVE  /\ out \in StepPaths
               /\ IsEffectivePath(out, arg.steps, arg.guarantors, arg.emp, arg.person)
    <3>1. PICK s \in StepPaths, n \in Nat, e \in Employees, person \in Approvers :
            /\ arg = [steps |-> s, guarantors |-> n, emp |-> e, person |-> person]
            /\ out = EffectiveSteps(s, n, e, person)
      BY <2>3 DEF Called, Calls
    <3>2. arg.steps = s /\ arg.guarantors = n /\ arg.emp = e /\ arg.person = person
      BY <3>1
    <3>3. out \in StepPaths /\ IsEffectivePath(out, s, n, e, person)
      BY <3>1, Effective
    <3> QED
      BY <3>2, <3>3
  <2> QED
    BY <2>1, <2>2, <2>3 DEF PathsAsStored
<1> QED
  BY <1>1, RulesCalled, PTL

(* No row of a payslip pays two loans, every row pays a loan it fits, and  *)
(* no other way to take rows pays more of the loans.                       *)
THEOREM RowsWellTakenHolds == Spec => []RowsWellTaken
<1>1. Called => RowsWellTaken
  <2> SUFFICES ASSUME Called, op = "take" PROVE RowsWellTaken
    BY DEF RowsWellTaken
  <2>1. /\ \E X : IsSeqOf(arg.rows, X)
        /\ \E Y : IsSeqOf(arg.loans, Y)
        /\ out = TakePayslipRows(arg.rows, arg.loans, arg.named)
    BY Zenon DEF Called, Calls
  <2>2. PICK X : IsSeqOf(arg.rows, X)
    BY <2>1
  <2>3. PICK Y : IsSeqOf(arg.loans, Y)
    BY <2>1
  <2>4. PICK m \in Nat : arg.rows \in [1..m -> X]
    BY <2>2 DEF IsSeqOf
  <2>5. PICK n \in Nat : arg.loans \in [1..n -> Y]
    BY <2>3 DEF IsSeqOf
  <2>6. arg.rows \in Seq(X)
    BY <2>4, FunctionIsSeq
  <2>7. /\ out \in Givings(n, arg.loans, arg.rows, arg.named)
        /\ \A f \in Givings(n, arg.loans, arg.rows, arg.named) :
             Cardinality(Given(f, n)) <= Cardinality(Given(out, n))
    BY <2>1, <2>6, <2>5, WellTaken
  <2>8. Assignments = Givings(n, arg.loans, arg.rows, arg.named)
    <3>1. DOMAIN arg.loans = 1..n
      BY <2>5
    <3>2. \A f \in [1..n -> 0..Len(arg.rows)] : DOMAIN f = 1..n
      OBVIOUS
    <3> QED
      BY <3>1, <3>2 DEF Assignments, Givings, Fits, FitsLoan
  <2>9. \A f \in Assignments : {i \in DOMAIN f : f[i] # 0} = Given(f, n)
    <3>1. \A f \in Assignments : DOMAIN f = 1..n
      BY <2>8 DEF Givings
    <3> QED
      BY <3>1 DEF Given
  <2> QED
    BY <2>7, <2>8, <2>9 DEF RowsWellTaken
<1> QED
  BY <1>1, RulesCalled, PTL

(* Both forms of a payslip are read back as the loans that were written,   *)
(* in their order, but for those of which nothing was kept back.           *)
THEOREM LoansReadBackHolds == Spec => []LoansReadBack
<1>1. Called => LoansReadBack
  <2> SUFFICES ASSUME Called, op = "loans" PROVE LoansReadBack
    BY DEF LoansReadBack
  <2>1. /\ IsSeqOf(arg, LoanOf)
        /\ out \in {LoansByColumns(Written("columns", arg)),
                    LoansByNames(Append(Written("names", arg), TotalRow))}
    BY Zenon DEF Called, Calls
  <2>2. PICK n \in Nat : arg \in [1..n -> LoanOf]
    BY <2>1 DEF IsSeqOf
  <2>3. IsReadBack(LoansByColumns(Written("columns", arg)), arg)
    BY <2>2, ColumnsBack
  <2>4. IsReadBack(LoansByNames(Append(Written("names", arg), TotalRow)), arg)
    BY <2>2, BoundsAssumption, NamesBack DEF TotalRow
  <2>5. IsReadBack(out, arg)
    BY <2>1, <2>3, <2>4
  <2> QED
    BY <2>5 DEF IsReadBack, LoansReadBack
<1> QED
  BY <1>1, RulesCalled, PTL

-----------------------------------------------------------------------------
(* Who evaluates whom: everybody is evaluated by one person, whatever the  *)
(* administrators and the sync of employees do.                            *)

Leads == Staff \X Departments

StructureType ==
  structure \in [dept : [Staff -> Departments \cup {Nobody}],
                 supervisor : [Departments -> Staff \cup {Nobody}],
                 leads : SUBSET Leads,
                 shift : [Staff -> Leads \cup {Nobody}],
                 managers : SUBSET Staff,
                 managed : SUBSET (Staff \X Staff)]

(* Whoever has a shift lead has one that there is, and is none of that department. *)
ShiftsAreLed ==
  \A x \in Staff : structure.shift[x] # Nobody =>
    /\ structure.shift[x] \in structure.leads
    /\ <<x, structure.shift[x][2]>> \notin structure.leads

(* Nobody is on two lists, and no manager on his own. *)
OneList ==
  /\ \A m, n \in structure.managed : m[2] = n[2] => m = n
  /\ \A m \in structure.managed : m[1] # m[2]

StructureInv == StructureType /\ ShiftsAreLed /\ OneList

(* The empty structure of a new site satisfies the invariant. *)
LEMMA InitStructureInv == StructureInit => StructureInv
BY StructureAssumption
   DEF StructureInit, NoStructure, StructureInv, StructureType, ShiftsAreLed, OneList, Leads

(* Edits of supervisors and managers leave the shifts as they are. *)
LEMMA ManagersKeepInv ==
  ASSUME StructureInv,
         \/ \E d \in Departments, e \in Staff : SetDepartmentSupervisor(d, e)
         \/ \E d \in Departments : RemoveDepartmentSupervisor(d)
         \/ \E e \in Staff : AddManager(e) \/ RemoveManager(e)
         \/ \E e, x \in Staff : AddManagerTarget(e, x) \/ RemoveManagerTarget(e, x)
  PROVE  StructureInv'
<1> USE DEF StructureInv, StructureType, ShiftsAreLed, OneList
<1>1. CASE \E d \in Departments, e \in Staff : SetDepartmentSupervisor(d, e)
  BY <1>1 DEF SetDepartmentSupervisor
<1>2. CASE \E d \in Departments : RemoveDepartmentSupervisor(d)
  BY <1>2 DEF RemoveDepartmentSupervisor
<1>3. CASE \E e \in Staff : AddManager(e)
  BY <1>3 DEF AddManager
<1>4. CASE \E e \in Staff : RemoveManager(e)
  BY ZenonT(60), <1>4 DEF RemoveManager
<1>5. CASE \E e, x \in Staff : AddManagerTarget(e, x)
  BY <1>5 DEF AddManagerTarget
<1>6. CASE \E e, x \in Staff : RemoveManagerTarget(e, x)
  BY <1>6 DEF RemoveManagerTarget
<1> QED BY <1>1, <1>2, <1>3, <1>4, <1>5, <1>6

(* Edits of shift leads and of who has which, and the sync, leave the lists. *)
LEMMA ShiftsKeepInv ==
  ASSUME StructureInv,
         \/ \E d \in Departments, e \in Staff : AddShiftLead(d, e)
         \/ \E e \in Staff : RemoveShiftAssignment(e)
         \/ \E l \in structure.leads : RemoveShiftLead(l) \/ \E x \in Staff : SetShiftAssignment(x, l)
         \/ \E x \in Staff, d \in Departments \cup {Nobody} : SyncDepartment(x, d)
  PROVE  StructureInv'
<1> USE DEF StructureInv, StructureType, ShiftsAreLed, OneList, Leads
<1>1. CASE \E d \in Departments, e \in Staff : AddShiftLead(d, e)
  <2>1. PICK d \in Departments, e \in Staff : AddShiftLead(d, e)
    BY <1>1
  <2>2. /\ structure'.leads = structure.leads \cup {<<e, d>>}
        /\ structure'.shift = structure.shift /\ structure'.managed = structure.managed
    BY <2>1 DEF AddShiftLead
  <2>3. StructureType'
    BY <2>1 DEF AddShiftLead
  <2>4. ASSUME NEW x \in Staff, structure.shift[x] # Nobody
        PROVE  <<x, structure.shift[x][2]>> # <<e, d>>
    BY <2>1, <2>4 DEF AddShiftLead
  <2>5. ShiftsAreLed'
    BY <2>2, <2>4
  <2> QED BY <2>2, <2>3, <2>5
<1>2. CASE \E e \in Staff : RemoveShiftAssignment(e)
  BY <1>2 DEF RemoveShiftAssignment
<1>3. CASE \E l \in structure.leads : RemoveShiftLead(l)
  <2>1. PICK l \in structure.leads : RemoveShiftLead(l)
    BY <1>3
  <2>2. /\ structure'.leads = structure.leads \ {l}
        /\ structure'.managed = structure.managed
        /\ structure'.shift = [x \in Staff |-> IF structure.shift[x] = l THEN Nobody
                                             ELSE structure.shift[x]]
    BY <2>1 DEF RemoveShiftLead
  <2>3. StructureType'
    BY <2>1 DEF RemoveShiftLead
  <2>4. ShiftsAreLed'
    BY <2>2
  <2> QED BY <2>2, <2>3, <2>4
<1>4. CASE \E l \in structure.leads, x \in Staff : SetShiftAssignment(x, l)
  BY <1>4 DEF SetShiftAssignment
<1>5. CASE \E x \in Staff, d \in Departments \cup {Nobody} : SyncDepartment(x, d)
  BY <1>5 DEF SyncDepartment
<1> QED BY <1>1, <1>2, <1>3, <1>4, <1>5

(* Every step keeps the invariant. *)
LEMMA StepKeepsStructureInv ==
  ASSUME StructureInv, [StructureNext]_structure PROVE StructureInv'
<1>1. CASE UNCHANGED structure
  BY <1>1 DEF StructureInv, StructureType, ShiftsAreLed, OneList
<1>2. CASE StructureNext
  BY <1>2, ManagersKeepInv, ShiftsKeepInv DEF StructureNext
<1> QED BY <1>1, <1>2

(* What it means to evaluate somebody: as his manager; or, if he is on no  *)
(* list, as the supervisor of a department or as his shift lead.           *)
LEMMA EvaluatorsAre ==
  ASSUME StructureInv, NEW e \in Staff, NEW x \in Staff
  PROVE  Evaluates(structure, e, x) <=>
           /\ e # x
           /\ \/ <<e, x>> \in structure.managed
              \/ /\ \A f \in Staff : <<f, x>> \notin structure.managed
                 /\ \/ \E d \in Departments :
                         structure.supervisor[d] = e /\ x \in Supervised(structure, d, e)
                    \/ structure.shift[x] # Nobody /\ structure.shift[x][1] = e
<1>1. x \in {m[2] : m \in {m \in structure.managed : m[1] = e}} <=> <<e, x>> \in structure.managed
  BY DEF StructureInv, StructureType
<1>2. x \in {m[2] : m \in structure.managed} <=> \E f \in Staff : <<f, x>> \in structure.managed
  <2>1. ASSUME NEW m \in structure.managed, m[2] = x
        PROVE  \E f \in Staff : <<f, x>> \in structure.managed
    <3>1. PICK f \in Staff, y \in Staff : m = <<f, y>>
      BY <2>1 DEF StructureInv, StructureType
    <3> QED BY <2>1, <3>1
  <2>2. ASSUME NEW f \in Staff, <<f, x>> \in structure.managed
        PROVE  \E m \in structure.managed : m[2] = x
    <3> DEFINE m == <<f, x>>
    <3>1. m \in structure.managed /\ m[2] = x
      BY <2>2
    <3> QED BY <3>1
  <2> QED BY <2>1, <2>2
<1> QED BY <1>1, <1>2 DEF Evaluates, EvaluationTargets

(* In its department, a supervisor evaluates the leads and who has none. *)
LEMMA SupervisedAre ==
  ASSUME StructureInv, NEW d \in Departments, NEW e \in Staff, NEW x \in Staff
  PROVE  /\ x \in LeadsOf(structure, d) <=> <<x, d>> \in structure.leads
         /\ x \in Supervised(structure, d, e) <=>
              \/ <<x, d>> \in structure.leads
              \/ /\ x # e /\ structure.dept[x] = d
                 /\ \/ LeadsOf(structure, d) = {}
                    \/ structure.shift[x] = Nobody
                    \/ structure.shift[x][2] # d
<1>1. x \in LeadsOf(structure, d) <=> <<x, d>> \in structure.leads
  BY DEF LeadsOf, StructureInv, StructureType, Leads
<1> QED BY <1>1 DEF Supervised, Unassigned

(* The invariant gives what the property says. *)
LEMMA InvEvaluatedOnce == StructureInv => EvaluatedOnce
<1> SUFFICES ASSUME StructureInv, NEW x \in Staff
    PROVE LET managers == {e \in Staff : <<e, x>> \in structure.managed}
              d        == structure.dept[x]
          IN  /\ managers # {} => \A e \in Staff : Evaluates(structure, e, x) <=> e \in managers
              /\ managers = {} /\ d # Nobody /\ structure.supervisor[d] \notin {Nobody, x} =>
                   \E e \in {structure.supervisor[d]} \cup LeadsOf(structure, d) :
                     Evaluates(structure, e, x)
              /\ AtHome(structure, x) =>
                   \A e, f \in Staff :
                     Evaluates(structure, e, x) /\ Evaluates(structure, f, x) => e = f
  BY DEF EvaluatedOnce
<1> DEFINE managers == {e \in Staff : <<e, x>> \in structure.managed}
           d        == structure.dept[x]
           lead     == structure.shift[x]
<1>t. StructureType BY DEF StructureInv
<1>s. lead # Nobody => /\ lead \in structure.leads /\ lead \in Leads
                       /\ <<x, lead[2]>> \notin structure.leads
  BY <1>t DEF StructureInv, ShiftsAreLed, StructureType
<1>1. managers # {} => \A e \in Staff : Evaluates(structure, e, x) <=> e \in managers
  BY EvaluatorsAre DEF StructureInv, OneList
<1>2. ASSUME managers = {}, d # Nobody, structure.supervisor[d] \notin {Nobody, x}
      PROVE  \E e \in {structure.supervisor[d]} \cup LeadsOf(structure, d) :
               Evaluates(structure, e, x)
  <2> DEFINE chief == structure.supervisor[d]
  <2>1. d \in Departments /\ chief \in Staff /\ chief # x
    BY <1>2, <1>t DEF StructureType
  <2>2. CASE x \in Supervised(structure, d, chief)
    <3>1. \A f \in Staff : <<f, x>> \notin structure.managed
      BY <1>2
    <3>2. Evaluates(structure, chief, x)
      BY <2>1, <2>2, <3>1, EvaluatorsAre
    <3> QED BY <3>2
  <2>3. CASE x \notin Supervised(structure, d, chief)
    <3>1. lead # Nobody /\ lead[2] = d
      BY <2>1, <2>3, SupervisedAre
    <3>2. PICK e \in Staff : lead = <<e, d>>
      BY <3>1, <1>s DEF Leads
    <3>3. e \in LeadsOf(structure, d) /\ e # x
      BY <3>1, <3>2, <1>s, <2>1, SupervisedAre
    <3>4. lead[1] = e
      BY <3>2
    <3>5. \A f \in Staff : <<f, x>> \notin structure.managed
      BY <1>2
    <3>6. Evaluates(structure, e, x)
      BY <3>1, <3>3, <3>4, <3>5, EvaluatorsAre
    <3> QED BY <3>3, <3>6
  <2> QED BY <2>2, <2>3
<1>3. ASSUME AtHome(structure, x), NEW e \in Staff, NEW f \in Staff,
             Evaluates(structure, e, x), Evaluates(structure, f, x)
      PROVE  e = f
  <2>1. CASE managers # {}
    <3>1. <<e, x>> \in structure.managed /\ <<f, x>> \in structure.managed
      BY <2>1, <1>1, <1>3
    <3> QED BY <3>1 DEF StructureInv, OneList
  <2>2. CASE managers = {}
    <3> DEFINE ByChief(g) == \E k \in Departments :
                               structure.supervisor[k] = g /\ x \in Supervised(structure, k, g)
               ByLead(g) == lead # Nobody /\ lead[1] = g
    <3>1. \A g \in {e, f} : ByChief(g) \/ ByLead(g)
      BY <1>3, <2>2, EvaluatorsAre
    <3>2. ASSUME NEW g \in Staff, ByChief(g)
          PROVE  /\ d \in Departments /\ structure.supervisor[d] = g
                 /\ ~(lead # Nobody)
      <4>1. PICK k \in Departments :
              structure.supervisor[k] = g /\ x \in Supervised(structure, k, g)
        BY <3>2
      <4>2. k = d
        <5>1. CASE <<x, k>> \in structure.leads
          BY <5>1, <1>3 DEF AtHome
        <5>2. CASE <<x, k>> \notin structure.leads
          BY <5>2, <4>1, SupervisedAre
        <5> QED BY <5>1, <5>2
      <4>3. ASSUME lead # Nobody PROVE FALSE
        <5>1. lead[2] = d BY <4>3, <1>3 DEF AtHome
        <5>2. PICK h \in Staff : lead = <<h, d>> BY <5>1, <4>3, <1>s DEF Leads
        <5>3. <<h, d>> \in structure.leads /\ <<x, d>> \notin structure.leads
          BY <5>1, <5>2, <4>3, <1>s
        <5>4. LeadsOf(structure, d) # {}
          BY <5>3, <4>2, SupervisedAre
        <5> QED BY <5>1, <5>3, <5>4, <4>1, <4>2, <4>3, SupervisedAre
      <4> QED BY <4>1, <4>2, <4>3
    <3> QED BY <3>1, <3>2
  <2> QED BY <2>1, <2>2
<1> QED BY <1>1, <1>2, <1>3

(* Whatever administrators edit and the sync moves, everybody is evaluated *)
(* by the one person the rules mean.                                       *)
THEOREM EvaluatedOnceHolds == StructureSpec => []EvaluatedOnce
<1>1. StructureSpec => []StructureInv
  BY InitStructureInv, StepKeepsStructureInv, PTL DEF StructureSpec
<1> QED BY <1>1, InvEvaluatedOnce, PTL
=============================================================================
