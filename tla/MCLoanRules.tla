----------------------------- MODULE MCLoanRules -----------------------------
(***************************************************************************)
(* The rules of the loans and of the months of advances on all small       *)
(* inputs, each compared with what it is for: one step calls one function, *)
(* and op, arg and out are the call and its result.  And the rule of who   *)
(* evaluates whom, in every structure the administrators and the sync of   *)
(* employees can arrive at.                                                *)
(***************************************************************************)
EXTENDS LoanRules, AdvanceRules, EvaluationStructure

CONSTANTS MaxTotal,  \* bound: amounts of money
          MaxRows    \* bound: rows of a payslip, loans of an employee

ASSUME BoundsAssumption == MaxTotal \in Nat /\ MaxRows \in Nat

(* NULL is no list of steps, no number and no name. *)
ASSUME NoneIsNoPath == None \notin BoundedSeq(StepKeys \cup {"other"}, 5)
ASSUME NoneIsNoField == None \notin Nat /\ None # "loan"

VARIABLES op, arg, out

vars == <<op, arg, out, structure>>

Result(o, a, value) == op' = o /\ arg' = a /\ out' = value

Init == op \in {"none", "structure"} /\ arg = 0 /\ out = 0 /\ StructureInit

Stored == {None} \cup BoundedSeq(StepKeys \cup {"other"}, 4)

CallNormalize == \E s \in Stored : Result("normalize", s, NormalizeSteps(s))

CallEffective ==
  \E s \in StepPaths, n \in 0..1, e \in Employees, person \in Approvers :
    Result("effective", [steps |-> s, guarantors |-> n, emp |-> e, person |-> person],
           EffectiveSteps(s, n, e, person))

FirstMonths == [y : {1404}, m : {1, 11, 12}]

CallByCount ==
  \E total \in 0..MaxTotal, n \in 0..MaxInstallments + 1, first \in FirstMonths :
    Result("count", [total |-> total, by |-> n, first |-> first],
           InstallmentsByCount(total, n, first))

CallByAmount ==
  \E total, amount \in 0..MaxTotal, first \in FirstMonths :
    Result("amount", [total |-> total, by |-> amount, first |-> first],
           InstallmentsByAmount(total, amount, first))

Dates == [y : {1403, 1404}, m : {1, 2, 11, 12}, d : {1, 15, 16, 30}]

CallMonths == \E s, t \in Dates : Result("months", [from |-> s, to |-> t], MonthsBetween(s, t))

Loans == [name : {"loan"}, amount : {0, 1, 2}, remaining : {None, 0, 1}]

(* How a payslip of each form writes its loans. *)
RowsOf(form, loan) ==
  (IF form = "columns"
   THEN <<[label |-> "name", value |-> loan.name], [label |-> "amount", value |-> loan.amount]>>
   ELSE <<[label |-> loan.name, value |-> loan.amount]>>)
  \o (IF loan.remaining = None THEN <<>> ELSE <<[label |-> "remaining", value |-> loan.remaining]>>)

Written(form, loans) == FoldLeft(LAMBDA rows, loan : rows \o RowsOf(form, loan), <<>>, loans)

TotalRow == [label |-> "total", value |-> MaxTotal]

CallLoans ==
  \E loans \in BoundedSeq(Loans, MaxRows) :
    \/ Result("loans", loans, LoansByColumns(Written("columns", loans)))
    \/ Result("loans", loans, LoansByNames(Append(Written("names", loans), TotalRow)))

CallTake ==
  \E rows \in BoundedSeq([name : {"loan", "bank"}, amount : {1, 2}, remaining : {None, 0, 1}], MaxRows),
     loans \in BoundedSeq([amount : {1}, remaining : {0, 1}], MaxRows),
     named \in {{"loan"}, {"loan", "bank"}} :
    Result("take", [rows |-> rows, loans |-> loans, named |-> named],
           TakePayslipRows(rows, loans, named))

(* Days of four months around a new year, with the lengths they have. *)
Calendar ==
  [i \in 1..121 |->
     IF i <= 30 THEN [y |-> 1404, m |-> 11, d |-> i]
     ELSE IF i <= 59 THEN [y |-> 1404, m |-> 12, d |-> i - 30]
     ELSE IF i <= 90 THEN [y |-> 1405, m |-> 1, d |-> i - 59]
     ELSE [y |-> 1405, m |-> 2, d |-> i - 90]]

CallWindow ==
  \E from, to \in 1..31 :
    Result("window", [from |-> from, to |-> to],
           [i \in {j \in DOMAIN Calendar : InWindow(Calendar[j].d, from, to)} |->
              RequestMonth(Calendar[i], from, to)])

CallFunction ==
  /\ op = "none"
  /\ \/ CallNormalize \/ CallEffective \/ CallByCount \/ CallByAmount
     \/ CallMonths \/ CallLoans \/ CallTake \/ CallWindow
  /\ UNCHANGED structure

Next ==
  \/ CallFunction
  \/ op = "structure" /\ StructureNext /\ UNCHANGED <<op, arg, out>>

Spec == Init /\ [][Next]_vars

Symmetry == Permutations(Staff) \cup Permutations(Departments)

-----------------------------------------------------------------------------
FirstAt(s, k) == CHOOSE i \in DOMAIN s : s[i] = k /\ \A j \in DOMAIN s : s[j] = k => i <= j

(* A stored path becomes a path: the known steps it names and finance,     *)
(* each once, those before the site manager in the order they were stored; *)
(* the loop that leaves out the steps of one request leaves exactly the    *)
(* path of the relation IsEffectivePath, on which the model of the         *)
(* requests is built.                                                      *)
PathsAsStored ==
  /\ op \in {"normalize", "effective"} => out \in StepPaths
  /\ op = "normalize" => NormalizeSteps(out) = out
  /\ op = "normalize" /\ arg # None =>
       /\ Range(out) = (Range(arg) \cap StepKeys) \cup {"finance"}
       /\ \A k, l \in Range(out) \ {"site_manager", "finance"} :
            Earlier(out, k, l) => FirstAt(arg, k) < FirstAt(arg, l)
  /\ op = "effective" =>
       IsEffectivePath(out, arg.steps, arg.guarantors, arg.emp, arg.person)

AmountsOf(schedule) == [i \in DOMAIN schedule |-> schedule[i].amount]

TotalOf(amounts) == FoldLeft(LAMBDA a, b : a + b, 0, amounts)

AddsUp(plan, total, first, feasible) ==
  /\ plan = <<>> <=> feasible = {}
  /\ plan # <<>> =>
       /\ TotalOf(AmountsOf(plan)) = total
       /\ Len(plan) \in feasible
       /\ \A i \in DOMAIN plan :
            /\ plan[i].amount > 0
            /\ plan[i].due.m \in 1..12
            /\ plan[i].due.y * 12 + plan[i].due.m = first.y * 12 + first.m + i - 1

(* The installments add up to the loan, none is empty, they are due in     *)
(* consecutive months, and only a plan that cannot be met is refused.      *)
InstallmentsAddUp ==
  /\ op = "count" =>
       AddsUp(out, arg.total, arg.first,
              {n \in 1..MaxInstallments : n = arg.by /\ n <= arg.total})
  /\ op = "amount" =>
       AddsUp(out, arg.total, arg.first,
              {n \in 1..MaxInstallments :
                 arg.by > 0 /\ (n - 1) * arg.by < arg.total /\ arg.total <= n * arg.by})

(* Two days on which an advance may be asked for count for the same month  *)
(* exactly when no window opens between them, also over the new year and   *)
(* in a month too short for the day of opening; later days never count for *)
(* an earlier month.                                                       *)
OneMonthPerWindow ==
  op = "window" =>
    LET Number(i) == out[i].y * 12 + out[i].m
        Opens(i)  == \/ Calendar[i].d = arg.from
                     \/ Calendar[i].d = 1 /\ i > 1 /\ Calendar[i - 1].d < arg.from
        After(i)  == {j \in DOMAIN out : j > i}
    IN  \A i \in DOMAIN out : After(i) # {} =>
          LET n == CHOOSE j \in After(i) : \A k \in After(i) : j <= k
          IN  /\ Number(i) <= Number(n)
              /\ Number(i) = Number(n) <=> \A j \in i + 1..n : ~Opens(j)

(* The months of service are the monthly anniversaries that have passed.   *)
CompleteMonths ==
  op = "months" =>
    out = Cardinality({k \in 1..24 :
            LET m == (arg.to.y * 12 + arg.to.m) - (arg.from.y * 12 + arg.from.m)
            IN  IF k = m THEN arg.from.d <= arg.to.d ELSE k < m})

(* Both forms of a payslip are read back as the loans that were written,   *)
(* in their order, but for those of which nothing was kept back this month. *)
LoansReadBack ==
  op = "loans" =>
    LET kept == {i \in DOMAIN arg : arg[i].amount # 0}
    IN  /\ Len(out) = Cardinality(kept)
        /\ \A i \in kept : out[Cardinality({j \in kept : j <= i})] = arg[i]

Fits(row, loan) ==
  /\ row.amount = loan.amount
  /\ row.name \in arg.named
  /\ row.remaining \in {None, loan.remaining}

(* All ways to give loans rows that fit, no row to two loans. *)
Assignments ==
  {f \in [DOMAIN arg.loans -> 0..Len(arg.rows)] :
     \A i \in DOMAIN f : f[i] # 0 =>
       /\ Fits(arg.rows[f[i]], arg.loans[i])
       /\ \A j \in DOMAIN f : f[j] = f[i] => i = j}

(* No row of a payslip pays two loans, every row pays a loan it fits, and  *)
(* taking the loans one after the other pays as many as could be paid.     *)
RowsWellTaken ==
  op = "take" =>
    /\ out \in Assignments
    /\ \A f \in Assignments :
         Cardinality({i \in DOMAIN f : f[i] # 0}) <= Cardinality({i \in DOMAIN out : out[i] # 0})
==============================================================================
