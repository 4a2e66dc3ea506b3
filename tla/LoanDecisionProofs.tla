------------------------- MODULE LoanDecisionProofs -------------------------
(***************************************************************************)
(* What the provers establish of the decisions on a loan request: the      *)
(* order of its steps, who decides them, and what may not change once they *)
(* are decided; for every set of employees, every policy and every bound.  *)
(***************************************************************************)
EXTENDS LoanProofs

(* The inductive invariant, one request at a time.                         *)
Remaining(q) == RemainingSteps(q.steps, q.idx)

Walked(q) ==  \* done steps have their decisions, the others have none
  \A i \in DOMAIN q.steps :
    /\ i <= q.idx => Done(q, q.steps[i])
    /\ i > q.idx /\ q.steps[i] \in PersonSteps => q.by[q.steps[i]] = None

At(q) ==  \* the status says where on its path a request is
  /\ q.status \in PaidStatuses \cup {"waiting_finance"} => StepAt(q) = "finance"
  /\ q.status = "in_review" => StepAt(q) # "finance"

OnDesk(q) ==  \* cur is the stored approver of the step a request is at
  CurrentStep(q) \in PersonSteps => q.cur = q.appr[CurrentStep(q)]

ByOthers(q) ==  \* the requester is in nobody's place on his own path
  /\ q.emp \in Employees
  /\ \A k \in PersonSteps \cap Range(q.steps) : q.appr[k] # q.emp
  /\ \A k \in PersonSteps : q.by[k] # q.emp
  /\ \A i \in DOMAIN q.guar : q.guar[i].emp # q.emp

Distinct(q) ==
  \A i, j \in DOMAIN q.guar : q.guar[i].emp = q.guar[j].emp => i = j

Named(q, st) ==  \* the settings st name who is stored for the remaining steps
  \A k \in SiteSteps \cap Remaining(q) : st[k] \in {None, q.emp, q.appr[k]}

RowInv(q) ==
  /\ Walked(q) /\ At(q) /\ OnDesk(q) /\ Distinct(q)
  /\ q.status # "none" => ByOthers(q)

DecisionInv ==
  \A r \in Requests :
    RowInv(req[r]) /\ (req[r].status = "in_review" => Named(req[r], settings))

(* What the handlers promise of a request beyond the invariant.            *)
Stands(q, n) ==
  q.status # "none" =>
    /\ n.steps = q.steps /\ n.emp = q.emp
    /\ n.idx >= q.idx
    /\ \A k \in PersonSteps : q.by[k] # None => n.by[k] = q.by[k] /\ n.appr[k] = q.appr[k]
    /\ \A i \in DOMAIN q.guar : q.guar[i].status = "accepted" => n.guar[i] = q.guar[i]

Reached(n) ==
  CurrentStep(n) \in PersonSteps =>
    n.cur \in Usable \/ ~HasReplacement(n, CurrentStep(n), active)

Sound(q, n) ==
  /\ RowInv(n)
  /\ Stands(q, n)
  /\ CurrentStep(n) # CurrentStep(q) => Reached(n)

AllSound ==
  \A r \in Requests :
    /\ Sound(req[r], req'[r])
    /\ req'[r].status = "in_review" => Named(req'[r], settings')

-----------------------------------------------------------------------------
(* A path asks for a step once.                                            *)
LEMMA PathInjective ==
  ASSUME NEW p \in StepPaths, NEW i \in DOMAIN p, NEW j \in DOMAIN p, p[i] = p[j]
  PROVE  i = j
BY DEF StepPaths, IsInjective

LEMMA NoneIsNobody == None \notin Employees
BY NoneAssumption

(* The step a request is at is a step of its path, and the first of the    *)
(* remaining ones.                                                         *)
LEMMA StepOnPath ==
  ASSUME NEW q \in GoodRow
  PROVE  /\ q.steps \in StepPaths /\ q.idx \in Nat /\ q.idx + 1 \in DOMAIN q.steps
         /\ DOMAIN q.steps \subseteq Nat
         /\ StepAt(q) \in StepKeys /\ StepAt(q) = q.steps[q.idx + 1]
         /\ StepAt(q) \in PersonSteps => StepAt(q) \in Remaining(q)
         /\ Remaining(q) \subseteq PersonSteps \cap Range(q.steps)
<1>1. q.steps \in StepPaths /\ q.idx \in Nat /\ q.idx < Len(q.steps)
  BY DEF GoodRow, Row
<1>2. DOMAIN q.steps = 1..Len(q.steps) /\ Len(q.steps) \in Nat
  BY <1>1, PathShape
<1>3. q.idx + 1 \in DOMAIN q.steps
  BY <1>1, <1>2
<1>4. StepAt(q) \in StepKeys
  BY <1>1, <1>2, <1>3, PathShape DEF StepAt
<1> QED
  BY <1>1, <1>2, <1>3, <1>4 DEF StepAt, Remaining, RemainingSteps, Range

(* What remains is not decided yet.                                        *)
LEMMA RemainingOpen ==
  ASSUME NEW q \in GoodRow, Walked(q), NEW k \in Remaining(q)
  PROVE  q.by[k] = None
<1>1. PICK i \in DOMAIN q.steps : i > q.idx /\ q.steps[i] = k
  BY DEF Remaining, RemainingSteps
<1>2. k \in PersonSteps
  BY DEF Remaining, RemainingSteps
<1> QED
  BY <1>1, <1>2 DEF Walked

(* Whose desk a step comes to when the approvers of q are moved: only      *)
(* remaining steps change hands, to somebody who can act and is not the    *)
(* requester; a step whose replacement can act gets him unless it keeps    *)
(* its approver; and the step now takes its new approver on duty.          *)
HandedOver(q, n, now, act, st) ==
  /\ \A k \in PersonSteps :
       \/ n.appr[k] = q.appr[k]
       \/ k \in Remaining(q) /\ n.appr[k] \in (act \cap enabled) \ {q.emp}
  /\ \A k \in SiteSteps : n.appr[k] \in {q.appr[k], st[k]}
  /\ \A k \in SiteSteps \cap Remaining(q) :
       st[k] \in (act \cap enabled) \ {q.emp} => n.appr[k] = st[k]
  /\ /\ "unit_manager" \in Remaining(q)
     /\ q.appr["unit_manager"] \notin act \cap enabled
     /\ UnitManager(q.emp, act) \in (act \cap enabled) \ {q.emp}
     => n.appr["unit_manager"] = UnitManager(q.emp, act)
  /\ n.cur = IF now \in PersonSteps /\ n.appr[now] # q.appr[now]
             THEN n.appr[now] ELSE q.cur

LEMMA ReassignedApprovers ==
  ASSUME NEW q \in GoodRow, NEW now, NEW refresh \in BOOLEAN, NEW act,
         NEW st \in SiteSettings, enabled \subseteq Employees
  PROVE  HandedOver(q, Reassigned(q, now, refresh, act, st), now, act, st)
<1> DEFINE fresh   == Fresh(q, refresh, act, st)
           changes == PlanReassignment(q.steps, q.idx, q.appr, fresh, q.emp)
           a       == [k \in PersonSteps |-> IF k \in DOMAIN changes THEN changes[k] ELSE q.appr[k]]
           c       == IF now \in DOMAIN changes THEN changes[now] ELSE q.cur
<1>1. DOMAIN fresh = {l \in Remaining(q) :
                        l = "unit_manager" => refresh \/ q.appr["unit_manager"] \notin act \cap enabled}
  BY DEF Fresh, Remaining
<1>2. \A k \in DOMAIN fresh :
        fresh[k] = IF k = "unit_manager" THEN UnitManager(q.emp, act)
                   ELSE IF st[k] \in act \cap enabled THEN st[k] ELSE None
  BY DEF Fresh
<1>3. \A k \in DOMAIN fresh : fresh[k] \in (act \cap enabled) \cup {None}
  BY <1>2, UnitManagerCanAct
<1>4. DOMAIN changes = {l \in Remaining(q) \cap DOMAIN fresh :
                          fresh[l] \notin {None, q.emp, q.appr[l]}}
  BY DEF PlanReassignment, Remaining
<1>5. \A k \in DOMAIN changes : changes[k] = fresh[k]
  BY DEF PlanReassignment
<1>6. Remaining(q) \subseteq PersonSteps
  BY StepOnPath
<1>7. None \notin act \cap enabled
  BY NoneIsNobody
<1> DEFINE n == Reassigned(q, now, refresh, act, st)
<1>8. n.appr = a /\ n.cur = c
  BY DEF Reassigned, GoodRow, Row
<1> HIDE DEF n, changes, fresh
<1>9. \A k \in PersonSteps : n.appr[k] = IF k \in DOMAIN changes THEN fresh[k] ELSE q.appr[k]
  BY <1>5, <1>8
<1>10. \A k \in PersonSteps :
         \/ n.appr[k] = q.appr[k]
         \/ k \in Remaining(q) /\ n.appr[k] \in (act \cap enabled) \ {q.emp}
  BY <1>3, <1>4, <1>9
<1>11. \A k \in SiteSteps : n.appr[k] \in {q.appr[k], st[k]}
  BY <1>2, <1>4, <1>9 DEF SiteSteps, PersonSteps
<1>12. \A k \in SiteSteps \cap Remaining(q) :
         st[k] \in (act \cap enabled) \ {q.emp} => n.appr[k] = st[k]
  BY <1>1, <1>2, <1>4, <1>7, <1>9 DEF SiteSteps, PersonSteps
<1>13. /\ "unit_manager" \in Remaining(q)
       /\ q.appr["unit_manager"] \notin act \cap enabled
       /\ UnitManager(q.emp, act) \in (act \cap enabled) \ {q.emp}
       => n.appr["unit_manager"] = UnitManager(q.emp, act)
  BY <1>1, <1>2, <1>4, <1>7, <1>9 DEF PersonSteps
<1>14. n.cur = IF now \in PersonSteps /\ n.appr[now] # q.appr[now]
               THEN n.appr[now] ELSE q.cur
  BY <1>4, <1>5, <1>6, <1>8, <1>9
<1> QED
  BY <1>10, <1>11, <1>12, <1>13, <1>14 DEF n, HandedOver

-----------------------------------------------------------------------------
(* Moving the approvers of a request in review keeps the invariant and     *)
(* what was decided, and leaves it at the step it is at.                   *)
LEMMA ReassignedSound ==
  ASSUME NEW q \in GoodRow, RowInv(q), q.status = "in_review", NEW refresh \in BOOLEAN,
         NEW act, NEW st \in SiteSettings, enabled \subseteq Employees
  PROVE  LET n == Reassigned(q, CurrentStep(q), refresh, act, st)
         IN  RowInv(n) /\ Stands(q, n) /\ CurrentStep(n) = CurrentStep(q)
<1> DEFINE n == Reassigned(q, CurrentStep(q), refresh, act, st)
<1>1. n \in GoodRow /\ SameRequest(n, q) /\ n.status = q.status
  BY ReassignedRow
<1> HIDE DEF n
<1>2. HandedOver(q, n, CurrentStep(q), act, st)
  BY ReassignedApprovers DEF n
<1>3. CurrentStep(n) = CurrentStep(q) /\ StepAt(n) = StepAt(q)
  BY <1>1 DEF CurrentStep, StepAt, SameRequest
<1>4. Walked(n)
  BY <1>1 DEF RowInv, Walked, Done, SameRequest
<1>5. At(n)
  BY <1>1, <1>3 DEF RowInv, At
<1>6. OnDesk(n)
  BY <1>2, <1>3 DEF RowInv, OnDesk, HandedOver
<1>7. Distinct(n)
  BY <1>1 DEF RowInv, Distinct, SameRequest
<1>8. ByOthers(n)
  BY <1>1, <1>2 DEF RowInv, ByOthers, SameRequest, HandedOver
<1>9. Stands(q, n)
  <2>1. ASSUME NEW k \in PersonSteps, q.by[k] # None
        PROVE  n.by[k] = q.by[k] /\ n.appr[k] = q.appr[k]
    BY <1>1, <1>2, <2>1, RemainingOpen DEF RowInv, SameRequest, HandedOver
  <2>2. n.idx >= q.idx
    BY <1>1 DEF SameRequest, GoodRow, Row
  <2> QED
    BY <1>1, <2>1, <2>2 DEF Stands, SameRequest
<1> QED
  BY <1>3, <1>4, <1>5, <1>6, <1>7, <1>8, <1>9 DEF RowInv, n

(* A request that comes to a step: it is given to the approver of that     *)
(* step, who can act if anybody can, and the steps behind stay as they are. *)
LEMMA EnteredSound ==
  ASSUME Typed, NEW q \in GoodRow, Walked(q), ByOthers(q), Distinct(q), Named(q, settings)
  PROVE  LET n == Entered(q)
         IN  /\ RowInv(n) /\ Named(n, settings) /\ Reached(n)
             /\ SameRequest(n, q)
             /\ \A k \in PersonSteps : n.appr[k] = q.appr[k] \/ k \in Remaining(q)
<1> DEFINE n == Entered(q)
           k == StepAt(q)
<1>1. /\ active \subseteq Employees /\ enabled \subseteq Employees /\ settings \in SiteSettings
  BY DEF Typed
<1>2. /\ n \in GoodRow /\ SameRequest(n, q)
      /\ n.status = IF k = "finance" THEN "waiting_finance" ELSE "in_review"
  BY <1>1, EnteredRow
<1>3. k \in StepKeys /\ (k \in PersonSteps => k \in Remaining(q)) /\ Remaining(q) \subseteq PersonSteps
  BY StepOnPath
<1>4. q \in Row
  BY DEF GoodRow
<1>5. StepAt(n) = k /\ Remaining(n) = Remaining(q)
  BY <1>2 DEF SameRequest, StepAt, Remaining
<1>6. Walked(n) /\ Distinct(n)
  BY <1>2 DEF SameRequest, Walked, Done, Distinct
<1>7. At(n)
  BY <1>2, <1>5 DEF At, PaidStatuses
<1>8. CurrentStep(n) = IF k = "finance" THEN "none" ELSE k
  BY <1>2, <1>5 DEF CurrentStep
<1>9. /\ \A l \in PersonSteps :
           \/ n.appr[l] = q.appr[l]
           \/ l \in Remaining(q) /\ n.appr[l] # q.emp
      /\ Named(n, settings)
      /\ k \in PersonSteps =>
           n.cur = n.appr[k] /\ (n.cur \in Usable \/ ~HasReplacement(n, k, active))
  <2>1. CASE k = "finance" \/ k = "guarantors"
    <3>1. n.appr = q.appr
      BY <1>4, <2>1 DEF Entered, Row
    <3> QED
      BY <1>2, <1>5, <2>1, <3>1 DEF Named, SameRequest, PersonSteps
  <2>2. CASE k \in PersonSteps
    <3> DEFINE u == WithUsableApprover(q, k)
    <3>1. n = [u EXCEPT !.status = "in_review", !.cur = u.appr[k]]
      BY <2>2 DEF Entered, PersonSteps
    <3>2. CASE q.appr[k] \in Usable /\ (k \in SiteSteps => settings[k] \in {None, q.appr[k]})
      <4>1. u = q
        BY <3>2 DEF WithUsableApprover
      <4>2. n.appr = q.appr /\ n.cur = q.appr[k]
        BY <1>4, <3>1, <4>1 DEF Row
      <4> QED
        BY <1>2, <1>5, <3>2, <4>2 DEF Named, SameRequest
    <3>3. CASE ~(q.appr[k] \in Usable /\ (k \in SiteSteps => settings[k] \in {None, q.appr[k]}))
      <4> DEFINE m == Reassigned(q, "none", FALSE, active, settings)
      <4>1. u = m
        BY <3>3 DEF WithUsableApprover
      <4>2. m \in GoodRow
        BY <1>1, ReassignedRow
      <4>3. HandedOver(q, m, "none", active, settings)
        BY <1>1, ReassignedApprovers
      <4> HIDE DEF m, u
      <4>4. n.appr = m.appr /\ n.cur = m.appr[k]
        BY <3>1, <4>1, <4>2 DEF GoodRow, Row
      <4>5. Named(n, settings)
        BY <1>2, <1>5, <4>3, <4>4 DEF Named, SameRequest, HandedOver
      <4>6. n.emp = q.emp
        BY <1>2 DEF SameRequest
      <4>7. HasReplacement(n, k, active) => n.cur \in Usable
        <5>1. CASE k \in SiteSteps
          BY <1>3, <2>2, <4>3, <4>4, <4>6, <5>1
          DEF HasReplacement, Replacement, Usable, SiteSteps, HandedOver
        <5>2. CASE k = "unit_manager"
          <6>1. q.appr[k] \notin Usable
            BY <3>3, <5>2 DEF SiteSteps
          <6> QED
            BY <1>3, <2>2, <4>3, <4>4, <4>6, <5>2, <6>1
            DEF HasReplacement, Replacement, Usable, HandedOver
        <5> QED
          BY <2>2, <5>1, <5>2 DEF PersonSteps, SiteSteps
      <4> QED
        BY <4>3, <4>4, <4>5, <4>7 DEF HandedOver
    <3> QED
      BY <3>2, <3>3
  <2> QED
    BY <1>3, <2>1, <2>2 DEF StepKeys
<1> HIDE DEF n
<1>10. ByOthers(n)
  BY <1>2, <1>9 DEF ByOthers, SameRequest
<1>11. OnDesk(n) /\ Reached(n)
  BY <1>8, <1>9 DEF OnDesk, Reached, PersonSteps
<1>12. RowInv(n)
  BY <1>6, <1>7, <1>10, <1>11 DEF RowInv
<1>13. \A l \in PersonSteps : n.appr[l] = q.appr[l] \/ l \in Remaining(q)
  BY <1>9
<1> QED
  BY <1>2, <1>9, <1>11, <1>12, <1>13 DEF n

-----------------------------------------------------------------------------
(* A request that is left alone. *)
LEMMA KeptSound ==
  ASSUME NEW q \in GoodRow, RowInv(q)
  PROVE  Sound(q, q)
<1>1. q.idx \in Nat
  BY DEF GoodRow, Row
<1> QED
  BY <1>1 DEF Sound, Stands

(* Saving one row: the others stay as they are, and so do the approvers    *)
(* that the settings name.                                                 *)
LEMMA SaveSound ==
  ASSUME Typed, DecisionInv, NEW r \in Requests, NEW n, Save(r, n) \/ SaveInQueue(r, n),
         Sound(req[r], n), n.status = "in_review" => Named(n, settings)
  PROVE  AllSound
<1>1. req'[r] = n /\ \A s \in Requests \ {r} : req'[s] = req[s]
  BY DEF Save, SaveInQueue, Typed
<1>2. \A k \in SiteSteps : settings'[k] = settings[k]
  BY DEF Save, SaveInQueue, Typed, SiteSettings, SiteSteps
<1>3. ASSUME NEW q, Named(q, settings)
      PROVE  Named(q, settings')
  BY <1>2, <1>3 DEF Named
<1>4. ASSUME NEW s \in Requests \ {r}
      PROVE  Sound(req[s], req'[s]) /\ (req'[s].status = "in_review" => Named(req'[s], settings))
  <2>1. req[s] \in GoodRow /\ RowInv(req[s])
        /\ (req[s].status = "in_review" => Named(req[s], settings))
    BY DEF Typed, DecisionInv
  <2> QED
    BY <1>1, <2>1, KeptSound
<1> QED
  BY <1>1, <1>3, <1>4 DEF AllSound

(* A step is decided and the request goes to the next one. *)
LEMMA AdvancedSound ==
  ASSUME Typed, DecisionInv, NEW r \in Requests, NEW q \in GoodRow,
         req[r].status = "in_review", q.status = "in_review",
         q.steps = req[r].steps, q.idx = req[r].idx, q.emp = req[r].emp, q.appr = req[r].appr,
         \A k \in PersonSteps : k # StepAt(q) => q.by[k] = req[r].by[k],
         DOMAIN q.guar = DOMAIN req[r].guar,
         \A i \in DOMAIN req[r].guar :
           req[r].guar[i].status = "accepted" => q.guar[i] = req[r].guar[i],
         Done(q, StepAt(q)), ByOthers(q), Distinct(q)
  PROVE  Sound(req[r], Advanced(q)) /\ Named(Advanced(q), settings)
<1> DEFINE n == [q EXCEPT !.idx = q.idx + 1]
           m == Entered(n)
<1>1. req[r] \in GoodRow /\ RowInv(req[r]) /\ Named(req[r], settings)
  BY DEF Typed, DecisionInv
<1>2. /\ q.steps \in StepPaths /\ q.idx \in Nat /\ q.idx + 1 \in DOMAIN q.steps
      /\ DOMAIN q.steps \subseteq Nat /\ StepAt(q) = q.steps[q.idx + 1]
  BY StepOnPath
<1>3. StepAt(q) # "finance"
  BY <1>1 DEF RowInv, At, StepAt
<1>4. q.idx + 1 # Len(q.steps) /\ DOMAIN q.steps = 1..Len(q.steps) /\ Len(q.steps) \in Nat
  BY <1>2, <1>3, PathShape
<1>5. /\ n \in GoodRow /\ n.steps = q.steps /\ n.idx = q.idx + 1 /\ n.emp = q.emp
      /\ n.appr = q.appr /\ n.by = q.by /\ n.guar = q.guar
  BY SMTT(30), <1>2, <1>4 DEF GoodRow, Row
<1>6. Advanced(q) = m
  BY DEF Advanced
<1> HIDE DEF n
<1>7. Walked(n)
  <2>1. ASSUME NEW i \in DOMAIN q.steps, i <= q.idx
        PROVE  Done(q, q.steps[i])
    <3>1. Done(req[r], q.steps[i])
      BY <1>1, <2>1 DEF RowInv, Walked
    <3>2. q.steps[i] # StepAt(q)
      BY <1>2, <2>1, PathInjective
    <3>3. q.steps[i] \in PersonSteps => q.by[q.steps[i]] = req[r].by[q.steps[i]]
      BY <3>2
    <3> QED
      BY <3>1, <3>3 DEF Done
  <2>2. ASSUME NEW i \in DOMAIN q.steps, i > q.idx + 1, q.steps[i] \in PersonSteps
        PROVE  q.by[q.steps[i]] = None
    <3>1. q.steps[i] # StepAt(q)
      BY <1>2, <2>2, PathInjective
    <3>2. i > req[r].idx
      BY <1>2, <2>2
    <3>3. req[r].by[q.steps[i]] = None
      BY <1>1, <2>2, <3>2 DEF RowInv, Walked
    <3> QED
      BY <2>2, <3>1, <3>3
  <2>3. ASSUME NEW i \in DOMAIN q.steps, i <= q.idx + 1
        PROVE  Done(q, q.steps[i])
    <3>1. i <= q.idx \/ i = q.idx + 1
      BY <1>2, <2>3
    <3> QED
      BY <1>2, <2>1, <3>1
  <2>4. \A k : Done(n, k) <=> Done(q, k)
    BY <1>5 DEF Done
  <2> QED
    BY <1>5, <2>2, <2>3, <2>4 DEF Walked
<1>8. ByOthers(n) /\ Distinct(n)
  BY <1>5 DEF ByOthers, Distinct
<1>9. Remaining(n) \subseteq Remaining(q) /\ Remaining(q) = Remaining(req[r])
  BY <1>2, <1>5 DEF Remaining, RemainingSteps
<1>10. Named(n, settings)
  BY <1>1, <1>5, <1>9 DEF Named
<1>11. /\ RowInv(m) /\ Named(m, settings) /\ Reached(m) /\ SameRequest(m, n)
       /\ \A k \in PersonSteps : m.appr[k] = n.appr[k] \/ k \in Remaining(n)
  BY <1>5, <1>7, <1>8, <1>10, EnteredSound
<1> HIDE DEF m
<1>12. Stands(req[r], m)
  <2>1. /\ m.steps = req[r].steps /\ m.emp = req[r].emp /\ m.idx = q.idx + 1
        /\ m.by = q.by /\ m.guar = q.guar
    BY <1>5, <1>11 DEF SameRequest
  <2>2. m.idx >= req[r].idx
    BY <1>2, <2>1
  <2>3. ASSUME NEW k \in PersonSteps, req[r].by[k] # None
        PROVE  m.by[k] = req[r].by[k] /\ m.appr[k] = req[r].appr[k]
    <3>1. k \notin Remaining(req[r])
      BY <1>1, <2>3, RemainingOpen DEF RowInv
    <3>2. StepAt(q) = StepAt(req[r])
      BY DEF StepAt
    <3>3. k # StepAt(q)
      BY <1>1, <3>1, <3>2, <2>3, StepOnPath
    <3> QED
      BY <1>5, <1>9, <1>11, <2>1, <2>3, <3>1, <3>3
  <2>4. \A i \in DOMAIN req[r].guar :
          req[r].guar[i].status = "accepted" => m.guar[i] = req[r].guar[i]
    BY <2>1
  <2> QED
    BY <2>1, <2>2, <2>3, <2>4 DEF Stands
<1> QED
  BY <1>6, <1>11, <1>12 DEF Sound

(* A request that leaves the review or is past it: nothing is decided.     *)
LEMMA OutOfReviewSound ==
  ASSUME NEW q \in GoodRow, NEW n, RowInv(q), q.status # "none",
         n.steps = q.steps, n.idx = q.idx, n.emp = q.emp, n.appr = q.appr, n.by = q.by,
         n.guar = q.guar, n.status # "in_review",
         n.status \in PaidStatuses \cup {"waiting_finance"} => StepAt(q) = "finance"
  PROVE  Sound(q, n)
<1>1. CurrentStep(n) = "none" /\ "none" \notin PersonSteps
  BY DEF CurrentStep, PersonSteps
<1>2. Walked(n) /\ Distinct(n) /\ ByOthers(n)
  BY DEF RowInv, Walked, Done, Distinct, ByOthers
<1>3. At(n)
  BY DEF At, StepAt
<1>4. RowInv(n)
  BY <1>1, <1>2, <1>3 DEF RowInv, OnDesk
<1>5. n.idx >= q.idx
  BY DEF GoodRow, Row
<1>6. Stands(q, n)
  BY <1>5 DEF Stands
<1> QED
  BY <1>1, <1>4, <1>6 DEF Sound, Reached

LEMMA ClosedSound ==
  ASSUME NEW q \in GoodRow, RowInv(q), IsOpen(q), NEW status \in ClosedStatuses
  PROVE  Sound(q, Closed(q, status)) /\ Closed(q, status).status # "in_review"
<1> DEFINE n == Closed(q, status)
<1>1. /\ n.status = status /\ n.steps = q.steps /\ n.idx = q.idx /\ n.emp = q.emp
      /\ n.appr = q.appr /\ n.by = q.by /\ n.guar = q.guar
  BY DEF Closed, GoodRow, Row
<1> HIDE DEF n
<1>2. q.status # "none" /\ n.status \notin PaidStatuses \cup {"waiting_finance", "in_review"}
  BY <1>1 DEF IsOpen, OpenStatuses, ClosedStatuses, PaidStatuses
<1> QED
  BY <1>1, <1>2, OutOfReviewSound DEF n

(* The path of a request asks for steps of the rules it was made under.    *)
LEMMA StepsOfPolicy ==
  ASSUME NEW path \in StepPaths, NEW steps \in StepPaths, NEW count \in Nat, NEW e, NEW person,
         IsEffectivePath(path, steps, count, e, person)
  PROVE  \A k \in PersonSteps \cap Range(path) : k \in Range(steps) /\ person[k] # e
<1> DEFINE w == WithGuarantors(steps, count)
<1>1. Range(path) = {k \in Range(w) : Asked(w, count, e, person, k)}
  BY DEF IsEffectivePath
<1>2. \A k \in PersonSteps \cap Range(w) : k \in Range(steps)
  <2>1. CASE w = steps
    BY <2>1
  <2>2. CASE w = <<"guarantors">> \o steps
    <3>1. steps \in Seq(StepKeys) /\ Len(steps) \in Nat /\ DOMAIN steps = 1..Len(steps)
      BY PathShape
    <3> HIDE DEF w
    <3> SUFFICES ASSUME NEW i \in DOMAIN w, w[i] \in PersonSteps
                 PROVE  w[i] \in Range(steps)
      BY DEF Range
    <3>2. i \in 1..(1 + Len(steps)) /\ w[i] = IF i = 1 THEN "guarantors" ELSE steps[i - 1]
      BY <2>2, <3>1 DEF StepKeys
    <3>3. i # 1
      BY <3>2 DEF PersonSteps
    <3>4. i - 1 \in DOMAIN steps /\ w[i] = steps[i - 1]
      BY <3>1, <3>2, <3>3
    <3> QED
      BY <3>4 DEF Range
  <2> QED
    BY <2>1, <2>2 DEF WithGuarantors
<1> HIDE DEF w
<1> QED
  BY <1>1, <1>2 DEF Asked

LEMMA SubmitSound ==
  ASSUME Typed, DecisionInv, NEW r \in Requests, NEW e \in Employees, NEW t \in LoanTypes,
         NEW gs \in SUBSET Employees, Submit(r, e, t, gs)
  PROVE  AllSound
<1> DEFINE need   == Type[t].guarantors
           person == [k \in PersonSteps |->
                        IF k \notin Range(policy.steps) THEN None
                        ELSE IF k = "unit_manager" THEN UnitManager(e, active)
                        ELSE settings[k]]
           guar(order) == [i \in 1..need |-> [emp |-> order[i], status |-> "pending"]]
           new(path, order) == [NoRow EXCEPT
             !.emp = e, !.type = t, !.steps = path, !.appr = person,
             !.outOfQueue = Type[t].outOfQueue, !.guar = guar(order)]
<1>1. PICK path \in StepPaths, order \in {f \in [1..need -> gs] : IsInjective(f)} :
        /\ IsEffectivePath(path, policy.steps, need, e, person)
        /\ SaveInQueue(r, Entered(new(path, order)))
  BY DEF Submit
<1> DEFINE q == new(path, order)
<1>2. person \in Approvers
  BY UnitManagerCanAct DEF Typed, SiteSettings, Approvers, PersonSteps, Maybe
<1>3. need \in Nat /\ Type[t].outOfQueue \in BOOLEAN /\ policy.steps \in StepPaths
  BY LoanAssumption DEF Typed
<1>4. guar(order) \in Seq(Guarantor) /\ DOMAIN guar(order) = 1..need
      /\ \A i \in 1..need : guar(order)[i].emp = order[i]
  <2>1. guar(order) \in [1..need -> Guarantor]
    BY <1>1 DEF Guarantor
  <2>2. DOMAIN guar(order) = 1..need /\ \A i \in 1..need : guar(order)[i].emp = order[i]
    OBVIOUS
  <2> HIDE DEF guar
  <2> QED
    BY <1>3, <2>1, <2>2
<1>5. \A k \in PersonSteps \cap Range(path) : k \in Range(policy.steps) /\ person[k] # e
  BY <1>1, <1>3, StepsOfPolicy
<1>6. \A k \in SiteSteps \cap Range(path) : person[k] = settings[k]
  BY <1>5 DEF SiteSteps, PersonSteps
<1> HIDE DEF person, guar
<1>7. 0 < Len(path)
  BY PathShape
<1>8. /\ q \in GoodRow /\ q.emp = e /\ q.steps = path /\ q.idx = 0 /\ q.appr = person
      /\ q.by = NoOne /\ q.guar = guar(order)
  BY <1>2, <1>3, <1>4, <1>7, FreshRow DEF NoRow, GoodRow, Row, Maybe
<1>9. SaveInQueue(r, Entered(q))
  BY <1>1
<1> HIDE DEF q
<1>10. Walked(q)
  <2>1. \A i \in DOMAIN q.steps : ~(i <= q.idx)
    BY <1>8, PathShape
  <2> QED
    BY <1>8, <2>1 DEF Walked, NoOne
<1>11. ByOthers(q)
  <2>1. \A g \in gs : g # e
    BY DEF Submit, MayGuarantee
  <2> QED
    BY <1>1, <1>4, <1>5, <1>8, <2>1, NoneIsNobody DEF ByOthers, NoOne
<1>12. Distinct(q)
  BY <1>1, <1>4, <1>8 DEF Distinct, IsInjective
<1>13. Named(q, settings)
  BY <1>6, <1>8, StepOnPath DEF Named
<1>14. /\ RowInv(Entered(q)) /\ Named(Entered(q), settings) /\ Reached(Entered(q))
  BY <1>8, <1>10, <1>11, <1>12, <1>13, EnteredSound
<1>15. Sound(req[r], Entered(q))
  BY <1>14 DEF Sound, Stands, Submit, FreeId
<1> QED
  BY <1>9, <1>14, <1>15, SaveSound

LEMMA CancelSound ==
  ASSUME Typed, DecisionInv, NEW r \in Requests, Cancel(r) \/ FinanceReject(r) \/ (\E e : Reject(r, e))
  PROVE  AllSound
<1>1. PICK status \in ClosedStatuses : IsOpen(req[r]) /\ Save(r, Closed(req[r], status))
  BY DEF Cancel, FinanceReject, Reject, CurrentStep, PersonSteps, IsOpen, OpenStatuses,
     ClosedStatuses
<1>2. req[r] \in GoodRow /\ RowInv(req[r])
  BY DEF Typed, DecisionInv
<1> QED
  BY <1>1, <1>2, ClosedSound, SaveSound

(* Another guarantor for one who did not accept. *)
LEMMA ReplaceGuarantorSound ==
  ASSUME Typed, DecisionInv, NEW r \in Requests, NEW i \in DOMAIN req[r].guar,
         NEW g \in Employees, ReplaceGuarantor(r, i, g)
  PROVE  AllSound
<1> DEFINE q    == req[r]
           guar == [q.guar EXCEPT ![i] = [emp |-> g, status |-> "pending"]]
           n    == [q EXCEPT !.guar = guar]
<1>1. q \in GoodRow /\ RowInv(q) /\ (q.status = "in_review" => Named(q, settings))
  BY DEF Typed, DecisionInv
<1>2. /\ q.status = "in_review" /\ StepAt(q) = "guarantors" /\ q.guar[i].status # "accepted"
      /\ g # q.emp /\ \A j \in DOMAIN q.guar \ {i} : q.guar[j].emp # g
      /\ Save(r, n)
  BY DEF ReplaceGuarantor, CurrentStep, MayGuarantee
<1>3. /\ DOMAIN guar = DOMAIN q.guar /\ guar[i].emp = g
      /\ \A j \in DOMAIN q.guar \ {i} : guar[j] = q.guar[j]
  OBVIOUS
<1>4. /\ n.status = q.status /\ n.steps = q.steps /\ n.idx = q.idx /\ n.emp = q.emp
      /\ n.appr = q.appr /\ n.by = q.by /\ n.guar = guar /\ n.cur = q.cur
  BY <1>1 DEF GoodRow, Row
<1> HIDE DEF n, guar
<1>5. CurrentStep(n) = CurrentStep(q) /\ StepAt(n) = StepAt(q)
  BY <1>4 DEF CurrentStep, StepAt
<1>6. Walked(n)
  <2>1. \A j \in DOMAIN q.steps : j <= q.idx => q.steps[j] # "guarantors"
    BY <1>1, <1>2, StepOnPath, PathInjective DEF StepAt
  <2> QED
    BY <1>1, <1>4, <2>1 DEF RowInv, Walked, Done
<1>7. ByOthers(n)
  BY <1>1, <1>2, <1>3, <1>4 DEF RowInv, ByOthers
<1>8. Distinct(n)
  BY <1>1, <1>2, <1>3, <1>4 DEF RowInv, Distinct
<1>9. RowInv(n) /\ Named(n, settings)
  BY <1>1, <1>2, <1>4, <1>5, <1>6, <1>7, <1>8
  DEF RowInv, At, OnDesk, Named, Remaining
<1>10. Stands(q, n)
  <2>1. n.idx >= q.idx
    BY <1>1, <1>4 DEF GoodRow, Row
  <2>2. \A j \in DOMAIN q.guar : q.guar[j].status = "accepted" => n.guar[j] = q.guar[j]
    BY <1>2, <1>3, <1>4
  <2> QED
    BY <1>4, <2>1, <2>2 DEF Stands
<1>11. Sound(q, n)
  BY <1>5, <1>9, <1>10 DEF Sound
<1> HIDE DEF q
<1> QED
  BY <1>2, <1>9, <1>11, SaveSound DEF q

(* A guarantor answers; the last of them to accept lets the request go on. *)
LEMMA GuaranteeDecideSound ==
  ASSUME Typed, DecisionInv, NEW r \in Requests, NEW i \in DOMAIN req[r].guar,
         NEW accept \in BOOLEAN, GuaranteeDecide(r, i, accept)
  PROVE  AllSound
<1> DEFINE q      == req[r]
           answer == IF accept THEN "accepted" ELSE "rejected"
           new    == [q.guar[i] EXCEPT !.status = answer]
           guar   == [q.guar EXCEPT ![i] = new]
           d      == [q EXCEPT !.guar = guar]
<1>1. q \in GoodRow /\ RowInv(q) /\ (q.status = "in_review" => Named(q, settings))
  BY DEF Typed, DecisionInv
<1>2. q.guar \in Seq(Guarantor)
  BY <1>1 DEF GoodRow, Row
<1>3. new \in Guarantor /\ new.emp = q.guar[i].emp /\ new.status = answer
  <2>1. q.guar[i] \in Guarantor
    BY <1>2
  <2>2. answer \in {"pending", "accepted", "rejected"}
    OBVIOUS
  <2> HIDE DEF answer
  <2> QED
    BY <2>1, <2>2 DEF Guarantor
<1>4. /\ q.status = "in_review" /\ StepAt(q) = "guarantors" /\ q.guar[i].status = "pending"
      /\ \/ SaveInQueue(r, d)
         \/ /\ \A j \in DOMAIN q.guar : d.guar[j].status = "accepted"
            /\ SaveInQueue(r, Advanced(d))
  BY DEF GuaranteeDecide, CurrentStep
<1> HIDE DEF new
<1>5. /\ DOMAIN guar = DOMAIN q.guar /\ guar[i] = new /\ guar \in Seq(Guarantor)
      /\ \A j \in DOMAIN q.guar \ {i} : guar[j] = q.guar[j]
  BY <1>2, <1>3
<1> HIDE DEF guar
<1>6. /\ d \in GoodRow /\ d.status = q.status /\ d.steps = q.steps /\ d.idx = q.idx
      /\ d.emp = q.emp /\ d.appr = q.appr /\ d.by = q.by /\ d.guar = guar /\ d.cur = q.cur
  BY <1>1, <1>5 DEF GoodRow, Row
<1> HIDE DEF d
<1>7. CurrentStep(d) = CurrentStep(q) /\ StepAt(d) = StepAt(q)
  BY <1>6 DEF CurrentStep, StepAt
<1>8. ByOthers(d)
  BY <1>1, <1>3, <1>4, <1>5, <1>6 DEF RowInv, ByOthers
<1>9. Distinct(d)
  <2>1. \A j \in DOMAIN q.guar : guar[j].emp = q.guar[j].emp
    BY <1>3, <1>5
  <2> QED
    BY <1>1, <1>5, <1>6, <2>1 DEF RowInv, Distinct
<1>10. \A j \in DOMAIN q.guar : q.guar[j].status = "accepted" => d.guar[j] = q.guar[j]
  BY <1>4, <1>5, <1>6
<1>11. CASE SaveInQueue(r, d)
  <2>1. Walked(d)
    <3>1. \A j \in DOMAIN q.steps : j <= q.idx => q.steps[j] # "guarantors"
      BY <1>1, <1>4, StepOnPath, PathInjective DEF StepAt
    <3> QED
      BY <1>1, <1>6, <3>1 DEF RowInv, Walked, Done
  <2>2. RowInv(d) /\ Named(d, settings)
    BY <1>1, <1>4, <1>6, <1>7, <1>8, <1>9, <2>1 DEF RowInv, At, OnDesk, Named, Remaining
  <2>3. d.idx >= q.idx
    BY <1>1, <1>6 DEF GoodRow, Row
  <2>4. Sound(q, d)
    BY <1>6, <1>7, <1>10, <2>2, <2>3 DEF Sound, Stands
  <2> HIDE DEF q
  <2> QED
    BY <1>11, <2>2, <2>4, SaveSound DEF q
<1>12. CASE /\ \A j \in DOMAIN q.guar : d.guar[j].status = "accepted"
            /\ SaveInQueue(r, Advanced(d))
  <2>1. Done(d, StepAt(d))
    BY <1>4, <1>5, <1>6, <1>7, <1>12 DEF Done, PersonSteps
  <2>2. Sound(q, Advanced(d)) /\ Named(Advanced(d), settings)
    BY <1>4, <1>5, <1>6, <1>8, <1>9, <1>10, <2>1, AdvancedSound
  <2> HIDE DEF q
  <2> QED
    BY <1>12, <2>2, SaveSound DEF q
<1> QED
  BY <1>4, <1>11, <1>12

(* The approver on duty, or his substitute, approves. *)
LEMMA ApproveSound ==
  ASSUME Typed, DecisionInv, NEW r \in Requests, NEW e \in Employees, Approve(r, e)
  PROVE  AllSound
<1> DEFINE q == req[r]
           k == StepAt(q)
           b == [q.by EXCEPT ![k] = e]
           d == [q EXCEPT !.by = b]
<1>1. q \in GoodRow /\ RowInv(q) /\ q.by \in Approvers
  BY DEF Typed, DecisionInv, GoodRow, Row
<1>2. /\ q.status = "in_review" /\ k \in PersonSteps /\ CurrentStep(q) = k
      /\ MayDecide(q, e) /\ SaveInQueue(r, Advanced(d))
  BY DEF Approve, CurrentStep, PersonSteps
<1>3. /\ b \in Approvers /\ b[k] = e /\ \A l \in PersonSteps : l # k => b[l] = q.by[l]
  BY <1>1, <1>2 DEF Approvers, Maybe
<1> HIDE DEF b
<1>4. /\ d \in GoodRow /\ d.status = q.status /\ d.steps = q.steps /\ d.idx = q.idx
      /\ d.emp = q.emp /\ d.appr = q.appr /\ d.by = b /\ d.guar = q.guar
  BY <1>1, <1>3 DEF GoodRow, Row
<1> HIDE DEF d
<1>5. StepAt(d) = k
  BY <1>4 DEF StepAt
<1>6. e # q.emp
  <2>1. q.cur = q.appr[k]
    BY <1>1, <1>2 DEF RowInv, OnDesk
  <2>2. k \in PersonSteps \cap Range(q.steps)
    BY <1>1, <1>2, StepOnPath
  <2> QED
    BY <1>1, <1>2, <2>1, <2>2 DEF RowInv, ByOthers, MayDecide
<1>7. ByOthers(d)
  BY <1>1, <1>2, <1>3, <1>4, <1>6 DEF RowInv, ByOthers
<1>8. Distinct(d)
  BY <1>1, <1>4 DEF RowInv, Distinct
<1>9. Done(d, k)
  BY <1>2, <1>3, <1>4, NoneIsNobody DEF Done, PersonSteps
<1>10. Sound(q, Advanced(d)) /\ Named(Advanced(d), settings)
  BY <1>2, <1>3, <1>4, <1>5, <1>7, <1>8, <1>9, AdvancedSound
<1> HIDE DEF q
<1> QED
  BY <1>2, <1>10, SaveSound DEF q

-----------------------------------------------------------------------------
(* The finance unit and the payslips change neither path nor approvers.    *)
SameDecisions(q, n) ==
  /\ n.steps = q.steps /\ n.idx = q.idx /\ n.emp = q.emp /\ n.appr = q.appr /\ n.by = q.by
  /\ n.guar = q.guar

PastReview(q) == q.status \in PaidStatuses \cup {"waiting_finance"}

LEMMA PastReviewSound ==
  ASSUME NEW q \in GoodRow, NEW n, RowInv(q), PastReview(q), PastReview(n), SameDecisions(q, n)
  PROVE  Sound(q, n) /\ n.status # "in_review"
<1>1. StepAt(q) = "finance"
  BY DEF RowInv, At, PastReview
<1>2. q.status # "none" /\ n.status # "in_review"
  BY DEF PastReview, PaidStatuses
<1> QED
  BY <1>1, <1>2, OutOfReviewSound DEF SameDecisions

LEMMA SyncedDecisions ==
  ASSUME NEW q \in GoodRow, NEW i \in DOMAIN q.inst, NEW m \in Marks
  PROVE  LET n == Synced([q EXCEPT !.inst[i] = m])
         IN  SameDecisions(q, n) /\ n.status \in PaidStatuses
<1> DEFINE inst == [q.inst EXCEPT ![i] = m]
           p    == [q EXCEPT !.inst = inst]
           s    == IF AllPaid(p) THEN "settled" ELSE "active"
<1>1. Synced(p) = [p EXCEPT !.status = s] /\ s \in PaidStatuses
  BY DEF Synced, PaidStatuses
<1> HIDE DEF s, inst
<1>2. SameDecisions(q, Synced(p)) /\ Synced(p).status \in PaidStatuses
  BY <1>1 DEF SameDecisions, GoodRow, Row
<1> QED
  BY <1>2 DEF inst

LEMMA FinanceSound ==
  ASSUME Typed, DecisionInv, NEW r \in Requests,
         \/ \E n \in 1..MaxInst, first \in Months : FinancePay(r, n, first)
         \/ \E seq \in 1..MaxSeq : FinanceSetQueue(r, seq)
         \/ \E i \in DOMAIN req[r].inst : FinanceToggleInstallment(r, i)
         \/ FinanceSettle(r)
  PROVE  AllSound
<1>1. req[r] \in GoodRow /\ RowInv(req[r])
  BY DEF Typed, DecisionInv
<1>2. SUFFICES \E n : /\ Save(r, n) \/ SaveInQueue(r, n)
                      /\ PastReview(req[r]) /\ PastReview(n) /\ SameDecisions(req[r], n)
  BY <1>1, PastReviewSound, SaveSound
<1>3. ASSUME NEW n \in 1..MaxInst, NEW first \in Months, FinancePay(r, n, first)
      PROVE  \E m : /\ Save(r, m) \/ SaveInQueue(r, m)
                    /\ PastReview(req[r]) /\ PastReview(m) /\ SameDecisions(req[r], m)
  <2> DEFINE inst == [i \in 1..n |-> "unpaid"]
             m    == [req[r] EXCEPT !.status = "active", !.first = first, !.inst = inst]
  <2>1. Save(r, m) /\ req[r].status = "waiting_finance"
    BY <1>3 DEF FinancePay
  <2> HIDE DEF inst
  <2>2. m.status = "active" /\ SameDecisions(req[r], m)
    BY <1>1 DEF GoodRow, Row, SameDecisions
  <2> QED
    BY <2>1, <2>2 DEF PastReview, PaidStatuses
<1>4. ASSUME NEW seq \in 1..MaxSeq, FinanceSetQueue(r, seq)
      PROVE  \E m : /\ Save(r, m) \/ SaveInQueue(r, m)
                    /\ PastReview(req[r]) /\ PastReview(m) /\ SameDecisions(req[r], m)
  <2> DEFINE m == [req[r] EXCEPT !.seq = seq]
  <2>1. SaveInQueue(r, m) /\ req[r].status = "waiting_finance"
    BY <1>4 DEF FinanceSetQueue
  <2>2. m.status = "waiting_finance" /\ SameDecisions(req[r], m)
    BY <1>1, <2>1 DEF GoodRow, Row, SameDecisions
  <2> QED
    BY <2>1, <2>2 DEF PastReview
<1>5. ASSUME NEW i \in DOMAIN req[r].inst, FinanceToggleInstallment(r, i)
      PROVE  \E m : /\ Save(r, m) \/ SaveInQueue(r, m)
                    /\ PastReview(req[r]) /\ PastReview(m) /\ SameDecisions(req[r], m)
  <2> DEFINE mark == IF req[r].inst[i] = "unpaid" THEN "manual" ELSE "unpaid"
             m    == Synced([req[r] EXCEPT !.inst[i] = mark])
  <2>1. Save(r, m) /\ req[r].status \in PaidStatuses
    BY <1>5 DEF FinanceToggleInstallment
  <2>2. mark \in Marks
    BY DEF Marks
  <2> HIDE DEF mark
  <2>3. SameDecisions(req[r], m) /\ m.status \in PaidStatuses
    BY <1>1, <2>2, SyncedDecisions
  <2> QED
    BY <2>1, <2>3 DEF PastReview
<1>6. ASSUME FinanceSettle(r)
      PROVE  \E m : /\ Save(r, m) \/ SaveInQueue(r, m)
                    /\ PastReview(req[r]) /\ PastReview(m) /\ SameDecisions(req[r], m)
  <2> DEFINE old  == req[r].inst
             inst == [i \in DOMAIN old |-> IF old[i] = "unpaid" THEN "manual" ELSE old[i]]
             m    == [req[r] EXCEPT !.status = "settled", !.inst = inst]
  <2>1. Save(r, m) /\ req[r].status = "active"
    BY <1>6 DEF FinanceSettle
  <2> HIDE DEF inst
  <2>2. m.status = "settled" /\ SameDecisions(req[r], m)
    BY <1>1 DEF GoodRow, Row, SameDecisions
  <2> QED
    BY <2>1, <2>2 DEF PastReview, PaidStatuses
<1> QED
  BY <1>3, <1>4, <1>5, <1>6

LEMMA FinanceManualSound ==
  ASSUME Typed, DecisionInv, NEW r \in Requests, NEW e \in Employees,
         NEW t \in LoanTypes \cup {None}, NEW own \in BOOLEAN, NEW seq \in 0..MaxSeq,
         FinanceManual(r, e, t, own, seq)
  PROVE  AllSound
<1> DEFINE out == IF t = None THEN own ELSE Type[t].outOfQueue
           num == IF out THEN 0 ELSE IF seq > 0 THEN seq ELSE settings.lastSeq + 1
           q   == [NoRow EXCEPT !.status = "waiting_finance", !.emp = e, !.type = t,
                                !.outOfQueue = out, !.seq = num]
<1>1. SaveInQueue(r, q) /\ req[r].status = "none"
  BY DEF FinanceManual, FreeId
<1> HIDE DEF out, num
<1>2. /\ q.status = "waiting_finance" /\ q.emp = e /\ q.steps = <<"finance">> /\ q.idx = 0
      /\ q.by = NoOne /\ q.guar = <<>>
  BY DEF NoRow
<1> HIDE DEF q
<1>3. Walked(q)
  BY <1>2 DEF Walked, NoOne
<1>4. At(q)
  BY <1>2 DEF At, StepAt
<1>5. CurrentStep(q) = "none" /\ "none" \notin PersonSteps
  BY <1>2 DEF CurrentStep, PersonSteps
<1>6. ByOthers(q)
  <2>1. PersonSteps \cap Range(q.steps) = {}
    BY <1>2 DEF PersonSteps, Range
  <2> QED
    BY <1>2, <2>1, NoneIsNobody DEF ByOthers, NoOne
<1>7. RowInv(q)
  BY <1>2, <1>3, <1>4, <1>5, <1>6 DEF RowInv, OnDesk, Distinct
<1>8. Sound(req[r], q)
  BY <1>1, <1>5, <1>7 DEF Sound, Stands, Reached
<1> QED
  BY <1>1, <1>2, <1>8, SaveSound

LEMMA ApplyPayslipsSound ==
  ASSUME Typed, DecisionInv, NEW slip \in Slips, NEW matched \in SUBSET Requests,
         ApplyPayslips(slip, matched)
  PROVE  AllSound
<1>1. slip \in Marks
  BY DEF Marks
<1> SUFFICES ASSUME NEW r \in Requests
             PROVE  /\ Sound(req[r], req'[r])
                    /\ req'[r].status = "in_review" => Named(req'[r], settings')
  BY DEF AllSound
<1>2. req[r] \in GoodRow /\ RowInv(req[r]) /\ settings' = settings
      /\ (req[r].status = "in_review" => Named(req[r], settings))
  BY DEF Typed, DecisionInv, ApplyPayslips
<1>3. CASE r \in matched /\ SlipApplies(req[r], slip)
  <2>1. req'[r] = Synced([req[r] EXCEPT !.inst[FirstUnpaid(req[r])] = slip])
    BY <1>3 DEF ApplyPayslips
  <2>2. req[r].status = "active" /\ FirstUnpaid(req[r]) \in DOMAIN req[r].inst
    BY <1>2, <1>3, FirstUnpaidExists DEF SlipApplies
  <2>3. SameDecisions(req[r], req'[r]) /\ req'[r].status \in PaidStatuses
    BY <1>1, <1>2, <2>1, <2>2, SyncedDecisions
  <2> QED
    BY <1>2, <2>2, <2>3, PastReviewSound DEF PastReview, PaidStatuses
<1>4. CASE ~(r \in matched /\ SlipApplies(req[r], slip))
  <2>1. req'[r] = req[r]
    BY <1>4 DEF ApplyPayslips
  <2> QED
    BY <1>2, <2>1, KeptSound
<1> QED
  BY <1>3, <1>4

-----------------------------------------------------------------------------
(* After approvers moved, the settings st are in force for a request if    *)
(* they were before, or if everybody they name can act.                    *)
LEMMA NamedAfter ==
  ASSUME NEW q, NEW n, NEW now, NEW act, NEW st, HandedOver(q, n, now, act, st),
         SameRequest(n, q),
         Named(q, st) \/ \A k \in SiteSteps : st[k] \in Maybe(act \cap enabled)
  PROVE  Named(n, st)
<1>1. Remaining(n) = Remaining(q) /\ n.emp = q.emp
  BY DEF SameRequest, Remaining
<1>2. SiteSteps \subseteq PersonSteps
  BY DEF SiteSteps, PersonSteps
<1>3. CASE Named(q, st)
  BY <1>1, <1>2, <1>3 DEF Named, HandedOver
<1>4. CASE \A k \in SiteSteps : st[k] \in Maybe(act \cap enabled)
  BY <1>1, <1>2, <1>4 DEF Named, HandedOver, Maybe
<1> QED
  BY <1>3, <1>4

(* One request of a step that moves approvers: rows are the requests       *)
(* before it, with those cancelled that the step closes.                   *)
LEMMA ReassignedAllSound ==
  ASSUME Typed, DecisionInv, NEW rows \in [Requests -> GoodRow], NEW chosen,
         NEW refresh \in BOOLEAN, NEW act, NEW st \in SiteSettings,
         \A r \in Requests :
           \/ rows[r] = req[r]
           \/ IsOpen(req[r]) /\ rows[r] = Closed(req[r], "cancelled"),
         \/ st = settings
         \/ chosen = Requests /\ \A k \in SiteSteps : st[k] \in Maybe(act \cap enabled),
         \A k \in SiteSteps : settings'[k] = st[k],
         req' = ReassignedAll(rows, chosen, refresh, act, st)
  PROVE  AllSound
<1> SUFFICES ASSUME NEW r \in Requests
             PROVE  /\ Sound(req[r], req'[r])
                    /\ req'[r].status = "in_review" => Named(req'[r], st)
  BY DEF AllSound, Named
<1>1. req[r] \in GoodRow /\ RowInv(req[r]) /\ enabled \subseteq Employees
      /\ (req[r].status = "in_review" => Named(req[r], settings))
  BY DEF Typed, DecisionInv
<1>2. req'[r] = IF r \in chosen /\ rows[r].status = "in_review"
                THEN Reassigned(rows[r], CurrentStep(rows[r]), refresh, act, st) ELSE rows[r]
  BY DEF ReassignedAll
<1>3. CASE IsOpen(req[r]) /\ rows[r] = Closed(req[r], "cancelled")
  <2>1. "cancelled" \in ClosedStatuses
    BY DEF ClosedStatuses
  <2>2. Sound(req[r], rows[r]) /\ rows[r].status # "in_review"
    BY <1>1, <1>3, <2>1, ClosedSound
  <2> QED
    BY <1>2, <2>2
<1>4. CASE rows[r] = req[r] /\ r \in chosen /\ req[r].status = "in_review"
  <2> DEFINE n == Reassigned(req[r], CurrentStep(req[r]), refresh, act, st)
  <2>1. req'[r] = n
    BY <1>2, <1>4
  <2>2. RowInv(n) /\ Stands(req[r], n) /\ CurrentStep(n) = CurrentStep(req[r])
    BY <1>1, <1>4, ReassignedSound
  <2>3. SameRequest(n, req[r])
    BY <1>1, ReassignedRow
  <2>4. HandedOver(req[r], n, CurrentStep(req[r]), act, st)
    BY <1>1, ReassignedApprovers
  <2> HIDE DEF n
  <2>5. Named(n, st)
    BY <1>1, <1>4, <2>3, <2>4, NamedAfter
  <2> QED
    BY <2>1, <2>2, <2>5 DEF Sound
<1>5. CASE rows[r] = req[r] /\ ~(r \in chosen /\ req[r].status = "in_review")
  <2>1. req'[r] = req[r]
    BY <1>2, <1>5
  <2> QED
    BY <1>1, <1>5, <2>1, KeptSound
<1> QED
  BY <1>3, <1>4, <1>5

LEMMA UpdateSiteSettingsSound ==
  ASSUME Typed, DecisionInv, NEW on \in BOOLEAN, NEW manager, NEW hr,
         UpdateSiteSettings(on, manager, hr)
  PROVE  AllSound
<1> DEFINE st == [settings EXCEPT !.enabled = on, !.site_manager = manager, !.hr = hr]
<1>1. {manager, hr} \subseteq Maybe(Usable) /\ {manager, hr} \subseteq Maybe(Employees)
  BY DEF UpdateSiteSettings, Usable, Typed, Maybe
<1>2. st \in SiteSettings /\ st.site_manager = manager /\ st.hr = hr
  BY <1>1 DEF Typed, SiteSettings
<1>3. settings' = st /\ req' = ReassignedAll(req, Requests, FALSE, active, st)
  BY DEF UpdateSiteSettings
<1> HIDE DEF st
<1>4. \A k \in SiteSteps : st[k] \in Maybe(active \cap enabled)
  BY <1>1, <1>2 DEF SiteSteps, Usable
<1>5. req \in [Requests -> GoodRow]
  BY DEF Typed
<1> QED
  BY <1>2, <1>3, <1>4, <1>5, ReassignedAllSound

LEMMA ReassignApproversSound ==
  ASSUME Typed, DecisionInv, ReassignApprovers
  PROVE  AllSound
<1>1. req \in [Requests -> GoodRow] /\ settings \in SiteSettings
  BY DEF Typed
<1>2. settings' = settings /\ req' = ReassignedAll(req, Requests, TRUE, active, settings)
  BY DEF ReassignApprovers
<1> QED
  BY <1>1, <1>2, ReassignedAllSound

LEMMA NoRequestSound ==
  ASSUME Typed, DecisionInv, UNCHANGED <<settings, req>>
  PROVE  AllSound
BY KeptSound DEF Typed, DecisionInv, AllSound

LEMMA EmployeesLeftSound ==
  ASSUME Typed, DecisionInv, NEW left, NEW moved \in BOOLEAN, EmployeesLeft(left, moved)
  PROVE  AllSound
<1> DEFINE rows   == IF Cardinality(left) <= MaxAutoCancel THEN CancelledOf(left) ELSE req
           onPath == {r \in Requests : \E k \in PersonSteps : req[r].appr[k] \in left}
<1>1. /\ \/ req' = ReassignedAll(rows, onPath, FALSE, active \ left, settings)
         \/ req' = req
      /\ settings' = settings
  BY DEF EmployeesLeft
<1>2. rows = CancelledOf(left) \/ rows = req
  OBVIOUS
<1> HIDE DEF rows, onPath
<1>3. rows \in [Requests -> GoodRow] /\ settings \in SiteSettings
  BY <1>2, CancelledOfTyped DEF Typed
<1>4. \A r \in Requests :
        \/ rows[r] = req[r]
        \/ IsOpen(req[r]) /\ rows[r] = Closed(req[r], "cancelled")
  BY <1>2, CancelledOfTyped
<1>5. CASE req' = ReassignedAll(rows, onPath, FALSE, active \ left, settings)
  BY <1>1, <1>3, <1>4, <1>5, ReassignedAllSound
<1>6. CASE req' = req
  BY <1>1, <1>6, NoRequestSound
<1> QED
  BY <1>1, <1>5, <1>6

(* Every step of the system, one handler after the other. *)
LEMMA StepSound ==
  ASSUME Typed, DecisionInv, [Next]_vars
  PROVE  AllSound
<1>1. CASE RequesterStep
  BY <1>1, SubmitSound, CancelSound, ReplaceGuarantorSound DEF RequesterStep
<1>2. CASE DeciderStep
  BY <1>2, GuaranteeDecideSound, ApproveSound, CancelSound DEF DeciderStep
<1>3. CASE FinanceStep
  <2>1. ASSUME NEW r \in Requests, NEW e \in Employees, NEW t \in LoanTypes \cup {None},
               NEW out \in BOOLEAN, NEW seq \in 0..MaxSeq, FinanceManual(r, e, t, out, seq)
        PROVE  AllSound
    BY <2>1, FinanceManualSound
  <2>2. ASSUME NEW r \in Requests,
               \/ \E n \in 1..MaxInst, first \in Months : FinancePay(r, n, first)
               \/ \E seq \in 1..MaxSeq : FinanceSetQueue(r, seq)
               \/ \E i \in DOMAIN req[r].inst : FinanceToggleInstallment(r, i)
               \/ FinanceSettle(r)
        PROVE  AllSound
    BY <2>2, FinanceSound
  <2>3. ASSUME NEW r \in Requests, FinanceReject(r)
        PROVE  AllSound
    BY <2>3, CancelSound
  <2>4. ASSUME NEW slip \in Slips, NEW matched \in SUBSET Requests, ApplyPayslips(slip, matched)
        PROVE  AllSound
    BY <2>4, ApplyPayslipsSound
  <2> QED
    BY <1>3, <2>1, <2>2, <2>3, <2>4 DEF FinanceStep
<1>4. CASE SiteStep
  <2>1. ASSUME NEW on \in BOOLEAN, NEW manager \in Maybe(Candidates["site_manager"]),
               NEW hr \in Maybe(Candidates["hr"]), UpdateSiteSettings(on, manager, hr)
        PROVE  AllSound
    BY <2>1, UpdateSiteSettingsSound
  <2>2. CASE ReassignApprovers
    BY <2>2, ReassignApproversSound
  <2>3. ASSUME NEW left \in SUBSET Employees, NEW moved \in BOOLEAN, EmployeesLeft(left, moved)
        PROVE  AllSound
    BY <2>3, EmployeesLeftSound
  <2>4. CASE \/ \E e \in Employees : EmployeeReturns(e)
             \/ \E e \in Employees : SetEmployeeEnabled(e)
             \/ \E p \in Policies : ChangePolicy(p)
             \/ KaraChanges
    BY <2>4, NoRequestSound DEF EmployeeReturns, SetEmployeeEnabled, ChangePolicy, KaraChanges
  <2> QED
    BY <1>4, <2>1, <2>2, <2>3, <2>4 DEF SiteStep
<1>5. CASE UNCHANGED vars
  BY <1>5, NoRequestSound DEF vars
<1> QED
  BY <1>1, <1>2, <1>3, <1>4, <1>5 DEF Next

LEMMA DecisionInvHolds == Spec => []DecisionInv
<1>1. Init => DecisionInv
  <2> SUFFICES ASSUME Init, NEW r \in Requests
               PROVE  RowInv(req[r]) /\ req[r].status # "in_review"
    BY DEF DecisionInv
  <2>1. req[r] = NoRow
    BY DEF Init
  <2>2. RowInv(NoRow)
    <3>1. /\ NoRow.status = "none" /\ NoRow.guar = <<>> /\ NoRow.by = NoOne
          /\ NoRow.steps = <<"finance">> /\ NoRow.idx = 0
      BY DEF NoRow
    <3> QED
      BY <3>1 DEF RowInv, Walked, Done, At, OnDesk, Distinct, CurrentStep, PersonSteps,
         PaidStatuses, NoOne
  <2> QED
    BY <2>1, <2>2 DEF NoRow
<1>2. Typed /\ DecisionInv /\ [Next]_vars => DecisionInv'
  BY StepSound DEF AllSound, Sound, DecisionInv, RowInv, Walked, At, OnDesk, ByOthers, Distinct,
     Done, StepAt, CurrentStep, Named, Remaining
<1> QED
  BY <1>1, <1>2, TypedHolds, PTL DEF Spec

-----------------------------------------------------------------------------
(* A request passes its steps one after the other, and comes to the queue  *)
(* or is paid only when all of them were decided.                          *)
THEOREM DecisionsInOrderHolds == Spec => []DecisionsInOrder
<1>1. Typed /\ DecisionInv => DecisionsInOrder
  BY DEF Typed, GoodRow, DecisionInv, RowInv, Walked, At, DecisionsInOrder
<1> QED
  BY <1>1, TypedHolds, DecisionInvHolds, PTL

(* Nobody decides on his own loan or guarantees it, however often the      *)
(* approvers were moved and whoever stood in for them.                     *)
THEOREM NoSelfDecisionHolds == Spec => []NoSelfDecision
<1>1. DecisionInv => NoSelfDecision
  BY DEF DecisionInv, RowInv, ByOthers, NoSelfDecision
<1> QED
  BY <1>1, DecisionInvHolds, PTL

(* The approvers the site's settings name are the ones that the remaining  *)
(* steps of every request in review wait for.                              *)
THEOREM SettingsInForceHolds == Spec => []SettingsInForce
<1>1. DecisionInv => SettingsInForce
  BY DEF DecisionInv, Named, Remaining, SettingsInForce
<1> QED
  BY <1>1, DecisionInvHolds, PTL

(* No request has the same guarantor twice, also after replacements.       *)
THEOREM DistinctGuarantorsHolds == Spec => []DistinctGuarantors
<1>1. DecisionInv => DistinctGuarantors
  BY DEF DecisionInv, RowInv, Distinct, DistinctGuarantors
<1> QED
  BY <1>1, DecisionInvHolds, PTL

(* No handler changes the path of a request, walks it back or touches a    *)
(* decision, a past approver or an accepted guarantee.                     *)
THEOREM DecisionsStandHolds == Spec => DecisionsStand
<1> DEFINE A == \A r \in Requests :
                  LET q == req[r]  n == req'[r]
                  IN  q.status # "none" =>
                        /\ n.steps = q.steps /\ n.emp = q.emp
                        /\ n.idx >= q.idx
                        /\ \A k \in PersonSteps : q.by[k] # None =>
                             n.by[k] = q.by[k] /\ n.appr[k] = q.appr[k]
                        /\ \A i \in DOMAIN q.guar :
                             q.guar[i].status = "accepted" => n.guar[i] = q.guar[i]
<1>1. Typed /\ DecisionInv /\ [Next]_vars => A
  BY StepSound DEF AllSound, Sound, Stands
<1>2. DecisionsStand <=> [][A]_vars
  BY DEF DecisionsStand
<1> HIDE DEF A
<1>3. Typed /\ DecisionInv /\ [Next]_vars => [A]_vars
  BY <1>1
<1> QED
  BY <1>2, <1>3, TypedHolds, DecisionInvHolds, PTL DEF Spec

(* A request that comes to a person's step lies on the desk of somebody    *)
(* who can act, unless nobody who could replace the stored approver can.   *)
THEOREM ArrivesAtUsableHolds == Spec => ArrivesAtUsable
<1> DEFINE A == \A r \in Requests :
                  Arrives(r) =>
                    \/ req'[r].cur \in Usable
                    \/ ~HasReplacement(req'[r], CurrentStep(req'[r]), active)
<1>1. Typed /\ DecisionInv /\ [Next]_vars => A
  BY StepSound DEF AllSound, Sound, Reached, Arrives
<1>2. ArrivesAtUsable <=> [][A]_vars
  BY DEF ArrivesAtUsable
<1> HIDE DEF A
<1>3. Typed /\ DecisionInv /\ [Next]_vars => [A]_vars
  BY <1>1
<1> QED
  BY <1>2, <1>3, TypedHolds, DecisionInvHolds, PTL DEF Spec

(* When employees leave and the requests on their paths are moved, none in *)
(* review stays with one of them whom somebody could replace.              *)
LEMMA LeftStep ==
  ASSUME Typed, DecisionInv, NEW left, EmployeesLeft(left, TRUE), NEW r \in Requests,
         CurrentStep(req'[r]) \in PersonSteps, req'[r].cur \in left
  PROVE  ~HasReplacement(req'[r], CurrentStep(req'[r]), active')
<1> DEFINE q      == req[r]
           n      == req'[r]
           act    == active \ left
           rows   == IF Cardinality(left) <= MaxAutoCancel THEN CancelledOf(left) ELSE req
           onPath == {s \in Requests : \E k \in PersonSteps : req[s].appr[k] \in left}
<1>1. /\ q \in GoodRow /\ RowInv(q) /\ enabled \subseteq Employees /\ settings \in SiteSettings
      /\ left \subseteq Employees
  BY DEF Typed, DecisionInv, EmployeesLeft
<1>2. req' = ReassignedAll(rows, onPath, FALSE, act, settings) /\ active' = act
  BY DEF EmployeesLeft
<1>3. rows = CancelledOf(left) \/ rows = req
  OBVIOUS
<1> HIDE DEF rows
<1>4. rows[r] = q \/ rows[r] = Closed(q, "cancelled")
  BY <1>3, CancelledOfTyped
<1>5. n = IF r \in onPath /\ rows[r].status = "in_review"
          THEN Reassigned(rows[r], CurrentStep(rows[r]), FALSE, act, settings) ELSE rows[r]
  BY <1>2 DEF ReassignedAll
<1>6. n.status = "in_review"
  BY DEF CurrentStep, PersonSteps
<1>7. Closed(q, "cancelled").status = "cancelled"
  BY <1>1, ClosedRow DEF ClosedStatuses
<1>8. CASE rows[r] = q /\ r \in onPath /\ q.status = "in_review"
  <2> DEFINE k == CurrentStep(q)
             m == Reassigned(q, k, FALSE, act, settings)
  <2>1. n = m
    BY <1>5, <1>8
  <2>2. SameRequest(m, q) /\ m.status = q.status /\ HandedOver(q, m, k, act, settings)
    <3>1. ASSUME NEW refresh \in BOOLEAN
          PROVE  LET o == Reassigned(q, k, refresh, act, settings)
                 IN  SameRequest(o, q) /\ o.status = q.status /\ HandedOver(q, o, k, act, settings)
      BY <1>1, ReassignedRow, ReassignedApprovers
    <3> QED
      BY <3>1
  <2> HIDE DEF m, n
  <2>4. CurrentStep(n) = k /\ k = StepAt(q) /\ n.emp = q.emp
    BY <1>8, <2>1, <2>2 DEF CurrentStep, StepAt, SameRequest
  <2>5. k \in PersonSteps /\ n.cur \in left
    BY <2>4 DEF n
  <2>6. k \in Remaining(q) /\ q.cur = q.appr[k]
    BY <1>1, <2>4, <2>5, StepOnPath DEF RowInv, OnDesk
  <2> HIDE DEF k
  <2>7. n.appr[k] = q.appr[k] /\ q.appr[k] \in left /\ q.appr[k] \notin act
    BY <2>1, <2>2, <2>5, <2>6 DEF HandedOver
  <2>8. Replacement(n, k, act) \notin (act \cap enabled) \ {q.emp}
    <3>1. CASE k = "unit_manager"
      BY <2>1, <2>2, <2>4, <2>6, <2>7, <3>1 DEF HandedOver, Replacement
    <3>2. CASE k \in SiteSteps
      BY <2>1, <2>2, <2>4, <2>6, <2>7, <3>2 DEF HandedOver, Replacement, SiteSteps
    <3> QED
      BY <2>5, <3>1, <3>2 DEF PersonSteps, SiteSteps
  <2> QED
    BY <1>2, <2>4, <2>8 DEF HasReplacement, n
<1>9. CASE rows[r] = q /\ ~(r \in onPath /\ q.status = "in_review")
  <2>1. n = q
    BY <1>5, <1>9
  <2>2. r \notin onPath
    BY <1>6, <1>9, <2>1
  <2>3. q.cur = q.appr[CurrentStep(q)] /\ CurrentStep(q) \in PersonSteps
    BY <1>1, <2>1 DEF RowInv, OnDesk
  <2> QED
    BY <2>1, <2>2, <2>3
<1>10. CASE rows[r] = Closed(q, "cancelled")
  BY <1>5, <1>6, <1>7, <1>10
<1> QED
  BY <1>4, <1>8, <1>9, <1>10

THEOREM LeaversReplacedHolds == Spec => LeaversReplaced
<1> DEFINE A == LET left == active \ active'
                IN  left # {} /\ EmployeesLeft(left, TRUE) =>
                      \A r \in Requests :
                        /\ CurrentStep(req'[r]) \in PersonSteps
                        /\ req'[r].cur \in left
                        => ~HasReplacement(req'[r], CurrentStep(req'[r]), active')
<1>1. Typed /\ DecisionInv => A
  BY LeftStep
<1>2. LeaversReplaced <=> [][A]_vars
  BY DEF LeaversReplaced
<1> HIDE DEF A
<1>3. Typed /\ DecisionInv /\ [Next]_vars => [A]_vars
  BY <1>1
<1> QED
  BY <1>2, <1>3, TypedHolds, DecisionInvHolds, PTL DEF Spec
==============================================================================
