------------------------------ MODULE LeaveProofs ------------------------------
(***************************************************************************)
(* Proofs about leave requests, for any managers, substitutes, officers    *)
(* and handlers in progress.  A request never waits at the owner's own     *)
(* desk, and what a handler holds from an earlier read never puts it       *)
(* there: the invariant says so of the rows and of every job.  The second  *)
(* part follows the effects in Kara through the half-done writes of a      *)
(* handler: the invariant says which requests show their effect now.       *)
(***************************************************************************)
EXTENDS LeaveProperties, FiniteSetTheorems, WellFoundedInduction, TLAPS

Punch == [from : {None, "device", "portal"}, mark : {"plain", "marked", "card"}]

(* A live request asks for something, of somebody who is not its owner.    *)
GoodRow(q) ==
  /\ q \in Row
  /\ q.state = "live" => q.what \in Whats /\ q.cur \in Employees \ {Owner}
  /\ q.by # Owner

TypedJob(j) ==
  \/ j \in Job
  \/ j.do = "revert" /\ j.what \in Whats /\ j.next \in Job
  \/ j.do = "reassign" /\ j.left \in Maybe(Leavers)
       /\ j.moves \subseteq [req : Requests, from : Employees, to : Employees]

(* Whatever a job was read from, it sends nothing to the owner; it moves a *)
(* request up to an officer only, and it moves requests to an officer or   *)
(* away from somebody who leaves.                                          *)
GoodJob(j) ==
  /\ TypedJob(j)
  /\ j.do = "insert" => j.cur # Owner
  /\ j.do = "move_up" => j.to \in Officers \ {Owner}
  /\ j.do = "decide" => j.by # Owner
  /\ j.do = "revert" => j.next.do \in {"write", "delete_rows"}
  /\ j.do = "reassign" =>
       \A m \in j.moves : m.to # Owner /\ (m.to \in Officers \/ m.from \in Leavers)

KaraTypes == punch \in [Times -> Punch] /\ days \in [Times -> 0..MaxDays]

StaffTypes ==
  /\ active \subseteq Employees /\ Inactive \subseteq Leavers
  /\ hr \in Maybe(Officers)

LeaveInv ==
  /\ row \in [Requests -> Row] /\ \A r \in Requests : GoodRow(row[r])
  /\ job = [w \in Workers |-> job[w]] /\ \A w \in Workers : GoodJob(job[w])
  /\ KaraTypes /\ StaffTypes
  /\ pending \subseteq Requests \X Whats

-----------------------------------------------------------------------------
(* What a job holds, by what it is about to do.                            *)
LEMMA JobShape ==
  ASSUME NEW j, GoodJob(j)
  PROVE  /\ j.do \in {"insert", "move_up", "decide", "apply", "apply_edit", "undo", "delete_rows",
                      "delete", "reread", "clear", "write"} => j.req \in Requests
         /\ j.do \in {"insert", "decide", "apply", "apply_edit", "revert"} => j.what \in Whats
         /\ j.do = "insert" => j.cur \in Employees \ {Owner}
         /\ j.do = "move_up" => j.to \in (Employees \cap Officers) \ {Owner}
         /\ j.do = "decide" => j.by \in Employees \ {Owner} /\ j.final \in {"approved", "rejected"}
         /\ j.do = "write" => j.edit \in Edits
         /\ j.do = "revert" => j.next \in Job /\ j.next.do \in {"write", "delete_rows"}
         /\ j.do = "reassign" =>
              /\ j.left \in Maybe(Leavers)
              /\ j.moves \subseteq [req : Requests, from : Employees, to : Employees]
              /\ \A m \in j.moves : m.to # Owner /\ (m.to \in Officers \/ m.from \in Leavers)
<1>1. CASE j \in Job
  BY <1>1 DEF Job, GoodJob, Idle
<1>2. CASE j.do \in {"revert", "reassign"}
  BY <1>2 DEF GoodJob, TypedJob, Job, Idle
<1> QED
  BY <1>1, <1>2 DEF GoodJob, TypedJob

(* One worker goes on with another job.                                    *)
LEMMA NextJob ==
  ASSUME LeaveInv, NEW w \in Workers, NEW j, GoodJob(j), job' = [job EXCEPT ![w] = j]
  PROVE  job' = [v \in Workers |-> job'[v]] /\ \A v \in Workers : GoodJob(job'[v])
<1>1. job = [v \in Workers |-> job[v]] /\ \A v \in Workers : GoodJob(job[v])
  BY DEF LeaveInv
<1>2. \A v \in Workers : job'[v] = IF v = w THEN j ELSE job[v]
  BY <1>1
<1> QED
  BY <1>1, <1>2

LEMMA IdleJob == GoodJob(Idle)
  BY DEF GoodJob, TypedJob, Job, Idle

(* A handler that begins has only read.                                    *)
LEMMA Begun ==
  ASSUME LeaveInv, NEW w \in Workers, NEW j, GoodJob(j), Goes(w, j),
         UNCHANGED <<row, punch, days, active, pending>>, hr' \in Maybe(Officers)
  PROVE  LeaveInv'
<1>1. job' = [v \in Workers |-> job'[v]] /\ \A v \in Workers : GoodJob(job'[v])
  BY NextJob DEF Goes
<1> QED
  BY <1>1 DEF LeaveInv, KaraTypes, StaffTypes, Inactive

(* A call to Kara writes one row.                                          *)
LEMMA RowWritten ==
  ASSUME LeaveInv, NEW r \in Requests, NEW q, Live(r) => GoodRow(q), Updated(r, q)
  PROVE  row' \in [Requests -> Row] /\ \A s \in Requests : GoodRow(row'[s])
<1>1. row \in [Requests -> Row] /\ \A s \in Requests : GoodRow(row[s])
  BY DEF LeaveInv
<1>2. CASE Live(r)
  <2>1. q \in Row /\ row' = [row EXCEPT ![r] = q]
    BY <1>2 DEF Updated, GoodRow
  <2>2. \A s \in Requests : row'[s] = IF s = r THEN q ELSE row[s]
    BY <1>1, <2>1
  <2> QED
    BY <1>1, <1>2, <2>1, <2>2
<1>3. CASE ~Live(r)
  BY <1>1, <1>3 DEF Updated
<1> QED
  BY <1>2, <1>3

LEMMA Called ==
  ASSUME LeaveInv, NEW w \in Workers, NEW j, GoodJob(j), Goes(w, j),
         row' \in [Requests -> Row], \A s \in Requests : GoodRow(row'[s]), KaraTypes',
         UNCHANGED <<active, hr, pending>>
  PROVE  LeaveInv'
<1>1. job' = [v \in Workers |-> job'[v]] /\ \A v \in Workers : GoodJob(job'[v])
  BY NextJob DEF Goes
<1> QED
  BY <1>1 DEF LeaveInv, StaffTypes, Inactive

(* Live requests.                                                          *)
LEMMA LiveRow ==
  ASSUME LeaveInv, NEW r \in Requests
  PROVE  /\ GoodRow(row[r]) /\ row[r] \in Row
         /\ Live(r) => /\ row[r].what \in Whats /\ row[r].what[1] \in Kinds /\ row[r].what[2] \in Times
                       /\ row[r].cur \in Employees \ {Owner}
<1>1. GoodRow(row[r])
  BY DEF LeaveInv
<1> QED
  BY <1>1, LeaveAssumption DEF GoodRow, Live

(* A supervisor is never the owner.                                        *)
LEMMA SupervisorNotOwner ==
  ASSUME NEW gone, NEW e \in Supervisors(gone)
  PROVE  e \in Maybe(Employees \ {Owner})
<1>1. ByHand(gone) \in Maybe(Employees \ {Owner})
  BY LeaveAssumption DEF ByHand, Maybe
<1>2. FirstManager(gone) \in Maybe(Employees \ {Owner})
  <2> DEFINE ok == {i \in DOMAIN Chain : Chain[i] \notin gone \cup {Owner}}
             x  == CHOOSE i \in ok : \A k \in ok : i <= k
  <2>1. CASE ok = {}
    BY <2>1 DEF FirstManager, Maybe
  <2>2. CASE ok # {}
    <3>1. ok \in SUBSET Nat
      BY LeaveAssumption
    <3>2. \E i \in ok : \A k \in ok : i <= k
      <4>1. PICK m \in ok : \A k \in ok : <<k, m>> \notin OpToRel(<, Nat)
        <5> HIDE DEF ok
        <5> QED
          BY <2>2, <3>1, NatLessThanWellFounded, WFMin
      <4>2. m \in Nat /\ \A k \in ok : k \in Nat
        BY <3>1
      <4> HIDE DEF ok
      <4>3. \A k \in ok : ~(k < m)
        BY <4>1, <4>2 DEF OpToRel
      <4> QED
        BY <4>2, <4>3
    <3>3. x \in ok
      BY <3>2
    <3>4. FirstManager(gone) = Chain[x]
      BY <2>2 DEF FirstManager
    <3>5. Chain[x] \in Employees \ {Owner}
      BY <3>3, LeaveAssumption
    <3> QED
      BY <3>4, <3>5 DEF Maybe
  <2> QED
    BY <2>1, <2>2
<1> QED
  BY <1>1, <1>2 DEF Supervisors

(* The moves that are worked out for those who left, or for the officer    *)
(* who was replaced.                                                       *)
LEMMA GoodMoves ==
  ASSUME LeaveInv, NEW from, NEW gone, NEW officer \in Maybe(Officers), NEW manager,
         NEW hrOnly \in BOOLEAN, NEW left \in Maybe(Leavers),
         from \subseteq Leavers \cap Employees \/ (hrOnly /\ from \subseteq Employees)
  PROVE  GoodJob([do |-> "reassign", left |-> left,
                  moves |-> Moves(from, gone, officer, manager, hrOnly)])
<1> DEFINE ms == Moves(from, gone, officer, manager, hrOnly)
           j  == [do |-> "reassign", left |-> left, moves |-> ms]
<1>1. ms \subseteq [req : Requests, from : Employees, to : Employees]
  BY DEF Moves
<1>2. \A m \in ms : /\ m.to # Owner /\ m.to # None
                    /\ m.from \in from /\ (hrOnly => AtHr(m.req))
                    /\ AtHr(m.req) => m.to = officer
  BY DEF Moves, ValidTarget
<1>3. \A m \in ms : m.to # Owner /\ (m.to \in Officers \/ m.from \in Leavers)
  BY <1>2 DEF Maybe
<1> HIDE DEF ms
<1>4. TypedJob(j)
  BY <1>1 DEF TypedJob
<1>5. GoodJob(j)
  BY <1>3, <1>4 DEF GoodJob
<1> QED
  BY <1>5 DEF ms

-----------------------------------------------------------------------------
(* The handlers begin.                                                     *)
LEMMA HandlersKeep ==
  ASSUME LeaveInv, NEW w \in Workers, Handlers(w)
  PROVE  LeaveInv'
<1>0. hr \in Maybe(Officers) /\ Inactive \subseteq Leavers \cap Employees
  BY DEF LeaveInv, StaffTypes, Inactive
<1>1. ASSUME NEW r \in Requests, NEW what \in Whats, BeginSubmit(w, r, what) PROVE LeaveInv'
  <2>1. PICK cur \in Supervisors(Inactive) \ {None} :
          Begins(w, [do |-> "insert", req |-> r, what |-> what, cur |-> cur])
    BY <1>1 DEF BeginSubmit
  <2>2. cur \in Employees \ {Owner}
    BY SupervisorNotOwner DEF Maybe
  <2>3. GoodJob([do |-> "insert", req |-> r, what |-> what, cur |-> cur])
    BY <2>2 DEF GoodJob, TypedJob, Job
  <2> QED
    BY <1>0, <2>1, <2>3, Begun DEF Begins, kara
<1>2. ASSUME NEW r \in Requests, NEW e \in Employees, NEW approved \in BOOLEAN,
             BeginDecide(w, r, e, approved)
      PROVE  LeaveInv'
  <2> DEFINE final == IF approved THEN "approved" ELSE "rejected"
             up == [do |-> "move_up", req |-> r, to |-> hr]
             decide == [do |-> "decide", req |-> r, by |-> e, what |-> row[r].what, final |-> final]
  <2>1. /\ Live(r) /\ CanActOn(e, r)
        /\ (Begins(w, up) /\ MovesUp(e, r) /\ hr \in active) \/ Begins(w, decide)
    BY <1>2 DEF BeginDecide, Undecided
  <2>2. row[r].what \in Whats /\ e # Owner
    BY <2>1, LiveRow DEF CanActOn
  <2>3. final \in {"approved", "rejected"}
    OBVIOUS
  <2> HIDE DEF final
  <2>4. GoodJob(decide)
    BY <2>2, <2>3 DEF GoodJob, TypedJob, Job
  <2>5. MovesUp(e, r) /\ hr \in active => GoodJob(up)
    <3> SUFFICES ASSUME MovesUp(e, r), hr \in active PROVE GoodJob(up)
      OBVIOUS
    <3>1. hr \in Employees /\ hr \in Officers \ {Owner}
      BY LeaveAssumption DEF LeaveInv, StaffTypes, MovesUp, Maybe
    <3> QED
      BY <3>1 DEF GoodJob, TypedJob, Job
  <2> HIDE DEF up, decide
  <2> QED
    BY <1>0, <2>1, <2>4, <2>5, Begun DEF Begins, kara
<1>3. ASSUME NEW r \in Requests,
             \/ BeginDelete(w, r) \/ BeginAdminDelete(w, r)
             \/ \E edit \in Edits : BeginEdit(w, r, edit)
      PROVE  LeaveInv'
  <2>1. PICK edit : \/ BeginDelete(w, r) \/ BeginAdminDelete(w, r)
                    \/ edit \in Edits /\ BeginEdit(w, r, edit)
    BY <1>3
  <2> DEFINE delete == [do |-> "delete_rows", req |-> r]
             write  == [do |-> "write", req |-> r, edit |-> edit]
             revert(next) == [do |-> "revert", req |-> r, what |-> row[r].what, next |-> next]
  <2>2. /\ Live(r) /\ \/ Begins(w, delete) \/ Begins(w, revert(delete))
                      \/ edit \in Edits /\ (Begins(w, write) \/ Begins(w, revert(write)))
    BY <2>1 DEF BeginDelete, BeginAdminDelete, BeginEdit, Undecided
  <2>3. row[r].what \in Whats
    BY <2>2, LiveRow
  <2>4. /\ delete \in Job /\ delete.do = "delete_rows" /\ GoodJob(delete)
        /\ edit \in Edits => write \in Job /\ write.do = "write" /\ GoodJob(write)
    BY DEF GoodJob, TypedJob, Job
  <2>5. \A next \in Job : next.do \in {"write", "delete_rows"} => GoodJob(revert(next))
    BY <2>3 DEF GoodJob, TypedJob
  <2> HIDE DEF delete, write, revert
  <2> QED
    BY <1>0, <2>2, <2>4, <2>5, Begun DEF Begins, kara
<1>4. ASSUME NEW e \in Leavers, EmployeeLeaves(w, e) PROVE LeaveInv'
  <2>1. PICK manager : /\ e \in active
                       /\ Begins(w, [do |-> "reassign", left |-> e,
                                     moves |-> Moves({e}, Inactive \cup {e}, hr, manager, FALSE)])
    BY <1>4 DEF EmployeeLeaves
  <2>2. {e} \subseteq Leavers \cap Employees /\ e \in Maybe(Leavers)
    BY <2>1 DEF LeaveInv, StaffTypes, Maybe
  <2>3. GoodJob([do |-> "reassign", left |-> e,
                 moves |-> Moves({e}, Inactive \cup {e}, hr, manager, FALSE)])
    BY <1>0, <2>2, GoodMoves
  <2> QED
    BY <1>0, <2>1, <2>3, Begun DEF Begins, kara
<1>5. ASSUME NEW h \in Officers, SetHrOfficer(w, h) PROVE LeaveInv'
  <2>1. hr' = h /\ UNCHANGED <<row, punch, days, active, pending>>
    BY <1>5 DEF SetHrOfficer, kara
  <2>2. h \in Maybe(Officers) /\ None \in Maybe(Leavers)
    BY DEF Maybe
  <2>3. CASE hr = None
    BY <1>5, <2>1, <2>2, <2>3 DEF SetHrOfficer, LeaveInv, KaraTypes, StaffTypes, Inactive
  <2>4. CASE hr # None
    <3>1. {hr} \subseteq Employees
      BY <1>0, <2>4, LeaveAssumption DEF Maybe
    <3>2. GoodJob([do |-> "reassign", left |-> None, moves |-> Moves({hr}, Inactive, h, None, TRUE)])
      BY <2>2, <3>1, GoodMoves
    <3> QED
      BY <1>5, <2>1, <2>2, <2>4, <3>2, Begun DEF SetHrOfficer
  <2> QED
    BY <2>3, <2>4
<1>6. ASSUME ReassignStuck(w) PROVE LeaveInv'
  <2>1. PICK manager : Begins(w, [do |-> "reassign", left |-> None,
                                  moves |-> Moves(Inactive, Inactive, hr, manager, FALSE)])
    BY <1>6 DEF ReassignStuck
  <2>2. None \in Maybe(Leavers)
    BY DEF Maybe
  <2>3. GoodJob([do |-> "reassign", left |-> None,
                 moves |-> Moves(Inactive, Inactive, hr, manager, FALSE)])
    BY <1>0, <2>2, GoodMoves
  <2> QED
    BY <1>0, <2>1, <2>3, Begun DEF Begins, kara
<1> QED
  BY <1>1, <1>2, <1>3, <1>4, <1>5, <1>6 DEF Handlers

-----------------------------------------------------------------------------
(* The calls to Kara.                                                      *)

(* A row of which only the outcome, the approver or what was asked changes *)
(* stays a good one.                                                       *)
LEMMA DecidedRow ==
  ASSUME NEW q, GoodRow(q), NEW final \in Finals, NEW by \in Maybe(Employees), by # Owner
  PROVE  GoodRow([q EXCEPT !.final = final, !.by = by])
  BY DEF GoodRow, Row

LEMMA RowAtOfficer ==
  ASSUME NEW q, GoodRow(q), NEW e \in Employees \ {Owner}
  PROVE  GoodRow([q EXCEPT !.cur = e, !.moved = TRUE])
  BY DEF GoodRow, Row, Maybe

LEMMA EditedRow ==
  ASSUME NEW q, GoodRow(q), NEW final \in Finals, NEW what \in Whats
  PROVE  GoodRow([q EXCEPT !.final = final, !.what = what])
  BY DEF GoodRow, Row, Maybe

LEMMA NoOwner == None # Owner /\ GoodRow(NewRow) /\ GoodRow([NewRow EXCEPT !.state = "deleted"])
<1>1. None # Owner
  BY LeaveAssumption
<1> QED
  BY <1>1 DEF GoodRow, NewRow, Row, Maybe, Finals, Accepts

(* The effects keep the types.                                             *)
LEMMA PunchType ==
  ASSUME NEW p \in Punch
  PROVE  /\ [p EXCEPT !.mark = "marked"] \in Punch /\ [p EXCEPT !.mark = "plain"] \in Punch
         /\ NoPunch \in Punch /\ [from |-> "portal", mark |-> "plain"] \in Punch
  BY DEF Punch, NoPunch

LEMMA Applied ==
  ASSUME LeaveInv, NEW r \in Requests, NEW what \in Whats, Apply(r, what)
  PROVE  KaraTypes' /\ row' \in [Requests -> Row] /\ \A s \in Requests : GoodRow(row'[s])
<1> DEFINE k == what[1]
           t == what[2]
           p == CASE k = "hourly" /\ Markable(t)          -> [punch[t] EXCEPT !.mark = "marked"]
                  [] k = "forgotten" /\ punch[t] = NoPunch -> [from |-> "portal", mark |-> "plain"]
                  [] OTHER                                 -> punch[t]
           d == IF k = "daily" THEN days[t] + 1 ELSE days[t]
           a == IF k = "hourly" /\ ~Markable(t) THEN "waiting" ELSE "applied"
<1>1. t \in Times /\ punch \in [Times -> Punch] /\ days \in [Times -> 0..MaxDays] /\ MaxDays \in Nat
  BY LeaveAssumption DEF LeaveInv, KaraTypes
<1>2. /\ k = "daily" => days[t] < MaxDays
      /\ punch' = [punch EXCEPT ![t] = p]
      /\ days' = [days EXCEPT ![t] = d]
      /\ Updated(r, [row[r] EXCEPT !.accept = a])
  BY <1>1 DEF Apply
<1>3. p \in Punch
  BY <1>1, PunchType
<1>4. d \in 0..MaxDays
  BY <1>1, <1>2
<1>5. a \in Accepts
  BY DEF Accepts
<1> HIDE DEF p, d, a
<1>6. KaraTypes'
  BY <1>1, <1>2, <1>3, <1>4 DEF KaraTypes
<1>7. GoodRow([row[r] EXCEPT !.accept = a])
  BY <1>5, LiveRow DEF GoodRow, Row
<1> QED
  BY <1>2, <1>6, <1>7, RowWritten

(* The effect of one request is taken back at its time.                    *)
LEMMA TakenBack ==
  ASSUME LeaveInv, NEW t \in Times, NEW p, p \in Punch, NEW d, d \in {days[t], days[t] - 1},
         d < days[t] => days[t] > 0,
         punch' = [punch EXCEPT ![t] = p], days' = [days EXCEPT ![t] = d]
  PROVE  KaraTypes'
<1>1. punch \in [Times -> Punch] /\ days \in [Times -> 0..MaxDays] /\ MaxDays \in Nat
  BY LeaveAssumption DEF LeaveInv, KaraTypes
<1>2. d \in 0..MaxDays
  BY <1>1
<1> QED
  BY <1>1, <1>2 DEF KaraTypes

LEMMA RevertKeeps ==
  ASSUME LeaveInv, NEW r, NEW what \in Whats, RevertEffects(r, what)
  PROVE  KaraTypes' /\ row' \in [Requests -> Row] /\ \A s \in Requests : GoodRow(row'[s])
<1> DEFINE k == what[1]
           t == what[2]
           applied == Live(r) /\ row[r].accept = "applied"
           p == CASE k = "hourly" /\ applied -> [punch[t] EXCEPT !.mark = "plain"]
                  [] k = "forgotten" /\ applied /\ punch[t].from = "portal" -> NoPunch
                  [] OTHER -> punch[t]
           d == IF k = "daily" /\ days[t] > 0 THEN days[t] - 1 ELSE days[t]
<1>1. t \in Times /\ punch \in [Times -> Punch] /\ days \in [Times -> 0..MaxDays]
  BY LeaveAssumption DEF LeaveInv, KaraTypes
<1>2. punch' = [punch EXCEPT ![t] = p] /\ days' = [days EXCEPT ![t] = d] /\ row' = row
  BY <1>1 DEF RevertEffects
<1>3. p \in Punch
  BY <1>1, PunchType
<1>4. d \in {days[t], days[t] - 1} /\ (d < days[t] => days[t] > 0)
  BY <1>1
<1> HIDE DEF p, d
<1>5. KaraTypes'
  BY <1>1, <1>2, <1>3, <1>4, TakenBack
<1> QED
  BY <1>2, <1>5 DEF LeaveInv

LEMMA CallsKeep ==
  ASSUME LeaveInv, NEW w \in Workers, Calls(w)
  PROVE  LeaveInv'
<1> DEFINE j == job[w]
           r == j.req
<1>0. GoodJob(j) /\ KaraTypes /\ None # Owner
  BY NoOwner DEF LeaveInv
<1>1. CASE Insert(w)
  <2> DEFINE q == [NewRow EXCEPT !.state = "live", !.what = j.what, !.cur = j.cur]
  <2>1. r \in Requests /\ j.what \in Whats /\ j.cur \in Employees \ {Owner}
    BY <1>0, <1>1, JobShape DEF Insert, Only
  <2>2. GoodRow(q)
    BY <1>0, <2>1 DEF GoodRow, NewRow, Row, Maybe, Finals, Accepts
  <2>3. row' = [row EXCEPT ![r] = q]
    BY <1>1 DEF Insert
  <2> HIDE DEF q
  <2>4. row' \in [Requests -> Row] /\ \A s \in Requests : GoodRow(row'[s])
    <3>1. \A s \in Requests : row'[s] = IF s = r THEN q ELSE row[s]
      BY <2>3 DEF LeaveInv
    <3> QED
      BY <2>2, <2>3, <3>1 DEF LeaveInv, GoodRow
  <2>5. KaraTypes'
    BY <1>0, <1>1 DEF Insert, KaraTypes
  <2> QED
    BY <1>1, <2>4, <2>5, IdleJob, Called DEF Insert, Only, Done
<1>2. CASE MoveUp(w)
  <2> DEFINE q == [row[r] EXCEPT !.cur = j.to, !.moved = TRUE]
  <2>1. r \in Requests /\ j.to \in Employees \ {Owner}
    BY <1>0, <1>2, JobShape DEF MoveUp, Only
  <2>2. GoodRow(q)
    <3>1. GoodRow(row[r])
      BY <2>1, LiveRow
    <3> QED
      BY <2>1, <3>1, RowAtOfficer, Zenon
  <2>3. Updated(r, q)
    BY <1>2 DEF MoveUp
  <2> HIDE DEF q
  <2>4. KaraTypes'
    BY <1>0, <1>2 DEF MoveUp, KaraTypes
  <2> QED
    BY <1>2, <2>1, <2>2, <2>3, <2>4, RowWritten, IdleJob, Called DEF MoveUp, Only, Done
<1>3. CASE WriteDecision(w)
  <2> DEFINE q == [row[r] EXCEPT !.final = j.final, !.by = j.by]
             a == [do |-> "apply", req |-> r, what |-> j.what]
  <2>1. /\ r \in Requests /\ j.by \in Employees \ {Owner} /\ j.final \in {"approved", "rejected"}
        /\ j.what \in Whats
    BY <1>0, <1>3, JobShape DEF WriteDecision, Only
  <2>2. GoodRow(q)
    <3>1. GoodRow(row[r])
      BY <2>1, LiveRow
    <3>2. j.final \in Finals /\ j.by \in Maybe(Employees) /\ j.by # Owner
      BY <2>1 DEF Finals, Maybe
    <3> QED
      BY <3>1, <3>2, DecidedRow, Zenon
  <2>3. Updated(r, q)
    BY <1>3 DEF WriteDecision
  <2> HIDE DEF q
  <2>4. KaraTypes'
    BY <1>0, <1>3 DEF WriteDecision, KaraTypes
  <2>5. GoodJob(a)
    BY <2>1 DEF GoodJob, TypedJob, Job
  <2>6. Goes(w, a) \/ Goes(w, Idle)
    BY <1>3 DEF WriteDecision, Done
  <2> QED
    BY <1>3, <2>1, <2>2, <2>3, <2>4, <2>5, <2>6, RowWritten, IdleJob, Called DEF WriteDecision, Only
<1>4. CASE ApplyDecision(w) \/ ApplyEdit(w)
  <2>1. r \in Requests /\ j.what \in Whats
    BY <1>0, <1>4, JobShape DEF ApplyDecision, ApplyEdit, Only
  <2>2. Apply(r, j.what) /\ Goes(w, Idle) /\ UNCHANGED <<active, hr, pending>>
    BY <1>4 DEF ApplyDecision, ApplyEdit, Only, Done
  <2> QED
    BY <2>1, <2>2, Applied, IdleJob, Called
<1>5. CASE ApplyFails(w)
  <2>1. r \in Requests
    BY <1>0, <1>5, JobShape DEF ApplyFails, Only
  <2>2. GoodJob([do |-> "undo", req |-> r])
    BY <2>1 DEF GoodJob, TypedJob, Job
  <2>3. hr' \in Maybe(Officers) /\ Goes(w, [do |-> "undo", req |-> r])
        /\ UNCHANGED <<row, punch, days, active, pending>>
    BY <1>5 DEF ApplyFails, Only, kara, LeaveInv, StaffTypes
  <2> QED
    BY <2>2, <2>3, Begun
<1>6. CASE UndoDecision(w)
  <2> DEFINE q == [row[r] EXCEPT !.final = "undecided", !.by = None]
  <2>1. r \in Requests
    BY <1>0, <1>6, JobShape DEF UndoDecision, Only
  <2>2. GoodRow(q)
    <3>1. GoodRow(row[r])
      BY <2>1, LiveRow
    <3>2. "undecided" \in Finals /\ None \in Maybe(Employees)
      BY DEF Finals, Maybe
    <3> QED
      BY <1>0, <3>1, <3>2, DecidedRow, Zenon
  <2>3. Updated(r, q)
    BY <1>6 DEF UndoDecision
  <2> HIDE DEF q
  <2>4. KaraTypes'
    BY <1>0, <1>6 DEF UndoDecision, KaraTypes
  <2> QED
    BY <1>6, <2>1, <2>2, <2>3, <2>4, RowWritten, IdleJob, Called DEF UndoDecision, Only, Done
<1>7. CASE Revert(w)
  <2>1. GoodJob(j.next) /\ j.what \in Whats
    BY <1>0, <1>7, JobShape DEF Revert, Only, GoodJob, TypedJob
  <2>2. RevertEffects(r, j.what)
    BY <1>7 DEF Revert
  <2>3. KaraTypes' /\ row' = row
    BY <2>1, <2>2, RevertKeeps DEF RevertEffects
  <2>4. row' \in [Requests -> Row] /\ \A s \in Requests : GoodRow(row'[s])
    BY <2>3 DEF LeaveInv
  <2> QED
    BY <1>7, <2>1, <2>3, <2>4, Called DEF Revert, Only
<1>8. CASE DeleteDependentRows(w)
  <2> DEFINE q == [row[r] EXCEPT !.moved = FALSE]
  <2>1. r \in Requests
    BY <1>0, <1>8, JobShape DEF DeleteDependentRows, Only
  <2>2. GoodRow(q)
    BY ZenonT(60), <2>1, LiveRow DEF GoodRow, Row
  <2>3. Updated(r, q)
    BY <1>8 DEF DeleteDependentRows
  <2> HIDE DEF q
  <2>4. KaraTypes'
    BY <1>0, <1>8 DEF DeleteDependentRows, KaraTypes
  <2>5. GoodJob([do |-> "delete", req |-> r])
    BY <2>1 DEF GoodJob, TypedJob, Job
  <2> QED
    BY <1>8, <2>1, <2>2, <2>3, <2>4, <2>5, RowWritten, Called DEF DeleteDependentRows, Only
<1>9. CASE DeleteRow(w)
  <2>1. r \in Requests /\ Updated(r, [NewRow EXCEPT !.state = "deleted"])
    BY <1>0, <1>9, JobShape DEF DeleteRow, Only
  <2>2. KaraTypes'
    BY <1>0, <1>9 DEF DeleteRow, KaraTypes
  <2> QED
    BY <1>9, <2>1, <2>2, NoOwner, RowWritten, IdleJob, Called DEF DeleteRow, Only, Done
<1>10. CASE WriteEdit(w)
  <2> DEFINE final == IF j.edit.final = None THEN row[r].final ELSE j.edit.final
             what  == IF j.edit.what = None THEN row[r].what ELSE j.edit.what
             q     == [row[r] EXCEPT !.final = final, !.what = what]
  <2>1. r \in Requests /\ j.edit \in [final : Maybe(Finals), what : Maybe(Whats)]
    BY <1>0, <1>10, JobShape, LeaveAssumption DEF WriteEdit, Only
  <2>2. Updated(r, q)
    BY <1>10 DEF WriteEdit
  <2>3. final \in Finals /\ (Live(r) => what \in Whats)
    BY <2>1, LiveRow DEF Row, Maybe
  <2> HIDE DEF final, what
  <2>4. Live(r) => GoodRow(q)
    <3>1. GoodRow(row[r])
      BY <2>1, LiveRow
    <3> QED
      BY <2>3, <3>1, EditedRow, Zenon
  <2> HIDE DEF q
  <2>5. KaraTypes'
    BY <1>0, <1>10 DEF WriteEdit, KaraTypes
  <2>6. GoodJob([do |-> "reread", req |-> r])
    BY <2>1 DEF GoodJob, TypedJob, Job
  <2> QED
    BY <1>10, <2>1, <2>2, <2>4, <2>5, <2>6, RowWritten, Called DEF WriteEdit, Only
<1>11. CASE Reread(w)
  <2> DEFINE a == [do |-> "apply_edit", req |-> r, what |-> row[r].what]
             c == [do |-> "clear", req |-> r]
  <2>1. r \in Requests
    BY <1>0, <1>11, JobShape DEF Reread, Only
  <2>2. GoodJob(c) /\ (Live(r) => GoodJob(a))
    BY <2>1, LiveRow DEF GoodJob, TypedJob, Job
  <2>3. Goes(w, Idle) \/ Goes(w, c) \/ (Live(r) /\ Goes(w, a))
    BY <1>11 DEF Reread, Done
  <2>4. hr' \in Maybe(Officers) /\ UNCHANGED <<row, punch, days, active, pending>>
    BY <1>11 DEF Reread, Only, kara, LeaveInv, StaffTypes
  <2> HIDE DEF a, c
  <2> QED
    BY <2>2, <2>3, <2>4, IdleJob, Begun
<1>12. CASE ClearAcceptCode(w)
  <2> DEFINE q == [row[r] EXCEPT !.accept = "none"]
  <2>1. r \in Requests
    BY <1>0, <1>12, JobShape DEF ClearAcceptCode, Only
  <2>2. GoodRow(q)
    BY <2>1, LiveRow DEF GoodRow, Row, Accepts
  <2>3. Updated(r, q)
    BY <1>12 DEF ClearAcceptCode
  <2> HIDE DEF q
  <2>4. KaraTypes'
    BY <1>0, <1>12 DEF ClearAcceptCode, KaraTypes
  <2> QED
    BY <1>12, <2>1, <2>2, <2>3, <2>4, RowWritten, IdleJob, Called DEF ClearAcceptCode, Only, Done
<1>13. ASSUME NEW m \in j.moves, j.do = "reassign", Move(w, m) \/ MoveFails(w, m) PROVE LeaveInv'
  <2> DEFINE n == [j EXCEPT !.moves = @ \ {m}]
             q == [row[m.req] EXCEPT !.cur = m.to]
  <2>1. /\ j.moves \subseteq [req : Requests, from : Employees, to : Employees]
        /\ \A x \in j.moves : x.to # Owner /\ (x.to \in Officers \/ x.from \in Leavers)
        /\ j.left \in Maybe(Leavers)
    BY <1>0, <1>13, JobShape
  <2>2. m.req \in Requests /\ m.to \in Employees \ {Owner}
    BY <2>1
  <2>3. GoodJob(n)
    <3>1. n.do = "reassign" /\ n.left = j.left /\ n.moves \subseteq j.moves
      BY <1>13
    <3> HIDE DEF n, j
    <3>2. TypedJob(n)
      BY <2>1, <3>1 DEF TypedJob
    <3> QED
      BY <2>1, <3>1, <3>2 DEF GoodJob
  <2>4. GoodRow(q)
    BY <2>2, LiveRow DEF GoodRow, Row, Maybe
  <2>5. row' = row \/ row' = [row EXCEPT ![m.req] = q]
    BY <1>13, <2>2 DEF Move, MoveFails, kara, LeaveInv
  <2> HIDE DEF q
  <2>6. row' \in [Requests -> Row] /\ \A s \in Requests : GoodRow(row'[s])
    <3>1. row' = row \/ \A s \in Requests : row'[s] = IF s = m.req THEN q ELSE row[s]
      BY <2>5 DEF LeaveInv
    <3> QED
      BY <2>4, <2>5, <3>1 DEF LeaveInv, GoodRow
  <2>7. KaraTypes' /\ Goes(w, n) /\ UNCHANGED <<active, hr, pending>>
    BY <1>0, <1>13 DEF Move, MoveFails, Only, kara, KaraTypes
  <2> HIDE DEF n, j
  <2> QED
    BY <2>3, <2>6, <2>7, Called
<1>14. CASE EndReassign(w)
  <2>1. j.left \in Maybe(Leavers)
    BY <1>0, <1>14, JobShape DEF EndReassign
  <2>2. active' = active \ {j.left} /\ UNCHANGED <<row, punch, days, hr, pending>> /\ Goes(w, Idle)
    BY <1>14 DEF EndReassign, kara, Done
  <2>3. StaffTypes'
    <3>1. Inactive' \subseteq Inactive \cup (Employees \cap {j.left})
      BY <2>2 DEF Inactive
    <3>2. Employees \cap {j.left} \subseteq Leavers
      BY <2>1, LeaveAssumption DEF Maybe
    <3> QED
      BY <2>2, <3>1, <3>2 DEF LeaveInv, StaffTypes
  <2>4. job' = [v \in Workers |-> job'[v]] /\ \A v \in Workers : GoodJob(job'[v])
    BY <2>2, IdleJob, NextJob DEF Goes
  <2> QED
    BY <2>2, <2>3, <2>4 DEF LeaveInv, KaraTypes
<1> QED
  BY <1>1, <1>2, <1>3, <1>4, <1>5, <1>6, <1>7, <1>8, <1>9, <1>10, <1>11, <1>12, <1>13, <1>14
     DEF Calls

-----------------------------------------------------------------------------
(* The scheduler, Kara and the devices.                                    *)
LEMMA SchedulerKeeps ==
  ASSUME LeaveInv, Scheduler
  PROVE  LeaveInv'
<1>0. pending \subseteq Requests \X Whats
  BY DEF LeaveInv
<1>1. CASE SelectPending
  <2>1. /\ pending' \subseteq {<<r, row[r].what>> : r \in {s \in Requests : Live(s)}}
        /\ UNCHANGED <<row, punch, days, active, hr, job>>
    BY <1>1 DEF SelectPending, Waiting, kara
  <2>2. \A r \in Requests : Live(r) => row[r].what \in Whats
    BY LiveRow
  <2>3. pending' \subseteq Requests \X Whats
    BY <2>1, <2>2
  <2> QED
    BY <2>1, <2>3 DEF LeaveInv, KaraTypes, StaffTypes, Inactive
<1>2. ASSUME NEW p \in pending, ApplyPending(p) \/ PendingFails(p) PROVE LeaveInv'
  <2>1. p[1] \in Requests /\ p[2] \in Whats /\ pending' \subseteq pending
        /\ UNCHANGED <<active, hr, job>>
    BY <1>0, <1>2 DEF ApplyPending, PendingFails
  <2>2. Apply(p[1], p[2]) \/ UNCHANGED kara
    BY <1>2 DEF ApplyPending, PendingFails
  <2>3. KaraTypes' /\ row' \in [Requests -> Row] /\ \A s \in Requests : GoodRow(row'[s])
    <3>1. CASE Apply(p[1], p[2])
      BY <2>1, <3>1, Applied
    <3>2. CASE UNCHANGED kara
      BY <3>2 DEF kara, LeaveInv, KaraTypes
    <3> QED
      BY <2>2, <3>1, <3>2
  <2> QED
    BY <1>0, <2>1, <2>3 DEF LeaveInv, StaffTypes, Inactive
<1> QED
  BY <1>1, <1>2 DEF Scheduler

LEMMA OutsideKeeps ==
  ASSUME LeaveInv, Outside
  PROVE  LeaveInv'
<1>0. punch \in [Times -> Punch] /\ days \in [Times -> 0..MaxDays]
  BY DEF LeaveInv, KaraTypes
<1>1. CASE RemoveHrOfficer
  BY <1>1 DEF RemoveHrOfficer, kara, LeaveInv, KaraTypes, StaffTypes, Inactive, Maybe
<1>2. ASSUME NEW r \in Requests, KaraCancels(r) PROVE LeaveInv'
  <2> DEFINE k == row[r].what[1]
             t == row[r].what[2]
             a == row[r].accept = "applied"
             q == [row[r] EXCEPT !.accept = "cancelled"]
             p == CASE a /\ k = "hourly" -> [punch[t] EXCEPT !.mark = "plain"]
                    [] a /\ k = "forgotten" /\ punch[t].from = "portal" -> NoPunch
                    [] OTHER -> punch[t]
             d == IF a /\ k = "daily" /\ days[t] > 0 THEN days[t] - 1 ELSE days[t]
  <2>1. Live(r) /\ t \in Times
    BY <1>2, LiveRow DEF KaraCancels
  <2>2. /\ punch' = [punch EXCEPT ![t] = p] /\ days' = [days EXCEPT ![t] = d]
        /\ row' = [row EXCEPT ![r] = q] /\ UNCHANGED <<active, hr, job, pending>>
    BY <1>0, <1>2, <2>1 DEF KaraCancels
  <2>3. p \in Punch
    BY <1>0, <2>1, PunchType
  <2>4. d \in {days[t], days[t] - 1} /\ (d < days[t] => days[t] > 0)
    BY <1>0, <2>1
  <2>5. GoodRow(q)
    BY LiveRow DEF GoodRow, Row, Accepts
  <2> HIDE DEF p, d, q
  <2>6. KaraTypes'
    <3> HIDE DEF t
    <3> QED
      BY <2>1, <2>2, <2>3, <2>4, TakenBack
  <2>7. Updated(r, q)
    BY <2>1, <2>2 DEF Updated
  <2>8. row' \in [Requests -> Row] /\ \A s \in Requests : GoodRow(row'[s])
    BY <2>5, <2>7, RowWritten
  <2> QED
    BY <2>2, <2>6, <2>8 DEF LeaveInv, StaffTypes, Inactive
<1>3. ASSUME NEW t \in Times, NEW mark \in {"plain", "card"}, DeviceWrites(t, mark) PROVE LeaveInv'
  <2>1. [from |-> "device", mark |-> mark] \in Punch
    BY DEF Punch
  <2>2. punch' = [punch EXCEPT ![t] = [from |-> "device", mark |-> mark]]
        /\ UNCHANGED <<row, days, active, hr, job, pending>>
    BY <1>3 DEF DeviceWrites
  <2>3. KaraTypes'
    BY <1>0, <2>1, <2>2 DEF KaraTypes
  <2> QED
    BY <2>2, <2>3 DEF LeaveInv, StaffTypes, Inactive
<1> QED
  BY <1>1, <1>2, <1>3 DEF Outside

LEMMA LeaveInit == Init => LeaveInv
<1> SUFFICES ASSUME Init PROVE LeaveInv
  OBVIOUS
<1>1. NewRow \in Row /\ NewRow.state = "new" /\ GoodRow(NewRow)
  BY NoOwner DEF GoodRow, NewRow
<1>2. NoPunch \in Punch
  BY DEF NoPunch, Punch
<1>3. 0 \in 0..MaxDays
  BY LeaveAssumption
<1>4. Inactive = {}
  BY DEF Init, Inactive
<1> QED
  BY <1>1, <1>2, <1>3, <1>4, IdleJob DEF Init, LeaveInv, KaraTypes, StaffTypes, Maybe

LEMMA LeaveStep == LeaveInv /\ [Next]_vars => LeaveInv'
<1> SUFFICES ASSUME LeaveInv, [Next]_vars PROVE LeaveInv'
  OBVIOUS
<1>1. ASSUME NEW w \in Workers, Stop(w) PROVE LeaveInv'
  <2>1. Goes(w, Idle) /\ hr' \in Maybe(Officers) /\ UNCHANGED <<row, punch, days, active, pending>>
    BY <1>1 DEF Stop, Done, kara, LeaveInv, StaffTypes
  <2> QED
    BY <2>1, IdleJob, Begun
<1>2. CASE UNCHANGED vars
  BY <1>2 DEF vars, LeaveInv, KaraTypes, StaffTypes, Inactive
<1> QED
  BY <1>1, <1>2, HandlersKeep, CallsKeep, SchedulerKeeps, OutsideKeeps DEF Next, Steps

THEOREM LeaveInvHolds == Spec => []LeaveInv
  BY LeaveInit, LeaveStep, PTL DEF Spec

-----------------------------------------------------------------------------
(* Every row, clocking and job keeps its type.                             *)
THEOREM TypeCorrect == Spec => []TypeOK
<1>1. LeaveInv => TypeOK
  BY DEF LeaveInv, GoodJob, TypedJob, KaraTypes, StaffTypes, Punch, TypeOK
<1> QED
  BY <1>1, LeaveInvHolds, PTL

(* Nobody decides on his own request, whatever a handler read before the   *)
(* request was moved up, moved over, edited or reopened.                   *)
THEOREM NoSelfDecisionHolds == Spec => []NoSelfDecision
<1>1. LeaveInv => NoSelfDecision
  BY DEF LeaveInv, GoodRow, NoSelfDecision
<1> QED
  BY <1>1, LeaveInvHolds, PTL

-----------------------------------------------------------------------------
(* A request that was moved up is at an officer's desk.  A move that was   *)
(* worked out before does not take it away: it goes to an officer itself,  *)
(* or it is for the desk of somebody who leaves and was not moved up.      *)
HrRow(q) == q.state = "live" /\ q.moved => q.cur \in Officers
HrInv    == \A r \in Requests : HrRow(row[r])

LEMMA HrWritten ==
  ASSUME LeaveInv, HrInv, NEW r \in Requests, NEW q, Live(r) => HrRow(q),
         (Live(r) /\ row' = [row EXCEPT ![r] = q]) \/ Updated(r, q)
  PROVE  HrInv'
<1>1. row' = row \/ \A s \in Requests : row'[s] = IF s = r THEN q ELSE row[s]
  BY DEF Updated, LeaveInv
<1>2. CASE Live(r)
  BY <1>1, <1>2 DEF HrInv
<1>3. CASE ~Live(r)
  BY <1>1, <1>3 DEF HrInv, Updated
<1> QED
  BY <1>2, <1>3

LEMMA HrApplied ==
  ASSUME LeaveInv, HrInv, NEW r \in Requests, NEW what, Apply(r, what)
  PROVE  HrInv'
<1>1. PICK a : Updated(r, [row[r] EXCEPT !.accept = a])
  BY DEF Apply
<1>2. HrRow(row[r]) /\ row[r] \in Row
  BY LiveRow DEF HrInv
<1>3. HrRow([row[r] EXCEPT !.accept = a])
  BY <1>2 DEF HrRow, Row
<1> QED
  BY <1>1, <1>3, HrWritten

LEMMA HrCalls ==
  ASSUME LeaveInv, HrInv, NEW w \in Workers, Calls(w), Officers \cap Leavers = {}
  PROVE  HrInv'
<1> DEFINE j == job[w]
           r == j.req
<1>0. GoodJob(j)
  BY DEF LeaveInv
<1>1. CASE Insert(w)
  <2> DEFINE q == [NewRow EXCEPT !.state = "live", !.what = j.what, !.cur = j.cur]
  <2>1. r \in Requests /\ row' = [row EXCEPT ![r] = q] /\ ~Live(r)
    BY <1>0, <1>1, JobShape DEF Insert, Only, Live
  <2>2. q.moved = FALSE
    BY DEF NewRow
  <2> HIDE DEF q
  <2>3. \A s \in Requests : row'[s] = IF s = r THEN q ELSE row[s]
    BY <2>1 DEF LeaveInv
  <2> QED
    BY <2>2, <2>3 DEF HrInv, HrRow
<1>2. CASE MoveUp(w)
  <2> DEFINE q == [row[r] EXCEPT !.cur = j.to, !.moved = TRUE]
  <2>1. r \in Requests /\ j.to \in Officers
    BY <1>0, <1>2, JobShape DEF MoveUp, Only
  <2>2. Updated(r, q)
    BY <1>2 DEF MoveUp
  <2>3. row[r] \in Row
    BY <2>1, LiveRow
  <2>4. q.cur = j.to
    BY <2>3 DEF Row
  <2> HIDE DEF q
  <2> QED
    BY <2>1, <2>2, <2>4, HrWritten DEF HrRow
<1>3. CASE WriteDecision(w) \/ UndoDecision(w) \/ ClearAcceptCode(w) \/ WriteEdit(w)
  <2>1. PICK final, by, accept, what :
          \/ Updated(r, [row[r] EXCEPT !.final = final, !.by = by])
          \/ Updated(r, [row[r] EXCEPT !.accept = accept])
          \/ Updated(r, [row[r] EXCEPT !.final = final, !.what = what])
    BY <1>3 DEF WriteDecision, UndoDecision, ClearAcceptCode, WriteEdit
  <2>2. r \in Requests
    BY <1>0, <1>3, JobShape DEF WriteDecision, UndoDecision, ClearAcceptCode, WriteEdit, Only
  <2>3. HrRow(row[r]) /\ row[r] \in Row
    BY <2>2, LiveRow DEF HrInv
  <2> DEFINE q1 == [row[r] EXCEPT !.final = final, !.by = by]
             q2 == [row[r] EXCEPT !.accept = accept]
             q3 == [row[r] EXCEPT !.final = final, !.what = what]
  <2>4. HrRow(q1) /\ HrRow(q2) /\ HrRow(q3)
    BY <2>3 DEF HrRow, Row
  <2>5. Updated(r, q1) \/ Updated(r, q2) \/ Updated(r, q3)
    BY <2>1
  <2> HIDE DEF q1, q2, q3
  <2> QED
    BY <2>2, <2>4, <2>5, HrWritten
<1>4. CASE ApplyDecision(w) \/ ApplyEdit(w)
  <2>1. r \in Requests /\ Apply(r, j.what)
    BY <1>0, <1>4, JobShape DEF ApplyDecision, ApplyEdit, Only
  <2> QED
    BY <2>1, HrApplied
<1>5. CASE ApplyFails(w) \/ Revert(w) \/ Reread(w) \/ EndReassign(w)
  <2>1. row' = row
    BY <1>5 DEF ApplyFails, Revert, RevertEffects, Reread, EndReassign, kara
  <2> QED
    BY <2>1 DEF HrInv
<1>6. CASE DeleteDependentRows(w)
  <2> DEFINE q == [row[r] EXCEPT !.moved = FALSE]
  <2>1. r \in Requests /\ Updated(r, q)
    BY <1>0, <1>6, JobShape DEF DeleteDependentRows, Only
  <2>2. q.moved = FALSE
    BY <2>1, LiveRow DEF Row
  <2> HIDE DEF q
  <2> QED
    BY <2>1, <2>2, HrWritten DEF HrRow
<1>7. CASE DeleteRow(w)
  <2>1. r \in Requests /\ Updated(r, [NewRow EXCEPT !.state = "deleted"])
    BY <1>0, <1>7, JobShape DEF DeleteRow, Only
  <2>2. HrRow([NewRow EXCEPT !.state = "deleted"])
    BY DEF HrRow, NewRow
  <2> QED
    BY <2>1, <2>2, HrWritten
<1>8. ASSUME NEW m \in j.moves, j.do = "reassign", Move(w, m) \/ MoveFails(w, m) PROVE HrInv'
  <2> DEFINE q == [row[m.req] EXCEPT !.cur = m.to]
  <2>1. m.req \in Requests /\ (m.to \in Officers \/ m.from \in Leavers)
    BY <1>0, <1>8, JobShape
  <2>2. row' = row \/ (row' = [row EXCEPT ![m.req] = q] /\ Live(m.req) /\ row[m.req].cur = m.from)
    BY <1>8, <2>1 DEF Move, MoveFails, kara, LeaveInv, Undecided
  <2>3. CASE row' = row
    BY <2>3 DEF HrInv
  <2>4. CASE row' = [row EXCEPT ![m.req] = q] /\ Live(m.req) /\ row[m.req].cur = m.from
    <3>1. HrRow(row[m.req]) /\ row[m.req] \in Row
      BY <2>1, LiveRow DEF HrInv
    <3>2. q.cur = m.to /\ q.moved = row[m.req].moved
      BY <3>1 DEF Row
    <3>3. q.moved => m.to \in Officers
      BY <2>1, <2>4, <3>1, <3>2 DEF HrRow, Live
    <3> HIDE DEF q
    <3>4. HrRow(q)
      BY <3>2, <3>3 DEF HrRow
    <3> QED
      BY <2>1, <2>4, <3>4, HrWritten
  <2> QED
    BY <2>2, <2>3, <2>4
<1> QED
  BY <1>1, <1>2, <1>3, <1>4, <1>5, <1>6, <1>7, <1>8 DEF Calls

(* As long as no HR officer is among those who leave, a forgotten punch    *)
(* that a supervisor has moved up stays with HR, also when the moves of    *)
(* that supervisor's requests were worked out before.                      *)
THEOREM StaysWithHrHolds ==
  ASSUME Officers \cap Leavers = {}
  PROVE  Spec => []StaysWithHr
<1>1. Init => HrInv
  BY DEF Init, HrInv, HrRow, NewRow
<1>2. LeaveInv /\ HrInv /\ [Next]_vars => HrInv'
  <2> SUFFICES ASSUME LeaveInv, HrInv, [Next]_vars PROVE HrInv'
    OBVIOUS
  <2>1. ASSUME NEW w \in Workers, Handlers(w) \/ Stop(w) PROVE HrInv'
    <3>1. row' = row
      BY <2>1 DEF Handlers, BeginSubmit, BeginDecide, BeginDelete, BeginAdminDelete, BeginEdit,
                  EmployeeLeaves, SetHrOfficer, ReassignStuck, Begins, Stop, kara
    <3> QED
      BY <3>1 DEF HrInv
  <2>2. CASE Scheduler
    <3>1. row' = row \/ \E p \in pending : Apply(p[1], p[2])
      BY <2>2 DEF Scheduler, SelectPending, ApplyPending, PendingFails, kara
    <3>2. \A p \in pending : p[1] \in Requests
      BY DEF LeaveInv
    <3>3. CASE row' = row
      BY <3>3 DEF HrInv
    <3> QED
      BY <3>1, <3>2, <3>3, HrApplied
  <2>3. CASE Outside
    <3>1. ASSUME NEW r \in Requests, KaraCancels(r) PROVE HrInv'
      <4>1. Live(r) /\ row' = [row EXCEPT ![r] = [row[r] EXCEPT !.accept = "cancelled"]]
        BY <3>1 DEF KaraCancels, LeaveInv
      <4>2. HrRow([row[r] EXCEPT !.accept = "cancelled"])
        BY LiveRow DEF HrInv, HrRow, Row
      <4> QED
        BY <4>1, <4>2, HrWritten
    <3>2. ASSUME RemoveHrOfficer \/ \E t \in Times, mark \in {"plain", "card"} : DeviceWrites(t, mark)
          PROVE  HrInv'
      <4>1. row' = row
        BY <3>2 DEF RemoveHrOfficer, DeviceWrites, kara
      <4> QED
        BY <4>1 DEF HrInv
    <3> QED
      BY <2>3, <3>1, <3>2 DEF Outside
  <2>4. CASE UNCHANGED vars
    BY <2>4 DEF vars, HrInv
  <2> QED
    BY <2>1, <2>2, <2>3, <2>4, HrCalls DEF Next, Steps
<1>3. HrInv => StaysWithHr
  BY DEF HrInv, HrRow, StaysWithHr, Undecided, Live, AtHr
<1> QED
  BY <1>1, <1>2, <1>3, LeaveInvHolds, PTL DEF Spec

(* The same holds of the steps for which the effects are checked.          *)
THEOREM OrderlyKeeps == OrderlySpec => [](TypeOK /\ NoSelfDecision)
<1>1. LeaveInv /\ [Undisturbed /\ ~ClockingLost]_vars => LeaveInv'
  BY LeaveStep DEF Undisturbed, Next
<1>2. LeaveInv => TypeOK /\ NoSelfDecision
  BY DEF LeaveInv, GoodJob, TypedJob, GoodRow, KaraTypes, StaffTypes, Punch, TypeOK, NoSelfDecision
<1> QED
  BY <1>1, <1>2, LeaveInit, PTL DEF OrderlySpec

-----------------------------------------------------------------------------
(* The effects in Kara.  Once the handler of an administrator has taken    *)
(* the effect of a request off, and until it is through, the request shows *)
(* none, whatever its row says.                                            *)
Cleared == {"write", "reread", "apply_edit", "clear", "delete_rows", "delete"}

At(w, calls, r) == job[w].do \in calls /\ job[w].req = r

Shows(r) ==
  /\ Live(r) /\ row[r].final = "approved" /\ row[r].accept = "applied"
  /\ \A w \in Workers : ~At(w, Cleared, r)

Shown(kind, t) == {r \in Requests : Shows(r) /\ row[r].what = <<kind, t>>}

Consistent(q) ==
  /\ q.final # "approved" <=> q.accept = "none"
  /\ q.accept = "waiting" => q.what[1] = "hourly"

Unsettled == Cleared \cup {"apply", "undo"}

RowsFit ==
  \A r \in Requests :
    Live(r) /\ (\A w \in Workers : ~At(w, Unsettled, r)) => Consistent(row[r])

(* What a handler has read still is what the row says.                     *)
Fits(j, q) ==
  /\ j.do \in Writers => q.state = "live"
  /\ j.do \in {"decide", "apply", "revert", "apply_edit"} => q.what = j.what
  /\ j.do = "decide" => q.final = "undecided"
  /\ j.do \in {"apply", "undo"} => q.final = "approved" /\ q.accept = "none"
  /\ j.do = "revert" => /\ q.final = "approved" /\ q.accept \in {"applied", "waiting"}
                        /\ j.next.req = j.req
  /\ j.do = "apply_edit" => q.final = "approved"
  /\ j.do = "clear" => q.final # "approved"

JobsFit == \A w \in Workers : Fits(job[w], row[job[w].req])

(* A row the scheduler has read is cancelled at most.                      *)
GoodPending(p) ==
  /\ Live(p[1]) /\ row[p[1]].final = "approved" /\ row[p[1]].accept # "none"
  /\ row[p[1]].what = p[2] /\ p[2][1] = "hourly"

PendingFits == \A p \in pending : GoodPending(p)

KaraFits(t) ==
  /\ days[t] = Cardinality(Shown("daily", t))
  /\ punch[t].mark = "marked" <=> Shown("hourly", t) # {}
  /\ \A r, s \in Shown("hourly", t) : r = s
  /\ punch[t].from = "portal" => Shown("forgotten", t) # {}
  /\ punch[t].from = None => punch[t] = NoPunch /\ Shown("forgotten", t) = {}

EffectsShown == \A t \in Times : KaraFits(t)

EffectsInv == ~Overlap /\ RowsFit /\ JobsFit /\ PendingFits /\ EffectsShown

-----------------------------------------------------------------------------
LEMMA ShownFinite ==
  ASSUME NEW kind, NEW t
  PROVE  IsFiniteSet(Shown(kind, t)) /\ Cardinality(Shown(kind, t)) \in Nat
<1>1. Shown(kind, t) \in SUBSET Requests /\ IsFiniteSet(Requests)
  BY LeaveAssumption DEF Shown
<1> QED
  BY <1>1, FS_Subset, FS_CardinalityType

(* One request comes to show an effect, or shows it no more.               *)
ShowsNow(r) == Shows(r)'

Others(r) ==
  \A s \in Requests \ {r} : /\ ShowsNow(s) <=> Shows(s)
                            /\ Shows(s) => row'[s].what = row[s].what

(* Requests that show what they showed, and clockings and days as before.  *)
LEMMA SameEffects ==
  ASSUME EffectsShown, UNCHANGED <<punch, days>>, NEW r \in Requests, Others(r),
         ShowsNow(r) <=> Shows(r), Shows(r) => row'[r].what = row[r].what
  PROVE  EffectsShown'
<1>1. \A kind, t : Shown(kind, t)' = Shown(kind, t)
  BY DEF Shown, Others, ShowsNow
<1> QED
  BY <1>1 DEF EffectsShown, KaraFits

(* The effect of a request is written.                                     *)
LEMMA EffectWritten ==
  ASSUME LeaveInv, EffectsShown, NEW r \in Requests, Others(r), ~Shows(r),
         NEW what \in Whats, Apply(r, what), Live(r), row[r].what = what,
         ShowsNow(r) <=> row'[r].accept = "applied"
  PROVE  /\ EffectsShown'
         /\ row' = [row EXCEPT ![r].accept = row'[r].accept]
         /\ row'[r].accept = "applied" \/ (row'[r].accept = "waiting" /\ what[1] = "hourly")
<1> DEFINE k == what[1]
           t == what[2]
           a == IF k = "hourly" /\ ~Markable(t) THEN "waiting" ELSE "applied"
<1>1. what = <<k, t>> /\ k \in Kinds /\ t \in Times
  BY LeaveAssumption
<1>2. row' = [row EXCEPT ![r] = [row[r] EXCEPT !.accept = a]]
  BY DEF Apply, Updated
<1>3. row[r] \in Row /\ row \in [Requests -> Row] /\ punch \in [Times -> Punch] /\ days \in [Times -> 0..MaxDays]
  BY LiveRow DEF LeaveInv, KaraTypes
<1>4. row'[r] = [row[r] EXCEPT !.accept = a] /\ row'[r].accept = a /\ row'[r].what = <<k, t>>
  BY <1>1, <1>2, <1>3 DEF Row
<1>5. row' = [row EXCEPT ![r].accept = row'[r].accept]
  BY <1>2, <1>4
<1> HIDE DEF a
<1> HIDE DEF k, t
<1>6. /\ a = "applied" => Shown(k, t)' = Shown(k, t) \cup {r} /\ r \notin Shown(k, t)
      /\ \A l, u : k # l \/ t # u \/ a # "applied" => Shown(l, u)' = Shown(l, u)
  <2>1. \A l, u : \A s \in Requests :
          s \in Shown(l, u)' <=> IF s = r THEN a = "applied" /\ <<k, t>> = <<l, u>>
                                ELSE s \in Shown(l, u)
    <3> SUFFICES ASSUME NEW l, NEW u, NEW s \in Requests
                 PROVE  s \in Shown(l, u)' <=> IF s = r THEN a = "applied" /\ <<k, t>> = <<l, u>>
                                              ELSE s \in Shown(l, u)
      OBVIOUS
    <3>1. s \in Shown(l, u)' <=> ShowsNow(s) /\ row'[s].what = <<l, u>>
      BY DEF Shown, ShowsNow
    <3>2. CASE s = r
      BY <1>4, <3>1, <3>2
    <3>3. CASE s # r
      BY <3>1, <3>3 DEF Others, Shown
    <3> QED
      BY <3>2, <3>3
  <2>2. \A l, u : r \notin Shown(l, u)
    BY DEF Shown
  <2>3. \A l, u : Shown(l, u) \subseteq Requests /\ Shown(l, u)' \subseteq Requests
    BY DEF Shown
  <2>4. a = "applied" => Shown(k, t)' = Shown(k, t) \cup {r} /\ r \notin Shown(k, t)
    BY <2>1, <2>2, <2>3
  <2>5. ASSUME NEW l, NEW u, k # l \/ t # u \/ a # "applied" PROVE Shown(l, u)' = Shown(l, u)
    BY <2>1, <2>2, <2>3, <2>5
  <2> QED
    BY <2>4, <2>5
<1>7. KaraFits(t)'
  <2>0. KaraFits(t) /\ punch[t] \in Punch /\ days[t] \in Nat
    BY <1>1, <1>3, LeaveAssumption DEF EffectsShown
  <2>1. CASE k = "daily"
    <3>1. punch'[t] = punch[t] /\ days'[t] = days[t] + 1 /\ a = "applied"
      BY <1>1, <1>3, <2>1 DEF Apply, a, k, t
    <3>2. /\ Shown("daily", t)' = Shown("daily", t) \cup {r} /\ r \notin Shown("daily", t)
          /\ Shown("hourly", t)' = Shown("hourly", t) /\ Shown("forgotten", t)' = Shown("forgotten", t)
      BY <1>6, <2>1, <3>1
    <3>3. Cardinality(Shown("daily", t)') = Cardinality(Shown("daily", t)) + 1
      BY <3>2, ShownFinite, FS_AddElement
    <3> QED
      BY <2>0, <3>1, <3>2, <3>3 DEF KaraFits
  <2>2. CASE k = "hourly" /\ Markable(t)
    <3>1. punch'[t] = [punch[t] EXCEPT !.mark = "marked"] /\ days'[t] = days[t] /\ a = "applied"
      BY <1>1, <1>3, <2>2 DEF Apply, a, k, t
    <3>2. /\ Shown("hourly", t)' = Shown("hourly", t) \cup {r}
          /\ Shown("daily", t)' = Shown("daily", t) /\ Shown("forgotten", t)' = Shown("forgotten", t)
      BY <1>6, <2>2, <3>1
    <3>3. punch[t].mark = "plain" /\ punch[t].from # None
      BY <2>2 DEF Markable
    <3>4. punch'[t].mark = "marked" /\ punch'[t].from = punch[t].from
      BY <2>0, <3>1 DEF Punch
    <3> QED
      BY <2>0, <3>1, <3>2, <3>3, <3>4 DEF KaraFits
  <2>3. CASE k = "hourly" /\ ~Markable(t)
    <3>1. punch'[t] = punch[t] /\ days'[t] = days[t] /\ a = "waiting"
      BY <1>1, <1>3, <2>3 DEF Apply, a, k, t
    <3>2. \A l : Shown(l, t)' = Shown(l, t)
      BY <1>6, <3>1
    <3> QED
      BY <2>0, <3>1, <3>2 DEF KaraFits
  <2>4. CASE k = "forgotten"
    <3>1. /\ punch'[t] = (IF punch[t] = NoPunch THEN [from |-> "portal", mark |-> "plain"] ELSE punch[t])
          /\ days'[t] = days[t] /\ a = "applied"
      BY <1>1, <1>3, <2>4 DEF Apply, a, k, t
    <3>2. /\ Shown("forgotten", t)' = Shown("forgotten", t) \cup {r}
          /\ Shown("daily", t)' = Shown("daily", t) /\ Shown("hourly", t)' = Shown("hourly", t)
      BY <1>6, <2>4, <3>1
    <3>3. punch'[t].mark = punch[t].mark /\ punch'[t].from # None
      BY <2>0, <3>1, LeaveAssumption DEF KaraFits, NoPunch
    <3> QED
      BY <2>0, <3>1, <3>2, <3>3 DEF KaraFits
  <2> QED
    BY <1>1, <2>1, <2>2, <2>3, <2>4 DEF Kinds
<1>8. \A u \in Times \ {t} : KaraFits(u)'
  <2> SUFFICES ASSUME NEW u \in Times, u # t PROVE KaraFits(u)'
    OBVIOUS
  <2>1. punch'[u] = punch[u] /\ days'[u] = days[u] /\ KaraFits(u)
    BY <1>1, <1>3 DEF Apply, EffectsShown, t
  <2> QED
    BY <1>6, <2>1 DEF KaraFits
<1>9. EffectsShown'
  BY <1>7, <1>8 DEF EffectsShown
<1> QED
  BY <1>4, <1>5, <1>9 DEF a, k
(* The effect of a request is taken back.                                  *)
LEMMA EffectTakenBack ==
  ASSUME LeaveInv, EffectsShown, ~ClockingLost, NEW r \in Requests, Others(r),
         Shows(r), ~ShowsNow(r), NEW k, NEW t, row[r].what = <<k, t>>,
         punch' = [punch EXCEPT ![t] =
           CASE k = "hourly"                         -> [@ EXCEPT !.mark = "plain"]
             [] k = "forgotten" /\ @.from = "portal" -> NoPunch
             [] OTHER                                -> @],
         days' = [days EXCEPT ![t] = IF k = "daily" /\ @ > 0 THEN @ - 1 ELSE @]
  PROVE  EffectsShown'
<1>1. k \in Kinds /\ t \in Times
  BY LiveRow DEF Shows
<1>2. punch \in [Times -> Punch] /\ days \in [Times -> 0..MaxDays]
  BY DEF LeaveInv, KaraTypes
<1>3. \A l, u : Shown(l, u)' = Shown(l, u) \ {r}
  <2> SUFFICES ASSUME NEW l, NEW u PROVE Shown(l, u)' = Shown(l, u) \ {r}
    OBVIOUS
  <2>1. \A s \in Requests : s \in Shown(l, u)' <=> s \in Shown(l, u) /\ s # r
    BY DEF Shown, ShowsNow, Others
  <2> QED
    BY <2>1 DEF Shown
<1>4. r \in Shown(k, t) /\ \A l, u : l # k \/ u # t => r \notin Shown(l, u)
  BY DEF Shown
<1>5. \A l, u : l # k \/ u # t => Shown(l, u)' = Shown(l, u)
  BY <1>3, <1>4
<1>6. KaraFits(t) /\ punch[t] \in Punch /\ days[t] \in Nat
  BY <1>1, <1>2, LeaveAssumption DEF EffectsShown
<1>7. KaraFits(t)'
  <2>1. CASE k = "daily"
    <3>1. punch'[t] = punch[t] /\ days'[t] = IF days[t] > 0 THEN days[t] - 1 ELSE days[t]
      BY <1>1, <1>2, <2>1
    <3>2. /\ Shown("daily", t)' = Shown("daily", t) \ {r} /\ r \in Shown("daily", t)
          /\ Shown("hourly", t)' = Shown("hourly", t) /\ Shown("forgotten", t)' = Shown("forgotten", t)
      BY <1>3, <1>4, <1>5, <2>1
    <3>3. Cardinality(Shown("daily", t)') = Cardinality(Shown("daily", t)) - 1
      BY <3>2, ShownFinite, FS_RemoveElement
    <3>4. Cardinality(Shown("daily", t)) # 0
      BY <3>2, ShownFinite, FS_EmptySet
    <3>5. days'[t] = Cardinality(Shown("daily", t)')
      BY <1>6, <3>1, <3>3, <3>4 DEF KaraFits
    <3> QED
      BY <1>6, <3>1, <3>2, <3>5 DEF KaraFits
  <2>2. CASE k = "hourly"
    <3>1. punch'[t] = [punch[t] EXCEPT !.mark = "plain"] /\ days'[t] = days[t]
      BY <1>1, <1>2, <2>2
    <3>2. punch'[t].mark = "plain" /\ punch'[t].from = punch[t].from
      BY <1>6, <3>1 DEF Punch
    <3>3. /\ Shown("hourly", t)' = {} /\ r \in Shown("hourly", t)
          /\ Shown("daily", t)' = Shown("daily", t) /\ Shown("forgotten", t)' = Shown("forgotten", t)
      BY <1>3, <1>4, <1>5, <1>6, <2>2 DEF KaraFits
    <3>4. punch[t].mark = "marked" /\ punch[t].from # None
      BY <1>6, <3>3 DEF KaraFits, NoPunch
    <3> QED
      BY <1>6, <3>1, <3>2, <3>3, <3>4 DEF KaraFits
  <2>3. CASE k = "forgotten" /\ punch[t].from = "portal"
    <3>1. punch'[t] = NoPunch /\ days'[t] = days[t]
      BY <1>1, <1>2, <2>3
    <3>2. punch[t].mark # "marked" /\ ~(Cardinality(InForce("forgotten", t)) > 1)
      BY <1>1, <2>3, <3>1 DEF ClockingLost
    <3>3. Shown("forgotten", t) = {r}
      <4>1. InForce("forgotten", t) \in SUBSET Requests /\ Shown("forgotten", t) \subseteq InForce("forgotten", t)
        BY DEF InForce, Shown, Shows
      <4>2. IsFiniteSet(InForce("forgotten", t))
        BY <4>1, LeaveAssumption, FS_Subset
      <4>3. ASSUME NEW s \in Shown("forgotten", t), s # r PROVE FALSE
        <5>1. {r, s} \subseteq InForce("forgotten", t)
          BY <1>4, <2>3, <4>1
        <5>2. Cardinality({r, s}) = 2
          <6>1. {r, s} = {r} \cup {s} /\ s \notin {r} /\ IsFiniteSet({r}) /\ Cardinality({r}) = 1
            BY <4>3, FS_Singleton
          <6>2. Cardinality({r} \cup {s}) = Cardinality({r}) + 1
            BY <6>1, FS_AddElement
          <6> QED
            BY <6>1, <6>2
        <5>3. Cardinality(InForce("forgotten", t)) >= 2
          BY <4>2, <5>1, <5>2, FS_Subset, FS_CardinalityType
        <5>4. Cardinality(InForce("forgotten", t)) \in Nat
          BY <4>2, FS_CardinalityType
        <5> QED
          BY <3>2, <5>3, <5>4
      <4> QED
        BY <1>4, <2>3, <4>3
    <3>4. /\ Shown("forgotten", t)' = {}
          /\ Shown("daily", t)' = Shown("daily", t) /\ Shown("hourly", t)' = Shown("hourly", t)
      BY <1>3, <1>5, <2>3, <3>3
    <3>5. Shown("hourly", t) = {}
      BY <1>6, <3>2 DEF KaraFits
    <3> QED
      BY <1>6, <3>1, <3>4, <3>5, LeaveAssumption DEF KaraFits, NoPunch
  <2>4. CASE k = "forgotten" /\ punch[t].from # "portal"
    <3>1. punch'[t] = punch[t] /\ days'[t] = days[t]
      BY <1>1, <1>2, <2>4
    <3>2. /\ Shown("daily", t)' = Shown("daily", t) /\ Shown("hourly", t)' = Shown("hourly", t)
          /\ r \in Shown("forgotten", t)
      BY <1>4, <1>5, <2>4
    <3>3. punch[t].from # None
      BY <1>6, <3>2 DEF KaraFits
    <3> QED
      BY <1>6, <2>4, <3>1, <3>2, <3>3 DEF KaraFits
  <2> QED
    BY <1>1, <2>1, <2>2, <2>3, <2>4 DEF Kinds
<1>8. ASSUME NEW u \in Times, u # t PROVE KaraFits(u)'
  <2>1. punch'[u] = punch[u] /\ days'[u] = days[u] /\ KaraFits(u)
    BY <1>1, <1>2, <1>8 DEF EffectsShown
  <2> QED
    BY <1>5, <1>8, <2>1 DEF KaraFits
<1> QED
  BY <1>7, <1>8 DEF EffectsShown
-----------------------------------------------------------------------------
Effective(q) == q.state = "live" /\ q.final = "approved" /\ q.accept = "applied"

LEMMA WriterRequest ==
  ASSUME LeaveInv, JobsFit, NEW v \in Workers, job[v].do \in Writers
  PROVE  job[v].req \in Requests /\ Live(job[v].req) /\ Fits(job[v], row[job[v].req])
<1>1. GoodJob(job[v]) /\ Fits(job[v], row[job[v].req])
  BY DEF LeaveInv, JobsFit
<1>2. job[v].do # "revert" => job[v].req \in Requests
  BY <1>1, JobShape DEF Writers, AdminCalls
<1>3. job[v].do = "revert" => job[v].req \in Requests
  <2> HAVE job[v].do = "revert"
  <2>1. /\ job[v].next \in Job /\ job[v].next.do \in {"write", "delete_rows"}
        /\ job[v].next.req = job[v].req
    BY <1>1, JobShape DEF Fits
  <2>2. job[v].next.req \in Requests
    BY <2>1 DEF Job, Idle
  <2> QED
    BY <2>1, <2>2
<1> QED
  BY <1>1, <1>2, <1>3 DEF Fits, Live

(* A handler that writes a request, or begins to, is alone with it, and    *)
(* the scheduler does not hold the request when its row is written.        *)
LEMMA Alone ==
  ASSUME LeaveInv, EffectsInv, ~Overlap', UNCHANGED pending,
         NEW w \in Workers, NEW j, Goes(w, j), NEW r \in Requests,
         job[w].do \in Writers => job[w].req = r,
         j.do \in Writers => j.req = r,
         \/ job[w].do \in Writers
         \/ j.do \in Writers /\ row' = row
         \/ ~Live(r),
         \A s \in Requests \ {r} : row'[s] = row[s]
  PROVE  /\ Others(r)
         /\ Shows(r) <=> Effective(row[r]) /\ job[w].do \notin Cleared
         /\ ShowsNow(r) <=> Effective(row'[r]) /\ j.do \notin Cleared
         /\ Live(r) /\ job[w].do \notin Unsettled => Consistent(row[r])
         /\ /\ row'[r].state = "live" /\ j.do \notin Unsettled => Consistent(row'[r])
            /\ j.do \in Writers => Fits(j, row'[r])
            /\ EffectsShown'
            => EffectsInv'
<1>1. job' = [job EXCEPT ![w] = j] /\ job = [v \in Workers |-> job[v]]
  BY DEF Goes, LeaveInv
<1>2. job'[w] = j /\ \A v \in Workers \ {w} : job'[v] = job[v]
  BY <1>1
<1>3. \A v \in Workers \ {w} : job[v].do \in Writers => job[v].req \in Requests \ {r}
  <2> SUFFICES ASSUME NEW v \in Workers \ {w}, job[v].do \in Writers
               PROVE  job[v].req \in Requests \ {r}
    OBVIOUS
  <2>1. job[v].req \in Requests /\ Live(job[v].req)
    BY WriterRequest DEF EffectsInv
  <2>2. CASE job[w].do \in Writers
    BY <2>1, <2>2 DEF EffectsInv, Overlap
  <2>3. CASE j.do \in Writers
    BY <1>2, <2>1, <2>3 DEF Overlap
  <2> QED
    BY <2>1, <2>2, <2>3
<1>4. Cleared \subseteq Unsettled /\ Unsettled \subseteq Writers
  BY DEF Cleared, Unsettled, Writers, AdminCalls
<1>5. Others(r)
  <2> SUFFICES ASSUME NEW s \in Requests \ {r}
               PROVE  (ShowsNow(s) <=> Shows(s)) /\ (Shows(s) => row'[s].what = row[s].what)
    BY DEF Others
  <2>1. \A v \in Workers : At(v, Cleared, s)' <=> At(v, Cleared, s)
    BY <1>2, <1>4 DEF At
  <2> QED
    BY <2>1 DEF ShowsNow, Shows, Live
<1>6. Shows(r) <=> Effective(row[r]) /\ job[w].do \notin Cleared
  <2>1. (\A v \in Workers : ~At(v, Cleared, r)) <=> job[w].do \notin Cleared
    BY <1>3, <1>4 DEF At
  <2> QED
    BY <2>1 DEF Shows, Effective, Live
<1>7. ShowsNow(r) <=> Effective(row'[r]) /\ j.do \notin Cleared
  <2>1. (\A v \in Workers : ~At(v, Cleared, r)') <=> j.do \notin Cleared
    BY <1>2, <1>3, <1>4 DEF At
  <2> QED
    BY <2>1 DEF ShowsNow, Shows, Effective, Live
<1>8. Live(r) /\ job[w].do \notin Unsettled => Consistent(row[r])
  <2>1. job[w].do \notin Unsettled => \A v \in Workers : ~At(v, Unsettled, r)
    BY <1>3, <1>4 DEF At
  <2> QED
    BY <2>1 DEF EffectsInv, RowsFit
<1>9. ASSUME row'[r].state = "live" /\ j.do \notin Unsettled => Consistent(row'[r]),
             j.do \in Writers => Fits(j, row'[r]),
             EffectsShown'
      PROVE  EffectsInv'
  <2>1. RowsFit'
    <3> SUFFICES ASSUME NEW s \in Requests, row'[s].state = "live",
                        \A v \in Workers : ~At(v, Unsettled, s)'
                 PROVE  Consistent(row[s])'
      BY DEF RowsFit, Live
    <3>1. CASE s = r
      <4>1. j.do \notin Unsettled
        BY <1>2, <1>4, <3>1 DEF At
      <4> QED
        BY <1>9, <3>1, <4>1 DEF Consistent
    <3>2. CASE s # r
      <4>1. row'[s] = row[s] /\ \A v \in Workers : ~At(v, Unsettled, s)
        BY <1>2, <1>4, <3>2 DEF At
      <4> QED
        BY <4>1 DEF EffectsInv, RowsFit, Live, Consistent
    <3> QED
      BY <3>1, <3>2
  <2>2. JobsFit'
    <3> SUFFICES ASSUME NEW v \in Workers PROVE Fits(job'[v], row'[job'[v].req])
      BY DEF JobsFit, Fits
    <3>1. CASE job'[v].do \notin Writers
      BY <3>1 DEF Fits, Writers, AdminCalls
    <3>2. CASE v = w /\ j.do \in Writers
      BY <1>2, <1>9, <3>2
    <3>3. CASE v # w /\ job'[v].do \in Writers
      BY <1>2, <1>3, <3>3 DEF EffectsInv, JobsFit
    <3> QED
      BY <1>2, <3>1, <3>2, <3>3
  <2>3. PendingFits'
    <3> SUFFICES ASSUME NEW p \in pending PROVE GoodPending(p)'
      BY DEF PendingFits
    <3>1. GoodPending(p) /\ p[1] \in Requests
      BY DEF EffectsInv, PendingFits, LeaveInv
    <3>2. row'[p[1]] = row[p[1]]
      <4>1. CASE job[w].do \in AdminCalls
        BY <3>1, <4>1 DEF EffectsInv, Overlap, Writers
      <4>2. CASE job[w].do \in {"decide", "apply", "undo"}
        <5>1. Fits(job[w], row[r])
          BY <4>2 DEF EffectsInv, JobsFit, Writers
        <5> QED
          BY <3>1, <4>2, <5>1 DEF Fits, GoodPending
      <4>3. CASE ~Live(r)
        BY <3>1, <4>3 DEF GoodPending
      <4>4. CASE row' = row
        BY <4>4
      <4> QED
        BY <4>1, <4>2, <4>3, <4>4 DEF Writers
    <3> QED
      BY <3>1, <3>2 DEF GoodPending, Live
  <2> QED
    BY <1>9, <2>1, <2>2, <2>3 DEF EffectsInv
<1> QED
  BY <1>5, <1>6, <1>7, <1>8, <1>9
(* No outcome changes, and no handler that writes one goes on.             *)
LEMMA SameOutcomes ==
  ASSUME LeaveInv, EffectsInv, ~Overlap', UNCHANGED <<punch, days>>,
         \A r \in Requests : /\ row'[r].state = row[r].state /\ row'[r].what = row[r].what
                             /\ row'[r].final = row[r].final /\ row'[r].accept = row[r].accept,
         \A v \in Workers : job'[v] = job[v] \/ {job[v].do, job'[v].do} \cap Writers = {},
         \A p \in pending' : p \in pending \/ (p[1] \in Requests /\ GoodPending(p))
  PROVE  EffectsInv'
<1>1. Cleared \subseteq Unsettled /\ Unsettled \subseteq Writers
  BY DEF Cleared, Unsettled, Writers, AdminCalls
<1>2. \A v \in Workers, r \in Requests : /\ At(v, Cleared, r)' <=> At(v, Cleared, r)
                                         /\ At(v, Unsettled, r)' <=> At(v, Unsettled, r)
  BY <1>1 DEF At
<1>3. RowsFit'
  BY <1>2 DEF EffectsInv, RowsFit, Consistent, Live
<1>4. JobsFit'
  <2> SUFFICES ASSUME NEW v \in Workers PROVE Fits(job'[v], row'[job'[v].req])
    BY DEF JobsFit, Fits
  <2>1. CASE job'[v].do \notin Writers
    BY <2>1 DEF Fits, Writers, AdminCalls
  <2>2. CASE job'[v].do \in Writers
    <3>1. job'[v] = job[v]
      BY <2>2
    <3>2. job[v].req \in Requests /\ Fits(job[v], row[job[v].req])
      BY <2>2, <3>1, WriterRequest DEF EffectsInv
    <3> QED
      BY <3>1, <3>2 DEF Fits
  <2> QED
    BY <2>1, <2>2
<1>5. PendingFits'
  <2> SUFFICES ASSUME NEW p \in pending' PROVE GoodPending(p)'
    BY DEF PendingFits
  <2>1. p[1] \in Requests /\ GoodPending(p)
    BY DEF EffectsInv, PendingFits, LeaveInv
  <2> QED
    BY <2>1 DEF GoodPending, Live
<1>6. EffectsShown'
  <2>1. \A k, t : Shown(k, t)' = Shown(k, t)
    BY <1>2 DEF Shown, Shows, Live
  <2> QED
    BY <2>1 DEF EffectsInv, EffectsShown, KaraFits
<1> QED
  BY <1>3, <1>4, <1>5, <1>6 DEF EffectsInv

(* The scheduler or Kara writes a request that no handler writes.          *)
LEMMA NobodyWrites ==
  ASSUME LeaveInv, EffectsInv, ~Overlap', UNCHANGED job, pending' \subseteq pending,
         NEW r \in Requests, ~Writing(r),
         \A s \in Requests \ {r} : row'[s] = row[s],
         row'[r].state = "live", row'[r].final = "approved", row'[r].accept # "none",
         row'[r].what = row[r].what, row'[r].accept = "waiting" => row[r].what[1] = "hourly"
  PROVE  /\ Others(r)
         /\ Shows(r) <=> Effective(row[r])
         /\ ShowsNow(r) <=> Effective(row'[r])
         /\ EffectsShown' => EffectsInv'
<1>1. Cleared \subseteq Unsettled /\ Unsettled \subseteq Writers
  BY DEF Cleared, Unsettled, Writers, AdminCalls
<1>2. \A v \in Workers : \A s :
        /\ At(v, Cleared, s)' <=> At(v, Cleared, s)
        /\ At(v, Unsettled, s)' <=> At(v, Unsettled, s)
  BY DEF At
<1>3. \A v \in Workers : ~At(v, Cleared, r)
  BY <1>1 DEF At, Writing
<1>4. Others(r)
  BY <1>2 DEF Others, ShowsNow, Shows, Live
<1>5. Shows(r) <=> Effective(row[r])
  BY <1>3 DEF Shows, Effective, Live
<1>6. ShowsNow(r) <=> Effective(row'[r])
  BY <1>2, <1>3 DEF ShowsNow, Shows, Effective, Live
<1>7. RowsFit'
  <2> SUFFICES ASSUME NEW s \in Requests, row'[s].state = "live",
                      \A v \in Workers : ~At(v, Unsettled, s)'
               PROVE  Consistent(row[s])'
    BY DEF RowsFit, Live
  <2>1. CASE s = r
    BY <2>1 DEF Consistent
  <2>2. CASE s # r
    BY <1>2, <2>2 DEF EffectsInv, RowsFit, Live, Consistent
  <2> QED
    BY <2>1, <2>2
<1>8. JobsFit'
  <2> SUFFICES ASSUME NEW v \in Workers PROVE Fits(job[v], row'[job[v].req])
    BY DEF JobsFit, Fits
  <2>1. CASE job[v].do \notin Writers
    BY <2>1 DEF Fits, Writers, AdminCalls
  <2>2. CASE job[v].do \in Writers
    <3>1. job[v].req \in Requests \ {r} /\ Fits(job[v], row[job[v].req])
      BY <2>2, WriterRequest DEF EffectsInv, Writing
    <3> QED
      BY <3>1
  <2> QED
    BY <2>1, <2>2
<1>9. PendingFits'
  <2> SUFFICES ASSUME NEW p \in pending' PROVE GoodPending(p)'
    BY DEF PendingFits
  <2>1. p[1] \in Requests /\ GoodPending(p)
    BY DEF EffectsInv, PendingFits, LeaveInv
  <2>2. CASE p[1] = r
    BY <2>1, <2>2 DEF GoodPending, Live
  <2>3. CASE p[1] # r
    BY <2>1, <2>3 DEF GoodPending, Live
  <2> QED
    BY <2>2, <2>3
<1>10. EffectsShown' => EffectsInv'
  BY <1>7, <1>8, <1>9 DEF EffectsInv
<1> QED
  BY <1>4, <1>5, <1>6, <1>10
-----------------------------------------------------------------------------
(* The handlers begin.                                                     *)
LEMMA WriterBegins ==
  ASSUME LeaveInv, EffectsInv, ~Overlap', NEW w \in Workers, NEW r \in Requests, NEW j,
         Begins(w, j), j.do \in Writers, j.req = r, Fits(j, row[r]),
         Effective(row[r]) => j.do \notin Cleared
  PROVE  EffectsInv'
<1>1. /\ job[w].do = "idle" /\ Goes(w, j) /\ row' = row
      /\ UNCHANGED pending /\ UNCHANGED <<punch, days>>
  BY DEF Begins, Idle, kara
<1>2. job[w].do \notin Writers /\ job[w].do \notin Cleared /\ job[w].do \notin Unsettled
  BY <1>1 DEF Writers, AdminCalls, Cleared, Unsettled
<1>3. /\ Others(r)
      /\ Shows(r) <=> Effective(row[r])
      /\ ShowsNow(r) <=> Effective(row'[r]) /\ j.do \notin Cleared
      /\ Live(r) => Consistent(row[r])
      /\ /\ row'[r].state = "live" /\ j.do \notin Unsettled => Consistent(row'[r])
         /\ j.do \in Writers => Fits(j, row'[r])
         /\ EffectsShown'
         => EffectsInv'
  BY <1>1, <1>2, Alone
<1>4. EffectsShown'
  BY <1>1, <1>3, SameEffects DEF EffectsInv
<1> QED
  BY <1>1, <1>3, <1>4 DEF Live

LEMMA ReaderBegins ==
  ASSUME LeaveInv, EffectsInv, ~Overlap', NEW w \in Workers, NEW j, job[w] = Idle, Goes(w, j),
         j.do \notin Writers, UNCHANGED <<kara, pending>>
  PROVE  EffectsInv'
<1>1. job[w].do \notin Writers /\ \A v \in Workers : job'[v] = IF v = w THEN j ELSE job[v]
  BY DEF Idle, Writers, AdminCalls, Goes, LeaveInv
<1> QED
  BY <1>1, SameOutcomes DEF kara

LEMMA BeginningKeepsEffects ==
  ASSUME LeaveInv, EffectsInv, ~Overlap', NEW w \in Workers, Handlers(w)
  PROVE  EffectsInv'
<1>1. ASSUME NEW r \in Requests, NEW what \in Whats, BeginSubmit(w, r, what)
      PROVE  EffectsInv'
  <2>1. PICK cur \in Supervisors(Inactive) \ {None} :
          Begins(w, [do |-> "insert", req |-> r, what |-> what, cur |-> cur])
    BY <1>1 DEF BeginSubmit
  <2> QED
    BY <2>1, ReaderBegins DEF Begins, Writers, AdminCalls
<1>2. ASSUME NEW r \in Requests, NEW e \in Employees, NEW approved \in BOOLEAN,
             BeginDecide(w, r, e, approved)
      PROVE  EffectsInv'
  <2> DEFINE up     == approved /\ row[r].what[1] = "forgotten"
             move   == [do |-> "move_up", req |-> r, to |-> hr]
             decide == [do |-> "decide", req |-> r, by |-> e, what |-> row[r].what,
                        final |-> IF approved THEN "approved" ELSE "rejected"]
  <2>1. Undecided(r) /\ (Begins(w, move) \/ Begins(w, decide))
    BY <1>2 DEF BeginDecide
  <2>2. CASE Begins(w, move)
    <3>1. move.do \notin Writers
      BY DEF Writers, AdminCalls
    <3> HIDE DEF move
    <3> QED
      BY <2>2, <3>1, ReaderBegins DEF Begins
  <2>3. CASE Begins(w, decide)
    <3>1. /\ decide.do \in Writers /\ decide.do \notin Cleared /\ decide.req = r
          /\ Fits(decide, row[r])
      BY <2>1 DEF Fits, Undecided, Live, Writers, AdminCalls, Cleared
    <3> HIDE DEF decide
    <3> QED
      BY <2>3, <3>1, WriterBegins
  <2> QED
    BY <2>1, <2>2, <2>3
<1>3. ASSUME NEW r \in Requests, Live(r), NEW next, next.req = r,
             next.do \in {"delete_rows", "write"},
             ~Effective(row[r]), Begins(w, next)
      PROVE  EffectsInv'
  <2>1. next.do \in Writers /\ Fits(next, row[r])
    BY <1>3 DEF Fits, Live, Writers, AdminCalls
  <2> QED
    BY <1>3, <2>1, WriterBegins
<1>4. ASSUME NEW r \in Requests, Live(r), Reverts(r), NEW next, next.req = r,
             Begins(w, [do |-> "revert", req |-> r, what |-> row[r].what, next |-> next])
      PROVE  EffectsInv'
  <2> DEFINE revert == [do |-> "revert", req |-> r, what |-> row[r].what, next |-> next]
  <2>1. revert.do = "revert" /\ revert.do \in Writers /\ revert.do \notin Cleared /\ revert.req = r
    BY DEF Writers, AdminCalls, Cleared
  <2>2. row[r].final = "approved" /\ row[r].accept \in {"applied", "waiting"}
    <3>1. Consistent(row[r])
      <4>1. job[w].do = "idle" /\ job' = [job EXCEPT ![w] = revert] /\ row' = row /\ UNCHANGED pending
        BY <1>4 DEF Begins, Goes, Idle, kara
      <4>2. job[w].do \notin Writers /\ job[w].do \notin Unsettled
        BY <4>1 DEF Writers, AdminCalls, Unsettled, Cleared
      <4> HIDE DEF revert
      <4>3. Goes(w, revert) /\ Live(r)
        BY <1>4, <4>1 DEF Goes
      <4>4. \A s \in Requests \ {r} : row'[s] = row[s]
        BY <4>1
      <4>5. Live(r) /\ job[w].do \notin Unsettled => Consistent(row[r])
        BY <2>1, <4>1, <4>2, <4>3, <4>4, Alone
      <4> QED
        BY <4>2, <4>3, <4>5
    <3>2. row[r].accept \in Accepts
      BY LiveRow DEF Row
    <3> QED
      BY <1>4, <3>1, <3>2 DEF Reverts, Consistent, Accepts
  <2>3. Fits(revert, row[r])
    BY <1>4, <2>2 DEF Fits, Live
  <2> HIDE DEF revert
  <2>4. Begins(w, revert)
    BY <1>4 DEF revert
  <2> QED
    BY <2>1, <2>3, <2>4, WriterBegins
<1>5. ASSUME NEW r \in Requests, BeginDelete(w, r)
      PROVE  EffectsInv'
  BY <1>3, <1>5 DEF BeginDelete, Undecided, Effective
<1>6. ASSUME NEW r \in Requests, BeginAdminDelete(w, r)
      PROVE  EffectsInv'
  <2>1. CASE Reverts(r)
    BY <1>4, <1>6, <2>1 DEF BeginAdminDelete
  <2>2. CASE ~Reverts(r)
    BY <1>3, <1>6, <2>2 DEF BeginAdminDelete, Reverts, Effective
  <2> QED
    BY <2>1, <2>2
<1>7. ASSUME NEW r \in Requests, NEW edit \in Edits, BeginEdit(w, r, edit)
      PROVE  EffectsInv'
  <2>1. CASE Reverts(r)
    BY <1>4, <1>7, <2>1 DEF BeginEdit
  <2>2. CASE ~Reverts(r)
    BY <1>3, <1>7, <2>2 DEF BeginEdit, Reverts, Effective
  <2> QED
    BY <2>1, <2>2
<1>8. ASSUME NEW left, NEW moves, job[w] = Idle, UNCHANGED <<kara, pending>>,
             Goes(w, [do |-> "reassign", left |-> left, moves |-> moves])
      PROVE  EffectsInv'
  <2> DEFINE j == [do |-> "reassign", left |-> left, moves |-> moves]
  <2>1. j.do \notin Writers
    BY DEF Writers, AdminCalls
  <2> HIDE DEF j
  <2>2. Goes(w, j)
    BY <1>8 DEF j
  <2> QED
    BY <1>8, <2>1, <2>2, ReaderBegins
<1>9. ASSUME NEW e \in Leavers, EmployeeLeaves(w, e)
      PROVE  EffectsInv'
  BY <1>8, <1>9 DEF EmployeeLeaves, Begins
<1>10. ASSUME NEW h \in Officers, SetHrOfficer(w, h)
       PROVE  EffectsInv'
  <2>1. CASE hr = None
    BY <1>10, <2>1, SameOutcomes DEF SetHrOfficer, kara
  <2>2. CASE hr # None
    BY <1>8, <1>10, <2>2 DEF SetHrOfficer
  <2> QED
    BY <2>1, <2>2
<1>11. ASSUME ReassignStuck(w)
       PROVE  EffectsInv'
  BY <1>8, <1>11 DEF ReassignStuck, Begins
<1> QED
  BY <1>1, <1>2, <1>5, <1>6, <1>7, <1>9, <1>10, <1>11 DEF Handlers
-----------------------------------------------------------------------------
(* The calls of the handlers.                                              *)
LEMMA WriterRow ==
  ASSUME LeaveInv, EffectsInv, NEW w \in Workers, job[w].do \in Writers
  PROVE  /\ job[w].req \in Requests /\ Live(job[w].req) /\ Fits(job[w], row[job[w].req])
         /\ job[w].do \notin Unsettled => Consistent(row[job[w].req])
<1>1. job[w].req \in Requests /\ Live(job[w].req) /\ Fits(job[w], row[job[w].req])
  BY WriterRequest DEF EffectsInv
<1>2. \A v \in Workers \ {w} : ~At(v, Unsettled, job[w].req)
  BY DEF EffectsInv, Overlap, At, Unsettled, Cleared, Writers, AdminCalls
<1> QED
  BY <1>1, <1>2 DEF EffectsInv, RowsFit, At

(* The row is written and the effects stay.                                *)
LEMMA RowCall ==
  ASSUME LeaveInv, EffectsInv, ~Overlap', UNCHANGED <<punch, days, pending>>,
         NEW w \in Workers, job[w].do \in Writers, NEW r, r = job[w].req,
         NEW j, Goes(w, j), j.do \in Writers => j.req = r,
         NEW q, row' = [row EXCEPT ![r] = q],
         j.do \in Writers => Fits(j, q),
         q.state = "live" /\ j.do \notin Unsettled => Consistent(q),
         Effective(q) /\ j.do \notin Cleared <=> Effective(row[r]) /\ job[w].do \notin Cleared,
         Effective(row[r]) /\ job[w].do \notin Cleared => q.what = row[r].what
  PROVE  EffectsInv'
<1>1. r \in Requests
  BY WriterRow
<1>2. row'[r] = q /\ \A s \in Requests \ {r} : row'[s] = row[s]
  BY <1>1 DEF LeaveInv
<1>3. /\ Others(r)
      /\ Shows(r) <=> Effective(row[r]) /\ job[w].do \notin Cleared
      /\ ShowsNow(r) <=> Effective(row'[r]) /\ j.do \notin Cleared
      /\ /\ row'[r].state = "live" /\ j.do \notin Unsettled => Consistent(row'[r])
         /\ j.do \in Writers => Fits(j, row'[r])
         /\ EffectsShown'
         => EffectsInv'
  BY <1>1, <1>2, Alone
<1>4. EffectsShown'
  BY <1>1, <1>2, <1>3, SameEffects DEF EffectsInv
<1> QED
  BY <1>2, <1>3, <1>4

LEMMA ApplyCall ==
  ASSUME LeaveInv, EffectsInv, ~Overlap', UNCHANGED pending,
         NEW w \in Workers, job[w].do \in {"apply", "apply_edit"},
         Apply(job[w].req, job[w].what), Done(w)
  PROVE  EffectsInv'
<1> DEFINE r    == job[w].req
           what == job[w].what
<1>1. job[w].do \in Writers /\ (job[w].do \in Cleared <=> job[w].do = "apply_edit")
  BY DEF Writers, AdminCalls, Cleared
<1>2. /\ r \in Requests /\ Live(r) /\ row[r].what = what /\ row[r].final = "approved"
      /\ row[r].accept = "none" \/ job[w].do = "apply_edit"
  BY <1>1, WriterRow DEF Fits
<1>3. what \in Whats
  BY <1>2, LiveRow
<1> HIDE DEF r, what
<1>4. Apply(r, what) /\ job[w].req = r
  BY DEF r, what
<1>5. \A s \in Requests \ {r} : row'[s] = row[s]
  BY <1>4 DEF Apply, Updated, LeaveInv
<1>6. /\ Idle.do = "idle" /\ Idle.do \notin Writers
      /\ Idle.do \notin Cleared /\ Idle.do \notin Unsettled
  BY DEF Idle, Writers, AdminCalls, Cleared, Unsettled
<1>7. /\ Others(r)
      /\ Shows(r) <=> Effective(row[r]) /\ job[w].do \notin Cleared
      /\ ShowsNow(r) <=> Effective(row'[r])
      /\ (row'[r].state = "live" => Consistent(row'[r])) /\ EffectsShown' => EffectsInv'
  <2>1. Goes(w, Idle)
    BY DEF Done
  <2> QED
    BY <1>1, <1>2, <1>4, <1>5, <1>6, <2>1, Alone
<1>8. ~Shows(r)
  BY <1>1, <1>2, <1>7 DEF Effective
<1>9. row'[r] = [row[r] EXCEPT !.accept = row'[r].accept] /\ row[r] \in Row
  BY <1>2, <1>4, LiveRow DEF Apply, Updated, LeaveInv, Row
<1>10. row'[r].state = "live" /\ row'[r].final = "approved" /\ row'[r].what = what
  BY <1>2, <1>9 DEF Row, Live
<1>11. ShowsNow(r) <=> row'[r].accept = "applied"
  BY <1>7, <1>10 DEF Effective
<1>12. EffectsShown' /\ (row'[r].accept = "applied" \/ (row'[r].accept = "waiting" /\ what[1] = "hourly"))
  BY <1>2, <1>3, <1>4, <1>7, <1>8, <1>11, EffectWritten DEF EffectsInv
<1>13. Consistent(row'[r])
  BY <1>10, <1>12 DEF Consistent
<1> QED
  BY <1>7, <1>12, <1>13
LEMMA RevertCall ==
  ASSUME LeaveInv, EffectsInv, ~Overlap', ~ClockingLost, NEW w \in Workers, Revert(w)
  PROVE  EffectsInv'
<1> DEFINE r == job[w].req
           j == job[w].next
           k == row[r].what[1]
           t == row[r].what[2]
<1>1. job[w].do = "revert" /\ job[w].do \in Writers /\ job[w].do \notin Unsettled \cup Cleared
  BY DEF Revert, Only, Writers, AdminCalls, Unsettled, Cleared
<1>2. /\ r \in Requests /\ Live(r) /\ row[r].what = job[w].what /\ row[r].final = "approved"
      /\ row[r].accept \in {"applied", "waiting"} /\ Consistent(row[r]) /\ j.req = r
  BY <1>1, WriterRow DEF Fits
<1>3. j.do \in {"write", "delete_rows"}
  BY <1>1, JobShape DEF LeaveInv
<1>4. j.do \in Writers /\ j.do \in Cleared
  BY <1>3 DEF Writers, AdminCalls, Cleared
<1>5. Goes(w, j) /\ RevertEffects(r, row[r].what) /\ UNCHANGED <<row, pending>>
  BY <1>2 DEF Revert, Only, RevertEffects
<1>6. row[r].what = <<k, t>> /\ k \in Kinds /\ t \in Times
  BY <1>2, LiveRow, LeaveAssumption
<1> HIDE DEF r, j, k, t
<1>7. /\ Others(r)
      /\ Shows(r) <=> Effective(row[r])
      /\ ~ShowsNow(r)
      /\ (j.do \in Writers => Fits(j, row'[r])) /\ EffectsShown' => EffectsInv'
  <2>1. job[w].req = r
    BY DEF r
  <2>2. j.do \in Unsettled
    BY <1>4 DEF Unsettled
  <2> QED
    BY <1>1, <1>2, <1>4, <1>5, <2>1, <2>2, Alone
<1>8. Fits(j, row'[r])
  BY <1>2, <1>3, <1>5 DEF Fits, Live
<1>9. EffectsShown'
  <2>1. CASE row[r].accept = "applied"
    <3>1. Shows(r)
      BY <1>2, <1>7, <2>1 DEF Effective, Live
    <3>2. /\ punch' = [punch EXCEPT ![t] =
               CASE k = "hourly"                         -> [@ EXCEPT !.mark = "plain"]
                 [] k = "forgotten" /\ @.from = "portal" -> NoPunch
                 [] OTHER                                -> @]
          /\ days' = [days EXCEPT ![t] = IF k = "daily" /\ @ > 0 THEN @ - 1 ELSE @]
      BY <1>2, <1>5, <2>1 DEF RevertEffects, k, t
    <3> QED
      BY <1>2, <1>6, <1>7, <3>1, <3>2, EffectTakenBack DEF EffectsInv
  <2>2. CASE row[r].accept = "waiting"
    <3>1. ~Shows(r) /\ k = "hourly"
      BY <1>2, <1>7, <2>2 DEF Effective, Consistent, k
    <3>2. punch' = [punch EXCEPT ![t] = punch[t]] /\ days' = [days EXCEPT ![t] = days[t]]
      BY <1>5, <2>2, <3>1 DEF RevertEffects, k, t
    <3>3. UNCHANGED <<punch, days>>
      BY <3>2 DEF LeaveInv, KaraTypes
    <3> QED
      BY <1>2, <1>7, <3>1, <3>3, SameEffects DEF EffectsInv
  <2> QED
    BY <1>2, <2>1, <2>2
<1> QED
  BY <1>7, <1>8, <1>9

LEMMA InsertCall ==
  ASSUME LeaveInv, EffectsInv, ~Overlap', NEW w \in Workers, Insert(w)
  PROVE  EffectsInv'
<1> DEFINE r == job[w].req
           q == [NewRow EXCEPT !.state = "live", !.what = job[w].what, !.cur = job[w].cur]
<1>1. job[w].do = "insert" /\ UNCHANGED <<punch, days, pending>> /\ Goes(w, Idle)
  BY DEF Insert, Only, Done
<1>2. /\ job[w].do \notin Writers /\ job[w].do \notin Cleared
      /\ Idle.do \notin Writers /\ Idle.do \notin Cleared
  BY <1>1 DEF Idle, Writers, AdminCalls, Cleared
<1>3. r \in Requests
  BY <1>1, JobShape DEF LeaveInv
<1>4. row[r].state = "new" /\ row' = [row EXCEPT ![r] = q]
  BY DEF Insert
<1>5. q.final = "undecided" /\ q.accept = "none"
  BY DEF NewRow
<1> HIDE DEF r, q
<1>6. row'[r] = q /\ (\A s \in Requests \ {r} : row'[s] = row[s]) /\ ~Live(r)
  BY <1>3, <1>4 DEF LeaveInv, Live
<1>7. /\ Others(r)
      /\ Shows(r) <=> Effective(row[r]) /\ job[w].do \notin Cleared
      /\ ShowsNow(r) <=> Effective(row'[r]) /\ Idle.do \notin Cleared
      /\ (row'[r].state = "live" /\ Idle.do \notin Unsettled => Consistent(row'[r])) /\ EffectsShown'
           => EffectsInv'
  BY <1>1, <1>2, <1>3, <1>6, Alone
<1>8. ~Shows(r) /\ ~ShowsNow(r) /\ Consistent(row'[r])
  BY <1>4, <1>5, <1>6, <1>7 DEF Effective, Consistent
<1>9. EffectsShown'
  BY <1>1, <1>3, <1>7, <1>8, SameEffects DEF EffectsInv
<1> QED
  BY <1>7, <1>8, <1>9

LEMMA CallKeepsEffects ==
  ASSUME LeaveInv, EffectsInv, ~Overlap', ~ClockingLost, NEW w \in Workers, Calls(w)
  PROVE  EffectsInv'
<1> DEFINE r == job[w].req
<1>0. /\ row \in [Requests -> Row] /\ job = [v \in Workers |-> job[v]]
      /\ \A j : Goes(w, j) => \A v \in Workers : job'[v] = IF v = w THEN j ELSE job[v]
      /\ Idle.do \notin Writers
      /\ Done(w) <=> Goes(w, Idle)
  BY DEF LeaveInv, Goes, Done, Idle, Writers, AdminCalls
<1>a. ASSUME UNCHANGED <<punch, days, pending>>, NEW j, Goes(w, j), NEW q,
             job[w].do \in Writers, Updated(r, q),
             j.do \in Writers => j.req = r /\ Fits(j, q),
             q.state = "live" /\ j.do \notin Unsettled => Consistent(q),
             Effective(q) /\ j.do \notin Cleared <=> Effective(row[r]) /\ job[w].do \notin Cleared,
             Effective(row[r]) /\ job[w].do \notin Cleared => q.what = row[r].what
      PROVE  EffectsInv'
  <2>1. row' = [row EXCEPT ![r] = q]
    BY <1>a, WriterRow DEF Updated
  <2> QED
    BY <1>a, <2>1, RowCall
<1>1. CASE Insert(w)
  BY <1>1, InsertCall
<1>2. CASE MoveUp(w)
  <2>1. r \in Requests /\ job[w].do \notin Writers
    BY <1>2, JobShape DEF MoveUp, Only, LeaveInv, Writers, AdminCalls
  <2>2. \A s \in Requests : /\ row'[s].state = row[s].state /\ row'[s].what = row[s].what
                            /\ row'[s].final = row[s].final /\ row'[s].accept = row[s].accept
    BY <1>0, <1>2, <2>1 DEF MoveUp, Updated, Row
  <2> QED
    BY <1>0, <1>2, <2>1, <2>2, SameOutcomes DEF MoveUp, Only
<1>3. CASE WriteDecision(w)
  <2> DEFINE j == [do |-> "apply", req |-> r, what |-> job[w].what]
             q == [row[r] EXCEPT !.final = job[w].final, !.by = job[w].by]
  <2>1. job[w].do = "decide" /\ job[w].do \in Writers /\ job[w].do \notin Unsettled
    BY <1>3 DEF WriteDecision, Only, Writers, AdminCalls, Unsettled, Cleared
  <2>2. /\ r \in Requests /\ Live(r) /\ Fits(job[w], row[r]) /\ Consistent(row[r]) /\ row[r] \in Row
        /\ job[w].final \in {"approved", "rejected"}
    BY <1>0, <2>1, WriterRow, JobShape DEF LeaveInv
  <2>3. /\ row[r].final = "undecided" /\ row[r].accept = "none" /\ row[r].what = job[w].what
        /\ row[r].state = "live"
    BY <2>1, <2>2 DEF Fits, Consistent, Live
  <2>4. /\ q.final = job[w].final /\ q.accept = "none" /\ q.what = job[w].what /\ q.state = "live"
        /\ ~Effective(row[r]) /\ ~Effective(q)
    BY <2>2, <2>3 DEF Row, Effective
  <2>5. Updated(r, q) /\ UNCHANGED <<punch, days, pending>>
    BY <1>3 DEF WriteDecision, Only
  <2>6. j.req = r /\ j.do = "apply" /\ j.do \in Unsettled /\ j.what = job[w].what
    BY DEF Unsettled
  <2> HIDE DEF q, j
  <2>7. CASE job[w].final = "approved"
    <3>1. Goes(w, j) /\ Fits(j, q)
      BY <1>3, <2>4, <2>6, <2>7 DEF WriteDecision, Fits, j
    <3> QED
      BY <1>a, <2>1, <2>4, <2>5, <2>6, <3>1
  <2>8. CASE job[w].final = "rejected"
    <3>1. Goes(w, Idle) /\ Consistent(q)
      BY <1>0, <1>3, <2>4, <2>8 DEF WriteDecision, Consistent
    <3> QED
      BY <1>0, <1>a, <2>1, <2>4, <2>5, <3>1
  <2> QED
    BY <2>2, <2>7, <2>8
<1>4. CASE ApplyDecision(w)
  BY <1>4, ApplyCall DEF ApplyDecision, Only
<1>5. CASE ApplyFails(w)
  <2> DEFINE j == [do |-> "undo", req |-> r]
  <2>1. job[w].do = "apply" /\ job[w].do \in Writers
    BY <1>5 DEF ApplyFails, Only, Writers, AdminCalls
  <2>2. r \in Requests /\ Live(r) /\ Fits(job[w], row[r])
    BY <2>1, WriterRow
  <2>3. row[r].final = "approved" /\ row[r].accept = "none" /\ ~Effective(row[r])
    BY <2>1, <2>2 DEF Fits, Effective
  <2>4. j.do = "undo" /\ j.req = r /\ j.do \in Unsettled /\ Fits(j, row[r])
    BY <2>2, <2>3 DEF Unsettled, Fits, Live
  <2>5. Goes(w, j) /\ UNCHANGED <<punch, days, pending>> /\ Updated(r, row[r])
    BY <1>0, <1>5 DEF ApplyFails, Only, kara, Updated
  <2> HIDE DEF j
  <2> QED
    BY <1>a, <2>1, <2>3, <2>4, <2>5
<1>6. CASE UndoDecision(w)
  <2> DEFINE q == [row[r] EXCEPT !.final = "undecided", !.by = None]
  <2>1. job[w].do = "undo" /\ job[w].do \in Writers
    BY <1>6 DEF UndoDecision, Only, Writers, AdminCalls
  <2>2. r \in Requests /\ Live(r) /\ Fits(job[w], row[r]) /\ row[r] \in Row
    BY <1>0, <2>1, WriterRow
  <2>3. row[r].accept = "none" /\ ~Effective(row[r]) /\ ~Effective(q) /\ Consistent(q)
    BY <2>1, <2>2 DEF Fits, Effective, Consistent, Row
  <2>4. Goes(w, Idle) /\ UNCHANGED <<punch, days, pending>> /\ Updated(r, q)
    BY <1>0, <1>6 DEF UndoDecision, Only
  <2> HIDE DEF q
  <2> QED
    BY <1>0, <1>a, <2>1, <2>3, <2>4
<1>7. CASE Revert(w)
  BY <1>7, RevertCall
<1>8. CASE DeleteDependentRows(w)
  <2> DEFINE j == [do |-> "delete", req |-> r]
             q == [row[r] EXCEPT !.moved = FALSE]
  <2>1. job[w].do \in Writers /\ job[w].do \in Cleared
    BY <1>8 DEF DeleteDependentRows, Only, Writers, AdminCalls, Cleared
  <2>2. r \in Requests /\ Live(r) /\ row[r] \in Row
    BY <1>0, <2>1, WriterRow
  <2>3. j.req = r /\ j.do \in Cleared /\ j.do \in Unsettled /\ Fits(j, q)
    BY <2>2 DEF Unsettled, Cleared, Fits, Live, Row
  <2>4. Goes(w, j) /\ UNCHANGED <<punch, days, pending>> /\ Updated(r, q)
    BY <1>8 DEF DeleteDependentRows, Only
  <2> HIDE DEF j, q
  <2> QED
    BY <1>a, <2>1, <2>3, <2>4
<1>9. CASE DeleteRow(w)
  <2> DEFINE q == [NewRow EXCEPT !.state = "deleted"]
  <2>1. job[w].do \in Writers /\ job[w].do \in Cleared
    BY <1>9 DEF DeleteRow, Only, Writers, AdminCalls, Cleared
  <2>2. q.state = "deleted" /\ ~Effective(q)
    BY DEF NewRow, Effective
  <2>3. Goes(w, Idle) /\ UNCHANGED <<punch, days, pending>> /\ Updated(r, q)
    BY <1>0, <1>9 DEF DeleteRow, Only
  <2> HIDE DEF q
  <2> QED
    BY <1>0, <1>a, <2>1, <2>2, <2>3
<1>10. CASE WriteEdit(w)
  <2> DEFINE j == [do |-> "reread", req |-> r]
             q == [row[r] EXCEPT !.final = IF job[w].edit.final = None THEN @ ELSE job[w].edit.final,
                                 !.what = IF job[w].edit.what = None THEN @ ELSE job[w].edit.what]
  <2>1. job[w].do \in Writers /\ job[w].do \in Cleared
    BY <1>10 DEF WriteEdit, Only, Writers, AdminCalls, Cleared
  <2>2. r \in Requests /\ Live(r) /\ row[r] \in Row
    BY <1>0, <2>1, WriterRow
  <2>3. j.req = r /\ j.do \in Cleared /\ j.do \in Unsettled /\ Fits(j, q)
    BY <2>2 DEF Unsettled, Cleared, Fits, Live, Row
  <2>4. Goes(w, j) /\ UNCHANGED <<punch, days, pending>> /\ Updated(r, q)
    BY <1>10 DEF WriteEdit, Only
  <2> HIDE DEF j, q
  <2> QED
    BY <1>a, <2>1, <2>3, <2>4
<1>11. CASE Reread(w)
  <2> DEFINE j == IF row[r].final = "approved"
                  THEN [do |-> "apply_edit", req |-> r, what |-> row[r].what]
                  ELSE [do |-> "clear", req |-> r]
  <2>1. job[w].do \in Writers /\ job[w].do \in Cleared
    BY <1>11 DEF Reread, Only, Writers, AdminCalls, Cleared
  <2>2. r \in Requests /\ Live(r) /\ row[r] \in Row
    BY <1>0, <2>1, WriterRow
  <2>3. j.req = r /\ j.do \in Cleared /\ j.do \in Unsettled /\ Fits(j, row[r])
    BY <2>2 DEF Unsettled, Cleared, Fits, Live, Row
  <2>4. Goes(w, j) /\ UNCHANGED <<punch, days, pending>> /\ Updated(r, row[r])
    BY <1>0, <1>11, <2>2 DEF Reread, Only, kara, Updated
  <2> HIDE DEF j
  <2> QED
    BY <1>a, <2>1, <2>3, <2>4
<1>12. CASE ApplyEdit(w)
  BY <1>12, ApplyCall DEF ApplyEdit, Only
<1>13. CASE ClearAcceptCode(w)
  <2> DEFINE q == [row[r] EXCEPT !.accept = "none"]
  <2>1. job[w].do = "clear" /\ job[w].do \in Writers /\ job[w].do \in Cleared
    BY <1>13 DEF ClearAcceptCode, Only, Writers, AdminCalls, Cleared
  <2>2. r \in Requests /\ Live(r) /\ Fits(job[w], row[r]) /\ row[r] \in Row
    BY <1>0, <2>1, WriterRow
  <2>3. ~Effective(q) /\ Consistent(q)
    BY <2>1, <2>2 DEF Fits, Effective, Consistent, Row
  <2>4. Goes(w, Idle) /\ UNCHANGED <<punch, days, pending>> /\ Updated(r, q)
    BY <1>0, <1>13 DEF ClearAcceptCode, Only
  <2> HIDE DEF q
  <2> QED
    BY <1>0, <1>a, <2>1, <2>3, <2>4
<1>14. ASSUME job[w].do = "reassign", NEW m \in job[w].moves, Move(w, m) \/ MoveFails(w, m)
       PROVE  EffectsInv'
  <2>1. \A s \in Requests : /\ row'[s].state = row[s].state /\ row'[s].what = row[s].what
                            /\ row'[s].final = row[s].final /\ row'[s].accept = row[s].accept
    BY <1>0, <1>14 DEF Move, MoveFails, kara, Row
  <2>2. job[w].do \notin Writers
    BY <1>14 DEF Writers, AdminCalls
  <2>3. \E ms : Goes(w, [job[w] EXCEPT !.moves = ms])
    BY <1>14 DEF Move, MoveFails
  <2>4. job'[w].do = "reassign" /\ \A v \in Workers \ {w} : job'[v] = job[v]
    <3>1. GoodJob(job[w]) /\ \A ms : [job[w] EXCEPT !.moves = ms].do = job[w].do
      BY DEF LeaveInv
    <3> QED
      BY <1>0, <1>14, <2>3, <3>1
  <2>5. UNCHANGED <<punch, days, pending>>
    BY <1>14 DEF Move, MoveFails, Only, kara
  <2>6. job'[w].do \notin Writers
    BY <2>4 DEF Writers, AdminCalls
  <2> QED
    BY <2>1, <2>2, <2>4, <2>5, <2>6, SameOutcomes
<1>15. CASE EndReassign(w)
  <2>1. job[w].do \notin Writers
    BY <1>15 DEF EndReassign, Writers, AdminCalls
  <2> QED
    BY <1>0, <1>15, <2>1, SameOutcomes DEF EndReassign, kara
<1> QED
  BY <1>1, <1>2, <1>3, <1>4, <1>5, <1>6, <1>7, <1>8, <1>9, <1>10, <1>11, <1>12, <1>13, <1>14, <1>15
  DEF Calls
-----------------------------------------------------------------------------
(* The scheduler, Kara and the devices.                                    *)
LEMMA SchedulerKeepsEffects ==
  ASSUME LeaveInv, EffectsInv, ~Overlap', Scheduler
  PROVE  EffectsInv'
<1>1. CASE SelectPending
  <2>1. \A p \in pending' : p[1] \in Requests /\ GoodPending(p)
    BY <1>1 DEF SelectPending, GoodPending, Waiting
  <2> QED
    BY <1>1, <2>1, SameOutcomes DEF SelectPending, kara
<1>2. ASSUME NEW p \in pending, ApplyPending(p)
      PROVE  EffectsInv'
  <2> DEFINE r == p[1]
  <2>1. /\ r \in Requests /\ p[2] \in Whats /\ GoodPending(p) /\ row \in [Requests -> Row]
        /\ pending' \subseteq pending /\ UNCHANGED job
    BY <1>2 DEF LeaveInv, EffectsInv, PendingFits, ApplyPending
  <2>2. CASE ~Waiting(r)
    BY <1>2, <2>1, <2>2, SameOutcomes DEF ApplyPending, kara
  <2>3. CASE Waiting(r)
    <3>1. Apply(r, p[2]) /\ Live(r) /\ row[r].what = p[2] /\ p[2][1] = "hourly"
      BY <1>2, <2>1, <2>3 DEF ApplyPending, GoodPending
    <3>2. ~Writing(r)
      <4> SUFFICES ASSUME NEW w \in Workers, job[w].do \in Writers, job[w].req = r PROVE FALSE
        BY DEF Writing
      <4>1. Fits(job[w], row[r])
        BY WriterRow
      <4>2. job[w].do \notin AdminCalls
        BY <1>2 DEF EffectsInv, Overlap
      <4> QED
        BY <2>1, <4>1, <4>2 DEF Writers, Fits, GoodPending
    <3> HIDE DEF r
    <3>3. /\ row' = [row EXCEPT ![r] = [row[r] EXCEPT !.accept = row'[r].accept]]
          /\ row'[r].accept \in {"applied", "waiting"}
      BY <2>1, <3>1 DEF Apply, Updated, Row
    <3>4. /\ row'[r].state = "live" /\ row'[r].final = "approved" /\ row'[r].what = row[r].what
          /\ \A s \in Requests \ {r} : row'[s] = row[s]
      BY <2>1, <3>1, <3>3 DEF GoodPending, Row, Live, r
    <3>5. /\ Others(r) /\ (Shows(r) <=> Effective(row[r])) /\ (ShowsNow(r) <=> Effective(row'[r]))
          /\ EffectsShown' => EffectsInv'
      BY <2>1, <3>1, <3>2, <3>3, <3>4, NobodyWrites DEF r
    <3>6. ~Shows(r) /\ (ShowsNow(r) <=> row'[r].accept = "applied")
      BY <2>3, <3>4, <3>5 DEF Effective, Waiting, r
    <3>7. EffectsShown'
      BY <2>1, <3>1, <3>5, <3>6, EffectWritten DEF EffectsInv, r
    <3> QED
      BY <3>5, <3>7
  <2> QED
    BY <2>2, <2>3
<1>3. ASSUME NEW p \in pending, PendingFails(p)
      PROVE  EffectsInv'
  BY <1>3, SameOutcomes DEF PendingFails, kara
<1> QED
  BY <1>1, <1>2, <1>3 DEF Scheduler

LEMMA KaraCancelsKeepsEffects ==
  ASSUME LeaveInv, EffectsInv, ~Overlap', ~ClockingLost, ~CancelledUnderneath,
         NEW r \in Requests, KaraCancels(r)
  PROVE  EffectsInv'
<1> DEFINE k == row[r].what[1]
           t == row[r].what[2]
<1>1. /\ Live(r) /\ row[r].final = "approved" /\ row[r].accept \in {"applied", "waiting"}
      /\ row \in [Requests -> Row] /\ row[r] \in Row /\ UNCHANGED <<job, pending>>
  BY LiveRow DEF KaraCancels, LeaveInv
<1>2. row[r].what = <<k, t>> /\ k \in Kinds /\ t \in Times
  BY <1>1, LiveRow, LeaveAssumption
<1> HIDE DEF k, t
<1>3. /\ row'[r] = [row[r] EXCEPT !.accept = "cancelled"]
      /\ \A s \in Requests \ {r} : row'[s] = row[s]
  BY <1>1 DEF KaraCancels
<1>4. /\ row'[r].state = "live" /\ row'[r].final = "approved" /\ row'[r].accept = "cancelled"
      /\ row'[r].what = row[r].what
  BY <1>1, <1>3 DEF Row, Live
<1>5. ~Writing(r)
  BY <1>1, <1>4 DEF CancelledUnderneath
<1>6. /\ Others(r) /\ (Shows(r) <=> Effective(row[r])) /\ (ShowsNow(r) <=> Effective(row'[r]))
      /\ EffectsShown' => EffectsInv'
  BY <1>1, <1>3, <1>4, <1>5, NobodyWrites
<1>7. ~ShowsNow(r) /\ (Shows(r) <=> row[r].accept = "applied")
  BY <1>1, <1>4, <1>6 DEF Effective, Live
<1>8. CASE row[r].accept = "applied"
  <2>1. /\ punch' = [punch EXCEPT ![t] =
             CASE k = "hourly"                         -> [@ EXCEPT !.mark = "plain"]
               [] k = "forgotten" /\ @.from = "portal" -> NoPunch
               [] OTHER                                -> @]
        /\ days' = [days EXCEPT ![t] = IF k = "daily" /\ @ > 0 THEN @ - 1 ELSE @]
    BY <1>8 DEF KaraCancels, k, t
  <2>2. EffectsShown'
    BY <1>2, <1>6, <1>7, <1>8, <2>1, EffectTakenBack DEF EffectsInv
  <2> QED
    BY <1>6, <2>2
<1>9. CASE row[r].accept = "waiting"
  <2>1. punch' = [punch EXCEPT ![t] = punch[t]] /\ days' = [days EXCEPT ![t] = days[t]]
    BY <1>9 DEF KaraCancels, k, t
  <2>2. UNCHANGED <<punch, days>>
    BY <2>1 DEF LeaveInv, KaraTypes
  <2>3. EffectsShown'
    BY <1>6, <1>7, <1>9, <2>2, SameEffects DEF EffectsInv
  <2> QED
    BY <1>6, <2>3
<1> QED
  BY <1>1, <1>8, <1>9

LEMMA DeviceKeepsEffects ==
  ASSUME LeaveInv, EffectsInv, ~Overlap', NEW t \in Times, NEW mark \in {"plain", "card"},
         DeviceWrites(t, mark)
  PROVE  EffectsInv'
<1>1. UNCHANGED <<row, days, job, pending>> /\ punch[t] = NoPunch
  BY DEF DeviceWrites
<1>2. RowsFit' /\ JobsFit' /\ PendingFits'
  BY <1>1 DEF EffectsInv, RowsFit, JobsFit, PendingFits, GoodPending, Consistent, Fits, At, Live
<1>3. \A l, u : Shown(l, u)' = Shown(l, u)
  BY <1>1 DEF Shown, Shows, At, Live
<1>4. ASSUME NEW u \in Times PROVE KaraFits(u)'
  <2>1. KaraFits(u)
    BY DEF EffectsInv, EffectsShown
  <2>2. punch'[u] = IF u = t THEN [from |-> "device", mark |-> mark] ELSE punch[u]
    BY DEF DeviceWrites, LeaveInv, KaraTypes
  <2>3. CASE u = t
    <3>1. punch'[t].from = "device" /\ punch'[t].mark # "marked" /\ punch[t].mark # "marked"
      BY <1>1, <2>2, <2>3 DEF NoPunch
    <3> QED
      BY <1>1, <1>3, <2>1, <2>3, <3>1, LeaveAssumption DEF KaraFits, NoPunch
  <2>4. CASE u # t
    BY <1>1, <1>3, <2>1, <2>2, <2>4 DEF KaraFits
  <2> QED
    BY <2>3, <2>4
<1> QED
  BY <1>2, <1>4 DEF EffectsInv, EffectsShown
-----------------------------------------------------------------------------
LEMMA EffectsAtFirst == Init => EffectsInv
<1> SUFFICES ASSUME Init PROVE EffectsInv
  OBVIOUS
<1>1. \A r \in Requests : ~Live(r) /\ ~Shows(r)
  BY DEF Init, NewRow, Live, Shows
<1>2. \A w \in Workers : job[w].do = "idle"
  BY DEF Init, Idle
<1>3. ~Overlap /\ RowsFit /\ JobsFit /\ PendingFits
  BY <1>1, <1>2 DEF Init, Overlap, RowsFit, JobsFit, Fits, PendingFits, Writers, AdminCalls
<1>4. \A k, t : Shown(k, t) = {}
  BY <1>1 DEF Shown
<1>5. \A t \in Times : punch[t] = NoPunch /\ days[t] = 0
  BY DEF Init
<1>6. NoPunch.from = None /\ NoPunch.mark = "plain" /\ None # "portal"
  BY LeaveAssumption DEF NoPunch
<1>7. Cardinality({}) = 0
  BY FS_EmptySet
<1> QED
  BY <1>3, <1>4, <1>5, <1>6, <1>7 DEF EffectsInv, EffectsShown, KaraFits

LEMMA StepKeepsEffects ==
  LeaveInv /\ EffectsInv /\ [Undisturbed /\ ~ClockingLost]_vars => EffectsInv'
<1> SUFFICES ASSUME LeaveInv, EffectsInv, [Undisturbed /\ ~ClockingLost]_vars PROVE EffectsInv'
  OBVIOUS
<1>1. CASE UNCHANGED vars
  <2>1. ~Overlap'
    BY <1>1 DEF vars, Overlap, EffectsInv
  <2> QED
    BY <1>1, <2>1, SameOutcomes DEF vars
<1>2. ASSUME NEW w \in Workers, job[w].do \notin Writers, Stop(w)
      PROVE  EffectsInv'
  <2>1. \A v \in Workers : job'[v] = IF v = w THEN Idle ELSE job[v]
    BY <1>2 DEF Stop, Done, Goes, LeaveInv
  <2>2. Idle.do \notin Writers /\ Idle.do \notin AdminCalls
    BY DEF Idle, Writers, AdminCalls
  <2>3. UNCHANGED <<row, punch, days, pending>>
    BY <1>2 DEF Stop, kara
  <2>4. ~Overlap'
    BY <2>1, <2>2, <2>3 DEF Overlap, EffectsInv
  <2> QED
    BY <1>2, <2>1, <2>2, <2>3, <2>4, SameOutcomes
<1>3. ASSUME Steps, ~Overlap', ~CancelledUnderneath, ~ClockingLost
      PROVE  EffectsInv'
  <2>1. ASSUME NEW w \in Workers, Handlers(w) \/ Calls(w) PROVE EffectsInv'
    BY <1>3, <2>1, BeginningKeepsEffects, CallKeepsEffects
  <2>2. CASE Outside
    <3>1. CASE RemoveHrOfficer
      BY <1>3, <3>1, SameOutcomes DEF RemoveHrOfficer, kara
    <3> QED
      BY <1>3, <2>2, <3>1, KaraCancelsKeepsEffects, DeviceKeepsEffects DEF Outside
  <2> QED
    BY <1>3, <2>1, <2>2, SchedulerKeepsEffects DEF Steps
<1> QED
  BY <1>1, <1>2, <1>3 DEF Undisturbed

(* Between the handlers the requests that show an effect are those in      *)
(* force.                                                                  *)
LEMMA EffectsBetweenHandlers == LeaveInv /\ EffectsInv => EffectsMatch
<1> SUFFICES ASSUME LeaveInv, EffectsInv, Quiet
             PROVE  /\ \A r \in Requests : Live(r) => Consistent(row[r])
                    /\ \A t \in Times :
                         /\ days[t] = Cardinality(InForce("daily", t))
                         /\ Cardinality(InForce("hourly", t)) = IF punch[t].mark = "marked" THEN 1 ELSE 0
                         /\ punch[t].from = "portal" => InForce("forgotten", t) # {}
                         /\ punch[t] = NoPunch => InForce("forgotten", t) = {}
  BY DEF EffectsMatch, Consistent
<1>1. \A w \in Workers, r \in Requests : ~At(w, Cleared, r) /\ ~At(w, Unsettled, r)
  BY DEF Quiet, At, Cleared, Unsettled, Writers, AdminCalls
<1>2. \A r \in Requests : Live(r) => Consistent(row[r])
  BY <1>1 DEF EffectsInv, RowsFit
<1>3. \A k, t : Shown(k, t) = InForce(k, t)
  BY <1>1 DEF Shown, Shows, InForce
<1>4. ASSUME NEW t \in Times
      PROVE  /\ days[t] = Cardinality(InForce("daily", t))
             /\ Cardinality(InForce("hourly", t)) = IF punch[t].mark = "marked" THEN 1 ELSE 0
             /\ punch[t].from = "portal" => InForce("forgotten", t) # {}
             /\ punch[t] = NoPunch => InForce("forgotten", t) = {}
  <2>1. KaraFits(t)
    BY DEF EffectsInv, EffectsShown
  <2>2. CASE punch[t].mark = "marked"
    <3>1. PICK r \in InForce("hourly", t) : InForce("hourly", t) = {r}
      BY <1>3, <2>1, <2>2 DEF KaraFits
    <3>2. Cardinality(InForce("hourly", t)) = 1
      BY <3>1, FS_Singleton
    <3> QED
      BY <1>3, <2>1, <2>2, <3>2 DEF KaraFits, NoPunch
  <2>3. CASE punch[t].mark # "marked"
    <3>1. Cardinality(InForce("hourly", t)) = 0
      BY <1>3, <2>1, <2>3, FS_EmptySet DEF KaraFits
    <3> QED
      BY <1>3, <2>1, <2>3, <3>1 DEF KaraFits, NoPunch
  <2> QED
    BY <2>2, <2>3
<1> QED
  BY <1>2, <1>4

(* As long as no two handlers write one request at a time, none stops      *)
(* half-way and Kara cancels nothing under one, the effects in Kara are,   *)
(* between the handlers, exactly those of the approved requests: for any   *)
(* number of requests, times and handlers.                                 *)
THEOREM EffectsMatchHolds == OrderlySpec => []EffectsMatch
<1>1. LeaveInv /\ [Undisturbed /\ ~ClockingLost]_vars => LeaveInv'
  BY LeaveStep DEF Undisturbed, Next
<1> QED
  BY <1>1, LeaveInit, EffectsAtFirst, StepKeepsEffects, EffectsBetweenHandlers, PTL DEF OrderlySpec
==============================================================================
