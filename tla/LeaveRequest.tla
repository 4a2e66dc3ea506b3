----------------------------- MODULE LeaveRequest -----------------------------
(***************************************************************************)
(* Leave, mission and forgotten-punch requests of one employee             *)
(* (services/leave_request_service.py, kara_attendance_writeback.py).  The *)
(* rows live in the database of the attendance system, Kara, and every     *)
(* call to it is a transaction of its own without locks, so a handler is a *)
(* sequence of actions: what it read goes with it in its job, and the      *)
(* other handlers, the ten-minute job of the scheduler, Kara itself and    *)
(* the clocking devices act in between.  A handler may stop after any      *)
(* call.  Exit permits (no effect on attendance) and the texts of reviews  *)
(* are left out; the tables that Kara may lack are all there.              *)
(***************************************************************************)
EXTENDS Naturals, Sequences, FiniteSets

CONSTANTS
  Employees, None,
  Owner,        \* the employee who asks
  Chain,        \* managers of his section and of the sections above it
  Manual,       \* approver set by hand for his unit, or None
  Substitutes,  \* pairs <<manager, substitute>> that Kara, or its cached copy, may hold
  Leavers,      \* employees who may leave
  Officers,     \* who may be made HR officer of the site
  Requests, Times,
  Whats,        \* what may be asked: pairs <<kind, time>>
  Edits,        \* edits of an administrator: [final, what], None for a field left alone
  Workers,      \* web requests and syncs in progress
  MaxDays       \* bound: rows of daily leave of one time

Maybe(S) == S \cup {None}
Kinds    == {"hourly", "daily", "forgotten"}
Finals   == {"undecided", "approved", "rejected"}       \* IsFinalApproved: NULL, 1, 0
Accepts  == {"none", "applied", "waiting", "cancelled"} \* AcceptCode: NULL, 0, 8, 22

ASSUME LeaveAssumption ==
  /\ None \notin Employees \cup {"device", "portal"}
  /\ Owner \in Employees /\ Manual \in Maybe(Employees \ {Owner})
  /\ Chain \in Seq(Employees) /\ Officers \subseteq Employees
  /\ Whats \subseteq Kinds \X Times
  /\ Edits \subseteq [final : Maybe(Finals), what : Maybe(Whats)]
  /\ \A s \in Substitutes : s[1] # s[2]
  /\ IsFiniteSet(Requests) /\ MaxDays \in Nat

VARIABLES
  row,      \* WF_Requests, with the fact that WF_MoveUp has a row for it
  punch,    \* the clocking near each time: who wrote it, and the leave mark on it
  days,     \* number of rows of daily leave (Mor_Mam) for each time
  active,   \* employees who work here
  hr,       \* HR officer of the site
  job,      \* what each worker has read and still has to do
  pending   \* rows the ten-minute job has read and not tried yet: pairs <<request, what>>

vars == <<row, punch, days, active, hr, job, pending>>
kara == <<row, punch, days>>

Row == [state : {"new", "live", "deleted"}, what : Maybe(Whats), final : Finals,
        cur : Maybe(Employees), by : Maybe(Employees), accept : Accepts, moved : BOOLEAN]

NewRow  == [state |-> "new", what |-> None, final |-> "undecided", cur |-> None,
            by |-> None, accept |-> "none", moved |-> FALSE]
NoPunch == [from |-> None, mark |-> "plain"]
Idle    == [do |-> "idle"]

Init ==
  /\ row = [r \in Requests |-> NewRow]
  /\ punch = [t \in Times |-> NoPunch]
  /\ days = [t \in Times |-> 0]
  /\ active = Employees
  /\ hr \in Officers
  /\ job = [w \in Workers |-> Idle]
  /\ pending = {}

-----------------------------------------------------------------------------
Live(r)      == row[r].state = "live"
Undecided(r) == Live(r) /\ row[r].final = "undecided"
Inactive     == Employees \ active

Goes(w, j)  == job' = [job EXCEPT ![w] = j]
Done(w)     == Goes(w, Idle)
Begins(w, j) == job[w] = Idle /\ Goes(w, j) /\ UNCHANGED <<kara, active, hr, pending>>
Only(w, do) == job[w].do = do /\ UNCHANGED <<active, hr, pending>>

(* UPDATE of a request: nothing happens when its row is gone.              *)
Updated(r, new) == row' = IF Live(r) THEN [row EXCEPT ![r] = new] ELSE row

(* First manager up the chain who is neither the owner nor gone, and when  *)
(* there is none, or Kara does not answer, the approver set by hand.       *)
FirstManager(gone) ==
  LET ok == {i \in DOMAIN Chain : Chain[i] \notin gone \cup {Owner}}
  IN  IF ok = {} THEN None ELSE Chain[CHOOSE i \in ok : \A k \in ok : i <= k]
ByHand(gone)      == IF Manual \in gone THEN None ELSE Manual
Supervisors(gone) == {IF FirstManager(gone) = None THEN ByHand(gone) ELSE FirstManager(gone),
                      ByHand(gone)}

-----------------------------------------------------------------------------
(* Effects in Kara: a leave mark on a clocking, a row of daily leave, or a *)
(* clocking written by the portal.                                         *)
Markable(t) == punch[t].from # None /\ punch[t].mark = "plain"

Apply(r, what) ==
  LET k == what[1]
      t == what[2]
  IN  /\ k = "daily" => days[t] < MaxDays
      /\ punch' = [punch EXCEPT ![t] =
           CASE k = "hourly" /\ Markable(t)   -> [@ EXCEPT !.mark = "marked"]
             [] k = "forgotten" /\ @ = NoPunch -> [from |-> "portal", mark |-> "plain"]
             [] OTHER                          -> @]
      /\ days' = [days EXCEPT ![t] = IF k = "daily" THEN @ + 1 ELSE @]
      /\ Updated(r, [row[r] EXCEPT !.accept =
                       IF k = "hourly" /\ ~Markable(t) THEN "waiting" ELSE "applied"])

(* Whether request r was applied is read again for a clocking, not for a   *)
(* row of daily leave; a clocking of the device is never deleted.          *)
RevertEffects(r, what) ==
  LET k       == what[1]
      t       == what[2]
      applied == Live(r) /\ row[r].accept = "applied"
  IN  /\ punch' = [punch EXCEPT ![t] =
           CASE k = "hourly" /\ applied                          -> [@ EXCEPT !.mark = "plain"]
             [] k = "forgotten" /\ applied /\ @.from = "portal" -> NoPunch
             [] OTHER                                            -> @]
      /\ days' = [days EXCEPT ![t] = IF k = "daily" /\ @ > 0 THEN @ - 1 ELSE @]
      /\ UNCHANGED row

-----------------------------------------------------------------------------
(* Submission: the earlier requests are read, and the insert comes later.  *)
Counts(q) == Live(q) /\ row[q].final # "rejected" /\ row[q].accept # "cancelled"

Overlaps(what) ==
  \E q \in Requests : /\ Counts(q) /\ row[q].what[2] = what[2]
                      /\ (row[q].what[1] = "forgotten") = (what[1] = "forgotten")

(* A forgotten punch needs an HR officer, and a clocking that is missing.  *)
MaySubmitPunch(what) == what[1] = "forgotten" => hr # None /\ punch[what[2]] = NoPunch

(* mutant: without a manager the request is sent to nobody.                *)
BeginSubmitToNobody(w, r, what) ==
  \E cur \in Supervisors(Inactive) :
    /\ row[r].state = "new" /\ Owner \in active
    /\ ~Overlaps(what) /\ MaySubmitPunch(what)
    /\ Begins(w, [do |-> "insert", req |-> r, what |-> what, cur |-> cur])

BeginSubmit(w, r, what) ==
  \E cur \in Supervisors(Inactive) \ {None} :
    /\ row[r].state = "new" /\ Owner \in active
    /\ ~Overlaps(what) /\ MaySubmitPunch(what)
    /\ Begins(w, [do |-> "insert", req |-> r, what |-> what, cur |-> cur])

Insert(w) ==
  /\ Only(w, "insert")
  /\ row[job[w].req].state = "new"
  /\ row' = [row EXCEPT ![job[w].req] = [NewRow EXCEPT !.state = "live", !.what = job[w].what,
                                                       !.cur = job[w].cur]]
  /\ Done(w) /\ UNCHANGED <<punch, days>>

-----------------------------------------------------------------------------
(* mutant: a substitute decides on his own request.                        *)
AnySubstitute(e, r) == e = row[r].cur \/ <<row[r].cur, e>> \in Substitutes

(* Decision.  e is the current approver or his substitute.  A supervisor's *)
(* approval of a forgotten punch moves it up to the HR officer.            *)
CanActOn(e, r) == e = row[r].cur \/ (<<row[r].cur, e>> \in Substitutes /\ e # Owner)

MovesUp(e, r) == e # hr /\ row[r].cur # hr /\ Owner # hr

BeginDecide(w, r, e, approved) ==
  LET up == approved /\ row[r].what[1] = "forgotten"
  IN  /\ Undecided(r) /\ e \in active /\ CanActOn(e, r)
      /\ up => hr \in active
      /\ Begins(w, IF up /\ MovesUp(e, r)
                   THEN [do |-> "move_up", req |-> r, to |-> hr]
                   ELSE [do |-> "decide", req |-> r, by |-> e, what |-> row[r].what,
                         final |-> IF approved THEN "approved" ELSE "rejected"])

MoveUp(w) ==
  LET r == job[w].req
  IN  /\ Only(w, "move_up")
      /\ Updated(r, [row[r] EXCEPT !.cur = job[w].to, !.moved = TRUE])
      /\ Done(w) /\ UNCHANGED <<punch, days>>

WriteDecision(w) ==
  LET j == job[w]
  IN  /\ Only(w, "decide")
      /\ Updated(j.req, [row[j.req] EXCEPT !.final = j.final, !.by = j.by])
      /\ IF j.final = "approved"
         THEN Goes(w, [do |-> "apply", req |-> j.req, what |-> j.what])
         ELSE Done(w)
      /\ UNCHANGED <<punch, days>>

ApplyDecision(w) ==
  /\ Only(w, "apply")
  /\ Apply(job[w].req, job[w].what)
  /\ Done(w)

(* The effect could not be written, so the decision is taken back.         *)
ApplyFails(w) ==
  /\ Only(w, "apply")
  /\ Goes(w, [do |-> "undo", req |-> job[w].req])
  /\ UNCHANGED kara

UndoDecision(w) ==
  LET r == job[w].req
  IN  /\ Only(w, "undo")
      /\ Updated(r, [row[r] EXCEPT !.final = "undecided", !.by = None])
      /\ Done(w) /\ UNCHANGED <<punch, days>>

-----------------------------------------------------------------------------
(* Deletion, by the owner while it is undecided or by an administrator,    *)
(* who first takes back the effects.                                       *)
Reverts(r) == row[r].final = "approved" /\ row[r].accept # "cancelled"

BeginDelete(w, r) ==
  /\ Undecided(r) /\ Owner \in active
  /\ Begins(w, [do |-> "delete_rows", req |-> r])

BeginAdminDelete(w, r) ==
  /\ Live(r)
  /\ Begins(w, IF Reverts(r) THEN [do |-> "revert", req |-> r, what |-> row[r].what,
                                   next |-> [do |-> "delete_rows", req |-> r]]
               ELSE [do |-> "delete_rows", req |-> r])

Revert(w) ==
  /\ Only(w, "revert")
  /\ RevertEffects(job[w].req, job[w].what)
  /\ Goes(w, job[w].next)

DeleteDependentRows(w) ==
  LET r == job[w].req
  IN  /\ Only(w, "delete_rows")
      /\ Updated(r, [row[r] EXCEPT !.moved = FALSE])
      /\ Goes(w, [do |-> "delete", req |-> r]) /\ UNCHANGED <<punch, days>>

DeleteRow(w) ==
  /\ Only(w, "delete")
  /\ Updated(job[w].req, [NewRow EXCEPT !.state = "deleted"])
  /\ Done(w) /\ UNCHANGED <<punch, days>>

-----------------------------------------------------------------------------
(* Edit of the outcome or of what was asked by an administrator: the old   *)
(* effect off, the columns written, and the effect of the row as it is     *)
(* then.                                                                   *)
BeginEdit(w, r, edit) ==
  LET write == [do |-> "write", req |-> r, edit |-> edit]
  IN  /\ Live(r)
      /\ Begins(w, IF Reverts(r) THEN [do |-> "revert", req |-> r, what |-> row[r].what,
                                       next |-> write]
                   ELSE write)

WriteEdit(w) ==
  LET j == job[w]
      r == j.req
  IN  /\ Only(w, "write")
      /\ Updated(r, [row[r] EXCEPT !.final = IF j.edit.final = None THEN @ ELSE j.edit.final,
                                   !.what = IF j.edit.what = None THEN @ ELSE j.edit.what])
      /\ Goes(w, [do |-> "reread", req |-> r]) /\ UNCHANGED <<punch, days>>

Reread(w) ==
  LET r == job[w].req
  IN  /\ Only(w, "reread")
      /\ IF ~Live(r) THEN Done(w)
         ELSE Goes(w, IF row[r].final = "approved"
                      THEN [do |-> "apply_edit", req |-> r, what |-> row[r].what]
                      ELSE [do |-> "clear", req |-> r])
      /\ UNCHANGED kara

ApplyEdit(w) ==
  /\ Only(w, "apply_edit")
  /\ Apply(job[w].req, job[w].what)
  /\ Done(w)

ClearAcceptCode(w) ==
  LET r == job[w].req
  IN  /\ Only(w, "clear")
      /\ Updated(r, [row[r] EXCEPT !.accept = "none"])
      /\ Done(w) /\ UNCHANGED <<punch, days>>

-----------------------------------------------------------------------------
(* Moving approvers: of an employee who leaves (in the sync), after a      *)
(* change of the HR officer, or of all who left (an administrator).  The   *)
(* targets are worked out from the rows that were read, and each row moves *)
(* if it is still undecided and with the same approver.                    *)
AtHr(r) == row[r].what[1] = "forgotten" /\ row[r].moved

ValidTarget(cur, to, gone) == to \notin {None, cur, Owner} \cup gone

Moves(from, gone, officer, manager, hrOnly) ==
  {m \in [req : Requests, from : from, to : Employees] :
     /\ Undecided(m.req) /\ row[m.req].accept # "cancelled"
     /\ row[m.req].cur = m.from
     /\ hrOnly => AtHr(m.req)
     /\ m.to = IF AtHr(m.req) THEN officer ELSE manager
     /\ ValidTarget(m.from, m.to, gone)}

EmployeeLeaves(w, e) ==
  \E manager \in Supervisors(Inactive \cup {e}) :
    /\ e \in active \cap Leavers
    /\ \A v \in Workers : job[v].do = "reassign" => job[v].left = None   \* one sync at a time
    /\ Begins(w, [do |-> "reassign", left |-> e,
                  moves |-> Moves({e}, Inactive \cup {e}, hr, manager, FALSE)])

SetHrOfficer(w, h) ==
  /\ job[w] = Idle /\ h # hr
  /\ hr' = h
  /\ IF hr = None THEN UNCHANGED job
     ELSE Goes(w, [do |-> "reassign", left |-> None,
                   moves |-> Moves({hr}, Inactive, h, None, TRUE)])
  /\ UNCHANGED <<kara, active, pending>>

RemoveHrOfficer ==
  /\ hr # None
  /\ hr' = None
  /\ UNCHANGED <<kara, active, job, pending>>

ReassignStuck(w) ==
  \E manager \in Supervisors(Inactive) :
    Begins(w, [do |-> "reassign", left |-> None,
               moves |-> Moves(Inactive, Inactive, hr, manager, FALSE)])

(* mutant: the row moves wherever it is now.                               *)
MoveAnyway(w, m) ==
  /\ Only(w, "reassign") /\ m \in job[w].moves
  /\ row' = IF Undecided(m.req) THEN [row EXCEPT ![m.req].cur = m.to] ELSE row
  /\ Goes(w, [job[w] EXCEPT !.moves = @ \ {m}]) /\ UNCHANGED <<punch, days>>

Move(w, m) ==
  /\ Only(w, "reassign") /\ m \in job[w].moves
  /\ row' = IF Undecided(m.req) /\ row[m.req].cur = m.from
            THEN [row EXCEPT ![m.req].cur = m.to] ELSE row
  /\ Goes(w, [job[w] EXCEPT !.moves = @ \ {m}]) /\ UNCHANGED <<punch, days>>

(* A move that Kara refuses is only logged.                                *)
MoveFails(w, m) ==
  /\ Only(w, "reassign") /\ m \in job[w].moves
  /\ Goes(w, [job[w] EXCEPT !.moves = @ \ {m}]) /\ UNCHANGED kara

EndReassign(w) ==
  /\ job[w].do = "reassign" /\ job[w].moves = {}
  /\ active' = active \ {job[w].left}
  /\ Done(w) /\ UNCHANGED <<kara, hr, pending>>

(* A handler stops: a call to Kara raises, or the process dies.            *)
Stop(w) == job[w] # Idle /\ Done(w) /\ UNCHANGED <<kara, active, hr, pending>>

-----------------------------------------------------------------------------
(* Every ten minutes, one run at a time: hourly requests that are approved *)
(* and waiting are tried again, each in a transaction that reads the       *)
(* AcceptCode first and works with the row read before.                    *)
Waiting(r) == Live(r) /\ row[r].accept = "waiting"

(* mutant: it looks for requests without an AcceptCode.                    *)
SelectUntouched ==
  LET found == {r \in Requests : /\ Live(r) /\ row[r].accept = "none"
                                 /\ row[r].final = "approved" /\ row[r].what[1] = "hourly"}
  IN  /\ pending = {} /\ found # {}
      /\ pending' = {<<r, row[r].what>> : r \in found}
      /\ UNCHANGED <<kara, active, hr, job>>

SelectPending ==
  LET found == {r \in Requests : /\ Waiting(r) /\ row[r].final = "approved"
                                 /\ row[r].what[1] = "hourly"}
  IN  /\ pending = {} /\ found # {}
      /\ pending' = {<<r, row[r].what>> : r \in found}
      /\ UNCHANGED <<kara, active, hr, job>>

(* mutant: the mark is set and the AcceptCode stays.                       *)
MarkPending(p) ==
  /\ p \in pending /\ pending' = pending \ {p}
  /\ punch' = IF Waiting(p[1]) /\ Markable(p[2][2])
              THEN [punch EXCEPT ![p[2][2]].mark = "marked"] ELSE punch
  /\ UNCHANGED <<row, days, active, hr, job>>

ApplyPending(p) ==
  /\ p \in pending /\ pending' = pending \ {p}
  /\ IF Waiting(p[1]) THEN Apply(p[1], p[2]) ELSE UNCHANGED kara
  /\ UNCHANGED <<active, hr, job>>

PendingFails(p) ==
  /\ p \in pending /\ pending' = pending \ {p}
  /\ UNCHANGED <<kara, active, hr, job>>

-----------------------------------------------------------------------------
(* Kara and the devices.  Kara takes back the effect of what it cancels; a *)
(* clocking may already carry a card.                                      *)
KaraCancels(r) ==
  /\ Live(r) /\ row[r].final = "approved" /\ row[r].accept \in {"applied", "waiting"}
  /\ LET t == row[r].what[2]
         k == row[r].what[1]
         a == row[r].accept = "applied"
     IN  /\ punch' = [punch EXCEPT ![t] =
              CASE a /\ k = "hourly"                         -> [@ EXCEPT !.mark = "plain"]
                [] a /\ k = "forgotten" /\ @.from = "portal" -> NoPunch
                [] OTHER                                     -> @]
         /\ days' = [days EXCEPT ![t] = IF a /\ k = "daily" /\ @ > 0 THEN @ - 1 ELSE @]
  /\ row' = [row EXCEPT ![r].accept = "cancelled"]
  /\ UNCHANGED <<active, hr, job, pending>>

DeviceWrites(t, mark) ==
  /\ punch[t] = NoPunch
  /\ punch' = [punch EXCEPT ![t] = [from |-> "device", mark |-> mark]]
  /\ UNCHANGED <<row, days, active, hr, job, pending>>

-----------------------------------------------------------------------------
Handlers(w) ==
  \/ \E r \in Requests :
       \/ \E what \in Whats : BeginSubmit(w, r, what)
       \/ \E e \in Employees, approved \in BOOLEAN : BeginDecide(w, r, e, approved)
       \/ BeginDelete(w, r) \/ BeginAdminDelete(w, r)
       \/ \E edit \in Edits : BeginEdit(w, r, edit)
  \/ \E e \in Leavers : EmployeeLeaves(w, e)
  \/ \E h \in Officers : SetHrOfficer(w, h)
  \/ ReassignStuck(w)

Calls(w) ==
  \/ Insert(w) \/ MoveUp(w) \/ WriteDecision(w) \/ ApplyDecision(w) \/ ApplyFails(w)
  \/ UndoDecision(w) \/ Revert(w) \/ DeleteDependentRows(w) \/ DeleteRow(w)
  \/ WriteEdit(w) \/ Reread(w) \/ ApplyEdit(w) \/ ClearAcceptCode(w)
  \/ job[w].do = "reassign" /\ \E m \in job[w].moves : Move(w, m) \/ MoveFails(w, m)
  \/ EndReassign(w)

Scheduler == SelectPending \/ \E p \in pending : ApplyPending(p) \/ PendingFails(p)

Outside ==
  \/ RemoveHrOfficer
  \/ \E r \in Requests : KaraCancels(r)
  \/ \E t \in Times, mark \in {"plain", "card"} : DeviceWrites(t, mark)

Steps == (\E w \in Workers : Handlers(w) \/ Calls(w)) \/ Scheduler \/ Outside

Next == Steps \/ \E w \in Workers : Stop(w)

(* The job runs every ten minutes, and Kara does not refuse a row for ever. *)
Fairness ==
  /\ WF_vars(SelectPending)
  /\ \A p \in Requests \X Whats : SF_vars(ApplyPending(p))

Spec == Init /\ [][Next]_vars /\ Fairness
==============================================================================
