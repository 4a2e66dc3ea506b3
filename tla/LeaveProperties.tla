--------------------------- MODULE LeaveProperties ----------------------------
(***************************************************************************)
(* What must hold of leave requests.  The effects in Kara match only as    *)
(* long as nothing happens that the handlers do not guard against: two of  *)
(* them that write the outcome of one request overlap, one of them stops   *)
(* half-way, or Kara cancels a request under one (Undisturbed); and the    *)
(* clocking that an applied request relies on is deleted with another      *)
(* request (Orderly).                                                      *)
(***************************************************************************)
EXTENDS LeaveRequest

AdminCalls == {"revert", "write", "reread", "apply_edit", "clear", "delete_rows", "delete"}
Writers    == AdminCalls \cup {"decide", "apply", "undo"}

Writing(r) == \E w \in Workers : job[w].do \in Writers /\ job[w].req = r
Quiet      == \A w \in Workers : job[w].do \notin Writers

Overlap ==
  \/ \E v, w \in Workers : /\ v # w /\ {job[v].do, job[w].do} \subseteq Writers
                           /\ job[v].req = job[w].req
  \/ \E p \in pending, w \in Workers : job[w].do \in AdminCalls /\ job[w].req = p[1]

InForce(kind, t) ==
  {r \in Requests : /\ Live(r) /\ row[r].final = "approved" /\ row[r].accept = "applied"
                    /\ row[r].what = <<kind, t>>}

ClockingLost ==
  \E t \in Times : /\ punch[t].from = "portal" /\ punch'[t] = NoPunch
                   /\ punch[t].mark = "marked" \/ Cardinality(InForce("forgotten", t)) > 1

CancelledUnderneath ==
  \E r \in Requests : Writing(r) /\ row'[r].accept = "cancelled" /\ row[r].accept # "cancelled"

Undisturbed ==
  \/ Steps /\ ~Overlap' /\ ~CancelledUnderneath
  \/ \E w \in Workers : job[w].do \notin Writers /\ Stop(w)

UndisturbedSpec == Init /\ [][Undisturbed]_vars
OrderlySpec     == Init /\ [][Undisturbed /\ ~ClockingLost]_vars

-----------------------------------------------------------------------------
Job ==
  {Idle} \cup
  [do : {"insert"}, req : Requests, what : Whats, cur : Employees] \cup
  [do : {"move_up"}, req : Requests, to : Employees] \cup
  [do : {"decide"}, req : Requests, by : Employees, what : Whats, final : {"approved", "rejected"}] \cup
  [do : {"apply", "apply_edit"}, req : Requests, what : Whats] \cup
  [do : {"undo", "delete_rows", "delete", "reread", "clear"}, req : Requests] \cup
  [do : {"write"}, req : Requests, edit : Edits]

TypeOK ==
  /\ row \in [Requests -> Row]
  /\ punch \in [Times -> [from : {None, "device", "portal"}, mark : {"plain", "marked", "card"}]]
  /\ days \in [Times -> 0..MaxDays]
  /\ active \subseteq Employees /\ hr \in Maybe(Officers)
  /\ pending \subseteq Requests \X Whats
  /\ \A w \in Workers :
       \/ job[w] \in Job
       \/ job[w].do = "revert" /\ job[w].what \in Whats /\ job[w].next \in Job
       \/ job[w].do = "reassign" /\ job[w].left \in Maybe(Leavers)
            /\ job[w].moves \subseteq [req : Requests, from : Employees, to : Employees]

(* Nobody decides on his own request, neither as a substitute nor because  *)
(* it was moved up or moved over to him.                                   *)
NoSelfDecision == \A r \in Requests : row[r].by # Owner

(* A forgotten punch that a supervisor has moved up stays with HR: moving  *)
(* the supervisor's requests at the same time does not bring it back.      *)
StaysWithHr == \A r \in Requests : Undecided(r) /\ AtHr(r) => row[r].cur \in Officers

(* Between the handlers Kara shows exactly the effects of the approved     *)
(* requests: a row for each daily leave, a mark of one hourly request, a   *)
(* clocking for a forgotten punch.                                         *)
EffectsMatch ==
  Quiet =>
    /\ \A r \in Requests : Live(r) =>
         /\ row[r].final # "approved" <=> row[r].accept = "none"
         /\ row[r].accept = "waiting" => row[r].what[1] = "hourly"
    /\ \A t \in Times :
         /\ days[t] = Cardinality(InForce("daily", t))
         /\ Cardinality(InForce("hourly", t)) = IF punch[t].mark = "marked" THEN 1 ELSE 0
         /\ punch[t].from = "portal" => InForce("forgotten", t) # {}
         /\ punch[t] = NoPunch => InForce("forgotten", t) = {}

(* An approved hourly request whose clocking turns up is applied to it, or *)
(* another request takes that clocking.                                    *)
PendingApplied ==
  \A r \in Requests :
    (Waiting(r) /\ row[r].final = "approved" /\ row[r].what[1] = "hourly" /\ Markable(row[r].what[2]))
      ~> ~(Waiting(r) /\ row[r].final = "approved" /\ row[r].what[1] = "hourly"
             /\ Markable(row[r].what[2]))
==============================================================================
