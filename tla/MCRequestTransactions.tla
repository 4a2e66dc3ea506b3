------------------------ MODULE MCRequestTransactions ------------------------
(***************************************************************************)
(* Ann and bob stand surety for each other's loans and ask for advances,   *)
(* hal and gus approve.                                                    *)
(***************************************************************************)
EXTENDS RequestTransactions

CONSTANTS ann, bob, hal, gus

MCPath          == <<"guarantors", "site_manager", "finance">>
MCFirstSettings == [k \in SiteSteps |-> IF k = "hr" THEN hal ELSE gus]
MCManagers      == [e \in Employees |-> IF e = gus THEN <<hal>> ELSE <<gus, hal>>]
MCSubstitutes   == {<<gus, bob>>}

Submits   == {[do |-> "submit", by |-> ann, guarantor |-> bob],
              [do |-> "submit", by |-> bob, guarantor |-> ann]}
Sureties  == {[do |-> "guarantee", by |-> g, on |-> r] : g \in {ann, bob}, r \in L!Loans}
Approvals(e) == {[do |-> "approve", by |-> e, on |-> r] : r \in L!Loans}
Payments  == {[do |-> "pay", on |-> r] : r \in L!Loans}
Cancels   == {[do |-> "cancel", on |-> 1]}

Asks(people, months) == {[do |-> "ask", by |-> e, month |-> m] : e \in people, m \in months}
Batch(do, by, on, approve) == [do |-> do, by |-> by, on |-> on, approve |-> approve]
Decisions == {Batch("decide", gus, <<1, 2>>, TRUE), Batch("decide", bob, <<2, 1>>, TRUE),
              Batch("decide", hal, <<2, 1>>, TRUE)}
Leaves(e) == {[do |-> "leave", by |-> e]}

LoanDay == Submits \cup Sureties \cup Approvals(gus) \cup Payments \cup Cancels

(* The settings of the site give the requests to another manager. *)
SettingsDay == {j \in Submits \cup Sureties : j.by = ann \/ j.do = "guarantee"}
  \cup Approvals(gus) \cup Approvals(hal) \cup Cancels
  \cup {[do |-> "settings", new |-> [hr |-> hal, site_manager |-> hal]]}

(* Batches of the approvers and of the finance unit meet in opposite orders. *)
BatchDay == Asks({ann, bob}, {1}) \cup Decisions
  \cup {Batch("finance", None, <<1, 2>>, TRUE), Batch("pay_out", None, <<2, 1>>, TRUE)}

(* Requests are rejected or withdrawn and come back, in this month or the  *)
(* next.                                                                   *)
MonthDay == Asks({ann, bob}, {1}) \cup Asks({ann}, {2})
  \cup {Batch("finance", None, <<1>>, FALSE), [do |-> "withdraw", on |-> 2],
        Batch("decide", gus, <<1, 2>>, TRUE), Batch("decide", hal, <<2, 1>>, TRUE)}

(* Approvers change while they decide. *)
MoveDay == Asks({ann}, {1}) \cup Leaves(gus)
  \cup {[do |-> "manager", new |-> gus], [do |-> "move"],
        Batch("decide", gus, <<1, 2>>, TRUE), Batch("decide", hal, <<1>>, FALSE),
        Batch("decide", bob, <<1>>, TRUE)}

MCDays ==
  [loans |-> LoanDay, settings |-> SettingsDay, batches |-> BatchDay, months |-> MonthDay, moves |-> MoveDay]

(* The employee sync finds that ann left while her requests are paid out. *)
MCSyncDays == [loans |-> LoanDay \cup Leaves(ann), batches |-> BatchDay \cup Leaves(ann)]
==============================================================================
