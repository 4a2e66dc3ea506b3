---------------------------- MODULE LoanLifecycle ----------------------------
(***************************************************************************)
(* What the loan component promises of its requests, without approvers,    *)
(* guarantors, queue numbers or installments: a borrower has one open      *)
(* request at a time, money is lent once and only from the payment queue,  *)
(* and a closed request stays closed.                                      *)
(***************************************************************************)
CONSTANTS Requests, Borrowers

VARIABLES phase, borrower

Open == {"review", "queue"}

Init ==
  /\ phase = [r \in Requests |-> "none"]
  /\ borrower \in [Requests -> Borrowers]

Move(S, from, to) ==
  /\ \A r \in S : phase[r] \in from
  /\ phase' = [r \in Requests |-> IF r \in S THEN to ELSE phase[r]]
  /\ UNCHANGED borrower

Ask(r, b, to) ==
  /\ phase[r] = "none"
  /\ \A s \in Requests : phase[s] \in Open => borrower[s] # b
  /\ phase' = [phase EXCEPT ![r] = to]
  /\ borrower' = [borrower EXCEPT ![r] = b]

Queue(r)  == Move({r}, {"review"}, "queue")
Close(S)  == Move(S, Open, "closed")
Lend(r)   == Move({r}, {"queue"}, "lent")
Repay(S)  == Move(S, {"lent"}, "repaid")
Reopen(r) == Move({r}, {"repaid"}, "lent")

Next ==
  \/ \E r \in Requests, b \in Borrowers, to \in Open : Ask(r, b, to)
  \/ \E r \in Requests : Queue(r) \/ Lend(r) \/ Reopen(r)
  \/ \E S \in SUBSET Requests : Close(S) \/ Repay(S)

Spec == Init /\ [][Next]_<<phase, borrower>>

(* No borrower has two open requests. *)
OneOpen ==
  \A r, s \in Requests :
    r # s /\ phase[r] \in Open /\ phase[s] \in Open => borrower[r] # borrower[s]
==============================================================================
