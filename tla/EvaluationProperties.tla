------------------------ MODULE EvaluationProperties -------------------------
(***************************************************************************)
(* What must hold of the evaluations of a period.                          *)
(***************************************************************************)
EXTENDS Evaluation

(* The status of an assignment, which the lock of the portal, the          *)
(* reminders and the closing of the period go by, says completed exactly   *)
(* when its evaluation was submitted once, also while that is being edited.*)
CompletedMeans ==
  \A k \in Keys :
    row[k].status = "completed" <=> row[k].eval = "submitted" \/ row[k].edited

(* An evaluator whom an undone evaluation of a closed period locks out can *)
(* do it and is let in: submitting stays possible after the closing.       *)
Held(k) == Pending(k) /\ Closed /\ Enabled

LockCanBeLifted == \A k \in Keys : Held(k) ~> ~Held(k)

(* The last submission closes a running period, although a sync that was   *)
(* begun before it may count too early and nothing else comes back to it.  *)
Unclosed == AllDone /\ period.status = "active" /\ period.phase = "during"

LastSubmitCloses == (fresh /\ Unclosed) ~> ~Unclosed
==============================================================================
