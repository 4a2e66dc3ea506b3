----------------------------- MODULE OaProperties -----------------------------
(***************************************************************************)
(* What must hold of the letters, whichever handlers meet.                 *)
(***************************************************************************)
EXTENDS OaLetter

Job ==
  {Idle} \cup
  [do : {"discard"}, letter : Letters] \cup
  [do : {"attach", "detach"}, letter : Letters, file : Files] \cup
  [do : {"complete"}, letter : Letters, task : 1..MaxTasks] \cup
  [do : {"transfer"}, from : Employees, to : Employees, moved : [Letters -> SUBSET (1..MaxTasks)]] \cup
  [do : {"decide"}, letter : Letters, round : 1..MaxRounds, step : Nat, by : Employees]

(* A save holds the columns that differ from the draft it has read.        *)
IsSave(j) ==
  /\ j.do = "save" /\ j.letter \in Letters
  /\ DOMAIN j.writes \subseteq {"text", "hash", "act", "principal"}
  /\ Written(NoLetter, j.writes) \in Letter

TypeOK ==
  /\ letter \in [Letters -> Letter]
  /\ path \in [Letters -> [Rounds -> Seq(Step)]]
  /\ tasks \in [Letters -> Seq(Task)] /\ \A l \in Letters : Len(tasks[l]) <= MaxTasks
  /\ access \in [Letters -> SUBSET (Employees \X BOOLEAN)]
  /\ counter \in [Sites -> Nat]
  /\ issued \subseteq [site : Sites, no : Nat \ {0}, letter : Letters, void : BOOLEAN]
  /\ \A w \in Workers : job[w] \in Job \/ IsSave(job[w])

(* While a letter is in approval exactly one step of its round is active:  *)
(* the steps before it are approved, those after it wait, and its approver *)
(* holds its open task, also when his open tasks were transferred at the   *)
(* same time.                                                              *)
PathInOrder ==
  \A l \in Letters : letter[l].status = "in_approval" =>
    \E k \in DOMAIN Steps(l) :
      /\ \A m \in DOMAIN Steps(l) :
           /\ m < k => Steps(l)[m].status = "approved"
           /\ m > k => Steps(l)[m].status = "pending"
      /\ LET s == Steps(l)[k]
         IN  /\ s.status = "active" /\ s.task \in OpenTasks(l)
             /\ tasks[l][s.task] = NewTask("approval", s.who)

(* A letter is out only when every step of its last round approved it, or  *)
(* when that round was broken off and the author took the plan of the next *)
(* one away.                                                               *)
NothingSkipped ==
  \A l \in Letters : letter[l].status \in {"dispatched", "cancelled"} =>
    IF letter[l].round > 0 /\ \A k \in DOMAIN Steps(l) : Steps(l)[k].status = "approved"
    THEN TRUE
    ELSE /\ Planned(l) = <<>>
         /\ letter[l].round > 0 =>
              \E k \in DOMAIN Steps(l) : Steps(l)[k].status \in {"returned", "cancelled"}

(* Whoever has an open task on a letter may read it.  The one exception is *)
(* a letter that was sent while its author was discarding the draft: its   *)
(* tasks stay open and nobody finds it any more.                           *)
AssigneesMayRead ==
  \A l \in Letters : letter[l].status # "discarded" => Assigned(l) \subseteq Readers(l)

(* Official numbers and the rows of issued numbers behave like the         *)
(* register, and the number on a letter is the one of its row.             *)
Entries ==
  [l \in Letters |->
     IF letter[l].number = 0 THEN None
     ELSE [site |-> letter[l].book, no |-> letter[l].number,
           void |-> \E n \in issued : n.letter = l /\ n.site = letter[l].book
                                      /\ n.no = letter[l].number /\ n.void]]

Register == INSTANCE OaRegister WITH entry <- Entries, NoEntry <- None

ASSUME RegisterAssumption == None \notin Register!Entry

ImplementsRegister == Register!Spec

(* The approvers of one round approve the same text.                       *)
OneContentPerRound ==
  \A l \in Letters : letter[l].round > 0 =>
    \A j, k \in DOMAIN Steps(l) :
      Steps(l)[j].status = "approved" /\ Steps(l)[k].status = "approved" =>
        Steps(l)[j].hash.text = Steps(l)[k].hash.text
==============================================================================
