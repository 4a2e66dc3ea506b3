------------------------------ MODULE MCOaLetter ------------------------------
(***************************************************************************)
(* A secretary and her principal, two colleagues who approve or receive,   *)
(* and at most two web requests between their reads and their writes.      *)
(***************************************************************************)
EXTENDS OaProperties, TLC

CONSTANTS wim, ann, pam, l1, l2, w1, w2

MCAuthor      == [l \in Letters |-> wim]
MCSecretaries == {<<pam, wim>>}
MCSiteOf      == [e \in Employees |-> IF e = pam THEN "head_office" ELSE "plant"]
MCLists       == {[to |-> {ann}, cc |-> {}], [to |-> {ann}, cc |-> {pam}]}
MCPlans       == {<<>>, <<ann, pam>>}
Symmetry      == Permutations(Workers)
==============================================================================
