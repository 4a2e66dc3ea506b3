------------------------------ MODULE OaRegister ------------------------------
(***************************************************************************)
(* What the secretariats promise about official numbers: every secretariat *)
(* counts 1, 2, 3, ..., a letter gets one number for good, and a number    *)
(* that was made void is never given to another letter.                    *)
(***************************************************************************)
EXTENDS Naturals

CONSTANTS Letters,  \* letters that may be registered
          Sites,    \* sites, each with its secretariat
          NoEntry   \* a letter that has no number; not an Entry

VARIABLES counter,  \* last number of each secretariat
          entry     \* the entry of each letter in the register

Entry == [site : Sites, no : Nat \ {0}, void : BOOLEAN]

Init ==
  /\ counter = [s \in Sites |-> 0]
  /\ entry = [l \in Letters |-> NoEntry]

Register(l, s) ==
  /\ entry[l] = NoEntry
  /\ counter' = [counter EXCEPT ![s] = @ + 1]
  /\ entry' = [entry EXCEPT ![l] = [site |-> s, no |-> counter[s] + 1, void |-> FALSE]]

MakeVoid(l) ==
  /\ entry[l] # NoEntry /\ ~entry[l].void
  /\ entry' = [entry EXCEPT ![l].void = TRUE]
  /\ UNCHANGED counter

Next == \E l \in Letters : MakeVoid(l) \/ \E s \in Sites : Register(l, s)

vars == <<counter, entry>>

Spec == Init /\ [][Next]_vars

(* No two letters carry the same number of a secretariat, and no number of *)
(* the count is missing from the register.                                 *)
NumbersDiffer ==
  \A l, m \in Letters :
    l # m /\ entry[l] # NoEntry /\ entry[m] # NoEntry /\ entry[l].site = entry[m].site
      => entry[l].no # entry[m].no

NoGaps ==
  \A s \in Sites : \A n \in 1..counter[s] :
    \E l \in Letters : entry[l] # NoEntry /\ entry[l].site = s /\ entry[l].no = n
==============================================================================
