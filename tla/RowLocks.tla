------------------------------ MODULE RowLocks ------------------------------
(***************************************************************************)
(* PostgreSQL's row locks at READ COMMITTED and the flush of SQLAlchemy,   *)
(* as the handlers use them.                                               *)
(***************************************************************************)
EXTENDS Naturals

SettingsRow(kind)   == <<"settings", kind>>
RequestRow(kind, r) == <<"request", kind, r>>
EmployeeRow(e)      == <<"employee", e>>

LockOf(row, mode) == [row |-> row, mode |-> mode]

(* SELECT FOR UPDATE, an UPDATE that leaves the key alone, and the check   *)
(* of a foreign key.                                                       *)
Compatible(m, n) == "for_update" \notin {m, n} /\ "key_share" \in {m, n}

(* A row version is written as the columns that differ from the one read,  *)
(* over the row as it is committed by then.                                *)
Columns(new, old) == [c \in {d \in DOMAIN old : new[d] # old[d]} |-> new[c]]

Over(new, old) ==
  [c \in DOMAIN new \cup DOMAIN old |-> IF c \in DOMAIN new THEN new[c] ELSE old[c]]

After(table, writes) ==
  [r \in DOMAIN table |-> IF r \in DOMAIN writes THEN Over(writes[r], table[r]) ELSE table[r]]

(* Rows are flushed in the order of their keys, each with the checks of    *)
(* its foreign keys: references[r] are the employees it comes to name.     *)
Due(turn, row, mode) == [turn |-> turn, row |-> row, mode |-> mode]

FlushLocks(kind, references) ==
  UNION {{Due(2 * r, RequestRow(kind, r), "no_key_update")}
           \cup {Due(2 * r + 1, EmployeeRow(e), "key_share") : e \in references[r]} :
         r \in DOMAIN references}

NextDue(todo) == CHOOSE l \in todo : \A k \in todo : l.turn <= k.turn
==============================================================================
