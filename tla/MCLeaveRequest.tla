---------------------------- MODULE MCLeaveRequest -----------------------------
EXTENDS LeaveProperties
CONSTANTS wim, sam, tom, hana, r1, r2, t1, w1, w2
MCChain       == <<wim, sam, tom>>
MCSubstitutes == {<<sam, wim>>, <<hana, wim>>}
MCWhats       == {"hourly", "daily", "forgotten"} \X Times
MCWhatsMarked == {"hourly", "forgotten"} \X Times
MCEdits       == {[final |-> f, what |-> None] : f \in Finals} \cup {[final |-> None, what |-> x] : x \in Whats}
MCReopen      == {[final |-> "undecided", what |-> None]}
==============================================================================
