---------------------------- MODULE AtomicRestore ----------------------------
(***************************************************************************)
(* What a destructive restore promises: the database the server serves     *)
(* changes by an acknowledged write, or at once and as a whole by a        *)
(* restore; and what the administrator is told of a restore is true.  A    *)
(* fault that the restore is not made for voids the promise.               *)
(***************************************************************************)
EXTENDS Naturals

VARIABLES
  db,      \* the database as it was last served
  answer,  \* what was said of the last restore, "none" while it is open
  void     \* whether the promise is void

Init == db = [is |-> "whole", restore |-> 0, writes |-> 0] /\ answer = "idle" /\ void = FALSE

Open == answer = "none"

Write == ~Open /\ db' = [db EXCEPT !.writes = @ + 1] /\ UNCHANGED answer

Begin == ~Open /\ answer' = "none" /\ UNCHANGED db

Refuse == ~Open /\ answer' = "failed" /\ UNCHANGED db

Install == db'.is = "whole" /\ db'.restore > db.restore /\ db'.writes = 0

\* "lost": the server stopped before it could answer.
Settle ==
  /\ Open
  /\ \/ answer' \in {"failed", "lost"} /\ UNCHANGED db
     \/ answer' \in {"passed", "lost"} /\ Install

Next == void' \/ (UNCHANGED void /\ (Write \/ Begin \/ Refuse \/ Settle))

Spec == Init /\ [][Next]_<<db, answer, void>>
==============================================================================
