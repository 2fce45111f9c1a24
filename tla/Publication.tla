----------------------------- MODULE Publication -----------------------------
(***************************************************************************)
(* What backtests promise of their results: a result appears once and      *)
(* whole, it is never replaced or repaired, and who says that it is there  *)
(* speaks the truth.                                                       *)
(***************************************************************************)
CONSTANTS
    Ids,                   \* identities of backtests
    Procs,                 \* backtest commands
    Absent, Whole, Edited  \* no result, the result, what somebody made of it

VARIABLES
    shown,   \* [Ids -> content of the directory of that result]
    answer   \* [Procs -> what the command has reported]

Silent == [status |-> "NONE", id |-> Absent]

Init ==
    /\ shown = [id \in Ids |-> Absent]
    /\ answer = [p \in Procs |-> Silent]

Answers(p, status, id) ==
    /\ answer[p] = Silent
    /\ answer' = [answer EXCEPT ![p] = [status |-> status, id |-> id]]

Publish(id) ==
    /\ shown[id] = Absent
    /\ shown' = [shown EXCEPT ![id] = Whole]
    /\ UNCHANGED answer

Succeed(p, id) ==
    /\ shown[id] # Absent
    /\ \A q \in Procs : answer[q] # [status |-> "SUCCEEDED", id |-> id]
    /\ Answers(p, "SUCCEEDED", id)
    /\ UNCHANGED shown

Confirm(p, id) ==
    /\ shown[id] = Whole
    /\ Answers(p, "EXISTING_IDENTICAL", id)
    /\ UNCHANGED shown

Refuse(p) ==
    /\ Answers(p, "RAISED", Absent)
    /\ UNCHANGED shown

\* A power failure may take a result back that nobody has called a success.
Lose(ids) ==
    /\ \A id \in ids : \A p \in Procs : answer[p] # [status |-> "SUCCEEDED", id |-> id]
    /\ shown' = [id \in Ids |-> IF id \in ids THEN Absent ELSE shown[id]]
    /\ UNCHANGED answer

\* Somebody edits a result by hand.
Edit(id) ==
    /\ shown[id] # Absent
    /\ shown' = [shown EXCEPT ![id] = Edited]
    /\ UNCHANGED answer

Next ==
    \/ \E id \in Ids : Publish(id) \/ Edit(id)
    \/ \E p \in Procs : Refuse(p) \/ \E id \in Ids : Succeed(p, id) \/ Confirm(p, id)
    \/ \E ids \in SUBSET Ids : Lose(ids)

Spec == Init /\ [][Next]_<<shown, answer>>
=============================================================================
