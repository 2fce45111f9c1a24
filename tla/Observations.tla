---------------------------- MODULE Observations ----------------------------
(***************************************************************************)
(* What a plugin answers with, and what it makes of the answers it depends *)
(* on.  Only status, direction and times are kept of an observation.       *)
(***************************************************************************)
EXTENDS Integers, Sequences, SequencesExt

CONSTANT None   \* the None of an optional value

Statuses == {"PASS", "FAIL", "UNAVAILABLE"}

Observed(status, state) ==
    [status |-> status, state |-> state, type |-> None, direction |-> None,
     event |-> None, known |-> None]

Evidence(type, direction, event, known, state) ==
    [status |-> "PASS", state |-> state, type |-> type,
     direction |-> direction, event |-> event, known |-> known]

\* What stands in the way of a plugin with these dependencies, given in their
\* configured order: evidence from the future, else the first that failed, whose
\* times are passed on, else one that is unavailable.
DependencyProblem(dependencies, time) ==
    LET future(d) == d.known # None /\ d.known > time
        failed == SelectInSeq(dependencies, LAMBDA d : d.status = "FAIL")
        open == SelectInSeq(dependencies, LAMBDA d : d.status = "UNAVAILABLE")
    IN  CASE SelectInSeq(dependencies, future) # 0 ->
               Observed("FAIL", "INVALID_DEPENDENCY_EVIDENCE")
          [] SelectInSeq(dependencies, future) = 0 /\ failed # 0 ->
               [Observed("FAIL", "FAILED_DEPENDENCY") EXCEPT
                  !.event = dependencies[failed].event,
                  !.known = dependencies[failed].known]
          [] SelectInSeq(dependencies, future) = 0 /\ failed = 0 /\ open # 0 ->
               Observed("UNAVAILABLE", "UNAVAILABLE")
          [] OTHER -> None
=============================================================================
