---------------------------- MODULE RunLifecycle ----------------------------
(***************************************************************************)
(* What the runs table promises to whoever reads it.                       *)
(*                                                                         *)
(* A row is opened by one party, which holds it while it works.  Only the  *)
(* holder may complete the row; evidence appears together with the success *)
(* of an engine run and never otherwise.  A party that dies lets go of its *)
(* row, and recovery may fail the rows that nobody holds, no others.       *)
(***************************************************************************)
CONSTANTS
    EngineRuns,   \* rows that stand for engine runs
    Attempts      \* rows that stand for scheduler attempts

VARIABLES
    phase,      \* status of each row
    evidence,   \* the rows that have observations and decisions
    held        \* the rows whose party is still at work

Rows == EngineRuns \cup Attempts

vars == <<phase, evidence, held>>

Init ==
    /\ phase = [id \in Rows |-> "ABSENT"]
    /\ evidence = {}
    /\ held = {}

\* The same work, repeated after its party died, takes the row over.
Open(id) ==
    /\ id \notin held
    /\ phase[id] \in {"ABSENT", "RUNNING"}
    /\ phase' = [phase EXCEPT ![id] = "RUNNING"]
    /\ held' = held \cup {id}
    /\ UNCHANGED evidence

Succeed(id) ==
    /\ id \in held
    /\ phase[id] = "RUNNING"
    /\ phase' = [phase EXCEPT ![id] = "SUCCEEDED"]
    /\ evidence' = IF id \in EngineRuns THEN evidence \cup {id} ELSE evidence
    /\ held' = held \ {id}

Fail(id) ==
    /\ id \in held
    /\ phase[id] = "RUNNING"
    /\ phase' = [phase EXCEPT ![id] = "FAILED"]
    /\ held' = held \ {id}
    /\ UNCHANGED evidence

Abandon(ids) ==
    /\ held' = held \ ids
    /\ UNCHANGED <<phase, evidence>>

Recover(ids) ==
    /\ \A id \in ids : id \notin held /\ phase[id] = "RUNNING"
    /\ phase' = [id \in Rows |-> IF id \in ids THEN "FAILED" ELSE phase[id]]
    /\ UNCHANGED <<evidence, held>>

Next ==
    \/ \E id \in Rows : Open(id) \/ Succeed(id) \/ Fail(id)
    \/ \E ids \in SUBSET Rows : Abandon(ids) \/ Recover(ids)

Spec == Init /\ [][Next]_vars
=============================================================================
