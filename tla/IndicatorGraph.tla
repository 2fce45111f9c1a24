--------------------------- MODULE IndicatorGraph ---------------------------
(***************************************************************************)
(* The evaluation of one instrument: the configured graph is put in order, *)
(* every node answers once what it depends on has answered, the policy     *)
(* decides, and the replay traces the decision.                            *)
(*                                                                         *)
(*   resolve -> execute -> decided                                         *)
(*      |          +-> raised                                              *)
(*      +-> missing, cyclic                                                *)
(*                                                                         *)
(* A plugin's own answer is free; Indicators has what the plugins compute. *)
(***************************************************************************)
EXTENDS Observations, FiniteSetsExt

CONSTANTS
    Nodes,    \* configured instance IDs, ordered as text is
    Unknown,  \* an ID that no node has
    Orders,   \* values of the configured order
    Time,     \* evaluation time; answers are known at 1 .. Time + 1
    Absent    \* "decision.levels", which is nobody's ID

\* What a node answers: its own evidence, or what its dependencies make of it.
States == {"ANY", "NO_EVENT", "UNAVAILABLE", "FAILED_DEPENDENCY",
           "INVALID_DEPENDENCY_EVIDENCE"}
Answered == [status : Statuses, state : States, type : {None, "ANY"},
                 direction : {None}, event : {None, 1},
                 known : {None} \cup (1 .. Time + 1)]

ASSUME NodesAssumption ==
    /\ Nodes \subseteq Nat /\ IsFiniteSet(Nodes)
    /\ Unknown \in Nat \ Nodes
    /\ Orders \subseteq Nat
    /\ Time \in Nat
    /\ Absent \notin Nodes
    /\ None \notin Nat \cup Answered

VARIABLES
    dependsOn,     \* [Nodes -> SUBSET (Nodes \cup {Unknown})]
    order,         \* [Nodes -> Orders]
    stage,
    ordered,       \* nodes in the order of their evaluation
    observations,  \* answers so far, by node
    required,      \* signals the decision requires
    levels,        \* signals whose effect is LEVELS
    decision,      \* None before it is made
    gates          \* the trace: state of each signal's gate

vars == <<dependsOn, order, stage, ordered, observations, required, levels,
          decision, gates>>

Init ==
    /\ dependsOn \in [Nodes -> SUBSET (Nodes \cup {Unknown})]
    /\ order \in [Nodes -> Orders]
    /\ stage = "resolve"
    /\ ordered = <<>>
    /\ observations = [n \in {} |-> None]
    /\ required = {}
    /\ levels = {}
    /\ decision = None
    /\ gates = [n \in {} |-> None]

-----------------------------------------------------------------------------
\* The configured order, ties broken by the ID.
Before(m, n) == order[m] < order[n] \/ (order[m] = order[n] /\ m < n)

Remaining == Nodes \ Range(ordered)
ReadyAtOnce == {n \in Remaining : dependsOn[n] \subseteq Range(ordered) \cup {n}}
Ready == {n \in Remaining : dependsOn[n] \subseteq Range(ordered)}

RejectMissing ==
    /\ stage = "resolve"
    /\ \E n \in Nodes : ~(dependsOn[n] \subseteq Nodes)
    /\ stage' = "missing"
    /\ UNCHANGED <<dependsOn, order, ordered, observations, required, levels,
                   decision, gates>>

\* All nodes that are ready at once, in their configured order.
ResolveGeneration ==
    /\ stage = "resolve"
    /\ \A n \in Nodes : dependsOn[n] \subseteq Nodes
    /\ Ready # {}
    /\ \E generation \in [1 .. Cardinality(Ready) -> Ready] :
         /\ \A i, j \in DOMAIN generation :
              i < j => Before(generation[i], generation[j])
         /\ ordered' = ordered \o generation
    /\ UNCHANGED <<dependsOn, order, stage, observations, required, levels,
                   decision, gates>>

RejectCycle ==
    /\ stage = "resolve"
    /\ \A n \in Nodes : dependsOn[n] \subseteq Nodes
    /\ Remaining # {} /\ Ready = {}
    /\ stage' = "cyclic"
    /\ UNCHANGED <<dependsOn, order, ordered, observations, required, levels,
                   decision, gates>>

FinishOrder ==
    /\ stage = "resolve"
    /\ Remaining = {}
    /\ stage' = "execute"
    /\ UNCHANGED <<dependsOn, order, ordered, observations, required, levels,
                   decision, gates>>

-----------------------------------------------------------------------------
\* A plugin that may answer: with an event known at some time, and with levels when
\* it composes them.  Neither the graph nor the policy looks at a direction.
Own ==
    {Observed("UNAVAILABLE", "UNAVAILABLE"), Observed("FAIL", "NO_EVENT")}
    \cup {Evidence("ANY", None, 1, k, "ANY") : k \in 1 .. Time + 1}
HasLevels(o) == o.status = "PASS" /\ o.known = 1

Due == ordered[Cardinality(DOMAIN observations) + 1]

\* The configuration lists the dependencies of a node in some order.
Dependencies(n) ==
    LET listed == SetToSeq(dependsOn[n])
    IN  [i \in DOMAIN listed |-> observations[listed[i]]]

IsFuture(o) == o.known # None /\ o.known > Time

\* A plugin answers for itself only when its dependencies let it.
AnswersUnlessFailed(n) ==
    LET problem == DependencyProblem(Dependencies(n), Time)
    IN  IF problem = None \/ problem.status # "FAIL" THEN Own ELSE {problem}
Answers(n) ==
    LET problem == DependencyProblem(Dependencies(n), Time)
    IN  IF problem = None THEN Own ELSE {problem}

Evaluate ==
    /\ stage = "execute"
    /\ DOMAIN observations # Nodes
    /\ \E o \in Answers(Due) :
         /\ ~IsFuture(o)
         /\ observations' = [n \in DOMAIN observations \cup {Due} |->
                               IF n = Due THEN o ELSE observations[n]]
    /\ UNCHANGED <<dependsOn, order, stage, ordered, required, levels,
                   decision, gates>>

\* An answer from the future fails the whole evaluation.
RaiseFuture ==
    /\ stage = "execute"
    /\ DOMAIN observations # Nodes
    /\ \E o \in Answers(Due) : IsFuture(o)
    /\ stage' = "raised"
    /\ UNCHANGED <<dependsOn, order, ordered, observations, required, levels,
                   decision, gates>>

-----------------------------------------------------------------------------
\* A required signal that did not pass stops the decision, and so does one that
\* should give the levels and does not.
StopsWhenFailed(n) ==
    n \in required /\ observations[n].status = "FAIL"
Stops(n) ==
    /\ n \in required
    /\ \/ observations[n].status # "PASS"
       \/ n \in levels /\ ~HasLevels(observations[n])

First(set) == CHOOSE n \in set : \A m \in set \ {n} : Before(n, m)
Latest(set) == CHOOSE n \in set : \A m \in set \ {n} : Before(m, n)

\* first_failed_signal, and of what signal the levels are.
Decided(status, failed, source) ==
    [status |-> status, failed |-> failed, source |-> source]

Decision ==
    LET stopped == {n \in Nodes : Stops(n)}
        sources == required \cap levels
    IN  IF stopped # {}
        THEN Decided(IF observations[First(stopped)].status = "FAIL"
                     THEN "NO_TRADE" ELSE "UNAVAILABLE", First(stopped), None)
        ELSE IF sources # {} THEN Decided("READY", None, Latest(sources))
        ELSE Decided("UNAVAILABLE", Absent, None)

\* Everything behind the failed signal is skipped, everything before it accepted.
GateAfter(d, n) ==
    IF n = d.failed
    THEN IF d.status = "UNAVAILABLE" THEN "UNAVAILABLE" ELSE "REJECT"
    ELSE IF d.failed \in Nodes /\ Before(d.failed, n)
    THEN "SKIPPED_AFTER_REJECTION" ELSE "PASS"

\* The policy's configuration is free: what it requires, and whose levels count.
Decide ==
    /\ stage = "execute"
    /\ DOMAIN observations = Nodes
    /\ required' \in SUBSET Nodes
    /\ levels' \in SUBSET Nodes
    /\ stage' = "decided"
    /\ UNCHANGED <<dependsOn, order, ordered, observations>>
    /\ decision' = Decision'
    /\ gates' = [n \in Nodes |-> GateAfter(decision', n)]

Next ==
    \/ RejectMissing \/ ResolveGeneration \/ RejectCycle \/ FinishOrder
    \/ Evaluate \/ RaiseFuture
    \/ Decide

Spec == Init /\ [][Next]_vars

-----------------------------------------------------------------------------
(* What the order, the answers and the decision must be, told from the      *)
(* graph.                                                                   *)

\* What n depends on, over any number of steps.
Ancestors(n) ==
    LET within[k \in 1 .. Cardinality(Nodes)] ==
          IF k = 1 THEN dependsOn[n]
          ELSE within[k - 1]
                 \cup UNION {dependsOn[m] : m \in within[k - 1] \cap Nodes}
    IN  within[Cardinality(Nodes)]
Depth(n) ==
    LET depth[m \in Nodes] == 1 + Max({0} \cup {depth[d] : d \in dependsOn[m]})
    IN  depth[n]
HasCycle == \E n \in Nodes : n \in Ancestors(n)

\* A graph is refused exactly when a node is missing or a dependency leads back to
\* itself, and otherwise every node is evaluated once: by the length of its longest
\* chain of dependencies, then by its configured order, then by its ID.
\* (_topological_order)
OrderIsDetermined ==
    /\ stage = "missing" => \E n \in Nodes : Unknown \in dependsOn[n]
    /\ stage = "cyclic" => HasCycle
    /\ stage \notin {"resolve", "missing", "cyclic"} =>
         /\ ~HasCycle
         /\ Len(ordered) = Cardinality(Nodes)
         /\ \A i, j \in DOMAIN ordered : i < j =>
              LET m == ordered[i]
                  n == ordered[j]
              IN  \/ Depth(m) < Depth(n)
                  \/ Depth(m) = Depth(n) /\ Before(m, n)

\* Failure is passed on: a node is not its own judge when anything it depends on,
\* however far away, did not pass.  It fails if one of these failed, with the times
\* of one that failed, and is unavailable otherwise.  (dependency_problem, execute)
FailsClosed ==
    \A n \in DOMAIN observations :
        LET o == observations[n]
            failed == {m \in Ancestors(n) : observations[m].status = "FAIL"}
            open == {m \in Ancestors(n) : observations[m].status = "UNAVAILABLE"}
        IN  /\ failed # {} => o.status = "FAIL"
            /\ failed = {} /\ open # {} => o.status = "UNAVAILABLE"
            /\ o.known # None => o.known <= Time

\* The contract of a loaded strategy: dependencies come earlier.
DependenciesEarlier == \A n \in Nodes : \A m \in dependsOn[n] : Before(m, n)

\* A READY decision rests on nothing that did not pass: its required signals and
\* all they depend on passed, and its levels are those of a required signal.  One
\* that is not names the first required signal that stopped it, which in a loaded
\* strategy that requires all signals is where the failure began; its gate is the
\* only one that rejects, and no gate behind it counts.  (decide, _trace)
DecisionIsJustified ==
    decision # None =>
        LET passed(n) == observations[n].status = "PASS"
            rejecting == {n \in Nodes : gates[n] \in {"REJECT", "UNAVAILABLE"}}
        IN  /\ decision.status = "READY" <=>
                 /\ \A n \in required : passed(n) /\ \A m \in Ancestors(n) : passed(m)
                 /\ required \cap levels # {}
                 /\ \A n \in required \cap levels : HasLevels(observations[n])
            /\ decision.source # None => decision.source \in required \cap levels
            /\ decision.status = "NO_TRADE" =>
                 observations[decision.failed].status = "FAIL"
            /\ decision.failed \in Nodes =>
                 /\ rejecting = {decision.failed}
                 /\ \A n \in required :
                      Before(n, decision.failed) => passed(n) /\ gates[n] = "PASS"
                 /\ DependenciesEarlier /\ required = Nodes =>
                      \A m \in Ancestors(decision.failed) : passed(m)
            /\ decision.failed \notin Nodes => rejecting = {}
=============================================================================
