---------------------------- MODULE GraphProofs ----------------------------
(***************************************************************************)
(* Proofs about IndicatorGraph, for any finite graph of nodes and any      *)
(* configured order.                                                       *)
(***************************************************************************)
EXTENDS IndicatorGraph, Basics

-----------------------------------------------------------------------------
(* What a node depends on.                                                  *)

Whole == \A n \in Nodes : dependsOn[n] \subseteq Nodes
Direct(S) == UNION {dependsOn[m] : m \in S \cap Nodes}
Closed(S) == \A m \in S \cap Nodes : dependsOn[m] \subseteq S

LEMMA NodesAre ==
    /\ Nodes \subseteq Nat /\ IsFiniteSet(Nodes)
    /\ Cardinality(Nodes) \in Nat
    /\ \A n \in Nodes : Cardinality(Nodes) >= 1
    /\ None \notin Nodes /\ Absent \notin Nodes
<1>1. Cardinality(Nodes) \in Nat
  BY FS_CardinalityType, NodesAssumption
<1>2. ASSUME NEW n \in Nodes PROVE Cardinality(Nodes) >= 1
  BY <1>1, FS_EmptySet, NodesAssumption
<1>3. QED BY <1>1, <1>2, NodesAssumption

\* The sets of the definition of Ancestors exist.
LEMMA AncestorsAre ==
    ASSUME NEW n \in Nodes
    PROVE  \E within :
             /\ within[1] = dependsOn[n]
             /\ \A k \in 1 .. Cardinality(Nodes) : k # 1 =>
                  within[k] = within[k - 1] \cup Direct(within[k - 1])
             /\ Ancestors(n) = within[Cardinality(Nodes)]
<1> DEFINE N == Cardinality(Nodes)
           Turn(f, k) == IF k = 1 THEN dependsOn[n]
                         ELSE f[k - 1] \cup UNION {dependsOn[m] : m \in f[k - 1] \cap Nodes}
           Loop(f, l) == f = [k \in 1 .. l |-> Turn(f, k)]
           Possible == {l \in Nat : \E f : Loop(f, l)}
           within == CHOOSE f : Loop(f, N)
<1>1. N \in Nat /\ N >= 1
  BY NodesAre
<1>2. 0 \in Possible
  <2> DEFINE f == [k \in 1 .. 0 |-> {}]
  <2> HIDE DEF Turn
  <2>1. Loop(f, 0)
    OBVIOUS
  <2>2. QED BY <2>1
<1>3. ASSUME NEW l \in Nat, l \in Possible PROVE l + 1 \in Possible
  <2>1. PICK f : Loop(f, l)
    BY <1>3
  <2> DEFINE g == [k \in 1 .. l + 1 |-> IF k <= l THEN f[k] ELSE Turn(f, k)]
  <2>2. ASSUME NEW k \in 1 .. l PROVE g[k] = f[k] /\ f[k] = Turn(f, k)
    <3> HIDE DEF Turn
    <3>1. k \in 1 .. l + 1 /\ k <= l
      OBVIOUS
    <3>2. QED BY <2>1, <3>1
  <2>3. ASSUME NEW k \in 1 .. l + 1 PROVE g[k] = Turn(g, k)
    <3>1. k = 1 \/ k - 1 \in 1 .. l
      OBVIOUS
    <3>2. k = 1 \/ g[k - 1] = f[k - 1]
      BY <2>2, <3>1
    <3>3. Turn(g, k) = Turn(f, k)
      <4> HIDE DEF g
      <4>1. QED BY <3>2
    <3>4. g[k] = Turn(f, k)
      <4> HIDE DEF Turn
      <4>1. CASE k <= l
        <5>1. k \in 1 .. l
          BY <4>1
        <5>2. QED BY <2>2, <5>1
      <4>2. CASE ~(k <= l)
        BY <4>2
      <4>3. QED BY <4>1, <4>2
    <3>5. QED BY <3>3, <3>4
  <2>4. g = [k \in 1 .. l + 1 |-> g[k]]
    OBVIOUS
  <2> HIDE DEF g, Turn
  <2>5. Loop(g, l + 1)
    BY <2>3, <2>4
  <2>6. QED BY <2>5
<1>4. N \in Possible
  <2> HIDE DEF Possible, N
  <2>1. Nat \subseteq Possible
    BY <1>2, <1>3, Induction
  <2>2. QED BY <1>1, <2>1
<1>5. Loop(within, N)
  BY <1>4
<1>6. Ancestors(n) = within[N]
  BY DEF Ancestors
<1> HIDE DEF within
<1>7. \A k \in 1 .. N : within[k] = Turn(within, k)
  <2> HIDE DEF Turn, N
  <2>1. QED BY <1>5
<1>8. within[1] = dependsOn[n]
  <2> HIDE DEF N
  <2>1. 1 \in 1 .. N
    BY <1>1
  <2>2. within[1] = Turn(within, 1)
    <3> HIDE DEF Turn
    <3>1. QED BY <1>7, <2>1
  <2>3. QED BY <2>2
<1>9. \A k \in 1 .. N : k # 1 => within[k] = within[k - 1] \cup Direct(within[k - 1])
  BY <1>7 DEF Direct
<1>10. QED BY <1>6, <1>8, <1>9

\* They lie in whatever holds the dependencies of n and of its own elements.
LEMMA AncestorsWithin ==
    ASSUME NEW n \in Nodes, NEW S, dependsOn[n] \subseteq S, Closed(S)
    PROVE  Ancestors(n) \subseteq S
<1>1. PICK within :
        /\ within[1] = dependsOn[n]
        /\ \A k \in 1 .. Cardinality(Nodes) : k # 1 =>
             within[k] = within[k - 1] \cup Direct(within[k - 1])
        /\ Ancestors(n) = within[Cardinality(Nodes)]
  BY AncestorsAre
<1> DEFINE N == Cardinality(Nodes)
           Good == {k \in Nat : k \in 1 .. N => within[k] \subseteq S}
<1>2. N \in Nat /\ N >= 1
  BY NodesAre
<1>3. 0 \in Good
  OBVIOUS
<1>4. ASSUME NEW k \in Nat, k \in Good PROVE k + 1 \in Good
  <2> HIDE DEF N
  <2>1. CASE k = 0
    BY <1>1, <2>1
  <2>2. CASE k # 0 /\ k + 1 \in 1 .. N
    <3>1. k \in 1 .. N /\ k + 1 # 1 /\ (k + 1) - 1 = k
      BY <1>2, <2>2
    <3>2. within[k] \subseteq S
      BY <1>4, <3>1
    <3>3. within[k + 1] = within[k] \cup Direct(within[k])
      BY <1>1, <2>2, <3>1 DEF N
    <3>4. Direct(within[k]) \subseteq S
      BY <3>2 DEF Direct, Closed
    <3>5. QED BY <3>2, <3>3, <3>4
  <2>3. CASE ~(k + 1 \in 1 .. N)
    BY <2>3
  <2>4. QED BY <2>1, <2>2, <2>3
<1>5. Nat \subseteq Good
  <2> HIDE DEF Good
  <2>1. QED BY <1>3, <1>4, Induction
<1>6. N \in Good /\ N \in 1 .. N
  <2> HIDE DEF Good, N
  <2>1. QED BY <1>2, <1>5
<1>7. QED BY <1>1, <1>6

\* In a graph that names only its own nodes, as many steps as there are nodes find
\* everything that can be reached.
LEMMA AncestorsSaturate ==
    ASSUME NEW n \in Nodes, Whole
    PROVE  /\ Ancestors(n) \subseteq Nodes
           /\ dependsOn[n] \subseteq Ancestors(n)
           /\ Closed(Ancestors(n))
<1>1. PICK within :
        /\ within[1] = dependsOn[n]
        /\ \A k \in 1 .. Cardinality(Nodes) : k # 1 =>
             within[k] = within[k - 1] \cup Direct(within[k - 1])
        /\ Ancestors(n) = within[Cardinality(Nodes)]
  BY AncestorsAre
<1> DEFINE N == Cardinality(Nodes)
           Right(k) == /\ within[k] \subseteq Nodes
                       /\ dependsOn[n] \subseteq within[k]
                       /\ Closed(within[k]) \/ Cardinality(within[k]) >= k
           Good == {k \in Nat : k \in 1 .. N => Right(k)}
<1>2. N \in Nat /\ N >= 1
  BY NodesAre
<1>3. ASSUME NEW k \in Nat, within[k] \subseteq Nodes
      PROVE  IsFiniteSet(within[k]) /\ Cardinality(within[k]) \in Nat
  BY <1>3, NodesAre, FS_Subset, FS_CardinalityType
<1>4. 0 \in Good
  OBVIOUS
<1>5. Right(1)
  <2>1. within[1] \subseteq Nodes /\ dependsOn[n] \subseteq within[1]
    BY <1>1 DEF Whole
  <2>2. CASE within[1] = {}
    BY <2>1, <2>2 DEF Closed
  <2>3. CASE within[1] # {}
    <3>1. Cardinality(within[1]) # 0
      BY <1>3, <2>1, <2>3, FS_EmptySet
    <3>2. QED BY <1>3, <2>1, <3>1
  <2>4. QED BY <2>2, <2>3
<1>6. ASSUME NEW k \in Nat, k \in Good, k # 0, k + 1 \in 1 .. N PROVE Right(k + 1)
  <2> HIDE DEF N
  <2>1. k \in 1 .. N /\ k + 1 # 1 /\ (k + 1) - 1 = k
    BY <1>2, <1>6
  <2>2. Right(k)
    BY <1>6, <2>1
  <2>3. within[k + 1] = within[k] \cup Direct(within[k])
    BY <1>1, <1>6, <2>1 DEF N
  <2>4. Direct(within[k]) \subseteq Nodes
    BY <2>2 DEF Direct, Whole
  <2>5. within[k + 1] \subseteq Nodes /\ dependsOn[n] \subseteq within[k + 1]
    BY <2>2, <2>3, <2>4
  <2>6. CASE Closed(within[k])
    <3>1. Direct(within[k]) \subseteq within[k]
      BY <2>6 DEF Closed, Direct
    <3>2. within[k + 1] = within[k]
      BY <2>3, <3>1
    <3>3. QED BY <2>5, <2>6, <3>2
  <2>7. CASE ~Closed(within[k])
    <3>1. within[k] \subseteq within[k + 1] /\ within[k] # within[k + 1]
      BY <2>3, <2>7 DEF Closed, Direct
    <3>2. IsFiniteSet(within[k + 1]) /\ Cardinality(within[k + 1]) \in Nat
      BY <1>3, <2>5
    <3>3. /\ Cardinality(within[k]) \in Nat
          /\ Cardinality(within[k]) <= Cardinality(within[k + 1])
          /\ Cardinality(within[k]) # Cardinality(within[k + 1])
      BY <1>3, <2>2, <3>1, <3>2, FS_Subset
    <3>4. Cardinality(within[k + 1]) >= k + 1
      BY <2>2, <2>7, <3>2, <3>3
    <3>5. QED BY <2>5, <3>4
  <2>8. QED BY <2>6, <2>7
<1>7. ASSUME NEW k \in Nat, k \in Good PROVE k + 1 \in Good
  <2> HIDE DEF N, Right
  <2>1. CASE k = 0
    BY <1>5, <2>1
  <2>2. CASE k # 0 /\ k + 1 \in 1 .. N
    <3> HIDE DEF Good
    <3>1. Right(k + 1)
      BY <1>6, <1>7, <2>2
    <3>2. QED BY <3>1 DEF Good
  <2>3. CASE ~(k + 1 \in 1 .. N)
    BY <2>3
  <2>4. QED BY <2>1, <2>2, <2>3
<1>8. Nat \subseteq Good
  <2> HIDE DEF Good
  <2>1. QED BY <1>4, <1>7, Induction
<1>9. Right(N)
  <2>1. N \in Good /\ N \in 1 .. N
    <3> HIDE DEF Good, N
    <3>1. QED BY <1>2, <1>8
  <2>2. QED BY <2>1
<1>10. Closed(within[N])
  <2>1. CASE Cardinality(within[N]) >= N
    <3>1. Cardinality(within[N]) <= N /\ Cardinality(within[N]) \in Nat
      BY <1>2, <1>3, <1>9, NodesAre, FS_Subset
    <3>2. Cardinality(within[N]) = N
      BY <1>2, <2>1, <3>1
    <3>3. within[N] = Nodes
      BY <1>9, <3>2, NodesAre, FS_Subset
    <3>4. QED BY <3>3 DEF Closed, Whole
  <2>2. QED BY <1>9, <2>1
<1>11. QED BY <1>1, <1>9, <1>10

\* Where every node that is left waits for another, one waits for itself.
LEMMA StuckIsCyclic ==
    ASSUME Whole, NEW S \in SUBSET Nodes, S # {},
           \A n \in S : dependsOn[n] \cap S # {}
    PROVE  HasCycle
<1> DEFINE Size(n) == Cardinality(Ancestors(n))
           Sizes == {Size(n) : n \in S}
<1>1. ASSUME NEW n \in S PROVE IsFiniteSet(Ancestors(n)) /\ Size(n) \in Nat
  BY AncestorsSaturate, NodesAre, FS_Subset, FS_CardinalityType
<1>2. Sizes \in SUBSET Nat /\ Sizes # {}
  <2> HIDE DEF Size
  <2>1. QED BY <1>1
<1>3. \E x \in Sizes : \A t \in Sizes : x <= t
  <2> HIDE DEF Sizes
  <2>1. QED BY <1>2, LeastExists
<1>4. PICK n \in S : \A m \in S : Size(n) <= Size(m)
  <2> HIDE DEF Size
  <2>1. QED BY <1>3
<1>5. PICK m \in S : m \in dependsOn[n]
  OBVIOUS
<1>6. m \in Ancestors(n) /\ Closed(Ancestors(n))
  BY <1>5, AncestorsSaturate
<1>7. Ancestors(m) \subseteq Ancestors(n)
  <2>1. dependsOn[m] \subseteq Ancestors(n)
    BY <1>6 DEF Closed
  <2>2. QED BY <1>6, <2>1, AncestorsWithin
<1>8. Size(m) <= Size(n) /\ (Size(n) = Size(m) => Ancestors(n) = Ancestors(m))
  BY <1>1, <1>7, FS_Subset
<1>9. Ancestors(n) = Ancestors(m)
  <2>1. Size(n) \in Nat /\ Size(m) \in Nat /\ Size(n) <= Size(m)
    BY <1>1, <1>4
  <2> HIDE DEF Size
  <2>2. QED BY <1>8, <2>1
<1>10. m \in Ancestors(m)
  BY <1>6, <1>9
<1>11. QED BY <1>10 DEF HasCycle

-----------------------------------------------------------------------------
(* The configured order.                                                    *)

LEMMA BeforeOrders ==
    ASSUME order \in [Nodes -> Nat]
    PROVE  /\ \A n \in Nodes : ~Before(n, n)
           /\ \A l, m, n \in Nodes : Before(l, m) /\ Before(m, n) => Before(l, n)
           /\ \A m, n \in Nodes : m # n => Before(m, n) \/ Before(n, m)
<1>1. \A n \in Nodes : n \in Nat /\ order[n] \in Nat
  BY NodesAre
<1>2. QED BY <1>1 DEF Before

\* A set of nodes has a last element in a total order.
LEMMA LastExists ==
    ASSUME NEW R, NEW S \in SUBSET Nodes, S # {},
           \A x \in S : <<x, x>> \notin R,
           \A x, y, z \in S : <<x, y>> \in R /\ <<y, z>> \in R => <<x, z>> \in R,
           \A x, y \in S : x # y => <<x, y>> \in R \/ <<y, x>> \in R
    PROVE  \E x \in S : \A y \in S \ {x} : <<y, x>> \in R
<1> DEFINE Above(x) == {y \in S : <<x, y>> \in R}
           Size(x) == Cardinality(Above(x))
           Sizes == {Size(x) : x \in S}
<1>1. ASSUME NEW x \in S PROVE IsFiniteSet(Above(x)) /\ Size(x) \in Nat
  BY NodesAre, FS_Subset, FS_CardinalityType
<1>2. Sizes \in SUBSET Nat /\ Sizes # {}
  <2> HIDE DEF Size, Above
  <2>1. QED BY <1>1
<1>3. \E x \in Sizes : \A t \in Sizes : x <= t
  <2> HIDE DEF Sizes
  <2>1. QED BY <1>2, LeastExists
<1>4. PICK x \in S : \A y \in S : Size(x) <= Size(y)
  <2> HIDE DEF Size
  <2>1. QED BY <1>3
<1>5. ASSUME NEW y \in S \ {x}, <<y, x>> \notin R PROVE FALSE
  <2>1. <<x, y>> \in R
    BY <1>5
  <2>2. Above(y) \subseteq Above(x) /\ Above(y) # Above(x)
    BY <2>1
  <2> HIDE DEF Above
  <2>3. Size(y) <= Size(x) /\ Size(y) # Size(x)
    BY <1>1, <2>2, FS_Subset
  <2>4. Size(x) \in Nat /\ Size(y) \in Nat /\ Size(x) <= Size(y)
    BY <1>1, <1>4
  <2> HIDE DEF Size
  <2>5. QED BY <2>3, <2>4
<1>6. QED BY <1>5

LEMMA FirstIs ==
    ASSUME order \in [Nodes -> Nat], NEW S \in SUBSET Nodes, S # {}
    PROVE  First(S) \in S /\ \A n \in S \ {First(S)} : Before(First(S), n)
<1> DEFINE R == {p \in Nodes \X Nodes : Before(p[2], p[1])}
<1>1. \A x, y \in Nodes : <<x, y>> \in R <=> Before(y, x)
  OBVIOUS
<1> HIDE DEF R
<1>2. /\ \A x \in S : <<x, x>> \notin R
      /\ \A x, y, z \in S : <<x, y>> \in R /\ <<y, z>> \in R => <<x, z>> \in R
      /\ \A x, y \in S : x # y => <<x, y>> \in R \/ <<y, x>> \in R
  BY <1>1, BeforeOrders
<1>3. \E x \in S : \A y \in S \ {x} : <<y, x>> \in R
  BY <1>2, LastExists
<1>4. \E x \in S : \A y \in S \ {x} : Before(x, y)
  BY <1>1, <1>3
<1>5. QED BY <1>4 DEF First

LEMMA LatestIs ==
    ASSUME order \in [Nodes -> Nat], NEW S \in SUBSET Nodes, S # {}
    PROVE  Latest(S) \in S
<1> DEFINE R == {p \in Nodes \X Nodes : Before(p[1], p[2])}
<1>1. \A x, y \in Nodes : <<x, y>> \in R <=> Before(x, y)
  OBVIOUS
<1> HIDE DEF R
<1>2. /\ \A x \in S : <<x, x>> \notin R
      /\ \A x, y, z \in S : <<x, y>> \in R /\ <<y, z>> \in R => <<x, z>> \in R
      /\ \A x, y \in S : x # y => <<x, y>> \in R \/ <<y, x>> \in R
  BY <1>1, BeforeOrders
<1>3. \E x \in S : \A y \in S \ {x} : <<y, x>> \in R
  BY <1>2, LastExists
<1>4. \E x \in S : \A y \in S \ {x} : Before(y, x)
  BY <1>1, <1>3
<1>5. QED BY <1>4 DEF Latest

-----------------------------------------------------------------------------
(* What holds of every reachable state.                                     *)

\* The nodes in front of the i-th.
Earlier(i) == {ordered[j] : j \in 1 .. i - 1}

TypeOK ==
    /\ dependsOn \in [Nodes -> SUBSET (Nodes \cup {Unknown})]
    /\ order \in [Nodes -> Nat]
    /\ stage \in {"resolve", "missing", "cyclic", "execute", "raised", "decided"}
    /\ ordered \in Seq(Nodes)
    /\ required \in SUBSET Nodes
    /\ levels \in SUBSET Nodes

\* A node follows what it depends on.
OrderInv ==
    /\ \A i, j \in 1 .. Len(ordered) : i # j => ordered[i] # ordered[j]
    /\ \A i \in 1 .. Len(ordered) : dependsOn[ordered[i]] \subseteq Earlier(i)
    /\ ordered # <<>> \/ stage \notin {"resolve", "missing"} => Whole
    /\ stage = "missing" => ~Whole
    /\ stage = "cyclic" => Remaining # {} /\ Ready = {}
    /\ stage \in {"execute", "raised", "decided"} => Remaining = {}

\* top generations have been put in order; what is left waits for the last of them.
Ranked(rank, top) ==
    /\ \A n \in Range(ordered) :
         rank[n] = 1 + Max({0} \cup {rank[d] : d \in dependsOn[n]})
    /\ \A n \in Range(ordered) : rank[n] <= top
    /\ \A i, j \in 1 .. Len(ordered) : i < j =>
         \/ rank[ordered[i]] < rank[ordered[j]]
         \/ rank[ordered[i]] = rank[ordered[j]] /\ Before(ordered[i], ordered[j])
    /\ top = 0 => ordered = <<>>
    /\ top # 0 => \A n \in Remaining :
         ~(dependsOn[n] \subseteq {m \in Range(ordered) : rank[m] < top})
RankInv == \E rank \in [Nodes -> Nat], top \in Nat : Ranked(rank, top)

\* A node fails when one of its dependencies did, is unavailable when none failed and
\* one did not pass, and knows nothing of the future.
Judged(n) ==
    LET did(status) == \E d \in dependsOn[n] : observations[d].status = status
    IN  /\ observations[n] \in Answered /\ ~IsFuture(observations[n])
        /\ did("FAIL") => observations[n].status = "FAIL"
        /\ ~did("FAIL") /\ did("UNAVAILABLE") => observations[n].status = "UNAVAILABLE"

\* The answers are those of the first nodes in the order.
Answering == Cardinality(DOMAIN observations)
AnswerInv ==
    /\ Answering \in 0 .. Len(ordered)
    /\ DOMAIN observations = Earlier(Answering + 1)
    /\ stage \in {"resolve", "missing", "cyclic"} => DOMAIN observations = {}
    /\ \A n \in DOMAIN observations : Judged(n)

DecisionInv ==
    decision # None =>
        /\ stage = "decided"
        /\ DOMAIN observations = Nodes
        /\ decision = Decision
        /\ gates = [n \in Nodes |-> GateAfter(decision, n)]

IInv == TypeOK /\ OrderInv /\ RankInv /\ AnswerInv /\ DecisionInv

LEMMA SequenceIs ==
    ASSUME TypeOK
    PROVE  /\ Len(ordered) \in Nat
           /\ ordered = [i \in 1 .. Len(ordered) |-> ordered[i]]
           /\ \A i \in 1 .. Len(ordered) : ordered[i] \in Nodes
           /\ Range(ordered) = {ordered[i] : i \in 1 .. Len(ordered)}
           /\ Range(ordered) \subseteq Nodes
<1>1. ordered \in Seq(Nodes)
  BY DEF TypeOK
<1>2. /\ Len(ordered) \in Nat
      /\ DOMAIN ordered = 1 .. Len(ordered)
      /\ \A i \in 1 .. Len(ordered) : ordered[i] \in Nodes
  BY <1>1
<1>3. ordered = [i \in 1 .. Len(ordered) |-> ordered[i]]
  BY <1>1, <1>2
<1>4. Range(ordered) = {ordered[i] : i \in 1 .. Len(ordered)}
  BY <1>2 DEF Range
<1>5. QED BY <1>2, <1>3, <1>4

\* The first answers are counted by their number.
LEMMA EarlierIs ==
    ASSUME TypeOK, OrderInv, NEW i \in 1 .. Len(ordered) + 1
    PROVE  /\ Earlier(i) \subseteq Range(ordered)
           /\ IsFiniteSet(Earlier(i)) /\ Cardinality(Earlier(i)) = i - 1
           /\ i <= Len(ordered) =>
                ordered[i] \notin Earlier(i) /\ Earlier(i + 1) = Earlier(i) \cup {ordered[i]}
<1>1. Len(ordered) \in Nat /\ i \in Nat
  BY SequenceIs
<1>2. Earlier(i) \subseteq Range(ordered)
  <2>1. \A j \in 1 .. i - 1 : j \in 1 .. Len(ordered)
    BY <1>1
  <2>2. QED BY <2>1, SequenceIs DEF Earlier
<1>3. IsFiniteSet(Earlier(i)) /\ Cardinality(Earlier(i)) = i - 1
  <2> DEFINE f == [j \in 1 .. i - 1 |-> ordered[j]]
  <2>1. \A j, k \in 1 .. i - 1 : f[j] = f[k] => j = k
    BY <1>1 DEF OrderInv
  <2>2. f \in [1 .. i - 1 -> Earlier(i)] /\ \A t \in Earlier(i) : \E j \in 1 .. i - 1 : f[j] = t
    BY DEF Earlier
  <2> HIDE DEF f
  <2>3. f \in Bijection(1 .. i - 1, Earlier(i))
    BY <2>1, <2>2 DEF Bijection, Injection, Surjection, IsInjective
  <2>4. ExistsBijection(1 .. i - 1, Earlier(i))
    BY <2>3 DEF ExistsBijection
  <2>5. i - 1 \in Nat
    BY <1>1
  <2>6. IsFiniteSet(Earlier(i))
    BY <2>4, <2>5, FS_NatBijection
  <2>7. Cardinality(Earlier(i)) = i - 1
    BY <2>4, <2>5, FS_CountingElements
  <2>8. QED BY <2>6, <2>7
<1>4. ASSUME i <= Len(ordered)
      PROVE  ordered[i] \notin Earlier(i) /\ Earlier(i + 1) = Earlier(i) \cup {ordered[i]}
  <2>1. \A j \in 1 .. i - 1 : j \in 1 .. Len(ordered) /\ j # i
    BY <1>1, <1>4
  <2>2. ordered[i] \notin Earlier(i)
    BY <1>1, <1>4, <2>1 DEF Earlier, OrderInv
  <2>3. \A j : j \in 1 .. (i + 1) - 1 <=> j \in 1 .. i - 1 \/ j = i
    BY <1>1
  <2>4. Earlier(i + 1) = Earlier(i) \cup {ordered[i]}
    BY <2>3 DEF Earlier
  <2>5. QED BY <2>2, <2>4
<1>5. QED BY <1>2, <1>3, <1>4

-----------------------------------------------------------------------------
(* Every step keeps it.                                                     *)

LEMMA InitInv == Init => IInv
<1> SUFFICES ASSUME Init PROVE IInv
  OBVIOUS
<1> USE DEF Init
<1>1. TypeOK
  <2>1. Orders \subseteq Nat /\ <<>> \in Seq(Nodes)
    BY NodesAssumption
  <2>2. QED BY <2>1 DEF TypeOK
<1>2. Len(ordered) = 0 /\ Range(ordered) = {}
  BY DEF Range
<1>3. OrderInv
  BY <1>2 DEF OrderInv
<1>4. RankInv
  <2> DEFINE rank == [n \in Nodes |-> 0]
  <2>1. rank \in [Nodes -> Nat]
    OBVIOUS
  <2>2. Ranked(rank, 0)
    BY <1>2 DEF Ranked
  <2> HIDE DEF rank
  <2>3. QED BY <2>1, <2>2 DEF RankInv
<1>5. AnswerInv
  <2>1. DOMAIN observations = {}
    OBVIOUS
  <2>2. Answering = 0
    BY <2>1, FS_EmptySet DEF Answering
  <2>3. Earlier(1) = {}
    BY DEF Earlier
  <2>4. QED BY <1>2, <2>1, <2>2, <2>3 DEF AnswerInv
<1>6. DecisionInv
  BY DEF DecisionInv
<1>7. QED BY <1>1, <1>3, <1>4, <1>5, <1>6 DEF IInv

\* A generation holds every node that is ready, once.
LEMMA GenerationIs ==
    ASSUME TypeOK, NEW generation \in [1 .. Cardinality(Ready) -> Ready],
           \A i, j \in DOMAIN generation :
             i < j => Before(generation[i], generation[j])
    PROVE  /\ Cardinality(Ready) \in Nat
           /\ generation \in Seq(Nodes) /\ Len(generation) = Cardinality(Ready)
           /\ \A i, j \in 1 .. Cardinality(Ready) :
                i # j => generation[i] # generation[j]
           /\ \A n \in Ready : \E i \in 1 .. Cardinality(Ready) : generation[i] = n
<1> DEFINE c == Cardinality(Ready)
<1>1. Ready \subseteq Nodes
  BY DEF Ready, Remaining
<1>2. IsFiniteSet(Ready) /\ c \in Nat
  BY <1>1, NodesAre, FS_Subset, FS_CardinalityType
<1>3. DOMAIN generation = 1 .. c /\ \A i \in 1 .. c : generation[i] \in Nodes
  BY <1>1
<1> HIDE DEF c
<1>4. ASSUME NEW i \in 1 .. c, NEW j \in 1 .. c, i # j
      PROVE  generation[i] # generation[j]
  <2>1. i < j \/ j < i
    BY <1>2, <1>4
  <2>2. Before(generation[i], generation[j]) \/ Before(generation[j], generation[i])
    BY <1>3, <2>1
  <2>3. ~Before(generation[i], generation[i])
    BY <1>3, BeforeOrders DEF TypeOK
  <2>4. QED BY <2>2, <2>3
<1>5. generation \in Injection(1 .. c, Ready)
  BY <1>4 DEF Injection, IsInjective, c
<1>6. IsFiniteSet(1 .. c) /\ Cardinality(1 .. c) = c
  BY <1>2, FS_Interval
<1>7. generation \in Surjection(1 .. c, Ready)
  BY <1>2, <1>5, <1>6, FS_Injection DEF c
<1>8. \A n \in Ready : \E i \in 1 .. c : generation[i] = n
  BY <1>7 DEF Surjection
<1>9. generation \in Seq(Nodes) /\ Len(generation) = c
  <2>1. generation \in [1 .. c -> Nodes]
    BY <1>1 DEF c
  <2>2. QED BY <1>2, <2>1
<1>10. QED BY <1>2, <1>4, <1>8, <1>9 DEF c

\* The order grows by a generation.
LEMMA GenerationIsAppended ==
    ASSUME TypeOK, ResolveGeneration
    PROVE  \E generation \in [1 .. Cardinality(Ready) -> Ready] :
             /\ \A i, j \in 1 .. Cardinality(Ready) :
                  i < j => Before(generation[i], generation[j])
             /\ \A i, j \in 1 .. Cardinality(Ready) :
                  i # j => generation[i] # generation[j]
             /\ \A n \in Ready : \E i \in 1 .. Cardinality(Ready) : generation[i] = n
             /\ ordered' \in Seq(Nodes)
             /\ Cardinality(Ready) \in Nat \ {0}
             /\ Len(ordered') = Len(ordered) + Cardinality(Ready)
             /\ \A i \in 1 .. Len(ordered) : ordered'[i] = ordered[i]
             /\ \A i \in 1 .. Cardinality(Ready) : ordered'[Len(ordered) + i] = generation[i]
             /\ Range(ordered') = Range(ordered) \cup Ready
<1> DEFINE c == Cardinality(Ready)
           l == Len(ordered)
<1>1. PICK generation \in [1 .. Cardinality(Ready) -> Ready] :
        /\ \A i, j \in DOMAIN generation : i < j => Before(generation[i], generation[j])
        /\ ordered' = ordered \o generation
  BY DEF ResolveGeneration
<1>2. /\ c \in Nat
      /\ generation \in Seq(Nodes) /\ Len(generation) = c
      /\ \A i, j \in 1 .. c : i # j => generation[i] # generation[j]
      /\ \A n \in Ready : \E i \in 1 .. c : generation[i] = n
  BY <1>1, GenerationIs
<1>3. c # 0
  <2>1. Ready # {}
    BY DEF ResolveGeneration
  <2> HIDE DEF c
  <2>2. QED BY <1>2, <2>1
<1>4. \A i \in 1 .. c : generation[i] \in Ready
  OBVIOUS
<1>5. \A i, j \in 1 .. c : i < j => Before(generation[i], generation[j])
  BY <1>1
<1>6. ordered \in Seq(Nodes) /\ l \in Nat
  BY DEF TypeOK
<1> HIDE DEF c
<1>7. /\ ordered' \in Seq(Nodes)
      /\ Len(ordered') = l + c
      /\ \A i \in 1 .. l : ordered'[i] = ordered[i]
      /\ \A i \in 1 .. c : ordered'[l + i] = generation[i]
  <2>1. ordered' = ordered \o generation
    BY <1>1
  <2>2. ordered' \in Seq(Nodes) /\ Len(ordered') = l + c
    <3>1. generation \in Seq(Nodes) /\ Len(generation) = c
      BY <1>2
    <3> HIDE DEF l
    <3>2. ordered \o generation \in Seq(Nodes)
      BY <1>6, <3>1
    <3>3. Len(ordered \o generation) = Len(ordered) + Len(generation)
      BY <1>6, <3>1
    <3>4. QED BY <2>1, <3>1, <3>2, <3>3 DEF l
  <2>3. \A i \in 1 .. l : ordered'[i] = ordered[i]
    BY <1>2, <1>6, <2>1
  <2>4. ASSUME NEW i \in 1 .. c PROVE ordered'[l + i] = generation[i]
    <3>1. l + i \in 1 .. l + c /\ ~(l + i <= l) /\ (l + i) - l = i
      BY <1>2, <1>6
    <3>2. QED BY <1>2, <1>6, <2>1, <3>1
  <2>5. QED BY <2>2, <2>3, <2>4
<1>8. DOMAIN ordered = 1 .. l /\ DOMAIN ordered' = 1 .. l + c
  BY <1>6, <1>7
<1> HIDE DEF l
<1>9. \A i \in 1 .. l + c : i \in 1 .. l \/ \E j \in 1 .. c : i = l + j
  <2>1. ASSUME NEW i \in 1 .. l + c, i \notin 1 .. l PROVE i - l \in 1 .. c /\ i = l + (i - l)
    BY <1>2, <1>6, <2>1 DEF l
  <2>2. QED BY <2>1
<1>10. (\A i \in 1 .. l : i \in 1 .. l + c) /\ (\A j \in 1 .. c : l + j \in 1 .. l + c)
  BY <1>2, <1>6 DEF l
<1>11. Range(ordered') = {ordered'[i] : i \in 1 .. l + c}
  BY <1>8 DEF Range
<1>12. Range(ordered) = {ordered[i] : i \in 1 .. l}
  BY <1>8 DEF Range
<1>13. Range(ordered') = Range(ordered) \cup Ready
  <2>1. ASSUME NEW n \in Range(ordered') PROVE n \in Range(ordered) \cup Ready
    <3>1. PICK i \in 1 .. l + c : n = ordered'[i]
      BY <1>11, <2>1
    <3>2. CASE i \in 1 .. l
      BY <1>7, <1>12, <3>1, <3>2
    <3>3. CASE \E j \in 1 .. c : i = l + j
      BY <1>4, <1>7, <3>1, <3>3
    <3>4. QED BY <1>9, <3>2, <3>3
  <2>2. Range(ordered) \subseteq Range(ordered')
    BY <1>7, <1>10, <1>11, <1>12
  <2>3. Ready \subseteq Range(ordered')
    BY <1>2, <1>7, <1>10, <1>11
  <2>4. QED BY <2>1, <2>2, <2>3
<1>14. QED BY <1>2, <1>3, <1>5, <1>7, <1>13 DEF c, l

\* The nodes that are ready depend on nodes in front of them.
LEMMA GenerationKeepsOrder ==
    ASSUME TypeOK, OrderInv, ResolveGeneration
    PROVE  OrderInv'
<1> DEFINE c == Cardinality(Ready)
           l == Len(ordered)
<1>1. PICK generation \in [1 .. c -> Ready] :
        /\ \A i, j \in 1 .. c : i # j => generation[i] # generation[j]
        /\ c \in Nat \ {0}
        /\ Len(ordered') = l + c
        /\ \A i \in 1 .. l : ordered'[i] = ordered[i]
        /\ \A i \in 1 .. c : ordered'[l + i] = generation[i]
  BY GenerationIsAppended
<1>2. l \in Nat /\ Range(ordered) = {ordered[i] : i \in 1 .. l}
  BY SequenceIs
<1>3. stage' = "resolve" /\ Whole' /\ dependsOn' = dependsOn
  BY DEF ResolveGeneration, Whole
<1>4. ASSUME NEW i \in 1 .. l + c PROVE i \in 1 .. l \/ \E j \in 1 .. c : i = l + j
  <2>1. i \notin 1 .. l => i - l \in 1 .. c /\ i = l + (i - l)
    BY <1>1, <1>2
  <2>2. QED BY <2>1
<1>5. \A i \in 1 .. c : generation[i] \in Ready
  OBVIOUS
<1>6. ASSUME NEW i \in 1 .. l, NEW j \in 1 .. c PROVE ordered[i] # generation[j]
  BY <1>2, <1>5 DEF Ready, Remaining
<1> HIDE DEF c, l
<1>7. ASSUME NEW i \in 1 .. l + c, NEW j \in 1 .. l + c, i # j
      PROVE  ordered'[i] # ordered'[j]
  <2>1. CASE i \in 1 .. l /\ j \in 1 .. l
    BY <1>1, <1>7, <2>1 DEF OrderInv, l
  <2>2. CASE i \in 1 .. l /\ \E k \in 1 .. c : j = l + k
    BY <1>1, <1>6, <2>2
  <2>3. CASE j \in 1 .. l /\ \E k \in 1 .. c : i = l + k
    BY <1>1, <1>6, <2>3
  <2>4. CASE (\E k \in 1 .. c : i = l + k) /\ (\E k \in 1 .. c : j = l + k)
    BY <1>1, <1>7, <2>4
  <2>5. QED BY <1>4, <2>1, <2>2, <2>3, <2>4
<1>8. ASSUME NEW i \in 1 .. l + c
      PROVE  dependsOn[ordered'[i]] \subseteq {ordered'[j] : j \in 1 .. i - 1}
  <2>1. CASE i \in 1 .. l
    <3>1. dependsOn[ordered[i]] \subseteq {ordered[j] : j \in 1 .. i - 1}
      BY <2>1 DEF OrderInv, Earlier, l
    <3>2. \A j \in 1 .. i - 1 : j \in 1 .. l
      BY <1>2, <2>1
    <3>3. QED BY <1>1, <2>1, <3>1, <3>2
  <2>2. CASE \E k \in 1 .. c : i = l + k
    <3>1. PICK k \in 1 .. c : i = l + k
      BY <2>2
    <3>2. dependsOn[ordered'[i]] \subseteq Range(ordered)
      BY <1>1, <1>5, <3>1 DEF Ready
    <3>3. \A j \in 1 .. l : j \in 1 .. i - 1
      BY <1>1, <1>2, <3>1
    <3>4. QED BY <1>1, <1>2, <3>2, <3>3
  <2>3. QED BY <1>4, <2>1, <2>2
<1>9. QED BY <1>1, <1>3, <1>7, <1>8 DEF OrderInv, Earlier

\* The generation's rank is one more than what it waited for.
LEMMA GenerationKeepsRank ==
    ASSUME TypeOK, OrderInv, RankInv, ResolveGeneration
    PROVE  RankInv'
<1> DEFINE c == Cardinality(Ready)
           l == Len(ordered)
<1>1. PICK generation \in [1 .. c -> Ready] :
        /\ \A i, j \in 1 .. c : i < j => Before(generation[i], generation[j])
        /\ c \in Nat \ {0}
        /\ Len(ordered') = l + c
        /\ \A i \in 1 .. l : ordered'[i] = ordered[i]
        /\ \A i \in 1 .. c : ordered'[l + i] = generation[i]
        /\ Range(ordered') = Range(ordered) \cup Ready
  BY GenerationIsAppended
<1>2. PICK rank \in [Nodes -> Nat], top \in Nat : Ranked(rank, top)
  BY DEF RankInv
<1>3. /\ l \in Nat /\ Range(ordered) = {ordered[i] : i \in 1 .. l}
      /\ Range(ordered) \subseteq Nodes
  BY SequenceIs
<1>4. /\ dependsOn' = dependsOn /\ order' = order
      /\ \A n \in Nodes : dependsOn[n] \subseteq Nodes
  BY DEF ResolveGeneration
<1>5. Ready \subseteq Nodes /\ Ready \cap Range(ordered) = {}
  BY DEF Ready, Remaining
<1>6. PICK next \in [Nodes -> Nat] :
        /\ \A n \in Ready : next[n] = top + 1
        /\ \A n \in Range(ordered) : next[n] = rank[n] /\ rank[n] <= top /\ rank[n] \in Nat
  <2> DEFINE f == [n \in Nodes |-> IF n \in Ready THEN top + 1 ELSE rank[n]]
  <2>1. f \in [Nodes -> Nat]
    BY <1>2
  <2>2. \A n \in Range(ordered) : f[n] = rank[n] /\ rank[n] <= top /\ rank[n] \in Nat
    BY <1>2, <1>3, <1>5 DEF Ranked
  <2>3. \A n \in Ready : f[n] = top + 1
    BY <1>5
  <2> HIDE DEF f
  <2>4. QED BY <2>1, <2>2, <2>3
<1> HIDE DEF c, l
<1>7. ASSUME NEW n \in Range(ordered) PROVE dependsOn[n] \subseteq Range(ordered)
  <2>1. PICK i \in 1 .. l : n = ordered[i]
    BY <1>3
  <2>2. dependsOn[n] \subseteq Earlier(i)
    BY <2>1 DEF OrderInv, l
  <2>3. \A j \in 1 .. i - 1 : j \in 1 .. l
    BY <1>3
  <2>4. QED BY <1>3, <2>2, <2>3 DEF Earlier
<1>8. ASSUME NEW n \in Range(ordered')
      PROVE  next[n] = 1 + Max({0} \cup {next[d] : d \in dependsOn[n]})
  <2>1. dependsOn[n] \subseteq Range(ordered)
    BY <1>1, <1>7 DEF Ready
  <2>2. {next[d] : d \in dependsOn[n]} = {rank[d] : d \in dependsOn[n]}
    BY <1>6, <2>1
  <2>3. CASE n \in Range(ordered)
    BY <1>2, <1>6, <2>2, <2>3 DEF Ranked
  <2>4. CASE n \in Ready
    <3> DEFINE S == {0} \cup {rank[d] : d \in dependsOn[n]}
    <3>1. S \in SUBSET (0 .. top) /\ S # {}
      BY <1>2, <1>6, <2>1
    <3>2. top \in S
      <4>1. CASE top # 0
        <5>1. n \in Remaining
          BY <2>4 DEF Ready
        <5>2. ~(dependsOn[n] \subseteq {m \in Range(ordered) : rank[m] < top})
          BY <1>2, <4>1, <5>1 DEF Ranked
        <5>3. PICK d \in dependsOn[n] : ~(rank[d] < top)
          BY <2>1, <5>2
        <5>4. rank[d] = top
          BY <1>2, <1>6, <2>1, <5>3
        <5>5. QED BY <5>4
      <4>2. CASE top = 0
        BY <4>2
      <4>3. QED BY <4>1, <4>2
    <3>4. Max(S) = top
      <4> HIDE DEF S
      <4>1. Max(S) \in S /\ \A t \in S : Max(S) >= t
        BY <3>1, MaxIsGreatest
      <4>2. Max(S) \in 0 .. top /\ Max(S) >= top
        BY <3>1, <3>2, <4>1
      <4>3. QED BY <4>2
    <3> HIDE DEF S
    <3>5. next[n] = 1 + Max(S)
      BY <1>6, <2>4, <3>4
    <3>6. QED BY <2>2, <3>5 DEF S
  <2>5. QED BY <1>1, <2>3, <2>4
<1>9. \A n \in Range(ordered') : next[n] <= top + 1
  BY <1>1, <1>6
<1>10. ASSUME NEW i \in 1 .. l + c PROVE i \in 1 .. l \/ \E j \in 1 .. c : i = l + j
  <2>1. i \notin 1 .. l => i - l \in 1 .. c /\ i = l + (i - l)
    BY <1>1, <1>3
  <2>2. QED BY <2>1
<1>11. ASSUME NEW i \in 1 .. l + c, NEW j \in 1 .. l + c, i < j
       PROVE  \/ next[ordered'[i]] < next[ordered'[j]]
              \/ next[ordered'[i]] = next[ordered'[j]] /\ Before(ordered'[i], ordered'[j])
  <2>1. CASE i \in 1 .. l /\ j \in 1 .. l
    <3>1. ordered'[i] = ordered[i] /\ ordered'[j] = ordered[j]
      BY <1>1, <2>1
    <3>2. ordered[i] \in Range(ordered) /\ ordered[j] \in Range(ordered)
      BY <1>3, <2>1
    <3>3. \/ rank[ordered[i]] < rank[ordered[j]]
          \/ rank[ordered[i]] = rank[ordered[j]] /\ Before(ordered[i], ordered[j])
      BY <1>2, <1>11, <2>1 DEF Ranked, l
    <3>4. QED BY <1>6, <3>1, <3>2, <3>3
  <2>2. CASE i \in 1 .. l /\ \E k \in 1 .. c : j = l + k
    <3>1. next[ordered'[i]] <= top /\ next[ordered'[i]] \in Nat
      BY <1>1, <1>3, <1>6, <2>2
    <3>2. next[ordered'[j]] = top + 1
      BY <1>1, <1>6, <2>2
    <3>3. QED BY <3>1, <3>2
  <2>3. CASE (\E k \in 1 .. c : i = l + k) /\ (\E k \in 1 .. c : j = l + k)
    <3>1. PICK k \in 1 .. c : i = l + k
      BY <2>3
    <3>2. PICK m \in 1 .. c : j = l + m
      BY <2>3
    <3>3. k < m
      BY <1>3, <1>11, <3>1, <3>2
    <3>4. QED BY <1>1, <1>6, <3>1, <3>2, <3>3
  <2>4. ~(j \in 1 .. l /\ \E k \in 1 .. c : i = l + k)
    BY <1>3, <1>11
  <2>5. QED BY <1>10, <2>1, <2>2, <2>3, <2>4
<1>12. ASSUME NEW n \in Nodes \ Range(ordered'), 
              dependsOn[n] \subseteq {m \in Range(ordered') : next[m] < top + 1}
       PROVE  FALSE
  <2>1. n \in Remaining /\ n \notin Ready
    BY <1>1, <1>12 DEF Remaining
  <2>2. ~(dependsOn[n] \subseteq Range(ordered))
    BY <2>1 DEF Ready
  <2>3. \A m \in Ready : ~(next[m] < top + 1)
    BY <1>6
  <2>4. QED BY <1>1, <1>12, <2>2, <2>3
<1>13. Ranked(next, top + 1)'
  <2>1. \A i, j \in 1 .. Len(ordered') : i < j =>
          \/ next[ordered'[i]] < next[ordered'[j]]
          \/ next[ordered'[i]] = next[ordered'[j]] /\ Before(ordered[i], ordered[j])'
    BY <1>1, <1>4, <1>11 DEF Before
  <2>2. \A n \in Remaining' :
          ~(dependsOn'[n] \subseteq {m \in Range(ordered') : next[m] < top + 1})
    BY <1>4, <1>12 DEF Remaining
  <2>3. \A n \in Range(ordered') :
          next[n] = 1 + Max({0} \cup {next[d] : d \in dependsOn'[n]})
    BY <1>4, <1>8
  <2>4. top + 1 # 0
    OBVIOUS
  <2>5. QED BY <1>9, <2>1, <2>2, <2>3, <2>4 DEF Ranked
<1>14. top + 1 \in Nat
  OBVIOUS
<1>15. QED BY <1>6, <1>13, <1>14 DEF RankInv

-----------------------------------------------------------------------------
(* What a node answers.                                                     *)

\* The list of a node's dependencies names each of them.
LEMMA DependenciesAre ==
    ASSUME TypeOK, NEW n \in Nodes, dependsOn[n] \subseteq Nodes
    PROVE  /\ Len(Dependencies(n)) \in Nat
           /\ \A i \in 1 .. Len(Dependencies(n)) : \E d \in dependsOn[n] :
                Dependencies(n)[i] = observations[d]
           /\ \A d \in dependsOn[n] : \E i \in 1 .. Len(Dependencies(n)) :
                Dependencies(n)[i] = observations[d]
<1> DEFINE S == dependsOn[n]
           c == Cardinality(S)
           listed == SetToSeq(S)
<1>1. IsFiniteSet(S) /\ c \in Nat /\ ExistsBijection(1 .. c, S)
  BY NodesAre, FS_Subset, FS_CardinalityType
<1>2. \E f \in [1 .. c -> S] : IsInjective(f)
  BY <1>1 DEF ExistsBijection, Bijection, Injection, IsInjective
<1>3. listed \in [1 .. c -> S] /\ IsInjective(listed)
  <2> HIDE DEF S
  <2>1. QED BY <1>2 DEF SetToSeq
<1>4. \A d \in S : \E i \in 1 .. c : listed[i] = d
  <2> HIDE DEF S, listed
  <2>1. IsFiniteSet(1 .. c) /\ Cardinality(1 .. c) = c
    BY <1>1, FS_Interval
  <2>2. listed \in Injection(1 .. c, S)
    BY <1>3 DEF Injection
  <2>3. listed \in Surjection(1 .. c, S)
    BY <1>1, <2>1, <2>2, FS_Injection
  <2>4. QED BY <2>3 DEF Surjection
<1>5. Dependencies(n) = [i \in DOMAIN listed |-> observations[listed[i]]]
  BY DEF Dependencies
<1> HIDE DEF listed, c, S
<1>6. DOMAIN listed = 1 .. c
  BY <1>3
<1>7. Dependencies(n) = [i \in 1 .. c |-> observations[listed[i]]]
  BY <1>5, <1>6
<1>8. Len(Dependencies(n)) = c
  BY <1>1, <1>7
<1>9. \A i \in 1 .. c : listed[i] \in S
  BY <1>3
<1>10. QED BY <1>1, <1>4, <1>7, <1>8, <1>9 DEF S

\* What stands in the way of n, by what its dependencies answered.
LEMMA ProblemIs ==
    ASSUME TypeOK, NEW n \in Nodes, dependsOn[n] \subseteq Nodes,
           \A d \in dependsOn[n] :
             observations[d] \in Answered /\ ~IsFuture(observations[d])
    PROVE  LET problem == DependencyProblem(Dependencies(n), Time)
               did(status) == \E d \in dependsOn[n] : observations[d].status = status
           IN  /\ did("FAIL") => problem \in Answered /\ problem.status = "FAIL"
               /\ ~did("FAIL") /\ did("UNAVAILABLE") =>
                    problem \in Answered /\ problem.status = "UNAVAILABLE"
               /\ ~did("FAIL") /\ ~did("UNAVAILABLE") => problem = None
<1> DEFINE list == Dependencies(n)
           problem == DependencyProblem(list, Time)
           did(status) == \E d \in dependsOn[n] : observations[d].status = status
           Are(status) == {i \in 1 .. Len(list) : list[i].status = status}
           Future == {i \in 1 .. Len(list) : list[i].known # None /\ list[i].known > Time}
           select(I) == IF I # {} THEN Min(I) ELSE 0
           passedOn == [Observed("FAIL", "FAILED_DEPENDENCY") EXCEPT
                          !.event = list[select(Are("FAIL"))].event,
                          !.known = list[select(Are("FAIL"))].known]
<1>1. /\ Len(list) \in Nat
      /\ \A i \in 1 .. Len(list) : \E d \in dependsOn[n] : list[i] = observations[d]
      /\ \A d \in dependsOn[n] : \E i \in 1 .. Len(list) : list[i] = observations[d]
  BY DependenciesAre
<1>2. problem =
        CASE select(Future) # 0 -> Observed("FAIL", "INVALID_DEPENDENCY_EVIDENCE")
          [] select(Future) = 0 /\ select(Are("FAIL")) # 0 -> passedOn
          [] select(Future) = 0 /\ select(Are("FAIL")) = 0 /\ select(Are("UNAVAILABLE")) # 0 ->
               Observed("UNAVAILABLE", "UNAVAILABLE")
          [] OTHER -> None
  <2> HIDE DEF list
  <2>1. QED BY DEF DependencyProblem, SelectInSeq
<1>3. Future = {}
  BY <1>1 DEF IsFuture
<1>4. ASSUME NEW status PROVE did(status) <=> Are(status) # {}
  <2> HIDE DEF list
  <2>1. ASSUME NEW d \in dependsOn[n], observations[d].status = status
        PROVE  Are(status) # {}
    <3>1. PICK i \in 1 .. Len(list) : list[i] = observations[d]
      BY <1>1
    <3>2. i \in Are(status)
      BY <2>1, <3>1
    <3>3. QED BY <3>2
  <2>2. ASSUME NEW i \in 1 .. Len(list), list[i].status = status PROVE did(status)
    <3>1. PICK d \in dependsOn[n] : list[i] = observations[d]
      BY <1>1
    <3>2. QED BY <2>2, <3>1
  <2>3. QED BY <2>1, <2>2
<1>5. /\ Are("FAIL") \in SUBSET Nat /\ 0 \notin Are("FAIL")
      /\ Are("UNAVAILABLE") \in SUBSET Nat /\ 0 \notin Are("UNAVAILABLE")
  <2> HIDE DEF list
  <2>1. QED BY <1>1
<1>6. ASSUME NEW I \in SUBSET Nat, 0 \notin I
      PROVE  /\ I # {} => select(I) \in I /\ select(I) # 0
             /\ I = {} => select(I) = 0
  <2>1. CASE I # {}
    BY <1>6, <2>1, MinIsLeast
  <2>2. CASE I = {}
    BY <2>2
  <2>3. QED BY <2>1, <2>2
<1>7. select(Future) = 0
  BY <1>3
<1>8. ASSUME did("FAIL") PROVE problem \in Answered /\ problem.status = "FAIL"
  <2> HIDE DEF did, Are, select, Future, list, passedOn
  <2>1. select(Are("FAIL")) \in Are("FAIL") /\ select(Are("FAIL")) # 0
    BY <1>4, <1>5, <1>6, <1>8
  <2>2. problem = passedOn
    <3> HIDE DEF problem
    <3>1. QED BY <1>2, <1>7, <2>1
  <2>3. list[select(Are("FAIL"))] \in Answered
    <3>1. select(Are("FAIL")) \in 1 .. Len(list)
      BY <2>1 DEF Are
    <3>2. QED BY <1>1, <3>1
  <2>4. PICK o \in Answered : o = list[select(Are("FAIL"))]
    BY <2>3
  <2>5. passedOn = [Observed("FAIL", "FAILED_DEPENDENCY") EXCEPT
                      !.event = o.event, !.known = o.known]
    BY <2>4 DEF passedOn
  <2>6. passedOn \in Answered /\ passedOn.status = "FAIL"
    BY <2>4, <2>5 DEF Observed, Answered, Statuses, States
  <2> HIDE DEF problem
  <2>7. QED BY <2>2, <2>6
<1>9. ASSUME ~did("FAIL"), did("UNAVAILABLE")
       PROVE  problem \in Answered /\ problem.status = "UNAVAILABLE"
  <2> HIDE DEF did, Are, select, Future, list, passedOn
  <2>1. select(Are("UNAVAILABLE")) # 0 /\ select(Are("FAIL")) = 0
    BY <1>4, <1>5, <1>6, <1>9
  <2>2. problem = Observed("UNAVAILABLE", "UNAVAILABLE")
    <3> HIDE DEF problem
    <3>1. QED BY <1>2, <1>7, <2>1
  <2>3. Observed("UNAVAILABLE", "UNAVAILABLE") \in Answered
    BY DEF Observed, Answered, Statuses, States
  <2>4. Observed("UNAVAILABLE", "UNAVAILABLE").status = "UNAVAILABLE"
    BY DEF Observed
  <2> HIDE DEF problem
  <2>5. QED BY <2>2, <2>3, <2>4
<1>10. ASSUME ~did("FAIL"), ~did("UNAVAILABLE") PROVE problem = None
  <2> HIDE DEF did, Are, select, Future, list, passedOn
  <2>1. select(Are("UNAVAILABLE")) = 0 /\ select(Are("FAIL")) = 0
    BY <1>4, <1>5, <1>6, <1>10
  <2> HIDE DEF problem
  <2>2. QED BY <1>2, <1>7, <2>1
<1>11. QED BY <1>8, <1>9, <1>10

LEMMA OwnIsAnswer == Own \subseteq Answered
<1>1. ASSUME NEW k \in 1 .. Time + 1 PROVE Evidence("ANY", None, 1, k, "ANY") \in Answered
  BY DEF Evidence, Answered, Statuses, States
<1>2. Observed("UNAVAILABLE", "UNAVAILABLE") \in Answered /\ Observed("FAIL", "NO_EVENT") \in Answered
  BY DEF Observed, Answered, Statuses, States
<1>3. QED BY <1>1, <1>2 DEF Own

\* An answer follows the dependencies.
LEMMA AnswerFollows ==
    ASSUME TypeOK, NEW n \in Nodes, dependsOn[n] \subseteq Nodes,
           \A d \in dependsOn[n] :
             observations[d] \in Answered /\ ~IsFuture(observations[d]),
           NEW o \in Answers(n)
    PROVE  LET did(status) == \E d \in dependsOn[n] : observations[d].status = status
           IN  /\ o \in Answered
               /\ did("FAIL") => o.status = "FAIL"
               /\ ~did("FAIL") /\ did("UNAVAILABLE") => o.status = "UNAVAILABLE"
<1> DEFINE problem == DependencyProblem(Dependencies(n), Time)
           did(status) == \E d \in dependsOn[n] : observations[d].status = status
<1>1. /\ did("FAIL") => problem \in Answered /\ problem.status = "FAIL"
      /\ ~did("FAIL") /\ did("UNAVAILABLE") =>
           problem \in Answered /\ problem.status = "UNAVAILABLE"
      /\ ~did("FAIL") /\ ~did("UNAVAILABLE") => problem = None
  BY ProblemIs
<1>2. o \in IF problem = None THEN Own ELSE {problem}
  BY DEF Answers
<1>3. None \notin Answered
  BY NodesAssumption
<1> HIDE DEF problem, did
<1>4. o \in Answered
  BY <1>1, <1>2, OwnIsAnswer
<1>5. did("FAIL") \/ did("UNAVAILABLE") => problem # None
  BY <1>1, <1>3
<1>6. did("FAIL") \/ did("UNAVAILABLE") => o = problem
  BY <1>2, <1>5
<1>7. /\ did("FAIL") => o.status = "FAIL"
      /\ ~did("FAIL") /\ did("UNAVAILABLE") => o.status = "UNAVAILABLE"
  BY <1>1, <1>6
<1>8. QED BY <1>4, <1>7 DEF did

-----------------------------------------------------------------------------
(* The answers and the decision.                                            *)

\* What has answered depends on what has answered.
LEMMA AnsweredIsClosed ==
    ASSUME TypeOK, OrderInv, AnswerInv
    PROVE  /\ DOMAIN observations \subseteq Nodes
           /\ \A n \in DOMAIN observations : dependsOn[n] \subseteq DOMAIN observations
           /\ DOMAIN observations # {} => Whole
<1> DEFINE k == Answering
<1>1. k \in Nat /\ k <= Len(ordered) /\ Len(ordered) \in Nat
  BY SequenceIs DEF AnswerInv
<1> HIDE DEF k
<1>2. DOMAIN observations = {ordered[j] : j \in 1 .. k}
  <2>1. (k + 1) - 1 = k
    BY <1>1
  <2>2. QED BY <2>1 DEF AnswerInv, Earlier, k
<1>3. ASSUME NEW n \in DOMAIN observations
      PROVE  n \in Nodes /\ dependsOn[n] \subseteq DOMAIN observations
  <2>1. PICK i \in 1 .. k : n = ordered[i]
    BY <1>2
  <2>2. i \in 1 .. Len(ordered)
    BY <1>1
  <2>3. dependsOn[n] \subseteq {ordered[j] : j \in 1 .. i - 1}
    BY <2>1, <2>2 DEF OrderInv, Earlier
  <2>4. \A j \in 1 .. i - 1 : j \in 1 .. k
    BY <1>1
  <2>5. n \in Nodes
    BY <2>1, <2>2, SequenceIs
  <2>6. QED BY <1>2, <2>3, <2>4, <2>5
<1>4. ASSUME DOMAIN observations # {} PROVE Whole
  <2>1. k # 0
    BY <1>2, <1>4
  <2>2. ordered # <<>>
    BY <1>1, <2>1
  <2>3. QED BY <2>2 DEF OrderInv
<1>5. QED BY <1>3, <1>4

\* The node that is due has not answered and waits for nobody.
LEMMA DueIs ==
    ASSUME TypeOK, OrderInv, AnswerInv, stage = "execute", DOMAIN observations # Nodes
    PROVE  /\ Answering + 1 \in 1 .. Len(ordered)
           /\ Due = ordered[Answering + 1]
           /\ Due \in Nodes \ DOMAIN observations
           /\ dependsOn[Due] \subseteq DOMAIN observations
           /\ Earlier(Answering + 2) = DOMAIN observations \cup {Due}
           /\ Cardinality(DOMAIN observations \cup {Due}) = Answering + 1
<1> DEFINE k == Answering
           i == k + 1
<1>1. k \in Nat /\ k <= Len(ordered) /\ Len(ordered) \in Nat
  BY SequenceIs DEF AnswerInv
<1>2. DOMAIN observations = Earlier(i)
  BY DEF AnswerInv
<1> HIDE DEF k
<1>3. i \in 1 .. Len(ordered)
  <2>1. SUFFICES ASSUME k = Len(ordered) PROVE FALSE
    BY <1>1
  <2>2. (Len(ordered) + 1) - 1 = Len(ordered)
    BY <1>1
  <2>3. Earlier(Len(ordered) + 1) = Range(ordered)
    BY <2>2, SequenceIs DEF Earlier
  <2>4. Range(ordered) = Nodes
    BY SequenceIs DEF OrderInv, Remaining
  <2>5. QED BY <1>2, <2>1, <2>3, <2>4
<1>4. Due = ordered[i]
  BY DEF Due, Answering, k
<1>5. i \in 1 .. Len(ordered) + 1 /\ i <= Len(ordered) /\ i + 1 \in 1 .. Len(ordered) + 1
  BY <1>1, <1>3
<1>6. i + 1 = k + 2 /\ (i + 1) - 1 = k + 1
  BY <1>1
<1>7. ordered[i] \notin Earlier(i) /\ Earlier(i + 1) = Earlier(i) \cup {ordered[i]}
  <2> HIDE DEF i
  <2>1. QED BY <1>5, EarlierIs
<1>8. Cardinality(Earlier(i + 1)) = (i + 1) - 1
  <2> HIDE DEF i
  <2>1. QED BY <1>5, EarlierIs
<1>9. ordered[i] \in Nodes
  BY <1>3, SequenceIs
<1>10. dependsOn[ordered[i]] \subseteq Earlier(i)
  BY <1>3 DEF OrderInv
<1>11. QED
  <2>1. Earlier(k + 2) = Earlier(i) \cup {ordered[i]}
    BY <1>6, <1>7
  <2>2. Cardinality(Earlier(i) \cup {ordered[i]}) = k + 1
    BY <1>6, <1>7, <1>8
  <2> HIDE DEF i
  <2>3. QED BY <1>2, <1>3, <1>4, <1>7, <1>9, <1>10, <2>1, <2>2 DEF k, i

LEMMA EvaluateKeepsAnswers ==
    ASSUME TypeOK, OrderInv, AnswerInv, Evaluate
    PROVE  AnswerInv'
<1> DEFINE k == Answering
<1>1. /\ stage = "execute" /\ DOMAIN observations # Nodes
      /\ UNCHANGED <<dependsOn, ordered, stage>>
  BY DEF Evaluate
<1>2. PICK o \in Answers(Due) :
        /\ ~IsFuture(o)
        /\ observations' = [n \in DOMAIN observations \cup {Due} |->
                              IF n = Due THEN o ELSE observations[n]]
  BY DEF Evaluate
<1>3. /\ k + 1 \in 1 .. Len(ordered)
      /\ Due \in Nodes \ DOMAIN observations
      /\ dependsOn[Due] \subseteq DOMAIN observations
      /\ Earlier(k + 2) = DOMAIN observations \cup {Due}
      /\ Cardinality(DOMAIN observations \cup {Due}) = k + 1
  BY <1>1, DueIs
<1>4. k \in Nat /\ Len(ordered) \in Nat
  BY SequenceIs DEF AnswerInv
<1>5. /\ DOMAIN observations' = DOMAIN observations \cup {Due}
      /\ observations'[Due] = o
      /\ \A n \in DOMAIN observations : observations'[n] = observations[n]
  BY <1>2, <1>3
<1>6. Answering' = k + 1
  BY <1>3, <1>5 DEF Answering
<1>7. \A n \in DOMAIN observations :
        n \in Nodes /\ dependsOn[n] \subseteq DOMAIN observations
  BY AnsweredIsClosed
<1>8. \A d \in dependsOn[Due] : observations[d] \in Answered /\ ~IsFuture(observations[d])
  BY <1>3 DEF AnswerInv, Judged
<1>9. LET did(status) == \E d \in dependsOn[Due] : observations[d].status = status
      IN  /\ o \in Answered
          /\ did("FAIL") => o.status = "FAIL"
          /\ ~did("FAIL") /\ did("UNAVAILABLE") => o.status = "UNAVAILABLE"
  <2>1. dependsOn[Due] \subseteq Nodes /\ Due \in Nodes
    BY <1>3, <1>7
  <2>2. QED BY <1>8, <2>1, AnswerFollows
<1> DEFINE Was(n, status) == \E d \in dependsOn[n] : observations[d].status = status
           Is(n, status) == \E d \in dependsOn[n] : observations'[d].status = status
<1>10. ASSUME NEW n \in DOMAIN observations \cup {Due}
       PROVE  /\ observations'[n] \in Answered /\ ~IsFuture(observations'[n])
              /\ Is(n, "FAIL") => observations'[n].status = "FAIL"
              /\ ~Is(n, "FAIL") /\ Is(n, "UNAVAILABLE") =>
                   observations'[n].status = "UNAVAILABLE"
  <2>1. \A d \in dependsOn[n] : observations'[d] = observations[d]
    BY <1>3, <1>5, <1>7
  <2>2. \A status : Is(n, status) <=> Was(n, status)
    BY <2>1
  <2>3. CASE n = Due
    <3> HIDE DEF Is
    <3>1. QED BY <1>2, <1>5, <1>9, <2>2, <2>3
  <2>4. CASE n \in DOMAIN observations
    <3>1. /\ observations[n] \in Answered /\ ~IsFuture(observations[n])
          /\ Was(n, "FAIL") => observations[n].status = "FAIL"
          /\ ~Was(n, "FAIL") /\ Was(n, "UNAVAILABLE") =>
               observations[n].status = "UNAVAILABLE"
      BY <2>4 DEF AnswerInv, Judged
    <3> HIDE DEF Is, Was
    <3>2. QED BY <1>5, <2>2, <2>4, <3>1
  <2>5. QED BY <2>3, <2>4
<1>11. \A n \in DOMAIN observations' : Judged(n)'
  BY <1>1, <1>5, <1>10 DEF Judged, IsFuture
<1>12. Answering' \in 0 .. Len(ordered')
  BY <1>1, <1>3, <1>4, <1>6
<1>13. DOMAIN observations' = Earlier(Answering + 1)'
  <2>1. (Answering' + 1) - 1 = (k + 2) - 1
    BY <1>4, <1>6
  <2>2. Earlier(Answering + 1)' = Earlier(k + 2)
    <3>1. Earlier(Answering + 1)' = {ordered[j] : j \in 1 .. (Answering' + 1) - 1}
      BY <1>1 DEF Earlier
    <3>2. Earlier(k + 2) = {ordered[j] : j \in 1 .. (k + 2) - 1}
      BY DEF Earlier
    <3> HIDE DEF k
    <3>3. QED BY <2>1, <3>1, <3>2
  <2>3. QED BY <1>3, <1>5, <2>2
<1>14. QED BY <1>1, <1>11, <1>12, <1>13 DEF AnswerInv

LEMMA NextKeeps == IInv /\ [Next]_vars => IInv'
<1> SUFFICES ASSUME IInv, [Next]_vars PROVE IInv'
  OBVIOUS
<1>1. TypeOK /\ OrderInv /\ RankInv /\ AnswerInv /\ DecisionInv
  BY DEF IInv
<1>2. ASSUME UNCHANGED <<dependsOn, order, ordered>> PROVE RankInv'
  <2>1. PICK rank \in [Nodes -> Nat], top \in Nat : Ranked(rank, top)
    BY <1>1 DEF RankInv
  <2>2. Ranked(rank, top)'
    BY <1>2, <2>1 DEF Ranked, Remaining, Before
  <2>3. QED BY <2>1, <2>2 DEF RankInv
<1>3. ASSUME UNCHANGED <<dependsOn, ordered, observations>>,
             stage' \in {"resolve", "missing", "cyclic"} => DOMAIN observations = {}
      PROVE  AnswerInv'
  BY <1>1, <1>3 DEF AnswerInv, Answering, Earlier, Judged, IsFuture
<1>4. ASSUME stage # "decided", decision' = decision PROVE DecisionInv'
  BY <1>1, <1>4 DEF DecisionInv
<1>5. ASSUME UNCHANGED <<dependsOn, order, ordered, required, levels>>,
             stage' \in {"resolve", "missing", "cyclic", "execute", "raised", "decided"}
      PROVE  TypeOK'
  BY <1>1, <1>5 DEF TypeOK
<1>6. CASE RejectMissing
  <2> USE <1>6 DEF RejectMissing
  <2>1. OrderInv'
    <3>1. ~Whole /\ ordered = <<>>
      BY <1>1 DEF OrderInv, Whole
    <3>2. Len(ordered) = 0
      BY <3>1
    <3>3. QED BY <3>1, <3>2 DEF OrderInv, Whole
  <2>2. AnswerInv'
    BY <1>1, <1>3 DEF AnswerInv
  <2>3. QED BY <1>2, <1>4, <1>5, <2>1, <2>2 DEF IInv
<1>7. CASE ResolveGeneration
  <2>1. OrderInv' /\ RankInv'
    BY <1>1, <1>7, GenerationKeepsOrder, GenerationKeepsRank
  <2>2. ordered' \in Seq(Nodes) /\ Len(ordered') \in Nat
    BY <1>1, <1>7, GenerationIsAppended
  <2>3. TypeOK'
    BY <1>1, <1>7, <2>2 DEF TypeOK, ResolveGeneration
  <2>4. AnswerInv'
    <3>1. stage' = "resolve" /\ observations' = observations /\ DOMAIN observations = {}
      BY <1>1, <1>7 DEF ResolveGeneration, AnswerInv
    <3>2. Answering' = 0
      BY <3>1, FS_EmptySet DEF Answering
    <3>3. Earlier(Answering + 1)' = {}
      BY <3>2 DEF Earlier
    <3>4. QED BY <2>2, <3>1, <3>2, <3>3 DEF AnswerInv
  <2>5. DecisionInv'
    BY <1>4, <1>7 DEF ResolveGeneration
  <2>6. QED BY <2>1, <2>3, <2>4, <2>5 DEF IInv
<1>8. CASE RejectCycle
  <2> USE <1>8 DEF RejectCycle
  <2>1. OrderInv'
    BY <1>1 DEF OrderInv, Whole, Earlier, Remaining, Ready
  <2>2. AnswerInv'
    BY <1>1, <1>3 DEF AnswerInv
  <2>3. QED BY <1>2, <1>4, <1>5, <2>1, <2>2 DEF IInv
<1>9. CASE FinishOrder
  <2> USE <1>9 DEF FinishOrder
  <2>1. OrderInv'
    <3>1. Whole
      <4>1. CASE Nodes = {}
        BY <4>1 DEF Whole
      <4>2. CASE Nodes # {}
        <5>1. ordered # <<>>
          BY <4>2 DEF Remaining, Range
        <5>2. QED BY <1>1, <5>1 DEF OrderInv
      <4>3. QED BY <4>1, <4>2
    <3>2. QED BY <1>1, <3>1 DEF OrderInv, Whole, Earlier, Remaining
  <2>2. AnswerInv'
    BY <1>1, <1>3 DEF AnswerInv
  <2>3. QED BY <1>2, <1>4, <1>5, <2>1, <2>2 DEF IInv
<1>10. CASE Evaluate
  <2>1. AnswerInv'
    BY <1>1, <1>10, EvaluateKeepsAnswers
  <2> USE <1>10 DEF Evaluate
  <2>2. OrderInv'
    BY <1>1 DEF OrderInv, Whole, Earlier, Remaining
  <2>3. QED BY <1>2, <1>4, <1>5, <2>1, <2>2 DEF IInv
<1>11. CASE RaiseFuture
  <2> USE <1>11 DEF RaiseFuture
  <2>1. OrderInv'
    BY <1>1 DEF OrderInv, Whole, Earlier, Remaining
  <2>2. AnswerInv'
    BY <1>1, <1>3 DEF AnswerInv
  <2>3. QED BY <1>2, <1>4, <1>5, <2>1, <2>2 DEF IInv
<1>12. CASE Decide
  <2> USE <1>12 DEF Decide
  <2>1. OrderInv'
    BY <1>1 DEF OrderInv, Whole, Earlier, Remaining
  <2>2. AnswerInv'
    BY <1>1, <1>3 DEF AnswerInv
  <2>3. TypeOK'
    BY <1>1 DEF TypeOK
  <2>4. DecisionInv'
    <3>1. stage' = "decided" /\ DOMAIN observations' = Nodes /\ decision' = Decision'
      OBVIOUS
    <3>2. gates' = [n \in Nodes |-> GateAfter(decision, n)']
      BY DEF GateAfter, Before
    <3>3. QED BY <3>1, <3>2 DEF DecisionInv
  <2>5. QED BY <1>2, <2>1, <2>2, <2>3, <2>4 DEF IInv
<1>13. CASE UNCHANGED vars
  <2> USE <1>13 DEF vars
  <2>1. OrderInv'
    BY <1>1 DEF OrderInv, Whole, Earlier, Remaining, Ready
  <2>2. AnswerInv'
    BY <1>1, <1>3 DEF AnswerInv
  <2>3. TypeOK'
    BY <1>1 DEF TypeOK
  <2>4. DecisionInv'
    BY <1>1 DEF DecisionInv, Decision, Stops, HasLevels, First, Latest, Before,
                Decided, GateAfter
  <2>5. QED BY <1>2, <2>1, <2>2, <2>3, <2>4 DEF IInv
<1>14. QED BY <1>6, <1>7, <1>8, <1>9, <1>10, <1>11, <1>12, <1>13 DEF Next

\* Every reachable state satisfies the invariant.
THEOREM Invariance == Spec => []IInv
<1>1. QED BY InitInv, NextKeeps, PTL DEF Spec

\* Every reachable state has the type of its variables.
THEOREM TypeCorrect == Spec => []TypeOK
<1>1. QED BY Invariance, PTL DEF IInv

-----------------------------------------------------------------------------
(* Failure is passed on.                                                    *)

\* What passed rests on what passed, and what did not fail on what did not fail.
LEMMA PassedIsClosed ==
    ASSUME IInv, NEW n \in DOMAIN observations
    PROVE  LET passed == {m \in DOMAIN observations : observations[m].status = "PASS"}
               unfailed == {m \in DOMAIN observations : observations[m].status # "FAIL"}
           IN  /\ n \in Nodes /\ Ancestors(n) \subseteq DOMAIN observations
               /\ dependsOn[n] \subseteq passed => Ancestors(n) \subseteq passed
               /\ n \in passed => Ancestors(n) \subseteq passed
               /\ n \in unfailed => Ancestors(n) \subseteq unfailed
<1> DEFINE answered == DOMAIN observations
           passed == {m \in DOMAIN observations : observations[m].status = "PASS"}
           unfailed == {m \in DOMAIN observations : observations[m].status # "FAIL"}
<1>1. /\ answered \subseteq Nodes /\ \A m \in answered : dependsOn[m] \subseteq answered
      /\ \A m \in answered : Judged(m)
  BY AnsweredIsClosed DEF IInv, AnswerInv
<1>2. \A m \in answered : observations[m].status \in Statuses
  BY <1>1 DEF Judged, Answered
<1>3. ASSUME NEW m \in answered PROVE m \in passed => dependsOn[m] \subseteq passed
  <2>1. \A d \in dependsOn[m] : d \in answered
    BY <1>1
  <2>2. m \in passed => \A d \in dependsOn[m] :
          observations[d].status # "FAIL" /\ observations[d].status # "UNAVAILABLE"
    BY <1>1 DEF Judged
  <2>3. QED BY <1>2, <2>1, <2>2 DEF Statuses
<1>4. ASSUME NEW m \in answered PROVE m \in unfailed => dependsOn[m] \subseteq unfailed
  <2>1. \A d \in dependsOn[m] : d \in answered
    BY <1>1
  <2>2. m \in unfailed => \A d \in dependsOn[m] : observations[d].status # "FAIL"
    BY <1>1 DEF Judged
  <2>3. QED BY <2>1, <2>2
<1>5. Closed(passed) /\ Closed(unfailed) /\ Closed(answered)
  BY <1>1, <1>3, <1>4 DEF Closed
<1>6. n \in Nodes /\ dependsOn[n] \subseteq answered
  BY <1>1
<1>7. Ancestors(n) \subseteq answered
  <2> HIDE DEF answered
  <2>1. QED BY <1>5, <1>6, AncestorsWithin
<1>8. dependsOn[n] \subseteq passed => Ancestors(n) \subseteq passed
  <2> HIDE DEF passed
  <2>1. QED BY <1>5, <1>6, AncestorsWithin
<1>9. dependsOn[n] \subseteq unfailed => Ancestors(n) \subseteq unfailed
  <2> HIDE DEF unfailed
  <2>1. QED BY <1>5, <1>6, AncestorsWithin
<1>10. QED BY <1>3, <1>4, <1>6, <1>7, <1>8, <1>9

\* A node is not its own judge when anything it depends on, however far away, did not
\* pass: it fails if one of these failed and is unavailable otherwise.
THEOREM FailureIsPassedOn == Spec => []FailsClosed
<1>1. ASSUME IInv PROVE FailsClosed
  <2>1. SUFFICES ASSUME NEW n \in DOMAIN observations
        PROVE  LET o == observations[n]
                   failed == {m \in Ancestors(n) : observations[m].status = "FAIL"}
                   open == {m \in Ancestors(n) : observations[m].status = "UNAVAILABLE"}
               IN  /\ failed # {} => o.status = "FAIL"
                   /\ failed = {} /\ open # {} => o.status = "UNAVAILABLE"
                   /\ o.known # None => o.known <= Time
    BY DEF FailsClosed
  <2> DEFINE status(m) == observations[m].status
             passed == {m \in DOMAIN observations : observations[m].status = "PASS"}
             unfailed == {m \in DOMAIN observations : observations[m].status # "FAIL"}
  <2>2. /\ dependsOn[n] \subseteq passed => Ancestors(n) \subseteq passed
        /\ n \in passed => Ancestors(n) \subseteq passed
        /\ n \in unfailed => Ancestors(n) \subseteq unfailed
        /\ n \in Nodes /\ Ancestors(n) \subseteq DOMAIN observations
    BY <1>1, PassedIsClosed
  <2>3. Judged(n) /\ \A m \in DOMAIN observations : observations[m] \in Answered
    BY <1>1 DEF IInv, AnswerInv, Judged
  <2>4. \A m \in DOMAIN observations : status(m) \in Statuses
    BY <2>3 DEF Answered
  <2>5. dependsOn[n] \subseteq DOMAIN observations
    BY <1>1, AnsweredIsClosed DEF IInv
  <2>6. (\E m \in Ancestors(n) : status(m) = "FAIL") => status(n) = "FAIL"
    BY <2>2
  <2>7. ASSUME \A m \in Ancestors(n) : status(m) # "FAIL",
               NEW m \in Ancestors(n), status(m) = "UNAVAILABLE"
        PROVE  status(n) = "UNAVAILABLE"
    <3>1. ~(dependsOn[n] \subseteq passed)
      BY <2>2, <2>7
    <3>2. PICK d \in dependsOn[n] : status(d) # "PASS"
      BY <2>5, <3>1
    <3>3. Whole
      BY <1>1, AnsweredIsClosed DEF IInv
    <3>4. dependsOn[n] \subseteq Ancestors(n)
      BY <2>2, <3>3, AncestorsSaturate
    <3>5. \A e \in dependsOn[n] : status(e) # "FAIL"
      BY <2>7, <3>4
    <3>6. status(d) = "UNAVAILABLE"
      BY <2>4, <2>5, <3>2, <3>5 DEF Statuses
    <3>7. QED BY <2>3, <3>2, <3>5, <3>6 DEF Judged
  <2>8. observations[n].known # None => observations[n].known <= Time
    <3>1. observations[n] \in Answered /\ ~IsFuture(observations[n])
      BY <2>3 DEF Judged
    <3>2. observations[n].known # None => observations[n].known \in 1 .. Time + 1
      BY <3>1 DEF Answered
    <3>3. QED BY <3>1, <3>2, NodesAssumption DEF IsFuture
  <2>9. QED BY <2>6, <2>7, <2>8
<1>2. QED BY <1>1, Invariance, PTL

-----------------------------------------------------------------------------
(* The decision.                                                            *)

\* A READY decision rests on nothing that did not pass, and one that is not names
\* the first signal that stopped it.
THEOREM DecisionRests == Spec => []DecisionIsJustified
<1>1. ASSUME IInv PROVE DecisionIsJustified
  <2> DEFINE passed(n) == observations[n].status = "PASS"
             rejecting == {n \in Nodes : gates[n] \in {"REJECT", "UNAVAILABLE"}}
             stopped == {n \in Nodes : Stops(n)}
             sources == required \cap levels
             d == decision
             Rests == /\ \A n \in required : passed(n) /\ \A m \in Ancestors(n) : passed(m)
                      /\ sources # {}
                      /\ \A n \in sources : HasLevels(observations[n])
  <2>1. SUFFICES ASSUME decision # None
        PROVE  /\ d.status = "READY" <=> Rests
               /\ d.source # None => d.source \in sources
               /\ d.status = "NO_TRADE" => observations[d.failed].status = "FAIL"
               /\ d.failed \in Nodes =>
                    /\ rejecting = {d.failed}
                    /\ \A n \in required :
                         Before(n, d.failed) => passed(n) /\ gates[n] = "PASS"
                    /\ DependenciesEarlier /\ required = Nodes =>
                         \A m \in Ancestors(d.failed) : passed(m)
               /\ d.failed \notin Nodes => rejecting = {}
    BY DEF DecisionIsJustified
  <2>2. /\ DOMAIN observations = Nodes /\ d = Decision
        /\ gates = [n \in Nodes |-> GateAfter(d, n)]
    BY <1>1, <2>1 DEF IInv, DecisionInv
  <2>3. /\ required \subseteq Nodes /\ levels \subseteq Nodes
        /\ order \in [Nodes -> Nat]
    BY <1>1 DEF IInv, TypeOK
  <2>4. None \notin Nodes /\ Absent \notin Nodes
    BY NodesAre
  <2>5. ASSUME NEW n \in Nodes
        PROVE  /\ Ancestors(n) \subseteq Nodes
               /\ passed(n) => \A m \in Ancestors(n) : passed(m)
    <3>1. n \in DOMAIN observations
      BY <2>2
    <3>2. /\ Ancestors(n) \subseteq DOMAIN observations
          /\ n \in {m \in DOMAIN observations : observations[m].status = "PASS"} =>
               Ancestors(n) \subseteq
                 {m \in DOMAIN observations : observations[m].status = "PASS"}
      BY <1>1, <3>1, PassedIsClosed
    <3>3. QED BY <2>2, <3>1, <3>2
  <2>6. \A n \in required : ~Stops(n) =>
          passed(n) /\ (n \in levels => HasLevels(observations[n]))
    BY DEF Stops
  <2>7. \A n \in Nodes : Stops(n) =>
          n \in required /\ ~(passed(n) /\ (n \in levels => HasLevels(observations[n])))
    BY DEF Stops
  <2>8. CASE stopped # {}
    <3> DEFINE f == First(stopped)
               status == IF observations[f].status = "FAIL" THEN "NO_TRADE" ELSE "UNAVAILABLE"
    <3>1. f \in stopped /\ \A n \in stopped \ {f} : Before(f, n)
      <4>1. stopped \in SUBSET Nodes
        OBVIOUS
      <4> HIDE DEF stopped
      <4>2. QED BY <2>3, <2>8, <4>1, FirstIs
    <3>2. d = Decided(status, f, None)
      BY <2>2, <2>8 DEF Decision
    <3> HIDE DEF f, d
    <3>3. d.status = status /\ d.failed = f /\ d.source = None
      BY <3>2 DEF Decided
    <3>4. f \in Nodes /\ Stops(f)
      BY <3>1
    <3>5. d.status \in {"NO_TRADE", "UNAVAILABLE"}
      BY <3>3
    <3>6. ~Rests
      BY <2>7, <3>4
    <3>7. \A n \in Nodes : gates[n] =
            IF n = f THEN IF status = "UNAVAILABLE" THEN "UNAVAILABLE" ELSE "REJECT"
            ELSE IF Before(f, n) THEN "SKIPPED_AFTER_REJECTION" ELSE "PASS"
      <4> HIDE DEF status
      <4>1. QED BY <2>2, <3>3, <3>4 DEF GateAfter
    <3>8. rejecting = {f}
      <4>1. gates[f] \in {"REJECT", "UNAVAILABLE"}
        BY <3>4, <3>7
      <4>2. \A n \in Nodes : n # f => gates[n] \notin {"REJECT", "UNAVAILABLE"}
        <5> HIDE DEF status
        <5>1. QED BY <3>7
      <4>3. QED BY <3>4, <4>1, <4>2
    <3>9. ASSUME NEW n \in required, Before(n, f) PROVE passed(n) /\ gates[n] = "PASS"
      <4>1. n \in Nodes /\ n # f /\ ~Before(f, n)
        BY <2>3, <3>4, <3>9, BeforeOrders
      <4>2. ~Stops(n)
        BY <3>1, <4>1
      <4>3. gates[n] = "PASS"
        <5> HIDE DEF status
        <5>1. QED BY <3>7, <4>1
      <4>4. QED BY <2>6, <4>2, <4>3
    <3>10. ASSUME DependenciesEarlier, required = Nodes, NEW m \in Ancestors(f)
           PROVE  passed(m)
      <4> DEFINE S == {n \in Nodes : Before(n, f)}
      <4>1. dependsOn[f] \subseteq Nodes /\ \A n \in Nodes : dependsOn[n] \subseteq Nodes
        BY <1>1, <2>2, <3>4, AnsweredIsClosed DEF IInv
      <4>2. dependsOn[f] \subseteq S
        BY <3>4, <3>10, <4>1 DEF DependenciesEarlier
      <4>3. ASSUME NEW n \in S, NEW e \in dependsOn[n] PROVE e \in S
        <5>1. n \in Nodes /\ e \in Nodes /\ Before(n, f) /\ Before(e, n)
          BY <3>10, <4>1, <4>3 DEF DependenciesEarlier
        <5>2. Before(e, f)
          BY <2>3, <3>4, <5>1, BeforeOrders
        <5>3. QED BY <5>1, <5>2
      <4>4. Closed(S)
        <5> HIDE DEF S
        <5>1. QED BY <4>3 DEF Closed
      <4>5. m \in S
        <5> HIDE DEF S
        <5>1. QED BY <3>4, <3>10, <4>2, <4>4, AncestorsWithin
      <4>6. QED BY <3>9, <3>10, <4>5
    <3>11. d.status = "NO_TRADE" => observations[d.failed].status = "FAIL"
      BY <3>3
    <3> HIDE DEF status, rejecting, passed, Rests, sources, stopped
    <3>12. d.status # "READY"
      BY <3>5
    <3>13. QED BY <3>3, <3>4, <3>6, <3>8, <3>9, <3>10, <3>11, <3>12
  <2>9. CASE stopped = {}
    <3>1. \A n \in required : passed(n) /\ (n \in levels => HasLevels(observations[n]))
      BY <2>3, <2>6, <2>9
    <3>2. \A n \in required : \A m \in Ancestors(n) : passed(m)
      BY <2>3, <2>5, <3>1
    <3>3. Rests <=> sources # {}
      BY <3>1, <3>2
    <3>4. d.failed \notin Nodes => rejecting = {}
      BY <2>2 DEF GateAfter
    <3>5. CASE sources # {}
      <4>1. d = Decided("READY", None, Latest(sources))
        BY <2>2, <2>9, <3>5 DEF Decision
      <4>2. sources \in SUBSET Nodes
        BY <2>3
      <4>3. Latest(sources) \in sources
        <5> HIDE DEF sources
        <5>1. QED BY <2>3, <3>5, <4>2, LatestIs
      <4> HIDE DEF d, sources, Rests, rejecting
      <4>4. d.status = "READY" /\ d.failed = None /\ d.source = Latest(sources)
        BY <4>1 DEF Decided
      <4>5. QED BY <2>4, <3>3, <3>4, <3>5, <4>3, <4>4
    <3>6. CASE sources = {}
      <4>1. d = Decided("UNAVAILABLE", Absent, None)
        BY <2>2, <2>9, <3>6 DEF Decision
      <4> HIDE DEF d, sources, Rests, rejecting
      <4>2. d.status = "UNAVAILABLE" /\ d.failed = Absent /\ d.source = None
        BY <4>1 DEF Decided
      <4>3. QED BY <2>4, <3>3, <3>4, <3>6, <4>2
    <3>7. QED BY <3>5, <3>6
  <2>10. QED BY <2>8, <2>9
<1>2. QED BY <1>1, Invariance, PTL

-----------------------------------------------------------------------------
(* The order.                                                               *)

\* What is in the order does not depend on itself.
LEMMA OrderedIsAcyclic ==
    ASSUME TypeOK, OrderInv, Remaining = {}
    PROVE  ~HasCycle
<1>1. SUFFICES ASSUME NEW n \in Nodes, n \in Ancestors(n) PROVE FALSE
  BY DEF HasCycle
<1>2. Len(ordered) \in Nat /\ Nodes = {ordered[i] : i \in 1 .. Len(ordered)}
  BY SequenceIs DEF Remaining
<1>3. PICK i \in 1 .. Len(ordered) : n = ordered[i]
  BY <1>2
<1>4. n \notin Earlier(i)
  BY <1>2, <1>3, EarlierIs
<1>5. dependsOn[n] \subseteq Earlier(i)
  BY <1>3 DEF OrderInv
<1>6. ASSUME NEW m \in Earlier(i) PROVE dependsOn[m] \subseteq Earlier(i)
  <2>1. PICK j \in 1 .. i - 1 : m = ordered[j]
    BY DEF Earlier
  <2>2. j \in 1 .. Len(ordered) /\ \A k \in 1 .. j - 1 : k \in 1 .. i - 1
    BY <1>2
  <2>3. dependsOn[m] \subseteq Earlier(j)
    BY <2>1, <2>2 DEF OrderInv
  <2>4. QED BY <2>2, <2>3 DEF Earlier
<1>7. Closed(Earlier(i))
  BY <1>6 DEF Closed
<1>8. QED BY <1>1, <1>4, <1>5, <1>7, AncestorsWithin

\* A rank that is one more than the highest rank of the dependencies is the depth:
\* two such functions do not differ first at any place of the order.
LEMMA RankIsDepth ==
    ASSUME TypeOK, OrderInv, Remaining = {},
           NEW rank \in [Nodes -> Nat],
           \A n \in Nodes : rank[n] = 1 + Max({0} \cup {rank[d] : d \in dependsOn[n]})
    PROVE  \A n \in Nodes : Depth(n) = rank[n]
<1> DEFINE Turn(f, m) == 1 + Max({0} \cup {f[d] : d \in dependsOn[m]})
           depth == CHOOSE f : f = [m \in Nodes |-> Turn(f, m)]
           Differ == {i \in 1 .. Len(ordered) : depth[ordered[i]] # rank[ordered[i]]}
<1>1. rank = [m \in Nodes |-> Turn(rank, m)]
  <2>1. \A m \in Nodes : rank[m] = Turn(rank, m)
    OBVIOUS
  <2> HIDE DEF Turn
  <2>2. QED BY <2>1
<1>2. depth = [m \in Nodes |-> Turn(depth, m)]
  <2> HIDE DEF Turn
  <2>1. QED BY <1>1
<1>3. \A n \in Nodes : Depth(n) = depth[n]
  BY DEF Depth
<1> HIDE DEF depth
<1>4. \A m \in Nodes : depth[m] = Turn(depth, m) /\ rank[m] = Turn(rank, m)
  <2> HIDE DEF Turn
  <2>1. QED BY <1>1, <1>2
<1>5. Len(ordered) \in Nat /\ Nodes = {ordered[i] : i \in 1 .. Len(ordered)}
  BY SequenceIs DEF Remaining
<1>6. ASSUME Differ # {} PROVE FALSE
  <2>1. Differ \in SUBSET Nat
    BY <1>5
  <2>2. \E i \in Differ : \A j \in Differ : i <= j
    <3> HIDE DEF Differ
    <3>1. QED BY <1>6, <2>1, LeastExists
  <2>3. PICK i \in Differ : \A j \in Differ : i <= j
    BY <2>2
  <2>4. i \in 1 .. Len(ordered) /\ ordered[i] \in Nodes
    BY <1>5
  <2>5. ASSUME NEW d \in dependsOn[ordered[i]] PROVE depth[d] = rank[d]
    <3>1. d \in Earlier(i)
      BY <2>4 DEF OrderInv
    <3>2. PICK j \in 1 .. i - 1 : d = ordered[j]
      BY <3>1 DEF Earlier
    <3>3. j \in 1 .. Len(ordered) /\ ~(i <= j)
      BY <1>5, <2>4
    <3>4. QED BY <2>3, <3>2, <3>3
  <2>6. {depth[d] : d \in dependsOn[ordered[i]]} = {rank[d] : d \in dependsOn[ordered[i]]}
    BY <2>5
  <2>7. Turn(depth, ordered[i]) = Turn(rank, ordered[i])
    BY <2>6
  <2> HIDE DEF Turn
  <2>8. QED BY <1>4, <2>4, <2>7
<1>7. QED BY <1>3, <1>5, <1>6

\* A graph is refused exactly when a node is missing or a dependency leads back to
\* itself, and otherwise every node has one place: by the length of its longest chain
\* of dependencies, then by its configured order, then by its ID.
THEOREM OrderDetermined == Spec => []OrderIsDetermined
<1>1. ASSUME IInv PROVE OrderIsDetermined
  <2>1. TypeOK /\ OrderInv /\ RankInv
    BY <1>1 DEF IInv
  <2>2. ASSUME stage = "missing" PROVE \E n \in Nodes : Unknown \in dependsOn[n]
    BY <2>1, <2>2 DEF TypeOK, OrderInv, Whole
  <2>3. ASSUME stage = "cyclic" PROVE HasCycle
    <3>1. Whole /\ Remaining # {} /\ Ready = {} /\ Remaining \subseteq Nodes
      BY <2>1, <2>3 DEF OrderInv, Remaining
    <3>2. ASSUME NEW n \in Remaining PROVE dependsOn[n] \cap Remaining # {}
      BY <3>1 DEF Ready, Remaining, Whole
    <3>3. QED BY <3>1, <3>2, StuckIsCyclic
  <2>4. ASSUME stage \notin {"resolve", "missing", "cyclic"}
        PROVE  /\ ~HasCycle
               /\ Len(ordered) = Cardinality(Nodes)
               /\ \A i, j \in DOMAIN ordered : i < j =>
                    \/ Depth(ordered[i]) < Depth(ordered[j])
                    \/ Depth(ordered[i]) = Depth(ordered[j]) /\ Before(ordered[i], ordered[j])
    <3>1. Remaining = {}
      BY <2>1, <2>4 DEF TypeOK, OrderInv
    <3>2. /\ Len(ordered) \in Nat /\ DOMAIN ordered = 1 .. Len(ordered)
          /\ Nodes = Range(ordered) /\ Range(ordered) = {ordered[i] : i \in 1 .. Len(ordered)}
      BY <2>1, <3>1, SequenceIs DEF Remaining, TypeOK
    <3>3. Len(ordered) = Cardinality(Nodes)
      <4>1. /\ Len(ordered) + 1 \in 1 .. Len(ordered) + 1
            /\ (Len(ordered) + 1) - 1 = Len(ordered)
        BY <3>2
      <4>2. Earlier(Len(ordered) + 1) = Nodes
        BY <3>2, <4>1 DEF Earlier
      <4>3. QED BY <2>1, <4>1, <4>2, EarlierIs
    <3>4. PICK rank \in [Nodes -> Nat], top \in Nat : Ranked(rank, top)
      BY <2>1 DEF RankInv
    <3>5. \A n \in Nodes : Depth(n) = rank[n]
      BY <2>1, <3>1, <3>2, <3>4, RankIsDepth DEF Ranked
    <3>6. \A i \in 1 .. Len(ordered) : Depth(ordered[i]) = rank[ordered[i]]
      BY <3>2, <3>5
    <3>7. \A i, j \in 1 .. Len(ordered) : i < j =>
            \/ Depth(ordered[i]) < Depth(ordered[j])
            \/ Depth(ordered[i]) = Depth(ordered[j]) /\ Before(ordered[i], ordered[j])
      BY <3>4, <3>6 DEF Ranked
    <3>8. ~HasCycle
      BY <2>1, <3>1, OrderedIsAcyclic
    <3>9. QED BY <3>2, <3>3, <3>7, <3>8
  <2>5. QED BY <2>2, <2>3, <2>4 DEF OrderIsDetermined
<1>2. QED BY <1>1, Invariance, PTL
=============================================================================
