------------------------------- MODULE Basics -------------------------------
(***************************************************************************)
(* Facts about natural numbers and lists that the proofs about the         *)
(* components share: least and greatest elements, multiples, induction in  *)
(* the form of a set that holds 0 and the successor of each of its         *)
(* elements, and what becomes of a list that grows.                        *)
(***************************************************************************)
EXTENDS Integers, Sequences, SequencesExt, FiniteSetsExt, WellFoundedInduction,
        SequenceTheorems, FiniteSetTheorems, TLAPS

-----------------------------------------------------------------------------
(* Least and greatest elements.                                             *)

LEMMA LeastExists ==
    ASSUME NEW S \in SUBSET Nat, S # {}
    PROVE  \E x \in S : \A t \in S : x <= t
<1> DEFINE Less == OpToRel(<, Nat)
<1>1. IsWellFoundedOn(Less, Nat)
  BY NatLessThanWellFounded
<1>2. \E x \in S : \A y \in S : ~(<<y, x>> \in Less)
  <2> HIDE DEF Less
  <2>1. QED BY <1>1, WFMin
<1>3. PICK x \in S : \A y \in S : ~(<<y, x>> \in Less)
  BY <1>2
<1>4. ASSUME NEW y \in S, ~(x <= y) PROVE FALSE
  <2>1. x \in Nat /\ y \in Nat /\ y < x
    BY <1>4
  <2>2. <<y, x>> \in Less
    BY <2>1 DEF OpToRel
  <2>3. QED BY <1>3, <2>2
<1>5. QED BY <1>4

\* A set of natural numbers that is not empty has a least element.
LEMMA MinIsLeast ==
    ASSUME NEW S \in SUBSET Nat, S # {}
    PROVE  Min(S) \in S /\ \A t \in S : Min(S) <= t
BY LeastExists DEF Min

\* One that is bounded has a greatest element as well.
LEMMA MaxIsGreatest ==
    ASSUME NEW bound \in Nat, NEW S \in SUBSET (0 .. bound), S # {}
    PROVE  Max(S) \in S /\ \A t \in S : Max(S) >= t
<1> DEFINE M == {bound - t : t \in S}
<1>1. M \in SUBSET Nat /\ M # {}
  <2>1. \A t \in S : bound - t \in Nat
    OBVIOUS
  <2>2. QED BY <2>1
<1>2. \E least \in M : \A t \in M : least <= t
  <2> HIDE DEF M
  <2>1. QED BY <1>1, LeastExists
<1>3. PICK x \in S : \A t \in M : bound - x <= t
  BY <1>2
<1>4. \A t \in S : bound - x <= bound - t
  BY <1>3
<1>5. \A t \in S : x >= t
  BY <1>4
<1>6. QED BY <1>5 DEF Max

\* A later element leaves the least one as it is.
LEMMA MinStays ==
    ASSUME NEW S \in SUBSET Nat, S # {}, NEW x \in Nat, \A t \in S : t <= x
    PROVE  Min(S \cup {x}) = Min(S)
<1>1. Min(S) \in S /\ \A t \in S : Min(S) <= t
  BY MinIsLeast
<1>2. Min(S \cup {x}) \in S \cup {x} /\ \A t \in S \cup {x} : Min(S \cup {x}) <= t
  BY MinIsLeast
<1>3. Min(S \cup {x}) \in Nat /\ Min(S) \in Nat
  BY <1>1, <1>2
<1>4. Min(S) <= Min(S \cup {x})
  BY <1>1, <1>2
<1>5. Min(S \cup {x}) <= Min(S)
  BY <1>1, <1>2
<1>6. QED BY <1>3, <1>4, <1>5

LEMMA MinOfOne ==
    ASSUME NEW x \in Nat
    PROVE  Min({x}) = x
BY MinIsLeast

-----------------------------------------------------------------------------
(* Induction.  A property of natural numbers is the set that has it, which  *)
(* an instance of the principle names by a DEFINE.                          *)

LEMMA Induction ==
    ASSUME NEW S, 0 \in S, \A n \in Nat : n \in S => n + 1 \in S
    PROVE  Nat \subseteq S
<1> DEFINE Missing == Nat \ S
<1>1. SUFFICES ASSUME Missing # {} PROVE FALSE
  OBVIOUS
<1>2. PICK x \in Missing : \A t \in Missing : x <= t
  BY <1>1, LeastExists
<1>3. x \in Nat /\ x # 0
  BY <1>2
<1>4. x - 1 \in Nat /\ x - 1 \notin Missing
  BY <1>2, <1>3
<1>5. QED BY <1>2, <1>4

-----------------------------------------------------------------------------
(* Multiples of a positive number.                                          *)

LEMMA MultipleIs ==
    ASSUME NEW x \in Nat, NEW m \in Nat \ {0}
    PROVE  x % m = 0 <=> \E k \in Nat : x = m * k
<1>1. x = m * (x \div m) + (x % m) /\ x \div m \in Nat /\ x % m \in 0 .. m - 1
  OBVIOUS
<1>2. ASSUME NEW k \in Nat, x = m * k PROVE x % m = 0
  BY <1>2
<1>3. ASSUME x % m = 0 PROVE \E k \in Nat : x = m * k
  <2>1. x = m * (x \div m)
    BY <1>1, <1>3
  <2>2. QED BY <1>1, <2>1
<1>4. QED BY <1>2, <1>3

\* Different multiples lie a whole factor apart.
LEMMA MultiplesApart ==
    ASSUME NEW x \in Nat, NEW y \in Nat, NEW m \in Nat \ {0},
           x % m = 0, y % m = 0, x < y
    PROVE  x + m <= y
<1>1. PICK j \in Nat : x = m * j
  BY MultipleIs
<1>2. PICK k \in Nat : y = m * k
  BY MultipleIs
<1>3. j < k
  <2>1. SUFFICES ASSUME k <= j PROVE FALSE
    OBVIOUS
  <2>2. m * k <= m * j
    BY <2>1
  <2>3. QED BY <1>1, <1>2, <2>2
<1>4. m * (j + 1) <= m * k
  BY <1>3
<1>5. m * (j + 1) = m * j + m
  OBVIOUS
<1>6. QED BY <1>1, <1>2, <1>4, <1>5

\* The next multiple.
LEMMA MultipleAfter ==
    ASSUME NEW x \in Nat, NEW m \in Nat \ {0}
    PROVE  (x + m) % m = 0 <=> x % m = 0
<1>1. PICK y \in Nat : y = x + m
  OBVIOUS
<1>2. ASSUME x % m = 0 PROVE y % m = 0
  <2>1. PICK j \in Nat : x = m * j
    BY <1>2, MultipleIs
  <2>2. y = m * (j + 1) /\ j + 1 \in Nat
    BY <1>1, <2>1
  <2>3. QED BY <2>2, MultipleIs
<1>3. ASSUME y % m = 0 PROVE x % m = 0
  <2>1. PICK j \in Nat : y = m * j
    BY <1>3, MultipleIs
  <2>2. j # 0
    BY <1>1, <2>1
  <2>3. x = m * (j - 1) /\ j - 1 \in Nat
    BY <1>1, <2>1, <2>2
  <2>4. QED BY <2>3, MultipleIs
<1>4. QED BY <1>1, <1>2, <1>3

-----------------------------------------------------------------------------
(* Lists.                                                                   *)

\* Sequences whose elements are of no matter which set.
IsList(s) == \E S : s \in Seq(S)

LEMMA ListHas ==
    ASSUME NEW s, IsList(s)
    PROVE  Len(s) \in Nat /\ DOMAIN s = 1 .. Len(s)
BY DEF IsList

\* One more in front.
LEMMA ListAdds ==
    ASSUME NEW s, IsList(s), NEW x
    PROVE  /\ IsList(<<x>> \o s)
           /\ Len(<<x>> \o s) = Len(s) + 1
           /\ (<<x>> \o s)[1] = x
           /\ \A i \in 1 .. Len(s) : (<<x>> \o s)[i + 1] = s[i]
<1>1. PICK S : s \in Seq(S)
  BY DEF IsList
<1>2. <<x>> \in Seq(S \cup {x}) /\ s \in Seq(S \cup {x})
  BY <1>1
<1>3. <<x>> \o s \in Seq(S \cup {x})
  BY <1>2
<1>4. QED BY <1>2, <1>3 DEF IsList

\* Another in its place.
LEMMA ListChanges ==
    ASSUME NEW s, IsList(s), NEW i \in DOMAIN s, NEW x
    PROVE  /\ IsList([s EXCEPT ![i] = x])
           /\ DOMAIN [s EXCEPT ![i] = x] = DOMAIN s
           /\ Len([s EXCEPT ![i] = x]) = Len(s)
           /\ \A j \in DOMAIN s : [s EXCEPT ![i] = x][j] = IF j = i THEN x ELSE s[j]
<1>1. PICK S : s \in Seq(S)
  BY DEF IsList
<1>2. s \in Seq(S \cup {x}) /\ x \in S \cup {x} /\ i \in 1 .. Len(s)
  BY <1>1
<1>3. PICK T : T = S \cup {x}
  OBVIOUS
<1>4. [s EXCEPT ![i] = x] \in Seq(T)
  BY <1>2, <1>3, ExceptSeq
<1>5. Len([s EXCEPT ![i] = x]) = Len(s)
  BY <1>2, <1>3, ExceptSeq
<1>6. QED BY <1>1, <1>4, <1>5 DEF IsList

\* One more at the end.
LEMMA AppendedIs ==
    ASSUME NEW s, IsList(s), NEW x, NEW t, t = Append(s, x)
    PROVE  /\ s \o <<x>> = t
           /\ IsList(t) /\ Len(t) = Len(s) + 1 /\ Len(s) \in Nat
           /\ t[Len(s) + 1] = x
           /\ \A i \in DOMAIN s : t[i] = s[i]
           /\ DOMAIN s = 1 .. Len(s) /\ DOMAIN t = 1 .. Len(s) + 1
           /\ Range(t) = Range(s) \cup {x}
<1>1. PICK S : s \in Seq(S)
  BY DEF IsList
<1>2. PICK T : T = S \cup {x}
  OBVIOUS
<1>3. s \in Seq(T) /\ x \in T
  BY <1>1, <1>2
<1>4. /\ t \in Seq(T) /\ Len(t) = Len(s) + 1 /\ Len(s) \in Nat
      /\ \A i \in 1 .. Len(s) : t[i] = s[i]
  BY <1>3
<1>5. DOMAIN s = 1 .. Len(s) /\ DOMAIN t = 1 .. Len(s) + 1
  BY <1>1, <1>4
<1>6. t[Len(s) + 1] = x
  BY <1>3
<1>9. s \o <<x>> = t
  BY <1>3
<1>7. Range(t) = Range(s) \cup {x}
  <2>1. ASSUME NEW y \in Range(t) PROVE y \in Range(s) \cup {x}
    <3>1. PICK i \in DOMAIN t : y = t[i]
      BY <2>1 DEF Range
    <3>2. i \in DOMAIN s \/ i = Len(s) + 1
      BY <1>4, <1>5
    <3>3. QED BY <1>4, <1>5, <1>6, <3>1, <3>2 DEF Range
  <2>2. ASSUME NEW y \in Range(s) PROVE y \in Range(t)
    <3>1. PICK i \in DOMAIN s : y = s[i]
      BY <2>2 DEF Range
    <3>2. i \in DOMAIN t /\ t[i] = y
      BY <1>4, <1>5, <3>1
    <3>3. QED BY <3>2 DEF Range
  <2>3. x \in Range(t)
    <3>1. Len(s) + 1 \in DOMAIN t
      BY <1>4, <1>5
    <3>2. QED BY <1>6, <3>1 DEF Range
  <2>4. QED BY <2>1, <2>2, <2>3
<1>8. QED BY <1>4, <1>5, <1>6, <1>7, <1>9 DEF IsList

\* The same of a list in front of which another stands.
LEMMA OneBefore ==
    ASSUME NEW S, NEW list \in Seq(S), NEW x, NEW more, more = <<x>> \o list
    PROVE  /\ more \in Seq(S \cup {x}) /\ DOMAIN more = 1 .. Len(list) + 1
           /\ more[1] = x /\ \A i \in 1 .. Len(list) : more[i + 1] = list[i]
           /\ Range(more) = {x} \cup Range(list)
<1>1. PICK n, T : n = Len(list) /\ T = S \cup {x}
  OBVIOUS
<1>2. n \in Nat /\ DOMAIN list = 1 .. n
  BY <1>1
<1>3. more \in Seq(T)
  BY <1>1
<1>4. DOMAIN more = 1 .. n + 1
  BY <1>1, <1>2
<1>5. more[1] = x
  BY <1>1, <1>2
<1>6. ASSUME NEW i \in 1 .. n PROVE more[i + 1] = list[i]
  BY <1>1, <1>2
<1>7. ASSUME NEW y \in Range(more) PROVE y \in {x} \cup Range(list)
  <2>1. PICK j \in 1 .. n + 1 : y = more[j]
    BY <1>4, <1>7 DEF Range
  <2>2. CASE j = 1
    BY <1>5, <2>1, <2>2
  <2>3. CASE j # 1
    <3>1. PICK i \in 1 .. n : j = i + 1
      BY <1>2, <2>3
    <3>2. QED BY <1>2, <1>6, <2>1, <3>1 DEF Range
  <2>4. QED BY <2>2, <2>3
<1>8. ASSUME NEW y \in {x} \cup Range(list) PROVE y \in Range(more)
  <2>1. CASE y = x
    <3>1. 1 \in DOMAIN more
      BY <1>2, <1>4
    <3>2. QED BY <1>5, <2>1, <3>1 DEF Range
  <2>2. CASE y \in Range(list)
    <3>1. PICK i \in 1 .. n : y = list[i]
      BY <1>2, <2>2 DEF Range
    <3>2. i + 1 \in DOMAIN more
      BY <1>2, <1>4
    <3>3. more[i + 1] = y
      BY <1>6, <3>1
    <3>4. QED BY <3>2, <3>3 DEF Range
  <2>3. QED BY <1>8, <2>1, <2>2
<1>9. QED BY <1>1, <1>3, <1>4, <1>5, <1>6, <1>7, <1>8

\* One list after the other.
LEMMA ListsJoin ==
    ASSUME NEW s, IsList(s), NEW t, IsList(t)
    PROVE  /\ IsList(s \o t) /\ Len(s \o t) = Len(s) + Len(t)
           /\ Len(s) \in Nat /\ Len(t) \in Nat
           /\ \A i \in 1 .. Len(s) : (s \o t)[i] = s[i]
           /\ \A i \in 1 .. Len(t) : (s \o t)[Len(s) + i] = t[i]
<1>1. PICK S : s \in Seq(S)
  BY DEF IsList
<1>2. PICK T : t \in Seq(T)
  BY DEF IsList
<1>3. PICK U : U = S \cup T
  OBVIOUS
<1>4. s \in Seq(U) /\ t \in Seq(U)
  BY <1>1, <1>2, <1>3
<1>5. s \o t \in Seq(U)
  BY <1>4
<1>6. QED BY <1>4, <1>5 DEF IsList

\* What two lists have in common is true of the list of both.
LEMMA EitherList ==
    ASSUME NEW s, IsList(s), NEW t, IsList(t), NEW i \in DOMAIN (s \o t)
    PROVE  \/ i \in DOMAIN s /\ (s \o t)[i] = s[i]
           \/ i - Len(s) \in DOMAIN t /\ (s \o t)[i] = t[i - Len(s)]
<1>1. /\ IsList(s \o t) /\ Len(s \o t) = Len(s) + Len(t)
      /\ Len(s) \in Nat /\ Len(t) \in Nat
      /\ \A j \in 1 .. Len(s) : (s \o t)[j] = s[j]
      /\ \A j \in 1 .. Len(t) : (s \o t)[Len(s) + j] = t[j]
  <2>1. PICK u : u = s \o t
    OBVIOUS
  <2>2. /\ IsList(u) /\ Len(u) = Len(s) + Len(t)
        /\ Len(s) \in Nat /\ Len(t) \in Nat
        /\ \A j \in 1 .. Len(s) : u[j] = s[j]
        /\ \A j \in 1 .. Len(t) : u[Len(s) + j] = t[j]
    BY <2>1, ListsJoin
  <2>3. QED BY <2>1, <2>2
<1>2. /\ DOMAIN (s \o t) = 1 .. Len(s) + Len(t)
      /\ DOMAIN s = 1 .. Len(s) /\ DOMAIN t = 1 .. Len(t)
  BY <1>1, ListHas
<1>3. CASE i <= Len(s)
  BY <1>1, <1>2, <1>3
<1>4. CASE i > Len(s)
  BY <1>1, <1>2, <1>4
<1>5. QED BY <1>1, <1>2, <1>3, <1>4

\* Prefixes entry by entry.
LEMMA PrefixIs ==
    ASSUME NEW s, IsList(s), NEW t, IsList(t), Len(s) <= Len(t),
           \A i \in 1 .. Len(s) : t[i] = s[i]
    PROVE  IsPrefix(s, t)
<1>1. PICK S : s \in Seq(S)
  BY DEF IsList
<1>2. PICK T : t \in Seq(T)
  BY DEF IsList
<1>3. PICK U : U = S \cup T
  OBVIOUS
<1>4. s \in Seq(U) /\ t \in Seq(U) /\ Len(s) \in Nat /\ Len(t) \in Nat
  BY <1>1, <1>2, <1>3
<1>5. \A i \in 1 .. Len(s) : s[i] \in U /\ t[i] \in U
  BY <1>4
<1>6. /\ SubSeq(s, 1, Len(s)) \in Seq(U) /\ Len(SubSeq(s, 1, Len(s))) = Len(s)
      /\ \A i \in 1 .. Len(s) : SubSeq(s, 1, Len(s))[i] = s[i]
  BY <1>4, <1>5, SubSeqProperties
<1>7. /\ SubSeq(t, 1, Len(s)) \in Seq(U) /\ Len(SubSeq(t, 1, Len(s))) = Len(s)
      /\ \A i \in 1 .. Len(s) : SubSeq(t, 1, Len(s))[i] = t[i]
  BY <1>4, <1>5, SubSeqProperties
<1>8. SubSeq(s, 1, Len(s)) = SubSeq(t, 1, Len(s))
  BY <1>6, <1>7, SeqEqual
<1>9. QED BY <1>8 DEF IsPrefix

\* A list is a prefix of what is added to it.
LEMMA PrefixOfSum ==
    ASSUME NEW s, IsList(s), NEW t, IsList(t), NEW u, IsList(u)
    PROVE  IsList((s \o t) \o u) /\ IsPrefix(s, (s \o t) \o u)
<1>1. PICK st : st = s \o t
  OBVIOUS
<1>2. /\ IsList(st) /\ Len(s) \in Nat /\ Len(st) \in Nat /\ Len(s) <= Len(st)
      /\ \A i \in 1 .. Len(s) : st[i] = s[i]
  <2>1. /\ IsList(st) /\ Len(st) = Len(s) + Len(t)
        /\ Len(s) \in Nat /\ Len(t) \in Nat
        /\ \A i \in 1 .. Len(s) : st[i] = s[i]
    BY <1>1, ListsJoin
  <2>2. Len(st) \in Nat /\ Len(s) <= Len(st)
    BY <2>1
  <2>3. QED BY <2>1, <2>2
<1>3. PICK stu : stu = st \o u
  OBVIOUS
<1>4. /\ IsList(stu) /\ Len(stu) \in Nat /\ Len(st) <= Len(stu)
      /\ \A i \in 1 .. Len(st) : stu[i] = st[i]
  <2>1. /\ IsList(stu) /\ Len(stu) = Len(st) + Len(u)
        /\ Len(st) \in Nat /\ Len(u) \in Nat
        /\ \A i \in 1 .. Len(st) : stu[i] = st[i]
    BY <1>2, <1>3, ListsJoin
  <2>2. Len(stu) \in Nat /\ Len(st) <= Len(stu)
    BY <2>1
  <2>3. QED BY <2>1, <2>2
<1>5. Len(s) <= Len(stu) /\ \A i \in 1 .. Len(s) : stu[i] = s[i]
  BY <1>2, <1>4
<1>6. IsPrefix(s, stu)
  BY <1>4, <1>5, PrefixIs
<1>7. QED BY <1>1, <1>3, <1>4, <1>6

LEMMA PrefixOfMore ==
    ASSUME NEW s, IsList(s), NEW x
    PROVE  IsList(Append(s, x)) /\ IsPrefix(s, Append(s, x)) /\ IsPrefix(s, s)
<1>1. PICK S : s \in Seq(S)
  BY DEF IsList
<1>2. PICK U : U = S \cup {x}
  OBVIOUS
<1>3. s \in Seq(U) /\ x \in U /\ Len(s) \in Nat
  BY <1>1, <1>2
<1>4. /\ Append(s, x) \in Seq(U) /\ Len(Append(s, x)) = Len(s) + 1
      /\ \A i \in 1 .. Len(s) : Append(s, x)[i] = s[i]
  BY <1>3
<1>5. IsList(Append(s, x))
  BY <1>4 DEF IsList
<1>6. Len(s) <= Len(Append(s, x)) /\ Len(s) <= Len(s)
  BY <1>3, <1>4
<1>7. IsPrefix(s, Append(s, x))
  BY <1>4, <1>5, <1>6, PrefixIs
<1>8. IsPrefix(s, s)
  BY <1>6, PrefixIs
<1>9. QED BY <1>5, <1>7, <1>8

\* A set of at most two elements becomes a list of them.
LEMMA PairIsListed ==
    ASSUME NEW x, NEW y, NEW S \in SUBSET {x, y}
    PROVE  SetToSeq(S) \in Seq(S)
<1>1. IsFiniteSet({x, y})
  <2>1. IsFiniteSet({x})
    BY FS_Singleton
  <2>2. IsFiniteSet({x} \cup {y})
    BY <2>1, FS_AddElement
  <2>3. {x} \cup {y} = {x, y}
    OBVIOUS
  <2>4. QED BY <2>2, <2>3
<1>2. IsFiniteSet(S)
  BY <1>1, FS_Subset
<1>3. Cardinality(S) \in Nat /\ ExistsBijection(1 .. Cardinality(S), S)
  BY <1>2, FS_CardinalityType
<1>4. \E f \in [1 .. Cardinality(S) -> S] : IsInjective(f)
  BY <1>3 DEF ExistsBijection, Bijection, Injection
<1>5. SetToSeq(S) \in [1 .. Cardinality(S) -> S]
  BY <1>4 DEF SetToSeq
<1>6. QED BY <1>3, <1>5

LEMMA OneIsListed ==
    ASSUME NEW x
    PROVE  SetToSeq({x}) = <<x>> /\ SetToSeq({}) = <<>>
<1>1. PICK S : S = {x}
  OBVIOUS
<1>2. Cardinality(S) = 1 /\ IsFiniteSet(S)
  BY <1>1, FS_Singleton
<1>3. \A f \in [1 .. 1 -> S] : f = <<x>>
  BY <1>1
<1>4. SetToSeq(S) \in Seq(S)
  BY <1>1, PairIsListed
<1>5. SetToSeq(S) = <<x>>
  BY <1>2, FS_CardinalityType, <1>3 DEF ExistsBijection, Bijection, Injection, SetToSeq
<1>6. SetToSeq({}) = <<>>
  <2>1. SetToSeq({}) \in Seq({})
    BY PairIsListed
  <2>2. QED BY <2>1
<1>7. QED BY <1>1, <1>5, <1>6

-----------------------------------------------------------------------------
(* Lists of what happened at different times.                               *)

\* Newest first.
Falling(list) == \A i, j \in DOMAIN list : i < j => list[i].event > list[j].event

\* The entries before an entry are the newer ones.
NewerIn(C, p) == {o \in C : p.event < o.event}

LEMMA FallingMore ==
    ASSUME NEW list, NEW i \in Nat, i + 1 \in DOMAIN list, DOMAIN list = 1 .. Len(list),
           Len(list) \in Nat, Falling(list), NEW s, IsList(s), Falling(s),
           \A j \in DOMAIN s : s[j] \in {list[k] : k \in 1 .. i}
    PROVE  Falling(Append(s, list[i + 1]))
<1>1. PICK x, t : x = list[i + 1] /\ t = Append(s, x)
  OBVIOUS
<1>2. /\ t[Len(s) + 1] = x /\ Len(s) \in Nat
      /\ \A j \in DOMAIN s : t[j] = s[j]
      /\ DOMAIN s = 1 .. Len(s) /\ DOMAIN t = 1 .. Len(s) + 1
  BY <1>1, AppendedIs
<1>3. \A k \in 1 .. i : list[k].event > x.event
  BY <1>1 DEF Falling
<1>4. \A j \in DOMAIN s : t[j].event > x.event
  BY <1>2, <1>3
<1>5. ASSUME NEW j \in DOMAIN t, NEW k \in DOMAIN t, j < k PROVE t[j].event > t[k].event
  <2>1. j \in DOMAIN s /\ (k \in DOMAIN s \/ k = Len(s) + 1)
    BY <1>2, <1>5
  <2>2. CASE k \in DOMAIN s
    BY <1>2, <1>5, <2>1, <2>2 DEF Falling
  <2>3. CASE k = Len(s) + 1
    BY <1>2, <1>4, <2>1, <2>3
  <2>4. QED BY <2>1, <2>2, <2>3
<1>6. Falling(t)
  BY <1>5 DEF Falling
<1>7. QED BY <1>1, <1>6

LEMMA PlaceIs ==
    ASSUME NEW S, NEW list \in Seq(S), Falling(list), \A e \in Range(list) : e.event \in Nat,
           NEW m \in DOMAIN list
    PROVE  /\ Cardinality(NewerIn(Range(list), list[m])) = m - 1
           /\ IsFiniteSet(NewerIn(Range(list), list[m]))
<1>1. PICK n : n = Len(list)
  OBVIOUS
<1>2. n \in Nat /\ DOMAIN list = 1 .. n /\ m \in 1 .. n
  BY <1>1
<1>3. PICK k : k = m - 1
  OBVIOUS
<1>4. k \in Nat /\ \A j \in 1 .. k : j \in DOMAIN list /\ j < m
  BY <1>2, <1>3
<1>5. PICK N : N = NewerIn(Range(list), list[m])
  OBVIOUS
<1>6. \A j \in DOMAIN list : list[j].event \in Nat /\ list[j] \in Range(list)
  BY DEF Range
<1>7. PICK f : f = [j \in 1 .. k |-> list[j]]
  OBVIOUS
<1>8. \A j \in 1 .. k : f[j] \in N
  BY <1>4, <1>5, <1>6, <1>7 DEF Falling, NewerIn
<1>9. ASSUME NEW o \in N PROVE \E j \in 1 .. k : f[j] = o
  <2>1. PICK j \in DOMAIN list : list[j] = o
    BY <1>5 DEF NewerIn, Range
  <2>2. list[m].event < list[j].event
    BY <1>5, <2>1 DEF NewerIn
  <2>3. j < m
    <3>1. CASE j = m
      BY <1>6, <2>2, <3>1
    <3>2. CASE m < j
      BY <3>2, <1>6, <2>2 DEF Falling
    <3>3. QED BY <1>2, <3>1, <3>2
  <2>4. j \in 1 .. k
    BY <1>2, <1>3, <2>3
  <2>5. QED BY <1>7, <2>1, <2>4
<1>10. ASSUME NEW i \in 1 .. k, NEW j \in 1 .. k, i # j PROVE f[i] # f[j]
  <2>1. i \in DOMAIN list /\ j \in DOMAIN list /\ (i < j \/ j < i)
    BY <1>4, <1>10
  <2>2. list[i].event > list[j].event \/ list[j].event > list[i].event
    BY <2>1 DEF Falling
  <2>3. list[i] # list[j]
    BY <1>6, <2>1, <2>2
  <2>4. QED BY <1>7, <2>3
<1>11. f \in Bijection(1 .. k, N)
  BY <1>7, <1>8, <1>9, <1>10 DEF Bijection, Injection, Surjection, IsInjective
<1>12. ExistsBijection(1 .. k, N)
  BY <1>11 DEF ExistsBijection
<1>13. IsFiniteSet(1 .. k) /\ Cardinality(1 .. k) = k
  BY <1>4, FS_Interval
<1>14. IsFiniteSet(N) /\ Cardinality(N) = k
  BY <1>12, <1>13, FS_Bijection
<1>15. QED BY <1>3, <1>5, <1>14

LEMMA NewestFirst ==
    ASSUME NEW S, NEW list \in Seq(S), Falling(list), NEW x,
           \A p \in Range(list) : x.event > p.event, NEW more, more = <<x>> \o list
    PROVE  Falling(more)
<1>1. PICK n : n = Len(list)
  OBVIOUS
<1>2. n \in Nat /\ DOMAIN list = 1 .. n
  BY <1>1
<1>3. DOMAIN more = 1 .. n + 1 /\ more[1] = x
  BY <1>1, OneBefore
<1>4. \A i \in 1 .. n : more[i + 1] = list[i]
  BY <1>1, OneBefore
<1>5. ASSUME NEW i \in DOMAIN more, NEW j \in DOMAIN more, i < j
      PROVE  more[i].event > more[j].event
  <2>1. PICK l \in 1 .. n : j = l + 1
    <3>1. j - 1 \in 1 .. n /\ j = (j - 1) + 1
      BY <1>2, <1>3, <1>5
    <3>2. QED BY <3>1
  <2>2. more[j] = list[l] /\ list[l] \in Range(list)
    BY <1>2, <1>4, <2>1 DEF Range
  <2>3. CASE i = 1
    BY <1>3, <2>2, <2>3
  <2>4. CASE i # 1
    <3>1. PICK k \in 1 .. n : i = k + 1
      <4>1. i - 1 \in 1 .. n /\ i = (i - 1) + 1
        BY <1>2, <1>3, <2>4
      <4>2. QED BY <4>1
    <3>2. k < l
      BY <1>5, <2>1, <3>1
    <3>3. list[k].event > list[l].event
      BY <1>2, <3>2 DEF Falling
    <3>4. QED BY <1>4, <2>2, <3>1, <3>3
  <2>5. QED BY <2>3, <2>4
<1>6. QED BY <1>5 DEF Falling

=============================================================================
