---------------------------- MODULE CandleProofs ----------------------------
(***************************************************************************)
(* Proofs about CandleSync, for any processes, page limit, window and      *)
(* bounds: stored candles are never fetched again, a sync that has got     *)
(* through its gaps holds its range, and sync_state jumps over no hole.    *)
(***************************************************************************)
EXTENDS CandleSync, Basics

\* A process syncs while it holds the writer lock; what it asks for next is part of
\* its first gap, and new.
HolderInv ==
    \A p \in Procs :
        /\ pc[p] # "idle" <=> lock = p
        /\ pc[p] = "paging" =>
             /\ missing[p] # {}
             /\ request[p][1] .. request[p][2] \subseteq FirstGap(p) \ accepted[p]

\* What the holder knows of the rows.
GapInv ==
    \A p \in Procs : pc[p] # "idle" =>
        /\ missing[p] \subseteq want[p]
        /\ want[p] \ missing[p] \subseteq Present(stored)
        /\ pc[p] = "ranging" => \A t \in missing[p] : stored[t] = Absent
        /\ pc[p] = "paging" =>
             /\ accepted[p] \subseteq Present(stored)
             /\ \A t \in missing[p] \ accepted[p] : stored[t] = Absent

IInv == TypeOK /\ HolderInv /\ GapInv /\ RevisionsNeverClash

-----------------------------------------------------------------------------
(* Least and greatest minutes.                                              *)

\* A set of minutes that is not empty has a greatest element.
LEMMA LatestIsGreatest ==
    ASSUME NEW S \in SUBSET Minutes, S # {}
    PROVE  Max(S) \in S /\ \A t \in S : Max(S) >= t
BY MaxIsGreatest, CandleAssumption DEF Minutes

\* The first gap is a run of missing minutes without a hole in it.
LEMMA FirstGapIsRange ==
    ASSUME NEW p \in Procs, missing[p] \in SUBSET Minutes, missing[p] # {}
    PROVE  /\ FirstGap(p) \in SUBSET missing[p]
           /\ FirstGap(p) # {}
           /\ Min(FirstGap(p)) \in Minutes /\ Max(FirstGap(p)) \in Minutes
           /\ Min(FirstGap(p)) .. Max(FirstGap(p)) \subseteq FirstGap(p)
<1> DEFINE start == Min(missing[p])
           G == FirstGap(p)
<1>1. start \in missing[p] /\ \A t \in missing[p] : start <= t
  BY MinIsLeast, CandleAssumption DEF Minutes
<1>2. G \in SUBSET missing[p] /\ G \in SUBSET Minutes
  BY DEF FirstGap
<1>3. start \in G
  BY <1>1, CandleAssumption DEF FirstGap, Minutes
<1>4. Max(G) \in G /\ \A t \in G : Max(G) >= t
  BY <1>2, <1>3, LatestIsGreatest
<1>5. Min(G) \in G /\ \A t \in G : Min(G) <= t
  <2>1. G \in SUBSET Nat
    BY <1>2, CandleAssumption DEF Minutes
  <2>2. QED BY <2>1, <1>3, MinIsLeast
<1>6. start .. Max(G) \subseteq missing[p]
  BY <1>4 DEF FirstGap
<1>7. start <= Min(G) /\ start \in Int /\ Min(G) \in Int /\ Max(G) \in Int
  BY <1>1, <1>2, <1>4, <1>5, CandleAssumption DEF Minutes
<1>8. ASSUME NEW t \in Min(G) .. Max(G)
      PROVE  t \in G
  <2>1. t \in start .. Max(G) /\ start .. t \subseteq start .. Max(G)
    BY <1>7
  <2>2. QED BY <2>1, <1>6 DEF FirstGap
<1>9. QED BY <1>2, <1>3, <1>4, <1>5, <1>8

-----------------------------------------------------------------------------
(* The steps that fetch nothing.                                            *)

LEMMA InitHolds == Init => IInv
<1> SUFFICES ASSUME Init PROVE IInv
  OBVIOUS
<1> USE CandleAssumption DEF Init
<1>1. \A p \in Procs : pc[p] = "idle"
  OBVIOUS
<1>2. 0 \in Minutes
  BY DEF Minutes
<1>3. request \in [Procs -> Minutes \X Minutes]
  BY <1>2
<1>4. pc \in [Procs -> {"idle", "ranging", "paging"}]
  OBVIOUS
<1>5. TypeOK
  <2>1. market = [t \in Minutes |-> Absent] /\ stored = [t \in Minutes |-> Absent]
    OBVIOUS
  <2>2. /\ market \in [Minutes -> 0 .. revisions \cup {Absent}]
        /\ stored \in [Minutes -> Versions \cup {Absent}]
    BY <2>1
  <2>3. /\ revisions \in 0 .. MaxRevisions
        /\ crashes \in 0 .. MaxCrashes
        /\ ranges \in 0 .. MaxRanges
    OBVIOUS
  <2>4. /\ provider \in Providers
        /\ closed \in History - 1 .. MaxMinute
        /\ synced \in Minutes \cup {NoMinute}
        /\ lock \in Procs \cup {NoProc}
        /\ clash \in BOOLEAN
    OBVIOUS
  <2>5. /\ want \in [Procs -> SUBSET Minutes]
        /\ missing \in [Procs -> SUBSET Minutes]
        /\ accepted \in [Procs -> SUBSET Minutes]
    OBVIOUS
  <2>6. QED BY <1>3, <1>4, <2>2, <2>3, <2>4, <2>5 DEF TypeOK
<1>6. QED BY <1>1, <1>5 DEF IInv, HolderInv, GapInv, RevisionsNeverClash

\* Whatever ends a sync, what it knew dies with it.
LEMMA LeaveKeeps ==
    ASSUME IInv, NEW p \in Procs, pc[p] # "idle", Leave(p),
           UNCHANGED <<marketVars, stored, synced>>, clash' = FALSE,
           crashes' \in 0 .. MaxCrashes, ranges' = ranges
    PROVE  IInv'
<1> USE DEF IInv, Leave, marketVars
<1>1. \A q \in Procs : pc'[q] = "idle" /\ lock' # q
  BY CandleAssumption DEF TypeOK, HolderInv
<1>2. 0 \in Minutes
  BY CandleAssumption DEF Minutes
<1>3. request' \in [Procs -> Minutes \X Minutes]
  BY <1>2 DEF TypeOK
<1>4. TypeOK'
  BY <1>3 DEF TypeOK
<1>5. QED BY <1>1, <1>4 DEF HolderInv, GapInv, RevisionsNeverClash

\* The exchange touches nothing that is stored or in hand.
LEMMA ExchangeKeeps ==
    ASSUME IInv, Exchange
    PROVE  IInv'
<1> USE CandleAssumption DEF IInv
<1> DEFINE Typed ==
        /\ provider' = provider /\ crashes' = crashes /\ ranges' = ranges
        /\ closed' \in History - 1 .. MaxMinute
        /\ market' \in [Minutes -> 0 .. revisions' \cup {Absent}]
        /\ revisions' \in 0 .. MaxRevisions
<1>1. UNCHANGED <<stored, synced, lock, procVars, clash>>
  BY DEF Exchange, CloseMinute, Publish, Revise
<1>2. HolderInv' /\ GapInv' /\ RevisionsNeverClash'
  BY <1>1 DEF HolderInv, GapInv, RevisionsNeverClash, procVars, FirstGap
<1>3. Typed
  <2>1. CASE CloseMinute
    BY <2>1 DEF CloseMinute, TypeOK
  <2>2. CASE \E t \in Minutes : Publish(t)
    <3>1. 0 \in 0 .. revisions
      BY DEF TypeOK
    <3>2. QED BY <2>2, <3>1 DEF Publish, TypeOK
  <2>3. ASSUME NEW t \in Minutes, Revise(t)
        PROVE  Typed
    <3>1. market[t] \in 0 .. revisions /\ revisions' = revisions + 1
      BY <2>3 DEF Revise, TypeOK
    <3>2. market[t] + 1 \in 0 .. revisions' /\ 0 .. revisions \subseteq 0 .. revisions'
      BY <3>1 DEF TypeOK
    <3>3. market' \in [Minutes -> 0 .. revisions' \cup {Absent}]
      BY <2>3, <3>2 DEF Revise, TypeOK
    <3>4. QED BY <2>3, <3>3 DEF Revise, TypeOK
  <2>4. QED BY <2>1, <2>2, <2>3 DEF Exchange
<1>4. TypeOK'
  BY <1>1, <1>3 DEF TypeOK, procVars
<1>5. QED BY <1>2, <1>4

\* A sync begins with the minutes no row holds.
LEMMA BeginKeeps ==
    ASSUME IInv, NEW p \in Procs, NEW minutes \in SUBSET Minutes, Begin(p, minutes),
           ranges' \in 0 .. MaxRanges
    PROVE  IInv'
<1> USE DEF IInv, Begin, marketVars
<1>1. Lacks(minutes) \in SUBSET minutes
  BY DEF Lacks
<1>2. TypeOK'
  BY <1>1 DEF TypeOK
<1>3. \A t \in minutes \ Lacks(minutes) : t \in Present(stored)
  BY DEF Lacks, Present
<1>4. lock' = p /\ \A q \in Procs : pc'[q] = IF q = p THEN "ranging" ELSE "idle"
  BY CandleAssumption DEF TypeOK, HolderInv
<1>5. HolderInv'
  BY <1>4 DEF HolderInv
<1>6. GapInv'
  BY <1>1, <1>3, <1>4 DEF TypeOK, GapInv, Lacks, Present
<1>7. QED BY <1>2, <1>5, <1>6 DEF RevisionsNeverClash

\* A range to fetch is a gap, and nothing of it is stored.
LEMMA NextRangeKeeps ==
    ASSUME IInv, NEW p \in Procs, NextRange(p)
    PROVE  IInv'
<1> USE DEF IInv, NextRange, marketVars
<1>1. missing[p] \in SUBSET Minutes /\ missing[p] # {}
  BY DEF TypeOK
<1>2. /\ FirstGap(p) \in SUBSET missing[p]
      /\ Min(FirstGap(p)) \in Minutes /\ Max(FirstGap(p)) \in Minutes
      /\ Min(FirstGap(p)) .. Max(FirstGap(p)) \subseteq FirstGap(p)
  BY <1>1, FirstGapIsRange
<1>3. \A q \in Procs : pc'[q] = IF q = p THEN "paging" ELSE pc[q]
  BY DEF TypeOK
<1>4. FirstGap(p)' = FirstGap(p)
  BY DEF FirstGap
<1>5. request'[p] = <<Min(FirstGap(p)), Max(FirstGap(p))>> /\ accepted'[p] = {}
  BY DEF TypeOK
<1>6. request'[p][1] .. request'[p][2] \subseteq FirstGap(p)' \ accepted'[p]
  BY <1>2, <1>4, <1>5
<1>7. \A q \in Procs \ {p} : pc[q] = "idle"
  BY DEF HolderInv
<1>8. TypeOK'
  <2>1. request' \in [Procs -> Minutes \X Minutes]
    BY <1>2 DEF TypeOK
  <2>2. QED BY <2>1 DEF TypeOK
<1>9. HolderInv'
  BY <1>1, <1>3, <1>6, <1>7 DEF HolderInv
<1>10. GapInv'
  BY <1>3, <1>5, <1>7 DEF GapInv
<1>11. QED BY <1>8, <1>9, <1>10 DEF RevisionsNeverClash

-----------------------------------------------------------------------------
(* A page.                                                                  *)

\* The rows of a page are candles the exchange has, and none of them is stored.
LEMMA PageIsNew ==
    ASSUME IInv, NEW p \in Procs, pc[p] = "paging", NEW n \in Nat,
           NEW page, page = Rows(request[p][1], request[p][2], n)
                              \cap (request[p][1] .. request[p][2])
    PROVE  /\ page \in SUBSET Present(market)
           /\ page \in SUBSET (FirstGap(p) \ accepted[p])
           /\ \A t \in page : stored[t] = Absent
<1>1. page \in SUBSET Present(market)
  BY DEF Rows
<1>2. page \in SUBSET (FirstGap(p) \ accepted[p])
  BY DEF IInv, HolderInv
<1>3. FirstGap(p) \in SUBSET missing[p]
  BY DEF FirstGap
<1>4. QED BY <1>1, <1>2, <1>3 DEF IInv, GapInv

\* No page disagrees with a row.
LEMMA NoClash ==
    ASSUME NEW page, \A t \in page : stored[t] = Absent
    PROVE  ~Clashes(page)
BY DEF Clashes

\* What is left of a range after a page begins behind the page.
LEMMA RemainingIsNew ==
    ASSUME NEW from \in Minutes, NEW to \in Minutes, NEW rows,
           NEW page \in SUBSET (from .. to), page # {}, ~PageEnds(rows, page, from, to)
    PROVE  /\ Remaining(page, from, to) \in Minutes \X Minutes
           /\ Remaining(page, from, to)[1] .. Remaining(page, from, to)[2]
                \subseteq (from .. to) \ page
<1>0. from \in Int /\ to \in Int /\ page \in SUBSET Minutes /\ page \in SUBSET Nat
  BY CandleAssumption DEF Minutes
<1>1. CASE Ascending
  <2> DEFINE m == Max(page)
  <2>1. m \in page /\ \A t \in page : m >= t
    BY <1>0, LatestIsGreatest
  <2>2. PageEnds(rows, page, from, to) <=> m + 1 > to
    BY <1>1 DEF PageEnds
  <2>3. Remaining(page, from, to) = <<m + 1, to>>
    BY <1>1 DEF Remaining
  <2> HIDE DEF m
  <2>4. m \in Nat /\ from <= m
    BY <1>0, <2>1
  <2>5. m + 1 <= to
    BY <1>0, <2>2, <2>4
  <2>6. m + 1 \in Minutes
    BY <1>0, <2>4, <2>5, CandleAssumption DEF Minutes
  <2>7. ASSUME NEW t \in m + 1 .. to
        PROVE  t \in (from .. to) \ page
    <3>1. t \in Int /\ t > m /\ from <= t /\ t <= to
      BY <1>0, <2>4
    <3>2. t \notin page
      BY <2>1, <2>4, <3>1
    <3>3. QED BY <1>0, <3>1, <3>2
  <2>8. QED BY <2>3, <2>6, <2>7
<1>2. CASE ~Ascending
  <2> DEFINE m == Min(page)
  <2>1. m \in page /\ \A t \in page : m <= t
    BY <1>0, MinIsLeast
  <2>2. m <= from => PageEnds(rows, page, from, to)
    BY <1>2 DEF PageEnds
  <2>3. Remaining(page, from, to) = <<from, m - 1>>
    BY <1>2 DEF Remaining
  <2> HIDE DEF m
  <2>4. m \in Nat /\ m <= to
    BY <1>0, <2>1
  <2>5. from < m
    BY <1>0, <2>2, <2>4
  <2>6. m - 1 \in Minutes
    BY <1>0, <2>4, <2>5, CandleAssumption DEF Minutes
  <2>7. ASSUME NEW t \in from .. m - 1
        PROVE  t \in (from .. to) \ page
    <3>1. t \in Int /\ t < m /\ from <= t /\ t <= to
      BY <1>0, <2>4
    <3>2. t \notin page
      BY <2>1, <2>4, <3>1
    <3>3. QED BY <1>0, <3>1, <3>2
  <2>8. QED BY <2>3, <2>6, <2>7
<1>3. QED BY <1>1, <1>2

\* The recorded prefix advances to a minute, over stored minutes only.
LEMMA AdvanceSkipsNoGap ==
    ASSUME NEW table, NEW required \in Minutes, synced \in Minutes \cup {NoMinute}
    PROVE  /\ Advanced(table, required) \in Minutes \cup {NoMinute}
           /\ synced # NoMinute /\ Advanced(table, required) # synced =>
                /\ Advanced(table, required) > synced
                /\ synced + 1 .. Advanced(table, required) \subseteq Present(table)
<1> DEFINE S == Prefix(table, required) \cup ({synced} \ {NoMinute})
<1>1. CASE JoinsPrefix(required) /\ Prefix(table, required) # {}
  <2>1. S \in SUBSET Minutes /\ S # {}
    BY <1>1 DEF Prefix
  <2>2. Max(S) \in S /\ \A t \in S : Max(S) >= t
    <3> HIDE DEF S
    <3>1. QED BY <2>1, LatestIsGreatest
  <2>3. Advanced(table, required) = Max(S)
    BY <1>1 DEF Advanced
  <2>4. ASSUME synced # NoMinute, Max(S) # synced
        PROVE  Max(S) > synced /\ synced + 1 .. Max(S) \subseteq Present(table)
    <3>1. synced \in S /\ Max(S) \in Prefix(table, required)
      BY <2>2, <2>4
    <3>2. synced \in Int /\ Max(S) \in Int /\ required \in Int
      BY <2>1, <2>2, <2>4, CandleAssumption DEF Minutes
    <3>3. Max(S) > synced
      BY <2>2, <2>4, <3>1, <3>2
    <3>4. required .. Max(S) \subseteq Present(table)
      BY <3>1 DEF Prefix
    <3>5. synced + 1 >= required
      BY <1>1, <2>4 DEF JoinsPrefix
    <3>6. QED BY <3>2, <3>3, <3>4, <3>5
  <2>5. QED BY <2>1, <2>2, <2>3, <2>4
<1>2. CASE ~(JoinsPrefix(required) /\ Prefix(table, required) # {})
  BY <1>2 DEF Advanced
<1>3. QED BY <1>1, <1>2

\* A page that is stored leaves the range with what it still lacks, or done.
LEMMA StorePageKeeps ==
    ASSUME IInv, NEW p \in Procs, pc[p] = "paging", NEW rows, NEW page,
           page \in SUBSET Present(market), page # {},
           page \in SUBSET (request[p][1] .. request[p][2]),
           page \in SUBSET (FirstGap(p) \ accepted[p]),
           StorePage(p, rows, page),
           clash' = FALSE, UNCHANGED <<marketVars, crashes, ranges>>
    PROVE  IInv'
<1> USE DEF IInv, marketVars
<1> DEFINE from == request[p][1]
           to == request[p][2]
           table == [t \in Minutes |-> IF t \in page THEN market[t] ELSE stored[t]]
<1>1. from \in Minutes /\ to \in Minutes
  BY DEF TypeOK
<1>2. missing[p] \in SUBSET Minutes /\ missing[p] # {}
  BY DEF TypeOK, HolderInv
<1>3. FirstGap(p) \in SUBSET missing[p] /\ Min(FirstGap(p)) \in Minutes
  BY <1>2, FirstGapIsRange
<1>4. stored' = table /\ synced' = Advanced(table, Min(FirstGap(p)))
  BY DEF StorePage
<1>5. synced' \in Minutes \cup {NoMinute}
  BY <1>3, <1>4, AdvanceSkipsNoGap DEF TypeOK
<1>6. stored' \in [Minutes -> Versions \cup {Absent}]
  <2>1. 0 .. revisions \subseteq Versions
    BY CandleAssumption DEF TypeOK, Versions
  <2>2. QED BY <1>4, <2>1 DEF TypeOK
<1>7. Present(stored') = Present(stored) \cup page
  BY <1>3, <1>4 DEF Present
<1>8. \A t \in Minutes \ page : stored'[t] = stored[t]
  BY <1>4
<1>9. \A q \in Procs \ {p} : pc[q] = "idle"
  BY DEF HolderInv
<1>10. /\ missing[p] \subseteq want[p]
       /\ want[p] \ missing[p] \subseteq Present(stored)
       /\ accepted[p] \subseteq Present(stored)
       /\ \A t \in missing[p] \ accepted[p] : stored[t] = Absent
       /\ from .. to \subseteq FirstGap(p) \ accepted[p]
       /\ lock = p
  BY DEF GapInv, HolderInv
<1>11. CASE /\ PageEnds(rows, page, from, to)
            /\ RangeIsWhole(p, page)
            /\ pc' = [pc EXCEPT ![p] = "ranging"]
            /\ missing' = [missing EXCEPT ![p] = @ \ FirstGap(p)]
            /\ UNCHANGED <<lock, want, request, accepted>>
  <2>1. accepted[p] \cup page = FirstGap(p)
    BY <1>11 DEF RangeIsWhole
  <2>2. \A q \in Procs : pc'[q] = IF q = p THEN "ranging" ELSE pc[q]
    BY <1>11 DEF TypeOK
  <2>3. TypeOK' /\ HolderInv'
    <3>1. TypeOK'
      BY <1>5, <1>6, <1>11 DEF TypeOK
    <3>2. HolderInv'
      BY <1>9, <1>10, <1>11, <2>2 DEF HolderInv
    <3>3. QED BY <3>1, <3>2
  <2>4. missing'[p] = missing[p] \ FirstGap(p) /\ want' = want
    BY <1>11 DEF TypeOK
  <2>5. want[p] \ missing'[p] \subseteq Present(stored')
    BY <1>3, <1>7, <1>10, <2>1, <2>4
  <2>6. \A t \in missing'[p] : stored'[t] = Absent
    BY <1>2, <1>8, <1>10, <2>1, <2>4
  <2>7. GapInv'
    BY <1>3, <1>9, <1>10, <2>2, <2>4, <2>5, <2>6 DEF GapInv
  <2>8. QED BY <2>3, <2>7 DEF RevisionsNeverClash
<1>12. CASE Leave(p)
  <2>1. \A q \in Procs : pc'[q] = "idle" /\ lock' # q
    BY <1>9, <1>12, CandleAssumption DEF Leave, TypeOK
  <2>2. request' \in [Procs -> Minutes \X Minutes]
    <3>1. 0 \in Minutes
      BY CandleAssumption DEF Minutes
    <3>2. QED BY <1>12, <3>1 DEF Leave, TypeOK
  <2>3. TypeOK'
    BY <1>5, <1>6, <1>12, <2>2 DEF TypeOK, Leave
  <2>4. QED BY <2>1, <2>3 DEF HolderInv, GapInv, RevisionsNeverClash
<1>13. CASE /\ ~PageEnds(rows, page, from, to)
            /\ request' = [request EXCEPT ![p] = Remaining(page, from, to)]
            /\ accepted' = [accepted EXCEPT ![p] = @ \cup page]
            /\ UNCHANGED <<lock, pc, want, missing>>
  <2>1. /\ Remaining(page, from, to) \in Minutes \X Minutes
        /\ Remaining(page, from, to)[1] .. Remaining(page, from, to)[2]
             \subseteq (from .. to) \ page
    BY <1>1, <1>13, RemainingIsNew
  <2>2. request'[p] = Remaining(page, from, to) /\ accepted'[p] = accepted[p] \cup page
    BY <1>13 DEF TypeOK
  <2>3. FirstGap(p)' = FirstGap(p)
    BY <1>13 DEF FirstGap
  <2>4. request'[p][1] .. request'[p][2] \subseteq FirstGap(p)' \ accepted'[p]
    BY <1>10, <2>1, <2>2, <2>3
  <2>5. \A q \in Procs : pc'[q] = "paging" => q = p
    BY <1>9, <1>13
  <2>6. request' \in [Procs -> Minutes \X Minutes]
    BY <1>13, <2>1 DEF TypeOK
  <2>7. accepted' \in [Procs -> SUBSET Minutes]
    BY <1>2, <1>3, <1>13 DEF TypeOK
  <2>8. TypeOK' /\ HolderInv'
    <3>1. TypeOK'
      BY <1>5, <1>6, <1>13, <2>6, <2>7 DEF TypeOK
    <3>2. HolderInv'
      BY <1>2, <1>13, <2>4, <2>5 DEF HolderInv
    <3>3. QED BY <3>1, <3>2
  <2>9. accepted'[p] \subseteq Present(stored')
    BY <1>7, <1>10, <2>2
  <2>10. \A t \in missing[p] \ accepted'[p] : stored'[t] = Absent
    BY <1>2, <1>8, <1>10, <2>2
  <2>11. GapInv'
    BY <1>7, <1>9, <1>10, <1>13, <2>9, <2>10 DEF GapInv
  <2>12. QED BY <2>8, <2>11 DEF RevisionsNeverClash
<1>14. QED BY <1>11, <1>12, <1>13 DEF StorePage

\* A page the adapter answers with, whatever it is.
LEMMA FetchKeeps ==
    ASSUME IInv, NEW p \in Procs, NEW n \in Nat, Fetch(p, n)
    PROVE  IInv'
<1> DEFINE from == request[p][1]
           to == request[p][2]
           rows == Rows(from, to, n)
           page == rows \cap (from .. to)
<1>1. pc[p] = "paging"
  BY DEF Fetch
<1>2. /\ page \in SUBSET Present(market)
      /\ page \in SUBSET (FirstGap(p) \ accepted[p])
      /\ \A t \in page : stored[t] = Absent
  <2>1. page = Rows(from, to, n) \cap (from .. to)
    OBVIOUS
  <2> HIDE DEF page
  <2>2. QED BY <1>1, <2>1, PageIsNew
<1>3. ~Clashes(page)
  BY <1>2, NoClash
<1>4. clash' = FALSE /\ UNCHANGED <<marketVars, crashes, ranges>>
  BY <1>3 DEF Fetch, IInv, RevisionsNeverClash, TypeOK
<1>5. CASE PageIsSound(page)
  <2>1. StorePage(p, rows, page) /\ page # {}
    BY <1>3, <1>5 DEF Fetch, PageIsSound
  <2>2. page \in SUBSET (from .. to)
    OBVIOUS
  <2> HIDE DEF rows, page
  <2>3. QED BY <1>1, <1>2, <1>4, <2>1, <2>2, StorePageKeeps
<1>6. CASE ~PageIsSound(page)
  <2>1. Leave(p) /\ UNCHANGED <<stored, synced>>
    BY <1>6 DEF Fetch
  <2>2. crashes' \in 0 .. MaxCrashes
    BY <1>4 DEF IInv, TypeOK
  <2>3. QED BY <1>1, <1>4, <2>1, <2>2, LeaveKeeps
<1>7. QED BY <1>5, <1>6

-----------------------------------------------------------------------------
(* The theorems.                                                            *)

\* A run's window lies within the minutes.
LEMMA RunKeeps ==
    ASSUME IInv, NEW p \in Procs, BeginRun(p)
    PROVE  IInv'
<1>1. closed - (History - 1) .. closed \in SUBSET Minutes
  BY CandleAssumption DEF IInv, TypeOK, Minutes
<1>2. Begin(p, closed - (History - 1) .. closed) /\ ranges' \in 0 .. MaxRanges
  BY DEF BeginRun, IInv, TypeOK
<1>3. QED BY <1>1, <1>2, BeginKeeps

LEMMA RangeKeeps ==
    ASSUME IInv, NEW p \in Procs, NEW first \in Minutes, NEW last \in Minutes,
           BeginRange(p, first, last)
    PROVE  IInv'
<1>1. first .. last \in SUBSET Minutes
  BY CandleAssumption DEF Minutes
<1>2. Begin(p, first .. last) /\ ranges' \in 0 .. MaxRanges
  BY CandleAssumption DEF BeginRange, IInv, TypeOK
<1>3. QED BY <1>1, <1>2, BeginKeeps

\* A sync that ends, fails or dies.
LEMMA EndKeeps ==
    ASSUME IInv, NEW p \in Procs, FetchFails(p) \/ Finish(p) \/ Crash(p)
    PROVE  IInv'
<1>1. pc[p] # "idle" /\ Leave(p) /\ UNCHANGED <<marketVars, stored, synced>>
  BY DEF FetchFails, Finish, Crash
<1>2. clash' = FALSE
  BY DEF FetchFails, Finish, Crash, IInv, RevisionsNeverClash, TypeOK
<1>3. crashes' \in 0 .. MaxCrashes /\ ranges' = ranges
  BY CandleAssumption DEF FetchFails, Finish, Crash, IInv, TypeOK
<1>4. QED BY <1>1, <1>2, <1>3, LeaveKeeps

LEMMA StepKeeps == IInv /\ [Next]_vars => IInv'
<1> SUFFICES ASSUME IInv, [Next]_vars PROVE IInv'
  OBVIOUS
<1>1. CASE Exchange
  BY <1>1, ExchangeKeeps
<1>2. ASSUME NEW p \in Procs, Sync(p)
      PROVE  IInv'
  <2>1. CASE BeginRun(p)
    BY <2>1, RunKeeps
  <2>2. CASE \E first, last \in Minutes : first <= last /\ BeginRange(p, first, last)
    BY <2>2, RangeKeeps
  <2>3. CASE NextRange(p)
    BY <2>3, NextRangeKeeps
  <2>4. CASE \E n \in 0 .. PageLimit : Fetch(p, n)
    <3>1. PICK n \in 0 .. PageLimit : Fetch(p, n)
      BY <2>4
    <3>2. n \in Nat
      BY CandleAssumption
    <3>3. QED BY <3>1, <3>2, FetchKeeps
  <2>5. CASE FetchFails(p) \/ Finish(p) \/ Crash(p)
    BY <2>5, EndKeeps
  <2>6. QED BY <1>2, <2>1, <2>2, <2>3, <2>4, <2>5 DEF Sync, Continue
<1>3. CASE UNCHANGED vars
  BY <1>3 DEF vars, marketVars, procVars, IInv, TypeOK, HolderInv, GapInv,
     RevisionsNeverClash, FirstGap
<1>4. QED BY <1>1, <1>2, <1>3 DEF Next

\* The invariant: one process syncs, what it still lacks is not stored, what it has
\* is, and no page has met a row.  (market_sync.py, store_candle_page)
THEOREM Invariance == Spec => []IInv
<1>1. Init => IInv
  BY InitHolds
<1>2. IInv /\ [Next]_vars => IInv'
  BY StepKeeps
<1>3. QED BY <1>1, <1>2, PTL DEF Spec

\* Every variable of the candle store keeps its type.
THEOREM TypeCorrect == Spec => []TypeOK
<1>1. IInv => TypeOK
  BY DEF IInv
<1>2. QED BY <1>1, Invariance, PTL

\* A candle that is stored is never fetched again, so a revision by the exchange
\* never ends a sync with SOURCE_CONFLICT.  (_missing_ranges, store_candle_page)
THEOREM StoredIsNotRefetched == Spec => []RevisionsNeverClash
<1>1. IInv => RevisionsNeverClash
  BY DEF IInv
<1>2. QED BY <1>1, Invariance, PTL

\* A sync that has got through its gaps holds all it was asked for, whatever pages
\* the exchange answered with and whoever stored the rest.  (market_sync.py)
THEOREM SyncedRangeIsWhole == Spec => []FinishedRangeIsWhole
<1>1. IInv => FinishedRangeIsWhole
  BY DEF IInv, GapInv, FinishedRangeIsWhole
<1>2. QED BY <1>1, Invariance, PTL

\* One step moves sync_state upwards over stored minutes, or not at all.
LEMMA StepSkipsNoGap ==
    ASSUME IInv, [Next]_vars, synced # NoMinute, synced' # synced
    PROVE  synced' > synced /\ synced + 1 .. synced' \subseteq Present(stored')
<1>1. PICK p \in Procs, n \in 0 .. PageLimit : Fetch(p, n)
  BY DEF Next, Exchange, CloseMinute, Publish, Revise, Sync, BeginRun, BeginRange, Begin,
     Continue, NextRange, FetchFails, Finish, Crash, vars
<1>2. missing[p] \in SUBSET Minutes /\ missing[p] # {}
  BY <1>1 DEF Fetch, IInv, TypeOK, HolderInv
<1>3. Min(FirstGap(p)) \in Minutes
  BY <1>2, FirstGapIsRange
<1>4. PICK rows, page : StorePage(p, rows, page)
  BY <1>1 DEF Fetch
<1>5. synced' = Advanced(stored', Min(FirstGap(p)))
  BY <1>4 DEF StorePage
<1>6. synced \in Minutes \cup {NoMinute}
  BY DEF IInv, TypeOK
<1>7. QED BY <1>3, <1>5, <1>6, AdvanceSkipsNoGap

\* sync_state never jumps over a hole, whatever order pages and gaps come in, and
\* never moves back.  (_advance_sync_state)
THEOREM PrefixIsWhole == Spec => SyncStateSkipsNoGap
<1>1. IInv /\ [Next]_vars =>
        [synced # NoMinute /\ synced' # synced =>
           synced' > synced /\ synced + 1 .. synced' \subseteq Present(stored')]_vars
  BY StepSkipsNoGap
<1>2. QED BY <1>1, Invariance, PTL DEF Spec, SyncStateSkipsNoGap
=============================================================================
