--------------------------- MODULE BacktestProofs ---------------------------
(***************************************************************************)
(* Backtests implement Publication, only killed ones leave anything behind *)
(* and a replay sees what a live run sees, for any commands, periods,      *)
(* timeframes, histories, crashes and edits.                               *)
(***************************************************************************)
EXTENDS Backtest, Basics

Labels == {"idle", "locking", "syncing", "snapshot", "replay", "simulate",
           "writing", "sealing", "checking", "comparing", "renaming", "linking",
           "done", "failed", "crashed"}
Reports == [status : {"NONE", "SUCCEEDED", "EXISTING_IDENTICAL", "RAISED"},
            id : Periods \cup {None}]

TypeOK ==
    /\ pc \in [Procs -> Labels]
    /\ staging \in [Procs -> Directories \cup {None}]
    /\ answer \in [Procs -> Reports]
    /\ results \in [Periods -> {None, Whole, Edited}]
    /\ period \in [Procs -> Periods \cup {None}]
    /\ workspace \subseteq Procs
    /\ linked \subseteq Periods

\* A command at work knows its period and has not reported; only between taking and
\* releasing the lock does it hold it.
WorkInv ==
    \A p \in Procs :
        /\ pc[p] \notin {"idle", "done", "failed", "crashed"} => period[p] \in Periods
        /\ pc[p] \notin {"done", "failed", "crashed"} => answer[p] = Silent
        /\ lock = p => pc[p] \in {"syncing", "snapshot"}

\* What the staging directory holds at each step, and when there is none.
StagingInv ==
    \A p \in Procs :
        /\ pc[p] \in {"idle", "done", "failed"} => p \notin workspace
        /\ pc[p] \in {"idle", "done", "failed", "linking"} => staging[p] = None
        /\ pc[p] = "writing" =>
             \E k \in 0 .. Len(Artifacts) - 1 : staging[p] = Directory(k, FALSE)
        /\ pc[p] = "sealing" => staging[p] = Directory(Len(Artifacts), FALSE)
        /\ pc[p] \in {"checking", "comparing", "renaming"} => staging[p] = Whole

\* What is linked stays; a success is of something linked; what waits for its link is
\* there, waits for one command alone and is no success yet.
Success(id) == [status |-> "SUCCEEDED", id |-> id]
ResultInv ==
    /\ \A d \in linked : results[d] # None
    /\ \A p \in Procs, d \in Periods : answer[p] = Success(d) => d \in linked
    /\ \A p \in Procs : pc[p] = "linking" =>
         /\ results[period[p]] # None
         /\ \A q \in Procs : answer[q] # Success(period[p])
         /\ \A q \in Procs : pc[q] = "linking" /\ q # p => period[q] # period[p]

\* A command at work has a period with a whole history before it; one that has
\* replayed its snapshot had every minute of the range in it.
ReplayInv ==
    /\ rows \in SUBSET Int
    /\ snapshot \in [Procs -> SUBSET Int]
    /\ \A p \in Procs :
         /\ pc[p] \notin {"idle", "done", "failed", "crashed"} => period[p].start >= History
         /\ pc[p] = "simulate" => Loaded(p) = Required(period[p])

IInv == TypeOK /\ WorkInv /\ StagingInv /\ ResultInv /\ ReplayInv

-----------------------------------------------------------------------------
\* Directories hold what was written to them and are never mistaken for none.
LEMMA ArtifactsAre == Len(Artifacts) = 6
BY DEF Artifacts

LEMMA DirectoryIs ==
    ASSUME NEW k \in 0 .. Len(Artifacts), NEW sealed \in BOOLEAN
    PROVE  /\ Directory(k, sealed) \in Directories
           /\ Len(Directory(k, sealed).artifacts) = k
           /\ Directory(k, sealed).sealed = sealed
           /\ Directory(k, sealed) # None
<1>1. Directory(k, sealed) \in Directories /\ Directory(k, sealed).sealed = sealed
  BY DEF Directories, Directory
<1>2. Len(SubSeq(Artifacts, 1, k)) = k
  <2> DEFINE S == {Artifacts[i] : i \in 1 .. k}
  <2>1. k \in Int /\ 0 <= k
    BY ArtifactsAre
  <2>2. \A i \in 1 .. k : Artifacts[i] \in S
    OBVIOUS
  <2>3. Len(SubSeq(Artifacts, 1, k)) = IF 1 <= k THEN k - 1 + 1 ELSE 0
    BY <2>1, <2>2, SubSeqProperties
  <2>4. QED BY <2>1, <2>3
<1>3. QED BY <1>1, <1>2, IdentityAssumption DEF Directory

LEMMA WholeIs ==
    /\ Whole \in Directories /\ Whole = Directory(Len(Artifacts), TRUE)
    /\ Whole # None /\ Edited # None
    /\ Whole.sealed /\ Edited.sealed
<1>1. Whole \in Directories /\ Whole.sealed = TRUE /\ Whole # None
  <2>1. Len(Artifacts) \in 0 .. Len(Artifacts) /\ TRUE \in BOOLEAN
    BY ArtifactsAre
  <2>2. QED BY <2>1, DirectoryIs DEF Whole
<1>2. Edited.sealed = Whole.sealed
  BY DEF Edited, Whole, Directory
<1>3. QED BY <1>1, <1>2, IdentityAssumption DEF Whole

LEMMA UnsealedIs ==
    /\ \A k \in 0 .. 6 : /\ Directory(k, FALSE) \in Directories
                         /\ Len(Directory(k, FALSE).artifacts) = k
                         /\ Directory(k, FALSE) # None
    /\ Len(Directory(Len(Artifacts), FALSE).artifacts) = Len(Artifacts)
<1>1. \A k \in 0 .. 6 : Len(Directory(k, FALSE).artifacts) = k
  BY DirectoryIs, ArtifactsAre
<1>2. Len(Artifacts) \in 0 .. Len(Artifacts) /\ FALSE \in BOOLEAN
  BY ArtifactsAre
<1>3. QED BY <1>1, <1>2, DirectoryIs, ArtifactsAre

-----------------------------------------------------------------------------
\* What the common steps do to the types.
LEMMA GotoType ==
    ASSUME TypeOK, NEW p \in Procs, NEW label \in Labels, Goto(p, label)
    PROVE  pc' \in [Procs -> Labels]
BY DEF TypeOK, Goto

LEMMA AnswersType ==
    ASSUME TypeOK, NEW p \in Procs, NEW id \in Periods \cup {None},
           NEW status \in {"NONE", "SUCCEEDED", "EXISTING_IDENTICAL", "RAISED"},
           Answers(p, status, id)
    PROVE  answer' \in [Procs -> Reports]
<1>1. [status |-> status, id |-> id] \in Reports
  BY DEF Reports
<1>2. QED BY <1>1 DEF TypeOK, Answers

LEMMA RaisesType ==
    ASSUME TypeOK, NEW p \in Procs, Raises(p)
    PROVE  /\ pc' \in [Procs -> Labels]
           /\ staging' \in [Procs -> Directories \cup {None}]
           /\ answer' \in [Procs -> Reports]
           /\ workspace' \subseteq Procs
<1>1. pc' \in [Procs -> Labels]
  BY GotoType DEF Raises, Labels
<1>2. answer' \in [Procs -> Reports]
  BY AnswersType DEF Raises
<1>3. QED BY <1>1, <1>2 DEF Raises, TypeOK

\* Types are kept.
LEMMA TypeKept ==
    ASSUME TypeOK, StagingInv, WorkInv, [Next]_vars
    PROVE  TypeOK'
<1>1. ASSUME NEW p \in Procs, NEW d \in Periods, Begin(p, d) PROVE TypeOK'
  BY <1>1, GotoType DEF TypeOK, Labels, Begin, storeVars, resultVars
<1>2. ASSUME NEW p \in Procs, NEW d \in Periods, BeginRaises(p, d) PROVE TypeOK'
  BY <1>2, RaisesType DEF TypeOK, BeginRaises, storeVars, resultVars
<1>3. ASSUME NEW p \in Procs, Lock(p) PROVE TypeOK'
  BY <1>3, GotoType DEF TypeOK, Labels, Lock, storeVars, resultVars
<1>4. ASSUME NEW p \in Procs, Overlaps(p) PROVE TypeOK'
  BY <1>4, RaisesType DEF TypeOK, Overlaps, storeVars, resultVars
<1>5. ASSUME NEW p \in Procs, Sync(p) PROVE TypeOK'
  BY <1>5, GotoType DEF TypeOK, Labels, Sync, storeVars, resultVars
<1>6. ASSUME NEW p \in Procs, SyncRaises(p) PROVE TypeOK'
  BY <1>6, RaisesType DEF TypeOK, SyncRaises, Stored, storeVars, resultVars
<1>7. ASSUME NEW p \in Procs, Snapshot(p) PROVE TypeOK'
  BY <1>7, GotoType DEF TypeOK, Labels, Snapshot, storeVars, resultVars
<1>8. ASSUME NEW p \in Procs, SnapshotRaises(p) PROVE TypeOK'
  BY <1>8, RaisesType DEF TypeOK, SnapshotRaises, storeVars, resultVars
<1>9. ASSUME NEW p \in Procs, ReplaySnapshot(p) PROVE TypeOK'
  BY <1>9, GotoType DEF TypeOK, Labels, ReplaySnapshot, storeVars, resultVars
<1>10. ASSUME NEW p \in Procs, ReplayRaises(p) PROVE TypeOK'
  BY <1>10, RaisesType DEF TypeOK, ReplayRaises, storeVars, resultVars
<1>11. ASSUME NEW p \in Procs, Simulate(p) PROVE TypeOK'
  <2>1. pc' \in [Procs -> Labels]
    BY <1>11, GotoType DEF Labels, Simulate
  <2>2. staging' \in [Procs -> Directories \cup {None}]
    <3>1. 0 \in 0 .. 6
      OBVIOUS
    <3>2. Directory(0, FALSE) \in Directories
      BY <3>1, UnsealedIs, Zenon
    <3>3. QED BY <1>11, <3>2 DEF TypeOK, Simulate
  <2>3. QED BY <1>11, <2>1, <2>2 DEF TypeOK, Simulate, storeVars, resultVars
<1>12. ASSUME NEW p \in Procs, SimulateRaises(p) PROVE TypeOK'
  BY <1>12, RaisesType DEF TypeOK, SimulateRaises, storeVars, resultVars
<1>13. ASSUME NEW p \in Procs, Write(p) PROVE TypeOK'
  <2>1. pc' \in [Procs -> Labels]
    BY <1>13, GotoType DEF Labels, Write
  <2>2. staging' \in [Procs -> Directories \cup {None}]
    <3>1. PICK k \in 0 .. Len(Artifacts) - 1 : staging[p] = Directory(k, FALSE)
      BY <1>13 DEF StagingInv, Write
    <3>2. k + 1 \in 0 .. Len(Artifacts) /\ k \in 0 .. Len(Artifacts)
      BY ArtifactsAre
    <3>3. staging' = [staging EXCEPT ![p] = Directory(k + 1, FALSE)]
      BY <1>13, <3>1, <3>2, ArtifactsAre, UnsealedIs DEF Write, TypeOK
    <3>4. QED BY <3>2, <3>3, ArtifactsAre, UnsealedIs DEF TypeOK
  <2>3. QED BY <1>13, <2>1, <2>2 DEF TypeOK, Write, storeVars, resultVars
<1>14. ASSUME NEW p \in Procs, Seal(p) PROVE TypeOK'
  <2>1. pc' \in [Procs -> Labels]
    BY <1>14, GotoType DEF Labels, Seal
  <2>2. staging' \in [Procs -> Directories \cup {None}]
    <3>1. Len(staging[p].artifacts) = Len(Artifacts)
      BY <1>14, UnsealedIs DEF StagingInv, Seal
    <3>2. QED BY <1>14, <3>1, WholeIs DEF TypeOK, Seal
  <2>3. QED BY <1>14, <2>1, <2>2 DEF TypeOK, Seal, storeVars, resultVars
<1>15. ASSUME NEW p \in Procs, WriteRaises(p) PROVE TypeOK'
  BY <1>15, RaisesType DEF TypeOK, WriteRaises, storeVars, resultVars
<1>16. ASSUME NEW p \in Procs, CheckFinds(p) PROVE TypeOK'
  BY <1>16, GotoType DEF TypeOK, Labels, CheckFinds, storeVars, resultVars
<1>17. ASSUME NEW p \in Procs, CheckFindsNone(p) PROVE TypeOK'
  BY <1>17, GotoType DEF TypeOK, Labels, CheckFindsNone, storeVars, resultVars
<1>18. ASSUME NEW p \in Procs, ConfirmExisting(p) PROVE TypeOK'
  <2>1. pc' \in [Procs -> Labels]
    BY <1>18, GotoType DEF Labels, ConfirmExisting
  <2>2. answer' \in [Procs -> Reports]
    <3>1. period[p] \in Periods
      BY <1>18 DEF WorkInv, Labels, TypeOK, ConfirmExisting
    <3>2. QED BY <1>18, <3>1, AnswersType DEF ConfirmExisting
  <2>3. QED BY <1>18, <2>1, <2>2 DEF TypeOK, WorkInv, Labels, ConfirmExisting,
         storeVars, resultVars
<1>19. ASSUME NEW p \in Procs, RefuseExisting(p) PROVE TypeOK'
  BY <1>19, RaisesType DEF TypeOK, RefuseExisting, storeVars, resultVars
<1>20. ASSUME NEW p \in Procs, Rename(p) PROVE TypeOK'
  <2>1. pc' \in [Procs -> Labels]
    BY <1>20, GotoType DEF Labels, Rename
  <2>2. staging' \in [Procs -> Directories \cup {None}]
    BY <1>20 DEF TypeOK, Rename
  <2>3. results' \in [Periods -> {None, Whole, Edited}]
    BY <1>20, WholeIs DEF TypeOK, StagingInv, Rename
  <2>4. QED BY <1>20, <2>1, <2>2, <2>3 DEF TypeOK, Rename, storeVars
<1>21. ASSUME NEW p \in Procs, RenameRaises(p) PROVE TypeOK'
  BY <1>21, RaisesType DEF TypeOK, RenameRaises, storeVars, resultVars
<1>22. ASSUME NEW p \in Procs, Link(p) PROVE TypeOK'
  <2>1. pc' \in [Procs -> Labels]
    BY <1>22, GotoType DEF Labels, Link
  <2>2. answer' \in [Procs -> Reports]
    <3>1. period[p] \in Periods
      BY <1>22 DEF WorkInv, Labels, TypeOK, Link
    <3>2. QED BY <1>22, <3>1, AnswersType DEF Link
  <2>3. QED BY <1>22, <2>1, <2>2 DEF TypeOK, WorkInv, Labels, Link, storeVars,
         resultVars
<1>23. ASSUME NEW p \in Procs, LinkRaises(p) PROVE TypeOK'
  BY <1>23, RaisesType DEF TypeOK, LinkRaises, storeVars, resultVars
<1>24. ASSUME NEW p \in Procs, Crash(p) PROVE TypeOK'
  <2>1. pc' \in [Procs -> Labels]
    BY <1>24 DEF TypeOK, Labels, Crash, Killed
  <2>2. QED BY <1>24, <2>1 DEF TypeOK, Crash, resultVars
<1>25. ASSUME EngineLocks PROVE TypeOK'
  BY <1>25 DEF TypeOK, EngineLocks, storeVars, procVars, resultVars
<1>26. ASSUME EngineRuns PROVE TypeOK'
  BY <1>26 DEF TypeOK, EngineRuns, storeVars, procVars, resultVars
<1>27. ASSUME MinuteCloses PROVE TypeOK'
  BY <1>27 DEF TypeOK, MinuteCloses, storeVars, procVars, resultVars
<1>28. ASSUME PowerFails PROVE TypeOK'
  <2>1. pc' \in [Procs -> Labels]
    BY <1>28 DEF TypeOK, Labels, PowerFails, Killed
  <2>2. results' \in [Periods -> {None, Whole, Edited}]
    BY <1>28, WholeIs DEF TypeOK, PowerFails, Surviving
  <2>3. QED BY <1>28, <2>1, <2>2 DEF TypeOK, PowerFails
<1>29. ASSUME NEW d \in Periods, Edit(d) PROVE TypeOK'
  BY <1>29 DEF TypeOK, Edit, storeVars, procVars, resultVars
<1>30. CASE UNCHANGED vars
  BY <1>30 DEF TypeOK, vars, storeVars, procVars, resultVars, envVars
<1>31. QED
  BY <1>1, <1>2, <1>3, <1>4, <1>5, <1>6, <1>7, <1>8, <1>9, <1>10, <1>11,
     <1>12, <1>13, <1>14, <1>15, <1>16, <1>17, <1>18, <1>19, <1>20, <1>21,
     <1>22, <1>23, <1>24, <1>25, <1>26, <1>27, <1>28, <1>29, <1>30, Zenon
     DEF Next, Prepare, Compute, Publish

\* A command at work stays in possession of what it needs.
LEMMA WorkKept ==
    ASSUME TypeOK, WorkInv, [Next]_vars
    PROVE  WorkInv'
<1>1. ASSUME NEW p \in Procs, NEW d \in Periods, Begin(p, d) PROVE WorkInv'
  BY <1>1 DEF WorkInv, TypeOK, Begin, Goto, storeVars, procVars, resultVars
<1>2. ASSUME NEW p \in Procs, NEW d \in Periods, BeginRaises(p, d) PROVE WorkInv'
  BY <1>2 DEF WorkInv, TypeOK, BeginRaises, Raises, Goto, Answers, storeVars,
       procVars, resultVars
<1>3. ASSUME NEW p \in Procs, Lock(p) PROVE WorkInv'
  BY <1>3 DEF WorkInv, TypeOK, Lock, Goto, storeVars, procVars, resultVars
<1>4. ASSUME NEW p \in Procs, Overlaps(p) PROVE WorkInv'
  BY <1>4 DEF WorkInv, TypeOK, Overlaps, Raises, Goto, Answers, storeVars, procVars,
       resultVars
<1>5. ASSUME NEW p \in Procs, Sync(p) PROVE WorkInv'
  BY <1>5 DEF WorkInv, TypeOK, Sync, Goto, storeVars, procVars, resultVars
<1>6. ASSUME NEW p \in Procs, SyncRaises(p) PROVE WorkInv'
  BY <1>6, IdentityAssumption DEF WorkInv, TypeOK, SyncRaises, Raises, Goto,
       Answers, storeVars, procVars, resultVars
<1>7. ASSUME NEW p \in Procs, Snapshot(p) PROVE WorkInv'
  BY <1>7, IdentityAssumption DEF WorkInv, TypeOK, Snapshot, Goto, storeVars,
       procVars, resultVars
<1>8. ASSUME NEW p \in Procs, SnapshotRaises(p) PROVE WorkInv'
  BY <1>8, IdentityAssumption DEF WorkInv, TypeOK, SnapshotRaises, Raises, Goto,
       Answers, storeVars, procVars, resultVars
<1>9. ASSUME NEW p \in Procs, ReplaySnapshot(p) PROVE WorkInv'
  BY <1>9 DEF WorkInv, TypeOK, ReplaySnapshot, Goto, storeVars, procVars, resultVars
<1>10. ASSUME NEW p \in Procs, ReplayRaises(p) PROVE WorkInv'
  BY <1>10 DEF WorkInv, TypeOK, ReplayRaises, Raises, Goto, Answers, storeVars,
       procVars, resultVars
<1>11. ASSUME NEW p \in Procs, Simulate(p) PROVE WorkInv'
  BY <1>11 DEF WorkInv, TypeOK, Simulate, Goto, storeVars, procVars, resultVars
<1>12. ASSUME NEW p \in Procs, SimulateRaises(p) PROVE WorkInv'
  BY <1>12 DEF WorkInv, TypeOK, SimulateRaises, Raises, Goto, Answers, storeVars,
       procVars, resultVars
<1>13. ASSUME NEW p \in Procs, Write(p) PROVE WorkInv'
  BY <1>13 DEF WorkInv, TypeOK, Write, Goto, storeVars, procVars, resultVars
<1>14. ASSUME NEW p \in Procs, Seal(p) PROVE WorkInv'
  BY <1>14 DEF WorkInv, TypeOK, Seal, Goto, storeVars, procVars, resultVars
<1>15. ASSUME NEW p \in Procs, WriteRaises(p) PROVE WorkInv'
  BY <1>15 DEF WorkInv, TypeOK, WriteRaises, Raises, Goto, Answers, storeVars,
       procVars, resultVars
<1>16. ASSUME NEW p \in Procs, CheckFinds(p) PROVE WorkInv'
  BY <1>16 DEF WorkInv, TypeOK, CheckFinds, Goto, storeVars, procVars, resultVars
<1>17. ASSUME NEW p \in Procs, CheckFindsNone(p) PROVE WorkInv'
  BY <1>17 DEF WorkInv, TypeOK, CheckFindsNone, Goto, storeVars, procVars,
       resultVars
<1>18. ASSUME NEW p \in Procs, ConfirmExisting(p) PROVE WorkInv'
  BY <1>18 DEF WorkInv, TypeOK, ConfirmExisting, Goto, Answers, storeVars, procVars,
       resultVars
<1>19. ASSUME NEW p \in Procs, RefuseExisting(p) PROVE WorkInv'
  BY <1>19 DEF WorkInv, TypeOK, RefuseExisting, Raises, Goto, Answers, storeVars,
       procVars, resultVars
<1>20. ASSUME NEW p \in Procs, Rename(p) PROVE WorkInv'
  BY <1>20 DEF WorkInv, TypeOK, Rename, Goto, storeVars, procVars, resultVars
<1>21. ASSUME NEW p \in Procs, RenameRaises(p) PROVE WorkInv'
  BY <1>21 DEF WorkInv, TypeOK, RenameRaises, Raises, Goto, Answers, storeVars,
       procVars, resultVars
<1>22. ASSUME NEW p \in Procs, Link(p) PROVE WorkInv'
  BY <1>22 DEF WorkInv, TypeOK, Link, Goto, Answers, storeVars, procVars, resultVars
<1>23. ASSUME NEW p \in Procs, LinkRaises(p) PROVE WorkInv'
  BY <1>23 DEF WorkInv, TypeOK, LinkRaises, Raises, Goto, Answers, storeVars,
       procVars, resultVars
<1>24. ASSUME NEW p \in Procs, Crash(p) PROVE WorkInv'
  BY <1>24, IdentityAssumption DEF WorkInv, TypeOK, Crash, Killed, Active,
       storeVars, procVars, resultVars
<1>25. ASSUME EngineLocks PROVE WorkInv'
  BY <1>25, IdentityAssumption DEF WorkInv, TypeOK, EngineLocks, storeVars,
       procVars, resultVars
<1>26. ASSUME EngineRuns PROVE WorkInv'
  BY <1>26, IdentityAssumption DEF WorkInv, TypeOK, EngineRuns, storeVars, procVars,
       resultVars
<1>27. ASSUME MinuteCloses PROVE WorkInv'
  BY <1>27 DEF WorkInv, TypeOK, MinuteCloses, storeVars, procVars, resultVars
<1>28. ASSUME PowerFails PROVE WorkInv'
  BY <1>28, IdentityAssumption DEF WorkInv, TypeOK, PowerFails, Killed, Active,
       storeVars, procVars, resultVars
<1>29. ASSUME NEW d \in Periods, Edit(d) PROVE WorkInv'
  BY <1>29 DEF WorkInv, TypeOK, Edit, storeVars, procVars, resultVars
<1>30. CASE UNCHANGED vars
  BY <1>30 DEF WorkInv, vars, storeVars, procVars, resultVars, envVars
<1>31. QED
  BY <1>1, <1>2, <1>3, <1>4, <1>5, <1>6, <1>7, <1>8, <1>9, <1>10, <1>11,
     <1>12, <1>13, <1>14, <1>15, <1>16, <1>17, <1>18, <1>19, <1>20, <1>21,
     <1>22, <1>23, <1>24, <1>25, <1>26, <1>27, <1>28, <1>29, <1>30, Zenon
     DEF Next, Prepare, Compute, Publish

\* The staging directory holds what each step needs.
LEMMA StagingKept ==
    ASSUME TypeOK, StagingInv, [Next]_vars
    PROVE  StagingInv'
<1>1. ASSUME NEW p \in Procs, NEW d \in Periods, Begin(p, d) PROVE StagingInv'
  BY <1>1 DEF StagingInv, TypeOK, Begin, Goto, storeVars, procVars, resultVars
<1>2. ASSUME NEW p \in Procs, NEW d \in Periods, BeginRaises(p, d) PROVE StagingInv'
  BY <1>2 DEF StagingInv, TypeOK, BeginRaises, Raises, Goto, Answers, storeVars,
       procVars, resultVars
<1>3. ASSUME NEW p \in Procs, Lock(p) PROVE StagingInv'
  BY <1>3 DEF StagingInv, TypeOK, Lock, Goto, storeVars, procVars, resultVars
<1>4. ASSUME NEW p \in Procs, Overlaps(p) PROVE StagingInv'
  BY <1>4 DEF StagingInv, TypeOK, Overlaps, Raises, Goto, Answers, storeVars,
       procVars, resultVars
<1>5. ASSUME NEW p \in Procs, Sync(p) PROVE StagingInv'
  BY <1>5 DEF StagingInv, TypeOK, Sync, Goto, storeVars, procVars, resultVars
<1>6. ASSUME NEW p \in Procs, SyncRaises(p) PROVE StagingInv'
  BY <1>6 DEF StagingInv, TypeOK, SyncRaises, Raises, Goto, Answers, storeVars,
       procVars, resultVars
<1>7. ASSUME NEW p \in Procs, Snapshot(p) PROVE StagingInv'
  BY <1>7 DEF StagingInv, TypeOK, Snapshot, Goto, storeVars, procVars, resultVars
<1>8. ASSUME NEW p \in Procs, SnapshotRaises(p) PROVE StagingInv'
  BY <1>8 DEF StagingInv, TypeOK, SnapshotRaises, Raises, Goto, Answers, storeVars,
       procVars, resultVars
<1>9. ASSUME NEW p \in Procs, ReplaySnapshot(p) PROVE StagingInv'
  BY <1>9 DEF StagingInv, TypeOK, ReplaySnapshot, Goto, storeVars, procVars,
       resultVars
<1>10. ASSUME NEW p \in Procs, ReplayRaises(p) PROVE StagingInv'
  BY <1>10 DEF StagingInv, TypeOK, ReplayRaises, Raises, Goto, Answers, storeVars,
       procVars, resultVars
<1>11. ASSUME NEW p \in Procs, Simulate(p) PROVE StagingInv'
  <2>1. staging' = [staging EXCEPT ![p] = Directory(0, FALSE)]
        /\ pc' = [pc EXCEPT ![p] = "writing"] /\ workspace' = workspace
    BY <1>11 DEF Simulate, Goto
  <2>2. 0 \in 0 .. Len(Artifacts) - 1
    BY ArtifactsAre
  <2>3. \E k \in 0 .. Len(Artifacts) - 1 : staging'[p] = Directory(k, FALSE)
    BY <2>1, <2>2 DEF TypeOK
  <2>4. QED BY <2>1, <2>3 DEF StagingInv, TypeOK
<1>12. ASSUME NEW p \in Procs, SimulateRaises(p) PROVE StagingInv'
  BY <1>12 DEF StagingInv, TypeOK, SimulateRaises, Raises, Goto, Answers, storeVars,
       procVars, resultVars
<1>13. ASSUME NEW p \in Procs, Write(p) PROVE StagingInv'
  <2>1. PICK k \in 0 .. Len(Artifacts) - 1 : staging[p] = Directory(k, FALSE)
    BY <1>13 DEF StagingInv, Write
  <2>2. k + 1 \in 0 .. Len(Artifacts) /\ Len(staging[p].artifacts) = k
    <3>1. k \in 0 .. 6 /\ k + 1 \in 0 .. Len(Artifacts)
      BY ArtifactsAre
    <3>2. QED BY <2>1, <3>1, UnsealedIs
  <2>3. staging' = [staging EXCEPT ![p] = Directory(k + 1, FALSE)]
    BY <1>13, <2>2 DEF Write
  <2>4. pc' = [pc EXCEPT ![p] = IF k + 1 = Len(Artifacts) THEN "sealing" ELSE "writing"]
        /\ workspace' = workspace
    BY <1>13, <2>2 DEF Write, Goto
  <2>5. CASE k + 1 = Len(Artifacts)
    <3>1. staging'[p] = Directory(Len(Artifacts), FALSE) /\ pc'[p] = "sealing"
      BY <2>3, <2>4, <2>5 DEF TypeOK
    <3>2. QED BY <2>3, <2>4, <2>5, <3>1 DEF StagingInv, TypeOK
  <2>6. CASE k + 1 # Len(Artifacts)
    <3>1. k + 1 \in 0 .. Len(Artifacts) - 1
      BY <2>2, <2>6, ArtifactsAre
    <3>2. staging'[p] = Directory(k + 1, FALSE) /\ pc'[p] = "writing"
      BY <2>3, <2>4, <2>6 DEF TypeOK
    <3>3. \E i \in 0 .. Len(Artifacts) - 1 : staging'[p] = Directory(i, FALSE)
      BY <3>1, <3>2
    <3>4. QED BY <2>3, <2>4, <2>6, <3>2, <3>3 DEF StagingInv, TypeOK
  <2>7. QED BY <2>5, <2>6
<1>14. ASSUME NEW p \in Procs, Seal(p) PROVE StagingInv'
  <2>1. Len(staging[p].artifacts) = Len(Artifacts)
    BY <1>14, UnsealedIs DEF StagingInv, Seal
  <2>2. staging' = [staging EXCEPT ![p] = Whole]
    BY <1>14, <2>1, WholeIs DEF Seal
  <2>3. pc' = [pc EXCEPT ![p] = "checking"] /\ workspace' = workspace
    BY <1>14 DEF Seal, Goto
  <2>4. QED BY <2>2, <2>3 DEF StagingInv, TypeOK
<1>15. ASSUME NEW p \in Procs, WriteRaises(p) PROVE StagingInv'
  BY <1>15 DEF StagingInv, TypeOK, WriteRaises, Raises, Goto, Answers, storeVars,
       procVars, resultVars
<1>16. ASSUME NEW p \in Procs, CheckFinds(p) PROVE StagingInv'
  BY <1>16 DEF StagingInv, TypeOK, CheckFinds, Goto, storeVars, procVars, resultVars
<1>17. ASSUME NEW p \in Procs, CheckFindsNone(p) PROVE StagingInv'
  BY <1>17 DEF StagingInv, TypeOK, CheckFindsNone, Goto, storeVars, procVars,
       resultVars
<1>18. ASSUME NEW p \in Procs, ConfirmExisting(p) PROVE StagingInv'
  BY <1>18 DEF StagingInv, TypeOK, ConfirmExisting, Goto, Answers, storeVars,
       procVars, resultVars
<1>19. ASSUME NEW p \in Procs, RefuseExisting(p) PROVE StagingInv'
  BY <1>19 DEF StagingInv, TypeOK, RefuseExisting, Raises, Goto, Answers, storeVars,
       procVars, resultVars
<1>20. ASSUME NEW p \in Procs, Rename(p) PROVE StagingInv'
  BY <1>20 DEF StagingInv, TypeOK, Rename, Goto, storeVars, procVars, resultVars
<1>21. ASSUME NEW p \in Procs, RenameRaises(p) PROVE StagingInv'
  BY <1>21 DEF StagingInv, TypeOK, RenameRaises, Raises, Goto, Answers, storeVars,
       procVars, resultVars
<1>22. ASSUME NEW p \in Procs, Link(p) PROVE StagingInv'
  BY <1>22 DEF StagingInv, TypeOK, Link, Goto, Answers, storeVars, procVars,
       resultVars
<1>23. ASSUME NEW p \in Procs, LinkRaises(p) PROVE StagingInv'
  BY <1>23 DEF StagingInv, TypeOK, LinkRaises, Raises, Goto, Answers, storeVars,
       procVars, resultVars
<1>24. ASSUME NEW p \in Procs, Crash(p) PROVE StagingInv'
  BY <1>24 DEF StagingInv, TypeOK, Crash, Killed, Active, storeVars, procVars,
       resultVars
<1>25. ASSUME EngineLocks PROVE StagingInv'
  BY <1>25 DEF StagingInv, TypeOK, EngineLocks, storeVars, procVars, resultVars
<1>26. ASSUME EngineRuns PROVE StagingInv'
  BY <1>26 DEF StagingInv, TypeOK, EngineRuns, storeVars, procVars, resultVars
<1>27. ASSUME MinuteCloses PROVE StagingInv'
  BY <1>27 DEF StagingInv, TypeOK, MinuteCloses, storeVars, procVars, resultVars
<1>28. ASSUME PowerFails PROVE StagingInv'
  BY <1>28 DEF StagingInv, TypeOK, PowerFails, Killed, Active, storeVars, procVars,
       resultVars
<1>29. ASSUME NEW d \in Periods, Edit(d) PROVE StagingInv'
  BY <1>29 DEF StagingInv, TypeOK, Edit, storeVars, procVars, resultVars
<1>30. CASE UNCHANGED vars
  BY <1>30 DEF StagingInv, vars, storeVars, procVars, resultVars, envVars
<1>31. QED
  BY <1>1, <1>2, <1>3, <1>4, <1>5, <1>6, <1>7, <1>8, <1>9, <1>10, <1>11,
     <1>12, <1>13, <1>14, <1>15, <1>16, <1>17, <1>18, <1>19, <1>20, <1>21,
     <1>22, <1>23, <1>24, <1>25, <1>26, <1>27, <1>28, <1>29, <1>30, Zenon
     DEF Next, Prepare, Compute, Publish

-----------------------------------------------------------------------------
\* Reports of different kinds, and of different results, are different.
LEMMA ReportsDiffer ==
    \A id, d : /\ [status |-> "RAISED", id |-> id] # Success(d)
               /\ [status |-> "EXISTING_IDENTICAL", id |-> id] # Success(d)
               /\ Silent # Success(d)
               /\ Success(id) = Success(d) => id = d
BY DEF Success, Silent

\* A command that reports something else than a success disturbs no result.
LEMMA NoSuccessKeepsResults ==
    ASSUME TypeOK, ResultInv, NEW p \in Procs, NEW label \in Labels \ {"linking"},
           NEW report, \A d : report # Success(d),
           answer' = [answer EXCEPT ![p] = report], Goto(p, label),
           UNCHANGED <<period, results, linked>>
    PROVE  ResultInv'
<1>1. \A q \in Procs, d \in Periods : answer'[q] = Success(d) => answer[q] = Success(d)
  BY DEF TypeOK
<1>2. \A q \in Procs : pc'[q] = "linking" => pc[q] = "linking"
  BY DEF TypeOK, Goto
<1>3. \A q \in Procs : \A d : answer'[q] = Success(d) => answer[q] = Success(d)
  BY DEF TypeOK
<1>4. QED BY <1>1, <1>2, <1>3 DEF ResultInv

LEMMA RaisesKeepsResults ==
    ASSUME TypeOK, ResultInv, NEW p \in Procs, Raises(p),
           UNCHANGED <<period, results, linked>>
    PROVE  ResultInv'
BY NoSuccessKeepsResults, ReportsDiffer DEF Raises, Answers, Labels

\* What is published stays in its place.
LEMMA ResultKept ==
    ASSUME TypeOK, WorkInv, StagingInv, ResultInv, [Next]_vars
    PROVE  ResultInv'
<1>1. ASSUME NEW p \in Procs, NEW d \in Periods, Begin(p, d) PROVE ResultInv'
  BY <1>1 DEF ResultInv, TypeOK, Begin, Goto, storeVars, procVars, resultVars
<1>2. ASSUME NEW p \in Procs, NEW d \in Periods, BeginRaises(p, d) PROVE ResultInv'
  BY <1>2, RaisesKeepsResults DEF BeginRaises, resultVars
<1>3. ASSUME NEW p \in Procs, Lock(p) PROVE ResultInv'
  BY <1>3 DEF ResultInv, TypeOK, Lock, Goto, storeVars, procVars, resultVars
<1>4. ASSUME NEW p \in Procs, Overlaps(p) PROVE ResultInv'
  BY <1>4, RaisesKeepsResults DEF Overlaps, resultVars
<1>5. ASSUME NEW p \in Procs, Sync(p) PROVE ResultInv'
  BY <1>5 DEF ResultInv, TypeOK, Sync, Goto, storeVars, procVars, resultVars
<1>6. ASSUME NEW p \in Procs, SyncRaises(p) PROVE ResultInv'
  BY <1>6, RaisesKeepsResults DEF SyncRaises, resultVars
<1>7. ASSUME NEW p \in Procs, Snapshot(p) PROVE ResultInv'
  BY <1>7 DEF ResultInv, TypeOK, Snapshot, Goto, storeVars, procVars, resultVars
<1>8. ASSUME NEW p \in Procs, SnapshotRaises(p) PROVE ResultInv'
  BY <1>8, RaisesKeepsResults DEF SnapshotRaises, resultVars
<1>9. ASSUME NEW p \in Procs, ReplaySnapshot(p) PROVE ResultInv'
  BY <1>9 DEF ResultInv, TypeOK, ReplaySnapshot, Goto, storeVars, procVars,
       resultVars
<1>10. ASSUME NEW p \in Procs, ReplayRaises(p) PROVE ResultInv'
  BY <1>10, RaisesKeepsResults DEF ReplayRaises, resultVars
<1>11. ASSUME NEW p \in Procs, Simulate(p) PROVE ResultInv'
  BY <1>11 DEF ResultInv, TypeOK, Simulate, Goto, storeVars, procVars, resultVars
<1>12. ASSUME NEW p \in Procs, SimulateRaises(p) PROVE ResultInv'
  BY <1>12, RaisesKeepsResults DEF SimulateRaises, resultVars
<1>13. ASSUME NEW p \in Procs, Write(p) PROVE ResultInv'
  BY <1>13 DEF ResultInv, TypeOK, Write, Goto, storeVars, procVars, resultVars
<1>14. ASSUME NEW p \in Procs, Seal(p) PROVE ResultInv'
  BY <1>14 DEF ResultInv, TypeOK, Seal, Goto, storeVars, procVars, resultVars
<1>15. ASSUME NEW p \in Procs, WriteRaises(p) PROVE ResultInv'
  BY <1>15, RaisesKeepsResults DEF WriteRaises, resultVars
<1>16. ASSUME NEW p \in Procs, CheckFinds(p) PROVE ResultInv'
  BY <1>16 DEF ResultInv, TypeOK, CheckFinds, Goto, storeVars, procVars, resultVars
<1>17. ASSUME NEW p \in Procs, CheckFindsNone(p) PROVE ResultInv'
  BY <1>17 DEF ResultInv, TypeOK, CheckFindsNone, Goto, storeVars, procVars,
       resultVars
<1>18. ASSUME NEW p \in Procs, ConfirmExisting(p) PROVE ResultInv'
  BY <1>18, NoSuccessKeepsResults, ReportsDiffer
     DEF ConfirmExisting, Answers, resultVars, Labels
<1>19. ASSUME NEW p \in Procs, RefuseExisting(p) PROVE ResultInv'
  BY <1>19, RaisesKeepsResults DEF RefuseExisting, resultVars
<1>20. ASSUME NEW p \in Procs, Rename(p) PROVE ResultInv'
  <2>1. results' = [results EXCEPT ![period[p]] = Whole] /\ results[period[p]] = None
    BY <1>20 DEF Rename, StagingInv
  <2>2. pc' = [pc EXCEPT ![p] = "linking"] /\ UNCHANGED <<answer, linked, period>>
    BY <1>20 DEF Rename, Goto
  <2>3. period[p] \in Periods
    BY <1>20 DEF WorkInv, Rename
  <2>4. \A d \in linked' : results'[d] # None
    BY <2>1, <2>2, <2>3, WholeIs DEF ResultInv, TypeOK
  <2>5. \A q \in Procs, d \in Periods : answer'[q] = Success(d) => d \in linked'
    BY <2>2 DEF ResultInv
  <2>6. \A q \in Procs : answer[q] # Success(period[p])
    BY <2>1, <2>3 DEF ResultInv
  <2>7. \A q \in Procs : pc[q] = "linking" => period[q] # period[p]
    BY <2>1 DEF ResultInv
  <2>8. ASSUME NEW q \in Procs, pc'[q] = "linking"
        PROVE  /\ results'[period'[q]] # None
               /\ \A r \in Procs : answer'[r] # Success(period'[q])
               /\ \A r \in Procs : pc'[r] = "linking" /\ r # q => period'[r] # period'[q]
    <3>1. CASE q = p
      BY <2>1, <2>2, <2>3, <2>6, <2>7, <3>1, WholeIs DEF TypeOK
    <3>2. CASE q # p
      <4>1. pc[q] = "linking"
        BY <2>2, <2>8, <3>2 DEF TypeOK
      <4>2. period[q] # period[p] /\ period[q] \in Periods
        BY <2>7, <4>1 DEF WorkInv
      <4>3. QED BY <2>1, <2>2, <3>2, <4>1, <4>2 DEF ResultInv, TypeOK
    <3>3. QED BY <3>1, <3>2
  <2>9. QED BY <2>4, <2>5, <2>8 DEF ResultInv
<1>21. ASSUME NEW p \in Procs, RenameRaises(p) PROVE ResultInv'
  BY <1>21, RaisesKeepsResults DEF RenameRaises, resultVars
<1>22. ASSUME NEW p \in Procs, Link(p) PROVE ResultInv'
  <2>1. linked' = linked \cup {period[p]} /\ UNCHANGED <<results, period>>
    BY <1>22 DEF Link
  <2>2. pc' = [pc EXCEPT ![p] = "done"] /\ pc[p] = "linking"
    BY <1>22 DEF Link, Goto
  <2>3. answer' = [answer EXCEPT ![p] = Success(period[p])]
    BY <1>22 DEF Link, Answers, Success
  <2>4. \A d \in linked' : results'[d] # None
    BY <2>1, <2>2 DEF ResultInv
  <2>5. \A q \in Procs, d \in Periods : answer'[q] = Success(d) => d \in linked'
    BY <2>1, <2>3, ReportsDiffer DEF ResultInv, TypeOK
  <2>6. \A q \in Procs : pc'[q] = "linking" =>
          pc[q] = "linking" /\ q # p /\ period[q] # period[p]
    BY <2>2 DEF ResultInv, TypeOK
  <2>7. \A q, r \in Procs : pc'[q] = "linking" => answer'[r] # Success(period[q])
    BY <2>3, <2>6, ReportsDiffer DEF ResultInv, TypeOK
  <2>8. QED BY <2>1, <2>4, <2>5, <2>6, <2>7 DEF ResultInv
<1>23. ASSUME NEW p \in Procs, LinkRaises(p) PROVE ResultInv'
  BY <1>23, RaisesKeepsResults DEF LinkRaises, resultVars
<1>24. ASSUME NEW p \in Procs, Crash(p) PROVE ResultInv'
  BY <1>24 DEF ResultInv, TypeOK, Crash, Killed, Active, storeVars, procVars,
       resultVars
<1>25. ASSUME EngineLocks PROVE ResultInv'
  BY <1>25 DEF ResultInv, TypeOK, EngineLocks, storeVars, procVars, resultVars
<1>26. ASSUME EngineRuns PROVE ResultInv'
  BY <1>26 DEF ResultInv, TypeOK, EngineRuns, storeVars, procVars, resultVars
<1>27. ASSUME MinuteCloses PROVE ResultInv'
  BY <1>27 DEF ResultInv, TypeOK, MinuteCloses, storeVars, procVars, resultVars
<1>28. ASSUME PowerFails PROVE ResultInv'
  <2>1. UNCHANGED <<answer, linked, period>>
    BY <1>28 DEF PowerFails
  <2>2. \A q \in Procs : pc'[q] # "linking"
    BY <1>28 DEF PowerFails, Killed, Active, TypeOK
  <2>3. \A d \in linked : results'[d] = results[d]
    <3>1. PICK kept \in SUBSET Periods : results' = [d \in Periods |-> Surviving(d, kept)]
      BY <1>28 DEF PowerFails
    <3>2. SUFFICES ASSUME NEW d \in linked PROVE results'[d] = results[d]
      OBVIOUS
    <3>3. d \in Periods /\ results[d] \in {Whole, Edited} /\ results[d] # None
      BY DEF ResultInv, TypeOK
    <3>4. results[d].sealed
      BY <3>3, WholeIs
    <3>5. Surviving(d, kept) = results[d]
      BY <3>3, <3>4 DEF Surviving
    <3>6. QED BY <3>1, <3>3, <3>5
  <2>4. QED BY <2>1, <2>2, <2>3 DEF ResultInv
<1>29. ASSUME NEW d \in Periods, Edit(d) PROVE ResultInv'
  BY <1>29, WholeIs DEF ResultInv, TypeOK, WorkInv, Edit, procVars
<1>30. CASE UNCHANGED vars
  BY <1>30 DEF ResultInv, vars, storeVars, procVars, resultVars, envVars
<1>31. QED
  BY <1>1, <1>2, <1>3, <1>4, <1>5, <1>6, <1>7, <1>8, <1>9, <1>10, <1>11,
     <1>12, <1>13, <1>14, <1>15, <1>16, <1>17, <1>18, <1>19, <1>20, <1>21,
     <1>22, <1>23, <1>24, <1>25, <1>26, <1>27, <1>28, <1>29, <1>30, Zenon
     DEF Next, Prepare, Compute, Publish

-----------------------------------------------------------------------------
\* A command goes on, or ends, with the period and the snapshot it has.
LEMMA ReplayStays ==
    ASSUME TypeOK, ReplayInv, NEW p \in Procs, NEW label, Goto(p, label),
           label \in {"done", "failed"} \/ pc[p] \notin {"idle", "done", "failed", "crashed"},
           label # "simulate", rows' \in SUBSET Int, UNCHANGED <<period, snapshot>>
    PROVE  ReplayInv'
BY DEF TypeOK, ReplayInv, Goto, Loaded

LEMMA RaiseStays ==
    ASSUME TypeOK, ReplayInv, NEW p \in Procs, Raises(p), rows' \in SUBSET Int,
           UNCHANGED <<period, snapshot>>
    PROVE  ReplayInv'
BY ReplayStays DEF Raises

LEMMA ReplayKept ==
    ASSUME TypeOK, WorkInv, ReplayInv, [Next]_vars
    PROVE  ReplayInv'
<1>0. /\ rows \in SUBSET Int
      /\ \A d : Required(d) \in SUBSET Int
      /\ \A time : Window(time) \in SUBSET Int
  BY DEF ReplayInv, Required, Window
<1>1. ASSUME NEW p \in Procs, NEW d \in Periods, Begin(p, d) PROVE ReplayInv'
  BY <1>1 DEF ReplayInv, TypeOK, Begin, Goto, storeVars, Loaded
<1>2. ASSUME NEW p \in Procs, NEW d \in Periods, BeginRaises(p, d) PROVE ReplayInv'
  BY <1>0, <1>2, RaiseStays DEF BeginRaises, storeVars
<1>3. ASSUME NEW p \in Procs, Lock(p) \/ ReplaySnapshot(p) \/ Snapshot(p) PROVE ReplayInv'
  <2>1. CASE Lock(p)
    BY <1>0, <2>1, ReplayStays DEF Lock
  <2>2. CASE ReplaySnapshot(p)
    BY <2>2 DEF ReplaySnapshot, ReplayInv, TypeOK, Goto, Loaded, storeVars
  <2>3. CASE Snapshot(p)
    BY <2>3 DEF Snapshot, ReplayInv, TypeOK, Goto, Loaded
  <2>4. QED BY <1>3, <2>1, <2>2, <2>3
<1>4. ASSUME NEW p \in Procs, Overlaps(p) \/ SnapshotRaises(p) \/ ReplayRaises(p)
                              \/ SimulateRaises(p) \/ WriteRaises(p) \/ RefuseExisting(p)
                              \/ RenameRaises(p) \/ LinkRaises(p)
      PROVE  ReplayInv'
  BY <1>0, <1>4, RaiseStays
  DEF Overlaps, SnapshotRaises, ReplayRaises, SimulateRaises, WriteRaises,
      RefuseExisting, RenameRaises, LinkRaises, storeVars
<1>5. ASSUME NEW p \in Procs, Sync(p) PROVE ReplayInv'
  BY <1>0, <1>5, ReplayStays DEF Sync
<1>6. ASSUME NEW p \in Procs, SyncRaises(p) PROVE ReplayInv'
  <2>1. rows' \in SUBSET Int
    BY <1>0, <1>6 DEF SyncRaises, Stored
  <2>2. QED BY <1>6, <2>1, RaiseStays DEF SyncRaises
<1>7. ASSUME NEW p \in Procs, Simulate(p) \/ Write(p) \/ Seal(p) \/ CheckFinds(p)
                              \/ CheckFindsNone(p) \/ ConfirmExisting(p) \/ Rename(p)
                              \/ Link(p)
      PROVE  ReplayInv'
  <2>1. rows' \in SUBSET Int /\ UNCHANGED <<period, snapshot>>
    BY <1>0, <1>7
    DEF Simulate, Write, Seal, CheckFinds, CheckFindsNone, ConfirmExisting, Rename,
        Link, storeVars
  <2>2. PICK label \in Labels : Goto(p, label) /\ label # "simulate"
    BY <1>7
    DEF Simulate, Write, Seal, CheckFinds, CheckFindsNone, ConfirmExisting, Rename,
        Link, Labels
  <2>3. pc[p] \notin {"idle", "done", "failed", "crashed"}
    BY <1>7
    DEF Simulate, Write, Seal, CheckFinds, CheckFindsNone, ConfirmExisting, Rename, Link
  <2>4. QED BY <2>1, <2>2, <2>3, ReplayStays
<1>8. ASSUME \/ EngineLocks \/ EngineRuns \/ MinuteCloses \/ UNCHANGED vars
             \/ \E d \in Periods : Edit(d)
      PROVE  ReplayInv'
  <2>1. rows' \in SUBSET Int
    BY <1>0, <1>8
    DEF EngineLocks, EngineRuns, MinuteCloses, vars, Edit, storeVars
  <2>2. UNCHANGED <<pc, period, snapshot>>
    BY <1>8 DEF EngineLocks, EngineRuns, MinuteCloses, vars, Edit, procVars
  <2>3. QED BY <2>1, <2>2 DEF ReplayInv, Loaded
<1>9. ASSUME PowerFails \/ \E p \in Procs : Crash(p) PROVE ReplayInv'
  <2>1. UNCHANGED <<rows, period, snapshot>>
    BY <1>9 DEF PowerFails, Crash
  <2>2. \A p \in Procs : pc'[p] \in {"crashed", pc[p]}
    BY <1>9 DEF PowerFails, Crash, Killed
  <2>3. QED BY <2>1, <2>2 DEF ReplayInv, Loaded
<1>10. QED
  BY <1>1, <1>2, <1>3, <1>4, <1>5, <1>6, <1>7, <1>8, <1>9, Zenon
  DEF Next, Prepare, Compute, Publish

-----------------------------------------------------------------------------
(* What the replay sees of a whole range, and when.                         *)

LEMMA CompleteIs ==
    ASSUME NEW role \in Roles, NEW low \in Nat, NEW high \in Nat, NEW time \in Int
    PROVE  Complete(role, low .. high, time) =
             {bar \in low .. high : /\ bar % Minutes[role] = 0
                                    /\ bar + Minutes[role] - 1 <= time
                                    /\ bar + Minutes[role] - 1 <= high}
<1>1. Minutes[role] \in Nat \ {0}
  BY ReplayAssumption
<1>2. \A bar \in low .. high :
        bar .. bar + Minutes[role] - 1 \subseteq low .. high <=>
          bar + Minutes[role] - 1 <= high
  BY <1>1
<1>3. QED BY <1>2 DEF Complete, LastMinute

\* The evaluations are the closes of the execution bars that begin in the period.
LEMMA ScheduleIs ==
    ASSUME NEW d \in Periods, d.start >= History
    PROVE  Schedule(Required(d), d) =
             {t \in d.start .. d.end : (t + 1) % Minutes["execution"] = 0
                                       /\ t - Minutes["execution"] >= d.start - 1}
<1> DEFINE m == Minutes["execution"]
           first == d.start - History
<1>1. m \in Nat \ {0} /\ History \in Nat \ {0} /\ "execution" \in Roles
  BY ReplayAssumption
<1>2. d.start \in Nat /\ d.end \in Nat /\ first \in Nat /\ d.start < d.end
  BY <1>1, PeriodAssumption
<1>3. Complete("execution", Required(d), d.end) =
        {bar \in first .. d.end : bar % m = 0 /\ bar + m - 1 <= d.end}
  BY <1>1, <1>2, CompleteIs DEF Required
<1>4. ASSUME NEW t PROVE t \in Schedule(Required(d), d) <=>
             \E bar \in first .. d.end :
               bar % m = 0 /\ bar + m - 1 <= d.end /\ bar >= d.start /\ t = bar + m - 1
  BY <1>3 DEF Schedule, LastMinute
<1>5. ASSUME NEW bar \in first .. d.end, bar % m = 0, bar + m - 1 <= d.end, bar >= d.start,
             NEW t, t = bar + m - 1
      PROVE  /\ t \in d.start .. d.end
             /\ (t + 1) % m = 0
             /\ t - m >= d.start - 1
  <2>1. bar \in Nat /\ t \in Int /\ t + 1 = bar + m
    BY <1>1, <1>2, <1>5
  <2>2. (bar + m) % m = 0
    <3> HIDE DEF m
    <3>1. QED BY <1>1, <1>5, <2>1, MultipleAfter
  <2>3. (t + 1) % m = 0
    <3> HIDE DEF m
    <3>1. QED BY <2>1, <2>2
  <2>4. t \in d.start .. d.end /\ t - m >= d.start - 1
    BY <1>1, <1>2, <1>5, <2>1
  <2>5. QED BY <2>3, <2>4
<1>6. ASSUME NEW t \in d.start .. d.end, (t + 1) % m = 0, t - m >= d.start - 1
      PROVE  \E bar \in first .. d.end :
               bar % m = 0 /\ bar + m - 1 <= d.end /\ bar >= d.start /\ t = bar + m - 1
  <2>1. PICK bar \in Nat : bar = t - m + 1
    BY <1>1, <1>2, <1>6
  <2>2. bar + m = t + 1
    BY <1>1, <1>2, <2>1
  <2>3. bar % m = 0
    <3> HIDE DEF m
    <3>1. QED BY <1>1, <1>6, <2>2, MultipleAfter
  <2>4. bar \in first .. d.end /\ bar + m - 1 <= d.end /\ bar >= d.start /\ t = bar + m - 1
    BY <1>1, <1>2, <1>6, <2>1
  <2>5. QED BY <2>3, <2>4
<1> HIDE DEF m, first
<1>7. ASSUME NEW t
      PROVE  t \in Schedule(Required(d), d) <=>
               t \in d.start .. d.end /\ (t + 1) % m = 0 /\ t - m >= d.start - 1
  <2>1. CASE t \in Schedule(Required(d), d)
    <3>1. PICK bar \in first .. d.end :
            bar % m = 0 /\ bar + m - 1 <= d.end /\ bar >= d.start /\ t = bar + m - 1
      BY <1>4, <2>1
    <3>2. QED BY <1>5, <2>1, <3>1
  <2>2. CASE t \notin Schedule(Required(d), d)
    BY <1>4, <1>6, <2>2
  <2>3. QED BY <2>1, <2>2
<1>8. QED BY <1>7 DEF m

\* At such a close the replay sees the bars of a live run, and at most one older bar.
LEMMA SeenIs ==
    ASSUME NEW d \in Periods, d.start >= History, NEW t \in d.start .. d.end,
           NEW role \in Roles
    PROVE  LET replayed == Seen(role, Required(d), t)
               live == LiveBars(role, t)
           IN  /\ live \subseteq replayed
               /\ Cardinality(replayed \ live) <= 1
               /\ \A bar \in replayed \ live :
                    bar < t - History + 1 /\ t - History + 1 <= LastMinute(role, bar)
<1> DEFINE m == Minutes[role]
           first == d.start - History
           begin == t - History + 1
           replayed == Seen(role, Required(d), t)
           live == LiveBars(role, t)
<1>1. m \in Nat \ {0} /\ History \in Nat \ {0}
  BY ReplayAssumption
<1>2. /\ d.start \in Nat /\ d.end \in Nat /\ first \in Nat /\ d.start < d.end
      /\ t \in Nat /\ begin \in Nat /\ first < begin
  BY <1>1, PeriodAssumption
<1>3. Max(first .. d.end) = d.end
  <2>1. first .. d.end \in SUBSET (0 .. d.end) /\ d.end \in first .. d.end
    BY <1>1, <1>2
  <2>2. Max(first .. d.end) \in first .. d.end /\ \A x \in first .. d.end : Max(first .. d.end) >= x
    <3> HIDE DEF first
    <3>1. QED BY <1>2, <2>1, MaxIsGreatest
  <2>3. QED BY <2>1, <2>2
<1>4. live = {bar \in begin .. t : bar % m = 0 /\ bar + m - 1 <= t}
  BY <1>2, CompleteIs DEF LiveBars, Window
<1>5. replayed = {bar \in first .. d.end : /\ bar % m = 0
                                           /\ bar + m - 1 <= t
                                           /\ begin <= bar + m - 1}
  <2>1. Complete(role, first .. d.end, d.end) =
          {bar \in first .. d.end : bar % m = 0 /\ bar + m - 1 <= d.end}
    BY <1>2, CompleteIs
  <2>2. replayed = {bar \in {b \in first .. d.end : b % m = 0 /\ b + m - 1 <= d.end} :
                      t - History < bar + m - 1 /\ bar + m - 1 <= t}
    BY <1>3, <2>1 DEF Seen, Required, LastMinute
  <2>3. \A bar \in first .. d.end :
          /\ bar + m - 1 <= t => bar + m - 1 <= d.end
          /\ t - History < bar + m - 1 <=> begin <= bar + m - 1
    BY <1>1, <1>2
  <2> HIDE DEF replayed, m, first, begin
  <2>4. QED BY <2>2, <2>3
<1>6. \A bar \in begin .. t : /\ bar \in first .. d.end
                              /\ begin <= bar + m - 1
  BY <1>1, <1>2
<1> HIDE DEF m, replayed, live
<1>7. live \subseteq replayed
  BY <1>4, <1>5, <1>6
<1>8. ASSUME NEW bar \in replayed \ live
      PROVE  bar \in Nat /\ bar % m = 0 /\ bar < begin /\ begin <= bar + m - 1
  BY <1>1, <1>2, <1>4, <1>5
<1>9. \A x, y \in replayed \ live : x = y
  <2>1. SUFFICES ASSUME NEW x \in replayed \ live, NEW y \in replayed \ live, x < y
                 PROVE  FALSE
    <3>1. \A x \in replayed \ live : x \in Int
      BY <1>8
    <3>2. QED BY <3>1
  <2>2. x + m <= y
    BY <1>1, <1>8, <2>1, MultiplesApart
  <2>3. QED BY <1>1, <1>2, <1>8, <2>2
<1>10. Cardinality(replayed \ live) <= 1
  <2>1. CASE replayed \ live = {}
    BY <2>1, FS_EmptySet
  <2>2. CASE replayed \ live # {}
    <3>1. PICK x : replayed \ live = {x}
      BY <1>9, <2>2
    <3>2. QED BY <3>1, FS_Singleton
  <2>3. QED BY <2>1, <2>2
<1>11. \A bar \in replayed \ live : bar < begin /\ begin <= LastMinute(role, bar)
  BY <1>8 DEF LastMinute, m
<1>12. QED BY <1>7, <1>10, <1>11 DEF replayed, live, begin

LEMMA ReplayHolds == IInv => ReplaySeesLiveBars
<1> SUFFICES ASSUME IInv, NEW p \in Procs, pc[p] = "simulate"
             PROVE  /\ Evaluations(p) =
                         {t \in period[p].start .. period[p].end :
                            (t + 1) % Minutes["execution"] = 0
                              /\ t - Minutes["execution"] >= period[p].start - 1}
                    /\ \A t \in Evaluations(p), role \in Roles :
                         LET replayed == Seen(role, Loaded(p), t)
                             live == LiveBars(role, t)
                         IN  /\ live \subseteq replayed
                             /\ Cardinality(replayed \ live) <= 1
                             /\ \A bar \in replayed \ live :
                                  bar < t - History + 1 /\ t - History + 1 <= LastMinute(role, bar)
  BY DEF ReplaySeesLiveBars
<1>1. /\ period[p] \in Periods /\ period[p].start >= History
      /\ Loaded(p) = Required(period[p])
  BY DEF IInv, WorkInv, ReplayInv
<1>2. Evaluations(p) =
        {t \in period[p].start .. period[p].end :
           (t + 1) % Minutes["execution"] = 0
             /\ t - Minutes["execution"] >= period[p].start - 1}
  BY <1>1, ScheduleIs DEF Evaluations
<1>3. \A t \in Evaluations(p) : t \in period[p].start .. period[p].end
  BY <1>2
<1>4. QED BY <1>1, <1>2, <1>3, SeenIs

-----------------------------------------------------------------------------
LEMMA InitHolds == Init => IInv
<1> SUFFICES ASSUME Init PROVE IInv
  OBVIOUS
<1>1. Silent \in Reports
  BY DEF Silent, Reports
<1>2. TypeOK
  BY <1>1 DEF Init, TypeOK, Labels
<1>3. WorkInv
  BY IdentityAssumption DEF Init, WorkInv
<1>4. StagingInv
  BY DEF Init, StagingInv
<1>5. ResultInv
  BY ReportsDiffer DEF Init, ResultInv
<1>6. ReplayInv
  BY DEF Init, ReplayInv
<1>7. QED BY <1>2, <1>3, <1>4, <1>5, <1>6 DEF IInv

LEMMA StepKeeps == IInv /\ [Next]_vars => IInv'
BY TypeKept, WorkKept, StagingKept, ResultKept, ReplayKept DEF IInv

LEMMA InvariantSuffices == IInv => OnlyCrashesLitter
BY DEF IInv, WorkInv, StagingInv, OnlyCrashesLitter

\* The invariant: what each command has and owns at each step, and which results can
\* still be taken back.  (run_backtest, publish)
THEOREM Invariance == Spec => []IInv
<1>1. Init => IInv
  BY InitHolds
<1>2. IInv /\ [Next]_vars => IInv'
  BY StepKeeps
<1>3. QED BY <1>1, <1>2, PTL DEF Spec

\* At whatever step a command raises, nothing of it stays behind.  (run_backtest)
THEOREM NothingIsLeft == Spec => []OnlyCrashesLitter
BY Invariance, InvariantSuffices, PTL

\* Whatever the roles, their timeframes, the history and the period, a replay evaluates
\* at the closes of the execution bars of its period and sees what a live run sees
\* there.  (PointInTimeReplay.run, _prefixes)
THEOREM ReplayIsFair == Spec => []ReplaySeesLiveBars
BY Invariance, ReplayHolds, PTL

-----------------------------------------------------------------------------
\* Every step is a step of the abstract specification, or none.
LEMMA StepImplements ==
    ASSUME IInv, [Next]_vars
    PROVE  [Promise!Next]_<<results, answer>>
<1> DEFINE Shown == [Promise!Next]_<<results, answer>>
<1>1. ASSUME NEW p \in Procs, Raises(p), UNCHANGED results, answer[p] = Silent PROVE Shown
  BY <1>1 DEF Raises, Answers, Silent, Promise!Next, Promise!Refuse,
       Promise!Answers, Promise!Silent
<1>2. ASSUME NEW p \in Procs, NEW d \in Periods, Begin(p, d) PROVE Shown
  BY <1>2 DEF Begin, procVars, resultVars
<1>3. ASSUME NEW p \in Procs, NEW d \in Periods, BeginRaises(p, d) PROVE Shown
  BY <1>1, <1>3 DEF BeginRaises, IInv, WorkInv, resultVars
<1>4. ASSUME NEW p \in Procs, Lock(p) PROVE Shown
  BY <1>4 DEF Lock, procVars, resultVars
<1>5. ASSUME NEW p \in Procs, Overlaps(p) PROVE Shown
  BY <1>1, <1>5 DEF Overlaps, IInv, WorkInv, resultVars
<1>6. ASSUME NEW p \in Procs, Sync(p) PROVE Shown
  BY <1>6 DEF Sync, procVars, resultVars
<1>7. ASSUME NEW p \in Procs, SyncRaises(p) PROVE Shown
  BY <1>1, <1>7 DEF SyncRaises, IInv, WorkInv, resultVars
<1>8. ASSUME NEW p \in Procs, Snapshot(p) PROVE Shown
  BY <1>8 DEF Snapshot, procVars, resultVars
<1>9. ASSUME NEW p \in Procs, SnapshotRaises(p) PROVE Shown
  BY <1>1, <1>9 DEF SnapshotRaises, IInv, WorkInv, resultVars
<1>10. ASSUME NEW p \in Procs, ReplaySnapshot(p) PROVE Shown
  BY <1>10 DEF ReplaySnapshot, procVars, resultVars
<1>11. ASSUME NEW p \in Procs, ReplayRaises(p) PROVE Shown
  BY <1>1, <1>11 DEF ReplayRaises, IInv, WorkInv, resultVars
<1>12. ASSUME NEW p \in Procs, Simulate(p) PROVE Shown
  BY <1>12 DEF Simulate, procVars, resultVars
<1>13. ASSUME NEW p \in Procs, SimulateRaises(p) PROVE Shown
  BY <1>1, <1>13 DEF SimulateRaises, IInv, WorkInv, resultVars
<1>14. ASSUME NEW p \in Procs, Write(p) PROVE Shown
  BY <1>14 DEF Write, procVars, resultVars
<1>15. ASSUME NEW p \in Procs, Seal(p) PROVE Shown
  BY <1>15 DEF Seal, procVars, resultVars
<1>16. ASSUME NEW p \in Procs, WriteRaises(p) PROVE Shown
  BY <1>1, <1>16 DEF WriteRaises, IInv, WorkInv, resultVars
<1>17. ASSUME NEW p \in Procs, CheckFinds(p) PROVE Shown
  BY <1>17 DEF CheckFinds, procVars, resultVars
<1>18. ASSUME NEW p \in Procs, CheckFindsNone(p) PROVE Shown
  BY <1>18 DEF CheckFindsNone, procVars, resultVars
<1>19. ASSUME NEW p \in Procs, ConfirmExisting(p) PROVE Shown
  <2>1. results[period[p]] = Whole /\ period[p] \in Periods /\ answer[p] = Silent
    BY <1>19 DEF ConfirmExisting, Matches, IInv, StagingInv, WorkInv
  <2>2. Promise!Confirm(p, period[p])
    BY <1>19, <2>1 DEF ConfirmExisting, Answers, Silent, resultVars,
         Promise!Confirm,
       Promise!Answers, Promise!Silent
  <2>3. QED BY <2>1, <2>2 DEF Promise!Next
<1>20. ASSUME NEW p \in Procs, RefuseExisting(p) PROVE Shown
  BY <1>1, <1>20 DEF RefuseExisting, IInv, WorkInv, resultVars
<1>21. ASSUME NEW p \in Procs, Rename(p) PROVE Shown
  <2>1. period[p] \in Periods /\ staging[p] = Whole
    BY <1>21 DEF Rename, IInv, StagingInv, WorkInv
  <2>2. Promise!Publish(period[p])
    BY <1>21, <2>1 DEF Rename, Promise!Publish
  <2>3. QED BY <2>1, <2>2 DEF Promise!Next
<1>22. ASSUME NEW p \in Procs, RenameRaises(p) PROVE Shown
  BY <1>1, <1>22 DEF RenameRaises, IInv, WorkInv, resultVars
<1>23. ASSUME NEW p \in Procs, Link(p) PROVE Shown
  <2>1. period[p] \in Periods /\ answer[p] = Silent
    BY <1>23 DEF Link, IInv, WorkInv
  <2>2. /\ results[period[p]] # None
        /\ \A q \in Procs : answer[q] # [status |-> "SUCCEEDED", id |-> period[p]]
    BY <1>23 DEF Link, IInv, ResultInv, Success
  <2>3. Promise!Succeed(p, period[p])
    BY <1>23, <2>1, <2>2 DEF Link, Answers, Silent, Promise!Succeed,
         Promise!Answers,
       Promise!Silent
  <2>4. QED BY <2>1, <2>3 DEF Promise!Next
<1>24. ASSUME NEW p \in Procs, LinkRaises(p) PROVE Shown
  BY <1>1, <1>24 DEF LinkRaises, IInv, WorkInv, resultVars
<1>25. ASSUME NEW p \in Procs, Crash(p) PROVE Shown
  BY <1>25 DEF Crash, procVars, resultVars
<1>26. ASSUME EngineLocks PROVE Shown
  BY <1>26 DEF EngineLocks, procVars, resultVars
<1>27. ASSUME EngineRuns PROVE Shown
  BY <1>27 DEF EngineRuns, procVars, resultVars
<1>28. ASSUME MinuteCloses PROVE Shown
  BY <1>28 DEF MinuteCloses, procVars, resultVars
<1>29. ASSUME PowerFails PROVE Shown
  <2>1. PICK kept \in SUBSET Periods : results' = [d \in Periods |-> Surviving(d, kept)]
    BY <1>29 DEF PowerFails
  <2> DEFINE lost == {d \in Periods : results[d] # None /\ d \notin linked \cup kept}
  <2>2. ASSUME NEW d \in Periods
        PROVE  Surviving(d, kept) = IF d \in lost THEN None ELSE results[d]
    <3>1. CASE results[d] = None
      BY <3>1 DEF Surviving
    <3>2. CASE results[d] # None
      <4>1. results[d].sealed
        BY <3>2, WholeIs DEF IInv, TypeOK
      <4>2. QED BY <3>2, <4>1 DEF Surviving
    <3>3. QED BY <3>1, <3>2
  <2>3. \A d \in lost, p \in Procs : answer[p] # [status |-> "SUCCEEDED", id |-> d]
    BY DEF IInv, ResultInv, Success
  <2>4. lost \in SUBSET Periods /\ UNCHANGED answer
    BY <1>29 DEF PowerFails
  <2>5. Promise!Lose(lost)
    BY <2>1, <2>2, <2>3, <2>4 DEF Promise!Lose
  <2>6. QED BY <2>4, <2>5 DEF Promise!Next
<1>30. ASSUME NEW d \in Periods, Edit(d) PROVE Shown
  <2>1. Promise!Edit(d)
    BY <1>30 DEF Edit, procVars, Promise!Edit
  <2>2. QED BY <2>1 DEF Promise!Next
<1>31. CASE UNCHANGED vars
  BY <1>31 DEF vars, procVars, resultVars
<1>32. QED
  BY <1>2, <1>3, <1>4, <1>5, <1>6, <1>7, <1>8, <1>9, <1>10, <1>11, <1>12,
     <1>13, <1>14, <1>15, <1>16, <1>17, <1>18, <1>19, <1>20, <1>21, <1>22,
     <1>23, <1>24, <1>25, <1>26, <1>27, <1>28, <1>29, <1>30, <1>31, Zenon
     DEF Next, Prepare, Compute, Publish

\* Backtests keep the promise of Publication: a result appears once and whole, is not
\* replaced, has one author at most, and outlives a power failure once it is called
\* a success.  (publish, _directories_match)
THEOREM PublicationIsKept == Spec => ImplementsPublication
<1>1. Init => Promise!Init
  BY DEF Init, Silent, Promise!Init, Promise!Silent
<1>2. IInv /\ [Next]_vars => [Promise!Next]_<<results, answer>>
  BY StepImplements
<1>3. QED BY <1>1, <1>2, Invariance, PTL DEF Spec, ImplementsPublication,
       Promise!Spec
=============================================================================
