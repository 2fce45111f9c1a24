------------------------ MODULE MCNotificationRouter ------------------------
(* One destination that enables all but run_started, and two of which the     *)
(* second has no lifecycle event of a successful run: its queue can stay      *)
(* until close().                                                            *)
EXTENDS NotificationRouter, TLC

CONSTANTS k1, k2

MCSingle == {1} \X {"decision", "run_succeeded", "run_failed"}
MCSubscribed == MCSingle \cup {<<2, "decision">>, <<2, "run_failed">>}

\* Results differ in nothing but their keys.
MCSymmetry == Permutations(Keys)
=============================================================================
