---------------------------- MODULE MCLogRotation ----------------------------
(* Threads for the runs of LogRotation.                                     *)
EXTENDS LogRotation, FiniteSets, TLC

CONSTANTS main, encoder, osd

OneThread == {main}
ThreeThreads == {main, encoder, osd}

\* All threads but main are alike.
Symmetric == Permutations(Threads \ {Main})
=============================================================================
