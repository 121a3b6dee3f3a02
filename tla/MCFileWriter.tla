---------------------------- MODULE MCFileWriter ----------------------------
(* Small instances of FileWriter for TLC.                                  *)
EXTENDS FileWriter, TLC

CONSTANTS w1, w2, w3, p1, p2

\* Two sessions of one run, one of another run with the same number.
TwoRuns == w1 :> p1 @@ w2 :> p1 @@ w3 :> p2
SamePid == p1 :> 1 @@ p2 :> 1
Lengths == w1 :> 1 @@ w2 :> 0 @@ w3 :> 1
=============================================================================
