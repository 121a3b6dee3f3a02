----------------------------- MODULE MCSystem ------------------------------
(* A small instance of System for TLC.                                     *)
EXTENDS System, SequencesExt

Sum5(b) == FoldSeq(LAMBDA x, sum : (x + 2 * sum) % 5, 0, b)

\* Nothing, and a chunk and a half.
TwoFiles == {<<>>, <<1, 2, 2>>}

ClientFrames ==
    {Hello(0), Hello(3), Data(<<1, 2>>), Data(<<2>>), Part} \cup {End(v) : v \in 0..4}
=============================================================================
