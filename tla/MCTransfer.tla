----------------------------- MODULE MCTransfer -----------------------------
(* Small instances of Transfer for TLC.                                    *)
EXTENDS Transfer, SequencesExt

Sum5(b) == FoldSeq(LAMBDA x, sum : (x + 2 * sum) % 5, 0, b)

\* Files of two chunks, of one and a half, of half a chunk, and nothing.
SmallFiles == {<<>>, <<1>>, <<1, 2, 2>>, <<2, 1, 1, 2>>}

ClientFrames ==
    {Hello(n) : n \in 0..4} \cup {Data(b) : b \in {<<1>>, <<2>>, <<2, 1>>, <<1, 2>>}}
      \cup {End(v) : v \in 0..4} \cup {Part}
=============================================================================
