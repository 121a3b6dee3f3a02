----------------------------- MODULE MCServer ------------------------------
(* Small instances of Server for TLC.                                      *)
EXTENDS Server, TLC

NoSum(b) == 0

OneFrame == {Garbage}
OnePart == {Part}
OneHello == {Hello(0)}
Anyone == Permutations(Conns)

\* A calm environment, for the run in which two sessions exist at a time: no
\* signal, and clients that send only into the backlog or to a session that
\* receives and is not in its handler.  They still send or not, shut, close, are
\* reset, read their ACK or not, at any moment and in any order.
Awaited(c) ==
    \/ link[c] = "backlog"
    \/ link[c] = "open" /\ sess[c].state = "Receiving" /\ At(c, "idle")

CalmNext ==
    /\ ServerNext
    /\ ~signalled'
    /\ \A c \in Conns : Len(up'[c]) > Len(up[c]) => Awaited(c)

CalmSpec == ServerInit /\ [][CalmNext]_allVars /\ ServerFairness
=============================================================================
