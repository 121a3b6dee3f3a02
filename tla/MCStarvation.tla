---------------------------- MODULE MCStarvation ----------------------------
(* What the idle sweep takes for silence, told by a history variable.      *)
EXTENDS Server

\* Sessions whose time ran out with their data unread and the thread busy in the
\* handler of another.
VARIABLE kept

NoSum(b) == 0
OneFrame == {Garbage}

KeptInit == ServerInit /\ kept = {}

RanOut(c) ==
    /\ ~sess[c].idle
    /\ sess[c].state = "Receiving" /\ up[c] # <<>>
    /\ thread = "handle" /\ cur # c

KeptNext ==
    /\ ServerNext
    /\ kept' = {c \in Conns : /\ c \in kept \/ RanOut(c)
                              /\ link'[c] = "open" /\ sess'[c].idle}

KeptSpec == KeptInit /\ [][KeptNext]_<<allVars, kept>>

\* sweepIdle closes a session for want of data ("timeout of waiting for data",
\* and --timeout is one "of inactivity") only if none came in its time, never because the one thread
\* was with another session.
SweptForSilence ==
    [][\A fd \in Fds : Sweep(fd) => table[fd] \notin kept]_<<allVars, kept>>
=============================================================================
