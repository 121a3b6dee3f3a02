----------------------------- MODULE MCSession -----------------------------
(* Small instances of Session for TLC.                                     *)
EXTENDS Session

\* A checksum with collisions: nothing rests on its being good.
RECURSIVE Sum7(_)
Sum7(b) == IF b = <<>> THEN 0 ELSE (Head(b) + 2 * Sum7(Tail(b))) % 4

\* A file of two bytes in one frame, with its END; a frame of one byte, for files
\* too short, too long and with a wrong checksum; what only a server sends, what
\* is no frame, and half of one.
SomeFrames ==
    {Hello(2), Data(<<1>>), Data(<<2, 1>>), End(0), Ack("Ok"), Garbage, Part}
=============================================================================
