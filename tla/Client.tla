------------------------------- MODULE Client -------------------------------
(***************************************************************************)
(* client::sendFile: one process that sends one file over one connection   *)
(* and exits with a code that says what became of it.  Its socket calls    *)
(* are those of module Socket, one system call per action; its file may    *)
(* be rewritten, cut or extended under it at any time.                     *)
(*                                                                         *)
(* The host has one address.  A chunk is read at one instant; a read error *)
(* of the file looks like a file cut short.  Progress reports are left out.*)
(***************************************************************************)
EXTENDS Socket

CONSTANTS
    Contents,    \* what the file may hold
    Chunk        \* CHUNK_SIZE

ASSUME ClientAssumption == Contents \subseteq Seq(Bytes) /\ Chunk \in Nat \ {0}

VARIABLES
    client,   \* sendFile's local variables, and where it is in its code
    file      \* the file on the client's disk; changed: not as it was opened

clientVars == <<client, file>>

\* Exit codes of the process; Killed is any end by a signal.
Running == -1
Killed == 137
ExitCode == {0, 2, 3, 4, 5, 6, Killed}

\* sent: the bytes read, hashed and sent so far (the code keeps their number and
\* their checksum); eof: the stream has met its end; out: what writeAll has
\* left of a frame; patient: --timeout 0, no time limit on reads and writes.
NewClient(patience) ==
    [pc |-> "open", size |-> 0, sent |-> <<>>, eof |-> FALSE, out |-> <<>>,
     exit |-> Running, patient |-> patience]

ClientType ==
    [pc : {"open", "connect", "write", "fill", "ack", "goodbye", "leave", "done"},
     size : Nat, sent : Seq(Bytes), eof : BOOLEAN, out : Seq(Frame),
     exit : ExitCode \cup {Running}, patient : BOOLEAN]

ClientTypeOK ==
    /\ client \in [Conns -> ClientType]
    /\ file \in [Conns -> [bytes : Contents, changed : BOOLEAN]]

ClientInit ==
    /\ client \in [Conns -> {NewClient(patience) : patience \in BOOLEAN}]
    /\ file \in [Conns -> [bytes : Contents, changed : {FALSE}]]

-----------------------------------------------------------------------------
Doing(c, pc) == client[c].pc = pc

Become(c, next) == client' = [client EXCEPT ![c] = next] /\ UNCHANGED file

\* return code: the destructor of the connection comes next.
Quit(c, code) == Become(c, [client[c] EXCEPT !.exit = code, !.pc = "leave"])

Queue(c, frame) == [client[c] EXCEPT !.out = InTwoPieces(frame), !.pc = "write"]

OpenFile(c) ==
    /\ Doing(c, "open")
    /\ \/ Become(c, [client[c] EXCEPT !.size = Len(file[c].bytes), !.pc = "connect"])
       \/ Quit(c, 2)
    /\ UNCHANGED sockVars

\* makeConnection, and buildHello.  The kernel may complete a connection that
\* poll no longer waited for, or whose time limits could not be set.
Dial(c) ==
    /\ Doing(c, "connect")
    /\ \/ Connect(c) /\ Become(c, Queue(c, Hello(client[c].size)))
       \/ Connect(c) /\ Quit(c, 3)
       \/ Quit(c, 3) /\ UNCHANGED sockVars

\* A wrong chunk: the stream is read from its start again.
FirstChunk(c) ==
    SubSeq(file[c].bytes, 1, IF Len(file[c].bytes) < Chunk THEN Len(file[c].bytes) ELSE Chunk)

\* The next chunk of the file, shorter at its end.
NextChunk(c) ==
    LET from == Len(client[c].sent)
        left == Len(file[c].bytes) - from
    IN  SubSeq(file[c].bytes, from + 1, from + (IF left < Chunk THEN left ELSE Chunk))

SendData(c) ==
    LET chunk == NextChunk(c)
    IN  /\ Doing(c, "fill")
        /\ Len(client[c].sent) < client[c].size
        /\ IF client[c].eof \/ chunk = <<>> THEN Quit(c, 2)
           ELSE Become(c, [Queue(c, Data(chunk)) EXCEPT
                             !.sent = @ \o chunk, !.eof = Len(chunk) < Chunk])
        /\ UNCHANGED sockVars

SendEnd(c) ==
    /\ Doing(c, "fill")
    /\ Len(client[c].sent) >= client[c].size
    /\ Become(c, Queue(c, End(Crc(client[c].sent))))
    /\ UNCHANGED sockVars

-----------------------------------------------------------------------------
(* writeAll: one write each.                                               *)

WritePiece(c) ==
    LET out == client[c].out
    IN  /\ Doing(c, "write")
        /\ Send(c, Head(out))
        /\ Become(c, [client[c] EXCEPT
                        !.out = Tail(@),
                        !.pc = IF Tail(out) # <<>> THEN "write"
                               ELSE IF Head(out).type = "End" THEN "ack" ELSE "fill"])

WriteFails(c) ==
    /\ Doing(c, "write")
    /\ ~CanSend(c)
    /\ Quit(c, 4)
    /\ UNCHANGED sockVars

WriteTimesOut(c) ==
    /\ Doing(c, "write") /\ ~client[c].patient
    /\ CanSend(c) /\ link[c] # "closed" /\ Len(up[c]) >= UpCap
    /\ Quit(c, 4)
    /\ UNCHANGED sockVars

-----------------------------------------------------------------------------
(* readAck: one read each.                                                 *)

\* The status decides; wrong: any ACK will do.
AcceptsAny(ack) == ack.type = "Ack"
Accepts(ack) == ack.status = "Ok"

ReadPiece(c) ==
    LET piece == Head(down[c])
    IN  /\ Doing(c, "ack")
        /\ Receive(c)
        /\ IF piece = Part THEN UNCHANGED clientVars
           ELSE IF piece.type # "Ack" THEN Quit(c, 5)
           ELSE IF Accepts(piece) THEN Become(c, [client[c] EXCEPT !.pc = "goodbye"])
           ELSE Quit(c, 6)

\* readAck returns without an ACK: read found none, and the stream so.
NoAck(c, ends, code) ==
    /\ Doing(c, "ack")
    /\ down[c] = <<>> /\ downEnd[c] \in ends
    /\ Quit(c, code)
    /\ UNCHANGED sockVars

\* Wrong: a closed connection counts as a refusal; a read error is tried again.
ReadEndsRefused(c) == NoAck(c, {"fin", "rst"}, 6)
ReadEndsAtFin(c) == NoAck(c, {"fin"}, 5)

\* End of stream, or an error.
ReadEnds(c) == NoAck(c, {"fin", "rst"}, 5)

ReadTimesOut(c) == ~client[c].patient /\ NoAck(c, {"open"}, 5)

-----------------------------------------------------------------------------
\* The file is accepted: shutdownWrite, close, return 0.
Farewell(c) ==
    /\ Doing(c, "goodbye")
    /\ ShutUp(c)
    /\ Quit(c, 0)

\* ~TcpConnection and the end of the process.
Leave(c) ==
    /\ Doing(c, "leave")
    /\ Become(c, [client[c] EXCEPT !.pc = "done"])
    /\ IF peer[c] = "open" THEN Hangup(c) ELSE UNCHANGED sockVars

\* The process is killed, or its host goes away.
Kill(c) ==
    /\ client[c].exit = Running
    /\ Hangup(c) \/ Reset(c)
    /\ Become(c, [client[c] EXCEPT !.exit = Killed, !.pc = "done"])

\* Somebody writes to the file.
EditFile(c) ==
    /\ client[c].exit = Running /\ ~Doing(c, "open")
    /\ \E b \in Contents \ {file[c].bytes} :
          file' = [file EXCEPT ![c] = [bytes |-> b, changed |-> TRUE]]
    /\ UNCHANGED <<sockVars, client>>

ClientStep(c) ==
    \/ OpenFile(c) \/ Dial(c) \/ SendData(c) \/ SendEnd(c)
    \/ WritePiece(c) \/ WriteFails(c)
    \/ ReadPiece(c) \/ ReadEnds(c)
    \/ Farewell(c) \/ Leave(c)

ClientNext(c) ==
    ClientStep(c) \/ WriteTimesOut(c) \/ ReadTimesOut(c) \/ Kill(c) \/ EditFile(c)
=============================================================================
