------------------------------ MODULE Session ------------------------------
(***************************************************************************)
(* server::Session: the state machine that receives one file over one      *)
(* connection, against any client whatever (the Peer actions send frames   *)
(* in any order, shut, close or reset at any moment).  Sessions interleave *)
(* freely here; module Server runs them from its single thread.            *)
(*                                                                         *)
(* One iteration of a handler's loop is one action; sess[c].pc says where  *)
(* in Session::handle the session is.  Time appears as the flag idle: the  *)
(* timeout has passed since the session last touched its clock.            *)
(* m_receivedSize and m_expectedSize are uint64 in the code; their sum     *)
(* cannot wrap, as it never exceeds m_expectedSize plus one payload.       *)
(***************************************************************************)
EXTENDS Socket

CONSTANT PeerFrames      \* what a client may put on the wire

ASSUME PeerAssumption == PeerFrames \subseteq Frame

VARIABLES
    sess,      \* the Session objects
    writer,    \* the FileWriter of each live one: is the descriptor open, does
               \* the temporary file exist, and the bytes in it
    stored     \* the files each session has published under a final name

vars == <<sockVars, sess, writer, stored>>

NoWriter == [fd |-> FALSE, temp |-> FALSE, bytes |-> <<>>]

NewSession ==
    [state |-> "Receiving", hello |-> FALSE, completed |-> FALSE,
     terminated |-> FALSE, expected |-> 0, received |-> 0, hashed |-> <<>>,
     out |-> <<>>, parser |-> <<>>, idle |-> FALSE, reports |-> 0,
     pc |-> "idle"]

\* Where the thread is in a session's code: outside it; in onReadable before a
\* read; in processFrames; in onWritable before a write; handle returned true
\* or false; in acceptConnections, refusing the connection.
Pcs == {"idle", "read", "frames", "write", "keep", "drop", "busy", "refused"}

SessionType ==
    [state : {"Receiving", "SendingAck", "Draining"}, hello : BOOLEAN,
     completed : BOOLEAN, terminated : BOOLEAN, expected : Nat,
     received : Nat, hashed : Seq(Bytes), out : Seq(Frame),
     parser : Seq(Frame), idle : BOOLEAN, reports : Nat, pc : Pcs]

\* Each variable holds values of its type.
TypeOK ==
    /\ SocketTypeOK
    /\ sess \in [Conns -> SessionType]
    /\ writer \in [Conns -> [fd : BOOLEAN, temp : BOOLEAN, bytes : Seq(Bytes)]]
    /\ stored \in [Conns -> Seq(Seq(Bytes))]

Init ==
    /\ SocketInit
    /\ sess = [c \in Conns |-> NewSession]
    /\ writer = [c \in Conns |-> NoWriter]
    /\ stored = [c \in Conns |-> <<>>]

-----------------------------------------------------------------------------
(* Parts of the handlers.                                                  *)

At(c, pc) == link[c] = "open" /\ sess[c].pc = pc

Set(c, s) == sess' = [sess EXCEPT ![c] = s]

Goto(s, pc) == [s EXCEPT !.pc = pc]

Touch(s) == [s EXCEPT !.idle = FALSE]

interest(s) == IF s.state = "SendingAck" THEN "OUT" ELSE "IN"

\* Frames still in the parser are never looked at again, and dropped here.
queueAck(s, status) ==
    [s EXCEPT !.out = InTwoPieces(Ack(status)), !.state = "SendingAck",
              !.parser = <<>>, !.pc = "write"]

\* FileWriter::abort, and the unlink in commit, whose results the code does not
\* look at.  Here the file goes; that unlink may fail is in module FileWriter.
AbortWriter(c) == writer' = [writer EXCEPT ![c] = NoWriter]

\* A wrong fail: the temporary file stays.
failLeaky(c, status) ==
    /\ Set(c, queueAck([sess[c] EXCEPT !.reports = @ + 1], status))
    /\ UNCHANGED <<writer, stored>>

\* Session::fail: the error ACK is queued, the temporary file goes, and the
\* log says the transfer was broken off.
fail(c, status) ==
    /\ AbortWriter(c)
    /\ Set(c, queueAck([sess[c] EXCEPT !.reports = @ + 1], status))
    /\ UNCHANGED stored

\* A wrong terminate: it does not ask whether the session is completed.
TerminatedLoudly(s) ==
    IF s.terminated THEN s ELSE [s EXCEPT !.terminated = TRUE, !.reports = @ + 1]

\* Session::terminate, run on session s: idempotent through m_terminated.
Terminated(s) ==
    IF s.terminated THEN s
    ELSE [s EXCEPT !.terminated = TRUE,
                   !.reports = IF s.completed THEN @ ELSE @ + 1]

terminate(c, pc) ==
    /\ Set(c, Goto(Terminated(sess[c]), pc))
    /\ IF sess[c].terminated THEN UNCHANGED writer ELSE AbortWriter(c)

Step(c, pc) == Set(c, Goto(sess[c], pc)) /\ UNCHANGED <<sockVars, writer, stored>>

-----------------------------------------------------------------------------
(* The life of a session in the server's table.                            *)

\* accept4 and the Session constructor.
Accept(c) ==
    /\ TakeFromBacklog(c)
    /\ Set(c, NewSession)
    /\ UNCHANGED <<up, down, upEnd, downEnd, peer, writer, stored>>

\* The server stops before it came to this connection.
LeaveUnaccepted(c) ==
    /\ DropFromBacklog(c)
    /\ UNCHANGED <<sess, writer, stored>>

\* accept4 when the table is full: the connection gets a Busy ACK ...
Refuse(c) ==
    /\ TakeFromBacklog(c)
    /\ Set(c, Goto(NewSession, "busy"))
    /\ UNCHANGED <<up, down, upEnd, downEnd, peer, writer, stored>>

\* ... in one write whose result is ignored ...
RefuseWrite(c) ==
    /\ At(c, "busy")
    /\ Set(c, Goto(sess[c], "refused"))
    /\ \/ PutDown(c, Ack("Busy"))
       \/ upEnd[c] = "rst" /\ UNCHANGED <<up, down, upEnd>>
    /\ UNCHANGED <<downEnd, peer, link, writer, stored>>

\* ... and is closed at once.
RefuseClose(c) ==
    /\ At(c, "refused")
    /\ CloseLink(c)
    /\ Set(c, NewSession)
    /\ UNCHANGED <<writer, stored>>

\* ~Session and ~FileWriter, without terminate: the server stops, or could not
\* add the new session to epoll.
Destroy(c) ==
    /\ At(c, "idle")
    /\ CloseLink(c)
    /\ AbortWriter(c)
    /\ UNCHANGED <<sess, stored>>

\* The server's process dies in the middle of anything: the kernel closes its
\* sockets.  What a dead process leaves on the disk is module FileWriter's.
Crash(c) ==
    /\ link[c] = "open"
    /\ CloseLink(c)
    /\ AbortWriter(c)
    /\ UNCHANGED <<sess, stored>>

\* Server::closeSession: terminate, then the destructors.
Close(c) ==
    /\ CloseLink(c)
    /\ Set(c, Goto(Terminated(sess[c]), "idle"))
    /\ AbortWriter(c)
    /\ UNCHANGED stored

\* handle returned false, or the descriptor could not be registered anew.
CloseSession(c) == (At(c, "drop") \/ At(c, "keep")) /\ Close(c)

\* A wrong sweep: it spares sessions that have their verdict.
SweepCloseUndecided(c) ==
    At(c, "idle") /\ sess[c].idle /\ sess[c].state = "Receiving" /\ Close(c)

\* Server::sweepIdle found the session expired.
SweepClose(c) == At(c, "idle") /\ sess[c].idle /\ Close(c)

\* handle returned true.
Rearm(c) == At(c, "keep") /\ Step(c, "idle")

\* The timeout passes without a touch.
Quiet(c) ==
    /\ link[c] = "open" /\ sess[c].pc \notin {"busy", "refused"}
    /\ ~sess[c].idle
    /\ Set(c, [sess[c] EXCEPT !.idle = TRUE])
    /\ UNCHANGED <<sockVars, writer, stored>>

-----------------------------------------------------------------------------
(* Session::handle.  A socket is registered for IN or for OUT, never both, *)
(* and a socket hung up is also readable and writable, so that HUP never   *)
(* comes alone: the branch for HUP without IN is met while SendingAck.     *)
Handle(c, events) ==
    /\ At(c, "idle")
    /\ interest(sess[c]) \in events
    /\ events \subseteq Reports(c, interest(sess[c]))
    /\ \/ /\ "IN" \in events
          /\ Step(c, "read")
       \/ /\ "IN" \notin events /\ "HUP" \notin events
          /\ Step(c, "write")
       \/ /\ "IN" \notin events /\ "HUP" \in events
          /\ IF sess[c].state # "Draining" THEN terminate(c, "drop")
             ELSE Set(c, Goto(sess[c], "drop")) /\ UNCHANGED writer
          /\ UNCHANGED <<sockVars, stored>>

-----------------------------------------------------------------------------
(* Session::onReadable: one read each.                                     *)

\* A read returns the next n pieces.  Outside Receiving they are thrown away.
ReadData(c) ==
    /\ At(c, "read")
    /\ \E n \in 1..Len(up[c]) :
         /\ up' = [up EXCEPT ![c] = SubSeq(@, n + 1, Len(@))]
         /\ Set(c, IF sess[c].state = "Receiving"
                   THEN [Touch(sess[c]) EXCEPT
                           !.parser = @ \o SubSeq(up[c], 1, n),
                           !.pc = "frames"]
                   ELSE Touch(sess[c]))
    /\ UNCHANGED <<down, upEnd, downEnd, peer, link, writer, stored>>

\* read returns 0.
ReadEof(c) ==
    /\ At(c, "read")
    /\ up[c] = <<>> /\ upEnd[c] = "fin"
    /\ IF sess[c].state = "Draining" \/ sess[c].completed
       THEN Set(c, Goto(sess[c], "drop")) /\ UNCHANGED writer
       ELSE terminate(c, "drop")
    /\ UNCHANGED <<sockVars, stored>>

\* read fails: ECONNRESET.
ReadError(c) ==
    /\ At(c, "read")
    /\ up[c] = <<>> /\ upEnd[c] = "rst"
    /\ terminate(c, "drop")
    /\ UNCHANGED <<sockVars, stored>>

\* EAGAIN: everything that has arrived is read.
ReadAgain(c) ==
    /\ At(c, "read")
    /\ ~Readable(c)
    /\ Step(c, "keep")

-----------------------------------------------------------------------------
(* Session::processFrames: one frame each.                                 *)

\* FrameParser::next has a frame of this type, or an error, to give.
Offers(c, type) ==
    /\ At(c, "frames")
    /\ sess[c].parser # <<>>
    /\ Head(sess[c].parser).type = type

Taken(s) == [s EXCEPT !.parser = Tail(@)]

NeedMore(c) ==
    /\ At(c, "frames")
    /\ sess[c].parser = <<>>
    /\ Step(c, "read")

\* Bytes short of a frame: FrameParser::next leaves them for the frame they
\* begin, which shows once its last byte has come.
PartialFrame(c) ==
    /\ Offers(c, "Part")
    /\ Set(c, Taken(sess[c]))
    /\ UNCHANGED <<sockVars, writer, stored>>

BadFrame(c) ==
    /\ Offers(c, "Garbage")
    /\ fail(c, "ProtocolError")
    /\ UNCHANGED sockVars

OnAckFrame(c) ==
    /\ Offers(c, "Ack")
    /\ fail(c, "ProtocolError")
    /\ UNCHANGED sockVars

\* A wrong onHello: a second HELLO starts anew.
OnHelloAgain(c) ==
    LET frame == Head(sess[c].parser)
    IN  /\ Offers(c, "Hello")
        /\ frame.ok
        /\ Set(c, [Taken(sess[c]) EXCEPT !.hello = TRUE, !.expected = frame.size])
        /\ writer' = [writer EXCEPT ![c] =
                          [fd |-> TRUE, temp |-> TRUE, bytes |-> <<>>]]
        /\ UNCHANGED <<sockVars, stored>>

OnHello(c) ==
    LET frame == Head(sess[c].parser)
        greeted == [Taken(sess[c]) EXCEPT !.hello = TRUE, !.expected = frame.size]
    IN  /\ Offers(c, "Hello")
        /\ UNCHANGED sockVars
        /\ IF sess[c].hello \/ ~frame.ok
           THEN fail(c, "ProtocolError")
           ELSE \/ \* the temporary file is created
                   /\ Set(c, greeted)
                   /\ writer' = [writer EXCEPT ![c] =
                                    [fd |-> TRUE, temp |-> TRUE, bytes |-> <<>>]]
                   /\ UNCHANGED stored
                \/ \* open(O_EXCL) fails
                   /\ Set(c, queueAck([greeted EXCEPT !.reports = @ + 1], "IoError"))
                   /\ AbortWriter(c)
                   /\ UNCHANGED stored

\* A wrong onData: more bytes are taken than were announced.
OnDataUnbounded(c) ==
    LET data == Head(sess[c].parser).data
    IN  /\ Offers(c, "Data")
        /\ sess[c].hello
        /\ Set(c, [Taken(sess[c]) EXCEPT !.hashed = @ \o data,
                                        !.received = @ + Len(data)])
        /\ writer' = [writer EXCEPT ![c].bytes = @ \o data]
        /\ UNCHANGED <<sockVars, stored>>

OnData(c) ==
    LET s == sess[c]
        frame == Head(s.parser)
    IN  /\ Offers(c, "Data")
        /\ UNCHANGED sockVars
        /\ IF ~s.hello THEN fail(c, "ProtocolError")
           ELSE IF s.received + Len(frame.data) > s.expected
           THEN fail(c, "SizeMismatch")
           ELSE \/ /\ Set(c, [Taken(s) EXCEPT !.hashed = @ \o frame.data,
                                              !.received = @ + Len(frame.data)])
                   /\ writer' = [writer EXCEPT ![c].bytes = @ \o frame.data]
                   /\ UNCHANGED stored
                \/ \* the disk write fails
                   fail(c, "IoError")

\* Two wrong onEnds: one answers Ok whatever commit returns, one publishes
\* without comparing checksums.
OnEndHopeful(c) ==
    /\ Offers(c, "End")
    /\ sess[c].hello /\ sess[c].received = sess[c].expected
    /\ stored' \in {stored, [stored EXCEPT ![c] = Append(@, writer[c].bytes)]}
    /\ AbortWriter(c)
    /\ Set(c, queueAck([Taken(sess[c]) EXCEPT !.completed = TRUE], "Ok"))
    /\ UNCHANGED sockVars

OnEndUnverified(c) ==
    /\ Offers(c, "End")
    /\ sess[c].hello /\ sess[c].received = sess[c].expected
    /\ stored' = [stored EXCEPT ![c] = Append(@, writer[c].bytes)]
    /\ AbortWriter(c)
    /\ Set(c, queueAck([Taken(sess[c]) EXCEPT !.completed = TRUE], "Ok"))
    /\ UNCHANGED sockVars

OnEnd(c) ==
    LET s == sess[c]
        frame == Head(s.parser)
    IN  /\ Offers(c, "End")
        /\ UNCHANGED sockVars
        /\ IF ~s.hello \/ ~frame.ok THEN fail(c, "ProtocolError")
           ELSE IF s.received # s.expected THEN fail(c, "SizeMismatch")
           ELSE IF Crc(s.hashed) # frame.crc THEN fail(c, "CrcMismatch")
           ELSE \/ \* commit publishes the file; succeed
                   /\ stored' = [stored EXCEPT ![c] = Append(@, writer[c].bytes)]
                   /\ AbortWriter(c)
                   /\ Set(c, queueAck([Taken(s) EXCEPT !.completed = TRUE], "Ok"))
                \/ \* fsync or link fails, or no name is left
                   fail(c, "IoError")

-----------------------------------------------------------------------------
(* Session::onWritable: one write each.                                    *)

\* onWritable returns at once when there is no ACK to send; a session is never
\* here without one (ControlInv), as OUT is registered only while it has one.
Sending(c) == At(c, "write") /\ sess[c].state = "SendingAck"

WriteAck(c) ==
    /\ Sending(c)
    /\ sess[c].out # <<>>
    /\ PutDown(c, Head(sess[c].out))
    /\ Set(c, [Touch(sess[c]) EXCEPT !.out = Tail(@)])
    /\ UNCHANGED <<downEnd, peer, link, writer, stored>>

WriteAgain(c) ==
    /\ Sending(c)
    /\ sess[c].out # <<>>
    /\ NoRoom(c)
    /\ Step(c, "keep")

WriteError(c) ==
    /\ Sending(c)
    /\ sess[c].out # <<>>
    /\ upEnd[c] = "rst"
    /\ Step(c, "drop")

\* A wrong onWritable: the connection is given up as soon as the ACK is out.
AckSentDrop(c) ==
    /\ Sending(c)
    /\ sess[c].out = <<>>
    /\ ShutDown(c)
    /\ Set(c, [Touch(sess[c]) EXCEPT !.state = "Draining", !.pc = "drop"])
    /\ UNCHANGED <<up, down, upEnd, peer, link, writer, stored>>

\* The whole ACK is written: shut our side and wait for the client to close.
AckSent(c) ==
    /\ Sending(c)
    /\ sess[c].out = <<>>
    /\ ShutDown(c)
    /\ Set(c, [Touch(sess[c]) EXCEPT !.state = "Draining", !.pc = "keep"])
    /\ UNCHANGED <<up, down, upEnd, peer, link, writer, stored>>

-----------------------------------------------------------------------------
sessionVars == <<sess, writer, stored>>

Peer(c) ==
    /\ \/ Connect(c)
       \/ \E f \in PeerFrames : Send(c, f)
       \/ Receive(c)
       \/ ShutUp(c)
       \/ Hangup(c)
       \/ Reset(c)
    /\ UNCHANGED sessionVars

\* What runs inside Session::handle once it was entered.
HandlerStep(c) ==
    \/ ReadData(c) \/ ReadEof(c) \/ ReadError(c) \/ ReadAgain(c)
    \/ NeedMore(c) \/ PartialFrame(c) \/ BadFrame(c) \/ OnAckFrame(c)
    \/ OnHello(c) \/ OnData(c) \/ OnEnd(c)
    \/ WriteAck(c) \/ WriteAgain(c) \/ WriteError(c) \/ AckSent(c)

\* What the server does to a session around it.
ServerStep(c) ==
    \/ Accept(c) \/ LeaveUnaccepted(c)
    \/ Refuse(c) \/ RefuseWrite(c) \/ RefuseClose(c)
    \/ Destroy(c) \/ Crash(c) \/ CloseSession(c) \/ SweepClose(c) \/ Rearm(c)
    \/ \E events \in SUBSET {"IN", "OUT", "HUP"} : Handle(c, events)

SessionStep(c) == HandlerStep(c) \/ ServerStep(c) \/ Quiet(c)

Next == \E c \in Conns : Peer(c) \/ SessionStep(c)

Spec == Init /\ [][Next]_vars

\* The reactor never stops calling: it runs a handler to its end, waits for
\* events again, accepts what waits, sweeps after every batch and at least
\* once per POLL_TIMEOUT_MS; and time passes.  Nothing is assumed of clients.
Fairness ==
    \A c \in Conns :
        /\ WF_vars(HandlerStep(c))
        /\ WF_vars(Accept(c) \/ Refuse(c))
        /\ WF_vars(RefuseWrite(c) \/ RefuseClose(c))
        /\ WF_vars(\E events \in SUBSET {"IN", "OUT", "HUP"} : Handle(c, events))
        /\ WF_vars(CloseSession(c) \/ Rearm(c))
        /\ WF_vars(SweepClose(c))
        /\ WF_vars(Quiet(c))

FairSpec == Spec /\ Fairness

-----------------------------------------------------------------------------
(* Safety.                                                                 *)

AckIn(stream, status) == \E i \in 1..Len(stream) : stream[i] = Ack(status)

\* The verdict a client may read is the truth about its file: no Ok is queued
\* or under way unless the file is published, and no refusal of any kind if it
\* is (onEnd commits before it queues Ok; every failure aborts).
AckTruth ==
    \A c \in Conns : \A status \in Status :
        AckIn(sess[c].out, status) \/ AckIn(down[c], status)
            => (status = "Ok") = (stored[c] # <<>>)

\* A temporary file exists only while its session is open, past HELLO and
\* undecided: every verdict and every way of losing the session removes it
\* ("an interrupted transfer leaves no garbage", FileWriter.hpp).
TempDiscipline ==
    \A c \in Conns :
        writer[c].temp => /\ link[c] = "open"
                          /\ sess[c].state = "Receiving"
                          /\ sess[c].hello

\* At most one file is published per connection, and its bytes are those the
\* checksum was computed over, as many as HELLO announced; the counter, the
\* checksum and the file on disk never drift apart.
PublishedWhole ==
    \A c \in Conns :
        /\ stored[c] \in {<<>>, <<sess[c].hashed>>}
        /\ stored[c] # <<>> => Len(sess[c].hashed) = sess[c].expected
        /\ writer[c].temp => writer[c].bytes = sess[c].hashed
        /\ Len(sess[c].hashed) = sess[c].received
        /\ sess[c].received <= sess[c].expected

\* When a handler gives its session up while the client's socket still lives,
\* the client has sent FIN and all it sent was read: the close that follows
\* sends no RST and cannot destroy an ACK under way (the reason for Draining,
\* onWritable).
DropIsGraceful ==
    \A c \in Conns :
        At(c, "drop") /\ peer[c] = "open" => up[c] = <<>> /\ upEnd[c] = "fin"

\* The comment in onWritable asks the same of every verdict in an ACK, or RST
\* "will throw away the ACK the client has not read yet".  A refusal is one:
\* Busy is a Status like the others.
RefusalIsGraceful ==
    \A c \in Conns : At(c, "refused") /\ peer[c] = "open" => up[c] = <<>>

FinalStep(c) ==
    /\ stored'[c] # stored[c] =>
         /\ sess[c].state = "Receiving" /\ link[c] = "open"
         /\ Head(sess[c].parser) = End(Crc(writer[c].bytes))
         /\ stored'[c] = <<writer[c].bytes>>
         /\ sess'[c].completed
    /\ link[c] \in {"open", "closed"} /\ sess[c].state # "Receiving" =>
         /\ sess'[c].state # "Receiving"
         /\ sess'[c].completed = sess[c].completed

\* A file is published only by a session that is still undecided, on an END
\* whose checksum is that of the published bytes, and in the same handler run
\* the session commits to Ok; from then on neither the file nor the verdict
\* ever changes, whatever the client, a time-out or the server's stop does.
VerdictFinal == [][\A c \in Conns : FinalStep(c)]_vars

\* The log does not call a transfer broken off whose file is published, however
\* its connection ends: by reset, idle sweep, epoll error or the client's close
\* (fail and terminate, which look at the session from outside its verdict).
StoredNotReported ==
    \A c \in Conns : stored[c] # <<>> => sess[c].reports = 0

-----------------------------------------------------------------------------
(* The inductive invariant behind AckTruth, TempDiscipline and             *)
(* PublishedWhole, one part per conjunct, for one connection.              *)

\* The counters of a session: nothing is counted before HELLO, the byte count
\* is that of the hashed bytes and stays within what was announced.
CountsInv(s) ==
    /\ ~s.hello => s.received = 0 /\ s.expected = 0
    /\ Len(s.hashed) = s.received
    /\ s.received <= s.expected

\* Where a session can be: only an undecided one parses frames, only one with
\* an ACK writes, and a refused connection never gets as far as HELLO.
ControlInv(s) ==
    /\ s.state = "Receiving" => s.out = <<>> /\ ~s.completed
    /\ s.pc = "frames" => s.state = "Receiving"
    /\ s.pc = "write" => s.state = "SendingAck"
    /\ s.pc \in {"busy", "refused"} => s.state = "Receiving" /\ ~s.hello
    /\ s.completed => s.received = s.expected

\* The temporary file is there exactly while an undecided session needs it,
\* and holds the hashed bytes.
WriterInv(c) ==
    /\ writer[c].temp => /\ link[c] = "open"
                         /\ sess[c].state = "Receiving"
                         /\ sess[c].hello
                         /\ writer[c].bytes = sess[c].hashed
    /\ /\ link[c] = "open" /\ sess[c].hello /\ sess[c].state = "Receiving"
       /\ sess[c].pc \in {"idle", "read", "frames", "keep"}
       => writer[c].temp

StoredInv(c) ==
    /\ stored[c] = IF sess[c].completed THEN <<sess[c].hashed>> ELSE <<>>
    /\ link[c] \in {"none", "backlog"} => ~sess[c].completed

Undecided(c) ==
    \/ link[c] \in {"none", "backlog"}
    \/ link[c] = "open" /\ sess[c].state = "Receiving" /\ sess[c].pc # "refused"

AckInv(c) ==
    \A status \in Status :
        /\ AckIn(sess[c].out, status) => (status = "Ok") = sess[c].completed
        /\ AckIn(down[c], status) => /\ (status = "Ok") = sess[c].completed
                                     /\ ~Undecided(c)

\* The two ends: a reset leaves no client, the server's FIN follows its ACK,
\* and a session on its way out has read a living client to its FIN.
GraceInv(c) ==
    /\ peer[c] = "none" => link[c] = "none"
    /\ upEnd[c] = "rst" => peer[c] = "closed"
    /\ \/ link[c] \in {"none", "backlog"}
       \/ link[c] = "open" /\ sess[c].state # "Draining"
       => downEnd[c] = "open"
    /\ At(c, "drop") /\ peer[c] = "open" => up[c] = <<>> /\ upEnd[c] = "fin"

ConnInv(c) ==
    /\ CountsInv(sess[c])
    /\ ControlInv(sess[c])
    /\ WriterInv(c)
    /\ StoredInv(c)
    /\ AckInv(c)
    /\ GraceInv(c)

\* What the proofs of module SessionProofs carry from state to state.
IInv == TypeOK /\ \A c \in Conns : ConnInv(c)

\* What the log has said of session s: nothing of a completed one, and nothing of
\* one still at work; one terminated inside its handler is on its way out.
LogInv(s, open) ==
    /\ s.completed => s.reports = 0
    /\ open => /\ s.terminated => s.pc = "drop"
               /\ s.state = "Receiving" /\ ~s.terminated => s.reports = 0

ReportInv(c) == LogInv(sess[c], link[c] = "open")

ReportsInv == \A c \in Conns : ReportInv(c)

-----------------------------------------------------------------------------
(* Liveness.                                                               *)

\* An ACK that is being sent gets sent, or its session goes: a client that
\* never reads cannot hold it (EAGAIN, EPOLLOUT and the idle sweep together).
AckResolved ==
    \A c \in Conns :
        link[c] = "open" /\ sess[c].state = "SendingAck"
            ~> link[c] = "closed" \/ sess[c].state = "Draining"

\* A connection is closed in the end, unless its client sends for ever: no
\* order of frames, half-close, reset or silence leaves a session behind.
Reaped ==
    \A c \in Conns :
        \/ link[c] \in {"backlog", "open"} ~> link[c] = "closed"
        \/ []<><<\E f \in PeerFrames : Send(c, f)>>_vars

\* A handler "processes exactly what has already arrived, advances one step
\* and returns control" (Session.hpp), whatever the client does meanwhile.
HandlerReturns ==
    \A c \in Conns :
        link[c] = "open" ~> link[c] = "closed" \/ sess[c].pc = "idle"
=============================================================================
