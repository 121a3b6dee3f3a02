--------------------------- MODULE SessionProofs ---------------------------
(***************************************************************************)
(* Theorems about Session, for every set of connections, buffer size, byte *)
(* alphabet, checksum function and client.                                 *)
(***************************************************************************)
EXTENDS Session, SequenceTheorems, TLAPS

-----------------------------------------------------------------------------
(* Frames and streams.                                                     *)

LEMMA FrameFields ==
    ASSUME NEW f \in Frame
    PROVE  /\ f.type = "Hello" => f.size \in Nat /\ f.ok \in BOOLEAN
           /\ f.type = "Data" => f.data \in Seq(Bytes)
           /\ f.type = "End" => f.crc \in Nat /\ f.ok \in BOOLEAN
  BY DEF Frame, Garbage, Part

LEMMA FrameCases ==
    /\ Part \in Frame
    /\ \A status \in Status : Ack(status) \in Frame /\ Ack(status) # Part
    /\ \A a, b \in Status : Ack(a) = Ack(b) => a = b
  BY DEF Frame, Part, Ack

\* What a stream can gain or lose in one step brings no ACK of its own.
LEMMA StreamSteps ==
    ASSUME NEW s \in Seq(Frame)
    PROVE  /\ \A f \in Frame : Append(s, f) \in Seq(Frame)
           /\ s # <<>> => Head(s) \in Frame /\ Tail(s) \in Seq(Frame)
           /\ \A n \in 0..Len(s) : SubSeq(s, 1, n) \in Seq(Frame)
           /\ \A n \in 1..Len(s) : /\ SubSeq(s, 1, n) \in Seq(Frame)
                                   /\ SubSeq(s, n + 1, Len(s)) \in Seq(Frame)
<1>1. \A f \in Frame : Append(s, f) \in Seq(Frame)
  OBVIOUS
<1>2. s # <<>> => Head(s) \in Frame /\ Tail(s) \in Seq(Frame)
  OBVIOUS
<1>3. ASSUME NEW m \in 1..(Len(s) + 1), NEW n \in 0..Len(s)
      PROVE  SubSeq(s, m, n) \in Seq(Frame)
  BY <1>3, SubSeqProperties, ElementOfSeq
<1>4. QED
  BY <1>1, <1>2, <1>3

LEMMA AckSteps ==
    ASSUME NEW s \in Seq(Frame), NEW status \in Status
    PROVE  /\ ~AckIn(<<>>, status)
           /\ \A f \in Frame : AckIn(Append(s, f), status)
                                   => AckIn(s, status) \/ f = Ack(status)
           /\ s # <<>> => (AckIn(Tail(s), status) => AckIn(s, status))
           /\ s # <<>> => (Head(s) = Ack(status) => AckIn(s, status))
           /\ \A n \in 0..Len(s) :
                 AckIn(SubSeq(s, 1, n), status) => AckIn(s, status)
<1>1. ~AckIn(<<>>, status)
  BY DEF AckIn
<1>2. ASSUME NEW f \in Frame, AckIn(Append(s, f), status)
      PROVE  AckIn(s, status) \/ f = Ack(status)
  BY <1>2, AppendProperties DEF AckIn
<1>3. ASSUME s # <<>>, AckIn(Tail(s), status)
      PROVE  AckIn(s, status)
  BY <1>3, HeadTailProperties, LenProperties DEF AckIn
<1>4. ASSUME s # <<>>, Head(s) = Ack(status)
      PROVE  AckIn(s, status)
  BY <1>4, EmptySeq DEF AckIn
<1>5. ASSUME NEW n \in 0..Len(s), AckIn(SubSeq(s, 1, n), status)
      PROVE  AckIn(s, status)
  BY <1>5, SubSeqProperties, ElementOfSeq DEF AckIn
<1>6. QED
  BY <1>1, <1>2, <1>3, <1>4, <1>5

LEMMA AckPieces ==
    ASSUME NEW status \in Status, NEW other \in Status,
           AckIn(InTwoPieces(Ack(other)), status)
    PROVE  status = other
  BY FrameCases DEF AckIn, InTwoPieces

-----------------------------------------------------------------------------
(* Type correctness.                                                       *)

LEMMA CutType ==
    ASSUME SocketTypeOK, NEW c \in Conns
    PROVE  /\ Cut(up, c) => up' \in [Conns -> Seq(Frame)]
           /\ Cut(down, c) => down' \in [Conns -> Seq(Frame)]
<1>1. ASSUME NEW n \in 0..Len(up[c]), up' = [up EXCEPT ![c] = SubSeq(@, 1, n)]
      PROVE  up' \in [Conns -> Seq(Frame)]
  <2>1. SubSeq(up[c], 1, n) \in Seq(Frame)
    BY StreamSteps DEF SocketTypeOK
  <2>2. QED
    BY <1>1, <2>1 DEF SocketTypeOK
<1>2. ASSUME NEW n \in 0..Len(down[c]),
             down' = [down EXCEPT ![c] = SubSeq(@, 1, n)]
      PROVE  down' \in [Conns -> Seq(Frame)]
  <2>1. SubSeq(down[c], 1, n) \in Seq(Frame)
    BY StreamSteps DEF SocketTypeOK
  <2>2. QED
    BY <1>2, <2>1 DEF SocketTypeOK
<1>3. QED
  BY <1>1, <1>2 DEF Cut

\* The client's calls keep the sockets well-typed ...
LEMMA ClientTypes ==
    ASSUME SocketTypeOK, NEW c \in Conns,
           \/ Connect(c) \/ Receive(c) \/ ShutUp(c) \/ Hangup(c) \/ Reset(c)
           \/ \E f \in Frame : Send(c, f)
    PROVE  SocketTypeOK'
<1> USE DEF SocketTypeOK, Ends
<1>1. CASE Connect(c)
  BY <1>1 DEF Connect
<1>2. CASE Receive(c)
  BY <1>2, StreamSteps DEF Receive
<1>3. CASE ShutUp(c)
  BY <1>3 DEF ShutUp
<1>4. CASE Hangup(c)
  <2>1. up' \in [Conns -> Seq(Frame)]
    BY <1>4, CutType DEF Hangup
  <2>2. /\ down' \in [Conns -> Seq(Frame)]
        /\ UNCHANGED <<downEnd, link>>
    BY <1>4 DEF Hangup
  <2>3. /\ upEnd' \in [Conns -> Ends]
        /\ peer' \in [Conns -> {"none", "open", "closed"}]
    BY <1>4 DEF Hangup
  <2>4. QED
    BY <2>1, <2>2, <2>3
<1>5. CASE Reset(c)
  BY <1>5, CutType DEF Reset
<1>6. ASSUME NEW f \in Frame, Send(c, f)
      PROVE  SocketTypeOK'
  <2>1. CASE link[c] # "closed"
    <3>1. Append(up[c], f) \in Seq(Frame)
      BY StreamSteps
    <3>2. QED
      BY <1>6, <2>1, <3>1 DEF Send
  <2>2. CASE link[c] = "closed"
    BY <1>6, <2>2, CutType DEF Send
  <2>3. QED
    BY <2>1, <2>2
<1>7. QED
  BY <1>1, <1>2, <1>3, <1>4, <1>5, <1>6

\* ... and so do the server's.
LEMMA ServerTypes ==
    ASSUME SocketTypeOK, NEW c \in Conns
    PROVE  /\ TakeFromBacklog(c) /\ UNCHANGED <<up, down, upEnd, downEnd, peer>>
                => SocketTypeOK'
           /\ \A f \in Frame :
                PutDown(c, f) /\ UNCHANGED <<downEnd, peer, link>> => SocketTypeOK'
           /\ ShutDown(c) /\ UNCHANGED <<up, down, upEnd, peer, link>>
                => SocketTypeOK'
           /\ CloseLink(c) => SocketTypeOK'
           /\ DropFromBacklog(c) => SocketTypeOK'
           /\ UNCHANGED sockVars => SocketTypeOK'
<1> USE DEF SocketTypeOK, Ends
<1>1. TakeFromBacklog(c) /\ UNCHANGED <<up, down, upEnd, downEnd, peer>>
         => SocketTypeOK'
  BY DEF TakeFromBacklog
<1>2. ASSUME NEW f \in Frame, PutDown(c, f), UNCHANGED <<downEnd, peer, link>>
      PROVE  SocketTypeOK'
  <2>1. CASE peer[c] = "closed"
    BY <1>2, <2>1, CutType DEF PutDown
  <2>2. CASE peer[c] # "closed"
    <3>1. Append(down[c], f) \in Seq(Frame)
      BY StreamSteps
    <3>2. QED
      BY <1>2, <2>2, <3>1 DEF PutDown
  <2>3. QED
    BY <2>1, <2>2
<1>3. ShutDown(c) /\ UNCHANGED <<up, down, upEnd, peer, link>> => SocketTypeOK'
  BY DEF ShutDown
<1>4. ASSUME CloseLink(c)
      PROVE  SocketTypeOK'
  <2>1. down' \in [Conns -> Seq(Frame)]
    BY <1>4, CutType DEF CloseLink
  <2>2. up' \in [Conns -> Seq(Frame)]
    BY <1>4 DEF CloseLink
  <2>3. QED
    BY <1>4, <2>1, <2>2 DEF CloseLink, ShutDown
<1>5. UNCHANGED sockVars => SocketTypeOK'
  BY DEF sockVars
<1>6. DropFromBacklog(c) => SocketTypeOK'
  BY DEF DropFromBacklog
<1>7. QED
  BY <1>1, <1>2, <1>3, <1>4, <1>5, <1>6

LEMMA SessionOps ==
    ASSUME NEW s \in SessionType
    PROVE  /\ NewSession \in SessionType
           /\ \A pc \in Pcs : Goto(s, pc) \in SessionType
           /\ Touch(s) \in SessionType
           /\ Terminated(s) \in SessionType
           /\ [s EXCEPT !.idle = TRUE] \in SessionType
           /\ [s EXCEPT !.reports = @ + 1] \in SessionType
           /\ \A status \in Status : queueAck(s, status) \in SessionType
           /\ s.parser # <<>> => Taken(s) \in SessionType
<1> USE DEF SessionType, Pcs
<1>1. NewSession \in SessionType
  BY DEF NewSession
<1>2. \A pc \in Pcs : Goto(s, pc) \in SessionType
  BY DEF Goto
<1>3. Touch(s) \in SessionType
  BY DEF Touch
<1>4. Terminated(s) \in SessionType
  <2>1. s.reports + 1 \in Nat
    OBVIOUS
  <2>2. \A n \in Nat : [s EXCEPT !.terminated = TRUE, !.reports = n] \in SessionType
    OBVIOUS
  <2>3. s.reports \in Nat
    OBVIOUS
  <2>4. QED
    BY ONLY <2>1, <2>2, <2>3, s \in SessionType DEF Terminated
<1>5. [s EXCEPT !.idle = TRUE] \in SessionType
  OBVIOUS
<1>6. [s EXCEPT !.reports = @ + 1] \in SessionType
  <2>1. s.reports + 1 \in Nat
    OBVIOUS
  <2>2. \A n \in Nat : [s EXCEPT !.reports = n] \in SessionType
    OBVIOUS
  <2>3. QED
    BY ONLY <2>1, <2>2
<1>7. ASSUME NEW status \in Status
      PROVE  queueAck(s, status) \in SessionType
  <2>1. InTwoPieces(Ack(status)) \in Seq(Frame)
    BY FrameCases DEF InTwoPieces
  <2>2. <<>> \in Seq(Frame)
    OBVIOUS
  <2>3. \A o, p \in Seq(Frame) :
           [s EXCEPT !.out = o, !.state = "SendingAck", !.parser = p, !.pc = "write"]
             \in SessionType
    OBVIOUS
  <2>4. QED
    BY ONLY <2>1, <2>2, <2>3 DEF queueAck
<1>8. s.parser # <<>> => Taken(s) \in SessionType
  BY StreamSteps DEF Taken
<1>9. QED
  BY <1>1, <1>2, <1>3, <1>4, <1>5, <1>6, <1>7, <1>8

\* A step that replaces one session by a well-typed one, and at most drops its
\* writer, keeps the server's own variables well-typed.
SessionVarsOK ==
    /\ sess \in [Conns -> SessionType]
    /\ writer \in [Conns -> [fd : BOOLEAN, temp : BOOLEAN, bytes : Seq(Bytes)]]
    /\ stored \in [Conns -> Seq(Seq(Bytes))]

LEMMA SetTypes ==
    ASSUME SessionVarsOK, NEW c \in Conns, NEW s \in SessionType, Set(c, s),
           UNCHANGED stored, UNCHANGED writer \/ AbortWriter(c)
    PROVE  SessionVarsOK'
<1>1. sess' \in [Conns -> SessionType]
  BY DEF SessionVarsOK, Set
<1>2. NoWriter \in [fd : BOOLEAN, temp : BOOLEAN, bytes : Seq(Bytes)]
  BY DEF NoWriter
<1>3. writer' \in [Conns -> [fd : BOOLEAN, temp : BOOLEAN, bytes : Seq(Bytes)]]
  BY <1>2 DEF SessionVarsOK, AbortWriter
<1>4. QED
  BY <1>1, <1>3 DEF SessionVarsOK

LEMMA TermTypes ==
    ASSUME SessionVarsOK, NEW c \in Conns, UNCHANGED stored
    PROVE  /\ \A pc \in Pcs : terminate(c, pc) => SessionVarsOK'
           /\ \A status \in Status : fail(c, status) => SessionVarsOK'
<1>1. ASSUME NEW pc \in Pcs, terminate(c, pc)
      PROVE  SessionVarsOK'
  <2>1. Goto(Terminated(sess[c]), pc) \in SessionType
    BY SessionOps DEF SessionVarsOK
  <2>2. QED
    BY <1>1, <2>1, SetTypes DEF terminate
<1>2. ASSUME NEW status \in Status, fail(c, status)
      PROVE  SessionVarsOK'
  <2>1. [sess[c] EXCEPT !.reports = @ + 1] \in SessionType
    BY SessionOps DEF SessionVarsOK
  <2>2. queueAck([sess[c] EXCEPT !.reports = @ + 1], status) \in SessionType
    BY <2>1, SessionOps
  <2>3. QED
    BY <1>2, <2>2, SetTypes DEF fail
<1>3. QED
  BY <1>1, <1>2

\* The steps of the server's code around a session.
LEMMA ServerStepTypes ==
    ASSUME TypeOK, NEW c \in Conns, ServerStep(c) \/ Quiet(c)
    PROVE  TypeOK'
<1> DEFINE s == sess[c]
<1>0. /\ SocketTypeOK /\ SessionVarsOK /\ s \in SessionType
      /\ {"idle", "read", "write", "drop", "busy", "refused"} \subseteq Pcs
      /\ Ack("Busy") \in Frame
  BY FrameCases DEF TypeOK, SessionVarsOK, Pcs, Status
<1>1. SUFFICES SocketTypeOK' /\ SessionVarsOK'
  BY DEF TypeOK, SessionVarsOK
<1>2. CASE Accept(c) \/ Refuse(c)
  <2>1. NewSession \in SessionType /\ Goto(NewSession, "busy") \in SessionType
    BY <1>0, SessionOps
  <2>2. QED
    BY <1>0, <1>2, <2>1, SetTypes, ServerTypes DEF Accept, Refuse
<1>3. CASE RefuseWrite(c)
  <2>1. SessionVarsOK'
    BY <1>0, <1>3, SessionOps, SetTypes DEF RefuseWrite
  <2>2. SocketTypeOK'
    BY <1>0, <1>3, ServerTypes DEF RefuseWrite, sockVars
  <2>3. QED
    BY <2>1, <2>2
<1>4. CASE RefuseClose(c)
  BY <1>0, <1>4, SessionOps, SetTypes, ServerTypes DEF RefuseClose
<1>5. CASE Destroy(c) \/ Crash(c)
  <2>1. SessionVarsOK'
    <3>1. AbortWriter(c) /\ UNCHANGED <<sess, stored>>
      BY <1>5 DEF Destroy, Crash
    <3>2. QED
      BY <1>0, <3>1 DEF SessionVarsOK, AbortWriter, NoWriter
  <2>2. QED
    BY <1>0, <1>5, <2>1, ServerTypes DEF Destroy, Crash
<1>6. CASE Close(c)
  <2>1. Goto(Terminated(s), "idle") \in SessionType
    BY <1>0, SessionOps
  <2>2. QED
    BY <1>0, <1>6, <2>1, SetTypes, ServerTypes DEF Close
<1>7. ASSUME NEW pc \in Pcs, Step(c, pc)
      PROVE  SocketTypeOK' /\ SessionVarsOK'
  <2>1. Goto(s, pc) \in SessionType
    BY <1>0, SessionOps
  <2>2. SessionVarsOK'
    BY <1>0, <1>7, <2>1, SetTypes DEF Step
  <2>3. QED
    BY <1>0, <1>7, <2>2, ServerTypes DEF Step
<1>8. CASE Quiet(c)
  <2>1. [s EXCEPT !.idle = TRUE] \in SessionType
    BY <1>0, SessionOps
  <2>2. QED
    BY <1>0, <1>8, <2>1, SetTypes, ServerTypes DEF Quiet
<1>9. ASSUME NEW events, Handle(c, events)
      PROVE  SocketTypeOK' /\ SessionVarsOK'
  <2>1. CASE Step(c, "read") \/ Step(c, "write")
    BY <1>0, <1>7, <2>1
  <2>2. CASE terminate(c, "drop") /\ UNCHANGED <<sockVars, stored>>
    BY <1>0, <2>2, TermTypes, ServerTypes
  <2>3. CASE Set(c, Goto(s, "drop")) /\ UNCHANGED <<writer, sockVars, stored>>
    BY <1>0, <2>3, SessionOps, SetTypes, ServerTypes
  <2>4. QED
    BY <1>9, <2>1, <2>2, <2>3 DEF Handle
<1>10. CASE LeaveUnaccepted(c)
  BY <1>0, <1>10, ServerTypes DEF LeaveUnaccepted, SessionVarsOK
<1>11. QED
  BY <1>0, <1>2, <1>3, <1>4, <1>5, <1>6, <1>7, <1>8, <1>9, <1>10
     DEF ServerStep, CloseSession, SweepClose, Rearm

\* The steps of a handler.
LEMMA HandlerStepTypes ==
    ASSUME TypeOK, NEW c \in Conns, HandlerStep(c)
    PROVE  TypeOK'
<1> DEFINE s == sess[c]
           frame == Head(s.parser)
<1>0. /\ SocketTypeOK /\ SessionVarsOK /\ s \in SessionType
      /\ {"read", "frames", "keep", "drop"} \subseteq Pcs
      /\ {"ProtocolError", "SizeMismatch", "CrcMismatch", "IoError", "Ok"}
           \subseteq Status
      /\ up[c] \in Seq(Frame)
      /\ s.parser \in Seq(Frame)
      /\ s.parser # <<>> => frame \in Frame /\ Taken(s) \in SessionType
  <2>1. /\ SocketTypeOK /\ SessionVarsOK /\ s \in SessionType
        /\ up[c] \in Seq(Frame)
    BY DEF TypeOK, SessionVarsOK, SocketTypeOK
  <2>2. s.parser \in Seq(Frame)
    BY <2>1 DEF SessionType
  <2>3. QED
    BY <2>1, <2>2, SessionOps, StreamSteps DEF Pcs, Status
<1>1. SUFFICES SocketTypeOK' /\ SessionVarsOK'
  BY DEF TypeOK, SessionVarsOK
<1> HIDE DEF s, frame
<1>2. ASSUME NEW pc \in Pcs, Step(c, pc)
      PROVE  SocketTypeOK' /\ SessionVarsOK'
  <2>1. Goto(s, pc) \in SessionType
    BY <1>0, SessionOps
  <2>2. SessionVarsOK'
    BY <1>0, <1>2, <2>1, SetTypes DEF Step, s
  <2>3. QED
    BY <1>0, <1>2, <2>2, ServerTypes DEF Step
<1>3. ASSUME NEW status \in Status, fail(c, status), UNCHANGED sockVars
      PROVE  SocketTypeOK' /\ SessionVarsOK'
  BY <1>0, <1>3, TermTypes, ServerTypes DEF fail
<1>4. ASSUME UNCHANGED sockVars,
             UNCHANGED stored, terminate(c, "drop")
      PROVE  SocketTypeOK' /\ SessionVarsOK'
  BY <1>0, <1>4, TermTypes, ServerTypes
<1>5. CASE ReadData(c)
  <2>1. PICK n \in 1..Len(up[c]) :
          /\ up' = [up EXCEPT ![c] = SubSeq(@, n + 1, Len(@))]
          /\ Set(c, IF s.state = "Receiving"
                    THEN [Touch(s) EXCEPT !.parser = @ \o SubSeq(up[c], 1, n),
                                          !.pc = "frames"]
                    ELSE Touch(s))
    BY <1>5 DEF ReadData, s
  <2>2. /\ SubSeq(up[c], 1, n) \in Seq(Frame)
        /\ SubSeq(up[c], n + 1, Len(up[c])) \in Seq(Frame)
    BY <1>0, StreamSteps
  <2>3. SocketTypeOK'
    <3>1. up' \in [Conns -> Seq(Frame)]
      BY <1>0, <2>1, <2>2 DEF SocketTypeOK
    <3>2. QED
      BY <1>0, <1>5, <3>1 DEF ReadData, SocketTypeOK
  <2>4. Touch(s) \in SessionType /\ Touch(s).parser = s.parser
    BY <1>0, SessionOps DEF Touch, SessionType
  <2>5. s.parser \o SubSeq(up[c], 1, n) \in Seq(Frame)
    BY <1>0, <2>2, ConcatProperties
  <2>6. \A t \in SessionType, p \in Seq(Frame), pc \in Pcs :
           [t EXCEPT !.parser = p, !.pc = pc] \in SessionType
    BY DEF SessionType
  <2>7. [Touch(s) EXCEPT !.parser = @ \o SubSeq(up[c], 1, n), !.pc = "frames"]
           \in SessionType
    BY <1>0, <2>4, <2>5, <2>6
  <2>8. SessionVarsOK'
    BY <1>0, <1>5, <2>1, <2>4, <2>7, SetTypes DEF ReadData
  <2>9. QED
    BY <2>3, <2>8
<1>6. CASE ReadEof(c)
  <2>1. CASE terminate(c, "drop")
    BY <1>6, <2>1, <1>4 DEF ReadEof
  <2>2. CASE Set(c, Goto(s, "drop")) /\ UNCHANGED writer
    BY <1>0, <1>6, <2>2, SessionOps, SetTypes, ServerTypes DEF ReadEof
  <2>3. QED
    BY <1>6, <2>1, <2>2 DEF ReadEof, s
<1>7. CASE ReadError(c)
  BY <1>4, <1>7 DEF ReadError
<1>8. CASE \/ ReadAgain(c) \/ NeedMore(c)
           \/ WriteAgain(c) \/ WriteError(c)
  BY <1>0, <1>2, <1>8
     DEF ReadAgain, NeedMore, WriteAgain, WriteError
<1>9. CASE PartialFrame(c)
  BY <1>0, <1>9, SetTypes, ServerTypes DEF PartialFrame, Offers, s
<1>10. CASE BadFrame(c) \/ OnAckFrame(c)
  BY <1>0, <1>3, <1>10 DEF BadFrame, OnAckFrame
<1>11. CASE OnHello(c)
  <2> DEFINE greeted == [Taken(s) EXCEPT !.hello = TRUE, !.expected = frame.size]
  <2>1. CASE fail(c, "ProtocolError") /\ UNCHANGED sockVars
    BY <1>0, <1>3, <2>1
  <2>2. ASSUME ~fail(c, "ProtocolError")
        PROVE  greeted \in SessionType
    <3>1. frame.size \in Nat /\ Taken(s) \in SessionType
      BY <1>0, <1>11, <2>2, FrameFields DEF OnHello, Offers, s, frame
    <3>2. QED
      BY ONLY <3>1 DEF SessionType
  <2>3. CASE /\ greeted \in SessionType
             /\ Set(c, greeted) /\ UNCHANGED stored /\ UNCHANGED sockVars
             /\ writer' = [writer EXCEPT ![c] =
                             [fd |-> TRUE, temp |-> TRUE, bytes |-> <<>>]]
    <3> HIDE DEF greeted
    <3>1. [fd |-> TRUE, temp |-> TRUE, bytes |-> <<>>]
            \in [fd : BOOLEAN, temp : BOOLEAN, bytes : Seq(Bytes)]
      OBVIOUS
    <3>2. SessionVarsOK'
      BY <1>0, <2>3, <3>1 DEF SessionVarsOK, Set
    <3>3. QED
      BY <1>0, <2>3, <3>2, ServerTypes
  <2>4. CASE /\ greeted \in SessionType
             /\ Set(c, queueAck([greeted EXCEPT !.reports = @ + 1], "IoError"))
             /\ AbortWriter(c) /\ UNCHANGED stored /\ UNCHANGED sockVars
    <3> HIDE DEF greeted
    <3>1. queueAck([greeted EXCEPT !.reports = @ + 1], "IoError") \in SessionType
      BY <1>0, <2>4, SessionOps
    <3>2. QED
      BY <1>0, <2>4, <3>1, SetTypes, ServerTypes
  <2>5. QED
    BY <1>11, <2>1, <2>2, <2>3, <2>4 DEF OnHello, s, frame
<1>12. CASE OnData(c)
  <2> DEFINE fed == [Taken(s) EXCEPT !.hashed = @ \o frame.data,
                                     !.received = @ + Len(frame.data)]
  <2>1. frame.data \in Seq(Bytes) /\ Taken(s) \in SessionType
    BY <1>0, <1>12, FrameFields DEF OnData, Offers, s, frame
  <2>2. fed \in SessionType
    <3>1. \A t \in SessionType, h \in Seq(Bytes), n \in Nat :
             [t EXCEPT !.hashed = h, !.received = n] \in SessionType
      BY DEF SessionType
    <3>2. Taken(s).hashed \in Seq(Bytes) /\ Taken(s).received \in Nat
      BY <2>1 DEF SessionType
    <3>3. /\ Taken(s).hashed \o frame.data \in Seq(Bytes)
          /\ Taken(s).received + Len(frame.data) \in Nat
      BY <2>1, <3>2, ConcatProperties, LenProperties
    <3>4. QED
      BY <2>1, <3>1, <3>3
  <2> HIDE DEF fed
  <2>3. CASE \E status \in Status : fail(c, status)
    BY <1>0, <1>3, <1>12, <2>3 DEF OnData
  <2>4. CASE /\ Set(c, fed) /\ UNCHANGED stored
             /\ writer' = [writer EXCEPT ![c].bytes = @ \o frame.data]
    <3>1. sess' \in [Conns -> SessionType]
      BY <1>0, <2>2, <2>4 DEF SessionVarsOK, Set
    <3>2. writer[c].bytes \o frame.data \in Seq(Bytes)
      BY <1>0, <2>1, ConcatProperties DEF SessionVarsOK
    <3>3. writer' \in [Conns -> [fd : BOOLEAN, temp : BOOLEAN, bytes : Seq(Bytes)]]
      BY <1>0, <2>4, <3>2 DEF SessionVarsOK
    <3>4. QED
      BY <1>0, <1>12, <2>4, <3>1, <3>3, ServerTypes DEF OnData, SessionVarsOK
  <2>5. QED
    BY <1>0, <1>12, <2>3, <2>4 DEF OnData, s, frame, fed
<1>13. CASE OnEnd(c)
  <2>1. CASE \E status \in Status : fail(c, status)
    BY <1>0, <1>3, <1>13, <2>1 DEF OnEnd
  <2>2. CASE /\ stored' = [stored EXCEPT ![c] = Append(@, writer[c].bytes)]
             /\ AbortWriter(c)
             /\ Set(c, queueAck([Taken(s) EXCEPT !.completed = TRUE], "Ok"))
    <3>1. [Taken(s) EXCEPT !.completed = TRUE] \in SessionType
      <4>1. Taken(s) \in SessionType
        BY <1>0, <1>13 DEF OnEnd, Offers, s
      <4>2. QED
        BY <4>1 DEF SessionType
    <3>2. queueAck([Taken(s) EXCEPT !.completed = TRUE], "Ok") \in SessionType
      BY <1>0, <3>1, SessionOps
    <3>3. sess' \in [Conns -> SessionType]
      BY <1>0, <2>2, <3>2 DEF SessionVarsOK, Set
    <3>4. NoWriter \in [fd : BOOLEAN, temp : BOOLEAN, bytes : Seq(Bytes)]
      BY DEF NoWriter
    <3>5. writer' \in [Conns -> [fd : BOOLEAN, temp : BOOLEAN, bytes : Seq(Bytes)]]
      BY <1>0, <2>2, <3>4 DEF SessionVarsOK, AbortWriter
    <3>6. Append(stored[c], writer[c].bytes) \in Seq(Seq(Bytes))
      BY <1>0 DEF SessionVarsOK
    <3>7. stored' \in [Conns -> Seq(Seq(Bytes))]
      BY <1>0, <2>2, <3>6 DEF SessionVarsOK
    <3>8. QED
      BY <1>0, <1>13, <3>3, <3>5, <3>7, ServerTypes DEF OnEnd, SessionVarsOK
  <2>3. QED
    BY <1>0, <1>13, <2>1, <2>2 DEF OnEnd, s, frame
<1>14. CASE WriteAck(c)
  <2>1. Head(s.out) \in Frame /\ Touch(s) \in SessionType
    BY <1>0, <1>14, SessionOps, StreamSteps DEF WriteAck, SessionType, s
  <2>2. [Touch(s) EXCEPT !.out = Tail(@)] \in SessionType
    <3>1. \A t \in SessionType : t.out # <<>> => [t EXCEPT !.out = Tail(@)] \in SessionType
      BY StreamSteps DEF SessionType
    <3>2. Touch(s).out # <<>>
      BY <1>0, <1>14 DEF WriteAck, Touch, SessionType, s
    <3>3. QED
      BY <2>1, <3>1, <3>2
  <2>3. SessionVarsOK'
    BY <1>0, <1>14, <2>2, SetTypes DEF WriteAck, s
  <2>4. QED
    BY <1>0, <1>14, <2>1, <2>3, ServerTypes DEF WriteAck, s
<1>15. CASE AckSent(c)
  <2>1. Touch(s) \in SessionType
    BY <1>0, SessionOps
  <2>2. [Touch(s) EXCEPT !.state = "Draining", !.pc = "keep"] \in SessionType
    BY <1>0, <2>1 DEF SessionType
  <2>3. SessionVarsOK'
    BY <1>0, <1>15, <2>2, SetTypes DEF AckSent, s
  <2>4. QED
    BY <1>0, <1>15, <2>3, ServerTypes DEF AckSent
<1>16. QED
  BY <1>5, <1>6, <1>7, <1>8, <1>9, <1>10, <1>11, <1>12, <1>13, <1>14, <1>15
     DEF HandlerStep

LEMMA TypeStep ==
    ASSUME TypeOK, [Next]_vars
    PROVE  TypeOK'
<1>1. ASSUME NEW c \in Conns, Peer(c)
      PROVE  TypeOK'
  BY <1>1, ClientTypes, PeerAssumption DEF Peer, TypeOK, sessionVars
<1>2. CASE UNCHANGED vars
  BY <1>2 DEF vars, sockVars, TypeOK, SocketTypeOK
<1>3. QED
  BY <1>1, <1>2, HandlerStepTypes, ServerStepTypes DEF Next, SessionStep

\* Each variable of a session and of its sockets keeps its type for ever.
THEOREM TypeCorrect == Spec => []TypeOK
<1>1. Init => TypeOK
  BY DEF Init, SocketInit, TypeOK, SocketTypeOK, Ends, NewSession, NoWriter,
         SessionType, Pcs
<1>2. QED
  BY <1>1, TypeStep, PTL DEF Spec

-----------------------------------------------------------------------------
(* The inductive invariant.                                                *)

\* A step of one connection leaves the others alone.
LEMMA Untouched ==
    ASSUME TypeOK, NEW c \in Conns, NEW d \in Conns \ {c},
           Peer(c) \/ SessionStep(c)
    PROVE  /\ sess'[d] = sess[d] /\ writer'[d] = writer[d]
           /\ stored'[d] = stored[d]
           /\ up'[d] = up[d] /\ down'[d] = down[d]
           /\ upEnd'[d] = upEnd[d] /\ downEnd'[d] = downEnd[d]
           /\ peer'[d] = peer[d] /\ link'[d] = link[d]
<1> USE DEF TypeOK, SocketTypeOK, sockVars
<1>1. CASE Peer(c)
  BY <1>1 DEF Peer, Connect, Send, Receive, ShutUp, Hangup, Reset, Cut, sessionVars
<1>2. CASE Quiet(c)
  BY <1>2 DEF Quiet, Set
<1>3. CASE Accept(c) \/ Refuse(c) \/ LeaveUnaccepted(c)
  BY <1>3 DEF Accept, Refuse, LeaveUnaccepted, TakeFromBacklog, DropFromBacklog,
              Set
<1>4. CASE RefuseWrite(c)
  BY <1>4 DEF RefuseWrite, PutDown, Cut, Set
<1>5. CASE \/ RefuseClose(c) \/ Destroy(c) \/ Crash(c)
           \/ CloseSession(c) \/ SweepClose(c)
  BY <1>5 DEF RefuseClose, Destroy, Crash, CloseSession, SweepClose, Close,
              CloseLink, ShutDown, Cut, Set, AbortWriter
<1>6. CASE Rearm(c) \/ \E events \in SUBSET {"IN", "OUT", "HUP"} : Handle(c, events)
  BY <1>6 DEF Rearm, Handle, Step, terminate, Set, AbortWriter
<1>7. CASE ReadData(c) \/ ReadEof(c) \/ ReadError(c) \/ ReadAgain(c)
  BY <1>7 DEF ReadData, ReadEof, ReadError, ReadAgain, Step, terminate, Set,
              AbortWriter
<1>8. CASE NeedMore(c) \/ PartialFrame(c) \/ BadFrame(c) \/ OnAckFrame(c)
  BY <1>8 DEF NeedMore, PartialFrame, BadFrame, OnAckFrame, Step, fail, Set,
              AbortWriter
<1>9. CASE OnHello(c)
  BY <1>9 DEF OnHello, fail, Set, AbortWriter
<1>10. CASE OnData(c)
  BY <1>10 DEF OnData, fail, Set, AbortWriter
<1>11. CASE OnEnd(c)
  BY <1>11 DEF OnEnd, fail, Set, AbortWriter
<1>12. CASE WriteAgain(c) \/ WriteError(c)
  BY <1>12 DEF WriteAgain, WriteError, Step, Set
<1>13. CASE WriteAck(c) \/ AckSent(c)
  BY <1>13 DEF WriteAck, AckSent, PutDown, ShutDown, Cut, Set
<1>14. QED
  BY <1>1, <1>2, <1>3, <1>4, <1>5, <1>6, <1>7, <1>8, <1>9, <1>10, <1>11, <1>12,
     <1>13 DEF SessionStep, ServerStep, HandlerStep

LEMMA SameKeeps ==
    ASSUME NEW d \in Conns, ConnInv(d),
           /\ sess'[d] = sess[d] /\ writer'[d] = writer[d]
           /\ stored'[d] = stored[d]
           /\ up'[d] = up[d] /\ down'[d] = down[d]
           /\ upEnd'[d] = upEnd[d] /\ downEnd'[d] = downEnd[d]
           /\ peer'[d] = peer[d] /\ link'[d] = link[d]
    PROVE  ConnInv(d)'
<1>1. CountsInv(sess'[d]) /\ ControlInv(sess'[d])
  BY DEF ConnInv
<1>2. WriterInv(d)' /\ StoredInv(d)'
  BY DEF ConnInv, WriterInv, StoredInv
<1>3. AckInv(d)'
  BY DEF ConnInv, AckInv, Undecided, AckIn
<1>4. GraceInv(d)'
  BY DEF ConnInv, GraceInv, At
<1>5. QED
  BY <1>1, <1>2, <1>3, <1>4 DEF ConnInv, CountsInv, ControlInv

LEMMA OthersKeep ==
    ASSUME TypeOK, NEW c \in Conns, NEW d \in Conns \ {c}, ConnInv(d),
           Peer(c) \/ SessionStep(c)
    PROVE  ConnInv(d)'
  BY Untouched, SameKeeps

\* The client's own steps cannot disturb its session.
LEMMA PeerKeeps ==
    ASSUME IInv, NEW c \in Conns, Peer(c)
    PROVE  ConnInv(c)'
<1> USE DEF IInv, TypeOK, SocketTypeOK
<1>0. ConnInv(c) /\ UNCHANGED <<sess, writer, stored>> /\ down[c] \in Seq(Frame)
  BY DEF Peer, sessionVars
<1>1. ASSUME NEW status \in Status, AckIn(down'[c], status)
      PROVE  AckIn(down[c], status)
  <2>1. CASE down'[c] = down[c]
    BY <1>1, <2>1
  <2>2. CASE down[c] # <<>> /\ down'[c] = Tail(down[c])
    BY <1>0, <1>1, <2>2, AckSteps
  <2>3. CASE \E n \in 0..Len(down[c]) : down'[c] = SubSeq(down[c], 1, n)
    BY <1>0, <1>1, <2>3, AckSteps
  <2>4. CASE down'[c] = <<>>
    BY <1>1, <2>4, AckSteps
  <2>5. QED
    BY <2>1, <2>2, <2>3, <2>4
       DEF Peer, Connect, Send, Receive, ShutUp, Hangup, Reset, Cut
<1>2. /\ link'[c] = link[c] \/ (link[c] = "none" /\ link'[c] = "backlog")
      /\ GraceInv(c)'
  <2>1. CASE Connect(c)
    BY <1>0, <2>1 DEF Connect, ConnInv, GraceInv, At
  <2>2. CASE Receive(c) \/ ShutUp(c)
    BY <1>0, <2>2 DEF Receive, ShutUp, ConnInv, GraceInv, At
  <2>3. CASE Hangup(c) \/ Reset(c)
    BY <1>0, <2>3 DEF Hangup, Reset, ConnInv, GraceInv, At
  <2>4. ASSUME NEW f \in PeerFrames, Send(c, f)
        PROVE  link'[c] = link[c] /\ GraceInv(c)'
    BY <1>0, <2>4 DEF Send, CanSend, ConnInv, GraceInv, At
  <2>5. QED
    BY <2>1, <2>2, <2>3, <2>4 DEF Peer
<1>3. CountsInv(sess[c])' /\ ControlInv(sess[c])'
  BY <1>0 DEF ConnInv, CountsInv, ControlInv
<1>4. WriterInv(c)' /\ StoredInv(c)'
  BY <1>0, <1>2 DEF ConnInv, WriterInv, StoredInv
<1>5. AckInv(c)'
  BY <1>0, <1>1, <1>2 DEF ConnInv, AckInv, Undecided
<1>6. QED
  BY <1>2, <1>3, <1>4, <1>5 DEF ConnInv

\* A step inside an open session that decides nothing and writes nothing:
\* where the thread is, the clock, the parser or the log change.
SameData(s, t) ==
    /\ t.state = s.state /\ t.hello = s.hello /\ t.completed = s.completed
    /\ t.expected = s.expected /\ t.received = s.received
    /\ t.hashed = s.hashed /\ t.out = s.out

LEMMA MoveKeeps ==
    ASSUME IInv, NEW c \in Conns, NEW t \in SessionType, Set(c, t),
           SameData(sess[c], t), ControlInv(t), GraceInv(c)',
           link[c] = "open", UNCHANGED <<stored, link, down>>,
           sess[c].pc # "refused",
           \/ /\ UNCHANGED writer
              /\ sess[c].pc \in {"idle", "read", "frames", "keep"}
                   \/ t.pc \notin {"idle", "read", "frames", "keep"}
                   \/ t.state # "Receiving"
           \/ /\ AbortWriter(c)
              /\ t.pc = "drop"
    PROVE  ConnInv(c)'
<1> USE DEF IInv, TypeOK, SocketTypeOK
<1>0. ConnInv(c) /\ sess'[c] = t
  BY DEF Set
<1>1. CountsInv(sess[c])' /\ ControlInv(sess[c])' /\ StoredInv(c)'
  BY <1>0 DEF ConnInv, CountsInv, ControlInv, StoredInv, SameData
<1>2. CASE UNCHANGED writer
  <2>1. WriterInv(c)'
    BY <1>0, <1>2 DEF ConnInv, WriterInv, SameData, AbortWriter, NoWriter
  <2>2. QED
    BY <1>0, <1>1, <2>1 DEF ConnInv, AckInv, Undecided, SameData
<1>3. CASE AbortWriter(c) /\ t.pc = "drop"
  <2>1. WriterInv(c)'
    BY <1>0, <1>3 DEF WriterInv, AbortWriter, NoWriter
  <2>2. QED
    BY <1>0, <1>1, <2>1 DEF ConnInv, AckInv, Undecided, SameData
<1>4. QED
  BY <1>2, <1>3

\* A negative verdict: fail, from wherever processFrames calls it.
LEMMA RejectKeeps ==
    ASSUME IInv, NEW c \in Conns, At(c, "frames"),
           NEW t \in SessionType, CountsInv(t), ~t.completed,
           NEW status \in Status \ {"Ok"}, Set(c, queueAck(t, status)),
           AbortWriter(c), UNCHANGED stored, UNCHANGED sockVars
    PROVE  ConnInv(c)'
<1> USE DEF IInv, TypeOK, SocketTypeOK
<1> DEFINE u == queueAck(t, status)
<1>0. /\ ConnInv(c) /\ sess'[c] = u
      /\ u.hello = t.hello /\ u.completed = FALSE /\ u.expected = t.expected
      /\ u.received = t.received /\ u.hashed = t.hashed /\ u.pc = "write"
      /\ u.state = "SendingAck" /\ u.out = InTwoPieces(Ack(status))
  BY DEF Set, queueAck, SessionType
<1> HIDE DEF u
<1>1. sess[c].state = "Receiving" /\ ~sess[c].completed /\ link[c] = "open"
      /\ sess[c].pc = "frames"
  BY <1>0 DEF ConnInv, ControlInv, At
<1>2. /\ writer'[c] = NoWriter /\ stored'[c] = stored[c] /\ link'[c] = "open"
      /\ down'[c] = down[c] /\ up'[c] = up[c] /\ upEnd'[c] = upEnd[c]
      /\ downEnd'[c] = downEnd[c] /\ peer'[c] = peer[c]
  BY <1>1 DEF AbortWriter, sockVars
<1>3. CountsInv(sess[c])' /\ ControlInv(sess[c])'
  BY <1>0 DEF CountsInv, ControlInv
<1>4. WriterInv(c)' /\ StoredInv(c)'
  BY <1>0, <1>1, <1>2 DEF WriterInv, StoredInv, ConnInv, NoWriter
<1>5. AckInv(c)'
  <2>1. ASSUME NEW st \in Status, AckIn(u.out, st)
        PROVE  (st = "Ok") = u.completed
    BY <1>0, <2>1, AckPieces
  <2>2. ASSUME NEW st \in Status
        PROVE  ~AckIn(down[c], st)
    BY <1>0, <1>1, <2>2 DEF ConnInv, AckInv, Undecided
  <2>3. QED
    BY <1>0, <1>2, <2>1, <2>2 DEF AckInv
<1>6. GraceInv(c)'
  BY <1>0, <1>1, <1>2 DEF ConnInv, GraceInv, At
<1>7. QED
  BY <1>3, <1>4, <1>5, <1>6 DEF ConnInv

LEMMA SetValue ==
    ASSUME TypeOK, NEW c \in Conns, NEW t, Set(c, t)
    PROVE  sess'[c] = t
  BY DEF Set, TypeOK

LEMMA MoveData ==
    ASSUME NEW s \in SessionType, NEW pc \in Pcs
    PROVE  /\ SameData(s, Goto(s, pc)) /\ Goto(s, pc).pc = pc
           /\ SameData(s, Goto(Terminated(s), pc))
           /\ Goto(Terminated(s), pc).pc = pc
           /\ SameData(s, Touch(s)) /\ Touch(s).pc = s.pc
  BY DEF SameData, Goto, Terminated, Touch, SessionType

LEMMA StepKeeps ==
    ASSUME IInv, NEW c \in Conns, NEW pc \in Pcs, Step(c, pc), link[c] = "open",
           ControlInv(Goto(sess[c], pc)),
           sess[c].pc \in {"idle", "read", "frames", "keep"}
             \/ sess[c].state # "Receiving",
           pc = "drop" /\ peer[c] = "open" => up[c] = <<>> /\ upEnd[c] = "fin"
    PROVE  ConnInv(c)'
<1> USE DEF IInv, TypeOK, SocketTypeOK
<1> DEFINE t == Goto(sess[c], pc)
<1>0. /\ t \in SessionType /\ SameData(sess[c], t) /\ t.pc = pc
      /\ sess'[c] = t /\ UNCHANGED <<sockVars, writer, stored>> /\ ConnInv(c)
      /\ Set(c, t)
  BY SessionOps, MoveData DEF Step, Set
<1> HIDE DEF t
<1>1. GraceInv(c)'
  BY <1>0 DEF ConnInv, GraceInv, At, SameData, sockVars
<1>2. sess[c].pc # "refused"
  BY <1>0 DEF ConnInv, ControlInv
<1>3. t.state = sess[c].state
  BY <1>0 DEF SameData
<1>4. QED
  BY <1>0, <1>1, <1>2, <1>3, MoveKeeps DEF t, sockVars

LEMMA TerminateKeeps ==
    ASSUME IInv, NEW c \in Conns, terminate(c, "drop"), link[c] = "open",
           UNCHANGED <<sockVars, stored>>, sess[c].pc \in {"idle", "read"},
           peer[c] = "open" => up[c] = <<>> /\ upEnd[c] = "fin"
    PROVE  ConnInv(c)'
<1> USE DEF IInv, TypeOK, SocketTypeOK
<1> DEFINE t == Goto(Terminated(sess[c]), "drop")
<1>0. /\ t \in SessionType /\ SameData(sess[c], t) /\ t.pc = "drop"
      /\ Set(c, t) /\ sess'[c] = t /\ ConnInv(c)
  <2>1. sess[c] \in SessionType /\ "drop" \in Pcs
    BY DEF Pcs
  <2>2. Terminated(sess[c]) \in SessionType
    BY <2>1, SessionOps
  <2>3. t \in SessionType
    BY <2>1, <2>2, SessionOps
  <2>4. SameData(sess[c], t) /\ t.pc = "drop"
    BY <2>1, MoveData
  <2>5. Set(c, t)
    BY DEF terminate
  <2>6. sess'[c] = t
    BY <2>5, SetValue DEF t
  <2>7. QED
    BY <2>3, <2>4, <2>5, <2>6
<1>1. UNCHANGED writer \/ AbortWriter(c)
  BY DEF terminate
<1> HIDE DEF t
<1>2. ControlInv(t)
  BY <1>0 DEF ConnInv, ControlInv, SameData
<1>3. GraceInv(c)'
  BY <1>0 DEF ConnInv, GraceInv, At, SameData, sockVars
<1>4. QED
  BY <1>0, <1>1, <1>2, <1>3, MoveKeeps DEF sockVars

\* The steps of the server around a session keep its invariant.
LEMMA ServerStepKeeps ==
    ASSUME IInv, NEW c \in Conns, ServerStep(c) \/ Quiet(c)
    PROVE  ConnInv(c)'
<1> USE DEF IInv, TypeOK, SocketTypeOK
<1>0. ConnInv(c) /\ sess[c] \in SessionType /\ down[c] \in Seq(Frame)
  OBVIOUS
<1>1. CASE Accept(c) \/ Refuse(c)
  <2> DEFINE t == sess'[c]
  <2>1. /\ t.state = "Receiving" /\ ~t.hello /\ ~t.completed /\ t.expected = 0
        /\ t.received = 0 /\ t.hashed = <<>> /\ t.out = <<>>
        /\ t.pc \in {"idle", "busy"}
    <3>1. t = NewSession \/ t = Goto(NewSession, "busy")
      BY <1>1, SetValue DEF Accept, Refuse
    <3>2. QED
      BY ONLY <3>1 DEF NewSession, Goto
  <2>2. /\ link[c] = "backlog" /\ link'[c] = "open"
        /\ UNCHANGED <<up, down, upEnd, downEnd, peer, writer, stored>>
    BY <1>1 DEF Accept, Refuse, TakeFromBacklog
  <2> HIDE DEF t
  <2>3. CountsInv(t) /\ ControlInv(t)
    BY <2>1 DEF CountsInv, ControlInv
  <2>4. WriterInv(c)' /\ StoredInv(c)' /\ GraceInv(c)'
    BY <1>0, <2>1, <2>2 DEF t, ConnInv, WriterInv, StoredInv, GraceInv, At
  <2>5. AckInv(c)'
    <3>1. \A status \in Status : ~AckIn(<<>>, status)
      BY DEF AckIn
    <3>2. QED
      BY <1>0, <2>1, <2>2, <3>1 DEF t, ConnInv, AckInv, Undecided
  <2>6. QED
    BY <2>3, <2>4, <2>5 DEF t, ConnInv
<1>2. CASE RefuseWrite(c)
  <2> DEFINE t == Goto(sess[c], "refused")
  <2>1. /\ sess'[c] = t /\ SameData(sess[c], t) /\ t.pc = "refused"
        /\ link'[c] = "open" /\ link[c] = "open" /\ sess[c].pc = "busy"
        /\ UNCHANGED <<downEnd, peer, writer, stored>>
    <3>1. Set(c, t)
      BY <1>2 DEF RefuseWrite
    <3>2. sess'[c] = t
      BY <3>1, SetValue DEF t
    <3>3. "refused" \in Pcs
      BY DEF Pcs
    <3>4. SameData(sess[c], t) /\ t.pc = "refused"
      BY <1>0, <3>3, MoveData
    <3>5. QED
      BY <1>2, <3>2, <3>4 DEF RefuseWrite, At
  <2> HIDE DEF t
  <2>2. t.state = "Receiving" /\ ~t.hello /\ ~t.completed /\ t.out = <<>>
    BY <1>0, <2>1 DEF ConnInv, ControlInv, SameData
  <2>3. CountsInv(t) /\ ControlInv(t)
    BY <1>0, <2>1, <2>2 DEF ConnInv, CountsInv, ControlInv, SameData
  <2>4. WriterInv(c)' /\ StoredInv(c)'
    BY <1>0, <2>1, <2>2 DEF ConnInv, WriterInv, StoredInv, ControlInv, SameData
  <2>5. ASSUME NEW status \in Status, AckIn(down'[c], status)
        PROVE  status # "Ok"
    <3>1. "Busy" \in Status /\ Ack("Busy") \in Frame
      BY FrameCases DEF Status
    <3>2. ~AckIn(down[c], status)
      BY <1>0, <2>1, <2>2 DEF ConnInv, AckInv, Undecided, SameData
    <3>3. AckIn(down[c], status) \/ Ack("Busy") = Ack(status)
      <4>1. CASE down' = down
        BY <2>5, <4>1
      <4>2. CASE down' = [down EXCEPT ![c] = Append(@, Ack("Busy"))]
        <5>1. down'[c] = Append(down[c], Ack("Busy"))
          BY <4>2
        <5>2. QED
          BY <1>0, <2>5, <3>1, <5>1, AckSteps
      <4>3. QED
        BY <1>2, <4>1, <4>2 DEF RefuseWrite, PutDown
    <3>4. QED
      BY <3>1, <3>2, <3>3, FrameCases
  <2>6. AckInv(c)'
    <3>1. \A status \in Status : ~AckIn(<<>>, status)
      BY DEF AckIn
    <3>2. ~Undecided(c)'
      BY <2>1 DEF Undecided
    <3>3. sess'[c].out = <<>> /\ sess'[c].completed = FALSE
      <4>1. t.completed \in BOOLEAN
        BY <1>0, <2>1 DEF SameData, SessionType
      <4>2. QED
        BY <2>1, <2>2, <4>1
    <3>4. QED
      BY <2>5, <3>1, <3>2, <3>3 DEF AckInv
  <2>7. GraceInv(c)'
    <3>1. CASE upEnd' = upEnd
      BY <1>0, <2>1, <2>2, <3>1 DEF ConnInv, GraceInv, At, SameData
    <3>2. CASE peer[c] = "closed"
      BY <1>0, <2>1, <2>2, <3>2 DEF ConnInv, GraceInv, At, SameData
    <3>3. QED
      BY <1>2, <3>1, <3>2 DEF RefuseWrite, PutDown
  <2>8. QED
    BY <2>1, <2>3, <2>4, <2>6, <2>7 DEF ConnInv
<1>3. ASSUME CloseLink(c), link[c] = "open", sess'[c].out = <<>> \/ sess'[c].out = sess[c].out,
             sess'[c].completed = sess[c].completed,
             stored'[c] = stored[c],
             sess'[c].completed => sess'[c].hashed = sess[c].hashed,
             writer'[c] = NoWriter, CountsInv(sess'[c]), ControlInv(sess'[c])
      PROVE  ConnInv(c)'
  <2>1. link'[c] = "closed" /\ UNCHANGED <<upEnd, peer>>
    BY <1>3 DEF CloseLink
  <2>2. ASSUME NEW status \in Status, AckIn(down'[c], status)
        PROVE  AckIn(down[c], status)
    <3>1. CASE down' = down
      BY <2>2, <3>1
    <3>2. CASE \E n \in 0..Len(down[c]) : down'[c] = SubSeq(down[c], 1, n)
      BY <1>0, <2>2, <3>2, AckSteps
    <3>3. QED
      BY <1>3, <3>1, <3>2 DEF CloseLink, Cut
  <2>3. AckInv(c)'
    <3>1. \A status \in Status : ~AckIn(<<>>, status)
      BY DEF AckIn
    <3>2. QED
      BY <1>0, <1>3, <2>1, <2>2, <3>1 DEF ConnInv, AckInv, Undecided
  <2>4. WriterInv(c)' /\ StoredInv(c)' /\ GraceInv(c)'
    BY <1>0, <1>3, <2>1
       DEF ConnInv, WriterInv, StoredInv, GraceInv, NoWriter, At
  <2>5. QED
    BY <1>3, <2>3, <2>4 DEF ConnInv
<1>4. CASE RefuseClose(c)
  <2>1. sess'[c] = NewSession /\ writer' = writer /\ stored' = stored
        /\ CloseLink(c) /\ link[c] = "open" /\ sess[c].pc = "refused"
    BY <1>4 DEF RefuseClose, Set, At
  <2>2. /\ ~sess[c].completed /\ ~writer[c].temp
    BY <1>0, <2>1 DEF ConnInv, ControlInv, WriterInv
  <2>3. CountsInv(NewSession) /\ ControlInv(NewSession)
    BY DEF CountsInv, ControlInv, NewSession
  <2>4. link'[c] = "closed" /\ UNCHANGED <<upEnd, peer>>
    BY <2>1 DEF CloseLink
  <2>5. WriterInv(c)' /\ StoredInv(c)' /\ GraceInv(c)'
    BY <1>0, <2>1, <2>2, <2>4
       DEF ConnInv, WriterInv, StoredInv, GraceInv, NewSession, At
  <2>6. ASSUME NEW status \in Status, AckIn(down'[c], status)
        PROVE  AckIn(down[c], status)
    <3>1. CASE down' = down
      BY <2>6, <3>1
    <3>2. CASE \E n \in 0..Len(down[c]) : down'[c] = SubSeq(down[c], 1, n)
      BY <1>0, <2>6, <3>2, AckSteps
    <3>3. QED
      BY <2>1, <3>1, <3>2 DEF CloseLink, Cut
  <2>7. AckInv(c)'
    <3>1. \A status \in Status : ~AckIn(NewSession.out, status)
      BY DEF AckIn, NewSession
    <3>2. NewSession.completed = FALSE /\ sess[c].completed = FALSE
      BY <1>0, <2>2 DEF NewSession, SessionType
    <3>3. ~Undecided(c)'
      BY <2>4 DEF Undecided
    <3>4. \A status \in Status : AckIn(down'[c], status) => status # "Ok"
      BY <1>0, <2>6, <3>2 DEF ConnInv, AckInv
    <3>5. QED
      BY <2>1, <3>1, <3>2, <3>3, <3>4 DEF AckInv
  <2>8. QED
    BY <2>1, <2>3, <2>5, <2>7 DEF ConnInv
<1>5. CASE Destroy(c) \/ Crash(c)
  BY <1>0, <1>3, <1>5 DEF Destroy, Crash, AbortWriter, At, ConnInv
<1>6. CASE (CloseSession(c) \/ SweepClose(c)) /\ Close(c)
  <2> DEFINE t == Goto(Terminated(sess[c]), "idle")
  <2>1. SameData(sess[c], t) /\ t.pc = "idle" /\ sess'[c] = t
    <3>1. "idle" \in Pcs
      BY DEF Pcs
    <3>2. Set(c, t)
      BY <1>6 DEF Close
    <3>3. QED
      BY <1>0, <3>1, <3>2, MoveData, SetValue DEF t
  <2> HIDE DEF t
  <2>2. CountsInv(t) /\ ControlInv(t)
    BY <1>0, <2>1 DEF ConnInv, CountsInv, ControlInv, SameData
  <2>3. QED
    BY <1>0, <1>3, <1>6, <2>1, <2>2
       DEF Close, CloseSession, SweepClose, At, SameData, AbortWriter
<1>7. CASE Rearm(c)
  <2>1. ControlInv(Goto(sess[c], "idle"))
    BY <1>0, <1>7, MoveData DEF ConnInv, ControlInv, SameData, Pcs
  <2>2. QED
    BY <1>7, <2>1, StepKeeps DEF Rearm, At, Pcs
<1>8. ASSUME NEW events \in SUBSET {"IN", "OUT", "HUP"}, Handle(c, events)
      PROVE  ConnInv(c)'
  <2>1. link[c] = "open" /\ sess[c].pc = "idle"
    BY <1>8 DEF Handle, At
  <2>2. ASSUME Step(c, "read")
        PROVE  ConnInv(c)'
    <3>1. ControlInv(Goto(sess[c], "read"))
      BY <1>0, <2>1, MoveData DEF ConnInv, ControlInv, SameData, Pcs
    <3>2. QED
      BY <2>1, <2>2, <3>1, StepKeeps DEF Pcs
  <2>3. ASSUME "IN" \notin events
        PROVE  sess[c].state = "SendingAck"
    BY <1>8, <2>3 DEF Handle, interest
  <2>4. ASSUME "IN" \notin events, Step(c, "write")
        PROVE  ConnInv(c)'
    <3>1. ControlInv(Goto(sess[c], "write"))
      BY <1>0, <2>1, <2>3, <2>4, MoveData DEF ConnInv, ControlInv, SameData, Pcs
    <3>2. QED
      BY <2>1, <2>4, <3>1, StepKeeps DEF Pcs
  <2>5. ASSUME "IN" \notin events, "HUP" \in events
        PROVE  peer[c] = "closed"
    <3>1. HungUp(c)
      BY <1>8, <2>3, <2>5 DEF Handle, Reports, interest
    <3>2. downEnd[c] = "open"
      BY <1>0, <2>1, <2>3, <2>5 DEF ConnInv, GraceInv
    <3>3. QED
      BY <1>0, <3>1, <3>2 DEF HungUp, ConnInv, GraceInv
  <2>6. QED
    BY <1>8, <2>1, <2>2, <2>3, <2>4, <2>5, TerminateKeeps DEF Handle
<1>9. CASE Quiet(c)
  <2> DEFINE t == [sess[c] EXCEPT !.idle = TRUE]
  <2>1. /\ t \in SessionType /\ SameData(sess[c], t) /\ t.pc = sess[c].pc
        /\ Set(c, t) /\ sess'[c] = t /\ link[c] = "open"
        /\ UNCHANGED <<sockVars, writer, stored>>
    <3>1. Set(c, t) /\ link[c] = "open" /\ UNCHANGED <<sockVars, writer, stored>>
      BY <1>9 DEF Quiet
    <3>2. t \in SessionType
      BY <1>0, SessionOps
    <3>3. SameData(sess[c], t) /\ t.pc = sess[c].pc
      BY <1>0 DEF SameData, SessionType
    <3>4. QED
      BY <3>1, <3>2, <3>3, SetValue DEF t
  <2> HIDE DEF t
  <2>2. ControlInv(t)
    BY <1>0, <2>1 DEF ConnInv, ControlInv, SameData
  <2>3. GraceInv(c)'
    BY <1>0, <2>1 DEF ConnInv, GraceInv, At, SameData, sockVars
  <2>4. QED
    BY <1>9, <2>1, <2>2, <2>3, MoveKeeps DEF sockVars, Quiet
<1>10. CASE LeaveUnaccepted(c)
  <2>1. /\ link[c] = "backlog" /\ link'[c] = "closed" /\ downEnd'[c] = "rst"
        /\ UNCHANGED <<down, upEnd, peer, sess, writer, stored>>
    BY <1>10 DEF LeaveUnaccepted, DropFromBacklog
  <2>2. CountsInv(sess[c])' /\ ControlInv(sess[c])'
    BY <1>0, <2>1 DEF ConnInv, CountsInv, ControlInv
  <2>3. WriterInv(c)' /\ StoredInv(c)' /\ GraceInv(c)'
    BY <1>0, <2>1 DEF ConnInv, WriterInv, StoredInv, GraceInv, At
  <2>4. AckInv(c)'
    BY <1>0, <2>1 DEF ConnInv, AckInv, Undecided, AckIn
  <2>5. QED
    BY <2>2, <2>3, <2>4 DEF ConnInv
<1>11. QED
  BY <1>1, <1>2, <1>4, <1>5, <1>6, <1>7, <1>8, <1>9, <1>10
     DEF ServerStep, CloseSession, SweepClose

\* The reads and writes of a handler ...
LEMMA InputOutputKeeps ==
    ASSUME IInv, NEW c \in Conns,
           \/ ReadData(c) \/ ReadEof(c) \/ ReadError(c) \/ ReadAgain(c)
           \/ WriteAck(c) \/ WriteAgain(c) \/ WriteError(c)
           \/ AckSent(c)
    PROVE  ConnInv(c)'
<1> USE DEF IInv, TypeOK, SocketTypeOK
<1>0. /\ ConnInv(c) /\ sess[c] \in SessionType
      /\ down[c] \in Seq(Frame) /\ sess[c].out \in Seq(Frame)
      /\ {"read", "frames", "keep", "drop"} \subseteq Pcs
  BY DEF SessionType, Pcs
<1>1. CASE ReadData(c)
  <2>1. PICK n \in 1..Len(up[c]) :
          Set(c, IF sess[c].state = "Receiving"
                 THEN [Touch(sess[c]) EXCEPT !.parser = @ \o SubSeq(up[c], 1, n),
                                             !.pc = "frames"]
                 ELSE Touch(sess[c]))
    BY <1>1 DEF ReadData
  <2> DEFINE t == IF sess[c].state = "Receiving"
                  THEN [Touch(sess[c]) EXCEPT !.parser = @ \o SubSeq(up[c], 1, n),
                                              !.pc = "frames"]
                  ELSE Touch(sess[c])
  <2>2. sess'[c] = t
    BY <2>1, SetValue DEF t
  <2>3. t \in SessionType
    <3>1. TypeOK'
      BY <1>1, HandlerStepTypes DEF HandlerStep
    <3>2. QED
      BY <2>2, <3>1
  <2>4. /\ SameData(sess[c], t)
        /\ IF sess[c].state = "Receiving" THEN t.pc = "frames" ELSE t.pc = "read"
    <3>1. Touch(sess[c]) \in SessionType /\ SameData(sess[c], Touch(sess[c]))
          /\ Touch(sess[c]).pc = sess[c].pc
      BY <1>0, SessionOps, MoveData
    <3>2. \A r \in SessionType : \A p :
             LET q == [r EXCEPT !.parser = p, !.pc = "frames"]
             IN  SameData(r, q) /\ q.pc = "frames"
      BY DEF SameData, SessionType
    <3>3. sess[c].pc = "read"
      BY <1>1 DEF ReadData, At
    <3>4. QED
      BY <3>1, <3>2, <3>3 DEF SameData
  <2>5. Set(c, t)
    BY <2>1
  <2> HIDE DEF t
  <2>6. ControlInv(t)
    BY <1>0, <2>4 DEF ConnInv, ControlInv, SameData
  <2>7. /\ link[c] = "open" /\ sess[c].pc = "read"
        /\ UNCHANGED <<down, upEnd, downEnd, peer, link, writer, stored>>
    BY <1>1 DEF ReadData, At
  <2>8. GraceInv(c)'
    BY <1>0, <2>2, <2>4, <2>7 DEF ConnInv, GraceInv, At, SameData
  <2>9. QED
    BY <2>3, <2>4, <2>5, <2>6, <2>7, <2>8, MoveKeeps
<1>2. CASE ReadEof(c)
  <2>1. /\ link[c] = "open" /\ sess[c].pc = "read" /\ up[c] = <<>>
        /\ upEnd[c] = "fin" /\ UNCHANGED <<sockVars, stored>>
    BY <1>2 DEF ReadEof, At
  <2>2. CASE terminate(c, "drop")
    BY <2>1, <2>2, TerminateKeeps
  <2>3. CASE Set(c, Goto(sess[c], "drop")) /\ UNCHANGED writer
    <3>1. ControlInv(Goto(sess[c], "drop"))
      BY <1>0, MoveData DEF ConnInv, ControlInv, SameData
    <3>2. QED
      BY <1>0, <2>1, <2>3, <3>1, StepKeeps DEF Step
  <2>4. QED
    BY <1>2, <2>2, <2>3 DEF ReadEof
<1>3. CASE ReadError(c)
  <2>1. /\ link[c] = "open" /\ sess[c].pc = "read" /\ upEnd[c] = "rst"
        /\ UNCHANGED <<sockVars, stored>> /\ terminate(c, "drop")
    BY <1>3 DEF ReadError, At
  <2>2. peer[c] = "closed"
    BY <1>0, <2>1 DEF ConnInv, GraceInv
  <2>3. QED
    BY <2>1, <2>2, TerminateKeeps
<1>4. CASE ReadAgain(c)
  <2>1. ControlInv(Goto(sess[c], "keep"))
    BY <1>0, MoveData DEF ConnInv, ControlInv, SameData
  <2>2. QED
    BY <1>0, <1>4, <2>1, StepKeeps DEF ReadAgain, At
<1>5. CASE WriteAgain(c)
  <2>1. link[c] = "open" /\ sess[c].pc = "write" /\ Step(c, "keep")
    BY <1>5 DEF WriteAgain, Sending, At
  <2>2. ControlInv(Goto(sess[c], "keep")) /\ sess[c].state = "SendingAck"
    BY <1>0, <2>1, MoveData DEF ConnInv, ControlInv, SameData
  <2>3. QED
    BY <1>0, <2>1, <2>2, StepKeeps
<1>6. CASE WriteError(c)
  <2>1. /\ link[c] = "open" /\ sess[c].state = "SendingAck" /\ Step(c, "drop")
        /\ upEnd[c] = "rst"
    BY <1>6 DEF WriteError, Sending, At
  <2>2. ControlInv(Goto(sess[c], "drop")) /\ peer[c] = "closed"
    BY <1>0, <2>1, MoveData DEF ConnInv, ControlInv, GraceInv, SameData
  <2>3. QED
    BY <1>0, <2>1, <2>2, StepKeeps
<1>7. CASE WriteAck(c) \/ AckSent(c)
  <2> DEFINE t == sess'[c]
  <2>1. /\ link[c] = "open" /\ sess[c].pc = "write" /\ sess[c].state = "SendingAck"
        /\ UNCHANGED <<peer, link, writer, stored>>
    BY <1>7 DEF WriteAck, AckSent, Sending, At
  <2>2. /\ t.hello = sess[c].hello /\ t.completed = sess[c].completed
        /\ t.expected = sess[c].expected /\ t.received = sess[c].received
        /\ t.hashed = sess[c].hashed
        /\ \/ /\ t.out = Tail(sess[c].out) /\ sess[c].out # <<>>
              /\ t.state = "SendingAck" /\ t.pc = "write"
              /\ UNCHANGED downEnd /\ PutDown(c, Head(sess[c].out))
           \/ /\ t.out = sess[c].out /\ t.state = "Draining" /\ t.pc = "keep"
              /\ UNCHANGED <<up, down, upEnd>>
    <3>1. CASE WriteAck(c)
      <4>1. t = [Touch(sess[c]) EXCEPT !.out = Tail(@)]
        BY <3>1, SetValue DEF WriteAck, t
      <4>2. Touch(sess[c]) \in SessionType /\ SameData(sess[c], Touch(sess[c]))
            /\ Touch(sess[c]).pc = sess[c].pc
        BY <1>0, SessionOps, MoveData
      <4>3. \A r \in SessionType :
               LET q == [r EXCEPT !.out = Tail(@)]
               IN  /\ q.hello = r.hello /\ q.completed = r.completed
                   /\ q.expected = r.expected /\ q.received = r.received
                   /\ q.hashed = r.hashed /\ q.out = Tail(r.out)
                   /\ q.state = r.state /\ q.pc = r.pc
        BY DEF SessionType
      <4>4. sess[c].out # <<>> /\ PutDown(c, Head(sess[c].out)) /\ UNCHANGED downEnd
        BY <3>1 DEF WriteAck
      <4> HIDE DEF t
      <4>5. QED
        BY <2>1, <4>1, <4>2, <4>3, <4>4 DEF SameData
    <3>2. CASE AckSent(c)
      <4>1. t = [Touch(sess[c]) EXCEPT !.state = "Draining", !.pc = "keep"]
        BY <3>2, SetValue DEF AckSent, t
      <4>2. Touch(sess[c]) \in SessionType /\ SameData(sess[c], Touch(sess[c]))
        BY <1>0, SessionOps, MoveData
      <4>3. \A r \in SessionType :
               LET q == [r EXCEPT !.state = "Draining", !.pc = "keep"]
               IN  /\ q.hello = r.hello /\ q.completed = r.completed
                   /\ q.expected = r.expected /\ q.received = r.received
                   /\ q.hashed = r.hashed /\ q.out = r.out
                   /\ q.state = "Draining" /\ q.pc = "keep"
        BY DEF SessionType
      <4>4. UNCHANGED <<up, down, upEnd>>
        BY <3>2 DEF AckSent
      <4> HIDE DEF t
      <4>5. QED
        BY <4>1, <4>2, <4>3, <4>4 DEF SameData
    <3>3. QED
      BY <1>7, <3>1, <3>2
  <2>3. CountsInv(t) /\ ControlInv(t)
    BY <1>0, <2>1, <2>2 DEF ConnInv, CountsInv, ControlInv
  <2> HIDE DEF t
  <2>4. WriterInv(c)' /\ StoredInv(c)'
    BY <1>0, <2>1, <2>2 DEF t, ConnInv, WriterInv, StoredInv
  <2>5. ASSUME NEW status \in Status, AckIn(t.out, status)
        PROVE  (status = "Ok") = t.completed
    <3>1. AckIn(sess[c].out, status)
      BY <1>0, <2>2, <2>5, AckSteps
    <3>2. QED
      BY <1>0, <2>2, <3>1 DEF ConnInv, AckInv
  <2>6. ASSUME NEW status \in Status, AckIn(down'[c], status)
        PROVE  (status = "Ok") = t.completed
    <3>1. AckIn(down[c], status) \/ AckIn(sess[c].out, status)
      <4>1. CASE down' = down
        BY <2>6, <4>1
      <4>2. CASE /\ down' = [down EXCEPT ![c] = Append(@, Head(sess[c].out))]
                 /\ sess[c].out # <<>>
        <5>1. down'[c] = Append(down[c], Head(sess[c].out))
          BY <4>2
        <5>2. Head(sess[c].out) \in Frame
          BY <1>0, <4>2, StreamSteps
        <5>3. AckIn(down[c], status) \/ Head(sess[c].out) = Ack(status)
          BY <1>0, <2>6, <5>1, <5>2, AckSteps
        <5>4. QED
          BY <1>0, <4>2, <5>3, AckSteps
      <4>3. QED
        BY <2>2, <4>1, <4>2 DEF PutDown
    <3>2. QED
      BY <1>0, <2>2, <3>1 DEF ConnInv, AckInv
  <2>7. ~Undecided(c)'
    BY <2>1, <2>2 DEF t, Undecided
  <2>8. AckInv(c)'
    BY <2>5, <2>6, <2>7 DEF AckInv, t
  <2>9. GraceInv(c)'
    <3>1. CASE t.state = "Draining" /\ UNCHANGED <<up, upEnd>>
      BY <1>0, <2>1, <2>2, <3>1 DEF t, ConnInv, GraceInv, At
    <3>2. CASE t.state = "SendingAck" /\ UNCHANGED <<up, upEnd, downEnd>>
      BY <1>0, <2>1, <2>2, <3>2 DEF t, ConnInv, GraceInv, At
    <3>3. CASE t.state = "SendingAck" /\ peer[c] = "closed" /\ UNCHANGED downEnd
      BY <1>0, <2>1, <2>2, <3>3 DEF t, ConnInv, GraceInv, At
    <3>4. QED
      BY <2>2, <3>1, <3>2, <3>3 DEF PutDown
  <2>10. QED
    BY <2>3, <2>4, <2>8, <2>9 DEF ConnInv, t
<1>8. QED
  BY <1>1, <1>2, <1>3, <1>4, <1>5, <1>6, <1>7

\* ... and the frames it takes out of the parser.
LEMMA FramesKeep ==
    ASSUME IInv, NEW c \in Conns,
           \/ NeedMore(c) \/ PartialFrame(c) \/ BadFrame(c) \/ OnAckFrame(c)
           \/ OnHello(c) \/ OnData(c) \/ OnEnd(c)
    PROVE  ConnInv(c)'
<1> USE DEF IInv, TypeOK, SocketTypeOK
<1> DEFINE s == sess[c]
           frame == Head(s.parser)
<1>0. /\ ConnInv(c) /\ s \in SessionType /\ s.parser \in Seq(Frame)
      /\ {"read", "frames", "write"} \subseteq Pcs
      /\ {"ProtocolError", "SizeMismatch", "CrcMismatch", "IoError", "Ok"}
           \subseteq Status
      /\ link[c] = "open" /\ s.pc = "frames" /\ s.state = "Receiving"
      /\ s.completed = FALSE /\ s.out = <<>>
  <2>1. At(c, "frames")
    BY DEF NeedMore, PartialFrame, BadFrame, OnAckFrame, OnHello, OnData, OnEnd, Offers
  <2>2. s \in SessionType /\ ConnInv(c)
    OBVIOUS
  <2>3. s.parser \in Seq(Frame) /\ s.completed \in BOOLEAN
    BY <2>2 DEF SessionType
  <2>4. QED
    BY <2>1, <2>2, <2>3 DEF ConnInv, ControlInv, At, Pcs, Status
<1> DEFINE rest == Taken(s)
<1>1. s.parser # <<>> =>
        /\ frame \in Frame /\ rest \in SessionType /\ SameData(s, rest)
        /\ rest.pc = s.pc
  <2>1. s.parser # <<>> => frame \in Frame /\ rest \in SessionType
    BY <1>0, SessionOps, StreamSteps
  <2>2. SameData(s, rest) /\ rest.pc = s.pc
    BY <1>0 DEF Taken, SameData, SessionType
  <2>3. QED
    BY <2>1, <2>2
<1> HIDE DEF s, frame, rest
<1>2. ASSUME NEW status \in Status \ {"Ok"}, fail(c, status), UNCHANGED sockVars
      PROVE  ConnInv(c)'
  <2> DEFINE t == [s EXCEPT !.reports = @ + 1]
  <2>1. t \in SessionType
    BY <1>0, SessionOps
  <2>2. CountsInv(t) /\ ~t.completed
    BY <1>0 DEF s, ConnInv, CountsInv, SessionType
  <2>3. Set(c, queueAck(t, status)) /\ AbortWriter(c) /\ UNCHANGED stored
    BY <1>2 DEF fail, s
  <2> HIDE DEF t
  <2>4. QED
    BY <1>0, <1>2, <2>1, <2>2, <2>3, RejectKeeps DEF At, s
<1>3. CASE NeedMore(c)
  <2>1. ControlInv(Goto(s, "read"))
    BY <1>0, MoveData DEF s, ConnInv, ControlInv, SameData
  <2>2. QED
    BY <1>0, <1>3, <2>1, StepKeeps DEF NeedMore, s
<1>4. CASE PartialFrame(c)
  <2>1. /\ Set(c, rest) /\ UNCHANGED <<sockVars, writer, stored>>
        /\ s.parser # <<>>
    BY <1>4 DEF PartialFrame, Offers, s, rest
  <2>2. sess'[c] = rest
    BY <2>1, SetValue
  <2>3. ControlInv(rest)
    BY <1>0, <1>1, <2>1 DEF s, ConnInv, ControlInv, SameData
  <2>4. GraceInv(c)'
    BY <1>0, <1>1, <2>1, <2>2 DEF s, ConnInv, GraceInv, At, SameData, sockVars
  <2>5. QED
    BY <1>0, <1>1, <2>1, <2>3, <2>4, MoveKeeps DEF s, sockVars
<1>5. CASE BadFrame(c) \/ OnAckFrame(c)
  BY <1>0, <1>2, <1>5 DEF BadFrame, OnAckFrame
<1>6. CASE OnHello(c)
  <2> DEFINE greeted == [rest EXCEPT !.hello = TRUE, !.expected = frame.size]
             noted == [greeted EXCEPT !.reports = @ + 1]
  <2>1. /\ s.parser # <<>> /\ frame.type = "Hello" /\ UNCHANGED sockVars
        /\ \/ fail(c, "ProtocolError")
           \/ /\ ~s.hello /\ Set(c, greeted) /\ UNCHANGED stored
              /\ writer' = [writer EXCEPT ![c] =
                              [fd |-> TRUE, temp |-> TRUE, bytes |-> <<>>]]
           \/ /\ ~s.hello /\ Set(c, queueAck(noted, "IoError")) /\ AbortWriter(c)
              /\ UNCHANGED stored
    BY <1>6 DEF OnHello, Offers, s, frame, rest
  <2>2. frame.size \in Nat
    BY <1>1, <2>1, FrameFields
  <2>3. /\ greeted \in SessionType /\ greeted.hello = TRUE
        /\ greeted.expected = frame.size /\ greeted.received = rest.received
        /\ greeted.hashed = rest.hashed /\ greeted.completed = rest.completed
        /\ greeted.state = rest.state /\ greeted.out = rest.out
        /\ greeted.pc = rest.pc
    <3>1. rest \in SessionType
      BY <1>1, <2>1
    <3>2. QED
      BY ONLY <2>2, <3>1 DEF SessionType
  <2> HIDE DEF greeted
  <2>4. CASE ~s.hello
    <3>1. s.received = 0 /\ s.hashed = <<>>
      <4>1. s.received = 0 /\ Len(s.hashed) = 0 /\ s.hashed \in Seq(Bytes)
        BY <1>0, <2>4 DEF s, ConnInv, CountsInv, SessionType
      <4>2. QED
        BY <4>1, EmptySeq
    <3>2. CountsInv(greeted) /\ ControlInv(greeted)
      BY <1>0, <1>1, <2>1, <2>2, <2>3, <3>1 DEF CountsInv, ControlInv, SameData
    <3>3. CASE /\ Set(c, queueAck(noted, "IoError")) /\ AbortWriter(c)
               /\ UNCHANGED stored
      <4>1. /\ noted \in SessionType /\ noted.hello = greeted.hello
            /\ noted.received = greeted.received
            /\ noted.expected = greeted.expected
            /\ noted.hashed = greeted.hashed
            /\ noted.completed = greeted.completed
        BY <2>3, SessionOps DEF SessionType
      <4> HIDE DEF noted
      <4>2. CountsInv(noted) /\ ~noted.completed
        BY <1>0, <1>1, <2>1, <2>3, <3>2, <4>1 DEF CountsInv, SameData
      <4>3. QED
        BY <1>0, <2>1, <3>3, <4>1, <4>2, RejectKeeps DEF At, s
    <3>4. CASE /\ Set(c, greeted) /\ UNCHANGED stored
               /\ writer' = [writer EXCEPT ![c] =
                               [fd |-> TRUE, temp |-> TRUE, bytes |-> <<>>]]
      <4>1. sess'[c] = greeted /\ UNCHANGED <<sockVars, stored>>
        BY <2>1, <3>4, SetValue
      <4>2. writer'[c].temp = TRUE /\ writer'[c].bytes = <<>>
        BY <3>4
      <4>3. WriterInv(c)'
        BY <1>0, <1>1, <2>1, <2>3, <3>1, <4>1, <4>2 DEF WriterInv, SameData, sockVars
      <4>4. StoredInv(c)' /\ AckInv(c)' /\ GraceInv(c)'
        BY <1>0, <1>1, <2>1, <2>3, <4>1
           DEF s, ConnInv, StoredInv, AckInv, Undecided, GraceInv, At, SameData, sockVars
      <4>5. QED
        BY <3>2, <4>1, <4>3, <4>4 DEF ConnInv
    <3>5. QED
      BY <1>0, <1>2, <2>1, <3>3, <3>4
  <2>5. QED
    BY <1>0, <1>2, <2>1, <2>4
<1>7. CASE OnData(c)
  <2> DEFINE fed == [rest EXCEPT !.hashed = @ \o frame.data,
                                 !.received = @ + Len(frame.data)]
  <2>1. /\ s.parser # <<>> /\ frame.type = "Data" /\ UNCHANGED sockVars
        /\ \/ \E status \in Status \ {"Ok"} : fail(c, status)
           \/ /\ s.hello /\ ~(s.received + Len(frame.data) > s.expected)
              /\ Set(c, fed) /\ UNCHANGED stored
              /\ writer' = [writer EXCEPT ![c].bytes = @ \o frame.data]
    BY <1>0, <1>7 DEF OnData, Offers, s, frame, rest
  <2>2. frame.data \in Seq(Bytes)
    BY <1>1, <2>1, FrameFields
  <2>3. /\ fed.hello = rest.hello /\ fed.expected = rest.expected
        /\ fed.received = rest.received + Len(frame.data)
        /\ fed.hashed = rest.hashed \o frame.data
        /\ fed.completed = rest.completed
        /\ fed.state = rest.state /\ fed.out = rest.out /\ fed.pc = rest.pc
    <3>1. rest \in SessionType
      BY <1>1, <2>1
    <3>2. QED
      BY ONLY <3>1 DEF SessionType
  <2> HIDE DEF fed
  <2>4. CASE /\ s.hello /\ ~(s.received + Len(frame.data) > s.expected)
             /\ Set(c, fed) /\ UNCHANGED stored
             /\ writer' = [writer EXCEPT ![c].bytes = @ \o frame.data]
    <3>1. /\ s.hashed \in Seq(Bytes) /\ s.received \in Nat /\ s.expected \in Nat
          /\ Len(frame.data) \in Nat
          /\ Len(s.hashed \o frame.data) = Len(s.hashed) + Len(frame.data)
      <4>1. s.hashed \in Seq(Bytes) /\ s.received \in Nat /\ s.expected \in Nat
        BY <1>0 DEF SessionType
      <4>2. QED
        BY <2>2, <4>1, ConcatProperties, LenProperties
    <3>2. CountsInv(fed) /\ ControlInv(fed)
      <4>1. Len(s.hashed) = s.received /\ fed.completed = FALSE /\ fed.hello
        BY <1>0, <1>1, <2>1, <2>3, <2>4 DEF s, ConnInv, CountsInv, SameData
      <4>2. CountsInv(fed)
        <5>1. /\ fed.hashed = s.hashed \o frame.data
              /\ fed.received = s.received + Len(frame.data)
              /\ fed.expected = s.expected
          BY <1>1, <2>1, <2>3 DEF SameData
        <5>2. /\ Len(fed.hashed) = fed.received
              /\ fed.received <= fed.expected
          <6>1. Len(fed.hashed) = fed.received
            BY ONLY <3>1, <4>1, <5>1, Zenon
          <6>2. s.received + Len(frame.data) <= s.expected
            BY ONLY <2>4, <3>1
          <6>3. QED
            BY ONLY <5>1, <6>1, <6>2
        <5>3. QED
          BY <4>1, <5>2 DEF CountsInv
      <4>3. QED
        BY <1>0, <1>1, <2>1, <2>3, <4>1, <4>2 DEF ControlInv, SameData
    <3>3. sess'[c] = fed /\ UNCHANGED <<sockVars, stored>>
      BY <2>1, <2>4, SetValue
    <3>4. /\ writer[c].temp /\ writer[c].bytes = s.hashed
          /\ writer'[c].temp = writer[c].temp
          /\ writer'[c].bytes = writer[c].bytes \o frame.data
      BY <1>0, <2>4 DEF s, ConnInv, WriterInv
    <3>5. WriterInv(c)'
      <4>1. /\ fed.state = "Receiving" /\ fed.hello
            /\ fed.hashed = s.hashed \o frame.data
        BY <1>0, <1>1, <2>1, <2>3, <2>4 DEF SameData
      <4>2. link'[c] = "open"
        BY <1>0, <2>1 DEF sockVars
      <4>3. writer'[c].temp /\ writer'[c].bytes = fed.hashed
        BY <3>4, <4>1
      <4>4. QED
        BY <3>3, <4>1, <4>2, <4>3 DEF WriterInv
    <3>6. StoredInv(c)' /\ AckInv(c)' /\ GraceInv(c)'
      BY <1>0, <1>1, <2>1, <2>3, <3>3
         DEF s, ConnInv, StoredInv, AckInv, Undecided, GraceInv, At, SameData, sockVars
    <3>7. QED
      BY <3>2, <3>3, <3>5, <3>6 DEF ConnInv
  <2>5. QED
    BY <1>2, <2>1, <2>4
<1>8. CASE OnEnd(c)
  <2> DEFINE done == [rest EXCEPT !.completed = TRUE]
             u == queueAck(done, "Ok")
  <2>1. /\ s.parser # <<>> /\ UNCHANGED sockVars
        /\ \/ \E status \in Status \ {"Ok"} : fail(c, status)
           \/ /\ s.hello /\ s.received = s.expected
              /\ stored' = [stored EXCEPT ![c] = Append(@, writer[c].bytes)]
              /\ AbortWriter(c) /\ Set(c, u)
    BY <1>0, <1>8 DEF OnEnd, Offers, s, rest
  <2>2. CASE /\ s.hello /\ s.received = s.expected
             /\ stored' = [stored EXCEPT ![c] = Append(@, writer[c].bytes)]
             /\ AbortWriter(c) /\ Set(c, u)
    <3>1. /\ u.hello = rest.hello /\ u.completed = TRUE
          /\ u.expected = rest.expected /\ u.received = rest.received
          /\ u.hashed = rest.hashed /\ u.state = "SendingAck" /\ u.pc = "write"
          /\ u.out = InTwoPieces(Ack("Ok"))
      <4>1. rest \in SessionType
        BY <1>1, <2>1
      <4>2. QED
        BY ONLY <4>1 DEF queueAck, SessionType
    <3> HIDE DEF u
    <3>2. sess'[c] = u /\ UNCHANGED sockVars /\ writer'[c] = NoWriter
      BY <2>1, <2>2, SetValue DEF AbortWriter
    <3>3. CountsInv(u) /\ ControlInv(u)
      <4>1. /\ u.hello = s.hello /\ u.expected = s.expected
            /\ u.received = s.received /\ u.hashed = s.hashed
        BY <1>1, <2>1, <3>1 DEF SameData
      <4>2. CountsInv(s)
        BY <1>0 DEF s, ConnInv
      <4>3. CountsInv(u)
        BY <4>1, <4>2 DEF CountsInv
      <4>4. ControlInv(u)
        BY <2>2, <3>1, <4>1 DEF ControlInv
      <4>5. QED
        BY <4>3, <4>4
    <3>4. stored[c] = <<>> /\ writer[c].bytes = s.hashed
      BY <1>0, <2>2 DEF s, ConnInv, StoredInv, WriterInv
    <3>5. stored'[c] = <<s.hashed>>
      BY <2>2, <3>4
    <3>6. WriterInv(c)' /\ StoredInv(c)' /\ GraceInv(c)'
      BY <1>0, <1>1, <2>1, <3>1, <3>2, <3>5
         DEF s, ConnInv, WriterInv, StoredInv, GraceInv, At, NoWriter, SameData, sockVars
    <3>7. AckInv(c)'
      <4>1. \A status \in Status : AckIn(u.out, status) => status = "Ok"
        BY <1>0, <3>1, AckPieces
      <4>2. \A status \in Status : ~AckIn(down[c], status)
        BY <1>0 DEF s, ConnInv, AckInv, Undecided
      <4>3. down'[c] = down[c]
        BY <3>2 DEF sockVars
      <4>4. QED
        BY <3>1, <3>2, <4>1, <4>2, <4>3 DEF AckInv
    <3>8. QED
      BY <3>2, <3>3, <3>6, <3>7 DEF ConnInv
  <2>3. QED
    BY <1>2, <2>1, <2>2
<1>9. QED
  BY <1>3, <1>4, <1>5, <1>6, <1>7, <1>8

-----------------------------------------------------------------------------
(* The theorems.                                                           *)

LEMMA InvStep ==
    ASSUME IInv, [Next]_vars
    PROVE  IInv'
<1>1. TypeOK'
  BY TypeStep DEF IInv
<1>2. CASE UNCHANGED vars
  <2>1. ASSUME NEW d \in Conns
        PROVE  ConnInv(d)'
    <3>1. /\ sess'[d] = sess[d] /\ writer'[d] = writer[d]
          /\ stored'[d] = stored[d]
          /\ up'[d] = up[d] /\ down'[d] = down[d]
          /\ upEnd'[d] = upEnd[d] /\ downEnd'[d] = downEnd[d]
          /\ peer'[d] = peer[d] /\ link'[d] = link[d]
      BY <1>2 DEF vars, sockVars
    <3>2. QED
      BY <3>1, SameKeeps DEF IInv
  <2>2. QED
    BY <1>1, <2>1 DEF IInv
<1>3. ASSUME NEW c \in Conns, Peer(c) \/ SessionStep(c)
      PROVE  IInv'
  <2>1. ConnInv(c)'
    BY <1>3, PeerKeeps, ServerStepKeeps, InputOutputKeeps, FramesKeep
       DEF SessionStep, HandlerStep
  <2>2. \A d \in Conns \ {c} : ConnInv(d)'
    BY <1>3, OthersKeep DEF IInv
  <2>3. QED
    BY <1>1, <2>1, <2>2 DEF IInv
<1>4. QED
  BY <1>2, <1>3 DEF Next

LEMMA InitInv == Init => IInv
<1>1. Init => TypeOK
  BY DEF Init, SocketInit, TypeOK, SocketTypeOK, Ends, NewSession, NoWriter,
         SessionType, Pcs
<1>2. ASSUME Init, NEW c \in Conns
      PROVE  ConnInv(c)
  BY <1>2 DEF Init, SocketInit, NewSession, NoWriter, ConnInv, CountsInv,
              ControlInv, WriterInv, StoredInv, AckInv, GraceInv, Undecided, AckIn, At
<1>3. QED
  BY <1>1, <1>2 DEF IInv

\* The strengthened invariant holds in every reachable state.
THEOREM Inductive == Spec => []IInv
  BY InitInv, InvStep, PTL DEF Spec

\* No client is ever told Ok unless its file is published, nor refused if it
\* is: commit comes before the ACK, and every failure before it aborts.
THEOREM AcksAreTrue == Spec => []AckTruth
<1>1. IInv => AckTruth
  <2>1. ASSUME IInv, NEW c \in Conns, NEW status \in Status
        PROVE  AckIn(sess[c].out, status) \/ AckIn(down[c], status)
                 => (status = "Ok") = (stored[c] # <<>>)
    <3>1. sess[c].completed = (stored[c] # <<>>)
      <4>1. sess[c].completed \in BOOLEAN
        BY <2>1 DEF IInv, TypeOK, SessionType
      <4>2. stored[c] = IF sess[c].completed THEN <<sess[c].hashed>> ELSE <<>>
        BY <2>1 DEF IInv, ConnInv, StoredInv
      <4>3. <<sess[c].hashed>> # <<>>
        OBVIOUS
      <4>4. CASE sess[c].completed = TRUE
        BY <4>2, <4>3, <4>4
      <4>5. CASE sess[c].completed = FALSE
        BY <4>2, <4>5
      <4>6. QED
        BY <4>1, <4>4, <4>5
    <3>2. QED
      BY <2>1, <3>1 DEF IInv, ConnInv, AckInv
  <2>2. QED
    BY <2>1 DEF AckTruth
<1>2. QED
  BY <1>1, Inductive, PTL

\* Temporary files exist only under sessions that are open and undecided.
THEOREM TempsAreDisciplined == Spec => []TempDiscipline
<1>1. IInv => TempDiscipline
  BY DEF IInv, ConnInv, WriterInv, TempDiscipline
<1>2. QED
  BY <1>1, Inductive, PTL

\* A session publishes at most one file: the bytes it hashed, as many as HELLO
\* announced; byte counter, checksum and file on disk never drift apart.
THEOREM FilesAreWhole == Spec => []PublishedWhole
<1>1. IInv => PublishedWhole
  BY DEF IInv, ConnInv, StoredInv, CountsInv, ControlInv, WriterInv, PublishedWhole
<1>2. QED
  BY <1>1, Inductive, PTL

\* A handler gives up a living client only after reading it to its FIN, so that
\* the close that follows cannot destroy an ACK.
THEOREM DropsAreGraceful == Spec => []DropIsGraceful
<1>1. IInv => DropIsGraceful
  BY DEF IInv, ConnInv, GraceInv, DropIsGraceful
<1>2. QED
  BY <1>1, Inductive, PTL

\* What a step does to the verdict of its own connection.
LEMMA StepIsFinal ==
    ASSUME IInv, NEW c \in Conns, Peer(c) \/ SessionStep(c)
    PROVE  FinalStep(c)
<1> USE DEF IInv, TypeOK, SocketTypeOK
<1>0. ConnInv(c) /\ sess[c] \in SessionType
  OBVIOUS
<1>1. ASSUME stored'[c] = stored[c], SameData(sess[c], sess'[c])
      PROVE  FinalStep(c)
  BY <1>1 DEF FinalStep, SameData
<1>2. ASSUME stored'[c] = stored[c], sess[c].state = "Receiving" \/ link[c] = "backlog"
      PROVE  FinalStep(c)
  BY <1>2 DEF FinalStep
<1>3. CASE Peer(c)
  BY <1>1, <1>3 DEF Peer, sessionVars, SameData
<1>4. CASE Quiet(c)
  <2>1. sess'[c] = [sess[c] EXCEPT !.idle = TRUE] /\ stored' = stored
    BY <1>4, SetValue DEF Quiet
  <2>2. SameData(sess[c], [sess[c] EXCEPT !.idle = TRUE])
    BY <1>0 DEF SameData, SessionType
  <2>3. QED
    BY <1>1, <2>1, <2>2
<1>5. CASE Accept(c) \/ Refuse(c) \/ LeaveUnaccepted(c)
  BY <1>2, <1>5 DEF Accept, Refuse, LeaveUnaccepted, TakeFromBacklog,
                    DropFromBacklog
<1>6. CASE RefuseWrite(c) \/ RefuseClose(c)
  <2>1. sess[c].state = "Receiving"
    BY <1>0, <1>6 DEF RefuseWrite, RefuseClose, At, ConnInv, ControlInv
  <2>2. QED
    BY <1>2, <1>6, <2>1 DEF RefuseWrite, RefuseClose
<1>7. CASE Destroy(c) \/ Crash(c)
  BY <1>1, <1>7 DEF Destroy, Crash, SameData
<1>8. CASE Close(c)
  <2>1. sess'[c] = Goto(Terminated(sess[c]), "idle") /\ stored' = stored
    BY <1>8, SetValue DEF Close
  <2>2. SameData(sess[c], Goto(Terminated(sess[c]), "idle"))
    BY <1>0, MoveData DEF Pcs
  <2>3. QED
    BY <1>1, <2>1, <2>2
<1>9. ASSUME NEW pc \in Pcs, Step(c, pc)
      PROVE  FinalStep(c)
  <2>1. sess'[c] = Goto(sess[c], pc) /\ stored' = stored
    BY <1>9, SetValue DEF Step
  <2>2. SameData(sess[c], Goto(sess[c], pc))
    BY <1>0, MoveData
  <2>3. QED
    BY <1>1, <2>1, <2>2
<1>10. ASSUME UNCHANGED stored, terminate(c, "drop") \/ Set(c, Goto(sess[c], "drop"))
       PROVE  FinalStep(c)
  <2>1. \/ sess'[c] = Goto(Terminated(sess[c]), "drop")
        \/ sess'[c] = Goto(sess[c], "drop")
    BY <1>10, SetValue DEF terminate
  <2>2. /\ SameData(sess[c], Goto(Terminated(sess[c]), "drop"))
        /\ SameData(sess[c], Goto(sess[c], "drop"))
    BY <1>0, MoveData DEF Pcs
  <2>3. QED
    BY <1>1, <1>10, <2>1, <2>2
<1>11. ASSUME NEW events, Handle(c, events)
       PROVE  FinalStep(c)
  BY <1>9, <1>10, <1>11 DEF Handle, Pcs
<1>12. CASE ReadEof(c) \/ ReadError(c)
  BY <1>10, <1>12 DEF ReadEof, ReadError
<1>13. CASE \/ ReadAgain(c) \/ WriteAgain(c) \/ WriteError(c)
            \/ Rearm(c) \/ NeedMore(c)
  BY <1>9, <1>13
     DEF ReadAgain, WriteAgain, WriteError, Rearm, NeedMore, Pcs
<1>14. CASE ReadData(c)
  <2>1. CASE sess[c].state = "Receiving"
    BY <1>2, <1>14, <2>1 DEF ReadData
  <2>2. CASE sess[c].state # "Receiving"
    <3>1. sess'[c] = Touch(sess[c]) /\ stored' = stored
      BY <1>14, <2>2, SetValue DEF ReadData
    <3>2. QED
      BY <1>0, <1>1, <3>1, MoveData DEF Pcs
  <2>3. QED
    BY <2>1, <2>2
<1>15. CASE \/ PartialFrame(c) \/ BadFrame(c) \/ OnAckFrame(c)
            \/ OnHello(c) \/ OnData(c)
  <2>1. sess[c].state = "Receiving"
    BY <1>0, <1>15 DEF PartialFrame, BadFrame, OnAckFrame, OnHello, OnData,
                       Offers, At, ConnInv, ControlInv
  <2>2. stored' = stored
    BY <1>15 DEF PartialFrame, BadFrame, OnAckFrame, OnHello, OnData, fail
  <2>3. QED
    BY <1>2, <2>1, <2>2
<1>16. CASE OnEnd(c)
  <2>1. /\ At(c, "frames") /\ sess[c].state = "Receiving"
        /\ sess[c].parser # <<>> /\ Head(sess[c].parser).type = "End"
    BY <1>0, <1>16 DEF OnEnd, Offers, At, ConnInv, ControlInv
  <2>2. CASE stored' = stored
    BY <1>2, <2>1, <2>2
  <2>3. CASE /\ sess[c].hello /\ Head(sess[c].parser).ok
             /\ Crc(sess[c].hashed) = Head(sess[c].parser).crc
             /\ stored' = [stored EXCEPT ![c] = Append(@, writer[c].bytes)]
             /\ Set(c, queueAck([Taken(sess[c]) EXCEPT !.completed = TRUE], "Ok"))
    <3>1. writer[c].bytes = sess[c].hashed /\ stored[c] = <<>>
      BY <1>0, <2>1, <2>3 DEF At, ConnInv, WriterInv, StoredInv, ControlInv
    <3>2. stored'[c] = <<writer[c].bytes>>
      BY <2>3, <3>1
    <3>3. Head(sess[c].parser) = End(Crc(writer[c].bytes))
      <4>1. Head(sess[c].parser) \in Frame
        BY <1>0, <2>1, StreamSteps DEF SessionType
      <4>2. Head(sess[c].parser)
              \in [type : {"End"}, ok : BOOLEAN, crc : Nat]
        BY <2>1, <4>1 DEF Frame, Garbage, Part
      <4>3. Head(sess[c].parser).ok = TRUE
        BY <2>3, <4>2
      <4>4. QED
        BY <2>3, <3>1, <4>2, <4>3 DEF End
    <3>4. sess'[c].completed = TRUE
      <4>1. sess'[c] = queueAck([Taken(sess[c]) EXCEPT !.completed = TRUE], "Ok")
        BY <2>3, SetValue
      <4>2. Taken(sess[c]) \in SessionType
        BY <1>0, <2>1, SessionOps
      <4>3. QED
        BY ONLY <4>1, <4>2 DEF queueAck, SessionType
    <3>5. QED
      BY <2>1, <3>2, <3>3, <3>4 DEF FinalStep, At
  <2>4. QED
    BY <1>16, <2>2, <2>3 DEF OnEnd, fail
<1>17. CASE WriteAck(c) \/ AckSent(c)
  <2>1. stored' = stored
    BY <1>17 DEF WriteAck, AckSent
  <2>2. /\ Touch(sess[c]) \in SessionType /\ SameData(sess[c], Touch(sess[c]))
    BY <1>0, SessionOps, MoveData DEF Pcs
  <2>3. \/ sess'[c] = [Touch(sess[c]) EXCEPT !.out = Tail(@)]
        \/ sess'[c] = [Touch(sess[c]) EXCEPT !.state = "Draining", !.pc = "keep"]
    BY <1>17, SetValue DEF WriteAck, AckSent
  <2>4. /\ sess'[c].completed = sess[c].completed
        /\ sess[c].state = "SendingAck" => sess'[c].state \in {"SendingAck", "Draining"}
    <3>1. \A r \in SessionType :
             /\ LET q == [r EXCEPT !.out = Tail(@)]
                IN  q.completed = r.completed /\ q.state = r.state
             /\ LET q == [r EXCEPT !.state = "Draining", !.pc = "keep"]
                IN  q.completed = r.completed /\ q.state = "Draining"
      BY DEF SessionType
    <3>2. QED
      BY <2>2, <2>3, <3>1 DEF SameData
  <2>5. sess[c].state = "SendingAck"
    BY <1>17 DEF WriteAck, AckSent, Sending
  <2>6. QED
    BY <2>1, <2>4, <2>5 DEF FinalStep
<1>18. QED
  BY <1>3, <1>4, <1>5, <1>6, <1>7, <1>8, <1>11, <1>12, <1>13, <1>14, <1>15,
     <1>16, <1>17
     DEF SessionStep, ServerStep, HandlerStep, CloseSession, SweepClose

\* Files are published by undecided sessions only, on a matching END, together
\* with the Ok verdict; file and verdict never change afterwards.
THEOREM VerdictsAreFinal == Spec => VerdictFinal
<1>1. ASSUME IInv, [Next]_vars
      PROVE  [\A c \in Conns : FinalStep(c)]_vars
  <2>1. CASE UNCHANGED vars
    BY <2>1
  <2>2. ASSUME NEW c \in Conns, Peer(c) \/ SessionStep(c), NEW d \in Conns
        PROVE  FinalStep(d)
    <3>1. CASE d = c
      BY <1>1, <2>2, <3>1, StepIsFinal
    <3>2. CASE d # c
      BY <1>1, <2>2, <3>2, Untouched DEF FinalStep, IInv
    <3>3. QED
      BY <3>1, <3>2
  <2>3. QED
    BY <1>1, <2>1, <2>2 DEF Next
<1>2. QED
  BY <1>1, Inductive, PTL DEF VerdictFinal, Spec

-----------------------------------------------------------------------------
(* What the log says.                                                      *)

\* The parts of the handlers that leave alone what the log depends on.
SameLog(s, t) ==
    /\ t.completed = s.completed /\ t.reports = s.reports
    /\ t.terminated = s.terminated /\ t.state = s.state

LEMMA LogOps ==
    ASSUME NEW s \in SessionType
    PROVE  /\ \A pc \in Pcs : SameLog(s, Goto(s, pc)) /\ Goto(s, pc).pc = pc
           /\ SameLog(s, Touch(s)) /\ Touch(s).pc = s.pc
           /\ SameLog(s, [s EXCEPT !.idle = TRUE]) /\ [s EXCEPT !.idle = TRUE].pc = s.pc
           /\ SameLog(s, Taken(s)) /\ Taken(s).pc = s.pc
           /\ \A n \in Nat :
                LET t == [Taken(s) EXCEPT !.hello = TRUE, !.expected = n]
                IN  SameLog(s, t) /\ t.pc = s.pc
           /\ \A b \in Seq(Bytes) :
                LET t == [Taken(s) EXCEPT !.hashed = @ \o b, !.received = @ + Len(b)]
                IN  SameLog(s, t) /\ t.pc = s.pc
           /\ \A q \in Seq(Frame) :
                SameLog(s, [Touch(s) EXCEPT !.parser = @ \o q, !.pc = "frames"])
           /\ SameLog(s, [Touch(s) EXCEPT !.out = Tail(@)])
  BY DEF SessionType, SameLog, Goto, Touch, Taken

\* A session that moves on with its log unchanged.
LEMMA LogKept ==
    ASSUME NEW s, NEW t, NEW o \in BOOLEAN, NEW p \in BOOLEAN, LogInv(s, o), SameLog(s, t),
           p => o, p /\ s.terminated => t.pc = "drop"
    PROVE  LogInv(t, p)
  BY DEF LogInv, SameLog

\* One that has its verdict, or leaves its handler, or is thrown away.
LEMMA LogDecided ==
    ASSUME NEW s \in SessionType, LogInv(s, TRUE), ~s.terminated
    PROVE  /\ \A status : ~s.completed =>
                LogInv(queueAck([s EXCEPT !.reports = @ + 1], status), TRUE)
           /\ \A status : \A n \in Nat : ~s.completed =>
                LogInv(queueAck([[Taken(s) EXCEPT !.hello = TRUE, !.expected = n]
                                   EXCEPT !.reports = @ + 1], status), TRUE)
           /\ s.state = "Receiving" =>
                LogInv(queueAck([Taken(s) EXCEPT !.completed = TRUE], "Ok"), TRUE)
           /\ s.state = "SendingAck" =>
                LogInv([Touch(s) EXCEPT !.state = "Draining", !.pc = "keep"], TRUE)
  BY DEF SessionType, Touch, Taken, queueAck, LogInv

LEMMA LogTerminated ==
    ASSUME NEW s \in SessionType, NEW o \in BOOLEAN, LogInv(s, o), NEW pc \in Pcs
    PROVE  /\ LogInv(Goto(Terminated(s), "drop"), TRUE)
           /\ LogInv(Goto(Terminated(s), pc), FALSE)
  BY DEF SessionType, Goto, Terminated, LogInv, Pcs

\* A step of a session keeps what is known of its log.
LEMMA ReportKeeps ==
    ASSUME IInv, NEW c \in Conns, ReportInv(c), SessionStep(c),
           NEW s, s = sess[c]
    PROVE  ReportInv(c)'
<1>0. /\ TypeOK /\ s \in SessionType /\ ControlInv(s)
      /\ LogInv(s, link[c] = "open")
      /\ link[c] \in {"none", "backlog", "open", "closed"}
  BY DEF IInv, ConnInv, TypeOK, SocketTypeOK, ReportInv
<1>1. SUFFICES LogInv(sess'[c], link'[c] = "open")
  BY DEF ReportInv
<1>2. ASSUME NEW t, Set(c, t)
      PROVE  sess'[c] = t
  BY <1>0, <1>2, SetValue
\* A session that takes no verdict, before it is given up.
<1>3. ASSUME NEW t, Set(c, t), SameLog(s, t), link'[c] = "open" => link[c] = "open",
             link'[c] = "open" /\ s.terminated => t.pc = "drop"
      PROVE  LogInv(sess'[c], link'[c] = "open")
  <2>1. LogInv(t, link'[c] = "open")
    BY <1>0, <1>3, LogKept
  <2>2. QED
    BY <1>2, <1>3, <2>1
<1>4. ASSUME link[c] = "open", s.pc # "drop"
      PROVE  LogInv(s, TRUE) /\ ~s.terminated
  BY <1>0, <1>4 DEF LogInv
<1>5. ASSUME NEW pc \in Pcs, Set(c, Goto(s, pc)), link' = link, link[c] = "open",
             s.pc # "drop"
      PROVE  LogInv(sess'[c], link'[c] = "open")
  <2>1. SameLog(s, Goto(s, pc))
    BY <1>0, LogOps
  <2>2. QED
    BY <1>3, <1>4, <1>5, <2>1
<1>6. ASSUME Set(c, Goto(Terminated(s), "drop")), link[c] = "open", link' = link
      PROVE  LogInv(sess'[c], link'[c] = "open")
  <2>1. LogInv(Goto(Terminated(s), "drop"), TRUE)
    BY <1>0, <1>6, LogTerminated DEF Pcs
  <2>2. QED
    BY <1>2, <1>6, <2>1
<1>7. ASSUME NEW status, fail(c, status), At(c, "frames"), UNCHANGED sockVars
      PROVE  LogInv(sess'[c], link'[c] = "open")
  <2>1. Set(c, queueAck([s EXCEPT !.reports = @ + 1], status))
    BY <1>7 DEF fail
  <2>2. link[c] = "open" /\ link'[c] = "open" /\ s.pc # "drop" /\ ~s.completed
    BY <1>0, <1>7 DEF ControlInv, At, sockVars
  <2>3. LogInv(queueAck([s EXCEPT !.reports = @ + 1], status), TRUE)
    BY <1>0, <1>4, <2>2, LogDecided
  <2>4. QED
    BY <1>2, <2>1, <2>2, <2>3
<1>8. CASE ReadEof(c) \/ ReadError(c)
  <2>1. Set(c, Goto(s, "drop")) \/ Set(c, Goto(Terminated(s), "drop"))
    BY <1>8 DEF ReadEof, ReadError, terminate
  <2>2. link[c] = "open" /\ s.pc # "drop" /\ link' = link
    BY <1>8 DEF ReadEof, ReadError, At, sockVars
  <2>3. QED
    BY <1>5, <1>6, <2>1, <2>2 DEF Pcs
<1>9. CASE ReadAgain(c) \/ NeedMore(c) \/ WriteAgain(c) \/ WriteError(c) \/ Rearm(c)
           \/ RefuseWrite(c)
  <2>1. \E pc \in Pcs : Set(c, Goto(s, pc))
    BY <1>9 DEF ReadAgain, NeedMore, WriteAgain, WriteError, Rearm, RefuseWrite, Step,
                Pcs
  <2>2. link[c] = "open" /\ s.pc # "drop" /\ link' = link
    BY <1>9 DEF ReadAgain, NeedMore, WriteAgain, WriteError, Rearm, RefuseWrite, Step,
                Sending, At, sockVars
  <2>3. QED
    BY <1>5, <2>1, <2>2
<1>10. CASE ReadData(c)
  <2>1. PICK n \in 1..Len(up[c]) :
          Set(c, IF s.state = "Receiving"
                 THEN [Touch(s) EXCEPT !.parser = @ \o SubSeq(up[c], 1, n),
                                       !.pc = "frames"]
                 ELSE Touch(s))
    BY <1>10 DEF ReadData
  <2>2. link[c] = "open" /\ link' = link /\ s.pc # "drop"
    BY <1>10 DEF ReadData, At
  <2>3. up[c] \in Seq(Frame)
    BY <1>0 DEF TypeOK, SocketTypeOK
  <2>4. PICK q \in Seq(Frame) : q = SubSeq(up[c], 1, n)
    BY <2>1, <2>3, StreamSteps
  <2>5. SameLog(s, [Touch(s) EXCEPT !.parser = @ \o q, !.pc = "frames"])
        /\ SameLog(s, Touch(s))
    BY <1>0, LogOps
  <2>6. QED
    BY <1>3, <1>4, <2>1, <2>2, <2>4, <2>5
<1>11. CASE BadFrame(c) \/ OnAckFrame(c)
  BY <1>7, <1>11 DEF BadFrame, OnAckFrame, Offers
<1>12. CASE PartialFrame(c)
  <2>1. link[c] = "open" /\ link' = link /\ s.pc # "drop" /\ Set(c, Taken(s))
    BY <1>12 DEF PartialFrame, Offers, At, sockVars
  <2>2. SameLog(s, Taken(s))
    BY <1>0, LogOps
  <2>3. QED
    BY <1>3, <1>4, <2>1, <2>2
<1>13. ASSUME OnHello(c) \/ OnData(c) \/ OnEnd(c)
       PROVE  /\ At(c, "frames") /\ UNCHANGED sockVars
              /\ link[c] = "open" /\ link' = link /\ s.pc # "drop"
              /\ ~s.completed /\ s.state = "Receiving"
              /\ s.parser \in Seq(Frame) /\ s.parser # <<>>
  BY <1>0, <1>13 DEF OnHello, OnData, OnEnd, Offers, At, ControlInv, SessionType, sockVars
<1>14. CASE OnHello(c)
  <2>1. PICK n \in Nat : n = Head(s.parser).size
    <3>1. Head(s.parser) \in Frame /\ Head(s.parser).type = "Hello"
      BY <1>13, <1>14, StreamSteps DEF OnHello, Offers
    <3>2. QED
      BY <3>1, FrameFields
  <2> DEFINE greeted == [Taken(s) EXCEPT !.hello = TRUE, !.expected = n]
             refused == queueAck([greeted EXCEPT !.reports = @ + 1], "IoError")
  <2>2. fail(c, "ProtocolError") \/ Set(c, greeted) \/ Set(c, refused)
    BY <1>14, <2>1 DEF OnHello
  <2>3. SameLog(s, greeted) /\ LogInv(refused, TRUE)
    <3>1. LogInv(s, TRUE) /\ ~s.terminated /\ ~s.completed
      BY <1>4, <1>13, <1>14
    <3>2. \A status : LogInv(queueAck([greeted EXCEPT !.reports = @ + 1], status), TRUE)
      BY <1>0, <3>1, LogDecided
    <3>3. SameLog(s, greeted)
      BY <1>0, LogOps
    <3>4. QED
      BY <3>2, <3>3
  <2> HIDE DEF greeted, refused
  <2>4. CASE Set(c, refused)
    BY <1>2, <1>13, <1>14, <2>3, <2>4
  <2>5. CASE Set(c, greeted)
    BY <1>3, <1>4, <1>13, <1>14, <2>3, <2>5
  <2>6. QED
    BY <1>7, <1>13, <1>14, <2>2, <2>4, <2>5
<1>15. CASE OnData(c)
  <2>1. PICK b \in Seq(Bytes) : b = Head(s.parser).data
    <3>1. Head(s.parser) \in Frame /\ Head(s.parser).type = "Data"
      BY <1>13, <1>15, StreamSteps DEF OnData, Offers
    <3>2. QED
      BY <3>1, FrameFields
  <2> DEFINE t == [Taken(s) EXCEPT !.hashed = @ \o b, !.received = @ + Len(b)]
  <2>2. Set(c, t) \/ \E status : fail(c, status)
    BY <1>15, <2>1 DEF OnData
  <2>3. SameLog(s, t)
    BY <1>0, LogOps
  <2> HIDE DEF t
  <2>4. CASE Set(c, t)
    BY <1>3, <1>4, <1>13, <1>15, <2>3, <2>4
  <2>5. QED
    BY <1>7, <1>13, <1>15, <2>2, <2>4
<1>16. CASE OnEnd(c)
  <2> DEFINE t == queueAck([Taken(s) EXCEPT !.completed = TRUE], "Ok")
  <2>1. Set(c, t) \/ \E status : fail(c, status)
    BY <1>16 DEF OnEnd
  <2>2. LogInv(t, TRUE)
    BY <1>0, <1>4, <1>13, <1>16, LogDecided
  <2> HIDE DEF t
  <2>3. CASE Set(c, t)
    BY <1>2, <1>13, <1>16, <2>2, <2>3
  <2>4. QED
    BY <1>7, <1>13, <1>16, <2>1, <2>3
<1>17. CASE WriteAck(c)
  <2>1. link[c] = "open" /\ link' = link /\ s.pc # "drop"
        /\ Set(c, [Touch(s) EXCEPT !.out = Tail(@)])
    BY <1>17 DEF WriteAck, Sending, At
  <2>2. SameLog(s, [Touch(s) EXCEPT !.out = Tail(@)])
    BY <1>0, LogOps
  <2>3. QED
    BY <1>3, <1>4, <2>1, <2>2
<1>18. CASE AckSent(c)
  <2> DEFINE t == [Touch(s) EXCEPT !.state = "Draining", !.pc = "keep"]
  <2>1. link[c] = "open" /\ link' = link /\ s.pc # "drop" /\ s.state = "SendingAck"
        /\ Set(c, t)
    BY <1>18 DEF AckSent, Sending, At
  <2>2. LogInv(t, TRUE)
    BY <1>0, <1>4, <2>1, LogDecided
  <2> HIDE DEF t
  <2>3. QED
    BY <1>2, <2>1, <2>2
<1>19. CASE Accept(c) \/ Refuse(c) \/ RefuseClose(c)
  <2>1. sess'[c] = NewSession \/ sess'[c] = Goto(NewSession, "busy")
    BY <1>0, <1>2, <1>19 DEF Accept, Refuse, RefuseClose
  <2>2. LogInv(NewSession, TRUE) /\ LogInv(NewSession, FALSE)
        /\ LogInv(Goto(NewSession, "busy"), TRUE) /\ LogInv(Goto(NewSession, "busy"), FALSE)
    BY DEF LogInv, NewSession, Goto
  <2>3. QED
    BY <2>1, <2>2
<1>20. CASE CloseSession(c) \/ SweepClose(c)
  <2>1. Set(c, Goto(Terminated(s), "idle"))
    BY <1>20 DEF CloseSession, SweepClose, Close
  <2>2. link'[c] = "closed"
    BY <1>0, <1>20 DEF CloseSession, SweepClose, Close, CloseLink, TypeOK, SocketTypeOK
  <2>3. LogInv(Goto(Terminated(s), "idle"), FALSE)
    BY <1>0, LogTerminated DEF Pcs
  <2>4. QED
    BY <1>2, <2>1, <2>2, <2>3
<1>21. CASE LeaveUnaccepted(c) \/ Destroy(c) \/ Crash(c)
  <2>1. sess' = sess
    BY <1>21 DEF LeaveUnaccepted, Destroy, Crash
  <2>2. link'[c] = "closed"
    BY <1>0, <1>21 DEF LeaveUnaccepted, Destroy, Crash, CloseLink, DropFromBacklog,
                       TypeOK, SocketTypeOK
  <2>3. QED
    BY <1>0, <2>1, <2>2 DEF LogInv
<1>22. ASSUME NEW events, Handle(c, events)
       PROVE  LogInv(sess'[c], link'[c] = "open")
  <2>1. link[c] = "open" /\ s.pc # "drop" /\ link' = link
    BY <1>22 DEF Handle, Step, At, sockVars
  <2>2. (\E pc \in Pcs : Set(c, Goto(s, pc))) \/ Set(c, Goto(Terminated(s), "drop"))
    BY <1>22 DEF Handle, Step, terminate, Pcs
  <2>3. QED
    BY <1>5, <1>6, <2>1, <2>2
<1>23. CASE Quiet(c)
  <2>1. link[c] = "open" /\ link' = link /\ Set(c, [s EXCEPT !.idle = TRUE])
    BY <1>23 DEF Quiet, sockVars
  <2>2. SameLog(s, [s EXCEPT !.idle = TRUE]) /\ [s EXCEPT !.idle = TRUE].pc = s.pc
    BY <1>0, LogOps
  <2>3. s.terminated => s.pc = "drop"
    BY <1>0, <2>1 DEF LogInv
  <2>4. QED
    BY <1>3, <2>1, <2>2, <2>3
<1>24. QED
  BY <1>8, <1>9, <1>10, <1>11, <1>12, <1>14, <1>15, <1>16, <1>17, <1>18, <1>19, <1>20,
     <1>21, <1>22, <1>23 DEF SessionStep, ServerStep, HandlerStep

\* The log never calls a transfer broken off whose file is stored, however its
\* connection is lost (fail, terminate and their callers).
THEOREM StoredIsNotReported == Spec => []StoredNotReported /\ []ReportsInv
<1>1. Init => ReportsInv
  BY DEF Init, NewSession, ReportsInv, ReportInv, LogInv
<1>2. ASSUME IInv, ReportsInv, [Next]_vars
      PROVE  ReportsInv'
  <2>1. CASE UNCHANGED vars
    BY <1>2, <2>1 DEF vars, sockVars, ReportsInv, ReportInv
  <2>2. ASSUME NEW c \in Conns, Peer(c) \/ SessionStep(c), NEW d \in Conns
        PROVE  ReportInv(d)'
    <3>1. CASE d # c
      BY <1>2, <2>2, <3>1, Untouched DEF IInv, ReportsInv, ReportInv
    <3>2. CASE d = c /\ SessionStep(c)
      BY <1>2, <3>2, ReportKeeps DEF ReportsInv
    <3>3. CASE d = c /\ Peer(c)
      <4>1. sess' = sess /\ (link'[c] = "open" => link[c] = "open")
        BY <1>2, <3>3 DEF Peer, sessionVars, Connect, Send, Receive, ShutUp, Hangup,
                          Reset, IInv, TypeOK, SocketTypeOK
      <4>2. QED
        BY <1>2, <3>3, <4>1 DEF ReportsInv, ReportInv, LogInv
    <3>4. QED
      BY <2>2, <3>1, <3>2, <3>3
  <2>3. QED
    BY <1>2, <2>1, <2>2 DEF Next, ReportsInv
<1>3. IInv /\ ReportsInv => StoredNotReported
  BY DEF IInv, ConnInv, StoredInv, ReportsInv, ReportInv, LogInv, StoredNotReported
<1>4. QED
  BY <1>1, <1>2, <1>3, Inductive, PTL DEF Spec
=============================================================================
