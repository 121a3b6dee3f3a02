--------------------------- MODULE TransferProofs ---------------------------
(***************************************************************************)
(* Theorems about Transfer, for every file, chunk size, buffer size and    *)
(* checksum function, and any number of clients and edits: first about     *)
(* exit codes, then about the bytes, what a client has read being what the *)
(* server stores, and a server waiting for a client still at work.         *)
(***************************************************************************)
EXTENDS Transfer, SessionProofs

-----------------------------------------------------------------------------
(* The client's own steps.                                                 *)

\* One step of a client's program changes the client itself and nothing of the
\* others.
LEMMA BecomeValue ==
    ASSUME ClientTypeOK, NEW c \in Conns, NEW next \in ClientType, Become(c, next)
    PROVE  /\ ClientTypeOK' /\ client'[c] = next /\ file' = file
           /\ \A d \in Conns \ {c} : client'[d] = client[d]
  BY DEF ClientTypeOK, Become

LEMMA QuitValue ==
    ASSUME ClientTypeOK, NEW c \in Conns, NEW code \in ExitCode, Quit(c, code)
    PROVE  /\ ClientTypeOK' /\ client'[c].exit = code /\ client'[c].pc = "leave"
           /\ client'[c].out = client[c].out /\ client'[c].size = client[c].size
           /\ client'[c].sent = client[c].sent /\ file' = file
           /\ \A d \in Conns \ {c} : client'[d] = client[d]
<1>1. client[c] \in ClientType
  BY DEF ClientTypeOK
<1> DEFINE next == [client[c] EXCEPT !.exit = code, !.pc = "leave"]
<1>2. /\ next \in ClientType /\ next.exit = code /\ next.pc = "leave"
      /\ next.out = client[c].out /\ next.size = client[c].size
      /\ next.sent = client[c].sent
  BY <1>1 DEF ClientType
<1>3. Become(c, next)
  BY DEF Quit
<1> HIDE DEF next
<1>4. QED
  BY <1>2, <1>3, BecomeValue

LEMMA QueueValue ==
    ASSUME ClientTypeOK, NEW c \in Conns, NEW frame \in Frame
    PROVE  /\ Queue(c, frame) \in ClientType
           /\ Queue(c, frame).out = InTwoPieces(frame)
           /\ Queue(c, frame).pc = "write"
           /\ Queue(c, frame).exit = client[c].exit
           /\ Queue(c, frame).size = client[c].size
           /\ Queue(c, frame).sent = client[c].sent
<1>1. InTwoPieces(frame) \in Seq(Frame)
  BY FrameCases DEF InTwoPieces
<1>2. QED
  BY <1>1 DEF ClientTypeOK, ClientType, Queue

LEMMA PiecesOfFrame ==
    ASSUME ClientSpeech, NEW frame \in PeerFrames
    PROVE  /\ Len(InTwoPieces(frame)) = 2 /\ InTwoPieces(frame)[1] = Part
           /\ \A i \in 1..Len(InTwoPieces(frame)) : InTwoPieces(frame)[i] \in PeerFrames
  BY DEF InTwoPieces, ClientSpeech

LEMMA ChunkIsBytes ==
    ASSUME ClientTypeOK, NEW c \in Conns
    PROVE  NextChunk(c) \in Seq(Bytes)
<1> DEFINE bytes == file[c].bytes
           from == Len(client[c].sent)
           left == Len(bytes) - from
           upto == from + (IF left < Chunk THEN left ELSE Chunk)
<1>1. bytes \in Seq(Bytes) /\ from \in Nat /\ Len(bytes) \in Nat /\ Chunk \in Nat
  BY ClientAssumption DEF ClientTypeOK, ClientType
<1>2. NextChunk(c) = SubSeq(bytes, from + 1, upto)
  BY DEF NextChunk
<1> HIDE DEF bytes, from
<1>3. upto \in Int /\ upto <= Len(bytes)
  BY <1>1
<1> HIDE DEF upto
<1>4. \A i \in (from + 1)..upto : bytes[i] \in Bytes
  BY <1>1, <1>3
<1>5. from + 1 \in 1..(upto + 1) => NextChunk(c) \in Seq(Bytes)
  BY <1>1, <1>2, <1>3, <1>4, SubSeqProperties
<1>6. QED
  BY <1>1, <1>2, <1>3, <1>5

-----------------------------------------------------------------------------
(* What a step of a client does to its connection and to itself.           *)

\* The socket calls a client makes are those of Session's peer.
LEMMA ClientIsPeer ==
    ASSUME ClientSpeech, TransferInv, NEW c \in Conns, ClientNext(c),
           UNCHANGED sessionVars
    PROVE  Peer(c) \/ UNCHANGED vars
<1>1. CASE WritePiece(c)
  <2>1. Head(client[c].out) \in PeerFrames
    <3>1. Len(client[c].out) \in {1, 2} /\ client[c].out \in Seq(Frame)
      BY <1>1 DEF WritePiece, TransferInv, PairInv, ClientTypeOK, ClientType
    <3>2. Head(client[c].out) = client[c].out[1] /\ 1 \in 1..Len(client[c].out)
      BY <3>1
    <3>3. QED
      BY <3>2 DEF TransferInv, PairInv
  <2>2. QED
    BY <1>1, <2>1 DEF WritePiece, Peer
<1>2. CASE UNCHANGED sockVars
  BY <1>2 DEF vars, sessionVars
<1>3. CASE Connect(c) \/ Receive(c) \/ ShutUp(c) \/ Hangup(c) \/ Reset(c)
  BY <1>3 DEF Peer
<1>4. QED
  BY <1>1, <1>2, <1>3
     DEF ClientNext, ClientStep, OpenFile, Dial, SendData, SendEnd, WriteFails,
         WriteTimesOut, ReadPiece, ReadEnds, ReadTimesOut, NoAck, Farewell, Leave, Kill,
         EditFile

LEMMA NoEndSteps ==
    ASSUME NEW s \in Seq(Frame), NoEnd(s)
    PROVE  /\ NoEnd(<<>>)
           /\ \A f \in Frame : f.type # "End" => NoEnd(Append(s, f))
           /\ s # <<>> => NoEnd(Tail(s)) /\ Head(s).type # "End"
           /\ \A n \in 0..Len(s) : /\ NoEnd(SubSeq(s, 1, n))
                                   /\ NoEnd(SubSeq(s, n + 1, Len(s)))
           /\ \A t \in Seq(Frame) : NoEnd(t) => NoEnd(s \o t)
<1>1. ASSUME NEW f \in Frame, f.type # "End"
      PROVE  NoEnd(Append(s, f))
  BY <1>1 DEF NoEnd
<1>2. ASSUME s # <<>>
      PROVE  NoEnd(Tail(s)) /\ Head(s).type # "End"
  BY <1>2, HeadTailProperties DEF NoEnd
<1>3. ASSUME NEW n \in 0..Len(s)
      PROVE  NoEnd(SubSeq(s, 1, n)) /\ NoEnd(SubSeq(s, n + 1, Len(s)))
  <2>1. \A i \in 1..Len(SubSeq(s, 1, n)) : SubSeq(s, 1, n)[i].type # "End"
    BY <1>3, SubSeqProperties DEF NoEnd
  <2>2. \A i \in 1..Len(SubSeq(s, n + 1, Len(s))) :
           SubSeq(s, n + 1, Len(s))[i].type # "End"
    BY <1>3, SubSeqProperties DEF NoEnd
  <2>3. QED
    BY <2>1, <2>2 DEF NoEnd
<1>4. ASSUME NEW t \in Seq(Frame), NoEnd(t)
      PROVE  NoEnd(s \o t)
  BY <1>4, ConcatProperties DEF NoEnd
<1>5. NoEnd(<<>>)
  BY DEF NoEnd
<1>6. QED
  BY <1>1, <1>2, <1>3, <1>4, <1>5

\* Only sending adds to the stream a client writes, and nothing but END an END.
LEMMA SocketNoEnd ==
    ASSUME SocketTypeOK, NEW c \in Conns, NoEnd(up[c]),
           \/ UNCHANGED sockVars \/ Connect(c) \/ Receive(c) \/ ShutUp(c)
           \/ Hangup(c) \/ Reset(c)
           \/ \E f \in Frame : Send(c, f) /\ f.type # "End"
    PROVE  NoEnd(up'[c])
<1>1. CASE UNCHANGED up
  BY <1>1
<1>2. CASE Cut(up, c)
  BY <1>2, NoEndSteps DEF Cut, SocketTypeOK
<1>3. ASSUME NEW f \in Frame, f.type # "End", up' = [up EXCEPT ![c] = Append(@, f)]
      PROVE  NoEnd(up'[c])
  BY <1>3, NoEndSteps DEF SocketTypeOK
<1>4. QED
  BY <1>1, <1>2, <1>3 DEF sockVars, Connect, Receive, ShutUp, Hangup, Reset, Send

LEMMA ShortOut ==
    ASSUME NEW q \in Seq(Frame), Len(q) \in {1, 2}
    PROVE  q # <<>> /\ Head(q) = q[1] /\ 1 \in 1..Len(q)
  OBVIOUS

\* A client's step keeps what binds it to its session.
LEMMA ClientKeeps ==
    ASSUME ClientSpeech, IInv, TransferInv, NEW c \in Conns, ClientNext(c),
           UNCHANGED sessionVars
    PROVE  /\ ClientTypeOK' /\ PairInv(c)'
           /\ \A d \in Conns \ {c} : client'[d] = client[d]
<1> DEFINE s == client[c]
<1>0. /\ s \in ClientType /\ ClientTypeOK /\ PairInv(c) /\ SocketTypeOK
      /\ UNCHANGED <<sess, stored>> /\ ConnInv(c) /\ TypeOK
  BY DEF TransferInv, ClientTypeOK, IInv, TypeOK, sessionVars
\* Leaving with a code that says the file may still be stored, or before END.
<1>1. ASSUME NEW code \in {2, 3, 4, 5}, Quit(c, code), s.exit = Running,
             (~EndSent(c) /\ NoEnd(up'[c])) \/ code = 5
      PROVE  /\ ClientTypeOK' /\ PairInv(c)'
             /\ \A d \in Conns \ {c} : client'[d] = client[d]
  <2>1. /\ ClientTypeOK' /\ client'[c].exit = code /\ client'[c].pc = "leave"
        /\ client'[c].out = s.out
        /\ \A d \in Conns \ {c} : client'[d] = client[d]
    BY <1>0, <1>1, QuitValue DEF ExitCode
  <2>2. code # Running /\ code # Killed
    BY DEF Running, Killed
  <2>3. PairInv(c)'
    BY <1>0, <1>1, <2>1, <2>2 DEF PairInv, EndSent, Doing
  <2>4. QED
    BY <2>1, <2>3
\* Going on before END is sent.
<1>2. ASSUME NEW next \in ClientType, Become(c, next), s.exit = Running,
             next.exit = Running, ~EndSent(c),
             next.pc \in {"connect", "write", "fill"}, NoEnd(up'[c]),
             \A i \in 1..Len(next.out) : next.out[i] \in PeerFrames,
             next.pc = "write" => \/ Len(next.out) = 1
                                  \/ Len(next.out) = 2 /\ next.out[1] = Part
      PROVE  /\ ClientTypeOK' /\ PairInv(c)'
             /\ \A d \in Conns \ {c} : client'[d] = client[d]
  <2>1. /\ ClientTypeOK' /\ client'[c] = next
        /\ \A d \in Conns \ {c} : client'[d] = client[d]
    BY <1>0, <1>2, BecomeValue
  <2>2. PairInv(c)'
    BY <1>0, <1>2, <2>1 DEF PairInv, EndSent, Doing, Running, Killed
  <2>3. QED
    BY <2>1, <2>2
<1>3. s.pc \in {"open", "connect", "write", "fill"} =>
         s.exit = Running /\ ~EndSent(c) /\ NoEnd(up[c])
  BY <1>0 DEF PairInv, EndSent, Running, Killed
<1>4. UNCHANGED sockVars => up'[c] = up[c]
  BY DEF sockVars
<1>5. CASE OpenFile(c)
  <2> DEFINE next == [s EXCEPT !.size = Len(file[c].bytes), !.pc = "connect"]
  <2>1. s.pc = "open" /\ NoEnd(up'[c])
    BY <1>3, <1>4, <1>5 DEF OpenFile, Doing
  <2>2. Len(file[c].bytes) \in Nat
    BY <1>0, ClientAssumption DEF ClientTypeOK
  <2>3. next \in ClientType /\ next.pc = "connect" /\ next.out = s.out /\ next.exit = s.exit
    BY <1>0, <2>2 DEF ClientType
  <2>4. \A i \in 1..Len(s.out) : s.out[i] \in PeerFrames
    BY <1>0 DEF PairInv
  <2>5. Become(c, next) \/ Quit(c, 2)
    BY <1>5 DEF OpenFile
  <2> HIDE DEF next
  <2>6. QED
    BY <1>1, <1>2, <1>3, <2>1, <2>3, <2>4, <2>5
<1>6. ASSUME NEW frame \in PeerFrames
      PROVE  LET q == Queue(c, frame)
             IN  /\ q \in ClientType /\ q.pc = "write" /\ q.exit = s.exit
                 /\ \A i \in 1..Len(q.out) : q.out[i] \in PeerFrames
                 /\ Len(q.out) = 2 /\ q.out[1] = Part
  BY <1>0, <1>6, PeerAssumption, QueueValue, PiecesOfFrame
<1>7. CASE Dial(c)
  <2>1. s.pc = "connect" /\ (Connect(c) \/ UNCHANGED sockVars)
    BY <1>7 DEF Dial, Doing
  <2>2. NoEnd(up'[c])
    BY <1>0, <1>3, <2>1, SocketNoEnd
  <2>3. Hello(s.size) \in PeerFrames
    BY <1>0 DEF ClientSpeech, ClientType
  <2>4. Quit(c, 3) \/ Become(c, Queue(c, Hello(s.size)))
    BY <1>7 DEF Dial
  <2>5. QED
    BY <1>1, <1>2, <1>3, <1>6, <2>1, <2>2, <2>3, <2>4
<1>8. CASE SendData(c)
  <2> DEFINE chunk == NextChunk(c)
             q == Queue(c, Data(chunk))
             next == [q EXCEPT !.sent = @ \o chunk, !.eof = Len(chunk) < Chunk]
  <2>1. s.pc = "fill" /\ NoEnd(up'[c])
    BY <1>3, <1>4, <1>8 DEF SendData, Doing
  <2>2. chunk \in Seq(Bytes) /\ Data(chunk) \in PeerFrames
    BY <1>0, ChunkIsBytes DEF ClientSpeech
  <2>3. Quit(c, 2) \/ Become(c, next)
    BY <1>8 DEF SendData
  <2>4. q \in ClientType
    BY <1>6, <2>2
  <2>5. /\ next \in ClientType /\ next.pc = q.pc /\ next.exit = q.exit
        /\ next.out = q.out
    <3> HIDE DEF chunk, q
    <3>1. q.sent \o chunk \in Seq(Bytes)
      BY <2>2, <2>4 DEF ClientType
    <3>2. \A b \in BOOLEAN, z \in Seq(Bytes) :
             LET r == [q EXCEPT !.sent = z, !.eof = b]
             IN  /\ r \in ClientType /\ r.pc = q.pc /\ r.exit = q.exit
                 /\ r.out = q.out
      BY <2>4 DEF ClientType
    <3>3. (Len(chunk) < Chunk) \in BOOLEAN
      OBVIOUS
    <3>4. next = [q EXCEPT !.sent = q.sent \o chunk, !.eof = Len(chunk) < Chunk]
      OBVIOUS
    <3> HIDE DEF next
    <3>5. QED
      BY <3>1, <3>2, <3>3, <3>4
  <2> HIDE DEF next
  <2>6. QED
    BY <1>1, <1>2, <1>3, <1>6, <2>1, <2>2, <2>3, <2>5
<1>9. CASE SendEnd(c)
  <2>1. s.pc = "fill" /\ NoEnd(up'[c])
    BY <1>3, <1>4, <1>9 DEF SendEnd, Doing
  <2>2. End(Crc(s.sent)) \in PeerFrames
    BY <1>0 DEF ClientSpeech, ClientType
  <2>3. QED
    BY <1>2, <1>3, <1>6, <1>9, <2>1, <2>2 DEF SendEnd
<1>21. /\ s.pc = "write" => \/ Len(s.out) = 1
                            \/ Len(s.out) = 2 /\ s.out[1] = Part
       /\ \A i \in 1..Len(s.out) : s.out[i] \in PeerFrames
  BY <1>0 DEF PairInv, Doing
<1>10. CASE WritePiece(c)
  <2> DEFINE rest == Tail(s.out)
             pc == IF rest # <<>> THEN "write"
                   ELSE IF Head(s.out).type = "End" THEN "ack" ELSE "fill"
             next == [s EXCEPT !.out = Tail(@), !.pc = pc]
  <2>1. /\ s.pc = "write" /\ s.exit = Running /\ ~EndSent(c) /\ NoEnd(up[c])
        /\ Send(c, Head(s.out)) /\ Become(c, next)
    BY <1>3, <1>10 DEF WritePiece, Doing
  <2>2. /\ s.out \in Seq(Frame)
        /\ Len(s.out) = 1 \/ (Len(s.out) = 2 /\ s.out[1] = Part)
        /\ \A i \in 1..Len(s.out) : s.out[i] \in PeerFrames
    <3>1. s.out \in Seq(Frame)
      BY <1>0 DEF ClientType
    <3>2. QED
      BY <1>21, <2>1, <3>1
  <2>3. /\ Head(s.out) = s.out[1] /\ rest \in Seq(Frame) /\ Head(s.out) \in Frame
        /\ Len(rest) = Len(s.out) - 1
        /\ \A i \in 1..Len(rest) : rest[i] \in PeerFrames
    <3>1. s.out # <<>> /\ Head(s.out) = s.out[1] /\ 1 \in 1..Len(s.out)
      <4>1. Len(s.out) \in {1, 2}
        BY <2>2
      <4>2. QED
        BY <2>2, <4>1, ShortOut
    <3>2. /\ rest \in Seq(Frame) /\ Len(rest) = Len(s.out) - 1
          /\ \A i \in 1..Len(rest) : rest[i] = s.out[i + 1] /\ i + 1 \in 1..Len(s.out)
      BY <2>2, <3>1
    <3>3. QED
      BY <2>2, <3>1, <3>2
  <2>4. next \in ClientType /\ next.out = rest /\ next.pc = pc /\ next.exit = s.exit
    <3>1. pc \in {"write", "ack", "fill"}
      OBVIOUS
    <3> HIDE DEF pc
    <3>2. QED
      BY <1>0, <2>3, <3>1 DEF ClientType
  <2>5. CASE pc = "ack"
    <3>1. /\ ClientTypeOK' /\ client'[c] = next
          /\ \A d \in Conns \ {c} : client'[d] = client[d]
      <4> HIDE DEF next
      <4>1. QED
        BY <1>0, <2>1, <2>4, BecomeValue
    <3>2. /\ client'[c].pc = "ack" /\ client'[c].exit = Running
          /\ client'[c].out = rest
      BY <2>1, <2>4, <2>5, <3>1
    <3>3. PairInv(c)'
      BY <2>3, <3>2 DEF PairInv, EndSent, Doing, Running, Killed
    <3>4. QED
      BY <3>1, <3>3
  <2>6. CASE pc # "ack"
    <3>1. Head(s.out).type # "End"
      <4>1. CASE rest = <<>>
        BY <2>6, <4>1
      <4>2. CASE rest # <<>>
        <5>1. Len(s.out) = 2
          BY <2>2, <2>3, <4>2
        <5>2. QED
          BY <2>2, <2>3, <5>1 DEF Part
      <4>3. QED
        BY <4>1, <4>2
    <3>2. NoEnd(up'[c])
      BY <1>0, <2>1, <2>3, <3>1, SocketNoEnd
    <3>3. pc \in {"write", "fill"} /\ (pc = "write" => Len(rest) = 1)
      <4>1. rest # <<>> => Len(rest) = 1
        BY <2>2, <2>3
      <4>2. QED
        BY <2>6, <4>1
    <3> HIDE DEF next, pc, rest
    <3>4. QED
      BY <1>2, <2>1, <2>3, <2>4, <3>2, <3>3
  <2>7. QED
    BY <2>5, <2>6
<1>11. CASE WriteFails(c) \/ WriteTimesOut(c)
  <2>1. s.pc = "write" /\ Quit(c, 4) /\ NoEnd(up'[c])
    BY <1>3, <1>4, <1>11 DEF WriteFails, WriteTimesOut, Doing
  <2>2. QED
    BY <1>1, <1>3, <2>1
<1>12. s.pc \in {"ack", "goodbye"} => s.exit = Running
  BY <1>0 DEF PairInv
<1>13. CASE ReadEnds(c) \/ ReadTimesOut(c)
  BY <1>1, <1>12, <1>13 DEF ReadEnds, ReadTimesOut, NoAck, Doing
<1>14. CASE ReadPiece(c)
  <2> DEFINE piece == Head(down[c])
             next == [s EXCEPT !.pc = "goodbye"]
  <2>1. /\ s.pc = "ack" /\ s.exit = Running /\ UNCHANGED <<link, sess, stored>>
        /\ down[c] \in Seq(Frame) /\ down[c] # <<>> /\ piece \in Frame
    <3>1. down[c] \in Seq(Frame) /\ down[c] # <<>>
      BY <1>0, <1>14 DEF ReadPiece, Receive, SocketTypeOK
    <3>2. piece \in Frame
      BY <3>1, StreamSteps
    <3>3. QED
      BY <1>0, <1>12, <1>14, <3>1, <3>2 DEF ReadPiece, Receive, Doing
  <2>2. \A i \in 1..Len(s.out) : s.out[i] \in PeerFrames
    BY <1>0 DEF PairInv
  <2>3. CASE UNCHANGED clientVars
    <3>1. client'[c] = s /\ ClientTypeOK' /\ \A d \in Conns : client'[d] = client[d]
      BY <1>0, <2>3 DEF clientVars, ClientTypeOK
    <3>2. PairInv(c)'
      BY <1>0, <2>1, <3>1 DEF PairInv, EndSent, Doing, Running, Killed
    <3>3. QED
      BY <3>1, <3>2
  <2>4. CASE Quit(c, 5)
    BY <1>1, <2>1, <2>4
  <2>5. ASSUME piece.type = "Ack"
        PROVE  /\ piece.status = "Ok" => stored[c] # <<>>
               /\ piece.status # "Ok" => stored[c] = <<>> /\ ~Undecided(c)
    <3>1. piece.status \in Status /\ piece = Ack(piece.status)
      BY <2>1, <2>5 DEF Frame, Ack, Garbage, Part
    <3>2. AckIn(down[c], piece.status)
      BY <2>1, <3>1, AckSteps
    <3>3. (piece.status = "Ok") = sess[c].completed /\ ~Undecided(c)
      BY <1>0, <3>1, <3>2 DEF ConnInv, AckInv
    <3>4. stored[c] = IF sess[c].completed THEN <<sess[c].hashed>> ELSE <<>>
      BY <1>0 DEF ConnInv, StoredInv
    <3>5. <<sess[c].hashed>> # <<>>
      OBVIOUS
    <3>6. CASE piece.status = "Ok"
      <4>1. sess[c].completed = TRUE
        BY <3>3, <3>6
      <4>2. QED
        BY <3>4, <3>5, <3>6, <4>1
    <3>7. CASE piece.status # "Ok"
      <4>1. sess[c].completed = FALSE
        BY <3>3, <3>7
      <4>2. QED
        BY <3>3, <3>4, <3>7, <4>1
    <3>8. QED
      BY <3>6, <3>7
  <2>6. CASE piece.type = "Ack" /\ piece.status # "Ok" /\ Quit(c, 6)
    <3>1. /\ ClientTypeOK' /\ client'[c].exit = 6 /\ client'[c].pc = "leave"
          /\ client'[c].out = s.out
          /\ \A d \in Conns \ {c} : client'[d] = client[d]
      BY <1>0, <2>6, QuitValue DEF ExitCode
    <3>2. stored'[c] = <<>> /\ ~Undecided(c)'
      BY <2>1, <2>5, <2>6 DEF Undecided
    <3>3. PairInv(c)'
      BY <2>2, <3>1, <3>2 DEF PairInv, EndSent, Doing, Running
    <3>4. QED
      BY <3>1, <3>3
  <2>7. CASE piece.type = "Ack" /\ piece.status = "Ok" /\ Become(c, next)
    <3>1. next \in ClientType /\ next.pc = "goodbye" /\ next.out = s.out /\ next.exit = s.exit
      BY <1>0 DEF ClientType
    <3>2. /\ ClientTypeOK' /\ client'[c] = next
          /\ \A d \in Conns \ {c} : client'[d] = client[d]
      <4> HIDE DEF next
      <4>1. QED
        BY <1>0, <2>7, <3>1, BecomeValue
    <3>3. /\ client'[c].pc = "goodbye" /\ client'[c].out = s.out
          /\ client'[c].exit = Running
      BY <2>1, <3>1, <3>2
    <3>4. PairInv(c)'
      BY <2>1, <2>2, <2>5, <2>7, <3>3 DEF PairInv, EndSent, Doing, Running, Killed
    <3>5. QED
      BY <3>2, <3>4
  <2>8. QED
    BY <1>14, <2>3, <2>4, <2>6, <2>7 DEF ReadPiece, Accepts
<1>15. CASE Farewell(c)
  <2>1. /\ ClientTypeOK' /\ client'[c].exit = 0 /\ client'[c].pc = "leave"
        /\ client'[c].out = s.out
        /\ \A d \in Conns \ {c} : client'[d] = client[d]
    BY <1>0, <1>15, QuitValue DEF Farewell, ExitCode
  <2>2. s.pc = "goodbye" /\ stored[c] # <<>>
    BY <1>0, <1>15 DEF Farewell, PairInv, Doing
  <2>3. PairInv(c)'
    BY <1>0, <2>1, <2>2 DEF PairInv, EndSent, Doing, Running
  <2>4. QED
    BY <2>1, <2>3
\* The end of the process.
<1>16. ASSUME NEW code \in ExitCode,
              Become(c, [s EXCEPT !.exit = code, !.pc = "done"]),
              UNCHANGED sockVars \/ Hangup(c) \/ Reset(c),
              code = Killed \/ (s.exit = code /\ s.pc = "leave")
       PROVE  /\ ClientTypeOK' /\ PairInv(c)'
              /\ \A d \in Conns \ {c} : client'[d] = client[d]
  <2> DEFINE next == [s EXCEPT !.exit = code, !.pc = "done"]
  <2>1. next \in ClientType /\ next.pc = "done" /\ next.out = s.out /\ next.exit = code
    BY <1>0 DEF ClientType
  <2>2. /\ ClientTypeOK' /\ client'[c] = next
        /\ \A d \in Conns \ {c} : client'[d] = client[d]
    <3> HIDE DEF next
    <3>1. Become(c, next)
      BY <1>16 DEF next
    <3>2. QED
      BY <1>0, <2>1, <3>1, BecomeValue
  <2>3. ~Undecided(c) => ~Undecided(c)'
    BY <1>0, <1>16 DEF Undecided, Hangup, Reset, sockVars
  <2>4. NoEnd(up[c]) => NoEnd(up'[c])
    BY <1>0, <1>16, SocketNoEnd
  <2>5. code # Running
    BY DEF ExitCode, Running, Killed
  <2>6. PairInv(c)'
    BY <1>0, <1>16, <2>1, <2>2, <2>3, <2>4, <2>5 DEF PairInv, EndSent, Doing, Killed
  <2>7. QED
    BY <2>2, <2>6
<1>17. CASE Leave(c)
  <2>1. s.exit \in ExitCode /\ s.pc = "leave"
    BY <1>0, <1>17 DEF Leave, Doing, PairInv, ClientType
  <2>2. [s EXCEPT !.exit = s.exit, !.pc = "done"] = [s EXCEPT !.pc = "done"]
    BY <1>0 DEF ClientType
  <2>3. QED
    BY <1>16, <1>17, <2>1, <2>2 DEF Leave
<1>18. CASE Kill(c)
  <2>1. /\ Become(c, [s EXCEPT !.exit = Killed, !.pc = "done"])
        /\ Hangup(c) \/ Reset(c)
    BY <1>18 DEF Kill
  <2>2. Killed \in ExitCode
    BY DEF ExitCode
  <2>3. QED
    BY <1>16, <2>1, <2>2
<1>19. CASE EditFile(c)
  <2>1. client' = client /\ up' = up /\ link' = link
    BY <1>19 DEF EditFile, sockVars
  <2>2. ClientTypeOK'
    BY <1>0, <1>19 DEF EditFile, ClientTypeOK
  <2>3. PairInv(c)'
    BY <1>0, <2>1 DEF PairInv, EndSent, Doing, Undecided
  <2>4. QED
    BY <2>1, <2>2, <2>3
<1>20. QED
  BY <1>5, <1>7, <1>8, <1>9, <1>10, <1>11, <1>13, <1>14, <1>15, <1>17, <1>18, <1>19
     DEF ClientNext, ClientStep

-----------------------------------------------------------------------------
(* What a step of a session does to a client.                              *)

\* Only onEnd publishes a file.
LEMMA StoredBy ==
    ASSUME NEW c \in Conns, SessionStep(c)
    PROVE  UNCHANGED stored \/ OnEnd(c)
<1>1. CASE HandlerStep(c)
  BY <1>1 DEF HandlerStep, ReadData, ReadEof, ReadError, ReadAgain, NeedMore,
              PartialFrame, BadFrame, OnAckFrame, OnHello, OnData, WriteAck,
              WriteAgain, WriteError, AckSent, Step, fail
<1>2. CASE ServerStep(c)
  BY <1>2 DEF ServerStep, Accept, LeaveUnaccepted, Refuse, RefuseWrite,
              RefuseClose, Destroy, Crash, CloseSession, SweepClose, Close, Rearm,
              Handle, Step
<1>3. CASE Quiet(c)
  BY <1>3 DEF Quiet
<1>4. QED
  BY <1>1, <1>2, <1>3 DEF SessionStep

\* What the parts of the handlers do to the frames in a session's parser.
LEMMA ParserOps ==
    ASSUME NEW s \in SessionType
    PROVE  /\ \A pc \in Pcs : /\ Goto(s, pc).parser = s.parser
                             /\ Goto(Terminated(s), pc).parser = s.parser
           /\ NewSession.parser = <<>> /\ Goto(NewSession, "busy").parser = <<>>
           /\ Touch(s).parser = s.parser
           /\ [s EXCEPT !.idle = TRUE].parser = s.parser
           /\ [Touch(s) EXCEPT !.out = Tail(@)].parser = s.parser
           /\ [Touch(s) EXCEPT !.state = "Draining", !.pc = "keep"].parser = s.parser
           /\ Taken(s).parser = Tail(s.parser)
           /\ \A n \in Nat :
                [Taken(s) EXCEPT !.hello = TRUE, !.expected = n].parser = Tail(s.parser)
           /\ \A b \in Seq(Bytes) :
                [Taken(s) EXCEPT !.hashed = @ \o b, !.received = @ + Len(b)].parser
                    = Tail(s.parser)
           /\ \A q \in Seq(Frame) :
                [Touch(s) EXCEPT !.parser = @ \o q, !.pc = "frames"].parser
                    = s.parser \o q
  BY DEF SessionType, Goto, Terminated, Touch, Taken, NewSession

\* Every ACK that is queued empties the parser.
LEMMA VerdictParser ==
    ASSUME NEW s \in SessionType, NEW status
    PROVE  /\ queueAck([s EXCEPT !.reports = @ + 1], status).parser = <<>>
           /\ queueAck([Taken(s) EXCEPT !.completed = TRUE], status).parser = <<>>
           /\ \A n \in Nat :
                queueAck([[Taken(s) EXCEPT !.hello = TRUE, !.expected = n]
                             EXCEPT !.reports = @ + 1], status).parser = <<>>
  BY DEF SessionType, queueAck, Taken

\* A session makes no END of its own: its parser and its socket hold what came.
LEMMA ParserNoEnd ==
    ASSUME IInv, NEW c \in Conns, SessionStep(c), NoEnd(up[c]), NoEnd(sess[c].parser)
    PROVE  NoEnd(sess'[c].parser)
<1> DEFINE s == sess[c]
<1>0. /\ TypeOK /\ SocketTypeOK /\ s \in SessionType /\ up[c] \in Seq(Frame)
      /\ s.parser \in Seq(Frame)
      /\ {"idle", "drop", "keep", "read", "write", "refused", "busy", "frames"} \subseteq Pcs
  BY DEF IInv, TypeOK, SocketTypeOK, SessionType, Pcs
<1>1. NoEnd(<<>>) /\ (s.parser # <<>> => NoEnd(Tail(s.parser)))
  BY <1>0, NoEndSteps
<1>2. ASSUME NEW t, Set(c, t), t.parser \in {<<>>, s.parser}
      PROVE  NoEnd(sess'[c].parser)
  BY <1>0, <1>1, <1>2, SetValue
<1>3. ASSUME NEW t, Set(c, t), s.parser # <<>>, t.parser = Tail(s.parser)
      PROVE  NoEnd(sess'[c].parser)
  BY <1>0, <1>1, <1>3, SetValue
<1>4. ASSUME NEW pc \in Pcs, Step(c, pc) \/ terminate(c, pc) \/ Set(c, Goto(s, pc))
      PROVE  NoEnd(sess'[c].parser)
  <2>1. Set(c, Goto(s, pc)) \/ Set(c, Goto(Terminated(s), pc))
    BY <1>4 DEF Step, terminate
  <2>2. QED
    BY <1>0, <1>2, <2>1, ParserOps
<1>5. ASSUME NEW status, fail(c, status)
      PROVE  NoEnd(sess'[c].parser)
  BY <1>0, <1>2, <1>5, VerdictParser DEF fail
<1>6. CASE ReadData(c)
  <2>1. PICK n \in 1..Len(up[c]) :
          Set(c, IF s.state = "Receiving"
                 THEN [Touch(s) EXCEPT !.parser = @ \o SubSeq(up[c], 1, n),
                                       !.pc = "frames"]
                 ELSE Touch(s))
    BY <1>6 DEF ReadData
  <2> DEFINE q == SubSeq(up[c], 1, n)
  <2>2. q \in Seq(Frame) /\ NoEnd(q)
    BY <1>0, StreamSteps, NoEndSteps
  <2>3. CASE s.state = "Receiving"
    <3> HIDE DEF q
    <3>1. sess'[c].parser = s.parser \o q
      <4> DEFINE t == [Touch(s) EXCEPT !.parser = @ \o q, !.pc = "frames"]
      <4>1. Set(c, t)
        BY <2>1, <2>3 DEF q
      <4>2. t.parser = s.parser \o q
        BY <1>0, <2>2, ParserOps
      <4> HIDE DEF t
      <4>3. QED
        BY <1>0, <4>1, <4>2, SetValue
    <3>2. QED
      BY <1>0, <2>2, <3>1, NoEndSteps
  <2>4. CASE s.state # "Receiving"
    BY <1>0, <1>2, <2>1, <2>4, ParserOps
  <2>5. QED
    BY <2>3, <2>4
<1>7. CASE ReadEof(c) \/ ReadError(c) \/ ReadAgain(c) \/ NeedMore(c)
  BY <1>0, <1>4, <1>7 DEF ReadEof, ReadError, ReadAgain, NeedMore
<1>8. CASE PartialFrame(c)
  BY <1>0, <1>3, <1>8, ParserOps DEF PartialFrame, Offers
<1>9. CASE BadFrame(c) \/ OnAckFrame(c)
  BY <1>5, <1>9 DEF BadFrame, OnAckFrame
<1>10. CASE OnHello(c)
  <2> DEFINE n == Head(s.parser).size
             greeted == [Taken(s) EXCEPT !.hello = TRUE, !.expected = n]
  <2>1. s.parser # <<>> /\ n \in Nat
    <3>1. s.parser # <<>> /\ Head(s.parser).type = "Hello"
      BY <1>10 DEF OnHello, Offers
    <3>2. Head(s.parser) \in Frame
      BY <1>0, <3>1, StreamSteps
    <3>3. QED
      BY <3>1, <3>2, FrameFields
  <2>2. \/ fail(c, "ProtocolError")
        \/ Set(c, greeted)
        \/ Set(c, queueAck([greeted EXCEPT !.reports = @ + 1], "IoError"))
    BY <1>10 DEF OnHello
  <2>3. greeted.parser = Tail(s.parser)
    BY <1>0, <2>1, ParserOps
  <2>4. queueAck([greeted EXCEPT !.reports = @ + 1], "IoError").parser = <<>>
    BY <1>0, <2>1, VerdictParser
  <2> HIDE DEF greeted
  <2>5. QED
    BY <1>2, <1>3, <1>5, <2>1, <2>2, <2>3, <2>4
<1>11. CASE OnData(c)
  <2> DEFINE b == Head(s.parser).data
             t == [Taken(s) EXCEPT !.hashed = @ \o b, !.received = @ + Len(b)]
  <2>1. s.parser # <<>> /\ b \in Seq(Bytes)
    <3>1. s.parser # <<>> /\ Head(s.parser).type = "Data"
      BY <1>11 DEF OnData, Offers
    <3>2. Head(s.parser) \in Frame
      BY <1>0, <3>1, StreamSteps
    <3>3. QED
      BY <3>1, <3>2, FrameFields
  <2>2. Set(c, t) \/ \E status : fail(c, status)
    BY <1>11 DEF OnData
  <2>3. t.parser = Tail(s.parser)
    BY <1>0, <2>1, ParserOps
  <2> HIDE DEF t
  <2>4. QED
    BY <1>3, <1>5, <2>1, <2>2, <2>3
<1>12. CASE OnEnd(c)
  <2>1. \/ \E status : fail(c, status)
        \/ Set(c, queueAck([Taken(s) EXCEPT !.completed = TRUE], "Ok"))
    BY <1>12 DEF OnEnd
  <2>2. QED
    BY <1>0, <1>2, <1>5, <2>1, VerdictParser
<1>13. CASE WriteAck(c) \/ AckSent(c)
  BY <1>0, <1>2, <1>13, ParserOps DEF WriteAck, AckSent
<1>14. CASE WriteAgain(c) \/ WriteError(c)
  BY <1>0, <1>4, <1>14 DEF WriteAgain, WriteError
<1>15. CASE Accept(c) \/ Refuse(c) \/ RefuseClose(c)
  BY <1>0, <1>2, <1>15, ParserOps DEF Accept, Refuse, RefuseClose
<1>16. CASE RefuseWrite(c) \/ CloseSession(c) \/ SweepClose(c)
  BY <1>0, <1>2, <1>16, ParserOps DEF RefuseWrite, CloseSession, SweepClose, Close
<1>17. CASE LeaveUnaccepted(c) \/ Destroy(c) \/ Crash(c)
  BY <1>17 DEF LeaveUnaccepted, Destroy, Crash
<1>18. CASE Rearm(c) \/ \E events \in SUBSET {"IN", "OUT", "HUP"} : Handle(c, events)
  BY <1>0, <1>4, <1>18 DEF Rearm, Handle
<1>19. CASE Quiet(c)
  BY <1>0, <1>2, <1>19, ParserOps DEF Quiet
<1>20. QED
  BY <1>6, <1>7, <1>8, <1>9, <1>10, <1>11, <1>12, <1>13, <1>14, <1>15, <1>16,
     <1>17, <1>18, <1>19 DEF SessionStep, HandlerStep, ServerStep

LEMMA StreamNoEnd ==
    ASSUME IInv, NEW c \in Conns, SessionStep(c), NoEnd(up[c])
    PROVE  NoEnd(up'[c])
<1>1. SocketTypeOK /\ up[c] \in Seq(Frame) /\ NoEnd(<<>>)
  BY NoEndSteps DEF IInv, TypeOK, SocketTypeOK
<1>2. CASE up'[c] \in {up[c], <<>>}
  BY <1>1, <1>2
<1>3. CASE Cut(up, c)
  BY <1>1, <1>3, NoEndSteps DEF Cut, SocketTypeOK
<1>4. CASE ReadData(c)
  BY <1>1, <1>4, NoEndSteps DEF ReadData, SocketTypeOK
<1>5. CASE HandlerStep(c) /\ ~ReadData(c)
  BY <1>1, <1>2, <1>3, <1>5
     DEF HandlerStep, ReadEof, ReadError, ReadAgain, NeedMore, PartialFrame, BadFrame,
         OnAckFrame, OnHello, OnData, OnEnd, WriteAck, WriteAgain, WriteError, AckSent,
         Step, PutDown, sockVars
<1>6. CASE ServerStep(c) \/ Quiet(c)
  BY <1>1, <1>2, <1>3, <1>6
     DEF ServerStep, Accept, LeaveUnaccepted, Refuse, RefuseWrite, RefuseClose, Destroy,
         Crash, CloseSession, SweepClose, Close, Rearm, Handle, Step, Quiet, PutDown,
         CloseLink, DropFromBacklog, TakeFromBacklog, SocketTypeOK, sockVars
<1>7. QED
  BY <1>4, <1>5, <1>6 DEF SessionStep

\* A verdict, once there, is not taken back.
LEMMA DecidedStays ==
    ASSUME IInv, NEW c \in Conns, SessionStep(c), ~Undecided(c)
    PROVE  ~Undecided(c)' /\ stored'[c] = stored[c]
<1>0. /\ TypeOK /\ SocketTypeOK /\ link[c] \in {"none", "backlog", "open", "closed"}
      /\ ConnInv(c)
  BY DEF IInv, TypeOK, SocketTypeOK
<1>1. stored'[c] = stored[c]
  <2>1. OnEnd(c) => Undecided(c)
    <3>1. At(c, "frames") => link[c] = "open" /\ sess[c].state = "Receiving"
                               /\ sess[c].pc # "refused"
      BY <1>0 DEF At, ConnInv, ControlInv
    <3>2. QED
      BY <3>1 DEF OnEnd, Offers, Undecided
  <2>2. QED
    BY <2>1, StoredBy
<1>2. link[c] \in {"backlog", "open"}
  BY DEF SessionStep, HandlerStep, ServerStep, Accept, LeaveUnaccepted, Refuse,
         RefuseWrite, RefuseClose, Destroy, Crash, CloseSession, SweepClose, Rearm,
         Handle, Quiet, ReadData, ReadEof, ReadError, ReadAgain, NeedMore,
         PartialFrame, BadFrame, OnAckFrame, OnHello, OnData, OnEnd, WriteAck,
         WriteAgain, WriteError, AckSent, Offers, Sending, At, TakeFromBacklog,
         DropFromBacklog
<1>3. link[c] = "open" /\ (sess[c].state # "Receiving" \/ sess[c].pc = "refused")
  BY <1>2 DEF Undecided
<1>4. link'[c] \in {"open", "closed"}
  BY <1>0, <1>3
     DEF SessionStep, HandlerStep, ServerStep, Accept, LeaveUnaccepted, Refuse,
         RefuseWrite, RefuseClose, Destroy, Crash, CloseSession, SweepClose, Close,
         Rearm, Handle, Quiet, ReadData, ReadEof, ReadError, ReadAgain, NeedMore,
         PartialFrame, BadFrame, OnAckFrame, OnHello, OnData, OnEnd, WriteAck,
         WriteAgain, WriteError, AckSent, Step, TakeFromBacklog, DropFromBacklog,
         CloseLink, SocketTypeOK, sockVars
<1>5. CASE sess[c].state # "Receiving"
  <2>1. sess'[c].state # "Receiving"
    BY <1>3, <1>5, StepIsFinal DEF FinalStep
  <2>2. QED
    BY <1>1, <1>4, <2>1 DEF Undecided
<1>6. CASE sess[c].pc = "refused"
  <2>1. RefuseClose(c) \/ Crash(c)
    BY <1>3, <1>6
       DEF SessionStep, HandlerStep, ServerStep, Accept, LeaveUnaccepted, Refuse,
           RefuseWrite, Destroy, CloseSession, SweepClose, Rearm, Handle, Quiet,
           ReadData, ReadEof, ReadError, ReadAgain, NeedMore, PartialFrame, BadFrame,
           OnAckFrame, OnHello, OnData, OnEnd, WriteAck, WriteAgain, WriteError,
           AckSent, Offers, Sending, At, TakeFromBacklog, DropFromBacklog
  <2>2. link'[c] = "closed"
    BY <1>0, <2>1 DEF RefuseClose, Crash, CloseLink, SocketTypeOK
  <2>3. QED
    BY <1>1, <2>2 DEF Undecided
<1>7. QED
  BY <1>3, <1>5, <1>6

\* A session's step keeps what binds its client to it.
LEMMA SessionKeeps ==
    ASSUME IInv, NEW c \in Conns, PairInv(c), SessionStep(c), client' = client
    PROVE  PairInv(c)'
<1>1. stored[c] # <<>> => stored'[c] # <<>>
  BY StepIsFinal DEF FinalStep
<1>2. /\ NoEnd(up[c]) /\ NoEnd(sess[c].parser) /\ stored[c] = <<>>
      => /\ NoEnd(up'[c]) /\ NoEnd(sess'[c].parser) /\ stored'[c] = <<>>
  <2>1. ASSUME NoEnd(sess[c].parser), OnEnd(c)
        PROVE  FALSE
    <3>1. sess[c].parser \in Seq(Frame) /\ sess[c].parser # <<>>
      BY <2>1 DEF OnEnd, Offers, IInv, TypeOK, SessionType
    <3>2. Head(sess[c].parser).type = "End"
      BY <2>1 DEF OnEnd, Offers
    <3>3. QED
      BY <2>1, <3>1, <3>2, NoEndSteps
  <2>2. QED
    BY <2>1, StoredBy, ParserNoEnd, StreamNoEnd
<1>3. ~Undecided(c) /\ stored[c] = <<>> => ~Undecided(c)' /\ stored'[c] = <<>>
  BY DecidedStays
<1>4. QED
  BY <1>1, <1>2, <1>3 DEF PairInv, EndSent, Doing

\* A step of one connection, by either program, leaves the others alone.
LEMMA OtherPairs ==
    ASSUME IInv, NEW c \in Conns, NEW d \in Conns \ {c}, PairInv(d),
           \/ SessionStep(c)
           \/ (Peer(c) \/ UNCHANGED vars) /\ UNCHANGED sessionVars,
           client'[d] = client[d]
    PROVE  PairInv(d)' /\ stored'[d] = stored[d]
<1>1. /\ sess'[d] = sess[d] /\ stored'[d] = stored[d] /\ up'[d] = up[d]
      /\ link'[d] = link[d]
  BY Untouched DEF IInv, vars, sockVars
<1>2. QED
  BY <1>1 DEF PairInv, EndSent, Doing, Undecided

LEMMA TransferStep ==
    ASSUME ClientSpeech, IInv, TransferInv, [TransferNext]_transferVars
    PROVE  [Next]_vars /\ TransferInv'
<1>1. CASE UNCHANGED transferVars
  <2>1. UNCHANGED <<vars, client, file>>
    BY <1>1 DEF transferVars, clientVars
  <2>2. ASSUME NEW c \in Conns
        PROVE  PairInv(c)'
    BY <2>1 DEF vars, sockVars, TransferInv, PairInv, EndSent, Doing, Undecided
  <2>3. QED
    BY <2>1, <2>2 DEF TransferInv, ClientTypeOK
<1>2. ASSUME NEW c \in Conns, ClientNext(c), UNCHANGED sessionVars
      PROVE  [Next]_vars /\ TransferInv'
  <2>1. Peer(c) \/ UNCHANGED vars
    BY <1>2, ClientIsPeer
  <2>2. ClientTypeOK' /\ PairInv(c)' /\ \A d \in Conns \ {c} : client'[d] = client[d]
    BY <1>2, ClientKeeps
  <2>3. \A d \in Conns \ {c} : PairInv(d)'
    BY <1>2, <2>1, <2>2, OtherPairs DEF TransferInv
  <2>4. QED
    BY <2>1, <2>2, <2>3 DEF Next, TransferInv
<1>3. ASSUME NEW c \in Conns, SessionStep(c), UNCHANGED clientVars
      PROVE  [Next]_vars /\ TransferInv'
  <2>1. client' = client /\ file' = file
    BY <1>3 DEF clientVars
  <2>2. PairInv(c)'
    BY <1>3, <2>1, SessionKeeps DEF TransferInv
  <2>3. \A d \in Conns \ {c} : PairInv(d)'
    BY <1>3, <2>1, OtherPairs DEF TransferInv
  <2>4. QED
    BY <1>3, <2>1, <2>2, <2>3 DEF Next, TransferInv, ClientTypeOK
<1>4. QED
  BY <1>1, <1>2, <1>3 DEF TransferNext

LEMMA TransferStart ==
    ASSUME TransferInit
    PROVE  Init /\ TransferInv
<1>1. ASSUME NEW c \in Conns
      PROVE  PairInv(c)
  BY DEF TransferInit, Init, SocketInit, ClientInit, NewClient, NewSession, PairInv,
         EndSent, NoEnd, Doing, Running, Killed
<1>2. ClientTypeOK
  <2>1. \A patience \in BOOLEAN : NewClient(patience) \in ClientType
    BY DEF NewClient, ClientType
  <2>2. client \in [Conns -> ClientType]
    BY <2>1 DEF TransferInit, ClientInit
  <2>3. file \in [Conns -> [bytes : Contents, changed : BOOLEAN]]
    BY DEF TransferInit, ClientInit
  <2>4. QED
    BY <2>2, <2>3 DEF ClientTypeOK
<1>3. QED
  BY <1>1, <1>2 DEF TransferInit, TransferInv

\* A session cannot tell a client of the program from the arbitrary peer of
\* module Session: whatever holds of its sessions holds in a transfer.
THEOREM TransferImplementsSession ==
    ASSUME ClientSpeech
    PROVE  TransferSpec => Spec /\ []TransferInv
<1>1. TransferInit => Init /\ IInv /\ TransferInv
  BY TransferStart, InitInv
<1>2. IInv /\ TransferInv /\ [TransferNext]_transferVars
         => [Next]_vars /\ IInv' /\ TransferInv'
  BY TransferStep, InvStep
<1>3. QED
  BY <1>1, <1>2, PTL DEF TransferSpec, Spec

LEMMA Words ==
    /\ Word(Running) = "nothing" /\ Word(0) = "accepted"
    /\ Word(5) = "unconfirmed" /\ Word(Killed) = "unconfirmed"
    /\ \A code \in {2, 3, 4, 6} : Word(code) = "failed"
  BY DEF Word, Running, Killed

\* A client's exit code, once there, stays.
LEMMA ExitOnce ==
    ASSUME ClientTypeOK, NEW c \in Conns, PairInv(c), ClientNext(c),
           client[c].exit # Running
    PROVE  client'[c].exit = client[c].exit
<1>1. client[c].pc \in {"leave", "done"} /\ client[c] \in ClientType
  BY DEF PairInv, ClientTypeOK
<1>2. Leave(c) \/ EditFile(c)
  BY <1>1 DEF ClientNext, ClientStep, OpenFile, Dial, SendData, SendEnd, WritePiece,
              WriteFails, WriteTimesOut, ReadPiece, ReadEnds, ReadTimesOut, NoAck, Farewell,
              Kill, Doing
<1>3. QED
  BY <1>1, <1>2 DEF Leave, EditFile, Become, ClientTypeOK, ClientType

\* What a client says when it exits is true at that moment.
LEMMA SaidTruly ==
    ASSUME ClientTypeOK', NEW c \in Conns, PairInv(c)'
    PROVE  \/ client'[c].exit = Running
           \/ Word(client'[c].exit) = "unconfirmed"
           \/ Word(client'[c].exit) = "accepted" /\ stored'[c] # <<>>
           \/ Word(client'[c].exit) = "failed" /\ stored'[c] = <<>>
<1>1. client'[c].exit \in ExitCode \cup {Running}
  BY DEF ClientTypeOK, ClientType, ExitCode
<1>2. CASE client'[c].exit \in {2, 3, 4}
  <2>1. ~EndSent(c)'
    BY <1>2 DEF EndSent, PairInv, Running, Killed
  <2>2. QED
    BY <1>2, <2>1, Words DEF PairInv
<1>3. CASE client'[c].exit \in {0, 6}
  BY <1>3, Words DEF PairInv
<1>4. QED
  BY <1>1, <1>2, <1>3, Words DEF ExitCode

\* Nothing is stored for a client that has said "failed".
LEMMA KeptInTime ==
    ASSUME IInv, ClientTypeOK, NEW c \in Conns, PairInv(c), SessionStep(c),
           stored[c] = <<>>, stored'[c] # <<>>
    PROVE  Word(client[c].exit) \in {"nothing", "unconfirmed"}
<1>1. OnEnd(c) /\ Undecided(c)
  BY StoredBy, DecidedStays
<1>2. sess[c].parser \in Seq(Frame) /\ sess[c].parser # <<>>
        /\ Head(sess[c].parser).type = "End"
  BY <1>1 DEF OnEnd, Offers, IInv, TypeOK, SessionType
<1>3. ~NoEnd(sess[c].parser)
  BY <1>2, NoEndSteps
<1>4. EndSent(c) /\ client[c].exit \notin {0, 6}
  BY <1>1, <1>3 DEF PairInv
<1>5. client[c].exit \in {Running, 5, Killed}
  BY <1>4 DEF EndSent, PairInv, Running, Killed
<1>6. QED
  BY <1>5, Words

\* The exit code of every client is true: "accepted" only of a stored file,
\* "failed" only of one that is not stored and never will be, whatever is
\* lost, times out, is killed or stopped between sendFile and onEnd.
THEOREM ExitCodesAreTrue ==
    ASSUME ClientSpeech
    PROVE  TransferSpec => ExitCodesTrue
<1> DEFINE has == {c \in Conns : stored[c] # <<>>}
           said == [c \in Conns |-> Word(client[c].exit)]
<1>1. TransferInit => Promise!DeliveryInit
  <2> SUFFICES ASSUME TransferInit PROVE Promise!DeliveryInit
    OBVIOUS
  <2>1. has = {}
    BY DEF TransferInit, Init
  <2>2. \A c \in Conns : client[c].exit = Running
    BY DEF TransferInit, ClientInit, NewClient
  <2>3. said = [c \in Conns |-> "nothing"]
    BY <2>2, Words
  <2>4. QED
    BY <2>1, <2>3 DEF Promise!DeliveryInit
<1>2. IInv /\ TransferInv /\ (IInv /\ TransferInv)' /\ [TransferNext]_transferVars
         => [Promise!DeliveryNext]_<<has, said>>
  <2> SUFFICES ASSUME IInv, TransferInv, (IInv /\ TransferInv)',
                      [TransferNext]_transferVars
               PROVE  Promise!DeliveryNext \/ (has' = has /\ said' = said)
    OBVIOUS
  <2>1. CASE UNCHANGED transferVars
    BY <2>1 DEF transferVars, clientVars, vars
  <2>2. ASSUME NEW c \in Conns, ClientNext(c), UNCHANGED sessionVars
        PROVE  Promise!DeliveryNext \/ (has' = has /\ said' = said)
    <3>1. ClientTypeOK /\ PairInv(c) /\ ClientTypeOK' /\ PairInv(c)'
      BY DEF TransferInv
    <3>2. has' = has /\ stored' = stored
      BY <2>2 DEF sessionVars
    <3>3. \A d \in Conns \ {c} : client'[d] = client[d]
      BY <2>2, ClientKeeps
    <3>4. CASE client'[c].exit = client[c].exit
      <4>1. \A d \in Conns : client'[d].exit = client[d].exit
        BY <3>3, <3>4
      <4>2. said' = said
        BY <4>1
      <4>3. QED
        BY <3>2, <4>2
    <3>5. CASE client'[c].exit # client[c].exit
      <4> DEFINE word == Word(client'[c].exit)
      <4>1. client[c].exit = Running
        BY <2>2, <3>1, <3>5, ExitOnce
      <4>2. \/ client'[c].exit = Running \/ word = "unconfirmed"
            \/ word = "accepted" /\ c \in has
            \/ word = "failed" /\ c \notin has
        BY <3>1, <3>2, SaidTruly
      <4>3. said[c] = "nothing"
        BY <4>1, Words
      <4>4. said' = [said EXCEPT ![c] = word]
        BY <3>3
      <4>5. Promise!Tell(c, word) /\ word \in {"accepted", "failed", "unconfirmed"}
        BY <3>2, <3>5, <4>1, <4>2, <4>3, <4>4 DEF Promise!Tell
      <4>6. QED
        BY <4>5 DEF Promise!DeliveryNext
    <3>6. QED
      BY <3>4, <3>5
  <2>3. ASSUME NEW c \in Conns, SessionStep(c), UNCHANGED clientVars
        PROVE  Promise!DeliveryNext \/ (has' = has /\ said' = said)
    <3>1. ClientTypeOK /\ PairInv(c)
      BY DEF TransferInv
    <3>2. client' = client /\ said' = said
      BY <2>3 DEF clientVars
    <3>3. \A d \in Conns \ {c} : stored'[d] = stored[d]
      BY <2>3, <3>2, OtherPairs DEF TransferInv
    <3>4. stored[c] # <<>> => stored'[c] # <<>>
      BY <2>3, StepIsFinal DEF FinalStep
    <3>5. CASE (c \in has) = (stored'[c] # <<>>)
      <4>1. \A d \in Conns : (stored[d] # <<>>) = (stored'[d] # <<>>)
        BY <3>3, <3>5
      <4>2. QED
        BY <3>2, <4>1
    <3>6. CASE (c \in has) # (stored'[c] # <<>>)
      <4>1. c \notin has /\ stored'[c] # <<>> /\ stored[c] = <<>>
        BY <3>4, <3>6
      <4>2. has' = has \cup {c}
        BY <3>3, <4>1
      <4>3. said[c] \in {"nothing", "unconfirmed"}
        BY <2>3, <3>1, <4>1, KeptInTime
      <4>4. Promise!Keep(c)
        BY <3>2, <4>1, <4>2, <4>3 DEF Promise!Keep
      <4>5. QED
        BY <4>4 DEF Promise!DeliveryNext
    <3>7. QED
      BY <3>5, <3>6
  <2>4. QED
    BY <2>1, <2>2, <2>3 DEF TransferNext
<1>3. TransferSpec => Spec /\ []TransferInv
  BY TransferImplementsSession
<1>4. Spec => []IInv
  BY Inductive
<1>5. QED
  BY <1>1, <1>2, <1>3, <1>4, PTL DEF TransferSpec, ExitCodesTrue, Promise!DeliverySpec

-----------------------------------------------------------------------------
(* The bytes of a transfer: streams and what they carry.                   *)

LEMMA NothingCarried ==
    ASSUME NEW s, NEW a \in 0..Len(s.sent)
    PROVE  StreamCarries(s, <<>>, a, a)
<1> DEFINE at == [i \in 0..0 |-> a]
<1>1. at \in [0..Len(<<>>) -> 0..Len(s.sent)] /\ at[0] = a /\ at[Len(<<>>)] = a
  OBVIOUS
<1>2. \A i \in 1..Len(<<>>) : Carries(s, <<>>[i], at[i - 1], at[i])
  OBVIOUS
<1>3. QED
  BY <1>1, <1>2 DEF StreamCarries

LEMMA HeadCarries ==
    ASSUME NEW s, NEW q \in Seq(Frame), q # <<>>, NEW a, NEW c, StreamCarries(s, q, a, c)
    PROVE  \E b \in 0..Len(s.sent) : Carries(s, Head(q), a, b) /\ StreamCarries(s, Tail(q), b, c)
<1>1. PICK at \in [0..Len(q) -> 0..Len(s.sent)] :
        /\ at[0] = a /\ at[Len(q)] = c
        /\ \A i \in 1..Len(q) : Carries(s, q[i], at[i - 1], at[i])
  BY DEF StreamCarries
<1> DEFINE rest == [i \in 0..Len(Tail(q)) |-> at[i + 1]]
<1>2. /\ Len(q) \in Nat \ {0} /\ Head(q) = q[1] /\ Len(Tail(q)) = Len(q) - 1
      /\ \A i \in 1..Len(Tail(q)) : Tail(q)[i] = q[i + 1]
  OBVIOUS
<1>3. /\ rest \in [0..Len(Tail(q)) -> 0..Len(s.sent)]
      /\ rest[0] = at[1] /\ rest[Len(Tail(q))] = c
  BY <1>1, <1>2
<1>4. ASSUME NEW i \in 1..Len(Tail(q))
      PROVE  Carries(s, Tail(q)[i], rest[i - 1], rest[i])
  <2>1. /\ Tail(q)[i] = q[i + 1] /\ rest[i - 1] = at[(i + 1) - 1] /\ rest[i] = at[i + 1]
        /\ i + 1 \in 1..Len(q)
    BY <1>2
  <2>2. QED
    BY <1>1, <2>1
<1>5. Carries(s, Head(q), a, at[1]) /\ at[1] \in 0..Len(s.sent)
  <2>1. 1 \in 1..Len(q) /\ 1 - 1 = 0
    BY <1>2
  <2>2. QED
    BY <1>1, <1>2, <2>1
<1> HIDE DEF rest
<1>6. StreamCarries(s, Tail(q), at[1], c)
  BY <1>3, <1>4 DEF StreamCarries
<1>7. QED
  BY <1>5, <1>6

LEMMA CutCarries ==
    ASSUME NEW s, NEW q \in Seq(Frame), NEW n \in 0..Len(q), NEW a, NEW c,
           StreamCarries(s, q, a, c)
    PROVE  \E b \in 0..Len(s.sent) : /\ StreamCarries(s, SubSeq(q, 1, n), a, b)
                                     /\ StreamCarries(s, SubSeq(q, n + 1, Len(q)), b, c)
<1>1. PICK at \in [0..Len(q) -> 0..Len(s.sent)] :
        /\ at[0] = a /\ at[Len(q)] = c
        /\ \A i \in 1..Len(q) : Carries(s, q[i], at[i - 1], at[i])
  BY DEF StreamCarries
<1> DEFINE front == SubSeq(q, 1, n)
           back == SubSeq(q, n + 1, Len(q))
           left == [i \in 0..Len(front) |-> at[i]]
           right == [i \in 0..Len(back) |-> at[i + n]]
<1>2. /\ Len(front) = n /\ \A i \in 1..n : front[i] = q[i]
      /\ Len(back) = Len(q) - n /\ \A i \in 1..(Len(q) - n) : back[i] = q[i + n]
      /\ Len(q) \in Nat
  <2>1. Len(front) = n /\ \A i \in 1..n : front[i] = q[i]
    BY SubSeqProperties
  <2>2. Len(back) = Len(q) - n /\ \A i \in 1..(Len(q) - n) : back[i] = q[i + n]
    BY SubSeqProperties
  <2>3. QED
    BY <2>1, <2>2
<1> HIDE DEF front, back
<1>3. /\ left \in [0..Len(front) -> 0..Len(s.sent)] /\ left[0] = a
      /\ left[Len(front)] = at[n]
  <2>1. \A i \in 0..Len(front) : i \in 0..Len(q)
    BY <1>2
  <2>2. left \in [0..Len(front) -> 0..Len(s.sent)]
    BY <1>1, <2>1
  <2>3. 0 \in 0..Len(front) /\ n \in 0..Len(front) /\ Len(front) = n
    BY <1>2
  <2>4. QED
    BY <1>1, <2>2, <2>3
<1>4. /\ right \in [0..Len(back) -> 0..Len(s.sent)] /\ right[0] = at[n]
      /\ right[Len(back)] = c
  <2>1. \A i \in 0..Len(back) : i + n \in 0..Len(q)
    BY <1>2
  <2>2. 0 + n = n /\ Len(back) + n = Len(q) /\ Len(back) \in Nat
    BY <1>2
  <2>3. right \in [0..Len(back) -> 0..Len(s.sent)]
    BY <1>1, <2>1
  <2>4. right[0] = at[0 + n] /\ right[Len(back)] = at[Len(back) + n]
    BY <2>2
  <2>5. QED
    BY <1>1, <2>2, <2>3, <2>4
<1>5. ASSUME NEW i \in 1..Len(front)
      PROVE  Carries(s, front[i], left[i - 1], left[i])
  <2>1. i \in 1..Len(q) /\ front[i] = q[i] /\ left[i - 1] = at[i - 1] /\ left[i] = at[i]
    BY <1>2
  <2>2. QED
    BY <1>1, <2>1
<1>6. ASSUME NEW i \in 1..Len(back)
      PROVE  Carries(s, back[i], right[i - 1], right[i])
  <2>1. /\ i + n \in 1..Len(q) /\ back[i] = q[i + n]
        /\ right[i - 1] = at[(i + n) - 1] /\ right[i] = at[i + n]
    BY <1>2
  <2>2. QED
    BY <1>1, <2>1
<1> HIDE DEF left, right
<1>7. StreamCarries(s, front, a, at[n]) /\ StreamCarries(s, back, at[n], c)
  BY <1>3, <1>4, <1>5, <1>6 DEF StreamCarries
<1>8. QED
  BY <1>1, <1>7 DEF front, back

LEMMA JoinCarries ==
    ASSUME NEW s, NEW p \in Seq(Frame), NEW q \in Seq(Frame), NEW a, NEW b, NEW c,
           StreamCarries(s, p, a, b), StreamCarries(s, q, b, c)
    PROVE  StreamCarries(s, p \o q, a, c)
<1>1. PICK left \in [0..Len(p) -> 0..Len(s.sent)] :
        /\ left[0] = a /\ left[Len(p)] = b
        /\ \A i \in 1..Len(p) : Carries(s, p[i], left[i - 1], left[i])
  BY DEF StreamCarries
<1>2. PICK right \in [0..Len(q) -> 0..Len(s.sent)] :
        /\ right[0] = b /\ right[Len(q)] = c
        /\ \A i \in 1..Len(q) : Carries(s, q[i], right[i - 1], right[i])
  BY DEF StreamCarries
<1> DEFINE r == p \o q
           at == [i \in 0..Len(r) |-> IF i <= Len(p) THEN left[i] ELSE right[i - Len(p)]]
<1>3. /\ Len(r) = Len(p) + Len(q) /\ Len(p) \in Nat /\ Len(q) \in Nat
      /\ \A i \in 1..Len(p) : r[i] = p[i]
      /\ \A i \in (Len(p) + 1)..Len(r) : r[i] = q[i - Len(p)]
  BY ConcatProperties
<1> HIDE DEF r
<1>4. at \in [0..Len(r) -> 0..Len(s.sent)] /\ at[0] = a /\ at[Len(r)] = c
  BY <1>1, <1>2, <1>3
<1>5. ASSUME NEW i \in 1..Len(r)
      PROVE  Carries(s, r[i], at[i - 1], at[i])
  <2>1. CASE i <= Len(p)
    <3>1. i \in 1..Len(p) /\ r[i] = p[i] /\ at[i - 1] = left[i - 1] /\ at[i] = left[i]
      BY <1>3, <2>1
    <3>2. QED
      BY <1>1, <3>1
  <2>2. CASE i > Len(p)
    <3>1. PICK j \in 1..Len(q) : j = i - Len(p)
      BY <1>3, <2>2
    <3>2. i \in (Len(p) + 1)..Len(r) /\ i \in 0..Len(r) /\ i - 1 \in 0..Len(r)
      BY <1>3, <2>2
    <3>3. r[i] = q[j] /\ at[i] = right[j]
      BY <1>3, <2>2, <3>1, <3>2
    <3>4. CASE i - 1 <= Len(p)
      <4>1. i - 1 = Len(p) /\ j - 1 = 0
        BY <1>3, <2>2, <3>1, <3>4
      <4>2. at[i - 1] = left[Len(p)]
        BY <3>2, <4>1
      <4>3. QED
        BY <1>1, <1>2, <3>3, <4>1, <4>2
    <3>5. CASE ~(i - 1 <= Len(p))
      <4>1. at[i - 1] = right[j - 1]
        <5>1. (i - 1) - Len(p) = j - 1
          BY <1>3, <3>1
        <5>2. QED
          BY <3>2, <3>5, <5>1
      <4>2. QED
        BY <1>2, <3>3, <4>1
    <3>6. QED
      BY <3>4, <3>5
  <2>3. QED
    BY <1>3, <2>1, <2>2
<1> HIDE DEF at
<1>6. QED
  BY <1>4, <1>5 DEF StreamCarries, r

LEMMA FrameCarries ==
    ASSUME NEW s, NEW f \in Frame, NEW a \in 0..Len(s.sent), NEW b \in 0..Len(s.sent),
           Carries(s, f, a, b)
    PROVE  StreamCarries(s, <<f>>, a, b)
<1> DEFINE at == [i \in 0..1 |-> IF i = 0 THEN a ELSE b]
<1>1. /\ at \in [0..Len(<<f>>) -> 0..Len(s.sent)] /\ at[0] = a /\ at[Len(<<f>>)] = b
      /\ at[1] = b
  OBVIOUS
<1>2. \A i \in 1..Len(<<f>>) : i = 1 /\ <<f>>[i] = f /\ i - 1 = 0
  OBVIOUS
<1> HIDE DEF at
<1>3. QED
  BY <1>1, <1>2 DEF StreamCarries

\* A stream says the same of a client that has sent more since, as long as the
\* stream holds no END.
LEMMA CarriesOn ==
    ASSUME NEW s, NEW t, t.size = s.size,
           s.sent \in Seq(Bytes), t.sent \in Seq(Bytes), Len(s.sent) <= Len(t.sent),
           \A i \in 1..Len(s.sent) : t.sent[i] = s.sent[i],
           NEW q \in Seq(Frame), NEW a, NEW b, StreamCarries(s, q, a, b),
           t.sent = s.sent \/ NoEnd(q)
    PROVE  StreamCarries(t, q, a, b)
<1>1. PICK at \in [0..Len(q) -> 0..Len(s.sent)] :
        /\ at[0] = a /\ at[Len(q)] = b
        /\ \A i \in 1..Len(q) : Carries(s, q[i], at[i - 1], at[i])
  BY DEF StreamCarries
<1>2. at \in [0..Len(q) -> 0..Len(t.sent)]
  BY <1>1
<1>3. ASSUME NEW i \in 1..Len(q)
      PROVE  Carries(t, q[i], at[i - 1], at[i])
  <2>1. PICK from \in 0..Len(s.sent), to \in 0..Len(s.sent) : from = at[i - 1] /\ to = at[i]
    <3>1. i \in 0..Len(q) /\ i - 1 \in 0..Len(q)
      OBVIOUS
    <3>2. QED
      BY <1>1, <3>1
  <2>2. Carries(s, q[i], from, to)
    BY <1>1, <2>1
  <2>3. SubSeq(s.sent, from + 1, to) = SubSeq(t.sent, from + 1, to)
    <3>1. from <= to
      BY <2>2 DEF Carries
    <3>2. \A k \in (from + 1)..to : k \in 1..Len(s.sent) /\ k \in 1..Len(t.sent)
      OBVIOUS
    <3>3. \A k \in (from + 1)..to : s.sent[k] = t.sent[k]
      BY <3>2
    <3>4. from + 1 \in 1..(to + 1)
      BY <3>1
    <3>5. /\ SubSeq(s.sent, from + 1, to) = [k \in 1..(to - (from + 1) + 1) |-> s.sent[(from + 1) + k - 1]]
          /\ SubSeq(t.sent, from + 1, to) = [k \in 1..(to - (from + 1) + 1) |-> t.sent[(from + 1) + k - 1]]
      OBVIOUS
    <3>6. \A k \in 1..(to - (from + 1) + 1) : (from + 1) + k - 1 \in (from + 1)..to
      BY <3>1
    <3>7. QED
      BY <3>3, <3>5, <3>6
  <2>4. q[i].type = "End" => t.sent = s.sent
    BY DEF NoEnd
  <2>5. Carries(t, q[i], from, to)
    BY <2>2, <2>3, <2>4 DEF Carries
  <2>6. QED
    BY <2>1, <2>5
<1>4. QED
  BY <1>1, <1>2, <1>3 DEF StreamCarries

LEMMA AppendJoins ==
    ASSUME NEW u \in Seq(Frame), NEW f \in Frame
    PROVE  u \o <<f>> = Append(u, f) /\ Append(u, f) \in Seq(Frame)
  OBVIOUS

LEMMA PiecesJoin ==
    ASSUME NEW f \in Frame
    PROVE  <<Part>> \o <<f>> = <<Part, f>>
<1> DEFINE p == <<Part>>
           q == <<f>>
           r == <<Part, f>>
<1>1. p \in Seq(Frame) /\ q \in Seq(Frame) /\ r \in Seq(Frame)
  BY FrameCases
<1>2. /\ Len(p) = 1 /\ Len(q) = 1 /\ Len(r) = 2
      /\ p[1] = Part /\ q[1] = f /\ r[1] = Part /\ r[2] = f
  OBVIOUS
<1> HIDE DEF p, q, r
<1>3. /\ p \o q \in Seq(Frame) /\ Len(p \o q) = Len(p) + Len(q)
      /\ \A i \in 1..(Len(p) + Len(q)) :
           (p \o q)[i] = IF i <= Len(p) THEN p[i] ELSE q[i - Len(p)]
  BY <1>1, ConcatProperties
<1>4. Len(p \o q) = 2 /\ (p \o q)[1] = Part /\ (p \o q)[2] = f
  BY <1>2, <1>3
<1>5. p \o q = r
  <2>1. \A i \in 1..Len(p \o q) : (p \o q)[i] = r[i]
    BY <1>2, <1>4
  <2>2. QED
    BY <1>1, <1>2, <1>3, <1>4, <2>1, SeqEqual
<1>6. QED
  BY <1>5 DEF p, q, r

LEMMA CarriesAlike ==
    ASSUME NEW s, NEW t, t.size = s.size, s.sent \in Seq(Bytes), t.sent = s.sent,
           NEW q \in Seq(Frame), NEW a, NEW b, StreamCarries(s, q, a, b)
    PROVE  StreamCarries(t, q, a, b)
<1>1. Len(s.sent) <= Len(t.sent) /\ \A i \in 1..Len(s.sent) : t.sent[i] = s.sent[i]
  OBVIOUS
<1>2. t.sent \in Seq(Bytes)
  OBVIOUS
<1>3. QED
  BY <1>1, <1>2, CarriesOn

-----------------------------------------------------------------------------
(* Bytes.                                                                  *)

\* The bytes up to m are those up to n and those in between.
LEMMA BytesJoin ==
    ASSUME NEW S, NEW b \in Seq(S), NEW n \in 0..Len(b), NEW m \in n..Len(b)
    PROVE  /\ SubSeq(b, 1, n) \o SubSeq(b, n + 1, m) = SubSeq(b, 1, m)
           /\ Len(SubSeq(b, n + 1, m)) = m - n
           /\ Len(SubSeq(b, 1, m)) = m
           /\ SubSeq(b, 1, Len(b)) = b
           /\ SubSeq(b, 1, m) \in Seq(S) /\ SubSeq(b, n + 1, m) \in Seq(S)
<1> DEFINE p == SubSeq(b, 1, n)
           q == SubSeq(b, n + 1, m)
           r == SubSeq(b, 1, m)
<1>1. p \in Seq(S) /\ Len(p) = n /\ \A i \in 1..n : p[i] = b[i]
  BY SubSeqProperties, ElementOfSeq
<1>2. q \in Seq(S) /\ Len(q) = m - n /\ \A i \in 1..(m - n) : q[i] = b[n + i]
  BY SubSeqProperties, ElementOfSeq
<1>3. r \in Seq(S) /\ Len(r) = m /\ \A i \in 1..m : r[i] = b[i]
  BY SubSeqProperties, ElementOfSeq
<1> HIDE DEF p, q, r
<1>4. /\ n \in Nat /\ m \in Nat /\ n <= m
      /\ p \o q \in Seq(S) /\ Len(p \o q) = m
      /\ \A i \in 1..m : (p \o q)[i] = IF i <= n THEN p[i] ELSE q[i - n]
  <2>1. n \in Nat /\ m \in Nat /\ n <= m
    OBVIOUS
  <2>2. /\ p \o q \in Seq(S) /\ Len(p \o q) = Len(p) + Len(q)
        /\ \A i \in 1..(Len(p) + Len(q)) :
             (p \o q)[i] = IF i <= Len(p) THEN p[i] ELSE q[i - Len(p)]
    BY <1>1, <1>2, ConcatProperties
  <2>3. Len(p) = n /\ Len(p) + Len(q) = m
    BY <1>1, <1>2, <2>1
  <2>4. QED
    BY <2>1, <2>2, <2>3
<1>5. ASSUME NEW i \in 1..m
      PROVE  (p \o q)[i] = r[i]
  <2>1. CASE i <= n
    BY <1>1, <1>3, <1>4, <2>1
  <2>2. CASE ~(i <= n)
    <3>1. PICK j \in 1..(m - n) : j = i - n /\ n + j = i
      BY <1>4, <2>2
    <3>2. QED
      BY <1>2, <1>3, <1>4, <2>2, <3>1
  <2>3. QED
    BY <2>1, <2>2
<1>6. p \o q = r
  BY <1>3, <1>4, <1>5, SeqEqual
<1>7. SubSeq(b, 1, Len(b)) = b
  BY SubSeqProperties
<1>8. QED
  BY <1>1, <1>2, <1>3, <1>6, <1>7 DEF p, q, r

LEMMA BytesGrow ==
    ASSUME NEW S, NEW b \in Seq(S), NEW x \in Seq(S)
    PROVE  /\ b \o x \in Seq(S) /\ Len(b \o x) = Len(b) + Len(x)
           /\ Len(b) <= Len(b \o x)
           /\ \A i \in 1..Len(b) : (b \o x)[i] = b[i]
           /\ \A n \in 0..Len(b) : SubSeq(b \o x, 1, n) = SubSeq(b, 1, n)
           /\ SubSeq(b \o x, Len(b) + 1, Len(b \o x)) = x
<1> DEFINE y == b \o x
<1>1. /\ y \in Seq(S) /\ Len(y) = Len(b) + Len(x) /\ Len(b) \in Nat /\ Len(x) \in Nat
      /\ \A i \in 1..(Len(b) + Len(x)) : y[i] = IF i <= Len(b) THEN b[i] ELSE x[i - Len(b)]
  BY ConcatProperties
<1> HIDE DEF y
<1>2. \A i \in 1..Len(b) : y[i] = b[i]
  BY <1>1
<1>3. ASSUME NEW n \in 0..Len(b)
      PROVE  SubSeq(y, 1, n) = SubSeq(b, 1, n)
  <2>1. \A i \in 1..n : y[i] \in S /\ b[i] \in S /\ y[i] = b[i]
    BY <1>1, <1>2, ElementOfSeq
  <2>2. /\ SubSeq(y, 1, n) \in Seq(S) /\ Len(SubSeq(y, 1, n)) = n
        /\ \A i \in 1..n : SubSeq(y, 1, n)[i] = y[i]
    BY <2>1, SubSeqProperties
  <2>3. /\ SubSeq(b, 1, n) \in Seq(S) /\ Len(SubSeq(b, 1, n)) = n
        /\ \A i \in 1..n : SubSeq(b, 1, n)[i] = b[i]
    BY <2>1, SubSeqProperties
  <2>4. QED
    BY <2>1, <2>2, <2>3, SeqEqual
<1>4. SubSeq(y, Len(b) + 1, Len(y)) = x
  <2> DEFINE z == SubSeq(y, Len(b) + 1, Len(y))
  <2>1. \A i \in (Len(b) + 1)..Len(y) : y[i] \in S
    BY <1>1, ElementOfSeq
  <2>2. /\ z \in Seq(S) /\ Len(z) = Len(x)
        /\ \A i \in 1..Len(x) : z[i] = y[Len(b) + 1 + i - 1]
    <3>1. Len(y) - (Len(b) + 1) + 1 = Len(x) /\ (Len(b) + 1 <= Len(y) <=> Len(x) > 0)
      BY <1>1
    <3>2. QED
      BY <1>1, <2>1, <3>1, SubSeqProperties
  <2> HIDE DEF z
  <2>3. ASSUME NEW i \in 1..Len(x)
        PROVE  z[i] = x[i]
    <3>1. i \in Nat /\ i >= 1 /\ i <= Len(x)
      BY <1>1
    <3>2. PICK j \in Nat : j = Len(b) + i
      BY <1>1, <3>1
    <3>3. /\ j \in 1..(Len(b) + Len(x)) /\ ~(j <= Len(b))
          /\ j - Len(b) = i /\ Len(b) + 1 + i - 1 = j
      BY <1>1, <3>1, <3>2
    <3>4. z[i] = y[j] /\ y[j] = x[j - Len(b)]
      BY <1>1, <2>2, <3>3
    <3>5. QED
      BY <3>3, <3>4
  <2>4. QED
    BY <2>2, <2>3, SeqEqual DEF z
<1>5. QED
  BY <1>1, <1>2, <1>3, <1>4 DEF y

-----------------------------------------------------------------------------
(* The bytes on their way, through each kind of step.                      *)

\* A client that goes on without touching its data, or leaves; a session whose
\* data stays as it is.
LEMMA LostNotSame ==
    ASSUME NEW s \in ClientType, NEW t \in ClientType, t.size = s.size, t.sent = s.sent,
           t.exit = Running => s.exit = Running /\ t.out = s.out,
           NEW r, NEW v, r.parser \in Seq(Frame), v.hashed = r.hashed,
           v.received = r.received, v.hello = r.hello, v.expected = r.expected,
           v.parser = r.parser, NEW u \in Seq(Frame), NothingLost(s, r, u)
    PROVE  NothingLost(t, v, u)
<1>1. s.sent \in Seq(Bytes) /\ t.sent \in Seq(Bytes) /\ s.out \in Seq(Frame)
  BY DEF ClientType
<1>2. ASSUME NEW q \in Seq(Frame), NEW a, NEW b, StreamCarries(s, q, a, b)
      PROVE  StreamCarries(t, q, a, b)
  BY <1>1, <1>2, CarriesAlike
<1>3. QED
  BY <1>1, <1>2 DEF NothingLost

\* RST cuts the stream of a client that is gone.
LEMMA LostNotCut ==
    ASSUME NEW s \in ClientType, s.exit # Running, NEW r, NEW u \in Seq(Frame),
           NEW n \in 0..Len(u), NothingLost(s, r, u)
    PROVE  NothingLost(s, r, SubSeq(u, 1, n))
<1>1. PICK a \in 0..Len(s.sent), b \in 0..Len(s.sent) :
        StreamCarries(s, r.parser, r.received, a) /\ StreamCarries(s, u, a, b)
  BY DEF NothingLost
<1>2. \E d \in 0..Len(s.sent) : StreamCarries(s, SubSeq(u, 1, n), a, d)
  BY <1>1, CutCarries
<1>3. QED
  BY <1>1, <1>2 DEF NothingLost

\* A piece passes from writeAll's buffer to the stream.
LEMMA LostNotWritten ==
    ASSUME NEW s \in ClientType, NEW t \in ClientType, t.size = s.size, t.sent = s.sent,
           s.exit = Running, s.out # <<>>, t.out = Tail(s.out),
           NEW r, r.parser \in Seq(Frame), NEW u \in Seq(Frame), NothingLost(s, r, u)
    PROVE  NothingLost(t, r, Append(u, Head(s.out)))
<1>1. /\ s.sent \in Seq(Bytes) /\ t.sent \in Seq(Bytes) /\ s.out \in Seq(Frame)
      /\ Head(s.out) \in Frame /\ Tail(s.out) \in Seq(Frame)
  BY StreamSteps DEF ClientType
<1>2. PICK a \in 0..Len(s.sent), b \in 0..Len(s.sent) :
        /\ StreamCarries(s, r.parser, r.received, a) /\ StreamCarries(s, u, a, b)
        /\ StreamCarries(s, s.out, b, Len(s.sent))
  BY DEF NothingLost
<1>3. PICK d \in 0..Len(s.sent) :
        Carries(s, Head(s.out), b, d) /\ StreamCarries(s, Tail(s.out), d, Len(s.sent))
  BY <1>1, <1>2, HeadCarries
<1>4. StreamCarries(s, u \o <<Head(s.out)>>, a, d)
  <2>1. StreamCarries(s, <<Head(s.out)>>, b, d) /\ <<Head(s.out)>> \in Seq(Frame)
    BY <1>1, <1>2, <1>3, FrameCarries
  <2>2. QED
    BY <1>2, <2>1, JoinCarries
<1>5. u \o <<Head(s.out)>> = Append(u, Head(s.out)) /\ Append(u, Head(s.out)) \in Seq(Frame)
  BY <1>1, AppendJoins
<1>6. ASSUME NEW q \in Seq(Frame), NEW x, NEW y, StreamCarries(s, q, x, y)
      PROVE  StreamCarries(t, q, x, y)
  BY <1>1, <1>6, CarriesAlike
<1>7. /\ StreamCarries(t, r.parser, r.received, a)
      /\ StreamCarries(t, Append(u, Head(s.out)), a, d)
      /\ StreamCarries(t, t.out, d, Len(t.sent))
  BY <1>1, <1>2, <1>3, <1>4, <1>5, <1>6
<1>8. QED
  BY <1>7 DEF NothingLost

\* A client with nothing left to write queues a frame for what it has just read.
LEMMA LostNotQueued ==
    ASSUME NEW s \in ClientType, NEW t \in ClientType, t.size = s.size,
           NEW x \in Seq(Bytes), t.sent = s.sent \o x, s.exit = Running, s.out = <<>>,
           NEW f \in Frame, t.out = InTwoPieces(f),
           Carries(t, f, Len(s.sent), Len(t.sent)),
           NEW r \in SessionType, NEW u \in Seq(Frame), NothingLost(s, r, u),
           t.sent = s.sent \/ (NoEnd(u) /\ NoEnd(r.parser))
    PROVE  NothingLost(t, r, u)
<1>1. s.sent \in Seq(Bytes) /\ t.sent \in Seq(Bytes) /\ Len(s.sent) \in 0..Len(t.sent)
      /\ r.parser \in Seq(Frame) /\ r.received \in Nat
  BY BytesGrow DEF ClientType, SessionType
<1>2. PICK a \in 0..Len(s.sent), b \in 0..Len(s.sent) :
        /\ StreamCarries(s, r.parser, r.received, a) /\ StreamCarries(s, u, a, b)
        /\ StreamCarries(s, <<>>, b, Len(s.sent))
  BY DEF NothingLost
<1>3. b = Len(s.sent)
  BY <1>2 DEF StreamCarries
<1>4. ASSUME NEW q \in Seq(Frame), NEW y, NEW z, StreamCarries(s, q, y, z),
             t.sent = s.sent \/ NoEnd(q)
      PROVE  StreamCarries(t, q, y, z)
  <2>1. Len(s.sent) <= Len(t.sent) /\ \A i \in 1..Len(s.sent) : t.sent[i] = s.sent[i]
    BY <1>1, BytesGrow
  <2>2. QED
    BY <1>1, <1>4, <2>1, CarriesOn
<1>5. StreamCarries(t, t.out, b, Len(t.sent))
  <2>1. Carries(t, Part, b, b)
    BY <1>2 DEF Carries, Part
  <2>2. /\ StreamCarries(t, <<Part>>, b, b) /\ StreamCarries(t, <<f>>, b, Len(t.sent))
        /\ <<Part>> \in Seq(Frame) /\ <<f>> \in Seq(Frame)
    <3>1. Part \in Frame /\ b \in 0..Len(t.sent) /\ Len(t.sent) \in 0..Len(t.sent)
      BY <1>1, <1>2, FrameCases
    <3>2. QED
      BY <1>3, <2>1, <3>1, FrameCarries
  <2>3. <<Part>> \o <<f>> = InTwoPieces(f)
    BY PiecesJoin DEF InTwoPieces
  <2>4. QED
    BY <2>2, <2>3, JoinCarries
<1>6. r.received \in 0..Len(s.sent)
  BY <1>2, <1>1 DEF StreamCarries
<1>7. r.hashed = SubSeq(t.sent, 1, r.received)
  <2>1. \A n \in 0..Len(s.sent) : SubSeq(s.sent \o x, 1, n) = SubSeq(s.sent, 1, n)
    BY <1>1, BytesGrow
  <2>2. r.hashed = SubSeq(s.sent, 1, r.received)
    BY DEF NothingLost
  <2>3. SubSeq(s.sent \o x, 1, r.received) = SubSeq(s.sent, 1, r.received)
    BY <1>6, <2>1
  <2>4. QED
    BY <2>2, <2>3
<1>8. r.hello => r.expected = t.size
  BY DEF NothingLost
<1>9. StreamCarries(t, r.parser, r.received, a) /\ StreamCarries(t, u, a, b)
  BY <1>1, <1>2, <1>4
<1>10. a \in 0..Len(t.sent) /\ b \in 0..Len(t.sent)
  BY <1>1, <1>2
<1>11. QED
  BY <1>5, <1>7, <1>8, <1>9, <1>10 DEF NothingLost

\* A session reads the front of the stream into its parser.
LEMMA LostNotRead ==
    ASSUME NEW s \in ClientType, NEW r \in SessionType, NEW u \in Seq(Frame),
           NEW n \in 1..Len(u), NothingLost(s, r, u), NEW v,
           v.hashed = r.hashed, v.received = r.received, v.hello = r.hello,
           v.expected = r.expected, v.parser = r.parser \o SubSeq(u, 1, n)
    PROVE  NothingLost(s, v, SubSeq(u, n + 1, Len(u)))
<1>1. PICK a \in 0..Len(s.sent), b \in 0..Len(s.sent) :
        /\ StreamCarries(s, r.parser, r.received, a) /\ StreamCarries(s, u, a, b)
        /\ s.exit = Running => StreamCarries(s, s.out, b, Len(s.sent))
  BY DEF NothingLost
<1>2. PICK d \in 0..Len(s.sent) : /\ StreamCarries(s, SubSeq(u, 1, n), a, d)
                                  /\ StreamCarries(s, SubSeq(u, n + 1, Len(u)), d, b)
  <2>1. n \in 0..Len(u)
    OBVIOUS
  <2>2. QED
    BY <1>1, <2>1, CutCarries
<1>3. StreamCarries(s, v.parser, r.received, d)
  <2>1. r.parser \in Seq(Frame) /\ SubSeq(u, 1, n) \in Seq(Frame)
    BY StreamSteps DEF SessionType
  <2>2. QED
    BY <1>1, <1>2, <2>1, JoinCarries
<1>4. QED
  BY <1>1, <1>2, <1>3 DEF NothingLost

\* The first frame in a session's parser is one its client has sent, and brings
\* the bytes that come next.
LEMMA LostNotOffered ==
    ASSUME NEW s \in ClientType, NEW r \in SessionType, NEW u \in Seq(Frame),
           r.parser # <<>>, NothingLost(s, r, u)
    PROVE  /\ r.received \in 0..Len(s.sent)
           /\ Head(r.parser).type = "Hello" => Head(r.parser).size = s.size
           /\ Head(r.parser).type = "End" => r.received = Len(s.sent) /\ r.hashed = s.sent
           /\ \E a \in 0..Len(s.sent), b \in 0..Len(s.sent), d \in 0..Len(s.sent) :
                /\ Carries(s, Head(r.parser), r.received, d)
                /\ StreamCarries(s, Tail(r.parser), d, a) /\ StreamCarries(s, u, a, b)
                /\ s.exit = Running => StreamCarries(s, s.out, b, Len(s.sent))
<1>1. PICK a \in 0..Len(s.sent), b \in 0..Len(s.sent) :
        /\ StreamCarries(s, r.parser, r.received, a) /\ StreamCarries(s, u, a, b)
        /\ s.exit = Running => StreamCarries(s, s.out, b, Len(s.sent))
  BY DEF NothingLost
<1>2. r.parser \in Seq(Frame) /\ s.sent \in Seq(Bytes)
  BY DEF SessionType, ClientType
<1>3. r.received \in 0..Len(s.sent)
  <2>1. 0 \in 0..Len(r.parser)
    BY <1>2
  <2>2. QED
    BY <1>1, <2>1 DEF StreamCarries
<1>4. PICK d \in 0..Len(s.sent) : /\ Carries(s, Head(r.parser), r.received, d)
                                  /\ StreamCarries(s, Tail(r.parser), d, a)
  BY <1>1, <1>2, HeadCarries
<1>5. Head(r.parser).type = "Hello" => Head(r.parser).size = s.size
  BY <1>4 DEF Carries
<1>6. Head(r.parser).type = "End" => r.received = Len(s.sent) /\ r.hashed = s.sent
  <2>1. SubSeq(s.sent, 1, Len(s.sent)) = s.sent
    BY <1>2, SubSeqFull
  <2>2. QED
    BY <1>4, <2>1 DEF Carries, NothingLost
<1>7. QED
  BY <1>1, <1>3, <1>4, <1>5, <1>6

LEMMA LostNotTaken ==
    ASSUME NEW s \in ClientType, NEW r \in SessionType, NEW u \in Seq(Frame),
           r.parser # <<>>, NothingLost(s, r, u),
           NEW v, v.parser = Tail(r.parser), v.hello => v.expected = s.size,
           IF Head(r.parser).type = "Data"
           THEN /\ v.hashed = r.hashed \o Head(r.parser).data
                /\ v.received = r.received + Len(Head(r.parser).data)
           ELSE v.hashed = r.hashed /\ v.received = r.received
    PROVE  NothingLost(s, v, u)
<1>1. PICK a \in 0..Len(s.sent), b \in 0..Len(s.sent), d \in 0..Len(s.sent) :
        /\ Carries(s, Head(r.parser), r.received, d)
        /\ StreamCarries(s, Tail(r.parser), d, a) /\ StreamCarries(s, u, a, b)
        /\ s.exit = Running => StreamCarries(s, s.out, b, Len(s.sent))
  BY LostNotOffered
<1>2. s.sent \in Seq(Bytes) /\ r.received \in 0..Len(s.sent)
      /\ r.hashed = SubSeq(s.sent, 1, r.received)
  BY LostNotOffered DEF ClientType, NothingLost
<1>3. v.received = d /\ v.hashed = SubSeq(s.sent, 1, v.received)
  <2>1. CASE Head(r.parser).type = "Data"
    <3>1. r.received <= d /\ Head(r.parser).data = SubSeq(s.sent, r.received + 1, d)
      BY <1>1, <2>1 DEF Carries
    <3>2. PICK n \in 0..Len(s.sent) : n = r.received
      BY <1>2
    <3>3. d \in n..Len(s.sent)
      BY <3>1, <3>2
    <3>4. SubSeq(s.sent, 1, n) \o SubSeq(s.sent, n + 1, d) = SubSeq(s.sent, 1, d)
          /\ Len(SubSeq(s.sent, n + 1, d)) = d - n
      <4>1. s.sent \in Seq(Bytes)
        BY <1>2
      <4>2. \A x \in Seq(Bytes) : \A i \in 0..Len(x) : \A j \in i..Len(x) :
               /\ SubSeq(x, 1, i) \o SubSeq(x, i + 1, j) = SubSeq(x, 1, j)
               /\ Len(SubSeq(x, i + 1, j)) = j - i
        BY BytesJoin
      <4>3. QED
        BY <3>3, <4>1, <4>2, Zenon
    <3>5. Len(Head(r.parser).data) = d - r.received
          /\ r.hashed \o Head(r.parser).data = SubSeq(s.sent, 1, d)
      BY <1>2, <3>1, <3>2, <3>4
    <3>6. r.received + (d - r.received) = d
      BY <3>2
    <3>7. QED
      BY <2>1, <3>5, <3>6
  <2>2. CASE Head(r.parser).type # "Data"
    BY <1>1, <1>2, <2>2 DEF Carries
  <2>3. QED
    BY <2>1, <2>2
<1>4. StreamCarries(s, v.parser, v.received, a)
  BY <1>1, <1>3
<1>5. QED
  BY <1>1, <1>3, <1>4 DEF NothingLost

\* Before anything has happened nothing can be lost.
LEMMA LostNotFresh ==
    ASSUME NEW s \in ClientType, s.sent = <<>>, s.out = <<>>, NEW r, r = NewSession,
           NEW u, u = <<>>
    PROVE  NothingLost(s, r, u)
<1>1. /\ r.parser = <<>> /\ r.received = 0 /\ r.hashed = <<>> /\ ~r.hello
  BY DEF NewSession
<1>2. Len(s.sent) = 0 /\ 0 \in 0..Len(s.sent)
  OBVIOUS
<1>3. StreamCarries(s, <<>>, 0, 0)
  BY <1>2, NothingCarried
<1>4. SubSeq(s.sent, 1, 0) = <<>>
  OBVIOUS
<1>5. QED
  BY <1>1, <1>2, <1>3, <1>4 DEF NothingLost

-----------------------------------------------------------------------------
(* The steps of a client.                                                  *)

\* What StreamInv says of a connection whose data did not move.
LEMMA StreamStays ==
    ASSUME TypeOK, ClientTypeOK, ClientTypeOK', NEW c \in Conns, StreamInv(c),
           client'[c].size = client[c].size, client'[c].sent = client[c].sent,
           client'[c].exit = Running =>
               client[c].exit = Running /\ client'[c].out = client[c].out,
           client'[c].pc # "open" /\ client'[c].exit # 2 =>
               client[c].pc # "open" /\ client[c].exit # 2,
           file'[c] = file[c] \/ file'[c].changed,
           stored'[c] = stored[c], sess'[c] = sess[c],
           Undecided(c)' => Undecided(c),
           \/ up'[c] = up[c]
           \/ /\ client'[c].exit # Running
              /\ \E n \in 0..Len(up[c]) : up'[c] = SubSeq(up[c], 1, n)
    PROVE  StreamInv(c)'
<1> DEFINE s == client[c]
           t == client'[c]
<1>1. /\ s \in ClientType /\ t \in ClientType /\ up[c] \in Seq(Frame)
      /\ sess[c].parser \in Seq(Frame)
  BY DEF ClientTypeOK, TypeOK, SocketTypeOK, SessionType
<1>2. FileInv(t, file'[c])
  BY DEF StreamInv, FileInv
<1>3. ASSUME Undecided(c)
      PROVE  NothingLost(t, sess'[c], up'[c])
  <2> HIDE DEF s, t
  <2>1. NothingLost(t, sess[c], up[c])
    <3>1. NothingLost(s, sess[c], up[c])
      BY <1>3 DEF StreamInv, s
    <3>2. /\ t.size = s.size /\ t.sent = s.sent
          /\ t.exit = Running => s.exit = Running /\ t.out = s.out
      BY DEF s, t
    <3>3. QED
      BY <1>1, <3>1, <3>2, LostNotSame
  <2>2. CASE up'[c] = up[c]
    BY <2>1, <2>2
  <2>3. CASE t.exit # Running /\ \E n \in 0..Len(up[c]) : up'[c] = SubSeq(up[c], 1, n)
    BY <1>1, <2>1, <2>3, LostNotCut
  <2>4. QED
    BY <2>2, <2>3 DEF t
<1>4. stored'[c] # <<>> => stored'[c] = <<t.sent>> /\ Len(t.sent) = t.size
  BY DEF StreamInv
<1>5. QED
  BY <1>2, <1>3, <1>4 DEF StreamInv

\* A client's end of the connection is taken down by no step but its last.
LEMMA ClientWaits ==
    ASSUME ClientSpeech, IInv, TransferInv, NEW c \in Conns, WaitInv(c), ClientNext(c),
           UNCHANGED sessionVars
    PROVE  WaitInv(c)'
<1> DEFINE s == client[c]
<1>0. /\ s \in ClientType /\ ClientTypeOK /\ PairInv(c) /\ SocketTypeOK /\ GraceInv(c)
      /\ sess' = sess
  BY DEF TransferInv, ClientTypeOK, IInv, TypeOK, ConnInv, sessionVars
<1>1. s.pc \in {"open", "connect", "write", "fill", "ack", "goodbye"} => s.exit = Running
  BY <1>0 DEF PairInv
\* No connection is made twice.
<1>2. ASSUME link' = link \/ Connect(c)
      PROVE  link'[c] \in {"none", "backlog"} => sess'[c] = NewSession
  BY <1>0, <1>2 DEF WaitInv, Connect, GraceInv, SocketTypeOK
<1>3. ASSUME NEW code \in {0, 2, 3, 4, 5, 6}, Quit(c, code), link' = link \/ Connect(c)
      PROVE  WaitInv(c)'
  <2>1. client'[c].exit # Running /\ client'[c].pc = "leave"
    BY <1>0, <1>3, QuitValue DEF ExitCode, Running
  <2>2. QED
    BY <1>2, <1>3, <2>1 DEF WaitInv
<1>4. ASSUME NEW t \in ClientType, Become(c, t), s.exit = Running,
             t.pc \notin {"open", "connect"}, t.pc # "write" => t.out = <<>>,
             link' = link \/ Connect(c), upEnd' = upEnd, peer'[c] \in {peer[c], "open"}
      PROVE  WaitInv(c)'
  <2>1. client'[c] = t
    BY <1>0, <1>4, BecomeValue
  <2>2. QED
    BY <1>0, <1>2, <1>4, <2>1 DEF WaitInv
<1>5. CASE UNCHANGED <<sockVars, client>>
  BY <1>0, <1>5 DEF WaitInv, sockVars
<1>6. CASE OpenFile(c)
  <2>1. CASE Quit(c, 2)
    BY <1>3, <1>6, <2>1 DEF OpenFile, sockVars
  <2>2. CASE Become(c, [s EXCEPT !.size = Len(file[c].bytes), !.pc = "connect"])
    <3> DEFINE t == [s EXCEPT !.size = Len(file[c].bytes), !.pc = "connect"]
    <3>1. /\ t \in ClientType /\ t.pc = "connect" /\ t.out = s.out /\ t.sent = s.sent
          /\ t.exit = s.exit
      <4>1. Len(file[c].bytes) \in Nat
        BY <1>0, ClientAssumption DEF ClientTypeOK
      <4>2. QED
        BY <1>0, <4>1 DEF ClientType
    <3>2. client'[c] = t
      <4> HIDE DEF t
      <4>1. Become(c, t)
        BY <2>2 DEF t
      <4>2. QED
        BY <1>0, <3>1, <4>1, BecomeValue
    <3> HIDE DEF t
    <3>3. s.pc = "open" /\ UNCHANGED sockVars
      BY <1>6 DEF OpenFile, Doing
    <3>4. QED
      BY <1>0, <1>2, <3>1, <3>2, <3>3 DEF WaitInv, sockVars
  <2>3. QED
    BY <1>6, <2>1, <2>2 DEF OpenFile
<1>7. CASE Dial(c)
  <2>1. link' = link \/ Connect(c)
    BY <1>7 DEF Dial, sockVars
  <2>2. CASE Quit(c, 3)
    BY <1>3, <2>1, <2>2
  <2>3. CASE Connect(c) /\ Become(c, Queue(c, Hello(s.size)))
    <3>1. Hello(s.size) \in Frame
      BY <1>0, PeerAssumption DEF ClientSpeech, ClientType
    <3>2. Queue(c, Hello(s.size)) \in ClientType /\ Queue(c, Hello(s.size)).pc = "write"
      BY <1>0, <3>1, QueueValue
    <3>3. upEnd' = upEnd /\ peer'[c] = "open" /\ s.exit = Running
      BY <1>0, <1>1, <1>7, <2>3 DEF Connect, SocketTypeOK, Dial, Doing
    <3>4. QED
      BY <1>4, <2>3, <3>2, <3>3
  <2>4. QED
    BY <1>7, <2>2, <2>3 DEF Dial
<1>8. CASE SendEnd(c)
  <2>1. End(Crc(s.sent)) \in Frame
    BY <1>0, PeerAssumption DEF ClientSpeech, ClientType
  <2> DEFINE t == Queue(c, End(Crc(s.sent)))
  <2>2. t \in ClientType /\ t.pc = "write"
    BY <1>0, <2>1, QueueValue
  <2> HIDE DEF t
  <2>3. UNCHANGED sockVars /\ s.exit = Running /\ Become(c, t)
    BY <1>1, <1>8 DEF SendEnd, Doing, t
  <2>4. QED
    BY <1>4, <2>2, <2>3 DEF sockVars
<1>9. CASE SendData(c)
  <2>1. UNCHANGED sockVars /\ s.exit = Running
    BY <1>1, <1>9 DEF SendData, Doing
  <2>2. CASE Quit(c, 2)
    BY <1>3, <2>1, <2>2 DEF sockVars
  <2>3. PICK x \in Seq(Bytes) : x = NextChunk(c)
    BY <1>0, ChunkIsBytes
  <2>4. Data(x) \in Frame
    BY PeerAssumption DEF ClientSpeech
  <2> DEFINE q == Queue(c, Data(x))
             t == [q EXCEPT !.sent = @ \o x, !.eof = Len(x) < Chunk]
  <2>5. q \in ClientType /\ q.pc = "write"
    BY <1>0, <2>4, QueueValue
  <2>6. t \in ClientType /\ t.pc = "write"
    <3> HIDE DEF q
    <3>1. q.sent \o x \in Seq(Bytes) /\ (Len(x) < Chunk) \in BOOLEAN
      BY <2>5, ConcatProperties DEF ClientType
    <3>2. \A z \in Seq(Bytes), b \in BOOLEAN :
             /\ [q EXCEPT !.sent = z, !.eof = b] \in ClientType
             /\ [q EXCEPT !.sent = z, !.eof = b].pc = q.pc
      BY <2>5 DEF ClientType
    <3>3. t = [q EXCEPT !.sent = q.sent \o x, !.eof = Len(x) < Chunk]
      OBVIOUS
    <3> HIDE DEF t
    <3>4. QED
      BY <2>5, <3>1, <3>2, <3>3
  <2>7. Become(c, t) \/ Quit(c, 2)
    BY <1>9, <2>3 DEF SendData
  <2> HIDE DEF t
  <2>8. QED
    BY <1>4, <2>1, <2>2, <2>6, <2>7 DEF sockVars
<1>10. CASE WritePiece(c)
  <2> DEFINE rest == Tail(s.out)
             pc == IF rest # <<>> THEN "write"
                   ELSE IF Head(s.out).type = "End" THEN "ack" ELSE "fill"
             t == [s EXCEPT !.out = rest, !.pc = pc]
  <2>1. Become(c, t) /\ s.exit = Running /\ s.pc = "write" /\ Send(c, Head(s.out))
    BY <1>1, <1>10 DEF WritePiece, Doing
  <2>2. t \in ClientType /\ t.out = rest /\ t.pc = pc
    <3>1. s.out # <<>> /\ s.out \in Seq(Frame)
      BY <1>0, <2>1 DEF PairInv, ClientType, Doing
    <3>2. rest \in Seq(Frame) /\ pc \in {"write", "ack", "fill"}
      BY <3>1, StreamSteps
    <3> HIDE DEF rest, pc
    <3>3. QED
      BY <1>0, <3>2 DEF ClientType
  <2>3. pc \in {"write", "ack", "fill"} /\ (pc # "write" => rest = <<>>)
    OBVIOUS
  <2> HIDE DEF t, pc, rest
  <2>4. link' = link /\ upEnd' = upEnd /\ peer' = peer
    BY <2>1 DEF Send
  <2>5. QED
    BY <1>4, <2>1, <2>2, <2>3, <2>4
<1>11. CASE WriteFails(c) \/ WriteTimesOut(c) \/ ReadEnds(c) \/ ReadTimesOut(c)
  BY <1>3, <1>11 DEF WriteFails, WriteTimesOut, ReadEnds, ReadTimesOut, NoAck, sockVars
<1>12. CASE ReadPiece(c)
  <2>1. /\ s.pc = "ack" /\ s.exit = Running /\ s.out = <<>>
        /\ link' = link /\ upEnd' = upEnd /\ peer' = peer
    BY <1>0, <1>1, <1>12 DEF ReadPiece, Receive, Doing, WaitInv
  <2>2. CASE UNCHANGED clientVars
    <3>1. client' = client
      BY <2>2 DEF clientVars
    <3>2. QED
      BY <1>0, <1>2, <2>1, <3>1 DEF WaitInv
  <2>3. CASE Quit(c, 5) \/ Quit(c, 6)
    BY <1>3, <2>1, <2>3
  <2>4. CASE Become(c, [s EXCEPT !.pc = "goodbye"])
    <3> DEFINE t == [s EXCEPT !.pc = "goodbye"]
    <3>1. t \in ClientType /\ t.pc = "goodbye" /\ t.out = s.out
      BY <1>0 DEF ClientType
    <3> HIDE DEF t
    <3>2. Become(c, t)
      BY <2>4 DEF t
    <3>3. QED
      BY <1>4, <2>1, <3>1, <3>2
  <2>5. QED
    BY <1>12, <2>2, <2>3, <2>4 DEF ReadPiece
<1>13. CASE Farewell(c)
  BY <1>3, <1>13 DEF Farewell, ShutUp
<1>14. CASE Leave(c) \/ Kill(c)
  <2> DEFINE t == [s EXCEPT !.pc = "done"]
             k == [s EXCEPT !.exit = Killed, !.pc = "done"]
  <2>1. /\ t \in ClientType /\ t.pc = "done" /\ t.exit = s.exit
        /\ k \in ClientType /\ k.pc = "done" /\ k.exit = Killed
    BY <1>0 DEF ClientType, ExitCode
  <2>2. Leave(c) => s.exit # Running /\ Become(c, t)
    BY <1>0 DEF Leave, Doing, PairInv
  <2>3. Kill(c) => Become(c, k)
    BY DEF Kill
  <2> HIDE DEF t, k
  <2>4. client'[c].exit # Running /\ client'[c].pc = "done"
    <3>1. CASE Leave(c)
      BY <1>0, <2>1, <2>2, <3>1, BecomeValue
    <3>2. CASE Kill(c)
      BY <1>0, <2>1, <2>3, <3>2, BecomeValue DEF Running, Killed
    <3>3. QED
      BY <1>14, <3>1, <3>2
  <2>5. link' = link
    BY <1>14 DEF Leave, Kill, Hangup, Reset, sockVars
  <2>6. QED
    BY <1>2, <2>4, <2>5 DEF WaitInv
<1>15. QED
  BY <1>5, <1>6, <1>7, <1>8, <1>9, <1>10, <1>11, <1>12, <1>13, <1>14
     DEF ClientNext, ClientStep, EditFile

\* The next chunk continues the file where the sent bytes end.
LEMMA ChunkContinues ==
    ASSUME ClientTypeOK, NEW c \in Conns, FileInv(client[c], file[c]), ~file[c].changed
    PROVE  LET more == client[c].sent \o NextChunk(c)
           IN  Len(more) <= Len(file[c].bytes) /\ more = SubSeq(file[c].bytes, 1, Len(more))
<1>1. PICK b \in Seq(Bytes), n \in Nat :
        b = file[c].bytes /\ n = Len(client[c].sent)
  BY ClientAssumption DEF ClientTypeOK, ClientType
<1>2. n \in 0..Len(b) /\ client[c].sent = SubSeq(b, 1, n)
  BY <1>1 DEF FileInv
<1>3. PICK m \in n..Len(b) : NextChunk(c) = SubSeq(b, n + 1, m)
  <2> DEFINE m == n + (IF Len(b) - n < Chunk THEN Len(b) - n ELSE Chunk)
  <2>1. m \in n..Len(b)
    BY <1>2, ClientAssumption
  <2>2. NextChunk(c) = SubSeq(b, n + 1, m)
    BY <1>1 DEF NextChunk
  <2> HIDE DEF m
  <2>3. QED
    BY <2>1, <2>2
<1>4. SubSeq(b, 1, n) \o SubSeq(b, n + 1, m) = SubSeq(b, 1, m) /\ Len(SubSeq(b, 1, m)) = m
  <2>1. \A x \in Seq(Bytes) : \A i \in 0..Len(x) : \A j \in i..Len(x) :
          SubSeq(x, 1, i) \o SubSeq(x, i + 1, j) = SubSeq(x, 1, j) /\ Len(SubSeq(x, 1, j)) = j
    BY BytesJoin
  <2>2. QED
    BY <1>2, <2>1, Zenon
<1>5. client[c].sent \o NextChunk(c) = SubSeq(b, 1, m)
  BY <1>2, <1>3, <1>4
<1>6. m <= Len(b)
  OBVIOUS
<1>7. QED
  BY <1>1, <1>4, <1>5, <1>6

\* A client's step loses no byte.
LEMMA ClientLosesNothing ==
    ASSUME ClientSpeech, IInv, TransferInv, NEW c \in Conns, WaitInv(c), StreamInv(c),
           ClientNext(c), UNCHANGED sessionVars
    PROVE  StreamInv(c)'
<1> DEFINE s == client[c]
<1>0. /\ s \in ClientType /\ ClientTypeOK /\ PairInv(c) /\ SocketTypeOK /\ GraceInv(c)
      /\ sess' = sess /\ stored' = stored /\ TypeOK /\ up[c] \in Seq(Frame)
      /\ sess[c] \in SessionType
  BY DEF TransferInv, ClientTypeOK, IInv, TypeOK, SocketTypeOK, ConnInv, sessionVars
<1>1. s.pc \in {"open", "connect", "write", "fill", "ack", "goodbye"} => s.exit = Running
  BY <1>0 DEF PairInv
<1>2. s.exit = Running => s.exit # 2
  BY DEF Running
<1>3. link' = link \/ Connect(c) => (Undecided(c)' => Undecided(c))
  BY <1>0 DEF Connect, GraceInv, Undecided, SocketTypeOK
<1>4. UNCHANGED up => up'[c] = up[c]
  OBVIOUS
\* The client stops here.
<1>5. ASSUME NEW code \in {0, 2, 3, 4, 5, 6}, Quit(c, code), s.exit = Running,
             s.pc = "open" => code = 2, link' = link \/ Connect(c), up' = up
      PROVE  StreamInv(c)'
  <2>1. /\ ClientTypeOK' /\ client'[c].exit = code /\ client'[c].pc = "leave"
        /\ client'[c].size = s.size /\ client'[c].sent = s.sent /\ file' = file
    BY <1>0, <1>5, QuitValue DEF ExitCode
  <2>2. code # Running
    BY DEF Running
  <2>3. QED
    BY <1>0, <1>2, <1>3, <1>5, <2>1, <2>2, StreamStays
\* It has a new frame to write.
<1>6. ASSUME NEW t \in ClientType, Become(c, t), s.exit = Running,
             t.size = s.size, NEW x \in Seq(Bytes), t.sent = s.sent \o x,
             s.pc \in {"connect", "fill"}, t.pc = "write", t.exit = s.exit,
             NEW f \in Frame, t.out = InTwoPieces(f),
             Carries(t, f, Len(s.sent), Len(t.sent)),
             x = <<>> \/ x = NextChunk(c),
             link' = link \/ Connect(c), up' = up
      PROVE  StreamInv(c)'
  <2>1. client'[c] = t /\ file' = file
    BY <1>0, <1>6, BecomeValue
  <2>2. stored[c] = <<>> /\ NoEnd(up[c]) /\ NoEnd(sess[c].parser)
    BY <1>0, <1>6 DEF PairInv, EndSent, Running, Killed
  <2>3. s.out = <<>> /\ s.sent \in Seq(Bytes)
    BY <1>0, <1>6 DEF WaitInv, ClientType
  <2>4. Undecided(c) => NothingLost(t, sess[c], up[c])
    <3> HIDE DEF s
    <3>1. ASSUME Undecided(c)
          PROVE  NothingLost(s, sess[c], up[c])
      BY <3>1 DEF StreamInv, s
    <3>2. QED
      BY <1>0, <1>6, <2>2, <2>3, <3>1, LostNotQueued
  <2>5. FileInv(t, file[c])
    <3>1. CASE x = <<>>
      <4>1. t.sent = s.sent
        BY <1>6, <2>3, <3>1, ConcatEmptySeq
      <4>2. QED
        BY <1>2, <1>6, <4>1 DEF StreamInv, FileInv
    <3>2. CASE x = NextChunk(c)
      <4>1. ~file[c].changed => Len(t.sent) <= Len(file[c].bytes)
                                /\ t.sent = SubSeq(file[c].bytes, 1, Len(t.sent))
        BY <1>0, <1>6, <3>2, ChunkContinues DEF StreamInv
      <4>2. QED
        BY <1>2, <1>6, <4>1 DEF StreamInv, FileInv
    <3>3. QED
      BY <1>6, <3>1, <3>2
  <2>6. QED
    BY <1>0, <1>3, <1>6, <2>1, <2>2, <2>4, <2>5 DEF StreamInv
<1>7. CASE OpenFile(c)
  <2>1. s.pc = "open" /\ UNCHANGED sockVars
    BY <1>7 DEF OpenFile, Doing
  <2>2. CASE Quit(c, 2)
    BY <1>1, <1>5, <2>1, <2>2 DEF sockVars
  <2>3. CASE Become(c, [s EXCEPT !.size = Len(file[c].bytes), !.pc = "connect"])
    <3> DEFINE t == [s EXCEPT !.size = Len(file[c].bytes), !.pc = "connect"]
    <3>1. /\ t \in ClientType /\ t.pc = "connect" /\ t.out = s.out /\ t.sent = s.sent
          /\ t.exit = s.exit /\ t.size = Len(file[c].bytes)
      <4>1. Len(file[c].bytes) \in Nat
        BY <1>0, ClientAssumption DEF ClientTypeOK
      <4>2. QED
        BY <1>0, <4>1 DEF ClientType
    <3> HIDE DEF t
    <3>2. client'[c] = t /\ file' = file
      <4>1. Become(c, t)
        BY <2>3 DEF t
      <4>2. QED
        BY <1>0, <3>1, <4>1, BecomeValue
    <3>3. /\ s.sent = <<>> /\ up[c] = <<>> /\ s.out = <<>> /\ sess[c] = NewSession
          /\ stored[c] = <<>> /\ up'[c] = up[c]
      BY <1>0, <1>1, <2>1 DEF WaitInv, GraceInv, PairInv, EndSent, Running, Killed, sockVars
    <3>4. NothingLost(t, sess[c], up[c])
      BY <3>1, <3>3, LostNotFresh
    <3>5. FileInv(t, file[c])
      <4>1. s.sent = <<>> /\ file[c].bytes \in Seq(Bytes)
        BY <1>0, <3>3, ClientAssumption DEF ClientTypeOK
      <4>2. Len(<<>>) <= Len(file[c].bytes) /\ SubSeq(file[c].bytes, 1, Len(<<>>)) = <<>>
        BY <4>1
      <4>3. QED
        BY <3>1, <4>1, <4>2 DEF FileInv
    <3>6. QED
      BY <1>0, <3>2, <3>3, <3>4, <3>5 DEF StreamInv
  <2>4. QED
    BY <1>7, <2>2, <2>3 DEF OpenFile
<1>8. CASE Dial(c)
  <2>1. s.pc = "connect" /\ (link' = link \/ Connect(c)) /\ up' = up
    BY <1>8 DEF Dial, Connect, sockVars, Doing
  <2>2. CASE Quit(c, 3)
    BY <1>1, <1>5, <2>1, <2>2
  <2>3. CASE Become(c, Queue(c, Hello(s.size)))
    <3> DEFINE f == Hello(s.size)
               t == Queue(c, f)
    <3>1. f \in Frame /\ f.type = "Hello" /\ f.size = s.size
      BY <1>0, PeerAssumption DEF ClientSpeech, ClientType, Hello
    <3> HIDE DEF f
    <3>2. /\ t \in ClientType /\ t.pc = "write" /\ t.out = InTwoPieces(f)
          /\ t.exit = s.exit /\ t.size = s.size /\ t.sent = s.sent
      BY <1>0, <3>1, QueueValue
    <3>3. t.sent = s.sent \o <<>> /\ <<>> \in Seq(Bytes)
      BY <1>0, <3>2, ConcatEmptySeq DEF ClientType
    <3>4. Carries(t, f, Len(s.sent), Len(t.sent))
      <4>1. Len(s.sent) \in Nat
        BY <1>0 DEF ClientType
      <4>2. QED
        BY <3>1, <3>2, <4>1 DEF Carries
    <3>5. Become(c, t)
      BY <2>3 DEF f
    <3> HIDE DEF t
    <3>6. QED
      BY <1>1, <1>6, <2>1, <3>1, <3>2, <3>3, <3>4, <3>5
  <2>4. QED
    BY <1>8, <2>2, <2>3 DEF Dial
<1>9. CASE SendEnd(c)
  <2> DEFINE f == End(Crc(s.sent))
             t == Queue(c, f)
  <2>1. f \in Frame /\ f.type = "End"
    BY <1>0, PeerAssumption DEF ClientSpeech, ClientType, End
  <2>2. s.pc = "fill" /\ link' = link /\ up' = up /\ Become(c, t)
    BY <1>9 DEF SendEnd, sockVars, Doing
  <2> HIDE DEF f
  <2>3. /\ t \in ClientType /\ t.pc = "write" /\ t.out = InTwoPieces(f)
        /\ t.exit = s.exit /\ t.size = s.size /\ t.sent = s.sent
    BY <1>0, <2>1, QueueValue
  <2>4. t.sent = s.sent \o <<>> /\ <<>> \in Seq(Bytes)
    BY <1>0, <2>3, ConcatEmptySeq DEF ClientType
  <2>5. Carries(t, f, Len(s.sent), Len(t.sent))
    <3>1. Len(s.sent) \in Nat
      BY <1>0 DEF ClientType
    <3>2. QED
      BY <2>1, <2>3, <3>1 DEF Carries
  <2> HIDE DEF t
  <2>6. QED
    BY <1>1, <1>6, <2>1, <2>2, <2>3, <2>4, <2>5
<1>10. CASE SendData(c)
  <2>1. s.pc = "fill" /\ link' = link /\ up' = up
    BY <1>10 DEF SendData, sockVars, Doing
  <2>2. CASE Quit(c, 2)
    BY <1>1, <1>5, <2>1, <2>2
  <2>3. CASE ~Quit(c, 2)
    <3>1. PICK x \in Seq(Bytes) : x = NextChunk(c)
      BY <1>0, ChunkIsBytes
    <3> DEFINE f == Data(x)
               q == Queue(c, f)
               t == [q EXCEPT !.sent = @ \o x, !.eof = Len(x) < Chunk]
    <3>2. f \in Frame /\ f.type = "Data" /\ f.data = x
      BY PeerAssumption DEF ClientSpeech, Data
    <3>3. Become(c, t)
      BY <1>10, <2>3, <3>1 DEF SendData
    <3> HIDE DEF f
    <3>4. /\ q \in ClientType /\ q.pc = "write" /\ q.out = InTwoPieces(f)
          /\ q.exit = s.exit /\ q.size = s.size /\ q.sent = s.sent
      BY <1>0, <3>2, QueueValue
    <3>5. /\ t \in ClientType /\ t.pc = "write" /\ t.out = InTwoPieces(f)
          /\ t.exit = s.exit /\ t.size = s.size /\ t.sent = s.sent \o x
      <4> HIDE DEF q
      <4>1. q.sent \o x \in Seq(Bytes) /\ (Len(x) < Chunk) \in BOOLEAN
        BY <3>4, ConcatProperties DEF ClientType
      <4>2. \A z \in Seq(Bytes), b \in BOOLEAN :
               LET r == [q EXCEPT !.sent = z, !.eof = b]
               IN  /\ r \in ClientType /\ r.pc = q.pc /\ r.out = q.out /\ r.exit = q.exit
                   /\ r.size = q.size /\ r.sent = z
        BY <3>4 DEF ClientType
      <4>3. t = [q EXCEPT !.sent = q.sent \o x, !.eof = Len(x) < Chunk]
        OBVIOUS
      <4> HIDE DEF t
      <4>4. QED
        BY <3>4, <4>1, <4>2, <4>3
    <3> HIDE DEF t
    <3>6. Carries(t, f, Len(s.sent), Len(t.sent))
      <4>1. s.sent \in Seq(Bytes)
        BY <1>0 DEF ClientType
      <4>2. /\ Len(s.sent) <= Len(t.sent)
            /\ SubSeq(t.sent, Len(s.sent) + 1, Len(t.sent)) = x
        <5>1. \A b \in Seq(Bytes) : \A z \in Seq(Bytes) :
                 Len(b) <= Len(b \o z) /\ SubSeq(b \o z, Len(b) + 1, Len(b \o z)) = z
          BY BytesGrow
        <5>2. QED
          BY <3>5, <4>1, <5>1, Zenon
      <4>3. QED
        BY <3>2, <4>2 DEF Carries
    <3>7. QED
      BY <1>1, <1>6, <2>1, <3>1, <3>2, <3>3, <3>5, <3>6
  <2>4. QED
    BY <2>2, <2>3
<1>11. CASE WritePiece(c)
  <2> DEFINE rest == Tail(s.out)
             pc == IF rest # <<>> THEN "write"
                   ELSE IF Head(s.out).type = "End" THEN "ack" ELSE "fill"
             t == [s EXCEPT !.out = rest, !.pc = pc]
  <2>1. Become(c, t) /\ s.exit = Running /\ s.pc = "write" /\ Send(c, Head(s.out))
    BY <1>1, <1>11 DEF WritePiece, Doing
  <2>2. s.out # <<>> /\ s.out \in Seq(Frame)
    BY <1>0, <2>1 DEF PairInv, ClientType, Doing
  <2>3. /\ t \in ClientType /\ t.out = rest /\ t.pc \in {"write", "ack", "fill"}
        /\ t.size = s.size /\ t.sent = s.sent /\ t.exit = s.exit
    <3>1. rest \in Seq(Frame) /\ pc \in {"write", "ack", "fill"}
      BY <2>2, StreamSteps
    <3> HIDE DEF rest, pc
    <3>2. QED
      BY <1>0, <3>1 DEF ClientType
  <2> HIDE DEF t
  <2>4. client'[c] = t /\ file' = file
    BY <1>0, <2>1, <2>3, BecomeValue
  <2>5. FileInv(t, file[c])
    BY <1>2, <2>1, <2>3 DEF StreamInv, FileInv
  <2>6. stored[c] # <<>> => stored[c] = <<t.sent>> /\ Len(t.sent) = t.size
    BY <2>3 DEF StreamInv
  <2>7. Undecided(c)' => NothingLost(t, sess[c], up'[c])
    <3>1. ASSUME Undecided(c)'
          PROVE  /\ NothingLost(s, sess[c], up[c])
                 /\ up'[c] = Append(up[c], Head(s.out))
      <4>1. link' = link /\ link[c] # "closed" /\ Undecided(c)
        BY <1>0, <2>1, <3>1 DEF Send, Undecided
      <4>2. QED
        BY <1>0, <2>1, <4>1 DEF Send, StreamInv, SocketTypeOK
    <3> HIDE DEF s
    <3>2. sess[c].parser \in Seq(Frame)
      BY <1>0 DEF SessionType
    <3>3. QED
      BY <1>0, <2>1, <2>2, <2>3, <3>1, <3>2, LostNotWritten
  <2>8. QED
    BY <1>0, <2>4, <2>5, <2>6, <2>7 DEF StreamInv
<1>12. CASE WriteFails(c) \/ WriteTimesOut(c) \/ ReadEnds(c) \/ ReadTimesOut(c)
  <2>1. \E code \in {4, 5} : Quit(c, code)
    BY <1>12 DEF WriteFails, WriteTimesOut, ReadEnds, ReadTimesOut, NoAck
  <2>2. s.pc \in {"write", "ack"} /\ UNCHANGED sockVars
    BY <1>12 DEF WriteFails, WriteTimesOut, ReadEnds, ReadTimesOut, NoAck, Doing
  <2>3. QED
    BY <1>1, <1>5, <2>1, <2>2 DEF sockVars
<1>13. CASE ReadPiece(c)
  <2>1. s.pc = "ack" /\ s.exit = Running /\ link' = link /\ up' = up
    BY <1>1, <1>13 DEF ReadPiece, Receive, Doing
  <2>2. CASE UNCHANGED clientVars
    <3>1. client' = client /\ file' = file
      BY <2>2 DEF clientVars
    <3>2. ClientTypeOK'
      BY <1>0, <3>1 DEF ClientTypeOK
    <3>3. QED
      BY <1>0, <1>3, <2>1, <3>1, <3>2, StreamStays
  <2>3. CASE Quit(c, 5) \/ Quit(c, 6)
    BY <1>5, <2>1, <2>3
  <2>4. CASE Become(c, [s EXCEPT !.pc = "goodbye"])
    <3> DEFINE t == [s EXCEPT !.pc = "goodbye"]
    <3>1. /\ t \in ClientType /\ t.out = s.out /\ t.size = s.size /\ t.sent = s.sent
          /\ t.exit = s.exit
      BY <1>0 DEF ClientType
    <3>2. Become(c, t)
      BY <2>4
    <3> HIDE DEF t
    <3>3. ClientTypeOK' /\ client'[c] = t /\ file' = file
      BY <1>0, <3>1, <3>2, BecomeValue
    <3>4. QED
      BY <1>0, <1>2, <1>3, <2>1, <3>1, <3>3, StreamStays
  <2>5. QED
    BY <1>13, <2>2, <2>3, <2>4 DEF ReadPiece
<1>14. CASE Farewell(c)
  BY <1>1, <1>5, <1>14 DEF Farewell, ShutUp, Doing
<1>15. CASE Leave(c) \/ Kill(c)
  <2> DEFINE t == [s EXCEPT !.pc = "done"]
             k == [s EXCEPT !.exit = Killed, !.pc = "done"]
  <2>1. /\ t \in ClientType /\ t.exit = s.exit /\ t.size = s.size /\ t.sent = s.sent
        /\ k \in ClientType /\ k.exit = Killed /\ k.size = s.size /\ k.sent = s.sent
    BY <1>0 DEF ClientType, ExitCode
  <2>2. Leave(c) => s.exit # Running /\ s.pc = "leave" /\ Become(c, t)
    BY <1>0 DEF Leave, Doing, PairInv
  <2>3. Kill(c) => Become(c, k) /\ s.exit = Running /\ s.pc # "open"
    BY DEF Kill, Hangup, Reset, WaitInv
  <2> HIDE DEF t, k
  <2>4. /\ ClientTypeOK' /\ file' = file /\ client'[c].exit # Running
        /\ client'[c].size = s.size /\ client'[c].sent = s.sent
        /\ client'[c].exit # 2 => s.exit # 2
        /\ s.pc # "open"
    <3>1. CASE Leave(c)
      BY <1>0, <2>1, <2>2, <3>1, BecomeValue
    <3>2. CASE Kill(c)
      BY <1>0, <1>2, <2>1, <2>3, <3>2, BecomeValue DEF Running, Killed
    <3>3. QED
      BY <1>15, <3>1, <3>2
  <2>5. link' = link /\ (up' = up \/ Cut(up, c))
    BY <1>15 DEF Leave, Kill, Hangup, Reset, sockVars
  <2>6. up'[c] = up[c] \/ \E n \in 0..Len(up[c]) : up'[c] = SubSeq(up[c], 1, n)
    BY <1>0, <2>5 DEF Cut, SocketTypeOK
  <2>7. QED
    BY <1>0, <1>3, <2>4, <2>5, <2>6, StreamStays
<1>16. CASE EditFile(c)
  <2>1. client' = client /\ UNCHANGED sockVars
    BY <1>16 DEF EditFile
  <2>2. file'[c].changed
    BY <1>0, <1>16 DEF EditFile, ClientTypeOK
  <2>3. ClientTypeOK'
    BY TransferStep DEF TransferNext, TransferInv
  <2>4. QED
    BY <1>0, <1>3, <2>1, <2>2, <2>3, StreamStays DEF sockVars
<1>17. QED
  BY <1>7, <1>8, <1>9, <1>10, <1>11, <1>12, <1>13, <1>14, <1>15, <1>16
     DEF ClientNext, ClientStep

-----------------------------------------------------------------------------
(* The steps of a session.                                                 *)

\* A server takes no client's end of a connection down, and starts no session
\* before it accepts the connection.
LEMMA SessionWaits ==
    ASSUME IInv, TransferInv, NEW c \in Conns, WaitInv(c), SessionStep(c),
           UNCHANGED clientVars
    PROVE  WaitInv(c)'
<1>0. TypeOK /\ SocketTypeOK /\ client' = client /\ GraceInv(c)
      /\ link[c] \in {"none", "backlog", "open", "closed"}
  BY DEF IInv, TypeOK, SocketTypeOK, clientVars, ConnInv
<1>1. link[c] \in {"backlog", "open"} /\ link'[c] \in {"open", "closed"}
  BY <1>0
     DEF SessionStep, HandlerStep, ServerStep, Accept, LeaveUnaccepted, Refuse,
         RefuseWrite, RefuseClose, Destroy, Crash, CloseSession, SweepClose, Close,
         Rearm, Handle, Quiet, ReadData, ReadEof, ReadError, ReadAgain, NeedMore,
         PartialFrame, BadFrame, OnAckFrame, OnHello, OnData, OnEnd, WriteAck,
         WriteAgain, WriteError, AckSent, Step, Offers, Sending, At, TakeFromBacklog,
         DropFromBacklog, CloseLink, SocketTypeOK, sockVars
<1>2. peer' = peer
  BY DEF SessionStep, HandlerStep, ServerStep, Accept, LeaveUnaccepted, Refuse,
         RefuseWrite, RefuseClose, Destroy, Crash, CloseSession, SweepClose, Close,
         Rearm, Handle, Quiet, ReadData, ReadEof, ReadError, ReadAgain, NeedMore,
         PartialFrame, BadFrame, OnAckFrame, OnHello, OnData, OnEnd, WriteAck,
         WriteAgain, WriteError, AckSent, Step, TakeFromBacklog,
         DropFromBacklog, CloseLink, sockVars
<1>3. upEnd' = upEnd \/ peer[c] = "closed"
  BY DEF SessionStep, HandlerStep, ServerStep, Accept, LeaveUnaccepted, Refuse,
         RefuseWrite, RefuseClose, Destroy, Crash, CloseSession, SweepClose, Close,
         Rearm, Handle, Quiet, ReadData, ReadEof, ReadError, ReadAgain, NeedMore,
         PartialFrame, BadFrame, OnAckFrame, OnHello, OnData, OnEnd, WriteAck,
         WriteAgain, WriteError, AckSent, Step, TakeFromBacklog, PutDown,
         DropFromBacklog, CloseLink, sockVars
<1>4. client[c].pc \notin {"open", "connect"}
  BY <1>0, <1>1 DEF WaitInv, GraceInv
<1>5. QED
  BY <1>0, <1>1, <1>2, <1>3, <1>4 DEF WaitInv

\* What a session has of its client's data, through the parts of its handlers.
SameBytes(s, t) ==
    /\ t.hashed = s.hashed /\ t.received = s.received /\ t.hello = s.hello
    /\ t.expected = s.expected /\ t.parser = s.parser

LEMMA ByteOps ==
    ASSUME NEW s \in SessionType
    PROVE  /\ \A pc \in Pcs : SameBytes(s, Goto(s, pc))
           /\ SameBytes(s, Touch(s)) /\ SameBytes(s, [s EXCEPT !.idle = TRUE])
           /\ \A q \in Seq(Frame) :
                LET t == [Touch(s) EXCEPT !.parser = @ \o q, !.pc = "frames"]
                IN  /\ t.hashed = s.hashed /\ t.received = s.received
                    /\ t.hello = s.hello /\ t.expected = s.expected
                    /\ t.parser = s.parser \o q
           /\ LET t == Taken(s)
              IN  /\ t.parser = Tail(s.parser) /\ t.hello = s.hello
                  /\ t.expected = s.expected /\ t.hashed = s.hashed
                  /\ t.received = s.received
           /\ \A n \in Nat :
                LET t == [Taken(s) EXCEPT !.hello = TRUE, !.expected = n]
                IN  /\ t.parser = Tail(s.parser) /\ t.expected = n
                    /\ t.hashed = s.hashed /\ t.received = s.received
           /\ \A b \in Seq(Bytes) :
                LET t == [Taken(s) EXCEPT !.hashed = @ \o b, !.received = @ + Len(b)]
                IN  /\ t.parser = Tail(s.parser) /\ t.hello = s.hello
                    /\ t.expected = s.expected
                    /\ t.hashed = s.hashed \o b /\ t.received = s.received + Len(b)
  BY DEF SessionType, SameBytes, Goto, Touch, Taken

\* A session that has its verdict is no longer undecided.
LEMMA VerdictDecides ==
    ASSUME NEW s \in SessionType
    PROVE  /\ \A status : queueAck([s EXCEPT !.reports = @ + 1], status).state = "SendingAck"
           /\ \A status : \A n \in Nat :
                queueAck([[Taken(s) EXCEPT !.hello = TRUE, !.expected = n]
                            EXCEPT !.reports = @ + 1], status).state = "SendingAck"
           /\ \A status :
                LET t == queueAck([Taken(s) EXCEPT !.completed = TRUE], status)
                IN  t.state = "SendingAck" /\ t.hashed = s.hashed
           /\ Goto(s, "refused").pc = "refused"
  BY DEF SessionType, Taken, queueAck, Goto, Pcs

\* How a session's data and its stream may change while it stays undecided.
ReadInto(s, t, u, v) ==
    \E k \in 1..Len(u) :
        /\ v = SubSeq(u, k + 1, Len(u))
        /\ t.hashed = s.hashed /\ t.received = s.received
        /\ t.hello = s.hello /\ t.expected = s.expected
        /\ t.parser = s.parser \o SubSeq(u, 1, k)

FrameTaken(s, t, n) ==
    /\ s.parser # <<>> /\ t.parser = Tail(s.parser)
    /\ t.hello => t.expected = n
    /\ IF Head(s.parser).type = "Data"
       THEN /\ t.hashed = s.hashed \o Head(s.parser).data
            /\ t.received = s.received + Len(Head(s.parser).data)
       ELSE t.hashed = s.hashed /\ t.received = s.received

Moved(s, t, u, v, n) ==
    \/ SameBytes(s, t) /\ v = u
    \/ ReadInto(s, t, u, v)
    \/ FrameTaken(s, t, n) /\ v = u

\* An undecided session that stays so has either the same data as before, or has
\* read a part of the stream, or has taken the next frame.
LEMMA UndecidedMoves ==
    ASSUME IInv, NEW c \in Conns, NEW s, s = sess[c], NEW n, n = client[c].size,
           SessionStep(c), Undecided(c),
           link[c] \in {"none", "backlog"} => s = NewSession,
           s.parser # <<>> /\ Head(s.parser).type = "Hello" => Head(s.parser).size = n,
           s.hello => s.expected = n, Undecided(c)'
    PROVE  Moved(s, sess'[c], up[c], up'[c], n)
<1> DEFINE Goal == Moved(s, sess'[c], up[c], up'[c], n)
<1> USE DEF Moved, ReadInto, FrameTaken
<1>0. /\ TypeOK /\ SocketTypeOK /\ s \in SessionType /\ up[c] \in Seq(Frame)
      /\ link[c] \in {"none", "backlog", "open", "closed"}
  BY DEF IInv, TypeOK, SocketTypeOK
<1>1. ASSUME NEW t, Set(c, t)
      PROVE  sess'[c] = t
  BY <1>0, <1>1, SetValue
<1>2. ASSUME NEW t, Set(c, t), SameBytes(s, t), up'[c] = up[c]
      PROVE  Goal
  BY <1>1, <1>2
<1>3. UNCHANGED sockVars => up'[c] = up[c]
  BY DEF sockVars
\* A verdict, or the end of the connection.
<1>4. ASSUME link'[c] \in {"open", "closed"},
             sess'[c].state # "Receiving" \/ link'[c] = "closed" \/ sess'[c].pc = "refused"
      PROVE  FALSE
  BY <1>4 DEF Undecided
<1>5. ASSUME NEW status, fail(c, status), At(c, "frames"), UNCHANGED sockVars
      PROVE  FALSE
  <2>1. sess'[c].state = "SendingAck"
    BY <1>0, <1>1, <1>5, VerdictDecides DEF fail
  <2>2. QED
    BY <1>4, <1>5, <2>1 DEF At, sockVars
<1>6. CASE ReadAgain(c) \/ NeedMore(c) \/ WriteAgain(c) \/ WriteError(c) \/ Rearm(c)
  <2>1. (\E pc \in Pcs : Set(c, Goto(s, pc))) /\ UNCHANGED sockVars
    BY <1>6 DEF ReadAgain, NeedMore, WriteAgain, WriteError, Rearm, Step, Pcs
  <2>2. QED
    BY <1>0, <1>2, <1>3, <2>1, ByteOps
<1>7. CASE ReadEof(c) \/ ReadError(c)
  <2>1. Set(c, Goto(s, "drop")) \/ Set(c, Goto(Terminated(s), "drop"))
    BY <1>7 DEF ReadEof, ReadError, terminate
  <2>2. SameBytes(s, Goto(s, "drop")) /\ SameBytes(s, Goto(Terminated(s), "drop"))
    BY <1>0 DEF SessionType, SameBytes, Goto, Terminated
  <2>3. QED
    BY <1>2, <1>3, <1>7, <2>1, <2>2 DEF ReadEof, ReadError
<1>8. CASE ReadData(c)
  <2>1. PICK k \in 1..Len(up[c]) :
          /\ up' = [up EXCEPT ![c] = SubSeq(@, k + 1, Len(@))]
          /\ Set(c, IF s.state = "Receiving"
                    THEN [Touch(s) EXCEPT !.parser = @ \o SubSeq(up[c], 1, k),
                                          !.pc = "frames"]
                    ELSE Touch(s))
    BY <1>8 DEF ReadData
  <2>2. s.state = "Receiving"
    BY <1>8 DEF ReadData, At, Undecided
  <2>3. up'[c] = SubSeq(up[c], k + 1, Len(up[c]))
    BY <1>0, <2>1 DEF SocketTypeOK
  <2>4. PICK q \in Seq(Frame) : q = SubSeq(up[c], 1, k)
    BY <1>0, <2>1, StreamSteps
  <2> DEFINE t == [Touch(s) EXCEPT !.parser = @ \o q, !.pc = "frames"]
  <2>5. /\ t.hashed = s.hashed /\ t.received = s.received
        /\ t.hello = s.hello /\ t.expected = s.expected /\ t.parser = s.parser \o q
    BY <1>0, ByteOps
  <2>6. Set(c, t)
    BY <2>1, <2>2, <2>4
  <2> HIDE DEF t
  <2>7. sess'[c] = t
    BY <1>1, <2>6
  <2>8. QED
    BY <2>3, <2>4, <2>5, <2>7
<1>9. CASE BadFrame(c) \/ OnAckFrame(c)
  BY <1>5, <1>9 DEF BadFrame, OnAckFrame, Offers
<1>10. CASE PartialFrame(c)
  <2>1. /\ Set(c, Taken(s)) /\ up'[c] = up[c] /\ s.parser # <<>>
        /\ Head(s.parser).type # "Data"
    BY <1>3, <1>10 DEF PartialFrame, Offers
  <2>2. sess'[c] = Taken(s)
    BY <1>1, <2>1
  <2>3. LET t == Taken(s)
        IN  /\ t.parser = Tail(s.parser) /\ t.hello = s.hello /\ t.expected = s.expected
            /\ t.hashed = s.hashed /\ t.received = s.received
    BY <1>0, ByteOps
  <2>4. QED
    BY <2>1, <2>2, <2>3
<1>11. CASE OnHello(c)
  <2>1. /\ At(c, "frames") /\ UNCHANGED sockVars /\ s.parser # <<>>
        /\ Head(s.parser).type = "Hello" /\ Head(s.parser).size = n
    BY <1>11 DEF OnHello, Offers
  <2>2. n \in Nat
    <3>1. Head(s.parser) \in Frame
      BY <1>0, <2>1, StreamSteps DEF SessionType
    <3>2. QED
      BY <2>1, <3>1, FrameFields
  <2> DEFINE greeted == [Taken(s) EXCEPT !.hello = TRUE, !.expected = n]
             refused == queueAck([greeted EXCEPT !.reports = @ + 1], "IoError")
  <2>3. fail(c, "ProtocolError") \/ Set(c, greeted) \/ Set(c, refused)
    BY <1>11, <2>1 DEF OnHello
  <2>4. /\ greeted.parser = Tail(s.parser) /\ greeted.expected = n
        /\ greeted.hashed = s.hashed /\ greeted.received = s.received
    BY <1>0, <2>2, ByteOps
  <2>5. refused.state = "SendingAck"
    BY <1>0, <2>2, VerdictDecides
  <2> HIDE DEF greeted, refused
  <2>6. ~Set(c, refused)
    BY <1>1, <1>4, <2>1, <2>5 DEF At, sockVars
  <2>7. sess'[c] = greeted
    BY <1>1, <1>5, <2>1, <2>3, <2>6
  <2>8. QED
    BY <1>3, <2>1, <2>4, <2>7
<1>12. CASE OnData(c)
  <2>1. /\ At(c, "frames") /\ UNCHANGED sockVars /\ s.parser # <<>>
        /\ Head(s.parser).type = "Data"
    BY <1>12 DEF OnData, Offers
  <2>2. PICK b \in Seq(Bytes) : b = Head(s.parser).data
    <3>1. Head(s.parser) \in Frame
      BY <1>0, <2>1, StreamSteps DEF SessionType
    <3>2. QED
      BY <2>1, <3>1, FrameFields
  <2> DEFINE t == [Taken(s) EXCEPT !.hashed = @ \o b, !.received = @ + Len(b)]
  <2>3. Set(c, t) \/ \E status : fail(c, status)
    BY <1>12, <2>2 DEF OnData
  <2>4. /\ t.parser = Tail(s.parser) /\ t.hello = s.hello /\ t.expected = s.expected
        /\ t.hashed = s.hashed \o b /\ t.received = s.received + Len(b)
    BY <1>0, ByteOps
  <2> HIDE DEF t
  <2>5. sess'[c] = t
    BY <1>1, <1>5, <2>1, <2>3
  <2>6. QED
    BY <1>3, <2>1, <2>2, <2>4, <2>5
<1>13. CASE OnEnd(c)
  <2> DEFINE t == queueAck([Taken(s) EXCEPT !.completed = TRUE], "Ok")
  <2>1. /\ At(c, "frames") /\ UNCHANGED sockVars
        /\ Set(c, t) \/ \E status : fail(c, status)
    BY <1>13 DEF OnEnd, Offers
  <2>2. t.state = "SendingAck"
    BY <1>0, VerdictDecides
  <2> HIDE DEF t
  <2>3. QED
    BY <1>1, <1>4, <1>5, <2>1, <2>2 DEF At, sockVars
<1>14. CASE WriteAck(c) \/ AckSent(c)
  BY <1>14 DEF WriteAck, AckSent, Sending, At, Undecided
<1>15. CASE Accept(c) \/ Refuse(c)
  <2>1. s = NewSession /\ up' = up
    BY <1>15 DEF Accept, Refuse, TakeFromBacklog
  <2>2. sess'[c] = s \/ sess'[c] = Goto(s, "busy")
    BY <1>1, <1>15, <2>1 DEF Accept, Refuse
  <2>3. SameBytes(s, s) /\ SameBytes(s, Goto(s, "busy"))
    BY <1>0, ByteOps DEF Pcs, SameBytes
  <2>4. QED
    BY <2>1, <2>2, <2>3
<1>16. CASE RefuseWrite(c)
  <2>1. sess'[c] = Goto(s, "refused") /\ link' = link /\ link[c] = "open"
    BY <1>1, <1>16 DEF RefuseWrite, At
  <2>2. QED
    BY <1>0, <1>4, <2>1, VerdictDecides
<1>17. CASE LeaveUnaccepted(c) \/ RefuseClose(c) \/ Destroy(c) \/ Crash(c)
             \/ CloseSession(c) \/ SweepClose(c)
  <2>1. link'[c] = "closed"
    BY <1>0, <1>17 DEF LeaveUnaccepted, RefuseClose, Destroy, Crash, CloseSession,
                       SweepClose, Close, CloseLink, DropFromBacklog, SocketTypeOK
  <2>2. QED
    BY <2>1 DEF Undecided
<1>18. ASSUME NEW events, Handle(c, events)
       PROVE  Goal
  <2>1. /\ Set(c, Goto(s, "read")) \/ Set(c, Goto(s, "write")) \/ Set(c, Goto(s, "drop"))
             \/ Set(c, Goto(Terminated(s), "drop"))
        /\ up'[c] = up[c]
    BY <1>3, <1>18 DEF Handle, Step, terminate
  <2>2. /\ SameBytes(s, Goto(s, "read")) /\ SameBytes(s, Goto(s, "write"))
        /\ SameBytes(s, Goto(s, "drop")) /\ SameBytes(s, Goto(Terminated(s), "drop"))
    BY <1>0 DEF SessionType, SameBytes, Goto, Terminated
  <2>3. QED
    BY <1>2, <2>1, <2>2
<1>19. CASE Quiet(c)
  BY <1>0, <1>2, <1>3, <1>19, ByteOps DEF Quiet
<1>20. Goal
  BY <1>6, <1>7, <1>8, <1>9, <1>10, <1>11, <1>12, <1>13, <1>14, <1>15, <1>16, <1>17,
     <1>18, <1>19 DEF SessionStep, ServerStep, HandlerStep
<1>21. QED
  BY <1>20

\* The file a session publishes is the bytes its client has sent, all of them.
LEMMA PublishesSent ==
    ASSUME IInv, TransferInv, NEW c \in Conns, StreamInv(c), SessionStep(c),
           stored'[c] # stored[c]
    PROVE  stored'[c] = <<client[c].sent>> /\ Len(client[c].sent) = client[c].size
<1> DEFINE s == client[c]
           r == sess[c]
<1>0. /\ s \in ClientType /\ r \in SessionType /\ up[c] \in Seq(Frame) /\ ConnInv(c)
  BY DEF IInv, TypeOK, SocketTypeOK, TransferInv, ClientTypeOK
<1>1. OnEnd(c)
  BY StoredBy
<1>2. /\ link[c] = "open" /\ r.state = "Receiving" /\ r.pc = "frames"
      /\ r.parser # <<>> /\ Head(r.parser).type = "End" /\ Undecided(c)
  BY <1>0, <1>1 DEF OnEnd, Offers, At, ConnInv, ControlInv, Undecided
<1>3. stored'[c] = <<writer[c].bytes>>
  BY StepIsFinal DEF FinalStep
<1>4. r.hello /\ r.received = r.expected
  BY <1>1 DEF OnEnd, fail
<1>5. writer[c].bytes = r.hashed
  BY <1>0, <1>2, <1>4 DEF ConnInv, WriterInv
<1>6. NothingLost(s, r, up[c])
  BY <1>2 DEF StreamInv
<1>7. r.received = Len(s.sent) /\ r.hashed = s.sent /\ r.expected = s.size
  <2> HIDE DEF s, r
  <2>1. r.received = Len(s.sent) /\ r.hashed = s.sent
    BY <1>0, <1>2, <1>6, LostNotOffered
  <2>2. r.expected = s.size
    BY <1>4, <1>6 DEF NothingLost
  <2>3. QED
    BY <2>1, <2>2
<1>8. QED
  BY <1>3, <1>4, <1>5, <1>7

LEMMA SessionLosesNothing ==
    ASSUME IInv, TransferInv, NEW c \in Conns, WaitInv(c), StreamInv(c), SessionStep(c),
           UNCHANGED clientVars
    PROVE  StreamInv(c)'
<1> DEFINE s == client[c]
           r == sess[c]
           t == sess'[c]
           u == up[c]
<1>0. /\ s \in ClientType /\ r \in SessionType /\ u \in Seq(Frame)
      /\ client' = client /\ file' = file /\ r.parser \in Seq(Frame)
  BY DEF IInv, TypeOK, SocketTypeOK, TransferInv, ClientTypeOK, clientVars, SessionType
<1>1. FileInv(s, file[c])
  BY DEF StreamInv
<1>2. stored'[c] # <<>> => stored'[c] = <<s.sent>> /\ Len(s.sent) = s.size
  BY PublishesSent DEF StreamInv
<1>3. ASSUME Undecided(c)'
      PROVE  NothingLost(s, t, up'[c])
  <2>1. Undecided(c)
    BY <1>3, DecidedStays
  <2>2. NothingLost(s, r, u)
    BY <2>1 DEF StreamInv
  <2>3. /\ r.hello => r.expected = s.size
        /\ link[c] \in {"none", "backlog"} => r = NewSession
    BY <2>2 DEF NothingLost, WaitInv
  <2>4. r.parser # <<>> /\ Head(r.parser).type = "Hello" => Head(r.parser).size = s.size
    <3> HIDE DEF s, r, u
    <3>1. QED
      BY <1>0, <2>2, LostNotOffered
  <2>5. Moved(r, t, u, up'[c], s.size)
    BY <1>3, <2>1, <2>3, <2>4, UndecidedMoves
  <2> HIDE DEF s, r, t, u
  <2>6. CASE SameBytes(r, t) /\ up'[c] = u
    BY <1>0, <2>2, <2>6, LostNotSame DEF SameBytes
  <2>7. CASE ReadInto(r, t, u, up'[c])
    <3>1. PICK k \in 1..Len(u) :
            /\ up'[c] = SubSeq(u, k + 1, Len(u))
            /\ t.hashed = r.hashed /\ t.received = r.received
            /\ t.hello = r.hello /\ t.expected = r.expected
            /\ t.parser = r.parser \o SubSeq(u, 1, k)
      BY <2>7 DEF ReadInto
    <3>2. NothingLost(s, t, SubSeq(u, k + 1, Len(u)))
      BY <1>0, <2>2, <3>1, LostNotRead
    <3>3. QED
      BY <3>1, <3>2
  <2>8. CASE FrameTaken(r, t, s.size) /\ up'[c] = u
    BY <1>0, <2>2, <2>8, LostNotTaken DEF FrameTaken
  <2>9. QED
    BY <2>5, <2>6, <2>7, <2>8 DEF Moved
<1>4. QED
  BY <1>0, <1>1, <1>2, <1>3 DEF StreamInv

-----------------------------------------------------------------------------
(* The invariant, and what it gives.                                       *)

\* A step of one connection leaves what is known of the others alone.
LEMMA OtherData ==
    ASSUME IInv, NEW c \in Conns, NEW d \in Conns \ {c}, WaitInv(d), StreamInv(d),
           \/ SessionStep(c)
           \/ (Peer(c) \/ UNCHANGED vars) /\ UNCHANGED sessionVars,
           client'[d] = client[d], file'[d] = file[d]
    PROVE  WaitInv(d)' /\ StreamInv(d)'
<1>1. /\ sess'[d] = sess[d] /\ stored'[d] = stored[d] /\ up'[d] = up[d]
      /\ link'[d] = link[d] /\ upEnd'[d] = upEnd[d] /\ peer'[d] = peer[d]
  BY Untouched DEF IInv, vars, sockVars
<1>2. Undecided(d)' = Undecided(d)
  BY <1>1 DEF Undecided
<1>3. QED
  BY <1>1, <1>2 DEF WaitInv, StreamInv

LEMMA OtherFiles ==
    ASSUME ClientTypeOK, NEW c \in Conns, ClientNext(c), NEW d \in Conns \ {c}
    PROVE  file'[d] = file[d]
<1>1. CASE EditFile(c)
  BY <1>1 DEF EditFile, ClientTypeOK
<1>2. CASE file' = file
  BY <1>2
<1>3. QED
  BY <1>1, <1>2
     DEF ClientNext, ClientStep, OpenFile, Dial, SendData, SendEnd, WritePiece,
         WriteFails, WriteTimesOut, ReadPiece, ReadEnds, ReadTimesOut, NoAck, Farewell,
         Leave, Kill, Quit, Become, clientVars

LEMMA DataStep ==
    ASSUME ClientSpeech, IInv, TransferInv, DataInv, [TransferNext]_transferVars
    PROVE  DataInv'
<1>1. CASE UNCHANGED transferVars
  <2>1. UNCHANGED <<vars, client, file>>
    BY <1>1 DEF transferVars, clientVars
  <2>2. ASSUME NEW c \in Conns
        PROVE  WaitInv(c)' /\ StreamInv(c)'
    BY <2>1 DEF vars, sockVars, DataInv, WaitInv, StreamInv, Undecided
  <2>3. QED
    BY <2>2 DEF DataInv
<1>2. ASSUME NEW c \in Conns, ClientNext(c), UNCHANGED sessionVars
      PROVE  DataInv'
  <2>1. Peer(c) \/ UNCHANGED vars
    BY <1>2, ClientIsPeer
  <2>2. WaitInv(c)' /\ StreamInv(c)'
    BY <1>2, ClientWaits, ClientLosesNothing DEF DataInv
  <2>3. \A d \in Conns \ {c} : client'[d] = client[d] /\ file'[d] = file[d]
    BY <1>2, ClientKeeps, OtherFiles DEF TransferInv
  <2>4. \A d \in Conns \ {c} : WaitInv(d)' /\ StreamInv(d)'
    BY <1>2, <2>1, <2>3, OtherData DEF DataInv
  <2>5. QED
    BY <2>2, <2>4 DEF DataInv
<1>3. ASSUME NEW c \in Conns, SessionStep(c), UNCHANGED clientVars
      PROVE  DataInv'
  <2>1. client' = client /\ file' = file
    BY <1>3 DEF clientVars
  <2>2. WaitInv(c)' /\ StreamInv(c)'
    BY <1>3, SessionWaits, SessionLosesNothing DEF DataInv
  <2>3. \A d \in Conns \ {c} : WaitInv(d)' /\ StreamInv(d)'
    BY <1>3, <2>1, OtherData DEF DataInv
  <2>4. QED
    BY <2>2, <2>3 DEF DataInv
<1>4. QED
  BY <1>1, <1>2, <1>3 DEF TransferNext

LEMMA DataStart ==
    ASSUME TransferInit
    PROVE  DataInv
<1>1. ASSUME NEW c \in Conns
      PROVE  WaitInv(c) /\ StreamInv(c)
  <2>1. /\ client[c].pc = "open" /\ client[c].sent = <<>> /\ client[c].out = <<>>
        /\ client[c].exit = Running /\ client[c].size = 0
        /\ peer[c] = "none" /\ up[c] = <<>> /\ upEnd[c] = "open" /\ stored[c] = <<>>
        /\ sess[c] = NewSession
    BY DEF TransferInit, Init, SocketInit, ClientInit, NewClient
  <2>2. client[c] \in ClientType /\ file[c].bytes \in Seq(Bytes)
    BY TransferStart, ClientAssumption DEF TransferInv, ClientTypeOK
  <2>3. WaitInv(c)
    BY <2>1 DEF WaitInv
  <2>4. NothingLost(client[c], sess[c], up[c])
    BY <2>1, <2>2, LostNotFresh
  <2>5. FileInv(client[c], file[c])
    <3>1. Len(<<>>) <= Len(file[c].bytes) /\ SubSeq(file[c].bytes, 1, Len(<<>>)) = <<>>
      BY <2>2
    <3>2. QED
      BY <2>1, <3>1 DEF FileInv
  <2>6. QED
    BY <2>1, <2>3, <2>4, <2>5 DEF StreamInv
<1>2. QED
  BY <1>1 DEF DataInv

THEOREM DataInductive ==
    ASSUME ClientSpeech
    PROVE  TransferSpec => []DataInv
<1>1. TransferInit => DataInv
  BY DataStart
<1>2. IInv /\ TransferInv /\ DataInv /\ [TransferNext]_transferVars => DataInv'
  BY DataStep
<1>3. TransferSpec => Spec /\ []TransferInv
  BY TransferImplementsSession
<1>4. Spec => []IInv
  BY Inductive
<1>5. QED
  BY <1>1, <1>2, <1>3, <1>4, PTL DEF TransferSpec

\* What the server stores is what the client has read, as many bytes as it
\* announced, and the file itself if nobody wrote to it meanwhile.
THEOREM SentIsStored ==
    ASSUME ClientSpeech
    PROVE  TransferSpec => []StoredAsSent
<1>1. TransferInv /\ DataInv => StoredAsSent
  <2> SUFFICES ASSUME TransferInv, DataInv, NEW c \in Conns, stored[c] # <<>>
               PROVE  /\ stored[c] = <<client[c].sent>>
                      /\ Len(client[c].sent) = client[c].size
                      /\ ~file[c].changed => client[c].sent = file[c].bytes
    BY DEF StoredAsSent
  <2>1. stored[c] = <<client[c].sent>> /\ Len(client[c].sent) = client[c].size
    BY DEF DataInv, StreamInv
  <2>2. client[c].pc # "open" /\ client[c].exit # 2
    BY DEF TransferInv, PairInv, EndSent, Running, Killed
  <2>3. ~file[c].changed => client[c].sent = file[c].bytes
    <3>1. file[c].bytes \in Seq(Bytes)
      BY ClientAssumption DEF TransferInv, ClientTypeOK
    <3>2. SubSeq(file[c].bytes, 1, Len(file[c].bytes)) = file[c].bytes
      BY <3>1, SubSeqFull
    <3>3. QED
      BY <2>1, <2>2, <3>2 DEF DataInv, StreamInv, FileInv
  <2>4. QED
    BY <2>1, <2>3
<1>2. QED
  BY <1>1, DataInductive, TransferImplementsSession, PTL

\* handle never gives up a session whose client still works on it.
THEOREM WaitsForClient ==
    ASSUME ClientSpeech
    PROVE  TransferSpec => []ServerWaitsForClient
<1>1. IInv /\ DataInv => ServerWaitsForClient
  <2> SUFFICES ASSUME IInv, DataInv, NEW c \in Conns, At(c, "drop"),
                      client[c].exit = Running
               PROVE  FALSE
    BY DEF ServerWaitsForClient
  <2>1. peer[c] = "none" \/ peer[c] = "open"
    BY DEF DataInv, WaitInv, IInv, TypeOK, SocketTypeOK
  <2>2. peer[c] = "open" => upEnd[c] = "fin"
    BY DEF IInv, ConnInv, GraceInv
  <2>3. upEnd[c] = "open" /\ link[c] = "open"
    BY DEF DataInv, WaitInv, At
  <2>4. QED
    BY <2>1, <2>2, <2>3 DEF IInv, ConnInv, GraceInv
<1>2. QED
  BY <1>1, DataInductive, TransferImplementsSession, Inductive, PTL
=============================================================================
