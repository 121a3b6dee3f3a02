--------------------------- MODULE MessagesProofs ---------------------------
(***************************************************************************)
(* Proofs about modules FrameParser and Messages.  The parser hands out    *)
(* the frames of the stream and keeps its buffer bounded, for every        *)
(* stream, every CRC function and every way of cutting the stream into     *)
(* reads.  Whatever the peer says and wherever one cell is altered, the    *)
(* caller gets what was said up to the first frame that cannot be taken,   *)
(* all of it and nothing else.                                             *)
(***************************************************************************)
EXTENDS Messages, SequenceTheorems, FiniteSetTheorems, TLAPS

FrameRecord == [type : Nat, payload : Seq(Nat), at : Nat]

ParserType ==
    /\ wire \in Seq(Nat) /\ fed \in 0..Len(wire)
    /\ m_buf \in Seq(Nat) /\ m_pos \in 0..Len(m_buf)
    /\ caller \in {"read", "next", "use", "broken"}
    /\ frame \in [type : Nat, data : Nat, size : Nat]
    /\ frames \in Seq(FrameRecord)

\* The buffer is the last part of what has been read.
Window ==
    /\ Len(m_buf) <= fed
    /\ \A i \in 1..Len(m_buf) : m_buf[i] = wire[fed - Len(m_buf) + i]

\* Where the unread part of the buffer begins in the stream, a frame ends.
InStep ==
    IF caller = "use"
    THEN /\ frame.data >= HEADER_SIZE
         /\ frame.data + frame.size + TRAILER_SIZE = m_pos
         /\ HoldsFrame(InUse) /\ InUse.at = EndOf(Len(frames))
    ELSE fed - Len(m_buf) + m_pos = EndOf(Len(frames))

ParserInv ==
    /\ ParserType /\ Window /\ InStep
    /\ caller = "read" => avail < FrameSize(MAX_PAYLOAD)
    /\ BufferBounded /\ DecodesStream

-----------------------------------------------------------------------------
\* n elements of a sequence.
LEMMA PartOf ==
    ASSUME NEW s \in Seq(Nat), NEW from \in Nat, NEW n \in Nat, from + n <= Len(s)
    PROVE  /\ SubSeq(s, from + 1, from + n) \in Seq(Nat)
           /\ Len(SubSeq(s, from + 1, from + n)) = n
           /\ \A i \in 1..n : SubSeq(s, from + 1, from + n)[i] = s[from + i]
<1>1. \A i \in (from + 1)..(from + n) : s[i] \in Nat
  BY ElementOfSeq
<1>2. from + 1 \in Int /\ from + n \in Int
  OBVIOUS
<1>3. /\ SubSeq(s, from + 1, from + n) \in Seq(Nat)
      /\ Len(SubSeq(s, from + 1, from + n))
           = IF from + 1 <= from + n THEN (from + n) - (from + 1) + 1 ELSE 0
      /\ \A i \in 1..((from + n) - (from + 1) + 1) :
           SubSeq(s, from + 1, from + n)[i] = s[(from + 1) + i - 1]
  BY <1>1, <1>2, SubSeqProperties
<1>4. QED
  BY <1>3

LEMMA Start == Init => ParserInv
<1> SUFFICES ASSUME Init PROVE ParserInv
  OBVIOUS
<1>1. ParserType
  <2>1. Len(wire) \in Nat /\ <<>> \in Seq(FrameRecord) /\ <<>> \in Seq(Nat)
    BY DEF Init
  <2>2. QED
    BY <2>1 DEF Init, ParserType
<1>2. Len(m_buf) = 0 /\ Len(frames) = 0
  BY DEF Init
<1>3. Window /\ InStep
  <2>1. fed = 0 /\ m_pos = 0 /\ caller = "read"
    BY DEF Init
  <2>2. Window
    BY <1>2, <2>1 DEF Window
  <2>3. fed - Len(m_buf) + m_pos = 0 /\ EndOf(Len(frames)) = 0
    BY <1>2, <2>1 DEF EndOf
  <2>4. QED
    BY <2>1, <2>2, <2>3 DEF InStep
<1>4. avail < FrameSize(MAX_PAYLOAD) /\ BufferBounded /\ DecodesStream
  BY <1>2, ParserAssumption
     DEF Init, avail, FrameSize, HEADER_SIZE, TRAILER_SIZE, BufferBounded, DecodesStream
<1>5. QED
  BY <1>1, <1>3, <1>4 DEF ParserInv

LEMMA HeaderCells ==
    ASSUME ParserInv, avail >= HEADER_SIZE
    PROVE  /\ h(1) \in Nat /\ h(2) \in Nat /\ h(3) \in Nat /\ h(4) \in Nat
           /\ len \in Nat /\ avail \in Nat /\ Len(m_buf) \in Nat /\ m_pos \in Nat
           /\ m_pos <= Len(m_buf) /\ fed \in Nat /\ Len(m_buf) <= fed
<1>1. /\ m_buf \in Seq(Nat) /\ Len(m_buf) \in Nat /\ m_pos \in 0..Len(m_buf)
      /\ m_pos + 4 <= Len(m_buf) /\ fed \in Nat /\ Len(m_buf) <= fed
  BY DEF ParserInv, ParserType, avail, HEADER_SIZE, Window
<1>2. \A i \in 1..4 : m_pos + i \in 1..Len(m_buf)
  BY <1>1
<1>3. \A i \in 1..4 : h(i) \in Nat
  BY <1>1, <1>2, ElementOfSeq DEF h
<1>4. QED
  BY <1>1, <1>3 DEF len, avail

\* Frames already handed out stay where they are in the stream.
LEMMA OldFrames ==
    ASSUME ParserInv, UNCHANGED <<wire, frames>>, fed' \in Nat, fed <= fed'
    PROVE  /\ DecodesStream'
           /\ \A k \in Nat : EndOf(k)' = EndOf(k)
<1>1. \A k \in 1..Len(frames) : frames[k] \in FrameRecord
  BY DEF ParserInv, ParserType
<1>2. \A f \in FrameRecord : HoldsFrame(f) => HoldsFrame(f)'
  BY DEF HoldsFrame, FrameSize, HEADER_SIZE, TRAILER_SIZE, FrameRecord, ParserInv,
         ParserType
<1>3. \A k \in Nat : EndOf(k)' = EndOf(k)
  BY DEF EndOf
<1>4. \A k \in 1..Len(frames) : HoldsFrame(frames[k]) /\ frames[k].at = EndOf(k - 1)
  BY DEF ParserInv, DecodesStream
<1>5. ASSUME NEW k \in 1..Len(frames)
      PROVE  HoldsFrame(frames[k])' /\ frames'[k].at = EndOf(k - 1)'
  BY <1>1, <1>2, <1>3, <1>4 DEF HoldsFrame
<1>6. QED
  BY <1>3, <1>5 DEF DecodesStream

LEMMA ReadKeeps ==
    ASSUME ParserInv, NEW n \in 1..ReadMax, Read(n)
    PROVE  ParserInv'
<1> DEFINE left == SubSeq(m_buf, m_pos + 1, Len(m_buf))
           more == SubSeq(wire, fed + 1, fed + n)
<1>1. /\ ParserType /\ n \in Nat /\ ReadMax \in Nat /\ MAX_PAYLOAD \in Nat
      /\ fed + n <= Len(wire) /\ caller = "read"
  BY ParserAssumption DEF Read, ParserInv
<1>2. /\ left \in Seq(Nat) /\ Len(left) = avail /\ avail \in Nat
      /\ \A i \in 1..avail : left[i] = m_buf[m_pos + i]
  <2>1. m_buf \in Seq(Nat) /\ m_pos \in Nat /\ avail \in Nat /\ m_pos + avail = Len(m_buf)
    BY <1>1 DEF ParserType, avail
  <2>2. QED
    BY <2>1, PartOf
<1>3. /\ more \in Seq(Nat) /\ Len(more) = n
      /\ \A i \in 1..n : more[i] = wire[fed + i]
  <2>1. wire \in Seq(Nat) /\ fed \in Nat
    BY <1>1 DEF ParserType
  <2>2. QED
    BY <1>1, <2>1, PartOf
<1>4. /\ m_buf' = left \o more /\ m_pos' = 0 /\ fed' = fed + n /\ caller' = "next"
      /\ UNCHANGED <<wire, frame, frames>>
  BY DEF Read, compact
<1>5. /\ m_buf' \in Seq(Nat) /\ Len(m_buf') = avail + n
      /\ \A i \in 1..(avail + n) :
           m_buf'[i] = IF i <= avail THEN left[i] ELSE more[i - avail]
  <2>1. /\ left \o more \in Seq(Nat) /\ Len(left \o more) = Len(left) + Len(more)
        /\ \A i \in 1..(Len(left) + Len(more)) :
             (left \o more)[i] = IF i <= Len(left) THEN left[i] ELSE more[i - Len(left)]
    BY <1>2, <1>3, ConcatProperties
  <2>2. QED
    BY <1>2, <1>3, <1>4, <2>1
<1> HIDE DEF left, more
<1>6. ParserType'
  BY <1>1, <1>2, <1>4, <1>5 DEF ParserType
<1>7. Window'
  <2>1. Len(m_buf') <= fed'
    BY <1>1, <1>4, <1>5 DEF ParserInv, Window, avail, ParserType
  <2>2. ASSUME NEW i \in 1..Len(m_buf')
        PROVE  m_buf'[i] = wire[fed' - Len(m_buf') + i]
    <3>1. CASE i <= avail
      <4>1. m_buf'[i] = m_buf[m_pos + i]
        BY <1>2, <1>5, <3>1
      <4>2. m_pos + i \in 1..Len(m_buf)
        BY <1>1, <3>1 DEF avail, ParserType
      <4>3. m_buf[m_pos + i] = wire[fed - Len(m_buf) + (m_pos + i)]
        BY <4>2 DEF ParserInv, Window
      <4>4. fed - Len(m_buf) + (m_pos + i) = fed' - Len(m_buf') + i
        <5>1. /\ fed \in Nat /\ Len(m_buf) \in Nat /\ m_pos \in Nat /\ i \in Nat
              /\ fed' = fed + n /\ Len(m_buf') = Len(m_buf) - m_pos + n
          BY <1>1, <1>2, <1>4, <1>5 DEF avail, ParserType
        <5>2. QED
          BY <1>1, <5>1
      <4>5. QED
        BY <4>1, <4>3, <4>4
    <3>2. CASE i > avail
      <4>1. i - avail \in 1..n
        BY <1>2, <1>5, <3>2
      <4>2. m_buf'[i] = more[i - avail]
        BY <1>2, <1>5, <3>2
      <4>3. more[i - avail] = wire[fed + (i - avail)]
        BY <1>3, <4>1
      <4>4. fed + (i - avail) = fed' - Len(m_buf') + i
        <5>1. /\ fed \in Nat /\ avail \in Nat /\ n \in Nat /\ i \in Nat
              /\ fed' = fed + n /\ Len(m_buf') = avail + n
          BY <1>1, <1>2, <1>4, <1>5 DEF ParserType
        <5>2. QED
          BY <5>1
      <4>5. QED
        BY <4>2, <4>3, <4>4
    <3>3. QED
      BY <1>2, <3>1, <3>2
  <2>3. QED
    BY <1>4, <2>1, <2>2 DEF Window
<1>8. DecodesStream' /\ EndOf(Len(frames))' = EndOf(Len(frames))
  BY <1>1, <1>4, OldFrames DEF ParserType
<1>9. InStep'
  <2>1. fed - Len(m_buf) + m_pos = EndOf(Len(frames))
    BY <1>1 DEF ParserInv, InStep
  <2>2. fed' - Len(m_buf') + m_pos' = EndOf(Len(frames))
    BY <1>1, <1>4, <1>5, <2>1 DEF avail, ParserType
  <2>3. QED
    BY <1>4, <1>8, <2>2 DEF InStep
<1>10. BufferBounded'
  BY <1>1, <1>2, <1>5
     DEF ParserInv, BufferBounded, FrameSize, HEADER_SIZE, TRAILER_SIZE
<1>11. QED
  BY <1>4, <1>6, <1>7, <1>8, <1>9, <1>10 DEF ParserInv

LEMMA WaitKeeps ==
    ASSUME ParserInv, NeedMore \/ Error
    PROVE  ParserInv'
<1>1. /\ UNCHANGED <<wire, fed, m_buf, m_pos, frame, frames>>
      /\ caller = "next" /\ caller' \in {"read", "broken"}
  BY DEF NeedMore, Error
<1>2. caller' = "read" => avail < FrameSize(MAX_PAYLOAD)
  <2>1. CASE avail < HEADER_SIZE
    BY <2>1, ParserAssumption
       DEF FrameSize, HEADER_SIZE, TRAILER_SIZE, avail, ParserInv, ParserType
  <2>2. CASE ~(avail < HEADER_SIZE)
    <3>1. avail \in Nat /\ avail >= HEADER_SIZE /\ len \in Nat
      <4>1. avail \in Int
        BY DEF ParserInv, ParserType, avail
      <4>2. avail >= HEADER_SIZE
        BY <2>2, <4>1 DEF HEADER_SIZE
      <4>3. QED
        BY <4>2, HeaderCells
    <3>2. caller' = "read" => len <= MAX_PAYLOAD /\ avail < FrameSize(len)
      BY <3>1 DEF NeedMore, Error, HeaderRight, HasFrame, FrameSize, HEADER_SIZE,
                  TRAILER_SIZE
    <3>3. QED
      BY <3>1, <3>2, ParserAssumption DEF FrameSize, HEADER_SIZE, TRAILER_SIZE
  <2>3. QED
    BY <2>1, <2>2
<1>3. DecodesStream' /\ EndOf(Len(frames))' = EndOf(Len(frames))
  BY <1>1, OldFrames DEF ParserInv, ParserType
<1>4. QED
  BY <1>1, <1>2, <1>3 DEF ParserInv, ParserType, Window, InStep, BufferBounded, avail

LEMMA ReadyKeeps ==
    ASSUME ParserInv, Ready
    PROVE  ParserInv'
<1> DEFINE from == fed - Len(m_buf) + m_pos
           f == InUse'
<1>1. /\ UNCHANGED <<wire, fed, m_buf, frames>> /\ caller = "next" /\ caller' = "use"
      /\ frame' = [type |-> h(2), data |-> m_pos + HEADER_SIZE, size |-> len]
      /\ m_pos' = m_pos + FrameSize(len)
      /\ avail >= HEADER_SIZE /\ avail >= FrameSize(len) /\ len <= MAX_PAYLOAD
      /\ h(1) = MAGIC /\ h(2) \in Type
      /\ h(4) = Crc(<<h(1), h(2), h(3)>>) /\ h(5 + len) = Crc(payload)
  <2>1. HEADER_SIZE + len + 1 = 5 + len
    <3>1. len \in Nat
      BY HeaderCells DEF Ready
    <3>2. QED
      BY <3>1 DEF HEADER_SIZE
  <2>2. QED
    BY <2>1 DEF Ready, HeaderRight, HeaderCrcRight, HasFrame, PayloadCrcRight,
                HEADER_CRC_SPAN
<1>2. /\ ParserType /\ len \in Nat /\ h(1) \in Nat /\ h(2) \in Nat
      /\ m_pos + FrameSize(len) <= Len(m_buf) /\ from \in Nat
  <2>1. /\ ParserType /\ len \in Nat /\ h(1) \in Nat /\ h(2) \in Nat
        /\ avail \in Nat /\ Len(m_buf) \in Nat /\ m_pos \in Nat
        /\ fed \in Nat /\ Len(m_buf) <= fed
    BY <1>1, HeaderCells DEF ParserInv
  <2>2. QED
    BY <1>1, <2>1 DEF avail, HEADER_SIZE, TRAILER_SIZE, FrameSize
<1>3. \A i \in 1..(5 + len) : m_buf[m_pos + i] = wire[from + i]
  <2> SUFFICES ASSUME NEW i \in 1..(5 + len)
               PROVE  m_buf[m_pos + i] = wire[from + i]
    OBVIOUS
  <2>1. m_pos + i \in 1..Len(m_buf)
    BY <1>2 DEF FrameSize, HEADER_SIZE, TRAILER_SIZE, ParserType
  <2>2. m_buf[m_pos + i] = wire[fed - Len(m_buf) + (m_pos + i)]
    BY <2>1 DEF ParserInv, Window
  <2>3. fed - Len(m_buf) + (m_pos + i) = from + i
    BY <1>2 DEF ParserType
  <2>4. QED
    BY <2>2, <2>3
<1>4. f = [type |-> h(2), payload |-> payload, at |-> from]
  <2>1. /\ frame'.type = h(2) /\ frame'.data = m_pos + HEADER_SIZE /\ frame'.size = len
    BY <1>1
  <2>2. /\ frame'.data + 1 = m_pos + HEADER_SIZE + 1
        /\ frame'.data + frame'.size = m_pos + HEADER_SIZE + len
        /\ fed' - Len(m_buf') + frame'.data - HEADER_SIZE = from
    BY <1>1, <1>2, <2>1 DEF HEADER_SIZE, ParserType
  <2>3. QED
    BY <1>1, <2>1, <2>2 DEF InUse, payload
<1>5. /\ payload \in Seq(Nat) /\ Len(payload) = len
      /\ \A i \in 1..len : payload[i] = m_buf[m_pos + 4 + i]
  <2>1. /\ m_pos + 4 \in Nat /\ m_pos + 4 + len <= Len(m_buf) /\ m_buf \in Seq(Nat)
        /\ payload = SubSeq(m_buf, (m_pos + 4) + 1, (m_pos + 4) + len)
    BY <1>2 DEF payload, HEADER_SIZE, TRAILER_SIZE, FrameSize, ParserType
  <2>2. /\ SubSeq(m_buf, (m_pos + 4) + 1, (m_pos + 4) + len) \in Seq(Nat)
        /\ Len(SubSeq(m_buf, (m_pos + 4) + 1, (m_pos + 4) + len)) = len
        /\ \A i \in 1..len :
             SubSeq(m_buf, (m_pos + 4) + 1, (m_pos + 4) + len)[i] = m_buf[(m_pos + 4) + i]
    BY <1>2, <2>1, PartOf
  <2>3. QED
    BY <2>1, <2>2
<1>6. HoldsFrame(InUse)'
  <2>1. /\ from + FrameSize(len) <= fed
    BY <1>2 DEF FrameSize, HEADER_SIZE, TRAILER_SIZE, ParserType
  <2>2. /\ wire[from + 1] = h(1) /\ wire[from + 2] = h(2) /\ wire[from + 3] = h(3)
        /\ wire[from + 4] = h(4) /\ wire[from + 5 + len] = h(5 + len)
    <3>1. /\ 1 \in 1..(5 + len) /\ 2 \in 1..(5 + len) /\ 3 \in 1..(5 + len)
          /\ 4 \in 1..(5 + len) /\ 5 + len \in 1..(5 + len)
      BY <1>2
    <3>2. from + (5 + len) = from + 5 + len
      BY <1>2
    <3>3. QED
      BY <1>3, <3>1, <3>2 DEF h
  <2>3. \A i \in 1..len : wire[from + 4 + i] = payload[i]
    <3> SUFFICES ASSUME NEW i \in 1..len
                 PROVE  wire[from + 4 + i] = payload[i]
      OBVIOUS
    <3>1. 4 + i \in 1..(5 + len) /\ m_pos + (4 + i) = m_pos + 4 + i
            /\ from + (4 + i) = from + 4 + i
      BY <1>2 DEF ParserType
    <3>2. QED
      BY <1>3, <1>5, <3>1
  <2>4. h(3) = len
    BY DEF len
  <2> DEFINE g == [type |-> h(2), payload |-> payload, at |-> from]
  <2>5. HoldsFrame(g)
    BY <1>1, <1>5, <2>1, <2>2, <2>3, <2>4 DEF HoldsFrame
  <2>6. InUse'.type = g.type /\ InUse'.payload = g.payload /\ InUse'.at = g.at
    BY <1>4
  <2>7. HoldsFrame(InUse)' = HoldsFrame(g)
    BY <1>1, <2>6 DEF HoldsFrame
  <2>8. QED
    BY <2>5, <2>7
<1>7. DecodesStream' /\ EndOf(Len(frames))' = EndOf(Len(frames))
  BY <1>1, <1>2, OldFrames DEF ParserType
<1>8. ParserType'
  BY <1>1, <1>2 DEF ParserType, HEADER_SIZE, FrameSize, TRAILER_SIZE
<1>9. InStep'
  <2>1. frame'.data >= HEADER_SIZE /\ frame'.data + frame'.size + TRAILER_SIZE = m_pos'
    BY <1>1, <1>2 DEF ParserType, HEADER_SIZE, FrameSize, TRAILER_SIZE
  <2>2. f.at = EndOf(Len(frames))'
    BY <1>1, <1>4, <1>7 DEF ParserInv, InStep
  <2>3. QED
    BY <1>1, <1>6, <2>1, <2>2 DEF InStep
<1>10. QED
  BY <1>1, <1>7, <1>8, <1>9 DEF ParserInv, Window, BufferBounded

LEMMA UseKeeps ==
    ASSUME ParserInv, Use
    PROVE  ParserInv'
<1>1. /\ UNCHANGED <<wire, fed, m_buf, m_pos, frame>> /\ caller = "use"
      /\ caller' = "next" /\ frames' = Append(frames, InUse)
  BY DEF Use
<1>2. /\ ParserType /\ HoldsFrame(InUse) /\ InUse.at = EndOf(Len(frames))
      /\ frame.data >= HEADER_SIZE /\ frame.data + frame.size + TRAILER_SIZE = m_pos
  BY <1>1 DEF ParserInv, InStep
<1>3. Len(InUse.payload) = frame.size /\ InUse \in FrameRecord
  <2>1. /\ frame.data \in Nat /\ frame.size \in Nat /\ frame.type \in Nat
        /\ frame.data + frame.size <= Len(m_buf) /\ Len(m_buf) <= fed
        /\ m_buf \in Seq(Nat) /\ fed \in Nat
    BY <1>2 DEF ParserType, TRAILER_SIZE, ParserInv, Window
  <2> DEFINE cells == SubSeq(m_buf, frame.data + 1, frame.data + frame.size)
  <2>2. cells \in Seq(Nat) /\ Len(cells) = frame.size
    BY <2>1, PartOf
  <2>3. fed - Len(m_buf) + frame.data - HEADER_SIZE \in Nat
    BY <1>2, <2>1 DEF HEADER_SIZE
  <2>4. QED
    BY <2>1, <2>2, <2>3 DEF InUse, FrameRecord
<1>4. /\ frames \in Seq(FrameRecord) /\ frames' \in Seq(FrameRecord)
      /\ Len(frames') = Len(frames) + 1
      /\ frames'[Len(frames')] = InUse
      /\ \A k \in 1..Len(frames) : frames'[k] = frames[k]
  BY <1>1, <1>2, <1>3 DEF ParserType
<1>5. \A k \in 0..Len(frames) : EndOf(k)' = EndOf(k)
  BY <1>4 DEF EndOf
<1>6. DecodesStream'
  <2> SUFFICES ASSUME NEW k \in 1..Len(frames')
               PROVE  HoldsFrame(frames[k])' /\ frames'[k].at = EndOf(k - 1)'
    BY DEF DecodesStream
  <2>1. k - 1 \in 0..Len(frames) /\ (k \in 1..Len(frames) \/ k = Len(frames'))
    BY <1>4
  <2>2. HoldsFrame(frames'[k]) /\ frames'[k].at = EndOf(k - 1)
    <3>1. CASE k \in 1..Len(frames)
      BY <1>4, <3>1 DEF ParserInv, DecodesStream
    <3>2. CASE k = Len(frames')
      BY <1>2, <1>4, <3>2
    <3>3. QED
      BY <2>1, <3>1, <3>2
  <2>3. QED
    BY <1>1, <1>5, <2>1, <2>2 DEF HoldsFrame
<1>7. InStep'
  <2>1. EndOf(Len(frames))' = InUse.at + FrameSize(frame.size)
    BY <1>3, <1>4 DEF EndOf
  <2>2. InUse.at = fed - Len(m_buf) + frame.data - HEADER_SIZE
    BY DEF InUse
  <2>3. fed - Len(m_buf) + m_pos = InUse.at + FrameSize(frame.size)
    <3>1. /\ fed \in Nat /\ Len(m_buf) \in Nat /\ m_pos \in Nat
          /\ frame.data \in Nat /\ frame.size \in Nat
      BY <1>2 DEF ParserType
    <3>2. m_pos = frame.data + frame.size + 1
      BY <1>2 DEF TRAILER_SIZE
    <3>3. InUse.at = fed - Len(m_buf) + frame.data - 4
      BY <2>2 DEF HEADER_SIZE
    <3>4. FrameSize(frame.size) = 4 + frame.size + 1
      BY DEF FrameSize, HEADER_SIZE, TRAILER_SIZE
    <3>5. fed - Len(m_buf) + (frame.data + frame.size + 1)
            = (fed - Len(m_buf) + frame.data - 4) + (4 + frame.size + 1)
      BY <3>1
    <3>6. QED
      BY <3>2, <3>3, <3>4, <3>5, Zenon
  <2>4. QED
    BY <1>1, <2>1, <2>3 DEF InStep
<1>8. QED
  BY <1>1, <1>4, <1>6, <1>7 DEF ParserInv, ParserType, Window, BufferBounded

LEMMA ParserStep == ParserInv /\ [Next]_parserVars => ParserInv'
<1> SUFFICES ASSUME ParserInv, [Next]_parserVars
             PROVE  ParserInv'
  OBVIOUS
<1>1. CASE UNCHANGED parserVars
  BY <1>1 DEF parserVars, ParserInv, ParserType, Window, InStep, avail, BufferBounded,
              DecodesStream, HoldsFrame, EndOf, InUse
<1>2. CASE Next
  BY <1>2, ReadKeeps, WaitKeeps, ReadyKeeps, UseKeeps DEF Next, next
<1>3. QED
  BY <1>1, <1>2

\* However a stream is cut into reads, whatever it holds and whatever the CRC
\* function, the caller gets the frames that stand in it, in their order (feed,
\* compact, next).
THEOREM ParserDecodes == Spec => []DecodesStream
<1>1. ParserInv => DecodesStream
  BY DEF ParserInv
<1>2. QED
  BY <1>1, Start, ParserStep, PTL DEF Spec

\* For every limit on the payload and every size of read, the buffer never holds
\* more than one frame and one read.
THEOREM ParserIsBounded == Spec => []BufferBounded
<1>1. ParserInv => BufferBounded
  BY DEF ParserInv
<1>2. QED
  BY <1>1, Start, ParserStep, PTL DEF Spec

-----------------------------------------------------------------------------
\* Where the caller stands when it asks for the next frame, in the buffer and in
\* the stream.
LEMMA Standing ==
    ASSUME ParserInv, caller = "next"
    PROVE  /\ EndOf(Len(frames)) = fed - Len(m_buf) + m_pos
           /\ EndOf(Len(frames)) \in Nat /\ avail \in Nat
           /\ fed = EndOf(Len(frames)) + avail
           /\ \A i \in 1..avail : h(i) = wire[EndOf(Len(frames)) + i]
<1>1. /\ Len(m_buf) \in Nat /\ m_pos \in Nat /\ m_pos <= Len(m_buf) /\ fed \in Nat
      /\ Len(m_buf) <= fed
      /\ EndOf(Len(frames)) = fed - Len(m_buf) + m_pos
  BY DEF ParserInv, ParserType, Window, InStep
<1>2. avail \in Nat /\ avail = Len(m_buf) - m_pos
  BY <1>1 DEF avail
<1>3. ASSUME NEW i \in 1..avail
      PROVE  h(i) = wire[EndOf(Len(frames)) + i]
  <2>1. m_pos + i \in 1..Len(m_buf)
    BY <1>1, <1>2
  <2>2. m_buf[m_pos + i] = wire[fed - Len(m_buf) + (m_pos + i)]
    BY <2>1 DEF ParserInv, Window
  <2>3. fed - Len(m_buf) + (m_pos + i) = EndOf(Len(frames)) + i
    BY <1>1, <1>2
  <2>4. QED
    BY <2>2, <2>3 DEF h
<1>4. QED
  BY <1>1, <1>2, <1>3

\* next reads the header that stands in the stream.
LEMMA HeaderSeen ==
    ASSUME ParserInv, caller = "next", avail >= HEADER_SIZE
    PROVE  /\ HeaderRight <=> HeaderStands(EndOf(Len(frames)))
           /\ len = wire[EndOf(Len(frames)) + 3] /\ len \in Nat
<1> DEFINE a == EndOf(Len(frames))
<1>1. /\ 1 \in 1..avail /\ 2 \in 1..avail /\ 3 \in 1..avail /\ 4 \in 1..avail
  BY Standing DEF HEADER_SIZE
<1>2. /\ h(1) = wire[a + 1] /\ h(2) = wire[a + 2] /\ h(3) = wire[a + 3]
      /\ h(4) = wire[a + 4]
  BY <1>1, Standing
<1>3. len \in Nat
  BY HeaderCells
<1>4. HEADER_CRC_SPAN + 1 = 4
  BY DEF HEADER_CRC_SPAN
<1>5. QED
  BY <1>2, <1>3, <1>4 DEF HeaderRight, HeaderCrcRight, HeaderStands, len

\* A frame that stands there as a whole passes the checks next makes of it.
LEMMA FrameSeen ==
    ASSUME ParserInv, caller = "next", avail >= HEADER_SIZE, HasFrame,
           HoldsFrame(FrameAt(EndOf(Len(frames))))
    PROVE  PayloadCrcRight /\ h(2) \in Type
<1> DEFINE a == EndOf(Len(frames))
           cells == SubSeq(wire, a + 5, a + 4 + len)
<1>0. wire \in Seq(Nat) /\ m_buf \in Seq(Nat) /\ len = wire[a + 3]
  BY HeaderSeen DEF ParserInv, ParserType
<1>1. /\ a \in Nat /\ avail \in Nat /\ len \in Nat /\ fed = a + avail
      /\ 5 + len <= avail
      /\ m_pos \in Nat
      /\ m_pos + avail = Len(m_buf) /\ a + avail <= Len(wire)
      /\ Len(wire) \in Nat /\ Len(m_buf) \in Nat
  <2>1. /\ a \in Nat /\ avail \in Nat /\ len \in Nat /\ fed = a + avail
    BY Standing, HeaderSeen
  <2>2. avail >= 4 + len + 1
    BY DEF HasFrame, FrameSize, HEADER_SIZE, TRAILER_SIZE
  <2>3. m_pos \in 0..Len(m_buf) /\ fed \in 0..Len(wire)
    BY DEF ParserInv, ParserType
  <2>4. Len(wire) \in Nat /\ Len(m_buf) \in Nat
    BY <1>0
  <2>5. QED
    BY <2>1, <2>2, <2>3, <2>4 DEF avail
<1>2. /\ cells \in Seq(Nat) /\ Len(cells) = len
      /\ \A i \in 1..len : cells[i] = wire[a + 4 + i]
  <2>1. a + 4 \in Nat /\ (a + 4) + len <= Len(wire) /\ (a + 4) + 1 = a + 5
    BY <1>1
  <2>0. \A from, n \in Nat : from + n <= Len(wire) =>
            /\ SubSeq(wire, from + 1, from + n) \in Seq(Nat)
            /\ Len(SubSeq(wire, from + 1, from + n)) = n
            /\ \A i \in 1..n : SubSeq(wire, from + 1, from + n)[i] = wire[from + i]
    BY <1>0, PartOf
  <2>2. /\ SubSeq(wire, (a + 4) + 1, (a + 4) + len) \in Seq(Nat)
        /\ Len(SubSeq(wire, (a + 4) + 1, (a + 4) + len)) = len
        /\ \A i \in 1..len : SubSeq(wire, (a + 4) + 1, (a + 4) + len)[i] = wire[(a + 4) + i]
    BY <1>1, <2>0, <2>1, Zenon
  <2>3. \A i \in 1..len : a + 4 + i = (a + 4) + i
    BY <1>1
  <2>4. QED
    BY <2>1, <2>2, <2>3, Zenon
<1>3. /\ payload \in Seq(Nat) /\ Len(payload) = len
      /\ \A i \in 1..len : payload[i] = m_buf[m_pos + 4 + i]
  <2>1. m_pos + 4 \in Nat /\ (m_pos + 4) + len <= Len(m_buf)
    BY <1>1
  <2>2. /\ SubSeq(m_buf, (m_pos + 4) + 1, (m_pos + 4) + len) \in Seq(Nat)
        /\ Len(SubSeq(m_buf, (m_pos + 4) + 1, (m_pos + 4) + len)) = len
        /\ \A i \in 1..len :
             SubSeq(m_buf, (m_pos + 4) + 1, (m_pos + 4) + len)[i] = m_buf[(m_pos + 4) + i]
    BY <1>0, <1>1, <2>1, PartOf
  <2>3. QED
    BY <2>2 DEF payload, HEADER_SIZE
<1>4. \A i \in 1..len : payload[i] = cells[i]
  <2> SUFFICES ASSUME NEW i \in 1..len PROVE payload[i] = cells[i]
    OBVIOUS
  <2>1. 4 + i \in 1..avail
    BY <1>1
  <2>2. h(4 + i) = wire[a + (4 + i)]
    BY <2>1, Standing
  <2>3. m_pos + (4 + i) = m_pos + 4 + i /\ a + (4 + i) = a + 4 + i
    BY <1>1
  <2>4. QED
    BY <1>2, <1>3, <2>2, <2>3 DEF h
<1>5. payload = cells
  <2> HIDE DEF cells
  <2>1. DOMAIN payload = 1..len /\ DOMAIN cells = 1..len
    BY <1>2, <1>3
  <2>2. QED
    BY <1>2, <1>3, <1>4, <2>1
<1>6. /\ FrameAt(a).type = wire[a + 2] /\ FrameAt(a).payload = cells
      /\ FrameAt(a).at = a
  BY <1>0, <1>1 DEF FrameAt
<1>7. wire[a + 5 + len] = Crc(cells) /\ wire[a + 2] \in Type
  BY <1>2, <1>6 DEF HoldsFrame
<1>8. h(2) = wire[a + 2] /\ h(HEADER_SIZE + len + 1) = wire[a + 5 + len]
  <2>1. 2 \in 1..avail /\ 5 + len \in 1..avail
    BY <1>1
  <2>2. h(2) = wire[a + 2] /\ h(5 + len) = wire[a + (5 + len)]
    BY <2>1, Standing
  <2>3. HEADER_SIZE + len + 1 = 5 + len /\ a + (5 + len) = a + 5 + len
    BY <1>1 DEF HEADER_SIZE
  <2>4. QED
    BY <2>2, <2>3
<1>9. QED
  BY <1>5, <1>7, <1>8 DEF PayloadCrcRight

LEMMA VerdictGiven ==
    ASSUME ParserInv, NeedMore \/ Error
    PROVE  RightVerdict'
<1> DEFINE a == EndOf(Len(frames))
<1>1. /\ UNCHANGED <<wire, fed, m_buf, m_pos, frame, frames>> /\ caller = "next"
  BY DEF NeedMore, Error
<1>2. a \in Nat /\ avail \in Nat /\ fed = a + avail
  BY <1>1, Standing
<1>3. (EndOf(Len(frames)))' = a
  BY <1>1 DEF EndOf
<1>4. ASSUME caller' = "read"
      PROVE  fed < a + HEADER_SIZE \/ (HeaderStands(a) /\ fed < a + FrameSize(wire[a + 3]))
  <2>1. NeedMore
    BY <1>4 DEF Error
  <2>2. CASE avail < HEADER_SIZE
    BY <1>2, <2>2 DEF HEADER_SIZE
  <2>3. CASE avail >= HEADER_SIZE
    <3>1. HeaderRight /\ ~(avail >= FrameSize(len))
      BY <2>1, <2>3 DEF NeedMore, HasFrame
    <3>2. HeaderStands(a) /\ len = wire[a + 3] /\ len \in Nat
      BY <1>1, <2>3, <3>1, HeaderSeen
    <3>3. fed < a + FrameSize(len)
      BY <1>2, <3>1, <3>2 DEF FrameSize, HEADER_SIZE, TRAILER_SIZE
    <3>4. QED
      BY <3>2, <3>3
  <2>4. QED
    BY <1>2, <2>2, <2>3 DEF HEADER_SIZE
<1>5. ASSUME caller' = "broken"
      PROVE  /\ a + HEADER_SIZE <= fed
             /\ HeaderStands(a) =>
                  a + FrameSize(wire[a + 3]) <= fed /\ ~HoldsFrame(FrameAt(a))
  <2>1. Error
    BY <1>5 DEF NeedMore
  <2>2. /\ avail >= HEADER_SIZE
        /\ HeaderRight => HasFrame /\ ~(PayloadCrcRight /\ h(2) \in Type)
    BY <2>1 DEF Error
  <2>3. (HeaderRight <=> HeaderStands(a)) /\ len = wire[a + 3] /\ len \in Nat
    BY <1>1, <2>2, HeaderSeen
  <2>4. a + HEADER_SIZE <= fed
    BY <1>2, <2>2 DEF HEADER_SIZE
  <2>5. ASSUME HeaderStands(a)
        PROVE  a + FrameSize(wire[a + 3]) <= fed /\ ~HoldsFrame(FrameAt(a))
    <3>1. HasFrame /\ ~(PayloadCrcRight /\ h(2) \in Type)
      BY <2>2, <2>3, <2>5
    <3>2. ~HoldsFrame(FrameAt(a))
      BY <1>1, <2>2, <3>1, FrameSeen
    <3>3. a + FrameSize(len) <= fed
      BY <1>2, <2>3, <3>1 DEF HasFrame, FrameSize, HEADER_SIZE, TRAILER_SIZE
    <3>4. QED
      BY <2>3, <3>2, <3>3
  <2>6. QED
    BY <2>4, <2>5
<1>6. QED
  <2>1. \A b : HeaderStands(b)' = HeaderStands(b)
    BY <1>1 DEF HeaderStands
  <2>2. HoldsFrame(FrameAt(EndOf(Len(frames))))' = HoldsFrame(FrameAt(a))
    <3>1. \A b : HoldsFrame(FrameAt(b))' = HoldsFrame(FrameAt(b))
      BY <1>1 DEF HoldsFrame, FrameAt
    <3>2. QED
      BY <1>1, <1>3, <3>1
  <2>3. QED
    BY <1>1, <1>3, <1>4, <1>5, <2>1, <2>2 DEF RightVerdict

LEMMA VerdictStep ==
    ASSUME ParserInv, RightVerdict, [Next]_parserVars
    PROVE  RightVerdict'
<1>1. CASE UNCHANGED parserVars
  <2>1. UNCHANGED <<wire, fed, caller, frames>>
    BY <1>1 DEF parserVars
  <2>2. \A k : EndOf(k)' = EndOf(k)
    BY <2>1 DEF EndOf
  <2>3. \A b : HeaderStands(b)' = HeaderStands(b)
    BY <2>1 DEF HeaderStands
  <2>4. \A b : HoldsFrame(FrameAt(b))' = HoldsFrame(FrameAt(b))
    BY <2>1 DEF HoldsFrame, FrameAt
  <2>5. EndOf(Len(frames))' = EndOf(Len(frames))
    BY <2>1, <2>2
  <2>6. QED
    BY <2>1, <2>3, <2>4, <2>5 DEF RightVerdict
<1>2. CASE \E n \in 1..ReadMax : Read(n)
  BY <1>2 DEF Read, RightVerdict
<1>3. CASE NeedMore \/ Error
  BY <1>3, VerdictGiven
<1>4. CASE Ready \/ Use
  BY <1>4 DEF Ready, Use, RightVerdict
<1>5. QED
  BY <1>1, <1>2, <1>3, <1>4 DEF Next, next

LEMMA VerdictAtStart == Init => RightVerdict
<1> SUFFICES ASSUME Init PROVE RightVerdict
  OBVIOUS
<1>1. fed = 0 /\ caller = "read" /\ Len(frames) = 0
  BY DEF Init
<1>2. EndOf(Len(frames)) = 0
  BY <1>1 DEF EndOf
<1>3. QED
  BY <1>1, <1>2 DEF RightVerdict, HEADER_SIZE

\* For every stream, CRC function and way of cutting the stream into reads, the
\* caller waits only for what is not there yet and gives up only what can no
\* longer become a frame (feed, compact, next).
THEOREM ParserJudges == Spec => []RightVerdict
<1>1. ParserInv /\ RightVerdict /\ [Next]_parserVars => RightVerdict'
  BY VerdictStep
<1>2. QED
  BY <1>1, Start, VerdictAtStart, ParserStep, PTL DEF Spec

-----------------------------------------------------------------------------
(***************************************************************************)
(* Messages and their cells.                                               *)
(***************************************************************************)
LEMMA CutText ==
    ASSUME NEW text \in Seq(Nat)
    PROVE  Cut(text) \in Seq(Nat) /\ Len(Cut(text)) \in Nat /\ Len(Cut(text)) <= MAX_NAME_LEN
<1>1. MAX_NAME_LEN \in Nat
  BY MessagesAssumption
<1>2. CASE Len(text) > MAX_NAME_LEN
  <2>1. 0 \in Nat /\ 0 + MAX_NAME_LEN <= Len(text) /\ 0 + 1 = 1
          /\ 0 + MAX_NAME_LEN = MAX_NAME_LEN
    BY <1>1, <1>2
  <2>2. /\ SubSeq(text, 0 + 1, 0 + MAX_NAME_LEN) \in Seq(Nat)
        /\ Len(SubSeq(text, 0 + 1, 0 + MAX_NAME_LEN)) = MAX_NAME_LEN
    BY <1>1, <2>1, PartOf
  <2>3. QED
    BY <1>1, <1>2, <2>1, <2>2 DEF Cut
<1>3. CASE ~(Len(text) > MAX_NAME_LEN)
  BY <1>1, <1>3 DEF Cut
<1>4. QED
  BY <1>2, <1>3

\* A number, a length and a text of that length.
LEMMA Prefixed ==
    ASSUME NEW number \in Nat, NEW text \in Seq(Nat)
    PROVE  LET cells == <<number, Len(text)>> \o text
           IN  /\ cells \in Seq(Nat) /\ Len(cells) = 2 + Len(text)
               /\ cells[1] = number /\ cells[2] = Len(text)
               /\ SubSeq(cells, 3, Len(cells)) = text
<1> DEFINE front == <<number, Len(text)>>
           cells == front \o text
<1>1. front \in Seq(Nat) /\ Len(front) = 2 /\ Len(text) \in Nat
      /\ front[1] = number /\ front[2] = Len(text)
  OBVIOUS
<1>2. /\ cells \in Seq(Nat) /\ Len(cells) = 2 + Len(text)
      /\ \A i \in 1..(2 + Len(text)) :
           cells[i] = IF i <= 2 THEN front[i] ELSE text[i - 2]
  <2>1. /\ front \o text \in Seq(Nat) /\ Len(front \o text) = Len(front) + Len(text)
        /\ \A i \in 1..(Len(front) + Len(text)) :
             (front \o text)[i] = IF i <= Len(front) THEN front[i] ELSE text[i - Len(front)]
    BY <1>1, ConcatProperties
  <2>2. QED
    BY <1>1, <2>1
<1> HIDE DEF front, cells
<1>3. cells[1] = number /\ cells[2] = Len(text)
  BY <1>1, <1>2
<1>4. SubSeq(cells, 3, Len(cells)) = text
  <2>1. /\ 2 \in Nat /\ Len(text) \in Nat /\ 2 + Len(text) <= Len(cells)
        /\ 2 + 1 = 3 /\ 2 + Len(text) = Len(cells)
    BY <1>1, <1>2
  <2>2. \A from, n \in Nat : from + n <= Len(cells) =>
            /\ SubSeq(cells, from + 1, from + n) \in Seq(Nat)
            /\ Len(SubSeq(cells, from + 1, from + n)) = n
            /\ \A i \in 1..n : SubSeq(cells, from + 1, from + n)[i] = cells[from + i]
    BY <1>2, PartOf
  <2>3. /\ SubSeq(cells, 2 + 1, 2 + Len(text)) \in Seq(Nat)
        /\ Len(SubSeq(cells, 2 + 1, 2 + Len(text))) = Len(text)
        /\ \A i \in 1..Len(text) : SubSeq(cells, 2 + 1, 2 + Len(text))[i] = cells[2 + i]
    BY <2>1, <2>2, Zenon
  <2>4. \A i \in 1..Len(text) : cells[2 + i] = text[i]
    <3> SUFFICES ASSUME NEW i \in 1..Len(text) PROVE cells[2 + i] = text[i]
      OBVIOUS
    <3>1. 2 + i \in 1..(2 + Len(text)) /\ ~(2 + i <= 2) /\ (2 + i) - 2 = i
      BY <1>1
    <3>2. QED
      BY <1>2, <3>1
  <2> DEFINE part == SubSeq(cells, 2 + 1, 2 + Len(text))
  <2>5. /\ part \in Seq(Nat) /\ Len(part) = Len(text)
        /\ \A i \in 1..Len(text) : part[i] = text[i]
    BY <2>3, <2>4
  <2>6. part = SubSeq(cells, 3, Len(cells))
    BY <2>1
  <2> HIDE DEF part
  <2>7. part = text
    <3>1. text \in Seq(Nat)
      BY <1>1
    <3>2. QED
      BY <2>5, <3>1, SeqEqual
  <2>8. QED
    BY <2>6, <2>7
<1>5. QED
  BY <1>2, <1>3, <1>4 DEF cells, front

LEMMA MessageKinds ==
    ASSUME NEW m \in Message
    PROVE  \/ m.kind = "Hello" /\ m.fileSize \in Nat /\ m.name \in Seq(Nat)
              /\ m = [kind |-> "Hello", fileSize |-> m.fileSize, name |-> m.name]
           \/ m.kind = "Data" /\ m.bytes \in Seq(Nat)
              /\ m = [kind |-> "Data", bytes |-> m.bytes]
           \/ m.kind = "End" /\ m.fileCrc \in Nat
              /\ m = [kind |-> "End", fileCrc |-> m.fileCrc]
           \/ m.kind = "Ack" /\ m.status \in Nat /\ m.message \in Seq(Nat)
              /\ m = [kind |-> "Ack", status |-> m.status, message |-> m.message]
           \/ m.kind = "Raw" /\ m.type \in Nat /\ m.payload \in Seq(Nat)
BY DEF Message, Own, Raw

LEMMA PayloadType ==
    ASSUME NEW m \in Message
    PROVE  /\ Payload(m) \in Seq(Nat) /\ Len(Payload(m)) \in Nat /\ TypeOf(m) \in Nat
           /\ SizeOf(m) \in Nat /\ SizeOf(m) = 5 + Len(Payload(m))
<1>1. Payload(m) \in Seq(Nat) /\ TypeOf(m) \in Nat
  <2>1. CASE m.kind = "Hello" /\ m.fileSize \in Nat /\ m.name \in Seq(Nat)
    <3>1. Payload(m) = <<m.fileSize, Len(Cut(m.name))>> \o Cut(m.name) /\ TypeOf(m) = 1
      BY <2>1 DEF Payload, TypeOf, HelloCells
    <3>2. QED
      BY <2>1, <3>1, CutText, Prefixed
  <2>2. CASE m.kind = "Data" /\ m.bytes \in Seq(Nat)
    BY <2>2 DEF Payload, TypeOf
  <2>3. CASE m.kind = "End" /\ m.fileCrc \in Nat
    BY <2>3 DEF Payload, TypeOf
  <2>4. CASE m.kind = "Ack" /\ m.status \in Nat /\ m.message \in Seq(Nat)
    <3>1. Payload(m) = <<m.status, Len(Cut(m.message))>> \o Cut(m.message) /\ TypeOf(m) = 4
      BY <2>4 DEF Payload, TypeOf, AckCells
    <3>2. QED
      BY <2>4, <3>1, CutText, Prefixed
  <2>5. CASE m.kind = "Raw" /\ m.type \in Nat /\ m.payload \in Seq(Nat)
    BY <2>5 DEF Payload, TypeOf
  <2>6. QED
    BY <2>1, <2>2, <2>3, <2>4, <2>5, MessageKinds
<1>2. Len(Payload(m)) \in Nat
  BY <1>1
<1>3. QED
  BY <1>1, <1>2 DEF SizeOf, FrameSize, HEADER_SIZE, TRAILER_SIZE

\* parseHello, parseEnd and parseAck undo what buildHello, buildEnd and buildAck
\* do, but for the cut.
LEMMA RoundTrip ==
    ASSUME NEW m \in Own, NEW f, f.type = TypeOf(m), f.payload = Payload(m)
    PROVE  Parse(f) = Meaning(m)
<1>0. m \in Message
  BY DEF Message
<1>1. CASE m.kind = "Hello" /\ m.fileSize \in Nat /\ m.name \in Seq(Nat)
           /\ m = [kind |-> "Hello", fileSize |-> m.fileSize, name |-> m.name]
  <2> DEFINE text == Cut(m.name)
             cells == <<m.fileSize, Len(text)>> \o text
  <2>1. f.payload = cells /\ f.type = 1
    BY <1>1 DEF Payload, TypeOf, HelloCells
  <2>2. text \in Seq(Nat) /\ Len(text) \in Nat /\ Len(text) <= MAX_NAME_LEN
    BY <1>1, CutText
  <2>3. /\ Len(cells) = 2 + Len(text) /\ cells[1] = m.fileSize /\ cells[2] = Len(text)
        /\ SubSeq(cells, 3, Len(cells)) = text
    BY <1>1, <2>2, Prefixed
  <2>4. Meaning(m) = [kind |-> "Hello", fileSize |-> m.fileSize, name |-> text]
    BY <1>1 DEF Meaning
  <2> HIDE DEF text, cells
  <2>5. ~(Len(cells) < 2) /\ ~(Len(cells) # 2 + cells[2] \/ cells[2] > MAX_NAME_LEN)
    BY <2>2, <2>3, MessagesAssumption
  <2>6. parseHello(cells) = [kind |-> "Hello", fileSize |-> m.fileSize, name |-> text]
    BY <2>3, <2>5 DEF parseHello
  <2>7. QED
    BY <2>1, <2>4, <2>6 DEF Parse
<1>2. CASE m.kind = "Data" /\ m.bytes \in Seq(Nat) /\ m = [kind |-> "Data", bytes |-> m.bytes]
  BY <1>2 DEF Payload, TypeOf, Parse, Meaning
<1>3. CASE m.kind = "End" /\ m.fileCrc \in Nat /\ m = [kind |-> "End", fileCrc |-> m.fileCrc]
  BY <1>3 DEF Payload, TypeOf, Parse, Meaning, parseEnd
<1>4. CASE m.kind = "Ack" /\ m.status \in Nat /\ m.message \in Seq(Nat)
           /\ m = [kind |-> "Ack", status |-> m.status, message |-> m.message]
  <2> DEFINE text == Cut(m.message)
             cells == <<m.status, Len(text)>> \o text
  <2>1. f.payload = cells /\ f.type = 4
    BY <1>4 DEF Payload, TypeOf, AckCells
  <2>2. text \in Seq(Nat) /\ Len(text) \in Nat
    BY <1>4, CutText
  <2>3. /\ Len(cells) = 2 + Len(text) /\ cells[1] = m.status /\ cells[2] = Len(text)
        /\ SubSeq(cells, 3, Len(cells)) = text
    BY <1>4, <2>2, Prefixed
  <2>4. Meaning(m) = [kind |-> "Ack", status |-> m.status, message |-> text]
    BY <1>4 DEF Meaning
  <2> HIDE DEF text, cells
  <2>5. ~(Len(cells) < 2) /\ Len(cells) = 2 + cells[2]
    BY <2>2, <2>3
  <2>6. parseAck(cells) = [kind |-> "Ack", status |-> m.status, message |-> text]
    BY <2>3, <2>5 DEF parseAck
  <2>7. QED
    BY <2>1, <2>4, <2>6 DEF Parse
<1>5. m.kind # "Raw"
  BY DEF Own
<1>6. QED
  BY <1>0, <1>1, <1>2, <1>3, <1>4, <1>5, MessageKinds

\* What buildFrame puts where.
FrameCells(cells, type, body) ==
    /\ cells[1] = MAGIC /\ cells[2] = type /\ cells[3] = Len(body)
    /\ cells[4] = Crc(Header(type, body))
    /\ \A i \in 1..Len(body) : cells[4 + i] = body[i]
    /\ cells[5 + Len(body)] = Crc(body)

LEMMA FrameBuilt ==
    ASSUME NEW type \in Nat, NEW body \in Seq(Nat)
    PROVE  FrameCells(buildFrame(type, body), type, body)
<1> DEFINE S == Nat \cup {MAGIC, Crc(Header(type, body)), Crc(body)}
           head == Header(type, body)
           a == head \o <<Crc(head)>>
           b == a \o body
           c == b \o <<Crc(body)>>
<1>1. /\ head \in Seq(S) /\ Len(head) = 3 /\ <<Crc(head)>> \in Seq(S)
      /\ head[1] = MAGIC /\ head[2] = type /\ head[3] = Len(body)
      /\ <<Crc(body)>> \in Seq(S) /\ body \in Seq(S) /\ Len(body) \in Nat
  BY DEF Header
<1> HIDE DEF S
<1>2. /\ a \in Seq(S) /\ Len(a) = 4
      /\ a[1] = head[1] /\ a[2] = head[2] /\ a[3] = head[3] /\ a[4] = Crc(head)
  <2>1. /\ head \o <<Crc(head)>> \in Seq(S)
        /\ Len(head \o <<Crc(head)>>) = Len(head) + Len(<<Crc(head)>>)
        /\ \A i \in 1..(Len(head) + Len(<<Crc(head)>>)) :
             (head \o <<Crc(head)>>)[i]
               = IF i <= Len(head) THEN head[i] ELSE <<Crc(head)>>[i - Len(head)]
    <3> DEFINE last == <<Crc(head)>>
    <3>1. head \in Seq(S) /\ last \in Seq(S)
      BY <1>1
    <3> HIDE DEF head, last
    <3>2. \A s1, s2 \in Seq(S) :
             /\ s1 \o s2 \in Seq(S) /\ Len(s1 \o s2) = Len(s1) + Len(s2)
             /\ \A i \in 1..(Len(s1) + Len(s2)) :
                  (s1 \o s2)[i] = IF i <= Len(s1) THEN s1[i] ELSE s2[i - Len(s1)]
      BY ConcatProperties
    <3>3. /\ head \o last \in Seq(S) /\ Len(head \o last) = Len(head) + Len(last)
          /\ \A i \in 1..(Len(head) + Len(last)) :
               (head \o last)[i] = IF i <= Len(head) THEN head[i] ELSE last[i - Len(head)]
      BY <3>1, <3>2, Zenon
    <3>4. QED
      BY <3>3 DEF last
  <2> HIDE DEF head
  <2>2. QED
    BY <1>1, <2>1
<1> HIDE DEF a
<1>3. /\ b \in Seq(S) /\ Len(b) = 4 + Len(body)
      /\ \A i \in 1..4 : b[i] = a[i]
      /\ \A i \in 1..Len(body) : b[4 + i] = body[i]
  <2>1. /\ a \o body \in Seq(S) /\ Len(a \o body) = Len(a) + Len(body)
        /\ \A i \in 1..(Len(a) + Len(body)) :
             (a \o body)[i] = IF i <= Len(a) THEN a[i] ELSE body[i - Len(a)]
    BY <1>1, <1>2, ConcatProperties
  <2>2. ASSUME NEW i \in 1..Len(body)
        PROVE  (a \o body)[4 + i] = body[i]
    <3>1. 4 + i \in 1..(Len(a) + Len(body)) /\ ~(4 + i <= Len(a)) /\ (4 + i) - Len(a) = i
      BY <1>1, <1>2
    <3>2. QED
      BY <2>1, <3>1
  <2>3. \A i \in 1..4 : (a \o body)[i] = a[i]
    BY <1>1, <1>2, <2>1
  <2>4. QED
    BY <1>2, <2>1, <2>2, <2>3
<1> HIDE DEF b
<1>4. /\ \A i \in 1..(4 + Len(body)) : c[i] = b[i]
      /\ c[5 + Len(body)] = Crc(body)
  <2> DEFINE last == <<Crc(body)>>
             n == 4 + Len(body)
  <2>1. last \in Seq(S) /\ Len(last) = 1 /\ last[1] = Crc(body)
    BY <1>1
  <2>2. c = b \o last
    OBVIOUS
  <2> HIDE DEF last, c
  <2>3. b \in Seq(S) /\ Len(b) = n /\ n \in Nat /\ n + 1 = 5 + Len(body)
    BY <1>1, <1>3
  <2> HIDE DEF n
  <2>4. \A i \in 1..(Len(b) + Len(last)) :
          (b \o last)[i] = IF i <= Len(b) THEN b[i] ELSE last[i - Len(b)]
    <3>1. \A s1, s2 \in Seq(S) : \A i \in 1..(Len(s1) + Len(s2)) :
            (s1 \o s2)[i] = IF i <= Len(s1) THEN s1[i] ELSE s2[i - Len(s1)]
      BY ConcatProperties
    <3>2. QED
      BY <2>1, <2>3, <3>1, Zenon
  <2>5. \A i \in 1..(n + 1) : c[i] = IF i <= n THEN b[i] ELSE last[i - n]
    BY <2>1, <2>2, <2>3, <2>4
  <2>6. \A i \in 1..n : c[i] = b[i]
    BY <2>3, <2>5
  <2>7. c[n + 1] = last[1]
    <3>1. n + 1 \in 1..(n + 1) /\ ~(n + 1 <= n) /\ (n + 1) - n = 1
      BY <2>3
    <3>2. QED
      BY <2>5, <3>1
  <2>8. QED
    BY <2>1, <2>3, <2>6, <2>7 DEF n
<1>5. c = buildFrame(type, body)
  BY DEF buildFrame, a, b, head
<1> HIDE DEF c, head
<1>6. /\ c[1] = MAGIC /\ c[2] = type /\ c[3] = Len(body) /\ c[4] = Crc(head)
      /\ \A i \in 1..Len(body) : c[4 + i] = body[i]
      /\ c[5 + Len(body)] = Crc(body)
  <2>1. /\ 1 \in 1..(4 + Len(body)) /\ 2 \in 1..(4 + Len(body))
        /\ 3 \in 1..(4 + Len(body)) /\ 4 \in 1..(4 + Len(body))
        /\ \A i \in 1..Len(body) : 4 + i \in 1..(4 + Len(body))
    BY <1>1
  <2>2. QED
    BY <1>1, <1>2, <1>3, <1>4, <2>1
<1>7. QED
  BY <1>5, <1>6 DEF FrameCells, head

-----------------------------------------------------------------------------
(***************************************************************************)
(* Offsets: the number of cells of the first k frames.                     *)
(***************************************************************************)
Places(speech, k) == UNION {{j} \X (1..SizeOf(speech[j])) : j \in 1..k}

LEMMA PlacesFinite ==
    ASSUME NEW speech \in Seq(Message), NEW k \in 0..Len(speech)
    PROVE  /\ IsFiniteSet(Places(speech, k)) /\ Offset(speech, k) \in Nat
           /\ Offset(speech, k) = Cardinality(Places(speech, k))
<1> DEFINE row(j) == {j} \X (1..SizeOf(speech[j]))
           rows == {row(j) : j \in 1..k}
           f == [j \in 1..k |-> row(j)]
<1>1. ASSUME NEW j \in 1..k
      PROVE  IsFiniteSet(row(j))
  <2>1. speech[j] \in Message
    BY ElementOfSeq
  <2>2. SizeOf(speech[j]) \in Int
    BY <2>1, PayloadType
  <2>3. IsFiniteSet({j}) /\ IsFiniteSet(1..SizeOf(speech[j]))
    <3>1. \A a, b \in Int : IsFiniteSet(a..b)
      BY FS_Interval
    <3>2. IsFiniteSet({j})
      BY FS_Singleton, Zenon
    <3>3. QED
      BY <2>2, <3>1, <3>2
  <2>4. QED
    BY <2>3, FS_Product
<1>2. IsFiniteSet(rows)
  <2>1. f \in Surjection(1..k, rows)
    BY DEF Surjection
  <2>2. IsFiniteSet(1..k)
    BY FS_Interval
  <2> HIDE DEF f, rows
  <2>3. QED
    BY <2>1, <2>2, FS_Surjection
<1>3. \A T \in rows : IsFiniteSet(T)
  BY <1>1
<1>4. IsFiniteSet(UNION rows)
  <2> HIDE DEF rows
  <2>1. QED
    BY <1>2, <1>3, FS_UNION
<1>5. QED
  BY <1>4, FS_CardinalityType DEF Places, Offset

LEMMA OffsetZero ==
    ASSUME NEW speech
    PROVE  Offset(speech, 0) = 0
<1>1. UNION {{j} \X (1..SizeOf(speech[j])) : j \in 1..0} = {}
  OBVIOUS
<1>2. QED
  BY <1>1, FS_EmptySet DEF Offset

LEMMA OffsetNext ==
    ASSUME NEW speech \in Seq(Message), NEW k \in 1..Len(speech)
    PROVE  /\ k - 1 \in 0..Len(speech)
           /\ Offset(speech, k - 1) \in Nat
           /\ Offset(speech, k) = Offset(speech, k - 1) + SizeOf(speech[k])
<1> DEFINE old == Places(speech, k - 1)
           n == SizeOf(speech[k])
           row == {k} \X (1..n)
<1>1. k - 1 \in 0..Len(speech) /\ k \in 0..Len(speech) /\ speech[k] \in Message
  BY ElementOfSeq
<1>2. IsFiniteSet(old) /\ Offset(speech, k - 1) \in Nat
      /\ Offset(speech, k - 1) = Cardinality(old)
  BY <1>1, PlacesFinite
<1>3. n \in Nat
  BY <1>1, PayloadType
<1>4. IsFiniteSet(row) /\ Cardinality(row) = n
  <2> HIDE DEF n
  <2>1. IsFiniteSet({k}) /\ Cardinality({k}) = 1
    BY FS_Singleton
  <2>2. IsFiniteSet(1..n) /\ Cardinality(1..n) = n
    BY <1>3, FS_Interval
  <2>3. IsFiniteSet({k} \X (1..n)) /\ Cardinality({k} \X (1..n)) = 1 * n
    BY <2>1, <2>2, FS_Product
  <2>4. QED
    BY <1>3, <2>3
<1>5. Places(speech, k) = old \cup row
  <2>1. 1..k = (1..(k - 1)) \cup {k}
    OBVIOUS
  <2>2. QED
    BY <2>1 DEF Places
<1>6. old \cap row = {}
  <2>1. \A p \in old : p[1] # k
    BY DEF Places
  <2>2. \A p \in row : p[1] = k
    OBVIOUS
  <2>3. QED
    BY <2>1, <2>2
<1>7. Cardinality(old \cup row) = Cardinality(old) + n
  <2>1. Cardinality(old \cup row)
          = Cardinality(old) + Cardinality(row) - Cardinality(old \cap row)
    BY <1>2, <1>4, FS_Union
  <2>2. Cardinality(old \cap row) = 0
    BY <1>6, FS_EmptySet
  <2>3. QED
    BY <1>2, <1>3, <1>4, <2>1, <2>2
<1>8. Offset(speech, k) = Cardinality(old \cup row)
  BY <1>1, <1>5, PlacesFinite
<1>9. QED
  BY <1>1, <1>2, <1>7, <1>8

LEMMA OffsetGrows ==
    ASSUME NEW speech \in Seq(Message), NEW k \in 0..Len(speech), NEW j \in 0..k
    PROVE  /\ j \in 0..Len(speech)
           /\ Offset(speech, j) \in Nat /\ Offset(speech, k) \in Nat
           /\ Offset(speech, j) <= Offset(speech, k)
<1>1. j \in 0..Len(speech)
  OBVIOUS
<1>2. Places(speech, j) \subseteq Places(speech, k)
  <2>1. 1..j \subseteq 1..k
    OBVIOUS
  <2>2. QED
    BY <2>1 DEF Places
<1>3. QED
  BY <1>1, <1>2, PlacesFinite, FS_Subset

\* A cell of the stream is of one frame only.
LEMMA PartsDisjoint ==
    ASSUME NEW speech \in Seq(Message), NEW k \in 1..Len(speech), NEW j \in 1..Len(speech),
           NEW p \in Part(speech, k), p \in Part(speech, j)
    PROVE  j = k
<1>1. /\ Offset(speech, k - 1) \in Nat /\ Offset(speech, j - 1) \in Nat
      /\ Offset(speech, k) \in Nat /\ Offset(speech, j) \in Nat
  BY OffsetNext, PlacesFinite
<1>2. /\ p > Offset(speech, k - 1) /\ p <= Offset(speech, k)
      /\ p > Offset(speech, j - 1) /\ p <= Offset(speech, j) /\ p \in Nat
  BY <1>1 DEF Part
<1>3. CASE j < k
  <2>1. k - 1 \in 0..Len(speech) /\ j \in 0..(k - 1)
    BY <1>3
  <2>2. Offset(speech, j) <= Offset(speech, k - 1)
    BY <2>1, OffsetGrows
  <2>3. QED
    BY <1>1, <1>2, <2>2
<1>4. CASE k < j
  <2>1. j - 1 \in 0..Len(speech) /\ k \in 0..(j - 1)
    BY <1>4
  <2>2. Offset(speech, k) <= Offset(speech, j - 1)
    BY <2>1, OffsetGrows
  <2>3. QED
    BY <1>1, <1>2, <2>2
<1>5. QED
  BY <1>3, <1>4

\* Each frame of the stream stands behind the one before.
LEMMA StreamLaid ==
    ASSUME NEW speech \in Seq(Message), NEW k \in 1..Len(speech),
           NEW i \in 1..SizeOf(speech[k])
    PROVE  /\ Offset(speech, k - 1) + i \in 1..Offset(speech, Len(speech))
           /\ Offset(speech, k - 1) + i \in Part(speech, k)
           /\ Stream(speech)[Offset(speech, k - 1) + i] = CellsOf(speech[k])[i]
<1> DEFINE p == Offset(speech, k - 1) + i
           chosen == CHOOSE c \in DOMAIN speech : p \in Part(speech, c)
<1>1. /\ Offset(speech, k - 1) \in Nat /\ SizeOf(speech[k]) \in Nat
      /\ Offset(speech, k) = Offset(speech, k - 1) + SizeOf(speech[k])
  <2>1. speech[k] \in Message
    BY ElementOfSeq
  <2>2. QED
    BY <2>1, OffsetNext, PayloadType
<1>2. p \in Part(speech, k) /\ p \in Nat /\ 1 <= p /\ p <= Offset(speech, k)
  BY <1>1 DEF Part
<1>3. p \in 1..Offset(speech, Len(speech))
  <2>1. Len(speech) \in 0..Len(speech) /\ k \in 0..Len(speech)
    OBVIOUS
  <2>2. /\ Offset(speech, k) \in Nat /\ Offset(speech, Len(speech)) \in Nat
        /\ Offset(speech, k) <= Offset(speech, Len(speech))
    BY <2>1, OffsetGrows
  <2>3. QED
    BY <1>2, <2>2
<1>4. chosen = k
  <2>1. DOMAIN speech = 1..Len(speech)
    OBVIOUS
  <2>2. chosen \in 1..Len(speech) /\ p \in Part(speech, chosen)
    BY <1>2, <2>1
  <2> HIDE DEF chosen, p
  <2>3. QED
    BY <1>2, <2>2, PartsDisjoint
<1>5. Stream(speech)[p] = CellsOf(speech[chosen])[p - Offset(speech, chosen - 1)]
  BY <1>3 DEF Stream
<1>6. p - Offset(speech, k - 1) = i
  BY <1>1
<1>7. QED
  BY <1>2, <1>3, <1>4, <1>5, <1>6

-----------------------------------------------------------------------------
(***************************************************************************)
(* The inductive invariant.                                                *)
(***************************************************************************)
\* The stream is what was said, but for the cell that is hurt.
Laid ==
    /\ sent \in Speeches /\ Len(wire) = Offset(sent, Len(sent))
    /\ \A k \in 1..Len(sent) : \A i \in 1..SizeOf(sent[k]) :
         LET p == Offset(sent, k - 1) + i
         IN  /\ p # hurt => wire[p] = CellsOf(sent[k])[i]
             /\ p = hurt => wire[p] \in Noise \ {CellsOf(sent[k])[i]}

\* The caller has the frames said, as they were said.
Said ==
    \A k \in 1..Len(frames) :
        /\ k <= Len(sent) /\ ~Faulty(k)
        /\ frames[k].type = TypeOf(sent[k]) /\ frames[k].payload = Payload(sent[k])
        /\ frames[k].at = Offset(sent, k - 1)

MessagesInv == ParserInv /\ RightVerdict /\ Laid /\ Said

LEMMA SentType ==
    ASSUME Laid
    PROVE  /\ sent \in Seq(Message)
           /\ \A k \in 1..Len(sent) :
                /\ sent[k] \in Message /\ Payload(sent[k]) \in Seq(Nat)
                /\ Len(Payload(sent[k])) \in Nat /\ TypeOf(sent[k]) \in Nat
                /\ SizeOf(sent[k]) = 5 + Len(Payload(sent[k]))
                /\ Offset(sent, k - 1) \in Nat
                /\ Offset(sent, k) = Offset(sent, k - 1) + 5 + Len(Payload(sent[k]))
<1>1. sent \in Seq(Message)
  BY MessagesAssumption DEF Laid
<1>2. ASSUME NEW k \in 1..Len(sent)
      PROVE  /\ sent[k] \in Message /\ Payload(sent[k]) \in Seq(Nat)
             /\ Len(Payload(sent[k])) \in Nat /\ TypeOf(sent[k]) \in Nat
             /\ SizeOf(sent[k]) = 5 + Len(Payload(sent[k]))
             /\ Offset(sent, k - 1) \in Nat
             /\ Offset(sent, k) = Offset(sent, k - 1) + 5 + Len(Payload(sent[k]))
  <2>1. sent[k] \in Message
    BY <1>1, ElementOfSeq
  <2>2. /\ Payload(sent[k]) \in Seq(Nat)
        /\ Len(Payload(sent[k])) \in Nat /\ TypeOf(sent[k]) \in Nat
        /\ SizeOf(sent[k]) = 5 + Len(Payload(sent[k]))
    BY <2>1, PayloadType
  <2>3. /\ Offset(sent, k - 1) \in Nat
        /\ Offset(sent, k) = Offset(sent, k - 1) + SizeOf(sent[k])
    BY <1>1, OffsetNext
  <2>4. QED
    BY <2>1, <2>2, <2>3
<1>3. QED
  BY <1>1, <1>2

LEMMA LaidAtStart == MessagesInit => Laid
<1> SUFFICES ASSUME MessagesInit PROVE Laid
  OBVIOUS
<1> DEFINE stream == Stream(sent)
           total == Offset(sent, Len(sent))
<1>1. sent \in Speeches /\ sent \in Seq(Message)
  BY MessagesAssumption DEF MessagesInit
<1>2. total \in Nat /\ DOMAIN stream = 1..total
  <2>1. Len(sent) \in 0..Len(sent)
    BY <1>1
  <2>2. QED
    BY <1>1, <2>1, PlacesFinite DEF Stream
<1>3. \/ hurt = 0 /\ wire = stream
      \/ /\ hurt \in 1..total
         /\ \E noise \in Noise \ {stream[hurt]} : wire = [stream EXCEPT ![hurt] = noise]
  BY DEF MessagesInit
<1>4. wire \in Seq(Nat)
  BY DEF MessagesInit, Init
<1>5. ASSUME NEW k \in 1..Len(sent), NEW i \in 1..SizeOf(sent[k])
      PROVE  /\ Offset(sent, k - 1) + i \in 1..total
             /\ stream[Offset(sent, k - 1) + i] = CellsOf(sent[k])[i]
  BY <1>1, <1>5, StreamLaid
<1> HIDE DEF stream, total
<1>6. DOMAIN wire = 1..total
  BY <1>2, <1>3
<1>7. Len(wire) = total
  BY <1>2, <1>4, <1>6
<1>8. \A p \in 1..total : /\ p # hurt => wire[p] = stream[p]
                          /\ p = hurt => wire[p] \in Noise \ {stream[p]}
  <2> SUFFICES ASSUME NEW p \in 1..total
               PROVE  /\ p # hurt => wire[p] = stream[p]
                      /\ p = hurt => wire[p] \in Noise \ {stream[p]}
    OBVIOUS
  <2>1. CASE hurt = 0 /\ wire = stream
    BY <2>1
  <2>2. CASE /\ hurt \in 1..total
             /\ \E noise \in Noise \ {stream[hurt]} : wire = [stream EXCEPT ![hurt] = noise]
    <3>1. PICK noise \in Noise \ {stream[hurt]} : wire = [stream EXCEPT ![hurt] = noise]
      BY <2>2
    <3>2. QED
      BY <1>2, <2>2, <3>1
  <2>3. QED
    BY <1>3, <2>1, <2>2
<1>9. QED
  BY <1>1, <1>5, <1>7, <1>8 DEF Laid, total

\* The cells of one frame in the stream.
LEMMA FrameLaid ==
    ASSUME Laid, NEW k \in 1..Len(sent)
    PROVE  LET a == Offset(sent, k - 1)
               body == Payload(sent[k])
               Says(i, cell) == /\ a + i # hurt => wire[a + i] = cell
                                /\ a + i = hurt => wire[a + i] \in Noise \ {cell}
           IN  /\ Says(1, MAGIC) /\ Says(2, TypeOf(sent[k])) /\ Says(3, Len(body))
               /\ Says(4, Crc(Header(TypeOf(sent[k]), body)))
               /\ \A i \in 1..Len(body) : Says(4 + i, body[i])
               /\ Says(5 + Len(body), Crc(body))
<1> DEFINE a == Offset(sent, k - 1)
           body == Payload(sent[k])
           cells == CellsOf(sent[k])
           Says(i, cell) == /\ a + i # hurt => wire[a + i] = cell
                            /\ a + i = hurt => wire[a + i] \in Noise \ {cell}
<1>1. /\ body \in Seq(Nat) /\ Len(body) \in Nat /\ TypeOf(sent[k]) \in Nat
      /\ SizeOf(sent[k]) = 5 + Len(body)
  BY SentType
<1>2. \A i \in 1..(5 + Len(body)) : Says(i, cells[i])
  BY <1>1 DEF Laid
<1>3. FrameCells(cells, TypeOf(sent[k]), body)
  BY <1>1, FrameBuilt DEF CellsOf
<1> HIDE DEF Says, cells, body
<1>4. /\ 1 \in 1..(5 + Len(body)) /\ 2 \in 1..(5 + Len(body)) /\ 3 \in 1..(5 + Len(body))
      /\ 4 \in 1..(5 + Len(body)) /\ 5 + Len(body) \in 1..(5 + Len(body))
      /\ \A i \in 1..Len(body) : 4 + i \in 1..(5 + Len(body))
  BY <1>1
<1>5. /\ Says(1, MAGIC) /\ Says(2, TypeOf(sent[k])) /\ Says(3, Len(body))
      /\ Says(4, Crc(Header(TypeOf(sent[k]), body)))
      /\ \A i \in 1..Len(body) : Says(4 + i, body[i])
      /\ Says(5 + Len(body), Crc(body))
  BY <1>2, <1>3, <1>4 DEF FrameCells
<1>6. QED
  BY <1>5 DEF Says, body

\* A header that passes the checks is the one said: the altered cell is not in it.
LEMMA HeaderIntact ==
    ASSUME Laid, NEW k \in 1..Len(sent), HeaderStands(Offset(sent, k - 1))
    PROVE  LET a == Offset(sent, k - 1)
           IN  /\ hurt \notin (a + 1)..(a + 4)
               /\ wire[a + 2] = TypeOf(sent[k]) /\ wire[a + 3] = Len(Payload(sent[k]))
<1> DEFINE a == Offset(sent, k - 1)
           body == Payload(sent[k])
           type == TypeOf(sent[k])
           head == Header(type, body)
           seen == <<wire[a + 1], wire[a + 2], wire[a + 3]>>
<1>1. a \in Nat /\ Len(body) \in Nat
  BY SentType
<1>2. /\ a + 1 # hurt => wire[a + 1] = MAGIC
      /\ a + 1 = hurt => wire[a + 1] # MAGIC
      /\ a + 2 # hurt => wire[a + 2] = type
      /\ a + 2 = hurt => wire[a + 2] \in Noise \ {type}
      /\ a + 3 # hurt => wire[a + 3] = Len(body)
      /\ a + 3 = hurt => wire[a + 3] \in Noise \ {Len(body)}
      /\ a + 4 # hurt => wire[a + 4] = Crc(head)
      /\ a + 4 = hurt => wire[a + 4] # Crc(head)
  BY FrameLaid
<1>3. wire[a + 1] = MAGIC /\ wire[a + 4] = Crc(seen)
  BY DEF HeaderStands
<1>4. head = <<MAGIC, type, Len(body)>>
  BY DEF Header
<1>5. Detected(head)
  BY SentType, NoiseAssumption DEF Laid
<1> HIDE DEF a, body, type, head
<1>6. hurt # a + 1
  BY <1>2, <1>3
<1>7. hurt # a + 2
  <2> SUFFICES ASSUME hurt = a + 2 PROVE FALSE
    OBVIOUS
  <2>1. /\ wire[a + 2] \in Noise \ {type} /\ wire[a + 3] = Len(body)
        /\ wire[a + 4] = Crc(head)
    BY <1>1, <1>2
  <2>2. seen = [head EXCEPT ![2] = wire[a + 2]]
    BY <1>3, <1>4, <2>1
  <2>3. 2 \in DOMAIN head /\ head[2] = type
    BY <1>4
  <2>4. Crc([head EXCEPT ![2] = wire[a + 2]]) # Crc(head)
    BY <1>5, <2>1, <2>3 DEF Detected
  <2>5. QED
    BY <1>3, <2>1, <2>2, <2>4
<1>8. hurt # a + 3
  <2> SUFFICES ASSUME hurt = a + 3 PROVE FALSE
    OBVIOUS
  <2>1. /\ wire[a + 3] \in Noise \ {Len(body)} /\ wire[a + 2] = type
        /\ wire[a + 4] = Crc(head)
    BY <1>1, <1>2
  <2>2. seen = [head EXCEPT ![3] = wire[a + 3]]
    BY <1>3, <1>4, <2>1
  <2>3. 3 \in DOMAIN head /\ head[3] = Len(body)
    BY <1>4
  <2>4. Crc([head EXCEPT ![3] = wire[a + 3]]) # Crc(head)
    BY <1>5, <2>1, <2>3 DEF Detected
  <2>5. QED
    BY <1>3, <2>1, <2>2, <2>4
<1>9. wire[a + 2] = type /\ wire[a + 3] = Len(body)
  BY <1>2, <1>7, <1>8
<1>10. seen = head
  BY <1>3, <1>4, <1>9
<1>11. hurt # a + 4
  BY <1>2, <1>3, <1>10
<1>12. hurt \notin (a + 1)..(a + 4)
  BY <1>1, <1>6, <1>7, <1>8, <1>11
<1>13. QED
  BY <1>9, <1>12 DEF a, body, type

\* So is a payload.
LEMMA PayloadIntact ==
    ASSUME Laid, NEW k \in 1..Len(sent), NEW cells \in Seq(Nat),
           Len(cells) = Len(Payload(sent[k])),
           \A i \in 1..Len(cells) : wire[Offset(sent, k - 1) + 4 + i] = cells[i],
           wire[Offset(sent, k - 1) + 5 + Len(cells)] = Crc(cells)
    PROVE  /\ cells = Payload(sent[k])
           /\ hurt \notin (Offset(sent, k - 1) + 5)
                            ..(Offset(sent, k - 1) + 5 + Len(Payload(sent[k])))
<1> DEFINE a == Offset(sent, k - 1)
           body == Payload(sent[k])
           n == Len(body)
<1>1. a \in Nat /\ n \in Nat /\ body \in Seq(Nat)
  BY SentType
<1>2. /\ \A i \in 1..n :
           /\ a + (4 + i) # hurt => wire[a + (4 + i)] = body[i]
           /\ a + (4 + i) = hurt => wire[a + (4 + i)] \in Noise \ {body[i]}
      /\ a + (5 + n) # hurt => wire[a + (5 + n)] = Crc(body)
      /\ a + (5 + n) = hurt => wire[a + (5 + n)] # Crc(body)
  BY FrameLaid
<1>3. /\ \A i \in 1..n : wire[a + 4 + i] = cells[i]
      /\ wire[a + 5 + n] = Crc(cells) /\ Len(cells) = n
  OBVIOUS
<1>4. Detected(body)
  BY SentType, NoiseAssumption DEF Laid
<1> HIDE DEF a, body
<1>5. /\ \A i \in 1..n : a + (4 + i) = a + 4 + i /\ a + 4 + i \in Nat
      /\ a + (5 + n) = a + 5 + n
  BY <1>1
<1>6. /\ \A i \in 1..n :
           /\ a + 4 + i # hurt => cells[i] = body[i]
           /\ a + 4 + i = hurt => cells[i] \in Noise \ {body[i]}
      /\ a + 5 + n # hurt => Crc(cells) = Crc(body)
      /\ a + 5 + n = hurt => Crc(cells) # Crc(body)
  BY <1>2, <1>3, <1>5
<1>7. DOMAIN cells = 1..n /\ DOMAIN body = 1..n
  BY <1>1, <1>3
<1>8. ASSUME NEW i \in 1..n, hurt = a + 4 + i
      PROVE  FALSE
  <2>1. cells[i] \in Noise \ {body[i]}
    BY <1>6, <1>8
  <2>2. \A j \in 1..n : j # i => cells[j] = body[j]
    BY <1>1, <1>6, <1>8
  <2>3. cells = [body EXCEPT ![i] = cells[i]]
    BY <1>1, <1>7, <2>2
  <2>4. Crc([body EXCEPT ![i] = cells[i]]) # Crc(body)
    BY <1>4, <1>7, <2>1 DEF Detected
  <2>5. Crc(cells) = Crc(body)
    BY <1>1, <1>6, <1>8
  <2>6. QED
    BY <2>3, <2>4, <2>5
<1>9. cells = body
  <2>1. \A i \in 1..n : cells[i] = body[i]
    BY <1>6, <1>8
  <2> HIDE DEF n
  <2>2. QED
    BY <1>1, <1>7, <2>1
<1>10. hurt # a + 5 + n
  BY <1>6, <1>9
<1>11. hurt \notin (a + 5)..(a + 5 + n)
  <2> SUFFICES ASSUME hurt \in (a + 5)..(a + 5 + n) PROVE FALSE
    OBVIOUS
  <2>1. \A x \in (a + 5)..(a + 5 + n) :
            x # a + 5 + n => x - (a + 4) \in 1..n /\ x = a + 4 + (x - (a + 4))
    <3> HIDE DEF n
    <3>1. QED
      BY <1>1
  <2>2. QED
    BY <1>8, <1>10, <2>1
<1>12. QED
  BY <1>9, <1>11 DEF a, body

\* A frame that stands where the k-th one said begins is the k-th one said.
LEMMA FrameIntact ==
    ASSUME Laid, wire \in Seq(Nat), fed \in 0..Len(wire), NEW k \in 1..(Len(sent) + 1),
           NEW f \in FrameRecord, HoldsFrame(f), f.at = Offset(sent, k - 1)
    PROVE  /\ k <= Len(sent) /\ ~Faulty(k)
           /\ f.type = TypeOf(sent[k]) /\ f.payload = Payload(sent[k])
<1> DEFINE a == Offset(sent, k - 1)
<1>1. f.payload \in Seq(Nat) /\ Len(f.payload) \in Nat
  BY DEF FrameRecord
<1>2. /\ a + FrameSize(Len(f.payload)) <= fed
      /\ wire[a + 1] = MAGIC /\ wire[a + 2] = f.type /\ wire[a + 3] = Len(f.payload)
      /\ wire[a + 4] = Crc(<<wire[a + 1], wire[a + 2], wire[a + 3]>>)
      /\ \A i \in 1..Len(f.payload) : wire[a + 4 + i] = f.payload[i]
      /\ wire[a + 5 + Len(f.payload)] = Crc(f.payload)
      /\ f.type \in Type /\ Len(f.payload) <= MAX_PAYLOAD
  BY DEF HoldsFrame
<1>3. k \in 1..Len(sent)
  <2>1. CASE k = Len(sent) + 1
    <3>1. Len(sent) \in Nat /\ sent \in Seq(Message)
      BY SentType
    <3>2. k - 1 = Len(sent) /\ Len(sent) \in 0..Len(sent)
      BY <2>1, <3>1
    <3>3. a = Len(wire) /\ Len(wire) \in Nat
      BY <3>2 DEF Laid
    <3>4. QED
      BY <1>1, <1>2, <3>3 DEF FrameSize, HEADER_SIZE, TRAILER_SIZE
  <2>2. QED
    <3>1. Len(sent) \in Nat
      BY SentType
    <3>2. QED
      BY <2>1, <3>1
<1>4. HeaderStands(a)
  BY <1>2 DEF HeaderStands
<1>5. /\ hurt \notin (a + 1)..(a + 4)
      /\ f.type = TypeOf(sent[k]) /\ Len(f.payload) = Len(Payload(sent[k]))
  BY <1>2, <1>3, <1>4, HeaderIntact
<1>6. /\ f.payload = Payload(sent[k])
      /\ hurt \notin (a + 5)..(a + 5 + Len(Payload(sent[k])))
  BY <1>1, <1>2, <1>3, <1>5, PayloadIntact
<1>7. /\ Offset(sent, k) = a + 5 + Len(Payload(sent[k]))
      /\ a \in Nat /\ Len(Payload(sent[k])) \in Nat
  BY <1>3, SentType
<1>8. hurt \notin Part(sent, k)
  <2> HIDE DEF a
  <2>1. Part(sent, k) = (a + 1)..(a + 5 + Len(Payload(sent[k])))
    BY <1>7 DEF Part, a
  <2>2. QED
    BY <1>5, <1>6, <1>7, <2>1
<1>9. TypeOf(sent[k]) \in Type /\ ~(Len(Payload(sent[k])) > MAX_PAYLOAD)
  <2>1. TypeOf(sent[k]) \in Type /\ Len(Payload(sent[k])) <= MAX_PAYLOAD
    BY <1>2, <1>5
  <2>2. QED
    BY <1>7, <2>1, ParserAssumption
<1>10. ~Faulty(k)
  BY <1>8, <1>9 DEF Faulty
<1>11. QED
  BY <1>3, <1>5, <1>6, <1>10

\* The frames the caller has end where those said end.
LEMMA EndsAgree ==
    ASSUME ParserInv, Laid, Said, NEW k \in 0..Len(frames)
    PROVE  EndOf(k) = Offset(sent, k) /\ k <= Len(sent)
<1>1. CASE k = 0
  <2>1. Len(sent) \in Nat
    BY SentType
  <2>2. QED
    BY <1>1, <2>1, OffsetZero DEF EndOf
<1>2. CASE k \in 1..Len(frames)
  <2>1. /\ k <= Len(sent) /\ frames[k].payload = Payload(sent[k])
        /\ frames[k].at = Offset(sent, k - 1)
        /\ EndOf(k) = frames[k].at + FrameSize(Len(frames[k].payload))
    BY <1>2 DEF Said, EndOf
  <2>2. k \in 1..Len(sent)
    <3>1. Len(sent) \in Nat
      BY SentType
    <3>2. QED
      BY <1>2, <2>1, <3>1
  <2>3. /\ Offset(sent, k - 1) \in Nat /\ Len(Payload(sent[k])) \in Nat
        /\ Offset(sent, k) = Offset(sent, k - 1) + 5 + Len(Payload(sent[k]))
    BY <2>2, SentType
  <2>4. FrameSize(Len(Payload(sent[k]))) = 5 + Len(Payload(sent[k]))
    BY <2>3 DEF FrameSize, HEADER_SIZE, TRAILER_SIZE
  <2>5. EndOf(k) = Offset(sent, k - 1) + (5 + Len(Payload(sent[k])))
    BY <2>1, <2>4
  <2>6. QED
    BY <2>1, <2>3, <2>5
<1>3. QED
  <2>1. Len(frames) \in Nat
    BY DEF ParserInv, ParserType
  <2>2. QED
    BY <1>1, <1>2, <2>1

-----------------------------------------------------------------------------
LEMMA MessagesStart == MessagesInit => MessagesInv
<1> SUFFICES ASSUME MessagesInit PROVE MessagesInv
  OBVIOUS
<1>1. ParserInv
  BY Start DEF MessagesInit
<1>2. RightVerdict
  BY VerdictAtStart DEF MessagesInit
<1>3. Laid
  BY LaidAtStart
<1>4. Said
  <2>1. Len(frames) = 0
    BY DEF MessagesInit, Init
  <2>2. QED
    BY <2>1 DEF Said
<1>5. QED
  BY <1>1, <1>2, <1>3, <1>4 DEF MessagesInv

LEMMA LaidKept ==
    ASSUME Laid, UNCHANGED <<wire, sent, hurt>>
    PROVE  Laid'
BY DEF Laid

\* What is said of a frame the caller has does not depend on the rest.
LEMMA SaidKept ==
    ASSUME Said, UNCHANGED <<sent, hurt, frames>>
    PROVE  Said'
<1>1. \A k \in 1..Len(frames) : Faulty(k)' = Faulty(k)
  BY DEF Faulty
<1>2. QED
  BY <1>1 DEF Said

LEMMA SaidAtUse ==
    ASSUME MessagesInv, ParserInv', Use, UNCHANGED <<sent, hurt>>
    PROVE  Said'
<1> DEFINE n == Len(frames)
           f == InUse
<1>1. /\ ParserType /\ ParserType' /\ Laid /\ Said /\ InStep /\ caller = "use"
      /\ frames' = Append(frames, f)
  BY DEF MessagesInv, ParserInv, Use
<1>2. /\ n \in Nat /\ Len(frames') = n + 1 /\ frames'[n + 1] = f
      /\ \A k \in 1..n : frames'[k] = frames[k]
  BY <1>1 DEF ParserType
<1>3. HoldsFrame(f) /\ f.at = EndOf(n)
  BY <1>1 DEF InStep
<1>4. EndOf(n) = Offset(sent, n) /\ n <= Len(sent)
  BY <1>1, <1>2, EndsAgree DEF MessagesInv
<1>5. f \in FrameRecord
  <2>1. frames' \in Seq(FrameRecord) /\ n + 1 \in 1..Len(frames')
    BY <1>1, <1>2 DEF ParserType
  <2>2. frames'[n + 1] \in FrameRecord
    BY <2>1, ElementOfSeq
  <2>3. QED
    BY <1>2, <2>2
<1>6. n + 1 \in 1..(Len(sent) + 1) /\ (n + 1) - 1 = n
  <2>1. Len(sent) \in Nat
    BY <1>1, SentType
  <2>2. QED
    BY <1>2, <1>4, <2>1
<1>7. /\ n + 1 <= Len(sent) /\ ~Faulty(n + 1)
      /\ f.type = TypeOf(sent[n + 1]) /\ f.payload = Payload(sent[n + 1])
      /\ f.at = Offset(sent, (n + 1) - 1)
  <2>1. wire \in Seq(Nat) /\ fed \in 0..Len(wire)
    BY <1>1 DEF ParserType
  <2>2. f.at = Offset(sent, (n + 1) - 1)
    BY <1>3, <1>4, <1>6
  <2> HIDE DEF f
  <2>3. QED
    BY <1>1, <1>3, <1>5, <1>6, <2>1, <2>2, FrameIntact
<1>8. \A k : Faulty(k)' = Faulty(k)
  BY DEF Faulty
<1>9. ASSUME NEW k \in 1..Len(frames')
       PROVE  /\ k <= Len(sent) /\ ~Faulty(k)
              /\ frames'[k].type = TypeOf(sent[k]) /\ frames'[k].payload = Payload(sent[k])
              /\ frames'[k].at = Offset(sent, k - 1)
  <2>1. CASE k \in 1..n
    BY <1>1, <1>2, <2>1 DEF Said
  <2>2. CASE k = n + 1
    BY <1>2, <1>7, <2>2
  <2>3. QED
    BY <1>2, <2>1, <2>2
<1>10. QED
  BY <1>8, <1>9 DEF Said

LEMMA MessagesStep == MessagesInv /\ [MessagesNext]_messagesVars => MessagesInv'
<1> SUFFICES ASSUME MessagesInv, [MessagesNext]_messagesVars
             PROVE  MessagesInv'
  OBVIOUS
<1>1. [Next]_parserVars /\ UNCHANGED <<sent, hurt>>
  BY DEF MessagesNext, messagesVars
<1>2. ParserInv' /\ RightVerdict'
  BY <1>1, ParserStep, VerdictStep DEF MessagesInv
<1>3. UNCHANGED wire /\ (Use \/ UNCHANGED frames)
  <2>1. CASE UNCHANGED parserVars
    BY <2>1 DEF parserVars
  <2>2. CASE \E i \in 1..ReadMax : Read(i)
    BY <2>2 DEF Read
  <2>3. CASE next
    BY <2>3 DEF next, NeedMore, Error, Ready
  <2>4. CASE Use
    <3>1. UNCHANGED wire
      BY <2>4 DEF Use
    <3>2. QED
      BY <2>4, <3>1
  <2>5. QED
    BY <1>1, <2>1, <2>2, <2>3, <2>4 DEF Next
<1>4. Laid'
  BY <1>1, <1>3, LaidKept DEF MessagesInv
<1>5. Said'
  <2>1. CASE Use
    BY <1>1, <1>2, <2>1, SaidAtUse
  <2>2. CASE UNCHANGED frames
    BY <1>1, <2>2, SaidKept DEF MessagesInv
  <2>3. QED
    BY <1>3, <2>1, <2>2
<1>6. QED
  BY <1>2, <1>4, <1>5 DEF MessagesInv

\* For every peer and every cell altered in its stream that the CRC tells, however
\* the stream is cut into reads: the caller gets messages only as they were said,
\* none altered, out of order or behind a faulty one (buildFrame, buildHello,
\* buildAck, buildEnd, next, parseHello, parseAck, parseEnd).
THEOREM OnlySaidIsHeard == MessagesSpec => []OnlyWhatWasSaid
<1>1. MessagesInv => OnlyWhatWasSaid
  <2> SUFFICES ASSUME MessagesInv, NEW k \in 1..Len(frames)
               PROVE  k <= Len(sent) /\ ~Faulty(k) /\ Parse(frames[k]) = Meaning(sent[k])
    BY DEF OnlyWhatWasSaid
  <2> DEFINE m == sent[k]
             f == frames[k]
  <2>1. /\ k <= Len(sent) /\ ~Faulty(k) /\ f.type = TypeOf(m) /\ f.payload = Payload(m)
        /\ Laid
    BY DEF MessagesInv, Said
  <2>2. k \in 1..Len(sent) /\ m \in Message /\ sent \in Speeches /\ k \in DOMAIN sent
    <3>1. sent \in Seq(Message) /\ Len(sent) \in Nat /\ sent \in Speeches
      BY <2>1, SentType DEF Laid
    <3>2. k \in 1..Len(sent)
      BY <2>1, <3>1
    <3>3. QED
      BY <2>1, <3>1, <3>2, SentType
  <2>3. CASE m \in Own
    BY <2>1, <2>3, RoundTrip
  <2>4. CASE m \in Raw
    <3>1. m.kind = "Raw" /\ m.type \in Nat /\ m.payload \in Seq(Nat)
      BY <2>4 DEF Raw
    <3>2. TypeOf(m) = m.type /\ Payload(m) = m.payload /\ Meaning(m) = m.means
      BY <3>1 DEF TypeOf, Payload, Meaning
    <3>3. m.type \in Type /\ Len(m.payload) <= MAX_PAYLOAD
      <4>1. m.type \in Type /\ ~(Len(m.payload) > MAX_PAYLOAD)
        BY <2>1, <3>2 DEF Faulty
      <4>2. QED
        BY <3>1, <4>1, ParserAssumption
    <3>4. Parse([type |-> m.type, payload |-> m.payload]) = m.means
      BY <2>2, <3>1, <3>3, RawAssumption
    <3>5. Parse(f) = Parse([type |-> m.type, payload |-> m.payload])
      BY <2>1, <3>2 DEF Parse
    <3>6. QED
      BY <2>1, <3>2, <3>4, <3>5
  <2>5. QED
    BY <2>1, <2>2, <2>3, <2>4 DEF Message
<1>2. QED
  BY <1>1, MessagesStart, MessagesStep, PTL DEF MessagesSpec

\* Where the caller stands in the stream, and what it would see there.
LEMMA AtHand ==
    ASSUME MessagesInv
    PROVE  LET n == Len(frames)
           IN  /\ n \in 0..Len(sent) /\ EndOf(n) = Offset(sent, n) /\ Offset(sent, n) \in Nat
               /\ Len(sent) \in Nat /\ fed \in Nat /\ fed <= Offset(sent, Len(sent))
               /\ n < Len(sent) => /\ n + 1 \in 1..Len(sent) /\ (n + 1) - 1 = n
                                   /\ Offset(sent, n + 1) \in Nat
<1> DEFINE n == Len(frames)
<1>1. /\ n \in Nat /\ fed \in 0..Len(wire) /\ Laid /\ sent \in Seq(Message)
      /\ Len(wire) \in Nat /\ Len(sent) \in Nat
  BY SentType DEF MessagesInv, ParserInv, ParserType
<1>2. EndOf(n) = Offset(sent, n) /\ n <= Len(sent)
  BY <1>1, EndsAgree DEF MessagesInv
<1>3. Offset(sent, n) \in Nat /\ n \in 0..Len(sent)
  BY <1>1, <1>2, PlacesFinite
<1>4. fed \in Nat /\ fed <= Offset(sent, Len(sent))
  BY <1>1 DEF Laid
<1>5. n < Len(sent) => n + 1 \in 0..Len(sent) /\ n + 1 \in 1..Len(sent) /\ (n + 1) - 1 = n
  BY <1>1
<1>6. n < Len(sent) => Offset(sent, n + 1) \in Nat
  BY <1>1, <1>5, PlacesFinite
<1>7. QED
  BY <1>1, <1>2, <1>3, <1>4, <1>5, <1>6

\* A frame without fault stands in the stream as a receiver wants it.
LEMMA FaultlessStands ==
    ASSUME Laid, wire \in Seq(Nat), NEW k \in 1..Len(sent), ~Faulty(k)
    PROVE  LET a == Offset(sent, k - 1)
           IN  /\ HeaderStands(a)
               /\ wire[a + 3] = Len(Payload(sent[k]))
               /\ a + FrameSize(wire[a + 3]) <= fed => HoldsFrame(FrameAt(a))
<1> DEFINE a == Offset(sent, k - 1)
           body == Payload(sent[k])
           n == Len(body)
           type == TypeOf(sent[k])
<1>1. /\ a \in Nat /\ n \in Nat /\ body \in Seq(Nat)
      /\ Part(sent, k) = (a + 1)..(a + 5 + n)
  BY SentType DEF Part
<1>2. hurt \notin Part(sent, k) /\ type \in Type /\ ~(n > MAX_PAYLOAD)
  BY DEF Faulty
<1>3. /\ a + 1 # hurt => wire[a + 1] = MAGIC
      /\ a + 2 # hurt => wire[a + 2] = type
      /\ a + 3 # hurt => wire[a + 3] = n
      /\ a + 4 # hurt => wire[a + 4] = Crc(Header(type, body))
      /\ \A i \in 1..n : a + (4 + i) # hurt => wire[a + (4 + i)] = body[i]
      /\ a + (5 + n) # hurt => wire[a + (5 + n)] = Crc(body)
  BY FrameLaid
<1>4. /\ Offset(sent, k) \in Nat /\ Offset(sent, k) <= Len(wire) /\ Len(wire) \in Nat
      /\ Offset(sent, k) = a + 5 + n
  <2>1. sent \in Seq(Message) /\ Len(sent) \in 0..Len(sent) /\ k \in 0..Len(sent)
    BY SentType
  <2>2. Offset(sent, k) <= Offset(sent, Len(sent)) /\ Offset(sent, k) \in Nat
    BY <2>1, OffsetGrows
  <2>3. Len(wire) = Offset(sent, Len(sent)) /\ Len(wire) \in Nat
    BY DEF Laid
  <2>4. QED
    BY <2>2, <2>3, SentType
<1>5. Header(type, body) = <<MAGIC, type, n>>
  BY DEF Header
<1> HIDE DEF a, body, type
<1>6. /\ wire[a + 1] = MAGIC /\ wire[a + 2] = type /\ wire[a + 3] = n
      /\ wire[a + 4] = Crc(<<MAGIC, type, n>>)
      /\ \A i \in 1..n : wire[a + 4 + i] = body[i]
      /\ wire[a + 5 + n] = Crc(body)
  <2>1. /\ a + 1 # hurt /\ a + 2 # hurt /\ a + 3 # hurt /\ a + 4 # hurt
        /\ a + (5 + n) # hurt /\ a + (5 + n) = a + 5 + n
    BY <1>1, <1>2
  <2>2. \A i \in 1..n : a + (4 + i) # hurt /\ a + (4 + i) = a + 4 + i
    BY <1>1, <1>2
  <2>3. QED
    BY <1>3, <1>5, <2>1, <2>2
<1>7. HeaderStands(a)
  BY <1>1, <1>2, <1>6, ParserAssumption DEF HeaderStands
<1> DEFINE cells == SubSeq(wire, a + 5, a + 4 + n)
<1>8. cells = body
  <2>1. a + 4 \in Nat /\ (a + 4) + n <= Len(wire) /\ (a + 4) + 1 = a + 5
    BY <1>1, <1>4
  <2>2. \A from, m \in Nat : from + m <= Len(wire) =>
            /\ SubSeq(wire, from + 1, from + m) \in Seq(Nat)
            /\ Len(SubSeq(wire, from + 1, from + m)) = m
            /\ \A i \in 1..m : SubSeq(wire, from + 1, from + m)[i] = wire[from + i]
    BY PartOf
  <2>3. /\ SubSeq(wire, (a + 4) + 1, (a + 4) + n) \in Seq(Nat)
        /\ Len(SubSeq(wire, (a + 4) + 1, (a + 4) + n)) = n
        /\ \A i \in 1..n : SubSeq(wire, (a + 4) + 1, (a + 4) + n)[i] = wire[(a + 4) + i]
    BY <1>1, <2>1, <2>2, Zenon
  <2>4. cells = SubSeq(wire, (a + 4) + 1, (a + 4) + n)
    BY <2>1
  <2>5. /\ cells \in Seq(Nat) /\ Len(cells) = n
        /\ \A i \in 1..n : cells[i] = body[i]
    BY <1>6, <2>3, <2>4, Zenon
  <2> HIDE DEF cells, n
  <2>6. DOMAIN cells = 1..n /\ DOMAIN body = 1..n
    BY <1>1, <2>5 DEF n
  <2>7. QED
    BY <1>1, <2>5, <2>6
<1>9. ASSUME a + FrameSize(wire[a + 3]) <= fed
      PROVE  HoldsFrame(FrameAt(a))
  <2> DEFINE g == [type |-> type, payload |-> body, at |-> a]
  <2>1. FrameAt(a) = g
    BY <1>6, <1>8 DEF FrameAt
  <2>2. n <= MAX_PAYLOAD
    BY <1>1, <1>2, ParserAssumption
  <2>3. HoldsFrame(g)
    BY <1>2, <1>6, <1>9, <2>2 DEF HoldsFrame
  <2> HIDE DEF g
  <2>4. QED
    BY <2>1, <2>3
<1>10. QED
  BY <1>6, <1>7, <1>9 DEF a, body

\* The caller of next gets every message that has arrived whole before the first
\* faulty one, and gives the stream up at none but a faulty one, for every peer,
\* every altered cell the CRC tells and every way of cutting the stream into reads
\* (feed, compact, next).
THEOREM AllSaidIsHeard == MessagesSpec => []NothingMissed
<1>1. MessagesInv => NothingMissed
  <2> SUFFICES ASSUME MessagesInv PROVE NothingMissed
    OBVIOUS
  <2> DEFINE n == Len(frames)
             a == Offset(sent, n)
  <2>1. /\ n \in 0..Len(sent) /\ EndOf(n) = a /\ a \in Nat
        /\ Len(sent) \in Nat /\ fed \in Nat /\ fed <= Offset(sent, Len(sent))
        /\ n < Len(sent) => /\ n + 1 \in 1..Len(sent) /\ (n + 1) - 1 = n
                            /\ Offset(sent, n + 1) \in Nat
    BY AtHand
  <2>2. /\ Laid /\ RightVerdict /\ wire \in Seq(Nat) /\ sent \in Seq(Message)
    BY SentType DEF MessagesInv, ParserInv, ParserType
  <2>3. ASSUME caller = "read", NEW k \in 1..Len(sent), Offset(sent, k) <= fed
        PROVE  k <= n
    <3> SUFFICES ASSUME ~(k <= n) PROVE FALSE
      OBVIOUS
    <3>1. n < Len(sent) /\ n + 1 \in 0..k /\ k \in 0..Len(sent) /\ n + 1 \in 1..Len(sent)
      BY <2>1
    <3>2. Offset(sent, n + 1) <= Offset(sent, k) /\ Offset(sent, k) \in Nat
          /\ Offset(sent, n + 1) \in Nat
      BY <2>2, <3>1, OffsetGrows
    <3>3. /\ Offset(sent, n + 1) = a + 5 + Len(Payload(sent[n + 1]))
          /\ Len(Payload(sent[n + 1])) \in Nat
      BY <2>1, <2>2, <3>1, SentType
    <3>4. a + 5 + Len(Payload(sent[n + 1])) <= fed
      BY <2>1, <2>3, <3>2, <3>3
    <3>5. \/ fed < a + HEADER_SIZE
          \/ HeaderStands(a) /\ fed < a + FrameSize(wire[a + 3])
      BY <2>1, <2>2, <2>3 DEF RightVerdict
    <3>6. HeaderStands(a) => wire[a + 3] = Len(Payload(sent[n + 1]))
      <4>1. \A j \in 1..Len(sent) : HeaderStands(Offset(sent, j - 1))
                => wire[Offset(sent, j - 1) + 3] = Len(Payload(sent[j]))
        BY <2>2, HeaderIntact
      <4>2. n + 1 \in 1..Len(sent) /\ (n + 1) - 1 = n
        BY <2>1, <3>1
      <4>3. HeaderStands(Offset(sent, (n + 1) - 1))
                => wire[Offset(sent, (n + 1) - 1) + 3] = Len(Payload(sent[n + 1]))
        BY <4>1, <4>2, Zenon
      <4>4. QED
        BY <4>2, <4>3
    <3>7. CASE fed < a + HEADER_SIZE
      BY <2>1, <3>3, <3>4, <3>7 DEF HEADER_SIZE
    <3>8. CASE HeaderStands(a) /\ fed < a + FrameSize(wire[a + 3])
      <4> DEFINE size == Len(Payload(sent[n + 1]))
      <4>1. fed < a + FrameSize(size) /\ size \in Nat /\ a + 5 + size <= fed
        BY <3>3, <3>4, <3>6, <3>8
      <4> HIDE DEF size, a
      <4>2. FrameSize(size) = 5 + size
        BY <4>1 DEF FrameSize, HEADER_SIZE, TRAILER_SIZE
      <4>3. QED
        BY <2>1, <4>1, <4>2
    <3>9. QED
      BY <3>5, <3>7, <3>8
  <2>4. ASSUME caller = "broken"
        PROVE  n < Len(sent) /\ Faulty(n + 1)
    <3>1. /\ a + HEADER_SIZE <= fed
          /\ HeaderStands(a) => a + FrameSize(wire[a + 3]) <= fed /\ ~HoldsFrame(FrameAt(a))
      BY <2>1, <2>2, <2>4 DEF RightVerdict
    <3>2. n < Len(sent)
      <4>1. n # Len(sent)
        BY <2>1, <3>1 DEF HEADER_SIZE
      <4>2. QED
        BY <2>1, <4>1
    <3>3. Faulty(n + 1)
      <4> SUFFICES ASSUME ~Faulty(n + 1) PROVE FALSE
        OBVIOUS
      <4>1. n + 1 \in 1..Len(sent) /\ (n + 1) - 1 = n
        BY <2>1, <3>2
      <4>2. HeaderStands(a) /\ (a + FrameSize(wire[a + 3]) <= fed => HoldsFrame(FrameAt(a)))
        BY <2>2, <4>1, FaultlessStands
      <4>3. QED
        BY <3>1, <4>2
    <3>4. QED
      BY <3>2, <3>3
  <2>5. QED
    BY <2>3, <2>4 DEF NothingMissed
<1>2. QED
  BY <1>1, MessagesStart, MessagesStep, PTL DEF MessagesSpec
=============================================================================
