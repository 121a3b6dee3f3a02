----------------------------- MODULE FrameParser -----------------------------
(***************************************************************************)
(* protocol::FrameParser under its caller (Session::onReadable and         *)
(* processFrames, readAck): bytes come from read in any pieces, next is    *)
(* called until it needs more, and a frame it returns points into the      *)
(* buffer.                                                                 *)
(*                                                                         *)
(* A cell stands for a field of the header, a byte of the payload or the   *)
(* trailer.  A field cut in two is as good as a field not yet there, since *)
(* the code looks at a header, and at a payload with its trailer, only as  *)
(* a whole.                                                                *)
(***************************************************************************)
EXTENDS Naturals, Sequences

CONSTANTS
    MAGIC, MAX_PAYLOAD,
    Crc(_),      \* util::crc32
    ReadMax      \* the size of the caller's buffer for read

ASSUME ParserAssumption == MAX_PAYLOAD \in Nat /\ ReadMax \in Nat \ {0}

VARIABLES
    wire,      \* the stream from the peer
    fed,       \* how much of it read has returned
    m_buf, m_pos,
    caller,    \* what the caller does next: "read", "next", "use"; "broken": no more
    frame,     \* the Frame of the last outcome; data is an offset into m_buf
    frames     \* what the caller has got out of frames, and where each began

parserVars == <<wire, fed, m_buf, m_pos, caller, frame, frames>>

HEADER_CRC_SPAN == 3    \* magic, type, length
HEADER_SIZE == 4
TRAILER_SIZE == 1
FrameSize(len) == HEADER_SIZE + len + TRAILER_SIZE

\* Type::Hello, Data, End, Ack.
Type == 1..4

Init ==
    /\ wire \in Seq(Nat)
    /\ fed = 0
    /\ m_buf = <<>> /\ m_pos = 0
    /\ caller = "read"
    /\ frame = [type |-> 2, data |-> 0, size |-> 0]
    /\ frames = <<>>

-----------------------------------------------------------------------------
\* compact; wrong: nothing is erased, or one cell too many.
compactNot == m_buf
compactOneMore == SubSeq(m_buf, m_pos + 2, Len(m_buf))
compact == SubSeq(m_buf, m_pos + 1, Len(m_buf))

\* read, and feed of what it returned.
Read(n) ==
    /\ caller = "read"
    /\ fed + n <= Len(wire)
    /\ m_buf' = compact \o SubSeq(wire, fed + 1, fed + n)
    /\ m_pos' = 0
    /\ fed' = fed + n
    /\ caller' = "next"
    /\ UNCHANGED <<wire, frame, frames>>

avail == Len(m_buf) - m_pos
h(i) == m_buf[m_pos + i]
len == h(3)
payload == SubSeq(m_buf, m_pos + HEADER_SIZE + 1, m_pos + HEADER_SIZE + len)

HeaderCrcRight == h(HEADER_CRC_SPAN + 1) = Crc(<<h(1), h(2), h(3)>>)
HeaderRight == h(1) = MAGIC /\ HeaderCrcRight /\ len <= MAX_PAYLOAD

\* Wrong: the payload is taken as it is.
PayloadUnchecked == TRUE
PayloadCrcRight == h(HEADER_SIZE + len + 1) = Crc(payload)

\* Wrong: one cell more is waited for.
HasFrameLate == avail > FrameSize(len)
HasFrame == avail >= FrameSize(len)

NeedMore ==
    /\ caller = "next"
    /\ avail >= HEADER_SIZE => HeaderRight /\ ~HasFrame
    /\ caller' = "read"
    /\ UNCHANGED <<wire, fed, m_buf, m_pos, frame, frames>>

\* The caller gives the stream up.
Error ==
    /\ caller = "next"
    /\ avail >= HEADER_SIZE
    /\ HeaderRight => HasFrame /\ ~(PayloadCrcRight /\ h(2) \in Type)
    /\ caller' = "broken"
    /\ UNCHANGED <<wire, fed, m_buf, m_pos, frame, frames>>

Ready ==
    /\ caller = "next"
    /\ avail >= HEADER_SIZE
    /\ HeaderRight /\ HasFrame /\ PayloadCrcRight /\ h(2) \in Type
    /\ frame' = [type |-> h(2), data |-> m_pos + HEADER_SIZE, size |-> len]
    /\ m_pos' = m_pos + FrameSize(len)
    /\ caller' = "use"
    /\ UNCHANGED <<wire, fed, m_buf, frames>>

next == NeedMore \/ Error \/ Ready

\* What the caller sees through frame.
InUse ==
    [type |-> frame.type,
     payload |-> SubSeq(m_buf, frame.data + 1, frame.data + frame.size),
     at |-> fed - Len(m_buf) + frame.data - HEADER_SIZE]

\* It looks at the payload in the buffer, then asks for the next frame.
Use ==
    /\ caller = "use"
    /\ frames' = Append(frames, InUse)
    /\ caller' = "next"
    /\ UNCHANGED <<wire, fed, m_buf, m_pos, frame>>

Next == (\E n \in 1..ReadMax : Read(n)) \/ next \/ Use

Spec == Init /\ [][Next]_parserVars

-----------------------------------------------------------------------------
\* Where the first k frames end in the stream.
EndOf(k) == IF k = 0 THEN 0 ELSE frames[k].at + FrameSize(Len(frames[k].payload))

\* What has been read holds, at f.at, what buildFrame makes of f.
HoldsFrame(f) ==
    LET size == Len(f.payload)
    IN  /\ f.at + FrameSize(size) <= fed
        /\ wire[f.at + 1] = MAGIC /\ wire[f.at + 2] = f.type /\ wire[f.at + 3] = size
        /\ wire[f.at + 4] = Crc(<<wire[f.at + 1], wire[f.at + 2], wire[f.at + 3]>>)
        /\ \A i \in 1..size : wire[f.at + 4 + i] = f.payload[i]
        /\ wire[f.at + 5 + size] = Crc(f.payload)
        /\ f.type \in Type /\ size <= MAX_PAYLOAD

\* However the stream was cut into reads, the frames handed out are those that
\* stand in it one after another from its start: none is skipped, repeated,
\* shifted by the compaction or overwritten while in use (feed, next, compact).
DecodesStream ==
    \A k \in 1..Len(frames) : HoldsFrame(frames[k]) /\ frames[k].at = EndOf(k - 1)

\* The cells of the stream behind its first a are a header as buildFrame makes it.
HeaderStands(a) ==
    /\ wire[a + 1] = MAGIC
    /\ wire[a + 4] = Crc(<<wire[a + 1], wire[a + 2], wire[a + 3]>>)
    /\ wire[a + 3] <= MAX_PAYLOAD

\* The frame that would begin there.
FrameAt(a) ==
    [type |-> wire[a + 2], payload |-> SubSeq(wire, a + 5, a + 4 + wire[a + 3]), at |-> a]

\* Whatever has arrived, however it was cut, the caller is sent to read only when
\* the next frame is not there as a whole and what is there of it may yet become
\* one, and the stream is given up only when what has arrived can begin no frame
\* (the order of the checks in next, feed and compact).
RightVerdict ==
    LET a == EndOf(Len(frames))
    IN  /\ caller = "read" =>
             \/ fed < a + HEADER_SIZE
             \/ HeaderStands(a) /\ fed < a + FrameSize(wire[a + 3])
        /\ caller = "broken" =>
             /\ a + HEADER_SIZE <= fed
             /\ HeaderStands(a) =>
                  a + FrameSize(wire[a + 3]) <= fed /\ ~HoldsFrame(FrameAt(a))

\* A peer cannot make the buffer grow past one frame and one read, however long
\* it sends (compact, the bound on length).
BufferBounded == Len(m_buf) < FrameSize(MAX_PAYLOAD) + ReadMax
=============================================================================
