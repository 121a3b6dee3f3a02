------------------------------ MODULE Messages ------------------------------
(***************************************************************************)
(* The frames of protocol/Protocol.cpp from end to end: what a peer says   *)
(* is built into frames, a cell of the stream may be altered on the way,   *)
(* and the other side parses frames and payloads again.                    *)
(*                                                                         *)
(* A number of the payload (size, name length, status, CRC) is one cell.   *)
(***************************************************************************)
EXTENDS FrameParser, FiniteSets

CONSTANTS
    MAX_NAME_LEN,
    Speeches,    \* what peers may say: sequences of messages
    Noise        \* what an altered cell may hold

VARIABLES
    sent,     \* what this peer says
    hurt      \* the cell of the stream that is altered, 0 for none

messagesVars == <<parserVars, sent, hurt>>

Malformed == [kind |-> "Malformed"]

\* What the program says.
Own ==
    [kind : {"Hello"}, fileSize : Nat, name : Seq(Nat)]
      \cup [kind : {"Data"}, bytes : Seq(Nat)]
      \cup [kind : {"End"}, fileCrc : Nat]
      \cup [kind : {"Ack"}, status : Nat, message : Seq(Nat)]

\* A peer that is not this program may send any frame; means is what is to be
\* made of it.
Raw ==
    [kind : {"Raw"}, type : Nat, payload : Seq(Nat), means : Own \cup {Malformed}]

Message == Own \cup Raw

\* Wrong: nothing is cut.
Whole(text) == text
Cut(text) == IF Len(text) > MAX_NAME_LEN THEN SubSeq(text, 1, MAX_NAME_LEN) ELSE text

HelloCells(fileSize, name) == <<fileSize, Len(Cut(name))>> \o Cut(name)
AckCells(status, message) == <<status, Len(Cut(message))>> \o Cut(message)

\* The payload buildHello, buildData, buildEnd and buildAck make of a message.
Payload(m) ==
    CASE m.kind = "Hello" -> HelloCells(m.fileSize, m.name)
      [] m.kind = "Data" -> m.bytes
      [] m.kind = "End" -> <<m.fileCrc>>
      [] m.kind = "Ack" -> AckCells(m.status, m.message)
      [] OTHER -> m.payload

TypeOf(m) ==
    CASE m.kind = "Hello" -> 1 [] m.kind = "Data" -> 2 [] m.kind = "End" -> 3
      [] m.kind = "Ack" -> 4 [] OTHER -> m.type

Header(type, cells) == <<MAGIC, type, Len(cells)>>

buildFrame(type, cells) ==
    Header(type, cells) \o <<Crc(Header(type, cells))>> \o cells \o <<Crc(cells)>>

CellsOf(m) == buildFrame(TypeOf(m), Payload(m))
SizeOf(m) == FrameSize(Len(Payload(m)))

\* Where the first k frames of a speech end: the number of their cells.
Offset(speech, k) == Cardinality(UNION {{j} \X (1..SizeOf(speech[j])) : j \in 1..k})

Part(speech, k) == Offset(speech, k - 1) + 1 .. Offset(speech, k)

\* One frame after another.
Stream(speech) ==
    [p \in 1..Offset(speech, Len(speech)) |->
        LET k == CHOOSE k \in DOMAIN speech : p \in Part(speech, k)
        IN  CellsOf(speech[k])[p - Offset(speech, k - 1)]]

parseHello(cells) ==
    IF Len(cells) < 2 THEN Malformed
    ELSE IF Len(cells) # 2 + cells[2] \/ cells[2] > MAX_NAME_LEN THEN Malformed
    ELSE [kind |-> "Hello", fileSize |-> cells[1], name |-> SubSeq(cells, 3, Len(cells))]

parseEnd(cells) ==
    IF Len(cells) # 1 THEN Malformed ELSE [kind |-> "End", fileCrc |-> cells[1]]

parseAck(cells) ==
    IF Len(cells) < 2 THEN Malformed
    ELSE IF Len(cells) # 2 + cells[2] THEN Malformed
    ELSE [kind |-> "Ack", status |-> cells[1], message |-> SubSeq(cells, 3, Len(cells))]

Parse(f) ==
    CASE f.type = 1 -> parseHello(f.payload)
      [] f.type = 2 -> [kind |-> "Data", bytes |-> f.payload]
      [] f.type = 3 -> parseEnd(f.payload)
      [] f.type = 4 -> parseAck(f.payload)

-----------------------------------------------------------------------------
MessagesInit ==
    /\ sent \in Speeches
    /\ \/ hurt = 0 /\ wire = Stream(sent)
       \/ /\ hurt \in 1..Offset(sent, Len(sent))
          /\ LET stream == Stream(sent)
             IN  \E noise \in Noise \ {stream[hurt]} : wire = [stream EXCEPT ![hurt] = noise]
    /\ Init

MessagesNext == Next /\ UNCHANGED <<sent, hurt>>

MessagesSpec == MessagesInit /\ [][MessagesNext]_messagesVars

-----------------------------------------------------------------------------
ASSUME MessagesAssumption == MAX_NAME_LEN \in Nat /\ Speeches \subseteq Seq(Message)

\* A frame of a foreign peer that can be taken at all is meant as the formats say.
ASSUME RawAssumption ==
    \A speech \in Speeches : \A k \in DOMAIN speech :
        LET m == speech[k]
        IN  m.kind = "Raw" /\ m.type \in Type /\ Len(m.payload) <= MAX_PAYLOAD
              => Parse([type |-> m.type, payload |-> m.payload]) = m.means

Detected(cells) ==
    \A i \in DOMAIN cells : \A noise \in Noise \ {cells[i]} :
        Crc([cells EXCEPT ![i] = noise]) # Crc(cells)

\* The CRC tells a header and a payload from what one altered cell makes of it.
\* (CRC-32 does for every change that spans at most 32 bits.)
ASSUME NoiseAssumption ==
    \A speech \in Speeches : \A k \in DOMAIN speech :
        /\ Detected(Header(TypeOf(speech[k]), Payload(speech[k])))
        /\ Detected(Payload(speech[k]))

-----------------------------------------------------------------------------
\* The k-th frame sent is altered, or none that a receiver may take.
Faulty(k) ==
    \/ hurt \in Part(sent, k)
    \/ TypeOf(sent[k]) \notin Type
    \/ Len(Payload(sent[k])) > MAX_PAYLOAD

\* What a receiver should make of a message.
Meaning(m) ==
    CASE m.kind = "Hello" -> [m EXCEPT !.name = Cut(@)]
      [] m.kind = "Ack" -> [m EXCEPT !.message = Cut(@)]
      [] m.kind = "Raw" -> m.means
      [] OTHER -> m

\* Nothing is handed out but what the peer said, in its order and with its
\* meaning; never an altered frame, nor anything behind it (next's checks, the
\* agreement of build... and parse...).
OnlyWhatWasSaid ==
    \A k \in 1..Len(frames) :
        k <= Len(sent) /\ ~Faulty(k) /\ Parse(frames[k]) = Meaning(sent[k])

\* The parser waits for more only when every frame that has arrived whole is
\* handed out, and gives a stream up only for a faulty frame (NeedMore and Error
\* of next, feed between frames).
NothingMissed ==
    /\ caller = "read" =>
         \A k \in 1..Len(sent) : Offset(sent, k) <= fed => k <= Len(frames)
    /\ caller = "broken" => Len(frames) < Len(sent) /\ Faulty(Len(frames) + 1)
=============================================================================
