------------------------------ MODULE Protocol ------------------------------
(***************************************************************************)
(* The frames of the nexus_transmitter protocol (src/protocol),            *)
(* as the two programs tell them apart.  A frame is                        *)
(*     magic type length headerCrc | payload | payloadCrc                  *)
(* and the receiver sees one of six things in its byte stream: a HELLO, a  *)
(* DATA, an END or an ACK frame, whose HELLO and END payloads may fail     *)
(* their parse function (ok = FALSE), bytes on which FrameParser::next     *)
(* answers Error ("Garbage": bad magic, bad CRC, oversized length, unknown *)
(* type), or some bytes of a frame that do not complete it ("Part").       *)
(* The file name in HELLO, the text in ACK and all wording are left out.   *)
(***************************************************************************)
EXTENDS Integers, Sequences

CONSTANTS
    Bytes,     \* the contents a file byte may have
    Crc(_)     \* util::Crc32 over a sequence of bytes

\* protocol::Status.  Timeout is declared by the code and never sent.
Status == {"Ok", "ProtocolError", "CrcMismatch", "SizeMismatch", "IoError",
           "Timeout", "Busy"}

Hello(n)  == [type |-> "Hello", ok |-> TRUE, size |-> n]
BadHello  == [type |-> "Hello", ok |-> FALSE, size |-> 0]
Data(b)   == [type |-> "Data", data |-> b]
End(v)    == [type |-> "End", ok |-> TRUE, crc |-> v]
BadEnd    == [type |-> "End", ok |-> FALSE, crc |-> 0]
Ack(s)    == [type |-> "Ack", status |-> s]
Garbage   == [type |-> "Garbage"]
Part      == [type |-> "Part"]

Frame ==
    [type : {"Hello"}, ok : BOOLEAN, size : Nat]
      \cup [type : {"Data"}, data : Seq(Bytes)]
      \cup [type : {"End"}, ok : BOOLEAN, crc : Nat]
      \cup [type : {"Ack"}, status : Status]
      \cup {Garbage, Part}

\* A frame as it crosses a socket that takes only some of its bytes at first.
InTwoPieces(f) == <<Part, f>>
=============================================================================
