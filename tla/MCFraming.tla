------------------------------- MODULE MCFraming -------------------------------
(* Framing for TLC: fourteen messages in pairs, and three pieces of a file.  *)
EXTENDS Framing, FiniteSetsExt

\* The top bit of a CRC is dropped: TLC's integers have 32 bits and a sign.
Crc31(cells) == SumSet({2^i : i \in crc32(cells) \ {31}})

HelloMsg(name) == [kind |-> "Hello", fileSize |-> 3, name |-> name]
DataMsg(bytes) == [kind |-> "Data", bytes |-> bytes]
AckMsg(message) == [kind |-> "Ack", status |-> 6, message |-> message]
RawMsg(type, cells, means) ==
    [kind |-> "Raw", type |-> type, payload |-> cells, means |-> means]

Good == {HelloMsg(<<1>>), HelloMsg(<<1, 2>>), DataMsg(<<7>>), DataMsg(<<7, 200, 7>>),
         [kind |-> "End", fileCrc |-> 9], AckMsg(<<>>)}

Odd == {DataMsg(<<>>), AckMsg(<<1, 2>>),
        RawMsg(1, <<3, 2, 1>>, Malformed), RawMsg(1, <<3, 2, 1, 1>>, Malformed),
        RawMsg(3, <<>>, Malformed), RawMsg(4, <<6, 2, 1, 1>>, AckMsg(<<1, 1>>)),
        RawMsg(2, <<1, 1, 1, 1, 1>>, Malformed), RawMsg(5, <<1>>, Malformed)}

Talk == {<<a, b>> : a \in Good, b \in Good \cup Odd}
          \cup {<<DataMsg(<<49, 50, 51, 52>>), DataMsg(<<53>>), DataMsg(<<54, 55, 56, 57>>)>>}
==============================================================================
