-------------------------------- MODULE Crc32 --------------------------------
(***************************************************************************)
(* util::Crc32: the table and the running sum, and beside them the shift   *)
(* register that defines CRC-32.  A std::uint32_t is the set of the places *)
(* of its ones, so that exclusive or is the symmetric difference.          *)
(***************************************************************************)
EXTENDS Naturals, Sequences

Word == SUBSET (0..31)
LowByte == 0..7

Xor(a, b) == (a \ b) \cup (b \ a)
ShiftRight(a, n) == {i \in 0..31 : i + n \in a}

\* A std::uint8_t.
Byte == 0..255
Weight == <<1, 2, 4, 8, 16, 32, 64, 128>>
Bits(byte) == {i \in LowByte : (byte \div Weight[i + 1]) % 2 = 1}

AllOnes == 0..31
Polynomial == {31, 30, 29, 27, 26, 24, 23, 21, 20, 19, 15, 9, 8, 5}    \* 0xEDB88320

\* One turn of makeTable's inner loop.
Turn(a) == IF 0 \in a THEN Xor(Polynomial, ShiftRight(a, 1)) ELSE ShiftRight(a, 1)

EightTurns(a) == Turn(Turn(Turn(Turn(Turn(Turn(Turn(Turn(a))))))))

table == [index \in SUBSET LowByte |-> EightTurns(index)]

\* What a loop over data makes of c when its body is the function step.
Run(step, c, data) ==
    LET run[n \in 0..Len(data)] == IF n = 0 THEN c ELSE step[run[n - 1]][data[n]]
    IN  run[Len(data)]

\* update: its body, and the loop over the bytes.
Feed == [c \in Word |-> [byte \in Byte |->
            Xor(table[Xor(c, Bits(byte)) \cap LowByte], ShiftRight(c, 8))]]

Update(c, data) == Run(Feed, c, data)

Value(c) == Xor(c, AllOnes)

crc32(data) == Value(Update(AllOnes, data))

-----------------------------------------------------------------------------
(* CRC-32 by its definition: the bits of the data, each byte's lowest      *)
(* first, are shifted through the register.                                *)

ShiftIn(r, bit) ==
    IF 0 \in r <=> bit THEN ShiftRight(r, 1) ELSE Xor(Polynomial, ShiftRight(r, 1))

ShiftInByte(r, b) ==
    ShiftIn(ShiftIn(ShiftIn(ShiftIn(ShiftIn(ShiftIn(ShiftIn(ShiftIn(
        r, 0 \in b), 1 \in b), 2 \in b), 3 \in b), 4 \in b), 5 \in b), 6 \in b), 7 \in b)

Register == [r \in Word |-> [byte \in Byte |-> ShiftInByte(r, Bits(byte))]]

CRC32(data) == Xor(AllOnes, Run(Register, AllOnes, data))
=============================================================================
