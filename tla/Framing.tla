------------------------------- MODULE Framing -------------------------------
(***************************************************************************)
(* Messages and, beside them, Session::onData's running CRC over what a    *)
(* file's frames carry.                                                    *)
(***************************************************************************)
EXTENDS Messages, Crc32

VARIABLES m_crc     \* Session::m_crc

framingVars == <<messagesVars, m_crc>>

FramingInit == MessagesInit /\ m_crc = AllOnes

\* Wrong: every frame begins anew.
CountAnew ==
    m_crc' = IF caller = "use" /\ frame.type = 2 THEN Update(AllOnes, InUse.payload)
             ELSE m_crc

\* The payload of a DATA frame, when the caller comes to it.
Count ==
    m_crc' = IF caller = "use" /\ frame.type = 2 THEN Update(m_crc, InUse.payload)
             ELSE m_crc

FramingNext == MessagesNext /\ Count

FramingSpec == FramingInit /\ [][FramingNext]_framingVars

-----------------------------------------------------------------------------
FrameOut == [type : Nat, payload : Seq(Nat), at : Nat]

\* The file's bytes: what the DATA frames carry, one after another.
Joined == [bytes \in Seq(Nat) |-> [f \in FrameOut |->
              IF f.type = 2 THEN bytes \o f.payload ELSE bytes]]

BytesOf(fs) == Run(Joined, <<>>, fs)

\* The running CRC over the pieces of a file, whatever their sizes, is the
\* CRC-32 of the whole (Crc32::update, makeTable, Session::onData).
RunningCrc == Value(m_crc) = CRC32(BytesOf(frames))
=============================================================================
