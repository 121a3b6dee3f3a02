------------------------------ MODULE Transfer ------------------------------
(***************************************************************************)
(* A transfer from end to end: the client of module Client in place of     *)
(* Session's arbitrary peer, against the sessions of module Session.  The  *)
(* two programs share the connection only; each may be slow, time out or   *)
(* be stopped at any moment.                                               *)
(***************************************************************************)
EXTENDS Session, Client

transferVars == <<vars, clientVars>>

\* Session's peer may put on the wire whatever a client does.
ClientSpeech ==
    /\ Part \in PeerFrames
    /\ \A n \in Nat : Hello(n) \in PeerFrames
    /\ \A b \in Seq(Bytes) : Data(b) \in PeerFrames /\ End(Crc(b)) \in PeerFrames

TransferInit == Init /\ ClientInit

TransferNext ==
    \E c \in Conns : \/ ClientNext(c) /\ UNCHANGED sessionVars
                     \/ SessionStep(c) /\ UNCHANGED clientVars

TransferSpec == TransferInit /\ [][TransferNext]_transferVars

\* Both programs run and the reactor comes back to every session; no time-out
\* of either side, no stop and no kill is counted on.
TransferFairness ==
    \A c \in Conns :
        /\ WF_transferVars(ClientStep(c) /\ UNCHANGED sessionVars)
        /\ WF_transferVars(HandlerStep(c) /\ UNCHANGED clientVars)
        /\ WF_transferVars((Accept(c) \/ Refuse(c)) /\ UNCHANGED clientVars)
        /\ WF_transferVars((RefuseWrite(c) \/ RefuseClose(c)) /\ UNCHANGED clientVars)
        /\ WF_transferVars(/\ \E events \in SUBSET {"IN", "OUT", "HUP"} : Handle(c, events)
                           /\ UNCHANGED clientVars)
        /\ WF_transferVars((CloseSession(c) \/ Rearm(c)) /\ UNCHANGED clientVars)

FairTransferSpec == TransferSpec /\ TransferFairness

-----------------------------------------------------------------------------
Word(code) ==
    CASE code = Running -> "nothing"
      [] code = 0 -> "accepted"
      [] code \in {5, Killed} -> "unconfirmed"
      [] OTHER -> "failed"

Promise == INSTANCE Delivery WITH
    Clients <- Conns,
    kept <- {c \in Conns : stored[c] # <<>>},
    told <- [c \in Conns |-> Word(client[c].exit)]

\* The exit code of a client tells the truth about the server's directory,
\* through every partial write, lost ACK, time-out, kill and stop
\* (sendFile's codes, Session::onEnd).
ExitCodesTrue == Promise!DeliverySpec

\* What is stored is what the client read, as many bytes as it announced, and
\* if nobody touched the file, the file: no chunk is lost, repeated or padded,
\* wherever the file's end falls in the last one (sendFile's loop, onData).
StoredAsSent ==
    \A c \in Conns : stored[c] # <<>> =>
        /\ stored[c] = <<client[c].sent>>
        /\ Len(client[c].sent) = client[c].size
        /\ ~file[c].changed => client[c].sent = file[c].bytes

\* The server's handler gives up no session while the client still works on it;
\* only the idle time-out, the limit, the stop and a failing epoll_ctl do
\* (Session::handle returning false).
ServerWaitsForClient ==
    \A c \in Conns : At(c, "drop") => client[c].exit # Running

-----------------------------------------------------------------------------
(* The inductive invariant behind ExitCodesTrue.                           *)

NoEnd(stream) == \A i \in 1..Len(stream) : stream[i].type # "End"

\* The last byte of END may have left the client.
EndSent(c) == client[c].pc \in {"ack", "goodbye"} \/ client[c].exit \in {0, 5, 6, Killed}

\* Until END is sent none is on its way and nothing is stored; writeAll holds a
\* frame or its rest; a refused client's session has its verdict, and an
\* accepted client's file is stored.
PairInv(c) ==
    /\ ~EndSent(c) => stored[c] = <<>> /\ NoEnd(up[c]) /\ NoEnd(sess[c].parser)
    /\ Doing(c, "write") => \/ Len(client[c].out) = 1
                            \/ Len(client[c].out) = 2 /\ client[c].out[1] = Part
    /\ \A i \in 1..Len(client[c].out) : client[c].out[i] \in PeerFrames
    /\ client[c].exit = 6 => stored[c] = <<>> /\ ~Undecided(c)
    /\ Doing(c, "goodbye") \/ client[c].exit = 0 => stored[c] # <<>>
    /\ (client[c].exit = Running) = (client[c].pc \notin {"leave", "done"})

\* What the proofs of module TransferProofs carry from state to state.
TransferInv == ClientTypeOK /\ \A c \in Conns : PairInv(c)

-----------------------------------------------------------------------------
(* The inductive invariant behind StoredAsSent and ServerWaitsForClient.   *)

\* Frame f brings the server from the first `from` bytes client s has sent to
\* the first `to` of them: DATA holds what lies between, END comes after all.
Carries(s, f, from, to) ==
    /\ f.type \in {"Hello", "Data", "End", "Part"}
    /\ f.type = "Hello" => f.size = s.size
    /\ f.type = "End" => to = Len(s.sent)
    /\ from <= to
    /\ IF f.type = "Data" THEN f.data = SubSeq(s.sent, from + 1, to) ELSE to = from

\* So do the frames of a stream, one after another.
StreamCarries(s, stream, from, to) ==
    \E at \in [0..Len(stream) -> 0..Len(s.sent)] :
        /\ at[0] = from /\ at[Len(stream)] = to
        /\ \A i \in 1..Len(stream) : Carries(s, stream[i], at[i - 1], at[i])

\* An undecided session r has hashed the beginning of what client s has sent;
\* the rest stands, whole and in order, in its parser, in the socket's stream
\* and in writeAll's buffer.  Of a client that is gone the end may be missing.
NothingLost(s, r, stream) ==
    /\ r.hashed = SubSeq(s.sent, 1, r.received)
    /\ r.hello => r.expected = s.size
    /\ \E a \in 0..Len(s.sent) :
         /\ StreamCarries(s, r.parser, r.received, a)
         /\ \E b \in 0..Len(s.sent) :
              /\ StreamCarries(s, stream, a, b)
              /\ s.exit = Running => StreamCarries(s, s.out, b, Len(s.sent))

\* A client has sent the beginning of its file, unless somebody wrote to it.
FileInv(s, f) ==
    ~f.changed =>
        /\ s.pc # "open" /\ s.exit # 2 => s.size = Len(f.bytes)
        /\ Len(s.sent) <= Len(f.bytes)
        /\ s.sent = SubSeq(f.bytes, 1, Len(s.sent))

\* A client at work holds its end of the connection open; before it connects
\* nothing has happened, and before it is accepted no session has.
WaitInv(c) ==
    /\ client[c].exit = Running =>
         /\ peer[c] # "closed" /\ upEnd[c] = "open"
         /\ client[c].pc # "write" => client[c].out = <<>>
    /\ client[c].pc \in {"open", "connect"} =>
         peer[c] = "none" /\ up[c] = <<>> /\ client[c].sent = <<>>
    /\ link[c] \in {"none", "backlog"} => sess[c] = NewSession

StreamInv(c) ==
    /\ FileInv(client[c], file[c])
    /\ stored[c] # <<>> => /\ stored[c] = <<client[c].sent>>
                           /\ Len(client[c].sent) = client[c].size
    /\ Undecided(c) => NothingLost(client[c], sess[c], up[c])

\* What those proofs carry with it from state to state.
DataInv == \A c \in Conns : WaitInv(c) /\ StreamInv(c)

-----------------------------------------------------------------------------
\* Client and server never wait for each other for ever, though the client
\* writes its whole file before it reads and neither has a time limit: an
\* early refusal fits into the socket, and the rest of the file is drained
\* (Session::onReadable in Draining).
ClientExits == \A c \in Conns : <>(client[c].pc = "done")
=============================================================================
