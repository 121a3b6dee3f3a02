------------------------------- MODULE Socket -------------------------------
(***************************************************************************)
(* The TCP connections of the program, as the two ends see them through    *)
(* TcpTransport: what the kernel does on connect, read, send, shutdown and *)
(* close.  The kernel is not part of the repository; the rules below are   *)
(* the ones Session, Server and Client rely on, and the one that motivates *)
(* the Draining state of a session:                                        *)
(*   - close() with unread data in the receive buffer sends RST, and the   *)
(*     RST may destroy data the other end has not received yet;            *)
(*   - close() with an empty receive buffer sends FIN after the data;      *)
(*   - data sent to a socket that is closed is answered by RST.            *)
(* up[c] carries client-to-server bytes in flight or unread, down[c] the   *)
(* other direction, each bounded as socket buffers are.                    *)
(***************************************************************************)
EXTENDS Protocol

CONSTANTS
    Conns,      \* connections, each used once
    UpCap,      \* pieces the client-to-server buffers hold
    DownCap     \* pieces the server-to-client buffers hold

ASSUME CapAssumption == UpCap \in Nat \ {0} /\ DownCap \in Nat \ {0}

VARIABLES
    up, down,         \* the two byte streams, as sequences of pieces
    upEnd, downEnd,   \* what follows the stream: nothing yet, FIN or RST
    peer,             \* the client's socket
    link              \* the server's socket

sockVars == <<up, down, upEnd, downEnd, peer, link>>

Ends == {"open", "fin", "rst"}

SocketTypeOK ==
    /\ up \in [Conns -> Seq(Frame)]
    /\ down \in [Conns -> Seq(Frame)]
    /\ upEnd \in [Conns -> Ends]
    /\ downEnd \in [Conns -> Ends]
    /\ peer \in [Conns -> {"none", "open", "closed"}]
    /\ link \in [Conns -> {"none", "backlog", "open", "closed"}]

SocketInit ==
    /\ up = [c \in Conns |-> <<>>]
    /\ down = [c \in Conns |-> <<>>]
    /\ upEnd = [c \in Conns |-> "open"]
    /\ downEnd = [c \in Conns |-> "open"]
    /\ peer = [c \in Conns |-> "none"]
    /\ link = [c \in Conns |-> "none"]

-----------------------------------------------------------------------------
(* What a RST leaves of a stream it overtakes: some prefix.                *)
Cut(stream, c) ==
    \E n \in 0..Len(stream[c]) :
        stream' = [stream EXCEPT ![c] = SubSeq(@, 1, n)]

-----------------------------------------------------------------------------
(* The client's end.                                                       *)

\* connect(): the kernel completes the handshake, the connection waits to be
\* accepted.
Connect(c) ==
    /\ peer[c] = "none"
    /\ peer' = [peer EXCEPT ![c] = "open"]
    /\ link' = [link EXCEPT ![c] = "backlog"]
    /\ UNCHANGED <<up, down, upEnd, downEnd>>

CanSend(c) == peer[c] = "open" /\ upEnd[c] = "open" /\ downEnd[c] # "rst"

\* send() that takes a piece.  The server's socket may be closed already: the
\* piece is taken and lost, and the answer to it is RST.
Send(c, piece) ==
    /\ CanSend(c)
    /\ \/ /\ link[c] # "closed"
          /\ Len(up[c]) < UpCap
          /\ up' = [up EXCEPT ![c] = Append(@, piece)]
          /\ UNCHANGED <<down, downEnd>>
       \/ /\ link[c] = "closed"
          /\ downEnd' = [downEnd EXCEPT ![c] = "rst"]
          /\ Cut(down, c)
          /\ UNCHANGED up
    /\ UNCHANGED <<upEnd, peer, link>>

\* read() that returns a piece.
Receive(c) ==
    /\ peer[c] = "open"
    /\ down[c] # <<>>
    /\ down' = [down EXCEPT ![c] = Tail(@)]
    /\ UNCHANGED <<up, upEnd, downEnd, peer, link>>

\* shutdown(SHUT_WR).
ShutUp(c) ==
    /\ peer[c] = "open"
    /\ upEnd[c] = "open"
    /\ upEnd' = [upEnd EXCEPT ![c] = "fin"]
    /\ UNCHANGED <<up, down, downEnd, peer, link>>

\* close(), or the end of the client's process: RST if it left data unread,
\* FIN otherwise.
Hangup(c) ==
    /\ peer[c] = "open"
    /\ peer' = [peer EXCEPT ![c] = "closed"]
    /\ down' = [down EXCEPT ![c] = <<>>]
    /\ IF down[c] = <<>>
       THEN /\ upEnd' = [upEnd EXCEPT ![c] = IF @ = "open" THEN "fin" ELSE @]
            /\ UNCHANGED up
       ELSE /\ upEnd' = [upEnd EXCEPT ![c] = "rst"]
            /\ Cut(up, c)
    /\ UNCHANGED <<downEnd, link>>

\* The connection is reset under both programs (the client's host went away).
Reset(c) ==
    /\ peer[c] = "open"
    /\ peer' = [peer EXCEPT ![c] = "closed"]
    /\ down' = [down EXCEPT ![c] = <<>>]
    /\ upEnd' = [upEnd EXCEPT ![c] = "rst"]
    /\ Cut(up, c)
    /\ UNCHANGED <<downEnd, link>>

-----------------------------------------------------------------------------
(* The server's end.  The operators below say what a system call does to   *)
(* the connection; the calls themselves are in Session and Server.         *)

Readable(c) == up[c] # <<>> \/ upEnd[c] # "open"
Writable(c) == Len(down[c]) < DownCap \/ upEnd[c] = "rst"
HungUp(c)   == upEnd[c] = "rst" \/ (upEnd[c] = "fin" /\ downEnd[c] = "fin")

\* What epoll reports of a socket registered for IN or OUT: that event when it
\* holds, and HUP (or ERR) whether it was asked for or not.
Reports(c, registered) ==
    LET asked == IF registered = "IN" THEN Readable(c) ELSE Writable(c)
    IN  (IF asked THEN {registered} ELSE {})
          \cup (IF HungUp(c) THEN {"HUP"} ELSE {})

\* accept(): the listener hands over the connection.
TakeFromBacklog(c) ==
    /\ link[c] = "backlog"
    /\ link' = [link EXCEPT ![c] = "open"]

\* close() of the listener resets the connections nobody accepted.
DropFromBacklog(c) ==
    /\ link[c] = "backlog"
    /\ link' = [link EXCEPT ![c] = "closed"]
    /\ up' = [up EXCEPT ![c] = <<>>]
    /\ downEnd' = [downEnd EXCEPT ![c] = "rst"]
    /\ UNCHANGED <<down, upEnd, peer>>

\* send() of one piece, when the buffer has room.  If the client's socket is
\* closed the piece is taken, dropped and answered by RST.
PutDown(c, piece) ==
    /\ upEnd[c] # "rst"
    /\ IF peer[c] = "closed"
       THEN /\ upEnd' = [upEnd EXCEPT ![c] = "rst"]
            /\ Cut(up, c)
            /\ UNCHANGED down
       ELSE /\ Len(down[c]) < DownCap
            /\ down' = [down EXCEPT ![c] = Append(@, piece)]
            /\ UNCHANGED <<up, upEnd>>

\* send() with no room: EAGAIN.
NoRoom(c) == upEnd[c] # "rst" /\ peer[c] # "closed" /\ Len(down[c]) >= DownCap

\* shutdown(SHUT_WR).
ShutDown(c) ==
    downEnd' = [downEnd EXCEPT ![c] = IF @ = "open" THEN "fin" ELSE @]

\* close().
CloseLink(c) ==
    /\ link' = [link EXCEPT ![c] = "closed"]
    /\ up' = [up EXCEPT ![c] = <<>>]
    /\ IF up[c] = <<>>
       THEN /\ ShutDown(c)
            /\ UNCHANGED down
       ELSE /\ downEnd' = [downEnd EXCEPT ![c] = "rst"]
            /\ Cut(down, c)
    /\ UNCHANGED <<upEnd, peer>>
=============================================================================
