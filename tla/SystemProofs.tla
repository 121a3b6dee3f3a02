---------------------------- MODULE SystemProofs ----------------------------
(***************************************************************************)
(* Proofs about module System.  Its steps are steps of the server against  *)
(* some clients, and steps of transfers under some schedule, so that what  *)
(* ServerProofs and TransferProofs show of each half holds of the two      *)
(* programs together.  Neither half does by itself: that a step of         *)
(* the thread is one of one session needs the reactor's invariant, and     *)
(* that a client is one the server expects needs the transfer's.           *)
(***************************************************************************)
EXTENDS System, ServerProofs, TransferProofs

\* The thread, time and the signal do to the connections what one session does,
\* or nothing.
LEMMA ServerMoves ==
    ASSUME IInv, ServerInv,
           \/ ThreadStep \/ Interrupt
           \/ \E c \in Conns : TimePasses(c)
    PROVE  UNCHANGED vars \/ \E c \in Conns : SessionStep(c)
<1>1. CASE ThreadStep
  BY <1>1, ThreadStepKeeps
<1>2. CASE Interrupt
  BY <1>2 DEF Interrupt
<1>3. ASSUME NEW c \in Conns, TimePasses(c)
      PROVE  SessionStep(c)
  BY <1>3 DEF TimePasses, SessionStep
<1>4. QED
  BY <1>1, <1>2, <1>3

\* A client's move is one the server expects of a client, or it does not see it.
LEMMA ClientMoves ==
    ASSUME ClientSpeech, IInv, TransferInv, NEW c \in Conns,
           ClientMove(c, ClientNext(c))
    PROVE  Client(c) \/ UNCHANGED allVars
<1>1. /\ ClientNext(c) /\ UNCHANGED sessionVars /\ UNCHANGED serverVars
      /\ thread \in {"close", "stopped"} /\ peer[c] = "none" => peer'[c] = "none"
  BY DEF ClientMove, MayConnect
<1>2. Peer(c) \/ UNCHANGED vars
  BY <1>1, ClientIsPeer
<1>3. CASE UNCHANGED vars
  BY <1>1, <1>3 DEF allVars
<1>4. CASE Peer(c)
  <2>1. ASSUME peer[c] = "none"
        PROVE  peer'[c] = "open"
    <3>1. Connect(c)
      BY <1>4, <2>1 DEF Peer, Send, CanSend, Receive, ShutUp, Hangup, Reset
    <3>2. QED
      BY <3>1 DEF Connect, IInv, TypeOK, SocketTypeOK
  <2>2. thread \in {"close", "stopped"} => peer[c] # "none"
    BY <1>1, <2>1
  <2>3. QED
    BY <1>1, <1>4, <2>2 DEF Client
<1>5. QED
  BY <1>2, <1>3, <1>4

LEMMA SystemStep ==
    ASSUME ClientSpeech, IInv, ServerInv, TransferInv, [SystemNext]_systemVars
    PROVE  [ServerNext]_allVars /\ [TransferNext]_transferVars
<1>1. CASE UNCHANGED systemVars
  BY <1>1 DEF systemVars, allVars, transferVars
<1>2. ASSUME \/ ThreadStep \/ Interrupt
             \/ \E c \in Conns : TimePasses(c),
             UNCHANGED clientVars
      PROVE  [ServerNext]_allVars /\ [TransferNext]_transferVars
  <2>1. ServerNext
    BY <1>2 DEF ServerNext
  <2>2. UNCHANGED vars \/ \E c \in Conns : SessionStep(c)
    BY <1>2, ServerMoves
  <2>3. QED
    BY <1>2, <2>1, <2>2 DEF TransferNext, transferVars
<1>3. ASSUME NEW c \in Conns, ClientMove(c, ClientNext(c))
      PROVE  [ServerNext]_allVars /\ [TransferNext]_transferVars
  <2>1. [ServerNext]_allVars
    BY <1>3, ClientMoves DEF ServerNext
  <2>2. TransferNext
    BY <1>3 DEF ClientMove, TransferNext
  <2>3. QED
    BY <2>1, <2>2
<1>4. QED
  BY <1>1, <1>2, <1>3 DEF SystemNext, ServerMove

LEMMA SystemStart ==
    ASSUME SystemInit
    PROVE  /\ ServerInit /\ TransferInit
           /\ IInv /\ ServerInv /\ TransferInv
<1>1. ServerInit /\ TransferInit
  BY DEF SystemInit, ServerInit, TransferInit
<1>2. QED
  BY <1>1, InitInv, ServerStarts, TransferStart DEF ServerInit

\* The end of the server's stream: it comes with close(), and stays.
HeardInv(c) ==
    /\ link[c] = "none" => peer[c] = "none"
    /\ link[c] = "closed" => downEnd[c] # "open"

LEMMA HeardKept ==
    ASSUME TypeOK, NEW c \in Conns, HeardInv(c), Peer(c) \/ SessionStep(c)
    PROVE  HeardInv(c)'
<1> USE DEF TypeOK, SocketTypeOK, HeardInv, sockVars
<1>1. CASE Peer(c)
  BY <1>1 DEF Peer, Connect, Send, CanSend, Receive, ShutUp, Hangup, Reset, sessionVars
<1>2. CASE Quiet(c)
  BY <1>2 DEF Quiet
<1>3. CASE \/ Accept(c) \/ Refuse(c) \/ LeaveUnaccepted(c)
           \/ \E events \in SUBSET {"IN", "OUT", "HUP"} : Handle(c, events)
  BY <1>3 DEF Accept, Refuse, LeaveUnaccepted, TakeFromBacklog, DropFromBacklog,
              Handle, Step
<1>4. CASE RefuseWrite(c) \/ Rearm(c)
  BY <1>4 DEF RefuseWrite, Rearm, At, Step, PutDown
<1>5. CASE \/ RefuseClose(c) \/ Destroy(c) \/ Crash(c) \/ CloseSession(c)
           \/ SweepClose(c)
  <2>1. CloseLink(c)
    BY <1>5 DEF RefuseClose, Destroy, Crash, CloseSession, SweepClose, Close
  <2>2. link'[c] = "closed" /\ downEnd'[c] # "open"
    BY <2>1 DEF CloseLink, ShutDown
  <2>3. QED
    BY <2>2
<1>6. CASE HandlerStep(c)
  <2>1. link[c] = "open" /\ link' = link
    BY <1>6 DEF HandlerStep, ReadData, ReadEof, ReadError, ReadAgain, NeedMore,
                PartialFrame, BadFrame, OnAckFrame, OnHello, OnData, OnEnd, WriteAck,
                WriteAgain, WriteError, AckSent, Offers, Sending, At, Step
  <2>2. QED
    BY <2>1
<1>7. QED
  BY <1>1, <1>2, <1>3, <1>4, <1>5, <1>6 DEF SessionStep, ServerStep

LEMMA HeardStep ==
    ASSUME TypeOK, \A c \in Conns : HeardInv(c), [Next]_vars
    PROVE  \A c \in Conns : HeardInv(c)'
<1>1. CASE UNCHANGED vars
  BY <1>1 DEF HeardInv, vars, sockVars
<1>2. ASSUME NEW c \in Conns, Peer(c) \/ SessionStep(c), NEW d \in Conns
      PROVE  HeardInv(d)'
  <2>1. CASE d = c
    BY <1>2, <2>1, HeardKept
  <2>2. CASE d # c
    BY <1>2, <2>2, Untouched DEF HeardInv
  <2>3. QED
    BY <2>1, <2>2
<1>3. QED
  BY <1>1, <1>2 DEF Next

-----------------------------------------------------------------------------
(* The theorems.                                                           *)

\* The two halves of the system, each as its own module describes it: nothing
\* the reactor does to a connection surprises a client, and nothing a client
\* does surprises the reactor.
THEOREM HalvesFit ==
    ASSUME ClientSpeech
    PROVE  SystemSpec => ImplementsServer /\ ImplementsTransfer
<1>1. SystemInit => ServerInit /\ TransferInit /\ IInv /\ ServerInv /\ TransferInv
  BY SystemStart
<1>2. IInv /\ ServerInv /\ TransferInv /\ [SystemNext]_systemVars
         => /\ [ServerNext]_allVars /\ [TransferNext]_transferVars
            /\ IInv' /\ ServerInv' /\ TransferInv'
  <2>1. SUFFICES ASSUME IInv, ServerInv, TransferInv, [SystemNext]_systemVars
                 PROVE  /\ [ServerNext]_allVars /\ [TransferNext]_transferVars
                        /\ IInv' /\ ServerInv' /\ TransferInv'
    OBVIOUS
  <2>2. [ServerNext]_allVars /\ [TransferNext]_transferVars
    BY <2>1, SystemStep
  <2>3. ServerInv' /\ [Next]_vars
    BY <2>1, <2>2, ReactorStepKeeps
  <2>4. IInv' /\ TransferInv'
    BY <2>1, <2>2, <2>3, InvStep, TransferStep
  <2>5. QED
    BY <2>2, <2>3, <2>4
<1>3. QED
  BY <1>1, <1>2, PTL DEF SystemSpec, ServerSpec, TransferSpec, ImplementsServer,
                         ImplementsTransfer

\* What the clients are promised holds of the server as it runs: true exit
\* codes, files stored as they were sent, and no session given up early.
THEOREM SystemServesClients ==
    ASSUME ClientSpeech
    PROVE  SystemSpec => /\ ExitCodesTrue
                         /\ []StoredAsSent
                         /\ []ServerWaitsForClient
  BY HalvesFit, ExitCodesAreTrue, SentIsStored, WaitsForClient, PTL
     DEF ImplementsTransfer

\* What the server's operator is promised holds with the clients as they are:
\* the limit, fresh events, matching registrations and a clean stop.
THEOREM SystemServesOperator ==
    ASSUME ClientSpeech
    PROVE  SystemSpec => /\ []LimitKept
                         /\ []DispatchFresh
                         /\ []RegistrationMatches
                         /\ []StopsClean
  BY HalvesFit, LimitIsKept, EventsStayFresh, RegistrationsMatch, StopIsClean, PTL
     DEF ImplementsServer

\* A stopped server leaves no client waiting: accepted, refused, in mid-transfer
\* or still in the backlog, each finds the end of the stream or a reset.
THEOREM ClientsHearTheStop ==
    ASSUME ClientSpeech
    PROVE  SystemSpec => []StopIsHeard
<1>1. Init => \A c \in Conns : HeardInv(c)
  BY DEF Init, SocketInit, HeardInv
<1>2. IInv /\ (\A c \in Conns : HeardInv(c)) /\ [Next]_vars
         => (\A c \in Conns : HeardInv(c))'
  BY HeardStep DEF IInv
<1>3. IInv /\ (\A c \in Conns : HeardInv(c)) /\ StopsClean => StopIsHeard
  BY DEF StopsClean, StopIsHeard, HeardInv
<1>4. SystemSpec => Spec /\ []StopsClean
  BY HalvesFit, ServerImplementsSession, StopIsClean, PTL
     DEF ImplementsServer, ImplementsSession
<1>5. Spec => []IInv
  BY Inductive
<1>6. QED
  BY <1>1, <1>2, <1>3, <1>4, <1>5, PTL DEF Spec
=============================================================================
