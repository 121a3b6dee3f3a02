--------------------------- MODULE ServerProofs ----------------------------
(***************************************************************************)
(* Proofs about module Server.  The reactor keeps its table, its           *)
(* registrations and its batch in agreement (ServerInv); by that invariant *)
(* each of its steps is one step of one session, one step of a client, or  *)
(* changes nothing Session speaks of, so that everything proved of Session *)
(* in SessionProofs holds of the server.                                   *)
(***************************************************************************)
EXTENDS Server, SessionProofs, FiniteSetTheorems

(* What the steps of one connection do to what the reactor looks at.       *)

\* What epoll has to report of a connection lasts, or is the same as before.
Lasts(c) ==
    /\ Readable(c) => Readable(c)'
    /\ Writable(c) => Writable(c)'
    /\ HungUp(c) => HungUp(c)'

SameReports(c) ==
    /\ Readable(c)' <=> Readable(c)
    /\ Writable(c)' <=> Writable(c)
    /\ HungUp(c)' <=> HungUp(c)

\* The other connections look the same afterwards.
LEMMA OthersLookSame ==
    ASSUME TypeOK, NEW c \in Conns, Peer(c) \/ SessionStep(c),
           NEW d \in Conns \ {c}
    PROVE  /\ sess'[d] = sess[d] /\ link'[d] = link[d]
           /\ SameReports(d)
BY Untouched DEF SameReports, Readable, Writable, HungUp

\* A cut stream is a stream, and no longer than it was.
LEMMA CutShortens ==
    ASSUME SocketTypeOK, NEW c \in Conns, Cut(down, c)
    PROVE  Len(down'[c]) \in Nat /\ Len(down'[c]) <= Len(down[c])
<1>1. PICK n \in 0..Len(down[c]) : down' = [down EXCEPT ![c] = SubSeq(@, 1, n)]
  BY DEF Cut
<1>2. Len(SubSeq(down[c], 1, n)) = n /\ Len(down[c]) \in Nat
  BY DEF SocketTypeOK
<1>3. down'[c] = SubSeq(down[c], 1, n)
  BY <1>1 DEF SocketTypeOK
<1>4. QED
  BY <1>2, <1>3

\* A client's step touches no session; whatever epoll had to report of the
\* connection it still has.
LEMMA PeerEffect ==
    ASSUME TypeOK, NEW c \in Conns, ConnInv(c), Peer(c)
    PROVE  /\ sess' = sess
           /\ link'[c] = link[c] \/ (link[c] = "none" /\ link'[c] = "backlog")
           /\ peer[c] # "none" => link'[c] = link[c]
           /\ link[c] = "open" => Lasts(c)
<1> USE DEF TypeOK, SocketTypeOK, Lasts
<1>0. DownCap \in Nat /\ Len(down[c]) \in Nat /\ upEnd[c] \in Ends
  BY CapAssumption
<1>1. sess' = sess
  BY DEF Peer, sessionVars
<1>2. CASE Connect(c)
  BY <1>1, <1>2 DEF Connect, ConnInv, GraceInv
<1>3. ASSUME NEW f \in Frame, Send(c, f)
      PROVE  link'[c] = link[c] /\ Lasts(c)
  <2>1. CASE link[c] # "closed"
    <3>1. up' = [up EXCEPT ![c] = Append(@, f)] /\ UNCHANGED <<down, upEnd, downEnd, link>>
      BY <1>3, <2>1 DEF Send
    <3>2. up'[c] # <<>>
      <4>1. up'[c] = Append(up[c], f)
        BY <3>1
      <4>3. up[c] \in Seq(Frame) /\ f \in Frame
        OBVIOUS
      <4>2. QED
        BY ONLY <4>1, <4>3
    <3>3. QED
      BY <3>1, <3>2 DEF Readable, Writable, HungUp
  <2>2. CASE link[c] = "closed"
    <3>1. /\ UNCHANGED <<up, upEnd, link>> /\ upEnd[c] = "open"
          /\ Len(down'[c]) \in Nat /\ Len(down'[c]) <= Len(down[c])
      BY <1>3, <2>2, CutShortens DEF Send, CanSend
    <3>2. QED
      BY <1>0, <3>1 DEF Readable, Writable, HungUp
  <2>3. QED
    BY <2>1, <2>2
<1>4. CASE Receive(c)
  <2>1. /\ Len(down'[c]) \in Nat /\ Len(down'[c]) <= Len(down[c])
        /\ UNCHANGED <<up, upEnd, downEnd, link>>
    <3>1. down'[c] = Tail(down[c]) /\ down[c] # <<>>
      BY <1>4 DEF Receive
    <3>2. QED
      BY <1>4, <3>1 DEF Receive
  <2>2. link'[c] = link[c] /\ Lasts(c)
    BY <1>0, <2>1 DEF Readable, Writable, HungUp
  <2>3. QED
    BY <1>1, <2>2
<1>5. CASE ShutUp(c)
  <2>1. link'[c] = link[c] /\ Lasts(c)
    BY <1>5 DEF ShutUp, Readable, Writable, HungUp
  <2>2. QED
    BY <1>1, <2>1
<1>6. CASE Hangup(c) \/ Reset(c)
  <2>1. down'[c] = <<>> /\ UNCHANGED <<downEnd, link>>
    BY <1>6 DEF Hangup, Reset
  <2>2. /\ upEnd'[c] # "open"
        /\ upEnd[c] = "rst" => upEnd'[c] = "rst"
        /\ upEnd'[c] \in {"fin", "rst"}
    BY <1>0, <1>6 DEF Hangup, Reset, Ends
  <2>3. Writable(c)'
    BY <2>1, CapAssumption DEF Writable
  <2>4. link'[c] = link[c] /\ Lasts(c)
    BY <2>1, <2>2, <2>3 DEF Readable, HungUp
  <2>5. QED
    BY <1>1, <2>4
<1>7. QED
  <2>1. CASE \E f \in PeerFrames : Send(c, f)
    <3>1. link'[c] = link[c] /\ Lasts(c)
      BY <1>3, <2>1, PeerAssumption
    <3>2. QED
      BY <1>1, <3>1
  <2>2. QED
    BY <1>2, <1>4, <1>5, <1>6, <2>1 DEF Peer

InsidePcs == {"read", "frames", "write", "keep", "drop"}

LEMMA PcAfter ==
    ASSUME NEW s \in SessionType
    PROVE  /\ Touch(s).pc = s.pc
           /\ Taken(s).pc = s.pc
           /\ \A status : queueAck(s, status).pc = "write"
           /\ \A status : queueAck([s EXCEPT !.reports = @ + 1], status).pc = "write"
<1>1. /\ [s EXCEPT !.idle = FALSE].pc = s.pc
      /\ \A p : [s EXCEPT !.parser = p].pc = s.pc
  BY DEF SessionType
<1>2. \A o, p, n : [s EXCEPT !.out = o, !.state = "SendingAck", !.parser = p,
                            !.pc = "write"].pc = "write"
  BY DEF SessionType
<1>3. [s EXCEPT !.reports = @ + 1] \in SessionType
  BY SessionOps
<1>4. \A r \in SessionType : \A o, p : [r EXCEPT !.out = o, !.state = "SendingAck",
                            !.parser = p, !.pc = "write"].pc = "write"
  BY DEF SessionType
<1>5. QED
  BY <1>1, <1>3, <1>4 DEF Touch, Taken, queueAck

\* A step of the handler leaves the session inside its code, and connected.
LEMMA HandlerEffect ==
    ASSUME TypeOK, NEW c \in Conns, HandlerStep(c)
    PROVE  link'[c] = "open" /\ sess'[c].pc \in InsidePcs
<1> USE DEF InsidePcs
<1>0. sess[c] \in SessionType
  BY DEF TypeOK
<1>1. link[c] = "open" /\ link' = link
  BY DEF HandlerStep, ReadData, ReadEof, ReadError, ReadAgain, NeedMore,
         PartialFrame, BadFrame, OnAckFrame, OnHello, OnData, OnEnd, Offers,
         WriteAck, WriteAgain, WriteError, AckSent, Sending, At, Step, sockVars
<1>2. ASSUME NEW pc \in InsidePcs,
             \/ Set(c, Goto(sess[c], pc)) \/ terminate(c, pc)
      PROVE  sess'[c].pc = pc
  BY <1>0, <1>2, MoveData, SetValue DEF terminate, Pcs
<1>3. ASSUME NEW status, fail(c, status)
      PROVE  sess'[c].pc = "write"
  BY <1>0, <1>3, PcAfter, SetValue DEF fail
<1>4. CASE ReadEof(c) \/ ReadError(c) \/ ReadAgain(c) \/ NeedMore(c)
           \/ WriteAgain(c) \/ WriteError(c)
  BY <1>1, <1>2, <1>4 DEF ReadEof, ReadError, ReadAgain, NeedMore, WriteAgain,
                          WriteError, Step
<1>5. CASE ReadData(c)
  <2>1. At(c, "read")
    BY <1>5 DEF ReadData
  <2>2. \A p : [Touch(sess[c]) EXCEPT !.parser = p, !.pc = "frames"].pc = "frames"
    BY <1>0, SessionOps DEF SessionType
  <2>3. \/ sess'[c] = Touch(sess[c])
        \/ \E p : sess'[c] = [Touch(sess[c]) EXCEPT !.parser = p, !.pc = "frames"]
    BY <1>5, SetValue DEF ReadData
  <2>4. QED
    <3>1. Touch(sess[c]).pc = "read"
      BY <1>0, <2>1, PcAfter DEF At
    <3>2. sess'[c].pc \in {"read", "frames"}
      BY ONLY <2>2, <2>3, <3>1
    <3>3. QED
      BY <1>1, <3>2
<1>6. CASE PartialFrame(c)
  BY <1>0, <1>1, <1>6, PcAfter, SetValue DEF PartialFrame, Offers, At
<1>7. CASE BadFrame(c) \/ OnAckFrame(c)
  BY <1>1, <1>3, <1>7 DEF BadFrame, OnAckFrame
<1>8. CASE OnHello(c)
  <2> DEFINE greeted == [Taken(sess[c]) EXCEPT !.hello = TRUE,
                                              !.expected = Head(sess[c].parser).size]
  <2>1. At(c, "frames") /\ sess[c].parser # <<>>
    BY <1>8 DEF OnHello, Offers
  <2>2. Taken(sess[c]) \in SessionType
    BY <1>0, <2>1, SessionOps
  <2>3. \A n : [Taken(sess[c]) EXCEPT !.hello = TRUE, !.expected = n].pc = "frames"
    BY <1>0, <2>1, <2>2, PcAfter DEF SessionType, At
  <2>4. \A n, m, o, p :
           [[[Taken(sess[c]) EXCEPT !.hello = TRUE, !.expected = n]
               EXCEPT !.reports = m]
               EXCEPT !.out = o, !.state = "SendingAck", !.parser = p, !.pc = "write"].pc
             = "write"
    BY <2>2 DEF SessionType
  <2>5. CASE fail(c, "ProtocolError")
    BY <1>1, <1>3, <2>5
  <2>6. CASE Set(c, greeted)
    BY <1>1, <2>3, <2>6, SetValue
  <2>7. CASE Set(c, queueAck([greeted EXCEPT !.reports = @ + 1], "IoError"))
    <3>1. sess'[c] = queueAck([greeted EXCEPT !.reports = @ + 1], "IoError")
      BY <2>7, SetValue
    <3>2. sess'[c].pc = "write"
      BY <2>4, <3>1 DEF queueAck
    <3>3. QED
      BY <1>1, <3>2
  <2>8. QED
    BY <1>8, <2>5, <2>6, <2>7 DEF OnHello
<1>9. CASE OnData(c)
  <2>1. At(c, "frames") /\ sess[c].parser # <<>>
    BY <1>9 DEF OnData, Offers
  <2>2. Taken(sess[c]) \in SessionType /\ Taken(sess[c]).pc = "frames"
    BY <1>0, <2>1, SessionOps, PcAfter DEF At
  <2>3. \A h, n : [Taken(sess[c]) EXCEPT !.hashed = h, !.received = n].pc = "frames"
    BY <2>2 DEF SessionType
  <2>4. CASE \E status : fail(c, status)
    BY <1>1, <1>3, <2>4
  <2>5. CASE \E h, n : Set(c, [Taken(sess[c]) EXCEPT !.hashed = h, !.received = n])
    <3>1. PICK h, n : Set(c, [Taken(sess[c]) EXCEPT !.hashed = h, !.received = n])
      BY <2>5
    <3>2. sess'[c].pc = "frames"
      BY <2>3, <3>1, SetValue
    <3>3. QED
      BY <1>1, <3>2
  <2>6. QED
    BY <1>9, <2>4, <2>5 DEF OnData
<1>10. CASE OnEnd(c)
  <2>1. sess[c].parser # <<>>
    BY <1>10 DEF OnEnd, Offers
  <2>2. [Taken(sess[c]) EXCEPT !.completed = TRUE] \in SessionType
    BY <1>0, <2>1, SessionOps DEF SessionType
  <2>3. queueAck([Taken(sess[c]) EXCEPT !.completed = TRUE], "Ok").pc = "write"
    BY <2>2, PcAfter
  <2>4. QED
    BY <1>1, <1>3, <1>10, <2>3, SetValue DEF OnEnd
<1>11. CASE WriteAck(c) \/ AckSent(c)
  <2>1. /\ sess[c].pc = "write"
        /\ \/ \E o : sess'[c] = [Touch(sess[c]) EXCEPT !.out = o]
           \/ sess'[c] = [Touch(sess[c]) EXCEPT !.state = "Draining", !.pc = "keep"]
    BY <1>11, SetValue DEF WriteAck, AckSent, Sending, At
  <2>2. Touch(sess[c]) \in SessionType /\ Touch(sess[c]).pc = sess[c].pc
    BY <1>0, SessionOps, PcAfter
  <2>3. /\ \A o : [Touch(sess[c]) EXCEPT !.out = o].pc = sess[c].pc
        /\ [Touch(sess[c]) EXCEPT !.state = "Draining", !.pc = "keep"].pc = "keep"
    BY <2>2 DEF SessionType
  <2>4. QED
    BY <1>1, <2>1, <2>3
<1>12. QED
  BY <1>4, <1>5, <1>6, <1>7, <1>8, <1>9, <1>10, <1>11 DEF HandlerStep

\* Entering the handler, and leaving it with the session alive.
LEMMA HandleEffect ==
    ASSUME TypeOK, NEW c \in Conns, NEW events, Handle(c, events)
    PROVE  link' = link /\ link[c] = "open" /\ sess'[c].pc \in InsidePcs
<1> USE DEF InsidePcs
<1>0. sess[c] \in SessionType /\ link[c] = "open" /\ link' = link
  BY DEF TypeOK, Handle, At, Step, sockVars
<1>1. \/ Set(c, Goto(sess[c], "read")) \/ Set(c, Goto(sess[c], "write"))
      \/ Set(c, Goto(Terminated(sess[c]), "drop")) \/ Set(c, Goto(sess[c], "drop"))
  BY DEF Handle, Step, terminate
<1>2. QED
  BY <1>0, <1>1, MoveData, SetValue DEF Pcs

LEMMA RearmEffect ==
    ASSUME TypeOK, NEW c \in Conns, Rearm(c)
    PROVE  /\ link' = link /\ link[c] = "open"
           /\ sess'[c].pc = "idle" /\ sess'[c].state = sess[c].state
           /\ SameReports(c)
<1>0. sess[c] \in SessionType
  BY DEF TypeOK
<1>1. sess'[c] = Goto(sess[c], "idle") /\ UNCHANGED sockVars /\ link[c] = "open"
  BY SetValue DEF Rearm, Step, At
<1>2. Goto(sess[c], "idle").pc = "idle" /\ SameData(sess[c], Goto(sess[c], "idle"))
  BY <1>0, MoveData DEF Pcs
<1>3. QED
  BY <1>1, <1>2 DEF sockVars, SameData, SameReports, Readable, Writable, HungUp

\* A session that ages stays what it was.
LEMMA QuietEffect ==
    ASSUME TypeOK, NEW c \in Conns, Quiet(c)
    PROVE  /\ link' = link
           /\ sess'[c].pc = sess[c].pc /\ sess'[c].state = sess[c].state
           /\ sess'[c].idle
           /\ SameReports(c)
<1>0. sess[c] \in SessionType
  BY DEF TypeOK
<1>1. sess'[c] = [sess[c] EXCEPT !.idle = TRUE] /\ UNCHANGED sockVars
  BY SetValue DEF Quiet
<1>2. /\ sess'[c].pc = sess[c].pc /\ sess'[c].idle
      /\ sess'[c].state = sess[c].state
  BY <1>0, <1>1 DEF SessionType
<1>3. QED
  BY <1>1, <1>2 DEF sockVars, SameReports, Readable, Writable, HungUp

LEMMA DoorEffect ==
    ASSUME TypeOK, NEW c \in Conns
    PROVE  /\ Accept(c) => /\ link[c] = "backlog" /\ link'[c] = "open"
                           /\ sess'[c] = NewSession
           /\ Refuse(c) => /\ link[c] = "backlog" /\ link'[c] = "open"
                           /\ sess'[c].pc = "busy"
           /\ RefuseWrite(c) => /\ link'[c] = "open" /\ sess'[c].pc = "refused"
           /\ Destroy(c) \/ RefuseClose(c) \/ CloseSession(c) \/ SweepClose(c)
                => link'[c] = "closed"
           /\ LeaveUnaccepted(c) => link[c] = "backlog" /\ link'[c] = "closed"
<1> USE DEF TypeOK, SocketTypeOK
<1>1. Accept(c) => /\ link[c] = "backlog" /\ link'[c] = "open"
                   /\ sess'[c] = NewSession
  BY SetValue DEF Accept, TakeFromBacklog
<1>2. Refuse(c) => /\ link[c] = "backlog" /\ link'[c] = "open"
                   /\ sess'[c].pc = "busy"
  BY SetValue DEF Refuse, TakeFromBacklog, Goto, NewSession
<1>3. RefuseWrite(c) => link'[c] = "open" /\ sess'[c].pc = "refused"
  BY MoveData, SetValue DEF RefuseWrite, At, Pcs
<1>4. Destroy(c) \/ RefuseClose(c) \/ CloseSession(c) \/ SweepClose(c)
        => link'[c] = "closed"
  BY DEF Destroy, RefuseClose, CloseSession, SweepClose, Close, CloseLink
<1>5. LeaveUnaccepted(c) => link[c] = "backlog" /\ link'[c] = "closed"
  BY DEF LeaveUnaccepted, DropFromBacklog
<1>6. QED
  BY <1>1, <1>2, <1>3, <1>4, <1>5

-----------------------------------------------------------------------------
(* The invariant of the reactor.                                           *)

\* The batch after its first event is taken.
LEMMA RestOfBatch ==
    ASSUME batch \in Seq(Event), batch # <<>>
    PROVE  /\ Tail(batch) \in Seq(Event)
           /\ Len(Tail(batch)) = Len(batch) - 1 /\ Len(batch) \in Nat \ {0}
           /\ \A i \in 1..Len(Tail(batch)) : Tail(batch)[i] = batch[i + 1]
           /\ Head(batch) = batch[1] /\ Head(batch) \in Event
  OBVIOUS

\* Nothing changes but the place of the thread outside its handlers, and what
\* it has still to do.
LEMMA ThreadMoves ==
    ASSUME ServerInv, UNCHANGED <<vars, table, registered, cur>>,
           \A p \in {"handle", "refuse", "discard"} : (thread' = p) = (thread = p)
    PROVE  HandInv' /\ TableInv' /\ PcInv' /\ RegisteredInv'
           /\ \A e : EventInv(e) => EventInv(e)'
<1> USE DEF ServerInv, Handling, AtDoor, vars, sockVars
<1>1. HandInv'
  BY DEF HandInv
<1>2. TableInv'
  BY DEF TableInv, Used
<1>3. PcInv'
  BY DEF PcInv
<1>4. RegisteredInv'
  BY DEF RegisteredInv, interest
<1>5. \A e : EventInv(e) => EventInv(e)'
  BY DEF EventInv, interest, Reports, Readable, Writable, HungUp
<1>6. QED
  BY <1>1, <1>2, <1>3, <1>4, <1>5

\* The steps of the thread that touch no session, and the signal.
LEMMA ThreadOnlyKeeps ==
    ASSUME ServerInv,
           \/ DispatchListener \/ DispatchSignal \/ DispatchDone \/ AcceptDone
           \/ SweepDone \/ StopListener \/ Stopped \/ Interrupt
    PROVE  ServerInv'
<1> USE DEF ServerInv
<1>1. UNCHANGED <<vars, table, registered, cur>>
  BY DEF DispatchListener, DispatchSignal, DispatchDone, AcceptDone, SweepDone,
         StopListener, Stopped, Interrupt
<1>2. \A p \in {"handle", "refuse", "discard"} : (thread' = p) = (thread = p)
  BY DEF DispatchListener, DispatchSignal, DispatchDone, AcceptDone, SweepDone,
         StopListener, Stopped, Interrupt, TakeEvent
<1>3. /\ HandInv' /\ TableInv' /\ PcInv' /\ RegisteredInv'
      /\ \A e : EventInv(e) => EventInv(e)'
  BY <1>1, <1>2, ThreadMoves
<1>4. batch \in Seq(Event)
  BY DEF ServerTypeOK
<1>5. \/ batch' = batch /\ (batch # <<>> => thread' = thread)
      \/ batch # <<>> /\ batch' = Tail(batch) /\ thread = "dispatch"
         /\ thread' \in {"dispatch", "accept"}
      \/ batch' = batch /\ thread = "accept" /\ thread' = "dispatch"
  BY DEF DispatchListener, DispatchSignal, DispatchDone, AcceptDone, SweepDone,
         StopListener, Stopped, Interrupt, TakeEvent, BatchInv
<1>6. BatchInv'
  <2>1. CASE batch' = batch
    BY <1>3, <1>5, <2>1 DEF BatchInv
  <2>2. CASE /\ batch # <<>> /\ batch' = Tail(batch)
             /\ thread' \in {"dispatch", "accept"}
    BY <1>3, <1>4, <2>2, RestOfBatch DEF BatchInv
  <2>3. QED
    BY <1>5, <2>1, <2>2
<1>7. ServerTypeOK'
  <2>1. batch' \in Seq(Event)
    BY <1>4, <1>5, RestOfBatch
  <2>2. QED
    BY <1>1, <2>1 DEF ServerTypeOK, DispatchListener, DispatchSignal, DispatchDone,
         AcceptDone, SweepDone, StopListener, Stopped, Interrupt, TakeEvent, Used
<1>8. SweepInv'
  <2>1. CASE DispatchDone
    BY <1>1, <2>1 DEF SweepInv, DispatchDone, Used, vars
  <2>2. CASE ~DispatchDone
    BY <1>1, <2>2 DEF SweepInv, Used, vars, DispatchListener, DispatchSignal,
         AcceptDone, SweepDone, StopListener, Stopped, Interrupt, TakeEvent
  <2>3. QED
    BY <2>1, <2>2
<1>9. StopInv'
  BY <1>1 DEF StopInv, Used, Backlog, vars, sockVars, DispatchListener, DispatchSignal,
         DispatchDone, AcceptDone, SweepDone, StopListener, Stopped, Interrupt,
         TakeEvent
<1>10. QED
  BY <1>3, <1>6, <1>7, <1>8, <1>9

\* What is ready is worth dispatching: a descriptor that reports anything
\* reports what it is registered for.
LEMMA ReadyEventsHold ==
    ASSUME IInv, ServerInv, thread = "wait", NEW e \in ReadyEvents
    PROVE  /\ e \in Event /\ EventInv(e)
           /\ e.fd \in Fds => e = [fd |-> e.fd, conn |-> table[e.fd],
                                   events |-> Reports(table[e.fd], registered[e.fd])]
<1>1. CASE e.fd \in {Listener, Signal} /\ e.events = {"IN"} /\ e.conn = NoConn
           /\ e \in [fd : {Listener, Signal}, events : {{"IN"}}, conn : {NoConn}]
  BY <1>1, ServerAssumption DEF Event, EventInv, Mask
<1>2. ASSUME NEW fd \in Used, Reports(table[fd], registered[fd]) # {},
             e = [fd |-> fd, events |-> Reports(table[fd], registered[fd]),
                  conn |-> table[fd]]
      PROVE  /\ e \in Event /\ EventInv(e)
             /\ e = [fd |-> e.fd, conn |-> table[e.fd],
                     events |-> Reports(table[e.fd], registered[e.fd])]
  <2> DEFINE c == table[fd]
  <2>1. fd \in Fds /\ c \in Conns /\ link[c] = "open"
    BY DEF Used, ServerInv, ServerTypeOK, TableInv
  <2>2. registered[fd] = interest(sess[c]) /\ ~Handling(c)
    BY <1>2, <2>1 DEF ServerInv, RegisteredInv, Handling, Used
  <2>3. registered[fd] \in {"IN", "OUT"}
    BY <2>2 DEF interest
  <2>4. registered[fd] \in Reports(c, registered[fd])
    <3>1. HungUp(c) => Readable(c) /\ (registered[fd] = "OUT" => Writable(c))
      <4>1. /\ upEnd[c] # "rst" /\ HungUp(c) => upEnd[c] = "fin" /\ downEnd[c] = "fin"
            /\ registered[fd] = "OUT" => sess[c].state = "SendingAck"
        BY <2>2 DEF HungUp, interest
      <4>2. sess[c].state = "SendingAck" => downEnd[c] = "open"
        BY <2>1 DEF IInv, ConnInv, GraceInv
      <4>3. QED
        BY <4>1, <4>2 DEF HungUp, Readable, Writable
    <3>2. QED
      BY <1>2, <2>3, <3>1 DEF Reports
  <2>5. Reports(c, registered[fd]) \subseteq Mask
    BY <2>3 DEF Reports, Mask
  <2>6. QED
    BY <1>2, <2>1, <2>2, <2>4, <2>5 DEF Event, EventInv
<1>3. QED
  BY <1>1, <1>2, ServerAssumption DEF ReadyEvents

LEMMA EpollWaitKeeps ==
    ASSUME IInv, ServerInv, EpollWait
    PROVE  ServerInv'
<1>1. thread = "wait" /\ thread' = "dispatch"
      /\ UNCHANGED <<vars, running, signalled, table, registered, cur, expired>>
  BY DEF EpollWait
<1>2. PICK n \in 0..MaxEvents :
         /\ batch' \in [1..n -> ReadyEvents]
         /\ \A i, j \in 1..n : i # j => batch'[i] # batch'[j]
  BY DEF EpollWait
<1>3. n \in Nat
  BY ServerAssumption
<1>4. batch' \in Seq(Event) /\ Len(batch') = n
  <2>1. batch' \in [1..n -> Event]
    BY <1>1, <1>2, ReadyEventsHold
  <2>2. QED
    BY <1>3, <2>1
<1>5. /\ HandInv' /\ TableInv' /\ PcInv' /\ RegisteredInv'
      /\ \A e : EventInv(e) => EventInv(e)'
  BY <1>1, ThreadMoves
<1>6. \A i \in 1..n : EventInv(batch'[i]) /\ batch'[i] \in ReadyEvents
  BY <1>1, <1>2, ReadyEventsHold
<1>7. \A i, j \in 1..n :
         i # j /\ batch'[i].fd \in Fds => batch'[i].fd # batch'[j].fd
  <2>1. SUFFICES ASSUME NEW i \in 1..n, NEW j \in 1..n, i # j,
                        batch'[i].fd \in Fds, batch'[i].fd = batch'[j].fd
                 PROVE  FALSE
    OBVIOUS
  <2>2. batch'[i] = batch'[j]
    BY <1>1, <1>6, <2>1, ReadyEventsHold
  <2>3. QED
    BY <1>2, <2>1, <2>2
<1>8. BatchInv'
  BY <1>1, <1>4, <1>5, <1>6, <1>7 DEF BatchInv
<1>9. ServerTypeOK' /\ SweepInv' /\ StopInv'
  BY <1>1, <1>4 DEF ServerInv, ServerTypeOK, SweepInv, StopInv, Used, vars, sockVars,
                    Backlog
<1>10. QED
  BY <1>5, <1>8, <1>9 DEF ServerInv

\* A client's step.
LEMMA AnyClientKeeps ==
    ASSUME IInv, ServerInv, NEW c \in Conns, Client(c)
    PROVE  ServerInv'
<1>1. /\ UNCHANGED serverVars /\ sess' = sess /\ Peer(c)
      /\ thread \in {"close", "stopped"} => peer[c] # "none"
  BY PeerEffect DEF Client, IInv
<1>2. /\ link'[c] = link[c] \/ (link[c] = "none" /\ link'[c] = "backlog")
      /\ peer[c] # "none" => link'[c] = link[c]
      /\ \A d \in Conns \ {c} : link'[d] = link[d]
      /\ \A d \in Conns : link[d] = "open" => Lasts(d)
  BY <1>1, PeerEffect, OthersLookSame DEF IInv, SameReports, Lasts
<1>3. \A d \in Conns : (link'[d] = "open") = (link[d] = "open")
  BY <1>2
<1> USE DEF ServerInv, serverVars, threadVars, Handling, AtDoor
<1>4. ServerTypeOK'
  BY <1>1 DEF ServerTypeOK
<1>5. HandInv'
  BY <1>1, <1>3 DEF HandInv
<1>6. TableInv'
  BY <1>1, <1>3 DEF TableInv, Used, ServerTypeOK
<1>7. PcInv' /\ RegisteredInv'
  BY <1>1, <1>3 DEF PcInv, RegisteredInv, interest
<1>8. BatchInv'
  <2>1. ASSUME NEW e, EventInv(e)
        PROVE  EventInv(e)'
    <3>1. e.fd \in Fds => link[e.conn] = "open"
      <4>1. ASSUME e.fd \in Fds
            PROVE  link[e.conn] = "open"
        <5>1. e.fd \in Used /\ table[e.fd] = e.conn
          BY <2>1, <4>1, ServerAssumption DEF EventInv, Used
        <5>2. QED
          BY <5>1 DEF TableInv
      <4>2. QED
        BY <4>1
    <3>2. QED
      BY <1>1, <1>2, <2>1, <3>1 DEF EventInv, interest, Reports, Lasts
  <2>2. QED
    BY <1>1, <2>1 DEF BatchInv
<1>9. SweepInv'
  BY <1>1 DEF SweepInv, Used
<1>10. StopInv'
  BY <1>1, <1>2 DEF StopInv, Used, Backlog
<1>11. QED
  BY <1>4, <1>5, <1>6, <1>7, <1>8, <1>9, <1>10

\* A session grows old.
LEMMA TimeKeeps ==
    ASSUME IInv, ServerInv, NEW c \in Conns, TimePasses(c)
    PROVE  ServerInv'
<1>1. UNCHANGED serverVars /\ Quiet(c)
  BY DEF TimePasses
<1>2. /\ link' = link
      /\ \A d \in Conns : /\ sess'[d].pc = sess[d].pc
                          /\ sess'[d].state = sess[d].state
                          /\ sess[d].idle => sess'[d].idle
                          /\ SameReports(d)
  BY <1>1, QuietEffect, OthersLookSame DEF IInv, SessionStep
<1> USE DEF ServerInv, serverVars, threadVars, Handling, AtDoor
<1>3. ServerTypeOK' /\ HandInv' /\ TableInv' /\ StopInv'
  BY <1>1, <1>2 DEF ServerTypeOK, HandInv, TableInv, StopInv, Used, Backlog
<1>4. PcInv'
  <2>1. SUFFICES ASSUME NEW d \in Conns, link'[d] = "open"
                 PROVE  sess'[d].pc \in
                          IF thread = "handle" /\ cur = d
                          THEN {"read", "frames", "write", "keep", "drop"}
                          ELSE IF thread = "refuse" /\ cur = d
                          THEN {"busy", "refused"} ELSE {"idle"}
    BY <1>1 DEF PcInv
  <2>2. link[d] = "open" /\ sess'[d].pc = sess[d].pc
    BY <1>2, <2>1
  <2>3. QED
    BY <2>2 DEF PcInv
<1>5. RegisteredInv'
  <2>1. SUFFICES ASSUME NEW fd \in Fds
                 PROVE  IF table[fd] = NoConn THEN registered[fd] = "none"
                        ELSE \/ thread = "handle" /\ cur = table[fd]
                             \/ registered[fd] = interest(sess[table[fd]])'
    BY <1>1 DEF RegisteredInv
  <2>2. CASE table[fd] # NoConn
    <3>1. table[fd] \in Conns
      BY <2>2 DEF ServerTypeOK
    <3>2. sess'[table[fd]].state = sess[table[fd]].state
      BY <1>2, <3>1
    <3>3. QED
      BY <1>1, <2>2, <3>2 DEF RegisteredInv, interest
  <2>3. QED
    BY <2>2 DEF RegisteredInv
<1>6. BatchInv'
  <2>1. ASSUME NEW e, EventInv(e)
        PROVE  EventInv(e)'
    <3>1. CASE e.fd \in Fds
      <4>1. /\ e.conn \in Conns /\ sess'[e.conn].state = sess[e.conn].state
            /\ SameReports(e.conn)
        BY <1>2, <2>1, <3>1 DEF EventInv
      <4>2. QED
        BY <1>1, <2>1, <4>1 DEF EventInv, interest, Reports, SameReports
    <3>2. QED
      BY <3>1 DEF EventInv
  <2>2. QED
    BY <1>1, <2>1 DEF BatchInv
<1>7. SweepInv'
  <2>1. \A fd \in expired : table[fd] \in Conns /\ fd \in Used /\ sess[table[fd]].idle
    BY DEF SweepInv, Used, ServerTypeOK
  <2>2. QED
    BY <1>1, <1>2, <2>1 DEF SweepInv, Used
<1>8. QED
  BY <1>3, <1>4, <1>5, <1>6, <1>7

\* A step of one session: the other connections of the table, and the events
\* of others in the batch, are as before.
LEMMA OthersInPlace ==
    ASSUME IInv, ServerInv, NEW c \in Conns, SessionStep(c)
    PROVE  /\ \A d \in Conns \ {c} : sess'[d] = sess[d] /\ link'[d] = link[d]
           /\ \A e :
                 /\ EventInv(e)
                 /\ e.conn # c
                 /\ table'[e.fd] = table[e.fd] /\ registered'[e.fd] = registered[e.fd]
                 /\ \A d \in Conns \ {c} : Handling(d)' => Handling(d)
                 => EventInv(e)'
<1>1. \A d \in Conns \ {c} :
         sess'[d] = sess[d] /\ link'[d] = link[d] /\ SameReports(d)
  BY OthersLookSame DEF IInv
<1>2. ASSUME NEW e, EventInv(e), e.conn # c, e.fd \in Fds,
             table'[e.fd] = table[e.fd], registered'[e.fd] = registered[e.fd],
             \A d \in Conns \ {c} : Handling(d)' => Handling(d)
      PROVE  EventInv(e)'
  <2>1. e.conn \in Conns \ {c}
    BY <1>2 DEF EventInv
  <2>2. sess'[e.conn] = sess[e.conn] /\ SameReports(e.conn)
    BY <1>1, <2>1
  <2>3. ~Handling(e.conn)'
    BY <1>2, <2>1 DEF EventInv
  <2>4. QED
    BY <1>2, <2>1, <2>2, <2>3 DEF EventInv, interest, Reports, SameReports
<1>3. \A e : e.fd \notin Fds => EventInv(e)'
  BY DEF EventInv
<1>4. QED
  BY <1>1, <1>2, <1>3

\* A session is closed and taken from the table.
LEMMA ClosingKeeps ==
    ASSUME IInv, ServerInv, NEW fd \in Used,
           Destroy(table[fd]) \/ CloseSession(table[fd]) \/ SweepClose(table[fd]),
           Erase(fd),
           UNCHANGED <<running, signalled, batch>>, expired' = expired \ {fd},
           \/ /\ thread = "handle" /\ cur = table[fd]
              /\ thread' = "dispatch" /\ cur' = NoConn
           \/ thread \in {"sweep", "stop"} /\ UNCHANGED <<thread, cur>>
    PROVE  ServerInv'
<1> DEFINE c == table[fd]
<1> USE DEF ServerInv, Handling, AtDoor
<1>1. /\ fd \in Fds /\ c \in Conns /\ link'[c] = "closed" /\ SessionStep(c)
      /\ \A g \in Used : table[g] = c => g = fd
  BY DoorEffect DEF Used, ServerTypeOK, IInv, SessionStep, ServerStep, TableInv
<1>2. /\ table' = [table EXCEPT ![fd] = NoConn]
      /\ registered' = [registered EXCEPT ![fd] = "none"]
      /\ table'[fd] = NoConn /\ registered'[fd] = "none"
      /\ \A g \in Fds \ {fd} : table'[g] = table[g] /\ registered'[g] = registered[g]
      /\ Used' = Used \ {fd}
  BY <1>1 DEF Erase, ServerTypeOK, Used
<1>3. /\ \A d \in Conns \ {c} : sess'[d] = sess[d] /\ link'[d] = link[d]
      /\ thread' \in {"dispatch", "sweep", "stop"}
      /\ thread \in {"handle", "sweep", "stop"}
      /\ \A d \in Conns : Handling(d) => d = c
  BY <1>1, OthersInPlace
<1>4. \A g \in Used \ {fd} : table[g] \in Conns \ {c}
  BY <1>1 DEF Used, ServerTypeOK
<1>5. ServerTypeOK'
  BY <1>2, <1>3 DEF ServerTypeOK
<1>6. HandInv'
  BY <1>3 DEF HandInv
<1>7. TableInv'
  <2>1. \A g, h \in Used' : table'[g] = table'[h] => g = h
    BY <1>2 DEF TableInv, Used
  <2>2. \A g \in Used' : link'[table'[g]] = "open"
    BY <1>2, <1>3, <1>4 DEF TableInv, Used
  <2>3. ASSUME NEW d \in Conns, link'[d] = "open"
        PROVE  \E g \in Fds : table'[g] = d
    <3>1. d # c /\ link[d] = "open"
      BY <1>1, <1>3, <2>3
    <3>2. PICK g \in Fds : table[g] = d
      BY <1>3, <3>1 DEF TableInv
    <3>3. QED
      BY <1>2, <3>1, <3>2
  <2>4. QED
    BY <2>1, <2>2, <2>3 DEF TableInv
<1>8. PcInv'
  <2>1. ASSUME NEW d \in Conns, link'[d] = "open"
        PROVE  sess'[d].pc \in {"idle"}
    <3>1. d # c /\ link[d] = "open" /\ sess'[d] = sess[d] /\ ~Handling(d)
      BY <1>1, <1>3, <2>1
    <3>2. QED
      BY <1>3, <3>1 DEF PcInv
  <2>2. QED
    BY <1>3, <2>1 DEF PcInv
<1>9. RegisteredInv'
  <2>1. SUFFICES ASSUME NEW g \in Fds \ {fd}, table[g] # NoConn
                 PROVE  registered[g] = interest(sess[table[g]])'
    BY <1>2 DEF RegisteredInv
  <2>2. table[g] \in Conns \ {c} /\ table'[g] = table[g]
    BY <1>2, <1>4, <2>1 DEF Used
  <2>3. registered[g] = interest(sess[table[g]])
    BY <1>3, <2>1, <2>2 DEF RegisteredInv
  <2>4. QED
    BY <1>3, <2>2, <2>3 DEF interest
<1>10. BatchInv'
  <2>1. ASSUME NEW i \in 1..Len(batch)
        PROVE  EventInv(batch[i])'
    <3>1. batch \in Seq(Event) /\ batch # <<>> /\ EventInv(batch[i])
      BY <2>1 DEF ServerTypeOK, BatchInv
    <3>2. thread = "handle" /\ Handling(c)
      BY <1>3, <3>1 DEF BatchInv
    <3>3. CASE batch[i].fd \in Fds
      <4>1. batch[i].conn # c /\ batch[i].conn = table[batch[i].fd]
        BY <3>1, <3>2, <3>3 DEF EventInv
      <4>2. QED
        BY <1>1, <1>2, <1>3, <3>1, <4>1, OthersInPlace
    <3>4. CASE batch[i].fd \notin Fds
      BY <2>1, <3>4 DEF EventInv
    <3>5. QED
      BY <3>3, <3>4
  <2>2. QED
    BY <1>3, <2>1 DEF BatchInv
<1>11. SweepInv'
  <2>1. ASSUME NEW g \in expired'
        PROVE  g \in Used' /\ sess'[table'[g]].idle
    <3>1. g \in Used \ {fd} /\ sess[table[g]].idle
      BY <2>1 DEF SweepInv
    <3>2. table'[g] = table[g] /\ table[g] \in Conns \ {c}
      BY <1>2, <1>4, <3>1 DEF Used
    <3>3. QED
      BY <1>2, <1>3, <3>1, <3>2
  <2>2. thread' # "sweep" => expired' = {}
    BY <1>3 DEF SweepInv
  <2>3. QED
    BY <2>1, <2>2 DEF SweepInv
<1>12. StopInv'
  BY <1>3 DEF StopInv
<1>13. QED
  BY <1>5, <1>6, <1>7, <1>8, <1>9, <1>10, <1>11, <1>12

\* A session of the table runs: it is entered, goes on, or comes back alive.
LEMMA RunningKeeps ==
    ASSUME IInv, ServerInv, NEW c \in Conns, NEW fd \in Fds, table[fd] = c,
           SessionStep(c), link'[c] = "open",
           UNCHANGED <<table, running, signalled, expired>>,
           thread \in {"dispatch", "handle"}, thread = "handle" => cur = c,
           \/ /\ thread' = "handle" /\ cur' = c
              /\ sess'[c].pc \in InsidePcs
              /\ registered' = registered
           \/ /\ thread' = "dispatch" /\ cur' = NoConn
              /\ sess'[c].pc = "idle"
              /\ registered' = [registered EXCEPT ![fd] = interest(sess'[c])],
           batch' \in Seq(Event),
           \A i \in 1..Len(batch') :
              EventInv(batch'[i]) /\ (batch'[i].fd \in Fds => batch'[i].conn # c),
           \A i, j \in 1..Len(batch') :
              i # j /\ batch'[i].fd \in Fds => batch'[i].fd # batch'[j].fd
    PROVE  ServerInv'
<1> USE DEF ServerInv, Handling, AtDoor
<1>1. /\ fd \in Used /\ link[c] = "open"
      /\ \A g \in Fds : table[g] = c => g = fd
  BY ServerAssumption DEF Used, TableInv
<1>2. /\ \A d \in Conns \ {c} : sess'[d] = sess[d] /\ link'[d] = link[d]
      /\ \A d \in Conns : Handling(d) \/ Handling(d)' => d = c
      /\ \A d \in Conns : ~AtDoor(d) /\ ~AtDoor(d)'
      /\ \A g \in Fds \ {fd} : registered'[g] = registered[g]
  BY OthersInPlace DEF ServerTypeOK
<1>3. ServerTypeOK'
  <2>1. interest(sess'[c]) \in {"IN", "OUT"}
    BY DEF interest
  <2>2. QED
    BY <2>1 DEF ServerTypeOK
<1>4. HandInv'
  BY DEF HandInv
<1>5. TableInv'
  <2>1. \A g \in Used : link'[table[g]] = "open"
    BY <1>1, <1>2 DEF TableInv, Used, ServerTypeOK
  <2>2. \A d \in Conns : link'[d] = "open" => \E g \in Fds : table[g] = d
    BY <1>1, <1>2 DEF TableInv
  <2>3. QED
    BY <2>1, <2>2 DEF TableInv, Used
<1>6. PcInv'
  <2>1. \A d \in Conns \ {c} : link'[d] = "open" => sess'[d].pc = "idle"
    BY <1>2 DEF PcInv
  <2>2. QED
    BY <1>2, <2>1 DEF PcInv, InsidePcs
<1>7. RegisteredInv'
  <2>1. ASSUME NEW g \in Fds \ {fd}
        PROVE  IF table[g] = NoConn THEN registered'[g] = "none"
               ELSE registered'[g] = interest(sess'[table[g]])
    <3>1. CASE table[g] # NoConn
      <4>1. table[g] \in Conns \ {c}
        BY <1>1, <2>1, <3>1 DEF ServerTypeOK
      <4>2. QED
        BY <1>2, <2>1, <3>1, <4>1 DEF RegisteredInv
    <3>2. CASE table[g] = NoConn
      BY <1>2, <2>1, <3>2 DEF RegisteredInv
    <3>3. QED
      BY <3>1, <3>2
  <2>2. table[fd] # NoConn /\ (Handling(c)' \/ registered'[fd] = interest(sess'[c]))
    BY ServerAssumption DEF ServerTypeOK
  <2>3. QED
    BY <2>1, <2>2 DEF RegisteredInv
<1>8. BatchInv'
  <2>1. ASSUME NEW e, NEW i \in 1..Len(batch'), e = batch'[i]
        PROVE  EventInv(e)'
    <3>1. CASE e.fd \in Fds
      <4>1. EventInv(e) /\ e.conn # c /\ e.fd # fd
        BY <2>1, <3>1 DEF EventInv
      <4>2. QED
        BY <1>2, <3>1, <4>1, OthersInPlace
    <3>2. CASE e.fd \notin Fds
      BY <3>2 DEF EventInv
    <3>3. QED
      BY <3>1, <3>2
  <2>2. \A i \in 1..Len(batch') : EventInv(batch[i])'
    BY <2>1 DEF EventInv
  <2>3. batch' # <<>> => thread' \in {"dispatch", "handle"}
    OBVIOUS
  <2>4. QED
    BY <2>2, <2>3 DEF BatchInv
<1>9. SweepInv' /\ StopInv'
  BY DEF SweepInv, StopInv
<1>10. QED
  BY <1>3, <1>4, <1>5, <1>6, <1>7, <1>8, <1>9

LEMMA DispatchSessionKeeps ==
    ASSUME IInv, ServerInv, NEW fd \in Fds, DispatchSession(fd)
    PROVE  ServerInv' /\ SessionStep(table[fd]) /\ table[fd] \in Conns
<1> DEFINE c == table[fd]
<1>1. /\ thread = "dispatch" /\ batch # <<>> /\ batch \in Seq(Event)
      /\ batch[1].fd = fd /\ batch' = Tail(batch) /\ Head(batch) = batch[1]
      /\ Len(batch) \in Nat \ {0}
  BY RestOfBatch DEF DispatchSession, TakeEvent, ServerInv, ServerTypeOK
<1>2. EventInv(batch[1]) /\ batch[1].conn = c /\ c \in Conns
  BY <1>1 DEF ServerInv, BatchInv, EventInv
<1>3. c # NoConn
  BY <1>2, ServerAssumption
<1>4. /\ Handle(c, Head(batch).events)
      /\ thread' = "handle" /\ cur' = c
      /\ UNCHANGED <<registered, table, running, signalled, expired>>
  BY <1>3 DEF DispatchSession
<1>5. Head(batch).events \in SUBSET {"IN", "OUT", "HUP"}
  BY <1>1, RestOfBatch DEF Event, Mask
<1>6. SessionStep(c)
  BY <1>4, <1>5 DEF SessionStep, ServerStep
<1>7. link'[c] = "open" /\ sess'[c].pc \in InsidePcs
  BY <1>2, <1>4, HandleEffect DEF IInv
<1>8. /\ batch' \in Seq(Event)
      /\ \A i \in 1..Len(batch') :
            EventInv(batch'[i]) /\ (batch'[i].fd \in Fds => batch'[i].conn # c)
      /\ \A i, j \in 1..Len(batch') :
            i # j /\ batch'[i].fd \in Fds => batch'[i].fd # batch'[j].fd
  <2>1. /\ Tail(batch) \in Seq(Event) /\ Len(batch') = Len(batch) - 1
        /\ \A i \in 1..Len(batch') : batch'[i] = batch[i + 1]
    BY <1>1, RestOfBatch
  <2>2. ASSUME NEW i \in 1..Len(batch')
        PROVE  /\ EventInv(batch'[i]) /\ batch'[i].fd # fd
               /\ batch'[i] \in Event
    BY <1>1, <2>1, <2>2 DEF ServerInv, BatchInv
  <2>3. ASSUME NEW i \in 1..Len(batch'), batch'[i].fd \in Fds
        PROVE  batch'[i].conn # c
    <3>1. batch'[i].fd \in Used /\ table[batch'[i].fd] = batch'[i].conn /\ fd \in Used
      BY <1>3, <2>2, <2>3, ServerAssumption DEF EventInv, Used
    <3>2. QED
      BY <2>2, <3>1 DEF ServerInv, TableInv
  <2>4. QED
    BY <1>1, <2>1, <2>2, <2>3 DEF ServerInv, BatchInv
<1>9. QED
  BY <1>1, <1>2, <1>4, <1>6, <1>7, <1>8, RunningKeeps

\* The handler goes on.
LEMMA RunKeeps ==
    ASSUME IInv, ServerInv, Run
    PROVE  ServerInv' /\ SessionStep(cur) /\ cur \in Conns
<1>1. thread = "handle" /\ HandlerStep(cur) /\ UNCHANGED serverVars
  BY DEF Run
<1>2. cur \in Conns /\ \E fd \in Fds : table[fd] = cur
  BY <1>1 DEF ServerInv, HandInv
<1>3. PICK fd \in Fds : table[fd] = cur
  BY <1>2
<1>4. SessionStep(cur)
  BY <1>1 DEF SessionStep
<1>5. link'[cur] = "open" /\ sess'[cur].pc \in InsidePcs
  BY <1>1, <1>2, HandlerEffect DEF IInv
<1>6. /\ batch' = batch /\ batch \in Seq(Event)
      /\ \A i \in 1..Len(batch) :
            EventInv(batch[i]) /\ (batch[i].fd \in Fds => batch[i].conn # cur)
      /\ \A i, j \in 1..Len(batch) :
            i # j /\ batch[i].fd \in Fds => batch[i].fd # batch[j].fd
  BY <1>1 DEF serverVars, threadVars, ServerInv, ServerTypeOK, BatchInv, EventInv, Handling
<1>7. QED
  BY <1>1, <1>2, <1>3, <1>4, <1>5, <1>6, RunningKeeps DEF serverVars, threadVars

\* The session in hand is still connected, so its descriptor is in use.
LEMMA InTable ==
    ASSUME ServerInv, NEW fd \in Fds, table[fd] # NoConn
    PROVE  fd \in Used /\ table[fd] \in Conns /\ link[table[fd]] = "open"
BY DEF Used, ServerInv, ServerTypeOK, TableInv

\* The handler returned false.
LEMMA HandleFalseKeeps ==
    ASSUME IInv, ServerInv, NEW fd \in Fds, HandleFalse(fd)
    PROVE  ServerInv' /\ SessionStep(cur) /\ cur \in Conns
<1>1. /\ thread = "handle" /\ table[fd] = cur /\ CloseSession(cur) /\ Erase(fd)
      /\ thread' = "dispatch" /\ cur' = NoConn
      /\ UNCHANGED <<running, signalled, batch, expired>>
  BY DEF HandleFalse
<1>2. cur \in Conns /\ expired = {}
  BY <1>1 DEF ServerInv, HandInv, SweepInv
<1>3. fd \in Used /\ expired' = expired \ {fd}
  BY <1>1, <1>2, InTable, ServerAssumption
<1>4. ServerInv'
  BY <1>1, <1>3, ClosingKeeps
<1>5. QED
  BY <1>1, <1>2, <1>4 DEF SessionStep, ServerStep

\* The handler returned true.
LEMMA HandleTrueKeeps ==
    ASSUME IInv, ServerInv, NEW fd \in Fds, HandleTrue(fd)
    PROVE  ServerInv' /\ SessionStep(cur) /\ cur \in Conns
<1>1. /\ thread = "handle" /\ table[fd] = cur
      /\ thread' = "dispatch" /\ cur' = NoConn
      /\ UNCHANGED <<running, signalled, batch, expired>>
  BY DEF HandleTrue
<1>2. cur \in Conns /\ expired = {} /\ fd \in Used /\ expired' = expired \ {fd}
  BY <1>1, InTable, ServerAssumption DEF ServerInv, HandInv, SweepInv
<1>3. CASE CloseSession(cur) /\ Erase(fd)
  <2>1. ServerInv'
    BY <1>1, <1>2, <1>3, ClosingKeeps
  <2>2. QED
    BY <1>2, <1>3, <2>1 DEF SessionStep, ServerStep
<1>4. CASE /\ Rearm(cur) /\ UNCHANGED table
           /\ registered' = [registered EXCEPT ![fd] = interest(sess[cur])]
  <2>1. /\ SessionStep(cur) /\ link'[cur] = "open" /\ sess'[cur].pc = "idle"
        /\ interest(sess'[cur]) = interest(sess[cur])
    BY <1>2, <1>4, RearmEffect DEF SessionStep, ServerStep, IInv, interest
  <2>2. /\ batch' = batch /\ batch \in Seq(Event)
        /\ \A i \in 1..Len(batch) :
              EventInv(batch[i]) /\ (batch[i].fd \in Fds => batch[i].conn # cur)
        /\ \A i, j \in 1..Len(batch) :
              i # j /\ batch[i].fd \in Fds => batch[i].fd # batch[j].fd
    BY <1>1 DEF ServerInv, ServerTypeOK, BatchInv, EventInv, Handling
  <2>3. ServerInv'
    BY <1>1, <1>2, <1>4, <2>1, <2>2, RunningKeeps
  <2>4. QED
    BY <1>2, <2>1, <2>3
<1>5. QED
  BY <1>3, <1>4 DEF HandleTrue

\* The idle sweep and the end of the server close sessions.
LEMMA SweepKeeps ==
    ASSUME IInv, ServerInv, NEW fd \in Fds, Sweep(fd)
    PROVE  ServerInv' /\ SessionStep(table[fd]) /\ table[fd] \in Conns
<1>1. /\ thread = "sweep" /\ fd \in expired /\ SweepClose(table[fd]) /\ Erase(fd)
      /\ expired' = expired \ {fd}
      /\ UNCHANGED <<thread, running, signalled, batch, cur>>
  BY DEF Sweep
<1>2. fd \in Used /\ table[fd] \in Conns
  BY <1>1, InTable DEF ServerInv, SweepInv, Used
<1>3. ServerInv'
  BY <1>1, <1>2, ClosingKeeps
<1>4. QED
  BY <1>1, <1>2, <1>3 DEF SessionStep, ServerStep

LEMMA StopSessionKeeps ==
    ASSUME IInv, ServerInv, NEW fd \in Fds, StopSession(fd)
    PROVE  ServerInv' /\ SessionStep(table[fd]) /\ table[fd] \in Conns
<1>1. /\ thread = "stop" /\ fd \in Used /\ Destroy(table[fd]) /\ Erase(fd)
      /\ UNCHANGED threadVars
  BY DEF StopSession
<1>2. table[fd] \in Conns /\ expired = {} /\ expired' = expired \ {fd}
  BY <1>1, InTable DEF ServerInv, SweepInv, Used, threadVars
<1>3. ServerInv'
  BY <1>1, <1>2, ClosingKeeps DEF threadVars
<1>4. QED
  BY <1>1, <1>2, <1>3 DEF SessionStep, ServerStep

-----------------------------------------------------------------------------
(* At the door: a connection that is not in the table.                     *)

\* One connection outside the table takes a step; the table grows by it, or is
\* as it was.
LEMMA DoorKeeps ==
    ASSUME IInv, ServerInv, NEW c \in Conns, SessionStep(c),
           \A fd \in Fds : table[fd] # c,
           UNCHANGED <<running, signalled, batch, expired, table, registered>>,
           thread \in {"accept", "refuse", "discard", "close"},
           thread \in {"refuse", "discard"} => cur = c,
           \/ /\ thread' = "refuse" /\ cur' = c
              /\ link'[c] = "open" /\ sess'[c].pc \in {"busy", "refused"}
           \/ /\ thread' = "discard" /\ cur' = c
              /\ link'[c] = "open" /\ sess'[c].pc = "idle"
           \/ /\ thread' = "accept" /\ cur' = NoConn
              /\ link'[c] = "closed"
           \/ /\ thread' = "close" /\ thread = "close" /\ cur' = cur
              /\ link'[c] = "closed",
           thread' \in {"refuse", "discard", "accept"} => thread # "close"
    PROVE  ServerInv'
<1> USE DEF ServerInv, Handling, AtDoor
<1>1. /\ \A d \in Conns \ {c} : sess'[d] = sess[d] /\ link'[d] = link[d]
      /\ \A e : EventInv(e) /\ e.conn # c => EventInv(e)'
      /\ \A d \in Conns : ~Handling(d) /\ ~Handling(d)'
  <2>1. \A d \in Conns : ~Handling(d) /\ ~Handling(d)'
    OBVIOUS
  <2>2. QED
    BY <2>1, OthersInPlace
<1>2. \A fd \in Fds : table[fd] # NoConn => table[fd] \in Conns \ {c}
  BY DEF ServerTypeOK
<1>3. ServerTypeOK'
  BY DEF ServerTypeOK
<1>4. HandInv'
  BY DEF HandInv
<1>5. TableInv'
  <2>1. \A fd \in Used : link'[table[fd]] = "open"
    BY <1>1, <1>2 DEF TableInv, Used
  <2>2. ASSUME NEW d \in Conns, link'[d] = "open"
        PROVE  AtDoor(d)' \/ \E fd \in Fds : table[fd] = d
    <3>1. CASE d # c
      <4>1. link[d] = "open" /\ ~AtDoor(d)
        BY <1>1, <2>2, <3>1
      <4>2. QED
        BY <4>1 DEF TableInv
    <3>2. CASE d = c
      BY <2>2, <3>2
    <3>3. QED
      BY <3>1, <3>2
  <2>3. QED
    BY <2>1, <2>2 DEF TableInv, Used
<1>6. PcInv'
  <2>1. SUFFICES ASSUME NEW d \in Conns, link'[d] = "open"
                 PROVE  sess'[d].pc \in
                          IF thread' = "handle" /\ cur' = d
                          THEN {"read", "frames", "write", "keep", "drop"}
                          ELSE IF thread' = "refuse" /\ cur' = d
                          THEN {"busy", "refused"} ELSE {"idle"}
    BY DEF PcInv
  <2>2. CASE d # c
    <3>1. link[d] = "open" /\ sess'[d] = sess[d] /\ ~(thread = "refuse" /\ cur = d)
      BY <1>1, <2>1, <2>2
    <3>2. sess[d].pc = "idle"
      BY <1>1, <3>1 DEF PcInv
    <3>3. ~(thread' = "refuse" /\ cur' = d) /\ ~(thread' = "handle" /\ cur' = d)
      BY <1>1, <2>2
    <3>4. QED
      BY <3>1, <3>2, <3>3
  <2>3. CASE d = c
    BY <2>1, <2>3
  <2>4. QED
    BY <2>2, <2>3
<1>7. RegisteredInv'
  <2>1. SUFFICES ASSUME NEW fd \in Fds
                 PROVE  IF table[fd] = NoConn THEN registered[fd] = "none"
                        ELSE registered[fd] = interest(sess[table[fd]])'
    BY DEF RegisteredInv
  <2>2. CASE table[fd] # NoConn
    <3>1. table[fd] \in Conns \ {c} /\ registered[fd] = interest(sess[table[fd]])
      BY <1>1, <1>2, <2>2 DEF RegisteredInv
    <3>2. QED
      BY <1>1, <2>2, <3>1 DEF interest
  <2>3. QED
    BY <2>2 DEF RegisteredInv
<1>8. BatchInv'
  <2>1. ASSUME NEW i \in 1..Len(batch)
        PROVE  EventInv(batch[i])'
    <3>1. EventInv(batch[i])
      BY DEF BatchInv
    <3>2. CASE batch[i].fd \in Fds
      <4>1. batch[i].conn # c
        BY <3>1, <3>2 DEF EventInv
      <4>2. QED
        BY <1>1, <3>1, <4>1
    <3>3. CASE batch[i].fd \notin Fds
      BY <3>3 DEF EventInv
    <3>4. QED
      BY <3>2, <3>3
  <2>2. batch # <<>> => thread' \in {"dispatch", "handle", "accept", "refuse", "discard"}
    BY DEF BatchInv
  <2>3. QED
    BY <2>1, <2>2 DEF BatchInv
<1>9. SweepInv'
  BY DEF SweepInv
<1>10. StopInv'
  BY DEF StopInv, Used
<1>11. QED
  BY <1>3, <1>4, <1>5, <1>6, <1>7, <1>8, <1>9, <1>10

\* A connection that waits in the backlog has no entry in the table.
LEMMA BacklogOutside ==
    ASSUME ServerInv, NEW c \in Conns, link[c] # "open"
    PROVE  \A fd \in Fds : table[fd] # c
BY ServerAssumption DEF ServerInv, TableInv, Used

\* A connection is accepted and entered under the lowest free descriptor.
LEMMA EnterKeeps ==
    ASSUME IInv, ServerInv, NEW c \in Conns, Accept(c), thread = "accept",
           NEW fd \in Free, Enter(fd, c),
           UNCHANGED <<thread, running, signalled, batch, cur, expired>>
    PROVE  ServerInv'
<1> USE DEF ServerInv, Handling, AtDoor
<1>1. /\ link[c] = "backlog" /\ link'[c] = "open" /\ sess'[c] = NewSession
      /\ SessionStep(c)
      /\ \A g \in Fds : table[g] # c
  BY DoorEffect, BacklogOutside DEF IInv, SessionStep, ServerStep
<1>2. /\ fd \in Fds /\ table[fd] = NoConn /\ c # NoConn
      /\ table' = [table EXCEPT ![fd] = c]
      /\ registered' = [registered EXCEPT ![fd] = "IN"]
      /\ table'[fd] = c /\ registered'[fd] = "IN"
      /\ \A g \in Fds \ {fd} : table'[g] = table[g] /\ registered'[g] = registered[g]
  BY ServerAssumption DEF Free, Used, Enter, interest, NewSession, ServerTypeOK
<1>3. /\ \A d \in Conns \ {c} : sess'[d] = sess[d] /\ link'[d] = link[d]
      /\ \A d : ~Handling(d) /\ ~Handling(d)' /\ ~AtDoor(d) /\ ~AtDoor(d)'
      /\ interest(sess'[c]) = "IN" /\ sess'[c].pc = "idle"
  BY <1>1, OthersInPlace DEF interest, NewSession
<1>4. ServerTypeOK'
  BY <1>2 DEF ServerTypeOK
<1>5. HandInv'
  BY DEF HandInv
<1>6. TableInv'
  <2>1. \A g, h \in Used' : table'[g] = table'[h] => g = h
    BY <1>1, <1>2 DEF TableInv, Used
  <2>2. ASSUME NEW g \in Used'
        PROVE  link'[table'[g]] = "open"
    <3>1. CASE g # fd
      <4>1. g \in Used /\ table'[g] = table[g] /\ table[g] \in Conns \ {c}
        BY <1>1, <1>2, <2>2, <3>1 DEF Used, ServerTypeOK
      <4>2. QED
        BY <1>3, <4>1 DEF TableInv
    <3>2. QED
      BY <1>1, <1>2, <3>1
  <2>3. ASSUME NEW d \in Conns, link'[d] = "open"
        PROVE  \E g \in Fds : table'[g] = d
    <3>1. CASE d # c
      <4>1. link[d] = "open"
        BY <1>3, <2>3, <3>1
      <4>2. PICK g \in Fds : table[g] = d
        BY <1>3, <4>1 DEF TableInv
      <4>3. g # fd
        BY <1>2, <4>2, ServerAssumption
      <4>4. QED
        BY <1>2, <4>2, <4>3
    <3>2. QED
      BY <1>2, <3>1
  <2>4. QED
    BY <2>1, <2>2, <2>3 DEF TableInv
<1>7. PcInv'
  <2>1. \A d \in Conns \ {c} : link'[d] = "open" => sess'[d].pc = "idle"
    BY <1>3 DEF PcInv
  <2>2. QED
    BY <1>3, <2>1 DEF PcInv
<1>8. RegisteredInv'
  <2>1. SUFFICES ASSUME NEW g \in Fds \ {fd}
                 PROVE  IF table[g] = NoConn THEN registered[g] = "none"
                        ELSE registered[g] = interest(sess[table[g]])'
    BY <1>2, <1>3 DEF RegisteredInv
  <2>2. CASE table[g] # NoConn
    <3>1. table[g] \in Conns \ {c} /\ registered[g] = interest(sess[table[g]])
      BY <1>1, <1>3, <2>2 DEF RegisteredInv, ServerTypeOK
    <3>2. QED
      BY <1>2, <1>3, <2>1, <2>2, <3>1 DEF interest
  <2>3. QED
    BY <2>2 DEF RegisteredInv
<1>9. BatchInv'
  <2>1. ASSUME NEW i \in 1..Len(batch)
        PROVE  EventInv(batch[i])'
    <3>1. EventInv(batch[i])
      BY DEF BatchInv
    <3>2. CASE batch[i].fd \in Fds
      <4>1. batch[i].conn # c /\ batch[i].fd # fd
        BY <1>1, <1>2, <3>1, <3>2, ServerAssumption DEF EventInv
      <4>2. QED
        BY <1>1, <1>2, <1>3, <3>1, <3>2, <4>1, OthersInPlace
    <3>3. CASE batch[i].fd \notin Fds
      BY <3>3 DEF EventInv
    <3>4. QED
      BY <3>2, <3>3
  <2>2. QED
    BY <2>1 DEF BatchInv
<1>10. SweepInv' /\ StopInv'
  BY DEF SweepInv, StopInv
<1>11. QED
  BY <1>4, <1>5, <1>6, <1>7, <1>8, <1>9, <1>10

LEMMA AcceptOneKeeps ==
    ASSUME IInv, ServerInv, NEW c \in Conns, AcceptOne(c)
    PROVE  ServerInv' /\ SessionStep(c)
<1>1. /\ thread = "accept" /\ Accept(c)
      /\ UNCHANGED <<running, signalled, batch, expired>>
  BY DEF AcceptOne
<1>2. /\ SessionStep(c) /\ link[c] = "backlog" /\ link'[c] = "open"
      /\ sess'[c].pc = "idle"
  BY <1>1, DoorEffect DEF IInv, SessionStep, ServerStep, NewSession
<1>3. ASSUME NEW fd \in Fds, Lowest(fd), Enter(fd, c), UNCHANGED <<thread, cur>>
      PROVE  ServerInv'
  <2>1. fd \in Free
    BY <1>3 DEF Lowest
  <2>2. QED
    BY <1>1, <1>3, <2>1, EnterKeeps
<1>4. CASE thread' = "discard" /\ cur' = c /\ UNCHANGED <<table, registered>>
  <2>1. \A fd \in Fds : table[fd] # c
    BY <1>2, BacklogOutside
  <2>2. QED
    BY <1>1, <1>2, <1>4, <2>1, DoorKeeps
<1>5. QED
  BY <1>2, <1>3, <1>4 DEF AcceptOne

LEMMA AcceptBusyKeeps ==
    ASSUME IInv, ServerInv, NEW c \in Conns, AcceptBusy(c)
    PROVE  ServerInv' /\ SessionStep(c)
<1>1. /\ thread = "accept" /\ Refuse(c) /\ thread' = "refuse" /\ cur' = c
      /\ UNCHANGED <<running, signalled, batch, expired, table, registered>>
  BY DEF AcceptBusy
<1>2. /\ SessionStep(c) /\ link[c] = "backlog" /\ link'[c] = "open"
      /\ sess'[c].pc = "busy"
  BY <1>1, DoorEffect DEF IInv, SessionStep, ServerStep
<1>3. \A fd \in Fds : table[fd] # c
  BY <1>2, BacklogOutside
<1>4. QED
  BY <1>1, <1>2, <1>3, DoorKeeps

\* The connection at the door is one, outside the table.
LEMMA AtTheDoor ==
    ASSUME ServerInv, thread \in {"refuse", "discard"}
    PROVE  cur \in Conns /\ \A fd \in Fds : table[fd] # cur
BY DEF ServerInv, HandInv

LEMMA SendBusyKeeps ==
    ASSUME IInv, ServerInv, SendBusy
    PROVE  ServerInv' /\ SessionStep(cur) /\ cur \in Conns
<1>1. thread = "refuse" /\ RefuseWrite(cur) /\ UNCHANGED serverVars
  BY DEF SendBusy
<1>2. cur \in Conns /\ \A fd \in Fds : table[fd] # cur
  BY <1>1, AtTheDoor
<1>3. SessionStep(cur) /\ link'[cur] = "open" /\ sess'[cur].pc = "refused"
  BY <1>1, <1>2, DoorEffect DEF IInv, SessionStep, ServerStep
<1>4. QED
  BY <1>1, <1>2, <1>3, DoorKeeps DEF serverVars, threadVars

LEMMA LeaveDoorKeeps ==
    ASSUME IInv, ServerInv, Discard \/ CloseBusy
    PROVE  ServerInv' /\ SessionStep(cur) /\ cur \in Conns
<1>1. /\ thread \in {"refuse", "discard"}
      /\ Destroy(cur) \/ RefuseClose(cur)
      /\ thread' = "accept" /\ cur' = NoConn
      /\ UNCHANGED <<running, signalled, batch, expired, table, registered>>
  BY DEF Discard, CloseBusy
<1>2. cur \in Conns /\ \A fd \in Fds : table[fd] # cur
  BY <1>1, AtTheDoor
<1>3. SessionStep(cur) /\ link'[cur] = "closed"
  BY <1>1, <1>2, DoorEffect DEF IInv, SessionStep, ServerStep
<1>4. QED
  BY <1>1, <1>2, <1>3, DoorKeeps

LEMMA ResetBacklogKeeps ==
    ASSUME IInv, ServerInv, NEW c \in Conns, ResetBacklog(c)
    PROVE  ServerInv' /\ SessionStep(c)
<1>1. thread = "close" /\ LeaveUnaccepted(c) /\ UNCHANGED serverVars
  BY DEF ResetBacklog
<1>2. SessionStep(c) /\ link[c] = "backlog" /\ link'[c] = "closed"
  BY <1>1, DoorEffect DEF IInv, SessionStep, ServerStep
<1>3. \A fd \in Fds : table[fd] # c
  BY <1>2, BacklogOutside
<1>4. QED
  BY <1>1, <1>2, <1>3, DoorKeeps DEF serverVars, threadVars

-----------------------------------------------------------------------------
(* The theorems.                                                           *)

\* A step of the thread keeps the invariant, and is a step of one session or
\* touches none.
LEMMA ThreadStepKeeps ==
    ASSUME IInv, ServerInv, ThreadStep
    PROVE  ServerInv' /\ (UNCHANGED vars \/ \E c \in Conns : SessionStep(c))
<1>1. CASE EpollWait
  BY <1>1, EpollWaitKeeps DEF EpollWait
<1>2. CASE \/ DispatchListener \/ DispatchSignal \/ DispatchDone \/ AcceptDone
           \/ SweepDone \/ StopListener \/ Stopped
  <2>1. UNCHANGED vars
    BY <1>2 DEF DispatchListener, DispatchSignal, DispatchDone, AcceptDone,
                SweepDone, StopListener, Stopped
  <2>2. QED
    BY <1>2, <2>1, ThreadOnlyKeeps
<1>3. CASE Run
  BY <1>3, RunKeeps
<1>4. CASE Discard \/ CloseBusy
  BY <1>4, LeaveDoorKeeps
<1>5. CASE SendBusy
  BY <1>5, SendBusyKeeps
<1>6. ASSUME NEW fd \in Fds,
             \/ DispatchSession(fd) \/ HandleFalse(fd) \/ HandleTrue(fd)
             \/ Sweep(fd) \/ StopSession(fd)
      PROVE  ServerInv' /\ \E c \in Conns : SessionStep(c)
  BY <1>6, DispatchSessionKeeps, HandleFalseKeeps, HandleTrueKeeps, SweepKeeps,
     StopSessionKeeps
<1>7. ASSUME NEW c \in Conns, AcceptOne(c) \/ AcceptBusy(c) \/ ResetBacklog(c)
      PROVE  ServerInv' /\ SessionStep(c)
  BY <1>7, AcceptOneKeeps, AcceptBusyKeeps, ResetBacklogKeeps
<1>8. QED
  BY <1>1, <1>2, <1>3, <1>4, <1>5, <1>6, <1>7 DEF ThreadStep

\* Every step keeps the invariant of the reactor and is a step of Session.
LEMMA ReactorStepKeeps ==
    ASSUME IInv, ServerInv, [ServerNext]_allVars
    PROVE  ServerInv' /\ [Next]_vars
<1>1. CASE ThreadStep
  BY <1>1, ThreadStepKeeps DEF Next
<1>2. CASE Interrupt
  BY <1>2, ThreadOnlyKeeps DEF Interrupt
<1>3. ASSUME NEW c \in Conns, Client(c) \/ TimePasses(c)
      PROVE  ServerInv' /\ [Next]_vars
  BY <1>3, AnyClientKeeps, TimeKeeps DEF Client, TimePasses, Next, SessionStep
<1>4. CASE UNCHANGED allVars
  <2>1. UNCHANGED <<vars, table, registered, cur, thread, running, signalled,
                    batch, expired>>
    BY <1>4 DEF allVars, serverVars, threadVars
  <2>2. HandInv' /\ TableInv' /\ PcInv' /\ RegisteredInv'
        /\ \A e : EventInv(e) => EventInv(e)'
    BY <2>1, ThreadMoves
  <2>3. ServerTypeOK' /\ SweepInv' /\ StopInv'
    BY <2>1 DEF ServerInv, ServerTypeOK, SweepInv, StopInv, Used, Backlog, vars, sockVars
  <2>4. BatchInv'
    <3>1. \A i \in 1..Len(batch) : EventInv(batch[i])'
      BY <2>1, <2>2 DEF ServerInv, BatchInv, EventInv, Handling, interest, Reports
    <3>2. QED
      BY <2>1, <3>1 DEF ServerInv, BatchInv
  <2>5. QED
    BY <2>1, <2>2, <2>3, <2>4 DEF ServerInv
<1>5. QED
  BY <1>1, <1>2, <1>3, <1>4 DEF ServerNext

\* The reactor starts in its invariant.
LEMMA ServerStarts ==
    ASSUME ServerInit
    PROVE  ServerInv
<1> USE DEF ServerInit, Init, SocketInit
<1>1. ServerTypeOK
  <2>1. batch \in Seq(Event)
    OBVIOUS
  <2>2. QED
    BY <2>1 DEF ServerTypeOK
<1>2. HandInv /\ PcInv /\ RegisteredInv /\ SweepInv /\ StopInv
  BY DEF HandInv, PcInv, RegisteredInv, SweepInv, StopInv
<1>3. TableInv /\ BatchInv
  BY DEF TableInv, Used, BatchInv
<1>4. QED
  BY <1>1, <1>2, <1>3 DEF ServerInv

\* The reactor's table, registrations and batch agree, and its sessions keep
\* the invariant of Session.
THEOREM ServerInductive == ServerSpec => [](IInv /\ ServerInv)
<1>1. ServerInit => IInv /\ ServerInv
  BY ServerStarts, InitInv DEF ServerInit
<1>2. IInv /\ ServerInv /\ [ServerNext]_allVars => (IInv /\ ServerInv)'
  BY ReactorStepKeeps, InvStep
<1>3. QED
  BY <1>1, <1>2, PTL DEF ServerSpec

\* The reactor runs its sessions as module Session says they run, so that what
\* is proved of Session holds of the server (run, handleSession, closeSession,
\* acceptConnections and sweepIdle).
THEOREM ServerImplementsSession == ServerSpec => ImplementsSession
<1>1. ServerInit => Init
  BY DEF ServerInit
<1>2. IInv /\ ServerInv /\ [ServerNext]_allVars => [Next]_vars
  BY ReactorStepKeeps
<1>3. QED
  BY <1>1, <1>2, ServerInductive, PTL DEF ServerSpec, ImplementsSession, Spec

\* Whenever the thread waits, each open connection has one descriptor, watched
\* for what its session waits for, and no other descriptor is watched.
THEOREM RegistrationsMatch == ServerSpec => []RegistrationMatches
<1>1. ASSUME ServerInv
      PROVE  RegistrationMatches
  <2>1. SUFFICES ASSUME thread = "wait"
                 PROVE  /\ \A c \in Conns : link[c] = "open" => \E fd \in Fds : table[fd] = c
                        /\ \A fd, g \in Used : table[fd] = table[g] => fd = g
                        /\ \A fd \in Used : /\ At(table[fd], "idle")
                                            /\ registered[fd] = interest(sess[table[fd]])
                        /\ \A fd \in Free : registered[fd] = "none"
    BY DEF RegistrationMatches
  <2>2. \A c : ~Handling(c) /\ ~AtDoor(c)
    BY <2>1 DEF Handling, AtDoor
  <2>3. \A c \in Conns : link[c] = "open" => \E fd \in Fds : table[fd] = c
    BY <1>1, <2>2 DEF ServerInv, TableInv
  <2>4. ASSUME NEW fd \in Used
        PROVE  At(table[fd], "idle") /\ registered[fd] = interest(sess[table[fd]])
    <3>1. fd \in Fds /\ table[fd] # NoConn /\ table[fd] \in Conns /\ link[table[fd]] = "open"
      BY <1>1, <2>4, InTable DEF Used
    <3>2. sess[table[fd]].pc = "idle"
      BY <1>1, <2>1, <2>2, <3>1 DEF ServerInv, PcInv
    <3>3. QED
      BY <1>1, <2>2, <3>1, <3>2 DEF ServerInv, RegisteredInv, At
  <2>5. \A fd \in Free : registered[fd] = "none"
    BY <1>1 DEF ServerInv, RegisteredInv, Free, Used
  <2>6. QED
    BY <1>1, <2>3, <2>4, <2>5 DEF ServerInv, TableInv
<1>2. QED
  BY <1>1, ServerInductive, PTL

\* No event of a batch goes stale: when the loop comes to it, its descriptor
\* still is that of the session it was reported of, and it still holds, however
\* many sessions ended and descriptors were reused since epoll_wait returned.
THEOREM EventsStayFresh == ServerSpec => []DispatchFresh
<1>1. ASSUME ServerInv, NEW i \in 1..Len(batch), batch[i].fd \in Fds
      PROVE  /\ table[batch[i].fd] = batch[i].conn
             /\ batch[i].conn \in Conns
             /\ At(batch[i].conn, "idle")
             /\ interest(sess[batch[i].conn]) \in batch[i].events
             /\ batch[i].events \subseteq Reports(batch[i].conn, registered[batch[i].fd])
  <2> DEFINE e == batch[i]
  <2>1. /\ table[e.fd] = e.conn /\ e.conn \in Conns /\ ~Handling(e.conn)
        /\ interest(sess[e.conn]) \in e.events
        /\ e.events \subseteq Reports(e.conn, registered[e.fd])
    BY <1>1 DEF ServerInv, BatchInv, EventInv
  <2>2. table[e.fd] # NoConn
    BY <2>1, ServerAssumption
  <2>3. link[e.conn] = "open" /\ table[e.fd] \in Conns
    BY <1>1, <2>1, <2>2, InTable
  <2>4. ~(thread = "refuse" /\ cur = e.conn)
    BY <1>1, <2>1 DEF ServerInv, HandInv
  <2>5. At(e.conn, "idle")
    BY <1>1, <2>1, <2>3, <2>4 DEF ServerInv, PcInv, At
  <2>6. QED
    BY <2>1, <2>5
<1>2. ServerInv => DispatchFresh
  BY <1>1 DEF DispatchFresh
<1>3. QED
  BY <1>2, ServerInductive, PTL

\* A server that stopped has closed every connection and removed every
\* temporary file, wherever the signal found it.
THEOREM StopIsClean == ServerSpec => []StopsClean
<1>1. ASSUME IInv, ServerInv, thread = "stopped", NEW c \in Conns
      PROVE  link[c] \in {"none", "closed"} /\ ~writer[c].temp
  <2>1. link[c] # "open"
    <3>1. ~AtDoor(c) /\ \A fd \in Fds : table[fd] = NoConn
      BY <1>1 DEF AtDoor, ServerInv, StopInv, Used
    <3>2. QED
      BY <1>1, <3>1, ServerAssumption DEF ServerInv, TableInv
  <2>2. link[c] # "backlog"
    BY <1>1 DEF ServerInv, StopInv, Backlog
  <2>3. link[c] \in {"none", "backlog", "open", "closed"}
    BY <1>1 DEF IInv, TypeOK, SocketTypeOK
  <2>4. ~writer[c].temp
    BY <1>1, <2>1 DEF IInv, ConnInv, WriterInv
  <2>5. QED
    BY <2>1, <2>2, <2>3, <2>4
<1>2. IInv /\ ServerInv => StopsClean
  BY <1>1 DEF StopsClean
<1>3. QED
  BY <1>2, ServerInductive, PTL

\* In the server as it runs, too, an ACK tells the truth, temporary files are
\* disciplined, published files whole, clients dropped gracefully, the log is
\* right about stored files, and verdicts are final.
THEOREM ServerIsTruthful ==
    ServerSpec => /\ []AckTruth /\ []TempDiscipline /\ []PublishedWhole
                  /\ []DropIsGraceful /\ []StoredNotReported /\ VerdictFinal
  BY ServerImplementsSession, AcksAreTrue, TempsAreDisciplined, FilesAreWhole,
     DropsAreGraceful, StoredIsNotReported, VerdictsAreFinal, PTL DEF ImplementsSession

-----------------------------------------------------------------------------
(* The limit on sessions, for every limit and any number of descriptors.   *)

\* How many entries the table has; one connection may be on its way in or out.
LimitInv ==
    /\ Cardinality(Used) <= MaxSessions
    /\ thread = "discard" => Cardinality(Used) < MaxSessions
    /\ thread = "refuse" => Cardinality(Used) = MaxSessions

LEMMA UsedFinite ==
    IsFiniteSet(Used) /\ Cardinality(Used) \in Nat
<1>1. IsFiniteSet(Used)
  BY ServerAssumption, FS_Subset DEF Used
<1>2. QED
  BY <1>1, FS_CardinalityType

\* Sessions end, and nobody is at the door.
LEMMA Shrinks ==
    ASSUME LimitInv, Used' \subseteq Used, thread' \notin {"refuse", "discard"}
    PROVE  LimitInv'
<1>1. Cardinality(Used') <= Cardinality(Used) /\ Cardinality(Used') \in Nat
  BY UsedFinite, FS_Subset, FS_CardinalityType
<1>2. QED
  BY <1>1, UsedFinite, ServerAssumption DEF LimitInv

LEMMA SameTable ==
    ASSUME LimitInv, UNCHANGED table,
           thread' \in {"refuse", "discard"} => thread' = thread
    PROVE  LimitInv'
BY DEF LimitInv, Used

LEMMA AcceptOneFits ==
    ASSUME ServerInv, LimitInv, NEW c \in Conns, AcceptOne(c)
    PROVE  LimitInv'
<1>1. Cardinality(Used) < MaxSessions /\ thread = "accept"
  BY UsedFinite, ServerAssumption DEF AcceptOne, Full
<1>2. ASSUME NEW fd \in Fds, Lowest(fd), Enter(fd, c), thread' = thread
      PROVE  LimitInv'
  <2>1. fd \notin Used /\ table \in [Fds -> Conns \cup {NoConn}] /\ c # NoConn
    BY <1>2, ServerAssumption DEF Lowest, Free, ServerInv, ServerTypeOK
  <2>2. Used' = Used \cup {fd}
    BY <1>2, <2>1 DEF Enter, Used
  <2>3. Cardinality(Used') = Cardinality(Used) + 1
    BY <2>1, <2>2, UsedFinite, FS_AddElement
  <2>4. QED
    BY <1>1, <1>2, <2>3, UsedFinite, ServerAssumption DEF LimitInv
<1>3. CASE thread' = "discard" /\ UNCHANGED table
  BY <1>1, <1>3 DEF LimitInv, Used
<1>4. QED
  BY <1>2, <1>3 DEF AcceptOne

LEMMA AcceptBusyFits ==
    ASSUME LimitInv, NEW c \in Conns, AcceptBusy(c)
    PROVE  LimitInv'
<1>1. Cardinality(Used) >= MaxSessions /\ thread' = "refuse" /\ UNCHANGED table
  BY DEF AcceptBusy, Full
<1>2. QED
  BY <1>1, UsedFinite, ServerAssumption DEF LimitInv, Used

LEMMA Fits ==
    ASSUME ServerInv, LimitInv, [ServerNext]_allVars
    PROVE  LimitInv'
<1>1. ASSUME NEW fd \in Fds, Erase(fd) PROVE Used' \subseteq Used
  BY <1>1 DEF Erase, Used, ServerInv, ServerTypeOK
<1>2. ASSUME NEW fd \in Fds,
             HandleFalse(fd) \/ HandleTrue(fd) \/ Sweep(fd) \/ StopSession(fd)
      PROVE  LimitInv'
  <2>1. thread' \notin {"refuse", "discard"}
    BY <1>2 DEF HandleFalse, HandleTrue, Sweep, StopSession, threadVars
  <2>2. Erase(fd) \/ UNCHANGED table
    BY <1>2 DEF HandleFalse, HandleTrue, Sweep, StopSession
  <2>3. Used' \subseteq Used
    BY <1>1, <2>2 DEF Used
  <2>4. QED
    BY <2>1, <2>3, Shrinks
<1>3. ASSUME NEW fd \in Fds, DispatchSession(fd) PROVE LimitInv'
  <2>1. UNCHANGED table /\ thread' \in {"handle", thread} /\ thread = "dispatch"
    BY <1>3 DEF DispatchSession, TakeEvent
  <2>2. QED
    BY <2>1, SameTable
<1>4. CASE \/ EpollWait \/ DispatchListener \/ DispatchSignal \/ DispatchDone
           \/ Run \/ Discard \/ SendBusy \/ CloseBusy \/ AcceptDone
           \/ SweepDone \/ StopListener \/ Stopped
  <2>1. UNCHANGED table /\ (thread' \in {"refuse", "discard"} => thread' = thread)
    BY <1>4 DEF EpollWait, DispatchListener, DispatchSignal, DispatchDone, Run,
                Discard, SendBusy, CloseBusy, AcceptDone, SweepDone, StopListener,
                Stopped, serverVars, threadVars
  <2>2. QED
    BY <2>1, SameTable
<1>5. ASSUME NEW c \in Conns, Client(c) \/ TimePasses(c) \/ ResetBacklog(c)
      PROVE  LimitInv'
  BY <1>5, SameTable DEF Client, TimePasses, ResetBacklog, serverVars, threadVars
<1>6. CASE Interrupt \/ UNCHANGED allVars
  BY <1>6, SameTable DEF Interrupt, allVars, serverVars, threadVars
<1>7. QED
  BY <1>2, <1>3, <1>4, <1>5, <1>6, AcceptOneFits, AcceptBusyFits
  DEF ServerNext, ThreadStep

\* Each open connection that is a session has an entry of its own, but for the
\* one that epoll would not take.
LEMMA SessionsCounted ==
    ASSUME ServerInv, LimitInv
    PROVE  LimitKept
<1> DEFINE Sessions == {c \in Conns : link[c] = "open" /\ sess[c].pc \notin {"busy", "refused"}}
           Entered == {table[fd] : fd \in Used}
           f == [fd \in Used |-> table[fd]]
<1>1. IsFiniteSet(Entered) /\ Cardinality(Entered) <= Cardinality(Used)
  <2>1. f \in Surjection(Used, Entered)
    BY DEF Surjection
  <2>2. QED
    BY <2>1, UsedFinite, FS_Surjection
<1>2. ASSUME NEW c \in Sessions, ~(thread = "discard" /\ cur = c)
      PROVE  c \in Entered
  <2>1. ~(thread = "refuse" /\ cur = c)
    BY DEF ServerInv, PcInv, Handling
  <2>2. PICK fd \in Fds : table[fd] = c
    BY <1>2, <2>1 DEF ServerInv, TableInv, AtDoor
  <2>3. fd \in Used
    BY <2>2, ServerAssumption DEF Used
  <2>4. QED
    BY <2>2, <2>3
<1>3. Cardinality(Entered) \in Nat
  BY <1>1, FS_CardinalityType
<1>4. Cardinality(Sessions) <= MaxSessions
  <2>1. CASE thread = "discard"
    <3>1. Sessions \subseteq Entered \cup {cur}
      BY <1>2
    <3> HIDE DEF Entered
    <3>2. IsFiniteSet(Entered \cup {cur})
          /\ Cardinality(Entered \cup {cur}) <= Cardinality(Entered) + 1
          /\ Cardinality(Entered \cup {cur}) \in Nat
      <4>1. IsFiniteSet(Entered \cup {cur})
            /\ Cardinality(Entered \cup {cur}) =
                 IF cur \in Entered THEN Cardinality(Entered) ELSE Cardinality(Entered) + 1
        BY <1>1, FS_AddElement
      <4>2. QED
        BY <1>3, <4>1
    <3>3. Cardinality(Sessions) <= Cardinality(Entered \cup {cur})
          /\ Cardinality(Sessions) \in Nat
      BY <3>1, <3>2, FS_Subset, FS_CardinalityType
    <3>4. QED
      BY <1>1, <1>3, <2>1, <3>2, <3>3, UsedFinite, ServerAssumption DEF LimitInv
  <2>2. CASE thread # "discard"
    <3>1. Sessions \subseteq Entered
      BY <1>2, <2>2
    <3>2. Cardinality(Sessions) <= Cardinality(Entered) /\ Cardinality(Sessions) \in Nat
      BY <1>1, <3>1, FS_Subset, FS_CardinalityType
    <3>3. QED
      BY <1>1, <1>3, <3>2, UsedFinite, ServerAssumption DEF LimitInv
  <2>3. QED
    BY <2>1, <2>2
<1>5. QED
  BY <1>4 DEF LimitKept, LimitInv

\* Never more sessions than --max-sessions, and Busy is said only when there are
\* as many, whatever fails in between (acceptConnections).
THEOREM LimitIsKept == ServerSpec => []LimitKept
<1>1. ServerInit => LimitInv
  <2>1. ServerInit => Used = {} /\ thread = "wait"
    BY DEF ServerInit, Used
  <2>2. QED
    BY <2>1, FS_EmptySet, ServerAssumption DEF LimitInv
<1>2. IInv /\ ServerInv /\ LimitInv /\ [ServerNext]_allVars => LimitInv'
  BY Fits
<1>3. ServerInv /\ LimitInv => LimitKept
  BY SessionsCounted
<1>4. QED
  BY <1>1, <1>2, <1>3, ServerInductive, PTL DEF ServerSpec

\* Each of the reactor's variables holds values of its type.
THEOREM ReactorTypes == ServerSpec => []ServerTypeOK
<1>1. IInv /\ ServerInv => ServerTypeOK
  BY DEF ServerInv
<1>2. ServerSpec => [](IInv /\ ServerInv)
  BY ServerInductive
<1>3. QED
  BY <1>1, <1>2, PTL
=============================================================================
