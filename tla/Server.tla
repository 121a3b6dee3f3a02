------------------------------- MODULE Server -------------------------------
(***************************************************************************)
(* server::Server: the reactor.  One thread waits in epoll, dispatches a   *)
(* batch of events to acceptConnections, to the signal descriptor or to    *)
(* the sessions, sweeps the idle ones and waits again.  Every action here  *)
(* that touches a session is an action of Session with the thread in the   *)
(* right place, so that the server implements module Session; what it adds *)
(* is the one thread, the descriptors with their reuse, the table of       *)
(* sessions, the epoll registrations and the batch of reported events,     *)
(* which ages while it is worked off.                                      *)
(*                                                                         *)
(* The model starts where run() enters its loop; what can fail before is   *)
(* an error exit without a connection.  epoll_wait itself does not fail    *)
(* here: with the arguments run() gives it only EINTR is left, after which *)
(* the loop just waits again.                                              *)
(***************************************************************************)
EXTENDS Session, FiniteSets

CONSTANTS
    Fds,           \* descriptors left for connections (RLIMIT_NOFILE)
    Listener,      \* m_listener->fd()
    Signal,        \* m_signalFd
    NoConn,        \* no connection
    MaxSessions,   \* ServerConfig::maxSessions
    MaxEvents      \* MAX_EVENTS

ASSUME ServerAssumption ==
    /\ Fds \subseteq Nat /\ IsFiniteSet(Fds)
    /\ {Listener, Signal} \cap Fds = {} /\ Listener # Signal
    /\ NoConn \notin Conns
    /\ MaxSessions \in Nat
    /\ MaxEvents \in Nat \ {0}

VARIABLES
    thread,      \* where run() is
    running,     \* its local variable of that name
    signalled,   \* SIGINT or SIGTERM is pending on the signal descriptor
    batch,       \* events epoll_wait returned and the loop has not come to
    cur,         \* the connection in hand: being handled, refused or discarded
    table,       \* m_sessions: descriptor to session
    registered,  \* what epoll watches on a descriptor, equal to Entry::events
    expired      \* sweepIdle's local list

threadVars == <<thread, running, signalled, batch, cur, expired>>
serverVars == <<threadVars, table, registered>>
allVars == <<vars, serverVars>>

Mask == {"IN", "OUT", "HUP"}

\* One reported event; conn is the connection it was reported of, which the
\* code does not keep: it finds the session by descriptor.
Event == [fd : Fds \cup {Listener, Signal}, events : SUBSET Mask,
          conn : Conns \cup {NoConn}]

\* Each of the reactor's variables holds values of its type.
ServerTypeOK ==
    /\ thread \in {"wait", "dispatch", "accept", "refuse", "discard", "handle",
                   "sweep", "stop", "close", "stopped"}
    /\ running \in BOOLEAN /\ signalled \in BOOLEAN
    /\ batch \in Seq(Event)
    /\ cur \in Conns \cup {NoConn}
    /\ table \in [Fds -> Conns \cup {NoConn}]
    /\ registered \in [Fds -> {"none", "IN", "OUT"}]
    /\ expired \in SUBSET Fds

ServerInit ==
    /\ Init
    /\ thread = "wait" /\ running = TRUE /\ signalled = FALSE
    /\ batch = <<>> /\ cur = NoConn /\ expired = {}
    /\ table = [fd \in Fds |-> NoConn]
    /\ registered = [fd \in Fds |-> "none"]

-----------------------------------------------------------------------------
Used == {fd \in Fds : table[fd] # NoConn}
Free == Fds \ Used
FullLate == Cardinality(Used) > MaxSessions   \* wrong: one too many
Full == Cardinality(Used) >= MaxSessions
Backlog == {c \in Conns : link[c] = "backlog"}

\* A wrong closeSession: the entry stays in the table.
EraseNothing(fd) == UNCHANGED <<table, registered>>

\* m_sessions.emplace with its registration, and closeSession's delFd and erase.
Enter(fd, c) ==
    /\ table' = [table EXCEPT ![fd] = c]
    /\ registered' = [registered EXCEPT ![fd] = interest(NewSession)]

Erase(fd) ==
    /\ table' = [table EXCEPT ![fd] = NoConn]
    /\ registered' = [registered EXCEPT ![fd] = "none"]

-----------------------------------------------------------------------------
(* epoll_wait.                                                             *)

ReadyEvents ==
    [fd : IF Backlog # {} THEN {Listener} ELSE {}, events : {{"IN"}},
     conn : {NoConn}]
      \cup [fd : IF signalled THEN {Signal} ELSE {}, events : {{"IN"}},
            conn : {NoConn}]
      \cup {[fd |-> fd, events |-> Reports(table[fd], registered[fd]),
             conn |-> table[fd]] :
              fd \in {g \in Used : Reports(table[g], registered[g]) # {}}}

\* epoll_wait returns what is ready, in any order and as much of it as fits,
\* or nothing after POLL_TIMEOUT_MS.
EpollWait ==
    /\ thread = "wait"
    /\ \E n \in 0..MaxEvents :
         /\ batch' \in [1..n -> ReadyEvents]
         /\ \A i, j \in 1..n : i # j => batch'[i] # batch'[j]
         /\ n < MaxEvents => \A e \in ReadyEvents : \E i \in 1..n : batch'[i] = e
    /\ thread' = "dispatch"
    /\ UNCHANGED <<vars, running, signalled, cur, expired, table, registered>>

-----------------------------------------------------------------------------
(* The loop over the batch.                                                *)

TakeEvent(fd) ==
    /\ thread = "dispatch"
    /\ batch # <<>>
    /\ Head(batch).fd = fd
    /\ batch' = Tail(batch)

DispatchListener ==
    /\ TakeEvent(Listener)
    /\ thread' = "accept"
    /\ UNCHANGED <<vars, running, signalled, cur, expired, table, registered>>

\* A wrong loop: the signal is read and forgotten.
DispatchSignalForgotten ==
    /\ TakeEvent(Signal)
    /\ signalled' = FALSE
    /\ UNCHANGED <<vars, running, thread, cur, expired, table, registered>>

DispatchSignal ==
    /\ TakeEvent(Signal)
    /\ running' = FALSE /\ signalled' = FALSE
    /\ UNCHANGED <<vars, thread, cur, expired, table, registered>>

\* handleSession: the session is found by the descriptor, or the descriptor is
\* dropped from epoll.
DispatchSession(fd) ==
    /\ TakeEvent(fd)
    /\ IF table[fd] = NoConn
       THEN /\ registered' = [registered EXCEPT ![fd] = "none"]
            /\ UNCHANGED <<vars, thread, cur>>
       ELSE /\ Handle(table[fd], Head(batch).events)
            /\ thread' = "handle"
            /\ cur' = table[fd]
            /\ UNCHANGED registered
    /\ UNCHANGED <<running, signalled, expired, table>>

\* Session::handle runs; the thread does nothing else meanwhile.
Run ==
    /\ thread = "handle"
    /\ HandlerStep(cur)
    /\ UNCHANGED serverVars

\* A wrong closeSession: it does without terminate and the destructors.
HandleFalseUnclean(fd) ==
    /\ thread = "handle" /\ table[fd] = cur
    /\ At(cur, "drop")
    /\ CloseLink(cur)
    /\ Set(cur, Goto(sess[cur], "idle"))
    /\ Erase(fd)
    /\ thread' = "dispatch" /\ cur' = NoConn
    /\ UNCHANGED <<writer, stored, running, signalled, batch, expired>>

\* handle returned false: closeSession.
HandleFalse(fd) ==
    /\ thread = "handle" /\ table[fd] = cur
    /\ At(cur, "drop")
    /\ CloseSession(cur)
    /\ Erase(fd)
    /\ thread' = "dispatch" /\ cur' = NoConn
    /\ UNCHANGED <<running, signalled, batch, expired>>

\* A wrong handleSession: the registration stays as it was.
HandleTrueUnregistered(fd) ==
    /\ thread = "handle" /\ table[fd] = cur
    /\ Rearm(cur)
    /\ thread' = "dispatch" /\ cur' = NoConn
    /\ UNCHANGED <<running, signalled, batch, expired, table, registered>>

\* handle returned true: the registration follows the session's interest, or
\* the session goes when epoll_ctl fails.
HandleTrue(fd) ==
    LET want == interest(sess[cur])
    IN  /\ thread = "handle" /\ table[fd] = cur
        /\ At(cur, "keep")
        /\ \/ /\ Rearm(cur)
              /\ registered' = [registered EXCEPT ![fd] = want]
              /\ UNCHANGED table
           \/ /\ want # registered[fd]
              /\ CloseSession(cur)
              /\ Erase(fd)
        /\ thread' = "dispatch" /\ cur' = NoConn
        /\ UNCHANGED <<running, signalled, batch, expired>>

\* A wrong loop: after a batch with events nobody looks at the idle sessions.
DispatchDoneUnswept ==
    /\ thread = "dispatch"
    /\ batch = <<>>
    /\ expired' = {}
    /\ thread' = "sweep"
    /\ UNCHANGED <<vars, running, signalled, batch, cur, table, registered>>

\* The batch is worked off: sweepIdle lists the expired sessions.
DispatchDone ==
    /\ thread = "dispatch"
    /\ batch = <<>>
    /\ expired' = {fd \in Used : sess[table[fd]].idle}
    /\ thread' = "sweep"
    /\ UNCHANGED <<vars, running, signalled, batch, cur, table, registered>>

-----------------------------------------------------------------------------
(* acceptConnections.                                                      *)

\* accept4 gives the lowest free descriptor.
Lowest(fd) == fd \in Free /\ \A g \in Free : fd <= g

AcceptOne(c) ==
    /\ thread = "accept"
    /\ ~Full
    /\ Accept(c)
    /\ \/ \E fd \in Fds : Lowest(fd) /\ Enter(fd, c)
          /\ UNCHANGED <<thread, cur>>
       \/ \* epoll_ctl(ADD) fails
          /\ Free # {}
          /\ thread' = "discard" /\ cur' = c
          /\ UNCHANGED <<table, registered>>
    /\ UNCHANGED <<running, signalled, batch, expired>>

\* ... and the session that could not be added is destroyed.
Discard ==
    /\ thread = "discard"
    /\ Destroy(cur)
    /\ thread' = "accept" /\ cur' = NoConn
    /\ UNCHANGED <<running, signalled, batch, expired, table, registered>>

AcceptBusy(c) ==
    /\ thread = "accept"
    /\ Full /\ Free # {}
    /\ Refuse(c)
    /\ thread' = "refuse" /\ cur' = c
    /\ UNCHANGED <<running, signalled, batch, expired, table, registered>>

SendBusy ==
    /\ thread = "refuse"
    /\ RefuseWrite(cur)
    /\ UNCHANGED serverVars

CloseBusy ==
    /\ thread = "refuse"
    /\ RefuseClose(cur)
    /\ thread' = "accept" /\ cur' = NoConn
    /\ UNCHANGED <<running, signalled, batch, expired, table, registered>>

\* accept4 fails, which ends the loop whatever the error: nobody waits (EAGAIN),
\* no descriptor is left (EMFILE), or anything else at any time (ENFILE, ENOBUFS).
AcceptDone ==
    /\ thread = "accept"
    /\ thread' = "dispatch"
    /\ UNCHANGED <<vars, running, signalled, batch, cur, expired, table, registered>>

-----------------------------------------------------------------------------
(* sweepIdle and the end of run.                                           *)

Sweep(fd) ==
    /\ thread = "sweep"
    /\ fd \in expired
    /\ SweepClose(table[fd])
    /\ Erase(fd)
    /\ expired' = expired \ {fd}
    /\ UNCHANGED <<thread, running, signalled, batch, cur>>

SweepDone ==
    /\ thread = "sweep"
    /\ expired = {}
    /\ thread' = IF running THEN "wait" ELSE "stop"
    /\ UNCHANGED <<vars, running, signalled, batch, cur, expired, table, registered>>

\* m_sessions.clear() ...
StopSession(fd) ==
    /\ thread = "stop"
    /\ fd \in Used
    /\ Destroy(table[fd])
    /\ Erase(fd)
    /\ UNCHANGED threadVars

\* A wrong end: the sessions are left where they are.
StopListenerFirst ==
    /\ thread = "stop"
    /\ thread' = "close"
    /\ UNCHANGED <<vars, running, signalled, batch, cur, expired, table, registered>>

\* ... then m_listener->close(), which resets whoever was not accepted.
StopListener ==
    /\ thread = "stop"
    /\ Used = {}
    /\ thread' = "close"
    /\ UNCHANGED <<vars, running, signalled, batch, cur, expired, table, registered>>

ResetBacklog(c) ==
    /\ thread = "close"
    /\ LeaveUnaccepted(c)
    /\ UNCHANGED serverVars

Stopped ==
    /\ thread = "close"
    /\ Backlog = {}
    /\ thread' = "stopped"
    /\ UNCHANGED <<vars, running, signalled, batch, cur, expired, table, registered>>

-----------------------------------------------------------------------------
(* Everything else: the clients, time, and the operator's signal.          *)

\* Nobody can connect once the listener is closed.
Client(c) ==
    /\ Peer(c)
    /\ thread \in {"close", "stopped"} => peer[c] # "none"
    /\ UNCHANGED serverVars

\* A session does not age in epoll_wait while an event of its own is ready:
\* epoll_wait returns at once then.
TimePasses(c) ==
    /\ Quiet(c)
    /\ thread = "wait" => \A e \in ReadyEvents : e.conn # c
    /\ UNCHANGED serverVars

Interrupt ==
    /\ running /\ ~signalled
    /\ signalled' = TRUE
    /\ UNCHANGED <<vars, thread, running, batch, cur, expired, table, registered>>

ThreadStep ==
    \/ EpollWait \/ DispatchListener \/ DispatchSignal \/ DispatchDone
    \/ Run \/ Discard \/ SendBusy \/ CloseBusy \/ AcceptDone
    \/ SweepDone \/ StopListener \/ Stopped
    \/ \E fd \in Fds : \/ DispatchSession(fd) \/ HandleFalse(fd) \/ HandleTrue(fd)
                       \/ Sweep(fd) \/ StopSession(fd)
    \/ \E c \in Conns : AcceptOne(c) \/ AcceptBusy(c) \/ ResetBacklog(c)

ServerNext ==
    \/ ThreadStep
    \/ Interrupt
    \/ \E c \in Conns : Client(c) \/ TimePasses(c)

ServerSpec == ServerInit /\ [][ServerNext]_allVars

\* accept4 gives the loop a connection.
Takes == \E c \in Conns : AcceptOne(c) \/ AcceptBusy(c)

\* The thread runs, time passes, and accept4 does not fail for ever while a
\* connection and a descriptor are there for it: the kernel's other shortages
\* end.  Nothing is assumed of clients and signals.
ServerFairness ==
    /\ WF_allVars(ThreadStep)
    /\ SF_allVars(Takes)
    /\ \A c \in Conns : WF_allVars(TimePasses(c))

FairServerSpec == ServerSpec /\ ServerFairness

-----------------------------------------------------------------------------
(* Safety.                                                                 *)

\* When the thread waits, every open connection has exactly one descriptor,
\* and epoll watches it for exactly what its session waits for; all other
\* descriptors are free and unwatched.  A session missing here would never
\* run again, a wrong registration would spin or sleep (handleSession,
\* closeSession, acceptConnections).
RegistrationMatches ==
    thread = "wait" =>
        /\ \A c \in Conns : link[c] = "open" => \E fd \in Fds : table[fd] = c
        /\ \A fd, g \in Used : table[fd] = table[g] => fd = g
        /\ \A fd \in Used : /\ At(table[fd], "idle")
                            /\ registered[fd] = interest(sess[table[fd]])
        /\ \A fd \in Free : registered[fd] = "none"

\* Events grow old while the batch is worked off: sessions end, descriptors are
\* closed and given to new connections.  Still every event finds the session
\* it was reported of, under no other's descriptor, and still holds
\* (Server::run, handleSession).
DispatchFresh ==
    \A i \in 1..Len(batch) : LET e == batch[i] IN
        e.fd \in Fds => /\ table[e.fd] = e.conn
                        /\ e.conn \in Conns
                        /\ At(e.conn, "idle")
                        /\ interest(sess[e.conn]) \in e.events
                        /\ e.events \subseteq Reports(e.conn, registered[e.fd])

\* No more sessions than --max-sessions at any time, and a connection is told
\* Busy only when there are as many (acceptConnections).
LimitKept ==
    /\ Cardinality({c \in Conns : link[c] = "open" /\ sess[c].pc \notin {"busy", "refused"}})
         <= MaxSessions
    /\ thread = "refuse" => Cardinality(Used) = MaxSessions

\* A server that stopped left no connection and no temporary file behind,
\* whatever was going on when the signal came (the end of Server::run).
StopsClean ==
    thread = "stopped" =>
        \A c \in Conns : link[c] \in {"none", "closed"} /\ ~writer[c].temp

\* The reactor runs its sessions as module Session says they run.
ImplementsSession == Spec

-----------------------------------------------------------------------------
(* The inductive invariant behind ImplementsSession, RegistrationMatches,  *)
(* DispatchFresh and StopsClean.                                           *)

Handling(c) == thread = "handle" /\ cur = c
AtDoor(c) == thread \in {"refuse", "discard"} /\ cur = c

\* The connection in hand is one: an entry of the table being handled, or one
\* just accepted that will not get there.
HandInv ==
    /\ thread \in {"handle", "refuse", "discard"} => cur \in Conns
    /\ thread = "handle" => \E fd \in Fds : table[fd] = cur
    /\ thread \in {"refuse", "discard"} =>
         link[cur] = "open" /\ \A fd \in Fds : table[fd] # cur

\* Descriptors and open connections go together.
TableInv ==
    /\ \A fd, g \in Used : table[fd] = table[g] => fd = g
    /\ \A fd \in Used : link[table[fd]] = "open"
    /\ \A c \in Conns :
         link[c] = "open" => AtDoor(c) \/ \E fd \in Fds : table[fd] = c

\* Only the connection in hand is inside its code.
PcInv ==
    \A c \in Conns : link[c] = "open" =>
        sess[c].pc \in IF Handling(c)
                       THEN {"read", "frames", "write", "keep", "drop"}
                       ELSE IF thread = "refuse" /\ cur = c THEN {"busy", "refused"}
                       ELSE {"idle"}

RegisteredInv ==
    \A fd \in Fds :
        IF table[fd] = NoConn THEN registered[fd] = "none"
        ELSE Handling(table[fd]) \/ registered[fd] = interest(sess[table[fd]])

\* What DispatchFresh says of event e, but for the place of its session's code.
EventInv(e) ==
    e.fd \in Fds =>
        /\ table[e.fd] = e.conn /\ e.conn \in Conns
        /\ ~Handling(e.conn)
        /\ interest(sess[e.conn]) \in e.events
        /\ e.events \subseteq Reports(e.conn, registered[e.fd])

BatchInv ==
    /\ batch # <<>> => thread \in {"dispatch", "handle", "accept", "refuse", "discard"}
    /\ \A i \in 1..Len(batch) : EventInv(batch[i])
    /\ \A i, j \in 1..Len(batch) :
         i # j /\ batch[i].fd \in Fds => batch[i].fd # batch[j].fd

SweepInv ==
    /\ thread # "sweep" => expired = {}
    /\ \A fd \in expired : fd \in Used /\ sess[table[fd]].idle

StopInv ==
    /\ thread \in {"close", "stopped"} => Used = {}
    /\ thread = "stopped" => Backlog = {}

\* What the proofs of module ServerProofs carry from state to state.
ServerInv ==
    /\ ServerTypeOK
    /\ HandInv /\ TableInv /\ PcInv /\ RegisteredInv
    /\ BatchInv /\ SweepInv /\ StopInv

-----------------------------------------------------------------------------
(* Liveness, unless some client sends for ever: Session::onReadable reads  *)
(* until nothing is left, and a client that keeps up keeps the thread.     *)

SendsForEver == []<><<\E c \in Conns, f \in PeerFrames : Send(c, f)>>_vars

\* A signal stops the server, with every session and connection there is.
StopsInTheEnd == (signalled ~> thread = "stopped") \/ SendsForEver

\* A connection in the backlog is accepted, refused or reset, also when no
\* descriptor is left for a while and accept4 fails with EMFILE.
Served ==
    (\A c \in Conns : link[c] = "backlog" ~> link[c] # "backlog") \/ SendsForEver

\* One thread for all sessions is enough to close every one of them in the end,
\* whatever another session does meanwhile: receives, waits to write its ACK, or
\* drains (run, handleSession, sweepIdle).
AllReaped ==
    (\A c \in Conns : link[c] \in {"backlog", "open"} ~> link[c] = "closed")
      \/ SendsForEver
=============================================================================
