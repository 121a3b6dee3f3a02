------------------------------- MODULE System -------------------------------
(***************************************************************************)
(* The two programs together: the server of module Server, with its        *)
(* thread, table, limit and stop, and programs of module Client at the     *)
(* other ends of its connections.  Server answers for it against any       *)
(* client, Transfer for each transfer against any schedule; here the       *)
(* schedule is the reactor's and the clients are ours.                     *)
(***************************************************************************)
EXTENDS Server, Transfer

systemVars == <<allVars, clientVars>>

SystemInit == ServerInit /\ ClientInit

\* Nobody can connect once the listener is closed.
MayConnect(c) ==
    thread \in {"close", "stopped"} /\ peer[c] = "none" => peer'[c] = "none"

ServerMove(step) == step /\ UNCHANGED clientVars

ClientMove(c, step) == step /\ MayConnect(c) /\ UNCHANGED <<sessionVars, serverVars>>

SystemNext ==
    \/ ServerMove(ThreadStep)
    \/ ServerMove(Interrupt)
    \/ \E c \in Conns : \/ ServerMove(TimePasses(c))
                        \/ ClientMove(c, ClientNext(c))

SystemSpec == SystemInit /\ [][SystemNext]_systemVars

\* The server's thread and every client run, and accept4 does not fail for ever.
\* No time-out of either side, no signal and no kill is counted on, and nothing is
\* assumed of single sessions.
FairSystemSpec ==
    /\ SystemSpec
    /\ WF_systemVars(ServerMove(ThreadStep))
    /\ SF_systemVars(ServerMove(Takes))
    /\ \A c \in Conns : WF_systemVars(ClientMove(c, ClientStep(c)))

-----------------------------------------------------------------------------
\* The reactor, with its batches, its limit and its one thread, does to each
\* transfer only what module Transfer allows, and so keeps its promises: the
\* exit codes are true and the files stored are those sent.
ImplementsTransfer == TransferSpec

\* The clients are only what module Server expects of clients, so that what it
\* promises of registrations, events, the limit and the stop holds of them.
ImplementsServer == ServerSpec

\* When the server has stopped, no client is left waiting for it: whoever still
\* holds a connection, accepted or not, finds the end of the server's stream or a
\* reset on it (m_sessions.clear(), m_listener->close()).
StopIsHeard ==
    thread = "stopped" => \A c \in Conns : peer[c] = "open" => downEnd[c] # "open"

\* With our clients nobody can hold the thread for ever: every client comes to
\* its exit, with a time limit or without, reset in the backlog, stopped in
\* mid-transfer or served to the end, and every signal stops the server
\* (sendFile, Server::run).
EverybodyLeaves == ClientExits /\ (signalled ~> thread = "stopped")
=============================================================================
