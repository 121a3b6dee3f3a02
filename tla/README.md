# nexus_transmitter in TLA+

`nexus_transmitter` sends a file from one process to another over TCP.  One
executable is both programs: the server (`-s`) is a single-threaded epoll
reactor that receives many files at once, the client (`-c`) is a blocking
program that sends one file and exits.  This directory holds TLA+ modules of
it, the TLC runs that check them on small instances, and theorems that TLAPS
checks for every instance.

Paths below are relative to the repository's `src/`.

## 1. The system

| component | state | operations | talks to |
|---|---|---|---|
| `server/Session` | state (Receiving, SendingAck, Draining), HELLO seen, announced and received sizes, checksum, outgoing ACK with the position in it, `m_completed`, `m_terminated`, time of the last activity | `handle` (`onReadable`, `processFrames`, `onHello`, `onData`, `onEnd`, `onWritable`), `fail`, `terminate`, `interest`, `expired` | its connection, its FrameParser, its FileWriter; called by Server |
| `server/Server` | table of sessions by descriptor, the events each is registered for, epoll set, listener, signal descriptor, batch of reported events | `run`, `acceptConnections`, `handleSession`, `closeSession`, `sweepIdle` | kernel (epoll, signalfd), Sessions |
| `server/FileWriter` | temporary path, descriptor, bytes written; a per-process counter; the directory, shared with other processes | `open`, `write`, `commit`, `abort` | file system; called by Session |
| `transport/TcpTransport` | descriptor | `connect`, `read`, `write`, `shutdownWrite`, `close`, `accept` | kernel |
| `protocol/` (frames, FrameParser) | bytes not yet parsed | `build*`, `parse*`, `feed`, `next` | called by Session and Client |
| `client/Client` | position in the file, checksum | `sendFile` (`writeAll`, `readAck`) | its connection; its exit code |
| `common/Crc32` | running checksum | `update`, `value` | Session, Client |
| `main`, `transport/Destination`, `transport/Factory` | configuration | parsing of options and addresses | Server, Client |
| `common/Log`, `Paths`, `TimeUtil` | none | formatting | everybody |

How they interact: everything on the server happens in one thread.  A batch of
events from `epoll_wait` is worked off one event at a time; an event of a
session runs `Session::handle` to its end, and the boolean it returns decides
between `closeSession` and a new registration according to
`Session::interest`.  After each batch, and at least every `POLL_TIMEOUT_MS`,
idle sessions are swept.  Client and server share nothing but the connection,
so that whatever the server assumes of the client it must check.

### What is hard about it

- *Order at the end of a connection.*  `close` with unread input sends RST, and
  RST destroys an ACK the client has not read.  Hence the half-close and the
  state Draining; and hence the finding about refused connections (section 6).
- *Old events.*  Events of one batch are reported together and worked off one
  after the other.  Meanwhile sessions end, their descriptors are closed, and
  `accept4` gives the numbers to other clients.
- *Cached registrations.*  `Entry::events` caches what epoll watches; if it and
  `interest()` part, a session sleeps for ever or spins.
- *Failure at every step.*  `open`, `write`, `fsync`, `link`, `epoll_ctl`,
  `accept4`, `send` may fail, the client may send anything, shut, close, or be
  silent, the signal may come in mid-batch.  Each way out must remove the
  temporary file, and none may disagree with the verdict the client reads.
- *Shared directory.*  Several processes may publish into one directory in the
  same second, may have the same pid (containers, or a pid used again after a
  crash), may crash between two system calls; the power may fail.
- *Progress.*  One thread serves everybody, so one session can starve the rest.
- *Two ends of a transfer.*  The client writes its whole file before it reads a
  word, while the server may have refused it at HELLO; each side has time-outs
  of its own; the file may change while it is sent; and the exit code must
  still tell the truth about a directory the client cannot see.
- *A stream without boundaries.*  Frames come in any pieces; the parser hands
  out pointers into a buffer that it compacts; a damaged byte may be a length.
- *Widths.*  `--timeout` goes through `unsigned long`, `long` and `int`, seconds,
  milliseconds and nanoseconds before a clock or the kernel sees it.

`PROJECT.json` lists each such hazard at the line where it bites, with the
properties that watch it.

### What makes each component correct

- Session: the verdict a client reads is the truth about its file, also when
  the connection breaks; one file at most, whole, checked; no temporary file
  outlives its session; no session outlives its client, unless that client
  sends for ever.
- Server: every open connection is in the table and watched for what it waits
  for; events reach the session they are about; the limit holds; a stop leaves
  nothing behind; the reactor runs its sessions as the session's specification
  says.
- FileWriter: publication is atomic, exclusive and truthfully reported.
- Client: exit code 0 only if the file is stored; 2, 3, 4 and 6 only if it is
  not.
- FrameParser: the frames found do not depend on how the stream is cut up.

## 2. The modules

| module | models | kind |
|---|---|---|
| `Protocol` | `protocol/Protocol`, what `FrameParser::next` can answer | data |
| `Socket` | `transport/TcpTransport` and the kernel below it: one TCP connection seen from both ends | operators and client actions |
| `Session` | `server/Session` against any client | component |
| `Server` | `server/Server` around the sessions | composition, EXTENDS `Session` |
| `Client` | `client/Client`: `sendFile`, `writeAll`, `readAck`, and the file being sent | component |
| `Delivery` | what an exit code promises | abstract specification |
| `Transfer` | client and session over one connection | composition of `Client` and `Session`, implements `Delivery` |
| `System` | the reactor with `client/Client` at the other ends of its connections | composition of `Server` and `Transfer`, implements both |
| `Inbox` | what storing a file promises | abstract specification |
| `FileWriter` | `server/FileWriter`, several processes in one directory | component, implements `Inbox` |
| `FrameParser` | `protocol/FrameParser` under its caller, on cells of the stream | component |
| `Crc32` | `common/Crc32`, table and running value, and the shift register that defines CRC-32 | functions |
| `Messages` | `build*` and `parse*` of `protocol/Protocol` around the parser, for any checksum | composition, EXTENDS `FrameParser` |
| `Framing` | the same with the real CRC, and the running CRC of the data | composition of `Messages` and `Crc32` |
| `CommandLine` | `main`, and what becomes of `--timeout` | component |
| `MCSession`, `MCServer`, `MCTransfer`, `MCSystem`, `MCFileWriter`, `MCFraming`, `MCCommandLine`, `MCStarvation` | small instances; `MCStarvation` adds a history variable to `Server` | for TLC |
| `SessionProofs`, `ServerProofs`, `TransferProofs`, `SystemProofs`, `FileWriterProofs`, `MessagesProofs` (`FrameParser` too), `Crc32Proofs` (`Framing` too), `CommandLineProofs` | theorems | for TLAPS |

Definitions whose comment says that they are wrong ("A wrong ...", "wrong: ...") are not part of the model.  They
stand beside the definition they distort, the way a plausible mistake in the
code would, and are what `PROJECT.json` calls mutants: put in the place of the
right definition each of them makes TLC find the named property violated.

### Protocol and Socket

A frame is a record with what the receiver looks at.  Three kinds stand for
what is not a proper frame: `BadHello` and `BadEnd` (the payload does not
parse), `Garbage` (bytes on which the parser answers Error), and `Part` (some
bytes that complete no frame).  File contents are sequences over `Bytes`; the
checksum is the parameter `Crc`, so that nothing depends on it being CRC-32.
Names and texts are left out here; how frames are laid out in the stream, and
found again in it, is the matter of `FrameParser` and `Messages`.

`Socket` keeps for each connection the two streams (`up`, `down`: sequences of
pieces, bounded by the buffer sizes), what follows each (`upEnd`, `downEnd`:
nothing, FIN, RST) and the state of the two sockets (`peer`, `link`).  Its
rules are the kernel's, as far as the code relies on them; they are marked
external in `PROJECT.json` where no line of the repository stands for them.
An RST leaves some prefix of the stream it overtakes.

### Session

`sess[c]` is the Session object with one variable more, `pc`: where in
`Session::handle` it is.  One iteration of a loop of the code is one action:
one `read` (`ReadData`, `ReadEof`, `ReadError`, `ReadAgain`), one frame
(`OnHello`, `OnData`, `OnEnd`, `OnAckFrame`, `BadFrame`, `PartialFrame`,
`NeedMore`), one `write` (`WriteAck`, `WriteAgain`, `WriteError`, `AckSent`).
The client can act between any two of them, which is how the code runs.
`fail`, `queueAck` and `terminate` are operators used by these actions.

What the table does to a session are the actions `Accept`, `Refuse`,
`RefuseWrite`, `RefuseClose`, `Destroy`, `CloseSession`, `SweepClose`, `Rearm`,
`Handle`; here they may happen whenever the session allows it, and `Server`
says when they do.

`writer[c]` is its FileWriter (is a descriptor open, is there a temporary file,
the bytes in it), whose four operations are atomic here and may each fail;
`stored[c]` are the files published by this session.

Abstractions: time is the flag `idle`, "the timeout has passed since the last
`touch`"; a piece of a stream is a frame or a part of one, and an ACK leaves in
two pieces, so that a partial write exists; the counters are numbers without
width, as their sum never exceeds the announced size plus a payload;
`speedInfo` and texts are left out, but `reports` counts how often the log says
that the transfer was broken off.  `Crash` is the end of the server's process:
its sockets close, its temporary files stay.

### Server

Every action of `Server` that touches a session is an action of `Session`
together with the thread being in the right place, and the connection it is
about found through the table, by descriptor, as in the code.  What it adds:
the one thread (`thread`), the batch of events, the table, the registrations,
the reuse of descriptors (lowest first), the list made by `sweepIdle`, the
signal, the refusal at the limit, the descriptor limit (`Fds`), failing
`epoll_ctl`, and the order of events at the stop.  An event carries as a ghost
the connection it was reported of (`conn`), which the code does not keep; no
action reads it but `TimePasses`, which is about time and not about code, and
`DispatchFresh` compares it with what the code finds.

`TimePasses` excludes one thing: a session does not become idle while the
thread waits and an event of its own is ready, since `epoll_wait` returns at
once then.  It may become idle while other sessions are handled.

### Client, Transfer and Delivery

`client[c]` holds the local variables of `sendFile` and the place in its code:
opening the file, connecting, writing a frame, filling the next one, reading
the ACK, saying goodbye, leaving.  One system call is one action; `writeAll`
puts a frame on the wire in two pieces, so that a time-out, a kill or the
server's RST can come in the middle.  Where the code keeps the number of bytes
read and a running checksum, the model keeps the bytes (`sent`).  `file[c]` is
the file; `EditFile` changes it at any moment after it is opened, `NextChunk`
reads whatever is there then.  With `--timeout 0` (`patient`) the client has no
time limit.

`Transfer` puts this client in the place of `Session`'s arbitrary one: each of
its socket calls is one of `Socket`'s client actions (`Connect`, `Send`,
`Receive`, `ShutUp`, `Hangup`, `Reset`).  The hypothesis `ClientSpeech` of its
theorems says that the frames `Session` allows a peer include those a client
makes; TLC's instances list the frames its small files can give rise to.

`Delivery` is the promise to whoever runs the client: 0 is said only of a file
that is stored; 2, 3, 4 and 6 only of one that is not and never will be; 5 and
a killed client leave it open.

### System

`System` puts the two compositions into one: the connections of `Server` have
at their other ends the programs of `Transfer`.  A step is one of the reactor
(`ServerMove`), which changes nothing inside a client, or one of a client
(`ClientMove`), which changes nothing inside the server; they meet in the
variables of `Socket`.  `MayConnect` is `Server`'s rule that nobody connects to
a closed listener.  Where `Transfer` lets a session run on any schedule, the
schedule is the one thread's here, with its batches, its limit and its stop;
where `Server` has a client that does anything, it has one that runs
`sendFile`.  `ImplementsTransfer` and `ImplementsServer` say that neither half
sees a difference.  The server does not crash in `System`; it does in
`Transfer`.

### FrameParser, Messages, Framing and Crc32

The stream (`wire`) is a sequence of cells: a field of a header, a byte of a
payload, a checksum.  The parser looks at a header, and at a payload with its
trailer, only when it has all of it, so a field cut in two is a field not yet
there.  `Read` is `read` with `feed` (and its compaction) of any number of
cells; `next` has its three outcomes, `NeedMore`, `Error` and `Ready`, with the
code's checks in the code's order; `Use` is the caller looking at the payload
through the offset it was given, in the buffer as it is by then.

`Messages` builds the stream from messages, alters at most one cell of it and
parses the frames the parser hands out.  A frame begins where the cells of those
before it end (`Offset` counts them).  The checksum is still a parameter: that
it tells a header and a payload from what one altered cell makes of them is
`NoiseAssumption`, which TLC evaluates with the real CRC over the messages of
its instance and `Crc32Proofs` proves of CRC-32 (section 4).  `Framing` puts the
real one in and keeps `Session::m_crc` over the data.

`Crc32` computes as the code does, table and all.  A `std::uint32_t` is the set
of the places of its ones, and exclusive or is the symmetric difference, so that
the module can be reasoned about with sets.

### CommandLine

One action is one turn of the option loop (`Option`), the choice of the mode,
or the start of the program.  A word is a value; what the model keeps of it is
whether it begins with a dash, whether it is a number, and which.  `strtoul`,
the product with 1000 and the cast to `int`, the conversion to nanoseconds in
`Session::expired`, `poll`'s reading of a negative time-out and the kernel's of
a negative `tv_usec` are modelled with the widths as constants.

### FileWriter and Inbox

`FileWriter` has one action per system call: `Open`, `Write`, `Sync`, `Link`
(one iteration of the loop), `Unlink`, `Abort`.  The calls of one process do
not interleave with those of its other sessions (one thread) but do with those
of other processes.  `dir` is the directory, as the programs see it; `disk` is
what the file system has written back of it, `safe` what it has of the bytes
of each file.  `Crash` ends a process anywhere; `PowerLoss` puts the directory
back to `disk` and truncates each file to something between `safe` and its
size.  Pids are not unique.

`Inbox` is the promise: a file appears whole, in one step, under a name nobody
had; it is reported as stored only after that, and as refused only if it never
happens.  `FileWriter` implements it with the published part of the directory
as `files` and the results of the writers as `verdict`.  `Session` relies on
just this when it treats `commit` as one step that succeeds or does nothing.

## 3. The runs

| run | instance | checks |
|---|---|---|
| `session` | 1 connection, buffers of 2 and 1 pieces, seven kinds of frame, files of up to 2 bytes of 2 kinds | `AckTruth`, `TempDiscipline`, `PublishedWhole`, `DropIsGraceful`, `StoredNotReported`, `VerdictFinal`, `AckResolved`, `Reaped`, and `IInv`, the invariant of the proofs (types among it) |
| `server` | 2 connections, 2 descriptors, limit 2, batches of up to 3 events, failing clients, no signal | `RegistrationMatches`, `DispatchFresh`, `ImplementsSession`, `AllReaped` |
| `server_limit` | 2 connections, 2 descriptors, limit 1, clients that open a transfer, the signal at any moment | `LimitKept`, `StopsClean`, and `ServerInv`, the invariant of the proofs |
| `server_live` | 2 connections, 1 descriptor, so that `accept4` fails with one waiting; the signal at any moment | `StopsInTheEnd`, `Served` |
| `transfer` | 1 client, chunks of 2 bytes, files of 0, 1, 3 and 4 bytes that may turn into each other, buffers of 2 pieces each way, a checksum with collisions | `StoredAsSent`, `ServerWaitsForClient`, `ExitCodesTrue`, `ClientExits`, and `TransferInv` and `DataInv` of the proofs |
| `system` | 1 client, 1 descriptor, limit 1, files of 0 and 3 bytes, chunks of 2, buffers of 1 and 2 pieces, the signal at any moment | `EverybodyLeaves`, `ImplementsTransfer` |
| `framing` | 84 pairs of messages, good and odd, and one file in three pieces; no or one altered cell; reads of up to 12 cells; the real CRC-32 | `DecodesStream`, `BufferBounded`, `RightVerdict`, `OnlyWhatWasSaid`, `NothingMissed`, `RunningCrc` |
| `filewriter_safety` | 3 writers in 2 processes with the same pid, one second, 2 suffixes, 1 power failure | `TempIsOwn`, `FilesComplete`, `ReportsTrue`, `NoLitter`, `RefusedOnlyWhenFull`, `NeverReplaced`, `ImplementsInbox`, and `WriterInv` of the proofs (types among it) |
| `session_returns`, `session_refusal`, `server_starves`, `command_timeout` | the smallest instances that show it | findings, section 6 |

Why the bounds are enough for what they are meant to show:

- Sessions share nothing in module `Session`, so one connection shows all of a
  session's behaviours.  Two pieces in flight allow a frame behind END, data
  behind a FIN being read, a truncation by RST; one piece in the other
  direction makes the two pieces of an ACK meet a full buffer.  Two kinds of
  byte and two bytes per file are enough for a wrong size both ways, a wrong
  checksum, and an END with a matching checksum of the wrong size.  The seven
  frames are a HELLO and its file in one DATA frame with its END, a DATA frame of
  one byte (too few, a wrong checksum when doubled, too many after the other),
  an ACK, bytes that are no frame, and half a frame.  A payload that does not
  parse takes the branch of a frame out of order (`fail(Protocol)`), and a HELLO
  of another size or an END with another checksum that of data that do not fit;
  that no other frame makes a difference is also what the
  theorems say, which hold for all of them.
- For the reactor, two connections and two descriptors allow reuse of a
  descriptor within a batch, both events in a batch in both orders, a refusal
  beside a running session, and the listener in the middle of the batch.  The
  frames are reduced there (`server` has only frames that fail), as what
  frames do to a session is the matter of `Session`, and `ImplementsSession`
  says that the reactor adds nothing to it.
- `server` is the run in which two sessions are in the table at a time, each of
  them receiving, blocked in writing its ACK, or draining, so that one can be
  swept, dropped or registered anew while an event of the other is in the batch,
  and both can be in one sweep list.  With every environment that is too large
  for the liveness property, and the run has `CalmSpec` (`MCServer`), `Server`
  with two restrictions: no signal comes, and a client sends only into the
  backlog or to a session that receives and is not in its own handler.  What it
  leaves out are the stop and frames that arrive in the course of the reading
  or behind the failing one; the first is in `server_limit` and `server_live`,
  the second in `session` and `server_limit`, and the three safety properties are
  proved without either restriction (section 4).  No client sends for ever in
  this run, so that here `AllReaped` holds without its exception.  A batch holds
  the listener and both descriptors, so that no event is passed over for ever.
- `server_live` has one descriptor, because EMFILE is what it is for: while one
  client holds it the other waits in the backlog.  The limit is not met there;
  Busy at the limit is in `server_limit`.
- The permutations of connections are declared as a symmetry in `server_limit`
  only, which has no liveness property.
- Three writers allow two in one process and one in another, two final names
  make the third run out of names, equal pids make the temporary names
  collide.

- In `transfer` the sizes are every way a file can end in its last chunk.  Two
  pieces must fit in each direction because an ACK has two and a socket buffer
  holds a whole ACK (at most some 1,000 bytes); with room for one piece the
  refused client would find its own writes blocked while the server waits to
  write, which no socket does.  A checksum modulo 5 collides for different
  contents, so that nothing rests on its being good.
- In `system` one client is enough for what the run is for, the two programs
  under one schedule (nobody is refused there and no two clients compete, which
  is `server_limit`'s and `server_live`'s matter): that sessions do not disturb each other is `ServerInv`'s
  matter, and that the halves fit for any number of them is proved.  The one
  buffer place upwards makes the client block in its writes; downwards there are
  two, as above.
- In `framing` pairs are enough, because the parser keeps nothing of a frame but
  where the next one begins.  The messages include lengths at both sides of the
  limits (name, payload), payloads that contradict themselves and an unknown
  type.  The CRC has all its 32 bits.  `Noise` includes a small number, so that an altered
  length still points into the stream, and the pieces of the file are the nine
  bytes of the usual test vector.
- In `command_timeout` the widths are scaled (long 10 bits, int 8 bits, a second
  of 4 ms): the relation that matters, an `int` of milliseconds far smaller than
  a `long` of seconds, is kept.

Deadlock checking is off: a connection is used once, so every instance stops
when all are closed.

### What the properties say, in short

- `AckTruth`: Ok is queued or under way only for a published file, any other
  status only for one that is not.  Together with `VerdictFinal` (file and
  verdict never change once there is one, and a file is only published on an
  END that matches) this is what the client's exit code rests on.
- `DropIsGraceful`: a handler gives up a living client only after reading it to
  its FIN, so that the `close` that follows cannot destroy the ACK.
- `DispatchFresh`: every event left in the batch still finds the session it was
  reported of, idle, waiting for that event, with the event still true.  The
  code does nothing for this; it holds because within a batch each descriptor
  appears once, `acceptConnections` gives out no descriptor that has an event
  left (such a descriptor is still in use), and neither input nor a hang-up
  goes away unless the session itself takes it.
- `StoredNotReported`: a session whose file is stored is never reported as
  broken off, however its connection is lost.
- `StoredAsSent`: what is stored is what the client read, as many bytes as it
  announced, and the file itself if nobody touched it.
- `ExitCodesTrue`: `Transfer` implements `Delivery`.  The hard case is exit 4: a
  write that fails may be the last piece of END, which the server cannot have
  seen; and 6: a refusal read from a connection whose upload continues.
- `ServerWaitsForClient`: the session's handler gives up only when the client is
  through (the sweep, the limit, the stop and a failing `epoll_ctl` are others);
  with `ClientExits` it says that neither waits for ever: the early refusal fits
  in the socket buffer, and the server drains the rest of the file.
- `DecodesStream`, `OnlyWhatWasSaid`, `NothingMissed`: the frames handed out are
  those in the stream, in order, however it is cut; what is handed out was said,
  unaltered; and the parser neither waits for what is there nor gives up a good
  stream.  `OnlyWhatWasSaid` rests on the CRC-32 of the frames in the run.
- `Reaped`, `AllReaped`: every connection ends, unless its client sends for
  ever.  This exception is real: see the findings.

### Fairness

`FairSpec` and `FairServerSpec` assume only what the program and the clock do
by themselves: a handler runs to its end; the loop goes round (weak fairness
of the thread's next step); time passes.  Nothing is assumed of clients, of
the order in which `epoll_wait` reports, or of the signal.  Weak fairness is
enough for the thread: once enabled, its step stays enabled, as nobody else moves
it.  `accept4` may fail at any time, which ends `acceptConnections` (`AcceptDone`);
the listener stays readable and the loop comes back, so taking a connection is
possible again and again but not all the time.  That the kernel does not refuse
for ever what it could do is therefore a strong fairness (`Takes`); it says
nothing of EMFILE, under which no connection can be taken at all.  For `Session`
alone, which has no thread, weak fairness is stated for each of the thread's
calls separately, since the reactor comes back to every session.

`FairTransferSpec` asks the same of the session, and weak fairness of the
client's own steps (`ClientStep`).  No time-out of either side, no stop, no
crash and no kill is counted on, so that `ClientExits` holds for a client
without a time limit as well.

`FairSystemSpec` assumes weak fairness of the thread's next step and of each
client's own steps, of `accept4` what is said above, and nothing else: not the
passing of time either, as our
clients need no sweep to come to an end.

The liveness properties of sessions allow for a client that sends for ever, because
`onReadable` reads until `EAGAIN`: such a client can keep the thread.

## 4. What is proved

The theorems hold for any set of connections, any buffer sizes of at least one
piece, any frames a client may send, any checksum, any set of descriptors, any
limits; any files and chunk size; any number of processes, pids, stamps and
suffixes; any limits of the parser and any stream; any messages.  The assumptions are the
named ones: `PeerAssumption` (clients send frames), `CapAssumption` (buffers
hold at least one piece), `ServerAssumption` (descriptors are numbers, finitely
many, and the listener's and the signal's are not among them; a batch holds at
least one event), `ClientAssumption`, `WriterAssumption` (writers belong to
processes, and those have pids; there is at least one suffix),
`ParserAssumption`, `MessagesAssumption` (peers say messages), `RawAssumption`
(a foreign peer's frame that can be taken is meant as the formats say) and
`NoiseAssumption` (the checksum tells one altered cell).  TLC evaluates them in
the runs.  The theorems about transfers have the hypothesis `ClientSpeech`
besides (section 2), and so have those about `System`; the one about `--timeout`
has `Machine` (two's complement, an `int` no wider than a `long`, no option that
spells a number), and the one about altered bytes says what it needs of the
cells.

**Session.**  `AckTruth` is not inductive: that the ACK is true depends on
`completed`, which depends on where the handler is, which depends on the
registration.  `IInv` adds, per connection: the counters agree with the bytes
hashed (`CountsInv`); only an undecided session parses, only one with an ACK
writes (`ControlInv`); the temporary file is there exactly while needed and
holds the hashed bytes (`WriterInv`); `stored` is the hashed file exactly if
`completed` (`StoredInv`); ACKs queued or in flight agree with `completed`, and
none is in flight while undecided (`AckInv`); and the order of FIN, RST and ACK
(`GraceInv`).  The proof that a step keeps it goes by connection (`OthersKeep`:
the step of one leaves the others alone) and then by action.  From it follow
`AcksAreTrue`, `TempsAreDisciplined`, `FilesAreWhole`, `DropsAreGraceful` and,
as an action property, `VerdictsAreFinal`.

`StoredNotReported` needs an invariant about the log of its own (`ReportsInv`):
a completed session has not been reported, an open one that is terminated is
about to be dropped, and one that still receives has no report.  Each way to
end a session (`fail`, `terminate`, the handler's `false`) is shown to keep it
in `LogOps`, and each action then in `ReportKeeps`; `StoredIsNotReported` is the
result, and `ServerIsTruthful` carries it to the server.

**Server.**  `ServerInv` says how the thread's place, the connection in hand,
the table, the registrations, the batch, the sweep list and the stop fit
together.  It is inductive only beside `IInv`, as handlers need `ControlInv` to
stay on their tracks; `ServerInductive` therefore proves both at once.
`ServerImplementsSession` uses both: the
step of the connection in hand is one of Session because that connection is one
(`HandInv`, `TableInv`), and is called with events it may be called with
(`BatchInv`).  The heart is `BatchInv`:
`EventInv` is preserved by clients (input and hang-ups only grow), by accepting
(a descriptor in the batch is in use), by handling another session (its
descriptor is another), and by time.  `RegistrationsMatch`, `EventsStayFresh`
and `StopIsClean` follow, and `ServerIsTruthful` carries the session's theorems
over to the server, `DropIsGraceful` and `StoredNotReported` among them.

`LimitIsKept` comes beside it.  `LimitKept` counts connections, the code
counts entries of the table; the invariant `LimitInv` bounds the entries, with
one place kept while a connection that epoll refused is discarded, and
`TableInv` gives every session but that one an entry of its own, so that the
library's facts about images of finite sets carry the bound over.

**Transfer.**  `TransferImplementsSession` shows by cases over the client's
steps that each is a step of `Session`'s arbitrary client or changes nothing it
speaks of; so `IInv` and all that follows from it hold.  `PairInv` relates the
two programs: until the last piece of END is sent, no END is in the stream nor
in the parser, and nothing is stored; a refused client's session has its
verdict; an accepted client's file is stored, which is `AckInv` read from the
other end of the wire.  `ExitCodesAreTrue` follows: the refinement of
`Delivery`.

**The bytes of a transfer.**  `StoredAsSent` speaks of the two ends only; what is
between them is in four places.  `DataInv` says where every byte is: an
undecided session has hashed the first `received` bytes the client has read,
and its parser, the socket's stream and `writeAll`'s buffer carry the rest, each
from where the one before ends (`NothingLost`).  `StreamCarries` says that for a
stream with a function from its positions to offsets in the file, so that no
induction over the stream is needed: a frame taken from the front or added at
the end shortens or extends that function (the section on streams of
`TransferProofs`).
By `Carries` an END comes after the last byte; when the end is lost (RST, a
client that dies) the stream stops earlier and no END is in it.  `FileInv` ties
what was read to the file, `WaitInv` says that a client at work holds its end
of the connection.  From `DataInductive` follow `SentIsStored` and
`WaitsForClient`, the second with `GraceInv`: a session is dropped by its
handler only after the client's FIN or a broken connection, and a client at
work has caused neither.

**FileWriter.**  `WriterInv` says what a call in progress holds (`CallInv`), that
bytes precede names (`BytesInv`, `NamesInv` of both the cached directory and the
disk's), that the disk's final names are among the cached ones (`DiskInv`), and
what a writer of a living process may count on (`OwnInv`): its temporary name is
bound to its file, at most one final name is, and all suffixes it has passed are
taken.  A dead process's writer counts on nothing, as another may have its pid.
The proof goes by writer: `OwnStep` and `Fits` say what a step of one writer may
do to the directory, `OthersKeep` and `StepKeeps` that nobody is disturbed by
it; each system call is then shown to be such a step.  A power failure needs
`NamesInv(disk)` and that only processes not yet started survive it.  From it
follow `Types`, `OwnTemp`, `Complete`, `TrueReports`, `Tidy`, `FullRefusal`, the
action property `NoReplacement`, and `Implements`: FileWriter implements
`Inbox`, `Link` being `Publish`, `Unlink` `Confirm`, a failed `Open` and `Abort`
`Reject`, and `PowerLoss` `Lose`.

**FrameParser.**  The invariant (`ParserInv`) says that the buffer is a window on
the stream (`Window`), that parsing stands where the last frame ended
(`InStep`), and that the frame in use lies in the window.  `ParserDecodes` and
`ParserIsBounded` follow, for any checksum function and any sizes.
`RightVerdict` is inductive beside `ParserInv`: only `next` decides, and what it
sees at `m_pos` is what stands in the stream where the last frame ended
(`Standing`, `HeaderSeen`, `FrameSeen`).  `ParserJudges` is the converse of
`ParserDecodes`: nothing that could be taken is waited on or given up.

**Messages.**  The two together give the end-to-end results.  `MessagesInv` adds
`Laid` (the stream is what was said, but for the altered cell) and `Said` (the
frames handed out are the first ones said).  That the stream is laid out so is
shown once, for the initial state (`StreamLaid`, from the facts about
cardinalities: each frame adds its size to `Offset`).  `Said` grows by a frame
at a time: a frame that stands where the k-th was said to begin is the k-th,
since a header that passes the checks is not the altered one (`HeaderIntact`),
which gives the true length, and neither is a payload that does
(`PayloadIntact`).  `RoundTrip` says that the `parse` functions undo the
`build` functions but for the cut of names and texts.  Hence
`OnlySaidIsHeard`; with `ParserJudges` and the fact that a faultless frame
passes every check (`FaultlessStands`), `AllSaidIsHeard`.

**The whole system.**  `HalvesFit`: a step of `System` is a step of `ServerSpec`
and one of `TransferSpec`, each with the other half's variables at rest.  For
the server's half, a client's step is one of `Session`'s arbitrary client
(`ClientSpeech` and the lemmas of `TransferProofs`), and `MayConnect` is what
`ServerNext` asks of it; for the transfer's half, each step of the reactor is a
step of the session in hand, by the lemmas behind `ServerImplementsSession`,
which need `IInv` and `ServerInv` of the state it starts in.  No invariant is
proved twice: both come from the halves' own theorems.  All that is proved of
either half then holds of both together: `SystemServesClients` (true exit codes,
what is stored is what was sent, nobody given up early) and
`SystemServesOperator` (limit, events, registrations, stop).  `ClientsHearTheStop`
is new and needs both: a closed listener takes no more clients, a stopped server
has closed every session, and closing a connection ends its stream for whoever
holds the other end.

**CRC-32.**  The loop over the data is a function on its length, and what such a
function computes for every length cannot be had from the library's induction
theorems, which take an operator as a parameter; the proofs use instead that a
set of natural numbers that is not empty has a least element, taken of the
lengths at which the claim fails.  `TableIsRegister`: one step through the table
is eight turns of the register, as turning distributes over exclusive or and the
upper bits only move (`FeedIsRegister`), so that the whole loop is the
register's.  `BurstIsTold`: a turn can be undone, because the polynomial's top
bit tells whether it was added; hence data with the same beginning and end and
the same sum leave the same register around the part in which they differ, and
if that part has at most four bytes, they are what the register's 32 bits say
they are, the same ones.  With one byte in that part this is
`AlteredByteIsDetected`, which is `NoiseAssumption` for checksums that tell what
CRC-32 tells, and cells that are bytes.  A cell of up to four bytes is
covered by `BurstIsTold` in the same way; the file size of a HELLO has eight,
and nothing is claimed for a change all over it.  `SumIsOfTheWhole` adds up the
pieces: `Framing` behaves as `Messages` with one more variable, and the sum kept
over them is that of their concatenation (`RunningCrc`).

**CommandLine.**  `ShortTimeoutsAreKept` is the other side of the finding
`command_timeout`: with seconds whose milliseconds are an `int` (and whose
nanoseconds are a `long`), `TimeoutAsAsked` holds, for every command line.  The
invariant `LineInv` says which places of `argv` the loop has taken as options
(every second one) and that the last `--timeout` among them has set the limit;
`AskedIsRead` then shows that the `--timeout` meant is at such a place, since
its value is no option.  The rest is that no conversion on the way changes a
number that fits.

Only model-checked: everything temporal that needs fairness (`AckResolved`,
`Reaped`, `Served`, `AllReaped`, `StopsInTheEnd`, `ClientExits`,
`EverybodyLeaves`), which is out of the prover's reach.  Every invariant and every
action property that a passing run checks is proved.  `NoiseAssumption` is an
assumption of the theorems about `Messages`, since cells are of any kind there;
for bytes under CRC-32 it is proved, as said above.

## 5. What is not modelled

- `Destination::parse`: a pure function on the characters of a text, a parameter
  of `CommandLine`; the factory, which only forwards.
- The copying of numbers byte by byte (`ByteIO`), below the cell of
  `FrameParser`.  `FrameParser::reset` and `Crc32::reset` have no caller.
- Logging, paths, time stamps, help texts, progress reports and speeds: no
  state, or pure I/O.
- The set-up in `Server::run` before the loop: its errors are exits before any
  connection exists.  The exit of the loop when `epoll_wait` fails: with valid
  arguments only `EINTR` is left.
- A failing `unlink` within `Session`, whose `AbortWriter` always removes the
  temporary file; the code ignores the result, and `FileWriter` has the failure.
- That a published name survives a power failure: the code syncs the file and not
  the directory, `Inbox` lets a name be lost, and no property speaks of it.  Nor
  does one forbid the temporary name a crash leaves beside a published file.
- Name resolution and trying several addresses in `TcpConnection::connect`.
- `EINTR`: each call is simply repeated by the code.

## 6. Findings

Places where the code does something else than its comments say.  Each is a run
that expects TLC to find a violation.

- `session_returns` (`HandlerReturns`): a handler "processes exactly what has
  arrived and returns control"; but `onReadable` reads until `EAGAIN`, and a
  client that keeps up keeps it from returning.
- `session_refusal` (`RefusalIsGraceful`): the reason the code gives for Draining
  holds for the Busy ACK as well, which is followed by `close` with the
  client's HELLO unread.
- `server_starves` (`SweptForSilence`): the sweep closes sessions "for want of
  data" by the time of their last read.  A session whose data came in time but
  lie unread, because the thread was in another session's handler, is swept
  right after it.
- `command_timeout` (`TimeoutAsAsked`): the client casts `secs * 1000` to `int`,
  so that a large `--timeout` becomes another one, or negative: `poll` then waits
  without limit and `setsockopt` fails, and with it every connect.  Shorter ones
  are kept (`ShortTimeoutsAreKept`).

Two more disagreements touch the log only and have no run: a session that failed
is reported as broken off twice, by `fail` and by `terminate`
(`server/Session.cpp:236`, `290`), and the stop counts as unfinished transfers
also those that are complete and wait for their client's FIN
(`server/Server.cpp:123`).

## 7. Plan

Done, in this order: `Protocol`, `Socket`, `Session` with its proofs; `Server`
with its proofs; `Inbox` and `FileWriter`; `Client`, `Delivery` and `Transfer`
with their proofs; `FrameParser`, `Messages`, `Crc32` and `Framing` with their
proofs; `CommandLine`; the starvation of a session; the proofs of `FileWriter`, of
the limit, of the log and of the bytes of a transfer; `System` with its proofs;
those of CRC-32 and of `--timeout`.

What could still be added:

1. Session's frames as a refinement of `Messages`: `Session` takes the streams of
   `Socket` apart by frames, which the theorems of `Messages` justify in words
   only.
2. A run of `System` with two clients; the state space needs a coarser `Socket`.
3. `Destination::parse` over a small alphabet.
4. Several addresses in `connect`, each with its own time limit.
