----------------------------- MODULE CommandLine -----------------------------
(***************************************************************************)
(* main, runServer and runClient: the options, one per turn of the loop,   *)
(* and the time limits the two programs end up with.  A word is a string;  *)
(* Numeral gives the number a text spells, if strtoul takes the whole of   *)
(* it.  The widths of the integers are constants.                          *)
(***************************************************************************)
EXTENDS Integers, Sequences

CONSTANTS
    CommandLines,    \* argv from argv[1] on
    Dashed,          \* the words that begin with a dash
    Numeral,         \* the texts that are numbers, with their values
    parse(_),        \* Destination::parse; an empty sequence: no address
    ULongMax,        \* of unsigned long; long has half its range
    IntMax,
    MsPerSecond, NsPerSecond

VARIABLES
    argv, i,
    cfg,       \* ServerConfig, ClientConfig and the address
    program    \* "main", then what runs: "server", "client", or "exit"

lineVars == <<argv, i, cfg, program>>

\* A number cast to a signed type of which max is the largest value.
Signed(n, max) == ((n + max + 1) % (2 * (max + 1))) - (max + 1)
LongMax == ULongMax \div 2

\* strtoul: too large is ULONG_MAX, and a minus sign wraps; errno is not read.
strtoul(text) ==
    LET n == Numeral[text]
    IN  IF n > ULongMax \/ -n > ULongMax THEN ULongMax ELSE n % (ULongMax + 1)

Defaults(mode) ==
    [host |-> IF mode = "-s" THEN "0.0.0.0" ELSE "127.0.0.1", port |-> "5555",
     dir |-> "", idleTimeout |-> 30, maxSessions |-> 1024, timeoutMs |-> 15 * MsPerSecond]

Init ==
    /\ argv \in CommandLines
    /\ i = 1
    /\ cfg = Defaults("-s")
    /\ program = "main"

Exit == program' = "exit" /\ UNCHANGED <<argv, i, cfg>>

\* main, and runClient's check of the path.
Mode ==
    /\ program = "main"
    /\ IF argv = <<>> THEN Exit
       ELSE IF argv[1] = "-s"
       THEN program' = "runServer" /\ i' = 2 /\ cfg' = Defaults("-s") /\ UNCHANGED argv
       ELSE IF argv[1] = "-c" /\ Len(argv) >= 2 /\ argv[2] \notin Dashed
       THEN program' = "runClient" /\ i' = 3 /\ cfg' = Defaults("-c") /\ UNCHANGED argv
       ELSE Exit

Options ==
    IF program = "runServer"
    THEN {"--port", "--destination", "--dir", "--timeout", "--max-sessions"}
    ELSE {"--port", "--destination", "--host", "--timeout"}

\* needValue and parseUnsigned find nothing wrong.
Usable(arg, value) ==
    /\ arg = "--destination" => parse(value) # <<>>
    /\ arg \in {"--timeout", "--max-sessions"} => value \in DOMAIN Numeral

\* std::chrono::seconds has the range of long; the cast to int drops high bits.
Configured(arg, value) ==
    CASE arg = "--port" -> [cfg EXCEPT !.port = value]
      [] arg = "--host" -> [cfg EXCEPT !.host = value]
      [] arg = "--dir" -> [cfg EXCEPT !.dir = value]
      [] arg = "--destination" ->
           [cfg EXCEPT !.host = parse(value)[1], !.port = parse(value)[2]]
      [] arg = "--max-sessions" -> [cfg EXCEPT !.maxSessions = strtoul(value)]
      [] arg = "--timeout" ->
           IF program = "runServer"
           THEN [cfg EXCEPT !.idleTimeout = Signed(strtoul(value), LongMax)]
           ELSE [cfg EXCEPT !.timeoutMs =
                    Signed((strtoul(value) * MsPerSecond) % (ULongMax + 1), IntMax)]

Option ==
    /\ program \in {"runServer", "runClient"}
    /\ i <= Len(argv)
    /\ IF argv[i] \in Options /\ i < Len(argv) /\ Usable(argv[i], argv[i + 1])
       THEN /\ cfg' = Configured(argv[i], argv[i + 1])
            /\ i' = i + 2
            /\ UNCHANGED <<argv, program>>
       ELSE Exit

Launch ==
    /\ program \in {"runServer", "runClient"}
    /\ i > Len(argv)
    /\ program' = IF program = "runServer" THEN "server" ELSE "client"
    /\ UNCHANGED <<argv, i, cfg>>

Next == Mode \/ Option \/ Launch

Spec == Init /\ [][Next]_lineVars

-----------------------------------------------------------------------------
(* The limits that come of it: in ms, or in ns where Session::expired      *)
(* compares durations.  A signed product that overflows wraps, as the      *)
(* multiplication of the processors this is built for does.                *)

Forever == -1
Refused == -2

IdleLimit == Signed(cfg.idleTimeout * NsPerSecond, LongMax)

\* poll in TcpConnection::connect.
ConnectLimit == IF cfg.timeoutMs < 0 THEN Forever ELSE cfg.timeoutMs

\* SO_RCVTIMEO and SO_SNDTIMEO in setIoTimeout: the kernel takes no negative
\* microseconds, and negative seconds for none at all.
IoLimit ==
    IF cfg.timeoutMs = 0 THEN Forever
    ELSE IF cfg.timeoutMs > 0 THEN cfg.timeoutMs
    ELSE IF cfg.timeoutMs % MsPerSecond # 0 THEN Refused
    ELSE 0

Asked(seconds) ==
    \E k \in 2..Len(argv) :
        /\ argv[k - 1] = "--timeout"
        /\ argv[k] \in DOMAIN Numeral /\ Numeral[argv[k]] = seconds
        /\ \A j \in k..Len(argv) : argv[j] # "--timeout"

\* A program that starts with --timeout <seconds> has that limit, for all the
\* seconds the clock of Session::expired can count (runServer, runClient,
\* TcpConnection::connect, setIoTimeout).
TimeoutAsAsked ==
    \A seconds \in {Numeral[text] : text \in DOMAIN Numeral} :
        /\ seconds > 0 /\ seconds * NsPerSecond <= LongMax
        /\ Asked(seconds)
        => /\ program = "server" => IdleLimit = seconds * NsPerSecond
           /\ program = "client" => /\ ConnectLimit = seconds * MsPerSecond
                                    /\ IoLimit = seconds * MsPerSecond

\* As long as the limit in milliseconds is an int, the sentence above is true.
ShortTimeoutAsAsked ==
    \A seconds \in {Numeral[text] : text \in DOMAIN Numeral} :
        /\ seconds > 0 /\ seconds * NsPerSecond <= LongMax
        /\ seconds * MsPerSecond <= IntMax
        /\ Asked(seconds)
        => /\ program = "server" => IdleLimit = seconds * NsPerSecond
           /\ program = "client" => /\ ConnectLimit = seconds * MsPerSecond
                                    /\ IoLimit = seconds * MsPerSecond
=============================================================================
