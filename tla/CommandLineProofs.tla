-------------------------- MODULE CommandLineProofs --------------------------
(***************************************************************************)
(* The other side of the finding about --timeout: for which values, on     *)
(* which command lines, the program has the time limit it was given.       *)
(***************************************************************************)
EXTENDS CommandLine, TLAPS

Names == {"--port", "--destination", "--host", "--dir", "--timeout", "--max-sessions"}

\* What is assumed of the machine and of words: two's complement, int no wider
\* than long, no option that spells a number, and --timeout begins with a dash.
Machine ==
    /\ IntMax \in Nat /\ LongMax \in Nat /\ IntMax <= LongMax
    /\ ULongMax = 2 * LongMax + 1
    /\ MsPerSecond \in Nat \ {0} /\ NsPerSecond \in Nat \ {0}
    /\ Numeral \in [DOMAIN Numeral -> Int]
    /\ CommandLines \subseteq Seq(STRING)
    /\ "--timeout" \in Dashed
    /\ Names \cap DOMAIN Numeral = {}

-----------------------------------------------------------------------------
(* Numbers within their widths.                                            *)

LEMMA Fits ==
    ASSUME NEW n \in Nat, NEW m \in Nat, n <= m
    PROVE  n % (m + 1) = n
OBVIOUS

LEMMA SignedFits ==
    ASSUME NEW n \in Nat, NEW max \in Nat, n <= max
    PROVE  Signed(n, max) = n
<1> DEFINE m == 2 * max + 1
<1>1. n + max + 1 \in Nat /\ m \in Nat /\ n + max + 1 <= m /\ 2 * (max + 1) = m + 1
  OBVIOUS
<1>2. (n + max + 1) % (m + 1) = n + max + 1
  BY <1>1, Fits
<1>3. QED
  BY <1>1, <1>2 DEF Signed

\* A positive number times a positive number is no less than either.
LEMMA Product ==
    ASSUME NEW a \in Nat, NEW b \in Nat \ {0}
    PROVE  a * b \in Nat /\ a <= a * b
<1>1. PICK d \in Nat : b = d + 1
  <2>1. b - 1 \in Nat /\ b = (b - 1) + 1
    OBVIOUS
  <2>2. QED
    BY <2>1
<1>2. a * b = a * d + a /\ a * d \in Nat
  BY <1>1
<1>3. QED
  BY <1>2

LEMMA TextFits ==
    ASSUME Machine, NEW text \in DOMAIN Numeral, Numeral[text] > 0,
           Numeral[text] * NsPerSecond <= LongMax
    PROVE  /\ strtoul(text) = Numeral[text]
           /\ Numeral[text] \in Nat /\ Numeral[text] <= LongMax
<1> DEFINE n == Numeral[text]
<1>1. n \in Nat /\ LongMax \in Nat /\ ULongMax = 2 * LongMax + 1
  BY DEF Machine
<1>2. n <= n * NsPerSecond /\ n * NsPerSecond \in Nat
  BY <1>1, Product DEF Machine
<1>3. n <= LongMax /\ n <= ULongMax /\ ULongMax \in Nat
  BY <1>1, <1>2
<1>4. n % (ULongMax + 1) = n
  BY <1>1, <1>3, Fits
<1>5. ~(n > ULongMax) /\ ~(-n > ULongMax)
  BY <1>1, <1>3
<1>6. QED
  BY <1>1, <1>3, <1>4, <1>5 DEF strtoul

-----------------------------------------------------------------------------
(* What the loop over the options has done so far.                         *)

Server == program \in {"runServer", "server"}
Client == program \in {"runClient", "client"}

First == IF Server THEN 2 ELSE 3

\* The options the loop has come past.
Turns == {j \in First..(i - 1) : (j - First) % 2 = 0}

IdleOf(text) == Signed(strtoul(text), LongMax)
MsOf(text) == Signed((strtoul(text) * MsPerSecond) % (ULongMax + 1), IntMax)

\* The last --timeout counts.
LastCounts ==
    \A j \in Turns :
        /\ argv[j] = "--timeout"
        /\ \A m \in Turns : m > j => argv[m] # "--timeout"
        => /\ Server => cfg.idleTimeout = IdleOf(argv[j + 1])
           /\ Client => cfg.timeoutMs = MsOf(argv[j + 1])

LineInv ==
    /\ argv \in Seq(STRING) /\ i \in Nat
    /\ {"idleTimeout", "timeoutMs"} \subseteq DOMAIN cfg
    /\ program \in {"main", "exit", "runServer", "runClient", "server", "client"}
    /\ Server => argv[1] = "-s"
    /\ Client => argv[1] = "-c" /\ argv[2] \notin Dashed
    /\ Server \/ Client =>
         /\ First <= i /\ i <= Len(argv) + 1 /\ (i - First) % 2 = 0
         /\ \A j \in Turns : argv[j] \in Names
         /\ LastCounts
    /\ program \in {"server", "client"} => i > Len(argv)

LEMMA OptionSets ==
    ASSUME {"idleTimeout", "timeoutMs"} \subseteq DOMAIN cfg,
           NEW arg \in Options, NEW value,
           program \in {"runServer", "runClient"}
    PROVE  LET set == Configured(arg, value) IN
           /\ arg \in Names
           /\ {"idleTimeout", "timeoutMs"} \subseteq DOMAIN set
           /\ arg # "--timeout" => /\ set.idleTimeout = cfg.idleTimeout
                                   /\ set.timeoutMs = cfg.timeoutMs
           /\ arg = "--timeout" =>
                /\ program = "runServer" => set.idleTimeout = IdleOf(value)
                /\ program = "runClient" => set.timeoutMs = MsOf(value)
<1>1. arg \in Names
  BY DEF Options, Names
<1>2. CASE arg = "--timeout"
  BY <1>1, <1>2 DEF Configured, IdleOf, MsOf
<1>3. CASE arg = "--port"
  BY <1>1, <1>3 DEF Configured
<1>4. CASE arg = "--host"
  BY <1>1, <1>4 DEF Configured
<1>5. CASE arg = "--dir"
  BY <1>1, <1>5 DEF Configured
<1>6. CASE arg = "--destination"
  BY <1>1, <1>6 DEF Configured
<1>7. CASE arg = "--max-sessions"
  BY <1>1, <1>7 DEF Configured
<1>8. QED
  BY <1>1, <1>2, <1>3, <1>4, <1>5, <1>6, <1>7 DEF Names

LEMMA OptionKeeps ==
    ASSUME LineInv, program \in {"runServer", "runClient"}, i < Len(argv),
           argv[i] \in Options,
           cfg' = Configured(argv[i], argv[i + 1]), i' = i + 2,
           argv' = argv, program' = program
    PROVE  LineInv'
<1>1. /\ First' = First /\ First \in {2, 3} /\ Server' = Server /\ Client' = Client
      /\ Server \/ Client
  BY DEF First, Server, Client
<1>2. /\ i \in Nat /\ argv \in Seq(STRING) /\ First <= i /\ (i - First) % 2 = 0
      /\ \A j \in Turns : argv[j] \in Names
  BY <1>1 DEF LineInv
<1>3. \A j \in Turns' : j \in Turns \/ j = i
  <2>1. ASSUME NEW j \in Turns', j # i
        PROVE  j \in Turns
    <3>1. j \in Int /\ First <= j /\ j <= i + 1 /\ (j - First) % 2 = 0
      BY <1>1, <1>2, <2>1 DEF Turns
    <3>2. j # i + 1
      BY <1>1, <1>2, <3>1
    <3>3. QED
      BY <1>1, <1>2, <2>1, <3>1, <3>2 DEF Turns
  <2>2. QED
    BY <2>1
<1>4. Turns \subseteq Turns' /\ i \in Turns' /\ \A j \in Turns : j < i
  BY <1>1, <1>2 DEF Turns
<1>5. /\ argv[i] \in Names
      /\ {"idleTimeout", "timeoutMs"} \subseteq DOMAIN cfg'
      /\ argv[i] # "--timeout" => /\ cfg'.idleTimeout = cfg.idleTimeout
                                  /\ cfg'.timeoutMs = cfg.timeoutMs
      /\ argv[i] = "--timeout" =>
           /\ program = "runServer" => cfg'.idleTimeout = IdleOf(argv[i + 1])
           /\ program = "runClient" => cfg'.timeoutMs = MsOf(argv[i + 1])
  BY OptionSets DEF LineInv
<1>6. \A j \in Turns' : argv'[j] \in Names
  BY <1>2, <1>3, <1>5
<1>7. LastCounts'
  <2>1. SUFFICES ASSUME NEW j \in Turns', argv[j] = "--timeout",
                        \A m \in Turns' : m > j => argv[m] # "--timeout"
                 PROVE  /\ Server => cfg'.idleTimeout = IdleOf(argv[j + 1])
                        /\ Client => cfg'.timeoutMs = MsOf(argv[j + 1])
    BY <1>1 DEF LastCounts, IdleOf, MsOf
  <2>2. CASE j = i
    BY <1>5, <2>1, <2>2 DEF Server, Client
  <2>3. CASE j # i
    <3>1. j \in Turns /\ j < i
      BY <1>3, <1>4, <2>3
    <3>2. argv[i] # "--timeout"
      BY <1>4, <2>1, <3>1
    <3>3. \A m \in Turns : m > j => argv[m] # "--timeout"
      BY <1>4, <2>1
    <3>4. /\ Server => cfg.idleTimeout = IdleOf(argv[j + 1])
          /\ Client => cfg.timeoutMs = MsOf(argv[j + 1])
      BY <1>1, <2>1, <3>1, <3>3 DEF LineInv, LastCounts
    <3>5. QED
      BY <1>5, <3>2, <3>4
  <2>4. QED
    BY <2>2, <2>3
<1>8. i' \in Nat /\ First' <= i' /\ i' <= Len(argv') + 1 /\ (i' - First') % 2 = 0
  <2>1. Len(argv) \in Nat
    BY <1>2
  <2>2. QED
    BY <1>1, <1>2, <2>1
<1>9. QED
  BY <1>1, <1>2, <1>5, <1>6, <1>7, <1>8 DEF LineInv, Server, Client

\* Nothing is done yet when the loop begins.
LEMMA ModeKeeps ==
    ASSUME LineInv, Mode
    PROVE  LineInv'
<1>1. CASE program' = "exit" /\ UNCHANGED <<argv, i, cfg>>
  BY <1>1 DEF LineInv, Server, Client
<1>2. ASSUME NEW mode \in {"-s", "-c"}, cfg' = Defaults(mode), argv' = argv,
             mode = "-s" => program' = "runServer" /\ i' = 2 /\ argv[1] = "-s"
                            /\ i' <= Len(argv) + 1,
             mode = "-c" => program' = "runClient" /\ i' = 3 /\ argv[1] = "-c"
                            /\ argv[2] \notin Dashed /\ i' <= Len(argv) + 1
      PROVE  LineInv'
  <2>1. /\ First' = IF mode = "-s" THEN 2 ELSE 3
        /\ i' = IF mode = "-s" THEN 2 ELSE 3
        /\ i' <= Len(argv') + 1
        /\ Server' <=> mode = "-s"
        /\ Client' <=> mode = "-c"
    BY <1>2 DEF First, Server, Client
  <2>2. Turns' = {}
    BY <2>1 DEF Turns
  <2>3. {"idleTimeout", "timeoutMs"} \subseteq DOMAIN cfg'
    BY <1>2 DEF Defaults
  <2>4. First' <= i' /\ (i' - First') % 2 = 0 /\ i' \in Nat
    <3>1. i' - First' = 0 /\ First' <= i' /\ i' \in Nat
      BY <2>1
    <3>2. QED
      BY <3>1
  <2>5. LastCounts' /\ \A j \in Turns' : argv'[j] \in Names
    BY <2>2 DEF LastCounts
  <2>6. argv' \in Seq(STRING)
    BY <1>2 DEF LineInv
  <2>7. QED
    BY <1>2, <2>1, <2>3, <2>4, <2>5, <2>6 DEF LineInv
<1>3. CASE argv # <<>> /\ argv[1] = "-s" /\ ~Exit
  <2>1. argv \in Seq(STRING) /\ Len(argv) \in Nat /\ 2 <= Len(argv) + 1
    BY <1>3 DEF LineInv
  <2>2. program' = "runServer" /\ i' = 2 /\ cfg' = Defaults("-s") /\ argv' = argv
    BY <1>3 DEF Mode
  <2>3. QED
    BY <1>2, <1>3, <2>1, <2>2
<1>4. CASE argv # <<>> /\ argv[1] # "-s" /\ ~Exit
  <2>1. /\ program' = "runClient" /\ i' = 3 /\ cfg' = Defaults("-c") /\ argv' = argv
        /\ argv[1] = "-c" /\ Len(argv) >= 2 /\ argv[2] \notin Dashed
    BY <1>4 DEF Mode
  <2>2. 3 <= Len(argv) + 1
    BY <2>1 DEF LineInv
  <2>3. QED
    BY <1>2, <2>1, <2>2
<1>5. CASE Exit
  BY <1>1, <1>5 DEF Exit
<1>6. CASE argv = <<>>
  BY <1>5, <1>6 DEF Mode
<1>7. QED
  BY <1>3, <1>4, <1>5, <1>6

LEMMA LineStep ==
    ASSUME LineInv, [Next]_lineVars
    PROVE  LineInv'
<1>1. CASE Mode
  BY <1>1, ModeKeeps
<1>2. CASE Option
  <2>1. CASE Exit
    BY <2>1 DEF Exit, LineInv, Server, Client
  <2>2. CASE ~Exit
    BY <1>2, <2>2, OptionKeeps DEF Option
  <2>3. QED
    BY <2>1, <2>2
<1>3. CASE Launch
  <2>1. /\ Server' = Server /\ Client' = Client /\ UNCHANGED <<argv, i, cfg>>
        /\ i > Len(argv) /\ program' \in {"server", "client"}
    BY <1>3 DEF Launch, Server, Client
  <2>2. First' = First /\ Turns' = Turns
    BY <2>1 DEF First, Turns
  <2>3. LastCounts' = LastCounts
    BY <2>1, <2>2 DEF LastCounts, IdleOf, MsOf
  <2>4. QED
    BY <2>1, <2>2, <2>3 DEF LineInv
<1>4. CASE UNCHANGED lineVars
  BY <1>4 DEF lineVars, LineInv, Server, Client, First, Turns, LastCounts, IdleOf, MsOf
<1>5. QED
  BY <1>1, <1>2, <1>3, <1>4 DEF Next

\* A --timeout that was asked for is one the loop has come past.
LEMMA AskedIsRead ==
    ASSUME Machine, LineInv, program \in {"server", "client"}, NEW seconds, Asked(seconds)
    PROVE  \E text \in DOMAIN Numeral :
             /\ Numeral[text] = seconds
             /\ program = "server" => cfg.idleTimeout = IdleOf(text)
             /\ program = "client" => cfg.timeoutMs = MsOf(text)
<1>1. PICK k \in 2..Len(argv) :
        /\ argv[k - 1] = "--timeout"
        /\ argv[k] \in DOMAIN Numeral /\ Numeral[argv[k]] = seconds
        /\ \A j \in k..Len(argv) : argv[j] # "--timeout"
  BY DEF Asked
<1>2. /\ Server \/ Client
      /\ First \in {2, 3} /\ First <= i /\ i \in Nat /\ i = Len(argv) + 1
      /\ Len(argv) \in Nat
      /\ (i - First) % 2 = 0 /\ LastCounts
      /\ \A j \in Turns : argv[j] \in Names
  BY DEF LineInv, Server, Client, First
<1>3. First <= k - 1
  <2>1. CASE Server
    <3>1. k # 2
      BY <1>1, <2>1 DEF LineInv
    <3>2. QED
      BY <2>1, <3>1 DEF First
  <2>2. CASE Client
    <3>1. k # 2 /\ k # 3
      BY <1>1, <2>2 DEF LineInv, Machine
    <3>2. QED
      BY <1>2, <3>1
  <2>3. QED
    BY <1>2, <2>1, <2>2
<1>4. (k - 1 - First) % 2 = 0
  <2>1. SUFFICES ASSUME (k - 1 - First) % 2 # 0
                 PROVE  FALSE
    OBVIOUS
  <2>2. (k - First) % 2 = 0
    BY <1>2, <1>3, <2>1
  <2>3. k \in Turns
    BY <1>2, <1>3, <2>2 DEF Turns
  <2>4. QED
    BY <1>1, <1>2, <2>3 DEF Machine
<1>5. k - 1 \in Turns
  BY <1>2, <1>3, <1>4 DEF Turns
<1>6. ASSUME NEW m \in Turns, m > k - 1
      PROVE  argv[m] # "--timeout"
  <2>1. m \in Int /\ m <= i - 1 /\ m >= k /\ (m - First) % 2 = 0
    BY <1>2, <1>6 DEF Turns
  <2>2. m <= Len(argv)
    BY <1>2, <2>1
  <2>3. QED
    BY <1>1, <2>1, <2>2
<1>7. (k - 1) + 1 = k
  OBVIOUS
<1>8. QED
  BY <1>1, <1>2, <1>5, <1>6, <1>7 DEF LastCounts, Server, Client

-----------------------------------------------------------------------------
\* A --timeout of seconds that are an int in ms, and a count of nanoseconds,
\* is the limit of the program that starts: option, casts and comparison
\* change nothing (runServer, runClient, Session::expired, setIoTimeout).
THEOREM ShortTimeoutsAreKept ==
    ASSUME Machine
    PROVE  Spec => []ShortTimeoutAsAsked
<1>1. ASSUME Init PROVE LineInv
  BY <1>1 DEF Init, Machine, LineInv, Server, Client, Defaults
<1>2. ASSUME LineInv PROVE ShortTimeoutAsAsked
  <2>1. SUFFICES ASSUME NEW seconds \in {Numeral[text] : text \in DOMAIN Numeral},
                        seconds > 0, seconds * NsPerSecond <= LongMax,
                        seconds * MsPerSecond <= IntMax, Asked(seconds)
                 PROVE  /\ program = "server" => IdleLimit = seconds * NsPerSecond
                        /\ program = "client" => /\ ConnectLimit = seconds * MsPerSecond
                                                 /\ IoLimit = seconds * MsPerSecond
    BY DEF ShortTimeoutAsAsked
  <2>2. SUFFICES ASSUME program \in {"server", "client"}
                 PROVE  /\ program = "server" => IdleLimit = seconds * NsPerSecond
                        /\ program = "client" => /\ ConnectLimit = seconds * MsPerSecond
                                                 /\ IoLimit = seconds * MsPerSecond
    OBVIOUS
  <2>3. PICK text \in DOMAIN Numeral :
          /\ Numeral[text] = seconds
          /\ program = "server" => cfg.idleTimeout = IdleOf(text)
          /\ program = "client" => cfg.timeoutMs = MsOf(text)
    BY <1>2, <2>1, <2>2, AskedIsRead
  <2>4. strtoul(text) = seconds /\ seconds \in Nat /\ seconds <= LongMax
    BY <2>1, <2>3, TextFits
  <2>5. /\ LongMax \in Nat /\ IntMax \in Nat /\ IntMax <= LongMax
        /\ ULongMax = 2 * LongMax + 1
        /\ MsPerSecond \in Nat \ {0} /\ NsPerSecond \in Nat \ {0}
    BY DEF Machine
  <2>6. ASSUME program = "server" PROVE IdleLimit = seconds * NsPerSecond
    <3>1. cfg.idleTimeout = seconds
      BY <2>3, <2>4, <2>5, <2>6, SignedFits DEF IdleOf
    <3>2. seconds * NsPerSecond \in Nat
      BY <2>4, <2>5, Product
    <3>3. QED
      BY <2>1, <2>5, <3>1, <3>2, SignedFits DEF IdleLimit
  <2>7. ASSUME program = "client"
        PROVE  ConnectLimit = seconds * MsPerSecond /\ IoLimit = seconds * MsPerSecond
    <3> DEFINE ms == seconds * MsPerSecond
    <3>1. ms \in Nat /\ seconds <= ms
      BY <2>4, <2>5, Product
    <3>2. ms > 0 /\ ms <= IntMax /\ ms <= ULongMax /\ ULongMax \in Nat
      BY <2>1, <2>4, <2>5, <3>1
    <3>3. ms % (ULongMax + 1) = ms
      BY <3>1, <3>2, Fits
    <3>4. cfg.timeoutMs = ms
      BY <2>3, <2>4, <2>5, <2>7, <3>1, <3>2, <3>3, SignedFits DEF MsOf
    <3> HIDE DEF ms
    <3>5. ConnectLimit = ms /\ IoLimit = ms
      BY <3>1, <3>2, <3>4 DEF ConnectLimit, IoLimit
    <3>6. QED
      BY <3>5 DEF ms
  <2>8. QED
    BY <2>2, <2>6, <2>7
<1>3. QED
  BY <1>1, <1>2, LineStep, PTL DEF Spec
=============================================================================
