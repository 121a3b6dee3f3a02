--------------------------- MODULE MCCommandLine ---------------------------
(* Command lines for TLC: long has 10 bits, int 8, a second 4 ms and 5 ns. *)
EXTENDS CommandLine, TLC

Texts == ("0" :> 0) @@ ("2" :> 2) @@ ("40" :> 40) @@ ("70" :> 70)
           @@ ("2000" :> 2000) @@ ("-1" :> -1)

Times == {<<>>} \cup {<<"--timeout", text>> : text \in DOMAIN Texts \cup {"soon"}}

Others == {<<>>, <<"--port", "7000">>, <<"--destination", "a:1">>,
           <<"--destination", "a">>, <<"--max-sessions", "5">>, <<"--host", "b">>,
           <<"--dir", "d">>, <<"--timeout">>, <<"--what">>}

Lines == {<<>>, <<"-h">>, <<"-c", "-s">>}
           \cup {mode \o first \o second \o third :
                   mode \in {<<"-s">>, <<"-c", "file">>},
                   first \in Times, second \in Others, third \in Times}

DashedWords == {"-s", "-c", "-h", "-1", "--port", "--destination", "--dir", "--host",
                "--timeout", "--max-sessions", "--what"}

Address(text) == IF text = "a:1" THEN <<"a", "1">> ELSE <<>>
=============================================================================
