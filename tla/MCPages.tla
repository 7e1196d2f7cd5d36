------------------------------ MODULE MCPages ------------------------------
(* The pages of http://h/d/: all the links of up to four characters of three, *)
(* and some with escapes, fragments, other hosts and ports; the site's         *)
(* robots.txt has up to two records, with rules spelled in several ways.       *)
EXTENDS Pages

MCChars ==
    Escapes \cup Spaces \cup Letters \cup ToSet(Digits)
    \cup {"/", ".", ":", "#", "%", "*", "http://", "http:", "user-agent", "disallow",
          "lar", "bin", "BIN", "bot", "gz"}

MCLower == [c \in MCChars |-> IF c = "BIN" THEN "bin" ELSE c]

MCUserAgent == <<"lar", "bin">>

MCHere == [host |-> <<"h">>, port |-> 80, file |-> <<"/", "d", "/", "b">>]

MCLinks ==
    UNION {[1..n -> {"/", ".", "a"}]: n \in 0..4} \cup
    {<<"%61">>, <<"/", "%61">>, <<".", ".", "/", "%61">>, <<"a", "%20", "b">>,
     <<"%2E", "/", "a">>, <<"%2F", "a">>, <<"%25", "a">>, <<"%07">>, <<"a", "%zz">>,
     <<"a", "#", "b">>, <<".", ".", "#", "b">>, <<"#", "b">>,
     <<"/", "d", "/", ".", ".", "/", "a">>, <<"/", "a", ".", "gz">>,
     <<"http://", "h">>, <<"http://", "h", "/", "a">>, <<"http://", "g", "/", "a">>,
     <<"http://", "h", ":", "8", "1", "/", "a">>, <<"http://", "/", "a">>,
     <<"http://", "h", ":", "8", "0", "/", "d", "/", ".", "/", "a">>,
     <<"http:", "a">>, <<"mailto", ":", "a">>}

MCRedirects ==
    {<<"a">>, <<"/", "d", "/", ".", ".", "/", "a">>, <<"http://", "g", "/", "a">>,
     <<"http://", "h", "/", "a">>}

MCBaseTags ==
    {<<"http://", "h", "/", "b", "/", "a">>, <<"http://", "/">>, <<"http://", "h", ":", "0", "/">>,
     <<"http://", ":", "8", "/">>}

MCForbExt == {<<".", "gz">>}

Slash == <<"/">>
A == <<"/", "a">>
D == <<"/", "d", "/">>

MCRecords ==
    [agents: {<<MCUserAgent>>, <<<<"bot">>>>, <<<<"*">>>>, <<<<"lar", "bin", "bot">>, <<"BIN">>>>},
     rules: {<<>>, <<A>>, <<<<"*">>>>, <<D, <<"d", "/", "/", "a">>, A>>}]

MCRobotsFiles ==
    {<<>>} \cup {<<[agents |-> <<>>, rules |-> <<A>>], r>>: r \in MCRecords}
    \cup {<<r, s>>: r, s \in MCRecords}

\* As the theorems about robots.txt assume.
ASSUME MCRobotsFilesAreWellWritten ==
    \A file \in MCRobotsFiles: WellWritten(file) /\ NoPatterns(file)

=============================================================================
