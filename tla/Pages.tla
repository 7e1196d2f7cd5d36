------------------------------- MODULE Pages -------------------------------
(***************************************************************************)
(* A site as one connexion after the other reads it: its robots.txt         *)
(* (Robots), then its pages (html, in file.cc).  The lines of the headers    *)
(* come in pieces, each of which is parsed as far as it goes; the links are  *)
(* read when the page is complete, and checked when the filters let them     *)
(* through.                                                                  *)
(***************************************************************************)
EXTENDS Robots

CONSTANTS
    Here,           \* the url of the pages, [host, port, file]
    Links,          \* bound: the links of the pages
    Redirects,      \* bound: the locations the server answers with
    BaseTags,       \* bound: the BASE tags of the pages
    ForbExt,        \* forbiddenExtensions
    externalLinks,
    depthInSite,
    MaxLines        \* bound: lines before the content

ASSUME PagesAssumption ==
    /\ Here \in [host: Seq(Chars), port: Nat, file: Seq(Chars)]
    /\ isValid(Here) /\ At(Here.file, 1) = "/"
    /\ Links \subseteq Seq(Chars) /\ Redirects \subseteq Seq(Chars)
    /\ BaseTags \subseteq Seq(Chars)
    /\ externalLinks \in BOOLEAN
    /\ depthInSite \in Nat
    /\ MaxLines \in Nat \ {0}

VARIABLES
    state,          \* "none", then html::state, "parsing" the content, "closed"
    lines, half,    \* the lines that came; the last one has not its end yet
    parsed,         \* the lines that were parsed
    inputting,      \* in the loop of inputHeaders
    errno,          \* why the page is given up
    depth, base,    \* here->depth, html::base
    link            \* the last link: what it says, and what became of it

pageVars == <<state, lines, half, parsed, inputting, errno, depth, base, link>>
vars == <<robotsVars, pageVars>>

Answers == {"2xx", "3xx", "4xx", "short"}
Headers == {"html", "other type", "length", "too long", "location", "location cgi",
            "other", "end"}

DnsStates == {"doneDns", "errorDns", "noConnDns", "waitDns"}

NoLink == [says |-> <<>>, from |-> NoUrl, url |-> NoUrl, depth |-> 0,
           dns |-> "doneDns", verdict |-> "none"]

Init ==
    /\ RobotsInit
    /\ state = "none" /\ lines = <<>> /\ half = FALSE /\ parsed = 0
    /\ inputting = FALSE /\ errno = "success"
    /\ depth = depthInSite /\ base = NoUrl /\ link = NoLink

(***************************************************************************)
(* A link.                                                                  *)
(***************************************************************************)

\* Mutant of testRobots: the arguments of robotsMatch are swapped.
testRobotsSwapped(file) == \A i \in DOMAIN forbidden: ~robotsMatch(file, forbidden[i])

testRobots(file) == \A i \in DOMAIN forbidden: ~robotsMatch(forbidden[i], file)

\* initOK: the site of the link is in its slot if it is the site of the page.
initOK(u, d, dns) ==
    LET known == u.host = Here.host /\ u.port = Here.port
    IN  IF d < 0 THEN "tooDeep"
        ELSE IF known /\ dns = "errorDns" THEN "fastNoDns"
        ELSE IF known /\ dns = "noConnDns" THEN "fastNoConn"
        ELSE IF known /\ dns = "doneDns" /\ ~testRobots(u.file) THEN "fastRobots"
        ELSE "checked"

LinkDepth(u, d) == IF u.host = Here.host THEN d ELSE depthInSite

\* manageUrl
Verdict(u, d, dns, isRedir) ==
    IF /\ isValid(u) /\ filter1(u.file, ForbExt)
       /\ externalLinks \/ isRedir \/ u.host = Here.host
    THEN initOK(u, LinkDepth(u, d), dns) ELSE "filtered"

manageUrl(says, d, isRedir) ==
    LET u == url(says, base) IN
    \E dns \in DnsStates:
        link' = [says |-> says, from |-> base, url |-> u, depth |-> LinkDepth(u, d),
                 dns |-> dns, verdict |-> Verdict(u, d, dns, isRedir)]

(***************************************************************************)
(* The headers.                                                             *)
(***************************************************************************)

\* The next page; the text of robots.txt is no more.
StartPage ==
    /\ where = "end" \/ (where = "page" /\ state = "closed")
    /\ where' = "page"
    /\ text' = <<>> /\ posParse' = 1 /\ tok' = NULL /\ concern' = 1 /\ items' = 0
    /\ asked' = [asked EXCEPT !.earlier = {}]
    /\ UNCHANGED forbidden
    /\ state' = "answer" /\ lines' = <<>> /\ half' = FALSE /\ parsed' = 0
    /\ inputting' = FALSE /\ errno' = "success"
    /\ depth' \in 0..depthInSite /\ base' = giveBase(Here) /\ link' = NoLink

Unread == UNCHANGED <<robotsVars, depth, base>>

Lines == IF half THEN Front(lines) ELSE lines       \* those that are complete

HeaderStates == {"answer", "headers", "headers30x"}

\* What a piece may bring: the end of a line, or one or two lines.
Following(ls) ==
    LET next == IF ls = <<>> THEN Answers ELSE Headers
    IN  IF Contains(ls, "end") THEN {<<>>}
        ELSE {<<>>} \cup {<<l>>: l \in next}
                \cup {<<l, m>>: l \in next \ {"end"}, m \in Headers}

\* pipeRead: a piece comes, which ends in a line or not.
Arrive ==
    /\ state \in HeaderStates /\ ~inputting
    /\ ~Contains(Lines, "end")
    /\ \E more \in Following(lines):
         /\ Len(lines) + Len(more) <= MaxLines
         /\ lines' = lines \o more
         /\ half' \in IF more = <<>> THEN {FALSE} ELSE BOOLEAN
         /\ more = <<>> => half
    /\ inputting' = TRUE
    /\ Unread /\ UNCHANGED <<state, parsed, errno, link>>

\* The line that inputHeaders parses.
AtLine(line) ==
    /\ inputting /\ parsed < Len(Lines)
    /\ line = Lines[parsed + 1]

GiveUp(e) == errno' = e /\ state' = "closed" /\ inputting' = FALSE

GoOn(s) == state' = s /\ UNCHANGED <<errno, inputting>>

parseCmdline ==
    /\ state = "answer"
    /\ \E line \in Answers:
         /\ AtLine(line)
         /\ CASE line = "2xx" -> GoOn("headers")
              [] line = "3xx" -> GoOn("headers30x")
              [] line = "4xx" -> GiveUp("err40X")
              [] line = "short" -> GiveUp("earlyStop")
    /\ parsed' = parsed + 1
    /\ Unread /\ UNCHANGED <<lines, half, link>>

\* parseHeader, with verifType and verifLength.
parseHeader ==
    /\ state = "headers"
    /\ \E line \in Headers:
         /\ AtLine(line)
         /\ CASE line = "end" -> GoOn("html")
              [] line = "other type" -> GiveUp("badType")
              [] line = "too long" -> GiveUp("tooBig")
              [] OTHER -> GoOn("headers")
    /\ parsed' = parsed + 1
    /\ Unread /\ UNCHANGED <<lines, half, link>>

\* parseHeader30X: the first location is followed, if it is no cgi.
parseHeader30X ==
    /\ state = "headers30x"
    /\ \E line \in Headers:
         /\ AtLine(line)
         /\ CASE line = "end" -> GiveUp("err40X")
              [] line \in {"location", "location cgi"} -> GiveUp("err30X")
              [] OTHER -> GoOn("headers30x")
         /\ IF line = "location" THEN \E says \in Redirects: manageUrl(says, depth, TRUE)
            ELSE UNCHANGED link
    /\ parsed' = parsed + 1
    /\ Unread /\ UNCHANGED <<lines, half>>

\* Mutant of InputEnd: "if" for "while", one line of a piece is parsed.
InputEndOneLine ==
    /\ inputting
    /\ state = "html" \/ parsed = Len(Lines) \/ parsed > 0
    /\ inputting' = FALSE
    /\ Unread /\ UNCHANGED <<state, lines, half, parsed, errno, link>>

\* The rest of the piece is no line, or the content.
InputEnd ==
    /\ inputting
    /\ state = "html" \/ parsed = Len(Lines)
    /\ inputting' = FALSE
    /\ Unread /\ UNCHANGED <<state, lines, half, parsed, errno, link>>

(***************************************************************************)
(* The content.                                                             *)
(***************************************************************************)

\* endInput: the server has closed the connection.
endInput ==
    /\ state \in HeaderStates \cup {"html"} /\ ~inputting
    /\ IF state = "html" THEN state' = "parsing" /\ UNCHANGED errno
       ELSE /\ state' = "closed"
            /\ errno' = IF state = "headers30x" THEN "err40X" ELSE "earlyStop"
    /\ lines' = <<>> /\ half' = FALSE /\ parsed' = 0
    /\ Unread /\ UNCHANGED <<inputting, link>>

\* pipeRead, checkTimeout: an error, a page too big, a timeout.
Fails ==
    /\ state \in HeaderStates \cup {"html"} /\ ~inputting
    /\ errno' \in {"earlyStop", "tooBig", "timeout"}
    /\ state' = "closed"
    /\ lines' = <<>> /\ half' = FALSE /\ parsed' = 0
    /\ Unread /\ UNCHANGED <<inputting, link>>

\* parseContent of a link
Link ==
    /\ state = "parsing" /\ link = NoLink
    /\ \E says \in Links: manageUrl(says, depth - 1, FALSE)
    /\ UNCHANGED <<robotsVars, state, lines, half, parsed, inputting, errno, depth, base>>

\* parseHtml goes on to the next tag.
NextTag ==
    /\ state = "parsing" /\ link # NoLink
    /\ link' = NoLink
    /\ UNCHANGED <<robotsVars, state, lines, half, parsed, inputting, errno, depth, base>>

\* The characters of the scheme, or of as much of another name.
BaseScheme(says) == IF At(says, 1) = "http://" THEN 2 ELSE 8

\* parseContent of a BASE tag: the base ends at the last "/", which has to come
\* after the scheme and a character more ("this base looks good").
Base ==
    /\ state = "parsing" /\ link = NoLink
    /\ \E says \in BaseTags:
         LET slash == SelectLastInSeq(says, LAMBDA c: c = "/")
             tmpbase == url(SubSeq(says, 1, slash), NoUrl)
         IN  /\ slash > BaseScheme(says)
             /\ base' = IF isValid(tmpbase) THEN tmpbase ELSE NoUrl
    /\ UNCHANGED <<robotsVars, state, lines, half, parsed, inputting, errno, depth, link>>

EndOfPage ==
    /\ state = "parsing" /\ link = NoLink
    /\ state' = "closed"
    /\ UNCHANGED <<robotsVars, lines, half, parsed, inputting, errno, depth, base, link>>

Next ==
    \/ RobotsNext /\ UNCHANGED pageVars
    \/ StartPage
    \/ Arrive \/ parseCmdline \/ parseHeader \/ parseHeader30X \/ InputEnd
    \/ endInput \/ Fails
    \/ Link \/ Base \/ NextTag \/ EndOfPage

Spec == Init /\ [][Next]_vars

(***************************************************************************)
(* Names of files as they are meant.                                        *)
(***************************************************************************)

\* An escape that stands for a character with a meaning of its own is decoded
\* into it, and "#" hides a last "." or "..": the names that remain.
Plain(f) ==
    /\ \A i \in DOMAIN f: f[i] \notin {"%2E", "%2F", "%25"}
    /\ \A i \in DOMAIN f: f[i] = "#" => At(f, i - 1) # "."

\* A walk from directory to directory, as a name describes it: whether it goes on,
\* where it has come, and the segment that it reads.
WalkStart == [ok |-> TRUE, path |-> <<>>, seg |-> <<>>]

Dot == {<<>>, <<".">>}
Above == <<".", ".">>

\* It goes where the segment says, but not out of the root.
Enter(w) ==
    [ok |-> w.ok /\ (w.seg = Above => w.path # <<>>),
     path |-> CASE w.seg \in Dot -> w.path
                [] w.seg = Above -> IF w.path = <<>> THEN <<>> ELSE Front(w.path)
                [] OTHER -> Append(w.path, w.seg),
     seg |-> <<>>]

\* It stops at a bad escape.
Read(w, c) ==
    CASE c = "/" -> Enter(w)
      [] c \in {"%07", "%zz"} -> [w EXCEPT !.ok = FALSE]
      [] OTHER -> [w EXCEPT !.seg = Append(@, IF c = "%61" THEN "a" ELSE c)]

\* The walk after the first n characters.
Walks(f) ==
    LET w[n \in 0..Len(f)] == IF n = 0 THEN WalkStart ELSE Read(w[n - 1], f[n])
    IN  w

\* The length of a name without its fragment.
Length(f) ==
    LET hash == SelectInSeq(f, LAMBDA c: c = "#")
    IN  IF hash = 0 THEN Len(f) ELSE hash - 1

\* The name of where the walk ends, NULL if it does not.
Meant(f) ==
    LET w == Walks(f)[Length(f)]
        path == Enter(w).path
        isDir == w.seg \in Dot \cup {Above}
    IN  IF ~Enter(w).ok THEN NULL
        ELSE FlattenSeq([k \in DOMAIN path |-> <<"/">> \o path[k]])
                \o (IF isDir THEN <<"/">> ELSE <<>>)

\* The rules of a file that count, as they are meant.
RulesMeant(rules) ==
    LET first == SubSeq(rules, 1, IF Len(rules) < maxRobotsItem THEN Len(rules) ELSE maxRobotsItem)
        meant == [i \in DOMAIN first |-> Meant(GoodToken(first[i]))]
    IN  FlattenSeq([i \in DOMAIN meant |-> IF meant[i] = NULL THEN <<>> ELSE <<meant[i]>>])

\* A robots.txt whose names and rules are words, as nextToken reads them, and mean
\* something plain; a record without names is the first.
IsWord(w) ==
    /\ w \in Seq(Chars) /\ w # <<>> /\ w[1] # "#" /\ ~Keyword(w)
    /\ \A k \in DOMAIN w: w[k] \notin Spaces \cup {":"}

WellWritten(file) ==
    /\ file \in Seq([agents: Seq(Seq(Chars)), rules: Seq(Seq(Chars))])
    /\ \A i \in DOMAIN file:
         /\ \A k \in DOMAIN file[i].agents: IsWord(file[i].agents[k])
         /\ \A k \in DOMAIN file[i].rules:
              IsWord(file[i].rules[k]) /\ Plain(GoodToken(file[i].rules[k]))
         /\ i > 1 => file[i].agents # <<>>

\* No rule has a "*" after its first character.
NoPatterns(file) ==
    \A i \in DOMAIN file: \A k \in DOMAIN file[i].rules:
        \A j \in DOMAIN file[i].rules[k]: file[i].rules[k][j] = "*" => j = 1

(***************************************************************************)
(* Properties.                                                              *)
(***************************************************************************)

\* What is forbidden is what the record of the file that concerns the program
\* says, whatever stands before and after it; of a file that did not come whole,
\* it is made of whole rules of such records (parse, parseRobots).
ForbiddenExact ==
    where = "end" =>
        IF asked.whole THEN forbidden = RulesMeant(asked.rules)
        ELSE \A i \in DOMAIN forbidden:
                forbidden[i] \in {Meant(GoodToken(r)): r \in asked.earlier}

\* The line that decides, in the headers of an answer.
Decides(ls, set) ==
    LET i == SelectInSubSeq(ls, 2, Len(ls), LAMBDA line: line \in set)
    IN  IF i = 0 THEN "none" ELSE ls[i]

Expected(ls) ==
    LET ok == Decides(ls, {"end", "other type", "too long"})
        moved == Decides(ls, {"end", "location", "location cgi"})
    IN  CASE ls[1] = "short" -> "earlyStop"
          [] ls[1] = "4xx" -> "err40X"
          [] ls[1] = "2xx" ->
               (CASE ok = "none" -> "headers" [] ok = "end" -> "html"
                  [] ok = "other type" -> "badType" [] ok = "too long" -> "tooBig")
          [] ls[1] = "3xx" ->
               (CASE moved = "none" -> "headers30x" [] moved = "end" -> "err40X"
                  [] OTHER -> "err30X")

\* What becomes of a page after its headers depends on their lines, and not on
\* the pieces in which they came (inputHeaders).
HeadersRead ==
    Lines # <<>> /\ ~inputting =>
        Expected(Lines) = IF errno = "success" THEN state ELSE errno

\* The file a link names, before it is normalized.
NamedBy(says, from) ==
    CASE At(says, 1) = "http://" -> parse(Tail(says)).file
      [] At(says, 1) = "http:" ->
           IF At(says, 2) = "/" THEN Tail(says) ELSE from.file \o Tail(says)
      [] At(says, 1) = "/" -> says
      [] OTHER -> from.file \o says

Named == NamedBy(link.says, link.from)

\* A link with a plain name is asked for under the name it means: two plain names
\* of one file are one url, and none leads out of the root (fileNormalize).
NamesResolved ==
    link.url # NoUrl /\ Plain(Named) => link.url.file = Meant(Named)

\* From no "/" of a name does it go on with an empty segment, "." or "..".
Settled(f) ==
    /\ At(f, 1) = "/"
    /\ \A i \in DOMAIN f: f[i] = "/" =>
          At(f, i + 1) # "/" /\ ~IsDot(f, i) /\ ~IsDotDot(f, i)

\* The name a link is asked for under is settled, if the name in the page was
\* plain: it stays below the root of the server (fileNormalize).  Of a name that
\* is not, "/%2E%2E/a", the code asks for "/../a": an escape is decoded behind the
\* place where dots are looked for.
NamesSettled ==
    link.url # NoUrl /\ Plain(Named) => Settled(link.url.file)

Covered == \E i \in DOMAIN RulesMeant(asked.rules):
    IsPrefix(RulesMeant(asked.rules)[i], Meant(Named))

\* A link of the site is refused iff the robots.txt says so, however it is
\* spelled in the page and in the file.
RobotsObeyed ==
    /\ link.verdict \in {"checked", "fastRobots"} /\ link.dns = "doneDns"
    /\ link.url.host = Here.host /\ link.url.port = Here.port
    /\ asked.whole /\ Plain(Named)
    => (link.verdict = "fastRobots" <=> Covered)

=============================================================================
