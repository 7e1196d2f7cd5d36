-------------------------------- MODULE Urls --------------------------------
(***************************************************************************)
(* Urls as text: how a link is read against the base of its page, how the   *)
(* name of a file is normalized, and how robots.txt forbids one (url.cc,    *)
(* text.cc, checker.cc).  A string is a sequence of characters; an escape   *)
(* such as "%61" and a protocol such as "http://" are one character each.   *)
(* Positions begin at 1, where those of the code begin at 0.                *)
(***************************************************************************)
EXTENDS Integers, Sequences, SequencesExt

CONSTANTS
    Chars,          \* the characters of texts and names
    PortLimit,      \* 65536: port is a uint16_t
    maxUrlSize, maxSiteSize

NUL == ""           \* where a string ends

ASSUME UrlsAssumption ==
    /\ {"/", ".", "a", "%"} \subseteq Chars /\ NUL \notin Chars
    /\ PortLimit \in Nat \ {0}
    /\ maxUrlSize \in Nat
    /\ maxSiteSize \in Nat

NULL == <<>>        \* no string: the name of no host or file is empty

At(s, i) == IF i \in DOMAIN s THEN s[i] ELSE NUL

\* s without the characters from i to j - 1
Without(s, i, j) == SubSeq(s, 1, i - 1) \o SubSeq(s, j, Len(s))

\* Of the escapes, what "%xy" stands for; "" if it is no printable character,
\* as is the case for one that is not in hexadecimal.
Escapes == {"%61", "%2E", "%2F", "%25", "%20", "%07", "%zz"}

Decoded(c) ==
    CASE c = "%61" -> "a"
      [] c = "%2E" -> "."
      [] c = "%2F" -> "/"
      [] c = "%25" -> "%"
      [] c = "%20" -> " "
      [] OTHER -> ""

isgraph(c) == c \notin {" ", ""}

\* Mutant of Up: ".." stays where it is.
UpStays(f, i) == i

\* Where "/../" at position i leads: the "/" before it, none at the beginning.
Up(f, i) == SelectLastInSubSeq(f, 1, i - 1, LAMBDA c: c = "/")

\* After the "/" at position i comes a segment "." or "..".
IsDot(f, i) == At(f, i + 1) = "." /\ At(f, i + 2) \in {"/", NUL}

IsDotDot(f, i) ==
    At(f, i + 1) = "." /\ At(f, i + 2) = "." /\ At(f, i + 3) \in {"/", NUL}

\* One round of the loop of fileNormalize, at position i of file f: what is
\* returned, NULL if the file is bad, or what N, the loop, makes of the rest.
Round(N, f, i) ==
    LET c == At(f, i)
    IN  CASE c \in {NUL, "#"} -> SubSeq(f, 1, i - 1)
          [] c = "/" /\ IsDot(f, i) ->
               IF At(f, i + 2) = NUL THEN SubSeq(f, 1, i)
               ELSE N[<<Without(f, i + 1, i + 3), i>>]
          [] c = "/" /\ At(f, i + 1) = "/" -> N[<<Without(f, i + 1, i + 2), i>>]
          [] c = "/" /\ IsDotDot(f, i) ->
               IF Up(f, i) = 0 THEN NULL
               ELSE IF At(f, i + 3) = NUL THEN SubSeq(f, 1, Up(f, i))
               ELSE N[<<Without(f, Up(f, i) + 1, i + 4), Up(f, i)>>]
          [] c \in Escapes ->
               IF isgraph(Decoded(c))
               THEN N[<<[f EXCEPT ![i] = Decoded(c)], i + 1>>]
               ELSE IF Decoded(c) = " " THEN N[<<f, i + 1>>] ELSE NULL
          [] OTHER -> N[<<f, i + 1>>]

Normalized[x \in Seq(Chars) \X Nat] == Round(Normalized, x[1], x[2])

\* The name of a file begins with "/".
fileNormalize(f) == Normalized[<<f, 1>>]

(***************************************************************************)
(* Reading a url.                                                           *)
(***************************************************************************)

NoUrl == [host |-> NULL, port |-> 80, file |-> NULL]

Digits == <<"0", "1", "2", "3", "4", "5", "6", "7", "8", "9">>

Letters == {"a", "b", "d", "g", "h", "w", "mailto"}

\* The first character of s from i on that is not in the set.
Past(s, i, set) ==
    LET j == SelectInSubSeq(s, i, Len(s), LAMBDA c: c \notin set)
    IN  IF j = 0 THEN Len(s) + 1 ELSE j

\* Each step is stored in a uint16_t.
Port(digits) ==
    FoldLeft(LAMBDA n, c: (10 * n + SelectInSeq(Digits, LAMBDA d: d = c) - 1) % PortLimit,
             0, digits)

\* url::parse: the host up to "/" or ":", a port, a file.
parse(arg) ==
    LET stop == SelectInSeq(arg, LAMBDA c: c \in {"/", ":"})
        fin == IF stop = 0 THEN Len(arg) + 1 ELSE stop
        after == IF At(arg, fin) = ":" THEN Past(arg, fin + 1, ToSet(Digits)) ELSE fin
    IN  IF fin = 1 THEN NoUrl
        ELSE [host |-> SubSeq(arg, 1, fin - 1),
              port |-> IF At(arg, fin) = ":" THEN Port(SubSeq(arg, fin + 1, after - 1)) ELSE 80,
              file |-> IF At(arg, after) = "/" THEN SubSeq(arg, after, Len(arg)) ELSE <<"/">>]

NormalizedUrl(u) ==
    LET file == fileNormalize(u.file)
    IN  IF u.file = NULL \/ file = NULL THEN NoUrl ELSE [u EXCEPT !.file = file]

parseWithBase(u, base) ==
    NormalizedUrl([base EXCEPT !.file = IF At(u, 1) = "/" THEN u ELSE @ \o u])

isProtocol(s) == At(s, Past(s, 1, Letters \cup ToSet(Digits))) = ":"

\* The constructor: base is NoUrl if there is none.
url(u, base) ==
    IF At(u, 1) = "http://" THEN NormalizedUrl(parse(Tail(u)))
    ELSE IF base = NoUrl \/ isProtocol(u) THEN NoUrl
    ELSE parseWithBase(IF At(u, 1) = "http:" THEN Tail(u) ELSE u, base)

isValid(u) ==
    /\ u.host # NULL /\ u.file # NULL
    /\ Len(u.host) < maxSiteSize
    /\ Len(u.host) + Len(u.file) + 18 < maxUrlSize

\* The directory of a page is the base of its links.
giveBase(u) ==
    [u EXCEPT !.file = SubSeq(@, 1, SelectLastInSeq(@, LAMBDA c: c = "/"))]

(***************************************************************************)
(* What may be fetched.                                                     *)
(***************************************************************************)

\* Pattern a from its position i on forbids file b from j on.  After a "*" comes
\* the first place of b where the next character of a is.
Matches(a, b) ==
    LET m[x \in Nat \X Nat] ==
          LET i == x[1]
              j == x[2]
              k == SelectInSubSeq(b, j, Len(b), LAMBDA c: c = At(a, i + 1))
          IN  CASE At(a, i) = NUL -> TRUE
                [] At(a, i) = "*" ->
                     IF At(a, i + 1) = NUL THEN TRUE
                     ELSE IF k = 0 THEN FALSE ELSE m[<<i + 1, k>>]
                [] OTHER -> IF At(a, i) = At(b, j) THEN m[<<i + 1, j + 1>>] ELSE FALSE
    IN  m

robotsMatch(a, b) == Matches(a, b)[<<1, 1>>]

\* filter1 without domains: a page, a directory, or no forbidden extension.
filter1(file, forbExt) ==
    \/ IsSuffix(<<"html">>, file) \/ IsSuffix(<<"htm">>, file) \/ Last(file) = "/"
    \/ \A ext \in forbExt: ~IsSuffix(ext, file)

=============================================================================
