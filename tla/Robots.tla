------------------------------- MODULE Robots -------------------------------
(***************************************************************************)
(* The robots.txt of a site: the text the server answers with, cut short or *)
(* not, and the parser that makes of it the forbidden files of the site     *)
(* (robots, in file.cc; nextToken, in text.cc).  parseRobots takes one      *)
(* token at a time: where names the loop it is in.                          *)
(***************************************************************************)
EXTENDS Urls

CONSTANTS
    RobotsFiles,    \* bound: what the servers have, as sequences of records
    maxRobotsItem,
    USERAGENT,      \* the name of the program
    Lower           \* tolower

Spaces == {" ", "\t", "\r", "\n"}

ASSUME RobotsAssumption ==
    /\ maxRobotsItem \in Nat
    /\ Spaces \cup {":", "#", "user-agent", "disallow"} \subseteq Chars
    /\ USERAGENT \in Seq(Chars)
    /\ Lower \in [Chars -> Chars]

\* Quoted words, which may hold what ends a word (nextToken), are left out.
ASSUME NoQuotesAssumption == "\"" \notin Chars

VARIABLES
    text, posParse, \* the text of the file, and what of it is parsed
    tok,            \* the last token, NULL at the end of the text
    where,          \* "wait", "main", "agents", "skip", "disallow" or "end"
    concern,        \* state: 0 not concerned, 1 weakly, 2 strongly
    items,          \* size of forbidden, with the names that were bad
    forbidden,      \* NamedSite::forbidden
    asked           \* history: the rules of the robots.txt for the program, those
                    \* of the records before them, and whether all of it came

robotsVars == <<text, posParse, tok, where, concern, items, forbidden, asked>>

(***************************************************************************)
(* The text.  A name of the file format is one character here.              *)
(***************************************************************************)
useragent == <<"user-agent">>
disallow == <<"disallow">>

\* A record is a line of names and the files they may not read.
Line(word, args) ==
    word \o <<":">> \o FlattenSeq([i \in DOMAIN args |-> <<" ">> \o args[i]]) \o <<"\n">>

RecordText(r) ==
    (IF r.agents = <<>> THEN <<>> ELSE Line(useragent, r.agents))
        \o FlattenSeq([i \in DOMAIN r.rules |-> Line(disallow, <<r.rules[i]>>)])

Text(file) ==
    FlattenSeq([i \in DOMAIN file |-> RecordText(file[i]) \o <<"#", "a", "\n">>])

FileTexts == [file \in RobotsFiles |-> Text(file)]

\* Mutant of Blanked: the last token is left as it came.
BlankedNot(t) == t

\* parse, when the file may be incomplete: the last token, which may be cut, is
\* overwritten.
Blanked(t) ==
    LET last == SelectLastInSeq(t, LAMBDA c: c \in Spaces)
    IN  [i \in DOMAIN t |-> IF i > last THEN " " ELSE t[i]]

\* nextToken: separators and comments are skipped; a comment at the end of the
\* text leaves no position to go on from.
WordStart(t) ==
    LET w[p \in Nat] ==
          LET nl == SelectInSubSeq(t, p, Len(t), LAMBDA c: c = "\n")
          IN  CASE At(t, p) \in Spaces \cup {":"} -> w[p + 1]
                [] At(t, p) = "#" -> IF nl = 0 THEN Len(t) + 1 ELSE w[nl + 1]
                [] OTHER -> p
    IN  w

nextToken(t, p) ==
    LET deb == WordStart(t)[p]
        stop == SelectInSubSeq(t, deb, Len(t), LAMBDA c: c \in Spaces \cup {":"})
        fin == IF stop = 0 THEN Len(t) + 1 ELSE stop
    IN  [tok |-> SubSeq(t, deb, fin - 1), pos |-> fin]

Keyword(t) == t \in {useragent, disallow}

\* "* is not correct, / disallows everything"; a name begins with "/".
GoodToken(t) ==
    CASE Head(t) = "*" -> <<"/">> \o Tail(t)
      [] Head(t) = "/" -> t
      [] OTHER -> <<"/">> \o t

\* Does b contain a? The case is ignored (strncasecmp).
caseContain(a, b) ==
    \E i \in 0..Len(b) - Len(a): \A j \in 1..Len(a): Lower[a[j]] = Lower[b[i + j]]

(***************************************************************************)
(* What the file says: the record of the program, else the last one of      *)
(* everybody, else the rules that stand before any name.  A record is the    *)
(* program's if it has its name, or a part of it, in capitals or not.        *)
(***************************************************************************)
Lowered(w) == [j \in DOMAIN w |-> Lower[w[j]]]

Ours(w) ==
    \E i \in 1..Len(USERAGENT) + 1, k \in 0..Len(USERAGENT):
        Lowered(w) = SubSeq(Lowered(USERAGENT), i, k)

NamingUs(file) ==
    {i \in DOMAIN file: \E a \in DOMAIN file[i].agents: Ours(file[i].agents[a])}

NamingAll(file) ==
    {i \in DOMAIN file: \E a \in DOMAIN file[i].agents: file[i].agents[a] = <<"*">>}

Concerning(file) ==
    LET strong == NamingUs(file)
        weak == NamingAll(file)
    IN  IF strong # {} THEN Min(strong)
        ELSE IF weak # {} THEN Max(weak)
        ELSE IF file # <<>> /\ file[1].agents = <<>> THEN 1 ELSE 0

Rules(file) == IF Concerning(file) = 0 THEN <<>> ELSE file[Concerning(file)].rules

\* The rules of the records that concern the program as long as no better one is
\* read.
EarlierRules(file) ==
    UNION {ToSet(file[i].rules): i \in NamingUs(file) \cup NamingAll(file)
              \cup {j \in DOMAIN file: file[j].agents = <<>>}}

-----------------------------------------------------------------------------
RobotsInit ==
    /\ text = <<>> /\ posParse = 1 /\ tok = NULL /\ where = "wait"
    /\ concern = 1 /\ items = 0
    /\ forbidden = <<>>
    /\ asked = [rules |-> <<>>, earlier |-> {}, whole |-> TRUE]

\* robots::parse of an answer with a good code and headers; size characters of it
\* came before an error or maxRobotsSize.  (Of another answer nothing is parsed.)
Parse ==
    /\ where = "wait"
    /\ \E file \in RobotsFiles: \E size \in 0..Len(FileTexts[file]):
         LET all == FileTexts[file]
             t == IF size = Len(all) THEN all ELSE Blanked(SubSeq(all, 1, size))
             first == nextToken(t, 1)
         IN  /\ text' = t /\ tok' = first.tok /\ posParse' = first.pos
             /\ asked' = [rules |-> Rules(file), earlier |-> EarlierRules(file),
                          whole |-> size = Len(all)]
    /\ forbidden' = <<>> /\ items' = 0 /\ concern' = 1
    /\ where' = "main"

NextTok ==
    LET next == nextToken(text, posParse)
    IN  tok' = next.tok /\ posParse' = next.pos

Same == UNCHANGED <<text, asked>>

\* The next record, unless the one of the program has just been read.
UserAgent ==
    /\ where = "main" /\ tok = useragent /\ concern # 2
    /\ concern' = 0 /\ where' = "agents" /\ NextTok
    /\ Same /\ UNCHANGED <<items, forbidden>>

RecordEnd ==
    /\ where = "main" /\ tok = useragent /\ concern = 2
    /\ where' = "end"
    /\ Same /\ UNCHANGED <<posParse, tok, concern, items, forbidden>>

\* Is it our name or a part of it, or everybody's?
Agent ==
    /\ where = "agents" /\ tok # NULL /\ ~Keyword(tok)
    /\ concern' = IF caseContain(tok, USERAGENT) THEN 2
                  ELSE IF concern = 0 /\ tok = <<"*">> THEN 1 ELSE concern
    /\ NextTok
    /\ Same /\ UNCHANGED <<where, items, forbidden>>

\* A record that concerns us is better than older ones.
AgentsEnd ==
    /\ where = "agents" /\ (tok = NULL \/ Keyword(tok))
    /\ IF concern # 0
       THEN where' = "main" /\ forbidden' = <<>> /\ items' = 0
       ELSE where' = "skip" /\ UNCHANGED <<forbidden, items>>
    /\ Same /\ UNCHANGED <<posParse, tok, concern>>

Skip ==
    /\ where = "skip"
    /\ IF tok = NULL \/ tok = useragent
       THEN where' = "main" /\ UNCHANGED <<posParse, tok>>
       ELSE NextTok /\ UNCHANGED where
    /\ Same /\ UNCHANGED <<concern, items, forbidden>>

Disallow ==
    /\ where = "main" /\ tok = disallow
    /\ where' = "disallow" /\ NextTok
    /\ Same /\ UNCHANGED <<concern, items, forbidden>>

Rule ==
    /\ where = "disallow" /\ tok # NULL /\ ~Keyword(tok)
    /\ LET file == fileNormalize(GoodToken(tok)) IN
         /\ forbidden' = IF items < maxRobotsItem /\ file # NULL
                         THEN Append(forbidden, file) ELSE forbidden
         /\ items' = IF items < maxRobotsItem THEN items + 1 ELSE items
    /\ NextTok
    /\ Same /\ UNCHANGED <<where, concern>>

RulesEnd ==
    /\ where = "disallow" /\ (tok = NULL \/ Keyword(tok))
    /\ where' = "main"
    /\ Same /\ UNCHANGED <<posParse, tok, concern, items, forbidden>>

\* A word that means nothing here.
Other ==
    /\ where = "main" /\ tok # NULL /\ ~Keyword(tok)
    /\ NextTok
    /\ Same /\ UNCHANGED <<where, concern, items, forbidden>>

EndOfText ==
    /\ where = "main" /\ tok = NULL
    /\ where' = "end"
    /\ Same /\ UNCHANGED <<posParse, tok, concern, items, forbidden>>

RobotsNext ==
    \/ Parse
    \/ UserAgent \/ RecordEnd \/ Agent \/ AgentsEnd \/ Skip
    \/ Disallow \/ Rule \/ RulesEnd \/ Other \/ EndOfText

=============================================================================
