------------------------------ MODULE HttpHeader ------------------------------
(***************************************************************************)
(* One request from Recv to the parser: HttpHeader's scan of the stream,   *)
(* the Content-Length, the rewind when there is none, and what of the      *)
(* request ReceiveCommand hands to the parser.                             *)
(*                                                                         *)
(* The peer sends lines of tokens; the agent calls Recv once and may get   *)
(* any first part of them.  "cr", "nl", "sp" are characters, "xml" is a    *)
(* good XML header, "call" the tags of one complete call, "x" other text.  *)
(***************************************************************************)
EXTENDS Integers, Sequences, FiniteSets, Texts

CONSTANTS
  Line,      \* the lines a request is made of
  MaxLines,  \* bound: lines of one request
  IntMax     \* std::numeric_limits<int>::max()

Digit == {"0", "1"}
Token == Digit \cup {"-", ":", "cr", "nl", "sp", "x", "xml", "call", "Content-Length"}

ASSUME HeaderAssumption ==
  /\ \A l \in Line : l \in Seq(Token) /\ l # <<>> /\
       \A i \in 1 .. Len(l) : l[i] = "nl" <=> i = Len(l)
  /\ MaxLines \in Nat
  /\ IntMax \in Nat

VARIABLES
  stream,   \* the received part of the request
  at,       \* the position in it that the scan has come to, from 1
  header,   \* the HttpHeader that is built, with the locals of its constructor
  length,   \* what ContentLength returned
  phase,    \* "header", "body", "answered", "closed" or "aborted"
  calls     \* the calls executed

vars == <<stream, at, header, length, phase, calls>>

-------------------------------------------------------------------------------
(* HttpHeader::HttpHeader *)

Start ==
  [values |-> <<>>, name |-> <<>>, buffer |-> <<>>,
   bName |-> TRUE, bFirstLine |-> TRUE, bFinished |-> FALSE]

OnOther(h, c) == [h EXCEPT !.buffer = Append(@, c)]

OnColon_Always(h) ==
  IF h.bFirstLine THEN OnOther(h, ":")
  ELSE [h EXCEPT !.name = Trim(h.buffer), !.buffer = <<>>, !.bName = FALSE]

OnColon_FirstLine(h) ==
  IF ~h.bName THEN OnOther(h, ":")
  ELSE [h EXCEPT !.name = Trim(h.buffer), !.buffer = <<>>, !.bName = FALSE]

OnColon(h) ==
  IF h.bFirstLine \/ ~h.bName THEN OnOther(h, ":")
  ELSE [h EXCEPT !.name = Trim(h.buffer), !.buffer = <<>>, !.bName = FALSE]

\* std::map::insert keeps what it has.
Insert(values, name, value) ==
  [k \in DOMAIN values \cup {name} |->
     IF k \in DOMAIN values THEN values[k] ELSE value]

OnNewline(h) ==
  IF h.bFirstLine THEN [h EXCEPT !.bFirstLine = FALSE, !.buffer = <<>>]
  ELSE [h EXCEPT !.values = IF h.bName THEN @
                            ELSE Insert(@, h.name, Trim(h.buffer)),
                 !.bFinished = h.bName /\ h.buffer = <<>>,
                 !.bName = TRUE,
                 !.buffer = <<>>]

OnCharacter(h, c) ==
  CASE c = "cr" -> h
    [] c = ":" -> OnColon(h)
    [] c = "nl" -> OnNewline(h)
    [] OTHER -> OnOther(h, c)

-------------------------------------------------------------------------------
(* ContentLength *)

\* std::stoi of the text: a sign, digits, and anything behind them; -1 when it
\* throws invalid_argument or out_of_range.
Stoi(text) ==
  LET from == IF text # <<>> /\ text[1] = "-" THEN 1 ELSE 0
      digits == {n \in from .. Len(text) : \A i \in from + 1 .. n : text[i] \in Digit}
      number[n \in digits] ==
        IF n = from THEN 0
        ELSE 10 * number[n - 1] + (IF text[n] = "1" THEN 1 ELSE 0)
      all == number[CHOOSE n \in digits : \A k \in digits : k <= n]
      result == IF from = 1 THEN - all ELSE all
  IN  IF digits = {from} \/ result \notin -IntMax - 1 .. IntMax THEN -1 ELSE result

Key == <<"Content-Length">>

ContentLength(h) == IF Key \in DOMAIN h.values THEN Stoi(h.values[Key]) ELSE -1

-------------------------------------------------------------------------------
(* The parser: Open takes the first line, Read the complete lines behind it *)

Counted(line) == Cardinality({i \in 1 .. Len(line) : line[i] = "call"})

OnLine_SkipsJunk(p) ==
  CASE p.opened /\ \A i \in 1 .. Len(p.line) : p.line[i] \in {"call", "sp"} ->
         [p EXCEPT !.calls = @ + Counted(p.line), !.line = <<>>]
    [] p.opened /\ \E i \in 1 .. Len(p.line) : p.line[i] \notin {"call", "sp"} ->
         [p EXCEPT !.thrown = TRUE]
    [] ~p.opened -> [p EXCEPT !.opened = p.line = <<"xml">>, !.line = <<>>]

OnLine(p) ==
  CASE p.opened /\ \A i \in 1 .. Len(p.line) : p.line[i] \in {"call", "sp"} ->
         [p EXCEPT !.calls = @ + Counted(p.line), !.line = <<>>]
    [] p.opened /\ \E i \in 1 .. Len(p.line) : p.line[i] \notin {"call", "sp"} ->
         [p EXCEPT !.thrown = TRUE]
    [] ~p.opened /\ p.line = <<"xml">> -> [p EXCEPT !.opened = TRUE, !.line = <<>>]
    [] ~p.opened /\ p.line # <<"xml">> -> [p EXCEPT !.refused = TRUE]

Closed == [opened |-> FALSE, refused |-> FALSE, thrown |-> FALSE,
           line |-> <<>>, calls |-> 0]

ParseBody(body) ==
  LET parsed[n \in 0 .. Len(body)] ==
        IF n = 0 THEN Closed
        ELSE LET p == parsed[n - 1]
             IN  CASE p.refused \/ p.thrown \/ body[n] = "cr" -> p
                   [] ~p.refused /\ ~p.thrown /\ body[n] = "nl" -> OnLine(p)
                   [] OTHER -> [p EXCEPT !.line = Append(@, body[n])]
  IN  parsed[Len(body)]

-------------------------------------------------------------------------------
(* RpcAgent::ReceiveCommand *)

LinesOf(s) == Cardinality({i \in 1 .. Len(s) : s[i] = "nl"})

\* The peer sends on while the agent has more to read.
Arrive(l) ==
  /\ \/ phase = "header" /\ ~header.bFinished /\ at > Len(stream)
     \/ phase = "body" /\ header.bFinished
  /\ LinesOf(stream) < MaxLines
  /\ stream' = stream \o l
  /\ UNCHANGED <<at, header, length, phase, calls>>

ScanHeader ==
  /\ phase = "header"
  /\ ~header.bFinished
  /\ at <= Len(stream)
  /\ header' = OnCharacter(header, stream[at])
  /\ at' = at + 1
  /\ UNCHANGED <<stream, length, phase, calls>>

\* The scan ends with a blank line, or where the received part ends.
EndOfHeader ==
  /\ phase = "header"
  /\ at > 1
  /\ stream' = IF header.bFinished THEN stream ELSE SubSeq(stream, 1, at - 1)
  /\ length' = ContentLength(header)
  /\ phase' = "body"
  /\ UNCHANGED <<at, header, calls>>

\* CharStream::Reset, when no length was found.
Body(n) == SubSeq(stream, IF length = -1 THEN 1 ELSE at, n)

\* After a rewind iHLength is the length of the stream, which is not empty.
IsParsed(iHLength, body) == (iHLength = -1 \/ iHLength > 0) /\ body # <<>>

\* n tokens were received; in "answered" each call, or the refusal, is sent.
ReceiveBody(n) ==
  LET parsed == ParseBody(Body(n))
  IN  /\ phase = "body"
      /\ header.bFinished \/ n = Len(stream)
      /\ stream' = SubSeq(stream, 1, n)
      /\ IF IsParsed(length, Body(n))
         THEN /\ calls' = parsed.calls
              /\ phase' = IF parsed.thrown THEN "aborted" ELSE "answered"
         ELSE /\ phase' = "closed"
              /\ UNCHANGED calls
      /\ UNCHANGED <<at, header, length>>

-------------------------------------------------------------------------------
Init ==
  /\ stream = <<>>
  /\ at = 1
  /\ header = Start
  /\ length = 0
  /\ phase = "header"
  /\ calls = 0

Next ==
  \/ \E l \in Line : Arrive(l)
  \/ ScanHeader
  \/ EndOfHeader
  \/ \E n \in at - 1 .. Len(stream) : ReceiveBody(n)

Spec == Init /\ [][Next]_vars

-------------------------------------------------------------------------------
(* Properties *)

TypeOK ==
  /\ stream \in Seq(Token)
  /\ at \in 1 .. Len(stream) + 1
  /\ header.name \in Seq(Token)
  /\ header.buffer \in Seq(Token \ {"nl", "cr"})
  /\ {header.bName, header.bFirstLine, header.bFinished} \subseteq BOOLEAN
  /\ \A k \in DOMAIN header.values : k \in Seq(Token) /\ header.values[k] \in Seq(Token)
  /\ header.bFirstLine => header.bName /\ DOMAIN header.values = {}
  /\ length \in -IntMax - 1 .. IntMax
  /\ phase \in {"header", "body", "answered", "closed", "aborted"}
  /\ calls \in Nat

\* The text of lines 2, 3, ... of a part of a request: from behind one newline to
\* the next, without carriage returns.
NoReturns(s) == Without(s, "cr")
Newlines(s) == {i \in 1 .. Len(s) : s[i] = "nl"}
Lines(s) == {l \in Newlines(s) \X Newlines(s) :
               l[1] < l[2] /\ \A i \in Newlines(s) : ~(l[1] < i /\ i < l[2])}
TextOf(s, l) == SubSeq(s, l[1] + 1, l[2] - 1)

Colon(s, l) == {i \in l[1] + 1 .. l[2] - 1 :
                  s[i] = ":" /\ \A k \in l[1] + 1 .. i - 1 : s[k] # ":"}
FieldName(s, l, i) == Trim(SubSeq(s, l[1] + 1, i - 1))
FieldValue(s, l, i) == Trim(SubSeq(s, i + 1, l[2] - 1))

\* Wherever the scan is, it knows the fields of the complete lines behind the
\* first one, each split at its first colon, the first of a name kept, and it
\* stops exactly behind the first line that is empty but for a carriage return:
\* nothing of one line runs into the next, whatever colons, blanks or carriage
\* returns they have (httpheader.cpp:28-72).
HeaderIsLineByLine ==
  phase = "header" =>
  LET s == NoReturns(SubSeq(stream, 1, at - 1))
      lines == Lines(s)
      named(k) == {l \in lines : \E i \in Colon(s, l) : FieldName(s, l, i) = k}
      first(k) == CHOOSE l \in named(k) : \A m \in named(k) : l[1] <= m[1]
  IN  /\ header.bFinished <=> \E l \in lines : TextOf(s, l) = <<>>
      /\ \A l \in lines : TextOf(s, l) = <<>> => stream[at - 1] = "nl" /\ l[2] = Len(s)
      /\ \A l \in lines : \A i \in Colon(s, l) :
           FieldName(s, l, i) \in DOMAIN header.values
      /\ \A k \in DOMAIN header.values :
           /\ named(k) # {}
           /\ \E i \in Colon(s, first(k)) :
                header.values[k] = FieldValue(s, first(k), i)

\* The header after each part of s.
HeaderOf(s) ==
  LET scan[n \in 0 .. Len(s)] ==
        IF n = 0 THEN [header |-> Start, at |-> 1]
        ELSE LET prev == scan[n - 1]
             IN  IF prev.header.bFinished THEN prev
                 ELSE [header |-> OnCharacter(prev.header, s[n]), at |-> prev.at + 1]
  IN  scan

\* What becomes of a request of which s is received, behind the scanned header.
Outcome(s, scanned) ==
  LET iHLength == ContentLength(scanned.header)
      body == SubSeq(s, IF iHLength = -1 THEN 1 ELSE scanned.at, Len(s))
  IN  IF IsParsed(iHLength, body) THEN ParseBody(body) ELSE Closed

StartsWithXml ==
  LET s == NoReturns(stream) IN Len(s) >= 2 /\ s[1] = "xml" /\ s[2] = "nl"

\* A request behind an HTTP header that reaches the agent only in part executes
\* some of its first calls, or none, and never ends the process when the whole
\* one would not: a cut in the header, in a number or between the lines does not
\* turn header into body (rpcagent.cpp:48-72).
CutExecutesFirstCalls ==
  phase \in {"answered", "closed", "aborted"} /\ ~StartsWithXml =>
    LET scan == HeaderOf(stream)
    IN  \A n \in 1 .. Len(stream) :
          LET part == Outcome(SubSeq(stream, 1, n), scan[n])
          IN  /\ part.calls <= calls
              /\ part.thrown => phase = "aborted"
===============================================================================
