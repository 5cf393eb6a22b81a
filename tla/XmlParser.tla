------------------------------ MODULE XmlParser ------------------------------
(***************************************************************************)
(* XmlParser over the stream of one request: the header line that Open     *)
(* takes, the lines that Read collects, and the scan of each complete line *)
(* into opening tags, closing tags and texts for the MethodBuilder.        *)
(*                                                                         *)
(* The peer chooses each character as Read comes to it: "sp" is a space or *)
(* a tab, "x" any character that the scanner has no case for.  The header  *)
(* line is made of the pieces that ParseXmlHeader looks for; "version="    *)
(* and "encoding=" have a space before them and a quote behind.            *)
(* XmlParser::Close has no caller and is left out.                         *)
(***************************************************************************)
EXTENDS Integers, Sequences, Texts

CONSTANTS
  MaxHeader,  \* bound: pieces of the header line
  MaxChars    \* bound: characters kept after the header, newlines included

ASSUME ParserAssumption == MaxHeader \in Nat /\ MaxChars \in Nat

Char == {"<", "/", ">", "sp", "x"}
HeaderPiece == {"<?xml", "sp", "version=", "encoding=", "quote", "?>", "x"}

\* The singleton states; a state answers false to what it does not override.
State == {"closed", "opened", "paused"}

TagState == {"default", "opentag", "closetag"}

\* What the parser tells its builder: InitTag, CloseTag or SetTagValue.
Event == [kind : {"open", "close", "text"}, str : Seq(Char)]

VARIABLES
  state,     \* m_pState
  line,      \* strCurrentLine of Read, m_strCurrentLine between two calls
  at,        \* i of ParseCurrentLine, from 1; 0 when Read collects a line
  tagState,  \* eTagState
  tag,       \* strTag
  attrib,    \* strAttrib
  events,    \* everything told to the builder
  outcome,   \* "running", "refused" (Open: false), "illegal" (header), "aborted"
             \* (Xml_Parse_Error, which the agent does not catch) or "done"
  lines      \* history: the lines parsed to their end

scan == <<at, tagState, tag, attrib>>
vars == <<state, line, scan, events, outcome, lines>>

-------------------------------------------------------------------------------
(* Open *)

Quoted == {"quote", "version=", "encoding="}

\* The first occurrence of the attribute has no closing quote.
Unclosed(header, name) ==
  \E i \in 1 .. Len(header) :
    /\ header[i] = name
    /\ \A k \in 1 .. i - 1 : header[k] # name
    /\ \A k \in i + 1 .. Len(header) : header[k] \notin Quoted

ParseXmlHeader(header) ==
  IF /\ Len(header) >= 2
     /\ header[1] = "<?xml"
     /\ header[2] \in {"sp", "version=", "encoding="}
     /\ \A i \in 1 .. Len(header) : header[i] = "?>" <=> i = Len(header)
  THEN IF Unclosed(header, "version=") \/ Unclosed(header, "encoding=")
       THEN "illegal" ELSE "running"
  ELSE "refused"

Open(header) ==
  /\ outcome = "running"
  /\ outcome' = ParseXmlHeader(header)
  /\ state' = IF outcome' = "running" THEN "opened" ELSE "closed"
  /\ UNCHANGED <<line, scan, events, lines>>

OpenUnterminated_StaysOpened(header) ==
  /\ outcome = "running"
  /\ line' = header
  /\ state' = "opened"
  /\ outcome' = "done"
  /\ UNCHANGED <<scan, events, lines>>

\* Without a newline Open takes the whole stream and Read finds it empty.
OpenUnterminated(header) ==
  /\ outcome = "running"
  /\ line' = header
  /\ state' = "paused"
  /\ outcome' = "done"
  /\ UNCHANGED <<scan, events, lines>>

-------------------------------------------------------------------------------
(* Read *)

Reading == state = "opened" /\ outcome = "running" /\ at = 0
MoreInput == Len(Concat(lines)) + Len(lines) + Len(line) < MaxChars

\* A carriage return is dropped and changes nothing.
ReadChar(c) ==
  /\ Reading
  /\ MoreInput
  /\ line' = Append(line, c)
  /\ UNCHANGED <<state, scan, events, outcome, lines>>

ReadNewline ==
  /\ Reading
  /\ MoreInput
  /\ at' = 1
  /\ tagState' = "default"
  /\ tag' = <<>>
  /\ attrib' = <<>>
  /\ UNCHANGED <<state, line, events, outcome, lines>>

\* What follows the last newline stays in m_strCurrentLine.
EndOfStream ==
  /\ Reading
  /\ state' = "paused"
  /\ outcome' = "done"
  /\ UNCHANGED <<line, scan, events, lines>>

-------------------------------------------------------------------------------
(* ParseCurrentLine, one action per case of the switch *)

Scanning(c) ==
  /\ outcome = "running"
  /\ at \in 1 .. Len(line)
  /\ line[at] = c

Throw ==
  /\ outcome' = "aborted"
  /\ UNCHANGED <<state, line, scan, events, lines>>

\* A character of the text that attrib collects.
AddToText ==
  /\ attrib' = Append(attrib, line[at])
  /\ at' = at + 1
  /\ UNCHANGED <<state, line, tagState, tag, events, outcome, lines>>

ScanBlank ==
  /\ Scanning("sp")
  /\ IF tagState = "default" THEN AddToText ELSE Throw

ScanLess_KeepText ==
  /\ Scanning("<")
  /\ IF tagState = "default"
     THEN /\ tagState' = "opentag"
          /\ events' = IF Blank(attrib) THEN events
                       ELSE Append(events, [kind |-> "text", str |-> Trim(attrib)])
          /\ at' = at + 1
          /\ UNCHANGED <<state, line, tag, attrib, outcome, lines>>
     ELSE Throw

ScanLess ==
  /\ Scanning("<")
  /\ IF tagState = "default"
     THEN /\ tagState' = "opentag"
          /\ events' = IF Blank(attrib) THEN events
                       ELSE Append(events, [kind |-> "text", str |-> Trim(attrib)])
          /\ attrib' = <<>>
          /\ at' = at + 1
          /\ UNCHANGED <<state, line, tag, outcome, lines>>
     ELSE Throw

ScanSlash_Anywhere ==
  /\ Scanning("/")
  /\ IF tagState = "opentag"
     THEN /\ tagState' = "closetag"
          /\ at' = at + 1
          /\ UNCHANGED <<state, line, tag, attrib, events, outcome, lines>>
     ELSE IF tagState = "default" THEN AddToText ELSE Throw

ScanSlash ==
  /\ Scanning("/")
  /\ IF at > 1 /\ line[at - 1] = "<" /\ tagState = "opentag"
     THEN /\ tagState' = "closetag"
          /\ at' = at + 1
          /\ UNCHANGED <<state, line, tag, attrib, events, outcome, lines>>
     ELSE IF tagState = "default" THEN AddToText ELSE Throw

ScanGreater_EmptyTag ==
  /\ Scanning(">")
  /\ IF tagState # "default"
     THEN /\ events' = Append(events,
               [kind |-> IF tagState = "opentag" THEN "open" ELSE "close",
                str |-> tag])
          /\ tagState' = "default"
          /\ tag' = <<>>
          /\ at' = at + 1
          /\ UNCHANGED <<state, line, attrib, outcome, lines>>
     ELSE Throw

ScanGreater ==
  /\ Scanning(">")
  /\ IF tagState # "default" /\ tag # <<>>
     THEN /\ events' = Append(events,
               [kind |-> IF tagState = "opentag" THEN "open" ELSE "close",
                str |-> tag])
          /\ tagState' = "default"
          /\ tag' = <<>>
          /\ at' = at + 1
          /\ UNCHANGED <<state, line, attrib, outcome, lines>>
     ELSE Throw

ScanOther ==
  /\ Scanning("x")
  /\ IF tagState = "default" THEN AddToText
     ELSE /\ tag' = Append(tag, line[at])
          /\ at' = at + 1
          /\ UNCHANGED <<state, line, tagState, attrib, events, outcome, lines>>

\* strTag is empty in the default state.
EndOfLine ==
  /\ outcome = "running"
  /\ at = Len(line) + 1
  /\ IF tagState = "default" /\ Blank(attrib)
     THEN /\ lines' = Append(lines, line)
          /\ line' = <<>>
          /\ at' = 0
          /\ attrib' = <<>>
          /\ UNCHANGED <<state, tagState, tag, events, outcome>>
     ELSE Throw

-------------------------------------------------------------------------------
Init ==
  /\ state = "closed"
  /\ line = <<>>
  /\ at = 0
  /\ tagState = "default"
  /\ tag = <<>>
  /\ attrib = <<>>
  /\ events = <<>>
  /\ outcome = "running"
  /\ lines = <<>>

Headers == UNION {[1 .. n -> HeaderPiece] : n \in 0 .. MaxHeader}

Next ==
  \/ /\ state = "closed"
     /\ \E header \in Headers : Open(header) \/ OpenUnterminated(header)
  \/ \E c \in Char : ReadChar(c)
  \/ ReadNewline
  \/ EndOfStream
  \/ ScanBlank
  \/ ScanLess
  \/ ScanSlash
  \/ ScanGreater
  \/ ScanOther
  \/ EndOfLine

Spec == Init /\ [][Next]_vars

-------------------------------------------------------------------------------
(* Properties *)

TypeOK ==
  /\ state \in State
  /\ line \in Seq(Char) \cup Seq(HeaderPiece)
  /\ state # "paused" => line \in Seq(Char)
  /\ at \in 0 .. Len(line) + 1
  /\ at > 0 => state = "opened"
  /\ tagState \in TagState
  /\ tag \in Seq(Char)
  /\ attrib \in Seq(Char)
  /\ events \in Seq(Event)
  /\ outcome \in {"running", "refused", "illegal", "aborted", "done"}
  /\ lines \in Seq(Seq(Char))

\* <x...> or </x...> from i to j.
IsTag(l, i, j) ==
  /\ l[i] = "<"
  /\ l[j] = ">"
  /\ \E b \in {i + 1, i + 2} :
       /\ b = i + 2 => l[i + 1] = "/"
       /\ b < j
       /\ \A k \in b .. j - 1 : l[k] = "x"

\* Every angle bracket belongs to a tag, and only blanks follow the last tag.
WellFormed(l) ==
  \A i \in 1 .. Len(l) :
    /\ l[i] = "<" => \E j \in i + 1 .. Len(l) : IsTag(l, i, j)
    /\ l[i] = ">" => \E j \in 1 .. i - 1 : IsTag(l, j, i)
    /\ l[i] # "sp" => \E j \in i .. Len(l) : l[j] = ">"

\* ParseCurrentLine accepts exactly the lines in which tags are complete and no
\* text follows the last of them; any other line, wherever the scanner is in it
\* and whatever lines came before, ends in Xml_Parse_Error (xml.cpp:110-199).
LinesAsInGrammar ==
  /\ \A i \in 1 .. Len(lines) : WellFormed(lines[i])
  /\ outcome = "aborted" => ~WellFormed(line)

Squeezed(str) == Without(str, "sp")

Mark == [open |-> <<"<">>, close |-> <<"<", "/">>]
AsText(e) == IF e.kind = "text" THEN e.str ELSE Mark[e.kind] \o e.str \o <<">">>

\* The part of the line that is scanned but not told yet.
Pending ==
  (CASE tagState = "default" -> <<>>
     [] tagState = "opentag" -> Mark["open"]
     [] tagState = "closetag" -> Mark["close"]) \o tag \o attrib

\* What the builder was told, written out again, is the text of the lines parsed
\* so far up to the character the scanner is at, but for blanks: no tag or text
\* is lost, doubled, merged or reordered, also when a later part of the line
\* throws; and nothing of a last line without its newline is told
\* (xml.cpp:124-190, 326-348).
EventsAreTheText ==
  Squeezed(Concat([i \in 1 .. Len(events) |-> AsText(events[i])]) \o Pending)
    = Squeezed(Concat(lines) \o SubSeq(line, 1, at - 1))

\* The builder looks its element up by the whole tag: a tag it is told is a name
\* with nothing of the markup in it, and a text has no blanks around it and is
\* never empty (xml.cpp:139-142, 163-169).
EventsAreClean ==
  \A i \in 1 .. Len(events) :
    LET str == events[i].str
    IN  /\ str # <<>>
        /\ events[i].kind # "text" => \A k \in 1 .. Len(str) : str[k] = "x"
        /\ events[i].kind = "text" => str[1] # "sp" /\ str[Len(str)] # "sp"
===============================================================================
