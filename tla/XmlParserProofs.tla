--------------------------- MODULE XmlParserProofs ---------------------------
(***************************************************************************)
(* What the scanner does to lines of any length, whatever they hold.       *)
(***************************************************************************)
EXTENDS XmlParser, ProofLemmas

-------------------------------------------------------------------------------
\* What trim leaves of a text that is not blank.
LEMMA TrimIsClean ==
  ASSUME NEW str \in Seq(Char), ~Blank(str)
  PROVE  /\ Trim(str) \in Seq(Char)
         /\ Trim(str) # <<>>
         /\ Trim(str)[1] # "sp"
         /\ Trim(str)[Len(Trim(str))] # "sp"
<1> DEFINE solid == {i \in 1 .. Len(str) : str[i] # "sp"}
           a == CHOOSE i \in solid : \A k \in solid : i <= k
           z == CHOOSE i \in solid : \A k \in solid : k <= i
<1>1. Len(str) \in Nat
  OBVIOUS
<1>2. solid \in SUBSET (1 .. Len(str)) /\ solid \in SUBSET Nat
  <2>1. solid \subseteq 1 .. Len(str)
    OBVIOUS
  <2>2. 1 .. Len(str) \subseteq Nat
    BY <1>1
  <2> QED
    BY <2>1, <2>2
<1>0. solid # {}
  BY DEF Blank
<1>3. a \in solid /\ \A k \in solid : a <= k
  <2> HIDE DEF solid
  <2> QED BY <1>2, <1>0, NatMin
<1>4. z \in solid /\ \A k \in solid : k <= z
  <2>1. \A k \in solid : k <= Len(str)
    OBVIOUS
  <2> HIDE DEF solid
  <2> QED BY <1>0, <1>1, <1>2, <2>1, NatMax
<1>5. Trim(str) = SubSeq(str, a, z)
  BY <1>0 DEF Trim
<1>6. /\ a \in 1 .. Len(str) /\ str[a] # "sp"
      /\ z \in 1 .. Len(str) /\ str[z] # "sp"
      /\ a <= z
  BY <1>3, <1>4
<1> HIDE DEF solid, a, z
<1>7. ASSUME NEW b \in 1 .. Len(str), NEW c \in 1 .. Len(str), b <= c
      PROVE  /\ SubSeq(str, b, c) \in Seq(Char)
             /\ SubSeq(str, b, c) # <<>>
             /\ SubSeq(str, b, c)[1] = str[b]
             /\ SubSeq(str, b, c)[Len(SubSeq(str, b, c))] = str[c]
  <2>1. /\ SubSeq(str, b, c) \in Seq(Char)
        /\ Len(SubSeq(str, b, c)) = c - b + 1
        /\ \A i \in 1 .. c - b + 1 : SubSeq(str, b, c)[i] = str[b + i - 1]
    BY <1>1, <1>7, SubSeqProperties
  <2>2. /\ c - b + 1 \in 1 .. c - b + 1
        /\ 1 \in 1 .. c - b + 1
        /\ b + 1 - 1 = b
        /\ b + (c - b + 1) - 1 = c
    BY <1>1, <1>7
  <2>3. SubSeq(str, b, c) # <<>>
    BY <1>1, <1>7, <2>1, EmptySeq
  <2> QED
    BY <2>1, <2>2, <2>3
<1>8. /\ SubSeq(str, a, z) \in Seq(Char)
      /\ SubSeq(str, a, z) # <<>>
      /\ SubSeq(str, a, z)[1] = str[a]
      /\ SubSeq(str, a, z)[Len(SubSeq(str, a, z))] = str[z]
  BY <1>6, <1>7
<1> QED
  BY <1>5, <1>6, <1>8

-------------------------------------------------------------------------------
(* The inductive invariant. *)

\* Up to n every angle bracket belongs to a tag.
Closed(l, n) ==
  \A i \in 1 .. n :
    /\ l[i] = "<" => \E j \in i + 1 .. n : IsTag(l, i, j)
    /\ l[i] = ">" => \E j \in 1 .. i - 1 : IsTag(l, j, i)

\* Up to n only blanks follow the last tag, or some text does.
Covered(l, n) ==
  \A i \in 1 .. n : l[i] # "sp" => \E j \in i .. n : l[j] = ">"
Uncovered(l, n) ==
  \E i \in 1 .. n : l[i] # "sp" /\ \A j \in i .. n : l[j] # ">"

TextScanned ==
  /\ Closed(line, at - 1)
  /\ IF Blank(attrib) THEN Covered(line, at - 1) ELSE Uncovered(line, at - 1)

\* Before n a tag has begun at s, its name of m characters at b.
TagScanned(l, n, ts, m, s, b) ==
  /\ Closed(l, s - 1)
  /\ l[s] = "<"
  /\ IF ts = "opentag" THEN b = s + 1 ELSE b = s + 2 /\ l[s + 1] = "/"
  /\ b <= n
  /\ m = n - b
  /\ \A k \in b .. n - 1 : l[k] = "x"

Scanned ==
  /\ tagState = "default" => tag = <<>>
  /\ tagState # "default" => attrib = <<>>
  /\ \A k \in 1 .. Len(tag) : tag[k] = "x"
  /\ at > 0 /\ outcome = "running" =>
       /\ tagState = "default" => TextScanned
       /\ tagState # "default" =>
            \E s \in 1 .. at - 1, b \in 1 .. at : TagScanned(line, at, tagState, Len(tag), s, b)

IInv == TypeOK /\ Scanned /\ LinesAsInGrammar /\ EventsAreClean

-------------------------------------------------------------------------------
(* The scanner in a line, and what it throws on. *)

\* A tag that something else than a name breaks off is never completed.
LEMMA BrokenTag ==
  ASSUME NEW l \in Seq(Char), NEW n \in 1 .. Len(l), NEW ts \in TagState,
         NEW m \in Nat, NEW s \in 1 .. n - 1, NEW b \in 1 .. n,
         TagScanned(l, n, ts, m, s, b),
         l[n] # "x", l[n] # ">",
         ~(l[n] = "/" /\ ts = "opentag" /\ l[n - 1] = "<")
  PROVE  ~WellFormed(l)
<1>1. Len(l) \in Nat
  OBVIOUS
<1>2. s \in 1 .. Len(l) /\ l[s] = "<"
  BY <1>1 DEF TagScanned
<1>3. SUFFICES ASSUME NEW j \in s + 1 .. Len(l), IsTag(l, s, j)
               PROVE  FALSE
  BY <1>2, Zenon DEF WellFormed
<1>4. PICK c \in {s + 1, s + 2} : /\ c = s + 2 => l[s + 1] = "/"
                                 /\ c < j
                                 /\ \A k \in c .. j - 1 : l[k] = "x"
  BY <1>3 DEF IsTag
<1>5. b \in {s + 1, s + 2} /\ \A k \in b .. n - 1 : l[k] = "x"
  BY DEF TagScanned
<1>6. l[j] = ">"
  BY <1>3 DEF IsTag
<1>7. CASE j < n
  <2>1. l[j] = "x" \/ (b = s + 2 /\ j = s + 1)
    BY <1>1, <1>5, <1>7
  <2> QED
    BY <1>4, <1>6, <2>1
<1>8. CASE j > n
  <2>1. n < c
    BY <1>1, <1>4, <1>8
  <2>2. n = s + 1 /\ c = s + 2
    BY <1>1, <1>4, <2>1
  <2>3. l[n] = "/" /\ l[n - 1] = "<" /\ b = s + 1 /\ ts = "opentag"
    BY <1>1, <1>4, <2>2 DEF TagScanned
  <2> QED
    BY <2>3
<1> QED
  BY <1>1, <1>6, <1>7, <1>8

LEMMA EmptyTag ==
  ASSUME NEW l \in Seq(Char), NEW n \in 1 .. Len(l), NEW ts \in TagState,
         NEW s \in 1 .. n - 1, NEW b \in 1 .. n,
         TagScanned(l, n, ts, 0, s, b),
         l[n] = ">"
  PROVE  ~WellFormed(l)
<1>1. Len(l) \in Nat
  OBVIOUS
<1>2. s \in 1 .. Len(l) /\ l[s] = "<"
  BY <1>1 DEF TagScanned
<1>3. SUFFICES ASSUME NEW j \in s + 1 .. Len(l), IsTag(l, s, j)
               PROVE  FALSE
  BY <1>2, Zenon DEF WellFormed
<1>4. PICK c \in {s + 1, s + 2} : /\ c = s + 2 => l[s + 1] = "/"
                                 /\ c < j
                                 /\ \A k \in c .. j - 1 : l[k] = "x"
  BY <1>3 DEF IsTag
<1>5. /\ b = n
      /\ b = s + 1 \/ (b = s + 2 /\ l[s + 1] = "/")
  BY <1>1 DEF TagScanned
<1>6. l[j] = ">"
  BY <1>3 DEF IsTag
<1> QED
  BY <1>1, <1>4, <1>5, <1>6

LEMMA StrayGreater ==
  ASSUME NEW l \in Seq(Char), NEW n \in 1 .. Len(l), Closed(l, n - 1), l[n] = ">"
  PROVE  ~WellFormed(l)
<1>1. Len(l) \in Nat
  OBVIOUS
<1>2. SUFFICES ASSUME NEW i \in 1 .. n - 1, IsTag(l, i, n)
               PROVE  FALSE
  BY <1>1 DEF WellFormed
<1>3. PICK j \in i + 1 .. n - 1 : IsTag(l, i, j)
  BY <1>1, <1>2 DEF Closed, IsTag
<1>4. l[j] = ">" /\ j \in i + 1 .. n - 1
  BY <1>3 DEF IsTag
<1>5. PICK c \in {i + 1, i + 2} : /\ c = i + 2 => l[i + 1] = "/"
                                 /\ \A k \in c .. n - 1 : l[k] = "x"
  BY <1>2 DEF IsTag
<1> QED
  BY <1>1, <1>4, <1>5

LEMMA UnfinishedTag ==
  ASSUME NEW l \in Seq(Char), NEW ts \in TagState, NEW m \in Nat,
         NEW s \in 1 .. Len(l), NEW b \in 1 .. Len(l) + 1,
         TagScanned(l, Len(l) + 1, ts, m, s, b)
  PROVE  ~WellFormed(l)
<1>1. Len(l) \in Nat
  OBVIOUS
<1>2. l[s] = "<"
  BY DEF TagScanned
<1>3. SUFFICES ASSUME NEW j \in s + 1 .. Len(l), IsTag(l, s, j)
               PROVE  FALSE
  BY <1>2, Zenon DEF WellFormed
<1>4. l[j] = ">"
  BY <1>3 DEF IsTag
<1>5. b = s + 1 \/ (b = s + 2 /\ l[s + 1] = "/")
  BY DEF TagScanned
<1>6. \A k \in b .. Len(l) : l[k] = "x"
  BY <1>1 DEF TagScanned
<1> QED
  BY <1>1, <1>3, <1>4, <1>5, <1>6

LEMMA UnfinishedText ==
  ASSUME NEW l \in Seq(Char), Uncovered(l, Len(l))
  PROVE  ~WellFormed(l)
BY Zenon DEF WellFormed, Uncovered

LEMMA FinishedLine ==
  ASSUME NEW l \in Seq(Char), Closed(l, Len(l)), Covered(l, Len(l))
  PROVE  WellFormed(l)
BY Zenon DEF WellFormed, Closed, Covered

-------------------------------------------------------------------------------
(* Each action keeps the invariant. *)

LEMMA ScannerTyped ==
  ASSUME IInv
  PROVE  Len(line) \in Nat /\ at \in Nat /\ tagState \in TagState
<1>1. Len(line) \in Nat
  BY DEF IInv, TypeOK
<1>2. at \in 0 .. Len(line) + 1 /\ tagState \in TagState
  BY DEF IInv, TypeOK
<1> QED
  BY <1>1, <1>2

\* In a line that is being scanned.
LEMMA InLine ==
  ASSUME IInv, NEW c, Scanning(c)
  PROVE  /\ outcome = "running" /\ state = "opened"
         /\ line \in Seq(Char) /\ Len(line) \in Nat
         /\ at \in 1 .. Len(line) /\ at \in Nat /\ at > 0
         /\ line[at] = c /\ line[at] \in Char
         /\ tagState \in TagState
         /\ tag \in Seq(Char) /\ Len(tag) \in Nat /\ attrib \in Seq(Char)
         /\ tagState = "default" => tag = <<>> /\ TextScanned
         /\ tagState # "default" =>
              \E s \in 1 .. at - 1, b \in 1 .. at :
                TagScanned(line, at, tagState, Len(tag), s, b)
<1>1. Len(line) \in Nat /\ tagState \in TagState
  BY ScannerTyped
<1>2. outcome = "running" /\ at \in 1 .. Len(line) /\ line[at] = c
  BY DEF Scanning
<1>3. at \in Nat /\ at > 0
  BY <1>1, <1>2
<1>0. line \in Seq(Char)
  BY <1>3 DEF IInv, TypeOK
<1>4. line \in Seq(Char) /\ line[at] \in Char
  BY <1>0, <1>1, <1>2, <1>3, ElementOfSeq
<1>5. /\ state = "opened"
      /\ tag \in Seq(Char) /\ Len(tag) \in Nat /\ attrib \in Seq(Char)
  BY <1>3 DEF IInv, TypeOK
<1>6. /\ tagState = "default" => tag = <<>> /\ TextScanned
      /\ tagState # "default" =>
           \E s \in 1 .. at - 1, b \in 1 .. at :
             TagScanned(line, at, tagState, Len(tag), s, b)
  BY <1>2, <1>3, Zenon DEF IInv, Scanned
<1> QED
  BY <1>1, <1>2, <1>3, <1>4, <1>5, <1>6

LEMMA ThrowStep ==
  ASSUME IInv, Throw, ~WellFormed(line)
  PROVE  IInv'
<1>1. TypeOK'
  BY DEF IInv, TypeOK, Throw, scan
<1>2. Scanned'
  BY DEF IInv, Scanned, Throw, scan
<1>3. LinesAsInGrammar'
  BY DEF IInv, LinesAsInGrammar, Throw
<1>4. EventsAreClean'
  BY DEF IInv, EventsAreClean, Throw
<1> QED
  BY <1>1, <1>2, <1>3, <1>4 DEF IInv

\* The scanner passes a character that is no angle bracket.
LEMMA TextGrows ==
  ASSUME NEW l \in Seq(Char), NEW n \in 1 .. Len(l), Closed(l, n - 1),
         l[n] # "<", l[n] # ">"
  PROVE  /\ Closed(l, n)
         /\ l[n] # "sp" => Uncovered(l, n)
         /\ l[n] = "sp" /\ Covered(l, n - 1) => Covered(l, n)
         /\ Uncovered(l, n - 1) => Uncovered(l, n)
<1>0. Len(l) \in Nat /\ n \in Nat
  OBVIOUS
<1>1. Closed(l, n)
  <2>1. ASSUME NEW i \in 1 .. n, l[i] = "<"
        PROVE  \E j \in i + 1 .. n : IsTag(l, i, j)
    <3>1. i \in 1 .. n - 1
      BY <1>0, <2>1
    <3>2. PICK j \in i + 1 .. n - 1 : IsTag(l, i, j)
      BY <3>1, <2>1, Zenon DEF Closed
    <3>3. j \in i + 1 .. n
      BY <1>0
    <3> QED
      BY <3>2, <3>3, Zenon
  <2>2. ASSUME NEW i \in 1 .. n, l[i] = ">"
        PROVE  \E j \in 1 .. i - 1 : IsTag(l, j, i)
    <3>1. i \in 1 .. n - 1
      BY <1>0, <2>2
    <3> QED
      BY <3>1, <2>2, Zenon DEF Closed
  <2> QED
    BY <2>1, <2>2, Zenon DEF Closed
<1>2. l[n] # "sp" => Uncovered(l, n)
  BY <1>0 DEF Uncovered
<1>3. l[n] = "sp" /\ Covered(l, n - 1) => Covered(l, n)
  BY <1>0 DEF Covered
<1>4. Uncovered(l, n - 1) => Uncovered(l, n)
  BY <1>0 DEF Uncovered
<1> QED
  BY <1>1, <1>2, <1>3, <1>4

\* The scanner passes the end of a tag.
LEMMA TagCloses ==
  ASSUME NEW l \in Seq(Char), NEW n \in 1 .. Len(l), NEW ts \in TagState,
         NEW m \in Nat \ {0}, NEW s \in 1 .. n - 1, NEW b \in 1 .. n,
         TagScanned(l, n, ts, m, s, b), l[n] = ">"
  PROVE  Closed(l, n) /\ Covered(l, n)
<1>0. Len(l) \in Nat /\ n \in Nat
  OBVIOUS
<1>1. IsTag(l, s, n)
  BY <1>0 DEF TagScanned, IsTag
<1>2. \A i \in s + 1 .. n - 1 : l[i] # "<" /\ l[i] # ">"
  <2>1. b = s + 1 \/ (b = s + 2 /\ l[s + 1] = "/")
    BY DEF TagScanned
  <2>2. \A k \in b .. n - 1 : l[k] = "x"
    BY DEF TagScanned
  <2> QED
    BY <1>0, <2>1, <2>2
<1>3. l[s] = "<" /\ Closed(l, s - 1)
  BY DEF TagScanned
<1>4. ASSUME NEW i \in 1 .. n, l[i] = "<"
      PROVE  \E j \in i + 1 .. n : IsTag(l, i, j)
  <2>1. CASE i = s
    <3>1. n \in s + 1 .. n
      BY <1>0
    <3> QED
      BY <1>1, <2>1, <3>1, Zenon
  <2>2. CASE i # s
    <3>1. i \in 1 .. s - 1
      BY <1>0, <1>2, <1>4, <2>2
    <3>2. PICK j \in i + 1 .. s - 1 : IsTag(l, i, j)
      BY <1>3, <1>4, <3>1, Zenon DEF Closed
    <3>3. j \in i + 1 .. n
      BY <1>0
    <3> QED
      BY <3>2, <3>3, Zenon
  <2> QED
    BY <2>1, <2>2
<1>5. ASSUME NEW i \in 1 .. n, l[i] = ">"
      PROVE  \E j \in 1 .. i - 1 : IsTag(l, j, i)
  <2>1. CASE i = n
    <3>1. s \in 1 .. i - 1
      BY <1>0, <2>1
    <3> QED
      BY <1>1, <2>1, <3>1, Zenon
  <2>2. CASE i # n
    <3>1. i \in 1 .. s - 1
      BY <1>0, <1>2, <1>3, <1>5, <2>2
    <3> QED
      BY <1>3, <1>5, <3>1, Zenon DEF Closed
  <2> QED
    BY <2>1, <2>2
<1>6. Covered(l, n)
  BY <1>0 DEF Covered
<1> QED
  BY <1>4, <1>5, <1>6, Zenon DEF Closed

LEMMA AddToTextStep ==
  ASSUME IInv, AddToText, tagState = "default",
         NEW c \in {"sp", "/", "x"}, Scanning(c)
  PROVE  IInv'
<1>1. /\ outcome = "running" /\ state = "opened"
      /\ line \in Seq(Char) /\ Len(line) \in Nat
      /\ at \in 1 .. Len(line) /\ at \in Nat /\ at > 0
      /\ line[at] = c /\ line[at] \in Char
      /\ tag = <<>> /\ attrib \in Seq(Char)
  BY InLine
<1>2. TextScanned
  BY InLine
<1>3. /\ attrib' = Append(attrib, c) /\ at' = at + 1
      /\ line' = line /\ tagState' = tagState /\ tag' = tag
      /\ state' = state /\ events' = events /\ outcome' = outcome
      /\ lines' = lines
  BY <1>1 DEF AddToText
<1>4. TypeOK'
  <2>1. at' \in 0 .. Len(line') + 1 /\ attrib' \in Seq(Char)
    BY <1>1, <1>3
  <2> QED
    BY <1>1, <1>3, <2>1 DEF IInv, TypeOK
<1>5. Scanned'
  <2>1. at' - 1 = at
    BY <1>1, <1>3
  <2>2. /\ Closed(line, at)
        /\ c # "sp" => Uncovered(line, at)
        /\ c = "sp" /\ Covered(line, at - 1) => Covered(line, at)
        /\ Uncovered(line, at - 1) => Uncovered(line, at)
    BY <1>1, <1>2, TextGrows DEF TextScanned
  <2>3. Blank(attrib') <=> Blank(attrib) /\ c = "sp"
    BY <1>1, <1>3 DEF Blank
  <2>4. Blank(attrib') => Covered(line, at)
    BY <1>2, <2>2, <2>3, Zenon DEF TextScanned
  <2>5. ~Blank(attrib') => Uncovered(line, at)
    BY <1>2, <2>2, <2>3, Zenon DEF TextScanned
  <2>6. TextScanned'
    BY <1>3, <2>1, <2>2, <2>4, <2>5 DEF TextScanned
  <2> QED
    BY <1>1, <1>3, <2>6 DEF Scanned
<1>6. LinesAsInGrammar'
  BY <1>1, <1>3 DEF IInv, LinesAsInGrammar
<1>7. EventsAreClean'
  BY <1>3 DEF IInv, EventsAreClean
<1> QED
  BY <1>4, <1>5, <1>6, <1>7 DEF IInv

LEMMA EventAppended ==
  ASSUME EventsAreClean, events \in Seq(Event), NEW e \in Event,
         events' = Append(events, e), e.str # <<>>,
         e.kind # "text" => \A k \in 1 .. Len(e.str) : e.str[k] = "x",
         e.kind = "text" => e.str[1] # "sp" /\ e.str[Len(e.str)] # "sp"
  PROVE  EventsAreClean' /\ events' \in Seq(Event)
<1>1. /\ events' \in Seq(Event)
      /\ Len(events) \in Nat
      /\ Len(events') = Len(events) + 1
      /\ events'[Len(events) + 1] = e
      /\ \A i \in 1 .. Len(events) : events'[i] = events[i]
  BY AppendProperties
<1>2. SUFFICES ASSUME NEW i \in 1 .. Len(events')
               PROVE  /\ events'[i].str # <<>>
                      /\ events'[i].kind # "text" =>
                           \A k \in 1 .. Len(events'[i].str) : events'[i].str[k] = "x"
                      /\ events'[i].kind = "text" =>
                           /\ events'[i].str[1] # "sp"
                           /\ events'[i].str[Len(events'[i].str)] # "sp"
  BY <1>1, Zenon DEF EventsAreClean
<1>3. CASE i = Len(events) + 1
  BY <1>1, <1>3, Zenon
<1>4. CASE i # Len(events) + 1
  <2>1. i \in 1 .. Len(events)
    BY <1>1, <1>4
  <2>2. events'[i] = events[i]
    BY <1>1, <2>1
  <2> QED
    BY <2>1, <2>2, Zenon DEF EventsAreClean
<1> QED
  BY <1>3, <1>4

LEMMA BlankStep ==
  ASSUME IInv, ScanBlank
  PROVE  IInv'
<1>1. CASE tagState = "default"
  BY <1>1, AddToTextStep DEF ScanBlank
<1>2. CASE tagState # "default"
  <2>1. PICK s \in 1 .. at - 1, b \in 1 .. at :
          TagScanned(line, at, tagState, Len(tag), s, b)
    BY <1>2, InLine DEF ScanBlank
  <2>2. ~WellFormed(line)
    BY <2>1, InLine, BrokenTag DEF ScanBlank
  <2> QED
    BY <1>2, <2>2, ThrowStep DEF ScanBlank
<1> QED
  BY <1>1, <1>2

LEMMA OtherStep ==
  ASSUME IInv, ScanOther
  PROVE  IInv'
<1>1. CASE tagState = "default"
  BY <1>1, AddToTextStep DEF ScanOther
<1>2. CASE tagState # "default"
  <2>1. /\ outcome = "running" /\ state = "opened"
        /\ line \in Seq(Char) /\ Len(line) \in Nat
        /\ at \in 1 .. Len(line) /\ at \in Nat /\ at > 0
        /\ line[at] = "x"
        /\ tag \in Seq(Char) /\ Len(tag) \in Nat /\ tagState \in TagState
    BY InLine DEF ScanOther
  <2>2. PICK s \in 1 .. at - 1, b \in 1 .. at :
          TagScanned(line, at, tagState, Len(tag), s, b)
    BY <1>2, InLine DEF ScanOther
  <2>3. /\ tag' = Append(tag, "x") /\ at' = at + 1
        /\ line' = line /\ tagState' = tagState /\ attrib' = attrib
        /\ state' = state /\ events' = events /\ outcome' = outcome
        /\ lines' = lines
    BY <1>2, <2>1 DEF ScanOther
  <2>4. /\ tag' \in Seq(Char) /\ Len(tag') = Len(tag) + 1
        /\ \A k \in 1 .. Len(tag) : tag'[k] = tag[k]
        /\ tag'[Len(tag) + 1] = "x"
    <3>1. "x" \in Char
      BY DEF Char
    <3> QED
      BY <2>1, <2>3, <3>1, AppendProperties
  <2>5. TypeOK'
    <3>1. at' \in 0 .. Len(line') + 1
      BY <2>1, <2>3
    <3> QED
      BY <2>1, <2>3, <2>4, <3>1 DEF IInv, TypeOK
  <2>6. Scanned'
    <3>1. TagScanned(line, at + 1, tagState, Len(tag) + 1, s, b)
      BY <2>1, <2>2 DEF TagScanned
    <3>2. s \in 1 .. at' - 1 /\ b \in 1 .. at'
      BY <2>1, <2>3
    <3>3. \A k \in 1 .. Len(tag') : tag'[k] = "x"
      BY <2>1, <2>4 DEF IInv, Scanned
    <3>4. TagScanned(line', at', tagState', Len(tag'), s, b)
      BY <2>3, <2>4, <3>1
    <3> QED
      BY <1>2, <2>3, <3>2, <3>3, <3>4 DEF IInv, Scanned
  <2>7. LinesAsInGrammar' /\ EventsAreClean'
    BY <2>1, <2>3 DEF IInv, LinesAsInGrammar, EventsAreClean
  <2> QED
    BY <2>5, <2>6, <2>7 DEF IInv
<1> QED
  BY <1>1, <1>2

LEMMA SlashStep ==
  ASSUME IInv, ScanSlash
  PROVE  IInv'
<1>0. /\ outcome = "running" /\ state = "opened"
      /\ line \in Seq(Char) /\ Len(line) \in Nat
      /\ at \in 1 .. Len(line) /\ at \in Nat /\ at > 0
      /\ line[at] = "/"
      /\ tag \in Seq(Char) /\ Len(tag) \in Nat /\ tagState \in TagState
  BY InLine DEF ScanSlash
<1>1. CASE tagState = "default"
  <2>1. AddToText
    BY <1>1 DEF ScanSlash
  <2> QED
    BY <1>1, <2>1, AddToTextStep DEF ScanSlash
<1>2. CASE tagState # "default"
  <2>1. PICK s \in 1 .. at - 1, b \in 1 .. at :
          TagScanned(line, at, tagState, Len(tag), s, b)
    BY <1>2, InLine DEF ScanSlash
  <2>2. at > 1
    BY <1>0, <2>1
  <2>3. CASE line[at - 1] = "<" /\ tagState = "opentag"
    <3>1. /\ tagState' = "closetag" /\ at' = at + 1
          /\ line' = line /\ tag' = tag /\ attrib' = attrib
          /\ state' = state /\ events' = events /\ outcome' = outcome
          /\ lines' = lines
      BY <2>2, <2>3 DEF ScanSlash
    <3>2. TypeOK'
      <4>1. at' \in 0 .. Len(line') + 1 /\ tagState' \in TagState
        BY <1>0, <3>1 DEF TagState
      <4> QED
        BY <1>0, <3>1, <4>1 DEF IInv, TypeOK
    <3>3. /\ s = at - 1 /\ b = at /\ Len(tag) = 0
          /\ line[s] = "<" /\ Closed(line, s - 1)
      BY <1>0, <2>1, <2>3 DEF TagScanned
    <3>4. TagScanned(line, at + 1, "closetag", Len(tag), s, at + 1)
      BY <1>0, <3>3 DEF TagScanned
    <3>5. TagScanned(line', at', tagState', Len(tag'), s, at + 1)
      BY <3>1, <3>4
    <3>6. s \in 1 .. at' - 1 /\ at + 1 \in 1 .. at'
      BY <1>0, <3>1
    <3>7. Scanned'
      BY <1>2, <3>1, <3>5, <3>6 DEF IInv, Scanned
    <3>8. LinesAsInGrammar' /\ EventsAreClean'
      BY <1>0, <3>1 DEF IInv, LinesAsInGrammar, EventsAreClean
    <3> QED
      BY <3>2, <3>7, <3>8 DEF IInv
  <2>4. CASE ~(line[at - 1] = "<" /\ tagState = "opentag")
    <3>1. ~WellFormed(line)
      BY <1>0, <2>1, <2>4, BrokenTag
    <3>2. Throw
      BY <1>2, <2>4 DEF ScanSlash
    <3> QED
      BY <3>1, <3>2, ThrowStep
  <2> QED
    BY <2>3, <2>4
<1> QED
  BY <1>1, <1>2

LEMMA LessStep ==
  ASSUME IInv, ScanLess
  PROVE  IInv'
<1>0. /\ outcome = "running" /\ state = "opened"
      /\ line \in Seq(Char) /\ Len(line) \in Nat
      /\ at \in 1 .. Len(line) /\ at \in Nat /\ at > 0
      /\ line[at] = "<"
      /\ tag \in Seq(Char) /\ attrib \in Seq(Char) /\ tagState \in TagState
  BY InLine DEF ScanLess
<1>1. CASE tagState = "default"
  <2>1. /\ tagState' = "opentag" /\ at' = at + 1 /\ attrib' = <<>>
        /\ events' = IF Blank(attrib) THEN events
                     ELSE Append(events, [kind |-> "text", str |-> Trim(attrib)])
        /\ line' = line /\ tag' = tag
        /\ state' = state /\ outcome' = outcome /\ lines' = lines
    BY <1>1 DEF ScanLess
  <2>2. EventsAreClean' /\ events' \in Seq(Event)
    <3>1. CASE Blank(attrib)
      BY <2>1, <3>1 DEF IInv, TypeOK, EventsAreClean
    <3>2. CASE ~Blank(attrib)
      <4> DEFINE e == [kind |-> "text", str |-> Trim(attrib)]
      <4>1. /\ e \in Event /\ e.str # <<>> /\ e.kind = "text"
            /\ e.str[1] # "sp" /\ e.str[Len(e.str)] # "sp"
        BY <1>0, <3>2, TrimIsClean DEF Event
      <4>2. events' = Append(events, e)
        BY <2>1, <3>2
      <4>3. EventsAreClean /\ events \in Seq(Event)
        BY DEF IInv, TypeOK
      <4> HIDE DEF e
      <4> QED
        BY <4>1, <4>2, <4>3, EventAppended
    <3> QED
      BY <3>1, <3>2
  <2>3. TypeOK'
    <3>1. /\ at' \in 0 .. Len(line') + 1 /\ tagState' \in TagState
          /\ attrib' \in Seq(Char)
      BY <1>0, <2>1 DEF TagState
    <3> QED
      BY <1>0, <2>1, <2>2, <3>1 DEF IInv, TypeOK
  <2>4. Scanned'
    <3>1. tag = <<>> /\ Closed(line, at - 1)
      BY <1>1, InLine DEF ScanLess, TextScanned
    <3>2. TagScanned(line, at + 1, "opentag", 0, at, at + 1)
      BY <1>0, <3>1 DEF TagScanned
    <3>3. TagScanned(line', at', tagState', Len(tag'), at, at + 1)
      <4>1. Len(tag') = 0
        BY <2>1, <3>1
      <4> QED
        BY <2>1, <3>2, <4>1
    <3>4. at \in 1 .. at' - 1 /\ at + 1 \in 1 .. at'
      BY <1>0, <2>1
    <3> QED
      BY <2>1, <3>1, <3>3, <3>4 DEF Scanned
  <2>5. LinesAsInGrammar'
    BY <1>0, <2>1 DEF IInv, LinesAsInGrammar
  <2> QED
    BY <2>2, <2>3, <2>4, <2>5 DEF IInv
<1>2. CASE tagState # "default"
  <2>1. PICK s \in 1 .. at - 1, b \in 1 .. at :
          TagScanned(line, at, tagState, Len(tag), s, b)
    BY <1>2, InLine DEF ScanLess
  <2>2. ~WellFormed(line)
    BY <1>0, <2>1, BrokenTag
  <2> QED
    BY <1>2, <2>2, ThrowStep DEF ScanLess
<1> QED
  BY <1>1, <1>2

LEMMA GreaterStep ==
  ASSUME IInv, ScanGreater
  PROVE  IInv'
<1>0. /\ outcome = "running" /\ state = "opened"
      /\ line \in Seq(Char) /\ Len(line) \in Nat
      /\ at \in 1 .. Len(line) /\ at \in Nat /\ at > 0
      /\ line[at] = ">"
      /\ tag \in Seq(Char) /\ Len(tag) \in Nat /\ tagState \in TagState
  BY InLine DEF ScanGreater
<1>1. CASE tagState = "default"
  <2>1. Closed(line, at - 1)
    BY <1>1, InLine DEF ScanGreater, TextScanned
  <2>2. ~WellFormed(line)
    BY <1>0, <2>1, StrayGreater
  <2> QED
    BY <1>1, <2>2, ThrowStep DEF ScanGreater
<1>2. CASE tagState # "default" /\ tag = <<>>
  <2>1. PICK s \in 1 .. at - 1, b \in 1 .. at :
          TagScanned(line, at, tagState, Len(tag), s, b)
    BY <1>2, InLine DEF ScanGreater
  <2>2. Len(tag) = 0
    BY <1>2
  <2>3. ~WellFormed(line)
    BY <1>0, <2>1, <2>2, EmptyTag
  <2> QED
    BY <1>2, <2>3, ThrowStep DEF ScanGreater
<1>3. CASE tagState # "default" /\ tag # <<>>
  <2>1. PICK s \in 1 .. at - 1, b \in 1 .. at :
          TagScanned(line, at, tagState, Len(tag), s, b)
    BY <1>3, InLine DEF ScanGreater
  <2> DEFINE e == [kind |-> IF tagState = "opentag" THEN "open" ELSE "close",
                   str |-> tag]
  <2>2. /\ events' = Append(events, e)
        /\ tagState' = "default" /\ at' = at + 1 /\ tag' = <<>>
        /\ line' = line /\ attrib' = attrib
        /\ state' = state /\ outcome' = outcome /\ lines' = lines
    BY <1>3 DEF ScanGreater
  <2>3. EventsAreClean' /\ events' \in Seq(Event)
    <3>1. e \in Event /\ e.str = tag /\ e.kind # "text"
      BY <1>0 DEF Event
    <3>2. \A k \in 1 .. Len(tag) : tag[k] = "x"
      BY DEF IInv, Scanned
    <3>3. EventsAreClean /\ events \in Seq(Event)
      BY DEF IInv, TypeOK
    <3> HIDE DEF e
    <3> QED
      BY <1>3, <2>2, <3>1, <3>2, <3>3, EventAppended
  <2>4. TypeOK'
    <3>1. /\ at' \in 0 .. Len(line') + 1 /\ tagState' \in TagState
          /\ tag' \in Seq(Char)
      BY <1>0, <2>2 DEF TagState
    <3> QED
      BY <1>0, <2>2, <2>3, <3>1 DEF IInv, TypeOK
  <2>5. Scanned'
    <3>1. Len(tag) \in Nat \ {0}
      BY <1>0, <1>3, EmptySeq
    <3>2. Closed(line, at) /\ Covered(line, at)
      BY <1>0, <2>1, <3>1, TagCloses
    <3>3. attrib = <<>>
      BY <1>3 DEF IInv, Scanned
    <3>4. Blank(attrib')
      BY <2>2, <3>3 DEF Blank
    <3>5. at' - 1 = at
      BY <1>0, <2>2
    <3>6. TextScanned'
      BY <2>2, <3>2, <3>4, <3>5 DEF TextScanned
    <3> QED
      BY <2>2, <3>6 DEF Scanned
  <2>6. LinesAsInGrammar'
    BY <1>0, <2>2 DEF IInv, LinesAsInGrammar
  <2> QED
    BY <2>3, <2>4, <2>5, <2>6 DEF IInv
<1> QED
  BY <1>1, <1>2, <1>3

LEMMA EndOfLineStep ==
  ASSUME IInv, EndOfLine
  PROVE  IInv'
<1>0. /\ outcome = "running" /\ at = Len(line) + 1
      /\ Len(line) \in Nat /\ at \in Nat /\ tagState \in TagState
  BY ScannerTyped DEF EndOfLine
<1>1. at > 0 /\ at - 1 = Len(line)
  BY <1>0
<1>2. line \in Seq(Char) /\ state = "opened" /\ Len(tag) \in Nat
  BY <1>1 DEF IInv, TypeOK
<1>3. CASE tagState = "default" /\ Blank(attrib)
  <2>1. TextScanned
    BY <1>0, <1>1, <1>3 DEF IInv, Scanned
  <2>2. WellFormed(line)
    BY <1>1, <1>2, <1>3, <2>1, FinishedLine DEF TextScanned
  <2>3. /\ lines' = Append(lines, line) /\ line' = <<>> /\ at' = 0
        /\ attrib' = <<>> /\ state' = state /\ tagState' = tagState
        /\ tag' = tag /\ events' = events /\ outcome' = outcome
    BY <1>3 DEF EndOfLine
  <2>4. lines \in Seq(Seq(Char))
    BY DEF IInv, TypeOK
  <2>5. /\ lines' \in Seq(Seq(Char)) /\ Len(lines) \in Nat
        /\ Len(lines') = Len(lines) + 1 /\ lines'[Len(lines) + 1] = line
        /\ \A i \in 1 .. Len(lines) : lines'[i] = lines[i]
    BY <1>2, <2>3, <2>4, AppendProperties
  <2>6. TypeOK'
    <3>1. line' \in Seq(Char) /\ attrib' \in Seq(Char) /\ at' \in 0 .. Len(line') + 1
      BY <2>3
    <3> QED
      BY <1>2, <2>3, <2>5, <3>1 DEF IInv, TypeOK
  <2>7. Scanned'
    BY <1>3, <2>3 DEF IInv, Scanned
  <2>8. LinesAsInGrammar'
    <3>1. SUFFICES ASSUME NEW i \in 1 .. Len(lines') PROVE WellFormed(lines'[i])
      BY <1>0, <2>3, Zenon DEF LinesAsInGrammar
    <3>2. CASE i = Len(lines) + 1
      BY <2>2, <2>5, <3>2
    <3>3. CASE i # Len(lines) + 1
      <4>1. i \in 1 .. Len(lines)
        BY <2>5, <3>3
      <4> QED
        BY <2>5, <4>1 DEF IInv, LinesAsInGrammar
    <3> QED
      BY <3>2, <3>3
  <2>9. EventsAreClean'
    BY <2>3 DEF IInv, EventsAreClean
  <2> QED
    BY <2>6, <2>7, <2>8, <2>9 DEF IInv
<1>4. CASE ~(tagState = "default" /\ Blank(attrib))
  <2>1. ~WellFormed(line)
    <3>1. CASE tagState # "default"
      <4>1. PICK s \in 1 .. at - 1, b \in 1 .. at :
              TagScanned(line, at, tagState, Len(tag), s, b)
        BY <1>0, <1>1, <3>1 DEF IInv, Scanned
      <4>2. /\ s \in 1 .. Len(line) /\ b \in 1 .. Len(line) + 1
            /\ TagScanned(line, Len(line) + 1, tagState, Len(tag), s, b)
        BY <1>0, <1>1, <4>1
      <4> QED
        BY <1>0, <1>2, <4>2, UnfinishedTag
    <3>2. CASE tagState = "default"
      <4>1. TextScanned
        BY <1>0, <1>1, <3>2 DEF IInv, Scanned
      <4>2. Uncovered(line, Len(line))
        BY <1>1, <1>4, <3>2, <4>1 DEF TextScanned
      <4> QED
        BY <1>2, <4>2, UnfinishedText
    <3> QED
      BY <3>1, <3>2
  <2>2. Throw
    BY <1>4 DEF EndOfLine
  <2> QED
    BY <2>1, <2>2, ThrowStep
<1> QED
  BY <1>3, <1>4

LEMMA ReadCharStep ==
  ASSUME IInv, NEW c \in Char, ReadChar(c)
  PROVE  IInv'
<1>1. /\ state = "opened" /\ outcome = "running" /\ at = 0
      /\ line' = Append(line, c) /\ state' = state /\ at' = at
      /\ tagState' = tagState /\ tag' = tag /\ attrib' = attrib
      /\ events' = events /\ outcome' = outcome /\ lines' = lines
  BY DEF ReadChar, Reading, scan
<1>2. line \in Seq(Char)
  BY <1>1 DEF IInv, TypeOK
<1>3. line' \in Seq(Char) /\ at' \in 0 .. Len(line') + 1
  BY <1>1, <1>2
<1>4. TypeOK'
  BY <1>1, <1>3 DEF IInv, TypeOK
<1>5. Scanned'
  BY <1>1 DEF IInv, Scanned
<1>6. LinesAsInGrammar' /\ EventsAreClean'
  BY <1>1 DEF IInv, LinesAsInGrammar, EventsAreClean
<1> QED
  BY <1>4, <1>5, <1>6 DEF IInv

LEMMA ReadNewlineStep ==
  ASSUME IInv, ReadNewline
  PROVE  IInv'
<1>1. /\ state = "opened" /\ outcome = "running" /\ at = 0
      /\ line' = line /\ state' = state /\ at' = 1
      /\ tagState' = "default" /\ tag' = <<>> /\ attrib' = <<>>
      /\ events' = events /\ outcome' = outcome /\ lines' = lines
  BY DEF ReadNewline, Reading
<1>2. Len(line) \in Nat
  BY ScannerTyped
<1>3. TypeOK'
  <2>1. /\ at' \in 0 .. Len(line') + 1 /\ tagState' \in TagState
        /\ tag' \in Seq(Char) /\ attrib' \in Seq(Char)
    BY <1>1, <1>2 DEF TagState
  <2> QED
    BY <1>1, <2>1 DEF IInv, TypeOK
<1>4. Scanned'
  <2>1. at' - 1 = 0 /\ Blank(attrib')
    BY <1>1 DEF Blank
  <2>2. Closed(line', 0) /\ Covered(line', 0)
    BY DEF Closed, Covered
  <2>3. TextScanned'
    BY <2>1, <2>2 DEF TextScanned
  <2> QED
    BY <1>1, <2>3 DEF Scanned
<1>5. LinesAsInGrammar' /\ EventsAreClean'
  BY <1>1 DEF IInv, LinesAsInGrammar, EventsAreClean
<1> QED
  BY <1>3, <1>4, <1>5 DEF IInv

LEMMA OpenStep ==
  ASSUME IInv, state = "closed", NEW header \in Headers,
         Open(header) \/ OpenUnterminated(header)
  PROVE  IInv'
<1>1. at = 0
  <2>1. at \in 0 .. Len(line) + 1 /\ (at > 0 => state = "opened")
    BY DEF IInv, TypeOK
  <2>2. Len(line) \in Nat
    BY ScannerTyped
  <2> QED
    BY <2>1, <2>2
<1>2. /\ at' = at /\ tagState' = tagState /\ tag' = tag /\ attrib' = attrib
      /\ events' = events /\ lines' = lines
      /\ outcome' # "aborted"
  BY DEF Open, OpenUnterminated, ParseXmlHeader, scan
<1>3. TypeOK'
  <2>1. CASE Open(header)
    <3>1. /\ line' = line /\ state' \in {"opened", "closed"}
          /\ outcome' \in {"running", "illegal", "refused"}
          /\ state' = "opened" => outcome' = "running"
      BY <2>1 DEF Open, ParseXmlHeader
    <3>2. line \in Seq(Char)
      BY DEF IInv, TypeOK
    <3> QED
      BY <1>1, <1>2, <3>1, <3>2 DEF IInv, TypeOK, State
  <2>2. CASE OpenUnterminated(header)
    <3>1. line' = header /\ state' = "paused" /\ outcome' = "done"
      BY <2>2 DEF OpenUnterminated
    <3>2. header \in Seq(HeaderPiece) /\ Len(header) \in Nat
      <4>1. PICK n \in 0 .. MaxHeader : header \in [1 .. n -> HeaderPiece]
        BY DEF Headers
      <4>2. n \in Nat
        BY ParserAssumption
      <4> QED
        BY <4>1, <4>2
    <3>3. at' \in 0 .. Len(line') + 1
      BY <1>1, <1>2, <3>1, <3>2
    <3> QED
      BY <1>1, <1>2, <3>1, <3>2, <3>3 DEF IInv, TypeOK, State
  <2> QED
    BY <2>1, <2>2
<1>4. Scanned'
  BY <1>1, <1>2 DEF IInv, Scanned
<1>5. LinesAsInGrammar' /\ EventsAreClean'
  BY <1>2 DEF IInv, LinesAsInGrammar, EventsAreClean
<1> QED
  BY <1>3, <1>4, <1>5 DEF IInv

LEMMA EndOfStreamStep ==
  ASSUME IInv, EndOfStream
  PROVE  IInv'
<1>1. /\ at = 0 /\ at' = at /\ state' = "paused" /\ outcome' = "done"
      /\ line' = line /\ tagState' = tagState /\ tag' = tag
      /\ attrib' = attrib /\ events' = events /\ lines' = lines
  BY DEF EndOfStream, Reading, scan
<1>2. TypeOK'
  BY <1>1 DEF IInv, TypeOK, State
<1>3. Scanned'
  BY <1>1 DEF IInv, Scanned
<1>4. LinesAsInGrammar' /\ EventsAreClean'
  BY <1>1 DEF IInv, LinesAsInGrammar, EventsAreClean
<1> QED
  BY <1>2, <1>3, <1>4 DEF IInv

LEMMA Inductive == Spec => []IInv
<1>1. Init => IInv
  <2>1. ASSUME Init PROVE IInv
    <3>1. TypeOK
      BY <2>1 DEF Init, TypeOK, State, TagState
    <3>2. Scanned /\ LinesAsInGrammar /\ EventsAreClean
      BY <2>1 DEF Init, Scanned, LinesAsInGrammar, EventsAreClean
    <3> QED
      BY <3>1, <3>2 DEF IInv
  <2> QED
    BY <2>1
<1>2. IInv /\ [Next]_vars => IInv'
  <2> SUFFICES ASSUME IInv, [Next]_vars PROVE IInv'
    OBVIOUS
  <2>1. ASSUME NEW header \in Headers, state = "closed",
               Open(header) \/ OpenUnterminated(header)
        PROVE  IInv'
    BY <2>1, OpenStep
  <2>2. ASSUME NEW c \in Char, ReadChar(c) PROVE IInv'
    BY <2>2, ReadCharStep
  <2>3. CASE ReadNewline
    BY <2>3, ReadNewlineStep
  <2>4. CASE EndOfStream
    BY <2>4, EndOfStreamStep
  <2>5. CASE ScanBlank
    BY <2>5, BlankStep
  <2>6. CASE ScanLess
    BY <2>6, LessStep
  <2>7. CASE ScanSlash
    BY <2>7, SlashStep
  <2>8. CASE ScanGreater
    BY <2>8, GreaterStep
  <2>9. CASE ScanOther
    BY <2>9, OtherStep
  <2>10. CASE EndOfLine
    BY <2>10, EndOfLineStep
  <2>11. CASE UNCHANGED vars
    BY <2>11 DEF vars, scan, IInv, TypeOK, Scanned, TextScanned,
                 LinesAsInGrammar, EventsAreClean
  <2> QED
    BY <2>1, <2>2, <2>3, <2>4, <2>5, <2>6, <2>7, <2>8, <2>9, <2>10, <2>11
       DEF Next
<1> QED
  BY <1>1, <1>2, PTL DEF Spec

-------------------------------------------------------------------------------
(* What the builder was told is what the scanner passed. *)

\* Everything told, written out.
Told == Concat([i \in 1 .. Len(events) |-> AsText(events[i])])

\* The part of the line that is scanned.
Passed == SubSeq(line, 1, at - 1)

TextInv ==
  /\ at = 0 => tagState = "default" /\ attrib = <<>>
  /\ Squeezed(Told \o Pending) = Squeezed(Concat(lines) \o Passed)

LEMMA SqueezedConcat ==
  ASSUME NEW s \in Seq(Char), NEW t \in Seq(Char)
  PROVE  Squeezed(s \o t) = Squeezed(s) \o Squeezed(t)
BY WithoutConcat DEF Squeezed

LEMMA SqueezedAppend ==
  ASSUME NEW s \in Seq(Char), NEW c \in Char
  PROVE  /\ Squeezed(s) \in Seq(Char)
         /\ c = "sp" => Squeezed(Append(s, c)) = Squeezed(s)
         /\ c # "sp" => Squeezed(Append(s, c)) = Append(Squeezed(s), c)
<1>1. WithoutGrows(Char, "sp", s, c)
  BY WithoutAppend
<1>2. Squeezed(s) \in Seq(Char \ {"sp"})
  BY <1>1 DEF WithoutGrows, Squeezed
<1>3. Squeezed(s) \in Seq(Char)
  <2>1. \A i \in 1 .. Len(Squeezed(s)) : Squeezed(s)[i] \in Char
    BY <1>2, ElementOfSeq
  <2> QED BY <1>2, <2>1, IsASeq
<1> QED BY <1>1, <1>3 DEF WithoutGrows, Squeezed

\* The same character behind two texts that are alike but for blanks.
LEMMA BothGrow ==
  ASSUME NEW s \in Seq(Char), NEW t \in Seq(Char),
         NEW u \in Seq(Char), NEW v \in Seq(Char), NEW c \in Char,
         Squeezed(s \o t) = Squeezed(u \o v)
  PROVE  Squeezed(s \o Append(t, c)) = Squeezed(u \o Append(v, c))
<1>1. s \o t \in Seq(Char) /\ u \o v \in Seq(Char)
  BY ConcatProperties
<1>2. s \o Append(t, c) = Append(s \o t, c) /\ u \o Append(v, c) = Append(u \o v, c)
  BY ConcatOfAppend
<1>3. /\ c = "sp" => Squeezed(Append(s \o t, c)) = Squeezed(s \o t)
      /\ c # "sp" => Squeezed(Append(s \o t, c)) = Append(Squeezed(s \o t), c)
  BY <1>1, SqueezedAppend
<1>4. /\ c = "sp" => Squeezed(Append(u \o v, c)) = Squeezed(u \o v)
      /\ c # "sp" => Squeezed(Append(u \o v, c)) = Append(Squeezed(u \o v), c)
  BY <1>1, SqueezedAppend
<1> QED BY <1>2, <1>3, <1>4

LEMMA AsTextType == ASSUME NEW e \in Event PROVE AsText(e) \in Seq(Char)
<1>1. /\ e.kind \in {"open", "close", "text"} /\ e.str \in Seq(Char)
      /\ <<">">> \in Seq(Char) /\ <<"<">> \in Seq(Char) /\ <<"<", "/">> \in Seq(Char)
  BY DEF Event, Char
<1>2. e.kind # "text" => Mark[e.kind] \in Seq(Char)
  <2>1. Mark["open"] = <<"<">> /\ Mark["close"] = <<"<", "/">>
    BY DEF Mark
  <2> QED BY <1>1, <2>1
<1>3. e.kind # "text" => Mark[e.kind] \o e.str \o <<">">> \in Seq(Char)
  BY <1>1, <1>2, ConcatProperties
<1> QED BY <1>1, <1>3 DEF AsText

\* One event more.
LEMMA ToldGrows ==
  ASSUME events \in Seq(Event), NEW e \in Event, events' = Append(events, e)
  PROVE  Told \in Seq(Char) /\ Told' = Told \o AsText(e)
<1> DEFINE texts == [i \in 1 .. Len(events) |-> AsText(events[i])]
           more == [i \in 1 .. Len(events') |-> AsText(events'[i])]
<1>1. /\ Len(events) \in Nat /\ Len(events') = Len(events) + 1
      /\ \A i \in 1 .. Len(events) : events'[i] = events[i] /\ events[i] \in Event
      /\ events'[Len(events) + 1] = e
  BY AppendProperties, ElementOfSeq
<1>2. texts \in Seq(Seq(Char)) /\ Len(texts) = Len(events)
  <2>1. \A i \in 1 .. Len(events) : AsText(events[i]) \in Seq(Char)
    BY <1>1, AsTextType
  <2>2. texts \in [1 .. Len(events) -> Seq(Char)]
    BY <2>1
  <2> HIDE DEF texts
  <2> QED BY <1>1, <2>2
<1>3. more = Append(texts, AsText(e))
  <2>1. AsText(e) \in Seq(Char)
    BY AsTextType
  <2>2. more = [i \in 1 .. Len(events) + 1 |->
                  IF i <= Len(events) THEN texts[i] ELSE AsText(e)]
    <3> SUFFICES ASSUME NEW i \in 1 .. Len(events) + 1
                 PROVE  AsText(events'[i]) = IF i <= Len(events) THEN texts[i] ELSE AsText(e)
      BY <1>1
    <3>1. CASE i <= Len(events)
      BY <1>1, <3>1
    <3>2. CASE i = Len(events) + 1
      BY <1>1, <3>2
    <3> QED BY <1>1, <3>1, <3>2
  <2> DEFINE t == AsText(e)
  <2> HIDE DEF texts, more, t
  <2>3. /\ Append(texts, t) \in Seq(Seq(Char))
        /\ Len(Append(texts, t)) = Len(events) + 1
        /\ \A i \in 1 .. Len(texts) : Append(texts, t)[i] = texts[i]
        /\ Append(texts, t)[Len(texts) + 1] = t
    BY <1>2, <2>1, AppendProperties DEF t
  <2>4. /\ more \in Seq(Seq(Char)) /\ Len(more) = Len(events) + 1
        /\ \A i \in 1 .. Len(events) + 1 :
             more[i] = IF i <= Len(events) THEN texts[i] ELSE t
    <3>1. \A i \in 1 .. Len(events) : texts[i] \in Seq(Char)
      BY <1>2, ElementOfSeq
    <3>2. more \in [1 .. Len(events) + 1 -> Seq(Char)]
      BY <1>1, <2>1, <2>2, <3>1 DEF t
    <3> QED BY <1>1, <2>2, <3>2 DEF t
  <2>5. \A i \in 1 .. Len(events) + 1 : more[i] = Append(texts, t)[i]
    <3> SUFFICES ASSUME NEW i \in 1 .. Len(events) + 1
                 PROVE more[i] = Append(texts, t)[i]
      OBVIOUS
    <3>1. CASE i <= Len(events)
      BY <1>1, <1>2, <2>3, <2>4, <3>1
    <3>2. CASE i = Len(events) + 1
      BY <1>1, <1>2, <2>3, <2>4, <3>2
    <3>3. i <= Len(events) \/ i = Len(events) + 1
      BY <1>1
    <3> QED BY <3>1, <3>2, <3>3
  <2>6. more = Append(texts, t)
    BY <2>3, <2>4, <2>5, SeqEqual
  <2> QED BY <2>6 DEF t
<1>4. ConcatGrows(Char, texts, AsText(e))
  BY <1>2, AsTextType, ConcatAppend
<1>5. Told = Concat(texts) /\ Told' = Concat(more)
  BY DEF Told, AsText, Mark
<1> HIDE DEF texts, more
<1> QED BY <1>3, <1>4, <1>5 DEF ConcatGrows

LEMMA ToldType == ASSUME events \in Seq(Event) PROVE Told \in Seq(Char)
<1> DEFINE texts == [i \in 1 .. Len(events) |-> AsText(events[i])]
<1>1. texts \in Seq(Seq(Char))
  <2>1. \A i \in 1 .. Len(events) : AsText(events[i]) \in Seq(Char)
    BY AsTextType, ElementOfSeq
  <2>2. texts \in [1 .. Len(events) -> Seq(Char)] /\ Len(events) \in Nat
    BY <2>1
  <2> HIDE DEF texts
  <2> QED BY <2>2
<1>2. <<>> \in Seq(Char)
  BY EmptySeq
<1>3. ConcatGrows(Char, texts, <<>>)
  BY <1>1, <1>2, ConcatAppend
<1> QED BY <1>3 DEF ConcatGrows, Told

\* What is scanned but not told.
PendingForm ==
  /\ Pending \in Seq(Char)
  /\ tagState = "default" => Pending = attrib
  /\ tagState = "opentag" => Pending = <<"<">> \o tag
  /\ tagState = "closetag" => Pending = <<"<", "/">> \o tag

LEMMA PendingForms == IInv => PendingForm
<1> SUFFICES ASSUME IInv PROVE PendingForm
  OBVIOUS
<1>1. /\ tag \in Seq(Char) /\ attrib \in Seq(Char) /\ tagState \in TagState
      /\ tagState = "default" => tag = <<>>
      /\ tagState # "default" => attrib = <<>>
  BY DEF IInv, TypeOK, Scanned
<1>2. /\ <<>> \in Seq(Char) /\ <<"<">> \in Seq(Char) /\ <<"<", "/">> \in Seq(Char)
      /\ Mark["open"] = <<"<">> /\ Mark["close"] = <<"<", "/">>
  BY DEF Char, Mark
<1>3. CASE tagState = "default"
  <2>1. Pending = (<<>> \o tag) \o attrib
    BY <1>3 DEF Pending
  <2>2. Pending = attrib
    BY <1>1, <1>2, <1>3, <2>1, ConcatEmptySeq
  <2> QED BY <1>1, <1>3, <2>2 DEF PendingForm
<1>4. CASE tagState = "opentag"
  <2>1. Pending = (<<"<">> \o tag) \o attrib
    BY <1>2, <1>4 DEF Pending
  <2>2. <<"<">> \o tag \in Seq(Char)
    BY <1>1, <1>2, ConcatProperties
  <2>3. Pending = <<"<">> \o tag
    BY <1>1, <1>4, <2>1, <2>2, ConcatEmptySeq
  <2> QED BY <1>4, <2>2, <2>3 DEF PendingForm
<1>5. CASE tagState = "closetag"
  <2>1. Pending = (<<"<", "/">> \o tag) \o attrib
    BY <1>2, <1>5 DEF Pending
  <2>2. <<"<", "/">> \o tag \in Seq(Char)
    BY <1>1, <1>2, ConcatProperties
  <2>3. Pending = <<"<", "/">> \o tag
    BY <1>1, <1>5, <2>1, <2>2, ConcatEmptySeq
  <2> QED BY <1>5, <2>2, <2>3 DEF PendingForm
<1> QED BY <1>1, <1>3, <1>4, <1>5 DEF TagState, PendingForm

LEMMA PendingFormsNext == IInv' => PendingForm'
BY PendingForms, PTL

LEMMA PassedForms ==
  ASSUME IInv
  PROVE  /\ Passed \in Seq(Char)
         /\ at = 0 => Passed = <<>>
         /\ Concat(lines) \in Seq(Char)
<1>1. Len(line) \in Nat /\ at \in 0 .. Len(line) + 1 /\ (at > 0 => line \in Seq(Char))
  BY ScannerTyped DEF IInv, TypeOK
<1>2. Concat(lines) \in Seq(Char)
  <2>1. <<>> \in Seq(Char) /\ lines \in Seq(Seq(Char))
    BY EmptySeq DEF IInv, TypeOK
  <2>2. ConcatGrows(Char, lines, <<>>)
    BY <2>1, ConcatAppend
  <2> QED BY <2>2 DEF ConcatGrows
<1>3. at = 0 => Passed = <<>>
  <2>1. at = 0 => at - 1 \in Int /\ at - 1 < 1
    BY <1>1
  <2> QED BY <2>1, SubSeqEmpty DEF Passed
<1>4. at > 0 => Passed \in Seq(Char)
  <2>1. at > 0 => 1 \in 1 .. Len(line) + 1 /\ at - 1 \in 1 - 1 .. Len(line)
    BY <1>1
  <2> QED BY <1>1, <2>1, PartProperties DEF Passed
<1>5. <<>> \in Seq(Char) /\ (at = 0 \/ at > 0)
  BY <1>1, EmptySeq
<1> QED BY <1>2, <1>3, <1>4, <1>5

LEMMA PassedGrows ==
  ASSUME IInv, NEW c, Scanning(c), line' = line, at' = at + 1
  PROVE  Passed' = Append(Passed, c)
<1>1. /\ line \in Seq(Char) /\ Len(line) \in Nat
      /\ at \in 1 .. Len(line) /\ line[at] = c
  BY InLine
<1>2. /\ 1 \in 1 .. Len(line) /\ at - 1 \in 1 - 1 .. Len(line) - 1
      /\ at + 1 - 1 = at - 1 + 1 /\ at - 1 + 1 = at
  BY <1>1
<1>3. SubSeq(line, 1, at - 1 + 1) = Append(SubSeq(line, 1, at - 1), line[at - 1 + 1])
  BY <1>1, <1>2, PartToEnd
<1> QED BY <1>1, <1>2, <1>3 DEF Passed

\* The scanner passes a character that it tells later, or tells now.
LEMMA CharPassed ==
  ASSUME IInv, TextInv, NEW c \in Char, Scanning(c),
         line' = line, at' = at + 1, lines' = lines,
         Told' \o Pending' = Told \o Append(Pending, c)
  PROVE  TextInv'
<1>1. /\ line \in Seq(Char) /\ Len(line) \in Nat
      /\ at \in 1 .. Len(line) /\ line[at] = c
  BY InLine
<1>2. Passed' = Append(Passed, c)
  BY PassedGrows
<1>3. /\ Told \in Seq(Char) /\ Pending \in Seq(Char) /\ Passed \in Seq(Char)
      /\ Concat(lines) \in Seq(Char)
  BY ToldType, PendingForms, PassedForms DEF IInv, TypeOK, PendingForm
<1>4. Squeezed(Told \o Append(Pending, c)) = Squeezed(Concat(lines) \o Append(Passed, c))
  BY <1>3, BothGrow DEF TextInv
<1>5. (Concat(lines))' = Concat(lines)
  BY DEF Concat
<1>6. at' # 0
  BY <1>1
<1>7. Squeezed(Told' \o Pending') = Squeezed(Concat(lines)' \o Passed')
  BY <1>2, <1>4, <1>5
<1> QED BY <1>6, <1>7 DEF TextInv, Squeezed

LEMMA TextSame ==
  ASSUME TextInv, events' = events, Pending' = Pending, Passed' = Passed,
         lines' = lines, at' = 0 => tagState' = "default" /\ attrib' = <<>>
  PROVE  TextInv'
<1>1. Told' = Told /\ Concat(lines)' = Concat(lines)
  BY DEF Told, Concat, AsText, Mark
<1> QED BY <1>1 DEF TextInv, Squeezed

LEMMA ThrowTells == ASSUME TextInv, Throw PROVE TextInv'
<1>1. /\ line' = line /\ at' = at /\ tagState' = tagState /\ tag' = tag
      /\ attrib' = attrib /\ events' = events /\ lines' = lines
  BY DEF Throw, scan
<1>2. Pending' = Pending /\ Passed' = Passed
  BY <1>1 DEF Pending, Passed, Mark
<1> QED BY <1>1, <1>2, TextSame DEF TextInv

LEMMA TextTells ==
  ASSUME IInv, IInv', TextInv, AddToText, tagState = "default",
         NEW c \in Char, Scanning(c)
  PROVE  TextInv'
<1>1. /\ attrib' = Append(attrib, c) /\ at' = at + 1 /\ line' = line
      /\ tagState' = "default" /\ events' = events /\ lines' = lines
  BY InLine DEF AddToText
<1>2. Pending = attrib /\ Pending' = attrib'
  BY <1>1, PendingForms, PendingFormsNext DEF PendingForm
<1>3. Told' = Told
  BY <1>1 DEF Told, AsText, Mark
<1> QED BY <1>1, <1>2, <1>3, CharPassed

LEMMA OtherTells ==
  ASSUME IInv, IInv', TextInv, ScanOther PROVE TextInv'
<1>0. "x" \in Char /\ Scanning("x")
  BY DEF Char, ScanOther
<1>1. CASE tagState = "default"
  <2>1. AddToText
    BY <1>1 DEF ScanOther
  <2> QED BY <1>0, <1>1, <2>1, TextTells
<1>2. CASE tagState # "default"
  <2>1. /\ tag' = Append(tag, "x") /\ at' = at + 1 /\ line' = line
        /\ tagState' = tagState /\ events' = events /\ lines' = lines
        /\ tag \in Seq(Char) /\ tagState \in TagState
    BY <1>0, <1>2, InLine DEF ScanOther
  <2>2. Pending' = Append(Pending, "x")
    <3>1. <<"<">> \in Seq(Char) /\ <<"<", "/">> \in Seq(Char)
      BY DEF Char
    <3>2. CASE tagState = "opentag"
      <4>1. Pending = <<"<">> \o tag /\ Pending' = <<"<">> \o tag'
        BY <2>1, <3>2, PendingForms, PendingFormsNext DEF PendingForm
      <4>2. <<"<">> \o Append(tag, "x") = Append(<<"<">> \o tag, "x")
        BY <1>0, <2>1, <3>1, ConcatOfAppend
      <4> QED BY <2>1, <4>1, <4>2
    <3>3. CASE tagState = "closetag"
      <4>1. Pending = <<"<", "/">> \o tag /\ Pending' = <<"<", "/">> \o tag'
        BY <2>1, <3>3, PendingForms, PendingFormsNext DEF PendingForm
      <4>2. <<"<", "/">> \o Append(tag, "x") = Append(<<"<", "/">> \o tag, "x")
        BY <1>0, <2>1, <3>1, ConcatOfAppend
      <4> QED BY <2>1, <4>1, <4>2
    <3> QED BY <1>2, <2>1, <3>2, <3>3 DEF TagState
  <2>3. Told' = Told
    BY <2>1 DEF Told, AsText, Mark
  <2> QED BY <1>0, <2>1, <2>2, <2>3, CharPassed
<1> QED BY <1>1, <1>2

LEMMA BlankTells ==
  ASSUME IInv, IInv', TextInv, ScanBlank PROVE TextInv'
<1>0. "sp" \in Char /\ Scanning("sp")
  BY DEF Char, ScanBlank
<1>1. CASE tagState = "default"
  <2>1. AddToText
    BY <1>1 DEF ScanBlank
  <2> QED BY <1>0, <1>1, <2>1, TextTells
<1>2. CASE tagState # "default"
  BY <1>2, ThrowTells DEF ScanBlank
<1> QED BY <1>1, <1>2

\* Nothing of a tag is scanned behind its "<".
LEMMA SlashTells ==
  ASSUME IInv, IInv', TextInv, ScanSlash PROVE TextInv'
<1>0. "/" \in Char /\ Scanning("/")
  BY DEF Char, ScanSlash
<1>1. CASE at > 1 /\ line[at - 1] = "<" /\ tagState = "opentag"
  <2>1. /\ tagState' = "closetag" /\ tag' = tag /\ at' = at + 1 /\ line' = line
        /\ events' = events /\ lines' = lines
        /\ tag \in Seq(Char) /\ Len(tag) \in Nat /\ at \in Nat
    BY <1>0, <1>1, InLine DEF ScanSlash
  <2>2. PICK s \in 1 .. at - 1, b \in 1 .. at :
          TagScanned(line, at, tagState, Len(tag), s, b)
    BY <1>0, <1>1, InLine
  <2>3. b = at /\ Len(tag) = 0
    <3>1. /\ Len(tag) = at - b
          /\ \A k \in b .. at - 1 : line[k] = "x"
      BY <2>2 DEF TagScanned
    <3>2. at - 1 \notin b .. at - 1
      BY <1>1, <3>1
    <3> QED BY <2>1, <3>1, <3>2
  <2>4. tag = <<>>
    BY <2>1, <2>3, EmptySeq
  <2>5. Pending = <<"<">> /\ Pending' = <<"<", "/">>
    <3>1. Pending = <<"<">> \o <<>> /\ Pending' = <<"<", "/">> \o <<>>
      BY <1>1, <2>1, <2>4, PendingForms, PendingFormsNext DEF PendingForm
    <3>2. <<"<">> \in Seq(Char) /\ <<"<", "/">> \in Seq(Char)
      BY DEF Char
    <3> QED BY <3>1, <3>2, ConcatEmptySeq
  <2>6. Pending' = Append(Pending, "/")
    BY <2>5
  <2>7. Told' = Told
    BY <2>1 DEF Told, AsText, Mark
  <2> QED BY <1>0, <2>1, <2>6, <2>7, CharPassed
<1>2. CASE ~(at > 1 /\ line[at - 1] = "<" /\ tagState = "opentag")
  <2>1. CASE tagState = "default"
    <3>1. AddToText
      BY <1>2, <2>1 DEF ScanSlash
    <3> QED BY <1>0, <2>1, <3>1, TextTells
  <2>2. CASE tagState # "default"
    BY <1>2, <2>2, ThrowTells DEF ScanSlash
  <2> QED BY <2>1, <2>2
<1> QED BY <1>1, <1>2

LEMMA GreaterTells ==
  ASSUME IInv, IInv', TextInv, ScanGreater PROVE TextInv'
<1>0. ">" \in Char /\ Scanning(">")
  BY DEF Char, ScanGreater
<1>1. CASE tagState # "default" /\ tag # <<>>
  <2> DEFINE e == [kind |-> IF tagState = "opentag" THEN "open" ELSE "close",
                   str |-> tag]
  <2>1. /\ events' = Append(events, e)
        /\ tagState' = "default" /\ at' = at + 1 /\ attrib' = attrib
        /\ line' = line /\ lines' = lines
        /\ tag \in Seq(Char) /\ tagState \in TagState
    BY <1>0, <1>1, InLine DEF ScanGreater
  <2>2. e \in Event /\ events \in Seq(Event)
    BY <2>1 DEF Event, IInv, TypeOK
  <2>3. AsText(e) = Append(Pending, ">")
    <3>1. e.kind # "text" /\ e.str = tag
      OBVIOUS
    <3>2. AsText(e) = Mark[e.kind] \o tag \o <<">">>
      BY <3>1 DEF AsText
    <3>3. Pending = Mark[e.kind] \o tag
      <4>1. Mark["open"] = <<"<">> /\ Mark["close"] = <<"<", "/">>
        BY DEF Mark
      <4>2. CASE tagState = "opentag"
        BY <4>1, <4>2, PendingForms DEF PendingForm
      <4>3. CASE tagState = "closetag"
        BY <4>1, <4>3, PendingForms DEF PendingForm
      <4> QED BY <1>1, <2>1, <4>2, <4>3 DEF TagState
    <3>4. Append(Pending, ">") = Pending \o <<">">>
      BY <1>0, PendingForms, AppendIsConcat DEF PendingForm
    <3> QED BY <3>2, <3>3, <3>4
  <2> HIDE DEF e
  <2>4. Told \in Seq(Char) /\ Told' = Told \o Append(Pending, ">")
    BY <2>1, <2>2, <2>3, ToldGrows
  <2>5. Pending' = <<>>
    <3>1. attrib = <<>>
      BY <1>1 DEF IInv, Scanned
    <3> QED BY <2>1, <3>1, PendingFormsNext DEF PendingForm
  <2>6. Told' \o Pending' = Told \o Append(Pending, ">")
    <3>1. Append(Pending, ">") \in Seq(Char)
      BY <1>0, PendingForms, AppendProperties DEF PendingForm
    <3>2. Told' \in Seq(Char)
      BY <2>4, <3>1, ConcatProperties
    <3> QED BY <2>4, <2>5, <3>2, ConcatEmptySeq
  <2> QED BY <1>0, <2>1, <2>6, CharPassed
<1>2. CASE ~(tagState # "default" /\ tag # <<>>)
  BY <1>2, ThrowTells DEF ScanGreater
<1> QED BY <1>1, <1>2

\* The text before a tag is told without the blanks around it.
LEMMA LessTells ==
  ASSUME IInv, IInv', TextInv, ScanLess PROVE TextInv'
<1>0. "<" \in Char /\ Scanning("<")
  BY DEF Char, ScanLess
<1>1. CASE tagState = "default"
  <2>1. /\ tagState' = "opentag" /\ at' = at + 1 /\ attrib' = <<>> /\ tag' = <<>>
        /\ line' = line /\ lines' = lines
        /\ events' = IF Blank(attrib) THEN events
                     ELSE Append(events, [kind |-> "text", str |-> Trim(attrib)])
        /\ attrib \in Seq(Char) /\ at \in Nat
    BY <1>0, <1>1, InLine DEF ScanLess
  <2>2. /\ events \in Seq(Event) /\ Told \in Seq(Char)
        /\ Passed \in Seq(Char) /\ Concat(lines) \in Seq(Char)
    BY ToldType, PassedForms DEF IInv, TypeOK
  <2>3. Pending = attrib /\ Pending' = <<"<">>
    <3>1. Pending' = <<"<">> \o <<>> /\ <<"<">> \in Seq(Char)
      BY <2>1, PendingFormsNext DEF PendingForm, Char
    <3> QED BY <1>1, <3>1, PendingForms, ConcatEmptySeq DEF PendingForm
  <2>4. Told' \in Seq(Char) /\ Squeezed(Told') = Squeezed(Told) \o Squeezed(attrib)
    <3>1. CASE Blank(attrib)
      <4>1. Told' = Told
        BY <2>1, <3>1 DEF Told, AsText, Mark
      <4>2. Squeezed(attrib) = <<>>
        BY <2>1, <3>1, WithoutOfBlank DEF Squeezed
      <4>3. Squeezed(Told) \in Seq(Char)
        BY <1>0, <2>2, SqueezedAppend
      <4> QED BY <2>2, <4>1, <4>2, <4>3, ConcatEmptySeq
    <3>2. CASE ~Blank(attrib)
      <4> DEFINE e == [kind |-> "text", str |-> Trim(attrib)]
      <4>1. Trim(attrib) \in Seq(Char)
        BY <2>1, TrimType
      <4>2. e \in Event /\ AsText(e) = Trim(attrib)
        BY <4>1 DEF Event, AsText
      <4>3. events' = Append(events, e)
        BY <2>1, <3>2
      <4> HIDE DEF e
      <4>4. Told' = Told \o Trim(attrib)
        BY <2>2, <4>2, <4>3, ToldGrows
      <4>5. Squeezed(Told \o Trim(attrib)) = Squeezed(Told) \o Squeezed(Trim(attrib))
        BY <2>2, <4>1, SqueezedConcat
      <4>6. Squeezed(Trim(attrib)) = Squeezed(attrib)
        BY <2>1, WithoutOfTrim DEF Squeezed
      <4>7. Told' \in Seq(Char)
        BY <2>2, <4>1, <4>4, ConcatProperties
      <4> QED BY <4>4, <4>5, <4>6, <4>7
    <3> QED BY <3>1, <3>2
  <2>5. Squeezed(Told' \o <<>>) = Squeezed(Concat(lines) \o Passed)
    <3>1. Squeezed(Told \o attrib) = Squeezed(Told) \o Squeezed(attrib)
      BY <2>1, <2>2, SqueezedConcat
    <3>2. Told' \o <<>> = Told'
      BY <2>4, ConcatEmptySeq
    <3> QED BY <2>3, <2>4, <3>1, <3>2 DEF TextInv
  <2>6. Squeezed(Told' \o <<"<">>) = Squeezed(Concat(lines) \o Append(Passed, "<"))
    <3>1. <<>> \in Seq(Char) /\ Append(<<>>, "<") = <<"<">>
      BY EmptySeq
    <3> DEFINE s == Told'
               u == Concat(lines)
               v == Passed
               none == <<>>
    <3>2. /\ none \in Seq(Char) /\ s \in Seq(Char) /\ u \in Seq(Char) /\ v \in Seq(Char)
          /\ Squeezed(s \o none) = Squeezed(u \o v)
      BY <2>2, <2>4, <2>5, <3>1
    <3> HIDE DEF s, u, v, none
    <3>3. Squeezed(s \o Append(none, "<")) = Squeezed(u \o Append(v, "<"))
      BY <1>0, <3>2, BothGrow
    <3> QED BY <3>1, <3>3 DEF s, u, v, none
  <2>7. Passed' = Append(Passed, "<")
    BY <1>0, <2>1, PassedGrows
  <2>8. Concat(lines)' = Concat(lines) /\ at' # 0
    BY <2>1 DEF Concat
  <2> QED BY <2>3, <2>6, <2>7, <2>8 DEF TextInv, Squeezed
<1>2. CASE tagState # "default"
  BY <1>2, ThrowTells DEF ScanLess
<1> QED BY <1>1, <1>2

LEMMA EndOfLineTells ==
  ASSUME IInv, IInv', TextInv, EndOfLine PROVE TextInv'
<1>1. CASE tagState = "default" /\ Blank(attrib)
  <2>1. /\ lines' = Append(lines, line) /\ line' = <<>> /\ at' = 0
        /\ attrib' = <<>> /\ tagState' = "default" /\ events' = events
        /\ at = Len(line) + 1
    BY <1>1 DEF EndOfLine
  <2>2. /\ events \in Seq(Event) /\ lines \in Seq(Seq(Char))
        /\ attrib \in Seq(Char) /\ Len(line) \in Nat
        /\ Told \in Seq(Char) /\ Concat(lines) \in Seq(Char)
    BY ScannerTyped, ToldType, PassedForms DEF IInv, TypeOK
  <2>3. line \in Seq(Char)
    BY <2>1, <2>2 DEF IInv, TypeOK
  <2>4. Passed = line /\ Passed' = <<>>
    <3>1. Passed = SubSeq(line, 1, Len(line))
      BY <2>1, <2>2 DEF Passed
    <3>2. Passed' = SubSeq(line', 1, 0 - 1)
      BY <2>1 DEF Passed
    <3>3. SubSeq(line', 1, 0 - 1) = <<>>
      BY SubSeqEmpty
    <3> QED BY <2>3, <3>1, <3>2, <3>3, WholePart
  <2>5. Pending = attrib /\ Pending' = <<>>
    BY <1>1, <2>1, PendingForms, PendingFormsNext DEF PendingForm
  <2>6. Concat(lines)' = Concat(lines) \o line
    <3>1. ConcatGrows(Char, lines, line)
      BY <2>2, <2>3, ConcatAppend
    <3>2. Concat(lines)' = Concat(lines')
      BY DEF Concat
    <3> QED BY <2>1, <3>1, <3>2 DEF ConcatGrows
  <2>7. Told' = Told
    BY <2>1 DEF Told, AsText, Mark
  <2>8. Squeezed(Told \o <<>>) = Squeezed(Told \o attrib)
    <3>1. Squeezed(Told \o attrib) = Squeezed(Told) \o Squeezed(attrib)
      BY <2>2, SqueezedConcat
    <3>2. Squeezed(attrib) = <<>>
      BY <1>1, <2>2, WithoutOfBlank DEF Squeezed
    <3>3. Squeezed(Told) \in Seq(Char)
      <4>1. "sp" \in Char
        BY DEF Char
      <4> QED BY <2>2, <4>1, SqueezedAppend
    <3> QED BY <2>2, <3>1, <3>2, <3>3, ConcatEmptySeq
  <2>9. (Concat(lines) \o line) \o <<>> = Concat(lines) \o line
    <3>1. Concat(lines) \o line \in Seq(Char)
      BY <2>2, <2>3, ConcatProperties
    <3> QED BY <3>1, ConcatEmptySeq
  <2>10. Squeezed(Told' \o Pending') = Squeezed(Concat(lines)' \o Passed')
    BY <2>4, <2>5, <2>6, <2>7, <2>8, <2>9 DEF TextInv
  <2> QED BY <2>1, <2>10 DEF TextInv, Squeezed
<1>2. CASE ~(tagState = "default" /\ Blank(attrib))
  BY <1>2, ThrowTells DEF EndOfLine
<1> QED BY <1>1, <1>2

\* Between two lines nothing is pending and nothing of the next one is passed.
LEMMA BetweenLinesTells ==
  ASSUME IInv, IInv', TextInv, at = 0, tagState' = tagState, tag' = tag,
         attrib' = attrib, events' = events, lines' = lines,
         Passed' = <<>>
  PROVE  TextInv'
<1>1. Passed' = Passed
  BY PassedForms
<1>2. Pending' = Pending
  BY DEF Pending, Mark
<1>3. tagState' = "default" /\ attrib' = <<>>
  BY DEF TextInv
<1> QED BY <1>1, <1>2, <1>3, TextSame

NothingPassed == at = 0 => Passed = <<>>

LEMMA PassedFormsNext == IInv' => NothingPassed'
<1>1. IInv => NothingPassed
  BY PassedForms DEF NothingPassed
<1> QED BY <1>1, PTL

LEMMA ReadTells ==
  ASSUME IInv, IInv', TextInv,
         ReadNewline \/ EndOfStream \/ (\E c \in Char : ReadChar(c))
           \/ (state = "closed" /\ \E header \in Headers :
                 Open(header) \/ OpenUnterminated(header))
  PROVE  TextInv'
<1>1. CASE ReadNewline
  <2>1. /\ at = 0 /\ at' = 1 /\ tagState' = "default" /\ tag' = <<>> /\ attrib' = <<>>
        /\ events' = events /\ lines' = lines
    BY <1>1 DEF ReadNewline, Reading
  <2>2. tagState = "default" /\ attrib = <<>> /\ tag = <<>>
    BY <2>1 DEF TextInv, IInv, Scanned
  <2>3. Passed' = <<>>
    <3>1. Passed' = SubSeq(line', 1, 1 - 1)
      BY <2>1 DEF Passed
    <3>2. SubSeq(line', 1, 1 - 1) = <<>>
      BY SubSeqEmpty
    <3> QED BY <3>1, <3>2
  <2> QED BY <2>1, <2>2, <2>3, BetweenLinesTells
<1>2. CASE EndOfStream
  <2>1. /\ at = 0 /\ at' = at /\ tagState' = tagState /\ tag' = tag /\ attrib' = attrib
        /\ events' = events /\ lines' = lines
    BY <1>2 DEF EndOfStream, Reading, scan
  <2> QED BY <2>1, PassedFormsNext, BetweenLinesTells DEF NothingPassed
<1>3. CASE \E c \in Char : ReadChar(c)
  <2>1. /\ at = 0 /\ at' = at /\ tagState' = tagState /\ tag' = tag /\ attrib' = attrib
        /\ events' = events /\ lines' = lines
    BY <1>3 DEF ReadChar, Reading, scan
  <2> QED BY <2>1, PassedFormsNext, BetweenLinesTells DEF NothingPassed
<1>4. CASE state = "closed" /\ \E header \in Headers :
             Open(header) \/ OpenUnterminated(header)
  <2>1. at = 0
    <3>1. at \in Nat /\ (at > 0 => state = "opened")
      BY ScannerTyped DEF IInv, TypeOK
    <3> QED BY <1>4, <3>1
  <2>2. /\ at' = at /\ tagState' = tagState /\ tag' = tag /\ attrib' = attrib
        /\ events' = events /\ lines' = lines
    BY <1>4 DEF Open, OpenUnterminated, scan
  <2> QED BY <2>1, <2>2, PassedFormsNext, BetweenLinesTells DEF NothingPassed
<1> QED BY <1>1, <1>2, <1>3, <1>4

LEMMA TextInit == Init => TextInv
<1> SUFFICES ASSUME Init PROVE TextInv
  OBVIOUS
<1>1. /\ tagState = "default" /\ attrib = <<>> /\ tag = <<>> /\ events = <<>>
      /\ lines = <<>> /\ at = 0 /\ line = <<>>
  BY DEF Init
<1>2. Told = <<>>
  <2>1. [i \in 1 .. Len(events) |-> AsText(events[i])] = <<>>
    BY <1>1
  <2> QED BY <2>1, ConcatOfNone DEF Told
<1>3. Pending = <<>> /\ Passed = <<>>
  <2>1. Pending = (<<>> \o <<>>) \o <<>>
    BY <1>1 DEF Pending
  <2>2. <<>> \in Seq(Char)
    BY EmptySeq
  <2>3. Passed = SubSeq(<<>>, 1, 0 - 1)
    BY <1>1 DEF Passed
  <2>4. SubSeq(<<>>, 1, 0 - 1) = <<>>
    BY SubSeqEmpty
  <2> QED BY <2>1, <2>2, <2>3, <2>4, ConcatEmptySeq
<1>4. Concat(lines) = <<>>
  BY <1>1, ConcatOfNone
<1> QED BY <1>1, <1>2, <1>3, <1>4 DEF TextInv

LEMMA TextStep == IInv /\ IInv' /\ TextInv /\ [Next]_vars => TextInv'
<1> SUFFICES ASSUME IInv, IInv', TextInv, [Next]_vars PROVE TextInv'
  OBVIOUS
<1>1. CASE ReadNewline \/ EndOfStream \/ (\E c \in Char : ReadChar(c))
             \/ (state = "closed" /\ \E header \in Headers :
                   Open(header) \/ OpenUnterminated(header))
  BY <1>1, ReadTells
<1>2. CASE ScanBlank
  BY <1>2, BlankTells
<1>3. CASE ScanLess
  BY <1>3, LessTells
<1>4. CASE ScanSlash
  BY <1>4, SlashTells
<1>5. CASE ScanGreater
  BY <1>5, GreaterTells
<1>6. CASE ScanOther
  BY <1>6, OtherTells
<1>7. CASE EndOfLine
  BY <1>7, EndOfLineTells
<1>8. CASE UNCHANGED vars
  <2>1. /\ line' = line /\ at' = at /\ tagState' = tagState /\ tag' = tag
        /\ attrib' = attrib /\ events' = events /\ lines' = lines
    BY <1>8 DEF vars, scan
  <2>2. Pending' = Pending /\ Passed' = Passed
    BY <2>1 DEF Pending, Passed, Mark
  <2> QED BY <2>1, <2>2, TextSame DEF TextInv
<1> QED BY <1>1, <1>2, <1>3, <1>4, <1>5, <1>6, <1>7, <1>8 DEF Next

-------------------------------------------------------------------------------
\* The parser's state, its line and the scanner's locals keep their types for
\* headers and lines of any length (xml.cpp:110-199, 271-349).
THEOREM TypeCorrect == Spec => []TypeOK
<1>1. IInv => TypeOK
  BY DEF IInv
<1> QED
  BY <1>1, Inductive, PTL

\* The scanner of ParseCurrentLine decides the grammar of lines: it passes no
\* line outside it and throws on no line in it (xml.cpp:110-199).
THEOREM ScannerDecides == Spec => []LinesAsInGrammar
<1>1. IInv => LinesAsInGrammar
  BY DEF IInv
<1> QED
  BY <1>1, Inductive, PTL

\* The builder is told names as tags and trimmed, nonempty texts only
\* (xml.cpp:139-142, 163-169).
THEOREM CleanEvents == Spec => []EventsAreClean
<1>1. IInv => EventsAreClean
  BY DEF IInv
<1> QED
  BY <1>1, Inductive, PTL
\* Written out again, what the builder was told is the text of the lines up to
\* the character the scanner is at, but for blanks (xml.cpp:124-190, 326-348).
THEOREM TellsTheText == Spec => []EventsAreTheText
<1>1. TextInv => EventsAreTheText
  BY DEF TextInv, EventsAreTheText, Told, Passed
<1>2. Spec => []TextInv
  BY Inductive, TextInit, TextStep, PTL DEF Spec
<1> QED
  BY <1>1, <1>2, PTL
===============================================================================
