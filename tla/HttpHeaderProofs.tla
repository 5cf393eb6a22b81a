--------------------------- MODULE HttpHeaderProofs ---------------------------
(***************************************************************************)
(* The header scan, the length, the rewind and the parser of one request,  *)
(* for every set of lines and any bounds.                                  *)
(***************************************************************************)
EXTENDS HttpHeader, ProofLemmas

-------------------------------------------------------------------------------
(* The inductive invariant *)

Solid == Token \ {"nl", "cr"}

Values == UNION {[D -> Seq(Token)] : D \in SUBSET Seq(Token)}

Header ==
  [values : Values, name : Seq(Token), buffer : Seq(Solid),
   bName : BOOLEAN, bFirstLine : BOOLEAN, bFinished : BOOLEAN]

\* The map holds the fields of the complete lines, the first of each name.
Fields(values, s) ==
  /\ \A l \in Lines(s) : \A i \in Colon(s, l) : FieldName(s, l, i) \in DOMAIN values
  /\ \A k \in DOMAIN values :
       \E l \in Lines(s) : \E i \in Colon(s, l) :
         /\ FieldName(s, l, i) = k
         /\ values[k] = FieldValue(s, l, i)
         /\ \A m \in Lines(s) : \A j \in Colon(s, m) :
              FieldName(s, m, j) = k => l[1] <= m[1]

\* The buffer holds the open line, which begins behind b, or what is behind the
\* colon in it.
OpenLine(h, s, b) ==
  IF h.bName
  THEN /\ \A k \in b + 1 .. Len(s) : s[k] # ":"
       /\ h.buffer = SubSeq(s, b + 1, Len(s))
  ELSE \E i \in b + 1 .. Len(s) :
         /\ s[i] = ":"
         /\ \A k \in b + 1 .. i - 1 : s[k] # ":"
         /\ h.name = Trim(SubSeq(s, b + 1, i - 1))
         /\ h.buffer = SubSeq(s, i + 1, Len(s))

\* s is what has been scanned, without its carriage returns.
Describes(h, s) ==
  /\ h.bFirstLine =>
       /\ Newlines(s) = {}
       /\ h.bName /\ ~h.bFinished
       /\ DOMAIN h.values = {}
  /\ ~h.bFirstLine =>
       \E b \in Newlines(s) :
         /\ \A k \in Newlines(s) : k <= b
         /\ OpenLine(h, s, b)
         /\ h.bFinished => b = Len(s)
  /\ h.bFinished <=> \E l \in Lines(s) : TextOf(s, l) = <<>>
  /\ \A l \in Lines(s) : TextOf(s, l) = <<>> => l[2] = Len(s)
  /\ Fields(h.values, s)

Scanned == NoReturns(SubSeq(stream, 1, at - 1))

ScanInv ==
  phase = "header" =>
    /\ Describes(header, Scanned)
    /\ header.bFinished => stream[at - 1] = "nl"

-------------------------------------------------------------------------------
(* Lemmas on the operators *)

LEMMA SolidToken == Seq(Solid) \subseteq Seq(Token) /\ Solid \subseteq Token
<1>1. Solid \subseteq Token
  BY DEF Solid
<1> QED BY <1>1, SeqMonotonic

LEMMA StartTypes == Start \in Header
<1>1. <<>> \in Seq(Token) /\ <<>> \in Seq(Solid)
  BY EmptySeq
<1>2. <<>> \in Values
  <2>1. <<>> \in [{} -> Seq(Token)]
    OBVIOUS
  <2> QED BY <2>1 DEF Values
<1> QED BY <1>1, <1>2 DEF Start, Header

LEMMA InsertTypes ==
  ASSUME NEW values \in Values, NEW name \in Seq(Token), NEW value \in Seq(Token)
  PROVE  /\ Insert(values, name, value) \in Values
         /\ DOMAIN Insert(values, name, value) = DOMAIN values \cup {name}
         /\ \A k \in DOMAIN values : Insert(values, name, value)[k] = values[k]
         /\ name \notin DOMAIN values => Insert(values, name, value)[name] = value
<1>1. PICK D \in SUBSET Seq(Token) : values \in [D -> Seq(Token)]
  BY DEF Values
<1> DEFINE f == Insert(values, name, value)
<1>2. f \in [D \cup {name} -> Seq(Token)] /\ D \cup {name} \in SUBSET Seq(Token)
  BY <1>1 DEF Insert
<1>3. f \in Values
  BY <1>2 DEF Values
<1> QED BY <1>1, <1>3 DEF Insert

LEMMA OnOtherTypes ==
  ASSUME NEW h \in Header, NEW c \in Solid
  PROVE  /\ OnOther(h, c) \in Header
         /\ OnOther(h, c) = [h EXCEPT !.buffer = Append(h.buffer, c)]
<1>1. Append(h.buffer, c) \in Seq(Solid)
  BY AppendProperties DEF Header
<1>2. \A b \in Seq(Solid) : [h EXCEPT !.buffer = b] \in Header
  BY DEF Header
<1> QED BY <1>1, <1>2 DEF OnOther

\* What a character does to the header.
LEMMA OnCharacterTypes ==
  ASSUME NEW h \in Header, NEW c \in Token
  PROVE  OnCharacter(h, c) \in Header
<1>1. /\ h.buffer \in Seq(Solid) /\ h.buffer \in Seq(Token)
      /\ Trim(h.buffer) \in Seq(Token)
      /\ <<>> \in Seq(Solid) /\ h.values \in Values /\ h.name \in Seq(Token)
      /\ {h.bName, h.bFirstLine, h.bFinished} \subseteq BOOLEAN
  BY SolidToken, TrimType, EmptySeq DEF Header
<1>2. CASE c = "cr"
  BY <1>2 DEF OnCharacter
<1>3. CASE c = ":"
  <2>1. OnOther(h, ":") \in Header
    <3>1. ":" \in Solid
      BY DEF Solid, Token
    <3> QED BY <3>1, OnOtherTypes
  <2>2. [h EXCEPT !.name = Trim(h.buffer), !.buffer = <<>>, !.bName = FALSE] \in Header
    BY <1>1 DEF Header
  <2> QED BY <1>3, <2>1, <2>2 DEF OnCharacter, OnColon
<1>4. CASE c = "nl"
  <2>1. [h EXCEPT !.bFirstLine = FALSE, !.buffer = <<>>] \in Header
    BY <1>1 DEF Header
  <2>2. Insert(h.values, h.name, Trim(h.buffer)) \in Values
    BY <1>1, InsertTypes
  <2>3. \A v \in Values, f \in BOOLEAN :
          [h EXCEPT !.values = v, !.bFinished = f, !.bName = TRUE, !.buffer = <<>>]
            \in Header
    BY <1>1 DEF Header
  <2>4. (h.bName /\ h.buffer = <<>>) \in BOOLEAN
    OBVIOUS
  <2>5. (IF h.bName THEN h.values ELSE Insert(h.values, h.name, Trim(h.buffer)))
          \in Values
    BY <1>1, <2>2
  <2> QED BY <1>4, <2>1, <2>3, <2>4, <2>5 DEF OnCharacter, OnNewline
<1>5. CASE c \notin {"cr", ":", "nl"}
  <2>1. c \in Solid
    BY <1>5 DEF Solid
  <2> QED BY <1>5, <2>1, OnOtherTypes DEF OnCharacter
<1> QED BY <1>2, <1>3, <1>4, <1>5

-------------------------------------------------------------------------------
(* The text without carriage returns *)

Text == Token \ {"cr"}

LEMMA NoReturnsAppend ==
  ASSUME NEW s \in Seq(Token), NEW c \in Token
  PROVE  /\ NoReturns(s) \in Seq(Text)
         /\ c = "cr" => NoReturns(Append(s, c)) = NoReturns(s)
         /\ c # "cr" => NoReturns(Append(s, c)) = Append(NoReturns(s), c)
<1>1. WithoutGrows(Token, "cr", s, c)
  BY WithoutAppend
<1> QED BY <1>1 DEF WithoutGrows, NoReturns, Text

LEMMA NoReturnsEmpty == NoReturns(<<>>) = <<>>
BY WithoutEmpty DEF NoReturns

-------------------------------------------------------------------------------
(* The lines of a text that grows *)

\* What s and t say of the line l.
SameLine(s, t, l) ==
  /\ TextOf(t, l) = TextOf(s, l)
  /\ Colon(t, l) = Colon(s, l)
  /\ \A i \in Colon(s, l) : /\ FieldName(t, l, i) = FieldName(s, l, i)
                            /\ FieldValue(t, l, i) = FieldValue(s, l, i)

LEMMA LineBounds ==
  ASSUME NEW s \in Seq(Text), NEW l \in Lines(s)
  PROVE  /\ l[1] \in Newlines(s) /\ l[2] \in Newlines(s) /\ l[1] < l[2]
         /\ l = <<l[1], l[2]>>
         /\ l[1] \in 1 .. Len(s) /\ l[2] \in 1 .. Len(s) /\ Len(s) \in Nat
  BY DEF Lines, Newlines

LEMMA OldLinesKept ==
  ASSUME NEW s \in Seq(Text), NEW c \in Text, NEW l \in Lines(s)
  PROVE  SameLine(s, Append(s, c), l)
<1> DEFINE t == Append(s, c)
           L == Len(s)
<1>1. /\ t \in Seq(Text) /\ Len(t) = L + 1 /\ L \in Nat
      /\ \A i \in 1 .. L : t[i] = s[i]
  BY AppendProperties
<1>2. l[1] \in 1 .. L /\ l[2] \in 1 .. L /\ l[1] < l[2]
  BY LineBounds
<1>3. ASSUME NEW m \in 1 .. L + 1, NEW n \in m - 1 .. L
      PROVE SubSeq(t, m, n) = SubSeq(s, m, n)
  BY PartOfAppend
<1> HIDE DEF t
<1>4. TextOf(t, l) = TextOf(s, l)
  <2>1. l[1] + 1 \in 1 .. L + 1 /\ l[2] - 1 \in (l[1] + 1) - 1 .. L
    BY <1>1, <1>2
  <2> QED BY <2>1, <1>3 DEF TextOf
<1>5. Colon(t, l) = Colon(s, l)
  <2>1. \A i \in l[1] + 1 .. l[2] - 1 : t[i] = s[i]
    BY <1>1, <1>2
  <2>2. \A i \in l[1] + 1 .. l[2] - 1 : \A k \in l[1] + 1 .. i - 1 : t[k] = s[k]
    BY <1>1, <1>2
  <2> QED BY <2>1, <2>2 DEF Colon
<1>6. ASSUME NEW i \in Colon(s, l)
      PROVE FieldName(t, l, i) = FieldName(s, l, i) /\ FieldValue(t, l, i) = FieldValue(s, l, i)
  <2>1. i \in l[1] + 1 .. l[2] - 1
    BY DEF Colon
  <2>2. /\ l[1] + 1 \in 1 .. L + 1 /\ i - 1 \in (l[1] + 1) - 1 .. L
        /\ i + 1 \in 1 .. L + 1 /\ l[2] - 1 \in (i + 1) - 1 .. L
    BY <1>1, <1>2, <2>1
  <2> QED BY <2>2, <1>3 DEF FieldName, FieldValue
<1> QED BY <1>4, <1>5, <1>6 DEF SameLine, t

LEMMA LinesOfOpenLine ==
  ASSUME NEW s \in Seq(Text), NEW c \in Text, c # "nl"
  PROVE  Newlines(Append(s, c)) = Newlines(s) /\ Lines(Append(s, c)) = Lines(s)
<1> DEFINE t == Append(s, c)
<1>1. /\ t \in Seq(Text) /\ Len(t) = Len(s) + 1 /\ Len(s) \in Nat
      /\ \A i \in 1 .. Len(s) : t[i] = s[i]
      /\ t[Len(s) + 1] = c
  BY AppendProperties
<1> HIDE DEF t
<1>2. Newlines(t) = Newlines(s)
  <2>1. \A i \in 1 .. Len(t) : i \in 1 .. Len(s) \/ i = Len(s) + 1
    BY <1>1
  <2>2. \A i \in 1 .. Len(s) : i \in 1 .. Len(t)
    BY <1>1
  <2> QED BY <1>1, <2>1, <2>2 DEF Newlines
<1> QED BY <1>2 DEF Lines, t

\* The line that a newline ends, behind the newline b.
LEMMA LinesOfNewline ==
  ASSUME NEW s \in Seq(Text)
  PROVE  /\ Newlines(Append(s, "nl")) = Newlines(s) \cup {Len(s) + 1}
         /\ Newlines(s) = {} => Lines(Append(s, "nl")) = {}
         /\ \A b \in Newlines(s) : (\A k \in Newlines(s) : k <= b) =>
              Lines(Append(s, "nl")) = Lines(s) \cup {<<b, Len(s) + 1>>}
<1> DEFINE t == Append(s, "nl")
           L == Len(s)
<1>1. /\ t \in Seq(Text) /\ Len(t) = L + 1 /\ L \in Nat
      /\ \A i \in 1 .. L : t[i] = s[i]
      /\ t[L + 1] = "nl"
  <2>1. "nl" \in Text
    BY DEF Text, Token
  <2> QED BY <2>1, AppendProperties
<1> HIDE DEF t
<1>2. Newlines(t) = Newlines(s) \cup {L + 1}
  <2>1. \A i \in 1 .. Len(t) : i \in 1 .. L \/ i = L + 1
    BY <1>1
  <2>2. L + 1 \in 1 .. Len(t) /\ \A i \in 1 .. L : i \in 1 .. Len(t)
    BY <1>1
  <2> QED BY <1>1, <2>1, <2>2 DEF Newlines
<1>3. Newlines(s) \subseteq 1 .. L
  BY DEF Newlines
<1>4. ASSUME Newlines(s) = {} PROVE Lines(t) = {}
  <2>1. \A l \in Newlines(t) \X Newlines(t) : l[1] = L + 1 /\ l[2] = L + 1
    BY <1>2, <1>4
  <2> QED BY <1>1, <2>1 DEF Lines
<1>5. ASSUME NEW b \in Newlines(s), \A k \in Newlines(s) : k <= b
      PROVE Lines(t) = Lines(s) \cup {<<b, L + 1>>}
  <2> DEFINE N == Newlines(s)
  <2>1. N \subseteq 1 .. L /\ b \in N /\ \A k \in N : k <= b
    BY <1>3, <1>5
  <2>2. Newlines(t) = N \cup {L + 1}
    BY <1>2
  <2>3. Lines(s) = {l \in N \X N : l[1] < l[2] /\ \A i \in N : ~ (l[1] < i /\ i < l[2])}
    BY DEF Lines
  <2>4. Lines(t) = {l \in (N \cup {L + 1}) \X (N \cup {L + 1}) :
                      l[1] < l[2] /\ \A i \in N \cup {L + 1} : ~ (l[1] < i /\ i < l[2])}
    BY <2>2 DEF Lines
  <2> HIDE DEF N, L
  <2>5. L \in Nat
    BY <1>1 DEF L
  <2>6. ASSUME NEW l \in Lines(s) PROVE l \in Lines(t)
    <3>1. l \in N \X N /\ l[1] \in 1 .. L /\ l[2] \in 1 .. L
      BY <2>1, <2>3
    <3> QED BY <2>3, <2>4, <2>5, <3>1
  <2>7. <<b, L + 1>> \in Lines(t)
    <3>1. b \in 1 .. L
      BY <2>1
    <3>2. \A i \in N \cup {L + 1} : ~ (b < i /\ i < L + 1)
      BY <2>1, <2>5
    <3>3. b < L + 1
      BY <2>5, <3>1
    <3> QED BY <2>1, <2>4, <3>2, <3>3
  <2>8. ASSUME NEW l \in Lines(t) PROVE l \in Lines(s) \/ l = <<b, L + 1>>
    <3>1. /\ l \in (N \cup {L + 1}) \X (N \cup {L + 1}) /\ l = <<l[1], l[2]>>
          /\ l[1] < l[2] /\ \A i \in N : ~ (l[1] < i /\ i < l[2])
      BY <2>4
    <3>2. l[1] \in N
      <4>1. l[1] \in N \/ l[1] = L + 1
        BY <3>1
      <4>2. l[2] \in N \/ l[2] = L + 1
        BY <3>1
      <4>3. l[2] \in 1 .. L + 1
        <5>1. l[2] \in 1 .. L \/ l[2] = L + 1
          BY <2>1, <4>2
        <5> QED BY <2>5, <5>1
      <4>4. l[1] # L + 1
        BY <2>5, <3>1, <4>3
      <4> QED BY <4>1, <4>4
    <3>3. CASE l[2] \in N
      BY <2>3, <3>1, <3>2, <3>3
    <3>4. CASE l[2] = L + 1
      <4>1. l[1] <= b /\ l[1] \in 1 .. L /\ b \in 1 .. L
        BY <2>1, <3>2
      <4>2. ~ (l[1] < b)
        BY <2>1, <2>5, <3>1, <3>4, <4>1
      <4>3. l[1] = b
        BY <4>1, <4>2
      <4> QED BY <3>1, <3>4, <4>3
    <3> QED BY <3>1, <3>3, <3>4
  <2> QED BY <2>6, <2>7, <2>8 DEF L
<1> QED BY <1>2, <1>4, <1>5 DEF t

-------------------------------------------------------------------------------
(* One character of the header *)

LEMMA FieldsKept ==
  ASSUME NEW values, NEW s \in Seq(Text), NEW t, Fields(values, s),
         Lines(t) = Lines(s), \A l \in Lines(s) : SameLine(s, t, l)
  PROVE  Fields(values, t)
<1>1. \A l \in Lines(s) : \A i \in Colon(t, l) :
        /\ i \in Colon(s, l)
        /\ FieldName(t, l, i) = FieldName(s, l, i)
        /\ FieldValue(t, l, i) = FieldValue(s, l, i)
  BY DEF SameLine
<1>2. \A l \in Lines(s) : Colon(t, l) = Colon(s, l)
  BY DEF SameLine
<1> QED BY <1>1, <1>2 DEF Fields

\* Behind the newline of a line without a colon.
LEMMA FieldsPlain ==
  ASSUME NEW values, NEW s \in Seq(Text), NEW t, Fields(values, s), NEW n,
         Lines(t) = Lines(s) \cup {n}, \A l \in Lines(s) : SameLine(s, t, l),
         Colon(t, n) = {}
  PROVE  Fields(values, t)
<1>1. \A l \in Lines(s) : \A i \in Colon(t, l) :
        /\ i \in Colon(s, l)
        /\ FieldName(t, l, i) = FieldName(s, l, i)
        /\ FieldValue(t, l, i) = FieldValue(s, l, i)
  BY DEF SameLine
<1>2. \A l \in Lines(s) : Colon(t, l) = Colon(s, l)
  BY DEF SameLine
<1>3. \A l \in Lines(t) : \A i \in Colon(t, l) : l \in Lines(s)
  OBVIOUS
<1> QED BY <1>1, <1>2, <1>3 DEF Fields

\* Behind that of a line with one.
LEMMA FieldsNamed ==
  ASSUME NEW values \in Values, NEW s \in Seq(Text), NEW t, Fields(values, s), NEW n,
         Lines(t) = Lines(s) \cup {n}, \A l \in Lines(s) : SameLine(s, t, l),
         NEW i, Colon(t, n) = {i}, \A l \in Lines(s) : l[1] <= n[1],
         n[1] \in Nat,
         FieldName(t, n, i) \in Seq(Token), FieldValue(t, n, i) \in Seq(Token)
  PROVE  Fields(Insert(values, FieldName(t, n, i), FieldValue(t, n, i)), t)
<1> DEFINE name == FieldName(t, n, i)
           value == FieldValue(t, n, i)
           new == Insert(values, name, value)
<1>1. \A l \in Lines(s) : \A j \in Colon(t, l) :
        /\ j \in Colon(s, l)
        /\ FieldName(t, l, j) = FieldName(s, l, j)
        /\ FieldValue(t, l, j) = FieldValue(s, l, j)
  BY DEF SameLine
<1>2. \A l \in Lines(s) : Colon(t, l) = Colon(s, l)
  BY DEF SameLine
<1>3. /\ DOMAIN new = DOMAIN values \cup {name}
      /\ \A k \in DOMAIN values : new[k] = values[k]
      /\ name \notin DOMAIN values => new[name] = value
  BY InsertTypes
<1> HIDE DEF new
<1>4. ASSUME NEW l \in Lines(t), NEW j \in Colon(t, l)
      PROVE FieldName(t, l, j) \in DOMAIN new
  <2>1. CASE l = n
    BY <1>3, <2>1
  <2>2. CASE l \in Lines(s)
    BY <1>1, <1>3, <2>2 DEF Fields
  <2> QED BY <2>1, <2>2
<1>5. ASSUME NEW k \in DOMAIN new
      PROVE \E l \in Lines(t) : \E j \in Colon(t, l) :
              /\ FieldName(t, l, j) = k
              /\ new[k] = FieldValue(t, l, j)
              /\ \A m \in Lines(t) : \A o \in Colon(t, m) :
                   FieldName(t, m, o) = k => l[1] <= m[1]
  <2>1. CASE k \in DOMAIN values
    <3> PICK l \in Lines(s) : \E j \in Colon(s, l) :
            /\ FieldName(s, l, j) = k
            /\ values[k] = FieldValue(s, l, j)
            /\ \A m \in Lines(s) : \A o \in Colon(s, m) :
                 FieldName(s, m, o) = k => l[1] <= m[1]
      BY <2>1 DEF Fields
    <3>1. PICK j \in Colon(s, l) :
            /\ FieldName(s, l, j) = k
            /\ values[k] = FieldValue(s, l, j)
            /\ \A m \in Lines(s) : \A o \in Colon(s, m) :
                 FieldName(s, m, o) = k => l[1] <= m[1]
      OBVIOUS
    <3>2. /\ l \in Lines(t) /\ j \in Colon(t, l)
          /\ FieldName(t, l, j) = k
          /\ new[k] = FieldValue(t, l, j)
      BY <1>1, <1>2, <1>3, <2>1, <3>1
    <3>3. ASSUME NEW m \in Lines(t), NEW o \in Colon(t, m), FieldName(t, m, o) = k
          PROVE l[1] <= m[1]
      <4>1. CASE m = n
        BY <4>1
      <4>2. CASE m \in Lines(s)
        BY <1>1, <3>1, <3>3, <4>2
      <4> QED BY <4>1, <4>2
    <3> QED BY <3>2, <3>3
  <2>2. CASE k \notin DOMAIN values
    <3>1. k = name /\ new[k] = value
      BY <1>3, <2>2
    <3>2. ASSUME NEW m \in Lines(t), NEW o \in Colon(t, m), FieldName(t, m, o) = k
          PROVE n[1] <= m[1]
      <4>1. CASE m = n
        BY <4>1
      <4>2. CASE m \in Lines(s)
        BY <1>1, <2>2, <3>2, <4>2 DEF Fields
      <4> QED BY <4>1, <4>2
    <3> QED BY <3>1, <3>2
  <2> QED BY <2>1, <2>2
<1> QED BY <1>4, <1>5 DEF Fields, new

LEMMA OpenLineStep ==
  ASSUME NEW h \in Header, ~ h.bFirstLine, NEW s \in Seq(Text), NEW b \in 0 .. Len(s),
         OpenLine(h, s, b), NEW c \in Solid
  PROVE  /\ OpenLine(OnCharacter(h, c), Append(s, c), b)
         /\ OnCharacter(h, c).values = h.values
         /\ OnCharacter(h, c).bFirstLine = h.bFirstLine
         /\ OnCharacter(h, c).bFinished = h.bFinished
<1> DEFINE t == Append(s, c)
           L == Len(s)
           g == OnCharacter(h, c)
<1>1. /\ t \in Seq(Text) /\ Len(t) = L + 1 /\ L \in Nat
      /\ \A i \in 1 .. L : t[i] = s[i]
      /\ t[L + 1] = c /\ c \in Text
  <2>1. c \in Text
    BY DEF Solid, Text
  <2> QED BY <2>1, AppendProperties
<1>2. ASSUME NEW m \in 1 .. L + 1, NEW n \in m - 1 .. L
      PROVE SubSeq(t, m, n) = SubSeq(s, m, n)
  BY <1>1, PartOfAppend
<1>3. ASSUME NEW m \in 1 .. L + 1
      PROVE SubSeq(t, m, L + 1) = Append(SubSeq(s, m, L), c)
  <2>1. m \in 1 .. Len(t) /\ L \in m - 1 .. Len(t) - 1
    BY <1>1
  <2>2. SubSeq(t, m, L + 1) = Append(SubSeq(t, m, L), t[L + 1])
    <3> HIDE DEF t
    <3> QED BY <2>1, <1>1, PartToEnd
  <2>3. L \in m - 1 .. L
    BY <1>1
  <2> QED BY <1>1, <1>2, <2>2, <2>3
<1>4. SubSeq(t, L + 2, L + 1) = <<>>
  <2>1. L + 2 \in Int /\ L + 1 \in Int /\ L + 2 > L + 1
    BY <1>1
  <2> HIDE DEF t
  <2> QED BY <2>1, SubSeqEmpty
<1> HIDE DEF t
<1>5. /\ h.bName \in BOOLEAN
      /\ \A x \in Seq(Solid) :
           /\ [h EXCEPT !.buffer = x].buffer = x
           /\ [h EXCEPT !.buffer = x].name = h.name
           /\ [h EXCEPT !.buffer = x].bName = h.bName
           /\ [h EXCEPT !.buffer = x].values = h.values
           /\ [h EXCEPT !.buffer = x].bFirstLine = h.bFirstLine
           /\ [h EXCEPT !.buffer = x].bFinished = h.bFinished
  BY DEF Header
<1>6. Append(h.buffer, c) \in Seq(Solid)
  <2>1. h.buffer \in Seq(Solid)
    BY DEF Header
  <2> QED BY <2>1, AppendProperties
<1>7. b + 1 \in 1 .. L + 1 /\ L \in (b + 1) - 1 .. L
  BY <1>1
<1>8. CASE c # ":" \/ ~ h.bName
  <2>1. g = [h EXCEPT !.buffer = Append(h.buffer, c)]
    <3>1. c # "cr" /\ c # "nl"
      BY DEF Solid
    <3>2. g = OnOther(h, c)
      BY <1>8, <3>1 DEF OnCharacter, OnColon
    <3> QED BY <3>2 DEF OnOther
  <2>2. /\ g.buffer = Append(h.buffer, c) /\ g.name = h.name /\ g.bName = h.bName
        /\ g.values = h.values /\ g.bFirstLine = h.bFirstLine
        /\ g.bFinished = h.bFinished
    BY <2>1, <1>5, <1>6
  <2> HIDE DEF g
  <2>3. CASE h.bName
    <3>1. /\ \A k \in b + 1 .. L : s[k] # ":"
          /\ h.buffer = SubSeq(s, b + 1, L)
      BY <2>3 DEF OpenLine
    <3>2. ASSUME NEW k \in b + 1 .. L + 1 PROVE t[k] # ":"
      <4>1. CASE k = L + 1
        BY <1>1, <1>8, <2>3, <4>1
      <4>2. CASE k # L + 1
        <5>1. k \in b + 1 .. L /\ k \in 1 .. L
          BY <1>1, <4>2
        <5> QED BY <1>1, <3>1, <5>1
      <4> QED BY <4>1, <4>2
    <3>3. g.buffer = SubSeq(t, b + 1, L + 1)
      BY <1>3, <1>7, <2>2, <3>1
    <3>4. OpenLine(g, t, b)
      BY <1>1, <2>2, <2>3, <3>2, <3>3 DEF OpenLine
    <3> QED BY <2>2, <3>4 DEF g, t
  <2>4. CASE ~ h.bName
    <3>1. PICK i \in b + 1 .. L :
            /\ s[i] = ":"
            /\ \A k \in b + 1 .. i - 1 : s[k] # ":"
            /\ h.name = Trim(SubSeq(s, b + 1, i - 1))
            /\ h.buffer = SubSeq(s, i + 1, L)
      BY <2>4 DEF OpenLine
    <3>2. /\ i \in 1 .. L /\ i - 1 \in (b + 1) - 1 .. L
          /\ i + 1 \in 1 .. L + 1
          /\ i \in b + 1 .. L + 1
          /\ \A k \in b + 1 .. i - 1 : k \in 1 .. L
      BY <1>1
    <3>3. SubSeq(t, b + 1, i - 1) = SubSeq(s, b + 1, i - 1)
      BY <1>2, <1>7, <3>2
    <3>4. SubSeq(t, i + 1, L + 1) = Append(SubSeq(s, i + 1, L), c)
      BY <1>3, <3>2
    <3>5. /\ t[i] = ":"
          /\ \A k \in b + 1 .. i - 1 : t[k] # ":"
          /\ g.name = Trim(SubSeq(t, b + 1, i - 1))
          /\ g.buffer = SubSeq(t, i + 1, L + 1)
      BY <1>1, <2>2, <3>1, <3>2, <3>3, <3>4
    <3>6. OpenLine(g, t, b)
      BY <1>1, <2>2, <2>4, <3>2, <3>5 DEF OpenLine
    <3> QED BY <2>2, <3>6 DEF g, t
  <2> QED BY <2>3, <2>4, <1>5
<1>9. CASE c = ":" /\ h.bName
  <2>1. g = [h EXCEPT !.name = Trim(h.buffer), !.buffer = <<>>, !.bName = FALSE]
    BY <1>9 DEF OnCharacter, OnColon
  <2>2. /\ g.buffer = <<>> /\ g.name = Trim(h.buffer) /\ ~ g.bName
        /\ g.values = h.values /\ g.bFirstLine = h.bFirstLine
        /\ g.bFinished = h.bFinished
    BY <2>1 DEF Header
  <2> HIDE DEF g
  <2>3. /\ \A k \in b + 1 .. L : s[k] # ":"
        /\ h.buffer = SubSeq(s, b + 1, L)
    BY <1>9 DEF OpenLine
  <2> DEFINE i == L + 1
  <2>4. /\ i \in b + 1 .. L + 1 /\ i - 1 = L /\ i + 1 = L + 2
        /\ \A k \in b + 1 .. L : k \in 1 .. L
    BY <1>1
  <2>5. SubSeq(t, b + 1, L) = SubSeq(s, b + 1, L)
    BY <1>2, <1>7
  <2>6. /\ t[i] = ":"
        /\ \A k \in b + 1 .. i - 1 : t[k] # ":"
        /\ g.name = Trim(SubSeq(t, b + 1, i - 1))
        /\ g.buffer = SubSeq(t, i + 1, Len(t))
    BY <1>1, <1>4, <1>9, <2>2, <2>3, <2>4, <2>5
  <2>7. OpenLine(g, t, b)
    <3> HIDE DEF i
    <3> QED BY <1>1, <2>2, <2>4, <2>6 DEF OpenLine
  <2> QED BY <2>2, <2>7 DEF g, t
<1> QED BY <1>5, <1>8, <1>9

\* A character that is no newline.
LEMMA SolidStep ==
  ASSUME NEW h \in Header, NEW s \in Seq(Text), Describes(h, s), ~ h.bFinished,
         NEW c \in Solid
  PROVE  Describes(OnCharacter(h, c), Append(s, c))
<1> DEFINE t == Append(s, c)
           g == OnCharacter(h, c)
<1>1. /\ t \in Seq(Text) /\ Len(t) = Len(s) + 1 /\ Len(s) \in Nat
      /\ c \in Text /\ c # "nl" /\ c # "cr"
  <2>1. c \in Text /\ c # "nl" /\ c # "cr"
    BY DEF Solid, Text
  <2> QED BY <2>1, AppendProperties
<1>2. Newlines(t) = Newlines(s) /\ Lines(t) = Lines(s)
  BY <1>1, LinesOfOpenLine
<1>3. \A l \in Lines(s) : SameLine(s, t, l)
  BY <1>1, OldLinesKept
<1>4. \A l \in Lines(s) : TextOf(t, l) = TextOf(s, l)
  BY <1>3 DEF SameLine
<1>5. ~ \E l \in Lines(s) : TextOf(s, l) = <<>>
  BY DEF Describes
<1>6. Fields(h.values, t)
  <2> HIDE DEF t
  <2>1. Fields(h.values, s)
    BY DEF Describes
  <2> QED BY <1>2, <1>3, <2>1, FieldsKept
<1>7. CASE h.bFirstLine
  <2>1. g = OnOther(h, c)
    BY <1>1, <1>7 DEF OnCharacter, OnColon
  <2>2. /\ g.bName = h.bName /\ g.values = h.values /\ g.bFirstLine = h.bFirstLine
        /\ g.bFinished = h.bFinished
    BY <2>1 DEF OnOther, Header
  <2> HIDE DEF g, t
  <2>3. Newlines(s) = {} /\ h.bName /\ DOMAIN h.values = {}
    BY <1>7 DEF Describes
  <2>4. Describes(g, t)
    BY <1>2, <1>4, <1>5, <1>6, <1>7, <2>2, <2>3 DEF Describes
  <2> QED BY <2>4 DEF g, t
<1>8. CASE ~ h.bFirstLine
  <2>1. PICK b \in Newlines(s) :
          (\A k \in Newlines(s) : k <= b) /\ OpenLine(h, s, b)
    BY <1>8 DEF Describes
  <2>2. b \in 0 .. Len(s)
    BY <1>1 DEF Newlines
  <2>3. /\ OpenLine(g, t, b) /\ g.values = h.values
        /\ g.bFirstLine = h.bFirstLine /\ g.bFinished = h.bFinished
    BY <1>8, <2>1, <2>2, OpenLineStep
  <2> HIDE DEF g, t
  <2>4. Describes(g, t)
    BY <1>2, <1>4, <1>5, <1>6, <1>8, <2>1, <2>3 DEF Describes
  <2> QED BY <2>4 DEF g, t
<1> QED BY <1>7, <1>8 DEF Header

\* The newline behind the first line.
LEMMA FirstNewlineStep ==
  ASSUME NEW h \in Header, NEW s \in Seq(Text), Describes(h, s), h.bFirstLine
  PROVE  Describes(OnCharacter(h, "nl"), Append(s, "nl"))
<1> DEFINE t == Append(s, "nl")
           g == OnCharacter(h, "nl")
           b == Len(s) + 1
<1>1. t \in Seq(Text) /\ Len(t) = b /\ Len(s) \in Nat /\ b \in Nat
  <2>1. "nl" \in Text
    BY DEF Text, Token
  <2> QED BY <2>1, AppendProperties
<1>2. Newlines(s) = {} /\ h.bName /\ ~ h.bFinished /\ DOMAIN h.values = {}
  BY DEF Describes
<1>3. Newlines(t) = {b} /\ Lines(t) = {}
  BY <1>2, LinesOfNewline
<1>4. g = [h EXCEPT !.bFirstLine = FALSE, !.buffer = <<>>]
  BY DEF OnCharacter, OnNewline
<1>5. /\ g.bName /\ ~ g.bFirstLine /\ ~ g.bFinished /\ g.buffer = <<>>
      /\ DOMAIN g.values = {}
  BY <1>2, <1>4 DEF Header
<1>6. SubSeq(t, b + 1, Len(t)) = <<>>
  <2>1. b + 1 \in Int /\ b \in Int /\ b + 1 > b
    BY <1>1
  <2> HIDE DEF t, b
  <2> QED BY <1>1, <2>1, SubSeqEmpty
<1> HIDE DEF t, g, b
<1>7. OpenLine(g, t, b)
  <2>1. \A k \in b + 1 .. Len(t) : FALSE
    BY <1>1
  <2> QED BY <1>5, <1>6, <2>1 DEF OpenLine
<1>8. Fields(g.values, t)
  BY <1>3, <1>5 DEF Fields
<1>9. b \in Newlines(t) /\ (\A k \in Newlines(t) : k <= b)
  BY <1>1, <1>3
<1>10. Describes(g, t)
  BY <1>3, <1>5, <1>7, <1>8, <1>9 DEF Describes
<1> QED BY <1>10 DEF g, t

\* The newline behind any other line.
LEMMA NewlineStep ==
  ASSUME NEW h \in Header, NEW s \in Seq(Text), Describes(h, s), ~ h.bFinished,
         ~ h.bFirstLine
  PROVE  Describes(OnCharacter(h, "nl"), Append(s, "nl"))
<1> DEFINE t == Append(s, "nl")
           g == OnCharacter(h, "nl")
           L == Len(s)
<1>1. /\ t \in Seq(Text) /\ Len(t) = L + 1 /\ L \in Nat
      /\ \A i \in 1 .. L : t[i] = s[i]
      /\ "nl" \in Text
  <2>1. "nl" \in Text
    BY DEF Text, Token
  <2> QED BY <2>1, AppendProperties
<1>2. PICK b \in Newlines(s) :
        (\A k \in Newlines(s) : k <= b) /\ OpenLine(h, s, b)
  BY DEF Describes
<1> DEFINE n == <<b, L + 1>>
<1>3. b \in 1 .. L /\ n[1] = b /\ n[2] = L + 1
  BY DEF Newlines
<1>4. /\ Newlines(t) = Newlines(s) \cup {L + 1}
      /\ Lines(t) = Lines(s) \cup {n}
  BY <1>2, LinesOfNewline
<1>5. \A l \in Lines(s) : SameLine(s, t, l)
  BY <1>1, OldLinesKept
<1>6. \A l \in Lines(s) : l[1] <= b /\ l[2] <= L /\ TextOf(t, l) # <<>>
  <2>1. ~ \E l \in Lines(s) : TextOf(s, l) = <<>>
    BY DEF Describes
  <2>2. \A l \in Lines(s) : TextOf(t, l) # <<>>
    BY <1>5, <2>1 DEF SameLine
  <2>3. \A l \in Lines(s) : l[1] <= b /\ l[2] <= L
    BY <1>2, LineBounds
  <2> QED BY <2>2, <2>3
<1>7. Fields(h.values, s)
  BY DEF Describes
<1>8. ASSUME NEW m \in 1 .. L + 1, NEW k \in m - 1 .. L
      PROVE SubSeq(t, m, k) = SubSeq(s, m, k)
  BY <1>1, PartOfAppend
<1>9. /\ h.bName \in BOOLEAN /\ h.buffer \in Seq(Solid) /\ h.buffer \in Seq(Token)
      /\ h.values \in Values /\ h.name \in Seq(Token)
  BY SolidToken DEF Header
<1>10. /\ g.bName /\ ~ g.bFirstLine /\ g.buffer = <<>>
       /\ g.bFinished <=> h.bName /\ h.buffer = <<>>
       /\ g.values = IF h.bName THEN h.values
                     ELSE Insert(h.values, h.name, Trim(h.buffer))
  <2>1. g = [h EXCEPT !.values = IF h.bName THEN h.values
                                 ELSE Insert(h.values, h.name, Trim(h.buffer)),
                      !.bFinished = h.bName /\ h.buffer = <<>>,
                      !.bName = TRUE,
                      !.buffer = <<>>]
    BY DEF OnCharacter, OnNewline
  <2> QED BY <2>1 DEF Header
<1>11. TextOf(t, n) = SubSeq(s, b + 1, L) /\ L \in (b + 1) - 1 .. L /\ b + 1 \in 1 .. L + 1
  <2>1. b + 1 \in 1 .. L + 1 /\ L \in (b + 1) - 1 .. L /\ (L + 1) - 1 = L
    BY <1>1, <1>3
  <2> QED BY <2>1, <1>3, <1>8 DEF TextOf
<1>12. Colon(t, n) = {i \in b + 1 .. L : s[i] = ":" /\ \A k \in b + 1 .. i - 1 : s[k] # ":"}
  <2>1. (L + 1) - 1 = L
    BY <1>1
  <2>2. \A i \in b + 1 .. L : t[i] = s[i] /\ \A k \in b + 1 .. i - 1 : t[k] = s[k]
    BY <1>1, <1>3
  <2> HIDE DEF t, L
  <2> QED BY <2>1, <2>2, <1>3 DEF Colon
<1>13. OpenLine(g, t, L + 1)
  <2>1. SubSeq(t, L + 2, L + 1) = <<>>
    <3>1. L + 2 \in Int /\ L + 1 \in Int /\ L + 2 > L + 1
      BY <1>1
    <3> HIDE DEF t
    <3> QED BY <3>1, SubSeqEmpty
  <2>2. (L + 1) + 1 = L + 2 /\ \A k \in L + 2 .. L + 1 : FALSE
    BY <1>1
  <2> HIDE DEF g, t
  <2> QED BY <1>1, <1>10, <2>1, <2>2 DEF OpenLine
<1> HIDE DEF g, t
<1>14. /\ g.bFinished <=> TextOf(t, n) = <<>>
       /\ Fields(g.values, t)
  <2>1. CASE h.bName
    <3>1. /\ \A k \in b + 1 .. L : s[k] # ":"
          /\ h.buffer = SubSeq(s, b + 1, L)
      BY <1>2, <2>1 DEF OpenLine
    <3>2. Colon(t, n) = {}
      BY <1>12, <3>1
    <3>3. Fields(h.values, t)
      <4> HIDE DEF n
      <4> QED BY <1>4, <1>5, <1>7, <3>2, FieldsPlain
    <3> QED BY <1>10, <1>11, <2>1, <3>1, <3>3
  <2>2. CASE ~ h.bName
    <3>1. PICK i \in b + 1 .. L :
            /\ s[i] = ":"
            /\ \A k \in b + 1 .. i - 1 : s[k] # ":"
            /\ h.name = Trim(SubSeq(s, b + 1, i - 1))
            /\ h.buffer = SubSeq(s, i + 1, L)
      BY <1>2, <2>2 DEF OpenLine
    <3>2. /\ i \in Int /\ i \in 1 .. L /\ i - 1 \in (b + 1) - 1 .. L
          /\ i + 1 \in 1 .. L + 1 /\ L \in (i + 1) - 1 .. L
      BY <1>1, <1>3
    <3>3. Colon(t, n) = {i}
      <4>1. i \in Colon(t, n)
        BY <1>12, <3>1
      <4>2. ASSUME NEW j \in Colon(t, n) PROVE j = i
        <5>1. j \in b + 1 .. L /\ s[j] = ":" /\ \A k \in b + 1 .. j - 1 : s[k] # ":"
          BY <1>12
        <5>2. ~ (i < j) /\ ~ (j < i)
          BY <1>1, <1>3, <3>1, <3>2, <5>1
        <5> QED BY <1>1, <1>3, <3>2, <5>1, <5>2
      <4> QED BY <4>1, <4>2
    <3>4. FieldName(t, n, i) = h.name
      BY <1>3, <1>8, <1>11, <3>1, <3>2 DEF FieldName
    <3>5. FieldValue(t, n, i) = Trim(h.buffer)
      <4>1. (L + 1) - 1 = L
        BY <1>1
      <4>2. SubSeq(t, i + 1, L) = SubSeq(s, i + 1, L)
        BY <1>8, <3>2
      <4> QED BY <1>3, <3>1, <4>1, <4>2 DEF FieldValue
    <3>6. Trim(h.buffer) \in Seq(Token)
      BY <1>9, TrimType
    <3>7. Fields(Insert(h.values, FieldName(t, n, i), FieldValue(t, n, i)), t)
      <4>1. n[1] \in Nat /\ \A l \in Lines(s) : l[1] <= n[1]
        BY <1>3, <1>6
      <4> HIDE DEF n
      <4> QED BY <1>4, <1>5, <1>7, <1>9, <3>3, <3>4, <3>5, <3>6, <4>1, FieldsNamed
    <3>8. TextOf(t, n) # <<>>
      <4>1. b + 1 <= L
        BY <1>1, <1>3, <3>2
      <4>2. Len(SubSeq(s, b + 1, L)) = L - (b + 1) + 1
        BY <1>11, PartProperties
      <4>3. L - (b + 1) + 1 # 0
        BY <1>1, <1>3, <4>1
      <4> QED BY <1>11, <4>2, <4>3, EmptySeq
    <3> QED BY <1>10, <2>2, <3>4, <3>5, <3>7, <3>8
  <2> QED BY <1>9, <2>1, <2>2
<1>15. Describes(g, t)
  <2>1. L + 1 \in Newlines(t) /\ \A k \in Newlines(t) : k <= L + 1
    <3>1. \A k \in Newlines(s) : k <= L + 1
      BY <1>1 DEF Newlines
    <3> QED BY <1>1, <1>4, <3>1
  <2>2. (\E l \in Lines(t) : TextOf(t, l) = <<>>) <=> TextOf(t, n) = <<>>
    BY <1>4, <1>6
  <2>3. \A l \in Lines(t) : TextOf(t, l) = <<>> => l[2] = L + 1
    BY <1>3, <1>4, <1>6
  <2> HIDE DEF n, L
  <2> QED BY <1>1, <1>10, <1>13, <1>14, <2>1, <2>2, <2>3 DEF Describes
<1> QED BY <1>15 DEF g, t

LEMMA DescribesStep ==
  ASSUME NEW h \in Header, NEW s \in Seq(Text), Describes(h, s), ~ h.bFinished,
         NEW c \in Token
  PROVE  Describes(OnCharacter(h, c), IF c = "cr" THEN s ELSE Append(s, c))
<1>1. CASE c = "cr"
  BY <1>1 DEF OnCharacter
<1>2. CASE c = "nl"
  BY <1>2, FirstNewlineStep, NewlineStep
<1>3. CASE c # "cr" /\ c # "nl"
  <2>1. c \in Solid
    BY <1>3 DEF Solid
  <2> QED BY <1>3, <2>1, SolidStep
<1> QED BY <1>1, <1>2, <1>3

-------------------------------------------------------------------------------
(* The length and the parser *)

LEMMA LengthType ==
  ASSUME NEW h PROVE ContentLength(h) \in -IntMax - 1 .. IntMax
<1>1. -1 \in -IntMax - 1 .. IntMax
  BY HeaderAssumption
<1>2. ASSUME NEW text PROVE Stoi(text) \in -IntMax - 1 .. IntMax
  BY <1>1 DEF Stoi
<1> QED BY <1>1, <1>2 DEF ContentLength

Parser ==
  [opened : BOOLEAN, refused : BOOLEAN, thrown : BOOLEAN, line : Seq(Token), calls : Nat]

OnBody ==
  [q \in Parser \X Token |->
     CASE q[1].refused \/ q[1].thrown \/ q[2] = "cr" -> q[1]
       [] ~ q[1].refused /\ ~ q[1].thrown /\ q[2] = "nl" -> OnLine(q[1])
       [] OTHER -> [q[1] EXCEPT !.line = Append(@, q[2])]]

LEMMA CountedType ==
  ASSUME NEW line \in Seq(Token) PROVE Counted(line) \in Nat
<1>1. Len(line) \in Nat
  OBVIOUS
<1>2. IsFiniteSet(1 .. Len(line))
  BY <1>1, FS_Interval
<1>3. IsFiniteSet({i \in 1 .. Len(line) : line[i] = "call"})
  BY <1>2, FS_Subset
<1> QED BY <1>3, FS_CardinalityType DEF Counted

LEMMA OnLineType ==
  ASSUME NEW p \in Parser PROVE OnLine(p) \in Parser
<1>1. /\ p.line \in Seq(Token) /\ <<>> \in Seq(Token) /\ p.calls + Counted(p.line) \in Nat
      /\ p.opened \in BOOLEAN
  BY CountedType, EmptySeq DEF Parser
<1> DEFINE blank == \A i \in 1 .. Len(p.line) : p.line[i] \in {"call", "sp"}
<1>2. CASE p.opened /\ blank
  <2>1. OnLine(p) = [p EXCEPT !.calls = p.calls + Counted(p.line), !.line = <<>>]
    BY <1>2 DEF OnLine
  <2> QED BY <1>1, <2>1 DEF Parser
<1>3. CASE p.opened /\ ~ blank
  <2>1. OnLine(p) = [p EXCEPT !.thrown = TRUE]
    BY <1>3 DEF OnLine
  <2> QED BY <2>1 DEF Parser
<1>4. CASE ~ p.opened /\ p.line = <<"xml">>
  <2>1. OnLine(p) = [p EXCEPT !.opened = TRUE, !.line = <<>>]
    BY <1>4 DEF OnLine
  <2> QED BY <1>1, <2>1 DEF Parser
<1>5. CASE ~ p.opened /\ p.line # <<"xml">>
  <2>1. OnLine(p) = [p EXCEPT !.refused = TRUE]
    BY <1>5 DEF OnLine
  <2> QED BY <2>1 DEF Parser
<1> QED BY <1>1, <1>2, <1>3, <1>4, <1>5

LEMMA OnBodyType == OnBody \in [Parser \X Token -> Parser]
<1> SUFFICES ASSUME NEW p \in Parser, NEW c \in Token
             PROVE (CASE p.refused \/ p.thrown \/ c = "cr" -> p
                      [] ~ p.refused /\ ~ p.thrown /\ c = "nl" -> OnLine(p)
                      [] OTHER -> [p EXCEPT !.line = Append(@, c)]) \in Parser
  BY DEF OnBody
<1>1. Append(p.line, c) \in Seq(Token) /\ p.refused \in BOOLEAN /\ p.thrown \in BOOLEAN
  BY AppendProperties DEF Parser
<1>2. \A x \in Seq(Token) : [p EXCEPT !.line = x] \in Parser
  BY DEF Parser
<1>3. [p EXCEPT !.line = Append(@, c)] \in Parser
  BY <1>1, <1>2
<1>4. OnLine(p) \in Parser
  BY OnLineType
<1> QED BY <1>1, <1>3, <1>4

LEMMA ClosedType == Closed \in Parser
  BY EmptySeq DEF Closed, Parser

LEMMA ParsePasses ==
  ASSUME NEW s \in Seq(Token)
  PROVE  \E f : PassesOver(f, Closed, OnBody, s, Parser) /\ ParseBody(s) = f[Len(s)]
<1> DEFINE parsed == CHOOSE parsed : parsed = [n \in 0 .. Len(s) |->
                       IF n = 0 THEN Closed
                       ELSE LET p == parsed[n - 1]
                            IN CASE p.refused \/ p.thrown \/ s[n] = "cr" -> p
                                 [] ~ p.refused /\ ~ p.thrown /\ s[n] = "nl" -> OnLine(p)
                                 [] OTHER -> [p EXCEPT !.line = Append(@, s[n])]]
<1>1. ParseBody(s) = parsed[Len(s)]
  BY DEF ParseBody
<1>2. /\ Len(s) \in Nat /\ \A n \in 1 .. Len(s) : s[n] \in Token
      /\ \A n \in 1 .. Len(s) : n - 1 \in 0 .. Len(s) /\ n \in 0 .. Len(s) /\ n # 0
      /\ \A n \in 0 .. Len(s) : n # 0 => n \in 1 .. Len(s)
      /\ 0 \in 0 .. Len(s)
  BY ElementOfSeq
<1>3. ASSUME NEW p \in Parser, NEW c \in Token
      PROVE OnBody[<<p, c>>] =
              CASE p.refused \/ p.thrown \/ c = "cr" -> p
                [] ~ p.refused /\ ~ p.thrown /\ c = "nl" -> OnLine(p)
                [] OTHER -> [p EXCEPT !.line = Append(@, c)]
  BY DEF OnBody
<1>4. PICK f \in [0 .. Len(s) -> Parser] : PassesOver(f, Closed, OnBody, s, Parser)
  BY ClosedType, OnBodyType, PassExists
<1>5. f = [n \in 0 .. Len(s) |->
             IF n = 0 THEN Closed
             ELSE LET p == f[n - 1]
                  IN CASE p.refused \/ p.thrown \/ s[n] = "cr" -> p
                       [] ~ p.refused /\ ~ p.thrown /\ s[n] = "nl" -> OnLine(p)
                       [] OTHER -> [p EXCEPT !.line = Append(@, s[n])]]
  <2>1. f = [n \in 0 .. Len(s) |-> f[n]]
    OBVIOUS
  <2>2. ASSUME NEW n \in 0 .. Len(s)
        PROVE f[n] = IF n = 0 THEN Closed
                     ELSE LET p == f[n - 1]
                          IN CASE p.refused \/ p.thrown \/ s[n] = "cr" -> p
                               [] ~ p.refused /\ ~ p.thrown /\ s[n] = "nl" -> OnLine(p)
                               [] OTHER -> [p EXCEPT !.line = Append(@, s[n])]
    <3>1. n # 0 => f[n - 1] \in Parser /\ s[n] \in Token
      BY <1>2
    <3>2. n # 0 => f[n] = OnBody[<<f[n - 1], s[n]>>]
      BY <1>2, <1>4 DEF PassesOver
    <3>3. f[0] = Closed
      BY <1>4 DEF PassesOver
    <3> QED BY <3>1, <3>2, <3>3, <1>3
  <2> QED BY <2>1, <2>2
<1>6. parsed = [n \in 0 .. Len(s) |->
                  IF n = 0 THEN Closed
                  ELSE LET p == parsed[n - 1]
                       IN CASE p.refused \/ p.thrown \/ s[n] = "cr" -> p
                            [] ~ p.refused /\ ~ p.thrown /\ s[n] = "nl" -> OnLine(p)
                            [] OTHER -> [p EXCEPT !.line = Append(@, s[n])]]
  BY <1>5
<1> HIDE DEF parsed
<1>7. parsed[0] = Closed
  BY <1>2, <1>6
<1>8. ASSUME NEW n \in 1 .. Len(s), parsed[n - 1] \in Parser
      PROVE parsed[n] = OnBody[<<parsed[n - 1], s[n]>>]
  <2> DEFINE p == parsed[n - 1]
  <2>1. parsed[n] = CASE p.refused \/ p.thrown \/ s[n] = "cr" -> p
                      [] ~ p.refused /\ ~ p.thrown /\ s[n] = "nl" -> OnLine(p)
                      [] OTHER -> [p EXCEPT !.line = Append(@, s[n])]
    BY <1>2, <1>6
  <2> HIDE DEF p
  <2> QED BY <2>1, <1>2, <1>3, <1>8 DEF p
<1>9. PassesOver(parsed, Closed, OnBody, s, Parser)
  BY <1>2, <1>7, <1>8, ClosedType, OnBodyType, PassTyped
<1> QED BY <1>1, <1>9

LEMMA ParseType ==
  ASSUME NEW s \in Seq(Token) PROVE ParseBody(s) \in Parser
<1>1. Len(s) \in 0 .. Len(s)
  OBVIOUS
<1> QED BY <1>1, ParsePasses DEF PassesOver

-------------------------------------------------------------------------------
(* Types *)

\* The state of the constructor, for every character that it may have read.
Typed ==
  /\ stream \in Seq(Token)
  /\ at \in 1 .. Len(stream) + 1
  /\ header \in Header
  /\ header.bFirstLine => header.bName /\ DOMAIN header.values = {}
  /\ length \in -IntMax - 1 .. IntMax
  /\ phase \in {"header", "body", "answered", "closed", "aborted"}
  /\ calls \in Nat

LEMMA TypedInit == Init => Typed
<1> SUFFICES ASSUME Init PROVE Typed
  OBVIOUS
<1>1. stream \in Seq(Token) /\ Len(stream) = 0 /\ at = 1
  BY EmptySeq DEF Init
<1>2. header \in Header /\ header.bName /\ DOMAIN header.values = {}
  BY StartTypes DEF Init, Start
<1>3. 0 \in -IntMax - 1 .. IntMax /\ 1 \in 1 .. 0 + 1 /\ 0 \in Nat
  BY HeaderAssumption
<1> QED BY <1>1, <1>2, <1>3 DEF Init, Typed

\* Only a newline ends the first line, or the header.
LEMMA OnCharacterFlags ==
  ASSUME NEW h \in Header, NEW c \in Token
  PROVE  /\ OnCharacter(h, c).bFirstLine =>
              /\ h.bFirstLine
              /\ OnCharacter(h, c).bName = h.bName
              /\ OnCharacter(h, c).values = h.values
         /\ ~ h.bFinished /\ OnCharacter(h, c).bFinished => c = "nl"
<1>1. CASE c = "cr"
  BY <1>1 DEF OnCharacter
<1>2. CASE c = ":"
  BY <1>2 DEF OnCharacter, OnColon, OnOther, Header
<1>3. CASE c = "nl"
  <2>1. OnCharacter(h, c).bFirstLine = FALSE
    BY <1>3 DEF OnCharacter, OnNewline, Header
  <2> QED BY <1>3, <2>1
<1>4. CASE c \notin {"cr", ":", "nl"}
  BY <1>4 DEF OnCharacter, OnOther, Header
<1> QED BY <1>1, <1>2, <1>3, <1>4

LEMMA BodyType ==
  ASSUME Typed, NEW n \in at - 1 .. Len(stream)
  PROVE  Body(n) \in Seq(Token)
<1>1. /\ at \in 1 .. Len(stream) + 1 /\ Len(stream) \in Nat
      /\ 1 \in 1 .. Len(stream) + 1 /\ n \in 1 - 1 .. Len(stream)
  BY DEF Typed
<1>2. \A m \in 1 .. Len(stream) + 1 : n \in m - 1 .. Len(stream) =>
        SubSeq(stream, m, n) \in Seq(Token)
  BY PartProperties DEF Typed
<1> QED BY <1>1, <1>2 DEF Body

LEMMA TypedStep == Typed /\ [Next]_vars => Typed'
<1> SUFFICES ASSUME Typed, [Next]_vars PROVE Typed'
  OBVIOUS
<1>1. stream \in Seq(Token) /\ Len(stream) \in Nat /\ at \in 1 .. Len(stream) + 1
  BY DEF Typed
<1>2. ASSUME NEW l \in Line, Arrive(l) PROVE Typed'
  <2>1. stream' = stream \o l /\ l \in Seq(Token)
    BY <1>2, HeaderAssumption DEF Arrive
  <2>2. stream' \in Seq(Token) /\ Len(stream') = Len(stream) + Len(l) /\ Len(l) \in Nat
    BY <1>1, <2>1, ConcatProperties
  <2>3. at \in 1 .. Len(stream') + 1
    BY <1>1, <2>2
  <2> QED BY <1>2, <2>2, <2>3 DEF Arrive, Typed
<1>3. CASE ScanHeader
  <2>1. /\ at \in 1 .. Len(stream) /\ at' = at + 1
        /\ header' = OnCharacter(header, stream[at]) /\ stream' = stream
    BY <1>1, <1>3 DEF ScanHeader
  <2>2. stream[at] \in Token
    BY <1>1, <2>1, ElementOfSeq
  <2>3. /\ header' \in Header
        /\ header'.bFirstLine => header'.bName /\ DOMAIN header'.values = {}
    BY <2>1, <2>2, OnCharacterTypes, OnCharacterFlags DEF Typed
  <2>4. at' \in 1 .. Len(stream) + 1
    BY <1>1, <2>1
  <2> QED BY <1>3, <2>1, <2>3, <2>4 DEF ScanHeader, Typed
<1>4. CASE EndOfHeader
  <2>1. /\ SubSeq(stream, 1, at - 1) \in Seq(Token)
        /\ Len(SubSeq(stream, 1, at - 1)) = at - 1
    <3>1. 1 \in 1 .. Len(stream) + 1 /\ at - 1 \in 1 - 1 .. Len(stream)
          /\ (at - 1) - 1 + 1 = at - 1
      BY <1>1
    <3> QED BY <1>1, <3>1, PartProperties
  <2>2. stream' \in Seq(Token) /\ at \in 1 .. Len(stream') + 1
    BY <1>1, <1>4, <2>1 DEF EndOfHeader
  <2>3. length' \in -IntMax - 1 .. IntMax
    BY <1>4, LengthType DEF EndOfHeader
  <2> QED BY <1>4, <2>2, <2>3 DEF EndOfHeader, Typed
<1>5. ASSUME NEW n \in at - 1 .. Len(stream), ReceiveBody(n) PROVE Typed'
  <2>1. ParseBody(Body(n)).calls \in Nat
    BY BodyType, ParseType DEF Parser
  <2>2. calls' \in Nat /\ phase' \in {"answered", "closed", "aborted"}
    BY <1>5, <2>1 DEF ReceiveBody, Typed
  <2>3. SubSeq(stream, 1, n) \in Seq(Token) /\ Len(SubSeq(stream, 1, n)) = n
    <3>1. 1 \in 1 .. Len(stream) + 1 /\ n \in 1 - 1 .. Len(stream) /\ n - 1 + 1 = n
      BY <1>1
    <3> QED BY <1>1, <3>1, PartProperties
  <2>4. at \in 1 .. n + 1
    BY <1>1
  <2> QED BY <1>5, <2>2, <2>3, <2>4 DEF ReceiveBody, Typed
<1>6. CASE UNCHANGED vars
  BY <1>6 DEF Typed, vars
<1> QED BY <1>2, <1>3, <1>4, <1>5, <1>6 DEF Next

LEMMA TypedAlways == Spec => []Typed
  BY TypedInit, TypedStep, PTL DEF Spec

\* The locals of the scan, the length and the request keep their types: a name
\* and a value are set together, the buffer never has a line end, the length is
\* an int whatever the text says (httpheader.cpp:14-104, rpcagent.cpp:29-82).
THEOREM TypeCorrect == Spec => []TypeOK
<1>1. Typed => TypeOK
  <2> SUFFICES ASSUME Typed PROVE TypeOK
    OBVIOUS
  <2>1. PICK D \in SUBSET Seq(Token) : header.values \in [D -> Seq(Token)]
    BY DEF Typed, Header, Values
  <2>2. \A k \in DOMAIN header.values :
          k \in Seq(Token) /\ header.values[k] \in Seq(Token)
    BY <2>1
  <2>3. header.buffer \in Seq(Token \ {"nl", "cr"})
    BY DEF Typed, Header, Solid
  <2> QED BY <2>2, <2>3 DEF Typed, TypeOK, Header
<1> QED BY <1>1, TypedAlways, PTL

-------------------------------------------------------------------------------
(* The header, line by line *)

LEMMA ScanInit == Init => ScanInv
<1> SUFFICES ASSUME Init PROVE ScanInv
  OBVIOUS
<1>1. Scanned = <<>>
  <2>1. SubSeq(stream, 1, at - 1) = <<>>
    <3>1. SubSeq(<<>>, 1, 0) = <<>>
      BY SubSeqEmpty
    <3> QED BY <3>1 DEF Init
  <2> QED BY <2>1, NoReturnsEmpty DEF Scanned
<1>2. Newlines(<<>>) = {} /\ Lines(<<>>) = {}
  <2>1. Newlines(<<>>) = {}
    BY EmptySeq DEF Newlines
  <2> QED BY <2>1 DEF Lines
<1>3. Describes(Start, <<>>)
  BY <1>2 DEF Describes, Start, Fields
<1> QED BY <1>1, <1>3 DEF ScanInv, Init, Start

LEMMA ScanStep == Typed /\ ScanInv /\ [Next]_vars => ScanInv'
<1> SUFFICES ASSUME Typed, ScanInv, [Next]_vars PROVE ScanInv'
  OBVIOUS
<1>1. stream \in Seq(Token) /\ Len(stream) \in Nat /\ at \in 1 .. Len(stream) + 1
  BY DEF Typed
<1>2. ASSUME NEW l \in Line, Arrive(l), phase = "header" PROVE ScanInv'
  <2>1. l \in Seq(Token) /\ stream' = stream \o l /\ at - 1 \in 0 .. Len(stream)
    BY <1>1, <1>2, HeaderAssumption DEF Arrive
  <2>2. SubSeq(stream', 1, at - 1) = SubSeq(stream, 1, at - 1)
    BY <1>1, <2>1, PartOfConcat
  <2> QED BY <1>2, <2>2 DEF Arrive, ScanInv, Scanned
<1>3. CASE ScanHeader
  <2>1. /\ at \in 1 .. Len(stream) /\ at' = at + 1 /\ stream' = stream
        /\ header' = OnCharacter(header, stream[at]) /\ ~ header.bFinished
        /\ phase = "header"
    BY <1>1, <1>3 DEF ScanHeader
  <2> DEFINE s == SubSeq(stream, 1, at - 1)
             c == stream[at]
  <2>2. /\ s \in Seq(Token) /\ c \in Token
        /\ SubSeq(stream, 1, at) = Append(s, c)
    <3>1. /\ 1 \in 1 .. Len(stream) + 1 /\ at - 1 \in 1 - 1 .. Len(stream)
          /\ 1 \in 1 .. Len(stream) /\ at - 1 \in 1 - 1 .. Len(stream) - 1
          /\ (at - 1) + 1 = at
      BY <1>1, <2>1
    <3> QED BY <1>1, <2>1, <3>1, PartProperties, PartToEnd, ElementOfSeq
  <2>3. Scanned' = NoReturns(Append(s, c)) /\ Scanned = NoReturns(s)
    <3>1. at' - 1 = at
      BY <1>1, <2>1
    <3> QED BY <2>1, <2>2, <3>1 DEF Scanned
  <2> HIDE DEF s, c
  <2>4. /\ NoReturns(s) \in Seq(Text)
        /\ Scanned' = IF c = "cr" THEN NoReturns(s) ELSE Append(NoReturns(s), c)
    BY <2>2, <2>3, NoReturnsAppend
  <2>5. Describes(header', Scanned')
    <3>1. Describes(header, NoReturns(s)) /\ header \in Header
      BY <2>1, <2>3 DEF ScanInv, Typed
    <3> QED BY <2>1, <2>2, <2>4, <3>1, DescribesStep DEF c
  <2>6. header'.bFinished => stream'[at' - 1] = "nl"
    <3>1. header'.bFinished => stream[at] = "nl"
      BY <2>1, <2>2, OnCharacterFlags DEF Typed, c
    <3>2. at' - 1 = at
      BY <1>1, <2>1
    <3> QED BY <2>1, <3>1, <3>2
  <2> QED BY <2>5, <2>6 DEF ScanInv
<1>4. CASE EndOfHeader
  BY <1>4 DEF EndOfHeader, ScanInv
<1>5. ASSUME NEW n \in at - 1 .. Len(stream), ReceiveBody(n) PROVE ScanInv'
  BY <1>5 DEF ReceiveBody, ScanInv
<1>6. CASE UNCHANGED vars
  BY <1>6 DEF ScanInv, Scanned, vars
<1>7. ASSUME NEW l \in Line, Arrive(l), phase # "header" PROVE ScanInv'
  BY <1>7 DEF Arrive, ScanInv
<1> QED BY <1>2, <1>3, <1>4, <1>5, <1>6, <1>7 DEF Next

\* Whatever lines a request has and wherever Recv cut it, the scan knows the
\* fields of the complete lines behind the first, the first of each name, and it
\* stops behind the first that is empty (httpheader.cpp:28-72).
THEOREM LineByLine == Spec => []HeaderIsLineByLine
<1>1. Typed /\ ScanInv => HeaderIsLineByLine
  <2> SUFFICES ASSUME Typed, ScanInv, phase = "header"
               PROVE  HeaderIsLineByLine
    BY DEF HeaderIsLineByLine
  <2> DEFINE s == Scanned
             lines == Lines(s)
             named(k) == {l \in lines : \E i \in Colon(s, l) : FieldName(s, l, i) = k}
             First(k, l) == l \in named(k) /\ \A m \in named(k) : l[1] <= m[1]
  <2>1. Describes(header, s) /\ (header.bFinished => stream[at - 1] = "nl")
    BY DEF ScanInv
  <2>2. s \in Seq(Text)
    <3>1. SubSeq(stream, 1, at - 1) \in Seq(Token)
      <4>1. 1 \in 1 .. Len(stream) + 1 /\ at - 1 \in 1 - 1 .. Len(stream)
        BY DEF Typed
      <4> QED BY <4>1, PartProperties DEF Typed
    <3> QED BY <3>1, NoReturnsAppend DEF Scanned, Token
  <2>3. /\ header.bFinished <=> \E l \in lines : TextOf(s, l) = <<>>
        /\ \A l \in lines : TextOf(s, l) = <<>> =>
             stream[at - 1] = "nl" /\ l[2] = Len(s)
        /\ Fields(header.values, s)
    BY <2>1 DEF Describes
  <2>4. ASSUME NEW k, NEW l, First(k, l), NEW m, First(k, m) PROVE l = m
    <3>1. l \in lines /\ m \in lines /\ l[1] <= m[1] /\ m[1] <= l[1]
      BY <2>4
    <3> HIDE DEF s, First, named
    <3>2. /\ l[1] \in Newlines(s) /\ l[2] \in Newlines(s) /\ l[1] < l[2]
          /\ l = <<l[1], l[2]>>
          /\ m[1] \in Newlines(s) /\ m[2] \in Newlines(s) /\ m[1] < m[2]
          /\ m = <<m[1], m[2]>>
          /\ \A i \in Newlines(s) : ~ (l[1] < i /\ i < l[2])
          /\ \A i \in Newlines(s) : ~ (m[1] < i /\ i < m[2])
      BY <2>2, <3>1, LineBounds DEF Lines
    <3>3. \A i \in Newlines(s) : i \in Int
      BY DEF Newlines
    <3>4. l[1] = m[1]
      BY <3>1, <3>2, <3>3
    <3>5. ~ (l[2] < m[2]) /\ ~ (m[2] < l[2])
      BY <3>2, <3>4
    <3>6. l[2] = m[2]
      BY <3>2, <3>3, <3>5
    <3> QED BY <3>2, <3>4, <3>6
  <2>5. ASSUME NEW k \in DOMAIN header.values
        PROVE  /\ named(k) # {}
               /\ \E i \in Colon(s, CHOOSE l \in named(k) : \A m \in named(k) : l[1] <= m[1]) :
                    header.values[k] =
                      FieldValue(s, CHOOSE l \in named(k) : \A m \in named(k) : l[1] <= m[1], i)
    <3>1. PICK l \in lines : \E i \in Colon(s, l) :
            /\ FieldName(s, l, i) = k
            /\ header.values[k] = FieldValue(s, l, i)
            /\ \A m \in lines : \A j \in Colon(s, m) :
                 FieldName(s, m, j) = k => l[1] <= m[1]
      BY <2>3 DEF Fields
    <3>2. First(k, l)
      BY <3>1
    <3> DEFINE first == CHOOSE x \in named(k) : \A m \in named(k) : x[1] <= m[1]
    <3>3. First(k, first)
      BY <3>2
    <3>4. first = l
      <4> HIDE DEF First, first
      <4> QED BY <2>4, <3>2, <3>3
    <3>5. named(k) # {} /\ \E i \in Colon(s, first) : header.values[k] = FieldValue(s, first, i)
      <4> HIDE DEF first
      <4> QED BY <3>1, <3>2, <3>4
    <3> QED BY <3>5
  <2>6. \A l \in lines : \A i \in Colon(s, l) :
          FieldName(s, l, i) \in DOMAIN header.values
    BY <2>3 DEF Fields
  <2> QED BY <2>3, <2>5, <2>6 DEF HeaderIsLineByLine, Scanned
<1>2. Spec => []ScanInv
  <2>1. Init => ScanInv
    BY ScanInit
  <2>2. Typed /\ Typed' /\ ScanInv /\ [Next]_vars => ScanInv'
    BY ScanStep
  <2> QED BY <2>1, <2>2, TypedAlways, PTL DEF Spec
<1> QED BY <1>1, <1>2, TypedAlways, PTL

-------------------------------------------------------------------------------
(* A part of a request *)

\* What a parser knows behind a part of a body it knows behind more of it.
LEMMA ParseGrows ==
  ASSUME NEW p \in Parser, NEW c \in Token
  PROVE  /\ p.calls <= OnBody[<<p, c>>].calls
         /\ p.thrown => OnBody[<<p, c>>].thrown
<1>1. /\ p.line \in Seq(Token) /\ p.calls \in Nat /\ Counted(p.line) \in Nat
      /\ p.opened \in BOOLEAN /\ p.refused \in BOOLEAN /\ p.thrown \in BOOLEAN
  BY CountedType DEF Parser
<1>2. OnBody[<<p, c>>] =
        CASE p.refused \/ p.thrown \/ c = "cr" -> p
          [] ~ p.refused /\ ~ p.thrown /\ c = "nl" -> OnLine(p)
          [] OTHER -> [p EXCEPT !.line = Append(@, c)]
  BY DEF OnBody
<1>3. p.calls <= [p EXCEPT !.line = Append(@, c)].calls /\ p.calls <= p.calls
  BY <1>1 DEF Parser
<1>4. p.calls <= OnLine(p).calls
  <2> DEFINE blank == \A i \in 1 .. Len(p.line) : p.line[i] \in {"call", "sp"}
  <2>1. CASE p.opened /\ blank
    <3>1. OnLine(p) = [p EXCEPT !.calls = p.calls + Counted(p.line), !.line = <<>>]
      BY <2>1 DEF OnLine
    <3>2. OnLine(p).calls = p.calls + Counted(p.line)
      BY <3>1 DEF Parser
    <3> QED BY <1>1, <3>2
  <2>2. CASE p.opened /\ ~ blank
    <3>1. OnLine(p) = [p EXCEPT !.thrown = TRUE]
      BY <2>2 DEF OnLine
    <3> QED BY <1>1, <3>1 DEF Parser
  <2>3. CASE ~ p.opened /\ p.line = <<"xml">>
    <3>1. OnLine(p) = [p EXCEPT !.opened = TRUE, !.line = <<>>]
      BY <2>3 DEF OnLine
    <3> QED BY <1>1, <3>1 DEF Parser
  <2>4. CASE ~ p.opened /\ p.line # <<"xml">>
    <3>1. OnLine(p) = [p EXCEPT !.refused = TRUE]
      BY <2>4 DEF OnLine
    <3> QED BY <1>1, <3>1 DEF Parser
  <2> QED BY <1>1, <2>1, <2>2, <2>3, <2>4
<1>5. CASE p.refused \/ p.thrown \/ c = "cr"
  BY <1>2, <1>3, <1>5
<1>6. CASE ~ (p.refused \/ p.thrown \/ c = "cr") /\ c = "nl"
  BY <1>2, <1>4, <1>6
<1>7. CASE ~ (p.refused \/ p.thrown \/ c = "cr") /\ c # "nl"
  BY <1>2, <1>3, <1>7
<1> QED BY <1>5, <1>6, <1>7

LEMMA ParseOfPart ==
  ASSUME NEW s \in Seq(Token), NEW n \in 0 .. Len(s)
  PROVE  /\ ParseBody(SubSeq(s, 1, n)).calls <= ParseBody(s).calls
         /\ ParseBody(SubSeq(s, 1, n)).thrown => ParseBody(s).thrown
<1> DEFINE t == SubSeq(s, 1, n)
           L == Len(s)
<1>1. /\ L \in Nat /\ t \in Seq(Token) /\ Len(t) = n
      /\ \A i \in 1 .. n : s[i] = t[i]
  <2>1. 1 \in 1 .. Len(s) + 1 /\ n \in 1 - 1 .. Len(s) /\ n - 1 + 1 = n
    OBVIOUS
  <2>2. \A i \in 1 .. n : 1 + i - 1 = i
    OBVIOUS
  <2> QED BY <2>1, <2>2, PartProperties
<1> HIDE DEF t
<1>2. PICK f : PassesOver(f, Closed, OnBody, t, Parser) /\ ParseBody(t) = f[n]
  BY <1>1, ParsePasses
<1>3. PICK g : PassesOver(g, Closed, OnBody, s, Parser) /\ ParseBody(s) = g[L]
  BY ParsePasses
<1>4. g[n] = f[n]
  <2>1. n \in 0 .. Len(t) /\ Len(t) \in Nat /\ Len(t) <= Len(s)
    BY <1>1
  <2>2. \A k \in 0 .. Len(t) : g[k] = f[k]
    BY <1>1, <1>2, <1>3, <2>1, PassesAgree
  <2> QED BY <2>1, <2>2
<1> DEFINE S == n .. L
           rank == [k \in S |-> k]
           T == {k \in S : g[n].calls <= g[k].calls /\ (g[n].thrown => g[k].thrown)}
<1>5. rank \in [S -> Nat]
  OBVIOUS
<1>6. ASSUME NEW k \in S, \A y \in S : rank[y] < rank[k] => y \in T PROVE k \in T
  <2>1. CASE k = n
    <3>1. g[n] \in Parser
      BY <1>1, <1>3 DEF PassesOver
    <3>2. g[n].calls \in Nat
      BY <3>1 DEF Parser
    <3> QED BY <2>1, <3>2
  <2>2. CASE k # n
    <3>1. /\ k - 1 \in S
          /\ k \in 1 .. L
          /\ k - 1 \in 0 .. L
          /\ rank[k - 1] < rank[k]
          /\ n \in 0 .. L
      BY <1>1, <2>2
    <3>2. g[n].calls <= g[k - 1].calls /\ (g[n].thrown => g[k - 1].thrown)
      BY <1>6, <3>1
    <3>3. g[k - 1] \in Parser /\ s[k] \in Token /\ g[n] \in Parser /\ g[k] \in Parser
      BY <1>1, <1>3, <3>1, ElementOfSeq DEF PassesOver
    <3>4. g[k] = OnBody[<<g[k - 1], s[k]>>]
      BY <1>3, <3>1 DEF PassesOver
    <3>5. g[k - 1].calls <= g[k].calls /\ (g[k - 1].thrown => g[k].thrown)
      BY <3>3, <3>4, ParseGrows
    <3>6. g[n].calls \in Nat /\ g[k - 1].calls \in Nat /\ g[k].calls \in Nat
      BY <3>3 DEF Parser
    <3>7. g[n].calls <= g[k].calls /\ (g[n].thrown => g[k].thrown)
      BY <3>2, <3>5, <3>6
    <3> QED BY <3>7
  <2> QED BY <2>1, <2>2
<1>7. S \subseteq T
  <2> HIDE DEF S, rank, T
  <2> QED BY <1>5, <1>6, RankInduction
<1>8. L \in S
  BY <1>1
<1> QED BY <1>2, <1>3, <1>4, <1>7, <1>8 DEF t

Xml(t) == Len(t) >= 2 /\ t[1] = "xml" /\ t[2] = "nl"

\* A text that is not opened with an XML header executes nothing, in no part of it.
LEMMA NothingWithoutXml ==
  ASSUME NEW s \in Seq(Token), ~ Xml(NoReturns(s)), NEW n \in 0 .. Len(s)
  PROVE  /\ ParseBody(SubSeq(s, 1, n)).calls = 0
         /\ ~ ParseBody(SubSeq(s, 1, n)).thrown
<1> DEFINE t == SubSeq(s, 1, n)
           L == Len(s)
           S == 0 .. L
           rank == [k \in S |-> k]
           back == [k \in S |-> L - k]
<1>1. /\ L \in Nat /\ t \in Seq(Token) /\ Len(t) = n
      /\ \A i \in 1 .. n : s[i] = t[i]
  <2>1. 1 \in 1 .. Len(s) + 1 /\ n \in 1 - 1 .. Len(s) /\ n - 1 + 1 = n
    OBVIOUS
  <2>2. \A i \in 1 .. n : 1 + i - 1 = i
    OBVIOUS
  <2> QED BY <2>1, <2>2, PartProperties
<1> HIDE DEF t
<1>2. PICK f : PassesOver(f, Closed, OnBody, t, Parser) /\ ParseBody(t) = f[n]
  BY <1>1, ParsePasses
<1>3. PICK g : PassesOver(g, Closed, OnBody, s, Parser) /\ ParseBody(s) = g[L]
  BY ParsePasses
<1>4. g[n] = f[n]
  <2>1. n \in 0 .. Len(t) /\ Len(t) \in Nat /\ Len(t) <= Len(s)
    BY <1>1
  <2>2. \A k \in 0 .. Len(t) : g[k] = f[k]
    BY <1>1, <1>2, <1>3, <2>1, PassesAgree
  <2> QED BY <2>1, <2>2
<1>5. PICK d : PassesOver(d, <<>>, TakesOut(Token, "cr"), s, Seq(Text)) /\ NoReturns(s) = d[L]
  BY WithoutPasses DEF NoReturns, Text
<1>6. ASSUME NEW k \in 1 .. L
      PROVE /\ k - 1 \in S /\ k \in S /\ s[k] \in Token
            /\ d[k - 1] \in Seq(Text) /\ d[k] \in Seq(Text)
            /\ d[k] = IF s[k] = "cr" THEN d[k - 1] ELSE Append(d[k - 1], s[k])
            /\ g[k - 1] \in Parser
            /\ g[k] = OnBody[<<g[k - 1], s[k]>>]
  <2>1. k - 1 \in S /\ k \in S /\ s[k] \in Token
    BY <1>1, ElementOfSeq
  <2>2. /\ d[k - 1] \in Seq(Text) /\ d[k] \in Seq(Text)
        /\ d[k] = TakesOut(Token, "cr")[<<d[k - 1], s[k]>>]
    BY <1>5, <2>1 DEF PassesOver
  <2>3. d[k] = IF s[k] = "cr" THEN d[k - 1] ELSE Append(d[k - 1], s[k])
    BY <2>1, <2>2 DEF TakesOut, Text
  <2>4. g[k - 1] \in Parser /\ g[k] = OnBody[<<g[k - 1], s[k]>>]
    BY <1>3, <2>1 DEF PassesOver
  <2> QED BY <2>1, <2>2, <2>3, <2>4
<1>7. \A k \in S : ~ Xml(d[k])
  <2> DEFINE T == {k \in S : ~ Xml(d[k])}
  <2>1. back \in [S -> Nat]
    BY <1>1
  <2>2. ASSUME NEW k \in S, \A y \in S : back[y] < back[k] => y \in T PROVE k \in T
    <3>1. CASE k = L
      BY <1>5, <3>1
    <3>2. CASE k # L
      <4>1. k + 1 \in S /\ k + 1 \in 1 .. L /\ (k + 1) - 1 = k /\ back[k + 1] < back[k]
        BY <1>1, <3>2
      <4>2. ~ Xml(d[k + 1])
        BY <2>2, <4>1
      <4>3. /\ d[k] \in Seq(Text)
            /\ d[k + 1] = IF s[k + 1] = "cr" THEN d[k] ELSE Append(d[k], s[k + 1])
        BY <1>6, <4>1
      <4>4. ASSUME NEW c, Xml(d[k]) PROVE Xml(Append(d[k], c))
        <5> DEFINE u == d[k]
        <5>1. u \in Seq(Text) /\ Len(u) >= 2 /\ u[1] = "xml" /\ u[2] = "nl"
          BY <4>3, <4>4 DEF Xml
        <5> HIDE DEF u
        <5> QED BY <5>1 DEF Xml, u
      <4> QED BY <4>2, <4>3, <4>4
    <3> QED BY <3>1, <3>2
  <2>3. S \subseteq T
    <3> HIDE DEF S, back, T
    <3> QED BY <2>1, <2>2, RankInduction
  <2> QED BY <2>3
<1> DEFINE Waits(p, u) == /\ p.calls = 0 /\ ~ p.thrown /\ ~ p.opened
                          /\ p.refused \/ p.line = u
           T == {k \in S :
                   /\ Waits(g[k], d[k])
                   /\ g[k].refused \/ "nl" \notin {d[k][i] : i \in 1 .. Len(d[k])}}
<1>8. rank \in [S -> Nat]
  BY <1>1
<1>9. ASSUME NEW k \in S, \A y \in S : rank[y] < rank[k] => y \in T PROVE k \in T
  <2>1. CASE k = 0
    <3>1. g[0] = Closed /\ d[0] = <<>>
      BY <1>3, <1>5 DEF PassesOver
    <3> QED BY <2>1, <3>1 DEF Closed
  <2>2. CASE k # 0
    <3> DEFINE p == g[k - 1]
               u == d[k - 1]
               c == s[k]
    <3>1. k \in 1 .. L /\ k - 1 \in S /\ rank[k - 1] < rank[k]
      BY <1>1, <2>2
    <3>2. /\ p \in Parser /\ u \in Seq(Text) /\ c \in Token
          /\ d[k] = IF c = "cr" THEN u ELSE Append(u, c)
          /\ g[k] = OnBody[<<p, c>>]
      BY <1>6, <3>1
    <3>3. /\ p.calls = 0 /\ ~ p.thrown /\ ~ p.opened
          /\ p.refused \/ (p.line = u /\ "nl" \notin {u[i] : i \in 1 .. Len(u)})
      BY <1>9, <3>1
    <3>4. ~ Xml(d[k])
      BY <1>7
    <3> HIDE DEF p, u, c, T, S
    <3>5. g[k] = CASE p.refused \/ p.thrown \/ c = "cr" -> p
                   [] ~ p.refused /\ ~ p.thrown /\ c = "nl" -> OnLine(p)
                   [] OTHER -> [p EXCEPT !.line = Append(@, c)]
      BY <3>2 DEF OnBody
    <3>6. Waits(g[k], d[k]) /\ (g[k].refused \/ "nl" \notin {d[k][i] : i \in 1 .. Len(d[k])})
      <4>1. CASE p.refused
        BY <3>3, <3>5, <4>1
      <4>2. CASE ~ p.refused /\ c = "cr"
        BY <3>2, <3>3, <3>5, <4>2
      <4>3. CASE ~ p.refused /\ c = "nl"
        <5>1. g[k] = OnLine(p) /\ d[k] = Append(u, c)
          BY <3>2, <3>3, <3>5, <4>3
        <5>2. p.line # <<"xml">>
          <6>1. ASSUME u = <<"xml">> PROVE FALSE
            <7>1. Len(u) = 1 /\ u[1] = "xml" /\ 1 \in 1 .. Len(u)
              BY <6>1
            <7>2. /\ Len(d[k]) = Len(u) + 1 /\ d[k][Len(u) + 1] = "nl"
                  /\ d[k][1] = u[1]
              <8>1. "nl" \in Text /\ u \in Seq(Text) /\ d[k] = Append(u, "nl")
                BY <3>2, <4>3, <5>1 DEF Text
              <8>2. /\ Len(Append(u, "nl")) = Len(u) + 1
                    /\ Append(u, "nl")[Len(u) + 1] = "nl"
                    /\ \A i \in 1 .. Len(u) : Append(u, "nl")[i] = u[i]
                BY <8>1, AppendProperties
              <8> QED BY <7>1, <8>1, <8>2
            <7>3. Len(u) + 1 = 2 /\ 2 >= 2
              BY <7>1
            <7> QED BY <3>4, <7>1, <7>2, <7>3 DEF Xml
          <6> QED BY <3>3, <4>3, <6>1
        <5>3. g[k] = [p EXCEPT !.refused = TRUE]
          BY <3>3, <5>1, <5>2 DEF OnLine
        <5>4. g[k].refused /\ g[k].calls = 0 /\ ~ g[k].thrown /\ ~ g[k].opened
          BY <3>2, <3>3, <5>3 DEF Parser
        <5> QED BY <5>4
      <4>4. CASE ~ p.refused /\ c # "cr" /\ c # "nl"
        <5>1. g[k] = [p EXCEPT !.line = Append(p.line, c)] /\ d[k] = Append(u, c)
          BY <3>2, <3>3, <3>5, <4>4
        <5>2. /\ g[k].line = Append(u, c) /\ g[k].calls = 0 /\ ~ g[k].thrown
              /\ ~ g[k].opened
          BY <3>2, <3>3, <4>4, <5>1 DEF Parser
        <5>3. "nl" \notin {d[k][i] : i \in 1 .. Len(d[k])}
          <6>1. /\ Len(d[k]) = Len(u) + 1 /\ Len(u) \in Nat
                /\ d[k][Len(u) + 1] = c
                /\ \A i \in 1 .. Len(u) : d[k][i] = u[i]
            BY <3>2, <5>1, AppendProperties
          <6>2. \A i \in 1 .. Len(d[k]) : i \in 1 .. Len(u) \/ i = Len(u) + 1
            BY <6>1
          <6> QED BY <3>3, <4>4, <6>1, <6>2
        <5> QED BY <5>1, <5>2, <5>3
      <4> QED BY <3>2, <4>1, <4>2, <4>3, <4>4 DEF Parser
    <3> QED BY <3>6 DEF T
  <2> QED BY <2>1, <2>2
<1>10. S \subseteq T
  <2> HIDE DEF S, rank, T
  <2> QED BY <1>8, <1>9, RankInduction
<1>11. n \in T
  BY <1>10
<1> QED BY <1>2, <1>4, <1>11 DEF t

\* The scan of HeaderOf.
Scan == [header : Header, at : Nat]
ScanStart == [header |-> Start, at |-> 1]
ScanOne ==
  [q \in Scan \X Token |->
     IF q[1].header.bFinished THEN q[1]
     ELSE [header |-> OnCharacter(q[1].header, q[2]), at |-> q[1].at + 1]]

LEMMA ScanTypes == ScanStart \in Scan /\ ScanOne \in [Scan \X Token -> Scan]
<1>1. ScanStart \in Scan
  BY StartTypes DEF ScanStart, Scan
<1>2. ASSUME NEW p \in Scan, NEW c \in Token
      PROVE (IF p.header.bFinished THEN p
             ELSE [header |-> OnCharacter(p.header, c), at |-> p.at + 1]) \in Scan
  <2>1. p.header \in Header /\ p.at \in Nat
    BY DEF Scan
  <2>2. OnCharacter(p.header, c) \in Header /\ p.at + 1 \in Nat
    BY <2>1, OnCharacterTypes
  <2> QED BY <2>2 DEF Scan
<1> QED BY <1>1, <1>2 DEF ScanOne

LEMMA HeaderPasses ==
  ASSUME NEW s \in Seq(Token) PROVE PassesOver(HeaderOf(s), ScanStart, ScanOne, s, Scan)
<1> DEFINE scan == CHOOSE scan : scan = [n \in 0 .. Len(s) |->
                     IF n = 0 THEN [header |-> Start, at |-> 1]
                     ELSE LET prev == scan[n - 1]
                          IN  IF prev.header.bFinished THEN prev
                              ELSE [header |-> OnCharacter(prev.header, s[n]),
                                    at |-> prev.at + 1]]
<1>1. HeaderOf(s) = scan
  BY DEF HeaderOf
<1>2. /\ Len(s) \in Nat /\ \A n \in 1 .. Len(s) : s[n] \in Token
      /\ \A n \in 1 .. Len(s) : n - 1 \in 0 .. Len(s) /\ n \in 0 .. Len(s) /\ n # 0
      /\ \A n \in 0 .. Len(s) : n # 0 => n \in 1 .. Len(s)
      /\ 0 \in 0 .. Len(s)
  BY ElementOfSeq
<1>3. ASSUME NEW p \in Scan, NEW c \in Token
      PROVE ScanOne[<<p, c>>] =
              IF p.header.bFinished THEN p
              ELSE [header |-> OnCharacter(p.header, c), at |-> p.at + 1]
  BY DEF ScanOne
<1>4. PICK f \in [0 .. Len(s) -> Scan] : PassesOver(f, ScanStart, ScanOne, s, Scan)
  BY ScanTypes, PassExists
<1>5. f = [n \in 0 .. Len(s) |->
             IF n = 0 THEN [header |-> Start, at |-> 1]
             ELSE LET prev == f[n - 1]
                  IN  IF prev.header.bFinished THEN prev
                      ELSE [header |-> OnCharacter(prev.header, s[n]),
                            at |-> prev.at + 1]]
  <2>1. f = [n \in 0 .. Len(s) |-> f[n]]
    OBVIOUS
  <2>2. ASSUME NEW n \in 0 .. Len(s)
        PROVE f[n] = IF n = 0 THEN [header |-> Start, at |-> 1]
                     ELSE LET prev == f[n - 1]
                          IN  IF prev.header.bFinished THEN prev
                              ELSE [header |-> OnCharacter(prev.header, s[n]),
                                    at |-> prev.at + 1]
    <3>1. n # 0 => f[n - 1] \in Scan /\ s[n] \in Token
      BY <1>2
    <3>2. n # 0 => f[n] = ScanOne[<<f[n - 1], s[n]>>]
      BY <1>2, <1>4 DEF PassesOver
    <3>3. f[0] = [header |-> Start, at |-> 1]
      BY <1>4 DEF PassesOver, ScanStart
    <3> QED BY <3>1, <3>2, <3>3, <1>3
  <2> QED BY <2>1, <2>2
<1>6. scan = [n \in 0 .. Len(s) |->
                IF n = 0 THEN [header |-> Start, at |-> 1]
                ELSE LET prev == scan[n - 1]
                     IN  IF prev.header.bFinished THEN prev
                         ELSE [header |-> OnCharacter(prev.header, s[n]),
                               at |-> prev.at + 1]]
  BY <1>5
<1> HIDE DEF scan
<1>7. scan[0] = ScanStart
  BY <1>2, <1>6 DEF ScanStart
<1>8. ASSUME NEW n \in 1 .. Len(s), scan[n - 1] \in Scan
      PROVE scan[n] = ScanOne[<<scan[n - 1], s[n]>>]
  <2> DEFINE prev == scan[n - 1]
  <2>1. scan[n] = IF prev.header.bFinished THEN prev
                  ELSE [header |-> OnCharacter(prev.header, s[n]), at |-> prev.at + 1]
    BY <1>2, <1>6
  <2> HIDE DEF prev
  <2> QED BY <2>1, <1>2, <1>3, <1>8 DEF prev
<1>9. PassesOver(scan, ScanStart, ScanOne, s, Scan)
  BY <1>2, <1>7, <1>8, ScanTypes, PassTyped
<1> QED BY <1>1, <1>9

\* The scan of a part is the part of the scan.
LEMMA HeaderOfPart ==
  ASSUME NEW s \in Seq(Token), NEW t \in Seq(Token), Len(s) <= Len(t),
         \A i \in 1 .. Len(s) : t[i] = s[i]
  PROVE  \A n \in 0 .. Len(s) : HeaderOf(t)[n] = HeaderOf(s)[n]
<1>1. /\ PassesOver(HeaderOf(s), ScanStart, ScanOne, s, Scan)
      /\ PassesOver(HeaderOf(t), ScanStart, ScanOne, t, Scan)
      /\ Len(s) \in Nat /\ Len(t) \in Nat
  BY HeaderPasses
<1> QED BY <1>1, PassesAgree

\* What follows a header that is complete does not change it.
LEMMA HeaderStays ==
  ASSUME NEW s \in Seq(Token), NEW k \in 0 .. Len(s), HeaderOf(s)[k].header.bFinished
  PROVE  \A n \in k .. Len(s) : HeaderOf(s)[n] = HeaderOf(s)[k]
<1> DEFINE S == k .. Len(s)
           rank == [n \in S |-> n]
           f == HeaderOf(s)
           T == {n \in S : f[n] = f[k]}
<1>1. PassesOver(f, ScanStart, ScanOne, s, Scan)
  BY HeaderPasses
<1> HIDE DEF f
<1>2. rank \in [S -> Nat]
  OBVIOUS
<1>3. ASSUME NEW n \in S, \A y \in S : rank[y] < rank[n] => y \in T PROVE n \in T
  <2>1. CASE n = k
    BY <2>1
  <2>2. CASE n # k
    <3>1. n - 1 \in S /\ n \in 1 .. Len(s) /\ n - 1 \in 0 .. Len(s) /\ rank[n - 1] < rank[n]
      BY <2>2
    <3>2. f[n - 1] = f[k]
      BY <1>3, <3>1
    <3>3. f[n - 1] \in Scan /\ s[n] \in Token /\ f[n] = ScanOne[<<f[n - 1], s[n]>>]
      BY <1>1, <3>1, ElementOfSeq DEF PassesOver
    <3>4. f[n - 1].header.bFinished
      BY <3>2 DEF f
    <3>5. f[n] = f[n - 1]
      BY <3>3, <3>4 DEF ScanOne
    <3> QED BY <3>2, <3>5
  <2> QED BY <2>1, <2>2
<1>4. S \subseteq T
  <2> HIDE DEF S, rank, T
  <2> QED BY <1>2, <1>3, RankInduction
<1> QED BY <1>4 DEF f

-------------------------------------------------------------------------------
(* Requests that are cut *)

\* What the header and the calls are of.
CutInv ==
  /\ \A n \in 0 .. at - 1 : HeaderOf(stream)[n].at = n + 1
  /\ HeaderOf(stream)[at - 1].header = header
  /\ phase \in {"header", "body"} => calls = 0
  /\ phase # "header" =>
       /\ length = ContentLength(header)
       /\ ~ header.bFinished => at = Len(stream) + 1
  /\ phase \in {"answered", "closed", "aborted"} =>
       LET body == Body(Len(stream))
       IN  IF IsParsed(length, body)
           THEN /\ calls = ParseBody(body).calls
                /\ ParseBody(body).thrown => phase = "aborted"
           ELSE calls = 0

LEMMA CutInit == Init => CutInv
<1> SUFFICES ASSUME Init PROVE CutInv
  OBVIOUS
<1>1. <<>> \in Seq(Token) /\ Len(<<>>) = 0
  BY EmptySeq
<1>2. HeaderOf(<<>>)[0] = ScanStart
  BY <1>1, HeaderPasses DEF PassesOver
<1>3. \A n \in 0 .. at - 1 : n = 0
  BY DEF Init
<1> QED BY <1>2, <1>3 DEF Init, CutInv, ScanStart

\* The scan is the same while what was scanned is.
LEMMA ScanKept ==
  ASSUME Typed, CutInv, stream' \in Seq(Token), at - 1 <= Len(stream'),
         Len(stream') \in Nat,
         SubSeq(stream', 1, at - 1) = SubSeq(stream, 1, at - 1),
         at' = at, header' = header
  PROVE  /\ \A n \in 0 .. at' - 1 : HeaderOf(stream')[n].at = n + 1
         /\ HeaderOf(stream')[at' - 1].header = header'
<1> DEFINE s == SubSeq(stream, 1, at - 1)
<1>1. /\ stream \in Seq(Token) /\ Len(stream) \in Nat /\ at \in 1 .. Len(stream) + 1
  BY DEF Typed
<1>2. /\ s \in Seq(Token) /\ Len(s) = at - 1
      /\ \A i \in 1 .. at - 1 : s[i] = stream[i] /\ s[i] = stream'[i]
  <2>1. /\ 1 \in 1 .. Len(stream) + 1 /\ at - 1 \in 1 - 1 .. Len(stream)
        /\ 1 \in 1 .. Len(stream') + 1 /\ at - 1 \in 1 - 1 .. Len(stream')
        /\ (at - 1) - 1 + 1 = at - 1
        /\ \A i \in 1 .. at - 1 : 1 + i - 1 = i
    BY <1>1
  <2>2. /\ s \in Seq(Token) /\ Len(s) = at - 1
        /\ \A i \in 1 .. at - 1 : s[i] = stream[i]
    BY <1>1, <2>1, PartProperties
  <2>3. \A i \in 1 .. at - 1 : s[i] = stream'[i]
    BY <2>1, PartProperties
  <2> QED BY <2>2, <2>3
<1> HIDE DEF s
<1>3. /\ Len(s) <= Len(stream) /\ Len(s) <= Len(stream')
      /\ 0 .. at - 1 = 0 .. Len(s) /\ at - 1 \in 0 .. Len(s)
  BY <1>1, <1>2
<1>4. \A n \in 0 .. Len(s) : HeaderOf(stream)[n] = HeaderOf(s)[n]
  BY <1>1, <1>2, <1>3, HeaderOfPart
<1>5. \A n \in 0 .. Len(s) : HeaderOf(stream')[n] = HeaderOf(s)[n]
  BY <1>2, <1>3, HeaderOfPart
<1> QED BY <1>3, <1>4, <1>5 DEF CutInv

LEMMA CutStep == Typed /\ Typed' /\ CutInv /\ [Next]_vars => CutInv'
<1> SUFFICES ASSUME Typed, Typed', CutInv, [Next]_vars PROVE CutInv'
  OBVIOUS
<1> DEFINE Scans == /\ \A n \in 0 .. at' - 1 : HeaderOf(stream')[n].at = n + 1
                    /\ HeaderOf(stream')[at' - 1].header = header'
<1>1. /\ stream \in Seq(Token) /\ Len(stream) \in Nat /\ at \in 1 .. Len(stream) + 1
      /\ stream' \in Seq(Token) /\ Len(stream') \in Nat /\ at' \in 1 .. Len(stream') + 1
  BY DEF Typed
<1>2. ASSUME NEW l \in Line, Arrive(l) PROVE CutInv'
  <2>1. /\ stream' = stream \o l /\ l \in Seq(Token)
        /\ UNCHANGED <<at, header, length, phase, calls>>
        /\ phase = "body" => header.bFinished
        /\ phase \in {"header", "body"}
    BY <1>2, HeaderAssumption DEF Arrive
  <2>2. SubSeq(stream', 1, at - 1) = SubSeq(stream, 1, at - 1)
    <3>1. at - 1 \in 0 .. Len(stream)
      BY <1>1
    <3> QED BY <1>1, <2>1, <3>1, PartOfConcat
  <2>3. at - 1 <= Len(stream')
    BY <1>1, <2>1
  <2>4. Scans
    BY <1>1, <2>1, <2>2, <2>3, ScanKept
  <2> QED BY <2>1, <2>4 DEF CutInv
<1>3. CASE ScanHeader
  <2>1. /\ at \in 1 .. Len(stream) /\ at' = at + 1 /\ stream' = stream
        /\ header' = OnCharacter(header, stream[at]) /\ ~ header.bFinished
        /\ phase = "header" /\ UNCHANGED <<length, phase, calls>>
    BY <1>1, <1>3 DEF ScanHeader
  <2> DEFINE f == HeaderOf(stream)
  <2>2. /\ f[at - 1] \in Scan /\ stream[at] \in Token
        /\ f[at] = ScanOne[<<f[at - 1], stream[at]>>]
    <3>1. PassesOver(f, ScanStart, ScanOne, stream, Scan)
      BY <1>1, HeaderPasses
    <3>2. at - 1 \in 0 .. Len(stream)
      BY <1>1
    <3> HIDE DEF f
    <3> QED BY <1>1, <2>1, <3>1, <3>2, ElementOfSeq DEF PassesOver
  <2>3. f[at - 1].header = header /\ f[at - 1].at = (at - 1) + 1
    <3>1. at - 1 \in 0 .. at - 1
      BY <1>1
    <3> QED BY <3>1 DEF CutInv
  <2>4. f[at] = [header |-> header', at |-> (at - 1) + 1 + 1]
    <3> HIDE DEF f
    <3> QED BY <2>1, <2>2, <2>3 DEF ScanOne
  <2>5. f[at].header = header' /\ f[at].at = at + 1
    <3> HIDE DEF f
    <3> QED BY <1>1, <2>4
  <2>6. ASSUME NEW n \in 0 .. at PROVE f[n].at = n + 1
    <3>1. CASE n = at
      BY <2>5, <3>1
    <3>2. CASE n # at
      <4>1. n \in 0 .. at - 1
        BY <1>1, <3>2
      <4> QED BY <4>1 DEF CutInv
    <3> QED BY <3>1, <3>2
  <2>7. Scans
    <3>1. at' - 1 = at
      BY <1>1, <2>1
    <3> QED BY <2>1, <2>5, <2>6, <3>1
  <2> QED BY <2>1, <2>7 DEF CutInv
<1>4. CASE EndOfHeader
  <2>1. /\ phase = "header" /\ phase' = "body" /\ length' = ContentLength(header)
        /\ stream' = IF header.bFinished THEN stream ELSE SubSeq(stream, 1, at - 1)
        /\ UNCHANGED <<at, header, calls>>
    BY <1>4 DEF EndOfHeader
  <2>2. /\ Len(SubSeq(stream, 1, at - 1)) = at - 1
        /\ SubSeq(SubSeq(stream, 1, at - 1), 1, at - 1) = SubSeq(stream, 1, at - 1)
    <3>1. /\ 1 \in 1 .. Len(stream) + 1 /\ at - 1 \in 1 - 1 .. Len(stream)
          /\ (at - 1) - 1 + 1 = at - 1
          /\ 1 \in 1 .. (at - 1) - 1 + 2 /\ at - 1 \in 1 - 1 .. (at - 1) - 1 + 1
          /\ 1 + 1 - 1 = 1 /\ 1 + (at - 1) - 1 = at - 1
      BY <1>1
    <3> QED BY <1>1, <3>1, PartProperties, PartOfPart
  <2>3. SubSeq(stream', 1, at - 1) = SubSeq(stream, 1, at - 1) /\ at - 1 <= Len(stream')
    BY <1>1, <2>1, <2>2
  <2>4. Scans
    BY <1>1, <2>1, <2>3, ScanKept
  <2>5. ~ header.bFinished => at = Len(stream') + 1
    BY <1>1, <2>1, <2>2
  <2> QED BY <2>1, <2>4, <2>5 DEF CutInv
<1>5. ASSUME NEW n \in at - 1 .. Len(stream), ReceiveBody(n) PROVE CutInv'
  <2>1. /\ phase = "body" /\ stream' = SubSeq(stream, 1, n)
        /\ header.bFinished \/ n = Len(stream)
        /\ UNCHANGED <<at, header, length>>
        /\ IF IsParsed(length, Body(n))
           THEN /\ calls' = ParseBody(Body(n)).calls
                /\ phase' = IF ParseBody(Body(n)).thrown THEN "aborted" ELSE "answered"
           ELSE phase' = "closed" /\ calls' = calls
    BY <1>5 DEF ReceiveBody
  <2>2. /\ 1 \in 1 .. Len(stream) + 1 /\ n \in 1 - 1 .. Len(stream) /\ n - 1 + 1 = n
        /\ at - 1 \in 1 - 1 .. n - 1 + 1 /\ 1 \in 1 .. n - 1 + 2
        /\ 1 + 1 - 1 = 1 /\ 1 + (at - 1) - 1 = at - 1 /\ at \in 1 .. n - 1 + 2
        /\ n \in 1 - 1 .. n - 1 + 1 /\ n \in at - 1 .. n - 1 + 1
        /\ 1 + at - 1 = at /\ 1 + n - 1 = n
    BY <1>1
  <2>3. /\ Len(stream') = n
        /\ SubSeq(stream', 1, at - 1) = SubSeq(stream, 1, at - 1)
        /\ SubSeq(stream', 1, n) = SubSeq(stream, 1, n)
        /\ SubSeq(stream', at, n) = SubSeq(stream, at, n)
    <3>1. Len(stream') = n
      BY <1>1, <2>1, <2>2, PartProperties
    <3>2. \A a \in 1 .. n - 1 + 2 : \A b \in a - 1 .. n - 1 + 1 :
            SubSeq(SubSeq(stream, 1, n), a, b) = SubSeq(stream, 1 + a - 1, 1 + b - 1)
      BY <1>1, <2>2, PartOfPart
    <3>3. SubSeq(stream', 1, at - 1) = SubSeq(stream, 1 + 1 - 1, 1 + (at - 1) - 1)
      BY <2>1, <2>2, <3>2
    <3>4. SubSeq(stream', 1, n) = SubSeq(stream, 1 + 1 - 1, 1 + n - 1)
      BY <2>1, <2>2, <3>2
    <3>5. SubSeq(stream', at, n) = SubSeq(stream, 1 + at - 1, 1 + n - 1)
      BY <2>1, <2>2, <3>2
    <3> QED BY <2>2, <3>1, <3>3, <3>4, <3>5
  <2>4. at - 1 <= Len(stream')
    BY <1>1, <2>3
  <2>5. Scans
    BY <1>1, <2>1, <2>3, <2>4, ScanKept
  <2>6. Body(Len(stream))' = Body(n)
    BY <2>1, <2>3 DEF Body
  <2>7. IsParsed(length, Body(Len(stream)))' = IsParsed(length, Body(n))
    BY <2>1, <2>6 DEF IsParsed
  <2>8. ParseBody(Body(Len(stream)))' = ParseBody(Body(n))
    BY <2>6
  <2>9. calls = 0 /\ length' = ContentLength(header')
        /\ (~ header'.bFinished => at' = Len(stream') + 1)
    BY <2>1, <2>3 DEF CutInv
  <2>10. phase' \in {"answered", "closed", "aborted"}
    BY <2>1
  <2> QED BY <2>1, <2>5, <2>6, <2>7, <2>8, <2>9, <2>10 DEF CutInv
<1>6. CASE UNCHANGED vars
  BY <1>6 DEF CutInv, Body, IsParsed, vars
<1> QED BY <1>2, <1>3, <1>4, <1>5, <1>6 DEF Next

\* A request that is cut in its header or its body, behind whatever token, does
\* some of the first calls of the whole one and no other thing, and does not end
\* the process where the whole one would not (rpcagent.cpp:48-72).
THEOREM CutIsHarmless == Spec => []CutExecutesFirstCalls
<1>1. Typed /\ CutInv => CutExecutesFirstCalls
  <2> SUFFICES ASSUME Typed, CutInv, phase \in {"answered", "closed", "aborted"},
                      ~ StartsWithXml,
                      NEW n \in 1 .. Len(stream)
               PROVE  LET part == Outcome(SubSeq(stream, 1, n), HeaderOf(stream)[n])
                      IN  part.calls <= calls /\ (part.thrown => phase = "aborted")
    BY DEF CutExecutesFirstCalls
  <2> DEFINE N == Len(stream)
             P == SubSeq(stream, 1, n)
             scanned == HeaderOf(stream)[n]
             iHLength == ContentLength(scanned.header)
             from == IF iHLength = -1 THEN 1 ELSE scanned.at
             cut == SubSeq(P, from, Len(P))
             body == Body(N)
  <2>1. /\ stream \in Seq(Token) /\ N \in Nat /\ at \in 1 .. N + 1 /\ calls \in Nat
        /\ n \in 1 .. N
    BY DEF Typed
  <2>2. /\ Len(P) = n /\ P \in Seq(Token)
    <3>1. 1 \in 1 .. N + 1 /\ n \in 1 - 1 .. N /\ n - 1 + 1 = n
      BY <2>1
    <3> QED BY <2>1, <3>1, PartProperties
  <2>3. ASSUME NEW a \in 1 .. n + 1 PROVE SubSeq(P, a, n) = SubSeq(stream, a, n)
    <3>1. /\ 1 \in 1 .. N + 1 /\ n \in 1 - 1 .. N
          /\ a \in 1 .. n - 1 + 2 /\ n \in a - 1 .. n - 1 + 1
          /\ 1 + a - 1 = a /\ 1 + n - 1 = n
      BY <2>1
    <3>2. SubSeq(P, a, n) = SubSeq(stream, 1 + a - 1, 1 + n - 1)
      BY <2>1, <3>1, PartOfPart
    <3> QED BY <3>1, <3>2
  <2>4. Outcome(P, scanned) = IF IsParsed(iHLength, cut) THEN ParseBody(cut) ELSE Closed
    BY DEF Outcome
  <2>5. Closed.calls = 0 /\ ~ Closed.thrown
    BY DEF Closed
  <2>6. /\ length = ContentLength(header)
        /\ ~ header.bFinished => at = N + 1
        /\ IF IsParsed(length, body)
           THEN calls = ParseBody(body).calls
                /\ (ParseBody(body).thrown => phase = "aborted")
           ELSE calls = 0
    BY DEF CutInv
  <2> HIDE DEF P, N
  <2>7. CASE n < at - 1
    <3>1. scanned.at = n + 1
      <4>1. n \in 0 .. at - 1
        BY <2>1, <2>7
      <4> QED BY <4>1 DEF CutInv
    <3>2. CASE iHLength # -1
      <4>1. cut = <<>>
        <5>1. n + 1 \in Int /\ n \in Int /\ n + 1 > n
          BY <2>1
        <5>2. cut = SubSeq(P, n + 1, n)
          BY <2>2, <3>1, <3>2
        <5> HIDE DEF cut
        <5> QED BY <5>1, <5>2, SubSeqEmpty
      <4>2. ~ IsParsed(iHLength, cut)
        BY <4>1 DEF IsParsed
      <4>3. Outcome(P, scanned) = Closed
        BY <2>4, <4>2
      <4> QED BY <2>1, <2>5, <4>3 DEF P
    <3>3. CASE iHLength = -1
      <4>1. cut = P
        <5>1. 1 \in 1 .. n + 1
          BY <2>1
        <5>2. SubSeq(P, 1, n) = SubSeq(stream, 1, n)
          BY <2>3, <5>1
        <5> QED BY <2>2, <3>3, <5>2 DEF P
      <4>2. ParseBody(P).calls = 0 /\ ~ ParseBody(P).thrown
        <5>1. ~ Xml(NoReturns(stream)) /\ n \in 0 .. Len(stream)
          BY <2>1 DEF StartsWithXml, Xml
        <5> QED BY <2>1, <5>1, NothingWithoutXml DEF P
      <4>3. Outcome(P, scanned).calls = 0 /\ ~ Outcome(P, scanned).thrown
        <5> HIDE DEF cut, iHLength
        <5> QED BY <2>4, <2>5, <4>1, <4>2
      <4> QED BY <2>1, <4>3 DEF P
    <3> QED BY <3>2, <3>3
  <2>8. CASE n >= at - 1
    <3>1. scanned.header = header /\ scanned.at = at
      <4>1. at - 1 \in 0 .. at - 1 /\ at - 1 \in 0 .. N /\ (at - 1) + 1 = at
        BY <2>1
      <4>2. HeaderOf(stream)[at - 1].header = header /\ HeaderOf(stream)[at - 1].at = at
        BY <4>1 DEF CutInv
      <4>3. CASE n = at - 1
        BY <4>2, <4>3
      <4>4. CASE n # at - 1
        <5>1. header.bFinished
          BY <2>1, <2>6, <2>8, <4>4
        <5>2. n \in at - 1 .. N
          BY <2>1, <2>8
        <5>3. HeaderOf(stream)[n] = HeaderOf(stream)[at - 1]
          BY <2>1, <4>1, <4>2, <5>1, <5>2, HeaderStays DEF N
        <5> QED BY <4>2, <5>3
      <4> QED BY <4>3, <4>4
    <3> DEFINE x == IF length = -1 THEN 1 ELSE at
    <3>2. /\ iHLength = length /\ cut = SubSeq(stream, x, n)
          /\ x \in 1 .. n + 1 /\ x \in 1 .. N + 1
      <4>1. iHLength = length
        BY <2>6, <3>1
      <4>2. x \in 1 .. n + 1 /\ x \in 1 .. N + 1
        BY <2>1, <2>8
      <4>3. from = x
        BY <3>1, <4>1
      <4>4. cut = SubSeq(P, x, n)
        BY <2>2, <4>3
      <4> QED BY <2>3, <4>1, <4>2, <4>4
    <3>3. body = SubSeq(stream, x, N)
      BY DEF Body
    <3> HIDE DEF x, cut, body, iHLength, scanned
    <3> DEFINE k == n - x + 1
    <3>4. /\ body \in Seq(Token) /\ Len(body) = N - x + 1
          /\ cut \in Seq(Token) /\ Len(cut) = k
          /\ k \in 0 .. Len(body)
      <4>1. N \in x - 1 .. N /\ n \in x - 1 .. N
        BY <2>1, <3>2
      <4>2. /\ body \in Seq(Token) /\ Len(body) = N - x + 1
            /\ cut \in Seq(Token) /\ Len(cut) = n - x + 1
        BY <2>1, <3>2, <3>3, <4>1, PartProperties DEF N
      <4>3. n - x + 1 \in 0 .. N - x + 1
        BY <2>1, <3>2
      <4> QED BY <4>2, <4>3
    <3>5. cut = SubSeq(body, 1, k)
      <4>1. /\ x \in 1 .. N + 1 /\ N \in x - 1 .. N
            /\ 1 \in 1 .. N - x + 2 /\ k \in 1 - 1 .. N - x + 1
            /\ x + 1 - 1 = x /\ x + k - 1 = n
        BY <2>1, <3>2
      <4>2. SubSeq(SubSeq(stream, x, N), 1, k) = SubSeq(stream, x + 1 - 1, x + k - 1)
        <5> HIDE DEF k
        <5> QED BY <2>1, <4>1, PartOfPart DEF N
      <4> QED BY <3>2, <3>3, <4>1, <4>2
    <3> HIDE DEF k
    <3>6. CASE IsParsed(iHLength, cut)
      <4>1. cut # <<>>
        BY <3>6 DEF IsParsed
      <4>2. body # <<>>
        <5>1. k # 0
          BY <3>4, <4>1, EmptySeq
        <5> QED BY <3>4, <5>1, EmptySeq
      <4>3. IsParsed(length, body)
        BY <3>2, <3>6, <4>2 DEF IsParsed
      <4>4. /\ ParseBody(cut).calls <= ParseBody(body).calls
            /\ ParseBody(cut).thrown => ParseBody(body).thrown
        BY <3>4, <3>5, ParseOfPart
      <4>5. Outcome(P, scanned) = ParseBody(cut)
        BY <2>4, <3>6
      <4> QED BY <2>6, <4>3, <4>4, <4>5 DEF P, scanned
    <3>7. CASE ~ IsParsed(iHLength, cut)
      <4>1. Outcome(P, scanned) = Closed
        BY <2>4, <3>7
      <4> QED BY <2>1, <2>5, <4>1 DEF P, scanned
    <3> QED BY <3>6, <3>7
  <2> QED BY <2>1, <2>7, <2>8
<1>2. Spec => []CutInv
  BY CutInit, CutStep, TypedAlways, PTL DEF Spec
<1> QED BY <1>1, <1>2, TypedAlways, PTL
===============================================================================
