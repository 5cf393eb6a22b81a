------------------------------ MODULE MethodCall ------------------------------
(***************************************************************************)
(* One method call from its parameters to its answer: the parameter        *)
(* objects as Walk makes them, the lookup and the call of the registered   *)
(* function, the answer as tags, and the deletion of the objects; and the  *)
(* same call when a value does not convert or the request ends early.      *)
(*                                                                         *)
(* Objects are numbered as they are finished or given up, items before     *)
(* their owner; 0 is the null pointer.  A value is a number: an int or     *)
(* boolean itself, a double in thirds of a millionth (the answer shows six *)
(* decimals), a string or a name as the number of its letters.             *)
(***************************************************************************)
EXTENDS Integers, FiniteSets, SequencesExt, Texts

CONSTANTS
  Ints,        \* values of int parameters
  Doubles,     \* values of double parameters
  Strings,     \* values of string parameters and names of members
  IntMax,      \* std::numeric_limits<int>::max()
  Junk,        \* values that an overflow may leave in an int
  MaxObjects,  \* bound: objects of the parameters
  MaxWidth,    \* bound: parameters and unfinished objects at a time
  NULL

IntRange == -IntMax - 1 .. IntMax

ASSUME CallAssumption ==
  /\ IntMax \in Nat
  /\ Ints \subseteq IntRange
  /\ Junk \subseteq IntRange
  /\ Doubles \subseteq Int
  /\ Strings \subseteq Nat
  /\ {MaxObjects, MaxWidth} \subseteq Nat
  /\ NULL \notin Seq(Nat)

Scalar == {"boolean", "double", "int", "string"}
Type == Scalar \cup {"array", "struct", "member"}

\* value: the value or the name; items: m_vecItems, m_vecMembers or m_pValue.
Object == [type : Type, value : Int, items : Seq(Nat), frees : Nat]

New(type, value, items) ==
  [type |-> type, value |-> value, items |-> items, frees |-> 0]

VARIABLES
  heap,     \* all objects that were allocated
  made,     \* what Walk has returned and no owner has taken yet
  params,   \* Method::m_pParameters: NULL or a vector
  name,     \* Method::m_strName
  answer,   \* the answer as tags and texts
  outcome,  \* see Outcome
  lost,     \* history: what nothing in the program points to any more
  replaced  \* history: the part of it that a later SetValue replaced

vars == <<heap, made, params, name, answer, outcome, lost, replaced>>

\* stuck: a </param> has failed, its node stays on the stack.  closed: the vector
\* is the method's.  cut: the request ended before that.
Walking == {"building", "stuck"}
Outcome == Walking \cup {"closed", "answered", "fault", "crashed", "deleted", "cut"}

-------------------------------------------------------------------------------
(* Walk: a sequence of objects in the order of the closing tags.  Every later *)
(* </param> of a stuck request walks the same nodes again.                   *)

LastOf(seq, k) == SubSeq(seq, Len(seq) - k + 1, Len(seq))

\* The new object takes the last k of those made.
Make(type, value, items, k) ==
  /\ outcome \in Walking
  /\ Len(heap) < MaxObjects
  /\ Len(made) - k + Len(params) < MaxWidth
  /\ heap' = Append(heap, New(type, value, items))
  /\ made' = Append(SubSeq(made, 1, Len(made) - k), Len(heap) + 1)
  /\ UNCHANGED <<params, name, answer, outcome>>

MakeScalar ==
  \E type \in Scalar :
    \E value \in CASE type = "int" -> Ints
                   [] type = "double" -> Doubles
                   [] type = "string" -> Strings
                   [] type = "boolean" -> {0, 1} :
      Make(type, value, <<>>, 0) /\ UNCHANGED <<lost, replaced>>

\* A value without content: Walk returns 0.
MakeNull ==
  /\ outcome \in Walking
  /\ Len(made) + Len(params) < MaxWidth
  /\ made' = Append(made, 0)
  /\ UNCHANGED <<heap, params, name, answer, outcome, lost, replaced>>

IsMember(k) == k # 0 /\ heap[k].type = "member"

MakeArray(k) ==
  /\ \A i \in 1 .. k : ~IsMember(LastOf(made, k)[i])
  /\ Make("array", 0, LastOf(made, k), k)
  /\ UNCHANGED <<lost, replaced>>

MakeStruct_AnyItem(k) ==
  /\ Make("struct", 0, LastOf(made, k), k)
  /\ UNCHANGED <<lost, replaced>>

MakeStruct(k) ==
  /\ \A i \in 1 .. k : IsMember(LastOf(made, k)[i])
  /\ Make("struct", 0, LastOf(made, k), k)
  /\ UNCHANGED <<lost, replaced>>

\* Each value that is not null replaces the one before; nobody deletes that.
MakeMember(label, k) ==
  LET values == LastOf(made, k)
      set == {i \in 1 .. k : values[i] # 0}
      gone == {values[i] : i \in {j \in set : \E l \in set : j < l}}
  IN  /\ \A i \in 1 .. k : ~IsMember(values[i])
      /\ Make("member", label, <<IF set = {} THEN 0 ELSE values[Max(set)]>>, k)
      /\ lost' = lost \cup gone
      /\ replaced' = replaced \cup gone

\* The owners that Walk has begun around a value: an array or a member holds it,
\* and a struct holds nothing but members.
Around(owners) ==
  \A i \in 1 .. Len(owners) :
    /\ owners[i] # 0 /\ heap[owners[i]].type \notin Scalar
    /\ heap[owners[i]].type = "struct" <=> i < Len(owners) /\ IsMember(owners[i + 1])
    /\ IsMember(owners[i]) => i > 1

\* std::stoi or std::stod throws past every Walk that is going on: nobody deletes
\* the objects that they have made, and the node stays on the stack.
ConversionFails ==
  /\ outcome \in Walking
  /\ Around(made)
  /\ lost' = lost \cup ToSet(made)
  /\ made' = <<>>
  /\ outcome' = "stuck"
  /\ UNCHANGED <<heap, params, name, answer, replaced>>

CloseParam ==
  /\ outcome = "building"
  /\ Len(made) = 1
  /\ ~IsMember(made[1])
  /\ params' = params \o made
  /\ made' = <<>>
  /\ UNCHANGED <<heap, name, answer, outcome, lost, replaced>>

\* </params>: the vector becomes the method's.
CloseParams ==
  /\ outcome = "building" /\ made = <<>>
  /\ outcome' = "closed"
  /\ UNCHANGED <<heap, made, params, name, answer, lost, replaced>>

\* Without </params> the method has no vector.
DropParams ==
  /\ outcome = "building" /\ made = <<>> /\ params = <<>>
  /\ params' = NULL
  /\ outcome' = "closed"
  /\ UNCHANGED <<heap, made, name, answer, lost, replaced>>

\* The request ends: ~MethodBuilder deletes the vector and no parameter in it.
CutRequest ==
  /\ outcome \in Walking /\ made = <<>>
  /\ lost' = lost \cup (ToSet(params) \ {0})
  /\ params' = NULL
  /\ outcome' = "cut"
  /\ UNCHANGED <<heap, made, name, answer, replaced>>

-------------------------------------------------------------------------------
(* The objects' own functions *)

\* An object and everything its destructor deletes.
Tree(h) ==
  LET tree[k \in DOMAIN h] ==
        {k} \cup UNION {tree[i] : i \in ToSet(h[k].items) \ {0}}
  IN  tree

Owned(h, ids) == UNION {Tree(h)[k] : k \in ids \ {0}}

Deleted_OwnOnly(h, ids) ==
  [k \in DOMAIN h |-> IF k \in ids THEN [h[k] EXCEPT !.frees = @ + 1] ELSE h[k]]

Deleted(h, ids) ==
  [k \in DOMAIN h |-> IF k \in Owned(h, ids) THEN [h[k] EXCEPT !.frees = @ + 1]
                                             ELSE h[k]]

\* operator const std::string, for the log: it reads every object below, and no
\* null pointer can be read.
Dumps(h, k) ==
  k # 0 /\ \A j \in Owned(h, {k}) : 0 \notin ToSet(h[j].items)

\* What the answer is made of.
Through == {"methodResponse", "params", "param", "value", "data"}
Tag == Type \cup Through \cup {"name"}
Token == [kind : {"open", "close"}, tag : Tag] \cup [kind : {"text"}, value : Int]

Opening(tag) == [kind |-> "open", tag |-> tag]
Closing(tag) == [kind |-> "close", tag |-> tag]
Text(value) == [kind |-> "text", value |-> value]

\* A pair of tags with what is between them.
Element(tag, inside) == (<<Opening(tag)>> \o inside) \o <<Closing(tag)>>
Values(texts) == Concat([i \in 1 .. Len(texts) |-> Element("value", texts[i])])

\* std::to_string: a double in whole millionths, to the nearest.
Digits(type, value) == IF type = "double" THEN (value + 1) \div 3 ELSE value

ScalarTag(type, value) == Element(type, <<Text(Digits(type, value))>>)
ArrayTag(items) == Element("array", Element("data", Values(items)))
StructTag(members) == Element("struct", Concat(members))

MemberTag_NoName(label, values) == Element("member", Values(values))

MemberTag(label, values) ==
  Element("member", Element("name", <<Text(label)>>) \o Values(values))

\* Nobody asks a null pointer, which Readable has excluded.
ToXmlTag(h) ==
  LET tag[k \in DOMAIN h] ==
        LET o == h[k]
            below == [i \in 1 .. Len(o.items) |->
                        IF o.items[i] = 0 THEN <<>> ELSE tag[o.items[i]]]
        IN  CASE o.type \in Scalar -> ScalarTag(o.type, o.value)
              [] o.type = "array" -> ArrayTag(below)
              [] o.type = "struct" -> StructTag(below)
              [] o.type = "member" -> MemberTag(o.value, below)
  IN  tag

Response(param) == Element("methodResponse", Element("params", Element("param", param)))

-------------------------------------------------------------------------------
(* The registered functions *)

\* Signed overflow is undefined: junk is what every overflow leaves in this call.
ToInt(value, junk) == IF value \in IntRange THEN value ELSE junk

\* IntValue of Add's first two parameters; at and IntValue throw.
HasIntValues ==
  /\ Len(params) >= 2
  /\ \A i \in 1 .. 2 : heap[params[i]].type = "int"

IntAnswer(value) == Response(ArrayTag(<<ScalarTag("int", value)>>))

Add(junk) ==
  LET sum == ToInt(heap[params[1]].value + heap[params[2]].value, junk)
  IN  /\ HasIntValues
      /\ answer' = IntAnswer(sum)
      /\ UNCHANGED heap

CopiedValue(o, twice, junk) ==
  IF ~twice \/ o.type \notin {"int", "double", "string"} THEN o.value
  ELSE IF o.type = "int" THEN ToInt(2 * o.value, junk)
  ELSE 2 * o.value

Copy_Shallow(o, shift, twice, junk) ==
  New(o.type, CopiedValue(o, twice, junk), o.items)

\* CopyItem on one object, its items copied to the same distance.
Copy(o, shift, twice, junk) ==
  New(o.type, CopiedValue(o, twice, junk),
      [i \in 1 .. Len(o.items) |-> o.items[i] + shift])

\* What DuplicateParameter makes besides copies, behind 3 * n objects.
Made(n) ==
  LET copies(shift) == [i \in 1 .. Len(params) |-> params[i] + shift]
  IN  << New("array", 0, copies(n)), New("array", 0, copies(2 * n)),
         New("int", -10, <<>>), New("double", -60660000, <<>>),
         New("string", 6, <<>>), New("string", 9, <<>>),
         New("member", 9, <<3 * n + 6>>), New("struct", 0, <<3 * n + 7>>),
         New("boolean", 0, <<>>) >>

\* The objects after CopyItem on all parameters, as they are and doubled.
WithResults(junk) ==
  LET n == Len(heap)
      copied == Owned(heap, ToSet(params))
      ids(shift) == {shift + j : j \in copied}
  IN  [k \in DOMAIN heap \cup ids(n) \cup ids(2 * n) \cup 3 * n + 1 .. 3 * n + 9 |->
         CASE k \in DOMAIN heap -> heap[k]
           [] k \in ids(n) -> Copy(heap[k - n], n, FALSE, junk)
           [] k \in ids(2 * n) -> Copy(heap[k - 2 * n], 2 * n, TRUE, junk)
           [] k > 3 * n -> Made(n)[k - 3 * n]]

\* The vector is turned into tags and deleted with all that it owns.
DuplicateParameter(junk) ==
  LET n == 3 * Len(heap)
      results == <<n + 1, n + 2, n + 3, n + 4, n + 5, n + 8, n + 9>>
      h == WithResults(junk)
  IN  /\ answer' = Response(
           ArrayTag([i \in 1 .. Len(results) |-> ToXmlTag(h)[results[i]]]))
      /\ heap' = Deleted(h, ToSet(results))

-------------------------------------------------------------------------------
(* Method::DoCall and the end of the method *)

Registered == {"Add", "DuplicateParameter"}

Found_Unchecked(method) == TRUE

Found(method) == method \in Registered

Readable == params # NULL /\ \A i \in 1 .. Len(params) : Dumps(heap, params[i])

DoCall(method) ==
  /\ outcome = "closed"
  /\ name' = method
  /\ \/ /\ Found(method) /\ ~Readable
        /\ outcome' = "crashed"
        /\ UNCHANGED <<heap, answer>>
     \/ /\ \/ ~Found(method)
           \/ method = "Add" /\ Readable /\ ~HasIntValues
        /\ outcome' = "fault"
        /\ UNCHANGED <<heap, answer>>
     \/ /\ Readable
        /\ \E junk \in Junk :
             \/ method = "Add" /\ Add(junk)
             \/ method = "DuplicateParameter" /\ DuplicateParameter(junk)
        /\ outcome' = "answered"
  /\ UNCHANGED <<made, params, lost, replaced>>

\* ~Method, after the call or, when the request ends before it, in ~MethodBuilder.
DeleteParameters ==
  /\ outcome \in {"closed", "answered", "fault"}
  /\ heap' = IF params = NULL THEN heap ELSE Deleted(heap, ToSet(params))
  /\ outcome' = "deleted"
  /\ UNCHANGED <<made, params, name, answer, lost, replaced>>

-------------------------------------------------------------------------------
Init ==
  /\ heap = <<>>
  /\ made = <<>>
  /\ params = <<>>
  /\ name = ""
  /\ answer = <<>>
  /\ outcome = "building"
  /\ lost = {}
  /\ replaced = {}

Walk ==
  \/ MakeScalar
  \/ MakeNull
  \/ \E k \in 0 .. Len(made) :
       \/ MakeArray(k)
       \/ MakeStruct(k)
       \/ \E label \in Strings : MakeMember(label, k)
  \/ ConversionFails
  \/ CloseParam

Next ==
  \/ Walk
  \/ CloseParams
  \/ DropParams
  \/ CutRequest
  \/ \E method \in Registered \cup {"unknown"} : DoCall(method)
  \/ DeleteParameters

Spec == Init /\ [][Next]_vars

-------------------------------------------------------------------------------
(* Properties *)

TypeOK ==
  /\ DOMAIN heap \subseteq Nat
  /\ \A k \in DOMAIN heap :
       /\ heap[k] \in Object
       /\ heap[k].type = "struct" => \A i \in ToSet(heap[k].items) : IsMember(i)
       /\ heap[k].type = "member" => Len(heap[k].items) = 1
  /\ made \in Seq(Nat)
  /\ params \in Seq(Nat) \cup {NULL}
  /\ outcome \in Outcome
  /\ lost \subseteq DOMAIN heap
  /\ replaced \subseteq lost

\* No object has two owners, or an owner and a place in the parameters, or two
\* places: a destructor that deletes all it has deletes nothing twice
\* (methodbuilder.cpp:126-222, testserverobjects.cpp:75-134).
OneOwner ==
  LET rooted == {made[i] : i \in DOMAIN made} \cup lost
                  \cup (IF params = NULL THEN {} ELSE ToSet(params))
      distinct(seq) == \A i, j \in DOMAIN seq : seq[i] = seq[j] /\ seq[i] # 0 => i = j
  IN  /\ \A k \in DOMAIN heap :
           /\ distinct(heap[k].items)
           /\ ToSet(heap[k].items) \cap rooted \subseteq {0}
           /\ \A l \in DOMAIN heap \ {k} :
                ToSet(heap[k].items) \cap ToSet(heap[l].items) \subseteq {0}
      /\ distinct(made)
      /\ ToSet(made) \cap lost = {}
      /\ params # NULL => /\ distinct(made \o params)
                          /\ ToSet(params) \cap lost = {}

\* An object is deleted once, what a call makes for its answer when the answer is
\* written, the parameters with their method and never before, nested as they may
\* be (method.cpp:40-49, 187-198; the destructors in methodparameter.cpp), or it
\* stays behind for good.  Nothing but these stays behind: a value that its member
\* gave up for a later one (methodbuilder.cpp:302-306), every object of a parameter
\* in which a value does not convert (263-282, 128-135), and the parameters of a
\* request that ends before </params> (18-24).  A request that is read to its end
\* and converts leaves only the first kind.
DeletedOrLost ==
  LET behind == Owned(heap, lost)
      mine == IF params = NULL THEN {} ELSE Owned(heap, ToSet(params))
  IN  /\ \A k \in DOMAIN heap :
           heap[k].frees = IF \/ k \in behind
                              \/ outcome # "deleted" /\ k \in mine
                              \/ outcome \in Walking \cup {"closed", "crashed"}
                           THEN 0 ELSE 1
      /\ outcome \notin {"stuck", "cut"} => lost = replaced

\* A null pointer, or an object that reaches one through its items.
ReachesNull(h) ==
  LET reaches[k \in {0} \cup DOMAIN h] ==
        k = 0 \/ \E i \in ToSet(h[k].items) : reaches[i]
  IN  reaches

\* A null pointer in the parameters, however deep, or in the place of their
\* vector, never comes to an answer or a fault, but it does not hurt a call of an
\* unknown name: the lookup is first (method.cpp:55-61, objserver.cpp:25-31).
NullIsNeverAnswered ==
  outcome \in {"answered", "fault", "crashed"} =>
    (outcome = "crashed" <=>
       /\ name \in Registered
       /\ \/ params = NULL
          \/ \E i \in 1 .. Len(params) : ReachesNull(heap)[params[i]])

\* A client that reads tags as InitTag, SetTagValue, CloseTag and Walk do: the
\* elements that are open, from the outside, and the objects of those closed.
Node(type, value, items) == [type |-> type, value |-> value, items |-> items]
Outside == Node("none", 0, <<>>)

Closed(outer, inner, number) ==
  CASE inner.type = "name" -> [outer EXCEPT !.value = inner.value]
    [] inner.type \in Through -> [outer EXCEPT !.items = @ \o inner.items]
    [] OTHER -> [outer EXCEPT !.items = Append(@, number)]

\* A closing tag closes the last element that is open, or nothing.
ReadToken(s, token) ==
  LET n == Len(s.open)
      last == s.open[n]
  IN  CASE token.kind = "open" ->
             [s EXCEPT !.open = Append(@, Node(token.tag, 0, <<>>))]
        [] token.kind = "text" ->
             IF n = 0 THEN s ELSE [s EXCEPT !.open[n].value = token.value]
        [] token.kind = "close" ->
             IF n < 2 \/ last.type # token.tag THEN s
             ELSE [open |-> Append(SubSeq(s.open, 1, n - 2),
                                   Closed(s.open[n - 1], last, Len(s.read) + 1)),
                   read |-> IF last.type \in Type THEN Append(s.read, last) ELSE s.read]

ReadText(start, text) ==
  LET state[n \in 0 .. Len(text)] ==
        IF n = 0 THEN start ELSE ReadToken(state[n - 1], text[n])
  IN  state[Len(text)]

\* The millionths that are nearest to a double.
Nearest(thirds) ==
  CHOOSE m \in {thirds \div 3, thirds \div 3 + 1} : 3 * m - thirds \in -1 .. 1

\* The value of an object as the caller should get it back.
Due(o, factor, junk) ==
  LET v == factor * o.value
  IN  CASE o.type = "int" -> IF v \in IntRange THEN v ELSE junk
        [] o.type = "double" -> Nearest(v)
        [] o.type = "string" -> v
        [] OTHER -> o.value

\* Those of the objects read that give a parameter back.
GivesBack(h, read, factor, junk) ==
  LET back[k \in DOMAIN h] ==
        {r \in DOMAIN read :
           /\ read[r].type = h[k].type
           /\ read[r].value = Due(h[k], factor, junk)
           /\ Len(read[r].items) = Len(h[k].items)
           /\ \A i \in 1 .. Len(h[k].items) :
                h[k].items[i] # 0 /\ read[r].items[i] \in back[h[k].items[i]]}
  IN  back

IsSum(read, items, junk) ==
  LET sum == heap[params[1]].value + heap[params[2]].value
  IN  /\ Len(items) = 1
      /\ read[items[1]] = Node("int", IF sum \in IntRange THEN sum ELSE junk, <<>>)

AreDuplicates(read, items, junk) ==
  /\ Len(items) = 7
  /\ \A factor \in 1 .. 2 :
       LET copies == read[items[factor]]
       IN  /\ copies.type = "array"
           /\ Len(copies.items) = Len(params)
           /\ \A i \in 1 .. Len(params) :
                copies.items[i] \in GivesBack(heap, read, factor, junk)[params[i]]
  /\ read[items[3]] = Node("int", -10, <<>>)
  /\ read[items[4]] = Node("double", -20220000, <<>>)
  /\ read[items[5]] = Node("string", 6, <<>>)
  /\ read[items[7]] = Node("boolean", 0, <<>>)
  /\ \E m, v \in DOMAIN read :
       /\ read[items[6]] = Node("struct", 0, <<m>>)
       /\ read[m] = Node("member", 9, <<v>>)
       /\ read[v] = Node("string", 9, <<>>)

\* A client that reads the answer with the rules this server reads calls by gets
\* the parameters back, nested as they were, with every number and string in
\* the second copy doubled, whatever their order and depth; an overflow spoils
\* the int it happens in and nothing else, and a double loses what its six
\* decimals cannot show (testserverobjects.cpp:6-134, method.cpp:95-210, the
\* toXmlTag functions in methodparameter.cpp).
AnswerReadsBack ==
  outcome = "answered" =>
    LET end == ReadText([open |-> <<Outside>>, read |-> <<>>], answer)
        read == end.read
    IN  \E root \in DOMAIN read, junk \in Junk :
          /\ end.open = <<Node("none", 0, <<root>>)>>
          /\ read[root].type = "array"
          /\ IF name = "Add" THEN IsSum(read, read[root].items, junk)
                             ELSE AreDuplicates(read, read[root].items, junk)
===============================================================================
