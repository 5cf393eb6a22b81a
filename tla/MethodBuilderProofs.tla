------------------------- MODULE MethodBuilderProofs -------------------------
(***************************************************************************)
(* What holds of MethodBuilder for every set of tags and texts and for any *)
(* bounds: first the types, the hierarchy and the owner of the vector, for *)
(* which it does not matter what Walk and InSubtree return; then the calls *)
(* and their own text; then the two walks over the tree.                   *)
(***************************************************************************)
EXTENDS MethodBuilder, ProofLemmas

\* The stack is a root, possibly params with one param, and inner nodes.
StackShape ==
  \A i \in 1 .. Depth :
    /\ node[stack[i]].type \in Root <=> i = 1
    /\ node[stack[i]].type = "param" =>
         i = 2 /\ node[stack[1]].type = "params"

\* Where the vector is, by what is on the stack.
VectorInPlace ==
  /\ phase = "parsing" /\ method = NULL => stack = <<>>
  /\ method # NULL =>
       /\ Len(calls) < MaxCalls
       /\ stack # <<>> => parameters # NULL
       /\ stack = <<>> => parameters \in {NULL, <<>>}
       /\ stack # <<>> /\ node[stack[1]].type = "methodName" =>
            parameters = <<>>

IInv == TypeOK /\ StackShape /\ TreeFollowsRules /\ VectorInPlace /\ OneVectorOwner

-------------------------------------------------------------------------------
(* Lemmas on the operators *)

LEMMA NullIsNoVector == NULL \notin Seq(Param) /\ NULL # <<>> /\ NULL \notin Method
<1>1. <<>> \in Seq(Param)
  BY EmptySeq
<1> QED BY <1>1, BuilderAssumption

\* The top of a nonempty stack, and what is left without it.
LEMMA PopTypes ==
  ASSUME stack \in Seq(Id), stack # <<>>
  PROVE  /\ Depth \in Nat /\ Depth >= 1
         /\ Top \in Id
         /\ Pop => /\ stack' \in Seq(Id)
                   /\ Len(stack') = Depth - 1
                   /\ \A i \in 1 .. Depth - 1 : stack'[i] = stack[i]
<1>1. Depth \in Nat /\ Depth >= 1
  BY EmptySeq DEF Depth
<1>2. Top \in Id
  BY <1>1, ElementOfSeq DEF Top, Depth
<1>3. ASSUME Pop
      PROVE  /\ stack' \in Seq(Id)
             /\ Len(stack') = Depth - 1
             /\ \A i \in 1 .. Depth - 1 : stack'[i] = stack[i]
  <2>1. \A i \in 1 .. Depth - 1 : stack[i] \in Id
    BY <1>1, ElementOfSeq DEF Depth
  <2> DEFINE d == Depth - 1
             rest == SubSeq(stack, 1, d)
  <2>2. d \in Nat /\ 1 \in Int /\ d \in Int
    BY <1>1
  <2>3. \A i \in 1 .. d : stack[i] \in Id
    BY <2>1
  <2> HIDE DEF d
  <2>4. /\ rest \in Seq(Id)
        /\ Len(rest) = IF 1 <= d THEN d - 1 + 1 ELSE 0
        /\ \A i \in 1 .. d - 1 + 1 : rest[i] = stack[1 + i - 1]
    <3> HIDE DEF Id
    <3> QED BY <2>2, <2>3, SubSeqProperties
  <2>5. /\ Len(rest) = d
        /\ \A i \in 1 .. d : rest[i] = stack[i]
    <3> HIDE DEF rest
    <3> QED BY <2>2, <2>4
  <2> QED BY <1>3, <2>4, <2>5 DEF Pop, d
<1> QED BY <1>1, <1>2, <1>3

LEMMA FreesTypes ==
  ASSUME NEW r \in Node
  PROVE  /\ [r EXCEPT !.frees = @ + 1] \in Node
         /\ [r EXCEPT !.frees = @ + 1].type = r.type
         /\ [r EXCEPT !.frees = @ + 1].parent = r.parent
BY DEF Node

\* Deleting a subtree changes nothing of a node but how often it was deleted.
LEMMA DeletedTypes ==
  ASSUME node \in Seq(Node), NEW n
  PROVE  /\ Deleted(n) \in Seq(Node)
         /\ Len(Deleted(n)) = Len(node)
         /\ \A k \in Id : /\ Deleted(n)[k].type = node[k].type
                          /\ Deleted(n)[k].parent = node[k].parent
<1>1. ASSUME NEW k \in Id
      PROVE  /\ Deleted(n)[k] \in Node
             /\ Deleted(n)[k].type = node[k].type
             /\ Deleted(n)[k].parent = node[k].parent
  <2>1. node[k] \in Node
    BY ElementOfSeq DEF Id
  <2>2. /\ [node[k] EXCEPT !.frees = @ + 1] \in Node
        /\ [node[k] EXCEPT !.frees = @ + 1].type = node[k].type
        /\ [node[k] EXCEPT !.frees = @ + 1].parent = node[k].parent
    BY <2>1, FreesTypes
  <2>3. Deleted(n)[k] = node[k] \/ Deleted(n)[k] = [node[k] EXCEPT !.frees = @ + 1]
    BY DEF Deleted
  <2> QED BY <2>1, <2>2, <2>3
<1>2. Deleted(n) \in [1 .. Len(node) -> Node]
  BY <1>1 DEF Deleted, Id
<1>3. Len(node) \in Nat
  OBVIOUS
<1> HIDE DEF Deleted
<1>4. Deleted(n) \in Seq(Node)
  BY <1>2, <1>3, SeqDef
<1>5. Len(Deleted(n)) = Len(node)
  BY <1>2, <1>3, <1>4, LenProperties
<1> QED BY <1>1, <1>4, <1>5

-------------------------------------------------------------------------------
(* The tree and the stack *)

SameTree ==
  /\ Len(node') = Len(node)
  /\ \A k \in Id : /\ node'[k].type = node[k].type
                   /\ node'[k].parent = node[k].parent

ShorterStack ==
  /\ Len(stack') \in 0 .. Depth
  /\ \A i \in 1 .. Len(stack') : stack'[i] = stack[i]

\* Steps that allocate nothing keep the rules.
LEMMA ShapeKept ==
  ASSUME stack \in Seq(Id), node \in Seq(Node), StackShape, TreeFollowsRules,
         SameTree, ShorterStack
  PROVE  StackShape' /\ TreeFollowsRules'
<1>1. Len(node) \in Nat /\ Depth \in Nat /\ Id' = Id
  BY DEF Depth, SameTree, Id
<1>2. \A i \in 1 .. Depth : stack[i] \in Id
  BY ElementOfSeq DEF Depth
<1>3. \A i \in 1 .. Len(stack') :
        /\ i \in 1 .. Depth
        /\ stack'[i] = stack[i]
        /\ node'[stack'[i]].type = node[stack[i]].type
        /\ node'[stack'[i]].parent = node[stack[i]].parent
  BY <1>1, <1>2 DEF SameTree, ShorterStack
<1>4. StackShape'
  BY <1>1, <1>3 DEF StackShape, Depth, ShorterStack
<1>5. ASSUME NEW n \in Id
      PROVE  IF node'[n].type \in Root THEN node'[n].parent = 0
             ELSE /\ node'[n].parent \in 1 .. n - 1
                  /\ node'[node'[n].parent].type \in ParentTypes(node'[n].type)
  <2>1. CASE node[n].type \in Root
    BY <2>1 DEF SameTree, TreeFollowsRules
  <2>2. CASE node[n].type \notin Root
    <3>1. /\ node[n].parent \in 1 .. n - 1
          /\ node[node[n].parent].type \in ParentTypes(node[n].type)
      BY <2>2 DEF TreeFollowsRules
    <3>2. node[n].parent \in Id
      BY <1>1, <3>1 DEF Id
    <3> QED BY <2>2, <3>1, <3>2 DEF SameTree
  <2> QED BY <2>1, <2>2
<1>6. ASSUME NEW i \in 1 .. Len(stack')
      PROVE  node'[stack'[i]].parent = IF i = 1 THEN 0 ELSE stack'[i - 1]
  <2>1. i \in 1 .. Depth /\ (i # 1 => i - 1 \in 1 .. Len(stack'))
    BY <1>1, <1>3 DEF ShorterStack
  <2> QED BY <1>3, <2>1 DEF TreeFollowsRules
<1>7. TreeFollowsRules'
  BY <1>1, <1>5, <1>6 DEF TreeFollowsRules, Depth
<1> QED BY <1>4, <1>7

\* What a pop leaves, when no node changes its place.
LEMMA PopKept ==
  ASSUME TypeOK, StackShape, TreeFollowsRules, stack # <<>>,
         Pop, SameTree, node' \in Seq(Node)
  PROVE  /\ (stack \in Seq(Id))'
         /\ StackShape'
         /\ TreeFollowsRules'
         /\ stack' = <<>> <=> Depth = 1
         /\ stack' # <<>> => node'[stack'[1]].type = node[stack[1]].type
<1>1. stack \in Seq(Id) /\ node \in Seq(Node)
  BY DEF TypeOK
<1>2. /\ Depth \in Nat /\ Depth >= 1
      /\ stack' \in Seq(Id)
      /\ Len(stack') = Depth - 1
      /\ \A i \in 1 .. Depth - 1 : stack'[i] = stack[i]
  BY <1>1, PopTypes
<1>3. Id' = Id
  BY DEF Id, SameTree
<1>4. ShorterStack
  BY <1>2 DEF ShorterStack
<1>5. StackShape' /\ TreeFollowsRules'
  BY <1>1, <1>4, ShapeKept
<1>6. stack' = <<>> <=> Depth = 1
  <2>1. Len(<<>>) = 0 /\ (stack' # <<>> => Len(stack') \in Nat \ {0})
    BY <1>2, EmptySeq
  <2> QED BY <1>2, <2>1
<1>7. ASSUME stack' # <<>> PROVE node'[stack'[1]].type = node[stack[1]].type
  <2>1. Depth > 1
    BY <1>2, <1>6, <1>7
  <2>2. stack'[1] = stack[1] /\ stack[1] \in Id
    BY <1>1, <1>2, <2>1, ElementOfSeq DEF Depth
  <2> QED BY <2>2 DEF SameTree
<1> QED BY <1>2, <1>3, <1>5, <1>6, <1>7

\* An allowed child keeps the rules.
LEMMA OpenKept ==
  ASSUME TypeOK, StackShape, TreeFollowsRules, NEW type \in Tag, OpenNode(type)
  PROVE  /\ node' \in Seq(Node)
         /\ (stack \in Seq(Id))'
         /\ StackShape'
         /\ TreeFollowsRules'
         /\ stack' # <<>>
         /\ type \in Root => Depth = 0 /\ parameters = <<>>
         /\ type \notin Root => Depth > 0 /\ stack'[1] = stack[1]
         /\ Depth = 0 => node'[stack'[1]].type = type
         /\ Depth > 0 => node'[stack'[1]].type = node[stack[1]].type
<1> DEFINE n == Len(node) + 1
           new == [type |-> type, value |-> None, frees |-> 0,
                   parent |-> IF Depth = 0 THEN 0 ELSE Top]
<1>1. /\ stack \in Seq(Id) /\ node \in Seq(Node) /\ type \in NodeType
      /\ Len(node) \in Nat /\ Depth \in Nat
  BY BuilderAssumption DEF TypeOK, Depth
<1>2. Depth > 0 => Top \in Id
  BY <1>1, ElementOfSeq DEF Top, Depth
<1>3. new \in Node
  BY <1>1, <1>2 DEF Node, Id
<1>4. /\ node' = Append(node, new) /\ stack' = Append(stack, n)
      /\ CheckHierarchyRules(type)
  BY DEF OpenNode
<1>5. /\ node' \in Seq(Node) /\ Len(node') = n
      /\ node'[n] = new
      /\ \A k \in Id : node'[k] = node[k]
  BY <1>1, <1>3, <1>4, AppendProperties DEF Id
<1>6. Id \subseteq Id' /\ n \in Id'
  BY <1>1, <1>5 DEF Id
<1>7. /\ stack' \in Seq(Id') /\ Len(stack') = Depth + 1
      /\ stack'[Depth + 1] = n
      /\ \A i \in 1 .. Depth : stack'[i] = stack[i]
  <2>1. stack \in Seq(Id')
    BY <1>1, <1>6, SeqMonotonic
  <2> HIDE DEF n
  <2> QED BY <1>4, <1>6, <2>1, AppendProperties DEF Depth
<1> HIDE DEF new
<1>8. new.type = type /\ new.parent = IF Depth = 0 THEN 0 ELSE Top
  BY DEF new
<1>9. \A i \in 1 .. Depth :
        /\ stack[i] \in Id
        /\ stack'[i] = stack[i]
        /\ node'[stack'[i]] = node[stack[i]]
  BY <1>1, <1>5, <1>7, ElementOfSeq DEF Depth
<1>10. /\ type \in Root => Depth = 0 /\ parameters = <<>>
       /\ type \notin Root => Depth > 0 /\ TopType \in ParentTypes(type)
       /\ type = "param" => Depth = 1 /\ TopType = "params"
  BY <1>1, <1>4 DEF CheckHierarchyRules, LeastDepth, ParentTypes, Root, NodeType,
                    Scalar
<1>11. stack' # <<>>
  BY <1>1, <1>7, EmptySeq
<1>12. StackShape'
  <2>1. ASSUME NEW i \in 1 .. Depth
        PROVE  /\ node'[stack'[i]].type \in Root <=> i = 1
               /\ node'[stack'[i]].type = "param" =>
                    i = 2 /\ node'[stack'[1]].type = "params"
    BY <1>1, <1>9 DEF StackShape
  <2>2. node'[stack'[Depth + 1]].type = type
    BY <1>5, <1>7, <1>8
  <2>3. type \in Root <=> Depth + 1 = 1
    BY <1>1, <1>10
  <2>4. ASSUME type = "param" PROVE Depth + 1 = 2 /\ node'[stack'[1]].type = "params"
    BY <1>1, <1>9, <1>10, <2>4 DEF TopType, Top
  <2> QED
    BY <1>1, <1>7, <2>1, <2>2, <2>3, <2>4 DEF StackShape, Depth
<1>13. TreeFollowsRules'
  <2>1. ASSUME NEW k \in Id
        PROVE  IF node'[k].type \in Root THEN node'[k].parent = 0
               ELSE /\ node'[k].parent \in 1 .. k - 1
                    /\ node'[node'[k].parent].type \in ParentTypes(node'[k].type)
    <3>1. CASE node[k].type \in Root
      BY <1>5, <3>1 DEF TreeFollowsRules
    <3>2. CASE node[k].type \notin Root
      <4>1. /\ node[k].parent \in 1 .. k - 1
            /\ node[node[k].parent].type \in ParentTypes(node[k].type)
        BY <3>2 DEF TreeFollowsRules
      <4>2. node[k].parent \in Id
        BY <1>1, <4>1 DEF Id
      <4> QED BY <1>5, <3>2, <4>1, <4>2
    <3> QED BY <3>1, <3>2
  <2>2. IF type \in Root THEN node'[n].parent = 0
        ELSE /\ node'[n].parent \in 1 .. n - 1
             /\ node'[node'[n].parent].type \in ParentTypes(type)
    <3>1. CASE type \in Root
      BY <1>5, <1>8, <1>10, <3>1
    <3>2. CASE type \notin Root
      <4>1. node'[n].parent = Top /\ Top \in Id /\ TopType \in ParentTypes(type)
        BY <1>2, <1>5, <1>8, <1>10, <3>2
      <4> QED BY <1>1, <1>5, <3>2, <4>1 DEF TopType, Id
    <3> QED BY <3>1, <3>2
  <2>3. node'[n].type = type
    BY <1>5, <1>8
  <2>4. ASSUME NEW i \in 1 .. Depth
        PROVE  node'[stack'[i]].parent = IF i = 1 THEN 0 ELSE stack'[i - 1]
    <3>1. i # 1 => i - 1 \in 1 .. Depth
      BY <1>1
    <3> QED BY <1>9, <3>1 DEF TreeFollowsRules
  <2>5. node'[stack'[Depth + 1]].parent =
          IF Depth + 1 = 1 THEN 0 ELSE stack'[Depth]
    BY <1>1, <1>5, <1>7, <1>8, <1>9 DEF Top
  <2>6. Id' = Id \cup {n}
    BY <1>1, <1>5 DEF Id
  <2>7. \A i \in 1 .. Depth + 1 :
          node'[stack'[i]].parent = IF i = 1 THEN 0 ELSE stack'[i - 1]
    BY <1>1, <2>4, <2>5
  <2>8. \A k \in Id' :
          IF node'[k].type \in Root THEN node'[k].parent = 0
          ELSE /\ node'[k].parent \in 1 .. k - 1
               /\ node'[node'[k].parent].type \in ParentTypes(node'[k].type)
    BY <2>1, <2>2, <2>3, <2>6
  <2> QED BY <1>7, <2>7, <2>8 DEF TreeFollowsRules, Depth
<1>14. Depth = 0 => node'[stack'[1]].type = type
  BY <1>5, <1>7, <1>8
<1>15. Depth > 0 =>
         stack'[1] = stack[1] /\ node'[stack'[1]].type = node[stack[1]].type
  BY <1>1, <1>9
<1> QED BY <1>5, <1>7, <1>10, <1>11, <1>12, <1>13, <1>14, <1>15

-------------------------------------------------------------------------------
(* The inductive invariant *)

LEMMA InitInv == Init => IInv
<1> SUFFICES ASSUME Init PROVE IInv
  OBVIOUS
<1> USE DEF Init
<1>1. Depth = 0 /\ Id = {}
  BY EmptySeq DEF Depth, Id
<1>2. TypeOK
  <2>1. /\ node \in Seq(Node) /\ stack \in Seq(Id) /\ calls \in Seq(DoneCall)
        /\ parameters \in Seq(Param) \cup {NULL} /\ Len(calls) = 0
    BY EmptySeq
  <2> QED BY <2>1, BuilderAssumption DEF TypeOK
<1>3. StackShape /\ TreeFollowsRules
  BY <1>1 DEF StackShape, TreeFollowsRules
<1>4. VectorInPlace /\ OneVectorOwner
  BY NullIsNoVector DEF VectorInPlace, OneVectorOwner
<1> QED BY <1>2, <1>3, <1>4 DEF IInv

LEMMA OpenMethodInv == IInv /\ phase = "parsing" /\ OpenMethod => IInv'
<1> SUFFICES ASSUME IInv, phase = "parsing", OpenMethod PROVE IInv'
  OBVIOUS
<1> USE DEF IInv, OpenMethod
<1>1. /\ method' \in Method /\ method' # NULL /\ method'.params = NULL
      /\ parameters' \in Seq(Param) /\ parameters' # NULL
  BY NullIsNoVector, EmptySeq DEF Method, TypeOK
<1>2. TypeOK'
  BY <1>1 DEF TypeOK, Id
<1>3. StackShape' /\ TreeFollowsRules'
  BY DEF StackShape, TreeFollowsRules, Depth, Id
<1>4. VectorInPlace' /\ OneVectorOwner'
  BY <1>1 DEF VectorInPlace, OneVectorOwner, TypeOK
<1> QED BY <1>2, <1>3, <1>4

LEMMA OpenNodeInv ==
  ASSUME IInv, NEW type \in Tag, OpenNode(type)
  PROVE  IInv'
<1> USE DEF IInv
<1>1. /\ node' \in Seq(Node)
      /\ (stack \in Seq(Id))'
      /\ StackShape'
      /\ TreeFollowsRules'
      /\ stack' # <<>>
      /\ type \in Root => Depth = 0 /\ parameters = <<>>
      /\ type \notin Root => Depth > 0 /\ stack'[1] = stack[1]
      /\ Depth = 0 => node'[stack'[1]].type = type
      /\ Depth > 0 => node'[stack'[1]].type = node[stack[1]].type
  BY OpenKept
<1>2. TypeOK'
  BY <1>1 DEF TypeOK, OpenNode
<1>3. stack = <<>> <=> Depth = 0
  BY EmptySeq DEF TypeOK, Depth
<1>4. Depth \in Nat
  BY DEF TypeOK, Depth
<1>5. parameters # NULL
  BY <1>1, <1>3, <1>4, NullIsNoVector DEF VectorInPlace, OpenNode
<1>6. node'[stack'[1]].type = "methodName" => parameters = <<>>
  BY <1>1, <1>3, <1>4 DEF VectorInPlace, OpenNode, Root
<1>7. VectorInPlace' /\ OneVectorOwner'
  BY <1>1, <1>5, <1>6 DEF VectorInPlace, OneVectorOwner, OpenNode
<1> QED BY <1>1, <1>2, <1>7

LEMMA SetNodeValueInv ==
  ASSUME IInv, NEW text \in Text, SetNodeValue(text)
  PROVE  IInv'
<1> USE DEF IInv
<1>1. stack \in Seq(Id) /\ node \in Seq(Node) /\ Top \in Id
  BY PopTypes DEF TypeOK, SetNodeValue
<1>2. node[Top] \in Node
  BY <1>1, ElementOfSeq DEF Id
<1>3. /\ [node[Top] EXCEPT !.value = text] \in Node
      /\ [node[Top] EXCEPT !.value = text].type = node[Top].type
      /\ [node[Top] EXCEPT !.value = text].parent = node[Top].parent
  BY <1>2 DEF Node
<1>4. /\ node' \in Seq(Node)
      /\ Len(node') = Len(node)
      /\ node' = [node EXCEPT ![Top] = [node[Top] EXCEPT !.value = text]]
  BY <1>1, <1>3, ExceptSeq DEF SetNodeValue, Id
<1>5. SameTree
  BY <1>1, <1>3, <1>4 DEF SameTree, Id
<1>6. ShorterStack
  BY <1>1 DEF ShorterStack, SetNodeValue, Depth
<1>7. StackShape' /\ TreeFollowsRules'
  BY <1>1, <1>5, <1>6, ShapeKept
<1>8. TypeOK'
  BY <1>4 DEF TypeOK, SetNodeValue, Id
<1>9. stack # <<>> => stack[1] \in Id
  BY <1>1, EmptySeq, ElementOfSeq
<1>10. VectorInPlace' /\ OneVectorOwner'
  BY <1>5, <1>9 DEF VectorInPlace, OneVectorOwner, SetNodeValue, SameTree
<1> QED BY <1>7, <1>8, <1>10

\* A root is on top only when nothing else is on the stack.
LEMMA RootAlone ==
  ASSUME IInv, stack # <<>>
  PROVE  /\ TopType \in Root <=> Depth = 1
         /\ TopType = "param" => Depth = 2 /\ node[stack[1]].type = "params"
         /\ Depth = 1 => node[stack[1]].type = TopType
<1>1. Depth \in Nat /\ Depth >= 1
  BY PopTypes DEF IInv, TypeOK
<1> QED BY <1>1 DEF IInv, StackShape, TopType, Top

LEMMA CloseNameInv == IInv /\ CloseName => IInv'
<1> SUFFICES ASSUME IInv, CloseName PROVE IInv'
  OBVIOUS
<1> USE DEF IInv
<1>1. /\ method # NULL /\ stack # <<>> /\ TopType = "methodName"
      /\ node \in Seq(Node) /\ stack \in Seq(Id) /\ method \in Method
  BY DEF CloseName, Closes, TypeOK
<1>2. /\ node' \in Seq(Node) /\ SameTree
  BY <1>1, DeletedTypes DEF CloseName, SameTree
<1>3. Depth = 1 /\ node[stack[1]].type = "methodName" /\ Top \in Id
  BY <1>1, RootAlone, PopTypes DEF Root
<1>4. /\ (stack \in Seq(Id))' /\ StackShape' /\ TreeFollowsRules' /\ stack' = <<>>
  BY <1>1, <1>2, <1>3, PopKept DEF CloseName
<1>5. /\ method' \in Method /\ method'.params = method.params
  <2>1. node[Top].value \in Text \cup {None}
    <3>1. node[Top] \in Node
      BY <1>1, <1>3, ElementOfSeq DEF Id
    <3> QED BY <3>1 DEF Node
  <2>2. method' = [method EXCEPT !.name = node[Top].value]
    BY DEF CloseName
  <2>3. ASSUME NEW v \in Text \cup {None}
        PROVE  /\ [method EXCEPT !.name = v] \in Method
               /\ [method EXCEPT !.name = v].params = method.params
    BY <1>1 DEF Method
  <2> QED BY <2>1, <2>2, <2>3
<1>6. TypeOK'
  BY <1>2, <1>4, <1>5 DEF TypeOK, CloseName
<1>7. parameters = <<>>
  BY <1>1, <1>3 DEF VectorInPlace
<1>8. method' # NULL
  BY <1>5, NullIsNoVector
<1>9. VectorInPlace' /\ OneVectorOwner'
  BY <1>1, <1>4, <1>5, <1>7, <1>8 DEF VectorInPlace, OneVectorOwner, CloseName
<1> QED BY <1>4, <1>6, <1>9

LEMMA CloseParamsInv == IInv /\ CloseParams => IInv'
<1> SUFFICES ASSUME IInv, CloseParams PROVE IInv'
  OBVIOUS
<1> USE DEF IInv
<1>1. /\ method # NULL /\ stack # <<>> /\ TopType = "params"
      /\ node \in Seq(Node) /\ stack \in Seq(Id) /\ method \in Method
  BY DEF CloseParams, Closes, TypeOK
<1>2. /\ node' \in Seq(Node) /\ SameTree
  BY <1>1, DeletedTypes DEF CloseParams, SameTree
<1>3. Depth = 1
  BY <1>1, RootAlone DEF Root
<1>4. /\ (stack \in Seq(Id))' /\ StackShape' /\ TreeFollowsRules' /\ stack' = <<>>
  BY <1>1, <1>2, <1>3, PopKept DEF CloseParams
<1>5. parameters \in Seq(Param) /\ parameters # NULL
  BY <1>1 DEF VectorInPlace, TypeOK
<1>6. method' \in Method /\ method'.params = parameters /\ parameters' = NULL
  BY <1>1, <1>5 DEF CloseParams, HandOver, Method
<1>7. TypeOK'
  BY <1>2, <1>4, <1>6 DEF TypeOK, CloseParams
<1>8. method' # NULL
  BY <1>6, NullIsNoVector
<1>9. VectorInPlace' /\ OneVectorOwner'
  BY <1>1, <1>4, <1>5, <1>6, <1>8 DEF VectorInPlace, OneVectorOwner, CloseParams
<1> QED BY <1>4, <1>7, <1>9

LEMMA CloseParamInv == IInv /\ CloseParam => IInv'
<1> SUFFICES ASSUME IInv, CloseParam PROVE IInv'
  OBVIOUS
<1> USE DEF IInv
<1> DEFINE arg == [node |-> Top, whole |-> Walk[Top] = "whole"]
<1>1. /\ method # NULL /\ stack # <<>> /\ TopType = "param"
      /\ node \in Seq(Node) /\ stack \in Seq(Id) /\ node' = node
      /\ parameters' = Append(parameters, arg)
  BY DEF CloseParam, Closes, TypeOK
<1>2. SameTree /\ node' \in Seq(Node)
  BY <1>1 DEF SameTree
<1>3. Depth = 2 /\ node[stack[1]].type = "params" /\ Top \in Id
  BY <1>1, RootAlone, PopTypes
<1>4. /\ (stack \in Seq(Id))' /\ StackShape' /\ TreeFollowsRules' /\ stack' # <<>>
      /\ node'[stack'[1]].type = "params"
  BY <1>1, <1>2, <1>3, PopKept DEF CloseParam
<1>5. parameters \in Seq(Param) /\ parameters # NULL
  BY <1>1 DEF VectorInPlace, TypeOK
<1>6. arg \in Param
  BY <1>1, <1>3 DEF Param, Id
<1>7. parameters' \in Seq(Param) /\ parameters' # NULL
  <2> HIDE DEF arg
  <2> QED BY <1>1, <1>5, <1>6, AppendProperties, NullIsNoVector
<1>8. TypeOK'
  BY <1>2, <1>4, <1>7 DEF TypeOK, CloseParam
<1>9. VectorInPlace' /\ OneVectorOwner'
  BY <1>1, <1>4, <1>5, <1>7 DEF VectorInPlace, OneVectorOwner, CloseParam
<1> QED BY <1>4, <1>8, <1>9

LEMMA CloseInnerInv == IInv /\ CloseInner => IInv'
<1> SUFFICES ASSUME IInv, CloseInner PROVE IInv'
  OBVIOUS
<1> USE DEF IInv
<1>1. /\ method # NULL /\ stack # <<>> /\ TopType \notin Root /\ node' = node
      /\ node \in Seq(Node) /\ stack \in Seq(Id)
  BY DEF CloseInner, Closes, TypeOK
<1>2. SameTree /\ node' \in Seq(Node)
  BY <1>1 DEF SameTree
<1>3. Depth # 1
  BY <1>1, RootAlone
<1>4. /\ (stack \in Seq(Id))' /\ StackShape' /\ TreeFollowsRules' /\ stack' # <<>>
      /\ node'[stack'[1]].type = node[stack[1]].type
  BY <1>1, <1>2, <1>3, PopKept DEF CloseInner
<1>5. TypeOK'
  BY <1>2, <1>4 DEF TypeOK, CloseInner
<1>6. VectorInPlace' /\ OneVectorOwner'
  BY <1>1, <1>4 DEF VectorInPlace, OneVectorOwner, CloseInner
<1> QED BY <1>4, <1>5, <1>6

LEMMA CloseMethodInv == IInv /\ CloseMethod => IInv'
<1> SUFFICES ASSUME IInv, CloseMethod PROVE IInv'
  OBVIOUS
<1> USE DEF IInv, CloseMethod
<1> DEFINE call == [name |-> method.name, params |-> method.params,
                    since |-> method.since, until |-> Len(node)]
<1>1. call \in DoneCall
  BY DEF TypeOK, Method, DoneCall
<1>2. calls' \in Seq(DoneCall) /\ Len(calls') = Len(calls) + 1
  <2>1. calls' = Append(calls, call) /\ calls \in Seq(DoneCall)
    BY DEF MakeCall, TypeOK
  <2> HIDE DEF call
  <2> QED BY <1>1, <2>1, AppendProperties
<1>3. Len(calls) \in Nat /\ Len(calls) < MaxCalls
  BY DEF VectorInPlace, TypeOK
<1>4. TypeOK'
  BY <1>2, <1>3, BuilderAssumption DEF TypeOK, Id
<1>5. StackShape' /\ TreeFollowsRules'
  BY DEF StackShape, TreeFollowsRules, Depth, Id
<1>6. VectorInPlace' /\ OneVectorOwner'
  BY DEF VectorInPlace, OneVectorOwner
<1> QED BY <1>4, <1>5, <1>6

LEMMA StillInv == IInv /\ (Destroy \/ UNCHANGED vars) => IInv'
<1> SUFFICES ASSUME IInv, Destroy \/ UNCHANGED vars PROVE IInv'
  OBVIOUS
<1> USE DEF IInv, Destroy, vars
<1>1. TypeOK'
  BY DEF TypeOK, Id
<1>2. StackShape' /\ TreeFollowsRules'
  BY DEF StackShape, TreeFollowsRules, Depth, Id
<1>3. VectorInPlace' /\ OneVectorOwner'
  BY DEF VectorInPlace, OneVectorOwner
<1> QED BY <1>1, <1>2, <1>3

LEMMA CrashInv ==
  ASSUME IInv, NEW type, OpenWithoutVector(type)
  PROVE  IInv'
<1> USE DEF IInv, OpenWithoutVector
<1>1. TypeOK'
  BY DEF TypeOK, Id
<1>2. StackShape' /\ TreeFollowsRules'
  BY DEF StackShape, TreeFollowsRules, Depth, Id
<1>3. VectorInPlace' /\ OneVectorOwner'
  BY DEF VectorInPlace, OneVectorOwner
<1> QED BY <1>1, <1>2, <1>3

LEMMA NextInv == IInv /\ [Next]_vars => IInv'
BY OpenMethodInv, OpenNodeInv, CrashInv, SetNodeValueInv, CloseNameInv,
   CloseParamsInv, CloseParamInv, CloseInnerInv, CloseMethodInv, StillInv
DEF Next

LEMMA Invariance == Spec => []IInv
BY InitInv, NextInv, PTL DEF Spec

-------------------------------------------------------------------------------
(* Theorems *)

\* Whatever tags and texts arrive in whatever order, every variable keeps its
\* type: the stack holds nodes that exist, and only vectors are appended to or
\* handed to a method (methodbuilder.cpp:69-156).
THEOREM TypeCorrect == Spec => []TypeOK
BY Invariance, PTL DEF IInv

\* The rules of CheckHierarchyRules hold along every edge of the tree and the
\* stack is one path from a root (methodbuilder.cpp:158-256).
THEOREM TreeRules == Spec => []TreeFollowsRules
BY Invariance, PTL DEF IInv

\* The parameter vector of a method has one owner, and a finished method leaves
\* nothing in the builder's vector (methodbuilder.cpp:33, 116-117).
THEOREM VectorOwned == Spec => []OneVectorOwner
BY Invariance, PTL DEF IInv

-------------------------------------------------------------------------------
(* A call is made with the parameters and the name of its own text.  Beside *)
(* the finished calls the invariant says what the open method has of its    *)
(* own so far: the nodes that are closed, which are older than those on the *)
(* stack.                                                                   *)

NameNodes(first, last) == {n \in first .. last : node[n].type = "methodName"}
OnStack == {stack[i] : i \in 1 .. Depth}

IdsOf(args) == {args[j].node : j \in 1 .. Len(args)}
Increasing(args) ==
  \A j, k \in 1 .. Len(args) : j < k => args[j].node < args[k].node

\* The value of the last of these nodes.
Named(names, value) ==
  IF names = {} THEN value = None
  ELSE \E g \in names : value = node[g].value /\ \A l \in names : l <= g

ArgsOf(params) == IF params = NULL THEN <<>> ELSE params

CallDone(call) ==
  /\ call.until <= Len(node)
  /\ method # NULL => call.until <= method.since
  /\ IdsOf(ArgsOf(call.params)) = ParamNodes(call.since + 1, call.until)
  /\ Increasing(ArgsOf(call.params))
  /\ Named(NameNodes(call.since + 1, call.until), call.name)

CallsDone == \A i \in 1 .. Len(calls) : CallDone(calls[i])

\* The vector of the open method, and the nodes of it that are closed.
Taken == IF method.params = NULL THEN parameters ELSE method.params
ClosedParams == ParamNodes(method.since + 1, Len(node)) \ OnStack
ClosedNames == NameNodes(method.since + 1, Len(node)) \ OnStack

OpenCall ==
  method # NULL =>
    /\ method.since <= Len(node)
    /\ \A i \in 1 .. Depth : method.since < stack[i]
    /\ IdsOf(Taken) = ClosedParams
    /\ Increasing(Taken)
    /\ Depth > 1 => \A n \in ClosedParams : n < stack[2]
    /\ Named(ClosedNames, method.name)
    /\ Depth > 0 => \A n \in ClosedNames : n < stack[1]

CallInv == IInv /\ CallsDone /\ OpenCall

-------------------------------------------------------------------------------
(* Lemmas on the operators *)

LEMMA Basics ==
  ASSUME IInv
  PROVE  /\ stack \in Seq(Id) /\ Depth \in Nat
         /\ node \in Seq(Node) /\ Len(node) \in Nat
         /\ calls \in Seq(DoneCall) /\ Len(calls) \in Nat
         /\ \A i \in 1 .. Depth : stack[i] \in Id
         /\ \A i \in 1 .. Len(calls) : calls[i] \in DoneCall
         /\ method # NULL => method \in Method
         /\ stack = <<>> <=> Depth = 0
<1>1. /\ stack \in Seq(Id) /\ node \in Seq(Node) /\ calls \in Seq(DoneCall)
      /\ method # NULL => method \in Method
  BY DEF IInv, TypeOK
<1>2. \A i \in 1 .. Depth : stack[i] \in Id
  BY <1>1, ElementOfSeq DEF Depth
<1>3. \A i \in 1 .. Len(calls) : calls[i] \in DoneCall
  BY <1>1, ElementOfSeq
<1>4. stack = <<>> <=> Depth = 0
  BY <1>1, EmptySeq DEF Depth
<1> QED BY <1>1, <1>2, <1>3, <1>4 DEF Depth

\* The greatest element of a set that has one.
LEMMA GreatestIs ==
  ASSUME NEW S \in SUBSET Int, NEW g \in S, \A l \in S : l <= g
  PROVE  Greatest(S) = g
<1> DEFINE P(k) == k \in S /\ \A l \in S : l <= k
           m == CHOOSE k : P(k)
<1>1. P(g)
  OBVIOUS
<1>2. P(m)
  <2> HIDE DEF P
  <2> QED BY <1>1
<1>3. Greatest(S) = m
  BY DEF Greatest
<1> HIDE DEF m
<1> QED BY <1>1, <1>2, <1>3

\* The method has the vector, or the builder keeps it for the method.
LEMMA TakenTypes ==
  ASSUME IInv, method # NULL
  PROVE  /\ Taken \in Seq(Param)
         /\ parameters # NULL => Taken = parameters /\ method.params = NULL
<1>1. method.params \in Seq(Param) \cup {NULL} /\ parameters \in Seq(Param) \cup {NULL}
  BY DEF IInv, TypeOK, Method
<1> QED BY <1>1 DEF IInv, OneVectorOwner, Taken

LEMMA AppendArgs ==
  ASSUME NEW args \in Seq(Param), NEW arg \in Param, Increasing(args),
         \A n \in IdsOf(args) : n < arg.node
  PROVE  /\ IdsOf(Append(args, arg)) = IdsOf(args) \cup {arg.node}
         /\ Increasing(Append(args, arg))
<1> DEFINE more == Append(args, arg)
<1>1. /\ Len(args) \in Nat /\ Len(more) = Len(args) + 1
      /\ more[Len(args) + 1] = arg
      /\ \A j \in 1 .. Len(args) : more[j] = args[j]
  BY AppendProperties
<1> HIDE DEF more
<1>2. \A j \in 1 .. Len(args) : args[j].node < arg.node
  BY DEF IdsOf
<1>3. IdsOf(more) = IdsOf(args) \cup {arg.node}
  BY <1>1 DEF IdsOf
<1>4. Increasing(more)
  BY <1>1, <1>2 DEF Increasing
<1> QED BY <1>3, <1>4 DEF more

LEMMA DeletedValues ==
  ASSUME node \in Seq(Node), NEW n, NEW k \in Id
  PROVE  Deleted(n)[k].value = node[k].value
<1>1. node[k] \in Node
  BY ElementOfSeq DEF Id
<1>2. [node[k] EXCEPT !.frees = @ + 1].value = node[k].value
  BY <1>1 DEF Node
<1> QED BY <1>2 DEF Deleted

\* What a pop leaves on the stack.
LEMMA PopLeaves ==
  ASSUME IInv, stack # <<>>, Pop
  PROVE  /\ Depth \in Nat /\ Depth >= 1 /\ Len(stack') = Depth - 1
         /\ \A i \in 1 .. Depth - 1 : stack'[i] = stack[i]
         /\ Top \in Id /\ Top = stack[Depth]
         /\ OnStack' \subseteq OnStack
         /\ OnStack = OnStack' \cup {Top}
<1>1. /\ Depth \in Nat /\ Depth >= 1 /\ Len(stack') = Depth - 1
      /\ \A i \in 1 .. Depth - 1 : stack'[i] = stack[i]
      /\ Top \in Id /\ Top = stack[Depth]
  BY Basics, PopTypes DEF Top
<1>2. OnStack' = {stack[i] : i \in 1 .. Depth - 1}
  BY <1>1 DEF OnStack, Depth
<1>3. 1 .. Depth = (1 .. Depth - 1) \cup {Depth}
  BY <1>1
<1> QED BY <1>1, <1>2, <1>3 DEF OnStack

-------------------------------------------------------------------------------
(* The finished calls *)

\* They stand on nodes that nothing touches any more.
LEMMA DoneKept ==
  ASSUME IInv, CallsDone, calls' = calls,
         Len(node') \in Nat, Len(node) <= Len(node'),
         \A k \in Id : node'[k].type = node[k].type,
         \A i \in 1 .. Len(calls) :
           \A k \in 1 .. calls[i].until : node'[k].value = node[k].value,
         method' # NULL => \A i \in 1 .. Len(calls) : calls[i].until <= method'.since
  PROVE  CallsDone'
<1> SUFFICES ASSUME NEW i \in 1 .. Len(calls) PROVE CallDone(calls[i])'
  BY DEF CallsDone
<1> DEFINE call == calls[i]
<1>1. call \in DoneCall /\ CallDone(call)
  BY Basics DEF CallsDone
<1>2. call.since \in Nat /\ call.until \in Nat /\ call.until <= Len(node)
  BY <1>1 DEF CallDone, DoneCall
<1>3. \A k \in call.since + 1 .. call.until :
        node'[k].type = node[k].type /\ node'[k].value = node[k].value
  <2>1. \A k \in call.since + 1 .. call.until : k \in 1 .. call.until /\ k \in Id
    <3>1. Len(node) \in Nat
      BY Basics
    <3> HIDE DEF call
    <3> QED BY <1>2, <3>1 DEF Id
  <2> QED BY <2>1
<1>4. calls'[i] = call /\ (method' # NULL => call.until <= method'.since)
  OBVIOUS
<1> HIDE DEF call
<1>5. /\ {n \in call.since + 1 .. call.until : node'[n].type = "param"}
           = ParamNodes(call.since + 1, call.until)
      /\ {n \in call.since + 1 .. call.until : node'[n].type = "methodName"}
           = NameNodes(call.since + 1, call.until)
  BY <1>3 DEF ParamNodes, NameNodes
<1>6. NameNodes(call.since + 1, call.until) \subseteq call.since + 1 .. call.until
  BY DEF NameNodes
<1>7. Named(NameNodes(call.since + 1, call.until), call.name)
  BY <1>1 DEF CallDone
<1>8. LET names == NameNodes(call.since + 1, call.until)
      IN  IF names = {} THEN call.name = None
          ELSE \E g \in names : call.name = node'[g].value /\ \A l \in names : l <= g
  BY <1>3, <1>6, <1>7 DEF Named
<1>9. call.until <= Len(node')
  BY <1>2, Basics
<1> QED BY <1>1, <1>4, <1>5, <1>8, <1>9 DEF CallDone, Named, ParamNodes, NameNodes

\* A node of the open method is younger than every finished call.
LEMMA DoneBelow ==
  ASSUME IInv, CallsDone, method # NULL, NEW i \in 1 .. Len(calls)
  PROVE  calls[i].until \in Nat /\ calls[i].until <= method.since
<1>1. calls[i] \in DoneCall /\ CallDone(calls[i])
  BY Basics DEF CallsDone
<1> QED BY <1>1 DEF CallDone, DoneCall

-------------------------------------------------------------------------------
(* The open call *)

\* The closed nodes, and whatever is said of the name, after a step that
\* allocates nothing.
LEMMA ClosedKept ==
  ASSUME IInv, method # NULL, method' # NULL, method'.since = method.since, SameTree
  PROVE  /\ ClosedParams' = ParamNodes(method.since + 1, Len(node)) \ OnStack'
         /\ ClosedNames' = NameNodes(method.since + 1, Len(node)) \ OnStack'
         /\ method.since \in Nat /\ Len(node) \in Nat /\ Len(node') = Len(node)
<1>1. method.since \in Nat /\ Len(node) \in Nat /\ Len(node') = Len(node)
  BY Basics DEF Method, SameTree
<1>2. \A n \in method.since + 1 .. Len(node) : node'[n].type = node[n].type
  BY <1>1 DEF SameTree, Id
<1>3. /\ {n \in method.since + 1 .. Len(node) : node'[n].type = "param"}
           = ParamNodes(method.since + 1, Len(node))
      /\ {n \in method.since + 1 .. Len(node) : node'[n].type = "methodName"}
           = NameNodes(method.since + 1, Len(node))
  BY <1>2 DEF ParamNodes, NameNodes
<1> QED
  BY <1>1, <1>3 DEF ClosedParams, ClosedNames, ParamNodes, NameNodes

LEMMA NamedKept ==
  ASSUME NEW names, NEW value, Named(names, value),
         \A n \in names : node'[n].value = node[n].value
  PROVE  IF names = {} THEN value = None
         ELSE \E g \in names : value = node'[g].value /\ \A l \in names : l <= g
BY DEF Named

LEMMA ClosedInId ==
  ASSUME IInv, method # NULL
  PROVE  ClosedParams \subseteq Id /\ ClosedNames \subseteq Id
<1>1. method.since \in Nat /\ Len(node) \in Nat
  BY Basics DEF Method
<1> QED BY <1>1 DEF ClosedParams, ClosedNames, ParamNodes, NameNodes, Id

LEMMA InitCalls == Init => CallInv
<1> SUFFICES ASSUME Init PROVE CallInv
  OBVIOUS
<1>1. Len(calls) = 0
  BY EmptySeq DEF Init
<1> QED BY <1>1, InitInv DEF CallInv, CallsDone, OpenCall, Init

LEMMA OpenMethodCalls ==
  ASSUME CallInv, phase = "parsing", OpenMethod
  PROVE  CallsDone' /\ OpenCall'
<1> USE DEF CallInv
<1>1. /\ stack = <<>> /\ stack' = stack /\ node' = node /\ calls' = calls
      /\ method' = [name |-> None, params |-> NULL, since |-> Len(node)]
      /\ parameters' = <<>>
  BY DEF OpenMethod, IInv, VectorInPlace
<1>2. Depth = 0 /\ Depth' = 0 /\ Len(node) \in Nat /\ Len(node') = Len(node)
  BY <1>1, Basics DEF Depth
<1>3. \A i \in 1 .. Len(calls) : calls[i].until <= method'.since
  BY <1>1 DEF CallsDone, CallDone
<1>4. CallsDone'
  BY <1>1, <1>2, <1>3, DoneKept
<1>5. ClosedParams' = {} /\ ClosedNames' = {}
  BY <1>1, <1>2 DEF ClosedParams, ClosedNames, ParamNodes, NameNodes
<1>6. Taken' = <<>> /\ Len(Taken') = 0
  BY <1>1, EmptySeq DEF Taken
<1>7. IdsOf(Taken)' = {} /\ Increasing(Taken)'
  BY <1>6 DEF IdsOf, Increasing
<1> QED BY <1>1, <1>2, <1>4, <1>5, <1>7 DEF OpenCall, Named

LEMMA SetNodeValueCalls ==
  ASSUME CallInv, NEW text \in Text, SetNodeValue(text)
  PROVE  CallsDone' /\ OpenCall'
<1> USE DEF CallInv
<1>1. /\ method # NULL /\ method' = method /\ stack # <<>> /\ stack' = stack
      /\ calls' = calls /\ parameters' = parameters
      /\ node' = [node EXCEPT ![Top].value = text]
  BY DEF SetNodeValue
<1>2. /\ Top \in Id /\ Top = stack[Depth] /\ Depth \in 1 .. Depth
      /\ Top \in OnStack /\ method.since < Top
  BY <1>1, Basics, PopTypes DEF Top, OnStack, OpenCall
<1>3. /\ SameTree /\ Len(node') \in Nat
      /\ \A k \in Id : k # Top => node'[k].value = node[k].value
  <2>1. node \in [Id -> Node] /\ node[Top] \in Node
    BY <1>2, Basics DEF Id
  <2>2. /\ [node[Top] EXCEPT !.value = text].type = node[Top].type
        /\ [node[Top] EXCEPT !.value = text].parent = node[Top].parent
    BY <2>1 DEF Node
  <2>3. /\ Len(node') = Len(node)
        /\ node' = [node EXCEPT ![Top] = [node[Top] EXCEPT !.value = text]]
    <3>1. [node[Top] EXCEPT !.value = text] \in Node
      BY <2>1 DEF Node
    <3> QED BY <1>1, <1>2, <3>1, Basics, ExceptSeq DEF Id
  <2> QED BY <1>2, <2>1, <2>2, <2>3, Basics DEF SameTree, Id
<1>4. \A i \in 1 .. Len(calls) :
        /\ calls[i].until <= method'.since
        /\ \A k \in 1 .. calls[i].until : node'[k].value = node[k].value
  <2> SUFFICES ASSUME NEW i \in 1 .. Len(calls)
               PROVE  /\ calls[i].until <= method'.since
                      /\ \A k \in 1 .. calls[i].until : node'[k].value = node[k].value
    OBVIOUS
  <2>1. calls[i].until \in Nat /\ calls[i].until <= method.since
    BY <1>1, DoneBelow
  <2>2. method.since \in Nat /\ Len(node) \in Nat
    BY <1>1, Basics DEF Method
  <2> QED BY <1>1, <1>2, <1>3, <2>1, <2>2 DEF Id
<1>5. CallsDone'
  BY <1>3, <1>4, <1>1, Basics, DoneKept DEF SameTree
<1>6. /\ OnStack' = OnStack /\ Depth' = Depth /\ Taken' = Taken
      /\ ClosedParams' = ClosedParams /\ ClosedNames' = ClosedNames
      /\ Len(node') = Len(node)
  <2>1. OnStack' = OnStack /\ Depth' = Depth /\ Taken' = Taken
    BY <1>1 DEF OnStack, Depth, Taken
  <2> QED BY <1>1, <1>3, <2>1, ClosedKept DEF ClosedParams, ClosedNames
<1>7. \A n \in ClosedNames : node'[n].value = node[n].value
  BY <1>1, <1>2, <1>3, Basics DEF ClosedNames, NameNodes, Id, Method
<1>8. Named(ClosedNames, method.name)'
  BY <1>1, <1>6, <1>7, NamedKept DEF Named, OpenCall
<1>9. /\ \A i \in 1 .. Depth : method.since < stack[i]
      /\ IdsOf(Taken)' = ClosedParams' /\ Increasing(Taken)'
  BY <1>1, <1>6 DEF OpenCall, IdsOf, Increasing
<1> QED BY <1>1, <1>5, <1>6, <1>8, <1>9 DEF OpenCall

\* The new node is on the stack: nothing is closed by it.
LEMMA OpenNodeCalls ==
  ASSUME CallInv, NEW type \in Tag, OpenNode(type)
  PROVE  CallsDone' /\ OpenCall'
<1> USE DEF CallInv
<1> DEFINE n == Len(node) + 1
           new == [type |-> type, value |-> None, frees |-> 0,
                   parent |-> IF Depth = 0 THEN 0 ELSE Top]
<1>1. /\ method # NULL /\ method' = method /\ calls' = calls
      /\ parameters' = parameters /\ node' = Append(node, new)
      /\ stack' = Append(stack, n)
  BY DEF OpenNode
<1>2. /\ stack \in Seq(Id) /\ Depth \in Nat /\ node \in Seq(Node) /\ Len(node) \in Nat
      /\ method.since \in Nat /\ method.since <= Len(node)
      /\ \A i \in 1 .. Depth : stack[i] \in Id
  BY <1>1, Basics DEF Method, OpenCall
<1> HIDE DEF new
<1>3. Len(node') = n /\ \A k \in Id : node'[k] = node[k]
  BY <1>1, <1>2, AppendProperties DEF Id
<1>4. /\ Len(stack') = Depth + 1 /\ Depth' = Depth + 1 /\ stack'[Depth + 1] = n
      /\ \A i \in 1 .. Depth : stack'[i] = stack[i]
  <2> HIDE DEF n
  <2> QED BY <1>1, <1>2, AppendProperties DEF Depth
<1>5. OnStack' = OnStack \cup {n} /\ n \notin OnStack
  <2>1. 1 .. Depth + 1 = (1 .. Depth) \cup {Depth + 1}
    BY <1>2
  <2>2. n \notin OnStack
    BY <1>2 DEF OnStack, Id
  <2> HIDE DEF n
  <2>3. OnStack' = {stack'[i] : i \in 1 .. Depth + 1}
    BY <1>4 DEF OnStack
  <2> QED BY <1>4, <2>1, <2>2, <2>3 DEF OnStack
<1>6. CallsDone'
  <2>1. \A i \in 1 .. Len(calls) :
          /\ calls[i].until <= method'.since
          /\ \A k \in 1 .. calls[i].until : node'[k].value = node[k].value
    <3> SUFFICES ASSUME NEW i \in 1 .. Len(calls)
                 PROVE  /\ calls[i].until <= method'.since
                        /\ \A k \in 1 .. calls[i].until : node'[k].value = node[k].value
      OBVIOUS
    <3>1. calls[i].until \in Nat /\ calls[i].until <= method.since
      BY <1>1, DoneBelow
    <3> QED BY <1>1, <1>2, <1>3, <3>1 DEF Id
  <2>2. /\ Len(node') \in Nat /\ Len(node) <= Len(node')
        /\ \A k \in Id : node'[k].type = node[k].type
    BY <1>2, <1>3
  <2> QED BY <1>1, <2>1, <2>2, DoneKept
<1>7. ClosedParams' = ClosedParams /\ ClosedNames' = ClosedNames
  <2>1. method.since + 1 .. n = (method.since + 1 .. Len(node)) \cup {n}
    BY <1>2
  <2>2. \A k \in method.since + 1 .. Len(node) : node'[k].type = node[k].type
    BY <1>2, <1>3 DEF Id
  <2> HIDE DEF n
  <2>3. /\ ClosedParams' =
             {k \in method.since + 1 .. n : node'[k].type = "param"} \ OnStack'
        /\ ClosedNames' =
             {k \in method.since + 1 .. n : node'[k].type = "methodName"} \ OnStack'
    BY <1>1, <1>3 DEF ClosedParams, ClosedNames, ParamNodes, NameNodes
  <2>4. n \notin method.since + 1 .. Len(node)
    BY <1>2 DEF n
  <2> QED BY <1>5, <2>1, <2>2, <2>3, <2>4
          DEF ClosedParams, ClosedNames, ParamNodes, NameNodes
<1>8. /\ Taken' = Taken /\ IdsOf(Taken)' = ClosedParams' /\ Increasing(Taken)'
  BY <1>1, <1>7 DEF Taken, IdsOf, Increasing, OpenCall
<1>9. /\ ClosedParams \subseteq 1 .. Len(node) /\ ClosedNames \subseteq 1 .. Len(node)
  BY <1>2 DEF ClosedParams, ClosedNames, ParamNodes, NameNodes
<1>10. Named(ClosedNames, method.name)'
  <2>1. \A k \in ClosedNames : node'[k].value = node[k].value
    BY <1>3, <1>9 DEF Id
  <2> QED BY <1>1, <1>7, <2>1, NamedKept DEF Named, OpenCall
<1>11. \A i \in 1 .. Depth' : method'.since < stack'[i]
  BY <1>1, <1>2, <1>4 DEF OpenCall
<1>12. Depth' > 1 => \A k \in ClosedParams : k < stack'[2]
  <2>1. CASE Depth <= 1
    BY <1>2, <1>4, <1>9, <2>1
  <2>2. CASE Depth > 1
    BY <1>1, <1>2, <1>4, <2>2 DEF OpenCall
  <2> QED BY <1>2, <2>1, <2>2
<1>13. Depth' > 0 => \A k \in ClosedNames : k < stack'[1]
  <2>1. CASE Depth = 0
    BY <1>2, <1>4, <1>9, <2>1
  <2>2. CASE Depth > 0
    BY <1>1, <1>2, <1>4, <2>2 DEF OpenCall
  <2> QED BY <1>2, <2>1, <2>2
<1>14. method'.since <= Len(node')
  BY <1>1, <1>2, <1>3
<1> QED BY <1>1, <1>6, <1>7, <1>8, <1>10, <1>11, <1>12, <1>13, <1>14 DEF OpenCall

\* What every pop keeps of an open call, when it keeps the nodes in their places.
LEMMA PopCalls ==
  ASSUME CallInv, method # NULL, method' # NULL, method'.since = method.since,
         stack # <<>>, Pop, SameTree, calls' = calls,
         \A k \in Id : node'[k].value = node[k].value
  PROVE  /\ CallsDone'
         /\ method'.since <= Len(node')
         /\ \A i \in 1 .. Depth' : method'.since < stack'[i]
         /\ TopType # "param" => ClosedParams' = ClosedParams
         /\ TopType # "methodName" => ClosedNames' = ClosedNames
         /\ Named(ClosedNames, method.name)
         /\ Depth' > 1 => \A k \in ClosedParams : k < stack'[2]
         /\ Depth' > 0 => \A k \in ClosedNames : k < stack'[1]
<1> USE DEF CallInv
<1>1. /\ Depth \in Nat /\ Depth >= 1 /\ Depth' = Depth - 1
      /\ \A i \in 1 .. Depth - 1 : stack'[i] = stack[i]
      /\ OnStack' \subseteq OnStack /\ OnStack = OnStack' \cup {Top}
  BY PopLeaves DEF Depth
<1>2. /\ ClosedParams' = ParamNodes(method.since + 1, Len(node)) \ OnStack'
      /\ ClosedNames' = NameNodes(method.since + 1, Len(node)) \ OnStack'
      /\ method.since \in Nat /\ Len(node) \in Nat /\ Len(node') = Len(node)
  BY ClosedKept
<1>3. CallsDone'
  <2>1. \A i \in 1 .. Len(calls) :
          /\ calls[i].until <= method'.since
          /\ \A k \in 1 .. calls[i].until : node'[k].value = node[k].value
    <3> SUFFICES ASSUME NEW i \in 1 .. Len(calls)
                 PROVE  /\ calls[i].until <= method'.since
                        /\ \A k \in 1 .. calls[i].until : node'[k].value = node[k].value
      OBVIOUS
    <3>1. /\ calls[i].until \in Nat /\ calls[i].until <= method.since
          /\ method.since <= Len(node)
      BY DoneBelow DEF OpenCall
    <3> QED BY <1>2, <3>1 DEF Id
  <2> QED BY <1>2, <2>1, DoneKept DEF SameTree
<1>4. TopType # "param" => ClosedParams' = ClosedParams
  BY <1>1, <1>2 DEF ClosedParams, ParamNodes, TopType
<1>5. TopType # "methodName" => ClosedNames' = ClosedNames
  BY <1>1, <1>2 DEF ClosedNames, NameNodes, TopType
<1>6. \A i \in 1 .. Depth' : method'.since < stack'[i]
  BY <1>1 DEF OpenCall
<1>7. /\ Depth' > 1 => \A k \in ClosedParams : k < stack'[2]
      /\ Depth' > 0 => \A k \in ClosedNames : k < stack'[1]
  BY <1>1 DEF OpenCall
<1> QED BY <1>2, <1>3, <1>4, <1>5, <1>6, <1>7 DEF OpenCall

LEMMA CloseNameCalls == CallInv /\ CloseName => CallsDone' /\ OpenCall'
<1> SUFFICES ASSUME CallInv, CloseName PROVE CallsDone' /\ OpenCall'
  OBVIOUS
<1> USE DEF CallInv
<1>1. /\ method # NULL /\ stack # <<>> /\ TopType = "methodName" /\ Pop
      /\ node' = Deleted(Top) /\ calls' = calls /\ parameters' = parameters
      /\ method' = [method EXCEPT !.name = node[Top].value]
  BY DEF CloseName, Closes
<1>2. method' # NULL /\ method'.since = method.since /\ method'.params = method.params
      /\ method'.name = node[Top].value
  <2>1. method \in Method /\ Top \in Id /\ node[Top] \in Node
    BY <1>1, Basics, PopTypes, ElementOfSeq DEF Id
  <2>2. node[Top].value \in Text \cup {None}
    BY <2>1 DEF Node
  <2> HIDE DEF CallInv
  <2>3. method' \in Method /\ method'.since = method.since
        /\ method'.params = method.params /\ method'.name = node[Top].value
    BY <1>1, <2>1, <2>2 DEF Method
  <2> QED BY <2>3, NullIsNoVector
<1>3. SameTree /\ \A k \in Id : node'[k].value = node[k].value
  BY <1>1, Basics, DeletedTypes, DeletedValues DEF SameTree
<1>4. /\ CallsDone'
      /\ method'.since <= Len(node')
      /\ \A i \in 1 .. Depth' : method'.since < stack'[i]
      /\ ClosedParams' = ClosedParams
      /\ Depth' > 1 => \A k \in ClosedParams : k < stack'[2]
  BY <1>1, <1>2, <1>3, PopCalls
<1>5. Depth = 1 /\ Depth' = 0 /\ OnStack = {Top} /\ OnStack' = {} /\ Top = stack[1]
      /\ Top \in Id
  BY <1>1, RootAlone, PopLeaves DEF Root, Depth, OnStack
<1>6. /\ ClosedNames' = ClosedNames \cup {Top}
      /\ \A k \in ClosedNames : k < Top
      /\ ClosedNames' \subseteq Id
  <2>1. /\ ClosedNames' = NameNodes(method.since + 1, Len(node)) \ OnStack'
        /\ method.since \in Nat /\ Len(node) \in Nat
    BY <1>1, <1>2, <1>3, ClosedKept
  <2>2. Top \in NameNodes(method.since + 1, Len(node))
    BY <1>1, <1>5, <2>1 DEF NameNodes, TopType, OpenCall, Id
  <2>3. ClosedNames' \subseteq Id
    BY <2>1 DEF NameNodes, Id
  <2> QED BY <1>1, <1>5, <2>1, <2>2, <2>3 DEF ClosedNames, OpenCall
<1>7. Named(ClosedNames, method.name)'
  <2>1. method'.name = node'[Top].value
    BY <1>2, <1>3, <1>5
  <2>2. \A k \in ClosedNames' : k <= Top
    BY <1>5, <1>6 DEF Id
  <2> QED BY <1>6, <2>1, <2>2 DEF Named
<1>8. IdsOf(Taken)' = ClosedParams' /\ Increasing(Taken)'
  BY <1>1, <1>2, <1>4 DEF Taken, IdsOf, Increasing, OpenCall
<1> QED BY <1>4, <1>5, <1>7, <1>8 DEF OpenCall

LEMMA CloseParamsCalls == CallInv /\ CloseParams => CallsDone' /\ OpenCall'
<1> SUFFICES ASSUME CallInv, CloseParams PROVE CallsDone' /\ OpenCall'
  OBVIOUS
<1> USE DEF CallInv
<1>1. /\ method # NULL /\ stack # <<>> /\ TopType = "params" /\ Pop
      /\ node' = Deleted(Top) /\ calls' = calls /\ parameters' = NULL
      /\ method' = [method EXCEPT !.params = parameters]
  BY DEF CloseParams, Closes, HandOver
<1>2. /\ parameters # NULL /\ parameters \in Seq(Param)
      /\ Taken = parameters
  BY <1>1, TakenTypes DEF IInv, VectorInPlace, TypeOK
<1>3. /\ method' # NULL /\ method'.since = method.since
      /\ method'.params = parameters /\ method'.name = method.name
  <2>1. method \in Method
    BY <1>1, Basics
  <2> HIDE DEF CallInv
  <2>2. /\ method' \in Method /\ method'.since = method.since
        /\ method'.params = parameters /\ method'.name = method.name
    BY <1>1, <1>2, <2>1 DEF Method
  <2> QED BY <2>2, NullIsNoVector
<1>4. SameTree /\ \A k \in Id : node'[k].value = node[k].value
  BY <1>1, Basics, DeletedTypes, DeletedValues DEF SameTree
<1>5. /\ CallsDone'
      /\ method'.since <= Len(node')
      /\ \A i \in 1 .. Depth' : method'.since < stack'[i]
      /\ ClosedParams' = ClosedParams /\ ClosedNames' = ClosedNames
      /\ Named(ClosedNames, method.name)
      /\ Depth' > 1 => \A k \in ClosedParams : k < stack'[2]
      /\ Depth' > 0 => \A k \in ClosedNames : k < stack'[1]
  BY <1>1, <1>3, <1>4, PopCalls
<1>6. Named(ClosedNames, method.name)'
  <2>1. \A k \in ClosedNames : node'[k].value = node[k].value
    BY <1>1, <1>4, ClosedInId
  <2> QED BY <1>3, <1>5, <2>1, NamedKept DEF Named
<1>7. IdsOf(Taken)' = ClosedParams' /\ Increasing(Taken)'
  <2>1. Taken' = Taken
    BY <1>2, <1>3 DEF Taken
  <2> QED BY <1>1, <1>5, <2>1 DEF IdsOf, Increasing, OpenCall
<1> QED BY <1>5, <1>6, <1>7 DEF OpenCall

LEMMA CloseParamCalls == CallInv /\ CloseParam => CallsDone' /\ OpenCall'
<1> SUFFICES ASSUME CallInv, CloseParam PROVE CallsDone' /\ OpenCall'
  OBVIOUS
<1> USE DEF CallInv
<1> DEFINE arg == [node |-> Top, whole |-> Walk[Top] = "whole"]
<1>1. /\ method # NULL /\ stack # <<>> /\ TopType = "param" /\ Pop
      /\ node' = node /\ calls' = calls /\ method' = method
      /\ parameters' = Append(parameters, arg)
  BY DEF CloseParam, Closes
<1>2. /\ parameters # NULL /\ parameters \in Seq(Param)
      /\ Taken = parameters /\ method.params = NULL
  BY <1>1, TakenTypes DEF IInv, VectorInPlace, TypeOK
<1>3. SameTree /\ \A k \in Id : node'[k].value = node[k].value
  BY <1>1 DEF SameTree
<1>4. /\ CallsDone'
      /\ method'.since <= Len(node')
      /\ \A i \in 1 .. Depth' : method'.since < stack'[i]
      /\ ClosedNames' = ClosedNames
      /\ Named(ClosedNames, method.name)
      /\ Depth' > 0 => \A k \in ClosedNames : k < stack'[1]
  BY <1>1, <1>3, PopCalls
<1>5. /\ Depth = 2 /\ Depth' = 1 /\ Top = stack[2] /\ Top \in Id
      /\ stack'[1] = stack[1] /\ node[stack[1]].type = "params"
  <2>1. Depth = 2 /\ node[stack[1]].type = "params"
    BY <1>1, RootAlone
  <2>2. /\ Len(stack') = Depth - 1 /\ Top \in Id /\ Top = stack[Depth]
        /\ \A i \in 1 .. Depth - 1 : stack'[i] = stack[i]
    BY <1>1, PopLeaves
  <2> QED BY <2>1, <2>2 DEF Depth
<1>6. OnStack = {stack[1], Top} /\ OnStack' = {stack[1]} /\ stack[1] # Top
  BY <1>1, <1>5 DEF OnStack, TopType
<1>7. ClosedParams' = ClosedParams \cup {Top}
  <2>1. /\ ClosedParams' = ParamNodes(method.since + 1, Len(node)) \ OnStack'
        /\ method.since \in Nat /\ Len(node) \in Nat
    BY <1>1, <1>3, ClosedKept
  <2>2. Top \in ParamNodes(method.since + 1, Len(node))
    BY <1>1, <1>5, <2>1 DEF ParamNodes, TopType, OpenCall, Id
  <2> QED BY <1>6, <2>1, <2>2 DEF ClosedParams
<1>8. \A k \in ClosedParams : k < Top
  BY <1>1, <1>5 DEF OpenCall
<1>9. /\ IdsOf(Append(parameters, arg)) = IdsOf(parameters) \cup {Top}
      /\ Increasing(Append(parameters, arg))
  <2>1. arg \in Param /\ arg.node = Top
    BY <1>5 DEF Param, Id
  <2>2. \A k \in IdsOf(parameters) : k < arg.node
    BY <1>1, <1>2, <1>8, <2>1 DEF OpenCall
  <2>3. Increasing(parameters)
    BY <1>1, <1>2 DEF OpenCall
  <2> HIDE DEF arg
  <2> QED BY <1>2, <2>1, <2>2, <2>3, AppendArgs
<1> HIDE DEF arg
<1>10. IdsOf(Taken)' = ClosedParams' /\ Increasing(Taken)'
  <2>1. Taken' = Append(parameters, arg)
    BY <1>1, <1>2 DEF Taken
  <2>2. /\ IdsOf(Taken)' = IdsOf(Append(parameters, arg))
        /\ Increasing(Taken)' = Increasing(Append(parameters, arg))
    BY <2>1 DEF IdsOf, Increasing
  <2>3. IdsOf(parameters) = ClosedParams
    BY <1>1, <1>2 DEF OpenCall
  <2> QED BY <1>7, <1>9, <2>2, <2>3
<1>11. Named(ClosedNames, method.name)'
  BY <1>1, <1>4 DEF Named
<1> QED BY <1>4, <1>5, <1>10, <1>11 DEF OpenCall

LEMMA CloseInnerCalls == CallInv /\ CloseInner => CallsDone' /\ OpenCall'
<1> SUFFICES ASSUME CallInv, CloseInner PROVE CallsDone' /\ OpenCall'
  OBVIOUS
<1> USE DEF CallInv
<1>1. /\ method # NULL /\ stack # <<>> /\ TopType \notin {"param", "methodName"} /\ Pop
      /\ node' = node /\ calls' = calls /\ method' = method
      /\ parameters' = parameters
  BY DEF CloseInner, Closes, Root
<1>2. SameTree /\ \A k \in Id : node'[k].value = node[k].value
  BY <1>1 DEF SameTree
<1>3. /\ CallsDone'
      /\ method'.since <= Len(node')
      /\ \A i \in 1 .. Depth' : method'.since < stack'[i]
      /\ ClosedParams' = ClosedParams /\ ClosedNames' = ClosedNames
      /\ Named(ClosedNames, method.name)
      /\ Depth' > 1 => \A k \in ClosedParams : k < stack'[2]
      /\ Depth' > 0 => \A k \in ClosedNames : k < stack'[1]
  BY <1>1, <1>2, PopCalls
<1>4. /\ IdsOf(Taken)' = ClosedParams' /\ Increasing(Taken)'
      /\ Named(ClosedNames, method.name)'
  BY <1>1, <1>3 DEF Taken, IdsOf, Increasing, Named, OpenCall
<1> QED BY <1>3, <1>4 DEF OpenCall

\* The open call becomes a finished one.
LEMMA CloseMethodCalls == CallInv /\ CloseMethod => CallsDone' /\ OpenCall'
<1> SUFFICES ASSUME CallInv, CloseMethod PROVE CallsDone' /\ OpenCall'
  OBVIOUS
<1> USE DEF CallInv
<1> DEFINE call == [name |-> method.name, params |-> method.params,
                    since |-> method.since, until |-> Len(node)]
<1>1. /\ method # NULL /\ method' = NULL /\ stack = <<>> /\ node' = node
      /\ calls' = Append(calls, call)
  BY DEF CloseMethod, MakeCall
<1>2. call.name = method.name /\ call.params = method.params
      /\ call.since = method.since /\ call.until = Len(node) /\ call \in DoneCall
  BY <1>1, Basics DEF Method, DoneCall
<1> HIDE DEF call
<1>3. /\ Len(calls) \in Nat /\ Len(calls') = Len(calls) + 1
      /\ calls'[Len(calls) + 1] = call
      /\ \A i \in 1 .. Len(calls) : calls'[i] = calls[i]
  BY <1>1, <1>2, Basics, AppendProperties
<1>4. OnStack = {} /\ Len(node) \in Nat
  BY <1>1, Basics DEF OnStack
<1>5. ArgsOf(method.params) = Taken
  <2>1. CASE method.params # NULL
    BY <2>1 DEF ArgsOf, Taken
  <2>2. CASE method.params = NULL
    BY <1>1, <2>2 DEF ArgsOf, Taken, IInv, VectorInPlace, OneVectorOwner
  <2> QED BY <2>1, <2>2
<1>6. /\ IdsOf(ArgsOf(call.params)) = ParamNodes(call.since + 1, call.until)
      /\ Increasing(ArgsOf(call.params))
      /\ Named(NameNodes(call.since + 1, call.until), call.name)
  <2>1. /\ ClosedParams = ParamNodes(call.since + 1, call.until)
        /\ ClosedNames = NameNodes(call.since + 1, call.until)
    BY <1>2, <1>4 DEF ClosedParams, ClosedNames
  <2> QED BY <1>1, <1>2, <1>5, <2>1 DEF OpenCall
<1>7. CallsDone'
  <2> SUFFICES ASSUME NEW i \in 1 .. Len(calls') PROVE CallDone(calls[i])'
    BY DEF CallsDone
  <2>1. CASE i = Len(calls) + 1
    <3>1. calls'[i] = call
      BY <1>3, <2>1
    <3>2. call.until <= Len(node')
      BY <1>1, <1>2, <1>4
    <3>3. /\ ParamNodes(calls[i].since + 1, calls[i].until)' =
               ParamNodes(call.since + 1, call.until)
          /\ NameNodes(calls[i].since + 1, calls[i].until)' =
               NameNodes(call.since + 1, call.until)
      BY <1>1, <3>1 DEF NameNodes, ParamNodes
    <3>4. Named(NameNodes(calls[i].since + 1, calls[i].until), calls[i].name)'
      BY <1>1, <1>6, <3>1, <3>3 DEF Named
    <3>5. /\ IdsOf(ArgsOf(calls[i].params))' = IdsOf(ArgsOf(call.params))
          /\ Increasing(ArgsOf(calls[i].params))' = Increasing(ArgsOf(call.params))
      BY <3>1
    <3> QED BY <1>1, <1>6, <3>1, <3>2, <3>3, <3>4, <3>5 DEF CallDone
  <2>2. CASE i \in 1 .. Len(calls)
    <3>1. CallDone(calls[i]) /\ calls'[i] = calls[i]
      BY <1>3, <2>2 DEF CallsDone
    <3> QED BY <1>1, <3>1
            DEF CallDone, ArgsOf, IdsOf, Increasing, Named, NameNodes, ParamNodes
  <2> QED BY <1>3, <2>1, <2>2
<1> QED BY <1>1, <1>7 DEF OpenCall

LEMMA StillCalls ==
  ASSUME CallInv, \/ Destroy
                  \/ \E type \in Tag : OpenWithoutVector(type)
                  \/ UNCHANGED vars
  PROVE  CallsDone' /\ OpenCall'
<1> USE DEF CallInv
<1>1. /\ node' = node /\ calls' = calls /\ stack' = stack
      /\ method' = NULL \/ (method' = method /\ parameters' = parameters)
  BY DEF Destroy, OpenWithoutVector, vars
<1>2. CallsDone'
  BY <1>1 DEF CallsDone, CallDone, Named, NameNodes, ParamNodes
<1>3. OpenCall'
  <2>1. CASE method' = NULL
    BY <2>1 DEF OpenCall
  <2>2. CASE method' = method /\ parameters' = parameters
    <3>1. /\ Taken' = Taken /\ Depth' = Depth /\ OnStack' = OnStack
          /\ ClosedParams' = ClosedParams /\ ClosedNames' = ClosedNames
      BY <1>1, <2>2 DEF Taken, Depth, OnStack, ClosedParams, ClosedNames,
                        NameNodes, ParamNodes
    <3>2. /\ IdsOf(Taken)' = IdsOf(Taken) /\ Increasing(Taken)' = Increasing(Taken)
          /\ Named(ClosedNames, method.name)' = Named(ClosedNames, method.name)
      BY <1>1, <2>2, <3>1 DEF IdsOf, Increasing, Named
    <3> QED BY <1>1, <2>2, <3>1, <3>2 DEF OpenCall
  <2> QED BY <1>1, <2>1, <2>2
<1> QED BY <1>2, <1>3

LEMMA NextCalls == CallInv /\ [Next]_vars => CallInv'
<1> SUFFICES ASSUME CallInv, [Next]_vars PROVE CallInv'
  OBVIOUS
<1>1. IInv'
  BY NextInv DEF CallInv
<1>2. CallsDone' /\ OpenCall'
  BY OpenMethodCalls, OpenNodeCalls, SetNodeValueCalls, CloseNameCalls,
     CloseParamsCalls, CloseParamCalls, CloseInnerCalls, CloseMethodCalls, StillCalls
  DEF Next
<1> QED BY <1>1, <1>2 DEF CallInv

-------------------------------------------------------------------------------
(* Theorem *)

LEMMA DoneIsOwn == CallInv => CallsAreTheirOwn
<1> SUFFICES ASSUME CallInv, NEW i \in 1 .. Len(calls)
             PROVE  LET call == calls[i]
                        args == ArgsOf(call.params)
                        names == NameNodes(call.since + 1, call.until)
                    IN  /\ IdsOf(args) = ParamNodes(call.since + 1, call.until)
                        /\ Increasing(args)
                        /\ call.name = IF names = {} THEN None
                                       ELSE node[Greatest(names)].value
  BY DEF CallsAreTheirOwn, ArgsOf, NameNodes, IdsOf, Increasing
<1> DEFINE call == calls[i]
           names == NameNodes(call.since + 1, call.until)
<1>1. CallDone(call) /\ call \in DoneCall
  BY Basics DEF CallInv, CallsDone
<1>2. names \in SUBSET Int /\ Named(names, call.name)
  BY <1>1 DEF NameNodes, CallDone, DoneCall
<1>3. call.name = IF names = {} THEN None ELSE node[Greatest(names)].value
  <2> HIDE DEF names, call
  <2> QED BY <1>2, GreatestIs DEF Named
<1> QED BY <1>1, <1>3 DEF CallDone

\* Every call is made with all the parameters of its own text and no other, in
\* their order, and under the last name it was given, for any tags, texts and
\* number of calls (methodbuilder.cpp:69-156, xml.cpp:72-86).
THEOREM CallsOwn == Spec => []CallsAreTheirOwn
<1>1. Spec => []CallInv
  BY InitCalls, NextCalls, PTL DEF Spec
<1> QED BY <1>1, DoneIsOwn, PTL

-------------------------------------------------------------------------------
(* The two walks over the tree: the destructor of a node, which deletes     *)
(* what hangs below it, and the conversion of a parameter.                  *)

(* The nodes below a node *)

\* InSubtree for any sequence of nodes.
SubtreeOf(nodes, n) ==
  LET in[k \in 0 .. Len(nodes)] == k = n \/ (k # 0 /\ in[nodes[k].parent])
  IN  {k \in 1 .. Len(nodes) : in[k]}

Upward(nodes) == \A k \in 1 .. Len(nodes) : nodes[k].parent \in 0 .. k - 1

\* A holds n and whatever has its parent in A.
ClosedBelow(A, nodes, n) ==
  /\ 0 \notin A
  /\ \A k \in 1 .. Len(nodes) : k \in A <=> k = n \/ nodes[k].parent \in A

LEMMA SubtreeNow == ASSUME NEW n PROVE InSubtree(n) = SubtreeOf(node, n)
BY DEF InSubtree, SubtreeOf, Id

LEMMA SubtreeNext == ASSUME NEW n PROVE InSubtree(n)' = SubtreeOf(node', n)
BY DEF InSubtree, SubtreeOf, Id

\* The recursion of InSubtree ends, at a root: parents are older.
LEMMA SubtreeStep ==
  ASSUME NEW nodes, Len(nodes) \in Nat, Upward(nodes), NEW n \in 1 .. Len(nodes)
  PROVE /\ SubtreeOf(nodes, n) \subseteq 1 .. Len(nodes)
        /\ ClosedBelow(SubtreeOf(nodes, n), nodes, n)
<1> DEFINE L == Len(nodes)
           S == 0 .. L
           rank == [k \in S |-> k]
           F == [k \in S |-> [g \in [S -> BOOLEAN] |->
                   k = n \/ (k # 0 /\ g[nodes[k].parent])]]
           in == CHOOSE in : in = [k \in 0 .. Len(nodes) |->
                   k = n \/ (k # 0 /\ in[nodes[k].parent])]
<1>1. SubtreeOf(nodes, n) = {k \in 1 .. L : in[k]}
  BY DEF SubtreeOf
<1>2. \A k \in 1 .. L : nodes[k].parent \in 0 .. k - 1
  BY DEF Upward
<1>3. \E f \in [S -> BOOLEAN] : \A k \in S : f[k] = F[k][f]
  <2>1. rank \in [S -> Nat] /\ \A k \in S : rank[k] = k
    OBVIOUS
  <2>2. F \in [S -> [[S -> BOOLEAN] -> BOOLEAN]]
    OBVIOUS
  <2>3. ASSUME NEW k \in S, NEW g \in [S -> BOOLEAN], NEW h \in [S -> BOOLEAN],
               \A l \in S : rank[l] < rank[k] => g[l] = h[l]
        PROVE F[k][g] = F[k][h]
    <3>1. k # 0 => g[nodes[k].parent] = h[nodes[k].parent]
      BY <1>2, <2>3
    <3> QED BY <3>1
  <2>4. Ranks(rank, S, L)
    BY <2>1 DEF Ranks
  <2> HIDE DEF F, rank, S
  <2>5. LooksBack(F, S, BOOLEAN, rank)
    BY <2>3 DEF LooksBack
  <2>6. \E f : Solves(f, F, S, BOOLEAN)
    BY <2>2, <2>4, <2>5, RankRecursion
  <2> QED BY <2>6 DEF Solves
<1>4. in = [k \in 0 .. Len(nodes) |-> k = n \/ (k # 0 /\ in[nodes[k].parent])]
  <2>1. PICK f \in [S -> BOOLEAN] : \A k \in S : f[k] = F[k][f]
    BY <1>3
  <2>2. f = [k \in 0 .. Len(nodes) |-> k = n \/ (k # 0 /\ f[nodes[k].parent])]
    BY <2>1, Zenon
  <2> QED BY <2>2
<1>5. \A k \in 0 .. L : in[k] <=> (k = n \/ (k # 0 /\ in[nodes[k].parent]))
  BY <1>4
<1> HIDE DEF in
<1>6. ASSUME NEW k \in 1 .. L
      PROVE k \in SubtreeOf(nodes, n) <=>
              k = n \/ nodes[k].parent \in SubtreeOf(nodes, n)
  <2>1. k \in SubtreeOf(nodes, n) <=> k = n \/ in[nodes[k].parent]
    BY <1>1, <1>5
  <2>2. nodes[k].parent = 0 \/ nodes[k].parent \in 1 .. L
    BY <1>2
  <2>3. ~ in[0]
    BY <1>5
  <2>4. 0 \notin SubtreeOf(nodes, n)
    BY <1>1
  <2>5. CASE nodes[k].parent = 0
    BY <2>1, <2>3, <2>4, <2>5
  <2>6. CASE nodes[k].parent \in 1 .. L
    BY <2>1, <2>6, <1>1
  <2> QED BY <2>2, <2>5, <2>6
<1> QED BY <1>1, <1>6 DEF ClosedBelow

\* Only one set of nodes answers to that.
LEMMA SubtreeUnique ==
  ASSUME NEW nodes, Len(nodes) \in Nat, Upward(nodes), NEW n, NEW A, NEW B,
         ClosedBelow(A, nodes, n), ClosedBelow(B, nodes, n)
  PROVE \A k \in 1 .. Len(nodes) : k \in A <=> k \in B
<1> DEFINE S == 1 .. Len(nodes)
           rank == [k \in S |-> k]
           T == {k \in S : k \in A <=> k \in B}
<1>1. rank \in [S -> Nat] /\ \A k \in S : rank[k] = k
  OBVIOUS
<1> HIDE DEF rank
<1>2. ASSUME NEW k \in S, \A l \in S : rank[l] < rank[k] => l \in T
      PROVE k \in T
  <2>1. nodes[k].parent \in 0 .. k - 1
    BY DEF Upward
  <2>2. nodes[k].parent = 0 \/ (nodes[k].parent \in S /\ nodes[k].parent < k)
    BY <2>1
  <2>3. nodes[k].parent \in A <=> nodes[k].parent \in B
    BY <1>1, <1>2, <2>2 DEF ClosedBelow
  <2> QED BY <2>3 DEF ClosedBelow
<1>3. S \subseteq T
  <2> HIDE DEF S, T
  <2> QED BY <1>1, <1>2, RankInduction
<1> QED BY <1>3

-------------------------------------------------------------------------------
(* Deletion *)

LEMMA ParentsBelow == TypeOK /\ TreeFollowsRules => Upward(node)
<1> SUFFICES ASSUME TypeOK, TreeFollowsRules, NEW k \in Id
             PROVE node[k].parent \in 0 .. k - 1
  BY DEF Upward, Id
<1>1. Len(node) \in Nat /\ k \in Nat /\ k >= 1
  BY DEF TypeOK, Id
<1>2. node[k].parent = 0 \/ node[k].parent \in 1 .. k - 1
  BY DEF TreeFollowsRules
<1> QED BY <1>1, <1>2

LEMMA Subtree ==
  ASSUME TypeOK, TreeFollowsRules, NEW n \in Id
  PROVE  InSubtree(n) \subseteq Id /\ ClosedBelow(InSubtree(n), node, n)
<1>1. Len(node) \in Nat /\ Upward(node) /\ n \in 1 .. Len(node)
  BY ParentsBelow DEF TypeOK, Id
<1> QED BY <1>1, SubtreeStep, SubtreeNow DEF Id

\* A step that allocates nothing.
LEMMA SubtreeKept ==
  ASSUME TypeOK, TreeFollowsRules, SameTree, NEW n \in Id
  PROVE  InSubtree(n)' = InSubtree(n)
<1>1. /\ Len(node) \in Nat /\ Upward(node) /\ n \in 1 .. Len(node)
      /\ Len(node') = Len(node)
      /\ \A k \in 1 .. Len(node) : node'[k].parent = node[k].parent
  BY ParentsBelow DEF TypeOK, Id, SameTree
<1>2. Upward(node')
  BY <1>1 DEF Upward
<1>3. /\ SubtreeOf(node', n) \subseteq 1 .. Len(node)
      /\ ClosedBelow(SubtreeOf(node', n), node', n)
  BY <1>1, <1>2, SubtreeStep
<1>4. /\ SubtreeOf(node, n) \subseteq 1 .. Len(node)
      /\ ClosedBelow(SubtreeOf(node, n), node, n)
  BY <1>1, SubtreeStep
<1>5. ClosedBelow(SubtreeOf(node', n), node, n)
  BY <1>1, <1>3 DEF ClosedBelow
<1>6. \A k \in 1 .. Len(node) : k \in SubtreeOf(node', n) <=> k \in SubtreeOf(node, n)
  BY <1>1, <1>4, <1>5, SubtreeUnique
<1> QED BY <1>3, <1>4, <1>6, SubtreeNow, SubtreeNext

\* What a new node does to the tree.
LEMMA NodesGrow ==
  ASSUME TypeOK, StackShape, TreeFollowsRules, NEW type \in Tag, OpenNode(type)
  PROVE  /\ Len(node) \in Nat /\ Len(node') = Len(node) + 1
         /\ Id' = Id \cup {Len(node) + 1} /\ Len(node) + 1 \notin Id
         /\ \A k \in Id : node'[k] = node[k]
         /\ node'[Len(node) + 1].type = type
         /\ node'[Len(node) + 1].frees = 0
         /\ node'[Len(node) + 1].parent = IF Depth = 0 THEN 0 ELSE Top
         /\ Upward(node')
         /\ stack' = Append(stack, Len(node) + 1)
<1> DEFINE new == [type |-> type, value |-> None, frees |-> 0,
                   parent |-> IF Depth = 0 THEN 0 ELSE Top]
<1>1. /\ stack \in Seq(Id) /\ node \in Seq(Node) /\ type \in NodeType
      /\ Len(node) \in Nat /\ Depth \in Nat
  BY BuilderAssumption DEF TypeOK, Depth
<1>2. Depth > 0 => Top \in Id
  BY <1>1, ElementOfSeq DEF Top, Depth
<1>3. new \in Node
  BY <1>1, <1>2 DEF Node, Id
<1>4. node' = Append(node, new) /\ stack' = Append(stack, Len(node) + 1)
  BY DEF OpenNode
<1>5. /\ Len(node') = Len(node) + 1
      /\ node'[Len(node) + 1] = new
      /\ \A k \in Id : node'[k] = node[k]
  <2> HIDE DEF new
  <2> QED BY <1>1, <1>3, <1>4, AppendProperties DEF Id
<1>6. Id' = Id \cup {Len(node) + 1} /\ Len(node) + 1 \notin Id
  BY <1>1, <1>5 DEF Id
<1>7. Upward(node')
  <2>1. new.parent \in 0 .. Len(node)
    BY <1>1, <1>2 DEF Id
  <2> HIDE DEF new
  <2>2. \A k \in Id : node[k].parent \in 0 .. k - 1
    BY ParentsBelow DEF Upward, Id
  <2>3. \A k \in Id : node'[k].parent \in 0 .. k - 1
    BY <1>5, <2>2
  <2>4. node'[Len(node) + 1].parent \in 0 .. (Len(node) + 1) - 1
    BY <1>1, <1>5, <2>1
  <2>5. \A k \in Id' : node'[k].parent \in 0 .. k - 1
    BY <1>6, <2>3, <2>4
  <2> QED BY <2>5 DEF Upward, Id
<1>8. new.type = type /\ new.frees = 0 /\ new.parent = IF Depth = 0 THEN 0 ELSE Top
  OBVIOUS
<1> QED BY <1>1, <1>4, <1>5, <1>6, <1>7, <1>8

\* It hangs below whatever its parent hangs below, and changes nothing else.
LEMMA SubtreeGrows ==
  ASSUME TypeOK, StackShape, TreeFollowsRules, NEW type \in Tag, OpenNode(type),
         NEW n \in Id
  PROVE  /\ \A k \in Id : k \in InSubtree(n)' <=> k \in InSubtree(n)
         /\ Depth > 0 => (Len(node) + 1 \in InSubtree(n)' <=> Top \in InSubtree(n))
<1>1. /\ Len(node) \in Nat /\ Len(node') = Len(node) + 1
      /\ Id' = Id \cup {Len(node) + 1} /\ Len(node) + 1 \notin Id
      /\ \A k \in Id : node'[k] = node[k]
      /\ node'[Len(node) + 1].parent = IF Depth = 0 THEN 0 ELSE Top
      /\ Upward(node) /\ Upward(node')
  BY NodesGrow, ParentsBelow
<1>2. n \in 1 .. Len(node) /\ n \in 1 .. Len(node')
  BY <1>1 DEF Id
<1>3. ClosedBelow(SubtreeOf(node', n), node', n) /\ Len(node') \in Nat
  BY <1>1, <1>2, SubtreeStep
<1>4. ClosedBelow(SubtreeOf(node, n), node, n)
  BY <1>1, <1>2, SubtreeStep
<1>5. ClosedBelow(SubtreeOf(node', n), node, n)
  BY <1>1, <1>3 DEF ClosedBelow, Id
<1>6. \A k \in Id : k \in SubtreeOf(node', n) <=> k \in SubtreeOf(node, n)
  BY <1>1, <1>4, <1>5, SubtreeUnique DEF Id
<1>7. ASSUME Depth > 0
      PROVE  Len(node) + 1 \in SubtreeOf(node', n) <=> Top \in SubtreeOf(node, n)
  <2>1. Top \in Id
    <3>1. stack \in Seq(Id)
      BY DEF TypeOK
    <3> QED BY <1>7, <3>1, ElementOfSeq DEF Top, Depth
  <2>2. Len(node) + 1 \in 1 .. Len(node') /\ Len(node) + 1 # n
    BY <1>1
  <2>3. Len(node) + 1 \in SubtreeOf(node', n) <=>
          node'[Len(node) + 1].parent \in SubtreeOf(node', n)
    BY <1>3, <2>2 DEF ClosedBelow
  <2> QED BY <1>1, <1>6, <1>7, <2>1, <2>3
<1> QED BY <1>6, <1>7, SubtreeNow, SubtreeNext

\* The whole stack hangs below its first node.
LEMMA StackInSubtree ==
  ASSUME TypeOK, TreeFollowsRules, NEW i \in 1 .. Depth
  PROVE  stack[i] \in InSubtree(stack[1])
<1>1. Depth \in Nat /\ Depth >= 1 /\ \A j \in 1 .. Depth : stack[j] \in Id
  BY ElementOfSeq DEF TypeOK, Depth
<1>2. ClosedBelow(InSubtree(stack[1]), node, stack[1])
  BY <1>1, Subtree
<1> DEFINE S == 1 .. Depth
           rank == [j \in S |-> j]
           T == {j \in S : stack[j] \in InSubtree(stack[1])}
<1>3. rank \in [S -> Nat] /\ \A j \in S : rank[j] = j
  OBVIOUS
<1> HIDE DEF rank
<1>4. ASSUME NEW j \in S, \A l \in S : rank[l] < rank[j] => l \in T
      PROVE j \in T
  <2>1. CASE j = 1
    BY <1>1, <1>2, <2>1 DEF ClosedBelow, Id
  <2>2. CASE j # 1
    <3>1. j - 1 \in S /\ j - 1 < j
      BY <1>1, <2>2
    <3>2. stack[j - 1] \in InSubtree(stack[1])
      BY <1>3, <1>4, <3>1
    <3>3. node[stack[j]].parent = stack[j - 1]
      BY <2>2 DEF TreeFollowsRules
    <3> QED BY <1>1, <1>2, <3>2, <3>3 DEF ClosedBelow, Id
  <2> QED BY <2>1, <2>2
<1>5. S \subseteq T
  <2> HIDE DEF S, T
  <2> QED BY <1>3, <1>4, RankInduction
<1> QED BY <1>5

\* The deletions alone, whatever phase the builder is in.
DeletedOffStack ==
  \A n \in Id :
    node[n].frees = IF Depth > 0 /\ n \in InSubtree(stack[1]) THEN 0 ELSE 1

\* A step that deletes nothing and keeps the first node of the stack.
LEMMA DeletionKept ==
  ASSUME IInv, DeletedOffStack, SameTree,
         \A k \in Id : node'[k].frees = node[k].frees,
         Len(stack') \in Nat, Len(stack') > 0 <=> Depth > 0,
         Depth > 0 => stack'[1] = stack[1]
  PROVE  DeletedOffStack'
<1>1. Id' = Id /\ Depth \in Nat
  BY DEF SameTree, Id, IInv, TypeOK, Depth
<1>2. Depth > 0 => stack[1] \in Id
  BY <1>1, ElementOfSeq DEF IInv, TypeOK, Depth
<1>3. Depth > 0 => InSubtree(stack[1])' = InSubtree(stack[1])
  <2> SUFFICES ASSUME Depth > 0 PROVE InSubtree(stack[1])' = InSubtree(stack[1])
    OBVIOUS
  <2>1. SubtreeOf(node', stack[1]) = SubtreeOf(node, stack[1])
    BY <1>2, SubtreeKept, SubtreeNow, SubtreeNext DEF IInv
  <2>2. InSubtree(stack[1])' = SubtreeOf(node', stack'[1])
    BY DEF InSubtree, SubtreeOf, Id
  <2> QED BY <2>1, <2>2, SubtreeNow
<1> QED BY <1>1, <1>3 DEF DeletedOffStack, Depth

\* delete of the only node on the stack, a root.
LEMMA RootDeleted ==
  ASSUME IInv, DeletedOffStack, stack # <<>>, TopType \in Root,
         node' = Deleted(Top), Pop
  PROVE  DeletedOffStack'
<1>1. Depth = 1 /\ Top = stack[1] /\ Top \in Id /\ node \in Seq(Node)
  BY RootAlone, PopTypes DEF IInv, TypeOK, Top
<1>2. Depth' = 0
  BY <1>1, PopTypes DEF IInv, TypeOK, Depth
<1>3. Id' = Id
  BY <1>1, DeletedTypes DEF Id
<1>4. ASSUME NEW k \in Id PROVE node'[k].frees = 1
  <2>1. node[k] \in Node
    BY <1>1, ElementOfSeq DEF Id
  <2>2. /\ [node[k] EXCEPT !.frees = @ + 1].frees = node[k].frees + 1
        /\ node[k].frees \in Nat
    BY <2>1 DEF Node
  <2>3. CASE k \in InSubtree(Top)
    <3>1. node[k].frees = 0
      BY <1>1, <2>3 DEF DeletedOffStack
    <3>2. node'[k] = [node[k] EXCEPT !.frees = @ + 1]
      BY <2>3 DEF Deleted
    <3> QED BY <2>2, <3>1, <3>2
  <2>4. CASE k \notin InSubtree(Top)
    <3>1. node[k].frees = 1
      BY <1>1, <2>4 DEF DeletedOffStack
    <3>2. node'[k] = node[k]
      BY <2>4 DEF Deleted
    <3> QED BY <3>1, <3>2
  <2> QED BY <2>3, <2>4
<1> QED BY <1>2, <1>3, <1>4 DEF DeletedOffStack

LEMMA OpenNodeDeleted ==
  ASSUME IInv, DeletedOffStack, NEW type \in Tag, OpenNode(type)
  PROVE  DeletedOffStack'
<1> DEFINE m == Len(node) + 1
<1>1. /\ Len(node) \in Nat /\ Len(node') = Len(node) + 1
      /\ Id' = Id \cup {m} /\ m \notin Id
      /\ \A k \in Id : node'[k] = node[k]
      /\ node'[m].frees = 0
      /\ node'[m].parent = IF Depth = 0 THEN 0 ELSE Top
      /\ Upward(node')
      /\ stack' = Append(stack, m)
  BY NodesGrow DEF IInv
<1>2. /\ stack \in Seq(Id') /\ Depth \in Nat
      /\ \A i \in 1 .. Depth : stack[i] \in Id
  <2>1. stack \in Seq(Id)
    BY DEF IInv, TypeOK
  <2> HIDE DEF m
  <2> QED BY <1>1, <2>1, SeqMonotonic, ElementOfSeq DEF Depth
<1>3. /\ Len(stack') = Depth + 1 /\ stack'[Depth + 1] = m
      /\ \A i \in 1 .. Depth : stack'[i] = stack[i]
  <2> HIDE DEF m
  <2>1. m \in Id'
    BY <1>1
  <2> QED BY <1>1, <1>2, <2>1, AppendProperties DEF Depth
<1>4. Depth' > 0 /\ InSubtree(stack[1])' = SubtreeOf(node', stack'[1])
  BY <1>2, <1>3 DEF Depth, InSubtree, SubtreeOf, Id
<1>5. CASE Depth = 0
  <2>1. stack'[1] = m
    BY <1>3, <1>5
  <2>2. \A k \in Id : node[k].frees = 1
    BY <1>5 DEF DeletedOffStack
  <2>3. ClosedBelow(SubtreeOf(node', m), node', m)
    <3>1. m \in 1 .. Len(node') /\ Len(node') \in Nat
      BY <1>1
    <3> HIDE DEF m
    <3> QED BY <1>1, <3>1, SubtreeStep
  <2>4. ClosedBelow({m}, node', m)
    <3>1. \A k \in Id : node'[k].parent # m
      <4>1. \A k \in 1 .. Len(node') : node'[k].parent \in 0 .. k - 1
        BY <1>1 DEF Upward
      <4> QED BY <1>1, <4>1 DEF Id
    <3>2. node'[m].parent = 0
      BY <1>1, <1>5
    <3> QED BY <1>1, <3>1, <3>2 DEF ClosedBelow, Id
  <2>5. \A k \in Id' : k \in SubtreeOf(node', m) <=> k = m
    <3>1. Len(node') \in Nat
      BY <1>1
    <3>2. \A k \in 1 .. Len(node') : k \in SubtreeOf(node', m) <=> k \in {m}
      <4> HIDE DEF m
      <4> QED BY <1>1, <2>3, <2>4, <3>1, SubtreeUnique
    <3> QED BY <3>2 DEF Id
  <2>6. \A k \in Id' : node'[k].frees = IF k = m THEN 0 ELSE 1
    BY <1>1, <2>2
  <2> QED BY <1>4, <2>1, <2>5, <2>6 DEF DeletedOffStack
<1>6. CASE Depth > 0
  <2> DEFINE r == stack[1]
  <2>1. r \in Id /\ stack'[1] = r /\ Depth \in 1 .. Depth
    BY <1>2, <1>3, <1>6
  <2>2. Top \in InSubtree(r)
    BY <2>1, StackInSubtree DEF Top, IInv
  <2>3. /\ \A k \in Id : k \in SubtreeOf(node', r) <=> k \in InSubtree(r)
        /\ m \in SubtreeOf(node', r)
    BY <1>6, <2>1, <2>2, SubtreeGrows, SubtreeNext DEF IInv
  <2>4. \A k \in Id : node[k].frees = IF k \in InSubtree(r) THEN 0 ELSE 1
    BY <1>6 DEF DeletedOffStack
  <2>5. \A k \in Id' : node'[k].frees = IF k \in SubtreeOf(node', r) THEN 0 ELSE 1
    BY <1>1, <2>3, <2>4
  <2> QED BY <1>4, <2>1, <2>5 DEF DeletedOffStack
<1> QED BY <1>2, <1>5, <1>6

\* Every other step leaves the nodes, or all but a value, and pops a node that
\* is not the first or none.
LEMMA NodesAsBefore ==
  ASSUME IInv, DeletedOffStack, node' = node, Len(stack') \in Nat,
         Len(stack') > 0 <=> Depth > 0, Depth > 0 => stack'[1] = stack[1]
  PROVE  DeletedOffStack'
<1>1. SameTree /\ \A k \in Id : node'[k].frees = node[k].frees
  BY DEF SameTree
<1> QED BY <1>1, DeletionKept

LEMMA PopInnerDeleted ==
  ASSUME IInv, DeletedOffStack, stack # <<>>, TopType \notin Root, Pop, node' = node
  PROVE  DeletedOffStack'
<1>1. /\ Depth \in Nat /\ Depth >= 1 /\ Len(stack') = Depth - 1
      /\ \A i \in 1 .. Depth - 1 : stack'[i] = stack[i]
      /\ Depth # 1
  BY RootAlone, PopTypes DEF IInv, TypeOK
<1>2. /\ Len(stack') \in Nat /\ Len(stack') > 0 /\ Depth > 0
      /\ stack'[1] = stack[1]
  BY <1>1
<1> QED BY <1>2, NodesAsBefore

LEMMA ValueSet ==
  ASSUME IInv, NEW text \in Text, SetNodeValue(text)
  PROVE  /\ SameTree /\ Len(node') = Len(node)
         /\ \A k \in Id : node'[k].frees = node[k].frees
<1>1. stack \in Seq(Id) /\ node \in Seq(Node) /\ Top \in Id
  BY PopTypes DEF IInv, TypeOK, SetNodeValue
<1>2. node[Top] \in Node
  BY <1>1, ElementOfSeq DEF Id
<1>3. /\ [node[Top] EXCEPT !.value = text] \in Node
      /\ [node[Top] EXCEPT !.value = text].type = node[Top].type
      /\ [node[Top] EXCEPT !.value = text].parent = node[Top].parent
      /\ [node[Top] EXCEPT !.value = text].frees = node[Top].frees
  <2>1. text \in Text \cup {None}
    OBVIOUS
  <2> QED BY <1>2, <2>1 DEF Node
<1>4. /\ Len(node') = Len(node)
      /\ node' = [node EXCEPT ![Top] = [node[Top] EXCEPT !.value = text]]
  BY <1>1, <1>3, ExceptSeq DEF SetNodeValue, Id
<1> QED
  BY <1>1, <1>3, <1>4 DEF SameTree, Id

LEMMA SetNodeValueDeleted ==
  ASSUME IInv, DeletedOffStack, NEW text \in Text, SetNodeValue(text)
  PROVE  DeletedOffStack'
<1>1. SameTree /\ \A k \in Id : node'[k].frees = node[k].frees
  BY ValueSet
<1>2. stack' = stack /\ Depth \in Nat /\ Len(stack') = Depth
  BY DEF SetNodeValue, Depth, IInv, TypeOK
<1> QED BY <1>1, <1>2, DeletionKept

LEMMA NextDeleted == IInv /\ DeletedOffStack /\ [Next]_vars => DeletedOffStack'
<1> SUFFICES ASSUME IInv, DeletedOffStack, [Next]_vars PROVE DeletedOffStack'
  OBVIOUS
<1>1. ASSUME UNCHANGED <<node, stack>> PROVE DeletedOffStack'
  <2>1. Depth \in Nat /\ Len(stack') = Depth
    BY <1>1 DEF Depth, IInv, TypeOK
  <2> QED BY <1>1, <2>1, NodesAsBefore
<1>2. CASE OpenMethod \/ CloseMethod \/ Destroy \/ UNCHANGED vars
  BY <1>1, <1>2 DEF OpenMethod, CloseMethod, Destroy, vars
<1>3. ASSUME NEW type \in Tag, OpenNode(type) \/ OpenWithoutVector(type)
      PROVE DeletedOffStack'
  BY <1>1, <1>3, OpenNodeDeleted DEF OpenWithoutVector
<1>4. ASSUME NEW text \in Text, SetNodeValue(text) PROVE DeletedOffStack'
  BY <1>4, SetNodeValueDeleted
<1>5. CASE CloseName
  BY <1>5, RootDeleted DEF CloseName, Closes, Root
<1>6. CASE CloseParams
  BY <1>6, RootDeleted DEF CloseParams, Closes, Root
<1>7. CASE CloseParam
  BY <1>7, PopInnerDeleted DEF CloseParam, Closes, Root
<1>8. CASE CloseInner
  BY <1>8, PopInnerDeleted DEF CloseInner, Closes, Root
<1> QED BY <1>2, <1>3, <1>4, <1>5, <1>6, <1>7, <1>8 DEF Next

LEMMA InitDeleted == Init => DeletedOffStack
<1> SUFFICES ASSUME Init PROVE DeletedOffStack
  OBVIOUS
<1>1. Id = {}
  BY EmptySeq DEF Init, Id
<1> QED BY <1>1 DEF DeletedOffStack

\* The nodes of the calls made so far are deleted.
CallsDeleted ==
  \A i \in 1 .. Len(calls) :
    calls[i].until <= Len(node) /\ \A k \in 1 .. calls[i].until : node[k].frees = 1

\* What a deleted node is, it stays: only the open tree can be deleted.
LEMMA FreedStays ==
  ASSUME IInv, DeletedOffStack, IInv', DeletedOffStack', [Next]_vars,
         NEW k \in Id, node[k].frees = 1
  PROVE  k \in Id' /\ node'[k].frees = 1
<1>1. CASE node' = node
  BY <1>1 DEF Id
<1>2. ASSUME NEW type \in Tag, OpenNode(type) PROVE k \in Id' /\ node'[k].frees = 1
  BY <1>2, NodesGrow DEF IInv
<1>3. ASSUME NEW text \in Text, SetNodeValue(text)
      PROVE k \in Id' /\ node'[k].frees = 1
  BY <1>3, ValueSet DEF Id
<1>4. ASSUME stack # <<>>, TopType \in Root, node' = Deleted(Top), Pop
      PROVE k \in Id' /\ node'[k].frees = 1
  <2>1. Depth = 1 /\ Top = stack[1] /\ Top \in Id /\ node \in Seq(Node)
    BY <1>4, RootAlone, PopTypes DEF IInv, TypeOK, Top
  <2>2. Id' = Id
    BY <1>4, <2>1, DeletedTypes DEF Id
  <2>3. ~ (Depth > 0 /\ k \in InSubtree(stack[1]))
    BY DEF DeletedOffStack
  <2>4. k \notin InSubtree(Top)
    BY <2>1, <2>3
  <2> QED BY <1>4, <2>2, <2>4 DEF Deleted
<1>5. CASE CloseName
  BY <1>4, <1>5 DEF CloseName, Closes, Root
<1>6. CASE CloseParams
  BY <1>4, <1>6 DEF CloseParams, Closes, Root
<1> QED BY <1>1, <1>2, <1>3, <1>5, <1>6
        DEF Next, vars, OpenMethod, OpenWithoutVector, CloseParam, CloseInner,
            CloseMethod, Destroy

\* A call is made when nothing is open, so all its nodes are deleted.
LEMMA CallsDeletedStep ==
  ASSUME IInv, DeletedOffStack, CallsDeleted, IInv', DeletedOffStack', [Next]_vars
  PROVE  CallsDeleted'
<1>1. Len(node) \in Nat /\ Len(node') \in Nat /\ calls \in Seq(DoneCall)
  BY DEF IInv, TypeOK
<1>2. Id \subseteq Id'
  <2>1. ASSUME NEW k \in Id PROVE k \in Id'
    <3>1. CASE Len(node') = Len(node)
      BY <3>1 DEF Id
    <3>2. ASSUME NEW type \in Tag, OpenNode(type) PROVE k \in Id'
      BY <3>2, NodesGrow DEF IInv
    <3>3. CASE node' = node
      BY <3>3 DEF Id
    <3>4. ASSUME NEW text \in Text, SetNodeValue(text) PROVE k \in Id'
      BY <3>4, ValueSet DEF Id
    <3>5. CASE CloseName
      BY <3>5, PopTypes, DeletedTypes DEF CloseName, Closes, IInv, TypeOK, Id, Top
    <3>6. CASE CloseParams
      BY <3>6, PopTypes, DeletedTypes DEF CloseParams, Closes, IInv, TypeOK, Id, Top
    <3> QED BY <3>2, <3>3, <3>4, <3>5, <3>6
            DEF Next, vars, OpenMethod, OpenWithoutVector, CloseParam, CloseInner,
                CloseMethod, Destroy
  <2> QED BY <2>1
<1>3. Len(node) <= Len(node')
  BY <1>1, <1>2 DEF Id
<1>4. ASSUME NEW i \in 1 .. Len(calls)
      PROVE /\ calls[i].until <= Len(node')
            /\ \A k \in 1 .. calls[i].until : node'[k].frees = 1
  <2>0. calls[i] \in DoneCall
    BY <1>1, ElementOfSeq
  <2>1. calls[i].until \in Nat
    BY <2>0 DEF DoneCall
  <2>2. calls[i].until <= Len(node) /\ \A k \in 1 .. calls[i].until : node[k].frees = 1
    BY DEF CallsDeleted
  <2>3. \A k \in 1 .. calls[i].until : k \in Id
    BY <1>1, <2>1, <2>2 DEF Id
  <2> QED BY <1>1, <1>3, <2>1, <2>2, <2>3, FreedStays
<1>5. CASE calls' = calls
  BY <1>4, <1>5 DEF CallsDeleted
<1>6. CASE CloseMethod
  <2> DEFINE call == [name |-> method.name, params |-> method.params,
                      since |-> method.since, until |-> Len(node)]
  <2>1. call.until = Len(node)
    OBVIOUS
  <2>2. calls' = Append(calls, call)
    BY <1>6 DEF CloseMethod, MakeCall
  <2> HIDE DEF call
  <2>3. node' = node /\ stack = <<>>
    BY <1>6 DEF CloseMethod
  <2>4. Len(calls) \in Nat /\ Len(calls') = Len(calls) + 1
        /\ calls'[Len(calls) + 1] = call
        /\ \A i \in 1 .. Len(calls) : calls'[i] = calls[i]
    BY <1>1, <2>2
  <2>5. Depth = 0
    BY <2>3, EmptySeq DEF Depth
  <2>6. \A k \in Id : node[k].frees = 1
    BY <2>5 DEF DeletedOffStack
  <2>7. ASSUME NEW i \in 1 .. Len(calls')
        PROVE calls'[i].until <= Len(node')
              /\ \A k \in 1 .. calls'[i].until : node'[k].frees = 1
    <3>1. CASE i = Len(calls) + 1
      BY <1>1, <2>1, <2>3, <2>4, <2>6, <3>1 DEF Id
    <3>2. CASE i \in 1 .. Len(calls)
      BY <1>4, <2>4, <3>2
    <3> QED BY <2>4, <3>1, <3>2
  <2> QED BY <2>7 DEF CallsDeleted
<1> QED BY <1>5, <1>6
        DEF Next, vars, OpenMethod, OpenNode, OpenWithoutVector, SetNodeValue,
            CloseName, CloseParams, CloseParam, CloseInner, Destroy

LEMMA InitCallsDeleted == Init => CallsDeleted
<1> SUFFICES ASSUME Init PROVE CallsDeleted
  OBVIOUS
<1>1. Len(calls) = 0
  BY EmptySeq DEF Init
<1> QED BY <1>1 DEF CallsDeleted

LEMMA DeletedOrLeft ==
  IInv /\ DeletedOffStack /\ CallsDeleted => NodesDeletedOrLeft
<1> SUFFICES ASSUME IInv, DeletedOffStack, CallsDeleted PROVE NodesDeletedOrLeft
  OBVIOUS
<1>1. Len(node) \in Nat /\ stack \in Seq(Id) /\ calls \in Seq(DoneCall)
      /\ Depth \in Nat /\ (Depth > 0 <=> stack # <<>>)
  BY EmptySeq DEF IInv, TypeOK, Depth
<1>2. \A n : n \in OpenTree <=> Depth > 0 /\ n \in InSubtree(stack[1])
  BY <1>1 DEF OpenTree
<1>3. InUse \cup LeftBehind = OpenTree
  BY DEF InUse, LeftBehind
<1>4. \A n \in Id : node[n].frees = IF n \in OpenTree THEN 0 ELSE 1
  BY <1>2 DEF DeletedOffStack
<1>5. ASSUME NEW i \in 1 .. Len(calls) PROVE OpenTree \cap 1 .. calls[i].until = {}
  <2>0. calls[i] \in DoneCall
    BY <1>1, ElementOfSeq
  <2>1. calls[i].until \in Nat /\ calls[i].until <= Len(node)
    BY <2>0 DEF DoneCall, CallsDeleted
  <2>2. \A k \in 1 .. calls[i].until : k \in Id /\ node[k].frees = 1
    BY <1>1, <2>1 DEF Id, CallsDeleted
  <2>3. \A k \in 1 .. calls[i].until : k \notin OpenTree
    BY <1>4, <2>2
  <2> QED BY <2>3
<1>6. phase = "parsing" /\ method = NULL => OpenTree = {}
  BY DEF OpenTree, IInv, VectorInPlace
<1> QED BY <1>3, <1>4, <1>5, <1>6 DEF NodesDeletedOrLeft

\* Whatever is opened, closed and left out, no node is deleted twice, none is
\* deleted while the stack or a parent points to it, and what is never deleted is
\* the tree on the stack at the end of a request, which ~MethodBuilder forgets:
\* no node of a call that was made (methodbuilder.cpp:18-24, 112, 118, 339-344).
THEOREM DeletedOrForgotten == Spec => []NodesDeletedOrLeft
<1>1. /\ IInv /\ DeletedOffStack /\ CallsDeleted /\ IInv' /\ [Next]_vars
      => DeletedOffStack' /\ CallsDeleted'
  BY NextDeleted, CallsDeletedStep
<1>2. Init => DeletedOffStack /\ CallsDeleted
  BY InitDeleted, InitCallsDeleted
<1>3. Spec => [](DeletedOffStack /\ CallsDeleted)
  BY <1>1, <1>2, Invariance, PTL DEF Spec
<1> QED BY <1>3, Invariance, DeletedOrLeft, PTL

-------------------------------------------------------------------------------
(* The conversion of a parameter *)

LEMMA LeastIn ==
  ASSUME NEW S \in SUBSET Nat, S # {}
  PROVE  Least(S) \in S /\ \A l \in S : Least(S) <= l
<1> DEFINE P(k) == k \in S /\ \A l \in S : k <= l
           m == CHOOSE k : P(k)
<1>1. \E k : P(k)
  BY NatMin
<1>2. P(m)
  <2> HIDE DEF P
  <2> QED BY <1>1
<1>3. Least(S) = m
  BY DEF Least
<1> HIDE DEF m
<1> QED BY <1>2, <1>3

LEMMA GreatestIn ==
  ASSUME NEW S \in SUBSET Nat, S # {}, NEW N \in Nat, \A l \in S : l <= N
  PROVE  Greatest(S) \in S /\ \A l \in S : l <= Greatest(S)
<1> DEFINE P(k) == k \in S /\ \A l \in S : l <= k
           m == CHOOSE k : P(k)
<1>1. \E k : P(k)
  BY NatMax
<1>2. P(m)
  <2> HIDE DEF P
  <2> QED BY <1>1
<1>3. Greatest(S) = m
  BY DEF Greatest
<1> HIDE DEF m
<1> QED BY <1>2, <1>3

Outcomes == {"whole", "hole", "null", "throws"}
Inner == {"array", "data", "struct"}
Result(kids, walk) == {k \in kids : walk[k] # "null"}

\* The body of Walk, from what it looks at.
Outcome(type, converts, kids, walk) ==
  LET any(S) == \E k \in kids : walk[k] \in S
      result == Result(kids, walk)
  IN  CASE type \in Scalar -> IF converts THEN "whole" ELSE "throws"
        [] type = "name" -> "null"
        [] type \in Inner ->
             IF any({"throws"}) THEN "throws"
             ELSE IF any({"null", "hole"}) THEN "hole" ELSE "whole"
        [] type = "member" ->
             IF any({"throws"}) THEN "throws"
             ELSE IF result = {} THEN "hole" ELSE walk[Greatest(result)]
        [] OTHER -> IF result = {} THEN "null" ELSE walk[Least(result)]

Bounded(S) == \E N \in Nat : S \in SUBSET (1 .. N)

LEMMA ResultIn ==
  ASSUME NEW kids, Bounded(kids), NEW walk, Result(kids, walk) # {}
  PROVE  /\ Least(Result(kids, walk)) \in Result(kids, walk)
         /\ \A l \in Result(kids, walk) : Least(Result(kids, walk)) <= l
         /\ Greatest(Result(kids, walk)) \in Result(kids, walk)
         /\ Result(kids, walk) \subseteq kids
<1> DEFINE r == Result(kids, walk)
<1> PICK N \in Nat : kids \in SUBSET (1 .. N)
  BY DEF Bounded
<1>1. r \subseteq kids
  BY DEF Result
<1> HIDE DEF r
<1>2. \A l \in r : l \in Nat /\ l <= N
  BY <1>1
<1>3. r \in SUBSET Nat /\ r # {}
  BY <1>2 DEF r
<1>4. Least(r) \in r /\ (\A l \in r : Least(r) <= l) /\ Greatest(r) \in r
  BY <1>2, <1>3, LeastIn, GreatestIn
<1> QED BY <1>1, <1>4 DEF r

\* It looks at the outcomes of the children only.
LEMMA OutcomeLooks ==
  ASSUME NEW kids, Bounded(kids), NEW type, NEW converts,
         NEW walk, NEW other, \A k \in kids : other[k] = walk[k]
  PROVE  Outcome(type, converts, kids, other) = Outcome(type, converts, kids, walk)
<1>1. Result(kids, other) = Result(kids, walk)
  BY DEF Result
<1> DEFINE r == Result(kids, walk)
<1>3. r # {} => Least(r) \in kids /\ Greatest(r) \in kids
  BY ResultIn
<1> HIDE DEF r
<1>4. r # {} => /\ other[Least(r)] = walk[Least(r)]
                /\ other[Greatest(r)] = walk[Greatest(r)]
  BY <1>3
<1>5. \A S : (\E k \in kids : other[k] \in S) <=> (\E k \in kids : walk[k] \in S)
  OBVIOUS
<1>6. /\ (\E k \in kids : other[k] \in {"throws"}) <=>
           (\E k \in kids : walk[k] \in {"throws"})
      /\ (\E k \in kids : other[k] \in {"null", "hole"}) <=>
           (\E k \in kids : walk[k] \in {"null", "hole"})
  BY <1>5
<1> QED BY <1>1, <1>4, <1>6 DEF Outcome, r

LEMMA OutcomeType ==
  ASSUME NEW kids, Bounded(kids), NEW type, NEW converts,
         NEW walk, \A k \in kids : walk[k] \in Outcomes
  PROVE  Outcome(type, converts, kids, walk) \in Outcomes
<1> DEFINE r == Result(kids, walk)
<1>2. r # {} => Least(r) \in kids /\ Greatest(r) \in kids
  BY ResultIn
<1> HIDE DEF r
<1>3. r # {} => walk[Least(r)] \in Outcomes /\ walk[Greatest(r)] \in Outcomes
  BY <1>2
<1> QED BY <1>3 DEF Outcome, Outcomes, r

\* The body, at each node.
WalkRuns ==
  \A n \in Id : Walk[n] = Outcome(node[n].type, Converts(n), Children(n), Walk)

\* The recursion of Walk ends, at the leaves: children are younger.
LEMMA WalkIs == TypeOK /\ TreeFollowsRules => WalkRuns
<1> SUFFICES ASSUME TypeOK, TreeFollowsRules PROVE WalkRuns
  OBVIOUS
<1> DEFINE L == Len(node)
           rank == [n \in Id |-> L - n]
           F == [n \in Id |-> [w \in [Id -> Outcomes] |->
                   Outcome(node[n].type, Converts(n), Children(n), w)]]
           W == CHOOSE w : w = [n \in Id |->
                  Outcome(node[n].type, Converts(n), Children(n), w)]
<1>1. /\ L \in Nat /\ Id = 1 .. L /\ node \in Seq(Node)
      /\ \A n \in Id : node[n].parent \in 0 .. n - 1
  BY ParentsBelow DEF TypeOK, Id, Upward
<1>2. \A n \in Id : Bounded(Children(n))
  BY <1>1 DEF Children, Bounded
<1>3. Walk = W
  BY DEF Walk, Outcome, Result, Inner
<1>4. \E w : Solves(w, F, Id, Outcomes)
  <2>1. Ranks(rank, Id, L)
    <3>1. \A n \in Id : L - n \in Nat /\ L - n <= L
      BY <1>1
    <3> QED BY <3>1 DEF Ranks
  <2>2. F \in [Id -> [[Id -> Outcomes] -> Outcomes]]
    <3> SUFFICES ASSUME NEW n \in Id, NEW w \in [Id -> Outcomes]
                 PROVE Outcome(node[n].type, Converts(n), Children(n), w) \in Outcomes
      OBVIOUS
    <3>1. \A k \in Children(n) : w[k] \in Outcomes
      BY DEF Children
    <3> QED BY <1>2, <3>1, OutcomeType
  <2>3. LooksBack(F, Id, Outcomes, rank)
    <3> SUFFICES ASSUME NEW n \in Id,
                        NEW g \in [Id -> Outcomes], NEW h \in [Id -> Outcomes],
                        \A k \in Id : rank[k] < rank[n] => g[k] = h[k]
                 PROVE Outcome(node[n].type, Converts(n), Children(n), g)
                         = Outcome(node[n].type, Converts(n), Children(n), h)
      BY DEF LooksBack
    <3>1. \A k \in Children(n) : k \in Id /\ n < k
      BY <1>1 DEF Children
    <3>2. \A k \in Children(n) : rank[k] < rank[n]
      BY <1>1, <3>1
    <3>3. \A k \in Children(n) : g[k] = h[k]
      BY <3>1, <3>2
    <3> QED BY <1>2, <3>3, OutcomeLooks
  <2>4. Outcomes # {}
    BY DEF Outcomes
  <2> HIDE DEF F, rank, L
  <2> QED BY <1>1, <2>1, <2>2, <2>3, <2>4, RankRecursion
<1>5. PICK w : Solves(w, F, Id, Outcomes)
  BY <1>4
<1>6. /\ w \in [Id -> Outcomes]
      /\ w = [n \in Id |-> Outcome(node[n].type, Converts(n), Children(n), w)]
  BY <1>5 DEF Solves
<1>7. W = [n \in Id |-> Outcome(node[n].type, Converts(n), Children(n), W)]
  BY <1>6
<1> HIDE DEF W
<1>8. \A n \in Id : W[n] = Outcome(node[n].type, Converts(n), Children(n), W)
  BY <1>7
<1> QED BY <1>3, <1>8 DEF WalkRuns

LEMMA WalkIsNext == (TypeOK /\ TreeFollowsRules)' => WalkRuns'
BY WalkIs, PTL

-------------------------------------------------------------------------------
(* A parameter that does not convert *)

Closed == Id \ OnStack

\* A step changes no closed node and opens nothing under one.
ClosedUntouched ==
  /\ Id \subseteq Id'
  /\ \A k \in Id : node'[k].parent = node[k].parent /\ node'[k].type = node[k].type
  /\ \A k \in Closed : node'[k].value = node[k].value
  /\ \A k \in Id' \ Id : node'[k].parent \notin Closed

LEMMA ParentOnStack ==
  ASSUME IInv, NEW k \in OnStack
  PROVE  k \in Id /\ node[k].parent \notin Closed
<1>1. PICK i \in 1 .. Depth : k = stack[i]
  BY DEF OnStack
<1>2. k \in Id /\ Depth \in Nat
  BY <1>1, Basics
<1>3. node[k].parent = IF i = 1 THEN 0 ELSE stack[i - 1]
  BY <1>1 DEF IInv, TreeFollowsRules
<1>4. i # 1 => stack[i - 1] \in OnStack
  BY <1>2 DEF OnStack
<1> QED BY <1>2, <1>3, <1>4 DEF Closed, Id

\* So what a closed node converts to is settled.
LEMMA WalkSettled ==
  ASSUME IInv, IInv', ClosedUntouched
  PROVE  /\ \A k \in Closed : Walk'[k] = Walk[k]
         /\ \A k \in Closed : Children(k)' = Children(k) /\ Children(k) \subseteq Closed
<1> DEFINE L == Len(node)
           rank == [n \in Closed |-> L - n]
           T == {n \in Closed : Walk'[n] = Walk[n]}
<1>1. L \in Nat /\ Closed \subseteq 1 .. L /\ Id = 1 .. L
  BY Basics DEF Closed, Id
<1>2. WalkRuns /\ WalkRuns'
  BY WalkIs, WalkIsNext DEF IInv
<1>3. ASSUME NEW n \in Closed
      PROVE  Children(n)' = Children(n) /\ Children(n) \subseteq Closed
  <2>1. \A k \in Id' : node'[k].parent = n => k \in Id
    BY DEF ClosedUntouched
  <2>2. {k \in Id' : node'[k].parent = n} = {k \in Id : node[k].parent = n}
    BY <2>1 DEF ClosedUntouched
  <2>3. \A k \in Id : node[k].parent = n => k \notin OnStack
    BY ParentOnStack
  <2> QED BY <2>2, <2>3 DEF Children, Closed
<1>4. ASSUME NEW n \in Closed PROVE Converts(n)' <=> Converts(n)
  BY <1>1 DEF Converts, ClosedUntouched
<1>5. rank \in [Closed -> Nat] /\ \A n \in Closed : rank[n] = L - n
  <2>1. \A n \in Closed : L - n \in Nat
    BY <1>1
  <2> QED BY <2>1
<1> HIDE DEF rank
<1>6. ASSUME NEW n \in Closed, \A k \in Closed : rank[k] < rank[n] => k \in T
      PROVE  n \in T
  <2>1. \A k \in Children(n) : k \in Closed /\ n < k
    <3>1. \A k \in Id : node[k].parent \in 0 .. k - 1
      BY ParentsBelow DEF IInv, Upward, Id
    <3> QED BY <1>1, <1>3, <3>1 DEF Children
  <2>2. \A k \in Children(n) : rank[k] < rank[n]
    BY <1>1, <1>5, <2>1
  <2>3. \A k \in Children(n) : Walk'[k] = Walk[k]
    BY <1>6, <2>1, <2>2
  <2>4. Bounded(Children(n))
    BY <1>1 DEF Children, Bounded
  <2>5. Outcome(node[n].type, Converts(n), Children(n), Walk')
          = Outcome(node[n].type, Converts(n), Children(n), Walk)
    BY <2>3, <2>4, OutcomeLooks
  <2>6. n \in Id /\ n \in Id' /\ node'[n].type = node[n].type
    BY <1>1 DEF ClosedUntouched
  <2>7. Walk[n] = Outcome(node[n].type, Converts(n), Children(n), Walk)
    BY <1>2, <2>6 DEF WalkRuns
  <2>8. Walk'[n] = Outcome(node'[n].type, Converts(n)', Children(n)', Walk')
    BY <1>2, <2>6 DEF WalkRuns
  <2>9. Walk'[n] = Outcome(node[n].type, Converts(n), Children(n), Walk')
    <3>1. Children(n)' = Children(n) /\ Converts(n)' = Converts(n)
      BY <1>3, <1>4 DEF Converts
    <3> QED BY <2>6, <2>8, <3>1
  <2> QED BY <2>5, <2>7, <2>9
<1>7. Closed \subseteq T
  <2> HIDE DEF T
  <2> QED BY <1>5, <1>6, RankInduction
<1> QED BY <1>3, <1>7

\* The first closed child of the param on the stack that converts to anything
\* throws: Walk returns with it, whatever is opened after it.
Jam(v) ==
  /\ v \in Children(stack[2]) \cap Closed
  /\ Walk[v] = "throws"
  /\ \A w \in Children(stack[2]) : w < v => w \in Closed /\ Walk[w] = "null"

Jammed ==
  /\ Depth > 1
  /\ node[stack[2]].type = "param"
  /\ \E v \in Id : Jam(v)

LEMMA JamThrows == IInv /\ Jammed => Walk[stack[2]] = "throws"
<1> SUFFICES ASSUME IInv, Jammed PROVE Walk[stack[2]] = "throws"
  OBVIOUS
<1>1. PICK v \in Id : Jam(v)
  BY DEF Jammed
<1> DEFINE p == stack[2]
           r == Result(Children(p), Walk)
<1>2. p \in Id /\ node[p].type = "param"
  BY Basics DEF Jammed
<1>3. Walk[p] = Outcome("param", Converts(p), Children(p), Walk)
  BY <1>2, WalkIs DEF IInv, WalkRuns
<1>4. Bounded(Children(p))
  BY Basics DEF Children, Bounded, Id
<1>5. v \in r /\ \A w \in r : ~ (w < v)
  BY <1>1 DEF Result, Jam
<1>6. Least(r) \in r /\ Least(r) <= v
  BY <1>4, <1>5, ResultIn
<1>7. Least(r) = v
  <2>1. v \in Int /\ Least(r) \in Int
    BY <1>4, <1>5, <1>6, ResultIn DEF Bounded
  <2> HIDE DEF r
  <2> QED BY <1>5, <1>6, <2>1
<1>8. Walk[p] = Walk[v]
  BY <1>3, <1>5, <1>7 DEF Outcome, Scalar, Inner
<1> QED BY <1>1, <1>8 DEF Jam

\* It lasts as long as the param is on the stack and no closed node changes.
LEMMA JamStays ==
  ASSUME IInv, IInv', Jammed, ClosedUntouched,
         Len(stack') > 1, stack'[2] = stack[2], OnStack' \cap Id \subseteq OnStack,
         \A k \in Id' \ Id : \A l \in Id : l < k
  PROVE  Jammed'
<1>1. PICK v \in Id : Jam(v)
  BY DEF Jammed
<1> DEFINE p == stack[2]
<1>2. /\ p \in Id /\ node[p].type = "param"
      /\ Id \subseteq Id' /\ Id \subseteq Nat
  BY Basics DEF Jammed, ClosedUntouched, Id
<1>3. v \in Closed /\ v \in Children(p) /\ Walk[v] = "throws"
  BY <1>1 DEF Jam
<1>4. Closed \subseteq Closed'
  BY <1>2 DEF Closed
<1>5. \A k \in Closed : Walk'[k] = Walk[k]
  BY WalkSettled
<1>6. Children(stack[2])' = {k \in Id' : node'[k].parent = p}
  BY DEF Children
<1>7. v \in Children(stack[2])' \cap Closed' /\ Walk'[v] = "throws"
  BY <1>2, <1>3, <1>4, <1>5, <1>6 DEF Children, ClosedUntouched
<1>8. ASSUME NEW w \in Children(stack[2])', w < v
      PROVE  w \in Closed' /\ Walk'[w] = "null"
  <2>1. w \in Id
    BY <1>1, <1>2, <1>6, <1>8 DEF Id
  <2>2. w \in Children(p)
    BY <1>6, <2>1 DEF Children, ClosedUntouched
  <2> QED BY <1>1, <1>4, <1>5, <1>8, <2>2 DEF Jam
<1>9. Jam(v)'
  BY <1>7, <1>8 DEF Jam
<1>10. node'[stack'[2]].type = "param"
  BY <1>2 DEF ClosedUntouched
<1> QED BY <1>2, <1>9, <1>10 DEF Jammed, Depth

\* A </param> that failed has one.
LEMMA StuckIsJammed == IInv /\ Stuck => Jammed
<1> SUFFICES ASSUME IInv, Stuck PROVE Jammed
  OBVIOUS
<1> DEFINE p == stack[2]
           r == Result(Children(p), Walk)
<1>1. Depth = 2 /\ Top = p /\ node[stack[1]].type = "params"
  BY RootAlone, Basics DEF Stuck, Top
<1>2. p \in Id /\ node[p].type = "param" /\ Walk[p] = "throws"
  BY <1>1, Basics DEF Stuck, TopType
<1>3. Walk[p] = Outcome("param", Converts(p), Children(p), Walk)
  BY <1>2, WalkIs DEF IInv, WalkRuns
<1>4. r # {} /\ Walk[Least(r)] = "throws"
  BY <1>2, <1>3 DEF Outcome, Scalar, Inner
<1>5. Bounded(Children(p)) /\ Children(p) \subseteq Id /\ Id \subseteq Nat
  BY Basics DEF Children, Bounded, Id
<1>6. Least(r) \in r /\ r \subseteq Children(p) /\ \A l \in r : Least(r) <= l
  BY <1>4, <1>5, ResultIn
<1>7. Children(p) \subseteq Closed
  <2>1. ASSUME NEW k \in Children(p), k \in OnStack PROVE FALSE
    <3>1. PICK i \in 1 .. Depth : k = stack[i]
      BY <2>1 DEF OnStack
    <3>2. node[k].parent = p /\ p # 0
      BY <1>2 DEF Children, Id
    <3>3. node[stack[i]].parent = IF i = 1 THEN 0 ELSE stack[i - 1]
      BY DEF IInv, TreeFollowsRules
    <3>4. i = 2 /\ p = stack[1]
      BY <1>1, <3>1, <3>2, <3>3
    <3> QED BY <1>1, <1>2, <3>4
  <2> QED BY <1>5, <2>1 DEF Closed
<1>8. \A w \in Children(p) : w < Least(r) => Walk[w] = "null"
  <2> SUFFICES ASSUME NEW w \in Children(p), Walk[w] # "null" PROVE ~ (w < Least(r))
    OBVIOUS
  <2>1. w \in r
    BY DEF Result
  <2>2. Least(r) <= w /\ w \in Nat /\ Least(r) \in Nat
    BY <1>5, <1>6, <2>1
  <2> HIDE DEF r
  <2> QED BY <2>2
<1>9. Jam(Least(r))
  BY <1>4, <1>6, <1>7, <1>8 DEF Jam
<1>10. Least(r) \in Id
  BY <1>5, <1>6
<1> QED BY <1>1, <1>2, <1>9, <1>10 DEF Jammed

\* Nothing but what is opened, valued and closed above the param happens then.
LEMMA JamStep == IInv /\ Jammed /\ [Next]_vars => Jammed' /\ calls' = calls
<1> SUFFICES ASSUME IInv, Jammed, [Next]_vars PROVE Jammed' /\ calls' = calls
  OBVIOUS
<1>1. IInv'
  BY NextInv
<1>2. /\ Depth \in Nat /\ Depth > 1 /\ stack # <<>> /\ stack \in Seq(Id)
      /\ stack[2] \in Id /\ TopType \notin Root
      /\ \A i \in 1 .. Depth : stack[i] \in Id
      /\ Len(node) \in Nat /\ node \in Seq(Node)
  <2>1. Depth \in Nat /\ Depth > 1 /\ stack # <<>>
    BY Basics, EmptySeq DEF Jammed
  <2> QED BY <2>1, Basics, RootAlone
<1>3. ASSUME node' = node, Len(stack') > 1, Len(stack') <= Depth, Len(stack') \in Nat,
             \A i \in 1 .. Len(stack') : stack'[i] = stack[i]
      PROVE  Jammed'
  <2>1. ClosedUntouched
    BY <1>3 DEF ClosedUntouched, Id
  <2>2. stack'[2] = stack[2] /\ OnStack' \cap Id \subseteq OnStack
    BY <1>2, <1>3 DEF OnStack, Depth
  <2>3. \A k \in Id' \ Id : \A l \in Id : l < k
    BY <1>3 DEF Id
  <2> QED BY <1>1, <1>3, <2>1, <2>2, <2>3, JamStays
<1>4. CASE UNCHANGED <<node, stack, calls>>
  BY <1>2, <1>3, <1>4 DEF Depth
<1>5. ASSUME NEW type \in Tag, OpenNode(type) PROVE Jammed' /\ calls' = calls
  <2> DEFINE m == Len(node) + 1
  <2>1. /\ Id' = Id \cup {m} /\ m \notin Id
        /\ \A k \in Id : node'[k] = node[k]
        /\ node'[m].parent = Top
        /\ stack' = Append(stack, m)
    BY <1>2, <1>5, NodesGrow DEF IInv
  <2>2. Top \in OnStack
    BY <1>2 DEF Top, OnStack
  <2>3. ClosedUntouched
    BY <2>1, <2>2 DEF ClosedUntouched, Closed
  <2>4. /\ Len(stack') = Depth + 1 /\ stack'[Depth + 1] = m
        /\ \A i \in 1 .. Depth : stack'[i] = stack[i]
    <3>1. stack \in Seq(Id') /\ m \in Id'
      BY <1>2, <2>1, SeqMonotonic
    <3> HIDE DEF m
    <3> QED BY <2>1, <3>1, AppendProperties DEF Depth
  <2>5. OnStack' \cap Id \subseteq OnStack
    <3>1. \A i \in 1 .. Depth + 1 : i \in 1 .. Depth \/ stack'[i] = m
      BY <1>2, <2>4
    <3> HIDE DEF m
    <3> QED BY <2>1, <2>4, <3>1 DEF OnStack, Depth
  <2>6. \A k \in Id' \ Id : \A l \in Id : l < k
    BY <1>2, <2>1 DEF Id
  <2>7. Len(stack') > 1 /\ stack'[2] = stack[2]
    BY <1>2, <2>4
  <2> QED BY <1>1, <1>5, <2>3, <2>5, <2>6, <2>7, JamStays DEF OpenNode
<1>6. ASSUME NEW text \in Text, SetNodeValue(text) PROVE Jammed' /\ calls' = calls
  <2>1. Top \in Id /\ Top \in OnStack
    BY <1>2 DEF Top, OnStack
  <2>2. node[Top] \in Node /\ text \in Text \cup {None}
    BY <1>2, <2>1, ElementOfSeq DEF Id
  <2>3. /\ [node[Top] EXCEPT !.value = text] \in Node
        /\ [node[Top] EXCEPT !.value = text].type = node[Top].type
        /\ [node[Top] EXCEPT !.value = text].parent = node[Top].parent
    BY <2>2 DEF Node
  <2>4. /\ Len(node') = Len(node)
        /\ node' = [node EXCEPT ![Top] = [node[Top] EXCEPT !.value = text]]
    BY <1>2, <1>6, <2>1, <2>3, ExceptSeq DEF SetNodeValue, Id
  <2>5. ClosedUntouched
    BY <1>2, <2>1, <2>3, <2>4 DEF ClosedUntouched, Closed, Id
  <2>6. stack' = stack /\ calls' = calls
    BY <1>6 DEF SetNodeValue
  <2>7. Len(stack') > 1 /\ stack'[2] = stack[2] /\ OnStack' \cap Id \subseteq OnStack
    BY <1>2, <2>6 DEF OnStack, Depth
  <2>8. \A k \in Id' \ Id : \A l \in Id : l < k
    BY <2>4 DEF Id
  <2> QED BY <1>1, <2>5, <2>6, <2>7, <2>8, JamStays
<1>7. CASE CloseInner
  <2>1. TopType # "param"
    BY <1>7 DEF CloseInner, Closes, NodeType, Root
  <2>2. Depth # 2
    BY <2>1 DEF Jammed, TopType, Top
  <2>3. /\ Len(stack') = Depth - 1
        /\ \A i \in 1 .. Depth - 1 : stack'[i] = stack[i]
    BY <1>2, <1>7, PopTypes DEF CloseInner
  <2>4. /\ Len(stack') > 1 /\ Len(stack') <= Depth /\ Len(stack') \in Nat
        /\ \A i \in 1 .. Len(stack') : stack'[i] = stack[i]
    BY <1>2, <2>2, <2>3
  <2> QED BY <1>3, <1>7, <2>4 DEF CloseInner
<1>8. ~ CloseParam
  <2>1. ASSUME TopType = "param" PROVE Walk[Top] = "throws"
    BY <1>2, <2>1, RootAlone, JamThrows DEF Top
  <2> QED BY <2>1 DEF CloseParam, Closes
<1>9. ~ CloseName /\ ~ CloseParams /\ ~ CloseMethod
  BY <1>2 DEF CloseName, CloseParams, CloseMethod, Closes, Root
<1>10. CASE OpenMethod \/ Destroy \/ UNCHANGED vars
  BY <1>4, <1>10 DEF OpenMethod, Destroy, vars
<1>11. ASSUME NEW type \in Tag, OpenWithoutVector(type) PROVE FALSE
  BY <1>2, <1>11 DEF OpenWithoutVector
<1> QED BY <1>5, <1>6, <1>7, <1>8, <1>9, <1>10, <1>11 DEF Next

\* When a text does not convert, the call it belongs to is never made, nor any
\* after it, whatever else the request holds (methodbuilder.cpp:120-137).
THEOREM StuckStays == Spec => StuckForGood
<1>1. ASSUME NEW n \in 0 .. MaxCalls
      PROVE  Spec => [](Stuck /\ Len(calls) = n => [](Len(calls) = n))
  <2>1. IInv /\ Jammed /\ Len(calls) = n /\ [Next]_vars => (Jammed /\ Len(calls) = n)'
    BY JamStep
  <2>2. IInv /\ Stuck => Jammed
    BY StuckIsJammed
  <2> QED BY <2>1, <2>2, Invariance, PTL DEF Spec
<1> QED BY <1>1 DEF StuckForGood
===============================================================================
