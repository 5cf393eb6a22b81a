---------------------------- MODULE MethodBuilder ----------------------------
(***************************************************************************)
(* One XmlParser with its MethodBuilder: what the tags and texts of a      *)
(* request, in any order, do to the method under construction, to the      *)
(* parameter vector, to the tree of nodes and to the stack that points     *)
(* into it.  A tag or text that the code ignores (InitNode, SetNodeValue   *)
(* or CloseNode returns false) changes nothing and has no action.          *)
(*                                                                         *)
(* Texts are abstracted to how they convert; a parameter to the node it    *)
(* was made from and to whether a null pointer hides in it.                *)
(***************************************************************************)
EXTENDS Integers, Sequences

CONSTANTS
  Tag,       \* the tags that open a node in the input
  Text,      \* the texts between the tags
  MaxNodes,  \* bound: nodes allocated for one request
  MaxCalls,  \* bound: calls completed by one request
  NULL

\* m_mapValidNodeTypes, without methodCall, base64 and datetime, for which
\* CheckHierarchyRules makes no node.
NodeType ==
  {"methodName", "params", "param", "value", "i4", "int", "boolean", "double",
   "string", "array", "data", "struct", "member", "name"}

None == "none"

\* whole: neither the parameter nor an item or a member in it is a null pointer.
Param == [node : Nat, whole : BOOLEAN]

\* parent: a node number, 0 for a root.  frees: how often it was deleted.
Node == [type : NodeType, value : Text \cup {None}, parent : Nat, frees : Nat]

\* since, until: history, the nodes allocated before the method and its call.
Method == [name : Text \cup {None}, params : Seq(Param) \cup {NULL}, since : Nat]
DoneCall == [name : Text \cup {None}, params : Seq(Param) \cup {NULL},
             since : Nat, until : Nat]

ASSUME BuilderAssumption ==
  /\ Tag \subseteq NodeType
  /\ Text \subseteq {"number", "huge", "word"}
  /\ MaxNodes \in Nat
  /\ MaxCalls \in Nat
  /\ NULL \notin Seq(Param)
  /\ NULL \notin Method

VARIABLES
  method,      \* m_pMethod: NULL, or its name and its own parameter vector
  parameters,  \* MethodBuilder::m_pParameters: NULL or a vector
  node,        \* all nodes, in the order of their allocation
  stack,       \* m_stackNodes, the top last
  calls,       \* the calls made so far
  phase        \* "parsing", "destroyed" or "crashed" (a null pointer was dereferenced)

vars == <<method, parameters, node, stack, calls, phase>>

Id == 1 .. Len(node)
Depth == Len(stack)
Top == stack[Depth]
TopType == node[Top].type
Children(n) == {k \in Id : node[k].parent = n}

-------------------------------------------------------------------------------
(* InitNode *)

Root == {"methodName", "params"}
Scalar == {"i4", "int", "boolean", "double", "string"}

\* The parents that CheckHierarchyRules allows under each type, and the least
\* depth it asks for.
ParentTypes(type) ==
  CASE type = "param" -> {"params"}
    [] type = "value" -> {"param", "data", "member"}
    [] type \in Scalar \cup {"struct", "array"} -> {"value"}
    [] type = "data" -> {"array"}
    [] type = "member" -> {"struct"}
    [] type = "name" -> {"member"}

LeastDepth(type) ==
  CASE type = "param" -> 1
    [] type = "value" -> 2
    [] type \in Scalar \cup {"struct", "array"} -> 3
    [] type \in {"data", "member"} -> 4
    [] type = "name" -> 5

CheckHierarchyRules_NoTop(type) ==
  IF type \in Root THEN Depth = 0 /\ parameters = <<>>
  ELSE Depth >= LeastDepth(type)

\* A root may be a child of nothing, before the first parameter.
CheckHierarchyRules(type) ==
  IF type \in Root THEN Depth = 0 /\ parameters = <<>>
  ELSE /\ Depth >= LeastDepth(type)
       /\ type = "param" => Depth = 1
       /\ TopType \in ParentTypes(type)

\* <methodCall>: any vector that is still there is left behind.
OpenMethod ==
  /\ method = NULL
  /\ Len(calls) < MaxCalls
  /\ method' = [name |-> None, params |-> NULL, since |-> Len(node)]
  /\ parameters' = <<>>
  /\ UNCHANGED <<node, stack, calls, phase>>

\* CreateNode
OpenNode(type) ==
  /\ method # NULL
  /\ CheckHierarchyRules(type)
  /\ Len(node) < MaxNodes
  /\ node' = Append(node, [type |-> type, value |-> None, frees |-> 0,
                           parent |-> IF Depth = 0 THEN 0 ELSE Top])
  /\ stack' = Append(stack, Len(node) + 1)
  /\ UNCHANGED <<method, parameters, calls, phase>>

\* CheckHierarchyRules asks a vector that the method already took.
OpenWithoutVector(type) ==
  /\ method # NULL
  /\ type \in Root
  /\ Depth = 0
  /\ parameters = NULL
  /\ phase' = "crashed"
  /\ UNCHANGED <<method, parameters, node, stack, calls>>

-------------------------------------------------------------------------------
(* SetNodeValue *)

HasText == (Scalar \cup {"methodName", "name"})

SetNodeValue(text) ==
  /\ method # NULL
  /\ stack # <<>>
  /\ TopType \in HasText
  /\ node' = [node EXCEPT ![Top].value = text]
  /\ UNCHANGED <<method, parameters, stack, calls, phase>>

-------------------------------------------------------------------------------
(* Walk *)

\* std::stoi and std::stod do not throw.
Converts(n) ==
  \/ node[n].type = "string"
  \/ node[n].value = "number"
  \/ node[n].type = "double" /\ node[n].value = "huge"

Least(S) == CHOOSE k \in S : \A l \in S : k <= l
Greatest(S) == CHOOSE k \in S : \A l \in S : l <= k

\* What Walk comes to at each node: it throws, returns null, or returns a
\* parameter, with or without a null pointer in it.  The items that a data node
\* adds to its array are counted as its own outcome.
Walk[n \in Id] ==
  LET type == node[n].type
      kids == Children(n)
      any(S) == \E k \in kids : Walk[k] \in S
      result == {k \in kids : Walk[k] # "null"}
  IN  CASE type \in Scalar -> IF Converts(n) THEN "whole" ELSE "throws"
        [] type = "name" -> "null"
        [] type \in {"array", "data", "struct"} ->
             IF any({"throws"}) THEN "throws"
             ELSE IF any({"null", "hole"}) THEN "hole" ELSE "whole"
        [] type = "member" ->
             IF any({"throws"}) THEN "throws"
             ELSE IF result = {} THEN "hole" ELSE Walk[Greatest(result)]
        [] OTHER -> IF result = {} THEN "null" ELSE Walk[Least(result)]

-------------------------------------------------------------------------------
(* CloseNode *)

Pop == stack' = SubSeq(stack, 1, Depth - 1)

\* delete pNode: Node::~Node deletes the children.
InSubtree(n) ==
  LET in[k \in 0 .. Len(node)] == k = n \/ (k # 0 /\ in[node[k].parent])
  IN  {k \in Id : in[k]}

Deleted(n) ==
  [k \in Id |-> IF k \in InSubtree(n) THEN [node[k] EXCEPT !.frees = @ + 1]
                                      ELSE node[k]]

Closes(types) ==
  /\ method # NULL
  /\ stack # <<>>
  /\ TopType \in types

CloseName ==
  /\ Closes({"methodName"})
  /\ method' = [method EXCEPT !.name = node[Top].value]
  /\ node' = Deleted(Top)
  /\ Pop
  /\ UNCHANGED <<parameters, calls, phase>>

HandOver_Shared == UNCHANGED parameters

\* After SetParameters the vector is the method's alone.
HandOver == parameters' = NULL

\* Method::SetParameters deletes the vector it had.
CloseParams ==
  /\ Closes({"params"})
  /\ method' = [method EXCEPT !.params = parameters]
  /\ HandOver
  /\ node' = Deleted(Top)
  /\ Pop
  /\ UNCHANGED <<calls, phase>>

CloseParam_PopAlways ==
  /\ Closes({"param"})
  /\ parameters' = IF Walk[Top] = "throws" THEN parameters
                   ELSE Append(parameters, [node |-> Top,
                                            whole |-> Walk[Top] = "whole"])
  /\ Pop
  /\ UNCHANGED <<method, node, calls, phase>>

CloseParam_Delete ==
  /\ Closes({"param"})
  /\ Walk[Top] # "throws"
  /\ parameters' = Append(parameters, [node |-> Top,
                                       whole |-> Walk[Top] = "whole"])
  /\ node' = Deleted(Top)
  /\ Pop
  /\ UNCHANGED <<method, calls, phase>>

\* A conversion that throws leaves the node on the stack.
CloseParam ==
  /\ Closes({"param"})
  /\ Walk[Top] # "throws"
  /\ parameters' = Append(parameters, [node |-> Top,
                                       whole |-> Walk[Top] = "whole"])
  /\ Pop
  /\ UNCHANGED <<method, node, calls, phase>>

CloseInner ==
  /\ Closes(NodeType \ (Root \cup {"param"}))
  /\ Pop
  /\ UNCHANGED <<method, parameters, node, calls, phase>>

MakeCall ==
  calls' = Append(calls, [name |-> method.name, params |-> method.params,
                          since |-> method.since, until |-> Len(node)])

CloseMethod_Keep ==
  /\ method # NULL
  /\ stack = <<>>
  /\ MakeCall
  /\ UNCHANGED <<method, parameters, node, stack, phase>>

CloseMethod_AnyDepth ==
  /\ method # NULL
  /\ MakeCall
  /\ method' = NULL
  /\ UNCHANGED <<parameters, node, stack, phase>>

\* </methodCall>: XmlParser::CloseTag releases, calls and deletes the method.
CloseMethod ==
  /\ method # NULL
  /\ stack = <<>>
  /\ MakeCall
  /\ method' = NULL
  /\ UNCHANGED <<parameters, node, stack, phase>>

\* ~MethodBuilder, at the end of the request: what is on the stack stays behind.
Destroy ==
  /\ method' = NULL
  /\ parameters' = NULL
  /\ phase' = "destroyed"
  /\ UNCHANGED <<node, stack, calls>>

-------------------------------------------------------------------------------
Init ==
  /\ method = NULL
  /\ parameters = NULL
  /\ node = <<>>
  /\ stack = <<>>
  /\ calls = <<>>
  /\ phase = "parsing"

Next ==
  /\ phase = "parsing"
  /\ \/ OpenMethod
     \/ \E type \in Tag : OpenNode(type) \/ OpenWithoutVector(type)
     \/ \E text \in Text : SetNodeValue(text)
     \/ CloseName
     \/ CloseParams
     \/ CloseParam
     \/ CloseInner
     \/ CloseMethod
     \/ Destroy

Spec == Init /\ [][Next]_vars

-------------------------------------------------------------------------------
(* Properties *)

TypeOK ==
  /\ method \in Method \cup {NULL}
  /\ parameters \in Seq(Param) \cup {NULL}
  /\ node \in Seq(Node)
  /\ stack \in Seq(Id)
  /\ calls \in Seq(DoneCall)
  /\ Len(calls) <= MaxCalls
  /\ phase \in {"parsing", "destroyed", "crashed"}

\* The rules that CheckHierarchyRules states by depth and top hold along every
\* edge of the tree, whatever was opened, ignored and closed in between; the
\* stack is one path from a root down.  Walk relies on it: a name is told its
\* member, a data node its array, and no other parameter is asked to take a name
\* or an item (methodbuilder.cpp:310-319).
TreeFollowsRules ==
  /\ \A n \in Id :
       IF node[n].type \in Root THEN node[n].parent = 0
       ELSE /\ node[n].parent \in 1 .. n - 1
            /\ node[node[n].parent].type \in ParentTypes(node[n].type)
  /\ \A i \in 1 .. Depth :
       node[stack[i]].parent = IF i = 1 THEN 0 ELSE stack[i - 1]

\* The root on the stack with all that hangs below it.
OpenTree == IF stack = <<>> THEN {} ELSE InSubtree(stack[1])

\* The nodes that nobody will delete: ~MethodBuilder deletes the vector and the
\* method and forgets the stack (methodbuilder.cpp:18-24).
LeftBehind == IF phase = "destroyed" THEN OpenTree ELSE {}
InUse == IF phase = "destroyed" THEN {} ELSE OpenTree

\* A node is deleted once, with its root, and not while the stack or a parent
\* still points to it (methodbuilder.cpp:112, 118, 339-344), or else it stays
\* behind: a request that ends inside an element, or after a conversion that
\* failed, leaves behind the whole tree under the root on the stack, and that is
\* all it leaves.  No node of a call that was made is among them, and a request
\* that ends between two calls leaves none.
NodesDeletedOrLeft ==
  /\ \A n \in Id :
       node[n].frees = IF n \in InUse \cup LeftBehind THEN 0 ELSE 1
  /\ \A i \in 1 .. Len(calls) : OpenTree \cap 1 .. calls[i].until = {}
  /\ phase = "parsing" /\ method = NULL => OpenTree = {}

\* While a method is under construction its parameter vector has one owner, the
\* builder or the method; the vector a finished method leaves with the builder
\* holds nothing, so that dropping it in InitNode loses no parameter
\* (methodbuilder.cpp:33, 116-117).
OneVectorOwner ==
  /\ method # NULL => (parameters = NULL) # (method.params = NULL)
  /\ method = NULL => parameters \in {NULL, <<>>}

ParamNodes(first, last) == {n \in first .. last : node[n].type = "param"}

\* A call is made with all the parameters of its own request text and no other,
\* in their order, and under the last name it was given, even when several calls
\* follow each other and tags are misplaced or left out.
CallsAreTheirOwn ==
  \A i \in 1 .. Len(calls) :
    LET call == calls[i]
        args == IF call.params = NULL THEN <<>> ELSE call.params
        ids == {args[j].node : j \in 1 .. Len(args)}
        names == {n \in call.since + 1 .. call.until :
                    node[n].type = "methodName"}
    IN  /\ ids = ParamNodes(call.since + 1, call.until)
        /\ \A j, k \in 1 .. Len(args) : j < k => args[j].node < args[k].node
        /\ call.name = IF names = {} THEN None
                       ELSE node[Greatest(names)].value

\* A parameter whose text does not convert is on top of the stack, complete.
Stuck == Depth > 0 /\ TopType = "param" /\ Walk[Top] = "throws"

\* Once a </param> has failed, nothing the peer sends makes the builder complete
\* that call, or another: the call is never made with the parameter left out.
StuckForGood ==
  \A n \in 0 .. MaxCalls :
    [](Stuck /\ Len(calls) = n => [](Len(calls) = n))

\* methodbuilder.cpp:160-170: the hierarchy check answers for every tag, a root
\* tag among them.
CheckAnswers == phase # "crashed"
===============================================================================
