# Verification of xmlrpcserver

`xmlrpcserver` is a small multithreaded XML-RPC server in C++11. This directory
holds TLA+ models of it, the TLC configurations that check them on small
instances, and TLAPS proofs of what matters most for every instance. The code
under `src/` is the reference; paths below are relative to it.

## 1. Inventory

| Part | State | Operations | Talks to |
|---|---|---|---|
| `main` (`impl/main.cpp`) | registered objects and `MemberFunction`s (locals), `RpcServer` | register, start and join the server thread, return; `DeleteSingletons` at exit | `ObjServer`, `RpcServer`, the parser states |
| `ObjServer` (`impl/objserver.cpp`) | singleton pointer, name to function map, no lock | `Instance`, `Register`, `Call`, `Destroy` | called by `main` and by every agent (`Method::DoCall`) |
| `RpcServer` (`impl/rpcserver.cpp`) | loop counter, the agent in hand | `MainEntry`, `DeleteRpcAgent` on a detached thread per agent | `ServerSocket`, `RpcAgent` |
| `RpcAgent` (`impl/rpcagent.cpp`) | `m_pClientSocket`, `m_pThread` | `Start`, `MainEntry`, `ReceiveCommand`, `Join` | `ClientSocket`, `HttpHeader`, `XmlParser` |
| Linux sockets (`impl/*socket_lin.cpp`) | descriptor numbers | `Init`, `WaitForConections`, `Recv`, `Send`, `Close` | the kernel |
| `HttpHeader`, `CharStream` | receive buffer position, header map | scan the header, `ContentLength`, rewind | `RpcAgent`, `XmlParser` |
| `XmlParser` and its states (`impl/xml.cpp`) | current line, state pointer (shared singletons), results | `Open`, `Read`, `ParseCurrentLine`, `CloseTag`, `GetMethodCallResult` | `MethodBuilder`, `Method` |
| `MethodBuilder`, `Method` (`impl/methodbuilder.cpp`, `impl/method.cpp`) | method, parameter vector, stack of nodes | `InitNode`, `SetNodeValue`, `CloseNode`, `Walk`, `DoCall` | `ObjServer`, `MethodParameter` |
| `MethodParameter` (`impl/methodparameter.cpp`) | typed trees | `CopyItem`, `toXmlTag`, `SetItem`, `SetMember` | handlers |
| Registered objects (`impl/testserverobjects.cpp`) | none | `Add`, `DuplicateParameter` | `MethodParameter` |
| Windows threads and sockets (`include/thread.h`, `impl/*_win.cpp`) | handles, Winsock | `thread`, `join`, `detach`, the socket operations | replace the Linux parts |

The agents, the deleter threads, the server thread and `main` share the
registry, the parser state singletons, the agents' heap objects and the kernel's
descriptor table. Nothing in the program is locked: it is correct by the order
in which things are done. One agent thread owns its socket, its header, its
parser and its method builder alone.

### What makes each part correct, and what is hard about it

| Part | Correct when | Hard because |
|---|---|---|
| `main`, `ObjServer` | every call finds all registrations and live objects (`ServingIsSafe`); the process exits once the server thread has returned (`StoppedServerExits`) | the registry is an unlocked map; `main` joins the server thread only, so the exit runs beside the agents |
| `RpcServer`, deleters | an agent object lives as long as its thread, and its thread pointer is set before it is joined (`AgentOutlivesThread`); every agent that can end is reaped (`ReceivedIsReaped`, `AcceptedIsReaped`) | three threads per connection, in any interleaving; thread creation may fail |
| Linux sockets | a descriptor is closed once, by its owner (`OnlyOwnerCloses`), and never leaks or is used closed (`DescriptorOwnership`) | `Recv` and `Send` close on failure and throw; the kernel reuses numbers at once |
| `RpcAgent`, `XmlParser` results | each executed call is answered at most once, in order (`AnswersMatchCalls`, `ImplementsService`) | several calls in one request, sends that fail half way, parse errors nobody catches |
| `MethodBuilder`, `Method` | the tree follows the hierarchy rules (`TreeFollowsRules`), each node is deleted once or is on the stack when the request ends (`NodesDeletedOrLeft`), the parameter vector has one owner (`OneVectorOwner`), a call has its own parameters (`CallsAreTheirOwn`) | tags that are ignored, misplaced or missing; a node that stays on the stack when a conversion throws, or when the request is cut; raw pointers on a stack, in parents and handed over |
| `XmlParser` tokenizer | exactly the lines with complete tags are accepted (`LinesAsInGrammar`); the builder is told the whole text, in order, and nothing else (`EventsAreTheText`, `EventsAreClean`) | text and tag buffers that live across tags, a slash that may be text, a last line without newline |
| parser states | every parser works through a live object of its class (`StateIsLive`); the race in `Instance` costs little (`OneEach`) and ends (`SettledForGood`) | check, allocate and store without a lock; deleted while agents run |
| `HttpHeader`, `CharStream` | the header is known line by line (`HeaderIsLineByLine`); a request that arrives cut executes its first calls or none (`CutExecutesFirstCalls`) | one `Recv` per connection, rewinds, `-1` as "no header" |
| `MethodParameter`, handlers, answer | each object is deleted once or is lost in one of three known ways (`DeletedOrLost`); a null pointer is met, or not, in a known place (`NullIsNeverAnswered`); an answer reads back as the parameters (`AnswerReadsBack`) | trees of any shape, values without content, members with several values, conversions that throw half way, requests that are cut, `int` overflow |
| Windows threads | no agent is deleted under its thread (`ImplementsAgentLife`); a thread closes its own handle only (`HandlesAreOwn`) | a handle that is closed while the thread object keeps it; numbers are reused |
| Windows sockets | a socket is open while it is used and not longer, but for an agent without a thread (`SocketsInUse`); when Winsock goes down nobody is left waiting (`DownEndsAll`) | one `WSAStartup`, and a `WSACleanup` on every failure; an agent whose thread could not be made never closes its socket |

The hazards behind this table are listed with their lines in `PROJECT.json`.

## 2. Modules

| Module | Models | Extends / uses |
|---|---|---|
| `RpcService` | abstract: what the peer of a connection is promised | |
| `RpcServer` | all threads of the process, shutdown, descriptors, answers | instance of `RpcService` under a refinement mapping |
| `MCRpcServer` | small requests, names and descriptors for TLC | `RpcServer` |
| `RpcServerProofs` | theorems about `RpcServer` for every value of its constants | `RpcServer` |
| `MethodBuilder` | the method call under construction in one request | |
| `MCMethodBuilder` | the tags for TLC's two instances | `MethodBuilder` |
| `MethodBuilderProofs` | theorems about `MethodBuilder` for every tag, text and bound | `MethodBuilder`, `ProofLemmas` |
| `Texts` | what the code does with texts: trim, erase, append | |
| `XmlParser` | the lines and tags of one request's text | `Texts` |
| `XmlParserProofs` | theorems about `XmlParser` for texts of any length | `XmlParser`, `ProofLemmas` |
| `ParserStates` | the shared state objects of all parsers | |
| `MCParserStates` | symmetry for TLC | `ParserStates` |
| `ParserStatesProofs` | theorems about `ParserStates` for any number of agents | `ParserStates` |
| `HttpHeader` | the header, the length and the rewind of one request | `Texts` |
| `MCHttpHeader` | the lines of TLC's requests | `HttpHeader` |
| `HttpHeaderProofs` | theorems about `HttpHeader` for requests of any length | `HttpHeader`, `ProofLemmas` |
| `MethodCall` | one call: parameter objects, handlers, answer, deletion | `Texts` |
| `MCMethodCall` | the ints of TLC's calls | `MethodCall` |
| `MethodCallProofs` | theorems about `MethodCall` for trees of any size and depth | `MethodCall`, `ProofLemmas` |
| `WinAgents` | the agents of the Windows build | |
| `AgentLife` | abstract: when an agent may be deleted | |
| `ThreadWin` | the `std::thread` of the Windows build | `WinAgents`, instance of `AgentLife` |
| `WinSock` | the sockets of the Windows build | `WinAgents` |
| `WindowsProofs` | theorems about `ThreadWin` and `WinSock` for any agents and numbers | both |
| `ProofLemmas` | induction and recursion over finite data, lemmas about `Texts` | `Texts` |

### RpcServer

One action is one step of one thread between two points where another thread
can matter. The program counters name the code's position: `mainPc` is in
`main` or `DeleteSingletons`, `serverPc` in `RpcServer::MainEntry`, `agentPc` in
`RpcAgent::MainEntry` / `ReceiveCommand`, `deleter` in `DeleteRpcAgent`.

- `fdTable` is the kernel's: who an open number stands for. `sock` is the
  number each `ClientSocket` holds, which it keeps after `close`. `Accept` and
  `ServerInit` take the lowest free number, so that a closed number is the next
  one handed out.
- `Accept`, `StartAgent`, `AssignThread`, `SpawnDeleter` are the loop body. The
  agent thread exists after `StartAgent` and may run to its end before
  `AssignThread` stores `m_pThread`.
- A request is what its parse does: whether a body follows the header, which
  calls its lines complete, whether the lines after them are well formed, and
  whether a null pointer hides in the parameters of a call. Each call is two
  steps, `BeginCall` (takes the registry) and `EndCall` (uses it and the
  handler's object), so that `main`'s exit may come between them.
- `Abort` is `std::terminate`, whose handler returns, or a signal: an
  `Xml_Parse_Error`, a failed thread constructor, a null dereference, SIGPIPE.
- `stale` records which destroyed singletons an agent still points to. What a
  thread then does is undefined, and the model takes both outcomes, going on and
  crashing.

`RpcService` keeps, per peer, the state of the connection, the results owed and
the answers sent. The mapping reads the connection off `fdTable`, `owed` is
`results` and `answers` is `sent`; main, the deleters and the positions of the
threads are stuttering.

### MethodBuilder

The input is any sequence of opened tags, texts and closed tags. Inputs the
code ignores (`InitNode`, `SetNodeValue`, `CloseNode` return `false`) change
nothing and are stuttering. `OpenMethod` and `OpenNode` are `InitNode`, with
`CheckHierarchyRules` its guard; `CloseName`, `CloseParams`, `CloseParam` and
`CloseInner` are the cases of `CloseNode`; `CloseMethod` is its first branch with
the release, call and deletion that `XmlParser::CloseTag` adds; `Destroy` is the
destructor at the end of the request.

- Nodes are numbered in the order of their allocation and keep their parent;
  `Children` is `m_vecChildren`, `frees` counts deletions. `InSubtree` is what
  `Node::~Node` reaches.
- `Walk` is a recursive function from a node to what `Walk` comes to there: it
  throws, returns null, or returns a parameter with or without a null pointer
  inside. Texts are abstracted to how they convert: `"number"`, `"huge"` (out of
  the range of an `int`), `"word"` (no conversion).
- `Destroy` deletes the method and the vector and leaves the stack as it is: a request
  that is cut inside an element, or whose parameter does not convert, leaves nodes on
  it that nobody deletes. `NodesDeletedOrLeft` says which: the tree under the root on
  the stack (`LeftBehind`), and no node of a call that was made.
- `phase = "crashed"` stands for the dereference of a null `m_pParameters`.
- The values of the parameters and the name's characters are left out; what
  `DoCall` does with them is in `MethodCall`.

### XmlParser

`Open` takes a header line of the pieces that `ParseXmlHeader` looks for
(`OpenUnterminated` is a stream without a newline). After it the peer chooses each
character as `Read` comes to it: `ReadChar` collects, `ReadNewline` starts
`ParseCurrentLine`, `EndOfStream` is the end of what was received. The scanner has
one action per case of its switch, and `EndOfLine` is what follows the loop. `at` is
`i`, `tagState`, `tag` and `attrib` are the locals, `events` is what the builder was
told (`InitTag`, `CloseTag`, `SetTagValue`). The builder's answers are not used by
the scanner.

### ParserStates

`m_pState` is the three static pointers, `kind` the objects in memory, `state` the
pointer of an agent's parser. `Test` and `New` are the two halves of `Instance`;
between them another agent may store its object. `Return` reads the pointer again:
a build may do that or keep the value in a register, and both are allowed. An object
is whole when its pointer is stored, as on the processors the project files build
for. An agent that ends makes room for another, so the number of agents is the
number at work at a time. `Destroy` and `Zero` are the two writes of `Destroy`, while
agents go on; what a call on a deleted object does is undefined, and the model takes
both outcomes. The properties speak of the time until the exit: after it,
`RpcServer` has what can happen.

### HttpHeader

The peer sends lines of tokens, and `Recv` gives any first part of them: `Arrive`
grows the request while the scan, or the body, wants more, and `EndOfHeader` and
`ReceiveBody` may cut it after any token. `ScanHeader` is one round of the
constructor's loop; the `header` record holds its locals. `ReceiveBody` is
`ReceiveCommand` behind the header: the rewind when there is no length, and a
parser reduced to what the cut can change (a good header line, lines of calls,
anything else).

### MethodCall

A tree of parameters is built in the order of the closing tags, as `Walk` does:
`made` are objects without an owner yet. `0` is a null pointer, `Walk`'s result for a
value without content. `ConversionFails` is `std::stoi` or `std::stod` throwing inside
nested calls of `Walk`: it may happen where the objects in `made` are what the open
elements around the value have so far (`Around`), and they go to `lost`. The node stays
on the stack, so that each later `</param>` of the request walks the same nodes again
and fails again (`"stuck"`). `CloseParams` hands the vector over; `CutRequest` is the
end of the request before that, where `~MethodBuilder` deletes the vector without the
parameters in it. `replaced` is the part of `lost` that a member gave up for a later
value: `DeletedOrLost` says that nothing else is lost unless a conversion failed or the
request was cut, and that everything not lost is deleted once.

`DoCall` is the lookup, the handler's reading of all
parameters for its log, the handler and the answer in one step: the objects belong
to one agent. `DuplicateParameter` builds both copies and the fixed results,
turns them to tags and deletes them; the copies are the heap once more behind itself,
each object and its items at the same distance. A value is a number: an int itself, a
double in thirds of a millionth, so that its six decimals can differ from it, a string
by its length. Signed overflow is undefined: the result is any of `Junk`.

`answer` is the answer as tags and texts. `ReadText` is what a client makes of them
with this server's own rules for calls: a stack of open elements, whose closing tags
put values together. `AnswerReadsBack` compares what it reads with the parameters
(`GivesBack`), object by object. `OneOwner` says that every object has one place: in
the items of one other object, once, or in `made`, the parameters or `lost`.

### AgentLife and ThreadWin

`ThreadWin` has the constructor in three steps (`CreateThread` suspended, `Store`,
`ResumeThread`), `MyThreadFunction` in three (`CallReturns`, `CloseOwn`, `End`) and
`join` in two. `handles` is the kernel's: the thread an open handle number stands for;
a closed number may be handed out again. `WaitOver` lets a join return when its thread
has ended, and also when the handle was closed under the wait, which Windows leaves
undefined. `AgentLife` is what `DeleteRpcAgent` needs:
an agent is deleted when its thread has left it or was never made. The mapping reads
that off `run` and `joined`.

### WinSock

Each socket operation of the server and of an agent is an action, with its failure
beside it. `started` is Winsock's count; `Cleanup` ends it and with it every socket.
A closed number may be handed out again. A connection is an agent's by `Accept`, or, when
`CreateThread` fails for the agent, by `AcceptWithoutThread`: the join returns at once,
the agent is deleted, and since `~ClientSocket` closes nothing its socket is open until
Winsock goes down (`pc` is `"unstarted"`). `"over"` is the end of a thread whose calls
all succeeded, `"failed"` that of one that ended by a failed call. Between its socket calls an agent does what
`RpcServer` has; here it only knows how many answers it has to send.

### How the modules fit

The composition is by the data that go from one part to the next, not in one state
space: what `HttpHeader` hands over is the text of `XmlParser`, whose `events` are the
input of `MethodBuilder`, whose completed parameters are the trees of `MethodCall`,
and the calls and their outcomes are a request of `RpcServer`. `ParserStates` shares
the agents and the exit with `RpcServer`; `ThreadWin` and `WinSock` stand for the
threads and sockets of `RpcServer` in the Windows build.

## 3. Runs

| Run | Instance | Question |
|---|---|---|
| `server_safety` | 3 symmetric peers, limit 2, 3 descriptors, 5 kinds of request | invariants of objects, descriptors, registry and answers; closing steps; refinement of `RpcService` |
| `server_live` | 2 peers, thread fairness, benign requests | an agent that received something is reaped, every accepted one if the peers act; a stopped server exits |
| `builder_flow` | 5 tags, 8 nodes, 2 calls, texts that convert and texts out of range | ownership of the vector, name and parameters of consecutive calls |
| `builder_tree` | 9 tags, 8 nodes, 2 calls, texts that only a double takes and texts nothing takes | arrays, structs, members and names; deletion of the trees, and what a cut request leaves behind; what follows a failed conversion |
| `builder_root` | 2 nodes | finding 1 below (a violation is expected) |
| `parser_lines` | headers of up to 4 pieces, texts of up to 8 characters | which lines are accepted, and what the builder is told |
| `parser_states` | 2 agents at a time, 4 places in memory, exit at any point | the race in `Instance` |
| `call_trees` | trees of up to 4 objects, up to 3 parameters, ints at the edge of their range, a conversion that fails and a cut anywhere | one owner for each object, what is deleted and what is lost, null pointers, the answer read back |
| `header_cut` | up to 5 lines of eight kinds, cut after any token | the scan against the lines of the text; a part of a request against the whole |
| `thread_join` | 2 agents, 3 handles | deletion of agents, ownership of handles |
| `thread_reuse` | 1 agent, 2 handles | finding 2 (a violation is expected) |
| `winsock_down` | 3 agents with or without a thread, 3 socket numbers, up to 2 answers each | sockets in use and after use; every thread ends once Winsock is down |

Bounds. Two agents at once are the least with interleaved agents, a third peer
reaches the agent limit and meets a reused descriptor; with two descriptors (one
for the listening socket) the second peer has to wait for the first one's number
or makes `accept` fail, which stops the server. Requests are one of each kind
the parse tells apart, the longest with two calls, one of them to an unknown
name: two answers can be swapped, lost or sent twice. Eight nodes hold two
complete calls with one parameter each, or a parameter nested down to a value
inside an array or a member. Nodes are never reused, so `MaxNodes` bounds the
length of a request, and `MaxCalls` the number of calls.

Eight characters hold two tags with a text between them, a line break in any place,
and each way to break a tag off; four header pieces hold an attribute with and
without its quote and a text too much. Two agents in `Instance` are the race, the
fourth place in memory is the object that is lost, and memory that is full only
stops an allocation. Four objects are a member in a struct in an array, a member
with two values, or a parameter beside a nested one; the two ints overflow when they
are added or doubled. A header needs a first line, two fields with the same name and
a blank line; a request with a body a header line, the one with the length, the
blank line, the XML header and a line of calls, which makes five. Three handles let
the number of an agent that is over go to a thread of the other agent or to its own
deleter. With three numbers for a server and three agents, numbers are reused and
run out. The model bounds in the modules are `MaxHeader`, `MaxChars`, `MaxObjects`,
`MaxWidth`, `MaxLines` and `MaxSends`.

Deadlock is not an error in any run: the process ends by exit or abort, and the
input of a builder, a parser or a call ends.

Fairness. `ThreadFairness` is weak fairness of `main`, the server thread, each agent
after its `Recv` returned, and each deleter: the operating system schedules threads,
the handlers of the repository return, and a request fits one `Recv` of 4096 bytes,
so that its answers fit the socket's send buffer and `send` does not block. It does
not include `accept`, a failure of any kind, or `Recv`, which has no timeout: a
silent peer holds its agent for ever, and `server_live` must hold nevertheless.
`PeersAct` is the premise of `AcceptedIsReaped`: each peer eventually sends or hangs
up. The requests that end the process under its agents are left out of this
instance, so that the liveness properties are not satisfied by an early abort.
`FairSpec` of `WinSock` asks less: a thread has to go on only while Winsock is down,
when its calls come back with an error at once. While it is up `accept`, `recv` and
`send` may take for ever.

Each property has a mutant: an operator beside the one it replaces, changed the
way a plausible bug would change the code. All are found.

## 4. Proofs

TLAPS proves the following for every value of the constants that satisfies
`ServerAssumption` and `BuilderAssumption` (which say what the constants are, and
that the markers differ from the values they stand beside), and likewise for
the assumptions of the other modules.

`RpcServerProofs`:

- `TypeCorrect`. `TypeOK` is not inductive: the server thread uses `current`, and
  the agents their request and results. `TypeInv` adds `AgentInHand` (there is an
  agent when the loop body needs one) and `WorkExists` (a parsing agent has a
  request, a call or an answer it goes on to).
- `ServingSafety`, from `MainInv`: `main` has not returned unless the server
  thread is over, and once that thread exists the registrations are complete.
- `AgentsOutliveThreads`, from `LifeInv`: the order of the loop body (`HandOver`)
  and the order of an agent's life (`LifeOrder`), with the join as the link from
  the end of the thread to the deletion.
- `DescriptorsOwned` and `OwnersClose`, from `FdInv`: an open number stands for
  the one peer whose agent holds it, whatever was closed and handed out again.
- `AnswersMatch`, from `AnswerInv`: what was sent and what is still held, put
  together, are the answers to the executed calls, position by position.
- `Implementation`: `Spec => ImplementsService`. `View` reads the connection off
  the agent's position instead of the kernel's table, after which each action maps
  to one action of `RpcService` or to a stutter.

`ProofLemmas`. Texts, trees and answers are data that recursive functions go over. The
library's induction theorems take a predicate, which the provers cannot instantiate; a
set can stand for it. `RankInduction` and `SeqInduction` say that a set with what
induction asks for has everything of a rank, and every sequence. `RankRecursion` is the
existence of a function whose value at a point depends on the values at lower ranks
(`LooksBack`), where the recursion step is a function too; `PassExists`, `PassTyped` and
`PassesAgree` are the same for a function that goes over a sequence. So what
`Without`, `Concat`, `Walk`, `InSubtree`, `ReadText`, `ToXmlTag` and `Owned` compute is
known from their definitions, and induction over a request, a tree or an answer is a
set of the cases that meet the claim.

`MethodBuilderProofs`, first part: `TypeCorrect`, `TreeRules` and `VectorOwned` from one
inductive invariant, `IInv`. `TypeOK` alone does not hold over `CloseParam`,
which appends to a vector that must be there; `StackShape` (a root at the bottom
and nowhere else, a param only on a params) and `VectorInPlace` (a nonempty
stack means the builder has its vector; a methodName at the bottom, that it is
empty) say why it is. `PopKept` and `OpenKept` say what a pop and an allowed
child leave of the tree. `Walk` is opaque here: this holds whatever it returns.

`CallsOwn`, from `CallInv`. A finished call stands on nodes
that are older than every later method (`CallsDone`), so that nothing touches their
texts again. `OpenCall` says what the open method has so far: its vector holds the
param nodes that are closed, in order, and its name is that of the last methodName
that is closed; both are older than the node of their kind on the stack, which is
what makes the next append and the next name the last ones. `PopCalls` is what any
pop keeps of that.

`DeletedOrForgotten`. `SubtreeOf` is `Node::~Node`'s recursion as a function of the nodes
(children are younger than their parents, `Upward`); a set that is closed under taking
children holds all that the deletion of one of its nodes reaches (`ClosedBelow`), and
deleting the bottom node reaches exactly what the method allocated. `DeletedOffStack`
is what the deletions keep: a node is deleted once or is under the bottom of the stack.
`CallsDeleted` adds that the nodes of finished calls are deleted, so that none of them
is in what a cut request leaves.

`StuckStays`. `Walk` comes at each node to one of four outcomes that depend on its type,
its text and its children's outcomes (`Outcome`). A parameter that throws stays on the
stack with nothing below it changed (`ClosedUntouched`), so that it throws at every later
close of a param; `Jammed` is what the stack is from then on.

`XmlParserProofs`: `TypeCorrect`, `ScannerDecides` and `CleanEvents` from `IInv`, which
adds `Scanned`: what the scanner knows of the part of the line behind it (in the
default state, that all brackets so far belong to tags; in a tag, where it began and
that only its name followed). Both directions of `LinesAsInGrammar` rest on it: a
line that is scanned to its end is well formed, and at each throw the line can no
longer become so (`BrokenTag`, `EmptyTag`, `StrayGreater`, `UnfinishedTag`,
`UnfinishedText`). `TellsTheText`, from `TextInv`: the text of the events and what the
scanner holds back (`Pending`: a text not told yet, the tag it is in) is the text of the
parsed lines and of the part of this line behind the scanner, blanks taken out.

`HttpHeaderProofs`: `TypeCorrect` and `LineByLine` from `ScanInv`. `Describes` says what
the header record is after any text: the fields of its complete lines, the first of each
name, and in the buffer, name and value what the unfinished line has so far; it
is kept by one more token of any kind, so the loop keeps it. `CutIsHarmless`, from
`CutInv`: scanning a first part of a text comes to where scanning the whole text came at
that token, or stops before it at the same empty line; the reduced parser executes on a
part of a body what it executes first on the whole (`ParseOfPart`), and nothing when
its header line was cut (`NothingWithoutXml`).

`MethodCallProofs`: `TypeCorrect`, `OwnedByOne`, `AllDeletedOrLost` and `NullsAreMet` from
`IInv`. Items are older than their owner (`Shaped`), so `Owned` is the least set that is
closed below (`OwnedLeast`) and the trees of objects without owners have nothing in
common (`TreesApart`): that is why one deletion for each root deletes each object once.
`Rooted`, while the call is built, says that nothing is forgotten but `lost`, to which
a failed conversion adds what `made` has and a cut what the vector has. An answer
makes two copies of the parameters behind the heap: `ItemOf` and `ItemIsInPart` say which
object holds which in the three parts and the objects around them, and `ResultsSound`
that the heap is then still one of trees, of which the results own exactly what is new.
A null pointer in the parameters is what `Dumps` cannot read, for each tree by
induction (`NullsAreMet`).

`AnswersReadBack`. A claim is a set of pairs of what a client has read and one of its
objects, and stays true as more is read (`Stable`). A text `Gives` claims when, read
inside any open element, it adds to this element's items objects that meet them, and
leaves the rest of the client's stack alone. Texts that do are closed under everything
that `toXmlTag` does: one behind the other, an element around them, a text inside. `Back`
is the claim that an object is what a parameter was, once or doubled; that the tags of its
copy give it goes by induction over the parameter heap (`CopyTells`), and then for the
seven results (`SevenTell`) and the response (`AnswerRead`).

`ParserStatesProofs`: `TypeCorrect`, `LiveStates`, `OneObjectEach` and `Settles` from
`IInv`, which adds `Makers`: an object has a maker, its class has a pointer, and an
agent about to make one has not made one of that class before. The last is why the
race is bounded: whoever made an object finds a pointer that is not null ever after.

`WindowsProofs`, threads: `ThreadTypeCorrect`, `OwnHandles` and `Implementation` from
`ThreadIInv`, which adds `HandleStored` (the Caller has its thread's handle before the
thread runs) and `JoinSafe` (whatever the handle stood for when a join began to wait, the
agent's own thread is what it waits for, or has left the agent). The second is why the
reuse of finding 2 never frees an agent too early. Sockets: `SockTypeCorrect` and
`SocketsOwned` from `SockIInv`, which adds `Labels`: the calls each thread may be at, and that nobody is there before the
start-up.
Any `WSACleanup` takes Winsock down (`CleanupDown`), and then every number is closed,
whoever held it (`DownKept`): a failed call of one thread leaves no socket to another.

Every invariant and every action property of the passing runs is proved, and both
refinements. Model-checked only are the liveness properties (`ReceivedIsReaped`,
`StoppedServerExits`, `AcceptedIsReaped`, `DownEndsAll`): the prover has no rule for
fairness and `ENABLED`.

What the proofs changed in the models: `CopiedValue` of `MethodCall` was a `CASE` with
guards that overlap, which TLC evaluates in order and TLA+ leaves open; it is an `IF`
now. `OneOwner` is an invariant that the deletion needs and no run had stated. The
functions over texts moved to `Texts`, where their lemmas speak of all their users.

## 5. Findings

1. `impl/methodbuilder.cpp:168` (`builder_root`). `CheckHierarchyRules` is to
   "check the hierarchy rules" (`impl/methodbuilder.cpp:160`) with "parent: root"
   for `methodName` and `params` (`:167`). After `</params>` the vector belongs to
   the method and `m_pParameters` is 0, while the method is open until
   `</methodCall>`. A root tag in between, such as a `methodName` that follows
   the parameters, makes the check call `empty()` on the null pointer.
2. `impl/thread_win.cpp:9` (`thread_reuse`). `include/thread.h:102` calls the class
   "std::thread". A thread closes its handle at its end while the thread object keeps
   the number for `join` (`impl/thread_win.cpp:16`). The kernel may have given it to
   another thread by then, even to the deleter that joins, which then waits for
   itself.

Met while modelling, and part of the models as the code has it: an
`Xml_Parse_Error` that nobody catches ends the process with every agent in it; a
failed conversion leaves the rest of the request ignored, without an answer to
the call; a request that ends with nodes on the stack, cut or after a failed conversion,
leaks the tree under the root there, since `~MethodBuilder` (`impl/methodbuilder.cpp:18-24`)
does not look at the stack (`LeftBehind` in `MethodBuilder`); a conversion that throws
inside `Walk` (`impl/methodbuilder.cpp:262-286`) leaks the objects made so far for its
parameter, a request that ends before `</params>` the parameters in the vector, and a
member with two values the first one (`lost` in `MethodCall`); a Windows agent for which
`CreateThread` fails is deleted with its socket open (`AcceptWithoutThread` in `WinSock`); a
failed call of one Windows connection ends Winsock for all, and so does `Close` of the
listening socket at the agent limit (`impl/serversocket_win.cpp:124-129`), while agents
serve (`DownEndsAll` says what follows); a complete header without a usable
`Content-Length` is taken for no header (`impl/rpcagent.cpp:53-54`), put in front of the
body and refused by the parser.

## 6. Not modelled

- The port argument, logging, and the wording of responses and faults.
- `XmlParser::Close`, `HttpHeader::UserAgent`, `Host` and `ContentType`, the stream
  operators of the parameters, `MethodParameter_Struct::Member` and the constructors
  of `MethodReturnValue` for a single double, bool, string or parameter: nothing
  calls them.
- The copy constructor of `MethodReturnValue`, which reads a pointer that is not set
  yet: compilers elide the copies that the program makes.
- A request without an HTTP header whose text has a line `Content-Length: ...` is left
  out of `CutExecutesFirstCalls` (`StartsWithXml`): the scan takes the text for a
  header.
- Memory exhaustion, except where a thread or a descriptor cannot be had.
- The build files have no behaviour of their own.

## 7. Plan

What is left, in this order:

1. A composition of `XmlParser` with `MethodBuilder` in one state space, whose
   completed calls are the requests of `RpcServer`.
2. `RpcServer` over `ThreadWin` and `WinSock`, with `RpcService` as the promise of
   the Windows build.
