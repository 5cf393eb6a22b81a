------------------------------ MODULE RpcServer ------------------------------
(***************************************************************************)
(* The threads of the process and what they share.  main() fills the       *)
(* method registry and starts the server thread; the server thread accepts *)
(* connections and starts, for each, an agent thread and a detached        *)
(* deleter thread; the agent receives one request, executes its calls,     *)
(* answers them and closes its socket; the deleter joins the agent thread  *)
(* and deletes the RpcAgent.  When the server thread returns, main()       *)
(* returns too: its registered objects die, the atexit handler destroys    *)
(* the singletons and the process exits, with the detached threads still   *)
(* running.  The kernel's descriptor table is shared by every thread and   *)
(* hands a closed number out again.                                        *)
(*                                                                         *)
(* A request is abstracted to what its parse does: whether there is a body *)
(* to parse, which method calls it completes, and whether every line is    *)
(* well formed.  The Linux sockets are modelled (serversocket_lin.cpp,     *)
(* clientsocket_lin.cpp).                                                  *)
(***************************************************************************)
EXTENDS Integers, Sequences, FiniteSets

CONSTANTS
  Client,      \* the peers; each one connects at most once
  Fd,          \* the descriptor numbers the process may hold
  AgentLimit,  \* RpcServer::m_iAgentNumberLimit
  Name,        \* method names, in requests and in the registry
  Registered,  \* the names main() registers
  Request,     \* the requests a peer may send
  Listener,    \* marks the descriptor of the listening socket
  Refusal,     \* the "Invalid method call format" page
  NULL

\* complete: a <params> was closed, and no parameter holds a null pointer
Call == [name : Name, complete : BOOLEAN]

\* body: a positive Content-Length (or no usable one) and bytes left to parse.
\* calls: the calls its lines complete; none if the XML header is refused.
\* wellFormed: after those calls no line raises Xml_Parse_Error.
RequestType == [body : BOOLEAN, calls : Seq(Call), wellFormed : BOOLEAN]

Answer == [name : Name, kind : {"value", "fault"}]

NoFd == -1

ASSUME ServerAssumption ==
  /\ Fd \subseteq Nat
  /\ AgentLimit \in Nat
  /\ Registered \subseteq Name
  /\ Request \subseteq RequestType
  /\ NULL \notin Client \cup {Listener}
  /\ Listener \notin Client
  /\ NULL \notin Request
  /\ Refusal \notin Answer

VARIABLES
  process,   \* "running", "exited" (exit after main) or "aborted" (std::terminate, a fatal signal)
  mainPc,    \* where main() is
  registry,  \* ObjServer::m_pSingleton: NULL, or the names it maps
  stale,     \* per agent, the destroyed singletons it still points to
  serverPc,  \* where RpcServer::MainEntry is
  current,   \* its pClient / pAgent
  accepted,  \* its loop counter i
  fdTable,   \* the kernel's table: who a descriptor number stands for
  sock,      \* ClientSocket_priv::m_iSocket, per agent
  object,    \* the RpcAgent: "none", "built", "started" (m_pThread is set), "deleted"
  deleter,   \* where DeleteRpcAgent is, per agent
  agentPc,   \* where RpcAgent::MainEntry is
  request,   \* what its Recv returned
  executed,  \* how many of its calls have been executed
  results,   \* XmlParser::m_vecMethodCallResults
  sent       \* what its Sends handed to the kernel

mainVars == <<mainPc, registry>>
serverVars == <<serverPc, current, accepted>>
kernelVars == <<fdTable, sock>>
lifeVars == <<object, deleter>>
parseVars == <<request, executed, results>>
vars == <<process, mainVars, stale, serverVars, kernelVars, lifeVars,
          agentPc, parseVars, sent>>

-------------------------------------------------------------------------------
(* main() *)

\* The registered objects and their MemberFunctions are locals of main().
LocalsAlive == mainPc \in {"register", "join"}

\* ObjServer::Instance: creates an empty registry when there is none.
Instance(r) == IF r = NULL THEN {} ELSE r

\* ObjServer::Register, called by main() for each of its methods.
Register(n) ==
  /\ mainPc = "register"
  /\ n \notin Instance(registry)
  /\ registry' = Instance(registry) \cup {n}
  /\ UNCHANGED <<process, mainPc, stale, serverVars, kernelVars, lifeVars,
                 agentPc, parseVars, sent>>

\* A main that would start the server thread before the registrations.
StartServer_Early ==
  /\ mainPc = "register"
  /\ serverPc = "none"
  /\ serverPc' = "init"
  /\ mainPc' = "join"
  /\ UNCHANGED <<process, registry, stale, current, accepted, kernelVars,
                 lifeVars, agentPc, parseVars, sent>>

StartServer ==
  /\ mainPc = "register"
  /\ Registered \subseteq Instance(registry)
  /\ serverPc' = "init"
  /\ mainPc' = "join"
  /\ UNCHANGED <<process, registry, stale, current, accepted, kernelVars,
                 lifeVars, agentPc, parseVars, sent>>

ReturnFromMain ==
  /\ mainPc = "join"
  /\ mainPc' = "returned"
  /\ UNCHANGED <<process, registry, stale, serverVars, kernelVars, lifeVars,
                 agentPc, parseVars, sent>>

MainReturn_NoJoin == ReturnFromMain

MainReturn_WaitAll ==
  /\ serverPc = "done"
  /\ \A c \in Client : object[c] \in {"none", "deleted"}
  /\ ReturnFromMain

\* main() joins the server thread only, then returns: its locals are gone.
MainReturn ==
  /\ serverPc = "done"
  /\ ReturnFromMain

Users(pcs) == {c \in Client : agentPc[c] \in pcs}

DestroyObjServer ==
  /\ mainPc = "returned"
  /\ registry' = NULL
  /\ mainPc' = "objServerGone"
  /\ stale' = [c \in Client |->
       IF c \in Users({"DoCall"}) THEN stale[c] \cup {"registry"} ELSE stale[c]]
  /\ UNCHANGED <<process, serverVars, kernelVars, lifeVars, agentPc,
                 parseVars, sent>>

\* The three Destroy() of the parser states.
DestroyParserStates ==
  /\ mainPc = "objServerGone"
  /\ mainPc' = "statesGone"
  /\ stale' = [c \in Client |->
       IF c \in Users({"Parse", "DoCall"}) THEN stale[c] \cup {"state"}
                                            ELSE stale[c]]
  /\ UNCHANGED <<process, registry, serverVars, kernelVars, lifeVars, agentPc,
                 parseVars, sent>>

Exit ==
  /\ mainPc = "statesGone"
  /\ process' = "exited"
  /\ UNCHANGED <<mainVars, stale, serverVars, kernelVars, lifeVars, agentPc,
                 parseVars, sent>>

\* std::terminate (the handler returns, the runtime aborts) or a fatal signal.
Abort ==
  /\ process' = "aborted"
  /\ UNCHANGED <<mainVars, stale, serverVars, kernelVars, lifeVars, agentPc,
                 parseVars, sent>>

-------------------------------------------------------------------------------
(* RpcServer::MainEntry, on the server thread *)

FreeFd == {fd \in Fd : fdTable[fd] = NULL}

\* The kernel gives the lowest free number.
LowestFree(fd) == fd \in FreeFd /\ \A g \in FreeFd : fd <= g

\* close() on a number, whoever it stands for by now.
Released(fd) == [fdTable EXCEPT ![fd] = NULL]

BelowLimit_OffByOne(n) == n <= AgentLimit

BelowLimit(n) == n < AgentLimit

\* ServerSocket::Init: socket(), then setsockopt() and bind().  A failure
\* after socket() leaves the descriptor open.
ServerInit ==
  /\ serverPc = "init"
  /\ \/ serverPc' = "done" /\ UNCHANGED fdTable
     \/ \E fd \in Fd :
          /\ LowestFree(fd)
          /\ fdTable' = [fdTable EXCEPT ![fd] = Listener]
          /\ serverPc' \in {"accept", "done"}
  /\ UNCHANGED <<process, mainVars, stale, current, accepted, sock, lifeVars,
                 agentPc, parseVars, sent>>

\* WaitForConections succeeds: new ClientSocket, new RpcAgent.
Accept(c) ==
  /\ serverPc = "accept"
  /\ BelowLimit(accepted)
  /\ object[c] = "none"
  /\ \E fd \in Fd :
       /\ LowestFree(fd)
       /\ fdTable' = [fdTable EXCEPT ![fd] = c]
       /\ sock' = [sock EXCEPT ![c] = fd]
  /\ object' = [object EXCEPT ![c] = "built"]
  /\ current' = c
  /\ serverPc' = "start"
  /\ UNCHANGED <<process, mainVars, stale, accepted, deleter, agentPc,
                 parseVars, sent>>

\* listen() or accept() fails, at the latest when no descriptor is free:
\* MainEntry returns without Close().
AcceptFails ==
  /\ serverPc = "accept"
  /\ BelowLimit(accepted)
  /\ serverPc' = "done"
  /\ UNCHANGED <<process, mainVars, stale, current, accepted, kernelVars,
                 lifeVars, agentPc, parseVars, sent>>

\* The thread of RpcAgent::Start exists, m_pThread is not assigned yet.
StartAgent ==
  /\ serverPc = "start"
  /\ agentPc' = [agentPc EXCEPT ![current] = "Recv"]
  /\ serverPc' = "assign"
  /\ UNCHANGED <<process, mainVars, stale, current, accepted, kernelVars,
                 lifeVars, parseVars, sent>>

AssignThread ==
  /\ serverPc = "assign"
  /\ object' = [object EXCEPT ![current] = "started"]
  /\ serverPc' = "spawn"
  /\ UNCHANGED <<process, mainVars, stale, current, accepted, kernelVars,
                 deleter, agentPc, parseVars, sent>>

\* A server that would not start the deleter thread.
SpawnDeleter_Forgotten ==
  /\ serverPc = "spawn"
  /\ accepted' = accepted + 1
  /\ serverPc' = "accept"
  /\ UNCHANGED <<process, mainVars, stale, current, kernelVars, lifeVars,
                 agentPc, parseVars, sent>>

SpawnDeleter ==
  /\ serverPc = "spawn"
  /\ deleter' = [deleter EXCEPT ![current] = "join"]
  /\ accepted' = accepted + 1
  /\ serverPc' = "accept"
  /\ UNCHANGED <<process, mainVars, stale, current, kernelVars, object,
                 agentPc, parseVars, sent>>

\* A std::thread constructor throws: nobody catches it.
ThreadFails ==
  /\ serverPc \in {"start", "spawn"}
  /\ Abort

\* The limit is reached: oServer.Close().
ServerClose ==
  /\ serverPc = "accept"
  /\ ~BelowLimit(accepted)
  /\ \E fd \in Fd : fdTable[fd] = Listener /\ fdTable' = Released(fd)
  /\ serverPc' = "done"
  /\ UNCHANGED <<process, mainVars, stale, current, accepted, sock, lifeVars,
                 agentPc, parseVars, sent>>

-------------------------------------------------------------------------------
(* RpcAgent::MainEntry and ReceiveCommand, on the agent threads *)

\* Socket_Error, caught in MainEntry, after the socket was closed: the parser
\* and the results it still holds are gone.
ConnectionLost(c) ==
  /\ fdTable' = Released(sock[c])
  /\ agentPc' = [agentPc EXCEPT ![c] = "Failed"]
  /\ results' = [results EXCEPT ![c] = <<>>]

\* The single Recv of an agent, its HttpHeader, and the XmlParser it builds.
Receive(c) ==
  /\ agentPc[c] = "Recv"
  /\ \E r \in Request :
       /\ request' = [request EXCEPT ![c] = r]
       /\ agentPc' = [agentPc EXCEPT ![c] = IF r.body THEN "Parse" ELSE "Close"]
  /\ UNCHANGED <<process, mainVars, stale, serverVars, kernelVars, lifeVars,
                 executed, results, sent>>

\* A Recv that would close the socket and not throw.
ReceiveFails_NoThrow(c) ==
  /\ agentPc[c] = "Recv"
  /\ fdTable' = Released(sock[c])
  /\ agentPc' = [agentPc EXCEPT ![c] = "Close"]
  /\ UNCHANGED <<process, mainVars, stale, serverVars, sock, lifeVars,
                 parseVars, sent>>

\* recv() returns 0 (the peer is gone) or -1.
ReceiveFails(c) ==
  /\ agentPc[c] = "Recv"
  /\ ConnectionLost(c)
  /\ UNCHANGED <<process, mainVars, stale, serverVars, sock, lifeVars,
                 request, executed, sent>>

Calls(c) == request[c].calls

\* CloseTag completes a call and enters Method::DoCall, which takes the
\* registry from ObjServer::Instance.
BeginCall(c) ==
  /\ agentPc[c] = "Parse"
  /\ executed[c] < Len(Calls(c))
  /\ registry' = Instance(registry)
  /\ agentPc' = [agentPc EXCEPT ![c] = "DoCall"]
  /\ UNCHANGED <<process, mainPc, stale, serverVars, kernelVars, lifeVars,
                 parseVars, sent>>

\* The lookup would use a deleted map, or the handler a dead object.
CallsDestroyed(c) ==
  LET call == Calls(c)[executed[c] + 1]
  IN  \/ "registry" \in stale[c]
      \/ ~LocalsAlive /\ call.name \in registry

\* What ObjServer::Call and the handler come to.  Handlers read all their
\* parameters; Method_Error and its subclasses become a fault.
Outcomes(c) ==
  LET call == Calls(c)[executed[c] + 1]
  IN  IF CallsDestroyed(c) THEN {"value", "fault", "crash"}
      ELSE IF call.name \notin registry THEN {"fault"}
      ELSE IF call.complete THEN {"value", "fault"}
      ELSE {"crash"}

EndCall(c) ==
  /\ agentPc[c] = "DoCall"
  /\ \/ "crash" \in Outcomes(c) /\ Abort
     \/ \E kind \in Outcomes(c) \ {"crash"} :
          /\ results' = [results EXCEPT ![c] =
               Append(@, [name |-> Calls(c)[executed[c] + 1].name,
                          kind |-> kind])]
          /\ executed' = [executed EXCEPT ![c] = @ + 1]
          /\ agentPc' = [agentPc EXCEPT ![c] = "Parse"]
          /\ UNCHANGED <<process, mainVars, stale, serverVars, kernelVars,
                         lifeVars, request, sent>>

\* Read goes through m_pState at every line.
ParseOnDestroyedState(c) ==
  /\ agentPc[c] = "Parse"
  /\ "state" \in stale[c]
  /\ Abort

\* The lines after the last call; Xml_Parse_Error is caught by nobody.
EndParse(c) ==
  /\ agentPc[c] = "Parse"
  /\ executed[c] = Len(Calls(c))
  /\ \/ ~request[c].wellFormed /\ Abort
     \/ /\ request[c].wellFormed
        /\ agentPc' = [agentPc EXCEPT ![c] =
             IF results[c] = <<>> THEN "SendInvalid" ELSE "SendResults"]
        /\ UNCHANGED <<process, mainVars, stale, serverVars, kernelVars,
                       lifeVars, parseVars, sent>>

\* A Send that would leave its socket open.
SendFails_Open(c) ==
  /\ agentPc' = [agentPc EXCEPT ![c] = "Failed"]
  /\ results' = [results EXCEPT ![c] = <<>>]
  /\ UNCHANGED <<process, mainVars, stale, serverVars, kernelVars, lifeVars,
                 request, executed, sent>>

\* send() returns -1 (the peer reset the connection), or raises SIGPIPE, which
\* the program leaves to its default action.
SendFails(c) ==
  \/ /\ ConnectionLost(c)
     /\ UNCHANGED <<process, mainVars, stale, serverVars, sock, lifeVars,
                    request, executed, sent>>
  \/ Abort

SendInvalid(c) ==
  /\ agentPc[c] = "SendInvalid"
  /\ \/ SendFails(c)
     \/ /\ sent' = [sent EXCEPT ![c] = Append(@, Refusal)]
        /\ agentPc' = [agentPc EXCEPT ![c] = "Close"]
        /\ UNCHANGED <<process, mainVars, stale, serverVars, kernelVars,
                       lifeVars, parseVars>>

TakenResult_Last(s) == s[Len(s)]

\* XmlParser::GetMethodCallResult takes the first result out of the vector.
TakenResult(s) == Head(s)

AfterSend_NoLoop(rest) == "Close"

\* The while loop over MethodCallResultsCount.
AfterSend(rest) == IF rest = <<>> THEN "Close" ELSE "SendResults"

SendResults(c) ==
  /\ agentPc[c] = "SendResults"
  /\ \/ SendFails(c)
     \/ /\ sent' = [sent EXCEPT ![c] = Append(@, TakenResult(results[c]))]
        /\ results' = [results EXCEPT ![c] = Tail(@)]
        /\ agentPc' = [agentPc EXCEPT ![c] = AfterSend(Tail(results[c]))]
        /\ UNCHANGED <<process, mainVars, stale, serverVars, kernelVars,
                       lifeVars, request, executed>>

\* ClientSocket::Close, then the return of the thread's function.
Close(c) ==
  /\ agentPc[c] = "Close"
  /\ fdTable' = Released(sock[c])
  /\ agentPc' = [agentPc EXCEPT ![c] = "Ended"]
  /\ UNCHANGED <<process, mainVars, stale, serverVars, sock, lifeVars,
                 parseVars, sent>>

-------------------------------------------------------------------------------
(* DeleteRpcAgent, on the deleter threads *)

Finished == {"Ended", "Failed"}

JoinReturns(c) ==
  /\ deleter[c] = "join"
  /\ deleter' = [deleter EXCEPT ![c] = "delete"]
  /\ UNCHANGED <<process, mainVars, stale, serverVars, kernelVars, object,
                 agentPc, parseVars, sent>>

Join_NoWait(c) == JoinReturns(c)

Join(c) ==
  /\ agentPc[c] \in Finished
  /\ JoinReturns(c)

Delete(c) ==
  /\ deleter[c] = "delete"
  /\ object' = [object EXCEPT ![c] = "deleted"]
  /\ deleter' = [deleter EXCEPT ![c] = "done"]
  /\ UNCHANGED <<process, mainVars, stale, serverVars, kernelVars, agentPc,
                 parseVars, sent>>

-------------------------------------------------------------------------------
Init ==
  /\ process = "running"
  /\ mainPc = "register"
  /\ registry = NULL
  /\ stale = [c \in Client |-> {}]
  /\ serverPc = "none"
  /\ current = NULL
  /\ accepted = 0
  /\ fdTable = [fd \in Fd |-> NULL]
  /\ sock = [c \in Client |-> NoFd]
  /\ object = [c \in Client |-> "none"]
  /\ deleter = [c \in Client |-> "none"]
  /\ agentPc = [c \in Client |-> "none"]
  /\ request = [c \in Client |-> NULL]
  /\ executed = [c \in Client |-> 0]
  /\ results = [c \in Client |-> <<>>]
  /\ sent = [c \in Client |-> <<>>]

MainStep ==
  \/ \E n \in Registered : Register(n)
  \/ StartServer
  \/ MainReturn
  \/ DestroyObjServer
  \/ DestroyParserStates
  \/ Exit

\* What the server thread does on its own: it waits for a peer in Accept, and
\* nothing makes accept() fail.
ServerStep ==
  \/ ServerInit
  \/ StartAgent
  \/ AssignThread
  \/ SpawnDeleter
  \/ ServerClose

\* What an agent thread does once its Recv has returned.
AgentStep(c) ==
  \/ BeginCall(c)
  \/ EndCall(c)
  \/ ParseOnDestroyedState(c)
  \/ EndParse(c)
  \/ SendInvalid(c)
  \/ SendResults(c)
  \/ Close(c)

PeerStep(c) == Receive(c) \/ ReceiveFails(c)

DeleterStep(c) == Join(c) \/ Delete(c)

Running == process = "running"

Next ==
  /\ Running
  /\ \/ MainStep
     \/ ServerStep
     \/ AcceptFails
     \/ ThreadFails
     \/ \E c \in Client :
          \/ Accept(c)
          \/ PeerStep(c)
          \/ AgentStep(c)
          \/ DeleterStep(c)

Spec == Init /\ [][Next]_vars

\* The threads are scheduled.  Handlers return, and a request fits one Recv of
\* 4096 bytes, so that its answers fit the socket's send buffer: neither holds
\* an agent up.  A silent peer does, for good: Recv has no timeout.
ThreadFairness ==
  /\ WF_vars(Running /\ MainStep)
  /\ WF_vars(Running /\ ServerStep)
  /\ \A c \in Client : WF_vars(Running /\ AgentStep(c))
  /\ \A c \in Client : WF_vars(Running /\ DeleterStep(c))

FairSpec == Spec /\ ThreadFairness

\* Every connected peer eventually sends something or hangs up.
PeersAct == \A c \in Client : WF_vars(Running /\ PeerStep(c))

-------------------------------------------------------------------------------
(* Properties *)

\* The variables hold what the code's fields and the threads' positions can.
TypeOK ==
  /\ process \in {"running", "exited", "aborted"}
  /\ mainPc \in {"register", "join", "returned", "objServerGone", "statesGone"}
  /\ registry = NULL \/ registry \in SUBSET Registered
  /\ stale \in [Client -> SUBSET {"registry", "state"}]
  /\ serverPc \in {"none", "init", "accept", "start", "assign", "spawn", "done"}
  /\ current \in Client \cup {NULL}
  /\ accepted \in 0 .. AgentLimit
  /\ fdTable \in [Fd -> Client \cup {Listener, NULL}]
  /\ sock \in [Client -> Fd \cup {NoFd}]
  /\ object \in [Client -> {"none", "built", "started", "deleted"}]
  /\ deleter \in [Client -> {"none", "join", "delete", "done"}]
  /\ agentPc \in [Client -> {"none", "Recv", "Parse", "DoCall", "SendInvalid",
                             "SendResults", "Close"} \cup Finished]
  /\ request \in [Client -> Request \cup {NULL}]
  /\ executed \in [Client -> Nat]
  /\ results \in [Client -> Seq(Answer)]
  /\ sent \in [Client -> Seq(Answer \cup {Refusal})]

\* An RpcAgent is deleted only once the thread that runs its MainEntry is over,
\* and DeleteRpcAgent never joins or deletes a thread pointer that Start has not
\* assigned yet (rpcserver.cpp:13-18, 43-45; rpcagent.cpp:23-32).
AgentOutlivesThread ==
  \A c \in Client :
    /\ object[c] = "deleted" => agentPc[c] \in Finished
    /\ deleter[c] # "none" => object[c] \in {"started", "deleted"}

\* The agent still has to use its socket.
Busy(c) == agentPc[c] \notin {"none"} \cup Finished

\* Nothing leaks a descriptor and nothing uses a closed one: every open number
\* is the listening socket's or that of a connection whose agent is not over,
\* and a busy agent's m_iSocket still stands for its own peer, although close()
\* frees numbers that accept() hands out again.
DescriptorOwnership ==
  /\ \A fd \in Fd : fdTable[fd] \in Client =>
       LET c == fdTable[fd]
       IN  /\ sock[c] = fd
           /\ Busy(c) \/ (serverPc = "start" /\ current = c)
  /\ \A c \in Client : Busy(c) => sock[c] \in Fd /\ fdTable[sock[c]] = c

\* A descriptor is closed by its owner alone, and once: a connection's by the
\* agent that ends in the same step, the listening one by the server thread
\* that returns.
OnlyOwnerCloses ==
  [][\A fd \in Fd : fdTable[fd] # NULL /\ fdTable'[fd] # fdTable[fd] =>
       \/ /\ fdTable[fd] = Listener
          /\ serverPc' = "done"
       \/ /\ fdTable[fd] \in Client
          /\ Busy(fdTable[fd])
          /\ agentPc'[fdTable[fd]] \in Finished]_vars

\* As long as the server thread runs, a call finds the complete registry and
\* live objects: main() neither starts to serve before its registrations nor
\* tears anything down under a serving process (main.cpp:33-72).
ServingIsSafe ==
  \A c \in Client : agentPc[c] = "DoCall" /\ serverPc # "done" =>
    /\ ~CallsDestroyed(c)
    /\ Registered \subseteq registry

\* The answers sent and still held are those of the executed calls, in the order
\* of the calls; an agent that ends in good order has executed and answered all
\* of them, and has refused a request that made none (rpcagent.cpp:60-122).
AnswersMatchCalls ==
  \A c \in Client :
    LET made == sent[c] \o results[c]
    IN  IF executed[c] = 0
        THEN /\ made \in {<<>>, <<Refusal>>}
             /\ agentPc[c] = "Ended" /\ request[c].body => made # <<>>
        ELSE /\ Len(made) <= executed[c]
             /\ \A i \in 1 .. Len(made) : made[i].name = Calls(c)[i].name
             /\ agentPc[c] # "Failed" => Len(made) = executed[c]
             /\ agentPc[c] = "Ended" =>
                  results[c] = <<>> /\ executed[c] = Len(Calls(c))

Connection(c) ==
  IF \E fd \in Fd : fdTable[fd] = c THEN "open"
  ELSE CASE agentPc[c] = "Ended" -> "closed"
         [] agentPc[c] = "Failed" -> "lost"
         [] OTHER -> "idle"

Service == INSTANCE RpcService WITH
  up <- Running,
  conn <- [c \in Client |-> Connection(c)],
  owed <- results,
  answers <- sent

\* Seen from its peers, the process behaves as RpcService says.
ImplementsService == Service!Spec

\* Once its peer has sent or hung up, an agent comes to its end and is deleted,
\* unless the process ends first; it never waits for another connection.
ReceivedIsReaped ==
  \A c \in Client :
    (agentPc[c] \notin {"none", "Recv"}) ~> (object[c] = "deleted" \/ ~Running)

\* When the server thread has returned, the process exits, even though agents
\* may wait in Recv for ever: main() joins the server thread alone.
StoppedServerExits == (serverPc = "done") ~> ~Running

\* When every peer eventually sends or hangs up, every accepted connection is
\* reaped: no agent, thread or descriptor is kept for ever.
AcceptedIsReaped ==
  PeersAct =>
    \A c \in Client : (object[c] = "built") ~> (object[c] = "deleted" \/ ~Running)
===============================================================================
