-------------------------------- MODULE WinSock --------------------------------
(***************************************************************************)
(* The sockets of the Windows build: the listening socket of the server    *)
(* thread and one socket for each agent, over Winsock, which counts its    *)
(* start-ups.  The last WSACleanup closes every socket of the process and  *)
(* makes every later call fail.                                            *)
(***************************************************************************)
EXTENDS Naturals, FiniteSets, WinAgents

CONSTANTS
  Number,      \* values of a SOCKET; a closed one may be handed out again
  AgentLimit,  \* m_iAgentNumberLimit
  MaxSends     \* bound: answers an agent sends

Server == "server"
Owner == Agent \cup {Server}

ASSUME WinSockAssumption ==
  /\ Server \notin Agent /\ NULL \notin Owner /\ NULL \notin Number
  /\ IsFiniteSet(Agent) /\ AgentLimit \in 0 .. Cardinality(Agent)
  /\ MaxSends \in Nat

VARIABLES
  started,  \* Winsock's count of start-ups
  sockets,  \* Winsock's: whose socket a number is
  sock,     \* ListenSocket of the server, m_iSocket of an agent
  pc,       \* the socket call that a thread comes to; behind the last one "over"
            \* or, when it failed, "failed"; "unstarted" for want of a thread
  sends     \* answers still to send, by agent

sockVars == <<started, sockets, sock, pc, sends>>

-------------------------------------------------------------------------------
(* Winsock *)

Startup == started' = started + 1

\* The table after closesocket(sock[o]).
Without(o) ==
  IF started = 0 \/ sock[o] = NULL THEN sockets ELSE [sockets EXCEPT ![sock[o]] = NULL]

\* WSACleanup, the given number of times, with a given table before it.
Cleanup(times, before) ==
  /\ started' = IF started > times THEN started - times ELSE 0
  /\ sockets' = IF started > times THEN before ELSE [n \in Number |-> NULL]

Usable(o) == started > 0 /\ sock[o] # NULL /\ sockets[sock[o]] = o

\* A new socket for o.
Create(o, n) ==
  /\ started > 0
  /\ sockets[n] = NULL
  /\ sockets' = [sockets EXCEPT ![n] = o]
  /\ sock' = [sock EXCEPT ![o] = n]

Goto(o, label) == pc' = [pc EXCEPT ![o] = label]

-------------------------------------------------------------------------------
(* ServerSocket, called by RpcServer::MainEntry *)

InitStartup ==
  /\ pc[Server] = "startup"
  /\ \/ Startup /\ Goto(Server, "getaddrinfo")
     \/ UNCHANGED started /\ Goto(Server, "failed")
  /\ UNCHANGED <<sockets, sock, sends>>

InitResolve ==
  /\ pc[Server] = "getaddrinfo"
  /\ \/ Goto(Server, "socket") /\ UNCHANGED <<started, sockets>>
     \/ Cleanup(1, sockets) /\ Goto(Server, "failed")
  /\ UNCHANGED <<sock, sends>>

InitSocket ==
  /\ pc[Server] = "socket"
  /\ \/ /\ \E n \in Number : Create(Server, n)
        /\ Goto(Server, "bind")
        /\ UNCHANGED started
     \/ /\ Cleanup(1, sockets)
        /\ Goto(Server, "failed")
        /\ UNCHANGED sock
  /\ UNCHANGED sends

InitBind ==
  /\ pc[Server] = "bind"
  /\ \/ Usable(Server) /\ Goto(Server, "loop") /\ UNCHANGED <<started, sockets>>
     \/ Cleanup(2, Without(Server)) /\ Goto(Server, "failed")
  /\ UNCHANGED <<sock, sends>>

Served == {a \in Agent : pc[a] # "none"}

Loop ==
  /\ pc[Server] = "loop"
  /\ Goto(Server, IF Cardinality(Served) < AgentLimit THEN "listen" ELSE "close")
  /\ UNCHANGED <<started, sockets, sock, sends>>

\* listen or accept fails; Close cleans up once, the caller once more.
WaitFails_Retry ==
  /\ pc[Server] \in {"listen", "accept"}
  /\ Cleanup(2, Without(Server))
  /\ Goto(Server, "loop")
  /\ UNCHANGED <<sock, sends>>

WaitFails ==
  /\ pc[Server] \in {"listen", "accept"}
  /\ Cleanup(2, Without(Server))
  /\ Goto(Server, "failed")
  /\ UNCHANGED <<sock, sends>>

Listen ==
  /\ pc[Server] = "listen"
  /\ Usable(Server)
  /\ Goto(Server, "accept")
  /\ UNCHANGED <<started, sockets, sock, sends>>

\* accept returns a connection: it is the next agent's.
Connect(a, n) ==
  /\ pc[Server] = "accept"
  /\ Usable(Server)
  /\ pc[a] = "none"
  /\ Create(a, n)
  /\ UNCHANGED sends

Accept_Startup(a, n) ==
  /\ Connect(a, n)
  /\ Startup
  /\ pc' = [pc EXCEPT ![Server] = "loop", ![a] = "recv"]

Accept(a, n) ==
  /\ Connect(a, n)
  /\ pc' = [pc EXCEPT ![Server] = "loop", ![a] = "recv"]
  /\ UNCHANGED started

\* CreateThread makes no thread for the agent and Start does not look: the join
\* returns at once, and the agent is deleted with its ClientSocket, whose
\* destructor closes nothing.
AcceptWithoutThread(a, n) ==
  /\ Connect(a, n)
  /\ pc' = [pc EXCEPT ![Server] = "loop", ![a] = "unstarted"]
  /\ UNCHANGED started

ServerClose ==
  /\ pc[Server] = "close"
  /\ Cleanup(1, Without(Server))
  /\ Goto(Server, "over")
  /\ UNCHANGED <<sock, sends>>

-------------------------------------------------------------------------------
(* ClientSocket, called by RpcAgent::ReceiveCommand *)

\* The peer chooses how many answers its request asks for.
Recv(a) ==
  /\ pc[a] = "recv"
  /\ Usable(a)
  /\ \E n \in 0 .. MaxSends : sends' = [sends EXCEPT ![a] = n]
  /\ Goto(a, "send")
  /\ UNCHANGED <<started, sockets, sock>>

Send(a) ==
  /\ pc[a] = "send"
  /\ IF sends[a] = 0
     THEN Goto(a, "shutdown") /\ UNCHANGED sends
     ELSE Usable(a) /\ sends' = [sends EXCEPT ![a] = @ - 1] /\ UNCHANGED pc
  /\ UNCHANGED <<started, sockets, sock>>

CallFails_CloseAgain(a) ==
  /\ pc[a] = "recv" \/ (pc[a] = "send" /\ sends[a] > 0)
  /\ sockets' = Without(a)
  /\ Goto(a, "shutdown")
  /\ UNCHANGED <<started, sock, sends>>

\* recv or send fails: the socket is closed and the exception ends the agent.
CallFails(a) ==
  /\ pc[a] = "recv" \/ (pc[a] = "send" /\ sends[a] > 0)
  /\ Cleanup(1, Without(a))
  /\ Goto(a, "failed")
  /\ UNCHANGED <<sock, sends>>

\* shutdown may fail, as when the peer has reset the connection.
Close(a) ==
  /\ pc[a] = "shutdown"
  /\ \/ Usable(a) /\ sockets' = Without(a) /\ UNCHANGED started /\ Goto(a, "over")
     \/ Cleanup(1, Without(a)) /\ Goto(a, "failed")
  /\ UNCHANGED <<sock, sends>>

-------------------------------------------------------------------------------
SockInit ==
  /\ started = 0
  /\ sockets = [n \in Number |-> NULL]
  /\ sock = [o \in Owner |-> NULL]
  /\ pc = [o \in Owner |-> IF o = Server THEN "startup" ELSE "none"]
  /\ sends = [a \in Agent |-> 0]

ServerStep ==
  \/ InitStartup \/ InitResolve \/ InitSocket \/ InitBind
  \/ Loop \/ WaitFails \/ Listen \/ ServerClose
  \/ \E a \in Agent, n \in Number : Accept(a, n) \/ AcceptWithoutThread(a, n)

AgentStep(a) == Recv(a) \/ Send(a) \/ CallFails(a) \/ Close(a)

SockNext == ServerStep \/ \E a \in Agent : AgentStep(a)

SockSpec == SockInit /\ [][SockNext]_sockVars

\* Threads are scheduled, and the calls of a Winsock that is down come back with
\* an error; while it is up, accept and recv may wait for ever.
Down(step) == started = 0 /\ step
FairSpec ==
  /\ SockSpec
  /\ WF_sockVars(Down(ServerStep))
  /\ \A a \in Agent : WF_sockVars(Down(AgentStep(a)))

-------------------------------------------------------------------------------
(* Properties *)

Using == {"bind", "loop", "listen", "accept", "close", "recv", "send", "shutdown"}
Ended == {"over", "failed"}

SockTypeOK ==
  /\ started \in {0, 1}
  /\ sockets \in [Number -> Owner \cup {NULL}]
  /\ sock \in [Owner -> Number \cup {NULL}]
  /\ pc \in [Owner -> {"startup", "getaddrinfo", "socket", "none", "unstarted"}
                       \cup Using \cup Ended]
  /\ sends \in [Agent -> 0 .. MaxSends]
  /\ started = 0 => \A n \in Number : sockets[n] = NULL

\* A thread that is at a socket call finds under its number the socket that it
\* made or was given, or, when a WSACleanup has been called, none: never one that
\* was made later for another connection.  A number is open for a thread that is
\* still at its calls, or for an agent that never got a thread: that one stays
\* open for as long as Winsock is up (clientsocket_win.cpp:39-42,
\* rpcserver.cpp:43-45).  Nothing else stays open: after a failed call of any
\* thread Winsock is down and no socket is left, its own or another's
\* (clientsocket_win.cpp:44-88, serversocket_win.cpp:40-129).
SocketsInUse ==
  /\ \A o \in Owner : pc[o] \in Using =>
       sock[o] # NULL /\ sockets[sock[o]] = IF started > 0 THEN o ELSE NULL
  /\ \A n \in Number : sockets[n] # NULL =>
       /\ sock[sockets[n]] = n
       /\ pc[sockets[n]] \in Using \cup {"unstarted"}
  /\ \A a \in Agent : pc[a] = "unstarted" /\ started > 0 =>
       sock[a] # NULL /\ sockets[sock[a]] = a
  /\ (\E o \in Owner : pc[o] = "failed") => started = 0

\* The first failed call of any connection, or the server's Close at the agent
\* limit, brings Winsock down for all of them (clientsocket_win.cpp:56,
\* serversocket_win.cpp:128); then no thread is left waiting: the server thread
\* returns, which ends the process, and the agents too.
DownEndsAll ==
  /\ (started = 0 /\ pc[Server] # "startup") ~> (pc[Server] \in Ended)
  /\ \A a \in Agent :
       (started = 0 /\ pc[a] \notin {"none", "unstarted"}) ~> (pc[a] \in Ended)
================================================================================
