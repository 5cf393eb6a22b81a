--------------------------- MODULE RpcServerProofs ---------------------------
(***************************************************************************)
(* What holds of RpcServer for every set of peers, descriptors, requests   *)
(* and registered methods, and for every agent limit.  Each invariant is   *)
(* proved with the strengthening that makes it inductive.                  *)
(***************************************************************************)
EXTENDS RpcServer, SequenceTheorems, TLAPS

-------------------------------------------------------------------------------
(* Types *)

\* The server thread has an agent in hand, and its loop condition held.
AgentInHand == serverPc \in {"start", "assign", "spawn"} =>
  /\ current \in Client
  /\ accepted < AgentLimit

\* An agent that parses has a request, the call it executes is one of that
\* request's, and the answer it sends next exists.
WorkExists == \A c \in Client :
  /\ agentPc[c] \in {"Parse", "DoCall"} => request[c] \in Request
  /\ agentPc[c] = "DoCall" => executed[c] < Len(Calls(c))
  /\ agentPc[c] = "SendResults" => results[c] # <<>>

TypeInv == TypeOK /\ AgentInHand /\ WorkExists

LEMMA InitTypes == Init => TypeInv
BY ServerAssumption
DEF Init, TypeInv, TypeOK, AgentInHand, WorkExists, Finished, NoFd

\* The call an agent executes has a name of Name, and its outcome is an answer.
LEMMA CallTypes ==
  ASSUME TypeInv, NEW c \in Client, agentPc[c] = "DoCall"
  PROVE  /\ Calls(c)[executed[c] + 1].name \in Name
         /\ Outcomes(c) \ {"crash"} \subseteq {"value", "fault"}
         /\ request[c] \in RequestType
<1>1. request[c] \in RequestType
  BY ServerAssumption DEF TypeInv, WorkExists
<1>2. Calls(c) \in Seq(Call)
  BY <1>1 DEF Calls, RequestType
<1>3. executed[c] + 1 \in 1 .. Len(Calls(c))
  BY <1>2 DEF TypeInv, TypeOK, WorkExists
<1>4. Calls(c)[executed[c] + 1] \in Call
  BY <1>2, <1>3
<1>5. Outcomes(c) \ {"crash"} \subseteq {"value", "fault"}
  BY DEF Outcomes
<1> QED BY <1>1, <1>4, <1>5 DEF Call

LEMMA TypeStep == TypeInv /\ [Next]_vars => TypeInv'
<1> SUFFICES ASSUME TypeInv, [Next]_vars PROVE TypeInv'
  OBVIOUS
<1> USE ServerAssumption DEF TypeInv, TypeOK, AgentInHand, WorkExists, Finished,
        NoFd, vars, mainVars, serverVars, kernelVars, lifeVars, parseVars, Calls
<1>a. Abort => TypeInv'
  BY DEF Abort
<1>b. ASSUME NEW c \in Client, ConnectionLost(c),
             UNCHANGED <<process, mainVars, stale, serverVars, sock, lifeVars,
                         request, executed, sent>>
      PROVE  TypeInv'
  <2>1. results' \in [Client -> Seq(Answer)]
    BY <1>b, EmptySeq DEF ConnectionLost
  <2> QED BY <1>b, <2>1 DEF ConnectionLost, Released
<1>c. ASSUME NEW c \in Client, SendFails(c) PROVE TypeInv'
  BY <1>a, <1>b, <1>c DEF SendFails
<1>1. ASSUME NEW n \in Registered, Register(n) PROVE TypeInv'
  BY <1>1 DEF Register, Instance
<1>2. CASE StartServer
  BY <1>2 DEF StartServer
<1>3. CASE MainReturn
  BY <1>3 DEF MainReturn, ReturnFromMain
<1>4. CASE DestroyObjServer
  BY <1>4 DEF DestroyObjServer
<1>5. CASE DestroyParserStates
  BY <1>5 DEF DestroyParserStates
<1>6. CASE Exit
  BY <1>6 DEF Exit
<1>7. CASE ServerInit
  BY <1>7 DEF ServerInit, LowestFree, FreeFd
<1>8. CASE StartAgent
  BY <1>8 DEF StartAgent
<1>9. CASE AssignThread
  BY <1>9 DEF AssignThread
<1>10. CASE SpawnDeleter
  BY <1>10 DEF SpawnDeleter
<1>11. CASE ServerClose
  BY <1>11 DEF ServerClose, Released
<1>12. CASE AcceptFails
  BY <1>12 DEF AcceptFails
<1>13. CASE ThreadFails
  BY <1>a, <1>13 DEF ThreadFails
<1>14. ASSUME NEW c \in Client, Accept(c) PROVE TypeInv'
  BY <1>14 DEF Accept, BelowLimit, LowestFree, FreeFd
<1>15. ASSUME NEW c \in Client, Receive(c) PROVE TypeInv'
  BY <1>15 DEF Receive
<1>16. ASSUME NEW c \in Client, ReceiveFails(c) PROVE TypeInv'
  BY <1>b, <1>16 DEF ReceiveFails
<1>17. ASSUME NEW c \in Client, BeginCall(c) PROVE TypeInv'
  BY <1>17 DEF BeginCall, Instance
<1>18. ASSUME NEW c \in Client, EndCall(c) PROVE TypeInv'
  <2>1. CASE Abort
    BY <1>a, <2>1
  <2>2. ASSUME NEW kind \in Outcomes(c) \ {"crash"},
               results' = [results EXCEPT ![c] =
                 Append(@, [name |-> Calls(c)[executed[c] + 1].name,
                            kind |-> kind])],
               executed' = [executed EXCEPT ![c] = @ + 1],
               agentPc' = [agentPc EXCEPT ![c] = "Parse"],
               UNCHANGED <<process, mainVars, stale, serverVars, kernelVars,
                           lifeVars, request, sent>>
        PROVE  TypeInv'
    <3>0. agentPc[c] = "DoCall"
      BY <1>18 DEF EndCall
    <3>1. [name |-> Calls(c)[executed[c] + 1].name, kind |-> kind] \in Answer
      BY <1>18, <2>2, <3>0, CallTypes DEF Answer
    <3>2. results' \in [Client -> Seq(Answer)]
      BY <2>2, <3>1
    <3>3. executed' \in [Client -> Nat]
      BY <2>2
    <3> QED BY <2>2, <3>0, <3>2, <3>3
  <2> QED BY <1>18, <2>1, <2>2 DEF EndCall
<1>19. ASSUME NEW c \in Client, ParseOnDestroyedState(c) PROVE TypeInv'
  BY <1>a, <1>19 DEF ParseOnDestroyedState
<1>20. ASSUME NEW c \in Client, EndParse(c) PROVE TypeInv'
  <2>1. CASE Abort
    BY <1>a, <2>1
  <2>2. CASE /\ agentPc' = [agentPc EXCEPT ![c] =
                  IF results[c] = <<>> THEN "SendInvalid" ELSE "SendResults"]
             /\ UNCHANGED <<process, mainVars, stale, serverVars, kernelVars,
                            lifeVars, parseVars, sent>>
    BY <2>2
  <2> QED BY <1>20, <2>1, <2>2 DEF EndParse
<1>21. ASSUME NEW c \in Client, SendInvalid(c) PROVE TypeInv'
  <2>1. CASE SendFails(c)
    BY <1>c, <2>1
  <2>2. CASE /\ sent' = [sent EXCEPT ![c] = Append(@, Refusal)]
             /\ agentPc' = [agentPc EXCEPT ![c] = "Close"]
             /\ UNCHANGED <<process, mainVars, stale, serverVars, kernelVars,
                            lifeVars, parseVars>>
    <3>1. sent' \in [Client -> Seq(Answer \cup {Refusal})]
      BY <2>2
    <3> QED BY <2>2, <3>1
  <2> QED BY <1>21, <2>1, <2>2 DEF SendInvalid
<1>22. ASSUME NEW c \in Client, SendResults(c) PROVE TypeInv'
  <2>1. CASE SendFails(c)
    BY <1>c, <2>1
  <2>2. CASE /\ sent' = [sent EXCEPT ![c] =
                  Append(@, TakenResult(results[c]))]
             /\ results' = [results EXCEPT ![c] = Tail(@)]
             /\ agentPc' = [agentPc EXCEPT ![c] = AfterSend(Tail(results[c]))]
             /\ UNCHANGED <<process, mainVars, stale, serverVars, kernelVars,
                            lifeVars, request, executed>>
    <3>1. /\ results[c] \in Seq(Answer)
          /\ results[c] # <<>>
      BY <1>22 DEF SendResults
    <3>2. Head(results[c]) \in Answer /\ Tail(results[c]) \in Seq(Answer)
      BY <3>1
    <3>3. sent' \in [Client -> Seq(Answer \cup {Refusal})]
      BY <2>2, <3>2 DEF TakenResult
    <3>4. results' \in [Client -> Seq(Answer)]
      BY <2>2, <3>2
    <3> QED BY <2>2, <3>2, <3>3, <3>4 DEF AfterSend
  <2> QED BY <1>22, <2>1, <2>2 DEF SendResults
<1>23. ASSUME NEW c \in Client, Close(c) PROVE TypeInv'
  BY <1>23 DEF Close, Released
<1>24. ASSUME NEW c \in Client, Join(c) PROVE TypeInv'
  BY <1>24 DEF Join, JoinReturns
<1>25. ASSUME NEW c \in Client, Delete(c) PROVE TypeInv'
  BY <1>25 DEF Delete
<1>26. CASE UNCHANGED vars
  BY <1>26
<1> QED
  BY <1>1, <1>2, <1>3, <1>4, <1>5, <1>6, <1>7, <1>8, <1>9, <1>10, <1>11,
     <1>12, <1>13, <1>14, <1>15, <1>16, <1>17, <1>18, <1>19, <1>20, <1>21,
     <1>22, <1>23, <1>24, <1>25, <1>26
  DEF Next, MainStep, ServerStep, PeerStep, AgentStep, DeleterStep

\* Every variable keeps its type, whatever the peers send and however the
\* threads interleave.
THEOREM TypeCorrect == Spec => []TypeOK
<1>1. TypeInv => TypeOK
  BY DEF TypeInv
<1> QED BY <1>1, InitTypes, TypeStep, PTL DEF Spec

-------------------------------------------------------------------------------
(* main() and the server thread *)

MainInv ==
  /\ mainPc = "register" <=> serverPc = "none"
  /\ serverPc \in {"none", "init"} => \A c \in Client : agentPc[c] = "none"
  /\ mainPc \notin {"register", "join"} => serverPc = "done"
  /\ serverPc # "done" => \A c \in Client : stale[c] = {}
  /\ mainPc = "join" => Registered \subseteq Instance(registry)
  /\ serverPc # "done" => \A c \in Client :
       agentPc[c] = "DoCall" => Registered \subseteq registry

LEMMA InitMain == Init => MainInv
BY DEF Init, MainInv

LEMMA MainStepInv == TypeOK /\ MainInv /\ [Next]_vars => MainInv'
<1> SUFFICES ASSUME TypeOK, MainInv, [Next]_vars PROVE MainInv'
  OBVIOUS
<1> USE DEF TypeOK, MainInv, mainVars, serverVars, Instance
<1>a. ASSUME UNCHANGED <<mainVars, serverPc, agentPc, stale>> PROVE MainInv'
  BY <1>a
\* An agent thread goes on, or ends, without a new call.
<1>b. ASSUME NEW c \in Client, NEW pc, agentPc[c] # "none", pc # "DoCall",
             agentPc' = [agentPc EXCEPT ![c] = pc],
             UNCHANGED <<mainVars, serverPc, stale>>
      PROVE  MainInv'
  BY <1>b
<1>1. ASSUME NEW n \in Registered, Register(n) PROVE MainInv'
  BY <1>1 DEF Register
<1>2. CASE StartServer
  BY <1>2 DEF StartServer
<1>3. CASE MainReturn
  BY <1>3 DEF MainReturn, ReturnFromMain
<1>4. CASE DestroyObjServer
  BY <1>4 DEF DestroyObjServer
<1>5. CASE DestroyParserStates
  BY <1>5 DEF DestroyParserStates
<1>6. CASE Exit \/ Abort
  BY <1>a, <1>6 DEF Exit, Abort
<1>7. CASE ServerInit
  BY <1>7 DEF ServerInit
<1>8. CASE StartAgent
  BY <1>8 DEF StartAgent
<1>9. CASE AssignThread
  BY <1>9 DEF AssignThread
<1>10. CASE SpawnDeleter
  BY <1>10 DEF SpawnDeleter
<1>11. CASE ServerClose \/ AcceptFails
  BY <1>11 DEF ServerClose, AcceptFails
<1>12. ASSUME NEW c \in Client, Accept(c) PROVE MainInv'
  BY <1>12 DEF Accept
<1>13. ASSUME NEW c \in Client, Receive(c) PROVE MainInv'
  BY <1>b, <1>13 DEF Receive
<1>14. ASSUME NEW c \in Client, ReceiveFails(c) PROVE MainInv'
  BY <1>b, <1>14 DEF ReceiveFails, ConnectionLost
<1>15. ASSUME NEW c \in Client, BeginCall(c) PROVE MainInv'
  BY <1>15 DEF BeginCall
<1>16. ASSUME NEW c \in Client, EndCall(c) PROVE MainInv'
  BY <1>b, <1>6, <1>16 DEF EndCall
<1>17. ASSUME NEW c \in Client, EndParse(c) PROVE MainInv'
  BY <1>b, <1>6, <1>17 DEF EndParse
<1>18. ASSUME NEW c \in Client, SendFails(c), agentPc[c] # "none" PROVE MainInv'
  BY <1>b, <1>6, <1>18 DEF SendFails, ConnectionLost
<1>19. ASSUME NEW c \in Client, SendInvalid(c) PROVE MainInv'
  BY <1>b, <1>18, <1>19 DEF SendInvalid
<1>20. ASSUME NEW c \in Client, SendResults(c) PROVE MainInv'
  BY <1>b, <1>18, <1>20 DEF SendResults, AfterSend
<1>21. ASSUME NEW c \in Client, Close(c) PROVE MainInv'
  BY <1>b, <1>21 DEF Close
<1>22. ASSUME NEW c \in Client, Join(c) \/ Delete(c) PROVE MainInv'
  BY <1>a, <1>22 DEF Join, JoinReturns, Delete
<1>23. CASE UNCHANGED vars
  BY <1>a, <1>23 DEF vars
<1> QED
  BY <1>1, <1>2, <1>3, <1>4, <1>5, <1>6, <1>7, <1>8, <1>9, <1>10, <1>11,
     <1>12, <1>13, <1>14, <1>15, <1>16, <1>17, <1>19, <1>20, <1>21, <1>22,
     <1>23
  DEF Next, MainStep, ServerStep, PeerStep, AgentStep, DeleterStep,
      ThreadFails, ParseOnDestroyedState

\* While the server thread runs, every call finds all of main()'s registrations
\* and live objects: what main() does before it starts that thread and after it
\* has joined it never meets a call.
THEOREM ServingSafety == Spec => []ServingIsSafe
<1>1. MainInv => ServingIsSafe
  <2> SUFFICES ASSUME MainInv, NEW c \in Client,
                      agentPc[c] = "DoCall", serverPc # "done"
               PROVE  ~CallsDestroyed(c) /\ Registered \subseteq registry
    BY DEF ServingIsSafe
  <2>1. mainPc = "join" /\ stale[c] = {}
    BY DEF MainInv
  <2> QED BY <2>1 DEF MainInv, CallsDestroyed, LocalsAlive
<1> QED BY <1>1, InitMain, MainStepInv, TypeCorrect, PTL DEF Spec

-------------------------------------------------------------------------------
(* The life of an RpcAgent: Start, the agent thread, Join, delete *)

\* The server thread has constructed c's agent and not yet started its thread.
Starting(c) == serverPc = "start" /\ current = c

\* Where the server thread stands with the agent it has in hand.
HandOver == AgentInHand /\
  /\ serverPc \in {"start", "assign"} => object[current] = "built"
  /\ serverPc = "start" => agentPc[current] = "none"
  /\ serverPc = "assign" => agentPc[current] # "none"
  /\ serverPc = "spawn" => object[current] = "started"
  /\ serverPc \in {"start", "assign", "spawn"} => deleter[current] = "none"

\* Which positions of the agent thread, the deleter thread and the object go
\* together.
LifeOrder == \A c \in Client :
  /\ object[c] = "none" => agentPc[c] = "none" /\ deleter[c] = "none"
  /\ object[c] = "deleted" => deleter[c] = "done"
  /\ object[c] # "none" => agentPc[c] # "none" \/ Starting(c)
  /\ deleter[c] # "none" => object[c] \in {"started", "deleted"}
  /\ deleter[c] \in {"delete", "done"} => agentPc[c] \in Finished

LifeInv == HandOver /\ LifeOrder

LEMMA InitLife == Init => LifeInv
BY ServerAssumption DEF Init, LifeInv, HandOver, LifeOrder, AgentInHand

LEMMA LifeStep == TypeOK /\ MainInv /\ LifeInv /\ [Next]_vars => LifeInv'
<1> SUFFICES ASSUME TypeOK, MainInv, LifeInv, [Next]_vars PROVE LifeInv'
  OBVIOUS
<1> DEFINE lives == <<serverVars, object, deleter, agentPc>>
<1> USE DEF TypeOK, LifeInv, HandOver, LifeOrder, AgentInHand, Starting,
        Finished, serverVars, lifeVars
<1>a. ASSUME UNCHANGED lives PROVE LifeInv'
  BY <1>a
\* An agent thread goes on, or ends.
<1>b. ASSUME NEW c \in Client, NEW pc,
             agentPc[c] \notin Finished \cup {"none"}, pc # "none",
             agentPc' = [agentPc EXCEPT ![c] = pc],
             UNCHANGED <<serverVars, lifeVars>>
      PROVE  LifeInv'
  BY <1>b
<1>1. ASSUME NEW n \in Registered, Register(n) PROVE LifeInv'
  BY <1>a, <1>1 DEF Register
<1>2. CASE StartServer
  BY <1>2 DEF StartServer, MainInv
<1>3. CASE MainReturn
  BY <1>a, <1>3 DEF MainReturn, ReturnFromMain
<1>4. CASE DestroyObjServer
  BY <1>a, <1>4 DEF DestroyObjServer
<1>5. CASE DestroyParserStates
  BY <1>a, <1>5 DEF DestroyParserStates
<1>6. CASE Exit \/ Abort
  BY <1>a, <1>6 DEF Exit, Abort
<1>7. CASE ServerInit
  BY <1>7 DEF ServerInit
<1>8. CASE StartAgent
  BY <1>8 DEF StartAgent
<1>9. CASE AssignThread
  BY <1>9 DEF AssignThread
<1>10. CASE SpawnDeleter
  BY <1>10 DEF SpawnDeleter
<1>11. CASE ServerClose
  BY <1>11 DEF ServerClose
<1>12. CASE AcceptFails
  BY <1>12 DEF AcceptFails
<1>13. ASSUME NEW c \in Client, Accept(c) PROVE LifeInv'
  BY <1>13, ServerAssumption DEF Accept, BelowLimit
<1>14. ASSUME NEW c \in Client, Receive(c) PROVE LifeInv'
  BY <1>b, <1>14 DEF Receive
<1>15. ASSUME NEW c \in Client, ReceiveFails(c) PROVE LifeInv'
  BY <1>b, <1>15 DEF ReceiveFails, ConnectionLost
<1>16. ASSUME NEW c \in Client, BeginCall(c) PROVE LifeInv'
  BY <1>b, <1>16 DEF BeginCall
<1>17. ASSUME NEW c \in Client, EndCall(c) PROVE LifeInv'
  BY <1>b, <1>6, <1>17 DEF EndCall
<1>18. ASSUME NEW c \in Client, EndParse(c) PROVE LifeInv'
  BY <1>b, <1>6, <1>18 DEF EndParse
<1>19. ASSUME NEW c \in Client, SendFails(c), agentPc[c] \notin Finished \cup {"none"}
       PROVE  LifeInv'
  BY <1>b, <1>6, <1>19 DEF SendFails, ConnectionLost
<1>20. ASSUME NEW c \in Client, SendInvalid(c) PROVE LifeInv'
  BY <1>b, <1>19, <1>20 DEF SendInvalid
<1>21. ASSUME NEW c \in Client, SendResults(c) PROVE LifeInv'
  BY <1>b, <1>19, <1>21 DEF SendResults, AfterSend
<1>22. ASSUME NEW c \in Client, Close(c) PROVE LifeInv'
  BY <1>b, <1>22 DEF Close
<1>23. ASSUME NEW c \in Client, Join(c) PROVE LifeInv'
  BY <1>23 DEF Join, JoinReturns
<1>24. ASSUME NEW c \in Client, Delete(c) PROVE LifeInv'
  BY <1>24 DEF Delete
<1>25. CASE UNCHANGED vars
  BY <1>a, <1>25 DEF vars
<1> QED
  BY <1>1, <1>2, <1>3, <1>4, <1>5, <1>6, <1>7, <1>8, <1>9, <1>10, <1>11,
     <1>12, <1>13, <1>14, <1>15, <1>16, <1>17, <1>18, <1>20, <1>21,
     <1>22, <1>23, <1>24, <1>25
  DEF Next, MainStep, ServerStep, PeerStep, AgentStep, DeleterStep,
      ThreadFails, ParseOnDestroyedState

\* No RpcAgent is deleted under its own thread, and no deleter uses a thread
\* pointer that Start has not assigned: the join of DeleteRpcAgent and the
\* order of MainEntry's loop body are enough, for any number of agents.
THEOREM AgentsOutliveThreads == Spec => []AgentOutlivesThread
<1>1. LifeInv => AgentOutlivesThread
  BY DEF LifeInv, LifeOrder, AgentOutlivesThread
<1> QED BY <1>1, InitLife, LifeStep, InitMain, MainStepInv, TypeCorrect, PTL DEF Spec

-------------------------------------------------------------------------------
(* Descriptors *)

\* The agent's number is open: its thread needs it, or soon will.
Holds(c) == Busy(c) \/ Starting(c)

FdInv ==
  /\ \A fd \in Fd : fdTable[fd] \in Client =>
       sock[fdTable[fd]] = fd /\ Holds(fdTable[fd])
  /\ \A c \in Client : Holds(c) => sock[c] \in Fd /\ fdTable[sock[c]] = c

LEMMA InitFd == Init => FdInv
BY ServerAssumption DEF Init, FdInv, Holds, Busy, Starting

LEMMA FdStep == TypeOK /\ MainInv /\ LifeInv /\ FdInv /\ [Next]_vars => FdInv'
<1> SUFFICES ASSUME TypeOK, MainInv, LifeInv, FdInv, [Next]_vars PROVE FdInv'
  OBVIOUS
<1> USE DEF TypeOK, FdInv, Holds, Busy, Starting, serverVars, kernelVars,
        Finished
<1>a. ASSUME UNCHANGED <<kernelVars, serverPc, current, agentPc>> PROVE FdInv'
  BY <1>a
\* An agent thread goes on.
<1>b. ASSUME NEW c \in Client, NEW pc,
             Busy(c), pc \notin Finished \cup {"none"},
             agentPc' = [agentPc EXCEPT ![c] = pc],
             UNCHANGED <<kernelVars, serverPc, current>>
      PROVE  FdInv'
  BY <1>b
\* An agent thread closes its socket and ends.
<1>c. ASSUME NEW c \in Client, NEW pc,
             Busy(c), pc \in Finished,
             agentPc' = [agentPc EXCEPT ![c] = pc],
             fdTable' = Released(sock[c]),
             UNCHANGED <<sock, serverPc, current>>
      PROVE  FdInv'
  <2>1. sock[c] \in Fd /\ fdTable[sock[c]] = c
    BY <1>c
  <2>2. ~Starting(c)
    BY <1>c DEF LifeInv, HandOver, LifeOrder
  <2> QED BY <1>c, <2>1, <2>2, ServerAssumption DEF Released
\* The server thread is between two agents, before or after.
<1>d. ASSUME UNCHANGED <<kernelVars, agentPc>>, serverPc # "start", serverPc' # "start"
      PROVE  FdInv'
  BY <1>d
<1>1. ASSUME NEW n \in Registered, Register(n) PROVE FdInv'
  BY <1>a, <1>1 DEF Register
<1>2. CASE StartServer
  BY <1>d, <1>2 DEF StartServer, MainInv
<1>3. CASE MainReturn \/ DestroyObjServer \/ DestroyParserStates \/ Exit \/ Abort
  BY <1>a, <1>3 DEF MainReturn, ReturnFromMain, DestroyObjServer,
                    DestroyParserStates, Exit, Abort
<1>4. CASE ServerInit
  <2>1. ASSUME NEW fd \in Fd, fdTable[fd] = NULL,
               fdTable' = [fdTable EXCEPT ![fd] = Listener]
        PROVE  \A g \in Fd : fdTable'[g] \in Client => fdTable'[g] = fdTable[g]
    BY <2>1, ServerAssumption
  <2>2. \A c \in Client : agentPc[c] = "none" /\ ~Starting(c) /\ ~Holds(c)
    BY <1>4 DEF ServerInit, MainInv
  <2>3. \A g \in Fd : fdTable'[g] \notin Client
    BY <1>4, <2>1, <2>2 DEF ServerInit, LowestFree, FreeFd
  <2>4. \A c \in Client : ~Holds(c)'
    BY <1>4, <2>2 DEF ServerInit
  <2> QED BY <2>3, <2>4
<1>5. CASE StartAgent
  BY <1>5 DEF StartAgent, LifeInv, HandOver, AgentInHand
<1>6. CASE AssignThread \/ SpawnDeleter \/ AcceptFails
  BY <1>d, <1>6 DEF AssignThread, SpawnDeleter, AcceptFails
<1>7. CASE ServerClose
  BY <1>7, ServerAssumption DEF ServerClose, Released
<1>8. ASSUME NEW c \in Client, Accept(c) PROVE FdInv'
  <2>1. PICK fd \in Fd : /\ LowestFree(fd)
                         /\ fdTable' = [fdTable EXCEPT ![fd] = c]
                         /\ sock' = [sock EXCEPT ![c] = fd]
    BY <1>8 DEF Accept
  <2>2. agentPc[c] = "none" /\ agentPc' = agentPc /\ ~Starting(c)
    BY <1>8 DEF Accept, LifeInv, LifeOrder
  <2>3. fdTable[fd] = NULL
    BY <2>1 DEF LowestFree, FreeFd
  <2>4. \A d \in Client : Holds(d)' => Holds(d) \/ d = c
    BY <1>8, <2>2 DEF Accept
  <2>5. Holds(c)'
    BY <1>8 DEF Accept
  <2> QED BY <1>8, <2>1, <2>2, <2>3, <2>4, <2>5, ServerAssumption DEF Accept
<1>9. ASSUME NEW c \in Client, Receive(c) PROVE FdInv'
  BY <1>b, <1>9 DEF Receive
<1>10. ASSUME NEW c \in Client, ReceiveFails(c) PROVE FdInv'
  BY <1>c, <1>10 DEF ReceiveFails, ConnectionLost
<1>11. ASSUME NEW c \in Client, BeginCall(c) PROVE FdInv'
  BY <1>b, <1>11 DEF BeginCall
<1>12. ASSUME NEW c \in Client, EndCall(c) PROVE FdInv'
  BY <1>b, <1>3, <1>12 DEF EndCall
<1>13. ASSUME NEW c \in Client, EndParse(c) PROVE FdInv'
  BY <1>b, <1>3, <1>13 DEF EndParse
<1>14. ASSUME NEW c \in Client, SendFails(c), Busy(c) PROVE FdInv'
  BY <1>c, <1>3, <1>14 DEF SendFails, ConnectionLost
<1>15. ASSUME NEW c \in Client, SendInvalid(c) PROVE FdInv'
  BY <1>b, <1>14, <1>15 DEF SendInvalid
<1>16. ASSUME NEW c \in Client, SendResults(c) PROVE FdInv'
  BY <1>b, <1>14, <1>16 DEF SendResults, AfterSend
<1>17. ASSUME NEW c \in Client, Close(c) PROVE FdInv'
  BY <1>c, <1>17 DEF Close
<1>18. ASSUME NEW c \in Client, Join(c) \/ Delete(c) PROVE FdInv'
  BY <1>a, <1>18 DEF Join, JoinReturns, Delete
<1>19. CASE UNCHANGED vars
  BY <1>a, <1>19 DEF vars
<1> QED
  BY <1>1, <1>2, <1>3, <1>4, <1>5, <1>6, <1>7, <1>8, <1>9, <1>10, <1>11,
     <1>12, <1>13, <1>15, <1>16, <1>17, <1>18, <1>19
  DEF Next, MainStep, ServerStep, PeerStep, AgentStep, DeleterStep,
      ThreadFails, ParseOnDestroyedState

\* No descriptor leaks and none is used after it was closed, although the kernel
\* reuses the numbers at once.
THEOREM DescriptorsOwned == Spec => []DescriptorOwnership
<1>1. FdInv => DescriptorOwnership
  BY DEF FdInv, DescriptorOwnership, Holds, Starting
<1> QED
  BY <1>1, InitFd, FdStep, InitLife, LifeStep, InitMain, MainStepInv,
     TypeCorrect, PTL DEF Spec

\* An agent that ends frees its own number and no other step frees one but the
\* server thread's own.
THEOREM OwnersClose == Spec => OnlyOwnerCloses
<1> DEFINE Closes == \A fd \in Fd : fdTable[fd] # NULL /\ fdTable'[fd] # fdTable[fd] =>
               \/ /\ fdTable[fd] = Listener
                  /\ serverPc' = "done"
               \/ /\ fdTable[fd] \in Client
                  /\ Busy(fdTable[fd])
                  /\ agentPc'[fdTable[fd]] \in Finished
<1>1. TypeOK /\ FdInv /\ [Next]_vars => [Closes]_vars
  <2> SUFFICES ASSUME TypeOK, FdInv, Next PROVE Closes
    OBVIOUS
  <2> USE DEF kernelVars
  <2>a. ASSUME UNCHANGED fdTable PROVE Closes
    BY <2>a
  <2>b. ASSUME NEW c \in Client, NEW pc \in Finished, Busy(c),
               agentPc' = [agentPc EXCEPT ![c] = pc],
               fdTable' = Released(sock[c])
        PROVE  Closes
    <3>1. sock[c] \in Fd /\ fdTable[sock[c]] = c
      BY <2>b DEF FdInv, Holds
    <3> QED BY <2>b, <3>1 DEF Released, TypeOK
  <2>1. CASE MainStep
    BY <2>a, <2>1 DEF MainStep, Register, StartServer, MainReturn,
       ReturnFromMain, DestroyObjServer, DestroyParserStates, Exit
  <2>2. CASE ServerInit
    BY <2>2 DEF ServerInit, LowestFree, FreeFd, TypeOK
  <2>3. CASE ServerClose
    BY <2>3 DEF ServerClose, Released, TypeOK
  <2>4. CASE StartAgent \/ AssignThread \/ SpawnDeleter \/ AcceptFails \/ ThreadFails
    BY <2>a, <2>4 DEF StartAgent, AssignThread, SpawnDeleter, AcceptFails,
       ThreadFails, Abort
  <2>5. ASSUME NEW c \in Client, Accept(c) PROVE Closes
    BY <2>5 DEF Accept, LowestFree, FreeFd, TypeOK
  <2>6. ASSUME NEW c \in Client, ReceiveFails(c) PROVE Closes
    BY <2>b, <2>6 DEF ReceiveFails, ConnectionLost, Busy, Finished
  <2>7. ASSUME NEW c \in Client,
               \/ Receive(c) \/ BeginCall(c) \/ EndCall(c) \/ EndParse(c)
               \/ ParseOnDestroyedState(c)
        PROVE  Closes
    BY <2>a, <2>7 DEF Receive, BeginCall, EndCall, EndParse,
       ParseOnDestroyedState, Abort
  <2>8. ASSUME NEW c \in Client, SendInvalid(c) \/ SendResults(c) PROVE Closes
    <3>1. Busy(c)
      BY <2>8 DEF SendInvalid, SendResults, Busy, Finished
    <3> QED BY <2>a, <2>b, <2>8, <3>1 DEF SendInvalid, SendResults, SendFails,
               ConnectionLost, Abort, Finished
  <2>9. ASSUME NEW c \in Client, Close(c) PROVE Closes
    BY <2>b, <2>9 DEF Close, Busy, Finished
  <2>10. ASSUME NEW c \in Client, DeleterStep(c) PROVE Closes
    BY <2>a, <2>10 DEF DeleterStep, Join, JoinReturns, Delete
  <2> QED
    BY <2>1, <2>2, <2>3, <2>4, <2>5, <2>6, <2>7, <2>8, <2>9, <2>10
    DEF Next, ServerStep, PeerStep, AgentStep
<1> QED
  BY <1>1, InitFd, FdStep, InitLife, LifeStep, InitMain, MainStepInv,
     TypeCorrect, PTL DEF Spec, OnlyOwnerCloses

-------------------------------------------------------------------------------
(* Answers *)

\* What an agent has executed, holds and has sent, at each of its positions.
AnswersOf(c) ==
  /\ executed[c] = 0 => sent[c] \in {<<>>, <<Refusal>>} /\ results[c] = <<>>
  /\ executed[c] # 0 =>
       /\ Len(sent[c]) + Len(results[c]) <= executed[c]
       /\ agentPc[c] # "Failed" => Len(sent[c]) + Len(results[c]) = executed[c]
       /\ \A i \in 1 .. Len(sent[c]) : sent[c][i].name = Calls(c)[i].name
       /\ \A i \in 1 .. Len(results[c]) :
            results[c][i].name = Calls(c)[Len(sent[c]) + i].name
  /\ agentPc[c] \in {"none", "Recv", "SendInvalid"} => executed[c] = 0
  /\ agentPc[c] \in {"none", "Recv", "Parse", "DoCall", "SendInvalid"} =>
       sent[c] = <<>>
  /\ agentPc[c] = "SendResults" => executed[c] = Len(Calls(c))
  /\ agentPc[c] \in {"Close", "Ended"} =>
       /\ results[c] = <<>>
       /\ executed[c] # 0 => executed[c] = Len(Calls(c))
       /\ executed[c] = 0 /\ request[c].body => sent[c] # <<>>

AnswerInv == \A c \in Client : AnswersOf(c)

LEMMA InitAnswers == Init => AnswerInv
BY DEF Init, AnswerInv, AnswersOf

\* A step that leaves a connection's own variables alone.
LEMMA AnswersFrame ==
  ASSUME NEW c \in Client, AnswersOf(c),
         agentPc'[c] = agentPc[c], request'[c] = request[c],
         executed'[c] = executed[c], results'[c] = results[c], sent'[c] = sent[c]
  PROVE  AnswersOf(c)'
BY DEF AnswersOf, Calls

LEMMA AnswerStep == TypeInv /\ LifeInv /\ AnswerInv /\ [Next]_vars => AnswerInv'
<1> SUFFICES ASSUME TypeInv, LifeInv, AnswerInv, [Next]_vars, NEW d \in Client
             PROVE  AnswersOf(d)'
  BY DEF AnswerInv
<1> USE DEF TypeOK, parseVars
<1>0. TypeOK /\ AnswersOf(d)
  BY DEF TypeInv, AnswerInv
<1>a. ASSUME UNCHANGED <<agentPc, parseVars, sent>> PROVE AnswersOf(d)'
  BY <1>0, <1>a, AnswersFrame
\* An agent gives up: what it holds is dropped.
<1>b. ASSUME NEW c \in Client, Busy(c), ConnectionLost(c),
             UNCHANGED <<request, executed, sent>>
      PROVE  AnswersOf(d)'
  <2>1. CASE c = d
    BY <1>0, <1>b, <2>1 DEF ConnectionLost, AnswersOf, Calls
  <2>2. CASE c # d
    BY <1>0, <1>b, <2>2, AnswersFrame DEF ConnectionLost
  <2> QED BY <2>1, <2>2
<1>1. CASE MainStep \/ AcceptFails \/ ThreadFails
  BY <1>a, <1>1 DEF MainStep, Register, StartServer, MainReturn, AcceptFails,
     ReturnFromMain, DestroyObjServer, DestroyParserStates, Exit, ThreadFails,
     Abort
<1>2. CASE ServerInit \/ AssignThread \/ SpawnDeleter \/ ServerClose
  BY <1>a, <1>2 DEF ServerInit, AssignThread, SpawnDeleter, ServerClose
<1>3. CASE StartAgent
  <2>1. CASE d = current
    BY <1>0, <1>3, <2>1 DEF StartAgent, LifeInv, HandOver, AnswersOf, Calls
  <2>2. CASE d # current
    BY <1>0, <1>3, <2>2, AnswersFrame DEF StartAgent
  <2> QED BY <2>1, <2>2
<1>4. ASSUME NEW c \in Client, Accept(c) \/ DeleterStep(c) PROVE AnswersOf(d)'
  BY <1>a, <1>4 DEF Accept, DeleterStep, Join, JoinReturns, Delete
<1>5. ASSUME NEW c \in Client, Receive(c) PROVE AnswersOf(d)'
  <2>1. CASE c = d
    BY <1>0, <1>5, <2>1 DEF Receive, AnswersOf, Calls
  <2>2. CASE c # d
    BY <1>0, <1>5, <2>2, AnswersFrame DEF Receive
  <2> QED BY <2>1, <2>2
<1>6. ASSUME NEW c \in Client, ReceiveFails(c) PROVE AnswersOf(d)'
  BY <1>b, <1>6 DEF ReceiveFails, Busy, Finished
<1>7. ASSUME NEW c \in Client, BeginCall(c) PROVE AnswersOf(d)'
  <2>1. CASE c = d
    BY <1>0, <1>7, <2>1 DEF BeginCall, AnswersOf, Calls
  <2>2. CASE c # d
    BY <1>0, <1>7, <2>2, AnswersFrame DEF BeginCall
  <2> QED BY <2>1, <2>2
<1>8. ASSUME NEW c \in Client, EndCall(c) PROVE AnswersOf(d)'
  <2>1. CASE Abort
    BY <1>a, <2>1 DEF Abort
  <2>2. ASSUME NEW kind \in Outcomes(c) \ {"crash"},
               results' = [results EXCEPT ![c] =
                 Append(@, [name |-> Calls(c)[executed[c] + 1].name,
                            kind |-> kind])],
               executed' = [executed EXCEPT ![c] = @ + 1],
               agentPc' = [agentPc EXCEPT ![c] = "Parse"],
               UNCHANGED <<request, sent>>
        PROVE  AnswersOf(d)'
    <3>1. CASE c # d
      BY <1>0, <2>2, <3>1, AnswersFrame
    <3>2. CASE c = d
      <4> DEFINE r == [name |-> Calls(c)[executed[c] + 1].name, kind |-> kind]
      <4>1. agentPc[c] = "DoCall"
        BY <1>8 DEF EndCall
      <4>2. /\ sent[c] = <<>> /\ results[c] \in Seq(Answer)
            /\ executed[c] \in Nat /\ Len(results[c]) = executed[c]
        BY <1>0, <3>2, <4>1, EmptySeq DEF AnswersOf
      <4>3. r \in Answer
        BY <4>1, CallTypes DEF Answer
      <4>4. /\ results'[c] = Append(results[c], r) /\ sent'[c] = <<>>
            /\ executed'[c] = executed[c] + 1 /\ Calls(c)' = Calls(c)
            /\ agentPc'[c] = "Parse"
        BY <1>0, <2>2, <4>2 DEF Calls
      <4>5. /\ Len(results'[c]) = executed[c] + 1
            /\ results'[c][executed[c] + 1] = r
            /\ \A i \in 1 .. executed[c] : results'[c][i] = results[c][i]
        BY <4>2, <4>3, <4>4
      <4>6. \A i \in 1 .. executed[c] : results[c][i].name = Calls(c)[i].name
        BY <1>0, <3>2, <4>2 DEF AnswersOf
      <4>7. \A i \in 1 .. executed[c] + 1 :
              results'[c][i].name = Calls(c)[i].name
        <5> TAKE i \in 1 .. executed[c] + 1
        <5>1. r.name = Calls(c)[executed[c] + 1].name
          OBVIOUS
        <5>2. i \in 1 .. executed[c] \/ i = executed[c] + 1
          BY <4>2
        <5> QED BY <4>5, <4>6, <5>1, <5>2
      <4> HIDE DEF r
      <4> QED BY <3>2, <4>2, <4>4, <4>5, <4>7 DEF AnswersOf
    <3> QED BY <3>1, <3>2
  <2> QED BY <1>8, <2>1, <2>2 DEF EndCall
<1>9. ASSUME NEW c \in Client, EndParse(c) PROVE AnswersOf(d)'
  <2>1. CASE Abort
    BY <1>a, <2>1 DEF Abort
  <2>2. CASE agentPc' = [agentPc EXCEPT ![c] =
               IF results[c] = <<>> THEN "SendInvalid" ELSE "SendResults"]
             /\ UNCHANGED <<parseVars, sent>>
    <3>1. CASE c # d
      BY <1>0, <2>2, <3>1, AnswersFrame
    <3>2. CASE c = d
      <4>1. agentPc[c] = "Parse" /\ executed[c] = Len(Calls(c))
        BY <1>9 DEF EndParse
      <4>2. results[c] = <<>> => executed[c] = 0
        <5> SUFFICES ASSUME results[c] = <<>>, executed[c] # 0 PROVE FALSE
          OBVIOUS
        <5>1. sent[c] = <<>> /\ Len(sent[c]) + Len(results[c]) = executed[c]
          BY <1>0, <3>2, <4>1 DEF AnswersOf
        <5>2. Len(sent[c]) = 0 /\ Len(results[c]) = 0
          BY <5>1
        <5> QED BY <5>1, <5>2
      <4> QED BY <1>0, <2>2, <3>2, <4>1, <4>2 DEF AnswersOf, Calls
    <3> QED BY <3>1, <3>2
  <2> QED BY <1>9, <2>1, <2>2 DEF EndParse
<1>10. ASSUME NEW c \in Client, SendInvalid(c) PROVE AnswersOf(d)'
  <2>1. CASE SendFails(c)
    BY <1>a, <1>b, <1>10, <2>1 DEF SendFails, Abort, SendInvalid, Busy, Finished
  <2>2. CASE /\ sent' = [sent EXCEPT ![c] = Append(@, Refusal)]
             /\ agentPc' = [agentPc EXCEPT ![c] = "Close"]
             /\ UNCHANGED parseVars
    <3>1. CASE c # d
      BY <1>0, <2>2, <3>1, AnswersFrame
    <3>2. CASE c = d
      <4>1. agentPc[c] = "SendInvalid"
        BY <1>10 DEF SendInvalid
      <4>2. executed[c] = 0 /\ sent[c] = <<>> /\ results[c] = <<>>
        BY <1>0, <3>2, <4>1 DEF AnswersOf
      <4>3. sent'[c] = <<Refusal>>
        BY <1>0, <2>2, <4>2
      <4> QED BY <1>0, <2>2, <3>2, <4>2, <4>3 DEF AnswersOf
    <3> QED BY <3>1, <3>2
  <2> QED BY <1>10, <2>1, <2>2 DEF SendInvalid
<1>11. ASSUME NEW c \in Client, SendResults(c) PROVE AnswersOf(d)'
  <2>1. CASE SendFails(c)
    BY <1>a, <1>b, <1>11, <2>1 DEF SendFails, Abort, SendResults, Busy, Finished
  <2>2. CASE /\ sent' = [sent EXCEPT ![c] =
                  Append(@, TakenResult(results[c]))]
             /\ results' = [results EXCEPT ![c] = Tail(@)]
             /\ agentPc' = [agentPc EXCEPT ![c] = AfterSend(Tail(results[c]))]
             /\ UNCHANGED <<request, executed>>
    <3>1. CASE c # d
      BY <1>0, <2>2, <3>1, AnswersFrame
    <3>2. CASE c = d
      <4> DEFINE S == sent[c]
                 R == results[c]
      <4>1. agentPc[c] = "SendResults"
        BY <1>11 DEF SendResults
      <4>2. /\ S \in Seq(Answer \cup {Refusal}) /\ R \in Seq(Answer)
            /\ R # <<>> /\ executed[c] \in Nat
        BY <1>0, <4>1 DEF TypeInv, WorkExists
      <4>s. Len(S) \in Nat /\ Len(R) \in Nat /\ Len(R) > 0
        BY <4>2
      <4>3. /\ executed[c] # 0 /\ executed[c] = Len(Calls(c))
            /\ Len(S) + Len(R) = executed[c]
            /\ \A i \in 1 .. Len(S) : S[i].name = Calls(c)[i].name
            /\ \A i \in 1 .. Len(R) : R[i].name = Calls(c)[Len(S) + i].name
        BY <1>0, <3>2, <4>1, <4>2 DEF AnswersOf
      <4>4. /\ sent'[c] = Append(S, Head(R)) /\ results'[c] = Tail(R)
            /\ executed'[c] = executed[c] /\ Calls(c)' = Calls(c)
            /\ agentPc'[c] = IF Tail(R) = <<>> THEN "Close" ELSE "SendResults"
        BY <1>0, <2>2 DEF Calls, TakenResult, AfterSend
      <4> HIDE DEF S, R
      <4>5. /\ Head(R) = R[1] /\ Head(R) \in Answer /\ Tail(R) \in Seq(Answer)
            /\ Len(R) > 0 /\ Len(Tail(R)) = Len(R) - 1
            /\ \A i \in 1 .. Len(R) - 1 : Tail(R)[i] = R[i + 1]
        BY <4>2
      <4>6. /\ Len(Append(S, Head(R))) = Len(S) + 1
            /\ Append(S, Head(R))[Len(S) + 1] = Head(R)
            /\ \A i \in 1 .. Len(S) : Append(S, Head(R))[i] = S[i]
        BY <4>2, <4>5
      <4>7. \A i \in 1 .. Len(S) + 1 :
              Append(S, Head(R))[i].name = Calls(c)[i].name
        <5> TAKE i \in 1 .. Len(S) + 1
        <5>0. 1 \in 1 .. Len(R)
          BY <4>s
        <5>1. R[1].name = Calls(c)[Len(S) + 1].name
          BY <4>3, <5>0
        <5>2. i \in 1 .. Len(S) \/ i = Len(S) + 1
          BY <4>s
        <5> QED BY <4>3, <4>5, <4>6, <5>1, <5>2
      <4>8. \A i \in 1 .. Len(R) - 1 :
              Tail(R)[i].name = Calls(c)[(Len(S) + 1) + i].name
        <5> TAKE i \in 1 .. Len(R) - 1
        <5>1. i + 1 \in 1 .. Len(R) /\ Len(S) + (i + 1) = (Len(S) + 1) + i
          BY <4>s
        <5> QED BY <4>3, <4>5, <5>1
      <4>9. (Len(S) + 1) + (Len(R) - 1) = executed[c]
        BY <4>s, <4>3
      <4> QED BY <3>2, <4>2, <4>3, <4>4, <4>5, <4>6, <4>7, <4>8, <4>9
              DEF AnswersOf
    <3> QED BY <3>1, <3>2
  <2> QED BY <1>11, <2>1, <2>2 DEF SendResults
<1>12. ASSUME NEW c \in Client, Close(c) PROVE AnswersOf(d)'
  <2>1. CASE c = d
    BY <1>0, <1>12, <2>1 DEF Close, AnswersOf, Calls
  <2>2. CASE c # d
    BY <1>0, <1>12, <2>2, AnswersFrame DEF Close
  <2> QED BY <2>1, <2>2
<1>13. ASSUME NEW c \in Client, ParseOnDestroyedState(c) PROVE AnswersOf(d)'
  BY <1>a, <1>13 DEF ParseOnDestroyedState, Abort
<1>14. CASE UNCHANGED vars
  BY <1>a, <1>14 DEF vars
<1> QED
  BY <1>1, <1>2, <1>3, <1>4, <1>5, <1>6, <1>7, <1>8, <1>9, <1>10, <1>11,
     <1>12, <1>13, <1>14
  DEF Next, ServerStep, PeerStep, AgentStep

\* Whatever the parse of a request comes to, no answer is lost, repeated,
\* reordered or given to a call that was not executed, and no agent that ends in
\* good order leaves a call or a refusal out.
THEOREM AnswersMatch == Spec => []AnswersMatchCalls
<1>1. TypeInv /\ AnswerInv => AnswersMatchCalls
  <2> SUFFICES ASSUME TypeInv, AnswerInv, NEW c \in Client
               PROVE  LET made == sent[c] \o results[c]
                      IN  IF executed[c] = 0
                          THEN /\ made \in {<<>>, <<Refusal>>}
                               /\ agentPc[c] = "Ended" /\ request[c].body =>
                                    made # <<>>
                          ELSE /\ Len(made) <= executed[c]
                               /\ \A i \in 1 .. Len(made) :
                                    made[i].name = Calls(c)[i].name
                               /\ agentPc[c] # "Failed" =>
                                    Len(made) = executed[c]
                               /\ agentPc[c] = "Ended" =>
                                    /\ results[c] = <<>>
                                    /\ executed[c] = Len(Calls(c))
    BY DEF AnswersMatchCalls
  <2> DEFINE S == sent[c]
             R == results[c]
             T == Answer \cup {Refusal}
  <2>1. S \in Seq(T) /\ R \in Seq(T) /\ AnswersOf(c)
    <3>1. sent[c] \in Seq(Answer \cup {Refusal}) /\ results[c] \in Seq(Answer)
      BY DEF TypeInv, TypeOK
    <3>2. Seq(Answer) \subseteq Seq(T)
      OBVIOUS
    <3> QED BY <3>1, <3>2 DEF AnswerInv
  <2>2. CASE executed[c] = 0
    <3>1. R = <<>> /\ S \in {<<>>, <<Refusal>>}
      BY <2>1, <2>2 DEF AnswersOf
    <3>2. S \o R = S
      BY <2>1, <3>1
    <3> QED BY <2>1, <2>2, <3>1, <3>2 DEF AnswersOf
  <2>3. CASE executed[c] # 0
    <3>1. /\ Len(S) + Len(R) <= executed[c]
          /\ agentPc[c] # "Failed" => Len(S) + Len(R) = executed[c]
          /\ \A i \in 1 .. Len(S) : S[i].name = Calls(c)[i].name
          /\ \A i \in 1 .. Len(R) : R[i].name = Calls(c)[Len(S) + i].name
          /\ agentPc[c] = "Ended" => R = <<>> /\ executed[c] = Len(Calls(c))
      BY <2>1, <2>3 DEF AnswersOf
    <3> HIDE DEF S, R, T
    <3>2. Len(S) \in Nat /\ Len(R) \in Nat
      BY <2>1
    <3>3. /\ Len(S \o R) = Len(S) + Len(R)
          /\ \A i \in 1 .. Len(S) + Len(R) :
               (S \o R)[i] = IF i <= Len(S) THEN S[i] ELSE R[i - Len(S)]
      BY <2>1, ConcatProperties
    <3>4. \A i \in 1 .. Len(S) + Len(R) : (S \o R)[i].name = Calls(c)[i].name
      <4> TAKE i \in 1 .. Len(S) + Len(R)
      <4>1. CASE i <= Len(S)
        BY <3>1, <3>2, <3>3, <4>1
      <4>2. CASE ~(i <= Len(S))
        <5>1. i - Len(S) \in 1 .. Len(R) /\ Len(S) + (i - Len(S)) = i
          BY <3>2, <4>2
        <5> QED BY <3>1, <3>3, <4>2, <5>1
      <4> QED BY <4>1, <4>2
    <3> QED BY <2>3, <3>1, <3>3, <3>4 DEF S, R
  <2> QED BY <2>2, <2>3
<1> QED
  BY <1>1, InitAnswers, AnswerStep, InitTypes, TypeStep, InitLife, LifeStep,
     InitMain, MainStepInv, TypeCorrect, PTL DEF Spec

-------------------------------------------------------------------------------
(* What a peer sees *)

\* Connection(c), read off the agent's position instead of the kernel's table.
View(c) ==
  IF Holds(c) THEN "open"
  ELSE IF agentPc[c] = "Ended" THEN "closed"
  ELSE IF agentPc[c] = "Failed" THEN "lost"
  ELSE "idle"

LEMMA InitService == Init => Service!Init
BY ServerAssumption DEF Init, Service!Init, Connection, Running

LEMMA ServiceStep ==
  /\ TypeInv /\ TypeOK' /\ MainInv /\ LifeInv /\ LifeInv' /\ FdInv /\ FdInv'
  /\ AnswerInv /\ [Next]_vars
  => [Service!Next]_(Service!vars)
<1> SUFFICES ASSUME TypeInv, TypeOK', MainInv, LifeInv, LifeInv', FdInv, FdInv',
                    AnswerInv, Next
             PROVE  Service!Next \/ UNCHANGED Service!vars
  <2>1. CASE Next
    BY <2>1
  <2>2. CASE UNCHANGED vars
    <3>1. \A c \in Client : Connection(c)' = Connection(c)
      BY <2>2 DEF vars, kernelVars, Connection
    <3>2. [c \in Client |-> Connection(c)]' = [c \in Client |-> Connection(c)]
      BY <3>1
    <3> QED BY <2>2, <3>2 DEF vars, parseVars, Service!vars, Running
  <2> QED BY <2>1, <2>2
<1> DEFINE conn == [c \in Client |-> Connection(c)]
<1>0. TypeOK /\ Running
  BY DEF TypeInv, Next
<1> USE <1>0 DEF TypeOK, kernelVars, parseVars, serverVars, Starting, Finished
<1>1. \A c \in Client : Connection(c) = View(c)
  <2> TAKE c \in Client
  <2>1. (\E fd \in Fd : fdTable[fd] = c) <=> Holds(c)
    <3>1. ASSUME NEW fd \in Fd, (fdTable[fd] = c) PROVE Holds(c)
      BY <3>1 DEF FdInv
    <3>2. ASSUME Holds(c) PROVE (\E fd \in Fd : fdTable[fd] = c)
      BY <3>2 DEF FdInv
    <3> QED BY <3>1, <3>2
  <2> QED BY <2>1 DEF Connection, View
<1>2. \A c \in Client : Connection(c)' = View(c)'
  <2> TAKE c \in Client
  <2>1. (\E fd \in Fd : fdTable[fd] = c)' <=> Holds(c)'
    <3>1. ASSUME NEW fd \in Fd, (fdTable[fd] = c)' PROVE Holds(c)'
      BY <3>1 DEF FdInv
    <3>2. ASSUME Holds(c)' PROVE (\E fd \in Fd : fdTable[fd] = c)'
      BY <3>2 DEF FdInv
    <3> QED BY <3>1, <3>2
  <2> QED BY <2>1 DEF Connection, View
\* Nothing a peer sees: no agent begins or ends.
<1>a. ASSUME UNCHANGED <<process, results, sent>>,
             \A c \in Client : View(c)' = View(c)
      PROVE  UNCHANGED Service!vars
  <2>1. conn' = conn
    BY <1>1, <1>2, <1>a
  <2> QED BY <1>a, <2>1 DEF Service!vars, Running
<1>b. ASSUME UNCHANGED <<process, results, sent, agentPc, serverVars>>
      PROVE  UNCHANGED Service!vars
  BY <1>a, <1>b DEF View, Holds, Busy
\* An agent goes on.
<1>c. ASSUME NEW c \in Client, NEW pc, Busy(c),
             pc \notin Finished \cup {"none"},
             agentPc' = [agentPc EXCEPT ![c] = pc], UNCHANGED serverVars
      PROVE  conn[c] = "open" /\ conn' = conn
  <2>1. \A d \in Client : View(d)' = View(d)
    BY <1>c DEF View, Holds, Busy
  <2>2. View(c) = "open"
    BY <1>c DEF View, Holds
  <2> QED BY <1>1, <1>2, <2>1, <2>2
\* An agent ends.
<1>d. ASSUME NEW c \in Client, NEW pc \in Finished, Busy(c),
             agentPc' = [agentPc EXCEPT ![c] = pc], UNCHANGED serverVars
      PROVE  /\ conn[c] = "open"
             /\ conn' = [conn EXCEPT ![c] =
                           IF pc = "Ended" THEN "closed" ELSE "lost"]
  <2>1. ~Starting(c)
    BY <1>d DEF LifeInv, HandOver, Busy
  <2>2. View(c)' = IF pc = "Ended" THEN "closed" ELSE "lost"
    BY <1>d, <2>1 DEF View, Holds, Busy
  <2>3. \A d \in Client : d # c => View(d)' = View(d)
    BY <1>d DEF View, Holds, Busy
  <2>4. View(c) = "open"
    BY <1>d DEF View, Holds
  <2>5. \A d \in Client : Connection(d)' =
          IF d = c THEN IF pc = "Ended" THEN "closed" ELSE "lost"
          ELSE Connection(d)
    <3>1. Connection(c)' = IF pc = "Ended" THEN "closed" ELSE "lost"
      BY <1>2, <2>2
    <3>2. \A d \in Client : d # c => Connection(d)' = Connection(d)
      BY <1>1, <1>2, <2>3
    <3> QED BY <3>1, <3>2
  <2> QED BY <1>1, <2>4, <2>5
<1>e. ASSUME NEW c \in Client, Busy(c), ConnectionLost(c),
             UNCHANGED <<process, serverVars, sent>>
      PROVE  Service!Next
  <2>1. conn[c] = "open" /\ conn' = [conn EXCEPT ![c] = "lost"]
    BY <1>d, <1>e DEF ConnectionLost
  <2> QED BY <1>e, <2>1 DEF Service!Next, Service!Drop, ConnectionLost, Running
<1>3. CASE Exit \/ Abort
  <2>1. UNCHANGED <<results, sent>> /\ ~Running'
    BY <1>3 DEF Exit, Abort, Running
  <2>2. \A c \in Client : View(c)' = View(c)
    BY <1>3 DEF Exit, Abort, View, Holds, Busy
  <2>3. conn' = conn
    BY <1>1, <1>2, <2>2
  <2> QED BY <2>1, <2>3 DEF Service!Next, Service!Stop, Running
<1>4. ASSUME NEW n \in Registered, Register(n) PROVE UNCHANGED Service!vars
  BY <1>b, <1>4 DEF Register
<1>5. CASE StartServer
  BY <1>a, <1>5 DEF StartServer, View, Holds, Busy, MainInv
<1>6. CASE MainReturn \/ DestroyObjServer \/ DestroyParserStates
  BY <1>b, <1>6 DEF MainReturn, ReturnFromMain, DestroyObjServer,
                    DestroyParserStates
<1>7. CASE ServerInit \/ AssignThread \/ SpawnDeleter \/ ServerClose \/ AcceptFails
  BY <1>a, <1>7 DEF ServerInit, AssignThread, SpawnDeleter, ServerClose,
                    AcceptFails, View, Holds, Busy
<1>8. CASE StartAgent
  BY <1>a, <1>8 DEF StartAgent, View, Holds, Busy, LifeInv, HandOver, AgentInHand
<1>9. ASSUME NEW c \in Client, Accept(c) PROVE Service!Next
  <2>1. agentPc[c] = "none" /\ ~Starting(c) /\ Starting(c)'
    BY <1>9 DEF Accept, LifeInv, LifeOrder
  <2>2. View(c) = "idle" /\ View(c)' = "open"
    BY <2>1 DEF View, Holds, Busy
  <2>3. \A d \in Client : d # c => View(d)' = View(d)
    BY <1>9 DEF Accept, View, Holds, Busy
  <2>4. \A d \in Client : Connection(d)' =
          IF d = c THEN "open" ELSE Connection(d)
    <3>1. Connection(c)' = "open"
      BY <1>2, <2>2
    <3>2. \A d \in Client : d # c => Connection(d)' = Connection(d)
      BY <1>1, <1>2, <2>3
    <3> QED BY <3>1, <3>2
  <2>5. conn[c] = "idle" /\ conn' = [conn EXCEPT ![c] = "open"]
    BY <1>1, <2>2, <2>4
  <2> QED BY <1>9, <2>5 DEF Accept, Service!Next, Service!Connect, Running
<1>10. ASSUME NEW c \in Client, Receive(c) PROVE UNCHANGED Service!vars
  <2>1. Busy(c)
    BY <1>10 DEF Receive, Busy
  <2>2. conn' = conn
    BY <1>c, <1>10, <2>1 DEF Receive
  <2> QED BY <1>10, <2>2 DEF Receive, Service!vars, Running
<1>11. ASSUME NEW c \in Client, ReceiveFails(c) PROVE Service!Next
  BY <1>e, <1>11 DEF ReceiveFails, Busy
<1>12. ASSUME NEW c \in Client, BeginCall(c) PROVE UNCHANGED Service!vars
  <2>1. Busy(c)
    BY <1>12 DEF BeginCall, Busy
  <2>2. conn' = conn
    BY <1>c, <1>12, <2>1 DEF BeginCall
  <2> QED BY <1>12, <2>2 DEF BeginCall, Service!vars, Running
<1>13. ASSUME NEW c \in Client, EndCall(c)
       PROVE  Service!Next \/ UNCHANGED Service!vars
  <2> DEFINE answer(kind) == [name |-> Calls(c)[executed[c] + 1].name,
                              kind |-> kind]
  <2>1. Busy(c) /\ agentPc[c] = "DoCall"
    BY <1>13 DEF EndCall, Busy
  <2>2. ASSUME NEW kind \in Outcomes(c) \ {"crash"},
               results' = [results EXCEPT ![c] = Append(@, answer(kind))],
               agentPc' = [agentPc EXCEPT ![c] = "Parse"],
               UNCHANGED <<process, serverVars, sent>>
        PROVE  Service!Next
    <3>1. answer(kind) \in Answer
      BY <2>1, CallTypes DEF Answer
    <3>2. conn[c] = "open" /\ conn' = conn
      BY <1>c, <2>1, <2>2
    <3>3. sent[c] = <<>>
      BY <2>1 DEF AnswerInv, AnswersOf
    <3> QED BY <2>2, <3>1, <3>2, <3>3 DEF Service!Next, Service!Execute, Running
  <2> QED BY <1>3, <1>13, <2>2 DEF EndCall
<1>14. ASSUME NEW c \in Client, EndParse(c)
       PROVE  Service!Next \/ UNCHANGED Service!vars
  <2>1. CASE Abort
    BY <1>3, <2>1
  <2>2. CASE ~Abort
    <3>1. Busy(c)
      BY <1>14 DEF EndParse, Busy
    <3>2. conn' = conn
      BY <1>c, <1>14, <2>2, <3>1 DEF EndParse
    <3> QED BY <1>14, <2>2, <3>2 DEF EndParse, Service!vars, Running
  <2> QED BY <2>1, <2>2
<1>15. ASSUME NEW c \in Client, SendInvalid(c)
       PROVE  Service!Next \/ UNCHANGED Service!vars
  <2>1. Busy(c) /\ agentPc[c] = "SendInvalid"
    BY <1>15 DEF SendInvalid, Busy
  <2>2. CASE SendFails(c)
    BY <1>3, <1>e, <2>1, <2>2 DEF SendFails
  <2>3. CASE /\ sent' = [sent EXCEPT ![c] = Append(@, Refusal)]
             /\ agentPc' = [agentPc EXCEPT ![c] = "Close"]
             /\ UNCHANGED <<process, serverVars, results>>
    <3>1. sent[c] = <<>> /\ results[c] = <<>>
      BY <2>1 DEF AnswerInv, AnswersOf
    <3>2. conn[c] = "open" /\ conn' = conn
      BY <1>c, <2>1, <2>3
    <3>3. sent' = [sent EXCEPT ![c] = <<Refusal>>]
      BY <2>3, <3>1
    <3> QED BY <2>3, <3>1, <3>2, <3>3 DEF Service!Next, Service!Refuse, Running
  <2> QED BY <1>15, <2>2, <2>3 DEF SendInvalid
<1>16. ASSUME NEW c \in Client, SendResults(c)
       PROVE  Service!Next \/ UNCHANGED Service!vars
  <2>1. Busy(c) /\ agentPc[c] = "SendResults"
    BY <1>16 DEF SendResults, Busy
  <2>2. CASE SendFails(c)
    BY <1>3, <1>e, <2>1, <2>2 DEF SendFails
  <2>3. CASE /\ sent' = [sent EXCEPT ![c] = Append(@, TakenResult(results[c]))]
             /\ results' = [results EXCEPT ![c] = Tail(@)]
             /\ agentPc' = [agentPc EXCEPT ![c] = AfterSend(Tail(results[c]))]
             /\ UNCHANGED <<process, serverVars>>
    <3>1. results[c] # <<>>
      BY <2>1 DEF TypeInv, WorkExists
    <3>2. conn[c] = "open" /\ conn' = conn
      BY <1>c, <2>1, <2>3 DEF AfterSend
    <3> QED BY <2>3, <3>1, <3>2
            DEF Service!Next, Service!Reply, Running, TakenResult
  <2> QED BY <1>16, <2>2, <2>3 DEF SendResults
<1>17. ASSUME NEW c \in Client, Close(c) PROVE Service!Next
  <2>1. Busy(c) /\ agentPc[c] = "Close"
    BY <1>17 DEF Close, Busy
  <2>2. results[c] = <<>>
    BY <2>1 DEF AnswerInv, AnswersOf
  <2>3. conn[c] = "open" /\ conn' = [conn EXCEPT ![c] = "closed"]
    BY <1>d, <1>17, <2>1 DEF Close
  <2> QED BY <1>17, <2>2, <2>3 DEF Close, Service!Next, Service!Finish, Running
<1>18. ASSUME NEW c \in Client, Join(c) \/ Delete(c)
       PROVE  UNCHANGED Service!vars
  BY <1>b, <1>18 DEF Join, JoinReturns, Delete
<1> QED
  BY <1>3, <1>4, <1>5, <1>6, <1>7, <1>8, <1>9, <1>10, <1>11, <1>12, <1>13,
     <1>14, <1>15, <1>16, <1>17, <1>18
  DEF Next, MainStep, ServerStep, PeerStep, AgentStep, DeleterStep,
      ThreadFails, ParseOnDestroyedState

\* Seen by its peers, the process does nothing but what RpcService allows: the
\* initial states map to its initial states, and every step of a thread to one
\* of its steps or to none.
THEOREM Implementation == Spec => ImplementsService
<1> QED
  BY InitService, ServiceStep, InitAnswers, AnswerStep, InitFd, FdStep,
     InitTypes, TypeStep, InitLife, LifeStep, InitMain, MainStepInv,
     TypeCorrect, PTL
  DEF Spec, ImplementsService, Service!Spec
===============================================================================
