------------------------------- MODULE ThreadWin -------------------------------
(***************************************************************************)
(* The std::thread of the Windows build, as RpcServer uses it: the server  *)
(* thread makes for each agent the agent's thread and then the deleter     *)
(* that joins it.  A thread closes its handle itself; the kernel may give  *)
(* the number of a closed handle to the next thread.                       *)
(***************************************************************************)
EXTENDS Naturals, WinAgents

CONSTANT Handle  \* the numbers of the process's handle table

ASSUME ThreadAssumption == NULL \notin Handle /\ NULL \notin Agent \X {"agent", "deleter"}

\* What a thread calls: RpcAgent::MainEntry or DeleteRpcAgent, with the agent.
Thread == Agent \X {"agent", "deleter"}
Worker(a) == <<a, "agent">>
Deleter(a) == <<a, "deleter">>

VARIABLES
  handles, \* the kernel's: the thread an open handle stands for
  ctor,    \* thread::thread: "none", "created", "stored" or "done"
  object,  \* m_Handle of the thread object, unassigned or failed: NULL
  caller,  \* m_Handle of the Caller
  run,     \* "none", "suspended", "running", "returned", "closed" or "ended"
  waits,   \* by agent: the thread whose end its deleter's join waits for, or NULL
  joined   \* the agents whose join has returned

join == <<waits, joined>>
threadVars == <<handles, ctor, object, caller, run, join>>

-------------------------------------------------------------------------------
(* thread::thread, in the server thread *)

\* One constructor at a time; an agent's thread is there before its deleter.
Turn(t) ==
  /\ ctor[t] = "none"
  /\ \A u \in Thread : ctor[u] \in {"none", "done"}
  /\ t[2] = "deleter" => ctor[Worker(t[1])] = "done"

CreateThread_Running(t, h) ==
  /\ Turn(t)
  /\ handles[h] = NULL
  /\ handles' = [handles EXCEPT ![h] = t]
  /\ run' = [run EXCEPT ![t] = "running"]
  /\ ctor' = [ctor EXCEPT ![t] = "created"]
  /\ UNCHANGED <<object, caller, join>>

CreateThread(t, h) ==
  /\ Turn(t)
  /\ handles[h] = NULL
  /\ handles' = [handles EXCEPT ![h] = t]
  /\ run' = [run EXCEPT ![t] = "suspended"]
  /\ ctor' = [ctor EXCEPT ![t] = "created"]
  /\ UNCHANGED <<object, caller, join>>

\* CreateThread returns NULL, ResumeThread fails, and nobody looks.
CreateThreadFails(t) ==
  /\ Turn(t)
  /\ ctor' = [ctor EXCEPT ![t] = "done"]
  /\ UNCHANGED <<handles, object, caller, run, join>>

Store_CallerOnly(t) ==
  /\ ctor[t] = "created"
  /\ \E h \in Handle :
       /\ handles[h] = t
       /\ caller' = [caller EXCEPT ![t] = h]
  /\ ctor' = [ctor EXCEPT ![t] = "stored"]
  /\ UNCHANGED <<handles, object, run, join>>

\* m_Handle = pStorage->m_Handle = CreateThread( ... )
Store(t) ==
  /\ ctor[t] = "created"
  /\ \E h \in Handle :
       /\ handles[h] = t
       /\ caller' = [caller EXCEPT ![t] = h]
       /\ object' = [object EXCEPT ![t] = h]
  /\ ctor' = [ctor EXCEPT ![t] = "stored"]
  /\ UNCHANGED <<handles, run, join>>

ResumeThread(t) ==
  /\ ctor[t] = "stored"
  /\ ctor' = [ctor EXCEPT ![t] = "done"]
  /\ run' = [run EXCEPT ![t] = IF @ = "suspended" THEN "running" ELSE @]
  /\ UNCHANGED <<handles, object, caller, join>>

-------------------------------------------------------------------------------
(* MyThreadFunction *)

\* pCaller->Call() comes back; a deleter's does after its join, with the agent
\* deleted.
CallReturns(t) ==
  /\ run[t] = "running"
  /\ t[2] = "deleter" => t[1] \in joined
  /\ run' = [run EXCEPT ![t] = "returned"]
  /\ UNCHANGED <<handles, ctor, object, caller, join>>

Closed(h) == IF h = NULL THEN handles ELSE [handles EXCEPT ![h] = NULL]

CloseOwn(t) ==
  /\ run[t] = "returned"
  /\ handles' = Closed(caller[t])
  /\ run' = [run EXCEPT ![t] = "closed"]
  /\ UNCHANGED <<ctor, object, caller, join>>

\* delete pCaller, and the thread object of the kernel is signalled.
End(t) ==
  /\ run[t] = "closed"
  /\ run' = [run EXCEPT ![t] = "ended"]
  /\ UNCHANGED <<handles, ctor, object, caller, join>>

-------------------------------------------------------------------------------
(* thread::join: WaitForSingleObject *)

\* It fails at once on a handle that is not open; otherwise it waits for the
\* thread that the number stands for now.
BeginJoin(a) ==
  LET h == object[Worker(a)]
  IN  /\ run[Deleter(a)] = "running"
      /\ a \notin joined /\ waits[a] = NULL
      /\ IF h # NULL /\ handles[h] # NULL
         THEN waits' = [waits EXCEPT ![a] = handles[h]] /\ UNCHANGED joined
         ELSE joined' = joined \cup {a} /\ UNCHANGED waits
      /\ UNCHANGED <<handles, ctor, object, caller, run>>

\* The thread waited for has ended, or its handle was closed under the wait: what
\* Windows does then is undefined, and the wait may return or go on.
WaitOver(a) ==
  /\ waits[a] # NULL
  /\ run[waits[a]] = "ended" \/ handles[object[Worker(a)]] # waits[a]

EndJoin_CloseHandle(a) ==
  /\ WaitOver(a)
  /\ waits' = [waits EXCEPT ![a] = NULL]
  /\ joined' = joined \cup {a}
  /\ handles' = Closed(object[Worker(a)])
  /\ UNCHANGED <<ctor, object, caller, run>>

EndJoin(a) ==
  /\ WaitOver(a)
  /\ waits' = [waits EXCEPT ![a] = NULL]
  /\ joined' = joined \cup {a}
  /\ UNCHANGED <<handles, ctor, object, caller, run>>

-------------------------------------------------------------------------------
ThreadInit ==
  /\ handles = [h \in Handle |-> NULL]
  /\ ctor = [t \in Thread |-> "none"]
  /\ object = [t \in Thread |-> NULL]
  /\ caller = [t \in Thread |-> NULL]
  /\ run = [t \in Thread |-> "none"]
  /\ waits = [a \in Agent |-> NULL]
  /\ joined = {}

ThreadNext ==
  \/ \E t \in Thread :
       \/ \E h \in Handle : CreateThread(t, h)
       \/ CreateThreadFails(t)
       \/ Store(t)
       \/ ResumeThread(t)
       \/ CallReturns(t)
       \/ CloseOwn(t)
       \/ End(t)
  \/ \E a \in Agent : BeginJoin(a) \/ EndJoin(a)

ThreadSpec == ThreadInit /\ [][ThreadNext]_threadVars

-------------------------------------------------------------------------------
(* Properties *)

ThreadTypeOK ==
  /\ handles \in [Handle -> Thread \cup {NULL}]
  /\ ctor \in [Thread -> {"none", "created", "stored", "done"}]
  /\ object \in [Thread -> Handle \cup {NULL}]
  /\ caller \in [Thread -> Handle \cup {NULL}]
  /\ run \in [Thread -> {"none", "suspended", "running", "returned", "closed", "ended"}]
  /\ waits \in [Agent -> Thread \cup {NULL}]
  /\ joined \subseteq Agent
  /\ \A t \in Thread : run[t] \in {"running", "returned"} => ctor[t] = "done"

\* A thread that is over has closed its own handle and no other: an open handle
\* stands for a thread whose function is not left yet, and each such thread has
\* exactly one.  The Caller must have the handle before its thread runs
\* (thread.h:132-136, thread_win.cpp:5-12).
HandlesAreOwn ==
  /\ \A h \in Handle : handles[h] # NULL =>
       run[handles[h]] \in {"suspended", "running", "returned"}
  /\ \A t \in Thread : run[t] \in {"suspended", "running", "returned"} =>
       \E h \in Handle : handles[h] = t /\ \A g \in Handle : handles[g] = t => g = h

\* The agent is deleted behind its deleter's join.
Life ==
  [a \in Agent |-> IF a \in joined THEN "deleted"
                   ELSE IF run[Worker(a)] \in {"none", "suspended"} THEN "new"
                   ELSE IF run[Worker(a)] = "running" THEN "running" ELSE "over"]

Abstract == INSTANCE AgentLife WITH life <- Life

\* Whatever handles are closed, reused or never made, no agent is deleted while
\* its thread may still be in it (rpcserver.cpp:13-18, thread_win.cpp:14-17).
ImplementsAgentLife == Abstract!Spec

\* thread.h:102 calls the class std::thread, whose join waits for the thread of
\* its object: the deleter waits for the thread that it is to join.
JoinsItsThread ==
  \A a \in Agent : waits[a] \in {NULL, Worker(a)}
================================================================================
