---------------------------- MODULE WindowsProofs ----------------------------
(***************************************************************************)
(* What holds of the threads and of the sockets of the Windows build, for  *)
(* every set of agents, of handle numbers and of socket numbers.           *)
(***************************************************************************)
EXTENDS ThreadWin, WinSock, TLAPS

-------------------------------------------------------------------------------
(* ThreadWin *)

\* How far a constructor is tells how far its thread can be and who has the handle.
HandleStored ==
  \A t \in Thread :
    /\ ctor[t] = "none" => run[t] = "none"
    /\ ctor[t] \in {"created", "stored"} => run[t] = "suspended"
    /\ run[t] = "suspended" => ctor[t] \in {"created", "stored"}
    /\ ctor[t] \in {"stored", "done"} /\ run[t] # "none" =>
         caller[t] \in Handle /\ object[t] = caller[t]
    /\ ctor[t] = "stored" \/ run[t] \in {"running", "returned"} =>
         handles[caller[t]] = t

Gone(t) == ctor[t] = "done" /\ run[t] \in {"none", "closed", "ended"}

\* A join that waits for another thread waits behind the end of its own.
JoinSafe ==
  \A a \in Agent :
    /\ ctor[Deleter(a)] # "none" => ctor[Worker(a)] = "done"
    /\ a \in joined => Gone(Worker(a))
    /\ waits[a] # NULL =>
         ctor[Worker(a)] = "done" /\ (waits[a] = Worker(a) \/ Gone(Worker(a)))

ThreadIInv == ThreadTypeOK /\ HandlesAreOwn /\ HandleStored /\ JoinSafe

LEMMA Threads ==
  /\ \A a \in Agent : /\ Worker(a) \in Thread /\ Deleter(a) \in Thread
                      /\ Worker(a) # Deleter(a)
                      /\ \A b \in Agent : Worker(b) = Worker(a) => b = a
                      /\ \A b \in Agent : Worker(b) # Deleter(a)
  /\ \A t \in Thread : /\ t[1] \in Agent
                       /\ t[2] = "deleter" => t = Deleter(t[1])
                       /\ t[2] = "agent" => t = Worker(t[1])
                       /\ t[2] \in {"agent", "deleter"}
  /\ NULL \notin Thread
  /\ NULL \notin Handle
BY ThreadAssumption DEF Thread, Worker, Deleter

LEMMA ThreadInitOK == ThreadInit => ThreadIInv
BY Threads DEF ThreadInit, ThreadIInv, ThreadTypeOK, HandlesAreOwn, HandleStored, JoinSafe

LEMMA CreateThreadKept ==
  ASSUME ThreadIInv, NEW t \in Thread, NEW h \in Handle, CreateThread(t, h)
  PROVE  ThreadIInv'
<1> USE Threads
<1>1. ThreadTypeOK' BY DEF ThreadIInv, ThreadTypeOK, HandleStored, CreateThread, Turn, join
<1>2. HandlesAreOwn'
  BY DEF ThreadIInv, ThreadTypeOK, HandleStored, HandlesAreOwn, CreateThread, Turn
<1>3. HandleStored' BY DEF ThreadIInv, ThreadTypeOK, HandleStored, CreateThread, Turn
<1>4. JoinSafe'
  <2>1. \A a \in Agent : ctor'[Worker(a)] = "done" <=> ctor[Worker(a)] = "done"
    BY DEF ThreadIInv, ThreadTypeOK, CreateThread, Turn
  <2>2. \A u \in Thread : Gone(u) => Gone(u)'
    BY DEF ThreadIInv, ThreadTypeOK, CreateThread, Turn, Gone
  <2>3. \A a \in Agent : ctor'[Deleter(a)] # "none" => ctor[Worker(a)] = "done"
    BY DEF ThreadIInv, ThreadTypeOK, JoinSafe, CreateThread, Turn, Deleter
  <2> QED BY <2>1, <2>2, <2>3 DEF ThreadIInv, JoinSafe, CreateThread, join
<1> QED BY <1>1, <1>2, <1>3, <1>4 DEF ThreadIInv

LEMMA CreateThreadFailsKept ==
  ASSUME ThreadIInv, NEW t \in Thread, CreateThreadFails(t)
  PROVE  ThreadIInv'
<1> USE Threads
<1>1. ThreadTypeOK'
  BY DEF ThreadIInv, ThreadTypeOK, HandleStored, CreateThreadFails, Turn, join
<1>2. HandlesAreOwn' BY DEF ThreadIInv, HandlesAreOwn, CreateThreadFails
<1>3. HandleStored' BY DEF ThreadIInv, ThreadTypeOK, HandleStored, CreateThreadFails, Turn
<1>4. JoinSafe'
  <2>1. \A u \in Thread : Gone(u) => Gone(u)'
    BY DEF ThreadIInv, ThreadTypeOK, CreateThreadFails, Turn, Gone
  <2>2. \A a \in Agent : ctor'[Deleter(a)] # "none" => ctor'[Worker(a)] = "done"
    BY DEF ThreadIInv, ThreadTypeOK, JoinSafe, CreateThreadFails, Turn, Deleter
  <2>3. \A a \in Agent : ctor[Worker(a)] = "done" => ctor'[Worker(a)] = "done"
    BY DEF ThreadIInv, ThreadTypeOK, CreateThreadFails, Turn
  <2> QED BY <2>1, <2>2, <2>3 DEF ThreadIInv, JoinSafe, CreateThreadFails, join
<1> QED BY <1>1, <1>2, <1>3, <1>4 DEF ThreadIInv

LEMMA StoreKept ==
  ASSUME ThreadIInv, NEW t \in Thread, Store(t)
  PROVE  ThreadIInv'
<1> USE Threads
<1>1. ThreadTypeOK' BY DEF ThreadIInv, ThreadTypeOK, HandleStored, Store, join
<1>2. HandlesAreOwn' BY DEF ThreadIInv, HandlesAreOwn, Store
<1>3. HandleStored' BY DEF ThreadIInv, ThreadTypeOK, HandleStored, Store
<1>4. JoinSafe' BY DEF ThreadIInv, ThreadTypeOK, JoinSafe, Store, Gone, join
<1> QED BY <1>1, <1>2, <1>3, <1>4 DEF ThreadIInv

LEMMA ResumeKept ==
  ASSUME ThreadIInv, NEW t \in Thread, ResumeThread(t)
  PROVE  ThreadIInv'
<1> USE Threads
<1>1. ThreadTypeOK' BY DEF ThreadIInv, ThreadTypeOK, HandleStored, ResumeThread, join
<1>2. HandlesAreOwn' BY DEF ThreadIInv, ThreadTypeOK, HandlesAreOwn, ResumeThread
<1>3. HandleStored' BY DEF ThreadIInv, ThreadTypeOK, HandleStored, ResumeThread
<1>4. JoinSafe' BY DEF ThreadIInv, ThreadTypeOK, JoinSafe, ResumeThread, Gone, join
<1> QED BY <1>1, <1>2, <1>3, <1>4 DEF ThreadIInv

LEMMA CallReturnsKept ==
  ASSUME ThreadIInv, NEW t \in Thread, CallReturns(t)
  PROVE  ThreadIInv'
<1> USE Threads
<1>1. ThreadTypeOK' BY DEF ThreadIInv, ThreadTypeOK, HandleStored, CallReturns, join
<1>2. HandlesAreOwn' BY DEF ThreadIInv, ThreadTypeOK, HandlesAreOwn, CallReturns
<1>3. HandleStored' BY DEF ThreadIInv, ThreadTypeOK, HandleStored, CallReturns
<1>4. JoinSafe' BY DEF ThreadIInv, ThreadTypeOK, JoinSafe, CallReturns, Gone, join
<1> QED BY <1>1, <1>2, <1>3, <1>4 DEF ThreadIInv

LEMMA CloseOwnKept ==
  ASSUME ThreadIInv, NEW t \in Thread, CloseOwn(t)
  PROVE  ThreadIInv'
<1> USE Threads
<1>0. /\ caller[t] \in Handle /\ handles[caller[t]] = t
      /\ handles' = [handles EXCEPT ![caller[t]] = NULL]
  BY DEF ThreadIInv, ThreadTypeOK, HandleStored, CloseOwn, Closed
<1>1. ThreadTypeOK' BY <1>0 DEF ThreadIInv, ThreadTypeOK, HandleStored, CloseOwn, join
<1>2. HandlesAreOwn' BY <1>0 DEF ThreadIInv, ThreadTypeOK, HandlesAreOwn, CloseOwn
<1>3. HandleStored'
  BY <1>0 DEF ThreadIInv, ThreadTypeOK, HandleStored, HandlesAreOwn, CloseOwn
<1>4. JoinSafe' BY DEF ThreadIInv, ThreadTypeOK, JoinSafe, CloseOwn, Gone, join
<1> QED BY <1>1, <1>2, <1>3, <1>4 DEF ThreadIInv

LEMMA EndKept ==
  ASSUME ThreadIInv, NEW t \in Thread, End(t)
  PROVE  ThreadIInv'
<1> USE Threads
<1>1. ThreadTypeOK' BY DEF ThreadIInv, ThreadTypeOK, HandleStored, End, join
<1>2. HandlesAreOwn' BY DEF ThreadIInv, ThreadTypeOK, HandlesAreOwn, End
<1>3. HandleStored' BY DEF ThreadIInv, ThreadTypeOK, HandleStored, End
<1>4. JoinSafe' BY DEF ThreadIInv, ThreadTypeOK, JoinSafe, End, Gone, join
<1> QED BY <1>1, <1>2, <1>3, <1>4 DEF ThreadIInv

\* The number in the thread object is its thread's, or the thread is gone.
LEMMA BeginJoinKept ==
  ASSUME ThreadIInv, NEW a \in Agent, BeginJoin(a)
  PROVE  ThreadIInv'
<1> USE Threads
<1> DEFINE w == Worker(a)
           h == object[w]
<1>1. ctor[w] = "done" /\ w \in Thread
  BY DEF ThreadIInv, HandleStored, JoinSafe, BeginJoin
<1>2. h = NULL \/ handles[h] # w => Gone(w)
  <2>1. run[w] \notin {"none", "closed", "ended"} => h \in Handle /\ handles[h] = w
    BY <1>1 DEF ThreadIInv, ThreadTypeOK, HandleStored
  <2> QED BY <1>1, <2>1 DEF Gone
<1>3. h \in Handle \cup {NULL} /\ (h # NULL => handles[h] \in Thread \cup {NULL})
  BY <1>1 DEF ThreadIInv, ThreadTypeOK
<1>4. /\ waits' \in [Agent -> Thread \cup {NULL}]
      /\ joined' \subseteq Agent
      /\ \A b \in Agent \ {a} : waits'[b] = waits[b] /\ (b \in joined' <=> b \in joined)
      /\ a \in joined' => Gone(w)
      /\ waits'[a] # NULL => waits'[a] = w \/ Gone(w)
  BY <1>2, <1>3 DEF ThreadIInv, ThreadTypeOK, BeginJoin
<1>5. UNCHANGED <<handles, ctor, object, caller, run>>
  BY DEF BeginJoin
<1>6. ThreadTypeOK' /\ HandlesAreOwn' /\ HandleStored'
  BY <1>4, <1>5 DEF ThreadIInv, ThreadTypeOK, HandlesAreOwn, HandleStored
<1>7. JoinSafe'
  BY <1>1, <1>4, <1>5 DEF ThreadIInv, JoinSafe, Gone
<1> QED BY <1>6, <1>7 DEF ThreadIInv

LEMMA EndJoinKept ==
  ASSUME ThreadIInv, NEW a \in Agent, EndJoin(a)
  PROVE  ThreadIInv'
<1> USE Threads
<1> DEFINE w == Worker(a)
<1>1. Gone(w)
  <2>1. ctor[w] = "done" /\ (waits[a] = w \/ Gone(w)) /\ w \in Thread
    BY DEF ThreadIInv, JoinSafe, EndJoin, WaitOver
  <2>2. CASE waits[a] = w
    <3>1. run[w] = "ended" \/ handles[object[w]] # w
      BY <2>2 DEF EndJoin, WaitOver
    <3>2. run[w] \notin {"none", "closed", "ended"} => handles[object[w]] = w
      BY <2>1 DEF ThreadIInv, ThreadTypeOK, HandleStored
    <3> QED BY <2>1, <3>1, <3>2 DEF Gone
  <2> QED BY <2>1, <2>2
<1>2. ThreadTypeOK' /\ HandlesAreOwn' /\ HandleStored'
  BY DEF ThreadIInv, ThreadTypeOK, HandlesAreOwn, HandleStored, EndJoin
<1>3. JoinSafe' BY <1>1 DEF ThreadIInv, ThreadTypeOK, JoinSafe, EndJoin, Gone
<1> QED BY <1>2, <1>3 DEF ThreadIInv

LEMMA ThreadStepOK == ThreadIInv /\ [ThreadNext]_threadVars => ThreadIInv'
<1> SUFFICES ASSUME ThreadIInv, [ThreadNext]_threadVars PROVE ThreadIInv'
  OBVIOUS
<1>1. CASE UNCHANGED threadVars
  BY <1>1
  DEF threadVars, join, ThreadIInv, ThreadTypeOK, HandlesAreOwn, HandleStored, JoinSafe, Gone
<1>2. CASE ThreadNext
  BY <1>2, CreateThreadKept, CreateThreadFailsKept, StoreKept, ResumeKept, CallReturnsKept,
     CloseOwnKept, EndKept, BeginJoinKept, EndJoinKept DEF ThreadNext
<1> QED BY <1>1, <1>2

LEMMA ThreadInvariantHolds == ThreadSpec => []ThreadIInv
BY ThreadInitOK, ThreadStepOK, PTL DEF ThreadSpec

\* Every handle of the table stands for a thread, and a thread whose function is
\* entered is behind its constructor (thread.h:129-157).
THEOREM ThreadTypeCorrect == ThreadSpec => []ThreadTypeOK
BY ThreadInvariantHolds, PTL DEF ThreadIInv

\* Each thread closes its own handle, once, whatever numbers are reused
\* (thread_win.cpp:5-12).
THEOREM OwnHandles == ThreadSpec => []HandlesAreOwn
BY ThreadInvariantHolds, PTL DEF ThreadIInv

\* A step of ThreadWin runs, returns or deletes one agent, or none.
LEMMA StepRefines == ThreadIInv /\ ThreadIInv' /\ [ThreadNext]_threadVars => [Abstract!Next]_Life
<1> SUFFICES ASSUME ThreadIInv, ThreadIInv', [ThreadNext]_threadVars
             PROVE  Abstract!Next \/ Life' = Life
  BY DEF Abstract!Next
<1> USE Threads
<1>1. CASE UNCHANGED threadVars
  BY <1>1 DEF threadVars, join, Life
<1>2. ASSUME NEW t \in Thread,
             \/ \E h \in Handle : CreateThread(t, h)
             \/ CreateThreadFails(t) \/ Store(t) \/ CloseOwn(t) \/ End(t)
      PROVE  Life' = Life
  BY <1>2 DEF CreateThread, CreateThreadFails, Store, CloseOwn, End, Turn, join, Life,
              ThreadIInv, ThreadTypeOK, HandleStored
<1>3. ASSUME NEW t \in Thread, ResumeThread(t) \/ CallReturns(t)
      PROVE  Abstract!Next \/ Life' = Life
  <2>1. CASE t[2] = "deleter"
    BY <1>3, <2>1 DEF ResumeThread, CallReturns, join, Life, ThreadIInv, ThreadTypeOK
  <2>2. CASE t[2] = "agent"
    <3> DEFINE a == t[1]
    <3>1. a \in Agent /\ t = Worker(a)
      BY <2>2
    <3>2. a \notin joined
      BY <1>3, <3>1 DEF ThreadIInv, JoinSafe, Gone, ResumeThread, CallReturns
    <3>3. joined' = joined /\ \A b \in Agent \ {a} : run'[Worker(b)] = run[Worker(b)]
      BY <1>3, <3>1 DEF ThreadIInv, ThreadTypeOK, ResumeThread, CallReturns, join
    <3>4. \/ run[t] = "suspended" /\ run'[t] = "running"
          \/ run[t] = "running" /\ run'[t] = "returned"
      BY <1>3 DEF ThreadIInv, ThreadTypeOK, HandleStored, ResumeThread, CallReturns
    <3>5. /\ Life[a] = IF run[t] = "suspended" THEN "new" ELSE "running"
          /\ Life'[a] = IF run[t] = "suspended" THEN "running" ELSE "over"
          /\ Life' = [Life EXCEPT ![a] = Life'[a]]
      <4>1. Life'[a] = IF run[t] = "suspended" THEN "running" ELSE "over"
        BY <3>1, <3>2, <3>3, <3>4 DEF Life
      <4>2. \A b \in Agent \ {a} : Life'[b] = Life[b]
        BY <3>1, <3>3 DEF Life
      <4> QED BY <3>1, <3>2, <3>4, <4>1, <4>2 DEF Life
    <3>6. Abstract!Run(a) \/ Abstract!Return(a)
      BY <3>4, <3>5 DEF Abstract!Run, Abstract!Return
    <3> QED BY <3>1, <3>6 DEF Abstract!Next
  <2> QED BY <2>1, <2>2
<1>4. ASSUME NEW a \in Agent, BeginJoin(a) \/ EndJoin(a)
      PROVE  Abstract!Next \/ Life' = Life
  <2>1. run' = run /\ (joined' = joined \/ joined' = joined \cup {a})
    BY <1>4 DEF BeginJoin, EndJoin
  <2>2. CASE joined' = joined
    BY <2>1, <2>2 DEF Life
  <2>3. CASE a \notin joined /\ joined' = joined \cup {a}
    <3>1. run[Worker(a)] \in {"none", "closed", "ended"}
      BY <2>1, <2>3 DEF ThreadIInv, JoinSafe, Gone
    <3>2. Abstract!Delete(a)
      BY <2>1, <2>3, <3>1 DEF Abstract!Delete, Life
    <3> QED BY <3>2 DEF Abstract!Next
  <2> QED BY <2>1, <2>2, <2>3
<1> QED BY <1>1, <1>2, <1>3, <1>4 DEF ThreadNext

\* The join of the Windows build keeps what DeleteRpcAgent relies on: it returns
\* only when the agent's thread has left the agent (thread_win.cpp:14-17).
THEOREM Implementation == ThreadSpec => ImplementsAgentLife
<1>1. ThreadInit => Abstract!Init
  BY Threads DEF ThreadInit, Abstract!Init, Life
<1> QED
  BY <1>1, ThreadInvariantHolds, StepRefines, PTL
  DEF ThreadSpec, Abstract!Spec, ImplementsAgentLife

-------------------------------------------------------------------------------
(* WinSock *)

\* Before WSAStartup Winsock is down and no agent is there; an agent has no
\* server's label.
Labels ==
  /\ pc[Server] = "startup" => started = 0 /\ \A a \in Agent : pc[a] = "none"
  /\ pc[Server] \in {"startup", "getaddrinfo", "socket", "bind", "loop", "listen",
                     "accept", "close"} \cup Ended
  /\ \A a \in Agent : pc[a] \in {"none", "unstarted", "recv", "send", "shutdown"} \cup Ended

SockIInv == SockTypeOK /\ SocketsInUse /\ Labels

LEMMA Owners ==
  /\ Server \in Owner /\ Server \notin Agent
  /\ \A a \in Agent : a \in Owner /\ a # Server
  /\ \A o \in Owner : o = Server \/ o \in Agent
  /\ NULL \notin Owner /\ NULL \notin Number
BY WinSockAssumption DEF Owner

LEMMA SockInitOK == SockInit => SockIInv
<1> SUFFICES ASSUME SockInit PROVE SockIInv
  OBVIOUS
<1> USE Owners
<1>1. /\ \A o \in Owner : pc[o] = IF o = Server THEN "startup" ELSE "none"
      /\ \A n \in Number : sockets[n] = NULL
      /\ started = 0
  BY DEF SockInit
<1>2. SockTypeOK
  BY WinSockAssumption DEF SockInit, SockTypeOK
<1>3. SocketsInUse
  BY <1>1 DEF SocketsInUse, Using
<1>4. Labels
  BY <1>1 DEF Labels
<1> QED BY <1>2, <1>3, <1>4 DEF SockIInv

\* A step that brings Winsock down leaves no socket and nothing to show.
LEMMA DownKept ==
  ASSUME SockIInv, started' = 0, sockets' = [n \in Number |-> NULL], sock' = sock,
         sends' = sends, NEW o \in Owner, pc[o] # "none", NEW label \in Ended,
         pc' = [pc EXCEPT ![o] = label]
  PROVE  SockIInv'
<1> USE Owners
<1>1. SockTypeOK'
  BY DEF SockIInv, SockTypeOK
<1>2. Labels'
  BY DEF SockIInv, SockTypeOK, Labels, Ended
<1>3. \A q \in Owner : pc'[q] \in Using => pc[q] \in Using /\ sock[q] \in Number
  BY DEF SockIInv, SockTypeOK, SocketsInUse, Using, Ended
<1>4. SocketsInUse'
  BY <1>3 DEF SocketsInUse
<1> QED BY <1>1, <1>2, <1>4 DEF SockIInv

\* The last start-up is ended by any WSACleanup.
LEMMA CleanupDown ==
  ASSUME SockIInv, NEW before, NEW times \in {1, 2}, Cleanup(times, before)
  PROVE  started' = 0 /\ sockets' = [n \in Number |-> NULL]
BY DEF SockIInv, SockTypeOK, Cleanup

\* A step of one thread between two calls, its socket unchanged.
LEMMA MoveKept ==
  ASSUME SockIInv, UNCHANGED <<started, sockets, sock>>, NEW o \in Owner, NEW label,
         pc' = [pc EXCEPT ![o] = label],
         \/ pc[o] \in Using /\ label \in Using
         \/ pc[o] \notin Using \cup {"startup"} /\ label = "socket",
         IF o = Server THEN label \in {"socket", "loop", "listen", "accept", "close"}
                       ELSE label \in {"recv", "send", "shutdown"},
         sends' \in [Agent -> 0 .. MaxSends]
  PROVE  SockIInv'
<1> USE Owners
<1>1. SockTypeOK' BY DEF SockIInv, SockTypeOK, Using
<1>2. Labels' BY DEF SockIInv, SockTypeOK, Labels, Using, Ended
<1>3. /\ \A q \in Owner : pc'[q] \in Using => pc[q] \in Using
      /\ \A q \in Owner : pc[q] \in Using \cup {"unstarted"} =>
                            pc'[q] \in Using \cup {"unstarted"}
      /\ \A q \in Owner : pc'[q] = "unstarted" => pc[q] = "unstarted"
      /\ \A q \in Owner : pc'[q] = "failed" => pc[q] = "failed"
  BY DEF SockIInv, SockTypeOK, Labels, Using, Ended
<1>4. SocketsInUse'
  BY <1>3 DEF SockIInv, SockTypeOK, SocketsInUse
<1> QED BY <1>1, <1>2, <1>4 DEF SockIInv

LEMMA CreateSocketKept ==
  ASSUME SockIInv, NEW o \in Owner, NEW n \in Number, Create(o, n),
         pc[o] \notin Using \cup {"unstarted"}, UNCHANGED <<started, sends>>,
         \/ o = Server /\ pc' = [pc EXCEPT ![Server] = "bind"]
         \/ /\ o \in Agent /\ pc[Server] = "accept"
            /\ \/ pc' = [pc EXCEPT ![Server] = "loop", ![o] = "recv"]
               \/ pc' = [pc EXCEPT ![Server] = "loop", ![o] = "unstarted"]
  PROVE  SockIInv'
<1> USE Owners
<1>1. SockTypeOK' BY DEF SockIInv, SockTypeOK, Using, Create
<1>2. Labels' BY DEF SockIInv, SockTypeOK, Labels, Create
<1>3. /\ \A m \in Number \ {n} : sockets'[m] = sockets[m]
      /\ sockets'[n] = o /\ sockets[n] = NULL
      /\ \A q \in Owner \ {o} : sock'[q] = sock[q]
      /\ sock'[o] = n
      /\ pc'[o] \in Using \cup {"unstarted"}
      /\ \A q \in Owner \ {o} : pc'[q] \in Using \cup {"unstarted"} <=>
                                   pc[q] \in Using \cup {"unstarted"}
      /\ \A q \in Owner : pc'[q] = "failed" => pc[q] = "failed"
      /\ started > 0 /\ started' = started
  BY DEF SockIInv, SockTypeOK, Create, Using
<1>4. SocketsInUse'
  <2>1. \A q \in Owner \ {o} : pc[q] \in Using \cup {"unstarted"} =>
          sock[q] \in Number /\ sockets[sock[q]] = q /\ sock[q] # n
    BY <1>3 DEF SockIInv, SockTypeOK, SocketsInUse, Labels
  <2>2. ASSUME NEW q \in Owner, pc'[q] \in Using \cup {"unstarted"}
        PROVE  sock'[q] # NULL /\ sockets'[sock'[q]] = q
    <3>1. CASE q = o
      BY <1>3, <3>1
    <3>2. CASE q # o
      <4>1. q \in Owner \ {o} /\ pc[q] \in Using \cup {"unstarted"}
        BY <1>3, <2>2, <3>2
      <4>2. sock[q] \in Number \ {n} /\ sockets[sock[q]] = q /\ sock'[q] = sock[q]
        BY <1>3, <2>1, <4>1
      <4> QED BY <1>3, <4>2
    <3> QED BY <3>1, <3>2
  <2>3. \A m \in Number : sockets'[m] # NULL =>
          pc'[sockets'[m]] \in Using \cup {"unstarted"} /\ sock'[sockets'[m]] = m
    <3>1. \A m \in Number \ {n} : sockets[m] # NULL => sockets[m] \in Owner \ {o}
      BY <1>3 DEF SockIInv, SockTypeOK, SocketsInUse
    <3>2. ASSUME NEW m \in Number \ {n}, sockets[m] # NULL
          PROVE  pc'[sockets[m]] \in Using \cup {"unstarted"} /\ sock'[sockets[m]] = m
      <4>1. sockets[m] \in Owner \ {o}
        BY <3>1, <3>2
      <4>2. pc[sockets[m]] \in Using \cup {"unstarted"} /\ sock[sockets[m]] = m
        BY <3>2 DEF SockIInv, SocketsInUse
      <4> QED BY <1>3, <4>1, <4>2
    <3> QED BY <1>3, <3>2
  <2>4. ~ \E q \in Owner : pc'[q] = "failed"
    BY <1>3 DEF SockIInv, SocketsInUse
  <2> QED BY <1>3, <2>2, <2>3, <2>4 DEF SocketsInUse
<1> QED BY <1>1, <1>2, <1>4 DEF SockIInv

\* A thread closes its socket behind its last call.
LEMMA CloseSocketKept ==
  ASSUME SockIInv, NEW a \in Agent, Usable(a), pc[a] = "shutdown", sockets' = Without(a),
         UNCHANGED <<started, sock, sends>>, pc' = [pc EXCEPT ![a] = "over"]
  PROVE  SockIInv'
<1> USE Owners
<1>1. /\ sockets' = [sockets EXCEPT ![sock[a]] = NULL]
      /\ sock[a] \in Number
      /\ sockets[sock[a]] = a
      /\ started > 0
  BY DEF SockIInv, SockTypeOK, Without, Usable
<1>2. SockTypeOK' BY <1>1 DEF SockIInv, SockTypeOK, Ended
<1>3. Labels' BY DEF SockIInv, SockTypeOK, Labels, Ended
<1>4. SocketsInUse'
  <2>1. \A q \in Owner : pc'[q] \in Using \cup {"unstarted"} =>
          q # a /\ pc[q] = pc'[q]
    BY DEF SockIInv, SockTypeOK, Using
  <2>2. ASSUME NEW q \in Owner, pc'[q] \in Using \cup {"unstarted"}
        PROVE  sock[q] # NULL /\ sockets'[sock[q]] = q
    <3>1. q # a /\ pc[q] \in Using \cup {"unstarted"}
      BY <2>1, <2>2
    <3>2. sock[q] \in Number /\ sockets[sock[q]] = q
      <4>1. q = Server => pc[q] # "unstarted"
        BY DEF SockIInv, Labels, Ended
      <4>2. q \in Agent \/ pc[q] \in Using
        BY <3>1, <4>1
      <4> QED BY <1>1, <3>1, <4>2 DEF SockIInv, SockTypeOK, SocketsInUse
    <3> QED BY <1>1, <3>1, <3>2 DEF SockIInv, SockTypeOK
  <2>3. \A m \in Number : sockets'[m] # NULL =>
          sockets'[m] = sockets[m] /\ sockets[m] \in Owner \ {a}
    BY <1>1 DEF SockIInv, SockTypeOK, SocketsInUse
  <2>4. \A m \in Number : sockets'[m] # NULL =>
          sock[sockets'[m]] = m /\ pc'[sockets'[m]] \in Using \cup {"unstarted"}
    BY <2>3 DEF SockIInv, SockTypeOK, SocketsInUse
  <2>5. ~ \E q \in Owner : pc'[q] = "failed"
    BY <1>1 DEF SockIInv, SockTypeOK, SocketsInUse
  <2> QED BY <1>1, <2>2, <2>4, <2>5 DEF SocketsInUse
<1> QED BY <1>2, <1>3, <1>4 DEF SockIInv

LEMMA SockStepOK == SockIInv /\ [SockNext]_sockVars => SockIInv'
<1> SUFFICES ASSUME SockIInv, [SockNext]_sockVars PROVE SockIInv'
  OBVIOUS
<1> USE Owners
<1>1. CASE UNCHANGED sockVars
  BY <1>1 DEF sockVars, SockIInv, SockTypeOK, SocketsInUse, Labels, Usable
<1>2. CASE InitStartup
  <2>1. /\ pc[Server] = "startup" /\ started = 0 /\ started' \in {0, 1}
        /\ pc'[Server] \in {"getaddrinfo", "failed"}
        /\ pc'[Server] = "failed" => started' = 0
        /\ \A a \in Agent : pc[a] = "none" /\ pc'[a] = "none"
        /\ \A n \in Number : sockets[n] = NULL
        /\ UNCHANGED <<sockets, sock, sends>>
    BY <1>2 DEF InitStartup, Startup, Goto, SockIInv, SockTypeOK, Labels
  <2>2. SockTypeOK'
    BY <1>2, <2>1 DEF InitStartup, Goto, SockIInv, SockTypeOK, Using, Ended
  <2>3. Labels'
    BY <2>1 DEF Labels, Ended
  <2>4. SocketsInUse'
    BY <2>1 DEF SocketsInUse, Using, Owner
  <2> QED BY <2>2, <2>3, <2>4 DEF SockIInv
<1>3. CASE InitResolve
  <2>1. CASE Goto(Server, "socket") /\ UNCHANGED <<started, sockets>>
    BY <1>3, <2>1, MoveKept DEF InitResolve, Goto, SockIInv, SockTypeOK, Using
  <2>2. CASE Cleanup(1, sockets) /\ Goto(Server, "failed")
    BY <1>3, <2>2, CleanupDown, DownKept DEF Ended, InitResolve, Goto
  <2> QED BY <1>3, <2>1, <2>2 DEF InitResolve
<1>4. CASE InitSocket
  <2>1. CASE (\E n \in Number : Create(Server, n)) /\ Goto(Server, "bind") /\ UNCHANGED started
    BY <1>4, <2>1, CreateSocketKept DEF InitSocket, Goto, Using
  <2>2. CASE Cleanup(1, sockets) /\ Goto(Server, "failed") /\ UNCHANGED sock
    BY <1>4, <2>2, CleanupDown, DownKept DEF Ended, InitSocket, Goto
  <2> QED BY <1>4, <2>1, <2>2 DEF InitSocket
<1>5. CASE InitBind
  <2>1. CASE Usable(Server) /\ Goto(Server, "loop") /\ UNCHANGED <<started, sockets>>
    BY <1>5, <2>1, MoveKept DEF InitBind, Goto, SockIInv, SockTypeOK, Using
  <2>2. CASE Cleanup(2, Without(Server)) /\ Goto(Server, "failed")
    BY <1>5, <2>2, CleanupDown, DownKept DEF Ended, InitBind, Goto
  <2> QED BY <1>5, <2>1, <2>2 DEF InitBind
<1>6. CASE Loop
  BY <1>6, MoveKept DEF Loop, Goto, SockIInv, SockTypeOK, Using
<1>7. CASE WaitFails
  BY <1>7, CleanupDown, DownKept DEF Ended, WaitFails, Goto
<1>8. CASE Listen
  BY <1>8, MoveKept DEF Listen, Goto, SockIInv, SockTypeOK, Using
<1>9. CASE ServerClose
  BY <1>9, CleanupDown, DownKept DEF Ended, ServerClose, Goto
<1>10. ASSUME NEW a \in Agent, NEW n \in Number, Accept(a, n) \/ AcceptWithoutThread(a, n)
       PROVE SockIInv'
  BY <1>10, CreateSocketKept DEF Accept, AcceptWithoutThread, Connect, Using
<1>11. ASSUME NEW a \in Agent, Recv(a) PROVE SockIInv'
  <2>1. sends' \in [Agent -> 0 .. MaxSends]
    BY <1>11 DEF Recv, SockIInv, SockTypeOK
  <2> QED BY <1>11, <2>1, MoveKept DEF Recv, Goto, Using
<1>12. ASSUME NEW a \in Agent, Send(a) PROVE SockIInv'
  <2>1. CASE sends[a] = 0
    BY <1>12, <2>1, MoveKept DEF Send, Goto, Using, SockIInv, SockTypeOK
  <2>2. CASE sends[a] # 0
    <3>1. sends' \in [Agent -> 0 .. MaxSends]
      BY <1>12, <2>2, WinSockAssumption DEF Send, SockIInv, SockTypeOK
    <3>2. UNCHANGED <<started, sockets, sock, pc>>
      BY <1>12, <2>2 DEF Send
    <3> QED BY <3>1, <3>2 DEF SockIInv, SockTypeOK, SocketsInUse, Labels, Usable
  <2> QED BY <2>1, <2>2
<1>13. ASSUME NEW a \in Agent, CallFails(a) PROVE SockIInv'
  BY <1>13, CleanupDown, DownKept DEF Ended, CallFails, Goto
<1>14. ASSUME NEW a \in Agent, Close(a) PROVE SockIInv'
  <2>1. CASE /\ Usable(a) /\ sockets' = Without(a) /\ UNCHANGED started
             /\ Goto(a, "over")
    BY <1>14, <2>1, CloseSocketKept DEF Close, Goto
  <2>2. CASE Cleanup(1, Without(a)) /\ Goto(a, "failed")
    BY <1>14, <2>2, CleanupDown, DownKept DEF Ended, Close, Goto
  <2> QED BY <1>14, <2>1, <2>2 DEF Close
<1> QED
  BY <1>1, <1>2, <1>3, <1>4, <1>5, <1>6, <1>7, <1>8, <1>9, <1>10, <1>11, <1>12, <1>13,
     <1>14 DEF SockNext, ServerStep, AgentStep

\* Winsock is started once and never again, and once it is down no socket is left
\* (serversocket_win.cpp:49, 104-121; clientsocket_win.cpp:52-58).
THEOREM SockTypeCorrect == SockSpec => []SockTypeOK
BY SockInitOK, SockStepOK, PTL DEF SockSpec, SockIInv

\* No call is ever made on another's socket, a number stays open only for a thread
\* at its calls or for an agent that never got one, and behind any call that
\* failed nothing is open (clientsocket_win.cpp:39-88, serversocket_win.cpp:40-129).
THEOREM SocketsOwned == SockSpec => []SocketsInUse
BY SockInitOK, SockStepOK, PTL DEF SockSpec, SockIInv
================================================================================
