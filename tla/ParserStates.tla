----------------------------- MODULE ParserStates -----------------------------
(***************************************************************************)
(* The three objects that all parsers share as their states.  Each is made *)
(* by the first Instance() that finds its pointer null, in whichever agent *)
(* comes first and without a lock; DeleteSingletons deletes them when the  *)
(* process exits.  A thread returns from Instance with the pointer that it *)
(* tested or stored, or reads it once more: a build may do either.         *)
(***************************************************************************)
CONSTANTS
  Agent,   \* agents at work at a time; one that ends makes room for another
  Object,  \* places in memory for a state object
  NULL

Class == {"Closed", "Opened", "Paused"}

ASSUME StatesAssumption == NULL \notin Object \cup Class

VARIABLES
  m_pState,  \* by class, the pointer that its objects are found by
  kind,      \* the class of the object at a place, NULL when there is none
  maker,     \* history: the agent that made it
  at,        \* where an agent is: outside a parser, in Instance or in the object
  cls,       \* the class whose Instance or object that is
  state,     \* m_pState of the agent's XmlParser
  main,      \* "serving", "exit" (in DeleteSingletons) or "over"
  gone       \* by class, how far its Destroy is

vars == <<m_pState, kind, maker, at, cls, state, main, gone>>

-------------------------------------------------------------------------------
(* Instance *)

Goto(a, label) == at' = [at EXCEPT ![a] = label]

Take(a, object) == state' = [state EXCEPT ![a] = object] /\ Goto(a, "use")

\* Back with an object in hand, or to the second look at the pointer.
Found(a, object) == Take(a, object) \/ (Goto(a, "return") /\ UNCHANGED state)

Test_Always(a) ==
  /\ main # "over"
  /\ at[a] = "test"
  /\ Goto(a, "new")
  /\ UNCHANGED <<m_pState, kind, maker, cls, state, main, gone>>

Test(a) ==
  /\ main # "over"
  /\ at[a] = "test"
  /\ IF m_pState[cls[a]] = NULL
     THEN Goto(a, "new") /\ UNCHANGED state
     ELSE Found(a, m_pState[cls[a]])
  /\ UNCHANGED <<m_pState, kind, maker, cls, main, gone>>

New_Replace(a, x) ==
  LET old == m_pState[cls[a]]
  IN  /\ main # "over"
      /\ at[a] = "new"
      /\ kind[x] = NULL
      /\ kind' = [y \in Object |-> IF y = x THEN cls[a] ELSE IF y = old THEN NULL ELSE kind[y]]
      /\ maker' = [maker EXCEPT ![x] = a]
      /\ m_pState' = [m_pState EXCEPT ![cls[a]] = x]
      /\ Found(a, x)
      /\ UNCHANGED <<cls, main, gone>>

\* Another agent may have stored its object since the test; that one is lost.
New(a, x) ==
  /\ main # "over"
  /\ at[a] = "new"
  /\ kind[x] = NULL
  /\ kind' = [kind EXCEPT ![x] = cls[a]]
  /\ maker' = [maker EXCEPT ![x] = a]
  /\ m_pState' = [m_pState EXCEPT ![cls[a]] = x]
  /\ Found(a, x)
  /\ UNCHANGED <<cls, main, gone>>

Return(a) ==
  /\ main # "over"
  /\ at[a] = "return"
  /\ Take(a, m_pState[cls[a]])
  /\ UNCHANGED <<m_pState, kind, maker, cls, main, gone>>

-------------------------------------------------------------------------------
(* XmlParser, from ReceiveCommand *)

Change(a, class) == Goto(a, "test") /\ cls' = [cls EXCEPT ![a] = class]

\* The constructor.
Begin(a) ==
  /\ main # "over"
  /\ at[a] = "none"
  /\ Change(a, "Closed")
  /\ UNCHANGED <<m_pState, kind, maker, state, main, gone>>

\* Open of the closed state or Read of the opened one comes to its ChangeState.
\* What a deleted object does is undefined: it may still do that.
Advance(a) ==
  /\ main # "over"
  /\ at[a] = "use"
  /\ state[a] # NULL
  /\ kind[state[a]] \in {cls[a], NULL}
  /\ \/ cls[a] = "Closed" /\ Change(a, "Opened")
     \/ cls[a] = "Opened" /\ Change(a, "Paused")
  /\ UNCHANGED <<m_pState, kind, maker, state, main, gone>>

End_Delete(a) ==
  /\ main # "over"
  /\ at[a] = "use"
  /\ state[a] # NULL
  /\ Goto(a, "none")
  /\ state' = [state EXCEPT ![a] = NULL]
  /\ cls' = [cls EXCEPT ![a] = "Closed"]
  /\ kind' = [kind EXCEPT ![state[a]] = NULL]
  /\ UNCHANGED <<m_pState, maker, main, gone>>

\* The parser ends: a header or a line is refused, a call fails, or all is read.
End(a) ==
  /\ main # "over"
  /\ at[a] = "use"
  /\ state[a] # NULL
  /\ Goto(a, "none")
  /\ state' = [state EXCEPT ![a] = NULL]
  /\ cls' = [cls EXCEPT ![a] = "Closed"]
  /\ UNCHANGED <<m_pState, kind, maker, main, gone>>

\* A call through a pointer that is null or to a deleted object.
Crash(a) ==
  /\ main # "over"
  /\ at[a] = "use"
  /\ IF state[a] = NULL THEN TRUE ELSE kind[state[a]] = NULL
  /\ main' = "over"
  /\ UNCHANGED <<m_pState, kind, maker, at, cls, state, gone>>

-------------------------------------------------------------------------------
(* The process exits, whatever the agents do *)

Exit ==
  /\ main = "serving"
  /\ main' = "exit"
  /\ UNCHANGED <<m_pState, kind, maker, at, cls, state, gone>>

Earlier(c) ==
  CASE c = "Closed" -> {}
    [] c = "Opened" -> {"Closed"}
    [] c = "Paused" -> {"Closed", "Opened"}

Destroy(c) ==
  /\ main = "exit"
  /\ gone[c] = "no" /\ \A d \in Earlier(c) : gone[d] = "zeroed"
  /\ kind' = IF m_pState[c] = NULL THEN kind ELSE [kind EXCEPT ![m_pState[c]] = NULL]
  /\ gone' = [gone EXCEPT ![c] = "deleted"]
  /\ UNCHANGED <<m_pState, maker, at, cls, state, main>>

Zero(c) ==
  /\ main = "exit"
  /\ gone[c] = "deleted"
  /\ m_pState' = [m_pState EXCEPT ![c] = NULL]
  /\ gone' = [gone EXCEPT ![c] = "zeroed"]
  /\ UNCHANGED <<kind, maker, at, cls, state, main>>

Over ==
  /\ main = "exit"
  /\ \A c \in Class : gone[c] = "zeroed"
  /\ main' = "over"
  /\ UNCHANGED <<m_pState, kind, maker, at, cls, state, gone>>

-------------------------------------------------------------------------------
Init ==
  /\ m_pState = [c \in Class |-> NULL]
  /\ kind = [x \in Object |-> NULL]
  /\ maker = [x \in Object |-> NULL]
  /\ at = [a \in Agent |-> "none"]
  /\ cls = [a \in Agent |-> "Closed"]
  /\ state = [a \in Agent |-> NULL]
  /\ main = "serving"
  /\ gone = [c \in Class |-> "no"]

AgentStep(a) ==
  \/ Begin(a) \/ Test(a) \/ Return(a) \/ Advance(a) \/ End(a) \/ Crash(a)
  \/ \E x \in Object : New(a, x)

MainStep == Exit \/ Over \/ \E c \in Class : Destroy(c) \/ Zero(c)

Next == MainStep \/ \E a \in Agent : AgentStep(a)

Spec == Init /\ [][Next]_vars

-------------------------------------------------------------------------------
(* Properties *)

TypeOK ==
  /\ m_pState \in [Class -> Object \cup {NULL}]
  /\ kind \in [Object -> Class \cup {NULL}]
  /\ maker \in [Object -> Agent \cup {NULL}]
  /\ at \in [Agent -> {"none", "test", "new", "return", "use"}]
  /\ cls \in [Agent -> Class]
  /\ state \in [Agent -> Object \cup {NULL}]
  /\ main \in {"serving", "exit", "over"}
  /\ gone \in [Class -> {"no", "deleted", "zeroed"}]
  /\ main = "serving" => \A c \in Class : m_pState[c] # NULL => kind[m_pState[c]] = c

\* While the server runs a parser works through an object of the class that it
\* is in, also when another agent has stored a second object of that class
\* meanwhile (xml.cpp:252-257, 307-312, 361-366).
StateIsLive ==
  main = "serving" =>
    \A a \in Agent :
      /\ at[a] = "use" => state[a] # NULL /\ kind[state[a]] = cls[a]
      /\ at[a] = "return" => m_pState[cls[a]] # NULL
      /\ state[a] # NULL => kind[state[a]] # NULL

\* The race costs at most one object of each class for each agent that runs at
\* the time, however many requests the agents' threads serve.
OneEach ==
  main = "serving" =>
    \A x, y \in Object :
      kind[x] # NULL /\ kind[x] = kind[y] /\ maker[x] = maker[y] => x = y

\* Once the pointer is set and nobody is between the test and the store, the
\* object is the one that everybody gets until the process exits.
Settled(c) ==
  m_pState[c] # NULL /\ \A a \in Agent : ~ (at[a] = "new" /\ cls[a] = c)
SettledForGood ==
  [][main' = "serving" => \A c \in Class : Settled(c) =>
       Settled(c)' /\ m_pState'[c] = m_pState[c]]_vars
================================================================================
