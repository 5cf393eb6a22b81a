-------------------------- MODULE ParserStatesProofs --------------------------
(***************************************************************************)
(* What holds of ParserStates for every number of agents, in memory of any *)
(* size.                                                                   *)
(***************************************************************************)
EXTENDS ParserStates, TLAPS

\* While the server runs an object has its maker and its class a pointer, and an
\* agent that is about to make one has not made one of that class yet.
Makers ==
  main = "serving" =>
    /\ \A x \in Object : kind[x] # NULL => maker[x] \in Agent /\ m_pState[kind[x]] # NULL
    /\ \A a \in Agent, x \in Object :
         at[a] = "new" => ~ (kind[x] = cls[a] /\ maker[x] = a)

IInv == TypeOK /\ StateIsLive /\ OneEach /\ Makers

LEMMA InitOK == Init => IInv
BY StatesAssumption DEF Init, IInv, TypeOK, StateIsLive, OneEach, Makers, Class

\* A step of one agent outside New: the objects and the pointers stay.
LEMMA AgentKept ==
  ASSUME IInv, NEW a \in Agent,
         UNCHANGED <<m_pState, kind, maker, main, gone>>,
         at' \in [Agent -> {"none", "test", "new", "return", "use"}],
         cls' \in [Agent -> Class], state' \in [Agent -> Object \cup {NULL}],
         \A b \in Agent \ {a} : at'[b] = at[b] /\ cls'[b] = cls[b] /\ state'[b] = state[b],
         main = "serving" =>
           /\ at'[a] = "use" => state'[a] # NULL /\ kind[state'[a]] = cls'[a]
           /\ at'[a] = "return" => m_pState[cls'[a]] # NULL
           /\ state'[a] # NULL => kind[state'[a]] # NULL
           /\ at'[a] = "new" => m_pState[cls'[a]] = NULL
  PROVE  IInv'
<1>1. TypeOK' BY DEF IInv, TypeOK
<1>2. StateIsLive' BY DEF IInv, StateIsLive
<1>3. OneEach' BY DEF IInv, OneEach
<1>4. Makers'
  <2>1. SUFFICES ASSUME main = "serving" PROVE Makers'
    BY DEF Makers
  <2>2. \A x \in Object : kind[x] # NULL => maker[x] \in Agent /\ m_pState[kind[x]] # NULL
    BY <2>1 DEF IInv, Makers
  <2>3. ASSUME NEW b \in Agent, NEW x \in Object, at'[b] = "new"
        PROVE  ~ (kind[x] = cls'[b] /\ maker[x] = b)
    <3>1. CASE b = a
      BY <2>1, <2>2, <2>3, <3>1, StatesAssumption DEF IInv, TypeOK
    <3>2. CASE b # a
      BY <2>1, <2>3, <3>2 DEF IInv, Makers
    <3> QED BY <3>1, <3>2
  <2> QED BY <2>2, <2>3 DEF Makers
<1> QED BY <1>1, <1>2, <1>3, <1>4 DEF IInv

\* Once the process exits only the types are left to keep.
LEMMA ExitKept == ASSUME main' # "serving", TypeOK' PROVE IInv'
BY DEF IInv, StateIsLive, OneEach, Makers

LEMMA NewKept ==
  ASSUME IInv, NEW a \in Agent, NEW x \in Object, New(a, x)
  PROVE  IInv'
<1>1. /\ kind[x] = NULL /\ at[a] = "new" /\ cls[a] \in Class
      /\ kind'[x] = cls[a] /\ maker'[x] = a /\ m_pState'[cls[a]] = x
      /\ \A y \in Object \ {x} : kind'[y] = kind[y] /\ maker'[y] = maker[y]
      /\ \A c \in Class \ {cls[a]} : m_pState'[c] = m_pState[c]
      /\ cls' = cls /\ main' = main
      /\ \A b \in Agent \ {a} : at'[b] = at[b] /\ state'[b] = state[b]
      /\ \/ at'[a] = "use" /\ state'[a] = x
         \/ at'[a] = "return" /\ state'[a] = state[a]
  BY DEF IInv, TypeOK, New, Found, Take, Goto
<1>2. TypeOK'
  <2>1. /\ m_pState' \in [Class -> Object \cup {NULL}]
        /\ kind' \in [Object -> Class \cup {NULL}]
        /\ maker' \in [Object -> Agent \cup {NULL}]
        /\ at' \in [Agent -> {"none", "test", "new", "return", "use"}]
        /\ state' \in [Agent -> Object \cup {NULL}]
    BY DEF IInv, TypeOK, New, Found, Take, Goto
  <2>2. ASSUME main = "serving", NEW c \in Class, m_pState'[c] # NULL
        PROVE  kind'[m_pState'[c]] = c
    BY <1>1, <2>2, StatesAssumption DEF IInv, TypeOK
  <2>3. cls' \in [Agent -> Class] /\ gone' \in [Class -> {"no", "deleted", "zeroed"}]
        /\ main' \in {"serving", "exit", "over"}
    BY DEF IInv, TypeOK, New
  <2> QED BY <1>1, <2>1, <2>2, <2>3 DEF TypeOK
<1> SUFFICES ASSUME main = "serving" PROVE IInv'
  BY <1>1, <1>2, ExitKept
<1>3. \A y \in Object : kind[y] # NULL => y # x /\ kind'[y] = kind[y] /\ maker'[y] = maker[y]
  BY <1>1
<1>4. StateIsLive'
  <2>1. ASSUME NEW b \in Agent
        PROVE  /\ at'[b] = "use" => state'[b] # NULL /\ kind'[state'[b]] = cls[b]
               /\ at'[b] = "return" => m_pState'[cls[b]] # NULL
               /\ state'[b] # NULL => kind'[state'[b]] # NULL
    <3>1. CASE b = a
      BY <1>1, <1>3, <3>1, StatesAssumption DEF IInv, TypeOK, StateIsLive
    <3>2. CASE b # a
      BY <1>1, <1>3, <3>2, StatesAssumption DEF IInv, TypeOK, StateIsLive
    <3> QED BY <3>1, <3>2
  <2> QED BY <1>1, <2>1 DEF StateIsLive
<1>5. OneEach'
  <2>1. ASSUME NEW y \in Object, kind[y] = cls[a] PROVE maker[y] # a
    BY <1>1, <2>1 DEF IInv, Makers
  <2> QED BY <1>1, <1>3, <2>1 DEF IInv, OneEach
<1>6. Makers'
  <2>1. \A y \in Object : kind'[y] # NULL => maker'[y] \in Agent /\ m_pState'[kind'[y]] # NULL
    BY <1>1, <1>3, StatesAssumption DEF IInv, TypeOK, Makers
  <2>2. \A b \in Agent, y \in Object :
          at'[b] = "new" => ~ (kind'[y] = cls[b] /\ maker'[y] = b)
    BY <1>1, <1>3, StatesAssumption DEF IInv, TypeOK, Makers
  <2> QED BY <1>1, <2>1, <2>2 DEF Makers
<1> QED BY <1>2, <1>4, <1>5, <1>6 DEF IInv

LEMMA AgentOK == ASSUME IInv, NEW a \in Agent, AgentStep(a) PROVE IInv'
<1>1. CASE Begin(a)
  BY <1>1, AgentKept DEF Begin, Change, Goto, IInv, TypeOK, StateIsLive, Class
<1>2. CASE Test(a)
  <2>1. CASE m_pState[cls[a]] = NULL
    BY <1>2, <2>1, AgentKept DEF Test, Goto, IInv, TypeOK, StateIsLive
  <2>2. CASE m_pState[cls[a]] # NULL
    BY <1>2, <2>2, AgentKept, StatesAssumption
       DEF Test, Found, Take, Goto, IInv, TypeOK, StateIsLive
  <2> QED BY <2>1, <2>2
<1>3. CASE Return(a)
  BY <1>3, AgentKept, StatesAssumption DEF Return, Take, Goto, IInv, TypeOK, StateIsLive
<1>4. CASE Advance(a)
  BY <1>4, AgentKept DEF Advance, Change, Goto, IInv, TypeOK, StateIsLive, Class
<1>5. CASE End(a)
  BY <1>5, AgentKept DEF End, Goto, IInv, TypeOK, StateIsLive, Class
<1>6. CASE Crash(a)
  BY <1>6, ExitKept DEF Crash, IInv, TypeOK
<1>7. ASSUME NEW x \in Object, New(a, x) PROVE IInv'
  BY <1>7, NewKept
<1> QED BY <1>1, <1>2, <1>3, <1>4, <1>5, <1>6, <1>7 DEF AgentStep

LEMMA MainOK == ASSUME IInv, MainStep PROVE IInv'
<1>1. main' # "serving"
  BY DEF MainStep, Exit, Over, Destroy, Zero
<1>2. TypeOK'
  <2>1. CASE Exit \/ Over
    BY <2>1 DEF Exit, Over, IInv, TypeOK
  <2>2. ASSUME NEW c \in Class, Destroy(c) PROVE TypeOK'
    BY <2>2 DEF Destroy, IInv, TypeOK
  <2>3. ASSUME NEW c \in Class, Zero(c) PROVE TypeOK'
    BY <2>3 DEF Zero, IInv, TypeOK
  <2> QED BY <2>1, <2>2, <2>3 DEF MainStep
<1> QED BY <1>1, <1>2, ExitKept

LEMMA StepOK == IInv /\ [Next]_vars => IInv'
<1> SUFFICES ASSUME IInv, [Next]_vars PROVE IInv'
  OBVIOUS
<1>1. CASE UNCHANGED vars
  BY <1>1 DEF vars, IInv, TypeOK, StateIsLive, OneEach, Makers
<1> QED BY <1>1, AgentOK, MainOK DEF Next

LEMMA SettledKept ==
  ASSUME IInv, [Next]_vars, main' = "serving", NEW c \in Class, Settled(c)
  PROVE  Settled(c)' /\ m_pState'[c] = m_pState[c]
<1>1. CASE UNCHANGED vars
  BY <1>1 DEF vars, Settled
<1>2. CASE MainStep
  BY <1>2 DEF MainStep, Exit, Over, Destroy, Zero
<1>3. ASSUME NEW a \in Agent, NEW x \in Object, New(a, x)
      PROVE  Settled(c)' /\ m_pState'[c] = m_pState[c]
  <2>1. /\ at[a] = "new" /\ cls[a] # c /\ cls' = cls
        /\ m_pState'[c] = m_pState[c]
        /\ at'[a] # "new"
        /\ \A b \in Agent \ {a} : at'[b] = at[b]
    BY <1>3 DEF New, Found, Take, Goto, Settled, IInv, TypeOK
  <2> QED BY <2>1 DEF Settled
<1>4. ASSUME NEW a \in Agent,
             Begin(a) \/ Test(a) \/ Return(a) \/ Advance(a) \/ End(a) \/ Crash(a)
      PROVE  Settled(c)' /\ m_pState'[c] = m_pState[c]
  <2>1. m_pState' = m_pState
    BY <1>4 DEF Begin, Test, Return, Advance, End, Crash
  <2>2. \A b \in Agent \ {a} : at'[b] = at[b] /\ cls'[b] = cls[b]
    BY <1>4 DEF Begin, Test, Return, Advance, End, Crash, Change, Found, Take, Goto, IInv, TypeOK
  <2>3. at'[a] = "new" => cls'[a] # c
    BY <1>4 DEF Begin, Test, Return, Advance, End, Crash, Change, Found, Take, Goto, IInv,
                TypeOK, Settled
  <2> QED BY <2>1, <2>2, <2>3 DEF Settled
<1> QED BY <1>1, <1>2, <1>3, <1>4 DEF Next, AgentStep

-------------------------------------------------------------------------------
\* The variables keep their types, and a pointer points to an object of its class
\* as long as the server runs.
THEOREM TypeCorrect == Spec => []TypeOK
BY InitOK, StepOK, PTL DEF Spec, IInv

\* No parser of a running server works through a deleted object or one of
\* another class, in whatever order the agents race through Instance.
THEOREM LiveStates == Spec => []StateIsLive
BY InitOK, StepOK, PTL DEF Spec, IInv

\* An agent makes at most one object of a class.
THEOREM OneObjectEach == Spec => []OneEach
BY InitOK, StepOK, PTL DEF Spec, IInv

\* Objects are made only until the first one of a class is seen by all.
THEOREM Settles == Spec => SettledForGood
<1>1. IInv /\ [Next]_vars =>
        [main' = "serving" => \A c \in Class : Settled(c) =>
           Settled(c)' /\ m_pState'[c] = m_pState[c]]_vars
  BY SettledKept
<1> QED BY <1>1, InitOK, StepOK, PTL DEF Spec, SettledForGood
================================================================================
