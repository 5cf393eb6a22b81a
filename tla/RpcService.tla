------------------------------ MODULE RpcService ------------------------------
(***************************************************************************)
(* What the server promises to the peer of one connection, whatever its    *)
(* threads do: the calls of a request are executed before the first answer *)
(* goes out, each executed call is answered at most once and in the order  *)
(* of execution, a refusal stands alone, an orderly close comes only when  *)
(* nothing is owed, and nothing is sent on a closed connection.            *)
(***************************************************************************)
EXTENDS Sequences

CONSTANTS
  Client,   \* the peers; each one connects at most once
  Answer,   \* the results of executed calls
  Refusal   \* the "Invalid method call format" page

VARIABLES
  up,       \* the process is alive
  conn,     \* per peer: "idle", "open", "closed" in good order, or "lost"
  owed,     \* results computed and not yet sent, per peer
  answers   \* what was handed to the peer's socket, per peer

vars == <<up, conn, owed, answers>>

TypeOK ==
  /\ up \in BOOLEAN
  /\ conn \in [Client -> {"idle", "open", "closed", "lost"}]
  /\ owed \in [Client -> Seq(Answer)]
  /\ answers \in [Client -> Seq(Answer \cup {Refusal})]

Init ==
  /\ up = TRUE
  /\ conn = [c \in Client |-> "idle"]
  /\ owed = [c \in Client |-> <<>>]
  /\ answers = [c \in Client |-> <<>>]

Connect(c) ==
  /\ conn[c] = "idle"
  /\ conn' = [conn EXCEPT ![c] = "open"]
  /\ UNCHANGED <<up, owed, answers>>

Execute(c, r) ==
  /\ conn[c] = "open"
  /\ answers[c] = <<>>
  /\ owed' = [owed EXCEPT ![c] = Append(@, r)]
  /\ UNCHANGED <<up, conn, answers>>

Refuse(c) ==
  /\ conn[c] = "open"
  /\ owed[c] = <<>>
  /\ answers[c] = <<>>
  /\ answers' = [answers EXCEPT ![c] = <<Refusal>>]
  /\ UNCHANGED <<up, conn, owed>>

Reply(c) ==
  /\ conn[c] = "open"
  /\ owed[c] # <<>>
  /\ answers' = [answers EXCEPT ![c] = Append(@, Head(owed[c]))]
  /\ owed' = [owed EXCEPT ![c] = Tail(@)]
  /\ UNCHANGED <<up, conn>>

Finish(c) ==
  /\ conn[c] = "open"
  /\ owed[c] = <<>>
  /\ conn' = [conn EXCEPT ![c] = "closed"]
  /\ UNCHANGED <<up, owed, answers>>

\* The socket failed under the agent: what is owed to the peer is given up.
Drop(c) ==
  /\ conn[c] = "open"
  /\ conn' = [conn EXCEPT ![c] = "lost"]
  /\ owed' = [owed EXCEPT ![c] = <<>>]
  /\ UNCHANGED <<up, answers>>

\* The process ends, by exit or by abort, whatever the connections are doing.
Stop ==
  /\ up' = FALSE
  /\ UNCHANGED <<conn, owed, answers>>

Next ==
  /\ up
  /\ \/ \E c \in Client :
          \/ Connect(c)
          \/ \E r \in Answer : Execute(c, r)
          \/ Refuse(c)
          \/ Reply(c)
          \/ Finish(c)
          \/ Drop(c)
     \/ Stop

Spec == Init /\ [][Next]_vars
===============================================================================
