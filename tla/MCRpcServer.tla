----------------------------- MODULE MCRpcServer -----------------------------
(* A small instance of RpcServer: two registered methods, one unknown name,  *)
(* and one request of each kind that the parse can make of the input.        *)
EXTENDS RpcServer, TLC

MCFd == 3 .. 5

\* One number beside the listening socket's: the second peer needs the first's.
MCFewFd == 3 .. 4
MCName == {"Add", "DupParam", "Unknown"}
MCRegistered == {"Add", "DupParam"}

Complete(n) == [name |-> n, complete |-> TRUE]

NoBody == [body |-> FALSE, calls |-> <<>>, wellFormed |-> TRUE]
NoCall == [body |-> TRUE, calls |-> <<>>, wellFormed |-> TRUE]
TwoCalls ==
  [body |-> TRUE, calls |-> <<Complete("Add"), Complete("Unknown")>>,
   wellFormed |-> TRUE]
CallThenGarbage ==
  [body |-> TRUE, calls |-> <<Complete("DupParam")>>, wellFormed |-> FALSE]
NullParameter ==
  [body |-> TRUE, calls |-> <<[name |-> "Add", complete |-> FALSE]>>,
   wellFormed |-> TRUE]

MCRequest == {NoBody, NoCall, TwoCalls, CallThenGarbage, NullParameter}

\* Without the requests that end the process under its agents.
MCBenignRequest == {NoBody, NoCall, TwoCalls}

MCSymmetry == Permutations(Client)
===============================================================================
