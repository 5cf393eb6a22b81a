------------------------------- MODULE AgentLife -------------------------------
(***************************************************************************)
(* What DeleteRpcAgent relies on: join comes back only when the agent's    *)
(* thread is out of the agent for good, so that the agent may be deleted.  *)
(***************************************************************************)
CONSTANT Agent

VARIABLE life  \* "new", "running", "over" or "deleted"

Run(a) == life[a] = "new" /\ life' = [life EXCEPT ![a] = "running"]
Return(a) == life[a] = "running" /\ life' = [life EXCEPT ![a] = "over"]

\* An agent whose thread could not be made never runs.
Delete(a) == life[a] \in {"new", "over"} /\ life' = [life EXCEPT ![a] = "deleted"]

Init == life = [a \in Agent |-> "new"]
Next == \E a \in Agent : Run(a) \/ Return(a) \/ Delete(a)
Spec == Init /\ [][Next]_life
================================================================================
