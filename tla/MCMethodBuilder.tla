--------------------------- MODULE MCMethodBuilder ---------------------------
(* Small inputs for MethodBuilder: sequences of calls, and deep parameters.  *)
EXTENDS MethodBuilder

MCFlowTag == {"methodName", "params", "param", "value", "int"}

MCTreeTag == {"params", "param", "value", "double", "array", "data", "struct",
              "member", "name"}
===============================================================================
