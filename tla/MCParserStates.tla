---------------------------- MODULE MCParserStates ----------------------------
(* Agents and places in memory are alike. *)
EXTENDS ParserStates, TLC

Alike == Permutations(Agent) \cup Permutations(Object)
================================================================================
