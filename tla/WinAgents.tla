------------------------------- MODULE WinAgents -------------------------------
(***************************************************************************)
(* The agents that the threads and the sockets of the Windows build serve. *)
(***************************************************************************)
CONSTANTS
  Agent,  \* RpcAgent objects: one for each accepted connection
  NULL    \* no thread, no handle, no socket
================================================================================
