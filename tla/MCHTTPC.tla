------------------------------ MODULE MCHTTPC -------------------------------
(* The scenes for TLC: a user's timer beside a request, and requests that  *)
(* share the pool and are retried.                                         *)
EXTENDS HTTPC

MCScenes ==
  {[timers |-> {5}, requests |-> {1}, retry_number |-> 0]} \cup
  [timers : {{}}, requests : {{1, 2}}, retry_number : 0..2]
=============================================================================
