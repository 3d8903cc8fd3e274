---------------------------- MODULE MCEventLoop ----------------------------
(* Properties of EventLoop, and small instances of it for TLC.             *)
EXTENDS EventLoopProps, TLC

Symmetry == Permutations(Threads) \cup Permutations(Tasks)
              \cup Permutations(Stops)
=============================================================================
