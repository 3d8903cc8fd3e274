------------------------------ MODULE UDPServer ------------------------------
(***************************************************************************)
(* evpp::udp::Server (evpp/udp/udp_server.cc): one receiving thread per    *)
(* port, which the user's thread controls through a status that both write *)
(* without a lock.                                                         *)
(*                                                                         *)
(* Every read and write of a status is a step of its own; a build that     *)
(* reads it once for both tests of RecvingLoop has fewer behaviours.  The  *)
(* asserts are compiled out of a release build: the user follows the       *)
(* protocol they state, as far as they can see, and nothing else is        *)
(* guarded.  The loops of IsRunning and IsStopped are one step, because a  *)
(* status that a waiting user has seen does not change before they return. *)
(***************************************************************************)
EXTENDS Naturals, FiniteSets

CONSTANTS
  NPorts,       \* the number of ports
  MaxDatagrams, \* bound on the datagrams that arrive at a port
  MaxPauses     \* bound on the calls of Pause

ASSUME UDPServerAssumption ==
  /\ NPorts \in Nat \ {0} /\ MaxDatagrams \in Nat /\ MaxPauses \in Nat

Ports == 1..NPorts

VARIABLES
  status,  \* RecvThread::status_ of every port
  thread,  \* where its thread is in RecvingLoop
  arrived, \* the datagrams that have arrived at its socket, received or not
  got,     \* the datagrams it has passed to the handler
  user,    \* where the user's thread is
  at,      \* the port its loop over recv_threads_ is at
  wait,    \* wait_thread_exit
  pauses,  \* the calls of Pause
  alive,   \* whether message_handler_ and tpool_ exist
  since,   \* history: what got was when the user last paused or stopped the thread
  torn     \* history: whether a Pause has come between a thread's two tests

userVars == <<user, at, wait, pauses, alive>>
vars == <<status, thread, arrived, got, since, torn, userVars>>

Init ==
  /\ status = [p \in Ports |-> "Stopped"]
  /\ thread = [p \in Ports |-> "none"]
  /\ arrived = [p \in Ports |-> 0] /\ got = [p \in Ports |-> 0] /\ since = [p \in Ports |-> 0]
  /\ user = "new" /\ at = 1 /\ wait = FALSE /\ pauses = 0 /\ alive = TRUE /\ torn = FALSE

-----------------------------------------------------------------------------
(* RecvingLoop.                                                            *)

Goes(p, from, to) == thread[p] = from /\ thread' = [thread EXCEPT ![p] = to]

SetStatus(p, s) == status' = [status EXCEPT ![p] = s]

SetRunning(p) ==
  /\ Goes(p, "entered", "top")
  /\ SetStatus(p, "Running")
  /\ UNCHANGED <<arrived, got, since, torn, userVars>>

CheckPaused(p) ==
  /\ Goes(p, "top", IF status[p] = "Paused" THEN "top" ELSE "unpaused")
  /\ UNCHANGED <<status, arrived, got, since, torn, userVars>>

CheckRunning(p) ==
  /\ Goes(p, "unpaused", IF status[p] = "Running" THEN "recv" ELSE "left")
  /\ torn' = (torn \/ status[p] = "Paused")
  /\ UNCHANGED <<status, arrived, got, since, userVars>>

\* MUTANT: Listen sets no timeout.
RecvFrom_NoTimeout(p) ==
  /\ arrived[p] > got[p] /\ Goes(p, "recv", "handle")
  /\ UNCHANGED <<status, arrived, got, since, torn, userVars>>

\* recvfrom gives a datagram, gives up after the timeout that Listen has set, or
\* fails on a socket that the destructor has closed.
RecvFrom(p) ==
  /\ \/ arrived[p] > got[p] /\ Goes(p, "recv", "handle")
     \/ (arrived[p] = got[p] \/ ~alive) /\ Goes(p, "recv", "top")
  /\ UNCHANGED <<status, arrived, got, since, torn, userVars>>

\* MUTANT: the loop goes on without testing the status.
Handle_Again(p) ==
  /\ Goes(p, "handle", "recv")
  /\ got' = [got EXCEPT ![p] = @ + 1]
  /\ UNCHANGED <<status, arrived, since, torn, userVars>>

\* The handler is called, or the call is given to a loop of the pool.
Handle(p) ==
  /\ Goes(p, "handle", "top")
  /\ got' = [got EXCEPT ![p] = @ + 1]
  /\ UNCHANGED <<status, arrived, since, torn, userVars>>

SetStopped(p) ==
  /\ Goes(p, "left", "done")
  /\ SetStatus(p, "Stopped")
  /\ UNCHANGED <<arrived, got, since, torn, userVars>>

RecvingLoop(p) ==
  \/ SetRunning(p) \/ CheckPaused(p) \/ CheckRunning(p)
  \/ RecvFrom(p) \/ Handle(p) \/ SetStopped(p)

\* A datagram comes from the network.
Arrive(p) ==
  /\ arrived[p] < MaxDatagrams
  /\ arrived' = [arrived EXCEPT ![p] = @ + 1]
  /\ UNCHANGED <<status, thread, got, since, torn, userVars>>

-----------------------------------------------------------------------------
(* The user's thread.  Its calls loop over recv_threads_.                  *)

\* The step of such a loop at port at; when it is done the user is at next.
Loop(call, next) ==
  /\ user = call
  /\ IF at = NPorts THEN user' = next /\ at' = 1 ELSE user' = user /\ at' = at + 1

Call(from, call) == user \in from /\ user' = call

Start ==
  /\ Call({"new"}, "start")
  /\ UNCHANGED <<status, thread, arrived, got, since, torn, at, wait, pauses, alive>>

Run ==
  /\ Loop("start", "starting")
  /\ thread' = [thread EXCEPT ![at] = "entered"]
  /\ UNCHANGED <<status, arrived, got, since, torn, wait, pauses, alive>>

StartReturns ==
  /\ user = "starting" /\ user' = "running"
  /\ \A p \in Ports : status[p] = "Running"
  /\ UNCHANGED <<status, thread, arrived, got, since, torn, at, wait, pauses, alive>>

CallPause ==
  /\ Call({"running"}, "pause")
  /\ pauses < MaxPauses /\ pauses' = pauses + 1
  /\ UNCHANGED <<status, thread, arrived, got, since, torn, at, wait, alive>>

CallContinue ==
  /\ Call({"paused"}, "continue")
  /\ UNCHANGED <<status, thread, arrived, got, since, torn, at, wait, pauses, alive>>

CallStop ==
  /\ Call({"running", "paused"}, "stop")
  /\ wait' \in BOOLEAN
  /\ UNCHANGED <<status, thread, arrived, got, since, torn, at, pauses, alive>>

\* The bodies of the three loops.
Pause ==
  /\ Loop("pause", "paused")
  /\ SetStatus(at, "Paused")
  /\ since' = [since EXCEPT ![at] = got[at]]
  /\ UNCHANGED <<thread, arrived, got, torn, wait, pauses, alive>>

Continue ==
  /\ Loop("continue", "running")
  /\ SetStatus(at, "Running")
  /\ UNCHANGED <<thread, arrived, got, since, torn, wait, pauses, alive>>

Stop ==
  /\ Loop("stop", "stopping")
  /\ SetStatus(at, "Stopping")
  /\ since' = [since EXCEPT ![at] = got[at]]
  /\ UNCHANGED <<thread, arrived, got, torn, wait, pauses, alive>>

StopReturns ==
  /\ user = "stopping" /\ user' = "stopped"
  /\ wait => \A p \in Ports : status[p] = "Stopped"
  /\ UNCHANGED <<status, thread, arrived, got, since, torn, at, wait, pauses, alive>>

\* The destructor: the members are destroyed in the reverse of their order, so
\* the handler and the pool go before the threads, which are joined.
Destroy ==
  /\ Call({"stopped"}, "join")
  /\ alive' = FALSE
  /\ UNCHANGED <<status, thread, arrived, got, since, torn, at, wait, pauses>>

Join ==
  /\ Loop("join", "destroyed")
  /\ thread[at] = "done"
  /\ UNCHANGED <<status, thread, arrived, got, since, torn, wait, pauses, alive>>

User ==
  \/ Start \/ Run \/ StartReturns
  \/ CallPause \/ CallContinue \/ CallStop
  \/ Pause \/ Continue \/ Stop \/ StopReturns
  \/ Destroy \/ Join

-----------------------------------------------------------------------------
Next == User \/ \E p \in Ports : RecvingLoop(p) \/ Arrive(p)

Spec == Init /\ [][Next]_vars

\* Threads run, and a user that is inside a call goes on with it.
Fairness ==
  /\ \A p \in Ports : WF_vars(RecvingLoop(p))
  /\ WF_vars(Run \/ StartReturns \/ Pause \/ Continue \/ Stop \/ StopReturns \/ Join)

FairSpec == Spec /\ Fairness

-----------------------------------------------------------------------------
(* What is checked.                                                        *)

\* The types of the server's state; no message is handled that has not arrived.
TypeOK ==
  /\ status \in [Ports -> {"Running", "Paused", "Stopping", "Stopped"}]
  /\ thread \in [Ports -> {"none", "entered", "top", "unpaused", "recv", "handle", "left", "done"}]
  /\ arrived \in [Ports -> 0..MaxDatagrams]
  /\ \A p \in Ports : got[p] \in 0..arrived[p] /\ since[p] \in 0..got[p]
  /\ user \in {"new", "start", "starting", "running", "pause", "paused", "continue",
               "stop", "stopping", "stopped", "join", "destroyed"}
  /\ at \in Ports /\ wait \in BOOLEAN /\ pauses \in 0..MaxPauses /\ alive \in BOOLEAN
  /\ torn \in BOOLEAN

\* Once Pause or Stop has told a thread, it handles at most the one message it is
\* already waiting for, until it is told to continue; and a thread whose status
\* says Stopped is not in RecvingLoop any more, so that Stop(true) returns when no
\* message can come.  No thread then uses the handler of a server that is being
\* destroyed; after a Stop(false) one may: the destructor destroys the handler and
\* the pool before it joins the threads (udp_server.h 55-67).
ToldIsHeard ==
  /\ TypeOK
  /\ \A p \in Ports :
       /\ status[p] \in {"Paused", "Stopping"} => got[p] <= since[p] + 1
       /\ status[p] = "Stopped" => thread[p] \in {"none", "entered", "done"}
       /\ thread[p] = "handle" => alive \/ ~wait

\* Start returns, once every thread runs.  Stop returns, though a socket may stay
\* silent and the thread may be paused, but for a thread that has ended because a
\* Pause came between its two tests of the status (udp_server.cc 211, 216): its
\* Stopped is overwritten.  The destructor returns, whether Stop has waited or not.
CallsReturn ==
  /\ user = "start" ~> user = "running"
  /\ user = "stop" ~> (user = "stopped" \/ torn)
  /\ user = "join" ~> user = "destroyed"
=============================================================================
