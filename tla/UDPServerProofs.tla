-------------------------- MODULE UDPServerProofs ---------------------------
(***************************************************************************)
(* That a receiving thread of udp::Server hears what it is told, for any   *)
(* number of ports, datagrams and pauses.                                  *)
(***************************************************************************)
EXTENDS UDPServer, TLAPS

\* Start has not returned.
InStart == user \in {"new", "start", "starting"}

\* The counts are functions; a datagram that is being handled has arrived.
CountsOK ==
  /\ got \in [Ports -> Nat] /\ since \in [Ports -> Nat]
  /\ \A p \in Ports : thread[p] = "handle" => got[p] < arrived[p]

\* What a thread does after it was told: one that is on its way to a message has
\* handled none since, and it does not get on that way again.
ToldInv ==
  \A p \in Ports :
    /\ status[p] \in {"Paused", "Stopping"} =>
         /\ got[p] <= since[p] + 1
         /\ thread[p] \in {"recv", "handle"} => got[p] = since[p]
    /\ status[p] = "Stopped" => thread[p] \in {"none", "entered", "done"}

\* Start returns when every thread has set its status: none can do so later, over
\* what a Pause or a Stop has stored.
StartInv ==
  /\ user = "new" => at = 1
  /\ user \in {"new", "start"} => \A p \in Ports : at <= p => thread[p] = "none"
  /\ \A p \in Ports : thread[p] \in {"none", "entered"} => InStart /\ status[p] = "Stopped"

\* A Stop that waits has seen every thread end; the handler goes after Stop.
EndInv ==
  /\ ~alive => user \in {"join", "destroyed"}
  /\ wait /\ user \in {"stopped", "join", "destroyed"} =>
       \A p \in Ports : thread[p] = "done"

IInv == TypeOK /\ CountsOK /\ ToldInv /\ StartInv /\ EndInv

\* A loop over recv_threads_ stays within it.
LEMMA LoopInPorts ==
  ASSUME at \in Ports, NEW call, NEW next, Loop(call, next)
  PROVE  at' \in Ports /\ user' \in {call, next}
  BY UDPServerAssumption DEF Loop, Ports

\* The invariant holds at first.
LEMMA InitIInv == Init => IInv
<1> SUFFICES ASSUME Init PROVE IInv  BY Zenon
<1> USE UDPServerAssumption DEF Init, Ports
<1>1. TypeOK
  <2>1. wait \in BOOLEAN /\ alive \in BOOLEAN /\ torn \in BOOLEAN  BY Zenon
  <2>2. \A p \in Ports : got[p] \in 0..arrived[p] /\ since[p] \in 0..got[p]  OBVIOUS
  <2> QED  BY <2>1, <2>2 DEF TypeOK
<1>2. CountsOK  BY Zenon DEF CountsOK
<1>3. ToldInv  BY Zenon DEF ToldInv
<1>4. StartInv  BY Zenon DEF StartInv, InStart
<1>5. EndInv  BY Zenon DEF EndInv
<1> QED  BY <1>1, <1>2, <1>3, <1>4, <1>5, Zenon DEF IInv

\* A count that goes up by one at one port.
LEMMA CountUp ==
  ASSUME NEW f \in [Ports -> Nat], NEW p \in Ports, NEW g, g = [f EXCEPT ![p] = @ + 1]
  PROVE  /\ g \in [Ports -> Nat] /\ g[p] = f[p] + 1
         /\ \A q \in Ports \ {p} : g[q] = f[q]
  OBVIOUS

\* A thread calls the handler.
LEMMA HandleKeepsIInv ==
  ASSUME IInv, NEW p \in Ports, Handle(p)
  PROVE  IInv'
<1>1. /\ got' \in [Ports -> Nat] /\ got'[p] = got[p] + 1
      /\ \A q \in Ports \ {p} : got'[q] = got[q]
  BY CountUp, Zenon DEF Handle, IInv, CountsOK
<1>2. /\ thread' = [thread EXCEPT ![p] = "top"] /\ thread[p] = "handle"
      /\ UNCHANGED <<status, arrived, since, torn, user, at, wait, pauses, alive>>
  BY Zenon DEF Handle, Goes, userVars
<1>3. TypeOK'
  <2>1. ASSUME NEW q \in Ports  PROVE got'[q] \in 0..arrived'[q] /\ since'[q] \in 0..got'[q]
    <3>1. got[q] \in 0..arrived[q] /\ since[q] \in 0..got[q] /\ arrived[q] \in Nat
      BY UDPServerAssumption DEF IInv, TypeOK
    <3>2. thread[p] = "handle" => got[p] < arrived[p]  BY Zenon DEF IInv, CountsOK
    <3> QED  BY <1>1, <1>2, <3>1, <3>2
  <2> QED  BY <1>2, <2>1, Zenon DEF IInv, TypeOK
<1>4. CountsOK'  BY <1>1, <1>2, Zenon DEF IInv, TypeOK, CountsOK
<1>5. ToldInv'
  <2> SUFFICES ASSUME NEW q \in Ports
               PROVE  /\ status[q] \in {"Paused", "Stopping"} =>
                           /\ got'[q] <= since[q] + 1
                           /\ thread'[q] \in {"recv", "handle"} => got'[q] = since[q]
                      /\ status[q] = "Stopped" => thread'[q] \in {"none", "entered", "done"}
    BY <1>2, Zenon DEF ToldInv
  <2>1. CASE q = p
    BY <1>1, <1>2, <2>1 DEF IInv, TypeOK, CountsOK, ToldInv
  <2>2. CASE q # p
    BY <1>1, <1>2, <2>2, Zenon DEF IInv, TypeOK, ToldInv
  <2> QED  BY <2>1, <2>2, Zenon
<1>6. StartInv' /\ EndInv'
  BY <1>2, Zenon DEF IInv, TypeOK, StartInv, EndInv, InStart
<1> QED  BY <1>3, <1>4, <1>5, <1>6, Zenon DEF IInv

\* A step of a receiving thread.
LEMMA ThreadKeepsIInv ==
  ASSUME IInv, NEW p \in Ports, RecvingLoop(p)
  PROVE  IInv'
<1> USE UDPServerAssumption DEF IInv, TypeOK, CountsOK, ToldInv, StartInv, EndInv,
        InStart, Ports, Goes, SetStatus, userVars
<1>1. CASE SetRunning(p)  BY <1>1 DEF SetRunning
<1>2. CASE CheckPaused(p)  BY <1>2 DEF CheckPaused
<1>3. CASE CheckRunning(p)  BY <1>3, Zenon DEF CheckRunning
<1>4. CASE RecvFrom(p)
  <2> USE <1>4 DEF RecvFrom
  <2>1. TypeOK'  BY Zenon
  <2>2. CountsOK'  BY Zenon
  <2>3. ToldInv'  BY Zenon
  <2>4. StartInv'  BY Zenon
  <2>5. EndInv'  BY Zenon
  <2> QED  BY <2>1, <2>2, <2>3, <2>4, <2>5, Zenon
<1>5. CASE Handle(p)  BY <1>5, HandleKeepsIInv, Zenon
<1>6. CASE SetStopped(p)  BY <1>6, Zenon DEF SetStopped
<1> QED  BY <1>1, <1>2, <1>3, <1>4, <1>5, <1>6, Zenon DEF RecvingLoop

\* A datagram arrives.
LEMMA ArriveKeepsIInv ==
  ASSUME IInv, NEW p \in Ports, Arrive(p)
  PROVE  IInv'
<1>1. /\ arrived[p] < MaxDatagrams /\ arrived' = [arrived EXCEPT ![p] = @ + 1]
      /\ UNCHANGED <<status, thread, got, since, torn, user, at, wait, pauses, alive>>
  BY Zenon DEF Arrive, userVars
<1>2. arrived \in [Ports -> Nat]  BY DEF IInv, TypeOK
<1>3. /\ arrived' \in [Ports -> Nat] /\ arrived'[p] = arrived[p] + 1
      /\ \A q \in Ports \ {p} : arrived'[q] = arrived[q]
  BY CountUp, <1>1, <1>2, Zenon
<1>4. \A q \in Ports : arrived'[q] \in 0..MaxDatagrams /\ arrived[q] <= arrived'[q]
  BY UDPServerAssumption, <1>1, <1>2, <1>3 DEF IInv, TypeOK
<1>5. TypeOK'
  <2>1. ASSUME NEW q \in Ports  PROVE got[q] \in 0..arrived'[q] /\ since[q] \in 0..got[q]
    BY <1>2, <1>3, <1>4 DEF IInv, TypeOK
  <2>2. arrived' \in [Ports -> 0..MaxDatagrams]  BY <1>3, <1>4, Zenon
  <2> QED  BY <1>1, <2>1, <2>2, Zenon DEF IInv, TypeOK
<1>6. CountsOK'  BY <1>1, <1>2, <1>3, <1>4 DEF IInv, CountsOK
<1>7. ToldInv' /\ StartInv' /\ EndInv'
  BY <1>1, Zenon DEF IInv, ToldInv, StartInv, EndInv, InStart
<1> QED  BY <1>5, <1>6, <1>7, Zenon DEF IInv

\* A step of the user's thread.
LEMMA UserKeepsIInv ==
  ASSUME IInv, User
  PROVE  IInv'
<1> USE UDPServerAssumption DEF IInv, TypeOK, CountsOK, ToldInv, StartInv, EndInv,
        InStart, Ports, Loop, Call, SetStatus
<1>1. CASE Start  BY <1>1, Zenon DEF Start
<1>2. CASE Run
  <2> USE <1>2 DEF Run
  <2>1. TypeOK'  BY LoopInPorts, Zenon
  <2>2. CountsOK'  BY Zenon
  <2>3. ToldInv'  BY Zenon
  <2>4. StartInv'
    <3>1. status[at] = "Stopped"  OBVIOUS
    <3>2. \A q \in Ports : user' = "start" /\ at' <= q => q # at /\ at <= q  BY LoopInPorts
    <3>3. \A q \in Ports : q # at => thread'[q] = thread[q]  BY Zenon
    <3>4. thread'[at] = "entered" /\ user' \in {"start", "starting"}  BY LoopInPorts, Zenon
    <3> QED  BY <3>1, <3>2, <3>3, <3>4, Zenon
  <2>5. EndInv'  BY Zenon
  <2> QED  BY <2>1, <2>2, <2>3, <2>4, <2>5, Zenon
<1>3. CASE StartReturns  BY <1>3, Zenon DEF StartReturns
<1>4. CASE CallPause  BY <1>4 DEF CallPause
<1>5. CASE CallContinue  BY <1>5, Zenon DEF CallContinue
<1>6. CASE CallStop  BY <1>6, Zenon DEF CallStop
<1>7. CASE Pause
  <2> USE <1>7 DEF Pause
  <2>1. TypeOK'
    <3>1. \A q \in Ports : since'[q] \in 0..got[q]  OBVIOUS
    <3>2. at' \in Ports  BY LoopInPorts, Zenon
    <3> QED  BY <3>1, <3>2, Zenon
  <2>2. CountsOK'  BY Zenon
  <2>3. ToldInv'  OBVIOUS
  <2>4. StartInv'  BY Zenon
  <2>5. EndInv'  BY Zenon
  <2> QED  BY <2>1, <2>2, <2>3, <2>4, <2>5, Zenon
<1>8. CASE Continue
  <2> USE <1>8 DEF Continue
  <2>1. TypeOK'  BY LoopInPorts, Zenon
  <2>2. CountsOK'  BY Zenon
  <2>3. ToldInv'  BY Zenon
  <2>4. StartInv'  BY Zenon
  <2>5. EndInv'  BY Zenon
  <2> QED  BY <2>1, <2>2, <2>3, <2>4, <2>5, Zenon
<1>9. CASE Stop
  <2> USE <1>9 DEF Stop
  <2>1. TypeOK'
    <3>1. \A q \in Ports : since'[q] \in 0..got[q]  OBVIOUS
    <3>2. at' \in Ports  BY LoopInPorts, Zenon
    <3> QED  BY <3>1, <3>2, Zenon
  <2>2. CountsOK'  BY Zenon
  <2>3. ToldInv'  OBVIOUS
  <2>4. StartInv'  BY Zenon
  <2>5. EndInv'  BY Zenon
  <2> QED  BY <2>1, <2>2, <2>3, <2>4, <2>5, Zenon
<1>10. CASE StopReturns  BY <1>10, Zenon DEF StopReturns
<1>11. CASE Destroy  BY <1>11, Zenon DEF Destroy
<1>12. CASE Join
  <2> USE <1>12 DEF Join
  <2>1. TypeOK'  BY LoopInPorts, Zenon
  <2>2. CountsOK'  BY Zenon
  <2>3. ToldInv'  BY Zenon
  <2>4. StartInv'  BY Zenon
  <2>5. EndInv'  BY Zenon
  <2> QED  BY <2>1, <2>2, <2>3, <2>4, <2>5, Zenon
<1> QED
  BY <1>1, <1>2, <1>3, <1>4, <1>5, <1>6, <1>7, <1>8, <1>9, <1>10, <1>11, <1>12, Zenon DEF User

\* A step that changes nothing keeps it.
LEMMA StutterKeepsIInv == IInv /\ UNCHANGED vars => IInv'
  BY DEF IInv, TypeOK, CountsOK, ToldInv, StartInv, EndInv, InStart, vars, userVars

\* Once Pause or Stop has told a thread it handles one message at most; a thread whose
\* status says Stopped has left RecvingLoop; and after a Stop that waits no thread
\* uses the handler that the destructor destroys.  For any number of ports.
THEOREM ToldIsAlwaysHeard == Spec => []ToldIsHeard
<1>1. IInv /\ [Next]_vars => IInv'
  BY ThreadKeepsIInv, ArriveKeepsIInv, UserKeepsIInv, StutterKeepsIInv, Zenon DEF Next
<1>2. IInv => ToldIsHeard
  BY UDPServerAssumption, Zenon DEF IInv, TypeOK, CountsOK, ToldInv, StartInv, EndInv, ToldIsHeard,
     InStart, Ports
<1> QED  BY InitIInv, <1>1, <1>2, PTL DEF Spec
=============================================================================
