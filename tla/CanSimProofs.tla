---------------------------- MODULE CanSimProofs ----------------------------
(***************************************************************************)
(* Proofs about the CAN simulator model, for any number of application     *)
(* threads, ports and probes: the model is type-correct, and the rx_daemon *)
(* never iterates over a handle that socket_close has freed.  For one      *)
(* application thread, and any number of ports and probes: no port is      *)
(* linked twice, no freed or unlinked handle is used, and socket_close     *)
(* only joins a live, unjoined rx_daemon.                                  *)
(***************************************************************************)
EXTENDS CanSim, TLAPS

ProbePcs == {"p_init", "p_get", "p_insert"}
ClosePcs == {"c_remove", "c_free"}

\* The strengthening of ListNotFreed that a step preserves.  A probe in
\* progress owns a fresh handle number that no other probe owns and that
\* was never malloc'ed; a close in progress owns a malloc'ed handle, which
\* it has unlinked before it frees it.
IInv ==
  /\ TypeOK
  /\ ListNotFreed
  /\ list \subseteq alloc /\ freed \subseteq alloc
  /\ alloc \subseteq 1 .. nProbes
  /\ \A c \in Callers : pc[c] \in ProbePcs =>
       hnd[c] \in (1 .. nProbes) \ alloc
  /\ \A c1, c2 \in Callers :
       c1 # c2 /\ pc[c1] \in ProbePcs /\ pc[c2] \in ProbePcs => hnd[c1] # hnd[c2]
  /\ \A c \in Callers : pc[c] \in ClosePcs => hnd[c] \in alloc
  /\ \A c \in Callers : pc[c] = "c_free" => hnd[c] \notin list


\* The daemon socket_close will join: started by pthread_create and not
\* reaped by an earlier pthread_join.
JoinTarget == rxThread # NoThread /\ rxThread \notin joined

\* The strengthening behind UniquePort, NoStaleHandle and JoinSafe when one
\* application thread drives the simulator (every step of a call is then
\* that thread's, so what it read under the mutex is still true when it
\* acts on it).  A probe in progress owns the newest probe number, whose
\* daemon was never joined; the port it is about to link is off-line;
\* while a handle is on the list after the last probe's final lock
\* section the rx flag is down and the daemon it names is joinable; a
\* close in progress keeps that daemon joinable, and only reaches the
\* terminate and join steps with the list empty.
CallerInv(c) ==
  /\ pc[c] \in ProbePcs \cup {"p_start"} =>
       hnd[c] = nProbes /\ nProbes \in Daemons \ joined
  /\ pc[c] \in {"p_get", "p_insert", "p_start"} => initialized
  /\ pc[c] = "p_insert" => Lookup(port[c]) = {}
  /\ list # {} /\ pc[c] # "p_start" => ~terminated
  /\ pc[c] \in {"w_use", "c_remove"} => hnd[c] \in list
  /\ pc[c] = "c_free" => hnd[c] \notin freed
  /\ pc[c] \in {"c_remove", "c_free", "c_test", "c_term", "c_join"} =>
       JoinTarget
  /\ pc[c] \in {"c_term", "c_join"} => list = {}
  /\ pc[c] = "c_join" => terminated

SingleCallerInv ==
  /\ rxThread \in 0 .. nProbes /\ joined \subseteq 1 .. nProbes
  /\ list # {} => initialized
  /\ initialized /\ ~terminated => JoinTarget
  /\ UniquePort
  /\ \A c \in Callers : CallerInv(c)

USE CanSimAssumption DEF Handles, Daemons, NoHandle, NoThread, NoOwner,
                         ProbePcs, ClosePcs

\* The initial state of the simulator (nothing probed, no thread) satisfies
\* the inductive invariant.
LEMMA InitIInv == Init => IInv
  <1> SUFFICES ASSUME Init PROVE IInv
    OBVIOUS
  <1>1. TypeOK
    <2>1. hport \in [Handles -> Ports \cup {NoPort}]
      BY DEF Init
    <2>2. dpc \in [Daemons -> DaemonPcs]
      BY DEF Init, DaemonPcs
    <2>3. pc \in [Callers -> CallerPcs]
      BY DEF Init, CallerPcs
    <2>4. hnd \in [Callers -> Handles \cup {NoHandle}]
      BY DEF Init
    <2>5. mutex \in Daemons \cup {NoOwner} /\ rxThread \in Daemons \cup {NoThread}
      BY DEF Init
    <2>6. /\ initialized \in BOOLEAN /\ terminated \in BOOLEAN
          /\ list \subseteq Handles /\ alloc \subseteq Handles
          /\ freed \subseteq Handles /\ joined \subseteq Daemons
      BY DEF Init
    <2>8. nProbes \in 0 .. MaxProbes
      BY DEF Init
    <2>9. port \in [Callers -> Ports]
      BY DEF Init
    <2>7. QED
      BY <2>1, <2>2, <2>3, <2>4, <2>5, <2>6, <2>8, <2>9 DEF TypeOK
  <1>2. ListNotFreed /\ list \subseteq alloc /\ freed \subseteq alloc
        /\ alloc \subseteq 1 .. nProbes
    BY DEF Init, ListNotFreed
  <1>3. \A c \in Callers : pc[c] = "idle"
    BY DEF Init
  <1>4. QED
    BY <1>1, <1>2, <1>3 DEF IInv

\* Every step of a caller or of an rx_daemon preserves the inductive
\* invariant.
LEMMA NextIInv == IInv /\ [Next]_vars => IInv'
  <1> SUFFICES ASSUME IInv, [Next]_vars PROVE IInv'
    OBVIOUS
  <1>1. ASSUME NEW c \in Callers, NEW pt \in Ports, StartProbe(c, pt)
        PROVE  IInv'
    BY <1>1 DEF IInv, TypeOK, ListNotFreed, CallerPcs, Goto, StartProbe
  <1>2. ASSUME NEW c \in Callers, ProbeInit(c)
        PROVE  IInv'
    BY <1>2 DEF IInv, TypeOK, ListNotFreed, CallerPcs, Goto, ProbeInit
  <1>3. ASSUME NEW c \in Callers, ProbeGetHandle(c)
        PROVE  IInv'
    BY <1>3 DEF IInv, TypeOK, ListNotFreed, CallerPcs, Goto, SharedVars, Lookup, ProbeGetHandle
  <1>4. ASSUME NEW c \in Callers, ProbeOpenFailed(c)
        PROVE  IInv'
    BY <1>4 DEF IInv, TypeOK, ListNotFreed, CallerPcs, Goto, SharedVars, ProbeOpenFailed
  <1>5. ASSUME NEW c \in Callers, ProbeInsert(c)
        PROVE  IInv'
    <2>1. hnd[c] \in (1 .. nProbes) \ alloc
      BY <1>5 DEF IInv, ProbeInsert
    <2>2. TypeOK'
      <3>1. hnd[c] \in Handles
        BY <2>1 DEF IInv, TypeOK
      <3>2. hport' \in [Handles -> Ports \cup {NoPort}]
        BY <1>5, <3>1 DEF IInv, TypeOK, ProbeInsert
      <3>3. list' \subseteq Handles /\ alloc' \subseteq Handles
        BY <1>5, <3>1 DEF IInv, TypeOK, ProbeInsert
      <3>4. pc' \in [Callers -> CallerPcs]
        BY <1>5 DEF IInv, TypeOK, CallerPcs, Goto, ProbeInsert
      <3>5. QED
        BY <1>5, <3>2, <3>3, <3>4 DEF IInv, TypeOK, ProbeInsert
    <2>3. \A c2 \in Callers : c2 # c /\ pc'[c2] \in ProbePcs =>
            hnd'[c2] \in (1 .. nProbes') \ alloc'
      BY <1>5, <2>1 DEF IInv, TypeOK, Goto, ProbeInsert
    <2>4. QED
      BY <1>5, <2>1, <2>2, <2>3 DEF IInv, TypeOK, ListNotFreed, Goto, ProbeInsert
  <1>6. ASSUME NEW c \in Callers, ProbeStartRx(c)
        PROVE  IInv'
    <2>1. hnd[c] \in Handles \cup {NoHandle}
      BY DEF IInv, TypeOK
    <2>2. TypeOK'
      <3>1. CASE terminated /\ list # {}
        BY <1>6, <2>1, <3>1 DEF IInv, TypeOK, CallerPcs, DaemonPcs, Goto, ProbeStartRx
      <3>2. CASE ~(terminated /\ list # {})
        BY <1>6, <3>2 DEF IInv, TypeOK, CallerPcs, Goto, ProbeStartRx
      <3>3. QED
        BY <3>1, <3>2
    <2>3. QED
      BY <1>6, <2>2 DEF IInv, ListNotFreed, Goto, ProbeStartRx
  <1>7. ASSUME NEW c \in Callers, NEW pt \in Ports, StartWrite(c, pt)
        PROVE  IInv'
    BY <1>7 DEF IInv, TypeOK, ListNotFreed, CallerPcs, Goto, SharedVars, StartWrite
  <1>8. ASSUME NEW c \in Callers, WriteGetHandle(c)
        PROVE  IInv'
    <2>1. CASE Lookup(port[c]) = {}
      BY <1>8, <2>1 DEF IInv, TypeOK, ListNotFreed, CallerPcs, Goto, SharedVars, WriteGetHandle
    <2>2. CASE Lookup(port[c]) # {}
      <3>1. PICK h \in Lookup(port[c]) : Goto(c, "w_use") /\ hnd' = [hnd EXCEPT ![c] = h]
        BY <1>8, <2>2 DEF WriteGetHandle
      <3>2. h \in list
        BY DEF Lookup
      <3>3. QED
        BY <1>8, <3>1, <3>2 DEF IInv, TypeOK, ListNotFreed, CallerPcs, Goto, SharedVars, WriteGetHandle
    <2>3. QED
      BY <2>1, <2>2
  <1>9. ASSUME NEW c \in Callers, WriteSend(c)
        PROVE  IInv'
    BY <1>9 DEF IInv, TypeOK, ListNotFreed, CallerPcs, Goto, SharedVars, WriteSend
  <1>10. ASSUME NEW c \in Callers, NEW pt \in Ports, StartClose(c, pt)
        PROVE  IInv'
    BY <1>10 DEF IInv, TypeOK, ListNotFreed, CallerPcs, Goto, SharedVars, StartClose
  <1>11. ASSUME NEW c \in Callers, CloseGetHandle(c)
        PROVE  IInv'
    <2>1. CASE Lookup(port[c]) = {}
      BY <1>11, <2>1 DEF IInv, TypeOK, ListNotFreed, CallerPcs, Goto, SharedVars, CloseGetHandle
    <2>2. CASE Lookup(port[c]) # {}
      <3>1. PICK h \in Lookup(port[c]) : Goto(c, "c_remove") /\ hnd' = [hnd EXCEPT ![c] = h]
        BY <1>11, <2>2 DEF CloseGetHandle
      <3>2. h \in list
        BY DEF Lookup
      <3>3. QED
        BY <1>11, <3>1, <3>2 DEF IInv, TypeOK, ListNotFreed, CallerPcs, Goto, SharedVars, CloseGetHandle
    <2>3. QED
      BY <2>1, <2>2
  <1>12. ASSUME NEW c \in Callers, CloseRemove(c)
        PROVE  IInv'
    BY <1>12 DEF IInv, TypeOK, ListNotFreed, CallerPcs, Goto, CloseRemove
  <1>13. ASSUME NEW c \in Callers, CloseFree(c)
        PROVE  IInv'
    BY <1>13 DEF IInv, TypeOK, ListNotFreed, CallerPcs, Goto, CloseFree
  <1>14. ASSUME NEW c \in Callers, CloseTest(c)
        PROVE  IInv'
    BY <1>14 DEF IInv, TypeOK, ListNotFreed, CallerPcs, Goto, SharedVars, CloseTest
  <1>15. ASSUME NEW c \in Callers, CloseTerminate(c)
        PROVE  IInv'
    BY <1>15 DEF IInv, TypeOK, ListNotFreed, CallerPcs, Goto, CloseTerminate
  <1>16. ASSUME NEW c \in Callers, CloseJoin(c)
        PROVE  IInv'
    BY <1>16 DEF IInv, TypeOK, ListNotFreed, CallerPcs, Goto, CloseJoin
  <1>17. ASSUME NEW d \in Daemons, DaemonTest(d)
        PROVE  IInv'
    BY <1>17 DEF IInv, TypeOK, ListNotFreed, DaemonPcs, DaemonTest
  <1>18. ASSUME NEW d \in Daemons, DaemonLock(d)
        PROVE  IInv'
    BY <1>18 DEF IInv, TypeOK, ListNotFreed, DaemonPcs, DaemonLock
  <1>19. ASSUME NEW d \in Daemons, DaemonUnlock(d)
        PROVE  IInv'
    BY <1>19 DEF IInv, TypeOK, ListNotFreed, DaemonPcs, DaemonUnlock
  <1>20. CASE UNCHANGED vars
    BY <1>20 DEF IInv, TypeOK, ListNotFreed, vars
  <1>21. QED
    BY <1>1, <1>2, <1>3, <1>4, <1>5, <1>6, <1>7, <1>8, <1>9, <1>10, <1>11, <1>12, <1>13, <1>14, <1>15, <1>16, <1>17, <1>18, <1>19, <1>20
    DEF Next, CallerCall, CallerStep, DaemonStep


\* Type correctness of the simulator model: every variable keeps the type
\* of the C object it stands for (handles, thread ids, the mutex owner,
\* the program counters of socket_probe/write/close and rx_daemon), with
\* any number of application threads.
THEOREM TypeCorrect == Spec => []TypeOK
  <1>1. IInv => TypeOK
    BY DEF IInv
  <1>2. QED
    BY InitIInv, NextIInv, <1>1, PTL DEF Spec

\* rx_daemon never runs rx_notifiy on a freed handle, whatever number of
\* application threads call socket_probe and socket_close concurrently:
\* socket_close unlinks the handle under the mutex before it frees it,
\* and socket_probe only links a freshly malloc'ed handle.
THEOREM ListNotFreedInvariant == Spec => []ListNotFreed
  <1>1. IInv => ListNotFreed
    BY DEF IInv
  <1>2. QED
    BY InitIInv, NextIInv, <1>1, PTL DEF Spec

-----------------------------------------------------------------------------
(* One application thread.  With two, TLC finds UniquePort, NoStaleHandle  *)
(* and JoinSafe violated (runs can_dup_port, can_stale_handle, can_join):  *)
(* the handle list and socketH.terminated are read under the mutex, or     *)
(* without it, and acted on after it is released.  With one, every step    *)
(* between the read and the use is that thread's own.                      *)

\* The initial state satisfies the single-caller strengthening: no call
\* is in progress, nothing is linked and no daemon was started.
LEMMA InitSingle == Init => SingleCallerInv
  <1> SUFFICES ASSUME Init PROVE SingleCallerInv
    OBVIOUS
  <1>1. \A c \in Callers : CallerInv(c)
    BY DEF Init, CallerInv
  <1>2. QED
    BY <1>1 DEF Init, SingleCallerInv, UniquePort

\* Every step preserves the single-caller strengthening when Callers is a
\* singleton: the caller that moves is the one whose call the invariant
\* describes, and the rx_daemon steps touch neither the list, the flag
\* nor the thread bookkeeping.
LEMMA SingleStep ==
  ASSUME NEW c0, Callers = {c0}, IInv, SingleCallerInv, [Next]_vars
  PROVE  SingleCallerInv'
  <1>0. CallerInv(c0) /\ hnd[c0] \in Handles \cup {NoHandle}
        /\ pc[c0] \in CallerPcs /\ port[c0] \in Ports
    BY DEF SingleCallerInv, IInv, TypeOK
  <1> SUFFICES /\ rxThread' \in 0 .. nProbes' /\ joined' \subseteq 1 .. nProbes'
               /\ list' # {} => initialized'
               /\ initialized' /\ ~terminated' => JoinTarget'
               /\ UniquePort'
               /\ CallerInv(c0)'
    BY DEF SingleCallerInv
  <1> USE DEF SingleCallerInv, IInv, TypeOK, Goto
  <1>1. ASSUME NEW c \in Callers, NEW pt \in Ports, StartProbe(c, pt)
        PROVE  SingleCallerInv'
    BY <1>0, <1>1 DEF CallerInv, UniquePort, JoinTarget, Lookup, StartProbe
  <1>2. ASSUME NEW c \in Callers, ProbeInit(c)
        PROVE  SingleCallerInv'
    BY <1>0, <1>2 DEF CallerInv, UniquePort, JoinTarget, Lookup, ProbeInit
  <1>3. ASSUME NEW c \in Callers, ProbeGetHandle(c)
        PROVE  SingleCallerInv'
    BY <1>0, <1>3 DEF CallerInv, UniquePort, JoinTarget, Lookup, ProbeGetHandle, SharedVars
  <1>4. ASSUME NEW c \in Callers, ProbeOpenFailed(c)
        PROVE  SingleCallerInv'
    BY <1>0, <1>4 DEF CallerInv, UniquePort, JoinTarget, Lookup, ProbeOpenFailed, SharedVars
  <1>5. ASSUME NEW c \in Callers, ProbeInsert(c)
        PROVE  SingleCallerInv'
    BY <1>0, <1>5 DEF CallerInv, UniquePort, JoinTarget, Lookup, ProbeInsert
  <1>6. ASSUME NEW c \in Callers, ProbeStartRx(c)
        PROVE  SingleCallerInv'
    BY <1>0, <1>6 DEF CallerInv, UniquePort, JoinTarget, Lookup, ProbeStartRx
  <1>7. ASSUME NEW c \in Callers, NEW pt \in Ports, StartWrite(c, pt)
        PROVE  SingleCallerInv'
    BY <1>0, <1>7 DEF CallerInv, UniquePort, JoinTarget, Lookup, StartWrite, SharedVars
  <1>8. ASSUME NEW c \in Callers, WriteGetHandle(c)
        PROVE  SingleCallerInv'
    BY <1>0, <1>8 DEF CallerInv, UniquePort, JoinTarget, Lookup, WriteGetHandle, SharedVars
  <1>9. ASSUME NEW c \in Callers, WriteSend(c)
        PROVE  SingleCallerInv'
    BY <1>0, <1>9 DEF CallerInv, UniquePort, JoinTarget, Lookup, WriteSend, SharedVars
  <1>10. ASSUME NEW c \in Callers, NEW pt \in Ports, StartClose(c, pt)
        PROVE  SingleCallerInv'
    BY <1>0, <1>10 DEF CallerInv, UniquePort, JoinTarget, Lookup, StartClose, SharedVars
  <1>11. ASSUME NEW c \in Callers, CloseGetHandle(c)
        PROVE  SingleCallerInv'
    BY <1>0, <1>11 DEF CallerInv, UniquePort, JoinTarget, Lookup, CloseGetHandle, SharedVars
  <1>12. ASSUME NEW c \in Callers, CloseRemove(c)
        PROVE  SingleCallerInv'
    BY <1>0, <1>12 DEF CallerInv, UniquePort, JoinTarget, Lookup, ListNotFreed, CloseRemove
  <1>13. ASSUME NEW c \in Callers, CloseFree(c)
        PROVE  SingleCallerInv'
    BY <1>0, <1>13 DEF CallerInv, UniquePort, JoinTarget, Lookup, CloseFree
  <1>14. ASSUME NEW c \in Callers, CloseTest(c)
        PROVE  SingleCallerInv'
    BY <1>0, <1>14 DEF CallerInv, UniquePort, JoinTarget, Lookup, CloseTest, SharedVars
  <1>15. ASSUME NEW c \in Callers, CloseTerminate(c)
        PROVE  SingleCallerInv'
    BY <1>0, <1>15 DEF CallerInv, UniquePort, JoinTarget, Lookup, CloseTerminate
  <1>16. ASSUME NEW c \in Callers, CloseJoin(c)
        PROVE  SingleCallerInv'
    <2>1. pc[c] = "c_join" /\ c = c0 /\ terminated /\ list = {}
      BY <1>0, <1>16 DEF CallerInv, CloseJoin
    <2>2. CASE rxThread # NoThread /\ rxThread \notin joined
                 /\ joined' = joined \cup {rxThread}
      BY <1>0, <1>16, <2>1, <2>2 DEF CallerInv, UniquePort, CloseJoin
    <2>3. CASE UNCHANGED joined
      BY <1>0, <1>16, <2>1, <2>3 DEF CallerInv, UniquePort, CloseJoin
    <2>4. QED
      BY <1>16, <2>2, <2>3 DEF CloseJoin
  <1>17. ASSUME NEW d \in Daemons, DaemonTest(d)
        PROVE  SingleCallerInv'
    BY <1>0, <1>17 DEF CallerInv, UniquePort, JoinTarget, Lookup, DaemonTest
  <1>18. ASSUME NEW d \in Daemons, DaemonLock(d)
        PROVE  SingleCallerInv'
    BY <1>0, <1>18 DEF CallerInv, UniquePort, JoinTarget, Lookup, DaemonLock
  <1>19. ASSUME NEW d \in Daemons, DaemonUnlock(d)
        PROVE  SingleCallerInv'
    BY <1>0, <1>19 DEF CallerInv, UniquePort, JoinTarget, Lookup, DaemonUnlock
  <1>20. CASE UNCHANGED vars
    BY <1>0, <1>20 DEF CallerInv, UniquePort, JoinTarget, Lookup, vars
  <1>21. QED
    BY <1>1, <1>2, <1>3, <1>4, <1>5, <1>6, <1>7, <1>8, <1>9, <1>10, <1>11, <1>12, <1>13, <1>14, <1>15, <1>16, <1>17, <1>18, <1>19, <1>20
    DEF Next, CallerCall, CallerStep, DaemonStep


\* With one application thread, every reachable state satisfies both
\* strengthenings.
LEMMA SingleInvariant ==
  ASSUME NEW c0, Callers = {c0}
  PROVE  Spec => [](IInv /\ SingleCallerInv)
  <1>1. Init => IInv /\ SingleCallerInv
    BY InitIInv, InitSingle
  <1>2. IInv /\ SingleCallerInv /\ [Next]_vars => (IInv /\ SingleCallerInv)'
    <2> SUFFICES ASSUME IInv, SingleCallerInv, [Next]_vars
                 PROVE  (IInv /\ SingleCallerInv)'
      OBVIOUS
    <2>1. IInv'
      BY NextIInv
    <2>2. SingleCallerInv'
      BY SingleStep
    <2>3. QED
      BY <2>1, <2>2
  <1>3. QED
    BY <1>1, <1>2, PTL DEF Spec

\* socket_probe, called from one application thread, never links a second
\* handle for a port that is already on-line: its getHandle check under
\* the mutex still holds when it links the new handle.
THEOREM UniquePortSingleCaller ==
  ASSUME NEW c0, Callers = {c0}
  PROVE  Spec => []UniquePort
  <1>1. IInv /\ SingleCallerInv => UniquePort
    BY DEF SingleCallerInv
  <1>2. QED
    BY SingleInvariant, <1>1, PTL

\* With one application thread, socket_write sends through and
\* socket_close frees a handle that has not been freed, and socket_close
\* unlinks a handle that is on the list: the handle getHandle returned
\* stays linked until that same call unlinks it.
THEOREM NoStaleHandleSingleCaller ==
  ASSUME NEW c0, Callers = {c0}
  PROVE  Spec => []NoStaleHandle
  <1>1. IInv /\ SingleCallerInv => NoStaleHandle
    <2> SUFFICES ASSUME IInv, SingleCallerInv, NEW c \in Callers
                 PROVE  /\ pc[c] \in {"w_use", "c_free"} => hnd[c] \notin freed
                        /\ pc[c] = "c_remove" => hnd[c] \in list
      BY DEF NoStaleHandle
    <2>1. CallerInv(c) /\ ListNotFreed
      BY DEF SingleCallerInv, IInv
    <2>2. QED
      BY <2>1 DEF CallerInv, ListNotFreed
  <1>2. QED
    BY SingleInvariant, <1>1, PTL

\* With one application thread, socket_close only calls pthread_join on
\* an rx_daemon that pthread_create started and no earlier join reaped:
\* socketH.terminated is down while a handle is linked, so the last
\* close finds the thread of the last probe that started one.
THEOREM JoinSafeSingleCaller ==
  ASSUME NEW c0, Callers = {c0}
  PROVE  Spec => []JoinSafe
  <1>1. IInv /\ SingleCallerInv => JoinSafe
    BY DEF SingleCallerInv, CallerInv, JoinTarget, JoinSafe
  <1>2. QED
    BY SingleInvariant, <1>1, PTL

=============================================================================
