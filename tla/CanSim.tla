------------------------------- MODULE CanSim -------------------------------
(***************************************************************************)
(* The CAN UDP-multicast simulator of                                      *)
(* src/tools/libraries/Can/src/simulator_can_v2.c: application threads     *)
(* calling socket_probe, socket_write and socket_close, and the rx_daemon  *)
(* threads that socket_probe starts, sharing the handle list socketH.      *)
(*                                                                         *)
(* Granularity: every section between pthread_mutex_lock and               *)
(* pthread_mutex_unlock of a caller is one step (it holds the mutex only   *)
(* inside the step, so it needs the mutex free); every unlocked access to  *)
(* shared state (socketH.terminated, the list head, a handle) is a step of *)
(* its own.  The rx_daemon keeps the mutex across its notification loop,  *)
(* so its lock and unlock are separate steps.  Sockets and frames are      *)
(* abstracted away: opening the sockets of a port succeeds or fails.       *)
(*                                                                         *)
(* A handle is named by the number of the probe that malloc'ed it and a    *)
(* daemon by the number of the probe whose pthread_create started it, so   *)
(* both are fresh; a freed handle is never handed out again.               *)
(***************************************************************************)
EXTENDS Naturals

CONSTANTS
  Callers,    \* application threads calling the simulator's device ops
  Ports,      \* CAN port numbers the callers use
  MaxProbes,  \* bound on the number of socket_probe calls of a behaviour
  NoPort      \* the port of a handle that was never malloc'ed

ASSUME CanSimAssumption ==
  /\ MaxProbes \in Nat
  /\ NoPort \notin Ports

Handles == 1 .. MaxProbes    \* struct Can_socketHandle_s objects
Daemons == 1 .. MaxProbes    \* rx_daemon threads
NoHandle == 0                \* a NULL handle pointer
NoThread == 0                \* socketH.rx_thread before any pthread_create
NoOwner  == 0                \* the mutex is unlocked

CallerPcs == {"idle", "p_init", "p_get", "p_insert", "p_start",
              "w_get", "w_use",
              "c_get", "c_remove", "c_free", "c_test", "c_term", "c_join"}
DaemonPcs == {"unborn", "test", "lock", "unlock", "exited"}

VARIABLES
  initialized, \* socketH.initialized
  terminated,  \* socketH.terminated
  mutex,       \* the daemon holding socketH.mutex across its loop, or NoOwner
  list,        \* the handles on socketH.head
  hport,       \* handle -> handle->port
  alloc,       \* the handles malloc'ed so far
  freed,       \* the handles free'd so far
  rxThread,    \* socketH.rx_thread
  joined,      \* the daemons pthread_join has returned for
  dpc,         \* daemon -> where it is in rx_daemon
  nProbes,     \* number of socket_probe calls started
  pc,          \* caller -> where it is in its current call
  port,        \* caller -> the port argument of its current call
  hnd          \* caller -> its local handle pointer

vars == <<initialized, terminated, mutex, list, hport, alloc, freed,
          rxThread, joined, dpc, nProbes, pc, port, hnd>>

TypeOK ==
  /\ initialized \in BOOLEAN /\ terminated \in BOOLEAN
  /\ mutex \in Daemons \cup {NoOwner}
  /\ list \subseteq Handles /\ alloc \subseteq Handles /\ freed \subseteq Handles
  /\ hport \in [Handles -> Ports \cup {NoPort}]
  /\ rxThread \in Daemons \cup {NoThread} /\ joined \subseteq Daemons
  /\ dpc \in [Daemons -> DaemonPcs]
  /\ nProbes \in 0 .. MaxProbes
  /\ pc \in [Callers -> CallerPcs]
  /\ port \in [Callers -> Ports]
  /\ hnd \in [Callers -> Handles \cup {NoHandle}]

Init ==
  /\ initialized = FALSE /\ terminated = FALSE
  /\ mutex = NoOwner
  /\ list = {} /\ alloc = {} /\ freed = {}
  /\ hport = [h \in Handles |-> NoPort]
  /\ rxThread = NoThread /\ joined = {}
  /\ dpc = [d \in Daemons |-> "unborn"]
  /\ nProbes = 0
  /\ pc = [c \in Callers |-> "idle"]
  /\ port \in [Callers -> Ports]
  /\ hnd = [c \in Callers |-> NoHandle]

\* getHandle: the handle of port pt on the list, found under the mutex.
Lookup(pt) == {h \in list : hport[h] = pt}

Unlocked == mutex = NoOwner

Goto(c, l) == pc' = [pc EXCEPT ![c] = l]

SharedVars == <<initialized, terminated, mutex, list, hport, alloc, freed,
                rxThread, joined, dpc, nProbes>>

-----------------------------------------------------------------------------
(* socket_probe *)

StartProbeOffByOne(c, pt) ==
  /\ pc[c] = "idle" /\ nProbes < MaxProbes
  /\ nProbes' = nProbes + 1
  /\ port' = [port EXCEPT ![c] = pt]
  /\ hnd' = [hnd EXCEPT ![c] = nProbes]
  /\ Goto(c, "p_init")
  /\ UNCHANGED <<initialized, terminated, mutex, list, hport, alloc, freed,
                 rxThread, joined, dpc>>

\* Entry of socket_probe(port); the probe number names the handle it may
\* malloc and the rx thread it may create.
StartProbe(c, pt) ==
  /\ pc[c] = "idle" /\ nProbes < MaxProbes
  /\ nProbes' = nProbes + 1
  /\ port' = [port EXCEPT ![c] = pt]
  /\ hnd' = [hnd EXCEPT ![c] = nProbes + 1]
  /\ Goto(c, "p_init")
  /\ UNCHANGED <<initialized, terminated, mutex, list, hport, alloc, freed,
                 rxThread, joined, dpc>>

\* First lock section: STAILQ_INIT, TcpIp_Init and terminated = true once.
ProbeInit(c) ==
  /\ pc[c] = "p_init" /\ Unlocked
  /\ IF initialized
       THEN UNCHANGED <<initialized, terminated, list>>
       ELSE /\ initialized' = TRUE /\ terminated' = TRUE /\ list' = {}
  /\ Goto(c, "p_get")
  /\ UNCHANGED <<mutex, hport, alloc, freed, rxThread, joined, dpc, nProbes,
                 port, hnd>>

ProbeGetHandleUnchecked(c) ==
  /\ pc[c] = "p_get" /\ Unlocked
  /\ Goto(c, "p_insert")
  /\ UNCHANGED <<SharedVars, port, hnd>>

\* getHandle(port): an on-line port is not probed again (rv = false).
ProbeGetHandle(c) ==
  /\ pc[c] = "p_get" /\ Unlocked
  /\ Goto(c, IF Lookup(port[c]) # {} THEN "p_start" ELSE "p_insert")
  /\ UNCHANGED <<SharedVars, port, hnd>>

\* TcpIp_Create, TcpIp_Bind, TcpIp_AddToMulticast or the second
\* TcpIp_Create fails: the sockets are closed and rv = false.
ProbeOpenFailed(c) ==
  /\ pc[c] = "p_insert"
  /\ Goto(c, "p_start")
  /\ UNCHANGED <<SharedVars, port, hnd>>

\* The sockets are open: malloc the handle and STAILQ_INSERT_TAIL it
\* under the mutex.
ProbeInsert(c) ==
  /\ pc[c] = "p_insert" /\ Unlocked
  /\ list' = list \cup {hnd[c]}
  /\ alloc' = alloc \cup {hnd[c]}
  /\ hport' = [hport EXCEPT ![hnd[c]] = port[c]]
  /\ Goto(c, "p_start")
  /\ UNCHANGED <<initialized, terminated, mutex, freed, rxThread, joined, dpc,
                 nProbes, port, hnd>>

ProbeStartRxNoReset(c) ==
  /\ pc[c] = "p_start" /\ Unlocked
  /\ IF terminated /\ list # {}
       THEN /\ rxThread' = hnd[c]
            /\ dpc' = [dpc EXCEPT ![hnd[c]] = "test"]
       ELSE UNCHANGED <<rxThread, dpc>>
  /\ Goto(c, "idle")
  /\ UNCHANGED <<initialized, terminated, mutex, list, hport, alloc, freed,
                 joined, nProbes, port, hnd>>

\* Last lock section: start rx_daemon when none runs and the list is not
\* empty (pthread_create failing is assert(0)).
ProbeStartRx(c) ==
  /\ pc[c] = "p_start" /\ Unlocked
  /\ IF terminated /\ list # {}
       THEN /\ rxThread' = hnd[c]
            /\ dpc' = [dpc EXCEPT ![hnd[c]] = "test"]
            /\ terminated' = FALSE
       ELSE UNCHANGED <<rxThread, dpc, terminated>>
  /\ Goto(c, "idle")
  /\ UNCHANGED <<initialized, mutex, list, hport, alloc, freed, joined,
                 nProbes, port, hnd>>

-----------------------------------------------------------------------------
(* socket_write *)

StartWrite(c, pt) ==
  /\ pc[c] = "idle"
  /\ port' = [port EXCEPT ![c] = pt]
  /\ Goto(c, "w_get")
  /\ UNCHANGED <<SharedVars, hnd>>

\* getHandle(port); a port that is not on-line returns false.
WriteGetHandle(c) ==
  /\ pc[c] = "w_get" /\ Unlocked
  /\ IF Lookup(port[c]) = {}
       THEN Goto(c, "idle") /\ UNCHANGED hnd
       ELSE \E h \in Lookup(port[c]) :
              Goto(c, "w_use") /\ hnd' = [hnd EXCEPT ![c] = h]
  /\ UNCHANGED <<SharedVars, port>>

\* Build the frame and TcpIp_SendTo(handle->sockWt, ...) without the mutex.
WriteSend(c) ==
  /\ pc[c] = "w_use"
  /\ Goto(c, "idle")
  /\ UNCHANGED <<SharedVars, port, hnd>>

-----------------------------------------------------------------------------
(* socket_close *)

StartClose(c, pt) ==
  /\ pc[c] = "idle"
  /\ port' = [port EXCEPT ![c] = pt]
  /\ Goto(c, "c_get")
  /\ UNCHANGED <<SharedVars, hnd>>

\* getHandle(port); nothing is done for a port that is not on-line.
CloseGetHandle(c) ==
  /\ pc[c] = "c_get" /\ Unlocked
  /\ IF Lookup(port[c]) = {}
       THEN Goto(c, "idle") /\ UNCHANGED hnd
       ELSE \E h \in Lookup(port[c]) :
              Goto(c, "c_remove") /\ hnd' = [hnd EXCEPT ![c] = h]
  /\ UNCHANGED <<SharedVars, port>>

CloseRemoveMissing(c) ==
  /\ pc[c] = "c_remove" /\ Unlocked
  /\ Goto(c, "c_free")
  /\ UNCHANGED <<SharedVars, port, hnd>>

\* STAILQ_REMOVE under the mutex.
CloseRemove(c) ==
  /\ pc[c] = "c_remove" /\ Unlocked
  /\ list' = list \ {hnd[c]}
  /\ Goto(c, "c_free")
  /\ UNCHANGED <<initialized, terminated, mutex, hport, alloc, freed, rxThread,
                 joined, dpc, nProbes, port, hnd>>

\* TcpIp_Close of both sockets and free(handle), without the mutex.
CloseFree(c) ==
  /\ pc[c] = "c_free"
  /\ freed' = freed \cup {hnd[c]}
  /\ Goto(c, "c_test")
  /\ UNCHANGED <<initialized, terminated, mutex, list, hport, alloc, rxThread,
                 joined, dpc, nProbes, port, hnd>>

CloseTestAlways(c) ==
  /\ pc[c] = "c_test"
  /\ Goto(c, "c_term")
  /\ UNCHANGED <<SharedVars, port, hnd>>

\* STAILQ_EMPTY(&socketH.head), read without the mutex.
CloseTest(c) ==
  /\ pc[c] = "c_test"
  /\ Goto(c, IF list = {} THEN "c_term" ELSE "idle")
  /\ UNCHANGED <<SharedVars, port, hnd>>

\* socketH.terminated = true, written without the mutex.
CloseTerminate(c) ==
  /\ pc[c] = "c_term"
  /\ terminated' = TRUE
  /\ Goto(c, "c_join")
  /\ UNCHANGED <<initialized, mutex, list, hport, alloc, freed, rxThread,
                 joined, dpc, nProbes, port, hnd>>

\* pthread_join(socketH.rx_thread): waits for that daemon to return.  On a
\* thread that was never created or was joined already the call is
\* undefined; glibc then returns an error at once, which is what is taken.
CloseJoin(c) ==
  /\ pc[c] = "c_join"
  /\ \/ /\ rxThread # NoThread /\ rxThread \notin joined
        /\ dpc[rxThread] = "exited"
        /\ joined' = joined \cup {rxThread}
     \/ /\ rxThread = NoThread \/ rxThread \in joined
        /\ UNCHANGED joined
  /\ Goto(c, "idle")
  /\ UNCHANGED <<initialized, terminated, mutex, list, hport, alloc, freed,
                 rxThread, dpc, nProbes, port, hnd>>

-----------------------------------------------------------------------------
(* rx_daemon *)

DaemonTestNoExit(d) ==
  /\ dpc[d] = "test"
  /\ dpc' = [dpc EXCEPT ![d] = "lock"]
  /\ UNCHANGED <<initialized, terminated, mutex, list, hport, alloc, freed,
                 rxThread, joined, nProbes, pc, port, hnd>>

\* while (false == socketH.terminated): the volatile flag, read unlocked.
DaemonTest(d) ==
  /\ dpc[d] = "test"
  /\ dpc' = [dpc EXCEPT ![d] = IF terminated THEN "exited" ELSE "lock"]
  /\ UNCHANGED <<initialized, terminated, mutex, list, hport, alloc, freed,
                 rxThread, joined, nProbes, pc, port, hnd>>

\* Lock the mutex and run rx_notifiy on every handle of the list, which
\* delivers its pending frames to handle->rx_notification.
DaemonLock(d) ==
  /\ dpc[d] = "lock" /\ Unlocked
  /\ mutex' = d
  /\ dpc' = [dpc EXCEPT ![d] = "unlock"]
  /\ UNCHANGED <<initialized, terminated, list, hport, alloc, freed, rxThread,
                 joined, nProbes, pc, port, hnd>>

\* Unlock the mutex; usleep(1000) before the next test.
DaemonUnlock(d) ==
  /\ dpc[d] = "unlock"
  /\ mutex' = NoOwner
  /\ dpc' = [dpc EXCEPT ![d] = "test"]
  /\ UNCHANGED <<initialized, terminated, list, hport, alloc, freed, rxThread,
                 joined, nProbes, pc, port, hnd>>

-----------------------------------------------------------------------------

\* The steps of a call in progress (the caller's thread is running).
CallerStep(c) ==
  \/ ProbeInit(c) \/ ProbeGetHandle(c) \/ ProbeOpenFailed(c)
  \/ ProbeInsert(c) \/ ProbeStartRx(c)
  \/ WriteGetHandle(c) \/ WriteSend(c)
  \/ CloseGetHandle(c) \/ CloseRemove(c) \/ CloseFree(c) \/ CloseTest(c)
  \/ CloseTerminate(c) \/ CloseJoin(c)

\* The application calling into the simulator.
CallerCall(c) ==
  \E pt \in Ports : StartProbe(c, pt) \/ StartWrite(c, pt) \/ StartClose(c, pt)

DaemonStep(d) ==
  DaemonTest(d) \/ DaemonLock(d) \/ DaemonUnlock(d)

Next ==
  \/ \E c \in Callers : CallerCall(c) \/ CallerStep(c)
  \/ \E d \in Daemons : DaemonStep(d)

\* A running thread is scheduled again; the mutex is free again after each
\* rx_daemon iteration's usleep(1000), so a thread waiting for it gets it.
Fairness ==
  /\ \A c \in Callers : SF_vars(CallerStep(c))
  /\ \A d \in Daemons : SF_vars(DaemonStep(d))

Spec == Init /\ [][Next]_vars /\ Fairness

-----------------------------------------------------------------------------
(* Properties *)

\* socket_probe refuses a port that is already on-line (its getHandle
\* check), so no two handles on the list serve the same port.
UniquePort ==
  \A h1, h2 \in list : h1 # h2 => hport[h1] # hport[h2]

\* The handle socket_write sends through and the one socket_close frees
\* have not been freed yet, and the one socket_close unlinks is still on
\* the list (STAILQ_REMOVE of an absent element walks off the list).
NoStaleHandle ==
  \A c \in Callers :
    /\ pc[c] \in {"w_use", "c_free"} => hnd[c] \notin freed
    /\ pc[c] = "c_remove" => hnd[c] \in list

\* rx_daemon only iterates over live handles: no handle on the list has
\* been freed by socket_close.
ListNotFreed == list \cap freed = {}

\* socket_close only joins a thread that pthread_create started and that
\* no earlier pthread_join has reaped.
JoinSafe ==
  \A c \in Callers :
    pc[c] = "c_join" => rxThread # NoThread /\ rxThread \notin joined

\* A port that is on-line is served by rx_daemon: as long as its handle
\* stays on the list, some daemon eventually runs rx_notifiy over it.
RxServed ==
  \A h \in Handles :
    h \in list ~> (h \notin list \/ \E d \in Daemons : dpc[d] = "unlock" /\ h \in list)

\* socket_close returns: the rx thread it joins eventually leaves its loop.
CloseReturns ==
  \A c \in Callers : pc[c] = "c_join" ~> pc[c] = "idle"

=============================================================================
