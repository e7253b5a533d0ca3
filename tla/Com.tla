-------------------------------- MODULE Com --------------------------------
(***************************************************************************)
(* The AUTOSAR COM layer of src/infras/communication/Com/Com.c, for one    *)
(* ECU: the I-PDU group controller, the per-PDU RX/TX timers driven by     *)
(* Com_MainFunctionRx/Tx, the PduR protocol entry points and the signal    *)
(* API, with the PduR lower layer and the application as environment.     *)
(*                                                                         *)
(* Data abstraction: a PDU buffer is represented by the value held in the  *)
(* field of each of its signals (data) and by the set of its update bits   *)
(* that are set (ub); the bit codec that places a field in the bytes is    *)
(* modelled separately.  Group masks and GroupStatus are bitmaps in the    *)
(* code and sets of group ids here: (GroupStatus & mask) != 0 is a         *)
(* non-empty intersection.  Every handler is one atomic step, as the code  *)
(* runs single-threaded (spec section 5).                                  *)
(***************************************************************************)
EXTENDS Naturals

CONSTANTS
  NumOfGroups,   \* COM_CONFIG->numOfGroups
  NumOfIPdus,    \* COM_CONFIG->numOfIPdus
  NumOfSignals,  \* COM_CONFIG->numOfSignals
  MaxTicks,      \* largest value the timer type holds in this configuration
  Dir,           \* PDU -> "RX" | "TX" | "NONE": rxConfig, txConfig or neither
  GroupRefMask,  \* PDU -> set of groups (IPduConfig->GroupRefMask)
  Timeout,       \* PDU -> rxConfig->Timeout
  FirstTimeout,  \* PDU -> rxConfig->FirstTimeout
  CycleTime,     \* PDU -> txConfig->CycleTime
  FirstTime,     \* PDU -> txConfig->FirstTime
  SigPdu,        \* signal -> the PDU whose buffer signal->ptr points into
  SigType,       \* signal -> signal->type
  Endianness,    \* signal -> signal->Endianness
  UpdateBit,     \* signal -> bit index, or NoUpdateBit
  NoUpdateBit,   \* COM_UPDATE_BIT_NOT_USED
  Vals,          \* field contents the model tells apart
  InitValue,     \* signal -> contents of signal->initPtr at start-up
  Zero,          \* contents of a zero-initialised buffer
  NullPtr        \* a NULL data pointer passed to the signal API

GroupIds  == 0 .. NumOfGroups - 1
PduIds    == 0 .. NumOfIPdus - 1
SignalIds == 0 .. NumOfSignals - 1
Ticks     == 0 .. MaxTicks

ScalarTypes == {"COM_SINT8", "COM_UINT8", "COM_SINT16", "COM_UINT16",
                "COM_SINT32", "COM_UINT32"}
SignalTypes == ScalarTypes \cup {"COM_UINT8N", "COM_UNSUPPORTED"}

ASSUME ConfigAssumption ==
  /\ NumOfGroups \in 1 .. 31   \* 1 << id is an int shift: id 31 overflows
  /\ NumOfIPdus \in Nat /\ NumOfSignals \in Nat
  /\ MaxTicks \in Nat \ {0}   \* the timer type holds the retry value 1
  /\ Dir \in [PduIds -> {"RX", "TX", "NONE"}]
  /\ GroupRefMask \in [PduIds -> SUBSET GroupIds]
  /\ Timeout \in [PduIds -> Ticks] /\ FirstTimeout \in [PduIds -> Ticks]
  /\ CycleTime \in [PduIds -> Ticks] /\ FirstTime \in [PduIds -> Ticks]
  /\ SigPdu \in [SignalIds -> PduIds]
  /\ SigType \in [SignalIds -> SignalTypes]
  /\ Endianness \in [SignalIds -> {"BIG", "LITTLE", "OPAQUE"}]
  /\ UpdateBit \in [SignalIds -> Nat \cup {NoUpdateBit}]
  /\ NoUpdateBit \notin Nat
  /\ InitValue \in [SignalIds -> Vals] /\ Zero \in Vals
  /\ NullPtr \notin Vals

VARIABLES
  groupStatus,  \* COM_CONFIG->context->GroupStatus
  timer,        \* rxConfig/txConfig->context->timer of each PDU
  data,         \* contents of each signal's field in its PDU buffer
  ub,           \* update bits set in each PDU buffer
  shadow,       \* contents of each signal's initPtr region
  call,         \* the API call of the last step and what it returned
  out,          \* the calls into PduR and the application made by that step
  expired       \* history: RX PDUs whose timeout fired since last re-armed

vars == <<groupStatus, timer, data, ub, shadow, call, out, expired>>

-----------------------------------------------------------------------------
(* Configuration views *)

SigsOf(p)  == {s \in SignalIds : SigPdu[s] = p}
HasUB(s)   == UpdateBit[s] # NoUpdateBit
UBitsOf(p) == {UpdateBit[s] : s \in {x \in SigsOf(p) : HasUB(x)}}
Active(p)  == groupStatus \cap GroupRefMask[p] # {}
RxActive(p) == Dir[p] = "RX" /\ Active(p)
TxActive(p) == Dir[p] = "TX" /\ Active(p)

\* comSendSignal/comReceiveSignal reach a store: a byte copy, or an endian
\* codec whose type switch knows the signal type.
Packable(s) ==
  \/ SigType[s] = "COM_UINT8N"
  \/ Endianness[s] = "OPAQUE"
  \/ SigType[s] \in ScalarTypes

CallArg(op, id, arg, ret) == [op |-> op, id |-> id, arg |-> arg, ret |-> ret]
Call(op, id, ret) == CallArg(op, id, "none", ret)
Transmit(p, ok) == [kind |-> "Transmit", pdu |-> p, ok |-> ok, ubs |-> ub[p]]
Notify(kind, p) == [kind |-> kind, pdu |-> p, ok |-> TRUE, ubs |-> {}]

TypeOK ==
  /\ groupStatus \subseteq GroupIds
  /\ timer \in [PduIds -> Ticks]
  /\ data \in [SignalIds -> Vals]
  /\ ub \in [PduIds -> SUBSET Nat]
  /\ shadow \in [SignalIds -> Vals]
  /\ expired \subseteq PduIds

-----------------------------------------------------------------------------
Init ==
  /\ groupStatus = {}
  /\ timer = [p \in PduIds |-> 0]
  /\ data = [s \in SignalIds |-> Zero]
  /\ ub = [p \in PduIds |-> {}]
  /\ shadow = InitValue
  /\ call = Call("none", 0, "void")
  /\ out = {}
  /\ expired = {}

\* Com_Init: only the group status is reset.
ComInit ==
  /\ groupStatus' = {}
  /\ call' = Call("Com_Init", 0, "void")
  /\ out' = {}
  /\ UNCHANGED <<timer, data, ub, shadow, expired>>

\* The timer a group start arms: the first period if configured, else the
\* regular one.
StartTimer(p) ==
  IF Dir[p] = "RX" THEN IF FirstTimeout[p] > 0 THEN FirstTimeout[p] ELSE Timeout[p]
  ELSE IF Dir[p] = "TX" THEN IF FirstTime[p] > 0 THEN FirstTime[p] ELSE CycleTime[p]
  ELSE timer[p]

\* comIPduDataInit for the PDUs in started: comSendSignal(signal, initPtr)
\* for every signal, which sets its update bit even when the store fails.
InitData(started) ==
  /\ data' = [s \in SignalIds |->
                IF SigPdu[s] \in started /\ Packable(s) THEN shadow[s] ELSE data[s]]
  /\ ub' = [p \in PduIds |-> IF p \in started THEN ub[p] \cup UBitsOf(p) ELSE ub[p]]

IpduGroupStart(g, initialize) ==
  LET started == {p \in PduIds : g \in GroupRefMask[p]} IN
  /\ g < NumOfGroups
  /\ groupStatus' = groupStatus \cup {g}
  /\ IF initialize THEN InitData(started) ELSE UNCHANGED <<data, ub>>
  /\ timer' = [p \in PduIds |-> IF p \in started THEN StartTimer(p) ELSE timer[p]]
  /\ expired' = expired \ started
  /\ call' = Call("Com_IpduGroupStart", g, "void")
  /\ out' = {}
  /\ UNCHANGED shadow

\* Mutant: stopping a group also clears the timers of the PDUs it stops.
IpduGroupStopClearsTimer(g) ==
  /\ g < NumOfGroups
  /\ groupStatus' = groupStatus \ {g}
  /\ timer' = [p \in PduIds |-> IF GroupRefMask[p] \cap groupStatus' = {}
                                  THEN 0 ELSE timer[p]]
  /\ call' = Call("Com_IpduGroupStop", g, "void")
  /\ out' = {}
  /\ UNCHANGED <<data, ub, shadow, expired>>

IpduGroupStop(g) ==
  /\ g < NumOfGroups
  /\ groupStatus' = groupStatus \ {g}
  /\ call' = Call("Com_IpduGroupStop", g, "void")
  /\ out' = {}
  /\ UNCHANGED <<timer, data, ub, shadow, expired>>

\* An out-of-range handle: every entry point returns E_NOT_OK (or nothing)
\* without touching the state.
InvalidHandle(op, id) ==
  /\ call' = Call(op, id, IF op \in {"Com_IpduGroupStart", "Com_IpduGroupStop",
                                      "Com_RxIndication", "Com_TxConfirmation"}
                          THEN "void" ELSE "E_NOT_OK")
  /\ out' = {}
  /\ UNCHANGED <<groupStatus, timer, data, ub, shadow, expired>>

\* Com_SendSignal with a valid handle: comSendSignal.  There is no NULL
\* check: a NULL source is dereferenced, which on a target without memory
\* protection reads whatever lies at address 0.
SendSignal(id, src) ==
  LET p == SigPdu[id] IN
  /\ id < NumOfSignals
  /\ \E v \in IF src = NullPtr THEN Vals ELSE {src} :
        data' = [data EXCEPT ![id] = IF Packable(id) THEN v ELSE @]
  /\ ub' = IF HasUB(id) THEN [ub EXCEPT ![p] = @ \cup {UpdateBit[id]}] ELSE ub
  /\ call' = CallArg("Com_SendSignal", id, src, IF Packable(id) THEN "E_OK" ELSE "E_NOT_OK")
  /\ out' = {}
  /\ UNCHANGED <<groupStatus, timer, shadow, expired>>

\* Com_ReceiveSignal with a valid handle and pointer: comReceiveSignal.  A
\* clear update bit gates the read; a set one is consumed before the store,
\* which can still fail on the signal type.
ReceiveSignal(id) ==
  LET p == SigPdu[id] IN
  /\ id < NumOfSignals
  /\ \/ /\ HasUB(id) /\ UpdateBit[id] \notin ub[p]
        /\ call' = Call("Com_ReceiveSignal", id, "E_NOT_OK")
        /\ UNCHANGED ub
     \/ /\ ~HasUB(id) \/ UpdateBit[id] \in ub[p]
        /\ ub' = IF HasUB(id) THEN [ub EXCEPT ![p] = @ \ {UpdateBit[id]}] ELSE ub
        /\ call' = Call("Com_ReceiveSignal", id, IF Packable(id) THEN "E_OK" ELSE "E_NOT_OK")
  /\ out' = {}
  /\ UNCHANGED <<groupStatus, timer, data, shadow, expired>>

\* Com_SendSignalGroup: copy the initPtr (shadow) bytes of a UINT8N signal
\* into the PDU; no update bit is set.
SendSignalGroup(id) ==
  /\ id < NumOfSignals /\ SigType[id] = "COM_UINT8N"
  /\ data' = [data EXCEPT ![id] = shadow[id]]
  /\ call' = Call("Com_SendSignalGroup", id, "E_OK")
  /\ out' = {}
  /\ UNCHANGED <<groupStatus, timer, ub, shadow, expired>>

\* Com_ReceiveSignalGroup: copy the PDU bytes of a UINT8N signal into its
\* initPtr region, the region comIPduDataInit later sends from.
ReceiveSignalGroup(id) ==
  /\ id < NumOfSignals /\ SigType[id] = "COM_UINT8N"
  /\ shadow' = [shadow EXCEPT ![id] = data[id]]
  /\ call' = Call("Com_ReceiveSignalGroup", id, "E_OK")
  /\ out' = {}
  /\ UNCHANGED <<groupStatus, timer, data, ub, expired>>

\* Com_TriggerIPDUSend: transmit now; re-arm the cycle on success, retry on
\* the next tick on failure, and report E_OK either way.  Update bits stay.
TriggerIPDUSend(pid) ==
  /\ pid < NumOfIPdus /\ TxActive(pid)
  /\ \E ok \in BOOLEAN :
       /\ timer' = [timer EXCEPT ![pid] = IF ok THEN CycleTime[pid] ELSE 1]
       /\ out' = {Transmit(pid, ok)}
  /\ call' = Call("Com_TriggerIPDUSend", pid, "E_OK")
  /\ UNCHANGED <<groupStatus, data, ub, shadow, expired>>

\* Com_RxIndication of a frame at least as long as the PDU: the whole buffer
\* (every field and update bit) is replaced by the frame, the timer re-armed.
RxIndication(pid) ==
  /\ pid < NumOfIPdus /\ RxActive(pid)
  /\ \E vals \in [SigsOf(pid) -> Vals], bits \in SUBSET UBitsOf(pid) :
       /\ data' = [s \in SignalIds |-> IF s \in SigsOf(pid) THEN vals[s] ELSE data[s]]
       /\ ub' = [ub EXCEPT ![pid] = bits]
  /\ timer' = [timer EXCEPT ![pid] = Timeout[pid]]
  /\ expired' = expired \ {pid}
  /\ call' = Call("Com_RxIndication", pid, "void")
  /\ out' = {Notify("RxNotification", pid)}
  /\ UNCHANGED <<groupStatus, shadow>>

\* Com_TriggerTransmit into a large enough frame: a copy of the buffer, on
\* any PDU and regardless of groups.
TriggerTransmit(pid) ==
  /\ pid < NumOfIPdus
  /\ call' = Call("Com_TriggerTransmit", pid, "E_OK")
  /\ out' = {[kind |-> "CopyOut", pdu |-> pid, ok |-> TRUE, ubs |-> ub[pid]]}
  /\ UNCHANGED <<groupStatus, timer, data, ub, shadow, expired>>

\* Com_TxConfirmation: a notification for an active TX PDU, nothing else.
TxConfirmation(pid, result) ==
  /\ pid < NumOfIPdus /\ TxActive(pid)
  /\ call' = Call("Com_TxConfirmation", pid, "void")
  /\ out' = {Notify(IF result THEN "TxNotification" ELSE "ErrorNotification", pid)}
  /\ UNCHANGED <<groupStatus, timer, data, ub, shadow, expired>>

\* One PDU in Com_MainFunctionRx: count an armed timer down; reaching 0
\* calls RxTOut, and the timer stays at 0 until re-armed.
\* Mutants: the decrement without its "timer > 0" guard (an unsigned wrap),
\* and with "timer > 1" (an off-by-one that never reaches 0).
RxTimerNextUnguarded(p) == IF RxActive(p) THEN timer[p] - 1 ELSE timer[p]
RxTimerNextOffByOne(p) == IF RxActive(p) /\ timer[p] > 1 THEN timer[p] - 1 ELSE timer[p]
RxTimerNext(p) == IF RxActive(p) /\ timer[p] > 0 THEN timer[p] - 1 ELSE timer[p]
\* Mutant: the "0 == timer" test outside the "timer > 0" block.
RxTimesOutLatched(p) == RxActive(p) /\ RxTimerNext(p) = 0
RxTimesOut(p) == RxActive(p) /\ timer[p] > 0 /\ RxTimerNext(p) = 0

\* One PDU in Com_MainFunctionTx: reaching 0 calls PduR_ComTransmit; success
\* re-arms CycleTime and clears the update bits, failure arms 1 (retry).
TxDue(p) == TxActive(p) /\ timer[p] > 0 /\ timer[p] - 1 = 0
\* Mutant: a failed transmit leaves the timer at 0 instead of arming 1.
TxTimerNextNoRetry(p, ok) ==
  IF TxDue(p) THEN IF ok THEN CycleTime[p] ELSE 0
  ELSE IF TxActive(p) /\ timer[p] > 0 THEN timer[p] - 1 ELSE timer[p]
TxTimerNext(p, ok) ==
  IF TxDue(p) THEN IF ok THEN CycleTime[p] ELSE 1
  ELSE IF TxActive(p) /\ timer[p] > 0 THEN timer[p] - 1 ELSE timer[p]

\* Com_MainFunctionRx (doRx), Com_MainFunctionTx (doTx), or both in turn
\* (Com_MainFunction): the loops touch disjoint PDUs, so the order within
\* the step is invisible to the state.  PduR answers each transmit freely.
MainTick(op, doRx, doTx) ==
  LET timedOut == {p \in PduIds : doRx /\ RxTimesOut(p)}
      due == {p \in PduIds : doTx /\ TxDue(p)}
  IN \E okSet \in SUBSET due :
       /\ timer' = [p \in PduIds |->
                      IF doRx /\ Dir[p] = "RX" THEN RxTimerNext(p)
                      ELSE IF doTx /\ Dir[p] = "TX" THEN TxTimerNext(p, p \in okSet)
                      ELSE timer[p]]
       /\ ub' = [p \in PduIds |-> IF p \in okSet THEN ub[p] \ UBitsOf(p) ELSE ub[p]]
       /\ out' = {Notify("RxTOut", p) : p \in timedOut}
                   \cup {Transmit(p, p \in okSet) : p \in due}
       /\ expired' = expired \cup timedOut
       /\ call' = Call(op, 0, "void")
       /\ UNCHANGED <<groupStatus, data, shadow>>

MainFunctionRx == MainTick("Com_MainFunctionRx", TRUE, FALSE)
MainFunctionTx == MainTick("Com_MainFunctionTx", FALSE, TRUE)
MainFunction   == MainTick("Com_MainFunction", TRUE, TRUE)

-----------------------------------------------------------------------------
Next ==
  \/ ComInit
  \/ \E g \in GroupIds, b \in BOOLEAN : IpduGroupStart(g, b)
  \/ \E g \in GroupIds : IpduGroupStop(g)
  \/ \E id \in SignalIds :
       \/ \E src \in Vals \cup {NullPtr} : SendSignal(id, src)
       \/ ReceiveSignal(id)
       \/ SendSignalGroup(id)
       \/ ReceiveSignalGroup(id)
  \/ \E pid \in PduIds :
       \/ TriggerIPDUSend(pid)
       \/ RxIndication(pid)
       \/ TriggerTransmit(pid)
       \/ \E r \in BOOLEAN : TxConfirmation(pid, r)
  \* an out-of-range handle; a short frame or an inactive PDU in RxIndication
  \/ InvalidHandle("Com_IpduGroupStart", NumOfGroups)
  \/ InvalidHandle("Com_SendSignal", NumOfSignals)
  \/ InvalidHandle("Com_RxIndication", NumOfIPdus)
  \/ MainFunctionRx
  \/ MainFunctionTx
  \/ MainFunction

\* The periodic task calls Com_MainFunction forever.
Spec == Init /\ [][Next]_vars /\ WF_vars(MainFunction)
-----------------------------------------------------------------------------
(***************************************************************************)
(* Properties                                                              *)
(***************************************************************************)

\* An active TX PDU with a cycle always has a running timer, at most its
\* longest period: Com_MainFunctionTx only fires on a timer that reaches 0
\* from 1, so a timer latched at 0 would silence the PDU for good.  Group
\* start, the retry after a failed PduR_ComTransmit and Com_TriggerIPDUSend
\* must all leave it armed.
TxPeriod(p) == IF FirstTime[p] > CycleTime[p] THEN FirstTime[p] ELSE CycleTime[p]
TxNeverStalls ==
  \A p \in PduIds : TxActive(p) /\ CycleTime[p] > 0 => timer[p] \in 1 .. TxPeriod(p)

\* RxTOut fires at most once per expiry: between two timeouts of an RX PDU
\* Com_MainFunctionRx must see it re-armed by an accepted Com_RxIndication
\* or a Com_IpduGroupStart of one of its groups (spec 4.E, 8.9).
RxTimeoutOnce ==
  [][\A e \in out' : e.kind = "RxTOut" => e.pdu \notin expired]_vars

\* The step re-armed the RX timer of p.
Rearmed(p) ==
  \/ Notify("RxNotification", p) \in out
  \/ call.op = "Com_IpduGroupStart" /\ call.id \in GroupRefMask[p]

\* An armed RX deadline is eventually detected: while the PDU stays active
\* and no frame or group start re-arms it, the periodic Com_MainFunction
\* counts the timer down until RxTOut fires.
RxTimeoutDetected ==
  \A p \in PduIds :
    (RxActive(p) /\ timer[p] > 0) ~> (p \in expired \/ ~RxActive(p) \/ Rearmed(p))

\* The spec (4.B, 7): a send that fails on an unsupported signal type
\* returns E_NOT_OK with no side effect on the PDU buffer.
SendFailureNoSideEffect ==
  [][call'.op = "Com_SendSignal" /\ call'.ret = "E_NOT_OK" => UNCHANGED <<data, ub>>]_vars

\* The spec (6): Com_SendSignal with a NULL source returns E_NOT_OK and
\* leaves the PDU buffer alone.
SendNullRejected ==
  [][call'.op = "Com_SendSignal" /\ call'.arg = NullPtr =>
       call'.ret = "E_NOT_OK" /\ UNCHANGED <<data, ub>>]_vars

\* The spec (4.E, 9): a successful transmission of a TX PDU, timer-driven or
\* by Com_TriggerIPDUSend, clears the update bits of its signals.
TxClearsUpdateBits ==
  [][\A e \in out' : e.kind = "Transmit" /\ e.ok => ub'[e.pdu] = {}]_vars

\* The cyclic TX PDUs, and the state of Com seen as a transmission schedule.
CyclicTx == {p \in PduIds : Dir[p] = "TX" /\ CycleTime[p] > 0}
TxSchedule == INSTANCE ComTxSchedule WITH
  TxPdus <- CyclicTx,
  Period <- [p \in CyclicTx |-> TxPeriod(p)],
  active <- {p \in CyclicTx : TxActive(p)},
  slack  <- [p \in CyclicTx |-> timer[p]],
  sent   <- {e.pdu : e \in {x \in out : x.kind = "Transmit"}} \cap CyclicTx

\* Com implements the cyclic transmission schedule of spec 4.E and 8.7-8.9:
\* Com_MainFunctionTx calls PduR_ComTransmit for an active cyclic PDU
\* exactly when its timer runs out, and Com_IpduGroupStart, the re-arm after
\* success, the retry after failure and Com_TriggerIPDUSend all set the
\* next attempt at most one period ahead; group stops and Com_Init keep the
\* timer, and no other entry point touches it or transmits.
TxScheduleRefined == TxSchedule!Spec

=============================================================================
