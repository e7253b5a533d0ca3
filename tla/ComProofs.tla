----------------------------- MODULE ComProofs -----------------------------
(***************************************************************************)
(* Proofs about the COM model (Com.tla) for every configuration that       *)
(* satisfies ConfigAssumption: the type invariant, and that an active TX   *)
(* PDU with a cycle never has its timer latched at 0.                      *)
(***************************************************************************)
EXTENDS Com, TLAPS

USE ConfigAssumption DEF GroupIds, PduIds, SignalIds, Ticks

\* The handles of a PDU's update bits are bit indices.
LEMMA UBitsInNat == \A p \in PduIds : UBitsOf(p) \subseteq Nat
  BY DEF UBitsOf, HasUB, SigsOf

\* Every timer value a group start arms fits the timer type.
LEMMA StartTimerType ==
  TypeOK => \A p \in PduIds : StartTimer(p) \in Ticks
  BY DEF StartTimer, TypeOK

\* The timers after a main-function tick fit the timer type.
LEMMA TickTimerType ==
  TypeOK => \A p \in PduIds : \A ok :
              RxTimerNext(p) \in Ticks /\ TxTimerNext(p, ok) \in Ticks
<1> SUFFICES ASSUME TypeOK, NEW p \in PduIds, NEW ok
             PROVE  RxTimerNext(p) \in Ticks /\ TxTimerNext(p, ok) \in Ticks
  OBVIOUS
<1>1. timer[p] \in Ticks
  BY DEF TypeOK
<1>2. RxTimerNext(p) \in Ticks
  BY <1>1 DEF RxTimerNext
<1>3. TxTimerNext(p, ok) \in Ticks
  <2>1. CASE TxDue(p)
    <3>1. 1 \in Ticks /\ CycleTime[p] \in Ticks
      OBVIOUS
    <3>2. QED
      BY <2>1, <3>1 DEF TxTimerNext
  <2>2. CASE ~TxDue(p)
    BY <1>1, <2>2 DEF TxTimerNext
  <2>3. QED
    BY <2>1, <2>2
<1>4. QED
  BY <1>2, <1>3

-----------------------------------------------------------------------------
\* The type invariant: every step keeps each variable in its type.
LEMMA TypeOKStep == TypeOK /\ [Next]_vars => TypeOK'
<1> SUFFICES ASSUME TypeOK, [Next]_vars PROVE TypeOK'
  OBVIOUS
<1>1. CASE ComInit
  BY <1>1 DEF ComInit, TypeOK
<1>2. ASSUME NEW g \in GroupIds, NEW b \in BOOLEAN, IpduGroupStart(g, b)
      PROVE  TypeOK'
  <2> DEFINE started == {p \in PduIds : g \in GroupRefMask[p]}
  <2>1. timer' \in [PduIds -> Ticks]
    BY <1>2, StartTimerType DEF IpduGroupStart, TypeOK
  <2>2. data' \in [SignalIds -> Vals] /\ ub' \in [PduIds -> SUBSET Nat]
    <3>1. CASE b
      <4>1. InitData(started)
        BY <1>2, <3>1 DEF IpduGroupStart
      <4>2. QED
        BY <4>1, UBitsInNat DEF InitData, TypeOK
    <3>2. CASE ~b
      BY <1>2, <3>2 DEF IpduGroupStart, TypeOK
    <3>3. QED
      BY <3>1, <3>2
  <2>3. QED
    BY <1>2, <2>1, <2>2 DEF IpduGroupStart, TypeOK
<1>3. ASSUME NEW g \in GroupIds, IpduGroupStop(g) PROVE TypeOK'
  BY <1>3 DEF IpduGroupStop, TypeOK
<1>4. ASSUME NEW id \in SignalIds, NEW src \in Vals \cup {NullPtr},
             SendSignal(id, src)
      PROVE  TypeOK'
  <2>1. PICK v \in Vals : data' = [data EXCEPT ![id] = IF Packable(id) THEN v ELSE @]
    BY <1>4 DEF SendSignal
  <2>2. ub' \in [PduIds -> SUBSET Nat]
    <3>1. CASE HasUB(id)
      <4>1. UpdateBit[id] \in Nat /\ SigPdu[id] \in PduIds
        BY <3>1 DEF HasUB
      <4>2. ub' = [ub EXCEPT ![SigPdu[id]] = @ \cup {UpdateBit[id]}]
        BY <1>4, <3>1 DEF SendSignal
      <4>3. QED
        BY <4>1, <4>2 DEF TypeOK
    <3>2. CASE ~HasUB(id)
      BY <1>4, <3>2 DEF SendSignal, TypeOK
    <3>3. QED
      BY <3>1, <3>2
  <2>3. QED
    BY <1>4, <2>1, <2>2 DEF SendSignal, TypeOK
<1>5. ASSUME NEW id \in SignalIds, ReceiveSignal(id) PROVE TypeOK'
  <2>1. ub' \in [PduIds -> SUBSET Nat]
    <3>1. ub' = ub \/ ub' = [ub EXCEPT ![SigPdu[id]] = @ \ {UpdateBit[id]}]
      BY <1>5 DEF ReceiveSignal
    <3>2. SigPdu[id] \in PduIds
      OBVIOUS
    <3>3. ub[SigPdu[id]] \ {UpdateBit[id]} \in SUBSET Nat
      BY <3>2 DEF TypeOK
    <3>4. QED
      BY <3>1, <3>3 DEF TypeOK
  <2>2. QED
    BY <1>5, <2>1 DEF ReceiveSignal, TypeOK
<1>6. ASSUME NEW id \in SignalIds, SendSignalGroup(id) PROVE TypeOK'
  BY <1>6 DEF SendSignalGroup, TypeOK
<1>7. ASSUME NEW id \in SignalIds, ReceiveSignalGroup(id) PROVE TypeOK'
  BY <1>7 DEF ReceiveSignalGroup, TypeOK
<1>8. ASSUME NEW pid \in PduIds, TriggerIPDUSend(pid) PROVE TypeOK'
  BY <1>8 DEF TriggerIPDUSend, TypeOK, Ticks
<1>9. ASSUME NEW pid \in PduIds, RxIndication(pid) PROVE TypeOK'
  <2>1. PICK vals \in [SigsOf(pid) -> Vals], bits \in SUBSET UBitsOf(pid) :
          /\ data' = [s \in SignalIds |-> IF s \in SigsOf(pid) THEN vals[s] ELSE data[s]]
          /\ ub' = [ub EXCEPT ![pid] = bits]
    BY <1>9 DEF RxIndication
  <2>2. data' \in [SignalIds -> Vals]
    BY <2>1 DEF TypeOK
  <2>3. ub' \in [PduIds -> SUBSET Nat]
    BY <2>1, UBitsInNat DEF TypeOK
  <2>4. QED
    BY <1>9, <2>2, <2>3 DEF RxIndication, TypeOK
<1>10. ASSUME NEW pid \in PduIds, TriggerTransmit(pid) PROVE TypeOK'
  BY <1>10 DEF TriggerTransmit, TypeOK
<1>11. ASSUME NEW pid \in PduIds, NEW r \in BOOLEAN, TxConfirmation(pid, r)
       PROVE  TypeOK'
  BY <1>11 DEF TxConfirmation, TypeOK
<1>12. ASSUME NEW op, NEW id, InvalidHandle(op, id) PROVE TypeOK'
  BY <1>12 DEF InvalidHandle, TypeOK
<1>13. ASSUME NEW op, NEW doRx \in BOOLEAN, NEW doTx \in BOOLEAN,
              MainTick(op, doRx, doTx)
       PROVE  TypeOK'
  <2>1. PICK okSet \in SUBSET {p \in PduIds : doTx /\ TxDue(p)} :
          /\ timer' = [p \in PduIds |->
                         IF doRx /\ Dir[p] = "RX" THEN RxTimerNext(p)
                         ELSE IF doTx /\ Dir[p] = "TX" THEN TxTimerNext(p, p \in okSet)
                         ELSE timer[p]]
          /\ ub' = [p \in PduIds |-> IF p \in okSet THEN ub[p] \ UBitsOf(p) ELSE ub[p]]
          /\ expired' = expired \cup {p \in PduIds : doRx /\ RxTimesOut(p)}
          /\ UNCHANGED <<groupStatus, data, shadow>>
    BY <1>13 DEF MainTick
  <2>2. timer' \in [PduIds -> Ticks]
    <3> SUFFICES ASSUME NEW p \in PduIds PROVE timer'[p] \in Ticks
      BY <2>1
    <3>1. RxTimerNext(p) \in Ticks /\ TxTimerNext(p, p \in okSet) \in Ticks
      BY TickTimerType
    <3>2. QED
      BY <2>1, <3>1 DEF TypeOK
  <2>3. QED
    BY <2>1, <2>2 DEF TypeOK
<1>14. CASE UNCHANGED vars
  BY <1>14 DEF vars, TypeOK
<1>15. QED
  BY <1>1, <1>2, <1>3, <1>4, <1>5, <1>6, <1>7, <1>8, <1>9, <1>10, <1>11,
     <1>12, <1>13, <1>14
  DEF Next, MainFunctionRx, MainFunctionTx, MainFunction

\* TypeOK holds in every reachable state.
THEOREM TypeCorrect == Spec => []TypeOK
<1>1. Init => TypeOK
  BY DEF Init, TypeOK, Ticks
<1>2. QED
  BY <1>1, TypeOKStep, PTL DEF Spec

-----------------------------------------------------------------------------
\* Every step keeps an active TX PDU with a cycle armed within its period.
LEMMA TxNeverStallsStep ==
  TypeOK /\ TxNeverStalls /\ [Next]_vars => TxNeverStalls'
<1> SUFFICES ASSUME TypeOK, TxNeverStalls, [Next]_vars,
                    NEW q \in PduIds, TxActive(q)', CycleTime[q] > 0
             PROVE  timer'[q] \in 1 .. TxPeriod(q)
  BY DEF TxNeverStalls
<1>0. Dir[q] = "TX" /\ (TxActive(q) => timer[q] \in 1 .. TxPeriod(q))
  BY DEF TxActive, TxNeverStalls
<1>1. CASE ComInit
  BY <1>1 DEF ComInit, TxActive, Active
<1>2. ASSUME NEW g \in GroupIds, NEW b \in BOOLEAN, IpduGroupStart(g, b)
      PROVE  timer'[q] \in 1 .. TxPeriod(q)
  <2>1. CASE g \in GroupRefMask[q]
    <3>1. timer'[q] = StartTimer(q)
      BY <1>2, <2>1 DEF IpduGroupStart
    <3>2. StartTimer(q) = IF FirstTime[q] > 0 THEN FirstTime[q] ELSE CycleTime[q]
      BY <1>0 DEF StartTimer
    <3>3. QED
      BY <3>1, <3>2 DEF TxPeriod
  <2>2. CASE g \notin GroupRefMask[q]
    <3>1. TxActive(q) /\ timer'[q] = timer[q]
      BY <1>0, <1>2, <2>2 DEF IpduGroupStart, TxActive, Active
    <3>2. QED
      BY <1>0, <3>1
  <2>3. QED
    BY <2>1, <2>2
<1>3. ASSUME NEW g \in GroupIds, IpduGroupStop(g)
      PROVE  timer'[q] \in 1 .. TxPeriod(q)
  BY <1>0, <1>3 DEF IpduGroupStop, TxActive, Active
<1>4. ASSUME NEW pid \in PduIds, TriggerIPDUSend(pid)
      PROVE  timer'[q] \in 1 .. TxPeriod(q)
  <2>1. TxActive(q)
    BY <1>4 DEF TriggerIPDUSend, TxActive, Active
  <2>2. PICK ok \in BOOLEAN :
          timer' = [timer EXCEPT ![pid] = IF ok THEN CycleTime[pid] ELSE 1]
    BY <1>4 DEF TriggerIPDUSend
  <2>3. CASE pid = q
    <3>1. CASE ok
      <4>1. timer'[q] = CycleTime[q]
        BY <2>2, <2>3, <3>1 DEF TypeOK
      <4>2. QED
        BY <4>1, CycleTime[q] > 0 DEF TxPeriod
    <3>2. CASE ~ok
      <4>1. timer'[q] = 1
        BY <2>2, <2>3, <3>2 DEF TypeOK
      <4>2. QED
        BY <4>1, CycleTime[q] > 0 DEF TxPeriod
    <3>3. QED
      BY <3>1, <3>2
  <2>4. CASE pid # q
    <3>1. timer'[q] = timer[q]
      BY <2>2, <2>4 DEF TypeOK
    <3>2. QED
      BY <1>0, <2>1, <3>1
  <2>5. QED
    BY <2>3, <2>4
<1>5. ASSUME NEW pid \in PduIds, RxIndication(pid)
      PROVE  timer'[q] \in 1 .. TxPeriod(q)
  <2>1. TxActive(q) /\ pid # q
    BY <1>0, <1>5 DEF RxIndication, TxActive, RxActive, Active
  <2>2. timer'[q] = timer[q]
    BY <1>5, <2>1 DEF RxIndication, TypeOK
  <2>3. QED
    BY <1>0, <2>1, <2>2
<1>6. ASSUME NEW op, NEW doRx \in BOOLEAN, NEW doTx \in BOOLEAN,
             MainTick(op, doRx, doTx)
      PROVE  timer'[q] \in 1 .. TxPeriod(q)
  <2>1. PICK okSet \in SUBSET {p \in PduIds : doTx /\ TxDue(p)} :
          /\ timer' = [p \in PduIds |->
                         IF doRx /\ Dir[p] = "RX" THEN RxTimerNext(p)
                         ELSE IF doTx /\ Dir[p] = "TX" THEN TxTimerNext(p, p \in okSet)
                         ELSE timer[p]]
          /\ UNCHANGED groupStatus
    BY <1>6 DEF MainTick
  <2>2. TxActive(q) /\ timer[q] \in 1 .. TxPeriod(q)
    BY <1>0, <2>1 DEF TxActive, Active
  <2>3. CASE doTx
    <3>1. timer'[q] = TxTimerNext(q, q \in okSet)
      BY <1>0, <2>1, <2>3
    <3>2. CASE TxDue(q)
      <4>1. timer'[q] \in {CycleTime[q], 1}
        BY <3>1, <3>2 DEF TxTimerNext
      <4>2. QED
        BY <4>1 DEF TxPeriod
    <3>3. CASE ~TxDue(q)
      <4>1. timer[q] > 1
        BY <2>2, <3>3 DEF TxDue
      <4>2. timer'[q] = timer[q] - 1
        BY <2>2, <3>1, <3>3 DEF TxTimerNext
      <4>3. QED
        BY <2>2, <4>1, <4>2 DEF TxPeriod
    <3>4. QED
      BY <3>2, <3>3
  <2>4. CASE ~doTx
    <3>1. timer'[q] = timer[q]
      BY <1>0, <2>1, <2>4
    <3>2. QED
      BY <2>2, <3>1
  <2>5. QED
    BY <2>3, <2>4
<1>7. ASSUME UNCHANGED <<groupStatus, timer>> PROVE timer'[q] \in 1 .. TxPeriod(q)
  BY <1>0, <1>7 DEF TxActive, Active
<1>8. ASSUME NEW id \in SignalIds,
             \/ \E src \in Vals \cup {NullPtr} : SendSignal(id, src)
             \/ ReceiveSignal(id) \/ SendSignalGroup(id) \/ ReceiveSignalGroup(id)
      PROVE  timer'[q] \in 1 .. TxPeriod(q)
  <2>1. UNCHANGED <<groupStatus, timer>>
    BY <1>8 DEF SendSignal, ReceiveSignal, SendSignalGroup, ReceiveSignalGroup
  <2>2. QED
    BY <1>7, <2>1
<1>9. ASSUME NEW pid \in PduIds,
             TriggerTransmit(pid) \/ \E r \in BOOLEAN : TxConfirmation(pid, r)
      PROVE  timer'[q] \in 1 .. TxPeriod(q)
  BY <1>7, <1>9 DEF TriggerTransmit, TxConfirmation
<1>10. ASSUME NEW op, NEW id, InvalidHandle(op, id)
       PROVE  timer'[q] \in 1 .. TxPeriod(q)
  BY <1>7, <1>10 DEF InvalidHandle
<1>11. CASE UNCHANGED vars
  BY <1>7, <1>11 DEF vars
<1>12. QED
  BY <1>1, <1>2, <1>3, <1>4, <1>5, <1>6, <1>8, <1>9, <1>10, <1>11
  DEF Next, MainFunctionRx, MainFunctionTx, MainFunction

\* The main safety theorem of the scheduler: in every reachable state, an
\* active TX PDU whose CycleTime is positive has a timer in 1..its period,
\* so Com_MainFunctionTx keeps transmitting it.
THEOREM TxNeverStallsInvariant == Spec => []TxNeverStalls
<1>1. Init => TxNeverStalls
  BY DEF Init, TxNeverStalls, TxActive, Active
<1>2. TypeOK /\ TxNeverStalls /\ [Next]_vars => TypeOK' /\ TxNeverStalls'
  BY TypeOKStep, TxNeverStallsStep
<1>3. Init => TypeOK
  BY DEF Init, TypeOK
<1>4. QED
  BY <1>1, <1>2, <1>3, PTL DEF Spec
-----------------------------------------------------------------------------
(***************************************************************************)
(* RxTOut fires at most once per expiry.  The step that fires it needs the *)
(* timer above 0, so the action property follows from an invariant: every *)
(* PDU recorded as expired is an RX PDU whose timer is latched at 0 until  *)
(* Com_RxIndication or Com_IpduGroupStart re-arms it (and removes it from  *)
(* expired).  The direction conjunct is needed because                     *)
(* Com_MainFunctionTx and Com_TriggerIPDUSend change TX timers.            *)
(***************************************************************************)
ExpiredLatched == \A p \in expired : Dir[p] = "RX" /\ timer[p] = 0

\* A main-function tick latches every PDU it times out and leaves the
\* latched ones at 0.
LEMMA MainTickExpired ==
  ASSUME TypeOK, ExpiredLatched, NEW op, NEW doRx \in BOOLEAN,
         NEW doTx \in BOOLEAN, MainTick(op, doRx, doTx)
  PROVE  ExpiredLatched'
<1> DEFINE timedOut == {p \in PduIds : doRx /\ RxTimesOut(p)}
           due == {p \in PduIds : doTx /\ TxDue(p)}
<1>1. PICK okSet \in SUBSET due :
        /\ timer' = [p \in PduIds |->
                       IF doRx /\ Dir[p] = "RX" THEN RxTimerNext(p)
                       ELSE IF doTx /\ Dir[p] = "TX" THEN TxTimerNext(p, p \in okSet)
                       ELSE timer[p]]
        /\ expired' = expired \cup timedOut
  BY DEF MainTick
<1> SUFFICES ASSUME NEW q \in expired' PROVE Dir[q] = "RX" /\ timer'[q] = 0
  BY DEF ExpiredLatched
<1>2. CASE q \in timedOut
  <2>1. doRx /\ Dir[q] = "RX" /\ RxTimerNext(q) = 0
    BY <1>2 DEF RxTimesOut, RxActive
  <2>2. QED
    BY <1>1, <1>2, <2>1
<1>3. CASE q \in expired
  <2>1. q \in PduIds /\ Dir[q] = "RX" /\ timer[q] = 0
    BY <1>3 DEF ExpiredLatched, TypeOK
  <2>2. RxTimerNext(q) = 0
    BY <2>1 DEF RxTimerNext
  <2>3. QED
    BY <1>1, <2>1, <2>2
<1>4. QED
  BY <1>1, <1>2, <1>3

\* Every step keeps the expired PDUs latched.
LEMMA ExpiredLatchedStep ==
  TypeOK /\ ExpiredLatched /\ [Next]_vars => ExpiredLatched'
<1> SUFFICES ASSUME TypeOK, ExpiredLatched, [Next]_vars
             PROVE  ExpiredLatched'
  OBVIOUS
<1> DEFINE Same == UNCHANGED <<timer, expired>>
<1>1. Same => ExpiredLatched'
  BY DEF ExpiredLatched
<1>2. ASSUME NEW g \in GroupIds, NEW b \in BOOLEAN, IpduGroupStart(g, b)
      PROVE  ExpiredLatched'
  BY <1>2 DEF IpduGroupStart, ExpiredLatched, TypeOK
<1>3. ASSUME NEW pid \in PduIds, TriggerIPDUSend(pid) PROVE ExpiredLatched'
  <2>1. Dir[pid] = "TX"
    BY <1>3 DEF TriggerIPDUSend, TxActive
  <2>2. QED
    BY <1>3, <2>1 DEF TriggerIPDUSend, ExpiredLatched, TypeOK
<1>4. ASSUME NEW pid \in PduIds, RxIndication(pid) PROVE ExpiredLatched'
  BY <1>4 DEF RxIndication, ExpiredLatched, TypeOK
<1>5. ASSUME NEW op, NEW doRx \in BOOLEAN, NEW doTx \in BOOLEAN,
             MainTick(op, doRx, doTx)
      PROVE  ExpiredLatched'
  BY <1>5, MainTickExpired
<1>6. CASE \/ ComInit
           \/ \E g \in GroupIds : IpduGroupStop(g)
           \/ \E id \in SignalIds :
                \/ \E src \in Vals \cup {NullPtr} : SendSignal(id, src)
                \/ ReceiveSignal(id)
                \/ SendSignalGroup(id)
                \/ ReceiveSignalGroup(id)
           \/ \E pid \in PduIds :
                \/ TriggerTransmit(pid)
                \/ \E r \in BOOLEAN : TxConfirmation(pid, r)
           \/ InvalidHandle("Com_IpduGroupStart", NumOfGroups)
           \/ InvalidHandle("Com_SendSignal", NumOfSignals)
           \/ InvalidHandle("Com_RxIndication", NumOfIPdus)
           \/ UNCHANGED vars
  <2>1. Same
    BY <1>6 DEF ComInit, IpduGroupStop, SendSignal, ReceiveSignal,
                SendSignalGroup, ReceiveSignalGroup, TriggerTransmit,
                TxConfirmation, InvalidHandle, vars
  <2>2. QED
    BY <1>1, <2>1
<1>7. CASE MainFunctionRx \/ MainFunctionTx \/ MainFunction
  BY <1>5, <1>7 DEF MainFunctionRx, MainFunctionTx, MainFunction
<1>8. QED
  BY <1>2, <1>3, <1>4, <1>6, <1>7 DEF Next

\* The step predicate of RxTimeoutOnce.
RxTOutFresh == \A e \in out' : e.kind = "RxTOut" => e.pdu \notin expired

\* A main-function tick reports RxTOut only for PDUs not already expired.
LEMMA MainTickFresh ==
  ASSUME ExpiredLatched, NEW op, NEW doRx \in BOOLEAN, NEW doTx \in BOOLEAN,
         MainTick(op, doRx, doTx)
  PROVE  RxTOutFresh
<1> DEFINE timedOut == {p \in PduIds : doRx /\ RxTimesOut(p)}
           due == {p \in PduIds : doTx /\ TxDue(p)}
<1>1. PICK okSet \in SUBSET due :
        out' = {Notify("RxTOut", p) : p \in timedOut}
                 \cup {Transmit(p, p \in okSet) : p \in due}
  BY DEF MainTick
<1> SUFFICES ASSUME NEW e \in out', e.kind = "RxTOut" PROVE e.pdu \notin expired
  BY DEF RxTOutFresh
<1>2. PICK p \in timedOut : e = Notify("RxTOut", p)
  BY <1>1 DEF Transmit
<1>3. timer[p] > 0 /\ e.pdu = p
  BY <1>2 DEF RxTimesOut, Notify
<1>4. QED
  BY <1>3 DEF ExpiredLatched

\* No other entry point reports a timeout.
LEMMA OtherStepsFresh ==
  ASSUME \/ ComInit
         \/ \E g \in GroupIds, b \in BOOLEAN : IpduGroupStart(g, b)
         \/ \E g \in GroupIds : IpduGroupStop(g)
         \/ \E id \in SignalIds :
              \/ \E src \in Vals \cup {NullPtr} : SendSignal(id, src)
              \/ ReceiveSignal(id)
              \/ SendSignalGroup(id)
              \/ ReceiveSignalGroup(id)
         \/ \E pid \in PduIds :
              \/ TriggerIPDUSend(pid)
              \/ RxIndication(pid)
              \/ TriggerTransmit(pid)
              \/ \E r \in BOOLEAN : TxConfirmation(pid, r)
         \/ InvalidHandle("Com_IpduGroupStart", NumOfGroups)
         \/ InvalidHandle("Com_SendSignal", NumOfSignals)
         \/ InvalidHandle("Com_RxIndication", NumOfIPdus)
  PROVE  RxTOutFresh
<1>1. CASE \/ ComInit
           \/ \E g \in GroupIds, b \in BOOLEAN : IpduGroupStart(g, b)
           \/ \E g \in GroupIds : IpduGroupStop(g)
           \/ InvalidHandle("Com_IpduGroupStart", NumOfGroups)
           \/ InvalidHandle("Com_SendSignal", NumOfSignals)
           \/ InvalidHandle("Com_RxIndication", NumOfIPdus)
  <2>1. out' = {}
    BY <1>1 DEF ComInit, IpduGroupStart, IpduGroupStop, InvalidHandle
  <2>2. QED
    BY <2>1 DEF RxTOutFresh
<1>2. CASE \E id \in SignalIds :
              \/ \E src \in Vals \cup {NullPtr} : SendSignal(id, src)
              \/ ReceiveSignal(id)
              \/ SendSignalGroup(id)
              \/ ReceiveSignalGroup(id)
  <2>1. out' = {}
    BY <1>2 DEF SendSignal, ReceiveSignal, SendSignalGroup, ReceiveSignalGroup
  <2>2. QED
    BY <2>1 DEF RxTOutFresh
<1>3. ASSUME NEW pid \in PduIds,
             \/ TriggerIPDUSend(pid)
             \/ RxIndication(pid)
             \/ TriggerTransmit(pid)
             \/ \E r \in BOOLEAN : TxConfirmation(pid, r)
      PROVE  RxTOutFresh
  <2>1. CASE TriggerIPDUSend(pid)
    BY <2>1 DEF TriggerIPDUSend, Transmit, RxTOutFresh
  <2>2. CASE RxIndication(pid)
    BY <2>2 DEF RxIndication, Notify, RxTOutFresh
  <2>3. CASE TriggerTransmit(pid)
    BY <2>3 DEF TriggerTransmit, RxTOutFresh
  <2>4. CASE \E r \in BOOLEAN : TxConfirmation(pid, r)
    <3>1. PICK r \in BOOLEAN : TxConfirmation(pid, r)
      BY <2>4
    <3>2. QED
      BY <3>1 DEF TxConfirmation, Notify, RxTOutFresh
  <2>5. QED
    BY <1>3, <2>1, <2>2, <2>3, <2>4
<1>4. QED
  BY <1>1, <1>2, <1>3

\* RxTOut fires at most once per expiry, for every configuration: the
\* timeout test of Com_MainFunctionRx sits inside its "timer > 0" block, and
\* the timer of an expired PDU stays latched at 0 until re-armed.
THEOREM RxTimeoutOnceHolds == Spec => RxTimeoutOnce
<1>1. Init => TypeOK /\ ExpiredLatched
  BY DEF Init, TypeOK, ExpiredLatched
<1>2. TypeOK /\ ExpiredLatched /\ [Next]_vars => (TypeOK /\ ExpiredLatched)'
  BY TypeOKStep, ExpiredLatchedStep
<1>3. TypeOK /\ ExpiredLatched /\ [Next]_vars => [RxTOutFresh]_vars
  <2> SUFFICES ASSUME TypeOK, ExpiredLatched, Next PROVE RxTOutFresh
    OBVIOUS
  <2>1. CASE MainFunctionRx \/ MainFunctionTx \/ MainFunction
    BY <2>1, MainTickFresh DEF MainFunctionRx, MainFunctionTx, MainFunction
  <2>2. QED
    BY <2>1, OtherStepsFresh DEF Next
<1>4. QED
  BY <1>1, <1>2, <1>3, PTL DEF Spec, RxTimeoutOnce, RxTOutFresh

=============================================================================
