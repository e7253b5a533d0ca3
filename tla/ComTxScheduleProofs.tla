------------------------- MODULE ComTxScheduleProofs -------------------------
(***************************************************************************)
(* Com implements the abstract cyclic transmission schedule ComTxSchedule *)
(* under the refinement mapping TxSchedule of Com.tla, for every           *)
(* configuration that satisfies ConfigAssumption.  Each Com step maps to   *)
(* one abstract step:                                                      *)
(*   Com_IpduGroupStart            -> Start(the cyclic PDUs of the group)  *)
(*   Com_IpduGroupStop, Com_Init   -> Stop(the PDUs that become inactive)  *)
(*   Com_MainFunctionTx/MainFunction -> Tick                               *)
(*   Com_TriggerIPDUSend (cyclic)  -> Trigger                              *)
(*   every other entry point       -> Quiet                                *)
(* The Tick step needs TxNeverStalls: an active cyclic PDU whose timer is *)
(* not 1 has a timer above 0, so Com_MainFunctionTx counts it down as the  *)
(* abstract tick does.                                                     *)
(***************************************************************************)
EXTENDS ComProofs

USE ConfigAssumption DEF GroupIds, PduIds, SignalIds, Ticks

\* The mapped state, named for use in the proofs.
ActiveA == {p \in CyclicTx : TxActive(p)}
SlackA  == [p \in CyclicTx |-> timer[p]]
SentA   == {e.pdu : e \in {x \in out : x.kind = "Transmit"}} \cap CyclicTx

\* The cyclic TX PDUs are TX PDUs with a positive cycle that fits a timer.
LEMMA CyclicTxFacts ==
  /\ CyclicTx \subseteq PduIds
  /\ \A p \in CyclicTx : /\ Dir[p] = "TX" /\ CycleTime[p] \in 1 .. MaxTicks
                       /\ FirstTime[p] \in Ticks
  BY DEF CyclicTx

\* The initial state of Com is an initial state of the schedule.
LEMMA InitRefines == Init => TxSchedule!Init
  BY DEF Init, TxSchedule!Init, TxActive, Active, CyclicTx

\* A group start (re)arms the cyclic PDUs of the group within their period.
LEMMA StartRefines ==
  ASSUME TypeOK, NEW g \in GroupIds, NEW b \in BOOLEAN, IpduGroupStart(g, b)
  PROVE  TxSchedule!Start({p \in CyclicTx : g \in GroupRefMask[p]})
<1> DEFINE S == {p \in CyclicTx : g \in GroupRefMask[p]}
<1>1. groupStatus' = groupStatus \cup {g} /\ out' = {}
  BY DEF IpduGroupStart
<1>2. {p \in CyclicTx : TxActive(p)}' = {p \in CyclicTx : TxActive(p)} \cup S
  BY <1>1 DEF TxActive, Active, CyclicTx
<1>3. \A p \in CyclicTx : timer'[p] = IF p \in S THEN StartTimer(p) ELSE timer[p]
  BY DEF IpduGroupStart, CyclicTx
<1>4. \A p \in S : StartTimer(p) \in 1 .. TxPeriod(p)
  BY DEF StartTimer, TxPeriod, CyclicTx
<1>5. \A p \in CyclicTx : timer[p] \in Nat
  BY DEF TypeOK, CyclicTx
<1>0. [q \in CyclicTx |-> timer[q]]' = [q \in CyclicTx |-> timer'[q]]
  BY DEF CyclicTx
<1>6. [p \in CyclicTx |-> timer[p]]' \in [CyclicTx -> Nat]
  <2>1. ASSUME NEW p \in CyclicTx PROVE timer'[p] \in Nat
    <3>1. CASE p \in S
      <4>1. StartTimer(p) \in 1 .. TxPeriod(p) /\ TxPeriod(p) \in Nat
        BY <3>1, <1>4, CyclicTxFacts DEF TxPeriod
      <4>2. StartTimer(p) \in Nat
        BY <4>1
      <4>3. timer'[p] = StartTimer(p)
        BY <3>1, <1>3, Zenon
      <4>4. QED
        BY <4>2, <4>3
    <3>2. CASE p \notin S
      BY <3>2, <1>3, <1>5, Zenon
    <3>3. QED
      BY <3>1, <3>2
  <2>2. QED
    BY <1>0, <2>1
<1>7. ({e.pdu : e \in {x \in out : x.kind = "Transmit"}} \cap CyclicTx)' = {}
  BY <1>1
<1>8. \A p \in CyclicTx :
        IF p \in S THEN [q \in CyclicTx |-> timer[q]]'[p] \in 1 .. TxPeriod(p)
        ELSE [q \in CyclicTx |-> timer[q]]'[p] = timer[p]
  BY <1>0, <1>3, <1>4
<1>9. QED
  BY <1>2, <1>6, <1>7, <1>8 DEF TxSchedule!Start, TxSchedule!Rearmed
\* A step that leaves the timers, sends nothing and can only stop groups is
\* an abstract Stop of the PDUs it makes inactive.
LEMMA StopRefines ==
  ASSUME UNCHANGED timer, out' = {}, groupStatus' \subseteq groupStatus
  PROVE  \E S \in SUBSET CyclicTx : TxSchedule!Stop(S)
<1>1. ActiveA' \subseteq ActiveA
  BY DEF ActiveA, CyclicTx, TxActive, Active
<1>2. PICK S \in SUBSET CyclicTx : S = ActiveA \ ActiveA'
  BY DEF ActiveA, TxActive, Active
<1>3. ActiveA' = ActiveA \ S
  BY <1>1, <1>2
<1>4. [q \in CyclicTx |-> timer[q]]' = [q \in CyclicTx |-> timer[q]]
  BY DEF CyclicTx
<1>5. ({e.pdu : e \in {x \in out : x.kind = "Transmit"}} \cap CyclicTx)' = {}
  OBVIOUS
<1>6. TxSchedule!Stop(S)
  BY <1>3, <1>4, <1>5 DEF TxSchedule!Stop, ActiveA, TxActive, Active
<1>7. QED
  BY <1>2, <1>6

\* A step that leaves the groups and the cyclic timers alone and transmits
\* no cyclic PDU is an abstract Quiet step.
LEMMA QuietRefines ==
  ASSUME UNCHANGED groupStatus,
         \A p \in CyclicTx : timer'[p] = timer[p],
         \A e \in out' : e.kind = "Transmit" => e.pdu \notin CyclicTx
  PROVE  TxSchedule!Quiet
<1>1. {p \in CyclicTx : TxActive(p)}' = {p \in CyclicTx : TxActive(p)}
  BY DEF CyclicTx, TxActive, Active
<1>2. [q \in CyclicTx |-> timer[q]]' = [q \in CyclicTx |-> timer[q]]
  BY DEF CyclicTx
<1>3. ({e.pdu : e \in {x \in out : x.kind = "Transmit"}} \cap CyclicTx)' = {}
  BY DEF CyclicTx
<1>4. QED
  BY <1>1, <1>2, <1>3 DEF TxSchedule!Quiet

\* The abstract Trigger, stated over the mapped state.
LEMMA TriggerIntro ==
  ASSUME NEW pid, pid \in ActiveA, ActiveA' = ActiveA,
         SlackA' \in [CyclicTx -> Nat],
         SlackA'[pid] \in 1 .. TxPeriod(pid),
         \A p \in CyclicTx \ {pid} : SlackA'[p] = SlackA[p],
         SentA' = {pid}
  PROVE  TxSchedule!Trigger(pid)
<1>1. pid \in CyclicTx
  BY DEF ActiveA, TxActive, Active
<1>2. QED
  BY <1>1, Zenon DEF TxSchedule!Trigger, TxSchedule!Rearmed, ActiveA, SlackA, SentA,
         TxActive, Active

\* Com_TriggerIPDUSend of an active cyclic PDU transmits it now and arms
\* its next attempt within the period, as an abstract Trigger does.
LEMMA TriggerRefines ==
  ASSUME TypeOK, NEW pid \in CyclicTx, TriggerIPDUSend(pid)
  PROVE  TxSchedule!Trigger(pid)
<1>1. PICK ok \in BOOLEAN :
        /\ timer' = [timer EXCEPT ![pid] = IF ok THEN CycleTime[pid] ELSE 1]
        /\ out' = {Transmit(pid, ok)}
  BY Zenon DEF TriggerIPDUSend
<1>2. pid \in PduIds /\ TxActive(pid) /\ UNCHANGED groupStatus
  BY CyclicTxFacts DEF TriggerIPDUSend
<1>3. timer'[pid] \in 1 .. TxPeriod(pid)
  BY <1>1, <1>2, CyclicTxFacts DEF TypeOK, TxPeriod
<1>4. \A p \in CyclicTx \ {pid} : timer'[p] = timer[p]
  BY <1>1, CyclicTxFacts DEF TypeOK
<1>5. SlackA' \in [CyclicTx -> Nat]
  <2>1. ASSUME NEW p \in CyclicTx PROVE timer'[p] \in Nat
    <3>1. CASE p = pid
      BY <3>1, <1>3, CyclicTxFacts DEF TxPeriod
    <3>2. CASE p # pid
      <4>1. timer'[p] = timer[p]
        BY <3>2, <1>4, Zenon
      <4>2. QED
        BY <4>1, CyclicTxFacts DEF TypeOK
    <3>3. QED
      BY <3>1, <3>2
  <2>2. QED
    BY <2>1 DEF SlackA
<1>6. SentA' = {pid}
  <2>1. {x \in out' : x.kind = "Transmit"} = out'
    BY <1>1 DEF Transmit
  <2>2. {e.pdu : e \in out'} = {pid}
    BY <1>1 DEF Transmit
  <2>3. SentA' = {e.pdu : e \in {x \in out' : x.kind = "Transmit"}} \cap CyclicTx
    BY DEF SentA, CyclicTx
  <2>4. {e.pdu : e \in {x \in out' : x.kind = "Transmit"}} = {pid}
    BY <2>1, <2>2, Zenon
  <2>5. QED
    BY <2>3, <2>4
<1>7. ActiveA' = ActiveA /\ pid \in ActiveA
  BY <1>2 DEF ActiveA, TxActive, Active
<1>8. SlackA'[pid] \in 1 .. TxPeriod(pid) /\ \A p \in CyclicTx \ {pid} : SlackA'[p] = SlackA[p]
  BY <1>3, <1>4 DEF SlackA
<1>9. QED
  BY <1>5, <1>6, <1>7, <1>8, TriggerIntro, Zenon

\* Com_TriggerIPDUSend of a TX PDU without a cycle is invisible to the
\* schedule: it touches only that PDU's timer and transmits only that PDU.
LEMMA TriggerOtherQuiet ==
  ASSUME TypeOK, NEW pid \in PduIds \ CyclicTx, TriggerIPDUSend(pid)
  PROVE  TxSchedule!Quiet
<1>1. PICK ok \in BOOLEAN :
        /\ timer' = [timer EXCEPT ![pid] = IF ok THEN CycleTime[pid] ELSE 1]
        /\ out' = {Transmit(pid, ok)}
  BY Zenon DEF TriggerIPDUSend
<1>2. \A p \in CyclicTx : timer'[p] = timer[p]
  BY <1>1, CyclicTxFacts DEF TypeOK
<1>3. \A e \in out' : e.kind = "Transmit" => e.pdu \notin CyclicTx
  BY <1>1 DEF Transmit
<1>4. QED
  BY <1>2, <1>3, QuietRefines DEF TriggerIPDUSend

\* The PDUs the abstract tick attempts: active, with slack 1.
DueA == {p \in ActiveA : SlackA[p] = 1}

\* The abstract Tick, stated over the mapped state.
LEMMA TickIntro ==
  ASSUME ActiveA' = ActiveA, SentA' = DueA, SlackA' \in [CyclicTx -> Nat],
         \A p \in CyclicTx :
           IF p \in DueA THEN SlackA'[p] \in 1 .. TxPeriod(p)
           ELSE IF p \in ActiveA THEN SlackA'[p] = SlackA[p] - 1
           ELSE SlackA'[p] = SlackA[p]
  PROVE  TxSchedule!Tick
  BY DEF TxSchedule!Tick, DueA, ActiveA, SlackA, SentA, TxActive, Active

\* One PDU under Com_MainFunctionTx, seen by the schedule: a due PDU is
\* re-armed within its period (CycleTime on success, 1 for the retry), an
\* active one that is not due counts down (TxNeverStalls: its timer is
\* above 0), an inactive one keeps its timer.
LEMMA TxTimerNextSlack ==
  ASSUME TypeOK, TxNeverStalls, NEW p \in CyclicTx, NEW ok \in BOOLEAN
  PROVE  /\ TxTimerNext(p, ok) \in Nat
         /\ IF p \in DueA THEN TxTimerNext(p, ok) \in 1 .. TxPeriod(p)
            ELSE IF p \in ActiveA THEN TxTimerNext(p, ok) = timer[p] - 1
            ELSE TxTimerNext(p, ok) = timer[p]
<1>1. p \in PduIds /\ Dir[p] = "TX" /\ CycleTime[p] \in 1 .. MaxTicks
      /\ FirstTime[p] \in Ticks /\ timer[p] \in Ticks
  BY CyclicTxFacts DEF TypeOK
<1>2. p \in ActiveA <=> TxActive(p)
  BY DEF ActiveA, TxActive, Active
<1>3. p \in DueA <=> TxActive(p) /\ timer[p] = 1
  BY DEF DueA, ActiveA, SlackA, TxActive, Active
<1>4. TxActive(p) => timer[p] \in 1 .. TxPeriod(p)
  BY <1>1 DEF TxNeverStalls
<1>5. CASE TxActive(p) /\ timer[p] = 1
  BY <1>1, <1>3, <1>5 DEF TxTimerNext, TxDue, TxPeriod
<1>6. CASE TxActive(p) /\ timer[p] # 1
  BY <1>1, <1>2, <1>3, <1>4, <1>6 DEF TxTimerNext, TxDue, TxPeriod
<1>7. CASE ~TxActive(p)
  BY <1>1, <1>2, <1>3, <1>7 DEF TxTimerNext, TxDue
<1>8. QED
  BY <1>5, <1>6, <1>7

\* Com_MainFunctionTx and Com_MainFunction are an abstract Tick: they call
\* PduR_ComTransmit for exactly the active cyclic PDUs whose timer is 1.
LEMMA MainTickRefines ==
  ASSUME TypeOK, TxNeverStalls, NEW op, NEW doRx \in BOOLEAN,
         MainTick(op, doRx, TRUE)
  PROVE  TxSchedule!Tick
<1> DEFINE timedOut == {p \in PduIds : doRx /\ RxTimesOut(p)}
           due == {p \in PduIds : TRUE /\ TxDue(p)}
<1>1. PICK okSet \in SUBSET due :
        /\ timer' = [p \in PduIds |->
                       IF doRx /\ Dir[p] = "RX" THEN RxTimerNext(p)
                       ELSE IF TRUE /\ Dir[p] = "TX" THEN TxTimerNext(p, p \in okSet)
                       ELSE timer[p]]
        /\ out' = {Notify("RxTOut", p) : p \in timedOut}
                    \cup {Transmit(p, p \in okSet) : p \in due}
        /\ UNCHANGED groupStatus
  BY Zenon DEF MainTick
<1>2. \A p \in CyclicTx : timer'[p] = TxTimerNext(p, p \in okSet)
  BY <1>1, CyclicTxFacts
<1>3. ActiveA' = ActiveA
  BY <1>1 DEF ActiveA, TxActive, Active
<1>4. SentA' = DueA
  <2>1. {x \in out' : x.kind = "Transmit"} = {Transmit(p, p \in okSet) : p \in due}
    BY <1>1 DEF Notify, Transmit
  <2>2. {e.pdu : e \in {x \in out' : x.kind = "Transmit"}} = due
    <3>1. {e.pdu : e \in {Transmit(p, p \in okSet) : p \in due}} = due
      <4>1. ASSUME NEW x \in {e.pdu : e \in {Transmit(p, p \in okSet) : p \in due}}
            PROVE  x \in due
        <5>1. PICK e \in {Transmit(p, p \in okSet) : p \in due} : x = e.pdu
          BY <4>1
        <5>2. PICK p \in due : e = Transmit(p, p \in okSet)
          BY <5>1
        <5>3. QED
          BY <5>1, <5>2 DEF Transmit
      <4>2. ASSUME NEW x \in due
            PROVE  x \in {e.pdu : e \in {Transmit(p, p \in okSet) : p \in due}}
        <5>1. Transmit(x, x \in okSet) \in {Transmit(p, p \in okSet) : p \in due}
          BY <4>2
        <5>2. Transmit(x, x \in okSet).pdu = x
          BY DEF Transmit
        <5>3. QED
          BY <5>1, <5>2
      <4>3. QED
        BY <4>1, <4>2
    <3>2. QED
      BY <2>1, <3>1
  <2>3. due \cap CyclicTx = DueA
    <3> SUFFICES ASSUME NEW p PROVE p \in due \cap CyclicTx <=> p \in DueA
      OBVIOUS
    <3>1. CASE p \in CyclicTx
      <4>1. p \in PduIds /\ timer[p] \in Nat
        BY <3>1, CyclicTxFacts DEF TypeOK
      <4>2. p \in DueA <=> TxActive(p) /\ timer[p] = 1
        BY <3>1 DEF DueA, ActiveA, SlackA, TxActive, Active
      <4>3. TxDue(p) <=> TxActive(p) /\ timer[p] = 1
        BY <4>1 DEF TxDue
      <4>4. QED
        BY <3>1, <4>1, <4>2, <4>3
    <3>2. CASE p \notin CyclicTx
      BY <3>2 DEF DueA, ActiveA, TxActive, Active
    <3>3. QED
      BY <3>1, <3>2
  <2>4. SentA' = {e.pdu : e \in {x \in out' : x.kind = "Transmit"}} \cap CyclicTx
    BY DEF SentA, CyclicTx
  <2>5. QED
    BY <2>2, <2>3, <2>4
<1>5. SlackA' = [p \in CyclicTx |-> TxTimerNext(p, p \in okSet)]
  BY <1>2 DEF SlackA, CyclicTx
<1>6. \A p \in CyclicTx :
        /\ TxTimerNext(p, p \in okSet) \in Nat
        /\ IF p \in DueA THEN TxTimerNext(p, p \in okSet) \in 1 .. TxPeriod(p)
           ELSE IF p \in ActiveA THEN TxTimerNext(p, p \in okSet) = timer[p] - 1
           ELSE TxTimerNext(p, p \in okSet) = timer[p]
  <2> SUFFICES ASSUME NEW p \in CyclicTx
               PROVE  /\ TxTimerNext(p, p \in okSet) \in Nat
                      /\ IF p \in DueA THEN TxTimerNext(p, p \in okSet) \in 1 .. TxPeriod(p)
                         ELSE IF p \in ActiveA THEN TxTimerNext(p, p \in okSet) = timer[p] - 1
                         ELSE TxTimerNext(p, p \in okSet) = timer[p]
    OBVIOUS
  <2>1. (p \in okSet) \in BOOLEAN
    OBVIOUS
  <2>2. QED
    BY <2>1, TxTimerNextSlack, Zenon
<1>7. SlackA' \in [CyclicTx -> Nat]
  BY <1>5, <1>6
<1>8. \A p \in CyclicTx :
        IF p \in DueA THEN SlackA'[p] \in 1 .. TxPeriod(p)
        ELSE IF p \in ActiveA THEN SlackA'[p] = SlackA[p] - 1
        ELSE SlackA'[p] = SlackA[p]
  BY <1>5, <1>6 DEF SlackA
<1>9. QED
  BY <1>3, <1>4, <1>7, <1>8, TickIntro

\* Com_MainFunctionRx alone is invisible to the schedule: it touches only
\* RX timers and reports only RxTOut.
LEMMA MainTickRxQuiet ==
  ASSUME TypeOK, NEW op, MainTick(op, TRUE, FALSE)
  PROVE  TxSchedule!Quiet
<1> DEFINE timedOut == {p \in PduIds : TRUE /\ RxTimesOut(p)}
           due == {p \in PduIds : FALSE /\ TxDue(p)}
<1>1. PICK okSet \in SUBSET due :
        /\ timer' = [p \in PduIds |->
                       IF TRUE /\ Dir[p] = "RX" THEN RxTimerNext(p)
                       ELSE IF FALSE /\ Dir[p] = "TX" THEN TxTimerNext(p, p \in okSet)
                       ELSE timer[p]]
        /\ out' = {Notify("RxTOut", p) : p \in timedOut}
                    \cup {Transmit(p, p \in okSet) : p \in due}
        /\ UNCHANGED groupStatus
  BY Zenon DEF MainTick
<1>2. \A p \in CyclicTx : timer'[p] = timer[p]
  BY <1>1, CyclicTxFacts
<1>3. \A e \in out' : e.kind # "Transmit"
  BY <1>1 DEF Notify
<1>4. QED
  BY <1>1, <1>2, <1>3, QuietRefines

\* Every step of Com is a step of the schedule or leaves it unchanged.
LEMMA NextRefines ==
  TypeOK /\ TxNeverStalls /\ [Next]_vars => [TxSchedule!Next]_TxSchedule!svars
<1> SUFFICES ASSUME TypeOK, TxNeverStalls, [Next]_vars
             PROVE  [TxSchedule!Next]_TxSchedule!svars
  OBVIOUS
<1>1. CASE ComInit
  <2>1. \E S \in SUBSET CyclicTx : TxSchedule!Stop(S)
    BY <1>1, StopRefines DEF ComInit
  <2>2. QED
    BY <2>1 DEF TxSchedule!Next
<1>2. ASSUME NEW g \in GroupIds, NEW b \in BOOLEAN, IpduGroupStart(g, b)
      PROVE  [TxSchedule!Next]_TxSchedule!svars
  <2>1. TxSchedule!Start({p \in CyclicTx : g \in GroupRefMask[p]})
    BY <1>2, StartRefines
  <2>2. QED
    BY <2>1 DEF TxSchedule!Next
<1>3. ASSUME NEW g \in GroupIds, IpduGroupStop(g)
      PROVE  [TxSchedule!Next]_TxSchedule!svars
  <2>1. \E S \in SUBSET CyclicTx : TxSchedule!Stop(S)
    BY <1>3, StopRefines DEF IpduGroupStop
  <2>2. QED
    BY <2>1 DEF TxSchedule!Next
<1>4. ASSUME NEW pid \in PduIds, TriggerIPDUSend(pid)
      PROVE  [TxSchedule!Next]_TxSchedule!svars
  <2>1. CASE pid \in CyclicTx
    BY <1>4, <2>1, TriggerRefines DEF TxSchedule!Next
  <2>2. CASE pid \notin CyclicTx
    BY <1>4, <2>2, TriggerOtherQuiet DEF TxSchedule!Next
  <2>3. QED
    BY <2>1, <2>2
<1>5. ASSUME NEW pid \in PduIds, RxIndication(pid)
      PROVE  [TxSchedule!Next]_TxSchedule!svars
  <2>1. pid \notin CyclicTx
    BY <1>5 DEF RxIndication, RxActive, CyclicTx
  <2>2. \A p \in CyclicTx : timer'[p] = timer[p]
    BY <1>5, <2>1, CyclicTxFacts DEF RxIndication, TypeOK
  <2>3. \A e \in out' : e.kind # "Transmit"
    BY <1>5 DEF RxIndication, Notify
  <2>4. QED
    BY <1>5, <2>2, <2>3, QuietRefines DEF RxIndication, TxSchedule!Next
<1>6. CASE MainFunctionRx
  BY <1>6, MainTickRxQuiet DEF MainFunctionRx, TxSchedule!Next
<1>7. CASE MainFunctionTx \/ MainFunction
  BY <1>7, MainTickRefines DEF MainFunctionTx, MainFunction, TxSchedule!Next
<1>8. CASE \E id \in SignalIds :
              \/ \E src \in Vals \cup {NullPtr} : SendSignal(id, src)
              \/ ReceiveSignal(id)
              \/ SendSignalGroup(id)
              \/ ReceiveSignalGroup(id)
  <2>1. UNCHANGED <<groupStatus, timer>> /\ out' = {}
    BY <1>8 DEF SendSignal, ReceiveSignal, SendSignalGroup, ReceiveSignalGroup
  <2>2. QED
    BY <2>1, QuietRefines DEF TxSchedule!Next
<1>9. ASSUME NEW pid \in PduIds,
             \/ TriggerTransmit(pid)
             \/ \E r \in BOOLEAN : TxConfirmation(pid, r)
      PROVE  [TxSchedule!Next]_TxSchedule!svars
  <2>1. UNCHANGED <<groupStatus, timer>>
    BY <1>9 DEF TriggerTransmit, TxConfirmation
  <2>2. \A e \in out' : e.kind # "Transmit"
    <3>1. CASE TriggerTransmit(pid)
      BY <3>1 DEF TriggerTransmit
    <3>2. CASE \E r \in BOOLEAN : TxConfirmation(pid, r)
      <4>1. PICK r \in BOOLEAN : TxConfirmation(pid, r)
        BY <3>2
      <4>2. QED
        BY <4>1 DEF TxConfirmation, Notify
    <3>3. QED
      BY <1>9, <3>1, <3>2
  <2>3. QED
    BY <2>1, <2>2, QuietRefines DEF TxSchedule!Next
<1>10. CASE \/ InvalidHandle("Com_IpduGroupStart", NumOfGroups)
            \/ InvalidHandle("Com_SendSignal", NumOfSignals)
            \/ InvalidHandle("Com_RxIndication", NumOfIPdus)
  <2>1. UNCHANGED <<groupStatus, timer>> /\ out' = {}
    BY <1>10 DEF InvalidHandle
  <2>2. QED
    BY <2>1, QuietRefines DEF TxSchedule!Next
<1>11. CASE UNCHANGED vars
  <2>1. UNCHANGED <<groupStatus, timer, out>>
    BY <1>11 DEF vars
  <2>2. ActiveA' = ActiveA /\ SlackA' = SlackA /\ SentA' = SentA
    BY <2>1 DEF ActiveA, SlackA, SentA, TxActive, Active, CyclicTx
  <2>3. QED
    BY <2>2 DEF ActiveA, SlackA, SentA, TxActive, Active, TxSchedule!svars
<1>12. QED
  BY <1>1, <1>2, <1>3, <1>4, <1>5, <1>6, <1>7, <1>8, <1>9, <1>10, <1>11
  DEF Next

\* Com implements the cyclic TX schedule, for every configuration: the
\* initial state maps to an initial state of the schedule and every step of
\* Com_IpduGroupStart/Stop, Com_Init, Com_MainFunctionTx, Com_TriggerIPDUSend
\* and the other entry points to a schedule step or a stutter.
THEOREM TxScheduleImplemented == Spec => TxScheduleRefined
<1>1. Spec => [](TypeOK /\ TxNeverStalls)
  BY TypeCorrect, TxNeverStallsInvariant, PTL
<1>2. QED
  BY <1>1, InitRefines, NextRefines, PTL
  DEF Spec, TxScheduleRefined, TxSchedule!Spec

=============================================================================
