# Formal model of the SSAS COM layer

TLA+ modules, TLC runs and TLAPS proofs for the AUTOSAR-style COM layer in
`src/infras/communication/Com/Com.c`, and for the CAN UDP-multicast simulator
in `src/tools/libraries/Can/src/simulator_can_v2.c`.

## 1. Inventory

### Components

| Component | Source | State | Operations |
|---|---|---|---|
| Group controller | Com.c 321-360 | `context->GroupStatus` (bitmap) | `Com_Init`, `Com_IpduGroupStart(id, initialize)`, `Com_IpduGroupStop(id)` |
| Scheduler / PduR protocol | Com.c 417-544 | one `timer` per RX or TX PDU | `Com_MainFunctionRx`, `Com_MainFunctionTx`, `Com_MainFunction`, `Com_RxIndication`, `Com_TxConfirmation`, `Com_TriggerTransmit`, `Com_TriggerIPDUSend` |
| PDU buffer store | Com.c 179-198, 387-415 | PDU byte buffers; the `initPtr` regions of signals | `comIPduDataInit`, `comTxClearUpdateBit`, `Com_SendSignalGroup`, `Com_ReceiveSignalGroup` |
| Signal packer | Com.c 24-178, 362-385 | none of its own (it writes into PDU buffers) | `Com_SendSignal`, `Com_ReceiveSignal` and their helpers |
| Bit codec | `Std_Bit` (not under src/) | none (pure) | get/set big/little endian, single-bit get/set/clear |
| CAN simulator | simulator_can_v2.c | handle list, `initialized`, `terminated`, mutex, rx thread | `socket_probe`, `socket_write`, `socket_close`, `rx_daemon` thread |
| Shell commands | Com.c 200-318 | none | `lssg`, `wrsg` (print and parse text) |

### How they interact

- The application calls the signal API. The API writes fields and update bits
  into the PDU buffers. `Com_IpduGroupStart` starts and stops groups.
- A periodic task calls `Com_MainFunction`, which is `Com_MainFunctionRx`
  followed by `Com_MainFunctionTx`. The TX loop calls `PduR_ComTransmit`
  synchronously. Its result chooses between re-arming the cycle (and clearing
  the update bits) and a retry on the next tick.
- PduR calls `Com_RxIndication`, `Com_TxConfirmation` and
  `Com_TriggerTransmit` from the same logical context (spec section 5). COM
  itself has no locks.
- Every RX/TX path is gated by `(GroupStatus & GroupRefMask) != 0`.
  `Com_TriggerTransmit` is the exception: it copies any PDU regardless of
  group and direction.
- On a host build, the CAN simulator delivers frames from its own `rx_daemon`
  thread. Its caller-side functions share the handle list with that thread,
  under one mutex.

### What is hard

- Timers count down and latch at 0:
  - the TX timer must be re-armed on every path (group start, success, retry,
    trigger), or the PDU falls silent for good;
  - the RX timeout must fire exactly once per expiry.
- Update bits are written by four parties: the sender, the frame copy, the
  group-start init and the TX clear. Each party's effect depends on the order
  of the calls.
- Error paths have side effects:
  - a failed send still sets its update bit;
  - a receive consumes the update bit before the store, which can still fail;
  - a NULL source is dereferenced.
- Group restarts re-arm timers and re-initialise buffers of PDUs that are
  already running.
- The simulator (a real multithreaded program) has:
  - check-then-act on the handle list;
  - use of a handle after the lock is dropped;
  - a `terminated` flag read and written outside the mutex;
  - a callback made while the mutex is held.

### What makes each component correct

- Scheduler: an active cyclic TX PDU is never silenced. Each RX timeout fires
  once per expiry and is eventually detected. Transmissions follow the cycle
  and the retry rule (spec 8.7-8.9). A successful transmission clears the
  update bits.
- Group controller: nothing is transmitted or copied for an inactive PDU. A
  start arms the first period.
- Packer and buffer store: a failed send has no effect. Update-bit gating
  delivers each update once. Group-start init writes the configured init
  values. The codec round-trips each field and does not touch bits outside it.
- Simulator: one handle per port. No use after free. A receiving thread runs
  while at least one port is open. No self-deadlock.

The hazards are listed with their source lines under `hazards` in
`PROJECT.json`.

## 2. Plan

1. **Com.tla**: the COM layer of one ECU, all entry points (done). **ComProofs.tla** holds its theorems.
2. **ComPacker.tla**: the signal packer at bit level over a small PDU, with
   - `comStoreSignalValue` mask and sign extension in 32-bit arithmetic
     (`% 2^32`);
   - the update-bit set/gate/consume order;
   - aliasing between overlapping signals;
   - a spec-modelled **StdBit** codec (big/little endian, written as recursive
     functions so that it can be proved about), checked against a reference
     definition (round trip, non-interference).
3. **CanSim.tla**: the simulator's threads (done; section 6). **CanSimProofs.tla** holds its theorems.
4. **ComLink.tla**: two Com instances (sender and receiver ECU) joined by a
   lossy, duplicating wire. End-to-end update delivery: each update is
   received fresh at most once.
5. **ComTxSchedule.tla**: the abstract cyclic TX schedule that Com refines
   (done; section 4, "Refinement"). The RX deadline side is not yet part of it.
6. Proofs:
   - `RxTimeoutOnce` from the invariant `p \in expired => timer[p] = 0` (done);
   - the refinement of item 5 (done, `ComTxScheduleProofs.tla`);
   - the single-caller safety of the simulator (done);
   - type and non-interference lemmas of the packer.

## 3. The model (Com.tla)

- **Constants.** The configuration tables of `Com_Cfg`: numbers of groups,
  PDUs and signals; direction, group mask, `Timeout`, `FirstTimeout`,
  `CycleTime` and `FirstTime` per PDU; the PDU, type, endianness and update
  bit of each signal. `ConfigAssumption` states their types, plus two limits:
  - at most 31 groups, because `1 << id` is an int shift;
  - `MaxTicks >= 1`, because the retry arms `timer = 1`.
- **State.**
  - `groupStatus`: the set of started groups.
  - `timer`: one per PDU.
  - `data`: the value in each signal's field.
  - `ub`: the update bits set in each PDU.
  - `shadow`: the `initPtr` bytes of each signal. They are mutable, because
    `Com_ReceiveSignalGroup` writes them.
  - `call`: the last API call, its argument and its result.
  - `out`: the calls made into PduR and the application in that step.
  - `expired`: a history variable.
- **Actions.** One per entry point, each a whole handler and atomic:
  `ComInit`, `IpduGroupStart`, `IpduGroupStop`, `SendSignal`, `ReceiveSignal`,
  `SendSignalGroup`, `ReceiveSignalGroup`, `TriggerIPDUSend`, `RxIndication`,
  `TriggerTransmit`, `TxConfirmation` and `MainFunctionRx/Tx/MainFunction`.
  The three main functions are built from `MainTick`. `InvalidHandle` is every
  path that returns without touching state.
- **Inputs.** PduR's transmit result is a free choice per PDU. A received
  frame carries any field values and any update bits. A NULL source of
  `Com_SendSignal` reads arbitrary bytes: this is the outcome on a target
  without memory protection.
- **Abstraction.** A buffer is one value per signal field plus a set of update
  bits. Signals do not alias in this module; aliasing belongs to ComPacker.

## 4. Runs

| Run | cfg | Checks | Result |
|---|---|---|---|
| com_safety | MCCom.cfg | `TypeOK`, `TxNeverStalls`, `RxTimeoutOnce`, `TxScheduleRefined` | pass, 63k states |
| com_rx_liveness | MCComLive.cfg | `RxTimeoutDetected` under `WF(MainFunction)` | pass |
| com_send_failure | MCComSendFail.cfg | `SendFailureNoSideEffect` | violation |
| com_send_null | MCComSendNull.cfg | `SendNullRejected` | violation |
| com_trigger_update_bits | MCComTrigger.cfg | `TxClearsUpdateBits` | violation |

**Configuration (MCCom.tla).** There are two groups and three PDUs:
- PDU 0 is TX in group 0, with first time 1 and cycle 2.
- PDU 1 is RX in both groups, with first timeout 1 and timeout 2.
- PDU 2 is TX in group 1, with no first time and cycle 1.

There are three signals: a U8 with an update bit, an S16 with an update bit,
and an opaque UINT8N group signal. The field values are `{"z", "v"}`.

**Why these bounds are enough.** Timers up to 2 reach every transition of
both timer state machines:
- first offset different from the cycle;
- decrement without firing;
- fire;
- retry;
- latch at 0.

The RX PDU in two groups exercises stop/restart while another group keeps
the PDU active. The liveness run uses a single field value, because data
plays no part in deadline supervision.

**Fairness.** Only `Com_MainFunction` is weakly fair: the integrator's
periodic task calls it forever. The application, PduR and group management
are not fair, since they may stop calling.

**Findings** (violation runs; details in `PROJECT.json`):
- A send that fails on an unsupported type still sets the update bit.
- `Com_SendSignal` has no NULL check.
- `Com_TriggerIPDUSend` does not clear update bits, so the peer sees the same
  update twice.

**Refinement.** `ComTxSchedule.tla` states what the layer promises about
cyclic transmission, with signals, RX supervision and groups left out:
- each cyclic TX PDU is inactive or active;
- an active PDU has a *slack*: the ticks until its next attempt, at most its
  period;
- a tick attempts exactly the PDUs whose slack is 1 and counts the others
  down;
- a start (also of an already active PDU), an attempt and a trigger set a new
  slack in `1..Period`; a stop keeps the slack.

`Com.tla` instantiates it as `TxSchedule` with this mapping:
- `TxPdus` is `CyclicTx`, the TX PDUs with `CycleTime > 0`;
- `Period` is `TxPeriod`, the larger of `FirstTime` and `CycleTime`;
- `active` is the set of cyclic PDUs with a started group;
- `slack` is `timer`;
- `sent` is the set of PDUs with a `PduR_ComTransmit` in `out`.

The run com_safety also checks `TxSchedule!Spec` as a PROPERTY of `Spec`.
Each Com action maps to an abstract step:
- `Com_IpduGroupStart` maps to `Start`, `Com_IpduGroupStop` and `Com_Init` to `Stop`;
- a tick of `Com_MainFunctionTx` maps to `Tick`, whether PduR succeeds (re-arm
  with `CycleTime`) or fails (retry with 1);
- `Com_TriggerIPDUSend` maps to `Trigger`;
- every other entry point maps to a stutter or `Quiet`.

A mutant `Com_IpduGroupStop` clears the timers of the PDUs it stops. Only
the refinement catches it: a stop must keep the slack, as
`Com_IpduGroupStop` changes only `GroupStatus`. TLC reports the abstract step
violated. The abstract spec allows a start of an active PDU, because spec 8.7
prescribes the re-arm. So repeated group starts can
postpone a transmission forever (hazard at Com.c:332). This is documented; the
refinement does not exclude it.

## 5. Proofs (ComProofs.tla, ComTxScheduleProofs.tla)

All theorems are stated for every configuration that satisfies
`ConfigAssumption`.

- `TypeCorrect: Spec => []TypeOK`. The proof takes one step per action. It
  rests on three lemmas:
  - `UBitsInNat`: update bits are naturals;
  - `StartTimerType`: the armed values fit the timer type;
  - `TickTimerType`: the decremented or re-armed timers fit it too.
- `TxNeverStallsInvariant: Spec => []TxNeverStalls`. `TypeOK /\
  TxNeverStalls` is inductive (`TxNeverStallsStep`). The argument:
  - a PDU becomes active only through `Com_IpduGroupStart` of one of its
    groups, which arms `FirstTime` or `CycleTime`;
  - a stop only deactivates;
  - a tick turns a firing timer into `CycleTime` or 1, and decrements any
    other timer, which is at least 2;
  - `Com_TriggerIPDUSend` arms `CycleTime` or 1.

- `RxTimeoutOnceHolds: Spec => RxTimeoutOnce`. This is the action property
  that a reception deadline is reported at most once per arming. Its
  inductive invariant is `ExpiredLatched`: every PDU in `expired` is an RX
  PDU whose timer is 0. TLC checked it on MCCom before the proof.
  - `ExpiredLatchedStep`: only `Com_RxIndication` and a group start
    re-arm an RX timer, and both also take the PDU out of `expired`;
    `Com_MainFunctionRx` adds a PDU only when its timer reaches 0.
  - `MainTickFresh`: a `RxTOut` notification is emitted only for a PDU
    whose timer was positive, so by `ExpiredLatched` it was not in
    `expired`.
  - `OtherStepsFresh`: no other entry point emits `RxTOut`.
- `TxScheduleImplemented: Spec => TxSchedule!Spec` (in
  `ComTxScheduleProofs.tla`). This is the refinement of section 4:
  - `InitRefines`: the mapped initial state is `TxSchedule!Init`;
  - `NextRefines`: every step maps to the abstract step listed above, with
    one lemma per action (`StartRefines`, `StopRefines`, `TriggerRefines`,
    `MainTickRefines`, `QuietRefines`, ...).
  - The tick step needs `TxNeverStalls`. The abstract `Tick` decrements
    the slack of every active PDU that is not due. Without the invariant,
    an active timer at 0 would not match it. So the proof uses
    `[](TypeOK /\ TxNeverStalls)`, from the two theorems above.

**Only model-checked:** the liveness `RxTimeoutDetected`. Liveness under
fairness and ENABLED are out of TLAPS's reach.

## 6. The CAN simulator (CanSim.tla)

**What it models.** `simulator_can_v2.c` is a real multithreaded program:
- application threads (`Callers`) call `socket_probe`, `socket_write` and
  `socket_close` on ports (`Ports`);
- `socket_probe` starts `rx_daemon` threads with `pthread_create`;
- they share the handle list `socketH.head`, its mutex, `socketH.initialized`,
  `socketH.terminated` and `socketH.rx_thread`.

**Step granularity.**
- Each lock section of a caller is one step, which needs the mutex free. A
  caller holds the mutex only inside a section, so nothing can interleave
  with it.
- Each access to shared state made without the mutex is a step of its own:
  - `getHandle`'s returned handle used later;
  - the `STAILQ_EMPTY` test;
  - the write of `terminated`;
  - `pthread_join`.
- `rx_daemon` holds the mutex across its notification loop, so its lock and
  its unlock are separate steps.

**Abstraction.**
- Sockets and frames are left out: opening a port succeeds or fails.
- A daemon iteration notifies every listed handle.
- Handle and thread ids are the number of the probe that created them.
  They are fresh, so `malloc` never reuses a freed address.
- `pthread_join` of a thread that was never created, or was already joined,
  returns at once (glibc's `ESRCH`).

**State.**
- `list`, `alloc`, `freed` and `hport`: the handle objects.
- `rxThread`, `joined` and `dpc`: the threads.
- `pc`, `port` and `hnd`: each caller's position and locals.

**Fairness.** Every thread that is inside a call keeps being scheduled. The
fairness is strong, because the mutex is free again only after each daemon
iteration's `usleep(1000)`. Applications are not fair: they may stop calling.

**Bounds.** `MaxProbes` (2–3) bounds the number of `socket_probe` calls.
Two ports are used. Every race below needs two callers and at most three
probes, and TLC reaches them.

| Run | cfg | Checks | Result |
|---|---|---|---|
| can_sim_single | MCCanSim.cfg | `TypeOK`, `UniquePort`, `NoStaleHandle`, `JoinSafe`, `RxServed`, `CloseReturns` (one caller) | pass |
| can_sim_concurrent | MCCanSimConc.cfg | `TypeOK`, `ListNotFreed` (two callers) | pass, 1.4M states |
| can_dup_port | MCCanSimUniquePort.cfg | `UniquePort` | violation |
| can_stale_handle | MCCanSimNoStaleHandle.cfg | `NoStaleHandle` | violation |
| can_join | MCCanSimJoinSafe.cfg | `JoinSafe` | violation |
| can_rx_lost | MCCanSimRxServed.cfg | `RxServed` | violation |
| can_close_hang | MCCanSimCloseReturns.cfg | `CloseReturns` | violation |

**Findings.** Used from one application thread, the simulator is correct.
Used from two threads, it has five races:
- two probes of one port both insert a handle;
- two closes of one port unlink and free the same handle twice, and a write
  racing a close uses a freed handle;
- a close racing a probe joins a thread that was never created;
- a close racing a probe of another port stops the only rx thread, so the
  new port is never served;
- a close racing a probe joins the new rx thread, which never exits, so the
  close never returns.

**Proved** (`CanSimProofs.tla`, for any number of callers, ports and probes):
- `TypeCorrect`;
- `ListNotFreedInvariant`: the daemon's list never holds a freed handle.

**Proved for one caller** (hypothesis `Callers = {c0}`, any ports and probes):
- `UniquePortSingleCaller`;
- `NoStaleHandleSingleCaller`;
- `JoinSafeSingleCaller`.

The hypothesis is the condition under which the code is correct: the
violation runs show each property failing with two callers.

`ListNotFreed` alone is not inductive. `IInv` strengthens it:
- `list` and `freed` lie within `alloc`, and `alloc` lies within
  `1..nProbes`;
- a probe in progress owns a number in `1..nProbes` that is not in `alloc`
  and that no other probe owns;
- a close in progress owns an allocated handle, and it has unlinked the
  handle before it reaches `c_free`.

The single-caller theorems rest on `IInv /\ SingleCallerInv`.
`SingleCallerInv` adds:
- a probe in progress owns the newest probe number, and that daemon was
  never joined;
- a probe about to link a handle saw its port off-line;
- while a handle is linked outside the probe's last lock section,
  `terminated` is down;
- once initialized with `terminated` down, `rx_thread` names a created,
  unjoined daemon (`JoinTarget`);
- a close in progress keeps `JoinTarget`, and it reaches terminate and
  join only with the list empty;
- the handle a write or close holds is linked, or, after the unlink, not
  freed.

TLC checked it on MCCanSim's instance and on one with three ports and five
probes (1.3M states) before it was proved.

**Only model-checked:** the liveness properties `RxServed` and
`CloseReturns`. Liveness under fairness is out of TLAPS's reach.

## 7. Not modelled

- The shell commands: text I/O.
- The generated configuration: it appears as constants.
- The bit codec is not modelled yet (plan item 2).
- In the simulator:
  - the byte contents of frames, including the unchecked DLC at line 252;
  - the `rx_notification` callback. It is supplied from outside the
    repository, so a re-entrant `socket_write` from it (a self-deadlock on
    the mutex) is not modelled.
