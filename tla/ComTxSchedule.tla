---------------------------- MODULE ComTxSchedule ----------------------------
(***************************************************************************)
(* What the COM layer promises about the cyclic transmission of its TX     *)
(* I-PDUs (spec 4.E, 8.7-8.9), with buffers, signals, RX supervision and   *)
(* group bookkeeping left out.  Each cyclic TX PDU is either inactive or   *)
(* active with a slack: the number of main-function ticks until its next   *)
(* transmission attempt, never more than its period.  A tick attempts      *)
(* exactly the PDUs whose slack runs out and counts the others down; an    *)
(* attempt, a (re)start of the PDU or an explicit trigger sets a new slack *)
(* within the period.                                                      *)
(***************************************************************************)
EXTENDS Naturals

CONSTANTS
  TxPdus,  \* the cyclic TX PDUs
  Period   \* PDU -> the longest gap between two attempts (first or cycle)

VARIABLES
  active,  \* the PDUs being transmitted cyclically
  slack,   \* PDU -> ticks left until its next attempt
  sent     \* the PDUs attempted by the last step

svars == <<active, slack, sent>>

\* A new slack for the PDUs in S, the others' left as they are.
Rearmed(S) ==
  /\ slack' \in [TxPdus -> Nat]
  /\ \A p \in TxPdus :
       IF p \in S THEN slack'[p] \in 1 .. Period[p] ELSE slack'[p] = slack[p]

Init ==
  /\ active = {}
  /\ slack = [p \in TxPdus |-> 0]
  /\ sent = {}

\* PDUs become active (or are restarted while active) with a fresh slack.
Start(S) ==
  /\ active' = active \cup S
  /\ Rearmed(S)
  /\ sent' = {}

\* PDUs stop being transmitted; their slack is kept.
Stop(S) ==
  /\ active' = active \ S
  /\ UNCHANGED slack
  /\ sent' = {}

\* A tick: the active PDUs whose slack is 1 are attempted and get a fresh
\* slack, every other active PDU counts down.
Tick ==
  LET due == {p \in active : slack[p] = 1} IN
  /\ sent' = due
  /\ slack' \in [TxPdus -> Nat]
  /\ \A p \in TxPdus :
       IF p \in due THEN slack'[p] \in 1 .. Period[p]
       ELSE IF p \in active THEN slack'[p] = slack[p] - 1
       ELSE slack'[p] = slack[p]
  /\ UNCHANGED active

\* An explicit transmission of an active PDU, outside the cycle.
Trigger(p) ==
  /\ p \in active
  /\ Rearmed({p})
  /\ sent' = {p}
  /\ UNCHANGED active

\* Anything else the layer does: no attempt, no change to the schedule.
Quiet ==
  /\ sent' = {}
  /\ UNCHANGED <<active, slack>>

Next ==
  \/ \E S \in SUBSET TxPdus : Start(S) \/ Stop(S)
  \/ Tick
  \/ \E p \in TxPdus : Trigger(p)
  \/ Quiet

Spec == Init /\ [][Next]_svars

=============================================================================
