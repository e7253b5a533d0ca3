------------------------------- MODULE MCCom -------------------------------
(***************************************************************************)
(* A small COM configuration for TLC: two I-PDU groups; PDU 0 is TX in     *)
(* group 0, PDU 1 is RX in both groups, PDU 2 is TX in group 1 with no     *)
(* first offset.  Signal 0 (U8, little endian, update bit 7) and signal 2  *)
(* (UINT8N group signal, opaque) live in PDU 0, signal 1 (S16, big endian, *)
(* update bit 0) in PDU 1.  Timers count to 2, so that first offsets,      *)
(* cycles, retries and timeouts all occur.                                 *)
(***************************************************************************)
EXTENDS Com, TLC

MCDir          == (0 :> "TX") @@ (1 :> "RX") @@ (2 :> "TX")
MCGroupRefMask == (0 :> {0}) @@ (1 :> {0, 1}) @@ (2 :> {1})
MCTimeout      == (0 :> 0) @@ (1 :> 2) @@ (2 :> 0)
MCFirstTimeout == (0 :> 0) @@ (1 :> 1) @@ (2 :> 0)
MCCycleTime    == (0 :> 2) @@ (1 :> 0) @@ (2 :> 1)
MCFirstTime    == (0 :> 1) @@ (1 :> 0) @@ (2 :> 0)
MCSigPdu       == (0 :> 0) @@ (1 :> 1) @@ (2 :> 0)
MCSigType      == (0 :> "COM_UINT8") @@ (1 :> "COM_SINT16") @@ (2 :> "COM_UINT8N")
MCEndianness   == (0 :> "LITTLE") @@ (1 :> "BIG") @@ (2 :> "OPAQUE")
MCInitValue    == [s \in 0 .. 2 |-> "v"]
MCUpdateBit    == (0 :> 7) @@ (1 :> 0) @@ (2 :> NoUpdateBit)

\* Signal 0 configured with a type the packer does not know.
MCSigTypeBad   == (0 :> "COM_UNSUPPORTED") @@ (1 :> "COM_SINT16") @@ (2 :> "COM_UINT8N")
=============================================================================
