-------------------------------- MODULE Gateway --------------------------------
(***************************************************************************)
(* SignalCabinet together with the frames that dispatch_command sends to   *)
(* the field equipment, iot/edge/signal_controller_bridge.py.              *)
(*                                                                         *)
(* asked    the action and value dispatched last                           *)
(* ntcip    the bytes of ntcip_packet, <<>> before the first dispatch      *)
(* modbus   the bytes of modbus_packet                                     *)
(***************************************************************************)
EXTENDS SignalCabinet, FieldFrames

CONSTANT Values   \* the values dispatched with an action

\* A value of 128 or more is another number to the reader, see encode_value.
ASSUME GatewayAssumption == Values \subseteq 0 .. 127

VARIABLES asked, ntcip, modbus
frames == <<asked, ntcip, modbus>>

\* Coils 0-2: North (R, A, G), 3-5: East, 6-8: South, 9-11: West.
CoilNumber(lamp) ==
  LET approach == [N |-> 0, E |-> 1, S |-> 2, W |-> 3]
      aspect == [R |-> 0, A |-> 1, G |-> 2]
  IN  3 * approach[lamp[1]] + aspect[lamp[2]]

NtcipOid(a) == IF a = "FLASH_ALL_RED" THEN OIDS.ascUnitControl ELSE OIDS.ascPhaseHold

\* `value or 1`
NtcipValue(a, v) == IF a = "FLASH_ALL_RED" THEN 4 ELSE IF v = 0 THEN 1 ELSE v

GatewayInit ==
  /\ CabinetInit
  /\ asked = [action |-> "none", value |-> 0] /\ ntcip = <<>> /\ modbus = <<>>

dispatch(a, v) ==
  /\ dispatch_command(a)
  /\ asked' = [action |-> a, value |-> v]
  /\ ntcip' = build_snmp_set_request(NtcipOid(a), NtcipValue(a, v), tx_id')
  /\ modbus' = build_write_multiple_coils(tx_id', {CoilNumber(l) : l \in FrameFor(a)})

GatewayNext ==
  \E a \in Actions :
    \/ \E v \in Values : dispatch(a, v)
    \/ dispatch_raises(a) /\ UNCHANGED frames

GatewaySpec == GatewayInit /\ [][GatewayNext]_<<cabinet, frames>>

-----------------------------------------------------------------------------
(* Properties *)

Sent == asked.action # "none"

\* The controller reads, in the frame sent last, the object and the value that the
\* action stands for and the current transaction: nested lengths, two-octet
\* sub-identifiers and ids across the byte boundary all add up.
SnmpDecodes ==
  Sent => /\ Len(ntcip) = ntcip[2] + 2 /\ \A i \in DOMAIN ntcip : ntcip[i] \in 0 .. 255
          /\ ReadRequest(ntcip) = [oid |-> NtcipOid(asked.action),
                                   value |-> NtcipValue(asked.action, asked.value),
                                   id |-> tx_id]

\* The relay board switches on exactly the lamps of the picture, across the byte
\* boundary of the coils, in the transaction that the controller sees.
CoilsDecode ==
  Sent => /\ CoilLengthsAgree(modbus)
          /\ frame = {l \in Lamps : CoilNumber(l) \in ReadCoils(modbus)}
          /\ Number(SubSeq(modbus, 1, 2)) = tx_id

\* Both kinds of equipment decode what the bridge dispatched; the variables have their
\* types.
FramesDecode == CabinetTypeOK /\ SnmpDecodes /\ CoilsDecode
=============================================================================
