------------------------------ MODULE FieldFrames -----------------------------
(***************************************************************************)
(* The frames of iot/edge/signal_controller_bridge.py: the SNMP SetRequest *)
(* of NTCIP1202Encoder and the Modbus frame of ModbusRelayEncoder, byte by *)
(* byte; and readers written from the two standards, for the equipment.    *)
(***************************************************************************)
EXTENDS Integers, Sequences, SequencesExt, FiniteSetsExt

\* The two entries of OIDS that are sent, and the community string "public".
Asc(end) == <<1, 3, 6, 1, 4, 1, 1206, 4, 2, 1>> \o end
OIDS == [ascPhaseHold |-> Asc(<<1, 1, 4>>), ascUnitControl |-> Asc(<<5, 1>>)]
Community == <<112, 117, 98, 108, 105, 99>>
Coils == 12

-----------------------------------------------------------------------------
(* Encoders *)

\* n big-endian digits of v, base b.
Digits(v, b, n) == [i \in 1 .. n |-> (v \div b ^ (n - i)) % b]

\* Tag, one length byte, contents.
TLV(tag, bytes) == <<tag, Len(bytes)>> \o bytes

\* A sub-identifier: seven bits an octet, the high bit on all but the last.
SubIdWidth(v) == CHOOSE n \in 1 .. 5 : v < 128 ^ n /\ (n = 1 \/ v >= 128 ^ (n - 1))

\* Mutant: no octet has the high bit.
SubIdNoneHigh(v) == Digits(v, 128, SubIdWidth(v))
SubId(v) ==
  LET d == Digits(v, 128, SubIdWidth(v))
  IN  [i \in DOMAIN d |-> IF i < Len(d) THEN d[i] + 128 ELSE d[i]]

encode_oid(oid) ==
  LET subids == [i \in 1 .. Len(oid) - 2 |-> SubId(oid[i + 2])]
  IN  TLV(6, <<oid[1] * 40 + oid[2]>> \o FlattenSeq(subids))

encode_value(v) == TLV(2, <<v % 256>>)

build_snmp_set_request(oid, value, id) ==
  LET varbinds == TLV(48, TLV(48, encode_oid(oid) \o encode_value(value)))
      pdu == TLV(163, TLV(2, Digits(id, 256, 4)) \o TLV(2, <<0>>) \o TLV(2, <<0>>)
                        \o varbinds)
  IN  TLV(48, TLV(2, <<1>>) \o TLV(4, Community) \o pdu)

\* Coil i (from 0) is bit i % 8 of byte i \div 8.
\* Mutant: the first coil is the high bit.
CoilByteReversed(on, b) == MapThenSumSet(LAMBDA i : 2 ^ (7 - (i % 8)), {i \in on : i \div 8 = b})
CoilByte(on, b) == MapThenSumSet(LAMBDA i : 2 ^ (i % 8), {i \in on : i \div 8 = b})

build_write_multiple_coils(tx, on) ==
  LET count == (Coils + 7) \div 8
      pdu == <<15>> \o Digits(0, 256, 2) \o Digits(Coils, 256, 2) \o <<count>>
               \o [b \in 1 .. count |-> CoilByte(on, b - 1)]
  IN  Digits(tx, 256, 2) \o <<0, 0>> \o Digits(Len(pdu) + 1, 256, 2) \o <<1>> \o pdu

-----------------------------------------------------------------------------
(* What the equipment reads *)

\* The big-endian number in bytes.
Number(bytes) == FoldLeft(LAMBDA n, b : n * 256 + b, 0, bytes)

\* The contents of the n-th TLV in bytes; a length byte above 127 would be
\* something else.
Field(bytes, n) ==
  LET at[k \in 1 .. n] == IF k = 1 THEN 1 ELSE at[k - 1] + 2 + bytes[at[k - 1] + 1]
  IN  SubSeq(bytes, at[n] + 2, at[n] + 1 + bytes[at[n] + 1])

\* A BER INTEGER is two's complement.
Signed(bytes) == Number(bytes) - (IF bytes[1] > 127 THEN 256 ^ Len(bytes) ELSE 0)

\* The sub-identifiers of an OID's contents, each ended by an octet below 128.
SubIds(bytes) ==
  FoldLeft(LAMBDA acc, b :
             IF b > 127 THEN [acc EXCEPT !.part = @ * 128 + b - 128]
             ELSE [done |-> Append(acc.done, acc.part * 128 + b), part |-> 0],
           [done |-> <<>>, part |-> 0], bytes).done

ReadOid(bytes) == <<bytes[1] \div 40, bytes[1] % 40>> \o SubIds(Tail(bytes))

\* The parts of a SetRequest.
Pdu(bytes) == Field(Field(bytes, 1), 3)
Varbind(bytes) == Field(Field(Pdu(bytes), 4), 1)
ReadRequest(bytes) ==
  [oid |-> ReadOid(Field(Varbind(bytes), 1)), value |-> Signed(Field(Varbind(bytes), 2)),
   id |-> Signed(Field(Pdu(bytes), 1))]

\* The coils a write turns on, and whether its length fields say what follows.
ReadCoils(bytes) ==
  {i \in 0 .. Coils - 1 : (bytes[14 + i \div 8] \div 2 ^ (i % 8)) % 2 = 1}
CoilLengthsAgree(bytes) ==
  /\ Number(SubSeq(bytes, 5, 6)) = Len(bytes) - 6
  /\ bytes[13] = Len(bytes) - 13
  /\ Number(SubSeq(bytes, 11, 12)) = Coils
=============================================================================
