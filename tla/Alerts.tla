------------------------------- MODULE Alerts -------------------------------
(***************************************************************************)
(* What a datagram becomes: the BER decoder of sdn_controller/listeners.py *)
(* for SNMP traps and its reading of the priority of a syslog line.  A     *)
(* datagram is a sequence of bytes; a line is a sequence of pieces: "open" *)
(* and "close" for the angle brackets, "blank" for blanks, "text", and any *)
(* other for a run of digits.                                              *)
(*                                                                         *)
(* The second half is the agent's side, the encoding the decoder is        *)
(* checked against.                                                        *)
(***************************************************************************)
EXTENDS Naturals, Sequences, SequencesExt

(* int.from_bytes, big endian, of four bytes at the most. *)
Number(bytes) ==
  LET digit(i) == IF i < Len(bytes) THEN bytes[Len(bytes) - i] ELSE 0
  IN digit(0) + (256 * digit(1)) + (65536 * digit(2)) + (16777216 * digit(3))

NoField == [ok |-> FALSE, tag |-> 0, value |-> <<>>, next |-> 1]

(* Slip: a value may run past the end of what was received. *)
ReadTlv_Short(data, at) ==
  IF at + 1 > Len(data) THEN NoField
  ELSE LET end == at + 1 + data[at + 1]
       IN [ok |-> TRUE, tag |-> data[at],
           value |-> SubSeq(data, at + 2, IF end > Len(data) THEN Len(data) ELSE end),
           next |-> end + 1]

(* _read_tlv: tag, length in its short or long form, value; what is cut short *)
(* is refused.                                                                *)
ReadTlv(data, at) ==
  LET first == data[at + 1]
      count == IF first >= 128 THEN first - 128 ELSE 0
      start == at + 2 + count
      length == IF first >= 128 THEN Number(SubSeq(data, at + 2, start - 1)) ELSE first
      end == start + length - 1
  IN IF \/ at + 1 > Len(data)
        \/ first = 128 \/ count > 4 \/ start - 1 > Len(data)
        \/ end > Len(data)
     THEN NoField
     ELSE [ok |-> TRUE, tag |-> data[at], value |-> SubSeq(data, start, end), next |-> end + 1]

(* The first n fields of data, five at the most: all of them or none. *)
After(data, field) == IF field.ok THEN ReadTlv(data, field.next) ELSE NoField

Fields(data, n) ==
  LET first == ReadTlv(data, 1)
      second == After(data, first)
      third == After(data, second)
      fourth == After(data, third)
      all == <<first, second, third, fourth, After(data, fourth)>>
  IN IF all[n].ok THEN SubSeq(all, 1, n) ELSE <<>>

(* _decode_oid: two arcs in the first byte, then seven bits a byte; the bytes *)
(* after the last one without its high bit are dropped.  What is known once   *)
(* each byte of raw is read: *)
DecodeByte(known, byte) ==
  LET value == (known.value * 128) + (byte % 128)
  IN IF byte < 128 THEN [arcs |-> Append(known.arcs, value), value |-> 0]
     ELSE [arcs |-> known.arcs, value |-> value]

Decoding(raw) ==
  LET known[i \in 1 .. Len(raw)] ==
        IF i = 1 THEN [arcs |-> <<raw[1] \div 40, raw[1] % 40>>, value |-> 0]
        ELSE DecodeByte(known[i - 1], raw[i])
  IN known

DecodeOid(raw) == IF raw = <<>> THEN <<>> ELSE Decoding(raw)[Len(raw)].arcs

NoAlert == [kind |-> "none", severity |-> "none", oid |-> <<>>]
TrapAlert(oid) == [kind |-> "snmp-trap", severity |-> "warning", oid |-> oid]

(* _decode_v2_trap: the name of the first varbind, if there is one. *)
DecodeV2(body) ==
  LET pdu == Fields(body, 4)
      varbind == Fields(pdu[4].value, 1)
      name == Fields(varbind[1].value, 1)
  IN IF pdu = <<>> THEN NoAlert
     ELSE IF pdu[4].value = <<>> THEN TrapAlert(<<>>)
     ELSE IF varbind = <<>> THEN NoAlert
     ELSE IF varbind[1].value = <<>> THEN TrapAlert(<<>>)
     ELSE IF name = <<>> THEN NoAlert
     ELSE TrapAlert(DecodeOid(name[1].value))

(* _decode_v1_trap: the enterprise. *)
DecodeV1(body) ==
  LET pdu == Fields(body, 5)
  IN IF pdu = <<>> THEN NoAlert ELSE TrapAlert(DecodeOid(pdu[1].value))

(* _decode_trap and SnmpTrapListener._handle: version, community and PDU in a *)
(* sequence; any other PDU is reported without an OID.                        *)
DecodeTrap(data) ==
  LET outer == Fields(data, 1)
      inner == Fields(outer[1].value, 3)
      pdu == inner[3]
  IN IF outer = <<>> THEN NoAlert
     ELSE IF outer[1].tag # 48 \/ inner = <<>> THEN NoAlert
     ELSE IF pdu.tag = 167 THEN DecodeV2(pdu.value)
     ELSE IF pdu.tag = 164 THEN DecodeV1(pdu.value)
     ELSE TrapAlert(<<>>)

Severities ==
  <<"critical", "critical", "critical", "error", "warning", "info", "info", "info">>

(* _SYSLOG_SEVERITY of PRI % 8. *)
Severity(priority) == Severities[(priority % 8) + 1]

(* str.strip *)
Strip(line) ==
  LET text == {i \in DOMAIN line : line[i] # "blank"}
  IN IF text = {} THEN <<>>
     ELSE SubSeq(line, CHOOSE i \in text : \A j \in text : i <= j,
                       CHOOSE i \in text : \A j \in text : j <= i)

(* _split_priority: a number alone, blanks apart, between an opening bracket  *)
(* and the first closing one.  Anything else has no priority.  numbers maps   *)
(* each run of digits to its value.                                           *)
Priority(line, numbers) ==
  LET end == SelectInSeq(line, LAMBDA piece : piece = "close")
      inner == Strip(SubSeq(line, 2, end - 1))
  IN IF line[1] = "open" /\ end > 2
     THEN {numbers[n] : n \in {m \in DOMAIN numbers : inner = <<m>>}}
     ELSE {}

(* SyslogListener._handle *)
DecodeLine(line, numbers) ==
  LET text == Strip(line)
  IN IF text = <<>> THEN NoAlert
     ELSE [kind |-> "syslog", oid |-> <<>>,
           severity |-> IF Priority(text, numbers) = {} THEN "info"
                        ELSE Severity(CHOOSE n \in Priority(text, numbers) : TRUE)]

-----------------------------------------------------------------------------
(* The agent: X.690 and RFC 3416. *)
EncodeLength(n) ==
  IF n < 128 THEN <<n>>
  ELSE IF n < 256 THEN <<129, n>>
  ELSE <<130, n \div 256, n % 256>>

Tlv(tag, value) == <<tag>> \o EncodeLength(Len(value)) \o value

(* An arc, up to 32 bits of it, in septets; all of them but the last have the *)
(* high bit.                                                                  *)
EncodeArc(arc) ==
  LET a == arc \div 128
      b == a \div 128
      c == b \div 128
      d == c \div 128
      high(n) == 128 + (n % 128)
  IN IF a = 0 THEN <<arc>>
     ELSE IF b = 0 THEN <<high(a), arc % 128>>
     ELSE IF c = 0 THEN <<high(b), high(a), arc % 128>>
     ELSE IF d = 0 THEN <<high(c), high(b), high(a), arc % 128>>
     ELSE <<high(d), high(c), high(b), high(a), arc % 128>>

(* The first arcs of oid, encoded. *)
Encoding(oid) ==
  LET bytes[i \in 2 .. Len(oid)] ==
        IF i = 2 THEN <<(40 * oid[1]) + oid[2]>> ELSE bytes[i - 1] \o EncodeArc(oid[i])
  IN bytes

EncodeOid(oid) == Encoding(oid)[Len(oid)]

OidField(oid) == Tlv(6, EncodeOid(oid))
IntField(n) == Tlv(2, <<n>>)
Message(pdu) == Tlv(48, IntField(1) \o Tlv(4, <<112>>) \o pdu)

(* Traps, with what the alert should show: the enterprise, or the name of the *)
(* first of two varbinds.                                                     *)
EncodeV1(enterprise) ==
  Message(Tlv(164, OidField(enterprise) \o (Tlv(64, <<10, 0, 0, 1>>) \o
                     (IntField(6) \o (IntField(1) \o Tlv(67, <<9>>))))))

EncodeV2(first, second) ==
  Message(Tlv(167, IntField(7) \o (IntField(0) \o (IntField(0) \o
              Tlv(48, Tlv(48, OidField(first) \o Tlv(67, <<9>>)) \o
                      Tlv(48, OidField(second) \o OidField(first)))))))

(* The same with no varbind, and a request that is no trap. *)
EncodeBare ==
  Message(Tlv(167, IntField(7) \o (IntField(0) \o (IntField(0) \o Tlv(48, <<>>)))))
EncodeGet == Message(Tlv(160, IntField(7)))
=============================================================================
