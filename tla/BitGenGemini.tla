---------------------------- MODULE BitGenGemini ----------------------------
(***************************************************************************)
(* The bitstream of a Gemini device (BitGenerator/BitGen_gemini.cpp): the   *)
(* objects of a .bitasm file become the actions of one BOP.                 *)
(*                                                                         *)
(* Data is a sequence of bits, bit k of the code at position k + 1.  A bit  *)
(* of an embedded RAM may be any number: it stands for itself, so that it   *)
(* can be found again; Zero is a bit that is not set.                       *)
(***************************************************************************)
EXTENDS Integers, Sequences, FiniteSets, FiniteSetsExt, SequencesExt

CONSTANTS
  Byte,        \* bits of a byte, 8
  Word,        \* bits of a word, 32
  UnitSize,    \* words of a RAM, PCB_UNIT_SIZE 1024
  UserBits,    \* PCB_UNIT_USER_DATA_BIT 32
  ParityBits,  \* PCB_UNIT_PARITY_BIT 4
  Families     \* the families BitGenerator_entry has a generator for

ASSUME GeminiConstants ==
  /\ Byte \in Nat \ {0} /\ Word \in Nat \ {0} /\ Word % Byte = 0
  /\ UnitSize \in Nat \ {0}
  /\ UserBits \in Nat \ {0} /\ ParityBits \in Nat \ {0}
  /\ UserBits % 2 = 0 /\ ParityBits % 2 = 0 /\ ParityBits < UserBits
  /\ UserBits % Word = 0

Zero == 0
Zeros(n) == [k \in 1 .. n |-> Zero]
align(value, unit) == ((value + unit - 1) \div unit) * unit

(* An action: the fields that depend on the objects, and the payload.       *)
Action(name, fields, payload) == [action |-> name, field |-> fields, payload |-> payload]
ActionHolds(action) == Len(action.payload) > 0 /\ Len(action.payload) % Word = 0

(***************************************************************************)
(* FCB: the lines, each padded to words at its end                          *)
(***************************************************************************)
genbits_line_by_line(data, line_bits, total_line) ==
  LET dest == align(line_bits, Word)
  IN  [ k \in 1 .. dest * total_line |->
          LET line == (k - 1) \div dest
              bit == (k - 1) % dest
          IN  IF bit < line_bits THEN data[line * align(line_bits, Byte) + bit + 1] ELSE Zero ]

ScanChainHolds(fcb) ==
  /\ fcb.width > 0 /\ fcb.length > 0
  /\ align(fcb.width, Byte) * fcb.length = Len(fcb.data)
ScanChainAction(fcb) ==
  Action("old_fcb_config", [parallel_chains_count |-> fcb.width],
         genbits_line_by_line(fcb.data, fcb.width, fcb.length))

(* Whole bytes are taken here, with the padding they end in.                *)
MembankHolds(fcb) ==
  /\ fcb.width > 0 /\ fcb.length > 0
  /\ Len(fcb.data) = fcb.length * align(fcb.width, Byte)
MembankAction(fcb) ==
  Action("fcb_config", [bitline_byte_size |-> align(fcb.width, Word) \div Byte],
         genbits_line_by_line(fcb.data, align(fcb.width, Byte), fcb.length))

FcbHolds(bitobj) ==
  IF bitobj.protocol = "scan_chain"
    THEN bitobj.blwl = "" /\ ScanChainHolds(bitobj.fcb)
    ELSE /\ bitobj.protocol = "ql_memory_bank" /\ bitobj.blwl = "flatten"
         /\ MembankHolds(bitobj.fcb)
FcbAction(bitobj) ==
  IF bitobj.protocol = "scan_chain"
    THEN ScanChainAction(bitobj.fcb) ELSE MembankAction(bitobj.fcb)

(***************************************************************************)
(* ICB: the padding is at the front                                         *)
(***************************************************************************)
(* Mutant of IcbOffset: a whole word of padding if there is none to add.    *)
IcbOffsetNotZero(bits) == Word - (bits % Word)

IcbOffset(bits) == IF bits % Word = 0 THEN 0 ELSE Word - (bits % Word)

IcbHolds(icb) == Len(icb.data) = align(icb.bits, Byte)
icb_generate(icb) ==
  Action("icb_config", << >>, Zeros(IcbOffset(icb.bits)) \o SubSeq(icb.data, 1, icb.bits))

IcbActions(bitobj) ==
  IF bitobj.icb.bits > 0 THEN <<icb_generate(bitobj.icb)>> ELSE << >>

(* A second time only if something differs after the configuration.         *)
PostIcbActions(bitobj) ==
  IF bitobj.post_icb.bits > 0 /\ bitobj.post_icb.data # bitobj.icb.data
    THEN <<icb_generate(bitobj.post_icb)>> ELSE << >>

BothIcbHold(bitobj) ==
  /\ IF bitobj.icb.bits > 0 THEN IcbHolds(bitobj.icb) ELSE bitobj.icb.data = << >>
  /\ IF bitobj.post_icb.bits > 0
       THEN /\ bitobj.icb.bits = bitobj.post_icb.bits
            /\ Len(bitobj.icb.data) = Len(bitobj.post_icb.data)
       ELSE bitobj.post_icb.data = << >>

(***************************************************************************)
(* PCB: a word of a RAM has one half in the first half of its data and one  *)
(* in the second, each half followed by its parity                          *)
(***************************************************************************)
PcbBits == (UserBits + ParityBits) * UnitSize
HalfWord == (UserBits + ParityBits) \div 2

(* Bit number bit of word unit, when each half gives size bits of it, from  *)
(* its bit from on.                                                         *)
FromHalves(data, unit, bit, from, size) ==
  data[(bit \div size) * (PcbBits \div 2) + unit * HalfWord + from + (bit % size) + 1]

get_pcb_user_data(data) ==
  [ k \in 1 .. UserBits * UnitSize |->
      FromHalves(data, (k - 1) \div UserBits, (k - 1) % UserBits, 0, UserBits \div 2) ]

(* Mutant of get_pcb_parity: the parity is taken from in front of the user  *)
(* bits.                                                                    *)
get_pcb_parity_in_front(data) ==
  [ k \in 1 .. ParityBits * UnitSize |->
      FromHalves(data, (k - 1) \div ParityBits, (k - 1) % ParityBits, 0, ParityBits \div 2) ]

get_pcb_parity(data) ==
  [ k \in 1 .. ParityBits * UnitSize |->
      FromHalves(data, (k - 1) \div ParityBits, (k - 1) % ParityBits,
                 UserBits \div 2, ParityBits \div 2) ]

(* The parity of a word is given as many bits as its user data.             *)
adjust_data_bit_size(parity) ==
  [ k \in 1 .. UserBits * UnitSize |->
      IF (k - 1) % UserBits < ParityBits
        THEN parity[((k - 1) \div UserBits) * ParityBits + ((k - 1) % UserBits) + 1]
        ELSE Zero ]

(* The user data of a word, then its parity.                                *)
PcbPayloadBits == 2 * UserBits * UnitSize
append_alternate_data(data0, data1) ==
  [ k \in 1 .. PcbPayloadBits |->
      LET unit == (k - 1) \div (2 * UserBits)
          bit == (k - 1) % (2 * UserBits)
      IN  IF bit < UserBits
            THEN data0[unit * UserBits + bit + 1]
            ELSE data1[unit * UserBits + bit - UserBits + 1] ]
PcbPayload(data) ==
  append_alternate_data(get_pcb_user_data(data), adjust_data_bit_size(get_pcb_parity(data)))
PcbPayloads(pcb) ==
  LET payload == [n \in 1 .. Len(pcb) |-> PcbPayload(pcb[n].data)]
  IN  [ k \in 1 .. Len(pcb) * PcbPayloadBits |->
          payload[((k - 1) \div PcbPayloadBits) + 1][((k - 1) % PcbPayloadBits) + 1] ]

(* The coordinates are told by where they begin and the first distance; a   *)
(* distance that differs is only warned of.                                 *)
OffsetIn(coordinates) == Min(coordinates)
StrideIn(coordinates) ==
  IF Cardinality(coordinates) > 1
    THEN Min(coordinates \ {Min(coordinates)}) - Min(coordinates) ELSE 0

PcbHolds(pcb) ==
  \A k \in DOMAIN pcb : pcb[k].bits = PcbBits /\ Len(pcb[k].data) = align(PcbBits, Byte)
PcbActions(pcb) ==
  IF pcb = << >> THEN << >>
  ELSE LET cols == {pcb[k].x : k \in DOMAIN pcb}
           rows == {pcb[k].y : k \in DOMAIN pcb}
       IN  << Action("pcb_config_with_parity",
                [ ram_block_count |-> Len(pcb),
                  pl_row_offset |-> OffsetIn(rows), pl_row_stride |-> StrideIn(rows),
                  pl_col_offset |-> OffsetIn(cols), pl_col_stride |-> StrideIn(cols) ],
                PcbPayloads(pcb)) >>

(***************************************************************************)
(* generate, and the assertions on its way                                  *)
(***************************************************************************)
generate(bitobj) ==
  <<FcbAction(bitobj)>> \o IcbActions(bitobj) \o PostIcbActions(bitobj) \o PcbActions(bitobj.pcb)

AssertionsHold(bitobj) ==
  /\ FcbHolds(bitobj) /\ BothIcbHold(bitobj) /\ PcbHolds(bitobj.pcb)
  /\ \A k \in DOMAIN generate(bitobj) : ActionHolds(generate(bitobj)[k])
Generates(bitobj) == bitobj.family \in Families /\ AssertionsHold(bitobj)
=============================================================================
