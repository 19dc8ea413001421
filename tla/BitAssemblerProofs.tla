-------------------------- MODULE BitAssemblerProofs --------------------------
(***************************************************************************)
(* What the assembler promises, for every project, every size of a byte, a  *)
(* word and a RAM, and any number of runs.  The objects it makes pass every *)
(* assertion of the generator (GeneratorTakesIt): they have the lengths the *)
(* generator expects, and what it makes of them comes in whole words.  And  *)
(* each bit of the texts of the FCB and the ICB and of the RAMs is in the   *)
(* payloads of the .cfgbit file, in its place (FcbBitsArrive,               *)
(* IcbBitsArrive, RamBitsArrive): a second invariant follows what was read  *)
(* so far through the texts, and lemmas on the layouts of the generator     *)
(* take it from the object to the payload.                                  *)
(***************************************************************************)
EXTENDS BitAssembler, SequenceTheorems, FiniteSetTheorems, TLAPS

(***************************************************************************)
(* Multiples                                                                *)
(***************************************************************************)
LEMMA MultipleMod ==
  ASSUME NEW q \in Nat, NEW u \in Nat \ {0}
  PROVE  (q * u) % u = 0
<1> DEFINE d == (q * u) \div u
           r == (q * u) % u
<1>1. q * u \in Nat
  OBVIOUS
<1>2. d \in Int /\ r \in 0 .. u - 1 /\ q * u = d * u + r
  BY <1>1, SMT
<1> HIDE DEF d, r
<1>3. (q - d) * u = r
  BY <1>2, SMT
<1>4. CASE q - d >= 1
  <2>1. (q - d) * u >= u
    BY <1>2, <1>4, SMT
  <2> QED
    BY <1>2, <1>3, <2>1, SMT
<1>5. CASE q - d <= 0
  <2>1. (q - d) * u <= 0
    BY <1>2, <1>5, SMT
  <2> QED
    BY <1>2, <1>3, <2>1, SMT DEF r
<1> QED
  BY <1>2, <1>4, <1>5, SMT

LEMMA DivFacts ==
  ASSUME NEW n \in Nat, NEW u \in Nat \ {0}
  PROVE  n \div u \in Nat /\ n % u \in 0 .. u - 1 /\ n = (n \div u) * u + (n % u)
<1> DEFINE q == n \div u
           r == n % u
<1>1. q \in Int /\ r \in 0 .. u - 1 /\ n = q * u + r
  BY SMT
<1> HIDE DEF q, r
<1>2. CASE q <= -1
  <2>1. q * u <= -1 * u
    BY <1>1, <1>2, SMT
  <2> QED
    BY <1>1, <2>1, SMT
<1>3. CASE q >= 0
  BY <1>1, <1>3 DEF q, r
<1> QED
  BY <1>1, <1>2, <1>3

LEMMA AlignFacts ==
  ASSUME NEW v \in Nat, NEW u \in Nat \ {0}
  PROVE  /\ align(v, u) \in Nat
         /\ align(v, u) >= v
         /\ \E q \in Nat : align(v, u) = q * u /\ (v > 0 => q > 0)
<1> DEFINE q == (v + u - 1) \div u
           r == (v + u - 1) % u
<1>1. q \in Int /\ r \in 0 .. u - 1 /\ v + u - 1 = q * u + r
  BY SMT
<1>2. align(v, u) = q * u
  BY DEF align
<1> HIDE DEF q, r
<1>3. q * u >= v
  BY <1>1, SMT
<1>4. q >= 0
  <2>1. CASE q <= -1
    <3>1. q * u <= -1 * u
      BY <1>1, <2>1, SMT
    <3> QED
      BY <1>1, <1>3, <3>1, SMT
  <2> QED
    BY <1>1, <2>1, SMT
<1>5. v > 0 => q > 0
  BY <1>1, <1>3, <1>4, SMT
<1>6. q * u \in Nat
  BY <1>1, <1>4, SMT
<1> QED
  BY <1>1, <1>2, <1>3, <1>4, <1>5, <1>6

(* A number of lines of whole words.                                        *)
LEMMA LinesOfWords ==
  ASSUME NEW v \in Nat \ {0}, NEW n \in Nat \ {0}, NEW u \in Nat \ {0}
  PROVE  /\ align(v, u) * n \in Nat
         /\ align(v, u) * n > 0
         /\ (align(v, u) * n) % u = 0
<1>0. v \in Nat /\ v > 0
  OBVIOUS
<1>1. PICK q \in Nat : align(v, u) = q * u /\ q > 0
  <2>1. \E q \in Nat : align(v, u) = q * u /\ (v > 0 => q > 0)
    BY <1>0, AlignFacts
  <2> QED
    BY <1>0, <2>1
<1>2. align(v, u) \in Nat /\ align(v, u) > 0
  <2>1. align(v, u) \in Nat /\ align(v, u) >= v
    BY <1>0, AlignFacts
  <2> QED
    BY <1>0, <2>1
<1>3. align(v, u) * n = (q * n) * u /\ q * n \in Nat
  BY <1>1, SMT
<1>4. ((q * n) * u) % u = 0
  BY <1>3, MultipleMod
<1>5. align(v, u) * n \in Nat /\ align(v, u) * n > 0
  BY <1>2, SMT
<1> QED
  BY <1>3, <1>4, <1>5

(***************************************************************************)
(* Sequences                                                                *)
(***************************************************************************)
LEMMA LenOfFunction ==
  ASSUME NEW S, NEW n \in Nat, NEW f \in [1 .. n -> S]
  PROVE  f \in Seq(S) /\ Len(f) = n
<1>1. f \in Seq(S)
  BY SeqDef
<1>2. Len(f) \in Nat /\ DOMAIN f = 1 .. Len(f)
  BY <1>1, LenProperties
<1>3. 1 .. Len(f) = 1 .. n
  BY <1>2
<1> QED
  BY <1>1, <1>2, <1>3, SMT

LEMMA ZerosFacts ==
  ASSUME NEW n \in Nat
  PROVE  Zeros(n) \in Seq(Nat) /\ Len(Zeros(n)) = n
<1>1. Zeros(n) \in [1 .. n -> Nat]
  BY DEF Zeros, Zero
<1> QED
  BY <1>1, LenOfFunction

LEMMA ReverseFacts ==
  ASSUME NEW S, NEW s \in Seq(S)
  PROVE  Reverse(s) \in Seq(S) /\ Len(Reverse(s)) = Len(s)
<1>1. Len(s) \in Nat /\ \A k \in 1 .. Len(s) : s[k] \in S
  BY LenProperties, ElementOfSeq
<1>2. \A k \in 1 .. Len(s) : (Len(s) - k) + 1 \in 1 .. Len(s)
  BY <1>1, SMT
<1>3. Reverse(s) \in [1 .. Len(s) -> S]
  BY <1>1, <1>2 DEF Reverse
<1> QED
  BY <1>1, <1>3, LenOfFunction

LEMMA InOrderFacts ==
  ASSUME NEW S, NEW s \in Seq(S)
  PROVE  InOrder(s) \in Seq(S) /\ Len(InOrder(s)) = Len(s)
  BY ReverseFacts DEF InOrder

LEMMA PaddedFacts ==
  ASSUME NEW chars \in Seq(STRING)
  PROVE  /\ PaddedToBytes(chars) \in Seq(Nat)
         /\ Len(PaddedToBytes(chars)) = align(Len(chars), Byte)
<1> DEFINE bits == [k \in DOMAIN chars |-> Bit(chars[k])]
           zeros == Zeros(align(Len(chars), Byte) - Len(chars))
<1>1. Len(chars) \in Nat /\ DOMAIN chars = 1 .. Len(chars)
  BY LenProperties
<1>2. bits \in [1 .. Len(chars) -> Nat]
  BY <1>1 DEF Bit, Zero
<1>3. bits \in Seq(Nat) /\ Len(bits) = Len(chars)
  BY <1>1, <1>2, LenOfFunction
<1>4. align(Len(chars), Byte) - Len(chars) \in Nat /\ align(Len(chars), Byte) \in Nat
  <2>1. align(Len(chars), Byte) \in Nat /\ align(Len(chars), Byte) >= Len(chars)
    BY <1>1, AlignFacts, GeminiConstants
  <2> QED
    BY <1>1, <2>1
<1>5. zeros \in Seq(Nat) /\ Len(zeros) = align(Len(chars), Byte) - Len(chars)
  BY <1>4, ZerosFacts
<1> HIDE DEF bits, zeros
<1>6. bits \o zeros \in Seq(Nat) /\ Len(bits \o zeros) = Len(bits) + Len(zeros)
  BY <1>3, <1>5, ConcatProperties
<1>7. PaddedToBytes(chars) = bits \o zeros
  BY DEF PaddedToBytes, bits, zeros
<1> QED
  BY <1>1, <1>3, <1>4, <1>5, <1>6, <1>7

(***************************************************************************)
(* The inductive invariant                                                  *)
(***************************************************************************)
Section == [length : Nat, width : Nat, format : BOOLEAN, data : Seq(Nat)]
Icb == [bits : Nat, data : Seq(Nat)]
Rams == Seq([x : Nat, y : Nat, bits : Nat, data : Seq(Nat)])
(* The empty name, too: the provers do not know that it is a string.        *)
Name == STRING \union {""}
Object ==
  [ family : Name, protocol : Name, blwl : Name, fcb : Section, icb : Icb,
    post_icb : Icb, pcb : Rams ]

TypeOK ==
  /\ project \in Project
  /\ index \in Nat /\ line_tracking \in 0 .. 2 /\ data_line \in Nat
  /\ section \in Section
  /\ bitobj \in Object

Busy == Texts \union {"pcb", "write", "generate"}

(* The lines that were taken are in the section, and nothing else is.       *)
LinesTaken ==
  /\ line_tracking # 2 => data_line = 0 /\ section.data = << >>
  /\ line_tracking = 2 /\ pc = "fcb" => HeaderKnown
  /\ pc = "fcb" => Len(section.data) = data_line * align(section.width, Byte)
  /\ pc \in {"icb", "post_icb"} => Len(section.data) = data_line

FirstIcbHolds(b) == IF b.icb.bits > 0 THEN IcbHolds(b.icb) ELSE b.icb.data = << >>

(* What the generator will assert of a part holds once the part is read.    *)
PartsHold ==
  /\ bitobj.family = project.device.family
  /\ SupportedDevice(bitobj)
  /\ pc # "fcb" => FcbHolds(bitobj) /\ FirstIcbHolds(bitobj)
  /\ pc \in {"fcb", "icb"} => bitobj.icb = NoIcb
  /\ pc \in Texts => bitobj.post_icb = NoIcb
  /\ pc \notin Texts => BothIcbHold(bitobj)
  /\ pc \in {"write", "generate"} => PcbHolds(bitobj.pcb)

IInv ==
  /\ TypeOK
  /\ pc \in Texts => LinesTaken
  /\ pc \in Busy => PartsHold
  /\ pc = "generate" => bitasm = {bitobj}
  /\ pc = "refused" => project.device.family \notin Families

(***************************************************************************)
(* The generator                                                            *)
(***************************************************************************)
LEMMA FcbActionHolds ==
  ASSUME NEW b \in Object, FcbHolds(b)
  PROVE  ActionHolds(FcbAction(b))
<1>1. /\ b.fcb.width \in Nat \ {0} /\ b.fcb.length \in Nat \ {0}
      /\ align(b.fcb.width, Byte) \in Nat \ {0}
  <2>1. b.fcb.width \in Nat \ {0} /\ b.fcb.length \in Nat \ {0}
    <3>1. b.fcb.width \in Nat /\ b.fcb.length \in Nat
      BY DEF Object, Section
    <3>2. b.fcb.width > 0 /\ b.fcb.length > 0
      BY DEF FcbHolds, ScanChainHolds, MembankHolds
    <3> QED
      BY <3>1, <3>2
  <2>2. align(b.fcb.width, Byte) \in Nat /\ align(b.fcb.width, Byte) >= b.fcb.width
    BY <2>1, AlignFacts, GeminiConstants
  <2> QED
    BY <2>1, <2>2
<1>2. PICK w \in Nat \ {0} :
        FcbAction(b).payload = genbits_line_by_line(b.fcb.data, w, b.fcb.length)
  BY <1>1 DEF FcbAction, ScanChainAction, MembankAction, Action
<1> DEFINE n == align(w, Word) * b.fcb.length
<1>3. n \in Nat /\ n > 0 /\ n % Word = 0
  BY <1>1, LinesOfWords, GeminiConstants
<1> DEFINE payload == genbits_line_by_line(b.fcb.data, w, b.fcb.length)
<1>4. payload \in [1 .. n -> {payload[k] : k \in 1 .. n}]
  BY DEF genbits_line_by_line
<1> HIDE DEF n
<1>5. Len(payload) = n
  BY <1>3, <1>4, LenOfFunction
<1> QED
  BY <1>2, <1>3, <1>5 DEF ActionHolds

LEMMA IcbActionHolds ==
  ASSUME NEW icb \in Icb, icb.bits > 0, IcbHolds(icb)
  PROVE  ActionHolds(icb_generate(icb))
<1> DEFINE bits == icb.bits
           q == bits \div Word
           r == bits % Word
           off == IcbOffset(bits)
<1>1. bits \in Nat /\ bits > 0 /\ icb.data \in Seq(Nat) /\ Word \in Nat \ {0}
  BY GeminiConstants DEF Icb
<1>2. Len(icb.data) \in Nat /\ bits <= Len(icb.data)
  BY <1>1, AlignFacts, GeminiConstants DEF IcbHolds
<1>3. SubSeq(icb.data, 1, bits) \in Seq(Nat) /\ Len(SubSeq(icb.data, 1, bits)) = bits
  BY <1>1, <1>2, SubSeqProperties, SMT
<1>4. q \in Nat /\ r \in 0 .. Word - 1 /\ bits = q * Word + r
  BY <1>1, DivFacts
<1>5. off = IF r = 0 THEN 0 ELSE Word - r
  BY DEF IcbOffset
<1> HIDE DEF bits, q, r, off
<1>6. off \in Nat
  BY <1>1, <1>4, <1>5, SMT
<1>7. PICK m \in Nat : off + bits = m * Word
  <2>1. CASE r = 0
    BY <1>1, <1>4, <1>5, <2>1, SMT
  <2>2. CASE r # 0
    <3>1. off + bits = (q + 1) * Word /\ q + 1 \in Nat
      BY <1>1, <1>4, <1>5, <2>2, SMT
    <3> QED
      BY <3>1
  <2> QED
    BY <2>1, <2>2
<1>8. (off + bits) % Word = 0
  BY <1>1, <1>7, MultipleMod
<1>9. Zeros(off) \in Seq(Nat) /\ Len(Zeros(off)) = off
  BY <1>6, ZerosFacts
<1>10. Len(Zeros(off) \o SubSeq(icb.data, 1, bits)) = off + bits
  BY <1>3, <1>9, ConcatProperties
<1>11. icb_generate(icb).payload = Zeros(off) \o SubSeq(icb.data, 1, bits)
  BY DEF icb_generate, Action, off, bits
<1>12. off + bits > 0
  BY <1>1, <1>6
<1> QED
  BY <1>8, <1>10, <1>11, <1>12 DEF ActionHolds

LEMMA PcbPayloadLength ==
  ASSUME NEW pcb \in Rams, Len(pcb) > 0
  PROVE  Len(PcbPayloads(pcb)) > 0 /\ Len(PcbPayloads(pcb)) % Word = 0
<1> DEFINE n == Len(pcb) * PcbPayloadBits
<1>1. Len(pcb) \in Nat
  BY LenProperties DEF Rams
<1>2. /\ Word \in Nat \ {0} /\ UserBits \in Nat \ {0} /\ UnitSize \in Nat \ {0}
      /\ UserBits % Word = 0
  BY GeminiConstants
<1>3. PICK q \in Nat : UserBits = q * Word
  <2>1. UserBits \div Word \in Nat /\ UserBits = (UserBits \div Word) * Word + (UserBits % Word)
    BY <1>2, DivFacts
  <2>2. UserBits = (UserBits \div Word) * Word
    BY <1>2, <2>1
  <2> QED
    BY <2>1, <2>2
<1>4. n \in Nat /\ n > 0
  <2>1. UserBits * UnitSize \in Nat /\ UserBits * UnitSize > 0
    BY <1>2, SMT
  <2>2. PcbPayloadBits = 2 * (UserBits * UnitSize)
    BY <1>2 DEF PcbPayloadBits
  <2>3. PcbPayloadBits \in Nat /\ PcbPayloadBits > 0
    BY <2>1, <2>2, SMT
  <2> QED
    BY <1>1, <2>3, SMT
<1>5. n = (Len(pcb) * (2 * (q * UnitSize))) * Word /\ Len(pcb) * (2 * (q * UnitSize)) \in Nat
  <2>1. q * UnitSize \in Nat
    BY <1>2, <1>3
  <2>2. Len(pcb) * (2 * (q * UnitSize)) \in Nat
    BY <1>1, <2>1
  <2>3. PcbPayloadBits = (2 * (q * UnitSize)) * Word
    BY <1>2, <1>3, SMT DEF PcbPayloadBits
  <2> QED
    BY <1>1, <1>2, <2>1, <2>2, <2>3, SMT
<1>6. n % Word = 0
  BY <1>2, <1>5, MultipleMod
<1> DEFINE payload == PcbPayloads(pcb)
<1>7. payload \in [1 .. n -> {payload[k] : k \in 1 .. n}]
  BY DEF PcbPayloads
<1> HIDE DEF n
<1>8. Len(payload) = n
  BY <1>4, <1>7, LenOfFunction
<1> QED
  BY <1>4, <1>6, <1>8

(* An object whose parts hold passes every assertion of generate.           *)
LEMMA GenerateAsserts ==
  ASSUME NEW b \in Object, FcbHolds(b), BothIcbHold(b), PcbHolds(b.pcb)
  PROVE  AssertionsHold(b)
<1> DEFINE fcb == FcbAction(b)
           icb == icb_generate(b.icb)
           post == icb_generate(b.post_icb)
           pcb == PcbActions(b.pcb)[1]
           S == {a \in {fcb, icb, post, pcb} : ActionHolds(a)}
<1>1. b.icb \in Icb /\ b.post_icb \in Icb /\ b.pcb \in Rams
  BY DEF Object
<1>2. <<fcb>> \in Seq(S)
  BY FcbActionHolds
<1>3. IcbActions(b) \in Seq(S)
  <2>1. CASE b.icb.bits > 0
    <3>1. ActionHolds(icb)
      BY <1>1, <2>1, IcbActionHolds DEF BothIcbHold
    <3>2. IcbActions(b) = <<icb>> /\ icb \in S
      BY <2>1, <3>1 DEF IcbActions
    <3> HIDE DEF icb, S
    <3> QED
      BY <3>2
  <2>2. CASE ~(b.icb.bits > 0)
    BY <2>2 DEF IcbActions
  <2> QED
    BY <2>1, <2>2
<1>4. PostIcbActions(b) \in Seq(S)
  <2>1. CASE b.post_icb.bits > 0
    <3>1. b.icb.bits > 0 /\ b.icb.bits = b.post_icb.bits
      BY <2>1 DEF BothIcbHold
    <3>2. IcbHolds(b.post_icb)
      BY <2>1, <3>1 DEF BothIcbHold, IcbHolds
    <3>3. ActionHolds(post)
      BY <1>1, <2>1, <3>2, IcbActionHolds
    <3> QED
      BY <3>3 DEF PostIcbActions
  <2>2. CASE ~(b.post_icb.bits > 0)
    BY <2>2 DEF PostIcbActions
  <2> QED
    BY <2>1, <2>2
<1>5. PcbActions(b.pcb) \in Seq(S)
  <2>1. CASE b.pcb = << >>
    BY <2>1 DEF PcbActions
  <2>2. CASE b.pcb # << >>
    <3>1. Len(b.pcb) > 0
      BY <1>1, <2>2, EmptySeq, LenProperties DEF Rams
    <3>2. PcbActions(b.pcb) = <<pcb>> /\ pcb.payload = PcbPayloads(b.pcb)
      BY <2>2 DEF PcbActions, Action
    <3>3. ActionHolds(pcb)
      BY <1>1, <3>1, <3>2, PcbPayloadLength DEF ActionHolds
    <3> HIDE DEF pcb
    <3>4. <<pcb>> \in Seq(S)
      BY <3>3
    <3> QED
      BY <3>2, <3>4
  <2> QED
    BY <2>1, <2>2
<1> HIDE DEF S, fcb
<1>6. generate(b) \in Seq(S)
  <2>1. <<fcb>> \o IcbActions(b) \in Seq(S)
    BY <1>2, <1>3, ConcatProperties
  <2>2. (<<fcb>> \o IcbActions(b)) \o PostIcbActions(b) \in Seq(S)
    BY <1>4, <2>1, ConcatProperties
  <2>3. ((<<fcb>> \o IcbActions(b)) \o PostIcbActions(b)) \o PcbActions(b.pcb) \in Seq(S)
    BY <1>5, <2>2, ConcatProperties
  <2> QED
    BY <2>3 DEF generate, fcb
<1>7. \A k \in DOMAIN generate(b) : ActionHolds(generate(b)[k])
  <2>1. \A k \in DOMAIN generate(b) : generate(b)[k] \in S
    BY <1>6, ElementOfSeq, LenProperties
  <2> QED
    BY <2>1 DEF S
<1> QED
  BY <1>7 DEF AssertionsHold

(***************************************************************************)
(* The lines of a text                                                      *)
(***************************************************************************)
LEMMA HereIsALine ==
  ASSUME TypeOK, pc \in Texts, index < Len(Lines)
  PROVE  Here \in Line
<1>1. TextOf(pc) \in AnyText
  <2>1. pc \in {"fcb", "icb", "post_icb"}
    BY DEF Texts
  <2> QED
    BY <2>1 DEF TypeOK, Project, TextOf
<1>2. Lines \in Seq(Line)
  BY <1>1 DEF Lines, AnyText
<1>3. Len(Lines) \in Nat /\ index + 1 \in 1 .. Len(Lines)
  BY <1>2, LenProperties DEF TypeOK
<1> QED
  BY <1>2, <1>3, ElementOfSeq DEF Here

LEMMA KindsOfLine ==
  ASSUME NEW line \in Line
  PROVE  /\ line.key \in {"length", "width"} => line.number \in Nat
         /\ line.key = "data" => line.chars \in Seq(STRING)
  BY DEF Line

(* A step within a text.                                                    *)
LEMMA ReadKeeps ==
  ASSUME IInv, NextLine, bitobj' = bitobj,
         pc' = pc \/ pc' = "aborted",
         line_tracking' \in 0 .. 2, data_line' \in Nat, section' \in Section,
         pc' = pc => LinesTaken'
  PROVE  IInv'
<1>1. pc \in Texts /\ index' = index + 1 /\ project' = project
  BY DEF NextLine
<1>2. TypeOK'
  BY <1>1 DEF IInv, TypeOK
<1>3. "aborted" \notin Busy /\ "aborted" \notin Texts
  BY DEF Busy, Texts
<1>4. pc' = pc => PartsHold'
  BY <1>1 DEF IInv, PartsHold, Busy
<1>5. pc # "generate" /\ pc # "refused"
  BY <1>1 DEF Texts
<1> QED
  BY <1>2, <1>3, <1>4, <1>5 DEF IInv

(* A line that is not data.                                                 *)
LEMMA HeaderLineKeeps ==
  ASSUME IInv, NextLine, UNCHANGED <<bitobj, data_line>>,
         pc' = pc \/ pc' = "aborted",
         \/ line_tracking = 0 /\ line_tracking' = 1
         \/ line_tracking' = line_tracking,
         section' \in Section,
         section'.data = section.data,
         section' = section \/ line_tracking = 1
  PROVE  IInv'
<1>1. pc \in Texts /\ LinesTaken
  BY DEF NextLine, IInv
<1>2. line_tracking' \in 0 .. 2 /\ data_line' \in Nat
  BY DEF IInv, TypeOK
<1>3. ASSUME pc' = pc PROVE LinesTaken'
  <2>1. CASE section' = section
    BY <1>1, <1>3, <2>1 DEF LinesTaken, HeaderKnown
  <2>2. CASE section' # section
    <3>1. line_tracking = 1 /\ line_tracking' = 1 /\ data_line = 0 /\ section.data = << >>
      BY <1>1, <2>2 DEF LinesTaken
    <3>2. align(section'.width, Byte) \in Nat
      BY AlignFacts, GeminiConstants DEF Section
    <3>3. Len(section'.data) = 0
      BY <3>1, EmptySeq
    <3>4. 0 = 0 * align(section'.width, Byte)
      BY <3>2
    <3> QED
      BY <3>1, <3>3, <3>4 DEF LinesTaken
  <2> QED
    BY <2>1, <2>2
<1> QED
  BY <1>2, <1>3, ReadKeeps

(* A line of data that is taken: its bits, in whole bytes for an FCB, are   *)
(* appended to the section.                                                 *)
LEMMA TakenKeeps ==
  ASSUME IInv, NextLine, NEW bits \in Seq(Nat), Taken(bits),
         pc = "fcb" => HeaderKnown /\ Len(bits) = align(section.width, Byte),
         pc # "fcb" => Len(bits) = 1
  PROVE  IInv'
<1>1. pc \in Texts /\ LinesTaken /\ section \in Section /\ data_line \in Nat
  BY DEF NextLine, IInv, TypeOK
<1>2. /\ line_tracking' = 2 /\ data_line' = data_line + 1 /\ pc' = pc /\ bitobj' = bitobj
      /\ section' = [section EXCEPT !.data = section.data \o bits]
  BY DEF Taken, Append1
<1>3. section.data \in Seq(Nat)
  BY <1>1 DEF Section
<1>4. /\ section.data \o bits \in Seq(Nat)
      /\ Len(section.data \o bits) = Len(section.data) + Len(bits)
  BY <1>3, ConcatProperties
<1>5. /\ section' \in Section /\ section'.width = section.width
      /\ section'.length = section.length /\ section'.data = section.data \o bits
  BY <1>1, <1>2, <1>4 DEF Section
<1>6. align(section.width, Byte) \in Nat
  BY <1>1, AlignFacts, GeminiConstants DEF Section
<1>7. LinesTaken'
  <2>1. CASE pc = "fcb"
    <3>1. Len(section'.data) = data_line * align(section.width, Byte) + align(section.width, Byte)
      BY <1>1, <1>4, <1>5, <2>1 DEF LinesTaken
    <3>2. data_line * align(section.width, Byte) + align(section.width, Byte)
            = (data_line + 1) * align(section.width, Byte)
      BY <1>1, <1>6, SMT
    <3> QED
      BY <1>2, <1>5, <2>1, <3>1, <3>2 DEF LinesTaken, HeaderKnown
  <2>2. CASE pc # "fcb"
    BY <1>1, <1>2, <1>4, <1>5, <2>2 DEF LinesTaken, Texts
  <2> QED
    BY <2>1, <2>2
<1> QED
  BY <1>1, <1>2, <1>5, <1>7, ReadKeeps

LEMMA RefusedKeeps ==
  ASSUME IInv, NextLine, Refused
  PROVE  IInv'
<1>1. line_tracking' \in 0 .. 2 /\ data_line' \in Nat /\ section' \in Section
  BY DEF Refused, IInv, TypeOK
<1>2. pc \in Texts /\ pc' = "aborted" /\ bitobj' = bitobj
  BY DEF Refused, NextLine
<1> QED
  BY <1>1, <1>2, ReadKeeps DEF Texts

LEMMA HeaderLines ==
  ASSUME IInv, BlankLine \/ Title \/ Comment \/ LengthLine \/ WidthLine \/ FormatLine
  PROVE  IInv'
<1>1. NextLine /\ section \in Section
  BY DEF BlankLine, Title, Comment, LengthLine, WidthLine, FormatLine, IInv, TypeOK
<1>2. Here \in Line
  BY <1>1, HereIsALine DEF NextLine, IInv
<1>3. CASE BlankLine
  BY <1>1, <1>3, HeaderLineKeeps DEF BlankLine
<1>4. CASE Title
  BY <1>1, <1>4, HeaderLineKeeps DEF Title
<1>5. CASE Comment
  BY <1>1, <1>5, HeaderLineKeeps DEF Comment
<1>6. CASE LengthLine
  <2>1. Here.number \in Nat
    BY <1>2, <1>6, KindsOfLine DEF LengthLine
  <2>2. section' \in Section /\ section'.data = section.data
    BY <1>1, <1>6, <2>1 DEF LengthLine, Section
  <2> QED
    BY <1>1, <1>6, <2>2, HeaderLineKeeps DEF LengthLine
<1>7. CASE WidthLine
  <2>1. Here.number \in Nat
    BY <1>2, <1>7, KindsOfLine DEF WidthLine
  <2>2. section' \in Section /\ section'.data = section.data
    BY <1>1, <1>7, <2>1 DEF WidthLine, Section
  <2> QED
    BY <1>1, <1>7, <2>2, HeaderLineKeeps DEF WidthLine
<1>8. CASE FormatLine
  <2>1. section' \in Section /\ section'.data = section.data
    BY <1>1, <1>8 DEF FormatLine, Section
  <2> QED
    BY <1>1, <1>8, <2>1, HeaderLineKeeps DEF FormatLine
<1> QED
  BY <1>3, <1>4, <1>5, <1>6, <1>7, <1>8

(* The line of a scan chain is as long as the header says.                  *)
LEMMA ScanChainLineKeeps ==
  ASSUME IInv, ScanChainLine
  PROVE  IInv'
<1>1. NextLine /\ pc = "fcb"
  BY DEF ScanChainLine, AtData
<1>2. Here \in Line
  BY <1>1, HereIsALine DEF NextLine, IInv
<1>3. CASE Refused
  BY <1>1, <1>3, RefusedKeeps
<1>4. CASE /\ Here.key = "data" /\ HeaderKnown /\ BitlineHolds(Here.chars)
           /\ Taken(PaddedToBytes(InOrder(Here.chars)))
  <2>1. Here.chars \in Seq(STRING) /\ Len(Here.chars) = section.width
    BY <1>2, <1>4, KindsOfLine DEF BitlineHolds
  <2>2. InOrder(Here.chars) \in Seq(STRING) /\ Len(InOrder(Here.chars)) = section.width
    BY <2>1, InOrderFacts
  <2>3. /\ PaddedToBytes(InOrder(Here.chars)) \in Seq(Nat)
        /\ Len(PaddedToBytes(InOrder(Here.chars))) = align(section.width, Byte)
    BY <2>2, PaddedFacts
  <2> QED
    BY <1>1, <1>4, <2>3, TakenKeeps
<1> QED
  BY <1>3, <1>4 DEF ScanChainLine

(* The bits in front of the word line are as many.                          *)
LEMMA BlPartFacts ==
  ASSUME TypeOK, NEW chars \in Seq(STRING), WlLineHolds(chars)
  PROVE  /\ PaddedToBytes(BlPart(chars)) \in Seq(Nat)
         /\ Len(PaddedToBytes(BlPart(chars))) = align(section.width, Byte)
<1>1. section.width \in Nat /\ section.length \in Nat
  BY DEF TypeOK, Section
<1>2. Len(chars) \in Nat /\ section.width <= Len(chars)
  BY <1>1 DEF WlLineHolds
<1>3. /\ SubSeq(chars, 1, section.width) \in Seq(STRING)
      /\ Len(SubSeq(chars, 1, section.width)) = section.width
  BY <1>1, <1>2, SubSeqProperties, SMT
<1>4. BlPart(chars) \in Seq(STRING) /\ Len(BlPart(chars)) = section.width
  BY <1>3, InOrderFacts DEF BlPart
<1> QED
  BY <1>4, PaddedFacts

LEMMA WordLineKeeps ==
  ASSUME IInv, FirstWl \/ NextWl
  PROVE  IInv'
<1>1. NextLine /\ pc = "fcb"
  BY DEF FirstWl, NextWl, AtData
<1>2. Here \in Line
  BY <1>1, HereIsALine DEF NextLine, IInv
<1>3. CASE Refused
  BY <1>1, <1>3, RefusedKeeps
<1>4. CASE /\ Here.key = "data" /\ HeaderKnown /\ WlLineHolds(Here.chars)
           /\ Taken(PaddedToBytes(BlPart(Here.chars)))
  <2>1. Here.chars \in Seq(STRING) /\ TypeOK
    BY <1>2, <1>4, KindsOfLine DEF IInv
  <2>2. /\ PaddedToBytes(BlPart(Here.chars)) \in Seq(Nat)
        /\ Len(PaddedToBytes(BlPart(Here.chars))) = align(section.width, Byte)
    BY <1>4, <2>1, BlPartFacts
  <2> QED
    BY <1>1, <1>4, <2>2, TakenKeeps
<1>5. NextWl => HeaderKnown
  BY <1>1 DEF NextWl, IInv, LinesTaken, Texts
<1>6. CASE FirstWl
  BY <1>3, <1>4, <1>6 DEF FirstWl
<1>7. CASE NextWl
  BY <1>3, <1>4, <1>5, <1>7 DEF NextWl
<1> QED
  BY <1>6, <1>7

LEMMA IcbLineKeeps ==
  ASSUME IInv, IcbLine
  PROVE  IInv'
<1>1. NextLine /\ pc # "fcb"
  BY DEF IcbLine, AtData
<1>2. CASE Refused
  BY <1>1, <1>2, RefusedKeeps
<1>3. CASE Taken(<<Bit(Here.chars[1])>>)
  <2>1. <<Bit(Here.chars[1])>> \in Seq(Nat) /\ Len(<<Bit(Here.chars[1])>>) = 1
    BY DEF Bit, Zero
  <2> QED
    BY <1>1, <1>3, <2>1, TakenKeeps
<1> QED
  BY <1>2, <1>3 DEF IcbLine

(***************************************************************************)
(* The ends of the texts                                                    *)
(***************************************************************************)
LEMMA NewTextFacts ==
  ASSUME NewText
  PROVE  /\ index' \in Nat /\ line_tracking' \in 0 .. 2 /\ data_line' \in Nat
         /\ section' \in Section
         /\ pc' \in Texts => LinesTaken'
<1>1. << >> \in Seq(Nat) /\ Len(<< >>) = 0
  BY EmptySeq
<1>2. section' \in Section /\ section'.data = << >> /\ section'.width = 0
  BY <1>1 DEF NewText, NoSection, Section
<1>3. align(0, Byte) \in Nat
  BY AlignFacts, GeminiConstants
<1>4. 0 = 0 * align(0, Byte)
  BY <1>3
<1> QED
  BY <1>1, <1>2, <1>4 DEF NewText, LinesTaken

LEMMA EndOfFcbKeeps ==
  ASSUME IInv, EndOfFcb
  PROVE  IInv'
<1>1. pc = "fcb" /\ project' = project /\ TypeOK /\ LinesTaken /\ PartsHold
  BY DEF EndOfFcb, AtEnd, IInv, Texts, Busy
<1>2. CASE Abort
  BY <1>1, <1>2 DEF Abort, IInv, TypeOK, Texts, Busy, reader
<1>3. CASE /\ HeaderKnown /\ CountHolds /\ pc' = "icb" /\ NewText
           /\ bitobj' = [bitobj EXCEPT !.fcb = section]
  <2>1. /\ bitobj' \in Object /\ bitobj'.fcb = section /\ bitobj'.icb = NoIcb
        /\ bitobj'.post_icb = NoIcb /\ bitobj'.family = bitobj.family
        /\ bitobj'.protocol = bitobj.protocol /\ bitobj'.blwl = bitobj.blwl
    BY <1>1, <1>3 DEF TypeOK, Object, PartsHold, Texts
  <2>2. /\ section.length \in Nat /\ section.width \in Nat
        /\ align(section.width, Byte) \in Nat
    BY <1>1, AlignFacts, GeminiConstants DEF TypeOK, Section
  <2>3. Len(section.data) = section.length * align(section.width, Byte)
    BY <1>1, <1>3 DEF LinesTaken, CountHolds
  <2>4. section.length * align(section.width, Byte) = align(section.width, Byte) * section.length
    BY <2>2
  <2>5. SupportedDevice(bitobj')
    BY <1>1, <2>1 DEF PartsHold, SupportedDevice
  <2>6. FcbHolds(bitobj')
    BY <1>3, <2>1, <2>3, <2>4, <2>5
       DEF FcbHolds, ScanChainHolds, MembankHolds, HeaderKnown, SupportedDevice
  <2>7. FirstIcbHolds(bitobj')
    BY <2>1 DEF FirstIcbHolds, NoIcb
  <2>8. PartsHold'
    BY <1>1, <1>3, <2>1, <2>5, <2>6, <2>7 DEF PartsHold, Texts
  <2>9. TypeOK'
    BY <1>1, <1>3, <2>1, NewTextFacts DEF TypeOK
  <2> QED
    BY <1>3, <2>8, <2>9, NewTextFacts DEF IInv
<1> QED
  BY <1>2, <1>3 DEF EndOfFcb

(* The object of an ICB has its bits in whole bytes.                        *)
LEMMA IcbOfFacts ==
  ASSUME NEW s \in Section, s.length > 0, Len(s.data) = s.length
  PROVE  /\ IcbOf(s) \in Icb /\ IcbOf(s).bits = s.length /\ IcbHolds(IcbOf(s))
<1>1. s.length \in Nat /\ s.data \in Seq(Nat)
  BY DEF Section
<1>2. align(s.length, Byte) \in Nat /\ align(s.length, Byte) - s.length \in Nat
  <2>1. align(s.length, Byte) \in Nat /\ align(s.length, Byte) >= s.length
    BY <1>1, AlignFacts, GeminiConstants
  <2> QED
    BY <1>1, <2>1
<1> DEFINE zeros == Zeros(align(s.length, Byte) - s.length)
<1>3. zeros \in Seq(Nat) /\ Len(zeros) = align(s.length, Byte) - s.length
  BY <1>2, ZerosFacts
<1>4. /\ s.data \o zeros \in Seq(Nat)
      /\ Len(s.data \o zeros) = Len(s.data) + Len(zeros)
  BY <1>1, <1>3, ConcatProperties
<1>5. IcbOf(s) = [bits |-> s.length, data |-> s.data \o zeros]
  BY DEF IcbOf
<1> HIDE DEF zeros
<1>6. Len(s.data \o zeros) = align(s.length, Byte)
  BY <1>1, <1>2, <1>3, <1>4
<1> QED
  BY <1>1, <1>4, <1>5, <1>6 DEF Icb, IcbHolds

LEMMA EndOfIcbKeeps ==
  ASSUME IInv, EndOfIcb
  PROVE  IInv'
<1>1. pc = "icb" /\ project' = project /\ TypeOK /\ LinesTaken /\ PartsHold
  BY DEF EndOfIcb, AtEnd, IInv, Texts, Busy
<1>2. CASE Abort
  BY <1>1, <1>2 DEF Abort, IInv, TypeOK, Texts, Busy, reader
<1>3. ASSUME pc' = "post_icb", NewText, bitobj' \in Object,
             bitobj'.family = bitobj.family, SupportedDevice(bitobj'), FcbHolds(bitobj'),
             bitobj'.post_icb = NoIcb, FirstIcbHolds(bitobj')
      PROVE  IInv'
  <2>1. PartsHold'
    BY <1>1, <1>3 DEF PartsHold, Texts
  <2>2. TypeOK'
    BY <1>1, <1>3, NewTextFacts DEF TypeOK
  <2> QED
    BY <1>3, <2>1, <2>2, NewTextFacts DEF IInv
<1>4. CASE pc' = "post_icb" /\ NewText /\ bitobj' = bitobj
  <2>1. bitobj \in Object
    BY <1>1 DEF TypeOK
  <2>2. /\ SupportedDevice(bitobj) /\ FcbHolds(bitobj) /\ bitobj.post_icb = NoIcb
        /\ FirstIcbHolds(bitobj)
    BY <1>1 DEF PartsHold, Texts
  <2> QED
    BY <1>3, <1>4, <2>1, <2>2
<1>5. CASE /\ CountHolds /\ pc' = "post_icb" /\ NewText
           /\ bitobj' = [bitobj EXCEPT !.icb = IcbOf(section)]
  <2>1. section \in Section /\ section.length > 0 /\ Len(section.data) = section.length
    BY <1>1, <1>5 DEF TypeOK, CountHolds, LinesTaken
  <2>2. IcbOf(section) \in Icb /\ IcbOf(section).bits > 0 /\ IcbHolds(IcbOf(section))
    BY <2>1, IcbOfFacts
  <2>3. /\ bitobj' \in Object /\ bitobj'.icb = IcbOf(section)
        /\ bitobj'.post_icb = NoIcb /\ bitobj'.family = bitobj.family
        /\ bitobj'.protocol = bitobj.protocol /\ bitobj'.blwl = bitobj.blwl
        /\ bitobj'.fcb = bitobj.fcb
    BY <1>1, <1>5, <2>2 DEF TypeOK, Object, PartsHold, Texts
  <2>4. SupportedDevice(bitobj') /\ FcbHolds(bitobj') /\ FirstIcbHolds(bitobj')
    BY <1>1, <2>2, <2>3 DEF PartsHold, SupportedDevice, FcbHolds, FirstIcbHolds
  <2> QED
    BY <1>3, <1>5, <2>3, <2>4
<1> QED
  BY <1>2, <1>4, <1>5 DEF EndOfIcb

LEMMA EndOfPostIcbKeeps ==
  ASSUME IInv, EndOfPostIcb
  PROVE  IInv'
<1>1. pc = "post_icb" /\ project' = project /\ TypeOK /\ LinesTaken /\ PartsHold
  BY DEF EndOfPostIcb, AtEnd, IInv, Texts, Busy
<1>2. CASE Abort
  BY <1>1, <1>2 DEF Abort, IInv, TypeOK, Texts, Busy, reader
<1>3. ASSUME pc' = "pcb", NewText, bitobj' \in Object,
             bitobj'.family = bitobj.family, SupportedDevice(bitobj'), FcbHolds(bitobj'),
             FirstIcbHolds(bitobj'), BothIcbHold(bitobj')
      PROVE  IInv'
  <2>1. PartsHold'
    BY <1>1, <1>3 DEF PartsHold, Texts
  <2>2. TypeOK'
    BY <1>1, <1>3, NewTextFacts DEF TypeOK
  <2> QED
    BY <1>3, <2>1, <2>2 DEF IInv, Texts
<1>4. CASE pc' = "pcb" /\ NewText /\ bitobj' = bitobj
  <2>1. bitobj \in Object
    BY <1>1 DEF TypeOK
  <2>2. /\ SupportedDevice(bitobj) /\ FcbHolds(bitobj) /\ bitobj.post_icb = NoIcb
        /\ FirstIcbHolds(bitobj)
    BY <1>1 DEF PartsHold, Texts
  <2>3. BothIcbHold(bitobj)
    BY <2>2 DEF BothIcbHold, FirstIcbHolds, NoIcb
  <2> QED
    BY <1>3, <1>4, <2>1, <2>2, <2>3
<1>5. CASE /\ CountHolds /\ section.length = bitobj.icb.bits /\ pc' = "pcb" /\ NewText
           /\ bitobj' = [bitobj EXCEPT !.post_icb = IcbOf(section)]
  <2>1. section \in Section /\ section.length > 0 /\ Len(section.data) = section.length
    BY <1>1, <1>5 DEF TypeOK, CountHolds, LinesTaken
  <2>2. /\ IcbOf(section) \in Icb /\ IcbOf(section).bits = section.length
        /\ IcbHolds(IcbOf(section))
    BY <2>1, IcbOfFacts
  <2>3. /\ bitobj' \in Object /\ bitobj'.post_icb = IcbOf(section)
        /\ bitobj'.icb = bitobj.icb /\ bitobj'.family = bitobj.family
        /\ bitobj'.protocol = bitobj.protocol /\ bitobj'.blwl = bitobj.blwl
        /\ bitobj'.fcb = bitobj.fcb
    BY <1>1, <1>5, <2>2 DEF TypeOK, Object
  <2>4. SupportedDevice(bitobj') /\ FcbHolds(bitobj') /\ FirstIcbHolds(bitobj')
    BY <1>1, <2>3 DEF PartsHold, SupportedDevice, FcbHolds, FirstIcbHolds
  <2>5. BothIcbHold(bitobj')
    BY <1>5, <2>1, <2>2, <2>3, <2>4 DEF BothIcbHold, FirstIcbHolds, IcbHolds
  <2> QED
    BY <1>3, <1>5, <2>3, <2>4, <2>5
<1> QED
  BY <1>2, <1>4, <1>5 DEF EndOfPostIcb

(***************************************************************************)
(* The RAMs                                                                 *)
(***************************************************************************)
LEMMA RamDataFacts ==
  ASSUME NEW grid, grid.data \in Seq(Nat), RamHolds(grid)
  PROVE  RamData(grid) \in Seq(Nat) /\ Len(RamData(grid)) = align(PcbBits, Byte) /\ PcbBits \in Nat
<1>1. PcbBits \in Nat
  BY GeminiConstants DEF PcbBits
<1>2. align(PcbBits, Byte) \in Nat /\ align(PcbBits, Byte) - PcbBits \in Nat
  <2>1. align(PcbBits, Byte) \in Nat /\ align(PcbBits, Byte) >= PcbBits
    BY <1>1, AlignFacts, GeminiConstants
  <2> QED
    BY <1>1, <2>1
<1>3. CASE grid.data = << >>
  BY <1>1, <1>2, <1>3, ZerosFacts DEF RamData
<1>4. CASE grid.data # << >>
  <2> DEFINE zeros == Zeros(align(PcbBits, Byte) - PcbBits)
             bits == Reverse(grid.data)
  <2>1. zeros \in Seq(Nat) /\ Len(zeros) = align(PcbBits, Byte) - PcbBits
    BY <1>2, ZerosFacts
  <2>2. bits \in Seq(Nat) /\ Len(bits) = PcbBits
    BY <1>4, ReverseFacts DEF RamHolds
  <2>3. RamData(grid) = bits \o zeros
    BY <1>4 DEF RamData
  <2> HIDE DEF zeros, bits
  <2>4. bits \o zeros \in Seq(Nat) /\ Len(bits \o zeros) = Len(bits) + Len(zeros)
    BY <2>1, <2>2, ConcatProperties
  <2> QED
    BY <1>1, <1>2, <2>1, <2>2, <2>3, <2>4
<1> QED
  BY <1>3, <1>4

LEMMA get_pcbKeeps ==
  ASSUME IInv, get_pcb
  PROVE  IInv'
<1>1. pc = "pcb" /\ project' = project /\ TypeOK /\ PartsHold
  BY DEF get_pcb, IInv, Texts, Busy
<1>2. CASE Abort
  BY <1>1, <1>2 DEF Abort, IInv, TypeOK, Texts, Busy, reader
<1> DEFINE grid == project.bram.grid
           ram(k) == [ x |-> grid[k].x, y |-> grid[k].y, bits |-> PcbBits,
                       data |-> RamData(grid[k]) ]
           rams == [k \in DOMAIN grid |-> ram(k)]
<1>3. CASE /\ \A k \in DOMAIN grid : RamHolds(grid[k])
           /\ pc' = "write" /\ UNCHANGED reader
           /\ bitobj' = [bitobj EXCEPT !.pcb = rams]
  <2>1. grid \in Seq([x : Nat, y : Nat, data : Seq(Nat)])
    BY <1>1 DEF TypeOK, Project, Grid
  <2>2. /\ Len(grid) \in Nat /\ DOMAIN grid = 1 .. Len(grid)
        /\ \A k \in DOMAIN grid : grid[k] \in [x : Nat, y : Nat, data : Seq(Nat)]
    BY <2>1, LenProperties, ElementOfSeq
  <2>3. \A k \in DOMAIN grid : /\ ram(k) \in [x : Nat, y : Nat, bits : Nat, data : Seq(Nat)]
                               /\ ram(k).bits = PcbBits
                               /\ Len(ram(k).data) = align(PcbBits, Byte)
    BY <1>3, <2>2, RamDataFacts
  <2>4. rams \in [1 .. Len(grid) -> [x : Nat, y : Nat, bits : Nat, data : Seq(Nat)]]
    BY <2>2, <2>3
  <2>5. rams \in Rams
    BY <2>2, <2>4, LenOfFunction DEF Rams
  <2>6. PcbHolds(rams)
    BY <2>2, <2>3 DEF PcbHolds
  <2> HIDE DEF rams
  <2>7. /\ bitobj' \in Object /\ bitobj'.pcb = rams
        /\ bitobj'.icb = bitobj.icb /\ bitobj'.post_icb = bitobj.post_icb
        /\ bitobj'.family = bitobj.family /\ bitobj'.protocol = bitobj.protocol
        /\ bitobj'.blwl = bitobj.blwl /\ bitobj'.fcb = bitobj.fcb
    BY <1>1, <1>3, <2>5 DEF TypeOK, Object
  <2>8. /\ SupportedDevice(bitobj') /\ FcbHolds(bitobj') /\ FirstIcbHolds(bitobj')
        /\ BothIcbHold(bitobj')
    BY <1>1, <2>7
       DEF PartsHold, SupportedDevice, FcbHolds, FirstIcbHolds, BothIcbHold, Texts
  <2>9. PartsHold'
    BY <1>1, <1>3, <2>6, <2>7, <2>8 DEF PartsHold, Texts
  <2>10. TypeOK'
    BY <1>1, <1>3, <2>7 DEF TypeOK, reader
  <2> QED
    BY <1>3, <2>9, <2>10 DEF IInv, Texts
<1> QED
  BY <1>2, <1>3 DEF get_pcb

(***************************************************************************)
(* The files, and a new run                                                 *)
(***************************************************************************)
LEMMA writeKeeps ==
  ASSUME IInv, write
  PROVE  IInv'
  BY DEF write, IInv, TypeOK, PartsHold, Texts, Busy, reader

LEMMA BitGenerator_entryKeeps ==
  ASSUME IInv, BitGenerator_entry
  PROVE  IInv'
<1>1. pc = "generate" /\ bitasm = {bitobj} /\ TypeOK /\ PartsHold
  BY DEF BitGenerator_entry, IInv, Busy
<1>2. UNCHANGED <<project, reader, bitobj>>
  BY DEF BitGenerator_entry
<1>3. /\ pc' \in {"success", "not_written", "refused"}
      /\ pc' = "refused" => ~Generates(bitobj)
  BY <1>1 DEF BitGenerator_entry
<1>4. AssertionsHold(bitobj)
  BY <1>1, GenerateAsserts DEF PartsHold, TypeOK, Texts
<1>5. pc' = "refused" => project.device.family \notin Families
  BY <1>1, <1>3, <1>4 DEF Generates, PartsHold
<1>6. TypeOK'
  BY <1>1, <1>2 DEF TypeOK, reader
<1> QED
  BY <1>2, <1>3, <1>5, <1>6 DEF IInv, Texts, Busy

LEMMA NoObjectType == NoObject \in Object
<1>1. << >> \in Seq(Nat) /\ << >> \in Rams
  BY EmptySeq DEF Rams
<1>2. NoSection \in Section /\ NoIcb \in Icb
  BY <1>1 DEF NoSection, NoIcb, Section, Icb
<1> QED
  BY <1>1, <1>2 DEF NoObject, Object, Name

LEMMA BitAssembler_entryKeeps ==
  ASSUME IInv, NEW p \in Project, BitAssembler_entry(p)
  PROVE  IInv'
<1>1. project' = p /\ NewText
  BY DEF BitAssembler_entry
<1>2. /\ bitobj' \in Object /\ bitobj'.icb = NoIcb /\ bitobj'.post_icb = NoIcb
      /\ bitobj'.family = p.device.family /\ bitobj'.protocol = p.device.protocol
      /\ bitobj'.blwl = p.device.blwl
  <2>1. p.device \in Device
    BY DEF Project
  <2>2. bitobj' = [ NoObject EXCEPT !.family = p.device.family,
                      !.protocol = p.device.protocol, !.blwl = p.device.blwl ]
    BY DEF BitAssembler_entry
  <2>3. NoObject.icb = NoIcb /\ NoObject.post_icb = NoIcb
    BY DEF NoObject
  <2> QED
    BY <2>1, <2>2, <2>3, NoObjectType DEF Device, Object, Name
<1>3. TypeOK'
  BY <1>1, <1>2, NewTextFacts DEF TypeOK
<1>4. CASE pc' = "aborted"
  BY <1>3, <1>4 DEF IInv, Texts, Busy
<1>5. CASE pc' = "fcb" /\ SupportedDevice(p.device)
  <2>1. SupportedDevice(bitobj')
    BY <1>2, <1>5 DEF SupportedDevice
  <2>2. PartsHold'
    BY <1>1, <1>2, <1>5, <2>1 DEF PartsHold, Texts
  <2> QED
    BY <1>1, <1>3, <1>5, <2>2, NewTextFacts DEF IInv
<1> QED
  BY <1>4, <1>5 DEF BitAssembler_entry

LEMMA InitInv == Init => IInv
<1> SUFFICES ASSUME Init PROVE IInv
  OBVIOUS
<1>1. project \in Project
  BY AssemblerConstants DEF Init
<1>2. section \in Section
  BY EmptySeq DEF Init, NoSection, Section
<1>3. bitobj \in Object
  BY NoObjectType DEF Init
<1> QED
  BY <1>1, <1>2, <1>3 DEF Init, IInv, TypeOK, Texts, Busy

LEMMA NextInv == IInv /\ [Next]_vars => IInv'
<1> SUFFICES ASSUME IInv, [Next]_vars PROVE IInv'
  OBVIOUS
<1>1. CASE clean
  BY <1>1 DEF clean, IInv, TypeOK, Texts, Busy, reader
<1>2. CASE \E p \in Offered : BitAssembler_entry(p)
  <2>1. Offered \subseteq Project
    BY AssemblerConstants DEF Offered
  <2> QED
    BY <1>2, <2>1, BitAssembler_entryKeeps
<1>3. CASE ReadLine
  BY <1>3, HeaderLines, ScanChainLineKeeps, WordLineKeeps, IcbLineKeeps DEF ReadLine
<1>4. CASE EndText
  BY <1>4, EndOfFcbKeeps, EndOfIcbKeeps, EndOfPostIcbKeeps DEF EndText
<1>5. CASE get_pcb \/ write \/ BitGenerator_entry
  BY <1>5, get_pcbKeeps, writeKeeps, BitGenerator_entryKeeps
<1>6. CASE UNCHANGED vars
  BY <1>6 DEF vars, reader, files, IInv, TypeOK, LinesTaken, HeaderKnown, PartsHold
<1> QED
  BY <1>1, <1>2, <1>3, <1>4, <1>5, <1>6 DEF Next, Assemble

(* Whatever the compiler left, what the assembler accepts the generator     *)
(* takes: no assertion of generate, of icb_generate or of the lengths of an *)
(* action can fail on a .bitasm file this program wrote, and a run is       *)
(* refused for the family of the device only.                               *)
THEOREM AssembledIsGenerated == Spec => []GeneratorTakesIt
<1>1. Init => IInv
  BY InitInv
<1>2. IInv /\ [Next]_vars => IInv'
  BY NextInv
<1>3. IInv => GeneratorTakesIt
  BY DEF IInv, GeneratorTakesIt
<1> QED
  BY <1>1, <1>2, <1>3, PTL DEF Spec

(***************************************************************************)
(* What the text says                                                       *)
(***************************************************************************)
(* The lines of data among the first n lines.                               *)
DataUpTo(text, n) == {q \in DataIn(text) : q <= n}

LEMMA DataUpToFacts ==
  ASSUME NEW text \in AnyText, NEW n \in Nat
  PROVE  /\ DataIn(text) \subseteq 1 .. Len(text.lines)
         /\ IsFiniteSet(DataUpTo(text, n))
         /\ Cardinality(DataUpTo(text, n)) \in Nat
         /\ Len(text.lines) \in Nat
<1>1. text.lines \in Seq(Line)
  BY DEF AnyText
<1>2. Len(text.lines) \in Nat /\ DOMAIN text.lines = 1 .. Len(text.lines)
  BY <1>1, LenProperties
<1>3. DataIn(text) \subseteq 1 .. Len(text.lines)
  BY <1>2 DEF DataIn
<1>4. IsFiniteSet(1 .. Len(text.lines))
  BY <1>2, FS_Interval
<1>5. DataUpTo(text, n) \in SUBSET (1 .. Len(text.lines))
  BY <1>3 DEF DataUpTo
<1>6. IsFiniteSet(DataUpTo(text, n))
  BY <1>4, <1>5, FS_Subset
<1> QED
  BY <1>2, <1>3, <1>6, FS_CardinalityType

(* No line, no data; all lines, all the data.                               *)
LEMMA DataEnds ==
  ASSUME NEW text \in AnyText
  PROVE  /\ DataUpTo(text, 0) = {} /\ Cardinality(DataUpTo(text, 0)) = 0
         /\ DataUpTo(text, Len(text.lines)) = DataIn(text)
<1>1. DataIn(text) \subseteq 1 .. Len(text.lines) /\ Len(text.lines) \in Nat
  BY DataUpToFacts
<1>2. DataUpTo(text, 0) = {} /\ DataUpTo(text, Len(text.lines)) = DataIn(text)
  BY <1>1 DEF DataUpTo
<1> QED
  BY <1>2, FS_EmptySet

(* A line of data is one more.                                              *)
LEMMA OneMoreLine ==
  ASSUME NEW text \in AnyText, NEW n \in 0 .. Len(text.lines) - 1
  PROVE  IF text.lines[n + 1].key = "data"
           THEN /\ DataUpTo(text, n + 1) = DataUpTo(text, n) \union {n + 1}
                /\ Nth(text, n + 1) = Cardinality(DataUpTo(text, n)) + 1
                /\ Cardinality(DataUpTo(text, n + 1)) = Cardinality(DataUpTo(text, n)) + 1
           ELSE DataUpTo(text, n + 1) = DataUpTo(text, n)
<1>1. /\ DataIn(text) \subseteq 1 .. Len(text.lines) /\ Len(text.lines) \in Nat
      /\ n \in Nat /\ n + 1 \in 1 .. Len(text.lines)
  BY DataUpToFacts
<1>2. DOMAIN text.lines = 1 .. Len(text.lines)
  BY LenProperties DEF AnyText
<1>3. n + 1 \in DataIn(text) <=> text.lines[n + 1].key = "data"
  BY <1>1, <1>2 DEF DataIn
<1>4. CASE text.lines[n + 1].key = "data"
  <2>1. DataUpTo(text, n + 1) = DataUpTo(text, n) \union {n + 1}
    BY <1>1, <1>3, <1>4 DEF DataUpTo
  <2>2. n + 1 \notin DataUpTo(text, n)
    BY <1>1 DEF DataUpTo
  <2>3. IsFiniteSet(DataUpTo(text, n))
    BY <1>1, DataUpToFacts
  <2>4. Cardinality(DataUpTo(text, n) \union {n + 1}) = Cardinality(DataUpTo(text, n)) + 1
    BY <2>2, <2>3, FS_AddElement
  <2>5. Nth(text, n + 1) = Cardinality(DataUpTo(text, n + 1))
    BY DEF Nth, DataUpTo
  <2> QED
    BY <1>4, <2>1, <2>4, <2>5
<1>5. CASE text.lines[n + 1].key # "data"
  <2>1. DataUpTo(text, n + 1) = DataUpTo(text, n)
    BY <1>1, <1>3, <1>5 DEF DataUpTo
  <2> QED
    BY <1>5, <2>1
<1> QED
  BY <1>4, <1>5

(* The lines are numbered from 1 on.                                        *)
LEMMA NthFacts ==
  ASSUME NEW text \in AnyText, NEW n \in Nat, NEW p \in DataUpTo(text, n)
  PROVE  /\ Nth(text, p) \in 1 .. Cardinality(DataUpTo(text, n))
         /\ p \in 1 .. Len(text.lines) /\ text.lines[p].key = "data"
         /\ CharsAt(text, p) \in Seq(STRING)
<1>1. p \in 1 .. Len(text.lines) /\ text.lines[p].key = "data" /\ p <= n /\ p \in Nat
  <2>1. p \in DataIn(text) /\ p <= n
    BY DEF DataUpTo
  <2>2. p \in 1 .. Len(text.lines) /\ Len(text.lines) \in Nat
    BY <2>1, DataUpToFacts
  <2> QED
    BY <2>1, <2>2 DEF DataIn
<1>2. Nth(text, p) = Cardinality(DataUpTo(text, p))
  BY DEF Nth, DataUpTo
<1>3. /\ IsFiniteSet(DataUpTo(text, p)) /\ IsFiniteSet(DataUpTo(text, n))
      /\ Cardinality(DataUpTo(text, p)) \in Nat
      /\ Cardinality(DataUpTo(text, n)) \in Nat
      /\ DataIn(text) \subseteq Nat
  BY <1>1, DataUpToFacts
<1>4. p \in DataUpTo(text, p) /\ DataUpTo(text, p) \in SUBSET DataUpTo(text, n)
  BY <1>1, <1>3 DEF DataUpTo
<1>5. Cardinality(DataUpTo(text, p)) # 0
  BY <1>3, <1>4, FS_EmptySet
<1>6. Cardinality(DataUpTo(text, p)) <= Cardinality(DataUpTo(text, n))
  BY <1>3, <1>4, FS_Subset
<1>7. text.lines[p] \in Line
  BY <1>1, ElementOfSeq DEF AnyText
<1>8. CharsAt(text, p) \in Seq(STRING)
  BY <1>1, <1>7, KindsOfLine DEF CharsAt
<1> QED
  BY <1>1, <1>2, <1>3, <1>5, <1>6, <1>8

(* Each number has a line.                                                  *)
Numbered(text, n) ==
  \A m \in 1 .. Cardinality(DataUpTo(text, n)) : \E p \in DataUpTo(text, n) : Nth(text, p) = m

LEMMA NumberedGrows ==
  ASSUME NEW text \in AnyText, NEW n \in 0 .. Len(text.lines) - 1, Numbered(text, n)
  PROVE  Numbered(text, n + 1)
<1>1. n \in Nat /\ Cardinality(DataUpTo(text, n)) \in Nat
  BY DataUpToFacts
<1>2. CASE text.lines[n + 1].key = "data"
  <2>1. /\ DataUpTo(text, n + 1) = DataUpTo(text, n) \union {n + 1}
        /\ Nth(text, n + 1) = Cardinality(DataUpTo(text, n)) + 1
        /\ Cardinality(DataUpTo(text, n + 1)) = Cardinality(DataUpTo(text, n)) + 1
    BY <1>2, OneMoreLine
  <2> QED
    BY <1>1, <2>1 DEF Numbered
<1>3. CASE text.lines[n + 1].key # "data"
  <2>1. DataUpTo(text, n + 1) = DataUpTo(text, n)
    BY <1>3, OneMoreLine
  <2> QED
    BY <2>1 DEF Numbered
<1> QED
  BY <1>2, <1>3

(* The only line that gives a width among the first n gives this one.       *)
HeaderTold(s, text, n, order) ==
  LET widths == {p \in 1 .. n : text.lines[p].key = "width"}
  IN  IF s.width = 0 THEN widths = {}
      ELSE \E w \in widths :
             /\ widths = {w}
             /\ text.lines[w].number = s.width /\ text.lines[w].lsb = order

(* Line p is in the section, in its place.                                  *)
FcbLine(s, text, p, order) ==
  LET chars == CharsAt(text, p)
      row == align(s.width, Byte)
      from == (Nth(text, p) - 1) * row
  IN  /\ \A k \in 1 .. s.width :
           s.data[from + k] = Bit(chars[IF order THEN k ELSE s.width + 1 - k])
      /\ \A k \in s.width + 1 .. row : s.data[from + k] = Zero

(* Line p selects the word line whose turn it is.                           *)
WlLine(s, text, p, order, up) ==
  LET chars == CharsAt(text, p)
  IN  {k \in 1 .. Len(chars) - s.width :
         chars[IF order THEN s.width + k ELSE Len(chars) + 1 - k] = "1"}
        = {IF up THEN Nth(text, p) ELSE s.length + 1 - Nth(text, p)}

FcbTold(s, text, n, order, up, bank) ==
  /\ HeaderTold(s, text, n, order)
  /\ \A p \in DataUpTo(text, n) :
       FcbLine(s, text, p, order) /\ (bank => WlLine(s, text, p, order, up))

BitLine(s, text, p) ==
  /\ CharsAt(text, p) \in {<<"0">>, <<"1">>}
  /\ s.data[Nth(text, p)] = Bit(CharsAt(text, p)[1])

IcbTold(s, text, n) ==
  Numbered(text, n) /\ \A p \in DataUpTo(text, n) : BitLine(s, text, p)

(* A line that is no data, in a text of an FCB.                             *)
LEMMA NoDataInFcb ==
  ASSUME NEW text \in AnyText, NEW n \in 0 .. Len(text.lines) - 1,
         NEW s \in Section, NEW order, NEW up, NEW bank,
         FcbTold(s, text, n, order, up, bank),
         text.lines[n + 1].key \notin {"data", "width"},
         NEW t \in Section, t.width = s.width, t.data = s.data,
         t = s \/ DataUpTo(text, n) = {}
  PROVE  FcbTold(t, text, n + 1, order, up, bank)
<1>1. n \in Nat /\ DataUpTo(text, n + 1) = DataUpTo(text, n)
  BY OneMoreLine
<1>2. {p \in 1 .. n + 1 : text.lines[p].key = "width"} =
        {p \in 1 .. n : text.lines[p].key = "width"}
  BY <1>1
<1>3. HeaderTold(t, text, n + 1, order)
  <2>1. HeaderTold(s, text, n, order)
    BY DEF FcbTold
  <2> QED
    BY <1>2, <2>1 DEF HeaderTold
<1>4. CASE t = s
  BY <1>1, <1>3, <1>4 DEF FcbTold
<1>5. CASE DataUpTo(text, n) = {}
  BY <1>1, <1>3, <1>5 DEF FcbTold
<1> QED
  BY <1>4, <1>5

(* The line with the width.                                                 *)
LEMMA WidthInFcb ==
  ASSUME NEW text \in AnyText, NEW n \in 0 .. Len(text.lines) - 1,
         NEW s \in Section, NEW order, NEW up, NEW bank,
         FcbTold(s, text, n, order, up, bank), s.width = 0,
         text.lines[n + 1].key = "width",
         NEW t \in Section, t.width = text.lines[n + 1].number, t.width # 0,
         DataUpTo(text, n) = {}
  PROVE  FcbTold(t, text, n + 1, text.lines[n + 1].lsb, up, bank)
<1>1. n \in Nat /\ DataUpTo(text, n + 1) = {}
  BY OneMoreLine
<1>2. {p \in 1 .. n : text.lines[p].key = "width"} = {}
  BY DEF FcbTold, HeaderTold
<1>3. {p \in 1 .. n + 1 : text.lines[p].key = "width"} = {n + 1}
  BY <1>1, <1>2
<1>4. HeaderTold(t, text, n + 1, text.lines[n + 1].lsb)
  BY <1>3 DEF HeaderTold
<1> QED
  BY <1>1, <1>4 DEF FcbTold

(* What was put in its place stays there when bits are appended.            *)
LEMMA PlaceInRows ==
  ASSUME NEW count \in Nat, NEW m \in 1 .. count, NEW row \in Nat, NEW k \in 1 .. row
  PROVE  (m - 1) * row + k \in 1 .. count * row
<1>1. m - 1 \in Nat /\ (m - 1) * row \in Nat
  OBVIOUS
<1>2. m * row <= count * row
  <2>1. PICK d \in Nat : count = m + d
    <3>1. count - m \in Nat
      OBVIOUS
    <3> QED
      BY <3>1
  <2>2. m \in Nat /\ d * row \in Nat /\ (m + d) * row = m * row + d * row
    BY <2>1
  <2> QED
    BY <2>1, <2>2
<1>3. m * row = (m - 1) * row + row
  <2>1. m \in Nat
    OBVIOUS
  <2> QED
    BY <2>1
<1> QED
  BY <1>1, <1>2, <1>3

(* Where the elements of two sequences are when they are joined.            *)
LEMMA JoinedAt ==
  ASSUME NEW S, NEW s \in Seq(S), NEW t \in Seq(S), NEW n, n = Len(s)
  PROVE  /\ \A j \in 1 .. n : (s \o t)[j] = s[j]
         /\ \A k \in 1 .. Len(t) : (s \o t)[n + k] = t[k]
<1> DEFINE u == s \o t
           m == Len(t)
<1>1. n \in Nat /\ m \in Nat
  BY LenProperties
<1>2. \A j \in 1 .. n + m : u[j] = IF j <= n THEN s[j] ELSE t[j - n]
  BY ConcatProperties
<1> HIDE DEF u, m
<1>3. \A j \in 1 .. n : u[j] = s[j]
  BY <1>1, <1>2
<1>4. ASSUME NEW k \in 1 .. m
      PROVE  u[n + k] = t[k]
  <2>1. n + k \in 1 .. n + m /\ ~(n + k <= n) /\ (n + k) - n = k
    BY <1>1
  <2> QED
    BY <1>2, <2>1
<1> QED
  BY <1>3, <1>4 DEF u, m

(* A line of data of an FCB, with its bits appended.                        *)
LEMMA DataInFcb ==
  ASSUME NEW text \in AnyText, NEW n \in 0 .. Len(text.lines) - 1,
         NEW s \in Section, NEW order, NEW up, NEW up1, NEW bank,
         FcbTold(s, text, n, order, up, bank),
         text.lines[n + 1].key = "data",
         NEW bits \in Seq(Nat),
         Len(s.data) = Cardinality(DataUpTo(text, n)) * align(s.width, Byte),
         Len(bits) = align(s.width, Byte),
         \A k \in 1 .. s.width :
           bits[k] = Bit(CharsAt(text, n + 1)[IF order THEN k ELSE s.width + 1 - k]),
         \A k \in s.width + 1 .. align(s.width, Byte) : bits[k] = Zero,
         NEW t \in Section, t.width = s.width, t.length = s.length, t.data = s.data \o bits,
         bank => WlLine(s, text, n + 1, order, up1),
         up1 = up \/ Cardinality(DataUpTo(text, n)) = 0
  PROVE  FcbTold(t, text, n + 1, order, up1, bank)
<1> DEFINE count == Cardinality(DataUpTo(text, n))
           row == align(s.width, Byte)
<1>1. /\ n \in Nat /\ count \in Nat
      /\ DataUpTo(text, n + 1) = DataUpTo(text, n) \union {n + 1}
      /\ Nth(text, n + 1) = count + 1
  <2>1. n \in Nat
    OBVIOUS
  <2>2. count \in Nat
    BY <2>1, DataUpToFacts
  <2> QED
    BY <2>1, <2>2, OneMoreLine
<1>2. s.width \in Nat /\ row \in Nat /\ row >= s.width /\ s.data \in Seq(Nat)
  <2>1. s.width \in Nat /\ s.data \in Seq(Nat)
    BY DEF Section
  <2> QED
    BY <2>1, AlignFacts, GeminiConstants
<1>3. {p \in 1 .. n + 1 : text.lines[p].key = "width"} =
        {p \in 1 .. n : text.lines[p].key = "width"}
  BY <1>1
<1>4. HeaderTold(t, text, n + 1, order)
  <2>1. HeaderTold(s, text, n, order)
    BY DEF FcbTold
  <2> QED
    BY <1>3, <2>1 DEF HeaderTold
<1> HIDE DEF count, row
<1>5. Len(s.data) = count * row /\ Len(bits) = row /\ count * row \in Nat
  BY <1>1, <1>2 DEF count, row
<1>6. /\ \A j \in 1 .. count * row : t.data[j] = s.data[j]
      /\ \A k \in 1 .. row : t.data[count * row + k] = bits[k]
  <2> DEFINE old == count * row
  <2>1. old \in Nat /\ Len(s.data) = old
    BY <1>5
  <2> HIDE DEF old
  <2>2. /\ \A j \in 1 .. old : t.data[j] = s.data[j]
        /\ \A k \in 1 .. row : t.data[old + k] = bits[k]
    <3> DEFINE d == s.data
    <3>1. d \in Seq(Nat) /\ old = Len(d) /\ t.data = d \o bits /\ Len(bits) = row
      BY <1>2, <1>5, <2>1
    <3> HIDE DEF d
    <3>2. /\ \A j \in 1 .. old : (d \o bits)[j] = d[j]
          /\ \A k \in 1 .. Len(bits) : (d \o bits)[old + k] = bits[k]
      BY <3>1, JoinedAt
    <3> QED
      BY <3>1, <3>2 DEF d
  <2> QED
    BY <2>2 DEF old
<1>7. ASSUME NEW p \in DataUpTo(text, n)
      PROVE  FcbLine(t, text, p, order) /\ (bank => WlLine(t, text, p, order, up1))
  <2>1. Nth(text, p) \in 1 .. count
    BY <1>1, NthFacts DEF count
  <2>2. FcbLine(s, text, p, order) /\ (bank => WlLine(s, text, p, order, up))
    BY DEF FcbTold
  <2>3. \A k \in 1 .. row : (Nth(text, p) - 1) * row + k \in 1 .. count * row
    BY <1>1, <1>2, <2>1, PlaceInRows
  <2>4. ASSUME NEW k \in 1 .. row
        PROVE  t.data[(Nth(text, p) - 1) * row + k] = s.data[(Nth(text, p) - 1) * row + k]
    BY <1>6, <2>3
  <2>5. 1 .. s.width \subseteq 1 .. row /\ s.width + 1 .. row \subseteq 1 .. row
    BY <1>2
  <2>6. FcbLine(t, text, p, order)
    BY <2>2, <2>4, <2>5 DEF FcbLine, row
  <2>7. up1 = up
    BY <1>1, <2>1 DEF count
  <2> QED
    BY <2>2, <2>6, <2>7 DEF WlLine
<1>8. FcbLine(t, text, n + 1, order)
  <2>1. (Nth(text, n + 1) - 1) * row = count * row
    <3>1. Nth(text, n + 1) - 1 = count
      BY <1>1
    <3> QED
      BY <3>1
  <2>2. \A k \in 1 .. row : t.data[(Nth(text, n + 1) - 1) * row + k] = bits[k]
    BY <1>6, <2>1
  <2>3. 1 .. s.width \subseteq 1 .. row /\ s.width + 1 .. row \subseteq 1 .. row
    BY <1>2
  <2> QED
    BY <2>2, <2>3 DEF FcbLine, row
<1>9. bank => WlLine(t, text, n + 1, order, up1)
  BY DEF WlLine
<1> QED
  BY <1>1, <1>4, <1>7, <1>8, <1>9 DEF FcbTold

(* A line that is no data, and one that is, in a text of an ICB.            *)
LEMMA NoDataInIcb ==
  ASSUME NEW text \in AnyText, NEW n \in 0 .. Len(text.lines) - 1,
         NEW s, IcbTold(s, text, n), text.lines[n + 1].key # "data",
         NEW t, t.data = s.data
  PROVE  IcbTold(t, text, n + 1)
<1>1. DataUpTo(text, n + 1) = DataUpTo(text, n)
  BY OneMoreLine
<1> QED
  BY <1>1 DEF IcbTold, BitLine, Numbered

LEMMA DataInIcb ==
  ASSUME NEW text \in AnyText, NEW n \in 0 .. Len(text.lines) - 1,
         NEW s \in Section, IcbTold(s, text, n), text.lines[n + 1].key = "data",
         Len(s.data) = Cardinality(DataUpTo(text, n)),
         CharsAt(text, n + 1) \in {<<"0">>, <<"1">>},
         NEW t, t.data = s.data \o <<Bit(CharsAt(text, n + 1)[1])>>
  PROVE  IcbTold(t, text, n + 1)
<1> DEFINE count == Cardinality(DataUpTo(text, n))
           bit == Bit(CharsAt(text, n + 1)[1])
<1>1. /\ n \in Nat /\ count \in Nat
      /\ DataUpTo(text, n + 1) = DataUpTo(text, n) \union {n + 1}
      /\ Nth(text, n + 1) = count + 1
  <2>1. n \in Nat
    OBVIOUS
  <2>2. count \in Nat
    BY <2>1, DataUpToFacts
  <2> QED
    BY <2>1, <2>2, OneMoreLine
<1>2. s.data \in Seq(Nat) /\ bit \in Nat
  BY DEF Section, Bit, Zero
<1> HIDE DEF bit
<1>3. /\ \A j \in 1 .. count : t.data[j] = s.data[j]
      /\ t.data[count + 1] = bit
  <2>1. t.data = s.data \o <<bit>> /\ <<bit>> \in Seq(Nat) /\ Len(<<bit>>) = 1
    BY <1>2 DEF bit
  <2>2. /\ \A j \in 1 .. count : t.data[j] = s.data[j]
        /\ \A k \in 1 .. 1 : t.data[count + k] = <<bit>>[k]
    BY <1>1, <1>2, <2>1, JoinedAt
  <2> QED
    BY <2>2
<1>4. \A p \in DataUpTo(text, n) : BitLine(t, text, p)
  <2> SUFFICES ASSUME NEW p \in DataUpTo(text, n) PROVE BitLine(t, text, p)
    OBVIOUS
  <2>1. Nth(text, p) \in 1 .. count /\ BitLine(s, text, p)
    BY <1>1, NthFacts DEF IcbTold
  <2> QED
    BY <1>3, <2>1 DEF BitLine
<1>5. BitLine(t, text, n + 1)
  BY <1>1, <1>3 DEF BitLine, bit
<1> QED
  BY <1>1, <1>4, <1>5, NumberedGrows DEF IcbTold

(* The bits of a line of data, and its word line.                           *)
LEMMA PaddedBits ==
  ASSUME NEW chars \in Seq(STRING), NEW n, n = Len(chars)
  PROVE  /\ \A k \in 1 .. n : PaddedToBytes(chars)[k] = Bit(chars[k])
         /\ \A k \in n + 1 .. align(n, Byte) : PaddedToBytes(chars)[k] = Zero
<1> DEFINE bits == [k \in DOMAIN chars |-> Bit(chars[k])]
           more == align(n, Byte) - n
           zeros == Zeros(more)
<1>1. n \in Nat /\ DOMAIN chars = 1 .. n
  BY LenProperties
<1>2. bits \in [1 .. n -> Nat] /\ \A k \in 1 .. n : bits[k] = Bit(chars[k])
  BY <1>1 DEF Bit, Zero
<1>3. bits \in Seq(Nat) /\ Len(bits) = n
  BY <1>1, <1>2, LenOfFunction
<1>4. more \in Nat /\ align(n, Byte) \in Nat
  <2>1. align(n, Byte) \in Nat /\ align(n, Byte) >= n
    BY <1>1, AlignFacts, GeminiConstants
  <2> QED
    BY <1>1, <2>1
<1>5. zeros \in Seq(Nat) /\ Len(zeros) = more /\ \A k \in 1 .. more : zeros[k] = Zero
  BY <1>4, ZerosFacts DEF Zeros
<1>6. PaddedToBytes(chars) = bits \o zeros
  BY DEF PaddedToBytes
<1> HIDE DEF bits, zeros
<1>7. /\ \A k \in 1 .. n : (bits \o zeros)[k] = bits[k]
      /\ \A k \in 1 .. Len(zeros) : (bits \o zeros)[n + k] = zeros[k]
  BY <1>3, <1>5, JoinedAt
<1>8. \A k \in n + 1 .. align(n, Byte) : k - n \in 1 .. more /\ n + (k - n) = k
  BY <1>1, <1>4
<1> QED
  BY <1>2, <1>5, <1>6, <1>7, <1>8

LEMMA InOrderAt ==
  ASSUME NEW S, NEW s \in Seq(S), NEW k \in 1 .. Len(s)
  PROVE  InOrder(s)[k] = s[IF lsb THEN k ELSE Len(s) + 1 - k]
<1>1. Len(s) \in Nat /\ (Len(s) - k) + 1 = Len(s) + 1 - k
  BY LenProperties
<1>2. Reverse(s)[k] = s[(Len(s) - k) + 1]
  BY DEF Reverse
<1> QED
  BY <1>1, <1>2 DEF InOrder

LEMMA ScanChainBits ==
  ASSUME TypeOK, NEW chars \in Seq(STRING), BitlineHolds(chars)
  PROVE  LET bits == PaddedToBytes(InOrder(chars))
         IN  /\ \A k \in 1 .. section.width :
                  bits[k] = Bit(chars[IF lsb THEN k ELSE section.width + 1 - k])
             /\ \A k \in section.width + 1 .. align(section.width, Byte) : bits[k] = Zero
<1>1. Len(chars) = section.width
  BY DEF BitlineHolds
<1>2. InOrder(chars) \in Seq(STRING) /\ Len(InOrder(chars)) = section.width
  BY <1>1, InOrderFacts
<1>3. \A k \in 1 .. section.width :
        InOrder(chars)[k] = chars[IF lsb THEN k ELSE section.width + 1 - k]
  BY <1>1, InOrderAt
<1> QED
  BY <1>2, <1>3, PaddedBits

LEMMA MembankBits ==
  ASSUME TypeOK, NEW chars \in Seq(STRING), WlLineHolds(chars)
  PROVE  LET bits == PaddedToBytes(BlPart(chars))
         IN  /\ \A k \in 1 .. section.width :
                  bits[k] = Bit(chars[IF lsb THEN k ELSE section.width + 1 - k])
             /\ \A k \in section.width + 1 .. align(section.width, Byte) : bits[k] = Zero
<1> DEFINE n == section.width
           bl == SubSeq(chars, 1, n)
<1>1. n \in Nat /\ section.length \in Nat
  BY DEF TypeOK, Section
<1>2. Len(chars) \in Nat /\ n <= Len(chars)
  BY <1>1 DEF WlLineHolds
<1>3. bl \in Seq(STRING) /\ Len(bl) = n /\ \A k \in 1 .. n : bl[k] = chars[k]
  BY <1>1, <1>2, SubSeqProperties, SMT
<1> HIDE DEF bl
<1>4. BlPart(chars) = InOrder(bl) /\ InOrder(bl) \in Seq(STRING) /\ Len(InOrder(bl)) = n
  BY <1>3, InOrderFacts DEF BlPart, bl
<1>5. \A k \in 1 .. n : InOrder(bl)[k] = bl[IF lsb THEN k ELSE n + 1 - k]
  BY <1>3, InOrderAt
<1>6. \A k \in 1 .. n : bl[IF lsb THEN k ELSE n + 1 - k] = chars[IF lsb THEN k ELSE n + 1 - k]
  BY <1>1, <1>3
<1> QED
  BY <1>4, <1>5, <1>6, PaddedBits

(* The bits behind the bit lines are one-hot: they select one word line.    *)
LEMMA MembankWl ==
  ASSUME TypeOK, NEW chars \in Seq(STRING), WlLineHolds(chars)
  PROVE  /\ {k \in 1 .. Len(chars) - section.width :
               chars[IF lsb THEN section.width + k ELSE Len(chars) + 1 - k] = "1"}
              = {OneHot(chars) + 1}
         /\ OneHot(chars) \in Nat
<1> DEFINE n == section.width
           m == section.length
           wl == SubSeq(chars, n + 1, Len(chars))
           hot == HotIn(WlPart(chars))
<1>1. n \in Nat /\ m \in Nat /\ Len(chars) = n + m
  BY DEF TypeOK, Section, WlLineHolds
<1>2. wl \in Seq(STRING) /\ Len(wl) = m /\ \A k \in 1 .. m : wl[k] = chars[n + k]
  <2>1. /\ wl \in Seq(STRING)
        /\ Len(wl) = IF n + 1 <= n + m THEN n + m - (n + 1) + 1 ELSE 0
        /\ \A k \in 1 .. n + m - (n + 1) + 1 : wl[k] = chars[n + 1 + k - 1]
    <3> DEFINE from == n + 1
               to == Len(chars)
    <3>1. from \in Int /\ to \in Int /\ from = n + 1 /\ to = n + m
      BY <1>1
    <3>2. \A k \in from .. to : chars[k] \in STRING
      BY <1>1, <3>1, ElementOfSeq
    <3>3. wl = SubSeq(chars, from, to)
      OBVIOUS
    <3> HIDE DEF from, to, wl, n, m
    <3>4. /\ SubSeq(chars, from, to) \in Seq(STRING)
          /\ Len(SubSeq(chars, from, to)) = IF from <= to THEN to - from + 1 ELSE 0
          /\ \A k \in 1 .. to - from + 1 : SubSeq(chars, from, to)[k] = chars[from + k - 1]
      BY <3>1, <3>2, SubSeqProperties
    <3> QED
      BY <1>1, <3>1, <3>3, <3>4
  <2> HIDE DEF wl, n, m
  <2>2. n + m - (n + 1) + 1 = m /\ \A k \in 1 .. m : n + 1 + k - 1 = n + k
    BY <1>1
  <2>3. Len(wl) = m
    BY <1>1, <2>1, <2>2
  <2> QED
    BY <2>1, <2>2, <2>3
<1> HIDE DEF wl
<1>3. WlPart(chars) = InOrder(wl) /\ InOrder(wl) \in Seq(STRING) /\ Len(InOrder(wl)) = m
  BY <1>2, InOrderFacts DEF WlPart, wl
<1>4. DOMAIN InOrder(wl) = 1 .. m
  BY <1>3, LenProperties
<1>5. \A k \in 1 .. m : InOrder(wl)[k] = wl[IF lsb THEN k ELSE m + 1 - k]
  BY <1>2, InOrderAt
<1>6. \A k \in 1 .. m : wl[IF lsb THEN k ELSE m + 1 - k] =
                          chars[IF lsb THEN n + k ELSE Len(chars) + 1 - k]
  <2> SUFFICES ASSUME NEW k \in 1 .. m
               PROVE  wl[IF lsb THEN k ELSE m + 1 - k] =
                        chars[IF lsb THEN n + k ELSE Len(chars) + 1 - k]
    OBVIOUS
  <2>1. k \in Nat /\ m + 1 - k \in 1 .. m /\ n + (m + 1 - k) = Len(chars) + 1 - k
    BY <1>1
  <2> QED
    BY <1>2, <2>1
<1>7. hot = {k \in 1 .. Len(chars) - n :
               chars[IF lsb THEN n + k ELSE Len(chars) + 1 - k] = "1"}
  <2>1. Len(chars) - n = m
    BY <1>1
  <2>2. hot = {k \in 1 .. m : InOrder(wl)[k] = "1"}
    BY <1>3, <1>4 DEF HotIn
  <2> HIDE DEF hot
  <2> QED
    BY <1>5, <1>6, <2>1, <2>2
<1>8. hot \in SUBSET (1 .. m) /\ IsFiniteSet(hot)
  <2>1. hot \in SUBSET (1 .. m)
    BY <1>3, <1>4 DEF HotIn
  <2>2. IsFiniteSet(1 .. m)
    <3>1. 1 \in Int /\ m \in Int
      BY <1>1
    <3> HIDE DEF m, hot
    <3> QED
      BY <3>1, FS_Interval
  <2> HIDE DEF hot
  <2> QED
    BY <2>1, <2>2, FS_Subset
<1>9. PICK w : hot = {w}
  <2>1. Cardinality(hot) = 1
    BY DEF WlLineHolds
  <2> HIDE DEF hot
  <2> QED
    BY <1>8, <2>1, FS_Singleton
<1>10. (CHOOSE k \in hot : TRUE) = w
  BY <1>9
<1>11. OneHot(chars) = w - 1
  BY <1>10 DEF OneHot
<1> HIDE DEF hot
<1>12. w \in 1 .. m
  BY <1>8, <1>9
<1> QED
  BY <1>1, <1>7, <1>9, <1>11, <1>12

(***************************************************************************)
(* The second invariant: what was read says what its text says              *)
(***************************************************************************)
IsBank == bitobj.protocol = "ql_memory_bank"

Reading ==
  /\ index <= Len(Lines)
  /\ data_line = Cardinality(DataUpTo(TextOf(pc), index))
  /\ pc = "fcb" => FcbTold(section, project.fcb, index, lsb, wl_increasing, IsBank)
  /\ pc # "fcb" => IcbTold(section, TextOf(pc), index)

FcbKept(fcb, text, bank) ==
  /\ fcb.length = Cardinality(DataIn(text))
  /\ \E order, up : FcbTold(fcb, text, Len(text.lines), order, up, bank)

IcbKept(icb, text) ==
  IF text.exists
    THEN /\ icb.bits = Cardinality(DataIn(text)) /\ icb.bits > 0
         /\ Len(icb.data) = align(icb.bits, Byte)
         /\ IcbTold(icb, text, Len(text.lines))
         /\ \A k \in icb.bits + 1 .. align(icb.bits, Byte) : icb.data[k] = Zero
    ELSE icb = NoIcb

RamsKept(pcb, grid) ==
  /\ \A k \in DOMAIN grid : RamHolds(grid[k])
  /\ pcb = [ k \in DOMAIN grid |-> [ x |-> grid[k].x, y |-> grid[k].y,
                                     bits |-> PcbBits, data |-> RamData(grid[k]) ] ]

Kept ==
  /\ bitobj.protocol = project.device.protocol
  /\ pc # "fcb" => FcbKept(bitobj.fcb, project.fcb, IsBank)
  /\ pc \notin {"fcb", "icb"} => IcbKept(bitobj.icb, project.icb)
  /\ pc \notin Texts => IcbKept(bitobj.post_icb, project.post_icb)
  /\ pc \notin Texts \union {"pcb"} => RamsKept(bitobj.pcb, project.bram.grid)

TInv ==
  /\ pc \in Texts => Reading
  /\ pc \in Busy \union {"success"} => Kept
  /\ pc = "success" => cfgbit = {generate(bitobj)} /\ Generates(bitobj)

(* Where a step within a text is.                                           *)
LEMMA TextFacts ==
  ASSUME IInv, TInv, pc \in Texts
  PROVE  /\ TextOf(pc) \in AnyText /\ Lines = TextOf(pc).lines
         /\ index \in Nat /\ Len(Lines) \in Nat
         /\ Reading /\ Kept /\ LinesTaken /\ section \in Section /\ section.data \in Seq(Nat)
         /\ pc = "fcb" => TextOf(pc) = project.fcb
<1>1. TextOf(pc) \in AnyText /\ (pc = "fcb" => TextOf(pc) = project.fcb)
  <2>1. pc \in {"fcb", "icb", "post_icb"}
    BY DEF Texts
  <2> QED
    BY <2>1 DEF IInv, TypeOK, Project, TextOf
<1>2. Lines = TextOf(pc).lines
  BY DEF Lines
<1>3. Len(Lines) \in Nat
  BY <1>1, <1>2, DataUpToFacts, LenProperties DEF AnyText
<1>4. Reading /\ Kept /\ LinesTaken
  BY DEF TInv, IInv, Busy
<1>5. index \in Nat /\ section \in Section /\ section.data \in Seq(Nat)
  BY DEF IInv, TypeOK, Section
<1> QED
  BY <1>1, <1>2, <1>3, <1>4, <1>5

LEMMA LineFacts ==
  ASSUME IInv, TInv, NextLine
  PROVE  /\ pc \in Texts /\ index \in 0 .. Len(TextOf(pc).lines) - 1
         /\ Here = TextOf(pc).lines[index + 1]
         /\ Here.chars = CharsAt(TextOf(pc), index + 1)
         /\ index' = index + 1 /\ project' = project
<1>1. pc \in Texts /\ index < Len(Lines) /\ index' = index + 1 /\ project' = project
  BY DEF NextLine
<1> QED
  BY <1>1, TextFacts DEF Here, Lines, CharsAt

(* A step within a text keeps the invariant if the section that it leaves   *)
(* says what the text says as far as it is read.                            *)
LEMMA ReadTold ==
  ASSUME IInv, TInv, NextLine, bitobj' = bitobj,
         pc' = pc \/ pc' = "aborted",
         pc' = pc =>
           /\ data_line' = Cardinality(DataUpTo(TextOf(pc), index + 1))
           /\ pc = "fcb" =>
                FcbTold(section', project.fcb, index + 1, lsb', wl_increasing', IsBank)
           /\ pc # "fcb" => IcbTold(section', TextOf(pc), index + 1)
  PROVE  TInv'
<1>1. /\ pc \in Texts /\ index \in 0 .. Len(TextOf(pc).lines) - 1
      /\ index' = index + 1 /\ project' = project
  BY LineFacts
<1>2. CASE pc' = "aborted"
  BY <1>2 DEF TInv, Texts, Busy
<1>3. CASE pc' = pc
  <2>1. TextOf(pc)' = TextOf(pc) /\ Lines' = Lines /\ IsBank' = IsBank
    BY <1>1, <1>3 DEF TextOf, Lines, IsBank
  <2>2. index + 1 <= Len(Lines)
    BY <1>1, TextFacts
  <2>3. Reading'
    BY <1>1, <1>3, <2>1, <2>2 DEF Reading
  <2>4. Kept
    BY <1>1, TextFacts
  <2>5. Kept'
    BY <1>1, <1>3, <2>1, <2>4 DEF Kept
  <2>6. pc' # "success"
    BY <1>1, <1>3 DEF Texts
  <2> QED
    BY <2>3, <2>5, <2>6 DEF TInv
<1> QED
  BY <1>2, <1>3

(* A line that is no data and gives no width.                               *)
LEMMA OtherLineTold ==
  ASSUME IInv, TInv, NextLine, UNCHANGED <<bitobj, data_line, lsb, wl_increasing>>,
         pc' = pc \/ pc' = "aborted",
         pc' = pc => /\ Here.key # "data" /\ (pc = "fcb" => Here.key # "width")
                     /\ section' \in Section /\ section'.data = section.data
                     /\ section'.width = section.width
                     /\ section' = section \/ line_tracking = 1
  PROVE  TInv'
<1>1. PICK text, n, t : text = TextOf(pc) /\ n = index /\ t = section'
  OBVIOUS
<1>2. /\ text \in AnyText /\ n \in 0 .. Len(text.lines) - 1 /\ Here = text.lines[n + 1]
      /\ n \in Nat /\ section \in Section
      /\ pc = "fcb" => text = project.fcb
  BY <1>1, LineFacts, TextFacts
<1>3. /\ data_line = Cardinality(DataUpTo(text, n))
      /\ pc = "fcb" => FcbTold(section, text, n, lsb, wl_increasing, IsBank)
      /\ pc # "fcb" => IcbTold(section, text, n)
  BY <1>1, LineFacts, TextFacts DEF Reading
<1>4. ASSUME pc' = pc
      PROVE  /\ DataUpTo(text, n + 1) = DataUpTo(text, n)
             /\ pc = "fcb" => FcbTold(t, text, n + 1, lsb, wl_increasing, IsBank)
             /\ pc # "fcb" => IcbTold(t, text, n + 1)
  <2>1. /\ text.lines[n + 1].key # "data" /\ (pc = "fcb" => text.lines[n + 1].key # "width")
        /\ t \in Section /\ t.data = section.data /\ t.width = section.width
        /\ t = section \/ line_tracking = 1
    BY <1>1, <1>2, <1>4
  <2>2. DataUpTo(text, n + 1) = DataUpTo(text, n)
    BY <1>2, <2>1, OneMoreLine
  <2>3. t = section \/ DataUpTo(text, n) = {}
    <3>1. line_tracking = 1 => data_line = 0
      BY LineFacts, TextFacts DEF LinesTaken
    <3>2. IsFiniteSet(DataUpTo(text, n))
      BY <1>2, DataUpToFacts
    <3> QED
      BY <1>3, <2>1, <3>1, <3>2, FS_EmptySet
  <2>4. CASE pc = "fcb"
    <3>1. text.lines[n + 1].key \notin {"data", "width"}
      BY <2>1, <2>4
    <3>2. PICK s, order, up, bank :
            s = section /\ order = lsb /\ up = wl_increasing /\ bank = IsBank
      OBVIOUS
    <3>3. FcbTold(t, text, n + 1, order, up, bank)
      BY <1>2, <1>3, <2>1, <2>3, <2>4, <3>1, <3>2, NoDataInFcb
    <3> QED
      BY <2>2, <2>4, <3>2, <3>3
  <2>5. CASE pc # "fcb"
    BY <1>2, <1>3, <2>1, <2>2, <2>5, NoDataInIcb
  <2> QED
    BY <2>4, <2>5
<1>5. pc' = pc =>
        /\ data_line' = Cardinality(DataUpTo(TextOf(pc), index + 1))
        /\ pc = "fcb" =>
             FcbTold(section', project.fcb, index + 1, lsb', wl_increasing', IsBank)
        /\ pc # "fcb" => IcbTold(section', TextOf(pc), index + 1)
  BY <1>1, <1>2, <1>3, <1>4
<1> QED
  BY <1>5, ReadTold

LEMMA HeaderLinesTold ==
  ASSUME IInv, TInv, BlankLine \/ Title \/ Comment \/ LengthLine \/ FormatLine
  PROVE  TInv'
<1>1. NextLine /\ section \in Section
  BY DEF BlankLine, Title, Comment, LengthLine, FormatLine, IInv, TypeOK
<1>2. Here \in Line
  BY <1>1, HereIsALine DEF NextLine, IInv
<1>3. CASE BlankLine
  BY <1>1, <1>3, OtherLineTold DEF BlankLine
<1>4. CASE Title
  <2>1. /\ UNCHANGED <<bitobj, data_line, lsb, wl_increasing, section>>
        /\ (pc' = pc /\ Here.key = "title") \/ (pc' = "aborted" /\ pc # "aborted")
    BY <1>1, <1>4 DEF Title, NextLine, Texts
  <2> QED
    BY <1>1, <2>1, OtherLineTold
<1>5. CASE Comment
  BY <1>1, <1>5, OtherLineTold DEF Comment, IsComment, Known
<1>6. CASE LengthLine
  <2>1. Here.number \in Nat
    BY <1>2, <1>6, KindsOfLine DEF LengthLine
  <2>2. /\ section' \in Section /\ section'.data = section.data
        /\ section'.width = section.width
    BY <1>1, <1>6, <2>1 DEF LengthLine, Section
  <2> QED
    BY <1>1, <1>6, <2>2, OtherLineTold DEF LengthLine
<1>7. CASE FormatLine
  <2>1. /\ section' \in Section /\ section'.data = section.data
        /\ section'.width = section.width
    BY <1>1, <1>7 DEF FormatLine, Section
  <2> QED
    BY <1>1, <1>7, <2>1, OtherLineTold DEF FormatLine
<1> QED
  BY <1>3, <1>4, <1>5, <1>6, <1>7

(* The line with the width, in front of all data.                           *)
LEMMA WidthLineTold ==
  ASSUME IInv, TInv, WidthLine
  PROVE  TInv'
<1>1. /\ NextLine /\ section \in Section /\ pc = "fcb" /\ bitobj' = bitobj
      /\ line_tracking = 1 /\ Here.key = "width" /\ lsb' = Here.lsb
      /\ pc' = pc \/ pc' = "aborted"
      /\ UNCHANGED <<data_line, wl_increasing>>
  BY DEF WidthLine, IInv, TypeOK
<1>2. Here \in Line
  BY <1>1, HereIsALine DEF NextLine, IInv
<1>3. ASSUME pc' = pc
      PROVE  /\ section.width = 0 /\ Here.number > 0
             /\ section' = [section EXCEPT !.width = Here.number]
  BY <1>1, <1>3 DEF WidthLine
<1>4. PICK text, n, t : text = TextOf(pc) /\ n = index /\ t = section'
  OBVIOUS
<1>5. /\ text \in AnyText /\ n \in 0 .. Len(text.lines) - 1 /\ Here = text.lines[n + 1]
      /\ n \in Nat /\ text = project.fcb /\ data_line = 0
      /\ data_line = Cardinality(DataUpTo(text, n))
      /\ FcbTold(section, text, n, lsb, wl_increasing, IsBank)
  BY <1>1, <1>4, LineFacts, TextFacts DEF Reading, LinesTaken
<1>6. DataUpTo(text, n) = {}
  <2>1. IsFiniteSet(DataUpTo(text, n))
    BY <1>5, DataUpToFacts
  <2> QED
    BY <1>5, <2>1, FS_EmptySet
<1>7. DataUpTo(text, n + 1) = DataUpTo(text, n)
  BY <1>1, <1>5, OneMoreLine
<1>8. ASSUME pc' = pc
      PROVE  FcbTold(t, text, n + 1, Here.lsb, wl_increasing, IsBank)
  <2>1. Here.number \in Nat
    BY <1>1, <1>2, KindsOfLine
  <2>2. t \in Section /\ t.width = Here.number /\ t.width # 0 /\ section.width = 0
    BY <1>1, <1>3, <1>4, <1>8, <2>1 DEF Section
  <2>3. PICK s, order, up, bank :
          s = section /\ order = lsb /\ up = wl_increasing /\ bank = IsBank
    OBVIOUS
  <2>4. FcbTold(t, text, n + 1, text.lines[n + 1].lsb, up, bank)
    BY <1>1, <1>5, <1>6, <2>2, <2>3, WidthInFcb
  <2> QED
    BY <1>5, <2>3, <2>4
<1>9. pc' = pc =>
        /\ data_line' = Cardinality(DataUpTo(TextOf(pc), index + 1))
        /\ FcbTold(section', project.fcb, index + 1, lsb', wl_increasing', IsBank)
  BY <1>1, <1>4, <1>5, <1>7, <1>8
<1> QED
  BY <1>1, <1>9, ReadTold

(* A line of data of an FCB that is taken.                                  *)
LEMMA FcbLineTold ==
  ASSUME IInv, TInv, NextLine, pc = "fcb", Here.key = "data",
         NEW bits \in Seq(Nat), Taken(bits),
         Len(bits) = align(section.width, Byte),
         \A k \in 1 .. section.width :
           bits[k] = Bit(Here.chars[IF lsb THEN k ELSE section.width + 1 - k]),
         \A k \in section.width + 1 .. align(section.width, Byte) : bits[k] = Zero,
         IsBank => WlLine(section, TextOf(pc), index + 1, lsb, wl_increasing'),
         wl_increasing' = wl_increasing \/ data_line = 0
  PROVE  TInv'
<1>1. PICK text, n, t, s, order, up, up1, bank :
        /\ text = TextOf(pc) /\ n = index /\ t = section' /\ s = section
        /\ order = lsb /\ up = wl_increasing /\ up1 = wl_increasing' /\ bank = IsBank
  OBVIOUS
<1>2. /\ text \in AnyText /\ n \in 0 .. Len(text.lines) - 1 /\ Here = text.lines[n + 1]
      /\ n \in Nat /\ text = project.fcb /\ s \in Section /\ s.data \in Seq(Nat)
      /\ Here.chars = CharsAt(text, n + 1)
      /\ data_line = Cardinality(DataUpTo(text, n))
      /\ FcbTold(s, text, n, order, up, bank)
      /\ Len(s.data) = Cardinality(DataUpTo(text, n)) * align(s.width, Byte)
  BY <1>1, LineFacts, TextFacts DEF Reading, LinesTaken
<1>3. /\ data_line' = data_line + 1 /\ pc' = pc /\ bitobj' = bitobj /\ lsb' = lsb
      /\ section' = [section EXCEPT !.data = section.data \o bits]
  BY DEF Taken, Append1
<1>4. /\ t \in Section /\ t.width = s.width /\ t.length = s.length /\ t.data = s.data \o bits
  <2>1. s.data \o bits \in Seq(Nat)
    BY <1>2, ConcatProperties
  <2> QED
    BY <1>1, <1>2, <1>3, <2>1 DEF Section
<1>5. Cardinality(DataUpTo(text, n + 1)) = Cardinality(DataUpTo(text, n)) + 1
  BY <1>2, OneMoreLine
<1>6. FcbTold(t, text, n + 1, order, up1, bank)
  <2>1. /\ Len(bits) = align(s.width, Byte)
        /\ \A k \in 1 .. s.width :
             bits[k] = Bit(CharsAt(text, n + 1)[IF order THEN k ELSE s.width + 1 - k])
        /\ \A k \in s.width + 1 .. align(s.width, Byte) : bits[k] = Zero
        /\ bank => WlLine(s, text, n + 1, order, up1)
        /\ up1 = up \/ Cardinality(DataUpTo(text, n)) = 0
        /\ text.lines[n + 1].key = "data"
    BY <1>1, <1>2
  <2> QED
    BY <1>2, <1>4, <2>1, DataInFcb
<1>7. /\ data_line' = Cardinality(DataUpTo(TextOf(pc), index + 1))
      /\ FcbTold(section', project.fcb, index + 1, lsb', wl_increasing', IsBank)
  BY <1>1, <1>2, <1>3, <1>5, <1>6
<1> QED
  BY <1>3, <1>7, ReadTold

LEMMA ScanChainLineTold ==
  ASSUME IInv, TInv, ScanChainLine
  PROVE  TInv'
<1>1. /\ NextLine /\ pc = "fcb" /\ TypeOK /\ ~IsBank
  BY DEF ScanChainLine, AtData, IInv, IsBank
<1>2. Here \in Line
  BY <1>1, HereIsALine DEF NextLine
<1>3. CASE Refused
  BY <1>1, <1>3, ReadTold DEF Refused
<1>4. CASE /\ Here.key = "data" /\ HeaderKnown /\ BitlineHolds(Here.chars)
           /\ Taken(PaddedToBytes(InOrder(Here.chars))) /\ UNCHANGED wl_increasing
  <2>1. Here.chars \in Seq(STRING) /\ Len(Here.chars) = section.width
    BY <1>2, <1>4, KindsOfLine DEF BitlineHolds
  <2>2. InOrder(Here.chars) \in Seq(STRING) /\ Len(InOrder(Here.chars)) = section.width
    BY <2>1, InOrderFacts
  <2> DEFINE bits == PaddedToBytes(InOrder(Here.chars))
  <2>3. bits \in Seq(Nat) /\ Len(bits) = align(section.width, Byte)
    BY <2>2, PaddedFacts
  <2>4. /\ \A k \in 1 .. section.width :
             bits[k] = Bit(Here.chars[IF lsb THEN k ELSE section.width + 1 - k])
        /\ \A k \in section.width + 1 .. align(section.width, Byte) : bits[k] = Zero
    BY <1>1, <1>4, <2>1, ScanChainBits
  <2> HIDE DEF bits
  <2>5. Taken(bits) /\ wl_increasing' = wl_increasing
    BY <1>4 DEF bits
  <2> QED
    BY <1>1, <1>4, <2>3, <2>4, <2>5, FcbLineTold
<1> QED
  BY <1>3, <1>4 DEF ScanChainLine

(* The word lines: the first gives the direction, and each one that follows *)
(* is the next in it.                                                       *)
LEMMA WordLineTold ==
  ASSUME IInv, TInv, FirstWl \/ NextWl
  PROVE  TInv'
<1>1. /\ NextLine /\ pc = "fcb" /\ TypeOK
  BY DEF FirstWl, NextWl, AtData, IInv
<1>2. Here \in Line
  BY <1>1, HereIsALine DEF NextLine
<1>3. CASE Refused
  BY <1>1, <1>3, ReadTold DEF Refused
<1>4. ASSUME Here.key = "data", WlLineHolds(Here.chars),
             Taken(PaddedToBytes(BlPart(Here.chars))),
             wl_increasing' = wl_increasing \/ data_line = 0,
             OneHot(Here.chars) =
               IF wl_increasing' THEN data_line ELSE section.length - data_line - 1
      PROVE  TInv'
  <2>1. Here.chars \in Seq(STRING)
    BY <1>2, <1>4, KindsOfLine
  <2> DEFINE bits == PaddedToBytes(BlPart(Here.chars))
  <2>2. bits \in Seq(Nat) /\ Len(bits) = align(section.width, Byte)
    BY <1>1, <1>4, <2>1, BlPartFacts
  <2>3. /\ \A k \in 1 .. section.width :
             bits[k] = Bit(Here.chars[IF lsb THEN k ELSE section.width + 1 - k])
        /\ \A k \in section.width + 1 .. align(section.width, Byte) : bits[k] = Zero
    BY <1>1, <1>4, <2>1, MembankBits
  <2> HIDE DEF bits
  <2>4. Taken(bits)
    BY <1>4 DEF bits
  <2>5. WlLine(section, TextOf(pc), index + 1, lsb, wl_increasing')
    <3>1. {k \in 1 .. Len(Here.chars) - section.width :
             Here.chars[IF lsb THEN section.width + k ELSE Len(Here.chars) + 1 - k] = "1"}
            = {OneHot(Here.chars) + 1}
      BY <1>1, <1>4, <2>1, MembankWl
    <3>2. Here.chars = CharsAt(TextOf(pc), index + 1)
      BY <1>1, LineFacts
    <3>3. Nth(TextOf(pc), index + 1) = data_line + 1
      <4>1. PICK text, n : text = TextOf(pc) /\ n = index
        OBVIOUS
      <4>2. /\ text \in AnyText /\ n \in 0 .. Len(text.lines) - 1
            /\ text.lines[n + 1].key = "data"
            /\ data_line = Cardinality(DataUpTo(text, n))
        BY <1>1, <1>4, <4>1, LineFacts, TextFacts DEF Reading
      <4> QED
        BY <4>1, <4>2, OneMoreLine
    <3>4. data_line \in Nat /\ section.length \in Nat
      BY <1>1 DEF TypeOK, Section
    <3>5. OneHot(Here.chars) + 1 =
            IF wl_increasing' THEN Nth(TextOf(pc), index + 1)
            ELSE section.length + 1 - Nth(TextOf(pc), index + 1)
      BY <1>4, <3>3, <3>4
    <3> QED
      BY <3>1, <3>2, <3>5 DEF WlLine
  <2> QED
    BY <1>1, <1>4, <2>2, <2>3, <2>4, <2>5, FcbLineTold
<1>5. CASE FirstWl /\ ~Refused
  <2>1. data_line = 0 /\ section.length \in Nat
    BY <1>1, <1>5, LineFacts, TextFacts DEF FirstWl, LinesTaken, Section
  <2>2. /\ Here.key = "data" /\ WlLineHolds(Here.chars)
        /\ OneHot(Here.chars) \in {0, section.length - 1}
        /\ Taken(PaddedToBytes(BlPart(Here.chars)))
        /\ wl_increasing' = (OneHot(Here.chars) = 0)
    BY <1>5 DEF FirstWl
  <2>3. OneHot(Here.chars) =
          IF wl_increasing' THEN data_line ELSE section.length - data_line - 1
    <3>1. section.length - data_line - 1 = section.length - 1
      BY <2>1
    <3> QED
      BY <2>1, <2>2, <3>1
  <2> QED
    BY <1>4, <2>1, <2>2, <2>3
<1>6. CASE NextWl /\ ~Refused
  BY <1>4, <1>6 DEF NextWl, ExpectedWl
<1> QED
  BY <1>3, <1>5, <1>6

LEMMA IcbLineTold ==
  ASSUME IInv, TInv, IcbLine
  PROVE  TInv'
<1>1. NextLine /\ pc # "fcb" /\ pc # "aborted"
  BY DEF IcbLine, AtData, NextLine, Texts
<1>2. CASE Refused
  BY <1>1, <1>2, ReadTold DEF Refused
<1>3. CASE /\ Here.key = "data" /\ Here.chars \in {<<"0">>, <<"1">>}
           /\ Taken(<<Bit(Here.chars[1])>>)
  <2>1. PICK text, n, t, s : text = TextOf(pc) /\ n = index /\ t = section' /\ s = section
    OBVIOUS
  <2>2. /\ text \in AnyText /\ n \in 0 .. Len(text.lines) - 1 /\ Here = text.lines[n + 1]
        /\ n \in Nat /\ s \in Section /\ Here.chars = CharsAt(text, n + 1)
        /\ data_line = Cardinality(DataUpTo(text, n)) /\ IcbTold(s, text, n)
        /\ Len(s.data) = Cardinality(DataUpTo(text, n))
    BY <1>1, <2>1, LineFacts, TextFacts DEF Reading, LinesTaken, Texts
  <2>3. /\ data_line' = data_line + 1 /\ pc' = pc /\ bitobj' = bitobj
        /\ section' = [section EXCEPT !.data = section.data \o <<Bit(Here.chars[1])>>]
    BY <1>3 DEF Taken, Append1
  <2>4. t.data = s.data \o <<Bit(CharsAt(text, n + 1)[1])>>
    BY <2>1, <2>2, <2>3 DEF Section
  <2>5. /\ text.lines[n + 1].key = "data"
        /\ CharsAt(text, n + 1) \in {<<"0">>, <<"1">>}
    BY <1>3, <2>2
  <2>6. IcbTold(t, text, n + 1)
    BY <2>2, <2>4, <2>5, DataInIcb
  <2>7. Cardinality(DataUpTo(text, n + 1)) = Cardinality(DataUpTo(text, n)) + 1
    BY <2>2, <2>5, OneMoreLine
  <2>8. /\ data_line' = Cardinality(DataUpTo(TextOf(pc), index + 1))
        /\ IcbTold(section', TextOf(pc), index + 1)
    BY <2>1, <2>2, <2>3, <2>6, <2>7
  <2> QED
    BY <1>1, <2>3, <2>8, ReadTold
<1> QED
  BY <1>2, <1>3 DEF IcbLine

(* A text that is not begun.                                                *)
LEMMA NewTextTold ==
  ASSUME NewText, project' \in Project, pc' \in Texts
  PROVE  Reading'
<1>1. PICK text, s, order, up, bank :
        /\ text = TextOf(pc)' /\ s = section' /\ order = lsb' /\ up = wl_increasing'
        /\ bank = IsBank'
  OBVIOUS
<1>2. text \in AnyText /\ (pc' = "fcb" => text = project'.fcb)
  <2>1. pc' \in {"fcb", "icb", "post_icb"}
    BY DEF Texts
  <2> QED
    BY <1>1, <2>1 DEF Project, TextOf
<1>3. /\ Len(text.lines) \in Nat
      /\ DataUpTo(text, 0) = {} /\ Cardinality(DataUpTo(text, 0)) = 0
  BY <1>2, DataEnds, LenProperties DEF AnyText
<1>4. s = NoSection /\ NoSection.width = 0
  BY <1>1 DEF NewText, NoSection
<1>5. HeaderTold(s, text, 0, order)
  BY <1>4 DEF HeaderTold
<1>6. FcbTold(s, text, 0, order, up, bank)
  BY <1>3, <1>5 DEF FcbTold
<1>7. IcbTold(s, text, 0)
  BY <1>3 DEF IcbTold, Numbered
<1>8. index' = 0 /\ data_line' = 0 /\ Lines' = text.lines
  BY <1>1 DEF NewText, Lines
<1> QED
  BY <1>1, <1>2, <1>3, <1>6, <1>7, <1>8 DEF Reading

(* All of a text is read.                                                   *)
LEMMA AllRead ==
  ASSUME IInv, TInv, AtEnd, CountHolds
  PROVE  LET text == TextOf(pc)
         IN  /\ section.length = Cardinality(DataIn(text)) /\ section.length > 0
             /\ pc = "fcb" =>
                  FcbTold(section, project.fcb, Len(project.fcb.lines), lsb, wl_increasing, IsBank)
             /\ pc # "fcb" => /\ IcbTold(section, text, Len(text.lines))
                              /\ Len(section.data) = section.length
<1>1. pc \in Texts /\ index = Len(Lines)
  BY DEF AtEnd
<1>2. PICK text : text = TextOf(pc)
  OBVIOUS
<1>3. /\ text \in AnyText /\ index = Len(text.lines) /\ (pc = "fcb" => text = project.fcb)
      /\ Reading /\ LinesTaken
  BY <1>1, <1>2, TextFacts
<1>4. DataUpTo(text, Len(text.lines)) = DataIn(text)
  BY <1>3, DataEnds
<1>5. data_line = Cardinality(DataIn(text))
  BY <1>2, <1>3, <1>4 DEF Reading
<1> QED
  BY <1>1, <1>2, <1>3, <1>5 DEF Reading, CountHolds, LinesTaken, Texts

LEMMA IcbIsKept ==
  ASSUME NEW text \in AnyText, text.exists, NEW s \in Section, s.length > 0,
         s.length = Cardinality(DataIn(text)), Len(s.data) = s.length,
         IcbTold(s, text, Len(text.lines))
  PROVE  IcbKept(IcbOf(s), text)
<1> DEFINE n == s.length
           zeros == Zeros(align(n, Byte) - n)
           icb == IcbOf(s)
           d == s.data
<1>1. n \in Nat /\ d \in Seq(Nat) /\ Len(d) = n /\ Len(text.lines) \in Nat
  <2>1. text.lines \in Seq(Line)
    BY DEF AnyText
  <2> QED
    BY <2>1, LenProperties DEF Section
<1>2. icb.bits = n /\ Len(icb.data) = align(n, Byte)
  BY IcbOfFacts DEF IcbHolds
<1>3. align(n, Byte) \in Nat /\ align(n, Byte) - n \in Nat
  <2>1. align(n, Byte) \in Nat /\ align(n, Byte) >= n
    BY <1>1, AlignFacts, GeminiConstants
  <2> QED
    BY <1>1, <2>1
<1>4. /\ zeros \in Seq(Nat) /\ Len(zeros) = align(n, Byte) - n
      /\ \A k \in 1 .. Len(zeros) : zeros[k] = Zero
  BY <1>3, ZerosFacts DEF Zeros
<1>5. icb.data = d \o zeros
  BY DEF IcbOf
<1> HIDE DEF icb, zeros, d
<1>6. /\ \A k \in 1 .. n : icb.data[k] = d[k]
      /\ \A k \in 1 .. Len(zeros) : icb.data[n + k] = zeros[k]
  <2>1. d \in Seq(Nat) /\ zeros \in Seq(Nat) /\ n = Len(d)
    BY <1>1, <1>4
  <2>2. /\ \A k \in 1 .. n : (d \o zeros)[k] = d[k]
        /\ \A k \in 1 .. Len(zeros) : (d \o zeros)[n + k] = zeros[k]
    BY <2>1, JoinedAt
  <2> QED
    BY <1>5, <2>2
<1>7. \A k \in n + 1 .. align(n, Byte) : icb.data[k] = Zero
  <2>1. \A k \in n + 1 .. align(n, Byte) : k - n \in 1 .. Len(zeros) /\ n + (k - n) = k
    BY <1>1, <1>3, <1>4
  <2> QED
    BY <1>4, <1>6, <2>1
<1>8. IcbTold(icb, text, Len(text.lines))
  <2>1. \A p \in DataUpTo(text, Len(text.lines)) : Nth(text, p) \in 1 .. n
    <3>1. Cardinality(DataUpTo(text, Len(text.lines))) = n
      BY DataEnds
    <3> QED
      BY <1>1, <3>1, NthFacts
  <2> QED
    BY <1>6, <2>1 DEF IcbTold, BitLine, d
<1> QED
  BY <1>2, <1>7, <1>8 DEF IcbKept, icb

LEMMA EndTextTold ==
  ASSUME IInv, TInv, EndText
  PROVE  TInv'
<1>1. /\ AtEnd /\ pc \in Texts /\ project' = project /\ TypeOK /\ PartsHold /\ Kept
      /\ section \in Section /\ bitobj \in Object /\ project \in Project
  BY TextFacts DEF EndText, EndOfFcb, EndOfIcb, EndOfPostIcb, AtEnd, IInv, TypeOK, Busy
<1>2. CASE Abort
  BY <1>2 DEF Abort, TInv, Texts, Busy
<1>3. CASE /\ pc = "fcb" /\ CountHolds /\ pc' = "icb" /\ NewText
           /\ bitobj' = [bitobj EXCEPT !.fcb = section]
  <2>1. bitobj'.fcb = section /\ bitobj'.protocol = bitobj.protocol
    BY <1>1, <1>3 DEF Object
  <2>2. FcbKept(section, project.fcb, IsBank)
    <3>1. TextOf(pc) = project.fcb
      BY <1>3 DEF TextOf
    <3> QED
      BY <1>1, <1>3, <3>1, AllRead DEF FcbKept
  <2>3. Kept'
    BY <1>1, <1>3, <2>1, <2>2 DEF Kept, IsBank, Texts
  <2>4. Reading'
    BY <1>1, <1>3, NewTextTold DEF Texts
  <2> QED
    BY <1>3, <2>3, <2>4 DEF TInv
<1>4. CASE pc = "icb" /\ pc' = "post_icb" /\ NewText /\ EndOfIcb
  <2>1. /\ bitobj'.fcb = bitobj.fcb /\ bitobj'.protocol = bitobj.protocol
        /\ IcbKept(bitobj'.icb, project.icb)
    <3>1. CASE ~project.icb.exists
      <4>1. bitobj' = bitobj /\ bitobj.icb = NoIcb
        BY <1>1, <1>4, <3>1 DEF EndOfIcb, PartsHold
      <4> QED
        BY <3>1, <4>1 DEF IcbKept
    <3>2. CASE project.icb.exists
      <4>1. CountHolds /\ bitobj' = [bitobj EXCEPT !.icb = IcbOf(section)]
        BY <1>4, <3>2 DEF EndOfIcb, Abort
      <4>2. TextOf(pc) = project.icb /\ project.icb \in AnyText
        BY <1>1, <1>4 DEF TextOf, Project
      <4>3. IcbKept(IcbOf(section), project.icb)
        BY <1>1, <1>4, <3>2, <4>1, <4>2, AllRead, IcbIsKept
      <4> QED
        BY <1>1, <4>1, <4>3 DEF Object
    <3> QED
      BY <3>1, <3>2
  <2>2. Kept'
    BY <1>1, <1>4, <2>1 DEF Kept, IsBank, Texts
  <2>3. Reading'
    BY <1>1, <1>4, NewTextTold DEF Texts
  <2> QED
    BY <1>4, <2>2, <2>3 DEF TInv
<1>5. CASE pc = "post_icb" /\ pc' = "pcb" /\ NewText /\ EndOfPostIcb
  <2>1. /\ bitobj'.fcb = bitobj.fcb /\ bitobj'.protocol = bitobj.protocol
        /\ bitobj'.icb = bitobj.icb
        /\ IcbKept(bitobj'.post_icb, project.post_icb)
    <3>1. CASE ~project.post_icb.exists
      <4>1. bitobj' = bitobj /\ bitobj.post_icb = NoIcb
        BY <1>1, <1>5, <3>1 DEF EndOfPostIcb, PartsHold
      <4> QED
        BY <3>1, <4>1 DEF IcbKept
    <3>2. CASE project.post_icb.exists
      <4>1. CountHolds /\ bitobj' = [bitobj EXCEPT !.post_icb = IcbOf(section)]
        BY <1>5, <3>2 DEF EndOfPostIcb, Abort
      <4>2. TextOf(pc) = project.post_icb /\ project.post_icb \in AnyText
        BY <1>1, <1>5 DEF TextOf, Project
      <4>3. IcbKept(IcbOf(section), project.post_icb)
        BY <1>1, <1>5, <3>2, <4>1, <4>2, AllRead, IcbIsKept
      <4> QED
        BY <1>1, <4>1, <4>3 DEF Object
    <3> QED
      BY <3>1, <3>2
  <2>2. Kept'
    BY <1>1, <1>5, <2>1 DEF Kept, IsBank, Texts
  <2> QED
    BY <1>5, <2>2 DEF TInv, Texts
<1> QED
  BY <1>2, <1>3, <1>4, <1>5 DEF EndText, EndOfFcb, EndOfIcb, EndOfPostIcb

(* The RAMs, the files, and a new run.                                      *)
LEMMA get_pcbTold ==
  ASSUME IInv, TInv, get_pcb
  PROVE  TInv'
<1>1. pc = "pcb" /\ project' = project /\ Kept /\ bitobj \in Object
  BY DEF get_pcb, TInv, Busy, IInv, TypeOK
<1>2. CASE Abort
  BY <1>2 DEF Abort, TInv, Texts, Busy
<1>3. CASE ~Abort
  <2> DEFINE grid == project.bram.grid
             rams == [ k \in DOMAIN grid |-> [ x |-> grid[k].x, y |-> grid[k].y,
                                               bits |-> PcbBits, data |-> RamData(grid[k]) ] ]
  <2>1. /\ \A k \in DOMAIN grid : RamHolds(grid[k])
        /\ pc' = "write" /\ bitobj' = [bitobj EXCEPT !.pcb = rams]
    BY <1>3 DEF get_pcb
  <2>2. RamsKept(rams, grid)
    BY <2>1 DEF RamsKept
  <2> HIDE DEF grid, rams
  <2>3. /\ bitobj'.pcb = rams /\ bitobj'.fcb = bitobj.fcb /\ bitobj'.icb = bitobj.icb
        /\ bitobj'.post_icb = bitobj.post_icb /\ bitobj'.protocol = bitobj.protocol
    BY <1>1, <2>1 DEF Object
  <2>4. Kept'
    BY <1>1, <2>1, <2>2, <2>3 DEF Kept, IsBank, Texts, grid
  <2> QED
    BY <2>1, <2>4 DEF TInv, Texts
<1> QED
  BY <1>2, <1>3

LEMMA FilesTold ==
  ASSUME IInv, TInv, write \/ BitGenerator_entry
  PROVE  TInv'
<1>1. /\ pc \in {"write", "generate"} /\ UNCHANGED <<project, bitobj>>
      /\ pc = "generate" => bitasm = {bitobj}
      /\ Kept
  BY DEF write, BitGenerator_entry, TInv, Busy, IInv
<1>2. pc' \in {"generate", "fail", "success", "not_written", "refused"}
  BY <1>1 DEF write, BitGenerator_entry
<1>3. pc' = "success" => cfgbit' = {generate(bitobj')} /\ Generates(bitobj')
  BY <1>1 DEF write, BitGenerator_entry
<1>4. pc' \in {"generate", "success"} => Kept'
  BY <1>1 DEF Kept, IsBank, Texts
<1> QED
  BY <1>2, <1>3, <1>4 DEF TInv, Texts, Busy

LEMMA BitAssembler_entryTold ==
  ASSUME IInv, NEW p \in Project, BitAssembler_entry(p)
  PROVE  TInv'
<1>1. CASE pc' = "aborted"
  BY <1>1 DEF TInv, Texts, Busy
<1>2. CASE pc' = "fcb"
  <2>1. project' = p /\ NewText /\ pc' \in Texts
    BY <1>2 DEF BitAssembler_entry, Texts
  <2>2. Reading'
    BY <2>1, NewTextTold
  <2>3. bitobj'.protocol = p.device.protocol
    BY NoObjectType DEF BitAssembler_entry, Object
  <2>4. Kept'
    BY <1>2, <2>1, <2>3 DEF Kept, Texts
  <2> QED
    BY <1>2, <2>2, <2>4 DEF TInv
<1> QED
  BY <1>1, <1>2 DEF BitAssembler_entry

LEMMA InitTold == Init => TInv
  BY DEF Init, TInv, Texts, Busy

LEMMA NextTold == IInv /\ TInv /\ [Next]_vars => TInv'
<1> SUFFICES ASSUME IInv, TInv, [Next]_vars PROVE TInv'
  OBVIOUS
<1>1. CASE clean
  BY <1>1 DEF clean, TInv, Texts, Busy
<1>2. CASE \E p \in Offered : BitAssembler_entry(p)
  <2>1. Offered \subseteq Project
    BY AssemblerConstants DEF Offered
  <2> QED
    BY <1>2, <2>1, BitAssembler_entryTold
<1>3. CASE ReadLine
  BY <1>3, HeaderLinesTold, WidthLineTold, ScanChainLineTold, WordLineTold, IcbLineTold
     DEF ReadLine
<1>4. CASE EndText
  BY <1>4, EndTextTold
<1>5. CASE get_pcb \/ write \/ BitGenerator_entry
  BY <1>5, get_pcbTold, FilesTold
<1>6. CASE UNCHANGED vars
  BY <1>6 DEF vars, reader, files, TInv, Reading, Kept, IsBank, Lines, TextOf
<1> QED
  BY <1>1, <1>2, <1>3, <1>4, <1>5, <1>6 DEF Next, Assemble

(***************************************************************************)
(* Rows and columns                                                         *)
(***************************************************************************)
LEMMA RowAndColumn ==
  ASSUME NEW q \in Nat, NEW u \in Nat \ {0}, NEW r \in 0 .. u - 1
  PROVE  (q * u + r) \div u = q /\ (q * u + r) % u = r
<1> DEFINE v == q * u + r
           d == v \div u
           e == v % u
<1>1. v \in Nat
  <2>1. q * u \in Nat
    OBVIOUS
  <2> QED
    BY <2>1
<1>2. d \in Nat /\ e \in 0 .. u - 1 /\ q * u + r = d * u + e
  <2> HIDE DEF v
  <2>1. d \in Nat /\ e \in 0 .. u - 1 /\ v = d * u + e
    BY <1>1, DivFacts
  <2> QED
    BY <2>1 DEF v
<1> HIDE DEF d, e
<1>3. CASE q >= d + 1
  <2>1. q * u >= (d + 1) * u
    <3>1. PICK m \in Nat : q = d + 1 + m
      <4>1. q - (d + 1) \in Nat
        BY <1>2, <1>3
      <4> QED
        BY <1>2, <4>1
    <3>2. (d + 1 + m) * u = (d + 1) * u + m * u /\ m * u \in Nat /\ (d + 1) * u \in Nat
      BY <1>2, <3>1
    <3> QED
      BY <3>1, <3>2
  <2>2. (d + 1) * u = d * u + u /\ d * u \in Nat /\ q * u \in Nat
    BY <1>2
  <2> QED
    BY <1>2, <2>1, <2>2
<1>4. CASE d >= q + 1
  <2>1. d * u >= (q + 1) * u
    <3>1. PICK m \in Nat : d = q + 1 + m
      <4>1. d - (q + 1) \in Nat
        BY <1>2, <1>4
      <4> QED
        BY <1>2, <4>1
    <3>2. (q + 1 + m) * u = (q + 1) * u + m * u /\ m * u \in Nat /\ (q + 1) * u \in Nat
      BY <3>1
    <3> QED
      BY <3>1, <3>2
  <2>2. (q + 1) * u = q * u + u /\ d * u \in Nat /\ q * u \in Nat
    BY <1>2
  <2> QED
    BY <1>2, <2>1, <2>2
<1>5. CASE d = q
  <2>1. q * u \in Nat /\ d * u = q * u
    BY <1>5
  <2>2. e = r
    BY <1>2, <2>1
  <2> QED
    BY <1>5, <2>2 DEF d, e
<1> QED
  BY <1>2, <1>3, <1>4, <1>5

(* Place k of row m, counted from 1.                                        *)
LEMMA InRow ==
  ASSUME NEW m \in Nat \ {0}, NEW row \in Nat, NEW k \in 1 .. row
  PROVE  /\ ((m - 1) * row + k - 1) \div row = m - 1
         /\ ((m - 1) * row + k - 1) % row = k - 1
<1>1. m - 1 \in Nat /\ row \in Nat \ {0} /\ k - 1 \in 0 .. row - 1 /\ k \in Nat
  OBVIOUS
<1>2. (m - 1) * row \in Nat
  BY <1>1
<1>3. (m - 1) * row + k - 1 = (m - 1) * row + (k - 1)
  BY <1>1, <1>2
<1> DEFINE a == m - 1
           b == k - 1
<1> HIDE DEF a, b
<1>4. (a * row + b) \div row = a /\ (a * row + b) % row = b
  BY <1>1, RowAndColumn DEF a, b
<1> QED
  BY <1>3, <1>4 DEF a, b

(* The multiple that is next.                                               *)
LEMMA AlignIs ==
  ASSUME NEW v \in Nat, NEW u \in Nat \ {0}, NEW q \in Nat, v <= q * u, q * u < v + u
  PROVE  align(v, u) = q * u
<1>1. q * u \in Nat
  OBVIOUS
<1>2. v + u - 1 - q * u \in 0 .. u - 1
  BY <1>1
<1>3. PICK r \in 0 .. u - 1 : v + u - 1 = q * u + r
  <2>1. v + u - 1 = q * u + (v + u - 1 - q * u)
    BY <1>1
  <2> QED
    BY <1>2, <2>1
<1>4. (v + u - 1) \div u = q
  BY <1>3, RowAndColumn
<1> QED
  BY <1>4 DEF align

LEMMA AlignBounds ==
  ASSUME NEW v \in Nat, NEW u \in Nat \ {0}
  PROVE  \E q \in Nat : align(v, u) = q * u /\ v <= q * u /\ q * u < v + u
<1>1. v + u - 1 \in Nat
  OBVIOUS
<1> DEFINE q == (v + u - 1) \div u
           r == (v + u - 1) % u
<1>2. q \in Nat /\ r \in 0 .. u - 1 /\ v + u - 1 = q * u + r
  <2> DEFINE n == v + u - 1
  <2> HIDE DEF n
  <2>1. n \div u \in Nat /\ n % u \in 0 .. u - 1 /\ n = (n \div u) * u + (n % u)
    BY <1>1, DivFacts DEF n
  <2> QED
    BY <2>1 DEF n
<1>3. align(v, u) = q * u
  BY DEF align
<1> HIDE DEF q, r
<1>4. q * u \in Nat
  BY <1>2
<1> QED
  BY <1>2, <1>3, <1>4

(* Whole bytes are as many bytes, and in words as many words.               *)
LEMMA AlignedBytes ==
  ASSUME NEW w \in Nat
  PROVE  /\ align(align(w, Byte), Byte) = align(w, Byte)
         /\ align(align(w, Byte), Word) = align(w, Word)
<1>0. Byte \in Nat \ {0} /\ Word \in Nat \ {0} /\ Word % Byte = 0
  BY GeminiConstants
<1>1. PICK p \in Nat : align(w, Byte) = p * Byte /\ w <= p * Byte /\ p * Byte < w + Byte
  BY <1>0, AlignBounds
<1>2. PICK q \in Nat : align(w, Word) = q * Word /\ w <= q * Word /\ q * Word < w + Word
  BY <1>0, AlignBounds
<1>3. p * Byte \in Nat /\ q * Word \in Nat
  BY <1>0
<1>4. align(p * Byte, Byte) = p * Byte
  <2> DEFINE v == p * Byte
  <2>1. v \in Nat /\ v <= p * Byte /\ p * Byte < v + Byte
    BY <1>0, <1>3
  <2> HIDE DEF v
  <2>2. align(v, Byte) = p * Byte
    BY <1>0, <2>1, AlignIs
  <2> QED
    BY <2>2 DEF v
<1>5. PICK c \in Nat : Word = c * Byte
  <2>1. Word \div Byte \in Nat /\ Word = (Word \div Byte) * Byte + (Word % Byte)
    BY <1>0, DivFacts
  <2>2. Word = (Word \div Byte) * Byte
    BY <1>0, <2>1
  <2> QED
    BY <2>1, <2>2
<1>6. p * Byte <= q * Word
  <2>1. q * Word = (q * c) * Byte /\ q * c \in Nat
    BY <1>0, <1>5
  <2> DEFINE d == q * c
  <2> HIDE DEF d
  <2>2. d \in Nat /\ p * Byte < d * Byte + Byte /\ q * Word = d * Byte
    BY <1>0, <1>1, <1>2, <1>3, <2>1 DEF d
  <2>3. CASE p >= d + 1
    <3>1. PICK m \in Nat : p = d + 1 + m
      <4>1. p - (d + 1) \in Nat
        BY <2>2, <2>3
      <4> QED
        BY <2>2, <4>1
    <3>2. (d + 1 + m) * Byte = d * Byte + Byte + m * Byte /\ m * Byte \in Nat /\ d * Byte \in Nat
      BY <1>0, <2>2, <3>1
    <3> QED
      BY <1>0, <2>2, <3>1, <3>2
  <2>4. CASE p <= d
    <3>1. PICK m \in Nat : d = p + m
      <4>1. d - p \in Nat
        BY <2>2, <2>4
      <4> QED
        BY <2>2, <4>1
    <3>2. (p + m) * Byte = p * Byte + m * Byte /\ m * Byte \in Nat
      BY <1>0, <3>1
    <3> QED
      BY <1>3, <2>2, <3>1, <3>2
  <2> QED
    BY <2>2, <2>3, <2>4
<1>7. align(p * Byte, Word) = q * Word
  <2> DEFINE v == p * Byte
  <2>1. v \in Nat /\ v <= q * Word /\ q * Word < v + Word
    BY <1>0, <1>1, <1>2, <1>3, <1>6
  <2> HIDE DEF v
  <2>2. align(v, Word) = q * Word
    BY <1>0, <2>1, AlignIs
  <2> QED
    BY <2>2 DEF v
<1> QED
  BY <1>1, <1>2, <1>4, <1>7

(***************************************************************************)
(* The payloads                                                             *)
(***************************************************************************)
(* A line of a payload is the line of the data and zeros.                   *)
LEMMA LinesLength ==
  ASSUME NEW data, NEW bits \in Nat \ {0}, NEW count \in Nat \ {0}
  PROVE  Len(genbits_line_by_line(data, bits, count)) = align(bits, Word) * count
<1> DEFINE n == align(bits, Word) * count
           payload == genbits_line_by_line(data, bits, count)
<1>1. n \in Nat
  <2>1. bits \in Nat /\ Word \in Nat \ {0}
    BY GeminiConstants
  <2>2. align(bits, Word) \in Nat
    BY <2>1, AlignFacts
  <2> QED
    BY <2>2
<1>2. payload \in [1 .. n -> {payload[k] : k \in 1 .. n}]
  BY DEF genbits_line_by_line
<1> HIDE DEF n, payload
<1>3. Len(payload) = n
  BY <1>1, <1>2, LenOfFunction
<1> QED
  BY <1>3 DEF n, payload

LEMMA LineAt ==
  ASSUME NEW data, NEW bits \in Nat \ {0}, NEW count \in Nat \ {0},
         NEW m \in 1 .. count, NEW k \in 1 .. align(bits, Word)
  PROVE  genbits_line_by_line(data, bits, count)[(m - 1) * align(bits, Word) + k] =
           IF k <= bits THEN data[(m - 1) * align(bits, Byte) + k] ELSE Zero
<1> DEFINE row == align(bits, Word)
           byterow == align(bits, Byte)
           payload == genbits_line_by_line(data, bits, count)
           at(line, bit) == IF bit < bits THEN data[line * byterow + bit + 1] ELSE Zero
           i == (m - 1) * row + k
<1>1. row \in Nat /\ row >= bits /\ byterow \in Nat
  <2>1. bits \in Nat /\ Byte \in Nat \ {0} /\ Word \in Nat \ {0}
    BY GeminiConstants
  <2> QED
    BY <2>1, AlignFacts
<1>2. payload = [j \in 1 .. row * count |-> at((j - 1) \div row, (j - 1) % row)]
  BY DEF genbits_line_by_line
<1> HIDE DEF row, byterow, payload
<1>3. k \in 1 .. row /\ m \in Nat \ {0} /\ count \in Nat
  BY <1>1 DEF row
<1>4. i \in 1 .. count * row
  BY <1>1, <1>3, PlaceInRows
<1>5. count * row = row * count
  BY <1>1, <1>3
<1>6. (i - 1) \div row = m - 1 /\ (i - 1) % row = k - 1
  BY <1>1, <1>3, InRow
<1>7. payload[i] = at((i - 1) \div row, (i - 1) % row)
  BY <1>2, <1>4, <1>5
<1>8. /\ k - 1 < bits <=> k <= bits
      /\ (m - 1) * byterow + (k - 1) + 1 = (m - 1) * byterow + k
  <2>1. (m - 1) * byterow \in Nat /\ k \in Nat
    BY <1>1, <1>3
  <2> QED
    BY <2>1
<1>9. payload[i] = at(m - 1, k - 1)
  <2> HIDE DEF i, at
  <2> QED
    BY <1>6, <1>7
<1>10. payload[i] = IF k <= bits THEN data[(m - 1) * byterow + k] ELSE Zero
  <2> HIDE DEF i
  <2> QED
    BY <1>8, <1>9
<1> QED
  BY <1>10 DEF payload, row, byterow

(* The payload of an FCB that was kept.                                     *)
LEMMA KeptFcbArrives ==
  ASSUME NEW b \in Object, FcbHolds(b), NEW text \in AnyText,
         FcbKept(b.fcb, text, b.protocol = "ql_memory_bank")
  PROVE  /\ FcbArrives(FcbAction(b).payload, text)
         /\ b.protocol = "ql_memory_bank" => EachWordLineOnce(text)
<1> DEFINE s == b.fcb
           w == s.width
           row == align(w, Word)
           byterow == align(w, Byte)
           count == Cardinality(DataIn(text))
           header == HeaderOf(text)
           payload == FcbAction(b).payload
           bank == b.protocol = "ql_memory_bank"
<1>1. PICK order, up : FcbTold(s, text, Len(text.lines), order, up, bank)
  BY DEF FcbKept
<1>2. /\ w \in Nat \ {0} /\ s.length = count /\ count \in Nat \ {0}
  <2>1. s \in Section /\ s.width > 0 /\ s.length > 0 /\ s.length = count
    BY DEF Object, FcbHolds, ScanChainHolds, MembankHolds, FcbKept
  <2> QED
    BY <2>1 DEF Section
<1>3. row \in Nat /\ byterow \in Nat /\ row >= w /\ byterow >= w /\ byterow \in Nat \ {0}
  <2>1. Byte \in Nat \ {0} /\ Word \in Nat \ {0} /\ w \in Nat
    BY <1>2, GeminiConstants
  <2>2. row \in Nat /\ byterow \in Nat /\ row >= w /\ byterow >= w
    BY <2>1, AlignFacts
  <2> QED
    BY <1>2, <2>2
<1>4. header.number = w /\ header.lsb = order
  <2>1. HeaderTold(s, text, Len(text.lines), order)
    BY <1>1 DEF FcbTold
  <2>2. PICK p \in 1 .. Len(text.lines) :
          /\ {q \in 1 .. Len(text.lines) : text.lines[q].key = "width"} = {p}
          /\ text.lines[p].number = w /\ text.lines[p].lsb = order
    BY <1>2, <2>1 DEF HeaderTold
  <2>3. DOMAIN text.lines = 1 .. Len(text.lines)
    BY LenProperties DEF AnyText
  <2>4. /\ text.lines[p] \in Range(text.lines) /\ text.lines[p].key = "width"
        /\ \A line \in Range(text.lines) : line.key = "width" => line = text.lines[p]
    BY <2>2, <2>3 DEF Range
  <2>5. header = text.lines[p]
    BY <2>4 DEF HeaderOf
  <2> QED
    BY <2>2, <2>5
<1>5. PICK bits \in Nat \ {0} :
        /\ payload = genbits_line_by_line(s.data, bits, s.length)
        /\ bits >= w /\ byterow >= bits
        /\ align(bits, Word) = row /\ align(bits, Byte) = byterow
  <2>1. CASE b.protocol = "scan_chain"
    <3>1. payload = genbits_line_by_line(s.data, w, s.length)
      BY <2>1 DEF FcbAction, ScanChainAction, Action
    <3> QED
      BY <1>2, <1>3, <3>1
  <2>2. CASE b.protocol # "scan_chain"
    <3>1. payload = genbits_line_by_line(s.data, byterow, s.length)
      BY <2>2 DEF FcbAction, MembankAction, Action
    <3>2. w \in Nat
      BY <1>2
    <3>3. align(byterow, Word) = row /\ align(byterow, Byte) = byterow
      BY <3>2, AlignedBytes
    <3> QED
      BY <1>3, <3>1, <3>3
  <2> QED
    BY <2>1, <2>2
<1> HIDE DEF payload, row, byterow, header
<1>6. /\ Len(payload) = row * count
      /\ \A m \in 1 .. count, k \in 1 .. row :
           payload[(m - 1) * row + k] =
             IF k <= bits THEN s.data[(m - 1) * byterow + k] ELSE Zero
  <2>1. PICK data, n : data = s.data /\ n = s.length
    OBVIOUS
  <2>2. n \in Nat \ {0} /\ n = count
    BY <1>2, <2>1
  <2>3. /\ payload = genbits_line_by_line(data, bits, n)
        /\ row = align(bits, Word) /\ byterow = align(bits, Byte)
    BY <1>5, <2>1
  <2> HIDE DEF count, s, w, bank
  <2>4. Len(payload) = row * n
    BY <2>2, <2>3, LinesLength
  <2>5. ASSUME NEW m \in 1 .. n, NEW k \in 1 .. row
        PROVE  payload[(m - 1) * row + k] =
                 IF k <= bits THEN data[(m - 1) * byterow + k] ELSE Zero
    <3>1. k \in 1 .. align(bits, Word) /\ m \in 1 .. n /\ n \in Nat \ {0} /\ bits \in Nat \ {0}
      BY <2>2, <2>3
    <3>2. genbits_line_by_line(data, bits, n)[(m - 1) * align(bits, Word) + k] =
            IF k <= bits THEN data[(m - 1) * align(bits, Byte) + k] ELSE Zero
      BY <3>1, LineAt
    <3> QED
      BY <2>3, <3>2, Zenon
  <2> QED
    BY <2>1, <2>2, <2>4, <2>5
<1>7. DataUpTo(text, Len(text.lines)) = DataIn(text)
  BY DataEnds
<1>8. ASSUME NEW p \in DataIn(text)
      PROVE  /\ Nth(text, p) \in 1 .. count
             /\ FcbLine(s, text, p, order) /\ (bank => WlLine(s, text, p, order, up))
  <2>1. text.lines \in Seq(Line)
    BY DEF AnyText
  <2>2. Len(text.lines) \in Nat
    BY <2>1, LenProperties
  <2> QED
    BY <1>1, <1>7, <2>2, NthFacts DEF FcbTold
<1>9. ASSUME NEW p \in DataIn(text), NEW k \in 1 .. row
      PROVE  payload[(Nth(text, p) - 1) * row + k] =
               IF k <= header.number /\ CharOf(CharsAt(text, p), header, k) = "1"
                 THEN 1 ELSE Zero
  <2> DEFINE m == Nth(text, p)
             chars == CharsAt(text, p)
  <2>1. m \in 1 .. count /\ FcbLine(s, text, p, order)
    BY <1>8
  <2>2. payload[(m - 1) * row + k] =
          IF k <= bits THEN s.data[(m - 1) * byterow + k] ELSE Zero
    BY <1>6, <2>1
  <2>3. k <= w => /\ k \in 1 .. w /\ k <= bits
                  /\ s.data[(m - 1) * byterow + k] =
                       Bit(chars[IF order THEN k ELSE w + 1 - k])
    <3>1. k <= w => k \in 1 .. w /\ k <= bits
      BY <1>2, <1>3, <1>5
    <3> QED
      BY <2>1, <3>1 DEF FcbLine, byterow
  <2>4. ~(k <= w) /\ k <= bits => s.data[(m - 1) * byterow + k] = Zero
    <3>1. ~(k <= w) /\ k <= bits => k \in w + 1 .. byterow
      BY <1>2, <1>3, <1>5
    <3> QED
      BY <2>1, <3>1 DEF FcbLine, byterow
  <2>5. CharOf(chars, header, k) = chars[IF order THEN k ELSE w + 1 - k]
    BY <1>4 DEF CharOf
  <2>6. CASE k <= w
    BY <1>4, <2>2, <2>3, <2>5, <2>6 DEF Bit
  <2>7. CASE ~(k <= w)
    BY <1>4, <2>2, <2>4, <2>7
  <2> QED
    BY <2>6, <2>7
<1>10. FcbArrives(payload, text)
  <2>1. row = align(header.number, Word)
    BY <1>4 DEF row
  <2> QED
    BY <1>6, <1>9, <2>1 DEF FcbArrives, header
<1>11. ASSUME bank PROVE EachWordLineOnce(text)
  <2>1. ASSUME NEW p \in DataIn(text)
        PROVE  Selected(CharsAt(text, p), header) =
                 {IF up THEN Nth(text, p) ELSE count + 1 - Nth(text, p)}
    <3>1. WlLine(s, text, p, order, up)
      BY <1>8, <1>11
    <3> QED
      BY <1>2, <1>4, <3>1 DEF WlLine, Selected
  <2> QED
    BY <2>1 DEF EachWordLineOnce, header
<1> QED
  BY <1>10, <1>11 DEF payload

(* The payload of an ICB that was kept.                                     *)
LEMMA KeptIcbFacts ==
  ASSUME NEW text \in AnyText, text.exists, NEW icb \in Icb, IcbKept(icb, text)
  PROVE  /\ icb.bits \in Nat \ {0} /\ icb.bits = Cardinality(DataIn(text))
         /\ icb.data \in Seq(Nat) /\ Len(icb.data) = align(icb.bits, Byte)
         /\ align(icb.bits, Byte) \in Nat /\ align(icb.bits, Byte) >= icb.bits
         /\ \A p \in DataIn(text) : Nth(text, p) \in 1 .. icb.bits /\ BitLine(icb, text, p)
         /\ \A m \in 1 .. icb.bits : \E p \in DataIn(text) : Nth(text, p) = m
         /\ \A k \in icb.bits + 1 .. align(icb.bits, Byte) : icb.data[k] = Zero
<1>1. /\ icb.bits \in Nat \ {0} /\ icb.bits = Cardinality(DataIn(text))
      /\ icb.data \in Seq(Nat) /\ Len(icb.data) = align(icb.bits, Byte)
      /\ IcbTold(icb, text, Len(text.lines))
      /\ \A k \in icb.bits + 1 .. align(icb.bits, Byte) : icb.data[k] = Zero
  BY DEF IcbKept, Icb
<1>2. align(icb.bits, Byte) \in Nat /\ align(icb.bits, Byte) >= icb.bits
  <2>1. icb.bits \in Nat /\ Byte \in Nat \ {0}
    BY <1>1, GeminiConstants
  <2> QED
    BY <2>1, AlignFacts
<1>3. Len(text.lines) \in Nat
  <2>1. text.lines \in Seq(Line)
    BY DEF AnyText
  <2> QED
    BY <2>1, LenProperties
<1>4. DataUpTo(text, Len(text.lines)) = DataIn(text)
  BY DataEnds
<1>5. ASSUME NEW p \in DataIn(text)
      PROVE  Nth(text, p) \in 1 .. icb.bits /\ BitLine(icb, text, p)
  BY <1>1, <1>3, <1>4, NthFacts DEF IcbTold
<1>6. \A m \in 1 .. icb.bits : \E p \in DataIn(text) : Nth(text, p) = m
  BY <1>1, <1>4 DEF IcbTold, Numbered
<1> QED
  BY <1>1, <1>2, <1>5, <1>6

LEMMA KeptIcbArrives ==
  ASSUME NEW text \in AnyText, text.exists, NEW icb \in Icb, IcbKept(icb, text)
  PROVE  IcbArrives(icb_generate(icb).payload, text)
<1> DEFINE bits == icb.bits
           q == bits \div Word
           r == bits % Word
           off == IcbOffset(bits)
           data == SubSeq(icb.data, 1, bits)
           zeros == Zeros(off)
           payload == icb_generate(icb).payload
<1>1. /\ bits \in Nat \ {0} /\ bits = Cardinality(DataIn(text))
      /\ icb.data \in Seq(Nat) /\ bits <= Len(icb.data) /\ Len(icb.data) \in Nat
      /\ \A p \in DataIn(text) : Nth(text, p) \in 1 .. bits /\ BitLine(icb, text, p)
  BY KeptIcbFacts
<1>2. /\ data \in Seq(Nat) /\ Len(data) = bits
      /\ \A m \in 1 .. bits : data[m] = icb.data[m]
  <2> DEFINE d == icb.data
             n == bits
  <2>1. n \in Nat /\ d \in Seq(Nat) /\ n <= Len(d) /\ Len(d) \in Nat
    BY <1>1
  <2> HIDE DEF d, n
  <2>2. /\ SubSeq(d, 1, n) \in Seq(Nat) /\ Len(SubSeq(d, 1, n)) = n
        /\ \A m \in 1 .. n : SubSeq(d, 1, n)[m] = d[m]
    <3>1. \A m \in 1 .. n : d[m] \in Nat
      BY <2>1, ElementOfSeq
    <3>2. 1 \in Int /\ n \in Int
      BY <2>1
    <3>3. /\ SubSeq(d, 1, n) \in Seq(Nat)
          /\ Len(SubSeq(d, 1, n)) = IF 1 <= n THEN n - 1 + 1 ELSE 0
          /\ \A m \in 1 .. n - 1 + 1 : SubSeq(d, 1, n)[m] = d[1 + m - 1]
      BY <3>1, <3>2, SubSeqProperties
    <3>4. n - 1 + 1 = n /\ \A m \in 1 .. n : 1 + m - 1 = m
      BY <2>1
    <3> QED
      BY <2>1, <3>3, <3>4
  <2> QED
    BY <2>2 DEF d, n
<1>3. Word \in Nat \ {0} /\ q \in Nat /\ r \in 0 .. Word - 1 /\ bits = q * Word + r
  BY <1>1, DivFacts, GeminiConstants
<1>4. off = IF r = 0 THEN 0 ELSE Word - r
  BY DEF IcbOffset
<1>5. payload = zeros \o data
  BY DEF icb_generate, Action
<1> HIDE DEF bits, q, r, off, data, zeros, payload
<1>6. off \in Nat /\ off < Word
  BY <1>3, <1>4
<1>7. off + bits = align(bits, Word)
  <2>1. \E m \in Nat : off + bits = m * Word
    <3>1. CASE r = 0
      BY <1>3, <1>4, <3>1
    <3>2. CASE r # 0
      <4>1. off + bits = (q + 1) * Word /\ q + 1 \in Nat
        BY <1>3, <1>4, <3>2, SMT
      <4> QED
        BY <4>1
    <3> QED
      BY <3>1, <3>2
  <2>2. PICK m \in Nat : off + bits = m * Word
    BY <2>1
  <2>3. bits \in Nat /\ bits <= m * Word /\ m * Word < bits + Word
    BY <1>1, <1>3, <1>6, <2>2
  <2> QED
    BY <1>3, <2>2, <2>3, AlignIs
<1>8. zeros \in Seq(Nat) /\ Len(zeros) = off /\ \A k \in 1 .. off : zeros[k] = Zero
  BY <1>6, ZerosFacts DEF zeros, Zeros
<1>9. Len(payload) = off + bits
  BY <1>2, <1>5, <1>8, ConcatProperties
<1>10. /\ \A k \in 1 .. off : payload[k] = zeros[k]
       /\ \A m \in 1 .. bits : payload[off + m] = data[m]
  <2>1. /\ \A k \in 1 .. off : (zeros \o data)[k] = zeros[k]
        /\ \A m \in 1 .. Len(data) : (zeros \o data)[off + m] = data[m]
    BY <1>2, <1>8, JoinedAt
  <2> QED
    BY <1>2, <1>5, <2>1
<1>11. Len(payload) - bits = off
  BY <1>1, <1>6, <1>9
<1>12. ASSUME NEW p \in DataIn(text)
       PROVE  payload[off + Nth(text, p)] = IF CharsAt(text, p) = <<"1">> THEN 1 ELSE Zero
  <2>1. Nth(text, p) \in 1 .. bits /\ BitLine(icb, text, p)
    BY <1>1
  <2>2. payload[off + Nth(text, p)] = Bit(CharsAt(text, p)[1])
    BY <1>2, <1>10, <2>1 DEF BitLine
  <2>3. CASE CharsAt(text, p) = <<"1">>
    BY <2>2, <2>3 DEF Bit
  <2>4. CASE CharsAt(text, p) = <<"0">>
    <3>1. CharsAt(text, p)[1] = "0" /\ CharsAt(text, p) # <<"1">>
      BY <2>4
    <3> QED
      BY <2>2, <3>1 DEF Bit
  <2> QED
    BY <2>1, <2>3, <2>4 DEF BitLine
<1>13. IcbArrives(payload, text)
  BY <1>1, <1>7, <1>8, <1>9, <1>10, <1>11, <1>12 DEF IcbArrives
<1> QED
  BY <1>13 DEF payload

(* Two texts of as many bits differ if and only if what was kept does.      *)
LEMMA KeptIcbsDiffer ==
  ASSUME NEW text1 \in AnyText, text1.exists, NEW icb1 \in Icb, IcbKept(icb1, text1),
         NEW text2 \in AnyText, text2.exists, NEW icb2 \in Icb, IcbKept(icb2, text2),
         icb1.bits = icb2.bits
  PROVE  Differ(text1, text2) <=> icb1.data # icb2.data
<1>1. /\ icb1.bits \in Nat
      /\ icb1.data \in Seq(Nat) /\ Len(icb1.data) = align(icb1.bits, Byte)
      /\ align(icb1.bits, Byte) \in Nat /\ align(icb1.bits, Byte) >= icb1.bits
      /\ \A p \in DataIn(text1) : Nth(text1, p) \in 1 .. icb1.bits /\ BitLine(icb1, text1, p)
      /\ \A m \in 1 .. icb1.bits : \E p \in DataIn(text1) : Nth(text1, p) = m
      /\ \A k \in icb1.bits + 1 .. align(icb1.bits, Byte) : icb1.data[k] = Zero
  BY KeptIcbFacts
<1>2. /\ icb2.data \in Seq(Nat) /\ Len(icb2.data) = align(icb1.bits, Byte)
      /\ \A p \in DataIn(text2) : Nth(text2, p) \in 1 .. icb1.bits /\ BitLine(icb2, text2, p)
      /\ \A m \in 1 .. icb1.bits : \E p \in DataIn(text2) : Nth(text2, p) = m
      /\ \A k \in icb1.bits + 1 .. align(icb1.bits, Byte) : icb2.data[k] = Zero
  BY KeptIcbFacts
<1>3. \A c, d \in {<<"0">>, <<"1">>} : Bit(c[1]) = Bit(d[1]) => c = d
  BY DEF Bit, Zero
<1>4. ASSUME Differ(text1, text2), icb1.data = icb2.data
      PROVE  FALSE
  <2>1. PICK p \in DataIn(text1), q \in DataIn(text2) :
          Nth(text1, p) = Nth(text2, q) /\ CharsAt(text1, p) # CharsAt(text2, q)
    BY <1>4 DEF Differ
  <2>2. Bit(CharsAt(text1, p)[1]) = Bit(CharsAt(text2, q)[1])
    BY <1>1, <1>2, <1>4, <2>1 DEF BitLine
  <2> QED
    BY <1>1, <1>2, <1>3, <2>1, <2>2 DEF BitLine
<1>5. ASSUME icb1.data # icb2.data
      PROVE  Differ(text1, text2)
  <2>1. PICK k \in 1 .. align(icb1.bits, Byte) : icb1.data[k] # icb2.data[k]
    BY <1>1, <1>2, <1>5, SeqEqual
  <2>2. k \in 1 .. icb1.bits
    <3> SUFFICES ASSUME k \notin 1 .. icb1.bits PROVE FALSE
      OBVIOUS
    <3>1. icb1.bits \in Nat
      BY <1>1
    <3>2. k \in icb1.bits + 1 .. align(icb1.bits, Byte)
      BY <2>1, <3>1
    <3>3. icb1.data[k] = Zero /\ icb2.data[k] = Zero
      BY <1>1, <1>2, <3>2
    <3> QED
      BY <2>1, <3>3
  <2>3. PICK p \in DataIn(text1), q \in DataIn(text2) : Nth(text1, p) = k /\ Nth(text2, q) = k
    BY <1>1, <1>2, <2>2
  <2>4. CharsAt(text1, p) # CharsAt(text2, q)
    BY <1>1, <1>2, <2>1, <2>3 DEF BitLine
  <2> QED
    BY <2>3, <2>4 DEF Differ
<1> QED
  BY <1>4, <1>5

(* Which actions there are, and where.                                      *)
JoinedOf(g, f, i, p, r) ==
  /\ g = <<f>> \o i \o p \o r
  /\ Len(g) = 1 + Len(i) + Len(p) + Len(r)
  /\ g[1] = f
  /\ \A k \in 1 .. Len(i) : g[1 + k] = i[k]
  /\ \A k \in 1 .. Len(p) : g[1 + Len(i) + k] = p[k]
  /\ \A k \in 1 .. Len(r) : g[1 + Len(i) + Len(p) + k] = r[k]

LEMMA FourJoined ==
  ASSUME NEW S, NEW f \in S, NEW i \in Seq(S), NEW p \in Seq(S), NEW r \in Seq(S)
  PROVE  \E g \in Seq(S) : JoinedOf(g, f, i, p, r)
<1> DEFINE g1 == <<f>>
           g2 == g1 \o i
           g3 == g2 \o p
           g4 == g3 \o r
           l == Len(i)
           m == Len(p)
           n == Len(r)
<1>1. l \in Nat /\ m \in Nat /\ n \in Nat
  BY LenProperties
<1>2. g1 \in Seq(S) /\ Len(g1) = 1 /\ g1[1] = f
  OBVIOUS
<1> HIDE DEF g1
<1>3. /\ g2 \in Seq(S) /\ Len(g2) = 1 + l
      /\ \A k \in 1 .. 1 : g2[k] = g1[k]
      /\ \A k \in 1 .. l : g2[1 + k] = i[k]
  <2>1. g1 \o i \in Seq(S) /\ Len(g1 \o i) = Len(g1) + Len(i)
    BY <1>2, ConcatProperties
  <2> DEFINE a == 1
  <2>2. a = Len(g1)
    BY <1>2
  <2> HIDE DEF a, l
  <2>3. /\ \A k \in 1 .. a : (g1 \o i)[k] = g1[k]
        /\ \A k \in 1 .. Len(i) : (g1 \o i)[a + k] = i[k]
    <3>1. g1 \in Seq(S) /\ i \in Seq(S)
      BY <1>2
    <3> HIDE DEF g2, g3, g4
    <3> QED
      BY <2>2, <3>1, JoinedAt
  <2> QED
    BY <1>2, <2>1, <2>3 DEF a, l
<1> HIDE DEF g2
<1>4. 1 + l \in Nat
  BY <1>1
<1>5. /\ g3 \in Seq(S) /\ Len(g3) = 1 + l + m
      /\ \A k \in 1 .. 1 + l : g3[k] = g2[k]
      /\ \A k \in 1 .. m : g3[1 + l + k] = p[k]
  <2> DEFINE a == 1 + l
  <2>1. a = Len(g2)
    BY <1>3
  <2> HIDE DEF a, l
  <2>2. g2 \o p \in Seq(S) /\ Len(g2 \o p) = Len(g2) + Len(p)
    BY <1>3, ConcatProperties
  <2>3. /\ \A k \in 1 .. a : (g2 \o p)[k] = g2[k]
        /\ \A k \in 1 .. Len(p) : (g2 \o p)[a + k] = p[k]
    BY <1>3, <2>1, JoinedAt
  <2> QED
    BY <1>3, <2>2, <2>3 DEF a
<1> HIDE DEF g3
<1>6. /\ g4 \in Seq(S) /\ Len(g4) = 1 + l + m + n
      /\ \A k \in 1 .. 1 + l + m : g4[k] = g3[k]
      /\ \A k \in 1 .. n : g4[1 + l + m + k] = r[k]
  <2> DEFINE a == 1 + l + m
  <2>1. a = Len(g3)
    BY <1>5
  <2> HIDE DEF a, l, m
  <2>2. g3 \o r \in Seq(S) /\ Len(g3 \o r) = Len(g3) + Len(r)
    BY <1>5, ConcatProperties
  <2>3. /\ \A k \in 1 .. a : (g3 \o r)[k] = g3[k]
        /\ \A k \in 1 .. Len(r) : (g3 \o r)[a + k] = r[k]
    BY <1>5, <2>1, JoinedAt
  <2> QED
    BY <1>5, <2>2, <2>3 DEF a
<1>7. g4 = <<f>> \o i \o p \o r
  BY DEF g3, g2, g1
<1> HIDE DEF g4, l, m, n
<1>8. g4[1] = f
  <2>1. 1 \in 1 .. 1 + l + m /\ 1 \in 1 .. 1 + l /\ 1 \in 1 .. 1
    BY <1>1
  <2> QED
    BY <1>2, <1>3, <1>5, <1>6, <2>1
<1>9. \A k \in 1 .. l : g4[1 + k] = i[k]
  <2>1. \A k \in 1 .. l : 1 + k \in 1 .. 1 + l + m /\ 1 + k \in 1 .. 1 + l
    BY <1>1
  <2> QED
    BY <1>3, <1>5, <1>6, <2>1
<1>10. \A k \in 1 .. m : g4[1 + l + k] = p[k]
  <2>1. \A k \in 1 .. m : 1 + l + k \in 1 .. 1 + l + m
    BY <1>1
  <2> QED
    BY <1>5, <1>6, <2>1
<1>11. JoinedOf(g4, f, i, p, r)
  BY <1>6, <1>7, <1>8, <1>9, <1>10 DEF l, m, n, JoinedOf
<1> QED
  BY <1>6, <1>11

(* The FCB, the ICBs there are, and the RAMs if there are any.              *)
IcbCount(b) ==
  IF b.icb.bits = 0 THEN 0
  ELSE IF b.post_icb.bits > 0 /\ b.post_icb.data # b.icb.data THEN 2 ELSE 1

LEMMA GeneratedActions ==
  ASSUME NEW b \in Object, BothIcbHold(b), NEW g, g = generate(b)
  PROVE  /\ IcbCount(b) \in 0 .. 2
         /\ DOMAIN g = 1 .. Len(g)
         /\ Len(g) = IF b.pcb = << >> THEN 1 + IcbCount(b) ELSE 2 + IcbCount(b)
         /\ g[1] = FcbAction(b)
         /\ IcbCount(b) >= 1 => g[2] = icb_generate(b.icb)
         /\ IcbCount(b) = 2 => g[3] = icb_generate(b.post_icb)
         /\ b.pcb # << >> => g[2 + IcbCount(b)] = PcbActions(b.pcb)[1]
<1> DEFINE f == FcbAction(b)
           i1 == icb_generate(b.icb)
           p1 == icb_generate(b.post_icb)
           r1 == PcbActions(b.pcb)[1]
           i == IcbActions(b)
           p == PostIcbActions(b)
           r == PcbActions(b.pcb)
           S == {f, i1, p1, r1}
           l == IF b.icb.bits = 0 THEN 0 ELSE 1
           m == IF b.post_icb.bits > 0 /\ b.post_icb.data # b.icb.data THEN 1 ELSE 0
           n == IF b.pcb = << >> THEN 0 ELSE 1
<1>1. b.icb.bits \in Nat /\ b.post_icb.bits \in Nat
  BY DEF Object, Icb
<1>2. b.post_icb.bits > 0 => b.icb.bits > 0
  BY <1>1 DEF BothIcbHold
<1>3. IcbCount(b) = l + m /\ l \in 0 .. 1 /\ m \in 0 .. 1 /\ (m = 1 => l = 1)
  BY <1>1, <1>2 DEF IcbCount
<1>4. i \in Seq(S) /\ Len(i) = l /\ (l = 1 => i[1] = i1)
  <2>1. i = IF l = 1 THEN <<i1>> ELSE << >>
    BY <1>1 DEF IcbActions
  <2>2. <<i1>> \in Seq(S)
    OBVIOUS
  <2> HIDE DEF i1, i, S, l
  <2> QED
    BY <1>3, <2>1, <2>2
<1>5. p \in Seq(S) /\ Len(p) = m /\ (m = 1 => p[1] = p1)
  <2>1. p = IF m = 1 THEN <<p1>> ELSE << >>
    BY DEF PostIcbActions
  <2>2. <<p1>> \in Seq(S)
    OBVIOUS
  <2> HIDE DEF p1, p, S, m
  <2> QED
    BY <1>3, <2>1, <2>2
<1>6. r \in Seq(S) /\ Len(r) = n /\ n \in 0 .. 1 /\ (n = 1 => r[1] = r1)
  <2>1. r1 \in S
    OBVIOUS
  <2>2. CASE b.pcb = << >>
    BY <2>2 DEF PcbActions
  <2>3. CASE b.pcb # << >>
    <3>1. PICK a : r = <<a>>
      BY <2>3 DEF PcbActions
    <3>2. r1 = a
      BY <3>1
    <3> HIDE DEF r, S, r1
    <3> QED
      BY <2>1, <2>3, <3>1, <3>2
  <2> QED
    BY <2>2, <2>3
<1>7. f \in S /\ g = <<f>> \o i \o p \o r
  BY DEF generate
<1> HIDE DEF f, i1, p1, r1, i, p, r, S
<1>8. /\ Len(g) = 1 + Len(i) + Len(p) + Len(r) /\ g \in Seq(S)
      /\ g[1] = f
      /\ \A k \in 1 .. Len(i) : g[1 + k] = i[k]
      /\ \A k \in 1 .. Len(p) : g[1 + Len(i) + k] = p[k]
      /\ \A k \in 1 .. Len(r) : g[1 + Len(i) + Len(p) + k] = r[k]
  <2>1. PICK h \in Seq(S) : JoinedOf(h, f, i, p, r)
    <3> HIDE DEF l, m, n
    <3>1. f \in S /\ i \in Seq(S) /\ p \in Seq(S) /\ r \in Seq(S)
      BY <1>4, <1>5, <1>6, <1>7
    <3> QED
      BY <3>1, FourJoined
  <2>2. g = h
    BY <1>7, <2>1 DEF JoinedOf
  <2> QED
    BY <2>1, <2>2 DEF JoinedOf
<1>9. DOMAIN g = 1 .. Len(g)
  BY <1>8, LenProperties
<1>10. b.pcb = << >> <=> n = 0
  OBVIOUS
<1> HIDE DEF l, m, n
<1>11. Len(g) = IF b.pcb = << >> THEN 1 + IcbCount(b) ELSE 2 + IcbCount(b)
  BY <1>3, <1>4, <1>5, <1>6, <1>8, <1>10
<1>12. l = 1 => g[2] = i1
  <2>1. l = 1 => 1 \in 1 .. Len(i)
    BY <1>4
  <2> QED
    BY <1>4, <1>8, <2>1
<1>13. m = 1 => g[3] = p1
  <2>1. m = 1 => 1 \in 1 .. Len(p) /\ 1 + Len(i) + 1 = 3
    BY <1>3, <1>4, <1>5
  <2> QED
    BY <1>5, <1>8, <2>1
<1>14. n = 1 => g[2 + l + m] = r1
  <2>1. n = 1 => 1 \in 1 .. Len(r) /\ 1 + Len(i) + Len(p) + 1 = 2 + l + m
    BY <1>3, <1>4, <1>5, <1>6
  <2> QED
    BY <1>6, <1>8, <2>1
<1>15. 2 + l + m = 2 + IcbCount(b)
  BY <1>3
<1>16. IcbCount(b) \in 0 .. 2 /\ (IcbCount(b) >= 1 => l = 1) /\ (IcbCount(b) = 2 => m = 1)
  BY <1>3
<1> QED
  BY <1>6, <1>8, <1>9, <1>10, <1>11, <1>12, <1>13, <1>14, <1>15, <1>16 DEF f, i1, p1, r1

LEMMA ActionNames ==
  ASSUME NEW b \in Object, BothIcbHold(b), NEW g, g = generate(b)
  PROVE  /\ {n \in DOMAIN g : g[n].action = "icb_config"} = 2 .. IcbCount(b) + 1
         /\ {n \in DOMAIN g : g[n].action = "pcb_config_with_parity"} =
              IF b.pcb = << >> THEN {} ELSE {Len(g)}
<1> DEFINE c == IcbCount(b)
<1>1. /\ c \in 0 .. 2
      /\ DOMAIN g = 1 .. Len(g)
      /\ Len(g) = IF b.pcb = << >> THEN 1 + c ELSE 2 + c
      /\ g[1] = FcbAction(b)
      /\ c >= 1 => g[2] = icb_generate(b.icb)
      /\ c = 2 => g[3] = icb_generate(b.post_icb)
      /\ b.pcb # << >> => g[2 + c] = PcbActions(b.pcb)[1]
  BY GeneratedActions
<1>2. FcbAction(b).action \in {"old_fcb_config", "fcb_config"}
  BY DEF FcbAction, ScanChainAction, MembankAction, Action
<1>3. icb_generate(b.icb).action = "icb_config" /\ icb_generate(b.post_icb).action = "icb_config"
  BY DEF icb_generate, Action
<1>4. b.pcb # << >> => PcbActions(b.pcb)[1].action = "pcb_config_with_parity"
  BY DEF PcbActions, Action
<1> HIDE DEF c
<1>5. g[1].action \notin {"icb_config", "pcb_config_with_parity"}
  BY <1>1, <1>2
<1>6. \A n \in 2 .. c + 1 : g[n].action = "icb_config"
  <2>1. c = 0 \/ c = 1 \/ c = 2
    BY <1>1
  <2>2. ASSUME NEW n \in 2 .. c + 1
        PROVE  (n = 2 /\ c >= 1) \/ (n = 3 /\ c = 2)
    <3>1. CASE c = 0
      BY <3>1
    <3>2. CASE c = 1
      BY <3>2
    <3>3. CASE c = 2
      BY <3>3
    <3> QED
      BY <2>1, <3>1, <3>2, <3>3
  <2> QED
    BY <1>1, <1>3, <2>2
<1>7. \A n \in DOMAIN g : n = 1 \/ n \in 2 .. c + 1 \/ (b.pcb # << >> /\ n = 2 + c)
  BY <1>1
<1>8. b.pcb # << >> => Len(g) = 2 + c /\ 2 + c \in DOMAIN g /\ 2 + c \notin 2 .. c + 1
  BY <1>1
<1>9. 2 .. c + 1 \subseteq DOMAIN g
  BY <1>1
<1>10. {n \in DOMAIN g : g[n].action = "icb_config"} = 2 .. c + 1
  BY <1>1, <1>4, <1>5, <1>6, <1>7, <1>9
<1>11. {n \in DOMAIN g : g[n].action = "pcb_config_with_parity"} =
         IF b.pcb = << >> THEN {} ELSE {Len(g)}
  <2>1. ASSUME NEW n \in DOMAIN g
        PROVE  g[n].action = "pcb_config_with_parity" <=> b.pcb # << >> /\ n = 2 + c
    BY <1>1, <1>4, <1>5, <1>6, <1>7, <1>8
  <2>2. CASE b.pcb = << >>
    BY <2>1, <2>2
  <2>3. CASE b.pcb # << >>
    BY <1>8, <2>1, <2>3
  <2> QED
    BY <2>2, <2>3
<1> QED
  BY <1>10, <1>11 DEF c

(***************************************************************************)
(* What is in the files after a run that succeeded                          *)
(***************************************************************************)
LEMMA ActionsAreGenerated ==
  ASSUME IInv, TInv, pc = "success"
  PROVE  /\ Actions = generate(bitobj) /\ Kept
         /\ bitobj \in Object /\ project \in Project
         /\ FcbHolds(bitobj) /\ BothIcbHold(bitobj) /\ PcbHolds(bitobj.pcb)
         /\ FcbKept(bitobj.fcb, project.fcb, bitobj.protocol = "ql_memory_bank")
         /\ IcbKept(bitobj.icb, project.icb) /\ IcbKept(bitobj.post_icb, project.post_icb)
         /\ RamsKept(bitobj.pcb, project.bram.grid)
<1>1. cfgbit = {generate(bitobj)} /\ Generates(bitobj) /\ Kept
  BY DEF TInv
<1>2. Actions = generate(bitobj)
  <2>1. cfgbit # {} /\ \A actions \in cfgbit : actions = generate(bitobj)
    BY <1>1
  <2> QED
    BY <2>1 DEF Actions
<1>3. bitobj \in Object /\ project \in Project
  BY DEF IInv, TypeOK
<1> QED
  BY <1>1, <1>2, <1>3 DEF Kept, IsBank, Texts, Generates, AssertionsHold

(* After any run that succeeded, whatever texts it read: each character of  *)
(* each line of the FCB is a bit of the payload in its place, no other bit  *)
(* is set, and a memory bank gets each of its word lines exactly once.      *)
THEOREM FcbBitsAlwaysArrive == Spec => []FcbBitsArrive
<1>1. IInv /\ TInv => FcbBitsArrive
  <2> SUFFICES ASSUME IInv, TInv, pc = "success"
               PROVE  /\ FcbArrives(Actions[1].payload, project.fcb)
                      /\ project.device.protocol = "ql_memory_bank" =>
                           EachWordLineOnce(project.fcb)
    BY DEF FcbBitsArrive
  <2>1. PICK b, g, text : b = bitobj /\ g = generate(b) /\ text = project.fcb
    OBVIOUS
  <2>2. /\ b \in Object /\ FcbHolds(b) /\ BothIcbHold(b) /\ text \in AnyText
        /\ FcbKept(b.fcb, text, b.protocol = "ql_memory_bank")
        /\ Actions = g /\ b.protocol = project.device.protocol
    BY <2>1, ActionsAreGenerated DEF Project, Kept
  <2>3. g[1] = FcbAction(b)
    BY <2>1, <2>2, GeneratedActions
  <2>4. /\ FcbArrives(FcbAction(b).payload, text)
        /\ b.protocol = "ql_memory_bank" => EachWordLineOnce(text)
    BY <2>2, KeptFcbArrives
  <2> QED
    BY <2>1, <2>2, <2>3, <2>4
<1>2. Init => IInv /\ TInv
  BY InitInv, InitTold
<1>3. IInv /\ TInv /\ [Next]_vars => IInv' /\ TInv'
  BY NextInv, NextTold
<1> QED
  BY <1>1, <1>2, <1>3, PTL DEF Spec

(* After any run that succeeded: the bits of the ICB's text are the last of *)
(* its action's payload in order with zeros in front, and a second action   *)
(* with the bits of the text of after the configuration follows if and only *)
(* if one of them differs.                                                  *)
THEOREM IcbBitsAlwaysArrive == Spec => []IcbBitsArrive
<1>1. IInv /\ TInv => IcbBitsArrive
  <2> DEFINE icb == project.icb
             post == project.post_icb
             count == IF ~icb.exists THEN 0
                      ELSE IF post.exists /\ Differ(icb, post) THEN 2 ELSE 1
  <2> SUFFICES ASSUME IInv, TInv, pc = "success"
               PROVE  /\ Named("icb_config") = 2 .. count + 1
                      /\ count >= 1 => IcbArrives(Actions[2].payload, icb)
                      /\ count = 2 => IcbArrives(Actions[3].payload, post)
    BY Zenon DEF IcbBitsArrive
  <2>1. PICK b, g, text1, text2 :
          b = bitobj /\ g = generate(b) /\ text1 = icb /\ text2 = post
    OBVIOUS
  <2>2. /\ b \in Object /\ BothIcbHold(b) /\ Actions = g
        /\ text1 \in AnyText /\ text2 \in AnyText
        /\ IcbKept(b.icb, text1) /\ IcbKept(b.post_icb, text2)
    BY <2>1, ActionsAreGenerated DEF Project
  <2>3. b.icb \in Icb /\ b.post_icb \in Icb
    BY <2>2 DEF Object
  <2>4. count = IcbCount(b)
    <3>1. CASE ~text1.exists
      <4>1. b.icb.bits = 0
        BY <2>2, <3>1 DEF IcbKept, NoIcb
      <4> QED
        BY <2>1, <3>1, <4>1 DEF IcbCount
    <3>2. CASE text1.exists /\ ~text2.exists
      <4>1. b.post_icb.bits = 0 /\ b.icb.bits > 0
        BY <2>2, <3>2 DEF IcbKept, NoIcb
      <4> QED
        BY <2>1, <3>2, <4>1 DEF IcbCount
    <3>3. CASE text1.exists /\ text2.exists
      <4>1. b.post_icb.bits > 0 /\ b.icb.bits > 0
        BY <2>2, <3>3 DEF IcbKept
      <4>2. b.icb.bits = b.post_icb.bits
        BY <2>2, <4>1 DEF BothIcbHold
      <4>3. Differ(text1, text2) <=> b.icb.data # b.post_icb.data
        BY <2>2, <2>3, <3>3, <4>2, KeptIcbsDiffer
      <4> QED
        BY <2>1, <3>3, <4>1, <4>3 DEF IcbCount
    <3> QED
      BY <3>1, <3>2, <3>3
  <2>5. Named("icb_config") = 2 .. count + 1
    <3>1. {n \in DOMAIN g : g[n].action = "icb_config"} = 2 .. IcbCount(b) + 1
      BY <2>1, <2>2, ActionNames
    <3>2. Named("icb_config") = {n \in DOMAIN g : g[n].action = "icb_config"}
      BY <2>2 DEF Named
    <3> HIDE DEF count
    <3> QED
      BY <2>4, <3>1, <3>2
  <2>6. /\ count >= 1 => g[2] = icb_generate(b.icb)
        /\ count = 2 => g[3] = icb_generate(b.post_icb)
    <3>1. /\ IcbCount(b) >= 1 => g[2] = icb_generate(b.icb)
          /\ IcbCount(b) = 2 => g[3] = icb_generate(b.post_icb)
      BY <2>1, <2>2, GeneratedActions
    <3> HIDE DEF count
    <3> QED
      BY <2>4, <3>1
  <2>7. (count >= 1 => text1.exists) /\ (count = 2 => text2.exists)
    BY <2>1
  <2>8. text1.exists => IcbArrives(icb_generate(b.icb).payload, text1)
    BY <2>2, <2>3, KeptIcbArrives
  <2>9. text2.exists => IcbArrives(icb_generate(b.post_icb).payload, text2)
    BY <2>2, <2>3, KeptIcbArrives
  <2> HIDE DEF count
  <2> QED
    BY <2>1, <2>2, <2>5, <2>6, <2>7, <2>8, <2>9
<1>2. Init => IInv /\ TInv
  BY InitInv, InitTold
<1>3. IInv /\ TInv /\ [Next]_vars => IInv' /\ TInv'
  BY NextInv, NextTold
<1> QED
  BY <1>1, <1>2, <1>3, PTL DEF Spec

(***************************************************************************)
(* The places of the bits of the RAMs                                       *)
(***************************************************************************)
LEMMA PlaceInTable ==
  ASSUME NEW count \in Nat, NEW row \in Nat, NEW m \in 0 .. count - 1, NEW c \in 0 .. row - 1
  PROVE  /\ m * row + c + 1 \in 1 .. count * row
         /\ (m * row + c + 1 - 1) \div row = m
         /\ (m * row + c + 1 - 1) % row = c
<1>1. m \in Nat /\ c \in Nat /\ row \in Nat \ {0} /\ m + 1 \in 1 .. count /\ c + 1 \in 1 .. row
  OBVIOUS
<1> DEFINE v == m * row
<1>2. v \in Nat
  BY <1>1
<1>3. (m + 1 - 1) * row = v
  BY <1>1
<1>4. (m + 1 - 1) * row + (c + 1) \in 1 .. count * row
  BY <1>1, PlaceInRows
<1>5. (m * row + c) \div row = m /\ (m * row + c) % row = c
  BY <1>1, RowAndColumn
<1> HIDE DEF v
<1>6. v + c + 1 = v + (c + 1) /\ v + c + 1 - 1 = v + c
  BY <1>1, <1>2
<1>7. v + c + 1 \in 1 .. count * row
  BY <1>3, <1>4, <1>6
<1> QED
  BY <1>5, <1>6, <1>7 DEF v

(* The sizes, in halves.                                                    *)
LEMMA Sizes ==
  \E u, p \in Nat \ {0} :
    /\ UserBits = 2 * u /\ UserBits \div 2 = u
    /\ ParityBits = 2 * p /\ ParityBits \div 2 = p
    /\ p < u
    /\ HalfWord = u + p
    /\ PcbBits = 2 * (UnitSize * (u + p)) /\ PcbBits \div 2 = UnitSize * (u + p)
    /\ PcbPayloadBits = UnitSize * (2 * UserBits)
<1>1. ASSUME NEW n \in Nat \ {0}, n % 2 = 0
      PROVE  n \div 2 \in Nat \ {0} /\ n = 2 * (n \div 2)
  <2>1. n \in Nat /\ 2 \in Nat \ {0}
    OBVIOUS
  <2>2. n \div 2 \in Nat /\ n = (n \div 2) * 2 + (n % 2)
    BY <2>1, DivFacts
  <2> QED
    BY <1>1, <2>1, <2>2
<1> DEFINE u == UserBits \div 2
           p == ParityBits \div 2
           n == UnitSize * (u + p)
<1>2. /\ u \in Nat \ {0} /\ UserBits = 2 * u /\ p \in Nat \ {0} /\ ParityBits = 2 * p
  BY <1>1, GeminiConstants
<1>3. UnitSize \in Nat \ {0} /\ ParityBits < UserBits
  BY GeminiConstants
<1>4. \A x \in Nat : (2 * x) \div 2 = x
  <2> TAKE x \in Nat
  <2>1. (x * 2 + 0) \div 2 = x
    BY RowAndColumn
  <2> QED
    BY <2>1
<1>5. HalfWord = (2 * (u + p)) \div 2
  <2>1. UserBits + ParityBits = 2 * (u + p)
    BY <1>2
  <2> QED
    BY <2>1 DEF HalfWord
<1>6. PcbBits = 2 * n
  <2>1. UserBits + ParityBits = 2 * (u + p)
    BY <1>2
  <2> HIDE DEF u, p
  <2>2. (2 * (u + p)) * UnitSize = 2 * (UnitSize * (u + p))
    BY <1>2, <1>3
  <2> QED
    BY <2>1, <2>2 DEF PcbBits
<1> HIDE DEF u, p
<1>7. u + p \in Nat /\ n \in Nat
  BY <1>2, <1>3
<1>8. HalfWord = u + p
  BY <1>4, <1>5, <1>7
<1>9. PcbBits \div 2 = n
  <2> HIDE DEF n
  <2> QED
    BY <1>4, <1>6, <1>7
<1>10. PcbPayloadBits = UnitSize * (2 * UserBits)
  <2>1. UserBits \in Nat
    BY <1>2
  <2> QED
    BY <1>3, <2>1 DEF PcbPayloadBits
<1>11. p < u
  BY <1>2, <1>3
<1> QED
  BY <1>2, <1>6, <1>8, <1>9, <1>10, <1>11 DEF u, p

(* A bit of a RAM, by its half, its word and its number in the word; and    *)
(* its place in the payload.                                                *)
Halves == 0 .. 1
Words == 0 .. UnitSize - 1
Bits == 0 .. HalfWord - 1
Cell(h, w, b) == h * (PcbBits \div 2) + (w * HalfWord + b)
Spot(h, w, b) ==
  w * 2 * UserBits +
    IF b < UserBits \div 2
      THEN h * (UserBits \div 2) + b
      ELSE UserBits + h * (ParityBits \div 2) + b - UserBits \div 2

LEMMA CellFacts ==
  ASSUME NEW h \in Halves, NEW w \in Words, NEW b \in Bits
  PROVE  /\ Cell(h, w, b) \in 0 .. PcbBits - 1
         /\ PlaceOf(Cell(h, w, b)) = Spot(h, w, b)
<1>1. PICK u, p \in Nat \ {0} :
        /\ UserBits = 2 * u /\ UserBits \div 2 = u
        /\ ParityBits = 2 * p /\ ParityBits \div 2 = p
        /\ HalfWord = u + p
        /\ PcbBits = 2 * (UnitSize * (u + p)) /\ PcbBits \div 2 = UnitSize * (u + p)
  BY Sizes
<1> DEFINE n == UnitSize
           m == u + p
           half == n * m
           rest == w * m + b
           i == h * half + rest
<1>2. /\ n \in Nat \ {0} /\ m \in Nat \ {0} /\ h \in 0 .. 1 /\ w \in 0 .. n - 1 /\ b \in 0 .. m - 1
      /\ h \in Nat /\ w \in Nat /\ b \in Nat
  BY <1>1, GeminiConstants DEF Halves, Words, Bits
<1> HIDE DEF n, m
<1>3. half \in Nat /\ half > 0
  BY <1>2
<1>4. rest \in 0 .. half - 1
  <2>1. w * m + b + 1 \in 1 .. n * m
    BY <1>2, PlaceInTable
  <2>2. w * m \in Nat
    BY <1>2
  <2> QED
    BY <1>2, <2>1, <2>2
<1>5. rest \div m = w
  BY <1>2, RowAndColumn
<1> HIDE DEF half
<1>6. i \div half = h /\ i % half = rest
  <2> HIDE DEF rest
  <2>1. half \in Nat \ {0}
    BY <1>3
  <2> QED
    BY <1>2, <1>4, <2>1, RowAndColumn
<1>7. i % m = b
  <2> DEFINE q == h * n + w
  <2>1. q \in Nat
    BY <1>2
  <2>2. i = q * m + b
    BY <1>2 DEF half
  <2> HIDE DEF q, i
  <2>3. (q * m + b) % m = b
    BY <1>2, <2>1, RowAndColumn
  <2> QED
    BY <2>2, <2>3
<1>8. i \in 0 .. 2 * half - 1
  <2> HIDE DEF rest
  <2>1. CASE h = 0
    BY <1>3, <1>4, <2>1
  <2>2. CASE h = 1
    BY <1>3, <1>4, <2>2
  <2> QED
    BY <1>2, <2>1, <2>2
<1> HIDE DEF i, rest
<1>9. Cell(h, w, b) = i
  BY <1>1 DEF Cell, i, rest, half, n, m
<1>10. PcbBits = 2 * half /\ PcbBits \div 2 = half /\ HalfWord = m
  BY <1>1 DEF half, n, m
<1>11. HalfOf(i) = h /\ WordOf(i) = w /\ BitOf(i) = b
  BY <1>5, <1>6, <1>7, <1>10 DEF HalfOf, WordOf, BitOf
<1>12. PlaceOf(i) = Spot(h, w, b)
  BY <1>11 DEF PlaceOf, Spot
<1> QED
  BY <1>8, <1>9, <1>10, <1>12

LEMMA EveryCell ==
  ASSUME NEW i \in 0 .. PcbBits - 1
  PROVE  \E h \in Halves, w \in Words, b \in Bits : i = Cell(h, w, b)
<1>1. PICK u, p \in Nat \ {0} :
        /\ HalfWord = u + p
        /\ PcbBits = 2 * (UnitSize * (u + p)) /\ PcbBits \div 2 = UnitSize * (u + p)
  BY Sizes
<1> DEFINE n == UnitSize
           m == u + p
           half == n * m
           h == i \div half
           rest == i % half
           w == rest \div m
           b == rest % m
<1>2. n \in Nat \ {0} /\ m \in Nat \ {0}
  BY <1>1, GeminiConstants
<1>3. PcbBits = 2 * half /\ PcbBits \div 2 = half /\ HalfWord = m
  BY <1>1
<1> HIDE DEF n, m
<1>4. half \in Nat \ {0}
  BY <1>2
<1> HIDE DEF half
<1>5. i \in Nat /\ i < 2 * half
  BY <1>3, <1>4
<1>6. h \in Nat /\ rest \in 0 .. half - 1 /\ i = h * half + rest
  BY <1>4, <1>5, DivFacts
<1> HIDE DEF h, rest
<1>7. h \in Halves
  <2>1. CASE h >= 2
    <3>1. PICK d \in Nat : h = 2 + d
      <4>1. h - 2 \in Nat
        BY <1>6, <2>1
      <4> QED
        BY <1>6, <4>1
    <3>2. (2 + d) * half = 2 * half + d * half /\ d * half \in Nat
      BY <1>4, <3>1
    <3> QED
      BY <1>4, <1>5, <1>6, <3>1, <3>2
  <2> QED
    BY <1>6, <2>1 DEF Halves
<1>8. w \in Nat /\ b \in 0 .. m - 1 /\ rest = w * m + b
  <2>1. rest \in Nat
    BY <1>6
  <2> QED
    BY <1>2, <2>1, DivFacts
<1> HIDE DEF w, b
<1>9. w \in 0 .. n - 1
  <2>1. CASE w >= n
    <3>1. PICK d \in Nat : w = n + d
      <4>1. w - n \in Nat
        BY <1>2, <1>8, <2>1
      <4> QED
        BY <1>2, <1>8, <4>1
    <3>2. (n + d) * m = n * m + d * m /\ d * m \in Nat /\ n * m \in Nat
      BY <1>2, <3>1
    <3> QED
      BY <1>2, <1>4, <1>6, <1>8, <3>1, <3>2 DEF half
  <2> QED
    BY <1>2, <1>8, <2>1
<1>10. i = Cell(h, w, b)
  BY <1>3, <1>6, <1>8 DEF Cell
<1> QED
  BY <1>3, <1>7, <1>8, <1>9, <1>10 DEF Words, Bits, n

(* The tables of the generator, at a bit of a word.                         *)
LEMMA UserDataAt ==
  ASSUME NEW data, NEW w \in Words, NEW c \in 0 .. UserBits - 1
  PROVE  get_pcb_user_data(data)[w * UserBits + c + 1] =
           FromHalves(data, w, c, 0, UserBits \div 2)
<1>1. UnitSize \in Nat /\ UserBits \in Nat /\ w \in 0 .. UnitSize - 1
  BY GeminiConstants DEF Words
<1> DEFINE k == w * UserBits + c + 1
<1>2. /\ k \in 1 .. UnitSize * UserBits
      /\ (k - 1) \div UserBits = w /\ (k - 1) % UserBits = c
  BY <1>1, PlaceInTable
<1>3. UnitSize * UserBits = UserBits * UnitSize
  BY <1>1
<1> HIDE DEF k
<1>4. get_pcb_user_data(data)[k] =
        FromHalves(data, (k - 1) \div UserBits, (k - 1) % UserBits, 0, UserBits \div 2)
  BY <1>2, <1>3 DEF get_pcb_user_data
<1>5. get_pcb_user_data(data)[k] = FromHalves(data, w, c, 0, UserBits \div 2)
  BY <1>2, <1>4
<1> QED
  BY <1>5 DEF k

LEMMA ParityAt ==
  ASSUME NEW data, NEW w \in Words, NEW c \in 0 .. ParityBits - 1
  PROVE  get_pcb_parity(data)[w * ParityBits + c + 1] =
           FromHalves(data, w, c, UserBits \div 2, ParityBits \div 2)
<1>1. UnitSize \in Nat /\ ParityBits \in Nat /\ w \in 0 .. UnitSize - 1
  BY GeminiConstants DEF Words
<1> DEFINE k == w * ParityBits + c + 1
<1>2. /\ k \in 1 .. UnitSize * ParityBits
      /\ (k - 1) \div ParityBits = w /\ (k - 1) % ParityBits = c
  BY <1>1, PlaceInTable
<1>3. UnitSize * ParityBits = ParityBits * UnitSize
  BY <1>1
<1> HIDE DEF k
<1>4. get_pcb_parity(data)[k] =
        FromHalves(data, (k - 1) \div ParityBits, (k - 1) % ParityBits,
                   UserBits \div 2, ParityBits \div 2)
  BY <1>2, <1>3 DEF get_pcb_parity
<1>5. get_pcb_parity(data)[k] = FromHalves(data, w, c, UserBits \div 2, ParityBits \div 2)
  BY <1>2, <1>4
<1> QED
  BY <1>5 DEF k

LEMMA AdjustedAt ==
  ASSUME NEW parity, NEW w \in Words, NEW c \in 0 .. UserBits - 1
  PROVE  adjust_data_bit_size(parity)[w * UserBits + c + 1] =
           IF c < ParityBits THEN parity[w * ParityBits + c + 1] ELSE Zero
<1>1. UnitSize \in Nat /\ UserBits \in Nat /\ w \in 0 .. UnitSize - 1
  BY GeminiConstants DEF Words
<1> DEFINE k == w * UserBits + c + 1
           at(unit, bit) == IF bit < ParityBits THEN parity[unit * ParityBits + bit + 1] ELSE Zero
<1>2. /\ k \in 1 .. UnitSize * UserBits
      /\ (k - 1) \div UserBits = w /\ (k - 1) % UserBits = c
  BY <1>1, PlaceInTable
<1>3. UnitSize * UserBits = UserBits * UnitSize
  BY <1>1
<1> HIDE DEF k
<1>4. adjust_data_bit_size(parity)[k] = at((k - 1) \div UserBits, (k - 1) % UserBits)
  BY <1>2, <1>3 DEF adjust_data_bit_size
<1>5. adjust_data_bit_size(parity)[k] = at(w, c)
  <2> HIDE DEF at
  <2> QED
    BY <1>2, <1>4
<1> QED
  BY <1>5 DEF k

LEMMA AlternateAt ==
  ASSUME NEW data0, NEW data1, NEW w \in Words, NEW c \in 0 .. 2 * UserBits - 1
  PROVE  /\ w * (2 * UserBits) + c + 1 \in 1 .. PcbPayloadBits
         /\ append_alternate_data(data0, data1)[w * (2 * UserBits) + c + 1] =
              IF c < UserBits THEN data0[w * UserBits + c + 1]
              ELSE data1[w * UserBits + (c - UserBits) + 1]
<1>1. UnitSize \in Nat /\ UserBits \in Nat /\ w \in 0 .. UnitSize - 1 /\ 2 * UserBits \in Nat
  BY GeminiConstants DEF Words
<1> DEFINE row == 2 * UserBits
           k == w * row + c + 1
           at(unit, bit) == IF bit < UserBits THEN data0[unit * UserBits + bit + 1]
                            ELSE data1[unit * UserBits + bit - UserBits + 1]
<1>2. /\ k \in 1 .. UnitSize * row
      /\ (k - 1) \div row = w /\ (k - 1) % row = c
  <2> HIDE DEF row
  <2>1. row \in Nat /\ c \in 0 .. row - 1
    BY <1>1 DEF row
  <2> QED
    BY <1>1, <2>1, PlaceInTable
<1>3. UnitSize * row = PcbPayloadBits
  BY Sizes
<1> HIDE DEF k
<1>4. append_alternate_data(data0, data1)[k] = at((k - 1) \div row, (k - 1) % row)
  BY <1>2, <1>3 DEF append_alternate_data
<1>5. append_alternate_data(data0, data1)[k] = at(w, c)
  <2> HIDE DEF at, row
  <2> QED
    BY <1>2, <1>4
<1>6. w * UserBits + c - UserBits + 1 = w * UserBits + (c - UserBits) + 1
  <2>1. w * UserBits \in Nat /\ c \in Int
    BY <1>1
  <2> QED
    BY <1>1, <2>1
<1> QED
  BY <1>2, <1>3, <1>5, <1>6 DEF k

(* Each bit of a RAM is at its place, and a place that is no bit's is 0.    *)
LEMMA SpotFacts ==
  ASSUME NEW data, NEW h \in Halves, NEW w \in Words, NEW b \in Bits
  PROVE  /\ Spot(h, w, b) + 1 \in 1 .. PcbPayloadBits
         /\ PcbPayload(data)[Spot(h, w, b) + 1] = data[Cell(h, w, b) + 1]
<1>1. PICK u, p \in Nat \ {0} :
        /\ UserBits = 2 * u /\ UserBits \div 2 = u
        /\ ParityBits = 2 * p /\ ParityBits \div 2 = p
        /\ p < u
        /\ HalfWord = u + p
        /\ PcbBits \div 2 = UnitSize * (u + p)
  BY Sizes
<1>2. /\ h \in 0 .. 1 /\ w \in Nat /\ b \in 0 .. u + p - 1
      /\ UnitSize \in Nat
  BY <1>1, GeminiConstants DEF Halves, Words, Bits
<1> DEFINE half == PcbBits \div 2
           v == w * HalfWord
           user == get_pcb_user_data(data)
           parity == get_pcb_parity(data)
           more == adjust_data_bit_size(parity)
           payload == PcbPayload(data)
           c == IF b < u THEN h * u + b ELSE UserBits + h * p + b - u
           d == w * (2 * UserBits)
<1>3. half \in Nat /\ v \in Nat /\ d \in Nat
  <2>1. u + p \in Nat /\ HalfWord \in Nat /\ 2 * UserBits \in Nat
    BY <1>1
  <2> QED
    BY <1>1, <1>2, <2>1
<1>4. h * u \in Nat /\ h * p \in Nat /\ h * u <= u /\ h * p <= p
  <2>1. CASE h = 0
    BY <2>1
  <2>2. CASE h = 1
    BY <2>2
  <2> QED
    BY <1>2, <2>1, <2>2
<1>5. w * 2 * UserBits = d
  BY <1>1, <1>2
<1>6. Spot(h, w, b) = d + c
  BY <1>1, <1>5 DEF Spot
<1>7. payload = append_alternate_data(user, more)
  BY DEF PcbPayload
<1>8. Cell(h, w, b) = h * half + (v + b)
  BY DEF Cell
<1>9. h * half \in Nat
  BY <1>2, <1>3
<1> HIDE DEF user, parity, more, payload, half, v
<1>10. CASE b < u
  <2>1. c = h * u + b /\ c \in 0 .. UserBits - 1 /\ c \in 0 .. 2 * UserBits - 1
    <3> DEFINE e == h * u
    <3>1. c = e + b /\ e \in Nat /\ e <= u
      BY <1>4, <1>10
    <3> HIDE DEF e, c
    <3> QED
      BY <1>1, <1>2, <1>10, <3>1 DEF e
  <2>2. c \div u = h /\ c % u = b
    <3>1. b \in 0 .. u - 1 /\ h \in Nat
      BY <1>2, <1>10
    <3> QED
      BY <2>1, <3>1, RowAndColumn
  <2> HIDE DEF c
  <2>3. /\ d + c + 1 \in 1 .. PcbPayloadBits
        /\ payload[d + c + 1] = user[w * UserBits + c + 1]
    <3>1. c < UserBits
      BY <1>1, <2>1
    <3> QED
      BY <1>7, <2>1, <3>1, AlternateAt
  <2>4. user[w * UserBits + c + 1] = FromHalves(data, w, c, 0, u)
    BY <1>1, <2>1, UserDataAt DEF user
  <2>5. FromHalves(data, w, c, 0, u) = data[h * half + v + 0 + b + 1]
    BY <2>2 DEF FromHalves, half, v
  <2>6. h * half + v + 0 + b + 1 = h * half + (v + b) + 1
    <3> DEFINE e == h * half
    <3>1. e \in Nat
      BY <1>9
    <3> HIDE DEF e
    <3>2. e + v + 0 + b + 1 = e + (v + b) + 1
      BY <1>2, <1>3, <3>1
    <3> QED
      BY <3>2 DEF e
  <2> QED
    BY <1>6, <1>8, <2>3, <2>4, <2>5, <2>6 DEF payload
<1>11. CASE ~(b < u)
  <2> DEFINE a == b - u
             e == h * p
             f == e + a
  <2>1. a \in 0 .. p - 1 /\ e \in Nat /\ e <= p
    BY <1>2, <1>4, <1>11
  <2>2. c = UserBits + e + b - u
    BY <1>11
  <2> HIDE DEF e, c
  <2>3. /\ c = UserBits + f /\ f \in 0 .. ParityBits - 1 /\ f \in 0 .. UserBits - 1
        /\ c \in 0 .. 2 * UserBits - 1 /\ ~(c < UserBits) /\ c - UserBits = f
    BY <1>1, <1>2, <2>1, <2>2
  <2>4. f \div p = h /\ f % p = a
    <3>1. h \in Nat /\ f = h * p + a
      BY <1>2 DEF e
    <3> HIDE DEF a, f
    <3> QED
      BY <2>1, <3>1, RowAndColumn
  <2>5. u + a = b
    BY <1>2
  <2> HIDE DEF a, f
  <2>6. /\ d + c + 1 \in 1 .. PcbPayloadBits
        /\ payload[d + c + 1] = more[w * UserBits + f + 1]
    BY <1>7, <2>3, AlternateAt
  <2>7. more[w * UserBits + f + 1] = parity[w * ParityBits + f + 1]
    <3>1. f < ParityBits
      BY <1>1, <2>3
    <3> QED
      BY <2>3, <3>1, AdjustedAt DEF more
  <2>8. parity[w * ParityBits + f + 1] = FromHalves(data, w, f, u, p)
    BY <1>1, <2>3, ParityAt DEF parity
  <2>9. FromHalves(data, w, f, u, p) = data[h * half + v + u + a + 1]
    BY <2>4 DEF FromHalves, half, v
  <2>10. h * half + v + u + a + 1 = h * half + (v + b) + 1
    <3> DEFINE g == h * half
    <3>1. g \in Nat
      BY <1>9
    <3> HIDE DEF g
    <3>2. g + v + u + a + 1 = g + (v + b) + 1
      BY <1>2, <1>3, <2>1, <2>5, <3>1
    <3> QED
      BY <3>2 DEF g
  <2> QED
    BY <1>6, <1>8, <2>6, <2>7, <2>8, <2>9, <2>10 DEF payload
<1> QED
  BY <1>10, <1>11

LEMMA HalvesOf ==
  ASSUME NEW c \in Nat, NEW u \in Nat \ {0}, c < 2 * u
  PROVE  c \div u \in 0 .. 1 /\ c % u \in 0 .. u - 1 /\ c = (c \div u) * u + (c % u)
<1> DEFINE q == c \div u
           r == c % u
<1>1. q \in Nat /\ r \in 0 .. u - 1 /\ c = q * u + r
  BY DivFacts
<1> HIDE DEF q, r
<1>2. CASE q >= 2
  <2>1. PICK d \in Nat : q = 2 + d
    <3>1. q - 2 \in Nat
      BY <1>1, <1>2
    <3> QED
      BY <1>1, <3>1
  <2>2. (2 + d) * u = 2 * u + d * u /\ d * u \in Nat
    BY <2>1
  <2> QED
    BY <1>1, <2>1, <2>2
<1>3. CASE q < 2
  BY <1>1, <1>3 DEF q, r
<1> QED
  BY <1>1, <1>2, <1>3

LEMMA EverySpot ==
  ASSUME NEW data, NEW j \in 0 .. PcbPayloadBits - 1
  PROVE  \/ \E h \in Halves, w \in Words, b \in Bits : j = Spot(h, w, b)
         \/ PcbPayload(data)[j + 1] = Zero
<1>1. PICK u, p \in Nat \ {0} :
        /\ UserBits = 2 * u /\ UserBits \div 2 = u
        /\ ParityBits = 2 * p /\ ParityBits \div 2 = p
        /\ p < u
        /\ HalfWord = u + p
        /\ PcbPayloadBits = UnitSize * (2 * UserBits)
  BY Sizes
<1> DEFINE n == UnitSize
           row == 2 * UserBits
           w == j \div row
           c == j % row
           d == w * row
<1>2. n \in Nat \ {0} /\ row \in Nat \ {0} /\ n * row \in Nat /\ PcbPayloadBits = n * row
  BY <1>1, GeminiConstants
<1> HIDE DEF n, row
<1>3. j \in Nat /\ j < n * row
  BY <1>2
<1>4. w \in Nat /\ c \in 0 .. row - 1 /\ j = w * row + c
  BY <1>2, <1>3, DivFacts
<1> HIDE DEF w, c
<1>5. w \in Words
  <2>1. CASE w >= n
    <3>1. PICK e \in Nat : w = n + e
      <4>1. w - n \in Nat
        BY <1>2, <1>4, <2>1
      <4> QED
        BY <1>2, <1>4, <4>1
    <3>2. (n + e) * row = n * row + e * row /\ e * row \in Nat
      BY <1>2, <3>1
    <3> QED
      BY <1>2, <1>3, <1>4, <3>1, <3>2
  <2> QED
    BY <1>2, <1>4, <2>1 DEF Words, n
<1>6. w * 2 * UserBits = d /\ d \in Nat
  BY <1>1, <1>2, <1>4 DEF row
<1>7. j = d + c
  BY <1>4
<1> HIDE DEF d
<1>8. CASE c < UserBits
  <2> DEFINE h == c \div u
             b == c % u
  <2>1. h \in 0 .. 1 /\ b \in 0 .. u - 1 /\ c = h * u + b
    <3>1. c \in Nat /\ c < 2 * u
      BY <1>1, <1>2, <1>4, <1>8
    <3> QED
      BY <3>1, HalvesOf
  <2> HIDE DEF h, b
  <2>2. h \in Halves /\ b \in Bits /\ b < u
    BY <1>1, <2>1 DEF Halves, Bits
  <2>3. Spot(h, w, b) = d + c
    BY <1>1, <1>6, <2>1, <2>2 DEF Spot
  <2> QED
    BY <1>5, <1>7, <2>2, <2>3
<1>9. CASE ~(c < UserBits) /\ c - UserBits < ParityBits
  <2> DEFINE f == c - UserBits
             h == f \div p
             a == f % p
             b == u + a
  <2>1. f \in Nat /\ f < 2 * p
    BY <1>1, <1>2, <1>4, <1>9
  <2>2. h \in 0 .. 1 /\ a \in 0 .. p - 1 /\ f = h * p + a
    <3> HIDE DEF f
    <3> QED
      BY <2>1, HalvesOf
  <2> HIDE DEF h, a
  <2>3. h \in Halves /\ b \in Bits /\ ~(b < u)
    BY <1>1, <2>2 DEF Halves, Bits
  <2>4. UserBits + h * p + b - u = c
    <3> DEFINE g == h * p
    <3>1. g \in Nat /\ f = g + a
      BY <2>2
    <3> HIDE DEF g
    <3>2. UserBits + g + b - u = c
      BY <1>1, <1>2, <1>4, <2>2, <3>1
    <3> QED
      BY <3>2 DEF g
  <2> HIDE DEF b
  <2>5. Spot(h, w, b) = d + c
    BY <1>1, <1>6, <2>3, <2>4 DEF Spot
  <2> QED
    BY <1>5, <1>7, <2>3, <2>5
<1>10. CASE ~(c < UserBits) /\ ~(c - UserBits < ParityBits)
  <2> DEFINE f == c - UserBits
             user == get_pcb_user_data(data)
             parity == get_pcb_parity(data)
             more == adjust_data_bit_size(parity)
  <2>1. f \in 0 .. UserBits - 1 /\ c \in 0 .. 2 * UserBits - 1
    BY <1>1, <1>4, <1>10 DEF row
  <2>2. PcbPayload(data) = append_alternate_data(user, more)
    BY DEF PcbPayload
  <2> HIDE DEF f, user, parity, more
  <2>3. append_alternate_data(user, more)[w * (2 * UserBits) + c + 1]
          = more[w * UserBits + (c - UserBits) + 1]
    BY <1>5, <1>10, <2>1, AlternateAt
  <2>4. more[w * UserBits + f + 1] = Zero
    <3>1. ~(f < ParityBits)
      BY <1>10 DEF f
    <3> QED
      BY <1>5, <2>1, <3>1, AdjustedAt DEF more
  <2>5. w * (2 * UserBits) = d
    BY <1>1, <1>6 DEF d, row
  <2> QED
    BY <1>7, <2>2, <2>3, <2>4, <2>5 DEF f
<1> QED
  BY <1>8, <1>9, <1>10

(* The payloads of the RAMs, one behind the other.                          *)
LEMMA PayloadsAt ==
  ASSUME NEW pcb \in Rams
  PROVE  /\ Len(PcbPayloads(pcb)) = Len(pcb) * PcbPayloadBits
         /\ DOMAIN PcbPayloads(pcb) = 1 .. Len(pcb) * PcbPayloadBits
         /\ PcbPayloadBits \in Nat \ {0} /\ Len(pcb) \in Nat
         /\ \A n \in 1 .. Len(pcb), k \in 1 .. PcbPayloadBits :
              PcbPayloads(pcb)[(n - 1) * PcbPayloadBits + k] = PcbPayload(pcb[n].data)[k]
<1> DEFINE count == Len(pcb)
           row == PcbPayloadBits
           payload == [n \in 1 .. count |-> PcbPayload(pcb[n].data)]
           all == PcbPayloads(pcb)
<1>1. count \in Nat
  BY LenProperties DEF Rams
<1>2. row \in Nat \ {0}
  <2>1. UserBits \in Nat \ {0} /\ UnitSize \in Nat \ {0}
    BY GeminiConstants
  <2>2. UserBits * UnitSize \in Nat \ {0}
    BY <2>1
  <2>3. row = 2 * (UserBits * UnitSize)
    BY <2>1 DEF PcbPayloadBits
  <2> QED
    BY <2>2, <2>3
<1>3. all = [k \in 1 .. count * row |-> payload[((k - 1) \div row) + 1][((k - 1) % row) + 1]]
  BY DEF PcbPayloads
<1> HIDE DEF row, count, all
<1>4. count * row \in Nat
  BY <1>1, <1>2
<1>5. Len(all) = count * row /\ DOMAIN all = 1 .. count * row
  <2> DEFINE l == count * row
  <2>1. all \in [1 .. l -> {all[k] : k \in 1 .. l}] /\ DOMAIN all = 1 .. l
    BY <1>3
  <2>2. l \in Nat
    BY <1>4
  <2> HIDE DEF l
  <2>3. Len(all) = l
    BY <2>1, <2>2, LenOfFunction
  <2> QED
    BY <2>1, <2>3 DEF l
<1>6. ASSUME NEW n \in 1 .. count, NEW k \in 1 .. row
      PROVE  all[(n - 1) * row + k] = PcbPayload(pcb[n].data)[k]
  <2> DEFINE i == (n - 1) * row + k
  <2>1. i \in 1 .. count * row
    BY <1>1, <1>2, PlaceInRows
  <2>2. (i - 1) \div row = n - 1 /\ (i - 1) % row = k - 1
    BY <1>1, <1>2, InRow
  <2> HIDE DEF i
  <2>3. all[i] = payload[((i - 1) \div row) + 1][((i - 1) % row) + 1]
    BY <1>3, <2>1
  <2>4. (n - 1) + 1 = n /\ (k - 1) + 1 = k
    BY <1>1, <1>2
  <2>5. all[i] = payload[n][k]
    <3> HIDE DEF payload
    <3> QED
      BY <2>2, <2>3, <2>4
  <2> QED
    BY <2>5 DEF i
<1> QED
  BY <1>1, <1>2, <1>5, <1>6 DEF row, count, all

(* The bits of a RAM as the object has them: the last character first, or   *)
(* zeros when the list does not give any.                                   *)
LEMMA RamDataAt ==
  ASSUME NEW ram, ram.data \in Seq(Nat), RamHolds(ram), NEW i \in 0 .. PcbBits - 1
  PROVE  RamData(ram)[i + 1] = IF ram.data = << >> THEN Zero ELSE ram.data[PcbBits - i]
<1> DEFINE n == PcbBits
           more == align(n, Byte) - n
<1>1. n \in Nat
  BY GeminiConstants DEF PcbBits
<1>2. more \in Nat /\ align(n, Byte) \in Nat /\ align(n, Byte) >= n
  <2>1. align(n, Byte) \in Nat /\ align(n, Byte) >= n
    BY <1>1, AlignFacts, GeminiConstants
  <2> QED
    BY <1>1, <2>1
<1> DEFINE zeros == Zeros(more)
           bits == Reverse(ram.data)
<1>3. zeros \in Seq(Nat)
  BY <1>2, ZerosFacts
<1> HIDE DEF n, more, zeros
<1>4. i + 1 \in 1 .. n /\ i \in Nat
  BY <1>1 DEF n
<1>5. CASE ram.data = << >>
  <2>1. RamData(ram) = Zeros(align(n, Byte))
    BY <1>5 DEF RamData, n
  <2>2. i + 1 \in 1 .. align(n, Byte)
    BY <1>1, <1>2, <1>4
  <2> QED
    BY <1>5, <2>1, <2>2 DEF Zeros
<1>6. CASE ram.data # << >>
  <2>1. Len(ram.data) = n
    BY <1>6 DEF RamHolds, n
  <2>2. bits \in Seq(Nat) /\ n = Len(bits)
    BY <2>1, ReverseFacts
  <2>3. bits[i + 1] = ram.data[n - i]
    <3>1. bits[i + 1] = ram.data[(n - (i + 1)) + 1]
      BY <1>4, <2>1 DEF Reverse
    <3>2. (n - (i + 1)) + 1 = n - i
      BY <1>1, <1>4
    <3> QED
      BY <3>1, <3>2
  <2>4. RamData(ram) = bits \o zeros
    BY <1>6 DEF RamData, zeros, more, n
  <2> HIDE DEF bits
  <2>5. (bits \o zeros)[i + 1] = bits[i + 1]
    BY <1>3, <1>4, <2>2, JoinedAt
  <2> QED
    BY <1>6, <2>3, <2>4, <2>5 DEF n
<1> QED
  BY <1>5, <1>6

LEMMA SpotIsInt ==
  ASSUME NEW h \in Halves, NEW w \in Words, NEW b \in Bits
  PROVE  Spot(h, w, b) \in Int
<1>1. PICK u, p \in Nat : UserBits = 2 * u /\ UserBits \div 2 = u /\ ParityBits \div 2 = p
  BY Sizes
<1>2. UnitSize \in Nat
  BY GeminiConstants
<1>3. h \in Int /\ w \in Int /\ b \in Int
  BY <1>2 DEF Halves, Words, Bits
<1>4. h * u \in Int /\ h * p \in Int /\ w * 2 * UserBits \in Int /\ UserBits \in Int
  BY <1>1, <1>3
<1> DEFINE v == w * 2 * UserBits
           f == h * u
           e == h * p
<1>5. Spot(h, w, b) = v + IF b < u THEN f + b ELSE UserBits + e + b - u
  BY <1>1 DEF Spot
<1>6. v \in Int /\ f \in Int /\ e \in Int
  BY <1>4
<1> HIDE DEF v, f, e
<1>7. CASE b < u
  BY <1>1, <1>3, <1>5, <1>6, <1>7
<1>8. CASE ~(b < u)
  BY <1>1, <1>3, <1>4, <1>5, <1>6, <1>8
<1> QED
  BY <1>7, <1>8

(* Where the bits of a list of RAMs are in the payloads.                    *)
Place(n, i) == (n - 1) * PcbPayloadBits + PlaceOf(i) + 1

LEMMA BitIsInPlace ==
  ASSUME NEW pcb \in Rams, NEW n \in 1 .. Len(pcb), NEW i \in 0 .. PcbBits - 1
  PROVE  PcbPayloads(pcb)[Place(n, i)] = pcb[n].data[i + 1]
<1>1. PICK h \in Halves, w \in Words, b \in Bits : i = Cell(h, w, b)
  BY EveryCell
<1>2. PICK k, data : k = Spot(h, w, b) + 1 /\ data = pcb[n].data
  OBVIOUS
<1>3. k \in 1 .. PcbPayloadBits /\ PcbPayload(data)[k] = data[i + 1]
  BY <1>1, <1>2, SpotFacts
<1>4. PcbPayloadBits \in Nat /\ n \in Nat /\ n >= 1 /\ k \in Nat /\ k >= 1
  <2>1. PcbPayloadBits \in Nat /\ Len(pcb) \in Nat
    BY PayloadsAt
  <2> QED
    BY <1>3, <2>1
<1>5. PcbPayloads(pcb)[(n - 1) * PcbPayloadBits + k] = PcbPayload(pcb[n].data)[k]
  BY <1>3, PayloadsAt
<1>6. Place(n, i) = (n - 1) * PcbPayloadBits + k
  <2> DEFINE v == (n - 1) * PcbPayloadBits
             s == PlaceOf(i)
  <2>1. v \in Int
    BY <1>4
  <2>2. s = Spot(h, w, b)
    BY <1>1, CellFacts
  <2>3. s \in Int
    BY <2>2, SpotIsInt
  <2> HIDE DEF v, s
  <2>4. v + s + 1 = v + (s + 1)
    BY <2>1, <2>3
  <2> QED
    BY <1>2, <2>2, <2>4 DEF Place, v, s
<1> QED
  BY <1>2, <1>3, <1>5, <1>6

LEMMA EveryBitIsInPlace ==
  ASSUME NEW pcb \in Rams, NEW k \in DOMAIN PcbPayloads(pcb), PcbPayloads(pcb)[k] # Zero
  PROVE  \E n \in 1 .. Len(pcb), i \in 0 .. PcbBits - 1 : k = Place(n, i)
<1> DEFINE row == PcbPayloadBits
           count == Len(pcb)
           all == PcbPayloads(pcb)
           q == (k - 1) \div row
           j == (k - 1) % row
<1>1. row \in Nat \ {0} /\ count \in Nat /\ k \in 1 .. count * row
  BY PayloadsAt
<1>2. count * row \in Nat
  BY <1>1
<1> HIDE DEF row, count, all
<1>3. k - 1 \in Nat
  BY <1>1, <1>2
<1>4. q \in Nat /\ j \in 0 .. row - 1 /\ k - 1 = q * row + j
  <2> DEFINE m == k - 1
  <2> HIDE DEF m
  <2>1. m \div row \in Nat /\ m % row \in 0 .. row - 1
        /\ m = (m \div row) * row + (m % row)
    BY <1>1, <1>3, DivFacts DEF m
  <2> QED
    BY <2>1 DEF m
<1> HIDE DEF q, j
<1>5. q + 1 \in 1 .. count
  <2>1. CASE q >= count
    <3>1. PICK d \in Nat : q = count + d
      <4>1. q - count \in Nat
        BY <1>1, <1>4, <2>1
      <4> QED
        BY <1>1, <1>4, <4>1
    <3>2. (count + d) * row = count * row + d * row /\ d * row \in Nat
      BY <1>1, <3>1
    <3> QED
      BY <1>1, <1>2, <1>4, <3>1, <3>2
  <2> QED
    BY <1>1, <1>4, <2>1
<1>6. PICK n : n = q + 1
  OBVIOUS
<1>7. n \in 1 .. count /\ n - 1 = q /\ j + 1 \in 1 .. row
  BY <1>1, <1>4, <1>5, <1>6
<1>8. k = (n - 1) * row + (j + 1)
  <2> DEFINE v == q * row
  <2>1. v \in Nat
    BY <1>1, <1>4
  <2> HIDE DEF v
  <2>2. k = v + (j + 1)
    BY <1>1, <1>2, <1>4, <2>1 DEF v
  <2> QED
    BY <1>7, <2>2 DEF v
<1>9. all[k] = PcbPayload(pcb[n].data)[j + 1]
  <2>1. \A m \in 1 .. count, l \in 1 .. row :
          all[(m - 1) * row + l] = PcbPayload(pcb[m].data)[l]
    BY PayloadsAt DEF all, row, count
  <2>2. all[(n - 1) * row + (j + 1)] = PcbPayload(pcb[n].data)[j + 1]
    BY <1>7, <2>1
  <2> QED
    BY <1>8, <2>2
<1>10. PcbPayload(pcb[n].data)[j + 1] # Zero
  BY <1>9 DEF all
<1>11. PICK h \in Halves, w \in Words, b \in Bits : j = Spot(h, w, b)
  BY <1>4, <1>10, EverySpot DEF row
<1>12. PICK i : i = Cell(h, w, b)
  OBVIOUS
<1>13. i \in 0 .. PcbBits - 1 /\ PlaceOf(i) = j
  BY <1>11, <1>12, CellFacts
<1>14. k = Place(n, i)
  <2> DEFINE v == (n - 1) * row
  <2>1. v \in Nat
    BY <1>1, <1>4, <1>7
  <2> HIDE DEF v
  <2>2. k = v + j + 1
    BY <1>1, <1>4, <1>8, <2>1 DEF v
  <2> QED
    BY <1>13, <2>2 DEF Place, v, row
<1> QED
  BY <1>7, <1>13, <1>14 DEF count

LEMMA KeptRamsArrive ==
  ASSUME NEW grid \in Grid, NEW pcb \in Rams, RamsKept(pcb, grid)
  PROVE  /\ pcb = << >> <=> grid = << >>
         /\ RamArrives(PcbPayloads(pcb), grid)
<1> DEFINE count == Len(grid)
           given == {n \in DOMAIN grid : grid[n].data # << >>}
           all == PcbPayloads(pcb)
<1>1. /\ count \in Nat /\ DOMAIN grid = 1 .. count
      /\ \A n \in 1 .. count : grid[n] \in [x : Nat, y : Nat, data : Seq(Nat)]
  BY LenProperties, ElementOfSeq DEF Grid
<1>2. /\ DOMAIN pcb = 1 .. count
      /\ \A n \in 1 .. count : pcb[n].data = RamData(grid[n])
      /\ \A n \in 1 .. count : RamHolds(grid[n])
  <2> HIDE DEF count
  <2> QED
    BY <1>1 DEF RamsKept
<1>3. Len(pcb) = count
  <2>1. Len(pcb) \in Nat /\ DOMAIN pcb = 1 .. Len(pcb)
    BY LenProperties DEF Rams
  <2> HIDE DEF count
  <2>2. 1 .. Len(pcb) = 1 .. count
    BY <1>2, <2>1
  <2> DEFINE l == Len(pcb)
  <2>3. l \in Nat /\ 1 .. l = 1 .. count
    BY <2>1, <2>2
  <2> HIDE DEF l
  <2>4. l = count
    BY <1>1, <2>3
  <2> QED
    BY <2>4 DEF l
<1>4. pcb = << >> <=> grid = << >>
  <2>1. pcb = << >> <=> Len(pcb) = 0
    BY EmptySeq, LenProperties DEF Rams
  <2>2. grid = << >> <=> Len(grid) = 0
    BY EmptySeq, LenProperties DEF Grid
  <2> QED
    BY <1>3, <2>1, <2>2
<1>5. Len(all) = count * PcbPayloadBits
  BY <1>3, PayloadsAt
<1>6. \A n \in 1 .. count, i \in 0 .. PcbBits - 1 :
        all[Place(n, i)] =
          IF grid[n].data = << >> THEN Zero ELSE grid[n].data[PcbBits - i]
  <2> TAKE n \in 1 .. count, i \in 0 .. PcbBits - 1
  <2>1. all[Place(n, i)] = pcb[n].data[i + 1]
    BY <1>3, BitIsInPlace
  <2>2. PICK ram : ram = grid[n]
    OBVIOUS
  <2>3. ram.data \in Seq(Nat) /\ RamHolds(ram) /\ pcb[n].data = RamData(ram)
    BY <1>1, <1>2, <2>2
  <2>4. RamData(ram)[i + 1] = IF ram.data = << >> THEN Zero ELSE ram.data[PcbBits - i]
    BY <2>3, RamDataAt
  <2> HIDE DEF all
  <2> QED
    BY <2>1, <2>2, <2>3, <2>4
<1>7. \A n \in given, i \in 0 .. PcbBits - 1 : all[Place(n, i)] = grid[n].data[PcbBits - i]
  <2> HIDE DEF all, count
  <2> QED
    BY <1>1, <1>6
<1>8. \A k \in DOMAIN all :
        all[k] # Zero => \E n \in given, i \in 0 .. PcbBits - 1 : k = Place(n, i)
  <2> SUFFICES ASSUME NEW k \in DOMAIN all, all[k] # Zero
               PROVE  \E n \in given, i \in 0 .. PcbBits - 1 : k = Place(n, i)
    OBVIOUS
  <2>1. PICK n \in 1 .. count, i \in 0 .. PcbBits - 1 : k = Place(n, i)
    BY <1>3, EveryBitIsInPlace
  <2> HIDE DEF all, count
  <2>2. grid[n].data # << >>
    BY <1>6, <2>1
  <2> QED
    BY <1>1, <2>1, <2>2
<1> HIDE DEF all, count, given
<1>9. RamArrives(all, grid)
  BY <1>5, <1>7, <1>8 DEF RamArrives, Place, given, count
<1> QED
  BY <1>4, <1>9 DEF all

(* After any run that succeeded: each bit of each RAM that has data is in   *)
(* the payload of the one action for the RAMs, in the place its RAM, its    *)
(* half and its word give it, and no other bit of the payload is set.       *)
THEOREM RamBitsAlwaysArrive == Spec => []RamBitsArrive
<1>1. IInv /\ TInv => RamBitsArrive
  <2> SUFFICES ASSUME IInv, TInv, pc = "success"
               PROVE  IF project.bram.grid = << >>
                        THEN Named("pcb_config_with_parity") = {}
                        ELSE /\ Named("pcb_config_with_parity") = {Len(Actions)}
                             /\ RamArrives(Actions[Len(Actions)].payload, project.bram.grid)
    BY Zenon DEF RamBitsArrive
  <2>1. PICK b, g, grid : b = bitobj /\ g = generate(b) /\ grid = project.bram.grid
    OBVIOUS
  <2>2. /\ b \in Object /\ BothIcbHold(b) /\ Actions = g
        /\ grid \in Grid /\ RamsKept(b.pcb, grid)
    BY <2>1, ActionsAreGenerated DEF Project
  <2>3. b.pcb \in Rams
    BY <2>2 DEF Object
  <2>4. (b.pcb = << >> <=> grid = << >>) /\ RamArrives(PcbPayloads(b.pcb), grid)
    BY <2>2, <2>3, KeptRamsArrive
  <2>5. Named("pcb_config_with_parity") = IF b.pcb = << >> THEN {} ELSE {Len(g)}
    <3>1. {n \in DOMAIN g : g[n].action = "pcb_config_with_parity"} =
            IF b.pcb = << >> THEN {} ELSE {Len(g)}
      BY <2>1, <2>2, ActionNames
    <3> QED
      BY <2>2, <3>1 DEF Named
  <2>6. b.pcb # << >> => g[Len(g)].payload = PcbPayloads(b.pcb)
    <3>1. b.pcb # << >> => g[Len(g)] = PcbActions(b.pcb)[1]
      BY <2>1, <2>2, GeneratedActions
    <3>2. b.pcb # << >> => PcbActions(b.pcb)[1].payload = PcbPayloads(b.pcb)
      BY DEF PcbActions, Action
    <3> QED
      BY <3>1, <3>2
  <2> QED
    BY <2>1, <2>2, <2>4, <2>5, <2>6
<1>2. Init => IInv /\ TInv
  BY InitInv, InitTold
<1>3. IInv /\ TInv /\ [Next]_vars => IInv' /\ TInv'
  BY NextInv, NextTold
<1> QED
  BY <1>1, <1>2, <1>3, PTL DEF Spec
=============================================================================
