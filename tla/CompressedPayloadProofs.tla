---------------------- MODULE CompressedPayloadProofs ----------------------
(***************************************************************************)
(* The compressor, the engine that expands its stream piece by piece, and   *)
(* the analyzer that feeds it, for every payload and every value of the     *)
(* constants.                                                               *)
(*                                                                         *)
(* First the compressor: each branch of its loop writes one token, and a    *)
(* lemma per kind of token says that it expands to the bytes the branch     *)
(* passes.  Then the numbers: what is written digit by digit is read back.  *)
(* Then the engine: a script says where in a stream and where in the data   *)
(* each token begins, Place says where the engine is in it, and each        *)
(* handler leads from one place to the next.  Then the analyzer, whose      *)
(* words and calls cut through all of these.  At last both together.        *)
(***************************************************************************)
EXTENDS CompressedPayload, FiniteSetTheorems, WellFoundedInduction, TLAPS

-----------------------------------------------------------------------------
(* Bytes cut out of the data.                                               *)

(* A byte at a position inside the data is a byte.                          *)
LEMMA AtByte ==
  ASSUME payload \in Seq(Byte), NEW p \in 0 .. Size - 1
  PROVE  At(p) \in Byte
  BY DEF At, Size

(* Bytes(i, n) is a sequence of n bytes.                                    *)
LEMMA BytesType ==
  ASSUME payload \in Seq(Byte), NEW i \in Nat, NEW n \in Nat, i + n <= Size
  PROVE  /\ Bytes(i, n) \in Seq(Byte)
         /\ Len(Bytes(i, n)) = n
         /\ \A k \in 1 .. n : Bytes(i, n)[k] = At(i + k - 1)
<1>1. ASSUME NEW k \in 1 .. n PROVE At(i + k - 1) \in Byte
  <2>1. i + k - 1 \in 0 .. Size - 1
    BY DEF Size
  <2>2. QED
    BY <2>1, AtByte, Zenon
<1> DEFINE f == [k \in 1 .. n |-> At(i + k - 1)]
<1>2. f \in Seq(Byte) /\ Len(f) = n
  BY <1>1
<1>3. Bytes(i, n) = f
  BY DEF Bytes
<1>4. QED
  BY <1>2, <1>3, Zenon

(* The bytes from i on continue the ones before i.                          *)
LEMMA BytesContinue ==
  ASSUME payload \in Seq(Byte), NEW i \in Nat, NEW n \in Nat, i + n <= Size
  PROVE  SubSeq(payload, 1, i) \o Bytes(i, n) = SubSeq(payload, 1, i + n)
<1> DEFINE L == SubSeq(payload, 1, i) \o Bytes(i, n)
           R == SubSeq(payload, 1, i + n)
<1>1. Bytes(i, n) \in Seq(Byte) /\ Len(Bytes(i, n)) = n
      /\ \A k \in 1 .. n : Bytes(i, n)[k] = payload[i + k]
  BY BytesType DEF At
<1>2. /\ SubSeq(payload, 1, i) \in Seq(Byte)
      /\ Len(SubSeq(payload, 1, i)) = i
      /\ \A k \in 1 .. i : SubSeq(payload, 1, i)[k] = payload[k]
  BY DEF Size
<1>3. /\ R \in Seq(Byte)
      /\ Len(R) = i + n
      /\ \A k \in 1 .. i + n : R[k] = payload[k]
  BY DEF Size
<1>4. L \in Seq(Byte) /\ Len(L) = i + n
  BY <1>1, <1>2
<1>5. ASSUME NEW k \in 1 .. i + n PROVE L[k] = R[k]
  <2>1. CASE k <= i
    BY <1>1, <1>2, <1>3, <2>1
  <2>2. CASE k > i
    <3>1. L[k] = Bytes(i, n)[k - i]
      BY <1>1, <1>2, <2>2
    <3>2. k - i \in 1 .. n
      BY <2>2
    <3>3. Bytes(i, n)[k - i] = payload[i + (k - i)]
      BY <1>1, <3>2
    <3>4. i + (k - i) = k /\ R[k] = payload[k]
      BY <1>3
    <3>5. QED
      BY <3>1, <3>3, <3>4
  <2> HIDE DEF L, R
  <2>3. QED
    BY <2>1, <2>2
<1>6. QED
  BY <1>3, <1>4, <1>5

(* Two sequences of bytes with the same elements are the same.              *)
LEMMA SameBytes ==
  ASSUME NEW s \in Seq(Byte), NEW t \in Seq(Byte), Len(s) = Len(t),
         \A k \in 1 .. Len(s) : s[k] = t[k]
  PROVE  s = t
  OBVIOUS

-----------------------------------------------------------------------------
(* What tokens expand to.                                                   *)

(* Division with remainder.                                                 *)
LEMMA Divide ==
  ASSUME NEW k \in Nat, NEW n \in Nat \ {0}
  PROVE  /\ k \div n \in Nat
         /\ k % n \in 0 .. n - 1
         /\ k = (k \div n) * n + (k % n)
  BY SMT

(* A token without a repeat count stands for its piece.                     *)
LEMMA ExpandOnce ==
  ASSUME NEW t, t.count = 0, Piece(t) \in Seq(Byte)
  PROVE  Expand(t) = Piece(t)
<1> DEFINE p == Piece(t)
<1>1. Len(p) \in Nat /\ Len(p) * (t.count + 1) = Len(p)
  OBVIOUS
<1>2. \A k \in 1 .. Len(p) : ((k - 1) % Len(p)) + 1 = k
  BY <1>1
<1>3. Expand(t) = [k \in 1 .. Len(p) |-> p[k]]
  BY <1>1, <1>2 DEF Expand
<1>4. QED
  BY <1>3

(* A repeated token whose piece is the chunk at i stands for the chunk and  *)
(* the equal ones behind it.                                                *)
LEMMA ExpandRepeated ==
  ASSUME payload \in Seq(Byte), NEW t,
         NEW i \in Nat, NEW n \in Nat \ {0}, NEW r \in Nat,
         i + n * (r + 1) <= Size,
         \A c \in 1 .. r : SameChunk(i, i + c * n, n),
         t.count = r, Piece(t) = Bytes(i, n)
  PROVE  Expand(t) = Bytes(i, n * (r + 1))
<1> DEFINE total == n * (r + 1)
<1>1. total \in Nat /\ n <= total /\ i + n <= Size
  <2>1. total \in Nat /\ n <= total
    BY SMT
  <2>2. QED
    BY <2>1 DEF Size
<1>2. Len(Bytes(i, n)) = n /\ \A k \in 1 .. n : Bytes(i, n)[k] = At(i + k - 1)
  BY <1>1, BytesType
<1> DEFINE p == Bytes(i, n)
<1>3. Expand(t) = [k \in 1 .. total |-> p[((k - 1) % n) + 1]]
  <2>1. Piece(t) = p /\ Len(p) = n /\ Len(p) * (t.count + 1) = total
    BY <1>2
  <2>2. Expand(t) = [k \in 1 .. Len(Piece(t)) * (t.count + 1) |->
                       Piece(t)[((k - 1) % Len(Piece(t))) + 1]]
    BY Zenon DEF Expand
  <2>3. QED
    BY <2>1, <2>2, Zenon
<1>4. ASSUME NEW k \in 1 .. total
      PROVE  p[((k - 1) % n) + 1] = At(i + k - 1)
  <2> DEFINE q == (k - 1) \div n
             m == (k - 1) % n
  <2>0. m = (k - 1) % n
    OBVIOUS
  <2>1. q \in Nat /\ m \in 0 .. n - 1 /\ k - 1 = q * n + m
    <3>1. k - 1 \in Nat
      BY <1>1
    <3>2. QED
      BY <3>1, Divide, Zenon
  <2> HIDE DEF q
  <2>2. Bytes(i, n)[m + 1] = At(i + m)
    <3> HIDE DEF m
    <3>1. m + 1 \in 1 .. n /\ i + (m + 1) - 1 = i + m
      BY <2>1
    <3>2. QED
      BY <1>2, <3>1
  <2> HIDE DEF m
  <2>3. q <= r
    <3>1. q * n < (r + 1) * n
      BY <1>1, <2>1
    <3>2. ASSUME q >= r + 1 PROVE q * n >= (r + 1) * n
      BY <2>1, <3>2
    <3>3. QED
      BY <2>1, <3>1, <3>2
  <2>4. At(i + m) = At(i + q * n + m)
    <3>1. CASE q = 0
      BY <2>1, <3>1
    <3>2. CASE q # 0
      <4>1. SameChunk(i, i + q * n, n)
        BY <2>1, <2>3, <3>2
      <4>2. QED
        BY <2>1, <4>1 DEF SameChunk
    <3>3. QED
      BY <3>1, <3>2
  <2>5. i + q * n + m = i + k - 1
    BY <2>1
  <2>6. QED
    BY <2>0, <2>2, <2>4, <2>5
<1>5. Bytes(i, total) = [k \in 1 .. total |-> At(i + k - 1)]
  BY DEF Bytes
<1>6. QED
  BY <1>3, <1>4, <1>5
-----------------------------------------------------------------------------
(* The pieces.                                                              *)

(* A run of one byte.                                                       *)
LEMMA RunPiece ==
  ASSUME NEW i \in Nat, NEW n \in Nat, NEW b, AllAre(i, n, b)
  PROVE  Fill(n, b) = Bytes(i, n)
<1>1. \A k \in 1 .. n : At(i + k - 1) = b
  BY DEF AllAre
<1>2. QED
  BY <1>1 DEF Fill, Bytes

(* A byte and the run behind it.                                            *)
LEMMA VarFirstPiece ==
  ASSUME payload \in Seq(Byte), NEW i \in Nat, NEW n \in Nat, NEW b \in Byte,
         i + n + 1 <= Size, AllAre(i + 1, n, b)
  PROVE  <<At(i)>> \o Fill(n, b) = Bytes(i, n + 1)
<1> DEFINE L == <<At(i)>> \o Fill(n, b)
           R == Bytes(i, n + 1)
<1>1. /\ R \in Seq(Byte) /\ Len(R) = n + 1
      /\ \A k \in 1 .. n + 1 : R[k] = At(i + k - 1)
  <2>1. n + 1 \in Nat /\ i + (n + 1) <= Size
    BY DEF Size
  <2>2. QED
    BY <2>1, BytesType, Zenon
<1>2. /\ Fill(n, b) \in Seq(Byte) /\ Len(Fill(n, b)) = n
      /\ \A k \in 1 .. n : Fill(n, b)[k] = b
  BY DEF Fill
<1>3. At(i) \in Byte
  <2>1. i \in 0 .. Size - 1
    BY DEF Size
  <2>2. QED
    BY <2>1, AtByte, Zenon
<1>4. /\ L \in Seq(Byte) /\ Len(L) = n + 1
      /\ L[1] = At(i)
      /\ \A k \in 2 .. n + 1 : L[k] = Fill(n, b)[k - 1]
  <2>1. <<At(i)>> \in Seq(Byte)
    BY <1>3
  <2>2. QED
    BY <1>2, <2>1
<1>5. ASSUME NEW k \in 1 .. n + 1 PROVE L[k] = R[k]
  <2> HIDE DEF L, R
  <2>1. CASE k = 1
    <3>1. R[1] = At(i + 1 - 1) /\ i + 1 - 1 = i
      BY <1>1
    <3>2. QED
      BY <1>4, <2>1, <3>1
  <2>2. CASE k # 1
    <3>1. L[k] = b
      BY <1>2, <1>4, <2>2
    <3>2. i + k - 1 \in i + 1 .. (i + 1) + n - 1
      BY <2>2
    <3>3. QED
      BY <1>1, <3>1, <3>2 DEF AllAre
  <2>3. QED
    BY <2>1, <2>2
<1> HIDE DEF L, R
<1>6. L = R
  BY <1>1, <1>4, <1>5, SameBytes
<1>7. QED
  BY <1>6 DEF L, R

(* A run and the byte behind it.                                            *)
LEMMA VarLastPiece ==
  ASSUME payload \in Seq(Byte), NEW i \in Nat, NEW n \in Nat, NEW b \in Byte,
         i + n + 1 <= Size, AllAre(i, n, b)
  PROVE  Fill(n, b) \o <<At(i + n)>> = Bytes(i, n + 1)
<1> DEFINE L == Fill(n, b) \o <<At(i + n)>>
           R == Bytes(i, n + 1)
<1>1. /\ R \in Seq(Byte) /\ Len(R) = n + 1
      /\ \A k \in 1 .. n + 1 : R[k] = At(i + k - 1)
  <2>1. n + 1 \in Nat /\ i + (n + 1) <= Size
    BY DEF Size
  <2>2. QED
    BY <2>1, BytesType, Zenon
<1>2. /\ Fill(n, b) \in Seq(Byte) /\ Len(Fill(n, b)) = n
      /\ \A k \in 1 .. n : Fill(n, b)[k] = b
  BY DEF Fill
<1>3. At(i + n) \in Byte
  <2>1. i + n \in 0 .. Size - 1
    BY DEF Size
  <2>2. QED
    BY <2>1, AtByte, Zenon
<1>4. /\ L \in Seq(Byte) /\ Len(L) = n + 1
      /\ L[n + 1] = At(i + n)
      /\ \A k \in 1 .. n : L[k] = Fill(n, b)[k]
  <2>1. <<At(i + n)>> \in Seq(Byte)
    BY <1>3
  <2>2. QED
    BY <1>2, <2>1
<1>5. ASSUME NEW k \in 1 .. n + 1 PROVE L[k] = R[k]
  <2> HIDE DEF L, R
  <2>1. CASE k = n + 1
    <3>1. R[n + 1] = At(i + (n + 1) - 1) /\ i + (n + 1) - 1 = i + n
      BY <1>1
    <3>2. QED
      BY <1>4, <2>1, <3>1
  <2>2. CASE k # n + 1
    <3>1. L[k] = b
      BY <1>2, <1>4, <2>2
    <3>2. i + k - 1 \in i .. i + n - 1
      BY <2>2
    <3>3. QED
      BY <1>1, <3>1, <3>2 DEF AllAre
  <2>3. QED
    BY <2>1, <2>2
<1> HIDE DEF L, R
<1>6. L = R
  BY <1>1, <1>4, <1>5, SameBytes
<1>7. QED
  BY <1>6 DEF L, R
-----------------------------------------------------------------------------
(* The tokens.                                                              *)

(* compress_data without a followup byte.                                   *)
LEMMA RunTokenExpands ==
  ASSUME payload \in Seq(Byte), NEW i \in Nat, NEW e \in Nat, RunEnd(i, e)
  PROVE  LET t == RunToken(At(i), e - i, <<>>)
         IN  t \in Token /\ Expand(t) = Bytes(i, e - i)
<1> DEFINE t == RunToken(At(i), e - i, <<>>)
<1>1. e - i \in Nat /\ i + (e - i) <= Size /\ AllAre(i, e - i, At(i)) /\ At(i) \in Byte
  <2>1. e - i \in Nat /\ i + (e - i) <= Size /\ AllAre(i, e - i, At(i)) /\ i \in 0 .. Size - 1
    BY DEF RunEnd, Size
  <2>2. QED
    BY <2>1, AtByte, Zenon
<1>2. t \in Token
  BY <1>1 DEF RunToken, Token, Pattern, NONE, ZERO, ZERO_VAR, HIGH, HIGH_VAR, VAR
<1>3. Piece(t) = Fill(e - i, At(i))
  BY <1>1, CompressConstants
     DEF RunToken, Piece, CompressByte, NONE, ZERO, ZERO_VAR, VAR_ZERO, HIGH,
         HIGH_VAR, VAR_HIGH, VAR
<1>4. Piece(t) = Bytes(i, e - i) /\ Piece(t) \in Seq(Byte)
  BY <1>1, <1>3, RunPiece, BytesType
<1>5. t.count = 0
  BY DEF RunToken
<1>6. QED
  BY <1>2, <1>4, <1>5, ExpandOnce, Zenon

(* compress_data with one.                                                  *)
LEMMA FollowedTokenExpands ==
  ASSUME payload \in Seq(Byte), NEW i \in Nat, NEW e \in Nat, RunEnd(i, e), e < Size,
         At(i) \in {0, High}
  PROVE  LET t == RunToken(At(i), e - i, <<At(e)>>)
         IN  t \in Token /\ Expand(t) = Bytes(i, e - i + 1)
<1> DEFINE t == RunToken(At(i), e - i, <<At(e)>>)
<1>1. /\ e - i \in Nat /\ i + (e - i) + 1 <= Size /\ AllAre(i, e - i, At(i))
      /\ i + (e - i) = e
      /\ At(i) \in Byte /\ At(e) \in Byte
  <2>1. /\ e - i \in Nat /\ i + (e - i) + 1 <= Size /\ AllAre(i, e - i, At(i))
        /\ i \in 0 .. Size - 1 /\ e \in 0 .. Size - 1 /\ i + (e - i) = e
    BY DEF RunEnd, Size
  <2>2. QED
    BY <2>1, AtByte, Zenon
<1>2. t \in Token
  BY <1>1 DEF RunToken, Token, Pattern, NONE, ZERO, ZERO_VAR, HIGH, HIGH_VAR, VAR
<1>3. Piece(t) = Fill(e - i, At(i)) \o <<At(e)>>
  BY <1>1, CompressConstants
     DEF RunToken, Piece, CompressByte, NONE, ZERO, ZERO_VAR, VAR_ZERO, HIGH,
         HIGH_VAR, VAR_HIGH, VAR
<1>4. Piece(t) = Bytes(i, e - i + 1)
  BY <1>1, <1>3, VarLastPiece
<1>5. Piece(t) \in Seq(Byte)
  <2>1. (e - i) + 1 \in Nat /\ i + ((e - i) + 1) <= Size
    BY <1>1 DEF Size
  <2>2. QED
    BY <1>4, <2>1, BytesType, Zenon
<1>6. t.count = 0
  BY DEF RunToken
<1>7. QED
  BY <1>2, <1>4, <1>5, <1>6, ExpandOnce, Zenon

(* pack_data.                                                               *)
LEMMA RawTokenExpands ==
  ASSUME payload \in Seq(Byte), NEW i \in Nat, NEW n \in Nat, i + n <= Size
  PROVE  RawToken(i, n) \in Token /\ Expand(RawToken(i, n)) = Bytes(i, n)
<1>1. Bytes(i, n) \in Seq(Byte)
  BY BytesType
<1>2. RawToken(i, n) \in Token
  BY <1>1 DEF RawToken, Token, Pattern, NONE
<1>3. Piece(RawToken(i, n)) = Bytes(i, n) /\ RawToken(i, n).count = 0
  BY DEF RawToken, Piece, NONE
<1>4. QED
  BY <1>1, <1>2, <1>3, ExpandOnce, Zenon
(* A byte before a run, as compress_none_repeat writes it.                   *)
VarRunToken(i, e) ==
  [ pattern |-> IF At(i + 1) = 0 THEN VAR_ZERO ELSE VAR_HIGH,
    flagged |-> FALSE, length |-> e - i - 1,
    data |-> <<At(i)>>, count |-> 0 ]

(* It stands for the byte and the run.                                      *)
LEMMA VarRunTokenExpands ==
  ASSUME payload \in Seq(Byte), NEW i \in Nat, NEW e \in Nat,
         At(i + 1) \in {0, High}, RunEnd(i + 1, e)
  PROVE  VarRunToken(i, e) \in Token /\ Expand(VarRunToken(i, e)) = Bytes(i, e - i)
<1> DEFINE t == VarRunToken(i, e)
           n == e - i - 1
<1>1. /\ n \in Nat /\ i + n + 1 <= Size /\ n + 1 = e - i
      /\ AllAre(i + 1, n, At(i + 1))
      /\ At(i) \in Byte /\ At(i + 1) \in Byte
  <2>1. /\ n \in Nat /\ i + n + 1 <= Size /\ n + 1 = e - i
        /\ e - (i + 1) = n
        /\ i \in 0 .. Size - 1 /\ i + 1 \in 0 .. Size - 1
    BY DEF RunEnd, Size
  <2>2. AllAre(i + 1, n, At(i + 1))
    BY <2>1 DEF RunEnd
  <2>3. QED
    BY <2>1, <2>2, AtByte, Zenon
<1>2. t \in Token
  BY <1>1 DEF VarRunToken, Token, Pattern, VAR_ZERO, VAR_HIGH
<1>3. Piece(t) = <<At(i)>> \o Fill(n, At(i + 1))
  BY <1>1, CompressConstants
     DEF VarRunToken, Piece, CompressByte, NONE, ZERO, ZERO_VAR, VAR_ZERO, HIGH,
         HIGH_VAR, VAR_HIGH, VAR
<1>4. Piece(t) = Bytes(i, n + 1)
  <2> HIDE DEF n, t
  <2>1. QED
    BY <1>1, <1>3, VarFirstPiece
<1>5. Piece(t) \in Seq(Byte)
  <2>1. n + 1 \in Nat /\ i + (n + 1) <= Size
    BY <1>1 DEF Size
  <2>2. QED
    BY <1>4, <2>1, BytesType, Zenon
<1>6. t.count = 0
  BY DEF VarRunToken
<1>7. QED
  BY <1>1, <1>2, <1>4, <1>5, <1>6, ExpandOnce, Zenon

(* Where all bytes of a chunk but the first are b, or all but the last.      *)
LEMMA EdgeByte ==
  ASSUME NEW i \in Nat, NEW n \in Nat \ {0}, NEW b, AllButOne(i, n, b)
  PROVE  /\ At(i) # b => AllAre(i + 1, n - 1, b)
         /\ At(i + n - 1) # b => AllAre(i, n - 1, b)
<1> PICK p \in i .. i + n - 1 :
      At(p) # b /\ \A q \in i .. i + n - 1 : q # p => At(q) = b
  BY DEF AllButOne
<1>1. ASSUME At(i) # b PROVE AllAre(i + 1, n - 1, b)
  <2>1. p = i
    BY <1>1
  <2>2. QED
    BY <2>1 DEF AllAre
<1>2. ASSUME At(i + n - 1) # b PROVE AllAre(i, n - 1, b)
  <2>1. p = i + n - 1
    BY <1>2
  <2>2. QED
    BY <2>1 DEF AllAre
<1>3. QED
  BY <1>1, <1>2

(* analyze_chunk_pattern recognises a varying first or last byte.           *)
LEMMA ChunkPattern ==
  ASSUME NEW i \in Nat, NEW n \in Nat \ {0}, At(i + n) = At(i),
         analyze_chunk_pattern(i, n) \notin {ZERO, HIGH}
  PROVE  LET pattern == analyze_chunk_pattern(i, n)
         IN  /\ pattern \in {NONE, VAR_ZERO, ZERO_VAR, VAR_HIGH, HIGH_VAR}
             /\ pattern = VAR_ZERO => AllAre(i + 1, n - 1, 0)
             /\ pattern = VAR_HIGH => AllAre(i + 1, n - 1, High)
             /\ pattern = ZERO_VAR => AllAre(i, n - 1, 0)
             /\ pattern = HIGH_VAR => AllAre(i, n - 1, High)
<1>1. /\ AllButOne(i, n, 0) => /\ At(i) # 0 => AllAre(i + 1, n - 1, 0)
                               /\ At(i + n - 1) # 0 => AllAre(i, n - 1, 0)
      /\ AllButOne(i, n, High) => /\ At(i) # High => AllAre(i + 1, n - 1, High)
                                  /\ At(i + n - 1) # High => AllAre(i, n - 1, High)
  BY EdgeByte
<1>2. QED
  BY <1>1 DEF analyze_chunk_pattern, EdgePattern, NONE, ZERO, ZERO_VAR, VAR_ZERO,
              HIGH, HIGH_VAR, VAR_HIGH
(* compress_repeat_chunk, in both of its branches.                          *)
LEMMA RepeatTokenExpands ==
  ASSUME payload \in Seq(Byte), NEW i \in Nat, NEW n \in Nat, n >= MinRepeat,
         NEW r \in Nat \ {0}, FoundRepeat(i, n, r),
         analyze_chunk_pattern(i, n) \notin {ZERO, HIGH}
  PROVE  LET t == RepeatToken(i, n, r)
         IN  t \in Token /\ Expand(t) = Bytes(i, n * (r + 1))
<1> DEFINE t == RepeatToken(i, n, r)
           pattern == analyze_chunk_pattern(i, n)
           forced == pattern = NONE /\ n > MaxNone
<1>1. /\ n \in Nat \ {0} /\ n - 1 \in Nat /\ (n - 1) + 1 = n
      /\ (r + 1) * n \in Nat /\ (r + 1) * n = n * (r + 1)
      /\ i + (r + 1) * n <= Size
      /\ n < (r + 1) * n
  <2>1. n \in Nat \ {0} /\ n - 1 \in Nat /\ (n - 1) + 1 = n
    BY CompressConstants
  <2>2. (r + 1) * n \in Nat /\ (r + 1) * n = n * (r + 1)
    BY <2>1
  <2>3. n < (r + 1) * n
    BY <2>1, SMT
  <2>4. QED
    BY <2>1, <2>2, <2>3 DEF FoundRepeat
<1>2. /\ At(i) \in Byte /\ At(i + n - 1) \in Byte
      /\ i + n <= Size /\ i + (n - 1) + 1 <= Size /\ i + (n - 1) = i + n - 1
  <2> DEFINE total == (r + 1) * n
  <2>1. total \in Nat /\ i + total <= Size /\ n < total
    BY <1>1
  <2> HIDE DEF total
  <2>2. /\ i \in 0 .. Size - 1 /\ i + n - 1 \in 0 .. Size - 1
        /\ i + n <= Size /\ i + (n - 1) + 1 <= Size /\ i + (n - 1) = i + n - 1
    BY <1>1, <2>1 DEF Size
  <2>3. QED
    BY <2>2, AtByte, Zenon
<1>3. At(i + n) = At(i)
  <2>1. SameChunk(i, i + 1 * n, n) /\ 1 * n = n /\ 0 \in 0 .. n - 1
    BY <1>1 DEF FoundRepeat
  <2>2. At(i + 0) = At((i + n) + 0)
    BY <2>1 DEF SameChunk
  <2>3. QED
    BY <1>1, <2>2
<1>4. \A c \in 1 .. r : SameChunk(i, i + c * n, n)
  BY DEF FoundRepeat
<1>5. CASE forced
  <2> DEFINE m == (r + 1) * n
  <2>1. t = [ pattern |-> NONE, flagged |-> TRUE, length |-> m,
              data |-> Bytes(i, m), count |-> 0 ]
    BY <1>5 DEF RepeatToken
  <2>2. Bytes(i, m) \in Seq(Byte) /\ m \in Nat
    BY <1>1, BytesType, Zenon
  <2> HIDE DEF t, m
  <2>3. t \in Token /\ Piece(t) = Bytes(i, m) /\ t.count = 0
    BY <2>1, <2>2 DEF Token, Pattern, Piece, NONE
  <2>4. Expand(t) = Bytes(i, m)
    BY <2>2, <2>3, ExpandOnce, Zenon
  <2>5. QED
    BY <1>1, <2>3, <2>4 DEF t, m
<1>6. CASE ~forced
  <2>1. t = [ pattern |-> pattern, flagged |-> TRUE,
              length |-> IF pattern = NONE THEN n ELSE n - 1,
              data |-> IF pattern = NONE THEN Bytes(i, n)
                       ELSE IF pattern \in {VAR_ZERO, VAR_HIGH}
                         THEN <<At(i)>> ELSE <<At(i + n - 1)>>,
              count |-> r ]
    BY <1>6 DEF RepeatToken
  <2>2. Bytes(i, n) \in Seq(Byte)
    BY <1>1, <1>2, BytesType, Zenon
  <2>3. /\ pattern \in {NONE, VAR_ZERO, ZERO_VAR, VAR_HIGH, HIGH_VAR}
        /\ pattern = VAR_ZERO => AllAre(i + 1, n - 1, 0)
        /\ pattern = VAR_HIGH => AllAre(i + 1, n - 1, High)
        /\ pattern = ZERO_VAR => AllAre(i, n - 1, 0)
        /\ pattern = HIGH_VAR => AllAre(i, n - 1, High)
    BY <1>1, <1>3, ChunkPattern, Zenon
  <2> HIDE DEF t, pattern
  <2>4. t \in Token /\ t.count = r
    BY <1>1, <1>2, <2>1, <2>2, <2>3
       DEF Token, Pattern, NONE, ZERO_VAR, VAR_ZERO, HIGH_VAR, VAR_HIGH
  <2>5. Piece(t) = Bytes(i, n)
    <3>1. CASE pattern = NONE
      BY <2>1, <3>1 DEF Piece
    <3>2. CASE pattern \in {VAR_ZERO, VAR_HIGH}
      <4> DEFINE b == IF pattern = VAR_ZERO THEN 0 ELSE High
      <4>1. b \in Byte /\ AllAre(i + 1, n - 1, b)
        BY <2>3, <3>2, CompressConstants DEF Byte
      <4>2. Piece(t) = <<At(i)>> \o Fill(n - 1, b)
        BY <2>1, <3>2 DEF Piece, CompressByte, NONE, ZERO, ZERO_VAR, VAR_ZERO,
                          HIGH, HIGH_VAR, VAR_HIGH, VAR
      <4> HIDE DEF b
      <4>3. <<At(i)>> \o Fill(n - 1, b) = Bytes(i, (n - 1) + 1)
        BY <1>1, <1>2, <4>1, VarFirstPiece, Zenon
      <4>4. QED
        BY <1>1, <4>2, <4>3
    <3>3. CASE pattern \in {ZERO_VAR, HIGH_VAR}
      <4> DEFINE b == IF pattern = ZERO_VAR THEN 0 ELSE High
      <4>1. b \in Byte /\ AllAre(i, n - 1, b)
        BY <2>3, <3>3, CompressConstants DEF Byte
      <4>2. Piece(t) = Fill(n - 1, b) \o <<At(i + n - 1)>>
        <5>1. /\ t.pattern = pattern /\ t.length = n - 1
              /\ t.data = <<At(i + n - 1)>>
          BY <2>1, <3>3 DEF NONE, ZERO_VAR, VAR_ZERO, HIGH_VAR, VAR_HIGH
        <5>2. CompressByte(t) = b
          BY <3>3, <5>1 DEF CompressByte, ZERO_VAR, HIGH, HIGH_VAR, VAR_HIGH, VAR
        <5>3. Piece(t) = Fill(t.length, CompressByte(t)) \o t.data
          BY <3>3, <5>1 DEF Piece, NONE, ZERO_VAR, VAR_ZERO, HIGH_VAR, VAR_HIGH
        <5>4. QED
          BY <5>1, <5>2, <5>3, Zenon
      <4> HIDE DEF b
      <4>3. Fill(n - 1, b) \o <<At(i + (n - 1))>> = Bytes(i, (n - 1) + 1)
        BY <1>1, <1>2, <4>1, VarLastPiece, Zenon
      <4>4. QED
        BY <1>1, <1>2, <4>2, <4>3
    <3>4. QED
      BY <2>3, <3>1, <3>2, <3>3
  <2>6. i + n * (r + 1) <= Size
    BY <1>1
  <2>7. Expand(t) = Bytes(i, n * (r + 1))
    <3>1. n \in Nat \ {0} /\ r \in Nat /\ t.count = r
      BY <1>1, <2>4
    <3>2. QED
      BY <1>4, <2>5, <2>6, <3>1, ExpandRepeated, Zenon
  <2>8. QED
    BY <2>4, <2>7 DEF t
<1>7. QED
  BY <1>5, <1>6

-----------------------------------------------------------------------------
(* The loop.                                                                *)

Inv == CompressTypeOK /\ TokensExpandToInput

(* A token that expands to the bytes passed keeps the invariant.            *)
LEMMA EmitKeepsInv ==
  ASSUME Inv, NEW t \in Token, NEW n \in Nat, index + n <= Size,
         Expand(t) = Bytes(index, n), Emit(t, index + n)
  PROVE  Inv'
<1>1. payload \in Seq(Byte) /\ index \in Nat /\ payload' = payload /\ Size' = Size
  BY CompressConstants DEF Inv, CompressTypeOK, Emit, Size
<1>2. index' = index + n /\ index' \in 0 .. Size
  BY <1>1 DEF Emit, Size
<1>3. Bytes(index, n) \in Seq(Byte)
  BY <1>1, BytesType, Zenon
<1>4. expanded' = SubSeq(payload, 1, index + n)
  BY <1>1, BytesContinue DEF Inv, TokensExpandToInput, Emit
<1>5. expanded' \in Seq(Byte) /\ tokens' \in Seq(Token)
  BY <1>3 DEF Inv, CompressTypeOK, Emit
<1>6. QED
  BY <1>1, <1>2, <1>4, <1>5 DEF Inv, CompressTypeOK, TokensExpandToInput, Emit

(* Every turn of the loop does.                                             *)
LEMMA StepKeepsInv ==
  ASSUME Inv, [CompressNext]_compressVars
  PROVE  Inv'
<1>1. payload \in Seq(Byte) /\ index \in Nat /\ index <= Size
  BY CompressConstants DEF Inv, CompressTypeOK, Size
<1>2. ASSUME NEW e \in Nat, RunEnd(index, e), Emit(RunToken(At(index), e - index, <<>>), e)
      PROVE  Inv'
  <2>1. e - index \in Nat /\ index + (e - index) = e /\ e <= Size
    BY <1>1, <1>2 DEF RunEnd, Size
  <2>2. QED
    BY <1>1, <1>2, <2>1, RunTokenExpands, EmitKeepsInv, Zenon
<1>3. ASSUME NEW e \in Nat, RunEnd(index, e), e < Size, At(index) \in {0, High},
             Emit(RunToken(At(index), e - index, <<At(e)>>), e + 1)
      PROVE  Inv'
  <2>1. e - index + 1 \in Nat /\ index + (e - index + 1) = e + 1 /\ e + 1 <= Size
    BY <1>1, <1>3 DEF RunEnd, Size
  <2>2. QED
    BY <1>1, <1>3, <2>1, FollowedTokenExpands, EmitKeepsInv, Zenon
<1>4. ASSUME NEW n \in MinRepeat .. Size, NEW e \in 1 .. Size, CompressRun(n, e)
      PROVE  Inv'
  <2>1. At(index) \in {0, High}
    <3>1. n \in Nat \ {0}
      BY CompressConstants DEF Size
    <3>2. AllAre(index, n, 0) \/ AllAre(index, n, High)
      BY <1>4 DEF CompressRun, analyze_chunk_pattern, EdgePattern, NONE, ZERO,
                  ZERO_VAR, VAR_ZERO, HIGH, HIGH_VAR, VAR_HIGH
    <3>3. index \in index .. index + n - 1
      BY <1>1, <3>1
    <3>4. QED
      BY <3>2, <3>3 DEF AllAre
  <2>2. QED
    BY <1>2, <1>3, <1>4, <2>1 DEF CompressRun
<1>5. ASSUME NEW n \in MinRepeat .. Size, NEW r \in 1 .. Size, CompressRepeat(n, r)
      PROVE  Inv'
  <2>1. /\ n \in Nat /\ n >= MinRepeat /\ r \in Nat \ {0}
        /\ n * (r + 1) \in Nat /\ n * (r + 1) = (r + 1) * n
    BY CompressConstants DEF Size
  <2>2. index + n * (r + 1) <= Size
    BY <1>5, <2>1 DEF CompressRepeat, FoundRepeat
  <2>3. FoundRepeat(index, n, r) /\ analyze_chunk_pattern(index, n) \notin {ZERO, HIGH}
        /\ Emit(RepeatToken(index, n, r), index + n * (r + 1))
    BY <1>5 DEF CompressRepeat
  <2>4. QED
    BY <1>1, <2>1, <2>2, <2>3, RepeatTokenExpands, EmitKeepsInv, Zenon
<1>6. ASSUME NEW e \in 1 .. Size, NoneRun(e)
      PROVE  Inv'
  BY <1>2, <1>3, <1>6 DEF NoneRun
<1>7. ASSUME NEW e \in 1 .. Size, NoneVarRun(e)
      PROVE  Inv'
  <2>1. e - index \in Nat /\ index + (e - index) = e /\ e <= Size /\ e \in Nat
    BY <1>1, <1>7 DEF NoneVarRun, RunEnd, Size
  <2>2. /\ At(index + 1) \in {0, High} /\ RunEnd(index + 1, e)
        /\ Emit(VarRunToken(index, e), e)
    BY <1>7 DEF NoneVarRun, VarRunFollows, VarRunToken
  <2>3. QED
    BY <1>1, <2>1, <2>2, VarRunTokenExpands, EmitKeepsInv, Zenon
<1>8. ASSUME NEW e \in 1 .. Size, NonePack(e)
      PROVE  Inv'
  <2>1. /\ e - index \in Nat /\ index + (e - index) = e /\ e <= Size
        /\ e - 1 - index \in Nat /\ index + (e - 1 - index) = e - 1 /\ e - 1 <= Size
    BY <1>1, <1>8 DEF NonePack, Size
  <2>2. \/ Emit(RawToken(index, e - index), e)
        \/ Emit(RawToken(index, e - 1 - index), e - 1)
    BY <1>8 DEF NonePack
  <2>3. QED
    BY <1>1, <2>1, <2>2, RawTokenExpands, EmitKeepsInv, Zenon
<1>9. CASE UNCHANGED compressVars
  BY <1>9 DEF Inv, CompressTypeOK, TokensExpandToInput, Size, compressVars
<1>10. QED
  BY <1>4, <1>5, <1>6, <1>7, <1>8, <1>9 DEF CompressNext, Compress, Finished

(* An empty list of tokens stands for no bytes.                             *)
LEMMA InitInv ==
  ASSUME CompressInit
  PROVE  Inv
<1>1. payload \in Seq(Byte) \ {<<>>}
  BY CompressConstants DEF CompressInit
<1>2. CompressTypeOK
  BY <1>1 DEF CompressInit, CompressTypeOK, Size
<1>3. SubSeq(payload, 1, 0) = <<>>
  BY <1>1
<1>4. QED
  BY <1>2, <1>3 DEF Inv, CompressInit, TokensExpandToInput

(* Tokens are well formed and the loop never leaves the data, for every     *)
(* payload and all search limits.                                             *)
THEOREM CompressTypeCorrect == CompressSpec => []CompressTypeOK
<1>1. Inv => CompressTypeOK
  BY DEF Inv
<1>2. QED
  BY <1>1, InitInv, StepKeepsInv, PTL DEF CompressSpec

(* The compressor loses nothing: at every turn the tokens written so far    *)
(* stand for exactly the bytes passed so far.                               *)
THEOREM CompressionIsLossless == CompressSpec => []TokensExpandToInput
<1>1. Inv => TokensExpandToInput
  BY DEF Inv
<1>2. QED
  BY <1>1, InitInv, StepKeepsInv, PTL DEF CompressSpec

(* A set of numbers has a least one.                                        *)
LEMMA Least ==
  ASSUME NEW T, T \subseteq Nat, T # {}
  PROVE  \E n \in T : \A m \in T : n <= m
<1> DEFINE R == OpToRel(<, Nat)
<1>1. IsWellFoundedOn(R, Nat)
  BY NatLessThanWellFounded, Zenon
<1>2. \A x, y \in T : <<y, x>> \in R <=> y < x
  BY DEF OpToRel
<1> HIDE DEF R
<1>3. PICK n \in T : \A y \in T : ~(<<y, n>> \in R)
  BY <1>1, WFMin
<1>4. \A m \in T : ~(m < n)
  BY <1>2, <1>3
<1> QED
  BY <1>4

(* Induction, for a set S of numbers.                                       *)
LEMMA Induction ==
  ASSUME NEW S, 0 \in S, \A n \in Nat : n \in S => n + 1 \in S
  PROVE  Nat \subseteq S
<1> SUFFICES ASSUME Nat \ S # {} PROVE FALSE
  OBVIOUS
<1>1. PICK n \in Nat \ S : \A m \in Nat \ S : n <= m
  BY Least
<1>2. n # 0 /\ n - 1 \in Nat /\ (n - 1) + 1 = n
  BY <1>1
<1>3. n - 1 \in S
  BY <1>1, <1>2
<1> QED
  BY <1>1, <1>2, <1>3

(* ... in which all the numbers below may be used.                          *)
LEMMA CourseOfValues ==
  ASSUME NEW S, \A n \in Nat : (\A m \in 0 .. n - 1 : m \in S) => n \in S
  PROVE  Nat \subseteq S
<1> SUFFICES ASSUME Nat \ S # {} PROVE FALSE
  OBVIOUS
<1>1. PICK n \in Nat \ S : \A m \in Nat \ S : n <= m
  BY Least
<1>2. \A m \in 0 .. n - 1 : m \in S
  BY <1>1
<1> QED
  BY <1>1, <1>2

(* A byte of a number has digits below Base, and room for the mark.         *)
LEMMA BaseIs ==
  /\ Base \in Nat /\ Base >= 2 /\ 2 * Base <= High + 1 /\ High \in Nat
  /\ \A v \in Nat : /\ v \div Base \in Nat /\ v % Base \in 0 .. Base - 1
                    /\ v = Base * (v \div Base) + (v % Base)
                    /\ v >= Base => v \div Base < v
<1>1. Base \in Nat /\ Base >= 2 /\ 2 * Base <= High + 1 /\ High \in Nat
  BY StreamConstants DEF Base
<1>2. ASSUME NEW v \in Nat
      PROVE  /\ v \div Base \in Nat /\ v % Base \in 0 .. Base - 1
             /\ v = Base * (v \div Base) + (v % Base)
  BY <1>1
<1>3. ASSUME NEW v \in Nat, v >= Base
      PROVE  v \div Base < v
  <2> DEFINE q == v \div Base
  <2>1. q \in Nat /\ v >= Base * q
    BY <1>1, <1>2
  <2> HIDE DEF q
  <2>2. q = 0 => q < v
    BY <1>1, <1>3
  <2>3. q > 0 => q < v
    <3>1. Base * q >= 2 * q
      BY <1>1, <2>1
    <3> QED
      BY <1>1, <2>1, <3>1
  <2>4. q < v
    BY <2>1, <2>2, <2>3
  <2> QED
    BY <2>4 DEF q
<1> QED
  BY <1>1, <1>2, <1>3

(* A table of the numbers up to n as they are written.                      *)
WriteTable(g, n) ==
  g = [v \in 0 .. n |-> IF v < Base THEN <<v>> ELSE <<Base + (v % Base)>> \o g[v \div Base]]

(* There is one ...                                                         *)
LEMMA WriteTableExists ==
  ASSUME NEW n \in Nat
  PROVE  \E g : WriteTable(g, n)
<1> DEFINE Q == {k \in Nat : \E g : WriteTable(g, k)}
<1>1. 0 \in Q
  <2> DEFINE g == [v \in 0 .. 0 |-> <<v>>]
  <2>1. \A v \in 0 .. 0 : v < Base
    BY BaseIs
  <2>2. WriteTable(g, 0)
    BY <2>1 DEF WriteTable
  <2> QED
    BY <2>2
<1>2. ASSUME NEW k \in Nat, k \in Q
      PROVE  k + 1 \in Q
  <2>1. PICK g : WriteTable(g, k)
    BY <1>2
  <2> DEFINE new == IF k + 1 < Base THEN <<k + 1>> ELSE <<Base + ((k + 1) % Base)>> \o g[(k + 1) \div Base]
             h == [v \in 0 .. k + 1 |-> IF v = k + 1 THEN new ELSE g[v]]
  <2>2. ASSUME NEW v \in 0 .. k + 1
        PROVE  h[v] = IF v < Base THEN <<v>> ELSE <<Base + (v % Base)>> \o h[v \div Base]
    <3>1. v >= Base => v \div Base \in 0 .. k /\ v \div Base # k + 1
      BY BaseIs
    <3>2. v >= Base => h[v \div Base] = g[v \div Base]
      BY <3>1
    <3>3. v < Base \/ v >= Base
      BY BaseIs
    <3>4. CASE v = k + 1
      <4>1. h[v] = new
        BY <3>4
      <4> HIDE DEF h
      <4> QED
        BY <3>2, <3>3, <3>4, <4>1
    <3>5. CASE v # k + 1
      <4>1. v \in 0 .. k /\ h[v] = g[v]
        BY <3>5
      <4>2. g[v] = IF v < Base THEN <<v>> ELSE <<Base + (v % Base)>> \o g[v \div Base]
        BY <2>1, <4>1 DEF WriteTable
      <4> HIDE DEF h
      <4> QED
        BY <3>2, <3>3, <4>1, <4>2
    <3> QED
      BY <3>4, <3>5
  <2>3. h = [v \in 0 .. k + 1 |-> h[v]]
    OBVIOUS
  <2> HIDE DEF h
  <2>4. WriteTable(h, k + 1)
    BY <2>2, <2>3 DEF WriteTable
  <2> QED
    BY <2>4
<1> HIDE DEF Q
<1>3. n \in Q
  BY <1>1, <1>2, Induction
<1> QED
  BY <1>3 DEF Q

(* ... and no other.                                                        *)
LEMMA WriteTableUnique ==
  ASSUME NEW n \in Nat, NEW m \in Nat, NEW g, NEW h, WriteTable(g, n), WriteTable(h, m)
  PROVE  \A v \in Nat : v <= n /\ v <= m => g[v] = h[v]
<1> DEFINE S == {v \in Nat : v <= n /\ v <= m => g[v] = h[v]}
<1>1. ASSUME NEW v \in Nat, \A u \in 0 .. v - 1 : u \in S
      PROVE  v \in S
  <2> SUFFICES ASSUME v <= n, v <= m PROVE g[v] = h[v]
    OBVIOUS
  <2>1. v \in 0 .. n /\ v \in 0 .. m
    OBVIOUS
  <2>2. /\ g[v] = IF v < Base THEN <<v>> ELSE <<Base + (v % Base)>> \o g[v \div Base]
        /\ h[v] = IF v < Base THEN <<v>> ELSE <<Base + (v % Base)>> \o h[v \div Base]
    BY <2>1 DEF WriteTable
  <2>3. ~(v < Base) => g[v \div Base] = h[v \div Base]
    <3> SUFFICES ASSUME ~(v < Base) PROVE g[v \div Base] = h[v \div Base]
      OBVIOUS
    <3>1. v \div Base \in 0 .. v - 1 /\ v \div Base <= n /\ v \div Base <= m
      BY BaseIs
    <3> QED
      BY <1>1, <3>1
  <2> QED
    BY <2>2, <2>3
<1> HIDE DEF S
<1>2. Nat \subseteq S
  BY <1>1, CourseOfValues
<1> QED
  BY <1>2 DEF S

(* CFG_write_variable_u64 is well defined.                                  *)
LEMMA WriteIs ==
  \A v \in Nat :
    CFG_write_variable_u64[v] =
      IF v < Base THEN <<v>> ELSE <<Base + (v % Base)>> \o CFG_write_variable_u64[v \div Base]
<1> DEFINE T(n) == CHOOSE g : WriteTable(g, n)
           F == [v \in Nat |-> T(v)[v]]
           W == CFG_write_variable_u64
<1>1. \A n \in Nat : WriteTable(T(n), n)
  BY WriteTableExists
<1> HIDE DEF T
<1>2. ASSUME NEW v \in Nat
      PROVE  F[v] = IF v < Base THEN <<v>> ELSE <<Base + (v % Base)>> \o F[v \div Base]
  <2>1. v \in 0 .. v
    OBVIOUS
  <2>2. T(v)[v] = IF v < Base THEN <<v>> ELSE <<Base + (v % Base)>> \o T(v)[v \div Base]
    BY <1>1, <2>1 DEF WriteTable
  <2>3. ~(v < Base) => T(v)[v \div Base] = T(v \div Base)[v \div Base]
    <3> SUFFICES ASSUME ~(v < Base) PROVE T(v)[v \div Base] = T(v \div Base)[v \div Base]
      OBVIOUS
    <3>1. v \div Base \in Nat /\ v \div Base <= v /\ v \div Base <= v \div Base
      BY BaseIs
    <3> QED
      BY <1>1, <3>1, WriteTableUnique
  <2>4. v \div Base \in Nat
    BY BaseIs
  <2> QED
    BY <2>2, <2>3, <2>4
<1>3. F = [v \in Nat |-> F[v]]
  OBVIOUS
<1> HIDE DEF F
<1>4. F = [v \in Nat |-> IF v < Base THEN <<v>> ELSE <<Base + (v % Base)>> \o F[v \div Base]]
  BY <1>2, <1>3
<1>5. W = CHOOSE f : f = [v \in Nat |-> IF v < Base THEN <<v>> ELSE <<Base + (v % Base)>> \o f[v \div Base]]
  BY DEF CFG_write_variable_u64
<1>6. W = [v \in Nat |-> IF v < Base THEN <<v>> ELSE <<Base + (v % Base)>> \o W[v \div Base]]
  BY <1>4, <1>5, Zenon
<1> HIDE DEF W
<1>7. \A v \in Nat : W[v] = IF v < Base THEN <<v>> ELSE <<Base + (v % Base)>> \o W[v \div Base]
  BY <1>6
<1> QED
  BY <1>7 DEF W

(* The sets that FoldRight goes through.                                    *)
ReadTable(g, w, n, k) ==
  g = [s \in SUBSET (k .. n) |-> IF s = {} THEN 0 ELSE (w[Min(s)] % Base) + (Base * g[s \ {Min(s)}])]

(* Min is the least.                                                        *)
LEMMA MinIsFirst ==
  ASSUME NEW k \in Nat, NEW n \in Nat, NEW s \in SUBSET (k .. n), k \in s
  PROVE  Min(s) = k
<1>1. \A y \in s : k <= y
  OBVIOUS
<1>2. \A x \in s : (\A y \in s : x <= y) => x = k
  OBVIOUS
<1> QED
  BY <1>1, <1>2 DEF Min

(* There is such a table.                                                   *)
LEMMA ReadTableExists ==
  ASSUME NEW w, NEW n \in Nat
  PROVE  \E g : ReadTable(g, w, n, 1)
<1> DEFINE Is(g, d) == ReadTable(g, w, n, (n + 1) - d)
           Q == {d \in Nat : d <= n => \E g : Is(g, d)}
<1>1. 0 \in Q
  <2>1. (n + 1) .. n = {} /\ (n + 1) - 0 = n + 1
    OBVIOUS
  <2>2. Is([s \in SUBSET ((n + 1) .. n) |-> 0], 0)
    BY <2>1 DEF ReadTable
  <2> QED
    BY <2>2, Zenon
<1>2. ASSUME NEW d \in Nat, d \in Q
      PROVE  d + 1 \in Q
  <2> SUFFICES ASSUME d + 1 <= n PROVE \E g : Is(g, d + 1)
    OBVIOUS
  <2>1. PICK g : Is(g, d)
    BY <1>2
  <2> DEFINE k == (n + 1) - (d + 1)
  <2>2. k \in Nat /\ k <= n /\ k + 1 = (n + 1) - d
    OBVIOUS
  <2>3. ReadTable(g, w, n, k + 1)
    BY <2>1, <2>2
  <2> HIDE DEF k
  <2> DEFINE rest(s) == g[s \ {k}]
             h == [s \in SUBSET (k .. n) |->
                     IF k \in s THEN (w[k] % Base) + (Base * rest(s)) ELSE g[s]]
  <2>4. ASSUME NEW s \in SUBSET (k .. n), k \in s
        PROVE  h[s] = (w[Min(s)] % Base) + (Base * h[s \ {Min(s)}])
    <3>1. Min(s) = k
      BY <2>2, <2>4, MinIsFirst
    <3>2. s \ {k} \in SUBSET (k .. n)
      BY <2>2
    <3>3. h[s] = (w[k] % Base) + (Base * rest(s))
      BY <2>4
    <3>4. h[s \ {k}] = g[s \ {k}]
      BY <3>2
    <3> QED
      BY <3>1, <3>3, <3>4
  <2>5. ASSUME NEW s \in SUBSET (k .. n), k \notin s, s # {}
        PROVE  h[s] = (w[Min(s)] % Base) + (Base * h[s \ {Min(s)}])
    <3>1. s \in SUBSET (k + 1 .. n)
      BY <2>2, <2>5
    <3>2. g[s] = (w[Min(s)] % Base) + (Base * g[s \ {Min(s)}])
      BY <2>3, <2>5, <3>1 DEF ReadTable
    <3>3. h[s] = g[s]
      BY <2>5
    <3>4. s \ {Min(s)} \in SUBSET (k .. n) /\ k \notin s \ {Min(s)}
      BY <2>5
    <3>5. h[s \ {Min(s)}] = g[s \ {Min(s)}]
      BY <3>4
    <3> QED
      BY <3>2, <3>3, <3>5
  <2>6. h[{}] = 0
    <3>1. {} \in SUBSET (k + 1 .. n) /\ {} \in SUBSET (k .. n) /\ k \notin {}
      OBVIOUS
    <3>2. g[{}] = 0
      BY <2>3, <3>1 DEF ReadTable
    <3> QED
      BY <3>1, <3>2
  <2>7. h = [s \in SUBSET (k .. n) |-> h[s]]
    OBVIOUS
  <2> HIDE DEF h
  <2>8. ReadTable(h, w, n, k)
    <3>1. \A s \in SUBSET (k .. n) :
            h[s] = IF s = {} THEN 0 ELSE (w[Min(s)] % Base) + (Base * h[s \ {Min(s)}])
      BY <2>4, <2>5, <2>6
    <3> QED
      BY <2>7, <3>1 DEF ReadTable
  <2>9. Is(h, d + 1)
    BY <2>8 DEF k
  <2> HIDE DEF h, Is
  <2> QED
    BY <2>9
<1> HIDE DEF Q
<1>3. n \in Q
  BY <1>1, <1>2, Induction
<1>4. (n + 1) - n = 1 /\ n <= n
  OBVIOUS
<1> QED
  BY <1>3, <1>4 DEF Q

(* The digits of a number, read from the last: what CFG_read_variable_u64   *)
(* makes of the bytes from k on.                                            *)
Digits(f, w) ==
  /\ f[Len(w) + 1] = 0
  /\ \A k \in 1 .. Len(w) : f[k] = (w[k] % Base) + (Base * f[k + 1])

(* Reading a number back from its bytes.                                    *)
LEMMA ReadIs ==
  ASSUME NEW w, w \in Seq(Byte)
  PROVE  \E f : Digits(f, w) /\ CFG_read_variable_u64(w) = f[1]
<1> DEFINE n == Len(w)
           iter == CHOOSE g : g = [s \in SUBSET (1 .. n) |-> IF s = {} THEN 0 ELSE (w[Min(s)] % Base) + (Base * g[s \ {Min(s)}])]
<1>0. n \in Nat /\ DOMAIN w = 1 .. n
  OBVIOUS
<1>1. iter = [s \in SUBSET (1 .. n) |-> IF s = {} THEN 0 ELSE (w[Min(s)] % Base) + (Base * iter[s \ {Min(s)}])]
  <2>1. PICK g : ReadTable(g, w, n, 1)
    BY <1>0, ReadTableExists, Zenon
  <2>2. g = [s \in SUBSET (1 .. n) |-> IF s = {} THEN 0 ELSE (w[Min(s)] % Base) + (Base * g[s \ {Min(s)}])]
    BY <2>1 DEF ReadTable
  <2> QED
    BY <2>2, Zenon
<1>2. CFG_read_variable_u64(w) = iter[1 .. n]
  BY <1>0 DEF CFG_read_variable_u64, FoldRight, MapThenFoldSet
<1> DEFINE f == [k \in 1 .. n + 1 |-> iter[k .. n]]
<1>3. f[n + 1] = 0
  <2>1. (n + 1) .. n = {} /\ {} \in SUBSET (1 .. n) /\ n + 1 \in 1 .. n + 1
    BY <1>0
  <2>2. iter[{}] = 0
    <3> HIDE DEF iter
    <3> QED
      BY <1>1, <2>1
  <2> HIDE DEF iter
  <2> QED
    BY <2>1, <2>2
<1>4. ASSUME NEW k \in 1 .. n
      PROVE  f[k] = (w[k] % Base) + (Base * f[k + 1])
  <2>1. /\ k .. n \in SUBSET (1 .. n) /\ k .. n # {} /\ k \in k .. n
        /\ (k .. n) \ {k} = (k + 1) .. n /\ k \in 1 .. n + 1 /\ k + 1 \in 1 .. n + 1 /\ k \in Nat
        /\ k .. n \in SUBSET (k .. n)
    BY <1>0
  <2>2. Min(k .. n) = k
    BY <1>0, <2>1, MinIsFirst
  <2> HIDE DEF iter
  <2>3. iter[k .. n] = (w[k] % Base) + (Base * iter[(k + 1) .. n])
    BY <1>1, <2>1, <2>2
  <2> QED
    BY <2>1, <2>3
<1>5. 1 \in 1 .. n + 1
  BY <1>0
<1> HIDE DEF iter
<1>6. f[1] = iter[1 .. n]
  BY <1>5
<1> HIDE DEF f
<1> QED
  BY <1>2, <1>3, <1>4, <1>6 DEF Digits

(* A number is written in bytes, all but the last with the mark.            *)
IsNumber(w, v) ==
  /\ w \in Seq(Byte) /\ Len(w) > 0
  /\ w[Len(w)] < Base
  /\ \A k \in 1 .. Len(w) - 1 : w[k] >= Base
  /\ \A f : Digits(f, w) => f[1] = v

(* What is written is a number that reads back as itself.                   *)
LEMMA Written ==
  \A v \in Nat : IsNumber(CFG_write_variable_u64[v], v)
<1> DEFINE W(v) == CFG_write_variable_u64[v]
           S == {v \in Nat : IsNumber(W(v), v)}
<1>1. ASSUME NEW v \in Nat, \A u \in 0 .. v - 1 : u \in S
      PROVE  v \in S
  <2>1. CASE v < Base
    <3>1. W(v) = <<v>>
      BY <2>1, WriteIs
    <3>2. v \in Byte /\ v % Base = v /\ Base \in Nat
      BY <2>1, BaseIs DEF Byte
    <3>3. ASSUME NEW f, Digits(f, <<v>>)
          PROVE  f[1] = v
      <4>1. f[2] = 0 /\ f[1] = (v % Base) + (Base * f[2])
        BY <3>3 DEF Digits
      <4> QED
        BY <3>2, <4>1
    <3>4. IsNumber(<<v>>, v)
      BY <2>1, <3>2, <3>3 DEF IsNumber
    <3> QED
      BY <3>1, <3>4
  <2>2. CASE ~(v < Base)
    <3> DEFINE q == v \div Base
               b == Base + (v % Base)
               w == W(q)
               x == <<b>> \o w
    <3>1. q \in 0 .. v - 1 /\ q \in Nat
      BY <2>2, BaseIs
    <3>2. IsNumber(w, q)
      BY <1>1, <3>1
    <3>3. W(v) = x
      BY <2>2, WriteIs
    <3>4. b \in Byte /\ b >= Base /\ b % Base = v % Base
      <4>1. v % Base \in 0 .. Base - 1 /\ Base \in Nat /\ High \in Nat /\ 2 * Base <= High + 1
        BY BaseIs
      <4> HIDE DEF q, w, x
      <4> QED
        BY <4>1 DEF Byte
    <3> HIDE DEF b, w, q
    <3>5. w \in Seq(Byte) /\ Len(w) > 0 /\ Len(w) \in Nat
      BY <3>2 DEF IsNumber
    <3>6. /\ x \in Seq(Byte) /\ Len(x) = Len(w) + 1 /\ x[1] = b
          /\ \A k \in 1 .. Len(w) : x[k + 1] = w[k]
          /\ \A k \in 2 .. Len(w) + 1 : x[k] = w[k - 1]
      BY <3>4, <3>5
    <3> HIDE DEF x
    <3>7. x[Len(x)] < Base
      <4>1. Len(x) \in 2 .. Len(w) + 1 /\ Len(x) - 1 = Len(w)
        BY <3>5, <3>6
      <4>2. x[Len(x)] = w[Len(w)]
        BY <3>6, <4>1
      <4> QED
        BY <3>2, <4>2 DEF IsNumber
    <3>8. ASSUME NEW k \in 1 .. Len(x) - 1
          PROVE  x[k] >= Base
      <4>1. CASE k = 1
        BY <3>4, <3>6, <4>1
      <4>2. CASE k # 1
        <5>1. k \in 2 .. Len(w) + 1 /\ k - 1 \in 1 .. Len(w) - 1
          BY <3>5, <3>6, <4>2
        <5> QED
          BY <3>2, <3>6, <5>1 DEF IsNumber
      <4> QED
        BY <4>1, <4>2
    <3>9. ASSUME NEW f, Digits(f, x)
          PROVE  f[1] = v
      <4> DEFINE g == [k \in 1 .. Len(w) + 1 |-> f[k + 1]]
      <4>1. f[Len(w) + 2] = 0
        <5>1. Len(x) + 1 = Len(w) + 2
          BY <3>5, <3>6
        <5> QED
          BY <3>9, <5>1 DEF Digits
      <4>2. g[Len(w) + 1] = 0
        <5>1. Len(w) + 1 \in 1 .. Len(w) + 1 /\ (Len(w) + 1) + 1 = Len(w) + 2
          BY <3>5
        <5> QED
          BY <4>1, <5>1
      <4>3. ASSUME NEW k \in 1 .. Len(w)
            PROVE  g[k] = (w[k] % Base) + (Base * g[k + 1])
        <5>1. k \in 1 .. Len(w) + 1 /\ k + 1 \in 1 .. Len(w) + 1 /\ k + 1 \in 1 .. Len(x)
          BY <3>5, <3>6
        <5>2. f[k + 1] = (x[k + 1] % Base) + (Base * f[(k + 1) + 1])
          BY <3>9, <5>1 DEF Digits
        <5>3. x[k + 1] = w[k]
          BY <3>6
        <5> QED
          BY <5>1, <5>2, <5>3
      <4>4. Digits(g, w)
        BY <4>2, <4>3 DEF Digits
      <4>5. g[1] = f[2]
        <5>1. 1 \in 1 .. Len(w) + 1
          BY <3>5
        <5> QED
          BY <5>1
      <4> HIDE DEF g
      <4>6. g[1] = q
        BY <3>2, <4>4 DEF IsNumber
      <4>7. f[1] = (b % Base) + (Base * f[1 + 1])
        <5>1. 1 \in 1 .. Len(x)
          BY <3>5, <3>6
        <5>2. f[1] = (x[1] % Base) + (Base * f[1 + 1])
          BY <3>9, <5>1 DEF Digits
        <5>3. x[1] = b
          BY <3>6
        <5> QED
          BY <5>2, <5>3
      <4>8. f[1] = (v % Base) + (Base * q)
        <5>0. 1 + 1 = 2
          OBVIOUS
        <5>1. f[1 + 1] = q
          BY <4>5, <4>6, <5>0, Zenon
        <5> QED
          BY <3>4, <4>7, <5>1
      <4>9. v = Base * q + (v % Base) /\ Base \in Nat /\ v % Base \in Nat
        BY BaseIs DEF q
      <4> QED
        BY <3>1, <4>8, <4>9
    <3>10. IsNumber(x, v)
      BY <3>5, <3>6, <3>7, <3>8, <3>9 DEF IsNumber
    <3> QED
      BY <3>3, <3>10
  <2> QED
    BY <2>1, <2>2
<1> HIDE DEF S
<1>2. Nat \subseteq S
  BY <1>1, CourseOfValues
<1> QED
  BY <1>2 DEF S

(* What is written is read back.                                            *)
LEMMA NumberReadBack ==
  ASSUME NEW w, NEW v, IsNumber(w, v)
  PROVE  CFG_read_variable_u64(w) = v
<1>1. w \in Seq(Byte)
  BY DEF IsNumber
<1>2. PICK f : Digits(f, w) /\ CFG_read_variable_u64(w) = f[1]
  BY <1>1, ReadIs
<1> QED
  BY <1>2 DEF IsNumber

-----------------------------------------------------------------------------
(* Sequences of bytes, one after the other.                                 *)

(* FlattenSeq puts the lists one after the other.                           *)
FlatTable(g, ss, n) == g = [i \in 1 .. n |-> IF i = 1 THEN ss[i] ELSE g[i - 1] \o ss[i]]

(* There is such a table.                                                   *)
LEMMA FlatTableExists ==
  ASSUME NEW ss, NEW n \in Nat
  PROVE  \E g : FlatTable(g, ss, n)
<1> DEFINE Q == {k \in Nat : \E g : FlatTable(g, ss, k)}
<1>1. 0 \in Q
  <2>1. FlatTable([i \in 1 .. 0 |-> ss[i]], ss, 0)
    BY DEF FlatTable
  <2> QED
    BY <2>1
<1>2. ASSUME NEW k \in Nat, k \in Q
      PROVE  k + 1 \in Q
  <2>1. PICK g : FlatTable(g, ss, k)
    BY <1>2
  <2> DEFINE more == g[k] \o ss[k + 1]
             h == [i \in 1 .. k + 1 |-> IF i = k + 1 THEN IF i = 1 THEN ss[i] ELSE more ELSE g[i]]
  <2>2. ASSUME NEW i \in 1 .. k + 1
        PROVE  h[i] = IF i = 1 THEN ss[i] ELSE h[i - 1] \o ss[i]
    <3>1. CASE i = k + 1
      <4>1. CASE i = 1
        BY <3>1, <4>1
      <4>2. CASE i # 1
        <5>1. k \in 1 .. k + 1 /\ k # k + 1 /\ i - 1 = k
          BY <3>1, <4>2
        <5>2. h[k] = g[k]
          BY <5>1
        <5>3. h[i] = more
          BY <3>1, <4>2
        <5> HIDE DEF h
        <5> QED
          BY <3>1, <4>2, <5>1, <5>2, <5>3
      <4> QED
        BY <4>1, <4>2
    <3>2. CASE i # k + 1
      <4>1. i \in 1 .. k
        BY <3>2
      <4>2. h[i] = g[i]
        BY <3>2
      <4>3. g[i] = IF i = 1 THEN ss[i] ELSE g[i - 1] \o ss[i]
        BY <2>1, <4>1 DEF FlatTable
      <4>4. i # 1 => h[i - 1] = g[i - 1]
        <5> SUFFICES ASSUME i # 1 PROVE h[i - 1] = g[i - 1]
          OBVIOUS
        <5>1. i - 1 \in 1 .. k + 1 /\ i - 1 # k + 1
          BY <4>1
        <5> QED
          BY <5>1
      <4> HIDE DEF h
      <4> QED
        BY <4>2, <4>3, <4>4
    <3> QED
      BY <3>1, <3>2
  <2>3. h = [i \in 1 .. k + 1 |-> h[i]]
    OBVIOUS
  <2> HIDE DEF h
  <2>4. FlatTable(h, ss, k + 1)
    BY <2>2, <2>3 DEF FlatTable
  <2> QED
    BY <2>4
<1> HIDE DEF Q
<1>3. n \in Q
  BY <1>1, <1>2, Induction
<1> QED
  BY <1>3 DEF Q

(* ... and FlattenSeq reads it at the whole list.                           *)
LEMMA Flattened ==
  ASSUME NEW ss, NEW n, n \in Nat \ {0}, Len(ss) = n
  PROVE  \E g : FlatTable(g, ss, n) /\ FlattenSeq(ss) = g[n]
<1> DEFINE iter == CHOOSE g : g = [i \in 1 .. Len(ss) |-> IF i = 1 THEN ss[i] ELSE g[i - 1] \o ss[i]]
<1>1. iter = [i \in 1 .. Len(ss) |-> IF i = 1 THEN ss[i] ELSE iter[i - 1] \o ss[i]]
  <2>1. PICK g : FlatTable(g, ss, n)
    BY FlatTableExists, Zenon
  <2>2. g = [i \in 1 .. Len(ss) |-> IF i = 1 THEN ss[i] ELSE g[i - 1] \o ss[i]]
    BY <2>1 DEF FlatTable
  <2> QED
    BY <2>2, Zenon
<1>2. ~(Len(ss) = 0)
  OBVIOUS
<1>3. FlattenSeq(ss) = iter[Len(ss)]
  BY <1>2, Zenon DEF FlattenSeq
<1> HIDE DEF iter
<1>4. FlatTable(iter, ss, n)
  BY <1>1 DEF FlatTable
<1> QED
  BY <1>3, <1>4

(* s is the pieces xs one after the other, and f says where each begins.    *)
Cuts(s, xs, n, f) ==
  /\ s \in Seq(Byte)
  /\ f \in [1 .. n + 1 -> Nat]
  /\ f[1] = 0
  /\ Len(s) = f[n + 1]
  /\ \A k \in 1 .. n :
       /\ f[k + 1] = f[k] + Len(xs[k])
       /\ \A i \in 1 .. Len(xs[k]) : s[f[k] + i] = xs[k][i]

(* Two sequences of bytes, and the elements of the one behind the other.    *)
LEMMA Joined ==
  ASSUME NEW s \in Seq(Byte), NEW t \in Seq(Byte)
  PROVE  /\ s \o t \in Seq(Byte) /\ Len(s) \in Nat /\ Len(t) \in Nat
         /\ Len(s \o t) = Len(s) + Len(t)
         /\ \A k \in 1 .. Len(s) : (s \o t)[k] = s[k]
         /\ \A k \in 1 .. Len(t) : (s \o t)[Len(s) + k] = t[k]
<1>1. \A k \in 1 .. Len(t) : (s \o t)[Len(s) + k] = t[k]
  <2> TAKE k \in 1 .. Len(t)
  <2>1. Len(s) + k \in 1 .. Len(s) + Len(t) /\ ~(Len(s) + k <= Len(s)) /\ (Len(s) + k) - Len(s) = k
    OBVIOUS
  <2> QED
    BY <2>1
<1> QED
  BY <1>1

(* The pieces of a flattened sequence lie where they were put.              *)
LEMMA CutsExist ==
  ASSUME NEW n \in Nat \ {0}, NEW xs, Len(xs) = n, \A k \in 1 .. n : xs[k] \in Seq(Byte)
  PROVE  \E f : Cuts(FlattenSeq(xs), xs, n, f)
<1>1. PICK g : FlatTable(g, xs, n) /\ FlattenSeq(xs) = g[n]
  BY Flattened
<1> DEFINE Q == {m \in Nat : m < n => \E f : Cuts(g[m + 1], xs, m + 1, f)}
<1>2. 0 \in Q
  <2> DEFINE f == [k \in 1 .. 2 |-> IF k = 1 THEN 0 ELSE Len(xs[1])]
  <2>1. g[1] = xs[1] /\ xs[1] \in Seq(Byte)
    <3>1. 1 \in 1 .. n
      OBVIOUS
    <3> QED
      BY <1>1, <3>1 DEF FlatTable
  <2>2. f[1] = 0 /\ f[2] = Len(xs[1]) /\ f \in [1 .. 2 -> Nat]
    BY <2>1
  <2> HIDE DEF f
  <2>3. 0 + 1 = 1 /\ 1 + 1 = 2 /\ \A i \in Nat : 0 + i = i
    OBVIOUS
  <2>4. \A k \in 1 .. 1 : k = 1
    OBVIOUS
  <2>5. \A k \in 1 .. 1 :
          /\ f[k + 1] = f[k] + Len(xs[k])
          /\ \A i \in 1 .. Len(xs[k]) : g[1][f[k] + i] = xs[k][i]
    <3> SUFFICES /\ f[2] = f[1] + Len(xs[1])
                 /\ \A i \in 1 .. Len(xs[1]) : g[1][f[1] + i] = xs[1][i]
      BY <2>3, <2>4
    <3> QED
      BY <2>1, <2>2
  <2>6. Cuts(g[1], xs, 1, f)
    BY <2>1, <2>2, <2>3, <2>5 DEF Cuts
  <2> QED
    BY <2>3, <2>6
<1>3. ASSUME NEW m \in Nat, m \in Q
      PROVE  m + 1 \in Q
  <2> SUFFICES ASSUME m + 1 < n PROVE \E f : Cuts(g[(m + 1) + 1], xs, (m + 1) + 1, f)
    OBVIOUS
  <2>1. m < n /\ m + 1 \in 1 .. n /\ m + 2 \in 1 .. n /\ (m + 1) + 1 = m + 2 /\ m + 2 # 1
        /\ (m + 2) - 1 = m + 1
    OBVIOUS
  <2>2. PICK f : Cuts(g[m + 1], xs, m + 1, f)
    BY <1>3, <2>1
  <2> DEFINE x == xs[m + 2]
             s == g[m + 1]
             h == [k \in 1 .. (m + 2) + 1 |-> IF k = m + 3 THEN f[m + 2] + Len(x) ELSE f[k]]
  <2>3. x \in Seq(Byte) /\ Len(x) \in Nat
    BY <2>1
  <2>4. g[m + 2] = s \o x
    BY <1>1, <2>1 DEF FlatTable
  <2>5. /\ s \in Seq(Byte) /\ f \in [1 .. m + 2 -> Nat] /\ f[1] = 0 /\ Len(s) = f[m + 2]
        /\ \A k \in 1 .. m + 1 : f[k + 1] = f[k] + Len(xs[k])
        /\ \A k \in 1 .. m + 1 : \A i \in 1 .. Len(xs[k]) : s[f[k] + i] = xs[k][i]
    BY <2>1, <2>2 DEF Cuts
  <2> HIDE DEF x, s
  <2>6. /\ s \o x \in Seq(Byte) /\ Len(s \o x) = Len(s) + Len(x)
        /\ \A k \in 1 .. Len(s) : (s \o x)[k] = s[k]
        /\ \A k \in 1 .. Len(x) : (s \o x)[Len(s) + k] = x[k]
    BY <2>3, <2>5, Joined
  <2>7. /\ h \in [1 .. (m + 2) + 1 -> Nat] /\ h[1] = 0 /\ h[(m + 2) + 1] = f[m + 2] + Len(x)
        /\ \A k \in 1 .. m + 2 : h[k] = f[k]
    BY <2>3, <2>5
  <2> HIDE DEF h
  <2>8. ASSUME NEW k \in 1 .. m + 2
        PROVE  /\ h[k + 1] = h[k] + Len(xs[k])
               /\ \A i \in 1 .. Len(xs[k]) : (s \o x)[h[k] + i] = xs[k][i]
    <3>1. CASE k = m + 2
      <4>1. h[k] = Len(s) /\ h[k + 1] = f[m + 2] + Len(x) /\ xs[k] = x
        BY <2>5, <2>7, <3>1 DEF x
      <4> QED
        BY <2>5, <2>6, <4>1
    <3>2. CASE k # m + 2
      <4>1. k \in 1 .. m + 1 /\ k + 1 \in 1 .. m + 2 /\ h[k] = f[k] /\ h[k + 1] = f[k + 1]
        BY <2>7, <3>2
      <4>2. f[k + 1] = f[k] + Len(xs[k]) /\ f[k] \in Nat
            /\ \A i \in 1 .. Len(xs[k]) : s[f[k] + i] = xs[k][i]
        BY <2>5, <4>1
      <4>3. Len(xs[k]) \in Nat
        <5>1. k \in 1 .. n
          BY <2>1
        <5>2. xs[k] \in Seq(Byte)
          BY <5>1
        <5> QED
          BY <5>2
      <4>4. f[k + 1] <= Len(s)
        <5> DEFINE P == {d \in Nat : k + 1 + d <= m + 2 => f[k + 1] <= f[k + 1 + d]}
        <5>1. 0 \in P
          BY <2>5, <4>1
        <5>2. ASSUME NEW d \in Nat, d \in P PROVE d + 1 \in P
          <6> SUFFICES ASSUME k + 1 + (d + 1) <= m + 2 PROVE f[k + 1] <= f[k + 1 + (d + 1)]
            OBVIOUS
          <6>1. k + 1 + d \in 1 .. m + 1 /\ k + 1 + d \in 1 .. n /\ k + 1 + (d + 1) = (k + 1 + d) + 1
                /\ k + 1 + d <= m + 2
            OBVIOUS
          <6>2. f[k + 1] <= f[k + 1 + d]
            BY <5>2, <6>1
          <6> DEFINE j == k + 1 + d
          <6>3. f[j + 1] = f[j] + Len(xs[j]) /\ xs[j] \in Seq(Byte)
            BY <2>5, <6>1
          <6>4. f[j] \in Nat /\ f[k + 1] \in Nat /\ Len(xs[j]) \in Nat /\ f[j + 1] \in Nat
            <7>1. j \in 1 .. m + 2 /\ j + 1 \in 1 .. m + 2
              BY <6>1
            <7>2. Len(xs[j]) \in Nat
              BY <6>3
            <7> HIDE DEF j
            <7>3. f[j] \in Nat /\ f[j + 1] \in Nat /\ f[k + 1] \in Nat
              BY <2>5, <4>1, <7>1
            <7> QED
              BY <7>2, <7>3
          <6> QED
            BY <6>1, <6>2, <6>3, <6>4
        <5> HIDE DEF P
        <5>3. Nat \subseteq P
          BY <5>1, <5>2, Induction
        <5>4. (m + 1) - k \in Nat /\ k + 1 + ((m + 1) - k) = m + 2
          BY <4>1
        <5>5. (m + 1) - k \in P
          BY <5>3, <5>4
        <5>6. f[k + 1] <= f[m + 2]
          BY <5>4, <5>5 DEF P
        <5> QED
          BY <2>5, <5>6
      <4>5. ASSUME NEW i \in 1 .. Len(xs[k])
            PROVE  (s \o x)[h[k] + i] = xs[k][i]
        <5>1. f[k] + i \in 1 .. Len(s)
          <6> DEFINE l == Len(xs[k])
          <6>1. l \in Nat /\ i \in 1 .. l /\ f[k + 1] = f[k] + l /\ f[k] \in Nat
            BY <4>2, <4>3
          <6>2. Len(s) \in Nat
            BY <2>5
          <6> HIDE DEF l
          <6>3. i \in Nat /\ 1 <= i /\ i <= l
            BY <6>1
          <6> QED
            BY <4>4, <6>1, <6>2, <6>3
        <5> QED
          BY <2>6, <4>1, <4>2, <5>1
      <4> QED
        BY <4>1, <4>2, <4>5
    <3> QED
      BY <3>1, <3>2
  <2>9. Cuts(s \o x, xs, m + 2, h)
    BY <2>5, <2>6, <2>7, <2>8 DEF Cuts
  <2> QED
    BY <2>1, <2>4, <2>9
<1> HIDE DEF Q
<1>4. n - 1 \in Nat /\ n - 1 < n /\ (n - 1) + 1 = n
  OBVIOUS
<1>5. n - 1 \in Q
  BY <1>2, <1>3, <1>4, Induction
<1> QED
  BY <1>1, <1>4, <1>5 DEF Q

(* When no piece is empty, each begins before the next.                     *)
LEMMA CutsGrow ==
  ASSUME NEW n \in Nat \ {0}, NEW f, NEW k \in 1 .. n + 1,
         f \in [1 .. n + 1 -> Nat], \A j \in 1 .. n : f[j] < f[j + 1]
  PROVE  f[1] <= f[k] /\ f[k] <= f[n + 1] /\ (k # n + 1 => f[k] < f[n + 1])
<1> DEFINE P == {d \in Nat : k + d <= n + 1 => f[k] + d <= f[k + d]}
<1>1. 0 \in P
  OBVIOUS
<1>2. ASSUME NEW d \in Nat, d \in P PROVE d + 1 \in P
  <2> SUFFICES ASSUME k + (d + 1) <= n + 1 PROVE f[k] + (d + 1) <= f[k + (d + 1)]
    OBVIOUS
  <2>1. k + d \in 1 .. n /\ k + (d + 1) = (k + d) + 1 /\ k + d <= n + 1
        /\ k + d \in 1 .. n + 1 /\ k + (d + 1) \in 1 .. n + 1
    OBVIOUS
  <2>2. f[k] + d <= f[k + d]
    BY <1>2, <2>1
  <2>3. f[k + d] < f[k + (d + 1)]
    BY <2>1
  <2>4. f[k] \in Nat /\ f[k + d] \in Nat /\ f[k + (d + 1)] \in Nat
    BY <2>1
  <2> QED
    BY <2>2, <2>3, <2>4
<1> HIDE DEF P
<1>3. Nat \subseteq P
  BY <1>1, <1>2, Induction
<1>4. (n + 1) - k \in Nat /\ k + ((n + 1) - k) = n + 1 /\ n + 1 \in 1 .. n + 1
  OBVIOUS
<1>5. f[k] + ((n + 1) - k) <= f[n + 1]
  BY <1>3, <1>4 DEF P
<1>6. f[k] \in Nat /\ f[n + 1] \in Nat
  BY <1>4
<1> DEFINE R == {d \in Nat : 1 + d <= n + 1 => f[1] <= f[1 + d]}
<1>7. 0 \in R
  OBVIOUS
<1>8. ASSUME NEW d \in Nat, d \in R PROVE d + 1 \in R
  <2> SUFFICES ASSUME 1 + (d + 1) <= n + 1 PROVE f[1] <= f[1 + (d + 1)]
    OBVIOUS
  <2>1. 1 + d \in 1 .. n /\ 1 + (d + 1) = (1 + d) + 1 /\ 1 + d <= n + 1
        /\ 1 + d \in 1 .. n + 1 /\ 1 + (d + 1) \in 1 .. n + 1 /\ 1 \in 1 .. n + 1
    OBVIOUS
  <2>2. f[1] <= f[1 + d]
    BY <1>8, <2>1
  <2>3. f[1 + d] < f[1 + (d + 1)]
    BY <2>1
  <2>4. f[1] \in Nat /\ f[1 + d] \in Nat /\ f[1 + (d + 1)] \in Nat
    BY <2>1
  <2> QED
    BY <2>2, <2>3, <2>4
<1> HIDE DEF R
<1>9. Nat \subseteq R
  BY <1>7, <1>8, Induction
<1>10. k - 1 \in Nat /\ 1 + (k - 1) = k
  OBVIOUS
<1>11. f[1] <= f[k]
  <2>1. k - 1 \in R
    BY <1>9, <1>10
  <2>2. 1 + (k - 1) <= n + 1 => f[1] <= f[1 + (k - 1)]
    BY <2>1 DEF R
  <2> QED
    BY <1>10, <2>2
<1> QED
  BY <1>5, <1>6, <1>11

-----------------------------------------------------------------------------
(* What is in a stream.                                                     *)

(* What a token must be for the analyzer to read what Expand makes of it.   *)
WellFormed(t) ==
  /\ t \in Token
  /\ t.length > 0
  /\ t.flagged <=> t.count > 0
  /\ Len(t.data) = IF t.pattern = NONE THEN t.length
                   ELSE IF t.pattern \in {ZERO, HIGH} THEN 0 ELSE 1

(* ... and not to refuse it.                                                *)
Accepted(t) ==
  t.flagged => /\ t.pattern \notin {ZERO, HIGH, VAR}
               /\ t.pattern = NONE => t.length <= NoneData

FlagValue(t) == (t.length * 16) + (IF t.flagged THEN 8 ELSE 0) + t.pattern
FlagBytes(t) == CFG_write_variable_u64[FlagValue(t)]
CountBytes(t) == IF t.count = 0 THEN <<>> ELSE CFG_write_variable_u64[t.count]

(* A script p says how a stream was made: p.start[k] bytes of the stream    *)
(* and p.from[k] bytes of the data are before token k.                       *)
Count(p) == Len(p.tokens)
FlagEnd(p, k) == p.start[k] + Len(FlagBytes(p.tokens[k]))
DataEnd(p, k) == FlagEnd(p, k) + Len(p.tokens[k].data)

(* The bytes of the blocks, from 1; w is among them, after s others.         *)
BlockByte(p, i) == IF i \in 1 .. Len(p.stream) THEN p.stream[i] ELSE 0
Lies(p, w, s) == \A i \in 1 .. Len(w) : BlockByte(p, s + i) = w[i]

SizeBytes(p) == CFG_write_variable_u64[p.original_size]
CompressedBytes(p) == CFG_write_variable_u64[p.compress_size]
SizeEnd(p) == Len(Identifier) + Len(SizeBytes(p))

HeaderLies(p) ==
  /\ p.identifier \in Seq(Byte) /\ Len(p.identifier) = Len(Identifier)
  /\ p.original_size \in Nat /\ p.compress_size \in Nat
  /\ Lies(p, p.identifier, 0)
  /\ Lies(p, SizeBytes(p), Len(Identifier))
  /\ Lies(p, CompressedBytes(p), SizeEnd(p))
  /\ p.start[1] = SizeEnd(p) + Len(CompressedBytes(p))

TokenLies(p, k) ==
  LET t == p.tokens[k]
  IN  /\ WellFormed(t)
      /\ Lies(p, FlagBytes(t), p.start[k])
      /\ Lies(p, t.data, FlagEnd(p, k))
      /\ Lies(p, CountBytes(t), DataEnd(p, k))
      /\ p.start[k + 1] = DataEnd(p, k) + Len(CountBytes(t))
      /\ p.start[k] < p.start[k + 1]
      /\ p.from[k + 1] = p.from[k] + Len(Expand(t))
      /\ p.from[k] < p.from[k + 1]
      /\ \A i \in 1 .. Len(Expand(t)) : p.original[p.from[k] + i] = Expand(t)[i]

Script(p) ==
  /\ Count(p) \in Nat \ {0}
  /\ p.stream \in Seq(Byte) /\ p.original \in Seq(Byte) /\ p.exact \in BOOLEAN
  /\ p.start \in [1 .. Count(p) + 1 -> Nat] /\ p.from \in [1 .. Count(p) + 1 -> Nat]
  /\ p.start[Count(p) + 1] = Len(p.stream)
  /\ p.from[1] = 0 /\ p.from[Count(p) + 1] = Len(p.original)
  /\ HeaderLies(p)
  /\ \A k \in 1 .. Count(p) : TokenLies(p, k)
  /\ \/ p.original_size = Len(p.original)
     \/ p.compress_size = Len(p.stream) - p.start[1]
  /\ p.exact => /\ p.identifier = Identifier
                /\ p.original_size = Len(p.original)
                /\ p.compress_size = Len(p.stream) - p.start[1]
                /\ \A k \in 1 .. Count(p) : Accepted(p.tokens[k])

-----------------------------------------------------------------------------
(* Where the engine e is in the stream, after c bytes of it.                 *)

(* In a number w that s bytes are before.                                    *)
Reading(e, c, w, s) ==
  \E m \in Nat : m < Len(w) /\ c = s + m /\ e.variable_u64 = SubSeq(w, 1, m)

Untouched(e) == e.total_input = 0 /\ e.total_output = 0

AtIdentifier(p, e, c) ==
  /\ c <= Len(Identifier)
  /\ e.identifier = SubSeq(p.identifier, 1, c)
  /\ e.variable_u64 = <<>>
  /\ Untouched(e)

AtOriginalSize(p, e, c) ==
  Reading(e, c, SizeBytes(p), Len(Identifier)) /\ Untouched(e)

AtCompressSize(p, e, c) ==
  /\ Reading(e, c, CompressedBytes(p), SizeEnd(p))
  /\ e.original_size = p.original_size
  /\ Untouched(e)

(* Past the header.                                                         *)
Sized(p, e, c) ==
  /\ e.original_size = p.original_size
  /\ e.compress_size = p.compress_size
  /\ e.total_input + p.start[1] = c

(* The zeros behind the last token begin with a flag of 0.                   *)
NextFlag(p, k) == IF k = Count(p) + 1 THEN <<0>> ELSE FlagBytes(p.tokens[k])

AtFlag(p, e, c) ==
  /\ Sized(p, e, c)
  /\ \E k \in 1 .. Count(p) + 1 :
       /\ e.total_output = p.from[k]
       /\ Reading(e, c, NextFlag(p, k), p.start[k])
       /\ p.exact => k # Count(p) + 1

(* In token t, which is not refused.                                        *)
InToken(e, t) ==
  /\ e.flag = t.pattern /\ e.flag_repeat = t.flagged /\ e.flag_size = t.length
  /\ t.flagged => t.pattern \notin {ZERO, HIGH, VAR}

VariableIn(p, e, c, k) ==
  /\ InToken(e, p.tokens[k])
  /\ p.tokens[k].pattern \notin {NONE, ZERO, HIGH}
  /\ c = FlagEnd(p, k)
  /\ e.total_output = p.from[k]
  /\ e.flag_index = 0 /\ e.repeat_index = 0
  /\ e.variable_u64 = <<>>

AtVariable(p, e, c) == Sized(p, e, c) /\ \E k \in 1 .. Count(p) : VariableIn(p, e, c, k)

RepeatIn(p, e, c, k) ==
  LET t == p.tokens[k]
  IN  /\ InToken(e, t)
      /\ t.flagged
      /\ Reading(e, c, CountBytes(t), DataEnd(p, k))
      /\ e.total_output = p.from[k] + (IF t.pattern = NONE THEN t.length ELSE 0)
      /\ e.flag_index = 0 /\ e.repeat_index = 0
      /\ IF t.pattern = NONE THEN e.none_data = t.data ELSE e.variable = t.data

AtRepeat(p, e, c) == Sized(p, e, c) /\ \E k \in 1 .. Count(p) : RepeatIn(p, e, c, k)

(* Writing a piece of token t over and over, q times before the engine      *)
(* counts.                                                                  *)
Writing(e, t, from, q) ==
  /\ e.flag_index < Len(Piece(t))
  /\ e.repeat_index + q < t.count + 1
  /\ e.total_output = from + (((e.repeat_index + q) * Len(Piece(t))) + e.flag_index)

CmpIn(p, e, c, k) ==
  LET t == p.tokens[k]
  IN  /\ InToken(e, t)
      /\ t.pattern # NONE
      /\ c = p.start[k + 1]
      /\ t.pattern \notin {ZERO, HIGH} => e.variable = t.data
      /\ t.flagged => e.repeat_size = t.count
      /\ Writing(e, t, p.from[k], 0)
      /\ e.variable_u64 = <<>>

AtCmp(p, e, c) == Sized(p, e, c) /\ \E k \in 1 .. Count(p) : CmpIn(p, e, c, k)

NoneRepeatIn(p, e, c, k) ==
  LET t == p.tokens[k]
  IN  /\ InToken(e, t)
      /\ t.pattern = NONE /\ t.flagged
      /\ c = p.start[k + 1]
      /\ e.none_data = t.data
      /\ e.repeat_size = t.count
      /\ Writing(e, t, p.from[k], 1)
      /\ e.variable_u64 = <<>>

AtNoneRepeat(p, e, c) == Sized(p, e, c) /\ \E k \in 1 .. Count(p) : NoneRepeatIn(p, e, c, k)

NoneIn(p, e, c, k) ==
  LET t == p.tokens[k]
  IN  /\ InToken(e, t)
      /\ t.pattern = NONE
      /\ e.flag_index < t.length
      /\ c = FlagEnd(p, k) + e.flag_index
      /\ e.total_output = p.from[k] + e.flag_index
      /\ e.repeat_index = 0
      /\ t.flagged => /\ e.flag_index <= Len(e.none_data)
                      /\ \A i \in 1 .. e.flag_index : e.none_data[i] = t.data[i]
      /\ e.variable_u64 = <<>>

AtNone(p, e, c) == Sized(p, e, c) /\ \E k \in 1 .. Count(p) : NoneIn(p, e, c, k)

(* The place that each state stands for.                                    *)
Place(p, e, c) ==
  /\ e.state = GET_IDENTIFIER => AtIdentifier(p, e, c)
  /\ e.state = GET_ORIGINAL_SIZE => AtOriginalSize(p, e, c)
  /\ e.state = GET_COMPRESS_SIZE => AtCompressSize(p, e, c)
  /\ e.state = GET_FLAG => AtFlag(p, e, c)
  /\ e.state = GET_VARIABLE => AtVariable(p, e, c)
  /\ e.state = GET_REPEAT => AtRepeat(p, e, c)
  /\ e.state = OUTPUT_CMP => AtCmp(p, e, c)
  /\ e.state = OUTPUT_NONE => AtNone(p, e, c)
  /\ e.state = OUTPUT_NONE_REPEAT => AtNoneRepeat(p, e, c)
  /\ e.state = ERROR_STATE => ~p.exact

(* What is fed to the engine is what comes after b bytes.                    *)
Feed(p, in, b) ==
  /\ in \in Seq(Byte)
  /\ \A i \in 1 .. Len(in) : in[i] = BlockByte(p, b + i)

(* s is the beginning of the data.                                          *)
Begins(p, s) ==
  /\ s \in Seq(Byte) /\ Len(s) <= Len(p.original)
  /\ \A i \in 1 .. Len(s) : s[i] = p.original[i]

(* The engine e in the middle of the stream.                                *)
Midway(p, e, in, b) ==
  /\ Feed(p, in, b)
  /\ e.input_index <= Len(in)
  /\ Place(p, e, b + e.input_index)
  /\ e.need_more_input => /\ e.input_index = Len(in)
                          /\ e.state \notin {OUTPUT_CMP, OUTPUT_NONE_REPEAT}
  /\ ~e.done

(* ... and at the end of a token that makes the data complete.              *)
Complete(p, e, in, b) ==
  /\ e.total_output = e.original_size
  /\ e.input_index <= Len(in)
  /\ Sized(p, e, b + e.input_index)
  /\ \E k \in 1 .. Count(p) :
       e.total_output = p.from[k + 1] /\ b + e.input_index = p.start[k + 1]

(* What a turn leaves, before the status is set.                            *)
Outcome(p, e, in, b, s) ==
  /\ e \in Engine /\ e.status = GOOD
  /\ Begins(p, s) /\ e.total_output = Len(s)
  /\ IF e.done THEN Complete(p, e, in, b) ELSE Midway(p, e, in, b)

(* When the engine is done the data and the stream are.                     *)
UsedUp(p, e, passed) ==
  /\ e.total_output = e.original_size
  /\ e.total_output = Len(p.original)
  /\ e.total_input = e.compress_size
  /\ p.exact => Len(p.stream) <= passed

(* A call of process that has written out to what had been delivered, s.     *)
Call(p, b, s, e, run, in, out, size) ==
  /\ e \in Engine
  /\ in \in Seq(Byte) /\ out \in Seq(Byte) /\ size \in Nat /\ Len(out) <= size
  /\ run => e.status = GOOD /\ Len(out) < size
  /\ e.status \in {GOOD, NEED_INPUT} => Midway(p, e, in, b)
  /\ e.status = NEED_INPUT => e.need_more_input /\ out = <<>>
  /\ e.status = DONE => UsedUp(p, e, b + Len(in))
  /\ e.status = ERROR => ~p.exact
  /\ Begins(p, s \o out)
  /\ e.status # ERROR => e.total_output = Len(s \o out)

-----------------------------------------------------------------------------
(* Reading a number.                                                        *)

(* What is read of the input.                                               *)
LEMMA ReadIsFed ==
  ASSUME NEW p, NEW b \in Nat, Feed(p, input, b),
         engine.input_index \in Nat, engine.input_index <= Len(input)
  PROVE  /\ Unread \in Nat /\ engine.input_index + Unread = Len(input)
         /\ \A n \in 0 .. Unread :
              /\ Read(n) \in Seq(Byte) /\ Len(Read(n)) = n
              /\ \A i \in 1 .. n : Read(n)[i] = BlockByte(p, (b + engine.input_index) + i)
<1>1. input \in Seq(Byte) /\ Len(input) \in Nat
  BY DEF Feed
<1>2. Unread \in Nat /\ engine.input_index + Unread = Len(input)
  BY <1>1 DEF Unread
<1>3. ASSUME NEW n \in 0 .. Unread
      PROVE  /\ Read(n) \in Seq(Byte) /\ Len(Read(n)) = n
             /\ \A i \in 1 .. n : Read(n)[i] = BlockByte(p, (b + engine.input_index) + i)
  <2>1. engine.input_index + n <= Len(input) /\ n \in Nat
    BY <1>2
  <2>2. /\ Read(n) \in Seq(Byte) /\ Len(Read(n)) = n
        /\ \A i \in 1 .. n : Read(n)[i] = input[engine.input_index + i]
    BY <1>1, <2>1 DEF Read
  <2>3. ASSUME NEW i \in 1 .. n
        PROVE  input[engine.input_index + i] = BlockByte(p, (b + engine.input_index) + i)
    <3>1. /\ engine.input_index + i \in 1 .. Len(input)
          /\ b + (engine.input_index + i) = (b + engine.input_index) + i
      BY <1>1, <2>1
    <3> QED
      BY <3>1 DEF Feed
  <2> QED
    BY <2>2, <2>3
<1> QED
  BY <1>2, <1>3

(* Putting sequences together is associative.                               *)
LEMMA InARow ==
  ASSUME NEW u \in Seq(Byte), NEW v \in Seq(Byte), NEW w \in Seq(Byte)
  PROVE  (u \o v) \o w = u \o (v \o w)
OBVIOUS

(* A piece of w behind the m bytes of it that came before.                   *)
LEMMA ReadContinues ==
  ASSUME NEW w \in Seq(Byte), NEW m \in Nat, NEW n \in Nat, m + n <= Len(w),
         NEW x \in Seq(Byte), Len(x) = n, \A i \in 1 .. n : x[i] = w[m + i]
  PROVE  SubSeq(w, 1, m) \o x = SubSeq(w, 1, m + n)
<1> DEFINE a == SubSeq(w, 1, m)
           d == SubSeq(w, 1, m + n)
<1>1. Len(w) \in Nat /\ m <= Len(w)
  OBVIOUS
<1>2. /\ a \in Seq(Byte) /\ Len(a) = m /\ \A i \in 1 .. m : a[i] = w[i]
  BY <1>1
<1>3. /\ d \in Seq(Byte) /\ Len(d) = m + n /\ \A i \in 1 .. m + n : d[i] = w[i]
  BY <1>1
<1> HIDE DEF a, d
<1>5. /\ a \o x \in Seq(Byte) /\ Len(a \o x) = Len(a) + Len(x)
      /\ \A k \in 1 .. Len(a) : (a \o x)[k] = a[k]
      /\ \A k \in 1 .. Len(x) : (a \o x)[Len(a) + k] = x[k]
  BY <1>2, Joined
<1>6. Len(a \o x) = Len(d)
  BY <1>2, <1>3, <1>5
<1>7. ASSUME NEW k \in 1 .. m + n
      PROVE  (a \o x)[k] = d[k]
  <2>1. CASE k <= m
    <3>1. k \in 1 .. m
      BY <2>1
    <3> QED
      BY <1>2, <1>3, <1>5, <3>1
  <2>2. CASE ~(k <= m)
    <3>1. k - m \in 1 .. n /\ m + (k - m) = k
      BY <2>2
    <3>2. (a \o x)[m + (k - m)] = x[k - m]
      BY <1>2, <1>5, <3>1
    <3>3. x[k - m] = w[m + (k - m)]
      BY <3>1
    <3> QED
      BY <1>3, <3>1, <3>2, <3>3
  <2> QED
    BY <2>1, <2>2
<1>8. a \o x = d
  BY <1>3, <1>5, <1>6, <1>7, SameBytes
<1> QED
  BY <1>8 DEF a, d

Continues(w, m, n, x) ==
  /\ w \in Seq(Byte) /\ m \in Nat /\ n \in Nat /\ m + n <= Len(w)
  /\ x \in Seq(Byte) /\ Len(x) = n /\ \A i \in 1 .. n : x[i] = w[m + i]

(* The same, with what it needs under one name.                             *)
LEMMA ContinuesIs ==
  ASSUME NEW w, NEW m, NEW n, NEW x, Continues(w, m, n, x)
  PROVE  SubSeq(w, 1, m) \o x = SubSeq(w, 1, m + n)
BY ReadContinues DEF Continues

(* A number that lies in the stream is read up to its end or to the end of  *)
(* the input.                                                               *)
LEMMA NumberTurn ==
  ASSUME NEW p, NEW w, NEW v, IsNumber(w, v), NEW b \in Nat, Feed(p, input, b),
         engine.input_index \in Nat, engine.input_index <= Len(input),
         NEW s \in Nat, Lies(p, w, s), Reading(engine, b + engine.input_index, w, s)
  PROVE  /\ NumberRead \in Nat /\ NumberRead <= Unread /\ Unread \in Nat
         /\ engine.input_index + Unread = Len(input)
         /\ NumberEnds = {} =>
              /\ NumberRead = Unread
              /\ \E m \in Nat : /\ m < Len(w) /\ (b + engine.input_index) + NumberRead = s + m
                               /\ engine.variable_u64 \o Read(NumberRead) = SubSeq(w, 1, m)
         /\ NumberEnds # {} => /\ (b + engine.input_index) + NumberRead = s + Len(w)
                               /\ Number = v
<1>1. w \in Seq(Byte) /\ Len(w) \in Nat /\ Len(w) > 0
  BY DEF IsNumber
<1>2. w[Len(w)] < Base /\ \A k \in 1 .. Len(w) - 1 : w[k] >= Base
  BY DEF IsNumber
<1>3. PICK m \in Nat : /\ m < Len(w) /\ b + engine.input_index = s + m
                       /\ engine.variable_u64 = SubSeq(w, 1, m)
  BY DEF Reading
<1>4. PICK r \in Nat : r > 0 /\ m + r = Len(w)
  <2>1. Len(w) - m \in Nat /\ Len(w) - m > 0 /\ m + (Len(w) - m) = Len(w)
    BY <1>1, <1>3
  <2> QED
    BY <2>1
<1> DEFINE c == b + engine.input_index
           U == Unread
<1>5. /\ U \in Nat /\ engine.input_index + U = Len(input)
      /\ \A n \in 0 .. U :
            /\ Read(n) \in Seq(Byte) /\ Len(Read(n)) = n
            /\ \A i \in 1 .. n : Read(n)[i] = BlockByte(p, c + i)
  BY ReadIsFed
<1>6. U \in Nat /\ c = s + m /\ c \in Nat
  BY <1>3, <1>5
<1> HIDE DEF c, U
<1>7. ASSUME NEW i \in 1 .. r
      PROVE  BlockByte(p, c + i) = w[m + i]
  <2>1. m + i \in 1 .. Len(w) /\ s + (m + i) = c + i
    BY <1>1, <1>4, <1>6
  <2>2. BlockByte(p, s + (m + i)) = w[m + i]
    BY <2>1 DEF Lies
  <2> QED
    BY <2>1, <2>2
<1>8. ASSUME NEW n \in 1 .. U
      PROVE  /\ n < r => n \notin NumberEnds
             /\ n = r => n \in NumberEnds
  <2>0. n \in Nat /\ n \in 0 .. U /\ n \in 1 .. n
    BY <1>6
  <2>1. Read(n)[n] = BlockByte(p, c + n)
    BY <1>5, <2>0
  <2>2. n <= r => Read(n)[n] = w[m + n]
    <3>1. n <= r => n \in 1 .. r
      BY <2>0
    <3> QED
      BY <1>7, <2>1, <3>1
  <2>3. ASSUME n < r PROVE n \notin NumberEnds
    <3>1. m + n \in 1 .. Len(w) - 1 /\ m + n \in 1 .. Len(w) /\ n <= r
      BY <1>1, <1>4, <2>0, <2>3
    <3>2. w[m + n] >= Base /\ w[m + n] \in 0 .. High
      <4>1. w[m + n] \in Byte
        BY <1>1, <3>1
      <4>2. w[m + n] >= Base
        BY <1>2, <3>1
      <4> QED
        BY <4>1, <4>2 DEF Byte
    <3>3. ~(w[m + n] < Base)
      <4>1. Base \in Nat
        BY BaseIs
      <4>2. \A x \in Nat : x >= Base => ~(x < Base)
        BY <4>1
      <4>3. w[m + n] \in Nat
        BY <3>2
      <4> QED
        BY <3>2, <4>2, <4>3
    <3> QED
      BY <2>2, <3>1, <3>3 DEF NumberEnds
  <2>4. ASSUME n = r PROVE n \in NumberEnds
    <3>1. m + n = Len(w) /\ n <= r
      BY <1>4, <2>4
    <3>2. Read(n)[n] < Base
      BY <1>2, <2>2, <3>1
    <3>3. n \in 1 .. Unread
      BY DEF U
    <3> QED
      BY <3>2, <3>3 DEF NumberEnds
  <2> QED
    BY <2>3, <2>4
<1>9. ASSUME NEW n \in 0 .. U, n <= r
      PROVE  engine.variable_u64 \o Read(n) = SubSeq(w, 1, m + n)
  <2>1. n \in Nat /\ m + n <= Len(w) /\ \A i \in 1 .. n : i \in 1 .. r
    BY <1>1, <1>4, <1>9
  <2>2. /\ Read(n) \in Seq(Byte) /\ Len(Read(n)) = n
        /\ \A i \in 1 .. n : Read(n)[i] = w[m + i]
    BY <1>5, <1>7, <2>1
  <2>3. SubSeq(w, 1, m) \o Read(n) = SubSeq(w, 1, m + n)
    <3> DEFINE x == Read(n)
    <3>1. /\ w \in Seq(Byte) /\ m \in Nat /\ n \in Nat /\ m + n <= Len(w)
          /\ x \in Seq(Byte) /\ Len(x) = n /\ \A i \in 1 .. n : x[i] = w[m + i]
      BY <1>1, <2>1, <2>2
    <3> HIDE DEF x
    <3>2. SubSeq(w, 1, m) \o x = SubSeq(w, 1, m + n)
      <4>1. Continues(w, m, n, x)
        BY <3>1 DEF Continues
      <4> QED
        BY <4>1, ContinuesIs
    <3> QED
      BY <3>2 DEF x
  <2> QED
    BY <1>3, <2>3
<1>10. CASE U < r
  <2>1. NumberEnds = {}
    <3>1. \A n \in 1 .. U : n < r
      BY <1>6, <1>10
    <3>2. \A n \in 1 .. U : n \notin NumberEnds
      BY <1>8, <3>1
    <3> QED
      BY <3>2 DEF NumberEnds, U
  <2>2. NumberRead = U
    BY <2>1 DEF NumberRead, U
  <2>3. /\ U \in 0 .. U /\ U <= r /\ U <= U
        /\ m + U \in Nat /\ m + U < Len(w) /\ c + U = s + (m + U)
    BY <1>1, <1>4, <1>6, <1>10
  <2>4. engine.variable_u64 \o Read(U) = SubSeq(w, 1, m + U)
    BY <1>9, <2>3
  <2>5. /\ NumberRead = U
        /\ \E j \in Nat : /\ j < Len(w) /\ c + NumberRead = s + j
                         /\ engine.variable_u64 \o Read(NumberRead) = SubSeq(w, 1, j)
    BY <2>2, <2>3, <2>4
  <2>6. NumberRead \in Nat /\ NumberRead <= U
    BY <1>6, <2>2, <2>3
  <2> QED
    BY <1>5, <2>1, <2>5, <2>6 DEF c, U
<1>11. CASE ~(U < r)
  <2>1. r \in 1 .. U /\ r \in 0 .. U /\ r <= r
    BY <1>4, <1>6, <1>11
  <2>2. r \in NumberEnds
    BY <1>8, <2>1
  <2>3. NumberEnds \in SUBSET (r .. U)
    <3>1. \A n \in 1 .. U : ~(n < r) => n \in r .. U
      BY <1>4, <1>6
    <3>2. \A n \in NumberEnds : n \in 1 .. U
      BY DEF NumberEnds, U
    <3> QED
      BY <1>8, <3>1, <3>2
  <2>4. NumberRead = r
    <3>1. Min(NumberEnds) = r
      BY <1>4, <1>6, <2>2, <2>3, MinIsFirst
    <3> QED
      BY <2>2, <3>1 DEF NumberRead
  <2>5. c + r = s + Len(w)
    BY <1>1, <1>4, <1>6
  <2>6. SubSeq(w, 1, Len(w)) = w
    BY <1>1
  <2>7. engine.variable_u64 \o Read(r) = w
    BY <1>4, <1>9, <2>1, <2>6
  <2>8. Number = v
    BY <2>4, <2>7, NumberReadBack DEF Number
  <2>9. NumberRead \in Nat /\ NumberRead <= U
    BY <1>4, <1>6, <1>11, <2>4
  <2> QED
    BY <1>5, <2>2, <2>4, <2>5, <2>8, <2>9 DEF c, U
<1> QED
  BY <1>10, <1>11

-----------------------------------------------------------------------------
(* A turn.                                                                  *)

(* The parts of the number in a flag.                                       *)
LEMMA FlagNumber ==
  ASSUME NEW t \in Token
  PROVE  /\ FlagValue(t) \in Nat
         /\ FlagValue(t) % 8 = t.pattern
         /\ (FlagValue(t) % 16 >= 8) <=> t.flagged
         /\ FlagValue(t) \div 16 = t.length
<1>1. t.length \in Nat /\ t.pattern \in 0 .. 7 /\ t.flagged \in BOOLEAN
  BY DEF Token, Pattern
<1> DEFINE l == t.length
           q == t.pattern
<1>2. CASE t.flagged
  <2>1. FlagValue(t) = (l * 16) + 8 + q
    BY <1>2 DEF FlagValue
  <2> HIDE DEF l, q
  <2>2. l \in Nat /\ q \in 0 .. 7
    BY <1>1 DEF l, q
  <2>3. LET v == (l * 16) + 8 + q IN v \in Nat /\ v % 8 = q /\ v % 16 >= 8 /\ v \div 16 = l
    BY <2>2
  <2> QED
    BY <1>2, <2>1, <2>3 DEF l, q
<1>3. CASE ~t.flagged
  <2>1. FlagValue(t) = (l * 16) + 0 + q
    BY <1>3 DEF FlagValue
  <2> HIDE DEF l, q
  <2>2. l \in Nat /\ q \in 0 .. 7
    BY <1>1 DEF l, q
  <2>3. LET v == (l * 16) + 0 + q IN v \in Nat /\ v % 8 = q /\ ~(v % 16 >= 8) /\ v \div 16 = l
    BY <2>2
  <2> QED
    BY <1>3, <2>1, <2>3 DEF l, q
<1> QED
  BY <1>2, <1>3

(* More of the data behind what has been delivered.                         *)
LEMMA Extends ==
  ASSUME NEW p, p.original \in Seq(Byte), NEW s \in Seq(Byte), NEW out \in Seq(Byte), NEW x \in Seq(Byte),
         Begins(p, s \o out), Len(s \o out) + Len(x) <= Len(p.original),
         \A i \in 1 .. Len(x) : p.original[Len(s \o out) + i] = x[i]
  PROVE  /\ Begins(p, s \o (out \o x))
         /\ Len(s \o (out \o x)) = Len(s \o out) + Len(x)
<1> DEFINE a == s \o out
<1>1. s \o (out \o x) = a \o x
  OBVIOUS
<1>2. a \in Seq(Byte)
  OBVIOUS
<1> HIDE DEF a
<1>3. /\ a \o x \in Seq(Byte) /\ Len(a \o x) = Len(a) + Len(x) /\ Len(a) \in Nat /\ Len(x) \in Nat
      /\ \A k \in 1 .. Len(a) : (a \o x)[k] = a[k]
      /\ \A k \in 1 .. Len(x) : (a \o x)[Len(a) + k] = x[k]
  BY <1>2, Joined
<1>4. ASSUME NEW k \in 1 .. Len(a \o x)
      PROVE  (a \o x)[k] = p.original[k]
  <2>1. CASE k <= Len(a)
    <3>1. k \in 1 .. Len(a)
      BY <2>1
    <3>2. a[k] = p.original[k]
      BY <3>1 DEF Begins, a
    <3> QED
      BY <1>3, <3>1, <3>2
  <2>2. CASE ~(k <= Len(a))
    <3>1. k - Len(a) \in 1 .. Len(x) /\ Len(a) + (k - Len(a)) = k
      BY <1>3, <2>2
    <3>2. p.original[Len(a) + (k - Len(a))] = x[k - Len(a)]
      BY <3>1 DEF a
    <3>3. (a \o x)[Len(a) + (k - Len(a))] = x[k - Len(a)]
      BY <1>3, <3>1
    <3> QED
      BY <3>1, <3>2, <3>3
  <2> QED
    BY <2>1, <2>2
<1>5. Len(a) + Len(x) <= Len(p.original)
  BY DEF a
<1>6. Begins(p, a \o x)
  BY <1>3, <1>4, <1>5 DEF Begins
<1> QED
  BY <1>1, <1>3, <1>6 DEF a

(* Where the tokens begin.                                                  *)
LEMMA Starts ==
  ASSUME NEW p, Script(p), NEW k \in 1 .. Count(p) + 1
  PROVE  /\ p.start[k] \in Nat /\ p.start[1] \in Nat /\ p.start[1] <= p.start[k]
         /\ p.start[k] <= Len(p.stream) /\ Len(p.stream) \in Nat
         /\ p.start[k] = Len(p.stream) => k = Count(p) + 1
         /\ p.from[k] \in Nat /\ p.from[k] <= Len(p.original) /\ Len(p.original) \in Nat
         /\ p.from[k] = Len(p.original) => k = Count(p) + 1
<1> DEFINE n == Count(p)
<1>1. /\ n \in Nat \ {0} /\ p.start \in [1 .. n + 1 -> Nat] /\ p.from \in [1 .. n + 1 -> Nat]
      /\ p.start[n + 1] = Len(p.stream) /\ p.from[n + 1] = Len(p.original)
      /\ p.stream \in Seq(Byte) /\ p.original \in Seq(Byte)
  BY DEF Script
<1>2. \A j \in 1 .. n : p.start[j] < p.start[j + 1] /\ p.from[j] < p.from[j + 1]
  BY DEF Script, TokenLies
<1>3. k \in 1 .. n + 1
  OBVIOUS
<1> HIDE DEF n
<1> DEFINE f == p.start
           g == p.from
<1>4. f \in [1 .. n + 1 -> Nat] /\ \A j \in 1 .. n : f[j] < f[j + 1]
  BY <1>1, <1>2
<1>5. g \in [1 .. n + 1 -> Nat] /\ \A j \in 1 .. n : g[j] < g[j + 1]
  BY <1>1, <1>2
<1> HIDE DEF f, g
<1>6. f[1] <= f[k] /\ f[k] <= f[n + 1] /\ (k # n + 1 => f[k] < f[n + 1])
  BY <1>1, <1>3, <1>4, CutsGrow
<1>7. g[1] <= g[k] /\ g[k] <= g[n + 1] /\ (k # n + 1 => g[k] < g[n + 1])
  BY <1>1, <1>3, <1>5, CutsGrow
<1>8. 1 \in 1 .. n + 1 /\ n + 1 \in 1 .. n + 1
  BY <1>1
<1>9. f[k] \in Nat /\ f[1] \in Nat /\ f[n + 1] \in Nat /\ g[k] \in Nat /\ g[n + 1] \in Nat
  BY <1>3, <1>4, <1>5, <1>8
<1>10. f[n + 1] = Len(p.stream) /\ g[n + 1] = Len(p.original)
  BY <1>1 DEF f, g
<1>11. /\ f[k] = f[n + 1] => k = n + 1
       /\ g[k] = g[n + 1] => k = n + 1
  BY <1>6, <1>7, <1>9
<1>12. /\ f[k] \in Nat /\ f[1] \in Nat /\ f[1] <= f[k]
       /\ f[k] <= Len(p.stream) /\ Len(p.stream) \in Nat
       /\ f[k] = Len(p.stream) => k = n + 1
       /\ g[k] \in Nat /\ g[k] <= Len(p.original) /\ Len(p.original) \in Nat
       /\ g[k] = Len(p.original) => k = n + 1
  BY <1>6, <1>7, <1>9, <1>10, <1>11
<1> QED
  BY <1>12 DEF f, g, n

(* When the sizes in the header agree with what was read and written, at    *)
(* least one of them being right, it was the last token.                    *)
LEMMA CompleteIsFinished ==
  ASSUME NEW p, Script(p), NEW e \in Engine, NEW in \in Seq(Byte), NEW b \in Nat, Complete(p, e, in, b)
  PROVE  /\ e.total_input = e.compress_size => UsedUp(p, e, b + Len(in))
         /\ p.exact => e.total_input = e.compress_size
<1>1. PICK k \in 1 .. Count(p) :
        e.total_output = p.from[k + 1] /\ b + e.input_index = p.start[k + 1]
  BY DEF Complete
<1>2. k + 1 \in 1 .. Count(p) + 1 /\ k + 1 # 1
  BY DEF Script
<1> DEFINE S == p.start[k + 1]
           F == p.from[k + 1]
           L == Len(p.stream)
           D == Len(p.original)
           H == p.start[1]
<1>3. /\ S \in Nat /\ H \in Nat /\ H <= S /\ S <= L /\ L \in Nat /\ (S = L => k + 1 = Count(p) + 1)
      /\ F \in Nat /\ F <= D /\ D \in Nat /\ (F = D => k + 1 = Count(p) + 1)
  BY <1>2, Starts
<1>4. /\ e.total_output = F /\ b + e.input_index = S /\ e.input_index <= Len(in)
      /\ e.original_size = p.original_size /\ e.compress_size = p.compress_size
      /\ e.total_input + H = S /\ e.total_output = e.original_size
      /\ e.input_index \in Nat /\ e.total_input \in Nat /\ Len(in) \in Nat
  <2>1. e.input_index \in Nat /\ e.total_input \in Nat /\ Len(in) \in Nat
    BY DEF Engine
  <2>2. /\ e.total_output = e.original_size /\ e.input_index <= Len(in)
        /\ Sized(p, e, b + e.input_index)
    BY DEF Complete
  <2>3. /\ e.original_size = p.original_size /\ e.compress_size = p.compress_size
        /\ e.total_input + H = b + e.input_index
    BY <2>2 DEF Sized
  <2> QED
    BY <1>1, <2>1, <2>2, <2>3
<1>5. k + 1 = Count(p) + 1 => S = L /\ F = D
  BY DEF Script
<1>6. /\ p.original_size = D \/ p.compress_size = L - H
      /\ p.exact => p.original_size = D /\ p.compress_size = L - H
  BY DEF Script
<1> HIDE DEF S, F, L, D, H
<1>7. ASSUME e.total_input = e.compress_size
      PROVE  UsedUp(p, e, b + Len(in))
  <2>1. F = D
    <3>1. CASE p.original_size = D
      BY <1>4, <3>1
    <3>2. CASE p.compress_size = L - H
      <4>1. S = L
        BY <1>3, <1>4, <1>7, <3>2
      <4> QED
        BY <1>3, <1>5, <4>1
    <3> QED
      BY <1>6, <3>1, <3>2
  <2>2. S = L
    BY <1>3, <1>5, <2>1
  <2>3. L <= b + Len(in)
    BY <1>3, <1>4, <2>2
  <2> QED
    BY <1>4, <1>7, <2>1, <2>3 DEF UsedUp, L, D
<1>8. ASSUME p.exact
      PROVE  e.total_input = e.compress_size
  <2>1. F = D
    BY <1>4, <1>6, <1>8
  <2>2. S = L
    BY <1>3, <1>5, <2>1
  <2>3. p.compress_size = L - H
    BY <1>6, <1>8
  <2> QED
    <3> DEFINE i == e.total_input
    <3>1. i + H = L /\ i \in Nat /\ H \in Nat /\ L \in Nat /\ e.compress_size = L - H
      BY <1>3, <1>4, <2>2, <2>3
    <3> HIDE DEF i
    <3>2. i = L - H
      BY <3>1
    <3> QED
      BY <3>1, <3>2 DEF i
<1> QED
  BY <1>7, <1>8

(* At the end of a turn the status is set.                                  *)
LEMMA TurnKeeps ==
  ASSUME NEW p, Script(p), NEW b \in Nat, NEW s \in Seq(Byte),
         Call(p, b, s, engine, running, input, output, room),
         NEW st, NEW asserts, NEW e, NEW out, Turn(st, asserts, e, out),
         TurnAsserts /\ asserts =>
           /\ Outcome(p, e, input, b, s \o out) 
           /\ out \in Seq(Byte) /\ Len(out) <= room
  PROVE  Call(p, b, s, engine', running', input', output', room')
<1>1. input' = input /\ room' = room /\ running
  BY DEF Turn
<1>2. /\ engine \in Engine /\ input \in Seq(Byte) /\ output \in Seq(Byte) /\ room \in Nat
      /\ Len(output) <= room /\ engine.status = GOOD /\ Begins(p, s \o output)
      /\ engine.total_output = Len(s \o output)
  <2>1. engine.status = GOOD
    BY <1>1 DEF Call
  <2> QED
    BY <2>1 DEF Call, GOOD, ERROR
<1>3. CASE ~(TurnAsserts /\ asserts)
  <2>1. engine' = [engine EXCEPT !.status = THROWN] /\ running' = FALSE /\ output' = output
    BY <1>3 DEF Turn
  <2>2. engine' \in Engine /\ engine'.status = THROWN /\ engine'.total_output = engine.total_output
    BY <1>2, <2>1 DEF Engine, THROWN
  <2> QED
    BY <1>1, <1>2, <2>1, <2>2 DEF Call, THROWN, GOOD, NEED_INPUT, DONE, ERROR
<1>4. CASE TurnAsserts /\ asserts
  <2>1. /\ engine' = [e EXCEPT !.status = StatusAfter(e, out)] /\ output' = out
        /\ running' = ~Returns(e, out)
    BY <1>4 DEF Turn
  <2>2. /\ e \in Engine /\ e.status = GOOD /\ Begins(p, s \o out) /\ e.total_output = Len(s \o out)
        /\ IF e.done THEN Complete(p, e, input, b) ELSE Midway(p, e, input, b)
        /\ out \in Seq(Byte) /\ Len(out) <= room
    BY <1>4 DEF Outcome
  <2> DEFINE z == StatusAfter(e, out)
  <2>3. z \in {GOOD, NEED_INPUT, DONE, ERROR}
    BY DEF StatusAfter
  <2>4. /\ engine' \in Engine /\ engine'.status = z
        /\ engine'.total_output = e.total_output /\ engine'.total_input = e.total_input
        /\ engine'.original_size = e.original_size /\ engine'.compress_size = e.compress_size
        /\ engine'.input_index = e.input_index /\ engine'.need_more_input = e.need_more_input
        /\ engine'.done = e.done /\ engine'.state = e.state
        /\ engine'.identifier = e.identifier /\ engine'.flag = e.flag
        /\ engine'.flag_repeat = e.flag_repeat /\ engine'.flag_index = e.flag_index
        /\ engine'.flag_size = e.flag_size /\ engine'.repeat_index = e.repeat_index
        /\ engine'.repeat_size = e.repeat_size /\ engine'.variable_u64 = e.variable_u64
        /\ engine'.variable = e.variable /\ engine'.none_data = e.none_data
    <3> HIDE DEF z
    <3>1. engine' = [e EXCEPT !.status = z]
      BY <2>1 DEF z
    <3> QED
      BY <2>2, <2>3, <3>1 DEF Engine, GOOD, NEED_INPUT, DONE, ERROR
  <2>5. CASE e.done
    <3>1. z = IF e.total_input = e.compress_size THEN DONE ELSE ERROR
      BY <2>2, <2>5 DEF StatusAfter, GOOD, ERROR
    <3>2. ~running'
      BY <2>1, <2>5 DEF Returns
    <3>3. /\ e.total_input = e.compress_size => UsedUp(p, e, b + Len(input))
          /\ p.exact => e.total_input = e.compress_size
      BY <1>2, <2>2, <2>5, CompleteIsFinished
    <3>4. UsedUp(p, e, b + Len(input)) => UsedUp(p, engine', b + Len(input'))
      BY <1>1, <2>4 DEF UsedUp
    <3>5. z = DONE => UsedUp(p, engine', b + Len(input'))
      BY <3>1, <3>3, <3>4 DEF DONE, ERROR
    <3>6. z = ERROR => ~p.exact
      BY <3>1, <3>3 DEF DONE, ERROR
    <3>7. z # GOOD /\ z # NEED_INPUT
      BY <3>1 DEF DONE, ERROR, GOOD, NEED_INPUT
    <3> HIDE DEF z
    <3> QED
      BY <1>1, <1>2, <2>1, <2>2, <2>4, <3>2, <3>5, <3>6, <3>7 DEF Call
  <2>6. CASE ~e.done
    <3>1. z = IF e.need_more_input /\ out = <<>> THEN NEED_INPUT ELSE GOOD
      BY <2>2, <2>6 DEF StatusAfter, GOOD, ERROR
    <3>2. running' => ~e.need_more_input /\ Len(out) < room
      <4>1. running' => ~e.need_more_input /\ Len(out) # room
        BY <2>1 DEF Returns
      <4> QED
        BY <1>2, <2>2, <4>1
    <3>3. Midway(p, e, input, b)
      BY <2>2, <2>6
    <3>4. Midway(p, engine', input', b)
      BY <1>1, <2>1, <2>4, <3>3
         DEF Midway, Place, AtIdentifier, AtOriginalSize, AtCompressSize, AtFlag, AtVariable,
             AtRepeat, AtCmp, AtNone, AtNoneRepeat, Reading, Untouched, Sized, InToken,
             VariableIn, RepeatIn, CmpIn, NoneIn, NoneRepeatIn, Writing
    <3>5. z # DONE /\ z # ERROR /\ (z = NEED_INPUT => e.need_more_input /\ out = <<>>)
          /\ (e.need_more_input \/ z = GOOD)
      BY <3>1 DEF DONE, ERROR, GOOD, NEED_INPUT
    <3> HIDE DEF z
    <3> QED
      BY <1>1, <1>2, <2>1, <2>2, <2>4, <3>2, <3>4, <3>5 DEF Call
  <2> QED
    BY <2>5, <2>6
<1> QED
  BY <1>3, <1>4

-----------------------------------------------------------------------------
(* Reading.                                                                 *)

(* A call under way.                                                        *)
Turning(p, b, s) ==
  /\ Script(p) /\ b \in Nat /\ s \in Seq(Byte)
  /\ Call(p, b, s, engine, running, input, output, room)
  /\ running

(* What holds at the start of a turn.                                       *)
LEMMA TurningIs ==
  ASSUME NEW p, NEW b, NEW s, Turning(p, b, s)
  PROVE  /\ Script(p) /\ b \in Nat /\ s \in Seq(Byte)
         /\ engine \in Engine /\ engine.status = GOOD
         /\ engine.input_index \in Nat /\ engine.total_input \in Nat /\ engine.total_output \in Nat
         /\ engine.input_index <= Len(input) /\ Len(input) \in Nat
         /\ input \in Seq(Byte) /\ output \in Seq(Byte) /\ room \in Nat /\ Len(output) < room
         /\ Feed(p, input, b)
         /\ Place(p, engine, b + engine.input_index)
         /\ ~engine.done
         /\ Begins(p, s \o output) /\ engine.total_output = Len(s \o output)
<1>1. engine.status = GOOD
  BY DEF Turning, Call
<1>2. Midway(p, engine, input, b)
  BY <1>1 DEF Turning, Call
<1>3. engine \in Engine /\ input \in Seq(Byte)
  BY DEF Turning, Call
<1>4. engine.input_index \in Nat /\ engine.total_input \in Nat /\ engine.total_output \in Nat
      /\ Len(input) \in Nat
  BY <1>3 DEF Engine
<1>5. engine.total_output = Len(s \o output)
  BY <1>1 DEF Turning, Call, GOOD, ERROR
<1> QED
  BY <1>1, <1>2, <1>3, <1>4, <1>5 DEF Turning, Call, Midway

(* A turn that writes nothing.                                              *)
LEMMA ReadingKeeps ==
  ASSUME NEW p, NEW b, NEW s, Turning(p, b, s), NEW st, NEW asserts, NEW e,
         Turn(st, asserts, e, output),
         TurnAsserts /\ asserts =>
           /\ e \in Engine /\ e.status = GOOD /\ e.total_output = engine.total_output
           /\ Midway(p, e, input, b)
  PROVE  Call(p, b, s, engine', running', input', output', room')
<1>1. TurnAsserts /\ asserts => Outcome(p, e, input, b, s \o output)
  BY TurningIs DEF Outcome, Midway
<1>2. Script(p) /\ b \in Nat /\ s \in Seq(Byte) /\ output \in Seq(Byte) /\ Len(output) <= room
      /\ Call(p, b, s, engine, running, input, output, room)
  <2>1. output \in Seq(Byte) /\ Len(output) < room /\ room \in Nat
    BY TurningIs
  <2>2. Len(output) <= room
    BY <2>1
  <2> QED
    BY <2>1, <2>2 DEF Turning
<1> QED
  BY <1>1, <1>2, TurnKeeps

(* The lesser of two numbers.                                               *)
LEMMA MinOfTwo ==
  ASSUME NEW a \in Int, NEW b \in Int
  PROVE  Min({a, b}) = IF a <= b THEN a ELSE b
<1> DEFINE m == IF a <= b THEN a ELSE b
<1>1. m \in {a, b} /\ \A y \in {a, b} : m <= y
  OBVIOUS
<1>2. \A x \in {a, b} : (\A y \in {a, b} : x <= y) => x = m
  OBVIOUS
<1> HIDE DEF m
<1>3. Min({a, b}) = m
  BY <1>1, <1>2 DEF Min
<1> QED
  BY <1>3 DEF m

(* The fields a number leaves alone.                                        *)
SameBut(e, f) ==
  /\ e.status = f.status /\ e.state = f.state /\ e.total_output = f.total_output
  /\ e.identifier = f.identifier /\ e.original_size = f.original_size
  /\ e.compress_size = f.compress_size /\ e.flag = f.flag
  /\ e.flag_repeat = f.flag_repeat /\ e.flag_index = f.flag_index
  /\ e.flag_size = f.flag_size /\ e.repeat_index = f.repeat_index
  /\ e.repeat_size = f.repeat_size /\ e.variable = f.variable
  /\ e.none_data = f.none_data /\ e.done = f.done

(* get_variable_u64 inside a number that lies in the stream.                *)
LEMMA NumberEngine ==
  ASSUME NEW p, NEW b, NEW sq, Turning(p, b, sq), NEW w, NEW v, IsNumber(w, v),
         NEW s \in Nat, Lies(p, w, s), Reading(engine, b + engine.input_index, w, s),
         NEW update \in BOOLEAN, ~engine.need_more_input
  PROVE  LET e == get_variable_u64(update)
         IN  /\ e \in Engine /\ SameBut(e, engine)
             /\ NumberRead \in Nat
             /\ e.input_index = engine.input_index + NumberRead
             /\ e.total_input = engine.total_input + (IF update THEN NumberRead ELSE 0)
             /\ e.input_index <= Len(input)
             /\ e.need_more_input <=> NumberEnds = {}
             /\ e.need_more_input => /\ e.input_index = Len(input)
                                     /\ Reading(e, b + e.input_index, w, s)
             /\ ~e.need_more_input => /\ e.variable_u64 = <<>>
                                      /\ b + e.input_index = s + Len(w)
                                      /\ Number = v
<1> DEFINE e == get_variable_u64(update)
           N == NumberRead
           read == engine.variable_u64 \o Read(N)
<1>1. /\ engine \in Engine /\ b \in Nat /\ Feed(p, input, b) /\ engine.input_index \in Nat
      /\ engine.input_index <= Len(input) /\ engine.total_input \in Nat /\ Len(input) \in Nat
  BY TurningIs
<1>2. /\ N \in Nat /\ N <= Unread /\ Unread \in Nat /\ engine.input_index + Unread = Len(input)
      /\ NumberEnds = {} =>
              /\ N = Unread
              /\ \E m \in Nat : /\ m < Len(w) /\ (b + engine.input_index) + N = s + m
                                /\ read = SubSeq(w, 1, m)
      /\ NumberEnds # {} => (b + engine.input_index) + N = s + Len(w) /\ Number = v
  <2> HIDE DEF N, read
  <2>1. Feed(p, input, b) /\ b \in Nat /\ engine.input_index \in Nat /\ engine.input_index <= Len(input)
    BY <1>1
  <2>2. /\ NumberRead \in Nat /\ NumberRead <= Unread /\ Unread \in Nat
        /\ engine.input_index + Unread = Len(input)
        /\ NumberEnds = {} =>
             /\ NumberRead = Unread
             /\ \E m \in Nat : /\ m < Len(w) /\ (b + engine.input_index) + NumberRead = s + m
                              /\ engine.variable_u64 \o Read(NumberRead) = SubSeq(w, 1, m)
        /\ NumberEnds # {} => /\ (b + engine.input_index) + NumberRead = s + Len(w)
                              /\ Number = v
    BY <2>1, NumberTurn, Zenon
  <2> QED
    BY <2>2 DEF N, read
<1>3. read \in Seq(Byte)
  <2>1. Read(N) \in Seq(Byte)
    <3>1. N \in 0 .. Unread
      BY <1>2
    <3> HIDE DEF N
    <3> QED
      BY <1>1, <3>1, ReadIsFed
  <2>2. engine.variable_u64 \in Seq(Byte)
    BY <1>1 DEF Engine
  <2> HIDE DEF N
  <2> QED
    BY <2>1, <2>2
<1> HIDE DEF N, read
<1> DEFINE empty == NumberEnds = {}
           more == IF update THEN engine.total_input + N ELSE engine.total_input
           kept == IF empty THEN read ELSE <<>>
<1>4. e = [engine EXCEPT !.input_index = engine.input_index + N, !.total_input = more,
                         !.variable_u64 = kept, !.need_more_input = empty]
  BY DEF get_variable_u64, N, read
<1>5. /\ empty \in BOOLEAN /\ kept \in Seq(Byte) /\ more \in Nat /\ engine.input_index + N \in Nat
      /\ more = engine.total_input + (IF update THEN N ELSE 0)
  <2>1. empty \in BOOLEAN
    OBVIOUS
  <2>2. kept \in Seq(Byte)
    BY <1>3
  <2>3. more = engine.total_input + (IF update THEN N ELSE 0)
    BY <1>1, <1>2
  <2> HIDE DEF empty, kept, more
  <2>4. (IF update THEN N ELSE 0) \in Nat
    BY <1>2
  <2>5. more \in Nat /\ engine.input_index + N \in Nat
    <3>1. engine.input_index \in Nat /\ engine.total_input \in Nat /\ N \in Nat
      BY <1>1, <1>2
    <3> QED
      BY <2>3, <2>4, <3>1
  <2> QED
    BY <2>1, <2>2, <2>3, <2>5
<1> HIDE DEF e, empty, more, kept
<1>6. /\ e \in Engine /\ SameBut(e, engine)
      /\ e.input_index = engine.input_index + N
      /\ e.total_input = more
      /\ e.need_more_input = empty
      /\ e.variable_u64 = kept
  BY <1>1, <1>4, <1>5 DEF Engine, SameBut
<1>9. /\ e.total_input = engine.total_input + (IF update THEN N ELSE 0)
      /\ e.need_more_input <=> NumberEnds = {}
      /\ NumberEnds = {} => e.variable_u64 = read
      /\ NumberEnds # {} => e.variable_u64 = <<>>
  BY <1>5, <1>6 DEF empty, kept
<1>7. e.input_index <= Len(input) /\ b + e.input_index = (b + engine.input_index) + N
      /\ (N = Unread => e.input_index = Len(input))
  BY <1>1, <1>2, <1>6
<1>8. NumberEnds = {} => e.input_index = Len(input) /\ Reading(e, b + e.input_index, w, s)
  BY <1>2, <1>7, <1>9 DEF Reading
<1> QED
  BY <1>2, <1>6, <1>7, <1>8, <1>9 DEF e, N

-----------------------------------------------------------------------------
(* The handlers that read.                                                  *)

(* The identifier.                                                          *)
LEMMA IdentifierTurn ==
  ASSUME NEW p, NEW b, NEW s, Turning(p, b, s), get_identifier
  PROVE  Call(p, b, s, engine', running', input', output', room')
<1> DEFINE L == Len(Identifier)
           c == b + engine.input_index
           n == Min({L - Len(engine.identifier), Unread})
           read == engine.identifier \o Read(n)
           e0 == [engine EXCEPT !.identifier = read, !.input_index = @ + n]
           asserts == ~engine.need_more_input /\ Unread > 0
           e == IF Len(read) < L THEN [e0 EXCEPT !.need_more_input = TRUE]
                ELSE [e0 EXCEPT !.state = IF read = Identifier THEN GET_ORIGINAL_SIZE
                                          ELSE ERROR_STATE]
<1>1. Turn(GET_IDENTIFIER, asserts, e, output)
  BY DEF get_identifier
<1>2. engine.state = GET_IDENTIFIER
  BY <1>1 DEF Turn
<1>3. /\ Script(p) /\ b \in Nat /\ engine \in Engine /\ engine.status = GOOD
      /\ engine.input_index \in Nat /\ engine.input_index <= Len(input) /\ Len(input) \in Nat
      /\ Feed(p, input, b) /\ AtIdentifier(p, engine, c) /\ ~engine.done
  BY <1>2, TurningIs DEF Place
<1>4. /\ p.identifier \in Seq(Byte) /\ Len(p.identifier) = L /\ L \in Nat
      /\ Lies(p, p.identifier, 0) /\ (p.exact => p.identifier = Identifier)
  BY <1>3, StreamConstants DEF Script, HeaderLies
<1>5. c \in Nat /\ c <= L /\ engine.identifier = SubSeq(p.identifier, 1, c)
  BY <1>3 DEF AtIdentifier
<1>6. /\ Unread \in Nat /\ engine.input_index + Unread = Len(input)
      /\ \A j \in 0 .. Unread : /\ Read(j) \in Seq(Byte) /\ Len(Read(j)) = j
                                /\ \A i \in 1 .. j : Read(j)[i] = BlockByte(p, c + i)
  BY <1>3, ReadIsFed
<1> SUFFICES ASSUME asserts
             PROVE  /\ e \in Engine /\ e.status = GOOD /\ e.total_output = engine.total_output
                    /\ Midway(p, e, input, b)
  BY <1>1, ReadingKeeps
<1>7. ~engine.need_more_input
  OBVIOUS
<1> HIDE DEF asserts, c
<1>8. Len(engine.identifier) = c
  BY <1>4, <1>5
<1>9. n \in Nat /\ n <= Unread /\ c + n <= L /\ (c + n # L => n = Unread)
  <2>1. n = IF L - c <= Unread THEN L - c ELSE Unread
    <3>1. n = Min({L - c, Unread})
      BY <1>8
    <3>2. L - c \in Int /\ Unread \in Int
      BY <1>4, <1>5, <1>6
    <3> QED
      BY <3>1, <3>2, MinOfTwo
  <2> HIDE DEF n
  <2> QED
    BY <1>4, <1>5, <1>6, <2>1
<1> HIDE DEF n, L
<1>10. read = SubSeq(p.identifier, 1, c + n)
  <2>1. n \in 0 .. Unread
    BY <1>6, <1>9
  <2>2. /\ Read(n) \in Seq(Byte) /\ Len(Read(n)) = n
        /\ \A i \in 1 .. n : Read(n)[i] = BlockByte(p, c + i)
    BY <1>6, <2>1
  <2>3. ASSUME NEW i \in 1 .. n
        PROVE  Read(n)[i] = p.identifier[c + i]
    <3>1. c + i \in 1 .. Len(p.identifier) /\ 0 + (c + i) = c + i
      BY <1>4, <1>5, <1>9
    <3> QED
      BY <1>4, <2>2, <3>1 DEF Lies
  <2>4. SubSeq(p.identifier, 1, c) \o Read(n) = SubSeq(p.identifier, 1, c + n)
    BY <1>4, <1>5, <1>9, <2>2, <2>3, ReadContinues
  <2> QED
    BY <1>5, <2>4
<1>11. read \in Seq(Byte) /\ Len(read) = c + n /\ (c + n = L => read = p.identifier)
  <2>1. c + n \in Nat /\ c + n <= Len(p.identifier)
    BY <1>4, <1>5, <1>9
  <2> DEFINE m == c + n
  <2>2. read = SubSeq(p.identifier, 1, m) /\ m \in Nat /\ m <= Len(p.identifier)
    BY <1>10, <2>1
  <2> HIDE DEF m, read
  <2>3. read \in Seq(Byte) /\ Len(read) = m /\ (m = Len(p.identifier) => read = p.identifier)
    BY <1>4, <2>2
  <2> QED
    BY <1>4, <2>3 DEF m
<1> HIDE DEF read
<1> DEFINE i0 == engine.input_index + n
<1>a. i0 \in Nat /\ e0 = [engine EXCEPT !.identifier = read, !.input_index = i0]
  BY <1>3, <1>9
<1> HIDE DEF e0, i0, e
<1>12. /\ e0 \in Engine /\ e0.status = GOOD /\ e0.total_output = engine.total_output
       /\ e0.total_input = engine.total_input /\ e0.variable_u64 = engine.variable_u64
       /\ e0.identifier = read /\ e0.input_index = engine.input_index + n
       /\ e0.need_more_input = engine.need_more_input /\ ~e0.done
       /\ e0.state = GET_IDENTIFIER
  <2>1. /\ e0 \in Engine /\ e0.status = engine.status /\ e0.total_output = engine.total_output
        /\ e0.total_input = engine.total_input /\ e0.variable_u64 = engine.variable_u64
        /\ e0.identifier = read /\ e0.input_index = i0
        /\ e0.need_more_input = engine.need_more_input /\ e0.done = engine.done
        /\ e0.state = engine.state
    BY <1>3, <1>11, <1>a DEF Engine
  <2> QED
    BY <1>2, <1>3, <2>1 DEF i0
<1>13. /\ e0.input_index <= Len(input) /\ b + e0.input_index = c + n
       /\ (n = Unread => e0.input_index = Len(input))
  <2> DEFINE x == engine.input_index
             u == Unread
             y == e0.input_index
             z == Len(input)
  <2>1. /\ x \in Nat /\ b \in Nat /\ n \in Nat /\ u \in Nat /\ x + u = z /\ y = x + n /\ n <= u
        /\ c = b + x
    BY <1>3, <1>6, <1>9, <1>12 DEF c
  <2> HIDE DEF x, u, y, z, e0
  <2>2. y <= z /\ b + y = c + n /\ (n = u => y = z)
    BY <2>1
  <2> QED
    BY <2>2 DEF u, y, z
<1> HIDE DEF e0
<1>14. e0.variable_u64 = <<>> /\ Untouched(e0)
  BY <1>3, <1>12 DEF AtIdentifier, Untouched
<1>15. CASE c + n < L
  <2>1. e = [e0 EXCEPT !.need_more_input = TRUE]
    BY <1>11, <1>15 DEF e
  <2> HIDE DEF e
  <2>2. /\ e \in Engine /\ e.status = GOOD /\ e.total_output = engine.total_output
        /\ e.total_input = e0.total_input /\ e.variable_u64 = e0.variable_u64
        /\ e.identifier = read /\ e.input_index = e0.input_index
        /\ e.need_more_input /\ ~e.done /\ e.state = GET_IDENTIFIER
    BY <1>12, <2>1 DEF Engine
  <2>3. AtIdentifier(p, e, b + e.input_index)
    BY <1>9, <1>10, <1>12, <1>13, <1>14, <2>2 DEF AtIdentifier, Untouched, L
  <2>4. n = Unread
    BY <1>4, <1>5, <1>9, <1>15
  <2> QED
    BY <1>3, <1>13, <2>2, <2>3, <2>4
       DEF Midway, Place, GET_IDENTIFIER, GET_ORIGINAL_SIZE, GET_COMPRESS_SIZE, GET_FLAG,
           GET_VARIABLE, GET_REPEAT, OUTPUT_CMP, OUTPUT_NONE, OUTPUT_NONE_REPEAT, ERROR_STATE
<1>16. CASE ~(c + n < L)
  <2>1. c + n = L /\ read = p.identifier
    BY <1>4, <1>5, <1>9, <1>11, <1>16
  <2> DEFINE st == IF read = Identifier THEN GET_ORIGINAL_SIZE ELSE ERROR_STATE
  <2>2. e = [e0 EXCEPT !.state = st]
    BY <1>11, <1>16 DEF e
  <2>3. st \in {GET_ORIGINAL_SIZE, ERROR_STATE} /\ (st = ERROR_STATE => ~p.exact)
    BY <1>4, <2>1 DEF GET_ORIGINAL_SIZE, ERROR_STATE
  <2> HIDE DEF e, st
  <2>4. /\ e \in Engine /\ e.status = GOOD /\ e.total_output = engine.total_output
        /\ e.total_input = e0.total_input /\ e.variable_u64 = e0.variable_u64
        /\ e.input_index = e0.input_index
        /\ ~e.need_more_input /\ ~e.done /\ e.state = st
    BY <1>7, <1>12, <2>2, <2>3 DEF Engine
  <2>5. AtOriginalSize(p, e, b + e.input_index)
    <3>1. IsNumber(SizeBytes(p), p.original_size)
      BY <1>3, Written DEF SizeBytes, Script, HeaderLies
    <3>2. Len(SizeBytes(p)) > 0 /\ SubSeq(SizeBytes(p), 1, 0) = <<>>
      BY <3>1 DEF IsNumber
    <3>3. b + e.input_index = L + 0
      BY <1>4, <1>13, <2>1, <2>4
    <3>4. Reading(e, b + e.input_index, SizeBytes(p), L)
      BY <1>14, <2>4, <3>2, <3>3 DEF Reading
    <3> QED
      BY <1>14, <2>4, <1>12, <3>4 DEF AtOriginalSize, Untouched, L
  <2> QED
    BY <1>3, <1>13, <2>3, <2>4, <2>5
       DEF Midway, Place, GET_IDENTIFIER, GET_ORIGINAL_SIZE, GET_COMPRESS_SIZE, GET_FLAG,
           GET_VARIABLE, GET_REPEAT, OUTPUT_CMP, OUTPUT_NONE, OUTPUT_NONE_REPEAT, ERROR_STATE
<1> QED
  BY <1>15, <1>16

(* What comes before token k, or behind the last.                           *)
LEMMA NextFlagIs ==
  ASSUME NEW p, Script(p), NEW k \in 1 .. Count(p) + 1
  PROVE  /\ IsNumber(NextFlag(p, k), IF k = Count(p) + 1 THEN 0 ELSE FlagValue(p.tokens[k]))
         /\ Lies(p, NextFlag(p, k), p.start[k])
<1>1. CASE k = Count(p) + 1
  <2>1. CFG_write_variable_u64[0] = <<0>>
    <3>1. 0 < Base
      BY BaseIs
    <3> QED
      BY <3>1, WriteIs
  <2>2. IsNumber(<<0>>, 0)
    BY <2>1, Written
  <2>3. Lies(p, <<0>>, p.start[k])
    <3>1. p.start[k] = Len(p.stream) /\ Len(p.stream) \in Nat
      BY <1>1 DEF Script
    <3>2. ~(Len(p.stream) + 1 \in 1 .. Len(p.stream))
      BY <3>1
    <3>3. BlockByte(p, p.start[k] + 1) = 0
      BY <3>1, <3>2 DEF BlockByte
    <3>4. Len(<<0>>) = 1 /\ <<0>>[1] = 0
      OBVIOUS
    <3>5. \A i \in 1 .. 1 : i = 1
      OBVIOUS
    <3> QED
      BY <3>3, <3>4, <3>5 DEF Lies
  <2> QED
    BY <1>1, <2>2, <2>3 DEF NextFlag
<1>2. CASE k # Count(p) + 1
  <2>1. k \in 1 .. Count(p)
    BY <1>2 DEF Script
  <2>2. WellFormed(p.tokens[k]) /\ Lies(p, FlagBytes(p.tokens[k]), p.start[k])
    BY <2>1 DEF Script, TokenLies
  <2>3. FlagValue(p.tokens[k]) \in Nat
    BY <2>2, FlagNumber DEF WellFormed
  <2>4. IsNumber(FlagBytes(p.tokens[k]), FlagValue(p.tokens[k]))
    BY <2>3, Written DEF FlagBytes
  <2> QED
    BY <1>2, <2>2, <2>4 DEF NextFlag
<1> QED
  BY <1>1, <1>2

(* At the first byte of a number.                                           *)
LEMMA ReadingBegins ==
  ASSUME NEW w, NEW v, IsNumber(w, v), NEW e, NEW c \in Nat, e.variable_u64 = <<>>
  PROVE  Reading(e, c, w, c)
<1>1. Len(w) > 0 /\ SubSeq(w, 1, 0) = <<>> /\ c = c + 0
  BY DEF IsNumber
<1> QED
  BY <1>1 DEF Reading

(* The sizes.                                                               *)
LEMMA InformationTurn ==
  ASSUME NEW p, NEW b, NEW s, Turning(p, b, s), get_information
  PROVE  Call(p, b, s, engine', running', input', output', room')
<1> DEFINE e == get_variable_u64(FALSE)
           c == b + engine.input_index
<1>1. /\ Script(p) /\ b \in Nat /\ engine \in Engine /\ engine.status = GOOD
      /\ engine.input_index \in Nat /\ engine.input_index <= Len(input) /\ Len(input) \in Nat
      /\ Feed(p, input, b) /\ Place(p, engine, c) /\ ~engine.done
  BY TurningIs
<1>2. /\ p.original_size \in Nat /\ p.compress_size \in Nat
      /\ Lies(p, SizeBytes(p), Len(Identifier)) /\ Lies(p, CompressedBytes(p), SizeEnd(p))
      /\ p.start[1] = SizeEnd(p) + Len(CompressedBytes(p)) /\ Len(Identifier) \in Nat
  BY <1>1, StreamConstants DEF Script, HeaderLies
<1>3. IsNumber(SizeBytes(p), p.original_size) /\ IsNumber(CompressedBytes(p), p.compress_size)
  BY <1>2, Written DEF SizeBytes, CompressedBytes
<1>4. SizeEnd(p) \in Nat
  BY <1>2, <1>3 DEF SizeEnd, IsNumber
<1>5. CASE Turn(GET_ORIGINAL_SIZE, NumberFits,
                IF e.need_more_input THEN e
                ELSE [e EXCEPT !.original_size = Number, !.state = GET_COMPRESS_SIZE], output)
  <2> DEFINE f == IF e.need_more_input THEN e
                  ELSE [e EXCEPT !.original_size = Number, !.state = GET_COMPRESS_SIZE]
  <2> SUFFICES ASSUME NumberFits
               PROVE  /\ f \in Engine /\ f.status = GOOD /\ f.total_output = engine.total_output
                      /\ Midway(p, f, input, b)
    BY <1>5, ReadingKeeps
  <2>1. engine.state = GET_ORIGINAL_SIZE /\ ~engine.need_more_input
    BY <1>5 DEF Turn, NumberFits
  <2>2. Reading(engine, c, SizeBytes(p), Len(Identifier)) /\ Untouched(engine)
    BY <1>1, <2>1 DEF Place, AtOriginalSize
  <2>3. /\ e \in Engine /\ SameBut(e, engine)
        /\ e.total_input = engine.total_input + (IF FALSE THEN NumberRead ELSE 0)
        /\ e.input_index <= Len(input)
        /\ e.need_more_input => /\ e.input_index = Len(input)
                                /\ Reading(e, b + e.input_index, SizeBytes(p), Len(Identifier))
        /\ ~e.need_more_input => /\ e.variable_u64 = <<>>
                                 /\ b + e.input_index = Len(Identifier) + Len(SizeBytes(p))
                                 /\ Number = p.original_size
    <3>1. /\ IsNumber(SizeBytes(p), p.original_size) /\ Len(Identifier) \in Nat
          /\ Lies(p, SizeBytes(p), Len(Identifier)) /\ FALSE \in BOOLEAN
          /\ ~engine.need_more_input
          /\ Reading(engine, b + engine.input_index, SizeBytes(p), Len(Identifier))
      BY <1>2, <1>3, <2>1, <2>2
    <3> QED
      BY <3>1, NumberEngine
  <2> HIDE DEF e
  <2>4. Untouched(e)
    BY <2>2, <2>3 DEF Untouched, SameBut
  <2>5. CASE e.need_more_input
    BY <1>1, <2>1, <2>3, <2>4, <2>5
       DEF Midway, Place, AtOriginalSize, SameBut, GET_IDENTIFIER, GET_ORIGINAL_SIZE,
           GET_COMPRESS_SIZE, GET_FLAG, GET_VARIABLE, GET_REPEAT, OUTPUT_CMP, OUTPUT_NONE,
           OUTPUT_NONE_REPEAT, ERROR_STATE
  <2>6. CASE ~e.need_more_input
    <3>1. f = [e EXCEPT !.original_size = Number, !.state = GET_COMPRESS_SIZE]
      BY <2>6
    <3> HIDE DEF f
    <3>2. /\ f \in Engine /\ f.status = e.status /\ f.total_output = e.total_output
          /\ f.total_input = e.total_input /\ f.input_index = e.input_index
          /\ f.variable_u64 = <<>> /\ ~f.need_more_input /\ f.done = e.done
          /\ f.state = GET_COMPRESS_SIZE /\ f.original_size = p.original_size
      BY <1>2, <2>3, <2>6, <3>1 DEF Engine
    <3>3. b + f.input_index = SizeEnd(p)
      BY <2>3, <2>6, <3>2 DEF SizeEnd
    <3>4. AtCompressSize(p, f, b + f.input_index)
      BY <1>3, <1>4, <2>4, <3>2, <3>3, ReadingBegins DEF AtCompressSize, Untouched
    <3>5. f.status = GOOD /\ f.total_output = engine.total_output /\ ~f.done
          /\ f.input_index <= Len(input)
      BY <1>1, <2>3, <3>2 DEF SameBut
    <3> QED
      BY <1>1, <3>2, <3>4, <3>5
         DEF Midway, Place, GET_IDENTIFIER, GET_ORIGINAL_SIZE, GET_COMPRESS_SIZE, GET_FLAG,
             GET_VARIABLE, GET_REPEAT, OUTPUT_CMP, OUTPUT_NONE, OUTPUT_NONE_REPEAT, ERROR_STATE
  <2> QED
    BY <2>5, <2>6
<1>6. CASE Turn(GET_COMPRESS_SIZE, NumberFits,
                IF e.need_more_input THEN e
                ELSE [e EXCEPT !.compress_size = Number, !.state = GET_FLAG], output)
  <2> DEFINE f == IF e.need_more_input THEN e
                  ELSE [e EXCEPT !.compress_size = Number, !.state = GET_FLAG]
  <2> SUFFICES ASSUME NumberFits
               PROVE  /\ f \in Engine /\ f.status = GOOD /\ f.total_output = engine.total_output
                      /\ Midway(p, f, input, b)
    BY <1>6, ReadingKeeps
  <2>1. engine.state = GET_COMPRESS_SIZE /\ ~engine.need_more_input
    BY <1>6 DEF Turn, NumberFits
  <2>2. /\ Reading(engine, c, CompressedBytes(p), SizeEnd(p)) /\ Untouched(engine)
        /\ engine.original_size = p.original_size
    BY <1>1, <2>1 DEF Place, AtCompressSize
  <2>3. /\ e \in Engine /\ SameBut(e, engine)
        /\ e.total_input = engine.total_input + (IF FALSE THEN NumberRead ELSE 0)
        /\ e.input_index <= Len(input)
        /\ e.need_more_input => /\ e.input_index = Len(input)
                                /\ Reading(e, b + e.input_index, CompressedBytes(p), SizeEnd(p))
        /\ ~e.need_more_input => /\ e.variable_u64 = <<>>
                                 /\ b + e.input_index = SizeEnd(p) + Len(CompressedBytes(p))
                                 /\ Number = p.compress_size
    <3> DEFINE w == CompressedBytes(p)
               z == SizeEnd(p)
    <3>1. /\ IsNumber(w, p.compress_size) /\ z \in Nat /\ Lies(p, w, z) /\ FALSE \in BOOLEAN
          /\ Reading(engine, b + engine.input_index, w, z) /\ ~engine.need_more_input
      BY <1>2, <1>3, <1>4, <2>1, <2>2
    <3> HIDE DEF w, z
    <3>2. /\ e \in Engine /\ SameBut(e, engine)
          /\ e.total_input = engine.total_input + (IF FALSE THEN NumberRead ELSE 0)
          /\ e.input_index <= Len(input)
          /\ e.need_more_input => /\ e.input_index = Len(input)
                                  /\ Reading(e, b + e.input_index, w, z)
          /\ ~e.need_more_input => /\ e.variable_u64 = <<>>
                                   /\ b + e.input_index = z + Len(w)
                                   /\ Number = p.compress_size
      BY <3>1, NumberEngine
    <3> QED
      BY <3>2 DEF w, z
  <2> HIDE DEF e
  <2>4. Untouched(e) /\ e.original_size = p.original_size
    BY <2>2, <2>3 DEF Untouched, SameBut
  <2>5. CASE e.need_more_input
    BY <1>1, <2>1, <2>3, <2>4, <2>5
       DEF Midway, Place, AtCompressSize, SameBut, GET_IDENTIFIER, GET_ORIGINAL_SIZE,
           GET_COMPRESS_SIZE, GET_FLAG, GET_VARIABLE, GET_REPEAT, OUTPUT_CMP, OUTPUT_NONE,
           OUTPUT_NONE_REPEAT, ERROR_STATE
  <2>6. CASE ~e.need_more_input
    <3>1. f = [e EXCEPT !.compress_size = Number, !.state = GET_FLAG]
      BY <2>6
    <3> HIDE DEF f
    <3>2. /\ f \in Engine /\ f.status = e.status /\ f.total_output = e.total_output
          /\ f.total_input = e.total_input /\ f.input_index = e.input_index
          /\ f.variable_u64 = <<>> /\ ~f.need_more_input /\ f.done = e.done
          /\ f.state = GET_FLAG /\ f.original_size = e.original_size
          /\ f.compress_size = p.compress_size
      BY <1>2, <2>3, <2>6, <3>1 DEF Engine
    <3>3. b + f.input_index = p.start[1] /\ p.start[1] \in Nat
      <4>1. p.start[1] \in Nat
        BY <1>2, <1>3, <1>4 DEF IsNumber
      <4> QED
        BY <1>2, <2>3, <2>6, <3>2, <4>1
    <3>4. f.total_input = 0 /\ f.total_output = 0
      BY <2>4, <3>2 DEF Untouched
    <3>5. AtFlag(p, f, b + f.input_index)
      <4>1. 1 \in 1 .. Count(p) + 1 /\ 1 # Count(p) + 1 /\ p.from[1] = 0
        BY <1>1 DEF Script
      <4>2. Reading(f, p.start[1], NextFlag(p, 1), p.start[1])
        BY <1>1, <3>2, <3>3, <4>1, NextFlagIs, ReadingBegins
      <4>3. Sized(p, f, b + f.input_index)
        BY <2>4, <3>2, <3>3, <3>4 DEF Sized
      <4> QED
        BY <3>3, <3>4, <4>1, <4>2, <4>3 DEF AtFlag
    <3>6. f.status = GOOD /\ f.total_output = engine.total_output /\ ~f.done
          /\ f.input_index <= Len(input)
      BY <1>1, <2>3, <3>2 DEF SameBut
    <3> QED
      BY <1>1, <3>2, <3>5, <3>6
         DEF Midway, Place, GET_IDENTIFIER, GET_ORIGINAL_SIZE, GET_COMPRESS_SIZE, GET_FLAG,
             GET_VARIABLE, GET_REPEAT, OUTPUT_CMP, OUTPUT_NONE, OUTPUT_NONE_REPEAT, ERROR_STATE
  <2> QED
    BY <2>5, <2>6
<1> QED
  BY <1>5, <1>6 DEF get_information

-----------------------------------------------------------------------------
(* The handlers that read a token.                                          *)

(* The piece of a token is not empty.                                       *)
LEMMA PieceIs ==
  ASSUME NEW t, WellFormed(t)
  PROVE  /\ Piece(t) \in Seq(Byte) /\ Len(Piece(t)) \in Nat \ {0}
         /\ t.pattern = NONE => Piece(t) = t.data /\ Len(Piece(t)) = t.length
         /\ \A d : t.pattern # NONE /\ (t.pattern \notin {ZERO, HIGH} => d = t.data)
                     => Piece([pattern |-> t.pattern, length |-> t.length, data |-> d]) = Piece(t)
<1>1. /\ t.pattern \in 0 .. 7 /\ t.length \in Nat /\ t.length > 0 /\ t.data \in Seq(Byte)
      /\ Len(t.data) = IF t.pattern = NONE THEN t.length
                       ELSE IF t.pattern \in {ZERO, HIGH} THEN 0 ELSE 1
  BY DEF WellFormed, Token, Pattern
<1>2. CompressByte(t) \in Byte
  <2>1. 0 \in Byte /\ High \in Byte
    BY StreamConstants DEF Byte
  <2>2. t.pattern = VAR => t.data[1] \in Byte
    BY <1>1 DEF VAR, NONE, ZERO, HIGH
  <2> QED
    BY <2>1, <2>2 DEF CompressByte
<1> DEFINE f == Fill(t.length, CompressByte(t))
<1>3. f \in Seq(Byte) /\ Len(f) = t.length
  BY <1>1, <1>2 DEF Fill
<1>4. /\ Piece(t) \in {t.data, f, t.data \o f, f \o t.data}
      /\ t.pattern = NONE => Piece(t) = t.data
  BY DEF Piece
<1>5. t.pattern # NONE => Piece(t) \in {f, t.data \o f, f \o t.data}
  BY DEF Piece
<1> HIDE DEF f
<1>6. /\ t.data \o f \in Seq(Byte) /\ Len(t.data \o f) = Len(t.data) + t.length
      /\ f \o t.data \in Seq(Byte) /\ Len(f \o t.data) = t.length + Len(t.data)
      /\ Len(t.data) \in Nat
  BY <1>1, <1>3
<1>7. Piece(t) \in Seq(Byte) /\ Len(Piece(t)) \in Nat \ {0}
  <2>1. CASE t.pattern = NONE
    BY <1>1, <1>4, <2>1
  <2>2. CASE t.pattern # NONE
    <3>1. CASE Piece(t) = f
      BY <1>1, <1>3, <3>1
    <3>2. CASE Piece(t) = t.data \o f
      BY <1>1, <1>6, <3>2
    <3>3. CASE Piece(t) = f \o t.data
      BY <1>1, <1>6, <3>3
    <3> QED
      BY <1>5, <2>2, <3>1, <3>2, <3>3
  <2> QED
    BY <2>1, <2>2
<1>8. ASSUME NEW d, t.pattern # NONE, t.pattern \notin {ZERO, HIGH} => d = t.data
      PROVE  Piece([pattern |-> t.pattern, length |-> t.length, data |-> d]) = Piece(t)
  BY <1>8 DEF Piece, CompressByte, NONE, ZERO, HIGH, VAR_ZERO, VAR_HIGH, ZERO_VAR, HIGH_VAR, VAR
<1>9. t.pattern = NONE => Piece(t) = t.data /\ Len(Piece(t)) = t.length
  BY <1>1, <1>4
<1> QED
  BY <1>7, <1>8, <1>9

(* Where the parts of token k are.                                          *)
LEMMA TokenParts ==
  ASSUME NEW p, Script(p), NEW k \in 1 .. Count(p)
  PROVE  LET t == p.tokens[k]
         IN  /\ WellFormed(t) /\ t \in Token
             /\ p.start[k] \in Nat /\ p.from[k] \in Nat /\ p.start[k + 1] \in Nat
             /\ FlagEnd(p, k) \in Nat /\ DataEnd(p, k) \in Nat
             /\ FlagEnd(p, k) = p.start[k] + Len(FlagBytes(t))
             /\ DataEnd(p, k) = FlagEnd(p, k) + Len(t.data) /\ Len(t.data) \in Nat
             /\ Lies(p, t.data, FlagEnd(p, k))
             /\ Lies(p, CountBytes(t), DataEnd(p, k))
             /\ p.start[k + 1] = DataEnd(p, k) + Len(CountBytes(t))
             /\ ~t.flagged => p.start[k + 1] = DataEnd(p, k)
             /\ t.flagged => IsNumber(CountBytes(t), t.count) /\ t.count > 0
             /\ t.count \in Nat
             /\ p.exact => Accepted(t)
<1> DEFINE t == p.tokens[k]
<1>1. TokenLies(p, k) /\ (p.exact => Accepted(t))
  BY DEF Script
<1>2. WellFormed(t) /\ t \in Token /\ t.data \in Seq(Byte) /\ t.count \in Nat /\ t.flagged \in BOOLEAN
  BY <1>1 DEF TokenLies, WellFormed, Token
<1>3. k \in 1 .. Count(p) + 1 /\ k + 1 \in 1 .. Count(p) + 1
  <2>1. Count(p) \in Nat \ {0}
    BY DEF Script
  <2> QED
    BY <2>1
<1>4. p.start[k] \in Nat /\ p.from[k] \in Nat /\ p.start[k + 1] \in Nat
  BY <1>3, Starts
<1>5. FlagBytes(t) \in Seq(Byte)
  <2>1. FlagValue(t) \in Nat
    BY <1>2, FlagNumber
  <2>2. IsNumber(FlagBytes(t), FlagValue(t))
    BY <2>1, Written DEF FlagBytes
  <2> QED
    BY <2>2 DEF IsNumber
<1>6. /\ FlagEnd(p, k) = p.start[k] + Len(FlagBytes(t)) /\ FlagEnd(p, k) \in Nat
      /\ DataEnd(p, k) = FlagEnd(p, k) + Len(t.data) /\ DataEnd(p, k) \in Nat /\ Len(t.data) \in Nat
  <2> DEFINE u == Len(FlagBytes(t))
             d == Len(t.data)
  <2>1. u \in Nat /\ d \in Nat /\ p.start[k] \in Nat
    BY <1>2, <1>4, <1>5
  <2>2. FlagEnd(p, k) = p.start[k] + u /\ DataEnd(p, k) = FlagEnd(p, k) + d
    BY DEF FlagEnd, DataEnd
  <2> HIDE DEF u, d
  <2>3. FlagEnd(p, k) \in Nat /\ DataEnd(p, k) \in Nat
    BY <2>1, <2>2
  <2> QED
    BY <2>1, <2>2, <2>3 DEF u, d
<1>7. t.flagged => IsNumber(CountBytes(t), t.count) /\ t.count > 0
  BY <1>2, Written DEF WellFormed, CountBytes
<1>8. ~t.flagged => Len(CountBytes(t)) = 0
  <2>1. ~t.flagged => t.count = 0
    BY <1>2 DEF WellFormed
  <2> QED
    BY <2>1 DEF CountBytes
<1>9. /\ Lies(p, t.data, FlagEnd(p, k)) /\ Lies(p, CountBytes(t), DataEnd(p, k))
      /\ p.start[k + 1] = DataEnd(p, k) + Len(CountBytes(t))
  BY <1>1 DEF TokenLies
<1>10. ~t.flagged => p.start[k + 1] = DataEnd(p, k)
  BY <1>6, <1>8, <1>9
<1> HIDE DEF t
<1>11. /\ WellFormed(t) /\ t \in Token
       /\ p.start[k] \in Nat /\ p.from[k] \in Nat /\ p.start[k + 1] \in Nat
       /\ FlagEnd(p, k) \in Nat /\ DataEnd(p, k) \in Nat
       /\ FlagEnd(p, k) = p.start[k] + Len(FlagBytes(t))
       /\ DataEnd(p, k) = FlagEnd(p, k) + Len(t.data) /\ Len(t.data) \in Nat
       /\ Lies(p, t.data, FlagEnd(p, k))
       /\ Lies(p, CountBytes(t), DataEnd(p, k))
       /\ p.start[k + 1] = DataEnd(p, k) + Len(CountBytes(t))
       /\ ~t.flagged => p.start[k + 1] = DataEnd(p, k)
       /\ t.flagged => IsNumber(CountBytes(t), t.count) /\ t.count > 0
       /\ t.count \in Nat
       /\ p.exact => Accepted(t)
  BY <1>1, <1>2, <1>4, <1>6, <1>7, <1>9, <1>10
<1> QED
  BY <1>11 DEF t

(* What the flag of token t makes of the engine is its place in t.           *)
LEMMA FlagLeads ==
  ASSUME NEW p, Script(p), NEW k \in 1 .. Count(p), NEW f \in Engine, NEW c,
         f.flag = p.tokens[k].pattern, f.flag_repeat = p.tokens[k].flagged,
         f.flag_size = p.tokens[k].length, f.flag_index = 0, f.repeat_index = 0,
         f.variable_u64 = <<>>, f.total_output = p.from[k], Sized(p, f, c),
         c = FlagEnd(p, k),
         f.state = AfterFlag(p.tokens[k].pattern, p.tokens[k].flagged, p.tokens[k].length)
  PROVE  Place(p, f, c)
<1> DEFINE t == p.tokens[k]
<1>1. /\ WellFormed(t) /\ t \in Token /\ p.from[k] \in Nat
      /\ FlagEnd(p, k) \in Nat /\ DataEnd(p, k) = FlagEnd(p, k) + Len(t.data)
      /\ ~t.flagged => p.start[k + 1] = DataEnd(p, k)
      /\ t.flagged \in BOOLEAN /\ t.length \in Nat /\ t.length > 0 /\ t.pattern \in 0 .. 7
      /\ p.exact => Accepted(t)
  BY TokenParts DEF WellFormed, Token, Pattern
<1>2. f.flag_index = 0 /\ f.repeat_index = 0 /\ f.variable_u64 = <<>> /\ f.total_output = p.from[k]
      /\ Sized(p, f, c) /\ c = FlagEnd(p, k)
      /\ f.flag = t.pattern /\ f.flag_repeat = t.flagged /\ f.flag_size = t.length
      /\ f.state = AfterFlag(t.pattern, t.flagged, t.length)
  OBVIOUS
<1> HIDE DEF t
<1>3. CASE t.flagged /\ (t.pattern \in {ZERO, HIGH, VAR} \/ (t.pattern = NONE /\ t.length > NoneData))
  <2>1. f.state = ERROR_STATE
    BY <1>2, <1>3 DEF AfterFlag, NONE, ZERO, HIGH, VAR
  <2>2. ~Accepted(t)
    <3>1. NoneData \in Nat
      BY CompressConstants, SameLimit
    <3> QED
      BY <1>1, <1>3, <3>1 DEF Accepted, NONE
  <2> QED
    BY <1>1, <2>1, <2>2
       DEF Place, GET_IDENTIFIER, GET_ORIGINAL_SIZE, GET_COMPRESS_SIZE, GET_FLAG,
           GET_VARIABLE, GET_REPEAT, OUTPUT_CMP, OUTPUT_NONE, OUTPUT_NONE_REPEAT, ERROR_STATE
<1>4. CASE ~(t.flagged /\ (t.pattern \in {ZERO, HIGH, VAR} \/ (t.pattern = NONE /\ t.length > NoneData)))
  <2>1. InToken(f, t)
    BY <1>1, <1>2, <1>4 DEF InToken
  <2>2. CASE t.pattern \in {ZERO, HIGH}
    <3>1. f.state = OUTPUT_CMP /\ t.pattern # NONE /\ ~t.flagged
      BY <1>2, <1>4, <2>2 DEF AfterFlag, NONE, ZERO, HIGH
    <3>2. Len(t.data) = 0
      BY <1>1, <2>2, <3>1 DEF WellFormed
    <3>3. c = p.start[k + 1]
      BY <1>1, <1>2, <3>1, <3>2
    <3>4. Writing(f, t, p.from[k], 0)
      <4>1. Len(Piece(t)) \in Nat \ {0} /\ t.count \in Nat
        BY <1>1, PieceIs DEF Token
      <4> DEFINE size == Len(Piece(t))
      <4>2. 0 < size /\ 0 + 0 < t.count + 1 /\ p.from[k] = p.from[k] + (((0 + 0) * size) + 0)
        BY <1>1, <4>1
      <4> QED
        BY <1>2, <4>2 DEF Writing
    <3>5. CmpIn(p, f, c, k)
      BY <1>2, <2>1, <2>2, <3>1, <3>3, <3>4 DEF CmpIn, t
    <3>6. AtCmp(p, f, c)
      BY <1>2, <3>5 DEF AtCmp
    <3> QED
      BY <3>1, <3>6
         DEF Place, GET_IDENTIFIER, GET_ORIGINAL_SIZE, GET_COMPRESS_SIZE, GET_FLAG,
             GET_VARIABLE, GET_REPEAT, OUTPUT_CMP, OUTPUT_NONE, OUTPUT_NONE_REPEAT, ERROR_STATE
  <2>3. CASE t.pattern = NONE
    <3>1. f.state = OUTPUT_NONE
      BY <1>2, <1>4, <2>3 DEF AfterFlag, NONE, ZERO, HIGH, VAR
    <3>2. c = FlagEnd(p, k) + 0 /\ p.from[k] = p.from[k] + 0 /\ 0 < t.length /\ 1 .. 0 = {}
      BY <1>1, <1>2
    <3>3. 0 <= Len(f.none_data)
      <4>1. f.none_data \in Seq(Byte)
        BY DEF Engine
      <4> QED
        BY <4>1
    <3>4. NoneIn(p, f, c, k)
      BY <1>2, <2>1, <2>3, <3>2, <3>3 DEF NoneIn, t
    <3>5. AtNone(p, f, c)
      BY <1>2, <3>4 DEF AtNone
    <3> QED
      BY <3>1, <3>5
         DEF Place, GET_IDENTIFIER, GET_ORIGINAL_SIZE, GET_COMPRESS_SIZE, GET_FLAG,
             GET_VARIABLE, GET_REPEAT, OUTPUT_CMP, OUTPUT_NONE, OUTPUT_NONE_REPEAT, ERROR_STATE
  <2>4. CASE t.pattern \notin {NONE, ZERO, HIGH}
    <3>1. f.state = GET_VARIABLE
      BY <1>2, <1>4, <2>4 DEF AfterFlag
    <3>2. VariableIn(p, f, c, k)
      BY <1>2, <2>1, <2>4 DEF VariableIn, t
    <3>3. AtVariable(p, f, c)
      BY <1>2, <3>2 DEF AtVariable
    <3> QED
      BY <3>1, <3>3
         DEF Place, GET_IDENTIFIER, GET_ORIGINAL_SIZE, GET_COMPRESS_SIZE, GET_FLAG,
             GET_VARIABLE, GET_REPEAT, OUTPUT_CMP, OUTPUT_NONE, OUTPUT_NONE_REPEAT, ERROR_STATE
  <2> QED
    BY <2>2, <2>3, <2>4
<1> QED
  BY <1>3, <1>4

(* The flag of a token.                                                     *)
LEMMA FlagTurn ==
  ASSUME NEW p, NEW b, NEW s, Turning(p, b, s), get_flag
  PROVE  Call(p, b, s, engine', running', input', output', room')
<1> DEFINE e == get_variable_u64(TRUE)
           c == b + engine.input_index
           pattern == Number % 8
           repeats == Number % 16 >= 8
           size == Number \div 16
           asserts == NumberFits /\ (e.need_more_input \/ size > 0)
           f == IF e.need_more_input THEN e
                ELSE [e EXCEPT !.flag = pattern, !.flag_repeat = repeats,
                               !.flag_size = size, !.flag_index = 0,
                               !.repeat_index = 0,
                               !.state = AfterFlag(pattern, repeats, size)]
<1>1. Turn(GET_FLAG, asserts, f, output)
  BY DEF get_flag
<1>2. engine.state = GET_FLAG
  BY <1>1 DEF Turn
<1>3. /\ Script(p) /\ b \in Nat /\ engine \in Engine /\ engine.status = GOOD
      /\ engine.input_index \in Nat /\ engine.input_index <= Len(input) /\ Len(input) \in Nat
      /\ engine.total_input \in Nat
      /\ Feed(p, input, b) /\ AtFlag(p, engine, c) /\ ~engine.done
  BY <1>2, TurningIs DEF Place
<1> SUFFICES ASSUME asserts
             PROVE  /\ f \in Engine /\ f.status = GOOD /\ f.total_output = engine.total_output
                    /\ Midway(p, f, input, b)
  BY <1>1, ReadingKeeps
<1>4. ~engine.need_more_input /\ (e.need_more_input \/ size > 0)
  BY DEF NumberFits
<1>5. PICK k \in 1 .. Count(p) + 1 :
        /\ engine.total_output = p.from[k]
        /\ Reading(engine, c, NextFlag(p, k), p.start[k])
        /\ p.exact => k # Count(p) + 1
  BY <1>3 DEF AtFlag
<1>6. p.start[k] \in Nat /\ p.start[1] \in Nat
  BY <1>3, Starts
<1> DEFINE v == IF k = Count(p) + 1 THEN 0 ELSE FlagValue(p.tokens[k])
           w == NextFlag(p, k)
           z == p.start[k]
<1>7. IsNumber(w, v) /\ Lies(p, w, z) /\ z \in Nat /\ TRUE \in BOOLEAN
      /\ Reading(engine, b + engine.input_index, w, z)
  BY <1>3, <1>5, <1>6, NextFlagIs
<1> HIDE DEF asserts
<1>8. /\ e \in Engine /\ SameBut(e, engine) /\ NumberRead \in Nat
      /\ e.input_index = engine.input_index + NumberRead
      /\ e.total_input = engine.total_input + (IF TRUE THEN NumberRead ELSE 0)
      /\ e.input_index <= Len(input)
      /\ e.need_more_input => /\ e.input_index = Len(input)
                              /\ Reading(e, b + e.input_index, w, z)
      /\ ~e.need_more_input => /\ e.variable_u64 = <<>>
                               /\ b + e.input_index = z + Len(w)
                               /\ Number = v
  <2> HIDE DEF w, v, z
  <2> QED
    BY <1>4, <1>7, NumberEngine
<1> HIDE DEF e
<1>9. Sized(p, e, b + e.input_index)
  <2> DEFINE x == engine.input_index
             n == NumberRead
             y == engine.total_input
             h == p.start[1]
  <2>1. x \in Nat /\ n \in Nat /\ y \in Nat /\ h \in Nat /\ b \in Nat
        /\ e.input_index = x + n /\ e.total_input = y + n /\ y + h = b + x
    BY <1>3, <1>6, <1>8 DEF AtFlag, Sized
  <2> HIDE DEF x, n, y, h
  <2>2. e.total_input + h = b + e.input_index
    BY <2>1
  <2> QED
    BY <1>3, <1>8, <2>2 DEF AtFlag, Sized, SameBut, h
<1>10. /\ e.status = GOOD /\ e.state = GET_FLAG /\ e.total_output = engine.total_output
       /\ ~e.done
  BY <1>2, <1>3, <1>8 DEF SameBut
<1>11. CASE e.need_more_input
  <2>1. f = e
    BY <1>11
  <2>2. AtFlag(p, e, b + e.input_index)
    BY <1>5, <1>8, <1>9, <1>10, <1>11 DEF AtFlag
  <2> HIDE DEF f
  <2> QED
    BY <1>3, <1>8, <1>10, <1>11, <2>1, <2>2
       DEF Midway, Place, GET_IDENTIFIER, GET_ORIGINAL_SIZE, GET_COMPRESS_SIZE, GET_FLAG,
           GET_VARIABLE, GET_REPEAT, OUTPUT_CMP, OUTPUT_NONE, OUTPUT_NONE_REPEAT, ERROR_STATE
<1>12. CASE ~e.need_more_input
  <2>1. Number = v /\ size > 0
    BY <1>4, <1>8, <1>12
  <2>2. k \in 1 .. Count(p)
    <3>1. k = Count(p) + 1 => size = 0
      BY <2>1
    <3>2. k # Count(p) + 1
      BY <2>1, <3>1
    <3> QED
      BY <1>3, <3>2 DEF Script
  <2> DEFINE t == p.tokens[k]
             st == AfterFlag(t.pattern, t.flagged, t.length)
  <2>3. WellFormed(t) /\ t \in Token /\ FlagEnd(p, k) = z + Len(FlagBytes(t))
    BY <1>3, <2>2, TokenParts
  <2>4. k # Count(p) + 1
    BY <1>3, <2>2 DEF Script
  <2>5. v = FlagValue(t) /\ w = FlagBytes(t)
    BY <2>4 DEF NextFlag
  <2> HIDE DEF v
  <2>6. /\ pattern = t.pattern /\ size = t.length
        /\ repeats <=> t.flagged
    BY <2>1, <2>3, <2>5, FlagNumber
  <2>7. /\ t.pattern \in Pattern /\ t.flagged \in BOOLEAN /\ t.length \in Nat
    BY <2>3 DEF Token
  <2>8. repeats = t.flagged
    BY <2>6, <2>7
  <2>9. f = [e EXCEPT !.flag = t.pattern, !.flag_repeat = t.flagged, !.flag_size = t.length,
                      !.flag_index = 0, !.repeat_index = 0, !.state = st]
    BY <1>12, <2>6, <2>8
  <2>10. st \in {ERROR_STATE, OUTPUT_CMP, OUTPUT_NONE, GET_VARIABLE}
    BY DEF AfterFlag
  <2> HIDE DEF f, st, t
  <2>11. /\ f \in Engine /\ f.status = e.status /\ f.total_output = e.total_output
         /\ f.total_input = e.total_input /\ f.input_index = e.input_index
         /\ f.variable_u64 = e.variable_u64 /\ f.need_more_input = e.need_more_input
         /\ f.done = e.done /\ f.state = st /\ f.original_size = e.original_size
         /\ f.compress_size = e.compress_size /\ f.flag = t.pattern /\ f.flag_repeat = t.flagged
         /\ f.flag_size = t.length /\ f.flag_index = 0 /\ f.repeat_index = 0
    BY <1>8, <2>7, <2>9, <2>10 DEF Engine
  <2>12. Sized(p, f, b + f.input_index)
    BY <1>9, <2>11 DEF Sized
  <2>13. b + f.input_index = FlagEnd(p, k) /\ f.variable_u64 = <<>>
    BY <1>8, <1>12, <2>3, <2>5, <2>11 DEF w, t
  <2>14. f.total_output = p.from[k]
    BY <1>5, <1>10, <2>11
  <2>15. Place(p, f, b + f.input_index)
    BY <1>3, <2>2, <2>11, <2>12, <2>13, <2>14, FlagLeads DEF st, t
  <2> QED
    BY <1>3, <1>8, <1>10, <1>12, <2>11, <2>15 DEF Midway
<1> QED
  BY <1>11, <1>12

(* The byte that varies.                                                    *)
LEMMA VariableTurn ==
  ASSUME NEW p, NEW b, NEW s, Turning(p, b, s), get_variable
  PROVE  Call(p, b, s, engine', running', input', output', room')
<1> DEFINE c == b + engine.input_index
           asserts == ~engine.need_more_input
           st == IF engine.flag_repeat THEN GET_REPEAT ELSE OUTPUT_CMP
           e == IF Unread = 0 THEN [engine EXCEPT !.need_more_input = TRUE]
                ELSE [engine EXCEPT !.variable = Read(1), !.input_index = @ + 1,
                                    !.total_input = @ + 1, !.state = st]
<1>1. Turn(GET_VARIABLE, asserts, e, output)
  BY DEF get_variable
<1>2. engine.state = GET_VARIABLE
  BY <1>1 DEF Turn
<1>3. /\ Script(p) /\ b \in Nat /\ engine \in Engine /\ engine.status = GOOD
      /\ engine.input_index \in Nat /\ engine.input_index <= Len(input) /\ Len(input) \in Nat
      /\ engine.total_input \in Nat
      /\ Feed(p, input, b) /\ AtVariable(p, engine, c) /\ ~engine.done
  BY <1>2, TurningIs DEF Place
<1> SUFFICES ASSUME asserts
             PROVE  /\ e \in Engine /\ e.status = GOOD /\ e.total_output = engine.total_output
                    /\ Midway(p, e, input, b)
  BY <1>1, ReadingKeeps
<1>4. PICK k \in 1 .. Count(p) : VariableIn(p, engine, c, k)
  BY <1>3 DEF AtVariable
<1> DEFINE t == p.tokens[k]
<1>5. /\ Unread \in Nat /\ engine.input_index + Unread = Len(input)
      /\ \A j \in 0 .. Unread : /\ Read(j) \in Seq(Byte) /\ Len(Read(j)) = j
                                /\ \A i \in 1 .. j : Read(j)[i] = BlockByte(p, c + i)
  BY <1>3, ReadIsFed
<1>6. CASE Unread = 0
  <2>1. e = [engine EXCEPT !.need_more_input = TRUE]
    BY <1>6
  <2> HIDE DEF e
  <2>2. /\ e \in Engine /\ e.status = engine.status /\ e.total_output = engine.total_output
        /\ e.total_input = engine.total_input /\ e.variable_u64 = engine.variable_u64
        /\ e.input_index = engine.input_index /\ e.need_more_input /\ e.done = engine.done
        /\ e.state = engine.state /\ e.original_size = engine.original_size
        /\ e.compress_size = engine.compress_size /\ e.flag = engine.flag
        /\ e.flag_repeat = engine.flag_repeat /\ e.flag_size = engine.flag_size
        /\ e.flag_index = engine.flag_index /\ e.repeat_index = engine.repeat_index
    BY <1>3, <2>1 DEF Engine
  <2>3. AtVariable(p, e, b + e.input_index)
    <3>1. Sized(p, e, c) /\ VariableIn(p, e, c, k)
      BY <1>3, <1>4, <2>2 DEF AtVariable, Sized, VariableIn, InToken
    <3> QED
      BY <2>2, <3>1 DEF AtVariable
  <2>4. e.input_index = Len(input)
    BY <1>3, <1>5, <1>6, <2>2
  <2>5. e.input_index <= Len(input) /\ e.state = GET_VARIABLE /\ ~e.done /\ e.status = GOOD
    BY <1>2, <1>3, <2>2
  <2> QED
    BY <1>3, <2>2, <2>3, <2>4, <2>5
       DEF Midway, Place, GET_IDENTIFIER, GET_ORIGINAL_SIZE, GET_COMPRESS_SIZE, GET_FLAG,
           GET_VARIABLE, GET_REPEAT, OUTPUT_CMP, OUTPUT_NONE, OUTPUT_NONE_REPEAT, ERROR_STATE
<1>7. CASE Unread # 0
  <2>1. /\ WellFormed(t) /\ FlagEnd(p, k) \in Nat /\ DataEnd(p, k) = FlagEnd(p, k) + Len(t.data)
        /\ DataEnd(p, k) \in Nat /\ p.from[k] \in Nat
        /\ Lies(p, t.data, FlagEnd(p, k))
        /\ ~t.flagged => p.start[k + 1] = DataEnd(p, k)
        /\ t.flagged => IsNumber(CountBytes(t), t.count)
        /\ t.count \in Nat /\ t.flagged \in BOOLEAN
    BY <1>3, TokenParts DEF Token
  <2> DEFINE d == Read(1)
             i0 == engine.input_index + 1
             j0 == engine.total_input + 1
  <2>2. 1 \in 0 .. Unread /\ 1 <= Unread
    BY <1>5, <1>7
  <2>3. d \in Seq(Byte) /\ Len(d) = 1 /\ d[1] = BlockByte(p, c + 1)
    <3> HIDE DEF c
    <3>1. Read(1) \in Seq(Byte) /\ Len(Read(1)) = 1 /\ \A i \in 1 .. 1 : Read(1)[i] = BlockByte(p, c + i)
      BY <1>5, <2>2
    <3>2. 1 \in 1 .. 1
      OBVIOUS
    <3> QED
      BY <3>1, <3>2
  <2>4. /\ t.pattern \notin {NONE, ZERO, HIGH} /\ c = FlagEnd(p, k)
        /\ engine.total_output = p.from[k] /\ InToken(engine, t)
        /\ engine.flag_index = 0 /\ engine.repeat_index = 0 /\ engine.variable_u64 = <<>>
    BY <1>4 DEF VariableIn
  <2>5. Len(t.data) = 1 /\ t.data \in Seq(Byte)
    BY <2>1, <2>4 DEF WellFormed, Token
  <2>6. d = t.data
    <3>1. BlockByte(p, FlagEnd(p, k) + 1) = t.data[1]
      BY <2>1, <2>5 DEF Lies
    <3>2. \A i \in 1 .. Len(d) : d[i] = t.data[i]
      BY <2>3, <2>4, <3>1
    <3> HIDE DEF d
    <3> QED
      BY <2>3, <2>5, <3>2, SameBytes
  <2>7. e = [engine EXCEPT !.variable = d, !.input_index = i0, !.total_input = j0, !.state = st]
    BY <1>7
  <2>8. i0 \in Nat /\ j0 \in Nat /\ i0 <= Len(input) /\ b + i0 = DataEnd(p, k)
    <3> DEFINE x == engine.input_index
               y == engine.total_input
               u == Unread
               g == FlagEnd(p, k)
    <3>1. /\ x \in Nat /\ y \in Nat /\ u \in Nat /\ 1 <= u /\ x + u = Len(input) /\ b \in Nat
          /\ g = b + x /\ DataEnd(p, k) = g + 1
      BY <1>3, <1>5, <2>1, <2>2, <2>4, <2>5
    <3> HIDE DEF x, y, u, g
    <3>2. x + 1 \in Nat /\ y + 1 \in Nat /\ x + 1 <= Len(input) /\ b + (x + 1) = DataEnd(p, k)
      BY <3>1
    <3> QED
      BY <3>2 DEF x, y
  <2>9. st \in {GET_REPEAT, OUTPUT_CMP}
    OBVIOUS
  <2> HIDE DEF e, d, i0, j0, t, st
  <2>10. /\ e \in Engine /\ e.status = engine.status /\ e.total_output = engine.total_output
        /\ e.total_input = j0 /\ e.variable_u64 = engine.variable_u64
        /\ e.input_index = i0 /\ e.need_more_input = engine.need_more_input /\ e.done = engine.done
        /\ e.state = st /\ e.original_size = engine.original_size
        /\ e.compress_size = engine.compress_size /\ e.flag = engine.flag
        /\ e.flag_repeat = engine.flag_repeat /\ e.flag_size = engine.flag_size
        /\ e.flag_index = engine.flag_index /\ e.repeat_index = engine.repeat_index
        /\ e.variable = d
    BY <1>3, <2>3, <2>7, <2>8, <2>9 DEF Engine
  <2>11. Sized(p, e, b + e.input_index)
    <3> DEFINE x == engine.input_index
               y == engine.total_input
               h == p.start[1]
    <3>1. x \in Nat /\ y \in Nat /\ b \in Nat /\ h \in Nat /\ y + h = b + x
      <4>1. 1 \in 1 .. Count(p) + 1
        BY <1>3 DEF Script
      <4>2. h \in Nat
        BY <1>3, <4>1, Starts
      <4> QED
        BY <1>3, <4>2 DEF AtVariable, Sized
    <3> HIDE DEF x, y, h
    <3>2. (y + 1) + h = b + (x + 1)
      BY <3>1
    <3>3. e.total_input + h = b + e.input_index
      BY <2>10, <3>2 DEF i0, j0, x, y
    <3> QED
      BY <1>3, <2>10, <3>3 DEF AtVariable, Sized, h
  <2>12. InToken(e, t) /\ ~e.need_more_input /\ ~e.done /\ e.status = GOOD
    BY <1>3, <2>4, <2>10 DEF InToken
  <2>13. CASE t.flagged
    <3>1. e.state = GET_REPEAT
      BY <2>4, <2>10, <2>13 DEF st, InToken
    <3>2. Reading(e, b + e.input_index, CountBytes(t), DataEnd(p, k))
      <4>1. /\ CountBytes(t) \in Seq(Byte) /\ 0 < Len(CountBytes(t))
        BY <2>1, <2>13 DEF IsNumber
      <4>2. e.variable_u64 = SubSeq(CountBytes(t), 1, 0)
        BY <2>4, <2>10
      <4>3. b + e.input_index = DataEnd(p, k) + 0
        BY <2>1, <2>8, <2>10
      <4> QED
        BY <4>1, <4>2, <4>3 DEF Reading
    <3>3. RepeatIn(p, e, b + e.input_index, k)
      <4>1. e.total_output = p.from[k] + (IF t.pattern = NONE THEN t.length ELSE 0)
        BY <2>1, <2>4, <2>10
      <4> QED
        BY <2>4, <2>6, <2>10, <2>12, <2>13, <3>2, <4>1 DEF RepeatIn, t
    <3>4. AtRepeat(p, e, b + e.input_index)
      BY <2>11, <3>3 DEF AtRepeat
    <3> QED
      BY <1>3, <2>8, <2>10, <2>12, <3>1, <3>4
         DEF Midway, Place, GET_IDENTIFIER, GET_ORIGINAL_SIZE, GET_COMPRESS_SIZE, GET_FLAG,
             GET_VARIABLE, GET_REPEAT, OUTPUT_CMP, OUTPUT_NONE, OUTPUT_NONE_REPEAT, ERROR_STATE
  <2>14. CASE ~t.flagged
    <3>1. e.state = OUTPUT_CMP
      BY <2>4, <2>10, <2>14 DEF st, InToken
    <3>2. Writing(e, t, p.from[k], 0)
      <4>1. Len(Piece(t)) \in Nat \ {0} /\ t.count \in Nat
        BY <2>1, PieceIs
      <4> DEFINE size == Len(Piece(t))
      <4>2. 0 < size /\ 0 + 0 < t.count + 1 /\ p.from[k] = p.from[k] + (((0 + 0) * size) + 0)
        BY <2>1, <4>1
      <4> QED
        BY <2>4, <2>10, <4>2 DEF Writing
    <3>3. CmpIn(p, e, b + e.input_index, k)
      BY <2>1, <2>4, <2>6, <2>8, <2>10, <2>12, <2>14, <3>2 DEF CmpIn, t
    <3>4. AtCmp(p, e, b + e.input_index)
      BY <2>11, <3>3 DEF AtCmp
    <3> QED
      BY <1>3, <2>8, <2>10, <2>12, <3>1, <3>4
         DEF Midway, Place, GET_IDENTIFIER, GET_ORIGINAL_SIZE, GET_COMPRESS_SIZE, GET_FLAG,
             GET_VARIABLE, GET_REPEAT, OUTPUT_CMP, OUTPUT_NONE, OUTPUT_NONE_REPEAT, ERROR_STATE
  <2> QED
    BY <2>13, <2>14
<1> QED
  BY <1>6, <1>7

(* The count.                                                               *)
LEMMA RepeatTurn ==
  ASSUME NEW p, NEW b, NEW s, Turning(p, b, s), get_repeat
  PROVE  Call(p, b, s, engine', running', input', output', room')
<1> DEFINE e == get_variable_u64(TRUE)
           c == b + engine.input_index
           st == IF engine.flag = NONE THEN OUTPUT_NONE_REPEAT ELSE OUTPUT_CMP
           asserts == NumberFits /\ (e.need_more_input \/ Number > 0)
           f == IF e.need_more_input THEN e
                ELSE [e EXCEPT !.repeat_size = Number, !.state = st]
<1>1. Turn(GET_REPEAT, asserts, f, output)
  BY DEF get_repeat
<1>2. engine.state = GET_REPEAT
  BY <1>1 DEF Turn
<1>3. /\ Script(p) /\ b \in Nat /\ engine \in Engine /\ engine.status = GOOD
      /\ engine.input_index \in Nat /\ engine.input_index <= Len(input) /\ Len(input) \in Nat
      /\ engine.total_input \in Nat
      /\ Feed(p, input, b) /\ AtRepeat(p, engine, c) /\ ~engine.done
  BY <1>2, TurningIs DEF Place
<1> SUFFICES ASSUME asserts
             PROVE  /\ f \in Engine /\ f.status = GOOD /\ f.total_output = engine.total_output
                    /\ Midway(p, f, input, b)
  BY <1>1, ReadingKeeps
<1>4. ~engine.need_more_input
  BY DEF NumberFits
<1>5. PICK k \in 1 .. Count(p) : RepeatIn(p, engine, c, k)
  BY <1>3 DEF AtRepeat
<1> DEFINE t == p.tokens[k]
           w == CountBytes(t)
           z == DataEnd(p, k)
           v == t.count
<1>6. /\ WellFormed(t) /\ z \in Nat /\ p.from[k] \in Nat /\ v \in Nat
      /\ Lies(p, w, z) /\ p.start[k + 1] = z + Len(w)
      /\ t.flagged => IsNumber(w, v) /\ v > 0
  BY <1>3, TokenParts
<1>7. /\ InToken(engine, t) /\ t.flagged /\ Reading(engine, b + engine.input_index, w, z)
      /\ engine.total_output = p.from[k] + (IF t.pattern = NONE THEN t.length ELSE 0)
      /\ engine.flag_index = 0 /\ engine.repeat_index = 0
      /\ IF t.pattern = NONE THEN engine.none_data = t.data ELSE engine.variable = t.data
  BY <1>5 DEF RepeatIn
<1> HIDE DEF asserts, w, v, z
<1>8. /\ e \in Engine /\ SameBut(e, engine) /\ NumberRead \in Nat
      /\ e.input_index = engine.input_index + NumberRead
      /\ e.total_input = engine.total_input + (IF TRUE THEN NumberRead ELSE 0)
      /\ e.input_index <= Len(input)
      /\ e.need_more_input => /\ e.input_index = Len(input)
                              /\ Reading(e, b + e.input_index, w, z)
      /\ ~e.need_more_input => /\ e.variable_u64 = <<>>
                               /\ b + e.input_index = z + Len(w)
                               /\ Number = v
  <2>1. /\ IsNumber(w, v) /\ Lies(p, w, z) /\ z \in Nat /\ TRUE \in BOOLEAN
        /\ Reading(engine, b + engine.input_index, w, z)
    BY <1>6, <1>7
  <2> QED
    BY <1>4, <2>1, NumberEngine
<1> HIDE DEF e
<1>9. Sized(p, e, b + e.input_index)
  <2> DEFINE x == engine.input_index
             n == NumberRead
             y == engine.total_input
             h == p.start[1]
  <2>1. x \in Nat /\ n \in Nat /\ y \in Nat /\ h \in Nat /\ b \in Nat
        /\ e.input_index = x + n /\ e.total_input = y + n /\ y + h = b + x
    <3>1. 1 \in 1 .. Count(p) + 1
      BY <1>3 DEF Script
    <3>2. h \in Nat
      BY <1>3, <3>1, Starts
    <3> QED
      BY <1>3, <1>8, <3>2 DEF AtRepeat, Sized
  <2> HIDE DEF x, n, y, h
  <2>2. e.total_input + h = b + e.input_index
    BY <2>1
  <2> QED
    BY <1>3, <1>8, <2>2 DEF AtRepeat, Sized, SameBut, h
<1>10. /\ e.status = GOOD /\ e.state = GET_REPEAT /\ e.total_output = engine.total_output
       /\ ~e.done
  BY <1>2, <1>3, <1>8 DEF SameBut
<1>11. CASE e.need_more_input
  <2>1. f = e
    BY <1>11
  <2> HIDE DEF f
  <2>2. Reading(e, b + e.input_index, CountBytes(t), DataEnd(p, k)) /\ InToken(e, t)
    BY <1>7, <1>8, <1>11 DEF w, z, InToken, SameBut
  <2>3. RepeatIn(p, e, b + e.input_index, k)
    BY <1>7, <1>8, <2>2 DEF RepeatIn, SameBut
  <2>4. AtRepeat(p, e, b + e.input_index)
    BY <1>9, <2>3 DEF AtRepeat
  <2> QED
    BY <1>3, <1>8, <1>10, <1>11, <2>1, <2>4
       DEF Midway, Place, GET_IDENTIFIER, GET_ORIGINAL_SIZE, GET_COMPRESS_SIZE, GET_FLAG,
           GET_VARIABLE, GET_REPEAT, OUTPUT_CMP, OUTPUT_NONE, OUTPUT_NONE_REPEAT, ERROR_STATE
<1>12. CASE ~e.need_more_input
  <2>1. Number = v /\ b + e.input_index = p.start[k + 1] /\ e.variable_u64 = <<>>
    BY <1>6, <1>8, <1>12
  <2>2. st \in {OUTPUT_NONE_REPEAT, OUTPUT_CMP}
    OBVIOUS
  <2>3. f = [e EXCEPT !.repeat_size = v, !.state = st]
    BY <1>12, <2>1
  <2> HIDE DEF f, st, t
  <2>4. /\ f \in Engine /\ f.status = e.status /\ f.total_output = e.total_output
        /\ f.total_input = e.total_input /\ f.input_index = e.input_index
        /\ f.variable_u64 = e.variable_u64 /\ f.need_more_input = e.need_more_input
        /\ f.done = e.done /\ f.state = st /\ f.original_size = e.original_size
        /\ f.compress_size = e.compress_size /\ f.flag = e.flag /\ f.flag_repeat = e.flag_repeat
        /\ f.flag_size = e.flag_size /\ f.flag_index = e.flag_index
        /\ f.repeat_index = e.repeat_index /\ f.repeat_size = v
        /\ f.variable = e.variable /\ f.none_data = e.none_data
    BY <1>6, <1>8, <2>2, <2>3 DEF Engine
  <2>5. Sized(p, f, b + f.input_index)
    BY <1>9, <2>4 DEF Sized
  <2>6. /\ InToken(f, t) /\ f.flag_index = 0 /\ f.repeat_index = 0 /\ f.variable_u64 = <<>>
        /\ b + f.input_index = p.start[k + 1] /\ f.repeat_size = t.count /\ t.count > 0
        /\ f.total_output = p.from[k] + (IF t.pattern = NONE THEN t.length ELSE 0)
        /\ IF t.pattern = NONE THEN f.none_data = t.data ELSE f.variable = t.data
        /\ ~f.need_more_input /\ ~f.done /\ f.status = GOOD
    BY <1>3, <1>6, <1>7, <1>8, <1>10, <1>12, <2>1, <2>4 DEF InToken, SameBut, v
  <2>7. Len(Piece(t)) \in Nat \ {0} /\ t.count \in Nat /\ (t.pattern = NONE => Len(Piece(t)) = t.length)
    BY <1>6, PieceIs DEF v
  <2> DEFINE size == Len(Piece(t))
             from == p.from[k]
             count == t.count
  <2>8. size \in Nat \ {0} /\ from \in Nat /\ count \in Nat /\ count > 0
    BY <1>6, <2>6, <2>7
  <2> HIDE DEF size, from, count
  <2>9. /\ 0 < size /\ 0 + 0 < count + 1 /\ from = from + (((0 + 0) * size) + 0)
        /\ 0 + 1 < count + 1 /\ from + size = from + (((0 + 1) * size) + 0)
    BY <2>8
  <2>10. CASE t.pattern = NONE
    <3>1. f.state = OUTPUT_NONE_REPEAT
      BY <1>7, <2>4, <2>10 DEF st, InToken
    <3>2. f.total_output = from + size
      BY <2>6, <2>7, <2>10 DEF from, size
    <3>3. Writing(f, t, p.from[k], 1)
      BY <2>6, <2>9, <3>2 DEF Writing, from, size, count
    <3>4. NoneRepeatIn(p, f, b + f.input_index, k)
      BY <1>7, <2>6, <2>10, <3>3 DEF NoneRepeatIn, t
    <3>5. AtNoneRepeat(p, f, b + f.input_index)
      BY <2>5, <3>4 DEF AtNoneRepeat
    <3>6. f.input_index <= Len(input)
      BY <1>8, <2>4
    <3> QED
      BY <1>3, <2>4, <1>10, <2>6, <3>1, <3>5, <3>6
         DEF Midway, Place, GET_IDENTIFIER, GET_ORIGINAL_SIZE, GET_COMPRESS_SIZE, GET_FLAG,
             GET_VARIABLE, GET_REPEAT, OUTPUT_CMP, OUTPUT_NONE, OUTPUT_NONE_REPEAT, ERROR_STATE
  <2>11. CASE t.pattern # NONE
    <3>1. f.state = OUTPUT_CMP
      BY <1>7, <2>4, <2>11 DEF st, InToken
    <3>2. f.total_output = from
      BY <2>6, <2>8, <2>11 DEF from
    <3>3. Writing(f, t, p.from[k], 0)
      BY <2>6, <2>9, <3>2 DEF Writing, from, size, count
    <3>4. CmpIn(p, f, b + f.input_index, k)
      BY <1>7, <2>6, <2>11, <3>3 DEF CmpIn, t
    <3>5. AtCmp(p, f, b + f.input_index)
      BY <2>5, <3>4 DEF AtCmp
    <3>6. f.input_index <= Len(input)
      BY <1>8, <2>4
    <3> QED
      BY <1>3, <2>4, <1>10, <2>6, <3>1, <3>5, <3>6
         DEF Midway, Place, GET_IDENTIFIER, GET_ORIGINAL_SIZE, GET_COMPRESS_SIZE, GET_FLAG,
             GET_VARIABLE, GET_REPEAT, OUTPUT_CMP, OUTPUT_NONE, OUTPUT_NONE_REPEAT, ERROR_STATE
  <2> QED
    BY <2>10, <2>11
<1> QED
  BY <1>11, <1>12

-----------------------------------------------------------------------------
(* Writing.                                                                 *)

(* As many pieces as fit.                                                   *)
LEMMA Whole ==
  ASSUME NEW a \in Nat, NEW d \in Nat, NEW n \in Nat \ {0}, NEW m \in Nat, a * n + m <= d * n
  PROVE  /\ a <= d
         /\ a = d => m = 0
<1>1. a = d => m = 0
  <2>1. a * n \in Nat
    OBVIOUS
  <2> QED
    BY <2>1
<1>2. ASSUME ~(a <= d) PROVE FALSE
  <2>1. PICK x \in Nat : a = d + 1 + x
    <3>1. a - d - 1 \in Nat /\ a = d + 1 + (a - d - 1)
      BY <1>2
    <3> QED
      BY <3>1
  <2>2. (d + 1 + x) * n = d * n + n + x * n
    OBVIOUS
  <2>3. a * n = d * n + n + x * n
    BY <2>1, <2>2
  <2>4. x * n \in Nat /\ d * n \in Nat
    OBVIOUS
  <2> QED
    BY <2>3, <2>4
<1> QED
  BY <1>1, <1>2

(* Division with remainder has one result.                                  *)
LEMMA DivideIs ==
  ASSUME NEW k \in Nat, NEW n \in Nat \ {0}, NEW d \in Nat, NEW m \in 0 .. n - 1, k = d * n + m
  PROVE  k \div n = d /\ k % n = m
<1> DEFINE a == k \div n
           r == k % n
<1>1. a \in Nat /\ r \in 0 .. n - 1 /\ k = a * n + r
  BY Divide
<1> HIDE DEF a, r
<1>2. ASSUME NEW x \in Nat, NEW y \in Nat, NEW v \in 0 .. n - 1, NEW w \in 0 .. n - 1,
             x * n + v = y * n + w
      PROVE  x <= y
  <2>1. SUFFICES ASSUME ~(x <= y) PROVE FALSE
    OBVIOUS
  <2>2. PICK z \in Nat : x = y + 1 + z
    <3>1. x - y - 1 \in Nat /\ x = y + 1 + (x - y - 1)
      BY <2>1
    <3> QED
      BY <3>1
  <2>3. (y + 1 + z) * n = y * n + n + z * n
    OBVIOUS
  <2>4. z * n \in Nat /\ y * n \in Nat
    OBVIOUS
  <2>5. x * n = y * n + n + z * n
    BY <2>2, <2>3
  <2> QED
    BY <1>2, <2>4, <2>5
<1>3. a * n + r = d * n + m
  BY <1>1
<1>4. a <= d
  BY <1>1, <1>2, <1>3
<1>5. d <= a
  BY <1>1, <1>2, <1>3
<1>6. a = d
  BY <1>1, <1>4, <1>5
<1>7. d * n \in Nat
  OBVIOUS
<1>8. r = m
  BY <1>1, <1>3, <1>6, <1>7
<1> QED
  BY <1>6, <1>8 DEF a, r

(* Whole pieces before a byte do not tell in where it is in its own.        *)
LEMMA InPiece ==
  ASSUME NEW a \in Nat, NEW y \in Nat, NEW n \in Nat \ {0}
  PROVE  (a * n + y) % n = y % n
<1> DEFINE d == y \div n
           m == y % n
<1>1. d \in Nat /\ m \in 0 .. n - 1 /\ y = d * n + m
  BY Divide
<1> HIDE DEF d, m
<1>2. (a + d) * n = a * n + d * n /\ a * n \in Nat /\ d * n \in Nat
  BY <1>1
<1>3. a * n + y = (a + d) * n + m
  BY <1>1, <1>2
<1>4. a * n + y \in Nat /\ a + d \in Nat
  BY <1>1, <1>2
<1> DEFINE k == a * n + y
<1>5. k \in Nat /\ k = (a + d) * n + m
  BY <1>3, <1>4
<1> HIDE DEF k
<1>6. k % n = m
  BY <1>1, <1>4, <1>5, DivideIs
<1> QED
  BY <1>6 DEF k, m

(* One turn of writing a piece of n bytes: l bytes from byte i of the piece, *)
(* which was written r times before, to the end of the last of count times  *)
(* or of the room R.                                                        *)
Writes(n, count, r, i, R, l) ==
  /\ n \in Nat \ {0} /\ count \in Nat /\ r \in Nat /\ r < count
  /\ i \in Nat /\ i < n /\ R \in Nat /\ R > 0
  /\ l = Min({R, ((count - r) * n) - i})

(* What a turn writes continues what the token stands for.                  *)
LEMMA WriteOn ==
  ASSUME NEW n, NEW count, NEW r, NEW i, NEW R, NEW l, Writes(n, count, r, i, R, l)
  PROVE  /\ l \in Nat /\ l > 0 /\ l <= R
         /\ (i + l) % n \in 0 .. n - 1
         /\ r + ((i + l) \div n) \in Nat
         /\ r + ((i + l) \div n) <= count
         /\ r + ((i + l) \div n) = count => (i + l) % n = 0
         /\ (r * n + i) + l = (r + ((i + l) \div n)) * n + ((i + l) % n)
         /\ (r * n + i) + l <= count * n
<1>0. /\ n \in Nat \ {0} /\ count \in Nat /\ r \in Nat /\ r < count
      /\ i \in Nat /\ i < n /\ R \in Nat /\ R > 0
      /\ l = Min({R, ((count - r) * n) - i})
  BY DEF Writes
<1> USE <1>0
<1>1. PICK d \in Nat \ {0} : count = r + d /\ count - r = d
  <2>1. count - r \in Nat \ {0} /\ count = r + (count - r)
    OBVIOUS
  <2> QED
    BY <2>1
<1>2. PICK z \in Nat : d = z + 1
  <2>1. d - 1 \in Nat /\ d = (d - 1) + 1
    OBVIOUS
  <2> QED
    BY <2>1
<1>3. d * n = z * n + n /\ z * n \in Nat
  BY <1>2
<1> DEFINE D == d * n
<1>4. D \in Nat /\ i < D
  BY <1>3
<1>5. l = Min({R, D - i})
  BY <1>1
<1> HIDE DEF D
<1>6. l = IF R <= D - i THEN R ELSE D - i
  BY <1>4, <1>5, MinOfTwo
<1>7. l \in Nat /\ l > 0 /\ l <= R /\ i + l <= D /\ i + l \in Nat
  BY <1>4, <1>6
<1> DEFINE a == (i + l) \div n
           m == (i + l) % n
<1>8. a \in Nat /\ m \in 0 .. n - 1 /\ i + l = a * n + m
  BY <1>7, Divide
<1> HIDE DEF a, m
<1>9. a * n + m <= d * n /\ m \in Nat
  BY <1>7, <1>8 DEF D
<1>10. a <= d /\ (a = d => m = 0)
  BY <1>8, <1>9, Whole
<1>11. r + a \in Nat /\ r + a <= count /\ (r + a = count => m = 0)
  BY <1>1, <1>8, <1>10
<1>12. (r + a) * n = r * n + a * n /\ (r + d) * n = r * n + d * n
       /\ r * n \in Nat /\ a * n \in Nat /\ d * n \in Nat
  BY <1>8
<1>13. (r * n + i) + l = (r + a) * n + m
  BY <1>7, <1>8, <1>12
<1>14. (r * n + i) + l <= count * n
  BY <1>1, <1>7, <1>12 DEF D
<1> QED
  BY <1>7, <1>8, <1>11, <1>13, <1>14 DEF a, m

(* Every token has a next one or is the last.                               *)
LEMMA NextToken ==
  ASSUME NEW p, Script(p), NEW k \in 1 .. Count(p)
  PROVE  k + 1 \in 1 .. Count(p) + 1 /\ k \in Nat
<1>1. Count(p) \in Nat \ {0}
  BY DEF Script
<1> QED
  BY <1>1

(* The data is made of what the tokens stand for.                           *)
LEMMA OriginalIs ==
  ASSUME NEW p, Script(p)
  PROVE  p.original \in Seq(Byte) /\ Len(p.original) \in Nat
<1>1. p.original \in Seq(Byte)
  BY DEF Script
<1> QED
  BY <1>1

(* The data of token k: its piece, over and over.                           *)
LEMMA DataOfToken ==
  ASSUME NEW p, Script(p), NEW k \in 1 .. Count(p)
  PROVE  LET t == p.tokens[k]
             n == Len(Piece(t))
         IN  /\ Piece(t) \in Seq(Byte) /\ n \in Nat \ {0} /\ t.count \in Nat
             /\ p.from[k] \in Nat /\ p.from[k + 1] = p.from[k] + (t.count + 1) * n
             /\ p.from[k + 1] <= Len(p.original)
             /\ Expand(t) \in Seq(Byte) /\ Len(Expand(t)) = (t.count + 1) * n
             /\ \A a, y \in Nat :
                  a * n + y < (t.count + 1) * n =>
                    p.original[p.from[k] + (a * n + y) + 1] = Piece(t)[(y % n) + 1]
<1> DEFINE t == p.tokens[k]
           n == Len(Piece(t))
           piece == Piece(t)
           m == t.count + 1
<1>1. WellFormed(t) /\ p.from[k] \in Nat /\ t.count \in Nat
  BY TokenParts
<1>2. piece \in Seq(Byte) /\ n \in Nat \ {0}
  BY <1>1, PieceIs
<1>3. /\ p.from[k + 1] = p.from[k] + Len(Expand(t))
      /\ \A i \in 1 .. Len(Expand(t)) : p.original[p.from[k] + i] = Expand(t)[i]
  <2> HIDE DEF t
  <2>1. TokenLies(p, k)
    BY DEF Script
  <2>2. /\ p.from[k + 1] = p.from[k] + Len(Expand(p.tokens[k]))
        /\ \A i \in 1 .. Len(Expand(p.tokens[k])) : p.original[p.from[k] + i] = Expand(p.tokens[k])[i]
    BY <2>1 DEF TokenLies
  <2> QED
    BY <2>2 DEF t
<1>4. k + 1 \in 1 .. Count(p) + 1
  BY NextToken
<1>5. p.from[k + 1] <= Len(p.original)
  BY <1>4, Starts
<1>6. Expand(t) = [i \in 1 .. n * m |-> piece[((i - 1) % n) + 1]]
  BY DEF Expand
<1>7. m \in Nat /\ n * m = m * n /\ n * m \in Nat
  <2>1. m \in Nat
    BY <1>1
  <2> HIDE DEF m, n
  <2> QED
    BY <1>2, <2>1
<1> DEFINE x == Expand(t)
           l == n * m
<1>8. /\ l \in Nat /\ x = [i \in 1 .. l |-> piece[((i - 1) % n) + 1]] /\ n = Len(piece)
  BY <1>6, <1>7
<1> HIDE DEF t, n, piece, m, x, l
<1>9. \A i \in 1 .. l : ((i - 1) % n) + 1 \in 1 .. n
  BY <1>2, <1>8
<1>10. x \in Seq(Byte) /\ Len(x) = l /\ \A i \in 1 .. l : x[i] = piece[((i - 1) % n) + 1]
  <2>1. \A i \in 1 .. l : piece[((i - 1) % n) + 1] \in Byte
    BY <1>2, <1>8, <1>9
  <2> QED
    BY <1>8, <2>1
<1>11. ASSUME NEW a \in Nat, NEW y \in Nat, a * n + y < m * n
       PROVE  p.original[p.from[k] + (a * n + y) + 1] = piece[(y % n) + 1]
  <2> DEFINE z == a * n + y
  <2>1. z \in Nat /\ z % n = y % n
    <3>1. a * n \in Nat
      BY <1>2
    <3>2. (a * n + y) % n = y % n
      BY <1>2, InPiece, Zenon
    <3>3. a * n + y \in Nat
      BY <3>1
    <3> QED
      BY <3>2, <3>3
  <2>2. z < l
    BY <1>7, <1>11 DEF l
  <2> HIDE DEF z
  <2>3. z + 1 \in 1 .. l /\ (z + 1) - 1 = z /\ p.from[k] + z + 1 = p.from[k] + (z + 1)
    <3> DEFINE g == p.from[k]
    <3>1. g \in Nat /\ l \in Nat /\ z \in Nat /\ z < l
      BY <1>1, <1>8, <2>1, <2>2
    <3> HIDE DEF g
    <3>2. z + 1 \in 1 .. l /\ (z + 1) - 1 = z /\ g + z + 1 = g + (z + 1)
      BY <3>1
    <3> QED
      BY <3>2 DEF g
  <2>4. p.original[p.from[k] + (z + 1)] = x[z + 1]
    BY <1>3, <1>10, <2>3 DEF x
  <2>5. x[z + 1] = piece[(z % n) + 1]
    BY <1>10, <2>3
  <2>6. p.original[p.from[k] + z + 1] = piece[(y % n) + 1]
    BY <2>1, <2>3, <2>4, <2>5
  <2> QED
    BY <2>6 DEF z
<1>12. Len(x) = m * n /\ p.from[k + 1] = p.from[k] + m * n
  BY <1>3, <1>7, <1>10 DEF l, x
<1> QED
  BY <1>1, <1>2, <1>5, <1>10, <1>11, <1>12 DEF t, n, piece, m, x

(* Complete data of a stream of the compressor is all of it.                 *)
LEMMA MoreToCome ==
  ASSUME NEW p, Script(p), NEW k \in 1 .. Count(p), p.exact, p.from[k + 1] # p.original_size
  PROVE  k + 1 # Count(p) + 1
BY DEF Script

(* Behind token k, with its last byte written.                              *)
LEMMA TokenEnds ==
  ASSUME NEW p, Script(p), NEW k \in 1 .. Count(p), NEW b \in Nat, NEW in,
         NEW f \in Engine, f.state = GET_FLAG, f.status = GOOD, Feed(p, in, b),
         f.input_index <= Len(in), f.need_more_input => f.input_index = Len(in),
         Sized(p, f, b + f.input_index), f.variable_u64 = <<>>,
         f.total_output = p.from[k + 1], b + f.input_index = p.start[k + 1],
         f.done = (f.total_output = f.original_size)
  PROVE  IF f.done THEN Complete(p, f, in, b) ELSE Midway(p, f, in, b)
<1>1. CASE f.done
  BY <1>1 DEF Complete
<1>2. CASE ~f.done
  <2>1. f.original_size = p.original_size
    BY DEF Sized
  <2>2. p.exact => k + 1 # Count(p) + 1
    BY <1>2, <2>1, MoreToCome
  <2>3. k + 1 \in 1 .. Count(p) + 1
    BY NextToken
  <2>4. Reading(f, b + f.input_index, NextFlag(p, k + 1), p.start[k + 1])
    <3>1. NextFlag(p, k + 1) \in Seq(Byte) /\ 0 < Len(NextFlag(p, k + 1))
      <4> DEFINE v == IF k + 1 = Count(p) + 1 THEN 0 ELSE FlagValue(p.tokens[k + 1])
      <4>1. IsNumber(NextFlag(p, k + 1), v)
        BY <2>3, NextFlagIs
      <4> QED
        BY <4>1 DEF IsNumber
    <3>2. f.variable_u64 = SubSeq(NextFlag(p, k + 1), 1, 0)
      BY <3>1
    <3>3. p.start[k + 1] = p.start[k + 1] + 0
      <4>1. p.start[k + 1] \in Nat
        BY <2>3, Starts
      <4> QED
        BY <4>1
    <3> QED
      BY <3>1, <3>2, <3>3 DEF Reading
  <2>5. AtFlag(p, f, b + f.input_index)
    BY <2>2, <2>3, <2>4 DEF AtFlag
  <2>6. Place(p, f, b + f.input_index)
    BY <2>5 DEF Place, GET_IDENTIFIER, GET_ORIGINAL_SIZE, GET_COMPRESS_SIZE, GET_FLAG,
           GET_VARIABLE, GET_REPEAT, OUTPUT_CMP, OUTPUT_NONE, OUTPUT_NONE_REPEAT, ERROR_STATE
  <2> QED
    BY <1>2, <2>6 DEF Midway, GET_FLAG, OUTPUT_CMP, OUTPUT_NONE_REPEAT
<1> QED
  BY <1>1, <1>2

(* Writing the piece of token k.                                            *)
LEMMA ProduceKeeps ==
  ASSUME NEW p, NEW b, NEW s, Turning(p, b, s), NEW k \in 1 .. Count(p), NEW q \in {0, 1},
         NEW count \in Nat, count + q = p.tokens[k].count + 1, NEW asserts,
         NEW st, st = IF q = 0 THEN OUTPUT_CMP ELSE OUTPUT_NONE_REPEAT,
         Sized(p, engine, b + engine.input_index),
         IF q = 0 THEN CmpIn(p, engine, b + engine.input_index, k)
                  ELSE NoneRepeatIn(p, engine, b + engine.input_index, k),
         Produce(st, Piece(p.tokens[k]), count, asserts)
  PROVE  Call(p, b, s, engine', running', input', output', room')
<1> DEFINE t == p.tokens[k]
           c == b + engine.input_index
           piece == Piece(t)
           n == Len(piece)
           r == engine.repeat_index
           i == engine.flag_index
           l == Min({Room, ((count - r) * n) - i})
           r1 == r + ((i + l) \div n)
           i1 == (i + l) % n
           total == engine.total_output + l
           last == r1 = count
           state == IF last THEN GET_FLAG ELSE engine.state
           done == last /\ total = engine.original_size
           x == [j \in 1 .. l |-> piece[((i + j - 1) % n) + 1]]
           out == output \o x
           from == p.from[k]
           e == [engine EXCEPT !.total_output = total, !.flag_index = i1, !.repeat_index = r1,
                               !.state = state, !.done = done]
           ok == asserts /\ total <= engine.original_size
<1>1. Turn(st, ok, e, out)
  BY DEF Produce
<1>2. engine.state = st
  BY <1>1 DEF Turn
<1>3. /\ Script(p) /\ b \in Nat /\ s \in Seq(Byte) /\ engine \in Engine /\ engine.status = GOOD
      /\ engine.input_index \in Nat /\ engine.input_index <= Len(input) /\ Len(input) \in Nat
      /\ engine.total_input \in Nat /\ engine.total_output \in Nat
      /\ output \in Seq(Byte) /\ room \in Nat /\ Len(output) < room
      /\ Feed(p, input, b) /\ ~engine.done
      /\ Begins(p, s \o output) /\ engine.total_output = Len(s \o output)
  BY TurningIs
<1>4. Midway(p, engine, input, b) /\ Call(p, b, s, engine, running, input, output, room)
  BY <1>3 DEF Turning, Call
<1>5. engine.need_more_input => engine.input_index = Len(input)
  BY <1>4 DEF Midway
<1>6. ~engine.need_more_input
  <2>1. engine.state \in {OUTPUT_CMP, OUTPUT_NONE_REPEAT}
    BY <1>2
  <2> QED
    BY <1>4, <2>1 DEF Midway
<1>7. /\ piece \in Seq(Byte) /\ n \in Nat \ {0} /\ t.count \in Nat
      /\ from \in Nat /\ p.from[k + 1] = from + (t.count + 1) * n
      /\ p.from[k + 1] <= Len(p.original)
      /\ \A a, y \in Nat : a * n + y < (t.count + 1) * n =>
            p.original[from + (a * n + y) + 1] = piece[(y % n) + 1]
  BY <1>3, DataOfToken
<1>8. /\ Writing(engine, t, from, q) /\ c = p.start[k + 1] /\ engine.variable_u64 = <<>>
  BY DEF CmpIn, NoneRepeatIn
<1>9. /\ i \in Nat /\ r \in Nat /\ i < n /\ r + q < t.count + 1
      /\ engine.total_output = from + (((r + q) * n) + i)
  BY <1>3, <1>8 DEF Writing, Engine
<1>10. count + q = t.count + 1
  OBVIOUS
<1>11. Len(p.original) \in Nat /\ p.original \in Seq(Byte)
  BY <1>3, OriginalIs
<1> DEFINE R == Room
           m == t.count + 1
<1>12. R \in Nat /\ R > 0 /\ Len(output) + R = room /\ Len(output) \in Nat
  BY <1>3 DEF Room
<1>13. m \in Nat /\ count + q = m /\ r + q < m
  <2> DEFINE g == t.count
  <2>1. g \in Nat /\ r + q < g + 1 /\ count + q = g + 1
    BY <1>7, <1>9, <1>10
  <2> HIDE DEF g, r
  <2>2. g + 1 \in Nat
    BY <2>1
  <2> QED
    BY <2>1, <2>2 DEF g
<1> HIDE DEF ok, e, out, x, state, done, R, m, t, c, piece, n, r, i, from
<1>14. r < count
  BY <1>9, <1>13
<1>15. /\ l \in Nat /\ l > 0 /\ l <= R /\ i1 \in 0 .. n - 1 /\ r1 \in Nat /\ r1 <= count
       /\ r1 = count => i1 = 0
       /\ (r * n + i) + l = r1 * n + i1
       /\ (r * n + i) + l <= count * n
  <2>1. l = Min({R, ((count - r) * n) - i})
    BY DEF R
  <2> HIDE DEF l
  <2>2. Writes(n, count, r, i, R, l)
    BY <1>7, <1>9, <1>12, <1>14, <2>1 DEF Writes
  <2>3. /\ l \in Nat /\ l > 0 /\ l <= R
        /\ (i + l) % n \in 0 .. n - 1
        /\ r + ((i + l) \div n) \in Nat
        /\ r + ((i + l) \div n) <= count
        /\ r + ((i + l) \div n) = count => (i + l) % n = 0
        /\ (r * n + i) + l = (r + ((i + l) \div n)) * n + ((i + l) % n)
        /\ (r * n + i) + l <= count * n
    BY <2>2, WriteOn, Zenon
  <2> QED
    BY <2>3
<1> HIDE DEF l, r1, i1
<1>16. /\ ((r + q) * n + i) + l = (r1 + q) * n + i1
       /\ ((r + q) * n + i) + l <= m * n
       /\ r1 = count => (r1 + q) * n + i1 = m * n
       /\ r1 # count => r1 + q < m
       /\ (r + q) * n \in Nat /\ m * n \in Nat
  <2>1. /\ (r + q) * n = r * n + q * n /\ (r1 + q) * n = r1 * n + q * n
        /\ (count + q) * n = count * n + q * n
        /\ r * n \in Nat /\ q * n \in Nat /\ r1 * n \in Nat /\ count * n \in Nat
    <3>1. n \in Nat /\ r \in Nat /\ r1 \in Nat
      BY <1>7, <1>9, <1>15
    <3>2. \A a, d, h \in Nat : (a + d) * h = a * h + d * h /\ a * h \in Nat
      OBVIOUS
    <3> QED
      BY <3>1, <3>2
  <2>2. m * n = count * n + q * n
    BY <1>13, <2>1
  <2>3. r1 = count => r1 * n = count * n
    OBVIOUS
  <2>4. r1 # count => r1 + q < m
    BY <1>13, <1>15
  <2>5. i \in Nat /\ i1 \in Nat /\ l \in Nat
    BY <1>7, <1>9, <1>15
  <2> DEFINE rn == r * n
             qn == q * n
             r1n == r1 * n
             cn == count * n
  <2>6. rn \in Nat /\ qn \in Nat /\ r1n \in Nat /\ cn \in Nat
        /\ (rn + i) + l = r1n + i1 /\ (rn + i) + l <= cn
        /\ (r1 = count => i1 = 0 /\ r1n = cn)
    BY <1>15, <2>1, <2>3
  <2> HIDE DEF rn, qn, r1n, cn
  <2>7. /\ ((rn + qn) + i) + l = (r1n + qn) + i1
        /\ ((rn + qn) + i) + l <= cn + qn
        /\ r1 = count => (r1n + qn) + i1 = cn + qn
        /\ rn + qn \in Nat /\ cn + qn \in Nat
    BY <2>5, <2>6
  <2> QED
    BY <2>1, <2>2, <2>4, <2>7 DEF rn, qn, r1n, cn
<1>17. /\ total \in Nat /\ total = from + ((r1 + q) * n + i1)
       /\ total <= from + m * n
       /\ r1 = count => total = from + m * n
  <2> DEFINE g == (r + q) * n
             h == m * n
             g1 == (r1 + q) * n
  <2>1. /\ g \in Nat /\ h \in Nat /\ (g + i) + l = g1 + i1 /\ (g + i) + l <= h
        /\ r1 = count => g1 + i1 = h
        /\ engine.total_output = from + (g + i)
        /\ from \in Nat /\ i \in Nat /\ l \in Nat
    BY <1>7, <1>9, <1>15, <1>16
  <2> HIDE DEF g, h, g1
  <2>2. /\ total \in Nat /\ total = from + (g1 + i1) /\ total <= from + h
        /\ r1 = count => total = from + h
    BY <2>1
  <2> QED
    BY <2>2 DEF g, h, g1
<1>18. p.from[k + 1] = from + m * n
  BY <1>7 DEF m
<1>19. x \in Seq(Byte) /\ Len(x) = l /\ \A j \in 1 .. l : x[j] = piece[((i + j - 1) % n) + 1]
  <2>1. \A j \in 1 .. l : ((i + j - 1) % n) + 1 \in 1 .. n
    <3>1. ASSUME NEW j \in 1 .. l
          PROVE  ((i + j - 1) % n) + 1 \in 1 .. n
      <4>1. i + j - 1 \in Nat
        BY <1>9, <1>15
      <4> HIDE DEF l
      <4>2. (i + j - 1) % n \in 0 .. n - 1
        BY <1>7, <4>1, Divide
      <4> QED
        BY <1>7, <4>2
    <3> QED
      BY <3>1
  <2>2. \A j \in 1 .. l : piece[((i + j - 1) % n) + 1] \in Byte
    BY <1>7, <2>1 DEF n
  <2> QED
    BY <1>15, <2>2 DEF x
<1>20. ASSUME NEW j \in 1 .. Len(x)
       PROVE  p.original[Len(s \o output) + j] = x[j]
  <2> DEFINE a == r + q
             y == i + j - 1
             g == a * n
  <2>1. a \in Nat /\ y \in Nat /\ j \in 1 .. l
    BY <1>9, <1>15, <1>19
  <2>2. g \in Nat /\ (g + i) + l <= m * n /\ m * n \in Nat
    BY <1>16
  <2>3. g + y < m * n
    <3> DEFINE h == m * n
    <3>1. g \in Nat /\ (g + i) + l <= h /\ h \in Nat /\ i \in Nat /\ l \in Nat /\ j \in 1 .. l
      BY <1>9, <1>15, <2>1, <2>2
    <3> HIDE DEF g, h
    <3>2. g + (i + j - 1) < h
      BY <3>1
    <3> QED
      BY <3>2 DEF h
  <2>4. p.original[from + (a * n + y) + 1] = piece[(y % n) + 1]
    <3>1. a * n + y < m * n
      BY <2>3
    <3> HIDE DEF a, y
    <3> QED
      BY <1>7, <2>1, <3>1 DEF m
  <2>5. Len(s \o output) + j = from + (a * n + y) + 1
    <3>1. Len(s \o output) = from + (g + i) /\ from \in Nat /\ g \in Nat /\ i \in Nat /\ j \in Nat
      BY <1>3, <1>7, <1>9, <2>1, <2>2
    <3> DEFINE d == Len(s \o output)
    <3>2. d = from + (g + i)
      BY <3>1
    <3> HIDE DEF g, d
    <3>3. d + j = from + (g + (i + j - 1)) + 1
      BY <3>1, <3>2
    <3> QED
      BY <3>3 DEF g, d
  <2> HIDE DEF a
  <2> QED
    BY <1>19, <2>1, <2>4, <2>5
<1>21. Len(s \o output) + Len(x) = total
  BY <1>3, <1>19
<1>22. /\ Begins(p, s \o out) /\ total = Len(s \o out)
  <2>1. Len(s \o output) + Len(x) <= Len(p.original)
    BY <1>7, <1>11, <1>17, <1>18, <1>21
  <2>2. /\ Begins(p, s \o (output \o x))
        /\ Len(s \o (output \o x)) = Len(s \o output) + Len(x)
    BY <1>3, <1>11, <1>19, <1>20, <2>1, Extends
  <2> QED
    BY <1>21, <2>2 DEF out
<1>23. out \in Seq(Byte) /\ Len(out) <= room
  <2>1. out \in Seq(Byte) /\ Len(out) = Len(output) + l
    BY <1>3, <1>19, Joined DEF out
  <2> QED
    BY <1>12, <1>15, <2>1
<1>24. state \in {GET_FLAG, OUTPUT_CMP, OUTPUT_NONE_REPEAT} /\ done \in BOOLEAN /\ i1 \in Nat
  BY <1>2, <1>7, <1>15 DEF state, done
<1> HIDE DEF total
<1>25. /\ e \in Engine /\ e.status = engine.status /\ e.total_output = total
       /\ e.total_input = engine.total_input /\ e.input_index = engine.input_index
       /\ e.flag_index = i1 /\ e.repeat_index = r1 /\ e.state = state /\ e.done = done
       /\ e.need_more_input = engine.need_more_input /\ e.variable_u64 = engine.variable_u64
       /\ e.original_size = engine.original_size /\ e.compress_size = engine.compress_size
       /\ e.flag = engine.flag /\ e.flag_repeat = engine.flag_repeat
       /\ e.flag_size = engine.flag_size /\ e.repeat_size = engine.repeat_size
       /\ e.variable = engine.variable /\ e.none_data = engine.none_data
  <2>1. e = [engine EXCEPT !.total_output = total, !.flag_index = i1, !.repeat_index = r1,
                           !.state = state, !.done = done]
    BY DEF e
  <2> QED
    BY <1>3, <1>15, <1>17, <1>24, <2>1 DEF Engine
<1>26. Sized(p, e, b + e.input_index)
  BY <1>25 DEF Sized
<1>27. b + e.input_index = p.start[k + 1]
  BY <1>8, <1>25 DEF c
<1>28. IF e.done THEN Complete(p, e, input, b) ELSE Midway(p, e, input, b)
  <2>1. CASE r1 = count
    <3>1. e.state = GET_FLAG /\ e.done = (e.total_output = e.original_size)
      BY <1>25, <2>1 DEF state, done
    <3>2. e.total_output = p.from[k + 1]
      BY <1>17, <1>18, <1>25, <2>1
    <3>3. /\ e.status = GOOD /\ e.input_index <= Len(input) /\ e.variable_u64 = <<>>
          /\ e.need_more_input => e.input_index = Len(input)
      BY <1>3, <1>5, <1>8, <1>25
    <3> QED
      BY <1>3, <1>25, <1>26, <1>27, <3>1, <3>2, <3>3, TokenEnds
  <2>2. CASE r1 # count
    <3>1. e.state = st /\ ~e.done
      BY <1>2, <1>25, <2>2 DEF state, done
    <3>2. Writing(e, t, from, q)
      <4>1. i1 < n /\ r1 + q < m /\ total = from + ((r1 + q) * n + i1)
        <5>1. i1 < n
          BY <1>7, <1>15
        <5> QED
          BY <1>16, <1>17, <2>2, <5>1
      <4> QED
        BY <1>25, <4>1 DEF Writing, m, n, piece
    <3>3. Place(p, e, b + e.input_index)
      <4>1. CASE q = 0
        <5>1. CmpIn(p, e, b + e.input_index, k)
          BY <1>8, <1>25, <3>2, <4>1 DEF CmpIn, InToken, t, c, from
        <5>2. AtCmp(p, e, b + e.input_index)
          BY <1>26, <5>1 DEF AtCmp
        <5> QED
          BY <3>1, <4>1, <5>2
             DEF Place, GET_IDENTIFIER, GET_ORIGINAL_SIZE, GET_COMPRESS_SIZE, GET_FLAG,
                 GET_VARIABLE, GET_REPEAT, OUTPUT_CMP, OUTPUT_NONE, OUTPUT_NONE_REPEAT, ERROR_STATE
      <4>2. CASE q # 0
        <5>1. NoneRepeatIn(p, e, b + e.input_index, k)
          BY <1>8, <1>25, <3>2, <4>2 DEF NoneRepeatIn, InToken, t, c, from
        <5>2. AtNoneRepeat(p, e, b + e.input_index)
          BY <1>26, <5>1 DEF AtNoneRepeat
        <5> QED
          BY <3>1, <4>2, <5>2
             DEF Place, GET_IDENTIFIER, GET_ORIGINAL_SIZE, GET_COMPRESS_SIZE, GET_FLAG,
                 GET_VARIABLE, GET_REPEAT, OUTPUT_CMP, OUTPUT_NONE, OUTPUT_NONE_REPEAT, ERROR_STATE
      <4> QED
        BY <4>1, <4>2
    <3> QED
      BY <1>3, <1>6, <1>25, <3>1, <3>3 DEF Midway
  <2> QED
    BY <2>1, <2>2
<1>29. Outcome(p, e, input, b, s \o out)
  BY <1>3, <1>22, <1>25, <1>28 DEF Outcome
<1> QED
  BY <1>1, <1>3, <1>4, <1>23, <1>29, TurnKeeps

(* A run, with the byte before or behind it.                                *)
LEMMA CmpTurn ==
  ASSUME NEW p, NEW b, NEW s, Turning(p, b, s), output_cmp
  PROVE  Call(p, b, s, engine', running', input', output', room')
<1> DEFINE c == b + engine.input_index
           asserts == Room > 0 /\ engine.total_input <= engine.compress_size
           rec == [pattern |-> engine.flag, length |-> engine.flag_size, data |-> engine.variable]
           count == IF engine.flag_repeat THEN engine.repeat_size + 1 ELSE 1
<1>1. Produce(OUTPUT_CMP, Piece(rec), count, asserts)
  BY DEF output_cmp
<1>2. engine.state = OUTPUT_CMP
  BY <1>1 DEF Produce, Turn
<1>3. Script(p) /\ AtCmp(p, engine, c)
  BY <1>2, TurningIs DEF Place
<1>4. PICK k \in 1 .. Count(p) : CmpIn(p, engine, c, k)
  BY <1>3 DEF AtCmp
<1>5. Sized(p, engine, c)
  BY <1>3 DEF AtCmp
<1> DEFINE t == p.tokens[k]
<1>6. WellFormed(t) /\ t.count \in Nat
  BY <1>3, TokenParts
<1>7. /\ engine.flag = t.pattern /\ engine.flag_repeat = t.flagged /\ engine.flag_size = t.length
      /\ t.pattern # NONE /\ (t.pattern \notin {ZERO, HIGH} => engine.variable = t.data)
      /\ (t.flagged => engine.repeat_size = t.count)
  BY <1>4 DEF CmpIn, InToken
<1> HIDE DEF t, asserts
<1>8. Piece(rec) = Piece(t)
  BY <1>6, <1>7, PieceIs
<1>9. count = t.count + 1
  <2>1. ~t.flagged => t.count = 0
    BY <1>6 DEF WellFormed
  <2> QED
    BY <1>7, <2>1
<1> HIDE DEF rec, count
<1>10. Produce(OUTPUT_CMP, Piece(p.tokens[k]), count, asserts)
  BY <1>1, <1>8 DEF t
<1>11. /\ count \in Nat /\ count + 0 = p.tokens[k].count + 1 /\ 0 \in {0, 1}
       /\ OUTPUT_CMP = IF 0 = 0 THEN OUTPUT_CMP ELSE OUTPUT_NONE_REPEAT
  BY <1>6, <1>9 DEF t
<1>12. /\ Sized(p, engine, b + engine.input_index)
       /\ IF 0 = 0 THEN CmpIn(p, engine, b + engine.input_index, k)
                   ELSE NoneRepeatIn(p, engine, b + engine.input_index, k)
  BY <1>4, <1>5
<1> QED
  BY <1>10, <1>11, <1>12, ProduceKeeps

(* A piece that is written again.                                           *)
LEMMA NoneRepeatTurn ==
  ASSUME NEW p, NEW b, NEW s, Turning(p, b, s), output_none_repeat
  PROVE  Call(p, b, s, engine', running', input', output', room')
<1> DEFINE c == b + engine.input_index
           asserts == /\ engine.repeat_index < engine.repeat_size
                      /\ engine.total_input <= engine.compress_size
           count == engine.repeat_size
<1>1. Produce(OUTPUT_NONE_REPEAT, engine.none_data, count, asserts)
  BY DEF output_none_repeat
<1>2. engine.state = OUTPUT_NONE_REPEAT
  BY <1>1 DEF Produce, Turn
<1>3. Script(p) /\ AtNoneRepeat(p, engine, c)
  BY <1>2, TurningIs DEF Place
<1>4. PICK k \in 1 .. Count(p) : NoneRepeatIn(p, engine, c, k)
  BY <1>3 DEF AtNoneRepeat
<1>5. Sized(p, engine, c)
  BY <1>3 DEF AtNoneRepeat
<1> DEFINE t == p.tokens[k]
<1>6. WellFormed(t) /\ t.count \in Nat
  BY <1>3, TokenParts
<1>7. t.pattern = NONE /\ engine.none_data = t.data /\ engine.repeat_size = t.count
  BY <1>4 DEF NoneRepeatIn
<1> HIDE DEF t, asserts
<1>8. engine.none_data = Piece(t)
  BY <1>6, <1>7, PieceIs
<1>9. count = t.count
  BY <1>7
<1> HIDE DEF count
<1>10. Produce(OUTPUT_NONE_REPEAT, Piece(p.tokens[k]), count, asserts)
  BY <1>1, <1>8 DEF t
<1>11. /\ count \in Nat /\ count + 1 = p.tokens[k].count + 1 /\ 1 \in {0, 1}
       /\ OUTPUT_NONE_REPEAT = IF 1 = 0 THEN OUTPUT_CMP ELSE OUTPUT_NONE_REPEAT
  BY <1>6, <1>9 DEF t
<1>12. /\ Sized(p, engine, b + engine.input_index)
       /\ IF 1 = 0 THEN CmpIn(p, engine, b + engine.input_index, k)
                   ELSE NoneRepeatIn(p, engine, b + engine.input_index, k)
  BY <1>4, <1>5
<1> QED
  BY <1>10, <1>11, <1>12, ProduceKeeps

(* Only a stream the compressor did not write leads to the error state.     *)
LEMMA ErrorTurn ==
  ASSUME NEW p, NEW b, NEW s, Turning(p, b, s), ErrorState
  PROVE  Call(p, b, s, engine', running', input', output', room')
<1> DEFINE e == [engine EXCEPT !.status = ERROR]
<1>1. Turn(ERROR_STATE, TRUE, e, output)
  BY DEF ErrorState
<1>2. engine.state = ERROR_STATE /\ input' = input /\ room' = room
  BY <1>1 DEF Turn
<1>3. /\ engine \in Engine /\ engine.status = GOOD /\ input \in Seq(Byte) /\ output \in Seq(Byte)
      /\ room \in Nat /\ Len(output) < room /\ Begins(p, s \o output) /\ ~p.exact
      /\ engine.total_output = Len(s \o output)
  BY <1>2, TurningIs DEF Place
<1>4. Len(output) <= room
  BY <1>3
<1>5. CASE TurnAsserts
  <2>1. engine' = [e EXCEPT !.status = StatusAfter(e, output)] /\ output' = output
        /\ running' = ~Returns(e, output)
    BY <1>1, <1>5 DEF Turn
  <2>2. e \in Engine /\ e.status = ERROR
    BY <1>3 DEF Engine, ERROR
  <2>3. StatusAfter(e, output) = ERROR /\ ~running'
    BY <2>1, <2>2 DEF StatusAfter, Returns
  <2> HIDE DEF e
  <2>4. engine' \in Engine /\ engine'.status = ERROR
    BY <2>1, <2>2, <2>3 DEF Engine, ERROR
  <2> QED
    BY <1>2, <1>3, <1>4, <2>1, <2>3, <2>4 DEF Call, GOOD, NEED_INPUT, DONE, ERROR
<1>6. CASE ~TurnAsserts
  <2>1. engine' = [engine EXCEPT !.status = THROWN] /\ running' = FALSE /\ output' = output
    BY <1>1, <1>6 DEF Turn
  <2>2. engine' \in Engine /\ engine'.status = THROWN /\ engine'.total_output = engine.total_output
    BY <1>3, <2>1 DEF Engine, THROWN
  <2> QED
    BY <1>2, <1>3, <1>4, <2>1, <2>2 DEF Call, THROWN, GOOD, NEED_INPUT, DONE, ERROR
<1> QED
  BY <1>5, <1>6

(* The least of three numbers.                                              *)
LEMMA MinOfThree ==
  ASSUME NEW a \in Int, NEW b \in Int, NEW c \in Int
  PROVE  LET m == Min({a, b, c}) IN m \in {a, b, c} /\ m <= a /\ m <= b /\ m <= c
<1> DEFINE m == IF a <= b /\ a <= c THEN a ELSE IF b <= c THEN b ELSE c
<1>1. m \in {a, b, c} /\ \A y \in {a, b, c} : m <= y
  OBVIOUS
<1>2. \A x \in {a, b, c} : (\A y \in {a, b, c} : x <= y) => x = m
  OBVIOUS
<1> HIDE DEF m
<1>3. Min({a, b, c}) = m
  BY <1>1, <1>2 DEF Min
<1> QED
  BY <1>1, <1>3

(* Bytes that are copied.                                                   *)
LEMMA NoneTurn ==
  ASSUME NEW p, NEW b, NEW s, Turning(p, b, s), output_none
  PROVE  Call(p, b, s, engine', running', input', output', room')
<1> DEFINE c == b + engine.input_index
           n == Min({engine.flag_size - engine.flag_index, Unread, Room})
           last == engine.flag_index + n = engine.flag_size
           total == engine.total_output + n
           done == last /\ total = engine.original_size
           read == engine.input_index + n
           taken == engine.total_input + n
           index1 == IF last THEN 0 ELSE engine.flag_index + n
           none == IF ~engine.flag_repeat THEN engine.none_data
                   ELSE SubSeq(engine.none_data, 1, engine.flag_index) \o Read(n)
           state == IF ~last THEN engine.state
                    ELSE IF engine.flag_repeat THEN GET_REPEAT ELSE GET_FLAG
           more == (n = Unread)
           out == output \o Read(n)
           e == [engine EXCEPT !.input_index = read, !.total_input = taken,
                               !.total_output = total, !.flag_index = index1,
                               !.none_data = none, !.done = done, !.state = state,
                               !.need_more_input = more]
           ok == /\ engine.total_input < engine.compress_size
                 /\ total <= engine.original_size
                 /\ engine.total_input + n <= engine.compress_size
                 /\ ~(done /\ engine.flag_repeat)
<1>1. Turn(OUTPUT_NONE, ok, e, out)
  BY DEF output_none
<1>2. engine.state = OUTPUT_NONE
  BY <1>1 DEF Turn
<1>3. /\ Script(p) /\ b \in Nat /\ s \in Seq(Byte) /\ engine \in Engine /\ engine.status = GOOD
      /\ engine.input_index \in Nat /\ engine.input_index <= Len(input) /\ Len(input) \in Nat
      /\ engine.total_input \in Nat /\ engine.total_output \in Nat
      /\ output \in Seq(Byte) /\ room \in Nat /\ Len(output) < room
      /\ Feed(p, input, b) /\ ~engine.done
      /\ Begins(p, s \o output) /\ engine.total_output = Len(s \o output)
      /\ AtNone(p, engine, c)
  BY <1>2, TurningIs DEF Place
<1>4. Call(p, b, s, engine, running, input, output, room)
  BY DEF Turning
<1>5. PICK k \in 1 .. Count(p) : NoneIn(p, engine, c, k)
  BY <1>3 DEF AtNone
<1> DEFINE t == p.tokens[k]
           fi == engine.flag_index
           from == p.from[k]
           length == t.length
           z == FlagEnd(p, k)
           data == t.data
<1>6. /\ InToken(engine, t) /\ t.pattern = NONE /\ fi < length
      /\ c = z + fi /\ engine.total_output = from + fi /\ engine.repeat_index = 0
      /\ t.flagged => /\ fi <= Len(engine.none_data)
                      /\ \A i \in 1 .. fi : engine.none_data[i] = data[i]
      /\ engine.variable_u64 = <<>>
      /\ engine.flag_repeat = t.flagged /\ engine.flag_size = length
  BY <1>5 DEF NoneIn, InToken
<1>7. /\ WellFormed(t) /\ z \in Nat /\ DataEnd(p, k) = z + Len(data)
      /\ from \in Nat /\ Lies(p, data, z) /\ t.count \in Nat
      /\ ~t.flagged => p.start[k + 1] = DataEnd(p, k)
      /\ t.flagged => IsNumber(CountBytes(t), t.count)
      /\ DataEnd(p, k) \in Nat
  BY <1>3, TokenParts
<1>8. /\ Len(data) = length /\ length \in Nat /\ length > 0 /\ data \in Seq(Byte)
      /\ t.flagged \in BOOLEAN /\ (~t.flagged => t.count = 0)
  BY <1>6, <1>7 DEF WellFormed, Token
<1>9. fi \in Nat /\ engine.none_data \in Seq(Byte)
  BY <1>3 DEF Engine
<1>10. Piece(t) = data
  BY <1>6, <1>7, PieceIs
<1>11. /\ p.from[k + 1] = from + (t.count + 1) * length
       /\ p.from[k + 1] <= Len(p.original)
       /\ \A a, y \in Nat : a * length + y < (t.count + 1) * length =>
            p.original[from + (a * length + y) + 1] = data[(y % length) + 1]
  <2>1. LET h == Len(Piece(t))
        IN /\ p.from[k + 1] = from + (t.count + 1) * h
           /\ p.from[k + 1] <= Len(p.original)
           /\ \A a, y \in Nat : a * h + y < (t.count + 1) * h =>
                p.original[from + (a * h + y) + 1] = Piece(t)[(y % h) + 1]
    BY <1>3, DataOfToken
  <2> HIDE DEF t, from, data, length
  <2> QED
    BY <1>8, <1>10, <2>1
<1>12. Len(p.original) \in Nat /\ p.original \in Seq(Byte)
  BY <1>3, OriginalIs
<1> HIDE DEF c, last, total, done, read, taken, index1, none, state, more, out, e, ok,
             t, fi, from, length, z, data
<1>13. /\ Unread \in Nat /\ engine.input_index + Unread = Len(input)
       /\ \A j \in 0 .. Unread : /\ Read(j) \in Seq(Byte) /\ Len(Read(j)) = j
                                 /\ \A i \in 1 .. j : Read(j)[i] = BlockByte(p, c + i)
  BY <1>3, ReadIsFed DEF c
<1>14. Room \in Nat /\ Room > 0 /\ Len(output) + Room = room /\ Len(output) \in Nat
  BY <1>3 DEF Room
<1>15. n \in Nat /\ n <= Unread /\ n <= Room /\ fi + n <= length
  <2>1. n = Min({length - fi, Unread, Room})
    BY <1>6 DEF fi
  <2>2. length - fi \in Nat /\ length - fi \in Int /\ Unread \in Int /\ Room \in Int
    BY <1>6, <1>8, <1>9, <1>13, <1>14
  <2> HIDE DEF n
  <2>3. n \in {length - fi, Unread, Room} /\ n <= length - fi /\ n <= Unread /\ n <= Room
    BY <2>1, <2>2, MinOfThree
  <2>4. n \in Nat
    BY <1>13, <1>14, <2>2, <2>3
  <2> QED
    BY <1>8, <1>9, <2>3, <2>4
<1> HIDE DEF n
<1> DEFINE x == Read(n)
<1>16. x \in Seq(Byte) /\ Len(x) = n /\ \A i \in 1 .. n : x[i] = data[fi + i]
  <2>1. n \in 0 .. Unread
    BY <1>13, <1>15
  <2>2. x \in Seq(Byte) /\ Len(x) = n /\ \A i \in 1 .. n : x[i] = BlockByte(p, c + i)
    BY <1>13, <2>1
  <2>3. ASSUME NEW i \in 1 .. n
        PROVE  BlockByte(p, c + i) = data[fi + i]
    <3>1. fi + i \in 1 .. Len(data) /\ z + (fi + i) = c + i
      BY <1>6, <1>7, <1>8, <1>9, <1>15
    <3>2. BlockByte(p, z + (fi + i)) = data[fi + i]
      BY <1>7, <3>1 DEF Lies
    <3> QED
      BY <3>1, <3>2
  <2> QED
    BY <2>2, <2>3
<1> HIDE DEF x
<1>17. ASSUME NEW j \in 1 .. Len(x)
       PROVE  p.original[Len(s \o output) + j] = x[j]
  <2> DEFINE y == fi + j - 1
  <2>1. y \in Nat /\ y < length /\ y + 1 = fi + j /\ j \in 1 .. n
    BY <1>8, <1>9, <1>15, <1>16
  <2>2. Len(s \o output) + j = from + y + 1
    BY <1>3, <1>6, <1>7, <1>9, <2>1
  <2> HIDE DEF y
  <2>3. 0 * length + y < (t.count + 1) * length
    <3>1. (t.count + 1) * length = t.count * length + length /\ t.count * length \in Nat
      BY <1>7, <1>8
    <3>2. 0 * length = 0
      BY <1>8
    <3> QED
      BY <1>8, <2>1, <3>1, <3>2
  <2>4. p.original[from + (0 * length + y) + 1] = data[(y % length) + 1]
    <3>1. 0 \in Nat
      OBVIOUS
    <3> QED
      BY <1>11, <2>1, <2>3, <3>1, Zenon
  <2>5. 0 * length + y = y /\ y % length = y
    <3>1. y = 0 * length + y
      BY <1>8, <2>1
    <3>2. y \in 0 .. length - 1 /\ length \in Nat \ {0} /\ 0 \in Nat
      BY <1>8, <2>1
    <3>3. y % length = y
      BY <2>1, <3>1, <3>2, DivideIs
    <3> QED
      BY <3>1, <3>3
  <2> QED
    BY <1>16, <2>1, <2>2, <2>4, <2>5
<1>18. from + length <= Len(p.original) /\ (~t.flagged => p.from[k + 1] = from + length)
  <2>1. (t.count + 1) * length = t.count * length + length /\ t.count * length \in Nat
    BY <1>7, <1>8
  <2>2. t.count = 0 => t.count * length = 0
    BY <1>8
  <2>3. p.from[k + 1] = from + (t.count * length + length)
    BY <1>11, <2>1
  <2> DEFINE g == t.count * length
             h == p.from[k + 1]
  <2>4. g \in Nat /\ h = from + (g + length) /\ (t.count = 0 => g = 0) /\ h <= Len(p.original)
    BY <1>11, <2>1, <2>2, <2>3
  <2> HIDE DEF g, h
  <2>5. from + length <= Len(p.original) /\ (t.count = 0 => h = from + length)
    BY <1>7, <1>8, <1>12, <2>4
  <2> QED
    BY <1>8, <2>5 DEF h
<1>19. total \in Nat /\ total = from + (fi + n)
  BY <1>3, <1>6, <1>7, <1>9, <1>15 DEF total
<1>20. /\ Begins(p, s \o out) /\ total = Len(s \o out)
  <2>1. Len(s \o output) + Len(x) = total
    BY <1>3, <1>16 DEF total
  <2>2. Len(s \o output) + Len(x) <= Len(p.original)
    BY <1>7, <1>8, <1>9, <1>12, <1>15, <1>18, <1>19, <2>1
  <2>3. /\ Begins(p, s \o (output \o x))
        /\ Len(s \o (output \o x)) = Len(s \o output) + Len(x)
    BY <1>3, <1>12, <1>16, <1>17, <2>2, Extends
  <2> QED
    BY <2>1, <2>3 DEF out, x
<1>21. out \in Seq(Byte) /\ Len(out) <= room
  <2>1. out \in Seq(Byte) /\ Len(out) = Len(output) + n
    BY <1>3, <1>16, Joined DEF out, x
  <2> QED
    BY <1>14, <1>15, <2>1
<1>22. t.flagged => /\ none \in Seq(Byte) /\ Len(none) = fi + n
                    /\ none = SubSeq(data, 1, fi + n)
  <2>1. SUFFICES ASSUME t.flagged
                 PROVE  /\ none \in Seq(Byte) /\ Len(none) = fi + n
                        /\ none = SubSeq(data, 1, fi + n)
    OBVIOUS
  <2>2. fi <= Len(engine.none_data) /\ fi <= Len(data) /\ fi + n <= Len(data) /\ fi + n \in Nat
    BY <1>6, <1>8, <1>9, <1>15, <2>1
  <2>3. SubSeq(engine.none_data, 1, fi) = SubSeq(data, 1, fi)
    <3> DEFINE a == SubSeq(engine.none_data, 1, fi)
               d == SubSeq(data, 1, fi)
    <3>1. /\ a \in Seq(Byte) /\ Len(a) = fi /\ \A i \in 1 .. fi : a[i] = engine.none_data[i]
      BY <1>9, <2>2
    <3>2. /\ d \in Seq(Byte) /\ Len(d) = fi /\ \A i \in 1 .. fi : d[i] = data[i]
      BY <1>8, <1>9, <2>2
    <3> HIDE DEF a, d
    <3>3. \A i \in 1 .. Len(a) : a[i] = d[i]
      BY <1>6, <2>1, <3>1, <3>2
    <3>4. a = d
      BY <3>1, <3>2, <3>3, SameBytes
    <3> QED
      BY <3>4 DEF a, d
  <2>4. SubSeq(data, 1, fi) \o x = SubSeq(data, 1, fi + n)
    <3>1. /\ data \in Seq(Byte) /\ fi \in Nat /\ n \in Nat /\ fi + n <= Len(data)
          /\ x \in Seq(Byte) /\ Len(x) = n /\ \A i \in 1 .. n : x[i] = data[fi + i]
      BY <1>8, <1>9, <1>15, <1>16, <2>2
    <3> HIDE DEF x
    <3> QED
      BY <3>1, ReadContinues, Zenon
  <2>5. none = SubSeq(data, 1, fi + n)
    BY <1>6, <2>1, <2>3, <2>4 DEF none, x, fi
  <2> DEFINE m == fi + n
  <2>6. m \in Nat /\ m <= Len(data) /\ none = SubSeq(data, 1, m)
    BY <2>2, <2>5
  <2> HIDE DEF m
  <2>7. none \in Seq(Byte) /\ Len(none) = m
    BY <1>8, <2>6
  <2> QED
    BY <2>5, <2>7 DEF m
<1>23. none \in Seq(Byte)
  BY <1>6, <1>8, <1>9, <1>22 DEF none
<1>24. /\ read \in Nat /\ taken \in Nat /\ index1 \in Nat /\ done \in BOOLEAN
       /\ more \in BOOLEAN /\ state \in {OUTPUT_NONE, GET_REPEAT, GET_FLAG}
  <2>1. /\ engine.input_index \in Nat /\ engine.total_input \in Nat
        /\ engine.flag_index \in Nat /\ n \in Nat
    BY <1>3, <1>9, <1>15 DEF fi
  <2>2. /\ read = engine.input_index + n /\ taken = engine.total_input + n
        /\ (index1 = 0 \/ index1 = engine.flag_index + n)
    BY DEF read, taken, index1, fi
  <2>3. read \in Nat /\ taken \in Nat /\ index1 \in Nat
    BY <2>1, <2>2
  <2>4. done \in BOOLEAN /\ more \in BOOLEAN
    BY DEF done, more
  <2>5. state \in {OUTPUT_NONE, GET_REPEAT, GET_FLAG}
    BY <1>2 DEF state
  <2> QED
    BY <2>3, <2>4, <2>5
<1>25. /\ e \in Engine /\ e.status = engine.status /\ e.total_output = total
       /\ e.total_input = taken /\ e.input_index = read
       /\ e.flag_index = index1 /\ e.repeat_index = engine.repeat_index
       /\ e.state = state /\ e.done = done
       /\ e.need_more_input = more /\ e.variable_u64 = engine.variable_u64
       /\ e.original_size = engine.original_size /\ e.compress_size = engine.compress_size
       /\ e.flag = engine.flag /\ e.flag_repeat = engine.flag_repeat
       /\ e.flag_size = engine.flag_size /\ e.none_data = none
  <2>1. e = [engine EXCEPT !.input_index = read, !.total_input = taken,
                           !.total_output = total, !.flag_index = index1,
                           !.none_data = none, !.done = done, !.state = state,
                           !.need_more_input = more]
    BY DEF e
  <2> QED
    <3>1. e \in Engine
      <4>1. engine \in Engine /\ total \in Nat
        BY <1>3, <1>19
      <4> QED
        BY <1>23, <1>24, <2>1, <4>1 DEF Engine
    <3>2. /\ e.status = engine.status /\ e.total_output = total
          /\ e.total_input = taken /\ e.input_index = read
          /\ e.flag_index = index1 /\ e.repeat_index = engine.repeat_index
          /\ e.state = state /\ e.done = done
      BY <1>3, <2>1 DEF Engine
    <3>3. /\ e.need_more_input = more /\ e.variable_u64 = engine.variable_u64
          /\ e.original_size = engine.original_size /\ e.compress_size = engine.compress_size
          /\ e.flag = engine.flag /\ e.flag_repeat = engine.flag_repeat
          /\ e.flag_size = engine.flag_size /\ e.none_data = none
      BY <1>3, <2>1 DEF Engine
    <3> HIDE DEF e
    <3> QED
      BY <3>1, <3>2, <3>3
<1>26. /\ b + e.input_index = z + (fi + n) /\ e.input_index <= Len(input)
       /\ e.need_more_input => e.input_index = Len(input)
  <2>1. /\ read = engine.input_index + n /\ (more => n = Unread) /\ c = b + engine.input_index
    BY DEF read, more, c
  <2> DEFINE y == engine.input_index
             u == Unread
  <2>2. y \in Nat /\ u \in Nat /\ y + u = Len(input) /\ n <= u /\ read = y + n
        /\ (more => n = u) /\ b + y = z + fi /\ Len(input) \in Nat
        /\ b \in Nat /\ z \in Nat /\ fi \in Nat /\ n \in Nat
    BY <1>3, <1>6, <1>7, <1>9, <1>13, <1>15, <2>1
  <2> HIDE DEF y, u
  <2>3. b + read = z + (fi + n) /\ read <= Len(input) /\ (more => read = Len(input))
    BY <2>2
  <2> QED
    BY <1>25, <2>3
<1>27. Sized(p, e, b + e.input_index)
  <2> DEFINE x0 == engine.input_index
             y == engine.total_input
             h == p.start[1]
  <2>1. x0 \in Nat /\ y \in Nat /\ b \in Nat /\ h \in Nat /\ y + h = b + x0
    <3>1. 1 \in 1 .. Count(p) + 1
      BY <1>3 DEF Script
    <3>2. h \in Nat
      BY <1>3, <3>1, Starts
    <3> QED
      BY <1>3, <3>2 DEF AtNone, Sized, c
  <2>2. e.total_input = y + n /\ e.input_index = x0 + n
    BY <1>25 DEF taken, read
  <2> HIDE DEF x0, y, h
  <2>3. e.total_input + h = b + e.input_index
    BY <1>15, <2>1, <2>2
  <2> QED
    BY <1>3, <1>25, <2>3 DEF AtNone, Sized, h
<1>28. InToken(e, t) /\ e.variable_u64 = <<>> /\ e.repeat_index = 0 /\ e.status = GOOD
  BY <1>3, <1>6, <1>25 DEF InToken
<1>29. last <=> fi + n = length
  BY <1>6 DEF last, fi
<1>30. ASSUME ok
       PROVE  IF e.done THEN Complete(p, e, input, b) ELSE Midway(p, e, input, b)
  <2>1. CASE fi + n # length
    <3>1. ~last /\ e.state = OUTPUT_NONE /\ ~e.done /\ e.flag_index = fi + n
      BY <1>2, <1>25, <1>29, <2>1 DEF state, done, index1, fi
    <3>2. NoneIn(p, e, b + e.input_index, k)
      <4>1. fi + n < length
        BY <1>8, <1>9, <1>15, <2>1
      <4>2. t.flagged => /\ fi + n <= Len(e.none_data)
                         /\ \A i \in 1 .. fi + n : e.none_data[i] = data[i]
        <5>1. SUFFICES ASSUME t.flagged
                       PROVE  /\ fi + n <= Len(e.none_data)
                              /\ \A i \in 1 .. fi + n : e.none_data[i] = data[i]
          OBVIOUS
        <5> DEFINE m == fi + n
        <5>2. none \in Seq(Byte) /\ Len(none) = m /\ none = SubSeq(data, 1, m)
              /\ m \in Nat /\ m <= Len(data)
          BY <1>8, <1>9, <1>15, <1>22, <5>1
        <5> HIDE DEF m
        <5>3. m <= Len(none) /\ \A i \in 1 .. m : none[i] = data[i]
          BY <1>8, <5>2
        <5> QED
          BY <1>25, <5>3 DEF m
      <4> QED
        BY <1>6, <1>19, <1>25, <1>26, <1>28, <3>1, <4>1, <4>2 DEF NoneIn, t, from, z, length, data
    <3>3. AtNone(p, e, b + e.input_index)
      BY <1>27, <3>2 DEF AtNone
    <3> QED
      BY <1>3, <1>26, <3>1, <3>3
         DEF Midway, Place, GET_IDENTIFIER, GET_ORIGINAL_SIZE, GET_COMPRESS_SIZE, GET_FLAG,
             GET_VARIABLE, GET_REPEAT, OUTPUT_CMP, OUTPUT_NONE, OUTPUT_NONE_REPEAT, ERROR_STATE
  <2>2. CASE fi + n = length
    <3>1. last /\ e.flag_index = 0
      BY <1>25, <1>29, <2>2 DEF index1
    <3>2. b + e.input_index = DataEnd(p, k) /\ e.total_output = from + length
      BY <1>7, <1>8, <1>19, <1>25, <1>26, <2>2
    <3>3. CASE t.flagged
      <4>1. e.state = GET_REPEAT /\ ~e.done
        BY <1>6, <1>25, <1>30, <3>1, <3>3 DEF state, ok
      <4>2. e.none_data = data
        <5>1. SubSeq(data, 1, Len(data)) = data
          BY <1>8
        <5> QED
          BY <1>8, <1>22, <1>25, <2>2, <3>3, <5>1
      <4>3. Reading(e, b + e.input_index, CountBytes(t), DataEnd(p, k))
        <5>1. /\ CountBytes(t) \in Seq(Byte) /\ 0 < Len(CountBytes(t))
          BY <1>7, <3>3 DEF IsNumber
        <5>2. e.variable_u64 = SubSeq(CountBytes(t), 1, 0)
          BY <1>28
        <5>3. b + e.input_index = DataEnd(p, k) + 0
          BY <1>7, <3>2
        <5> QED
          BY <5>1, <5>2, <5>3 DEF Reading
      <4>4. RepeatIn(p, e, b + e.input_index, k)
        BY <1>6, <1>28, <3>1, <3>2, <3>3, <4>2, <4>3 DEF RepeatIn, t, from, length, data
      <4>5. AtRepeat(p, e, b + e.input_index)
        BY <1>27, <4>4 DEF AtRepeat
      <4> QED
        BY <1>3, <1>26, <4>1, <4>5
           DEF Midway, Place, GET_IDENTIFIER, GET_ORIGINAL_SIZE, GET_COMPRESS_SIZE, GET_FLAG,
               GET_VARIABLE, GET_REPEAT, OUTPUT_CMP, OUTPUT_NONE, OUTPUT_NONE_REPEAT, ERROR_STATE
    <3>4. CASE ~t.flagged
      <4>1. e.state = GET_FLAG
        BY <1>6, <1>25, <3>1, <3>4 DEF state
      <4>2. e.total_output = p.from[k + 1] /\ b + e.input_index = p.start[k + 1]
        BY <1>7, <1>18, <3>2, <3>4
      <4>3. e.done = (e.total_output = e.original_size)
        BY <1>25, <3>1 DEF done
      <4> QED
        BY <1>3, <1>25, <1>26, <1>27, <1>28, <4>1, <4>2, <4>3, TokenEnds
    <3> QED
      BY <3>3, <3>4
  <2> QED
    BY <2>1, <2>2
<1>31. ok => Outcome(p, e, input, b, s \o out)
  BY <1>3, <1>20, <1>25, <1>30 DEF Outcome
<1> QED
  BY <1>1, <1>3, <1>4, <1>21, <1>31, TurnKeeps

(* A turn of the engine.                                                    *)
LEMMA EngineKeeps ==
  ASSUME NEW p, NEW b, NEW s, Turning(p, b, s), EngineNext
  PROVE  Call(p, b, s, engine', running', input', output', room')
<1>1. CASE get_identifier
  BY <1>1, IdentifierTurn
<1>2. CASE get_information
  BY <1>2, InformationTurn
<1>3. CASE get_flag
  BY <1>3, FlagTurn
<1>4. CASE get_variable
  BY <1>4, VariableTurn
<1>5. CASE get_repeat
  BY <1>5, RepeatTurn
<1>6. CASE output_cmp
  BY <1>6, CmpTurn
<1>7. CASE output_none
  BY <1>7, NoneTurn
<1>8. CASE output_none_repeat
  BY <1>8, NoneRepeatTurn
<1>9. CASE ErrorState
  BY <1>9, ErrorTurn
<1> QED
  BY <1>1, <1>2, <1>3, <1>4, <1>5, <1>6, <1>7, <1>8, <1>9 DEF EngineNext

-----------------------------------------------------------------------------
(* The caller.                                                              *)

(* A piece of a sequence lies behind what comes before it.                   *)
Joins(u, w, v, x) ==
  u \in Seq(Byte) /\ w \in Seq(Byte) /\ v \in Seq(Byte) /\ x = (u \o w) \o v

(* Its elements, and those behind it.                                       *)
LEMMA Within ==
  ASSUME NEW u, NEW w, NEW v, NEW x, Joins(u, w, v, x)
  PROVE  /\ x \in Seq(Byte) /\ Len(x) = (Len(u) + Len(w)) + Len(v)
         /\ \A i \in 1 .. Len(w) : Len(u) + i \in 1 .. Len(x) /\ x[Len(u) + i] = w[i]
         /\ \A i \in 1 .. Len(v) : /\ (Len(u) + Len(w)) + i \in 1 .. Len(x)
                                   /\ x[(Len(u) + Len(w)) + i] = v[i]
<1> DEFINE y == u \o w
<1>0. u \in Seq(Byte) /\ w \in Seq(Byte) /\ v \in Seq(Byte) /\ x = (u \o w) \o v
  BY DEF Joins
<1>1. /\ y \in Seq(Byte) /\ Len(u) \in Nat /\ Len(w) \in Nat /\ Len(y) = Len(u) + Len(w)
      /\ \A k \in 1 .. Len(w) : y[Len(u) + k] = w[k]
  BY <1>0, Joined
<1>2. x = y \o v
  BY <1>0
<1> HIDE DEF y
<1>3. /\ x \in Seq(Byte) /\ Len(v) \in Nat /\ Len(x) = Len(y) + Len(v)
      /\ \A k \in 1 .. Len(y) : x[k] = y[k]
      /\ \A k \in 1 .. Len(v) : x[Len(y) + k] = v[k]
  <2>1. /\ y \o v \in Seq(Byte) /\ Len(v) \in Nat /\ Len(y \o v) = Len(y) + Len(v)
        /\ \A k \in 1 .. Len(y) : (y \o v)[k] = y[k]
        /\ \A k \in 1 .. Len(v) : (y \o v)[Len(y) + k] = v[k]
    BY <1>0, <1>1, Joined
  <2> QED
    BY <1>2, <2>1, Zenon
<1>4. ASSUME NEW i \in 1 .. Len(w)
      PROVE  Len(u) + i \in 1 .. Len(x) /\ x[Len(u) + i] = w[i]
  <2>1. Len(u) + i \in 1 .. Len(y) /\ Len(u) + i \in 1 .. Len(x)
    BY <1>1, <1>3
  <2> QED
    BY <1>1, <1>3, <2>1
<1>5. ASSUME NEW i \in 1 .. Len(v)
      PROVE  Len(y) + i \in 1 .. Len(x) /\ x[Len(y) + i] = v[i]
  BY <1>1, <1>3
<1> QED
  BY <1>1, <1>3, <1>4, <1>5

(* What an action is opened with: tokens that are well formed, behind a     *)
(* header with an identifier and two sizes, one of which is right; or a     *)
(* stream of the compressor, all of whose header is right.                   *)
Opens(tokens_, identifier, a, b, data, bytes, compressed) ==
  /\ tokens_ \in Seq(Token) /\ Len(tokens_) > 0
  /\ \A k \in 1 .. Len(tokens_) : WellFormed(tokens_[k])
  /\ identifier \in Seq(Byte) /\ Len(identifier) = Len(Identifier)
  /\ a \in Nat /\ b \in Nat
  /\ a = Len(Data(tokens_)) \/ b = Len(Body(tokens_))
  /\ data = Data(tokens_)
  /\ bytes = ((identifier \o CFG_write_variable_u64[a]) \o CFG_write_variable_u64[b])
               \o Body(tokens_)
  /\ compressed \in BOOLEAN
  /\ compressed => /\ identifier = Identifier
                   /\ a = Len(Data(tokens_)) /\ b = Len(Body(tokens_))
                   /\ \A k \in 1 .. Len(tokens_) : Accepted(tokens_[k])

(* The bytes of a token.                                                    *)
LEMMA TokenBytesAre ==
  ASSUME NEW t, WellFormed(t)
  PROVE  /\ FlagBytes(t) \in Seq(Byte) /\ Len(FlagBytes(t)) > 0
         /\ t.data \in Seq(Byte) /\ CountBytes(t) \in Seq(Byte)
         /\ TokenBytes(t) = (FlagBytes(t) \o t.data) \o CountBytes(t)
         /\ Expand(t) \in Seq(Byte) /\ Len(Expand(t)) > 0
<1>1. t \in Token /\ t.data \in Seq(Byte) /\ t.count \in Nat
  BY DEF WellFormed, Token
<1>2. FlagBytes(t) \in Seq(Byte) /\ Len(FlagBytes(t)) > 0
  <2>1. FlagValue(t) \in Nat
    BY <1>1, FlagNumber
  <2> QED
    BY <2>1, Written DEF FlagBytes, IsNumber
<1>3. CountBytes(t) \in Seq(Byte)
  <2>1. CASE t.count = 0
    BY <2>1 DEF CountBytes
  <2>2. CASE t.count # 0
    BY <1>1, <2>2, Written DEF CountBytes, IsNumber
  <2> QED
    BY <2>1, <2>2
<1>4. TokenBytes(t) = (FlagBytes(t) \o t.data) \o CountBytes(t)
  BY DEF TokenBytes, FlagBytes, FlagValue, CountBytes
<1>5. Expand(t) \in Seq(Byte) /\ Len(Expand(t)) > 0
  <2> DEFINE piece == Piece(t)
             n == Len(piece)
             m == t.count + 1
             l == n * m
  <2>1. piece \in Seq(Byte) /\ n \in Nat \ {0} /\ m \in Nat \ {0}
    BY <1>1, PieceIs
  <2>2. Expand(t) = [i \in 1 .. l |-> piece[((i - 1) % n) + 1]]
    BY DEF Expand
  <2>3. l \in Nat /\ l > 0
    <3> HIDE DEF n, m
    <3>1. PICK z \in Nat : m = z + 1
      <4>1. m - 1 \in Nat /\ m = (m - 1) + 1
        BY <2>1
      <4> QED
        BY <4>1
    <3>2. n * m = n * z + n /\ n * z \in Nat
      BY <2>1, <3>1
    <3> QED
      BY <2>1, <3>2
  <2>4. \A i \in 1 .. l : ((i - 1) % n) + 1 \in 1 .. n
    <3> HIDE DEF l, n
    <3> QED
      BY <2>1, <2>3
  <2>5. \A i \in 1 .. l : piece[((i - 1) % n) + 1] \in Byte
    BY <2>1, <2>4
  <2> HIDE DEF l, n, piece
  <2> QED
    BY <2>2, <2>3, <2>5
<1> QED
  BY <1>1, <1>2, <1>3, <1>4, <1>5

(* There is a script for what an action is opened with.                     *)
LEMMA ScriptExists ==
  ASSUME NEW ts, NEW identifier, NEW a, NEW b, NEW data, NEW bytes, NEW compressed,
         Opens(ts, identifier, a, b, data, bytes, compressed)
  PROVE  \E p : Script(p) /\ p.stream = bytes /\ p.original = data /\ p.exact = compressed
<1> DEFINE n == Len(ts)
           xs == [k \in 1 .. n |-> TokenBytes(ts[k])]
           ys == [k \in 1 .. n |-> Expand(ts[k])]
           body == Body(ts)
           A == CFG_write_variable_u64[a]
           B == CFG_write_variable_u64[b]
           h == (Len(identifier) + Len(A)) + Len(B)
<1>1. /\ ts \in Seq(Token) /\ n \in Nat \ {0} /\ \A k \in 1 .. n : WellFormed(ts[k])
      /\ identifier \in Seq(Byte) /\ Len(identifier) = Len(Identifier) /\ a \in Nat /\ b \in Nat
      /\ a = Len(Data(ts)) \/ b = Len(body)
      /\ data = Data(ts) /\ bytes = ((identifier \o A) \o B) \o body
      /\ compressed \in BOOLEAN
      /\ compressed => /\ identifier = Identifier
                       /\ a = Len(Data(ts)) /\ b = Len(body)
                       /\ \A k \in 1 .. n : Accepted(ts[k])
  BY DEF Opens
<1>2. body = FlattenSeq(xs) /\ data = FlattenSeq(ys)
  BY <1>1 DEF Body, Data
<1>3. \A k \in 1 .. n :
        /\ FlagBytes(ts[k]) \in Seq(Byte) /\ Len(FlagBytes(ts[k])) > 0
        /\ ts[k].data \in Seq(Byte) /\ CountBytes(ts[k]) \in Seq(Byte)
        /\ TokenBytes(ts[k]) = (FlagBytes(ts[k]) \o ts[k].data) \o CountBytes(ts[k])
        /\ Expand(ts[k]) \in Seq(Byte) /\ Len(Expand(ts[k])) > 0
  BY <1>1, TokenBytesAre
<1>4. /\ Len(xs) = n /\ \A k \in 1 .. n : xs[k] \in Seq(Byte) /\ xs[k] = TokenBytes(ts[k])
      /\ Len(ys) = n /\ \A k \in 1 .. n : ys[k] \in Seq(Byte) /\ ys[k] = Expand(ts[k])
  <2>1. Len(xs) = n /\ Len(ys) = n
    BY <1>1
  <2>2. \A k \in 1 .. n : xs[k] = TokenBytes(ts[k]) /\ ys[k] = Expand(ts[k])
    OBVIOUS
  <2>3. \A k \in 1 .. n : TokenBytes(ts[k]) \in Seq(Byte)
    <3> TAKE k \in 1 .. n
    <3>1. /\ FlagBytes(ts[k]) \in Seq(Byte) /\ ts[k].data \in Seq(Byte) /\ CountBytes(ts[k]) \in Seq(Byte)
          /\ TokenBytes(ts[k]) = (FlagBytes(ts[k]) \o ts[k].data) \o CountBytes(ts[k])
      BY <1>3
    <3> QED
      BY <3>1, Within DEF Joins
  <2> QED
    BY <1>3, <2>1, <2>2, <2>3
<1>5. IsNumber(A, a) /\ IsNumber(B, b) /\ A \in Seq(Byte) /\ B \in Seq(Byte)
  BY <1>1, Written DEF IsNumber
<1> HIDE DEF n, xs, ys, body, A, B
<1>6. PICK f : Cuts(body, xs, n, f)
  BY <1>1, <1>2, <1>4, CutsExist
<1>7. PICK g : Cuts(data, ys, n, g)
  BY <1>1, <1>2, <1>4, CutsExist
<1>8. /\ body \in Seq(Byte) /\ f \in [1 .. n + 1 -> Nat] /\ f[1] = 0 /\ Len(body) = f[n + 1]
      /\ \A k \in 1 .. n :
           /\ f[k + 1] = f[k] + Len(xs[k])
           /\ \A i \in 1 .. Len(xs[k]) : body[f[k] + i] = xs[k][i]
  BY <1>6 DEF Cuts
<1>9. /\ data \in Seq(Byte) /\ g \in [1 .. n + 1 -> Nat] /\ g[1] = 0 /\ Len(data) = g[n + 1]
      /\ \A k \in 1 .. n :
           /\ g[k + 1] = g[k] + Len(ys[k])
           /\ \A i \in 1 .. Len(ys[k]) : data[g[k] + i] = ys[k][i]
  BY <1>7 DEF Cuts
<1>10. /\ Len(identifier) \in Nat /\ Len(A) \in Nat /\ Len(B) \in Nat /\ h \in Nat
       /\ Len(body) \in Nat
  BY <1>1, <1>5, <1>8
<1> DEFINE start == [k \in 1 .. n + 1 |-> h + f[k]]
           p == [ stream |-> bytes, original |-> data, exact |-> compressed, tokens |-> ts,
                  identifier |-> identifier, original_size |-> a, compress_size |-> b,
                  start |-> start, from |-> g ]
<1>11. start \in [1 .. n + 1 -> Nat] /\ \A k \in 1 .. n + 1 : start[k] = h + f[k]
  BY <1>8, <1>10
<1> HIDE DEF start, h
<1>12. /\ p.stream = bytes /\ p.original = data /\ p.exact = compressed /\ p.tokens = ts
       /\ p.identifier = identifier /\ p.original_size = a /\ p.compress_size = b
       /\ p.start = start /\ p.from = g
  OBVIOUS
<1> HIDE DEF p
<1>13. /\ bytes \in Seq(Byte) /\ Len(bytes) = h + Len(body)
       /\ \A i \in 1 .. Len(identifier) : i \in 1 .. Len(bytes) /\ bytes[i] = identifier[i]
       /\ \A i \in 1 .. Len(A) : /\ Len(identifier) + i \in 1 .. Len(bytes)
                                 /\ bytes[Len(identifier) + i] = A[i]
       /\ \A i \in 1 .. Len(B) : /\ (Len(identifier) + Len(A)) + i \in 1 .. Len(bytes)
                                 /\ bytes[(Len(identifier) + Len(A)) + i] = B[i]
       /\ \A i \in 1 .. Len(body) : h + i \in 1 .. Len(bytes) /\ bytes[h + i] = body[i]
  <2> DEFINE u == identifier \o A
             r == B \o body
             ab == A \o r
  <2>1. /\ u \in Seq(Byte) /\ Len(u) = Len(identifier) + Len(A)
        /\ r \in Seq(Byte) /\ ab \in Seq(Byte)
    BY <1>1, <1>5, <1>8, Joined
  <2>2. bytes = (u \o B) \o body
    BY <1>1
  <2>a. B \in Seq(Byte) /\ body \in Seq(Byte) /\ identifier \in Seq(Byte) /\ A \in Seq(Byte)
    BY <1>1, <1>5, <1>8
  <2>b. bytes = ((identifier \o A) \o B) \o body
    BY <1>1
  <2>c. /\ ((identifier \o A) \o B) \o body = (identifier \o A) \o (B \o body)
        /\ ((identifier \o A) \o B) \o body = (<<>> \o identifier) \o (A \o (B \o body))
    <3>1. \A v1, v2, v3 \in Seq(Byte) : /\ (v1 \o v2) \o v3 = v1 \o (v2 \o v3)
                                         /\ v1 \o v2 \in Seq(Byte) /\ <<>> \o v1 = v1
      OBVIOUS
    <3>0. identifier \o A \in Seq(Byte) /\ B \o body \in Seq(Byte)
      BY <2>a, Joined
    <3>2. ((identifier \o A) \o B) \o body = (identifier \o A) \o (B \o body)
      BY <2>a, <3>0, InARow
    <3>3. (identifier \o A) \o (B \o body) = identifier \o (A \o (B \o body))
      BY <2>a, <3>0, InARow
    <3> QED
      BY <2>a, <3>1, <3>2, <3>3
  <2>3. bytes = (identifier \o A) \o r
    BY <2>b, <2>c, Zenon
  <2>4. bytes = (<<>> \o identifier) \o ab
    BY <2>b, <2>c, Zenon
  <2> HIDE DEF u, r, ab
  <2>5. /\ bytes \in Seq(Byte) /\ Len(bytes) = (Len(u) + Len(B)) + Len(body)
        /\ \A i \in 1 .. Len(B) : Len(u) + i \in 1 .. Len(bytes) /\ bytes[Len(u) + i] = B[i]
        /\ \A i \in 1 .. Len(body) : /\ (Len(u) + Len(B)) + i \in 1 .. Len(bytes)
                                     /\ bytes[(Len(u) + Len(B)) + i] = body[i]
    <3>1. Joins(u, B, body, bytes)
      BY <2>1, <2>2, <2>a DEF Joins
    <3>2. bytes \in Seq(Byte) /\ Len(bytes) = (Len(u) + Len(B)) + Len(body)
      BY <3>1, Within
    <3>3. \A i \in 1 .. Len(B) : Len(u) + i \in 1 .. Len(bytes) /\ bytes[Len(u) + i] = B[i]
      BY <3>1, Within
    <3>4. \A i \in 1 .. Len(body) : /\ (Len(u) + Len(B)) + i \in 1 .. Len(bytes)
                                    /\ bytes[(Len(u) + Len(B)) + i] = body[i]
      BY <3>1, Within
    <3> QED
      BY <3>2, <3>3, <3>4
  <2>6. \A i \in 1 .. Len(A) : /\ Len(identifier) + i \in 1 .. Len(bytes)
                               /\ bytes[Len(identifier) + i] = A[i]
    BY <2>1, <2>3, <2>a, Within DEF Joins
  <2>7. \A i \in 1 .. Len(identifier) : 0 + i \in 1 .. Len(bytes) /\ bytes[0 + i] = identifier[i]
    <3>1. <<>> \in Seq(Byte) /\ Len(<<>>) = 0
      OBVIOUS
    <3> QED
      BY <2>1, <2>4, <2>a, <3>1, Within DEF Joins
  <2>8. \A i \in 1 .. Len(identifier) : 0 + i = i
    BY <1>10
  <2> QED
    BY <2>1, <2>5, <2>6, <2>7, <2>8 DEF h
<1>14. \A i \in 1 .. Len(bytes) : BlockByte(p, i) = bytes[i]
  BY <1>12 DEF BlockByte
<1>15. Count(p) = n
  BY <1>12 DEF Count, n
<1>16. HeaderLies(p)
  <2>1. SizeBytes(p) = A /\ CompressedBytes(p) = B /\ SizeEnd(p) = Len(identifier) + Len(A)
    BY <1>1, <1>12 DEF SizeBytes, CompressedBytes, SizeEnd, A, B
  <2>2. Lies(p, identifier, 0)
    <3>1. \A i \in 1 .. Len(identifier) : 0 + i = i
      BY <1>10
    <3> QED
      BY <1>13, <1>14, <3>1 DEF Lies
  <2>3. Lies(p, A, Len(identifier)) /\ Lies(p, B, Len(identifier) + Len(A))
    BY <1>13, <1>14 DEF Lies
  <2>4. p.start[1] = SizeEnd(p) + Len(B)
    <3>1. 1 \in 1 .. n + 1
      BY <1>1
    <3>2. start[1] = h + 0
      BY <1>8, <1>11, <3>1
    <3>3. h + 0 = (Len(identifier) + Len(A)) + Len(B)
      BY <1>10 DEF h
    <3> QED
      BY <1>12, <2>1, <3>2, <3>3
  <2> QED
    BY <1>1, <1>12, <2>1, <2>2, <2>3, <2>4 DEF HeaderLies
<1>17. ASSUME NEW k \in 1 .. n
       PROVE  TokenLies(p, k)
  <2> DEFINE t == ts[k]
             F == FlagBytes(t)
             D == t.data
             C == CountBytes(t)
             X == Expand(t)
             w == xs[k]
  <2>1. /\ WellFormed(t) /\ F \in Seq(Byte) /\ Len(F) > 0 /\ D \in Seq(Byte) /\ C \in Seq(Byte)
        /\ w = (F \o D) \o C /\ X \in Seq(Byte) /\ Len(X) > 0 /\ ys[k] = X
    BY <1>1, <1>3, <1>4
  <2>2. k \in 1 .. n + 1 /\ k + 1 \in 1 .. n + 1
    BY <1>1
  <2>3. /\ start[k] = h + f[k] /\ start[k + 1] = h + f[k + 1] /\ f[k] \in Nat /\ f[k + 1] \in Nat
        /\ g[k] \in Nat /\ g[k + 1] \in Nat
    BY <1>8, <1>9, <1>11, <2>2
  <2>4. /\ f[k + 1] = f[k] + Len(w) /\ \A i \in 1 .. Len(w) : body[f[k] + i] = w[i]
        /\ g[k + 1] = g[k] + Len(X) /\ \A i \in 1 .. Len(X) : data[g[k] + i] = X[i]
    <3>1. f[k + 1] = f[k] + Len(w) /\ \A i \in 1 .. Len(w) : body[f[k] + i] = w[i]
      BY <1>8
    <3>2. g[k + 1] = g[k] + Len(ys[k]) /\ \A i \in 1 .. Len(ys[k]) : data[g[k] + i] = ys[k][i]
      BY <1>9
    <3>3. ys[k] = X
      BY <2>1
    <3> HIDE DEF X, w
    <3> QED
      BY <3>1, <3>2, <3>3
  <2>5. f[k + 1] <= Len(body)
    <3>0. \A j \in 1 .. n : Len(xs[j]) > 0 /\ Len(xs[j]) \in Nat
      <4> TAKE j \in 1 .. n
      <4>1. /\ FlagBytes(ts[j]) \in Seq(Byte) /\ Len(FlagBytes(ts[j])) > 0
            /\ ts[j].data \in Seq(Byte) /\ CountBytes(ts[j]) \in Seq(Byte)
            /\ xs[j] = (FlagBytes(ts[j]) \o ts[j].data) \o CountBytes(ts[j])
        BY <1>3, <1>4
      <4>2. /\ Len(xs[j]) = (Len(FlagBytes(ts[j])) + Len(ts[j].data)) + Len(CountBytes(ts[j]))
            /\ Len(FlagBytes(ts[j])) \in Nat /\ Len(ts[j].data) \in Nat /\ Len(CountBytes(ts[j])) \in Nat
        BY <4>1, Within DEF Joins
      <4> DEFINE l1 == Len(FlagBytes(ts[j]))
                 l2 == Len(ts[j].data)
                 l3 == Len(CountBytes(ts[j]))
      <4>3. l1 \in Nat /\ l2 \in Nat /\ l3 \in Nat /\ l1 > 0 /\ Len(xs[j]) = (l1 + l2) + l3
        BY <4>1, <4>2
      <4> HIDE DEF l1, l2, l3
      <4> QED
        BY <4>3
    <3>1. \A j \in 1 .. n : f[j] < f[j + 1]
      <4> TAKE j \in 1 .. n
      <4>1. j \in 1 .. n + 1 /\ f[j] \in Nat /\ f[j + 1] = f[j] + Len(xs[j])
        BY <1>1, <1>8
      <4> QED
        BY <3>0, <4>1
    <3> QED
      BY <1>1, <1>8, <2>2, <3>1, CutsGrow
  <2> HIDE DEF t, F, D, C, X, w
  <2>6. /\ Len(w) = (Len(F) + Len(D)) + Len(C) /\ w \in Seq(Byte)
        /\ Len(F) \in Nat /\ Len(D) \in Nat /\ Len(C) \in Nat /\ Len(w) \in Nat
        /\ \A i \in 1 .. Len(D) : Len(F) + i \in 1 .. Len(w) /\ w[Len(F) + i] = D[i]
        /\ \A i \in 1 .. Len(C) : /\ (Len(F) + Len(D)) + i \in 1 .. Len(w)
                                  /\ w[(Len(F) + Len(D)) + i] = C[i]
    BY <2>1, Within DEF Joins
  <2>7. \A i \in 1 .. Len(F) : i \in 1 .. Len(w) /\ w[i] = F[i]
    <3> TAKE i \in 1 .. Len(F)
    <3>1. w = F \o (D \o C) /\ D \o C \in Seq(Byte)
      <4>1. (F \o D) \o C = F \o (D \o C)
        BY <2>1, InARow
      <4>2. D \o C \in Seq(Byte)
        BY <2>1, Joined
      <4> QED
        BY <2>1, <4>1, <4>2
    <3>2. w[i] = F[i]
      BY <2>1, <3>1, Joined
    <3> QED
      BY <2>6, <3>2
  <2> DEFINE s == start[k]
  <2>8. s = h + f[k] /\ s \in Nat
    BY <1>10, <1>11, <2>2, <2>3
  <2> HIDE DEF s
  <2>9. ASSUME NEW i \in 1 .. Len(w)
        PROVE  BlockByte(p, s + i) = w[i]
    <3>1. f[k] + i \in 1 .. Len(body) /\ h + (f[k] + i) = s + i
      <4> DEFINE f0 == f[k]
                 l0 == Len(w)
                 z0 == Len(body)
      <4>1. /\ f0 \in Nat /\ l0 \in Nat /\ z0 \in Nat /\ h \in Nat /\ s = h + f0
            /\ f0 + l0 <= z0 /\ i \in 1 .. l0
        BY <1>10, <2>3, <2>4, <2>5, <2>6, <2>8
      <4> HIDE DEF f0, l0, z0
      <4>2. f0 + i \in 1 .. z0 /\ h + (f0 + i) = s + i
        BY <4>1
      <4> QED
        BY <4>2 DEF f0, z0
    <3>2. h + (f[k] + i) \in 1 .. Len(bytes) /\ bytes[h + (f[k] + i)] = body[f[k] + i]
      BY <1>13, <3>1
    <3> QED
      BY <1>14, <2>4, <3>1, <3>2
  <2>10. Lies(p, F, s)
    BY <2>7, <2>9 DEF Lies
  <2>11. Lies(p, D, s + Len(F))
    <3>1. \A i \in 1 .. Len(D) : (s + Len(F)) + i = s + (Len(F) + i)
      BY <2>6, <2>8
    <3> QED
      BY <2>6, <2>9, <3>1 DEF Lies
  <2>12. Lies(p, C, (s + Len(F)) + Len(D))
    <3>1. \A i \in 1 .. Len(C) : ((s + Len(F)) + Len(D)) + i = s + ((Len(F) + Len(D)) + i)
      BY <2>6, <2>8
    <3> QED
      BY <2>6, <2>9, <3>1 DEF Lies
  <2>13. start[k + 1] = ((s + Len(F)) + Len(D)) + Len(C) /\ s < start[k + 1]
    <3> DEFINE l1 == Len(F)
               l2 == Len(D)
               l3 == Len(C)
               f0 == f[k]
               s1 == start[k + 1]
    <3>1. /\ l1 \in Nat /\ l2 \in Nat /\ l3 \in Nat /\ l1 > 0 /\ f0 \in Nat /\ h \in Nat
          /\ s1 = h + (f0 + ((l1 + l2) + l3)) /\ s = h + f0
      BY <1>10, <2>1, <2>3, <2>4, <2>6, <2>8
    <3> HIDE DEF l1, l2, l3, f0, s1
    <3>2. s1 = ((s + l1) + l2) + l3 /\ s < s1
      BY <3>1
    <3> QED
      BY <3>2 DEF l1, l2, l3, s1
  <2>14. g[k] < g[k + 1]
    <3>1. Len(X) \in Nat
      BY <2>1
    <3> QED
      BY <2>1, <2>3, <2>4, <3>1
  <2>15. p.tokens[k] = t
    BY <1>12 DEF t
  <2>16. FlagEnd(p, k) = s + Len(F) /\ DataEnd(p, k) = (s + Len(F)) + Len(D)
    BY <1>12, <2>15 DEF FlagEnd, DataEnd, F, D, s
  <2> QED
    BY <1>12, <2>1, <2>4, <2>10, <2>11, <2>12, <2>13, <2>14, <2>15, <2>16
       DEF TokenLies, F, D, C, X, s
<1>18. start[n + 1] = Len(bytes) /\ n + 1 \in 1 .. n + 1
  BY <1>1, <1>8, <1>11, <1>13
<1>19. start[1] = h
  <2>1. 1 \in 1 .. n + 1
    BY <1>1
  <2> QED
    BY <1>8, <1>10, <1>11, <2>1
<1>20. b = Len(body) <=> b = Len(bytes) - h
  BY <1>1, <1>10, <1>13
<1>21. Script(p)
  <2>1. Count(p) \in Nat \ {0}
    BY <1>1, <1>15
  <2>2. /\ p.stream \in Seq(Byte) /\ p.original \in Seq(Byte) /\ p.exact \in BOOLEAN
    BY <1>1, <1>9, <1>12, <1>13
  <2>3. /\ p.start \in [1 .. Count(p) + 1 -> Nat] /\ p.from \in [1 .. Count(p) + 1 -> Nat]
        /\ p.start[Count(p) + 1] = Len(p.stream)
        /\ p.from[1] = 0 /\ p.from[Count(p) + 1] = Len(p.original)
    BY <1>9, <1>11, <1>12, <1>15, <1>18
  <2>4. \/ p.original_size = Len(p.original)
        \/ p.compress_size = Len(p.stream) - p.start[1]
    BY <1>1, <1>12, <1>19, <1>20
  <2>5. p.exact => /\ p.identifier = Identifier
                   /\ p.original_size = Len(p.original)
                   /\ p.compress_size = Len(p.stream) - p.start[1]
                   /\ \A k \in 1 .. Count(p) : Accepted(p.tokens[k])
    BY <1>1, <1>12, <1>15, <1>19, <1>20
  <2>6. \A k \in 1 .. Count(p) : TokenLies(p, k)
    BY <1>15, <1>17
  <2> QED
    BY <1>16, <2>1, <2>2, <2>3, <2>4, <2>5, <2>6 DEF Script
<1> QED
  BY <1>12, <1>21

-----------------------------------------------------------------------------
(* The caller's states.                                                     *)

(* Inside a call of process; b bytes came before what it is given.           *)
During(p) ==
  /\ status = TRUE /\ decompression_status = GOOD
  /\ \E b \in Nat : /\ position = b + Len(input)
                    /\ Call(p, b, written \o remains, engine, running, input, output, room)

(* Between two.  An engine whose status is GOOD has just been reset.         *)
Between(p) ==
  /\ ~running
  /\ engine \in Engine
  /\ decompression_status = engine.status
  /\ engine.status \in {GOOD, NEED_INPUT, DONE, ERROR}
  /\ status \in BOOLEAN /\ (status <=> engine.status # ERROR)
  /\ engine.status \in {GOOD, NEED_INPUT} => Place(p, engine, position) /\ ~engine.done
  /\ engine.status = GOOD =>
       pc = "word" /\ engine.input_index = 0 /\ ~engine.need_more_input
  /\ engine.status = NEED_INPUT => engine.state \notin {OUTPUT_CMP, OUTPUT_NONE_REPEAT}
  /\ engine.status = DONE => UsedUp(p, engine, position)
  /\ engine.status = ERROR => ~p.exact
  /\ Begins(p, written \o remains)
  /\ engine.status # ERROR => engine.total_output = Len(written \o remains)
  /\ pc = "block" => position % Block = 0

(* At the end.                                                              *)
Ended(p) ==
  /\ ~running
  /\ Begins(p, written \o remains)
  /\ engine.status # ERROR => engine.total_output = Len(written \o remains)
  /\ VerdictIsRight

Caller(p) ==
  /\ Script(p)
  /\ stream = p.stream /\ original = p.original /\ exact = p.exact
  /\ word \in Words /\ buffer \in BufferSizes
  /\ position \in Nat
  /\ written \in Seq(Byte) /\ remains \in Seq(Byte)
  /\ Len(remains) < word /\ Len(written) % word = 0
  /\ \/ pc = "process" /\ During(p)
     \/ pc \in {"word", "block"} /\ Between(p)
     \/ pc = "over" /\ Ended(p)

Idle ==
  /\ pc = "idle"
  /\ ~running /\ input = <<>> /\ output = <<>> /\ engine = Fresh(ERROR_STATE, ERROR)
  /\ original = <<>> /\ written = <<>> /\ remains = <<>> /\ position = 0
  /\ decompression_status = GOOD /\ status = TRUE
  /\ word \in Words /\ buffer \in BufferSizes

PayloadInv == Idle \/ pc = "asserted" \/ \E p : Caller(p)

(* The sizes.                                                               *)
LEMMA SizesAre ==
  ASSUME word \in Words, buffer \in BufferSizes
  PROVE  /\ word \in Nat \ {0} /\ buffer \in Nat /\ word <= buffer
         /\ Block \in Nat \ {0}
<1>1. word \in Nat \ {0} /\ BlockWords \in Nat \ {0} /\ buffer \in Nat /\ buffer >= word
  BY PayloadConstants
<1>2. PICK x \in Nat : BlockWords = x + 1
  <2>1. BlockWords - 1 \in Nat /\ BlockWords = (BlockWords - 1) + 1
    BY <1>1
  <2> QED
    BY <2>1
<1>3. word * BlockWords = word * x + word /\ word * x \in Nat
  BY <1>1, <1>2
<1>4. Block \in Nat \ {0}
  BY <1>1, <1>3 DEF Block
<1> QED
  BY <1>1, <1>4

(* The last block is the one that the stream ends in.                       *)
LEMMA LastBlockIs ==
  ASSUME word \in Words, buffer \in BufferSizes, position \in Nat, Len(stream) \in Nat
  PROVE  /\ Len(stream) <= position => LastBlock
         /\ LastBlock /\ position % Block = 0 => Len(stream) <= position
<1> DEFINE n == Block
           L == Len(stream)
           q == BlockCount
           z == L + n - 1
<1>1. n \in Nat \ {0} /\ L \in Nat
  BY SizesAre
<1>2. z \in Nat /\ z + 1 = L + n
  BY <1>1
<1>3. q = z \div n
  BY DEF BlockCount
<1> HIDE DEF q, z
<1>4. PICK m \in 0 .. n - 1 : q \in Nat /\ z = q * n + m
  BY <1>1, <1>2, <1>3, Divide
<1> DEFINE e == (q - 1) * n
<1>5. LastBlock <=> position > e
  BY DEF LastBlock, q
<1> HIDE DEF n, L
<1>6. e = q * n - n /\ q * n \in Nat
  BY <1>1, <1>4
<1> HIDE DEF e
<1>7. ASSUME L <= position PROVE position > e
  <2> DEFINE x == q * n
  <2>1. x \in Nat /\ z = x + m /\ e = x - n
    BY <1>4, <1>6
  <2> HIDE DEF x
  <2> QED
    BY <1>1, <1>2, <1>4, <1>7, <2>1
<1>8. ASSUME position > e, position % n = 0 PROVE L <= position
  <2> DEFINE d == position \div n
  <2>1. d \in Nat /\ position = d * n + 0
    BY <1>1, <1>8, Divide
  <2> HIDE DEF d
  <2>2. q <= d
    <3>1. SUFFICES ASSUME ~(q <= d) PROVE FALSE
      OBVIOUS
    <3>2. PICK y \in Nat : q = d + 1 + y
      <4>1. q - d - 1 \in Nat /\ q = d + 1 + (q - d - 1)
        BY <1>4, <2>1, <3>1
      <4> QED
        BY <4>1
    <3>3. (d + 1 + y) * n = d * n + n + y * n /\ d * n \in Nat /\ y * n \in Nat
      BY <1>1, <2>1
    <3>4. q * n = d * n + n + y * n
      BY <3>2, <3>3
    <3> DEFINE u == d * n
               v == y * n
               x == q * n
    <3>5. u \in Nat /\ v \in Nat /\ x = u + n + v /\ position = u + 0 /\ e = x - n
      BY <1>6, <2>1, <3>3, <3>4
    <3> HIDE DEF u, v, x
    <3> QED
      BY <1>1, <1>8, <3>5
  <2>3. PICK y \in Nat : d = q + y
    <3>1. d - q \in Nat /\ d = q + (d - q)
      BY <1>4, <2>1, <2>2
    <3> QED
      BY <3>1
  <2>4. (q + y) * n = q * n + y * n /\ y * n \in Nat
    BY <1>1, <1>4
  <2>5. d * n = q * n + y * n
    BY <2>3, <2>4
  <2> DEFINE x == q * n
             v == y * n
             u == d * n
  <2>6. x \in Nat /\ v \in Nat /\ u = x + v /\ position = u + 0 /\ z = x + m
    BY <1>4, <1>6, <2>1, <2>4, <2>5
  <2> HIDE DEF x, v, u
  <2> QED
    BY <1>1, <1>2, <1>4, <2>6
<1> QED
  BY <1>5, <1>7, <1>8 DEF n, L

(* The next word.                                                           *)
LEMMA WordIsFed ==
  ASSUME NEW p, stream = p.stream, p.stream \in Seq(Byte), word \in Nat, position \in Nat
  PROVE  Feed(p, WordAt(position), position) /\ Len(WordAt(position)) = word
<1>1. /\ WordAt(position) = [k \in 1 .. word |-> IF position + k <= Len(p.stream)
                                                 THEN p.stream[position + k] ELSE 0]
  BY DEF WordAt
<1>2. ASSUME NEW k \in 1 .. word
      PROVE  (IF position + k <= Len(p.stream) THEN p.stream[position + k] ELSE 0)
                = BlockByte(p, position + k)
             /\ BlockByte(p, position + k) \in Byte
  <2>1. 0 \in Byte
    BY StreamConstants DEF Byte
  <2>2. position + k \in 1 .. Len(p.stream) <=> position + k <= Len(p.stream)
    BY <1>2
  <2>3. position + k \in 1 .. Len(p.stream) => p.stream[position + k] \in Byte
    OBVIOUS
  <2> QED
    BY <2>1, <2>2, <2>3 DEF BlockByte
<1> DEFINE x == WordAt(position)
<1>3. x = [k \in 1 .. word |-> BlockByte(p, position + k)]
  BY <1>1, <1>2
<1> HIDE DEF x
<1>4. x \in Seq(Byte) /\ Len(x) = word /\ \A k \in 1 .. word : x[k] = BlockByte(p, position + k)
  BY <1>2, <1>3
<1> QED
  BY <1>4 DEF Feed, x

(* A stream of the compressor that is read to its end leaves the engine     *)
(* wanting nothing.                                                         *)
LEMMA NothingWanted ==
  ASSUME NEW p, Script(p), p.exact, NEW e \in Engine, NEW c \in Nat, Place(p, e, c),
         e.state \notin {OUTPUT_CMP, OUTPUT_NONE_REPEAT}
  PROVE  c < Len(p.stream)
<1>1. /\ Len(p.stream) \in Nat
      /\ \A k \in 1 .. Count(p) + 1 : p.start[k] \in Nat /\ p.start[k] <= Len(p.stream)
      /\ p.start[1] \in Nat /\ p.start[1] <= Len(p.stream)
  <2>1. 1 \in 1 .. Count(p) + 1
    BY DEF Script
  <2> QED
    BY <2>1, Starts
<1>2. ASSUME NEW k \in 1 .. Count(p)
      PROVE  /\ p.start[k] \in Nat /\ FlagEnd(p, k) \in Nat /\ DataEnd(p, k) \in Nat
             /\ FlagEnd(p, k) = p.start[k] + Len(FlagBytes(p.tokens[k]))
             /\ DataEnd(p, k) = FlagEnd(p, k) + Len(p.tokens[k].data)
             /\ p.start[k + 1] = DataEnd(p, k) + Len(CountBytes(p.tokens[k]))
             /\ Len(p.tokens[k].data) \in Nat /\ Len(CountBytes(p.tokens[k])) \in Nat
             /\ p.start[k + 1] <= Len(p.stream) /\ p.start[k + 1] \in Nat
             /\ FlagEnd(p, k) <= DataEnd(p, k) /\ DataEnd(p, k) <= p.start[k + 1]
  <2>1. k + 1 \in 1 .. Count(p) + 1
    BY NextToken
  <2>2. /\ WellFormed(p.tokens[k]) /\ p.start[k] \in Nat /\ FlagEnd(p, k) \in Nat
        /\ DataEnd(p, k) \in Nat /\ FlagEnd(p, k) = p.start[k] + Len(FlagBytes(p.tokens[k]))
        /\ DataEnd(p, k) = FlagEnd(p, k) + Len(p.tokens[k].data)
        /\ Len(p.tokens[k].data) \in Nat
        /\ p.start[k + 1] = DataEnd(p, k) + Len(CountBytes(p.tokens[k]))
    BY TokenParts
  <2>3. Len(CountBytes(p.tokens[k])) \in Nat
    BY <2>2, TokenBytesAre
  <2>4. p.start[k + 1] \in Nat /\ p.start[k + 1] <= Len(p.stream)
    BY <1>1, <2>1
  <2> DEFINE g == Len(p.tokens[k].data)
             h == Len(CountBytes(p.tokens[k]))
  <2>5. /\ g \in Nat /\ h \in Nat /\ FlagEnd(p, k) \in Nat /\ DataEnd(p, k) \in Nat
        /\ DataEnd(p, k) = FlagEnd(p, k) + g /\ p.start[k + 1] = DataEnd(p, k) + h
    BY <2>2, <2>3
  <2> HIDE DEF g, h
  <2>6. FlagEnd(p, k) <= DataEnd(p, k) /\ DataEnd(p, k) <= p.start[k + 1]
    BY <2>5
  <2> QED
    BY <2>2, <2>3, <2>4, <2>6
<1>3. \A w, s : s \in Nat /\ w \in Seq(Byte) /\ Reading(e, c, w, s) => c < s + Len(w)
  <2> TAKE w, s
  <2> SUFFICES ASSUME s \in Nat, w \in Seq(Byte), Reading(e, c, w, s)
               PROVE  c < s + Len(w)
    OBVIOUS
  <2>1. PICK m \in Nat : m < Len(w) /\ c = s + m
    BY DEF Reading
  <2>2. Len(w) \in Nat
    OBVIOUS
  <2> QED
    BY <2>1, <2>2
<1>4. /\ Len(Identifier) \in Nat /\ SizeBytes(p) \in Seq(Byte) /\ Len(SizeBytes(p)) > 0
      /\ CompressedBytes(p) \in Seq(Byte) /\ Len(CompressedBytes(p)) > 0
      /\ SizeEnd(p) = Len(Identifier) + Len(SizeBytes(p)) /\ SizeEnd(p) \in Nat
      /\ p.start[1] = SizeEnd(p) + Len(CompressedBytes(p))
      /\ Len(Identifier) < SizeEnd(p) /\ SizeEnd(p) < p.start[1]
  <2>1. /\ p.original_size \in Nat /\ p.compress_size \in Nat
        /\ p.start[1] = SizeEnd(p) + Len(CompressedBytes(p))
    BY DEF Script, HeaderLies
  <2>2. /\ SizeBytes(p) \in Seq(Byte) /\ Len(SizeBytes(p)) > 0
        /\ CompressedBytes(p) \in Seq(Byte) /\ Len(CompressedBytes(p)) > 0
    BY <2>1, Written DEF SizeBytes, CompressedBytes, IsNumber
  <2>3. Len(Identifier) \in Nat
    BY StreamConstants
  <2>4. SizeEnd(p) = Len(Identifier) + Len(SizeBytes(p))
    BY DEF SizeEnd
  <2> DEFINE g == Len(SizeBytes(p))
             h == Len(CompressedBytes(p))
             i == Len(Identifier)
  <2>5. g \in Nat /\ h \in Nat /\ i \in Nat /\ g > 0 /\ h > 0 /\ SizeEnd(p) = i + g
        /\ p.start[1] = SizeEnd(p) + h
    BY <2>1, <2>2, <2>3, <2>4
  <2> HIDE DEF g, h, i
  <2>6. SizeEnd(p) \in Nat /\ i < SizeEnd(p) /\ SizeEnd(p) < p.start[1]
    BY <2>5
  <2> QED
    BY <2>1, <2>2, <2>3, <2>4, <2>6 DEF i
<1>5. CASE e.state = GET_IDENTIFIER
  <2>1. c <= Len(Identifier)
    BY <1>5 DEF Place, AtIdentifier
  <2> QED
    BY <1>1, <1>4, <2>1
<1>6. CASE e.state = GET_ORIGINAL_SIZE
  <2>1. c < SizeEnd(p)
    BY <1>3, <1>4, <1>6 DEF Place, AtOriginalSize
  <2> QED
    BY <1>1, <1>4, <2>1
<1>7. CASE e.state = GET_COMPRESS_SIZE
  <2>1. c < p.start[1]
    BY <1>3, <1>4, <1>7 DEF Place, AtCompressSize
  <2> QED
    BY <1>1, <2>1
<1>8. CASE e.state = GET_FLAG
  <2>1. PICK k \in 1 .. Count(p) + 1 :
          Reading(e, c, NextFlag(p, k), p.start[k]) /\ k # Count(p) + 1
    BY <1>8 DEF Place, AtFlag
  <2>2. k \in 1 .. Count(p)
    BY <2>1 DEF Script
  <2>3. NextFlag(p, k) = FlagBytes(p.tokens[k])
    BY <2>1 DEF NextFlag
  <2>4. FlagBytes(p.tokens[k]) \in Seq(Byte)
    BY <2>2, TokenParts, TokenBytesAre
  <2>5. c < FlagEnd(p, k)
    BY <1>2, <1>3, <2>1, <2>2, <2>3, <2>4
  <2>6. /\ FlagEnd(p, k) \in Nat /\ DataEnd(p, k) \in Nat /\ p.start[k + 1] \in Nat
        /\ FlagEnd(p, k) <= DataEnd(p, k) /\ DataEnd(p, k) <= p.start[k + 1]
        /\ p.start[k + 1] <= Len(p.stream)
    BY <1>2, <2>2
  <2> QED
    BY <1>1, <2>5, <2>6
<1>9. CASE e.state = GET_VARIABLE
  <2>1. PICK k \in 1 .. Count(p) : VariableIn(p, e, c, k)
    BY <1>9 DEF Place, AtVariable
  <2>2. WellFormed(p.tokens[k])
    BY TokenParts
  <2>3. c = FlagEnd(p, k) /\ Len(p.tokens[k].data) = 1
    BY <2>1, <2>2 DEF VariableIn, WellFormed
  <2>4. /\ FlagEnd(p, k) \in Nat /\ DataEnd(p, k) \in Nat /\ p.start[k + 1] \in Nat
        /\ DataEnd(p, k) = FlagEnd(p, k) + Len(p.tokens[k].data)
        /\ DataEnd(p, k) <= p.start[k + 1] /\ p.start[k + 1] <= Len(p.stream)
    BY <1>2
  <2> QED
    BY <1>1, <2>3, <2>4
<1>10. CASE e.state = GET_REPEAT
  <2>1. PICK k \in 1 .. Count(p) : RepeatIn(p, e, c, k)
    BY <1>10 DEF Place, AtRepeat
  <2>2. Reading(e, c, CountBytes(p.tokens[k]), DataEnd(p, k))
    BY <2>1 DEF RepeatIn
  <2>3. CountBytes(p.tokens[k]) \in Seq(Byte)
    BY TokenParts, TokenBytesAre
  <2>4. c < p.start[k + 1]
    BY <1>2, <1>3, <2>2, <2>3
  <2>5. p.start[k + 1] \in Nat /\ p.start[k + 1] <= Len(p.stream)
    BY <1>2
  <2> QED
    BY <1>1, <2>4, <2>5
<1>11. CASE e.state = OUTPUT_NONE
  <2>1. PICK k \in 1 .. Count(p) : NoneIn(p, e, c, k)
    BY <1>11 DEF Place, AtNone
  <2>2. WellFormed(p.tokens[k])
    BY TokenParts
  <2>3. /\ c = FlagEnd(p, k) + e.flag_index /\ e.flag_index < p.tokens[k].length
        /\ Len(p.tokens[k].data) = p.tokens[k].length
    BY <2>1, <2>2 DEF NoneIn, WellFormed
  <2>4. /\ FlagEnd(p, k) \in Nat /\ DataEnd(p, k) \in Nat /\ p.start[k + 1] \in Nat
        /\ DataEnd(p, k) = FlagEnd(p, k) + Len(p.tokens[k].data)
        /\ DataEnd(p, k) <= p.start[k + 1] /\ p.start[k + 1] <= Len(p.stream)
        /\ Len(p.tokens[k].data) \in Nat
    BY <1>2
  <2>5. e.flag_index \in Nat
    BY DEF Engine
  <2> DEFINE g == FlagEnd(p, k)
             d == DataEnd(p, k)
             s == p.start[k + 1]
             i == e.flag_index
             l == Len(p.tokens[k].data)
  <2>6. /\ g \in Nat /\ d \in Nat /\ s \in Nat /\ i \in Nat /\ l \in Nat
        /\ c = g + i /\ i < l /\ d = g + l /\ d <= s /\ s <= Len(p.stream)
    BY <2>3, <2>4, <2>5
  <2> HIDE DEF g, d, s, i, l
  <2> QED
    BY <1>1, <2>6
<1>12. CASE e.state = ERROR_STATE
  BY <1>12 DEF Place
<1>13. e.state \in {GET_IDENTIFIER, GET_ORIGINAL_SIZE, GET_COMPRESS_SIZE, GET_FLAG,
             GET_VARIABLE, GET_REPEAT, OUTPUT_CMP, OUTPUT_NONE, OUTPUT_NONE_REPEAT, ERROR_STATE}
  BY DEF Engine
<1> QED
  BY <1>5, <1>6, <1>7, <1>8, <1>9, <1>10, <1>11, <1>12, <1>13

-----------------------------------------------------------------------------
(* The caller's steps.                                                      *)

(* The fields of the engine that say where it is.                           *)
SamePlace(e, f) ==
  /\ f.state = e.state /\ f.done = e.done
  /\ f.total_input = e.total_input /\ f.total_output = e.total_output
  /\ f.identifier = e.identifier
  /\ f.original_size = e.original_size /\ f.compress_size = e.compress_size
  /\ f.flag = e.flag /\ f.flag_repeat = e.flag_repeat /\ f.flag_index = e.flag_index
  /\ f.flag_size = e.flag_size /\ f.repeat_index = e.repeat_index
  /\ f.repeat_size = e.repeat_size /\ f.variable_u64 = e.variable_u64
  /\ f.variable = e.variable /\ f.none_data = e.none_data

(* The place is in those fields alone.                                      *)
LEMMA PlaceStays ==
  ASSUME NEW p, NEW c, NEW e, NEW f, SamePlace(e, f), Place(p, e, c)
  PROVE  Place(p, f, c)
<1>1. \A w, s : Reading(e, c, w, s) => Reading(f, c, w, s)
  BY DEF SamePlace, Reading
<1>2. Untouched(e) => Untouched(f)
  BY DEF SamePlace, Untouched
<1>3. Sized(p, e, c) => Sized(p, f, c)
  BY DEF SamePlace, Sized
<1>4. \A t : InToken(e, t) => InToken(f, t)
  BY DEF SamePlace, InToken
<1>5. \A t, from, q : Writing(e, t, from, q) => Writing(f, t, from, q)
  BY DEF SamePlace, Writing
<1>6. AtIdentifier(p, e, c) => AtIdentifier(p, f, c)
  BY <1>2 DEF SamePlace, AtIdentifier
<1>7. AtOriginalSize(p, e, c) => AtOriginalSize(p, f, c)
  BY <1>1, <1>2 DEF AtOriginalSize
<1>8. AtCompressSize(p, e, c) => AtCompressSize(p, f, c)
  BY <1>1, <1>2 DEF SamePlace, AtCompressSize
<1>9. AtFlag(p, e, c) => AtFlag(p, f, c)
  BY <1>1, <1>3 DEF SamePlace, AtFlag
<1>10. AtVariable(p, e, c) => AtVariable(p, f, c)
  BY <1>3, <1>4 DEF SamePlace, AtVariable, VariableIn
<1>11. AtRepeat(p, e, c) => AtRepeat(p, f, c)
  BY <1>1, <1>3, <1>4 DEF SamePlace, AtRepeat, RepeatIn
<1>12. AtCmp(p, e, c) => AtCmp(p, f, c)
  BY <1>3, <1>4, <1>5 DEF SamePlace, AtCmp, CmpIn
<1>13. AtNone(p, e, c) => AtNone(p, f, c)
  BY <1>3, <1>4 DEF SamePlace, AtNone, NoneIn
<1>14. AtNoneRepeat(p, e, c) => AtNoneRepeat(p, f, c)
  BY <1>3, <1>4, <1>5 DEF SamePlace, AtNoneRepeat, NoneRepeatIn
<1> QED
  BY <1>6, <1>7, <1>8, <1>9, <1>10, <1>11, <1>12, <1>13, <1>14 DEF SamePlace, Place

(* Only a call under way has turns.                                         *)
LEMMA TurnsRun ==
  ASSUME EngineNext
  PROVE  running
BY DEF EngineNext, get_identifier, get_information, get_flag, get_variable, get_repeat,
       output_cmp, output_none, output_none_repeat, Produce, ErrorState, Turn

(* A sequence cut in two.                                                   *)
CutAt(x, m, r, u, v) ==
  /\ x \in Seq(Byte) /\ m \in Nat /\ r \in Nat /\ Len(x) = m + r
  /\ u = SubSeq(x, 1, m) /\ v = SubSeq(x, m + 1, Len(x))

(* Its parts, one behind the other, are the sequence.                       *)
LEMMA CutInTwo ==
  ASSUME NEW x, NEW m, NEW r, NEW u, NEW v, CutAt(x, m, r, u, v)
  PROVE  /\ u \in Seq(Byte) /\ Len(u) = m
         /\ v \in Seq(Byte) /\ Len(v) = r
         /\ u \o v = x
<1>0. /\ x \in Seq(Byte) /\ m \in Nat /\ r \in Nat /\ Len(x) = m + r
      /\ u = SubSeq(x, 1, m) /\ v = SubSeq(x, m + 1, Len(x))
  BY DEF CutAt
<1>1. /\ u \in Seq(Byte) /\ Len(u) = m /\ \A k \in 1 .. m : u[k] = x[k]
  BY <1>0
<1>2. /\ v \in Seq(Byte) /\ Len(v) = r
  BY <1>0
<1>3. \A k \in 1 .. r : v[k] = x[m + k]
  <2> TAKE k \in 1 .. r
  <2>1. (m + 1) + k - 1 = m + k /\ k \in 1 .. (m + r) + 1 - (m + 1)
    BY <1>0
  <2> QED
    BY <1>0, <2>1
<1>4. u \o v \in Seq(Byte) /\ Len(u \o v) = m + r
  BY <1>0, <1>1, <1>2
<1>5. \A k \in 1 .. m : (u \o v)[k] = u[k]
  BY <1>0, <1>1, <1>2
<1>6. \A k \in 1 .. r : (u \o v)[m + k] = v[k]
  <2>1. \A k \in 1 .. Len(v) : (u \o v)[Len(u) + k] = v[k]
    BY <1>1, <1>2, Joined
  <2> QED
    BY <1>0, <1>1, <1>2, <2>1
<1>7. ASSUME NEW k \in 1 .. m + r PROVE (u \o v)[k] = x[k]
  <2>1. CASE k \in 1 .. m
    BY <1>1, <1>5, <2>1
  <2>2. CASE k \notin 1 .. m
    <3>1. k - m \in 1 .. r /\ m + (k - m) = k
      BY <1>0, <2>2
    <3> QED
      BY <1>3, <1>6, <3>1
  <2> QED
    BY <2>1, <2>2
<1> QED
  BY <1>0, <1>1, <1>2, <1>4, <1>7, SameBytes

(* The whole words are moved, what makes none remains.                      *)
LEMMA CollectIs ==
  ASSUME word \in Nat \ {0}, written \in Seq(Byte), remains \in Seq(Byte), output \in Seq(Byte),
         Len(written) % word = 0, Collect(remains \o output)
  PROVE  /\ written' \in Seq(Byte) /\ remains' \in Seq(Byte)
         /\ Len(remains') < word /\ Len(written') % word = 0
         /\ written' \o remains' = (written \o remains) \o output
<1> DEFINE x == remains \o output
           r == Len(x) % word
           m == Len(x) - r
           u == SubSeq(x, 1, m)
           v == SubSeq(x, m + 1, Len(x))
<1>1. x \in Seq(Byte) /\ Len(x) \in Nat
  OBVIOUS
<1>2. written' = written \o u /\ remains' = v
  BY DEF Collect
<1> HIDE DEF x
<1>3. PICK q \in Nat : Len(x) = q * word + r /\ r \in 0 .. word - 1
  BY <1>1, Divide
<1> HIDE DEF r
<1>4. q * word \in Nat /\ m = q * word /\ m \in Nat /\ Len(x) = m + r /\ r \in Nat
  <2>1. q * word \in Nat
    BY <1>3
  <2> DEFINE y == q * word
  <2>2. y \in Nat /\ Len(x) = y + r /\ r \in Nat
    BY <1>3, <2>1
  <2> HIDE DEF y
  <2>3. m = y /\ m \in Nat /\ Len(x) = m + r
    BY <1>1, <2>2
  <2> QED
    BY <2>1, <2>2, <2>3 DEF y
<1> HIDE DEF m
<1>a. u = SubSeq(x, 1, m) /\ v = SubSeq(x, m + 1, Len(x))
  OBVIOUS
<1> HIDE DEF u, v
<1>b. CutAt(x, m, r, u, v)
  BY <1>1, <1>4, <1>a DEF CutAt
<1>5. u \in Seq(Byte) /\ Len(u) = m /\ v \in Seq(Byte) /\ Len(v) = r
  BY <1>b, CutInTwo
<1>6. u \o v = x
  BY <1>b, CutInTwo
<1>7. written' \o remains' = (written \o remains) \o output
  <2>1. (written \o u) \o v = written \o (u \o v)
    BY <1>5, InARow
  <2>2. (written \o remains) \o output = written \o x
    BY InARow DEF x
  <2> QED
    BY <1>2, <1>6, <2>1, <2>2
<1>8. Len(written') % word = 0
  <2>1. PICK a \in Nat : Len(written) = a * word + 0
    <3>1. Len(written) \in Nat
      OBVIOUS
    <3> QED
      BY <3>1, Divide
  <2>2. Len(written') = Len(written) + m
    BY <1>2, <1>5, Joined
  <2>3. (a + q) * word = a * word + q * word /\ a * word \in Nat
    BY <1>3
  <2>4. Len(written') = (a + q) * word /\ a + q \in Nat
    BY <1>3, <1>4, <2>1, <2>2, <2>3
  <2> DEFINE z == a + q
  <2>5. Len(written') = z * word /\ z \in Nat
    BY <2>4
  <2> HIDE DEF z
  <2>6. Len(written') = z * word + 0 /\ 0 \in 0 .. word - 1 /\ Len(written') \in Nat
    <3> DEFINE y == z * word
    <3>1. y \in Nat /\ Len(written') = y
      BY <2>5
    <3> HIDE DEF y
    <3>2. Len(written') = y + 0 /\ 0 \in 0 .. word - 1 /\ Len(written') \in Nat
      BY <3>1
    <3> QED
      BY <3>2 DEF y
  <2> QED
    <3>1. word \in Nat \ {0} /\ z \in Nat
      BY <2>5
    <3> QED
      BY <2>6, <3>1, DivideIs, Zenon
<1>9. written' \in Seq(Byte)
  BY <1>2, <1>5, Joined
<1> QED
  BY <1>2, <1>3, <1>4, <1>5, <1>7, <1>8, <1>9

(* What Caller says whatever the caller is at.                              *)
LEMMA CallerIs ==
  ASSUME NEW p, Caller(p)
  PROVE  /\ Script(p) /\ stream = p.stream /\ original = p.original /\ exact = p.exact
         /\ word \in Words /\ buffer \in BufferSizes
         /\ word \in Nat \ {0} /\ buffer \in Nat /\ word <= buffer /\ Block \in Nat \ {0}
         /\ position \in Nat /\ written \in Seq(Byte) /\ remains \in Seq(Byte)
         /\ Len(remains) \in Nat /\ Len(remains) < word /\ Len(written) % word = 0
         /\ written \o remains \in Seq(Byte)
         /\ p.stream \in Seq(Byte) /\ p.original \in Seq(Byte)
<1>1. word \in Words /\ buffer \in BufferSizes
  BY DEF Caller
<1>2. word \in Nat \ {0} /\ buffer \in Nat /\ word <= buffer /\ Block \in Nat \ {0}
  BY <1>1, SizesAre
<1>3. p.stream \in Seq(Byte) /\ p.original \in Seq(Byte)
  BY DEF Caller, Script
<1> QED
  BY <1>1, <1>2, <1>3 DEF Caller

(* The same sizes and the same payload.                                     *)
LEMMA CallerStays ==
  ASSUME NEW p, Caller(p), UNCHANGED <<original, stream, exact, word, buffer>>,
         position' \in Nat, written' \in Seq(Byte), remains' \in Seq(Byte),
         Len(remains') < word, Len(written') % word = 0,
         \/ pc' = "process" /\ During(p)'
         \/ pc' \in {"word", "block"} /\ Between(p)'
         \/ pc' = "over" /\ Ended(p)'
  PROVE  Caller(p)'
<1>1. /\ Script(p) /\ stream = p.stream /\ original = p.original /\ exact = p.exact
      /\ word \in Words /\ buffer \in BufferSizes
  BY CallerIs
<1> HIDE DEF During, Between, Ended
<1> QED
  BY <1>1 DEF Caller

(* The engine gets the next word.                                           *)
LEMMA NextWordKeeps ==
  ASSUME NEW p, Caller(p), NextWord
  PROVE  Caller(p)'
<1>1. /\ pc = "word" /\ Between(p) /\ ~Settled /\ ProcessEntry(WordAt(position), buffer - Len(remains))
      /\ pc' = "process" /\ position' = position + word /\ decompression_status' = GOOD
      /\ UNCHANGED <<original, stream, exact, word, buffer, written, remains, status>>
  BY DEF NextWord, Caller
<1>2. /\ engine \in Engine /\ engine.status \in {GOOD, NEED_INPUT} /\ status = TRUE
      /\ Place(p, engine, position) /\ ~engine.done
      /\ engine.status = GOOD => engine.input_index = 0 /\ ~engine.need_more_input
      /\ Begins(p, written \o remains) /\ engine.total_output = Len(written \o remains)
  <2>1. engine.status \in {GOOD, NEED_INPUT} /\ engine.status # ERROR
    BY <1>1 DEF Settled, Between, GOOD, NEED_INPUT, DONE, ERROR
  <2> QED
    BY <1>1, <2>1 DEF Between
<1>3. /\ engine' \in Engine /\ engine'.status = GOOD /\ engine'.input_index = 0
      /\ ~engine'.need_more_input /\ SamePlace(engine, engine')
  <2>1. CASE engine.status = GOOD
    <3>1. engine' = engine
      BY <1>1, <1>2, <2>1 DEF ProcessEntry, GOOD, NEED_INPUT, DONE
    <3> QED
      BY <1>2, <2>1, <3>1 DEF SamePlace
  <2>2. CASE engine.status = NEED_INPUT
    <3>1. engine' = [engine EXCEPT !.input_index = 0, !.need_more_input = FALSE, !.status = GOOD]
      BY <1>1, <1>2, <2>2 DEF ProcessEntry, GOOD, NEED_INPUT, DONE
    <3> QED
      BY <1>2, <3>1 DEF SamePlace, Engine, GOOD
  <2> QED
    BY <1>2, <2>1, <2>2
<1>4. running' = TRUE /\ input' = WordAt(position) /\ output' = <<>> /\ room' = buffer - Len(remains)
  BY <1>1, <1>3 DEF ProcessEntry
<1>5. Feed(p, input', position) /\ Len(input') = word /\ input' \in Seq(Byte)
  <2>1. Feed(p, WordAt(position), position) /\ Len(WordAt(position)) = word
    BY CallerIs, WordIsFed
  <2> QED
    BY <1>4, <2>1 DEF Feed
<1>6. room' \in Nat /\ room' > 0
  <2> DEFINE l == Len(remains)
  <2>1. l \in Nat /\ l < word /\ word <= buffer /\ buffer \in Nat /\ word \in Nat
    BY CallerIs
  <2>2. room' = buffer - l
    BY <1>4
  <2> HIDE DEF l
  <2> QED
    BY <2>1, <2>2
<1>7. Place(p, engine', position)
  BY <1>2, <1>3, PlaceStays
<1>8. ~engine'.done /\ engine'.total_output = engine.total_output
  BY <1>2, <1>3 DEF SamePlace
<1> DEFINE s == written \o remains
<1>9. s \in Seq(Byte) /\ s \o <<>> = s
  BY CallerIs
<1>10. Midway(p, engine', input', position)
  <2>1. position + engine'.input_index = position /\ engine'.input_index <= Len(input')
    BY <1>3, <1>5, CallerIs
  <2> QED
    BY <1>3, <1>5, <1>7, <1>8, <2>1 DEF Midway
<1>11. Begins(p, s) /\ engine.total_output = Len(s)
  BY <1>2
<1> HIDE DEF s
<1>12. Call(p, position, s, engine', running', input', output', room')
  <2>1. output' \in Seq(Byte) /\ Len(output') = 0 /\ s \o output' = s
    BY <1>4, <1>9
  <2>2. Len(output') <= room' /\ Len(output') < room'
    BY <1>6, <2>1
  <2> QED
    BY <1>3, <1>4, <1>5, <1>6, <1>8, <1>10, <1>11, <2>1, <2>2
       DEF Call, GOOD, NEED_INPUT, DONE, ERROR
<1>13. During(p)'
  <2>1. written' \o remains' = s
    BY <1>1 DEF s
  <2>2. position' = position + Len(input') /\ position \in Nat
    BY <1>1, <1>5, CallerIs
  <2> QED
    BY <1>1, <1>2, <1>12, <2>1, <2>2 DEF During
<1>14. position' \in Nat
  BY <1>1, CallerIs
<1> HIDE DEF During
<1> QED
  BY <1>1, <1>13, <1>14, CallerIs, CallerStays

(* A word is passed that the engine does not want.                          *)
LEMMA PassWordKeeps ==
  ASSUME NEW p, Caller(p), PassWord
  PROVE  Caller(p)'
<1>1. /\ pc = "word" /\ Between(p) /\ Settled /\ position' = position + word
      /\ pc' = IF position' % Block = 0 THEN "block" ELSE "word"
      /\ UNCHANGED <<engine, running, input, room, output, original, stream, exact, word, buffer,
                     written, remains, decompression_status, status>>
  BY DEF PassWord, Caller, engineVars
<1>2. position' \in Nat /\ position <= position' /\ Block' = Block
  <2>1. position' \in Nat /\ position <= position'
    BY <1>1, CallerIs
  <2>2. Block' = Block
    BY <1>1 DEF Block
  <2> QED
    BY <2>1, <2>2
<1>3. engine.status \in {DONE, ERROR}
  BY <1>1 DEF Between, Settled
<1>4. engine.status = DONE => UsedUp(p, engine', position')
  <2> SUFFICES ASSUME engine.status = DONE PROVE UsedUp(p, engine', position')
    OBVIOUS
  <2>1. UsedUp(p, engine, position)
    BY <1>1 DEF Between
  <2>2. p.exact => Len(p.stream) <= position'
    <3>1. Len(p.stream) \in Nat
      BY CallerIs
    <3>2. p.exact => Len(p.stream) <= position
      BY <2>1 DEF UsedUp
    <3> QED
      BY <1>2, <3>1, <3>2, CallerIs
  <2> QED
    BY <1>1, <2>1, <2>2 DEF UsedUp
<1>5. pc' \in {"word", "block"} /\ (pc' = "block" => position' % Block' = 0)
  BY <1>1, <1>2
<1>6. Between(p)'
  BY <1>1, <1>3, <1>4, <1>5 DEF Between, GOOD, NEED_INPUT, DONE, ERROR
<1> HIDE DEF Between
<1> QED
  BY <1>1, <1>2, <1>5, <1>6, CallerIs, CallerStays

(* The engine has a turn.                                                   *)
LEMMA EngineTurnKeeps ==
  ASSUME NEW p, Caller(p), EngineTurn
  PROVE  Caller(p)'
<1>1. EngineNext /\ running
  BY TurnsRun DEF EngineTurn
<1>2. UNCHANGED <<pc, original, stream, exact, word, buffer, position, written, remains,
                  decompression_status, status>>
  BY DEF EngineTurn, callerVars
<1>3. pc = "process" /\ During(p)
  BY <1>1 DEF Caller, Between, Ended
<1>4. PICK b \in Nat : /\ position = b + Len(input)
                       /\ Call(p, b, written \o remains, engine, running, input, output, room)
  BY <1>3 DEF During
<1>5. Turning(p, b, written \o remains)
  BY <1>1, <1>4, CallerIs DEF Turning
<1>6. Call(p, b, written \o remains, engine', running', input', output', room')
  BY <1>1, <1>5, EngineKeeps
<1>7. input' = input
  BY <1>1 DEF EngineNext, get_identifier, get_information, get_flag, get_variable, get_repeat,
         output_cmp, output_none, output_none_repeat, Produce, ErrorState, Turn
<1>8. During(p)'
  <2>1. written' \o remains' = written \o remains /\ position' = b + Len(input')
    BY <1>2, <1>4, <1>7
  <2> QED
    BY <1>2, <1>3, <1>6, <2>1 DEF During
<1> HIDE DEF During
<1>9. /\ position' \in Nat /\ written' \in Seq(Byte) /\ remains' \in Seq(Byte)
      /\ Len(remains') < word /\ Len(written') % word = 0
  BY <1>2, CallerIs
<1> QED
  BY <1>2, <1>3, <1>8, <1>9, CallerStays

(* The beginning of a beginning is one.                                     *)
LEMMA BeginsBefore ==
  ASSUME NEW p, NEW s \in Seq(Byte), NEW t \in Seq(Byte), Begins(p, s \o t),
         p.original \in Seq(Byte)
  PROVE  Begins(p, s)
<1>1. /\ Len(s) \in Nat /\ Len(t) \in Nat /\ Len(s \o t) = Len(s) + Len(t)
      /\ \A k \in 1 .. Len(s) : (s \o t)[k] = s[k]
  BY Joined
<1>2. Len(s) <= Len(p.original)
  <2>1. Len(s \o t) <= Len(p.original) /\ Len(p.original) \in Nat
    BY DEF Begins
  <2> QED
    BY <1>1, <2>1
<1>3. \A k \in 1 .. Len(s) : k \in 1 .. Len(s \o t)
  BY <1>1
<1> QED
  BY <1>1, <1>2, <1>3 DEF Begins

(* One as long as the payload is the payload.                               *)
LEMMA BeginsWhole ==
  ASSUME NEW p, NEW s, Begins(p, s), Len(s) = Len(p.original), p.original \in Seq(Byte)
  PROVE  s = p.original
BY SameBytes DEF Begins

(* process has returned.                                                    *)
LEMMA ProcessReturnedKeeps ==
  ASSUME NEW p, Caller(p), ProcessReturned
  PROVE  Caller(p)' \/ pc' = "asserted"
<1> SUFFICES ASSUME pc' # "asserted" PROVE Caller(p)'
  OBVIOUS
<1> DEFINE s == written \o remains
<1>1. /\ pc = "process" /\ During(p) /\ ~running /\ decompression_status' = engine.status
      /\ UNCHANGED <<original, stream, exact, word, buffer, position>>
  BY DEF ProcessReturned, Caller
<1>2. PICK b \in Nat : position = b + Len(input)
                       /\ Call(p, b, s, engine, running, input, output, room)
  BY <1>1 DEF During
<1>3. engine.status # THROWN
  BY DEF ProcessReturned, GOOD, NEED_INPUT, DONE, ERROR, THROWN
<1>4. /\ engine \in Engine /\ input \in Seq(Byte) /\ output \in Seq(Byte) /\ room \in Nat
      /\ engine.status \in {GOOD, NEED_INPUT, DONE, ERROR} /\ status = TRUE
      /\ engine.status \in {GOOD, NEED_INPUT} => Midway(p, engine, input, b)
      /\ engine.status = NEED_INPUT => engine.need_more_input /\ output = <<>>
      /\ engine.status = DONE => UsedUp(p, engine, position)
      /\ engine.status = ERROR => ~p.exact
      /\ Begins(p, s \o output)
      /\ engine.status # ERROR => engine.total_output = Len(s \o output)
  <2>1. engine \in Engine
    BY <1>2 DEF Call
  <2>2. engine.status \in {GOOD, NEED_INPUT, DONE, ERROR}
    BY <1>3, <2>1 DEF Engine
  <2>3. engine.status = DONE => UsedUp(p, engine, position)
    BY <1>2 DEF Call
  <2>4. status = TRUE
    BY <1>1 DEF During
  <2>5. /\ engine.status \in {GOOD, NEED_INPUT} => Midway(p, engine, input, b)
        /\ engine.status = NEED_INPUT => engine.need_more_input /\ output = <<>>
        /\ engine.status = ERROR => ~p.exact
        /\ Begins(p, s \o output)
        /\ engine.status # ERROR => engine.total_output = Len(s \o output)
        /\ input \in Seq(Byte) /\ output \in Seq(Byte) /\ room \in Nat
    <3> HIDE DEF s
    <3> QED
      BY <1>2 DEF Call
  <2> HIDE DEF s
  <2> QED
    BY <2>1, <2>2, <2>3, <2>4, <2>5
<1>5. s \in Seq(Byte) /\ p.original \in Seq(Byte) /\ Block' = Block
  BY <1>1, CallerIs DEF Block
<1>6. /\ position' \in Nat /\ word \in Nat \ {0} /\ written \in Seq(Byte) /\ remains \in Seq(Byte)
      /\ Len(remains) < word /\ Len(written) % word = 0
  BY <1>1, CallerIs
<1>7. CASE engine.status \in {NEED_INPUT, ERROR}
  <2>1. /\ pc' = IF AtBlockEnd THEN "block" ELSE "word"
        /\ status' = (status /\ engine.status # ERROR)
        /\ UNCHANGED <<engine, running, input, room, output, written, remains>>
    BY <1>3, <1>7 DEF ProcessReturned, engineVars, GOOD, NEED_INPUT, DONE, ERROR, THROWN
  <2>2. pc' \in {"word", "block"} /\ (pc' = "block" => position' % Block' = 0)
    BY <1>1, <1>5, <2>1 DEF AtBlockEnd
  <2>3. Begins(p, s)
    BY <1>4, <1>5, BeginsBefore
  <2>4. CASE engine.status = NEED_INPUT
    <3>1. Midway(p, engine, input, b) /\ engine.need_more_input /\ output = <<>>
      BY <1>4, <2>4
    <3>2. /\ Place(p, engine, position) /\ ~engine.done
          /\ engine.state \notin {OUTPUT_CMP, OUTPUT_NONE_REPEAT}
      <4>1. engine.input_index = Len(input)
        BY <3>1 DEF Midway
      <4> QED
        BY <1>2, <3>1, <4>1 DEF Midway
    <3>3. engine.total_output = Len(s)
      <4>1. s \o output = s
        BY <1>5, <3>1
      <4> QED
        BY <1>4, <2>4, <4>1 DEF NEED_INPUT, ERROR
    <3>4. Between(p)'
      BY <1>1, <1>4, <2>1, <2>2, <2>3, <2>4, <3>2, <3>3
         DEF Between, GOOD, NEED_INPUT, DONE, ERROR
    <3> HIDE DEF Between
    <3> QED
      BY <1>1, <1>6, <2>1, <2>2, <3>4, CallerStays
  <2>5. CASE engine.status = ERROR
    <3>1. Between(p)'
      BY <1>1, <1>4, <2>1, <2>2, <2>3, <2>5 DEF Between, GOOD, NEED_INPUT, DONE, ERROR
    <3> HIDE DEF Between
    <3> QED
      BY <1>1, <1>6, <2>1, <2>2, <3>1, CallerStays
  <2> QED
    BY <1>7, <2>4, <2>5
<1>8. CASE engine.status \in {GOOD, DONE}
  <2>0. output # <<>>
    BY <1>8 DEF ProcessReturned, GOOD, NEED_INPUT, DONE, ERROR, THROWN
  <2>1. /\ Collect(remains \o output)
        /\ status' = status
        /\ IF engine.status = GOOD
             THEN ProcessEntry(input, buffer - Len(remains')) /\ pc' = pc
             ELSE /\ pc' = IF AtBlockEnd THEN "block" ELSE "word"
                  /\ UNCHANGED <<engine, running, input, room, output>>
    BY <1>8, <2>0 DEF ProcessReturned, engineVars, GOOD, NEED_INPUT, DONE, ERROR, THROWN
  <2>2. /\ written' \in Seq(Byte) /\ remains' \in Seq(Byte)
        /\ Len(remains') < word /\ Len(written') % word = 0
        /\ written' \o remains' = s \o output
    BY <1>4, <1>6, <2>1, CollectIs
  <2> DEFINE z == s \o output
  <2>3. z \in Seq(Byte) /\ Begins(p, z) /\ z \o <<>> = z /\ written' \o remains' = z
    BY <1>4, <1>5, <2>2
  <2>4. engine.total_output = Len(z)
    BY <1>4, <1>8 DEF GOOD, DONE, ERROR
  <2> HIDE DEF z, s
  <2>5. CASE engine.status = GOOD
    <3>1. /\ ProcessEntry(input, buffer - Len(remains')) /\ pc' = "process"
      BY <1>1, <2>1, <2>5
    <3> DEFINE n == engine.need_more_input
    <3>2. /\ input' = input /\ output' = <<>> /\ room' = buffer - Len(remains')
          /\ engine' = IF n THEN [engine EXCEPT !.status = NEED_INPUT] ELSE engine
          /\ running' = (engine'.status = GOOD)
      BY <2>5, <3>1 DEF ProcessEntry, GOOD, NEED_INPUT, DONE
    <3>3. room' \in Nat /\ room' > 0
      <4> DEFINE l == Len(remains')
      <4>1. l \in Nat /\ l < word /\ word <= buffer /\ buffer \in Nat /\ word \in Nat
            /\ room' = buffer - l
        BY <2>2, <3>2, CallerIs
      <4> HIDE DEF l
      <4> QED
        BY <4>1
    <3>4. /\ engine' \in Engine /\ SamePlace(engine, engine')
          /\ engine'.input_index = engine.input_index
          /\ engine'.need_more_input = engine.need_more_input
          /\ engine'.status = IF n THEN NEED_INPUT ELSE GOOD
      <4>1. CASE n
        <5>1. engine' = [engine EXCEPT !.status = NEED_INPUT]
          BY <3>2, <4>1
        <5> QED
          BY <1>4, <4>1, <5>1 DEF Engine, SamePlace, NEED_INPUT
      <4>2. CASE ~n
        <5>1. engine' = engine
          BY <3>2, <4>2
        <5> QED
          BY <1>4, <2>5, <4>2, <5>1 DEF SamePlace
      <4> QED
        BY <4>1, <4>2
    <3>5. Midway(p, engine', input', b)
      <4>1. Midway(p, engine, input, b)
        BY <1>4, <2>5
      <4>2. Place(p, engine', b + engine'.input_index)
        BY <3>4, <4>1, PlaceStays DEF Midway
      <4> QED
        BY <3>2, <3>4, <4>1, <4>2 DEF Midway, SamePlace
    <3>6. Call(p, b, z, engine', running', input', output', room')
      <4>1. output' \in Seq(Byte) /\ Len(output') = 0 /\ z \o output' = z
        BY <2>3, <3>2
      <4>2. Len(output') <= room' /\ Len(output') < room'
        BY <3>3, <4>1
      <4>3. engine'.total_output = Len(z \o output')
        BY <2>4, <3>4, <4>1 DEF SamePlace
      <4>4. engine'.status \in {GOOD, NEED_INPUT}
            /\ (engine'.status = NEED_INPUT => engine'.need_more_input)
        BY <3>4 DEF GOOD, NEED_INPUT
      <4>5. input' \in Seq(Byte)
        BY <1>4, <3>2
      <4>6. output' = <<>> /\ (running' => engine'.status = GOOD)
        BY <3>2
      <4> QED
        BY <2>3, <3>3, <3>4, <3>5, <4>1, <4>2, <4>3, <4>4, <4>5, <4>6
           DEF Call, GOOD, NEED_INPUT, DONE, ERROR
    <3>7. position' = b + Len(input') /\ status' = TRUE /\ decompression_status' = GOOD
      BY <1>1, <1>2, <1>4, <2>1, <2>5, <3>2
    <3>8. During(p)'
      BY <2>3, <3>6, <3>7 DEF During
    <3> HIDE DEF During
    <3> QED
      BY <1>1, <1>6, <2>2, <3>1, <3>8, CallerStays
  <2>6. CASE engine.status = DONE
    <3>1. /\ pc' = IF AtBlockEnd THEN "block" ELSE "word"
          /\ UNCHANGED <<engine, running, input, room, output>>
      BY <2>1, <2>6 DEF GOOD, DONE
    <3>2. pc' \in {"word", "block"} /\ (pc' = "block" => position' % Block' = 0)
      BY <1>1, <1>5, <3>1 DEF AtBlockEnd
    <3>3. UsedUp(p, engine', position')
      BY <1>1, <1>4, <2>6, <3>1
    <3>4. Between(p)'
      BY <1>1, <1>4, <2>1, <2>3, <2>4, <2>6, <3>1, <3>2, <3>3
         DEF Between, GOOD, NEED_INPUT, DONE, ERROR
    <3> HIDE DEF Between
    <3> QED
      BY <1>1, <1>6, <2>2, <3>2, <3>4, CallerStays
  <2> QED
    BY <1>8, <2>5, <2>6
<1> QED
  BY <1>4, <1>7, <1>8

(* The end of a block: the verdict.                                         *)
LEMMA EndBlockKeeps ==
  ASSUME NEW p, Caller(p), EndBlock
  PROVE  Caller(p)'
<1> DEFINE s == written \o remains
<1>1. /\ pc = "block" /\ Between(p)
      /\ decompression_status' = (IF BlockFails THEN ERROR ELSE decompression_status)
      /\ status' = (status /\ ~BlockFails)
      /\ pc' = (IF status' /\ ~LastBlock THEN "word" ELSE "over")
      /\ UNCHANGED <<engine, running, input, room, output, original, stream, exact, word, buffer,
                     position, written, remains>>
  BY DEF EndBlock, Caller, engineVars
<1>2. /\ position' \in Nat /\ written' \in Seq(Byte) /\ remains' \in Seq(Byte)
      /\ Len(remains') < word /\ Len(written') % word = 0
  BY <1>1, CallerIs
<1>3. /\ engine.status \in {NEED_INPUT, DONE, ERROR} /\ decompression_status = engine.status
      /\ engine.status = DONE => UsedUp(p, engine, position)
      /\ engine.status = NEED_INPUT => /\ Place(p, engine, position) /\ engine \in Engine
                                       /\ engine.state \notin {OUTPUT_CMP, OUTPUT_NONE_REPEAT}
      /\ engine.status = ERROR => ~p.exact
      /\ status \in BOOLEAN /\ (status <=> engine.status # ERROR)
      /\ Begins(p, s) /\ (engine.status # ERROR => engine.total_output = Len(s))
      /\ position % Block = 0 /\ ~running
  BY <1>1 DEF Between, GOOD, NEED_INPUT
<1>4. CASE pc' = "word"
  <2>1. status' /\ ~LastBlock /\ ~BlockFails
    BY <1>1, <1>4
  <2>2. decompression_status' = engine.status /\ status' = status
    BY <1>1, <1>3, <2>1
  <2>3. Between(p)'
    BY <1>1, <1>3, <1>4, <2>2 DEF Between, GOOD, NEED_INPUT, DONE, ERROR
  <2> HIDE DEF Between
  <2> QED
    BY <1>1, <1>2, <1>4, <2>3, CallerStays
<1>5. CASE pc' = "over"
  <2>1. /\ Script(p) /\ stream = p.stream /\ original = p.original /\ exact = p.exact
        /\ word \in Words /\ buffer \in BufferSizes /\ position \in Nat
        /\ written \in Seq(Byte) /\ remains \in Seq(Byte) /\ word \in Nat \ {0}
        /\ Len(remains) \in Nat /\ Len(remains) < word /\ Len(written) % word = 0
        /\ p.original \in Seq(Byte) /\ Len(stream) \in Nat
    <3>1. p.stream \in Seq(Byte) /\ stream = p.stream
      BY CallerIs
    <3>2. Len(stream) \in Nat
      BY <3>1
    <3> QED
      BY <3>2, CallerIs
  <2>2. engine.status = DONE => /\ s = p.original
                                /\ engine.original_size = Len(p.original)
                                /\ engine.total_input = engine.compress_size
                                /\ p.exact => LastBlock
    <3> SUFFICES ASSUME engine.status = DONE
                 PROVE  /\ s = p.original
                        /\ engine.original_size = Len(p.original)
                        /\ engine.total_input = engine.compress_size
                        /\ p.exact => LastBlock
      OBVIOUS
    <3>1. UsedUp(p, engine, position) /\ engine.total_output = Len(s) /\ Begins(p, s)
      BY <1>3 DEF DONE, ERROR
    <3>2. s = p.original
      BY <2>1, <3>1, BeginsWhole DEF UsedUp
    <3>3. p.exact => LastBlock
      BY <2>1, <3>1, LastBlockIs DEF UsedUp
    <3> QED
      BY <3>1, <3>2, <3>3 DEF UsedUp
  <2>3. p.exact => engine.status = DONE
    <3> SUFFICES ASSUME p.exact, engine.status = NEED_INPUT PROVE FALSE
      BY <1>3
    <3>1. LastBlock
      BY <1>1, <1>3, <1>5 DEF BlockFails, NEED_INPUT, DONE, ERROR
    <3>2. Len(stream) <= position
      BY <1>3, <2>1, <3>1, LastBlockIs
    <3>3. position < Len(p.stream)
      BY <1>3, <2>1, NothingWanted
    <3> QED
      BY <2>1, <3>2, <3>3
  <2>4. Len(s) % word = 0 <=> remains = <<>>
    <3> DEFINE l == Len(remains)
               n == Len(written)
    <3>1. l \in Nat /\ n \in Nat /\ Len(s) = n + l /\ l < word /\ n % word = 0
      BY <2>1, Joined
    <3>3. l = 0 <=> remains = <<>>
      BY <2>1
    <3> HIDE DEF l, n
    <3>2. PICK q \in Nat : n = q * word + 0
      <4>1. n = (n \div word) * word + (n % word) /\ n \div word \in Nat
        BY <2>1, <3>1, Divide
      <4> QED
        BY <3>1, <4>1
    <3>4. Len(s) = q * word + l /\ Len(s) \in Nat /\ l \in 0 .. word - 1
      <4> DEFINE y == q * word
      <4>1. y \in Nat /\ n = y
        BY <2>1, <3>2
      <4> HIDE DEF y
      <4>2. Len(s) = y + l /\ Len(s) \in Nat /\ l \in 0 .. word - 1
        BY <2>1, <3>1, <4>1
      <4> QED
        BY <4>2 DEF y
    <3> HIDE DEF s
    <3>5. Len(s) % word = l
      <4>1. word \in Nat \ {0} /\ q \in Nat
        BY <2>1
      <4> QED
        BY <3>4, <4>1, DivideIs, Zenon
    <3> QED
      BY <3>3, <3>5
  <2>5. engine.status = DONE /\ LastBlock => (status' <=> remains = <<>>)
    BY <1>1, <1>3 DEF BlockFails, Settled, DONE, ERROR
  <2>6. status' => engine.status = DONE /\ remains = <<>>
    <3> SUFFICES ASSUME status' PROVE engine.status = DONE /\ remains = <<>>
      OBVIOUS
    <3>1. status /\ ~BlockFails /\ LastBlock
      BY <1>1, <1>5
    <3>2. engine.status = DONE
      BY <1>3, <3>1 DEF BlockFails, Settled, NEED_INPUT, DONE, ERROR
    <3> QED
      BY <1>3, <3>1, <3>2 DEF BlockFails
  <2>7. remains = <<>> => s = written
    BY <2>1
  <2>8. VerdictIsRight'
    <3>1. p.exact => s = p.original /\ (status' <=> Len(p.original) % word = 0)
      BY <2>2, <2>3, <2>4, <2>5
    <3>2. status' => /\ written = p.original /\ engine.original_size = Len(p.original)
                     /\ engine.total_input = engine.compress_size
      BY <2>2, <2>6, <2>7
    <3> QED
      BY <1>1, <2>1, <3>1, <3>2 DEF VerdictIsRight
  <2>9. Ended(p)'
    <3>1. Begins(p, written' \o remains') /\ ~running'
          /\ (engine'.status # ERROR => engine'.total_output = Len(written' \o remains'))
      BY <1>1, <1>3
    <3> HIDE DEF VerdictIsRight
    <3> QED
      BY <2>8, <3>1 DEF Ended
  <2> HIDE DEF Ended
  <2> QED
    BY <1>1, <1>2, <1>5, <2>9, CallerStays
<1> QED
  BY <1>1, <1>4, <1>5

(* The engine is reset for a payload that has a script.                     *)
LEMMA OpenGives ==
  ASSUME Idle, NEW data, NEW bytes, NEW compressed, OpenPayload(data, bytes, compressed),
         NEW p, Script(p), p.stream = bytes, p.original = data, p.exact = compressed
  PROVE  Caller(p)'
<1>1. /\ pc' = "word" /\ original' = data /\ stream' = bytes /\ exact' = compressed
      /\ ~running /\ engine' = Fresh(GET_IDENTIFIER, GOOD)
      /\ UNCHANGED <<running, word, buffer, position, written, remains,
                     decompression_status, status>>
  BY DEF OpenPayload, reset
<1>2. /\ written = <<>> /\ remains = <<>> /\ position = 0
      /\ decompression_status = GOOD /\ status = TRUE
      /\ word \in Words /\ buffer \in BufferSizes
  BY DEF Idle
<1>3. word \in Nat \ {0}
  BY <1>2, SizesAre
<1>4. /\ engine' \in Engine /\ engine'.status = GOOD /\ engine'.state = GET_IDENTIFIER
      /\ engine'.identifier = <<>> /\ engine'.variable_u64 = <<>>
      /\ engine'.total_input = 0 /\ engine'.total_output = 0 /\ engine'.input_index = 0
      /\ ~engine'.need_more_input /\ ~engine'.done
  BY <1>1 DEF Fresh, Engine, GET_IDENTIFIER, GOOD, Pattern, NONE
<1>5. Place(p, engine', 0)
  <2>1. 0 <= Len(Identifier) /\ <<>> = SubSeq(p.identifier, 1, 0)
    <3>1. p.identifier \in Seq(Byte)
      BY DEF Script, HeaderLies
    <3> QED
      BY <3>1, StreamConstants
  <2>2. AtIdentifier(p, engine', 0)
    BY <1>4, <2>1 DEF AtIdentifier, Untouched
  <2> QED
    BY <1>4, <2>2
       DEF Place, GET_IDENTIFIER, GET_ORIGINAL_SIZE, GET_COMPRESS_SIZE, GET_FLAG,
           GET_VARIABLE, GET_REPEAT, OUTPUT_CMP, OUTPUT_NONE, OUTPUT_NONE_REPEAT, ERROR_STATE
<1>6. /\ written' = <<>> /\ remains' = <<>> /\ written' \o remains' = <<>>
      /\ written' \in Seq(Byte) /\ remains' \in Seq(Byte)
      /\ Len(remains') < word /\ Len(written') % word = 0
  <2>1. written' = <<>> /\ remains' = <<>>
    BY <1>1, <1>2
  <2>2. <<>> \o <<>> = <<>> /\ <<>> \in Seq(Byte) /\ Len(<<>>) = 0 /\ 0 % word = 0 /\ 0 < word
    BY <1>3
  <2> QED
    BY <2>1, <2>2
<1>7. Begins(p, <<>>) /\ Len(<<>>) = 0
  <2>1. p.original \in Seq(Byte)
    BY DEF Script
  <2> QED
    BY <2>1 DEF Begins
<1>8. Between(p)'
  BY <1>1, <1>2, <1>4, <1>5, <1>6, <1>7 DEF Between, GOOD, NEED_INPUT, DONE, ERROR
<1> HIDE DEF Between
<1> QED
  BY <1>1, <1>2, <1>6, <1>8 DEF Caller

(* An action with any payload that has a script.                            *)
AnyOpen ==
  \E ts, identifier, a, b, data, bytes, compressed :
    /\ Opens(ts, identifier, a, b, data, bytes, compressed)
    /\ OpenPayload(data, bytes, compressed)

AnySpec == PayloadInit /\ [][AnyOpen \/ PayloadStep \/ Stopped]_vars

(* At the start nothing is open.                                            *)
LEMMA PayloadInitInv ==
  ASSUME PayloadInit
  PROVE  PayloadInv
BY DEF PayloadInit, EngineInit, PayloadInv, Idle

(* A stutter keeps the invariant.                                           *)
LEMMA PayloadStays ==
  ASSUME PayloadInv, UNCHANGED vars
  PROVE  PayloadInv'
<1>1. UNCHANGED <<engine, running, input, room, output, pc, original, stream, exact, word, buffer,
                  position, written, remains, decompression_status, status>>
  BY DEF vars, engineVars, callerVars
<1>2. CASE Idle
  BY <1>1, <1>2 DEF Idle, PayloadInv
<1>3. CASE pc = "asserted"
  BY <1>1, <1>3 DEF PayloadInv
<1>4. CASE \E p : Caller(p)
  <2>1. PICK p : Caller(p)
    BY <1>4
  <2>2. During(p) => During(p)'
    BY <1>1 DEF During
  <2>3. Between(p) => Between(p)'
    BY <1>1 DEF Between, Block
  <2>4. Ended(p) => Ended(p)'
    BY <1>1 DEF Ended, VerdictIsRight
  <2>5. /\ position' \in Nat /\ written' \in Seq(Byte) /\ remains' \in Seq(Byte)
        /\ Len(remains') < word /\ Len(written') % word = 0
    BY <1>1, <2>1, CallerIs
  <2>6. \/ pc = "process" /\ During(p)
        \/ pc \in {"word", "block"} /\ Between(p)
        \/ pc = "over" /\ Ended(p)
    BY <2>1 DEF Caller
  <2> HIDE DEF During, Between, Ended
  <2>7. Caller(p)'
    BY <1>1, <2>1, <2>2, <2>3, <2>4, <2>5, <2>6, CallerStays
  <2> QED
    BY <2>7 DEF PayloadInv
<1> QED
  BY <1>2, <1>3, <1>4 DEF PayloadInv

(* Every step of the analyzer does.                                         *)
LEMMA PayloadStepKeeps ==
  ASSUME PayloadInv, PayloadStep
  PROVE  PayloadInv'
<1>1. CASE Idle
  <2>1. pc = "idle" /\ ~running
    BY <1>1 DEF Idle
  <2> QED
    BY <2>1, TurnsRun
       DEF PayloadStep, NextWord, PassWord, EngineTurn, ProcessReturned, EndBlock
<1>2. CASE pc = "asserted"
  <2>1. EngineTurn
    BY <1>2 DEF PayloadStep, NextWord, PassWord, ProcessReturned, EndBlock
  <2> QED
    BY <1>2, <2>1 DEF EngineTurn, callerVars, PayloadInv
<1>3. CASE \E p : Caller(p)
  <2>1. PICK p : Caller(p)
    BY <1>3
  <2>2. Caller(p)' \/ pc' = "asserted"
    BY <2>1, NextWordKeeps, PassWordKeeps, EngineTurnKeeps, ProcessReturnedKeeps, EndBlockKeeps
       DEF PayloadStep
  <2> QED
    BY <2>2 DEF PayloadInv
<1> QED
  BY <1>1, <1>2, <1>3 DEF PayloadInv

(* Opening a payload does.                                                  *)
LEMMA OpenKeeps ==
  ASSUME PayloadInv, NEW ts, NEW identifier, NEW a, NEW b, NEW data, NEW bytes, NEW compressed,
         Opens(ts, identifier, a, b, data, bytes, compressed), OpenPayload(data, bytes, compressed)
  PROVE  PayloadInv'
<1>1. Idle
  BY DEF OpenPayload, PayloadInv, Caller
<1>2. PICK p : Script(p) /\ p.stream = bytes /\ p.original = data /\ p.exact = compressed
  BY ScriptExists
<1>3. Caller(p)'
  BY <1>1, <1>2, OpenGives
<1> QED
  BY <1>3 DEF PayloadInv

(* What the invariant is for.                                               *)
LEMMA PayloadInvIs ==
  ASSUME PayloadInv
  PROVE  DeliversPayloadInOrder /\ VerdictIsRight
<1>1. CASE Idle
  <2>1. written = <<>> /\ remains = <<>> /\ original = <<>> /\ pc = "idle" /\ engine.status = ERROR
    BY <1>1 DEF Idle, Fresh
  <2>2. Delivered = <<>>
    BY <2>1 DEF Delivered
  <2> QED
    BY <2>1, <2>2 DEF DeliversPayloadInOrder, VerdictIsRight, IsPrefix
<1>2. CASE pc = "asserted"
  BY <1>2 DEF DeliversPayloadInOrder, VerdictIsRight
<1>3. CASE \E p : Caller(p)
  <2>1. PICK p : Caller(p)
    BY <1>3
  <2>2. \/ pc = "process" /\ During(p)
        \/ pc \in {"word", "block"} /\ Between(p)
        \/ pc = "over" /\ Ended(p)
    BY <2>1 DEF Caller
  <2>3. VerdictIsRight
    <3>1. CASE pc = "over"
      BY <2>2, <3>1 DEF Ended
    <3>2. CASE pc # "over"
      BY <3>2 DEF VerdictIsRight
    <3> QED
      BY <3>1, <3>2
  <2> DEFINE d == Delivered
  <2>4. d \in Seq(Byte) /\ Begins(p, d) /\ (engine.status # ERROR => engine.total_output = Len(d))
    <3>1. CASE pc = "process"
      <4>1. d = (written \o remains) \o output
        BY <3>1 DEF Delivered
      <4>2. PICK b \in Nat : Call(p, b, written \o remains, engine, running, input, output, room)
        BY <2>2, <3>1 DEF During
      <4> HIDE DEF d
      <4> QED
        BY <4>1, <4>2 DEF Call, Begins
    <3>2. CASE pc # "process"
      <4>1. d = (written \o remains) \o <<>>
        BY <3>2 DEF Delivered
      <4>2. (written \o remains) \o <<>> = written \o remains
        BY <2>1, CallerIs
      <4>3. /\ Begins(p, written \o remains)
            /\ engine.status # ERROR => engine.total_output = Len(written \o remains)
        BY <2>2, <3>2 DEF Between, Ended
      <4> HIDE DEF d
      <4> QED
        BY <4>1, <4>2, <4>3 DEF Begins
    <3> QED
      BY <3>1, <3>2
  <2> HIDE DEF d
  <2>5. original = p.original /\ original \in Seq(Byte)
    BY <2>1, CallerIs
  <2>6. IsPrefix(d, original)
    <3>1. Len(d) \in Nat /\ Len(d) <= Len(original) /\ Len(original) \in Nat
      BY <2>4, <2>5 DEF Begins
    <3> DEFINE x == SubSeq(original, 1, Len(d))
    <3>2. /\ x \in Seq(Byte) /\ Len(x) = Len(d) /\ \A k \in 1 .. Len(d) : x[k] = original[k]
      BY <2>5, <3>1
    <3> HIDE DEF x
    <3>3. \A k \in 1 .. Len(d) : d[k] = x[k]
      BY <2>4, <2>5, <3>2 DEF Begins
    <3>4. d = x
      BY <2>4, <3>2, <3>3, SameBytes
    <3>5. SubSeq(d, 1, Len(d)) = d
      BY <2>4
    <3> QED
      BY <3>1, <3>4, <3>5 DEF IsPrefix, x
  <2> QED
    BY <2>3, <2>4, <2>6 DEF DeliversPayloadInOrder, d
<1> QED
  BY <1>1, <1>2, <1>3 DEF PayloadInv

(* Opening, stepping and stuttering keep the invariant.                     *)
LEMMA PayloadInvKept ==
  ASSUME PayloadInv, [AnyOpen \/ PayloadStep \/ Stopped]_vars
  PROVE  PayloadInv'
BY OpenKeeps, PayloadStepKeeps, PayloadStays DEF AnyOpen, Stopped

(* However a stream is cut into words and the output into calls, for every  *)
(* list of tokens, every size of word, block and buffer and every header    *)
(* with one size right, what parse_payload has been delivered is the        *)
(* beginning of what was compressed, and the engine's count agrees.         *)
THEOREM DeliveredInOrder == AnySpec => []DeliversPayloadInOrder
<1>1. PayloadInv => DeliversPayloadInOrder
  BY PayloadInvIs
<1> QED
  BY <1>1, PayloadInvKept, PayloadInitInv, PTL DEF AnySpec

(* Of the same streams, parse_bop reports success only when the file is the *)
(* whole payload and the compressed data was used up; one the compressor    *)
(* could have written is read to its end whenever parse_payload gets there. *)
THEOREM VerdictOfAnyStream == AnySpec => []VerdictIsRight
<1>1. PayloadInv => VerdictIsRight
  BY PayloadInvIs
<1> QED
  BY <1>1, PayloadInvKept, PayloadInitInv, PTL DEF AnySpec

-----------------------------------------------------------------------------
(* What the compressor hands on.                                            *)

(* One more token is one more piece.                                        *)
LEMMA DataOfOneMore ==
  ASSUME NEW ts \in Seq(Token), NEW t \in Token, Data(ts) \in Seq(Byte), Expand(t) \in Seq(Byte)
  PROVE  Data(Append(ts, t)) = Data(ts) \o Expand(t)
<1> DEFINE n == Len(ts)
           us == Append(ts, t)
           xs == [k \in 1 .. n |-> Expand(ts[k])]
           ys == [k \in 1 .. n + 1 |-> Expand(us[k])]
<1>1. /\ n \in Nat /\ Len(us) = n + 1 /\ us[n + 1] = t
      /\ \A k \in 1 .. n : us[k] = ts[k]
      /\ Len(xs) = n /\ Len(ys) = n + 1
  OBVIOUS
<1>2. Data(ts) = FlattenSeq(xs) /\ Data(us) = FlattenSeq(ys)
  BY <1>1 DEF Data
<1>3. ys[n + 1] = Expand(t) /\ \A k \in 1 .. n : ys[k] = xs[k]
  BY <1>1
<1> HIDE DEF n, us, xs, ys
<1>4. PICK h : FlatTable(h, ys, n + 1) /\ FlattenSeq(ys) = h[n + 1]
  <2>1. n + 1 \in Nat \ {0}
    BY <1>1
  <2> QED
    BY <1>1, <2>1, Flattened
<1>5. \A i \in 1 .. n + 1 : h[i] = IF i = 1 THEN ys[i] ELSE h[i - 1] \o ys[i]
  BY <1>4 DEF FlatTable
<1>6. n + 1 \in 1 .. n + 1
  BY <1>1
<1>7. CASE n = 0
  <2>1. h[n + 1] = Expand(t)
    BY <1>3, <1>5, <1>6, <1>7
  <2>2. ts = <<>>
    BY <1>7 DEF n
  <2>3. Data(ts) = <<>>
    <3>1. Len(xs) = 0
      BY <1>1, <1>7
    <3>2. FlattenSeq(xs) = xs
      BY <3>1, Zenon DEF FlattenSeq
    <3>3. xs = <<>>
      BY <1>7, <2>2 DEF xs
    <3> QED
      BY <1>2, <3>2, <3>3
  <2>4. <<>> \o Expand(t) = Expand(t)
    OBVIOUS
  <2> QED
    BY <1>2, <1>4, <2>1, <2>3, <2>4 DEF us
<1>8. CASE n # 0
  <2>1. PICK g : FlatTable(g, xs, n) /\ FlattenSeq(xs) = g[n]
    <3>1. n \in Nat \ {0}
      BY <1>1, <1>8
    <3> QED
      BY <1>1, <3>1, Flattened
  <2>2. \A i \in 1 .. n : g[i] = IF i = 1 THEN xs[i] ELSE g[i - 1] \o xs[i]
    BY <2>1 DEF FlatTable
  <2> DEFINE Q == {k \in Nat : k \in 1 .. n => h[k] = g[k]}
  <2>3. 0 \in Q
    OBVIOUS
  <2>4. ASSUME NEW k \in Nat, k \in Q PROVE k + 1 \in Q
    <3> SUFFICES ASSUME k + 1 \in 1 .. n PROVE h[k + 1] = g[k + 1]
      OBVIOUS
    <3>1. /\ h[k + 1] = IF k + 1 = 1 THEN ys[k + 1] ELSE h[(k + 1) - 1] \o ys[k + 1]
          /\ g[k + 1] = IF k + 1 = 1 THEN xs[k + 1] ELSE g[(k + 1) - 1] \o xs[k + 1]
          /\ ys[k + 1] = xs[k + 1]
      <4>1. k + 1 \in 1 .. n + 1
        BY <1>1
      <4> QED
        BY <1>3, <1>5, <2>2, <4>1
    <3>2. (k + 1) - 1 = k
      OBVIOUS
    <3>3. CASE k = 0
      BY <3>1, <3>3
    <3>4. CASE k # 0
      <4>1. k \in 1 .. n /\ k + 1 # 1
        BY <1>1, <3>4
      <4>2. h[k] = g[k]
        BY <2>4, <4>1
      <4> QED
        BY <3>1, <3>2, <4>1, <4>2
    <3> QED
      BY <3>3, <3>4
  <2> HIDE DEF Q
  <2>5. n \in Q
    BY <1>1, <2>3, <2>4, Induction
  <2>6. h[n] = g[n]
    BY <1>1, <1>8, <2>5 DEF Q
  <2>7. h[n + 1] = h[n] \o Expand(t)
    <3>1. n + 1 # 1 /\ (n + 1) - 1 = n
      BY <1>1, <1>8
    <3> QED
      BY <1>3, <1>5, <1>6, <3>1
  <2> QED
    BY <1>2, <1>4, <2>1, <2>6, <2>7 DEF us
<1> QED
  BY <1>7, <1>8

(* No chunk is found to repeat that m_none_data cannot hold.                *)
LEMMA LengthFits ==
  ASSUME payload \in Seq(Byte), NEW i \in Nat, NEW n \in Nat, FoundLength(i, n)
  PROVE  n <= MaxNone
<1> SUFFICES ASSUME ~(n <= MaxNone) PROVE FALSE
  OBVIOUS
<1>1. PICK first \in MinRepeat .. MaxSearch : first <= n /\ \A t \in first .. n : Candidate(i, t)
  BY DEF FoundLength
<1>2. /\ MaxNone \in Nat /\ MaxSearch \in Nat /\ MaxSame \in Nat /\ MinRepeat \in Nat \ {0, 1}
      /\ MaxSearch <= MaxNone /\ MaxSame <= 2 * (MaxNone + 1)
  BY CompressConstants, SearchLimits
<1> DEFINE m == n - 1
<1>3. m \in Nat /\ n = m + 1 /\ m \in first .. n /\ n \in first .. n /\ m > 0 /\ MaxSame <= 2 * n
  BY <1>1, <1>2
<1> HIDE DEF m
<1>4. Candidate(i, m) /\ Candidate(i, n)
  BY <1>1, <1>3
<1> DEFINE c == At(i + m)
<1>5. \A k \in 0 .. m - 1 : At(i + k) = At((i + m) + k)
  BY <1>4 DEF Candidate, SameChunk
<1>6. \A k \in 0 .. m : At(i + k) = At((i + n) + k)
  BY <1>3, <1>4 DEF Candidate, SameChunk
<1>7. \A k \in 0 .. m - 1 : At(i + (m + k)) = At(i + (m + (k + 1)))
  <2> TAKE k \in 0 .. m - 1
  <2>1. k \in 0 .. m /\ (i + n) + k = i + (m + (k + 1)) /\ (i + m) + k = i + (m + k)
    BY <1>3
  <2> QED
    BY <1>5, <1>6, <2>1
<1> DEFINE Q == {k \in Nat : k \in 0 .. m => At(i + (m + k)) = c}
<1>8. 0 \in Q
  <2>1. m + 0 = m
    BY <1>3
  <2> QED
    BY <2>1
<1>9. ASSUME NEW k \in Nat, k \in Q PROVE k + 1 \in Q
  <2> SUFFICES ASSUME k + 1 \in 0 .. m PROVE At(i + (m + (k + 1))) = c
    OBVIOUS
  <2>1. k \in 0 .. m - 1 /\ k \in 0 .. m
    BY <1>3
  <2> QED
    BY <1>7, <1>9, <2>1
<1> HIDE DEF Q
<1>10. \A k \in 0 .. m : At(i + (m + k)) = c
  <2>1. Nat \subseteq Q
    BY <1>8, <1>9, Induction
  <2> QED
    BY <1>3, <2>1 DEF Q
<1> HIDE DEF c
<1>11. \A k \in 0 .. m - 1 : At(i + k) = c
  <2> TAKE k \in 0 .. m - 1
  <2>1. k \in 0 .. m /\ (i + m) + k = i + (m + k)
    BY <1>3
  <2> QED
    BY <1>5, <1>10, <2>1
<1>12. At(i) = c
  <2>1. 0 \in 0 .. m - 1 /\ i + 0 = i
    BY <1>3
  <2> QED
    BY <1>11, <2>1
<1>13. \A p \in i .. i + (2 * m + 1) : At(p) = c
  <2> TAKE p \in i .. i + (2 * m + 1)
  <2>1. CASE p < i + m
    <3>1. p - i \in 0 .. m - 1 /\ i + (p - i) = p
      BY <1>3, <2>1
    <3> QED
      BY <1>11, <3>1
  <2>2. CASE p >= i + m /\ p <= i + 2 * m
    <3>1. p - i - m \in 0 .. m /\ i + (m + (p - i - m)) = p
      BY <1>3, <2>2
    <3> QED
      BY <1>10, <3>1
  <2>3. CASE p > i + 2 * m
    <3>1. p = (i + n) + m /\ m \in 0 .. m /\ 0 \in 0 .. m /\ i + (m + 0) = i + m
      BY <1>3, <2>3
    <3>2. At(p) = At(i + m)
      BY <1>6, <3>1
    <3> QED
      BY <1>10, <3>1, <3>2
  <2> QED
    BY <1>3, <2>1, <2>2, <2>3
<1>14. AllAre(i, MaxSame, At(i))
  <2> SUFFICES ASSUME NEW p \in i .. i + MaxSame - 1 PROVE At(p) = At(i)
    BY DEF AllAre
  <2>1. p \in i .. i + (2 * m + 1)
    BY <1>2, <1>3
  <2> QED
    BY <1>12, <1>13, <2>1
<1>15. i + MaxSame <= Size
  <2>1. i + 2 * n <= Size /\ Size \in Nat
    BY <1>4 DEF Candidate, Size
  <2> QED
    BY <1>2, <1>3, <2>1
<1> QED
  BY <1>14, <1>15 DEF FoundLength, LongRun

(* The tokens so far.                                                       *)
TokensAreRight ==
  /\ \A k \in 1 .. Len(tokens) : WellFormed(tokens[k]) /\ Accepted(tokens[k])
  /\ expanded = Data(tokens)

(* One more right token keeps them right.                                   *)
LEMMA EmitKeepsRight ==
  ASSUME Inv, TokensAreRight, NEW t, WellFormed(t), Accepted(t), NEW next, Emit(t, next)
  PROVE  TokensAreRight'
<1>1. /\ tokens \in Seq(Token) /\ t \in Token /\ expanded \in Seq(Byte) /\ expanded = Data(tokens)
      /\ tokens' = Append(tokens, t) /\ expanded' = expanded \o Expand(t)
  BY DEF Inv, CompressTypeOK, TokensAreRight, WellFormed, Emit
<1>2. Expand(t) \in Seq(Byte)
  BY TokenBytesAre
<1>3. expanded' = Data(tokens')
  BY <1>1, <1>2, DataOfOneMore
<1>4. \A k \in 1 .. Len(tokens') : WellFormed(tokens'[k]) /\ Accepted(tokens'[k])
  <2> TAKE k \in 1 .. Len(tokens')
  <2>1. CASE k \in 1 .. Len(tokens)
    <3>1. tokens'[k] = tokens[k]
      BY <1>1, <2>1
    <3> QED
      BY <2>1, <3>1 DEF TokensAreRight
  <2>2. CASE k \notin 1 .. Len(tokens)
    <3>1. tokens'[k] = t
      BY <1>1, <2>2
    <3> QED
      BY <3>1
  <2> QED
    BY <2>1, <2>2
<1> QED
  BY <1>3, <1>4 DEF TokensAreRight

(* compress_data writes a token the analyzer accepts.                       *)
LEMMA RunTokenRight ==
  ASSUME NEW b \in Byte, NEW n \in Nat, n > 0, NEW follow \in Seq(Byte), Len(follow) <= 1,
         follow # <<>> => b \in {0, High}
  PROVE  WellFormed(RunToken(b, n, follow)) /\ Accepted(RunToken(b, n, follow))
<1> DEFINE t == RunToken(b, n, follow)
<1>1. /\ t.pattern = IF b = 0 THEN (IF follow = <<>> THEN ZERO ELSE ZERO_VAR)
                     ELSE IF b = High THEN (IF follow = <<>> THEN HIGH ELSE HIGH_VAR)
                     ELSE VAR
      /\ t.flagged = FALSE /\ t.length = n /\ t.count = 0
      /\ t.data = IF b \in {0, High} THEN follow ELSE <<b>>
      /\ t \in [pattern : {ZERO, ZERO_VAR, HIGH, HIGH_VAR, VAR}, flagged : BOOLEAN, length : Nat,
                data : Seq(Byte), count : Nat]
  BY DEF RunToken
<1>2. Len(follow) = IF follow = <<>> THEN 0 ELSE 1
  <2>1. Len(follow) \in Nat /\ <<>> \in Seq(Byte) /\ Len(<<>>) = 0
    OBVIOUS
  <2>2. Len(follow) = 0 => follow = <<>>
    BY <2>1, SameBytes
  <2> QED
    BY <2>1, <2>2
<1>3. Len(<<b>>) = 1 /\ High # 0
  BY CompressConstants
<1> HIDE DEF t
<1>4. t \in Token
  BY <1>1 DEF Token, Pattern, ZERO, ZERO_VAR, HIGH, HIGH_VAR, VAR
<1>5. Len(t.data) = IF t.pattern = NONE THEN t.length
                    ELSE IF t.pattern \in {ZERO, HIGH} THEN 0 ELSE 1
  <2>1. CASE b \notin {0, High}
    <3>1. t.pattern = VAR /\ t.data = <<b>>
      BY <1>1, <2>1
    <3> QED
      BY <1>3, <3>1 DEF NONE, ZERO, HIGH, VAR
  <2>2. CASE b \in {0, High} /\ follow = <<>>
    <3>1. t.pattern \in {ZERO, HIGH} /\ t.data = follow
      BY <1>1, <2>2
    <3> QED
      BY <1>2, <2>2, <3>1 DEF NONE, ZERO, HIGH
  <2>3. CASE b \in {0, High} /\ follow # <<>>
    <3>1. t.pattern \in {ZERO_VAR, HIGH_VAR} /\ t.data = follow
      BY <1>1, <2>3
    <3> QED
      BY <1>2, <2>3, <3>1 DEF NONE, ZERO, HIGH, ZERO_VAR, HIGH_VAR
  <2> QED
    BY <2>1, <2>2, <2>3
<1>6. WellFormed(t) /\ Accepted(t)
  BY <1>1, <1>4, <1>5 DEF WellFormed, Accepted
<1> QED
  BY <1>6 DEF t

(* pack_data does.                                                          *)
LEMMA RawTokenRight ==
  ASSUME payload \in Seq(Byte), NEW i \in Nat, NEW n \in Nat, n > 0, i + n <= Size
  PROVE  WellFormed(RawToken(i, n)) /\ Accepted(RawToken(i, n))
<1>1. Bytes(i, n) \in Seq(Byte) /\ Len(Bytes(i, n)) = n
  BY BytesType
<1> DEFINE t == RawToken(i, n)
<1>2. /\ t.pattern = NONE /\ t.flagged = FALSE /\ t.length = n /\ t.data = Bytes(i, n) /\ t.count = 0
      /\ t \in Token
  BY <1>1 DEF RawToken, Token, Pattern, NONE
<1> HIDE DEF t
<1>3. WellFormed(t) /\ Accepted(t)
  BY <1>1, <1>2 DEF WellFormed, Accepted
<1> QED
  BY <1>3 DEF t

(* A byte before a run does.                                                *)
LEMMA VarRunTokenRight ==
  ASSUME payload \in Seq(Byte), NEW i \in Nat, NEW e \in Nat, RunEnd(i + 1, e)
  PROVE  WellFormed(VarRunToken(i, e)) /\ Accepted(VarRunToken(i, e))
<1>1. e - i - 1 \in Nat /\ e - i - 1 > 0 /\ At(i) \in Byte
  <2>1. i \in 0 .. Size - 1 /\ e - i - 1 \in Nat /\ e - i - 1 > 0
    BY DEF RunEnd, Size
  <2> QED
    BY <2>1, AtByte
<1> DEFINE t == VarRunToken(i, e)
           n == e - i - 1
<1>2. /\ t.pattern \in {VAR_ZERO, VAR_HIGH} /\ t.flagged = FALSE /\ t.length = n
      /\ t.data = <<At(i)>> /\ t.count = 0 /\ Len(<<At(i)>>) = 1
  BY DEF VarRunToken
<1>3. t \in Token
  BY <1>1 DEF VarRunToken, Token, Pattern, VAR_ZERO, VAR_HIGH
<1> HIDE DEF t, n
<1>4. n > 0
  BY <1>1 DEF n
<1>5. WellFormed(t) /\ Accepted(t)
  BY <1>2, <1>3, <1>4 DEF WellFormed, Accepted, NONE, ZERO, HIGH, VAR_ZERO, VAR_HIGH
<1> QED
  BY <1>5 DEF t

(* compress_repeat_chunk does.                                              *)
LEMMA RepeatTokenRight ==
  ASSUME payload \in Seq(Byte), NEW i \in Nat, NEW n \in Nat, n >= MinRepeat, n <= MaxNone,
         NEW r \in Nat \ {0}, FoundRepeat(i, n, r),
         analyze_chunk_pattern(i, n) \notin {ZERO, HIGH}
  PROVE  WellFormed(RepeatToken(i, n, r)) /\ Accepted(RepeatToken(i, n, r))
<1> DEFINE t == RepeatToken(i, n, r)
           pattern == analyze_chunk_pattern(i, n)
<1>1. t \in Token
  BY RepeatTokenExpands
<1>2. n \in Nat \ {0} /\ n - 1 > 0
  BY CompressConstants
<1>3. At(i + n) = At(i) /\ i + n <= Size
  <2>1. SameChunk(i, i + 1 * n, n) /\ 1 * n = n /\ 0 \in 0 .. n - 1
    <3>1. 1 * n = n /\ 0 \in 0 .. n - 1 /\ 1 \in 1 .. r
      BY <1>2
    <3>2. SameChunk(i, i + 1 * n, n)
      BY <3>1 DEF FoundRepeat
    <3> QED
      BY <3>1, <3>2
  <2>2. At(i + 0) = At((i + n) + 0)
    BY <2>1 DEF SameChunk
  <2>3. (r + 1) * n = r * n + n /\ r * n \in Nat /\ i + (r + 1) * n <= Size /\ Size \in Nat
    BY DEF FoundRepeat, Size
  <2> DEFINE x == r * n
  <2>4. x \in Nat /\ i + (x + n) <= Size
    BY <2>3
  <2> HIDE DEF x
  <2>5. i + n <= Size
    BY <2>3, <2>4
  <2> QED
    BY <2>2, <2>5
<1>4. Bytes(i, n) \in Seq(Byte) /\ Len(Bytes(i, n)) = n
  BY <1>3, BytesType
<1>5. pattern \in {NONE, VAR_ZERO, ZERO_VAR, VAR_HIGH, HIGH_VAR}
  BY <1>2, <1>3, ChunkPattern
<1>6. /\ t.pattern = pattern /\ t.flagged = TRUE /\ t.count = r
      /\ t.length = (IF pattern = NONE THEN n ELSE n - 1)
      /\ t.data = IF pattern = NONE THEN Bytes(i, n)
                  ELSE IF pattern \in {VAR_ZERO, VAR_HIGH} THEN <<At(i)>> ELSE <<At(i + n - 1)>>
  <2>1. MaxNone \in Nat /\ ~(n > MaxNone)
    BY CompressConstants
  <2> QED
    BY <2>1 DEF RepeatToken
<1> HIDE DEF t, pattern
<1>7. Len(t.data) = IF t.pattern = NONE THEN t.length
                    ELSE IF t.pattern \in {ZERO, HIGH} THEN 0 ELSE 1
  BY <1>4, <1>5, <1>6 DEF NONE, ZERO, HIGH, ZERO_VAR, HIGH_VAR, VAR_ZERO, VAR_HIGH
<1>8. t.length > 0 /\ t.count > 0 /\ (t.pattern = NONE => t.length <= NoneData)
  BY <1>2, <1>6, SameLimit
<1>9. t.pattern \notin {ZERO, HIGH, VAR}
  BY <1>5, <1>6 DEF NONE, ZERO, HIGH, VAR, ZERO_VAR, HIGH_VAR, VAR_ZERO, VAR_HIGH
<1>10. WellFormed(t) /\ Accepted(t)
  BY <1>1, <1>6, <1>7, <1>8, <1>9 DEF WellFormed, Accepted
<1> QED
  BY <1>10 DEF t

(* Every turn of the compressor keeps the tokens right.                     *)
LEMMA CompressKeepsRight ==
  ASSUME Inv, TokensAreRight, Compress
  PROVE  TokensAreRight'
<1>1. payload \in Seq(Byte) /\ index \in Nat /\ Size \in Nat
  BY CompressConstants DEF Inv, CompressTypeOK, Size
<1>2. ASSUME NEW e \in Nat, RunEnd(index, e)
      PROVE  /\ Emit(RunToken(At(index), e - index, <<>>), e) => TokensAreRight'
             /\ e < Size /\ At(index) \in {0, High}
                  /\ Emit(RunToken(At(index), e - index, <<At(e)>>), e + 1) => TokensAreRight'
  <2>1. index \in 0 .. Size - 1 /\ e - index \in Nat /\ e - index > 0
    BY <1>1, <1>2 DEF RunEnd
  <2>2. At(index) \in Byte
    BY <1>1, <2>1, AtByte
  <2>3. LET t == RunToken(At(index), e - index, <<>>) IN WellFormed(t) /\ Accepted(t)
    <3>1. <<>> \in Seq(Byte) /\ Len(<<>>) <= 1
      OBVIOUS
    <3> QED
      BY <2>1, <2>2, <3>1, RunTokenRight
  <2>4. ASSUME e < Size, At(index) \in {0, High}
        PROVE  LET t == RunToken(At(index), e - index, <<At(e)>>) IN WellFormed(t) /\ Accepted(t)
    <3>1. e \in 0 .. Size - 1
      BY <1>1, <2>4
    <3>2. At(e) \in Byte
      BY <1>1, <3>1, AtByte
    <3>3. <<At(e)>> \in Seq(Byte) /\ Len(<<At(e)>>) <= 1
      BY <3>2
    <3> QED
      BY <2>1, <2>2, <2>4, <3>3, RunTokenRight
  <2> QED
    BY <2>3, <2>4, EmitKeepsRight
<1>3. ASSUME NEW n \in MinRepeat .. Size, NEW e \in 1 .. Size, CompressRun(n, e)
      PROVE  TokensAreRight'
  <2>1. At(index) \in {0, High}
    <3>1. n \in Nat \ {0}
      BY <1>1, CompressConstants
    <3>2. AllAre(index, n, 0) \/ AllAre(index, n, High)
      BY <1>3 DEF CompressRun, analyze_chunk_pattern, EdgePattern, NONE, ZERO,
                  ZERO_VAR, VAR_ZERO, HIGH, HIGH_VAR, VAR_HIGH
    <3>3. index \in index .. index + n - 1
      BY <1>1, <3>1
    <3> QED
      BY <3>2, <3>3 DEF AllAre
  <2>2. e \in Nat /\ RunEnd(index, e)
    BY <1>1, <1>3 DEF CompressRun
  <2>3. \/ e < Size /\ Emit(RunToken(At(index), e - index, <<At(e)>>), e + 1)
        \/ Emit(RunToken(At(index), e - index, <<>>), e)
    BY <1>3 DEF CompressRun
  <2> QED
    BY <1>2, <2>1, <2>2, <2>3
<1>4. ASSUME NEW n \in MinRepeat .. Size, NEW r \in 1 .. Size, CompressRepeat(n, r)
      PROVE  TokensAreRight'
  <2>1. /\ n \in Nat /\ n >= MinRepeat /\ r \in Nat \ {0}
    BY <1>1, CompressConstants
  <2>2. /\ FoundLength(index, n) /\ FoundRepeat(index, n, r)
        /\ analyze_chunk_pattern(index, n) \notin {ZERO, HIGH}
        /\ Emit(RepeatToken(index, n, r), index + n * (r + 1))
    BY <1>4 DEF CompressRepeat
  <2>3. n <= MaxNone
    BY <1>1, <2>1, <2>2, LengthFits
  <2>4. WellFormed(RepeatToken(index, n, r)) /\ Accepted(RepeatToken(index, n, r))
    BY <1>1, <2>1, <2>2, <2>3, RepeatTokenRight
  <2> QED
    BY <2>2, <2>4, EmitKeepsRight
<1>5. ASSUME NEW e \in 1 .. Size, NoneRun(e)
      PROVE  TokensAreRight'
  <2>1. e \in Nat /\ RunEnd(index, e)
    BY <1>1, <1>5 DEF NoneRun
  <2>2. \/ /\ e < Size /\ At(index) \in {0, High}
           /\ Emit(RunToken(At(index), e - index, <<At(e)>>), e + 1)
        \/ Emit(RunToken(At(index), e - index, <<>>), e)
    BY <1>5 DEF NoneRun
  <2> QED
    BY <1>2, <2>1, <2>2
<1>6. ASSUME NEW e \in 1 .. Size, NoneVarRun(e)
      PROVE  TokensAreRight'
  <2>1. e \in Nat /\ RunEnd(index + 1, e) /\ Emit(VarRunToken(index, e), e)
    BY <1>1, <1>6 DEF NoneVarRun, VarRunToken
  <2> QED
    BY <1>1, <2>1, VarRunTokenRight, EmitKeepsRight
<1>7. ASSUME NEW e \in 1 .. Size, NonePack(e)
      PROVE  TokensAreRight'
  <2>1. /\ e - index \in Nat /\ e - index > 0 /\ index + (e - index) <= Size
        /\ e - 1 - index \in Nat /\ e - 1 - index > 0 /\ index + (e - 1 - index) <= Size
    BY <1>1, <1>7 DEF NonePack
  <2>2. \/ Emit(RawToken(index, e - index), e)
        \/ Emit(RawToken(index, e - 1 - index), e - 1)
    BY <1>7 DEF NonePack
  <2>3. WellFormed(RawToken(index, e - index)) /\ Accepted(RawToken(index, e - index))
    BY <1>1, <2>1, RawTokenRight
  <2>4. WellFormed(RawToken(index, e - 1 - index)) /\ Accepted(RawToken(index, e - 1 - index))
    BY <1>1, <2>1, RawTokenRight
  <2> QED
    BY <2>2, <2>3, <2>4, EmitKeepsRight
<1> QED
  BY <1>3, <1>4, <1>5, <1>6, <1>7 DEF Compress

-----------------------------------------------------------------------------
(* From the packer to the analyzer.                                         *)

(* What is read back is what was packed.                                    *)
Handed == pc = "idle" \/ (original = payload /\ exact)

BothInv == Inv /\ TokensAreRight /\ PayloadInv /\ Handed

(* At the start nothing is packed and nothing open.                         *)
LEMMA BothInit ==
  ASSUME Init
  PROVE  BothInv
<1>1. CompressInit /\ PayloadInit
  BY DEF Init
<1>2. TokensAreRight
  <2>1. tokens = <<>> /\ expanded = <<>>
    BY <1>1 DEF CompressInit
  <2>2. Data(<<>>) = <<>>
    <3> DEFINE xs == [k \in 1 .. Len(<<>>) |-> Expand(<<>>[k])]
    <3>1. xs = <<>> /\ Len(xs) = 0
      OBVIOUS
    <3>2. Data(<<>>) = FlattenSeq(xs)
      BY DEF Data
    <3> HIDE DEF xs
    <3>3. FlattenSeq(xs) = xs
      BY <3>1, Zenon DEF FlattenSeq
    <3> QED
      BY <3>1, <3>2, <3>3
  <2> QED
    BY <2>1, <2>2 DEF TokensAreRight
<1>3. PayloadInv /\ Handed
  BY <1>1, PayloadInitInv DEF PayloadInit, Handed
<1> QED
  BY <1>1, <1>2, <1>3, InitInv DEF BothInv

(* The compressor's tokens make a stream that has a script.                 *)
LEMMA HandOpens ==
  ASSUME Inv, TokensAreRight, index = Len(payload)
  PROVE  Opens(tokens, Identifier, Len(payload), Len(Body(tokens)), payload,
               Stream(Len(payload), tokens), TRUE)
<1>1. /\ payload \in Seq(Byte) /\ payload # <<>> /\ tokens \in Seq(Token)
      /\ expanded = SubSeq(payload, 1, Len(payload))
      /\ \A k \in 1 .. Len(tokens) : WellFormed(tokens[k]) /\ Accepted(tokens[k])
      /\ expanded = Data(tokens)
  BY CompressConstants DEF Inv, CompressTypeOK, TokensExpandToInput, TokensAreRight
<1>2. Data(tokens) = payload
  BY <1>1
<1>3. Len(tokens) > 0
  <2> SUFFICES ASSUME ~(Len(tokens) > 0) PROVE FALSE
    OBVIOUS
  <2>1. Len(tokens) = 0
    BY <1>1
  <2> DEFINE xs == [k \in 1 .. Len(tokens) |-> Expand(tokens[k])]
  <2>2. xs = <<>> /\ Len(xs) = 0
    BY <2>1
  <2>3. Data(tokens) = FlattenSeq(xs)
    BY DEF Data
  <2> HIDE DEF xs
  <2>4. FlattenSeq(xs) = xs
    BY <2>2, Zenon DEF FlattenSeq
  <2> QED
    BY <1>1, <1>2, <2>2, <2>3, <2>4
<1>4. Len(Body(tokens)) \in Nat
  <2> DEFINE n == Len(tokens)
             xs == [k \in 1 .. n |-> TokenBytes(tokens[k])]
  <2>1. n \in Nat \ {0} /\ Len(xs) = n
    BY <1>1, <1>3
  <2>2. \A k \in 1 .. n : xs[k] \in Seq(Byte)
    <3> TAKE k \in 1 .. n
    <3>1. /\ FlagBytes(tokens[k]) \in Seq(Byte) /\ tokens[k].data \in Seq(Byte)
          /\ CountBytes(tokens[k]) \in Seq(Byte)
          /\ TokenBytes(tokens[k]) = (FlagBytes(tokens[k]) \o tokens[k].data) \o CountBytes(tokens[k])
      BY <1>1, TokenBytesAre
    <3>2. TokenBytes(tokens[k]) \in Seq(Byte)
      BY <3>1, Within DEF Joins
    <3> QED
      BY <3>2
  <2>3. Body(tokens) = FlattenSeq(xs)
    BY DEF Body
  <2> HIDE DEF n, xs
  <2>4. PICK f : Cuts(Body(tokens), xs, n, f)
    BY <2>1, <2>2, <2>3, CutsExist
  <2> QED
    BY <2>4 DEF Cuts
<1>5. Identifier \in Seq(Byte) /\ Len(payload) \in Nat
  BY <1>1, StreamConstants
<1>6. Stream(Len(payload), tokens)
        = ((Identifier \o CFG_write_variable_u64[Len(payload)])
             \o CFG_write_variable_u64[Len(Body(tokens))]) \o Body(tokens)
  BY DEF Stream, Header
<1> QED
  BY <1>1, <1>2, <1>3, <1>4, <1>5, <1>6 DEF Opens

(* Every step of either program keeps both invariants.                      *)
LEMMA BothKeep ==
  ASSUME BothInv, [Next]_allVars
  PROVE  BothInv'
<1>1. Inv /\ TokensAreRight /\ PayloadInv /\ Handed
  BY DEF BothInv
<1>2. CASE Pack
  <2>1. index < Len(payload) /\ Compress /\ UNCHANGED vars
    BY <1>2 DEF Pack
  <2>2. CompressNext /\ payload' = payload
    BY <2>1 DEF CompressNext, Size, Compress, CompressRun, CompressRepeat, NoneRun, NoneVarRun,
                NonePack, Emit
  <2>3. Handed'
    BY <1>1, <2>1, <2>2 DEF Handed, vars, callerVars
  <2> QED
    BY <1>1, <2>1, <2>2, <2>3, StepKeepsInv, CompressKeepsRight, PayloadStays DEF BothInv
<1>3. ASSUME UNCHANGED compressVars
      PROVE  Inv' /\ TokensAreRight' /\ payload' = payload
  <2>1. [CompressNext]_compressVars
    BY <1>3
  <2>2. tokens' = tokens /\ expanded' = expanded /\ payload' = payload
    BY <1>3 DEF compressVars
  <2> QED
    BY <1>1, <2>1, <2>2, StepKeepsInv DEF TokensAreRight
<1>4. CASE Hand
  <2>1. /\ index = Len(payload) /\ UNCHANGED compressVars
        /\ OpenPayload(payload, Stream(Len(payload), tokens), TRUE)
    BY <1>4 DEF Hand
  <2>2. PayloadInv'
    BY <1>1, <2>1, HandOpens, OpenKeeps
  <2>3. Inv' /\ TokensAreRight' /\ payload' = payload
    BY <1>3, <2>1
  <2>4. Handed'
    BY <2>1, <2>3 DEF Handed, OpenPayload
  <2> QED
    BY <2>2, <2>3, <2>4 DEF BothInv
<1>5. CASE Analyze
  <2>1. PayloadStep /\ UNCHANGED compressVars
    BY <1>5 DEF Analyze
  <2>2. Inv' /\ TokensAreRight' /\ payload' = payload
    BY <1>3, <2>1
  <2>3. original' = original /\ exact' = exact /\ (pc = "idle" => pc' = "idle")
    BY <2>1 DEF PayloadStep, NextWord, PassWord, EngineTurn, callerVars, ProcessReturned, EndBlock
  <2>4. Handed'
    BY <1>1, <2>2, <2>3 DEF Handed
  <2> QED
    BY <1>1, <2>1, <2>2, <2>4, PayloadStepKeeps DEF BothInv
<1>6. CASE UNCHANGED allVars
  <2>1. UNCHANGED compressVars /\ UNCHANGED vars
    BY <1>6 DEF allVars
  <2>2. Inv' /\ TokensAreRight' /\ payload' = payload
    BY <1>3, <2>1
  <2>3. Handed'
    BY <1>1, <2>1, <2>2 DEF Handed, vars, callerVars
  <2> QED
    BY <1>1, <2>1, <2>2, <2>3, PayloadStays DEF BothInv
<1> QED
  BY <1>2, <1>4, <1>5, <1>6 DEF Next, Stopped, allVars

(* What the analyzer has in the end is what was packed.                     *)
RoundTrip == pc = "over" => written \o remains = payload

(* From the packer to the analyzer, for every payload and all search        *)
(* limits: the compressor's stream is delivered in order, the verdict on it *)
(* is right, and at the end the bytes written and remaining are the payload *)
(* that CFG_compress was given.                                             *)
THEOREM PackedIsReadBack == Spec => [](RoundTrip /\ DeliversPayloadInOrder /\ VerdictIsRight)
<1>1. BothInv => RoundTrip /\ DeliversPayloadInOrder /\ VerdictIsRight
  <2> SUFFICES ASSUME BothInv PROVE RoundTrip /\ DeliversPayloadInOrder /\ VerdictIsRight
    OBVIOUS
  <2>1. DeliversPayloadInOrder /\ VerdictIsRight
    BY PayloadInvIs DEF BothInv
  <2>2. RoundTrip
    BY <2>1 DEF BothInv, Handed, VerdictIsRight, RoundTrip
  <2> QED
    BY <2>1, <2>2
<1> QED
  BY <1>1, BothInit, BothKeep, PTL DEF Spec
=============================================================================
