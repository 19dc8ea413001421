----------------------------- MODULE CFGTokens -----------------------------
(***************************************************************************)
(* The tokens of a compressed bitstream and what they stand for, as the     *)
(* compressor writes them and both decompressors read them                  *)
(* (CFGCommonRS/CFGCompress.cpp, BitGenerator/BitGen_decompress_engine.h).  *)
(***************************************************************************)
EXTENDS Integers, Sequences

CONSTANT High   \* 255 in the code: the byte whose bits are all set

Byte == 0 .. High

NONE == 0
ZERO == 1
ZERO_VAR == 2
VAR_ZERO == 3
HIGH == 4
HIGH_VAR == 5
VAR_HIGH == 6
VAR == 7
Pattern == 0 .. 7

(* flagged is bit 0x08 of the flag; count is the repeat count written       *)
(* behind the data, 0 when none is written.                                 *)
Token ==
  [pattern : Pattern, flagged : BOOLEAN, length : Nat, data : Seq(Byte),
   count : Nat]

(* What a token stands for: CFG_COMPRESS::decompress on one token.          *)

Fill(n, b) == [k \in 1 .. n |-> b]

CompressByte(t) ==
  IF t.pattern = VAR THEN t.data[1]
  ELSE IF t.pattern \in {HIGH, VAR_HIGH, HIGH_VAR} THEN High ELSE 0

Piece(t) ==
  IF t.pattern = NONE THEN t.data
  ELSE IF t.pattern \in {VAR_ZERO, VAR_HIGH}
    THEN t.data \o Fill(t.length, CompressByte(t))
  ELSE IF t.pattern \in {ZERO_VAR, HIGH_VAR}
    THEN Fill(t.length, CompressByte(t)) \o t.data
  ELSE Fill(t.length, CompressByte(t))

Expand(t) ==
  LET piece == Piece(t)
  IN  [k \in 1 .. Len(piece) * (t.count + 1) |-> piece[((k - 1) % Len(piece)) + 1]]
=============================================================================
