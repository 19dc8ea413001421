----------------------------- MODULE CFGStream -----------------------------
(***************************************************************************)
(* The bytes of a compressed bitstream: the header and the tokens as        *)
(* CFG_COMPRESS::compress lays them out.                                    *)
(***************************************************************************)
EXTENDS CFGTokens, SequencesExt

CONSTANT Identifier   \* "CFG_CMP" and the version, 8 bytes in the code

ASSUME StreamConstants ==
  /\ High \in Nat /\ High >= 3
  /\ Identifier \in Seq(Byte)

(* 128 in the code: a byte of a number carries the digits below Base and,   *)
(* at or above it, says that another byte follows.                          *)
Base == (High + 1) \div 2

CFG_write_variable_u64[value \in Nat] ==
  IF value < Base THEN <<value>>
  ELSE <<Base + (value % Base)>> \o CFG_write_variable_u64[value \div Base]

(* The number that the bytes read so far make up.                            *)
CFG_read_variable_u64(bytes) ==
  FoldRight(LAMBDA b, value : (b % Base) + (Base * value), bytes, 0)

(* One token: its type and length, its bytes, and how often they come again. *)
TokenBytes(t) ==
  CFG_write_variable_u64[(t.length * 16) + (IF t.flagged THEN 8 ELSE 0) + t.pattern]
    \o t.data \o (IF t.count = 0 THEN <<>> ELSE CFG_write_variable_u64[t.count])

Body(tokens) == FlattenSeq([k \in 1 .. Len(tokens) |-> TokenBytes(tokens[k])])

(* What the tokens stand for.                                               *)
Data(tokens) == FlattenSeq([k \in 1 .. Len(tokens) |-> Expand(tokens[k])])

Header(original_size, compress_size) ==
  Identifier \o CFG_write_variable_u64[original_size]
    \o CFG_write_variable_u64[compress_size]

Stream(original_size, tokens) ==
  Header(original_size, Len(Body(tokens))) \o Body(tokens)
=============================================================================
