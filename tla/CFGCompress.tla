---------------------------- MODULE CFGCompress ----------------------------
(***************************************************************************)
(* CFG_COMPRESS::compress (CFGCommonRS/CFGCompress.cpp): the bitstream      *)
(* compressor.  Its loop looks for a chunk that repeats, else for a run,    *)
(* else packs bytes as they are, and writes one token per turn.  A token    *)
(* is a pattern with a length, up to one variable byte or some raw bytes,   *)
(* and, when it is flagged, how often it repeats.                           *)
(*                                                                         *)
(* Positions count from 0 as in the code.  The searches (analyze_repeat,    *)
(* the inner loops) are stated by what they find.                           *)
(***************************************************************************)
EXTENDS CFGTokens

CONSTANTS
  MinRepeat,  \* CFG_CMP_MIN_REPEAT_LENGTH_SEARCH, 3
  MaxSearch,  \* CFG_CMP_MAX_REPEAT_LENGTH_SEARCH, 50
  MaxSame,    \* CFG_CMP_MAX_REPEAT_SAME_PATTERN, 100
  MaxNone,    \* CFG_CMP_MAX_NONE_LENGTH_FOR_REPEAT_PATTERN, 2048
  Inputs      \* the data to compress

ASSUME CompressConstants ==
  /\ High \in Nat \ {0}
  /\ MinRepeat \in Nat \ {0, 1}
  /\ MaxSearch \in Nat /\ MaxSearch >= MinRepeat
  /\ MaxSame \in Nat /\ MaxSame > 2 * MinRepeat /\ MaxSame % 2 = 0
  /\ MaxNone \in Nat
  /\ Inputs \subseteq Seq(Byte) \ {<<>>}

VARIABLES
  payload,     \* the data
  followup,  \* support_followup_byte
  index,     \* position of the loop
  tokens,    \* temp_output
  expanded   \* what the tokens stand for (history)

compressVars == <<payload, followup, index, tokens, expanded>>

-----------------------------------------------------------------------------
(* The searches.                                                            *)

Size == Len(payload)
At(p) == payload[p + 1]
Bytes(i, n) == [k \in 1 .. n |-> At(i + k - 1)]

AllAre(i, n, b) == \A p \in i .. i + n - 1 : At(p) = b
AllButOne(i, n, b) ==
  \E p \in i .. i + n - 1 :
    At(p) # b /\ \A q \in i .. i + n - 1 : q # p => At(q) = b

(* memcmp of the chunk of n bytes at i with the one at j.                    *)
SameChunk(i, j, n) == \A k \in 0 .. n - 1 : At(i + k) = At(j + k)

(* analyze_repeat: the chunk lengths at which the data repeats once, and    *)
(* the run of one byte that is left to compress_none_repeat.                *)
Candidate(i, n) ==
  n >= MinRepeat /\ i + 2 * n <= Size /\ SameChunk(i, i + n, n)
LongRun(i) == i + MaxSame <= Size /\ AllAre(i, MaxSame, At(i))

(* The length it settles on: the first that repeats, grown by one as long   *)
(* as the longer chunk repeats too.                                         *)
FoundLength(i, n) ==
  /\ ~LongRun(i)
  /\ \E first \in MinRepeat .. MaxSearch :
       /\ first <= n
       /\ \A t \in MinRepeat .. first - 1 : ~Candidate(i, t)
       /\ \A t \in first .. n : Candidate(i, t)
       /\ ~Candidate(i, n + 1)

NothingRepeats(i) ==
  LongRun(i) \/ \A t \in MinRepeat .. MaxSearch : ~Candidate(i, t)

(* How many more times the chunk follows itself.                            *)
FoundRepeat(i, n, r) ==
  /\ r > 0
  /\ i + (r + 1) * n <= Size
  /\ \A c \in 1 .. r : SameChunk(i, i + c * n, n)
  /\ ~(i + (r + 2) * n <= Size /\ SameChunk(i, i + (r + 1) * n, n))

(* Mutant of EdgePattern: when the last byte is the background it takes the *)
(* first to differ, as if no other could.                                   *)
EdgePatternLast(i, n, b, first, last) ==
  IF At(i + n - 1) # b THEN last ELSE first

(* analyze_chunk_pattern.  The byte after the chunk is the first of the     *)
(* next one, and so the first of this one.                                  *)
EdgePattern(i, n, b, first, last) ==
  IF At(i + n) # b THEN first ELSE IF At(i + n - 1) # b THEN last ELSE NONE

analyze_chunk_pattern(i, n) ==
  IF AllAre(i, n, 0) THEN ZERO
  ELSE IF AllAre(i, n, High) THEN HIGH
  ELSE IF AllButOne(i, n, 0) THEN EdgePattern(i, n, 0, VAR_ZERO, ZERO_VAR)
  ELSE IF AllButOne(i, n, High) THEN EdgePattern(i, n, High, VAR_HIGH, HIGH_VAR)
  ELSE NONE

(* The run of one byte that begins at i ends before e.                      *)
RunEnd(i, e) ==
  /\ e > i
  /\ e <= Size
  /\ AllAre(i, e - i, At(i))
  /\ e < Size => At(e) # At(i)

-----------------------------------------------------------------------------
(* The tokens.                                                              *)

(* compress_data; follow is the followup byte, or nothing.                  *)
RunToken(b, n, follow) ==
  [ pattern |-> IF b = 0 THEN (IF follow = <<>> THEN ZERO ELSE ZERO_VAR)
                ELSE IF b = High THEN (IF follow = <<>> THEN HIGH ELSE HIGH_VAR)
                ELSE VAR,
    flagged |-> FALSE,
    length  |-> n,
    data    |-> IF b \in {0, High} THEN follow ELSE <<b>>,
    count   |-> 0 ]

(* pack_data. *)
RawToken(i, n) ==
  [pattern |-> NONE, flagged |-> FALSE, length |-> n, data |-> Bytes(i, n),
   count |-> 0]

(* compress_repeat_chunk.  Its first branch writes the flag without a       *)
(* count.                                                                   *)
RepeatToken(i, n, r) ==
  LET pattern == analyze_chunk_pattern(i, n)
  IN  IF pattern = NONE /\ n > MaxNone
        THEN [ pattern |-> NONE, flagged |-> TRUE, length |-> (r + 1) * n,
               data |-> Bytes(i, (r + 1) * n), count |-> 0 ]
        ELSE [ pattern |-> pattern,
               flagged |-> TRUE,
               length  |-> IF pattern = NONE THEN n ELSE n - 1,
               data    |-> IF pattern = NONE THEN Bytes(i, n)
                           ELSE IF pattern \in {VAR_ZERO, VAR_HIGH}
                             THEN <<At(i)>> ELSE <<At(i + n - 1)>>,
               count   |-> r ]

Emit(t, next) ==
  /\ tokens' = Append(tokens, t)
  /\ expanded' = expanded \o Expand(t)
  /\ index' = next
  /\ UNCHANGED <<payload, followup>>

-----------------------------------------------------------------------------
CompressInit ==
  /\ payload \in Inputs
  /\ followup \in BOOLEAN
  /\ index = 0
  /\ tokens = <<>>
  /\ expanded = <<>>

(* A repeated chunk of zeros or ones is a run: it is grown to its end and   *)
(* takes the byte after it along.                                           *)
CompressRun(n, e) ==
  /\ FoundLength(index, n)
  /\ analyze_chunk_pattern(index, n) \in {ZERO, HIGH}
  /\ RunEnd(index, e)
  /\ IF followup /\ e < Size
       THEN Emit(RunToken(At(index), e - index, <<At(e)>>), e + 1)
       ELSE Emit(RunToken(At(index), e - index, <<>>), e)

CompressRepeat(n, r) ==
  /\ FoundLength(index, n)
  /\ FoundRepeat(index, n, r)
  /\ analyze_chunk_pattern(index, n) \notin {ZERO, HIGH}
  /\ Emit(RepeatToken(index, n, r), index + n * (r + 1))

(* compress_none_repeat: a run of at least two bytes, or the last byte.     *)
NoneRun(e) ==
  /\ NothingRepeats(index)
  /\ RunEnd(index, e)
  /\ e - index > 1 \/ e = Size
  /\ IF At(index) \in {0, High} /\ e < Size
       THEN Emit(RunToken(At(index), e - index, <<At(e)>>), e + 1)
       ELSE Emit(RunToken(At(index), e - index, <<>>), e)

(* A byte that a run of zeros or ones follows.                              *)
VarRunFollows(i) ==
  /\ i + 2 < Size
  /\ At(i + 1) # At(i)
  /\ At(i + 1) \in {0, High}
  /\ At(i + 2) = At(i + 1)

NoneVarRun(e) ==
  /\ NothingRepeats(index)
  /\ VarRunFollows(index)
  /\ RunEnd(index + 1, e)
  /\ Emit([ pattern |-> IF At(index + 1) = 0 THEN VAR_ZERO ELSE VAR_HIGH,
            flagged |-> FALSE, length |-> e - index - 1,
            data |-> <<At(index)>>, count |-> 0 ], e)

(* Mutants of NonePack: the loop goes on where the packed bytes began; it   *)
(* steps past the end.                                                      *)
NonePackAgain(e) ==
  /\ NothingRepeats(index)
  /\ index + 1 < e
  /\ e <= Size
  /\ ~VarRunFollows(index)
  /\ \A p \in index .. e - 2 : At(p) # At(p + 1)
  /\ IF e = Size
       THEN Emit(RawToken(index, e - index), e)
       ELSE /\ At(e) = At(e - 1)
            /\ Emit(RawToken(index, e - 1 - index), e - 2)

(* Bytes that differ from one to the next are packed, up to a pair of equal *)
(* ones or the end.                                                         *)
NonePack(e) ==
  /\ NothingRepeats(index)
  /\ index + 1 < e
  /\ e <= Size
  /\ ~VarRunFollows(index)
  /\ \A p \in index .. e - 2 : At(p) # At(p + 1)
  /\ IF e = Size
       THEN Emit(RawToken(index, e - index), e)
       ELSE /\ At(e) = At(e - 1)
            /\ Emit(RawToken(index, e - 1 - index), e - 1)

Finished == index = Size /\ UNCHANGED compressVars

Compress ==
  \/ \E n \in MinRepeat .. Size : \E e \in 1 .. Size : CompressRun(n, e)
  \/ \E n \in MinRepeat .. Size : \E r \in 1 .. Size : CompressRepeat(n, r)
  \/ \E e \in 1 .. Size : NoneRun(e)
  \/ \E e \in 1 .. Size : NoneVarRun(e)
  \/ \E e \in 1 .. Size : NonePack(e)

CompressNext == (index < Size /\ Compress) \/ Finished

CompressSpec == CompressInit /\ [][CompressNext]_compressVars
-----------------------------------------------------------------------------
(* Properties.                                                             *)

(* The tokens are well formed and the loop stays inside the data.           *)
CompressTypeOK ==
  /\ payload \in Inputs
  /\ followup \in BOOLEAN
  /\ index \in 0 .. Size
  /\ tokens \in Seq(Token)
  /\ expanded \in Seq(Byte)

(* Nothing is lost, doubled or altered: at every turn of the loop the       *)
(* tokens so far stand for exactly the bytes passed so far, whichever of    *)
(* the searches and branches produced them.                                 *)
TokensExpandToInput == expanded = SubSeq(payload, 1, index)

=============================================================================
