--------------------------- MODULE BitGenPayload ---------------------------
(***************************************************************************)
(* The analyzer reading back a compressed payload                           *)
(* (BitGenerator/BitGen_analyzer.cpp, parse_payload and its loop over the   *)
(* payload blocks in parse_bop): the stream, padded to whole blocks, goes   *)
(* through the decompression engine one word at a time; what the engine     *)
(* delivers is collected in a buffer and written to the file in whole words.*)
(***************************************************************************)
EXTENDS BitGenDecompressEngine

CONSTANTS
  Words,       \* sizes a word may have, {4} in the code
  BlockWords,  \* words of a block, BitGen_BITSTREAM_BLOCK_SIZE / 4
  BufferSizes  \* sizeof(m_decompressed_data), {2048} in the code

ASSUME PayloadConstants ==
  /\ Words \subseteq Nat \ {0}
  /\ BlockWords \in Nat \ {0}
  /\ \A b \in BufferSizes : \A w \in Words : b \in Nat /\ b >= w

VARIABLES
  pc,        \* where parse_payload is
  original,  \* the payload before compression (history)
  stream,    \* the compressed payload
  exact,     \* the stream is what CFG_COMPRESS::compress wrote (history)
  word,      \* sizeof(uint32_t)
  buffer,    \* sizeof(m_decompressed_data)
  position,  \* bytes of the blocks passed
  written,   \* the file
  remains,   \* m_decompressed_data up to m_decompressed_data_offset
  decompression_status,
  status     \* m_status.status

callerVars ==
  <<pc, original, stream, exact, word, buffer, position, written, remains,
    decompression_status, status>>
vars == <<engineVars, callerVars>>

Block == word * BlockWords

(* The blocks get_next_block returns hold the payload and then zeros.       *)
BlockCount == (Len(stream) + Block - 1) \div Block
WordAt(p) == [k \in 1 .. word |-> IF p + k <= Len(stream) THEN stream[p + k] ELSE 0]
LastBlock == position > (BlockCount - 1) * Block

PayloadInit ==
  /\ EngineInit
  /\ pc = "idle"
  /\ original = <<>>
  /\ stream = <<>>
  /\ exact = TRUE
  /\ word \in Words
  /\ buffer \in BufferSizes
  /\ position = 0
  /\ written = <<>>
  /\ remains = <<>>
  /\ decompression_status = GOOD
  /\ status = TRUE

(* An action with a payload: the engine is reset.                           *)
OpenPayload(data, bytes, compressed) ==
  /\ pc = "idle"
  /\ reset
  /\ pc' = "word"
  /\ original' = data
  /\ stream' = bytes
  /\ exact' = compressed
  /\ UNCHANGED <<running, input, room, output, word, buffer, position, written,
                 remains, decompression_status, status>>

(* Mutant of Settled: an engine that is done is called again.               *)
SettledByError == decompression_status = ERROR

Settled == decompression_status \in {ERROR, DONE}

(* The next word of a block; none is given to an engine that has settled.   *)
NextWord ==
  /\ pc = "word"
  /\ ~Settled
  /\ ProcessEntry(WordAt(position), buffer - Len(remains))
  /\ pc' = "process"
  /\ position' = position + word
  /\ decompression_status' = GOOD
  /\ UNCHANGED <<original, stream, exact, word, buffer, written, remains, status>>

(* Mutants of Collect: the remaining bytes stay where they were; only one   *)
(* word is written.                                                         *)
CollectFront(bytes) ==
  LET whole == Len(bytes) - (Len(bytes) % word)
  IN  /\ written' = written \o SubSeq(bytes, 1, whole)
      /\ remains' = SubSeq(bytes, 1, Len(bytes) % word)

(* What process has returned: the whole words of it are written.            *)
Collect(bytes) ==
  LET whole == Len(bytes) - (Len(bytes) % word)
  IN  /\ written' = written \o SubSeq(bytes, 1, whole)
      /\ remains' = SubSeq(bytes, whole + 1, Len(bytes))

AtBlockEnd == position % Block = 0

(* parse_payload after a call of process: it calls again as long as the     *)
(* status is GOOD.  An assertion ends the program.                          *)
ProcessReturned ==
  /\ pc = "process"
  /\ ~running
  /\ decompression_status' = engine.status
  /\ CASE engine.status = THROWN ->
            /\ pc' = "asserted"
            /\ UNCHANGED <<engineVars, status, written, remains>>
       [] engine.status \in {ERROR, NEED_INPUT} ->
            /\ pc' = IF AtBlockEnd THEN "block" ELSE "word"
            /\ status' = (status /\ engine.status # ERROR)
            /\ UNCHANGED <<engineVars, written, remains>>
       [] engine.status \in {GOOD, DONE} /\ output = <<>> ->
            /\ pc' = "asserted"
            /\ UNCHANGED <<engineVars, status, written, remains>>
       [] OTHER ->
            /\ Collect(remains \o output)
            /\ IF engine.status = GOOD
                 THEN /\ ProcessEntry(input, buffer - Len(remains'))
                      /\ pc' = pc
                 ELSE /\ pc' = IF AtBlockEnd THEN "block" ELSE "word"
                      /\ UNCHANGED engineVars
            /\ UNCHANGED status
  /\ UNCHANGED <<original, stream, exact, word, buffer, position>>

(* The words left when the engine has settled.                              *)
PassWord ==
  /\ pc = "word"
  /\ Settled
  /\ position' = position + word
  /\ pc' = IF position' % Block = 0 THEN "block" ELSE "word"
  /\ UNCHANGED <<engineVars, original, stream, exact, word, buffer, written, remains,
                 decompression_status, status>>

(* The checks at the end of a block.  The loop over the blocks ends with    *)
(* the first that fails.                                                    *)
BlockFails ==
  \/ decompression_status = DONE /\ (~LastBlock \/ remains # <<>>)
  \/ LastBlock /\ ~Settled

EndBlock ==
  /\ pc = "block"
  /\ decompression_status' = IF BlockFails THEN ERROR ELSE decompression_status
  /\ status' = (status /\ ~BlockFails)
  /\ pc' = IF status' /\ ~LastBlock THEN "word" ELSE "over"
  /\ UNCHANGED <<engineVars, original, stream, exact, word, buffer, position, written,
                 remains>>

EngineTurn == EngineNext /\ UNCHANGED callerVars

Stopped == pc \in {"over", "asserted"} /\ UNCHANGED vars

PayloadStep ==
  NextWord \/ PassWord \/ EngineTurn \/ ProcessReturned \/ EndBlock

-----------------------------------------------------------------------------
(* Properties.                                                             *)

(* What has come out of the engine, collected or still in the output of the *)
(* call under way.                                                          *)
Delivered == written \o remains \o (IF pc = "process" THEN output ELSE <<>>)

(* However the stream is cut into words and the output into calls, what is  *)
(* delivered is the beginning of the payload that was compressed, and the   *)
(* engine's own count of it (m_total_output_index) agrees, but for a call   *)
(* that ends in error and delivers nothing.                                 *)
DeliversPayloadInOrder ==
  pc # "asserted" =>
    /\ IsPrefix(Delivered, original)
    /\ engine.status # ERROR => engine.total_output = Len(Delivered)

(* At the end of a stream the compressor wrote all the whole words of the   *)
(* payload are in the file, and the analyzer reports success unless bytes   *)
(* remain that make no word.  Of any stream, with sizes in its header that  *)
(* need not be right, it reports success only when the file is the whole    *)
(* payload and the compressed data was used up.                             *)
VerdictIsRight ==
  /\ exact /\ pc = "over" =>
       /\ written \o remains = original
       /\ status <=> Len(original) % word = 0
  /\ pc = "over" /\ status =>
       /\ written = original
       /\ engine.original_size = Len(original)
       /\ engine.total_input = engine.compress_size

(* A stream the compressor wrote is read to its end: no assertion of the     *)
(* engine fails on the way, and process never returns GOOD or DONE with      *)
(* nothing delivered (the assertion on dcmp_out_size in parse_payload).     *)
PayloadEnds == exact ~> (~exact \/ pc = "over")
=============================================================================
