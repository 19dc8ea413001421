----------------------------- MODULE BitGenParse -----------------------------
(***************************************************************************)
(* parse (BitGenerator/BitGen_analyzer.cpp), the walk over a bitstream from *)
(* header to header that the analyzer, the generator and the UBI packager   *)
(* begin with.                                                              *)
(***************************************************************************)
EXTENDS BitGenBlocks

CONSTANTS
  Identifiers   \* BitGen_BITSTREAM_SUPPORTED_BOP_IDENTIFIER

Refused == [ok |-> FALSE, sizes |-> <<>>]
IsHeader(block) == block.type = "header"

(* The end size of every header must reach the end of the data, and exactly *)
(* the BOP that ends there has its last bit set.                            *)
EndRight(header, at, total) ==
  /\ at + header.end = total
  /\ header.last <=> at + header.size = total

parse(blocks_, check_end_size, check_crc) ==
  LET total == Len(blocks_)
      Right(at) ==
        LET h == blocks_[at + 1]
        IN  /\ IsHeader(h)
            /\ h.identifier \in Identifiers
            /\ h.size > 0 /\ at + h.size <= total
            /\ check_crc => h.crc = CFG_crc32(AllButCrc(h))
            /\ check_end_size => EndRight(h, at, total)
      walk[at \in 0 .. total] ==
        IF at = total THEN [ok |-> TRUE, sizes |-> <<>>]
        ELSE IF ~Right(at) THEN Refused
        ELSE LET size == blocks_[at + 1].size
                 rest == walk[at + size]
             IN  IF rest.ok THEN [ok |-> TRUE, sizes |-> <<size>> \o rest.sizes]
                            ELSE Refused
  IN  IF total = 0 THEN Refused ELSE walk[0]
=============================================================================
