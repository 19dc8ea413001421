---------------------------- MODULE BitGenBlocks ----------------------------
(***************************************************************************)
(* What a bitstream is made of, for the packer that writes it               *)
(* (BitGenerator/BitGen_packer.cpp) and the analyzer that reads it          *)
(* (BitGenerator/BitGen_analyzer.cpp): 2K blocks, a header at the front of  *)
(* each BOP, and the hashes, checksums and ciphers over them.  A digest is  *)
(* a constructor (equal digests have equal data); sizes count 32-bit words. *)
(***************************************************************************)
EXTENDS Integers, Sequences

CONSTANTS
  BlockSize,     \* words of a block, BitGen_BITSTREAM_BLOCK_SIZE / 4
  HeaderRoom,    \* words of the header for actions, 0x140 / 4
  IvSize,        \* words of an initialisation vector, 4
  CounterLimit,  \* values of the word of it that is counted up, 2^32
  HashSizes      \* words of a hash, {8, 12, 16}

ASSUME BlockConstants ==
  /\ BlockSize \in Nat \ {0} /\ HeaderRoom \in Nat /\ IvSize \in Nat
  /\ HeaderRoom >= 2
  /\ CounterLimit \in Nat \ {0}
  /\ \A s \in HashSizes : s \in Nat \ {0} /\ BlockSize >= 2 * s

(* Digests.                                                                 *)
sha(block) == [sha |-> block]
CFG_crc32(data) == [crc |-> data]
calc_checksum(pieces) == [checksum |-> pieces]

(* The words of an action block.                                            *)
Number(n) == [number |-> n]
Zero == Number(0)
IvWord(iv, k) == [iv |-> iv, at |-> k]

(* Initialisation vectors: nonce is the first word, which is counted up     *)
(* from payload to payload, counter the rest, which the cipher counts up    *)
(* from block to block.                                                     *)
NoIv == [nonce |-> 0, counter |-> 0]
update_iv(iv) == [iv EXCEPT !.nonce = (@ + 1) % CounterLimit]
Advance(iv, blocks) == [iv EXCEPT !.counter = @ + blocks]

(* AES in counter mode: the same key and vector take it off again.          *)
NoKey == [id |-> 0, size |-> 0]
ctr_encrypt(x, key, iv) ==
  IF "ctr" \in DOMAIN x /\ x.key = key /\ x.at = iv
    THEN x.ctr
    ELSE [ctr |-> x, key |-> key, at |-> iv]

(* The challenge: random data that ends in its own CRC.                     *)
Challenge == [random |-> 1, check |-> CFG_crc32(1)]
ChallengeHolds(x) == "check" \in DOMAIN x /\ x.check = CFG_crc32(x.random)

(* XOR with the hashes of the header, and back.                             *)
obscure(x, hashes) ==
  IF "hidden" \in DOMAIN x /\ x.under = hashes
    THEN x.hidden
    ELSE [hidden |-> x, under |-> hashes]

(* A payload cut into blocks.                                               *)
NoPayload == [data |-> 0, size |-> 0, packed |-> 0]
Original(payload) == [data |-> payload.data, size |-> payload.size]
Compressed(payload) == [compressed |-> Original(payload), size |-> payload.packed]
BlockCount(size) == (size + BlockSize - 1) \div BlockSize
Pieces(content) ==
  [ k \in 1 .. BlockCount(content.size) |->
      [ of |-> content, piece |-> k,
        words |-> IF k * BlockSize <= content.size
                    THEN BlockSize ELSE content.size - (k - 1) * BlockSize ] ]

(* The other kinds of block; the header is GenHeader of BitGenPacker.       *)
ActionBlock(words) == [type |-> "action", words |-> words]
DataBlock(bytes) == [type |-> "data", bytes |-> bytes]
HashBlock(hashes) == [type |-> "hash", hashes |-> hashes]

(* What the signature, and what the CRC at the end of the header, is over.  *)
Signed(header) ==
  [f \in DOMAIN header \ {"signature", "last", "end", "crc"} |-> header[f]]
AllButCrc(header) == [f \in DOMAIN header \ {"crc"} |-> header[f]]
SignatureOf(header, signer) == [by |-> signer, over |-> Signed(header)]
=============================================================================
