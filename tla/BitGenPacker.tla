---------------------------- MODULE BitGenPacker ----------------------------
(***************************************************************************)
(* The packer (BitGenerator/BitGen_packer.cpp, generate_bitstream): each    *)
(* BOP becomes a header, its actions, their payloads compressed and         *)
(* encrypted, and a chain of hashes through all the blocks; the end sizes   *)
(* are filled in when all BOPs are there.                                   *)
(***************************************************************************)
EXTENDS BitGenBlocks, SequencesExt

CONSTANTS
  BopLists,   \* what generate_bitstream may be given
  OptionSets  \* and with which options

(* BitGen_BITSTREAM_BOP and BitGen_BITSTREAM_ACTION.                         *)
Actions ==
  [ cmd : Nat \ {0}, original : BOOLEAN, checksum : BOOLEAN,
    field : Seq([number : Nat]),
    iv : [nonce : Nat, counter : Nat],
    payload : [data : Nat, size : Nat, packed : Nat] ]
Bops ==
  [ field : [ identifier : STRING, jtag_id : Nat, jtag_mask : Nat, chipid : Nat,
              integrity : HashSizes, iv : [nonce : Nat, counter : Nat] ],
    actions : Seq(Actions) ]

ASSUME PackerConstants ==
  /\ BopLists \subseteq Seq(Bops)
  /\ \A with \in OptionSets :
       with \in [ compress : BOOLEAN, aes_key : [id : Nat, size : Nat], key : Nat ]

VARIABLES
  stage,     \* where generate_bitstream is
  bops,      \* what is packed
  options,   \* compress, aes_key and key
  number,    \* the BOP at hand
  iv,        \* field.iv of it
  at,        \* the action at hand
  blocks,    \* the blocks of the BOP
  area,      \* the block action_data points into
  room,      \* action_remaining_size
  temp,      \* the blocks not hashed yet
  holder,    \* the block hash_data points into
  slots,     \* hash_remaining_size
  pointers,  \* hash_block_hash_data_ptr of the hash blocks: where their hash goes
  data,      \* the bitstream
  sizes,     \* tracking_size
  begin,     \* start_index
  left       \* total_size

bopVars == <<iv, at, blocks, area, room, temp, holder, slots, pointers>>
packerVars == <<stage, bops, options, number, bopVars, data, sizes, begin, left>>

NoOptions == [compress |-> FALSE, aes_key |-> NoKey, key |-> 0]

PackerInit ==
  /\ stage = "idle" /\ bops = <<>> /\ options = NoOptions /\ number = 0
  /\ iv = NoIv /\ at = 0 /\ blocks = <<>> /\ area = 0 /\ room = 0
  /\ temp = <<>> /\ holder = 0 /\ slots = 0 /\ pointers = <<>>
  /\ data = <<>> /\ sizes = <<>> /\ begin = 0 /\ left = 0

bop == bops[number]
Encrypts == options.aes_key # NoKey

generate_bitstream(list, with) ==
  /\ stage = "idle"
  /\ list # <<>>
  /\ stage' = "bop"
  /\ bops' = list
  /\ options' = with
  /\ number' = 1
  /\ data' = <<>>
  /\ sizes' = <<>>
  /\ UNCHANGED <<bopVars, begin, left>>

(* gen_bop_header_basic_field and gen_bop_header_encryption_field; the mask *)
(* is written where the JTAG ID has just been.  The parser of the JSON file *)
(* knows no checksum but this one.                                          *)
GenHeader(field, first_iv) ==
  [ type |-> "header", identifier |-> field.identifier, size |-> 0,
    jtag_id |-> field.jtag_mask, jtag_mask |-> 0,
    chip |-> [id |-> field.chipid, check |-> CFG_crc32(field.chipid)],
    checksum |-> "flecther32",
    compression |-> IF options.compress THEN "dcmp0" ELSE "none",
    integrity |-> field.integrity,
    encryption |-> options.aes_key.size,
    challenge |-> IF Encrypts THEN ctr_encrypt(Challenge, options.aes_key, first_iv)
                              ELSE [random |-> 0],
    iv |-> IF Encrypts THEN first_iv ELSE NoIv,
    words |-> <<>>, hashes |-> <<>>,
    authentication |-> 0, signature |-> [by |-> 0], last |-> FALSE, end |-> 0,
    crc |-> CFG_crc32(0) ]

(* Mutants of UpdateAction: the room is not counted down; a word too many   *)
(* is let in.                                                               *)
UpdateActionUncounted(list, words, in, remaining) ==
  IF remaining >= Len(words)
    THEN [list |-> [list EXCEPT ![in].words = @ \o words],
          in |-> in, remaining |-> remaining]
    ELSE [list |-> Append(list, ActionBlock(words)),
          in |-> Len(list) + 1, remaining |-> BlockSize - Len(words)]

(* update_action: words that do not fit go into an action block of their    *)
(* own.                                                                     *)
UpdateAction(list, words, in, remaining) ==
  IF remaining >= Len(words)
    THEN [list |-> [list EXCEPT ![in].words = @ \o words],
          in |-> in, remaining |-> remaining - Len(words)]
    ELSE [list |-> Append(list, ActionBlock(words)),
          in |-> Len(list) + 1, remaining |-> BlockSize - Len(words)]

(* A BOP begins: its header, then the version and the number of actions.    *)
(* A vector that was not given is made up.                                  *)
BeginBop ==
  /\ stage = "bop"
  /\ \E generated \in 0 .. CounterLimit - 1 :
       LET first_iv == IF Encrypts /\ bop.field.iv = NoIv
                         THEN [nonce |-> generated, counter |-> 1] ELSE bop.field.iv
           header == GenHeader(bop.field, first_iv)
           area1 == UpdateAction(<<header>>, <<Zero, Number(Len(bop.actions))>>, 1,
                                 HeaderRoom)
       IN  /\ iv' = IF Encrypts THEN update_iv(first_iv) ELSE first_iv
           /\ blocks' = area1.list
           /\ area' = area1.in
           /\ room' = area1.remaining
  /\ at' = 1
  /\ stage' = "action"
  /\ UNCHANGED <<bops, options, number, temp, holder, slots, pointers, data, sizes,
                 begin, left>>

(* gen_action, in its order.  Compression is given up when it saves no      *)
(* block.                                                                   *)
Saves(payload) ==
  options.compress /\ BlockCount(payload.packed) < BlockCount(payload.size)
Content(payload) == IF Saves(payload) THEN Compressed(payload) ELSE Original(payload)
HasPayload(action) == action.payload # NoPayload
OwnIv(action) == Encrypts /\ HasPayload(action) /\ action.iv # NoIv

(* Mutant of Vector: the vector of the BOP is used although the action      *)
(* brings its own.                                                          *)
VectorOfBop(action) == iv

Vector(action) == IF OwnIv(action) THEN action.iv ELSE iv

PayloadBlocks(action) ==
  LET pieces == Pieces(Content(action.payload))
  IN  [ k \in 1 .. Len(pieces) |->
          DataBlock(IF Encrypts
                      THEN ctr_encrypt(pieces[k], options.aes_key,
                                       Advance(Vector(action), k - 1))
                      ELSE pieces[k]) ]

ActionWords(action) ==
  LET rest ==
        <<Number(IF HasPayload(action) THEN Content(action.payload).size ELSE 0)>>
        \o (IF action.original THEN <<Number(action.payload.size)>> ELSE <<>>)
        \o (IF action.checksum
              THEN <<calc_checksum(Pieces(Original(action.payload)))>> ELSE <<>>)
        \o action.field
        \o (IF OwnIv(action) THEN [k \in 1 .. IvSize |-> IvWord(action.iv, k)] ELSE <<>>)
  IN  <<[ cmd |-> action.cmd, size |-> 1 + Len(rest),
          original |-> action.original, checksum |-> action.checksum,
          uncompressed |->
            HasPayload(action) /\ options.compress /\ ~Saves(action.payload),
          iv |-> OwnIv(action) ]>> \o rest

GenAction ==
  /\ stage = "action"
  /\ at <= Len(bop.actions)
  /\ LET action == bop.actions[at]
         words == ActionWords(action)
         written == UpdateAction(blocks, words, area, room)
     IN  IF Len(words) > BlockSize
           THEN stage' = "asserted" /\ UNCHANGED <<blocks, area, room, iv, at>>
           ELSE /\ blocks' = written.list
                            \o (IF HasPayload(action) THEN PayloadBlocks(action) ELSE <<>>)
                /\ area' = written.in
                /\ room' = written.remaining
                /\ iv' = IF Encrypts /\ HasPayload(action) /\ ~OwnIv(action)
                           THEN update_iv(iv) ELSE iv
                /\ at' = at + 1
                /\ UNCHANGED stage
  /\ UNCHANGED <<bops, options, number, temp, holder, slots, pointers, data, sizes,
                 begin, left>>

HashSize == blocks[1].integrity

(* update_hash: the blocks are taken out and put back one by one.  With no  *)
(* block behind it the header holds the hash of its own actions.            *)
BeginHash ==
  /\ stage = "action"
  /\ at > Len(bop.actions)
  /\ stage' = "hash"
  /\ temp' = Tail(blocks)
  /\ blocks' = <<IF Len(blocks) = 1
                   THEN [blocks[1] EXCEPT !.hashes = <<sha(blocks[1].words)>>]
                   ELSE blocks[1]>>
  /\ holder' = 1
  /\ slots' = HashSize
  /\ pointers' = <<>>
  /\ UNCHANGED <<bops, options, number, iv, at, area, room, data, sizes, begin, left>>

HashGoesHere == slots >= 2 * HashSize \/ Len(temp) = 1

(* Mutant of RoomOfHashBlock: the hash it begins with is not counted.       *)
RoomOfEmptyBlock == BlockSize

RoomOfHashBlock == BlockSize - HashSize

HashBlockNext ==
  /\ stage = "hash"
  /\ temp # <<>>
  /\ temp' = Tail(temp)
  /\ IF slots < HashSize
       THEN /\ stage' = "asserted"
            /\ UNCHANGED <<blocks, holder, slots, pointers>>
       ELSE IF HashGoesHere
       THEN /\ blocks' = Append([blocks EXCEPT ![holder].hashes =
                                   Append(@, sha(Head(temp)))], Head(temp))
            /\ slots' = slots - HashSize
            /\ UNCHANGED <<stage, holder, pointers>>
       ELSE /\ blocks' = blocks \o <<HashBlock(<<sha(Head(temp))>>), Head(temp)>>
            /\ holder' = Len(blocks) + 1
            /\ slots' = RoomOfHashBlock
            /\ pointers' = Append(pointers, [block |-> Len(blocks) + 1, to |-> holder])
            /\ UNCHANGED stage
  /\ UNCHANGED <<bops, options, number, iv, at, area, room, data, sizes, begin, left>>

(* Mutant of NextPointer: the first hash block first.                       *)
FirstPointer == [here |-> Head(pointers), rest |-> Tail(pointers)]

(* The hash blocks are hashed from the last to the first, since each holds  *)
(* the hash of the next.                                                    *)
NextPointer == [here |-> Last(pointers), rest |-> Front(pointers)]

HashHashBlock ==
  /\ stage = "hash"
  /\ temp = <<>>
  /\ pointers # <<>>
  /\ blocks' = [blocks EXCEPT ![NextPointer.here.to].hashes =
                  Append(@, sha(blocks[NextPointer.here.block]))]
  /\ pointers' = NextPointer.rest
  /\ UNCHANGED <<stage, bops, options, number, iv, at, area, room, temp, holder, slots,
                 data, sizes, begin, left>>

(* obscure, update_bitstream_size, sign, finalize, in this order.           *)
Obscured(header) == [header EXCEPT !.chip = obscure(@, header.hashes)]
Sized(header) == [header EXCEPT !.size = Len(blocks)]
SignedBy(header, signer) ==
  LET named == [header EXCEPT !.authentication = signer]
  IN  IF signer = 0 THEN header
      ELSE [named EXCEPT !.signature = SignatureOf(named, signer)]
Finalized(header) == [header EXCEPT !.crc = CFG_crc32(AllButCrc(header))]

(* Mutant of SealedHeader: the size is filled in after the signature.       *)
SealedBeforeSize(header) ==
  Finalized(Sized(SignedBy(Obscured(header), options.key)))

SealedHeader(header) == Finalized(SignedBy(Sized(Obscured(header)), options.key))

FinishBop ==
  /\ stage = "hash"
  /\ temp = <<>>
  /\ pointers = <<>>
  /\ data' = data \o [blocks EXCEPT ![1] = SealedHeader(@)]
  /\ sizes' = Append(sizes, Len(blocks))
  /\ IF number < Len(bops)
       THEN stage' = "bop" /\ number' = number + 1 /\ UNCHANGED <<begin, left>>
       ELSE stage' = "end" /\ number' = 1 /\ begin' = 0 /\ left' = Len(data')
  /\ UNCHANGED <<bops, options, bopVars>>

(* update_bitstream_end_size of one header.                                 *)
CrcHolds(header) == header.crc = CFG_crc32(AllButCrc(header))
update_bitstream_end_size(header, ending_size, is_last_bop) ==
  Finalized([header EXCEPT !.last = is_last_bop, !.end = ending_size])

(* The loop over the BOPs: what is left of the bitstream is its end size.   *)
EndSize ==
  /\ stage = "end"
  /\ number <= Len(sizes)
  /\ IF CrcHolds(data[begin + 1])
       THEN /\ data' = [data EXCEPT ![begin + 1] =
                          update_bitstream_end_size(@, left, number = Len(sizes))]
            /\ UNCHANGED stage
       ELSE stage' = "asserted" /\ UNCHANGED data
  /\ begin' = begin + sizes[number]
  /\ left' = left - sizes[number]
  /\ number' = number + 1
  /\ UNCHANGED <<bops, options, bopVars, sizes>>

(* generate_bitstream is over: of the packer only the data stays.           *)
PackerReturns ==
  /\ stage = "end"
  /\ number > Len(sizes)
  /\ stage' = "idle" /\ bops' = <<>> /\ options' = NoOptions /\ number' = 0
  /\ iv' = NoIv /\ at' = 0 /\ blocks' = <<>> /\ area' = 0 /\ room' = 0
  /\ temp' = <<>> /\ holder' = 0 /\ slots' = 0 /\ pointers' = <<>>
  /\ data' = <<>> /\ sizes' = <<>> /\ begin' = 0 /\ left' = 0

PackerNext ==
  \/ BeginBop \/ GenAction
  \/ BeginHash \/ HashBlockNext \/ HashHashBlock
  \/ FinishBop \/ EndSize

(***************************************************************************)
(* What packing a BOP must keep                                             *)
(***************************************************************************)

(* The hashes fit into the block that holds them, which has room for        *)
(* exactly what is left, and a block is never left without a hash           *)
(* (CFG_ASSERT(hash_remaining_size >= hash_size)).                          *)
HashesFit ==
  stage = "hash" /\ temp # <<>> =>
    /\ slots >= HashSize
    /\ slots + HashSize * Len(blocks[holder].hashes) =
         (IF holder = 1 THEN HashSize ELSE BlockSize)

(* What is written of the actions into a block fits there, and what the     *)
(* packer takes for the room left is really left.                           *)
ActionsFit ==
  stage = "action" =>
    /\ Len(blocks[area].words) + room = (IF area = 1 THEN HeaderRoom ELSE BlockSize)
    /\ room >= 0

(* When the chain is complete every block behind the header is vouched for  *)
(* by a block in front of it, the hash blocks with what they hold in the    *)
(* end.                                                                     *)
EveryBlockIsVouchedFor ==
  stage = "hash" /\ temp = <<>> /\ pointers = <<>> =>
    \A k \in 2 .. Len(blocks) :
      \E h \in 1 .. k - 1 :
        "hashes" \in DOMAIN blocks[h] /\ sha(blocks[k]) \in Range(blocks[h].hashes)

PackerSpec ==
  PackerInit /\ [][ \/ \E list \in BopLists, with \in OptionSets :
                          generate_bitstream(list, with)
                    \/ PackerNext
                    \/ PackerReturns ]_packerVars
=============================================================================
