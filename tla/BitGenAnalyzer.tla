--------------------------- MODULE BitGenAnalyzer ---------------------------
(***************************************************************************)
(* The analyzer (BitGenerator/BitGen_analyzer.cpp): parse_debug takes each  *)
(* BOP that parse found apart: header, actions, signature, challenge, and   *)
(* block by block the payloads, every block verified before it is used.     *)
(* Reading a compressed payload word by word is BitGenPayload; here a       *)
(* payload is read a block at a time.                                       *)
(***************************************************************************)
EXTENDS BitGenParse, SequencesExt

CONSTANTS
  KeySizes      \* words of an AES key that have an encryption, {4, 8}

VARIABLES
  pc,            \* where parse_debug is
  file,          \* the bitstream
  given,         \* the AES key parse_debug was given (history)
  key,           \* m_aes_key
  bop_sizes,     \* what parse returned
  which,         \* the BOP at hand, from 1
  start,         \* start_index
  status,        \* m_status.status
  bop_iv,        \* m_header.iv
  index,         \* m_current_bop_data_index, in blocks
  addr,          \* m_integrity.addr: a hash in a block
  remaining,     \* m_integrity.remaining_size
  actions,       \* actions read and not executed
  action_index,  \* actions read
  region,        \* the block parse_action reads
  tracker,       \* what the next word is
  i,             \* the word it reads, from 1
  turn,          \* the loop over the actions
  j,             \* the loop over the blocks of a payload
  payload_iv,    \* the vector of this payload
  read,          \* what the decompression engine has been given of it
  binfile,       \* the file written for it
  executed       \* the actions found right and their files, of all BOPs (history)

regionVars == <<region, tracker, i, action_index>>
payloadVars == <<j, payload_iv, read, binfile>>
chainVars == <<index, addr, remaining>>
analyzerVars ==
  <<pc, file, given, key, bop_sizes, which, start, status, bop_iv, chainVars, actions,
    regionVars, turn, payloadVars, executed>>

NoHash == [block |-> 0, entry |-> 0]

AnalyzerInit ==
  /\ pc = "idle" /\ file = <<>> /\ given = NoKey /\ key = NoKey /\ bop_sizes = <<>>
  /\ which = 0 /\ start = 0 /\ status = TRUE /\ bop_iv = NoIv
  /\ index = 0 /\ addr = NoHash /\ remaining = 0 /\ actions = <<>>
  /\ region = 0 /\ tracker = "command" /\ i = 0 /\ action_index = 0
  /\ turn = 0 /\ j = 0 /\ payload_iv = NoIv /\ read = <<>> /\ binfile = <<>>
  /\ executed = <<>>

parse_debug(bitstream, aes_key) ==
  /\ pc = "idle"
  /\ LET parsed == parse(bitstream, TRUE, FALSE)
     IN  /\ pc' = IF parsed.ok THEN "header" ELSE "over"
         /\ status' = parsed.ok
         /\ bop_sizes' = parsed.sizes
  /\ file' = bitstream
  /\ given' = aes_key
  /\ key' = aes_key
  /\ which' = 1
  /\ start' = 0
  /\ UNCHANGED <<bop_iv, chainVars, actions, regionVars, turn, payloadVars, executed>>

(***************************************************************************)
(* The blocks of the BOP at hand, 0 the header.  What is not a block of the *)
(* kind expected reads as noise.                                            *)
(***************************************************************************)
Noise == [noise |-> 0]
BlockAt(k) == file[start + k + 1]
TheHeader == BlockAt(0)
BopSize == bop_sizes[which]
ElementAt(block, f, k) ==
  IF f \in DOMAIN block /\ k <= Len(block[f]) THEN block[f][k] ELSE Noise
HashAt(a) == ElementAt(BlockAt(a.block), "hashes", a.entry)

(* Words behind those written are zero.                                     *)
WordIn(block, k) ==
  IF "words" \notin DOMAIN block THEN Noise
  ELSE IF k <= Len(block.words) THEN block.words[k] ELSE Zero
NumberIn(word) == IF "number" \in DOMAIN word THEN word.number ELSE 0
action_count == NumberIn(WordIn(TheHeader, 2))
HashWords == TheHeader.integrity

(***************************************************************************)
(* parse_bop_header                                                         *)
(***************************************************************************)
KnownChecksum == TheHeader.checksum = "flecther32"
KnownCompression == TheHeader.compression \in {"none", "dcmp0"}
KnownEncryption == TheHeader.encryption \in KeySizes \union {0}

(* Where the header names the algorithm of the signature, the model has the *)
(* number of the key, 0 for none.                                           *)
KnownAuthentication == TheHeader.authentication \in Nat
ChipIdHolds ==
  LET plain == obscure(TheHeader.chip, TheHeader.hashes)
  IN  "check" \in DOMAIN plain /\ plain.check = CFG_crc32(plain.id)

HeaderHolds ==
  /\ ChipIdHolds
  /\ KnownChecksum
  /\ KnownCompression
  /\ TheHeader.integrity \in HashSizes
  /\ KnownEncryption
  /\ KnownAuthentication
  /\ TheHeader.crc = CFG_crc32(AllButCrc(TheHeader))

(* parse_action reads the actions in the header unless there are none, or   *)
(* it would not know what their flags mean.                                 *)
parse_bop_header ==
  /\ pc = "header"
  /\ status' = (HeaderHolds /\ action_count # 0)
  /\ bop_iv' = IF KnownEncryption THEN TheHeader.iv ELSE NoIv
  /\ addr' = [block |-> 0, entry |-> 1]
  /\ remaining' = HashWords
  /\ actions' = <<>>
  /\ action_index' = 0
  /\ region' = 0
  /\ tracker' = "command"
  /\ i' = 1
  /\ pc' = IF action_count # 0 /\ KnownCompression /\ KnownEncryption
             THEN "words" ELSE "authenticate"
  /\ UNCHANGED <<file, given, key, bop_sizes, which, start, index, turn, payloadVars,
                 executed>>

(***************************************************************************)
(* parse_action, one word at a time: in the header behind the version and   *)
(* the count, in an action block from its first word.                       *)
(***************************************************************************)
Skipped == IF region = 0 THEN 2 ELSE 0
RegionSize == IF region = 0 THEN HeaderRoom - 2 ELSE BlockSize
Word == WordIn(BlockAt(region), Skipped + i)
NextWord == WordIn(BlockAt(region), Skipped + i + 1)
Newest == Last(actions)

CommandSize(command) ==
  2 + (IF command.checksum THEN 1 ELSE 0) + (IF command.iv THEN IvSize ELSE 0)
    + (IF command.original THEN 1 ELSE 0)

CommandRight(command) ==
  /\ action_index < action_count
  /\ command.size >= 2
  /\ i - 1 + command.size <= RegionSize
  /\ NextWord = Zero => ~command.checksum /\ ~command.original
  /\ TheHeader.compression = "none" => ~command.uncompressed
  /\ TheHeader.encryption = 0 => ~command.iv
  /\ CommandSize(command) <= command.size

(* Mutant of AfterWord: a word that cannot be the last is read again.       *)
AfterWordAgain(good) ==
  /\ i' = IF tracker = "padding" THEN i ELSE i + 1
  /\ status' = (status /\ good)
  /\ pc' = IF good /\ i < RegionSize THEN "words"
           ELSE IF region = 0 THEN "authenticate" ELSE "front"

(* Goes on to the next word, or leaves parse_action.                        *)
AfterWord(good) ==
  /\ i' = i + 1
  /\ status' = (status /\ good)
  /\ pc' = IF good /\ i < RegionSize THEN "words"
           ELSE IF region = 0 THEN "authenticate" ELSE "front"

ReadCommand ==
  /\ tracker = "command"
  /\ IF Word = Zero
       THEN tracker' = "padding" /\ AfterWord(TRUE) /\ UNCHANGED <<actions, action_index>>
     ELSE IF "cmd" \in DOMAIN Word /\ CommandRight(Word)
       THEN /\ actions' = Append(actions,
                 [ cmd |-> Word.cmd, checksum |-> Word.checksum,
                   uncompressed |-> Word.uncompressed, has_iv |-> Word.iv,
                   original |-> Word.original, size |-> Word.size,
                   fields |-> Word.size - CommandSize(Word),
                   ivs |-> IF Word.iv THEN IvSize ELSE 0, iv |-> NoIv,
                   payload_size |-> 0, original_size |-> 0, checksum_value |-> Zero ])
            /\ action_index' = action_index + 1
            /\ tracker' = "payload"
            /\ AfterWord(TRUE)
       ELSE AfterWord(FALSE) /\ UNCHANGED <<tracker, actions, action_index>>

ReadPayloadSize ==
  /\ tracker = "payload"
  /\ actions' = [actions EXCEPT ![Len(actions)].payload_size = NumberIn(Word)]
  /\ tracker' = IF Newest.size = 2 THEN "command"
                ELSE IF Newest.original THEN "original"
                ELSE IF Newest.checksum THEN "checksum" ELSE "field"
  /\ AfterWord(TRUE)
  /\ UNCHANGED action_index

ReadOriginalSize ==
  /\ tracker = "original"
  /\ actions' = [actions EXCEPT ![Len(actions)].original_size = NumberIn(Word)]
  /\ tracker' = IF Newest.size = 3 THEN "command"
                ELSE IF Newest.checksum THEN "checksum" ELSE "field"
  /\ AfterWord(TRUE)
  /\ UNCHANGED action_index

ReadChecksum ==
  /\ tracker = "checksum"
  /\ actions' = [actions EXCEPT ![Len(actions)].checksum_value = Word]
  /\ tracker' = IF Newest.size = (IF Newest.original THEN 4 ELSE 3)
                  THEN "command" ELSE "field"
  /\ AfterWord(TRUE)
  /\ UNCHANGED action_index

(* fields and ivs count down what field_tracker and iv_tracker count up.    *)
ReadFieldOrIv ==
  /\ tracker = "field"
  /\ actions' =
       IF Newest.fields > 0 THEN [actions EXCEPT ![Len(actions)].fields = @ - 1]
       ELSE IF Newest.ivs > 0
         THEN [actions EXCEPT ![Len(actions)].ivs = @ - 1,
                              ![Len(actions)].iv = IF "at" \in DOMAIN Word THEN Word.iv ELSE @]
         ELSE actions
  /\ tracker' = IF Last(actions').fields = 0 /\ Last(actions').ivs = 0
                  THEN "command" ELSE "field"
  /\ AfterWord(TRUE)
  /\ UNCHANGED action_index

ReadPadding ==
  /\ tracker = "padding"
  /\ AfterWord(Word = Zero)
  /\ UNCHANGED <<tracker, actions, action_index>>

parse_action ==
  /\ pc = "words"
  /\ \/ ReadCommand \/ ReadPayloadSize \/ ReadOriginalSize
     \/ ReadChecksum \/ ReadFieldOrIv \/ ReadPadding
  /\ UNCHANGED <<file, given, key, bop_sizes, which, start, bop_iv, chainVars, region, turn,
                 payloadVars, executed>>

(***************************************************************************)
(* authenticate and challenge                                               *)
(***************************************************************************)
Authentic ==
  KnownAuthentication /\ TheHeader.authentication # 0
    => TheHeader.signature = SignatureOf(TheHeader, TheHeader.authentication)

KeyFits == key # NoKey /\ key.size = TheHeader.encryption
Challenged ==
  ChallengeHolds(ctr_encrypt(TheHeader.challenge, key, bop_iv))

(* A BOP that is not encrypted, or for which the key has the wrong size,    *)
(* leaves the analyzer without key.                                         *)
authenticate ==
  /\ pc = "authenticate"
  /\ LET encrypted == KnownEncryption /\ TheHeader.encryption # 0
     IN  /\ status' = (status /\ Authentic /\ (encrypted /\ KeyFits => Challenged))
         /\ key' = IF encrypted /\ KeyFits THEN key ELSE NoKey
         /\ bop_iv' = IF encrypted /\ KeyFits THEN update_iv(bop_iv) ELSE bop_iv
  /\ index' = 1
  /\ turn' = 0
  /\ pc' = IF status' THEN "execute" ELSE "over"
  /\ UNCHANGED <<file, given, bop_sizes, which, start, addr, remaining, actions, regionVars,
                 payloadVars, executed>>

(***************************************************************************)
(* get_next_block: the next block, verified by the next hash; the last hash *)
(* there is verifies a hash block, unless this is the last block.           *)
(***************************************************************************)
NoBlock == [ok |-> FALSE, at |-> 0, next |-> index, addr |-> addr, remaining |-> remaining]
NextHash(a) == [a EXCEPT !.entry = @ + 1]

(* Mutant of Verified: the block is not compared with the hash.             *)
VerifiedUnseen(a, k) == HashAt(a) # Noise

Verified(a, k) == HashAt(a) = sha(BlockAt(k))
IsLastBlock == index = BopSize - 1

HashIsForBlock == IsLastBlock \/ remaining >= 2 * HashWords

get_next_block ==
  IF index = BopSize THEN NoBlock
  ELSE IF ~Verified(addr, index) THEN NoBlock
  ELSE IF HashIsForBlock
    THEN [ok |-> TRUE, at |-> index, next |-> index + 1, addr |-> NextHash(addr),
          remaining |-> remaining - HashWords]
    ELSE LET first == [block |-> index, entry |-> 1]
         IN  IF Verified(first, index + 1)
               THEN [ok |-> TRUE, at |-> index + 1, next |-> index + 2,
                     addr |-> NextHash(first), remaining |-> BlockSize - HashWords]
               ELSE [ok |-> FALSE, at |-> 0, next |-> index + 1, addr |-> first,
                     remaining |-> BlockSize]

(* Its assertions.                                                          *)
HashIsLeft == index < BopSize => remaining >= HashWords

TakeBlock ==
  /\ index' = get_next_block.next
  /\ addr' = get_next_block.addr
  /\ remaining' = get_next_block.remaining

(***************************************************************************)
(* The loop over the actions.                                               *)
(***************************************************************************)
LoopEnds == ~(turn < action_count /\ status)

(* The end of a BOP: parse_debug goes on to the next, if all was right.     *)
EndBop ==
  /\ pc = "execute"
  /\ LoopEnds
  /\ IF status /\ which < Len(bop_sizes)
       THEN pc' = "header" /\ which' = which + 1 /\ start' = start + BopSize
       ELSE pc' = "over" /\ UNCHANGED <<which, start>>
  /\ UNCHANGED <<file, given, key, bop_sizes, status, bop_iv, chainVars, actions, regionVars,
                 turn, payloadVars, executed>>

(* Out of actions: the next block must be an action block.                  *)
NextActionBlock ==
  /\ pc = "execute"
  /\ ~LoopEnds
  /\ actions = <<>>
  /\ IF HashIsLeft /\ (get_next_block.ok => action_index < action_count)
       THEN /\ TakeBlock
            /\ status' = get_next_block.ok
            /\ region' = get_next_block.at
            /\ tracker' = "command"
            /\ i' = 1
            /\ pc' = IF get_next_block.ok THEN "words" ELSE "front"
       ELSE pc' = "asserted" /\ UNCHANGED <<chainVars, status, region, tracker, i>>
  /\ UNCHANGED <<file, given, key, bop_sizes, which, start, bop_iv, actions, action_index,
                 turn, payloadVars, executed>>

ActionsLeft ==
  /\ pc = "execute"
  /\ ~LoopEnds
  /\ actions # <<>>
  /\ pc' = "front"
  /\ UNCHANGED <<file, given, key, bop_sizes, which, start, status, bop_iv, chainVars,
                 actions, regionVars, turn, payloadVars, executed>>

Executing == Head(actions)
Log(pieces) ==
  executed' = IF status' THEN Append(executed, [cmd |-> Executing.cmd, file |-> pieces])
              ELSE executed

(* The first action: with a payload its loop begins, without it is over.    *)
FrontAction ==
  /\ pc = "front"
  /\ UNCHANGED <<file, given, key, bop_sizes, which, start, status, bop_iv, chainVars,
                 regionVars>>
  /\ IF actions # <<>> /\ Executing.payload_size # 0
       THEN /\ pc' = "payload"
            /\ j' = 0
            /\ payload_iv' = IF Executing.has_iv THEN Executing.iv ELSE bop_iv
            /\ read' = <<>>
            /\ binfile' = <<>>
            /\ UNCHANGED <<actions, turn, executed>>
       ELSE /\ pc' = "execute"
            /\ turn' = turn + 1
            /\ IF actions = <<>> THEN UNCHANGED <<actions, executed>>
               ELSE actions' = Tail(actions) /\ Log(<<>>)
            /\ UNCHANGED payloadVars

(***************************************************************************)
(* The blocks of a payload, and parse_payload                               *)
(***************************************************************************)
PayloadBlockCount == BlockCount(Executing.payload_size)
SizeOfBlock ==
  IF Executing.payload_size - j * BlockSize > BlockSize
    THEN BlockSize ELSE Executing.payload_size - j * BlockSize
Readable == TheHeader.encryption = 0 \/ key # NoKey
ProceedDcmp == Readable /\ TheHeader.compression # "none" /\ ~Executing.uncompressed

Plain(block) ==
  LET bytes == IF "bytes" \in DOMAIN block THEN block.bytes ELSE Noise
  IN  IF key = NoKey THEN bytes ELSE ctr_encrypt(bytes, key, payload_iv)
Cut(x) ==
  IF "words" \in DOMAIN x THEN [x EXCEPT !.words = SizeOfBlock]
  ELSE [of |-> x, piece |-> 0, words |-> SizeOfBlock]

(* The engine: wants more of a compressed payload, is done with it, or      *)
(* finds that it is none.                                                   *)
EngineStatus(pieces) ==
  LET content == Head(pieces).of
  IN  IF "of" \notin DOMAIN Head(pieces) \/ "compressed" \notin DOMAIN content THEN "error"
      ELSE IF pieces = Pieces(content) THEN "done"
      ELSE IF IsPrefix(pieces, Pieces(content)) THEN "more" ELSE "error"

parse_payload(block) ==
  LET fed == Append(read, Plain(block))
      dcmp == EngineStatus(fed)
      last == j = PayloadBlockCount - 1
  IN  /\ payload_iv' = IF key = NoKey THEN payload_iv ELSE Advance(payload_iv, 1)
      /\ IF ProceedDcmp
           THEN /\ read' = fed
                /\ binfile' = IF dcmp = "done" THEN Pieces(Head(fed).of.compressed) ELSE binfile
                /\ status' = (dcmp # "error" /\ (dcmp = "done" <=> last))
           ELSE /\ binfile' = Append(binfile, Cut(Plain(block)))
                /\ UNCHANGED <<read, status>>

PayloadBlock ==
  /\ pc = "payload"
  /\ j < PayloadBlockCount
  /\ status
  /\ IF ~HashIsLeft
       THEN pc' = "asserted" /\ UNCHANGED <<payloadVars, chainVars, status>>
       ELSE /\ TakeBlock
            /\ j' = j + 1
            /\ IF get_next_block.ok
                 THEN parse_payload(BlockAt(get_next_block.at))
                 ELSE status' = FALSE /\ UNCHANGED <<payload_iv, read, binfile>>
            /\ UNCHANGED pc
  /\ UNCHANGED <<file, given, key, bop_sizes, which, start, bop_iv, actions, regionVars,
                 turn, executed>>

WordsOf(pieces) == FoldLeft(LAMBDA n, p : n + p.words, 0, pieces)

(* The file read back: its size and its checksum, where the action has them.*)
PayloadHolds ==
  Readable /\ binfile # <<>> =>
    /\ Executing.original => WordsOf(binfile) = Executing.original_size
    /\ Executing.checksum => calc_checksum(binfile) = Executing.checksum_value

VectorAfter ==
  IF key # NoKey /\ ~Executing.has_iv THEN update_iv(bop_iv) ELSE bop_iv

EndPayload ==
  /\ pc = "payload"
  /\ ~(j < PayloadBlockCount /\ status)
  /\ bop_iv' = VectorAfter
  /\ status' = (status /\ PayloadHolds)
  /\ Log(binfile)
  /\ actions' = Tail(actions)
  /\ turn' = turn + 1
  /\ pc' = "execute"
  /\ UNCHANGED <<file, given, key, bop_sizes, which, start, chainVars, regionVars,
                 payloadVars>>

AnalyzerNext ==
  \/ parse_bop_header \/ parse_action \/ authenticate
  \/ EndBop \/ NextActionBlock \/ ActionsLeft \/ FrontAction
  \/ PayloadBlock \/ EndPayload
=============================================================================
