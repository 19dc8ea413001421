------------------------- MODULE BitGenPackerProofs -------------------------
(***************************************************************************)
(* Theorems about the packer: for every list of BOPs and all options, what  *)
(* it writes of the actions into a block fits there, the hashes fit into    *)
(* the blocks that hold them, and the chain of hashes reaches every block.  *)
(* The first two are inductive with the shape of the header and of the      *)
(* block written to; the third with the hash blocks that still wait to be   *)
(* hashed, the only blocks behind the header that can still change.         *)
(***************************************************************************)
EXTENDS BitGenPacker, TLAPS

(* A sequence, of whatever.                                                 *)
Sequential(s) == \E S : s \in Seq(S)

(* The length of a sequence is a natural number.                            *)
LEMMA SequentialLen ==
  ASSUME NEW s, Sequential(s)
  PROVE  Len(s) \in Nat /\ DOMAIN s = 1 .. Len(s)
BY DEF Sequential

(* A sequence over a set is one over a larger set.                          *)
LEMMA SeqIncluded ==
  ASSUME NEW S, NEW T, S \subseteq T, NEW s \in Seq(S)
  PROVE  s \in Seq(T)
OBVIOUS

(* Two sequences joined: the first keeps its places.                        *)
LEMMA Joined ==
  ASSUME NEW s, NEW t, Sequential(s), Sequential(t)
  PROVE  /\ Sequential(s \o t)
         /\ Len(s \o t) = Len(s) + Len(t)
         /\ \A k \in 1 .. Len(s) : (s \o t)[k] = s[k]
<1>1. PICK S : s \in Seq(S)
  BY DEF Sequential
<1>2. PICK T : t \in Seq(T)
  BY DEF Sequential
<1>3. s \in Seq(S \union T) /\ t \in Seq(S \union T)
  BY <1>1, <1>2, SeqIncluded
<1>4. s \o t \in Seq(S \union T)
  BY <1>3
<1> QED
  BY <1>3, <1>4 DEF Sequential

(* One element is a sequence.                                               *)
LEMMA Singles ==
  ASSUME NEW x
  PROVE  Sequential(<<x>>) /\ Len(<<x>>) = 1
<1>1. <<x>> \in Seq({x})
  OBVIOUS
<1> QED
  BY <1>1 DEF Sequential

(* So is none.                                                              *)
LEMMA EmptySequential == Sequential(<<>>) /\ Len(<<>>) = 0
<1>1. <<>> \in Seq({})
  OBVIOUS
<1> QED
  BY <1>1 DEF Sequential

(* A sequence with one more element.                                        *)
LEMMA Appended ==
  ASSUME NEW s, NEW x, Sequential(s)
  PROVE  /\ Sequential(Append(s, x))
         /\ Len(Append(s, x)) = Len(s) + 1
         /\ \A k \in 1 .. Len(s) : Append(s, x)[k] = s[k]
         /\ Append(s, x)[Len(s) + 1] = x
<1>1. PICK S : s \in Seq(S)
  BY DEF Sequential
<1>2. s \in Seq(S \union {x}) /\ x \in S \union {x}
  BY <1>1, SeqIncluded
<1>3. Append(s, x) \in Seq(S \union {x})
  BY <1>2
<1> QED
  BY <1>2, <1>3 DEF Sequential

(* A sequence with one element replaced.                                    *)
LEMMA Replaced ==
  ASSUME NEW s, NEW x, Sequential(s), NEW n \in 1 .. Len(s)
  PROVE  /\ Sequential([s EXCEPT ![n] = x])
         /\ Len([s EXCEPT ![n] = x]) = Len(s)
         /\ [s EXCEPT ![n] = x][n] = x
         /\ \A k \in 1 .. Len(s) : k # n => [s EXCEPT ![n] = x][k] = s[k]
<1>1. PICK S : s \in Seq(S)
  BY DEF Sequential
<1>2. s \in Seq(S \union {x}) /\ x \in S \union {x}
  BY <1>1, SeqIncluded
<1>3. [s EXCEPT ![n] = x] \in Seq(S \union {x})
  BY <1>2
<1> QED
  BY <1>2, <1>3 DEF Sequential

(* A sequence without its first element.                                    *)
LEMMA Rest ==
  ASSUME NEW s, Sequential(s), s # <<>>
  PROVE  Sequential(Tail(s)) /\ Len(Tail(s)) = Len(s) - 1 /\ Len(s) >= 1
<1>1. PICK S : s \in Seq(S)
  BY DEF Sequential
<1>2. Tail(s) \in Seq(S) /\ Len(Tail(s)) = Len(s) - 1 /\ Len(s) >= 1
  BY <1>1
<1> QED
  BY <1>2 DEF Sequential

(* A function over the first n numbers is a sequence.                       *)
LEMMA Counted ==
  ASSUME NEW f, NEW n \in Nat, f = [k \in 1 .. n |-> f[k]]
  PROVE  Sequential(f) /\ Len(f) = n
<1>1. f \in Seq({f[k] : k \in 1 .. n})
  OBVIOUS
<1>2. Len(f) = n
  OBVIOUS
<1> QED
  BY <1>1, <1>2 DEF Sequential

-----------------------------------------------------------------------------
(* The actions.                                                             *)

(* The header's field and hashes, which the actions leave alone.            *)
HeaderShape(header) ==
  /\ {"words", "hashes", "integrity"} \subseteq DOMAIN header
  /\ header.integrity \in HashSizes
  /\ header.hashes = <<>>

(* remaining is what is left of block in.                                   *)
Held(list, in, remaining) ==
  /\ in \in 1 .. Len(list)
  /\ "words" \in DOMAIN list[in]
  /\ Sequential(list[in].words)
  /\ remaining \in Nat
  /\ Len(list[in].words) + remaining = (IF in = 1 THEN HeaderRoom ELSE BlockSize)

(* update_action keeps the count of what is left of a block.                *)
LEMMA Written ==
  ASSUME NEW list, NEW in, NEW remaining, NEW words,
         Sequential(list), HeaderShape(list[1]), Held(list, in, remaining),
         Sequential(words), Len(words) <= BlockSize
  PROVE  LET u == UpdateAction(list, words, in, remaining)
         IN  /\ Sequential(u.list)
             /\ HeaderShape(u.list[1])
             /\ Held(u.list, u.in, u.remaining)
<1> DEFINE u == UpdateAction(list, words, in, remaining)
<1>1. /\ Len(list) \in Nat /\ Len(words) \in Nat /\ Len(list) >= 1
      /\ BlockSize \in Nat /\ HeaderRoom \in Nat
  BY SequentialLen, BlockConstants DEF Held
<1>2. CASE remaining >= Len(words)
  <2> DEFINE block == [list[in] EXCEPT !.words = list[in].words \o words]
  <2>1. /\ u.list = [list EXCEPT ![in] = block]
        /\ u.in = in
        /\ u.remaining = remaining - Len(words)
    BY <1>2 DEF UpdateAction
  <2>2. /\ Sequential(list[in].words \o words)
        /\ Len(list[in].words \o words) = Len(list[in].words) + Len(words)
        /\ Len(list[in].words) \in Nat
    BY Joined, SequentialLen DEF Held
  <2>3. /\ "words" \in DOMAIN block
        /\ block.words = list[in].words \o words
        /\ in = 1 => HeaderShape(block)
    BY DEF Held, HeaderShape
  <2> HIDE DEF block, u
  <2>4. /\ Sequential(u.list)
        /\ Len(u.list) = Len(list)
        /\ u.list[in] = block
        /\ in # 1 => u.list[1] = list[1]
    <3>1. in \in 1 .. Len(list) /\ 1 \in 1 .. Len(list)
      BY <1>1 DEF Held
    <3>2. /\ Sequential([list EXCEPT ![in] = block])
          /\ Len([list EXCEPT ![in] = block]) = Len(list)
          /\ [list EXCEPT ![in] = block][in] = block
          /\ \A k \in 1 .. Len(list) : k # in => [list EXCEPT ![in] = block][k] = list[k]
      BY <3>1, Replaced
    <3> QED
      BY <2>1, <3>1, <3>2
  <2>5. HeaderShape(u.list[1])
    BY <2>3, <2>4
  <2>6. Held(u.list, u.in, u.remaining)
    <3>1. /\ u.in \in 1 .. Len(u.list)
          /\ "words" \in DOMAIN u.list[u.in]
          /\ u.list[u.in].words = list[in].words \o words
      BY <2>1, <2>3, <2>4 DEF Held
    <3>2. Sequential(u.list[u.in].words)
      BY <2>2, <3>1
    <3>3. /\ u.remaining \in Nat
          /\ Len(u.list[u.in].words) + u.remaining =
               (IF u.in = 1 THEN HeaderRoom ELSE BlockSize)
      <4> DEFINE old == Len(list[in].words)
                 added == Len(words)
                 both == Len(u.list[u.in].words)
                 cap == IF u.in = 1 THEN HeaderRoom ELSE BlockSize
      <4>1. /\ both = old + added
            /\ u.remaining = remaining - added
            /\ old + remaining = cap
            /\ remaining \in Nat
        BY <2>1, <2>2, <3>1 DEF Held
      <4>2. old \in Nat /\ added \in Nat /\ remaining >= added
        BY <1>1, <1>2, <2>2
      <4> HIDE DEF old, added, both, cap
      <4>3. u.remaining \in Nat /\ both + u.remaining = cap
        BY <4>1, <4>2
      <4> QED
        BY <4>3 DEF both, cap
    <3> QED
      BY <3>1, <3>2, <3>3 DEF Held
  <2> QED
    BY <2>4, <2>5, <2>6 DEF u
<1>3. CASE ~(remaining >= Len(words))
  <2>1. /\ u.list = Append(list, ActionBlock(words))
        /\ u.in = Len(list) + 1
        /\ u.remaining = BlockSize - Len(words)
    BY <1>3 DEF UpdateAction
  <2>2. /\ "words" \in DOMAIN ActionBlock(words)
        /\ ActionBlock(words).words = words
    BY DEF ActionBlock
  <2>3. /\ Sequential(u.list)
        /\ Len(u.list) = Len(list) + 1
        /\ u.list[1] = list[1]
        /\ u.list[Len(list) + 1] = ActionBlock(words)
    BY <1>1, <2>1, Appended
  <2> HIDE DEF u
  <2>4. HeaderShape(u.list[1])
    BY <2>3
  <2>5. Held(u.list, u.in, u.remaining)
    BY <1>1, <2>1, <2>2, <2>3 DEF Held
  <2> QED
    BY <2>3, <2>4, <2>5 DEF u
<1> QED
  BY <1>2, <1>3

(* Blocks written behind do not change the block the actions are in.        *)
LEMMA Extended ==
  ASSUME NEW list, NEW in, NEW remaining, NEW more,
         Sequential(list), HeaderShape(list[1]), Held(list, in, remaining),
         Sequential(more)
  PROVE  /\ Sequential(list \o more)
         /\ HeaderShape((list \o more)[1])
         /\ Held(list \o more, in, remaining)
<1>1. /\ Len(list) \in Nat /\ Len(more) \in Nat /\ in \in 1 .. Len(list) /\ Len(list) >= 1
  BY SequentialLen DEF Held
<1>2. /\ Sequential(list \o more)
      /\ Len(list \o more) = Len(list) + Len(more)
      /\ \A k \in 1 .. Len(list) : (list \o more)[k] = list[k]
  BY Joined
<1>3. (list \o more)[1] = list[1] /\ (list \o more)[in] = list[in]
  BY <1>1, <1>2
<1> QED
  BY <1>1, <1>2, <1>3 DEF Held

(* What is written of an action is a sequence.                              *)
LEMMA WordsSequential ==
  ASSUME NEW action \in Actions
  PROVE  Sequential(ActionWords(action))
<1> DEFINE size == <<Number(IF HasPayload(action) THEN Content(action.payload).size ELSE 0)>>
           original == IF action.original THEN <<Number(action.payload.size)>> ELSE <<>>
           checksum == IF action.checksum
                         THEN <<calc_checksum(Pieces(Original(action.payload)))>> ELSE <<>>
           own == IF OwnIv(action) THEN [k \in 1 .. IvSize |-> IvWord(action.iv, k)] ELSE <<>>
           rest == size \o original \o checksum \o action.field \o own
           command == [ cmd |-> action.cmd, size |-> 1 + Len(rest),
                        original |-> action.original, checksum |-> action.checksum,
                        uncompressed |->
                          HasPayload(action) /\ options.compress /\ ~Saves(action.payload),
                        iv |-> OwnIv(action) ]
<1>1. Sequential(size)
  BY Singles, Zenon
<1>2. Sequential(original)
  BY Singles, EmptySequential, Zenon
<1>3. Sequential(checksum)
  BY Singles, EmptySequential, Zenon
<1>4. Sequential(action.field)
  BY DEF Actions, Sequential
<1>5. Sequential(own)
  <2> DEFINE f == [k \in 1 .. IvSize |-> IvWord(action.iv, k)]
  <2>1. IvSize \in Nat /\ f = [k \in 1 .. IvSize |-> f[k]]
    BY BlockConstants
  <2> HIDE DEF f
  <2>2. Sequential(f)
    BY <2>1, Counted
  <2> QED
    BY <2>2, EmptySequential DEF f
<1> HIDE DEF size, original, checksum, own
<1>6. Sequential(size \o original)
  BY <1>1, <1>2, Joined
<1>7. Sequential(size \o original \o checksum)
  BY <1>3, <1>6, Joined
<1>8. Sequential(size \o original \o checksum \o action.field)
  BY <1>4, <1>7, Joined
<1>9. Sequential(rest)
  BY <1>5, <1>8, Joined
<1>10. ActionWords(action) = <<command>> \o rest
  BY Zenon DEF ActionWords, size, original, checksum, own
<1> HIDE DEF command, rest
<1> QED
  BY <1>9, <1>10, Singles, Joined

(* The blocks of a payload are a sequence.                                  *)
LEMMA BlocksSequential ==
  ASSUME NEW action \in Actions
  PROVE  Sequential(PayloadBlocks(action))
<1> DEFINE content == Content(action.payload)
           n == BlockCount(content.size)
           pieces == Pieces(content)
           data_blocks == PayloadBlocks(action)
<1>1. content.size \in Nat
  BY DEF Actions, Content, Compressed, Original
<1> HIDE DEF content
<1>2. n \in Nat
  BY <1>1, BlockConstants, SMT DEF BlockCount
<1>3. Len(pieces) = n
  <2>1. pieces = [k \in 1 .. n |-> pieces[k]]
    BY DEF Pieces
  <2> HIDE DEF pieces, n
  <2> QED
    BY <1>2, <2>1, Counted
<1>4. data_blocks = [k \in 1 .. n |-> data_blocks[k]]
  BY <1>3 DEF PayloadBlocks, content
<1> HIDE DEF data_blocks, n
<1> QED
  BY <1>2, <1>4, Counted DEF data_blocks

-----------------------------------------------------------------------------
(* The invariant.                                                           *)

(* remaining is what is left for hashes in block in, and one fits.          *)
Holding(list, in, remaining, size) ==
  /\ in \in 1 .. Len(list)
  /\ "hashes" \in DOMAIN list[in]
  /\ Sequential(list[in].hashes)
  /\ remaining \in Nat
  /\ remaining >= size
  /\ remaining + size * Len(list[in].hashes) = (IF in = 1 THEN size ELSE BlockSize)

AtHand ==
  stage \in {"bop", "action", "hash"} => bops \in BopLists /\ number \in 1 .. Len(bops)

ActionStage ==
  stage = "action" =>
    /\ at \in Nat \ {0}
    /\ Sequential(blocks)
    /\ HeaderShape(blocks[1])
    /\ Held(blocks, area, room)

HashStage ==
  stage = "hash" /\ temp # <<>> =>
    /\ Sequential(temp)
    /\ Sequential(blocks)
    /\ "integrity" \in DOMAIN blocks[1]
    /\ HashSize \in HashSizes
    /\ Holding(blocks, holder, slots, HashSize)

PackerIInv == AtHand /\ ActionStage /\ HashStage

(* The invariant implies both properties.                                   *)
LEMMA InvariantHolds == PackerIInv => HashesFit /\ ActionsFit
BY BlockConstants DEF PackerIInv, ActionStage, HashStage, Held, Holding, HashesFit, ActionsFit

(* While a BOP is packed there is one.                                      *)
LEMMA BopAtHand ==
  ASSUME AtHand, stage \in {"bop", "action", "hash"}
  PROVE  bop \in Bops /\ number \in 1 .. Len(bops) /\ bops \in Seq(Bops)
<1>1. bops \in Seq(Bops) /\ number \in 1 .. Len(bops)
  BY PackerConstants DEF AtHand
<1> HIDE DEF Bops
<1> QED
  BY <1>1 DEF bop

(* The packer begins with nothing at hand.                                  *)
LEMMA InitKeeps == PackerInit => PackerIInv
BY DEF PackerInit, PackerIInv, AtHand, ActionStage, HashStage

(* generate_bitstream begins with the first BOP.                            *)
LEMMA GenerateKeeps ==
  ASSUME NEW list \in BopLists, NEW with \in OptionSets, generate_bitstream(list, with)
  PROVE  PackerIInv'
<1>1. stage' = "bop" /\ bops' = list /\ number' = 1 /\ list # <<>>
  BY DEF generate_bitstream
<1>2. list \in Seq(Bops)
  BY PackerConstants
<1>3. 1 \in 1 .. Len(list)
  BY <1>1, <1>2
<1> QED
  BY <1>1, <1>3 DEF PackerIInv, AtHand, ActionStage, HashStage

(* The header has room for the version and the number of actions.           *)
LEMMA BeginBopKeeps ==
  ASSUME PackerIInv, BeginBop
  PROVE  PackerIInv'
<1>1. stage = "bop" /\ stage' = "action" /\ at' = 1 /\ UNCHANGED <<bops, number>>
  BY DEF BeginBop
<1>2. AtHand'
  BY <1>1 DEF PackerIInv, AtHand
<1>3. bop.field.integrity \in HashSizes
  BY <1>1, BopAtHand DEF PackerIInv, Bops
<1>4. PICK first_iv :
        LET u == UpdateAction(<<GenHeader(bop.field, first_iv)>>,
                              <<Zero, Number(Len(bop.actions))>>, 1, HeaderRoom)
        IN  blocks' = u.list /\ area' = u.in /\ room' = u.remaining
  BY DEF BeginBop
<1> DEFINE header == GenHeader(bop.field, first_iv)
           words == <<Zero, Number(Len(bop.actions))>>
<1>5. HeaderShape(header) /\ "words" \in DOMAIN header /\ header.words = <<>>
  BY <1>3 DEF GenHeader, HeaderShape
<1>6. Sequential(words) /\ Len(words) = 2
  <2>1. words \in Seq({Zero, Number(Len(bop.actions))})
    OBVIOUS
  <2> QED
    BY <2>1 DEF Sequential
<1> HIDE DEF header, words
<1>7. /\ Sequential(<<header>>) /\ Len(<<header>>) = 1
      /\ <<header>>[1] = header
  BY Singles
<1>8. Held(<<header>>, 1, HeaderRoom)
  <2>1. Sequential(<<header>>[1].words) /\ Len(<<header>>[1].words) = 0
    BY <1>5, <1>7, EmptySequential
  <2> QED
    BY <1>5, <1>7, <2>1, BlockConstants DEF Held
<1>9. Len(words) <= BlockSize
  <2>1. \E s \in HashSizes : s \in Nat \ {0} /\ BlockSize >= 2 * s
    BY <1>3, BlockConstants
  <2> QED
    BY <1>6, <2>1, BlockConstants
<1>10. /\ Sequential(blocks')
       /\ HeaderShape(blocks'[1])
       /\ Held(blocks', area', room')
  <2>1. LET u == UpdateAction(<<header>>, words, 1, HeaderRoom)
        IN  /\ Sequential(u.list)
            /\ HeaderShape(u.list[1])
            /\ Held(u.list, u.in, u.remaining)
    BY <1>5, <1>6, <1>7, <1>8, <1>9, Written
  <2> QED
    BY <1>4, <2>1 DEF header, words
<1>11. ActionStage'
  BY <1>1, <1>10 DEF ActionStage
<1>12. HashStage'
  BY <1>1 DEF HashStage
<1> QED
  BY <1>2, <1>11, <1>12 DEF PackerIInv

(* An action that passes the assertion fits into a block.                   *)
LEMMA GenActionKeeps ==
  ASSUME PackerIInv, GenAction
  PROVE  PackerIInv'
<1> DEFINE action == bop.actions[at]
           words == ActionWords(action)
           u == UpdateAction(blocks, words, area, room)
           more == IF HasPayload(action) THEN PayloadBlocks(action) ELSE <<>>
<1>1. stage = "action" /\ at <= Len(bop.actions) /\ UNCHANGED <<bops, number>>
  BY DEF GenAction
<1>2. CASE Len(words) > BlockSize
  <2>1. stage' = "asserted"
    BY <1>2 DEF GenAction
  <2> QED
    BY <2>1 DEF PackerIInv, AtHand, ActionStage, HashStage
<1>3. CASE ~(Len(words) > BlockSize)
  <2>1. /\ blocks' = u.list \o more
        /\ area' = u.in
        /\ room' = u.remaining
        /\ at' = at + 1
        /\ stage' = stage
    BY <1>3, Zenon DEF GenAction
  <2>2. action \in Actions /\ at \in Nat \ {0}
    <3>1. bop \in Bops /\ at \in Nat \ {0}
      BY <1>1, BopAtHand DEF PackerIInv, ActionStage
    <3>2. bop.actions \in Seq(Actions)
      BY <3>1 DEF Bops
    <3> HIDE DEF Actions
    <3> QED
      BY <1>1, <3>1, <3>2
  <2>3. Sequential(words)
    BY <2>2, WordsSequential
  <2>4. Sequential(more)
    BY <2>2, BlocksSequential, EmptySequential
  <2>5. Sequential(blocks) /\ HeaderShape(blocks[1]) /\ Held(blocks, area, room)
    BY <1>1 DEF PackerIInv, ActionStage
  <2>6. Len(words) <= BlockSize
    <3>1. Len(words) \in Nat
      BY <2>3, SequentialLen
    <3> HIDE DEF words
    <3> QED
      BY <1>3, <3>1, BlockConstants
  <2> HIDE DEF words, more
  <2>7. Sequential(u.list) /\ HeaderShape(u.list[1]) /\ Held(u.list, u.in, u.remaining)
    BY <2>3, <2>5, <2>6, Written
  <2> HIDE DEF u
  <2>8. /\ Sequential(blocks')
        /\ HeaderShape(blocks'[1])
        /\ Held(blocks', area', room')
    BY <2>1, <2>4, <2>7, Extended
  <2>9. at' \in Nat \ {0}
    BY <2>1, <2>2
  <2> QED
    BY <1>1, <2>1, <2>8, <2>9 DEF PackerIInv, AtHand, ActionStage, HashStage
<1> QED
  BY <1>2, <1>3

(* The header has a place for one hash, and it is free.                     *)
LEMMA BeginHashKeeps ==
  ASSUME PackerIInv, BeginHash
  PROVE  PackerIInv'
<1>1. stage = "action" /\ stage' = "hash" /\ UNCHANGED <<bops, number>>
  BY DEF BeginHash
<1>2. AtHand' /\ ActionStage'
  BY <1>1 DEF PackerIInv, AtHand, ActionStage
<1>3. ASSUME temp' # <<>>
      PROVE  HashStage'
  <2>1. /\ Sequential(blocks) /\ HeaderShape(blocks[1]) /\ Len(blocks) >= 1
        /\ Len(blocks) \in Nat
    BY <1>1, SequentialLen DEF PackerIInv, ActionStage, Held
  <2>2. temp' = Tail(blocks) /\ blocks # <<>>
    BY <2>1, EmptySequential DEF BeginHash
  <2>3. Sequential(temp') /\ Len(temp') = Len(blocks) - 1
    BY <2>1, <2>2, Rest
  <2>4. Len(blocks) # 1
    <3>1. ASSUME Len(blocks) = 1
          PROVE  FALSE
      <4>1. Len(temp') = 0
        BY <2>3, <3>1
      <4>2. PICK S : temp' \in Seq(S)
        BY <2>3 DEF Sequential
      <4> QED
        BY <1>3, <4>1, <4>2
    <3> QED
      BY <3>1
  <2>5. blocks' = <<blocks[1]>> /\ holder' = 1 /\ slots' = HashSize
    BY <2>4 DEF BeginHash
  <2>6. Sequential(blocks') /\ Len(blocks') = 1 /\ blocks'[1] = blocks[1]
    BY <2>5, Singles
  <2>7. HashSize' = HashSize /\ HashSize \in HashSizes
    BY <2>1, <2>6 DEF HashSize, HeaderShape
  <2>8. Holding(blocks', holder', slots', HashSize)
    <3>1. HashSize \in Nat
      BY <2>7, BlockConstants
    <3>2. Sequential(blocks'[1].hashes) /\ Len(blocks'[1].hashes) = 0
      BY <2>1, <2>6, EmptySequential DEF HeaderShape
    <3>3. HashSize + HashSize * 0 = HashSize
      BY <3>1
    <3> QED
      BY <2>1, <2>5, <2>6, <3>1, <3>2, <3>3 DEF Holding, HeaderShape
  <2> QED
    BY <2>1, <2>3, <2>6, <2>7, <2>8 DEF HashStage, HeaderShape
<1>4. temp' = <<>> => HashStage'
  BY DEF HashStage
<1> QED
  BY <1>2, <1>3, <1>4 DEF PackerIInv

(* A hash goes into the header only when it is the last: there is room for  *)
(* one.  Otherwise a hash block follows, and its last place is kept.        *)
LEMMA HashBlockKeeps ==
  ASSUME PackerIInv, HashBlockNext
  PROVE  PackerIInv'
<1> DEFINE s == HashSize
           b == Head(temp)
           held == blocks[holder]
           filled == [held EXCEPT !.hashes = Append(held.hashes, sha(b))]
<1>1. /\ stage = "hash" /\ temp # <<>> /\ temp' = Tail(temp)
      /\ UNCHANGED <<bops, number>>
  BY DEF HashBlockNext
<1>2. /\ Sequential(temp) /\ Sequential(blocks)
      /\ "integrity" \in DOMAIN blocks[1]
      /\ s \in HashSizes
      /\ Holding(blocks, holder, slots, s)
  BY <1>1 DEF PackerIInv, HashStage
<1>3. /\ s \in Nat \ {0} /\ BlockSize >= 2 * s
      /\ BlockSize \in Nat /\ slots \in Nat /\ slots >= s
      /\ Len(blocks) \in Nat /\ Len(blocks) >= 1
  BY <1>2, BlockConstants, SequentialLen DEF Holding
<1>4. Sequential(Tail(temp))
  BY <1>1, <1>2, Rest
<1>5. ~(slots < HashSize)
  BY <1>3
<1>6. CASE HashGoesHere
  <2>1. /\ stage' = stage
        /\ blocks' = Append([blocks EXCEPT ![holder] = filled], b)
        /\ slots' = slots - s
        /\ holder' = holder
    BY <1>6, <1>5, Zenon DEF HashBlockNext
  <2>2. AtHand' /\ ActionStage'
    BY <1>1, <2>1 DEF PackerIInv, AtHand, ActionStage
  <2>3. ASSUME temp' # <<>>
        PROVE  HashStage'
    <3>1. slots >= 2 * s
      <4>1. ASSUME Len(temp) = 1
            PROVE  FALSE
        <5>1. PICK S : temp \in Seq(S)
          BY <1>2 DEF Sequential
        <5> QED
          BY <1>1, <2>3, <4>1, <5>1
      <4> QED
        BY <1>6, <4>1 DEF HashGoesHere
    <3>2. holder # 1
      <4>1. ASSUME holder = 1
            PROVE  FALSE
        <5> DEFINE n == Len(blocks[holder].hashes)
        <5>1. n \in Nat /\ slots + s * n = s
          BY <1>2, <4>1, SequentialLen DEF Holding
        <5> HIDE DEF n, s
        <5>2. s * n >= 0
          BY <1>3, <5>1
        <5> QED
          BY <1>3, <3>1, <5>1, <5>2
      <4> QED
        BY <4>1
    <3>3. /\ "hashes" \in DOMAIN filled
          /\ filled.hashes = Append(held.hashes, sha(b))
      BY <1>2 DEF Holding
    <3>4. /\ Sequential(filled.hashes)
          /\ Len(filled.hashes) = Len(held.hashes) + 1
          /\ Len(held.hashes) \in Nat
      BY <1>2, <3>3, Appended, SequentialLen DEF Holding
    <3> DEFINE list == [blocks EXCEPT ![holder] = filled]
    <3>5. holder \in 1 .. Len(blocks) /\ 1 \in 1 .. Len(blocks)
      BY <1>2, <1>3 DEF Holding
    <3> HIDE DEF filled
    <3>6. /\ Sequential(list) /\ Len(list) = Len(blocks)
          /\ list[holder] = filled /\ list[1] = blocks[1]
      BY <1>2, <3>2, <3>5, Replaced
    <3> HIDE DEF list, b
    <3>7. /\ Sequential(blocks') /\ Len(blocks') = Len(blocks) + 1
          /\ blocks'[holder] = filled /\ blocks'[1] = blocks[1]
      BY <2>1, <3>5, <3>6, Appended DEF list
    <3>8. HashSize' = s
      BY <3>7 DEF HashSize
    <3>9. slots - s + s * Len(filled.hashes) = BlockSize
      <4> DEFINE n == Len(held.hashes)
                 m == Len(filled.hashes)
      <4>1. slots + s * n = BlockSize /\ n \in Nat /\ m = n + 1
        BY <1>2, <3>2, <3>4 DEF Holding
      <4> HIDE DEF n, m, s
      <4>2. s * m = s * n + s /\ s * n \in Nat
        BY <1>3, <4>1
      <4>3. slots - s + s * m = BlockSize
        BY <1>3, <4>1, <4>2
      <4> QED
        BY <4>3 DEF m
    <3>10. slots - s \in Nat /\ slots - s >= s
      BY <1>3, <3>1
    <3>11. Holding(blocks', holder', slots', s)
      <4>1. /\ holder \in 1 .. Len(blocks') /\ holder' = holder /\ slots' = slots - s
            /\ blocks'[holder] = filled
        BY <2>1, <3>5, <3>7
      <4>2. /\ "hashes" \in DOMAIN filled /\ Sequential(filled.hashes)
            /\ slots - s \in Nat /\ slots - s >= s
            /\ slots - s + s * Len(filled.hashes) = BlockSize /\ holder # 1
        BY <3>2, <3>3, <3>4, <3>9, <3>10
      <4> QED
        BY <4>1, <4>2 DEF Holding
    <3> QED
      BY <1>1, <1>2, <1>4, <3>7, <3>8, <3>11 DEF HashStage
  <2>4. temp' = <<>> => HashStage'
    BY DEF HashStage
  <2> QED
    BY <2>2, <2>3, <2>4 DEF PackerIInv
<1>7. CASE ~HashGoesHere
  <2> DEFINE fresh == HashBlock(<<sha(b)>>)
  <2>1. /\ stage' = stage
        /\ blocks' = blocks \o <<fresh, b>>
        /\ slots' = BlockSize - s
        /\ holder' = Len(blocks) + 1
    BY <1>7, <1>5, Zenon DEF HashBlockNext, RoomOfHashBlock
  <2>2. AtHand' /\ ActionStage'
    BY <1>1, <2>1 DEF PackerIInv, AtHand, ActionStage
  <2>3. /\ "hashes" \in DOMAIN fresh
        /\ Sequential(fresh.hashes) /\ Len(fresh.hashes) = 1
    BY Singles DEF HashBlock
  <2> HIDE DEF fresh, b
  <2>4. /\ Sequential(blocks') /\ Len(blocks') = Len(blocks) + 2
        /\ blocks'[Len(blocks) + 1] = fresh /\ blocks'[1] = blocks[1]
    <3>1. PICK S : blocks \in Seq(S)
      BY <1>2 DEF Sequential
    <3> DEFINE T == S \union {fresh, b}
    <3>2. blocks \in Seq(T) /\ <<fresh, b>> \in Seq(T)
      BY <3>1, SeqIncluded
    <3> HIDE DEF T
    <3>3. blocks' \in Seq(T)
      BY <2>1, <3>2
    <3> QED
      BY <1>3, <2>1, <3>2, <3>3 DEF Sequential
  <2>5. HashSize' = s
    BY <2>4 DEF HashSize
  <2>6. BlockSize - s + s * 1 = BlockSize /\ BlockSize - s \in Nat /\ BlockSize - s >= s
    <3> HIDE DEF s
    <3> QED
      BY <1>3
  <2>7. Holding(blocks', holder', slots', s)
    <3>1. holder' # 1 /\ holder' \in 1 .. Len(blocks') /\ blocks'[holder'] = fresh
      BY <1>3, <2>1, <2>4
    <3>2. Len(blocks'[holder'].hashes) = 1
      BY <2>3, <3>1
    <3> HIDE DEF s
    <3> QED
      BY <2>1, <2>3, <2>6, <3>1, <3>2 DEF Holding
  <2>8. HashStage'
    BY <1>1, <1>2, <1>4, <2>4, <2>5, <2>7 DEF HashStage
  <2> QED
    BY <2>2, <2>8 DEF PackerIInv
<1> QED
  BY <1>6, <1>7

(* The next BOP, or none.                                                   *)
LEMMA FinishKeeps ==
  ASSUME PackerIInv, FinishBop
  PROVE  PackerIInv'
<1>1. stage = "hash" /\ temp = <<>>
  BY DEF FinishBop
<1>2. CASE number < Len(bops)
  <2>1. stage' = "bop" /\ number' = number + 1 /\ bops' = bops
    BY <1>2 DEF FinishBop
  <2>2. number + 1 \in 1 .. Len(bops) /\ bops \in BopLists
    <3>1. number \in 1 .. Len(bops) /\ bops \in Seq(Bops) /\ bops \in BopLists
      BY <1>1, BopAtHand DEF PackerIInv, AtHand
    <3> QED
      BY <1>2, <3>1
  <2> QED
    BY <2>1, <2>2 DEF PackerIInv, AtHand, ActionStage, HashStage
<1>3. CASE ~(number < Len(bops))
  <2>1. stage' = "end"
    BY <1>3 DEF FinishBop
  <2> QED
    BY <2>1 DEF PackerIInv, AtHand, ActionStage, HashStage
<1> QED
  BY <1>2, <1>3

(* Every step of the packer.                                                *)
LEMMA PackerStepKeeps ==
  ASSUME PackerIInv, PackerNext \/ PackerReturns
  PROVE  PackerIInv'
<1>1. CASE BeginBop
  BY <1>1, BeginBopKeeps
<1>2. CASE GenAction
  BY <1>2, GenActionKeeps
<1>3. CASE BeginHash
  BY <1>3, BeginHashKeeps
<1>4. CASE HashBlockNext
  BY <1>4, HashBlockKeeps
<1>5. CASE HashHashBlock
  BY <1>5 DEF HashHashBlock, PackerIInv, AtHand, ActionStage, HashStage
<1>6. CASE FinishBop
  BY <1>6, FinishKeeps
<1>7. CASE EndSize
  BY <1>7 DEF EndSize, PackerIInv, AtHand, ActionStage, HashStage
<1>8. CASE PackerReturns
  BY <1>8 DEF PackerReturns, PackerIInv, AtHand, ActionStage, HashStage
<1> QED
  BY <1>1, <1>2, <1>3, <1>4, <1>5, <1>6, <1>7, <1>8 DEF PackerNext

(* A step of something else.                                                *)
LEMMA StutterKeeps == PackerIInv /\ UNCHANGED packerVars => PackerIInv'
BY DEF PackerIInv, AtHand, ActionStage, HashStage, packerVars, bopVars, HashSize, Held, Holding

(* The invariant holds.                                                     *)
LEMMA PackerCorrect == PackerSpec => []PackerIInv
<1>1. PackerInit => PackerIInv
  BY InitKeeps
<1>2. PackerIInv /\ [ \/ \E list \in BopLists, with \in OptionSets :
                          generate_bitstream(list, with)
                      \/ PackerNext
                      \/ PackerReturns ]_packerVars => PackerIInv'
  BY GenerateKeeps, PackerStepKeeps, StutterKeeps
<1> QED
  BY <1>1, <1>2, PTL DEF PackerSpec

(* The words of the actions never run out of the block they are written to, *)
(* and the room the packer takes to be left is really left                  *)
(* (BitGen_PACKER_update_action).                                           *)
THEOREM ActionsAlwaysFit == PackerSpec => []ActionsFit
<1>1. PackerIInv => ActionsFit
  BY InvariantHolds
<1> QED
  BY <1>1, PackerCorrect, PTL

(* The hashes of a block never run into its end, and whatever the number of *)
(* blocks there is a place for the hash of the next                         *)
(* (BitGen_PACKER_update_hash and its assertion).                           *)
THEOREM HashesAlwaysFit == PackerSpec => []HashesFit
<1>1. PackerIInv => HashesFit
  BY InvariantHolds
<1> QED
  BY <1>1, PackerCorrect, PTL
-----------------------------------------------------------------------------
(* The chain of hashes.                                                     *)

(* A sequence without its last element.                                     *)
LEMMA Fronted ==
  ASSUME NEW s, Sequential(s), s # <<>>
  PROVE  /\ Sequential(Front(s))
         /\ Len(s) \in Nat \ {0}
         /\ Len(Front(s)) = Len(s) - 1
         /\ Last(s) = s[Len(s)]
         /\ \A k \in 1 .. Len(s) - 1 : Front(s)[k] = s[k]
<1>1. PICK S : s \in Seq(S)
  BY DEF Sequential
<1>2. Len(s) \in Nat \ {0}
  BY <1>1
<1>3. PICK n \in Nat : n = Len(s) - 1
  BY <1>2
<1>4. Front(s) = SubSeq(s, 1, n)
  BY <1>3 DEF Front
<1>5. SubSeq(s, 1, n) = [k \in 1 .. n |-> s[k]]
  BY <1>1, <1>2, <1>3
<1> DEFINE f == [k \in 1 .. n |-> s[k]]
<1>6. f = [k \in 1 .. n |-> f[k]] /\ \A k \in 1 .. n : f[k] = s[k]
  OBVIOUS
<1> HIDE DEF f
<1>7. Sequential(f) /\ Len(f) = n
  BY <1>6, Counted
<1> QED
  BY <1>2, <1>3, <1>4, <1>5, <1>6, <1>7 DEF f, Last

(* A block in front of block k holds its hash.                              *)
VouchedFor(list, k) ==
  \E h \in 1 .. k - 1 :
    "hashes" \in DOMAIN list[h] /\ sha(list[k]) \in Range(list[h].hashes)

(* The hash blocks that are not hashed yet.                                 *)
Waiting(chain) == {chain[k].block : k \in 1 .. Len(chain)}

(* The first hash block is vouched for by the header, each other one by the *)
(* hash block before it.                                                    *)
Chained(list, chain) ==
  \A k \in 1 .. Len(chain) :
    /\ chain[k].block \in 2 .. Len(list)
    /\ chain[k].to \in 1 .. Len(list)
    /\ chain[k].to < chain[k].block
    /\ chain[k].to = (IF k = 1 THEN 1 ELSE chain[k - 1].block)

(* The block the next hash goes to is the header or the last hash block.    *)
LastOf(chain) == IF Len(chain) = 0 THEN 1 ELSE chain[Len(chain)].block

(* Block k can take a hash.                                                 *)
TakesHash(list, k) == "hashes" \in DOMAIN list[k] /\ Sequential(list[k].hashes)

(* A block that can still change waits for its own hash.                    *)
Chain(list, chain) ==
  /\ Sequential(list) /\ Len(list) >= 1
  /\ Sequential(chain)
  /\ Chained(list, chain)
  /\ \A k \in {1} \union Waiting(chain) : TakesHash(list, k)
  /\ \A k \in 2 .. Len(list) : k \in Waiting(chain) \/ VouchedFor(list, k)

ChainIInv ==
  stage = "hash" =>
    /\ Sequential(temp)
    /\ Chain(blocks, pointers)
    /\ temp # <<>> => holder = LastOf(pointers)

(* When no hash block waits, every block is vouched for.                    *)
LEMMA ChainComplete == ChainIInv => EveryBlockIsVouchedFor
<1> SUFFICES ASSUME ChainIInv, stage = "hash", temp = <<>>, pointers = <<>>,
                    NEW k \in 2 .. Len(blocks)
             PROVE  VouchedFor(blocks, k)
  BY DEF EveryBlockIsVouchedFor, VouchedFor
<1>1. Waiting(pointers) = {}
  BY EmptySequential DEF Waiting
<1> QED
  BY <1>1 DEF ChainIInv, Chain

(* A block that gets one more hash keeps those it holds.                    *)
LEMMA HashTaken ==
  ASSUME NEW block, NEW hash, "hashes" \in DOMAIN block, Sequential(block.hashes)
  PROVE  LET taken == [block EXCEPT !.hashes = Append(block.hashes, hash)]
         IN  /\ "hashes" \in DOMAIN taken
             /\ Sequential(taken.hashes)
             /\ Range(block.hashes) \subseteq Range(taken.hashes)
             /\ hash \in Range(taken.hashes)
<1> DEFINE taken == [block EXCEPT !.hashes = Append(block.hashes, hash)]
<1>1. "hashes" \in DOMAIN taken /\ taken.hashes = Append(block.hashes, hash)
  OBVIOUS
<1> HIDE DEF taken
<1>2. /\ Sequential(taken.hashes)
      /\ Len(taken.hashes) = Len(block.hashes) + 1
      /\ Len(block.hashes) \in Nat
      /\ DOMAIN block.hashes = 1 .. Len(block.hashes)
      /\ \A k \in 1 .. Len(block.hashes) : taken.hashes[k] = block.hashes[k]
      /\ taken.hashes[Len(block.hashes) + 1] = hash
  BY <1>1, Appended, SequentialLen
<1>3. DOMAIN taken.hashes = 1 .. Len(taken.hashes)
  BY <1>2, SequentialLen
<1>4. Range(block.hashes) \subseteq Range(taken.hashes)
  BY <1>2, <1>3 DEF Range
<1>5. hash \in Range(taken.hashes)
  <2>1. Len(block.hashes) + 1 \in DOMAIN taken.hashes
    BY <1>2, <1>3
  <2> QED
    BY <1>2, <2>1 DEF Range
<1> QED
  BY <1>1, <1>2, <1>4, <1>5 DEF taken

(* The same blocks in front, but for one that holds more hashes: who was    *)
(* vouched for still is.                                                    *)
Grown(list, more, at_block) ==
  /\ Len(list) \in Nat /\ Len(more) \in Nat /\ Len(more) >= Len(list)
  /\ \A k \in 1 .. Len(list) : k # at_block => more[k] = list[k]
  /\ "hashes" \in DOMAIN more[at_block]
  /\ Range(list[at_block].hashes) \subseteq Range(more[at_block].hashes)

LEMMA StillVouchedFor ==
  ASSUME NEW list, NEW more, NEW n, Grown(list, more, n),
         NEW k \in 2 .. Len(list), k # n, VouchedFor(list, k)
  PROVE  VouchedFor(more, k)
<1>1. PICK h \in 1 .. k - 1 :
        "hashes" \in DOMAIN list[h] /\ sha(list[k]) \in Range(list[h].hashes)
  BY DEF VouchedFor
<1>2. more[k] = list[k]
  BY DEF Grown
<1>3. "hashes" \in DOMAIN more[h] /\ Range(list[h].hashes) \subseteq Range(more[h].hashes)
  <2>1. h \in 1 .. Len(list)
    BY DEF Grown
  <2> QED
    BY <1>1, <2>1 DEF Grown
<1> QED
  BY <1>1, <1>2, <1>3 DEF VouchedFor
(* The chain begins with the header alone.                                  *)
LEMMA BeginHashChains ==
  ASSUME PackerIInv, BeginHash
  PROVE  ChainIInv'
<1>1. stage = "action"
  BY DEF BeginHash
<1>2. /\ Sequential(blocks) /\ HeaderShape(blocks[1]) /\ Len(blocks) >= 1
      /\ Len(blocks) \in Nat /\ blocks # <<>>
  BY <1>1, SequentialLen, EmptySequential DEF PackerIInv, ActionStage, Held
<1>3. Sequential(temp')
  BY <1>2, Rest DEF BeginHash
<1>4. PICK header : blocks' = <<header>> /\ TakesHash(<<header>>, 1)
  <2>1. CASE Len(blocks) = 1
    <3> DEFINE own == <<sha(blocks[1].words)>>
               header == [blocks[1] EXCEPT !.hashes = own]
    <3>1. blocks' = <<header>>
      BY <2>1 DEF BeginHash
    <3>2. "hashes" \in DOMAIN header /\ header.hashes = own /\ Sequential(own)
      BY <1>2, Singles DEF HeaderShape
    <3> HIDE DEF own, header
    <3>3. TakesHash(<<header>>, 1)
      BY <3>2 DEF TakesHash
    <3> QED
      BY <3>1, <3>3
  <2>2. CASE Len(blocks) # 1
    <3>1. blocks' = <<blocks[1]>>
      BY <2>2 DEF BeginHash
    <3>2. TakesHash(<<blocks[1]>>, 1)
      BY <1>2, EmptySequential DEF TakesHash, HeaderShape
    <3> QED
      BY <3>1, <3>2
  <2> QED
    BY <2>1, <2>2
<1>5. Sequential(blocks') /\ Len(blocks') = 1
  BY <1>4, Singles
<1>6. pointers' = <<>> /\ Sequential(pointers') /\ Len(pointers') = 0
  BY EmptySequential DEF BeginHash
<1>7. Waiting(pointers') = {}
  BY <1>6 DEF Waiting
<1>8. holder' = LastOf(pointers')
  BY <1>6 DEF BeginHash, LastOf
<1>9. Chain(blocks', pointers')
  BY <1>4, <1>5, <1>6, <1>7 DEF Chain, Chained
<1> QED
  BY <1>3, <1>8, <1>9 DEF ChainIInv

(* The block the next hash goes to is one that can change.                  *)
LEMMA HolderOpen ==
  ASSUME NEW list, NEW chain, Chain(list, chain)
  PROVE  /\ LastOf(chain) \in {1} \union Waiting(chain)
         /\ LastOf(chain) \in 1 .. Len(list)
         /\ TakesHash(list, LastOf(chain))
         /\ Len(list) \in Nat /\ Len(chain) \in Nat
<1>1. /\ Len(list) \in Nat /\ Len(list) >= 1 /\ Len(chain) \in Nat
      /\ Chained(list, chain)
  BY SequentialLen DEF Chain
<1>2. CASE Len(chain) = 0
  BY <1>1, <1>2 DEF LastOf, Chain
<1>3. CASE Len(chain) # 0
  <2>1. Len(chain) \in 1 .. Len(chain) /\ LastOf(chain) = chain[Len(chain)].block
    BY <1>1, <1>3 DEF LastOf
  <2>2. LastOf(chain) \in Waiting(chain)
    BY <2>1 DEF Waiting
  <2>3. LastOf(chain) \in 2 .. Len(list)
    BY <2>1, <1>1 DEF Chained
  <2> QED
    BY <1>1, <2>2, <2>3 DEF Chain
<1> QED
  BY <1>2, <1>3

(* A hash put into the last hash block, with the block it is of behind.     *)
LEMMA HashPlaced ==
  ASSUME NEW list, NEW chain, NEW block, NEW in, Chain(list, chain), in = LastOf(chain)
  PROVE  LET filled == [list[in] EXCEPT !.hashes = Append(list[in].hashes, sha(block))]
         IN  Chain(Append([list EXCEPT ![in] = filled], block), chain)
<1> DEFINE filled == [list[in] EXCEPT !.hashes = Append(list[in].hashes, sha(block))]
           changed == [list EXCEPT ![in] = filled]
           more == Append(changed, block)
           n == Len(list)
<1>1. /\ in \in {1} \union Waiting(chain) /\ in \in 1 .. n
      /\ "hashes" \in DOMAIN list[in] /\ Sequential(list[in].hashes)
      /\ Sequential(list) /\ n \in Nat /\ n >= 1
  BY HolderOpen DEF TakesHash, Chain
<1>2. /\ "hashes" \in DOMAIN filled
      /\ Sequential(filled.hashes)
      /\ Range(list[in].hashes) \subseteq Range(filled.hashes)
      /\ sha(block) \in Range(filled.hashes)
  BY <1>1, HashTaken
<1> HIDE DEF filled
<1>3. /\ Sequential(changed) /\ Len(changed) = n /\ changed[in] = filled
      /\ \A k \in 1 .. n : k # in => changed[k] = list[k]
  BY <1>1, Replaced
<1> HIDE DEF changed
<1>4. /\ Sequential(more) /\ Len(more) = n + 1 /\ more[n + 1] = block
      /\ \A k \in 1 .. n : more[k] = changed[k]
  BY <1>3, Appended
<1> HIDE DEF more
<1>5. Grown(list, more, in)
  BY <1>1, <1>2, <1>3, <1>4 DEF Grown
<1>6. Chained(more, chain)
  BY <1>1, <1>4 DEF Chain, Chained
<1>7. ASSUME NEW k \in {1} \union Waiting(chain)
      PROVE  TakesHash(more, k)
  <2>1. TakesHash(list, k) /\ k \in 1 .. n
    BY <1>1 DEF Chain, Chained, Waiting
  <2> QED
    BY <1>2, <1>3, <1>4, <2>1 DEF TakesHash
<1>8. ASSUME NEW k \in 2 .. Len(more), k \notin Waiting(chain)
      PROVE  VouchedFor(more, k)
  <2>1. CASE k = n + 1
    BY <1>1, <1>2, <1>3, <1>4, <2>1 DEF VouchedFor
  <2>2. CASE k # n + 1
    <3>1. k \in 2 .. n /\ k # in
      BY <1>1, <1>4, <1>8, <2>2
    <3>2. VouchedFor(list, k)
      BY <1>8, <3>1 DEF Chain
    <3> QED
      BY <1>5, <3>1, <3>2, StillVouchedFor
  <2> QED
    BY <2>1, <2>2
<1>9. Len(more) >= 1 /\ Sequential(chain)
  BY <1>1, <1>4 DEF Chain
<1> QED
  BY <1>4, <1>6, <1>7, <1>8, <1>9 DEF Chain, more, changed, filled

(* A hash block put behind, with the block whose hash it begins with: it    *)
(* waits for its own hash, which goes to the hash block before it.          *)
LEMMA HashBlockPlaced ==
  ASSUME NEW list, NEW chain, NEW block, Chain(list, chain)
  PROVE  Chain(list \o <<HashBlock(<<sha(block)>>), block>>,
               Append(chain, [block |-> Len(list) + 1, to |-> LastOf(chain)]))
<1> DEFINE fresh == HashBlock(<<sha(block)>>)
           pointer == [block |-> Len(list) + 1, to |-> LastOf(chain)]
           more == list \o <<fresh, block>>
           longer == Append(chain, pointer)
           n == Len(list)
           m == Len(chain)
<1>1. /\ LastOf(chain) \in 1 .. n
      /\ Sequential(list) /\ n \in Nat /\ n >= 1
      /\ Sequential(chain) /\ m \in Nat
  BY HolderOpen DEF Chain
<1>2. /\ "hashes" \in DOMAIN fresh /\ fresh.hashes = <<sha(block)>>
      /\ Sequential(fresh.hashes)
      /\ sha(block) \in Range(fresh.hashes)
  BY Singles DEF HashBlock, Range
<1>3. /\ Sequential(more) /\ Len(more) = n + 2
      /\ \A k \in 1 .. n : more[k] = list[k]
      /\ more[n + 1] = fresh /\ more[n + 2] = block
  <2> HIDE DEF fresh
  <2>1. PICK S : list \in Seq(S)
    BY <1>1 DEF Sequential
  <2> DEFINE T == S \union {fresh, block}
  <2>2. list \in Seq(T) /\ <<fresh, block>> \in Seq(T)
    BY <2>1, SeqIncluded
  <2> HIDE DEF T
  <2>3. more \in Seq(T)
    BY <2>2
  <2> QED
    BY <1>1, <2>2, <2>3 DEF Sequential
<1>4. pointer.block = n + 1 /\ pointer.to = LastOf(chain)
  OBVIOUS
<1> HIDE DEF fresh, more, pointer
<1>5. /\ Sequential(longer) /\ Len(longer) = m + 1 /\ longer[m + 1] = pointer
      /\ \A k \in 1 .. m : longer[k] = chain[k]
  BY <1>1, Appended
<1> HIDE DEF longer
<1>6. Waiting(longer) = Waiting(chain) \union {n + 1}
  BY <1>1, <1>4, <1>5 DEF Waiting
<1>7. Chained(more, longer)
  <2> SUFFICES ASSUME NEW k \in 1 .. m + 1
               PROVE  /\ longer[k].block \in 2 .. n + 2
                      /\ longer[k].to \in 1 .. n + 2
                      /\ longer[k].to < longer[k].block
                      /\ longer[k].to = (IF k = 1 THEN 1 ELSE longer[k - 1].block)
    BY <1>3, <1>5 DEF Chained
  <2>1. CASE k = m + 1
    <3>1. LastOf(chain) = (IF k = 1 THEN 1 ELSE longer[k - 1].block)
      BY <1>1, <1>5, <2>1 DEF LastOf
    <3> QED
      BY <1>1, <1>4, <1>5, <2>1, <3>1
  <2>2. CASE k # m + 1
    <3>1. k \in 1 .. m /\ longer[k] = chain[k] /\ (k # 1 => longer[k - 1] = chain[k - 1])
      BY <1>1, <1>5, <2>2
    <3> QED
      BY <1>1, <3>1 DEF Chain, Chained
  <2> QED
    BY <2>1, <2>2
<1>8. ASSUME NEW k \in {1} \union Waiting(longer)
      PROVE  TakesHash(more, k)
  <2>1. CASE k = n + 1
    BY <1>2, <1>3, <2>1 DEF TakesHash
  <2>2. CASE k # n + 1
    <3>1. k \in {1} \union Waiting(chain)
      BY <1>6, <2>2
    <3>2. TakesHash(list, k)
      BY <3>1 DEF Chain
    <3>3. k \in 1 .. n
      BY <1>1, <3>1 DEF Chain, Chained, Waiting
    <3> QED
      BY <1>3, <3>2, <3>3 DEF TakesHash
  <2> QED
    BY <2>1, <2>2
<1>9. ASSUME NEW k \in 2 .. Len(more), k \notin Waiting(longer)
      PROVE  VouchedFor(more, k)
  <2>1. CASE k = n + 2
    BY <1>1, <1>2, <1>3, <2>1 DEF VouchedFor
  <2>2. CASE k # n + 2
    <3>1. k \in 2 .. n /\ k \notin Waiting(chain)
      BY <1>1, <1>3, <1>6, <1>9, <2>2
    <3>2. PICK h \in 1 .. k - 1 :
            "hashes" \in DOMAIN list[h] /\ sha(list[k]) \in Range(list[h].hashes)
      BY <3>1 DEF Chain, VouchedFor
    <3>3. more[h] = list[h] /\ more[k] = list[k]
      BY <1>1, <1>3, <3>1
    <3> QED
      BY <3>2, <3>3 DEF VouchedFor
  <2> QED
    BY <2>1, <2>2
<1>10. Len(more) >= 1
  BY <1>1, <1>3
<1> QED
  BY <1>3, <1>5, <1>7, <1>8, <1>9, <1>10 DEF Chain, more, longer, fresh, pointer
(* The last hash block hashed: it waits no longer.                          *)
LEMMA HashBlockHashed ==
  ASSUME NEW list, NEW chain, Chain(list, chain), chain # <<>>
  PROVE  LET last == Last(chain)
             taken == [list[last.to] EXCEPT !.hashes =
                         Append(list[last.to].hashes, sha(list[last.block]))]
         IN  Chain([list EXCEPT ![last.to] = taken], Front(chain))
<1> DEFINE last == Last(chain)
           shorter == Front(chain)
           to == last.to
           taken == [list[to] EXCEPT !.hashes =
                       Append(list[to].hashes, sha(list[last.block]))]
           more == [list EXCEPT ![to] = taken]
           n == Len(list)
           m == Len(chain)
<1>1. /\ Sequential(list) /\ n \in Nat /\ n >= 1
      /\ Sequential(chain)
      /\ Chained(list, chain)
  BY SequentialLen DEF Chain
<1>2. /\ Sequential(shorter) /\ m \in Nat \ {0} /\ Len(shorter) = m - 1
      /\ last = chain[m]
      /\ \A k \in 1 .. m - 1 : shorter[k] = chain[k]
  BY <1>1, Fronted
<1> HIDE DEF shorter, last
<1>3. /\ last.block \in 2 .. n /\ to \in 1 .. n /\ to < last.block
      /\ to = (IF m = 1 THEN 1 ELSE chain[m - 1].block)
  <2>1. m \in 1 .. m
    BY <1>2
  <2> QED
    BY <1>1, <1>2, <2>1 DEF Chained
<1>4. Waiting(chain) = Waiting(shorter) \union {last.block}
  BY <1>2 DEF Waiting
<1>5. to \in {1} \union Waiting(shorter)
  <2>1. CASE m = 1
    BY <1>3, <2>1
  <2>2. CASE m # 1
    <3>1. m - 1 \in 1 .. Len(shorter) /\ shorter[m - 1] = chain[m - 1]
      BY <1>2, <2>2
    <3>2. to = shorter[m - 1].block
      BY <1>3, <2>2, <3>1
    <3> QED
      BY <3>1, <3>2 DEF Waiting
  <2> QED
    BY <2>1, <2>2
<1>6. "hashes" \in DOMAIN list[to] /\ Sequential(list[to].hashes)
  BY <1>4, <1>5 DEF Chain, TakesHash
<1>7. /\ "hashes" \in DOMAIN taken
      /\ Sequential(taken.hashes)
      /\ Range(list[to].hashes) \subseteq Range(taken.hashes)
      /\ sha(list[last.block]) \in Range(taken.hashes)
  BY <1>6, HashTaken
<1> HIDE DEF taken, to
<1>8. /\ Sequential(more) /\ Len(more) = n /\ more[to] = taken
      /\ \A k \in 1 .. n : k # to => more[k] = list[k]
  <2>1. Sequential(list) /\ to \in 1 .. Len(list)
    BY <1>1, <1>3
  <2> QED
    BY <2>1, Replaced
<1> HIDE DEF more
<1>9. Grown(list, more, to)
  BY <1>1, <1>7, <1>8 DEF Grown
<1>10. Chained(more, shorter)
  <2> SUFFICES ASSUME NEW k \in 1 .. m - 1
               PROVE  /\ shorter[k].block \in 2 .. n
                      /\ shorter[k].to \in 1 .. n
                      /\ shorter[k].to < shorter[k].block
                      /\ shorter[k].to = (IF k = 1 THEN 1 ELSE shorter[k - 1].block)
    BY <1>2, <1>8 DEF Chained
  <2>1. k \in 1 .. m /\ shorter[k] = chain[k] /\ (k # 1 => shorter[k - 1] = chain[k - 1])
    BY <1>2
  <2> QED
    BY <1>1, <2>1 DEF Chained
<1>11. ASSUME NEW k \in {1} \union Waiting(shorter)
       PROVE  TakesHash(more, k)
  <2>1. TakesHash(list, k)
    BY <1>4 DEF Chain
  <2>2. k \in 1 .. n
    <3>1. k \in {1} \union Waiting(chain)
      BY <1>4
    <3> QED
      BY <1>1, <3>1 DEF Chained, Waiting
  <2> QED
    BY <1>7, <1>8, <2>1, <2>2 DEF TakesHash
<1>12. ASSUME NEW k \in 2 .. Len(more), k \notin Waiting(shorter)
       PROVE  VouchedFor(more, k)
  <2>1. k \in 2 .. n /\ k # to
    BY <1>5, <1>8, <1>12
  <2>2. CASE k = last.block
    <3>1. to \in 1 .. k - 1 /\ more[k] = list[last.block]
      BY <1>3, <1>8, <2>1, <2>2
    <3> QED
      BY <1>7, <1>8, <3>1 DEF VouchedFor
  <2>3. CASE k # last.block
    <3>1. VouchedFor(list, k)
      BY <1>4, <1>12, <2>1, <2>3 DEF Chain
    <3> QED
      BY <1>9, <2>1, <3>1, StillVouchedFor
  <2> QED
    BY <2>2, <2>3
<1>13. Len(more) >= 1
  BY <1>1, <1>8
<1> QED
  BY <1>2, <1>8, <1>10, <1>11, <1>12, <1>13 DEF Chain, more, taken, to, shorter, last

(* The next block joins the chain.                                          *)
LEMMA HashBlockChains ==
  ASSUME ChainIInv, HashBlockNext
  PROVE  ChainIInv'
<1> DEFINE b == Head(temp)
<1>1. stage = "hash" /\ temp # <<>> /\ temp' = Tail(temp)
  BY DEF HashBlockNext
<1>2. Sequential(temp) /\ Chain(blocks, pointers) /\ holder = LastOf(pointers)
  BY <1>1 DEF ChainIInv
<1>3. Sequential(temp')
  BY <1>1, <1>2, Rest
<1>4. CASE slots < HashSize
  BY <1>4 DEF HashBlockNext, ChainIInv
<1>5. CASE ~(slots < HashSize) /\ HashGoesHere
  <2> DEFINE filled == [blocks[holder] EXCEPT !.hashes =
                          Append(blocks[holder].hashes, sha(b))]
  <2>1. /\ blocks' = Append([blocks EXCEPT ![holder] = filled], b)
        /\ UNCHANGED <<holder, pointers>>
    BY <1>5, Zenon DEF HashBlockNext
  <2>2. Chain(Append([blocks EXCEPT ![holder] = filled], b), pointers)
    BY <1>2, HashPlaced
  <2> QED
    BY <1>2, <1>3, <2>1, <2>2 DEF ChainIInv
<1>6. CASE ~(slots < HashSize) /\ ~HashGoesHere
  <2> DEFINE more == blocks \o <<HashBlock(<<sha(b)>>), b>>
             pointer == [block |-> Len(blocks) + 1, to |-> holder]
             longer == Append(pointers, pointer)
  <2>1. blocks' = more /\ pointers' = longer /\ holder' = Len(blocks) + 1
    BY <1>6, Zenon DEF HashBlockNext
  <2>2. Chain(more, longer)
    BY <1>2, HashBlockPlaced
  <2>3. LastOf(longer) = Len(blocks) + 1
    <3>1. pointer.block = Len(blocks) + 1
      OBVIOUS
    <3> HIDE DEF pointer
    <3>2. /\ Len(longer) = Len(pointers) + 1 /\ Len(pointers) \in Nat
          /\ longer[Len(pointers) + 1] = pointer
      BY <1>2, Appended, SequentialLen DEF Chain
    <3> HIDE DEF longer
    <3> QED
      BY <3>1, <3>2 DEF LastOf
  <2> HIDE DEF more, longer
  <2> QED
    BY <1>3, <2>1, <2>2, <2>3 DEF ChainIInv
<1> QED
  BY <1>4, <1>5, <1>6

(* A hash block leaves the ones that wait.                                  *)
LEMMA HashHashBlockChains ==
  ASSUME ChainIInv, HashHashBlock
  PROVE  ChainIInv'
<1>1. stage = "hash" /\ temp = <<>> /\ pointers # <<>> /\ UNCHANGED <<stage, temp>>
  BY DEF HashHashBlock
<1> DEFINE last == Last(pointers)
           taken == [blocks[last.to] EXCEPT !.hashes =
                       Append(blocks[last.to].hashes, sha(blocks[last.block]))]
<1>2. blocks' = [blocks EXCEPT ![last.to] = taken] /\ pointers' = Front(pointers)
  BY Zenon DEF HashHashBlock, NextPointer
<1>3. Chain(blocks', pointers')
  BY <1>1, <1>2, HashBlockHashed DEF ChainIInv
<1> QED
  BY <1>1, <1>3, EmptySequential DEF ChainIInv

(* Every step of the packer keeps the chain.                                *)
LEMMA PackerStepChains ==
  ASSUME PackerIInv, ChainIInv, PackerNext \/ PackerReturns
  PROVE  ChainIInv'
<1>1. CASE BeginBop
  BY <1>1 DEF BeginBop, ChainIInv
<1>2. CASE GenAction
  <2>1. stage = "action" /\ stage' \in {"action", "asserted"}
    BY <1>2, Zenon DEF GenAction
  <2> QED
    BY <2>1 DEF ChainIInv
<1>3. CASE BeginHash
  BY <1>3, BeginHashChains
<1>4. CASE HashBlockNext
  BY <1>4, HashBlockChains
<1>5. CASE HashHashBlock
  BY <1>5, HashHashBlockChains
<1>6. CASE FinishBop
  <2>1. stage' \in {"bop", "end"}
    BY <1>6 DEF FinishBop
  <2> QED
    BY <2>1 DEF ChainIInv
<1>7. CASE EndSize
  <2>1. stage' \in {"end", "asserted"}
    BY <1>7, Zenon DEF EndSize
  <2> QED
    BY <2>1 DEF ChainIInv
<1>8. CASE PackerReturns
  BY <1>8 DEF PackerReturns, ChainIInv
<1> QED
  BY <1>1, <1>2, <1>3, <1>4, <1>5, <1>6, <1>7, <1>8 DEF PackerNext

(* The chain of hashes that update_hash builds is complete: whatever the    *)
(* number of blocks and the size of the hash, when the last hash block has  *)
(* been hashed every block behind the header is vouched for by one in front *)
(* of it, with what it holds in the end (BitGen_PACKER_update_hash).        *)
THEOREM EveryBlockVouchedFor == PackerSpec => []EveryBlockIsVouchedFor
<1>1. PackerInit => ChainIInv
  BY DEF PackerInit, ChainIInv
<1>2. /\ PackerIInv /\ ChainIInv
      /\ [ \/ \E list \in BopLists, with \in OptionSets : generate_bitstream(list, with)
           \/ PackerNext
           \/ PackerReturns ]_packerVars
      => ChainIInv'
  <2>1. ASSUME ChainIInv, NEW list \in BopLists, NEW with \in OptionSets,
               generate_bitstream(list, with)
        PROVE  ChainIInv'
    BY <2>1 DEF generate_bitstream, ChainIInv
  <2>2. ASSUME ChainIInv, UNCHANGED packerVars
        PROVE  ChainIInv'
    BY <2>2 DEF packerVars, bopVars, ChainIInv
  <2> QED
    BY <2>1, <2>2, PackerStepChains
<1>3. ChainIInv => EveryBlockIsVouchedFor
  BY ChainComplete
<1> QED
  BY <1>1, <1>2, <1>3, PackerCorrect, PTL DEF PackerSpec
=============================================================================
