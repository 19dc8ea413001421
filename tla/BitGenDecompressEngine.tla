---------------------- MODULE BitGenDecompressEngine ----------------------
(***************************************************************************)
(* BitGen_DECOMPRESS_ENGINE (BitGenerator/BitGen_decompress_engine.cpp):    *)
(* the decompressor that takes its input in pieces and delivers its output  *)
(* in pieces, keeping its place in between.  One call of process is a       *)
(* series of turns of its loop, each of which runs the handler of the       *)
(* current state; an action is one turn, from the checks at its top to the  *)
(* decision whether process returns.                                        *)
(*                                                                         *)
(* A handler's inner loop over bytes is stated by how far it gets: to the   *)
(* end of what it reads or writes, of the input, or of the room left in     *)
(* the output.  m_flag_index, m_output_variable and m_track_cmp, which      *)
(* together say how much of a piece has been written, are flag_index, and   *)
(* m_need_more_output is that the output is full.                           *)
(***************************************************************************)
EXTENDS CFGStream

CONSTANTS
  NoneData,   \* sizeof(m_none_data), 2048
  MaxDigits   \* most bytes of a number, 10

VARIABLES
  engine,   \* the m_ fields that outlive a call
  running,  \* process is running
  input,    \* what the running or last call was given
  room,     \* output_size of that call
  output    \* what that call has written

engineVars == <<engine, running, input, room, output>>

GET_IDENTIFIER == "GET_IDENTIFIER"
GET_ORIGINAL_SIZE == "GET_ORIGINAL_SIZE"
GET_COMPRESS_SIZE == "GET_COMPRESS_SIZE"
GET_FLAG == "GET_FLAG"
GET_VARIABLE == "GET_VARIABLE"
GET_REPEAT == "GET_REPEAT"
OUTPUT_CMP == "OUTPUT_CMP"
OUTPUT_NONE == "OUTPUT_NONE"
OUTPUT_NONE_REPEAT == "OUTPUT_NONE_REPEAT"
ERROR_STATE == "ERROR_STATE"

DONE == "DONE"
GOOD == "GOOD"
NEED_INPUT == "NEED_INPUT"
ERROR == "ERROR"
THROWN == "THROWN"   \* an assertion of the engine failed

Engine ==
  [ state : {GET_IDENTIFIER, GET_ORIGINAL_SIZE, GET_COMPRESS_SIZE, GET_FLAG,
             GET_VARIABLE, GET_REPEAT, OUTPUT_CMP, OUTPUT_NONE,
             OUTPUT_NONE_REPEAT, ERROR_STATE},
    status : {DONE, GOOD, NEED_INPUT, ERROR, THROWN},
    input_index : Nat, total_input : Nat, total_output : Nat,
    identifier : Seq(Byte), original_size : Nat, compress_size : Nat,
    flag : Pattern, flag_repeat : BOOLEAN, flag_index : Nat, flag_size : Nat,
    repeat_index : Nat, repeat_size : Nat,
    variable_u64 : Seq(Byte), variable : Seq(Byte), none_data : Seq(Byte),
    need_more_input : BOOLEAN, done : BOOLEAN ]

Fresh(state, status) ==
  [ state |-> state, status |-> status, input_index |-> 0, total_input |-> 0,
    total_output |-> 0, identifier |-> <<>>, original_size |-> 0,
    compress_size |-> 0, flag |-> NONE, flag_repeat |-> FALSE,
    flag_index |-> 0, flag_size |-> 0, repeat_index |-> 0, repeat_size |-> 0,
    variable_u64 |-> <<>>, variable |-> <<>>, none_data |-> <<>>,
    need_more_input |-> FALSE, done |-> FALSE ]

EngineInit ==
  /\ engine = Fresh(ERROR_STATE, ERROR)
  /\ running = FALSE
  /\ input = <<>>
  /\ room = 0
  /\ output = <<>>

(* The next n bytes of the input, and how many there are.                   *)
Unread == Len(input) - engine.input_index
Read(n) == SubSeq(input, engine.input_index + 1, engine.input_index + n)
Room == room - Len(output)

-----------------------------------------------------------------------------
(* process.                                                                 *)

reset ==
  /\ ~running
  /\ engine' = Fresh(GET_IDENTIFIER, GOOD)

(* Mutant of ProcessEntry: it goes on with an input that was used up.       *)
ProcessEntryGoesOn(piece, size) ==
  /\ ~running
  /\ engine' =
       CASE engine.status = DONE -> [engine EXCEPT !.status = ERROR]
         [] engine.status = NEED_INPUT ->
              [engine EXCEPT !.input_index = 0, !.need_more_input = FALSE,
                             !.status = GOOD]
         [] OTHER -> engine
  /\ input' = piece
  /\ room' = size
  /\ output' = <<>>
  /\ running' = (engine'.status = GOOD)

(* The entry: a status of NEED_INPUT means that the input is a new one.     *)
ProcessEntry(piece, size) ==
  /\ ~running
  /\ engine' =
       CASE engine.status = DONE -> [engine EXCEPT !.status = ERROR]
         [] engine.status = NEED_INPUT ->
              [engine EXCEPT !.input_index = 0, !.need_more_input = FALSE,
                             !.status = GOOD]
         [] engine.status = GOOD /\ engine.need_more_input ->
              [engine EXCEPT !.status = NEED_INPUT]
         [] OTHER -> engine
  /\ input' = piece
  /\ room' = size
  /\ output' = <<>>
  /\ running' = (engine'.status = GOOD)

(* The assertions at the top of a turn.                                     *)
TurnAsserts ==
  LET header == {GET_IDENTIFIER, GET_ORIGINAL_SIZE}
  IN  /\ engine.state \notin header => engine.total_output < engine.original_size
      /\ engine.state \notin header \union {GET_COMPRESS_SIZE} =>
           engine.total_input <= engine.compress_size

(* The end of a turn: the status.                                           *)
StatusAfter(e, out) ==
  IF e.status = ERROR THEN ERROR
  ELSE IF e.done
    THEN IF e.total_input = e.compress_size THEN DONE ELSE ERROR
  ELSE IF e.need_more_input /\ out = <<>> THEN NEED_INPUT
  ELSE GOOD

(* Whether process returns after it.                                        *)
Returns(e, out) ==
  e.status = ERROR \/ e.done \/ e.need_more_input \/ Len(out) = room

(* A turn in state s with its handler's assertions and what it makes of the *)
(* engine and the output.                                                   *)
Turn(s, asserts, e, out) ==
  /\ running
  /\ engine.state = s
  /\ IF TurnAsserts /\ asserts
       THEN /\ engine' = [e EXCEPT !.status = StatusAfter(e, out)]
            /\ output' = out
            /\ running' = ~Returns(e, out)
       ELSE /\ engine' = [engine EXCEPT !.status = THROWN]
            /\ running' = FALSE
            /\ UNCHANGED output
  /\ UNCHANGED <<input, room>>

-----------------------------------------------------------------------------
(* Reading.                                                                 *)

(* get_variable_u64 reads up to the byte that ends the number, or all there *)
(* is.                                                                      *)
NumberEnds == {n \in 1 .. Unread : Read(n)[n] < Base}
NumberRead == IF NumberEnds = {} THEN Unread ELSE Min(NumberEnds)
NumberFits ==
  /\ ~engine.need_more_input
  /\ Unread > 0 =>
       Len(engine.variable_u64) + NumberRead + (IF NumberEnds = {} THEN 1 ELSE 0)
         <= MaxDigits
Number == CFG_read_variable_u64(engine.variable_u64 \o Read(NumberRead))

(* The engine after it; update says whether the bytes count as compressed   *)
(* data.                                                                    *)
get_variable_u64(update) ==
  [engine EXCEPT
     !.input_index = @ + NumberRead,
     !.total_input = IF update THEN @ + NumberRead ELSE @,
     !.variable_u64 = IF NumberEnds = {} THEN @ \o Read(NumberRead) ELSE <<>>,
     !.need_more_input = NumberEnds = {}]

get_identifier ==
  LET n == Min({Len(Identifier) - Len(engine.identifier), Unread})
      read == engine.identifier \o Read(n)
      e == [engine EXCEPT !.identifier = read, !.input_index = @ + n]
  IN  Turn(GET_IDENTIFIER, ~engine.need_more_input /\ Unread > 0,
           IF Len(read) < Len(Identifier) THEN [e EXCEPT !.need_more_input = TRUE]
           ELSE [e EXCEPT !.state = IF read = Identifier THEN GET_ORIGINAL_SIZE
                                    ELSE ERROR_STATE],
           output)

get_information ==
  LET e == get_variable_u64(FALSE)
  IN  \/ Turn(GET_ORIGINAL_SIZE, NumberFits,
              IF e.need_more_input THEN e
              ELSE [e EXCEPT !.original_size = Number, !.state = GET_COMPRESS_SIZE],
              output)
      \/ Turn(GET_COMPRESS_SIZE, NumberFits,
              IF e.need_more_input THEN e
              ELSE [e EXCEPT !.compress_size = Number, !.state = GET_FLAG],
              output)

(* The state a flag leads to.                                               *)
AfterFlag(pattern, repeats, size) ==
  IF repeats /\ pattern \in {ZERO, HIGH, VAR} THEN ERROR_STATE
  ELSE IF repeats /\ pattern = NONE /\ size > NoneData THEN ERROR_STATE
  ELSE IF pattern \in {ZERO, HIGH} THEN OUTPUT_CMP
  ELSE IF pattern = NONE THEN OUTPUT_NONE
  ELSE GET_VARIABLE

get_flag ==
  LET e == get_variable_u64(TRUE)
      pattern == Number % 8
      repeats == Number % 16 >= 8
      size == Number \div 16
  IN  Turn(GET_FLAG, NumberFits /\ (e.need_more_input \/ size > 0),
           IF e.need_more_input THEN e
           ELSE [e EXCEPT !.flag = pattern, !.flag_repeat = repeats,
                          !.flag_size = size, !.flag_index = 0,
                          !.repeat_index = 0,
                          !.state = AfterFlag(pattern, repeats, size)],
           output)

get_variable ==
  Turn(GET_VARIABLE, ~engine.need_more_input,
       IF Unread = 0 THEN [engine EXCEPT !.need_more_input = TRUE]
       ELSE [engine EXCEPT !.variable = Read(1), !.input_index = @ + 1,
                           !.total_input = @ + 1,
                           !.state = IF engine.flag_repeat THEN GET_REPEAT
                                     ELSE OUTPUT_CMP],
       output)

get_repeat ==
  LET e == get_variable_u64(TRUE)
  IN  Turn(GET_REPEAT, NumberFits /\ (e.need_more_input \/ Number > 0),
           IF e.need_more_input THEN e
           ELSE [e EXCEPT !.repeat_size = Number,
                          !.state = IF engine.flag = NONE THEN OUTPUT_NONE_REPEAT
                                    ELSE OUTPUT_CMP],
           output)

-----------------------------------------------------------------------------
(* Writing.                                                                 *)

(* The piece is written up to count times over, on from where the last call *)
(* left off.                                                                *)
Produce(s, piece, count, asserts) ==
  LET size == Len(piece)
      n == Min({Room, ((count - engine.repeat_index) * size) - engine.flag_index})
      end == engine.flag_index + n
      repeat_index == engine.repeat_index + (end \div size)
      total == engine.total_output + n
      last == repeat_index = count
  IN  Turn(s, asserts /\ total <= engine.original_size,
           [engine EXCEPT
              !.total_output = total,
              !.flag_index = end % size,
              !.repeat_index = repeat_index,
              !.state = IF last THEN GET_FLAG ELSE @,
              !.done = last /\ total = engine.original_size],
           output \o [k \in 1 .. n |->
                        piece[((engine.flag_index + k - 1) % size) + 1]])

output_cmp ==
  Produce(OUTPUT_CMP,
          Piece([pattern |-> engine.flag, length |-> engine.flag_size,
                 data |-> engine.variable]),
          IF engine.flag_repeat THEN engine.repeat_size + 1 ELSE 1,
          Room > 0 /\ engine.total_input <= engine.compress_size)

output_none_repeat ==
  Produce(OUTPUT_NONE_REPEAT, engine.none_data, engine.repeat_size,
          /\ engine.repeat_index < engine.repeat_size
          /\ engine.total_input <= engine.compress_size)

output_none ==
  LET n == Min({engine.flag_size - engine.flag_index, Unread, Room})
      last == engine.flag_index + n = engine.flag_size
      total == engine.total_output + n
      done == last /\ total = engine.original_size
  IN  Turn(OUTPUT_NONE,
           /\ engine.total_input < engine.compress_size
           /\ total <= engine.original_size
           /\ engine.total_input + n <= engine.compress_size
           /\ ~(done /\ engine.flag_repeat),
           [engine EXCEPT
              !.input_index = @ + n,
              !.total_input = @ + n,
              !.total_output = total,
              !.flag_index = IF last THEN 0 ELSE @ + n,
              !.none_data = IF ~engine.flag_repeat THEN @
                            ELSE SubSeq(@, 1, engine.flag_index) \o Read(n),
              !.done = done,
              !.state = IF ~last THEN @
                        ELSE IF engine.flag_repeat THEN GET_REPEAT ELSE GET_FLAG,
              !.need_more_input = (n = Unread)],
           output \o Read(n))

ErrorState ==
  Turn(ERROR_STATE, TRUE, [engine EXCEPT !.status = ERROR], output)

EngineNext ==
  \/ get_identifier \/ get_information \/ get_flag \/ get_variable
  \/ get_repeat \/ output_cmp \/ output_none \/ output_none_repeat
  \/ ErrorState
=============================================================================
