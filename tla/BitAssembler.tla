---------------------------- MODULE BitAssembler ----------------------------
(***************************************************************************)
(* The bitstream assembler (BitAssembler/BitAssembler.cpp,                  *)
(* BitAssembler_mgr.cpp): the texts the compiler left in the project become *)
(* the objects of a .bitasm file, and the generator (BitGenGemini) makes    *)
(* the .cfgbit file of it.                                                  *)
(*                                                                         *)
(* The texts are read line by line.  A line is what it is recognised as:    *)
(* its key, with the number it gives or the characters of a line of data.   *)
(***************************************************************************)
EXTENDS BitGenGemini

CONSTANTS
  Projects,  \* what the compiler can have left when the assembler is started
  Rebuilds,  \* what it can have left when it is started again
  MaxRuns    \* times it is started

(* Lines as they are recognised, and what a project holds of them.          *)
Line ==
  [key : {"blank", "remark"}]
    \union [key : {"title"}, of : STRING]
    \union [key : {"length"}, number : Nat]
    \union [key : {"width"}, number : Nat, wl : Nat, lsb : BOOLEAN]
    \union [key : {"format"}, known : BOOLEAN]
    \union [key : {"data"}, chars : Seq(STRING)]
AnyText == [exists : BOOLEAN, lines : Seq(Line)]
Device == [family : STRING, protocol : STRING, blwl : STRING]
Grid == Seq([x : Nat, y : Nat, data : Seq(Nat)])
Project ==
  [ device : Device, fcb : AnyText, icb : AnyText, post_icb : AnyText,
    bram : [exists : BOOLEAN, found : BOOLEAN, grid : Grid] ]

ASSUME AssemblerConstants ==
  /\ Projects \subseteq Project
  /\ Rebuilds \subseteq Project /\ Rebuilds # {}
  /\ MaxRuns \in Nat

VARIABLES
  pc,             \* the part at hand, or how the last run ended
  runs,           \* times it was started
  project,
  index,          \* lines of the text that were read
  line_tracking,  \* 0 before the first line, 1 in the header, 2 in the data
  data_line,
  lsb,
  wl_increasing,
  section,        \* the object that is made of the text at hand
  bitobj,
  bitasm,         \* the two files
  cfgbit

reader == <<index, line_tracking, data_line, lsb, wl_increasing, section>>
files == <<bitasm, cfgbit>>
vars == <<pc, runs, project, reader, bitobj, files>>

(***************************************************************************)
(* The project: the device, three texts and the list of the RAMs            *)
(***************************************************************************)
NoText == [exists |-> FALSE, lines |-> << >>]
Text(lines) == [exists |-> TRUE, lines |-> lines]

NoSection == [length |-> 0, width |-> 0, format |-> FALSE, data |-> << >>]
NoIcb == [bits |-> 0, data |-> << >>]
NoObject ==
  [ family |-> "", protocol |-> "", blwl |-> "", fcb |-> NoSection, icb |-> NoIcb,
    post_icb |-> NoIcb, pcb |-> << >> ]

(* What the database of the devices may say for the assembler to go on.     *)
SupportedDevice(device) ==
  \/ device.protocol = "scan_chain" /\ device.blwl = ""
  \/ device.protocol = "ql_memory_bank" /\ device.blwl = "flatten"

TextOf(part) ==
  CASE part = "fcb" -> project.fcb [] part = "icb" -> project.icb
    [] part = "post_icb" -> project.post_icb
Lines == TextOf(pc).lines
Here == Lines[index + 1]

Ended == {"idle", "success", "fail", "aborted", "refused", "not_written"}

Init ==
  /\ pc = "idle" /\ runs = 0 /\ project = CHOOSE p \in Rebuilds : TRUE
  /\ index = 0 /\ line_tracking = 0 /\ data_line = 0 /\ lsb = FALSE
  /\ wl_increasing = FALSE /\ section = NoSection
  /\ bitobj = NoObject /\ bitasm = {} /\ cfgbit = {}

NewText ==
  /\ index' = 0 /\ line_tracking' = 0 /\ data_line' = 0 /\ lsb' = FALSE
  /\ wl_increasing' = FALSE /\ section' = NoSection

(* A failed CFG_ASSERT ends the run.                                        *)
Abort == pc' = "aborted" /\ UNCHANGED <<reader, bitobj>>

clean ==
  /\ pc \in Ended
  /\ pc' = "idle"
  /\ bitasm' = {} /\ cfgbit' = {}
  /\ UNCHANGED <<runs, project, reader, bitobj>>

BitAssembler_entry(p) ==
  /\ pc \in Ended /\ runs < MaxRuns
  /\ runs' = runs + 1
  /\ project' = p
  /\ NewText
  /\ pc' = IF SupportedDevice(p.device) /\ p.fcb.exists THEN "fcb" ELSE "aborted"
  /\ bitobj' = [ NoObject EXCEPT !.family = p.device.family,
                                 !.protocol = p.device.protocol, !.blwl = p.device.blwl ]
  /\ UNCHANGED files

(***************************************************************************)
(* Lines of data                                                            *)
(***************************************************************************)
Bit(char) == IF char = "1" THEN 1 ELSE Zero
AreBits(chars) == \A k \in DOMAIN chars : chars[k] \in {"0", "1", "x"}

InOrder(chars) == IF lsb THEN chars ELSE Reverse(chars)

(* The bits of a line in whole bytes.                                       *)
PaddedToBytes(chars) ==
  [k \in DOMAIN chars |-> Bit(chars[k])] \o Zeros(align(Len(chars), Byte) - Len(chars))

(* Mutant of BitlineHolds: the length of a line is not looked at.           *)
AnyBitlineHolds(chars) == AreBits(chars)

BitlineHolds(chars) == AreBits(chars) /\ Len(chars) = section.width

(* get_wl_bitline_into_bytes: the text has the bits of the line first and   *)
(* the word line, one-hot, behind; in reversed order each reversed.         *)
BlPart(chars) == InOrder(SubSeq(chars, 1, section.width))
WlPart(chars) == InOrder(SubSeq(chars, section.width + 1, Len(chars)))
HotIn(wl) == {k \in DOMAIN wl : wl[k] = "1"}
WlLineHolds(chars) ==
  /\ AreBits(chars) /\ Len(chars) = section.width + section.length
  /\ Cardinality(HotIn(WlPart(chars))) = 1
OneHot(chars) == (CHOOSE k \in HotIn(WlPart(chars)) : TRUE) - 1

(* Mutant of ExpectedWl: any word line may follow.                          *)
AnyWl(chars) == OneHot(chars)

ExpectedWl(chars) == IF wl_increasing THEN data_line ELSE section.length - data_line - 1

Append1(bits) == [section EXCEPT !.data = @ \o bits]

(***************************************************************************)
(* Any text: blank lines and comments are skipped, the first other line     *)
(* must be the title, and from the first line of data on there is only data *)
(***************************************************************************)
Texts == {"fcb", "icb", "post_icb"}
NextLine ==
  /\ pc \in Texts /\ TextOf(pc).exists /\ index < Len(Lines)
  /\ index' = index + 1
  /\ UNCHANGED <<runs, project, files>>

BlankLine ==
  /\ NextLine
  /\ Here.key = "blank"
  /\ UNCHANGED <<pc, line_tracking, data_line, lsb, wl_increasing, section, bitobj>>

Title ==
  /\ NextLine
  /\ line_tracking = 0 /\ Here.key # "blank"
  /\ IF Here.key = "title" /\ Here.of = IF pc = "fcb" THEN "fcb" ELSE "icb"
       THEN line_tracking' = 1 /\ UNCHANGED pc
       ELSE pc' = "aborted" /\ UNCHANGED line_tracking
  /\ UNCHANGED <<data_line, lsb, wl_increasing, section, bitobj>>

IsComment(line) == line.key # "data" /\ line.key # "blank"
Known == IF pc = "fcb" THEN {"length", "width"} ELSE {"length", "format"}

(* Version, date, model, time, and what is not known: only a warning.       *)
Comment ==
  /\ NextLine
  /\ line_tracking = 1 /\ IsComment(Here) /\ Here.key \notin Known
  /\ UNCHANGED <<pc, line_tracking, data_line, lsb, wl_increasing, section, bitobj>>

(* "Bitstream length" of an FCB, "Total Bits" of an ICB: once, and not 0.   *)
LengthLine ==
  /\ NextLine
  /\ line_tracking = 1 /\ Here.key = "length"
  /\ IF section.length = 0 /\ Here.number > 0
       THEN section' = [section EXCEPT !.length = Here.number] /\ UNCHANGED pc
       ELSE pc' = "aborted" /\ UNCHANGED section
  /\ UNCHANGED <<line_tracking, data_line, lsb, wl_increasing, bitobj>>

(* "Bitstream width", with the order of the bits; for a memory bank it      *)
(* repeats the number of word lines, which has to be known by then.         *)
WidthLine ==
  /\ NextLine
  /\ line_tracking = 1 /\ Here.key = "width" /\ pc = "fcb"
  /\ lsb' = Here.lsb
  /\ IF /\ section.width = 0 /\ Here.number > 0
        /\ bitobj.protocol = "ql_memory_bank" => section.length = Here.wl
       THEN section' = [section EXCEPT !.width = Here.number] /\ UNCHANGED pc
       ELSE pc' = "aborted" /\ UNCHANGED section
  /\ UNCHANGED <<line_tracking, data_line, wl_increasing, bitobj>>

FormatLine ==
  /\ NextLine
  /\ line_tracking = 1 /\ Here.key = "format" /\ pc # "fcb"
  /\ IF ~section.format /\ Here.known
       THEN section' = [section EXCEPT !.format = TRUE] /\ UNCHANGED pc
       ELSE pc' = "aborted" /\ UNCHANGED section
  /\ UNCHANGED <<line_tracking, data_line, lsb, wl_increasing, bitobj>>

(***************************************************************************)
(* Data                                                                     *)
(***************************************************************************)
(* A line that is taken: the first one opens the data.  In the data every   *)
(* line that is not blank is data, and a comment is not.                    *)
AtData == NextLine /\ Here.key # "blank"
Taken(bits) ==
  /\ line_tracking' = 2
  /\ data_line' = data_line + 1
  /\ section' = Append1(bits)
  /\ UNCHANGED <<pc, lsb, bitobj>>
Refused ==
  /\ pc' = "aborted"
  /\ UNCHANGED <<line_tracking, data_line, lsb, wl_increasing, section, bitobj>>
HeaderKnown == section.length > 0 /\ section.width > 0

ScanChainLine ==
  /\ AtData /\ pc = "fcb" /\ bitobj.protocol = "scan_chain"
  /\ line_tracking = 2 \/ (line_tracking = 1 /\ Here.key = "data")
  /\ IF Here.key = "data" /\ HeaderKnown /\ BitlineHolds(Here.chars)
       THEN Taken(PaddedToBytes(InOrder(Here.chars))) /\ UNCHANGED wl_increasing
       ELSE Refused

(* The first word line, the first or the last of all, gives the direction.  *)
FirstWl ==
  /\ AtData /\ pc = "fcb" /\ bitobj.protocol = "ql_memory_bank"
  /\ line_tracking = 1 /\ Here.key = "data"
  /\ IF /\ HeaderKnown /\ WlLineHolds(Here.chars)
        /\ OneHot(Here.chars) \in {0, section.length - 1}
       THEN /\ Taken(PaddedToBytes(BlPart(Here.chars)))
            /\ wl_increasing' = (OneHot(Here.chars) = 0)
       ELSE Refused

NextWl ==
  /\ AtData /\ pc = "fcb" /\ bitobj.protocol = "ql_memory_bank"
  /\ line_tracking = 2
  /\ IF /\ Here.key = "data" /\ data_line < section.length
        /\ WlLineHolds(Here.chars) /\ OneHot(Here.chars) = ExpectedWl(Here.chars)
       THEN Taken(PaddedToBytes(BlPart(Here.chars))) /\ UNCHANGED wl_increasing
       ELSE Refused

(* One bit each; the bytes for all of them are there from the first on.     *)
IcbLine ==
  /\ AtData /\ pc # "fcb"
  /\ line_tracking = 2 \/ (line_tracking = 1 /\ Here.key = "data")
  /\ IF /\ Here.key = "data" /\ section.format /\ data_line < section.length
        /\ Here.chars \in {<<"0">>, <<"1">>}
       THEN Taken(<<Bit(Here.chars[1])>>) /\ UNCHANGED wl_increasing
       ELSE Refused

(***************************************************************************)
(* The end of a text                                                        *)
(***************************************************************************)
AtEnd == pc \in Texts /\ index = Len(Lines) /\ UNCHANGED <<runs, project, files>>
CountHolds == section.length > 0 /\ section.length = data_line

EndOfFcb ==
  /\ AtEnd /\ pc = "fcb"
  /\ IF HeaderKnown /\ CountHolds
       THEN pc' = "icb" /\ NewText /\ bitobj' = [bitobj EXCEPT !.fcb = section]
       ELSE Abort

IcbOf(s) == [bits |-> s.length, data |-> s.data \o Zeros(align(s.length, Byte) - s.length)]
EndOfIcb ==
  /\ AtEnd /\ pc = "icb"
  /\ IF ~project.icb.exists
       THEN pc' = "post_icb" /\ NewText /\ UNCHANGED bitobj
       ELSE IF CountHolds
         THEN pc' = "post_icb" /\ NewText /\ bitobj' = [bitobj EXCEPT !.icb = IcbOf(section)]
         ELSE Abort

EndOfPostIcb ==
  /\ AtEnd /\ pc = "post_icb"
  /\ IF ~project.post_icb.exists
       THEN pc' = "pcb" /\ NewText /\ UNCHANGED bitobj
       ELSE IF CountHolds /\ section.length = bitobj.icb.bits
         THEN pc' = "pcb" /\ NewText /\ bitobj' = [bitobj EXCEPT !.post_icb = IcbOf(section)]
         ELSE Abort

(***************************************************************************)
(* The RAMs, a list of coordinates with data or without, in the last        *)
(* character first                                                          *)
(***************************************************************************)
RamHolds(grid) == grid.data = << >> \/ Len(grid.data) = PcbBits
RamData(grid) ==
  IF grid.data = << >> THEN Zeros(align(PcbBits, Byte))
  ELSE Reverse(grid.data) \o Zeros(align(PcbBits, Byte) - PcbBits)
get_pcb ==
  /\ pc = "pcb"
  /\ IF /\ project.bram.exists => project.bram.found
        /\ \A k \in DOMAIN project.bram.grid : RamHolds(project.bram.grid[k])
       THEN /\ pc' = "write"
            /\ bitobj' = [ bitobj EXCEPT !.pcb =
                 [ k \in DOMAIN project.bram.grid |->
                     [ x |-> project.bram.grid[k].x, y |-> project.bram.grid[k].y,
                       bits |-> PcbBits, data |-> RamData(project.bram.grid[k]) ] ] ]
            /\ UNCHANGED reader
       ELSE Abort
  /\ UNCHANGED <<runs, project, files>>

(***************************************************************************)
(* The files                                                                *)
(***************************************************************************)
(* A file that cannot be opened stays what it was.                          *)
write ==
  /\ pc = "write"
  /\ \/ pc' = "generate" /\ bitasm' = {bitobj}
     \/ pc' = "fail" /\ UNCHANGED bitasm
  /\ UNCHANGED <<runs, project, reader, bitobj, cfgbit>>

(* What it returns is not looked at; what it asserts ends the run.          *)
BitGenerator_entry ==
  /\ pc = "generate"
  /\ \A b \in bitasm :
       \/ pc' = "success" /\ Generates(b) /\ cfgbit' = {generate(b)}
       \/ pc' = "not_written" /\ Generates(b) /\ UNCHANGED cfgbit
       \/ pc' = "refused" /\ ~Generates(b) /\ UNCHANGED cfgbit
  /\ UNCHANGED <<runs, project, reader, bitobj, bitasm>>

ReadLine ==
  \/ BlankLine \/ Title \/ Comment \/ LengthLine \/ WidthLine \/ FormatLine
  \/ ScanChainLine \/ FirstWl \/ NextWl \/ IcbLine
EndText == EndOfFcb \/ EndOfIcb \/ EndOfPostIcb
Assemble == ReadLine \/ EndText \/ get_pcb \/ write \/ BitGenerator_entry
Offered == IF runs = 0 THEN Projects ELSE Rebuilds
Next == clean \/ (\E p \in Offered : BitAssembler_entry(p)) \/ Assemble

Spec == Init /\ [][Next]_vars

(***************************************************************************)
(* Properties: what is in the .cfgbit file after a run that succeeded, told *)
(* from the texts alone                                                     *)
(***************************************************************************)
Actions == CHOOSE actions \in cfgbit : TRUE
Named(name) == {n \in DOMAIN Actions : Actions[n].action = name}

(* The lines of data of a text, and how many there are up to one.           *)
DataIn(text) == {p \in DOMAIN text.lines : text.lines[p].key = "data"}
Nth(text, p) == Cardinality({q \in DataIn(text) : q <= p})
CharsAt(text, p) == text.lines[p].chars
HeaderOf(text) == CHOOSE line \in Range(text.lines) : line.key = "width"

(* The lines of a memory bank select each word line exactly once, from the  *)
(* first to the last or from the last to the first.  The payload does not   *)
(* say which, and carries them in the order of the text.                    *)
Selected(chars, header) ==
  {k \in 1 .. Len(chars) - header.number :
     chars[IF header.lsb THEN header.number + k ELSE Len(chars) + 1 - k] = "1"}
EachWordLineOnce(text) ==
  LET selected(p) == Selected(CharsAt(text, p), HeaderOf(text))
      last == Cardinality(DataIn(text))
  IN  \/ \A p \in DataIn(text) : selected(p) = {Nth(text, p)}
      \/ \A p \in DataIn(text) : selected(p) = {last + 1 - Nth(text, p)}

(* Every character of the FCB's text is a bit of the payload, in the place  *)
(* its line and the order of the header give it, and no other bit is set;   *)
(* a memory bank gets each of its word lines exactly once, in turn.         *)
CharOf(chars, header, k) == chars[IF header.lsb THEN k ELSE header.number + 1 - k]
FcbArrives(payload, text) ==
  LET header == HeaderOf(text)
      row == align(header.number, Word)
  IN  /\ Len(payload) = row * Cardinality(DataIn(text))
      /\ \A p \in DataIn(text), k \in 1 .. row :
           payload[(Nth(text, p) - 1) * row + k] =
             IF k <= header.number /\ CharOf(CharsAt(text, p), header, k) = "1"
               THEN 1 ELSE Zero
FcbBitsArrive ==
  pc = "success" =>
    /\ FcbArrives(Actions[1].payload, project.fcb)
    /\ project.device.protocol = "ql_memory_bank" => EachWordLineOnce(project.fcb)

(* The bits of the ICB's text are the last of the payload of an action, in  *)
(* order, and those in front are 0; a second action follows for the text of *)
(* after the configuration if and only if a bit of it differs.              *)
IcbArrives(payload, text) ==
  LET count == Cardinality(DataIn(text))
  IN  /\ Len(payload) = align(count, Word)
      /\ \A k \in 1 .. Len(payload) - count : payload[k] = Zero
      /\ \A p \in DataIn(text) :
           payload[Len(payload) - count + Nth(text, p)] =
             IF CharsAt(text, p) = <<"1">> THEN 1 ELSE Zero
Differ(text1, text2) ==
  \E p \in DataIn(text1), q \in DataIn(text2) :
    Nth(text1, p) = Nth(text2, q) /\ CharsAt(text1, p) # CharsAt(text2, q)
IcbBitsArrive ==
  pc = "success" =>
    LET icb == project.icb
        post == project.post_icb
        count == IF ~icb.exists THEN 0
                 ELSE IF post.exists /\ Differ(icb, post) THEN 2 ELSE 1
    IN  /\ Named("icb_config") = 2 .. count + 1
        /\ count >= 1 => IcbArrives(Actions[2].payload, icb)
        /\ count = 2 => IcbArrives(Actions[3].payload, post)

(* Each bit of each RAM is at its one place in the payload: its RAM, its    *)
(* word, and in the word the user bits of both halves in front of their     *)
(* parity.  No other bit is set.                                            *)
HalfOf(i) == i \div (PcbBits \div 2)
WordOf(i) == (i % (PcbBits \div 2)) \div HalfWord
BitOf(i) == i % HalfWord
PlaceOf(i) ==
  WordOf(i) * 2 * UserBits +
    IF BitOf(i) < UserBits \div 2
      THEN HalfOf(i) * (UserBits \div 2) + BitOf(i)
      ELSE UserBits + HalfOf(i) * (ParityBits \div 2) + BitOf(i) - UserBits \div 2
RamArrives(payload, grid) ==
  LET given == {n \in DOMAIN grid : grid[n].data # << >>}
      place(n, i) == (n - 1) * PcbPayloadBits + PlaceOf(i) + 1
  IN  /\ Len(payload) = Len(grid) * PcbPayloadBits
      /\ \A n \in given, i \in 0 .. PcbBits - 1 :
           payload[place(n, i)] = grid[n].data[PcbBits - i]
      /\ \A k \in DOMAIN payload :
           payload[k] # Zero => \E n \in given, i \in 0 .. PcbBits - 1 : k = place(n, i)
RamBitsArrive ==
  pc = "success" =>
    LET grid == project.bram.grid
        rams == Named("pcb_config_with_parity")
    IN  IF grid = << >> THEN rams = {}
        ELSE rams = {Len(Actions)} /\ RamArrives(Actions[Len(Actions)].payload, grid)

(* Whatever texts the assembler accepts, the objects it writes pass every   *)
(* assertion of the generator: it refuses a family, and nothing else.       *)
GeneratorTakesIt == pc = "refused" => project.device.family \notin Families
=============================================================================
