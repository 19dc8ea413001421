------------------------------ MODULE BitGenUbi ------------------------------
(***************************************************************************)
(* The UBI packager (BitGenerator/BitGen_ubi.cpp): BOP files of the new     *)
(* format (BitGenBlocks) and of the old one are put behind one header.      *)
(* In the old format each BOP has a header of 64 bytes that holds the       *)
(* offset of the next one, 0 in the last, and its own CRC.                  *)
(*                                                                         *)
(* A file is a sequence of cells: 2K blocks in the new format, 64 bytes in  *)
(* the old one; the UBI header is the first cell of the container.          *)
(***************************************************************************)
EXTENDS BitGenParse, SequencesExt

CONSTANTS
  OldIdentifiers,  \* what is_supported_bop_identifier takes besides, MANF, FCB, ICB, PCB
  Files,           \* what can be in an input file
  MaxFiles,        \* input files of a command, 2
  BlockCells,      \* cells of the old format in a 2K block, 32
  CountLimit       \* package_count is a uint8_t, 256

IsSeq(s) == s \in Seq({s[k] : k \in DOMAIN s})

ASSUME UbiConstants == CountLimit \in Nat /\ BlockCells \in Nat /\ MaxFiles \in Nat
ASSUME UbiFiles ==
  \A f \in Files :
    /\ IsSeq(f)
    /\ \A k \in DOMAIN f :
         /\ f[k].type = "bop" => f[k].offset \in Nat
         /\ f[k].type = "header" => f[k].size \in Nat

VARIABLES
  pc,              \* "idle", "file", "identify", "new", "old", "over", or what ended it
  filepaths,       \* input_filepaths: the contents of the files
  filepath_index,
  input,           \* the file at hand
  index,           \* in parse_old_bop
  count,           \* in parse_old_bop
  fsbl_size,       \* of the header
  package_count,   \* of the header
  data,            \* the container so far
  output,          \* the output file
  heads,           \* where in the container the BOPs of the old format are (history)
  starts,          \* where the files begin (history)
  whole            \* no BOP was longer than its file (history)

oldVars == <<index, count, heads>>
vars ==
  <<pc, filepaths, filepath_index, input, oldVars, fsbl_size, package_count, data, output,
    starts, whole>>

(***************************************************************************)
(* Headers                                                                  *)
(***************************************************************************)
UbiHeader == [type |-> "ubi"]
HeaderCells == 1   \* sizeof(BitGen_UBI_HEADER)

CFG_bop_A001_crc16(identifier, offset) == [crc16 |-> <<identifier, offset>>]
OldHeader(identifier, offset) ==
  [ type |-> "bop", identifier |-> identifier, offset |-> offset,
    crc |-> CFG_bop_A001_crc16(identifier, offset) ]
IsOldHeader(cell) == cell.type = "bop"
CrcRight(h) == h.crc = CFG_bop_A001_crc16(h.identifier, h.offset)
is_supported_bop_identifier(cell) ==
  IsOldHeader(cell) /\ cell.identifier \in Identifiers \union OldIdentifiers

(* More than 64 bytes.                                                      *)
Large(cells) == Len(cells) > 1 \/ (Len(cells) = 1 /\ ~IsOldHeader(cells[1]))

is_last_file == filepath_index = Len(filepaths)

(***************************************************************************)
(* package                                                                  *)
(***************************************************************************)
Init ==
  /\ pc = "idle" /\ filepaths = <<>> /\ filepath_index = 0 /\ input = <<>>
  /\ index = 0 /\ count = 0 /\ fsbl_size = 0 /\ package_count = 0
  /\ data = <<>> /\ output = <<>> /\ heads = {} /\ starts = {} /\ whole = TRUE

package(list) ==
  /\ pc = "idle"
  /\ pc' = "file"
  /\ filepaths' = list
  /\ data' = <<UbiHeader>>
  /\ UNCHANGED <<filepath_index, input, oldVars, fsbl_size, package_count, output, starts, whole>>

(* The CRC32 of the first 2K is computed before the size is compared with   *)
(* 2K: of a shorter file it is read from behind the data, which may end the *)
(* program.                                                                 *)
ReadsBehind(cells) == IsOldHeader(cells[1]) /\ Len(cells) < BlockCells
ReadFile ==
  /\ pc = "file" /\ filepath_index < Len(filepaths)
  /\ filepath_index' = filepath_index + 1
  /\ input' = filepaths[filepath_index + 1]
  /\ IF Large(input')
       THEN pc' \in {"identify"} \union (IF ReadsBehind(input') THEN {"crashed"} ELSE {})
       ELSE pc' = "refused"
  /\ starts' = starts \union {Len(data) + 1}
  /\ UNCHANGED <<filepaths, oldVars, fsbl_size, package_count, data, output, whole>>

IdentifiedAsNew ==
  /\ IsHeader(input[1])
  /\ input[1].identifier \in Identifiers
  /\ \A k \in 1 .. Len(input) : input[k].type # "part"
  /\ input[1].crc = CFG_crc32(AllButCrc(input[1]))
IdentifiedAsOld == is_supported_bop_identifier(input[1]) /\ CrcRight(input[1])

Identify ==
  /\ pc = "identify"
  /\ pc' = IF IdentifiedAsNew THEN "new" ELSE IF IdentifiedAsOld THEN "old" ELSE "refused"
  /\ index' = 0
  /\ count' = 0
  /\ UNCHANGED <<filepaths, filepath_index, input, fsbl_size, package_count, data, output,
                 heads, starts, whole>>

(* Mutant of PutBehind: a file counts as one BOP.                           *)
PutBehindAsOne(n) ==
  /\ package_count' = package_count + 1
  /\ data' = data \o input
  /\ pc' = "file"

(* The BOPs of a file are counted, in one byte, and the file goes behind    *)
(* those before it.                                                         *)
PutBehind(n) ==
  IF n < CountLimit /\ package_count + n < CountLimit
    THEN /\ package_count' = package_count + n
         /\ data' = data \o input
         /\ pc' = "file"
    ELSE /\ pc' = "asserted"
         /\ UNCHANGED <<package_count, data>>

NewFormat ==
  /\ pc = "new"
  /\ LET parsed == parse(input, TRUE, TRUE)
     IN  IF parsed.ok
           THEN PutBehind(Len(parsed.sizes))
           ELSE pc' = "refused" /\ UNCHANGED <<package_count, data>>
  /\ UNCHANGED <<filepaths, filepath_index, input, oldVars, fsbl_size, output, starts, whole>>

(***************************************************************************)
(* parse_old_bop                                                            *)
(***************************************************************************)
HereCell == input[index + 1]
max_size == Len(input) - index
IsLast(h) == h.offset = 0
OffsetOf(h) == IF IsLast(h) THEN max_size ELSE h.offset
Overwritten(h) == OldHeader(h.identifier, max_size)

(* Mutant of LinkedOn: the offset stays 0.                                  *)
NotLinked(h) == h

(* The last BOP of a file that is not the last one gets the offset of the   *)
(* next file and a new CRC.                                                 *)
LinkedOn(h) == IF IsLast(h) /\ ~is_last_file THEN Overwritten(h) ELSE h

FsblEnd(h) == OffsetOf(h) + HeaderCells

(* The first BOP of the first file, if it is an FSBL.                       *)
IsFsbl == filepath_index = 1 /\ index = 0 /\ HereCell.identifier = "FSBL"

OldBop ==
  /\ pc = "old" /\ index < Len(input)
  /\ IF max_size > 1 /\ is_supported_bop_identifier(HereCell) /\ CrcRight(LinkedOn(HereCell))
       THEN /\ input' = [input EXCEPT ![index + 1] = LinkedOn(@)]
            /\ fsbl_size' = IF IsFsbl THEN FsblEnd(HereCell) ELSE fsbl_size
            /\ count' = count + 1
            /\ index' = index + OffsetOf(HereCell)
            /\ heads' = heads \union {Len(data) + index + 1}
            /\ whole' = (whole /\ OffsetOf(HereCell) <= max_size)
            /\ UNCHANGED pc
       ELSE /\ pc' = "refused"
            /\ UNCHANGED <<input, fsbl_size, oldVars, whole>>
  /\ UNCHANGED <<filepaths, filepath_index, package_count, data, output, starts>>

(* An offset that leads behind the file ends the loop as its end does.      *)
OldFormat ==
  /\ pc = "old" /\ index >= Len(input)
  /\ PutBehind(count)
  /\ UNCHANGED <<filepaths, filepath_index, input, oldVars, fsbl_size, output, starts, whole>>

WriteOutput ==
  /\ pc = "file" /\ filepath_index = Len(filepaths)
  /\ pc' = "written"
  /\ output' = <<[ type |-> "ubi", size |-> Len(data), fsbl_size |-> fsbl_size,
                   package_count |-> package_count ]>> \o SubSeq(data, 2, Len(data))
  /\ UNCHANGED <<filepaths, filepath_index, input, oldVars, fsbl_size, package_count, data,
                 starts, whole>>

Commands == UNION { [1 .. n -> Files] : n \in 1 .. MaxFiles }
Next ==
  \/ \E list \in Commands : package(list)
  \/ ReadFile \/ Identify \/ NewFormat \/ OldBop \/ OldFormat \/ WriteOutput

Spec == Init /\ [][Next]_vars

(***************************************************************************)
(* Properties                                                               *)
(***************************************************************************)

(* Each BOP of the old format that was counted has its CRC right in the     *)
(* container, and its offset leads to another that was counted, to where a  *)
(* file begins or to the end; only in the last file may it be 0.            *)
(* This is for files whose BOPs are no longer than they are: the offset of  *)
(* one that is cut short leads into the next file, unnoticed.               *)
CellAt(p) == IF p <= Len(data) THEN data[p] ELSE input[p - Len(data)]
Reading == IF pc = "old" THEN {Len(data) + index + 1} ELSE {}
LeadsOn(p) ==
  \/ /\ CellAt(p).offset > 0
     /\ p + CellAt(p).offset \in heads \union starts \union {Len(data) + 1} \union Reading
  \/ CellAt(p).offset = 0 /\ is_last_file /\ \A s \in starts : s <= p
ChainLeadsOn ==
  pc \in {"file", "old", "written"} =>
    \A p \in heads : CrcRight(CellAt(p)) /\ (whole => LeadsOn(p))

(* The BOPs of the container, walked from the first by size or offset: the  *)
(* walk meets as many as the header counts, each with its CRC right, and    *)
(* ends at the end.  The header tells the size, and of a file of the old    *)
(* format that begins with an FSBL where that ends: at the end, or before   *)
(* another BOP.                                                             *)
StepFrom(p) ==
  IF output[p].type = "header" THEN output[p].size
  ELSE IF IsLast(output[p]) THEN Len(output) + 1 - p ELSE output[p].offset
Broken == -1
Walk ==
  LET from[p \in 1 .. Len(output) + 1] ==
        IF p = Len(output) + 1 THEN 0
        ELSE IF /\ output[p].type \in {"header", "bop"}
                /\ output[p].type = "bop" => CrcRight(output[p])
                /\ output[p].type = "header" => output[p].crc = CFG_crc32(AllButCrc(output[p]))
                /\ p + StepFrom(p) <= Len(output) + 1
          THEN LET rest == from[p + StepFrom(p)]
               IN  IF rest = Broken THEN Broken ELSE rest + 1
          ELSE Broken
  IN  from[2]
IsFsblFile(file) == IsOldHeader(file[1]) /\ file[1].identifier = "FSBL"
ContainerIsWalked ==
  pc = "written" /\ whole =>
    /\ Walk = output[1].package_count
    /\ output[1].size = Len(output)
    /\ IF IsFsblFile(filepaths[1])
         THEN \/ output[1].fsbl_size = Len(output)
              \/ output[output[1].fsbl_size + 1].type \in {"bop", "header"}
         ELSE output[1].fsbl_size = 0

(* A file with a BOP "CRC Checking failed" for is not packaged.             *)
WrongCrcIsRefused ==
  pc = "written" /\ whole =>
    \A n \in 1 .. Len(filepaths) :
      \A k \in 1 .. Len(filepaths[n]) :
        IsOldHeader(filepaths[n][k]) => CrcRight(filepaths[n][k])
=============================================================================
