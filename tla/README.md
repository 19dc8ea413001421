# Verification of FOEDAG_rs

FOEDAG_rs is the Rapid Silicon layer of an FPGA design tool: it turns what place-and-route produced
into a bitstream (assembler, configuration objects, generator, packer, analyzer, compression,
encryption) and talks to the programmed FPGA through JTAG (OCLA, the on-chip logic analyser, and
EIO, the embedded IO core). This directory holds TLA+ models of its core, TLC configurations that
check them, and theorems about them that TLAPS checks. `PROJECT.json` lists every run, mutant,
theorem and hazard, and maps each definition to the source lines it stands for.

All source paths below are relative to the repository; `O/` is `src/ConfigurationRS/Ocla/`, `B/` is
`src/ConfigurationRS/BitGenerator/`, `C/` is `src/ConfigurationRS/CFGCommonRS/`, `A/` is
`src/ConfigurationRS/BitAssembler/`, `F/` is `src/ConfigurationRS/CFGObject/`.

## 1. Inventory

| Component | State | Operations | Interacts with |
|---|---|---|---|
| Debugger session and `debugger` commands (`O/Ocla.cpp`, `OclaDomain.cpp`, `Ocla_entry.cpp`) | at most one session (`Ocla::m_sessions`), per clock domain a configuration and a trigger list | load, unload, config, add/edit/remove_trigger, start, show_waveform, info commands | OCLA IP, JTAG adapter, debug-info parser |
| OCLA IP (`O/OclaIP.cpp`) | registers OCSR, TCUR, TDCR, TSSR, TMTR, OCCR in the FPGA | configure, configure_channel, start, get_status, get_data | JTAG adapter |
| JTAG adapter (`O/OclaOpenocdAdapter.cpp`) | none: one openocd process per transfer | read, write | openocd |
| Debug-info parser (`O/OclaDebugSession.cpp`, `OclaHelpers.cpp`) | domains, instances, probes, signals | load, unload | session |
| Embedded IO (`O/EioIP.cpp`, `Ocla.cpp:912-1122`) | input/output registers in the FPGA | set_io, get_io | JTAG adapter |
| Waveform writer (`O/OclaFstWaveformWriter.cpp`) | a file | write | FST library |
| Compression (`C/CFGCompress.cpp`) | none (pure) | compress, decompress | packer, analyzer |
| Streaming decompression engine (`B/BitGen_decompress_engine.cpp`) | FSM, counters, partial variable-length number | process, reset | analyzer, model of the boot firmware |
| Bitstream packer (`B/BitGen_packer.cpp`) | growing byte vector, IV, hash chain | header, actions, finalise | crypto, compression |
| Bitstream analyzer (`B/BitGen_analyzer.cpp`) | position in the file, expected hash, IV | parse, update sizes | crypto, compression, engine |
| UBI container (`B/BitGen_ubi.cpp`) | the container, its header, place in the input file | package, parse_old_bop | packer's headers, old BOP headers |
| Bitstream front end (`B/BitGenerator.cpp`, `BitGen_gemini.cpp`, `BitGen_json.cpp`) | argument objects | order of generation, actions of a device | objects, packer, UBI |
| Debug info in the assembler (`A/BitAssembler_ocla.cpp`) | none | accept or refuse what yosys reports | configuration objects, parser |
| Bitstream assembler (rest of `A/*`) | place in the text, object under way | FCB, ICB, post-configuration ICB, RAMs; clean | device database, debug info, generator |
| Configuration objects (`F/*`) | values, children, exist flags | set, append, create child, write, read, dump | assembler, generator |
| Cryptography (`CFGCrypto/*`) | keys | sign, verify, encrypt | OpenSSL |
| Common helpers (`C/CFGCommonRS.cpp`) | none | bit fields, numbers, messages | everyone |
| Compiler driver (`src/Compiler/CompilerRS.cpp`) | stage state of the base class | scripts for external tools | external tools |
| Main program (`src/Main/main.cpp`) | none | command line | everyone |

What is hard here:

* *Two places hold the truth.* The session keeps what the user asked for; the FPGA keeps what was
  programmed. Every command names its device, so the checks of one command and the programming of
  another may concern different boards.
* *Programming is not atomic.* Each register write is a process of its own that may fail; nothing is
  rolled back, and fields the new trigger does not use keep their old contents.
* *Acquisition goes on by itself.* It starts on a rising ST edge, completes while the software polls,
  sleeps or is gone, and its samples are fetched later under registers the software may have changed.
* *Read, change, write back.* `set_io` changes signals inside registers it has to read first, through an
  address that answers with the inputs or with the outputs, as the command before it left it.
* *Streaming.* The decompression engine sees its input in arbitrary pieces and writes to a bounded
  output; a run or a number may be cut anywhere.
* *Chained data.* The packer hashes, encrypts and patches sizes in an order the analyzer has to undo.
* *One layout, two places.* The assembler pads lines, bits and RAMs to bytes, the generator undoes that
  and pads to words, and both compute the sizes they expect of each other.
* *Files that outlive a program.* An object is written by one version of the rules and read by another,
  and a container is patched (offset, CRC) while it is put together.

What makes each component correct:

* session: a trigger the session accepted can be programmed; limits hold after every sequence of
  commands; start programs what the session says, nothing less and nothing left over;
* OCLA IP: no register combination that samples for ever; a start always begins an acquisition;
* waveform: complete, and labelled with the settings it was taken under;
* parser: signals occupy disjoint bits of their instance; a probe belongs to one instance; what the
  assembler let pass can be loaded;
* EIO: only the outputs that are named change; the inputs reported are the inputs;
* compression: decompress(compress(x)) = x, and the streaming engine agrees for every chunking;
* packer and analyzer: what is packed is accepted, what was altered is refused, sizes and offsets
  name the right blocks;
* UBI: every BOP is found at the offset of the one before it, and as many as the header counts;
* assembler and generator: every bit of the texts is in the payload, at its place and nowhere else, and
  what the one accepts the other can use;
* objects: what is written is in the file, and a file that is accepted is what was written.

The hazards in `PROJECT.json` name the line where each of these can go wrong.

## 2. Plan

1. **Debugger** (built): `OclaIP`, `OclaDebugger`, the abstract `OclaAcquisition`, the refinement
   `OclaRefinement`, proofs in `OclaDebuggerProofs` and `OclaRefinementProofs`.
2. **Compression** (built): `CFGTokens`, `CFGCompress`, `CFGStream`, `BitGenDecompressEngine`,
   `BitGenPayload`, the composition `CompressedPayload`, proofs in `CompressedPayloadProofs`.
3. **Packer and analyzer** (built): `BitGenBlocks`, `BitGenParse`, `BitGenPacker`, `BitGenAnalyzer`, the
   composition `BitGenBitstream`, proofs in `BitGenPackerProofs`. Still to
   prove: that what was packed is read back.
4. **EIO and debug info** (built): `OclaDesign` (what the assembler lets pass and the parser makes of
   it), `OclaEio` (set_io and get_io over the registers), proofs in `OclaEioProofs`.
5. **UBI container** (built): `BitGenUbi`, proofs in `BitGenUbiProofs`.
6. **Configuration objects** (built): `CFGObject`, `CFGObjectFile`, proofs in `CFGObjectProofs`.
7. **Assembler and generator** (built): `BitGenGemini`, `BitAssembler`, proofs in `BitAssemblerProofs`.

## 3. The modules

| Module | Stands for |
|---|---|
| `OclaIP` | the registers of one OCLA instance and the functions that write and read their fields |
| `OclaDebugger` | the session, every command that changes it or the device, the start command write by write, the FPGA, failures |
| `OclaAcquisition` | abstract: what the user is promised, with no register traffic |
| `OclaRefinement` | the mapping of `OclaDebugger` to `OclaAcquisition` |
| `MCOclaDebugger`, `MCOclaRefinement` | user designs, boards and command lines for TLC |
| `OclaDebuggerProofs` | theorems about the session, the start command and the registers |
| `OclaRefinementProofs` | theorems about what an acquisition is made under: the refinement, the waveforms |
| `OclaDesign` | debug information: what the assembler accepts, what `OclaDebugSession` makes of it |
| `OclaEio` | assembling, loading, unloading, and `set_io` / `get_io` transfer by transfer |
| `MCOclaEio` | user designs, boards and command lines for TLC |
| `OclaEioProofs` | theorems about `set_io`, `get_io` and the session that is loaded |
| `CFGTokens` | the tokens of a compressed bitstream and what they expand to |
| `CFGCompress` | `CFG_COMPRESS::compress`, one token per turn of its loop |
| `CFGStream` | the bytes of header, numbers and tokens |
| `BitGenDecompressEngine` | the streaming decompressor, one turn of `process` per action |
| `BitGenPayload` | the analyzer that feeds it word by word and writes the file |
| `CompressedPayload` | the composition: compress, hand over, read back |
| `MCBitGenPayload`, `MCCompressedPayload` | streams and inputs for TLC |
| `CompressedPayloadProofs` | theorems about the compressor, about engine and analyzer on any stream, and about both programs together |
| `BitGenBlocks` | what a bitstream is made of: blocks, digests, ciphers, vectors |
| `BitGenPacker` | `generate_bitstream`: header, actions, hash chain, sizes, signature |
| `BitGenParse` | `parse`, the walk from header to header that analyzer, generator and UBI packager begin with |
| `BitGenAnalyzer` | `parse_debug`, word by word through the actions and block by block through the payloads |
| `BitGenBitstream` | files: written, joined by `combine_bitstreams`, damaged, read |
| `MCBitGenBitstream` | BOPs, options and keys for TLC |
| `BitGenPackerProofs` | theorems about the packer |
| `BitGenUbi`, `MCBitGenUbi` | the UBI packager; its input files for TLC |
| `BitGenUbiProofs` | theorems about the chain of old BOPs and the walk of a reader |
| `CFGObject` | an object and its members: writing, appending, children, `update_exist` |
| `CFGObjectFile`, `MCCFGObject` | the file of an object: written, damaged, read by a program with other rules, dumped; sets of rules for TLC |
| `CFGObjectProofs` | theorems about the members that are marked, and that what is read is what was written |
| `BitGenGemini` | pure: the objects of a .bitasm file become the actions of a BOP |
| `BitAssembler`, `MCBitAssembler` | the assembler, line by line, and the generator behind it; projects for TLC |
| `BitAssemblerProofs` | theorems that the generator takes what the assembler makes, and that every bit arrives |

### The debugger

State. `loaded`, `config` and `triggers` are `Ocla::m_sessions` and the `OclaDomain` objects of the
session. `regs` holds TMTR and the trigger channels of every instance on every board, `st` the bit
ST, `phase` whether an acquisition is under way or its data is available (bit DA), and `latched` the
registers it was started with. `pc` and `run` are the program counter and the locals of a start
command (`Ocla::start`, `Ocla::program`, `OclaIP::configure_channel`,
`Ocla_wait_n_show_waveform`). `out` is what the last step told the user. `torn` is a history
variable: domains of a board whose programming was cut short since their last acquisition began.

Actions. A command that reads the device and then changes the session is one step, since an exception
in a read leaves no trace. The start command takes a step for each register write: TMTR, then the
three words of each channel cleared, then the three words of each trigger's channel, instance after
instance, then the dummy write to OCCR, then ST, then one step per poll. `JtagFails` may cut it at
any of them, `ProcessEnds` too; `AssertFails` is the `CFG_ASSERT` of `configure_channel`.
`SamplingDone` is the FPGA, at any time.

Abstractions. Signals, probes and instances are members of small sets; the user's text is already
parsed (the numbers of a range keep their width: `Modulus` is 2^32 in the code). Positions of bit
fields in a word are left out, their widths are kept. The ids that `verify` compares (type, version,
IP id, number of probes, EIO) are folded into `id` and `EioFound`. The channel counts and compare
widths are kept apart from the ids because `verify` does not compare them.

Modelled from how the code uses it (external): the FPGA's registers hold what is written; an
acquisition begins on a rising ST of the first instance of a domain and the daisy-chained instances
start with it; it samples under the registers of that moment; DA falls at that moment and rises when
sampling ends; with FNS 0 and NS not 0 it never ends (comment at `O/OclaIP.cpp:71-73`).

The abstract specification `OclaAcquisition` has five steps: open, close, set, capture, complete. Its
variable `setup` is the configuration and the triggers each instance samples with, and `Capture`
replaces it in one step by what the session says. The mapping decodes the latched registers with
`get_config` and `get_channel_config`, so that leftovers in fields, wrong widths, wrong order of
channels and half-programmed starts would all show as steps `OclaAcquisition` does not allow.

### Debug information and EIO

`OclaDesign` has no state. A JSON object is a record of its values and of the set `keys` of those it has;
a signal is what `CFG_parse_signal` makes of its text (pattern, name, range, width). `extract_ocla_info`
is the acceptance test of the assembler, `parse_ocla` the loop over instances (`AddInstance`, with the
checks in `InstanceFits`), `parse_eio` the two EIO probes. A result is `ok`, `refused` (an error
message) or `thrown` (an exception of the JSON library). Values have the type the assembler asked
for, as the parser only sees what the assembler wrote.

`OclaEio` runs it. `file` is the field `ocla` of the .bitasm file, `session` what `load` made of it,
`io` the cores: bit PRS, inputs and outputs, a register being the set of its bits that are 1 over all
words. `pc` and `cmd` are program counter and locals of a command: `Begin` is the checks and the
constructor of `EioIP`, which copies the control register (`m_ctrl`), `Select` writes PRS if that
copy says so, `ReadWord` and `WriteWord` move a word each, `Update` merges the values, `Confirm`
compares, `Report` prints and `Again` is the next round of `get_io --loop`. Between any two steps the
inputs may move (`InputsChange`) and the transfer may fail (`JtagFails`). `steady`, a history variable,
says that they have not moved since the command began. A word of `get_io` is a step although one openocd
process reads them all, since the core answers them one by one.

External: the core answers at 0x10 with the inputs or the outputs as PRS says, and after reset has PRS
on the inputs and all outputs 0 (names and comments of `O/EioIP.h:8-24`).

### Compression

`CFGCompress` is the loop of `CFG_COMPRESS::compress`: `index` and `tokens` are its locals, `followup`
the argument `support_followup_byte`; `CFG_compress` may try both values, so either is possible.
`expanded`, a history variable, is what the tokens stand for so far. One action writes one token:
`CompressRun` and `CompressRepeat` when `analyze_repeat` found a chunk that repeats,
`NoneRun`, `NoneVarRun` and `NonePack` for the three ways out of `compress_none_repeat`. The searches
are stated by what they find and not by how they scan: `FoundLength` says which chunk length the scan
settles on, including that a long run of one byte is left alone, and `FoundRepeat` how many repeats
fit. The alternatives do not overlap, so the model is as deterministic as the code. Tokens are
records here; `CFGStream` lays them out as bytes. `Base` is 128 in the code and 16 in the runs, so
that flags and counts take more than one byte and can be cut between them.

`BitGenDecompressEngine` keeps the fields of the class in the record `engine`. An action is one turn
of the loop in `process`: the assertions at its top, the whole handler, and the decision about
status and return. Handlers that copy byte after byte are stated by how far they get, which is the
least of what is left of the token, of the input and of the room in the output. A failing assertion is
the status `THROWN`. `BitGenPayload` is `parse_payload` with the loop over payload blocks around it:
`NextWord` hands over four bytes (`word`), `ProcessReturned` treats each status and calls again as
long as it is GOOD, `EndBlock` makes the three checks behind each block. Decryption, the uncompressed
path and the listing file are left out.

### The bitstream

`BitGenBlocks` holds what packer and analyzer share. Sizes count 32-bit words. A block of the file is a
record with its type and what is in it. A digest (hash, CRC, checksum) is a constructor over what it
was computed from, so that two are equal only if the data are; the cipher is a constructor with key and
vector, which the same key and vector take off; obscuring likewise with the hashes of the header. Two
different blocks with the same digest are therefore not considered. An initialisation vector is its
first word, which is counted up from payload to payload, and the rest, which the cipher counts up from
block to block (`ctr_encrypt` in the branch for OpenSSL 1.1, the one `CFGOpenSSL.h:7` selects; the other
branch, which returns the vector it was given, is not compiled).

`BitGenPacker` follows `generate_bitstream`. `stage`, `number` and `at` say where it is; `blocks`, `area`
and `room` are `bop_blocks`, `action_data` and `action_remaining_size`; `temp`, `holder`, `slots` and
`pointers` the locals of `update_hash`; `data`, `sizes`, `begin`, `left` those of the loop over end sizes.
There is a step for each BOP that begins, each action, each block hashed, each hash block hashed
afterwards, the four functions that finish a header, and each end size. Fields that are only copied
(version, tool name, public key) are left out; the JTAG mask is kept, as it is written to the wrong place.
The compressed size of a payload is part of the input: `CFGCompress` says how it comes about.

`BitGenAnalyzer` follows `parse` and `parse_debug`. `pc` says which function runs; `key` is `m_aes_key`,
`index`, `addr` and `remaining` are `m_current_bop_data_index`, `m_integrity.addr` and
`m_integrity.remaining_size`; `tracker` and `i` the locals of `parse_action`, one step per word. The
payload goes to the decompression engine a block at a time (`EngineStatus`), since `BitGenPayload`
checks that path byte by byte. `executed` is a history variable: each action found right and the
file written for it.

`BitGenBitstream` puts files between them. `GenBitstream` and `WriteFile` are the command
`gen_bitstream`, `Combine` is `combine_bop`, `ParseFile` is `parse`. `Damage` is not code: once, a
file has a block that reads as noise, two neighbours exchanged, its last block lost, or one field of a
header changed.

### The UBI container

`BitGenUbi` follows `package`. `filepath_index` says which file is at hand, `input` is what was read of
it, `data` the container so far; `index` and `count` are the locals of `parse_old_bop`, which takes a step
per BOP (`OldBop`) and overwrites offset and CRC in `input`. A file is a sequence of cells, 2K blocks in the
new format and 64 bytes in the old. `Identify` tells the formats apart in the order of the code,
`NewFormat` is the walk of `BitGenParse` with the end sizes checked, `PutBehind` counts the BOPs in a byte
and asserts that they fit. `heads`, `starts` and `whole` are history variables: where the old BOPs and the
files begin, and whether each BOP was as long as its offset says. A CRC computed behind the end of a short
file is a choice between going on and "crashed".

### Configuration objects

`CFGObject` is an object with named members; an object is the path that leads to it, so that the same
variables hold the whole tree. `update_exist` takes a step for each call of itself, up to the member
that holds the object. `CFGObjectFile` is a program around it: members are written, appended to and given
children in any order; `write` checks the mandatory members, counts and serialises, `Damage` (not code)
cuts the file or exchanges two of its tokens, `read` begins with a blank object under rules of its own
and `parse` dumps the file without rules. `frames` is the stack of `parse_object`,
`parse_class_object` and the loop over children, `parsed` what they counted. Each token is a step: its type
and name are compared with the rules, its value is stored through the operations of `CFGObject`, and the
end of the data compares the counts and checks the mandatory members. A failed assertion is the end
"asserted" (or "not_dumped"). `Programs` are the rules that programs are built with; `IsProgram` is what
`CFGObject.py` makes sure of when it generates them: siblings have different names (`:92`), and a class or
list, nothing else, has members (`:98`). `CFG_crc16` is abstract and tells any two data apart.

### From the texts to the bitstream

`BitAssembler` starts with what the compiler left: device, FCB text, ICB texts before and after the
configuration, RAM contents. A line of a text is what it is recognised as (a key with its number, or the
characters of a line of data); reading one is one step, with the checks of its key, and a failed assertion
ends the run as "aborted". `index`, `line_tracking`, `data_line`, `lsb`, `wl_increasing` are the locals of the
readers. `EndOfFcb`, `EndOfIcb` and `EndOfPostIcb` are the checks behind a text, `get_pcb` the list of
RAMs, `write` the .bitasm file (a file that cannot be opened stays what it was), and
`BitGenerator_entry` the generator, whose answer nobody looks at. `clean` and a second run with another
project follow. `BitGenGemini` has no state: its operators are the payloads, bit by bit (lines to words, the
padding in front of an ICB, the halves of a RAM with their parity behind them) and the assertions on
the way. A bit of a RAM is a number of its own, so that it can be found again in the payload.

## 4. The runs

| Run | Question | Bounds |
|---|---|---|
| `chained` | all safety properties of the debugger, and that it implements `OclaAcquisition` | two chained instances, one channel each, one matching and one foreign board, accepted and refused requests of every kind, two configurations, wait or no wait |
| `channels` | refinement with several triggers: order, replacement, leftovers | one instance, two channels, two requests |
| `separate` | two clock domains, independently started: refinement, and the liveness of the start command, one of whose requests ([65535:0], see Observations) fails the assertion on the compare width | two instances in two domains, one channel, wait or no wait |
| `eio` | the assembler and the parser on seven designs, five of them faulty; EIO commands, whatever fails and whatever moves | two boards, one lacking an instance; registers of two words of two bits, EIO probes of four bits, and of more than fit; six `set_io` lines (values too wide, a signal named twice, by number, unknown, without value), four `get_io` lines in one or two rounds; inputs with three values |
| `eio_disabled` | see Findings | one design more, without EIO |
| `payload` | the engine and the analyzer on every kind of token and header | one or two of thirteen tokens, sizes in the header right or one off, words of 1, 2, 3 bytes, output of 3 or 5 |
| `round_trip` | the compressor, and what it packs read back | every string of up to seven bytes over zero, high and one other value, and of eight bytes over zero and the other, with and without followup bytes, words of 2, output of 3 |
| `bitstream` | what is packed is read back, joined or not; what is damaged is noticed; the assertions on the way | one BOP of seven action lists or two short ones, four combinations of compression, encryption and signature, a second file with one of three keys, every single damage, read with no key, the right one or two wrong ones |
| `objects` | what is written is in the file, who can read it, and what a damaged file does | seven sets of rules, five of them versions of one (a member added, moved, no longer mandatory, retyped, lost); two rows, values of at most one element, at most two children in a list |
| `ubi` | the chain through the container, and the walk of a reader | one or two of about a hundred files: new format right and wrong, old format with one to three BOPs, cut short, with wrong offsets, CRCs, identifiers; a count of at most four |
| `ubi_crc` | see Findings | the same files |
| `assembly` | every bit of the texts arrives, and the generator asserts nothing | bytes of two bits, words of four, RAMs of two words with four user and two parity bits; FCB lines of one to three bits (and five), one to three lines, ICBs of one to five bits, up to two RAMs; texts with every line wrong, missing, doubled or misplaced; two runs |

Two instances are enough for the loop over instances to continue and to stop; two channels for
clearing more than is programmed, for order and for replacement. `Modulus` is 2^16 in the runs, larger
than every bit position in them, so a wrap-around happens only where the request asks for it: the
request [65535:0] of runs `chained` and `separate`, which is accepted, edited and moved like any other,
and fails the assertion of `configure_channel` in a start.
Words of two bits are enough in `eio` for signals within a word, at its end and across two.
Deadlock is not checked in the debugger and EIO runs because `SamplingDone` and the user may simply
stop: there is nothing the process waits for. Nor is it in `objects`, where the program that reads ends. In
`ubi` the command runs to its end and a step of the instance stands for having ended there.

In `round_trip` the search limits are scaled down with the data (chunks from 2 to 3 bytes, runs of 6
left alone), so that strings of seven and eight bytes reach every branch: a repeated chunk of each pattern, a
run before and behind another byte, a run too long for the search, packed bytes that end at a pair or
at the end of the data. In `payload` the words and outputs are smaller than a token, so each token is
cut at every byte, on either side and on both at once; `T(VAR_ZERO, 1, <<5>>, Base + 1)` has a repeat
count of two bytes. Deadlock is checked in both.

In `bitstream` a block has 8 words, the header room for 6 words of actions and hashes have 2 or 3 words,
so that a hash block holds four hashes, or two and an unused rest: chains of one to three hash blocks,
a last block behind a full hash block, and a header alone all occur. The action lists reach every
combination of flags the packer can set, action blocks in front of and behind payloads, payloads of
less than a block, exactly a block and several, compressed to fewer blocks, to as many and to more. The
part of the vector that is counted up takes two values, so it wraps.

In `objects` two children are enough for the first and the last of a list to differ, and the rules nest a
list in a list, a list in a class and a class in the top. In `ubi` a 2K block has three cells instead
of 32, so that files on both sides of that length occur; `CountLimit` is 5 instead of 256, and two files of
three BOPs exceed it. In `assembly` three bits need two bytes and five two words, and four bits need no
padding, for lines and ICBs; three word lines, in either direction and in both orders of bits, are
enough for one to be left out, repeated or out of turn. One part of a project is varied at a time,
since the parts meet only in the list of actions.

Properties of `OclaDebugger`: `TriggerLimit`, `RangeInsideSignal` (but for ranges that end at bit 4294967295,
which the code lets through; the property names them), `ChannelExists` (what was accepted can
be programmed), `NeverStuck`,
`UnverifiedUntouched`, `StartArms` (the device), `WaitedWaveform`, `WaveformIsCapture` (the samples),
`CommandEnds` (liveness), `Refines`. Each is stated in the module with the code it is about. Every
one is violated by at least one mutant of a mapped definition.

Properties of debug information and EIO. `SessionIsSound` (domains, instances and probes are numbered as
all commands look them up: what the assumptions of `OclaDebugger` say of a design),
`SignalsTakeEachBitOnce` (probes and signals cut an instance without overlap or gap),
`OnlyNamedOutputsChange` (an action property: no step changes an output its command does not name),
`SetIsDone` (a `set_io` that is content did what was asked), `GetReportsInputs` (inputs that stand still
are what is reported; nothing is said of inputs that move between two words, the code cannot notice),
`IoCommandEnds` (liveness).

Properties of the compression. Of the compressor: `TokensExpandToInput` (lossless at every turn).
Of the engine and the analyzer: `DeliversPayloadInOrder` (what has come out is the beginning of the
payload, however the stream is cut), `VerdictIsRight` (success if and only if the payload was written
whole, also when the header is wrong), `PayloadEnds`, `RoundTripEnds` (liveness: no
assertion fails on the way, and what was packed is what is written).

Properties of the bitstream. `HashesFit`, `ActionsFit` (what is written fits where it is written),
`EveryBlockIsVouchedFor` (the finished chain reaches every block),
`ExecutesWhatWasPacked` (the actions found right are a beginning of those packed, with their payloads),
`BitstreamIsReadBack` (an intact file is read to its end, and no assertion of packer, analyzer
and `combine_bitstreams` fails), `DamageIsNoticed`, `ParsingEnds` (liveness).

Properties of the container. `ChainLeadsOn` (each old BOP has its CRC right and leads to another, to a
file or to the end, at every step of the packaging) and `ContainerIsWalked` (a reader that walks the
container by sizes and offsets meets as many BOPs as the header counts, and the FSBL ends where the header
says).

Properties of the objects. `WrittenIsReached` (what is written is marked, up to the top, so that the file
has it), `AcceptedMeansEqual` (whatever happened to the file and whoever reads it, what is accepted is
what was written) and `FilesStayReadable` (programs whose rules extend those of the writer read the
file; the exceptions are named in the property).

Properties of assembler and generator, told from the texts alone and from the final .cfgbit file:
`FcbBitsArrive`, `IcbBitsArrive` and `RamBitsArrive` (each bit in its place and no other set;
each word line once), `GeneratorTakesIt` (the generator refuses nothing the assembler accepted but a family
it does not know).

Fairness. `CommandEnds` assumes weak fairness of `StartStep`: the command runs on one thread that
never waits for another, and each of its steps is a call that returns or throws. Nothing is assumed of
the FPGA (it may never trigger), of failures or of the user. `IoCommandEnds` assumes the same of
`CommandStep`. `PayloadEnds`, `RoundTripEnds` and `ParsingEnds` assume
that the packer and the analyzer, both sequential programs, go on as long as they can.

## 5. The theorems

All hold for every design, set of boards, request and option that satisfies the named assumptions
of `OclaDebugger` (`ConstantTypes`, `ProbeInOneInstance`, `InstanceInOneDomain`, `SignalInDomain`),
which TLC evaluates on each run. The parser establishes them, as `SessionIsSound` checks, except that
probes are numbered once, which it takes from yosys without a check.

* `TypeCorrect`: `Spec => []TypeOK`, and `RunCorrect`: `Spec => []RunOK`. The type of `run` and of the
  register array needs `RunOK`: that the trigger list is not empty, the board verified and the
  cursor inside the domain is what keeps channel and instance indices in range. So the two are
  proved together: `IInv == TypeOK /\ RunOK` is inductive, with a lemma per group of actions.
* `OnlyVerifiedDevices`: `UnverifiedUntouched`. Each device write happens under `RunOK`, which says
  that the device of the running command passed `verify`.
* `NeverWaitsForEver`: `NeverStuck`. `configure` writes FNS = 1 whenever NS # 0; the only other
  contents are those after reset. It needs that the sample size fits NS, which `Configure` ensures by
  comparing it with a 15-bit memory depth.
* `StartBeginsAcquisition`: `StartArms`, with the strengthening `ArmReady`: at `pc = "arm"` the bit ST
  is 0.
* `TriggersStayWithinLimit`: `TriggerLimit`, with the strengthening `TriggersProbe` (a trigger's
  instance is the one of its probe), without which an edit that keeps the probe could still move a
  trigger to another instance. Rests on three counting lemmas about appending, replacing and
  removing in a sequence.
* `RangesStayInSignal`: `RangeInsideSignal`, for all command lines. A request whose last bit is below
  `Modulus - 1` wraps nowhere, so the check compares what it should; one whose last bit is `Modulus - 1`
  has a sum of 0 and is the exception in the property.
* `DebuggerRefinesAcquisition`: `Refines`, that is, every step of `OclaDebugger` is a step of
  `OclaAcquisition` or none. `RInv` follows a start command through the registers (`ProgramOK`): what an
  instance that has been passed holds decodes to the session's configuration and to the triggers in their
  channels, the channels of the one at hand are cleared or programmed up to the cursor, and channels
  the hardware lacks keep what reset gave them. `ConfigFits` and `TriggerFits` say that what the session
  accepted survives the fields it is packed into (`configure` and `get_config` are inverse there). So
  when ST rises, the decoded registers are the abstract `setup`. The widths are the assumption
  `FieldsFit` of `OclaRefinement`: a signal's bit position and a compare width fit their fields, which neither the
  parser nor `verify` checks.
* `WaveformIsComplete`: `WaitedWaveform`, and `WaveformShowsCapture`: `WaveformIsCapture`. `WInv` adds that
  the mode register of a core is the one its acquisition was started with, unless a start is under way or was
  cut short since (`ModesMatch`), and that a command that waits does so on its own acquisition (`Waiting`).
* `ChannelsSuffice`: `ChannelExists`, under the hypothesis that boards that pass `verify` agree on the number
  of channels of an instance, which `verify` does not compare (Observations). The triggers of an instance
  that were written before are as many as the cursor says, so `TriggerLimit` bounds it.

About EIO, for every design, board, command line and register width that satisfy `WordsAssumption`,
`DesignAssumption` (fields have the type the assembler asked for) and `RequestAssumption`:

* `OnlyNamedOutputsMove`: `OnlyNamedOutputsChange`. Since whole registers are written back, the claim is
  about what was read before. `EioInv` follows it through a command: the copy of the control register
  is true (`CopyIsTrue`), what was read so far are outputs and not inputs (`OutputsRead`), and what is
  still to be written differs from the outputs in named signals only (`OthersKept`); a failure at any
  point leaves that true.
* `SetIoIsTrue`: `SetIsDone`, and `GetIoIsTrue`: `GetReportsInputs`. `IoInv` adds that the signals of a
  probe lie inside its width and do not overlap (`ProbesSound`), so that the last of two entries for one
  signal wins and no entry undoes another; that the words a command moves reach every signal it names
  (`WordsReach`); and what has been read back (`OutputsTold`) or read while the inputs stood still
  (`InputsRead`).
* `SessionsAreSound`: `SessionIsSound`, for `AddInstance` folded over any list of instances.
* `InstancesAreCut`: `SignalsTakeEachBitOnce`, under the hypothesis that the probes of each instance tile it
  (`ProbesTile`). `parse_ocla` only adds up their widths, and without the hypothesis the property is false: a
  signal in the gap between two probes is in neither (hazard `O/OclaDebugSession.cpp:294`). The designs of the run
  satisfy it. The loop over the probes of an instance keeps that each bit below the end of the probes so
  far is in one signal of one of them; putting an instance into a domain, putting the AXI domains off and
  appending them move probes together with their instances (`JoinIs`, `Gathered`).
* `EioProbesAreCut`: the half of it about EIO probes, which needs no hypothesis.

The theorems about the compressor hold for every set of inputs over bytes up to any `High` and for
every value of the search limits that satisfies `CompressConstants`:

* `CompressTypeCorrect`: `CompressTypeOK`, that is, tokens are well formed and the loop never leaves
  the data.
* `CompressionIsLossless`: `TokensExpandToInput`. The two together are inductive, as a token's
  expansion is compared with the bytes between two positions. Each kind of token has a lemma that it
  expands to the bytes it was made from (`RunTokenExpands`, `FollowedTokenExpands`,
  `RawTokenExpands`, `VarRunTokenExpands`, `RepeatTokenExpands`). The hard one is the repeated
  chunk: `ChunkPattern` shows that a chunk in which all bytes but one are alike gets a pattern that
  puts the odd byte at the right end, although the code looks for it at the first byte of the *next*
  chunk, and `Divide` and `ExpandRepeated` that `r` equal chunks behind the first are the same as one
  chunk repeated.

About the engine and the analyzer that feeds it, for every list of well-formed tokens, every identifier of
the right length, every header with at least one of its two sizes right (`Opens`), and every size of word,
block, number and output that satisfies `StreamConstants` and `PayloadConstants`:

* `DeliveredInOrder`: `DeliversPayloadInOrder`, and `VerdictOfAnyStream`: `VerdictIsRight`. `AnySpec` is the
  analyzer, opening one such stream after another. `PayloadInv` is built in three layers:
  * Numbers. What is written digit by digit is read back (`Written`, `ReadIs`), and no proper beginning of
    a number is a number, so that it may be cut at any byte.
  * `Script` says where in the stream and where in the data each token begins (`ScriptExists`), and `Place`
    where the engine is between two turns: which token, which of its repeats, how many of its bytes have
    been read and written, and what the fields of the class hold there. `TurnKeeps` has a lemma per handler
    that leads from one place to the next; the room in the output is never overrun, and no assertion at the
    top of `process` fails while the engine is at a place.
  * The analyzer: `During` a call, `Between` two, `Ended` behind the last word. What has been delivered is
    the data up to the place; a call that wants more input has used up all it was given (`NothingWanted`), so
    words, blocks and calls may cut the stream anywhere; and the last block holds the last byte
    (`LastBlockIs`).
* `PackedIsReadBack`: for every payload, with the compressor in front (`Spec` of `CompressedPayload`), both
  again, and that at the end what is written and what remains is the payload (`RoundTrip`, the
  safety half of `RoundTripEnds`). This needs `SameLimit` and `SearchLimits`: the engine refuses a chunk to be
  repeated that is longer than `m_none_data`, which `compress` does not look at. `LengthFits` shows that it
  need not: a chunk grows beyond the searched lengths only inside a run of one byte, and of those the
  longer ones are left to `compress_none_repeat`. With it every token is one the engine takes
  (`CompressKeepsRight`, `HandOpens`).

The theorems about the packer hold for all BOPs, options, sizes of blocks and of hashes that satisfy
`BlockConstants` (a block holds at least two hashes, the header the version and the number of actions)
and `PackerConstants`:

* `ActionsAlwaysFit`: `ActionsFit`, and `HashesAlwaysFit`: `HashesFit`. Inductive together in `PackerIInv`:
  the header, whose hashes are empty until the actions are done, has a place for exactly one hash, so
  it gets one only from the last block or from the first hash block; from then on the place for the
  next hash is kept in each hash block. `Written` is the lemma about `update_action`.
* `EveryBlockVouchedFor`: `EveryBlockIsVouchedFor`. `ChainIInv` says that at every step each block behind the
  header is vouched for by one in front of it or waits in `pointers` to be hashed, and that only hash
  blocks that wait, and the header, still change. Hashing the hash blocks from the last to the first
  therefore never breaks a hash that has been taken; when none waits, the chain is complete.

About the container, for any number of files with any contents that satisfy `UbiFiles`:

* `ChainIsLinked`: `ChainLeadsOn`. `IInv` adds where things lie: each BOP that was counted is in the
  container or in the part of the file that has been passed (`HeadRight`), so that neither the rewriting of
  the next header nor putting the file behind the container touches it; files begin inside the container
  or at its end; and while a file is read the place in it stays inside the file unless a BOP was longer than
  its file (`StartsRight`). An offset then leads to the place that is read next, which is a BOP once it has
  been counted, or to the end of the file, where the next one begins.
* `ContainerWalks`: `ContainerIsWalked`. `WInv`, on top of `IInv`, has a path: `package_count` places, from
  behind the header to the end of what is written, each leading to the next by its size or offset
  (`Leads`). A file of the new format adds as many as `parse` has counted (`ParseWalks`), one of the old format
  a place per step of `parse_old_bop`. A BOP with offset 0 leads to the end, so it must stay the last;
  that is why `WInv` ties it to the last file. `WalkCounts` then shows that a reader who goes along such a
  path counts its places.

About the objects, for all rules, values and bounds:

* `NothingWrittenIsLost`: `WrittenIsReached`. `update_exist` stops at a member that is marked already. It
  may: with `updating` holding at most one member, a marked member has all its holders marked or
  the next of them under way, so the obligation either moves up one level or is met.

With `ProgramsAssumption` (every set of rules `IsProgram`, `MaxChildren` a number), for any number of rules,
nested to any depth:

* `AcceptedIsEqual`: `AcceptedMeansEqual`, and `FilesAreReadable`: `FilesStayReadable`. One invariant, `FInv`,
  follows the object from the program that writes it to the program that reads it:
  * `OInv`: the marks are exactly those that `update_exist` owes to the written members (`IsMarked`,
    `MarksAreComplete`). With `BuildInv`, that writes go to members there are (`Sound`), the walk of
    `serialize` comes to exactly the objects that are reached from the top (`FilledIsReached`).
  * `FileInv`: the tokens are a run of a reader that knows the object it reads (`ReaderStep`, `Run`), which
    passes each kept member once. This is where `serialize` is taken apart: its recursive function exists,
    objects deepest first (`BytesExist`), and children, members and rules are runs that join (`ChildrenRun`,
    `MemberRun`, `ObjectRun`, `SerializeRuns`). The count in the header is the number of kept members
    (`CountIs`). Damage leaves the CRC alone, so a file whose CRC holds is still such a run.
  * `ReadInv`: the real reader, under whatever rules, is at a place of that run (`ReadTo`): its frames are the
    steps of the path there, `parsed` counts the members that were passed and are not open, and the
    object it fills has of the passed members what was written, and nothing else (`Fills`). At the end of
    the data nothing is open, so all has been read and the counts agree.

  Each assertion of the reader compares a token with the rules. `AssertedHolds` shows, for each, that it
  holds at this place of the run or that one of the excuses in `FilesStayReadable` applies; `CheckHolds` that a
  program which extends the rules misses no mandatory member.

About assembler and generator, for all projects, any number of runs and all sizes that satisfy
`GeminiConstants` (words are whole bytes, user bits whole words, both halves of a RAM alike) and
`AssemblerConstants`:

* `AssembledIsGenerated`: `GeneratorTakesIt`. `IInv` follows the data through the texts: the lines taken so
  far have `data_line` times the padded width (`LinesTaken`), each part keeps the sizes its end checked
  (`PartsHold`), and what the generator reads is the object that was assembled. The lemmas on `align` show that
  padding to bytes, then to words, gives payloads of whole words (`LinesOfWords`, `PcbPayloadLength`).
* `FcbBitsAlwaysArrive`, `IcbBitsAlwaysArrive`, `RamBitsAlwaysArrive`: `FcbBitsArrive`, `IcbBitsArrive`,
  `RamBitsArrive`. `TInv` says how much of each text is in its object so far: the characters of the lines read,
  in the order of their word lines and bits, and each word line once. Lemmas on positions take it
  through the generator: which bit of the payload a bit of a padded line, of the ICB behind its padding
  or of a half of a RAM becomes, and that all others are 0.

Where a definition goes through data (a fold over a list, the walk from header to header) the proofs do not
use an induction theorem of the library, which takes an operator. `Induction` states it for a set of
numbers, from the well-foundedness of `<`; a fold is shown to be a table of running results, a walk a
table filled from its end (`TableExists`), and the induction is on the places of the table.

Only model-checked:

* `CommandEnds`, `IoCommandEnds`, `PayloadEnds`, `RoundTripEnds`, `ParsingEnds`: liveness, as ENABLED, is out of
  the prover's reach;
* `ExecutesWhatWasPacked`, `BitstreamIsReadBack`, `DamageIsNoticed`: the analyzer as the inverse of the packer.

## 6. Findings

* **A design without EIO cannot be debugged** (`eio_disabled`). With `EIO_Enable` 0 the assembler demands
  an empty `eio` object (`A/BitAssembler_ocla.cpp:347-352`) and writes it to the file; the parser,
  meant to do without EIO (`O/OclaDebugSession.cpp:60-75`), finds the key, asks the empty object for its
  address and throws, so `load` ends in a failed assertion.
* **A wrong CRC is repaired instead of reported** (`ubi_crc`). `parse_old_bop` refuses a BOP whose CRC is
  wrong (`B/BitGen_ubi.cpp:60-66`), but the last BOP of every file but the last gets a new offset and a new
  CRC first (`:55-59`), so that a damaged header is packaged with a right CRC.

### Observations

Met while modelling. The models do what the code does in each of these; no run is kept for them, because
no line of the repository says otherwise or because the case is outside what a property above claims.

* A session can be started on a board with too few trigger channels: `add_trigger` compares with the
  channels of the device it is given, `start` may be given another one, and `verify` does not compare channel
  counts; the assertion at `O/OclaIP.cpp:81` then fails half way through programming. `ChannelExists` is
  claimed for boards with equal cores.
* A bit range up to bit 4294967295 wraps: `pos + width` becomes 0, so the range check of `add_trigger` and
  `edit_trigger` passes on every signal (`O/Ocla.cpp:154`, `:271`). From bit 0 the width itself becomes 0, and
  a comparison with that range fails the assertion at `O/OclaIP.cpp:99` in `start`; from another bit the
  trigger observes a bit that is not of the signal. `RangeInsideSignal` excepts these ranges and no others;
  the requests of runs `chained` and `separate` include one, with `Modulus` 2^16.
* The trigger type `disable` of the help text (`C/CFGArgRS.json:779`) has no entry in the event check
  (`O/OclaHelpers.cpp:39-53`).
* An EIO probe wider than 64 bits is loaded, and every command on it fails the assertion at `O/EioIP.cpp:66`.
* `get_identifier` sets the error state and a message for a wrong identifier; the next turn of `process`
  asserts at `B/BitGen_decompress_engine.cpp:83` that fewer bytes were written than the payload has, 0 < 0,
  before it looks at the state.
* At a BOP that is not encrypted, or whose key has another size, `challenge` drops the AES key
  (`B/BitGen_analyzer.cpp:614`, `:622`); a later BOP that it could decrypt is reported as having none.
* The comment at `B/BitGen_packer.cpp:102` says that the JTAG mask goes to bytes 0x47:0x44, where the analyzer
  reads it; the code writes to 0x40, over the ID. `B/BitGen_json.cpp:155` asks for `jtag_mask` before it
  reads `jtag_id`.
* The fields of an action take as many low bits of a number as they have and say nothing of those that
  are cut (`B/BitGen_json.cpp:355-370`).
* A file of the old format that is shorter than 2K has a CRC computed behind its data
  (`B/BitGen_ubi.cpp:104`), and a BOP longer than its file ends the loop over BOPs unnoticed.
* The dump of an object asserts `list` where the type is `strs` (`F/CFGObject_parse.cpp:134`), so no file with
  such a member can be dumped. A list of numbers with no element, and a child without members, are
  written and cannot be read.
* The result of the generator is not looked at (`A/BitAssembler.cpp:98`): a new .bitasm file may lie beside
  an old .cfgbit file.

## 7. Not modelled

The waveform file, the text of openocd scripts, listing commands and the command-line parser are
formatting and input/output. Of cryptography only what a bitstream needs is modelled, as constructors;
the rest wraps OpenSSL and files of keys. The device databases (`A/BitAssembler_ddb00.cpp`) are generated
tables, read through queries whose answers (protocol, bit and word line scheme, sizes of RAMs) are
part of a project here; `get_one_region_ccff_fcb` is called by nothing. The `mask` of a memory bank is
written to the .bitasm file and never read by the generator. The JSON reader of the generator, with
its tables of fields and widths, is left out: the actions of `BitGenPacker` are what it makes of a
document, those of `BitGenGemini` what the device generator makes. The
compiler driver writes scripts for external tools and looks at their exit codes; what it leaves behind is the
input of `BitAssembler`. The common helpers are modelled where they are used, and the main program opens a
window or a command line.

No property speaks of two things the parser leaves open: `probe_info` offsets that
overlap or leave gaps (it compares sums of widths only), and the two signals `data[0]` and `data[1]` of
an EIO probe, which share the name `data`, so that by name only the first can be reached.
