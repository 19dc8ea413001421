------------------------------ MODULE OclaEio ------------------------------
(***************************************************************************)
(* The embedded IO core (EIO) behind `debugger set_io` and `get_io`        *)
(* (Ocla.cpp, EioIP.cpp), in a session loaded from the file the assembler   *)
(* wrote (module OclaDesign).                                               *)
(*                                                                         *)
(* One address of the core is written to set the outputs and read for the   *)
(* inputs or, if bit PRS of its control register says so, for the outputs.  *)
(* Each transfer is an openocd process that may fail; it is a step.  The    *)
(* words of one read come one after the other while the design under test   *)
(* goes on changing its inputs.  A register is the set of its bits that     *)
(* are 1, over all words.                                                   *)
(***************************************************************************)
EXTENDS OclaDesign, FiniteSetsExt

CONSTANTS
  Device,        \* FPGAs a command can select
  Design,        \* debug information yosys may report
  Cores,         \* [Device -> set of OCLA instances that answer]
  EioFound,      \* [Device -> BOOLEAN]: an EIO core answers
  Inputs,        \* values the inputs of the core can take: sets of bits
  SetRequest,    \* set_io command lines: sequences of entries with a value
  GetRequest,    \* get_io command lines: sequences of entries
  WordBits,      \* 32 in the code: bits of a register
  MaxWords,      \* MAX_IO_INPUT_REG and MAX_IO_OUTPUT_REG, 2 in the code
  MaxLoop        \* bound on the number of reads of a get_io

ASSUME WordsAssumption == WordBits \in Nat \ {0} /\ MaxWords \in Nat \ {0}
ASSUME DesignAssumption == \A json \in Design : IsDesign(json)

(* What a command line says of one signal.  There is at least one: the      *)
(* number of arguments in CFGArgRS.json:952 and :999.                       *)
Entry ==
  [ by_idx : BOOLEAN, idx : Nat, name : STRING, has_value : BOOLEAN,
    value : SUBSET Nat ]
ASSUME RequestAssumption == SetRequest \cup GetRequest \subseteq Seq(Entry) \ {<<>>}
ASSUME LoopAssumption == MaxLoop \in Nat \ {0}

VARIABLES
  file,     \* the ocla field of the .bitasm file, NoFile when it is empty
  session,  \* Ocla::m_sessions: the one session or NoSession
  io,       \* [Device -> [prs, inputs, outputs]]: the cores
  pc, cmd,  \* the command under way and its locals
  out,      \* what the last command told the user
  steady    \* no input has changed since the last command began (history)

vars == <<file, session, io, pc, cmd, out, steady>>

AllBits == 0 .. WordBits * MaxWords - 1
Word(w) == w * WordBits .. (w + 1) * WordBits - 1

NoFile == [kind |-> "empty"]
NoSession == [kind |-> "none"]
Quiet == [kind |-> "quiet"]
NoCommand == [kind |-> "none"]

-----------------------------------------------------------------------------
(* Ocla::get_session, get_eio_hier_objects and find_eio_signals.            *)

Loaded == session # NoSession

(* The first probe with number 1 and the type; Probes are the places of all.*)
Probes(type) ==
  IF Loaded /\ session.has_eio
    THEN {k \in 1 .. Len(session.eio) :
            session.eio[k].idx = 1 /\ session.eio[k].type = type}
    ELSE {}
Probe(type) == session.eio[Min(Probes(type))]

(* An entry names a signal by its number or by its name; of two signals     *)
(* with one name the first is meant.                                        *)
Matches(s, e) == IF e.by_idx THEN s.idx = e.idx ELSE s.name = e.name

Candidates(list, e) == {k \in 1 .. Len(list) : Matches(list[k], e)}

AllFound(list, entries) ==
  \A n \in 1 .. Len(entries) : Candidates(list, entries[n]) # {}

find_eio_signals(list, entries) ==
  [n \in 1 .. Len(entries) |-> list[Min(Candidates(list, entries[n]))]]

(* Ocla::parse_eio_signal_list: "name=value" and "#number=value".           *)
parse_eio_signal_list(req) == \A n \in 1 .. Len(req) : req[n].has_value

(* Ocla::verify.                                                            *)
verify(d) ==
  /\ \A k \in 1 .. Len(session.domains) :
       Range(session.domains[k].instances) \subseteq Cores[d]
  /\ session.has_eio => EioFound[d]

(* EioInstance::get_num_words, for the one output probe.                    *)
get_num_words(probe) == ((probe.probe_width - 1) \div WordBits) + 1

(* Mutant: the last signal's end instead of the highest one.                *)
WordsToLast(sigs) ==
  LET s == sigs[Len(sigs)] IN ((s.bitpos + s.bitwidth - 1) \div WordBits) + 1

(* Words up to the highest bit of the signals asked for.                    *)
WordsToMsb(sigs) ==
  (Max({s.bitpos + s.bitwidth - 1 : s \in Range(sigs)}) \div WordBits) + 1

(* CFG_copy_bits_vec32 of a value, a set of its bits, to a signal's place   *)
(* and back.                                                                *)
Placed(value, s) == {s.bitpos + b : b \in value \cap (0 .. s.bitwidth - 1)}
Extract(data, s) == {b - s.bitpos : b \in data \cap BitsOf(s)}

-----------------------------------------------------------------------------
Init ==
  /\ file = NoFile
  /\ session = NoSession
  /\ io \in [Device -> [prs : {"in"}, inputs : Inputs, outputs : {{}}]]
  /\ pc = "idle"
  /\ cmd = NoCommand
  /\ out = Quiet
  /\ steady = FALSE

Idle == pc = "idle" /\ UNCHANGED <<io, pc, cmd, steady>>

(* BitAssembler_OCLA::parse while a bitstream is assembled.                 *)
Assemble(json) ==
  /\ Idle
  /\ file' = IF extract_ocla_info(json)
               THEN [json EXCEPT !.keys = @ \ {"messages"}] ELSE NoFile
  /\ out' = Quiet
  /\ UNCHANGED session

(* debugger load: Ocla::start_session.                                      *)
Load ==
  /\ Idle
  /\ ~Loaded
  /\ IF file = NoFile
       THEN out' = [kind |-> "load_refused"] /\ UNCHANGED session
       ELSE LET result == load(file) IN
            IF result.status = "ok"
              THEN session' = result.session /\ out' = Quiet
              ELSE /\ out' = [kind |-> IF result.status = "thrown" THEN "load_thrown"
                                       ELSE "load_refused"]
                   /\ UNCHANGED session
  /\ UNCHANGED file

(* debugger unload: Ocla::stop_session.                                     *)
Unload ==
  /\ Idle
  /\ Loaded
  /\ session' = NoSession
  /\ out' = Quiet
  /\ UNCHANGED file

-----------------------------------------------------------------------------
(* The head of Ocla::set_io and Ocla::get_io: the checks in the session     *)
(* and, by reading, on the device ...                                       *)
TypeOf(kind) == IF kind = "set" THEN "output" ELSE "input"

Acceptable(kind, d, req) ==
  /\ kind = "set" => parse_eio_signal_list(req)
  /\ Loaded
  /\ Probes(TypeOf(kind)) # {}
  /\ AllFound(Probe(TypeOf(kind)).signal_list, req)
  /\ verify(d)

(* ... then the EioIP object, which copies the control register once.       *)
Begin(kind, d, req, loop) ==
  LET probe == Probe(TypeOf(kind))
      sigs  == find_eio_signals(probe.signal_list, req)
  IN  /\ Acceptable(kind, d, req)
      /\ cmd' = [ kind |-> kind, dev |-> d, req |-> req, sigs |-> sigs,
                  m_ctrl |-> io[d].prs,
                  words |-> IF kind = "set" THEN get_num_words(probe)
                            ELSE WordsToMsb(sigs),
                  word |-> 0, data |-> {}, output |-> {}, loop |-> loop ]
      /\ pc' = "select"
      /\ steady' = TRUE
      /\ out' = Quiet
      /\ UNCHANGED <<file, session, io>>

SetIo(d, req) == pc = "idle" /\ Begin("set", d, req, 1)

GetIo(d, req, loop) == pc = "idle" /\ Begin("get", d, req, loop)

(* Something is wrong in the command line, in the session or on the device. *)
Reject(kind, d, req) ==
  /\ Idle
  /\ ~Acceptable(kind, d, req)
  /\ out' = [kind |-> "rejected"]
  /\ UNCHANGED <<file, session>>

-----------------------------------------------------------------------------
(* EioIP::readback_output_bits and EioIP::read_input_bits.                  *)

Wanted == IF cmd.kind = "set" THEN "out" ELSE "in"

(* Mutant: nothing is selected.                                             *)
SelectNothing ==
  /\ pc = "select"
  /\ cmd.words <= MaxWords
  /\ pc' = "read"
  /\ UNCHANGED <<file, session, io, cmd, out, steady>>

(* PRS is written when the copy of the control register says otherwise.     *)
Select ==
  /\ pc = "select"
  /\ cmd.words <= MaxWords
  /\ IF cmd.m_ctrl = Wanted
       THEN UNCHANGED <<io, cmd>>
       ELSE /\ io' = [io EXCEPT ![cmd.dev].prs = Wanted]
            /\ cmd' = [cmd EXCEPT !.m_ctrl = Wanted]
  /\ pc' = "read"
  /\ UNCHANGED <<file, session, out, steady>>

(* The assertion on the number of words comes first.                        *)
TooManyWords ==
  /\ pc = "select"
  /\ cmd.words > MaxWords
  /\ pc' = "idle" /\ cmd' = NoCommand /\ out' = [kind |-> "assertion"]
  /\ UNCHANGED <<file, session, io, steady>>

(* What a core answers at the address of its data.                          *)
Answer(d) == IF io[d].prs = "in" THEN io[d].inputs ELSE io[d].outputs

ReadWord ==
  /\ pc \in {"read", "confirm"}
  /\ cmd.word < cmd.words
  /\ cmd' = [cmd EXCEPT !.data = @ \cup (Answer(cmd.dev) \cap Word(cmd.word)),
                        !.word = @ + 1]
  /\ UNCHANGED <<file, session, io, pc, out, steady>>

-----------------------------------------------------------------------------
(* The rest of Ocla::set_io.                                                *)

(* Entries of the command line whose signal has a bit.                      *)
Covering(b) == {n \in 1 .. Len(cmd.sigs) : b \in BitsOf(cmd.sigs[n])}

(* Mutant: the first entry that names a signal wins.                        *)
UpdatedByFirst(data) ==
  {b \in AllBits :
     IF Covering(b) = {} THEN b \in data
     ELSE LET n == Min(Covering(b)) IN b \in Placed(cmd.req[n].value, cmd.sigs[n])}

(* The register with the named signals changed: of several entries that     *)
(* name a signal the last one wins.                                         *)
Updated(data) ==
  {b \in AllBits :
     IF Covering(b) = {} THEN b \in data
     ELSE LET n == Max(Covering(b)) IN b \in Placed(cmd.req[n].value, cmd.sigs[n])}

Update ==
  /\ pc = "read" /\ cmd.kind = "set" /\ cmd.word = cmd.words
  /\ cmd' = [cmd EXCEPT !.output = Updated(cmd.data), !.word = 0]
  /\ pc' = "write"
  /\ UNCHANGED <<file, session, io, out, steady>>

(* EioIP::write_output_bits, one transfer.                                  *)
WriteWord ==
  /\ pc = "write" /\ cmd.word < cmd.words
  /\ io' = [io EXCEPT ![cmd.dev].outputs =
              (@ \ Word(cmd.word)) \cup (cmd.output \cap Word(cmd.word))]
  /\ cmd' = [cmd EXCEPT !.word = @ + 1]
  /\ UNCHANGED <<file, session, pc, out, steady>>

(* The second readback_output_bits: its copy of PRS is right already.       *)
Written ==
  /\ pc = "write" /\ cmd.word = cmd.words
  /\ cmd' = [cmd EXCEPT !.word = 0, !.data = {}]
  /\ pc' = "confirm"
  /\ UNCHANGED <<file, session, io, out, steady>>

Confirm ==
  /\ pc = "confirm" /\ cmd.word = cmd.words
  /\ out' = IF cmd.data = cmd.output
              THEN [kind |-> "set", dev |-> cmd.dev, sigs |-> cmd.sigs, req |-> cmd.req]
              ELSE [kind |-> "differs"]
  /\ pc' = "idle" /\ cmd' = NoCommand
  /\ UNCHANGED <<file, session, io, steady>>

-----------------------------------------------------------------------------
(* The rest of Ocla::get_io and its loop in Ocla_entry.                     *)

Values ==
  [ kind |-> "values", dev |-> cmd.dev, sigs |-> cmd.sigs,
    value |-> [n \in 1 .. Len(cmd.sigs) |-> Extract(cmd.data, cmd.sigs[n])] ]

Report ==
  /\ pc = "read" /\ cmd.kind = "get" /\ cmd.word = cmd.words
  /\ out' = Values
  /\ IF cmd.loop > 1 THEN pc' = "again" /\ UNCHANGED cmd
                     ELSE pc' = "idle" /\ cmd' = NoCommand
  /\ UNCHANGED <<file, session, io, steady>>

(* Mutant: the loop does not count.                                         *)
AgainForEver ==
  /\ pc = "again"
  /\ Begin("get", cmd.dev, cmd.req, cmd.loop)

(* After the interval, get_io anew.                                         *)
Again ==
  /\ pc = "again"
  /\ Begin("get", cmd.dev, cmd.req, cmd.loop - 1)

-----------------------------------------------------------------------------
(* An openocd process fails: CFG_ASSERT_MSG throws out of the command and   *)
(* nothing is undone.                                                       *)
JtagFails ==
  /\ pc # "idle"
  /\ pc' = "idle" /\ cmd' = NoCommand /\ out' = [kind |-> "jtag_error"]
  /\ UNCHANGED <<file, session, io, steady>>

(* The design under test drives the inputs.                                 *)
InputsChange(d, v) ==
  /\ v # io[d].inputs
  /\ io' = [io EXCEPT ![d].inputs = v]
  /\ steady' = FALSE
  /\ UNCHANGED <<file, session, pc, cmd, out>>

-----------------------------------------------------------------------------
Command ==
  \/ \E json \in Design : Assemble(json)
  \/ Load
  \/ Unload
  \/ \E d \in Device, req \in SetRequest : SetIo(d, req) \/ Reject("set", d, req)
  \/ \E d \in Device, req \in GetRequest :
       \/ \E loop \in 1 .. MaxLoop : GetIo(d, req, loop)
       \/ Reject("get", d, req)

CommandStep ==
  \/ Select \/ TooManyWords \/ ReadWord
  \/ Update \/ WriteWord \/ Written \/ Confirm
  \/ Report \/ Again

Next ==
  \/ Command
  \/ CommandStep
  \/ JtagFails
  \/ \E d \in Device, v \in Inputs : InputsChange(d, v)

Spec == Init /\ [][Next]_vars

(* The thread of the command goes on: each transfer returns or throws.      *)
FairSpec == Spec /\ WF_vars(CommandStep)

-----------------------------------------------------------------------------
(* Properties.                                                             *)

(* What the analyser's commands take for granted of a loaded session, and   *)
(* what parse_ocla has to provide: domains are numbered by position, an     *)
(* instance is in one domain only, a probe's instance is in its domain and, *)
(* unless the debug information numbers probes twice, a probe number of a   *)
(* domain means one probe.                                                  *)
ProbesNumberedOnce(json) ==
  \A j, k \in 1 .. Len(json.ocla) :
    \A p \in 1 .. Len(json.ocla[j].probe_info),
       q \in 1 .. Len(json.ocla[k].probe_info) :
      json.ocla[j].probe_info[p].index = json.ocla[k].probe_info[q].index =>
        j = k /\ p = q

SessionIsSound ==
  Loaded =>
    LET ds == session.domains IN
    /\ \A m \in 1 .. Len(ds) : ds[m].index = m
    /\ \A m, n \in 1 .. Len(ds) :
         \A j \in 1 .. Len(ds[m].instances), k \in 1 .. Len(ds[n].instances) :
           ds[m].instances[j].index = ds[n].instances[k].index => m = n /\ j = k
    /\ \A m \in 1 .. Len(ds) : \A p \in 1 .. Len(ds[m].probes) :
         \E k \in 1 .. Len(ds[m].instances) :
           ds[m].instances[k].index = ds[m].probes[p].inst
    /\ (\A json \in Design : ProbesNumberedOnce(json)) =>
         \A m \in 1 .. Len(ds) : \A p, q \in 1 .. Len(ds[m].probes) :
           ds[m].probes[p].index = ds[m].probes[q].index => p = q

(* The waveform of an instance is cut into signals by their positions: the  *)
(* signals found in the probes of an instance take each of its bits once,   *)
(* as the three width checks of parse_ocla are meant to ensure; and so do   *)
(* the signals of an EIO probe.                                             *)
TakesOnce(sigs, width) ==
  \A b \in 0 .. width - 1 :
    Cardinality({k \in 1 .. Len(sigs) : b \in BitsOf(sigs[k])}) = 1

SignalsOf(dom, inst) ==
  FlattenSeq([p \in 1 .. Len(dom.probes) |->
                IF dom.probes[p].inst = inst THEN dom.probes[p].signals ELSE <<>>])

SignalsTakeEachBitOnce ==
  Loaded =>
    /\ \A m \in 1 .. Len(session.domains) :
         \A i \in Range(session.domains[m].instances) :
           TakesOnce(SignalsOf(session.domains[m], i.index), i.width)
    /\ \A p \in Range(session.eio) : TakesOnce(p.signal_list, p.probe_width)

(* set_io reads the whole register, changes the named signals and writes    *)
(* it back: whatever fails on the way, whichever of the two registers was    *)
(* selected by earlier commands, no other output moves.                     *)
Differing(a, b) == (a \ b) \cup (b \ a)

OnlyNamedOutputsChange ==
  [][ \A d \in Device :
        LET changed == Differing(io[d].outputs, io'[d].outputs) IN
        changed # {} =>
          /\ pc = "write" /\ d = cmd.dev
          /\ \A b \in changed : \E n \in 1 .. Len(cmd.sigs) : b \in BitsOf(cmd.sigs[n]) ]_vars

(* A set_io that is content has set each signal to the value of the last    *)
(* entry that names it, cut to the signal's width.                          *)
LastFor(n, sigs) == \A k \in n + 1 .. Len(sigs) : sigs[k] # sigs[n]

SetIsDone ==
  out.kind = "set" =>
    \A n \in 1 .. Len(out.sigs) :
      LastFor(n, out.sigs) =>
        io[out.dev].outputs \cap BitsOf(out.sigs[n])
          = Placed(out.req[n].value, out.sigs[n])

(* Inputs that do not move during a get_io are the values it reports,       *)
(* whichever register an earlier set_io, complete or cut short, left        *)
(* selected.                                                                *)
GetReportsInputs ==
  out.kind = "values" /\ steady =>
    \A n \in 1 .. Len(out.sigs) :
      out.value[n] = Extract(io[out.dev].inputs, out.sigs[n])

(* Every set_io and get_io ends.                                            *)
IoCommandEnds == pc # "idle" ~> pc = "idle"

(* Ocla never sees a design that the assembler let pass as valid and the     *)
(* parser throws on: OclaDebugSession.cpp:60-72 accepts debug information    *)
(* without EIO, and BitAssembler_ocla.cpp:344-353 a design that has none.    *)
AssembledDesignLoads == out.kind # "load_thrown"
=============================================================================
