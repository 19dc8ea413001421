---------------------------- MODULE OclaDebugger ----------------------------
(***************************************************************************)
(* The `debugger` command: one debug session held by the process           *)
(* (Ocla.cpp, OclaDomain.cpp), the OCLA instances of the FPGAs it reaches   *)
(* through JTAG (OclaIP.cpp, OclaOpenocdAdapter.cpp) and the start command   *)
(* that programs them register by register, waits for samples and           *)
(* downloads the waveform (Ocla_entry.cpp).                                 *)
(*                                                                         *)
(* Every command names the device it talks to (-b, -d), so two commands of *)
(* one session may talk to different FPGAs.  Commands that only read the   *)
(* device and then change the session are one step: an exception thrown by *)
(* a JTAG read before the change leaves everything as it was.  `start` is  *)
(* one step per register write, because each write is an openocd process   *)
(* of its own that may fail, and the FPGA samples meanwhile.               *)
(***************************************************************************)
EXTENDS OclaIP, Sequences, FiniteSets, Integers

CONSTANTS
  Device,        \* FPGAs a command can select
  Domain,        \* clock domains of the loaded user design
  Instance,      \* OCLA instances of the loaded user design
  InstancesOf,   \* [Domain -> Seq(Instance)], in the order of the debug info
  DebugInfo,     \* [Instance -> [id, depth]], what the debug info claims
  Hardware,      \* [Device -> [Instance -> [id, depth, tc, mcvs]]], the truth
  EioFound,      \* [Device -> BOOLEAN]: the EIO core of the design answers
  Signal,        \* probed signals: domain, probe, name, instance, width, ...
  TriggerRequest, ConfigRequest, \* command lines the user may type
  NChannel,      \* channels of the register file
  Modulus,       \* 2^32 in the code: size of uint32_t
  StartOption,   \* -s (wait for the waveform) and -t (how many polls)
  MaxTimeout     \* bound on -t

(* What TypeOK and the proofs need of the constants.  The ids fold type,   *)
(* version, IP id and number of probes together; parse_ocla gives every    *)
(* instance one domain and every probe one instance.                       *)
ASSUME ConstantTypes ==
  /\ Device # {} /\ Domain # {}
  /\ InstancesOf \in [Domain -> Seq(Instance)]
  /\ \A m \in Domain : Len(InstancesOf[m]) > 0
  /\ \A d \in Device, i \in Instance :
       /\ Hardware[d][i].tc \in 1 .. NChannel
       /\ Hardware[d][i].mcvs \in Nat
       /\ Hardware[d][i].depth \in 0 .. DepthSpan - 1
  /\ \A i \in Instance : DebugInfo[i].depth \in Nat
  /\ EioFound \in [Device -> BOOLEAN]
  /\ Signal \subseteq [dom : Domain, probe : Nat, name : STRING,
                       inst : Instance, bitwidth : Nat \ {0}, bitpos : Nat,
                       constant : BOOLEAN]
  /\ TriggerRequest \subseteq
       [dom : Domain, probe : Nat, name : STRING, ranged : BOOLEAN,
        lo : 0 .. Modulus - 1, hi : 0 .. Modulus - 1, type : TriggerType,
        event : Nat, value : Nat, compare_width : Nat]
  /\ ConfigRequest \subseteq
       [dom : Domain, mode : 0 .. 3, condition : 0 .. 3, sample_size : Nat]
  /\ NChannel \in Nat
  /\ Modulus \in Nat \ {0}
  /\ StartOption \subseteq [wait : BOOLEAN, limit : 0 .. MaxTimeout]
  /\ MaxTimeout \in Nat

ASSUME ProbeInOneInstance ==
  \A s, t \in Signal : s.dom = t.dom /\ s.probe = t.probe => s.inst = t.inst

ASSUME InstanceInOneDomain ==
  \A m, n \in Domain :
    \A j \in 1 .. Len(InstancesOf[m]), k \in 1 .. Len(InstancesOf[n]) :
      InstancesOf[m][j] = InstancesOf[n][k] => m = n /\ j = k

ASSUME SignalInDomain ==
  \A s \in Signal :
    \E k \in 1 .. Len(InstancesOf[s.dom]) : InstancesOf[s.dom][k] = s.inst

VARIABLES
  loaded,    \* Ocla::m_sessions is not empty
  config,    \* OclaDomain::m_config of each domain
  triggers,  \* OclaDomain::m_triggers of each domain
  regs,      \* [Device -> [Instance -> [tmtr, ch]]], registers in the FPGA
  st,        \* [Device -> [Instance -> 0..1]], bit ST of OCCR
  phase,     \* [Device -> [Domain -> acquisition phase]] (DA is "done")
  latched,   \* [Device -> [Instance -> [tmtr, ch]]], registers when it began
  pc, run,   \* the start command under way and its locals
  out,       \* what the last step told the user
  torn       \* domains whose programming was cut short (history)

session  == <<loaded, config, triggers>>
hardware == <<regs, st, phase, latched>>
vars == <<session, hardware, pc, run, out, torn>>

Channel == 0 .. NChannel - 1
Registers == [tmtr : ModeRegister, ch : [Channel -> ChannelRegister]]
ResetRegisters == [tmtr |-> ResetMode, ch |-> [c \in Channel |-> ResetChannel]]
Trigger ==
  [inst : Instance, probe : Nat, name : STRING, ranged : BOOLEAN,
   width : Nat, pos : Nat, cfg : TriggerConfig]

(* Locals of a start command: the device, the domain and the options; the   *)
(* instance k, channel ch, trigger j and register word under way; polls.    *)
RunType ==
  [dev : Device, dom : Domain, wait : BOOLEAN, limit : 0 .. MaxTimeout,
   k : Nat \ {0}, ch : 0 .. NChannel, j : Nat \ {0}, word : 1 .. 3,
   polls : 0 .. MaxTimeout]

DefaultConfig == [mode |-> 0, condition |-> 0, sample_size |-> 0]
NoRun == [dev |-> CHOOSE d \in Device : TRUE, dom |-> CHOOSE m \in Domain : TRUE,
          wait |-> FALSE, limit |-> 0, k |-> 1, ch |-> 0, j |-> 1, word |-> 1,
          polls |-> 0]
Quiet == [kind |-> "quiet"]

-----------------------------------------------------------------------------
(* Reading the device and the session.                                     *)

Members(m) == {InstancesOf[m][k] : k \in 1 .. Len(InstancesOf[m])}

(* Ocla::verify: every instance of every domain and the EIO core.          *)
verify(d) ==
  /\ \A m \in Domain : \A i \in Members(m) :
       /\ Hardware[d][i].id = DebugInfo[i].id
       /\ Hardware[d][i].depth = DebugInfo[i].depth
  /\ EioFound[d]

(* OclaDomain::get_number_of_triggers.                                     *)
get_number_of_triggers(ts, i) == Cardinality({n \in 1 .. Len(ts) : ts[n].inst = i})

(* Ocla::get_hier_objects down to the signal a command names.              *)
Named(r, s) == s.dom = r.dom /\ s.probe = r.probe /\ s.name = r.name

(* bit_end - bit_start + 1 in uint32_t.                                    *)
Width(r) == (r.hi - r.lo + 1) % Modulus

(* Mutants of Acceptable: one bit too many in the range check, no check of  *)
(* the compare width.                                                       *)
AcceptableOffByOne(d, r, s) ==
  /\ r.lo <= r.hi
  /\ verify(d)
  /\ r.event \in EventsOf(r.type)
  /\ ~s.constant
  /\ r.compare_width <= Hardware[d][s.inst].mcvs
  /\ r.ranged => (r.lo + Width(r)) % Modulus <= s.bitwidth + 1

(* The checks add_trigger and edit_trigger share, in front of any change.  *)
Acceptable(d, r, s) ==
  /\ r.lo <= r.hi
  /\ verify(d)
  /\ r.event \in EventsOf(r.type)
  /\ ~s.constant
  /\ r.compare_width <= Hardware[d][s.inst].mcvs
  /\ r.ranged => (r.lo + Width(r)) % Modulus <= s.bitwidth

Lesser(a, b) == IF a < b THEN a ELSE b

(* The trigger they build from the request.                                *)
MakeTrigger(d, r, s) ==
  LET width == IF r.ranged THEN Width(r) ELSE 0
      pos   == IF r.ranged THEN r.lo ELSE 0
      whole == IF r.ranged THEN width ELSE s.bitwidth
  IN  [ inst |-> s.inst, probe |-> r.probe, name |-> s.name,
        ranged |-> r.ranged, width |-> width, pos |-> pos,
        cfg |-> [ type |-> r.type, event |-> r.event, value |-> r.value,
                  compare_width |->
                    IF r.type = VALUE_COMPARE /\ r.compare_width = 0
                      THEN Lesser(whole, Hardware[d][s.inst].mcvs)
                      ELSE r.compare_width,
                  probe_num |-> (s.bitpos + pos) % Modulus ] ]

-----------------------------------------------------------------------------
Init ==
  /\ loaded = FALSE
  /\ config = [m \in Domain |-> DefaultConfig]
  /\ triggers = [m \in Domain |-> <<>>]
  /\ regs = [d \in Device |-> [i \in Instance |-> ResetRegisters]]
  /\ st = [d \in Device |-> [i \in Instance |-> 0]]
  /\ phase = [d \in Device |-> [m \in Domain |-> "none"]]
  /\ latched = [d \in Device |-> [i \in Instance |-> ResetRegisters]]
  /\ pc = "idle"
  /\ run = NoRun
  /\ out = Quiet
  /\ torn = [d \in Device |-> {}]

(* Commands between which the process is idle.                             *)
Idle == pc = "idle" /\ UNCHANGED <<pc, run, torn>>

(* Mutant: the configuration survives the session.                          *)
ForgetTriggers ==
  /\ loaded' = FALSE
  /\ UNCHANGED config
  /\ triggers' = [m \in Domain |-> <<>>]

ForgetSession ==
  /\ loaded' = FALSE
  /\ config' = [m \in Domain |-> DefaultConfig]
  /\ triggers' = [m \in Domain |-> <<>>]

(* debugger load: Ocla::start_session of a file that parses.               *)
Load ==
  /\ Idle
  /\ ~loaded
  /\ loaded' = TRUE
  /\ out' = Quiet
  /\ UNCHANGED <<config, triggers, hardware>>

(* debugger unload: Ocla::stop_session.                                    *)
Unload ==
  /\ Idle
  /\ loaded
  /\ ForgetSession
  /\ out' = Quiet
  /\ UNCHANGED hardware

(* debugger config: Ocla::configure.                                       *)
Configure(d, c) ==
  /\ Idle
  /\ loaded
  /\ verify(d)
  /\ c.sample_size <= DebugInfo[InstancesOf[c.dom][1]].depth
  /\ config' = [config EXCEPT ![c.dom] =
       [mode |-> c.mode, condition |-> c.condition, sample_size |-> c.sample_size]]
  /\ out' = Quiet
  /\ UNCHANGED <<loaded, triggers, hardware>>

(* Mutant: room for one trigger more than the instance has channels.        *)
HasFreeChannelOneMore(d, m, i) ==
  get_number_of_triggers(triggers[m], i) <= Hardware[d][i].tc

HasFreeChannel(d, m, i) ==
  get_number_of_triggers(triggers[m], i) < Hardware[d][i].tc

(* debugger add_trigger: Ocla::add_trigger.                                *)
AddTrigger(d, r) ==
  /\ Idle
  /\ loaded
  /\ \E s \in Signal :
       /\ Named(r, s)
       /\ Acceptable(d, r, s)
       /\ HasFreeChannel(d, r.dom, s.inst)
       /\ triggers' = [triggers EXCEPT ![r.dom] = Append(@, MakeTrigger(d, r, s))]
  /\ out' = Quiet
  /\ UNCHANGED <<loaded, config, hardware>>

(* The type and event check that turns a request down.                     *)
RejectEvent(d, r) ==
  /\ Idle
  /\ loaded
  /\ \E s \in Signal : Named(r, s)
  /\ r.lo <= r.hi
  /\ verify(d)
  /\ r.event \notin EventsOf(r.type)
  /\ out' = [kind |-> "invalid_event", type |-> r.type]
  /\ UNCHANGED <<session, hardware>>

(* Mutant: a trigger moves to another probe without a look at the limit.    *)
EditTriggerNoLimit(d, n, r) ==
  /\ Idle
  /\ loaded
  /\ n \in 1 .. Len(triggers[r.dom])
  /\ \E s \in Signal :
       /\ Named(r, s)
       /\ Acceptable(d, r, s)
       /\ triggers' = [triggers EXCEPT ![r.dom][n] = MakeTrigger(d, r, s)]
  /\ out' = Quiet
  /\ UNCHANGED <<loaded, config, hardware>>

(* debugger edit_trigger: Ocla::edit_trigger; n counts from 1.             *)
EditTrigger(d, n, r) ==
  /\ Idle
  /\ loaded
  /\ n \in 1 .. Len(triggers[r.dom])
  /\ \E s \in Signal :
       /\ Named(r, s)
       /\ Acceptable(d, r, s)
       /\ triggers[r.dom][n].probe # r.probe => HasFreeChannel(d, r.dom, s.inst)
       /\ triggers' = [triggers EXCEPT ![r.dom][n] = MakeTrigger(d, r, s)]
  /\ out' = Quiet
  /\ UNCHANGED <<loaded, config, hardware>>

(* debugger remove_trigger: Ocla::remove_trigger.                          *)
Without(ts, n) ==
  [k \in 1 .. Len(ts) - 1 |-> IF k < n THEN ts[k] ELSE ts[k + 1]]

RemoveTrigger(d, m, n) ==
  /\ Idle
  /\ loaded
  /\ verify(d)
  /\ n \in 1 .. Len(triggers[m])
  /\ triggers' = [triggers EXCEPT ![m] = Without(@, n)]
  /\ out' = Quiet
  /\ UNCHANGED <<loaded, config, hardware>>

-----------------------------------------------------------------------------
(* debugger start: Ocla::start, Ocla::program and OclaIP::start.           *)

Current == InstancesOf[run.dom][run.k]
ThisTrigger == triggers[run.dom][run.j]

(* Mutant: start does not verify.                                           *)
StartUnverified(d, m, o) ==
  /\ pc = "idle"
  /\ loaded
  /\ triggers[m] # <<>>
  /\ pc' = "configure"
  /\ run' = [NoRun EXCEPT !.dev = d, !.dom = m, !.wait = o.wait, !.limit = o.limit]
  /\ out' = Quiet
  /\ UNCHANGED <<session, hardware, torn>>

Start(d, m, o) ==
  /\ pc = "idle"
  /\ loaded
  /\ verify(d)
  /\ triggers[m] # <<>>
  /\ pc' = "configure"
  /\ run' = [NoRun EXCEPT !.dev = d, !.dom = m, !.wait = o.wait, !.limit = o.limit]
  /\ out' = Quiet
  /\ UNCHANGED <<session, hardware, torn>>

(* OclaIP::configure on the instance at hand.                              *)
ProgramMode ==
  /\ pc = "configure"
  /\ regs' = [regs EXCEPT ![run.dev][Current].tmtr = configure(config[run.dom])]
  /\ pc' = "clear"
  /\ UNCHANGED <<session, st, phase, latched, run, out, torn>>

(* One of the three writes of OclaIP::configure_channel.                   *)
Written(reg, word, cfg) ==
  [ tssr |-> IF word = 1 THEN Tssr(reg, cfg) ELSE reg.tssr,
    tcur |-> IF word = 2 THEN Tcur(reg, cfg) ELSE reg.tcur,
    tdcr |-> IF word = 3 THEN Tdcr(reg, cfg) ELSE reg.tdcr ]

WriteChannelWord(cfg) ==
  /\ regs' = [regs EXCEPT ![run.dev][Current].ch[run.ch] =
                Written(@, run.word, cfg)]
  /\ UNCHANGED <<session, st, phase, latched, out, torn>>

(* Mutant: only the first channel is cleared.                               *)
ClearFirstChannel ==
  /\ pc = "clear"
  /\ WriteChannelWord(ClearConfig)
  /\ \/ /\ run.word < 3
        /\ run' = [run EXCEPT !.word = @ + 1]
        /\ UNCHANGED pc
     \/ /\ run.word = 3
        /\ run' = [run EXCEPT !.word = 1, !.ch = 0, !.j = 1]
        /\ pc' = "trigger"

(* Clearing every channel the instance has.                                *)
ClearChannel ==
  /\ pc = "clear"
  /\ WriteChannelWord(ClearConfig)
  /\ \/ /\ run.word < 3
        /\ run' = [run EXCEPT !.word = @ + 1]
        /\ UNCHANGED pc
     \/ /\ run.word = 3
        /\ run.ch + 1 < Hardware[run.dev][Current].tc
        /\ run' = [run EXCEPT !.word = 1, !.ch = @ + 1]
        /\ UNCHANGED pc
     \/ /\ run.word = 3
        /\ run.ch + 1 = Hardware[run.dev][Current].tc
        /\ run' = [run EXCEPT !.word = 1, !.ch = 0, !.j = 1]
        /\ pc' = "trigger"

(* A trigger of another instance is passed over.                           *)
SkipTrigger ==
  /\ pc = "trigger"
  /\ run.j <= Len(triggers[run.dom])
  /\ ThisTrigger.inst # Current
  /\ run' = [run EXCEPT !.j = @ + 1]
  /\ UNCHANGED <<session, hardware, pc, out, torn>>

(* The assertions at the head of configure_channel.                        *)
ChannelAssertion ==
  /\ run.ch < Hardware[run.dev][Current].tc
  /\ CompareWidthFits(ThisTrigger.cfg, Hardware[run.dev][Current].mcvs)

ProgramTrigger ==
  /\ pc = "trigger"
  /\ run.j <= Len(triggers[run.dom])
  /\ ThisTrigger.inst = Current
  /\ ChannelAssertion
  /\ WriteChannelWord(ThisTrigger.cfg)
  /\ run' = IF run.word < 3
              THEN [run EXCEPT !.word = @ + 1]
              ELSE [run EXCEPT !.word = 1, !.ch = @ + 1, !.j = @ + 1]
  /\ UNCHANGED pc

NextInstance ==
  /\ pc = "trigger"
  /\ run.j > Len(triggers[run.dom])
  /\ run.k < Len(InstancesOf[run.dom])
  /\ run' = [run EXCEPT !.k = @ + 1, !.ch = 0, !.j = 1]
  /\ pc' = "configure"
  /\ UNCHANGED <<session, hardware, out, torn>>

(* Programming is over: the dummy write to OCCR ...                        *)
First == InstancesOf[run.dom][1]

(* Mutant: no dummy write.                                                  *)
NoDummyWrite ==
  /\ pc = "trigger"
  /\ run.j > Len(triggers[run.dom])
  /\ run.k = Len(InstancesOf[run.dom])
  /\ pc' = "arm"
  /\ UNCHANGED <<session, hardware, run, out, torn>>

DummyWrite ==
  /\ pc = "trigger"
  /\ run.j > Len(triggers[run.dom])
  /\ run.k = Len(InstancesOf[run.dom])
  /\ st' = [st EXCEPT ![run.dev][First] = 0]
  /\ pc' = "arm"
  /\ UNCHANGED <<session, regs, phase, latched, run, out, torn>>

(* ... and the write of bit ST.  The instances of a domain are daisy       *)
(* chained and start together, on a rising ST of the first one; DA falls.  *)
Arm ==
  /\ pc = "arm"
  /\ st' = [st EXCEPT ![run.dev][First] = 1]
  /\ IF st[run.dev][First] = 0
       THEN /\ phase' = [phase EXCEPT ![run.dev][run.dom] = "sampling"]
            /\ latched' = [latched EXCEPT ![run.dev] =
                 [i \in Instance |-> IF i \in Members(run.dom)
                                       THEN regs[run.dev][i] ELSE @[i]]]
       ELSE UNCHANGED <<phase, latched>>
  /\ torn' = [torn EXCEPT ![run.dev] = @ \ {run.dom}]
  /\ IF run.wait
       THEN pc' = "poll" /\ UNCHANGED <<run, out>>
       ELSE pc' = "idle" /\ run' = NoRun /\ out' = [kind |-> "armed"]
  /\ UNCHANGED <<session, regs>>

-----------------------------------------------------------------------------
(* Ocla_wait_n_show_waveform and Ocla::get_waveform.                       *)

(* Mutant: an acquisition under way passes for a complete one.              *)
DataComing(d, m) == phase[d][m] # "none"

DataAvailable(d, m) == phase[d][m] = "done"

(* Mutants of Poll: one poll too many; a loop that does not count.          *)
PollOnceMore ==
  /\ pc = "poll"
  /\ run.polls <= run.limit
  /\ IF DataAvailable(run.dev, run.dom)
       THEN pc' = "fetch" /\ UNCHANGED run
       ELSE run' = [run EXCEPT !.polls = @ + 1] /\ UNCHANGED pc
  /\ UNCHANGED <<session, hardware, out, torn>>

PollForEver ==
  /\ pc = "poll"
  /\ run.polls < run.limit
  /\ IF DataAvailable(run.dev, run.dom)
       THEN pc' = "fetch" /\ UNCHANGED run
       ELSE UNCHANGED <<pc, run>>
  /\ UNCHANGED <<session, hardware, out, torn>>

Poll ==
  /\ pc = "poll"
  /\ run.polls < run.limit
  /\ IF DataAvailable(run.dev, run.dom)
       THEN pc' = "fetch" /\ UNCHANGED run
       ELSE run' = [run EXCEPT !.polls = @ + 1] /\ UNCHANGED pc
  /\ UNCHANGED <<session, hardware, out, torn>>

Finish(result) == pc' = "idle" /\ run' = NoRun /\ out' = result

GiveUp ==
  /\ pc = "poll"
  /\ run.polls = run.limit
  /\ Finish([kind |-> "timeout"])
  /\ UNCHANGED <<session, hardware, torn>>

(* Mutant: the depth comes from the session.                                *)
WaveformFromSession(d, m, origin) ==
  [ kind |-> "waveform", origin |-> origin, dev |-> d, dom |-> m,
    depth |-> [i \in Members(m) |->
                 IF config[m].sample_size > 0
                   THEN config[m].sample_size ELSE Hardware[d][i].depth] ]

Waveform(d, m, origin) ==
  [ kind |-> "waveform", origin |-> origin, dev |-> d, dom |-> m,
    depth |-> [i \in Members(m) |->
                 Depth(regs[d][i].tmtr, Hardware[d][i].depth)] ]

Fetch ==
  /\ pc = "fetch"
  /\ Finish(Waveform(run.dev, run.dom, "start"))
  /\ UNCHANGED <<session, hardware, torn>>

(* debugger show_waveform: get_waveform alone, with no look at the status  *)
(* and no verification.                                                    *)
ShowWaveform(d, m) ==
  /\ Idle
  /\ loaded
  /\ out' = Waveform(d, m, "show_waveform")
  /\ UNCHANGED <<session, hardware>>

-----------------------------------------------------------------------------
(* What goes wrong while a start command runs: an assertion of             *)
(* configure_channel, an openocd call that fails (CFG_ASSERT_MSG in         *)
(* OclaOpenocdAdapter), or the end of the process.  The first two throw     *)
(* out of the command and leave the session; nothing is rolled back.        *)

Programming == {"configure", "clear", "trigger", "arm"}

CutShort ==
  torn' = IF pc \in Programming /\ ~(pc = "configure" /\ run.k = 1)
            THEN [torn EXCEPT ![run.dev] = @ \cup {run.dom}] ELSE torn

AssertFails ==
  /\ pc = "trigger"
  /\ run.j <= Len(triggers[run.dom])
  /\ ThisTrigger.inst = Current
  /\ ~ChannelAssertion
  /\ CutShort
  /\ Finish([kind |-> "assertion"])
  /\ UNCHANGED <<session, hardware>>

JtagFails ==
  /\ pc # "idle"
  /\ CutShort
  /\ Finish([kind |-> "jtag_error"])
  /\ UNCHANGED <<session, hardware>>

ProcessEnds ==
  /\ loaded
  /\ ForgetSession
  /\ CutShort
  /\ Finish(Quiet)
  /\ UNCHANGED hardware

(* The analyser completes an acquisition, unless it waits for a number of  *)
(* samples that TMTR says is not fixed: then DA never rises.               *)
Stuck(tmtr) == tmtr.fns = 0 /\ tmtr.ns # 0

SamplingDone(d, m) ==
  /\ phase[d][m] = "sampling"
  /\ \A i \in Members(m) : ~Stuck(latched[d][i].tmtr)
  /\ phase' = [phase EXCEPT ![d][m] = "done"]
  /\ out' = Quiet
  /\ UNCHANGED <<session, regs, st, latched, pc, run, torn>>

-----------------------------------------------------------------------------
SessionCommand ==
  \/ Load
  \/ Unload
  \/ \E d \in Device, c \in ConfigRequest : Configure(d, c)
  \/ \E d \in Device, r \in TriggerRequest : AddTrigger(d, r)
  \/ \E d \in Device, r \in TriggerRequest : RejectEvent(d, r)
  \/ \E r \in TriggerRequest : \E n \in 1 .. Len(triggers[r.dom]) :
       \E d \in Device : EditTrigger(d, n, r)
  \/ \E m \in Domain : \E n \in 1 .. Len(triggers[m]) :
       \E d \in Device : RemoveTrigger(d, m, n)
  \/ \E d \in Device, m \in Domain : ShowWaveform(d, m)

BeginStart ==
  \E d \in Device, m \in Domain, o \in StartOption : Start(d, m, o)

StartStep ==
  \/ ProgramMode
  \/ ClearChannel
  \/ SkipTrigger
  \/ ProgramTrigger
  \/ NextInstance
  \/ DummyWrite
  \/ Arm
  \/ Poll
  \/ GiveUp
  \/ Fetch
  \/ AssertFails

Next ==
  \/ SessionCommand
  \/ BeginStart
  \/ StartStep
  \/ JtagFails
  \/ ProcessEnds
  \/ \E d \in Device, m \in Domain : SamplingDone(d, m)

Spec == Init /\ [][Next]_vars

(* The thread that runs a command keeps running it: each step is a call    *)
(* that returns or throws.                                                 *)
FairSpec == Spec /\ WF_vars(StartStep)
-----------------------------------------------------------------------------
(* Properties.                                                             *)

(* Every variable has its type: registers hold no more than their fields   *)
(* can, positions in the session and the register file stay in range.      *)
TypeOK ==
  /\ loaded \in BOOLEAN
  /\ config \in [Domain -> Config]
  /\ triggers \in [Domain -> Seq(Trigger)]
  /\ regs \in [Device -> [Instance -> Registers]]
  /\ st \in [Device -> [Instance -> 0 .. 1]]
  /\ phase \in [Device -> [Domain -> {"none", "sampling", "done"}]]
  /\ latched \in [Device -> [Instance -> Registers]]
  /\ pc \in Programming \cup {"idle", "poll", "fetch"}
  /\ run \in RunType
  /\ torn \in [Device -> SUBSET Domain]

(* However triggers are added, moved to another probe and removed, and      *)
(* whichever devices the commands name, an instance never holds more        *)
(* triggers than some device that passes verification has channels for:     *)
(* the comment at Ocla.cpp:124-132.                                         *)
TriggerLimit ==
  \A m \in Domain, i \in Instance :
    get_number_of_triggers(triggers[m], i) > 0 =>
      \E d \in Device :
        verify(d) /\ get_number_of_triggers(triggers[m], i) <= Hardware[d][i].tc

(* A range that ends at the last bit number of a word: width, or else       *)
(* pos + width, is 0 in uint32_t, which no signal is too narrow for.        *)
EndsAtTop(t) == (t.pos + t.width) % Modulus = 0

(* After any sequence of adds and edits a trigger on part of a signal       *)
(* selects bits the signal has, with one exception: Ocla.cpp:154 and :271   *)
(* let every range through that ends at bit 4294967295.  No other sum that  *)
(* wraps gets past them, and no edit leaves the range of an earlier probe   *)
(* with the signal of a new one.                                            *)
RangeInsideSignal ==
  \A m \in Domain : \A n \in 1 .. Len(triggers[m]) :
    LET t == triggers[m][n] IN
      \E s \in Signal :
        /\ s.dom = m /\ s.probe = t.probe /\ s.name = t.name /\ s.inst = t.inst
        /\ t.ranged => \/ EndsAtTop(t)
                       \/ t.width > 0 /\ t.pos + t.width <= s.bitwidth

(* OclaIP.cpp:71-73: with FNS 0 and NS not 0 the analyser samples for ever. *)
(* No instance is ever left in that state, and no acquisition starts in it. *)
NeverStuck ==
  \A d \in Device, i \in Instance :
    ~Stuck(regs[d][i].tmtr) /\ ~Stuck(latched[d][i].tmtr)

(* The assertion channel < m_chregs.size() of configure_channel: a start    *)
(* never runs out of channels half way through programming the device.      *)
ProgrammingTrigger ==
  /\ pc = "trigger"
  /\ run.j <= Len(triggers[run.dom])
  /\ ThisTrigger.inst = Current

ChannelExists ==
  ProgrammingTrigger => run.ch < Hardware[run.dev][Current].tc

(* A device whose cores do not match the design is never written to nor     *)
(* started, whatever the session holds.                                     *)
UnverifiedUntouched ==
  \A d \in Device :
    ~verify(d) => /\ \A i \in Instance : regs[d][i] = ResetRegisters
                  /\ \A m \in Domain : phase[d][m] = "none"

(* The waveform a start command shows was sampled completely, under the     *)
(* configuration of the session: sample_size lines, or the memory depth     *)
(* when it is 0 (help text of `debugger config`).                           *)
WaitedWaveform ==
  (out.kind = "waveform" /\ out.origin = "start") =>
    /\ phase[out.dev][out.dom] = "done"
    /\ \A i \in Members(out.dom) :
         out.depth[i] = IF config[out.dom].sample_size > 0
                          THEN config[out.dom].sample_size
                          ELSE DebugInfo[i].depth

(* show_waveform reads the depth from the device, not from the session: it  *)
(* is the depth of the acquisition in the buffer even when the session was  *)
(* reconfigured or reloaded since, as long as no start was cut short.       *)
WaveformIsCapture ==
  ( /\ out.kind = "waveform"
    /\ phase[out.dev][out.dom] # "none"
    /\ out.dom \notin torn[out.dev] ) =>
      \A i \in Members(out.dom) :
        LET ns == latched[out.dev][i].tmtr.ns
        IN  out.depth[i] = IF ns > 0 THEN ns ELSE Hardware[out.dev][i].depth

(* OclaIP.cpp:125-129: also back to back, a start that gets as far as the   *)
(* ST bit begins a new acquisition.                                         *)
StartArms ==
  [][ pc = "arm" /\ (pc' = "poll" \/ (pc' = "idle" /\ out'.kind = "armed")) =>
        phase'[run.dev][run.dom] = "sampling" ]_vars

(* A start command ends: with a waveform, a timeout or an error.            *)
CommandEnds == pc # "idle" ~> pc = "idle"
=============================================================================
