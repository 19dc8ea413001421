------------------------- MODULE OclaDebuggerProofs -------------------------
(***************************************************************************)
(* Theorems about OclaDebugger for every design, every set of boards and   *)
(* every command line, checked by TLAPS: types, the command under way, the *)
(* devices written to, what their registers hold and how many triggers an  *)
(* instance collects.                                                      *)
(***************************************************************************)
EXTENDS OclaDebugger, FiniteSetTheorems, SequenceTheorems, TLAPS

(* A remainder is below the divisor, for the fields and for uint32_t.      *)
LEMMA ModRange ==
  ASSUME NEW x \in Int, NEW n \in Nat \ {0}
  PROVE  x % n \in 0 .. n - 1
  OBVIOUS

LEMMA SmallField ==
  ASSUME NEW x \in Int
  PROVE  x % SmallSpan \in 0 .. 3
  BY SMT DEF SmallSpan

LEMMA Spans ==
  /\ PsSpan \in Nat \ {0} /\ CwSpan \in Nat \ {0} /\ NsSpan \in Nat \ {0}
  BY SMT DEF PsSpan, CwSpan, NsSpan

(* OclaIP::configure writes a word whose fields hold their values.         *)
LEMMA ConfigureType ==
  ASSUME NEW cfg \in Config
  PROVE  configure(cfg) \in ModeRegister
<1>1. /\ cfg.mode \in Int /\ cfg.condition \in Int /\ cfg.sample_size \in Int
  BY DEF Config
<1>2. /\ cfg.mode % SmallSpan \in 0 .. 3
      /\ cfg.condition % SmallSpan \in 0 .. 3
      /\ cfg.sample_size % NsSpan \in 0 .. NsSpan - 1
  BY <1>1, Spans, ModRange, SmallField
<1> QED
  BY <1>2, SMT DEF ModeRegister, configure

(* So does each of the three writes of OclaIP::configure_channel.          *)
LEMMA WrittenType ==
  ASSUME NEW reg \in ChannelRegister, NEW cfg \in TriggerConfig,
         NEW w \in 1 .. 3
  PROVE  Written(reg, w, cfg) \in ChannelRegister
<1>1. Tssr(reg, cfg) \in [ps : 0 .. PsSpan - 1, cw : 0 .. CwSpan - 1]
  <2>1. cfg.probe_num \in Int /\ cfg.compare_width - 1 \in Int
    BY DEF TriggerConfig
  <2>2. /\ cfg.probe_num % PsSpan \in 0 .. PsSpan - 1
        /\ (cfg.compare_width - 1) % CwSpan \in 0 .. CwSpan - 1
    BY <2>1, Spans, ModRange
  <2> QED
    BY <2>2, SMT DEF Tssr, ChannelRegister
<1>2. Tcur(reg, cfg) \in [tt : TriggerType, et : 0 .. 3, lt : 0 .. 3, vc : 0 .. 3]
  <2>1. cfg.event % SmallSpan \in 0 .. 3
    BY SmallField DEF TriggerConfig
  <2> QED
    BY <2>1, SMT DEF Tcur, ChannelRegister, TriggerConfig
<1>3. Tdcr(reg, cfg) \in Nat
  BY SMT DEF Tdcr, ChannelRegister, TriggerConfig
<1> QED
  BY <1>1, <1>2, <1>3, SMT DEF Written, ChannelRegister

(* The trigger built from an acceptable request is one.                    *)
LEMMA MakeTriggerType ==
  ASSUME NEW d \in Device, NEW r \in TriggerRequest, NEW s \in Signal
  PROVE  MakeTrigger(d, r, s) \in Trigger
<1>1. /\ r.probe \in Nat /\ r.ranged \in BOOLEAN /\ r.lo \in Nat /\ r.hi \in Nat
      /\ r.type \in TriggerType /\ r.event \in Nat /\ r.value \in Nat
      /\ r.compare_width \in Nat
  BY ConstantTypes
<1>2. /\ s.inst \in Instance /\ s.name \in STRING /\ s.bitwidth \in Nat
      /\ s.bitpos \in Nat
  BY ConstantTypes
<1>3. Modulus \in Nat \ {0} /\ Hardware[d][s.inst].mcvs \in Nat
  BY ConstantTypes, <1>2
<1>4. Width(r) \in Nat
  BY <1>1, <1>3, ModRange DEF Width
<1>5. (s.bitpos + (IF r.ranged THEN r.lo ELSE 0)) % Modulus \in Nat
  <2>1. s.bitpos + (IF r.ranged THEN r.lo ELSE 0) \in Int
    BY <1>1, <1>2
  <2> QED
    BY <2>1, <1>3, ModRange
<1> QED
  BY <1>1, <1>2, <1>3, <1>4, <1>5
     DEF MakeTrigger, Trigger, TriggerConfig, Lesser

-----------------------------------------------------------------------------
(* While a start command runs, its session stays loaded, its trigger list   *)
(* is not empty, its device is the one it verified, and it clears and       *)
(* programs an instance of its domain.                                      *)
RunOK ==
  pc # "idle" =>
    /\ loaded
    /\ verify(run.dev)
    /\ triggers[run.dom] # <<>>
    /\ run.k \in 1 .. Len(InstancesOf[run.dom])
    /\ pc = "configure" => run.ch = 0
    /\ pc = "clear" => run.ch < Hardware[run.dev][Current].tc

(* Type correctness.                                                       *)

IInv == TypeOK /\ RunOK

LEMMA WithoutType ==
  ASSUME NEW S, NEW ts \in Seq(S), NEW n \in 1 .. Len(ts)
  PROVE  /\ Without(ts, n) \in Seq(S)
         /\ Len(Without(ts, n)) = Len(ts) - 1
  BY DEF Without

LEMMA ReplaceType ==
  ASSUME NEW S, NEW ts \in Seq(S), NEW n \in 1 .. Len(ts), NEW x \in S
  PROVE  /\ [ts EXCEPT ![n] = x] \in Seq(S)
         /\ Len([ts EXCEPT ![n] = x]) = Len(ts)
  BY ExceptSeq

LEMMA NoRunType ==
  /\ NoRun.dev \in Device /\ NoRun.dom \in Domain
  /\ NoRun \in RunType
<1>1. (CHOOSE d \in Device : TRUE) \in Device
  BY ConstantTypes
<1>2. (CHOOSE m \in Domain : TRUE) \in Domain
  BY ConstantTypes
<1> QED
  BY <1>1, <1>2, ConstantTypes DEF NoRun, RunType

LEMMA InitInv == Init => IInv
<1> SUFFICES ASSUME Init PROVE IInv
  OBVIOUS
<1>1. DefaultConfig \in Config
  BY DEF DefaultConfig, Config
<1>2. ResetRegisters \in Registers
  <2>1. ResetMode \in ModeRegister /\ ResetChannel \in ChannelRegister
    BY Spans, SMT DEF ResetMode, ModeRegister, ResetChannel, ChannelRegister,
       TriggerType, TRIGGER_NONE
  <2> QED
    BY <2>1 DEF ResetRegisters, Registers
<1>3. TypeOK
  <2>1. config \in [Domain -> Config] /\ triggers \in [Domain -> Seq(Trigger)]
    BY <1>1 DEF Init
  <2>2. regs \in [Device -> [Instance -> Registers]]
    BY <1>2 DEF Init
  <2>3. latched \in [Device -> [Instance -> Registers]]
    BY <1>2 DEF Init
  <2>4. /\ st \in [Device -> [Instance -> 0 .. 1]]
        /\ phase \in [Device -> [Domain -> {"none", "sampling", "done"}]]
        /\ torn \in [Device -> SUBSET Domain]
    BY DEF Init
  <2>5. loaded \in BOOLEAN /\ pc \in Programming \cup {"idle", "poll", "fetch"}
    BY DEF Init
  <2> QED
    BY <2>1, <2>2, <2>3, <2>4, <2>5, NoRunType DEF Init, TypeOK
<1> QED
  BY <1>3 DEF Init, IInv, RunOK

(* The types of the locals of a start command and of what they point to.   *)
LEMMA RunFacts ==
  ASSUME IInv, pc # "idle"
  PROVE  /\ run.dev \in Device /\ run.dom \in Domain /\ run.ch \in 0 .. NChannel
         /\ run.k \in Nat \ {0} /\ run.j \in Nat \ {0} /\ run.word \in 1 .. 3
         /\ run.k \in 1 .. Len(InstancesOf[run.dom])
         /\ Current \in Instance
         /\ Hardware[run.dev][Current].tc \in 1 .. NChannel
         /\ config[run.dom] \in Config
         /\ triggers[run.dom] \in Seq(Trigger)
<1>1. /\ run.dev \in Device /\ run.dom \in Domain /\ run.ch \in 0 .. NChannel
      /\ run.k \in Nat \ {0} /\ run.j \in Nat \ {0} /\ run.word \in 1 .. 3
  BY DEF IInv, TypeOK, RunType
<1>2. run.k \in 1 .. Len(InstancesOf[run.dom])
  BY DEF IInv, RunOK
<1>3. Current \in Instance
  <2>1. InstancesOf[run.dom] \in Seq(Instance)
    BY <1>1, ConstantTypes
  <2> QED
    BY <2>1, <1>2, ElementOfSeq DEF Current
<1>4. Hardware[run.dev][Current].tc \in 1 .. NChannel
  BY <1>1, <1>3, ConstantTypes
<1> QED
  BY <1>1, <1>2, <1>3, <1>4 DEF IInv, TypeOK

(* Moving on: to the next word, to the next channel and trigger, to the     *)
(* next instance.                                                          *)
LEMMA RunMoves ==
  ASSUME NEW q \in RunType, NEW w \in 1 .. 3, NEW c \in 0 .. NChannel,
         NEW j \in Nat \ {0}, NEW k \in Nat \ {0}
  PROVE  /\ [q EXCEPT !.word = w] \in RunType
         /\ [q EXCEPT !.j = j] \in RunType
         /\ [q EXCEPT !.word = w, !.ch = c] \in RunType
         /\ [q EXCEPT !.word = w, !.ch = c, !.j = j] \in RunType
         /\ [q EXCEPT !.k = k, !.ch = c, !.j = j] \in RunType
  BY DEF RunType

(* A write to one channel of one instance keeps the register files typed.  *)
LEMMA ChannelWriteType ==
  ASSUME IInv, pc # "idle", run.ch \in Channel,
         NEW cfg \in TriggerConfig, WriteChannelWord(cfg)
  PROVE  regs' \in [Device -> [Instance -> Registers]]
<1>1. /\ run.dev \in Device /\ Current \in Instance /\ run.word \in 1 .. 3
      /\ regs \in [Device -> [Instance -> Registers]]
  BY RunFacts DEF IInv, TypeOK
<1>2. regs[run.dev][Current] \in Registers
  BY <1>1
<1> DEFINE old == regs[run.dev][Current]
           new == [old EXCEPT !.ch[run.ch] = Written(old.ch[run.ch], run.word, cfg)]
<1>3. old.ch[run.ch] \in ChannelRegister
  BY <1>2 DEF Registers
<1>4. Written(old.ch[run.ch], run.word, cfg) \in ChannelRegister
  BY <1>1, <1>3, WrittenType
<1>5. new \in Registers
  BY <1>2, <1>4 DEF Registers
<1>6. regs' = [regs EXCEPT ![run.dev] = [regs[run.dev] EXCEPT ![Current] = new]]
  BY <1>1, <1>2 DEF WriteChannelWord, Registers
<1> HIDE DEF new
<1> QED
  BY <1>1, <1>5, <1>6

LEMMA ForgetType ==
  ASSUME ForgetSession
  PROVE  /\ loaded' \in BOOLEAN
         /\ config' \in [Domain -> Config]
         /\ triggers' \in [Domain -> Seq(Trigger)]
<1>1. DefaultConfig \in Config
  BY DEF DefaultConfig, Config
<1>2. <<>> \in Seq(Trigger)
  BY EmptySeq
<1> QED
  BY <1>1, <1>2 DEF ForgetSession

(* Commands that change the session find the process idle.                 *)
LEMMA SessionInv ==
  ASSUME IInv, SessionCommand
  PROVE  IInv'
<1> DEFINE TrigsOK(ts) == ts \in [Domain -> Seq(Trigger)]
<1> USE DEF IInv
<1>1. pc = "idle" /\ UNCHANGED <<pc, run, torn, hardware>>
  BY DEF SessionCommand, Idle, Load, Unload, Configure, AddTrigger, RejectEvent,
         EditTrigger, RemoveTrigger, ShowWaveform
<1>2. RunOK'
  BY <1>1 DEF RunOK
<1>3. SUFFICES /\ loaded' \in BOOLEAN
               /\ config' \in [Domain -> Config]
               /\ TrigsOK(triggers')
  BY <1>1, <1>2 DEF TypeOK, hardware
<1>5. CASE Load
  BY <1>5 DEF Load, TypeOK
<1>6. CASE Unload
  BY <1>6, ForgetType DEF Unload
<1>7. CASE \E d \in Device, c \in ConfigRequest : Configure(d, c)
  <2>1. PICK d \in Device, c \in ConfigRequest : Configure(d, c)
    BY <1>7
  <2>2. /\ c.dom \in Domain
        /\ [mode |-> c.mode, condition |-> c.condition,
            sample_size |-> c.sample_size] \in Config
    BY ConstantTypes DEF Config
  <2> QED
    BY <2>1, <2>2 DEF Configure, TypeOK
<1>8. CASE \E d \in Device, r \in TriggerRequest : AddTrigger(d, r)
  <2>1. PICK d \in Device, r \in TriggerRequest : AddTrigger(d, r)
    BY <1>8
  <2>2. PICK s \in Signal :
          triggers' = [triggers EXCEPT ![r.dom] = Append(@, MakeTrigger(d, r, s))]
    BY <2>1 DEF AddTrigger
  <2>3. r.dom \in Domain /\ MakeTrigger(d, r, s) \in Trigger
    BY MakeTriggerType, ConstantTypes
  <2>4. Append(triggers[r.dom], MakeTrigger(d, r, s)) \in Seq(Trigger)
    BY <2>3 DEF TypeOK
  <2> QED
    BY <2>1, <2>2, <2>3, <2>4 DEF AddTrigger, TypeOK
<1>9. CASE \E d \in Device, r \in TriggerRequest : RejectEvent(d, r)
  BY <1>9 DEF RejectEvent, TypeOK, session
<1>10. CASE \E r \in TriggerRequest : \E n \in 1 .. Len(triggers[r.dom]) :
              \E d \in Device : EditTrigger(d, n, r)
  <2>0. PICK r \in TriggerRequest : \E n \in 1 .. Len(triggers[r.dom]) :
          \E d \in Device : EditTrigger(d, n, r)
    BY <1>10
  <2>1. PICK n \in 1 .. Len(triggers[r.dom]), d \in Device : EditTrigger(d, n, r)
    BY <2>0
  <2>2. PICK s \in Signal :
          triggers' = [triggers EXCEPT ![r.dom][n] = MakeTrigger(d, r, s)]
    BY <2>1 DEF EditTrigger
  <2>3. /\ r.dom \in Domain /\ MakeTrigger(d, r, s) \in Trigger
        /\ triggers[r.dom] \in Seq(Trigger)
    BY MakeTriggerType, ConstantTypes DEF TypeOK
  <2>4. [triggers[r.dom] EXCEPT ![n] = MakeTrigger(d, r, s)] \in Seq(Trigger)
    BY <2>3, ReplaceType
  <2> QED
    BY <2>1, <2>2, <2>3, <2>4 DEF EditTrigger, TypeOK
<1>11. CASE \E m \in Domain : \E n \in 1 .. Len(triggers[m]) :
              \E d \in Device : RemoveTrigger(d, m, n)
  <2>0. PICK m \in Domain : \E n \in 1 .. Len(triggers[m]) :
          \E d \in Device : RemoveTrigger(d, m, n)
    BY <1>11
  <2>1. PICK n \in 1 .. Len(triggers[m]), d \in Device : RemoveTrigger(d, m, n)
    BY <2>0
  <2>2. Without(triggers[m], n) \in Seq(Trigger)
    BY WithoutType DEF TypeOK
  <2> QED
    BY <2>1, <2>2 DEF RemoveTrigger, TypeOK
<1>12. CASE \E d \in Device, m \in Domain : ShowWaveform(d, m)
  BY <1>12 DEF ShowWaveform, TypeOK, session
<1> QED
  BY <1>5, <1>6, <1>7, <1>8, <1>9, <1>10, <1>11, <1>12 DEF SessionCommand

(* A start command begins.                                                 *)
LEMMA BeginInv ==
  ASSUME IInv, BeginStart
  PROVE  IInv'
<1>1. PICK d \in Device, m \in Domain, o \in StartOption : Start(d, m, o)
  BY DEF BeginStart
<1>2. o.wait \in BOOLEAN /\ o.limit \in 0 .. MaxTimeout
  BY ConstantTypes
<1>3. /\ run'.dev = d /\ run'.dom = m /\ run'.k = 1 /\ run'.ch = 0
      /\ run' \in RunType
  <2>1. run' = [NoRun EXCEPT !.dev = d, !.dom = m, !.wait = o.wait, !.limit = o.limit]
    BY <1>1 DEF Start
  <2> QED
    BY <2>1, <1>2, NoRunType DEF NoRun, RunType
<1>4. TypeOK'
  BY <1>1, <1>3 DEF Start, IInv, TypeOK, session, hardware, Programming
<1>5. 1 \in 1 .. Len(InstancesOf[m])
  <2>1. InstancesOf[m] \in Seq(Instance) /\ Len(InstancesOf[m]) > 0
    BY ConstantTypes
  <2> QED
    BY <2>1, LenProperties
<1>6. RunOK'
  BY <1>1, <1>3, <1>5 DEF Start, RunOK, session
<1> QED
  BY <1>4, <1>6 DEF IInv

(* The steps that program the device.                                      *)
LEMMA ProgramInv ==
  ASSUME IInv,
         ProgramMode \/ ClearChannel \/ SkipTrigger \/ ProgramTrigger \/ NextInstance
  PROVE  IInv'
<1>1. pc \in {"configure", "clear", "trigger"}
  BY DEF ProgramMode, ClearChannel, SkipTrigger, ProgramTrigger, NextInstance
<1>2. /\ UNCHANGED <<session, st, phase, latched, torn>>
      /\ UNCHANGED <<run.dev, run.dom, run.wait, run.limit, run.polls>>
  BY DEF ProgramMode, ClearChannel, SkipTrigger, ProgramTrigger, NextInstance,
         WriteChannelWord, hardware, IInv, TypeOK, RunType
<1>3. /\ run.dev \in Device /\ run.dom \in Domain /\ run.ch \in 0 .. NChannel
      /\ run.k \in Nat \ {0} /\ run.j \in Nat \ {0} /\ run.word \in 1 .. 3
      /\ run.k \in 1 .. Len(InstancesOf[run.dom])
      /\ Current \in Instance
      /\ Hardware[run.dev][Current].tc \in 1 .. NChannel
      /\ config[run.dom] \in Config
      /\ triggers[run.dom] \in Seq(Trigger)
  BY <1>1, RunFacts
<1>4. NChannel \in Nat /\ Len(InstancesOf[run.dom]) \in Nat
  BY <1>3, ConstantTypes, LenProperties
<1>5. run \in RunType
  BY DEF IInv, TypeOK
<1>0. 1 \in 1 .. 3 /\ 1 \in Nat \ {0} /\ 0 \in 0 .. NChannel
  BY <1>4
<1>6. SUFFICES /\ regs' \in [Device -> [Instance -> Registers]]
               /\ run' \in RunType
               /\ pc' \in {"configure", "clear", "trigger"}
               /\ run'.k \in 1 .. Len(InstancesOf[run.dom])
               /\ pc' = "configure" => run'.ch = 0
               /\ pc' = "clear" => run'.ch < Hardware[run.dev][Current].tc
                                   /\ run'.k = run.k
  <2>1. /\ loaded' \in BOOLEAN /\ config' \in [Domain -> Config]
        /\ triggers' \in [Domain -> Seq(Trigger)]
        /\ st' \in [Device -> [Instance -> 0 .. 1]]
        /\ phase' \in [Device -> [Domain -> {"none", "sampling", "done"}]]
        /\ latched' \in [Device -> [Instance -> Registers]]
        /\ torn' \in [Device -> SUBSET Domain]
    BY <1>2 DEF IInv, TypeOK, session
  <2>2. TypeOK'
    BY <2>1, <1>6 DEF TypeOK, Programming
  <2>3. run'.dev = run.dev /\ run'.dom = run.dom
    BY <1>2
  <2>4. loaded' /\ verify(run.dev) /\ triggers'[run.dom] # <<>>
    BY <1>1, <1>2 DEF IInv, RunOK, session
  <2>5. pc' = "clear" => Current' = Current
    BY <1>6, <2>3 DEF Current
  <2>6. RunOK'
    BY <1>6, <2>3, <2>4, <2>5 DEF RunOK
  <2> QED
    BY <2>2, <2>6 DEF IInv
<1>7. CASE ProgramMode
  <2>1. configure(config[run.dom]) \in ModeRegister
    BY <1>3, ConfigureType
  <2> DEFINE old == regs[run.dev][Current]
             new == [old EXCEPT !.tmtr = configure(config[run.dom])]
  <2>2. regs \in [Device -> [Instance -> Registers]] /\ old \in Registers
    BY <1>3 DEF IInv, TypeOK
  <2>3. new \in Registers
    BY <2>1, <2>2 DEF Registers
  <2>4. regs' = [regs EXCEPT ![run.dev] = [regs[run.dev] EXCEPT ![Current] = new]]
    BY <1>3, <1>7, <2>2 DEF ProgramMode, Registers
  <2>5. regs' \in [Device -> [Instance -> Registers]]
    <3> HIDE DEF new
    <3> QED
      BY <1>3, <2>2, <2>3, <2>4
  <2>6. run' = run /\ pc = "configure" /\ pc' = "clear"
    BY <1>7 DEF ProgramMode
  <2> QED
    BY <1>3, <1>5, <2>5, <2>6 DEF IInv, RunOK
<1>8. CASE ClearChannel
  <2>1. pc = "clear" /\ run.ch < Hardware[run.dev][Current].tc
    BY <1>8 DEF ClearChannel, IInv, RunOK
  <2>2. run.ch \in Channel
    BY <1>3, <1>4, <2>1 DEF Channel
  <2>3. ClearConfig \in TriggerConfig
    BY DEF ClearConfig, TriggerConfig, TriggerType, TRIGGER_NONE, NO_EVENT
  <2>4. regs' \in [Device -> [Instance -> Registers]]
    BY <1>8, <2>1, <2>2, <2>3, ChannelWriteType DEF ClearChannel
  <2>5. CASE run.word < 3
    <3>1. run' = [run EXCEPT !.word = @ + 1] /\ pc' = pc
      BY <1>8, <2>5 DEF ClearChannel
    <3>2. run' \in RunType /\ run'.k = run.k /\ run'.ch = run.ch
      BY <1>3, <1>5, <2>5, <3>1 DEF RunType
    <3> QED
      BY <1>3, <2>1, <2>4, <3>1, <3>2
  <2>6. CASE run.word = 3 /\ run.ch + 1 < Hardware[run.dev][Current].tc
    <3>1. run' = [run EXCEPT !.word = 1, !.ch = @ + 1] /\ pc' = pc
      <4>1. Hardware[run.dev][Current].tc \in Nat /\ run.ch \in Nat
        BY <1>3, <1>4
      <4> QED
        BY <1>8, <2>6, <4>1, SMTT(30) DEF ClearChannel
    <3>2. run.ch + 1 \in 0 .. NChannel
      BY <1>3, <1>4, <2>6
    <3>3. run'.k = run.k /\ run'.ch = run.ch + 1
      BY <1>5, <3>1 DEF RunType
    <3>4. run' \in RunType
      BY <1>0, <1>5, <3>1, <3>2, RunMoves, Zenon
    <3> QED
      BY <1>3, <2>1, <2>4, <2>6, <3>1, <3>3, <3>4
  <2>7. CASE run.word = 3 /\ run.ch + 1 = Hardware[run.dev][Current].tc
    <3>1. run' = [run EXCEPT !.word = 1, !.ch = 0, !.j = 1] /\ pc' = "trigger"
      BY <1>3, <1>8, <2>7 DEF ClearChannel
    <3>2. run'.k = run.k
      BY <1>5, <3>1 DEF RunType
    <3>3. run' \in RunType
      BY <1>0, <1>5, <3>1, RunMoves, Zenon
    <3> QED
      BY <1>3, <2>4, <3>1, <3>2, <3>3
  <2> QED
    BY <1>8, <2>5, <2>6, <2>7 DEF ClearChannel
<1>9. CASE SkipTrigger
  <2>1. run' = [run EXCEPT !.j = @ + 1] /\ pc' = "trigger" /\ regs' = regs
    BY <1>9 DEF SkipTrigger, hardware
  <2>2. run' \in RunType /\ run'.k = run.k
    BY <1>3, <1>5, <2>1 DEF RunType
  <2>3. regs' \in [Device -> [Instance -> Registers]]
    BY <2>1 DEF IInv, TypeOK
  <2> QED
    BY <1>3, <2>1, <2>2, <2>3
<1>10. CASE ProgramTrigger
  <2>1. /\ pc = "trigger" /\ pc' = "trigger"
        /\ run.ch < Hardware[run.dev][Current].tc
        /\ WriteChannelWord(ThisTrigger.cfg)
        /\ run.j <= Len(triggers[run.dom])
    BY <1>10 DEF ProgramTrigger, ChannelAssertion
  <2>2. run.ch \in Channel
    BY <1>3, <1>4, <2>1 DEF Channel
  <2>3. ThisTrigger \in Trigger
    BY <1>3, <2>1, ElementOfSeq, LenProperties DEF ThisTrigger
  <2>4. ThisTrigger.cfg \in TriggerConfig
    BY <2>3 DEF Trigger
  <2>5. regs' \in [Device -> [Instance -> Registers]]
    BY <2>1, <2>2, <2>4, ChannelWriteType
  <2>6. /\ run' = IF run.word < 3
                   THEN [run EXCEPT !.word = @ + 1]
                   ELSE [run EXCEPT !.word = 1, !.ch = @ + 1, !.j = @ + 1]
    BY <1>10 DEF ProgramTrigger
  <2>7. CASE run.word < 3
    <3>1. run' = [run EXCEPT !.word = @ + 1] /\ run.word + 1 \in 1 .. 3
      BY <1>3, <2>6, <2>7
    <3>2. run' \in RunType /\ run'.k = run.k
      <4> DEFINE w == run.word + 1
      <4>1. w \in 1 .. 3
        BY <3>1
      <4>2. run' = [run EXCEPT !.word = w]
        BY <3>1
      <4> HIDE DEF w
      <4> QED
        BY <1>5, <4>1, <4>2 DEF RunType
    <3> QED
      BY <1>3, <2>1, <2>5, <3>2
  <2>8. CASE ~(run.word < 3)
    <3>1. run' = [run EXCEPT !.word = 1, !.ch = @ + 1, !.j = @ + 1]
      BY <2>6, <2>8
    <3>2. run.ch + 1 \in 0 .. NChannel /\ run.j + 1 \in Nat \ {0}
      BY <1>3, <1>4, <2>1
    <3>3. run'.k = run.k
      BY <1>5, <3>1 DEF RunType
    <3>4. run' \in RunType
      BY <1>0, <1>5, <3>1, <3>2, RunMoves, Zenon
    <3> QED
      BY <1>3, <2>1, <2>5, <3>3, <3>4
  <2> QED
    BY <2>7, <2>8
<1>11. CASE NextInstance
  <2>1. /\ run' = [run EXCEPT !.k = @ + 1, !.ch = 0, !.j = 1]
        /\ run.k < Len(InstancesOf[run.dom])
        /\ pc' = "configure" /\ regs' = regs
    BY <1>11 DEF NextInstance, hardware
  <2>2. run' \in RunType /\ run'.k = run.k + 1 /\ run'.ch = 0
    <3>1. run.k + 1 \in Nat \ {0} /\ 0 \in 0 .. NChannel
      BY <1>3, <1>4
    <3>2. run' \in RunType
      BY <1>0, <1>5, <2>1, <3>1, RunMoves, Zenon
    <3> QED
      BY <1>5, <2>1, <3>2 DEF RunType
  <2>3. regs' \in [Device -> [Instance -> Registers]]
    BY <2>1 DEF IInv, TypeOK
  <2> QED
    BY <1>3, <1>4, <2>1, <2>2, <2>3
<1> QED
  BY <1>7, <1>8, <1>9, <1>10, <1>11

(* The end of a command, however it comes about.                           *)
LEMMA FinishInv ==
  ASSUME IInv, NEW r, Finish(r), CutShort \/ UNCHANGED torn,
         UNCHANGED session \/ ForgetSession, UNCHANGED hardware
  PROVE  IInv'
<1>1. /\ loaded' \in BOOLEAN
      /\ config' \in [Domain -> Config]
      /\ triggers' \in [Domain -> Seq(Trigger)]
  BY ForgetType DEF session, IInv, TypeOK
<1>2. run' \in RunType /\ pc' = "idle"
  BY NoRunType DEF Finish
<1>3. torn' \in [Device -> SUBSET Domain]
  <2>1. run.dev \in Device /\ run.dom \in Domain /\ torn \in [Device -> SUBSET Domain]
    BY DEF IInv, TypeOK, RunType
  <2>2. torn[run.dev] \cup {run.dom} \in SUBSET Domain
    BY <2>1
  <2>3. torn' = torn \/ torn' = [torn EXCEPT ![run.dev] = @ \cup {run.dom}]
    BY DEF CutShort
  <2> QED
    BY <2>1, <2>2, <2>3
<1> QED
  BY <1>1, <1>2, <1>3 DEF hardware, IInv, TypeOK, RunOK

(* The two writes to OCCR, and the polls that follow.                      *)
LEMMA ArmInv ==
  ASSUME IInv, DummyWrite \/ Arm \/ Poll
  PROVE  IInv'
<1>1. pc \in {"trigger", "arm", "poll"}
  BY DEF DummyWrite, Arm, Poll
<1>2. UNCHANGED <<session, regs>>
  BY DEF DummyWrite, Arm, Poll, hardware
<1>3. /\ run \in RunType /\ run.dev \in Device /\ run.dom \in Domain
      /\ First \in Instance
  <2>1. run \in RunType /\ run.dev \in Device /\ run.dom \in Domain
    BY DEF IInv, TypeOK, RunType
  <2>2. InstancesOf[run.dom] \in Seq(Instance) /\ Len(InstancesOf[run.dom]) > 0
    BY <2>1, ConstantTypes
  <2>3. InstancesOf[run.dom][1] \in Instance
    BY <2>2, ElementOfSeq, LenProperties
  <2> QED
    BY <2>1, <2>3 DEF First
<1>4. SUFFICES /\ st' \in [Device -> [Instance -> 0 .. 1]]
               /\ phase' \in [Device -> [Domain -> {"none", "sampling", "done"}]]
               /\ latched' \in [Device -> [Instance -> Registers]]
               /\ torn' \in [Device -> SUBSET Domain]
               /\ run' \in RunType
               /\ \/ pc' = "idle"
                  \/ /\ pc' \in {"arm", "poll", "fetch"}
                     /\ run'.dev = run.dev /\ run'.dom = run.dom /\ run'.k = run.k
  <2>1. TypeOK'
    BY <1>2, <1>4 DEF IInv, TypeOK, session, Programming
  <2>2. RunOK'
    BY <1>1, <1>2, <1>4 DEF IInv, RunOK, session
  <2> QED
    BY <2>1, <2>2 DEF IInv
<1>5. CASE DummyWrite
  <2>1. st' \in [Device -> [Instance -> 0 .. 1]]
    BY <1>3, <1>5 DEF DummyWrite, IInv, TypeOK
  <2> QED
    BY <1>5, <2>1 DEF DummyWrite, IInv, TypeOK
<1>6. CASE Arm
  <2>1. st' \in [Device -> [Instance -> 0 .. 1]]
    BY <1>3, <1>6 DEF Arm, IInv, TypeOK
  <2>2. phase' \in [Device -> [Domain -> {"none", "sampling", "done"}]]
    <3>1. [phase[run.dev] EXCEPT ![run.dom] = "sampling"]
            \in [Domain -> {"none", "sampling", "done"}]
      BY <1>3 DEF IInv, TypeOK
    <3>2. \/ phase' = phase
          \/ phase' = [phase EXCEPT ![run.dev] =
                         [phase[run.dev] EXCEPT ![run.dom] = "sampling"]]
      BY <1>6 DEF Arm
    <3> QED
      BY <3>1, <3>2 DEF IInv, TypeOK
  <2>3. latched' \in [Device -> [Instance -> Registers]]
    <3>1. regs[run.dev] \in [Instance -> Registers] /\ latched[run.dev] \in [Instance -> Registers]
      BY <1>3 DEF IInv, TypeOK
    <3> DEFINE now == [i \in Instance |-> IF i \in Members(run.dom)
                                            THEN regs[run.dev][i]
                                            ELSE latched[run.dev][i]]
    <3>2. now \in [Instance -> Registers]
      BY <3>1
    <3>3. latched' = latched \/ latched' = [latched EXCEPT ![run.dev] = now]
      BY <1>6 DEF Arm
    <3> HIDE DEF now
    <3> QED
      BY <1>3, <3>2, <3>3 DEF IInv, TypeOK
  <2>4. torn' \in [Device -> SUBSET Domain]
    <3>1. torn[run.dev] \ {run.dom} \in SUBSET Domain
      BY <1>3 DEF IInv, TypeOK
    <3> QED
      BY <1>3, <1>6, <3>1 DEF Arm, IInv, TypeOK
  <2>5. CASE run.wait
    BY <1>3, <1>6, <2>1, <2>2, <2>3, <2>4, <2>5 DEF Arm
  <2>6. CASE ~run.wait
    BY <1>6, <2>1, <2>2, <2>3, <2>4, <2>6, NoRunType DEF Arm
  <2> QED
    BY <2>5, <2>6
<1>7. CASE Poll
  <2>1. UNCHANGED <<st, phase, latched, torn>> /\ run.polls < run.limit
    BY <1>7 DEF Poll, hardware
  <2>2. CASE pc' = "fetch" /\ run' = run
    BY <1>3, <2>1, <2>2 DEF IInv, TypeOK
  <2>3. CASE run' = [run EXCEPT !.polls = @ + 1] /\ pc' = pc
    <3>1. run.polls + 1 \in 0 .. MaxTimeout
      BY <1>3, <2>1, ConstantTypes DEF RunType
    <3>2. run' \in RunType
      BY <1>3, <2>3, <3>1 DEF RunType
    <3>3. run'.dev = run.dev /\ run'.dom = run.dom /\ run'.k = run.k
      BY <1>3, <2>3 DEF RunType
    <3>4. pc' = "poll"
      BY <1>7, <2>3 DEF Poll
    <3> QED
      BY <2>1, <3>2, <3>3, <3>4 DEF IInv, TypeOK
  <2> QED
    BY <1>7, <2>2, <2>3 DEF Poll
<1> QED
  BY <1>5, <1>6, <1>7

LEMMA SameRun ==
  ASSUME IInv, UNCHANGED <<session, pc, run>>
  PROVE  RunOK'
<1>1. Current' = Current
  BY DEF Current
<1> QED
  BY <1>1 DEF session, IInv, RunOK

(* Every step keeps the types and the facts about the command under way.   *)
LEMMA StepInv == IInv /\ [Next]_vars => IInv'
<1> SUFFICES ASSUME IInv, [Next]_vars PROVE IInv'
  OBVIOUS
<1>1. CASE SessionCommand
  BY <1>1, SessionInv
<1>2. CASE BeginStart
  BY <1>2, BeginInv
<1>3. CASE ProgramMode \/ ClearChannel \/ SkipTrigger \/ ProgramTrigger \/ NextInstance
  BY <1>3, ProgramInv
<1>4. CASE DummyWrite \/ Arm \/ Poll
  BY <1>4, ArmInv
<1>5. CASE GiveUp
  BY <1>5, FinishInv DEF GiveUp
<1>6. CASE Fetch
  BY <1>6, FinishInv DEF Fetch
<1>7. CASE AssertFails
  BY <1>7, FinishInv DEF AssertFails
<1>8. CASE JtagFails
  BY <1>8, FinishInv DEF JtagFails
<1>9. CASE ProcessEnds
  BY <1>9, FinishInv DEF ProcessEnds
<1>10. CASE \E d \in Device, m \in Domain : SamplingDone(d, m)
  <2>1. PICK d \in Device, m \in Domain : SamplingDone(d, m)
    BY <1>10
  <2>2. phase' \in [Device -> [Domain -> {"none", "sampling", "done"}]]
    <3>1. [phase[d] EXCEPT ![m] = "done"] \in [Domain -> {"none", "sampling", "done"}]
      BY DEF IInv, TypeOK
    <3>2. phase' = [phase EXCEPT ![d] = [phase[d] EXCEPT ![m] = "done"]]
      BY <2>1 DEF SamplingDone
    <3> QED
      BY <3>1, <3>2 DEF IInv, TypeOK
  <2>3. UNCHANGED <<session, regs, st, latched, pc, run, torn>>
    BY <2>1 DEF SamplingDone
  <2> QED
    BY <2>2, <2>3, SameRun DEF session, IInv, TypeOK
<1>11. CASE UNCHANGED vars
  <2>1. UNCHANGED <<session, hardware, pc, run, torn>>
    BY <1>11 DEF vars
  <2> QED
    BY <2>1, SameRun DEF session, hardware, IInv, TypeOK
<1> QED
  BY <1>1, <1>2, <1>3, <1>4, <1>5, <1>6, <1>7, <1>8, <1>9, <1>10, <1>11
     DEF Next, StartStep

(* Every variable keeps its type: a register never holds more than its      *)
(* fields can, whatever the requests ask for, and the cursors of a start    *)
(* command stay inside the session and the register file.                  *)
THEOREM TypeCorrect == Spec => []TypeOK
<1>1. IInv => TypeOK
  BY DEF IInv
<1> QED
  BY <1>1, InitInv, StepInv, PTL DEF Spec

(* While a start command runs, the session it works on stays loaded, its    *)
(* device verified and its instance and channel inside the design.         *)
THEOREM RunCorrect == Spec => []RunOK
<1>1. IInv => RunOK
  BY DEF IInv
<1> QED
  BY <1>1, InitInv, StepInv, PTL DEF Spec

-----------------------------------------------------------------------------
(***************************************************************************)
(* Which devices are written to, what their mode registers hold, and how   *)
(* many triggers an instance collects.                                     *)
(***************************************************************************)

(* Only programming and arming write to a device, and only to the one the  *)
(* command verified.                                                       *)
LEMMA DeviceWrites ==
  ASSUME IInv, [Next]_vars, NEW d \in Device, ~verify(d)
  PROVE  regs'[d] = regs[d] /\ (phase'[d] = phase[d] \/ \E m \in Domain : phase[d][m] = "sampling")
<1>1. /\ regs \in [Device -> [Instance -> Registers]]
      /\ phase \in [Device -> [Domain -> {"none", "sampling", "done"}]]
  BY DEF IInv, TypeOK
<1>2. pc # "idle" => run.dev # d
  BY DEF IInv, RunOK
<1>3. CASE SessionCommand
  BY <1>3 DEF SessionCommand, Load, Unload, Configure, AddTrigger, RejectEvent,
              EditTrigger, RemoveTrigger, ShowWaveform, hardware
<1>4. CASE BeginStart
  BY <1>4 DEF BeginStart, Start, hardware
<1>5. CASE ProgramMode \/ ClearChannel \/ ProgramTrigger
  <2>1. run.dev # d /\ phase' = phase
    BY <1>2, <1>5 DEF ProgramMode, ClearChannel, ProgramTrigger, WriteChannelWord
  <2>2. regs'[d] = regs[d]
    BY <1>1, <1>5, <2>1
       DEF ProgramMode, ClearChannel, ProgramTrigger, WriteChannelWord
  <2> QED
    BY <2>1, <2>2
<1>6. CASE Arm
  <2>1. run.dev # d /\ regs' = regs
    BY <1>2, <1>6 DEF Arm
  <2>2. \/ phase' = phase
        \/ phase' = [phase EXCEPT ![run.dev][run.dom] = "sampling"]
    BY <1>6 DEF Arm
  <2> QED
    BY <1>1, <2>1, <2>2
<1>7. CASE SkipTrigger \/ NextInstance \/ DummyWrite \/ Poll \/ GiveUp \/ Fetch
           \/ AssertFails \/ JtagFails \/ ProcessEnds
  BY <1>7 DEF SkipTrigger, NextInstance, DummyWrite, Poll, GiveUp, Fetch,
              AssertFails, JtagFails, ProcessEnds, hardware
<1>8. CASE \E e \in Device, m \in Domain : SamplingDone(e, m)
  <2>1. PICK e \in Device, m \in Domain : SamplingDone(e, m)
    BY <1>8
  <2>2. /\ regs' = regs /\ phase[e][m] = "sampling"
        /\ phase' = [phase EXCEPT ![e][m] = "done"]
    BY <2>1 DEF SamplingDone
  <2>3. CASE e = d
    BY <2>2, <2>3
  <2>4. CASE e # d
    BY <1>1, <2>2, <2>4
  <2> QED
    BY <2>3, <2>4
<1>9. CASE UNCHANGED vars
  BY <1>9 DEF vars, hardware
<1> QED
  BY <1>3, <1>4, <1>5, <1>6, <1>7, <1>8, <1>9 DEF Next, StartStep

(* A device whose cores do not match the design is never written to nor     *)
(* started: Ocla::start verifies before it programs.                       *)
THEOREM OnlyVerifiedDevices == Spec => []UnverifiedUntouched
<1>1. Init => UnverifiedUntouched
  BY DEF Init, UnverifiedUntouched
<1>2. IInv /\ UnverifiedUntouched /\ [Next]_vars => UnverifiedUntouched'
  <2> SUFFICES ASSUME IInv, UnverifiedUntouched, [Next]_vars,
                      NEW d \in Device, ~verify(d)
               PROVE  /\ \A i \in Instance : regs'[d][i] = ResetRegisters
                      /\ \A m \in Domain : phase'[d][m] = "none"
    BY DEF UnverifiedUntouched
  <2>1. /\ \A i \in Instance : regs[d][i] = ResetRegisters
        /\ \A m \in Domain : phase[d][m] = "none"
    BY DEF UnverifiedUntouched
  <2>2. regs'[d] = regs[d] /\ phase'[d] = phase[d]
    BY <2>1, DeviceWrites
  <2> QED
    BY <2>1, <2>2
<1> QED
  BY <1>1, <1>2, InitInv, StepInv, PTL DEF Spec

-----------------------------------------------------------------------------
(* The mode register.                                                      *)

(* What OclaIP::configure writes never makes the analyser wait for ever.   *)
LEMMA ConfigureNotStuck ==
  ASSUME NEW cfg \in Config
  PROVE  ~Stuck(configure(cfg))
<1>1. cfg.sample_size \in Nat
  BY DEF Config
<1>2. CASE cfg.sample_size > 0
  BY <1>2 DEF Stuck, configure
<1>3. CASE cfg.sample_size = 0
  <2>1. 0 % NsSpan = 0
    BY SMT DEF NsSpan
  <2> QED
    BY <1>3, <2>1 DEF Stuck, configure
<1> QED
  BY <1>1, <1>2, <1>3

(* A channel write leaves the mode registers alone.                        *)
LEMMA ChannelWriteMode ==
  ASSUME IInv, pc # "idle", NEW cfg, WriteChannelWord(cfg),
         NEW d \in Device, NEW i \in Instance
  PROVE  regs'[d][i].tmtr = regs[d][i].tmtr
<1>1. /\ run.dev \in Device /\ Current \in Instance
      /\ regs \in [Device -> [Instance -> Registers]]
  BY RunFacts DEF IInv, TypeOK
<1>2. regs[run.dev][Current] \in Registers
  BY <1>1
<1> DEFINE old == regs[run.dev][Current]
           new == [old EXCEPT !.ch[run.ch] = Written(old.ch[run.ch], run.word, cfg)]
<1>3. new.tmtr = old.tmtr
  BY <1>2 DEF Registers
<1>4. regs' = [regs EXCEPT ![run.dev] = [regs[run.dev] EXCEPT ![Current] = new]]
  BY <1>1, <1>2 DEF WriteChannelWord, Registers
<1> HIDE DEF new
<1> QED
  BY <1>1, <1>3, <1>4

(* The only write to a mode register is that of ProgramMode.               *)
LEMMA ModeWrites ==
  ASSUME IInv, [Next]_vars, NEW d \in Device, NEW i \in Instance
  PROVE  \/ regs'[d][i].tmtr = regs[d][i].tmtr
         \/ /\ ProgramMode /\ d = run.dev /\ i = Current
            /\ regs'[d][i].tmtr = configure(config[run.dom])
<1>1. regs \in [Device -> [Instance -> Registers]]
  BY DEF IInv, TypeOK
<1>2. CASE ProgramMode
  <2>1. run.dev \in Device /\ Current \in Instance
    BY <1>2, RunFacts DEF ProgramMode
  <2> DEFINE old == regs[run.dev][Current]
             new == [old EXCEPT !.tmtr = configure(config[run.dom])]
  <2>2. new.tmtr = configure(config[run.dom])
    BY <1>1, <2>1 DEF Registers
  <2>3. regs' = [regs EXCEPT ![run.dev] = [regs[run.dev] EXCEPT ![Current] = new]]
    BY <1>1, <1>2, <2>1 DEF ProgramMode, Registers
  <2> HIDE DEF new
  <2> QED
    BY <1>1, <1>2, <2>1, <2>2, <2>3
<1>3. CASE ClearChannel
  BY <1>3, ChannelWriteMode DEF ClearChannel
<1>4. CASE ProgramTrigger
  BY <1>4, ChannelWriteMode DEF ProgramTrigger
<1>5. CASE SessionCommand \/ BeginStart
  BY <1>5 DEF SessionCommand, Load, Unload, Configure, AddTrigger, RejectEvent,
              EditTrigger, RemoveTrigger, ShowWaveform, BeginStart, Start, hardware
<1>6. CASE SkipTrigger \/ NextInstance \/ DummyWrite \/ Poll \/ GiveUp \/ Fetch
           \/ Arm \/ AssertFails \/ JtagFails \/ ProcessEnds
  BY <1>6 DEF SkipTrigger, NextInstance, DummyWrite, Poll, GiveUp, Fetch,
              Arm, AssertFails, JtagFails, ProcessEnds, hardware
<1>7. CASE \E e \in Device, m \in Domain : SamplingDone(e, m)
  BY <1>7 DEF SamplingDone
<1>8. CASE UNCHANGED vars
  BY <1>8 DEF vars, hardware
<1> QED
  BY <1>2, <1>3, <1>4, <1>5, <1>6, <1>7, <1>8 DEF Next, StartStep

(* The latched registers change only when ST rises, to what is programmed. *)
LEMMA LatchedWrites ==
  ASSUME IInv, [Next]_vars, NEW d \in Device, NEW i \in Instance
  PROVE  latched'[d][i] = latched[d][i] \/ latched'[d][i] = regs[d][i]
<1>1. latched \in [Device -> [Instance -> Registers]]
  BY DEF IInv, TypeOK
<1>2. CASE Arm
  <2> DEFINE now == [e \in Instance |-> IF e \in Members(run.dom)
                                          THEN regs[run.dev][e]
                                          ELSE latched[run.dev][e]]
  <2>1. latched' = latched \/ latched' = [latched EXCEPT ![run.dev] = now]
    BY <1>2 DEF Arm
  <2>2. now[i] = regs[run.dev][i] \/ now[i] = latched[run.dev][i]
    OBVIOUS
  <2> HIDE DEF now
  <2> QED
    BY <1>1, <2>1, <2>2
<1>3. CASE ProgramMode \/ ClearChannel \/ ProgramTrigger
  BY <1>3 DEF ProgramMode, ClearChannel, ProgramTrigger, WriteChannelWord
<1>5. CASE SessionCommand \/ BeginStart
  BY <1>5 DEF SessionCommand, Load, Unload, Configure, AddTrigger, RejectEvent,
              EditTrigger, RemoveTrigger, ShowWaveform, BeginStart, Start, hardware
<1>6. CASE SkipTrigger \/ NextInstance \/ DummyWrite \/ Poll \/ GiveUp \/ Fetch
           \/ AssertFails \/ JtagFails \/ ProcessEnds
  BY <1>6 DEF SkipTrigger, NextInstance, DummyWrite, Poll, GiveUp, Fetch,
              AssertFails, JtagFails, ProcessEnds, hardware
<1>7. CASE \E e \in Device, m \in Domain : SamplingDone(e, m)
  BY <1>7 DEF SamplingDone
<1>8. CASE UNCHANGED vars
  BY <1>8 DEF vars, hardware
<1> QED
  BY <1>2, <1>3, <1>5, <1>6, <1>7, <1>8 DEF Next, StartStep

(* OclaIP.cpp:71-73 holds of every register file at all times: there is no  *)
(* state in which the analyser would sample for ever.                      *)
THEOREM NeverWaitsForEver == Spec => []NeverStuck
<1>1. Init => NeverStuck
  BY DEF Init, NeverStuck, Stuck, ResetRegisters, ResetMode
<1>2. IInv /\ NeverStuck /\ [Next]_vars => NeverStuck'
  <2> SUFFICES ASSUME IInv, NeverStuck, [Next]_vars,
                      NEW d \in Device, NEW i \in Instance
               PROVE  ~Stuck(regs'[d][i].tmtr) /\ ~Stuck(latched'[d][i].tmtr)
    BY DEF NeverStuck
  <2>1. ~Stuck(regs[d][i].tmtr) /\ ~Stuck(latched[d][i].tmtr)
    BY DEF NeverStuck
  <2>2. ~Stuck(latched'[d][i].tmtr)
    BY <2>1, LatchedWrites
  <2>3. ~Stuck(regs'[d][i].tmtr)
    <3>1. CASE regs'[d][i].tmtr = regs[d][i].tmtr
      BY <2>1, <3>1
    <3>2. CASE ProgramMode /\ regs'[d][i].tmtr = configure(config[run.dom])
      <4>1. config[run.dom] \in Config
        BY <3>2, RunFacts DEF ProgramMode
      <4> QED
        BY <3>2, <4>1, ConfigureNotStuck
    <3> QED
      BY <3>1, <3>2, ModeWrites
  <2> QED
    BY <2>2, <2>3
<1> QED
  BY <1>1, <1>2, InitInv, StepInv, PTL DEF Spec

-----------------------------------------------------------------------------
(* Starting the acquisition.                                               *)

(* The dummy write has cleared ST when the write that arms comes.          *)
ArmReady == pc = "arm" => st[run.dev][First] = 0

LEMMA ArmReadyStep == IInv /\ ArmReady /\ [Next]_vars => ArmReady'
<1> SUFFICES ASSUME IInv, ArmReady, [Next]_vars, pc' = "arm"
             PROVE  st'[run.dev'][First'] = 0
  BY DEF ArmReady
<1>1. CASE DummyWrite
  <2>1. run.dev \in Device /\ run.dom \in Domain
    BY <1>1, RunFacts DEF DummyWrite
  <2>2. First \in Instance
    <3>1. InstancesOf[run.dom] \in Seq(Instance) /\ Len(InstancesOf[run.dom]) > 0
      BY <2>1, ConstantTypes
    <3> QED
      BY <3>1, ElementOfSeq, LenProperties DEF First
  <2>3. run' = run /\ First' = First
    BY <1>1 DEF DummyWrite, First
  <2> QED
    BY <1>1, <2>1, <2>2, <2>3 DEF DummyWrite, IInv, TypeOK
<1>2. CASE UNCHANGED <<pc, run, st>>
  BY <1>2 DEF ArmReady, First
<1>3. CASE SessionCommand
  <2>1. UNCHANGED <<pc, run, st>>
    BY <1>3 DEF SessionCommand, Idle, Load, Unload, Configure, AddTrigger,
                RejectEvent, EditTrigger, RemoveTrigger, ShowWaveform, hardware
  <2> QED
    BY <1>2, <2>1
<1>4. CASE BeginStart
  BY <1>4 DEF BeginStart, Start
<1>5. CASE ProgramMode \/ ClearChannel \/ SkipTrigger \/ ProgramTrigger \/ NextInstance
  BY <1>5 DEF ProgramMode, ClearChannel, SkipTrigger, ProgramTrigger, NextInstance
<1>6. CASE Arm \/ Poll \/ GiveUp \/ Fetch \/ AssertFails \/ JtagFails \/ ProcessEnds
  BY <1>6 DEF Arm, Poll, GiveUp, Fetch, AssertFails, JtagFails, ProcessEnds, Finish
<1>7. CASE \E d \in Device, m \in Domain : SamplingDone(d, m)
  <2>1. UNCHANGED <<pc, run, st>>
    BY <1>7 DEF SamplingDone
  <2> QED
    BY <1>2, <2>1
<1>8. CASE UNCHANGED vars
  BY <1>2, <1>8 DEF vars, hardware
<1> QED
  BY <1>1, <1>3, <1>4, <1>5, <1>6, <1>7, <1>8 DEF Next, StartStep

(* Also back to back, a start that gets as far as writing ST begins a new   *)
(* acquisition.                                                            *)
THEOREM StartBeginsAcquisition == Spec => StartArms
<1> DEFINE Armed == pc = "arm" /\ (pc' = "poll" \/ (pc' = "idle" /\ out'.kind = "armed"))
                      => phase'[run.dev][run.dom] = "sampling"
<1>1. Init => ArmReady
  BY DEF Init, ArmReady
<1>2. IInv /\ ArmReady /\ [Next]_vars => [Armed]_vars
  <2> SUFFICES ASSUME IInv, ArmReady, Next, pc = "arm",
                      pc' = "poll" \/ (pc' = "idle" /\ out'.kind = "armed")
               PROVE  phase'[run.dev][run.dom] = "sampling"
    OBVIOUS
  <2>1. Arm
    <3>1. ~SessionCommand /\ ~BeginStart
      BY DEF SessionCommand, Idle, Load, Unload, Configure, AddTrigger, RejectEvent,
             EditTrigger, RemoveTrigger, ShowWaveform, BeginStart, Start
    <3>2. ~(ProgramMode \/ ClearChannel \/ SkipTrigger \/ ProgramTrigger \/ NextInstance)
      BY DEF ProgramMode, ClearChannel, SkipTrigger, ProgramTrigger, NextInstance
    <3>3. ~(DummyWrite \/ Poll \/ GiveUp \/ Fetch \/ AssertFails)
      BY DEF DummyWrite, Poll, GiveUp, Fetch, AssertFails
    <3>4. ~(JtagFails \/ ProcessEnds)
      BY DEF JtagFails, ProcessEnds, Finish, Quiet
    <3>5. ~(\E d \in Device, m \in Domain : SamplingDone(d, m))
      BY DEF SamplingDone
    <3> QED
      BY <3>1, <3>2, <3>3, <3>4, <3>5 DEF Next, StartStep
  <2>2. /\ run.dev \in Device /\ run.dom \in Domain
        /\ phase \in [Device -> [Domain -> {"none", "sampling", "done"}]]
    BY RunFacts DEF IInv, TypeOK
  <2>3. phase' = [phase EXCEPT ![run.dev][run.dom] = "sampling"]
    BY <2>1 DEF Arm, ArmReady
  <2> QED
    BY <2>2, <2>3
<1> QED
  BY <1>1, <1>2, ArmReadyStep, InitInv, StepInv, PTL DEF Spec, StartArms

(***************************************************************************)
(* The trigger list: how many triggers an instance collects, and which     *)
(* bits they select.                                                       *)
(***************************************************************************)
(* Counting the triggers of an instance.                                   *)
Places(ts, i) == {n \in 1 .. Len(ts) : ts[n].inst = i}

LEMMA PlacesFinite ==
  ASSUME NEW S, NEW ts \in Seq(S), NEW i
  PROVE  /\ IsFiniteSet(Places(ts, i))
         /\ get_number_of_triggers(ts, i) = Cardinality(Places(ts, i))
         /\ get_number_of_triggers(ts, i) \in Nat
<1>1. Len(ts) \in Nat
  BY LenProperties
<1>2. IsFiniteSet(1 .. Len(ts))
  BY <1>1, FS_Interval
<1>3. Places(ts, i) \in SUBSET (1 .. Len(ts))
  BY DEF Places
<1>4. IsFiniteSet(Places(ts, i))
  BY <1>2, <1>3, FS_Subset
<1> QED
  BY <1>4, FS_CardinalityType DEF Places, get_number_of_triggers

LEMMA CountAppend ==
  ASSUME NEW S, NEW ts \in Seq(S), NEW x \in S, NEW i
  PROVE  get_number_of_triggers(Append(ts, x), i) =
           get_number_of_triggers(ts, i) + (IF x.inst = i THEN 1 ELSE 0)
<1>1. Append(ts, x) \in Seq(S) /\ Len(ts) \in Nat
  BY LenProperties
<1>2. Len(Append(ts, x)) = Len(ts) + 1
  OBVIOUS
<1>3. CASE x.inst = i
  <2>1. Places(Append(ts, x), i) = Places(ts, i) \cup {Len(ts) + 1}
    BY <1>1, <1>2, <1>3 DEF Places
  <2>2. Len(ts) + 1 \notin Places(ts, i)
    BY <1>1 DEF Places
  <2>3. /\ IsFiniteSet(Places(ts, i))
        /\ get_number_of_triggers(ts, i) = Cardinality(Places(ts, i))
        /\ get_number_of_triggers(Append(ts, x), i) = Cardinality(Places(Append(ts, x), i))
    BY <1>1, PlacesFinite
  <2>4. Cardinality(Places(ts, i) \cup {Len(ts) + 1}) = Cardinality(Places(ts, i)) + 1
    BY <2>2, <2>3, FS_AddElement, Zenon
  <2> QED
    BY <1>3, <2>1, <2>3, <2>4
<1>4. CASE x.inst # i
  <2>1. Places(Append(ts, x), i) = Places(ts, i)
    BY <1>1, <1>2, <1>4 DEF Places
  <2>2. get_number_of_triggers(Append(ts, x), i) = get_number_of_triggers(ts, i)
    BY <1>1, <2>1, PlacesFinite
  <2>3. get_number_of_triggers(ts, i) \in Nat
    BY PlacesFinite
  <2> QED
    BY <1>4, <2>2, <2>3
<1> QED
  BY <1>3, <1>4

LEMMA CountReplace ==
  ASSUME NEW S, NEW ts \in Seq(S), NEW n \in 1 .. Len(ts), NEW x \in S, NEW i
  PROVE  LET new == get_number_of_triggers([ts EXCEPT ![n] = x], i)
             old == get_number_of_triggers(ts, i)
         IN  /\ new <= old + 1
             /\ (x.inst # i \/ ts[n].inst = i) => new <= old
<1>1. [ts EXCEPT ![n] = x] \in Seq(S) /\ Len([ts EXCEPT ![n] = x]) = Len(ts)
  BY ReplaceType
<1> DEFINE us == [ts EXCEPT ![n] = x]
<1>2. \A k \in 1 .. Len(ts) : us[k] = IF k = n THEN x ELSE ts[k]
  OBVIOUS
<1>3. us \in Seq(S) /\ Len(us) = Len(ts)
  BY <1>1
<1> HIDE DEF us
<1>6. /\ get_number_of_triggers(us, i) = Cardinality(Places(us, i))
      /\ get_number_of_triggers(ts, i) = Cardinality(Places(ts, i))
      /\ Cardinality(Places(us, i)) \in Nat /\ Cardinality(Places(ts, i)) \in Nat
  BY <1>3, PlacesFinite
<1>7. SUFFICES /\ Cardinality(Places(us, i)) <= Cardinality(Places(ts, i)) + 1
               /\ (x.inst # i \/ ts[n].inst = i) =>
                    Cardinality(Places(us, i)) <= Cardinality(Places(ts, i))
  BY <1>6 DEF us
<1>4. CASE x.inst = i
  <2>1. Places(us, i) = Places(ts, i) \cup {n}
    BY <1>2, <1>3, <1>4 DEF Places
  <2>2. /\ Cardinality(Places(us, i)) <= Cardinality(Places(ts, i)) + 1
        /\ ts[n].inst = i => Cardinality(Places(us, i)) <= Cardinality(Places(ts, i))
    <3>1. ts[n].inst = i => n \in Places(ts, i)
      BY DEF Places
    <3>2. Cardinality(Places(ts, i)) \in Nat
      BY PlacesFinite
    <3>3. Cardinality(Places(us, i)) = IF n \in Places(ts, i)
                                         THEN Cardinality(Places(ts, i))
                                         ELSE Cardinality(Places(ts, i)) + 1
      BY <2>1, PlacesFinite, FS_AddElement
    <3> QED
      BY <3>1, <3>2, <3>3
  <2> QED
    BY <1>4, <2>2
<1>5. CASE x.inst # i
  <2>1. Places(us, i) \in SUBSET Places(ts, i)
    BY <1>2, <1>3, <1>5 DEF Places
  <2>2. Cardinality(Places(us, i)) <= Cardinality(Places(ts, i))
    BY <2>1, PlacesFinite, FS_Subset
  <2> QED
    BY <1>6, <2>2
<1> QED
  BY <1>4, <1>5

LEMMA CountWithout ==
  ASSUME NEW S, NEW ts \in Seq(S), NEW n \in 1 .. Len(ts), NEW i
  PROVE  get_number_of_triggers(Without(ts, n), i) <= get_number_of_triggers(ts, i)
<1> DEFINE us == Without(ts, n)
           A == Places(us, i)
           B == Places(ts, i)
           shift == [k \in A |-> IF k < n THEN k ELSE k + 1]
<1>1. us \in Seq(S) /\ Len(us) = Len(ts) - 1 /\ Len(ts) \in Nat
  BY WithoutType, LenProperties
<1>2. \A k \in A : /\ k \in 1 .. Len(ts) - 1
                   /\ (IF k < n THEN ts[k] ELSE ts[k + 1]).inst = i
  BY <1>1 DEF Places, Without
<1>3. \A k \in A : (IF k < n THEN k ELSE k + 1) \in B
  <2> SUFFICES ASSUME NEW k \in A PROVE (IF k < n THEN k ELSE k + 1) \in B
    OBVIOUS
  <2>1. k \in 1 .. Len(ts) - 1 /\ n \in Nat
    BY <1>1, <1>2
  <2>2. CASE k < n
    BY <1>1, <1>2, <2>1, <2>2 DEF Places
  <2>3. CASE ~(k < n)
    <3>1. k + 1 \in 1 .. Len(ts) /\ ts[k + 1].inst = i
      BY <1>1, <1>2, <2>1, <2>3
    <3> QED
      BY <2>3, <3>1 DEF Places
  <2> QED
    BY <2>2, <2>3
<1>4. shift \in [A -> B]
  BY <1>3
<1>5. \A j, k \in A : shift[j] = shift[k] => j = k
  BY <1>2
<1>6. shift \in Injection(A, B)
  BY <1>4, <1>5 DEF Injection, IsInjective
<1>7. Cardinality(A) <= Cardinality(B)
  BY <1>6, PlacesFinite, FS_Injection
<1> QED
  BY <1>1, <1>7, PlacesFinite

-----------------------------------------------------------------------------
(* How a step changes the triggers of a domain.                            *)

Added(d, r, s, m) ==
  /\ r.dom = m /\ Named(r, s) /\ Acceptable(d, r, s)
  /\ HasFreeChannel(d, m, s.inst)
  /\ triggers'[m] = Append(triggers[m], MakeTrigger(d, r, s))

Edited(d, r, s, m, n) ==
  /\ r.dom = m /\ Named(r, s) /\ Acceptable(d, r, s)
  /\ triggers[m][n].probe # r.probe => HasFreeChannel(d, m, s.inst)
  /\ triggers'[m] = [triggers[m] EXCEPT ![n] = MakeTrigger(d, r, s)]

LEMMA TriggerChanges ==
  ASSUME IInv, [Next]_vars, NEW m \in Domain
  PROVE  \/ triggers'[m] = triggers[m]
         \/ triggers'[m] = <<>>
         \/ \E d \in Device, r \in TriggerRequest, s \in Signal : Added(d, r, s, m)
         \/ \E d \in Device, r \in TriggerRequest, s \in Signal :
              \E n \in 1 .. Len(triggers[m]) : Edited(d, r, s, m, n)
         \/ \E n \in 1 .. Len(triggers[m]) : triggers'[m] = Without(triggers[m], n)
<1>1. triggers \in [Domain -> Seq(Trigger)]
  BY DEF IInv, TypeOK
<1>2. CASE \E d \in Device, r \in TriggerRequest : AddTrigger(d, r)
  <2>1. PICK d \in Device, r \in TriggerRequest : AddTrigger(d, r)
    BY <1>2
  <2>2. PICK s \in Signal :
          /\ Named(r, s) /\ Acceptable(d, r, s) /\ HasFreeChannel(d, r.dom, s.inst)
          /\ triggers' = [triggers EXCEPT ![r.dom] = Append(@, MakeTrigger(d, r, s))]
    BY <2>1 DEF AddTrigger
  <2>3. CASE r.dom = m
    <3>1. Added(d, r, s, m)
      BY <1>1, <2>2, <2>3 DEF Added
    <3> QED
      BY <3>1
  <2>4. CASE r.dom # m
    BY <1>1, <2>2, <2>4
  <2> QED
    BY <2>3, <2>4
<1>3. CASE \E r \in TriggerRequest : \E n \in 1 .. Len(triggers[r.dom]) :
             \E d \in Device : EditTrigger(d, n, r)
  <2>0. PICK r \in TriggerRequest : \E n \in 1 .. Len(triggers[r.dom]) :
          \E d \in Device : EditTrigger(d, n, r)
    BY <1>3
  <2>1. PICK n \in 1 .. Len(triggers[r.dom]), d \in Device : EditTrigger(d, n, r)
    BY <2>0
  <2>2. PICK s \in Signal :
          /\ Named(r, s) /\ Acceptable(d, r, s)
          /\ triggers[r.dom][n].probe # r.probe => HasFreeChannel(d, r.dom, s.inst)
          /\ triggers' = [triggers EXCEPT ![r.dom][n] = MakeTrigger(d, r, s)]
    BY <2>1 DEF EditTrigger
  <2>3. CASE r.dom = m
    <3>1. Edited(d, r, s, m, n) /\ n \in 1 .. Len(triggers[m])
      BY <1>1, <2>2, <2>3 DEF Edited
    <3> QED
      BY <3>1
  <2>4. CASE r.dom # m
    BY <1>1, <2>2, <2>4
  <2> QED
    BY <2>3, <2>4
<1>4. CASE \E k \in Domain : \E n \in 1 .. Len(triggers[k]) :
             \E d \in Device : RemoveTrigger(d, k, n)
  <2>0. PICK k \in Domain : \E n \in 1 .. Len(triggers[k]) :
          \E d \in Device : RemoveTrigger(d, k, n)
    BY <1>4
  <2>1. PICK n \in 1 .. Len(triggers[k]), d \in Device : RemoveTrigger(d, k, n)
    BY <2>0
  <2>2. triggers' = [triggers EXCEPT ![k] = Without(@, n)]
    BY <2>1 DEF RemoveTrigger
  <2>3. CASE k = m
    BY <1>1, <2>2, <2>3
  <2>4. CASE k # m
    BY <1>1, <2>2, <2>4
  <2> QED
    BY <2>3, <2>4
<1>5. CASE Unload \/ ProcessEnds
  BY <1>5 DEF Unload, ProcessEnds, ForgetSession
<1>6. CASE UNCHANGED triggers
  BY <1>6
<1>7. CASE \/ Load
           \/ \E d \in Device, c \in ConfigRequest : Configure(d, c)
           \/ \E d \in Device, r \in TriggerRequest : RejectEvent(d, r)
           \/ \E d \in Device, k \in Domain : ShowWaveform(d, k)
           \/ BeginStart
  BY <1>6, <1>7 DEF Load, Configure, RejectEvent, ShowWaveform, BeginStart, Start, session
<1>8. CASE StartStep \/ JtagFails
  BY <1>6, <1>8 DEF StartStep, ProgramMode, ClearChannel, SkipTrigger, ProgramTrigger,
              WriteChannelWord, NextInstance, DummyWrite, Arm, Poll, GiveUp, Fetch,
              AssertFails, JtagFails, session
<1>9. CASE \/ \E d \in Device, k \in Domain : SamplingDone(d, k)
           \/ UNCHANGED vars
  BY <1>6, <1>9 DEF SamplingDone, vars, session
<1> QED
  BY <1>2, <1>3, <1>4, <1>5, <1>7, <1>8, <1>9 DEF Next, SessionCommand

(* Every trigger of the list after a step was on it before, or was made     *)
(* from a request that names a signal and was found acceptable.            *)
Made(d, r, s, m, n) ==
  /\ r.dom = m /\ Named(r, s) /\ Acceptable(d, r, s)
  /\ triggers'[m][n] = MakeTrigger(d, r, s)

LEMMA TriggerOrigin ==
  ASSUME IInv, [Next]_vars, NEW m \in Domain, NEW n \in 1 .. Len(triggers'[m])
  PROVE  \/ \E k \in 1 .. Len(triggers[m]) : triggers'[m][n] = triggers[m][k]
         \/ \E d \in Device, r \in TriggerRequest, s \in Signal : Made(d, r, s, m, n)
<1> DEFINE Old == \E k \in 1 .. Len(triggers[m]) : triggers'[m][n] = triggers[m][k]
<1>1. triggers[m] \in Seq(Trigger) /\ Len(triggers[m]) \in Nat
  BY LenProperties DEF IInv, TypeOK
<1>2. CASE triggers'[m] = triggers[m]
  BY <1>1, <1>2
<1>3. CASE triggers'[m] = <<>>
  BY <1>3
<1>4. ASSUME NEW d \in Device, NEW r \in TriggerRequest, NEW s \in Signal,
             Added(d, r, s, m)
      PROVE  Old \/ Made(d, r, s, m, n)
  <2> DEFINE t == MakeTrigger(d, r, s)
  <2> HIDE DEF t
  <2>1. triggers'[m] = Append(triggers[m], t)
    BY <1>4 DEF Added, t
  <2>2. \/ n \in 1 .. Len(triggers[m]) /\ triggers'[m][n] = triggers[m][n]
        \/ triggers'[m][n] = t
    BY <1>1, <2>1
  <2> QED
    BY <1>4, <2>2 DEF Added, Made, t
<1>5. ASSUME NEW d \in Device, NEW r \in TriggerRequest, NEW s \in Signal,
             NEW k \in 1 .. Len(triggers[m]), Edited(d, r, s, m, k)
      PROVE  Old \/ Made(d, r, s, m, n)
  <2> DEFINE t == MakeTrigger(d, r, s)
  <2> HIDE DEF t
  <2>1. triggers'[m] = [triggers[m] EXCEPT ![k] = t]
    BY <1>5 DEF Edited, t
  <2>2. \/ n \in 1 .. Len(triggers[m]) /\ triggers'[m][n] = triggers[m][n]
        \/ triggers'[m][n] = t
    BY <1>1, <2>1
  <2> QED
    BY <1>5, <2>2 DEF Edited, Made, t
<1>6. CASE \E k \in 1 .. Len(triggers[m]) : triggers'[m] = Without(triggers[m], k)
  <2>1. PICK k \in 1 .. Len(triggers[m]) : triggers'[m] = Without(triggers[m], k)
    BY <1>6
  <2>2. n \in 1 .. Len(triggers[m]) - 1
    BY <1>1, <2>1, WithoutType
  <2>3. triggers'[m][n] = IF n < k THEN triggers[m][n] ELSE triggers[m][n + 1]
    BY <2>1, <2>2 DEF Without
  <2>4. n \in 1 .. Len(triggers[m]) /\ n + 1 \in 1 .. Len(triggers[m])
    BY <1>1, <2>2
  <2> QED
    BY <2>3, <2>4
<1> HIDE DEF Old
<1>7. Old \/ \E d \in Device, r \in TriggerRequest, s \in Signal : Made(d, r, s, m, n)
  BY <1>2, <1>3, <1>4, <1>5, <1>6, TriggerChanges DEF Old
<1> QED
  BY <1>7 DEF Old

-----------------------------------------------------------------------------
(* A trigger belongs to a signal of its domain, in the instance that        *)
(* probes it.                                                              *)
Probes(t, m, s) ==
  s.dom = m /\ s.probe = t.probe /\ s.name = t.name /\ s.inst = t.inst

TriggersProbe ==
  \A m \in Domain : \A n \in 1 .. Len(triggers[m]) :
    \E s \in Signal : Probes(triggers[m][n], m, s)

LEMMA MadeTriggerProbes ==
  ASSUME NEW d \in Device, NEW r \in TriggerRequest, NEW s \in Signal, Named(r, s)
  PROVE  Probes(MakeTrigger(d, r, s), r.dom, s)
  BY DEF Named, Probes, MakeTrigger

LEMMA TriggersProbeStep == IInv /\ TriggersProbe /\ [Next]_vars => TriggersProbe'
<1> SUFFICES ASSUME IInv, TriggersProbe, [Next]_vars,
                    NEW m \in Domain, NEW n \in 1 .. Len(triggers'[m])
             PROVE  \E s \in Signal : Probes(triggers'[m][n], m, s)
  BY DEF TriggersProbe, Probes
<1>1. CASE \E k \in 1 .. Len(triggers[m]) : triggers'[m][n] = triggers[m][k]
  BY <1>1 DEF TriggersProbe
<1>2. CASE \E d \in Device, r \in TriggerRequest, s \in Signal : Made(d, r, s, m, n)
  BY <1>2, MadeTriggerProbes DEF Made
<1> QED
  BY <1>1, <1>2, TriggerOrigin

(* However triggers are added, moved to another probe and removed, and      *)
(* whichever boards the commands name, no instance collects more triggers  *)
(* than some verified board has channels for.                              *)
THEOREM TriggersStayWithinLimit == Spec => []TriggerLimit
<1>1. Init => TriggersProbe /\ TriggerLimit
  <2> SUFFICES ASSUME Init PROVE TriggersProbe /\ TriggerLimit
    OBVIOUS
  <2>1. \A m \in Domain : triggers[m] = <<>>
    BY DEF Init
  <2>2. \A i : get_number_of_triggers(<<>>, i) = 0
    <3>1. \A i : Places(<<>>, i) = {}
      BY DEF Places
    <3> QED
      BY <3>1, FS_EmptySet DEF Places, get_number_of_triggers
  <2>3. TriggersProbe
    BY <2>1 DEF TriggersProbe
  <2> QED
    BY <2>1, <2>2, <2>3 DEF TriggerLimit
<1>2. IInv /\ TriggersProbe /\ TriggerLimit /\ [Next]_vars => TriggerLimit'
  <2> SUFFICES ASSUME IInv, TriggersProbe, TriggerLimit, [Next]_vars,
                      NEW m \in Domain, NEW i \in Instance,
                      get_number_of_triggers(triggers'[m], i) > 0
               PROVE  \E d \in Device : verify(d) /\
                        get_number_of_triggers(triggers'[m], i) <= Hardware[d][i].tc
    BY DEF TriggerLimit
  <2> DEFINE old == get_number_of_triggers(triggers[m], i)
             new == get_number_of_triggers(triggers'[m], i)
  <2>1. /\ triggers[m] \in Seq(Trigger) /\ triggers'[m] \in Seq(Trigger)
        /\ old \in Nat /\ new \in Nat /\ new > 0
    BY StepInv, PlacesFinite DEF IInv, TypeOK
  <2>2. \A d \in Device : Hardware[d][i].tc \in Nat
    BY ConstantTypes
  <2>3. CASE new <= old
    <3>1. PICK d \in Device : verify(d) /\ old <= Hardware[d][i].tc
      BY <2>1, <2>3 DEF TriggerLimit
    <3>2. new <= Hardware[d][i].tc
      BY <2>1, <2>2, <2>3, <3>1
    <3> QED
      BY <3>1, <3>2
  <2>4. ASSUME NEW d \in Device, verify(d), HasFreeChannel(d, m, i), new <= old + 1
        PROVE  \E e \in Device : verify(e) /\ new <= Hardware[e][i].tc
    <3>1. old < Hardware[d][i].tc
      BY <2>4 DEF HasFreeChannel
    <3>2. new <= Hardware[d][i].tc
      BY <2>1, <2>2, <2>4, <3>1
    <3> QED
      BY <2>4, <3>2
  <2>5. CASE \E d \in Device, r \in TriggerRequest, s \in Signal : Added(d, r, s, m)
    <3>1. PICK d \in Device, r \in TriggerRequest, s \in Signal : Added(d, r, s, m)
      BY <2>5
    <3> DEFINE t == MakeTrigger(d, r, s)
    <3>2. t \in Trigger /\ t.inst = s.inst
      BY MakeTriggerType DEF MakeTrigger
    <3> HIDE DEF t
    <3>3. new = old + (IF t.inst = i THEN 1 ELSE 0)
      BY <2>1, <3>1, <3>2, CountAppend DEF Added, t
    <3>4. CASE s.inst = i
      <4>1. verify(d) /\ HasFreeChannel(d, m, i)
        BY <3>1, <3>4 DEF Added, Acceptable
      <4>2. new <= old + 1
        BY <2>1, <3>2, <3>3, <3>4
      <4> QED
        BY <2>4, <4>1, <4>2
    <3>5. CASE s.inst # i
      <4>1. new <= old
        BY <2>1, <3>2, <3>3, <3>5
      <4> QED
        BY <2>3, <4>1
    <3> QED
      BY <3>4, <3>5
  <2>6. CASE \E d \in Device, r \in TriggerRequest, s \in Signal :
               \E n \in 1 .. Len(triggers[m]) : Edited(d, r, s, m, n)
    <3>0. PICK d \in Device, r \in TriggerRequest, s \in Signal :
            \E n \in 1 .. Len(triggers[m]) : Edited(d, r, s, m, n)
      BY <2>6
    <3>1. PICK n \in 1 .. Len(triggers[m]) : Edited(d, r, s, m, n)
      BY <3>0
    <3> DEFINE t == MakeTrigger(d, r, s)
    <3>2. t \in Trigger /\ t.inst = s.inst
      BY MakeTriggerType DEF MakeTrigger
    <3> HIDE DEF t
    <3>3. /\ new <= old + 1
          /\ (t.inst # i \/ triggers[m][n].inst = i) => new <= old
      <4>1. triggers'[m] = [triggers[m] EXCEPT ![n] = t]
        BY <3>1 DEF Edited, t
      <4> QED
        BY <2>1, <3>2, <4>1, CountReplace
    <3>4. triggers[m][n].probe = r.probe => triggers[m][n].inst = s.inst
      <4>1. PICK q \in Signal : Probes(triggers[m][n], m, q)
        BY DEF TriggersProbe
      <4>2. s.dom = m /\ s.probe = r.probe
        BY <3>1 DEF Edited, Named
      <4> QED
        BY <4>1, <4>2, ProbeInOneInstance DEF Probes
    <3>5. CASE t.inst # i \/ triggers[m][n].inst = i
      BY <2>3, <3>3, <3>5
    <3>6. CASE t.inst = i /\ triggers[m][n].inst # i
      <4>1. triggers[m][n].probe # r.probe
        BY <3>2, <3>4, <3>6
      <4>2. verify(d) /\ HasFreeChannel(d, m, i)
        BY <3>1, <3>2, <3>6, <4>1 DEF Edited, Acceptable
      <4> QED
        BY <2>4, <3>3, <3>6, <4>2
    <3> QED
      BY <3>5, <3>6
  <2>7. CASE \E n \in 1 .. Len(triggers[m]) : triggers'[m] = Without(triggers[m], n)
    <3>1. new <= old
      BY <2>1, <2>7, CountWithout
    <3> QED
      BY <2>3, <3>1
  <2>8. CASE triggers'[m] = triggers[m]
    BY <2>1, <2>3, <2>8
  <2>9. triggers'[m] # <<>>
    <3>1. Places(<<>>, i) = {}
      BY DEF Places
    <3>2. get_number_of_triggers(<<>>, i) = 0
      BY <3>1, FS_EmptySet DEF Places, get_number_of_triggers
    <3> QED
      BY <2>1, <3>2
  <2> QED
    BY <2>5, <2>6, <2>7, <2>8, <2>9, TriggerChanges
<1> QED
  BY <1>1, <1>2, InitInv, StepInv, TriggersProbeStep, PTL DEF Spec

-----------------------------------------------------------------------------
(* Bit ranges.                                                             *)

LEMMA SmallRemainder ==
  ASSUME NEW n \in Nat \ {0}, NEW x \in 0 .. n - 1
  PROVE  x % n = x
  OBVIOUS

LEMMA WholeRemainder ==
  ASSUME NEW n \in Nat \ {0}
  PROVE  n % n = 0
  OBVIOUS

InRange(t, s) ==
  t.ranged => \/ EndsAtTop(t)
              \/ t.width > 0 /\ t.pos + t.width <= s.bitwidth

(* The check of add_trigger and edit_trigger does what it is for, unless    *)
(* the last bit named is 2^32-1.                                           *)
LEMMA AcceptableInRange ==
  ASSUME NEW d \in Device, NEW r \in TriggerRequest, NEW s \in Signal,
         Acceptable(d, r, s)
  PROVE  InRange(MakeTrigger(d, r, s), s)
<1>1. /\ r.lo \in 0 .. Modulus - 1 /\ r.hi \in 0 .. Modulus - 1
      /\ Modulus \in Nat \ {0} /\ s.bitwidth \in Nat
  BY ConstantTypes
<1>2. r.lo <= r.hi
  BY DEF Acceptable
<1>3. r.hi - r.lo + 1 \in 1 .. Modulus
  BY <1>1, <1>2
<1>4. CASE r.hi = Modulus - 1
  <2>1. (r.lo + Width(r)) % Modulus = 0
    <3>1. CASE r.lo = 0
      <4>1. Width(r) = 0
        BY <1>1, <1>4, <3>1, WholeRemainder DEF Width
      <4> QED
        BY <1>1, <3>1, <4>1, SmallRemainder
    <3>2. CASE r.lo # 0
      <4>1. r.hi - r.lo + 1 \in 0 .. Modulus - 1
        BY <1>1, <1>2, <3>2
      <4>2. Width(r) = r.hi - r.lo + 1
        BY <1>1, <4>1, SmallRemainder DEF Width
      <4>3. r.lo + Width(r) = Modulus
        BY <1>1, <1>4, <4>2
      <4> QED
        BY <1>1, <4>3, WholeRemainder
    <3> QED
      BY <3>1, <3>2
  <2> QED
    BY <2>1 DEF InRange, EndsAtTop, MakeTrigger
<1>5. CASE r.hi # Modulus - 1
  <2>1. Width(r) = r.hi - r.lo + 1
    <3>1. r.hi - r.lo + 1 \in 0 .. Modulus - 1
      BY <1>1, <1>2, <1>5
    <3> QED
      BY <1>1, <3>1, SmallRemainder DEF Width
  <2>2. (r.lo + Width(r)) % Modulus = r.lo + Width(r)
    <3>1. r.lo + Width(r) \in 0 .. Modulus - 1
      BY <1>1, <1>2, <1>5, <2>1
    <3> QED
      BY <1>1, <3>1, SmallRemainder
  <2>3. r.ranged => Width(r) > 0 /\ r.lo + Width(r) <= s.bitwidth
    BY <1>1, <1>2, <2>1, <2>2 DEF Acceptable
  <2> QED
    BY <2>3 DEF InRange, MakeTrigger
<1> QED
  BY <1>4, <1>5

(* Whatever the command lines name, after any sequence of adds, edits and   *)
(* removals every trigger on part of a signal selects bits the signal has, *)
(* or else ends at bit 2^32-1.                                              *)
THEOREM RangesStayInSignal == Spec => []RangeInsideSignal
<1> DEFINE Good(t, m) == \E s \in Signal : Probes(t, m, s) /\ InRange(t, s)
<1>1. RangeInsideSignal <=> \A m \in Domain : \A n \in 1 .. Len(triggers[m]) : Good(triggers[m][n], m)
  BY DEF RangeInsideSignal, Probes, InRange
<1>2. Init => RangeInsideSignal
  BY <1>1 DEF Init
<1>3. IInv /\ RangeInsideSignal /\ [Next]_vars => RangeInsideSignal'
  <2> SUFFICES ASSUME IInv, RangeInsideSignal, [Next]_vars,
                      NEW m \in Domain, NEW n \in 1 .. Len(triggers'[m])
               PROVE  Good(triggers'[m][n], m)
    BY DEF RangeInsideSignal, Probes, InRange
  <2>1. CASE \E k \in 1 .. Len(triggers[m]) : triggers'[m][n] = triggers[m][k]
    BY <1>1, <2>1
  <2>2. CASE \E d \in Device, r \in TriggerRequest, s \in Signal : Made(d, r, s, m, n)
    BY <2>2, MadeTriggerProbes, AcceptableInRange DEF Made
  <2> QED
    BY <2>1, <2>2, TriggerOrigin
<1> QED
  BY <1>2, <1>3, InitInv, StepInv, PTL DEF Spec
=============================================================================
