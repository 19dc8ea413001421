------------------------ MODULE OclaRefinementProofs ------------------------
(***************************************************************************)
(* What a start command leaves in the registers, for every design, every   *)
(* set of boards and every command line: when ST rises, every instance of  *)
(* the domain holds the configuration and the triggers of the session and  *)
(* nothing of what was programmed before.  From it follow that OclaDebugger *)
(* implements OclaAcquisition and that waveforms are what they are said to *)
(* be.                                                                     *)
(***************************************************************************)
EXTENDS OclaRefinement, OclaDebuggerProofs

(* The triggers of instance i before the j-th; the j-th one goes to the    *)
(* channel with their number.                                              *)
Before(ts, i, j) == {n \in 1 .. j - 1 : ts[n].inst = i}
Rank(ts, i, j) == Cardinality(Before(ts, i, j))

(* The session's values fit the fields of the registers.                   *)
ConfigFits == \A m \in Domain : config[m].sample_size < NsSpan

TriggerFits ==
  \A m \in Domain : \A n \in 1 .. Len(triggers[m]) :
    /\ triggers[m][n].cfg.event \in EventsOf(triggers[m][n].cfg.type)
    /\ triggers[m][n].cfg.probe_num < PsSpan

(* Channels an instance does not have are never written.                   *)
SpareChannelsReset ==
  \A d \in Device, i \in Instance :
    \A n \in Channel : n >= Hardware[d][i].tc => regs[d][i].ch[n] = ResetChannel

(* A channel that got the words of configure_channel before this one.      *)
Half(reg, word, cfg) ==
  /\ word > 1 => /\ reg.tssr.ps = cfg.probe_num % PsSpan
                 /\ cfg.type = VALUE_COMPARE =>
                      reg.tssr.cw = (cfg.compare_width - 1) % CwSpan
  /\ word > 2 => /\ reg.tcur.tt = cfg.type
                 /\ cfg.type = EDGE => reg.tcur.et = cfg.event % SmallSpan
                 /\ cfg.type = LEVEL => reg.tcur.lt = cfg.event % SmallSpan
                 /\ cfg.type = VALUE_COMPARE => reg.tcur.vc = cfg.event % SmallSpan

(* The register file r holds the triggers of instance i before the j-th,    *)
(* and the channels without one are off.                                   *)
TriggersHeld(r, ts, i, j) ==
  \A q \in 1 .. j - 1 : ts[q].inst = i =>
    /\ Rank(ts, i, q) \in Channel
    /\ get_channel_config(r.ch[Rank(ts, i, q)]) = Effective(ts[q].cfg)

OthersOff(r, ts, i, j, busy) ==
  \A n \in Channel \ busy :
    (\A q \in 1 .. j - 1 : ts[q].inst = i => Rank(ts, i, q) # n) =>
      get_channel_config(r.ch[n]) = ClearConfig

Programmed(r, m, i) ==
  /\ r.tmtr = configure(config[m])
  /\ TriggersHeld(r, triggers[m], i, Len(triggers[m]) + 1)
  /\ OthersOff(r, triggers[m], i, Len(triggers[m]) + 1, {})

(* How far the start command has got, phase by phase.                      *)
InstancesDone(n) ==
  \A k \in 1 .. n :
    Programmed(regs[run.dev][InstancesOf[run.dom][k]], run.dom, InstancesOf[run.dom][k])

File == regs[run.dev][Current]

Clearing ==
  /\ File.tmtr = configure(config[run.dom])
  /\ \A n \in Channel : n < run.ch => get_channel_config(File.ch[n]) = ClearConfig
  /\ Half(File.ch[run.ch], run.word, ClearConfig)

Triggering ==
  /\ File.tmtr = configure(config[run.dom])
  /\ run.j <= Len(triggers[run.dom]) + 1
  /\ run.ch = Rank(triggers[run.dom], Current, run.j)
  /\ TriggersHeld(File, triggers[run.dom], Current, run.j)
  /\ OthersOff(File, triggers[run.dom], Current, run.j,
               IF run.word = 1 THEN {} ELSE {run.ch})
  /\ run.word > 1 => /\ ProgrammingTrigger
                     /\ run.ch < Hardware[run.dev][Current].tc
                     /\ Half(File.ch[run.ch], run.word, ThisTrigger.cfg)

ProgramOK ==
  /\ pc \in {"configure", "clear", "trigger"} => InstancesDone(run.k - 1)
  /\ pc = "configure" => run.word = 1
  /\ pc = "clear" => Clearing
  /\ pc = "trigger" => Triggering
  /\ pc = "arm" => InstancesDone(Len(InstancesOf[run.dom]))

(* Which acquisition the mode registers belong to.                         *)
Underway(d, m) ==
  /\ pc \in Programming /\ ~(pc = "configure" /\ run.k = 1)
  /\ run.dev = d /\ run.dom = m

ModesMatch ==
  \A d \in Device, m \in Domain :
    phase[d][m] # "none" /\ m \notin torn[d] /\ ~Underway(d, m) =>
      \A i \in Members(m) : regs[d][i].tmtr = latched[d][i].tmtr

FixedNumber(tmtr) == tmtr.fns = 1 <=> tmtr.ns > 0
ModesSound ==
  \A d \in Device, i \in Instance :
    FixedNumber(regs[d][i].tmtr) /\ FixedNumber(latched[d][i].tmtr)

(* A start command that waits polls and fetches what it armed.             *)
Waiting ==
  /\ pc # "idle" => out.kind # "waveform"
  /\ pc \in {"arm", "poll", "fetch"} =>
       \A i \in Members(run.dom) : regs[run.dev][i].tmtr = configure(config[run.dom])
  /\ pc = "fetch" => phase[run.dev][run.dom] = "done"

-----------------------------------------------------------------------------
(* What the registers say.                                                 *)

(* A configuration whose sample size fits TMTR.NS is read back as it was    *)
(* written.                                                                *)
LEMMA ConfigDecodes ==
  ASSUME NEW cfg \in Config, cfg.sample_size < NsSpan
  PROVE  get_config(configure(cfg)) = cfg
<1>1. /\ cfg.mode \in 0 .. 3 /\ cfg.condition \in 0 .. 3
      /\ cfg.sample_size \in 0 .. NsSpan - 1
      /\ cfg = [mode |-> cfg.mode, condition |-> cfg.condition,
                sample_size |-> cfg.sample_size]
  BY Spans, SMT DEF Config
<1>2. cfg.mode % SmallSpan = cfg.mode /\ cfg.condition % SmallSpan = cfg.condition
  BY <1>1, SMT DEF SmallSpan
<1>3. cfg.sample_size % NsSpan = cfg.sample_size
  BY <1>1, Spans, SmallRemainder
<1> QED
  BY <1>1, <1>2, <1>3 DEF get_config, configure

(* Registers nobody wrote say that nothing is set.                         *)
LEMMA ResetDecodes ==
  /\ get_config(ResetMode) = DefaultConfig
  /\ get_channel_config(ResetChannel) = ClearConfig
  BY DEF get_config, ResetMode, DefaultConfig, get_channel_config, ResetChannel,
         ClearConfig, TRIGGER_NONE, EDGE, LEVEL, VALUE_COMPARE, NO_EVENT

(* Each of the first two writes brings a channel one word further.         *)
LEMMA HalfStep ==
  ASSUME NEW reg \in ChannelRegister, NEW cfg \in TriggerConfig,
         NEW w \in 1 .. 2, Half(reg, w, cfg)
  PROVE  Half(Written(reg, w, cfg), w + 1, cfg)
<1>1. CASE w = 1
  BY <1>1 DEF Half, Written, Tssr
<1>2. CASE w = 2
  BY <1>2, SMT DEF Half, Written, Tcur, EDGE, LEVEL, VALUE_COMPARE
<1> QED
  BY <1>1, <1>2

(* The third write turns a channel that is being cleared off ...           *)
LEMMA ClearDecodes ==
  ASSUME NEW reg \in ChannelRegister, Half(reg, 3, ClearConfig)
  PROVE  get_channel_config(Written(reg, 3, ClearConfig)) = ClearConfig
<1>1. 0 % PsSpan = 0
  BY SMT DEF PsSpan
<1>2. reg.tssr.ps = 0 /\ reg.tcur.tt = 0
  BY <1>1 DEF Half, ClearConfig, TRIGGER_NONE
<1> QED
  BY <1>2 DEF get_channel_config, Written, ClearConfig, TRIGGER_NONE, EDGE, LEVEL,
              VALUE_COMPARE, NO_EVENT

(* ... and makes one that is being programmed say what the trigger says.   *)
LEMMA TriggerDecodes ==
  ASSUME NEW reg \in ChannelRegister, NEW cfg \in TriggerConfig, NEW max \in Nat,
         cfg.event \in EventsOf(cfg.type), cfg.probe_num < PsSpan,
         CompareWidthFits(cfg, max), max <= CwSpan,
         Half(reg, 3, cfg)
  PROVE  get_channel_config(Written(reg, 3, cfg)) = Effective(cfg)
<1> DEFINE new == Written(reg, 3, cfg)
           low == cfg.event % SmallSpan
<1>1. /\ cfg.type \in 0 .. 3 /\ cfg.probe_num \in 0 .. PsSpan - 1
      /\ cfg.event \in Nat /\ cfg.compare_width \in Nat /\ cfg.value \in Nat
      /\ cfg = [type |-> cfg.type, event |-> cfg.event, value |-> cfg.value,
                compare_width |-> cfg.compare_width, probe_num |-> cfg.probe_num]
  BY Spans, SMT DEF TriggerConfig, TriggerType
<1>2. cfg.probe_num % PsSpan = cfg.probe_num
  BY <1>1, Spans, SmallRemainder
<1>3. /\ new.tssr = reg.tssr /\ new.tcur = reg.tcur
      /\ new.tdcr = IF cfg.type = 3 THEN cfg.value ELSE reg.tdcr
  BY DEF Written, Tdcr, VALUE_COMPARE
<1>4. /\ new.tssr.ps = cfg.probe_num /\ new.tcur.tt = cfg.type
      /\ cfg.type = 3 => new.tssr.cw = (cfg.compare_width - 1) % CwSpan
      /\ cfg.type = 1 => new.tcur.et = low
      /\ cfg.type = 2 => new.tcur.lt = low
      /\ cfg.type = 3 => new.tcur.vc = low
  BY <1>2, <1>3 DEF Half, EDGE, LEVEL, VALUE_COMPARE
<1>5. cfg.type \in 1 .. 3 /\ cfg.event = 16 * cfg.type + low
  <2>1. cfg.type = 1 => \E n \in 1 .. 3 : cfg.event = 16 + n
    BY DEF EventsOf, EventCode, EDGE, LEVEL, VALUE_COMPARE
  <2>2. cfg.type = 2 => \E n \in 0 .. 1 : cfg.event = 32 + n
    BY DEF EventsOf, EventCode, EDGE, LEVEL, VALUE_COMPARE
  <2>3. cfg.type = 3 => \E n \in 1 .. 3 : cfg.event = 48 + n
    BY DEF EventsOf, EventCode, EDGE, LEVEL, VALUE_COMPARE
  <2>4. cfg.type # 0
    BY DEF EventsOf, EDGE, LEVEL, VALUE_COMPARE
  <2> QED
    BY <1>1, <2>1, <2>2, <2>3, <2>4, SMT DEF SmallSpan
<1>6. cfg.type = 3 => ((cfg.compare_width - 1) % CwSpan) + 1 = cfg.compare_width
  <2> SUFFICES ASSUME cfg.type = 3
               PROVE  ((cfg.compare_width - 1) % CwSpan) + 1 = cfg.compare_width
    OBVIOUS
  <2>1. cfg.compare_width - 1 \in 0 .. CwSpan - 1
    BY <1>1, Spans DEF CompareWidthFits, VALUE_COMPARE
  <2>2. (cfg.compare_width - 1) % CwSpan = cfg.compare_width - 1
    BY <2>1, Spans, SmallRemainder
  <2> QED
    BY <1>1, <2>2
<1> HIDE DEF new, low
<1>7. CASE cfg.type = 3
  BY <1>1, <1>3, <1>4, <1>5, <1>6, <1>7
     DEF get_channel_config, Effective, EventCode, EDGE, LEVEL, VALUE_COMPARE, new
<1>0. cfg.type # 3 =>
         Effective(cfg) = [type |-> cfg.type, event |-> cfg.event, value |-> 0,
                           compare_width |-> 0, probe_num |-> cfg.probe_num]
  BY <1>1 DEF Effective, VALUE_COMPARE
<1>8. CASE cfg.type = 1
  <2>1. cfg.event = 16 * 1 + new.tcur.et /\ new.tcur.tt = 1
    BY <1>4, <1>5, <1>8
  <2>2. get_channel_config(new) =
          [type |-> 1, event |-> cfg.event, value |-> 0, compare_width |-> 0,
           probe_num |-> new.tssr.ps]
    BY <2>1 DEF get_channel_config, EventCode, EDGE, LEVEL, VALUE_COMPARE
  <2> QED
    BY <1>4, <1>8, <1>0, <2>2 DEF new
<1>9. CASE cfg.type = 2
  <2>1. cfg.event = 16 * 2 + new.tcur.lt /\ new.tcur.tt = 2
    BY <1>4, <1>5, <1>9
  <2>2. get_channel_config(new) =
          [type |-> 2, event |-> cfg.event, value |-> 0, compare_width |-> 0,
           probe_num |-> new.tssr.ps]
    BY <2>1 DEF get_channel_config, EventCode, EDGE, LEVEL, VALUE_COMPARE
  <2> QED
    BY <1>4, <1>9, <1>0, <2>2 DEF new
<1> QED
  BY <1>5, <1>7, <1>8, <1>9

-----------------------------------------------------------------------------
(* Counting the triggers in front of one.                                  *)

LEMMA BeforeFinite ==
  ASSUME NEW ts, NEW i, NEW j \in Nat
  PROVE  IsFiniteSet(Before(ts, i, j)) /\ Rank(ts, i, j) \in Nat
<1>1. IsFiniteSet(1 .. j - 1)
  BY FS_Interval
<1>2. Before(ts, i, j) \in SUBSET (1 .. j - 1)
  BY DEF Before
<1>3. IsFiniteSet(Before(ts, i, j))
  BY <1>1, <1>2, FS_Subset
<1> QED
  BY <1>3, FS_CardinalityType DEF Rank

LEMMA RankFirst ==
  ASSUME NEW ts, NEW i
  PROVE  Rank(ts, i, 1) = 0
<1>1. Before(ts, i, 1) = {}
  BY DEF Before
<1> QED
  BY <1>1, FS_EmptySet DEF Rank

LEMMA RankNext ==
  ASSUME NEW ts, NEW i, NEW j \in Nat \ {0}
  PROVE  Rank(ts, i, j + 1) = Rank(ts, i, j) + (IF ts[j].inst = i THEN 1 ELSE 0)
<1>1. CASE ts[j].inst = i
  <2>1. Before(ts, i, j + 1) = Before(ts, i, j) \cup {j} /\ j \notin Before(ts, i, j)
    BY <1>1 DEF Before
  <2> QED
    BY <1>1, <2>1, BeforeFinite, FS_AddElement DEF Rank
<1>2. CASE ts[j].inst # i
  <2>1. Before(ts, i, j + 1) = Before(ts, i, j)
    BY <1>2 DEF Before
  <2> QED
    BY <1>2, <2>1, BeforeFinite DEF Rank
<1> QED
  BY <1>1, <1>2

(* Two triggers of an instance never get one channel.                      *)
LEMMA RankStrict ==
  ASSUME NEW ts, NEW i, NEW j \in Nat \ {0}, NEW q \in 1 .. j - 1, ts[q].inst = i
  PROVE  Rank(ts, i, q) < Rank(ts, i, j)
<1>1. Rank(ts, i, q + 1) = Rank(ts, i, q) + 1
  BY RankNext
<1>2. Before(ts, i, q + 1) \in SUBSET Before(ts, i, j)
  BY DEF Before
<1>3. Rank(ts, i, q + 1) <= Rank(ts, i, j)
  BY <1>2, BeforeFinite, FS_Subset DEF Rank
<1> QED
  BY <1>1, <1>3, BeforeFinite

(* All of them are the triggers of the instance.                           *)
LEMMA RankLast ==
  ASSUME NEW S, NEW ts \in Seq(S), NEW i
  PROVE  Rank(ts, i, Len(ts) + 1) = get_number_of_triggers(ts, i)
<1>1. Len(ts) \in Nat
  BY LenProperties
<1>2. Before(ts, i, Len(ts) + 1) = Places(ts, i)
  BY <1>1 DEF Before, Places
<1> QED
  BY <1>2, PlacesFinite DEF Rank

-----------------------------------------------------------------------------
(* The session never holds a value too large for its field.                *)

LEMMA ConfigChanges ==
  ASSUME IInv, [Next]_vars, NEW m \in Domain
  PROVE  \/ config'[m] = config[m]
         \/ config'[m] = DefaultConfig
         \/ \E d \in Device, c \in ConfigRequest :
              /\ c.dom = m /\ verify(d)
              /\ c.sample_size <= DebugInfo[InstancesOf[m][1]].depth
              /\ config'[m] = [mode |-> c.mode, condition |-> c.condition,
                               sample_size |-> c.sample_size]
<1>1. config \in [Domain -> Config]
  BY DEF IInv, TypeOK
<1>2. CASE \E d \in Device, c \in ConfigRequest : Configure(d, c)
  <2>1. PICK d \in Device, c \in ConfigRequest : Configure(d, c)
    BY <1>2
  <2>2. CASE c.dom = m
    BY <1>1, <2>1, <2>2 DEF Configure
  <2>3. CASE c.dom # m
    BY <1>1, <2>1, <2>3 DEF Configure
  <2> QED
    BY <2>2, <2>3
<1>3. CASE Unload \/ ProcessEnds
  BY <1>3 DEF Unload, ProcessEnds, ForgetSession
<1>4. CASE \/ Load \/ BeginStart
           \/ \E d \in Device, r \in TriggerRequest : AddTrigger(d, r)
           \/ \E d \in Device, r \in TriggerRequest : RejectEvent(d, r)
           \/ \E r \in TriggerRequest : \E n \in 1 .. Len(triggers[r.dom]) :
                \E d \in Device : EditTrigger(d, n, r)
           \/ \E k \in Domain : \E n \in 1 .. Len(triggers[k]) :
                \E d \in Device : RemoveTrigger(d, k, n)
           \/ \E d \in Device, k \in Domain : ShowWaveform(d, k)
  BY <1>4 DEF Load, AddTrigger, RejectEvent, EditTrigger, RemoveTrigger, ShowWaveform,
              BeginStart, Start, session
<1>5. CASE StartStep \/ JtagFails
  BY <1>5 DEF StartStep, ProgramMode, ClearChannel, SkipTrigger, ProgramTrigger,
              WriteChannelWord, NextInstance, DummyWrite, Arm, Poll, GiveUp, Fetch,
              AssertFails, JtagFails, session
<1>6. CASE \/ \E d \in Device, k \in Domain : SamplingDone(d, k)
           \/ UNCHANGED vars
  BY <1>6 DEF SamplingDone, vars, session
<1> QED
  BY <1>2, <1>3, <1>4, <1>5, <1>6 DEF Next, SessionCommand

(* The memory of a verified instance is smaller than TMTR.NS can count.    *)
LEMMA ConfigFitsStep == IInv /\ ConfigFits /\ [Next]_vars => ConfigFits'
<1> SUFFICES ASSUME IInv, ConfigFits, [Next]_vars, NEW m \in Domain
             PROVE  config'[m].sample_size < NsSpan
  BY DEF ConfigFits
<1>1. DefaultConfig.sample_size < NsSpan
  BY SMT DEF DefaultConfig, NsSpan
<1>2. ASSUME NEW d \in Device, NEW c \in ConfigRequest, verify(d),
             c.sample_size <= DebugInfo[InstancesOf[m][1]].depth
      PROVE  c.sample_size < NsSpan
  <2> DEFINE i == InstancesOf[m][1]
  <2>1. InstancesOf[m] \in Seq(Instance) /\ 1 \in 1 .. Len(InstancesOf[m])
    BY ConstantTypes, LenProperties
  <2>2. i \in Instance /\ i \in Members(m)
    BY <2>1, ElementOfSeq DEF Members
  <2>3. DebugInfo[i].depth = Hardware[d][i].depth
    BY <1>2, <2>2 DEF verify
  <2>4. Hardware[d][i].depth \in 0 .. DepthSpan - 1 /\ c.sample_size \in Nat
    BY <2>2, ConstantTypes
  <2>5. c.sample_size <= Hardware[d][i].depth
    BY <1>2, <2>3
  <2>6. \A h, n \in Nat : h < DepthSpan /\ n <= h => n < NsSpan
    BY SMT DEF DepthSpan, NsSpan
  <2>7. Hardware[d][i].depth \in Nat /\ Hardware[d][i].depth < DepthSpan
    <3>1. DepthSpan \in Nat
      BY DEF DepthSpan
    <3> QED
      BY <2>4, <3>1
  <2> QED
    BY <2>4, <2>5, <2>6, <2>7
<1>3. config[m].sample_size < NsSpan
  BY DEF ConfigFits
<1>4. CASE \E d \in Device, c \in ConfigRequest :
             /\ c.dom = m /\ verify(d)
             /\ c.sample_size <= DebugInfo[InstancesOf[m][1]].depth
             /\ config'[m] = [mode |-> c.mode, condition |-> c.condition,
                              sample_size |-> c.sample_size]
  <2>1. PICK d \in Device, c \in ConfigRequest :
          /\ verify(d) /\ c.sample_size <= DebugInfo[InstancesOf[m][1]].depth
          /\ config'[m] = [mode |-> c.mode, condition |-> c.condition,
                           sample_size |-> c.sample_size]
    BY <1>4
  <2>2. config'[m].sample_size = c.sample_size
    BY <2>1
  <2> QED
    BY <1>2, <2>1, <2>2
<1> QED
  BY <1>1, <1>3, <1>4, ConfigChanges

(* An acceptable request makes a trigger whose fields hold its values.     *)
LEMMA MadeTriggerFits ==
  ASSUME NEW d \in Device, NEW r \in TriggerRequest, NEW s \in Signal,
         Named(r, s), Acceptable(d, r, s)
  PROVE  LET cfg == MakeTrigger(d, r, s).cfg
         IN  cfg.event \in EventsOf(cfg.type) /\ cfg.probe_num < PsSpan
<1> DEFINE pos == IF r.ranged THEN r.lo ELSE 0
<1>1. s.bitpos \in Nat /\ r.lo \in Nat /\ Modulus \in Nat \ {0} /\ pos \in Nat
  BY ConstantTypes
<1>2. s.bitpos + pos < PsSpan /\ PsSpan <= Modulus
  BY FieldsFit
<1>3. (s.bitpos + pos) % Modulus = s.bitpos + pos
  BY <1>1, <1>2, Spans, SmallRemainder
<1> DEFINE cfg == MakeTrigger(d, r, s).cfg
<1>4. cfg.type = r.type /\ cfg.event = r.event /\ cfg.probe_num = (s.bitpos + pos) % Modulus
  BY DEF MakeTrigger
<1>5. r.event \in EventsOf(r.type)
  BY DEF Acceptable
<1> HIDE DEF cfg, pos
<1>6. cfg.event \in EventsOf(cfg.type) /\ cfg.probe_num < PsSpan
  BY <1>2, <1>3, <1>4, <1>5
<1> QED
  BY <1>6 DEF cfg

LEMMA TriggerFitsStep == IInv /\ TriggerFits /\ [Next]_vars => TriggerFits'
<1> SUFFICES ASSUME IInv, TriggerFits, [Next]_vars,
                    NEW m \in Domain, NEW n \in 1 .. Len(triggers'[m])
             PROVE  LET cfg == triggers'[m][n].cfg
                    IN  cfg.event \in EventsOf(cfg.type) /\ cfg.probe_num < PsSpan
  BY DEF TriggerFits
<1>1. CASE \E k \in 1 .. Len(triggers[m]) : triggers'[m][n] = triggers[m][k]
  BY <1>1 DEF TriggerFits
<1>2. CASE \E d \in Device, r \in TriggerRequest, s \in Signal : Made(d, r, s, m, n)
  BY <1>2, MadeTriggerFits DEF Made
<1> QED
  BY <1>1, <1>2, TriggerOrigin

-----------------------------------------------------------------------------
(* What the writes of a start command change.                              *)

(* OclaIP::configure rewrites the mode register of one instance.           *)
LEMMA ModeWrite ==
  ASSUME IInv, ProgramMode
  PROVE  /\ \A d \in Device, i \in Instance :
              d # run.dev \/ i # Current => regs'[d][i] = regs[d][i]
         /\ regs'[run.dev][Current].tmtr = configure(config[run.dom])
         /\ regs'[run.dev][Current].ch = File.ch
<1>1. /\ run.dev \in Device /\ Current \in Instance
      /\ regs \in [Device -> [Instance -> Registers]]
  BY RunFacts DEF ProgramMode, IInv, TypeOK
<1> DEFINE new == [File EXCEPT !.tmtr = configure(config[run.dom])]
<1>2. File \in Registers
  BY <1>1 DEF File
<1>3. new.tmtr = configure(config[run.dom]) /\ new.ch = File.ch
  BY <1>2 DEF Registers
<1>4. regs' = [regs EXCEPT ![run.dev] = [regs[run.dev] EXCEPT ![Current] = new]]
  BY <1>1, <1>2 DEF ProgramMode, Registers, File
<1> HIDE DEF new
<1> QED
  BY <1>1, <1>3, <1>4

(* configure_channel rewrites one channel of one instance.                 *)
LEMMA ChannelWrite ==
  ASSUME IInv, pc # "idle", run.ch \in Channel, NEW cfg, WriteChannelWord(cfg)
  PROVE  /\ \A d \in Device, i \in Instance :
              d # run.dev \/ i # Current => regs'[d][i] = regs[d][i]
         /\ regs'[run.dev][Current].tmtr = File.tmtr
         /\ \A n \in Channel \ {run.ch} : regs'[run.dev][Current].ch[n] = File.ch[n]
         /\ regs'[run.dev][Current].ch[run.ch] = Written(File.ch[run.ch], run.word, cfg)
         /\ File.ch[run.ch] \in ChannelRegister
<1>1. /\ run.dev \in Device /\ Current \in Instance
      /\ regs \in [Device -> [Instance -> Registers]]
  BY RunFacts DEF IInv, TypeOK
<1>2. File \in Registers
  BY <1>1 DEF File
<1> DEFINE w   == Written(File.ch[run.ch], run.word, cfg)
           chs == [File.ch EXCEPT ![run.ch] = w]
           new == [File EXCEPT !.ch = chs]
<1>3. File.ch \in [Channel -> ChannelRegister]
  BY <1>2 DEF Registers
<1>4. regs' = [regs EXCEPT ![run.dev] = [regs[run.dev] EXCEPT ![Current] = new]]
  BY <1>1, <1>2 DEF WriteChannelWord, Registers, File
<1> HIDE DEF w
<1>5. /\ \A n \in Channel \ {run.ch} : chs[n] = File.ch[n]
      /\ chs[run.ch] = w
  BY <1>3
<1> HIDE DEF chs
<1>6. new.tmtr = File.tmtr /\ new.ch = chs
  BY <1>2 DEF Registers
<1> HIDE DEF new
<1>7. /\ regs'[run.dev][Current] = new
      /\ \A d \in Device, i \in Instance :
           d # run.dev \/ i # Current => regs'[d][i] = regs[d][i]
  BY <1>1, <1>4
<1> QED
  BY <1>3, <1>5, <1>6, <1>7 DEF w

(* The two ways a channel's reading survives a write to another channel.   *)
LEMMA HeldKept ==
  ASSUME NEW ts, NEW i, NEW j \in Nat \ {0}, NEW r, NEW s,
         TriggersHeld(r, ts, i, j),
         \A n \in Channel \ {Rank(ts, i, j)} : s.ch[n] = r.ch[n]
  PROVE  TriggersHeld(s, ts, i, j)
<1> SUFFICES ASSUME NEW q \in 1 .. j - 1, ts[q].inst = i
             PROVE  /\ Rank(ts, i, q) \in Channel
                    /\ get_channel_config(s.ch[Rank(ts, i, q)]) = Effective(ts[q].cfg)
  BY DEF TriggersHeld
<1>1. Rank(ts, i, q) # Rank(ts, i, j)
  <2>1. Rank(ts, i, q) < Rank(ts, i, j)
    BY RankStrict
  <2>2. Rank(ts, i, q) \in Nat /\ Rank(ts, i, j) \in Nat
    BY BeforeFinite
  <2> QED
    BY <2>1, <2>2
<1> QED
  BY <1>1 DEF TriggersHeld

LEMMA OffKept ==
  ASSUME NEW ts, NEW i, NEW j, NEW r, NEW s, NEW c, NEW busy \in SUBSET {c},
         OthersOff(r, ts, i, j, busy),
         \A n \in Channel \ {c} : s.ch[n] = r.ch[n]
  PROVE  OthersOff(s, ts, i, j, {c})
  BY DEF OthersOff

(* Passing the j-th trigger: what is held, and what is off.                *)
LEMMA HeldNext ==
  ASSUME NEW ts, NEW i, NEW j \in Nat \ {0}, NEW r,
         TriggersHeld(r, ts, i, j),
         ts[j].inst = i =>
           /\ Rank(ts, i, j) \in Channel
           /\ get_channel_config(r.ch[Rank(ts, i, j)]) = Effective(ts[j].cfg)
  PROVE  TriggersHeld(r, ts, i, j + 1)
<1> SUFFICES ASSUME NEW q \in 1 .. j, ts[q].inst = i
             PROVE  /\ Rank(ts, i, q) \in Channel
                    /\ get_channel_config(r.ch[Rank(ts, i, q)]) = Effective(ts[q].cfg)
  BY DEF TriggersHeld
<1>1. CASE q = j
  BY <1>1
<1>2. CASE q \in 1 .. j - 1
  BY <1>2 DEF TriggersHeld
<1> QED
  BY <1>1, <1>2

LEMMA OffNext ==
  ASSUME NEW ts, NEW i, NEW j \in Nat \ {0}, NEW r, NEW busy,
         ts[j].inst = i => busy = {Rank(ts, i, j)},
         ts[j].inst # i => busy = {},
         OthersOff(r, ts, i, j, busy)
  PROVE  OthersOff(r, ts, i, j + 1, {})
<1> SUFFICES ASSUME NEW n \in Channel,
                    \A q \in 1 .. j : ts[q].inst = i => Rank(ts, i, q) # n
             PROVE  get_channel_config(r.ch[n]) = ClearConfig
  BY DEF OthersOff
<1>1. n \notin busy
  BY DEF OthersOff
<1>2. \A q \in 1 .. j - 1 : ts[q].inst = i => Rank(ts, i, q) # n
  OBVIOUS
<1> QED
  BY <1>1, <1>2 DEF OthersOff

-----------------------------------------------------------------------------
(* A start command between two of its steps.                               *)

LEMMA CommandGoesOn ==
  ASSUME IInv, [Next]_vars, pc # "idle", pc' # "idle"
  PROVE  /\ UNCHANGED <<loaded, config, triggers>>
         /\ run'.dev = run.dev /\ run'.dom = run.dom
<1>1. run \in RunType
  BY DEF IInv, TypeOK
<1>2. ~SessionCommand /\ ~BeginStart
  BY DEF SessionCommand, Idle, Load, Unload, Configure, AddTrigger, RejectEvent,
         EditTrigger, RemoveTrigger, ShowWaveform, BeginStart, Start
<1>3. CASE ProgramMode \/ ClearChannel \/ SkipTrigger \/ ProgramTrigger \/ NextInstance
  BY <1>1, <1>3 DEF ProgramMode, ClearChannel, SkipTrigger, ProgramTrigger,
         NextInstance, WriteChannelWord, session, RunType
<1>4. CASE DummyWrite \/ Arm \/ Poll
  BY <1>1, <1>4 DEF DummyWrite, Arm, Poll, session, RunType
<1>5. ~(GiveUp \/ Fetch \/ AssertFails \/ JtagFails \/ ProcessEnds)
  BY DEF GiveUp, Fetch, AssertFails, JtagFails, ProcessEnds, Finish
<1>6. CASE \/ \E d \in Device, m \in Domain : SamplingDone(d, m)
           \/ UNCHANGED vars
  BY <1>6 DEF SamplingDone, vars, session
<1> QED
  BY <1>2, <1>3, <1>4, <1>5, <1>6 DEF Next, StartStep

(* The instances programmed so far are not the one being written.          *)
LEMMA DoneKept ==
  ASSUME IInv, pc # "idle", UNCHANGED <<config, triggers>>,
         run'.dev = run.dev, run'.dom = run.dom,
         NEW n \in Nat, n < run.k, InstancesDone(n),
         \A d \in Device, i \in Instance :
           d # run.dev \/ i # Current => regs'[d][i] = regs[d][i]
  PROVE  InstancesDone(n)'
<1>1. /\ run.dev \in Device /\ run.dom \in Domain
      /\ run.k \in 1 .. Len(InstancesOf[run.dom])
      /\ InstancesOf[run.dom] \in Seq(Instance)
  BY RunFacts, ConstantTypes
<1> SUFFICES ASSUME NEW k \in 1 .. n
             PROVE  Programmed(regs[run.dev][InstancesOf[run.dom][k]], run.dom,
                               InstancesOf[run.dom][k])'
  BY DEF InstancesDone
<1> DEFINE i == InstancesOf[run.dom][k]
<1>2. k \in 1 .. Len(InstancesOf[run.dom]) /\ k # run.k
  BY <1>1, LenProperties
<1>3. i \in Instance /\ i # Current
  BY <1>1, <1>2, ElementOfSeq, InstanceInOneDomain DEF Current
<1>4. regs'[run.dev][i] = regs[run.dev][i]
  BY <1>1, <1>3
<1>5. Programmed(regs[run.dev][i], run.dom, i)
  BY DEF InstancesDone
<1> QED
  BY <1>4, <1>5 DEF Programmed

LEMMA SameInstance ==
  ASSUME IInv, pc # "idle", UNCHANGED <<config, triggers>>,
         run'.dev = run.dev, run'.dom = run.dom, run'.k = run.k,
         InstancesDone(run.k - 1),
         \A d \in Device, i \in Instance :
           d # run.dev \/ i # Current => regs'[d][i] = regs[d][i]
  PROVE  InstancesDone(run.k - 1)'
<1>1. PICK n \in Nat : n = run.k - 1
  BY RunFacts
<1>2. n < run.k /\ InstancesDone(n)
  BY <1>1, RunFacts
<1>3. InstancesDone(n)'
  BY <1>2, DoneKept
<1> QED
  BY <1>1, <1>3

(* Clearing the channels of an instance.                                   *)
LEMMA ClearStep ==
  ASSUME IInv, SpareChannelsReset, ProgramOK, ClearChannel
  PROVE  ProgramOK'
<1> DEFINE ts  == triggers[run.dom]
           i   == Current
           new == regs'[run.dev][i]
           tc  == Hardware[run.dev][i].tc
<1>1. /\ pc = "clear" /\ UNCHANGED <<config, triggers>>
      /\ WriteChannelWord(ClearConfig)
  BY DEF ClearChannel, WriteChannelWord, session
<1>2. /\ run.dev \in Device /\ i \in Instance /\ run.word \in 1 .. 3
      /\ run.ch \in Nat /\ tc \in 1 .. NChannel /\ NChannel \in Nat
      /\ run.k \in Nat \ {0} /\ run.k \in 1 .. Len(InstancesOf[run.dom])
      /\ run \in RunType
  BY <1>1, RunFacts, ConstantTypes DEF IInv, TypeOK
<1>3. run.ch < tc /\ run.ch \in Channel
  BY <1>1, <1>2 DEF IInv, RunOK, Channel
<1>4. /\ \A d \in Device, e \in Instance :
           d # run.dev \/ e # Current => regs'[d][e] = regs[d][e]
      /\ new.tmtr = File.tmtr
      /\ \A n \in Channel \ {run.ch} : new.ch[n] = File.ch[n]
      /\ new.ch[run.ch] = Written(File.ch[run.ch], run.word, ClearConfig)
      /\ File.ch[run.ch] \in ChannelRegister
  BY <1>1, <1>3, ChannelWrite
<1>5. Clearing /\ InstancesDone(run.k - 1)
  BY <1>1 DEF ProgramOK
<1>6. ASSUME run'.dev = run.dev, run'.dom = run.dom, run'.k = run.k
      PROVE  InstancesDone(run.k - 1)'
  BY <1>1, <1>4, <1>5, <1>6, SameInstance
<1>7. ClearConfig \in TriggerConfig
  BY DEF ClearConfig, TriggerConfig, TriggerType, TRIGGER_NONE, NO_EVENT
<1>8. CASE run.word < 3
  <2>1. run' = [run EXCEPT !.word = @ + 1] /\ pc' = "clear"
    BY <1>1, <1>8 DEF ClearChannel
  <2>2. /\ run'.dev = run.dev /\ run'.dom = run.dom /\ run'.k = run.k
        /\ run'.ch = run.ch /\ run'.word = run.word + 1
    BY <1>2, <2>1 DEF RunType
  <2>3. File' = new
    BY <2>2 DEF File, Current
  <2>4. Half(new.ch[run.ch], run.word + 1, ClearConfig)
    BY <1>2, <1>4, <1>5, <1>7, <1>8, HalfStep DEF Clearing
  <2>5. \A n \in Channel : n < run.ch => get_channel_config(new.ch[n]) = ClearConfig
    BY <1>2, <1>4, <1>5 DEF Clearing
  <2>6. new.tmtr = configure(config[run.dom])
    BY <1>4, <1>5 DEF Clearing
  <2>7. Clearing'
    BY <1>1, <2>2, <2>3, <2>4, <2>5, <2>6 DEF Clearing
  <2> QED
    BY <1>6, <2>1, <2>2, <2>7 DEF ProgramOK
<1>9. CASE run.word = 3
  <2>1. get_channel_config(new.ch[run.ch]) = ClearConfig
    BY <1>4, <1>5, <1>9, ClearDecodes DEF Clearing
  <2>2. \A n \in Channel : n < run.ch + 1 => get_channel_config(new.ch[n]) = ClearConfig
    <3> SUFFICES ASSUME NEW n \in Channel, n < run.ch + 1
                 PROVE  get_channel_config(new.ch[n]) = ClearConfig
      OBVIOUS
    <3>1. n = run.ch \/ (n < run.ch /\ n # run.ch)
      BY <1>2 DEF Channel
    <3> QED
      BY <1>4, <1>5, <2>1, <3>1 DEF Clearing
  <2>3. new.tmtr = configure(config[run.dom])
    BY <1>4, <1>5 DEF Clearing
  <2>4. CASE run.ch + 1 < tc
    <3>1. run' = [run EXCEPT !.word = 1, !.ch = @ + 1] /\ pc' = "clear"
      BY <1>1, <1>2, <1>9, <2>4, SMTT(30) DEF ClearChannel
    <3>2. /\ run'.dev = run.dev /\ run'.dom = run.dom /\ run'.k = run.k
          /\ run'.ch = run.ch + 1 /\ run'.word = 1
      BY <1>2, <3>1 DEF RunType
    <3>3. File' = new
      BY <3>2 DEF File, Current
    <3>4. Clearing'
      BY <1>1, <2>2, <2>3, <3>2, <3>3 DEF Clearing, Half
    <3> QED
      BY <1>6, <3>1, <3>2, <3>4 DEF ProgramOK
  <2>5. CASE run.ch + 1 = tc
    <3>1. run' = [run EXCEPT !.word = 1, !.ch = 0, !.j = 1] /\ pc' = "trigger"
      BY <1>1, <1>2, <1>9, <2>5 DEF ClearChannel
    <3>2. /\ run'.dev = run.dev /\ run'.dom = run.dom /\ run'.k = run.k
          /\ run'.ch = 0 /\ run'.word = 1 /\ run'.j = 1
      BY <1>2, <3>1 DEF RunType
    <3>3. File' = new /\ Current' = i
      BY <3>2 DEF File, Current
    <3>4. \A n \in Channel : get_channel_config(new.ch[n]) = ClearConfig
      <4> SUFFICES ASSUME NEW n \in Channel, n >= tc
                   PROVE  get_channel_config(new.ch[n]) = ClearConfig
        BY <1>2, <2>2, <2>5 DEF Channel
      <4>1. n # run.ch
        BY <1>2, <2>5 DEF Channel
      <4>2. File.ch[n] = ResetChannel
        BY <1>2 DEF SpareChannelsReset, File
      <4> QED
        BY <1>4, <4>1, <4>2, ResetDecodes
    <3>5. TriggersHeld(new, ts, i, 1) /\ OthersOff(new, ts, i, 1, {})
      BY <3>4 DEF TriggersHeld, OthersOff
    <3>6. Rank(ts, i, 1) = 0 /\ 1 <= Len(ts) + 1
      <4>1. Len(ts) \in Nat
        BY <1>1, RunFacts, LenProperties
      <4> QED
        BY <4>1, RankFirst
    <3>7. Triggering'
      BY <1>1, <2>3, <3>2, <3>3, <3>5, <3>6 DEF Triggering
    <3> QED
      BY <1>6, <3>1, <3>2, <3>7 DEF ProgramOK
  <2> QED
    BY <1>2, <1>3, <2>4, <2>5
<1> QED
  BY <1>2, <1>8, <1>9

(* Passing over a trigger of another instance.                             *)
LEMMA SkipStep ==
  ASSUME IInv, ProgramOK, SkipTrigger
  PROVE  ProgramOK'
<1> DEFINE ts == triggers[run.dom]
           i  == Current
<1>1. /\ pc = "trigger" /\ pc' = "trigger" /\ run.j <= Len(ts) /\ ts[run.j].inst # i
      /\ UNCHANGED <<config, triggers, regs>> /\ run' = [run EXCEPT !.j = @ + 1]
  BY DEF SkipTrigger, ThisTrigger, session, hardware
<1>2. /\ run \in RunType /\ run.j \in Nat \ {0} /\ run.word \in 1 .. 3
      /\ ts \in Seq(Trigger) /\ Len(ts) \in Nat
  BY <1>1, RunFacts, LenProperties DEF IInv, TypeOK
<1>3. /\ run'.dev = run.dev /\ run'.dom = run.dom /\ run'.k = run.k
      /\ run'.ch = run.ch /\ run'.word = run.word /\ run'.j = run.j + 1
  BY <1>1, <1>2 DEF RunType
<1>4. Triggering /\ InstancesDone(run.k - 1)
  BY <1>1 DEF ProgramOK
<1>5. run.word = 1
  BY <1>1, <1>2, <1>4 DEF Triggering, ProgrammingTrigger, ThisTrigger
<1>6. InstancesDone(run.k - 1)'
  BY <1>1, <1>3, <1>4, SameInstance
<1>7. run.ch = Rank(ts, i, run.j + 1)
  <2>1. Rank(ts, i, run.j) \in Nat
    BY <1>2, BeforeFinite
  <2> QED
    BY <1>1, <1>2, <1>4, <2>1, RankNext DEF Triggering
<1>8. TriggersHeld(File, ts, i, run.j + 1)
  BY <1>1, <1>2, <1>4, HeldNext DEF Triggering
<1>9. OthersOff(File, ts, i, run.j + 1, {})
  <2>1. OthersOff(File, ts, i, run.j, {})
    BY <1>4, <1>5 DEF Triggering
  <2> QED
    BY <1>1, <1>2, <2>1, OffNext
<1>10. File' = File /\ Current' = i
  BY <1>1, <1>3 DEF File, Current
<1>11. Triggering'
  BY <1>1, <1>2, <1>3, <1>4, <1>5, <1>7, <1>8, <1>9, <1>10 DEF Triggering
<1> QED
  BY <1>1, <1>6, <1>11 DEF ProgramOK

(* Programming a trigger, word by word.                                    *)
LEMMA TriggerStep ==
  ASSUME IInv, TriggerFits, ProgramOK, ProgramTrigger
  PROVE  ProgramOK'
<1> DEFINE ts  == triggers[run.dom]
           i   == Current
           j   == run.j
           cfg == ts[j].cfg
           new == regs'[run.dev][i]
           tc  == Hardware[run.dev][i].tc
<1>1. /\ pc = "trigger" /\ pc' = "trigger" /\ j <= Len(ts) /\ ts[j].inst = i
      /\ UNCHANGED <<config, triggers>> /\ run.ch < tc
      /\ CompareWidthFits(cfg, Hardware[run.dev][i].mcvs)
      /\ WriteChannelWord(cfg)
      /\ run' = IF run.word < 3
                  THEN [run EXCEPT !.word = @ + 1]
                  ELSE [run EXCEPT !.word = 1, !.ch = @ + 1, !.j = @ + 1]
  BY DEF ProgramTrigger, ThisTrigger, ChannelAssertion, WriteChannelWord, session
<1>2. /\ run \in RunType /\ j \in Nat \ {0} /\ run.word \in 1 .. 3
      /\ run.dev \in Device /\ run.dom \in Domain /\ i \in Instance
      /\ ts \in Seq(Trigger) /\ Len(ts) \in Nat
      /\ run.ch \in Nat /\ tc \in 1 .. NChannel /\ NChannel \in Nat
  BY <1>1, RunFacts, LenProperties, ConstantTypes DEF IInv, TypeOK
<1>3. run.ch \in Channel
  BY <1>1, <1>2 DEF Channel
<1>4. Triggering /\ InstancesDone(run.k - 1)
  BY <1>1 DEF ProgramOK
<1>5. /\ \A d \in Device, e \in Instance :
           d # run.dev \/ e # Current => regs'[d][e] = regs[d][e]
      /\ new.tmtr = File.tmtr
      /\ \A n \in Channel \ {run.ch} : new.ch[n] = File.ch[n]
      /\ new.ch[run.ch] = Written(File.ch[run.ch], run.word, cfg)
      /\ File.ch[run.ch] \in ChannelRegister
  BY <1>1, <1>3, ChannelWrite
<1>6. cfg \in TriggerConfig /\ cfg.event \in EventsOf(cfg.type) /\ cfg.probe_num < PsSpan
  <2>1. j \in 1 .. Len(ts)
    BY <1>1, <1>2
  <2>2. ts[j] \in Trigger
    BY <1>2, <2>1, ElementOfSeq
  <2> QED
    BY <1>2, <2>1, <2>2 DEF TriggerFits, Trigger
<1>7. run.ch = Rank(ts, i, j) /\ new.tmtr = configure(config[run.dom])
  BY <1>4, <1>5 DEF Triggering
<1>8. TriggersHeld(new, ts, i, j)
  <2>1. TriggersHeld(File, ts, i, j)
    BY <1>4 DEF Triggering
  <2>2. \A n \in Channel \ {Rank(ts, i, j)} : new.ch[n] = File.ch[n]
    BY <1>5, <1>7
  <2>3. j \in Nat \ {0}
    BY <1>2
  <2> HIDE DEF ts, i, j, new
  <2> QED
    BY <2>1, <2>2, <2>3, HeldKept
<1>9. OthersOff(new, ts, i, j, {run.ch})
  <2> DEFINE busy == IF run.word = 1 THEN {} ELSE {run.ch}
  <2>1. OthersOff(File, ts, i, j, busy)
    BY <1>4 DEF Triggering
  <2>2. busy \in SUBSET {run.ch}
    OBVIOUS
  <2>3. \A n \in Channel \ {run.ch} : new.ch[n] = File.ch[n]
    BY <1>5
  <2> HIDE DEF busy, ts, i, j, new
  <2> QED
    BY <2>1, <2>2, <2>3, OffKept
<1>10. Half(File.ch[run.ch], run.word, cfg)
  <2>1. run.word > 1 => Half(File.ch[run.ch], run.word, cfg)
    BY <1>4 DEF Triggering, ThisTrigger
  <2>2. run.word = 1 => Half(File.ch[run.ch], run.word, cfg)
    BY DEF Half
  <2> QED
    BY <1>2, <2>1, <2>2
<1>11. ASSUME run'.dev = run.dev, run'.dom = run.dom, run'.k = run.k
       PROVE  InstancesDone(run.k - 1)' /\ File' = new /\ Current' = i
  <2>1. InstancesDone(run.k - 1)'
    BY <1>1, <1>4, <1>5, <1>11, SameInstance
  <2> QED
    BY <1>11, <2>1 DEF File, Current
<1>12. CASE run.word < 3
  <2>1. run' = [run EXCEPT !.word = @ + 1]
    BY <1>1, <1>12
  <2>2. /\ run'.dev = run.dev /\ run'.dom = run.dom /\ run'.k = run.k
        /\ run'.ch = run.ch /\ run'.word = run.word + 1 /\ run'.j = j
    BY <1>2, <2>1 DEF RunType
  <2>3. Half(new.ch[run.ch], run.word + 1, cfg)
    BY <1>2, <1>5, <1>6, <1>10, <1>12, HalfStep
  <2>4. run.word + 1 # 1
    BY <1>2
  <2>5. ProgrammingTrigger'
    BY <1>1, <1>11, <2>2 DEF ProgrammingTrigger, ThisTrigger
  <2>6. ThisTrigger'.cfg = cfg /\ triggers'[run'.dom] = ts
    BY <1>1, <2>2 DEF ThisTrigger
  <2>7. Triggering'
    <3>1. /\ run'.j <= Len(ts) + 1 /\ run'.ch = Rank(ts, i, run'.j)
          /\ TriggersHeld(new, ts, i, run'.j)
          /\ OthersOff(new, ts, i, run'.j, IF run'.word = 1 THEN {} ELSE {run'.ch})
      <4>1. j <= Len(ts) + 1
        BY <1>1, <1>2
      <4> HIDE DEF ts, i, j, new
      <4> QED
        BY <1>7, <1>8, <1>9, <2>2, <2>4, <4>1
    <3>2. run'.ch < Hardware[run'.dev][Current'].tc
      BY <1>1, <1>11, <2>2
    <3>3. Half(new.ch[run'.ch], run'.word, ThisTrigger'.cfg)
      BY <2>2, <2>3, <2>6
    <3>4. new.tmtr = configure(config'[run'.dom])
      BY <1>1, <1>7, <2>2
    <3>5. File' = new /\ Current' = i
      BY <1>11, <2>2
    <3> HIDE DEF cfg, tc, j
    <3> QED
      BY <2>5, <2>6, <3>1, <3>2, <3>3, <3>4, <3>5 DEF Triggering
  <2> QED
    BY <1>1, <1>11, <2>2, <2>7 DEF ProgramOK
<1>13. CASE run.word = 3
  <2>1. run' = [run EXCEPT !.word = 1, !.ch = @ + 1, !.j = @ + 1]
    BY <1>1, <1>13
  <2>2. /\ run'.dev = run.dev /\ run'.dom = run.dom /\ run'.k = run.k
        /\ run'.ch = run.ch + 1 /\ run'.word = 1 /\ run'.j = j + 1
    BY <1>2, <2>1 DEF RunType
  <2>3. get_channel_config(new.ch[run.ch]) = Effective(cfg)
    <3>1. Hardware[run.dev][i].mcvs \in Nat /\ Hardware[run.dev][i].mcvs <= CwSpan
      BY <1>2, ConstantTypes, FieldsFit
    <3>2. Half(File.ch[run.ch], 3, cfg)
      BY <1>10, <1>13
    <3> QED
      BY <1>1, <1>5, <1>6, <1>13, <3>1, <3>2, TriggerDecodes
  <2>4. TriggersHeld(new, ts, i, j + 1)
    BY <1>2, <1>3, <1>7, <1>8, <2>3, HeldNext
  <2>5. OthersOff(new, ts, i, j + 1, {})
    BY <1>1, <1>2, <1>7, <1>9, OffNext
  <2>6. run.ch + 1 = Rank(ts, i, j + 1)
    BY <1>1, <1>2, <1>7, RankNext
  <2>7. Triggering'
    <3>1. triggers'[run'.dom] = ts /\ config'[run'.dom] = config[run.dom]
      BY <1>1, <2>2
    <3>2. run'.j <= Len(ts) + 1
      BY <1>1, <1>2, <2>2
    <3>3. File' = new /\ Current' = i
      BY <1>11, <2>2
    <3> HIDE DEF cfg, tc, j
    <3> QED
      BY <1>7, <2>2, <2>4, <2>5, <2>6, <3>1, <3>2, <3>3 DEF Triggering, j
  <2> QED
    BY <1>1, <1>11, <2>2, <2>7 DEF ProgramOK
<1> QED
  BY <1>2, <1>12, <1>13

(* An instance whose triggers are through is programmed.                   *)
LEMMA InstanceDone ==
  ASSUME IInv, ProgramOK, pc = "trigger", run.j > Len(triggers[run.dom])
  PROVE  run.word = 1 /\ InstancesDone(run.k)
<1> DEFINE ts == triggers[run.dom]
<1>1. /\ run.j \in Nat \ {0} /\ run.word \in 1 .. 3 /\ Len(ts) \in Nat
      /\ run.k \in Nat \ {0}
  BY RunFacts, LenProperties
<1>2. Triggering /\ InstancesDone(run.k - 1)
  BY DEF ProgramOK
<1>3. run.j = Len(ts) + 1
  BY <1>1, <1>2 DEF Triggering
<1>4. run.word = 1
  BY <1>1, <1>2, <1>3 DEF Triggering, ProgrammingTrigger
<1>5. Programmed(File, run.dom, Current)
  BY <1>2, <1>3, <1>4 DEF Triggering, Programmed
<1>6. ASSUME NEW k \in 1 .. run.k
      PROVE  Programmed(regs[run.dev][InstancesOf[run.dom][k]], run.dom,
                        InstancesOf[run.dom][k])
  <2>1. k \in 1 .. run.k - 1 \/ k = run.k
    BY <1>1
  <2> QED
    BY <1>2, <1>5, <2>1 DEF InstancesDone, File, Current
<1> QED
  BY <1>4, <1>6 DEF InstancesDone

LEMMA InstanceStep ==
  ASSUME IInv, ProgramOK, NextInstance \/ DummyWrite
  PROVE  ProgramOK'
<1>1. /\ pc = "trigger" /\ run.j > Len(triggers[run.dom])
      /\ UNCHANGED <<config, triggers, regs>>
  BY DEF NextInstance, DummyWrite, session, hardware
<1>2. run.word = 1 /\ InstancesDone(run.k) /\ run \in RunType /\ run.k \in Nat \ {0}
  BY <1>1, InstanceDone, RunFacts DEF IInv, TypeOK
<1>3. CASE NextInstance
  <2>1. pc' = "configure" /\ run' = [run EXCEPT !.k = @ + 1, !.ch = 0, !.j = 1]
    BY <1>3 DEF NextInstance
  <2>2. /\ run'.dev = run.dev /\ run'.dom = run.dom /\ run'.word = 1
        /\ run'.k - 1 = run.k
    BY <1>2, <2>1 DEF RunType
  <2>3. InstancesDone(run.k - 1)'
    BY <1>1, <1>2, <2>2 DEF InstancesDone, Programmed
  <2> QED
    BY <2>1, <2>2, <2>3 DEF ProgramOK
<1>4. CASE DummyWrite
  <2>1. pc' = "arm" /\ run' = run /\ run.k = Len(InstancesOf[run.dom])
    BY <1>4 DEF DummyWrite
  <2>2. InstancesDone(Len(InstancesOf[run.dom]))'
    BY <1>1, <1>2, <2>1 DEF InstancesDone, Programmed
  <2> QED
    BY <2>1, <2>2 DEF ProgramOK
<1> QED
  BY <1>3, <1>4

(* The steps that matter to the registers, and the rest.                   *)
LEMMA StepKinds ==
  ASSUME IInv, [Next]_vars
  PROVE  \/ ProgramMode \/ ClearChannel \/ SkipTrigger \/ ProgramTrigger
         \/ NextInstance \/ DummyWrite \/ Arm \/ BeginStart
         \/ UNCHANGED <<regs, latched>> /\ pc' \in {"idle", "poll", "fetch"}
         \/ UNCHANGED <<session, regs, latched, pc, run>>
<1>1. CASE SessionCommand
  BY <1>1 DEF SessionCommand, Idle, Load, Unload, Configure, AddTrigger, RejectEvent,
              EditTrigger, RemoveTrigger, ShowWaveform, hardware
<1>2. CASE Poll \/ GiveUp \/ Fetch \/ AssertFails \/ JtagFails \/ ProcessEnds
  BY <1>2 DEF Poll, GiveUp, Fetch, AssertFails, JtagFails, ProcessEnds, Finish, hardware
<1>3. CASE \/ \E d \in Device, m \in Domain : SamplingDone(d, m)
           \/ UNCHANGED vars
  BY <1>3 DEF SamplingDone, vars, hardware
<1> QED
  BY <1>1, <1>2, <1>3 DEF Next, StartStep

LEMMA SpareStep ==
  IInv /\ SpareChannelsReset /\ [Next]_vars => SpareChannelsReset'
<1> SUFFICES ASSUME IInv, SpareChannelsReset, [Next]_vars,
                    NEW d \in Device, NEW i \in Instance, NEW n \in Channel,
                    n >= Hardware[d][i].tc
             PROVE  regs'[d][i].ch[n] = ResetChannel
  BY DEF SpareChannelsReset
<1>1. regs[d][i].ch[n] = ResetChannel
  BY DEF SpareChannelsReset
<1>2. CASE ProgramMode
  BY <1>1, <1>2, ModeWrite DEF File
<1>3. CASE ClearChannel \/ ProgramTrigger
  <2>1. PICK cfg : WriteChannelWord(cfg)
    BY <1>3 DEF ClearChannel, ProgramTrigger
  <2>2. pc # "idle" /\ run.ch < Hardware[run.dev][Current].tc
    BY <1>3 DEF ClearChannel, ProgramTrigger, ChannelAssertion, IInv, RunOK
  <2>3. /\ run.ch \in 0 .. NChannel /\ Hardware[run.dev][Current].tc \in 1 .. NChannel
        /\ NChannel \in Nat
    BY <2>2, RunFacts, ConstantTypes
  <2>4. run.ch \in Channel
    BY <2>2, <2>3 DEF Channel
  <2>5. /\ d # run.dev \/ i # Current => regs'[d][i] = regs[d][i]
        /\ \A c \in Channel \ {run.ch} : regs'[run.dev][Current].ch[c] = File.ch[c]
    BY <2>1, <2>2, <2>4, ChannelWrite
  <2>6. d = run.dev /\ i = Current => n # run.ch
    BY <2>2, <2>3 DEF Channel
  <2> QED
    BY <1>1, <2>5, <2>6 DEF File
<1>4. CASE regs' = regs
  BY <1>1, <1>4
<1> QED
  BY <1>2, <1>3, <1>4, StepKinds
     DEF SkipTrigger, NextInstance, DummyWrite, Arm, BeginStart, Start, hardware

(* Beginning to program an instance.                                       *)
LEMMA ModeStep ==
  ASSUME IInv, ProgramOK, ProgramMode
  PROVE  ProgramOK'
<1>1. /\ pc = "configure" /\ pc' = "clear" /\ run' = run
      /\ UNCHANGED <<config, triggers>>
  BY DEF ProgramMode, session
<1>2. run.ch = 0 /\ run.word = 1 /\ InstancesDone(run.k - 1)
  BY <1>1 DEF IInv, RunOK, ProgramOK
<1>3. InstancesDone(run.k - 1)'
  BY <1>1, <1>2, ModeWrite, SameInstance
<1>4. File'.tmtr = configure(config[run.dom])
  BY <1>1, ModeWrite DEF File, Current
<1>5. \A n \in Channel : ~(n < run.ch)
  BY <1>2 DEF Channel
<1>6. Clearing'
  BY <1>1, <1>2, <1>4, <1>5 DEF Clearing, Half
<1> QED
  BY <1>1, <1>3, <1>6 DEF ProgramOK

LEMMA ProgramStep ==
  IInv /\ TriggerFits /\ SpareChannelsReset /\ ProgramOK /\ [Next]_vars => ProgramOK'
<1> SUFFICES ASSUME IInv, TriggerFits, SpareChannelsReset, ProgramOK, [Next]_vars
             PROVE  ProgramOK'
  OBVIOUS
<1>1. CASE ProgramMode
  BY <1>1, ModeStep
<1>2. CASE ClearChannel
  BY <1>2, ClearStep
<1>3. CASE SkipTrigger
  BY <1>3, SkipStep
<1>4. CASE ProgramTrigger
  BY <1>4, TriggerStep
<1>5. CASE NextInstance \/ DummyWrite
  BY <1>5, InstanceStep
<1>6. CASE BeginStart
  <2>1. pc' = "configure" /\ run'.k = 1 /\ run'.word = 1
    BY <1>6 DEF BeginStart, Start, NoRun
  <2>2. InstancesDone(run.k - 1)'
    BY <2>1 DEF InstancesDone
  <2> QED
    BY <2>1, <2>2 DEF ProgramOK
<1>7. CASE pc' \in {"idle", "poll", "fetch"}
  BY <1>7 DEF ProgramOK
<1>8. CASE Arm
  BY <1>7, <1>8 DEF Arm
<1>9. CASE UNCHANGED <<session, regs, latched, pc, run>>
  <2>1. UNCHANGED <<config, triggers, regs, pc, run>>
    BY <1>9 DEF session
  <2>2. /\ Clearing' = Clearing /\ Triggering' = Triggering
        /\ InstancesDone(run.k - 1)' = InstancesDone(run.k - 1)
        /\ InstancesDone(Len(InstancesOf[run.dom]))' =
             InstancesDone(Len(InstancesOf[run.dom]))
    BY <2>1 DEF Clearing, Triggering, InstancesDone, Programmed, File, Current,
                ProgrammingTrigger, ThisTrigger
  <2> QED
    BY <2>1, <2>2 DEF ProgramOK
<1> QED
  BY <1>1, <1>2, <1>3, <1>4, <1>5, <1>6, <1>7, <1>8, <1>9, StepKinds

-----------------------------------------------------------------------------
(* The refinement.                                                         *)

RInv ==
  IInv /\ ArmReady /\ ConfigFits /\ TriggerFits /\ SpareChannelsReset /\ ProgramOK

LEMMA RInvInit == Init => RInv
<1> SUFFICES ASSUME Init PROVE RInv
  OBVIOUS
<1>1. IInv
  BY InitInv
<1>2. ConfigFits
  BY SMT DEF Init, ConfigFits, DefaultConfig, NsSpan
<1>3. TriggerFits
  <2>1. \A m \in Domain : Len(triggers[m]) = 0
    BY DEF Init
  <2> QED
    BY <2>1 DEF TriggerFits
<1>4. SpareChannelsReset
  BY DEF Init, SpareChannelsReset, ResetRegisters
<1> QED
  BY <1>1, <1>2, <1>3, <1>4 DEF Init, RInv, ArmReady, ProgramOK

LEMMA RInvStep == RInv /\ [Next]_vars => RInv'
  BY StepInv, ArmReadyStep, ConfigFitsStep, TriggerFitsStep, SpareStep, ProgramStep
     DEF RInv

(* Both modules count and read registers with the same operators.          *)
LEMMA SameOperators ==
  /\ \A S : Abstract!Cardinality(S) = Cardinality(S)
  /\ \A cfg : Abstract!Effective(cfg) = Effective(cfg)
  /\ Abstract!ClearConfig = ClearConfig
  /\ Abstract!Config = Config
<1>1. \A S : Abstract!Cardinality(S) = Cardinality(S)
  BY DEF Abstract!Cardinality, Cardinality
<1>2. \A cfg : Abstract!Effective(cfg) = Effective(cfg)
  BY DEF Abstract!Effective, Effective, Abstract!VALUE_COMPARE, VALUE_COMPARE
<1>3. Abstract!ClearConfig = ClearConfig
  BY DEF Abstract!ClearConfig, ClearConfig, Abstract!TRIGGER_NONE, TRIGGER_NONE,
         Abstract!NO_EVENT, NO_EVENT
<1>4. Abstract!Config = Config
  BY DEF Abstract!Config, Config
<1> QED
  BY <1>1, <1>2, <1>3, <1>4

(* A programmed instance samples under what the session says.              *)
LEMMA ProgrammedSetup ==
  ASSUME IInv, ConfigFits, NEW m \in Domain, NEW i, NEW r, Programmed(r, m, i)
  PROVE  Setup(r) = [cfg |-> config[m], ch |-> Abstract!ChannelSetup(triggers[m], i)]
<1> DEFINE ts == triggers[m]
<1>1. Len(ts) \in Nat
  BY LenProperties DEF IInv, TypeOK
<1>2. get_config(r.tmtr) = config[m]
  <2>1. config[m] \in Config /\ config[m].sample_size < NsSpan
    BY DEF IInv, TypeOK, ConfigFits
  <2> QED
    BY <2>1, ConfigDecodes DEF Programmed
<1>3. ASSUME NEW n \in Channel
      PROVE  get_channel_config(r.ch[n]) = Abstract!ChannelSetup(ts, i)[n]
  <2> DEFINE Goes(j) == ts[j].inst = i /\ Cardinality(Abstract!Earlier(ts, j)) = n
  <2>1. ASSUME NEW j \in 1 .. Len(ts)
        PROVE  Goes(j) <=> ts[j].inst = i /\ Rank(ts, i, j) = n
    BY DEF Abstract!Earlier, Rank, Before
  <2>2. CASE \E j \in 1 .. Len(ts) : Goes(j)
    <3> DEFINE j == CHOOSE j \in 1 .. Len(ts) : Goes(j)
    <3>1. j \in 1 .. Len(ts) /\ Goes(j)
      BY <2>2
    <3>2. Abstract!ChannelSetup(ts, i)[n] = Effective(ts[j].cfg)
      BY <2>2, SameOperators, Zenon DEF Abstract!ChannelSetup
    <3> HIDE DEF j
    <3>3. get_channel_config(r.ch[Rank(ts, i, j)]) = Effective(ts[j].cfg)
      <4>1. j \in 1 .. (Len(ts) + 1) - 1
        BY <1>1, <3>1
      <4> QED
        BY <2>1, <3>1, <4>1 DEF Programmed, TriggersHeld
    <3> QED
      BY <2>1, <3>1, <3>2, <3>3
  <2>3. CASE ~ \E j \in 1 .. Len(ts) : Goes(j)
    <3>1. Abstract!ChannelSetup(ts, i)[n] = ClearConfig
      BY <2>3, SameOperators DEF Abstract!ChannelSetup
    <3>2. \A q \in 1 .. (Len(ts) + 1) - 1 : ts[q].inst = i => Rank(ts, i, q) # n
      BY <1>1, <2>1, <2>3
    <3>3. get_channel_config(r.ch[n]) = ClearConfig
      BY <3>2 DEF Programmed, OthersOff
    <3> QED
      BY <3>1, <3>3
  <2> QED
    BY <2>2, <2>3
<1>4. Abstract!ChannelSetup(ts, i) = [n \in Channel |-> Abstract!ChannelSetup(ts, i)[n]]
  BY DEF Abstract!ChannelSetup
<1>5. [n \in Channel |-> get_channel_config(r.ch[n])] = Abstract!ChannelSetup(ts, i)
  BY <1>3, <1>4
<1> QED
  BY <1>2, <1>5 DEF Setup

LEMMA RefinesInit == Init => Abstract!Init
<1> SUFFICES ASSUME Init PROVE Abstract!Init
  OBVIOUS
<1>1. Abstract!NoSetup.cfg = DefaultConfig
  BY DEF Abstract!NoSetup, DefaultConfig
<1>2. Setup(ResetRegisters) = Abstract!NoSetup
  <2>1. ResetRegisters.tmtr = ResetMode
    BY DEF ResetRegisters
  <2>2. \A n \in Channel : ResetRegisters.ch[n] = ResetChannel
    BY DEF ResetRegisters
  <2>3. [n \in Channel |-> get_channel_config(ResetRegisters.ch[n])]
          = [n \in Channel |-> ClearConfig]
    BY <2>2, ResetDecodes
  <2> QED
    BY <2>1, <2>3, ResetDecodes, SameOperators DEF Setup, Abstract!NoSetup, DefaultConfig
<1>3. [d \in Device |-> [i \in Instance |-> Setup(latched[d][i])]]
        = [d \in Device |-> [i \in Instance |-> Abstract!NoSetup]]
  BY <1>2 DEF Init
<1> QED
  BY <1>1, <1>3 DEF Init, Abstract!Init

(* A step that leaves the session and the acquisitions alone is a stutter. *)
LEMMA SameSetup ==
  ASSUME UNCHANGED <<phase, latched>>
  PROVE  /\ UNCHANGED phase
         /\ UNCHANGED [d \in Device |-> [i \in Instance |-> Setup(latched[d][i])]]
  OBVIOUS

LEMMA Stutters ==
  ASSUME UNCHANGED <<session, phase, latched>>
  PROVE  UNCHANGED Abstract!vars
  BY SameSetup DEF session, Abstract!vars

(* The end of a session.                                                   *)
LEMMA RefinesClose ==
  ASSUME loaded, ForgetSession, UNCHANGED <<phase, latched>>
  PROVE  Abstract!Next
<1>1. Abstract!NoSetup.cfg = DefaultConfig
  BY DEF Abstract!NoSetup, DefaultConfig
<1>2. Abstract!Close
  BY <1>1 DEF ForgetSession, Abstract!Close
<1> QED
  BY <1>2, SameSetup DEF Abstract!Next

(* A command that sets one domain's configuration or one trigger.          *)
LEMMA RefinesConfigure ==
  ASSUME IInv, NEW d \in Device, NEW c \in ConfigRequest, Configure(d, c)
  PROVE  Abstract!Next
<1> DEFINE new == [mode |-> c.mode, condition |-> c.condition,
                   sample_size |-> c.sample_size]
           m   == c.dom
<1>1. m \in Domain /\ new \in Config /\ config \in [Domain -> Config]
  BY ConstantTypes DEF Config, IInv, TypeOK
<1>2. /\ loaded /\ UNCHANGED <<loaded, triggers, phase, latched>>
      /\ config' = [config EXCEPT ![m] = new]
  BY DEF Configure, hardware
<1>3. config'[m] = new
  BY <1>1, <1>2
<1>4. Abstract!Set(m)
  BY <1>1, <1>2, <1>3, SameOperators DEF Abstract!Set
<1> QED
  BY <1>1, <1>2, <1>4, SameSetup DEF Abstract!Next

LEMMA RefinesTriggers ==
  ASSUME IInv, NEW m \in Domain, NEW ts \in Seq(Trigger),
         loaded, UNCHANGED <<loaded, config, phase, latched>>,
         triggers' = [triggers EXCEPT ![m] = ts],
         Abstract!OneTriggerApart(triggers[m], ts)
  PROVE  Abstract!Next
<1>1. triggers'[m] = ts
  BY DEF IInv, TypeOK
<1>2. Abstract!Set(m)
  BY <1>1 DEF Abstract!Set
<1> QED
  BY <1>2, SameSetup DEF Abstract!Next

LEMMA RefinesSession ==
  ASSUME IInv, SessionCommand
  PROVE  Abstract!Next \/ UNCHANGED Abstract!vars
<1> DEFINE TrigOK(m) == triggers[m] \in Seq(Trigger) /\ Len(triggers[m]) \in Nat
<1>0. \A m \in Domain : TrigOK(m)
  BY LenProperties DEF IInv, TypeOK
<1>1. CASE Load
  <2>1. Abstract!Open /\ UNCHANGED <<phase, latched>>
    BY <1>1 DEF Load, hardware, Abstract!Open
  <2> QED
    BY <2>1, SameSetup DEF Abstract!Next
<1>2. CASE Unload
  BY <1>2, RefinesClose DEF Unload, hardware
<1>3. CASE \E d \in Device, c \in ConfigRequest : Configure(d, c)
  BY <1>3, RefinesConfigure
<1>4. CASE \E d \in Device, r \in TriggerRequest : AddTrigger(d, r)
  <2>1. PICK d \in Device, r \in TriggerRequest : AddTrigger(d, r)
    BY <1>4
  <2>2. PICK s \in Signal :
          triggers' = [triggers EXCEPT ![r.dom] = Append(@, MakeTrigger(d, r, s))]
    BY <2>1 DEF AddTrigger
  <2> DEFINE t  == MakeTrigger(d, r, s)
             m  == r.dom
             ts == Append(triggers[m], t)
  <2>3. m \in Domain /\ t \in Trigger
    BY MakeTriggerType, ConstantTypes
  <2> HIDE DEF t
  <2>4. ts \in Seq(Trigger) /\ Abstract!OneTriggerApart(triggers[m], ts)
    BY <1>0, <2>3 DEF Abstract!OneTriggerApart
  <2>5. triggers' = [triggers EXCEPT ![m] = ts] /\ loaded
        /\ UNCHANGED <<loaded, config, phase, latched>>
    BY <2>1, <2>2 DEF AddTrigger, hardware, t
  <2> HIDE DEF m, ts
  <2> QED
    BY <2>3, <2>4, <2>5, RefinesTriggers
<1>5. CASE \E d \in Device, r \in TriggerRequest : RejectEvent(d, r)
  BY <1>5, Stutters DEF RejectEvent, hardware
<1>6. CASE \E r \in TriggerRequest : \E n \in 1 .. Len(triggers[r.dom]) :
             \E d \in Device : EditTrigger(d, n, r)
  <2>1. PICK r \in TriggerRequest : \E n \in 1 .. Len(triggers[r.dom]) :
          \E d \in Device : EditTrigger(d, n, r)
    BY <1>6
  <2>2. PICK n \in 1 .. Len(triggers[r.dom]), d \in Device : EditTrigger(d, n, r)
    BY <2>1
  <2>3. PICK s \in Signal :
          triggers' = [triggers EXCEPT ![r.dom][n] = MakeTrigger(d, r, s)]
    BY <2>2 DEF EditTrigger
  <2> DEFINE t  == MakeTrigger(d, r, s)
             m  == r.dom
             ts == [triggers[m] EXCEPT ![n] = t]
  <2>4. m \in Domain /\ t \in Trigger
    BY MakeTriggerType, ConstantTypes
  <2> HIDE DEF t
  <2>5. ts \in Seq(Trigger) /\ Len(ts) = Len(triggers[m])
    BY <1>0, <2>4, ReplaceType
  <2>6. Abstract!OneTriggerApart(triggers[m], ts)
    BY <1>0, <2>5 DEF Abstract!OneTriggerApart
  <2>7. triggers' = [triggers EXCEPT ![m] = ts] /\ loaded
        /\ UNCHANGED <<loaded, config, phase, latched>>
    BY <2>2, <2>3 DEF EditTrigger, hardware, t
  <2> HIDE DEF m, ts
  <2> QED
    BY <2>4, <2>5, <2>6, <2>7, RefinesTriggers
<1>7. CASE \E m \in Domain : \E n \in 1 .. Len(triggers[m]) :
             \E d \in Device : RemoveTrigger(d, m, n)
  <2>1. PICK m \in Domain : \E n \in 1 .. Len(triggers[m]) :
          \E d \in Device : RemoveTrigger(d, m, n)
    BY <1>7
  <2>2. PICK n \in 1 .. Len(triggers[m]), d \in Device : RemoveTrigger(d, m, n)
    BY <2>1
  <2> DEFINE ts == Without(triggers[m], n)
  <2>3. ts \in Seq(Trigger) /\ Len(ts) = Len(triggers[m]) - 1
    BY <1>0, WithoutType
  <2>4. \A k \in 1 .. Len(ts) : ts[k] = triggers[m][IF k < n THEN k ELSE k + 1]
    BY <2>3 DEF Without
  <2> HIDE DEF ts
  <2>5. Abstract!OneTriggerApart(triggers[m], ts)
    BY <2>3, <2>4 DEF Abstract!OneTriggerApart
  <2>6. triggers' = [triggers EXCEPT ![m] = ts] /\ loaded
        /\ UNCHANGED <<loaded, config, phase, latched>>
    BY <2>2 DEF RemoveTrigger, hardware, ts
  <2> QED
    BY <2>3, <2>5, <2>6, RefinesTriggers
<1>8. CASE \E d \in Device, m \in Domain : ShowWaveform(d, m)
  BY <1>8, Stutters DEF ShowWaveform, hardware
<1> QED
  BY <1>1, <1>2, <1>3, <1>4, <1>5, <1>6, <1>7, <1>8 DEF SessionCommand

(* ST rises: the acquisition begins.                                       *)
LEMMA RefinesCapture ==
  ASSUME RInv, Arm
  PROVE  Abstract!Next
<1> DEFINE d     == run.dev
           m     == run.dom
           setup == [e \in Device |-> [i \in Instance |-> Setup(latched[e][i])]]
           begun == [i \in Instance |->
                       IF \E k \in 1 .. Len(InstancesOf[m]) : InstancesOf[m][k] = i
                         THEN [cfg |-> config[m],
                               ch |-> Abstract!ChannelSetup(triggers[m], i)]
                         ELSE setup[d][i]]
<1>1. /\ pc = "arm" /\ UNCHANGED session /\ st[d][First] = 0
      /\ loaded /\ verify(d) /\ triggers[m] # <<>>
      /\ InstancesDone(Len(InstancesOf[m]))
  BY DEF Arm, RInv, IInv, RunOK, ArmReady, ProgramOK
<1>2. d \in Device /\ m \in Domain /\ InstancesOf[m] \in Seq(Instance)
  BY <1>1, RunFacts, ConstantTypes DEF RInv
<1>3. /\ phase' = [phase EXCEPT ![d][m] = "sampling"]
      /\ latched' = [latched EXCEPT ![d] = [i \in Instance |->
           IF i \in Members(m) THEN regs[d][i] ELSE @[i]]]
  BY <1>1 DEF Arm
<1>4. latched \in [Device -> [Instance -> Registers]]
  BY DEF RInv, IInv, TypeOK
<1>5. ASSUME NEW i \in Instance
      PROVE  Setup(latched'[d][i]) = begun[i]
  <2>1. latched'[d][i] = IF i \in Members(m) THEN regs[d][i] ELSE latched[d][i]
    BY <1>2, <1>3, <1>4
  <2>2. i \in Members(m) <=> \E k \in 1 .. Len(InstancesOf[m]) : InstancesOf[m][k] = i
    BY DEF Members
  <2>3. CASE i \in Members(m)
    <3>1. Programmed(regs[d][i], m, i)
      BY <1>1, <2>2, <2>3 DEF InstancesDone
    <3>2. Setup(regs[d][i]) = [cfg |-> config[m],
                               ch |-> Abstract!ChannelSetup(triggers[m], i)]
      BY <1>2, <3>1, ProgrammedSetup DEF RInv
    <3> QED
      BY <2>1, <2>2, <2>3, <3>2
  <2>4. CASE i \notin Members(m)
    BY <1>2, <2>1, <2>2, <2>4
  <2> QED
    BY <2>3, <2>4
<1>6. [i \in Instance |-> Setup(latched'[d][i])] = begun
  <2> HIDE DEF setup, d, m
  <2> QED
    BY <1>5
<1>7. \A e \in Device : e # d => latched'[e] = latched[e]
  BY <1>2, <1>3, <1>4
<1>8. [e \in Device |-> [i \in Instance |-> Setup(latched'[e][i])]]
        = [setup EXCEPT ![d] = begun]
  <2> HIDE DEF begun
  <2> QED
    BY <1>2, <1>6, <1>7
<1>9. d \in {e \in Device : verify(e)}
  BY <1>1, <1>2
<1>10. Abstract!Capture(d, m)
  BY <1>1, <1>3, <1>8, <1>9 DEF Abstract!Capture, session
<1> QED
  BY <1>2, <1>10 DEF Abstract!Next

(* Every step is one of the abstract specification, or a stutter.          *)
LEMMA RefinesStep ==
  RInv /\ [Next]_vars => Abstract!Next \/ UNCHANGED Abstract!vars
<1> SUFFICES ASSUME RInv, [Next]_vars
             PROVE  Abstract!Next \/ UNCHANGED Abstract!vars
  OBVIOUS
<1>1. CASE SessionCommand
  BY <1>1, RefinesSession DEF RInv
<1>2. CASE BeginStart
  BY <1>2, Stutters DEF BeginStart, Start, hardware
<1>3. CASE ProgramMode \/ ClearChannel \/ SkipTrigger \/ ProgramTrigger
  BY <1>3, Stutters DEF ProgramMode, ClearChannel, SkipTrigger, ProgramTrigger,
                        WriteChannelWord, hardware
<1>4. CASE NextInstance \/ DummyWrite \/ Poll \/ GiveUp \/ Fetch \/ AssertFails \/ JtagFails
  BY <1>4, Stutters DEF NextInstance, DummyWrite, Poll, GiveUp, Fetch, AssertFails,
                        JtagFails, hardware
<1>5. CASE Arm
  BY <1>5, RefinesCapture
<1>6. CASE ProcessEnds
  BY <1>6, RefinesClose DEF ProcessEnds, hardware
<1>7. CASE \E d \in Device, m \in Domain : SamplingDone(d, m)
  <2>1. PICK d \in Device, m \in Domain : SamplingDone(d, m)
    BY <1>7
  <2>2. Abstract!Complete(d, m)
    BY <2>1 DEF SamplingDone, session, Abstract!Complete
  <2> QED
    BY <2>2 DEF Abstract!Next
<1>8. CASE UNCHANGED vars
  BY <1>8, Stutters DEF vars, hardware
<1> QED
  BY <1>1, <1>2, <1>3, <1>4, <1>5, <1>6, <1>7, <1>8 DEF Next, StartStep

(* OclaDebugger implements OclaAcquisition: whatever the user types, and    *)
(* however commands are interrupted, an acquisition begins in one step     *)
(* under exactly what the session says, on a device that was verified.     *)
THEOREM DebuggerRefinesAcquisition == Spec => Refines
<1>1. RInv /\ [Next]_vars => [Abstract!Next]_(Abstract!vars)
  BY RefinesStep
<1> QED
  BY <1>1, RInvInit, RInvStep, RefinesInit, PTL DEF Spec, Refines, Abstract!Spec

(***************************************************************************)
(* Waveforms.                                                              *)
(***************************************************************************)

(* FNS is set exactly when the number of samples is.                       *)
LEMMA ConfigureFixed ==
  ASSUME NEW cfg \in Config, cfg.sample_size < NsSpan
  PROVE  /\ FixedNumber(configure(cfg))
         /\ configure(cfg).fns = (IF cfg.sample_size > 0 THEN 1 ELSE 0)
         /\ configure(cfg).ns = cfg.sample_size
<1>1. cfg.sample_size \in 0 .. NsSpan - 1
  BY Spans DEF Config
<1>2. cfg.sample_size % NsSpan = cfg.sample_size
  BY <1>1, Spans, SmallRemainder
<1> QED
  BY <1>1, <1>2 DEF FixedNumber, configure

LEMMA ModesSoundStep == RInv /\ ModesSound /\ [Next]_vars => ModesSound'
<1> SUFFICES ASSUME RInv, ModesSound, [Next]_vars,
                    NEW d \in Device, NEW i \in Instance
             PROVE  FixedNumber(regs'[d][i].tmtr) /\ FixedNumber(latched'[d][i].tmtr)
  BY DEF ModesSound, FixedNumber
<1>1. FixedNumber(regs[d][i].tmtr) /\ FixedNumber(latched[d][i].tmtr) /\ IInv
  BY DEF ModesSound, RInv
<1>2. CASE ProgramMode /\ regs'[d][i].tmtr = configure(config[run.dom])
  <2>1. config[run.dom] \in Config /\ config[run.dom].sample_size < NsSpan
    BY <1>1, <1>2, RunFacts DEF ProgramMode, RInv, ConfigFits
  <2> QED
    BY <1>1, <1>2, <2>1, ConfigureFixed, LatchedWrites
<1>3. CASE regs'[d][i].tmtr = regs[d][i].tmtr
  BY <1>1, <1>3, LatchedWrites
<1> QED
  BY <1>1, <1>2, <1>3, ModeWrites

(* Unless it is armed, an acquisition that is there after a step was there  *)
(* before, its mode registers in the same state.                           *)
LEMMA AcquisitionStays ==
  ASSUME IInv, [Next]_vars, ~Arm, NEW d \in Device, NEW m \in Domain
  PROVE  /\ latched' = latched
         /\ phase'[d][m] # "none" => phase[d][m] # "none"
         /\ m \notin torn'[d] /\ ~Underway(d, m)' => m \notin torn[d] /\ ~Underway(d, m)
<1>1. /\ phase \in [Device -> [Domain -> {"none", "sampling", "done"}]]
      /\ torn \in [Device -> SUBSET Domain] /\ run \in RunType
  BY DEF IInv, TypeOK
<1>2. CASE SessionCommand
  BY <1>2 DEF SessionCommand, Idle, Load, Unload, Configure, AddTrigger, RejectEvent,
              EditTrigger, RemoveTrigger, ShowWaveform, hardware, Underway
<1>3. CASE BeginStart
  BY <1>3 DEF BeginStart, Start, hardware, Underway, Programming
<1>4. CASE ProgramMode \/ ClearChannel \/ SkipTrigger \/ ProgramTrigger \/ NextInstance
           \/ DummyWrite
  <2>1. /\ UNCHANGED <<phase, latched, torn>> /\ pc \in Programming
        /\ pc' \in Programming
        /\ run'.dev = run.dev /\ run'.dom = run.dom
        /\ pc' = "configure" => run'.k = run.k + 1 /\ pc = "trigger"
    BY <1>1, <1>4
       DEF ProgramMode, ClearChannel, SkipTrigger, ProgramTrigger, NextInstance,
           DummyWrite, WriteChannelWord, hardware, Programming, RunType
  <2>2. run'.k = run.k + 1 => run'.k # 1
    <3>1. run.k \in Nat \ {0}
      BY <1>1 DEF RunType
    <3> QED
      BY <3>1
  <2>3. Underway(d, m) => Underway(d, m)'
    BY <2>1, <2>2 DEF Underway
  <2> QED
    BY <2>1, <2>3
<1>5. CASE Poll
  BY <1>5 DEF Poll, hardware, Underway, Programming
<1>6. CASE GiveUp \/ Fetch
  BY <1>6 DEF GiveUp, Fetch, hardware, Underway, Programming
<1>7. CASE AssertFails \/ JtagFails \/ ProcessEnds
  <2>1. UNCHANGED <<phase, latched>> /\ CutShort /\ pc' = "idle"
    BY <1>7 DEF AssertFails, JtagFails, ProcessEnds, Finish, hardware
  <2>2. run.dev \in Device /\ run.dom \in Domain
    BY <1>1 DEF RunType
  <2>3. m \notin torn'[d] => m \notin torn[d] /\ ~Underway(d, m)
    <3>1. CASE pc \in Programming /\ ~(pc = "configure" /\ run.k = 1)
      <4>1. torn' = [torn EXCEPT ![run.dev] = @ \cup {run.dom}]
        BY <2>1, <3>1 DEF CutShort
      <4> QED
        BY <1>1, <2>2, <4>1 DEF Underway
    <3>2. CASE ~(pc \in Programming /\ ~(pc = "configure" /\ run.k = 1))
      BY <2>1, <3>2 DEF CutShort, Underway
    <3> QED
      BY <3>1, <3>2
  <2> QED
    BY <2>1, <2>3
<1>8. CASE \E e \in Device, n \in Domain : SamplingDone(e, n)
  <2>1. PICK e \in Device, n \in Domain : SamplingDone(e, n)
    BY <1>8
  <2>2. phase[e][n] = "sampling" /\ phase' = [phase EXCEPT ![e][n] = "done"]
    BY <2>1 DEF SamplingDone
  <2>3. phase'[d][m] # "none" => phase[d][m] # "none"
    BY <1>1, <2>2
  <2> QED
    BY <2>1, <2>3 DEF SamplingDone, Underway
<1>9. CASE UNCHANGED vars
  BY <1>9 DEF vars, hardware, Underway
<1> QED
  BY <1>2, <1>3, <1>4, <1>5, <1>6, <1>7, <1>8, <1>9 DEF Next, StartStep

(* Arming settles what the mode registers of its domain belong to, and      *)
(* touches no other.                                                       *)
LEMMA ArmSettles ==
  ASSUME RInv, ModesMatch, Arm, NEW d \in Device, NEW m \in Domain,
         phase'[d][m] # "none", m \notin torn'[d],
         NEW i \in Members(m)
  PROVE  regs'[d][i].tmtr = latched'[d][i].tmtr
<1>1. /\ pc = "arm" /\ regs' = regs /\ st[run.dev][First] = 0 /\ IInv
  BY DEF Arm, RInv, ArmReady
<1>2. /\ phase' = [phase EXCEPT ![run.dev][run.dom] = "sampling"]
      /\ latched' = [latched EXCEPT ![run.dev] = [e \in Instance |->
           IF e \in Members(run.dom) THEN regs[run.dev][e] ELSE @[e]]]
      /\ torn' = [torn EXCEPT ![run.dev] = @ \ {run.dom}]
  BY <1>1 DEF Arm
<1>3. /\ run.dev \in Device /\ run.dom \in Domain
      /\ phase \in [Device -> [Domain -> {"none", "sampling", "done"}]]
      /\ latched \in [Device -> [Instance -> Registers]]
      /\ torn \in [Device -> SUBSET Domain]
  BY <1>1, RunFacts DEF IInv, TypeOK
<1>4. PICK k \in 1 .. Len(InstancesOf[m]) : i = InstancesOf[m][k]
  BY DEF Members
<1>5. i \in Instance
  <2>1. InstancesOf[m] \in Seq(Instance)
    BY ConstantTypes
  <2> QED
    BY <1>4, <2>1, ElementOfSeq
<1>6. CASE d = run.dev /\ m = run.dom
  <2>1. latched'[d][i] = regs[d][i]
    BY <1>2, <1>3, <1>5, <1>6
  <2> QED
    BY <1>1, <2>1
<1>7. CASE ~(d = run.dev /\ m = run.dom)
  <2>1. phase'[d][m] = phase[d][m]
    BY <1>2, <1>3, <1>7
  <2>2. m \notin torn[d]
    BY <1>2, <1>3, <1>7
  <2>3. ~Underway(d, m)
    BY <1>7 DEF Underway
  <2>4. m # run.dom => i \notin Members(run.dom)
    BY <1>3, <1>4, InstanceInOneDomain DEF Members
  <2>5. latched'[d][i] = latched[d][i]
    BY <1>2, <1>3, <1>5, <1>7, <2>4
  <2> QED
    BY <1>1, <2>1, <2>2, <2>3, <2>5 DEF ModesMatch
<1> QED
  BY <1>6, <1>7

LEMMA ModesMatchStep == RInv /\ ModesMatch /\ [Next]_vars => ModesMatch'
<1> SUFFICES ASSUME RInv, ModesMatch, [Next]_vars,
                    NEW d \in Device, NEW m \in Domain,
                    phase'[d][m] # "none", m \notin torn'[d], ~Underway(d, m)',
                    NEW i \in Members(m)
             PROVE  regs'[d][i].tmtr = latched'[d][i].tmtr
  BY DEF ModesMatch, Members
<1>1. CASE Arm
  BY <1>1, ArmSettles
<1>2. CASE ~Arm
  <2>1. /\ latched' = latched /\ phase[d][m] # "none"
        /\ m \notin torn[d] /\ ~Underway(d, m)
    BY <1>2, AcquisitionStays DEF RInv
  <2>2. regs[d][i].tmtr = latched[d][i].tmtr
    BY <2>1 DEF ModesMatch
  <2>3. PICK k \in 1 .. Len(InstancesOf[m]) : i = InstancesOf[m][k]
    BY DEF Members
  <2>4. i \in Instance
    <3>1. InstancesOf[m] \in Seq(Instance)
      BY ConstantTypes
    <3> QED
      BY <2>3, <3>1, ElementOfSeq
  <2>5. ~(ProgramMode /\ d = run.dev /\ i = Current)
    <3> SUFFICES ASSUME ProgramMode, d = run.dev, i = Current PROVE FALSE
      OBVIOUS
    <3>1. run.dom \in Domain /\ run.k \in 1 .. Len(InstancesOf[run.dom])
      BY RunFacts DEF RInv, ProgramMode
    <3>2. m = run.dom
      BY <2>3, <3>1, InstanceInOneDomain DEF Current
    <3>3. pc' = "clear" /\ run' = run
      BY DEF ProgramMode
    <3> QED
      BY <3>2, <3>3 DEF Underway, Programming
  <2>6. regs'[d][i].tmtr = regs[d][i].tmtr
    BY <2>4, <2>5, ModeWrites DEF RInv
  <2> QED
    BY <2>1, <2>2, <2>6
<1> QED
  BY <1>1, <1>2

(* Once all are programmed, the mode registers of the domain are.          *)
LEMMA MembersProgrammed ==
  ASSUME NEW m, NEW d, NEW i \in Members(m),
         \A k \in 1 .. Len(InstancesOf[m]) :
           Programmed(regs[d][InstancesOf[m][k]], m, InstancesOf[m][k])
  PROVE  regs[d][i].tmtr = configure(config[m])
  BY DEF Members, Programmed

LEMMA WaitingStep == RInv /\ Waiting /\ [Next]_vars => Waiting'
<1> SUFFICES ASSUME RInv, Waiting, [Next]_vars, pc' # "idle"
             PROVE  /\ out'.kind # "waveform"
                    /\ pc' \in {"arm", "poll", "fetch"} =>
                         \A i \in Members(run'.dom) :
                           regs'[run'.dev][i].tmtr = configure(config'[run'.dom])
                    /\ pc' = "fetch" => phase'[run'.dev][run'.dom] = "done"
  BY DEF Waiting
<1>1. ~SessionCommand
  BY DEF SessionCommand, Idle, Load, Unload, Configure, AddTrigger, RejectEvent,
         EditTrigger, RemoveTrigger, ShowWaveform
<1>2. CASE BeginStart
  BY <1>2 DEF BeginStart, Start, Quiet
<1>3. CASE ProgramMode \/ ClearChannel \/ SkipTrigger \/ ProgramTrigger \/ NextInstance
  BY <1>3 DEF ProgramMode, ClearChannel, SkipTrigger, ProgramTrigger, NextInstance,
              WriteChannelWord, hardware, Waiting
<1>4. CASE DummyWrite
  <2>1. /\ pc = "trigger" /\ pc' = "arm" /\ run' = run /\ out' = out
        /\ UNCHANGED <<regs, config>> /\ run.j > Len(triggers[run.dom])
        /\ run.k = Len(InstancesOf[run.dom])
    BY <1>4 DEF DummyWrite, session
  <2>2. InstancesDone(Len(InstancesOf[run.dom]))
    BY <2>1, InstanceDone DEF RInv
  <2>3. \A i \in Members(run.dom) : regs[run.dev][i].tmtr = configure(config[run.dom])
    BY <2>2, MembersProgrammed DEF InstancesDone
  <2> QED
    BY <2>1, <2>3 DEF Waiting
<1>5. CASE Arm
  BY <1>5 DEF Arm, session, Waiting
<1>6. CASE Poll
  <2>1. /\ pc = "poll" /\ pc' \in {"poll", "fetch"} /\ UNCHANGED <<regs, config, phase, out>>
        /\ run'.dev = run.dev /\ run'.dom = run.dom
        /\ pc' = "fetch" => phase[run.dev][run.dom] = "done"
    BY <1>6 DEF Poll, DataAvailable, session, hardware, RInv, IInv, TypeOK, RunType
  <2> QED
    BY <2>1 DEF Waiting
<1>7. ~(GiveUp \/ Fetch \/ AssertFails \/ JtagFails \/ ProcessEnds)
  BY DEF GiveUp, Fetch, AssertFails, JtagFails, ProcessEnds, Finish
<1>8. CASE \E d \in Device, m \in Domain : SamplingDone(d, m)
  <2>1. PICK d \in Device, m \in Domain : SamplingDone(d, m)
    BY <1>8
  <2>2. /\ phase' = [phase EXCEPT ![d][m] = "done"] /\ out' = Quiet
        /\ UNCHANGED <<config, regs, pc, run>>
    BY <2>1 DEF SamplingDone, session
  <2>3. /\ run.dev \in Device /\ run.dom \in Domain
        /\ phase \in [Device -> [Domain -> {"none", "sampling", "done"}]]
    BY DEF RInv, IInv, TypeOK, RunType
  <2>4. pc = "fetch" => phase'[run.dev][run.dom] = "done"
    BY <2>2, <2>3 DEF Waiting
  <2> QED
    BY <2>2, <2>4 DEF Waiting, Quiet
<1>9. CASE UNCHANGED vars
  BY <1>9 DEF vars, session, hardware, Waiting
<1> QED
  BY <1>1, <1>2, <1>3, <1>4, <1>5, <1>6, <1>7, <1>8, <1>9 DEF Next, StartStep, Waiting

(* The inductive invariant of the waveforms.                               *)
WInv == RInv /\ ModesSound /\ ModesMatch /\ Waiting

LEMMA WInvInit == Init => WInv
<1> SUFFICES ASSUME Init PROVE WInv
  OBVIOUS
<1>1. ModesSound
  BY DEF Init, ModesSound, FixedNumber, ResetRegisters, ResetMode
<1>2. ModesMatch
  BY DEF Init, ModesMatch
<1>3. Waiting
  BY DEF Init, Waiting
<1> QED
  BY <1>1, <1>2, <1>3, RInvInit DEF WInv

LEMMA WInvStep == WInv /\ [Next]_vars => WInv'
  BY RInvStep, ModesSoundStep, ModesMatchStep, WaitingStep DEF WInv

(* Where a waveform comes from.                                            *)
LEMMA WaveformSource ==
  ASSUME Waiting, [Next]_vars, out'.kind = "waveform"
  PROVE  \/ Fetch
         \/ \E d \in Device, m \in Domain : ShowWaveform(d, m)
         \/ UNCHANGED vars
<1>1. ~(StartStep \/ JtagFails \/ ProcessEnds) \/ Fetch
  <2>1. ~(ProgramMode \/ ClearChannel \/ SkipTrigger \/ ProgramTrigger \/ NextInstance
            \/ DummyWrite \/ Poll)
    BY DEF ProgramMode, ClearChannel, SkipTrigger, ProgramTrigger, NextInstance,
           DummyWrite, Poll, WriteChannelWord, Waiting
  <2>2. ~Arm
    BY DEF Arm, Waiting
  <2>3. ~(GiveUp \/ AssertFails \/ JtagFails \/ ProcessEnds)
    BY DEF GiveUp, AssertFails, JtagFails, ProcessEnds, Finish, Quiet
  <2> QED
    BY <2>1, <2>2, <2>3 DEF StartStep
<1>0. Quiet.kind # "waveform"
  BY DEF Quiet
<1>2. ~SessionCommand \/ \E d \in Device, m \in Domain : ShowWaveform(d, m)
  <2>1. ASSUME NEW d \in Device, NEW r \in TriggerRequest
        PROVE  ~RejectEvent(d, r)
    BY DEF RejectEvent
  <2> QED
    BY <1>0, <2>1 DEF SessionCommand, Load, Unload, Configure, AddTrigger,
                      EditTrigger, RemoveTrigger
<1>3. ~BeginStart /\ ~(\E d \in Device, m \in Domain : SamplingDone(d, m))
  BY <1>0 DEF BeginStart, Start, SamplingDone
<1> QED
  BY <1>1, <1>2, <1>3 DEF Next

LEMMA WaitedStep == WInv /\ WaitedWaveform /\ [Next]_vars => WaitedWaveform'
<1> SUFFICES ASSUME WInv, WaitedWaveform, [Next]_vars,
                    out'.kind = "waveform", out'.origin = "start"
             PROVE  /\ phase'[out'.dev][out'.dom] = "done"
                    /\ \A i \in Members(out'.dom) :
                         out'.depth[i] = IF config'[out'.dom].sample_size > 0
                                           THEN config'[out'.dom].sample_size
                                           ELSE DebugInfo[i].depth
  BY DEF WaitedWaveform, Members
<1>1. CASE Fetch
  <2>1. /\ pc = "fetch" /\ out' = Waveform(run.dev, run.dom, "start")
        /\ UNCHANGED <<config, regs, phase>>
    BY <1>1 DEF Fetch, Finish, session, hardware
  <2>2. /\ run.dev \in Device /\ run.dom \in Domain /\ config[run.dom] \in Config
        /\ verify(run.dev) /\ phase[run.dev][run.dom] = "done"
        /\ config[run.dom].sample_size < NsSpan
    BY <2>1, RunFacts DEF WInv, RInv, IInv, RunOK, Waiting, ConfigFits
  <2>3. /\ out'.dev = run.dev /\ out'.dom = run.dom
        /\ out'.depth = [i \in Members(run.dom) |->
                           Depth(regs[run.dev][i].tmtr, Hardware[run.dev][i].depth)]
    BY <2>1 DEF Waveform
  <2>4. ASSUME NEW i \in Members(run.dom)
        PROVE  out'.depth[i] = IF config[run.dom].sample_size > 0
                                 THEN config[run.dom].sample_size
                                 ELSE DebugInfo[i].depth
    <3>1. regs[run.dev][i].tmtr = configure(config[run.dom])
      BY <2>1 DEF WInv, Waiting
    <3>2. Hardware[run.dev][i].depth = DebugInfo[i].depth
      BY <2>2 DEF verify
    <3>3. out'.depth[i] = Depth(configure(config[run.dom]), DebugInfo[i].depth)
      BY <2>3, <3>1, <3>2
    <3>4. /\ configure(config[run.dom]).fns =
               (IF config[run.dom].sample_size > 0 THEN 1 ELSE 0)
          /\ configure(config[run.dom]).ns = config[run.dom].sample_size
      BY <2>2, ConfigureFixed
    <3> QED
      BY <3>3, <3>4 DEF Depth, get_config
  <2> QED
    BY <2>1, <2>2, <2>3, <2>4
<1>2. CASE \E d \in Device, m \in Domain : ShowWaveform(d, m)
  BY <1>2 DEF ShowWaveform, Waveform
<1>3. CASE UNCHANGED vars
  BY <1>3 DEF vars, session, hardware, WaitedWaveform
<1> QED
  BY <1>1, <1>2, <1>3, WaveformSource DEF WInv

(* The waveform a start command shows was sampled completely, and is as     *)
(* long as the session says, or as the memory is deep.                     *)
THEOREM WaveformIsComplete == Spec => []WaitedWaveform
<1>1. Init => WaitedWaveform
  BY DEF Init, WaitedWaveform, Quiet
<1> QED
  BY <1>1, WInvInit, WInvStep, WaitedStep, PTL DEF Spec

(* What get_waveform downloads under a fixed or an open number of samples. *)
LEMMA ShownDepth ==
  ASSUME ModesSound', ModesMatch', NEW d \in Device, NEW m \in Domain,
         pc' = "idle", phase'[d][m] # "none", m \notin torn'[d], NEW i \in Members(m),
         regs' = regs, i \in Instance
  PROVE  LET ns == latched'[d][i].tmtr.ns
         IN  Depth(regs[d][i].tmtr, Hardware[d][i].depth) =
               IF ns > 0 THEN ns ELSE Hardware[d][i].depth
<1>1. ~Underway(d, m)'
  BY DEF Underway, Programming
<1>2. regs[d][i].tmtr = latched'[d][i].tmtr
  BY <1>1 DEF ModesMatch, Members
<1>3. FixedNumber(latched'[d][i].tmtr)
  BY DEF ModesSound, FixedNumber
<1> QED
  BY <1>2, <1>3 DEF FixedNumber, Depth, get_config

LEMMA CaptureStep == WInv /\ WaveformIsCapture /\ [Next]_vars => WaveformIsCapture'
<1> SUFFICES ASSUME WInv, WaveformIsCapture, [Next]_vars, out'.kind = "waveform",
                    phase'[out'.dev][out'.dom] # "none",
                    out'.dom \notin torn'[out'.dev],
                    NEW i \in Members(out'.dom)
             PROVE  LET ns == latched'[out'.dev][i].tmtr.ns
                    IN  out'.depth[i] = IF ns > 0 THEN ns ELSE Hardware[out'.dev][i].depth
  BY DEF WaveformIsCapture, Members
<1>0. ModesSound' /\ ModesMatch'
  BY WInvStep DEF WInv
<1>1. ASSUME NEW d \in Device, NEW m \in Domain, NEW origin,
             out' = Waveform(d, m, origin), regs' = regs, pc' = "idle"
      PROVE  LET ns == latched'[out'.dev][i].tmtr.ns
             IN  out'.depth[i] = IF ns > 0 THEN ns ELSE Hardware[out'.dev][i].depth
  <2>1. /\ out'.dev = d /\ out'.dom = m
        /\ out'.depth = [e \in Members(m) |-> Depth(regs[d][e].tmtr, Hardware[d][e].depth)]
    BY <1>1 DEF Waveform
  <2>2. i \in Instance
    <3>1. InstancesOf[m] \in Seq(Instance)
      BY ConstantTypes
    <3>2. PICK k \in 1 .. Len(InstancesOf[m]) : i = InstancesOf[m][k]
      BY <2>1 DEF Members
    <3> QED
      BY <3>1, <3>2, ElementOfSeq
  <2> QED
    BY <1>0, <1>1, <2>1, <2>2, ShownDepth
<1>2. CASE Fetch
  <2>1. pc = "fetch" /\ pc' = "idle" /\ out' = Waveform(run.dev, run.dom, "start")
        /\ regs' = regs
    BY <1>2 DEF Fetch, Finish, hardware
  <2>2. run.dev \in Device /\ run.dom \in Domain
    BY <2>1, RunFacts DEF WInv, RInv
  <2> QED
    BY <1>1, <2>1, <2>2
<1>3. CASE \E d \in Device, m \in Domain : ShowWaveform(d, m)
  <2>1. PICK d \in Device, m \in Domain : ShowWaveform(d, m)
    BY <1>3
  <2>2. pc' = "idle" /\ out' = Waveform(d, m, "show_waveform") /\ regs' = regs
    BY <2>1 DEF ShowWaveform, Idle, hardware
  <2> QED
    BY <1>1, <2>2
<1>4. CASE UNCHANGED vars
  BY <1>4 DEF vars, hardware, WaveformIsCapture
<1> QED
  BY <1>2, <1>3, <1>4, WaveformSource DEF WInv

(* Also when the session was reconfigured or reloaded since, a waveform     *)
(* has the depth of the acquisition in the buffer, unless a start command  *)
(* was cut short in between.                                               *)
THEOREM WaveformShowsCapture == Spec => []WaveformIsCapture
<1>1. Init => WaveformIsCapture
  BY DEF Init, WaveformIsCapture, Quiet
<1> QED
  BY <1>1, WInvInit, WInvStep, CaptureStep, PTL DEF Spec

-----------------------------------------------------------------------------
(* Where the boards that pass verification agree on the number of channels *)
(* of an instance, which verification does not compare, a start command    *)
(* never runs out of channels: the list that add_trigger and edit_trigger  *)
(* kept within the limit fits.                                             *)
THEOREM ChannelsSuffice ==
  ASSUME \A d, e \in Device : verify(d) /\ verify(e) =>
           \A i \in Instance : Hardware[d][i].tc = Hardware[e][i].tc
  PROVE  Spec => []ChannelExists
<1>1. RInv /\ TriggerLimit => ChannelExists
  <2> SUFFICES ASSUME RInv, TriggerLimit, ProgrammingTrigger
               PROVE  run.ch < Hardware[run.dev][Current].tc
    BY DEF ChannelExists
  <2> DEFINE ts == triggers[run.dom]
             i  == Current
  <2>1. /\ pc = "trigger" /\ run.j <= Len(ts) /\ ts[run.j].inst = i
    BY DEF ProgrammingTrigger, ThisTrigger
  <2>2. /\ run.j \in Nat \ {0} /\ ts \in Seq(Trigger) /\ Len(ts) \in Nat
        /\ run.dev \in Device /\ run.dom \in Domain /\ i \in Instance
    BY <2>1, RunFacts, LenProperties DEF RInv
  <2>3. run.ch = Rank(ts, i, run.j)
    BY <2>1 DEF RInv, ProgramOK, Triggering
  <2>4. run.ch < get_number_of_triggers(ts, i)
    <3>1. run.j \in 1 .. (Len(ts) + 1) - 1 /\ Len(ts) + 1 \in Nat \ {0}
      BY <2>1, <2>2
    <3>2. Rank(ts, i, run.j) < Rank(ts, i, Len(ts) + 1)
      BY <2>1, <3>1, RankStrict
    <3> QED
      BY <2>2, <2>3, <3>2, RankLast
  <2>5. /\ run.ch \in Nat /\ get_number_of_triggers(ts, i) \in Nat
        /\ \A d \in Device : Hardware[d][i].tc \in Nat
    BY <2>2, <2>3, BeforeFinite, PlacesFinite, ConstantTypes
  <2>6. PICK d \in Device :
          verify(d) /\ get_number_of_triggers(ts, i) <= Hardware[d][i].tc
    BY <2>2, <2>4, <2>5 DEF TriggerLimit
  <2>7. Hardware[d][i].tc = Hardware[run.dev][i].tc
    BY <2>1, <2>2, <2>6 DEF RInv, IInv, RunOK
  <2> QED
    BY <2>2, <2>4, <2>5, <2>6, <2>7
<1> QED
  BY <1>1, RInvInit, RInvStep, TriggersStayWithinLimit, PTL DEF Spec
=============================================================================
