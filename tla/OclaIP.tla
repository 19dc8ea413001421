------------------------------- MODULE OclaIP -------------------------------
(***************************************************************************)
(* The registers of one OCLA instance (the on-chip logic analyser) as      *)
(* OclaIP.h lays them out and OclaIP.cpp writes and reads them.  A         *)
(* register is the record of its bit fields: where the fields sit inside   *)
(* the 32-bit word is left out, their WIDTH is not,                        *)
(* because a value that does not fit is silently cut by                    *)
(* CFG_set_bitfield_u32.                                                   *)
(***************************************************************************)
EXTENDS Naturals

(* enum ocla_trigger_type *)
TRIGGER_NONE  == 0
EDGE          == 1
LEVEL         == 2
VALUE_COMPARE == 3
TriggerType   == 0 .. 3

(* enum ocla_trigger_event: the event code carries the type in its high    *)
(* digit and the field value in its low digit, e.g. FALLING = 0x12.        *)
NO_EVENT == 0
EventCode(type, low) == 16 * type + low

(* The events CFG_type_event_sanity_check admits for a trigger type.  A    *)
(* type that is not in its table, "disable", admits none.                  *)
EventsOf(type) ==
  CASE type = EDGE          -> {EventCode(EDGE, n) : n \in 1 .. 3}
    [] type = LEVEL         -> {EventCode(LEVEL, n) : n \in 0 .. 1}
    [] type = VALUE_COMPARE -> {EventCode(VALUE_COMPARE, n) : n \in 1 .. 3}
    [] OTHER                -> {}

(* Number of values of the fields: TSSR.PS is 10 bits wide, TSSR.CW 6,     *)
(* TMTR.NS 20, every field of TCUR and TMTR.TM, TMTR.B 2.                  *)
PsSpan    == 1024
CwSpan    == 64
NsSpan    == 1048576
DepthSpan == 32768  \* UIDP0.MD, the memory depth, is 15 bits wide
SmallSpan == 4

ChannelRegister ==
  [ tssr : [ps : 0 .. PsSpan - 1, cw : 0 .. CwSpan - 1],
    tcur : [tt : TriggerType, et : 0 .. 3, lt : 0 .. 3, vc : 0 .. 3],
    tdcr : Nat ]

ModeRegister ==
  [tm : 0 .. 3, b : 0 .. 3, fns : 0 .. 1, ns : 0 .. NsSpan - 1]

Config == [mode : 0 .. 3, condition : 0 .. 3, sample_size : Nat]

TriggerConfig ==
  [type : TriggerType, event : Nat, value : Nat, compare_width : Nat,
   probe_num : Nat]

(* Contents after the FPGA is configured. *)
ResetChannel ==
  [ tssr |-> [ps |-> 0, cw |-> 0],
    tcur |-> [tt |-> TRIGGER_NONE, et |-> 0, lt |-> 0, vc |-> 0],
    tdcr |-> 0 ]
ResetMode == [tm |-> 0, b |-> 0, fns |-> 0, ns |-> 0]

(* Mutant of configure: the number of samples is fixed from two on. *)
ConfigureLateFns(cfg) ==
  [ tm  |-> cfg.mode % SmallSpan,
    b   |-> cfg.condition % SmallSpan,
    fns |-> IF cfg.sample_size > 1 THEN 1 ELSE 0,
    ns  |-> cfg.sample_size % NsSpan ]

(* OclaIP::configure: the word written to TMTR. *)
configure(cfg) ==
  [ tm  |-> cfg.mode % SmallSpan,
    b   |-> cfg.condition % SmallSpan,
    fns |-> IF cfg.sample_size > 0 THEN 1 ELSE 0,
    ns  |-> cfg.sample_size % NsSpan ]

(* Mutant of Tssr: the width itself, not the width less one. *)
TssrPlainWidth(reg, cfg) ==
  [ ps |-> cfg.probe_num % PsSpan,
    cw |-> IF cfg.type = VALUE_COMPARE
             THEN cfg.compare_width % CwSpan ELSE reg.tssr.cw ]

(* OclaIP::configure_channel: the three words it writes to a channel that  *)
(* holds reg.  Fields the type does not use keep what they held.           *)
Tssr(reg, cfg) ==
  [ ps |-> cfg.probe_num % PsSpan,
    cw |-> IF cfg.type = VALUE_COMPARE
             THEN (cfg.compare_width - 1) % CwSpan ELSE reg.tssr.cw ]

Tcur(reg, cfg) ==
  LET low == cfg.event % SmallSpan
  IN  [ tt |-> cfg.type,
        et |-> IF cfg.type = EDGE THEN low ELSE reg.tcur.et,
        lt |-> IF cfg.type = LEVEL THEN low ELSE reg.tcur.lt,
        vc |-> IF cfg.type = VALUE_COMPARE THEN low ELSE reg.tcur.vc ]

Tdcr(reg, cfg) == IF cfg.type = VALUE_COMPARE THEN cfg.value ELSE reg.tdcr

(* The two assertions of configure_channel on a value-compare trigger.     *)
CompareWidthFits(cfg, maxCompare) ==
  cfg.type = VALUE_COMPARE =>
    cfg.compare_width > 0 /\ cfg.compare_width <= maxCompare

(* OclaIP::get_config and OclaIP::get_channel_config: what the registers   *)
(* say, as the analyser and the software read them back.                   *)
get_config(tmtr) ==
  [mode |-> tmtr.tm, condition |-> tmtr.b, sample_size |-> tmtr.ns]

get_channel_config(reg) ==
  LET type == reg.tcur.tt
      cmp  == type = VALUE_COMPARE
  IN  [ type  |-> type,
        event |-> CASE type = EDGE          -> EventCode(EDGE, reg.tcur.et)
                    [] type = LEVEL         -> EventCode(LEVEL, reg.tcur.lt)
                    [] type = VALUE_COMPARE -> EventCode(VALUE_COMPARE, reg.tcur.vc)
                    [] OTHER                -> NO_EVENT,
        value         |-> IF cmp THEN reg.tdcr ELSE 0,
        compare_width |-> IF cmp THEN reg.tssr.cw + 1 ELSE 0,
        probe_num     |-> reg.tssr.ps ]

(* OclaIP::get_data: the number of sample lines it downloads. *)
Depth(tmtr, memoryDepth) ==
  IF tmtr.fns = 1 THEN get_config(tmtr).sample_size ELSE memoryDepth

(* The configuration OclaIP uses to clear a channel, Ocla::program. *)
ClearConfig ==
  [type |-> TRIGGER_NONE, event |-> NO_EVENT, value |-> 0,
   compare_width |-> 0, probe_num |-> 0]

(* What a trigger configuration asks of a channel: value and width belong  *)
(* to value-compare triggers only.                                         *)
Effective(cfg) ==
  IF cfg.type = VALUE_COMPARE
    THEN cfg
    ELSE [cfg EXCEPT !.value = 0, !.compare_width = 0]
=============================================================================
