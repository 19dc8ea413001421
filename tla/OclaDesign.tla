----------------------------- MODULE OclaDesign -----------------------------
(***************************************************************************)
(* What becomes of the debug information of a user design.  yosys writes    *)
(* it as JSON; BitAssembler_OCLA (BitAssembler_ocla.cpp) lets it into the   *)
(* .bitasm file or not; OclaDebugSession (OclaDebugSession.cpp) turns it     *)
(* into clock domains, probes and signals for the logic analyser and into   *)
(* the probes and signals of the embedded IO core.                          *)
(*                                                                         *)
(* A JSON object is a record of its values and of the set "keys" of those   *)
(* it really has, with the type the code asks for.  A signal is a record    *)
(* of what CFG_parse_signal makes of its text: the pattern it matches, its  *)
(* name, bit range and width.                                               *)
(***************************************************************************)
EXTENDS Integers, Sequences, FiniteSets, SequencesExt

-----------------------------------------------------------------------------
(* The assembler: BitAssembler_OCLA::extract_ocla_info.  Each object must   *)
(* have the keys listed in the code, and its size admits no other.          *)

EioKeys == {"addr", "Input_Probe_Width", "Output_Probe_Width", "probes_in",
            "probes_out"}
CoreKeys == {"IP_TYPE", "IP_VERSION", "IP_ID", "AXI_ADDR_WIDTH",
             "AXI_DATA_WIDTH", "NO_OF_PROBES", "MEM_DEPTH", "INDEX", "addr",
             "probe_info", "probes"}
DesignKeys == {"messages", "eio", "ocla", "ocla_debug_subsystem"}

validate_eio(eio) == eio.keys = EioKeys

validate_ocla(core) == core.keys = CoreKeys /\ core.IP_TYPE = "OCLA"

(* Of the subsystem's keys only their presence matters here ("complete").   *)
validate_ocla_debug_subsystem(sub, eio) ==
  /\ sub.complete /\ sub.IP_TYPE = "OCLA"
  /\ IF sub.EIO_Enable # 0 THEN validate_eio(eio) ELSE eio.keys = {}

extract_ocla_info(json) ==
  /\ json.keys = DesignKeys
  /\ validate_ocla_debug_subsystem(json.ocla_debug_subsystem, json.eio)
  /\ \A k \in 1 .. Len(json.ocla) : validate_ocla(json.ocla[k])

-----------------------------------------------------------------------------
(* Signals.                                                                 *)

(* What CFG_parse_signal finds in the text of a signal.  Widths add up as   *)
(* numbers: 2^32 bits to look at are in no device.                          *)
SignalText == [pat : Nat, name : STRING, hi : Nat, lo : Nat, width : Nat]

(* Width and admissibility of a signal: patterns 1 "a[h:l]", 2 "n'0101",    *)
(* 3 "a[l]" and 5 "a"; a constant (2) is for the analyser only.             *)
SignalWidth(t) ==
  CASE t.pat = 1 -> t.hi - t.lo + 1
    [] t.pat = 2 -> t.width
    [] OTHER     -> 1

parse_eio_signal(t) == t.pat \in {1, 3, 5} /\ (t.pat = 1 => t.lo <= t.hi)

parse_ocla_signal(t) ==
  /\ t.pat \in {1, 2, 3, 5}
  /\ t.pat = 1 => t.lo <= t.hi
  /\ t.pat = 2 => t.width # 0

TotalWidth(ts) == FoldLeft(LAMBDA n, t : n + SignalWidth(t), 0, ts)

(* Signals one after the other, from bit 0.                                 *)
LaidOut(ts) ==
  [k \in 1 .. Len(ts) |->
     [ name |-> ts[k].name, idx |-> k, constant |-> ts[k].pat = 2,
       bitpos |-> TotalWidth(SubSeq(ts, 1, k - 1)),
       bitwidth |-> SignalWidth(ts[k]) ]]

BitsOf(s) == s.bitpos .. s.bitpos + s.bitwidth - 1

-----------------------------------------------------------------------------
(* The types of the values in the debug information, as far as they are     *)
(* read; the two lists of EIO are there when the assembler accepts them.    *)
CoreInfo ==
  [ keys : SUBSET STRING, IP_TYPE : STRING, INDEX : Nat, core : STRING,
    NO_OF_PROBES : Nat, probes : Seq(SignalText),
    probe_info : Seq([index : Nat, offset : Nat, width : Nat]) ]

IsDesign(json) ==
  /\ {"keys", "eio", "ocla", "ocla_debug_subsystem"} \subseteq DOMAIN json
  /\ json.ocla \in Seq(CoreInfo)
  /\ json.eio.keys = EioKeys =>
       json.eio.probes_in \in Seq(SignalText) /\ json.eio.probes_out \in Seq(SignalText)

-----------------------------------------------------------------------------
(* OclaDebugSession::parse_eio.  "thrown" is a JSON exception, which load   *)
(* turns into a failed assertion; "refused" is an error message.            *)

(* One of the two probes.                                                   *)
EioProbe(type, texts) ==
  [type |-> type, idx |-> 1, probe_width |-> TotalWidth(texts),
   signal_list |-> LaidOut(texts)]

Present(eio, key, probe) == IF key \in eio.keys THEN <<probe>> ELSE <<>>

parse_eio(eio) ==
  LET in  == EioProbe("input", eio.probes_in)
      out == EioProbe("output", eio.probes_out)
      Texts == (IF "probes_in" \in eio.keys THEN Range(eio.probes_in) ELSE {})
          \cup (IF "probes_out" \in eio.keys THEN Range(eio.probes_out) ELSE {})
  IN  CASE "addr" \notin eio.keys -> [status |-> "thrown", probes |-> <<>>]
        [] \/ \E t \in Texts : ~parse_eio_signal(t)
           \/ "probes_in" \in eio.keys
                /\ in.probe_width # eio.Input_Probe_Width
           \/ "probes_out" \in eio.keys
                /\ out.probe_width # eio.Output_Probe_Width ->
             [status |-> "refused", probes |-> <<>>]
        [] OTHER ->
             [ status |-> "ok",
               probes |-> Present(eio, "probes_in", in)
                            \o Present(eio, "probes_out", out) ]

-----------------------------------------------------------------------------
(* OclaDebugSession::parse_ocla.                                            *)

OclaDomain(type, index) ==
  [type |-> type, index |-> index, instances |-> <<>>, probes |-> <<>>]

OclaInstance(o) == [index |-> o.INDEX, core |-> o.core, width |-> o.NO_OF_PROBES]

(* Mutant: the bit after the probe counts as its own.                       *)
InProbeAndNext(s, info) ==
  s.bitpos >= info.offset /\ s.bitpos <= info.offset + info.width

(* A signal belongs to the probe its first bit lies in.                     *)
InProbe(s, info) ==
  s.bitpos >= info.offset /\ s.bitpos < info.offset + info.width

TakeSignal(mine, s, info) == IF InProbe(s, info) THEN Append(mine, s) ELSE mine

SignalsIn(info, o) ==
  FoldLeft(LAMBDA mine, s : TakeSignal(mine, s, info), <<>>, LaidOut(o.probes))

(* The probes of a native instance; signals are numbered through all of     *)
(* them, from 1.                                                            *)
AddProbe(acc, info, o) ==
  LET mine == SignalsIn(info, o)
  IN  [ next |-> acc.next + Len(mine),
        probes |-> Append(acc.probes,
          [ index |-> info.index + 1, inst |-> o.INDEX,
            signals |-> [k \in 1 .. Len(mine) |->
                           [mine[k] EXCEPT !.idx = acc.next + k - 1]] ]) ]

AddProbes(o) ==
  FoldLeft(LAMBDA acc, info : AddProbe(acc, info, o),
           [next |-> 1, probes |-> <<>>], o.probe_info)
NativeProbes(o) == AddProbes(o).probes

AxiDomain(o) ==
  [ type |-> "axi", index |-> 0, instances |-> <<OclaInstance(o)>>,
    probes |-> <<[index |-> 1, inst |-> o.INDEX, signals |-> LaidOut(o.probes)]>> ]

ProbeInfoWidth(o) == FoldLeft(LAMBDA n, p : n + p.width, 0, o.probe_info)

(* Mutant: an index may come twice.                                         *)
InstanceFitsAgain(acc, o) ==
  /\ \A k \in 1 .. Len(o.probes) : parse_ocla_signal(o.probes[k])
  /\ TotalWidth(o.probes) = o.NO_OF_PROBES
  /\ o.probe_info # <<>> => ProbeInfoWidth(o) = o.NO_OF_PROBES

(* The checks an instance has to pass.                                      *)
InstanceFits(acc, o) ==
  /\ o.INDEX \notin acc.indexes
  /\ \A k \in 1 .. Len(o.probes) : parse_ocla_signal(o.probes[k])
  /\ TotalWidth(o.probes) = o.NO_OF_PROBES
  /\ o.probe_info # <<>> => ProbeInfoWidth(o) = o.NO_OF_PROBES

(* A native instance joins the only domain of a SINGLE sampling clock, or   *)
(* gets a domain of its own; an AXI instance waits until all are placed.    *)
PlaceNative(domains, o, single) ==
  LET ds   == IF single THEN domains
              ELSE Append(domains, OclaDomain("native", Len(domains) + 1))
      last == Len(ds)
  IN  [ds EXCEPT ![last].instances = Append(@, OclaInstance(o)),
                 ![last].probes = @ \o NativeProbes(o)]

AddInstance(acc, o, single) ==
  CASE ~acc.ok -> acc
    [] acc.ok /\ ~InstanceFits(acc, o) -> [acc EXCEPT !.ok = FALSE]
    [] OTHER ->
         LET seen == [acc EXCEPT !.indexes = @ \cup {o.INDEX},
                                 !.sum = @ + o.NO_OF_PROBES]
         IN  IF o.probe_info = <<>>
               THEN [seen EXCEPT !.deferred = Append(@, AxiDomain(o))]
               ELSE [seen EXCEPT !.domains = PlaceNative(@, o, single)]

(* AXI domains go to the bottom of the list and are numbered there.         *)
Deferred(acc) ==
  [k \in 1 .. Len(acc.deferred) |->
     [acc.deferred[k] EXCEPT !.index = Len(acc.domains) + k]]

NoInstance(single) ==
  [ ok |-> TRUE, indexes |-> {}, sum |-> 0, deferred |-> <<>>,
    domains |-> IF single THEN <<OclaDomain("native", 1)>> ELSE <<>> ]

AddInstances(list, single) ==
  FoldLeft(LAMBDA acc, o : AddInstance(acc, o, single), NoInstance(single), list)

parse_ocla(json) ==
  LET sub == json.ocla_debug_subsystem
      acc == AddInstances(json.ocla, sub.Sampling_Clk = "SINGLE")
  IN  IF acc.ok /\ acc.sum = sub.Probes_Sum
        THEN [status |-> "ok", domains |-> acc.domains \o Deferred(acc)]
        ELSE [status |-> "refused", domains |-> <<>>]

-----------------------------------------------------------------------------
(* OclaDebugSession::load of what is in the file.                           *)
load(json) ==
  LET ocla == IF "ocla" \in json.keys THEN parse_ocla(json)
              ELSE [status |-> "ok", domains |-> <<>>]
      eio  == IF "eio" \in json.keys THEN parse_eio(json.eio)
              ELSE [status |-> "ok", probes |-> <<>>]
      session == [domains |-> ocla.domains, has_eio |-> "eio" \in json.keys,
                  eio |-> eio.probes]
  IN  CASE json.keys \cap {"eio", "ocla"} = {} ->
             [status |-> "refused", session |-> session]
        [] ocla.status # "ok" -> [status |-> ocla.status, session |-> session]
        [] OTHER -> [status |-> eio.status, session |-> session]
=============================================================================
