------------------------------ MODULE MCOclaEio ------------------------------
(***************************************************************************)
(* Instances of OclaEio for TLC: user designs, boards and command lines.   *)
(* With registers of 2 bits, signals of 1 to 3 bits lie inside a word or   *)
(* across two, as with registers of 32.                                     *)
(***************************************************************************)
EXTENDS OclaEio, TLC

CONSTANTS d1, d2   \* devices

Sig(name) == [pat |-> 5, name |-> name, hi |-> 0, lo |-> 0, width |-> 0]
Slice(name, hi, lo) == [pat |-> 1, name |-> name, hi |-> hi, lo |-> lo, width |-> 0]
BitSelect(name, n) == [pat |-> 3, name |-> name, hi |-> n, lo |-> n, width |-> 0]
Constant(w) == [pat |-> 2, name |-> "0", hi |-> 0, lo |-> 0, width |-> w]

Info(i, off, w) == [index |-> i, offset |-> off, width |-> w]
CoreOf(index, n, probes, info) ==
  [ keys |-> CoreKeys, IP_TYPE |-> "OCLA", INDEX |-> index, core |-> "rev1",
    NO_OF_PROBES |-> n, probes |-> probes, probe_info |-> info ]

(* Two probes cut at a signal's end; an AXI instance; one more probe.       *)
Native1 == CoreOf(1, 6, <<Slice("cnt", 13, 11), Sig("rdy"), Constant(2)>>,
                  <<Info(0, 0, 4), Info(1, 4, 2)>>)
Axi == CoreOf(2, 3, <<Slice("prot", 1, 0), Sig("valid")>>, <<>>)
Native2 == CoreOf(3, 1, <<BitSelect("rdy", 0)>>, <<Info(2, 0, 1)>>)

Eio(in, iw, o, ow) ==
  [ keys |-> EioKeys, probes_in |-> in, Input_Probe_Width |-> iw,
    probes_out |-> o, Output_Probe_Width |-> ow ]
SmallEio == Eio(<<Sig("go"), Slice("lvl", 2, 0)>>, 4,
                <<Sig("en"), Slice("div", 1, 0), Sig("led")>>, 4)
WideEio == Eio(<<Sig("go"), Slice("bus", 4, 0)>>, 6, <<Slice("dac", 4, 0)>>, 5)
NoEio == [keys |-> {}]

DesignOf(eio, enable, clk, sum, cores) ==
  [ keys |-> DesignKeys, eio |-> eio, ocla |-> cores,
    ocla_debug_subsystem |-> [complete |-> TRUE, IP_TYPE |-> "OCLA",
       EIO_Enable |-> enable, Sampling_Clk |-> clk, Probes_Sum |-> sum] ]

Chained == DesignOf(SmallEio, 1, "SINGLE", 10, <<Native1, Axi, Native2>>)
Separate == DesignOf(WideEio, 1, "MULTIPLE", 10, <<Axi, Native1, Native2>>)

(* Refused by the parser: an index that comes twice, probes that do not add  *)
(* up, an EIO probe of another width; refused by the assembler: an object    *)
(* with a key missing or too many.                                          *)
Designs ==
  { Chained, Separate,
    DesignOf(SmallEio, 1, "SINGLE", 2, <<Native2, [Native2 EXCEPT !.probe_info[1].index = 3]>>),
    DesignOf(SmallEio, 1, "SINGLE", 9, <<Native1, Axi, Native2>>),
    DesignOf([SmallEio EXCEPT !.Output_Probe_Width = 3], 1, "SINGLE", 1, <<Native2>>),
    [Chained EXCEPT !.ocla[2].keys = @ \ {"addr"}],
    [Chained EXCEPT !.keys = @ \cup {"version"}] }

(* What the assembler lets pass with EIO switched off.                       *)
DesignsWithoutEio ==
  Designs \cup {DesignOf(NoEio, 0, "SINGLE", 10, <<Native1, Axi, Native2>>)}

(* d1 has every core of the designs, d2 lacks one.                          *)
Boards ==
  d1 :> {OclaInstance(Native1), OclaInstance(Axi), OclaInstance(Native2)} @@
  d2 :> {OclaInstance(Native1), OclaInstance(Axi)}
AllEio == [d \in Device |-> TRUE]

Patterns == {{}, {0, 2}, {1, 2, 3}}

Set(name, v) == [by_idx |-> FALSE, idx |-> 0, name |-> name, has_value |-> TRUE, value |-> v]
SetNo(k, v) == [by_idx |-> TRUE, idx |-> k, name |-> "", has_value |-> TRUE, value |-> v]
Get(name) == [by_idx |-> FALSE, idx |-> 0, name |-> name, has_value |-> FALSE, value |-> {}]
GetNo(k) == [Get("") EXCEPT !.by_idx = TRUE, !.idx = k]

(* One signal; two, the second across the words; a value with more bits     *)
(* than its signal; one signal twice; and lines that are turned down.       *)
SetLines ==
  { <<Set("led", {0})>>, <<Set("en", {0, 1}), Set("div", {1})>>,
    <<SetNo(2, {0, 1}), Set("div", {0})>>, <<Set("dac", {0})>>,
    <<Get("led")>>, <<Set("go", {0})>> }
GetLines ==
  { <<Get("go")>>, <<GetNo(2), Get("go")>>, <<Get("bus")>>, <<Get("led")>> }
=============================================================================
