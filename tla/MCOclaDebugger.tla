--------------------------- MODULE MCOclaDebugger ---------------------------
(***************************************************************************)
(* Instances of OclaDebugger for TLC: user designs, boards and command     *)
(* lines.  The .cfg files pick among them.                                 *)
(***************************************************************************)
EXTENDS OclaDebugger, TLC

CONSTANTS d1, d2,     \* devices
          a, b         \* OCLA instances

(* A design with one SINGLE sampling clock: two daisy chained instances.   *)
OneDomain == {1}
Chained == [m \in OneDomain |-> <<a, b>>]

(* A design with one instance.                                             *)
Alone == [m \in OneDomain |-> <<a>>]

(* The same instances on sampling clocks of their own.                     *)
TwoDomains == {1, 2}
Separate == (1 :> <<a>>) @@ (2 :> <<b>>)

Info == [i \in Instance |-> [id |-> 7, depth |-> 4]]

Core(tc, mcvs) == [id |-> 7, depth |-> 4, tc |-> tc, mcvs |-> mcvs]
Foreign == [id |-> 9, depth |-> 4, tc |-> 1, mcvs |-> 32]

(* One board that matches the design and, where there is a second, one     *)
(* that does not.                                                          *)
OneBoard ==
  [d \in Device |-> [i \in Instance |->
     IF d # d1 THEN Foreign ELSE Core(NChannel, 32)]]

AllEio == [d \in Device |-> TRUE]

(* Probe 1 carries the 8-bit signal "count" and a constant, probe 2 the    *)
(* one-bit "ready".                                                        *)
Sig(m, p, n, i, w, pos, const) ==
  [dom |-> m, probe |-> p, name |-> n, inst |-> i, bitwidth |-> w,
   bitpos |-> pos, constant |-> const]
ChainedSignals ==
  { Sig(1, 1, "count", a, 8, 0, FALSE), Sig(1, 1, "zero", a, 4, 8, TRUE),
    Sig(1, 2, "ready", b, 1, 0, FALSE) }
AloneSignals == {s \in ChainedSignals : s.inst = a}
SeparateSignals ==
  { Sig(1, 1, "count", a, 8, 0, FALSE), Sig(2, 1, "ready", b, 1, 0, FALSE) }

Req(m, p, n, type, low, v, w) ==
  [dom |-> m, probe |-> p, name |-> n, ranged |-> FALSE, lo |-> 0, hi |-> 0,
   type |-> type, event |-> EventCode(type, low), value |-> v,
   compare_width |-> w]
Bits(r, hi, lo) == [r EXCEPT !.ranged = TRUE, !.lo = lo, !.hi = hi]

(* Accepted and refused ones, the refused ones each for a reason of its    *)
(* own: bits outside the signal, bits the wrong way round, a constant, an  *)
(* event of another type, a comparator too wide.  "[65535:0]" is outside    *)
(* "count", but with a word of 16 bits 65535 - 0 + 1 is 0.                  *)
ChainedRequests ==
  { Bits(Req(1, 1, "count", VALUE_COMPARE, 1, 5, 0), 7, 2),
    Bits(Req(1, 1, "count", VALUE_COMPARE, 1, 5, 0), 65535, 0),
    Req(1, 2, "ready", LEVEL, 1, 0, 0),
    Bits(Req(1, 1, "count", EDGE, 1, 0, 0), 8, 7),
    Bits(Req(1, 1, "count", EDGE, 1, 0, 0), 2, 3),
    Req(1, 1, "zero", EDGE, 1, 0, 0),
    [Req(1, 1, "count", LEVEL, 1, 0, 0) EXCEPT !.event = EventCode(EDGE, 1)],
    Req(1, 2, "ready", VALUE_COMPARE, 1, 0, 33) }

AloneRequests ==
  { Bits(Req(1, 1, "count", VALUE_COMPARE, 1, 5, 0), 7, 2),
    Req(1, 1, "count", EDGE, 2, 0, 0) }

OneRequest == {Req(1, 1, "count", VALUE_COMPARE, 2, 3, 0)}

(* Among them "[65535:0]": with a word of 16 bits, 65535 - 0 + 1 is 0.      *)
SeparateRequests ==
  { Req(1, 1, "count", VALUE_COMPARE, 2, 3, 0),
    Req(2, 1, "ready", EDGE, 1, 0, 0),
    Bits(Req(2, 1, "ready", VALUE_COMPARE, 1, 1, 0), 65535, 0) }

Conf(m, mode, cond, n) ==
  [dom |-> m, mode |-> mode, condition |-> cond, sample_size |-> n]
ChainedConfigs ==
  {Conf(1, 2, 1, 1), Conf(1, 1, 0, 5)}
Options == {[wait |-> FALSE, limit |-> 0], [wait |-> TRUE, limit |-> 1]}
NoWait == {[wait |-> FALSE, limit |-> 0]}
NoConfigs == {}
OneConfig == {Conf(1, 2, 1, 1)}
SeparateConfigs == {Conf(1, 1, 0, 2), Conf(1, 1, 0, 0)}
=============================================================================
