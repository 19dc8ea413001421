---------------------------- MODULE MCCFGObject ----------------------------
(***************************************************************************)
(* Instances of CFGObjectFile: the rules of a program and of later and      *)
(* other versions of it, in the shapes that CFGObject.json has: a class     *)
(* that may be missing, a list in a list, a list in a class.                *)
(***************************************************************************)
EXTENDS CFGObjectFile

Rule(of, name, type, must) == [of |-> of, name |-> name, type |-> type, exist |-> must]
TopRule(name, type, must) == Rule(<<>>, name, type, must)

(* As BITOBJ: a mandatory member, a class that may be missing, a list.      *)
Flow ==
  << TopRule("version", "str", TRUE), TopRule("icb", "class", FALSE),
     Rule(<<"icb">>, "bits", "u32", TRUE), Rule(<<"icb">>, "data", "u8s", TRUE),
     TopRule("pcb", "list", FALSE), Rule(<<"pcb">>, "data", "u8s", TRUE) >>

(* A member that came later, in another place, and one no longer mandatory. *)
FlowLater ==
  << TopRule("pcb", "list", FALSE), Rule(<<"pcb">>, "data", "u8s", TRUE),
     TopRule("version", "str", TRUE), TopRule("ocla", "str", FALSE), TopRule("icb", "class", FALSE),
     Rule(<<"icb">>, "data", "u8s", TRUE), Rule(<<"icb">>, "bits", "u32", FALSE) >>

(* Other rules: one more mandatory member, another type, a member lost.     *)
FlowStricter == Flow \o <<Rule(<<"icb">>, "mask", "u8s", TRUE)>>
FlowRetyped == [Flow EXCEPT ![3].type = "u64", ![6].type = "u32s"]
FlowShorter == SubSeq(Flow, 1, 5) \o <<Rule(<<"pcb">>, "bits", "u32", TRUE)>>

(* As UTST: a list in a list, and a list in a class.                        *)
Nested ==
  << TopRule("list0", "list", TRUE), Rule(<<"list0">>, "list01", "list", TRUE),
     Rule(<<"list0", "list01">>, "u64", "u64", FALSE),
     TopRule("object", "class", FALSE), Rule(<<"object">>, "list1", "list", FALSE),
     Rule(<<"object", "list1">>, "str", "str", TRUE) >>
NestedStrings == Append(Nested, TopRule("strs", "strs", FALSE))

Flows == {Flow, FlowLater, FlowStricter, FlowRetyped, FlowShorter}
MCPrograms == Flows \union {Nested, NestedStrings}
=============================================================================
