------------------------------ MODULE CFGObject ------------------------------
(***************************************************************************)
(* An object with named members (CFGObject/CFGObject.cpp), the way every    *)
(* file of the flow is held in memory: simple members, classes (objects in  *)
(* the object) and lists of objects.  A member is written, appended to, or  *)
(* given one more child; each time update_exist marks it, and then the      *)
(* member that holds its object, and so on to the top.                      *)
(*                                                                         *)
(* An object is the path that leads to it from the top, <<>>: n = 0 is the  *)
(* object of a class, n > 0 a child of a list.                              *)
(***************************************************************************)
EXTENDS Naturals, Sequences

CONSTANTS
  Rows       \* what the elements of a value are drawn from

VARIABLES
  schema,    \* the rules of the program, in their order
  values,    \* the simple members that have been written
  children,  \* the lists that have children, and how many
  exist,     \* the members whose rule has is_exist set
  updating   \* the member update_exist is called for, {} if there is none

objectVars == <<schema, values, children, exist, updating>>

Member(object, name) == [of |-> object, name |-> name]
ClassObject(m) == Append(m.of, [name |-> m.name, n |-> 0])
Child(m, n) == Append(m.of, [name |-> m.name, n |-> n])

(* set_parent_ptr is called for the objects of classes only.                *)
HasParent(object) == object # <<>> /\ object[Len(object)].n = 0
Holder(object) == Member(SubSeq(object, 1, Len(object) - 1), object[Len(object)].name)

(***************************************************************************)
(* The rules                                                                *)
(***************************************************************************)
ClassOf(object) == [k \in 1 .. Len(object) |-> object[k].name]
RulesOf(object) == {k \in 1 .. Len(schema) : schema[k].of = ClassOf(object)}
HasRule(m) == \E k \in RulesOf(m.of) : schema[k].name = m.name
get_rule(m) == schema[CHOOSE k \in RulesOf(m.of) : schema[k].name = m.name]

Numbers == {"u8", "u32", "u64"}
NumberLists == {"u8s", "u32s", "u64s"}
Strings == {"str", "strs"}

(***************************************************************************)
(* Operations                                                               *)
(***************************************************************************)
IsBlank(rules) ==
  /\ schema = rules
  /\ values = <<>>
  /\ children = <<>>
  /\ exist = {}
  /\ updating = {}

Extended(f, x, y) == [k \in DOMAIN f \union {x} |-> IF k = x THEN y ELSE f[k]]
ChildCount(m) == IF m \in DOMAIN children THEN children[m] ELSE 0

write_data(m, value) ==
  /\ updating = {}
  /\ values' = Extended(values, m, value)
  /\ updating' = {m}
  /\ UNCHANGED <<schema, children, exist>>

(* A member that was never written is empty.                                *)
append_data(m, row) ==
  write_data(m, Append(IF m \in DOMAIN values THEN values[m] ELSE <<>>, row))

create_child(m) ==
  /\ updating = {}
  /\ children' = Extended(children, m, ChildCount(m) + 1)
  /\ updating' = {m}
  /\ UNCHANGED <<schema, values, exist>>

(* Mutant of update_exist: the member that holds the object is not marked.  *)
update_exist_own ==
  \E m \in updating :
    /\ exist' = exist \union {m}
    /\ updating' = {}
    /\ UNCHANGED <<schema, values, children>>

(* One call of update_exist; it calls itself for the member that holds the  *)
(* object, unless this one is marked already.                               *)
update_exist ==
  \E m \in updating :
    /\ exist' = exist \union {m}
    /\ updating' = IF m \notin exist /\ HasParent(m.of) THEN {Holder(m.of)} ELSE {}
    /\ UNCHANGED <<schema, values, children>>

(***************************************************************************)
(* Properties                                                               *)
(***************************************************************************)
Marked(m) == m \in exist \union updating
HoldersMarked(m) == HasParent(m.of) => Marked(Holder(m.of))

(* Nothing that is written is left out of the file: serialize walks the     *)
(* marked members from the top, so each member that was written or has      *)
(* children must be marked, and so must each class on the way to it.        *)
WrittenIsReached ==
  /\ \A m \in DOMAIN values \union DOMAIN children : Marked(m)
  /\ \A m \in exist : HoldersMarked(m)
=============================================================================
