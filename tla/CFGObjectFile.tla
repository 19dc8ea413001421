---------------------------- MODULE CFGObjectFile ----------------------------
(***************************************************************************)
(* The file of an object (CFGObject/CFGObject.cpp): a program fills an      *)
(* object and writes it; another program, or a later one, whose rules may   *)
(* have changed, reads the file back, or it is dumped as text, which knows  *)
(* no rules (CFGObject_parse.cpp).  Numbers and text are rows of a value;   *)
(* the compression of number lists is CFGCompress.                          *)
(***************************************************************************)
EXTENDS CFGObject, FiniteSets, SequencesExt

CONSTANTS
  Programs,      \* the rules a program can be built with
  MaxChildren,   \* bound: children of a list
  MaxLength      \* bound: elements of a value

AllTypes == Numbers \union NumberLists \union Strings \union {"class", "list"}

(* CFGObject.py makes the rules of a program from CFGObject.json: siblings  *)
(* have different names, and a class or list, nothing else, has members.    *)
IsProgram(rules) ==
  /\ rules \in Seq([of : Seq(STRING), name : STRING, type : AllTypes, exist : BOOLEAN])
  /\ \A k, n \in 1 .. Len(rules) :
       rules[k].of = rules[n].of /\ rules[k].name = rules[n].name => k = n
  /\ \A k \in 1 .. Len(rules) :
       rules[k].type \in {"class", "list"} =>
         \E n \in 1 .. Len(rules) : rules[n].of = Append(rules[k].of, rules[k].name)
  /\ \A k \in 1 .. Len(rules) :
       rules[k].of # <<>> =>
         \E n \in 1 .. Len(rules) : /\ rules[k].of = Append(rules[n].of, rules[n].name)
                                   /\ rules[n].type \in {"class", "list"}

ASSUME ProgramsAssumption ==
  /\ \A rules \in Programs : IsProgram(rules)
  /\ MaxChildren \in Nat

VARIABLES
  pc,            \* "build", "read", "dump" or what came of reading
  file,          \* the file
  index,         \* the next of its tokens
  frames,        \* parse_object and parse_class_object at work, the outermost first
  parsed         \* parsed_object_count

readVars == <<index, frames, parsed>>
vars == <<objectVars, pc, file, readVars>>

(***************************************************************************)
(* The objects that there are, and those that are reached from the top.     *)
(***************************************************************************)
Constructed ==
  { o \in UNION { { [k \in 1 .. Len(class) |-> [name |-> class[k], n |-> f[k]]] :
                      f \in [1 .. Len(class) -> 0 .. MaxChildren] } :
                  class \in {<<>>} \union {schema[k].of : k \in 1 .. Len(schema)} } :
      \A k \in 1 .. Len(o) :
        LET m == Member(SubSeq(o, 1, k - 1), o[k].name)
        IN  IF o[k].n = 0 THEN get_rule(m).type = "class" ELSE o[k].n <= ChildCount(m) }

(* Every class on the way is marked.                                        *)
Filled ==
  { o \in Constructed :
      \A k \in {n \in 1 .. Len(o) : o[n].n = 0} :
        Member(SubSeq(o, 1, k - 1), o[k].name) \in exist }

Members(objects, types) ==
  UNION { { Member(o, schema[k].name) : k \in {n \in RulesOf(o) : schema[n].type \in types} } :
          o \in objects }

(* A list is in the file if it has children, anything else if it is marked. *)
Kept(m) == IF get_rule(m).type = "list" THEN ChildCount(m) > 0 ELSE m \in exist

(***************************************************************************)
(* write                                                                    *)
(***************************************************************************)
check_exist == \A m \in Members(Filled, AllTypes) : get_rule(m).exist => m \in exist

get_object_count == Cardinality({m \in Members(Filled, AllTypes) : Kept(m)})

End == [end |-> 255]
Tagged(r) == <<[type |-> r.type, name |-> r.name]>>

(* A member, and an object, when bytes are those of the objects in it.      *)
SerializedMember(m, r, bytes) ==
  Tagged(r) \o
    (IF r.type = "list"
       THEN <<[count |-> ChildCount(m)]>>
              \o FlattenSeq([n \in 1 .. ChildCount(m) |-> Append(bytes[Child(m, n)], End)])
     ELSE IF r.type = "class" THEN Append(bytes[ClassObject(m)], End)
     ELSE <<[value |-> values[m]]>>)

SerializedObject(o, bytes) ==
  FlattenSeq(
    [ k \in 1 .. Len(schema) |->
        IF k \in RulesOf(o) /\ Kept(Member(o, schema[k].name))
          THEN SerializedMember(Member(o, schema[k].name), schema[k], bytes) ELSE <<>> ])

serialize ==
  LET bytes[o \in Filled] == SerializedObject(o, bytes) IN bytes[<<>>]

CFG_crc16(data, count) == [of |-> data, count |-> count]

NoFile == [data |-> <<>>]
write ==
  /\ pc = "build"
  /\ updating = {}
  /\ file' = IF check_exist
               THEN [ count |-> get_object_count, data |-> serialize,
                      crc |-> CFG_crc16(serialize, get_object_count),
                      from |-> [schema |-> schema, values |-> values, children |-> children] ]
               ELSE file
  /\ pc' = IF check_exist THEN "written" ELSE pc
  /\ UNCHANGED <<objectVars, readVars>>

(* The file on its way: its end is lost, or a neighbour is in the place of  *)
(* a token.                                                                 *)
Damage ==
  /\ pc = "written"
  /\ file.data # <<>>
  /\ pc' = "damaged"
  /\ \E data \in {Front(file.data)}
                 \union { [file.data EXCEPT ![k] = file.data[k + 1], ![k + 1] = file.data[k]] :
                            k \in 1 .. Len(file.data) - 1 } :
       file' = [file EXCEPT !.data = data]
  /\ UNCHANGED <<objectVars, readVars>>

(***************************************************************************)
(* read and parse                                                           *)
(***************************************************************************)
Top == [kind |-> "object", object |-> <<>>]

(* The program that reads starts from a blank object; the size, the CRC and *)
(* the name of the file are asserted.                                       *)
Failed(mode) == IF mode = "dump" THEN "not_dumped" ELSE "asserted"
CrcHolds == file.crc = CFG_crc16(file.data, file.count)
Begin(mode) ==
  /\ pc \in {"written", "damaged"}
  /\ pc' = IF file.data # <<>> /\ CrcHolds THEN mode ELSE Failed(mode)
  /\ index' = 1
  /\ frames' = <<Top>>
  /\ parsed' = 0
  /\ values' = <<>> /\ children' = <<>> /\ exist' = {} /\ updating' = {}
  /\ UNCHANGED file

read(rules) == Begin("read") /\ schema' = rules
parse == Begin("dump") /\ UNCHANGED schema

Parsing == pc \in {"read", "dump"} /\ updating = {}
Frame == Last(frames)
At(k) == IF k <= Len(file.data) THEN file.data[k] ELSE End
Here == Member(Frame.object, At(index).name)

Asserted ==
  /\ pc' = Failed(pc)
  /\ UNCHANGED <<objectVars, file, readVars>>

(* Mutant of Understood: the dump has no branch for "u64" either.           *)
UnderstoodLess ==
  /\ At(index) # End
  /\ pc = "read" => HasRule(Here) /\ get_rule(Here).type = At(index).type
  /\ pc = "dump" => At(index).type \notin {"strs", "u64"}

(* A reader asserts that it has a rule for the name, of that type.  The     *)
(* dump has no branch for "strs": what is not another type must be a list.  *)
Understood ==
  /\ At(index) # End
  /\ pc = "read" => HasRule(Here) /\ get_rule(Here).type = At(index).type
  /\ pc = "dump" => At(index).type # "strs"

Store(operation) == IF pc = "read" THEN operation ELSE UNCHANGED objectVars

(* read_raw_datas asserts that a list of numbers is not empty.              *)
HasElements == At(index).type \in NumberLists => At(index + 1).value # <<>>

AtObject == Parsing /\ Frame.kind = "object" /\ index <= Len(file.data)
AtEnd == At(index) = End /\ Len(frames) > 1

Misunderstood == AtObject /\ ~AtEnd /\ ~Understood /\ Asserted

ParseValue ==
  /\ AtObject /\ ~AtEnd /\ Understood
  /\ At(index).type \notin {"class", "list"}
  /\ IF HasElements
       THEN /\ Store(write_data(Here, At(index + 1).value))
            /\ index' = index + 2
            /\ parsed' = parsed + 1
            /\ UNCHANGED <<pc, file, frames>>
       ELSE Asserted

(* parse_class_object asserts that the class does not end at once.          *)
ParseClass ==
  /\ AtObject /\ ~AtEnd /\ Understood
  /\ At(index).type = "class"
  /\ IF At(index + 1) # End
       THEN /\ frames' = Append(frames, [kind |-> "object", object |-> ClassObject(Here)])
            /\ index' = index + 1
            /\ UNCHANGED <<objectVars, pc, file, parsed>>
       ELSE Asserted

ParseList ==
  /\ AtObject /\ ~AtEnd /\ Understood
  /\ At(index).type = "list"
  /\ frames' = Append(frames, [ kind |-> "list", list |-> Here,
                                done |-> 0, list_count |-> At(index + 1).count ])
  /\ index' = index + 2
  /\ UNCHANGED <<objectVars, pc, file, parsed>>

(* Mutant of NewChild: each child is read into the first of the list.       *)
NewChildFront(list, n) == [kind |-> "object", object |-> Child(list, 1)]

NewChild(list, n) == [kind |-> "object", object |-> Child(list, n)]

(* CFGObject_create_child_from_names and list->back()                       *)
NextChild ==
  /\ Parsing /\ Frame.kind = "list" /\ Frame.done < Frame.list_count
  /\ IF At(index) # End
       THEN /\ Store(create_child(Frame.list))
            /\ frames' = Append([frames EXCEPT ![Len(frames)].done = @ + 1],
                                NewChild(Frame.list, Frame.done + 1))
            /\ UNCHANGED <<pc, file, index, parsed>>
       ELSE Asserted

EndList ==
  /\ Parsing /\ Frame.kind = "list" /\ Frame.done = Frame.list_count
  /\ frames' = Front(frames)
  /\ parsed' = parsed + 1
  /\ UNCHANGED <<objectVars, pc, file, index>>

(* The end of a class or of a child; a child is no object of the count.     *)
EndObject ==
  /\ AtObject /\ AtEnd
  /\ frames' = Front(frames)
  /\ index' = index + 1
  /\ parsed' = parsed + (IF Last(Front(frames)).kind = "object" THEN 1 ELSE 0)
  /\ UNCHANGED <<objectVars, pc, file>>

(* The data ends; in the midst of an object an assertion fails.             *)
EndOfData ==
  /\ Parsing /\ Frame.kind = "object" /\ index > Len(file.data)
  /\ pc' = IF Len(frames) > 1 \/ parsed # file.count THEN Failed(pc)
           ELSE IF pc = "dump" THEN "dumped"
           ELSE IF check_exist THEN "accepted" ELSE "refused"
  /\ UNCHANGED <<objectVars, file, readVars>>

UpdateExist ==
  /\ update_exist
  /\ UNCHANGED <<pc, file, readVars>>

ParseNext ==
  Misunderstood \/ ParseValue \/ ParseClass \/ ParseList \/ NextChild \/ EndList \/ EndObject
  \/ EndOfData

(***************************************************************************)
(* The program that fills the object                                        *)
(***************************************************************************)
Lengths(type) == IF type \in Numbers THEN {1} ELSE 0 .. MaxLength
WriteMember ==
  /\ pc = "build"
  /\ updating = {}
  /\ \E m \in Members(Constructed, AllTypes \ {"class", "list"}) :
       \E n \in Lengths(get_rule(m).type) :
         \E value \in [1 .. n -> Rows] : write_data(m, value)
  /\ UNCHANGED <<pc, file, readVars>>

AppendMember ==
  /\ pc = "build"
  /\ updating = {}
  /\ \E m \in Members(Constructed, NumberLists \union Strings) :
       /\ m \in DOMAIN values => Len(values[m]) < MaxLength
       /\ \E row \in Rows : append_data(m, row)
  /\ UNCHANGED <<pc, file, readVars>>

CreateChild ==
  /\ pc = "build"
  /\ updating = {}
  /\ \E m \in Members(Constructed, {"list"}) :
       /\ ChildCount(m) < MaxChildren
       /\ create_child(m)
  /\ UNCHANGED <<pc, file, readVars>>

Init ==
  /\ \E rules \in Programs : IsBlank(rules)
  /\ pc = "build" /\ file = NoFile
  /\ index = 0 /\ frames = <<>> /\ parsed = 0

Next ==
  \/ WriteMember \/ AppendMember \/ CreateChild \/ UpdateExist
  \/ write \/ Damage
  \/ \E rules \in Programs : read(rules)
  \/ parse \/ ParseNext

Spec == Init /\ [][Next]_vars

(***************************************************************************)
(* Properties                                                               *)
(***************************************************************************)

(* A file that is accepted has put into the object what was written, each   *)
(* member under a rule of the type it was written with, and nothing else:   *)
(* whatever happened to the file, and whichever program reads it.           *)
TypeIn(rules, m) ==
  {rules[k].type : k \in {n \in 1 .. Len(rules) :
                            rules[n].of = ClassOf(m.of) /\ rules[n].name = m.name}}
AcceptedMeansEqual ==
  pc \in {"accepted", "refused"} =>
    /\ values = file.from.values
    /\ children = file.from.children
    /\ \A m \in DOMAIN values \union DOMAIN children :
         TypeIn(schema, m) = TypeIn(file.from.schema, m)

(* What can be written and not be read: a list of numbers with no element,  *)
(* a child in which nothing is written, and nothing at all.                 *)
Unreadable(from) ==
  LET members == DOMAIN from.values \union DOMAIN from.children
  IN  \/ members = {}
      \/ \E m \in DOMAIN from.values :
           from.values[m] = <<>> /\ TypeIn(from.schema, m) \subseteq NumberLists
      \/ \E list \in DOMAIN from.children :
           \E n \in 1 .. from.children[list] :
             \A m \in members : ~IsPrefix(Child(list, n), m.of)

(* The rules of a program that came later: no rule lost, none of another    *)
(* type, none that is mandatory and was not.                                *)
Extends(new, old) ==
  /\ \A k \in 1 .. Len(old) :
       \E n \in 1 .. Len(new) :
         /\ new[n].of = old[k].of /\ new[n].name = old[k].name /\ new[n].type = old[k].type
         /\ new[n].exist => old[k].exist
  /\ \A n \in 1 .. Len(new) :
       new[n].exist =>
         \E k \in 1 .. Len(old) : new[n].of = old[k].of /\ new[n].name = old[k].name

(* What a program wrote, it and the programs that extend its rules accept,  *)
(* no assertion fails and no member is missed; and the dump shows it, unless *)
(* there is a "strs" in it, which the dump asserts is a list of objects.    *)
HasStrings(from) == \E m \in DOMAIN from.values : TypeIn(from.schema, m) = {"strs"}
FilesStayReadable ==
  pc \in {"asserted", "refused", "not_dumped"} /\ CrcHolds =>
    \/ Unreadable(file.from)
    \/ pc = "not_dumped" /\ HasStrings(file.from)
    \/ pc # "not_dumped" /\ ~Extends(schema, file.from.schema)

=============================================================================
