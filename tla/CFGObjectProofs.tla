-------------------------- MODULE CFGObjectProofs --------------------------
(***************************************************************************)
(* Proofs about CFGObject and CFGObjectFile.                                *)
(*                                                                         *)
(* NothingWrittenIsLost: what is written is marked, and so is each member   *)
(* that holds it.                                                           *)
(*                                                                         *)
(* AcceptedIsEqual and FilesAreReadable: what the reader accepts is what    *)
(* was written, and what was written is accepted.  The argument: the marks  *)
(* are exactly those that update_exist owes to the written members, so the  *)
(* walk of serialize comes to exactly the objects that are reached, and its *)
(* tokens are a run of a reader that knows the object it reads; a file      *)
(* whose CRC holds is such a run, and the frames, the count and the object  *)
(* of the real reader are those of its place in the run.                    *)
(***************************************************************************)
EXTENDS CFGObjectFile, FiniteSetTheorems, WellFoundedInduction, TLAPS
(* Every set of numbers has a least one.                                    *)
LEMMA Least ==
  ASSUME NEW T, T \subseteq Nat, T # {}
  PROVE  \E n \in T : \A m \in T : n <= m
<1> DEFINE R == OpToRel(<, Nat)
<1>1. IsWellFoundedOn(R, Nat)
  BY NatLessThanWellFounded, Zenon
<1>2. \A x, y \in T : <<y, x>> \in R <=> y < x
  BY DEF OpToRel
<1> HIDE DEF R
<1>3. PICK n \in T : \A y \in T : ~(<<y, n>> \in R)
  BY <1>1, WFMin
<1>4. \A m \in T : ~(m < n)
  BY <1>2, <1>3
<1> QED
  BY <1>4

(* Induction, for a set S of numbers.                                       *)
LEMMA Induction ==
  ASSUME NEW S, 0 \in S, \A n \in Nat : n \in S => n + 1 \in S
  PROVE  Nat \subseteq S
<1> SUFFICES ASSUME Nat \ S # {} PROVE FALSE
  OBVIOUS
<1>1. PICK n \in Nat \ S : \A m \in Nat \ S : n <= m
  BY Least
<1>2. n # 0 /\ n - 1 \in Nat
  BY <1>1
<1>3. n - 1 \in S
  BY <1>1, <1>2
<1> QED
  BY <1>1, <1>2, <1>3

(* s is a sequence, of whatever.                                            *)
IsList(s) == \E S : s \in Seq(S)

(* Append, \o and constructed sequences.                                    *)
LEMMA Appended ==
  ASSUME NEW s, NEW x, IsList(s)
  PROVE  /\ IsList(Append(s, x)) /\ Len(s) \in Nat
         /\ Len(Append(s, x)) = Len(s) + 1
         /\ \A k \in 1 .. Len(s) : Append(s, x)[k] = s[k]
         /\ Append(s, x)[Len(s) + 1] = x
<1>1. PICK S : s \in Seq(S)
  BY DEF IsList
<1>2. s \in Seq(S \cup {x}) /\ x \in S \cup {x}
  BY <1>1
<1>3. Append(s, x) \in Seq(S \cup {x})
  BY <1>2
<1> QED
  BY <1>2, <1>3 DEF IsList

(* One sequence after the other.                                            *)
LEMMA Joined ==
  ASSUME NEW s, NEW t, IsList(s), IsList(t)
  PROVE  /\ IsList(s \o t) /\ Len(s) \in Nat /\ Len(t) \in Nat
         /\ Len(s \o t) = Len(s) + Len(t)
         /\ \A k \in 1 .. Len(s) : (s \o t)[k] = s[k]
         /\ \A k \in 1 .. Len(t) : (s \o t)[Len(s) + k] = t[k]
         /\ \A k \in 1 .. Len(s \o t) : k \in 1 .. Len(s) \/ k - Len(s) \in 1 .. Len(t)
<1>1. PICK S : s \in Seq(S)
  BY DEF IsList
<1>2. PICK T : t \in Seq(T)
  BY DEF IsList
<1>3. s \in Seq(S \cup T) /\ t \in Seq(S \cup T)
  BY <1>1, <1>2
<1>4. s \o t \in Seq(S \cup T)
  BY <1>3
<1>5. \A k \in 1 .. Len(t) : (s \o t)[Len(s) + k] = t[k]
  <2> TAKE k \in 1 .. Len(t)
  <2>1. Len(s) + k \in 1 .. Len(s) + Len(t) /\ ~(Len(s) + k <= Len(s)) /\ (Len(s) + k) - Len(s) = k
    BY <1>3
  <2> QED
    BY <1>3, <2>1
<1> QED
  BY <1>3, <1>4, <1>5 DEF IsList

(* A sequence given by its elements.                                        *)
LEMMA Listed ==
  ASSUME NEW n \in Nat, NEW s, DOMAIN s = 1 .. n, s = [k \in 1 .. n |-> s[k]]
  PROVE  IsList(s) /\ Len(s) = n
<1> DEFINE S == {s[k] : k \in 1 .. n}
<1>1. s \in [1 .. n -> S]
  OBVIOUS
<1> HIDE DEF S
<1>2. s \in Seq(S)
  BY <1>1
<1> QED
  BY <1>2 DEF IsList

-----------------------------------------------------------------------------
(* Lists, one after the other.                                              *)

(* FlattenSeq puts the lists one after the other.                           *)
FlatTable(g, ss, n) == g = [i \in 1 .. n |-> IF i = 1 THEN ss[i] ELSE g[i - 1] \o ss[i]]

(* There is such a table.                                                   *)
LEMMA FlatTableExists ==
  ASSUME NEW ss, NEW n \in Nat
  PROVE  \E g : FlatTable(g, ss, n)
<1> DEFINE Q == {k \in Nat : \E g : FlatTable(g, ss, k)}
<1>1. 0 \in Q
  <2>1. FlatTable([i \in 1 .. 0 |-> ss[i]], ss, 0)
    BY DEF FlatTable
  <2> QED
    BY <2>1
<1>2. ASSUME NEW k \in Nat, k \in Q
      PROVE  k + 1 \in Q
  <2>1. PICK g : FlatTable(g, ss, k)
    BY <1>2
  <2> DEFINE more == g[k] \o ss[k + 1]
             h == [i \in 1 .. k + 1 |-> IF i = k + 1 THEN IF i = 1 THEN ss[i] ELSE more ELSE g[i]]
  <2>2. ASSUME NEW i \in 1 .. k + 1
        PROVE  h[i] = IF i = 1 THEN ss[i] ELSE h[i - 1] \o ss[i]
    <3>1. CASE i = k + 1
      <4>1. CASE i = 1
        BY <3>1, <4>1
      <4>2. CASE i # 1
        <5>1. k \in 1 .. k + 1 /\ k # k + 1 /\ i - 1 = k
          BY <3>1, <4>2
        <5>2. h[k] = g[k]
          BY <5>1
        <5>3. h[i] = more
          BY <3>1, <4>2
        <5> HIDE DEF h
        <5> QED
          BY <3>1, <4>2, <5>1, <5>2, <5>3
      <4> QED
        BY <4>1, <4>2
    <3>2. CASE i # k + 1
      <4>1. i \in 1 .. k
        BY <3>2
      <4>2. h[i] = g[i]
        BY <3>2
      <4>3. g[i] = IF i = 1 THEN ss[i] ELSE g[i - 1] \o ss[i]
        BY <2>1, <4>1 DEF FlatTable
      <4>4. i # 1 => h[i - 1] = g[i - 1]
        <5> SUFFICES ASSUME i # 1 PROVE h[i - 1] = g[i - 1]
          OBVIOUS
        <5>1. i - 1 \in 1 .. k + 1 /\ i - 1 # k + 1
          BY <4>1
        <5> QED
          BY <5>1
      <4> HIDE DEF h
      <4> QED
        BY <4>2, <4>3, <4>4
    <3> QED
      BY <3>1, <3>2
  <2>3. h = [i \in 1 .. k + 1 |-> h[i]]
    OBVIOUS
  <2> HIDE DEF h
  <2>4. FlatTable(h, ss, k + 1)
    BY <2>2, <2>3 DEF FlatTable
  <2> QED
    BY <2>4
<1> HIDE DEF Q
<1>3. n \in Q
  BY <1>1, <1>2, Induction
<1> QED
  BY <1>3 DEF Q

(* ... and FlattenSeq reads it at the whole list.                           *)
LEMMA Flattened ==
  ASSUME NEW ss, NEW n, n \in Nat \ {0}, Len(ss) = n
  PROVE  \E g : FlatTable(g, ss, n) /\ FlattenSeq(ss) = g[n]
<1> DEFINE iter == CHOOSE g : g = [i \in 1 .. Len(ss) |-> IF i = 1 THEN ss[i] ELSE g[i - 1] \o ss[i]]
<1>1. iter = [i \in 1 .. Len(ss) |-> IF i = 1 THEN ss[i] ELSE iter[i - 1] \o ss[i]]
  <2>1. PICK g : FlatTable(g, ss, n)
    BY FlatTableExists, Zenon
  <2>2. g = [i \in 1 .. Len(ss) |-> IF i = 1 THEN ss[i] ELSE g[i - 1] \o ss[i]]
    BY <2>1 DEF FlatTable
  <2> QED
    BY <2>2, Zenon
<1>2. ~(Len(ss) = 0)
  OBVIOUS
<1>3. FlattenSeq(ss) = iter[Len(ss)]
  BY <1>2, Zenon DEF FlattenSeq
<1> HIDE DEF iter
<1>4. FlatTable(iter, ss, n)
  BY <1>1 DEF FlatTable
<1> QED
  BY <1>3, <1>4

(* The strengthening: update_exist is called for at most one member.        *)
IInv ==
  /\ WrittenIsReached
  /\ updating = {} \/ \E m : updating = {m}

(* A member is written, or a child is made, only when no update is going    *)
(* on; the member is the one that will be marked.                           *)
LEMMA WritingKeeps ==
  ASSUME IInv, NEW m, NEW value, write_data(m, value)
  PROVE  IInv'
<1>1. /\ exist' = exist /\ children' = children
      /\ updating = {} /\ updating' = {m}
      /\ DOMAIN values' = DOMAIN values \union {m}
  BY DEF write_data, Extended
<1>2. \A n \in exist \union {m} : Marked(n)'
  BY <1>1 DEF Marked
<1>3. \A n \in DOMAIN values \union DOMAIN children : n \in exist
  BY <1>1 DEF IInv, WrittenIsReached, Marked
<1>4. \A n \in exist : HoldersMarked(n)'
  BY <1>1 DEF IInv, WrittenIsReached, HoldersMarked, Marked
<1> QED
  BY <1>1, <1>2, <1>3, <1>4 DEF IInv, WrittenIsReached

(* So does one more child.                                                  *)
LEMMA CreatingKeeps ==
  ASSUME IInv, NEW m, create_child(m)
  PROVE  IInv'
<1>1. /\ exist' = exist /\ values' = values
      /\ updating = {} /\ updating' = {m}
      /\ DOMAIN children' = DOMAIN children \union {m}
  BY DEF create_child, Extended
<1>2. \A n \in exist \union {m} : Marked(n)'
  BY <1>1 DEF Marked
<1>3. \A n \in DOMAIN values \union DOMAIN children : n \in exist
  BY <1>1 DEF IInv, WrittenIsReached, Marked
<1>4. \A n \in exist : HoldersMarked(n)'
  BY <1>1 DEF IInv, WrittenIsReached, HoldersMarked, Marked
<1> QED
  BY <1>1, <1>2, <1>3, <1>4 DEF IInv, WrittenIsReached

(* The heart of it: the member that is marked hands the obligation on to    *)
(* the one that holds it; if it was marked already, nothing is owed.        *)
LEMMA UpdatingKeeps ==
  ASSUME IInv, update_exist
  PROVE  IInv'
<1>1. PICK m \in updating :
        /\ exist' = exist \union {m}
        /\ updating' = IF m \notin exist /\ HasParent(m.of) THEN {Holder(m.of)} ELSE {}
        /\ values' = values /\ children' = children
  BY DEF update_exist
<1>2. updating = {m}
  BY DEF IInv
<1>3. \A n \in DOMAIN values \union DOMAIN children : n \in exist'
  BY <1>1, <1>2 DEF IInv, WrittenIsReached, Marked
<1>4. \A n \in exist : HoldersMarked(n)'
  <2> SUFFICES ASSUME NEW n \in exist, HasParent(n.of)
               PROVE  Holder(n.of) \in exist'
    BY DEF HoldersMarked, Marked
  <2>1. Holder(n.of) \in exist \union {m}
    BY <1>2 DEF IInv, WrittenIsReached, HoldersMarked, Marked
  <2> QED
    BY <2>1, <1>1
<1>5. HoldersMarked(m)'
  <2>1. CASE m \in exist
    BY <2>1, <1>4
  <2>2. CASE m \notin exist
    BY <2>2, <1>1 DEF HoldersMarked, Marked
  <2> QED
    BY <2>1, <2>2
<1>6. \A n \in exist' : HoldersMarked(n)'
  BY <1>1, <1>4, <1>5
<1>7. updating' = {} \/ \E n : updating' = {n}
  BY <1>1
<1> QED
  BY <1>1, <1>3, <1>6, <1>7 DEF IInv, WrittenIsReached, Marked

(* An object that is not touched stays as it is.                            *)
LEMMA UntouchedKeeps ==
  ASSUME IInv, UNCHANGED objectVars
  PROVE  IInv'
<1>1. values' = values /\ children' = children /\ exist' = exist /\ updating' = updating
  BY DEF objectVars
<1> QED
  BY <1>1 DEF IInv, WrittenIsReached, HoldersMarked, Marked

(* A program that reads starts from a blank object.                         *)
LEMMA BlankKeeps ==
  ASSUME values' = <<>>, children' = <<>>, exist' = {}, updating' = {}
  PROVE  IInv'
  BY DEF IInv, WrittenIsReached

(* A step of the reader, whose stores are the same operations.              *)
LEMMA ParsingKeeps ==
  ASSUME IInv, ParseNext
  PROVE  IInv'
<1>1. CASE ParseValue
  <2>1. UNCHANGED objectVars \/ write_data(Here, At(index + 1).value)
    BY <1>1 DEF ParseValue, Store, Asserted
  <2> QED
    BY <2>1, WritingKeeps, UntouchedKeeps
<1>2. CASE NextChild
  <2>1. UNCHANGED objectVars \/ create_child(Frame.list)
    BY <1>2 DEF NextChild, Store, Asserted
  <2> QED
    BY <2>1, CreatingKeeps, UntouchedKeeps
<1>3. CASE Misunderstood \/ ParseClass \/ ParseList \/ EndList \/ EndObject \/ EndOfData
  <2>1. UNCHANGED objectVars
    BY <1>3 DEF Misunderstood, ParseClass, ParseList, EndList, EndObject, EndOfData, Asserted
  <2> QED
    BY <2>1, UntouchedKeeps
<1> QED
  BY <1>1, <1>2, <1>3 DEF ParseNext

(* Every step keeps the marks.                                              *)
LEMMA NextKeeps ==
  ASSUME IInv, [Next]_vars
  PROVE  IInv'
<1>1. CASE WriteMember
  <2>1. PICK m, value : write_data(m, value)
    BY <1>1 DEF WriteMember
  <2> QED
    BY <2>1, WritingKeeps
<1>2. CASE AppendMember
  <2>1. PICK m, value : write_data(m, value)
    BY <1>2 DEF AppendMember, append_data
  <2> QED
    BY <2>1, WritingKeeps
<1>3. CASE CreateChild
  <2>1. PICK m : create_child(m)
    BY <1>3 DEF CreateChild
  <2> QED
    BY <2>1, CreatingKeeps
<1>4. CASE UpdateExist
  BY <1>4, UpdatingKeeps DEF UpdateExist
<1>5. CASE write \/ Damage \/ UNCHANGED vars
  <2>1. UNCHANGED objectVars
    BY <1>5 DEF write, Damage, vars
  <2> QED
    BY <2>1, UntouchedKeeps
<1>6. CASE parse \/ \E rules \in Programs : read(rules)
  <2>1. values' = <<>> /\ children' = <<>> /\ exist' = {} /\ updating' = {}
    BY <1>6 DEF parse, read, Begin
  <2> QED
    BY <2>1, BlankKeeps
<1>7. CASE ParseNext
  BY <1>7, ParsingKeeps
<1> QED
  BY <1>1, <1>2, <1>3, <1>4, <1>5, <1>6, <1>7 DEF Next

(* A blank object has nothing to mark.                                      *)
LEMMA InitHolds == Init => IInv
  BY DEF Init, IsBlank, IInv, WrittenIsReached

(* Nothing that is written is left out of the file: each member that was    *)
(* written or has children is marked, and so is each class on the way to    *)
(* it from the top (update_exist of CFGObject.cpp).                         *)
THEOREM NothingWrittenIsLost == Spec => []WrittenIsReached
<1>1. IInv => WrittenIsReached
  BY DEF IInv
<1> QED
  BY InitHolds, NextKeeps, <1>1, PTL DEF Spec

-----------------------------------------------------------------------------
(* What a file is written from, F: rules, values and children.              *)

Steps == [name : STRING, n : Nat]
Objects == Seq(Steps)
AllMembers == [of : Objects, name : STRING]

Has(F, m, type) ==
  \E k \in 1 .. Len(F.schema) :
    F.schema[k].of = ClassOf(m.of) /\ F.schema[k].name = m.name /\ F.schema[k].type = type

WrittenIn(F) == DOMAIN F.values \union DOMAIN F.children

(* The member that step k of a path goes into.                              *)
MemberAt(o, k) == Member(SubSeq(o, 1, k - 1), o[k].name)

(* update_exist, called for w, marks m: classes alone lie between them.     *)
Above(m, w) ==
  \/ m = w
  \/ /\ Len(m.of) < Len(w.of)
     /\ m = MemberAt(w.of, Len(m.of) + 1)
     /\ \A k \in Len(m.of) + 1 .. Len(w.of) : w.of[k].n = 0

IsMarked(F, m) == \E w \in WrittenIn(F) : Above(m, w)

(* The object is there, and serialize comes to it.                          *)
Goes(F, m, n) ==
  IF n = 0 THEN Has(F, m, "class") /\ IsMarked(F, m)
  ELSE Has(F, m, "list") /\ m \in DOMAIN F.children /\ n <= F.children[m]
Reached(F, o) ==
  o \in Objects /\ \A k \in 1 .. Len(o) : Goes(F, MemberAt(o, k), o[k].n)

(* ... and to the member.                                                   *)
KeptIn(F, m) ==
  /\ m \in AllMembers
  /\ Reached(F, m.of)
  /\ \E type \in AllTypes :
       /\ Has(F, m, type)
       /\ IF type = "list" THEN m \in DOMAIN F.children ELSE IsMarked(F, m)

Under(o, x) == Len(o) <= Len(x) /\ SubSeq(x, 1, Len(o)) = o
KeptUnder(F, o) == {m \in AllMembers : KeptIn(F, m) /\ Under(o, m.of)}

Simple == Numbers \union NumberLists \union Strings

(* F is an object of a program.                                             *)
Sound(F) ==
  /\ IsProgram(F.schema)
  /\ \A m \in DOMAIN F.values :
       m \in AllMembers /\ Reached(F, m.of) /\ \E type \in Simple : Has(F, m, type)
  /\ \A m \in DOMAIN F.children :
       m \in AllMembers /\ Reached(F, m.of) /\ Has(F, m, "list") /\ F.children[m] \in Nat \ {0}

-----------------------------------------------------------------------------
(* Reading a file token by token.  Between two tokens the reader is at the  *)
(* front of an object or further on in it, or waits for a value or a count. *)

FrontOf(o) == [kind |-> "front", of |-> o]
In(o) == [kind |-> "object", of |-> o]
ValueOf(m) == [kind |-> "value", of |-> m]
CountOf(m) == [kind |-> "count", of |-> m]

InObject(a) == a.kind \in {"front", "object"}

AfterTag(m, type) ==
  IF type = "class" THEN FrontOf(ClassObject(m))
  ELSE IF type = "list" THEN CountOf(m) ELSE ValueOf(m)

AfterEnd(F, o) ==
  LET m == MemberAt(o, Len(o))
      n == o[Len(o)].n
  IN  IF n = 0 \/ n = F.children[m] THEN In(m.of) ELSE FrontOf(Child(m, n + 1))

TagOf(m, type) == [type |-> type, name |-> m.name]

TagStep(F, a, t, b) ==
  \E m \in AllMembers : \E type \in AllTypes :
    /\ InObject(a) /\ a.of = m.of
    /\ t = TagOf(m, type)
    /\ KeptIn(F, m) /\ Has(F, m, type)
    /\ b = AfterTag(m, type)

ValueStep(F, a, t, b) ==
  /\ a.kind = "value" /\ a.of \in DOMAIN F.values
  /\ t = [value |-> F.values[a.of]]
  /\ b = In(a.of.of)

CountStep(F, a, t, b) ==
  /\ a.kind = "count" /\ a.of \in DOMAIN F.children
  /\ t = [count |-> F.children[a.of]]
  /\ b = FrontOf(Child(a.of, 1))

(* An object that is empty is one in which nothing was written.             *)
EndStep(F, a, t, b) ==
  /\ InObject(a) /\ a.of # <<>> /\ Reached(F, a.of)
  /\ t = End
  /\ a.kind = "front" => KeptUnder(F, a.of) = {}
  /\ b = AfterEnd(F, a.of)

ReaderStep(F, a, t, b) ==
  TagStep(F, a, t, b) \/ ValueStep(F, a, t, b) \/ CountStep(F, a, t, b) \/ EndStep(F, a, t, b)

(* The i-th token is the tag of a member.                                   *)
TagAt(q, s, i) == InObject(q[i]) /\ s[i] # End
TagMember(q, s, i) == Member(q[i].of, s[i].name)

(* The tokens s lead the reader from a to b, by the places q, and tag the   *)
(* members T, each once.                                                    *)
Run(F, a, s, b, T, q) ==
  /\ IsList(s) /\ IsList(q)
  /\ Len(q) = Len(s) + 1
  /\ q[1] = a /\ q[Len(s) + 1] = b
  /\ \A i \in 1 .. Len(s) : ReaderStep(F, q[i], s[i], q[i + 1])
  /\ \A i \in 1 .. Len(s) : TagAt(q, s, i) => TagMember(q, s, i) \in T
  /\ \A m \in T : \E i \in 1 .. Len(s) : TagAt(q, s, i) /\ TagMember(q, s, i) = m
  /\ \A i, j \in 1 .. Len(s) :
       TagAt(q, s, i) /\ TagAt(q, s, j) /\ TagMember(q, s, i) = TagMember(q, s, j) => i = j

Runs(F, a, s, b, T) == \E q : Run(F, a, s, b, T, q)

(* No token is read.                                                        *)
LEMMA EmptyRuns ==
  ASSUME NEW F, NEW a
  PROVE  Runs(F, a, <<>>, a, {})
<1> DEFINE q == <<a>>
<1>1. IsList(<<>>) /\ IsList(q) /\ Len(q) = 1 /\ q[1] = a /\ Len(<<>>) = 0
  <2>1. <<>> \in Seq({a}) /\ q \in Seq({a})
    OBVIOUS
  <2> QED
    BY <2>1 DEF IsList
<1> HIDE DEF q
<1>2. Run(F, a, <<>>, a, {}, q)
  BY <1>1 DEF Run
<1> QED
  BY <1>2 DEF Runs

(* One token.                                                               *)
OneTagged(a, t) == IF InObject(a) /\ t # End THEN {Member(a.of, t.name)} ELSE {}

(* A token that the reader can take is a run.                               *)
LEMMA OneRuns ==
  ASSUME NEW F, NEW a, NEW t, NEW b, ReaderStep(F, a, t, b)
  PROVE  Runs(F, a, <<t>>, b, OneTagged(a, t))
<1> DEFINE q == <<a, b>>
           s == <<t>>
<1>1. IsList(s) /\ IsList(q) /\ Len(q) = 2 /\ q[1] = a /\ q[2] = b /\ Len(s) = 1 /\ s[1] = t
  <2>1. s \in Seq({t}) /\ q \in Seq({a, b})
    OBVIOUS
  <2> QED
    BY <2>1 DEF IsList
<1> HIDE DEF q, s
<1>2. \A i \in 1 .. Len(s) : i = 1
  BY <1>1
<1>3. TagAt(q, s, 1) <=> InObject(a) /\ t # End
  BY <1>1 DEF TagAt
<1>4. TagMember(q, s, 1) = Member(a.of, t.name)
  BY <1>1 DEF TagMember
<1>5. ReaderStep(F, q[1], s[1], q[1 + 1])
  BY <1>1
<1>6. Run(F, a, s, b, OneTagged(a, t), q)
  BY <1>1, <1>2, <1>3, <1>4, <1>5 DEF Run, OneTagged
<1> QED
  BY <1>6 DEF Runs, s

(* One run after the other.                                                 *)
LEMMA RunsJoin ==
  ASSUME NEW F, NEW a, NEW s, NEW b, NEW S, Runs(F, a, s, b, S),
         NEW t, NEW c, NEW T, Runs(F, b, t, c, T), S \cap T = {}
  PROVE  Runs(F, a, s \o t, c, S \union T)
<1>1. PICK q : Run(F, a, s, b, S, q)
  BY DEF Runs
<1>2. PICK r : Run(F, b, t, c, T, r)
  BY DEF Runs
<1> DEFINE u == s \o t
           ls == Len(s)
           lt == Len(t)
           p == [k \in 1 .. ls + lt + 1 |-> IF k <= ls THEN q[k] ELSE r[k - ls]]
<1>3. IsList(s) /\ IsList(t)
  BY <1>1, <1>2 DEF Run
<1>4. /\ IsList(u) /\ ls \in Nat /\ lt \in Nat
      /\ Len(u) = ls + lt
      /\ \A k \in 1 .. ls : u[k] = s[k]
      /\ \A k \in 1 .. lt : u[ls + k] = t[k]
  BY <1>3, Joined
<1>5. IsList(p) /\ Len(p) = ls + lt + 1
  <2>1. ls + lt + 1 \in Nat /\ DOMAIN p = 1 .. ls + lt + 1
        /\ p = [k \in 1 .. ls + lt + 1 |-> p[k]]
    BY <1>4
  <2> HIDE DEF p
  <2> QED
    BY <2>1, Listed
<1>6. \A k \in 1 .. ls + 1 : p[k] = q[k]
  <2> SUFFICES ASSUME NEW k \in 1 .. ls + 1 PROVE p[k] = q[k]
    OBVIOUS
  <2>1. CASE k = ls + 1
    <3>1. k \in 1 .. ls + lt + 1 /\ ~(k <= ls) /\ k - ls = 1
      BY <1>4, <2>1
    <3>2. p[k] = r[1]
      BY <3>1
    <3> QED
      BY <2>1, <3>2, <1>1, <1>2 DEF Run
  <2>2. CASE k # ls + 1
    BY <1>4, <2>2
  <2> QED
    BY <2>1, <2>2
<1>7. \A k \in 1 .. lt + 1 : p[ls + k] = r[k]
  <2> SUFFICES ASSUME NEW k \in 1 .. lt + 1 PROVE p[ls + k] = r[k]
    OBVIOUS
  <2>1. ls + k \in 1 .. ls + lt + 1 /\ ~(ls + k <= ls) /\ (ls + k) - ls = k
    BY <1>4
  <2> QED
    BY <2>1
<1> HIDE DEF p, u
<1>8. \A i \in 1 .. Len(u) : i \in 1 .. ls \/ \E k \in 1 .. lt : i = ls + k
  <2> TAKE i \in 1 .. Len(u)
  <2>1. i \notin 1 .. ls => i - ls \in 1 .. lt /\ i = ls + (i - ls)
    BY <1>4
  <2> QED
    BY <2>1
<1>9. \A i \in 1 .. ls : /\ i \in 1 .. Len(u) /\ p[i] = q[i] /\ p[i + 1] = q[i + 1] /\ u[i] = s[i]
                         /\ TagAt(p, u, i) <=> TagAt(q, s, i)
                         /\ TagMember(p, u, i) = TagMember(q, s, i)
  <2> TAKE i \in 1 .. ls
  <2>1. i \in 1 .. ls + 1 /\ i + 1 \in 1 .. ls + 1 /\ i \in 1 .. Len(u)
    BY <1>4
  <2>2. p[i] = q[i] /\ p[i + 1] = q[i + 1] /\ u[i] = s[i]
    BY <1>4, <1>6, <2>1
  <2> QED
    BY <2>1, <2>2 DEF TagAt, TagMember
<1>10. \A k \in 1 .. lt : /\ ls + k \in 1 .. Len(u) /\ p[ls + k] = r[k] /\ p[ls + k + 1] = r[k + 1]
                          /\ u[ls + k] = t[k]
                          /\ TagAt(p, u, ls + k) <=> TagAt(r, t, k)
                          /\ TagMember(p, u, ls + k) = TagMember(r, t, k)
  <2> TAKE k \in 1 .. lt
  <2>1. k \in 1 .. lt + 1 /\ k + 1 \in 1 .. lt + 1 /\ ls + k \in 1 .. Len(u)
        /\ ls + (k + 1) = ls + k + 1
    BY <1>4
  <2>2. p[ls + k] = r[k] /\ p[ls + k + 1] = r[k + 1] /\ u[ls + k] = t[k]
    BY <1>4, <1>7, <2>1
  <2> QED
    BY <2>1, <2>2 DEF TagAt, TagMember
<1>11. p[1] = a /\ p[Len(u) + 1] = c
  <2>1. 1 \in 1 .. ls + 1 /\ lt + 1 \in 1 .. lt + 1 /\ Len(u) + 1 = ls + (lt + 1)
    BY <1>4
  <2> QED
    BY <2>1, <1>1, <1>2, <1>6, <1>7 DEF Run
<1>18. \A i \in 1 .. ls : /\ ReaderStep(F, q[i], s[i], q[i + 1])
                          /\ TagAt(q, s, i) => TagMember(q, s, i) \in S
  BY <1>1 DEF Run
<1>19. \A k \in 1 .. lt : /\ ReaderStep(F, r[k], t[k], r[k + 1])
                          /\ TagAt(r, t, k) => TagMember(r, t, k) \in T
  BY <1>2 DEF Run
<1> HIDE DEF ls, lt
<1>12. \A i \in 1 .. Len(u) : ReaderStep(F, p[i], u[i], p[i + 1])
  BY <1>18, <1>19, <1>8, <1>9, <1>10
<1>13. \A i \in 1 .. Len(u) : TagAt(p, u, i) => TagMember(p, u, i) \in S \union T
  BY <1>18, <1>19, <1>8, <1>9, <1>10
<1> USE DEF ls, lt
<1>14. \A m \in S \union T : \E i \in 1 .. Len(u) : TagAt(p, u, i) /\ TagMember(p, u, i) = m
  <2> TAKE m \in S \union T
  <2>1. CASE m \in S
    <3>1. PICK i \in 1 .. ls : TagAt(q, s, i) /\ TagMember(q, s, i) = m
      BY <1>1, <2>1 DEF Run
    <3> QED
      BY <1>9, <3>1
  <2>2. CASE m \in T
    <3>1. PICK k \in 1 .. lt : TagAt(r, t, k) /\ TagMember(r, t, k) = m
      BY <1>2, <2>2 DEF Run
    <3> QED
      BY <1>10, <3>1
  <2> QED
    BY <2>1, <2>2
<1>15. \A i, j \in 1 .. Len(u) :
         TagAt(p, u, i) /\ TagAt(p, u, j) /\ TagMember(p, u, i) = TagMember(p, u, j) => i = j
  <2> SUFFICES ASSUME NEW i \in 1 .. Len(u), NEW j \in 1 .. Len(u), TagAt(p, u, i), TagAt(p, u, j),
                      TagMember(p, u, i) = TagMember(p, u, j)
               PROVE  i = j
    OBVIOUS
  <2>1. \A k \in 1 .. ls : TagAt(q, s, k) => TagMember(q, s, k) \in S
    BY <1>1 DEF Run
  <2>2. \A k \in 1 .. lt : TagAt(r, t, k) => TagMember(r, t, k) \in T
    BY <1>2 DEF Run
  <2>3. CASE i \in 1 .. ls /\ j \in 1 .. ls
    BY <1>1, <1>9, <2>3 DEF Run
  <2>4. CASE i \notin 1 .. ls /\ j \notin 1 .. ls
    <3>1. PICK k \in 1 .. lt : i = ls + k
      BY <1>8, <2>4
    <3>2. PICK l \in 1 .. lt : j = ls + l
      BY <1>8, <2>4
    <3>3. k = l
      BY <1>2, <1>10, <3>1, <3>2 DEF Run
    <3> QED
      BY <3>1, <3>2, <3>3
  <2>5. CASE i \in 1 .. ls /\ j \notin 1 .. ls
    <3>1. PICK l \in 1 .. lt : j = ls + l
      BY <1>8, <2>5
    <3> QED
      BY <1>9, <1>10, <2>1, <2>2, <2>5, <3>1
  <2>6. CASE i \notin 1 .. ls /\ j \in 1 .. ls
    <3>1. PICK l \in 1 .. lt : i = ls + l
      BY <1>8, <2>6
    <3> QED
      BY <1>9, <1>10, <2>1, <2>2, <2>6, <3>1
  <2> QED
    BY <2>3, <2>4, <2>5, <2>6
<1>16. Len(p) = Len(u) + 1
  BY <1>4, <1>5
<1>17. Run(F, a, u, c, S \union T, p)
  BY <1>4, <1>5, <1>11, <1>12, <1>13, <1>14, <1>15, <1>16 DEF Run
<1> QED
  BY <1>17 DEF Runs, u

-----------------------------------------------------------------------------
(* Paths.                                                                   *)

LEMMA SameSequence ==
  ASSUME NEW S, NEW s \in Seq(S), NEW t \in Seq(S), Len(s) = Len(t),
         \A k \in 1 .. Len(s) : s[k] = t[k]
  PROVE  s = t
  OBVIOUS

(* The steps and the prefixes of a path.                                    *)
LEMMA PathFacts ==
  ASSUME NEW o \in Objects
  PROVE  /\ Len(o) \in Nat
         /\ \A k \in 1 .. Len(o) : /\ o[k] \in Steps /\ o[k].name \in STRING /\ o[k].n \in Nat
                                   /\ o[k] = [name |-> o[k].name, n |-> o[k].n]
         /\ \A k \in 0 .. Len(o) : /\ SubSeq(o, 1, k) \in Objects /\ Len(SubSeq(o, 1, k)) = k
                                   /\ \A j \in 1 .. k : SubSeq(o, 1, k)[j] = o[j]
<1>1. Len(o) \in Nat
  BY DEF Objects
<1>2. ASSUME NEW k \in 1 .. Len(o)
      PROVE  /\ o[k] \in Steps /\ o[k].name \in STRING /\ o[k].n \in Nat
             /\ o[k] = [name |-> o[k].name, n |-> o[k].n]
  <2>1. o[k] \in Steps
    BY DEF Objects
  <2> QED
    BY <2>1 DEF Steps
<1>3. ASSUME NEW k \in 0 .. Len(o)
      PROVE  /\ SubSeq(o, 1, k) \in Objects /\ Len(SubSeq(o, 1, k)) = k
             /\ \A j \in 1 .. k : SubSeq(o, 1, k)[j] = o[j]
  <2>1. \A j \in 1 .. k : o[j] \in Steps
    BY <1>1 DEF Objects
  <2>2. SubSeq(o, 1, k) \in Seq(Steps)
    BY <1>1, <2>1 DEF Objects
  <2>3. Len(SubSeq(o, 1, k)) = k /\ \A j \in 1 .. k : SubSeq(o, 1, k)[j] = o[j]
    BY <1>1 DEF Objects
  <2> QED
    BY <2>2, <2>3 DEF Objects
<1> QED
  BY <1>1, <1>2, <1>3

(* A prefix of a prefix.                                                    *)
LEMMA SubPath ==
  ASSUME NEW o \in Objects, NEW k \in 0 .. Len(o), NEW j \in 0 .. k
  PROVE  SubSeq(SubSeq(o, 1, k), 1, j) = SubSeq(o, 1, j)
<1>1. SubSeq(o, 1, k) \in Objects /\ Len(SubSeq(o, 1, k)) = k
  BY PathFacts
<1> DEFINE s == SubSeq(SubSeq(o, 1, k), 1, j)
           t == SubSeq(o, 1, j)
<1>2. s \in Objects /\ Len(s) = j /\ \A i \in 1 .. j : s[i] = SubSeq(o, 1, k)[i]
  BY <1>1, PathFacts
<1>3. t \in Objects /\ Len(t) = j /\ \A i \in 1 .. j : t[i] = o[i]
  BY PathFacts
<1>4. \A i \in 1 .. j : SubSeq(o, 1, k)[i] = o[i]
  BY PathFacts
<1> HIDE DEF s, t
<1>5. s = t
  BY <1>2, <1>3, <1>4, SameSequence DEF Objects
<1> QED
  BY <1>5 DEF s, t

(* One step further.                                                        *)
LEMMA LongerPath ==
  ASSUME NEW o \in Objects, NEW e \in Steps
  PROVE  /\ Append(o, e) \in Objects
         /\ Len(Append(o, e)) = Len(o) + 1
         /\ Append(o, e)[Len(o) + 1] = e
         /\ \A k \in 1 .. Len(o) : Append(o, e)[k] = o[k]
         /\ \A k \in 0 .. Len(o) : SubSeq(Append(o, e), 1, k) = SubSeq(o, 1, k)
         /\ SubSeq(Append(o, e), 1, Len(o)) = o
<1> DEFINE p == Append(o, e)
<1>1. /\ p \in Objects /\ Len(p) = Len(o) + 1 /\ p[Len(o) + 1] = e /\ Len(o) \in Nat
      /\ \A k \in 1 .. Len(o) : p[k] = o[k]
  BY DEF Objects
<1> HIDE DEF p
<1>2. ASSUME NEW k \in 0 .. Len(o)
      PROVE  SubSeq(p, 1, k) = SubSeq(o, 1, k)
  <2>1. k \in 0 .. Len(p)
    BY <1>1
  <2>2. /\ SubSeq(p, 1, k) \in Objects /\ Len(SubSeq(p, 1, k)) = k
        /\ \A j \in 1 .. k : SubSeq(p, 1, k)[j] = p[j]
    BY <1>1, <2>1, PathFacts
  <2>3. /\ SubSeq(o, 1, k) \in Objects /\ Len(SubSeq(o, 1, k)) = k
        /\ \A j \in 1 .. k : SubSeq(o, 1, k)[j] = o[j]
    BY PathFacts
  <2>4. \A j \in 1 .. k : SubSeq(p, 1, k)[j] = SubSeq(o, 1, k)[j]
    BY <1>1, <2>2, <2>3
  <2> QED
    BY <2>2, <2>3, <2>4, SameSequence DEF Objects
<1>3. SubSeq(o, 1, Len(o)) = o
  <2>1. Len(o) \in 0 .. Len(o)
    BY <1>1
  <2>2. /\ SubSeq(o, 1, Len(o)) \in Objects /\ Len(SubSeq(o, 1, Len(o))) = Len(o)
        /\ \A j \in 1 .. Len(o) : SubSeq(o, 1, Len(o))[j] = o[j]
    BY <2>1, PathFacts
  <2> QED
    BY <2>2, SameSequence DEF Objects
<1>4. SubSeq(p, 1, Len(o)) = o
  <2>1. Len(o) \in 0 .. Len(o)
    BY <1>1
  <2> QED
    BY <1>2, <1>3, <2>1
<1> QED
  BY <1>1, <1>2, <1>4 DEF p

(* One step back.                                                           *)
LEMMA ShorterPath ==
  ASSUME NEW p \in Objects, p # <<>>
  PROVE  /\ Len(p) \in Nat \ {0}
         /\ SubSeq(p, 1, Len(p) - 1) \in Objects
         /\ Len(SubSeq(p, 1, Len(p) - 1)) = Len(p) - 1
         /\ p[Len(p)] \in Steps
         /\ p = Append(SubSeq(p, 1, Len(p) - 1), p[Len(p)])
<1>1. Len(p) \in Nat \ {0}
  BY DEF Objects
<1> DEFINE o == SubSeq(p, 1, Len(p) - 1)
           e == p[Len(p)]
<1>2. Len(p) - 1 \in 0 .. Len(p) /\ Len(p) \in 1 .. Len(p)
  BY <1>1
<1>3. o \in Objects /\ Len(o) = Len(p) - 1 /\ e \in Steps /\ \A j \in 1 .. Len(p) - 1 : o[j] = p[j]
  BY <1>2, PathFacts
<1> HIDE DEF o
<1>4. /\ Append(o, e) \in Objects /\ Len(Append(o, e)) = Len(p) /\ Append(o, e)[Len(p)] = e
      /\ \A k \in 1 .. Len(p) - 1 : Append(o, e)[k] = o[k]
  BY <1>1, <1>3, LongerPath
<1>5. \A k \in 1 .. Len(p) : p[k] = Append(o, e)[k]
  <2> TAKE k \in 1 .. Len(p)
  <2>1. k = Len(p) \/ k \in 1 .. Len(p) - 1
    BY <1>1
  <2> QED
    BY <1>3, <1>4, <2>1
<1>6. p = Append(o, e)
  BY <1>4, <1>5, SameSequence DEF Objects
<1> QED
  BY <1>1, <1>3, <1>6 DEF o

(* The class of a path.                                                     *)
LEMMA ClassOfPath ==
  ASSUME NEW o \in Objects
  PROVE  /\ ClassOf(o) \in Seq(STRING) /\ Len(ClassOf(o)) = Len(o)
         /\ \A k \in 1 .. Len(o) : ClassOf(o)[k] = o[k].name
<1> DEFINE f == [k \in 1 .. Len(o) |-> o[k].name]
<1>1. Len(o) \in Nat /\ \A k \in 1 .. Len(o) : o[k].name \in STRING
  BY PathFacts
<1>2. f \in [1 .. Len(o) -> STRING]
  BY <1>1
<1>3. f \in Seq(STRING) /\ Len(f) = Len(o)
  BY <1>1, <1>2
<1> QED
  BY <1>3 DEF ClassOf

(* The class of a longer path.                                              *)
LEMMA ClassOfLonger ==
  ASSUME NEW o \in Objects, NEW name \in STRING, NEW n \in Nat
  PROVE  ClassOf(Append(o, [name |-> name, n |-> n])) = Append(ClassOf(o), name)
<1> DEFINE e == [name |-> name, n |-> n]
           p == Append(o, e)
<1>1. e \in Steps /\ e.name = name
  BY DEF Steps
<1> HIDE DEF e
<1>2. /\ p \in Objects /\ Len(p) = Len(o) + 1 /\ p[Len(o) + 1] = e
      /\ \A k \in 1 .. Len(o) : p[k] = o[k]
  BY <1>1, LongerPath
<1> HIDE DEF p
<1>3. /\ ClassOf(p) \in Seq(STRING) /\ Len(ClassOf(p)) = Len(o) + 1
      /\ \A k \in 1 .. Len(o) + 1 : ClassOf(p)[k] = p[k].name
  BY <1>2, ClassOfPath
<1>4. /\ ClassOf(o) \in Seq(STRING) /\ Len(ClassOf(o)) = Len(o) /\ Len(o) \in Nat
      /\ \A k \in 1 .. Len(o) : ClassOf(o)[k] = o[k].name
  BY ClassOfPath, PathFacts
<1>5. /\ Append(ClassOf(o), name) \in Seq(STRING) /\ Len(Append(ClassOf(o), name)) = Len(o) + 1
      /\ Append(ClassOf(o), name)[Len(o) + 1] = name
      /\ \A k \in 1 .. Len(o) : Append(ClassOf(o), name)[k] = o[k].name
  BY <1>4
<1>6. \A k \in 1 .. Len(o) + 1 : ClassOf(p)[k] = Append(ClassOf(o), name)[k]
  <2> TAKE k \in 1 .. Len(o) + 1
  <2>1. k = Len(o) + 1 \/ k \in 1 .. Len(o)
    BY <1>4
  <2> QED
    BY <1>1, <1>2, <1>3, <1>5, <2>1
<1>7. ClassOf(p) = Append(ClassOf(o), name)
  BY <1>3, <1>5, <1>6, SameSequence
<1> QED
  BY <1>7 DEF p, e

(* The members on the way.                                                  *)
LEMMA MemberAtLonger ==
  ASSUME NEW o \in Objects, NEW name \in STRING, NEW n \in Nat
  PROVE  LET p == Append(o, [name |-> name, n |-> n])
         IN  /\ MemberAt(p, Len(o) + 1) = Member(o, name)
             /\ p[Len(o) + 1].n = n
             /\ \A k \in 1 .. Len(o) : MemberAt(p, k) = MemberAt(o, k) /\ p[k] = o[k]
<1> DEFINE e == [name |-> name, n |-> n]
           p == Append(o, e)
<1>1. e \in Steps /\ e.name = name /\ e.n = n
  BY DEF Steps
<1> HIDE DEF e
<1>2. /\ p[Len(o) + 1] = e /\ Len(o) \in Nat
      /\ \A k \in 1 .. Len(o) : p[k] = o[k]
      /\ \A k \in 0 .. Len(o) : SubSeq(p, 1, k) = SubSeq(o, 1, k)
      /\ SubSeq(p, 1, Len(o)) = o
  BY <1>1, LongerPath, PathFacts
<1> HIDE DEF p
<1>3. MemberAt(p, Len(o) + 1) = Member(o, name)
  <2>1. (Len(o) + 1) - 1 = Len(o)
    BY <1>2
  <2> QED
    BY <1>1, <1>2, <2>1 DEF MemberAt
<1>4. ASSUME NEW k \in 1 .. Len(o)
      PROVE  MemberAt(p, k) = MemberAt(o, k) /\ p[k] = o[k]
  <2>1. k - 1 \in 0 .. Len(o)
    BY <1>2
  <2> QED
    BY <1>2, <2>1 DEF MemberAt
<1>5. p[Len(o) + 1].n = n
  BY <1>1, <1>2
<1>6. /\ MemberAt(p, Len(o) + 1) = Member(o, name)
      /\ p[Len(o) + 1].n = n
      /\ \A k \in 1 .. Len(o) : MemberAt(p, k) = MemberAt(o, k) /\ p[k] = o[k]
  BY <1>3, <1>4, <1>5
<1> QED
  BY <1>6 DEF p, e

-----------------------------------------------------------------------------
(* Objects and the members they are in.  The object of a class is the       *)
(* child with the number 0.                                                 *)

LEMMA ChildPath ==
  ASSUME NEW m \in AllMembers, NEW n \in Nat
  PROVE  /\ m.of \in Objects /\ m.name \in STRING /\ Len(m.of) \in Nat
         /\ Child(m, n) \in Objects /\ Child(m, n) # <<>>
         /\ Len(Child(m, n)) = Len(m.of) + 1
         /\ Child(m, n)[Len(m.of) + 1] = [name |-> m.name, n |-> n]
         /\ SubSeq(Child(m, n), 1, Len(m.of)) = m.of
         /\ MemberAt(Child(m, n), Len(m.of) + 1) = m
         /\ ClassOf(Child(m, n)) = Append(ClassOf(m.of), m.name)
         /\ \A k \in 1 .. Len(m.of) : /\ MemberAt(Child(m, n), k) = MemberAt(m.of, k)
                                      /\ Child(m, n)[k] = m.of[k]
<1> DEFINE o == m.of
           e == [name |-> m.name, n |-> n]
           p == Append(o, e)
<1>1. o \in Objects /\ m.name \in STRING /\ m = [of |-> o, name |-> m.name]
  BY DEF AllMembers
<1>2. e \in Steps
  BY <1>1 DEF Steps
<1>3. Len(o) \in Nat
  BY <1>1, PathFacts
<1>4. m = Member(o, m.name)
  BY <1>1 DEF Member
<1>5. Child(m, n) = p
  BY DEF Child
<1> HIDE DEF o
<1>6. ClassOf(p) = Append(ClassOf(o), m.name)
  BY <1>1, ClassOfLonger
<1>7. /\ MemberAt(p, Len(o) + 1) = Member(o, m.name)
      /\ \A k \in 1 .. Len(o) : MemberAt(p, k) = MemberAt(o, k) /\ p[k] = o[k]
  BY <1>1, MemberAtLonger
<1> HIDE DEF e
<1>8. /\ p \in Objects /\ Len(p) = Len(o) + 1 /\ p[Len(o) + 1] = e /\ SubSeq(p, 1, Len(o)) = o
  BY <1>1, <1>2, LongerPath
<1> HIDE DEF p
<1>9. p # <<>>
  BY <1>3, <1>8
<1> USE DEF o
<1> QED
  BY <1>1, <1>3, <1>4, <1>5, <1>6, <1>7, <1>8, <1>9 DEF e

(* A path has one last member and one number.                               *)
LEMMA SameChild ==
  ASSUME NEW m \in AllMembers, NEW n \in Nat, NEW w \in AllMembers, NEW k \in Nat,
         Child(m, n) = Child(w, k)
  PROVE  m = w /\ n = k
<1>1. /\ Len(Child(m, n)) = Len(m.of) + 1 /\ Len(m.of) \in Nat
      /\ MemberAt(Child(m, n), Len(m.of) + 1) = m
      /\ Child(m, n)[Len(m.of) + 1] = [name |-> m.name, n |-> n]
  BY ChildPath
<1>2. /\ Len(Child(w, k)) = Len(w.of) + 1 /\ Len(w.of) \in Nat
      /\ MemberAt(Child(w, k), Len(w.of) + 1) = w
      /\ Child(w, k)[Len(w.of) + 1] = [name |-> w.name, n |-> k]
  BY ChildPath
<1>3. Len(m.of) = Len(w.of)
  BY <1>1, <1>2
<1>4. m = w
  BY <1>1, <1>2, <1>3
<1>5. [name |-> m.name, n |-> n].n = [name |-> w.name, n |-> k].n
  BY <1>1, <1>2, <1>3
<1> QED
  BY <1>4, <1>5

(* The object of a class.                                                   *)
LEMMA ClassIsChild ==
  ASSUME NEW m
  PROVE  ClassObject(m) = Child(m, 0)
  BY DEF ClassObject, Child

(* The member that a step goes into.                                        *)
LEMMA MemberAtFacts ==
  ASSUME NEW o \in Objects, NEW k \in 1 .. Len(o)
  PROVE  /\ MemberAt(o, k) \in AllMembers
         /\ MemberAt(o, k).of = SubSeq(o, 1, k - 1) /\ Len(MemberAt(o, k).of) = k - 1
         /\ MemberAt(o, k).name = o[k].name /\ o[k].n \in Nat /\ k \in Nat \ {0}
         /\ SubSeq(o, 1, k) = Child(MemberAt(o, k), o[k].n)
<1>1. Len(o) \in Nat
  BY PathFacts
<1>2. k - 1 \in 0 .. Len(o) /\ k \in 0 .. Len(o) /\ k \in 1 .. k /\ k - 1 \in 0 .. k /\ k \in Nat \ {0}
  BY <1>1
<1>3. SubSeq(o, 1, k - 1) \in Objects /\ Len(SubSeq(o, 1, k - 1)) = k - 1
  BY <1>2, PathFacts
<1>4. o[k].name \in STRING /\ o[k].n \in Nat /\ o[k] = [name |-> o[k].name, n |-> o[k].n]
  BY PathFacts
<1>5. /\ MemberAt(o, k) \in AllMembers
      /\ MemberAt(o, k).of = SubSeq(o, 1, k - 1)
      /\ MemberAt(o, k).name = o[k].name
  BY <1>3, <1>4 DEF MemberAt, Member, AllMembers
<1> DEFINE p == SubSeq(o, 1, k)
<1>6. p \in Objects /\ Len(p) = k /\ p[k] = o[k]
  BY <1>2, PathFacts
<1>7. SubSeq(p, 1, k - 1) = SubSeq(o, 1, k - 1)
  BY <1>2, SubPath
<1> HIDE DEF p
<1>8. p # <<>>
  BY <1>2, <1>6
<1>9. p = Append(SubSeq(p, 1, k - 1), p[k])
  BY <1>6, <1>8, ShorterPath
<1>10. p = Child(MemberAt(o, k), o[k].n)
  BY <1>4, <1>5, <1>6, <1>7, <1>9 DEF Child
<1> QED
  BY <1>2, <1>3, <1>4, <1>5, <1>10 DEF p

(* A path is its own longest prefix.                                        *)
LEMMA WholePath ==
  ASSUME NEW o \in Objects
  PROVE  SubSeq(o, 1, Len(o)) = o
<1>1. Len(o) \in Nat
  BY PathFacts
<1>2. Len(o) \in 0 .. Len(o)
  BY <1>1
<1>3. /\ SubSeq(o, 1, Len(o)) \in Objects /\ Len(SubSeq(o, 1, Len(o))) = Len(o)
      /\ \A j \in 1 .. Len(o) : SubSeq(o, 1, Len(o))[j] = o[j]
  BY <1>2, PathFacts
<1> QED
  BY <1>3, SameSequence DEF Objects

(* The way of a prefix is the beginning of the way.                         *)
LEMMA MemberAtPrefix ==
  ASSUME NEW o \in Objects, NEW k \in 0 .. Len(o), NEW j \in 1 .. k
  PROVE  MemberAt(SubSeq(o, 1, k), j) = MemberAt(o, j) /\ SubSeq(o, 1, k)[j] = o[j]
<1>1. Len(o) \in Nat
  BY PathFacts
<1>2. j - 1 \in 0 .. k
  BY <1>1
<1>3. SubSeq(SubSeq(o, 1, k), 1, j - 1) = SubSeq(o, 1, j - 1)
  BY <1>2, SubPath
<1>4. SubSeq(o, 1, k)[j] = o[j]
  BY PathFacts
<1> QED
  BY <1>3, <1>4 DEF MemberAt

(* The last step of an object.                                              *)
LEMMA LastStep ==
  ASSUME NEW o \in Objects, o # <<>>
  PROVE  /\ Len(o) \in Nat \ {0} /\ Len(o) \in 1 .. Len(o)
         /\ MemberAt(o, Len(o)) \in AllMembers
         /\ Len(MemberAt(o, Len(o)).of) = Len(o) - 1
         /\ o[Len(o)].n \in Nat
         /\ o = Child(MemberAt(o, Len(o)), o[Len(o)].n)
<1>1. Len(o) \in Nat \ {0}
  BY ShorterPath
<1>2. Len(o) \in 1 .. Len(o)
  BY <1>1
<1> QED
  BY <1>1, <1>2, MemberAtFacts, WholePath

(* What is reached.                                                         *)
LEMMA ReachedChild ==
  ASSUME NEW F, NEW m \in AllMembers, NEW n \in Nat
  PROVE  Reached(F, Child(m, n)) <=> Reached(F, m.of) /\ Goes(F, m, n)
<1> DEFINE p == Child(m, n)
           L == Len(m.of)
<1>1. /\ m.of \in Objects /\ L \in Nat /\ p \in Objects /\ Len(p) = L + 1
      /\ p[L + 1] = [name |-> m.name, n |-> n] /\ MemberAt(p, L + 1) = m
      /\ \A k \in 1 .. L : MemberAt(p, k) = MemberAt(m.of, k) /\ p[k] = m.of[k]
  BY ChildPath
<1> HIDE DEF p
<1>7. p[L + 1].n = n
  BY <1>1
<1>2. \A k \in 1 .. L + 1 : k \in 1 .. L \/ k = L + 1
  BY <1>1
<1>3. \A k \in 1 .. L : k \in 1 .. L + 1
  BY <1>1
<1>4. L + 1 \in 1 .. L + 1
  BY <1>1
<1> HIDE DEF L
<1>5. Reached(F, p) <=> (\A k \in 1 .. L : Goes(F, MemberAt(m.of, k), m.of[k].n)) /\ Goes(F, m, n)
  BY <1>1, <1>2, <1>3, <1>4, <1>7 DEF Reached
<1>6. Reached(F, m.of) <=> \A k \in 1 .. L : Goes(F, MemberAt(m.of, k), m.of[k].n)
  BY <1>1 DEF Reached, L
<1> QED
  BY <1>5, <1>6 DEF p

(* What is reached is reached on the way.                                   *)
LEMMA ReachedPrefix ==
  ASSUME NEW F, NEW o, Reached(F, o), NEW k \in 0 .. Len(o)
  PROVE  Reached(F, SubSeq(o, 1, k))
<1>1. o \in Objects /\ \A j \in 1 .. Len(o) : Goes(F, MemberAt(o, j), o[j].n)
  BY DEF Reached
<1>2. SubSeq(o, 1, k) \in Objects /\ Len(SubSeq(o, 1, k)) = k /\ Len(o) \in Nat
  BY <1>1, PathFacts
<1>3. ASSUME NEW j \in 1 .. k
      PROVE  Goes(F, MemberAt(SubSeq(o, 1, k), j), SubSeq(o, 1, k)[j].n)
  <2>1. j \in 1 .. Len(o)
    BY <1>2
  <2> QED
    BY <1>1, <2>1, MemberAtPrefix
<1> QED
  BY <1>2, <1>3 DEF Reached

(* The top is always reached.                                               *)
LEMMA TopReached ==
  ASSUME NEW F
  PROVE  Reached(F, <<>>) /\ <<>> \in Objects /\ Len(<<>>) = 0
  BY DEF Reached, Objects

(* What lies under an object.                                               *)
LEMMA UnderChild ==
  ASSUME NEW m \in AllMembers, NEW n \in Nat, NEW x \in Objects
  PROVE  Under(Child(m, n), x) <=>
           /\ Len(m.of) + 1 \in 1 .. Len(x)
           /\ MemberAt(x, Len(m.of) + 1) = m
           /\ x[Len(m.of) + 1].n = n
<1> DEFINE L == Len(m.of)
<1>1. L \in Nat /\ Len(Child(m, n)) = L + 1 /\ Len(x) \in Nat
  BY ChildPath, PathFacts
<1>2. Under(Child(m, n), x) <=> L + 1 <= Len(x) /\ SubSeq(x, 1, L + 1) = Child(m, n)
  BY <1>1 DEF Under
<1>3. L + 1 <= Len(x) <=> L + 1 \in 1 .. Len(x)
  BY <1>1
<1>4. ASSUME L + 1 \in 1 .. Len(x)
      PROVE  SubSeq(x, 1, L + 1) = Child(m, n) <=> MemberAt(x, L + 1) = m /\ x[L + 1].n = n
  <2>1. /\ MemberAt(x, L + 1) \in AllMembers /\ x[L + 1].n \in Nat
        /\ SubSeq(x, 1, L + 1) = Child(MemberAt(x, L + 1), x[L + 1].n)
    BY <1>4, MemberAtFacts
  <2> DEFINE w == MemberAt(x, L + 1)
             k == x[L + 1].n
  <2>2. w \in AllMembers /\ k \in Nat /\ SubSeq(x, 1, L + 1) = Child(w, k)
    BY <2>1
  <2> HIDE DEF w, k
  <2>3. Child(w, k) = Child(m, n) => w = m /\ k = n
    BY <2>2, SameChild
  <2>4. Child(w, k) = Child(m, n) <=> w = m /\ k = n
    BY <2>3
  <2> QED
    BY <2>2, <2>4 DEF w, k
<1> QED
  BY <1>2, <1>3, <1>4

(* An object lies under itself, and under the top.                          *)
LEMMA UnderSelf ==
  ASSUME NEW o \in Objects
  PROVE  Under(o, o) /\ Under(<<>>, o)
<1>1. Len(o) \in Nat
  BY PathFacts
<1>2. SubSeq(o, 1, Len(o)) = o
  BY WholePath
<1>3. 0 \in 0 .. Len(o)
  BY <1>1
<1>4. SubSeq(o, 1, 0) = <<>>
  OBVIOUS
<1> QED
  BY <1>1, <1>2, <1>4 DEF Under

(* The members of an object, and what lies under the objects in them.       *)
LEMMA UnderHolder ==
  ASSUME NEW m \in AllMembers, NEW n \in Nat, NEW x \in Objects, Under(Child(m, n), x)
  PROVE  Under(m.of, x)
<1> DEFINE L == Len(m.of)
<1>1. /\ L + 1 \in 1 .. Len(x) /\ MemberAt(x, L + 1) = m
  BY UnderChild
<1>2. MemberAt(x, L + 1).of = SubSeq(x, 1, (L + 1) - 1)
  BY <1>1, MemberAtFacts
<1>3. L \in Nat /\ Len(x) \in Nat
  BY ChildPath, PathFacts
<1>4. (L + 1) - 1 = L
  BY <1>3
<1> QED
  BY <1>1, <1>2, <1>3, <1>4 DEF Under

(* ... either it is a member of the object or under one of these.           *)
LEMMA UnderCases ==
  ASSUME NEW o \in Objects, NEW x \in Objects, Under(o, x)
  PROVE  \/ x = o
         \/ /\ Len(o) + 1 \in 1 .. Len(x)
            /\ MemberAt(x, Len(o) + 1).of = o
            /\ Under(Child(MemberAt(x, Len(o) + 1), x[Len(o) + 1].n), x)
<1>1. Len(o) \in Nat /\ Len(x) \in Nat /\ Len(o) <= Len(x) /\ SubSeq(x, 1, Len(o)) = o
  BY PathFacts DEF Under
<1>2. CASE Len(o) = Len(x)
  BY <1>1, <1>2, WholePath
<1>3. CASE Len(o) # Len(x)
  <2>1. Len(o) + 1 \in 1 .. Len(x) /\ (Len(o) + 1) - 1 = Len(o)
    BY <1>1, <1>3
  <2> DEFINE k == Len(o) + 1
  <2>2. /\ MemberAt(x, k) \in AllMembers /\ MemberAt(x, k).of = SubSeq(x, 1, k - 1)
        /\ x[k].n \in Nat /\ Len(MemberAt(x, k).of) = k - 1
    BY <2>1, MemberAtFacts
  <2>3. MemberAt(x, k).of = o
    BY <1>1, <2>1, <2>2
  <2>4. Under(Child(MemberAt(x, k), x[k].n), x)
    <3>1. Len(MemberAt(x, k).of) + 1 = k
      BY <1>1, <2>3
    <3> QED
      BY <2>1, <2>2, <3>1, UnderChild
  <2> QED
    BY <2>1, <2>3, <2>4
<1> QED
  BY <1>2, <1>3

-----------------------------------------------------------------------------
(* What a file is written from, and which of its members serialize keeps.   *)

LEMMA HasUnique ==
  ASSUME NEW F, Sound(F), NEW m, NEW s, NEW t, Has(F, m, s), Has(F, m, t)
  PROVE  s = t
<1>1. IsProgram(F.schema)
  BY DEF Sound
<1>2. \A k, n \in 1 .. Len(F.schema) :
        F.schema[k].of = F.schema[n].of /\ F.schema[k].name = F.schema[n].name => k = n
  BY <1>1 DEF IsProgram
<1> QED
  BY <1>2 DEF Has

(* A member that was written is kept, and is no class.                      *)
LEMMA WrittenIsKept ==
  ASSUME NEW F, Sound(F), NEW w \in WrittenIn(F)
  PROVE  /\ w \in AllMembers /\ KeptIn(F, w)
         /\ ~Has(F, w, "class")
<1>1. w \in AllMembers /\ Reached(F, w.of) /\ IsMarked(F, w)
  BY DEF Sound, WrittenIn, IsMarked, Above
<1>2. CASE w \in DOMAIN F.children
  <2>1. Has(F, w, "list")
    BY <1>2 DEF Sound
  <2>2. "list" \in AllTypes /\ "list" # "class"
    BY DEF AllTypes
  <2> QED
    BY <1>1, <1>2, <2>1, <2>2, HasUnique DEF KeptIn
<1>3. CASE w \notin DOMAIN F.children
  <2>1. w \in DOMAIN F.values
    BY <1>3 DEF WrittenIn
  <2>2. PICK type \in Simple : Has(F, w, type)
    BY <2>1 DEF Sound
  <2>3. type \in AllTypes /\ type # "list" /\ type # "class"
    BY DEF Simple, AllTypes, Numbers, NumberLists, Strings
  <2> QED
    BY <1>1, <2>2, <2>3, HasUnique DEF KeptIn
<1> QED
  BY <1>2, <1>3

(* A member that is no class is kept because it was written.                *)
LEMMA KeptSimple ==
  ASSUME NEW F, Sound(F), NEW m, KeptIn(F, m), NEW type \in Simple, Has(F, m, type)
  PROVE  m \in DOMAIN F.values /\ m \notin DOMAIN F.children
<1>1. type # "list" /\ type # "class"
  BY DEF Simple, Numbers, NumberLists, Strings
<1>2. IsMarked(F, m) /\ m \in AllMembers
  BY <1>1, HasUnique DEF KeptIn
<1>3. PICK w \in WrittenIn(F) : Above(m, w)
  BY <1>2 DEF IsMarked
<1>4. m = w
  <2> SUFFICES ASSUME m # w PROVE FALSE
    OBVIOUS
  <2> DEFINE k == Len(m.of) + 1
  <2>1. /\ Len(m.of) < Len(w.of) /\ m = MemberAt(w.of, k)
        /\ \A j \in k .. Len(w.of) : w.of[j].n = 0
    BY <1>3 DEF Above
  <2>2. w \in AllMembers /\ Reached(F, w.of)
    BY WrittenIsKept DEF KeptIn
  <2>3. w.of \in Objects /\ m.of \in Objects
    BY <1>2, <2>2 DEF AllMembers
  <2>4. Len(m.of) \in Nat /\ Len(w.of) \in Nat
    BY <2>3, PathFacts
  <2>5. k \in k .. Len(w.of) /\ k \in 1 .. Len(w.of)
    BY <2>1, <2>4
  <2>6. Goes(F, m, w.of[k].n) /\ w.of[k].n = 0
    BY <2>1, <2>2, <2>5 DEF Reached
  <2>7. Has(F, m, "class")
    BY <2>6 DEF Goes
  <2> QED
    BY <1>1, <2>7, HasUnique
<1>5. m \notin DOMAIN F.children
  BY <1>1, HasUnique DEF Sound
<1> QED
  BY <1>3, <1>4, <1>5 DEF WrittenIn

(* A list that is kept has children.                                        *)
LEMMA KeptList ==
  ASSUME NEW F, Sound(F), NEW m, KeptIn(F, m), Has(F, m, "list")
  PROVE  m \in DOMAIN F.children /\ m \notin DOMAIN F.values /\ F.children[m] \in Nat \ {0}
<1>1. \A type \in Simple : type # "list"
  BY DEF Simple, Numbers, NumberLists, Strings
<1>2. m \in DOMAIN F.children
  BY HasUnique DEF KeptIn
<1> QED
  BY <1>1, <1>2, HasUnique DEF Sound

(* A class that is kept has something in it.                                *)
LEMMA KeptClass ==
  ASSUME NEW F, Sound(F), NEW m, KeptIn(F, m), Has(F, m, "class")
  PROVE  /\ m \notin DOMAIN F.children /\ m \notin DOMAIN F.values
         /\ Reached(F, Child(m, 0))
         /\ KeptUnder(F, Child(m, 0)) # {}
<1>1. IsMarked(F, m) /\ m \in AllMembers /\ Reached(F, m.of)
  <2>1. "class" # "list"
    OBVIOUS
  <2> QED
    BY <2>1, HasUnique DEF KeptIn
<1>2. m \notin WrittenIn(F)
  BY WrittenIsKept
<1>3. Reached(F, Child(m, 0))
  BY <1>1, ReachedChild DEF Goes
<1>4. PICK w \in WrittenIn(F) : Above(m, w)
  BY <1>1 DEF IsMarked
<1> DEFINE k == Len(m.of) + 1
<1>5. /\ Len(m.of) < Len(w.of) /\ m = MemberAt(w.of, k)
      /\ \A j \in k .. Len(w.of) : w.of[j].n = 0
  BY <1>2, <1>4 DEF Above
<1>6. w \in AllMembers /\ KeptIn(F, w)
  BY WrittenIsKept
<1>7. w.of \in Objects /\ m.of \in Objects
  BY <1>1, <1>6 DEF AllMembers
<1>8. Len(m.of) \in Nat /\ Len(w.of) \in Nat
  BY <1>7, PathFacts
<1>9. k \in k .. Len(w.of) /\ k \in 1 .. Len(w.of)
  BY <1>5, <1>8
<1>10. Under(Child(m, 0), w.of)
  BY <1>1, <1>5, <1>7, <1>9, UnderChild
<1>11. w \in KeptUnder(F, Child(m, 0))
  BY <1>6, <1>10 DEF KeptUnder
<1> QED
  BY <1>2, <1>3, <1>11 DEF WrittenIn

(* What the member of that name in o, and the objects in it, keep.          *)
EntryName(o, x) == IF x.of = o THEN x.name ELSE x.of[Len(o) + 1].name
KeptFrom(F, o, name) == {x \in KeptUnder(F, o) : EntryName(o, x) = name}

(* What is kept for a name is the member, or under an object of it.         *)
LEMMA FromCases ==
  ASSUME NEW F, NEW m \in AllMembers, NEW x \in KeptFrom(F, m.of, m.name)
  PROVE  /\ KeptIn(F, m)
         /\ \/ x = m
            \/ \E n \in Nat : Goes(F, m, n) /\ x \in KeptUnder(F, Child(m, n))
<1> DEFINE o == m.of
<1>1. x \in AllMembers /\ KeptIn(F, x) /\ Under(o, x.of) /\ EntryName(o, x) = m.name
  BY DEF KeptFrom, KeptUnder
<1>2. /\ x.of \in Objects /\ o \in Objects /\ m.name \in STRING
      /\ m = [of |-> o, name |-> m.name] /\ x = [of |-> x.of, name |-> x.name]
  BY <1>1 DEF AllMembers
<1>3. CASE x.of = o
  <2>1. x.name = m.name
    BY <1>1, <1>3 DEF EntryName
  <2>2. x = m
    BY <1>2, <1>3, <2>1
  <2> QED
    BY <1>1, <2>2
<1>4. CASE x.of # o
  <2> DEFINE k == Len(o) + 1
             w == MemberAt(x.of, k)
             n == x.of[k].n
  <2>1. k \in 1 .. Len(x.of) /\ w.of = o /\ Under(Child(w, n), x.of)
    BY <1>1, <1>2, <1>4, UnderCases
  <2>2. w \in AllMembers /\ w.name = x.of[k].name /\ n \in Nat
    BY <1>2, <2>1, MemberAtFacts
  <2>3. w.name = m.name
    BY <1>1, <1>4, <2>2 DEF EntryName
  <2>4. w = m
    <3>1. w = [of |-> w.of, name |-> w.name]
      BY <2>2 DEF AllMembers
    <3> HIDE DEF w
    <3> QED
      BY <1>2, <2>1, <2>3, <3>1
  <2>5. Reached(F, x.of)
    BY <1>1 DEF KeptIn
  <2>6. Goes(F, m, n)
    BY <2>1, <2>4, <2>5 DEF Reached
  <2>7. x \in KeptUnder(F, Child(m, n))
    BY <1>1, <2>1, <2>4 DEF KeptUnder
  <2>8. Reached(F, o)
    <3>1. Len(o) \in Nat /\ Len(x.of) \in Nat /\ SubSeq(x.of, 1, Len(o)) = o
      BY <1>1, <1>2, PathFacts DEF Under
    <3>2. Len(o) \in 0 .. Len(x.of)
      BY <2>1, <3>1
    <3> QED
      BY <2>5, <3>1, <3>2, ReachedPrefix
  <2> HIDE DEF n, w
  <2>9. KeptIn(F, m)
    <3>1. "class" \in AllTypes /\ "list" \in AllTypes
      BY DEF AllTypes
    <3>2. CASE n = 0
      BY <2>6, <2>8, <3>1, <3>2 DEF Goes, KeptIn
    <3>3. CASE n # 0
      BY <2>6, <2>8, <3>1, <3>3 DEF Goes, KeptIn
    <3> QED
      BY <3>2, <3>3
  <2> QED
    BY <2>2, <2>6, <2>7, <2>9
<1> QED
  BY <1>3, <1>4

(* ... and all that is under these.                                         *)
LEMMA FromUnder ==
  ASSUME NEW F, NEW m \in AllMembers, NEW n \in Nat
  PROVE  /\ KeptUnder(F, Child(m, n)) \subseteq KeptFrom(F, m.of, m.name)
         /\ m \notin KeptUnder(F, Child(m, n))
         /\ KeptIn(F, m) => m \in KeptFrom(F, m.of, m.name)
<1> DEFINE o == m.of
<1>1. o \in Objects /\ Len(o) \in Nat
  BY ChildPath
<1>2. ASSUME NEW x \in KeptUnder(F, Child(m, n))
      PROVE  x \in KeptFrom(F, o, m.name) /\ x # m
  <2>1. x \in AllMembers /\ KeptIn(F, x) /\ Under(Child(m, n), x.of) /\ x.of \in Objects
    BY DEF KeptUnder, AllMembers
  <2>2. Len(o) + 1 \in 1 .. Len(x.of) /\ MemberAt(x.of, Len(o) + 1) = m
    BY <2>1, UnderChild
  <2>3. x.of # o
    BY <1>1, <2>2
  <2>4. MemberAt(x.of, Len(o) + 1).name = x.of[Len(o) + 1].name
    BY <2>1, <2>2, MemberAtFacts
  <2>5. EntryName(o, x) = m.name
    BY <2>2, <2>3, <2>4 DEF EntryName
  <2>6. Under(o, x.of)
    BY <2>1, UnderHolder
  <2> QED
    BY <2>1, <2>3, <2>5, <2>6 DEF KeptFrom, KeptUnder
<1>3. Under(o, o)
  BY <1>1, UnderSelf
<1>4. KeptIn(F, m) => m \in KeptFrom(F, o, m.name)
  BY <1>3 DEF KeptFrom, KeptUnder, EntryName
<1> QED
  BY <1>2, <1>4

(* A simple member.                                                         *)
LEMMA FromSimple ==
  ASSUME NEW F, Sound(F), NEW m, KeptIn(F, m), NEW type \in Simple, Has(F, m, type)
  PROVE  KeptFrom(F, m.of, m.name) = {m}
<1>1. type # "list" /\ type # "class" /\ m \in AllMembers
  BY DEF Simple, Numbers, NumberLists, Strings, KeptIn
<1>2. \A n \in Nat : ~Goes(F, m, n)
  BY <1>1, HasUnique DEF Goes
<1>3. \A x \in KeptFrom(F, m.of, m.name) : x = m
  BY <1>1, <1>2, FromCases
<1>4. 0 \in Nat
  OBVIOUS
<1> QED
  BY <1>1, <1>3, <1>4, FromUnder

(* A class and what is in it.                                               *)
LEMMA FromClass ==
  ASSUME NEW F, Sound(F), NEW m, KeptIn(F, m), Has(F, m, "class")
  PROVE  KeptFrom(F, m.of, m.name) = {m} \union KeptUnder(F, Child(m, 0))
<1>1. m \in AllMembers /\ 0 \in Nat
  BY DEF KeptIn
<1>2. \A n \in Nat : Goes(F, m, n) => n = 0
  BY HasUnique DEF Goes
<1>3. \A x \in KeptFrom(F, m.of, m.name) : x = m \/ x \in KeptUnder(F, Child(m, 0))
  BY <1>1, <1>2, FromCases
<1> QED
  BY <1>1, <1>3, FromUnder

(* A list and what is in its children.                                      *)
LEMMA FromList ==
  ASSUME NEW F, Sound(F), NEW m, KeptIn(F, m), Has(F, m, "list")
  PROVE  KeptFrom(F, m.of, m.name) =
           {m} \union UNION {KeptUnder(F, Child(m, n)) : n \in 1 .. F.children[m]}
<1>1. m \in AllMembers
  BY DEF KeptIn
<1>2. F.children[m] \in Nat
  BY KeptList
<1>3. \A n \in Nat : Goes(F, m, n) => n \in 1 .. F.children[m]
  BY <1>2, HasUnique DEF Goes
<1>4. \A x \in KeptFrom(F, m.of, m.name) :
        x = m \/ \E n \in 1 .. F.children[m] : x \in KeptUnder(F, Child(m, n))
  BY <1>1, <1>3, FromCases
<1>5. \A n \in 1 .. F.children[m] : n \in Nat
  BY <1>2
<1>6. m \in KeptFrom(F, m.of, m.name)
  <2>1. 0 \in Nat
    OBVIOUS
  <2> QED
    BY <1>1, <2>1, FromUnder
<1>7. \A n \in 1 .. F.children[m] : KeptUnder(F, Child(m, n)) \subseteq KeptFrom(F, m.of, m.name)
  BY <1>1, <1>5, FromUnder
<1> QED
  BY <1>4, <1>6, <1>7

(* A member that is not kept.                                               *)
LEMMA FromNone ==
  ASSUME NEW F, NEW m \in AllMembers, ~KeptIn(F, m)
  PROVE  KeptFrom(F, m.of, m.name) = {}
  BY FromCases

(* The children of a list have nothing in common.                           *)
LEMMA ChildrenApart ==
  ASSUME NEW F, NEW m \in AllMembers, NEW n \in Nat, NEW k \in Nat, n # k
  PROVE  KeptUnder(F, Child(m, n)) \cap KeptUnder(F, Child(m, k)) = {}
<1> SUFFICES ASSUME NEW x \in KeptUnder(F, Child(m, n)), x \in KeptUnder(F, Child(m, k))
             PROVE  FALSE
  OBVIOUS
<1>1. x.of \in Objects /\ Under(Child(m, n), x.of) /\ Under(Child(m, k), x.of)
  BY DEF KeptUnder, AllMembers
<1>2. x.of[Len(m.of) + 1].n = n /\ x.of[Len(m.of) + 1].n = k
  BY <1>1, UnderChild
<1> QED
  BY <1>2

-----------------------------------------------------------------------------
(* The tokens that serialize writes are a run of the reader.                *)

LEMMA NoEnd ==
  ASSUME NEW x, NEW y
  PROVE  [type |-> x, name |-> y] # End /\ [value |-> x] # End /\ [count |-> x] # End
<1>1. /\ DOMAIN [type |-> x, name |-> y] = {"type", "name"}
      /\ DOMAIN [value |-> x] = {"value"} /\ DOMAIN [count |-> x] = {"count"}
      /\ DOMAIN End = {"end"}
  BY DEF End
<1>2. {"type", "name"} # {"end"} /\ {"value"} # {"end"} /\ {"count"} # {"end"}
  OBVIOUS
<1> QED
  BY <1>1, <1>2

(* The fields of the places.                                                *)
LEMMA InAnObject ==
  ASSUME NEW o
  PROVE  /\ InObject(FrontOf(o)) /\ FrontOf(o).of = o /\ FrontOf(o).kind = "front"
         /\ InObject(In(o)) /\ In(o).of = o /\ In(o).kind = "object"
         /\ ~InObject(ValueOf(o)) /\ ValueOf(o).of = o /\ ValueOf(o).kind = "value"
         /\ ~InObject(CountOf(o)) /\ CountOf(o).of = o /\ CountOf(o).kind = "count"
  BY DEF InObject, FrontOf, In, ValueOf, CountOf

(* Where an End leads.                                                      *)
LEMMA AfterEndOf ==
  ASSUME NEW F, NEW m \in AllMembers, NEW n \in Nat
  PROVE  AfterEnd(F, Child(m, n)) =
           IF n = 0 \/ n = F.children[m] THEN In(m.of) ELSE FrontOf(Child(m, n + 1))
<1>1. /\ MemberAt(Child(m, n), Len(m.of) + 1) = m /\ Len(Child(m, n)) = Len(m.of) + 1
      /\ Child(m, n)[Len(m.of) + 1] = [name |-> m.name, n |-> n]
  BY ChildPath
<1>2. Child(m, n)[Len(Child(m, n))].n = n /\ MemberAt(Child(m, n), Len(Child(m, n))) = m
  BY <1>1
<1> QED
  BY <1>2 DEF AfterEnd

(* The children of a list, one after the other.                             *)
ChildrenKept(F, m) == UNION {KeptUnder(F, Child(m, n)) : n \in 1 .. F.children[m]}
ChildRuns(F, m, ss) ==
  \A n \in 1 .. F.children[m] :
    Runs(F, FrontOf(Child(m, n)), ss[n], AfterEnd(F, Child(m, n)), KeptUnder(F, Child(m, n)))

(* Their tokens, flattened, are a run.                                      *)
LEMMA ChildrenRun ==
  ASSUME NEW F, Sound(F), NEW m, KeptIn(F, m), Has(F, m, "list"),
         NEW ss, Len(ss) = F.children[m], ChildRuns(F, m, ss)
  PROVE  Runs(F, FrontOf(Child(m, 1)), FlattenSeq(ss), In(m.of), ChildrenKept(F, m))
<1> DEFINE c == F.children[m]
           After(n) == IF n = c THEN In(m.of) ELSE FrontOf(Child(m, n + 1))
           Part(n) == KeptUnder(F, Child(m, n))
           Upto(n) == UNION {Part(j) : j \in 1 .. n}
<1>1. c \in Nat \ {0} /\ m \in AllMembers
  BY KeptList DEF KeptIn
<1>2. PICK g : FlatTable(g, ss, c) /\ FlattenSeq(ss) = g[c]
  BY <1>1, Flattened
<1>3. ASSUME NEW n \in 1 .. c
      PROVE  /\ Runs(F, FrontOf(Child(m, n)), ss[n], After(n), Part(n))
             /\ g[n] = IF n = 1 THEN ss[n] ELSE g[n - 1] \o ss[n]
  <2>1. n \in Nat /\ n # 0
    BY <1>1
  <2>2. AfterEnd(F, Child(m, n)) = After(n)
    BY <1>1, <2>1, AfterEndOf
  <2>4. Runs(F, FrontOf(Child(m, n)), ss[n], AfterEnd(F, Child(m, n)), Part(n))
    BY DEF ChildRuns
  <2>3. g[n] = IF n = 1 THEN ss[n] ELSE g[n - 1] \o ss[n]
    BY <1>2 DEF FlatTable
  <2> HIDE DEF After
  <2> QED
    BY <2>2, <2>3, <2>4
<1>4. Upto(1) = Part(1)
  <2>1. \A j \in 1 .. 1 : j = 1
    OBVIOUS
  <2>2. 1 \in 1 .. 1
    OBVIOUS
  <2> HIDE DEF Part
  <2> QED
    BY <2>1, <2>2
<1>5. \A n \in Nat : Upto(n + 1) = Upto(n) \union Part(n + 1)
  <2> TAKE n \in Nat
  <2>1. \A j : j \in 1 .. n + 1 <=> j \in 1 .. n \/ j = n + 1
    OBVIOUS
  <2> HIDE DEF Part
  <2> QED
    BY <2>1
<1>6. \A n \in Nat : Upto(n) \cap Part(n + 1) = {}
  <2> TAKE n \in Nat
  <2>1. ASSUME NEW j \in 1 .. n
        PROVE  Part(j) \cap Part(n + 1) = {}
    <3>1. j \in Nat /\ n + 1 \in Nat /\ j # n + 1
      OBVIOUS
    <3> QED
      BY <1>1, <3>1, ChildrenApart
  <2> HIDE DEF Part
  <2> QED
    BY <2>1
<1> DEFINE Q == {n \in Nat : n < c => Runs(F, FrontOf(Child(m, 1)), g[n + 1], After(n + 1), Upto(n + 1))}
<1> HIDE DEF Part, Upto
<1>7. 0 \in Q
  <2>1. 1 \in 1 .. c /\ 0 + 1 = 1
    BY <1>1
  <2> HIDE DEF After
  <2> QED
    BY <1>3, <1>4, <2>1
<1>8. ASSUME NEW n \in Nat, n \in Q
      PROVE  n + 1 \in Q
  <2> SUFFICES ASSUME n + 1 < c
               PROVE  Runs(F, FrontOf(Child(m, 1)), g[(n + 1) + 1], After((n + 1) + 1), Upto((n + 1) + 1))
    OBVIOUS
  <2>1. /\ n < c /\ n + 1 # c /\ (n + 1) + 1 \in 1 .. c /\ (n + 1) + 1 # 1
        /\ ((n + 1) + 1) - 1 = n + 1 /\ n + 1 \in Nat
    BY <1>1
  <2>2. Runs(F, FrontOf(Child(m, 1)), g[n + 1], After(n + 1), Upto(n + 1))
    BY <1>8, <2>1
  <2>3. After(n + 1) = FrontOf(Child(m, (n + 1) + 1))
    BY <2>1
  <2>4. g[(n + 1) + 1] = g[n + 1] \o ss[(n + 1) + 1]
    BY <1>3, <2>1
  <2>5. Runs(F, FrontOf(Child(m, (n + 1) + 1)), ss[(n + 1) + 1], After((n + 1) + 1), Part((n + 1) + 1))
    BY <1>3, <2>1
  <2>6. /\ Upto((n + 1) + 1) = Upto(n + 1) \union Part((n + 1) + 1)
        /\ Upto(n + 1) \cap Part((n + 1) + 1) = {}
    BY <1>5, <1>6, <2>1
  <2> HIDE DEF After
  <2> QED
    BY <2>2, <2>3, <2>4, <2>5, <2>6, RunsJoin
<1> HIDE DEF Q
<1>9. c - 1 \in Q
  <2>1. c - 1 \in Nat
    BY <1>1
  <2> QED
    BY <1>7, <1>8, <2>1, Induction
<1>10. c - 1 < c /\ (c - 1) + 1 = c
  BY <1>1
<1>11. Runs(F, FrontOf(Child(m, 1)), g[c], After(c), Upto(c))
  BY <1>9, <1>10 DEF Q
<1> QED
  BY <1>2, <1>11 DEF Upto, Part, ChildrenKept

(* The object that is written now.                                          *)
Now == [schema |-> schema, values |-> values, children |-> children]

Ended(F, bytes, o) ==
  Runs(F, FrontOf(o), Append(bytes[o], End), AfterEnd(F, o), KeptUnder(F, o))

(* A member.                                                                *)
LEMMA MemberRun ==
  ASSUME Sound(Now), NEW m, KeptIn(Now, m), NEW r, r.name = m.name, r.type \in AllTypes,
         Has(Now, m, r.type), NEW a, InObject(a), a.of = m.of, NEW bytes,
         \A n \in Nat : Reached(Now, Child(m, n)) => Ended(Now, bytes, Child(m, n))
  PROVE  Runs(Now, a, SerializedMember(m, r, bytes), In(m.of), KeptFrom(Now, m.of, m.name))
<1> DEFINE F == Now
           t == [type |-> r.type, name |-> r.name]
<1>1. m \in AllMembers /\ Reached(F, m.of) /\ m = Member(m.of, m.name)
  BY DEF KeptIn, AllMembers, Member
<1>2. Runs(F, a, Tagged(r), AfterTag(m, r.type), {m})
  <2>1. TagStep(F, a, t, AfterTag(m, r.type))
    BY <1>1 DEF TagStep, TagOf
  <2>2. t # End /\ t.name = m.name
    BY NoEnd
  <2>3. OneTagged(a, t) = {m}
    BY <1>1, <2>2 DEF OneTagged
  <2>4. ReaderStep(F, a, t, AfterTag(m, r.type))
    BY <2>1 DEF ReaderStep
  <2> HIDE DEF t
  <2>5. Runs(F, a, <<t>>, AfterTag(m, r.type), {m})
    BY <2>3, <2>4, OneRuns
  <2> QED
    BY <2>5 DEF Tagged, t
<1>3. CASE r.type = "list"
  <2>1. m \in DOMAIN F.children /\ F.children[m] \in Nat \ {0}
    BY <1>3, KeptList
  <2>2. ChildCount(m) = F.children[m]
    BY <2>1 DEF ChildCount, Now
  <2> DEFINE c == F.children[m]
             ss == [n \in 1 .. c |-> Append(bytes[Child(m, n)], End)]
             U == ChildrenKept(F, m)
  <2>3. ASSUME NEW n \in 1 .. c
        PROVE  Ended(F, bytes, Child(m, n))
    <3>1. n \in Nat /\ n # 0 /\ n <= c
      BY <2>1
    <3>2. Reached(F, Child(m, n))
      BY <1>1, <1>3, <2>1, <3>1, ReachedChild DEF Goes
    <3> QED
      BY <3>1, <3>2
  <2>4. Runs(F, FrontOf(Child(m, 1)), FlattenSeq(ss), In(m.of), U)
    <3>1. Len(ss) = c
      BY <2>1
    <3>2. ChildRuns(F, m, ss)
      BY <2>3 DEF Ended, ChildRuns
    <3>3. Has(F, m, "list")
      BY <1>3
    <3> HIDE DEF ss
    <3> QED
      BY <3>1, <3>2, <3>3, ChildrenRun
  <2>5. Runs(F, CountOf(m), <<[count |-> c]>>, FrontOf(Child(m, 1)), {})
    <3>1. CountStep(F, CountOf(m), [count |-> c], FrontOf(Child(m, 1)))
      BY <2>1, InAnObject DEF CountStep
    <3>2. OneTagged(CountOf(m), [count |-> c]) = {}
      BY InAnObject DEF OneTagged
    <3> QED
      BY <3>1, <3>2, OneRuns DEF ReaderStep
  <2>6. AfterTag(m, r.type) = CountOf(m)
    BY <1>3 DEF AfterTag
  <2>7. m \notin U
    <3>1. \A n \in 1 .. c : n \in Nat
      BY <2>1
    <3> QED
      BY <1>1, <3>1, FromUnder DEF ChildrenKept
  <2> HIDE DEF U, ss
  <2>8. Runs(F, CountOf(m), <<[count |-> c]>> \o FlattenSeq(ss), In(m.of), {} \union U)
    BY <2>4, <2>5, RunsJoin
  <2>9. Runs(F, a, Tagged(r) \o (<<[count |-> c]>> \o FlattenSeq(ss)), In(m.of), {m} \union ({} \union U))
    BY <1>2, <2>6, <2>7, <2>8, RunsJoin
  <2>10. {m} \union ({} \union U) = KeptFrom(F, m.of, m.name)
    BY <1>3, FromList DEF U, ChildrenKept
  <2>11. SerializedMember(m, r, bytes) = Tagged(r) \o (<<[count |-> c]>> \o FlattenSeq(ss))
    BY <1>3, <2>2 DEF SerializedMember, ss
  <2> QED
    BY <2>9, <2>10, <2>11
<1>4. CASE r.type = "class"
  <2>1. Has(F, m, "class")
    BY <1>4
  <2>2. Reached(F, Child(m, 0)) /\ 0 \in Nat
    BY <2>1, KeptClass
  <2>3. Ended(F, bytes, Child(m, 0))
    BY <2>2
  <2>4. AfterEnd(F, Child(m, 0)) = In(m.of)
    BY <1>1, <2>2, AfterEndOf
  <2>5. AfterTag(m, r.type) = FrontOf(Child(m, 0))
    BY <1>4, ClassIsChild DEF AfterTag
  <2>6. m \notin KeptUnder(F, Child(m, 0))
    BY <1>1, <2>2, FromUnder
  <2>7. KeptFrom(F, m.of, m.name) = {m} \union KeptUnder(F, Child(m, 0))
    BY <2>1, FromClass
  <2>8. SerializedMember(m, r, bytes) = Tagged(r) \o Append(bytes[Child(m, 0)], End)
    BY <1>4, ClassIsChild DEF SerializedMember
  <2>9. Runs(F, FrontOf(Child(m, 0)), Append(bytes[Child(m, 0)], End), In(m.of), KeptUnder(F, Child(m, 0)))
    BY <2>3, <2>4 DEF Ended
  <2>10. {m} \cap KeptUnder(F, Child(m, 0)) = {}
    BY <2>6
  <2> QED
    BY <1>2, <2>5, <2>7, <2>8, <2>9, <2>10, RunsJoin
<1>5. CASE r.type \notin {"class", "list"}
  <2>1. r.type \in Simple
    BY <1>5 DEF AllTypes, Simple
  <2>2. m \in DOMAIN F.values
    BY <2>1, KeptSimple
  <2>3. KeptFrom(F, m.of, m.name) = {m}
    BY <2>1, FromSimple
  <2>4. AfterTag(m, r.type) = ValueOf(m)
    BY <1>5 DEF AfterTag
  <2>5. Runs(F, ValueOf(m), <<[value |-> F.values[m]]>>, In(m.of), {})
    <3>1. ValueStep(F, ValueOf(m), [value |-> F.values[m]], In(m.of))
      BY <2>2, InAnObject DEF ValueStep
    <3>2. OneTagged(ValueOf(m), [value |-> F.values[m]]) = {}
      BY InAnObject DEF OneTagged
    <3> QED
      BY <3>1, <3>2, OneRuns DEF ReaderStep
  <2>6. SerializedMember(m, r, bytes) = Tagged(r) \o <<[value |-> F.values[m]]>>
    BY <1>5 DEF SerializedMember, Now
  <2>7. Runs(F, a, Tagged(r) \o <<[value |-> F.values[m]]>>, In(m.of), {m} \union {})
    BY <1>2, <2>4, <2>5, RunsJoin
  <2>8. {m} \union {} = {m}
    OBVIOUS
  <2> QED
    BY <2>3, <2>6, <2>7, <2>8
<1> QED
  BY <1>3, <1>4, <1>5

-----------------------------------------------------------------------------
(* An object, when the marks of the members are those that update_exist     *)
(* owes to what was written.                                                *)
Writable ==
  /\ Sound(Now)
  /\ \A m \in AllMembers : m \in exist <=> IsMarked(Now, m)
  /\ \A m \in DOMAIN children : children[m] <= MaxChildren

(* The fields of Now.                                                       *)
LEMMA NowParts == Now.schema = schema /\ Now.values = values /\ Now.children = children
  BY DEF Now

(* What can be written has the rules of a program.                          *)
LEMMA WritableProgram ==
  ASSUME Writable
  PROVE  Sound(Now) /\ IsProgram(schema)
  BY NowParts DEF Writable, Sound

(* The rules of a program.                                                  *)
LEMMA RulesAre ==
  ASSUME IsProgram(schema)
  PROVE  /\ Len(schema) \in Nat
         /\ \A k \in 1 .. Len(schema) :
              /\ schema[k].of \in Seq(STRING) /\ schema[k].name \in STRING
              /\ schema[k].type \in AllTypes /\ schema[k].exist \in BOOLEAN
         /\ \A k, n \in 1 .. Len(schema) :
              schema[k].of = schema[n].of /\ schema[k].name = schema[n].name => k = n
<1> DEFINE R == [of : Seq(STRING), name : STRING, type : AllTypes, exist : BOOLEAN]
<1>2. schema \in Seq(R)
  BY DEF IsProgram
<1> HIDE DEF R
<1>3. Len(schema) \in Nat /\ \A k \in 1 .. Len(schema) : schema[k] \in R
  BY <1>2
<1>7. \A r \in R : r.of \in Seq(STRING) /\ r.name \in STRING /\ r.type \in AllTypes /\ r.exist \in BOOLEAN
  BY DEF R
<1>6. \A k, n \in 1 .. Len(schema) :
        schema[k].of = schema[n].of /\ schema[k].name = schema[n].name => k = n
  BY DEF IsProgram
<1> QED
  BY <1>3, <1>6, <1>7

(* The rule of a member.                                                    *)
LEMMA RuleIs ==
  ASSUME IsProgram(schema), NEW m, NEW k \in RulesOf(m.of), schema[k].name = m.name
  PROVE  /\ HasRule(m) /\ get_rule(m) = schema[k] /\ Has(Now, m, schema[k].type)
         /\ schema[k].type \in AllTypes
<1>1. k \in 1 .. Len(schema) /\ schema[k].of = ClassOf(m.of)
  BY DEF RulesOf
<1>2. \A n \in RulesOf(m.of) : schema[n].name = m.name => n = k
  BY <1>1, RulesAre DEF RulesOf
<1>3. (CHOOSE n \in RulesOf(m.of) : schema[n].name = m.name) = k
  BY <1>2
<1> QED
  BY <1>1, <1>3, RulesAre, NowParts DEF HasRule, get_rule, Has

(* get_rule finds the rule that there is.                                   *)
LEMMA HasIsRule ==
  ASSUME IsProgram(schema), NEW m, NEW type, Has(Now, m, type)
  PROVE  /\ HasRule(m) /\ get_rule(m).type = type /\ type \in AllTypes
         /\ \E k \in RulesOf(m.of) : schema[k].name = m.name /\ schema[k].type = type
<1>1. PICK k \in 1 .. Len(schema) :
        schema[k].of = ClassOf(m.of) /\ schema[k].name = m.name /\ schema[k].type = type
  BY NowParts DEF Has
<1>2. k \in RulesOf(m.of)
  BY <1>1 DEF RulesOf
<1> QED
  BY <1>1, <1>2, RuleIs

(* Kept, which write asks, is KeptIn.                                       *)
LEMMA KeptIs ==
  ASSUME Writable, NEW m \in AllMembers, Reached(Now, m.of), HasRule(m)
  PROVE  Kept(m) <=> KeptIn(Now, m)
<1>1. PICK k \in RulesOf(m.of) : schema[k].name = m.name
  BY DEF HasRule
<1> DEFINE type == schema[k].type
<1>2. get_rule(m).type = type /\ Has(Now, m, type) /\ type \in AllTypes
  BY <1>1, WritableProgram, RuleIs
<1>3. Sound(Now)
  BY DEF Writable
<1> HIDE DEF type
<1>4. KeptIn(Now, m) <=> IF type = "list" THEN m \in DOMAIN children ELSE IsMarked(Now, m)
  BY <1>2, <1>3, HasUnique, NowParts DEF KeptIn
<1>5. m \in DOMAIN children => children[m] \in Nat \ {0}
  BY <1>3, NowParts DEF Sound
<1>6. ChildCount(m) > 0 <=> m \in DOMAIN children
  BY <1>5 DEF ChildCount
<1>7. m \in exist <=> IsMarked(Now, m)
  BY DEF Writable
<1> QED
  BY <1>2, <1>4, <1>6, <1>7 DEF Kept

(* Whatever lies under an object lies in or under a member that is kept.    *)
LEMMA EntryIsKept ==
  ASSUME NEW F, NEW o \in Objects, NEW x \in KeptUnder(F, o)
  PROVE  /\ Member(o, EntryName(o, x)) \in AllMembers
         /\ KeptIn(F, Member(o, EntryName(o, x)))
<1>1. x \in AllMembers /\ Under(o, x.of) /\ x.of \in Objects /\ x.name \in STRING
  BY DEF KeptUnder, AllMembers
<1>2. EntryName(o, x) \in STRING
  <2>1. CASE x.of = o
    BY <1>1, <2>1 DEF EntryName
  <2>2. CASE x.of # o
    <3>1. Len(o) + 1 \in 1 .. Len(x.of)
      BY <1>1, <2>2, UnderCases
    <3>2. x.of[Len(o) + 1].name \in STRING
      BY <1>1, <3>1, PathFacts
    <3> QED
      BY <2>2, <3>2 DEF EntryName
  <2> QED
    BY <2>1, <2>2
<1> DEFINE m == Member(o, EntryName(o, x))
<1>3. m \in AllMembers /\ m.of = o /\ m.name = EntryName(o, x)
  BY <1>2 DEF Member, AllMembers
<1>4. x \in KeptFrom(F, o, EntryName(o, x))
  BY DEF KeptFrom
<1> HIDE DEF m
<1>5. KeptIn(F, m)
  BY <1>3, <1>4, FromCases
<1> QED
  BY <1>3, <1>5 DEF m

(* What the rules up to the k-th keep in o.                                 *)
KeptUpto(o, k) ==
  {x \in KeptUnder(Now, o) :
     \E j \in 1 .. k : schema[j].of = ClassOf(o) /\ schema[j].name = EntryName(o, x)}
KeptBy(o, k) == IF k \in RulesOf(o) THEN KeptFrom(Now, o, schema[k].name) ELSE {}

(* The next rule adds its own, and nothing twice.                           *)
LEMMA UptoNext ==
  ASSUME Writable, NEW o, NEW k \in Nat, k + 1 <= Len(schema)
  PROVE  /\ KeptUpto(o, k + 1) = KeptUpto(o, k) \union KeptBy(o, k + 1)
         /\ KeptUpto(o, k) \cap KeptBy(o, k + 1) = {}
         /\ KeptUpto(o, 0) = {}
<1>1. k + 1 \in 1 .. Len(schema) /\ \A j \in 1 .. k : j \in 1 .. Len(schema) /\ j # k + 1
  BY WritableProgram, RulesAre
<1>2. \A j : j \in 1 .. k + 1 <=> j \in 1 .. k \/ j = k + 1
  OBVIOUS
<1>3. k + 1 \in RulesOf(o) <=> schema[k + 1].of = ClassOf(o)
  BY <1>1 DEF RulesOf
<1>4. \A x : x \in KeptBy(o, k + 1) <=>
        x \in KeptUnder(Now, o) /\ schema[k + 1].of = ClassOf(o) /\ schema[k + 1].name = EntryName(o, x)
  BY <1>3 DEF KeptBy, KeptFrom
<1>5. \A x : x \in KeptUpto(o, k + 1) <=> x \in KeptUpto(o, k) \/ x \in KeptBy(o, k + 1)
  BY <1>2, <1>4 DEF KeptUpto
<1>6. ASSUME NEW x, x \in KeptUpto(o, k), x \in KeptBy(o, k + 1)
      PROVE  FALSE
  <2>1. PICK j \in 1 .. k : schema[j].of = ClassOf(o) /\ schema[j].name = EntryName(o, x)
    BY <1>6 DEF KeptUpto
  <2>2. schema[k + 1].of = ClassOf(o) /\ schema[k + 1].name = EntryName(o, x)
    BY <1>4, <1>6
  <2> QED
    BY <1>1, <2>1, <2>2, WritableProgram, RulesAre
<1>7. KeptUpto(o, 0) = {}
  BY DEF KeptUpto
<1> QED
  BY <1>5, <1>6, <1>7

(* All the rules together keep everything.                                  *)
LEMMA UptoAll ==
  ASSUME Writable, NEW o \in Objects
  PROVE  KeptUpto(o, Len(schema)) = KeptUnder(Now, o)
<1> SUFFICES ASSUME NEW x \in KeptUnder(Now, o)
             PROVE  \E j \in 1 .. Len(schema) :
                      schema[j].of = ClassOf(o) /\ schema[j].name = EntryName(o, x)
  BY DEF KeptUpto
<1> DEFINE m == Member(o, EntryName(o, x))
<1>1. KeptIn(Now, m)
  BY EntryIsKept
<1>2. PICK type : Has(Now, m, type)
  BY <1>1 DEF KeptIn
<1>3. m.of = o /\ m.name = EntryName(o, x)
  BY DEF Member
<1> QED
  BY <1>2, <1>3, NowParts DEF Has

(* The objects in o are written as runs.                                    *)
EndedIn(o, bytes) ==
  \A m \in AllMembers : \A n \in Nat :
    m.of = o /\ Reached(Now, Child(m, n)) => Ended(Now, bytes, Child(m, n))

Segment(o, bytes, k) ==
  IF k \in RulesOf(o) /\ Kept(Member(o, schema[k].name))
    THEN SerializedMember(Member(o, schema[k].name), schema[k], bytes) ELSE <<>>

(* The members of one rule.                                                 *)
LEMMA SegmentRuns ==
  ASSUME Writable, NEW o, Reached(Now, o), NEW bytes, EndedIn(o, bytes),
         NEW k \in 1 .. Len(schema), NEW a, InObject(a), a.of = o
  PROVE  \E b : /\ InObject(b) /\ b.of = o
                /\ b.kind = "front" => b = a /\ KeptBy(o, k) = {}
                /\ Runs(Now, a, Segment(o, bytes, k), b, KeptBy(o, k))
<1> DEFINE m == Member(o, schema[k].name)
<1>1. o \in Objects /\ schema[k].name \in STRING
  BY WritableProgram, RulesAre DEF Reached
<1>2. m \in AllMembers /\ m.of = o /\ m.name = schema[k].name
  BY <1>1 DEF Member, AllMembers
<1> HIDE DEF m
<1>3. CASE k \in RulesOf(o) /\ Kept(m)
  <2>1. HasRule(m) /\ Has(Now, m, schema[k].type) /\ schema[k].type \in AllTypes
    BY <1>2, <1>3, WritableProgram, RuleIs
  <2>2. KeptIn(Now, m)
    BY <1>2, <1>3, <2>1, KeptIs
  <2>3. \A n \in Nat : Reached(Now, Child(m, n)) => Ended(Now, bytes, Child(m, n))
    BY <1>2 DEF EndedIn
  <2>4. Sound(Now)
    BY DEF Writable
  <2>5. Runs(Now, a, SerializedMember(m, schema[k], bytes), In(m.of), KeptFrom(Now, m.of, m.name))
    BY <1>2, <2>1, <2>2, <2>3, <2>4, MemberRun
  <2>6. Segment(o, bytes, k) = SerializedMember(m, schema[k], bytes)
    BY <1>3 DEF Segment, m
  <2>7. KeptBy(o, k) = KeptFrom(Now, m.of, m.name)
    BY <1>2, <1>3 DEF KeptBy
  <2>8. Runs(Now, a, Segment(o, bytes, k), In(o), KeptBy(o, k))
    BY <1>2, <2>5, <2>6, <2>7
  <2>9. InObject(In(o)) /\ In(o).of = o /\ In(o).kind # "front"
    BY InAnObject
  <2> QED
    BY <2>8, <2>9
<1>4. CASE ~(k \in RulesOf(o) /\ Kept(m))
  <2>1. KeptBy(o, k) = {}
    <3>1. CASE k \in RulesOf(o)
      <4>1. HasRule(m)
        BY <1>2, <3>1, WritableProgram, RuleIs
      <4>2. ~KeptIn(Now, m)
        BY <1>2, <1>4, <3>1, <4>1, KeptIs
      <4> QED
        BY <1>2, <3>1, <4>2, FromNone DEF KeptBy
    <3>2. CASE k \notin RulesOf(o)
      BY <3>2 DEF KeptBy
    <3> QED
      BY <3>1, <3>2
  <2>2. Segment(o, bytes, k) = <<>>
    BY <1>4 DEF Segment, m
  <2>3. Runs(Now, a, Segment(o, bytes, k), a, KeptBy(o, k))
    BY <2>1, <2>2, EmptyRuns
  <2> QED
    BY <2>1, <2>3
<1> QED
  BY <1>3, <1>4

(* An object.                                                               *)
ObjectRuns(F, o, s, T) ==
  \E b : /\ InObject(b) /\ b.of = o
         /\ b.kind = "front" => T = {}
         /\ Runs(F, FrontOf(o), s, b, T)

(* The tokens of an object are a run, rule by rule.                         *)
LEMMA ObjectRun ==
  ASSUME Writable, NEW o, Reached(Now, o), NEW bytes, EndedIn(o, bytes)
  PROVE  ObjectRuns(Now, o, SerializedObject(o, bytes), KeptUnder(Now, o))
<1> DEFINE n == Len(schema)
           ss == [k \in 1 .. n |-> Segment(o, bytes, k)]
<1>1. n \in Nat /\ o \in Objects
  BY WritableProgram, RulesAre DEF Reached
<1>2. SerializedObject(o, bytes) = FlattenSeq(ss)
  BY DEF SerializedObject, Segment
<1>3. Len(ss) = n /\ \A k \in 1 .. n : ss[k] = Segment(o, bytes, k)
  BY <1>1
<1>4. n = 0 => ss = <<>>
  OBVIOUS
<1> HIDE DEF ss
<1>5. CASE n = 0
  <2>1. SerializedObject(o, bytes) = <<>>
    BY <1>5, <1>2, <1>4 DEF FlattenSeq
  <2>2. KeptUnder(Now, o) = {}
    <3>1. KeptUpto(o, 0) = {} /\ KeptUpto(o, n) = KeptUnder(Now, o)
      BY <1>1, <1>5, UptoAll DEF KeptUpto
    <3> QED
      BY <1>5, <3>1
  <2>3. InObject(FrontOf(o)) /\ FrontOf(o).of = o
    BY InAnObject
  <2>4. Runs(Now, FrontOf(o), <<>>, FrontOf(o), {})
    BY EmptyRuns
  <2> QED
    BY <2>1, <2>2, <2>3, <2>4 DEF ObjectRuns
<1>6. SUFFICES ASSUME n # 0
              PROVE  ObjectRuns(Now, o, SerializedObject(o, bytes), KeptUnder(Now, o))
  BY <1>5
<1>7. PICK g : FlatTable(g, ss, n) /\ FlattenSeq(ss) = g[n]
  BY <1>1, <1>3, <1>6, Flattened
<1>8. \A k \in 1 .. n : g[k] = IF k = 1 THEN Segment(o, bytes, k) ELSE g[k - 1] \o Segment(o, bytes, k)
  BY <1>3, <1>7 DEF FlatTable
<1> DEFINE Q == {k \in Nat : k < n => ObjectRuns(Now, o, g[k + 1], KeptUpto(o, k + 1))}
<1>9. 0 \in Q
  <2>1. 1 \in 1 .. n /\ 0 + 1 = 1 /\ 0 + 1 <= Len(schema) /\ 0 \in Nat
    BY <1>1, <1>6
  <2>2. InObject(FrontOf(o)) /\ FrontOf(o).of = o
    BY InAnObject
  <2>3. PICK b : /\ InObject(b) /\ b.of = o
                 /\ b.kind = "front" => b = FrontOf(o) /\ KeptBy(o, 1) = {}
                 /\ Runs(Now, FrontOf(o), Segment(o, bytes, 1), b, KeptBy(o, 1))
    BY <2>1, <2>2, SegmentRuns
  <2>4. KeptUpto(o, 1) = KeptBy(o, 1)
    <3>1. KeptUpto(o, 0 + 1) = KeptUpto(o, 0) \union KeptBy(o, 0 + 1) /\ KeptUpto(o, 0) = {}
      BY <2>1, UptoNext
    <3> QED
      BY <2>1, <3>1
  <2>5. g[1] = Segment(o, bytes, 1)
    BY <1>8, <2>1
  <2>6. ObjectRuns(Now, o, g[0 + 1], KeptUpto(o, 0 + 1))
    BY <2>1, <2>3, <2>4, <2>5 DEF ObjectRuns
  <2> QED
    BY <2>6
<1>10. ASSUME NEW k \in Nat, k \in Q
      PROVE  k + 1 \in Q
  <2> DEFINE i == k + 1
  <2> SUFFICES ASSUME i < n
               PROVE  ObjectRuns(Now, o, g[i + 1], KeptUpto(o, i + 1))
    OBVIOUS
  <2>1. /\ k < n /\ i \in Nat /\ i + 1 \in 1 .. n /\ i + 1 # 1 /\ (i + 1) - 1 = i
        /\ i + 1 <= Len(schema)
    BY <1>1
  <2>2. ObjectRuns(Now, o, g[i], KeptUpto(o, i))
    BY <1>10, <2>1
  <2> HIDE DEF i
  <2>3. PICK a : /\ InObject(a) /\ a.of = o
                 /\ a.kind = "front" => KeptUpto(o, i) = {}
                 /\ Runs(Now, FrontOf(o), g[i], a, KeptUpto(o, i))
    BY <2>2 DEF ObjectRuns
  <2>4. PICK b : /\ InObject(b) /\ b.of = o
                 /\ b.kind = "front" => b = a /\ KeptBy(o, i + 1) = {}
                 /\ Runs(Now, a, Segment(o, bytes, i + 1), b, KeptBy(o, i + 1))
    BY <2>1, <2>3, SegmentRuns
  <2>5. g[i + 1] = g[i] \o Segment(o, bytes, i + 1)
    BY <1>8, <2>1
  <2>6. /\ KeptUpto(o, i + 1) = KeptUpto(o, i) \union KeptBy(o, i + 1)
        /\ KeptUpto(o, i) \cap KeptBy(o, i + 1) = {}
    BY <2>1, UptoNext
  <2>7. Runs(Now, FrontOf(o), g[i] \o Segment(o, bytes, i + 1), b, KeptUpto(o, i) \union KeptBy(o, i + 1))
    BY <2>3, <2>4, <2>6, RunsJoin
  <2>8. b.kind = "front" => KeptUpto(o, i + 1) = {}
    BY <2>3, <2>4, <2>6
  <2> QED
    BY <2>4, <2>5, <2>6, <2>7, <2>8 DEF ObjectRuns
<1> HIDE DEF Q
<1>11. n - 1 \in Q
  <2>1. n - 1 \in Nat
    BY <1>1, <1>6
  <2> QED
    BY <1>9, <1>10, <2>1, Induction
<1>12. n - 1 < n /\ (n - 1) + 1 = n
  BY <1>1
<1>13. ObjectRuns(Now, o, g[n], KeptUpto(o, n))
  BY <1>11, <1>12 DEF Q
<1>14. KeptUpto(o, n) = KeptUnder(Now, o)
  BY <1>1, UptoAll
<1> QED
  BY <1>2, <1>7, <1>13, <1>14

-----------------------------------------------------------------------------
(* The objects that there are.                                              *)

RuleFor(o) == ClassOf(o) = <<>> \/ \E k \in 1 .. Len(schema) : schema[k].of = ClassOf(o)

(* The path of a rule leads through classes and lists.                      *)
LEMMA HolderHas ==
  ASSUME IsProgram(schema), NEW m \in AllMembers, NEW n \in Nat, RuleFor(Child(m, n))
  PROVE  RuleFor(m.of) /\ \E type \in {"class", "list"} : Has(Now, m, type)
<1>1. ClassOf(Child(m, n)) = Append(ClassOf(m.of), m.name) /\ m.of \in Objects /\ m.name \in STRING
  BY ChildPath
<1>2. ClassOf(m.of) \in Seq(STRING)
  BY <1>1, ClassOfPath
<1>3. PICK k \in 1 .. Len(schema) : schema[k].of = Append(ClassOf(m.of), m.name)
  BY <1>1, <1>2 DEF RuleFor
<1>4. schema[k].of # <<>>
  BY <1>2, <1>3
<1>5. PICK j \in 1 .. Len(schema) : /\ schema[k].of = Append(schema[j].of, schema[j].name)
                                    /\ schema[j].type \in {"class", "list"}
  BY <1>4 DEF IsProgram
<1> DEFINE s == schema[j].of
           t == ClassOf(m.of)
           x == schema[j].name
           y == m.name
<1>6. s \in Seq(STRING) /\ t \in Seq(STRING) /\ x \in STRING /\ y \in STRING /\ Append(s, x) = Append(t, y)
  BY <1>1, <1>2, <1>3, <1>5, RulesAre
<1> HIDE DEF s, t, x, y
<1>7. s = t /\ x = y
  <2>1. IsList(s) /\ IsList(t)
    BY <1>6 DEF IsList
  <2>2. /\ Len(s) \in Nat /\ Len(Append(s, x)) = Len(s) + 1 /\ Append(s, x)[Len(s) + 1] = x
        /\ \A i \in 1 .. Len(s) : Append(s, x)[i] = s[i]
    BY <2>1, Appended
  <2>3. /\ Len(t) \in Nat /\ Len(Append(t, y)) = Len(t) + 1 /\ Append(t, y)[Len(t) + 1] = y
        /\ \A i \in 1 .. Len(t) : Append(t, y)[i] = t[i]
    BY <2>1, Appended
  <2>4. Len(s) = Len(t)
    BY <1>6, <2>2, <2>3
  <2>5. s = t
    <3>1. \A i \in 1 .. Len(s) : s[i] = t[i]
      BY <1>6, <2>2, <2>3, <2>4
    <3> QED
      BY <1>6, <2>4, <3>1, SameSequence
  <2> QED
    BY <1>6, <2>2, <2>3, <2>4, <2>5
<1>8. schema[j].of = ClassOf(m.of) /\ schema[j].name = m.name
  BY <1>7 DEF s, t, x, y
<1> QED
  BY <1>5, <1>8, NowParts DEF RuleFor, Has

(* ... all of it.                                                           *)
LEMMA HoldersHave ==
  ASSUME IsProgram(schema), NEW o \in Objects, RuleFor(o), NEW i \in 1 .. Len(o)
  PROVE  \E type \in {"class", "list"} : Has(Now, MemberAt(o, i), type)
<1> DEFINE L == Len(o)
           Q == {d \in Nat : d <= L => RuleFor(SubSeq(o, 1, L - d))}
<1>1. L \in Nat /\ i \in Nat
  BY PathFacts
<1>2. 0 \in Q
  <2>1. L - 0 = L
    BY <1>1
  <2>2. RuleFor(SubSeq(o, 1, L - 0))
    BY <2>1, WholePath
  <2> QED
    BY <2>2
<1>3. ASSUME NEW k \in 1 .. L, RuleFor(SubSeq(o, 1, k))
      PROVE  /\ RuleFor(SubSeq(o, 1, k - 1))
             /\ \E type \in {"class", "list"} : Has(Now, MemberAt(o, k), type)
  <2>1. /\ MemberAt(o, k) \in AllMembers /\ MemberAt(o, k).of = SubSeq(o, 1, k - 1)
        /\ o[k].n \in Nat /\ SubSeq(o, 1, k) = Child(MemberAt(o, k), o[k].n)
    BY MemberAtFacts
  <2>2. RuleFor(Child(MemberAt(o, k), o[k].n))
    BY <1>3, <2>1
  <2> QED
    BY <2>1, <2>2, HolderHas
<1>4. ASSUME NEW d \in Nat, d \in Q
      PROVE  d + 1 \in Q
  <2> SUFFICES ASSUME d + 1 <= L
               PROVE  RuleFor(SubSeq(o, 1, L - (d + 1)))
    OBVIOUS
  <2>1. d <= L /\ L - d \in 1 .. L /\ (L - d) - 1 = L - (d + 1)
    BY <1>1
  <2>2. RuleFor(SubSeq(o, 1, L - d))
    BY <1>4, <2>1
  <2>3. RuleFor(SubSeq(o, 1, (L - d) - 1))
    BY <1>3, <2>1, <2>2
  <2> QED
    BY <2>1, <2>3
<1> HIDE DEF Q
<1>5. L - i \in Q
  <2>1. L - i \in Nat
    BY <1>1
  <2> QED
    BY <1>2, <1>4, <2>1, Induction
<1>6. L - i <= L /\ L - (L - i) = i
  BY <1>1
<1>7. RuleFor(SubSeq(o, 1, i))
  BY <1>5, <1>6 DEF Q
<1> QED
  BY <1>3, <1>7

(* Constructed, member by member.                                           *)
LEMMA ConstructedIs ==
  ASSUME IsProgram(schema), NEW o
  PROVE  o \in Constructed <=>
           /\ o \in Objects /\ RuleFor(o)
           /\ \A k \in 1 .. Len(o) :
                /\ o[k].n \in 0 .. MaxChildren
                /\ IF o[k].n = 0 THEN get_rule(MemberAt(o, k)).type = "class"
                   ELSE o[k].n <= ChildCount(MemberAt(o, k))
<1> DEFINE Shapes(class) == { [k \in 1 .. Len(class) |-> [name |-> class[k], n |-> f[k]]] :
                                f \in [1 .. Len(class) -> 0 .. MaxChildren] }
           Exists(k) == IF o[k].n = 0 THEN get_rule(MemberAt(o, k)).type = "class"
                        ELSE o[k].n <= ChildCount(MemberAt(o, k))
<1>1. o \in Constructed <=> /\ o \in Shapes(<<>>) \/ \E k \in 1 .. Len(schema) : o \in Shapes(schema[k].of)
                            /\ \A k \in 1 .. Len(o) : Exists(k)
  <2> DEFINE W == UNION {Shapes(class) : class \in {<<>>} \union {schema[k].of : k \in 1 .. Len(schema)}}
             Fits(x) == \A k \in 1 .. Len(x) :
                          IF x[k].n = 0 THEN get_rule(MemberAt(x, k)).type = "class"
                          ELSE x[k].n <= ChildCount(MemberAt(x, k))
  <2>1. Constructed = {x \in W : Fits(x)}
    BY Zenon DEF Constructed, MemberAt
  <2>2. Fits(o) <=> \A k \in 1 .. Len(o) : Exists(k)
    OBVIOUS
  <2> HIDE DEF Fits, Exists, Shapes
  <2>3. o \in W <=> o \in Shapes(<<>>) \/ \E k \in 1 .. Len(schema) : o \in Shapes(schema[k].of)
    OBVIOUS
  <2> HIDE DEF W
  <2> QED
    BY <2>1, <2>2, <2>3
<1>2. ASSUME NEW class \in Seq(STRING), o \in Shapes(class)
      PROVE  o \in Objects /\ ClassOf(o) = class /\ \A k \in 1 .. Len(o) : o[k].n \in 0 .. MaxChildren
  <2>1. PICK f \in [1 .. Len(class) -> 0 .. MaxChildren] :
          o = [k \in 1 .. Len(class) |-> [name |-> class[k], n |-> f[k]]]
    BY <1>2
  <2>2. Len(class) \in Nat /\ \A k \in 1 .. Len(class) : class[k] \in STRING /\ f[k] \in 0 .. MaxChildren
    OBVIOUS
  <2>3. \A k \in 1 .. Len(class) : /\ o[k] = [name |-> class[k], n |-> f[k]]
                                   /\ o[k] \in Steps /\ o[k].name = class[k] /\ o[k].n = f[k]
    BY <2>1, <2>2 DEF Steps
  <2>4. o \in [1 .. Len(class) -> Steps]
    BY <2>1, <2>3
  <2>5. o \in Objects /\ Len(o) = Len(class)
    BY <2>2, <2>4 DEF Objects
  <2>6. ClassOf(o) \in Seq(STRING) /\ Len(ClassOf(o)) = Len(o)
        /\ \A k \in 1 .. Len(o) : ClassOf(o)[k] = o[k].name
    BY <2>5, ClassOfPath
  <2>7. ClassOf(o) = class
    BY <2>3, <2>5, <2>6, SameSequence
  <2> QED
    BY <2>2, <2>3, <2>5, <2>7
<1>3. ASSUME o \in Objects, \A k \in 1 .. Len(o) : o[k].n \in 0 .. MaxChildren
      PROVE  o \in Shapes(ClassOf(o))
  <2>1. Len(ClassOf(o)) = Len(o) /\ Len(o) \in Nat
        /\ \A k \in 1 .. Len(o) : /\ ClassOf(o)[k] = o[k].name
                                  /\ o[k] = [name |-> o[k].name, n |-> o[k].n]
    BY <1>3, ClassOfPath, PathFacts
  <2> DEFINE f == [k \in 1 .. Len(o) |-> o[k].n]
             p == [k \in 1 .. Len(o) |-> [name |-> ClassOf(o)[k], n |-> f[k]]]
  <2>2. f \in [1 .. Len(o) -> 0 .. MaxChildren]
    BY <1>3
  <2>3. \A k \in 1 .. Len(o) : p[k] = o[k]
    BY <2>1
  <2>4. o = [k \in 1 .. Len(o) |-> o[k]]
    BY <1>3 DEF Objects
  <2>5. o = p
    BY <2>3, <2>4
  <2> HIDE DEF f
  <2> QED
    BY <2>1, <2>2, <2>5
<1> HIDE DEF Shapes, Exists
<1>4. \A k \in 1 .. Len(schema) : schema[k].of \in Seq(STRING)
  BY RulesAre
<1>5. (o \in Shapes(<<>>) \/ \E k \in 1 .. Len(schema) : o \in Shapes(schema[k].of)) <=>
        /\ o \in Objects /\ RuleFor(o)
        /\ \A k \in 1 .. Len(o) : o[k].n \in 0 .. MaxChildren
  <2>1. ASSUME NEW k \in 1 .. Len(schema), o \in Shapes(schema[k].of)
        PROVE  /\ o \in Objects /\ RuleFor(o)
               /\ \A j \in 1 .. Len(o) : o[j].n \in 0 .. MaxChildren
    BY <1>2, <1>4, <2>1 DEF RuleFor
  <2>2. ASSUME o \in Objects, RuleFor(o), \A k \in 1 .. Len(o) : o[k].n \in 0 .. MaxChildren
        PROVE  o \in Shapes(<<>>) \/ \E k \in 1 .. Len(schema) : o \in Shapes(schema[k].of)
    BY <1>3, <2>2 DEF RuleFor
  <2>3. ASSUME o \in Shapes(<<>>)
        PROVE  /\ o \in Objects /\ RuleFor(o)
               /\ \A j \in 1 .. Len(o) : o[j].n \in 0 .. MaxChildren
    <3>1. <<>> \in Seq(STRING)
      OBVIOUS
    <3>2. o \in Objects /\ ClassOf(o) = <<>> /\ \A j \in 1 .. Len(o) : o[j].n \in 0 .. MaxChildren
      BY <1>2, <2>3, <3>1
    <3> QED
      BY <3>2 DEF RuleFor
  <2> QED
    BY <2>1, <2>2, <2>3
<1>6. o \in Constructed <=>
        /\ o \in Objects /\ RuleFor(o)
        /\ \A k \in 1 .. Len(o) : o[k].n \in 0 .. MaxChildren /\ Exists(k)
  BY <1>1, <1>5
<1> QED
  BY <1>6 DEF Exists

(* An object that is reached has rules.                                     *)
LEMMA ReachedRule ==
  ASSUME Writable, NEW o, Reached(Now, o)
  PROVE  RuleFor(o)
<1>1. o \in Objects
  BY DEF Reached
<1>2. CASE o = <<>>
  <2>1. ClassOf(o) = <<>>
    BY <1>2 DEF ClassOf
  <2> QED
    BY <2>1 DEF RuleFor
<1>3. CASE o # <<>>
  <2> DEFINE m == MemberAt(o, Len(o))
             n == o[Len(o)].n
  <2>1. m \in AllMembers /\ n \in Nat /\ o = Child(m, n)
    BY <1>1, <1>3, LastStep
  <2> HIDE DEF m, n
  <2>2. Goes(Now, m, n)
    BY <2>1, ReachedChild
  <2>3. PICK type \in {"class", "list"} : Has(Now, m, type)
    BY <2>2 DEF Goes
  <2>4. PICK k \in 1 .. Len(schema) :
          schema[k].of = ClassOf(m.of) /\ schema[k].name = m.name /\ schema[k].type = type
    BY <2>3, NowParts DEF Has
  <2>5. \E i \in 1 .. Len(schema) : schema[i].of = Append(schema[k].of, schema[k].name)
    BY <2>4, WritableProgram DEF IsProgram
  <2>6. ClassOf(o) = Append(ClassOf(m.of), m.name)
    BY <2>1, ChildPath
  <2> QED
    BY <2>4, <2>5, <2>6 DEF RuleFor
<1> QED
  BY <1>2, <1>3

(* serialize comes to exactly the objects that are reached.                 *)
LEMMA FilledIsReached ==
  ASSUME Writable, NEW o
  PROVE  o \in Filled <=> Reached(Now, o)
<1>1. IsProgram(schema) /\ Sound(Now)
  BY WritableProgram
<1> DEFINE Exists(k) == IF o[k].n = 0 THEN get_rule(MemberAt(o, k)).type = "class"
                        ELSE o[k].n <= ChildCount(MemberAt(o, k))
<1>2. o \in Filled <=> /\ o \in Constructed
                       /\ \A k \in 1 .. Len(o) : o[k].n = 0 => MemberAt(o, k) \in exist
  BY DEF Filled, MemberAt
<1>3. o \in Constructed <=> /\ o \in Objects /\ RuleFor(o)
                            /\ \A k \in 1 .. Len(o) : o[k].n \in 0 .. MaxChildren /\ Exists(k)
  BY <1>1, ConstructedIs
<1>4. ASSUME o \in Objects, NEW k \in 1 .. Len(o)
      PROVE  /\ Goes(Now, MemberAt(o, k), o[k].n) =>
                  /\ o[k].n \in 0 .. MaxChildren /\ Exists(k)
                  /\ o[k].n = 0 => MemberAt(o, k) \in exist
             /\ RuleFor(o) /\ Exists(k) /\ (o[k].n = 0 => MemberAt(o, k) \in exist) =>
                  Goes(Now, MemberAt(o, k), o[k].n)
  <2> DEFINE m == MemberAt(o, k)
             n == o[k].n
  <2>1. m \in AllMembers /\ n \in Nat
    BY <1>4, MemberAtFacts
  <2>2. m \in exist <=> IsMarked(Now, m)
    BY <2>1 DEF Writable
  <2>3. m \in DOMAIN children => /\ children[m] \in Nat /\ children[m] <= MaxChildren
                                 /\ Has(Now, m, "list") /\ ChildCount(m) = children[m]
    BY <1>1, NowParts DEF Sound, Writable, ChildCount
  <2>4. m \notin DOMAIN children => ChildCount(m) = 0
    BY DEF ChildCount
  <2>5. RuleFor(o) => \E type \in {"class", "list"} : Has(Now, m, type)
    BY <1>1, <1>4, HoldersHave
  <2>6. MaxChildren \in Nat
    BY ProgramsAssumption
  <2>7. Exists(k) <=> IF n = 0 THEN get_rule(m).type = "class" ELSE n <= ChildCount(m)
    OBVIOUS
  <2> HIDE DEF m, n, Exists
  <2>8. \A type : Has(Now, m, type) => get_rule(m).type = type
    BY <1>1, HasIsRule
  <2>9. CASE n = 0
    <3>1. Goes(Now, m, n) <=> Has(Now, m, "class") /\ IsMarked(Now, m)
      BY <2>9 DEF Goes
    <3>2. RuleFor(o) /\ get_rule(m).type = "class" => Has(Now, m, "class")
      BY <2>5, <2>8
    <3> QED
      BY <2>2, <2>6, <2>7, <2>8, <2>9, <3>1, <3>2 DEF m, n
  <2>10. CASE n # 0
    <3>1. Goes(Now, m, n) <=> Has(Now, m, "list") /\ m \in DOMAIN children /\ n <= children[m]
      BY <2>10, NowParts DEF Goes
    <3>2. Goes(Now, m, n) => n \in 0 .. MaxChildren /\ n <= ChildCount(m)
      BY <2>1, <2>3, <2>6, <3>1
    <3>3. n <= ChildCount(m) => Goes(Now, m, n)
      BY <2>1, <2>3, <2>4, <2>10, <3>1
    <3> QED
      BY <2>7, <2>10, <3>2, <3>3 DEF m, n
  <2> QED
    BY <2>9, <2>10
<1>5. Reached(Now, o) => RuleFor(o)
  BY ReachedRule
<1>6. Reached(Now, o) <=> o \in Objects /\ \A k \in 1 .. Len(o) : Goes(Now, MemberAt(o, k), o[k].n)
  BY DEF Reached
<1> HIDE DEF Exists
<1> QED
  BY <1>2, <1>3, <1>4, <1>5, <1>6

-----------------------------------------------------------------------------
(* serialize.                                                               *)

(* No object is deeper than the rules.                                      *)
LEMMA DepthBound ==
  ASSUME Writable
  PROVE  \E N \in Nat : \A o : Reached(Now, o) => Len(o) <= N
<1> DEFINE Q == {n \in Nat : n <= Len(schema) =>
                   \E N \in Nat : \A k \in 1 .. n : Len(schema[k].of) <= N}
<1>1. Len(schema) \in Nat /\ \A k \in 1 .. Len(schema) : Len(schema[k].of) \in Nat
  <2>1. \A s \in Seq(STRING) : Len(s) \in Nat
    OBVIOUS
  <2> QED
    BY <2>1, WritableProgram, RulesAre
<1>2. 0 \in Q
  <2>1. 0 \in Nat /\ \A k \in 1 .. 0 : Len(schema[k].of) <= 0
    OBVIOUS
  <2> QED
    BY <2>1
<1>3. ASSUME NEW n \in Nat, n \in Q
      PROVE  n + 1 \in Q
  <2> SUFFICES ASSUME n + 1 <= Len(schema)
               PROVE  \E N \in Nat : \A k \in 1 .. n + 1 : Len(schema[k].of) <= N
    OBVIOUS
  <2>1. n <= Len(schema) /\ n + 1 \in 1 .. Len(schema)
    BY <1>1
  <2>2. PICK N \in Nat : \A k \in 1 .. n : Len(schema[k].of) <= N
    BY <1>3, <2>1
  <2> DEFINE L == Len(schema[n + 1].of)
             M == IF L <= N THEN N ELSE L
  <2>3. L \in Nat
    BY <1>1, <2>1
  <2>4. M \in Nat /\ N <= M /\ L <= M
    BY <2>3
  <2> HIDE DEF M
  <2>5. \A k \in 1 .. n + 1 : Len(schema[k].of) <= M
    <3> TAKE k \in 1 .. n + 1
    <3>1. k \in 1 .. n \/ k = n + 1
      OBVIOUS
    <3>2. CASE k \in 1 .. n
      <4>1. k \in 1 .. Len(schema)
        BY <1>1, <2>1, <3>2
      <4>2. Len(schema[k].of) \in Nat
        BY <1>1, <4>1
      <4> QED
        BY <2>2, <2>4, <3>2, <4>2
    <3> QED
      BY <2>4, <3>1, <3>2
  <2> QED
    BY <2>4, <2>5
<1> HIDE DEF Q
<1>4. Len(schema) \in Q
  BY <1>1, <1>2, <1>3, Induction
<1>5. PICK N \in Nat : \A k \in 1 .. Len(schema) : Len(schema[k].of) <= N
  BY <1>1, <1>4 DEF Q
<1>6. ASSUME NEW o, Reached(Now, o)
      PROVE  Len(o) <= N
  <2>1. o \in Objects /\ RuleFor(o)
    BY <1>6, ReachedRule DEF Reached
  <2>2. Len(ClassOf(o)) = Len(o)
    BY <2>1, ClassOfPath
  <2>3. CASE ClassOf(o) = <<>>
    BY <2>2, <2>3
  <2>4. CASE \E k \in 1 .. Len(schema) : schema[k].of = ClassOf(o)
    BY <1>5, <2>2, <2>4
  <2> QED
    BY <2>1, <2>3, <2>4 DEF RuleFor
<1> QED
  BY <1>6

(* A member that is written holds objects that are reached.                 *)
LEMMA WrittenHolds ==
  ASSUME Writable, NEW o, Reached(Now, o), NEW k \in RulesOf(o), Kept(Member(o, schema[k].name))
  PROVE  LET m == Member(o, schema[k].name)
         IN  /\ m \in AllMembers /\ m.of = o
             /\ schema[k].type = "class" => Reached(Now, Child(m, 0))
             /\ schema[k].type = "list" =>
                  \A n \in 1 .. ChildCount(m) : n \in Nat /\ Reached(Now, Child(m, n))
<1> DEFINE m == Member(o, schema[k].name)
<1>1. k \in 1 .. Len(schema) /\ o \in Objects /\ schema[k].name \in STRING
  BY WritableProgram, RulesAre DEF Reached, RulesOf
<1>2. m \in AllMembers /\ m.of = o /\ m.name = schema[k].name
  BY <1>1 DEF Member, AllMembers
<1> HIDE DEF m
<1>3. HasRule(m) /\ Has(Now, m, schema[k].type) /\ Sound(Now)
  BY <1>2, WritableProgram, RuleIs
<1>4. KeptIn(Now, m)
  BY <1>2, <1>3, KeptIs DEF m
<1>5. ASSUME schema[k].type = "class"
      PROVE  Reached(Now, Child(m, 0))
  <2>1. Has(Now, m, "class")
    BY <1>3, <1>5
  <2> QED
    BY <1>3, <1>4, <2>1, KeptClass
<1>6. ASSUME schema[k].type = "list"
      PROVE  \A n \in 1 .. ChildCount(m) : n \in Nat /\ Reached(Now, Child(m, n))
  <2>1. Has(Now, m, "list")
    BY <1>3, <1>6
  <2>2. m \in DOMAIN children /\ children[m] \in Nat \ {0}
    BY <1>3, <1>4, <2>1, KeptList, NowParts
  <2>3. ChildCount(m) = children[m]
    BY <2>2 DEF ChildCount
  <2> TAKE n \in 1 .. ChildCount(m)
  <2>4. n \in Nat /\ n # 0 /\ n <= children[m]
    BY <2>2, <2>3
  <2>5. Goes(Now, m, n)
    BY <2>1, <2>2, <2>4, NowParts DEF Goes
  <2> QED
    BY <1>2, <2>4, <2>5, ReachedChild, <1>1
<1> QED
  BY <1>2, <1>5, <1>6 DEF m

(* serialize of an object asks for the objects in it, and no others.        *)
LEMMA SameBytes ==
  ASSUME Writable, NEW o, Reached(Now, o), NEW f, NEW g,
         \A p : Reached(Now, p) /\ Len(p) = Len(o) + 1 => f[p] = g[p]
  PROVE  SerializedObject(o, f) = SerializedObject(o, g)
<1>1. ASSUME NEW k \in 1 .. Len(schema)
      PROVE  Segment(o, f, k) = Segment(o, g, k)
  <2> DEFINE m == Member(o, schema[k].name)
             r == schema[k]
  <2> SUFFICES ASSUME k \in RulesOf(o), Kept(m)
               PROVE  SerializedMember(m, r, f) = SerializedMember(m, r, g)
    BY DEF Segment
  <2>1. /\ m \in AllMembers /\ m.of = o
        /\ r.type = "class" => Reached(Now, Child(m, 0))
        /\ r.type = "list" => \A n \in 1 .. ChildCount(m) : n \in Nat /\ Reached(Now, Child(m, n))
    BY WrittenHolds
  <2> HIDE DEF m, r
  <2>2. \A n \in Nat : Len(Child(m, n)) = Len(o) + 1
    BY <2>1, ChildPath
  <2>3. CASE r.type = "list"
    <3>1. \A n \in 1 .. ChildCount(m) : f[Child(m, n)] = g[Child(m, n)]
      BY <2>1, <2>2, <2>3
    <3>2. [n \in 1 .. ChildCount(m) |-> Append(f[Child(m, n)], End)]
            = [n \in 1 .. ChildCount(m) |-> Append(g[Child(m, n)], End)]
      BY <3>1
    <3> QED
      BY <2>3, <3>2 DEF SerializedMember
  <2>4. CASE r.type = "class"
    <3>1. f[ClassObject(m)] = g[ClassObject(m)]
      BY <2>1, <2>2, <2>4, ClassIsChild
    <3> QED
      BY <2>4, <3>1 DEF SerializedMember
  <2>5. CASE r.type # "list" /\ r.type # "class"
    BY <2>5 DEF SerializedMember
  <2> QED
    BY <2>3, <2>4, <2>5
<1>2. [k \in 1 .. Len(schema) |-> Segment(o, f, k)] = [k \in 1 .. Len(schema) |-> Segment(o, g, k)]
  BY <1>1
<1>3. SerializedObject(o, f) = FlattenSeq([k \in 1 .. Len(schema) |-> Segment(o, f, k)])
  BY DEF SerializedObject, Segment
<1>4. SerializedObject(o, g) = FlattenSeq([k \in 1 .. Len(schema) |-> Segment(o, g, k)])
  BY DEF SerializedObject, Segment
<1> QED
  BY <1>2, <1>3, <1>4

(* The bytes of all objects: the deepest first.                             *)
Bytes(f) == f = [o \in Filled |-> SerializedObject(o, f)]

(* serialize is well defined.                                               *)
LEMMA BytesExist ==
  ASSUME Writable
  PROVE  \E f : Bytes(f)
<1>1. PICK N \in Nat : \A o : Reached(Now, o) => Len(o) <= N
  BY DepthBound
<1> DEFINE Deep(d, f) == \A o \in Filled : Len(o) + d > N => f[o] = SerializedObject(o, f)
           Q == {d \in Nat : \E f : f = [o \in Filled |-> f[o]] /\ Deep(d, f)}
<1>2. \A o \in Filled : Reached(Now, o) /\ Len(o) \in Nat /\ Len(o) <= N
  BY <1>1, FilledIsReached, PathFacts DEF Reached
<1>3. 0 \in Q
  <2> DEFINE f == [o \in Filled |-> <<>>]
  <2>1. f = [o \in Filled |-> f[o]]
    OBVIOUS
  <2>2. Deep(0, f)
    BY <1>2
  <2> HIDE DEF f, Deep
  <2> QED
    BY <2>1, <2>2
<1>4. ASSUME NEW d \in Nat, d \in Q
      PROVE  d + 1 \in Q
  <2>1. PICK f : f = [o \in Filled |-> f[o]] /\ Deep(d, f)
    BY <1>4
  <2> DEFINE g == [o \in Filled |-> IF Len(o) + d > N THEN f[o] ELSE SerializedObject(o, f)]
  <2>2. \A o \in Filled : Len(o) + d > N => g[o] = f[o]
    OBVIOUS
  <2>3. \A o \in Filled : ~(Len(o) + d > N) => g[o] = SerializedObject(o, f)
    OBVIOUS
  <2>4. g = [o \in Filled |-> g[o]]
    OBVIOUS
  <2> HIDE DEF g
  <2>5. ASSUME NEW o \in Filled, Len(o) + (d + 1) > N
        PROVE  g[o] = SerializedObject(o, g)
    <3>1. ASSUME NEW p, Reached(Now, p), Len(p) = Len(o) + 1
          PROVE  f[p] = g[p]
      <4>1. p \in Filled
        BY <3>1, FilledIsReached
      <4>2. Len(p) + d > N
        BY <1>1, <1>2, <2>5, <3>1
      <4> QED
        BY <2>2, <4>1, <4>2
    <3>2. SerializedObject(o, f) = SerializedObject(o, g)
      BY <1>2, <3>1, SameBytes
    <3>3. CASE Len(o) + d > N
      <4>1. g[o] = f[o]
        BY <2>2, <3>3
      <4>2. f[o] = SerializedObject(o, f)
        BY <2>1, <3>3
      <4> QED
        BY <3>2, <4>1, <4>2
    <3>4. CASE ~(Len(o) + d > N)
      BY <2>3, <3>2, <3>4
    <3> QED
      BY <3>3, <3>4
  <2>6. Deep(d + 1, g)
    BY <2>5
  <2> HIDE DEF Deep
  <2> QED
    BY <2>4, <2>6
<1> HIDE DEF Q
<1>5. N + 1 \in Q
  BY <1>3, <1>4, Induction
<1>6. PICK f : f = [o \in Filled |-> f[o]] /\ Deep(N + 1, f)
  BY <1>5 DEF Q
<1>7. \A o \in Filled : f[o] = SerializedObject(o, f)
  BY <1>2, <1>6
<1>8. [o \in Filled |-> f[o]] = [o \in Filled |-> SerializedObject(o, f)]
  BY <1>7
<1> QED
  BY <1>6, <1>8 DEF Bytes

(* Every object is written as a run, the deepest first.                     *)
LEMMA AllEnded ==
  ASSUME Writable, NEW f, Bytes(f)
  PROVE  \A o : Reached(Now, o) => EndedIn(o, f)
<1>1. PICK N \in Nat : \A o : Reached(Now, o) => Len(o) <= N
  BY DepthBound
<1>2. \A o : Reached(Now, o) => f[o] = SerializedObject(o, f)
  BY FilledIsReached DEF Bytes
<1> DEFINE Q == {d \in Nat : \A o : Reached(Now, o) /\ Len(o) + d > N => EndedIn(o, f)}
<1>3. \A o : Reached(Now, o) => o \in Objects /\ Len(o) \in Nat /\ Len(o) <= N
  BY <1>1, PathFacts DEF Reached
<1>4. 0 \in Q
  BY <1>3
<1>5. ASSUME NEW d \in Nat, d \in Q
      PROVE  d + 1 \in Q
  <2> SUFFICES ASSUME NEW o, Reached(Now, o), Len(o) + (d + 1) > N
               PROVE  EndedIn(o, f)
    OBVIOUS
  <2> SUFFICES ASSUME NEW m \in AllMembers, NEW n \in Nat, m.of = o, Reached(Now, Child(m, n))
               PROVE  Ended(Now, f, Child(m, n))
    BY DEF EndedIn
  <2> DEFINE p == Child(m, n)
  <2>1. p \in Objects /\ p # <<>> /\ Len(p) = Len(o) + 1
    BY ChildPath
  <2> HIDE DEF p
  <2>2. Reached(Now, p)
    BY DEF p
  <2>3. Len(p) + d > N
    BY <1>3, <2>1
  <2>4. EndedIn(p, f)
    BY <1>5, <2>2, <2>3
  <2>5. ObjectRuns(Now, p, f[p], KeptUnder(Now, p))
    BY <1>2, <2>2, <2>4, ObjectRun
  <2>6. PICK b : /\ InObject(b) /\ b.of = p
                 /\ b.kind = "front" => KeptUnder(Now, p) = {}
                 /\ Runs(Now, FrontOf(p), f[p], b, KeptUnder(Now, p))
    BY <2>5 DEF ObjectRuns
  <2>7. EndStep(Now, b, End, AfterEnd(Now, p))
    BY <2>1, <2>2, <2>6 DEF EndStep
  <2>8. OneTagged(b, End) = {}
    BY DEF OneTagged
  <2>9. Runs(Now, b, <<End>>, AfterEnd(Now, p), {})
    BY <2>7, <2>8, OneRuns DEF ReaderStep
  <2>10. Runs(Now, FrontOf(p), f[p] \o <<End>>, AfterEnd(Now, p), KeptUnder(Now, p) \union {})
    BY <2>6, <2>9, RunsJoin
  <2>11. f[p] \o <<End>> = Append(f[p], End)
    <3>1. PICK q : Run(Now, FrontOf(p), f[p], b, KeptUnder(Now, p), q)
      BY <2>6 DEF Runs
    <3>2. PICK S : f[p] \in Seq(S)
      BY <3>1 DEF Run, IsList
    <3> QED
      BY <3>2
  <2>12. KeptUnder(Now, p) \union {} = KeptUnder(Now, p)
    OBVIOUS
  <2>13. Ended(Now, f, p)
    BY <2>10, <2>11, <2>12 DEF Ended
  <2> QED
    BY <2>13 DEF p
<1> HIDE DEF Q
<1>6. N + 1 \in Q
  BY <1>4, <1>5, Induction
<1>7. \A o : Reached(Now, o) => Len(o) + (N + 1) > N
  BY <1>3
<1> QED
  BY <1>6, <1>7 DEF Q

(* The file.                                                                *)
LEMMA SerializeRuns ==
  ASSUME Writable
  PROVE  ObjectRuns(Now, <<>>, serialize, KeptUnder(Now, <<>>))
<1> DEFINE f == CHOOSE f : f = [o \in Filled |-> SerializedObject(o, f)]
<1>1. serialize = f[<<>>]
  BY Zenon DEF serialize
<1>2. Bytes(f)
  <2>1. \E g : g = [o \in Filled |-> SerializedObject(o, g)]
    BY BytesExist DEF Bytes
  <2> QED
    BY <2>1, Zenon DEF Bytes
<1> HIDE DEF f
<1>3. Reached(Now, <<>>)
  BY TopReached
<1>4. EndedIn(<<>>, f)
  BY <1>2, <1>3, AllEnded
<1>5. f[<<>>] = SerializedObject(<<>>, f)
  BY <1>2, <1>3, FilledIsReached DEF Bytes
<1> QED
  BY <1>1, <1>3, <1>4, <1>5, ObjectRun

(* ... and what it counts.                                                  *)
LEMMA CountIs ==
  ASSUME Writable
  PROVE  /\ get_object_count = Cardinality(KeptUnder(Now, <<>>))
         /\ \A m : m \in KeptUnder(Now, <<>>) <=> KeptIn(Now, m)
<1>1. \A m : m \in KeptUnder(Now, <<>>) <=> KeptIn(Now, m)
  <2>1. \A m \in AllMembers : Under(<<>>, m.of)
    BY UnderSelf DEF AllMembers
  <2> QED
    BY <2>1 DEF KeptUnder, KeptIn
<1>2. ASSUME NEW m
      PROVE  m \in Members(Filled, AllTypes) <=>
               m \in AllMembers /\ Reached(Now, m.of) /\ HasRule(m)
  <2>1. m \in Members(Filled, AllTypes) <=>
          \E o \in Filled : \E k \in RulesOf(o) :
            schema[k].type \in AllTypes /\ m = Member(o, schema[k].name)
    BY DEF Members
  <2>2. ASSUME NEW o \in Filled, NEW k \in RulesOf(o), m = Member(o, schema[k].name)
        PROVE  m \in AllMembers /\ Reached(Now, m.of) /\ HasRule(m)
    <3>1. Reached(Now, o) /\ o \in Objects
      BY FilledIsReached DEF Reached
    <3>2. schema[k].name \in STRING
      BY WritableProgram, RulesAre DEF RulesOf
    <3>3. m.of = o /\ m.name = schema[k].name
      BY <2>2 DEF Member
    <3>4. m \in AllMembers
      BY <2>2, <3>1, <3>2 DEF Member, AllMembers
    <3> QED
      BY <3>1, <3>3, <3>4 DEF HasRule
  <2>3. ASSUME m \in AllMembers, Reached(Now, m.of), HasRule(m)
        PROVE  \E o \in Filled : \E k \in RulesOf(o) :
                 schema[k].type \in AllTypes /\ m = Member(o, schema[k].name)
    <3>1. PICK k \in RulesOf(m.of) : schema[k].name = m.name
      BY <2>3 DEF HasRule
    <3>2. schema[k].type \in AllTypes
      BY WritableProgram, RulesAre DEF RulesOf
    <3>3. m = Member(m.of, schema[k].name)
      BY <2>3, <3>1 DEF Member, AllMembers
    <3>4. m.of \in Filled
      BY <2>3, FilledIsReached
    <3> QED
      BY <3>1, <3>2, <3>3, <3>4
  <2> QED
    BY <2>1, <2>2, <2>3
<1>3. ASSUME NEW m, KeptIn(Now, m)
      PROVE  m \in AllMembers /\ Reached(Now, m.of) /\ HasRule(m)
  <2>1. PICK type : Has(Now, m, type)
    BY <1>3 DEF KeptIn
  <2> QED
    BY <1>3, <2>1, WritableProgram, HasIsRule DEF KeptIn
<1>4. \A m : m \in Members(Filled, AllTypes) /\ Kept(m) <=> KeptIn(Now, m)
  BY <1>2, <1>3, KeptIs
<1>5. {m \in Members(Filled, AllTypes) : Kept(m)} = KeptUnder(Now, <<>>)
  BY <1>1, <1>4
<1> QED
  BY <1>1, <1>5 DEF get_object_count

(* No member that must be there is missing.                                 *)
Mandatory(F) ==
  \A m \in AllMembers : \A k \in 1 .. Len(F.schema) :
    /\ Reached(F, m.of)
    /\ F.schema[k].of = ClassOf(m.of) /\ F.schema[k].name = m.name /\ F.schema[k].exist
    => IsMarked(F, m)

(* check_exist finds what must be there.                                    *)
LEMMA CheckedIs ==
  ASSUME Writable, check_exist
  PROVE  Mandatory(Now)
<1> SUFFICES ASSUME NEW m \in AllMembers, NEW k \in 1 .. Len(schema), Reached(Now, m.of),
                    schema[k].of = ClassOf(m.of), schema[k].name = m.name, schema[k].exist
             PROVE  IsMarked(Now, m)
  BY NowParts DEF Mandatory
<1>1. k \in RulesOf(m.of)
  BY DEF RulesOf
<1>2. get_rule(m) = schema[k] /\ schema[k].type \in AllTypes
  BY <1>1, WritableProgram, RuleIs
<1>3. m = Member(m.of, schema[k].name)
  BY DEF Member, AllMembers
<1>4. m.of \in Filled
  BY FilledIsReached
<1>5. m \in Members(Filled, AllTypes)
  BY <1>1, <1>2, <1>3, <1>4 DEF Members
<1>6. m \in exist
  BY <1>2, <1>5 DEF check_exist
<1> QED
  BY <1>6 DEF Writable

-----------------------------------------------------------------------------
(* The marks of an object, and the object that a program fills.             *)

Functional(F) ==
  /\ F.values = [m \in DOMAIN F.values |-> F.values[m]]
  /\ F.children = [m \in DOMAIN F.children |-> F.children[m]]

(* The members that are marked are those that update_exist owes to what was *)
(* written.                                                                 *)
OInv ==
  /\ IInv
  /\ Functional(Now)
  /\ WrittenIn(Now) \subseteq AllMembers
  /\ \A m \in exist \union updating : IsMarked(Now, m)

(* A mark is never lost.                                                    *)
LEMMA MarkedStays ==
  ASSUME NEW F, NEW G, WrittenIn(F) \subseteq WrittenIn(G), NEW m, IsMarked(F, m)
  PROVE  IsMarked(G, m)
  BY DEF IsMarked

(* write_data                                                               *)
LEMMA WritingMarks ==
  ASSUME OInv, NEW m \in AllMembers, NEW value, write_data(m, value)
  PROVE  OInv'
<1>1. /\ exist' = exist /\ children' = children /\ schema' = schema
      /\ updating = {} /\ updating' = {m} /\ values' = Extended(values, m, value)
  BY DEF write_data
<1>2. IInv'
  BY WritingKeeps DEF OInv
<1>3. DOMAIN values' = DOMAIN values \union {m} /\ values' = [k \in DOMAIN values' |-> values'[k]]
  BY <1>1 DEF Extended
<1>4. WrittenIn(Now)' = WrittenIn(Now) \union {m}
  BY <1>1, <1>3 DEF WrittenIn, Now
<1>5. Functional(Now)'
  BY <1>1, <1>3 DEF OInv, Functional, Now
<1>6. \A n \in exist' \union updating' : IsMarked(Now, n)'
  <2>1. \A n \in exist : IsMarked(Now, n)
    BY DEF OInv
  <2>2. \A n \in exist : IsMarked(Now, n)'
    BY <1>4, <2>1 DEF IsMarked
  <2>3. Above(m, m)
    BY DEF Above
  <2>4. IsMarked(Now, m)'
    BY <1>4, <2>3 DEF IsMarked
  <2> QED
    BY <1>1, <2>2, <2>4
<1> QED
  BY <1>2, <1>4, <1>5, <1>6 DEF OInv

(* create_child                                                             *)
LEMMA CreatingMarks ==
  ASSUME OInv, NEW m \in AllMembers, create_child(m)
  PROVE  OInv'
<1>1. /\ exist' = exist /\ values' = values /\ schema' = schema
      /\ updating = {} /\ updating' = {m} /\ children' = Extended(children, m, ChildCount(m) + 1)
  BY DEF create_child
<1>2. IInv'
  BY CreatingKeeps DEF OInv
<1>3. DOMAIN children' = DOMAIN children \union {m} /\ children' = [k \in DOMAIN children' |-> children'[k]]
  BY <1>1 DEF Extended
<1>4. WrittenIn(Now)' = WrittenIn(Now) \union {m}
  BY <1>1, <1>3 DEF WrittenIn, Now
<1>5. Functional(Now)'
  BY <1>1, <1>3 DEF OInv, Functional, Now
<1>6. \A n \in exist' \union updating' : IsMarked(Now, n)'
  <2>1. \A n \in exist : IsMarked(Now, n)
    BY DEF OInv
  <2>2. \A n \in exist : IsMarked(Now, n)'
    BY <1>4, <2>1 DEF IsMarked
  <2>3. Above(m, m)
    BY DEF Above
  <2>4. IsMarked(Now, m)'
    BY <1>4, <2>3 DEF IsMarked
  <2> QED
    BY <1>1, <2>2, <2>4
<1> QED
  BY <1>2, <1>4, <1>5, <1>6 DEF OInv

(* The member that holds the object of a marked one is above what marked it. *)
LEMMA HolderAbove ==
  ASSUME NEW m, NEW w \in AllMembers, Above(m, w), HasParent(m.of)
  PROVE  Above(Holder(m.of), w)
<1> DEFINE o == m.of
           L == Len(o)
           h == MemberAt(o, L)
<1>1. Holder(o) = h
  BY DEF Holder, MemberAt
<1>2. o # <<>> /\ o[L].n = 0
  BY DEF HasParent
<1>3. w.of \in Objects /\ Len(w.of) \in Nat
  BY PathFacts DEF AllMembers
<1>4. CASE m = w
  <2>1. L \in Nat \ {0} /\ h \in AllMembers /\ Len(h.of) = L - 1
    BY <1>2, <1>3, <1>4, LastStep
  <2>2. Len(h.of) < L /\ Len(h.of) + 1 = L /\ \A k \in L .. L : k = L
    BY <2>1
  <2>3. Len(h.of) < Len(w.of) /\ h = MemberAt(w.of, Len(h.of) + 1)
    BY <1>4, <2>2
  <2>4. \A k \in Len(h.of) + 1 .. Len(w.of) : w.of[k].n = 0
    BY <1>2, <1>4, <2>2
  <2> HIDE DEF h, L, o
  <2> QED
    BY <1>1, <2>3, <2>4 DEF Above, o
<1>5. CASE m # w
  <2> DEFINE k0 == L + 1
  <2>1. /\ L < Len(w.of) /\ m = MemberAt(w.of, k0)
        /\ \A k \in k0 .. Len(w.of) : w.of[k].n = 0
    BY <1>5 DEF Above
  <2>2. L \in Nat
    <3>1. CASE k0 \in 1 .. Len(w.of)
      <4>1. m \in AllMembers
        BY <1>3, <2>1, <3>1, MemberAtFacts
      <4> QED
        BY <4>1, PathFacts DEF AllMembers
    <3>2. CASE k0 \notin 1 .. Len(w.of)
      <4>1. m.of = SubSeq(w.of, 1, k0 - 1)
        BY <2>1 DEF MemberAt, Member
      <4> QED
        BY <1>3, <4>1 DEF Objects
    <3> QED
      BY <3>1, <3>2
  <2>3. k0 \in 1 .. Len(w.of) /\ k0 - 1 = L
    BY <1>3, <2>1, <2>2
  <2>4. m \in AllMembers /\ o = SubSeq(w.of, 1, L) /\ o \in Objects
    BY <1>3, <2>1, <2>3, MemberAtFacts DEF AllMembers
  <2>5. L \in Nat \ {0} /\ h \in AllMembers /\ Len(h.of) = L - 1
    BY <1>2, <2>4, LastStep
  <2>6. L \in 0 .. Len(w.of) /\ L \in 1 .. L
    BY <1>3, <2>1, <2>5
  <2>7. h = MemberAt(w.of, L) /\ o[L] = w.of[L]
    BY <1>3, <2>4, <2>6, MemberAtPrefix
  <2> HIDE DEF h, o
  <2>8. Len(h.of) + 1 = L /\ Len(h.of) < Len(w.of)
    BY <1>3, <2>1, <2>5
  <2>9. \A k \in L .. Len(w.of) : w.of[k].n = 0
    <3> TAKE k \in L .. Len(w.of)
    <3>1. k = L \/ k \in k0 .. Len(w.of)
      BY <1>3, <2>5
    <3> QED
      BY <1>2, <2>1, <2>7, <3>1
  <2> QED
    BY <1>1, <2>7, <2>8, <2>9 DEF Above, o
<1> QED
  BY <1>4, <1>5

(* update_exist                                                             *)
LEMMA UpdatingMarks ==
  ASSUME OInv, update_exist
  PROVE  OInv'
<1>1. PICK m \in updating :
        /\ exist' = exist \union {m}
        /\ updating' = IF m \notin exist /\ HasParent(m.of) THEN {Holder(m.of)} ELSE {}
        /\ values' = values /\ children' = children /\ schema' = schema
  BY DEF update_exist
<1>2. IInv'
  BY UpdatingKeeps DEF OInv
<1>3. Now' = Now
  BY <1>1 DEF Now
<1>4. \A n : IsMarked(Now, n)' <=> IsMarked(Now, n)
  BY <1>3 DEF IsMarked, WrittenIn
<1>5. \A n \in exist \union {m} : IsMarked(Now, n)
  BY <1>1 DEF OInv
<1>6. HasParent(m.of) => IsMarked(Now, Holder(m.of))
  <2>1. PICK w \in WrittenIn(Now) : Above(m, w)
    BY <1>5 DEF IsMarked
  <2>2. w \in AllMembers
    BY DEF OInv
  <2> QED
    BY <2>1, <2>2, HolderAbove DEF IsMarked
<1>7. \A n \in exist' \union updating' : IsMarked(Now, n)
  BY <1>1, <1>5, <1>6
<1>8. Functional(Now)' /\ WrittenIn(Now)' = WrittenIn(Now)
  BY <1>3 DEF OInv, Functional, WrittenIn
<1> QED
  BY <1>2, <1>4, <1>7, <1>8 DEF OInv

(* Nothing changes.                                                         *)
LEMMA UntouchedMarks ==
  ASSUME OInv, UNCHANGED objectVars
  PROVE  OInv'
<1>1. /\ values' = values /\ children' = children /\ schema' = schema
      /\ exist' = exist /\ updating' = updating
  BY DEF objectVars
<1>2. IInv'
  BY UntouchedKeeps DEF OInv
<1>3. Now' = Now
  BY <1>1 DEF Now
<1>4. WrittenIn(Now)' = WrittenIn(Now) /\ Functional(Now)'
  BY <1>3 DEF WrittenIn, Functional, OInv
<1>5. \A m \in exist' \union updating' : IsMarked(Now, m)'
  BY <1>1, <1>4 DEF OInv, IsMarked
<1> QED
  BY <1>2, <1>4, <1>5 DEF OInv

(* The reader starts from a blank object.                                   *)
LEMMA BlankMarks ==
  ASSUME values' = <<>>, children' = <<>>, exist' = {}, updating' = {}
  PROVE  OInv'
<1>1. IInv'
  BY BlankKeeps
<1>2. WrittenIn(Now)' = {} /\ Functional(Now)'
  BY DEF WrittenIn, Functional, Now
<1> QED
  BY <1>1, <1>2 DEF OInv

(* When no update is going on, the marks are complete.                      *)
LEMMA MarksAreComplete ==
  ASSUME OInv, updating = {}
  PROVE  \A m \in AllMembers : m \in exist <=> IsMarked(Now, m)
<1> SUFFICES ASSUME NEW m \in AllMembers, IsMarked(Now, m)
             PROVE  m \in exist
  BY DEF OInv
<1>1. PICK w \in WrittenIn(Now) : Above(m, w)
  BY DEF IsMarked
<1>2. w \in exist /\ w \in AllMembers
  BY DEF OInv, IInv, WrittenIsReached, Marked, WrittenIn, Now
<1>3. \A n \in exist : HasParent(n.of) => Holder(n.of) \in exist
  BY DEF OInv, IInv, WrittenIsReached, HoldersMarked, Marked
<1>4. CASE m = w
  BY <1>2, <1>4
<1>5. CASE m # w
  <2> DEFINE W == Len(w.of)
             M == Len(m.of)
  <2>1. M < W /\ m = MemberAt(w.of, M + 1) /\ \A k \in M + 1 .. W : w.of[k].n = 0
    BY <1>1, <1>5 DEF Above
  <2>2. W \in Nat /\ M \in Nat /\ w.of \in Objects
    BY <1>2, PathFacts DEF AllMembers
  <2>8. Len(w.of) = W
    OBVIOUS
  <2> HIDE DEF W, M
  <2> DEFINE Q == {d \in Nat : d < W - M => MemberAt(w.of, W - d) \in exist}
  <2>3. ASSUME NEW o \in Objects, NEW x \in exist, x.of = o, o # <<>>, o[Len(o)].n = 0
        PROVE  MemberAt(o, Len(o)) \in exist
    <3>1. HasParent(x.of) /\ Holder(x.of) = MemberAt(o, Len(o))
      BY <2>3 DEF HasParent, Holder, MemberAt
    <3> QED
      BY <1>3, <3>1
  <2> HIDE DEF Q
  <2>4. 0 \in Q
    <3> SUFFICES ASSUME 0 < W - M PROVE MemberAt(w.of, W - 0) \in exist
      BY DEF Q
    <3>1. W - 0 = W /\ W # 0 /\ W \in M + 1 .. W
      BY <2>1, <2>2
    <3>2. w.of # <<>>
      BY <2>8, <3>1
    <3>3. w.of[W].n = 0
      BY <2>1, <3>1
    <3> QED
      BY <1>2, <2>2, <2>3, <2>8, <3>1, <3>2, <3>3
  <2>5. ASSUME NEW d \in Nat, d \in Q
        PROVE  d + 1 \in Q
    <3> SUFFICES ASSUME d + 1 < W - M PROVE MemberAt(w.of, W - (d + 1)) \in exist
      BY DEF Q
    <3> DEFINE k == W - d
               v == MemberAt(w.of, k)
    <3>1. /\ d < W - M /\ k \in 1 .. W /\ k - 1 \in M + 1 .. W /\ W - (d + 1) = k - 1
          /\ k - 1 \in 0 .. W /\ k - 1 \in 1 .. k - 1 /\ k - 1 # 0
      BY <2>1, <2>2
    <3>2. v \in exist
      BY <2>5, <3>1 DEF Q
    <3>3. v \in AllMembers /\ v.of = SubSeq(w.of, 1, k - 1) /\ Len(v.of) = k - 1
      BY <2>2, <2>8, <3>1, MemberAtFacts
    <3>4. MemberAt(v.of, k - 1) = MemberAt(w.of, k - 1) /\ v.of[k - 1] = w.of[k - 1]
      BY <2>2, <2>8, <3>1, <3>3, MemberAtPrefix
    <3> HIDE DEF v
    <3>5. v.of # <<>> /\ v.of \in Objects /\ v.of[Len(v.of)].n = 0
      BY <2>1, <3>1, <3>3, <3>4 DEF AllMembers
    <3>6. MemberAt(v.of, Len(v.of)) \in exist
      BY <2>3, <3>2, <3>5
    <3> QED
      BY <3>1, <3>3, <3>4, <3>6
  <2>6. W - (M + 1) \in Q
    <3>1. W - (M + 1) \in Nat
      BY <2>1, <2>2
    <3> QED
      BY <2>4, <2>5, <3>1, Induction
  <2>7. W - (M + 1) < W - M /\ W - (W - (M + 1)) = M + 1
    BY <2>2
  <2> QED
    BY <2>1, <2>6, <2>7 DEF Q
<1> QED
  BY <1>4, <1>5

-----------------------------------------------------------------------------
(* The program that fills the object, and the file it writes.               *)

BuildInv ==
  pc = "build" => Sound(Now) /\ \A m \in DOMAIN children : children[m] <= MaxChildren

(* Between two operations, what the program has built can be written.       *)
LEMMA BuildWritable ==
  ASSUME OInv, BuildInv, pc = "build", updating = {}
  PROVE  Writable
  BY MarksAreComplete DEF BuildInv, Writable

(* G has what F has, and maybe more.                                        *)
Grows(F, G) ==
  /\ G.schema = F.schema
  /\ DOMAIN F.values \subseteq DOMAIN G.values
  /\ DOMAIN F.children \subseteq DOMAIN G.children
  /\ \A m \in DOMAIN F.children : G.children[m] \in Nat /\ F.children[m] <= G.children[m]

(* A step that was possible stays possible ...                              *)
LEMMA GoesGrows ==
  ASSUME NEW F, NEW G, Sound(F), Grows(F, G), NEW m, NEW n \in Nat, Goes(F, m, n)
  PROVE  Goes(G, m, n)
<1>1. WrittenIn(F) \subseteq WrittenIn(G)
  BY DEF Grows, WrittenIn
<1>2. \A type : Has(F, m, type) => Has(G, m, type)
  BY DEF Grows, Has
<1>3. CASE n = 0
  BY <1>1, <1>2, <1>3, MarkedStays DEF Goes
<1>4. CASE n # 0
  <2>1. m \in DOMAIN F.children /\ n <= F.children[m] /\ Has(F, m, "list")
    BY <1>4 DEF Goes
  <2>2. F.children[m] \in Nat
    BY <2>1 DEF Sound
  <2>3. m \in DOMAIN G.children /\ G.children[m] \in Nat /\ F.children[m] <= G.children[m]
    BY <2>1 DEF Grows
  <2>4. n <= G.children[m]
    BY <2>1, <2>2, <2>3
  <2> QED
    BY <1>2, <1>4, <2>1, <2>3, <2>4 DEF Goes
<1> QED
  BY <1>3, <1>4

(* ... and an object that was reached stays reached.                        *)
LEMMA ReachedGrows ==
  ASSUME NEW F, NEW G, Sound(F), Grows(F, G), NEW o, Reached(F, o)
  PROVE  Reached(G, o)
<1>1. o \in Objects
  BY DEF Reached
<1>2. ASSUME NEW k \in 1 .. Len(o)
      PROVE  Goes(G, MemberAt(o, k), o[k].n)
  <2>1. Goes(F, MemberAt(o, k), o[k].n)
    BY DEF Reached
  <2>2. o[k].n \in Nat
    BY <1>1, PathFacts
  <2> QED
    BY <2>1, <2>2, GoesGrows
<1> QED
  BY <1>1, <1>2 DEF Reached

(* A member that is written marks the classes on the way to it, up to a     *)
(* list; that has children, and marks those before it.                      *)
ListsHave(G, o) == \A j \in 1 .. Len(o) : o[j].n # 0 => MemberAt(o, j) \in DOMAIN G.children

(* A class on the way to a written member is marked.                        *)
LEMMA ClassesMarked ==
  ASSUME NEW G, NEW m \in AllMembers, m \in WrittenIn(G), ListsHave(G, m.of),
         NEW k \in 1 .. Len(m.of), m.of[k].n = 0
  PROVE  IsMarked(G, MemberAt(m.of, k))
<1> DEFINE o == m.of
           c == MemberAt(o, k)
           S == {j \in k .. Len(o) : o[j].n # 0}
<1>1. o \in Objects /\ Len(o) \in Nat
  BY PathFacts DEF AllMembers
<1>2. c \in AllMembers /\ Len(c.of) = k - 1 /\ k \in Nat \ {0}
  BY <1>1, MemberAtFacts
<1>3. CASE S = {}
  <2>1. Len(c.of) < Len(o) /\ Len(c.of) + 1 = k
    BY <1>1, <1>2
  <2>2. \A j \in k .. Len(o) : o[j].n = 0
    BY <1>3
  <2>3. Above(c, m)
    BY <2>1, <2>2 DEF Above
  <2> QED
    BY <2>3 DEF IsMarked
<1>4. CASE S # {}
  <2>1. S \subseteq Nat
    BY <1>1, <1>2
  <2> HIDE DEF S
  <2>2. PICK j \in S : \A i \in S : j <= i
    BY <1>4, <2>1, Least
  <2> DEFINE w == MemberAt(o, j)
  <2>3. j \in k .. Len(o) /\ o[j].n # 0
    BY DEF S
  <2>4. j \in 1 .. Len(o) /\ j # k
    BY <1>1, <1>2, <2>3
  <2>5. w \in DOMAIN G.children
    BY <2>3, <2>4 DEF ListsHave
  <2>6. w \in AllMembers /\ w.of = SubSeq(o, 1, j - 1) /\ Len(w.of) = j - 1
    BY <1>1, <2>4, MemberAtFacts
  <2>7. j - 1 \in 0 .. Len(o) /\ k \in 1 .. j - 1
    BY <1>1, <1>2, <2>3, <2>4
  <2>8. MemberAt(w.of, k) = c
    BY <1>1, <2>6, <2>7, MemberAtPrefix
  <2>9. \A i \in k .. j - 1 : w.of[i].n = 0
    <3> TAKE i \in k .. j - 1
    <3>1. i \in k .. Len(o) /\ i \in 1 .. j - 1 /\ ~(j <= i)
      BY <1>1, <1>2, <2>3
    <3>2. i \notin S
      BY <2>2, <3>1
    <3>3. o[i].n = 0
      BY <3>1, <3>2 DEF S
    <3>4. w.of[i] = o[i]
      BY <1>1, <2>6, <2>7, <3>1, MemberAtPrefix
    <3> QED
      BY <3>3, <3>4
  <2> HIDE DEF w, c
  <2>10. Len(c.of) < Len(w.of) /\ Len(c.of) + 1 = k
    BY <1>2, <2>6, <2>7
  <2>11. Above(c, w)
    BY <2>6, <2>8, <2>9, <2>10 DEF Above
  <2> QED
    BY <2>5, <2>11 DEF IsMarked, WrittenIn, c
<1> QED
  BY <1>3, <1>4

(* The object of a member is reached once the member is written.            *)
LEMMA ConstructedReached ==
  ASSUME Sound(Now), NEW m \in AllMembers, m.of \in Constructed,
         NEW G, Grows(Now, G), m \in WrittenIn(G)
  PROVE  Reached(G, m.of)
<1> DEFINE o == m.of
<1>1. IsProgram(schema)
  BY NowParts DEF Sound
<1>2. /\ o \in Objects /\ RuleFor(o)
      /\ \A k \in 1 .. Len(o) :
           IF o[k].n = 0 THEN get_rule(MemberAt(o, k)).type = "class"
           ELSE o[k].n <= ChildCount(MemberAt(o, k))
  BY <1>1, ConstructedIs
<1>3. ASSUME NEW k \in 1 .. Len(o), o[k].n # 0
      PROVE  Goes(Now, MemberAt(o, k), o[k].n)
  <2> DEFINE w == MemberAt(o, k)
             n == o[k].n
  <2>1. n <= ChildCount(w) /\ n \in Nat
    BY <1>2, <1>3, PathFacts
  <2>2. w \in DOMAIN children
    BY <1>3, <2>1 DEF ChildCount
  <2>3. ChildCount(w) = children[w]
    BY <2>2 DEF ChildCount
  <2>4. Has(Now, w, "list")
    BY <2>2, NowParts DEF Sound
  <2> QED
    BY <1>3, <2>1, <2>2, <2>3, <2>4, NowParts DEF Goes
<1>4. ListsHave(G, o)
  BY <1>3, NowParts DEF Goes, Grows, ListsHave
<1>5. ASSUME NEW k \in 1 .. Len(o)
      PROVE  Goes(G, MemberAt(o, k), o[k].n)
  <2>1. CASE o[k].n # 0
    <3>1. o[k].n \in Nat
      BY <1>2, PathFacts
    <3> QED
      BY <1>3, <2>1, <3>1, GoesGrows
  <2>2. CASE o[k].n = 0
    <3> DEFINE w == MemberAt(o, k)
    <3>1. PICK type \in {"class", "list"} : Has(Now, w, type)
      BY <1>1, <1>2, HoldersHave
    <3>2. get_rule(w).type = type
      BY <1>1, <3>1, HasIsRule
    <3>3. type = "class"
      BY <1>2, <2>2, <3>2
    <3>4. Has(G, w, "class")
      BY <3>1, <3>3, NowParts DEF Has, Grows
    <3>5. IsMarked(G, w)
      BY <1>4, <2>2, ClassesMarked
    <3> QED
      BY <2>2, <3>4, <3>5 DEF Goes
  <2> QED
    BY <2>1, <2>2
<1> QED
  BY <1>2, <1>5 DEF Reached

(* One more member.                                                         *)
LEMMA SoundGrows ==
  ASSUME NEW F, NEW G, Sound(F), Grows(F, G), NEW m \in AllMembers, Reached(G, m.of),
         \A n \in DOMAIN G.children : G.children[n] \in Nat \ {0},
         \/ /\ DOMAIN G.values = DOMAIN F.values \union {m} /\ DOMAIN G.children = DOMAIN F.children
            /\ \E type \in Simple : Has(F, m, type)
         \/ /\ DOMAIN G.values = DOMAIN F.values /\ DOMAIN G.children = DOMAIN F.children \union {m}
            /\ Has(F, m, "list")
  PROVE  Sound(G)
<1>1. IsProgram(G.schema)
  BY DEF Sound, Grows
<1>2. \A n, type : Has(F, n, type) => Has(G, n, type)
  BY DEF Grows, Has
<1>3. \A o : Reached(F, o) => Reached(G, o)
  BY ReachedGrows
<1>4. \A n \in DOMAIN F.values :
        n \in AllMembers /\ Reached(G, n.of) /\ \E type \in Simple : Has(G, n, type)
  BY <1>2, <1>3 DEF Sound
<1>5. \A n \in DOMAIN F.children : n \in AllMembers /\ Reached(G, n.of) /\ Has(G, n, "list")
  BY <1>2, <1>3 DEF Sound
<1>6. \A n \in DOMAIN G.values :
        n \in AllMembers /\ Reached(G, n.of) /\ \E type \in Simple : Has(G, n, type)
  BY <1>2, <1>4
<1>7. \A n \in DOMAIN G.children : n \in AllMembers /\ Reached(G, n.of) /\ Has(G, n, "list")
  BY <1>2, <1>5
<1> QED
  BY <1>1, <1>6, <1>7 DEF Sound

(* The members a program can write have a rule of that type.                *)
LEMMA MemberIs ==
  ASSUME IsProgram(schema), NEW types, NEW m \in Members(Constructed, types)
  PROVE  /\ m \in AllMembers /\ m.of \in Constructed
         /\ \E type \in types : Has(Now, m, type)
<1>1. \E o \in Constructed : \E k \in RulesOf(o) :
        schema[k].type \in types /\ m = Member(o, schema[k].name)
  BY DEF Members
<1>5. PICK o \in Constructed : \E k \in RulesOf(o) :
        schema[k].type \in types /\ m = Member(o, schema[k].name)
  BY <1>1
<1>6. PICK k \in RulesOf(o) : schema[k].type \in types /\ m = Member(o, schema[k].name)
  BY <1>5
<1>2. o \in Objects /\ schema[k].name \in STRING
  BY ConstructedIs, RulesAre DEF RulesOf
<1>3. m \in AllMembers /\ m.of = o /\ m.name = schema[k].name
  BY <1>6, <1>2 DEF Member, AllMembers
<1>4. Has(Now, m, schema[k].type)
  BY <1>3, RuleIs
<1> QED
  BY <1>6, <1>3, <1>4

(* write_data and append_data keep the object sound.                        *)
LEMMA WritingBuilds ==
  ASSUME OInv, BuildInv, pc = "build", pc' = pc,
         NEW m \in Members(Constructed, Simple), NEW value, write_data(m, value)
  PROVE  OInv' /\ BuildInv'
<1>1. Sound(Now) /\ IsProgram(schema) /\ \A n \in DOMAIN children : children[n] <= MaxChildren
  BY NowParts DEF BuildInv, Sound
<1>2. /\ m \in AllMembers /\ m.of \in Constructed
      /\ \E type \in Simple : Has(Now, m, type)
  BY <1>1, MemberIs
<1>3. OInv'
  BY <1>2, WritingMarks
<1>4. /\ schema' = schema /\ children' = children
      /\ DOMAIN values' = DOMAIN values \union {m}
  BY DEF write_data, Extended
<1> DEFINE G == Now'
<1>5. G.schema = schema /\ G.children = children /\ DOMAIN G.values = DOMAIN values \union {m}
  BY <1>4 DEF Now
<1> HIDE DEF G
<1>6. \A n \in DOMAIN children : children[n] \in Nat \ {0}
  BY <1>1, NowParts DEF Sound
<1>7. Grows(Now, G)
  BY <1>5, <1>6, NowParts DEF Grows
<1>8. m \in WrittenIn(G)
  BY <1>5 DEF WrittenIn
<1>9. Reached(G, m.of)
  BY <1>1, <1>2, <1>7, <1>8, ConstructedReached
<1>10. Sound(G)
  <2>1. \A n \in DOMAIN G.children : G.children[n] \in Nat \ {0}
    BY <1>5, <1>6
  <2>2. DOMAIN G.values = DOMAIN Now.values \union {m} /\ DOMAIN G.children = DOMAIN Now.children
    BY <1>5, NowParts
  <2> QED
    BY <1>1, <1>2, <1>7, <1>9, <2>1, <2>2, SoundGrows
<1>11. Sound(Now')
  BY <1>10 DEF G
<1> QED
  BY <1>1, <1>3, <1>4, <1>11 DEF BuildInv

(* So does create_child.                                                    *)
LEMMA CreatingBuilds ==
  ASSUME OInv, BuildInv, pc = "build", pc' = pc,
         NEW m \in Members(Constructed, {"list"}), ChildCount(m) < MaxChildren, create_child(m)
  PROVE  OInv' /\ BuildInv'
<1>1. Sound(Now) /\ IsProgram(schema) /\ \A n \in DOMAIN children : children[n] <= MaxChildren
  BY NowParts DEF BuildInv, Sound
<1>2. m \in AllMembers /\ m.of \in Constructed /\ Has(Now, m, "list")
  BY <1>1, MemberIs
<1>3. OInv'
  BY <1>2, CreatingMarks
<1>4. /\ schema' = schema /\ values' = values /\ children' = Extended(children, m, ChildCount(m) + 1)
  BY DEF create_child
<1>5. \A n \in DOMAIN children : children[n] \in Nat \ {0}
  BY <1>1, NowParts DEF Sound
<1>6. ChildCount(m) \in Nat /\ (m \in DOMAIN children => ChildCount(m) = children[m])
  BY <1>5 DEF ChildCount
<1>7. /\ DOMAIN children' = DOMAIN children \union {m}
      /\ \A n \in DOMAIN children' : children'[n] = IF n = m THEN ChildCount(m) + 1 ELSE children[n]
  BY <1>4 DEF Extended
<1>8. MaxChildren \in Nat
  BY ProgramsAssumption
<1>9. \A n \in DOMAIN children' : children'[n] \in Nat \ {0} /\ children'[n] <= MaxChildren
  BY <1>1, <1>5, <1>6, <1>7, <1>8
<1>10. \A n \in DOMAIN children : children[n] <= children'[n]
  BY <1>5, <1>6, <1>7
<1> DEFINE G == Now'
<1>11. G.schema = schema /\ G.values = values /\ G.children = children'
  BY <1>4 DEF Now
<1> HIDE DEF G
<1>12. Grows(Now, G)
  BY <1>7, <1>9, <1>10, <1>11, NowParts DEF Grows
<1>13. m \in WrittenIn(G)
  BY <1>7, <1>11 DEF WrittenIn
<1>14. Reached(G, m.of)
  BY <1>1, <1>2, <1>12, <1>13, ConstructedReached
<1>15. Sound(G)
  <2>1. \A n \in DOMAIN G.children : G.children[n] \in Nat \ {0}
    BY <1>9, <1>11
  <2>2. DOMAIN G.values = DOMAIN Now.values /\ DOMAIN G.children = DOMAIN Now.children \union {m}
    BY <1>7, <1>11, NowParts
  <2> QED
    BY <1>1, <1>2, <1>12, <1>14, <2>1, <2>2, SoundGrows
<1>16. Sound(Now')
  BY <1>15 DEF G
<1> QED
  BY <1>3, <1>9, <1>16 DEF BuildInv

(* The file, as it was written: from is what it was written from.           *)
IsFile(f) ==
  /\ DOMAIN f = {"count", "data", "crc", "from"}
  /\ Sound(f.from) /\ Functional(f.from) /\ Mandatory(f.from)
  /\ \E data : /\ f.crc = CFG_crc16(data, Cardinality(KeptUnder(f.from, <<>>)))
               /\ ObjectRuns(f.from, <<>>, data, KeptUnder(f.from, <<>>))

FileInv == pc # "build" => IsFile(file)

(* write makes a file of it, or none.                                       *)
LEMMA WriteWrites ==
  ASSUME OInv, BuildInv, write
  PROVE  FileInv'
<1>1. CASE check_exist
  <2>1. Writable
    BY BuildWritable DEF write
  <2>2. file' = [ count |-> get_object_count, data |-> serialize,
                  crc |-> CFG_crc16(serialize, get_object_count), from |-> Now ]
    BY <1>1 DEF write, Now
  <2>3. get_object_count = Cardinality(KeptUnder(Now, <<>>))
    BY <2>1, CountIs
  <2>4. ObjectRuns(Now, <<>>, serialize, KeptUnder(Now, <<>>))
    BY <2>1, SerializeRuns
  <2>5. Sound(Now) /\ Functional(Now) /\ Mandatory(Now)
    BY <1>1, <2>1, CheckedIs DEF Writable, OInv
  <2>6. /\ DOMAIN file' = {"count", "data", "crc", "from"}
        /\ file'.from = Now /\ file'.crc = CFG_crc16(serialize, get_object_count)
    BY <2>2
  <2> DEFINE f == file'
             N == Now
             s == serialize
             c == get_object_count
  <2>7. /\ DOMAIN f = {"count", "data", "crc", "from"} /\ f.from = N /\ f.crc = CFG_crc16(s, c)
        /\ c = Cardinality(KeptUnder(N, <<>>)) /\ ObjectRuns(N, <<>>, s, KeptUnder(N, <<>>))
        /\ Sound(N) /\ Functional(N) /\ Mandatory(N)
    BY <2>3, <2>4, <2>5, <2>6
  <2> HIDE DEF f, N, s, c
  <2>8. IsFile(f)
    BY <2>7 DEF IsFile
  <2>9. IsFile(file')
    BY <2>8 DEF f
  <2> QED
    BY <2>9 DEF FileInv
<1>2. CASE ~check_exist
  BY <1>2 DEF write, FileInv
<1> QED
  BY <1>1, <1>2

(* Damage leaves the CRC as it was written.                                 *)
LEMMA DamageKeeps ==
  ASSUME FileInv, Damage
  PROVE  FileInv'
<1>1. IsFile(file)
  BY DEF FileInv, Damage
<1>2. PICK data : file' = [file EXCEPT !.data = data]
  BY DEF Damage
<1>3. /\ DOMAIN file' = {"count", "data", "crc", "from"}
      /\ file'.crc = file.crc /\ file'.from = file.from
  BY <1>1, <1>2 DEF IsFile
<1> DEFINE f == file
           g == file'
<1>4. IsFile(f) /\ DOMAIN g = {"count", "data", "crc", "from"} /\ g.crc = f.crc /\ g.from = f.from
  BY <1>1, <1>3
<1> HIDE DEF f, g
<1>5. IsFile(g)
  BY <1>4 DEF IsFile
<1>6. IsFile(file')
  BY <1>5 DEF g
<1> QED
  BY <1>6 DEF FileInv

(* A file whose CRC holds is as it was written.                             *)
LEMMA IntactFile ==
  ASSUME IsFile(file), CrcHolds
  PROVE  /\ file.count = Cardinality(KeptUnder(file.from, <<>>))
         /\ ObjectRuns(file.from, <<>>, file.data, KeptUnder(file.from, <<>>))
<1>1. PICK data : /\ file.crc = CFG_crc16(data, Cardinality(KeptUnder(file.from, <<>>)))
                  /\ ObjectRuns(file.from, <<>>, data, KeptUnder(file.from, <<>>))
  BY DEF IsFile
<1> DEFINE c == Cardinality(KeptUnder(file.from, <<>>))
<1>2. CFG_crc16(file.data, file.count) = CFG_crc16(data, c)
  BY <1>1 DEF CrcHolds
<1> HIDE DEF c
<1>3. file.data = data /\ file.count = c
  BY <1>2 DEF CFG_crc16
<1> QED
  BY <1>1, <1>3 DEF c

-----------------------------------------------------------------------------
(* A file and its run, token by token.                                      *)

TraceOf(F, D, q) ==
  /\ Run(F, FrontOf(<<>>), D, q[Len(D) + 1], KeptUnder(F, <<>>), q)
  /\ InObject(q[Len(D) + 1]) /\ q[Len(D) + 1].of = <<>>

(* Each token of the file is a step of the reader.                          *)
LEMMA TraceStep ==
  ASSUME NEW F, NEW D, NEW q, TraceOf(F, D, q)
  PROVE  /\ Len(D) \in Nat /\ q[1] = FrontOf(<<>>)
         /\ InObject(q[Len(D) + 1]) /\ q[Len(D) + 1].of = <<>>
         /\ \A i \in 1 .. Len(D) : i \in Nat /\ ReaderStep(F, q[i], D[i], q[i + 1])
<1>1. Run(F, FrontOf(<<>>), D, q[Len(D) + 1], KeptUnder(F, <<>>), q)
      /\ InObject(q[Len(D) + 1]) /\ q[Len(D) + 1].of = <<>>
  BY DEF TraceOf
<1>2. IsList(D) /\ q[1] = FrontOf(<<>>) /\ \A i \in 1 .. Len(D) : ReaderStep(F, q[i], D[i], q[i + 1])
  BY <1>1 DEF Run
<1>3. Len(D) \in Nat
  <2>1. PICK S : D \in Seq(S)
    BY <1>2 DEF IsList
  <2> QED
    BY <2>1
<1> QED
  BY <1>1, <1>2, <1>3

(* What is not in an object has a token to come.                            *)
LEMMA MoreToCome ==
  ASSUME NEW F, NEW D, NEW q, TraceOf(F, D, q), NEW i \in 1 .. Len(D) + 1,
         ~InObject(q[i]) \/ q[i].of # <<>>
  PROVE  i \in 1 .. Len(D)
<1>1. i # Len(D) + 1 /\ Len(D) \in Nat
  BY TraceStep
<1> QED
  BY <1>1

(* In an object, a token that is no End is the tag of a kept member.        *)
LEMMA TagHere ==
  ASSUME NEW F, NEW D, NEW q, TraceOf(F, D, q),
         NEW i \in 1 .. Len(D), InObject(q[i]), D[i] # End
  PROVE  /\ TagMember(q, D, i) \in AllMembers
         /\ TagMember(q, D, i) = Member(q[i].of, D[i].name)
         /\ TagMember(q, D, i).of = q[i].of
         /\ D[i].type \in AllTypes
         /\ KeptIn(F, TagMember(q, D, i)) /\ Has(F, TagMember(q, D, i), D[i].type)
         /\ q[i + 1] = AfterTag(TagMember(q, D, i), D[i].type)
         /\ TagAt(q, D, i)
         /\ i + 1 \in 1 .. Len(D)
<1>1. ReaderStep(F, q[i], D[i], q[i + 1]) /\ i \in Nat /\ Len(D) \in Nat
  BY TraceStep
<1>2. q[i].kind \in {"front", "object"}
  BY DEF InObject
<1>3. TagStep(F, q[i], D[i], q[i + 1])
  BY <1>1, <1>2 DEF ReaderStep, ValueStep, CountStep, EndStep
<1>4. PICK m \in AllMembers : \E type \in AllTypes :
        /\ q[i].of = m.of /\ D[i] = TagOf(m, type) /\ KeptIn(F, m) /\ Has(F, m, type)
        /\ q[i + 1] = AfterTag(m, type)
  BY <1>3 DEF TagStep
<1>5. PICK type \in AllTypes :
        /\ q[i].of = m.of /\ D[i] = TagOf(m, type) /\ KeptIn(F, m) /\ Has(F, m, type)
        /\ q[i + 1] = AfterTag(m, type)
  BY <1>4
<1>6. D[i].type = type /\ D[i].name = m.name
  BY <1>5 DEF TagOf
<1>7. m = Member(m.of, m.name)
  BY DEF AllMembers, Member
<1>8. TagMember(q, D, i) = m /\ TagMember(q, D, i) = Member(q[i].of, D[i].name)
  BY <1>5, <1>6, <1>7 DEF TagMember
<1>9. i + 1 \in 1 .. Len(D)
  <2>1. i + 1 \in 1 .. Len(D) + 1
    BY <1>1
  <2>2. ~InObject(q[i + 1]) \/ q[i + 1].of # <<>>
    <3>1. CASE type = "class"
      <4>1. q[i + 1] = FrontOf(Child(m, 0)) /\ Child(m, 0) # <<>>
        BY <1>5, <3>1, ClassIsChild, ChildPath DEF AfterTag
      <4> QED
        BY <4>1, InAnObject
    <3>2. CASE type # "class"
      BY <1>5, <3>2, InAnObject DEF AfterTag
    <3> QED
      BY <3>1, <3>2
  <2> QED
    BY <2>1, <2>2, MoreToCome
<1>10. TagAt(q, D, i)
  BY DEF TagAt
<1> QED
  BY <1>5, <1>6, <1>8, <1>9, <1>10

(* After the tag of a simple member comes its value.                        *)
LEMMA ValueHere ==
  ASSUME NEW F, NEW D, NEW q, TraceOf(F, D, q),
         NEW i \in 1 .. Len(D), NEW m, q[i] = ValueOf(m)
  PROVE  /\ m \in DOMAIN F.values /\ D[i] = [value |-> F.values[m]] /\ q[i + 1] = In(m.of)
         /\ ~TagAt(q, D, i)
<1>1. ReaderStep(F, q[i], D[i], q[i + 1])
  BY TraceStep
<1>2. ~InObject(q[i]) /\ q[i].kind = "value" /\ q[i].of = m
  BY InAnObject
<1>3. ValueStep(F, q[i], D[i], q[i + 1])
  BY <1>1, <1>2 DEF ReaderStep, TagStep, CountStep, EndStep
<1> QED
  BY <1>2, <1>3 DEF ValueStep, TagAt

(* After the tag of a list comes the count of its children.                 *)
LEMMA CountHere ==
  ASSUME NEW F, NEW D, NEW q, TraceOf(F, D, q),
         NEW i \in 1 .. Len(D), NEW m, q[i] = CountOf(m)
  PROVE  /\ m \in DOMAIN F.children /\ D[i] = [count |-> F.children[m]]
         /\ q[i + 1] = FrontOf(Child(m, 1))
         /\ ~TagAt(q, D, i)
<1>1. ReaderStep(F, q[i], D[i], q[i + 1])
  BY TraceStep
<1>2. ~InObject(q[i]) /\ q[i].kind = "count" /\ q[i].of = m
  BY InAnObject
<1>3. CountStep(F, q[i], D[i], q[i + 1])
  BY <1>1, <1>2 DEF ReaderStep, TagStep, ValueStep, EndStep
<1> QED
  BY <1>2, <1>3 DEF CountStep, TagAt

(* An End ends an object that is not the top.                               *)
LEMMA EndHere ==
  ASSUME NEW F, NEW D, NEW q, TraceOf(F, D, q),
         NEW i \in 1 .. Len(D), InObject(q[i]), D[i] = End
  PROVE  /\ q[i].of # <<>> /\ Reached(F, q[i].of)
         /\ q[i].kind = "front" => KeptUnder(F, q[i].of) = {}
         /\ q[i + 1] = AfterEnd(F, q[i].of)
         /\ ~TagAt(q, D, i)
<1>1. ReaderStep(F, q[i], D[i], q[i + 1])
  BY TraceStep
<1>2. q[i].kind \in {"front", "object"}
  BY DEF InObject
<1>3. ~TagStep(F, q[i], D[i], q[i + 1])
  BY NoEnd DEF TagStep, TagOf
<1>4. EndStep(F, q[i], D[i], q[i + 1])
  BY <1>1, <1>2, <1>3 DEF ReaderStep, ValueStep, CountStep
<1> QED
  BY <1>4 DEF EndStep, TagAt

(* The members that the reader has come to.                                 *)
Passed(q, s, i) == {TagMember(q, s, j) : j \in {k \in 1 .. i - 1 : TagAt(q, s, k)}}

(* None is passed at the front, all are at the end, and a tag adds its own. *)
LEMMA PassedFacts ==
  ASSUME NEW F, NEW D, NEW q, TraceOf(F, D, q)
  PROVE  /\ Passed(q, D, 1) = {}
         /\ Passed(q, D, Len(D) + 1) = KeptUnder(F, <<>>)
         /\ \A i \in 1 .. Len(D) + 1 : /\ IsFiniteSet(Passed(q, D, i))
                                       /\ Passed(q, D, i) \subseteq KeptUnder(F, <<>>)
         /\ \A i \in 1 .. Len(D) :
              /\ TagAt(q, D, i) => /\ TagMember(q, D, i) \notin Passed(q, D, i)
                                   /\ Passed(q, D, i + 1) = Passed(q, D, i) \union {TagMember(q, D, i)}
              /\ ~TagAt(q, D, i) => Passed(q, D, i + 1) = Passed(q, D, i)
<1> DEFINE T == KeptUnder(F, <<>>)
           M(j) == TagMember(q, D, j)
           A(j) == TagAt(q, D, j)
           P(i) == {M(j) : j \in {k \in 1 .. i - 1 : A(k)}}
           L == Len(D)
<1>1. L \in Nat
  BY TraceStep
<1>2. /\ \A i \in 1 .. L : A(i) => M(i) \in T
      /\ \A m \in T : \E i \in 1 .. L : A(i) /\ M(i) = m
      /\ \A i, j \in 1 .. L : A(i) /\ A(j) /\ M(i) = M(j) => i = j
  BY DEF TraceOf, Run
<1>3. \A i : Passed(q, D, i) = P(i)
  BY DEF Passed
<1> HIDE DEF T, M, A, L
<1>4. P(1) = {}
  OBVIOUS
<1>5. P(L + 1) = T
  <2>1. (L + 1) - 1 = L
    BY <1>1
  <2> QED
    BY <1>2, <2>1
<1>6. ASSUME NEW i \in 1 .. L + 1
      PROVE  IsFiniteSet(P(i)) /\ P(i) \subseteq T
  <2>1. i - 1 \in Int /\ 1 \in Int /\ \A k \in 1 .. i - 1 : k \in 1 .. L
    BY <1>1
  <2>2. IsFiniteSet(1 .. i - 1)
    BY <2>1, FS_Interval
  <2> DEFINE S == {k \in 1 .. i - 1 : A(k)}
             f == [k \in S |-> M(k)]
  <2>3. IsFiniteSet(S)
    <3>1. S \subseteq 1 .. i - 1
      OBVIOUS
    <3> HIDE DEF S
    <3> QED
      BY <2>2, <3>1, FS_Subset
  <2>4. P(i) = {M(k) : k \in S}
    OBVIOUS
  <2>5. \A k \in S : k \in 1 .. L /\ A(k)
    BY <2>1
  <2> HIDE DEF S
  <2>6. {f[k] : k \in S} = {M(k) : k \in S}
    OBVIOUS
  <2>7. f \in Surjection(S, {f[k] : k \in S})
    <3>1. f \in [S -> {f[k] : k \in S}]
      OBVIOUS
    <3>2. \A y \in {f[k] : k \in S} : \E k \in S : f[k] = y
      OBVIOUS
    <3> QED
      BY <3>1, <3>2 DEF Surjection
  <2>8. IsFiniteSet({f[k] : k \in S})
    BY <2>3, <2>7, FS_Surjection
  <2>9. {M(k) : k \in S} \subseteq T
    BY <1>2, <2>5
  <2> QED
    BY <2>4, <2>6, <2>8, <2>9
<1>7. ASSUME NEW i \in 1 .. L
      PROVE  /\ A(i) => M(i) \notin P(i) /\ P(i + 1) = P(i) \union {M(i)}
             /\ ~A(i) => P(i + 1) = P(i)
  <2>1. \A k : k \in 1 .. (i + 1) - 1 <=> k \in 1 .. i - 1 \/ k = i
    BY <1>1
  <2>2. \A k \in 1 .. i - 1 : k \in 1 .. L /\ k # i
    BY <1>1
  <2>3. A(i) => M(i) \notin P(i)
    BY <1>2, <2>2
  <2>4. A(i) => P(i + 1) = P(i) \union {M(i)}
    BY <2>1
  <2>5. ~A(i) => P(i + 1) = P(i)
    BY <2>1
  <2> QED
    BY <2>3, <2>4, <2>5
<1> HIDE DEF P
<1>8. /\ Passed(q, D, 1) = {} /\ Passed(q, D, L + 1) = T
      /\ \A i \in 1 .. L + 1 : IsFiniteSet(Passed(q, D, i)) /\ Passed(q, D, i) \subseteq T
      /\ \A i \in 1 .. L :
           /\ A(i) => M(i) \notin Passed(q, D, i) /\ Passed(q, D, i + 1) = Passed(q, D, i) \union {M(i)}
           /\ ~A(i) => Passed(q, D, i + 1) = Passed(q, D, i)
  BY <1>3, <1>4, <1>5, <1>6, <1>7
<1> QED
  BY <1>8 DEF T, M, A, L

-----------------------------------------------------------------------------
(* The way to where the reader is, and what is open on it: the members that *)
(* it has come to and not to the end of.                                    *)

OnWay(p, w) == Len(w.of) + 1 \in 1 .. Len(p) /\ MemberAt(p, Len(w.of) + 1) = w
OpenIn(p) == {w \in AllMembers : OnWay(p, w)}

(* The children of m that have been read.                                   *)
ReadCount(F, p, m) == IF OnWay(p, m) THEN p[Len(m.of) + 1].n ELSE F.children[m]

(* At the top nothing is open, and every list has been read.                *)
LEMMA NoneOpen ==
  ASSUME NEW F, NEW m
  PROVE  OpenIn(<<>>) = {} /\ ReadCount(F, <<>>, m) = F.children[m]
<1>1. Len(<<>>) = 0
  OBVIOUS
<1>2. \A w : ~OnWay(<<>>, w)
  BY <1>1 DEF OnWay
<1> QED
  BY <1>2 DEF OpenIn, ReadCount

(* One step further opens one member.                                       *)
LEMMA WayLonger ==
  ASSUME NEW m \in AllMembers, NEW n \in Nat
  PROVE  /\ OpenIn(Child(m, n)) = OpenIn(m.of) \union {m}
         /\ m \notin OpenIn(m.of)
         /\ \A F : \A w \in AllMembers :
              ReadCount(F, Child(m, n), w) = IF w = m THEN n ELSE ReadCount(F, m.of, w)
         /\ \A F : ReadCount(F, m.of, m) = F.children[m]
<1> DEFINE p == Child(m, n)
           L == Len(m.of)
<1>1. /\ L \in Nat /\ Len(p) = L + 1 /\ MemberAt(p, L + 1) = m
      /\ p[L + 1] = [name |-> m.name, n |-> n]
      /\ \A k \in 1 .. L : MemberAt(p, k) = MemberAt(m.of, k) /\ p[k] = m.of[k]
  BY ChildPath
<1>2. p[L + 1].n = n
  BY <1>1
<1> HIDE DEF p
<1>3. OnWay(p, m) /\ ~OnWay(m.of, m)
  BY <1>1 DEF OnWay
<1>4. ASSUME NEW w \in AllMembers, w # m
      PROVE  /\ OnWay(p, w) <=> OnWay(m.of, w)
             /\ \A F : ReadCount(F, p, w) = ReadCount(F, m.of, w)
  <2> DEFINE j == Len(w.of) + 1
  <2>1. Len(w.of) \in Nat
    BY PathFacts DEF AllMembers
  <2>2. CASE j \in 1 .. L
    <3>1. j \in 1 .. Len(p) /\ MemberAt(p, j) = MemberAt(m.of, j) /\ p[j] = m.of[j]
      BY <1>1, <2>2
    <3>2. OnWay(p, w) <=> OnWay(m.of, w)
      BY <2>2, <3>1 DEF OnWay
    <3> QED
      BY <3>1, <3>2 DEF ReadCount
  <2>3. CASE j \notin 1 .. L
    <3>1. ~OnWay(m.of, w)
      BY <2>3 DEF OnWay
    <3>2. j \in 1 .. Len(p) => j = L + 1
      BY <1>1, <2>1, <2>3
    <3>3. ~OnWay(p, w)
      BY <1>1, <1>4, <3>2 DEF OnWay
    <3> QED
      BY <3>1, <3>3 DEF ReadCount
  <2> QED
    BY <2>2, <2>3
<1>5. \A F : ReadCount(F, p, m) = n /\ ReadCount(F, m.of, m) = F.children[m]
  BY <1>2, <1>3 DEF ReadCount
<1>6. OpenIn(p) = OpenIn(m.of) \union {m}
  BY <1>3, <1>4 DEF OpenIn
<1>7. m \notin OpenIn(m.of)
  BY <1>3 DEF OpenIn
<1> QED
  BY <1>4, <1>5, <1>6, <1>7 DEF p

-----------------------------------------------------------------------------
(* The frames of the reader.                                                *)

ObjectFrame(o) == [kind |-> "object", object |-> o]
ListFrame(m, n, c) == [kind |-> "list", list |-> m, done |-> n, list_count |-> c]

(* The fields of the frames.                                                *)
LEMMA FrameParts ==
  ASSUME NEW o, NEW m, NEW n, NEW c
  PROVE  /\ ObjectFrame(o).kind = "object" /\ ObjectFrame(o).object = o
         /\ ListFrame(m, n, c).kind = "list" /\ ListFrame(m, n, c).list = m
         /\ ListFrame(m, n, c).done = n /\ ListFrame(m, n, c).list_count = c
         /\ ObjectFrame(o) # ListFrame(m, n, c)
         /\ NewChild(m, n) = ObjectFrame(Child(m, n))
         /\ Top = ObjectFrame(<<>>)
<1>1. ObjectFrame(o).kind = "object" /\ ListFrame(m, n, c).kind = "list"
  BY DEF ObjectFrame, ListFrame
<1>2. ObjectFrame(o) # ListFrame(m, n, c)
  BY <1>1
<1> QED
  BY <1>1, <1>2 DEF ObjectFrame, ListFrame, NewChild, Top

(* One more child done.                                                     *)
LEMMA MoreDone ==
  ASSUME NEW m, NEW n, NEW c
  PROVE  [ListFrame(m, n, c) EXCEPT !.done = @ + 1] = ListFrame(m, n + 1, c)
BY DEF ListFrame

FrameFits(F, f) ==
  \/ \E o \in Objects : f = ObjectFrame(o)
  \/ \E m \in AllMembers : \E n \in Nat :
       m \in DOMAIN F.children /\ n <= F.children[m] /\ f = ListFrame(m, n, F.children[m])

(* A class is in an object, and so is a list; a child is in a list.         *)
Holds(f, g) ==
  \/ \E m \in AllMembers : f = ObjectFrame(m.of) /\ g = ObjectFrame(Child(m, 0))
  \/ \E m \in AllMembers : \E n, c : f = ObjectFrame(m.of) /\ g = ListFrame(m, n, c)
  \/ \E m \in AllMembers : \E n \in Nat \ {0} : \E c :
       f = ListFrame(m, n, c) /\ g = ObjectFrame(Child(m, n))

FramesFit(F, fs) ==
  /\ IsList(fs)
  /\ Len(fs) \in Nat \ {0}
  /\ fs[1] = Top
  /\ \A k \in 1 .. Len(fs) : FrameFits(F, fs[k])
  /\ \A k \in 1 .. Len(fs) - 1 : Holds(fs[k], fs[k + 1])

(* The last frame is one of them.                                           *)
LEMMA LastFits ==
  ASSUME NEW F, NEW fs, FramesFit(F, fs)
  PROVE  /\ FrameFits(F, Last(fs)) /\ Last(fs) = fs[Len(fs)]
         /\ Len(fs) \in Nat /\ Len(fs) \in 1 .. Len(fs)
<1>1. Len(fs) \in Nat \ {0}
  BY DEF FramesFit
<1> QED
  BY <1>1 DEF FramesFit, Last

(* The first frame of all.                                                  *)
LEMMA TopFits ==
  ASSUME NEW F
  PROVE  FramesFit(F, <<Top>>) /\ Last(<<Top>>) = Top
<1>1. IsList(<<Top>>)
  <2>1. <<Top>> \in Seq({Top})
    OBVIOUS
  <2> QED
    BY <2>1 DEF IsList
<1>2. Len(<<Top>>) = 1 /\ <<Top>>[1] = Top
  OBVIOUS
<1>3. FrameFits(F, Top)
  BY FrameParts, TopReached DEF FrameFits
<1> QED
  BY <1>1, <1>2, <1>3 DEF FramesFit, Last

(* One frame more.                                                          *)
LEMMA FramesPush ==
  ASSUME NEW F, NEW fs, FramesFit(F, fs), NEW g, FrameFits(F, g), Holds(Last(fs), g)
  PROVE  FramesFit(F, Append(fs, g)) /\ Last(Append(fs, g)) = g
<1> DEFINE gs == Append(fs, g)
           L == Len(fs)
<1>1. IsList(fs) /\ L \in Nat \ {0} /\ Last(fs) = fs[L]
  BY LastFits DEF FramesFit
<1>2. /\ IsList(gs) /\ Len(gs) = L + 1 /\ gs[L + 1] = g
      /\ \A k \in 1 .. L : gs[k] = fs[k]
  BY <1>1, Appended
<1> HIDE DEF gs
<1>3. gs[1] = Top
  BY <1>1, <1>2 DEF FramesFit
<1>4. \A k \in 1 .. Len(gs) : FrameFits(F, gs[k])
  <2> TAKE k \in 1 .. Len(gs)
  <2>1. k \in 1 .. L \/ k = L + 1
    BY <1>1, <1>2
  <2> QED
    BY <1>2, <2>1 DEF FramesFit
<1>5. \A k \in 1 .. Len(gs) - 1 : Holds(gs[k], gs[k + 1])
  <2> TAKE k \in 1 .. Len(gs) - 1
  <2>1. CASE k = L
    BY <1>1, <1>2, <2>1
  <2>2. CASE k # L
    <3>1. k \in 1 .. L - 1 /\ k \in 1 .. L /\ k + 1 \in 1 .. L
      BY <1>1, <1>2, <2>2
    <3> QED
      BY <1>2, <3>1 DEF FramesFit
  <2> QED
    BY <2>1, <2>2
<1>6. Len(gs) \in Nat \ {0} /\ Last(gs) = g
  BY <1>1, <1>2 DEF Last
<1>7. FramesFit(F, gs) /\ Last(gs) = g
  BY <1>2, <1>3, <1>4, <1>5, <1>6 DEF FramesFit
<1> QED
  BY <1>7 DEF gs

(* One frame less.                                                          *)
LEMMA FramesPop ==
  ASSUME NEW F, NEW fs, FramesFit(F, fs), Len(fs) > 1
  PROVE  /\ FramesFit(F, Front(fs))
         /\ Holds(Last(Front(fs)), Last(fs)) /\ FrameFits(F, Last(Front(fs)))
<1> DEFINE gs == Front(fs)
           L == Len(fs)
<1>1. IsList(fs) /\ L \in Nat \ {0} /\ L > 1 /\ Last(fs) = fs[L]
  BY LastFits DEF FramesFit
<1>2. PICK S : fs \in Seq(S)
  BY <1>1 DEF IsList
<1>3. gs \in Seq(S) /\ Len(gs) = L - 1 /\ \A k \in 1 .. L - 1 : gs[k] = fs[k]
  BY <1>1, <1>2 DEF Front
<1>4. IsList(gs)
  BY <1>3 DEF IsList
<1> HIDE DEF gs
<1>5. gs[1] = Top
  BY <1>1, <1>3 DEF FramesFit
<1>6. \A k \in 1 .. Len(gs) : FrameFits(F, gs[k])
  <2> TAKE k \in 1 .. Len(gs)
  <2>1. k \in 1 .. L /\ k \in 1 .. L - 1
    BY <1>1, <1>3
  <2> QED
    BY <1>3, <2>1 DEF FramesFit
<1>7. \A k \in 1 .. Len(gs) - 1 : Holds(gs[k], gs[k + 1])
  <2> TAKE k \in 1 .. Len(gs) - 1
  <2>1. k \in 1 .. L - 1 /\ k + 1 \in 1 .. L - 1
    BY <1>1, <1>3
  <2>2. Holds(fs[k], fs[k + 1])
    BY <2>1 DEF FramesFit
  <2> QED
    BY <1>3, <2>1, <2>2
<1>8. Last(gs) = fs[L - 1] /\ Len(gs) \in Nat \ {0} /\ L - 1 \in 1 .. Len(gs)
  BY <1>1, <1>3 DEF Last
<1>9. Holds(fs[L - 1], fs[L])
  <2>1. L - 1 \in 1 .. L - 1 /\ (L - 1) + 1 = L
    BY <1>1
  <2>2. Holds(fs[L - 1], fs[(L - 1) + 1])
    BY <2>1 DEF FramesFit
  <2> QED
    BY <2>1, <2>2
<1>10. FrameFits(F, Last(gs))
  BY <1>3, <1>6, <1>8
<1>11. FramesFit(F, gs)
  BY <1>4, <1>5, <1>6, <1>7, <1>8 DEF FramesFit
<1>12. Holds(Last(gs), Last(fs))
  BY <1>1, <1>8, <1>9
<1> QED
  BY <1>10, <1>11, <1>12 DEF gs

(* A list is in an object, and so is a frame that is not the outermost one. *)
LEMMA ListIsInner ==
  ASSUME NEW F, NEW fs, FramesFit(F, fs), NEW m, NEW n, NEW c, Last(fs) = ListFrame(m, n, c)
  PROVE  Len(fs) > 1
<1>1. Last(fs) = fs[Len(fs)] /\ Len(fs) \in Nat \ {0} /\ fs[1] = ObjectFrame(<<>>)
  BY LastFits, FrameParts DEF FramesFit
<1> DEFINE L == Len(fs)
<1>2. L \in Nat \ {0} /\ (L = 1 => ObjectFrame(<<>>) = ListFrame(m, n, c))
  BY <1>1
<1>3. ObjectFrame(<<>>) # ListFrame(m, n, c)
  BY FrameParts
<1> HIDE DEF L
<1>4. L > 1
  BY <1>2, <1>3
<1> QED
  BY <1>4 DEF L

(* The object of the outermost frame alone is the top.                      *)
LEMMA InnerIsLower ==
  ASSUME NEW F, NEW fs, FramesFit(F, fs), NEW o, Last(fs) = ObjectFrame(o)
  PROVE  Len(fs) > 1 <=> o # <<>>
<1>1. Last(fs) = fs[Len(fs)] /\ Len(fs) \in Nat \ {0} /\ fs[1] = ObjectFrame(<<>>)
  BY LastFits, FrameParts DEF FramesFit
<1>2. CASE Len(fs) > 1
  <2>1. Holds(Last(Front(fs)), ObjectFrame(o))
    BY <1>2, FramesPop
  <2>2. \E m \in AllMembers : \E n \in Nat : ObjectFrame(o) = ObjectFrame(Child(m, n))
    BY <2>1, FrameParts DEF Holds
  <2>3. \E m \in AllMembers : \E n \in Nat : o = Child(m, n)
    BY <2>2, FrameParts
  <2> QED
    BY <1>2, <2>3, ChildPath
<1>3. CASE ~(Len(fs) > 1)
  <2> DEFINE L == Len(fs)
  <2>4. L \in Nat \ {0} /\ ~(L > 1)
    BY <1>1, <1>3
  <2> HIDE DEF L
  <2>5. L = 1
    BY <2>4
  <2>1. Len(fs) = 1
    BY <2>5 DEF L
  <2>2. ObjectFrame(o).object = o /\ ObjectFrame(<<>>).object = <<>>
    BY FrameParts
  <2>3. ObjectFrame(o) = ObjectFrame(<<>>)
    BY <1>1, <2>1
  <2> QED
    BY <1>3, <2>2, <2>3
<1> QED
  BY <1>2, <1>3

(* One child more.                                                          *)
LEMMA FramesNext ==
  ASSUME NEW F, NEW fs, FramesFit(F, fs), NEW m \in AllMembers, NEW n \in Nat,
         m \in DOMAIN F.children, F.children[m] \in Nat, n < F.children[m],
         Last(fs) = ListFrame(m, n, F.children[m])
  PROVE  LET gs == [fs EXCEPT ![Len(fs)].done = @ + 1]
         IN  FramesFit(F, gs) /\ Last(gs) = ListFrame(m, n + 1, F.children[m])
<1> DEFINE L == Len(fs)
           c == F.children[m]
           gs == [fs EXCEPT ![L].done = @ + 1]
<1>1. IsList(fs) /\ L \in Nat \ {0} /\ Last(fs) = fs[L] /\ L > 1 /\ fs[1] = Top
  BY LastFits, ListIsInner DEF FramesFit
<1>2. DOMAIN fs = 1 .. L
  <2>1. PICK S : fs \in Seq(S)
    BY <1>1 DEF IsList
  <2> QED
    BY <2>1
<1>3. gs = [k \in 1 .. L |-> IF k = L THEN [fs[L] EXCEPT !.done = @ + 1] ELSE fs[k]]
  BY <1>2
<1>4. gs[L] = ListFrame(m, n + 1, c)
  <2>1. gs[L] = [fs[L] EXCEPT !.done = @ + 1]
    BY <1>1, <1>3
  <2>2. fs[L] = ListFrame(m, n, c)
    BY <1>1
  <2> QED
    BY <2>1, <2>2, MoreDone
<1>5. DOMAIN gs = 1 .. L /\ gs = [k \in 1 .. L |-> gs[k]] /\ \A k \in 1 .. L : k # L => gs[k] = fs[k]
  BY <1>3
<1> HIDE DEF gs
<1>6. IsList(gs) /\ Len(gs) = L
  BY <1>1, <1>5, Listed
<1>7. gs[1] = Top
  BY <1>1, <1>5
<1>8. FrameFits(F, gs[L])
  <2>1. n + 1 \in Nat /\ n + 1 <= c
    OBVIOUS
  <2> QED
    BY <1>4, <2>1 DEF FrameFits
<1>9. \A k \in 1 .. L : FrameFits(F, gs[k])
  BY <1>5, <1>8 DEF FramesFit
<1>10. \A k \in 1 .. L - 1 : Holds(gs[k], gs[k + 1])
  <2> TAKE k \in 1 .. L - 1
  <2>1. gs[k] = fs[k] /\ Holds(fs[k], fs[k + 1])
    BY <1>1, <1>5 DEF FramesFit
  <2>2. CASE k + 1 # L
    <3>1. gs[k + 1] = fs[k + 1]
      BY <1>1, <1>5, <2>2
    <3> QED
      BY <2>1, <3>1
  <2>3. CASE k + 1 = L
    <3>1. Holds(fs[k], ListFrame(m, n, c))
      BY <1>1, <2>1, <2>3
    <3>2. PICK w \in AllMembers : \E i, d : fs[k] = ObjectFrame(w.of) /\ ListFrame(m, n, c) = ListFrame(w, i, d)
      BY <3>1, FrameParts DEF Holds
    <3>3. w = m
      BY <3>2, FrameParts
    <3>4. fs[k] = ObjectFrame(m.of)
      BY <3>2, <3>3
    <3>5. gs[k + 1] = ListFrame(m, n + 1, c)
      BY <1>4, <2>3
    <3> QED
      BY <2>1, <3>4, <3>5 DEF Holds
  <2> QED
    BY <2>2, <2>3
<1>11. FramesFit(F, gs)
  BY <1>1, <1>6, <1>7, <1>9, <1>10 DEF FramesFit
<1>12. Last(gs) = ListFrame(m, n + 1, c)
  BY <1>4, <1>6 DEF Last
<1> QED
  BY <1>11, <1>12 DEF gs

-----------------------------------------------------------------------------
(* What the reader has, G, is what it has read of F on the way p, when it   *)
(* has come to the members P.                                               *)
Fills(G, F, p, P) ==
  /\ IsProgram(G.schema)
  /\ \A m \in P : \E type \in AllTypes : Has(F, m, type) /\ Has(G, m, type)
  /\ \A m : m \in DOMAIN G.values <=> m \in P /\ m \in DOMAIN F.values
  /\ \A m \in DOMAIN G.values : G.values[m] = F.values[m]
  /\ \A m : m \in DOMAIN G.children <=>
              m \in P /\ m \in DOMAIN F.children /\ ReadCount(F, p, m) # 0
  /\ \A m \in DOMAIN G.children : G.children[m] = ReadCount(F, p, m)

(* A blank object is what has been read at first.                           *)
LEMMA NothingFilled ==
  ASSUME NEW G, NEW F, NEW p, IsProgram(G.schema), G.values = <<>>, G.children = <<>>
  PROVE  Fills(G, F, p, {})
<1>1. DOMAIN G.values = {} /\ DOMAIN G.children = {}
  OBVIOUS
<1> QED
  BY <1>1 DEF Fills

(* A value.                                                                 *)
LEMMA FillsValue ==
  ASSUME NEW G, NEW F, NEW p, NEW P, Fills(G, F, p, P),
         NEW m, m \notin P, m \in DOMAIN F.values, m \notin DOMAIN F.children,
         NEW type \in AllTypes, Has(F, m, type), Has(G, m, type),
         NEW H, H.schema = G.schema, H.children = G.children,
         H.values = Extended(G.values, m, F.values[m])
  PROVE  Fills(H, F, p, P \union {m})
<1>1. /\ DOMAIN H.values = DOMAIN G.values \union {m} /\ H.values[m] = F.values[m]
      /\ \A z \in DOMAIN G.values : z # m => H.values[z] = G.values[z]
  BY DEF Extended
<1>2. IsProgram(H.schema)
  BY DEF Fills
<1>3. \A n, t : Has(G, n, t) => Has(H, n, t)
  BY DEF Has
<1>4. \A n \in P \union {m} : \E t \in AllTypes : Has(F, n, t) /\ Has(H, n, t)
  BY <1>3 DEF Fills
<1>5. \A n : n \in DOMAIN H.values <=> n \in P \union {m} /\ n \in DOMAIN F.values
  BY <1>1 DEF Fills
<1>6. \A n \in DOMAIN H.values : H.values[n] = F.values[n]
  BY <1>1 DEF Fills
<1>7. \A n : n \in DOMAIN H.children <=>
               n \in P \union {m} /\ n \in DOMAIN F.children /\ ReadCount(F, p, n) # 0
  BY DEF Fills
<1>8. \A n \in DOMAIN H.children : H.children[n] = ReadCount(F, p, n)
  BY DEF Fills
<1> QED
  BY <1>2, <1>4, <1>5, <1>6, <1>7, <1>8 DEF Fills

(* A class or a list: the reader goes into it.                              *)
LEMMA FillsEnter ==
  ASSUME NEW G, NEW F, NEW P, P \subseteq AllMembers,
         NEW m \in AllMembers, Fills(G, F, m.of, P), m \notin P, m \notin DOMAIN F.values,
         NEW type \in AllTypes, Has(F, m, type), Has(G, m, type)
  PROVE  Fills(G, F, Child(m, 0), P \union {m})
<1> DEFINE p == Child(m, 0)
<1>1. \A w \in AllMembers : ReadCount(F, p, w) = IF w = m THEN 0 ELSE ReadCount(F, m.of, w)
  BY WayLonger
<1> HIDE DEF p
<1>2. \A n \in P \union {m} : \E t \in AllTypes : Has(F, n, t) /\ Has(G, n, t)
  BY DEF Fills
<1>3. \A n : n \in DOMAIN G.values <=> n \in P \union {m} /\ n \in DOMAIN F.values
  BY DEF Fills
<1>4. \A n \in P : n # m /\ ReadCount(F, p, n) = ReadCount(F, m.of, n)
  BY <1>1
<1>5. ReadCount(F, p, m) = 0
  BY <1>1
<1>6. \A n : n \in DOMAIN G.children <=>
               n \in P \union {m} /\ n \in DOMAIN F.children /\ ReadCount(F, p, n) # 0
  BY <1>4, <1>5 DEF Fills
<1>7. \A n \in DOMAIN G.children : G.children[n] = ReadCount(F, p, n)
  BY <1>4 DEF Fills
<1>8. Fills(G, F, p, P \union {m})
  BY <1>2, <1>3, <1>6, <1>7 DEF Fills
<1> QED
  BY <1>8 DEF p

(* The next child of a list.                                                *)
CountIn(G, m) == IF m \in DOMAIN G.children THEN G.children[m] ELSE 0
(* create_child, in the list that is open.                                  *)
LEMMA FillsNext ==
  ASSUME NEW G, NEW F, NEW P, P \subseteq AllMembers,
         NEW m \in P, m \in DOMAIN F.children, NEW n \in Nat, Fills(G, F, Child(m, n), P),
         NEW H, H.schema = G.schema, H.values = G.values,
         H.children = Extended(G.children, m, CountIn(G, m) + 1)
  PROVE  Fills(H, F, Child(m, n + 1), P)
<1> DEFINE p == Child(m, n)
           r == Child(m, n + 1)
<1>1. \A w \in AllMembers : /\ ReadCount(F, p, w) = IF w = m THEN n ELSE ReadCount(F, m.of, w)
                            /\ ReadCount(F, r, w) = IF w = m THEN n + 1 ELSE ReadCount(F, m.of, w)
  <2>1. m \in AllMembers /\ n + 1 \in Nat
    OBVIOUS
  <2> QED
    BY <2>1, WayLonger
<1>2. Fills(G, F, p, P)
  OBVIOUS
<1> HIDE DEF p, r
<1>3. \A w \in P : w # m => ReadCount(F, r, w) = ReadCount(F, p, w)
  BY <1>1
<1>4. ReadCount(F, p, m) = n /\ ReadCount(F, r, m) = n + 1
  BY <1>1
<1>5. CountIn(G, m) = n
  <2>1. CASE m \in DOMAIN G.children
    BY <1>2, <1>4, <2>1 DEF CountIn, Fills
  <2>2. CASE m \notin DOMAIN G.children
    BY <1>2, <1>4, <2>2 DEF CountIn, Fills
  <2> QED
    BY <2>1, <2>2
<1>6. /\ DOMAIN H.children = DOMAIN G.children \union {m} /\ H.children[m] = n + 1
      /\ \A z \in DOMAIN G.children : z # m => H.children[z] = G.children[z]
  BY <1>5 DEF Extended
<1>7. n + 1 # 0
  OBVIOUS
<1>8. \A w, t : Has(G, w, t) => Has(H, w, t)
  BY DEF Has
<1>9. \A w \in P : \E t \in AllTypes : Has(F, w, t) /\ Has(H, w, t)
  BY <1>2, <1>8 DEF Fills
<1>10. \A w : w \in DOMAIN H.children <=>
                w \in P /\ w \in DOMAIN F.children /\ ReadCount(F, r, w) # 0
  BY <1>2, <1>3, <1>4, <1>6, <1>7 DEF Fills
<1>11. \A w \in DOMAIN H.children : H.children[w] = ReadCount(F, r, w)
  BY <1>2, <1>3, <1>4, <1>6 DEF Fills
<1>12. Fills(H, F, r, P)
  BY <1>2, <1>9, <1>10, <1>11 DEF Fills
<1> QED
  BY <1>12 DEF r

(* The end of a class or of a list.                                         *)
LEMMA FillsLeave ==
  ASSUME NEW G, NEW F, NEW P, P \subseteq AllMembers,
         NEW m \in AllMembers, NEW n \in Nat, Fills(G, F, Child(m, n), P),
         m \notin DOMAIN F.children \/ n = F.children[m]
  PROVE  Fills(G, F, m.of, P)
<1> DEFINE p == Child(m, n)
<1>1. /\ \A w \in AllMembers : ReadCount(F, p, w) = IF w = m THEN n ELSE ReadCount(F, m.of, w)
      /\ ReadCount(F, m.of, m) = F.children[m]
  BY WayLonger
<1>2. Fills(G, F, p, P)
  OBVIOUS
<1> HIDE DEF p
<1>3. \A w \in P : w \in DOMAIN F.children => ReadCount(F, p, w) = ReadCount(F, m.of, w)
  BY <1>1
<1>4. \A w : w \in DOMAIN G.children <=>
               w \in P /\ w \in DOMAIN F.children /\ ReadCount(F, m.of, w) # 0
  BY <1>2, <1>3 DEF Fills
<1>5. \A w \in DOMAIN G.children : G.children[w] = ReadCount(F, m.of, w)
  BY <1>2, <1>3, <1>4 DEF Fills
<1> QED
  BY <1>2, <1>4, <1>5 DEF Fills

-----------------------------------------------------------------------------
(* Where the reader is in the run of the file.                              *)

WayOf(f) == IF f.kind = "object" THEN f.object ELSE Child(f.list, f.done)

(* The way of a frame.                                                      *)
LEMMA WayIs ==
  ASSUME NEW o, NEW m, NEW n, NEW c
  PROVE  WayOf(ObjectFrame(o)) = o /\ WayOf(ListFrame(m, n, c)) = Child(m, n)
<1>1. ObjectFrame(o).kind = "object" /\ ListFrame(m, n, c).kind # "object"
  BY FrameParts
<1> QED
  BY <1>1, FrameParts DEF WayOf

AtFrame(f, a) ==
  IF f.kind = "object" THEN a \in {FrontOf(f.object), In(f.object)}
  ELSE a = IF f.done < f.list_count THEN FrontOf(Child(f.list, f.done + 1)) ELSE In(f.list.of)

(* The place of a frame.                                                    *)
LEMMA AtFrameIs ==
  ASSUME NEW a
  PROVE  /\ \A o : AtFrame(ObjectFrame(o), a) <=> a \in {FrontOf(o), In(o)}
         /\ \A m, n, c : AtFrame(ListFrame(m, n, c), a) <=>
                           a = IF n < c THEN FrontOf(Child(m, n + 1)) ELSE In(m.of)
<1>1. \A o : AtFrame(ObjectFrame(o), a) <=> a \in {FrontOf(o), In(o)}
  BY FrameParts DEF AtFrame
<1>2. \A m, n, c : AtFrame(ListFrame(m, n, c), a) <=>
                           a = IF n < c THEN FrontOf(Child(m, n + 1)) ELSE In(m.of)
  <2> TAKE m, n, c
  <2> DEFINE f == ListFrame(m, n, c)
  <2>1. f.kind # "object" /\ f.list = m /\ f.done = n /\ f.list_count = c
    BY FrameParts
  <2> HIDE DEF f
  <2>2. AtFrame(f, a) <=> a = IF n < c THEN FrontOf(Child(m, n + 1)) ELSE In(m.of)
    BY <2>1 DEF AtFrame
  <2> QED
    BY <2>2 DEF f
<1> QED
  BY <1>1, <1>2

(* The members of P that are not open are n.                                *)
Counted(p, P, n) == OpenIn(p) \subseteq P /\ n = Cardinality(P \ OpenIn(p))

(* The next token is the i-th, and parsed_object_count is n.                *)
ReadTo(F, D, q, i, fs, n) ==
  /\ TraceOf(F, D, q)
  /\ i \in 1 .. Len(D) + 1
  /\ FramesFit(F, fs)
  /\ AtFrame(Last(fs), q[i])
  /\ Counted(WayOf(Last(fs)), Passed(q, D, i), n)

(* The members that have been passed are finitely many, and all are kept.   *)
LEMMA PassedIs ==
  ASSUME NEW F, NEW D, NEW q, TraceOf(F, D, q), NEW i \in 1 .. Len(D) + 1
  PROVE  /\ IsFiniteSet(Passed(q, D, i)) /\ Passed(q, D, i) \subseteq AllMembers
         /\ Passed(q, D, i) \subseteq KeptUnder(F, <<>>)
  BY PassedFacts DEF KeptUnder

(* Before the first token.                                                  *)
LEMMA ReadBegins ==
  ASSUME NEW F, NEW D, NEW q, TraceOf(F, D, q)
  PROVE  ReadTo(F, D, q, 1, <<Top>>, 0) /\ Passed(q, D, 1) = {}
<1>1. Len(D) \in Nat /\ q[1] = FrontOf(<<>>)
  BY TraceStep
<1>2. 1 \in 1 .. Len(D) + 1
  BY <1>1
<1>3. FramesFit(F, <<Top>>) /\ Last(<<Top>>) = ObjectFrame(<<>>)
  BY TopFits, FrameParts
<1>4. AtFrame(ObjectFrame(<<>>), q[1])
  BY <1>1, AtFrameIs
<1>5. Passed(q, D, 1) = {}
  BY PassedFacts
<1>6. OpenIn(WayOf(ObjectFrame(<<>>))) = {}
  BY NoneOpen, WayIs
<1>7. Counted(WayOf(ObjectFrame(<<>>)), Passed(q, D, 1), 0)
  <2>1. Passed(q, D, 1) \ OpenIn(WayOf(ObjectFrame(<<>>))) = {}
    BY <1>5
  <2> QED
    BY <1>6, <2>1, FS_EmptySet DEF Counted
<1> QED
  BY <1>2, <1>3, <1>4, <1>5, <1>7 DEF ReadTo

(* At a tag.                                                                *)
LEMMA AtTag ==
  ASSUME NEW F, NEW D, NEW q, NEW i, NEW fs, NEW n, ReadTo(F, D, q, i, fs, n),
         NEW o, Last(fs) = ObjectFrame(o), i <= Len(D), D[i] # End,
         NEW m, m = Member(o, D[i].name)
  PROVE  /\ TraceOf(F, D, q) /\ i \in 1 .. Len(D)
         /\ m \in AllMembers /\ m.of = o
         /\ D[i].type \in AllTypes /\ KeptIn(F, m) /\ Has(F, m, D[i].type)
         /\ q[i + 1] = AfterTag(m, D[i].type)
         /\ i + 1 \in 1 .. Len(D) /\ i + 2 \in 1 .. Len(D) + 1
         /\ m \notin Passed(q, D, i)
         /\ Passed(q, D, i + 1) = Passed(q, D, i) \union {m}
<1>1. TraceOf(F, D, q) /\ i \in 1 .. Len(D) + 1 /\ AtFrame(ObjectFrame(o), q[i])
  BY DEF ReadTo
<1>2. Len(D) \in Nat
  BY <1>1, TraceStep
<1>3. i \in 1 .. Len(D)
  BY <1>1, <1>2
<1>4. InObject(q[i]) /\ q[i].of = o
  BY <1>1, AtFrameIs, InAnObject
<1>5. TagMember(q, D, i) = m
  BY <1>4 DEF TagMember
<1>6. /\ m \in AllMembers /\ m.of = o
      /\ D[i].type \in AllTypes /\ KeptIn(F, m) /\ Has(F, m, D[i].type)
      /\ q[i + 1] = AfterTag(m, D[i].type)
      /\ TagAt(q, D, i) /\ i + 1 \in 1 .. Len(D)
  BY <1>1, <1>3, <1>4, <1>5, TagHere
<1>7. i + 2 \in 1 .. Len(D) + 1
  BY <1>2, <1>3, <1>6
<1>8. m \notin Passed(q, D, i) /\ Passed(q, D, i + 1) = Passed(q, D, i) \union {m}
  BY <1>1, <1>3, <1>5, <1>6, PassedFacts
<1> QED
  BY <1>1, <1>3, <1>6, <1>7, <1>8

-----------------------------------------------------------------------------
(* The reader goes on, as one of its operations does.                       *)

LEMMA EmptyEnd ==
  ASSUME NEW F, NEW D, NEW q, TraceOf(F, D, q),
         NEW i \in 1 .. Len(D), NEW o, q[i] = FrontOf(o), D[i] = End
  PROVE  KeptUnder(F, o) = {}
<1>1. InObject(q[i]) /\ q[i].of = o /\ q[i].kind = "front"
  BY InAnObject
<1>2. q[i].kind = "front" => KeptUnder(F, q[i].of) = {}
  BY <1>1, EndHere
<1> QED
  BY <1>1, <1>2

(* A simple member.                                                         *)
ValueRead(F, D, q, i, fs, n, m) ==
  /\ ReadTo(F, D, q, i + 2, fs, n + 1)
  /\ m \in DOMAIN F.values /\ m \notin DOMAIN F.children
  /\ D[i + 1] = [value |-> F.values[m]]
  /\ Passed(q, D, i + 2) = Passed(q, D, i) \union {m}

(* Tag and value are read together.                                         *)
LEMMA ReadValue ==
  ASSUME NEW F, NEW D, NEW q, NEW i, NEW fs, NEW n, ReadTo(F, D, q, i, fs, n), Sound(F),
         NEW o, Last(fs) = ObjectFrame(o), i <= Len(D), D[i] # End,
         NEW m, m = Member(o, D[i].name), D[i].type \notin {"class", "list"}
  PROVE  ValueRead(F, D, q, i, fs, n, m)
<1> DEFINE P == Passed(q, D, i)
           W == OpenIn(WayOf(Last(fs)))
<1>1. /\ TraceOf(F, D, q) /\ i \in 1 .. Len(D)
      /\ m \in AllMembers /\ m.of = o
      /\ D[i].type \in AllTypes /\ KeptIn(F, m) /\ Has(F, m, D[i].type)
      /\ q[i + 1] = AfterTag(m, D[i].type)
      /\ i + 1 \in 1 .. Len(D) /\ i + 2 \in 1 .. Len(D) + 1
      /\ m \notin P /\ Passed(q, D, i + 1) = P \union {m}
  BY AtTag
<1>2. D[i].type \in Simple
  BY <1>1 DEF AllTypes, Simple
<1>3. m \in DOMAIN F.values /\ m \notin DOMAIN F.children
  BY <1>1, <1>2, KeptSimple
<1>4. q[i + 1] = ValueOf(m)
  BY <1>1 DEF AfterTag
<1>5. /\ D[i + 1] = [value |-> F.values[m]] /\ q[(i + 1) + 1] = In(o)
      /\ ~TagAt(q, D, i + 1)
  BY <1>1, <1>4, ValueHere
<1>6. Passed(q, D, (i + 1) + 1) = Passed(q, D, i + 1)
  BY <1>1, <1>5, PassedFacts
<1>7. (i + 1) + 1 = i + 2
  BY <1>1
<1>8. Passed(q, D, i + 2) = P \union {m} /\ q[i + 2] = In(o)
  BY <1>1, <1>5, <1>6, <1>7
<1>9. FramesFit(F, fs) /\ W \subseteq P /\ n = Cardinality(P \ W)
  BY DEF ReadTo, Counted
<1>10. IsFiniteSet(P)
  BY <1>1, PassedIs
<1> HIDE DEF P, W
<1>11. (P \union {m}) \ W = (P \ W) \union {m} /\ m \notin P \ W
  BY <1>1, <1>9
<1>12. Cardinality((P \ W) \union {m}) = n + 1
  BY <1>9, <1>10, <1>11, FS_AddElement, FS_Subset
<1>13. AtFrame(Last(fs), q[i + 2])
  BY <1>8, AtFrameIs
<1>14. W \subseteq P \union {m}
  BY <1>9
<1>15. ReadTo(F, D, q, i + 2, fs, n + 1)
  BY <1>1, <1>8, <1>9, <1>11, <1>12, <1>13, <1>14 DEF ReadTo, Counted, W
<1> QED
  BY <1>3, <1>5, <1>8, <1>15 DEF P, ValueRead

(* Into a class or a list.                                                  *)
LEMMA CountEntered ==
  ASSUME NEW P, NEW m \in AllMembers, m \notin P, NEW n, Counted(m.of, P, n)
  PROVE  Counted(Child(m, 0), P \union {m}, n)
<1>1. OpenIn(Child(m, 0)) = OpenIn(m.of) \union {m}
  BY WayLonger
<1>2. (P \union {m}) \ (OpenIn(m.of) \union {m}) = P \ OpenIn(m.of)
  OBVIOUS
<1> QED
  BY <1>1, <1>2 DEF Counted

ClassRead(F, D, q, i, fs, n, m) ==
  /\ ReadTo(F, D, q, i + 1, Append(fs, ObjectFrame(Child(m, 0))), n)
  /\ Last(Append(fs, ObjectFrame(Child(m, 0)))) = ObjectFrame(Child(m, 0))
  /\ m \notin DOMAIN F.values
  /\ i + 1 <= Len(D) /\ D[i + 1] # End
  /\ Passed(q, D, i + 1) = Passed(q, D, i) \union {m}

(* A class opens, and does not end at once.                                 *)
LEMMA ReadClass ==
  ASSUME NEW F, NEW D, NEW q, NEW i, NEW fs, NEW n, ReadTo(F, D, q, i, fs, n), Sound(F),
         NEW o, Last(fs) = ObjectFrame(o), i <= Len(D), D[i] # End,
         NEW m, m = Member(o, D[i].name), D[i].type = "class"
  PROVE  ClassRead(F, D, q, i, fs, n, m)
<1> DEFINE P == Passed(q, D, i)
           g == ObjectFrame(Child(m, 0))
<1>1. /\ TraceOf(F, D, q) /\ i \in 1 .. Len(D)
      /\ m \in AllMembers /\ m.of = o
      /\ KeptIn(F, m) /\ Has(F, m, "class")
      /\ q[i + 1] = AfterTag(m, "class")
      /\ i + 1 \in 1 .. Len(D)
      /\ m \notin P /\ Passed(q, D, i + 1) = P \union {m}
  BY AtTag
<1>2. m \notin DOMAIN F.values /\ KeptUnder(F, Child(m, 0)) # {}
  BY <1>1, KeptClass
<1>3. q[i + 1] = FrontOf(Child(m, 0))
  BY <1>1, ClassIsChild DEF AfterTag
<1>4. D[i + 1] # End
  BY <1>1, <1>2, <1>3, EmptyEnd
<1>5. FramesFit(F, fs) /\ Counted(m.of, P, n)
  BY <1>1, WayIs DEF ReadTo
<1>6. FramesFit(F, Append(fs, g)) /\ Last(Append(fs, g)) = g
  <2>1. FrameFits(F, g)
    BY <1>1, ChildPath DEF FrameFits
  <2>2. Holds(Last(fs), g)
    BY <1>1 DEF Holds
  <2> QED
    BY <1>5, <2>1, <2>2, FramesPush
<1>7. WayOf(g) = Child(m, 0) /\ AtFrame(g, q[i + 1])
  BY <1>3, WayIs, AtFrameIs
<1> HIDE DEF P, g
<1>8. Counted(Child(m, 0), P \union {m}, n)
  BY <1>1, <1>5, CountEntered
<1>9. i + 1 \in 1 .. Len(D) + 1 /\ i + 1 <= Len(D)
  <2>1. Len(D) \in Nat
    BY <1>1, TraceStep
  <2> QED
    BY <1>1, <2>1
<1>10. ReadTo(F, D, q, i + 1, Append(fs, g), n)
  BY <1>1, <1>6, <1>7, <1>8, <1>9 DEF ReadTo
<1> QED
  BY <1>1, <1>2, <1>4, <1>6, <1>9, <1>10 DEF P, g, ClassRead

ListRead(F, D, q, i, fs, n, m) ==
  /\ D[i + 1] = [count |-> F.children[m]]
  /\ ReadTo(F, D, q, i + 2, Append(fs, ListFrame(m, 0, F.children[m])), n)
  /\ Last(Append(fs, ListFrame(m, 0, F.children[m]))) = ListFrame(m, 0, F.children[m])
  /\ m \notin DOMAIN F.values /\ i + 1 <= Len(D)
  /\ Passed(q, D, i + 2) = Passed(q, D, i) \union {m}

(* A list opens, with the count that was written.                           *)
LEMMA ReadList ==
  ASSUME NEW F, NEW D, NEW q, NEW i, NEW fs, NEW n, ReadTo(F, D, q, i, fs, n), Sound(F),
         NEW o, Last(fs) = ObjectFrame(o), i <= Len(D), D[i] # End,
         NEW m, m = Member(o, D[i].name), D[i].type = "list"
  PROVE  ListRead(F, D, q, i, fs, n, m)
<1> DEFINE P == Passed(q, D, i)
           c == F.children[m]
           g == ListFrame(m, 0, c)
<1>1. /\ TraceOf(F, D, q) /\ i \in 1 .. Len(D)
      /\ m \in AllMembers /\ m.of = o
      /\ KeptIn(F, m) /\ Has(F, m, "list")
      /\ q[i + 1] = AfterTag(m, "list")
      /\ i + 1 \in 1 .. Len(D) /\ i + 2 \in 1 .. Len(D) + 1
      /\ m \notin P /\ Passed(q, D, i + 1) = P \union {m}
  BY AtTag
<1>2. m \in DOMAIN F.children /\ m \notin DOMAIN F.values /\ c \in Nat \ {0}
  BY <1>1, KeptList
<1>3. q[i + 1] = CountOf(m)
  BY <1>1 DEF AfterTag
<1>4. /\ D[i + 1] = [count |-> c] /\ q[(i + 1) + 1] = FrontOf(Child(m, 1))
      /\ ~TagAt(q, D, i + 1)
  BY <1>1, <1>3, CountHere
<1>5. Passed(q, D, (i + 1) + 1) = Passed(q, D, i + 1)
  BY <1>1, <1>4, PassedFacts
<1>6. (i + 1) + 1 = i + 2
  BY <1>1
<1>7. Passed(q, D, i + 2) = P \union {m} /\ q[i + 2] = FrontOf(Child(m, 1))
  BY <1>1, <1>4, <1>5, <1>6
<1>8. FramesFit(F, fs) /\ Counted(m.of, P, n)
  BY <1>1, WayIs DEF ReadTo
<1>9. FramesFit(F, Append(fs, g)) /\ Last(Append(fs, g)) = g
  <2>1. 0 \in Nat /\ 0 <= c
    BY <1>2
  <2>2. FrameFits(F, g)
    BY <1>1, <1>2, <2>1 DEF FrameFits
  <2>3. Holds(Last(fs), g)
    BY <1>1 DEF Holds
  <2> QED
    BY <1>8, <2>2, <2>3, FramesPush
<1>10. WayOf(g) = Child(m, 0)
  BY WayIs
<1>11. AtFrame(g, q[i + 2])
  <2>1. 0 < c /\ 0 + 1 = 1
    BY <1>2
  <2> HIDE DEF c
  <2> QED
    BY <1>7, <2>1, AtFrameIs
<1> HIDE DEF P, g, c
<1>12. Counted(Child(m, 0), P \union {m}, n)
  BY <1>1, <1>8, CountEntered
<1>13. ReadTo(F, D, q, i + 2, Append(fs, g), n)
  BY <1>1, <1>7, <1>9, <1>10, <1>11, <1>12 DEF ReadTo
<1>14. i + 1 <= Len(D)
  BY <1>1
<1> QED
  BY <1>2, <1>4, <1>7, <1>9, <1>13, <1>14 DEF P, g, c, ListRead

(* A child: if it is empty, nothing was written in it.                      *)
ChildRead(F, D, q, i, fs, n, m, k, c) ==
  /\ m \in AllMembers /\ k \in Nat /\ m \in DOMAIN F.children /\ c = F.children[m]
  /\ c \in Nat /\ m \in Passed(q, D, i)
  /\ TraceOf(F, D, q) /\ i \in 1 .. Len(D) /\ i <= Len(D)
  /\ D[i] = End => KeptUnder(F, Child(m, k + 1)) = {}
  /\ D[i] # End =>
       LET gs == Append([fs EXCEPT ![Len(fs)].done = @ + 1], NewChild(m, k + 1))
       IN  ReadTo(F, D, q, i, gs, n) /\ Last(gs) = ObjectFrame(Child(m, k + 1))

(* The reader goes into the next child.                                     *)
LEMMA ReadChild ==
  ASSUME NEW F, NEW D, NEW q, NEW i, NEW fs, NEW n, ReadTo(F, D, q, i, fs, n), Sound(F),
         NEW m, NEW k, NEW c, Last(fs) = ListFrame(m, k, c), k < c
  PROVE  ChildRead(F, D, q, i, fs, n, m, k, c)
<1> DEFINE P == Passed(q, D, i)
           hs == [fs EXCEPT ![Len(fs)].done = @ + 1]
           g == ObjectFrame(Child(m, k + 1))
<1>1. /\ TraceOf(F, D, q) /\ i \in 1 .. Len(D) + 1 /\ FramesFit(F, fs)
      /\ AtFrame(ListFrame(m, k, c), q[i])
      /\ OpenIn(Child(m, k)) \subseteq P /\ n = Cardinality(P \ OpenIn(Child(m, k)))
  BY WayIs DEF ReadTo, Counted
<1>2. /\ m \in AllMembers /\ k \in Nat /\ m \in DOMAIN F.children /\ c = F.children[m]
      /\ k <= F.children[m]
  <2>1. FrameFits(F, ListFrame(m, k, c))
    BY <1>1, LastFits
  <2>2. PICK w \in AllMembers : \E j \in Nat :
          w \in DOMAIN F.children /\ j <= F.children[w]
          /\ ListFrame(m, k, c) = ListFrame(w, j, F.children[w])
    BY <2>1, FrameParts DEF FrameFits
  <2>3. PICK j \in Nat :
          w \in DOMAIN F.children /\ j <= F.children[w]
          /\ ListFrame(m, k, c) = ListFrame(w, j, F.children[w])
    BY <2>2
  <2> DEFINE d == F.children[w]
  <2>4. ListFrame(m, k, c) = ListFrame(w, j, d)
    BY <2>3
  <2> HIDE DEF d
  <2>5. m = w /\ k = j /\ c = d
    BY <2>4, FrameParts
  <2> QED
    BY <2>3, <2>5 DEF d
<1>3. c \in Nat
  BY <1>2 DEF Sound
<1>4. m \in P /\ OpenIn(Child(m, k + 1)) = OpenIn(Child(m, k))
  <2>1. k + 1 \in Nat
    BY <1>2
  <2> QED
    BY <1>1, <1>2, <2>1, WayLonger
<1>5. q[i] = FrontOf(Child(m, k + 1))
  BY <1>1, AtFrameIs
<1>6. InObject(q[i]) /\ q[i].of = Child(m, k + 1) /\ q[i].kind = "front"
  BY <1>5, InAnObject
<1>7. i \in 1 .. Len(D) /\ i <= Len(D)
  <2>1. k + 1 \in Nat
    BY <1>2
  <2>2. Child(m, k + 1) # <<>>
    BY <1>2, <2>1, ChildPath
  <2>3. i \in 1 .. Len(D)
    BY <1>1, <1>6, <2>2, MoreToCome
  <2> QED
    BY <2>3
<1>8. D[i] = End => KeptUnder(F, Child(m, k + 1)) = {}
  BY <1>1, <1>5, <1>7, EmptyEnd
<1>9. FramesFit(F, hs) /\ Last(hs) = ListFrame(m, k + 1, c)
  BY <1>1, <1>2, <1>3, FramesNext
<1>10. FramesFit(F, Append(hs, g)) /\ Last(Append(hs, g)) = g
  <2>1. k + 1 \in Nat /\ k + 1 \in Nat \ {0}
    BY <1>2
  <2>2. FrameFits(F, g)
    BY <1>2, <2>1, ChildPath DEF FrameFits
  <2>3. Holds(ListFrame(m, k + 1, c), g)
    BY <1>2, <2>1 DEF Holds
  <2> HIDE DEF hs, g
  <2> QED
    BY <1>9, <2>2, <2>3, FramesPush
<1>11. WayOf(g) = Child(m, k + 1) /\ AtFrame(g, q[i])
  BY <1>5, WayIs, AtFrameIs
<1>12. NewChild(m, k + 1) = g
  BY FrameParts
<1> HIDE DEF P, hs, g
<1>13. ReadTo(F, D, q, i, Append(hs, g), n)
  BY <1>1, <1>4, <1>10, <1>11 DEF ReadTo, Counted, P
<1>14. D[i] # End =>
         /\ ReadTo(F, D, q, i, Append(hs, NewChild(m, k + 1)), n)
         /\ Last(Append(hs, NewChild(m, k + 1))) = ObjectFrame(Child(m, k + 1))
  BY <1>10, <1>12, <1>13 DEF g
<1> QED
  BY <1>1, <1>2, <1>3, <1>4, <1>7, <1>8, <1>14 DEF P, hs, ChildRead

(* The end of a class or of a list: one member is no longer open.           *)
LEMMA CountLeft ==
  ASSUME NEW P, IsFiniteSet(P), NEW m \in AllMembers, NEW k \in Nat, NEW n,
         Counted(Child(m, k), P, n)
  PROVE  Counted(m.of, P, n + 1)
<1>1. OpenIn(Child(m, k)) = OpenIn(m.of) \union {m} /\ m \notin OpenIn(m.of)
  BY WayLonger
<1> DEFINE A == P \ OpenIn(Child(m, k))
           B == P \ OpenIn(m.of)
<1>2. m \in P /\ OpenIn(m.of) \subseteq P /\ n = Cardinality(A)
  BY <1>1 DEF Counted
<1>3. B = A \union {m} /\ m \notin A
  BY <1>1, <1>2
<1>4. IsFiniteSet(A)
  BY FS_Subset
<1> HIDE DEF A, B
<1>5. Cardinality(B) = n + 1
  BY <1>2, <1>3, <1>4, FS_AddElement
<1> QED
  BY <1>2, <1>5 DEF Counted, B

(* The frame of a list has its count.                                       *)
LEMMA ListIs ==
  ASSUME NEW F, NEW m, NEW k, NEW c, FrameFits(F, ListFrame(m, k, c)), Sound(F)
  PROVE  /\ m \in AllMembers /\ k \in Nat /\ m \in DOMAIN F.children /\ c = F.children[m]
         /\ c \in Nat /\ k <= c
<1>1. PICK w \in AllMembers : \E j \in Nat :
        w \in DOMAIN F.children /\ j <= F.children[w]
        /\ ListFrame(m, k, c) = ListFrame(w, j, F.children[w])
  BY FrameParts DEF FrameFits
<1>2. PICK j \in Nat :
        w \in DOMAIN F.children /\ j <= F.children[w]
        /\ ListFrame(m, k, c) = ListFrame(w, j, F.children[w])
  BY <1>1
<1> DEFINE d == F.children[w]
<1>3. ListFrame(m, k, c) = ListFrame(w, j, d)
  BY <1>2
<1> HIDE DEF d
<1>4. m = w /\ k = j /\ c = d
  BY <1>3, FrameParts
<1>5. m \in AllMembers /\ k \in Nat /\ m \in DOMAIN F.children /\ c = F.children[m] /\ k <= c
  BY <1>2, <1>4 DEF d
<1> QED
  BY <1>5 DEF Sound

ListEndRead(F, D, q, i, fs, n, m, c) ==
  /\ ReadTo(F, D, q, i, Front(fs), n + 1)
  /\ m \in AllMembers /\ c \in Nat /\ c = F.children[m]
  /\ Last(Front(fs)) = ObjectFrame(m.of)

(* All the children have been read.                                         *)
LEMMA ReadListEnd ==
  ASSUME NEW F, NEW D, NEW q, NEW i, NEW fs, NEW n, ReadTo(F, D, q, i, fs, n), Sound(F),
         NEW m, NEW c, Last(fs) = ListFrame(m, c, c)
  PROVE  ListEndRead(F, D, q, i, fs, n, m, c)
<1> DEFINE P == Passed(q, D, i)
           g == Last(Front(fs))
<1>1. /\ TraceOf(F, D, q) /\ i \in 1 .. Len(D) + 1 /\ FramesFit(F, fs)
      /\ AtFrame(ListFrame(m, c, c), q[i]) /\ Counted(Child(m, c), P, n)
  BY WayIs DEF ReadTo
<1>2. m \in AllMembers /\ c \in Nat /\ c = F.children[m]
  <2>1. FrameFits(F, ListFrame(m, c, c))
    BY <1>1, LastFits
  <2> QED
    BY <2>1, ListIs
<1>3. Len(fs) > 1
  BY <1>1, ListIsInner
<1>4. FramesFit(F, Front(fs)) /\ Holds(g, ListFrame(m, c, c))
  BY <1>1, <1>3, FramesPop
<1> HIDE DEF g
<1>5. g = ObjectFrame(m.of)
  <2>1. PICK w \in AllMembers : \E k, d : g = ObjectFrame(w.of) /\ ListFrame(m, c, c) = ListFrame(w, k, d)
    BY <1>4, FrameParts DEF Holds
  <2>2. w = m
    BY <2>1, FrameParts
  <2> QED
    BY <2>1, <2>2
<1>6. AtFrame(g, q[i])
  <2>1. ~(c < c)
    BY <1>2
  <2>2. q[i] = In(m.of)
    BY <1>1, <2>1, AtFrameIs
  <2> QED
    BY <1>5, <2>2, AtFrameIs
<1>7. IsFiniteSet(P)
  BY <1>1, PassedIs
<1> HIDE DEF P
<1>8. Counted(WayOf(g), P, n + 1)
  BY <1>1, <1>2, <1>5, <1>7, CountLeft, WayIs
<1>9. ReadTo(F, D, q, i, Front(fs), n + 1)
  BY <1>1, <1>4, <1>6, <1>8 DEF ReadTo, P, g
<1> QED
  BY <1>2, <1>5, <1>9 DEF g, ListEndRead

(* The end of a class or of a child.                                        *)
ObjectEndRead(F, D, q, i, fs, n, o) ==
  /\ Len(fs) > 1
  /\ Passed(q, D, i + 1) = Passed(q, D, i)
  /\ \/ \E m \in AllMembers : /\ o = Child(m, 0) /\ m \notin DOMAIN F.children
                              /\ Last(Front(fs)) = ObjectFrame(m.of)
                              /\ ReadTo(F, D, q, i + 1, Front(fs), n + 1)
     \/ \E m, k, c : /\ o = Child(m, k)
                     /\ Last(Front(fs)) = ListFrame(m, k, c)
                     /\ ReadTo(F, D, q, i + 1, Front(fs), n)

(* The End of a class counts the class, that of a child does not count.     *)
LEMMA ReadObjectEnd ==
  ASSUME NEW F, NEW D, NEW q, NEW i, NEW fs, NEW n, ReadTo(F, D, q, i, fs, n), Sound(F),
         NEW o, Last(fs) = ObjectFrame(o), i <= Len(D), D[i] = End
  PROVE  ObjectEndRead(F, D, q, i, fs, n, o)
<1> DEFINE P == Passed(q, D, i)
           g == Last(Front(fs))
<1>1. /\ TraceOf(F, D, q) /\ i \in 1 .. Len(D) + 1 /\ FramesFit(F, fs)
      /\ AtFrame(ObjectFrame(o), q[i]) /\ Counted(o, P, n)
  BY WayIs DEF ReadTo
<1>2. i \in 1 .. Len(D) /\ i + 1 \in 1 .. Len(D) + 1
  <2>1. Len(D) \in Nat
    BY <1>1, TraceStep
  <2> QED
    BY <1>1, <2>1
<1>3. InObject(q[i]) /\ q[i].of = o
  BY <1>1, AtFrameIs, InAnObject
<1>4. o # <<>> /\ Reached(F, o) /\ q[i + 1] = AfterEnd(F, o) /\ ~TagAt(q, D, i)
  BY <1>1, <1>2, <1>3, EndHere
<1>5. Len(fs) > 1
  BY <1>1, <1>4, InnerIsLower
<1>6. Passed(q, D, i + 1) = P
  BY <1>1, <1>2, <1>4, PassedFacts
<1>7. FramesFit(F, Front(fs)) /\ Holds(g, ObjectFrame(o)) /\ FrameFits(F, g)
  BY <1>1, <1>5, FramesPop
<1>8. IsFiniteSet(P)
  BY <1>1, PassedIs
<1> HIDE DEF P, g
<1>9. CASE \E m \in AllMembers : g = ObjectFrame(m.of) /\ ObjectFrame(o) = ObjectFrame(Child(m, 0))
  <2>1. PICK m \in AllMembers : g = ObjectFrame(m.of) /\ ObjectFrame(o) = ObjectFrame(Child(m, 0))
    BY <1>9
  <2>2. o = Child(m, 0)
    BY <2>1, FrameParts
  <2>3. q[i + 1] = In(m.of)
    BY <1>4, <2>2, AfterEndOf
  <2>4. AtFrame(g, q[i + 1]) /\ WayOf(g) = m.of
    BY <2>1, <2>3, AtFrameIs, WayIs
  <2>5. Counted(m.of, P, n + 1)
    BY <1>1, <1>8, <2>2, CountLeft
  <2>6. ReadTo(F, D, q, i + 1, Front(fs), n + 1)
    BY <1>1, <1>2, <1>6, <1>7, <2>4, <2>5 DEF ReadTo, P, g
  <2>7. m \notin DOMAIN F.children
    <3>1. Has(F, m, "class")
      BY <1>4, <2>2, ReachedChild DEF Goes
    <3>2. m \in DOMAIN F.children => Has(F, m, "list")
      BY DEF Sound
    <3> QED
      BY <3>1, <3>2, HasUnique
  <2> QED
    BY <1>5, <1>6, <2>1, <2>2, <2>6, <2>7 DEF P, g, ObjectEndRead
<1>10. CASE \E m \in AllMembers : \E k \in Nat \ {0} : \E c :
              g = ListFrame(m, k, c) /\ ObjectFrame(o) = ObjectFrame(Child(m, k))
  <2>1. PICK m \in AllMembers : \E k \in Nat \ {0} : \E c :
              g = ListFrame(m, k, c) /\ ObjectFrame(o) = ObjectFrame(Child(m, k))
    BY <1>10
  <2>2. PICK k \in Nat \ {0} : \E c :
              g = ListFrame(m, k, c) /\ ObjectFrame(o) = ObjectFrame(Child(m, k))
    BY <2>1
  <2>3. PICK c : g = ListFrame(m, k, c) /\ ObjectFrame(o) = ObjectFrame(Child(m, k))
    BY <2>2
  <2>4. o = Child(m, k)
    BY <2>3, FrameParts
  <2>5. c = F.children[m] /\ c \in Nat /\ k <= c
    BY <1>7, <2>3, ListIs
  <2>6. q[i + 1] = IF k = 0 \/ k = F.children[m] THEN In(m.of) ELSE FrontOf(Child(m, k + 1))
    <3>1. k \in Nat
      OBVIOUS
    <3> QED
      BY <1>4, <2>4, <3>1, AfterEndOf
  <2>7. q[i + 1] = IF k < c THEN FrontOf(Child(m, k + 1)) ELSE In(m.of)
    <3>1. k < c <=> ~(k = 0 \/ k = c)
      BY <2>5
    <3> QED
      BY <2>5, <2>6, <3>1
  <2>8. AtFrame(g, q[i + 1]) /\ WayOf(g) = o
    BY <2>3, <2>4, <2>7, AtFrameIs, WayIs
  <2>9. ReadTo(F, D, q, i + 1, Front(fs), n)
    BY <1>1, <1>2, <1>6, <1>7, <2>8 DEF ReadTo, P, g
  <2> QED
    BY <1>5, <1>6, <2>3, <2>4, <2>9 DEF P, g, ObjectEndRead
<1> QED
  <2>1. \A w, k, c : ObjectFrame(o) # ListFrame(w, k, c)
    BY FrameParts
  <2> QED
    BY <1>7, <1>9, <1>10, <2>1 DEF Holds

(* The end of the data.                                                     *)
LEMMA ReadEnds ==
  ASSUME NEW F, NEW D, NEW q, NEW i, NEW fs, NEW n, ReadTo(F, D, q, i, fs, n),
         NEW o, Last(fs) = ObjectFrame(o), i > Len(D)
  PROVE  /\ ~(Len(fs) > 1) /\ WayOf(Last(fs)) = <<>>
         /\ n = Cardinality(KeptUnder(F, <<>>))
         /\ Passed(q, D, i) = KeptUnder(F, <<>>)
<1>1. /\ TraceOf(F, D, q) /\ i \in 1 .. Len(D) + 1 /\ FramesFit(F, fs)
      /\ AtFrame(ObjectFrame(o), q[i]) /\ Counted(o, Passed(q, D, i), n)
  BY WayIs DEF ReadTo
<1>2. i = Len(D) + 1
  <2>1. Len(D) \in Nat
    BY <1>1, TraceStep
  <2> QED
    BY <1>1, <2>1
<1>3. q[i].of = <<>>
  BY <1>1, <1>2, TraceStep
<1>4. o = <<>>
  BY <1>1, <1>3, AtFrameIs, InAnObject
<1>5. Passed(q, D, i) = KeptUnder(F, <<>>)
  BY <1>1, <1>2, PassedFacts
<1>6. n = Cardinality(KeptUnder(F, <<>>))
  <2>1. KeptUnder(F, <<>>) \ {} = KeptUnder(F, <<>>)
    OBVIOUS
  <2> QED
    BY <1>1, <1>4, <1>5, <2>1, NoneOpen DEF Counted
<1> QED
  BY <1>1, <1>4, <1>5, <1>6, InnerIsLower, WayIs

(* The frame at work.                                                       *)
LEMMA ReadFrame ==
  ASSUME NEW F, NEW D, NEW q, NEW i, NEW fs, NEW n, ReadTo(F, D, q, i, fs, n), Sound(F)
  PROVE  \/ \E o \in Objects : Last(fs) = ObjectFrame(o)
         \/ \E m, k, c : Last(fs) = ListFrame(m, k, c)
<1>1. FrameFits(F, Last(fs))
  BY LastFits DEF ReadTo
<1> QED
  BY <1>1 DEF FrameFits

-----------------------------------------------------------------------------
(* What can go wrong with a file that is intact.                            *)

LEMMA TypeIs ==
  ASSUME NEW F, IsProgram(F.schema), NEW m, NEW type, Has(F, m, type)
  PROVE  TypeIn(F.schema, m) = {type}
<1> DEFINE R == F.schema
           S == {n \in 1 .. Len(R) : R[n].of = ClassOf(m.of) /\ R[n].name = m.name}
<1>1. PICK k \in S : R[k].type = type
  BY DEF Has
<1>2. \A j, n \in 1 .. Len(R) : R[j].of = R[n].of /\ R[j].name = R[n].name => j = n
  BY DEF IsProgram
<1>3. \A n \in S : n = k
  BY <1>2
<1>4. {R[n].type : n \in S} = {type}
  BY <1>1, <1>3
<1> QED
  BY <1>4 DEF TypeIn

(* A program that extends the rules has a rule of the same type.            *)
LEMMA ExtendsHas ==
  ASSUME NEW F, NEW G, Extends(G.schema, F.schema), NEW m, NEW type, Has(F, m, type)
  PROVE  Has(G, m, type)
  BY DEF Extends, Has

(* No member is lost, so what was written is in the file.                   *)
LEMMA WrittenUnderTop ==
  ASSUME NEW F, Sound(F)
  PROVE  WrittenIn(F) \subseteq KeptUnder(F, <<>>)
<1> SUFFICES ASSUME NEW w \in WrittenIn(F) PROVE w \in KeptUnder(F, <<>>)
  OBVIOUS
<1>1. w \in AllMembers /\ KeptIn(F, w)
  BY WrittenIsKept
<1>2. Under(<<>>, w.of)
  <2>1. w.of \in Objects
    BY <1>1 DEF AllMembers
  <2> QED
    BY <2>1, UnderSelf
<1> QED
  BY <1>1, <1>2 DEF KeptUnder

(* No data: nothing was written.                                            *)
LEMMA NoFileIsEmpty ==
  ASSUME NEW F, Sound(F), ObjectRuns(F, <<>>, <<>>, KeptUnder(F, <<>>))
  PROVE  Unreadable(F)
<1> DEFINE T == KeptUnder(F, <<>>)
<1>1. PICK b : Runs(F, FrontOf(<<>>), <<>>, b, T)
  BY DEF ObjectRuns
<1>2. PICK q : Run(F, FrontOf(<<>>), <<>>, b, T, q)
  BY <1>1 DEF Runs
<1>3. \A m \in T : \E i \in 1 .. Len(<<>>) : TagAt(q, <<>>, i) /\ TagMember(q, <<>>, i) = m
  BY <1>2, Zenon DEF Run
<1>4. 1 .. Len(<<>>) = {}
  OBVIOUS
<1> HIDE DEF T
<1>5. T = {}
  BY <1>3, <1>4, Zenon
<1>6. DOMAIN F.values \union DOMAIN F.children = {}
  BY <1>5, WrittenUnderTop DEF T, WrittenIn
<1> QED
  BY <1>6 DEF Unreadable

(* A list of numbers that is empty.                                         *)
LEMMA EmptyListUnreadable ==
  ASSUME NEW F, Sound(F), NEW m \in DOMAIN F.values, F.values[m] = <<>>,
         NEW type \in NumberLists, Has(F, m, type)
  PROVE  Unreadable(F)
<1>1. TypeIn(F.schema, m) = {type}
  BY TypeIs DEF Sound
<1>2. TypeIn(F.schema, m) \subseteq NumberLists
  BY <1>1
<1> QED
  BY <1>2 DEF Unreadable

(* A child in which nothing was written.                                    *)
LEMMA EmptyChildUnreadable ==
  ASSUME NEW F, Sound(F), NEW m \in DOMAIN F.children, NEW n \in 1 .. F.children[m],
         KeptUnder(F, Child(m, n)) = {}
  PROVE  Unreadable(F)
<1> DEFINE o == Child(m, n)
<1>1. ASSUME NEW w \in DOMAIN F.values \union DOMAIN F.children, IsPrefix(o, w.of)
      PROVE  FALSE
  <2>1. w \in AllMembers /\ KeptIn(F, w)
    BY <1>1, WrittenIsKept DEF WrittenIn
  <2>2. SubSeq(o, 1, Len(o)) = o
    <3>1. m \in AllMembers /\ n \in Nat
      BY DEF Sound
    <3> QED
      BY <3>1, ChildPath, WholePath
  <2>3. Under(o, w.of)
    BY <1>1, <2>2 DEF IsPrefix, Under
  <2> QED
    BY <2>1, <2>3 DEF KeptUnder
<1>2. \A w \in DOMAIN F.values \union DOMAIN F.children : ~IsPrefix(Child(m, n), w.of)
  BY <1>1
<1> QED
  BY <1>2 DEF Unreadable

(* A member of the type that the dump does not know.                        *)
LEMMA StringsInIt ==
  ASSUME NEW F, Sound(F), NEW m, KeptIn(F, m), Has(F, m, "strs")
  PROVE  HasStrings(F)
<1>1. "strs" \in Simple
  BY DEF Simple, Strings
<1>2. m \in DOMAIN F.values
  BY <1>1, KeptSimple
<1>3. TypeIn(F.schema, m) = {"strs"}
  BY TypeIs DEF Sound
<1> QED
  BY <1>2, <1>3 DEF HasStrings

-----------------------------------------------------------------------------
(* The end of the data: what the reader has is what was written.            *)

LEMMA FilledIsEqual ==
  ASSUME NEW F, Sound(F), Functional(F), NEW G, Functional(G),
         Fills(G, F, <<>>, KeptUnder(F, <<>>))
  PROVE  /\ G.values = F.values /\ G.children = F.children
         /\ \A m \in WrittenIn(F) : TypeIn(G.schema, m) = TypeIn(F.schema, m)
<1> DEFINE P == KeptUnder(F, <<>>)
<1>1. WrittenIn(F) \subseteq P
  BY WrittenUnderTop
<1>2. Fills(G, F, <<>>, P)
  OBVIOUS
<1> HIDE DEF P
<1>3. \A m : ReadCount(F, <<>>, m) = F.children[m]
  BY NoneOpen
<1>4. G.values = F.values
  <2>1. DOMAIN G.values = DOMAIN F.values
    BY <1>1, <1>2 DEF Fills, WrittenIn
  <2>2. \A m \in DOMAIN G.values : G.values[m] = F.values[m]
    BY <1>2 DEF Fills
  <2> DEFINE f == F.values
             g == G.values
  <2>3. f = [m \in DOMAIN f |-> f[m]] /\ g = [m \in DOMAIN g |-> g[m]]
    BY DEF Functional
  <2>4. DOMAIN g = DOMAIN f /\ \A m \in DOMAIN g : g[m] = f[m]
    BY <2>1, <2>2
  <2> HIDE DEF f, g
  <2>5. f = g
    BY <2>3, <2>4
  <2> QED
    BY <2>5 DEF f, g
<1>5. G.children = F.children
  <2>1. \A m \in DOMAIN F.children : F.children[m] # 0
    BY DEF Sound
  <2>2. DOMAIN G.children = DOMAIN F.children
    BY <1>1, <1>2, <1>3, <2>1 DEF Fills, WrittenIn
  <2>3. \A m \in DOMAIN G.children : G.children[m] = F.children[m]
    BY <1>2, <1>3 DEF Fills
  <2> DEFINE f == F.children
             g == G.children
  <2>4. f = [m \in DOMAIN f |-> f[m]] /\ g = [m \in DOMAIN g |-> g[m]]
    BY DEF Functional
  <2>5. DOMAIN g = DOMAIN f /\ \A m \in DOMAIN g : g[m] = f[m]
    BY <2>2, <2>3
  <2> HIDE DEF f, g
  <2>6. f = g
    BY <2>4, <2>5
  <2> QED
    BY <2>6 DEF f, g
<1>6. ASSUME NEW m \in WrittenIn(F)
      PROVE  TypeIn(G.schema, m) = TypeIn(F.schema, m)
  <2>1. PICK type \in AllTypes : Has(F, m, type) /\ Has(G, m, type)
    BY <1>1, <1>2 DEF Fills
  <2>2. IsProgram(F.schema) /\ IsProgram(G.schema)
    BY <1>2 DEF Sound, Fills
  <2> QED
    BY <2>1, <2>2, TypeIs
<1> QED
  BY <1>4, <1>5, <1>6

(* What is marked is the same, and so the reader reaches what the writer    *)
(* reached, if its rules extend those of the writer.                        *)
LEMMA MarkedAlike ==
  ASSUME NEW F, NEW G, G.values = F.values, G.children = F.children, NEW m
  PROVE  IsMarked(G, m) <=> IsMarked(F, m)
  BY DEF IsMarked, WrittenIn

(* What is marked for another member is a class.                            *)
LEMMA AboveIsClass ==
  ASSUME NEW F, Sound(F), NEW m \in AllMembers, NEW w \in WrittenIn(F), Above(m, w), m # w
  PROVE  Has(F, m, "class")
<1> DEFINE j == Len(m.of) + 1
<1>1. w \in AllMembers /\ Reached(F, w.of)
  BY DEF Sound, WrittenIn
<1>2. Len(m.of) \in Nat /\ Len(w.of) \in Nat
  BY <1>1, PathFacts DEF AllMembers
<1>3. Len(m.of) < Len(w.of) /\ m = MemberAt(w.of, j) /\ \A k \in j .. Len(w.of) : w.of[k].n = 0
  BY DEF Above
<1>4. j \in 1 .. Len(w.of) /\ j \in j .. Len(w.of)
  BY <1>2, <1>3
<1> HIDE DEF j
<1>5. Goes(F, MemberAt(w.of, j), w.of[j].n) /\ w.of[j].n = 0
  BY <1>1, <1>3, <1>4 DEF Reached
<1> QED
  BY <1>3, <1>5 DEF Goes

(* No member is missed by a program that extends the rules.                 *)
LEMMA CheckHolds ==
  ASSUME OInv, updating = {}, IsProgram(schema),
         NEW F, Sound(F), Mandatory(F), values = F.values, children = F.children,
         Extends(schema, F.schema)
  PROVE  check_exist
<1> SUFFICES ASSUME NEW m \in Members(Filled, AllTypes), get_rule(m).exist
             PROVE  m \in exist
  BY DEF check_exist
<1>1. \E o \in Filled : \E k \in RulesOf(o) : m = Member(o, schema[k].name)
  BY DEF Members
<1>2. PICK o \in Filled : \E k \in RulesOf(o) : m = Member(o, schema[k].name)
  BY <1>1
<1>3. PICK k \in RulesOf(o) : m = Member(o, schema[k].name)
  BY <1>2
<1>4. /\ o \in Constructed
      /\ \A j \in 1 .. Len(o) : o[j].n = 0 => MemberAt(o, j) \in exist
  BY DEF Filled, MemberAt
<1>5. /\ o \in Objects /\ RuleFor(o)
      /\ \A j \in 1 .. Len(o) :
           IF o[j].n = 0 THEN get_rule(MemberAt(o, j)).type = "class"
           ELSE o[j].n <= ChildCount(MemberAt(o, j))
  BY <1>4, ConstructedIs
<1>6. k \in 1 .. Len(schema) /\ schema[k].of = ClassOf(o) /\ schema[k].name \in STRING
  BY RulesAre DEF RulesOf
<1>7. m \in AllMembers /\ m.of = o /\ m.name = schema[k].name
  BY <1>3, <1>5, <1>6 DEF Member, AllMembers
<1>8. schema[k].exist
  <2>1. get_rule(m) = schema[k]
    BY <1>7, RuleIs
  <2> QED
    BY <2>1
<1>9. ASSUME NEW j \in 1 .. Len(o)
      PROVE  Goes(F, MemberAt(o, j), o[j].n)
  <2> DEFINE w == MemberAt(o, j)
             n == o[j].n
  <2>1. w \in AllMembers /\ n \in Nat
    BY <1>5, MemberAtFacts
  <2>2. CASE n = 0
    <3>1. IsMarked(F, w)
      <4>1. IsMarked(Now, w)
        BY <1>4, <2>2 DEF OInv
      <4> QED
        BY <4>1, NowParts, MarkedAlike
    <3>2. PICK x \in WrittenIn(F) : Above(w, x)
      BY <3>1 DEF IsMarked
    <3>3. get_rule(w).type = "class"
      BY <1>5, <2>2
    <3>4. w # x
      <4>1. SUFFICES ASSUME w = x PROVE FALSE
        OBVIOUS
      <4>2. \E type \in Simple \union {"list"} : Has(F, w, type)
        BY <4>1 DEF Sound, WrittenIn
      <4>3. PICK type \in Simple \union {"list"} : Has(F, w, type)
        BY <4>2
      <4>4. Has(Now, w, type)
        BY <4>3, NowParts, ExtendsHas
      <4>5. get_rule(w).type = type
        BY <4>4, HasIsRule
      <4> QED
        BY <3>3, <4>5 DEF Simple, Numbers, NumberLists, Strings
    <3>5. Has(F, w, "class")
      BY <2>1, <3>2, <3>4, AboveIsClass
    <3> QED
      BY <2>2, <3>1, <3>5 DEF Goes
  <2>3. CASE n # 0
    <3>1. n <= ChildCount(w)
      BY <1>5, <2>3
    <3>2. w \in DOMAIN children
      BY <2>1, <2>3, <3>1 DEF ChildCount
    <3>3. n <= F.children[w] /\ w \in DOMAIN F.children
      BY <3>1, <3>2 DEF ChildCount
    <3>4. Has(F, w, "list")
      BY <3>3 DEF Sound
    <3> QED
      BY <2>3, <3>3, <3>4 DEF Goes
  <2> QED
    BY <2>2, <2>3
<1>10. Reached(F, o)
  BY <1>5, <1>9 DEF Reached
<1>11. PICK i \in 1 .. Len(F.schema) :
         schema[k].of = F.schema[i].of /\ schema[k].name = F.schema[i].name
  BY <1>6, <1>8 DEF Extends
<1>12. PICK n \in 1 .. Len(schema) :
         /\ schema[n].of = F.schema[i].of /\ schema[n].name = F.schema[i].name
         /\ schema[n].exist => F.schema[i].exist
  BY DEF Extends
<1>13. n = k
  BY <1>6, <1>11, <1>12, RulesAre
<1>14. F.schema[i].exist
  BY <1>8, <1>12, <1>13
<1>15. IsMarked(F, m)
  BY <1>6, <1>7, <1>10, <1>11, <1>14 DEF Mandatory
<1>16. IsMarked(Now, m)
  BY <1>15, NowParts, MarkedAlike
<1> QED
  BY <1>7, <1>16, MarksAreComplete

-----------------------------------------------------------------------------
(* The invariant of all that.                                               *)

Reading(q) ==
  /\ ReadTo(file.from, file.data, q, index, frames, parsed)
  /\ pc = "read" => Fills(Now, file.from, WayOf(Frame), Passed(q, file.data, index))

ReadInv == pc \in {"read", "dump"} => CrcHolds /\ \E q : Reading(q)

FInv ==
  /\ OInv /\ BuildInv /\ FileInv /\ ReadInv
  /\ AcceptedMeansEqual
  /\ FilesStayReadable

(* Something can be wrong with a file that is intact, or with the reader.   *)
Excuse ==
  \/ Unreadable(file.from)
  \/ pc = "dump" /\ HasStrings(file.from)
  \/ pc = "read" /\ ~Extends(schema, file.from.schema)

(* An assertion that fails has its excuse.                                  *)
LEMMA AssertedHolds ==
  ASSUME FInv, Parsing, Asserted, Excuse
  PROVE  FInv'
<1>1. pc' \in {"asserted", "not_dumped"} /\ (pc = "dump" <=> pc' = "not_dumped")
  BY DEF Asserted, Failed, Parsing
<1>2. UNCHANGED <<schema, values, children, exist, updating, file>>
  BY DEF Asserted, objectVars
<1>3. OInv'
  BY <1>2, UntouchedMarks DEF FInv, objectVars
<1>4. BuildInv' /\ ReadInv' /\ AcceptedMeansEqual'
  BY <1>1 DEF BuildInv, ReadInv, AcceptedMeansEqual
<1>5. FileInv'
  BY <1>2 DEF FInv, FileInv, Parsing
<1>6. FilesStayReadable'
  BY <1>1, <1>2 DEF FilesStayReadable, Excuse, Parsing
<1> QED
  BY <1>3, <1>4, <1>5, <1>6 DEF FInv

(* The reader goes on.                                                      *)
LEMMA GoesOn ==
  ASSUME FInv, Parsing, pc' = pc, file' = file, OInv', NEW q,
         ReadTo(file.from, file.data, q, index', frames', parsed'),
         pc = "read" => Fills(Now', file.from, WayOf(Last(frames')), Passed(q, file.data, index'))
  PROVE  FInv'
<1>1. pc' \in {"read", "dump"} /\ pc \in {"read", "dump"}
  BY DEF Parsing
<1>2. BuildInv' /\ AcceptedMeansEqual' /\ FilesStayReadable'
  BY <1>1 DEF BuildInv, AcceptedMeansEqual, FilesStayReadable
<1>3. FileInv'
  BY <1>1 DEF FInv, FileInv
<1>4. CrcHolds'
  BY <1>1 DEF FInv, ReadInv, CrcHolds
<1>5. ReadTo(file.from, file.data, q, index, frames, parsed)'
  OBVIOUS
<1>6. pc' = "read" => Fills(Now, file.from, WayOf(Frame), Passed(q, file.data, index))'
  BY DEF Frame
<1>7. Reading(q)'
  BY <1>5, <1>6 DEF Reading
<1>8. ReadInv'
  BY <1>4, <1>7 DEF ReadInv
<1> QED
  BY <1>2, <1>3, <1>8 DEF FInv

(* A file that is read is intact, and the reader is somewhere in its run.   *)
LEMMA ReadingFacts ==
  ASSUME FInv, Parsing
  PROVE  /\ OInv /\ updating = {} /\ pc \in {"read", "dump"}
         /\ IsFile(file) /\ CrcHolds
         /\ Sound(file.from) /\ Functional(file.from) /\ Mandatory(file.from)
         /\ \E q : Reading(q)
<1>1. pc \in {"read", "dump"} /\ updating = {}
  BY DEF Parsing
<1>2. IsFile(file)
  BY <1>1 DEF FInv, FileInv
<1> QED
  BY <1>1, <1>2 DEF FInv, ReadInv, IsFile

(* In an object.                                                            *)
LEMMA InObjectFrame ==
  ASSUME FInv, NEW q, Reading(q), AtObject
  PROVE  /\ Frame.object \in Objects /\ Frame = ObjectFrame(Frame.object)
         /\ Last(frames) = ObjectFrame(Frame.object)
         /\ WayOf(Frame) = Frame.object
         /\ index <= Len(file.data) /\ At(index) = file.data[index]
         /\ Here = Member(Frame.object, file.data[index].name)
         /\ ~AtEnd => file.data[index] # End
         /\ TraceOf(file.from, file.data, q) /\ index \in Nat
<1>1. Parsing /\ Frame.kind = "object" /\ index <= Len(file.data)
  BY DEF AtObject
<1>2. /\ ReadTo(file.from, file.data, q, index, frames, parsed)
      /\ Sound(file.from)
  BY <1>1, ReadingFacts DEF Reading
<1>3. PICK o \in Objects : Frame = ObjectFrame(o)
  BY <1>1, <1>2, ReadFrame, FrameParts DEF Frame
<1>4. Frame.object = o
  BY <1>3, FrameParts
<1>5. At(index) = file.data[index]
  BY <1>1 DEF At
<1>6. file.data[index] = End => AtEnd
  BY <1>1, <1>2, <1>3, <1>5, ReadObjectEnd DEF AtEnd, Frame, ObjectEndRead
<1>7. TraceOf(file.from, file.data, q) /\ index \in Nat
  BY <1>2, TraceStep DEF ReadTo
<1> QED
  BY <1>1, <1>3, <1>4, <1>5, <1>6, <1>7, WayIs DEF Here, Frame

(* At the tag of a member.                                                  *)
LEMMA AtMember ==
  ASSUME FInv, NEW q, Reading(q), AtObject, ~AtEnd
  PROVE  /\ Here \in AllMembers /\ Here.of = Frame.object
         /\ At(index) # End /\ At(index).type \in AllTypes
         /\ KeptIn(file.from, Here) /\ Has(file.from, Here, At(index).type)
         /\ Here \notin Passed(q, file.data, index)
         /\ Passed(q, file.data, index) \subseteq AllMembers
         /\ index + 1 \in 1 .. Len(file.data)
<1> DEFINE F == file.from
           D == file.data
           m == Here
           o == Frame.object
<1>1. /\ ReadTo(F, D, q, index, frames, parsed)
      /\ Last(frames) = ObjectFrame(o)
      /\ index <= Len(D) /\ At(index) = D[index]
      /\ m = Member(o, D[index].name) /\ D[index] # End
  BY InObjectFrame DEF Reading
<1> HIDE DEF F, D, m, o
<1>2. /\ m \in AllMembers /\ m.of = o
      /\ D[index].type \in AllTypes /\ KeptIn(F, m) /\ Has(F, m, D[index].type)
      /\ index + 1 \in 1 .. Len(D)
      /\ m \notin Passed(q, D, index)
  BY <1>1, AtTag
<1>3. Passed(q, D, index) \subseteq AllMembers
  BY <1>1, PassedIs DEF ReadTo
<1> QED
  BY <1>1, <1>2, <1>3 DEF F, D, m, o

(* A reader that has a rule for the member ...                              *)
LEMMA UnderstoodHas ==
  ASSUME FInv, NEW q, Reading(q), AtObject, ~AtEnd, Understood, pc = "read"
  PROVE  Has(Now, Here, At(index).type)
<1>1. HasRule(Here) /\ get_rule(Here).type = At(index).type
  BY DEF Understood
<1>2. IsProgram(schema)
  BY NowParts DEF Reading, Fills
<1>3. PICK k \in RulesOf(Here.of) : schema[k].name = Here.name
  BY <1>1 DEF HasRule
<1>4. get_rule(Here) = schema[k] /\ Has(Now, Here, schema[k].type)
  BY <1>2, <1>3, RuleIs
<1> QED
  BY <1>1, <1>4

(* ... and one that has not.                                                *)
LEMMA MisunderstoodHolds ==
  ASSUME FInv, Misunderstood
  PROVE  FInv'
<1>1. Parsing /\ AtObject /\ ~AtEnd /\ ~Understood /\ Asserted
  BY DEF Misunderstood, AtObject
<1>2. /\ OInv /\ pc \in {"read", "dump"} /\ Sound(file.from)
      /\ \E q : Reading(q)
  BY <1>1, ReadingFacts
<1>3. PICK q : Reading(q)
  BY <1>2
<1>4. /\ At(index) # End /\ KeptIn(file.from, Here)
      /\ Has(file.from, Here, At(index).type)
  BY <1>1, <1>3, AtMember
<1>5. CASE pc = "dump"
  <2>1. At(index).type = "strs"
    BY <1>1, <1>4, <1>5 DEF Understood
  <2>2. HasStrings(file.from)
    BY <1>2, <1>4, <2>1, StringsInIt
  <2> QED
    BY <1>1, <1>5, <2>2, AssertedHolds DEF Excuse
<1>6. CASE pc = "read"
  <2>1. ~Extends(schema, file.from.schema)
    <3>1. SUFFICES ASSUME Extends(schema, file.from.schema) PROVE FALSE
      OBVIOUS
    <3>2. Has(Now, Here, At(index).type)
      BY <1>4, <3>1, NowParts, ExtendsHas
    <3>3. IsProgram(schema)
      BY <1>3, <1>6, NowParts DEF Reading, Fills
    <3>4. HasRule(Here) /\ get_rule(Here).type = At(index).type
      BY <3>2, <3>3, HasIsRule
    <3> QED
      BY <1>1, <1>4, <1>6, <3>4 DEF Understood
  <2> QED
    BY <1>1, <1>6, <2>1, AssertedHolds DEF Excuse
<1> QED
  BY <1>2, <1>5, <1>6

(* A simple member.                                                         *)
LEMMA ParseValueHolds ==
  ASSUME FInv, ParseValue
  PROVE  FInv'
<1>1. /\ Parsing /\ AtObject /\ ~AtEnd /\ Understood
      /\ At(index).type \notin {"class", "list"}
  BY DEF ParseValue, AtObject
<1>2. /\ OInv /\ updating = {} /\ pc \in {"read", "dump"} /\ Sound(file.from)
      /\ \E q : Reading(q)
  BY <1>1, ReadingFacts
<1>3. PICK q : Reading(q)
  BY <1>2
<1>4. /\ Here \in AllMembers /\ Here.of = Frame.object
      /\ At(index).type \in AllTypes
      /\ Has(file.from, Here, At(index).type)
      /\ Here \notin Passed(q, file.data, index)
      /\ index + 1 \in 1 .. Len(file.data)
  BY <1>1, <1>3, AtMember
<1> DEFINE F == file.from
           D == file.data
           m == Here
           P == Passed(q, D, index)
           v == At(index + 1).value
<1>5. /\ ReadTo(F, D, q, index, frames, parsed)
      /\ Last(frames) = ObjectFrame(Frame.object) /\ WayOf(Frame) = Frame.object
      /\ index <= Len(D) /\ D[index] # End /\ At(index) = D[index]
      /\ m = Member(Frame.object, D[index].name)
  BY <1>1, <1>3, InObjectFrame DEF Reading
<1>6. /\ ReadTo(F, D, q, index + 2, frames, parsed + 1)
      /\ m \in DOMAIN F.values /\ m \notin DOMAIN F.children
      /\ D[index + 1] = [value |-> F.values[m]]
      /\ Passed(q, D, index + 2) = P \union {m}
  <2> DEFINE o == Frame.object
  <2>1. /\ ReadTo(F, D, q, index, frames, parsed) /\ Sound(F) /\ Last(frames) = ObjectFrame(o)
        /\ index <= Len(D) /\ D[index] # End /\ m = Member(o, D[index].name)
        /\ D[index].type \notin {"class", "list"}
    BY <1>1, <1>2, <1>5
  <2> HIDE DEF F, D, m, o
  <2>2. ValueRead(F, D, q, index, frames, parsed, m)
    BY <2>1, ReadValue
  <2> QED
    BY <2>2 DEF ValueRead, P
<1>7. v = F.values[m]
  <2>1. index + 1 <= Len(D)
    BY <1>4
  <2>2. At(index + 1) = D[index + 1]
    BY <2>1 DEF At
  <2> QED
    BY <1>6, <2>2
<1>8. CASE HasElements
  <2>1. /\ Store(write_data(m, v)) /\ index' = index + 2 /\ parsed' = parsed + 1
        /\ UNCHANGED <<pc, file, frames>>
    BY <1>8 DEF ParseValue
  <2>2. CASE pc = "dump"
    <3>1. UNCHANGED objectVars
      BY <2>1, <2>2 DEF Store
    <3>2. OInv'
      BY <1>2, <3>1, UntouchedMarks
    <3> QED
      BY <1>1, <1>6, <2>1, <2>2, <3>2, GoesOn
  <2>3. CASE pc = "read"
    <3>1. write_data(m, v)
      BY <2>1, <2>3 DEF Store
    <3>2. OInv'
      BY <1>2, <1>4, <3>1, WritingMarks
    <3>3. /\ schema' = schema /\ children' = children
          /\ values' = Extended(values, m, F.values[m])
      BY <1>7, <3>1 DEF write_data
    <3> DEFINE G == Now
               H == Now'
               p == Frame.object
    <3>4. /\ H.schema = G.schema /\ H.children = G.children
          /\ H.values = Extended(G.values, m, F.values[m])
      BY <3>3, NowParts DEF Now
    <3>5. Fills(G, F, p, P)
      BY <1>3, <1>5, <2>3 DEF Reading
    <3>6. Has(G, m, At(index).type)
      BY <1>1, <1>3, <2>3, UnderstoodHas
    <3> DEFINE type == At(index).type
    <3>7. type \in AllTypes /\ Has(F, m, type) /\ Has(G, m, type) /\ m \notin P
      BY <1>4, <3>6
    <3> HIDE DEF G, H, F, D, P, p, m, type
    <3>8. Fills(H, F, p, P \union {m})
      BY <1>6, <3>4, <3>5, <3>7, FillsValue
    <3>9. WayOf(Last(frames')) = p
      BY <1>5, <2>1 DEF p, Frame
    <3>10. Fills(Now', file.from, WayOf(Last(frames')), Passed(q, file.data, index'))
      BY <1>6, <2>1, <3>8, <3>9 DEF H, F, D
    <3>11. ReadTo(file.from, file.data, q, index', frames', parsed')
      BY <1>6, <2>1 DEF F, D
    <3> QED
      BY <1>1, <2>1, <3>2, <3>10, <3>11, GoesOn
  <2> QED
    BY <1>2, <2>2, <2>3
<1>9. CASE ~HasElements
  <2>1. Asserted
    BY <1>9 DEF ParseValue
  <2>2. At(index).type \in NumberLists /\ F.values[m] = <<>>
    BY <1>7, <1>9 DEF HasElements
  <2>3. Unreadable(F)
    BY <1>2, <1>4, <1>6, <2>2, EmptyListUnreadable
  <2> QED
    BY <1>1, <2>1, <2>3, AssertedHolds DEF Excuse
<1> QED
  BY <1>8, <1>9

(* A class.                                                                 *)
LEMMA ParseClassHolds ==
  ASSUME FInv, ParseClass
  PROVE  FInv'
<1>1. Parsing /\ AtObject /\ ~AtEnd /\ Understood /\ At(index).type = "class"
  BY DEF ParseClass, AtObject
<1>2. /\ OInv /\ pc \in {"read", "dump"} /\ Sound(file.from)
      /\ \E q : Reading(q)
  BY <1>1, ReadingFacts
<1>3. PICK q : Reading(q)
  BY <1>2
<1> DEFINE F == file.from
           D == file.data
           m == Here
           o == Frame.object
           P == Passed(q, D, index)
           g == ObjectFrame(Child(m, 0))
<1>4. /\ m \in AllMembers /\ m.of = o
      /\ Has(F, m, "class") /\ m \notin P /\ P \subseteq AllMembers
  BY <1>1, <1>3, AtMember
<1>5. /\ ReadTo(F, D, q, index, frames, parsed)
      /\ Last(frames) = ObjectFrame(o) /\ WayOf(Frame) = o
      /\ index <= Len(D) /\ D[index] # End /\ At(index) = D[index]
      /\ m = Member(o, D[index].name)
  BY <1>1, <1>3, InObjectFrame DEF Reading
<1>6. ClassRead(F, D, q, index, frames, parsed, m)
  <2>1. Sound(F) /\ D[index].type = "class"
    BY <1>1, <1>2, <1>5
  <2> HIDE DEF F, D, m, o
  <2> QED
    BY <1>5, <2>1, ReadClass
<1>7. /\ ReadTo(F, D, q, index + 1, Append(frames, g), parsed)
      /\ Last(Append(frames, g)) = g
      /\ m \notin DOMAIN F.values
      /\ index + 1 <= Len(D) /\ D[index + 1] # End
      /\ Passed(q, D, index + 1) = P \union {m}
  BY <1>6 DEF ClassRead
<1>8. At(index + 1) # End
  BY <1>7 DEF At
<1>9. /\ frames' = Append(frames, [kind |-> "object", object |-> ClassObject(Here)])
      /\ index' = index + 1
      /\ UNCHANGED <<objectVars, pc, file, parsed>>
  BY <1>8 DEF ParseClass
<1>10. frames' = Append(frames, g)
  BY <1>9, ClassIsChild DEF ObjectFrame
<1>11. OInv' /\ Now' = Now
  BY <1>2, <1>9, UntouchedMarks DEF objectVars, Now
<1>12. pc = "read" => Fills(Now', file.from, WayOf(Last(frames')), Passed(q, file.data, index'))
  <2> SUFFICES ASSUME pc = "read"
               PROVE  Fills(Now, F, WayOf(Last(frames')), Passed(q, D, index'))
    BY <1>11
  <2>1. Has(Now, m, "class")
    BY <1>1, <1>3, UnderstoodHas
  <2>2. Fills(Now, F, m.of, P)
    BY <1>3, <1>4, <1>5 DEF Reading
  <2>3. "class" \in AllTypes
    BY DEF AllTypes
  <2>4. WayOf(Last(frames')) = Child(m, 0)
    BY <1>7, <1>10, WayIs
  <2>5. Passed(q, D, index') = P \union {m}
    BY <1>7, <1>9
  <2> DEFINE G == Now
  <2>6. Fills(G, F, m.of, P) /\ Has(G, m, "class")
    BY <2>1, <2>2
  <2> HIDE DEF F, D, m, o, P, G
  <2>7. Fills(G, F, Child(m, 0), P \union {m})
    BY <1>4, <1>7, <2>3, <2>6, FillsEnter
  <2> QED
    BY <2>4, <2>5, <2>7 DEF G
<1>13. ReadTo(file.from, file.data, q, index', frames', parsed')
  BY <1>7, <1>9, <1>10
<1> QED
  BY <1>1, <1>9, <1>11, <1>12, <1>13, GoesOn

(* A list.                                                                  *)
LEMMA ParseListHolds ==
  ASSUME FInv, ParseList
  PROVE  FInv'
<1>1. Parsing /\ AtObject /\ ~AtEnd /\ Understood /\ At(index).type = "list"
  BY DEF ParseList, AtObject
<1>2. /\ OInv /\ pc \in {"read", "dump"} /\ Sound(file.from)
      /\ \E q : Reading(q)
  BY <1>1, ReadingFacts
<1>3. PICK q : Reading(q)
  BY <1>2
<1> DEFINE F == file.from
           D == file.data
           m == Here
           o == Frame.object
           P == Passed(q, D, index)
           g == ListFrame(m, 0, F.children[m])
<1>4. /\ m \in AllMembers /\ m.of = o
      /\ Has(F, m, "list") /\ m \notin P /\ P \subseteq AllMembers
  BY <1>1, <1>3, AtMember
<1>5. /\ ReadTo(F, D, q, index, frames, parsed)
      /\ Last(frames) = ObjectFrame(o) /\ WayOf(Frame) = o
      /\ index <= Len(D) /\ D[index] # End /\ At(index) = D[index]
      /\ m = Member(o, D[index].name)
  BY <1>1, <1>3, InObjectFrame DEF Reading
<1>6. ListRead(F, D, q, index, frames, parsed, m)
  <2>1. Sound(F) /\ D[index].type = "list"
    BY <1>1, <1>2, <1>5
  <2> HIDE DEF F, D, m, o
  <2> QED
    BY <1>5, <2>1, ReadList
<1>7. /\ ReadTo(F, D, q, index + 2, Append(frames, g), parsed)
      /\ Last(Append(frames, g)) = g
      /\ m \notin DOMAIN F.values
      /\ index + 1 <= Len(D) /\ D[index + 1] = [count |-> F.children[m]]
      /\ Passed(q, D, index + 2) = P \union {m}
  BY <1>6 DEF ListRead
<1>8. At(index + 1).count = F.children[m]
  <2>1. At(index + 1) = [count |-> F.children[m]]
    BY <1>7 DEF At
  <2> QED
    BY <2>1
<1>9. /\ frames' = Append(frames, [ kind |-> "list", list |-> Here,
                                    done |-> 0, list_count |-> At(index + 1).count ])
      /\ index' = index + 2
      /\ UNCHANGED <<objectVars, pc, file, parsed>>
  BY DEF ParseList
<1>10. frames' = Append(frames, g)
  BY <1>8, <1>9 DEF ListFrame
<1>11. OInv' /\ Now' = Now
  BY <1>2, <1>9, UntouchedMarks DEF objectVars, Now
<1>12. pc = "read" => Fills(Now', file.from, WayOf(Last(frames')), Passed(q, file.data, index'))
  <2> SUFFICES ASSUME pc = "read"
               PROVE  Fills(Now, F, WayOf(Last(frames')), Passed(q, D, index'))
    BY <1>11
  <2>1. Has(Now, m, "list")
    BY <1>1, <1>3, UnderstoodHas
  <2>2. Fills(Now, F, m.of, P)
    BY <1>3, <1>4, <1>5 DEF Reading
  <2>3. "list" \in AllTypes
    BY DEF AllTypes
  <2>4. WayOf(Last(frames')) = Child(m, 0)
    BY <1>7, <1>10, WayIs
  <2>5. Passed(q, D, index') = P \union {m}
    BY <1>7, <1>9
  <2> DEFINE G == Now
  <2>6. Fills(G, F, m.of, P) /\ Has(G, m, "list")
    BY <2>1, <2>2
  <2> HIDE DEF F, D, m, o, P, G
  <2>7. Fills(G, F, Child(m, 0), P \union {m})
    BY <1>4, <1>7, <2>3, <2>6, FillsEnter
  <2> QED
    BY <2>4, <2>5, <2>7 DEF G
<1>13. ReadTo(file.from, file.data, q, index', frames', parsed')
  BY <1>7, <1>9, <1>10
<1> QED
  BY <1>1, <1>9, <1>11, <1>12, <1>13, GoesOn

(* In a list.                                                               *)
LEMMA InListFrame ==
  ASSUME FInv, NEW q, Reading(q), Parsing, Frame.kind = "list"
  PROVE  /\ Last(frames) = ListFrame(Frame.list, Frame.done, Frame.list_count)
         /\ WayOf(Frame) = Child(Frame.list, Frame.done)
<1>1. /\ ReadTo(file.from, file.data, q, index, frames, parsed)
      /\ Sound(file.from)
  BY ReadingFacts DEF Reading
<1>2. \E m, k, c : Frame = ListFrame(m, k, c)
  BY <1>1, ReadFrame, FrameParts DEF Frame
<1>3. PICK m, k, c : Frame = ListFrame(m, k, c)
  BY <1>2
<1>4. Frame.list = m /\ Frame.done = k /\ Frame.list_count = c
  BY <1>3, FrameParts
<1>5. WayOf(Frame) = Child(m, k)
  BY <1>3, WayIs
<1> QED
  BY <1>3, <1>4, <1>5 DEF Frame

(* A child of a list.                                                       *)
LEMMA NextChildHolds ==
  ASSUME FInv, NextChild
  PROVE  FInv'
<1>1. Parsing /\ Frame.kind = "list" /\ Frame.done < Frame.list_count
  BY DEF NextChild
<1>2. /\ OInv /\ updating = {} /\ pc \in {"read", "dump"} /\ Sound(file.from)
      /\ \E q : Reading(q)
  BY <1>1, ReadingFacts
<1>3. PICK q : Reading(q)
  BY <1>2
<1> DEFINE F == file.from
           D == file.data
           m == Frame.list
           k == Frame.done
           c == Frame.list_count
           P == Passed(q, D, index)
           gs == Append([frames EXCEPT ![Len(frames)].done = @ + 1], NewChild(m, k + 1))
<1>4. /\ ReadTo(F, D, q, index, frames, parsed) /\ Sound(F) /\ k < c
      /\ Last(frames) = ListFrame(m, k, c) /\ WayOf(Frame) = Child(m, k)
  BY <1>1, <1>2, <1>3, InListFrame DEF Reading
<1>5. ChildRead(F, D, q, index, frames, parsed, m, k, c)
  <2> HIDE DEF F, D, m, k, c
  <2> QED
    BY <1>4, ReadChild
<1>6. /\ m \in AllMembers /\ k \in Nat /\ m \in DOMAIN F.children /\ c = F.children[m]
      /\ c \in Nat /\ m \in P /\ TraceOf(F, D, q)
      /\ index \in 1 .. Len(D) /\ index <= Len(D)
      /\ D[index] = End => KeptUnder(F, Child(m, k + 1)) = {}
      /\ D[index] # End => ReadTo(F, D, q, index, gs, parsed) /\ Last(gs) = ObjectFrame(Child(m, k + 1))
  BY <1>5 DEF ChildRead
<1>7. At(index) = D[index]
  BY <1>6 DEF At
<1>8. CASE At(index) = End
  <2>1. Asserted
    BY <1>8 DEF NextChild
  <2>2. KeptUnder(F, Child(m, k + 1)) = {}
    BY <1>6, <1>7, <1>8
  <2> DEFINE n == k + 1
  <2>3. n \in 1 .. F.children[m]
    BY <1>4, <1>6
  <2>4. KeptUnder(F, Child(m, n)) = {} /\ m \in DOMAIN F.children /\ Sound(F)
    BY <1>4, <1>6, <2>2
  <2> HIDE DEF F, D, m, n, k, c
  <2>5. Unreadable(F)
    BY <2>3, <2>4, EmptyChildUnreadable
  <2> QED
    BY <1>1, <2>1, <2>5, AssertedHolds DEF Excuse, F
<1>9. CASE At(index) # End
  <2>1. /\ Store(create_child(Frame.list)) /\ frames' = gs
        /\ UNCHANGED <<pc, file, index, parsed>>
    BY <1>9 DEF NextChild
  <2>2. ReadTo(F, D, q, index, gs, parsed) /\ Last(gs) = ObjectFrame(Child(m, k + 1))
    BY <1>6, <1>7, <1>9
  <2>3. ReadTo(file.from, file.data, q, index', frames', parsed')
    BY <2>1, <2>2
  <2>4. CASE pc = "dump"
    <3>1. UNCHANGED objectVars
      BY <2>1, <2>4 DEF Store
    <3>2. OInv'
      BY <1>2, <3>1, UntouchedMarks
    <3> QED
      BY <1>1, <2>1, <2>3, <2>4, <3>2, GoesOn
  <2>5. CASE pc = "read"
    <3>1. create_child(m)
      BY <2>1, <2>5 DEF Store
    <3>2. OInv'
      BY <1>2, <1>6, <3>1, CreatingMarks
    <3>3. /\ schema' = schema /\ values' = values
          /\ children' = Extended(children, m, ChildCount(m) + 1)
      BY <3>1 DEF create_child
    <3> DEFINE G == Now
               H == Now'
    <3>4. CountIn(G, m) = ChildCount(m)
      BY NowParts, Zenon DEF CountIn, ChildCount
    <3>5. /\ H.schema = G.schema /\ H.values = G.values
          /\ H.children = Extended(G.children, m, CountIn(G, m) + 1)
      BY <3>3, <3>4, NowParts DEF Now
    <3>6. Fills(G, F, Child(m, k), P)
      BY <1>3, <1>4, <2>5 DEF Reading
    <3>7. P \subseteq AllMembers
      BY <1>4, <1>6, PassedIs DEF ReadTo
    <3>8. WayOf(Last(frames')) = Child(m, k + 1)
      BY <2>1, <2>2, WayIs
    <3> HIDE DEF G, H, F, D, P, m, k
    <3>9. Fills(H, F, Child(m, k + 1), P)
      BY <1>6, <3>5, <3>6, <3>7, FillsNext
    <3>10. Fills(Now', file.from, WayOf(Last(frames')), Passed(q, file.data, index'))
      BY <2>1, <3>8, <3>9 DEF H, F, D, P
    <3> QED
      BY <1>1, <2>1, <2>3, <3>2, <3>10, GoesOn
  <2> QED
    BY <1>2, <2>4, <2>5
<1> QED
  BY <1>8, <1>9

(* The end of a list.                                                       *)
LEMMA EndListHolds ==
  ASSUME FInv, EndList
  PROVE  FInv'
<1>1. /\ Parsing /\ Frame.kind = "list" /\ Frame.done = Frame.list_count
      /\ frames' = Front(frames) /\ parsed' = parsed + 1
      /\ UNCHANGED <<objectVars, pc, file, index>>
  BY DEF EndList
<1>2. /\ OInv /\ pc \in {"read", "dump"} /\ Sound(file.from)
      /\ \E q : Reading(q)
  BY <1>1, ReadingFacts
<1>3. PICK q : Reading(q)
  BY <1>2
<1> DEFINE F == file.from
           D == file.data
           m == Frame.list
           c == Frame.list_count
           P == Passed(q, D, index)
<1>4. /\ ReadTo(F, D, q, index, frames, parsed) /\ Sound(F)
      /\ Last(frames) = ListFrame(m, c, c) /\ WayOf(Frame) = Child(m, c)
  BY <1>1, <1>2, <1>3, InListFrame DEF Reading
<1>5. ListEndRead(F, D, q, index, frames, parsed, m, c)
  <2> HIDE DEF F, D, m, c
  <2> QED
    BY <1>4, ReadListEnd
<1>6. /\ ReadTo(F, D, q, index, Front(frames), parsed + 1)
      /\ m \in AllMembers /\ c \in Nat /\ c = F.children[m]
      /\ Last(Front(frames)) = ObjectFrame(m.of)
  BY <1>5 DEF ListEndRead
<1>7. OInv' /\ Now' = Now
  BY <1>1, <1>2, UntouchedMarks DEF objectVars, Now
<1>8. pc = "read" => Fills(Now', file.from, WayOf(Last(frames')), Passed(q, file.data, index'))
  <2> SUFFICES ASSUME pc = "read"
               PROVE  Fills(Now, F, WayOf(Last(frames')), P)
    BY <1>1, <1>7
  <2>1. P \subseteq AllMembers
    BY <1>4, PassedIs DEF ReadTo
  <2>2. WayOf(Last(frames')) = m.of
    BY <1>1, <1>6, WayIs
  <2> DEFINE G == Now
  <2>3. Fills(G, F, Child(m, c), P)
    BY <1>3, <1>4 DEF Reading
  <2> HIDE DEF F, D, m, c, P, G
  <2>4. Fills(G, F, m.of, P)
    BY <1>6, <2>1, <2>3, FillsLeave
  <2> QED
    BY <2>2, <2>4 DEF G
<1>9. ReadTo(file.from, file.data, q, index', frames', parsed')
  BY <1>1, <1>6
<1> QED
  BY <1>1, <1>7, <1>8, <1>9, GoesOn

(* The end of a class or of a child.                                        *)
LEMMA EndObjectHolds ==
  ASSUME FInv, EndObject
  PROVE  FInv'
<1>1. /\ Parsing /\ AtObject /\ AtEnd
      /\ frames' = Front(frames) /\ index' = index + 1
      /\ parsed' = parsed + (IF Last(Front(frames)).kind = "object" THEN 1 ELSE 0)
      /\ UNCHANGED <<objectVars, pc, file>>
  BY DEF EndObject, AtObject
<1>2. /\ OInv /\ pc \in {"read", "dump"} /\ Sound(file.from)
      /\ \E q : Reading(q)
  BY <1>1, ReadingFacts
<1>3. PICK q : Reading(q)
  BY <1>2
<1> DEFINE F == file.from
           D == file.data
           o == Frame.object
           P == Passed(q, D, index)
<1>4. /\ ReadTo(F, D, q, index, frames, parsed) /\ Sound(F)
      /\ Last(frames) = ObjectFrame(o) /\ WayOf(Frame) = o
      /\ index <= Len(D) /\ D[index] = End /\ parsed \in Nat
  <2>1. /\ ReadTo(F, D, q, index, frames, parsed) /\ Sound(F)
        /\ Last(frames) = ObjectFrame(o) /\ WayOf(Frame) = o
        /\ index <= Len(D) /\ D[index] = End
    BY <1>1, <1>2, <1>3, InObjectFrame DEF Reading, AtEnd
  <2>2. parsed \in Nat
    <3>1. IsFiniteSet(P) /\ parsed = Cardinality(P \ OpenIn(WayOf(Last(frames))))
      BY <2>1, PassedIs DEF ReadTo, Counted
    <3> HIDE DEF P
    <3>2. IsFiniteSet(P \ OpenIn(WayOf(Last(frames))))
      BY <3>1, FS_Subset
    <3> QED
      BY <3>1, <3>2, FS_CardinalityType
  <2> QED
    BY <2>1, <2>2
<1>5. ObjectEndRead(F, D, q, index, frames, parsed, o)
  <2> HIDE DEF F, D, o
  <2> QED
    BY <1>4, ReadObjectEnd
<1>6. Passed(q, D, index + 1) = P
  BY <1>5 DEF ObjectEndRead
<1>7. OInv' /\ Now' = Now
  BY <1>1, <1>2, UntouchedMarks DEF objectVars, Now
<1>8. P \subseteq AllMembers
  BY <1>4, PassedIs DEF ReadTo
<1>9. CASE \E m \in AllMembers : /\ o = Child(m, 0) /\ m \notin DOMAIN F.children
                                 /\ Last(Front(frames)) = ObjectFrame(m.of)
                                 /\ ReadTo(F, D, q, index + 1, Front(frames), parsed + 1)
  <2>1. PICK m \in AllMembers : /\ o = Child(m, 0) /\ m \notin DOMAIN F.children
                                /\ Last(Front(frames)) = ObjectFrame(m.of)
                                /\ ReadTo(F, D, q, index + 1, Front(frames), parsed + 1)
    BY <1>9
  <2>2. Last(Front(frames)).kind = "object"
    BY <2>1, FrameParts
  <2>3. ReadTo(file.from, file.data, q, index', frames', parsed')
    BY <1>1, <2>1, <2>2
  <2>4. pc = "read" => Fills(Now', file.from, WayOf(Last(frames')), Passed(q, file.data, index'))
    <3> SUFFICES ASSUME pc = "read"
                 PROVE  Fills(Now, F, WayOf(Last(frames')), P)
      BY <1>1, <1>6, <1>7
    <3>1. WayOf(Last(frames')) = m.of
      BY <1>1, <2>1, WayIs
    <3> DEFINE G == Now
    <3>2. Fills(G, F, Child(m, 0), P)
      BY <1>3, <1>4, <2>1 DEF Reading
    <3> HIDE DEF F, D, P, G
    <3>3. Fills(G, F, m.of, P)
      BY <1>8, <2>1, <3>2, FillsLeave
    <3> QED
      BY <3>1, <3>3 DEF G
  <2> QED
    BY <1>1, <1>7, <2>3, <2>4, GoesOn
<1>10. CASE \E m, k, c : /\ o = Child(m, k)
                         /\ Last(Front(frames)) = ListFrame(m, k, c)
                         /\ ReadTo(F, D, q, index + 1, Front(frames), parsed)
  <2>1. PICK m, k, c : /\ o = Child(m, k)
                       /\ Last(Front(frames)) = ListFrame(m, k, c)
                       /\ ReadTo(F, D, q, index + 1, Front(frames), parsed)
    BY <1>10
  <2>2. parsed' = parsed
    <3>1. Last(Front(frames)).kind = "list"
      BY <2>1, FrameParts
    <3> QED
      BY <1>1, <1>4, <3>1
  <2>3. ReadTo(file.from, file.data, q, index', frames', parsed')
    BY <1>1, <2>1, <2>2
  <2>4. WayOf(Last(frames')) = WayOf(Frame)
    BY <1>1, <1>4, <2>1, WayIs
  <2>5. pc = "read" => Fills(Now', file.from, WayOf(Last(frames')), Passed(q, file.data, index'))
    BY <1>1, <1>3, <1>6, <1>7, <2>4 DEF Reading
  <2> QED
    BY <1>1, <1>7, <2>3, <2>5, GoesOn
<1> QED
  BY <1>5, <1>9, <1>10 DEF ObjectEndRead

(* The end of the data.                                                     *)
LEMMA EndOfDataHolds ==
  ASSUME FInv, EndOfData
  PROVE  FInv'
<1>1. /\ Parsing /\ Frame.kind = "object" /\ index > Len(file.data)
      /\ pc' = IF Len(frames) > 1 \/ parsed # file.count THEN Failed(pc)
               ELSE IF pc = "dump" THEN "dumped"
               ELSE IF check_exist THEN "accepted" ELSE "refused"
      /\ UNCHANGED <<schema, values, children, exist, updating, file>>
  BY DEF EndOfData, objectVars
<1>2. /\ OInv /\ updating = {} /\ pc \in {"read", "dump"} /\ IsFile(file) /\ CrcHolds
      /\ Sound(file.from) /\ Functional(file.from) /\ Mandatory(file.from)
      /\ \E q : Reading(q)
  BY <1>1, ReadingFacts
<1>3. PICK q : Reading(q)
  BY <1>2
<1> DEFINE F == file.from
           D == file.data
<1>4. ReadTo(F, D, q, index, frames, parsed)
  BY <1>3 DEF Reading
<1>5. PICK o : Last(frames) = ObjectFrame(o)
  BY <1>1, <1>2, <1>4, ReadFrame, FrameParts DEF Frame
<1>6. /\ ~(Len(frames) > 1) /\ WayOf(Last(frames)) = <<>>
      /\ parsed = Cardinality(KeptUnder(F, <<>>))
      /\ Passed(q, D, index) = KeptUnder(F, <<>>)
  <2>1. index > Len(D)
    BY <1>1
  <2> HIDE DEF F, D
  <2> QED
    BY <1>4, <1>5, <2>1, ReadEnds
<1>7. parsed = file.count
  BY <1>2, <1>6, IntactFile
<1>8. OInv'
  BY <1>1, <1>2, UntouchedMarks DEF objectVars
<1>9. FileInv'
  BY <1>1, <1>2 DEF FileInv
<1>10. CASE pc = "dump"
  <2>1. pc' = "dumped"
    BY <1>1, <1>6, <1>7, <1>10
  <2> QED
    BY <1>8, <1>9, <2>1
       DEF FInv, BuildInv, ReadInv, AcceptedMeansEqual, FilesStayReadable
<1>11. CASE pc = "read"
  <2>1. pc' = IF check_exist THEN "accepted" ELSE "refused"
    BY <1>1, <1>6, <1>7, <1>11
  <2>2. Fills(Now, F, <<>>, KeptUnder(F, <<>>))
    BY <1>3, <1>6, <1>11 DEF Reading, Frame
  <2>3. IsProgram(schema) /\ Functional(Now)
    BY <1>2, <2>2, NowParts DEF Fills, OInv
  <2>4. /\ values = F.values /\ children = F.children
        /\ \A m \in WrittenIn(F) : TypeIn(schema, m) = TypeIn(F.schema, m)
    <3> DEFINE G == Now
    <3>1. Fills(G, F, <<>>, KeptUnder(F, <<>>)) /\ Functional(G) /\ Sound(F) /\ Functional(F)
      BY <1>2, <2>2, <2>3
    <3> HIDE DEF G, F
    <3>2. /\ G.values = F.values /\ G.children = F.children
          /\ \A m \in WrittenIn(F) : TypeIn(G.schema, m) = TypeIn(F.schema, m)
      BY <3>1, FilledIsEqual
    <3> QED
      BY <3>2, NowParts DEF G
  <2>5. AcceptedMeansEqual'
    BY <1>1, <2>4 DEF AcceptedMeansEqual, WrittenIn
  <2>6. FilesStayReadable'
    <3>1. Extends(schema, F.schema) => check_exist
      <4> DEFINE E == F
      <4>1. Sound(E) /\ Mandatory(E) /\ values = E.values /\ children = E.children
        BY <1>2, <2>4
      <4>2. E.schema = F.schema
        OBVIOUS
      <4> HIDE DEF E
      <4>3. Extends(schema, E.schema) => check_exist
        BY <1>2, <2>3, <4>1, CheckHolds
      <4> QED
        BY <4>2, <4>3
    <3>2. pc' = "refused" => ~Extends(schema', file'.from.schema)
      BY <1>1, <2>1, <3>1
    <3> QED
      BY <2>1, <3>2 DEF FilesStayReadable
  <2> QED
    BY <1>8, <1>9, <2>1, <2>5, <2>6 DEF FInv, BuildInv, ReadInv
<1> QED
  BY <1>2, <1>10, <1>11

(* The beginning: the program that reads has a blank object.                *)
LEMMA BeginHolds ==
  ASSUME FInv, NEW mode \in {"read", "dump"}, Begin(mode), mode = "read" => IsProgram(schema')
  PROVE  FInv'
<1>1. /\ pc \in {"written", "damaged"}
      /\ pc' = IF file.data # <<>> /\ CrcHolds THEN mode ELSE Failed(mode)
      /\ index' = 1 /\ frames' = <<Top>> /\ parsed' = 0
      /\ values' = <<>> /\ children' = <<>> /\ exist' = {} /\ updating' = {}
      /\ file' = file
  BY DEF Begin
<1>2. OInv'
  BY <1>1, BlankMarks
<1>3. IsFile(file) /\ Sound(file.from) /\ FileInv'
  BY <1>1 DEF FInv, FileInv, IsFile
<1>4. pc' # "build" /\ pc' \notin {"accepted", "refused"}
  BY <1>1 DEF Failed
<1>5. BuildInv' /\ AcceptedMeansEqual'
  BY <1>4 DEF BuildInv, AcceptedMeansEqual
<1>6. CrcHolds' <=> CrcHolds
  BY <1>1 DEF CrcHolds
<1>7. CASE file.data # <<>> /\ CrcHolds
  <2>1. pc' = mode
    BY <1>1, <1>7
  <2> DEFINE F == file.from
             D == file.data
  <2>2. ObjectRuns(F, <<>>, D, KeptUnder(F, <<>>))
    BY <1>3, <1>7, IntactFile
  <2> HIDE DEF F, D
  <2>3. PICK b : /\ InObject(b) /\ b.of = <<>>
                 /\ Runs(F, FrontOf(<<>>), D, b, KeptUnder(F, <<>>))
    BY <2>2 DEF ObjectRuns
  <2>4. PICK q : Run(F, FrontOf(<<>>), D, b, KeptUnder(F, <<>>), q)
    BY <2>3 DEF Runs
  <2>5. q[Len(D) + 1] = b
    BY <2>4 DEF Run
  <2>6. TraceOf(F, D, q)
    BY <2>3, <2>4, <2>5 DEF TraceOf
  <2>7. ReadTo(F, D, q, 1, <<Top>>, 0) /\ Passed(q, D, 1) = {}
    BY <2>6, ReadBegins
  <2>8. ReadTo(file.from, file.data, q, index, frames, parsed)'
    BY <1>1, <2>7 DEF F, D
  <2>9. (pc = "read" => Fills(Now, file.from, WayOf(Frame), Passed(q, file.data, index)))'
    <3> SUFFICES ASSUME pc' = "read"
                 PROVE  Fills(Now', F, WayOf(Last(frames')), Passed(q, D, 1))
      BY <1>1 DEF F, D, Frame
    <3> DEFINE G == Now'
    <3>1. IsProgram(G.schema) /\ G.values = <<>> /\ G.children = <<>>
      BY <1>1, <2>1 DEF Now
    <3> HIDE DEF G
    <3>2. Fills(G, F, WayOf(Last(frames')), {})
      BY <3>1, NothingFilled
    <3> QED
      BY <2>7, <3>2 DEF G
  <2>10. Reading(q)'
    BY <2>8, <2>9 DEF Reading
  <2>11. ReadInv'
    BY <1>6, <1>7, <2>10 DEF ReadInv
  <2>12. FilesStayReadable'
    BY <2>1 DEF FilesStayReadable
  <2> QED
    BY <1>2, <1>3, <1>5, <2>11, <2>12 DEF FInv
<1>8. CASE ~(file.data # <<>> /\ CrcHolds)
  <2>1. pc' \in {"asserted", "not_dumped"}
    BY <1>1, <1>8 DEF Failed
  <2>2. ReadInv'
    BY <2>1 DEF ReadInv
  <2>3. CrcHolds => Unreadable(file.from)
    <3> SUFFICES ASSUME CrcHolds PROVE Unreadable(file.from)
      OBVIOUS
    <3> DEFINE F == file.from
    <3>1. ObjectRuns(F, <<>>, <<>>, KeptUnder(F, <<>>)) /\ Sound(F)
      BY <1>3, <1>8, IntactFile
    <3> HIDE DEF F
    <3> QED
      BY <3>1, NoFileIsEmpty DEF F
  <2>4. FilesStayReadable'
    BY <1>1, <1>6, <2>3 DEF FilesStayReadable
  <2> QED
    BY <1>2, <1>3, <1>5, <2>2, <2>4 DEF FInv
<1> QED
  BY <1>7, <1>8

-----------------------------------------------------------------------------
(* Every step.                                                              *)

(* While the object is filled, or goes to its file, no file is read.        *)
LEMMA NotReading ==
  ASSUME pc' \in {"build", "written", "damaged"}
  PROVE  ReadInv' /\ AcceptedMeansEqual' /\ FilesStayReadable'
  BY DEF ReadInv, AcceptedMeansEqual, FilesStayReadable

(* The program fills the object.                                            *)
LEMMA WritingHolds ==
  ASSUME FInv, WriteMember \/ AppendMember \/ CreateChild
  PROVE  FInv'
<1>1. pc = "build" /\ updating = {} /\ pc' = pc /\ OInv /\ BuildInv
  BY DEF WriteMember, AppendMember, CreateChild, FInv
<1>2. OInv' /\ BuildInv'
  <2>1. CASE WriteMember
    <3>1. PICK m \in Members(Constructed, AllTypes \ {"class", "list"}) :
            \E value : write_data(m, value)
      BY <2>1 DEF WriteMember
    <3>2. PICK value : write_data(m, value)
      BY <3>1
    <3>3. AllTypes \ {"class", "list"} = Simple
      BY DEF AllTypes, Simple, Numbers, NumberLists, Strings
    <3>4. m \in Members(Constructed, Simple)
      BY <3>3
    <3> QED
      BY <1>1, <3>2, <3>4, WritingBuilds
  <2>2. CASE AppendMember
    <3>1. PICK m \in Members(Constructed, NumberLists \union Strings) :
            \E row \in Rows : append_data(m, row)
      BY <2>2 DEF AppendMember
    <3>2. PICK row \in Rows : append_data(m, row)
      BY <3>1
    <3>3. write_data(m, Append(IF m \in DOMAIN values THEN values[m] ELSE <<>>, row))
      BY <3>2 DEF append_data
    <3>4. m \in Members(Constructed, Simple)
      <4>1. NumberLists \union Strings \subseteq Simple
        BY DEF Simple
      <4> QED
        BY <4>1 DEF Members
    <3> QED
      BY <1>1, <3>3, <3>4, WritingBuilds
  <2>3. CASE CreateChild
    <3>1. PICK m \in Members(Constructed, {"list"}) : ChildCount(m) < MaxChildren /\ create_child(m)
      BY <2>3 DEF CreateChild
    <3> QED
      BY <1>1, <3>1, CreatingBuilds
  <2> QED
    BY <2>1, <2>2, <2>3
<1>3. FileInv'
  BY <1>1 DEF FileInv
<1> QED
  BY <1>1, <1>2, <1>3, NotReading DEF FInv

(* update_exist changes nothing but marks.                                  *)
LEMMA UpdatingHolds ==
  ASSUME FInv, UpdateExist
  PROVE  FInv'
<1>1. /\ update_exist /\ schema' = schema /\ values' = values /\ children' = children
      /\ UNCHANGED <<pc, file, index, frames, parsed>>
  BY DEF UpdateExist, update_exist, readVars
<1>2. OInv'
  BY <1>1, UpdatingMarks DEF FInv
<1>3. Now' = Now
  BY <1>1 DEF Now
<1>4. BuildInv' /\ FileInv' /\ AcceptedMeansEqual'
  BY <1>1, <1>3 DEF FInv, BuildInv, FileInv, AcceptedMeansEqual
<1>5. CrcHolds' <=> CrcHolds
  BY <1>1 DEF CrcHolds
<1>6. FilesStayReadable'
  BY <1>1, <1>5 DEF FInv, FilesStayReadable
<1>7. ReadInv'
  <2> SUFFICES ASSUME pc' \in {"read", "dump"} PROVE CrcHolds' /\ \E q : Reading(q)'
    BY DEF ReadInv
  <2>1. CrcHolds /\ \E q : Reading(q)
    BY <1>1 DEF FInv, ReadInv
  <2>2. PICK q : Reading(q)
    BY <2>1
  <2>3. Reading(q)'
    BY <1>1, <1>3, <2>2 DEF Reading, Frame
  <2> QED
    BY <1>5, <2>1, <2>3
<1> QED
  BY <1>2, <1>4, <1>6, <1>7 DEF FInv

(* The invariant is inductive.                                              *)
LEMMA StepHolds ==
  ASSUME FInv, [Next]_vars
  PROVE  FInv'
<1>1. CASE WriteMember \/ AppendMember \/ CreateChild
  BY <1>1, WritingHolds
<1>2. CASE UpdateExist
  BY <1>2, UpdatingHolds
<1>3. CASE write
  <2>1. /\ pc = "build" /\ pc' \in {"build", "written"} /\ UNCHANGED objectVars
        /\ OInv /\ BuildInv
    BY <1>3 DEF write, FInv
  <2>2. OInv'
    BY <2>1, UntouchedMarks
  <2>3. FileInv'
    BY <1>3, <2>1, WriteWrites
  <2>4. BuildInv'
    BY <2>1 DEF BuildInv, Now, objectVars
  <2> QED
    BY <2>1, <2>2, <2>3, <2>4, NotReading DEF FInv
<1>4. CASE Damage
  <2>1. pc' = "damaged" /\ UNCHANGED objectVars /\ OInv /\ FileInv
    BY <1>4 DEF Damage, FInv
  <2>2. OInv'
    BY <2>1, UntouchedMarks
  <2>3. FileInv'
    BY <1>4, <2>1, DamageKeeps
  <2>4. BuildInv'
    BY <2>1 DEF BuildInv
  <2> QED
    BY <2>1, <2>2, <2>3, <2>4, NotReading DEF FInv
<1>5. CASE \E rules \in Programs : read(rules)
  <2>1. PICK rules \in Programs : read(rules)
    BY <1>5
  <2>2. Begin("read") /\ schema' = rules
    BY <2>1 DEF read
  <2>3. IsProgram(schema')
    BY <2>2, ProgramsAssumption
  <2> QED
    BY <2>2, <2>3, BeginHolds
<1>6. CASE parse
  BY <1>6, BeginHolds DEF parse
<1>7. CASE Misunderstood
  BY <1>7, MisunderstoodHolds
<1>8. CASE ParseValue
  BY <1>8, ParseValueHolds
<1>9. CASE ParseClass
  BY <1>9, ParseClassHolds
<1>10. CASE ParseList
  BY <1>10, ParseListHolds
<1>11. CASE NextChild
  BY <1>11, NextChildHolds
<1>12. CASE EndList
  BY <1>12, EndListHolds
<1>13. CASE EndObject
  BY <1>13, EndObjectHolds
<1>14. CASE EndOfData
  BY <1>14, EndOfDataHolds
<1>15. CASE UNCHANGED vars
  <2>1. UNCHANGED <<schema, values, children, exist, updating, pc, file, index, frames, parsed>>
    BY <1>15 DEF vars, objectVars, readVars
  <2>2. OInv'
    BY <2>1, UntouchedMarks DEF FInv, objectVars
  <2>3. Now' = Now
    BY <2>1 DEF Now
  <2>4. BuildInv' /\ FileInv' /\ AcceptedMeansEqual'
    BY <2>1, <2>3 DEF FInv, BuildInv, FileInv, AcceptedMeansEqual
  <2>5. CrcHolds' <=> CrcHolds
    BY <2>1 DEF CrcHolds
  <2>6. FilesStayReadable'
    BY <2>1, <2>5 DEF FInv, FilesStayReadable
  <2>7. \A q : Reading(q) => Reading(q)'
    BY <2>1, <2>3 DEF Reading, Frame
  <2>8. ReadInv'
    BY <2>1, <2>5, <2>7 DEF FInv, ReadInv
  <2> QED
    BY <2>2, <2>4, <2>6, <2>8 DEF FInv
<1> QED
  BY <1>1, <1>2, <1>3, <1>4, <1>5, <1>6, <1>7, <1>8, <1>9, <1>10, <1>11, <1>12, <1>13,
     <1>14, <1>15
     DEF Next, ParseNext

(* It holds at first.                                                       *)
LEMMA BeginsSo == Init => FInv
<1> SUFFICES ASSUME Init PROVE FInv
  OBVIOUS
<1>1. PICK rules \in Programs : IsBlank(rules)
  BY DEF Init
<1>2. /\ pc = "build" /\ schema = rules /\ values = <<>> /\ children = <<>>
      /\ exist = {} /\ updating = {}
  BY <1>1 DEF Init, IsBlank
<1>3. DOMAIN values = {} /\ DOMAIN children = {}
  BY <1>2
<1>4. IsProgram(schema)
  BY <1>2, ProgramsAssumption
<1>5. IInv
  BY InitHolds
<1>6. Functional(Now)
  BY <1>2, NowParts DEF Functional
<1>7. WrittenIn(Now) = {}
  BY <1>3, NowParts DEF WrittenIn
<1>8. OInv
  BY <1>2, <1>5, <1>6, <1>7 DEF OInv
<1>9. BuildInv
  BY <1>3, <1>4, NowParts DEF BuildInv, Sound
<1>10. FileInv /\ ReadInv /\ AcceptedMeansEqual /\ FilesStayReadable
  BY <1>2 DEF FileInv, ReadInv, AcceptedMeansEqual, FilesStayReadable
<1> QED
  BY <1>8, <1>9, <1>10 DEF FInv

(* What a reader accepts, or finds a mandatory member missing in, is what   *)
(* was written, whatever happened to the file and whoever reads it          *)
(* (CFGObject::read, parse_object).  CFG_crc16 is taken to tell any two      *)
(* data apart.                                                              *)
THEOREM AcceptedIsEqual == Spec => []AcceptedMeansEqual
<1>1. FInv /\ [Next]_vars => FInv'
  BY StepHolds
<1>2. FInv => AcceptedMeansEqual
  BY DEF FInv
<1> QED
  BY BeginsSo, <1>1, <1>2, PTL DEF Spec

(* What a program wrote, it and those that extend its rules can read, and   *)
(* the dump can show it: an assertion of CFGObject::read and of CFGObject_  *)
(* parse fails for a file that is intact in the three cases alone that      *)
(* FilesStayReadable names.                                                 *)
THEOREM FilesAreReadable == Spec => []FilesStayReadable
<1>1. FInv /\ [Next]_vars => FInv'
  BY StepHolds
<1>2. FInv => FilesStayReadable
  BY DEF FInv
<1> QED
  BY BeginsSo, <1>1, <1>2, PTL DEF Spec
=============================================================================
