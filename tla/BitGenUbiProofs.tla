--------------------------- MODULE BitGenUbiProofs ---------------------------
(***************************************************************************)
(* The container for all files and any number of them: what parse_old_bop   *)
(* counts stays linked while the container grows behind it (ChainLeadsOn),  *)
(* and a reader that goes from BOP to BOP meets as many as the header       *)
(* counts and comes out at the end (ContainerIsWalked).                     *)
(*                                                                         *)
(* IInv is inductive and says where the BOPs of the old format lead.  WInv, *)
(* inductive relative to it, has a chain of package_count BOPs through what *)
(* is written so far; the walk of the reader is a table from the end, so    *)
(* that it meets such a chain is shown by induction along it.               *)
(***************************************************************************)
EXTENDS BitGenUbi, SequenceTheorems, WellFoundedInduction, TLAPS

(***************************************************************************)
(* Sequences                                                                *)
(***************************************************************************)
LEMMA SeqFacts ==
  ASSUME NEW s, IsSeq(s)
  PROVE  Len(s) \in Nat /\ DOMAIN s = 1 .. Len(s)
  BY DEF IsSeq

LEMMA ConcatFacts ==
  ASSUME NEW s, NEW t, IsSeq(s), IsSeq(t)
  PROVE  /\ IsSeq(s \o t)
         /\ Len(s \o t) = Len(s) + Len(t)
         /\ \A k \in 1 .. Len(s) : (s \o t)[k] = s[k]
         /\ \A k \in 1 .. Len(t) : (s \o t)[Len(s) + k] = t[k]
<1> DEFINE U == {s[k] : k \in DOMAIN s} \union {t[k] : k \in DOMAIN t}
<1>1. s \in Seq(U) /\ t \in Seq(U)
  BY SeqMonotonic DEF IsSeq
<1>2. s \o t \in Seq(U)
  BY <1>1
<1> HIDE DEF U
<1>3. IsSeq(s \o t)
  BY <1>2, SeqOfRange DEF IsSeq, Range
<1>4. Len(s \o t) = Len(s) + Len(t)
  BY <1>1, ConcatProperties
<1>5. \A k \in 1 .. Len(s) + Len(t) : (s \o t)[k] = IF k <= Len(s) THEN s[k] ELSE t[k - Len(s)]
  BY <1>1, ConcatProperties
<1>6. Len(s) \in Nat /\ Len(t) \in Nat
  BY <1>1
<1> QED
  BY <1>3, <1>4, <1>5, <1>6

LEMMA ExceptFacts ==
  ASSUME NEW s, IsSeq(s), NEW i \in 1 .. Len(s), NEW v
  PROVE  LET t == [s EXCEPT ![i] = v]
         IN  /\ IsSeq(t)
             /\ Len(t) = Len(s)
             /\ t[i] = v
             /\ \A k \in 1 .. Len(s) : k # i => t[k] = s[k]
<1> DEFINE U == {s[k] : k \in DOMAIN s} \union {v}
<1> DEFINE t == [s EXCEPT ![i] = v]
<1>1. s \in Seq(U)
  BY SeqMonotonic DEF IsSeq
<1>2. t \in Seq(U) /\ Len(t) = Len(s) /\ t[i] = v /\ \A k \in 1 .. Len(s) : k # i => t[k] = s[k]
  BY <1>1, SeqFacts
<1> HIDE DEF U, t
<1>3. IsSeq(t)
  BY <1>2, SeqOfRange DEF IsSeq, Range
<1> QED
  BY <1>2, <1>3 DEF t

(***************************************************************************)
(* The inductive invariant                                                  *)
(***************************************************************************)
Shapes ==
  /\ IsSeq(data) /\ IsSeq(input)
  /\ \A k \in DOMAIN input : input[k].type = "bop" => input[k].offset \in Nat
  /\ index \in Nat /\ filepath_index \in Nat
  /\ Len(filepaths) \in Nat
  /\ \A k \in 1 .. Len(filepaths) : filepaths[k] \in Files

StartsRight ==
  /\ \A s \in starts : s \in Nat /\ s <= Len(data) + 1
  /\ pc \in {"identify", "new", "old"} => Len(data) + 1 \in starts
  /\ pc = "old" /\ whole => index <= Len(input)

(* A BOP that was counted lies in the container or, while its file is read, *)
(* in the part of the file that has been passed.                            *)
Passed(p) ==
  \/ p <= Len(data)
  \/ pc = "old" /\ p <= Len(data) + index /\ p <= Len(data) + Len(input)

HeadRight(p) ==
  /\ p \in Nat /\ p >= 1
  /\ Passed(p)
  /\ CellAt(p).offset \in Nat
  /\ CrcRight(CellAt(p))
  /\ whole => LeadsOn(p)

Busy == {"idle", "file", "identify", "new", "old", "written"}
HeadsRight == pc \in Busy => \A p \in heads : HeadRight(p)

IInv ==
  /\ Shapes
  /\ StartsRight
  /\ HeadsRight
  /\ pc = "idle" => heads = {} /\ starts = {}

(***************************************************************************)
(* The steps                                                                *)
(***************************************************************************)

(* Nothing of the container, the file or the chain changes.                 *)
LEMMA QuietKeeps ==
  ASSUME IInv,
         UNCHANGED <<data, input, index, filepath_index, filepaths, starts, heads, whole>>,
         \/ pc' = pc
         \/ pc' \in {"refused", "asserted", "crashed"}
         \/ pc = "file" /\ pc' = "written"
  PROVE  IInv'
<1>1. Shapes'
  BY DEF IInv, Shapes
<1>2. StartsRight'
  BY DEF IInv, StartsRight
<1>3. ASSUME pc' \in Busy, NEW p \in heads PROVE HeadRight(p)'
  <2>1. HeadRight(p) /\ (pc = "old" <=> pc' = "old")
    BY <1>3 DEF IInv, HeadsRight, Busy
  <2>2. CellAt(p)' = CellAt(p) /\ Reading' = Reading /\ is_last_file' = is_last_file
    BY <2>1 DEF CellAt, Reading, is_last_file
  <2>3. LeadsOn(p) => LeadsOn(p)'
    BY <2>2 DEF LeadsOn
  <2> QED
    BY <2>1, <2>2, <2>3 DEF HeadRight, Passed, CrcRight
<1>4. HeadsRight'
  BY <1>3 DEF HeadsRight
<1>5. pc' = "idle" => pc = "idle"
  OBVIOUS
<1> QED
  BY <1>1, <1>2, <1>4, <1>5 DEF IInv

LEMMA PackageKeeps ==
  ASSUME IInv, NEW list \in Commands, package(list)
  PROVE  IInv'
<1>1. heads' = {} /\ starts' = {} /\ pc' = "file"
  BY DEF IInv, package, oldVars
<1>2. /\ Len(filepaths') \in Nat
      /\ \A k \in 1 .. Len(filepaths') : filepaths'[k] \in Files
  <2>1. PICK n \in 1 .. MaxFiles : list \in [1 .. n -> Files]
    BY DEF Commands
  <2>2. n \in Nat /\ list \in Seq(Files) /\ Len(list) = n
    BY <2>1, UbiConstants
  <2> QED
    BY <2>2, <2>1 DEF package
<1>3. IsSeq(data')
  BY DEF package, IsSeq
<1>4. Shapes'
  BY <1>2, <1>3 DEF IInv, Shapes, package, oldVars
<1>5. StartsRight' /\ HeadsRight'
  BY <1>1 DEF StartsRight, HeadsRight
<1> QED
  BY <1>1, <1>4, <1>5 DEF IInv

(* The next file begins behind the container; a BOP with offset 0 would be  *)
(* in the last file, and there is none after it.                            *)
LEMMA ReadFileKeeps ==
  ASSUME IInv, ReadFile
  PROVE  IInv'
<1>1. /\ pc = "file" /\ filepath_index < Len(filepaths)
      /\ pc' \in {"identify", "crashed", "refused"}
      /\ filepath_index' = filepath_index + 1
      /\ input' = filepaths[filepath_index + 1]
      /\ starts' = starts \union {Len(data) + 1}
      /\ UNCHANGED <<filepaths, index, count, heads, data, whole>>
  BY DEF ReadFile, oldVars
<1>2. Len(data) \in Nat /\ filepath_index \in Nat /\ Len(filepaths) \in Nat
  BY SeqFacts DEF IInv, Shapes
<1>3. input' \in Files
  BY <1>1, <1>2 DEF IInv, Shapes
<1>4. Shapes'
  BY <1>1, <1>2, <1>3, UbiFiles DEF IInv, Shapes
<1>5. StartsRight'
  BY <1>1, <1>2 DEF IInv, StartsRight
<1>6. ASSUME NEW p \in heads PROVE HeadRight(p)'
  <2>1. HeadRight(p) /\ p <= Len(data)
    BY <1>1 DEF IInv, HeadsRight, Busy, HeadRight, Passed
  <2>2. CellAt(p)' = CellAt(p)
    BY <1>1, <2>1 DEF CellAt
  <2>3. LeadsOn(p) => LeadsOn(p)'
    <3>1. ~is_last_file
      BY <1>1, <1>2 DEF is_last_file
    <3>2. Reading = {}
      BY <1>1 DEF Reading
    <3> QED
      BY <1>1, <2>2, <3>1, <3>2 DEF LeadsOn
  <2> QED
    BY <1>1, <2>1, <2>2, <2>3 DEF HeadRight, Passed, CrcRight
<1>7. HeadsRight'
  BY <1>1, <1>6 DEF HeadsRight
<1> QED
  BY <1>1, <1>4, <1>5, <1>7 DEF IInv

LEMMA IdentifyKeeps ==
  ASSUME IInv, Identify
  PROVE  IInv'
<1>1. /\ pc = "identify"
      /\ pc' \in {"new", "old", "refused"}
      /\ index' = 0
      /\ UNCHANGED <<filepaths, filepath_index, input, data, heads, starts, whole>>
  BY DEF Identify
<1>2. Len(data) \in Nat /\ Len(input) \in Nat
  BY SeqFacts DEF IInv, Shapes
<1>3. Shapes'
  BY <1>1 DEF IInv, Shapes
<1>4. StartsRight'
  BY <1>1, <1>2 DEF IInv, StartsRight
<1>5. ASSUME NEW p \in heads PROVE HeadRight(p)'
  <2>1. HeadRight(p) /\ p <= Len(data)
    BY <1>1 DEF IInv, HeadsRight, Busy, HeadRight, Passed
  <2>2. CellAt(p)' = CellAt(p) /\ is_last_file' = is_last_file
    BY <1>1, <2>1 DEF CellAt, is_last_file
  <2>3. Reading = {}
    BY <1>1 DEF Reading
  <2>4. LeadsOn(p) => LeadsOn(p)'
    BY <1>1, <2>2, <2>3 DEF LeadsOn
  <2> QED
    BY <1>1, <2>1, <2>2, <2>4 DEF HeadRight, Passed, CrcRight
<1>6. HeadsRight'
  BY <1>1, <1>5 DEF HeadsRight
<1> QED
  BY <1>1, <1>3, <1>4, <1>6 DEF IInv

(* The file goes behind the container: the cells of both keep their places. *)
LEMMA AppendingKeeps ==
  ASSUME IInv, pc \in {"new", "old"}, pc' = "file",
         data' = data \o input,
         pc = "old" => index >= Len(input),
         UNCHANGED <<input, index, filepath_index, filepaths, starts, heads, whole>>
  PROVE  IInv'
<1>1. IsSeq(data) /\ IsSeq(input) /\ index \in Nat
  BY DEF IInv, Shapes
<1>2. Len(data) \in Nat /\ Len(input) \in Nat
  BY <1>1, SeqFacts
<1>3. /\ IsSeq(data') /\ Len(data') = Len(data) + Len(input)
      /\ \A k \in 1 .. Len(data) : data'[k] = data[k]
      /\ \A k \in 1 .. Len(input) : data'[Len(data) + k] = input[k]
  BY <1>1, ConcatFacts
<1>4. Shapes'
  BY <1>3 DEF IInv, Shapes
<1>5. StartsRight'
  BY <1>2, <1>3 DEF IInv, StartsRight
<1>6. ASSUME NEW p \in heads PROVE HeadRight(p)'
  <2>1. HeadRight(p)
    BY DEF IInv, HeadsRight, Busy
  <2>2. p \in Nat /\ p >= 1 /\ p <= Len(data) + Len(input)
    BY <1>2, <2>1 DEF HeadRight, Passed
  <2>3. CellAt(p)' = CellAt(p)
    <3>1. CASE p <= Len(data)
      BY <1>2, <1>3, <2>2, <3>1 DEF CellAt
    <3>2. CASE ~(p <= Len(data))
      <4>1. p - Len(data) \in 1 .. Len(input) /\ Len(data) + (p - Len(data)) = p
        BY <1>2, <2>2, <3>2
      <4>2. data'[p] = input[p - Len(data)]
        BY <1>3, <4>1
      <4> QED
        BY <1>3, <2>2, <3>2, <4>2 DEF CellAt
    <3> QED
      BY <3>1, <3>2
  <2>4. is_last_file' = is_last_file
    BY DEF is_last_file
  <2>5. Len(data) + 1 \in starts
    BY DEF IInv, StartsRight
  <2>6. whole => LeadsOn(p)'
    <3> SUFFICES ASSUME whole PROVE LeadsOn(p)'
      OBVIOUS
    <3>1. LeadsOn(p)
      BY <2>1 DEF HeadRight
    <3>2. pc = "old" => Len(data) + index + 1 = Len(data') + 1
      <4>1. pc = "old" => index <= Len(input) /\ index >= Len(input)
        BY DEF IInv, StartsRight
      <4> QED
        BY <1>1, <1>2, <1>3, <4>1
    <3>3. Reading \subseteq {Len(data') + 1}
      BY <3>2 DEF Reading
    <3> QED
      BY <2>3, <2>4, <2>5, <3>1, <3>3 DEF LeadsOn
  <2> QED
    BY <1>3, <2>1, <2>2, <2>3, <2>6 DEF HeadRight, Passed, CrcRight
<1>7. HeadsRight'
  BY <1>6 DEF HeadsRight
<1> QED
  BY <1>4, <1>5, <1>7 DEF IInv

LEMMA NewFormatKeeps ==
  ASSUME IInv, NewFormat
  PROVE  IInv'
<1>1. /\ pc = "new"
      /\ UNCHANGED <<input, index, filepath_index, filepaths, starts, heads, whole>>
      /\ \/ pc' \in {"refused", "asserted"} /\ data' = data
         \/ pc' = "file" /\ data' = data \o input
  BY DEF NewFormat, PutBehind, oldVars
<1> QED
  BY <1>1, QuietKeeps, AppendingKeeps

LEMMA OldFormatKeeps ==
  ASSUME IInv, OldFormat
  PROVE  IInv'
<1>1. /\ pc = "old" /\ index >= Len(input)
      /\ UNCHANGED <<input, index, filepath_index, filepaths, starts, heads, whole>>
      /\ \/ pc' = "asserted" /\ data' = data
         \/ pc' = "file" /\ data' = data \o input
  BY DEF OldFormat, PutBehind, oldVars
<1> QED
  BY <1>1, QuietKeeps, AppendingKeeps

(* What a BOP that is counted changes.                                      *)
LEMMA BopCounted ==
  ASSUME IInv, OldBop, ~(pc' = "refused" /\ UNCHANGED <<input, fsbl_size, oldVars, whole>>),
         NEW h, h = input[index + 1]
  PROVE  /\ pc = "old" /\ pc' = "old" /\ index < Len(input)
         /\ IsOldHeader(h) /\ CrcRight(LinkedOn(h))
         /\ index' = index + OffsetOf(h)
         /\ count' = count + 1
         /\ fsbl_size' = IF IsFsbl THEN FsblEnd(h) ELSE fsbl_size
         /\ heads' = heads \union {Len(data) + index + 1}
         /\ whole' = (whole /\ OffsetOf(h) <= max_size)
         /\ UNCHANGED <<filepaths, filepath_index, data, starts, package_count>>
         /\ OffsetOf(h) \in Nat /\ OffsetOf(h) > 0
         /\ LinkedOn(h).offset \in Nat
         /\ LinkedOn(h).offset = OffsetOf(h) \/ (LinkedOn(h).offset = 0 /\ is_last_file)
         /\ IsSeq(input') /\ Len(input') = Len(input)
         /\ input'[index + 1] = LinkedOn(h)
         /\ \A k \in 1 .. Len(input) : k # index + 1 => input'[k] = input[k]
<1>1. /\ pc = "old" /\ pc' = "old" /\ index < Len(input)
      /\ IsOldHeader(h) /\ CrcRight(LinkedOn(h))
      /\ input' = [input EXCEPT ![index + 1] = LinkedOn(h)]
      /\ index' = index + OffsetOf(h)
      /\ count' = count + 1
      /\ fsbl_size' = IF IsFsbl THEN FsblEnd(h) ELSE fsbl_size
      /\ heads' = heads \union {Len(data) + index + 1}
      /\ whole' = (whole /\ OffsetOf(h) <= max_size)
      /\ UNCHANGED <<filepaths, filepath_index, data, starts, package_count>>
  BY DEF OldBop, HereCell, is_supported_bop_identifier
<1>2. IsSeq(input) /\ index \in Nat /\ Len(input) \in Nat
  BY SeqFacts DEF IInv, Shapes
<1>3. index + 1 \in 1 .. Len(input)
  BY <1>1, <1>2
<1>4. h.offset \in Nat
  BY <1>1, <1>2, <1>3, SeqFacts DEF IInv, Shapes, IsOldHeader
<1>5. OffsetOf(h) \in Nat /\ OffsetOf(h) > 0
  BY <1>1, <1>2, <1>4 DEF OffsetOf, IsLast, max_size
<1>6. /\ LinkedOn(h).offset \in Nat
      /\ LinkedOn(h).offset = OffsetOf(h) \/ (LinkedOn(h).offset = 0 /\ is_last_file)
  <2>1. Overwritten(h).offset = max_size
    BY DEF Overwritten, OldHeader
  <2> QED
    BY <1>4, <1>5, <2>1 DEF LinkedOn, OffsetOf, IsLast
<1>7. /\ IsSeq(input') /\ Len(input') = Len(input)
      /\ input'[index + 1] = LinkedOn(h)
      /\ \A k \in 1 .. Len(input) : k # index + 1 => input'[k] = input[k]
  <2>1. PICK v : v = LinkedOn(h)
    OBVIOUS
  <2>2. PICK i \in 1 .. Len(input) : i = index + 1
    BY <1>3
  <2>3. LET t == [input EXCEPT ![i] = v]
        IN  /\ IsSeq(t) /\ Len(t) = Len(input) /\ t[i] = v
            /\ \A k \in 1 .. Len(input) : k # i => t[k] = input[k]
    BY <1>2, ExceptFacts
  <2> QED
    BY <1>1, <2>1, <2>2, <2>3
<1> QED
  BY <1>1, <1>5, <1>6, <1>7

(* One more BOP is counted: it leads to where the next one will be read.    *)
LEMMA OldBopKeeps ==
  ASSUME IInv, OldBop
  PROVE  IInv'
<1>1. CASE pc' = "refused" /\ UNCHANGED <<input, fsbl_size, oldVars, whole>>
  BY <1>1, QuietKeeps DEF OldBop, oldVars
<1>2. CASE ~(pc' = "refused" /\ UNCHANGED <<input, fsbl_size, oldVars, whole>>)
  <2> PICK h : h = input[index + 1]
    OBVIOUS
  <2> PICK here : here = Len(data) + index + 1
    OBVIOUS
  <2>1. /\ pc = "old" /\ pc' = "old" /\ index < Len(input)
        /\ CrcRight(LinkedOn(h))
        /\ index' = index + OffsetOf(h)
        /\ heads' = heads \union {here}
        /\ whole' = (whole /\ OffsetOf(h) <= max_size)
        /\ UNCHANGED <<filepaths, filepath_index, data, starts>>
    BY <1>2, BopCounted
  <2>2. /\ IsSeq(data) /\ IsSeq(input) /\ index \in Nat
        /\ Len(data) \in Nat /\ Len(input) \in Nat
    BY SeqFacts DEF IInv, Shapes
  <2>5. OffsetOf(h) \in Nat /\ OffsetOf(h) > 0
    BY <1>2, BopCounted
  <2>6. /\ LinkedOn(h).offset \in Nat
        /\ LinkedOn(h).offset = OffsetOf(h) \/ (LinkedOn(h).offset = 0 /\ is_last_file)
    BY <1>2, BopCounted
  <2>7. /\ IsSeq(input') /\ Len(input') = Len(input)
        /\ input'[index + 1] = LinkedOn(h)
        /\ \A k \in 1 .. Len(input) : k # index + 1 => input'[k] = input[k]
    BY <1>2, BopCounted
  <2>8. Shapes'
    <3>1. DOMAIN input' = 1 .. Len(input) /\ DOMAIN input = 1 .. Len(input)
      BY <2>2, <2>7, SeqFacts
    <3>2. \A k \in DOMAIN input' : input'[k].type = "bop" => input'[k].offset \in Nat
      BY <2>6, <2>7, <3>1 DEF IInv, Shapes
    <3> QED
      BY <2>1, <2>2, <2>5, <2>7, <3>2 DEF IInv, Shapes
  <2>9. StartsRight'
    <3>1. whole' => OffsetOf(h) <= Len(input) - index
      BY <2>1 DEF max_size
    <3>2. whole' => index + OffsetOf(h) <= Len(input)
      BY <2>2, <2>5, <3>1
    <3> QED
      BY <2>1, <2>7, <3>2 DEF IInv, StartsRight
  <2>10. is_last_file' = is_last_file
    BY <2>1 DEF is_last_file
  <2>11. CellAt(here)' = LinkedOn(h)
    <3>1. ~(here <= Len(data)) /\ here - Len(data) = index + 1
      BY <2>2
    <3> QED
      BY <2>1, <2>7, <3>1 DEF CellAt
  <2>12. Reading' = {here + OffsetOf(h)}
    <3>1. Len(data) + (index + OffsetOf(h)) + 1 = Len(data) + index + 1 + OffsetOf(h)
      BY <2>2, <2>5
    <3> QED
      BY <2>1, <3>1 DEF Reading
  <2>13. HeadRight(here)'
    <3>1. here \in Nat /\ here >= 1
      BY <2>2
    <3>2. Passed(here)'
      BY <2>1, <2>2, <2>5, <2>7 DEF Passed
    <3>3. LeadsOn(here)'
      <4>1. CASE LinkedOn(h).offset = OffsetOf(h)
        BY <2>5, <2>11, <2>12, <4>1 DEF LeadsOn
      <4>2. CASE LinkedOn(h).offset = 0 /\ is_last_file
        <5>1. \A s \in starts' : s <= here
          BY <2>1, <2>2 DEF IInv, StartsRight
        <5> QED
          BY <2>10, <2>11, <4>2, <5>1 DEF LeadsOn
      <4> QED
        BY <2>6, <4>1, <4>2
    <3>4. CrcRight(CellAt(here))' /\ CellAt(here).offset' \in Nat
      BY <2>1, <2>6, <2>11 DEF CrcRight
    <3> QED
      BY <3>1, <3>2, <3>3, <3>4, <2>1 DEF HeadRight
  <2>14. ASSUME NEW p \in heads, p # here PROVE HeadRight(p)'
    <3>1. HeadRight(p)
      BY <2>1 DEF IInv, HeadsRight, Busy
    <3>2. p \in Nat /\ p >= 1 /\ (p <= Len(data) \/ p <= Len(data) + index)
      BY <3>1 DEF HeadRight, Passed
    <3>3. CellAt(p)' = CellAt(p)
      <4>1. CASE p <= Len(data)
        BY <2>1, <4>1 DEF CellAt
      <4>2. CASE ~(p <= Len(data))
        <5>1. p - Len(data) \in 1 .. Len(input) /\ p - Len(data) # index + 1
          BY <2>1, <2>2, <3>2, <4>2
        <5> QED
          BY <2>1, <2>7, <4>2, <5>1 DEF CellAt
      <4> QED
        BY <4>1, <4>2
    <3>4. LeadsOn(p) => LeadsOn(p)'
      <4>1. Reading = {here}
        BY <2>1 DEF Reading
      <4> QED
        BY <2>1, <2>10, <3>3, <4>1 DEF LeadsOn
    <3>5. Passed(p)'
      BY <2>1, <2>2, <2>5, <2>7, <3>1, <3>2 DEF HeadRight, Passed
    <3> QED
      BY <2>1, <3>1, <3>2, <3>3, <3>4, <3>5 DEF HeadRight, CrcRight
  <2>15. HeadsRight'
    BY <2>1, <2>13, <2>14 DEF HeadsRight
  <2> QED
    BY <2>1, <2>8, <2>9, <2>15 DEF IInv
<1> QED
  BY <1>1, <1>2

LEMMA WriteOutputKeeps ==
  ASSUME IInv, WriteOutput
  PROVE  IInv'
  BY QuietKeeps DEF WriteOutput, oldVars

LEMMA StepKeeps ==
  ASSUME IInv, [Next]_vars
  PROVE  IInv'
<1>1. CASE UNCHANGED vars
  BY <1>1, QuietKeeps DEF vars, oldVars
<1> QED
  BY <1>1, PackageKeeps, ReadFileKeeps, IdentifyKeeps, NewFormatKeeps, OldBopKeeps,
     OldFormatKeeps, WriteOutputKeeps DEF Next

LEMMA InitHolds == Init => IInv
<1> SUFFICES ASSUME Init PROVE IInv
  OBVIOUS
<1>1. Shapes
  BY DEF Init, Shapes, IsSeq
<1> QED
  BY <1>1 DEF Init, IInv, StartsRight, HeadsRight

(* Each BOP of the old format that is counted has its CRC right in the      *)
(* container and leads to the next one, to the next file or to the end      *)
(* (parse_old_bop and package of BitGen_ubi.cpp).                           *)
THEOREM ChainIsLinked == Spec => []ChainLeadsOn
<1>1. IInv => ChainLeadsOn
  BY DEF IInv, HeadsRight, HeadRight, Busy, ChainLeadsOn
<1> QED
  BY InitHolds, StepKeeps, <1>1, PTL DEF Spec

(***************************************************************************)
(* Walks                                                                    *)
(***************************************************************************)
(* Every set of numbers has a least one.                                    *)
LEMMA Least ==
  ASSUME NEW T, T \subseteq Nat, T # {}
  PROVE  \E n \in T : \A m \in T : n <= m
<1> DEFINE R == OpToRel(<, Nat)
<1>1. IsWellFoundedOn(R, Nat)
  BY NatLessThanWellFounded, Zenon
<1>2. \A x, y \in T : <<y, x>> \in R <=> y < x
  BY DEF OpToRel
<1> HIDE DEF R
<1>3. PICK n \in T : \A y \in T : ~(<<y, n>> \in R)
  BY <1>1, WFMin
<1>4. \A m \in T : ~(m < n)
  BY <1>2, <1>3
<1> QED
  BY <1>4

(* Induction, for a set S of numbers.                                       *)
LEMMA Induction ==
  ASSUME NEW S, 0 \in S, \A n \in Nat : n \in S => n + 1 \in S
  PROVE  Nat \subseteq S
<1> SUFFICES ASSUME Nat \ S # {} PROVE FALSE
  OBVIOUS
<1>1. PICK n \in Nat \ S : \A m \in Nat \ S : n <= m
  BY Least
<1>2. n # 0 /\ n - 1 \in Nat
  BY <1>1
<1>3. n - 1 \in S
  BY <1>1, <1>2
<1> QED
  BY <1>1, <1>2, <1>3


(* A table that is filled from its end: what is at p is made of what is at  *)
(* next[p], behind it, or is e where that leads nowhere.                    *)
Filled(f, V, z, e, n, m, next, F) ==
  /\ f \in [m .. n + 1 -> V]
  /\ f[n + 1] = z
  /\ \A p \in m .. n : f[p] = IF next[p] \in p + 1 .. n + 1 THEN F[p][f[next[p]]] ELSE e

LEMMA TableExists ==
  ASSUME NEW n \in Nat, NEW V, NEW z \in V, NEW e \in V, NEW next \in [1 .. n -> Nat],
         NEW F \in [1 .. n -> [V -> V]]
  PROVE  \E f : Filled(f, V, z, e, n, 1, next, F)
<1> DEFINE Q == {k \in Nat : k <= n => \E f : Filled(f, V, z, e, n, n + 1 - k, next, F)}
<1>1. 0 \in Q
  <2> DEFINE f == [p \in n + 1 .. n + 1 |-> z]
  <2>1. Filled(f, V, z, e, n, n + 1, next, F)
    BY DEF Filled
  <2>2. n + 1 - 0 = n + 1
    OBVIOUS
  <2> HIDE DEF f
  <2> QED
    BY <2>1, <2>2
<1>2. ASSUME NEW k \in Nat, k \in Q
      PROVE  k + 1 \in Q
  <2> SUFFICES ASSUME k + 1 <= n
               PROVE  \E f : Filled(f, V, z, e, n, n + 1 - (k + 1), next, F)
    OBVIOUS
  <2>1. PICK f : Filled(f, V, z, e, n, n + 1 - k, next, F)
    BY <1>2
  <2>2. PICK m : m = n - k
    OBVIOUS
  <2>3. m \in 1 .. n /\ n + 1 - k = m + 1 /\ n + 1 - (k + 1) = m
    BY <1>2, <2>2
  <2>4. /\ f \in [m + 1 .. n + 1 -> V] /\ f[n + 1] = z
        /\ \A p \in m + 1 .. n :
             f[p] = IF next[p] \in p + 1 .. n + 1 THEN F[p][f[next[p]]] ELSE e
    BY <2>1, <2>3 DEF Filled
  <2> DEFINE v == IF next[m] \in m + 1 .. n + 1 THEN F[m][f[next[m]]] ELSE e
             g == [p \in m .. n + 1 |-> IF p = m THEN v ELSE f[p]]
  <2>5. v \in V
    <3>1. CASE next[m] \in m + 1 .. n + 1
      <4>1. f[next[m]] \in V /\ F[m] \in [V -> V]
        BY <2>3, <2>4, <3>1
      <4> QED
        BY <3>1, <4>1
    <3>2. CASE next[m] \notin m + 1 .. n + 1
      BY <3>2
    <3> QED
      BY <3>1, <3>2
  <2>6. \A p \in m + 1 .. n + 1 : g[p] = f[p]
    BY <2>3
  <2>7. g[m] = v
    BY <2>3
  <2>8. g \in [m .. n + 1 -> V]
    <3> HIDE DEF v
    <3>1. \A p \in m .. n + 1 : p = m \/ p \in m + 1 .. n + 1
      BY <2>3
    <3> QED
      BY <2>4, <2>5, <3>1
  <2> HIDE DEF g
  <2>9. g[n + 1] = z
    BY <2>3, <2>4, <2>6
  <2>10. ASSUME NEW p \in m .. n
         PROVE  g[p] = IF next[p] \in p + 1 .. n + 1 THEN F[p][g[next[p]]] ELSE e
    <3>1. next[p] \in p + 1 .. n + 1 => g[next[p]] = f[next[p]]
      BY <2>3, <2>6
    <3>2. CASE p = m
      BY <2>7, <3>1, <3>2
    <3>3. CASE p # m
      <4>1. p \in m + 1 .. n /\ p \in m + 1 .. n + 1
        BY <2>3, <3>3
      <4> HIDE DEF v
      <4> QED
        BY <2>4, <2>6, <3>1, <4>1
    <3> QED
      BY <3>2, <3>3
  <2>11. Filled(g, V, z, e, n, m, next, F)
    BY <2>8, <2>9, <2>10 DEF Filled
  <2> QED
    BY <2>3, <2>11
<1>3. \A k \in Nat : k \in Q => k + 1 \in Q
  BY <1>2
<1>4. n \in Q
  <2> HIDE DEF Q
  <2> QED
    BY <1>1, <1>3, Induction
<1>5. n + 1 - n = 1
  OBVIOUS
<1> QED
  BY <1>4, <1>5

(* The sizes of blocks with headers and of cells of the old format are      *)
(* numbers, as they are in the files.                                       *)
Typed(cells) ==
  \A k \in DOMAIN cells :
    /\ cells[k].type = "bop" => cells[k].offset \in Nat
    /\ cells[k].type = "header" => cells[k].size \in Nat

(* From header to header through blocks that parse has found right.         *)
GoodHeader(h) == h.type = "header" /\ h.crc = CFG_crc32(AllButCrc(h))
ParsePath(path, n, b, from) ==
  /\ path \in [0 .. n -> Nat]
  /\ path[0] = from /\ path[n] = Len(b)
  /\ \A k \in 0 .. n - 1 :
       /\ path[k] \in 0 .. Len(b) - 1 /\ path[k + 1] \in path[k] + 1 .. Len(b)
       /\ GoodHeader(b[path[k] + 1])
       /\ path[k + 1] = path[k] + b[path[k] + 1].size

LEMMA OneMoreHeader ==
  ASSUME NEW b, Len(b) \in Nat, NEW n \in Nat, NEW at \in Nat, NEW size \in Nat \ {0},
         at + size <= Len(b), b[at + 1].size = size, GoodHeader(b[at + 1]),
         NEW path, ParsePath(path, n, b, at + size)
  PROVE  \E more : ParsePath(more, n + 1, b, at)
<1> DEFINE more == [k \in 0 .. n + 1 |-> IF k = 0 THEN at ELSE path[k - 1]]
           total == Len(b)
<1>1. /\ path \in [0 .. n -> Nat] /\ path[0] = at + size /\ path[n] = total
      /\ \A k \in 0 .. n - 1 :
           /\ path[k] \in 0 .. total - 1 /\ path[k + 1] \in path[k] + 1 .. total
           /\ GoodHeader(b[path[k] + 1])
           /\ path[k + 1] = path[k] + b[path[k] + 1].size
  BY DEF ParsePath
<1> HIDE DEF total
<1>2. total \in Nat /\ at + size <= total
  BY DEF total
<1>3. more[0] = at /\ \A k \in 1 .. n + 1 : more[k] = path[k - 1]
  OBVIOUS
<1>4. more \in [0 .. n + 1 -> Nat]
  <2>1. \A k \in 0 .. n + 1 : k # 0 => k - 1 \in 0 .. n
    OBVIOUS
  <2> QED
    BY <1>1, <2>1
<1> HIDE DEF more
<1>5. more[n + 1] = total
  <2>1. n + 1 \in 1 .. n + 1 /\ n + 1 - 1 = n
    OBVIOUS
  <2> QED
    BY <1>1, <1>3, <2>1
<1>6. ASSUME NEW k \in 0 .. n + 1 - 1
      PROVE  /\ more[k] \in 0 .. total - 1 /\ more[k + 1] \in more[k] + 1 .. total
             /\ GoodHeader(b[more[k] + 1])
             /\ more[k + 1] = more[k] + b[more[k] + 1].size
  <2>1. CASE k = 0
    <3>1. more[1] = at + size
      <4>1. 1 \in 1 .. n + 1 /\ 1 - 1 = 0
        OBVIOUS
      <4> QED
        BY <1>1, <1>3, <4>1
    <3> QED
      BY <1>2, <1>3, <2>1, <3>1
  <2>2. CASE k # 0
    <3>1. k - 1 \in 0 .. n - 1 /\ k \in 1 .. n + 1 /\ k + 1 \in 1 .. n + 1
          /\ k + 1 - 1 = k /\ (k - 1) + 1 = k
      BY <2>2
    <3>2. more[k] = path[k - 1] /\ more[k + 1] = path[k]
      BY <1>3, <3>1
    <3> QED
      BY <1>1, <3>1, <3>2
  <2> QED
    BY <2>1, <2>2
<1>7. ParsePath(more, n + 1, b, at)
  BY <1>3, <1>4, <1>5, <1>6 DEF ParsePath, total
<1> QED
  BY <1>7

(* What parse has found right is a chain of as many headers as it tells.    *)
LEMMA ParseWalks ==
  ASSUME NEW b, IsSeq(b), Typed(b), parse(b, TRUE, TRUE).ok
  PROVE  LET n == Len(parse(b, TRUE, TRUE).sizes)
         IN  n \in Nat \ {0} /\ \E path : ParsePath(path, n, b, 0)
<1> DEFINE total == Len(b)
           Right(at) ==
             LET h == b[at + 1]
             IN  /\ IsHeader(h)
                 /\ h.identifier \in Identifiers
                 /\ h.size > 0 /\ at + h.size <= total
                 /\ TRUE => h.crc = CFG_crc32(AllButCrc(h))
                 /\ TRUE => EndRight(h, at, total)
           V == [ok : BOOLEAN, sizes : Seq(Nat)]
           Empty == [ok |-> TRUE, sizes |-> <<>>]
           More(size, rest) ==
             IF rest.ok THEN [ok |-> TRUE, sizes |-> <<size>> \o rest.sizes] ELSE Refused
           table(w) ==
             [at \in 0 .. total |->
               IF at = total THEN Empty
               ELSE IF ~Right(at) THEN Refused
               ELSE More(b[at + 1].size, w[at + b[at + 1].size])]
           walk == CHOOSE w : w = table(w)
<1>1. parse(b, TRUE, TRUE) = IF total = 0 THEN Refused ELSE walk[0]
  BY Zenon DEF parse
<1>2. total \in Nat /\ DOMAIN b = 1 .. total
  BY SeqFacts
<1>3. ASSUME NEW at \in 0 .. total - 1, Right(at)
      PROVE  /\ b[at + 1].size \in Nat \ {0} /\ at + b[at + 1].size \in at + 1 .. total
             /\ GoodHeader(b[at + 1])
  <2>1. at + 1 \in DOMAIN b /\ b[at + 1].type = "header"
    BY <1>2, <1>3 DEF IsHeader
  <2>2. b[at + 1].size \in Nat
    BY <2>1 DEF Typed
  <2> QED
    BY <1>2, <1>3, <2>1, <2>2 DEF GoodHeader
<1> HIDE DEF Right, total
<1>4. Empty \in V /\ Refused \in V
  BY DEF Refused
<1>5. \A size \in Nat, rest \in V : More(size, rest) \in V
  BY DEF Refused
<1>6. \E w : w = table(w)
  <2> DEFINE next == [p \in 1 .. total |-> IF Right(p - 1) THEN p + b[p].size ELSE 0]
             F == [p \in 1 .. total |-> [v \in V |-> IF Right(p - 1) THEN More(b[p].size, v) ELSE v]]
  <2>1. ASSUME NEW p \in 1 .. total
        PROVE  /\ p - 1 \in 0 .. total - 1 /\ (p - 1) + 1 = p
               /\ Right(p - 1) => b[p].size \in Nat /\ p + b[p].size \in p + 1 .. total + 1
    <3>1. p - 1 \in 0 .. total - 1 /\ (p - 1) + 1 = p
      BY <1>2
    <3>2. PICK at : at = p - 1
      OBVIOUS
    <3>3. Right(at) => b[at + 1].size \in Nat \ {0} /\ at + b[at + 1].size \in at + 1 .. total
      BY <1>3, <3>1, <3>2
    <3> QED
      BY <1>2, <3>1, <3>2, <3>3
  <2>2. next \in [1 .. total -> Nat]
    BY <1>2, <2>1
  <2>3. F \in [1 .. total -> [V -> V]]
    <3> HIDE DEF V, More
    <3> QED
      BY <1>5, <2>1
  <2> HIDE DEF V, Empty, More
  <2>4. PICK f : Filled(f, V, Empty, Refused, total, 1, next, F)
    <3> HIDE DEF next, F
    <3> QED
      BY <1>2, <1>4, <2>2, <2>3, TableExists
  <2>5. /\ f \in [1 .. total + 1 -> V] /\ f[total + 1] = Empty
        /\ \A p \in 1 .. total :
             f[p] = IF next[p] \in p + 1 .. total + 1 THEN F[p][f[next[p]]] ELSE Refused
    <3> HIDE DEF next, F
    <3> QED
      BY <2>4 DEF Filled
  <2> DEFINE w == [at \in 0 .. total |-> f[at + 1]]
  <2>6. ASSUME NEW at \in 0 .. total
        PROVE  w[at] = IF at = total THEN Empty
                       ELSE IF ~Right(at) THEN Refused
                       ELSE More(b[at + 1].size, w[at + b[at + 1].size])
    <3>1. CASE at = total
      BY <2>5, <3>1
    <3>2. CASE at # total
      <4>1. PICK p : p = at + 1
        OBVIOUS
      <4>2. p \in 1 .. total /\ p - 1 = at /\ at \in 0 .. total - 1
        BY <1>2, <3>2, <4>1
      <4>3. w[at] = f[p]
        BY <4>1
      <4>4. CASE ~Right(at)
        <5>1. next[p] = 0
          BY <4>2, <4>4
        <5>2. next[p] \notin p + 1 .. total + 1
          BY <1>2, <4>2, <5>1
        <5> HIDE DEF next, F, w
        <5> QED
          BY <2>5, <3>2, <4>2, <4>3, <4>4, <5>2
      <4>5. CASE Right(at)
        <5>1. PICK size : size = b[p].size
          OBVIOUS
        <5>2. next[p] = p + size /\ next[p] \in p + 1 .. total + 1
          BY <2>1, <4>2, <4>5, <5>1
        <5>3. size \in Nat /\ at + size \in 0 .. total /\ at + size + 1 = p + size
          BY <1>3, <4>1, <4>2, <4>5, <5>1
        <5>4. f[p + size] \in V /\ w[at + size] = f[p + size]
          <6>1. p + size \in 1 .. total + 1
            BY <4>2, <5>2
          <6> QED
            BY <2>5, <5>3, <6>1
        <5>5. F[p][f[p + size]] = More(size, f[p + size])
          <6> HIDE DEF w
          <6> QED
            BY <4>2, <4>5, <5>1, <5>4
        <5> HIDE DEF next, F, w
        <5> QED
          BY <2>5, <3>2, <4>1, <4>2, <4>3, <4>5, <5>1, <5>2, <5>4, <5>5
      <4> QED
        BY <4>4, <4>5
    <3> QED
      BY <3>1, <3>2
  <2>7. w = table(w)
    <3>1. w = [at \in 0 .. total |-> w[at]]
      OBVIOUS
    <3> HIDE DEF w
    <3> QED
      BY <2>6, <3>1
  <2> QED
    BY <2>7
<1>7. walk = table(walk)
  <2> HIDE DEF table
  <2> QED
    BY <1>6
<1>8. \A at \in 0 .. total :
        walk[at] = IF at = total THEN Empty
                   ELSE IF ~Right(at) THEN Refused
                   ELSE More(b[at + 1].size, walk[at + b[at + 1].size])
  <2> HIDE DEF walk, More, Empty
  <2> QED
    BY <1>7
<1> HIDE DEF walk, table
<1> DEFINE Told(at) ==
             /\ walk[at] \in V
             /\ walk[at].ok => \E path : ParsePath(path, Len(walk[at].sizes), b, at)
           Q == {m \in Nat : \A at \in 0 .. total : total - at <= m => Told(at)}
<1>9. Told(total)
  <2>1. walk[total] = Empty
    <3>1. total \in 0 .. total
      BY <1>2
    <3> HIDE DEF Empty, More
    <3> QED
      BY <1>8, <3>1
  <2> DEFINE path == [k \in 0 .. 0 |-> total]
  <2>2. ParsePath(path, 0, b, total)
    BY <1>2 DEF ParsePath, total
  <2> HIDE DEF path
  <2>3. Len(Empty.sizes) = 0
    OBVIOUS
  <2> QED
    BY <1>4, <2>1, <2>2, <2>3
<1>10. ASSUME NEW at \in 0 .. total - 1, \A to \in at + 1 .. total : Told(to)
       PROVE  Told(at)
  <2>1. CASE ~Right(at)
    <3>1. walk[at] = Refused
      <4>1. at \in 0 .. total /\ at # total
        BY <1>2
      <4> HIDE DEF Empty, More
      <4> QED
        BY <1>8, <2>1, <4>1
    <3> QED
      BY <1>4, <3>1 DEF Refused
  <2>2. CASE Right(at)
    <3>1. PICK size, to : size = b[at + 1].size /\ to = at + size
      OBVIOUS
    <3>2. size \in Nat \ {0} /\ to \in at + 1 .. total /\ GoodHeader(b[at + 1])
      BY <1>3, <2>2, <3>1
    <3>3. Told(to)
      BY <1>10, <3>2
    <3>4. walk[at] = More(size, walk[to])
      <4> HIDE DEF More, Empty
      <4> QED
        BY <1>2, <1>8, <2>2, <3>1
    <3>5. walk[at] \in V
      <4> HIDE DEF More
      <4> QED
        BY <1>5, <3>2, <3>3, <3>4
    <3>6. ASSUME walk[at].ok
          PROVE  \E path : ParsePath(path, Len(walk[at].sizes), b, at)
      <4>1. walk[to].ok /\ walk[at].sizes = <<size>> \o walk[to].sizes
        BY <3>4, <3>6 DEF Refused
      <4>2. PICK n : n = Len(walk[to].sizes)
        OBVIOUS
      <4>3. n \in Nat /\ Len(walk[at].sizes) = n + 1
        <5>1. walk[to].sizes \in Seq(Nat) /\ <<size>> \in Seq(Nat) /\ Len(<<size>>) = 1
          BY <3>2, <3>3
        <5>2. Len(<<size>> \o walk[to].sizes) = 1 + n
          BY <4>2, <5>1, ConcatProperties
        <5>3. n \in Nat
          BY <4>2, <5>1, LenProperties
        <5> QED
          BY <4>1, <5>2, <5>3
      <4>4. PICK path : ParsePath(path, n, b, to)
        BY <3>3, <4>1, <4>2
      <4>5. \E more : ParsePath(more, n + 1, b, at)
        <5>1. /\ Len(b) \in Nat /\ at \in Nat /\ at + size <= Len(b) /\ b[at + 1].size = size
              /\ ParsePath(path, n, b, at + size)
          BY <1>2, <3>1, <3>2, <4>4 DEF total
        <5> QED
          BY <3>2, <4>3, <5>1, OneMoreHeader
      <4> QED
        BY <4>3, <4>5
    <3> QED
      BY <3>5, <3>6
  <2> QED
    BY <2>1, <2>2
<1> HIDE DEF Told
<1>11. 0 \in Q
  <2>1. \A at \in 0 .. total : total - at <= 0 => at = total
    BY <1>2
  <2> QED
    BY <1>9, <2>1
<1>12. ASSUME NEW m \in Nat, m \in Q
       PROVE  m + 1 \in Q
  <2> SUFFICES ASSUME NEW at \in 0 .. total, total - at <= m + 1
               PROVE  Told(at)
    OBVIOUS
  <2>1. CASE at = total
    BY <1>9, <2>1
  <2>2. CASE at # total
    <3>1. at \in 0 .. total - 1 /\ \A to \in at + 1 .. total : to \in 0 .. total /\ total - to <= m
      BY <1>2, <2>2
    <3>2. \A to \in at + 1 .. total : Told(to)
      BY <1>12, <3>1
    <3> QED
      BY <1>10, <3>1, <3>2
  <2> QED
    BY <2>1, <2>2
<1>13. total \in Q
  <2>1. \A m \in Nat : m \in Q => m + 1 \in Q
    BY <1>12
  <2> HIDE DEF Q
  <2> QED
    BY <1>2, <1>11, <2>1, Induction
<1>14. Told(0)
  <2>1. 0 \in 0 .. total /\ total - 0 <= total
    BY <1>2
  <2> QED
    BY <1>13, <2>1
<1>15. total # 0 /\ parse(b, TRUE, TRUE) = walk[0] /\ walk[0].ok
  <2>1. PICK found : found = parse(b, TRUE, TRUE)
    OBVIOUS
  <2>2. found.ok /\ found = IF total = 0 THEN Refused ELSE walk[0]
    BY <1>1, <2>1
  <2>3. total # 0
    BY <2>2 DEF Refused
  <2> QED
    BY <2>1, <2>2, <2>3
<1>16. /\ Len(walk[0].sizes) \in Nat
       /\ \E path : ParsePath(path, Len(walk[0].sizes), b, 0)
  BY <1>14, <1>15, LenProperties DEF Told
<1>17. Len(walk[0].sizes) # 0
  <2>1. PICK path : ParsePath(path, Len(walk[0].sizes), b, 0)
    BY <1>16
  <2>2. Len(walk[0].sizes) = 0 => path[0] = 0 /\ path[0] = total
    BY <2>1 DEF ParsePath, total
  <2> QED
    BY <1>15, <2>2
<1> QED
  BY <1>15, <1>16, <1>17

(* A chain of BOPs that leads through the container to its end is what the  *)
(* walk of the reader meets.                                                *)
Met(p) ==
  /\ output[p].type \in {"header", "bop"}
  /\ output[p].type = "bop" => CrcRight(output[p])
  /\ output[p].type = "header" => output[p].crc = CFG_crc32(AllButCrc(output[p]))
  /\ p + StepFrom(p) <= Len(output) + 1

LEMMA WalkCounts ==
  ASSUME IsSeq(output), Typed(output), NEW n \in Nat, NEW path \in [0 .. n -> Nat],
         path[0] = 2, path[n] = Len(output) + 1,
         \A k \in 0 .. n - 1 :
           /\ path[k] \in 1 .. Len(output) /\ path[k + 1] \in path[k] + 1 .. Len(output) + 1
           /\ Met(path[k]) /\ path[k + 1] = path[k] + StepFrom(path[k])
  PROVE  Walk = n
<1> DEFINE total == Len(output)
           More(rest) == IF rest = Broken THEN Broken ELSE rest + 1
           table(f) ==
             [p \in 1 .. total + 1 |->
               IF p = total + 1 THEN 0
               ELSE IF Met(p) THEN More(f[p + StepFrom(p)]) ELSE Broken]
           from == CHOOSE f : f = table(f)
<1>1. Walk = from[2]
  BY Zenon DEF Walk, Met
<1>2. total \in Nat /\ DOMAIN output = 1 .. total
  BY SeqFacts
<1>3. ASSUME NEW p \in 1 .. total, Met(p)
      PROVE  StepFrom(p) \in Nat /\ p + StepFrom(p) \in p .. total + 1
  <2>1. p \in DOMAIN output
    BY <1>2
  <2>2. CASE output[p].type = "header"
    <3>1. output[p].size \in Nat
      BY <2>1, <2>2 DEF Typed
    <3> QED
      BY <1>2, <1>3, <2>2, <3>1 DEF Met, StepFrom
  <2>3. CASE output[p].type # "header"
    <3>1. output[p].type = "bop" /\ output[p].offset \in Nat
      BY <1>3, <2>1, <2>3 DEF Met, Typed
    <3>2. StepFrom(p) \in Nat
      BY <1>2, <2>3, <3>1 DEF StepFrom, IsLast
    <3> QED
      BY <1>2, <1>3, <3>2 DEF Met
  <2> QED
    BY <2>2, <2>3
<1> HIDE DEF total
<1>4. Broken \in Int /\ \A v \in Int : More(v) \in Int
  BY DEF Broken
<1> HIDE DEF More
<1>5. \E f : f = table(f)
  <2> DEFINE next == [p \in 1 .. total |-> IF Met(p) THEN p + StepFrom(p) ELSE 0]
             F == [p \in 1 .. total |-> [v \in Int |-> More(v)]]
  <2>1. next \in [1 .. total -> Nat]
    BY <1>2, <1>3
  <2>2. F \in [1 .. total -> [Int -> Int]]
    BY <1>4
  <2>3. PICK f : Filled(f, Int, 0, Broken, total, 1, next, F)
    <3> DEFINE V == Int
               z == 0
    <3>1. z \in V /\ Broken \in V /\ F \in [1 .. total -> [V -> V]]
      BY <1>4, <2>2
    <3> HIDE DEF next, F, V, z
    <3>2. \E f : Filled(f, V, z, Broken, total, 1, next, F)
      BY <1>2, <2>1, <3>1, TableExists
    <3> QED
      BY <3>2 DEF V, z
  <2>4. /\ f \in [1 .. total + 1 -> Int] /\ f[total + 1] = 0
        /\ \A p \in 1 .. total :
             f[p] = IF next[p] \in p + 1 .. total + 1 THEN F[p][f[next[p]]] ELSE Broken
    <3> HIDE DEF next, F
    <3> QED
      BY <2>3 DEF Filled
  <2>5. ASSUME NEW p \in 1 .. total + 1
        PROVE  f[p] = IF p = total + 1 THEN 0
                      ELSE IF Met(p) THEN More(f[p + StepFrom(p)]) ELSE Broken
    <3>1. CASE p = total + 1
      BY <2>4, <3>1
    <3>2. CASE p # total + 1
      <4>1. p \in 1 .. total
        BY <1>2, <3>2
      <4>2. CASE ~Met(p)
        <5>1. next[p] = 0 /\ 0 \notin p + 1 .. total + 1
          BY <1>2, <4>1, <4>2
        <5> HIDE DEF next, F
        <5> QED
          BY <2>4, <3>2, <4>1, <4>2, <5>1
      <4>3. CASE Met(p)
        <5>1. PICK q : q = p + StepFrom(p)
          OBVIOUS
        <5>2. next[p] = q /\ q \in p .. total + 1
          BY <1>3, <4>1, <4>3, <5>1
        <5>3. CASE q = p
          <6>1. next[p] \notin p + 1 .. total + 1
            BY <1>2, <4>1, <5>2, <5>3
          <6>2. f[p] = Broken
            <7> HIDE DEF next, F
            <7> QED
              BY <2>4, <4>1, <6>1
          <6> QED
            BY <3>2, <4>3, <5>1, <5>3, <6>2 DEF More
        <5>4. CASE q # p
          <6>1. q \in p + 1 .. total + 1 /\ q \in 1 .. total + 1
            BY <1>2, <4>1, <5>2, <5>4
          <6>2. f[q] \in Int
            BY <2>4, <6>1
          <6>3. F[p][f[q]] = More(f[q])
            BY <4>1, <6>2
          <6> HIDE DEF next, F
          <6> QED
            BY <2>4, <3>2, <4>1, <4>3, <5>1, <5>2, <6>1, <6>3
        <5> QED
          BY <5>3, <5>4
      <4> QED
        BY <4>2, <4>3
    <3> QED
      BY <3>1, <3>2
  <2>6. f = table(f)
    <3>1. f = [p \in 1 .. total + 1 |-> f[p]]
      BY <2>4
    <3> QED
      BY <2>5, <3>1
  <2> QED
    BY <2>6
<1>6. from = table(from)
  <2> HIDE DEF table
  <2> QED
    BY <1>5
<1>7. \A p \in 1 .. total + 1 :
        from[p] = IF p = total + 1 THEN 0
                  ELSE IF Met(p) THEN More(from[p + StepFrom(p)]) ELSE Broken
  <2> HIDE DEF from
  <2> QED
    BY <1>6
<1> HIDE DEF from, table
<1> DEFINE Q == {m \in Nat : m <= n => from[path[n - m]] = m}
<1>8. 0 \in Q
  <2>1. total + 1 \in 1 .. total + 1
    BY <1>2
  <2>2. path[n] = total + 1 /\ n - 0 = n
    BY DEF total
  <2> QED
    BY <1>7, <2>1, <2>2
<1>9. ASSUME NEW m \in Nat, m \in Q
      PROVE  m + 1 \in Q
  <2> SUFFICES ASSUME m + 1 <= n
               PROVE  from[path[n - (m + 1)]] = m + 1
    OBVIOUS
  <2>1. PICK k : k = n - (m + 1)
    OBVIOUS
  <2>2. k \in 0 .. n - 1 /\ k + 1 = n - m /\ m <= n
    BY <2>1
  <2>3. PICK p, q : p = path[k] /\ q = path[k + 1]
    OBVIOUS
  <2>4. p \in 1 .. total /\ Met(p) /\ q = p + StepFrom(p)
    BY <2>2, <2>3 DEF total
  <2>5. from[q] = m
    BY <1>9, <2>2, <2>3
  <2>6. from[p] = More(from[q])
    <3>1. p \in 1 .. total + 1 /\ p # total + 1
      BY <1>2, <2>4
    <3> QED
      BY <1>7, <2>4, <3>1
  <2>7. More(m) = m + 1
    BY DEF More, Broken
  <2> QED
    BY <2>1, <2>3, <2>5, <2>6, <2>7
<1>10. n \in Q
  <2>1. \A m \in Nat : m \in Q => m + 1 \in Q
    BY <1>9
  <2> HIDE DEF Q
  <2> QED
    BY <1>8, <2>1, Induction
<1>11. from[path[0]] = n
  <2>1. n - n = 0
    OBVIOUS
  <2> QED
    BY <1>10, <2>1
<1> QED
  BY <1>1, <1>11

(***************************************************************************)
(* The second invariant: the BOPs counted so far are a chain                *)
(***************************************************************************)
Counted == package_count + (IF pc = "old" THEN count ELSE 0)
Total == Len(data) + (IF pc = "old" THEN Len(input) ELSE 0)
Place == Len(data) + 1 + (IF pc = "old" THEN index ELSE 0)

(* A BOP at p leads to q; one with offset 0 to the end of the last file.    *)
ToTheEnd(q) == q = Total + 1 /\ is_last_file /\ pc \notin {"identify", "new"}
Leads(p, q) ==
  /\ p \in 2 .. Total /\ q \in p + 1 .. Place
  /\ \/ GoodHeader(CellAt(p)) /\ q = p + CellAt(p).size
     \/ /\ CellAt(p).type = "bop" /\ CrcRight(CellAt(p))
        /\ IF CellAt(p).offset = 0 THEN ToTheEnd(q) ELSE q = p + CellAt(p).offset

Path(path, n) ==
  /\ path \in [0 .. n -> Nat]
  /\ path[0] = 2 /\ path[n] = Place
  /\ \A k \in 0 .. n - 1 : Leads(path[k], path[k + 1])
FsblTold(path, n) ==
  fsbl_size = IF n > 0 /\ IsFsblFile(filepaths[1]) THEN path[1] - 1 ELSE 0

NothingYet ==
  \/ filepath_index = 0
  \/ filepath_index = 1 /\ (pc \in {"identify", "new"} \/ (pc = "old" /\ index = 0))

Reads == {"identify", "new", "old"}
Under == {"file", "written"} \union Reads
Written ==
  <<[ type |-> "ubi", size |-> Len(data), fsbl_size |-> fsbl_size,
      package_count |-> package_count ]>> \o SubSeq(data, 2, Len(data))

Counts ==
  /\ Typed(data) /\ Typed(input)
  /\ package_count \in Nat /\ count \in Nat
  /\ pc \in Under => Len(data) >= 1 /\ Len(filepaths) >= 1
  /\ pc \in Reads => Len(input) >= 1 /\ filepath_index \in 1 .. Len(filepaths)
  /\ pc \in Reads /\ (pc = "old" => index = 0) => input = filepaths[filepath_index]
  /\ pc = "new" => IsHeader(input[1])
  /\ pc \in Under /\ NothingYet => Counted = 0 /\ Len(data) = 1 /\ fsbl_size = 0
  /\ pc \in Under /\ ~NothingYet => Counted > 0
  /\ pc = "idle" => package_count = 0 /\ fsbl_size = 0 /\ filepath_index = 0
  /\ pc = "written" => filepath_index = Len(filepaths) /\ output = Written

WInv ==
  /\ Counts
  /\ pc \in Under /\ whole => \E path : Path(path, Counted) /\ FsblTold(path, Counted)

LEMMA Numbers ==
  ASSUME IInv, Counts
  PROVE  /\ Len(data) \in Nat /\ Len(input) \in Nat /\ index \in Nat
         /\ Len(filepaths) \in Nat /\ filepath_index \in Nat
         /\ Counted \in Nat /\ Total \in Nat /\ Place \in Nat
         /\ whole /\ pc \in Under => Place <= Total + 1
<1>1. /\ Len(data) \in Nat /\ Len(input) \in Nat /\ index \in Nat
      /\ Len(filepaths) \in Nat /\ filepath_index \in Nat
  BY SeqFacts DEF IInv, Shapes
<1>2. package_count \in Nat /\ count \in Nat
  BY DEF Counts
<1>3. pc = "old" /\ whole => index <= Len(input)
  BY DEF IInv, StartsRight
<1> QED
  BY <1>1, <1>2, <1>3 DEF Counted, Total, Place

(* A link of the chain stays when its cell does and nothing goes behind a   *)
(* BOP with offset 0.                                                       *)
LEMMA LinkKept ==
  ASSUME NEW p, NEW q, Leads(p, q), CellAt(p)' = CellAt(p),
         Total \in Nat, Total' \in Nat, Place \in Nat, Place' \in Nat,
         Total <= Total', Place <= Place',
         \/ Total' = Total /\ is_last_file' = is_last_file /\ pc' \notin {"identify", "new"}
         \/ Place < Total + 1 \/ ~is_last_file \/ pc \in {"identify", "new"}
  PROVE  Leads(p, q)'
<1>1. p \in 2 .. Total' /\ q \in p + 1 .. Place'
  BY DEF Leads
<1>2. CASE GoodHeader(CellAt(p)) /\ q = p + CellAt(p).size
  <2>1. PICK c : c = CellAt(p)
    OBVIOUS
  <2>2. GoodHeader(c) /\ q = p + c.size /\ CellAt(p)' = c
    BY <1>2, <2>1
  <2> QED
    BY <1>1, <2>2 DEF Leads, GoodHeader
<1>3. CASE /\ CellAt(p).type = "bop" /\ CrcRight(CellAt(p))
           /\ IF CellAt(p).offset = 0 THEN ToTheEnd(q) ELSE q = p + CellAt(p).offset
  <2>1. PICK c : c = CellAt(p)
    OBVIOUS
  <2>2. /\ c.type = "bop" /\ CrcRight(c) /\ CellAt(p)' = c
        /\ IF c.offset = 0 THEN ToTheEnd(q) ELSE q = p + c.offset
    BY <1>3, <2>1
  <2>3. ToTheEnd(q) => ToTheEnd(q)'
    <3>1. p \in 2 .. Total /\ q \in p + 1 .. Place
      BY DEF Leads
    <3>2. q <= Place
      BY <3>1
    <3>3. ToTheEnd(q) => ~(Place < Total + 1)
      <4>1. q = Total + 1 => ~(Place < Total + 1)
        BY <3>2
      <4> QED
        BY <4>1 DEF ToTheEnd
    <3> QED
      BY <3>3, Zenon DEF ToTheEnd
  <2> QED
    BY <1>1, <2>2, <2>3 DEF Leads, CrcRight
<1> QED
  BY <1>2, <1>3 DEF Leads

(* A chain whose cells stay and that ends where it did.                     *)
LEMMA PathKept ==
  ASSUME NEW path, NEW n \in Nat, Path(path, n),
         \A p \in 2 .. Total : CellAt(p)' = CellAt(p),
         Total \in Nat, Total' \in Nat, Place \in Nat, Place' = Place, Total <= Total',
         \/ Total' = Total /\ is_last_file' = is_last_file /\ pc' \notin {"identify", "new"}
         \/ ~is_last_file \/ pc \in {"identify", "new"}
  PROVE  Path(path, n)'
<1>1. /\ path \in [0 .. n -> Nat] /\ path[0] = 2 /\ path[n] = Place'
      /\ \A k \in 0 .. n - 1 : Leads(path[k], path[k + 1])
  BY DEF Path
<1>2. ASSUME NEW k \in 0 .. n - 1
      PROVE  Leads(path[k], path[k + 1])'
  <2>1. PICK p, q : p = path[k] /\ q = path[k + 1]
    OBVIOUS
  <2>2. Leads(p, q)
    BY <1>1, <2>1
  <2>3. CellAt(p)' = CellAt(p)
    BY <2>2 DEF Leads
  <2>4. Leads(p, q)'
    BY <2>2, <2>3, LinkKept
  <2> QED
    BY <2>1, <2>4
<1> QED
  BY <1>1, <1>2 DEF Path

LEMMA InitWalk == Init => WInv
<1> SUFFICES ASSUME Init PROVE WInv
  OBVIOUS
<1>1. Counts
  BY DEF Init, Counts, Typed, Under, Reads
<1> QED
  BY <1>1 DEF Init, WInv, Under, Reads

(* What ends a command without a container.                                 *)
LEMMA EndedWalk ==
  ASSUME WInv, pc' \in {"refused", "crashed", "asserted"},
         UNCHANGED <<data, package_count, count>>, Typed(input')
  PROVE  WInv'
<1>1. pc' \notin Under /\ pc' \notin Reads /\ pc' # "new" /\ pc' # "idle" /\ pc' # "written"
  BY DEF Under, Reads
<1>2. Typed(data') /\ package_count' \in Nat /\ count' \in Nat
  BY DEF WInv, Counts
<1>3. Counts'
  BY <1>1, <1>2 DEF Counts
<1> QED
  BY <1>1, <1>3 DEF WInv

LEMMA PackageWalk ==
  ASSUME IInv, IInv', WInv, NEW list \in Commands, package(list)
  PROVE  WInv'
<1>1. /\ pc = "idle" /\ pc' = "file" /\ data' = <<UbiHeader>> /\ filepaths' = list
      /\ UNCHANGED <<filepath_index, input, index, count, fsbl_size, package_count>>
  BY DEF package, oldVars
<1>2. /\ package_count = 0 /\ fsbl_size = 0 /\ filepath_index = 0 /\ count \in Nat
      /\ Typed(input)
  BY <1>1 DEF WInv, Counts
<1>3. Len(data') = 1 /\ Typed(data')
  BY <1>1 DEF Typed, UbiHeader
<1>4. Len(filepaths') >= 1
  <2>1. PICK n \in 1 .. MaxFiles : list \in [1 .. n -> Files]
    BY DEF Commands
  <2>2. n \in Nat /\ Len(list) = n
    <3>1. n \in Nat
      BY UbiConstants
    <3>2. list \in Seq(Files) /\ DOMAIN list = 1 .. n
      BY <2>1, <3>1
    <3> QED
      BY <3>1, <3>2
  <2> QED
    BY <1>1, <2>1, <2>2
<1>5. Counted' = 0 /\ Place' = 2
  BY <1>1, <1>2, <1>3 DEF Counted, Place
<1>6. NothingYet'
  BY <1>1, <1>2 DEF NothingYet
<1>7. Counts'
  BY <1>1, <1>2, <1>3, <1>4, <1>5, <1>6 DEF Counts, Reads
<1> DEFINE path == [k \in 0 .. 0 |-> 2]
<1>8. Path(path, 0)'
  BY <1>5 DEF Path
<1>9. FsblTold(path, 0)'
  BY <1>1, <1>2 DEF FsblTold
<1> HIDE DEF path
<1>10. \E way : Path(way, Counted)' /\ FsblTold(way, Counted)'
  BY <1>5, <1>8, <1>9
<1> QED
  BY <1>7, <1>10 DEF WInv

LEMMA ReadFileWalk ==
  ASSUME IInv, IInv', WInv, ReadFile
  PROVE  WInv'
<1>1. /\ pc = "file" /\ filepath_index < Len(filepaths)
      /\ pc' \in {"identify", "crashed", "refused"}
      /\ pc' = "identify" => Large(input')
      /\ filepath_index' = filepath_index + 1
      /\ input' = filepaths[filepath_index + 1]
      /\ UNCHANGED <<filepaths, index, count, data, fsbl_size, package_count, whole>>
  BY DEF ReadFile, oldVars
<1>2. /\ Len(data) \in Nat /\ Len(input) \in Nat /\ index \in Nat
      /\ Len(filepaths) \in Nat /\ filepath_index \in Nat
      /\ Counted \in Nat /\ Total \in Nat /\ Place \in Nat
  BY Numbers DEF WInv
<1>3. input' \in Files
  BY <1>1, <1>2 DEF IInv, Shapes
<1>4. Typed(input')
  BY <1>3, UbiFiles DEF Typed
<1>5. CASE pc' # "identify"
  BY <1>1, <1>4, <1>5, EndedWalk
<1>6. CASE pc' = "identify"
  <2>1. Len(input') >= 1
    BY <1>1, <1>6 DEF Large
  <2>2. Counted' = Counted /\ Total' = Total /\ Place' = Place
    BY <1>1, <1>6 DEF Counted, Total, Place
  <2>3. NothingYet' <=> NothingYet
    BY <1>1, <1>2, <1>6 DEF NothingYet
  <2>4. /\ Typed(data) /\ package_count \in Nat /\ count \in Nat
        /\ Len(data) >= 1 /\ Len(filepaths) >= 1
        /\ NothingYet => Counted = 0 /\ Len(data) = 1 /\ fsbl_size = 0
        /\ ~NothingYet => Counted > 0
    BY <1>1 DEF WInv, Counts, Under
  <2>5. filepath_index' \in 1 .. Len(filepaths)
    BY <1>1, <1>2
  <2>6. Counts'
    BY <1>1, <1>4, <1>6, <2>1, <2>2, <2>3, <2>4, <2>5 DEF Counts, Reads
  <2>7. ASSUME whole
        PROVE  \E path : Path(path, Counted)' /\ FsblTold(path, Counted)'
    <3>1. PICK path : Path(path, Counted) /\ FsblTold(path, Counted)
      BY <1>1, <2>7 DEF WInv, Under
    <3>2. ~is_last_file
      BY <1>1, <1>2 DEF is_last_file
    <3>3. \A p \in 2 .. Total : CellAt(p)' = CellAt(p)
      BY <1>1, <1>2 DEF CellAt, Total
    <3>4. PICK n \in Nat : n = Counted
      BY <1>2
    <3>5. Path(path, n)'
      BY <1>2, <2>2, <3>1, <3>2, <3>3, <3>4, PathKept
    <3>6. FsblTold(path, n)'
      BY <1>1, <3>1, <3>4 DEF FsblTold
    <3> QED
      BY <2>2, <3>4, <3>5, <3>6
  <2> QED
    BY <1>1, <2>6, <2>7 DEF WInv
<1> QED
  BY <1>5, <1>6

LEMMA IdentifyWalk ==
  ASSUME IInv, IInv', WInv, Identify
  PROVE  WInv'
<1>1. /\ pc = "identify" /\ pc' \in {"new", "old", "refused"}
      /\ pc' = "new" => IsHeader(input[1])
      /\ index' = 0 /\ count' = 0
      /\ UNCHANGED <<filepaths, filepath_index, input, data, fsbl_size, package_count, whole>>
  BY DEF Identify, IdentifiedAsNew
<1>2. /\ Len(data) \in Nat /\ Len(input) \in Nat /\ index \in Nat
      /\ Len(filepaths) \in Nat /\ filepath_index \in Nat
      /\ Counted \in Nat /\ Total \in Nat /\ Place \in Nat
  BY Numbers DEF WInv
<1>3. /\ Typed(data) /\ Typed(input) /\ package_count \in Nat
      /\ Len(data) >= 1 /\ Len(filepaths) >= 1
      /\ Len(input) >= 1 /\ filepath_index \in 1 .. Len(filepaths)
      /\ input = filepaths[filepath_index]
      /\ NothingYet => Counted = 0 /\ Len(data) = 1 /\ fsbl_size = 0
      /\ ~NothingYet => Counted > 0
  BY <1>1 DEF WInv, Counts, Under, Reads
<1>4. Counted' = Counted /\ Place' = Place /\ Total' \in Nat /\ Total <= Total'
  BY <1>1, <1>2, <1>3 DEF Counted, Total, Place
<1>5. CASE pc' = "refused"
  <2>1. Typed(data') /\ Typed(input') /\ package_count' \in Nat /\ count' \in Nat
    BY <1>1, <1>3
  <2>2. Counts'
    BY <1>5, <2>1 DEF Counts, Under, Reads
  <2> QED
    BY <1>5, <2>2 DEF WInv, Under, Reads
<1>6. CASE pc' # "refused"
  <2>1. NothingYet' <=> NothingYet
    BY <1>1, <1>6 DEF NothingYet
  <2>2. Counts'
    BY <1>1, <1>3, <1>4, <1>6, <2>1 DEF Counts, Reads
  <2>3. ASSUME whole
        PROVE  \E path : Path(path, Counted)' /\ FsblTold(path, Counted)'
    <3>1. PICK path : Path(path, Counted) /\ FsblTold(path, Counted)
      BY <1>1, <2>3 DEF WInv, Under, Reads
    <3>2. \A p \in 2 .. Total : CellAt(p)' = CellAt(p)
      BY <1>1, <1>2 DEF CellAt, Total
    <3>3. PICK n \in Nat : n = Counted
      BY <1>2
    <3>4. Path(path, n)'
      BY <1>1, <1>2, <1>4, <3>1, <3>2, <3>3, PathKept
    <3>5. FsblTold(path, n)'
      BY <1>1, <3>1, <3>3 DEF FsblTold
    <3> QED
      BY <1>4, <3>3, <3>4, <3>5
  <2> QED
    BY <1>1, <2>2, <2>3 DEF WInv
<1> QED
  BY <1>5, <1>6

(* The file goes behind the container.                                      *)
LEMMA Joined ==
  ASSUME IInv, WInv, data' = data \o input
  PROVE  /\ Len(data') = Len(data) + Len(input)
         /\ \A k \in 1 .. Len(data) : data'[k] = data[k]
         /\ \A k \in 1 .. Len(input) : data'[Len(data) + k] = input[k]
         /\ Typed(data')
<1>1. /\ IsSeq(data') /\ Len(data') = Len(data) + Len(input)
      /\ \A k \in 1 .. Len(data) : data'[k] = data[k]
      /\ \A k \in 1 .. Len(input) : data'[Len(data) + k] = input[k]
  BY ConcatFacts DEF IInv, Shapes
<1>2. /\ Len(data) \in Nat /\ Len(input) \in Nat
      /\ DOMAIN data = 1 .. Len(data) /\ DOMAIN input = 1 .. Len(input)
      /\ DOMAIN data' = 1 .. Len(data')
  BY <1>1, SeqFacts DEF IInv, Shapes
<1>3. ASSUME NEW k \in DOMAIN data'
      PROVE  (\E j \in DOMAIN data : data'[k] = data[j]) \/ \E j \in DOMAIN input : data'[k] = input[j]
  <2>1. CASE k <= Len(data)
    <3>1. k \in 1 .. Len(data)
      BY <1>2, <2>1
    <3> QED
      BY <1>1, <1>2, <3>1
  <2>2. CASE ~(k <= Len(data))
    <3>1. k - Len(data) \in 1 .. Len(input) /\ Len(data) + (k - Len(data)) = k
      BY <1>1, <1>2, <2>2
    <3> QED
      BY <1>1, <1>2, <3>1
  <2> QED
    BY <2>1, <2>2
<1>4. Typed(data) /\ Typed(input)
  BY DEF WInv, Counts
<1>5. Typed(data')
  BY <1>3, <1>4 DEF Typed
<1> QED
  BY <1>1, <1>5

LEMMA OldFormatWalk ==
  ASSUME IInv, IInv', WInv, OldFormat
  PROVE  WInv'
<1>1. /\ pc = "old" /\ index >= Len(input)
      /\ \/ pc' = "asserted" /\ UNCHANGED <<package_count, data>>
         \/ pc' = "file" /\ package_count' = package_count + count /\ data' = data \o input
      /\ UNCHANGED <<filepaths, filepath_index, input, index, count, fsbl_size, whole>>
  BY DEF OldFormat, PutBehind, oldVars
<1>2. /\ Len(data) \in Nat /\ Len(input) \in Nat /\ index \in Nat
      /\ Len(filepaths) \in Nat /\ filepath_index \in Nat
      /\ Counted \in Nat /\ Total \in Nat /\ Place \in Nat
  BY Numbers DEF WInv
<1>3. /\ Typed(data) /\ Typed(input) /\ package_count \in Nat /\ count \in Nat
      /\ Len(data) >= 1 /\ Len(filepaths) >= 1
      /\ Len(input) >= 1 /\ filepath_index \in 1 .. Len(filepaths)
      /\ ~NothingYet => Counted > 0
  BY <1>1 DEF WInv, Counts, Under, Reads
<1>4. CASE pc' = "asserted"
  <2>1. Typed(input')
    BY <1>1, <1>3
  <2> QED
    BY <1>1, <1>4, <2>1, EndedWalk
<1>5. CASE pc' = "file"
  <2>1. package_count' = package_count + count /\ data' = data \o input
    BY <1>1, <1>5
  <2>2. /\ Len(data') = Len(data) + Len(input)
        /\ \A k \in 1 .. Len(data) : data'[k] = data[k]
        /\ \A k \in 1 .. Len(input) : data'[Len(data) + k] = input[k]
        /\ Typed(data')
    BY <2>1, Joined
  <2>3. ~NothingYet /\ ~NothingYet'
    BY <1>1, <1>2, <1>3, <1>5 DEF NothingYet
  <2>4. Counted' = Counted /\ Total' = Total
    BY <1>1, <1>2, <1>3, <1>5, <2>1, <2>2 DEF Counted, Total
  <2>5. Len(data') >= 1 /\ package_count' \in Nat
    BY <1>2, <1>3, <2>1, <2>2
  <2>6. Counts'
    BY <1>1, <1>3, <1>5, <2>2, <2>3, <2>4, <2>5 DEF Counts, Reads
  <2>7. ASSUME whole
        PROVE  \E path : Path(path, Counted)' /\ FsblTold(path, Counted)'
    <3>1. PICK path : Path(path, Counted) /\ FsblTold(path, Counted)
      BY <1>1, <2>7 DEF WInv, Under, Reads
    <3>2. index = Len(input)
      BY <1>1, <1>2, <2>7 DEF IInv, StartsRight
    <3>3. Place' = Place
      BY <1>1, <1>2, <1>5, <2>2, <3>2 DEF Place
    <3>4. ASSUME NEW p \in 2 .. Total
          PROVE  CellAt(p)' = CellAt(p)
      <4>1. p \in Nat /\ p >= 1 /\ p <= Len(data) + Len(input)
        BY <1>1, <1>2 DEF Total
      <4>2. CASE p <= Len(data)
        <5>1. p <= Len(data') /\ p \in 1 .. Len(data)
          BY <1>2, <2>2, <4>1, <4>2
        <5> QED
          BY <2>2, <4>2, <5>1 DEF CellAt
      <4>3. CASE ~(p <= Len(data))
        <5>1. /\ p <= Len(data') /\ p - Len(data) \in 1 .. Len(input)
              /\ Len(data) + (p - Len(data)) = p
          BY <1>2, <2>2, <4>1, <4>3
        <5>2. data'[p] = input[p - Len(data)]
          BY <2>2, <5>1
        <5> QED
          BY <4>3, <5>1, <5>2 DEF CellAt
      <4> QED
        BY <4>2, <4>3
    <3>5. PICK n \in Nat : n = Counted
      BY <1>2
    <3>6. is_last_file' = is_last_file
      BY <1>1 DEF is_last_file
    <3>7. Path(path, n)'
      BY <1>2, <1>5, <2>4, <3>1, <3>3, <3>4, <3>5, <3>6, PathKept
    <3>8. FsblTold(path, n)'
      BY <1>1, <3>1, <3>5 DEF FsblTold
    <3> QED
      BY <2>4, <3>5, <3>7, <3>8
  <2> QED
    BY <1>1, <2>6, <2>7 DEF WInv
<1> QED
  BY <1>1, <1>4, <1>5

LEMMA WriteOutputWalk ==
  ASSUME IInv, IInv', WInv, WriteOutput
  PROVE  WInv'
<1>1. /\ pc = "file" /\ pc' = "written" /\ filepath_index = Len(filepaths)
      /\ output' = Written
      /\ UNCHANGED <<filepaths, filepath_index, input, index, count, fsbl_size, package_count,
                     data, whole>>
  BY DEF WriteOutput, oldVars, Written
<1>2. /\ Len(data) \in Nat /\ Len(input) \in Nat /\ index \in Nat
      /\ Len(filepaths) \in Nat /\ filepath_index \in Nat
      /\ Counted \in Nat /\ Total \in Nat /\ Place \in Nat
  BY Numbers DEF WInv
<1>3. /\ Typed(data) /\ Typed(input) /\ package_count \in Nat /\ count \in Nat
      /\ Len(data) >= 1 /\ Len(filepaths) >= 1
      /\ ~NothingYet => Counted > 0
  BY <1>1 DEF WInv, Counts, Under
<1>4. ~NothingYet /\ ~NothingYet'
  BY <1>1, <1>2, <1>3 DEF NothingYet
<1>5. Counted' = Counted /\ Total' = Total /\ Place' = Place
  BY <1>1 DEF Counted, Total, Place
<1>6. Counts'
  <2>1. Written' = Written
    BY <1>1 DEF Written
  <2> QED
    BY <1>1, <1>3, <1>4, <1>5, <2>1 DEF Counts, Reads
<1>7. ASSUME whole
      PROVE  \E path : Path(path, Counted)' /\ FsblTold(path, Counted)'
  <2>1. PICK path : Path(path, Counted) /\ FsblTold(path, Counted)
    BY <1>1, <1>7 DEF WInv, Under
  <2>2. \A p \in 2 .. Total : CellAt(p)' = CellAt(p)
    BY <1>1 DEF CellAt
  <2>3. PICK n \in Nat : n = Counted
    BY <1>2
  <2>4. is_last_file' = is_last_file
    BY <1>1 DEF is_last_file
  <2>5. Path(path, n)'
    BY <1>1, <1>2, <1>5, <2>1, <2>2, <2>3, <2>4, PathKept
  <2>6. FsblTold(path, n)'
    BY <1>1, <2>1, <2>3 DEF FsblTold
  <2> QED
    BY <1>5, <2>3, <2>5, <2>6
<1> QED
  BY <1>1, <1>6, <1>7 DEF WInv

(* The headers that parse went through continue the chain.                  *)
LEMMA NewFormatWalk ==
  ASSUME IInv, IInv', WInv, NewFormat
  PROVE  WInv'
<1>0. PICK m : m = Len(parse(input, TRUE, TRUE).sizes)
  OBVIOUS
<1>1. /\ pc = "new"
      /\ \/ pc' \in {"refused", "asserted"} /\ UNCHANGED <<package_count, data>>
         \/ /\ parse(input, TRUE, TRUE).ok
            /\ pc' = "file" /\ package_count' = package_count + m /\ data' = data \o input
      /\ UNCHANGED <<filepaths, filepath_index, input, index, count, fsbl_size, whole>>
  BY <1>0 DEF NewFormat, PutBehind, oldVars
<1>2. /\ Len(data) \in Nat /\ Len(input) \in Nat /\ index \in Nat
      /\ Len(filepaths) \in Nat /\ filepath_index \in Nat
      /\ Counted \in Nat /\ Total \in Nat /\ Place \in Nat
  BY Numbers DEF WInv
<1>3. /\ Typed(data) /\ Typed(input) /\ package_count \in Nat /\ count \in Nat
      /\ Len(data) >= 1 /\ Len(filepaths) >= 1
      /\ Len(input) >= 1 /\ filepath_index \in 1 .. Len(filepaths)
      /\ input = filepaths[filepath_index] /\ IsHeader(input[1])
      /\ NothingYet => Counted = 0 /\ Len(data) = 1 /\ fsbl_size = 0
      /\ ~NothingYet => Counted > 0
  BY <1>1 DEF WInv, Counts, Under, Reads
<1>4. CASE pc' \in {"refused", "asserted"}
  <2>1. Typed(input') /\ data' = data /\ package_count' = package_count /\ count' = count
    BY <1>1, <1>3, <1>4
  <2> QED
    BY <1>4, <2>1, EndedWalk
<1>5. CASE pc' = "file"
  <2>1. /\ parse(input, TRUE, TRUE).ok
        /\ package_count' = package_count + m /\ data' = data \o input
    BY <1>1, <1>5
  <2>2. /\ Len(data') = Len(data) + Len(input)
        /\ \A k \in 1 .. Len(data) : data'[k] = data[k]
        /\ \A k \in 1 .. Len(input) : data'[Len(data) + k] = input[k]
        /\ Typed(data')
    BY <2>1, Joined
  <2>3. m \in Nat \ {0} /\ \E sub : ParsePath(sub, m, input, 0)
    <3>1. IsSeq(input)
      BY DEF IInv, Shapes
    <3> QED
      BY <1>0, <1>3, <2>1, <3>1, ParseWalks
  <2>10. m \in Nat /\ m > 0
    BY <2>3
  <2>4. PICK n, l, li : n = Counted /\ l = Len(data) /\ li = Len(input)
    OBVIOUS
  <2>5. /\ n \in Nat /\ l \in Nat /\ li \in Nat /\ l >= 1
        /\ n = package_count /\ Counted' = n + m /\ Counted' \in Nat /\ Counted' > 0
        /\ Place = l + 1 /\ Place' = l + li + 1 /\ Total = l /\ Total' = l + li
    BY <1>1, <1>2, <1>3, <1>5, <2>1, <2>2, <2>10, <2>4 DEF Counted, Place, Total
  <2>6. ~NothingYet'
    BY <1>1, <1>2, <1>3, <1>5 DEF NothingYet
  <2>7. Len(data') >= 1 /\ package_count' \in Nat
    BY <1>2, <1>3, <2>1, <2>2, <2>10
  <2>8. Counts'
    BY <1>1, <1>3, <1>5, <2>2, <2>5, <2>6, <2>7 DEF Counts, Reads
  <2>9. ASSUME whole
        PROVE  \E path : Path(path, Counted)' /\ FsblTold(path, Counted)'
    <3>1. PICK path : Path(path, n) /\ FsblTold(path, n)
      BY <1>1, <2>4, <2>9 DEF WInv, Under, Reads
    <3>2. PICK sub : ParsePath(sub, m, input, 0)
      BY <2>3
    <3>3. /\ path \in [0 .. n -> Nat] /\ path[0] = 2 /\ path[n] = l + 1
          /\ \A k \in 0 .. n - 1 : Leads(path[k], path[k + 1])
      BY <2>5, <3>1 DEF Path
    <3>4. /\ sub \in [0 .. m -> Nat] /\ sub[0] = 0 /\ sub[m] = li
          /\ \A k \in 0 .. m - 1 :
               /\ sub[k] \in 0 .. li - 1 /\ sub[k + 1] \in sub[k] + 1 .. li
               /\ GoodHeader(input[sub[k] + 1])
               /\ sub[k + 1] = sub[k] + input[sub[k] + 1].size
      BY <2>4, <3>2 DEF ParsePath
    <3> DEFINE way == [k \in 0 .. n + m |-> IF k <= n THEN path[k] ELSE l + 1 + sub[k - n]]
    <3>5. \A k \in 0 .. n : k \in 0 .. n + m /\ way[k] = path[k]
      BY <2>10, <2>5
    <3>6. \A k \in 0 .. m : n + k \in 0 .. n + m /\ way[n + k] = l + 1 + sub[k]
      <4> TAKE k \in 0 .. m
      <4>1. n + k \in 0 .. n + m /\ (n + k) - n = k /\ k \in Nat
        BY <2>10, <2>5
      <4>2. CASE k = 0
        BY <2>5, <3>3, <3>4, <3>5, <4>1, <4>2
      <4>3. CASE k # 0
        <5>1. ~(n + k <= n)
          BY <2>5, <4>1, <4>3
        <5> QED
          BY <4>1, <5>1
      <4> QED
        BY <4>1, <4>2, <4>3
    <3>7. way \in [0 .. n + m -> Nat]
      <4> SUFFICES ASSUME NEW k \in 0 .. n + m
                   PROVE  way[k] \in Nat
        OBVIOUS
      <4>1. CASE k <= n
        <5>1. k \in 0 .. n
          BY <2>10, <2>5, <4>1
        <5> HIDE DEF way
        <5> QED
          BY <3>3, <3>5, <5>1
      <4>2. CASE ~(k <= n)
        <5>1. PICK j : j = k - n
          OBVIOUS
        <5>2. j \in 0 .. m /\ k = n + j
          BY <2>10, <2>5, <4>2, <5>1
        <5> HIDE DEF way
        <5>3. sub[j] \in Nat
          BY <3>4, <5>2
        <5> QED
          BY <2>5, <3>6, <5>2, <5>3
      <4> QED
        BY <4>1, <4>2
    <3> HIDE DEF way
    <3>14. PICK o : o = n + m
      OBVIOUS
    <3>15. o \in Nat /\ o > 0
      BY <2>10, <2>5, <3>14
    <3>12. PICK w : /\ w \in [0 .. o -> Nat]
                    /\ \A k \in 0 .. n : w[k] = path[k]
                    /\ \A k \in 0 .. m : w[n + k] = l + 1 + sub[k]
      BY <3>5, <3>6, <3>7, <3>14
    <3>8. ASSUME NEW k \in 0 .. n - 1
          PROVE  Leads(w[k], w[k + 1])'
      <4>1. k \in 0 .. n /\ k + 1 \in 0 .. n
        BY <2>5
      <4>2. PICK p, q : p = w[k] /\ q = w[k + 1]
        OBVIOUS
      <4>3. Leads(p, q)
        BY <3>3, <3>12, <4>1, <4>2
      <4>4. p \in 2 .. l
        BY <2>5, <4>3 DEF Leads
      <4>5. CellAt(p)' = CellAt(p)
        <5>1. p <= Len(data) /\ p <= Len(data') /\ p \in 1 .. Len(data)
          BY <2>2, <2>4, <2>5, <4>4
        <5> QED
          BY <2>2, <5>1 DEF CellAt
      <4>6. Total \in Nat /\ Total' \in Nat /\ Place \in Nat /\ Place' \in Nat
            /\ Total <= Total' /\ Place <= Place'
        BY <2>5
      <4>7. Leads(p, q)'
        <5>1. pc \in {"identify", "new"}
          BY <1>1
        <5> QED
          BY <4>3, <4>5, <4>6, <5>1, LinkKept
      <4> QED
        BY <4>2, <4>7
    <3>9. ASSUME NEW k \in 0 .. m - 1
          PROVE  Leads(w[n + k], w[n + k + 1])'
      <4>1. PICK i, j : i = sub[k] /\ j = sub[k + 1]
        OBVIOUS
      <4>2. /\ i \in 0 .. li - 1 /\ j \in i + 1 .. li
            /\ GoodHeader(input[i + 1]) /\ j = i + input[i + 1].size
        BY <3>4, <4>1
      <4>3. w[n + k] = l + 1 + i /\ w[n + k + 1] = l + 1 + j
        <5>1. k \in 0 .. m /\ k + 1 \in 0 .. m /\ n + (k + 1) = n + k + 1
          BY <2>10, <2>5
        <5>2. w[n + k] = l + 1 + sub[k] /\ w[n + (k + 1)] = l + 1 + sub[k + 1]
          BY <3>12, <5>1
        <5> QED
          BY <4>1, <5>1, <5>2
      <4>4. PICK p, q, c : p = l + 1 + i /\ q = l + 1 + j /\ c = input[i + 1]
        OBVIOUS
      <4>5. CellAt(p)' = c
        <5>1. i + 1 \in 1 .. Len(input) /\ Len(data) + (i + 1) = p /\ p <= Len(data')
          BY <2>2, <2>4, <2>5, <4>2, <4>4
        <5>2. data'[p] = c
          BY <2>2, <4>4, <5>1
        <5> QED
          BY <5>1, <5>2 DEF CellAt
      <4>6. PICK size : size = c.size
        OBVIOUS
      <4>7. p \in 2 .. Total' /\ q \in p + 1 .. Place' /\ GoodHeader(c)
        BY <2>5, <4>2, <4>4
      <4>8. q = p + size
        <5>1. j = i + size
          BY <4>2, <4>4, <4>6
        <5>2. size \in Int
          <6>1. i + 1 \in DOMAIN input /\ c.type = "header"
            <7>1. DOMAIN input = 1 .. Len(input)
              BY SeqFacts DEF IInv, Shapes
            <7> QED
              BY <2>4, <4>2, <4>4, <7>1 DEF GoodHeader
          <6> QED
            BY <1>3, <4>4, <4>6, <6>1 DEF Typed
        <5> QED
          BY <2>5, <4>2, <4>4, <5>1, <5>2
      <4>9. Leads(p, q)'
        BY <4>5, <4>6, <4>7, <4>8 DEF Leads, GoodHeader
      <4> QED
        <5>1. w[n + k] = p /\ w[n + k + 1] = q
          BY <4>3, <4>4
        <5> QED
          BY <4>9, <5>1
    <3>10. \A k \in 0 .. o - 1 : Leads(w[k], w[k + 1])'
      <4> TAKE k \in 0 .. o - 1
      <4>1. CASE k < n
        <5>1. k \in 0 .. n - 1
          BY <2>10, <2>5, <3>14, <4>1
        <5> QED
          BY <3>8, <5>1
      <4>2. CASE ~(k < n)
        <5>1. PICK j : j = k - n
          OBVIOUS
        <5>2. j \in 0 .. m - 1 /\ k = n + j
          BY <2>10, <2>5, <3>14, <4>2, <5>1
        <5> QED
          BY <3>9, <5>2
      <4> QED
        BY <4>1, <4>2
    <3>11. w[0] = 2 /\ w[o] = Place'
      <4>1. 0 \in 0 .. n /\ m \in 0 .. m
        BY <2>10, <2>5
      <4>2. w[0] = path[0] /\ w[o] = l + 1 + sub[m]
        BY <3>12, <3>14, <4>1
      <4> QED
        BY <2>5, <3>3, <3>4, <4>2
    <3>13. Path(w, o)'
      BY <3>12, <3>10, <3>11 DEF Path
    <3>16. FsblTold(w, o)'
      <4>2. CASE n = 0
        <5>1. NothingYet
          BY <1>3, <2>4, <4>2
        <5>2. filepath_index = 1
          BY <1>3, <5>1 DEF NothingYet
        <5>3. ~IsFsblFile(filepaths[1])
          BY <1>3, <5>2 DEF IsFsblFile, IsOldHeader, IsHeader
        <5>4. fsbl_size = 0
          BY <1>3, <5>1
        <5> QED
          BY <1>1, <5>3, <5>4 DEF FsblTold
      <4>3. CASE n # 0
        <5>1. n > 0 /\ 1 \in 0 .. n
          BY <2>5, <4>3
        <5>2. w[1] = path[1]
          BY <3>12, <5>1
        <5>3. fsbl_size = IF IsFsblFile(filepaths[1]) THEN path[1] - 1 ELSE 0
          BY <3>1, <5>1, Zenon DEF FsblTold
        <5>4. fsbl_size' = fsbl_size /\ filepaths' = filepaths
          BY <1>1
        <5>5. fsbl_size' = IF IsFsblFile(filepaths'[1]) THEN w[1] - 1 ELSE 0
          BY <5>2, <5>3, <5>4
        <5> QED
          BY <3>15, <5>5 DEF FsblTold
      <4> QED
        BY <4>2, <4>3
    <3> QED
      BY <2>5, <3>14, <3>13, <3>16
  <2> QED
    BY <1>1, <2>8, <2>9 DEF WInv
<1> QED
  BY <1>1, <1>4, <1>5

(* The BOP that was read leads from the end of the chain on.                *)
LEMMA OldBopWalk ==
  ASSUME IInv, IInv', WInv, OldBop
  PROVE  WInv'
<1>1. CASE pc' = "refused" /\ UNCHANGED <<input, fsbl_size, oldVars, whole>>
  <2>1. Typed(input') /\ UNCHANGED <<data, package_count, count>>
    BY <1>1 DEF OldBop, oldVars, WInv, Counts
  <2> QED
    BY <1>1, <2>1, EndedWalk
<1>2. CASE ~(pc' = "refused" /\ UNCHANGED <<input, fsbl_size, oldVars, whole>>)
  <2>1. PICK h, off, v : h = input[index + 1] /\ off = OffsetOf(h) /\ v = LinkedOn(h)
    OBVIOUS
  <2>2. /\ pc = "old" /\ pc' = "old" /\ index < Len(input)
        /\ IsOldHeader(h) /\ CrcRight(v)
        /\ index' = index + off
        /\ count' = count + 1
        /\ fsbl_size' = IF IsFsbl THEN FsblEnd(h) ELSE fsbl_size
        /\ whole' = (whole /\ off <= max_size)
        /\ UNCHANGED <<filepaths, filepath_index, data, package_count>>
        /\ off \in Nat /\ off > 0
        /\ v.offset \in Nat
        /\ v.offset = off \/ (v.offset = 0 /\ is_last_file)
        /\ Len(input') = Len(input) /\ input'[index + 1] = v
        /\ \A k \in 1 .. Len(input) : k # index + 1 => input'[k] = input[k]
    BY <1>2, <2>1, BopCounted
  <2>3. /\ Len(data) \in Nat /\ Len(input) \in Nat /\ index \in Nat
        /\ Len(filepaths) \in Nat /\ filepath_index \in Nat
        /\ Counted \in Nat /\ Total \in Nat /\ Place \in Nat
    BY Numbers DEF WInv
  <2>4. /\ Typed(data) /\ Typed(input) /\ package_count \in Nat /\ count \in Nat
        /\ Len(data) >= 1 /\ Len(filepaths) >= 1
        /\ Len(input) >= 1 /\ filepath_index \in 1 .. Len(filepaths)
        /\ index = 0 => input = filepaths[filepath_index]
        /\ NothingYet => Counted = 0 /\ Len(data) = 1 /\ fsbl_size = 0
        /\ ~NothingYet => Counted > 0
    BY <2>2 DEF WInv, Counts, Under, Reads
  <2>5. v.type = "bop"
    BY <2>1, <2>2 DEF LinkedOn, Overwritten, OldHeader, IsOldHeader
  <2>6. DOMAIN input = 1 .. Len(input) /\ DOMAIN input' = 1 .. Len(input)
    BY <2>2, SeqFacts DEF IInv, Shapes
  <2>7. Typed(input')
    <3> SUFFICES ASSUME NEW k \in DOMAIN input'
                 PROVE  /\ input'[k].type = "bop" => input'[k].offset \in Nat
                        /\ input'[k].type = "header" => input'[k].size \in Nat
      BY DEF Typed
    <3>1. CASE k = index + 1
      <4>1. input'[k] = v
        BY <2>2, <3>1
      <4> QED
        BY <2>2, <2>5, <4>1
    <3>2. CASE k # index + 1
      <4>1. k \in DOMAIN input /\ input'[k] = input[k]
        BY <2>2, <2>6, <3>2
      <4> QED
        BY <2>4, <4>1 DEF Typed
    <3> QED
      BY <3>1, <3>2
  <2>8. PICK n, l, li, i : n = Counted /\ l = Len(data) /\ li = Len(input) /\ i = index
    OBVIOUS
  <2>9. /\ n \in Nat /\ l \in Nat /\ li \in Nat /\ i \in Nat /\ l >= 1 /\ i < li
        /\ Counted' = n + 1
        /\ Place = l + i + 1 /\ Place' = l + i + 1 + off /\ Total = l + li /\ Total' = l + li
        /\ max_size = li - i
    BY <2>2, <2>3, <2>4, <2>8 DEF Counted, Place, Total, max_size
  <2>10. ~NothingYet'
    BY <2>2, <2>3, <2>4 DEF NothingYet
  <2>11. Counts'
    <3>1. index' # 0 /\ count' \in Nat
      BY <2>2, <2>3, <2>4
    <3> QED
      BY <2>2, <2>4, <2>7, <2>9, <2>10, <3>1 DEF Counts, Reads
  <2>12. is_last_file' = is_last_file
    BY <2>2 DEF is_last_file
  <2>13. ASSUME whole'
         PROVE  \E way : Path(way, Counted)' /\ FsblTold(way, Counted)'
    <3>1. whole /\ off <= li - i
      BY <2>2, <2>9, <2>13
    <3>2. PICK path : Path(path, n) /\ FsblTold(path, n)
      BY <2>2, <2>8, <3>1 DEF WInv, Under, Reads
    <3>3. PICK here, next, o : here = l + i + 1 /\ next = here + off /\ o = n + 1
      OBVIOUS
    <3>4. /\ here \in Nat /\ next \in Nat /\ o \in Nat /\ o > 0 /\ here >= 2
          /\ Place = here /\ Place' = next /\ here <= l + li /\ here < next
      BY <2>2, <2>9, <3>3
    <3>5. /\ path \in [0 .. n -> Nat] /\ path[0] = 2 /\ path[n] = here
          /\ \A k \in 0 .. n - 1 : Leads(path[k], path[k + 1])
      BY <3>2, <3>4 DEF Path
    <3>6. PICK w : /\ w \in [0 .. o -> Nat]
                   /\ \A k \in 0 .. n : w[k] = path[k]
                   /\ w[o] = next
      <4> DEFINE way == [k \in 0 .. o |-> IF k <= n THEN path[k] ELSE next]
      <4>1. way[o] = next
        BY <2>9, <3>3
      <4>2. \A k \in 0 .. n : way[k] = path[k]
        BY <2>9, <3>3
      <4>3. way \in [0 .. o -> Nat]
        BY <2>9, <3>3, <3>4, <3>5
      <4> HIDE DEF way
      <4> QED
        BY <4>1, <4>2, <4>3
    <3>7. ASSUME NEW k \in 0 .. n - 1
          PROVE  Leads(w[k], w[k + 1])'
      <4>1. k \in 0 .. n /\ k + 1 \in 0 .. n
        BY <2>9
      <4>2. PICK p, q : p = w[k] /\ q = w[k + 1]
        OBVIOUS
      <4>3. Leads(p, q)
        BY <3>5, <3>6, <4>1, <4>2
      <4>4. p \in 2 .. l + li /\ p < here
        BY <2>9, <3>4, <4>3 DEF Leads
      <4>5. CellAt(p)' = CellAt(p)
        <5>1. CASE p <= Len(data)
          BY <2>2, <5>1 DEF CellAt
        <5>2. CASE ~(p <= Len(data))
          <6>1. p - Len(data) \in 1 .. Len(input) /\ p - Len(data) # index + 1
            BY <2>8, <2>9, <3>3, <4>4, <5>2
          <6> QED
            BY <2>2, <5>2, <6>1 DEF CellAt
        <5> QED
          BY <5>1, <5>2
      <4>6. Total \in Nat /\ Total' \in Nat /\ Place \in Nat /\ Place' \in Nat
            /\ Total <= Total' /\ Place <= Place' /\ Place < Total + 1
        BY <2>9, <3>4
      <4>7. Leads(p, q)'
        BY <4>3, <4>5, <4>6, LinkKept
      <4> QED
        BY <4>2, <4>7
    <3>8. Leads(here, next)'
      <4>1. CellAt(here)' = v
        <5>1. ~(here <= Len(data)) /\ here - Len(data) = index + 1
          BY <2>8, <2>9, <3>3
        <5> QED
          BY <2>2, <5>1 DEF CellAt
      <4>2. here \in 2 .. Total' /\ next \in here + 1 .. Place'
        BY <2>9, <3>4
      <4>3. CASE v.offset = 0
        <5>1. IsLast(h) /\ is_last_file
          BY <2>1, <2>2, <4>3 DEF LinkedOn, Overwritten, OldHeader, IsLast, OffsetOf, max_size
        <5>2. off = li - i
          BY <2>1, <2>9, <5>1 DEF OffsetOf
        <5>3. next = Total' + 1
          BY <2>2, <2>9, <3>3, <5>2
        <5>4. is_last_file'
          BY <2>12, <5>1
        <5>5. ToTheEnd(next)'
          BY <2>2, <5>3, <5>4 DEF ToTheEnd
        <5> QED
          BY <2>2, <2>5, <4>1, <4>2, <4>3, <5>5 DEF Leads, CrcRight
      <4>4. CASE v.offset # 0
        <5>1. next = here + v.offset
          BY <2>2, <3>3, <4>4
        <5> QED
          BY <2>2, <2>5, <4>1, <4>2, <4>4, <5>1 DEF Leads, CrcRight
      <4> QED
        BY <4>3, <4>4
    <3>9. \A k \in 0 .. o - 1 : Leads(w[k], w[k + 1])'
      <4> TAKE k \in 0 .. o - 1
      <4>1. CASE k < n
        <5>1. k \in 0 .. n - 1
          BY <2>9, <3>3, <4>1
        <5> QED
          BY <3>7, <5>1
      <4>2. CASE ~(k < n)
        <5>1. k = n /\ k \in 0 .. n /\ k + 1 = o
          BY <2>9, <3>3, <4>2
        <5>2. w[k] = here /\ w[k + 1] = next
          BY <3>5, <3>6, <5>1
        <5> QED
          BY <3>8, <5>2
      <4> QED
        BY <4>1, <4>2
    <3>10. Path(w, o)'
      <4>1. 0 \in 0 .. n
        BY <2>9
      <4>2. w[0] = 2 /\ w[o] = Place'
        BY <3>4, <3>5, <3>6, <4>1
      <4> QED
        BY <3>6, <3>9, <4>2 DEF Path
    <3>11. fsbl_size' = IF IsFsblFile(filepaths[1]) THEN w[1] - 1 ELSE 0
      <4>1. CASE n = 0
        <5>1. NothingYet
          BY <2>4, <2>8, <4>1
        <5>2. filepath_index = 1 /\ index = 0 /\ l = 1 /\ fsbl_size = 0
          BY <2>2, <2>4, <2>8, <5>1 DEF NothingYet
        <5>3. h = filepaths[1][1]
          BY <2>1, <2>4, <5>2
        <5>4. IsFsblFile(filepaths[1]) <=> h.identifier = "FSBL"
          BY <2>2, <5>3 DEF IsFsblFile
        <5>5. IsFsbl <=> h.identifier = "FSBL"
          BY <2>1, <5>2 DEF IsFsbl, HereCell
        <5>6. FsblEnd(h) = off + 1
          BY <2>1 DEF FsblEnd, HeaderCells
        <5>7. w[1] = 2 + off
          BY <2>2, <2>8, <3>3, <3>6, <4>1, <5>2
        <5>8. w[1] - 1 = off + 1
          BY <2>2, <5>7
        <5> QED
          BY <2>2, <5>2, <5>4, <5>5, <5>6, <5>8
      <4>2. CASE n # 0
        <5>1. n > 0 /\ 1 \in 0 .. n
          BY <2>9, <4>2
        <5>2. ~NothingYet
          BY <2>4, <2>8, <4>2
        <5>3. ~IsFsbl
          BY <2>2, <5>2 DEF NothingYet, IsFsbl
        <5>4. fsbl_size' = fsbl_size
          BY <2>2, <5>3
        <5>5. fsbl_size = IF IsFsblFile(filepaths[1]) THEN path[1] - 1 ELSE 0
          BY <3>2, <5>1, Zenon DEF FsblTold
        <5> QED
          BY <3>6, <5>1, <5>4, <5>5
      <4> QED
        BY <4>1, <4>2
    <3>12. FsblTold(w, o)'
      BY <2>2, <3>4, <3>11 DEF FsblTold
    <3> QED
      BY <2>9, <3>3, <3>10, <3>12
  <2> QED
    BY <2>11, <2>13 DEF WInv
<1> QED
  BY <1>1, <1>2

LEMMA StutterWalk ==
  ASSUME WInv, UNCHANGED vars
  PROVE  WInv'
<1>1. UNCHANGED <<pc, filepaths, filepath_index, input, index, count, fsbl_size, package_count,
                  data, output, whole>>
  BY DEF vars, oldVars
<1>2. UNCHANGED <<Counted, Total, Place>>
  BY <1>1 DEF Counted, Total, Place
<1>3. NothingYet' <=> NothingYet
  BY <1>1 DEF NothingYet
<1>4. Written' = Written
  BY <1>1 DEF Written
<1>5. Counts'
  BY <1>1, <1>2, <1>3, <1>4 DEF WInv, Counts, Reads, Under
<1>6. ASSUME NEW p, NEW q, Leads(p, q)
      PROVE  Leads(p, q)'
  <2>1. CellAt(p)' = CellAt(p)
    BY <1>1 DEF CellAt
  <2>2. ToTheEnd(q) => ToTheEnd(q)'
    BY <1>1, <1>2 DEF ToTheEnd, is_last_file
  <2> QED
    BY <1>2, <1>6, <2>1, <2>2 DEF Leads, CrcRight, GoodHeader
<1>7. ASSUME NEW path, NEW n, Path(path, n), FsblTold(path, n)
      PROVE  Path(path, n)' /\ FsblTold(path, n)'
  <2>1. ASSUME NEW k \in 0 .. n - 1
        PROVE  Leads(path[k], path[k + 1])'
    <3>1. PICK p, q : p = path[k] /\ q = path[k + 1]
      OBVIOUS
    <3>2. Leads(p, q)
      BY <1>7, <3>1 DEF Path
    <3>3. Leads(p, q)'
      BY <1>6, <3>2
    <3> QED
      BY <3>1, <3>3
  <2>2. Path(path, n)'
    BY <1>2, <1>7, <2>1 DEF Path
  <2> QED
    BY <1>1, <1>7, <2>2 DEF FsblTold
<1>8. ASSUME pc \in Under /\ whole
      PROVE  \E path : Path(path, Counted)' /\ FsblTold(path, Counted)'
  <2>1. PICK path : Path(path, Counted) /\ FsblTold(path, Counted)
    BY <1>8 DEF WInv
  <2>2. PICK n : n = Counted
    OBVIOUS
  <2>3. Path(path, n)' /\ FsblTold(path, n)'
    BY <1>7, <2>1, <2>2
  <2> QED
    BY <1>2, <2>2, <2>3
<1> QED
  BY <1>1, <1>5, <1>8 DEF WInv

LEMMA NextWalk ==
  ASSUME IInv, IInv', WInv, [Next]_vars
  PROVE  WInv'
  BY PackageWalk, ReadFileWalk, IdentifyWalk, NewFormatWalk, OldBopWalk, OldFormatWalk,
     WriteOutputWalk, StutterWalk DEF Next

(* The container that is written is the data behind the header.             *)
LEMMA WrittenFacts ==
  ASSUME IInv, WInv, pc = "written"
  PROVE  /\ IsSeq(output) /\ Typed(output)
         /\ Len(output) = Len(data) /\ Len(data) \in Nat /\ Len(data) >= 1
         /\ output[1].size = Len(data) /\ output[1].fsbl_size = fsbl_size
         /\ output[1].package_count = package_count
         /\ \A p \in 2 .. Len(data) : output[p] = CellAt(p)
<1> DEFINE head == [ type |-> "ubi", size |-> Len(data), fsbl_size |-> fsbl_size,
                     package_count |-> package_count ]
           tail == SubSeq(data, 2, Len(data))
<1>1. /\ IsSeq(data) /\ Len(data) \in Nat /\ Len(data) >= 1 /\ DOMAIN data = 1 .. Len(data)
      /\ Typed(data)
  BY SeqFacts DEF IInv, Shapes, WInv, Counts, Under
<1>2. output = <<head>> \o tail
  BY DEF WInv, Counts, Written
<1>3. /\ head.type = "ubi" /\ head.size = Len(data) /\ head.fsbl_size = fsbl_size
      /\ head.package_count = package_count
  OBVIOUS
<1> HIDE DEF head
<1>4. PICK U : data \in Seq(U)
  BY <1>1 DEF IsSeq
<1>5. /\ tail \in Seq(U) /\ Len(tail) = Len(data) - 1
      /\ \A k \in 1 .. Len(data) - 1 : tail[k] = data[k + 1]
  <2>1. CASE Len(data) = 1
    <3>1. tail \in Seq(U) /\ Len(tail) = 0
      BY <1>4, <2>1
    <3> QED
      BY <2>1, <3>1
  <2>2. CASE Len(data) # 1
    BY <1>1, <1>4, <2>2
  <2> QED
    BY <2>1, <2>2
<1> HIDE DEF tail
<1>6. IsSeq(tail)
  BY <1>5, SeqOfRange DEF IsSeq, Range
<1>7. IsSeq(<<head>>) /\ Len(<<head>>) = 1 /\ <<head>>[1] = head
  BY DEF IsSeq
<1>8. /\ IsSeq(output) /\ Len(output) = Len(data)
      /\ output[1] = head
      /\ \A k \in 1 .. Len(data) - 1 : output[1 + k] = data[k + 1]
  <2>1. /\ IsSeq(output) /\ Len(output) = 1 + Len(tail)
        /\ \A k \in 1 .. 1 : output[k] = <<head>>[k]
        /\ \A k \in 1 .. Len(tail) : output[1 + k] = tail[k]
    BY <1>2, <1>6, <1>7, ConcatFacts
  <2> QED
    BY <1>1, <1>5, <1>7, <2>1
<1>9. \A p \in 2 .. Len(data) : output[p] = data[p]
  <2> TAKE p \in 2 .. Len(data)
  <2>1. PICK k : k = p - 1
    OBVIOUS
  <2>2. k \in 1 .. Len(data) - 1 /\ 1 + k = p /\ k + 1 = p
    BY <1>1, <2>1
  <2> QED
    BY <1>8, <2>2
<1>10. \A p \in 2 .. Len(data) : output[p] = CellAt(p)
  BY <1>1, <1>9 DEF CellAt
<1>11. Typed(output)
  <2> SUFFICES ASSUME NEW p \in DOMAIN output
               PROVE  /\ output[p].type = "bop" => output[p].offset \in Nat
                      /\ output[p].type = "header" => output[p].size \in Nat
    BY DEF Typed
  <2>1. p \in 1 .. Len(data)
    BY <1>8, SeqFacts
  <2>2. CASE p = 1
    BY <1>3, <1>8, <2>2
  <2>3. CASE p # 1
    <3>1. output[p] = data[p] /\ p \in DOMAIN data
      BY <1>1, <1>9, <2>1, <2>3
    <3> QED
      BY <1>1, <3>1 DEF Typed
  <2> QED
    BY <2>2, <2>3
<1> QED
  BY <1>1, <1>3, <1>8, <1>10, <1>11

(* A link of the chain is a step of the walk.                               *)
LEMMA LinkIsStep ==
  ASSUME IInv, WInv, pc = "written", NEW p, NEW q, Leads(p, q)
  PROVE  /\ p \in 2 .. Len(output) /\ q \in p + 1 .. Len(output) + 1
         /\ Met(p) /\ q = p + StepFrom(p)
<1>1. /\ Len(output) = Len(data) /\ Len(data) \in Nat
      /\ \A k \in 2 .. Len(data) : output[k] = CellAt(k)
  BY WrittenFacts
<1>2. Total = Len(data) /\ Place = Len(data) + 1
  BY <1>1 DEF Total, Place
<1>3. p \in 2 .. Len(output) /\ q \in p + 1 .. Len(output) + 1
  BY <1>1, <1>2 DEF Leads
<1>4. PICK c : c = output[p]
  OBVIOUS
<1>5. CellAt(p) = c
  BY <1>1, <1>3, <1>4
<1>6. CASE GoodHeader(c) /\ q = p + c.size
  <2>1. StepFrom(p) = c.size /\ q = p + StepFrom(p)
    BY <1>4, <1>6 DEF StepFrom, GoodHeader
  <2>2. Met(p)
    BY <1>3, <1>4, <1>6, <2>1, <1>1 DEF Met, GoodHeader
  <2> QED
    BY <1>3, <2>1, <2>2
<1>7. CASE /\ c.type = "bop" /\ CrcRight(c)
           /\ IF c.offset = 0 THEN ToTheEnd(q) ELSE q = p + c.offset
  <2>1. q = p + StepFrom(p)
    <3>1. CASE c.offset = 0
      <4>1. q = Len(output) + 1
        BY <1>1, <1>2, <1>7, <3>1 DEF ToTheEnd
      <4>2. StepFrom(p) = Len(output) + 1 - p
        BY <1>4, <1>7, <3>1 DEF StepFrom, IsLast
      <4> QED
        BY <1>1, <1>3, <4>1, <4>2
    <3>2. CASE c.offset # 0
      <4>1. StepFrom(p) = c.offset
        BY <1>4, <1>7, <3>2 DEF StepFrom, IsLast
      <4> QED
        BY <1>7, <3>2, <4>1
    <3> QED
      BY <3>1, <3>2
  <2>2. Met(p)
    BY <1>1, <1>3, <1>4, <1>7, <2>1 DEF Met
  <2> QED
    BY <1>3, <2>1, <2>2
<1> QED
  BY <1>5, <1>6, <1>7 DEF Leads

(* The reader of the container meets the BOPs that were counted.            *)
LEMMA WInvWalks ==
  ASSUME IInv, WInv
  PROVE  ContainerIsWalked
<1> SUFFICES ASSUME pc = "written", whole
             PROVE  /\ Walk = output[1].package_count
                    /\ output[1].size = Len(output)
                    /\ IF IsFsblFile(filepaths[1])
                         THEN \/ output[1].fsbl_size = Len(output)
                              \/ output[output[1].fsbl_size + 1].type \in {"bop", "header"}
                         ELSE output[1].fsbl_size = 0
  BY DEF ContainerIsWalked
<1>1. /\ IsSeq(output) /\ Typed(output) /\ Len(output) = Len(data)
      /\ Len(data) \in Nat /\ Len(data) >= 1
      /\ output[1].size = Len(data) /\ output[1].fsbl_size = fsbl_size
      /\ output[1].package_count = package_count
  BY WrittenFacts
<1>2. Counted = package_count /\ Place = Len(data) + 1 /\ package_count \in Nat
  BY <1>1 DEF Counted, Place, WInv, Counts
<1>3. PICK n, l : n = package_count /\ l = Len(output)
  OBVIOUS
<1>4. n \in Nat /\ n > 0 /\ l \in Nat
  <2>1. Len(filepaths) >= 1 /\ filepath_index = Len(filepaths)
    BY DEF WInv, Counts, Under
  <2>2. ~NothingYet
    BY <2>1 DEF NothingYet
  <2> QED
    BY <1>1, <1>2, <1>3, <2>2 DEF WInv, Counts, Under
<1>5. PICK path : Path(path, n) /\ FsblTold(path, n)
  BY <1>2, <1>3 DEF WInv, Under
<1>6. /\ path \in [0 .. n -> Nat] /\ path[0] = 2 /\ path[n] = l + 1
      /\ \A k \in 0 .. n - 1 : Leads(path[k], path[k + 1])
  BY <1>1, <1>2, <1>3, <1>5 DEF Path
<1>7. ASSUME NEW k \in 0 .. n - 1
      PROVE  /\ path[k] \in 1 .. l /\ path[k + 1] \in path[k] + 1 .. l + 1
             /\ Met(path[k]) /\ path[k + 1] = path[k] + StepFrom(path[k])
  <2>1. PICK p, q : p = path[k] /\ q = path[k + 1]
    OBVIOUS
  <2>2. Leads(p, q)
    BY <1>6, <2>1
  <2>3. /\ p \in 2 .. l /\ q \in p + 1 .. l + 1
        /\ Met(p) /\ q = p + StepFrom(p)
    BY <1>3, <2>2, LinkIsStep
  <2>4. p \in 1 .. l
    BY <1>4, <2>3
  <2> QED
    BY <2>1, <2>3, <2>4
<1>8. Walk = n
  <2>1. path[n] = Len(output) + 1
    BY <1>3, <1>6
  <2>2. \A k \in 0 .. n - 1 :
          /\ path[k] \in 1 .. Len(output) /\ path[k + 1] \in path[k] + 1 .. Len(output) + 1
          /\ Met(path[k]) /\ path[k + 1] = path[k] + StepFrom(path[k])
    BY <1>3, <1>7
  <2> QED
    BY <1>1, <1>4, <1>6, <2>1, <2>2, WalkCounts
<1>9. fsbl_size = IF IsFsblFile(filepaths[1]) THEN path[1] - 1 ELSE 0
  BY <1>4, <1>5, Zenon DEF FsblTold
<1>10. CASE IsFsblFile(filepaths[1])
  <2>1. PICK p : p = path[1]
    OBVIOUS
  <2>2. fsbl_size = p - 1
    BY <1>9, <1>10, <2>1
  <2>3. CASE n = 1
    <3>1. fsbl_size = Len(output)
      BY <1>3, <1>4, <1>6, <2>1, <2>2, <2>3
    <3> QED
      BY <1>1, <1>3, <1>8, <1>10, <3>1
  <2>4. CASE n # 1
    <3>1. 1 \in 0 .. n - 1
      BY <1>4, <2>4
    <3>2. Met(p) /\ p \in 1 .. l
      BY <1>7, <2>1, <3>1
    <3>3. fsbl_size + 1 = p
      BY <1>4, <2>2, <3>2
    <3>4. output[fsbl_size + 1].type \in {"bop", "header"}
      BY <3>2, <3>3 DEF Met
    <3> QED
      BY <1>1, <1>3, <1>8, <1>10, <3>4
  <2> QED
    BY <2>3, <2>4
<1>11. CASE ~IsFsblFile(filepaths[1])
  BY <1>1, <1>3, <1>8, <1>9, <1>11
<1> QED
  BY <1>10, <1>11

(* A reader of the container that goes from BOP to BOP meets as many as the *)
(* header counts, each with its CRC right, and ends at the end; the header  *)
(* tells the size and where an FSBL ends (package and parse_old_bop).       *)
THEOREM ContainerWalks == Spec => []ContainerIsWalked
<1>1. Init => IInv /\ WInv
  BY InitHolds, InitWalk
<1>2. IInv /\ WInv /\ [Next]_vars => (IInv /\ WInv)'
  BY StepKeeps, NextWalk
<1>3. IInv /\ WInv => ContainerIsWalked
  BY WInvWalks
<1> QED
  BY <1>1, <1>2, <1>3, PTL DEF Spec
=============================================================================
