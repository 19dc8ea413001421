---------------------------- MODULE OclaEioProofs ----------------------------
(***************************************************************************)
(* set_io, get_io and the session they work in: for every design, set of    *)
(* boards, command lines and register width.                                *)
(*                                                                         *)
(* 1. What parse_eio and parse_ocla make of accepted debug information.      *)
(*    Both go through lists with FoldLeft; the lemmas named ...Fold say that *)
(*    a fold is a table of running results, by induction on its length.      *)
(* 2. set_io touches no output it was not told to.  set_io writes back whole *)
(*    registers, so the claim is about what it read before: PRS must have    *)
(*    selected the outputs (whatever register an earlier command, perhaps    *)
(*    cut short, left selected), the copy of the control register must be    *)
(*    true to the core, and every word written must have been read.  EioInv  *)
(*    says so step by step.                                                  *)
(* 3. set_io and get_io tell the truth.  IoInv adds that the words a command *)
(*    moves reach every signal it names, which rests on 1: the signals of a  *)
(*    probe are laid out inside its width and do not overlap.                *)
(* 4. Instances are cut into signals, by probes that tile them: the fold of  *)
(*    parse_ocla keeps that each bit is in one signal of one probe, and      *)
(*    FlattenSeq, that it is in the waveform's list of signals once.         *)
(***************************************************************************)
EXTENDS OclaEio, FiniteSetTheorems, WellFoundedInduction, TLAPS

-----------------------------------------------------------------------------
(* Numbers and folds.                                                       *)

(* Every set of numbers has a least one.                                    *)
LEMMA Least ==
  ASSUME NEW T, T \subseteq Nat, T # {}
  PROVE  \E n \in T : \A m \in T : n <= m
<1> DEFINE R == OpToRel(<, Nat)
<1>1. IsWellFoundedOn(R, Nat)
  BY NatLessThanWellFounded, Zenon
<1>2. \A x, y \in T : <<y, x>> \in R <=> y < x
  BY DEF OpToRel
<1> HIDE DEF R
<1>3. PICK n \in T : \A y \in T : ~(<<y, n>> \in R)
  BY <1>1, WFMin
<1>4. \A m \in T : ~(m < n)
  BY <1>2, <1>3
<1> QED
  BY <1>4

(* Induction, for a set S of numbers.                                       *)
LEMMA Induction ==
  ASSUME NEW S, 0 \in S, \A n \in Nat : n \in S => n + 1 \in S
  PROVE  Nat \subseteq S
<1> SUFFICES ASSUME Nat \ S # {} PROVE FALSE
  OBVIOUS
<1>1. PICK n \in Nat \ S : \A m \in Nat \ S : n <= m
  BY Least
<1>2. n # 0 /\ n - 1 \in Nat
  BY <1>1
<1>3. n - 1 \in S
  BY <1>1, <1>2
<1> QED
  BY <1>1, <1>2, <1>3

(* Min and Max of the community modules.                                    *)
LEMMA MinIs ==
  ASSUME NEW T, T \subseteq Nat, T # {}
  PROVE  Min(T) \in T
BY Least DEF Min

(* ... and a bounded one a greatest one.                                    *)
LEMMA MaxIs ==
  ASSUME NEW T, NEW bound \in Nat, T \subseteq 0 .. bound, T # {}
  PROVE  Max(T) \in T /\ \A t \in T : t <= Max(T)
<1> DEFINE U == {bound - t : t \in T}
<1>1. U \subseteq Nat /\ U # {}
  <2>1. \A t \in T : bound - t \in Nat
    OBVIOUS
  <2> QED
    BY <2>1
<1>2. PICK u \in U : \A v \in U : u <= v
  BY <1>1, Least
<1>3. PICK t \in T : u = bound - t
  BY <1>2
<1>4. \A v \in T : bound - v \in U
  OBVIOUS
<1> HIDE DEF U
<1>5. \A v \in T : t >= v
  BY <1>2, <1>3, <1>4
<1> QED BY <1>5 DEF Max

(* The last of the positions gone through.                                  *)
LEMMA MaxIsLast ==
  ASSUME NEW n \in Nat, NEW s, s \subseteq 1 .. n, n \in s
  PROVE  Max(s) = n
<1>1. s \subseteq 0 .. n
  OBVIOUS
<1>2. Max(s) \in s /\ n <= Max(s)
  BY <1>1, MaxIs
<1>3. Max(s) \in 1 .. n
  BY <1>2
<1> QED
  BY <1>2, <1>3

(* The word of a bit.                                                       *)
LEMMA WordOf ==
  ASSUME NEW b \in Nat
  PROVE  /\ b \div WordBits \in Nat
         /\ (b \div WordBits) * WordBits <= b
         /\ b < (b \div WordBits + 1) * WordBits
BY WordsAssumption

(* The sets FoldLeft goes through.                                          *)
LEMMA Intervals ==
  ASSUME NEW n \in Nat, NEW k \in 1 .. n
  PROVE  1 .. k \in SUBSET (1 .. n) /\ 1 .. k # {} /\ (1 .. k) \ {k} = 1 .. k - 1
OBVIOUS

(* TotalWidth adds width after width.                                       *)
WidthTable(g, ts, n) ==
  g = [s \in SUBSET (1 .. n) |-> IF s = {} THEN 0 ELSE g[s \ {Max(s)}] + SignalWidth(ts[Max(s)])]

(* There is such a table.                                                   *)
LEMMA WidthTableExists ==
  ASSUME NEW ts, NEW n \in Nat
  PROVE  \E g : WidthTable(g, ts, n)
<1> DEFINE Is(g, k) == WidthTable(g, ts, k)
           Q == {k \in Nat : \E g : Is(g, k)}
<1>1. 0 \in Q
  <2>1. Is([s \in SUBSET (1 .. 0) |-> 0], 0)
    BY DEF WidthTable
  <2> QED
    BY <2>1, Zenon
<1>2. ASSUME NEW k \in Nat, k \in Q
      PROVE  k + 1 \in Q
  <2>1. PICK g : Is(g, k)
    BY <1>2
  <2> DEFINE rest(s) == g[s \ {k + 1}]
             h == [s \in SUBSET (1 .. k + 1) |->
                     IF k + 1 \in s THEN rest(s) + SignalWidth(ts[k + 1]) ELSE g[s]]
  <2>2. ASSUME NEW s \in SUBSET (1 .. k + 1), k + 1 \in s
        PROVE  h[s] = h[s \ {Max(s)}] + SignalWidth(ts[Max(s)])
    <3>1. Max(s) = k + 1
      <4>1. k + 1 \in Nat /\ s \subseteq 1 .. k + 1
        BY <2>2
      <4> QED
        BY <2>2, <4>1, MaxIsLast
    <3>2. s \ {k + 1} \in SUBSET (1 .. k + 1)
      BY <2>2
    <3>3. h[s] = rest(s) + SignalWidth(ts[k + 1])
      BY <2>2
    <3>4. h[s \ {k + 1}] = g[s \ {k + 1}]
      BY <3>2
    <3> QED
      BY <3>1, <3>3, <3>4
  <2>3. ASSUME NEW s \in SUBSET (1 .. k + 1), k + 1 \notin s, s # {}
        PROVE  h[s] = h[s \ {Max(s)}] + SignalWidth(ts[Max(s)])
    <3>1. s \in SUBSET (1 .. k)
      BY <2>3
    <3>2. g[s] = g[s \ {Max(s)}] + SignalWidth(ts[Max(s)])
      BY <2>1, <2>3, <3>1 DEF WidthTable
    <3>3. h[s] = g[s]
      BY <2>3
    <3>4. s \ {Max(s)} \in SUBSET (1 .. k + 1) /\ k + 1 \notin s \ {Max(s)}
      BY <2>3
    <3>5. h[s \ {Max(s)}] = g[s \ {Max(s)}]
      BY <3>4
    <3> QED
      BY <3>2, <3>3, <3>5
  <2>4. h[{}] = 0
    <3>1. {} \in SUBSET (1 .. k) /\ {} \in SUBSET (1 .. k + 1) /\ k + 1 \notin {}
      OBVIOUS
    <3>2. g[{}] = 0
      BY <2>1, <3>1 DEF WidthTable
    <3> QED
      BY <3>1, <3>2
  <2>5. h = [s \in SUBSET (1 .. k + 1) |-> h[s]]
    OBVIOUS
  <2> HIDE DEF h
  <2>6. Is(h, k + 1)
    <3>1. \A s \in SUBSET (1 .. k + 1) :
            h[s] = IF s = {} THEN 0 ELSE h[s \ {Max(s)}] + SignalWidth(ts[Max(s)])
      BY <2>2, <2>3, <2>4
    <3> QED
      BY <2>5, <3>1 DEF WidthTable
  <2>7. \E x : Is(x, k + 1)
    BY <2>6, Zenon
  <2> HIDE DEF h, Is
  <2> QED
    BY <2>7
<1> HIDE DEF Q
<1>3. n \in Q
  BY <1>1, <1>2, Induction
<1> QED
  BY <1>3 DEF Q

(* ... and FoldLeft reads it at the whole list.                             *)
LEMMA WidthFold ==
  ASSUME NEW ts, NEW n \in Nat, DOMAIN ts = 1 .. n
  PROVE  \E f : /\ f[0] = 0
                /\ \A k \in 1 .. n : f[k] = f[k - 1] + SignalWidth(ts[k])
                /\ TotalWidth(ts) = f[n]
<1> DEFINE iter == CHOOSE g : g = [s \in SUBSET (1 .. n) |-> IF s = {} THEN 0 ELSE g[s \ {Max(s)}] + SignalWidth(ts[Max(s)])]
<1>1. iter = [s \in SUBSET (1 .. n) |-> IF s = {} THEN 0 ELSE iter[s \ {Max(s)}] + SignalWidth(ts[Max(s)])]
  <2>1. PICK g : WidthTable(g, ts, n)
    BY WidthTableExists, Zenon
  <2>2. g = [s \in SUBSET (1 .. n) |-> IF s = {} THEN 0 ELSE g[s \ {Max(s)}] + SignalWidth(ts[Max(s)])]
    BY <2>1 DEF WidthTable
  <2> QED
    BY <2>2, Zenon
<1>2. TotalWidth(ts) = iter[1 .. n]
  BY DEF TotalWidth, FoldLeft, MapThenFoldSet
<1> DEFINE f == [k \in 0 .. n |-> iter[1 .. k]]
<1>3. f[0] = 0
  <2>1. 1 .. 0 = {} /\ {} \in SUBSET (1 .. n)
    OBVIOUS
  <2> HIDE DEF iter
  <2> QED
    BY <1>1, <2>1
<1>4. ASSUME NEW k \in 1 .. n
      PROVE  f[k] = f[k - 1] + SignalWidth(ts[k])
  <2>1. Max(1 .. k) = k
    <3>1. k \in Nat /\ 1 .. k \subseteq 1 .. k /\ k \in 1 .. k
      OBVIOUS
    <3> QED
      BY <3>1, MaxIsLast
  <2>2. 1 .. k \in SUBSET (1 .. n) /\ 1 .. k # {} /\ (1 .. k) \ {k} = 1 .. k - 1
    BY Intervals
  <2> HIDE DEF iter
  <2>3. iter[1 .. k] = iter[1 .. k - 1] + SignalWidth(ts[k])
    BY <1>1, <2>1, <2>2
  <2>4. k \in 0 .. n /\ k - 1 \in 0 .. n
    OBVIOUS
  <2> QED
    BY <2>3, <2>4
<1>5. f[n] = TotalWidth(ts)
  BY <1>2
<1> HIDE DEF f
<1> QED
  BY <1>3, <1>4, <1>5

(* AddProbes adds probe after probe.                                        *)
ProbesTable(g, o, n) ==
  g = [s \in SUBSET (1 .. n) |-> IF s = {} THEN [next |-> 1, probes |-> <<>>] ELSE AddProbe(g[s \ {Max(s)}], o.probe_info[Max(s)], o)]

(* There is such a table.                                                   *)
LEMMA ProbesTableExists ==
  ASSUME NEW o, NEW n \in Nat
  PROVE  \E g : ProbesTable(g, o, n)
<1> DEFINE Is(g, k) == ProbesTable(g, o, k)
           Q == {k \in Nat : \E g : Is(g, k)}
<1>1. 0 \in Q
  <2>1. Is([s \in SUBSET (1 .. 0) |-> [next |-> 1, probes |-> <<>>]], 0)
    BY DEF ProbesTable
  <2> QED
    BY <2>1, Zenon
<1>2. ASSUME NEW k \in Nat, k \in Q
      PROVE  k + 1 \in Q
  <2>1. PICK g : Is(g, k)
    BY <1>2
  <2> DEFINE rest(s) == g[s \ {k + 1}]
             h == [s \in SUBSET (1 .. k + 1) |->
                     IF k + 1 \in s THEN AddProbe(rest(s), o.probe_info[k + 1], o) ELSE g[s]]
  <2>2. ASSUME NEW s \in SUBSET (1 .. k + 1), k + 1 \in s
        PROVE  h[s] = AddProbe(h[s \ {Max(s)}], o.probe_info[Max(s)], o)
    <3>1. Max(s) = k + 1
      <4>1. k + 1 \in Nat /\ s \subseteq 1 .. k + 1
        BY <2>2
      <4> QED
        BY <2>2, <4>1, MaxIsLast
    <3>2. s \ {k + 1} \in SUBSET (1 .. k + 1)
      BY <2>2
    <3>3. h[s] = AddProbe(rest(s), o.probe_info[k + 1], o)
      BY <2>2
    <3>4. h[s \ {k + 1}] = g[s \ {k + 1}]
      BY <3>2
    <3> QED
      BY <3>1, <3>3, <3>4
  <2>3. ASSUME NEW s \in SUBSET (1 .. k + 1), k + 1 \notin s, s # {}
        PROVE  h[s] = AddProbe(h[s \ {Max(s)}], o.probe_info[Max(s)], o)
    <3>1. s \in SUBSET (1 .. k)
      BY <2>3
    <3>2. g[s] = AddProbe(g[s \ {Max(s)}], o.probe_info[Max(s)], o)
      BY <2>1, <2>3, <3>1 DEF ProbesTable
    <3>3. h[s] = g[s]
      BY <2>3
    <3>4. s \ {Max(s)} \in SUBSET (1 .. k + 1) /\ k + 1 \notin s \ {Max(s)}
      BY <2>3
    <3>5. h[s \ {Max(s)}] = g[s \ {Max(s)}]
      BY <3>4
    <3> QED
      BY <3>2, <3>3, <3>5
  <2>4. h[{}] = [next |-> 1, probes |-> <<>>]
    <3>1. {} \in SUBSET (1 .. k) /\ {} \in SUBSET (1 .. k + 1) /\ k + 1 \notin {}
      OBVIOUS
    <3>2. g[{}] = [next |-> 1, probes |-> <<>>]
      BY <2>1, <3>1 DEF ProbesTable
    <3> QED
      BY <3>1, <3>2
  <2>5. h = [s \in SUBSET (1 .. k + 1) |-> h[s]]
    OBVIOUS
  <2> HIDE DEF h
  <2>6. Is(h, k + 1)
    <3>1. \A s \in SUBSET (1 .. k + 1) :
            h[s] = IF s = {} THEN [next |-> 1, probes |-> <<>>] ELSE AddProbe(h[s \ {Max(s)}], o.probe_info[Max(s)], o)
      BY <2>2, <2>3, <2>4
    <3> QED
      BY <2>5, <3>1 DEF ProbesTable
  <2>7. \E x : Is(x, k + 1)
    BY <2>6, Zenon
  <2> HIDE DEF h, Is
  <2> QED
    BY <2>7
<1> HIDE DEF Q
<1>3. n \in Q
  BY <1>1, <1>2, Induction
<1> QED
  BY <1>3 DEF Q

(* ... and FoldLeft reads it at the whole list.                             *)
LEMMA ProbesFold ==
  ASSUME NEW o, NEW n \in Nat, DOMAIN o.probe_info = 1 .. n
  PROVE  \E f : /\ f[0] = [next |-> 1, probes |-> <<>>]
                /\ \A k \in 1 .. n : f[k] = AddProbe(f[k - 1], o.probe_info[k], o)
                /\ AddProbes(o) = f[n]
<1> DEFINE iter == CHOOSE g : g = [s \in SUBSET (1 .. n) |-> IF s = {} THEN [next |-> 1, probes |-> <<>>] ELSE AddProbe(g[s \ {Max(s)}], o.probe_info[Max(s)], o)]
<1>1. iter = [s \in SUBSET (1 .. n) |-> IF s = {} THEN [next |-> 1, probes |-> <<>>] ELSE AddProbe(iter[s \ {Max(s)}], o.probe_info[Max(s)], o)]
  <2>1. PICK g : ProbesTable(g, o, n)
    BY ProbesTableExists, Zenon
  <2>2. g = [s \in SUBSET (1 .. n) |-> IF s = {} THEN [next |-> 1, probes |-> <<>>] ELSE AddProbe(g[s \ {Max(s)}], o.probe_info[Max(s)], o)]
    BY <2>1 DEF ProbesTable
  <2> QED
    BY <2>2, Zenon
<1>2. AddProbes(o) = iter[1 .. n]
  BY DEF AddProbes, FoldLeft, MapThenFoldSet
<1> DEFINE f == [k \in 0 .. n |-> iter[1 .. k]]
<1>3. f[0] = [next |-> 1, probes |-> <<>>]
  <2>1. 1 .. 0 = {} /\ {} \in SUBSET (1 .. n)
    OBVIOUS
  <2> HIDE DEF iter
  <2> QED
    BY <1>1, <2>1
<1>4. ASSUME NEW k \in 1 .. n
      PROVE  f[k] = AddProbe(f[k - 1], o.probe_info[k], o)
  <2>1. Max(1 .. k) = k
    <3>1. k \in Nat /\ 1 .. k \subseteq 1 .. k /\ k \in 1 .. k
      OBVIOUS
    <3> QED
      BY <3>1, MaxIsLast
  <2>2. 1 .. k \in SUBSET (1 .. n) /\ 1 .. k # {} /\ (1 .. k) \ {k} = 1 .. k - 1
    BY Intervals
  <2> HIDE DEF iter
  <2>3. iter[1 .. k] = AddProbe(iter[1 .. k - 1], o.probe_info[k], o)
    BY <1>1, <2>1, <2>2
  <2>4. k \in 0 .. n /\ k - 1 \in 0 .. n
    OBVIOUS
  <2> QED
    BY <2>3, <2>4
<1>5. f[n] = AddProbes(o)
  BY <1>2
<1> HIDE DEF f
<1> QED
  BY <1>3, <1>4, <1>5

(* parse_ocla adds instance after instance.                                 *)
InstancesTable(g, list, single, n) ==
  g = [s \in SUBSET (1 .. n) |-> IF s = {} THEN NoInstance(single) ELSE AddInstance(g[s \ {Max(s)}], list[Max(s)], single)]

(* There is such a table.                                                   *)
LEMMA InstancesTableExists ==
  ASSUME NEW list, NEW single, NEW n \in Nat
  PROVE  \E g : InstancesTable(g, list, single, n)
<1> DEFINE Is(g, k) == InstancesTable(g, list, single, k)
           Q == {k \in Nat : \E g : Is(g, k)}
<1>1. 0 \in Q
  <2>1. Is([s \in SUBSET (1 .. 0) |-> NoInstance(single)], 0)
    BY DEF InstancesTable
  <2> QED
    BY <2>1, Zenon
<1>2. ASSUME NEW k \in Nat, k \in Q
      PROVE  k + 1 \in Q
  <2>1. PICK g : Is(g, k)
    BY <1>2
  <2> DEFINE rest(s) == g[s \ {k + 1}]
             h == [s \in SUBSET (1 .. k + 1) |->
                     IF k + 1 \in s THEN AddInstance(rest(s), list[k + 1], single) ELSE g[s]]
  <2>2. ASSUME NEW s \in SUBSET (1 .. k + 1), k + 1 \in s
        PROVE  h[s] = AddInstance(h[s \ {Max(s)}], list[Max(s)], single)
    <3>1. Max(s) = k + 1
      <4>1. k + 1 \in Nat /\ s \subseteq 1 .. k + 1
        BY <2>2
      <4> QED
        BY <2>2, <4>1, MaxIsLast
    <3>2. s \ {k + 1} \in SUBSET (1 .. k + 1)
      BY <2>2
    <3>3. h[s] = AddInstance(rest(s), list[k + 1], single)
      BY <2>2
    <3>4. h[s \ {k + 1}] = g[s \ {k + 1}]
      BY <3>2
    <3> QED
      BY <3>1, <3>3, <3>4
  <2>3. ASSUME NEW s \in SUBSET (1 .. k + 1), k + 1 \notin s, s # {}
        PROVE  h[s] = AddInstance(h[s \ {Max(s)}], list[Max(s)], single)
    <3>1. s \in SUBSET (1 .. k)
      BY <2>3
    <3>2. g[s] = AddInstance(g[s \ {Max(s)}], list[Max(s)], single)
      BY <2>1, <2>3, <3>1 DEF InstancesTable
    <3>3. h[s] = g[s]
      BY <2>3
    <3>4. s \ {Max(s)} \in SUBSET (1 .. k + 1) /\ k + 1 \notin s \ {Max(s)}
      BY <2>3
    <3>5. h[s \ {Max(s)}] = g[s \ {Max(s)}]
      BY <3>4
    <3> QED
      BY <3>2, <3>3, <3>5
  <2>4. h[{}] = NoInstance(single)
    <3>1. {} \in SUBSET (1 .. k) /\ {} \in SUBSET (1 .. k + 1) /\ k + 1 \notin {}
      OBVIOUS
    <3>2. g[{}] = NoInstance(single)
      BY <2>1, <3>1 DEF InstancesTable
    <3> QED
      BY <3>1, <3>2
  <2>5. h = [s \in SUBSET (1 .. k + 1) |-> h[s]]
    OBVIOUS
  <2> HIDE DEF h
  <2>6. Is(h, k + 1)
    <3>1. \A s \in SUBSET (1 .. k + 1) :
            h[s] = IF s = {} THEN NoInstance(single) ELSE AddInstance(h[s \ {Max(s)}], list[Max(s)], single)
      BY <2>2, <2>3, <2>4
    <3> QED
      BY <2>5, <3>1 DEF InstancesTable
  <2>7. \E x : Is(x, k + 1)
    BY <2>6, Zenon
  <2> HIDE DEF h, Is
  <2> QED
    BY <2>7
<1> HIDE DEF Q
<1>3. n \in Q
  BY <1>1, <1>2, Induction
<1> QED
  BY <1>3 DEF Q

(* ... and FoldLeft reads it at the whole list.                             *)
LEMMA InstancesFold ==
  ASSUME NEW list, NEW single, NEW n \in Nat, DOMAIN list = 1 .. n
  PROVE  \E f : /\ f[0] = NoInstance(single)
                /\ \A k \in 1 .. n : f[k] = AddInstance(f[k - 1], list[k], single)
                /\ AddInstances(list, single) = f[n]
<1> DEFINE iter == CHOOSE g : g = [s \in SUBSET (1 .. n) |-> IF s = {} THEN NoInstance(single) ELSE AddInstance(g[s \ {Max(s)}], list[Max(s)], single)]
<1>1. iter = [s \in SUBSET (1 .. n) |-> IF s = {} THEN NoInstance(single) ELSE AddInstance(iter[s \ {Max(s)}], list[Max(s)], single)]
  <2>1. PICK g : InstancesTable(g, list, single, n)
    BY InstancesTableExists, Zenon
  <2>2. g = [s \in SUBSET (1 .. n) |-> IF s = {} THEN NoInstance(single) ELSE AddInstance(g[s \ {Max(s)}], list[Max(s)], single)]
    BY <2>1 DEF InstancesTable
  <2> QED
    BY <2>2, Zenon
<1>2. AddInstances(list, single) = iter[1 .. n]
  BY DEF AddInstances, FoldLeft, MapThenFoldSet
<1> DEFINE f == [k \in 0 .. n |-> iter[1 .. k]]
<1>3. f[0] = NoInstance(single)
  <2>1. 1 .. 0 = {} /\ {} \in SUBSET (1 .. n)
    OBVIOUS
  <2> HIDE DEF iter
  <2> QED
    BY <1>1, <2>1
<1>4. ASSUME NEW k \in 1 .. n
      PROVE  f[k] = AddInstance(f[k - 1], list[k], single)
  <2>1. Max(1 .. k) = k
    <3>1. k \in Nat /\ 1 .. k \subseteq 1 .. k /\ k \in 1 .. k
      OBVIOUS
    <3> QED
      BY <3>1, MaxIsLast
  <2>2. 1 .. k \in SUBSET (1 .. n) /\ 1 .. k # {} /\ (1 .. k) \ {k} = 1 .. k - 1
    BY Intervals
  <2> HIDE DEF iter
  <2>3. iter[1 .. k] = AddInstance(iter[1 .. k - 1], list[k], single)
    BY <1>1, <2>1, <2>2
  <2>4. k \in 0 .. n /\ k - 1 \in 0 .. n
    OBVIOUS
  <2> QED
    BY <2>3, <2>4
<1>5. f[n] = AddInstances(list, single)
  BY <1>2
<1> HIDE DEF f
<1> QED
  BY <1>3, <1>4, <1>5

-----------------------------------------------------------------------------
(* The signals of a probe.                                                  *)

(* A signal as LaidOut makes it.                                            *)
Signal == [name : STRING, idx : Nat, constant : BOOLEAN, bitpos : Nat, bitwidth : Nat \ {0}]

(* f[k] is where the k-th signal ends.                                      *)
Ends(f, ts) ==
  /\ f \in [0 .. Len(ts) -> Nat]
  /\ f[0] = 0
  /\ \A k \in 1 .. Len(ts) : f[k] = f[k - 1] + SignalWidth(ts[k])
  /\ \A k \in 0 .. Len(ts) : TotalWidth(SubSeq(ts, 1, k)) = f[k]
  /\ TotalWidth(ts) = f[Len(ts)]

(* TotalWidth of every prefix is a running sum.                             *)
LEMMA Widths ==
  ASSUME NEW ts \in Seq(SignalText), \A k \in 1 .. Len(ts) : SignalWidth(ts[k]) \in Nat
  PROVE  \E f : Ends(f, ts)
<1> DEFINE n == Len(ts)
<1>1. n \in Nat /\ DOMAIN ts = 1 .. n
  OBVIOUS
<1>2. PICK g : /\ g[0] = 0
               /\ \A k \in 1 .. n : g[k] = g[k - 1] + SignalWidth(ts[k])
               /\ TotalWidth(ts) = g[n]
  BY <1>1, WidthFold
<1> DEFINE f == [k \in 0 .. n |-> g[k]]
<1>3. /\ f[0] = 0
      /\ \A k \in 1 .. n : f[k] = f[k - 1] + SignalWidth(ts[k])
      /\ TotalWidth(ts) = f[n]
  <2>1. \A k \in 1 .. n : k - 1 \in 0 .. n
    BY <1>1
  <2> QED BY <1>1, <1>2, <2>1
<1>4. f \in [0 .. n -> Nat]
  <2> DEFINE Q == {k \in Nat : k <= n => f[k] \in Nat}
  <2> HIDE DEF f
  <2>1. 0 \in Q
    BY <1>3
  <2>2. ASSUME NEW k \in Nat, k \in Q PROVE k + 1 \in Q
    <3> SUFFICES ASSUME k + 1 <= n PROVE f[k + 1] \in Nat
      OBVIOUS
    <3>1. k + 1 \in 1 .. n /\ (k + 1) - 1 = k /\ f[k] \in Nat
      BY <1>1, <2>2
    <3>2. f[k + 1] = f[k] + SignalWidth(ts[k + 1])
      BY <1>3, <3>1
    <3> QED BY <3>1, <3>2
  <2> HIDE DEF Q
  <2>3. Nat \subseteq Q
    BY <2>1, <2>2, Induction
  <2>4. \A k \in 0 .. n : f[k] \in Nat
    BY <1>1, <2>3 DEF Q
  <2> QED BY <2>4 DEF f
<1>5. ASSUME NEW m \in 0 .. n
      PROVE  TotalWidth(SubSeq(ts, 1, m)) = f[m]
  <2> DEFINE us == SubSeq(ts, 1, m)
  <2>1. m \in Nat /\ DOMAIN us = 1 .. m /\ \A k \in 1 .. m : us[k] = ts[k]
    BY <1>1
  <2> HIDE DEF us, f
  <2>2. PICK h : /\ h[0] = 0
                 /\ \A k \in 1 .. m : h[k] = h[k - 1] + SignalWidth(us[k])
                 /\ TotalWidth(us) = h[m]
    BY <2>1, WidthFold
  <2> DEFINE Q == {k \in Nat : k <= m => h[k] = f[k]}
  <2>3. 0 \in Q
    BY <1>3, <2>2
  <2>4. ASSUME NEW k \in Nat, k \in Q PROVE k + 1 \in Q
    <3> SUFFICES ASSUME k + 1 <= m PROVE h[k + 1] = f[k + 1]
      OBVIOUS
    <3>1. k + 1 \in 1 .. m /\ k + 1 \in 1 .. n /\ (k + 1) - 1 = k /\ h[k] = f[k]
      BY <1>1, <2>4
    <3>2. f[k + 1] = f[k] + SignalWidth(ts[k + 1])
      BY <1>3, <3>1
    <3>3. h[k + 1] = h[k] + SignalWidth(us[k + 1])
      BY <2>2, <3>1
    <3> QED BY <2>1, <3>1, <3>2, <3>3
  <2> HIDE DEF Q
  <2>5. Nat \subseteq Q
    BY <2>3, <2>4, Induction
  <2>6. h[m] = f[m]
    BY <2>1, <2>5 DEF Q
  <2> QED BY <2>2, <2>6 DEF us
<1> HIDE DEF f
<1> QED BY <1>3, <1>4, <1>5 DEF Ends

(* Later signals end later.                                                 *)
LEMMA EndsGrow ==
  ASSUME NEW ts \in Seq(SignalText), \A k \in 1 .. Len(ts) : SignalWidth(ts[k]) \in Nat,
         NEW f, Ends(f, ts), NEW i \in 0 .. Len(ts), NEW j \in 0 .. Len(ts), i <= j
  PROVE  f[i] <= f[j]
<1> DEFINE n == Len(ts)
           Q == {k \in Nat : i <= k /\ k <= n => f[i] <= f[k]}
<1>1. n \in Nat /\ \A k \in 0 .. n : f[k] \in Nat
  <2>1. n \in Nat /\ f \in [0 .. n -> Nat]
    BY DEF Ends
  <2> HIDE DEF n
  <2> QED BY <2>1
<1>2. 0 \in Q
  BY <1>1
<1>3. ASSUME NEW k \in Nat, k \in Q PROVE k + 1 \in Q
  <2> SUFFICES ASSUME i <= k + 1, k + 1 <= n PROVE f[i] <= f[k + 1]
    OBVIOUS
  <2>1. CASE i = k + 1
    BY <1>1, <2>1
  <2>2. CASE i # k + 1
    <3>1. k + 1 \in 1 .. n /\ (k + 1) - 1 = k /\ k \in 0 .. n /\ f[i] <= f[k]
      BY <1>1, <1>3, <2>2
    <3>2. f[k + 1] = f[k] + SignalWidth(ts[k + 1]) /\ SignalWidth(ts[k + 1]) \in Nat
      BY <3>1 DEF Ends
    <3> QED BY <1>1, <3>1, <3>2
  <2> QED BY <2>1, <2>2
<1> HIDE DEF Q
<1>4. Nat \subseteq Q
  BY <1>2, <1>3, Induction
<1>5. j \in Q
  BY <1>1, <1>4
<1> QED BY <1>1, <1>5 DEF Q

(* Signals laid out one after the other have each bit of the whole once.    *)
LEMMA LaidOutSound ==
  ASSUME NEW ts \in Seq(SignalText), \A k \in 1 .. Len(ts) : SignalWidth(ts[k]) \in Nat \ {0}
  PROVE  /\ TotalWidth(ts) \in Nat
         /\ LaidOut(ts) \in Seq(Signal)
         /\ Len(LaidOut(ts)) = Len(ts)
         /\ \A k \in 1 .. Len(ts) :
              LaidOut(ts)[k].bitpos + LaidOut(ts)[k].bitwidth <= TotalWidth(ts)
         /\ \A b \in 0 .. TotalWidth(ts) - 1 : \E k \in 1 .. Len(ts) : b \in BitsOf(LaidOut(ts)[k])
         /\ \A j, k \in 1 .. Len(ts) :
              j # k => BitsOf(LaidOut(ts)[j]) \cap BitsOf(LaidOut(ts)[k]) = {}
<1> DEFINE n == Len(ts)
           W(k) == SignalWidth(ts[k])
           ss == LaidOut(ts)
<1>0. \A k \in 1 .. n : W(k) \in Nat
  OBVIOUS
<1>1. PICK f : Ends(f, ts)
  BY <1>0, Widths
<1>2. n \in Nat /\ f \in [0 .. n -> Nat]
  BY <1>1 DEF Ends
<1>3. \A k \in 1 .. n : f[k] = f[k - 1] + W(k) /\ W(k) \in Nat \ {0} /\ k - 1 \in 0 .. n
  BY <1>1, <1>2 DEF Ends
<1>4. \A k \in 1 .. n : /\ ss[k].bitpos = f[k - 1] /\ ss[k].bitwidth = W(k)
                        /\ ss[k] \in Signal
  <2> TAKE k \in 1 .. n
  <2>1. k - 1 \in 0 .. n /\ f[k - 1] \in Nat
    BY <1>2, <1>3
  <2>2. TotalWidth(SubSeq(ts, 1, k - 1)) = f[k - 1]
    BY <1>1, <2>1 DEF Ends
  <2>3. ts[k] \in SignalText /\ k \in Nat
    BY <1>2
  <2>4. ts[k].name \in STRING
    BY <2>3 DEF SignalText
  <2> QED BY <1>3, <2>1, <2>2, <2>3, <2>4 DEF LaidOut, Signal
<1>5. ss = [k \in 1 .. n |-> ss[k]]
  BY DEF LaidOut
<1>6. ss \in Seq(Signal) /\ Len(ss) = n
  <2>1. ss \in [1 .. n -> Signal]
    BY <1>4, <1>5
  <2> QED BY <1>2, <2>1
<1>7. \A k \in 1 .. n : BitsOf(ss[k]) = f[k - 1] .. f[k] - 1
  BY <1>2, <1>3, <1>4 DEF BitsOf
<1>8. TotalWidth(ts) = f[n]
  BY <1>1 DEF Ends
<1>9. \A i, j \in 0 .. n : i <= j => f[i] <= f[j]
  BY <1>0, <1>1, EndsGrow
<1> HIDE DEF n, ss, W
<1>15. \A k \in 0 .. n : f[k] \in Nat
  BY <1>2
<1>16. \A k \in 1 .. n : k \in 0 .. n /\ k \in Nat /\ f[k] \in Nat /\ f[k - 1] \in Nat
  <2> TAKE k \in 1 .. n
  <2>1. k \in 0 .. n /\ k - 1 \in 0 .. n
    BY <1>2
  <2> QED BY <1>15, <2>1
<1>10. \A k \in 1 .. n : ss[k].bitpos + ss[k].bitwidth = f[k] /\ f[k] <= f[n] /\ f[k] \in Nat
  <2> TAKE k \in 1 .. n
  <2>1. n \in 0 .. n /\ k <= n
    BY <1>2
  <2>2. f[k] <= f[n]
    BY <1>9, <1>16, <2>1
  <2> QED BY <1>3, <1>4, <1>16, <2>2
<1>11. ASSUME NEW j \in 1 .. n, NEW k \in 1 .. n, j < k
       PROVE  BitsOf(ss[j]) \cap BitsOf(ss[k]) = {}
  <2>1. j \in 0 .. n /\ k - 1 \in 0 .. n /\ j <= k - 1
    BY <1>2, <1>11
  <2>2. f[j] <= f[k - 1]
    BY <1>9, <2>1
  <2>3. ASSUME NEW b \in BitsOf(ss[j]), b \in BitsOf(ss[k])
        PROVE  FALSE
    <3>1. b \in f[j - 1] .. f[j] - 1 /\ b \in f[k - 1] .. f[k] - 1
      BY <1>7, <2>3
    <3> QED BY <1>16, <2>2, <3>1
  <2> QED BY <2>3
<1>12. ASSUME NEW b \in 0 .. TotalWidth(ts) - 1
       PROVE  \E k \in 1 .. n : b \in BitsOf(ss[k])
  <2> DEFINE T == {k \in 0 .. n : b < f[k]}
  <2>1. T \subseteq Nat /\ n \in T
    BY <1>2, <1>8
  <2>2. PICK k \in T : \A m \in T : k <= m
    BY <2>1, Least
  <2>3. k # 0
    BY <1>1, <2>2 DEF Ends
  <2>4. k \in 1 .. n /\ k - 1 \in 0 .. n /\ k - 1 \notin T
    BY <1>2, <2>2, <2>3
  <2>5. f[k - 1] <= b /\ b < f[k]
    BY <1>2, <1>8, <2>2, <2>4
  <2>6. f[k - 1] \in Nat /\ f[k] \in Nat /\ b \in Int
    BY <1>2, <2>4
  <2>7. b \in BitsOf(ss[k])
    BY <1>7, <2>4, <2>5, <2>6
  <2> QED BY <2>4, <2>7
<1>13. \A j, k \in 1 .. n : j # k => BitsOf(ss[j]) \cap BitsOf(ss[k]) = {}
  <2>1. \A j, k \in 1 .. n : j < k => BitsOf(ss[j]) \cap BitsOf(ss[k]) = {}
    BY <1>11
  <2> SUFFICES ASSUME NEW j \in 1 .. n, NEW k \in 1 .. n, j # k
               PROVE  BitsOf(ss[j]) \cap BitsOf(ss[k]) = {}
    OBVIOUS
  <2>2. j < k \/ k < j
    BY <1>2
  <2> QED BY <2>1, <2>2
<1>14. f[n] \in Nat
  BY <1>2
<1> QED
  BY <1>6, <1>8, <1>10, <1>12, <1>13, <1>14 DEF n, ss

(* A probe as parse_eio makes it: its signals have the bits of it, each one. *)
SoundProbe(p) ==
  /\ p.probe_width \in Nat
  /\ p.signal_list \in Seq(Signal)
  /\ \A k \in 1 .. Len(p.signal_list) :
       p.signal_list[k].bitpos + p.signal_list[k].bitwidth <= p.probe_width
  /\ \A b \in 0 .. p.probe_width - 1 :
       \E k \in 1 .. Len(p.signal_list) : b \in BitsOf(p.signal_list[k])
  /\ \A j, k \in 1 .. Len(p.signal_list) :
       j # k => BitsOf(p.signal_list[j]) \cap BitsOf(p.signal_list[k]) = {}

(* The file is debug information that the assembler accepted.               *)
FileSound == file # NoFile =>
  \E json \in Design :
    extract_ocla_info(json) /\ file = [json EXCEPT !.keys = @ \ {"messages"}]

(* The probes of a session are as parse_eio makes them.                     *)
ProbesSound == Loaded =>
  \A k \in 1 .. Len(session.eio) : SoundProbe(session.eio[k])

(* parse_eio admits no empty signal.                                        *)
LEMMA WidthOfText ==
  ASSUME NEW t \in SignalText, parse_eio_signal(t)
  PROVE  SignalWidth(t) \in Nat \ {0}
<1>1. t.pat \in Nat /\ t.hi \in Nat /\ t.lo \in Nat
  BY DEF SignalText
<1>2. CASE t.pat = 1
  <2>1. t.lo <= t.hi /\ SignalWidth(t) = t.hi - t.lo + 1
    BY <1>2 DEF parse_eio_signal, SignalWidth
  <2> QED BY <1>1, <2>1
<1>3. CASE t.pat # 1
  <2>1. t.pat # 2
    BY DEF parse_eio_signal
  <2>2. SignalWidth(t) = 1
    BY <1>3, <2>1 DEF SignalWidth
  <2> QED BY <2>2
<1> QED BY <1>2, <1>3

(* parse_eio makes a probe of its texts.                                    *)
LEMMA EioProbeSound ==
  ASSUME NEW type, NEW ts \in Seq(SignalText),
         \A t \in Range(ts) : parse_eio_signal(t)
  PROVE  SoundProbe(EioProbe(type, ts))
<1>1. \A k \in 1 .. Len(ts) : ts[k] \in SignalText /\ ts[k] \in Range(ts)
  BY DEF Range
<1>2. \A k \in 1 .. Len(ts) : SignalWidth(ts[k]) \in Nat \ {0}
  BY <1>1, WidthOfText
<1>3. /\ EioProbe(type, ts).probe_width = TotalWidth(ts)
      /\ EioProbe(type, ts).signal_list = LaidOut(ts)
  BY DEF EioProbe
<1> DEFINE p == EioProbe(type, ts)
           ss == LaidOut(ts)
<1> HIDE DEF p
<1>4. /\ TotalWidth(ts) \in Nat
      /\ ss \in Seq(Signal)
      /\ Len(ss) = Len(ts)
      /\ \A k \in 1 .. Len(ts) : ss[k].bitpos + ss[k].bitwidth <= TotalWidth(ts)
      /\ \A b \in 0 .. TotalWidth(ts) - 1 : \E k \in 1 .. Len(ts) : b \in BitsOf(ss[k])
      /\ \A j, k \in 1 .. Len(ts) : j # k => BitsOf(ss[j]) \cap BitsOf(ss[k]) = {}
  BY <1>2, LaidOutSound
<1> HIDE DEF ss
<1>5. p.probe_width = TotalWidth(ts) /\ p.signal_list = ss
  BY <1>3 DEF p, ss
<1>6. SoundProbe(p)
  BY <1>4, <1>5 DEF SoundProbe
<1> QED BY <1>6 DEF p

(* OclaDebugSession::parse_eio.                                             *)
LEMMA ParsedSound ==
  ASSUME NEW eio, eio.probes_in \in Seq(SignalText), eio.probes_out \in Seq(SignalText),
         parse_eio(eio).status = "ok"
  PROVE  \A k \in 1 .. Len(parse_eio(eio).probes) : SoundProbe(parse_eio(eio).probes[k])
<1> DEFINE in == EioProbe("input", eio.probes_in)
           out_ == EioProbe("output", eio.probes_out)
           texts == (IF "probes_in" \in eio.keys THEN Range(eio.probes_in) ELSE {})
                \cup (IF "probes_out" \in eio.keys THEN Range(eio.probes_out) ELSE {})
<1>1. /\ parse_eio(eio).probes = Present(eio, "probes_in", in) \o Present(eio, "probes_out", out_)
      /\ \A t \in texts : parse_eio_signal(t)
  BY DEF parse_eio
<1>2. "probes_in" \in eio.keys => SoundProbe(in)
  BY <1>1, EioProbeSound
<1>3. "probes_out" \in eio.keys => SoundProbe(out_)
  BY <1>1, EioProbeSound
<1> HIDE DEF in, out_
<1> DEFINE a == Present(eio, "probes_in", in)
           b == Present(eio, "probes_out", out_)
<1>4. \A k \in 1 .. Len(a) : SoundProbe(a[k])
  BY <1>2 DEF Present
<1>5. \A k \in 1 .. Len(b) : SoundProbe(b[k])
  BY <1>3 DEF Present
<1>6. a \in Seq({in, out_}) /\ b \in Seq({in, out_})
  <2>1. /\ <<>> \in Seq({in, out_})
        /\ <<in>> \in Seq({in, out_})
        /\ <<out_>> \in Seq({in, out_})
    OBVIOUS
  <2> QED BY <2>1, Zenon DEF Present
<1> HIDE DEF a, b
<1>7. \A k \in 1 .. Len(a \o b) : SoundProbe((a \o b)[k])
  BY <1>4, <1>5, <1>6
<1> QED BY <1>1, <1>7 DEF a, b

(* OclaDebugSession::load: what the assembler let pass has the lists of EIO.*)
LEMMA LoadSound ==
  ASSUME FileSound, file # NoFile, load(file).status = "ok"
  PROVE  \A k \in 1 .. Len(load(file).session.eio) : SoundProbe(load(file).session.eio[k])
<1>1. PICK json \in Design :
        extract_ocla_info(json) /\ file = [json EXCEPT !.keys = @ \ {"messages"}]
  BY DEF FileSound
<1>2. IsDesign(json)
  BY DesignAssumption
<1>3. file.eio = json.eio
  BY <1>1, <1>2 DEF IsDesign
<1>4. CASE "eio" \notin file.keys
  <2>1. load(file).session.eio = <<>>
    BY <1>4 DEF load
  <2> QED BY <2>1
<1>5. CASE "eio" \in file.keys
  <2>1. load(file).session.eio = parse_eio(file.eio).probes /\ parse_eio(file.eio).status = "ok"
    BY <1>5 DEF load
  <2>2. "addr" \in file.eio.keys
    BY <2>1 DEF parse_eio
  <2>3. json.eio.keys = EioKeys
    BY <1>1, <1>3, <2>2 DEF extract_ocla_info, validate_ocla_debug_subsystem, validate_eio
  <2> QED BY <1>2, <1>3, <2>1, <2>3, ParsedSound DEF IsDesign
<1> QED BY <1>4, <1>5
-----------------------------------------------------------------------------
(* Sequences.                                                               *)

(* s is a sequence, of whatever.                                            *)
IsList(s) == \E S : s \in Seq(S)

(* Append, \o and constructed sequences.                                    *)
LEMMA Appended ==
  ASSUME NEW s, NEW x, IsList(s)
  PROVE  /\ IsList(Append(s, x)) /\ Len(s) \in Nat
         /\ Len(Append(s, x)) = Len(s) + 1
         /\ \A k \in 1 .. Len(s) : Append(s, x)[k] = s[k]
         /\ Append(s, x)[Len(s) + 1] = x
<1>1. PICK S : s \in Seq(S)
  BY DEF IsList
<1>2. s \in Seq(S \cup {x}) /\ x \in S \cup {x}
  BY <1>1
<1>3. Append(s, x) \in Seq(S \cup {x})
  BY <1>2
<1> QED
  BY <1>2, <1>3 DEF IsList

(* One sequence after the other.                                            *)
LEMMA Joined ==
  ASSUME NEW s, NEW t, IsList(s), IsList(t)
  PROVE  /\ IsList(s \o t) /\ Len(s) \in Nat /\ Len(t) \in Nat
         /\ Len(s \o t) = Len(s) + Len(t)
         /\ \A k \in 1 .. Len(s) : (s \o t)[k] = s[k]
         /\ \A k \in 1 .. Len(t) : (s \o t)[Len(s) + k] = t[k]
         /\ \A k \in 1 .. Len(s \o t) : k \in 1 .. Len(s) \/ k - Len(s) \in 1 .. Len(t)
<1>1. PICK S : s \in Seq(S)
  BY DEF IsList
<1>2. PICK T : t \in Seq(T)
  BY DEF IsList
<1>3. s \in Seq(S \cup T) /\ t \in Seq(S \cup T)
  BY <1>1, <1>2
<1>4. s \o t \in Seq(S \cup T)
  BY <1>3
<1>5. \A k \in 1 .. Len(t) : (s \o t)[Len(s) + k] = t[k]
  <2> TAKE k \in 1 .. Len(t)
  <2>1. Len(s) + k \in 1 .. Len(s) + Len(t) /\ ~(Len(s) + k <= Len(s)) /\ (Len(s) + k) - Len(s) = k
    BY <1>3
  <2> QED
    BY <1>3, <2>1
<1> QED
  BY <1>3, <1>4, <1>5 DEF IsList

(* A sequence given by its elements.                                        *)
LEMMA Listed ==
  ASSUME NEW n \in Nat, NEW s, DOMAIN s = 1 .. n, s = [k \in 1 .. n |-> s[k]]
  PROVE  IsList(s) /\ Len(s) = n
<1> DEFINE S == {s[k] : k \in 1 .. n}
<1>1. s \in [1 .. n -> S]
  OBVIOUS
<1> HIDE DEF S
<1>2. s \in Seq(S)
  BY <1>1
<1> QED
  BY <1>2 DEF IsList

-----------------------------------------------------------------------------
(* The domains of a session.                                                *)

(* The probes of one native instance, in the order of its probe_info.       *)
LEMMA ProbesOfInstance ==
  ASSUME NEW o \in CoreInfo
  PROVE  /\ IsList(NativeProbes(o))
         /\ Len(NativeProbes(o)) = Len(o.probe_info)
         /\ \A p \in 1 .. Len(o.probe_info) :
              /\ NativeProbes(o)[p].index = o.probe_info[p].index + 1
              /\ NativeProbes(o)[p].inst = o.INDEX
<1> DEFINE n == Len(o.probe_info)
<1>1. n \in Nat /\ DOMAIN o.probe_info = 1 .. n
  BY DEF CoreInfo
<1> HIDE DEF n
<1>2. PICK f : /\ f[0] = [next |-> 1, probes |-> <<>>]
               /\ \A k \in 1 .. n : f[k] = AddProbe(f[k - 1], o.probe_info[k], o)
               /\ AddProbes(o) = f[n]
  BY <1>1, ProbesFold
<1> DEFINE Good(k) ==
      /\ IsList(f[k].probes)
      /\ Len(f[k].probes) = k
      /\ \A p \in 1 .. k : /\ f[k].probes[p].index = o.probe_info[p].index + 1
                           /\ f[k].probes[p].inst = o.INDEX
    Q == {k \in Nat : k <= n => Good(k)}
<1>3. 0 \in Q
  <2>1. IsList(<<>>)
    <3>1. <<>> \in Seq({})
      OBVIOUS
    <3> QED
      BY <3>1 DEF IsList
  <2> QED
    BY <1>2, <2>1
<1>4. ASSUME NEW k \in Nat, k \in Q
      PROVE  k + 1 \in Q
  <2> SUFFICES ASSUME k + 1 <= n
               PROVE  Good(k + 1)
    OBVIOUS
  <2>1. k + 1 \in 1 .. n /\ (k + 1) - 1 = k /\ Good(k)
    BY <1>1, <1>4
  <2>2. PICK x : /\ f[k + 1].probes = Append(f[k].probes, x)
                 /\ x.index = o.probe_info[k + 1].index + 1
                 /\ x.inst = o.INDEX
    <3>1. f[k + 1] = AddProbe(f[k], o.probe_info[k + 1], o)
      BY <1>2, <2>1
    <3> QED
      BY <3>1 DEF AddProbe
  <2>3. /\ IsList(f[k + 1].probes) /\ Len(f[k + 1].probes) = k + 1
        /\ \A p \in 1 .. k : f[k + 1].probes[p] = f[k].probes[p]
        /\ f[k + 1].probes[k + 1] = x
    BY <2>1, <2>2, Appended
  <2> QED
    BY <2>1, <2>2, <2>3
<1> HIDE DEF Q
<1>5. n \in Q
  BY <1>1, <1>3, <1>4, Induction
<1>6. Good(n)
  BY <1>1, <1>5 DEF Q
<1> QED
  BY <1>2, <1>6 DEF NativeProbes, n
-----------------------------------------------------------------------------
(* A domain: its probes are of its instances and, if no number comes twice, *)
(* have a number each.                                                      *)
DomainSound(d, json) ==
  /\ d = [ type |-> d.type, index |-> d.index, instances |-> d.instances,
           probes |-> d.probes ]
  /\ IsList(d.instances)
  /\ IsList(d.probes)
  /\ \A p \in 1 .. Len(d.probes) : \E i \in 1 .. Len(d.instances) :
       d.instances[i].index = d.probes[p].inst
  /\ ProbesNumberedOnce(json) =>
       \A p, q \in 1 .. Len(d.probes) : d.probes[p].index = d.probes[q].index => p = q

(* The number of a probe comes from one of the first k instances.           *)
Numbered(d, json, k) ==
  \A p \in 1 .. Len(d.probes) :
    \E j \in 1 .. k : \E r \in 1 .. Len(json.ocla[j].probe_info) :
      d.probes[p].index = json.ocla[j].probe_info[r].index + 1

(* No instance is twice in the lists a and b of domains.                    *)
Apart(a, b) ==
  \A m \in 1 .. Len(a), n \in 1 .. Len(b) :
    \A i \in 1 .. Len(a[m].instances), j \in 1 .. Len(b[n].instances) :
      a[m].instances[i].index # b[n].instances[j].index

Unique(a) ==
  \A m, n \in 1 .. Len(a) :
    \A i \in 1 .. Len(a[m].instances), j \in 1 .. Len(a[n].instances) :
      a[m].instances[i].index = a[n].instances[j].index => m = n /\ i = j

Within(a, seen) ==
  \A m \in 1 .. Len(a) : \A i \in 1 .. Len(a[m].instances) :
    a[m].instances[i].index \in seen

(* The first k instances are placed: in domains or, AXI, in axis.           *)
AllPlaced(domains, axis, seen, json, k) ==
  /\ IsList(domains) /\ IsList(axis)
  /\ \A m \in 1 .. Len(domains) :
       DomainSound(domains[m], json) /\ Numbered(domains[m], json, k) /\ domains[m].index = m
  /\ \A m \in 1 .. Len(axis) : DomainSound(axis[m], json)
  /\ Unique(domains) /\ Unique(axis) /\ Apart(domains, axis)
  /\ Within(domains, seen) /\ Within(axis, seen)

(* The empty list of instances or probes.                                   *)
LEMMA EmptyList == IsList(<<>>) /\ Len(<<>>) = 0
<1>1. <<>> \in Seq({})
  OBVIOUS
<1> QED
  BY <1>1 DEF IsList

(* A domain with other instances and probes.                                *)
LEMMA DomainExcept ==
  ASSUME NEW d, NEW a, NEW b,
         d = [ type |-> d.type, index |-> d.index, instances |-> d.instances,
               probes |-> d.probes ]
  PROVE  [[d EXCEPT !.instances = a] EXCEPT !.probes = b]
           = [type |-> d.type, index |-> d.index, instances |-> a, probes |-> b]
<1>1. ASSUME NEW e, e = [d EXCEPT !.instances = a]
      PROVE  e = [type |-> d.type, index |-> d.index, instances |-> a, probes |-> d.probes]
  BY <1>1
<1>2. ASSUME NEW e, NEW f, f = [e EXCEPT !.probes = b],
             e = [type |-> d.type, index |-> d.index, instances |-> a, probes |-> d.probes]
      PROVE  f = [type |-> d.type, index |-> d.index, instances |-> a, probes |-> b]
  BY <1>2
<1> QED
  BY <1>1, <1>2, Zenon

(* Probe numbers are numbers.                                               *)
LEMMA InfoNumber ==
  ASSUME NEW o \in CoreInfo, NEW r \in 1 .. Len(o.probe_info)
  PROVE  o.probe_info[r].index \in Nat
<1> DEFINE S == [index : Nat, offset : Nat, width : Nat]
           l == o.probe_info
<1>1. l \in Seq(S)
  BY DEF CoreInfo
<1> HIDE DEF l, S
<1>2. l[r] \in S
  BY <1>1 DEF l
<1> QED
  BY <1>2 DEF l, S

(* A domain of its own.                                                     *)
LEMMA NewDomain ==
  ASSUME NEW domains, NEW axis, NEW seen, NEW json, NEW k, AllPlaced(domains, axis, seen, json, k)
  PROVE  LET d == OclaDomain("native", Len(domains) + 1)
         IN  /\ AllPlaced(Append(domains, d), axis, seen, json, k)
             /\ Len(Append(domains, d)) # 0
<1> DEFINE d == OclaDomain("native", Len(domains) + 1)
           ds == Append(domains, d)
<1>1. /\ IsList(ds) /\ Len(domains) \in Nat
      /\ Len(ds) = Len(domains) + 1
      /\ \A m \in 1 .. Len(domains) : ds[m] = domains[m]
      /\ ds[Len(domains) + 1] = d
  BY Appended DEF AllPlaced
<1>2. DomainSound(d, json) /\ d.index = Len(domains) + 1 /\ Len(d.instances) = 0 /\ Len(d.probes) = 0
  BY EmptyList DEF DomainSound, OclaDomain
<1>3. \A m \in 1 .. Len(ds) : m \in 1 .. Len(domains) \/ m = Len(domains) + 1
  BY <1>1
<1> HIDE DEF ds, d
<1>4. \A m \in 1 .. Len(ds) :
        DomainSound(ds[m], json) /\ Numbered(ds[m], json, k) /\ ds[m].index = m
  <2>1. Numbered(d, json, k)
    BY <1>2 DEF Numbered
  <2>2. \A m \in 1 .. Len(domains) :
          DomainSound(domains[m], json) /\ Numbered(domains[m], json, k) /\ domains[m].index = m
    BY DEF AllPlaced
  <2> QED
    BY <1>1, <1>2, <1>3, <2>1, <2>2
<1>5. Unique(ds)
  <2>1. Unique(domains)
    BY DEF AllPlaced
  <2> SUFFICES ASSUME NEW m \in 1 .. Len(ds), NEW n \in 1 .. Len(ds),
                      NEW i \in 1 .. Len(ds[m].instances), NEW j \in 1 .. Len(ds[n].instances),
                      ds[m].instances[i].index = ds[n].instances[j].index
               PROVE  m = n /\ i = j
    BY DEF Unique
  <2>2. m # Len(domains) + 1 /\ n # Len(domains) + 1
    BY <1>1, <1>2
  <2>3. /\ m \in 1 .. Len(domains) /\ n \in 1 .. Len(domains)
        /\ ds[m] = domains[m] /\ ds[n] = domains[n]
    BY <1>1, <1>3, <2>2
  <2> QED
    BY <2>1, <2>3 DEF Unique
<1>6. Apart(ds, axis)
  BY <1>1, <1>2, <1>3 DEF AllPlaced, Apart
<1>7. Within(ds, seen)
  BY <1>1, <1>2, <1>3 DEF AllPlaced, Within
<1>8. AllPlaced(ds, axis, seen, json, k) /\ Len(ds) # 0
  BY <1>1, <1>4, <1>5, <1>6, <1>7 DEF AllPlaced
<1> QED
  BY <1>8 DEF ds, d

(* An instance joins the last domain.                                       *)
Join(domains, o) ==
  LET last == Len(domains)
  IN  [domains EXCEPT ![last].instances = Append(@, OclaInstance(o)),
                      ![last].probes = @ \o NativeProbes(o)]

(* The domain with the instance and its probes.                             *)
WithInstance(d, o) ==
  [ type |-> d.type, index |-> d.index,
    instances |-> Append(d.instances, OclaInstance(o)),
    probes |-> d.probes \o NativeProbes(o) ]

(* Only the last domain changes.                                            *)
LEMMA JoinIs ==
  ASSUME NEW domains, NEW o, NEW json, IsList(domains), Len(domains) # 0,
         DomainSound(domains[Len(domains)], json)
  PROVE  LET ds == Join(domains, o)
             last == Len(domains)
         IN  /\ IsList(ds) /\ Len(ds) = last
             /\ ds[last] = WithInstance(domains[last], o)
             /\ \A m \in 1 .. last : m # last => ds[m] = domains[m]
<1> DEFINE last == Len(domains)
           d == domains[last]
           e == WithInstance(d, o)
           ds == Join(domains, o)
<1>1. last \in 1 .. last /\ last \in Nat /\ DOMAIN domains = 1 .. last
  <2>1. PICK S : domains \in Seq(S)
    BY DEF IsList
  <2> QED
    BY <2>1
<1>2. d = [ type |-> d.type, index |-> d.index, instances |-> d.instances,
            probes |-> d.probes ]
  BY DEF DomainSound
<1>3. ds = [m \in 1 .. last |-> IF m = last THEN e ELSE domains[m]]
  <2> DEFINE a == Append(d.instances, OclaInstance(o))
             b == d.probes \o NativeProbes(o)
  <2>1. ds = [domains EXCEPT ![last].instances = a, ![last].probes = b]
    BY DEF Join
  <2> HIDE DEF a, b
  <2>2. e = [type |-> d.type, index |-> d.index, instances |-> a, probes |-> b]
    BY DEF a, b, WithInstance
  <2>3. [[d EXCEPT !.instances = a] EXCEPT !.probes = b] = e
    BY <1>2, <2>2, DomainExcept, Zenon
  <2> HIDE DEF e
  <2> QED
    BY <1>1, <2>1, <2>3
<1> HIDE DEF e, ds, d
<1>4. IsList(ds) /\ Len(ds) = last
  <2>1. DOMAIN ds = 1 .. last /\ ds = [m \in 1 .. last |-> ds[m]]
    BY <1>3
  <2> QED
    BY <1>1, <2>1, Listed
<1> QED
  BY <1>1, <1>3, <1>4 DEF ds, e, d

(* ... and its probes are told from those of the instances before it.       *)
LEMMA JoinDomain ==
  ASSUME NEW domains, NEW axis, NEW seen, NEW json, NEW k \in Nat,
         AllPlaced(domains, axis, seen, json, k), Len(domains) # 0,
         json.ocla \in Seq(CoreInfo), k + 1 <= Len(json.ocla),
         json.ocla[k + 1].INDEX \notin seen
  PROVE  /\ AllPlaced(Join(domains, json.ocla[k + 1]), axis,
                      seen \cup {json.ocla[k + 1].INDEX}, json, k + 1)
         /\ Len(Join(domains, json.ocla[k + 1])) # 0
<1> DEFINE o == json.ocla[k + 1]
           last == Len(domains)
           d == domains[last]
           e == [ type |-> d.type, index |-> d.index,
                  instances |-> Append(d.instances, OclaInstance(o)),
                  probes |-> d.probes \o NativeProbes(o) ]
           ds == Join(domains, o)
           more == seen \cup {o.INDEX}
           size == Len(d.instances)
<1>1. k + 1 \in 1 .. Len(json.ocla) /\ o \in CoreInfo
  OBVIOUS
<1>2. IsList(domains) /\ last \in 1 .. last /\ last \in Nat
  <2>1. PICK S : domains \in Seq(S)
    BY DEF AllPlaced, IsList
  <2> QED
    BY <2>1 DEF IsList
<1>3. DomainSound(d, json) /\ Numbered(d, json, k) /\ d.index = last
  BY <1>2 DEF AllPlaced
<1>4. e = WithInstance(d, o)
  BY DEF WithInstance
<1>5. /\ IsList(ds) /\ Len(ds) = last /\ ds[last] = e
      /\ \A m \in 1 .. last : m # last => ds[m] = domains[m]
  <2> HIDE DEF e
  <2> QED
    BY <1>2, <1>3, <1>4, JoinIs
<1>6. /\ IsList(e.instances) /\ size \in Nat /\ Len(e.instances) = size + 1
      /\ \A i \in 1 .. size : e.instances[i] = d.instances[i]
      /\ e.instances[size + 1] = OclaInstance(o)
      /\ \A i \in 1 .. size + 1 : i \in 1 .. size \/ i = size + 1
  BY <1>3, Appended DEF DomainSound
<1>7. OclaInstance(o).index = o.INDEX /\ o.INDEX \notin seen
  BY DEF OclaInstance
<1>8. DomainSound(e, json) /\ Numbered(e, json, k + 1)
  <2> DEFINE news == NativeProbes(o)
             old == Len(d.probes)
             infos == Len(o.probe_info)
             From(p, j) == \E r \in 1 .. Len(json.ocla[j].probe_info) :
                             e.probes[p].index = json.ocla[j].probe_info[r].index + 1
  <2>1. /\ IsList(news) /\ Len(news) = infos
        /\ \A p \in 1 .. infos : /\ news[p].index = o.probe_info[p].index + 1
                                 /\ news[p].inst = o.INDEX
    BY <1>1, ProbesOfInstance
  <2> HIDE DEF news
  <2>2. /\ IsList(d.probes) /\ IsList(e.probes) /\ old \in Nat /\ infos \in Nat
        /\ Len(e.probes) = old + infos
        /\ \A p \in 1 .. old : e.probes[p] = d.probes[p]
        /\ \A p \in 1 .. infos : e.probes[old + p] = news[p]
        /\ \A p \in 1 .. old + infos : p \in 1 .. old \/ p - old \in 1 .. infos
    <3>1. IsList(d.probes) /\ e.probes = d.probes \o news
      BY <1>3 DEF DomainSound, news
    <3> HIDE DEF e, d
    <3>2. /\ IsList(e.probes) /\ Len(d.probes) \in Nat /\ Len(news) \in Nat
          /\ Len(e.probes) = Len(d.probes) + Len(news)
          /\ \A p \in 1 .. Len(d.probes) : e.probes[p] = d.probes[p]
          /\ \A p \in 1 .. Len(news) : e.probes[Len(d.probes) + p] = news[p]
          /\ \A p \in 1 .. Len(e.probes) :
               p \in 1 .. Len(d.probes) \/ p - Len(d.probes) \in 1 .. Len(news)
      <4>1. \A s, t, u : IsList(s) /\ IsList(t) /\ u = s \o t =>
              /\ IsList(u) /\ Len(s) \in Nat /\ Len(t) \in Nat
              /\ Len(u) = Len(s) + Len(t)
              /\ \A p \in 1 .. Len(s) : u[p] = s[p]
              /\ \A p \in 1 .. Len(t) : u[Len(s) + p] = t[p]
              /\ \A p \in 1 .. Len(u) : p \in 1 .. Len(s) \/ p - Len(s) \in 1 .. Len(t)
        BY Joined
      <4>2. IsList(news)
        BY <2>1
      <4> QED
        BY <3>1, <4>1, <4>2, Zenon
    <3> QED
      BY <2>1, <3>1, <3>2
  <2> HIDE DEF e, d, old, infos, o
  <2>3. \A p \in 1 .. old + infos : p \notin 1 .. old =>
          \E r \in 1 .. infos : p = old + r /\ e.probes[p] = news[r]
    <3> TAKE p \in 1 .. old + infos
    <3> HAVE p \notin 1 .. old
    <3>1. p - old \in 1 .. infos /\ p = old + (p - old)
      BY <2>2
    <3> QED
      BY <2>2, <3>1
  <2>4. \A p \in 1 .. Len(e.probes) : \E i \in 1 .. Len(e.instances) :
          e.instances[i].index = e.probes[p].inst
    <3> TAKE p \in 1 .. Len(e.probes)
    <3>1. CASE p \in 1 .. old
      <4>1. PICK i \in 1 .. size : d.instances[i].index = d.probes[p].inst
        BY <1>3, <3>1 DEF DomainSound, old, size
      <4>2. i \in 1 .. Len(e.instances)
        BY <1>6
      <4> QED
        BY <1>6, <2>2, <3>1, <4>1, <4>2
    <3>2. CASE p \notin 1 .. old
      <4>1. e.probes[p].inst = o.INDEX
        BY <2>1, <2>2, <2>3, <3>2
      <4>2. size + 1 \in 1 .. Len(e.instances)
        BY <1>6
      <4> QED
        BY <1>6, <1>7, <4>1, <4>2
    <3> QED
      BY <3>1, <3>2
  <2>5. Numbered(e, json, k + 1)
    <3> SUFFICES ASSUME NEW p \in 1 .. Len(e.probes)
                 PROVE  \E j \in 1 .. k + 1 : From(p, j)
      BY DEF Numbered
    <3>1. CASE p \in 1 .. old
      <4>1. PICK j \in 1 .. k : \E r \in 1 .. Len(json.ocla[j].probe_info) :
              d.probes[p].index = json.ocla[j].probe_info[r].index + 1
        BY <1>3, <3>1 DEF Numbered, old
      <4>2. From(p, j) /\ j \in 1 .. k + 1
        BY <2>2, <3>1, <4>1
      <4> QED
        BY <4>2
    <3>2. CASE p \notin 1 .. old
      <4>1. PICK r \in 1 .. infos : e.probes[p] = news[r]
        BY <2>2, <2>3, <3>2
      <4>2. e.probes[p].index = json.ocla[k + 1].probe_info[r].index + 1
        BY <2>1, <4>1 DEF o
      <4>3. From(p, k + 1)
        BY <4>2 DEF infos, o
      <4> QED
        BY <4>3
    <3> QED
      BY <3>1, <3>2
  <2>6. ASSUME ProbesNumberedOnce(json), NEW p \in 1 .. Len(e.probes),
               NEW q \in 1 .. Len(e.probes), e.probes[p].index = e.probes[q].index
        PROVE  p = q
    <3>1. \A i, j \in 1 .. Len(json.ocla) : \A r \in 1 .. Len(json.ocla[i].probe_info),
             s \in 1 .. Len(json.ocla[j].probe_info) :
            json.ocla[i].probe_info[r].index + 1 = json.ocla[j].probe_info[s].index + 1
              => i = j /\ r = s
      <4> SUFFICES ASSUME NEW i \in 1 .. Len(json.ocla), NEW j \in 1 .. Len(json.ocla),
                          NEW r \in 1 .. Len(json.ocla[i].probe_info),
                          NEW s \in 1 .. Len(json.ocla[j].probe_info),
                          json.ocla[i].probe_info[r].index + 1
                            = json.ocla[j].probe_info[s].index + 1
                   PROVE  i = j /\ r = s
        OBVIOUS
      <4>1. json.ocla[i] \in CoreInfo /\ json.ocla[j] \in CoreInfo
        OBVIOUS
      <4>2. json.ocla[i].probe_info[r].index \in Nat /\ json.ocla[j].probe_info[s].index \in Nat
        <5>1. \A c \in CoreInfo : \A x \in 1 .. Len(c.probe_info) :
                c.probe_info[x].index \in Nat
          BY InfoNumber
        <5>2. r \in 1 .. Len(json.ocla[i].probe_info) /\ s \in 1 .. Len(json.ocla[j].probe_info)
          OBVIOUS
        <5> HIDE DEF o
        <5> QED
          BY <4>1, <5>1, <5>2, Zenon
      <4>3. json.ocla[i].probe_info[r].index = json.ocla[j].probe_info[s].index
        <5>1. \A x, y \in Nat : x + 1 = y + 1 => x = y
          OBVIOUS
        <5> QED
          BY <4>2, <5>1, Zenon
      <4> QED
        BY <2>6, <4>3 DEF ProbesNumberedOnce
    <3>2. ASSUME NEW x \in 1 .. old, NEW r \in 1 .. infos,
                 d.probes[x].index = news[r].index
          PROVE  FALSE
      <4>1. PICK j \in 1 .. k : \E s \in 1 .. Len(json.ocla[j].probe_info) :
              d.probes[x].index = json.ocla[j].probe_info[s].index + 1
        BY <1>3 DEF Numbered, old
      <4>2. j \in 1 .. Len(json.ocla) /\ j # k + 1
        BY <1>1
      <4>3. r \in 1 .. Len(json.ocla[k + 1].probe_info)
        BY DEF o, infos
      <4>4. news[r].index = json.ocla[k + 1].probe_info[r].index + 1
        BY <2>1 DEF o
      <4>5. PICK s \in 1 .. Len(json.ocla[j].probe_info) :
              d.probes[x].index = json.ocla[j].probe_info[s].index + 1
        BY <4>1
      <4>6. json.ocla[j].probe_info[s].index + 1 = json.ocla[k + 1].probe_info[r].index + 1
        BY <3>2, <4>4, <4>5
      <4> QED
        BY <1>1, <3>1, <4>2, <4>3, <4>6
    <3>3. CASE p \in 1 .. old /\ q \in 1 .. old
      <4>1. d.probes[p].index = d.probes[q].index
        BY <2>2, <2>6, <3>3
      <4> QED
        BY <1>3, <2>6, <3>3, <4>1 DEF DomainSound, old
    <3>4. CASE p \in 1 .. old /\ q \notin 1 .. old
      <4>1. PICK r \in 1 .. infos : e.probes[q] = news[r]
        BY <2>2, <2>3, <3>4
      <4> QED
        BY <2>2, <2>6, <3>2, <3>4, <4>1
    <3>5. CASE p \notin 1 .. old /\ q \in 1 .. old
      <4>1. PICK r \in 1 .. infos : e.probes[p] = news[r]
        BY <2>2, <2>3, <3>5
      <4> QED
        BY <2>2, <2>6, <3>2, <3>5, <4>1
    <3>6. CASE p \notin 1 .. old /\ q \notin 1 .. old
      <4>1. PICK r \in 1 .. infos : p = old + r /\ e.probes[p] = news[r]
        BY <2>2, <2>3, <3>6
      <4>2. PICK s \in 1 .. infos : q = old + s /\ e.probes[q] = news[s]
        BY <2>2, <2>3, <3>6
      <4>3. o.probe_info[r].index + 1 = o.probe_info[s].index + 1
        BY <2>1, <2>6, <4>1, <4>2
      <4>4. r = s
        BY <1>1, <3>1, <4>3 DEF o, infos
      <4> QED
        BY <4>1, <4>2, <4>4
    <3> QED
      BY <3>3, <3>4, <3>5, <3>6
  <2>7. e = [type |-> e.type, index |-> e.index, instances |-> e.instances, probes |-> e.probes]
    BY DEF e
  <2> QED
    BY <1>6, <2>2, <2>4, <2>5, <2>6, <2>7 DEF DomainSound
<1>9. e.index = last
  BY <1>3
<1> HIDE DEF e, ds, o, d, more
<1>10. ASSUME NEW m \in 1 .. Len(ds)
       PROVE  DomainSound(ds[m], json) /\ Numbered(ds[m], json, k + 1) /\ ds[m].index = m
  <2>1. CASE m = last
    BY <1>5, <1>8, <1>9, <2>1
  <2>2. CASE m # last
    <3>1. ds[m] = domains[m] /\ m \in 1 .. last
      BY <1>5, <2>2
    <3>2. DomainSound(ds[m], json) /\ Numbered(ds[m], json, k) /\ ds[m].index = m
      BY <3>1 DEF AllPlaced
    <3>3. 1 .. k \subseteq 1 .. k + 1
      OBVIOUS
    <3> QED
      BY <3>2, <3>3 DEF Numbered
  <2> QED
    BY <2>1, <2>2
(* An instance of the new list is an old one or the new one.                *)
<1>11. ASSUME NEW m \in 1 .. Len(ds), NEW i \in 1 .. Len(ds[m].instances)
       PROVE  \/ /\ m \in 1 .. Len(domains) /\ i \in 1 .. Len(domains[m].instances)
                 /\ ds[m].instances[i] = domains[m].instances[i]
              \/ m = last /\ i = size + 1 /\ ds[m].instances[i].index = o.INDEX
  <2>1. CASE m # last
    BY <1>5, <2>1
  <2>2. CASE m = last
    BY <1>2, <1>5, <1>6, <1>7, <2>2 DEF d
  <2> QED
    BY <2>1, <2>2
<1>12. /\ Unique(domains) /\ Unique(axis) /\ Apart(domains, axis)
       /\ Within(domains, seen) /\ Within(axis, seen) /\ IsList(axis)
       /\ \A m \in 1 .. Len(axis) : DomainSound(axis[m], json)
  BY DEF AllPlaced
<1> DEFINE Old(m, i) ==
      /\ m \in 1 .. Len(domains) /\ i \in 1 .. Len(domains[m].instances)
      /\ ds[m].instances[i] = domains[m].instances[i]
      New(m, i) == m = last /\ i = size + 1 /\ ds[m].instances[i].index = o.INDEX
<1>13. Unique(ds)
  <2> SUFFICES ASSUME NEW m \in 1 .. Len(ds), NEW n \in 1 .. Len(ds),
                      NEW i \in 1 .. Len(ds[m].instances), NEW j \in 1 .. Len(ds[n].instances),
                      ds[m].instances[i].index = ds[n].instances[j].index
               PROVE  m = n /\ i = j
    BY DEF Unique
  <2>1. (Old(m, i) \/ New(m, i)) /\ (Old(n, j) \/ New(n, j))
    BY <1>11
  <2>2. ~(Old(m, i) /\ New(n, j)) /\ ~(New(m, i) /\ Old(n, j))
    BY <1>7, <1>12 DEF Within
  <2>3. CASE Old(m, i) /\ Old(n, j)
    <3>1. domains[m].instances[i].index = domains[n].instances[j].index
      BY <2>3
    <3> QED
      BY <1>12, <2>3, <3>1 DEF Unique
  <2> QED
    BY <2>1, <2>2, <2>3
<1>14. Apart(ds, axis)
  <2> SUFFICES ASSUME NEW m \in 1 .. Len(ds), NEW n \in 1 .. Len(axis),
                      NEW i \in 1 .. Len(ds[m].instances), NEW j \in 1 .. Len(axis[n].instances)
               PROVE  ds[m].instances[i].index # axis[n].instances[j].index
    BY DEF Apart
  <2>1. Old(m, i) \/ New(m, i)
    BY <1>11
  <2>2. CASE Old(m, i)
    BY <1>12, <2>2 DEF Apart
  <2>3. CASE New(m, i)
    BY <1>7, <1>12, <2>3 DEF Within
  <2> QED
    BY <2>1, <2>2, <2>3
<1>15. Within(ds, more) /\ Within(axis, more)
  BY <1>11, <1>12 DEF Within, more
<1>16. Len(ds) # 0
  BY <1>5 DEF last
<1> QED
  BY <1>5, <1>10, <1>12, <1>13, <1>14, <1>15, <1>16 DEF AllPlaced, ds, o, more
(* An AXI instance waits.                                                   *)
LEMMA DeferDomain ==
  ASSUME NEW domains, NEW axis, NEW seen, NEW json, NEW k \in Nat, NEW o,
         AllPlaced(domains, axis, seen, json, k), o.INDEX \notin seen
  PROVE  AllPlaced(domains, Append(axis, AxiDomain(o)), seen \cup {o.INDEX}, json, k + 1)
<1> DEFINE d == AxiDomain(o)
           as == Append(axis, d)
           size == Len(axis)
           more == seen \cup {o.INDEX}
<1>1. /\ IsList(as) /\ size \in Nat /\ Len(as) = size + 1
      /\ \A m \in 1 .. size : as[m] = axis[m]
      /\ as[size + 1] = d
      /\ \A m \in 1 .. size + 1 : m \in 1 .. size \/ m = size + 1
  BY Appended DEF AllPlaced
<1>2. /\ DomainSound(d, json) /\ Len(d.instances) = 1
      /\ d.instances[1].index = o.INDEX
  <2>1. \A x : IsList(<<x>>) /\ Len(<<x>>) = 1 /\ <<x>>[1] = x
    <3> TAKE x
    <3>1. <<x>> \in Seq({x})
      OBVIOUS
    <3> QED
      BY <3>1 DEF IsList
  <2>2. /\ d.instances = <<OclaInstance(o)>> /\ OclaInstance(o).index = o.INDEX
        /\ d = [type |-> d.type, index |-> d.index, instances |-> d.instances, probes |-> d.probes]
    BY DEF AxiDomain, OclaInstance
  <2>3. PICK x : d.probes = <<x>> /\ x.inst = o.INDEX
    BY DEF AxiDomain
  <2> HIDE DEF d
  <2> QED
    BY <2>1, <2>2, <2>3 DEF DomainSound
<1> HIDE DEF d, as, more
<1>3. /\ Unique(domains) /\ Unique(axis) /\ Apart(domains, axis)
      /\ Within(domains, seen) /\ Within(axis, seen) /\ IsList(domains)
      /\ \A m \in 1 .. Len(axis) : DomainSound(axis[m], json)
      /\ \A m \in 1 .. Len(domains) :
           DomainSound(domains[m], json) /\ Numbered(domains[m], json, k) /\ domains[m].index = m
  BY DEF AllPlaced
<1>4. \A m \in 1 .. Len(domains) : Numbered(domains[m], json, k + 1)
  <2>1. 1 .. k \subseteq 1 .. k + 1
    OBVIOUS
  <2> QED
    <3> TAKE m \in 1 .. Len(domains)
    <3>1. Numbered(domains[m], json, k)
      BY <1>3
    <3> QED
      BY <2>1, <3>1 DEF Numbered
<1>5. \A m \in 1 .. Len(as) : DomainSound(as[m], json)
  BY <1>1, <1>2, <1>3
<1> DEFINE Old(m, i) ==
      /\ m \in 1 .. Len(axis) /\ i \in 1 .. Len(axis[m].instances)
      /\ as[m].instances[i] = axis[m].instances[i]
      New(m, i) == m = size + 1 /\ i = 1 /\ as[m].instances[i].index = o.INDEX
<1>6. \A m \in 1 .. Len(as) : \A i \in 1 .. Len(as[m].instances) : Old(m, i) \/ New(m, i)
  <2> TAKE m \in 1 .. Len(as)
  <2> TAKE i \in 1 .. Len(as[m].instances)
  <2>1. CASE m \in 1 .. size
    BY <1>1, <2>1
  <2>2. CASE m = size + 1
    <3>1. as[m] = d
      BY <1>1, <2>2
    <3> QED
      BY <1>2, <2>2, <3>1
  <2> QED
    BY <1>1, <2>1, <2>2
<1>7. Unique(as)
  <2> SUFFICES ASSUME NEW m \in 1 .. Len(as), NEW n \in 1 .. Len(as),
                      NEW i \in 1 .. Len(as[m].instances), NEW j \in 1 .. Len(as[n].instances),
                      as[m].instances[i].index = as[n].instances[j].index
               PROVE  m = n /\ i = j
    BY DEF Unique
  <2>1. (Old(m, i) \/ New(m, i)) /\ (Old(n, j) \/ New(n, j))
    BY <1>6
  <2>2. ~(Old(m, i) /\ New(n, j)) /\ ~(New(m, i) /\ Old(n, j))
    BY <1>3 DEF Within
  <2>3. CASE Old(m, i) /\ Old(n, j)
    BY <1>3, <2>3 DEF Unique
  <2> QED
    BY <2>1, <2>2, <2>3
<1>8. Apart(domains, as)
  <2> SUFFICES ASSUME NEW m \in 1 .. Len(domains), NEW n \in 1 .. Len(as),
                      NEW i \in 1 .. Len(domains[m].instances), NEW j \in 1 .. Len(as[n].instances)
               PROVE  domains[m].instances[i].index # as[n].instances[j].index
    BY DEF Apart
  <2>1. Old(n, j) \/ New(n, j)
    BY <1>6
  <2>2. CASE Old(n, j)
    BY <1>3, <2>2 DEF Apart
  <2>3. CASE New(n, j)
    BY <1>3, <2>3 DEF Within
  <2> QED
    BY <2>1, <2>2, <2>3
<1>9. Within(domains, more)
  BY <1>3 DEF Within, more
<1>10. Within(as, more)
  BY <1>3, <1>6 DEF Within, more
<1>11. AllPlaced(domains, as, more, json, k + 1)
  BY <1>1, <1>3, <1>4, <1>5, <1>7, <1>8, <1>9, <1>10 DEF AllPlaced
<1> QED
  BY <1>11 DEF as, d, more

(* SessionIsSound, of a list of domains.                                    *)
DomainsSound(ds) ==
    /\ \A m \in 1 .. Len(ds) : ds[m].index = m
    /\ \A m, n \in 1 .. Len(ds) :
         \A j \in 1 .. Len(ds[m].instances), k \in 1 .. Len(ds[n].instances) :
           ds[m].instances[j].index = ds[n].instances[k].index => m = n /\ j = k
    /\ \A m \in 1 .. Len(ds) : \A p \in 1 .. Len(ds[m].probes) :
         \E k \in 1 .. Len(ds[m].instances) :
           ds[m].instances[k].index = ds[m].probes[p].inst
    /\ (\A json \in Design : ProbesNumberedOnce(json)) =>
         \A m \in 1 .. Len(ds) : \A p, q \in 1 .. Len(ds[m].probes) :
           ds[m].probes[p].index = ds[m].probes[q].index => p = q

(* The domains of a session, the AXI ones at the bottom.                    *)
OneOfEither(a, b, ds) ==
  \A m \in 1 .. Len(ds) :
    \/ m \in 1 .. Len(a) /\ ds[m] = a[m]
    \/ \E n \in 1 .. Len(b) : /\ m = Len(a) + n /\ ds[m].index = m
                              /\ ds[m].instances = b[n].instances
                              /\ ds[m].probes = b[n].probes

(* Deferred only renumbers the AXI domains and appends them.                *)
LEMMA Gathered ==
  ASSUME NEW acc, NEW seen, NEW json, NEW k, AllPlaced(acc.domains, acc.deferred, seen, json, k)
  PROVE  OneOfEither(acc.domains, acc.deferred, acc.domains \o Deferred(acc))
<1> DEFINE a == acc.domains
           b == acc.deferred
           c == Deferred(acc)
           ds == a \o c
<1>1. IsList(a) /\ IsList(b) /\ Len(b) \in Nat /\ Len(a) \in Nat
  BY Appended DEF AllPlaced
<1>2. /\ IsList(c) /\ Len(c) = Len(b)
      /\ \A m \in 1 .. Len(b) : c[m] = [b[m] EXCEPT !.index = Len(a) + m]
  <2>1. c = [m \in 1 .. Len(b) |-> [b[m] EXCEPT !.index = Len(a) + m]]
    BY DEF Deferred
  <2> HIDE DEF c, a
  <2>2. DOMAIN c = 1 .. Len(b) /\ c = [m \in 1 .. Len(b) |-> c[m]]
    BY <2>1
  <2> QED
    BY <1>1, <2>1, <2>2, Listed
<1>3. \A m \in 1 .. Len(b) : /\ c[m].index = Len(a) + m
                             /\ c[m].instances = b[m].instances
                             /\ c[m].probes = b[m].probes
  <2> TAKE m \in 1 .. Len(b)
  <2>1. DomainSound(b[m], json)
    BY DEF AllPlaced
  <2>2. ASSUME NEW x, NEW y, NEW v, y = [x EXCEPT !.index = v],
               x = [type |-> x.type, index |-> x.index, instances |-> x.instances,
                    probes |-> x.probes]
        PROVE  y.index = v /\ y.instances = x.instances /\ y.probes = x.probes
    BY <2>2
  <2>3. b[m] = [type |-> b[m].type, index |-> b[m].index, instances |-> b[m].instances,
                probes |-> b[m].probes]
    BY <2>1 DEF DomainSound
  <2>4. c[m] = [b[m] EXCEPT !.index = Len(a) + m]
    BY <1>2
  <2> QED
    BY <2>2, <2>3, <2>4, Zenon
<1> HIDE DEF a, b, c
<1>4. /\ IsList(ds) /\ Len(ds) = Len(a) + Len(c)
      /\ \A m \in 1 .. Len(a) : ds[m] = a[m]
      /\ \A m \in 1 .. Len(c) : ds[Len(a) + m] = c[m]
      /\ \A m \in 1 .. Len(ds) : m \in 1 .. Len(a) \/ m - Len(a) \in 1 .. Len(c)
  BY <1>1, <1>2, Joined
<1> HIDE DEF ds
<1>5. ASSUME NEW m \in 1 .. Len(ds), m \notin 1 .. Len(a)
      PROVE  \E n \in 1 .. Len(b) : /\ m = Len(a) + n /\ ds[m].index = m
                                    /\ ds[m].instances = b[n].instances
                                    /\ ds[m].probes = b[n].probes
  <2>1. m - Len(a) \in 1 .. Len(b) /\ m = Len(a) + (m - Len(a))
    BY <1>1, <1>2, <1>4, <1>5
  <2>2. PICK n \in 1 .. Len(b) : m = Len(a) + n
    BY <2>1
  <2>3. ds[m] = c[n]
    BY <1>2, <1>4, <2>2
  <2> QED
    BY <1>3, <2>2, <2>3
<1>6. OneOfEither(a, b, ds)
  BY <1>4, <1>5 DEF OneOfEither
<1> QED
  BY <1>6 DEF ds, a, b, c

(* The AXI domains at the bottom of the list: the session.                  *)
LEMMA AllTogether ==
  ASSUME NEW acc, NEW seen, NEW json, NEW k,
         AllPlaced(acc.domains, acc.deferred, seen, json, k),
         (\A j \in Design : ProbesNumberedOnce(j)) => ProbesNumberedOnce(json)
  PROVE  DomainsSound(acc.domains \o Deferred(acc))
<1> DEFINE a == acc.domains
           b == acc.deferred
           c == Deferred(acc)
           ds == a \o c
<1>1. IsList(a) /\ IsList(b) /\ Len(b) \in Nat /\ Len(a) \in Nat
  BY Appended DEF AllPlaced
<1>4. \A m \in 1 .. Len(a) : DomainSound(a[m], json) /\ a[m].index = m
  BY DEF AllPlaced
<1>3. \A m \in 1 .. Len(b) : DomainSound(b[m], json)
  BY DEF AllPlaced
<1>5. Unique(a) /\ Unique(b) /\ Apart(a, b)
  BY DEF AllPlaced
<1>6. OneOfEither(a, b, ds)
  BY Gathered
<1> HIDE DEF ds, a, b, c
<1> DEFINE InA(m) == m \in 1 .. Len(a) /\ ds[m] = a[m]
           InB(m, n) == /\ n \in 1 .. Len(b) /\ m = Len(a) + n
                        /\ ds[m].instances = b[n].instances /\ ds[m].probes = b[n].probes
<1>7. ASSUME NEW m \in 1 .. Len(ds)
      PROVE  (\E n \in 1 .. Len(b) : InB(m, n) /\ DomainSound(b[n], json) /\ ds[m].index = m)
               \/ (InA(m) /\ DomainSound(a[m], json) /\ ds[m].index = m)
  BY <1>3, <1>4, <1>6 DEF OneOfEither
<1>8. \A m, n \in 1 .. Len(ds) :
        \A j \in 1 .. Len(ds[m].instances), i \in 1 .. Len(ds[n].instances) :
          ds[m].instances[j].index = ds[n].instances[i].index => m = n /\ j = i
  <2> SUFFICES ASSUME NEW m \in 1 .. Len(ds), NEW n \in 1 .. Len(ds),
                      NEW j \in 1 .. Len(ds[m].instances), NEW i \in 1 .. Len(ds[n].instances),
                      ds[m].instances[j].index = ds[n].instances[i].index
               PROVE  m = n /\ j = i
    OBVIOUS
  <2>1. CASE InA(m) /\ InA(n)
    BY <1>5, <2>1 DEF Unique
  <2>2. CASE InA(m) /\ \E y \in 1 .. Len(b) : InB(n, y)
    BY <1>5, <2>2 DEF Apart
  <2>3. CASE (\E x \in 1 .. Len(b) : InB(m, x)) /\ InA(n)
    BY <1>5, <2>3 DEF Apart
  <2>4. CASE (\E x \in 1 .. Len(b) : InB(m, x)) /\ \E y \in 1 .. Len(b) : InB(n, y)
    <3>1. PICK x \in 1 .. Len(b) : InB(m, x)
      BY <2>4
    <3>2. PICK y \in 1 .. Len(b) : InB(n, y)
      BY <2>4
    <3>3. x = y /\ j = i
      BY <1>5, <3>1, <3>2 DEF Unique
    <3> QED
      BY <3>1, <3>2, <3>3
  <2> QED
    BY <1>7, <2>1, <2>2, <2>3, <2>4
<1>9. ASSUME NEW m \in 1 .. Len(ds)
      PROVE  /\ \A p \in 1 .. Len(ds[m].probes) : \E i \in 1 .. Len(ds[m].instances) :
                  ds[m].instances[i].index = ds[m].probes[p].inst
             /\ ProbesNumberedOnce(json) =>
                  \A p, q \in 1 .. Len(ds[m].probes) :
                    ds[m].probes[p].index = ds[m].probes[q].index => p = q
  <2>1. PICK d : DomainSound(d, json) /\ ds[m].instances = d.instances /\ ds[m].probes = d.probes
    BY <1>7
  <2> QED
    BY <2>1 DEF DomainSound
<1>10. DomainsSound(ds)
  BY <1>7, <1>8, <1>9 DEF DomainsSound
<1> QED
  BY <1>10 DEF ds, a, c
(* What parse_ocla keeps while it goes through the instances.               *)
AccSound(a, single, json, k) ==
  /\ a = [ ok |-> a.ok, indexes |-> a.indexes, sum |-> a.sum,
           deferred |-> a.deferred, domains |-> a.domains ]
  /\ a.ok \in BOOLEAN
  /\ a.ok => /\ AllPlaced(a.domains, a.deferred, a.indexes, json, k)
             /\ single => Len(a.domains) # 0

(* A native instance is placed.                                             *)
LEMMA PlaceNativeSound ==
  ASSUME NEW domains, NEW axis, NEW seen, NEW json, NEW k \in Nat, NEW single \in BOOLEAN,
         AllPlaced(domains, axis, seen, json, k), single => Len(domains) # 0,
         json.ocla \in Seq(CoreInfo), k + 1 <= Len(json.ocla),
         json.ocla[k + 1].INDEX \notin seen
  PROVE  /\ AllPlaced(PlaceNative(domains, json.ocla[k + 1], single), axis,
                      seen \cup {json.ocla[k + 1].INDEX}, json, k + 1)
         /\ Len(PlaceNative(domains, json.ocla[k + 1], single)) # 0
<1> DEFINE o == json.ocla[k + 1]
           ds == IF single THEN domains
                 ELSE Append(domains, OclaDomain("native", Len(domains) + 1))
<1>1. AllPlaced(ds, axis, seen, json, k) /\ Len(ds) # 0
  <2>1. CASE single
    BY <2>1
  <2>2. CASE ~single
    BY <2>2, NewDomain
  <2> QED
    BY <2>1, <2>2
<1>2. PlaceNative(domains, o, single) = Join(ds, o)
  BY DEF PlaceNative, Join
<1> HIDE DEF ds
<1>3. /\ AllPlaced(Join(ds, json.ocla[k + 1]), axis, seen \cup {json.ocla[k + 1].INDEX}, json, k + 1)
      /\ Len(Join(ds, json.ocla[k + 1])) # 0
  BY <1>1, JoinDomain
<1> QED
  BY <1>2, <1>3

(* One more instance.                                                       *)
LEMMA AddInstanceSound ==
  ASSUME NEW acc, NEW json, NEW k \in Nat, NEW single \in BOOLEAN,
         AccSound(acc, single, json, k),
         json.ocla \in Seq(CoreInfo), k + 1 <= Len(json.ocla)
  PROVE  AccSound(AddInstance(acc, json.ocla[k + 1], single), single, json, k + 1)
<1> DEFINE o == json.ocla[k + 1]
           new == AddInstance(acc, o, single)
           more == acc.indexes \cup {o.INDEX}
           sum == acc.sum + o.NO_OF_PROBES
           seen == [acc EXCEPT !.indexes = @ \cup {o.INDEX}, !.sum = @ + o.NO_OF_PROBES]
           axis == Append(acc.deferred, AxiDomain(o))
           placed == PlaceNative(acc.domains, o, single)
<1>1. CASE ~acc.ok
  <2>1. new = acc
    BY <1>1 DEF AddInstance
  <2> QED
    BY <1>1, <2>1 DEF AccSound
<1>2. CASE acc.ok /\ ~InstanceFits(acc, o)
  <2>1. new = [acc EXCEPT !.ok = FALSE]
    BY <1>2 DEF AddInstance
  <2> HIDE DEF new
  <2>2. new.ok = FALSE /\ new = [ ok |-> new.ok, indexes |-> new.indexes, sum |-> new.sum,
                          deferred |-> new.deferred, domains |-> new.domains ]
    BY <2>1 DEF AccSound
  <2> QED
    BY <2>2 DEF AccSound, new
<1>3. CASE acc.ok /\ InstanceFits(acc, o)
  <2>1. AllPlaced(acc.domains, acc.deferred, acc.indexes, json, k) /\ (single => Len(acc.domains) # 0)
    BY <1>3 DEF AccSound
  <2>2. o.INDEX \notin acc.indexes
    BY <1>3 DEF InstanceFits
  <2>3. seen = [ ok |-> acc.ok, indexes |-> more, sum |-> sum,
                 deferred |-> acc.deferred, domains |-> acc.domains ]
    <3>1. ASSUME NEW x, x = [acc EXCEPT !.indexes = more, !.sum = sum]
          PROVE  x = [ ok |-> acc.ok, indexes |-> more, sum |-> sum,
                       deferred |-> acc.deferred, domains |-> acc.domains ]
      <4> HIDE DEF more, sum
      <4> QED
        BY <3>1 DEF AccSound
    <3>2. seen = [acc EXCEPT !.indexes = more, !.sum = sum]
      OBVIOUS
    <3> QED
      BY <3>1, <3>2, Zenon
  <2> HIDE DEF seen
  <2>4. CASE o.probe_info = <<>>
    <3>1. new = [seen EXCEPT !.deferred = Append(@, AxiDomain(o))]
      BY <1>3, <2>4 DEF AddInstance, seen
    <3> DEFINE end == [ ok |-> acc.ok, indexes |-> more, sum |-> sum,
                        deferred |-> axis, domains |-> acc.domains ]
    <3>2. new = end
      <4>1. new = [seen EXCEPT !.deferred = axis]
        BY <2>3, <3>1
      <4> HIDE DEF new, axis, more, sum
      <4> QED
        BY <2>3, <4>1
    <3>3. AllPlaced(acc.domains, axis, more, json, k + 1)
      BY <2>1, <2>2, DeferDomain
    <3>4. AccSound(end, single, json, k + 1)
      <4> HIDE DEF axis, more, sum
      <4> QED
        BY <1>3, <2>1, <3>3 DEF AccSound
    <3> QED
      BY <3>2, <3>4
  <2>5. CASE o.probe_info # <<>>
    <3>1. new = [seen EXCEPT !.domains = PlaceNative(@, o, single)]
      BY <1>3, <2>5 DEF AddInstance, seen
    <3> DEFINE end == [ ok |-> acc.ok, indexes |-> more, sum |-> sum,
                        deferred |-> acc.deferred, domains |-> placed ]
    <3>2. new = end
      <4>1. new = [seen EXCEPT !.domains = placed]
        BY <2>3, <3>1
      <4> HIDE DEF new, placed, more, sum
      <4> QED
        BY <2>3, <4>1
    <3>3. AllPlaced(placed, acc.deferred, more, json, k + 1) /\ Len(placed) # 0
      BY <2>1, <2>2, PlaceNativeSound
    <3>4. AccSound(end, single, json, k + 1)
      <4> HIDE DEF placed, more, sum
      <4> QED
        BY <1>3, <2>1, <3>3 DEF AccSound
    <3> QED
      BY <3>2, <3>4
  <2> QED
    BY <2>4, <2>5
<1> QED
  BY <1>1, <1>2, <1>3 DEF AccSound

(* parse_ocla starts with no instance.                                      *)
LEMMA NoInstanceSound ==
  ASSUME NEW json, NEW single \in BOOLEAN
  PROVE  AccSound(NoInstance(single), single, json, 0)
<1> DEFINE d == OclaDomain("native", 1)
           a == NoInstance(single)
<1>1. d.index = 1 /\ DomainSound(d, json) /\ Numbered(d, json, 0) /\ Len(d.instances) = 0
  BY EmptyList DEF DomainSound, Numbered, OclaDomain
<1>2. /\ a = [ ok |-> TRUE, indexes |-> {}, sum |-> 0, deferred |-> <<>>, domains |-> a.domains ]
      /\ a.domains = IF single THEN <<d>> ELSE <<>>
  BY DEF NoInstance
<1> HIDE DEF d, a
<1>3. IsList(<<d>>) /\ Len(<<d>>) = 1 /\ <<d>>[1] = d
  <2>1. <<d>> \in Seq({d})
    OBVIOUS
  <2> QED
    BY <2>1 DEF IsList
<1>4. AllPlaced(a.domains, <<>>, {}, json, 0) /\ (single => Len(a.domains) # 0)
  <2>1. CASE single
    BY <1>1, <1>2, <1>3, <2>1, EmptyList DEF AllPlaced, Unique, Apart, Within
  <2>2. CASE ~single
    BY <1>2, <2>2, EmptyList DEF AllPlaced, Unique, Apart, Within
  <2> QED
    BY <2>1, <2>2
<1>5. AccSound(a, single, json, 0)
  <2>1. a.ok = TRUE /\ a.indexes = {} /\ a.sum = 0 /\ a.deferred = <<>>
    BY <1>2
  <2>2. a = [ ok |-> a.ok, indexes |-> a.indexes, sum |-> a.sum, deferred |-> a.deferred,
              domains |-> a.domains ]
    BY <1>2, <2>1, Zenon
  <2> QED
    BY <1>4, <2>1, <2>2 DEF AccSound
<1> QED
  BY <1>5 DEF a

(* OclaDebugSession::parse_ocla.                                            *)
LEMMA ParsedOclaSound ==
  ASSUME NEW json, json.ocla \in Seq(CoreInfo), parse_ocla(json).status = "ok",
         (\A j \in Design : ProbesNumberedOnce(j)) => ProbesNumberedOnce(json)
  PROVE  DomainsSound(parse_ocla(json).domains)
<1> DEFINE single == json.ocla_debug_subsystem.Sampling_Clk = "SINGLE"
           n == Len(json.ocla)
           acc == AddInstances(json.ocla, single)
<1>1. acc.ok /\ parse_ocla(json).domains = acc.domains \o Deferred(acc)
  BY DEF parse_ocla
<1>2. n \in Nat /\ DOMAIN json.ocla = 1 .. n /\ single \in BOOLEAN
  OBVIOUS
<1> HIDE DEF single
<1>3. PICK f : /\ f[0] = NoInstance(single)
               /\ \A k \in 1 .. n : f[k] = AddInstance(f[k - 1], json.ocla[k], single)
               /\ acc = f[n]
  <2> HIDE DEF n
  <2> QED
    BY <1>2, InstancesFold
<1> DEFINE Q == {k \in Nat : k <= n => AccSound(f[k], single, json, k)}
<1>4. 0 \in Q
  BY <1>2, <1>3, NoInstanceSound
<1>5. ASSUME NEW k \in Nat, k \in Q
      PROVE  k + 1 \in Q
  <2> SUFFICES ASSUME k + 1 <= n
               PROVE  AccSound(f[k + 1], single, json, k + 1)
    OBVIOUS
  <2>1. k + 1 \in 1 .. n /\ (k + 1) - 1 = k /\ AccSound(f[k], single, json, k)
    BY <1>2, <1>5
  <2>2. f[k + 1] = AddInstance(f[k], json.ocla[k + 1], single)
    BY <1>3, <2>1
  <2> QED
    BY <1>2, <2>1, <2>2, AddInstanceSound
<1> HIDE DEF Q
<1>6. n \in Q
  BY <1>2, <1>4, <1>5, Induction
<1>7. AccSound(acc, single, json, n)
  BY <1>2, <1>3, <1>6 DEF Q
<1> HIDE DEF acc, n
<1>8. AllPlaced(acc.domains, acc.deferred, acc.indexes, json, n)
  BY <1>1, <1>7 DEF AccSound
<1> QED
  BY <1>1, <1>8, AllTogether
-----------------------------------------------------------------------------
(* set_io and the outputs it does not name.                                 *)

Core == [prs : {"in", "out"}, inputs : Inputs, outputs : SUBSET AllBits]

(* The words before word n.                                                 *)
Before(n) == UNION {Word(v) : v \in {m \in Nat : m < n}}

(* The command line names a signal with bit b.                              *)
Named(b) == \E n \in 1 .. Len(cmd.sigs) : b \in BitsOf(cmd.sigs[n])

(* A command's locals.                                                      *)
IsCommand(c) ==
  /\ c = [ kind |-> c.kind, dev |-> c.dev, req |-> c.req, sigs |-> c.sigs,
           m_ctrl |-> c.m_ctrl, words |-> c.words, word |-> c.word,
           data |-> c.data, output |-> c.output, loop |-> c.loop ]
  /\ c.dev \in Device
  /\ c.kind \in {"set", "get"}
  /\ c.word \in Nat

(* Begin copied the control register.                                       *)
CopyIsTrue == pc = "select" =>
  cmd.word = 0 /\ cmd.data = {} /\ cmd.m_ctrl = io[cmd.dev].prs

(* set_io has read the outputs, as far as it got.                           *)
OutputsRead == pc = "read" /\ cmd.kind = "set" =>
  /\ io[cmd.dev].prs = "out"
  /\ cmd.data = io[cmd.dev].outputs \cap Before(cmd.word)

(* What is still to be written differs in named signals only.               *)
OthersKept == pc = "write" =>
  /\ cmd.output \subseteq AllBits
  /\ \A b \in Differing(io[cmd.dev].outputs, cmd.output) \cap Before(cmd.words) :
       Named(b)

EioInv ==
  /\ io \in [Device -> Core]
  /\ pc # "idle" => IsCommand(cmd)
  /\ pc \in {"write", "confirm"} => cmd.kind = "set"
  /\ CopyIsTrue
  /\ OutputsRead
  /\ OthersKept

-----------------------------------------------------------------------------
(* No command runs at first.                                                *)
LEMMA InitEio == Init => EioInv
BY DEF Init, EioInv, Core, CopyIsTrue, OutputsRead, OthersKept

(* Reading one more word.                                                   *)
LEMMA BeforeNext ==
  ASSUME NEW n \in Nat
  PROVE  Before(n + 1) = Before(n) \cup Word(n)
<1>1. {m \in Nat : m < n + 1} = {m \in Nat : m < n} \cup {n}  OBVIOUS
<1> QED BY <1>1 DEF Before

(* Nothing is before the first word.                                        *)
LEMMA BeforeNone == Before(0) = {}
BY DEF Before

(* Only the bits a command line names are changed by Updated.               *)
LEMMA UpdatedKeeps ==
  ASSUME NEW data, NEW b \in AllBits, ~Named(b)
  PROVE  b \in Updated(data) <=> b \in data
<1>1. Covering(b) = {}  BY DEF Covering, Named
<1> QED BY <1>1 DEF Updated

(* A command begins: it has its copy of the control register.               *)
LEMMA BeginKeeps ==
  ASSUME EioInv, NEW kind \in {"set", "get"}, NEW d \in Device, NEW req, NEW loop,
         Begin(kind, d, req, loop)
  PROVE  EioInv'
<1>1. /\ pc' = "select" /\ io' = io
      /\ IsCommand(cmd') /\ cmd'.word = 0 /\ cmd'.data = {}
      /\ cmd'.m_ctrl = io[cmd'.dev].prs
  BY DEF Begin, IsCommand
<1> QED BY <1>1 DEF EioInv, CopyIsTrue, OutputsRead, OthersKept

(* Steps after which no command runs, and that leave the cores alone.       *)
LEMMA EndKeeps ==
  ASSUME EioInv, io' = io, pc' = "idle"
  PROVE  EioInv'
BY DEF EioInv, CopyIsTrue, OutputsRead, OthersKept

(* Every step keeps EioInv.                                                 *)
LEMMA StepKeepsEio ==
  ASSUME EioInv, [Next]_vars
  PROVE  EioInv'
<1> USE DEF EioInv
<1>1. CASE Command
  <2>1. CASE Idle
    BY <2>1 DEF Idle, IsCommand, CopyIsTrue, OutputsRead, OthersKept
  <2>2. ASSUME NEW d \in Device, NEW req \in SetRequest, SetIo(d, req)
        PROVE  EioInv'
    BY <2>2, BeginKeeps DEF SetIo
  <2>3. ASSUME NEW d \in Device, NEW req \in GetRequest, NEW loop \in 1 .. MaxLoop,
               GetIo(d, req, loop)
        PROVE  EioInv'
    BY <2>3, BeginKeeps DEF GetIo
  <2> QED BY <1>1, <2>1, <2>2, <2>3 DEF Command, Assemble, Load, Unload, Reject
<1>2. CASE Select
  <2>1. /\ pc = "select" /\ pc' = "read" /\ IsCommand(cmd)
        /\ cmd.dev \in Device /\ io[cmd.dev] \in Core
    BY <1>2 DEF Select, IsCommand
  <2>2. /\ IsCommand(cmd') /\ cmd'.kind = cmd.kind /\ cmd'.dev = cmd.dev
        /\ cmd'.word = 0 /\ cmd'.data = {}
    BY <1>2, <2>1 DEF Select, IsCommand, CopyIsTrue
  <2>3. Wanted \in {"in", "out"} /\ (cmd.kind = "set" => Wanted = "out")
    BY DEF Wanted
  <2>4. io' \in [Device -> Core]
    BY <1>2, <2>1, <2>3 DEF Select, Core
  <2>5. io'[cmd.dev].prs = Wanted
    BY <1>2, <2>1 DEF Select, CopyIsTrue, Core
  <2> QED
    BY <2>1, <2>2, <2>3, <2>4, <2>5, BeforeNone DEF CopyIsTrue, OutputsRead, OthersKept
<1>3. CASE TooManyWords
  BY <1>3, EndKeeps DEF TooManyWords
<1>4. CASE ReadWord
  <2>1. /\ pc \in {"read", "confirm"} /\ pc' = pc /\ io' = io /\ IsCommand(cmd)
        /\ cmd.dev \in Device /\ cmd.word \in Nat
    BY <1>4 DEF ReadWord, IsCommand
  <2> DEFINE more == cmd.data \cup (Answer(cmd.dev) \cap Word(cmd.word))
             next == cmd.word + 1
  <2>10. next \in Nat /\ cmd' = [cmd EXCEPT !.data = more, !.word = next]
    BY <1>4, <2>1 DEF ReadWord
  <2> HIDE DEF more, next
  <2>11. /\ cmd'.kind = cmd.kind /\ cmd'.dev = cmd.dev /\ cmd'.word = next
        /\ cmd'.data = more /\ IsCommand(cmd')
    BY <2>1, <2>10 DEF IsCommand
  <2>2. /\ cmd'.kind = cmd.kind /\ cmd'.dev = cmd.dev /\ cmd'.word = cmd.word + 1
        /\ cmd'.data = cmd.data \cup (Answer(cmd.dev) \cap Word(cmd.word))
        /\ IsCommand(cmd')
    BY <2>11 DEF more, next
  <2>3. OutputsRead'
    <3> SUFFICES ASSUME pc' = "read", cmd'.kind = "set"
                 PROVE  /\ io[cmd.dev].prs = "out"
                        /\ cmd'.data = io[cmd.dev].outputs \cap Before(cmd.word + 1)
      BY <2>1, <2>2 DEF OutputsRead
    <3>1. /\ io[cmd.dev].prs = "out"
          /\ cmd.data = io[cmd.dev].outputs \cap Before(cmd.word)
      BY <2>1, <2>2 DEF OutputsRead
    <3>2. Answer(cmd.dev) = io[cmd.dev].outputs
      BY <3>1 DEF Answer
    <3> QED BY <2>1, <2>2, <3>1, <3>2, BeforeNext
  <2> QED BY <2>1, <2>2, <2>3 DEF CopyIsTrue, OthersKept
<1>5. CASE Update
  <2>1. /\ pc = "read" /\ pc' = "write" /\ io' = io /\ IsCommand(cmd)
        /\ cmd.kind = "set" /\ cmd.word = cmd.words /\ cmd.dev \in Device
    BY <1>5 DEF Update, IsCommand
  <2>2. /\ cmd'.kind = cmd.kind /\ cmd'.dev = cmd.dev /\ cmd'.sigs = cmd.sigs
        /\ cmd'.words = cmd.words /\ cmd'.output = Updated(cmd.data)
        /\ IsCommand(cmd')
    BY <1>5, <2>1 DEF Update, IsCommand
  <2>3. Updated(cmd.data) \subseteq AllBits
    BY DEF Updated
  <2>4. ASSUME NEW b \in Differing(io[cmd.dev].outputs, Updated(cmd.data)) \cap Before(cmd.words)
        PROVE  Named(b)
    <3>1. io[cmd.dev].outputs \subseteq AllBits
      BY <2>1 DEF Core
    <3>2. b \in AllBits
      BY <2>3, <3>1, <2>4 DEF Differing
    <3>3. b \in cmd.data <=> b \in io[cmd.dev].outputs
      BY <2>1, <2>4 DEF OutputsRead
    <3> QED BY <2>4, <3>2, <3>3, UpdatedKeeps DEF Differing
  <2>5. OthersKept'
    BY <2>1, <2>2, <2>3, <2>4 DEF OthersKept, Named, Differing
  <2> QED BY <2>1, <2>2, <2>5 DEF CopyIsTrue, OutputsRead
<1>6. CASE WriteWord
  <2>1. /\ pc = "write" /\ pc' = pc /\ IsCommand(cmd) /\ cmd.kind = "set"
        /\ cmd.dev \in Device /\ io[cmd.dev] \in Core /\ cmd.word \in Nat
    BY <1>6 DEF WriteWord, IsCommand
  <2>2. /\ cmd'.kind = cmd.kind /\ cmd'.dev = cmd.dev /\ cmd'.sigs = cmd.sigs
        /\ cmd'.words = cmd.words /\ cmd'.output = cmd.output
        /\ IsCommand(cmd')
    BY <1>6, <2>1 DEF WriteWord, IsCommand
  <2> DEFINE new == (io[cmd.dev].outputs \ Word(cmd.word))
                      \cup (cmd.output \cap Word(cmd.word))
  <2>3. cmd.output \subseteq AllBits /\ new \subseteq AllBits
    BY <2>1 DEF OthersKept, Core
  <2>4. io' \in [Device -> Core] /\ io'[cmd.dev].outputs = new
    BY <1>6, <2>1, <2>3 DEF WriteWord, Core
  <2>5. Differing(new, cmd.output) \subseteq Differing(io[cmd.dev].outputs, cmd.output)
    BY DEF Differing
  <2> HIDE DEF new
  <2>6. OthersKept'
    BY <2>1, <2>2, <2>3, <2>4, <2>5 DEF OthersKept, Named
  <2> QED BY <2>1, <2>2, <2>4, <2>6 DEF CopyIsTrue, OutputsRead
<1>7. CASE Written
  <2>1. /\ pc = "write" /\ pc' = "confirm" /\ io' = io /\ IsCommand(cmd')
        /\ cmd'.kind = "set"
    BY <1>7 DEF Written, IsCommand
  <2> QED BY <2>1 DEF CopyIsTrue, OutputsRead, OthersKept
<1>8. CASE Confirm
  BY <1>8, EndKeeps DEF Confirm
<1>9. CASE Report
  <2>1. CASE cmd.loop > 1
    BY <1>9, <2>1 DEF Report, IsCommand, CopyIsTrue, OutputsRead, OthersKept
  <2>2. CASE ~(cmd.loop > 1)
    BY <1>9, <2>2, EndKeeps DEF Report
  <2> QED BY <2>1, <2>2
<1>10. CASE Again
  <2>1. cmd.dev \in Device  BY <1>10 DEF Again, IsCommand
  <2> QED BY <1>10, <2>1, BeginKeeps DEF Again
<1>11. CASE JtagFails
  BY <1>11, EndKeeps DEF JtagFails
<1>12. ASSUME NEW d \in Device, NEW v \in Inputs, InputsChange(d, v)
       PROVE  EioInv'
  <2>1. /\ io' \in [Device -> Core] /\ pc' = pc /\ cmd' = cmd
        /\ \A e \in Device : io'[e].prs = io[e].prs /\ io'[e].outputs = io[e].outputs
    BY <1>12 DEF InputsChange, Core
  <2>2. pc # "idle" => cmd.dev \in Device
    BY DEF IsCommand
  <2> QED
    BY <2>1, <2>2 DEF IsCommand, CopyIsTrue, OutputsRead, OthersKept, Named
<1>13. CASE UNCHANGED vars
  BY <1>13 DEF vars, IsCommand, CopyIsTrue, OutputsRead, OthersKept, Named
<1> QED
  BY <1>1, <1>2, <1>3, <1>4, <1>5, <1>6, <1>7, <1>8, <1>9, <1>10, <1>11, <1>12, <1>13
  DEF Next, CommandStep

-----------------------------------------------------------------------------
(* Under the invariant only WriteWord changes outputs, and named ones only: *)
(* Ocla::set_io together with EioIP.                                        *)
LEMMA StepMovesNamed ==
  ASSUME EioInv, [Next]_vars, NEW d \in Device,
         NEW b \in Differing(io[d].outputs, io'[d].outputs)
  PROVE  pc = "write" /\ d = cmd.dev /\ Named(b)
<1> USE DEF EioInv
<1>1. CASE io' = io
  BY <1>1 DEF Differing
<1>2. CASE Select
  <2>1. io'[d].outputs = io[d].outputs
    BY <1>2 DEF Select, Core
  <2> QED BY <2>1 DEF Differing
<1>3. CASE WriteWord
  <2>1. pc = "write" /\ cmd.dev \in Device /\ cmd.word \in Nat /\ cmd.word < cmd.words
    BY <1>3 DEF WriteWord, IsCommand
  <2>2. d = cmd.dev
    BY <1>3, <2>1 DEF WriteWord, Core, Differing
  <2>3. /\ b \in Differing(io[d].outputs, cmd.output)
        /\ b \in Word(cmd.word)
    BY <1>3, <2>1, <2>2 DEF WriteWord, Core, Differing
  <2>4. b \in Before(cmd.words)
    BY <2>1, <2>3 DEF Before
  <2> QED BY <2>1, <2>2, <2>3, <2>4 DEF OthersKept
<1>4. ASSUME NEW e \in Device, NEW v \in Inputs, InputsChange(e, v)
      PROVE  FALSE
  <2>1. io'[d].outputs = io[d].outputs
    BY <1>4 DEF InputsChange, Core
  <2> QED BY <2>1 DEF Differing
<1>5. CASE Command
  BY <1>5, <1>1 DEF Command, Assemble, Load, Unload, Reject, SetIo, GetIo, Begin, Idle
<1>6. CASE CommandStep
  BY <1>6, <1>1, <1>2, <1>3
  DEF CommandStep, TooManyWords, ReadWord, Update, Written, Confirm, Report, Again, Begin
<1> QED
  BY <1>1, <1>4, <1>5, <1>6 DEF Next, JtagFails, vars

(* No set_io, get_io, failed transfer or moving input ever changes an       *)
(* output that the command under way does not name.                         *)
THEOREM OnlyNamedOutputsMove == Spec => OnlyNamedOutputsChange
<1>1. Init => EioInv
  BY InitEio
<1>2. EioInv /\ [Next]_vars => EioInv'
  BY StepKeepsEio
<1> DEFINE Step == \A d \in Device :
      LET changed == Differing(io[d].outputs, io'[d].outputs) IN
      changed # {} =>
        /\ pc = "write" /\ d = cmd.dev
        /\ \A b \in changed : \E n \in 1 .. Len(cmd.sigs) : b \in BitsOf(cmd.sigs[n])
<1>3. EioInv /\ [Next]_vars => [Step]_vars
  <2>1. ASSUME EioInv, [Next]_vars PROVE Step
    BY <2>1, StepMovesNamed DEF Named
  <2> QED BY <2>1
<1> QED
  BY <1>1, <1>2, <1>3, PTL DEF Spec, OnlyNamedOutputsChange
-----------------------------------------------------------------------------
(* What set_io and get_io tell.                                             *)

(* A command's signals are those of a probe, and the words it moves reach   *)
(* them all.                                                                *)
CommandSound == pc # "idle" =>
  /\ cmd.req \in Seq(Entry) \ {<<>>}
  /\ cmd.sigs \in Seq(Signal)
  /\ \A n \in 1 .. Len(cmd.sigs) : BitsOf(cmd.sigs[n]) \subseteq Before(cmd.words)
  /\ \A m, n \in 1 .. Len(cmd.sigs) :
       cmd.sigs[m] = cmd.sigs[n] \/ BitsOf(cmd.sigs[m]) \cap BitsOf(cmd.sigs[n]) = {}
  /\ cmd.kind = "set" => cmd.words \in Nat
  /\ pc # "again" => out = Quiet
  /\ pc \in {"read", "write", "confirm"} => cmd.words <= MaxWords

(* A get_io has read the inputs, as far as it got.                          *)
InputsRead == pc = "read" /\ cmd.kind = "get" =>
  /\ io[cmd.dev].prs = "in"
  /\ steady => cmd.data = io[cmd.dev].inputs \cap Before(cmd.word)

(* A set_io writes what the command line says, and reads it back.           *)
OutputsTold == pc \in {"write", "confirm"} =>
  /\ io[cmd.dev].prs = "out"
  /\ \A n \in 1 .. Len(cmd.sigs) :
       LastFor(n, cmd.sigs) =>
         cmd.output \cap BitsOf(cmd.sigs[n]) = Placed(cmd.req[n].value, cmd.sigs[n])
  /\ pc = "confirm" => cmd.data = io[cmd.dev].outputs \cap Before(cmd.word)

OutSound == out.kind \in {"set", "values"} => out.dev \in Device

IoInv ==
  /\ EioInv
  /\ FileSound
  /\ ProbesSound
  /\ CommandSound
  /\ InputsRead
  /\ OutputsTold
  /\ OutSound
  /\ SetIsDone
  /\ GetReportsInputs

(* Bits up to a bit lie in the words up to its word.                        *)
LEMMA WordsReach ==
  ASSUME NEW top \in Nat, NEW b \in Nat, b <= top
  PROVE  b \in Before(top \div WordBits + 1)
<1> DEFINE v == b \div WordBits
           w == top \div WordBits
<1>1. /\ v \in Nat /\ v * WordBits <= b /\ b < (v + 1) * WordBits
      /\ w \in Nat /\ top < (w + 1) * WordBits
  BY WordOf
<1> HIDE DEF v, w
<1>2. v < w + 1
  <2>1. SUFFICES ASSUME w + 1 <= v PROVE FALSE
    BY <1>1
  <2>2. (w + 1) * WordBits <= v * WordBits
    BY <1>1, <2>1, WordsAssumption
  <2>3. v * WordBits \in Nat /\ (w + 1) * WordBits \in Nat
    BY <1>1, WordsAssumption
  <2> QED BY <1>1, <2>2, <2>3
<1>3. b \in Word(v)
  BY <1>1, WordsAssumption DEF Word
<1> QED BY <1>1, <1>2, <1>3 DEF Before, w

(* The words of a register are its bits.                                    *)
LEMMA WordsInside ==
  ASSUME NEW n \in Nat, n <= MaxWords
  PROVE  Before(n) \subseteq AllBits
<1> SUFFICES ASSUME NEW v \in Nat, v < n, NEW b \in Word(v) PROVE b \in AllBits
  BY DEF Before
<1>1. (v + 1) * WordBits <= WordBits * MaxWords /\ v * WordBits \in Nat /\ (v + 1) * WordBits \in Nat
  BY WordsAssumption
<1>2. WordBits * MaxWords \in Nat
  BY WordsAssumption
<1> QED BY <1>1, <1>2 DEF Word, AllBits

(* Where the bits of a signal are.                                          *)
LEMMA SignalBits ==
  ASSUME NEW s \in Signal
  PROVE  /\ s.bitpos \in Nat /\ s.bitwidth \in Nat \ {0}
         /\ BitsOf(s) \subseteq Nat
         /\ \A b \in BitsOf(s) : b <= s.bitpos + s.bitwidth - 1
         /\ \A value : Placed(value, s) \subseteq BitsOf(s)
         /\ s.bitpos + s.bitwidth - 1 \in Nat
BY DEF Signal, BitsOf, Placed

(* A command begins.                                                        *)
LEMMA BeginSound ==
  ASSUME IoInv, NEW kind \in {"set", "get"}, NEW d, NEW req \in Seq(Entry) \ {<<>>}, NEW loop,
         Begin(kind, d, req, loop)
  PROVE  CommandSound'
<1> DEFINE p == Probe(TypeOf(kind))
           list == p.signal_list
           sigs == find_eio_signals(list, req)
           words == IF kind = "set" THEN get_num_words(p) ELSE WordsToMsb(sigs)
           place(n) == Min(Candidates(list, req[n]))
<1>1. /\ cmd'.sigs = sigs /\ cmd'.words = words /\ cmd'.kind = kind
      /\ pc' = "select" /\ out' = Quiet
      /\ Probes(TypeOf(kind)) # {} /\ AllFound(list, req)
  BY DEF Begin, Acceptable
<1>2. SoundProbe(p)
  <2>1. Loaded /\ Probes(TypeOf(kind)) \subseteq 1 .. Len(session.eio)
    BY <1>1 DEF Probes
  <2>2. Probes(TypeOf(kind)) \subseteq Nat
    BY DEF Probes
  <2>3. Min(Probes(TypeOf(kind))) \in 1 .. Len(session.eio)
    BY <1>1, <2>1, <2>2, MinIs
  <2> QED BY <2>1, <2>3 DEF IoInv, ProbesSound, Probe
<1>3. list \in Seq(Signal) /\ p.probe_width \in Nat
  BY <1>2 DEF SoundProbe
<1> DEFINE width == p.probe_width
<1>4. \A k \in 1 .. Len(list) : list[k].bitpos + list[k].bitwidth <= width
  BY <1>2 DEF SoundProbe
<1>5. \A j, k \in 1 .. Len(list) : j # k => BitsOf(list[j]) \cap BitsOf(list[k]) = {}
  BY <1>2 DEF SoundProbe
<1>6. \A n \in 1 .. Len(req) : place(n) \in 1 .. Len(list)
  <2> TAKE n \in 1 .. Len(req)
  <2>1. Candidates(list, req[n]) # {} /\ Candidates(list, req[n]) \subseteq 1 .. Len(list)
    BY <1>1 DEF AllFound, Candidates
  <2>2. Candidates(list, req[n]) \subseteq Nat
    BY <2>1
  <2> QED BY <2>1, <2>2, MinIs
<1>7. sigs = [n \in 1 .. Len(req) |-> list[place(n)]]
  BY DEF find_eio_signals
<1>8. /\ Len(req) \in Nat \ {0}
      /\ \A n \in 1 .. Len(req) : sigs[n] = list[place(n)] /\ sigs[n] \in Signal
  BY <1>3, <1>6, <1>7
<1>9. sigs \in Seq(Signal) /\ Len(sigs) = Len(req)
  <2>1. sigs \in [1 .. Len(req) -> Signal]
    BY <1>7, <1>8
  <2> QED BY <1>8, <2>1
<1>10. \A m, n \in 1 .. Len(sigs) :
         sigs[m] = sigs[n] \/ BitsOf(sigs[m]) \cap BitsOf(sigs[n]) = {}
  BY <1>5, <1>6, <1>8, <1>9
<1> DEFINE end(s) == s.bitpos + s.bitwidth - 1
<1>11. \A n \in 1 .. Len(sigs) : end(sigs[n]) \in Nat /\ end(sigs[n]) <= width - 1
  <2> TAKE n \in 1 .. Len(sigs)
  <2>1. sigs[n] \in Signal /\ sigs[n].bitpos + sigs[n].bitwidth <= width
    BY <1>4, <1>6, <1>8, <1>9
  <2>2. sigs[n].bitpos \in Nat /\ sigs[n].bitwidth \in Nat \ {0}
    BY <2>1, SignalBits
  <2> QED BY <1>3, <2>1, <2>2
<1>12. width - 1 \in Nat
  <2>1. 1 \in 1 .. Len(sigs)
    BY <1>8, <1>9
  <2> QED BY <1>3, <1>11, <2>1
<1>13. kind = "set" => words \in Nat /\ words = (width - 1) \div WordBits + 1
  <2>1. get_num_words(p) = (width - 1) \div WordBits + 1
    BY DEF get_num_words
  <2>2. (width - 1) \div WordBits \in Nat
    BY <1>12, WordOf
  <2> QED BY <2>1, <2>2
<1>14. \A n \in 1 .. Len(sigs) : BitsOf(sigs[n]) \subseteq Before(words)
  <2> SUFFICES ASSUME NEW n \in 1 .. Len(sigs), NEW b \in BitsOf(sigs[n])
               PROVE  b \in Before(words)
    OBVIOUS
  <2>5. sigs[n] \in Signal
    BY <1>8, <1>9
  <2>1. b \in Nat /\ b <= end(sigs[n]) /\ end(sigs[n]) \in Nat
    <3> HIDE DEF sigs
    <3> QED BY <2>5, SignalBits
  <2>2. CASE kind = "set"
    <3>1. b <= width - 1
      BY <1>11, <1>12, <2>1
    <3> QED BY <1>12, <1>13, <2>1, <2>2, <3>1, WordsReach
  <2>3. CASE kind # "set"
    <3> DEFINE T == {end(s) : s \in Range(sigs)}
    <3>1. T = {end(sigs[k]) : k \in 1 .. Len(sigs)}
      BY <1>9 DEF Range
    <3>2. T \subseteq 0 .. width - 1 /\ end(sigs[n]) \in T
      <4>1. \A k \in 1 .. Len(sigs) : end(sigs[k]) \in 0 .. width - 1
        BY <1>11, <1>12
      <4> HIDE DEF end
      <4> QED BY <3>1, <4>1
    <3> DEFINE top == Max(T)
    <3> HIDE DEF T
    <3>3. top \in T /\ end(sigs[n]) <= top
      <4> DEFINE w == width - 1
      <4>1. w \in Nat /\ T \subseteq 0 .. w /\ T # {}
        BY <1>12, <3>2
      <4> HIDE DEF w
      <4>2. top \in T /\ \A t \in T : t <= top
        BY <4>1, MaxIs
      <4> HIDE DEF top, end
      <4> QED BY <3>2, <4>2, Zenon
    <3>4. top \in Nat
      <4> HIDE DEF top
      <4>1. \A t \in T : t \in Nat
        BY <3>2
      <4> QED BY <3>3, <4>1, Zenon
    <3>5. words = top \div WordBits + 1
      BY <2>3 DEF T, WordsToMsb
    <3>6. b <= top
      BY <2>1, <3>3, <3>4
    <3> QED BY <2>1, <3>4, <3>5, <3>6, WordsReach
  <2> QED BY <2>2, <2>3
<1>15. cmd'.req = req
  BY DEF Begin
<1> HIDE DEF sigs, words
<1> QED
  BY <1>1, <1>9, <1>10, <1>13, <1>14, <1>15 DEF CommandSound

CommandInv == CommandSound /\ InputsRead /\ OutputsTold

(* Steps that end a command, and steps between commands.                    *)
LEMMA NoCommandSound ==
  ASSUME pc' = "idle"
  PROVE  CommandInv'
BY DEF CommandInv, CommandSound, InputsRead, OutputsTold

(* A step that moves no output and, if the inputs are steady, no input, and *)
(* leaves the report alone.                                                 *)
LEMMA ReportStands ==
  ASSUME IoInv, out' = out,
         \A d \in Device : io'[d].outputs = io[d].outputs,
         steady' => steady /\ \A d \in Device : io'[d].inputs = io[d].inputs
  PROVE  OutSound' /\ SetIsDone' /\ GetReportsInputs'
BY DEF IoInv, OutSound, SetIsDone, GetReportsInputs

(* A step that says nothing of values.                                      *)
LEMMA NoReportSound ==
  ASSUME out'.kind \notin {"set", "values"}
  PROVE  OutSound' /\ SetIsDone' /\ GetReportsInputs'
BY DEF OutSound, SetIsDone, GetReportsInputs

(* Steps of a command leave file and session alone.                         *)
LEMMA FilesKeep ==
  ASSUME IoInv, UNCHANGED <<file, session>>
  PROVE  FileSound' /\ ProbesSound'
BY DEF IoInv, FileSound, ProbesSound, Loaded

(* A command line keeps IoInv: it is refused or begins.                     *)
LEMMA CommandKeeps ==
  ASSUME IoInv, Command
  PROVE  IoInv'
<1>0. EioInv'
  BY StepKeepsEio DEF IoInv, Next
<1>1. ASSUME NEW json \in Design, Assemble(json)
      PROVE  IoInv'
  <2>1. pc' = "idle" /\ out'.kind \notin {"set", "values"} /\ session' = session
    BY <1>1 DEF Assemble, Idle, Quiet
  <2>2. FileSound'
    BY <1>1 DEF Assemble, FileSound
  <2>3. ProbesSound'
    BY <2>1 DEF IoInv, ProbesSound, Loaded
  <2> QED
    BY <1>0, <2>1, <2>2, <2>3, NoCommandSound, NoReportSound DEF IoInv, CommandInv
<1>2. CASE Load
  <2>1. pc' = "idle" /\ file' = file
    BY <1>2 DEF Load, Idle
  <2>2. FileSound'
    BY <2>1 DEF IoInv, FileSound
  <2>3. ProbesSound'
    <3>1. CASE file # NoFile /\ load(file).status = "ok"
      <4>1. session' = load(file).session
        BY <1>2, <3>1, Zenon DEF Load
      <4> QED BY <3>1, <4>1, LoadSound DEF IoInv, ProbesSound
    <3>2. CASE ~(file # NoFile /\ load(file).status = "ok")
      <4>1. session' = session
        BY <1>2, <3>2, Zenon DEF Load
      <4> QED BY <4>1 DEF IoInv, ProbesSound, Loaded
    <3> QED BY <3>1, <3>2
  <2>4. out'.kind \notin {"set", "values"}
    <3>1. CASE file = NoFile
      BY <1>2, <3>1 DEF Load
    <3>2. CASE file # NoFile /\ load(file).status = "ok"
      BY <1>2, <3>2 DEF Load, Quiet
    <3>3. CASE file # NoFile /\ load(file).status # "ok"
      <4>1. out' = [kind |-> IF load(file).status = "thrown" THEN "load_thrown"
                             ELSE "load_refused"]
        BY <1>2, <3>3, Zenon DEF Load
      <4> QED BY <4>1
    <3> QED BY <3>1, <3>2, <3>3
  <2> QED
    BY <1>0, <2>1, <2>2, <2>3, <2>4, NoCommandSound, NoReportSound DEF IoInv, CommandInv
<1>3. CASE Unload
  <2>1. pc' = "idle" /\ out' = Quiet /\ file' = file /\ session' = NoSession
    BY <1>3 DEF Unload, Idle
  <2>2. FileSound' /\ ProbesSound'
    BY <2>1 DEF IoInv, FileSound, ProbesSound, Loaded
  <2> QED
    BY <1>0, <2>1, <2>2, NoCommandSound, NoReportSound DEF IoInv, CommandInv, Quiet
<1>4. ASSUME NEW kind, NEW d, NEW req, Reject(kind, d, req)
      PROVE  IoInv'
  <2>1. pc' = "idle" /\ out'.kind \notin {"set", "values"} /\ UNCHANGED <<file, session>>
    BY <1>4 DEF Reject, Idle
  <2> QED
    BY <1>0, <2>1, FilesKeep, NoCommandSound, NoReportSound DEF IoInv, CommandInv
<1>5. ASSUME NEW kind \in {"set", "get"}, NEW d \in Device,
             NEW req \in Seq(Entry) \ {<<>>}, NEW loop, Begin(kind, d, req, loop)
      PROVE  IoInv'
  <2>1. pc' = "select" /\ out' = Quiet /\ UNCHANGED <<file, session>>
    BY <1>5 DEF Begin
  <2>2. CommandSound'
    BY <1>5, BeginSound
  <2> QED
    BY <1>0, <2>1, <2>2, FilesKeep, NoReportSound
    DEF IoInv, CommandInv, InputsRead, OutputsTold, Quiet
<1>6. SetRequest \subseteq Seq(Entry) \ {<<>>} /\ GetRequest \subseteq Seq(Entry) \ {<<>>}
  BY RequestAssumption
<1> QED
  BY <1>1, <1>2, <1>3, <1>4, <1>5, <1>6 DEF Command, SetIo, GetIo

(* The last entry that names a signal is the one that counts.               *)
LEMMA UpdatedTells ==
  ASSUME NEW n \in 1 .. Len(cmd.sigs), NEW data,
         cmd.sigs \in Seq(Signal), LastFor(n, cmd.sigs),
         \A m \in 1 .. Len(cmd.sigs) :
           \/ cmd.sigs[m] = cmd.sigs[n]
           \/ BitsOf(cmd.sigs[m]) \cap BitsOf(cmd.sigs[n]) = {},
         BitsOf(cmd.sigs[n]) \subseteq AllBits
  PROVE  Updated(data) \cap BitsOf(cmd.sigs[n]) = Placed(cmd.req[n].value, cmd.sigs[n])
<1> DEFINE s == cmd.sigs[n]
<1>1. Len(cmd.sigs) \in Nat /\ s \in Signal
  OBVIOUS
<1>2. Placed(cmd.req[n].value, s) \subseteq BitsOf(s)
  BY <1>1, SignalBits
<1>3. ASSUME NEW b \in BitsOf(s)
      PROVE  b \in Updated(data) <=> b \in Placed(cmd.req[n].value, s)
  <2>1. Covering(b) \subseteq 0 .. Len(cmd.sigs) /\ n \in Covering(b)
    BY <1>1 DEF Covering
  <2>2. Max(Covering(b)) \in Covering(b) /\ n <= Max(Covering(b))
    BY <1>1, <2>1, MaxIs
  <2> DEFINE m == Max(Covering(b))
  <2> HIDE DEF m
  <2>3. m \in 1 .. Len(cmd.sigs) /\ b \in BitsOf(cmd.sigs[m]) /\ n <= m
    BY <2>2 DEF Covering, m
  <2>4. cmd.sigs[m] = s
    BY <2>3
  <2>5. m = n
    <3>1. ASSUME m # n PROVE FALSE
      <4>1. m \in n + 1 .. Len(cmd.sigs)
        BY <1>1, <2>3, <3>1
      <4> QED BY <2>4, <4>1 DEF LastFor
    <3> QED BY <3>1
  <2>6. b \in AllBits
    OBVIOUS
  <2> QED BY <2>1, <2>5, <2>6 DEF Updated, m
<1> QED BY <1>2, <1>3

(* Every step keeps IoInv.                                                  *)
LEMMA StepKeepsIo ==
  ASSUME IoInv, [Next]_vars
  PROVE  IoInv'
<1>0. EioInv' /\ EioInv
  BY StepKeepsEio DEF IoInv
<1>1. CASE Command
  BY <1>1, CommandKeeps
<1>2. CASE Select
  <2>1. /\ pc = "select" /\ pc' = "read" /\ IsCommand(cmd) /\ CommandSound
        /\ cmd.dev \in Device /\ io[cmd.dev] \in Core /\ io \in [Device -> Core]
        /\ UNCHANGED <<file, session, out, steady>>
        /\ cmd.word = 0 /\ cmd.data = {} /\ cmd.m_ctrl = io[cmd.dev].prs
        /\ cmd.words <= MaxWords
    BY <1>2 DEF Select, IsCommand, EioInv, IoInv, CopyIsTrue
  <2>2. /\ IsCommand(cmd') /\ cmd'.kind = cmd.kind /\ cmd'.dev = cmd.dev
        /\ cmd'.req = cmd.req /\ cmd'.sigs = cmd.sigs /\ cmd'.words = cmd.words
        /\ cmd'.word = 0 /\ cmd'.data = {}
    BY <1>2, <2>1 DEF Select, IsCommand
  <2>3. Wanted \in {"in", "out"} /\ (cmd.kind = "get" => Wanted = "in")
    BY DEF Wanted
  <2>4. /\ \A d \in Device : io'[d].outputs = io[d].outputs /\ io'[d].inputs = io[d].inputs
        /\ io'[cmd.dev].prs = Wanted
    BY <1>2, <2>1, <2>3 DEF Select, Core
  <2>5. CommandSound'
    BY <2>1, <2>2 DEF CommandSound
  <2>6. InputsRead' /\ OutputsTold'
    BY <2>1, <2>2, <2>3, <2>4, BeforeNone DEF InputsRead, OutputsTold
  <2> QED
    BY <1>0, <2>1, <2>4, <2>5, <2>6, FilesKeep, ReportStands DEF IoInv
<1>3. CASE TooManyWords \/ JtagFails
  <2>1. /\ pc' = "idle" /\ UNCHANGED <<file, session>>
        /\ out'.kind \notin {"set", "values"}
    BY <1>3 DEF TooManyWords, JtagFails
  <2> QED
    BY <1>0, <2>1, FilesKeep, NoCommandSound, NoReportSound DEF IoInv, CommandInv
<1>4. CASE ReadWord
  <2>1. /\ pc \in {"read", "confirm"} /\ pc' = pc /\ io' = io /\ IsCommand(cmd)
        /\ cmd.dev \in Device /\ cmd.word \in Nat
        /\ UNCHANGED <<file, session, out, steady>>
    BY <1>0, <1>4 DEF ReadWord, IsCommand, EioInv
  <2> DEFINE more == cmd.data \cup (Answer(cmd.dev) \cap Word(cmd.word))
             next == cmd.word + 1
  <2>2. next \in Nat /\ cmd' = [cmd EXCEPT !.data = more, !.word = next]
    BY <1>4, <2>1 DEF ReadWord
  <2> HIDE DEF more, next
  <2>3. /\ cmd'.kind = cmd.kind /\ cmd'.dev = cmd.dev /\ cmd'.word = next
        /\ cmd'.data = more /\ cmd'.req = cmd.req /\ cmd'.sigs = cmd.sigs
        /\ cmd'.words = cmd.words /\ cmd'.output = cmd.output
    BY <2>1, <2>2 DEF IsCommand
  <2>4. CommandSound'
    BY <2>1, <2>3 DEF IoInv, CommandSound
  <2>5. InputsRead'
    <3> SUFFICES ASSUME pc = "read", cmd.kind = "get"
                 PROVE  /\ io[cmd.dev].prs = "in"
                        /\ steady => more = io[cmd.dev].inputs \cap Before(next)
      BY <2>1, <2>3 DEF InputsRead
    <3>1. /\ io[cmd.dev].prs = "in"
          /\ steady => cmd.data = io[cmd.dev].inputs \cap Before(cmd.word)
      BY DEF IoInv, InputsRead
    <3> QED BY <2>1, <3>1, BeforeNext DEF Answer, more, next
  <2>6. OutputsTold'
    <3> SUFFICES ASSUME pc = "confirm"
                 PROVE  OutputsTold'
      BY <2>1 DEF OutputsTold, IoInv
    <3>1. /\ io[cmd.dev].prs = "out"
          /\ cmd.data = io[cmd.dev].outputs \cap Before(cmd.word)
      BY DEF IoInv, OutputsTold
    <3>2. more = io[cmd.dev].outputs \cap Before(next)
      BY <2>1, <3>1, BeforeNext DEF Answer, more, next
    <3> QED BY <2>1, <2>3, <3>1, <3>2 DEF IoInv, OutputsTold
  <2> QED
    BY <1>0, <2>1, <2>4, <2>5, <2>6, FilesKeep, ReportStands DEF IoInv
<1>5. CASE Update
  <2>1. /\ pc = "read" /\ pc' = "write" /\ io' = io /\ IsCommand(cmd) /\ CommandSound
        /\ cmd.kind = "set" /\ cmd.dev \in Device /\ io[cmd.dev].prs = "out"
        /\ UNCHANGED <<file, session, out, steady>>
    BY <1>0, <1>5 DEF Update, IsCommand, EioInv, IoInv, OutputsRead
  <2>2. /\ cmd'.kind = cmd.kind /\ cmd'.dev = cmd.dev /\ cmd'.sigs = cmd.sigs
        /\ cmd'.req = cmd.req /\ cmd'.words = cmd.words
        /\ cmd'.output = Updated(cmd.data)
    BY <1>5, <2>1 DEF Update, IsCommand
  <2>3. ASSUME NEW n \in 1 .. Len(cmd.sigs), LastFor(n, cmd.sigs)
        PROVE  Updated(cmd.data) \cap BitsOf(cmd.sigs[n]) = Placed(cmd.req[n].value, cmd.sigs[n])
    <3>1. BitsOf(cmd.sigs[n]) \subseteq AllBits
      BY <2>1, WordsInside DEF CommandSound
    <3> QED BY <2>1, <2>3, <3>1, UpdatedTells DEF CommandSound
  <2>4. CommandSound'
    BY <2>1, <2>2 DEF CommandSound
  <2>5. InputsRead' /\ OutputsTold'
    BY <2>1, <2>2, <2>3 DEF InputsRead, OutputsTold
  <2> QED
    BY <1>0, <2>1, <2>4, <2>5, FilesKeep, ReportStands DEF IoInv
<1>6. CASE WriteWord
  <2>1. /\ pc = "write" /\ pc' = pc /\ IsCommand(cmd) /\ CommandSound /\ OutputsTold
        /\ cmd.dev \in Device /\ io[cmd.dev] \in Core /\ io \in [Device -> Core]
        /\ UNCHANGED <<file, session, out, steady>>
    BY <1>0, <1>6 DEF WriteWord, IsCommand, EioInv, IoInv
  <2>2. /\ cmd'.kind = cmd.kind /\ cmd'.dev = cmd.dev /\ cmd'.sigs = cmd.sigs
        /\ cmd'.req = cmd.req /\ cmd'.words = cmd.words /\ cmd'.output = cmd.output
    BY <1>6, <2>1 DEF WriteWord, IsCommand
  <2>3. io'[cmd.dev].prs = io[cmd.dev].prs
    BY <1>6, <2>1 DEF WriteWord, Core
  <2>4. CommandSound' /\ InputsRead' /\ OutputsTold'
    BY <2>1, <2>2, <2>3 DEF CommandSound, InputsRead, OutputsTold
  <2>5. out'.kind \notin {"set", "values"}
    BY <2>1 DEF CommandSound, Quiet
  <2> QED
    BY <1>0, <2>1, <2>4, <2>5, FilesKeep, NoReportSound DEF IoInv
<1>7. CASE Written
  <2>1. /\ pc = "write" /\ pc' = "confirm" /\ io' = io /\ IsCommand(cmd)
        /\ CommandSound /\ OutputsTold
        /\ UNCHANGED <<file, session, out, steady>>
    BY <1>0, <1>7 DEF Written, EioInv, IoInv
  <2>2. /\ cmd'.kind = cmd.kind /\ cmd'.dev = cmd.dev /\ cmd'.sigs = cmd.sigs
        /\ cmd'.req = cmd.req /\ cmd'.words = cmd.words /\ cmd'.output = cmd.output
        /\ cmd'.word = 0 /\ cmd'.data = {}
    BY <1>7, <2>1 DEF Written, IsCommand
  <2>3. CommandSound' /\ InputsRead' /\ OutputsTold'
    BY <2>1, <2>2, BeforeNone DEF CommandSound, InputsRead, OutputsTold
  <2> QED
    BY <1>0, <2>1, <2>3, FilesKeep, ReportStands DEF IoInv
<1>8. CASE Confirm
  <2>1. /\ pc = "confirm" /\ pc' = "idle" /\ io' = io /\ IsCommand(cmd)
        /\ cmd.word = cmd.words /\ cmd.dev \in Device
        /\ CommandSound /\ OutputsTold /\ UNCHANGED <<file, session>>
    BY <1>0, <1>8 DEF Confirm, EioInv, IoInv, IsCommand
  <2>2. OutSound' /\ SetIsDone' /\ GetReportsInputs'
    <3>1. CASE cmd.data = cmd.output
      <4>1. out' = [kind |-> "set", dev |-> cmd.dev, sigs |-> cmd.sigs, req |-> cmd.req]
        BY <1>8, <3>1 DEF Confirm
      <4>2. OutSound' /\ GetReportsInputs'
        BY <2>1, <4>1 DEF OutSound, GetReportsInputs
      <4>3. ASSUME NEW n \in 1 .. Len(cmd.sigs), LastFor(n, cmd.sigs)
            PROVE  io[cmd.dev].outputs \cap BitsOf(cmd.sigs[n])
                     = Placed(cmd.req[n].value, cmd.sigs[n])
        <5>1. cmd.output = io[cmd.dev].outputs \cap Before(cmd.words)
          BY <2>1, <3>1 DEF OutputsTold
        <5>2. BitsOf(cmd.sigs[n]) \subseteq Before(cmd.words)
          BY <2>1 DEF CommandSound
        <5>3. cmd.output \cap BitsOf(cmd.sigs[n]) = Placed(cmd.req[n].value, cmd.sigs[n])
          BY <2>1, <4>3 DEF OutputsTold
        <5> QED BY <5>1, <5>2, <5>3
      <4> QED BY <2>1, <4>1, <4>2, <4>3 DEF SetIsDone
    <3>2. CASE cmd.data # cmd.output
      <4>1. out'.kind \notin {"set", "values"}
        BY <1>8, <3>2 DEF Confirm
      <4> QED BY <4>1, NoReportSound
    <3> QED BY <3>1, <3>2
  <2> QED
    BY <1>0, <2>1, <2>2, FilesKeep, NoCommandSound DEF IoInv, CommandInv
<1>9. CASE Report
  <2>1. /\ pc = "read" /\ pc' \in {"again", "idle"} /\ io' = io /\ IsCommand(cmd)
        /\ cmd.kind = "get" /\ cmd.word = cmd.words /\ cmd.dev \in Device
        /\ CommandSound /\ InputsRead /\ UNCHANGED <<file, session, steady>>
        /\ out' = Values
    BY <1>0, <1>9 DEF Report, EioInv, IoInv, IsCommand
  <2>2. /\ Values.kind = "values" /\ Values.dev = cmd.dev /\ Values.sigs = cmd.sigs
        /\ \A n \in 1 .. Len(cmd.sigs) : Values.value[n] = Extract(cmd.data, cmd.sigs[n])
    BY DEF Values
  <2>3. ASSUME steady, NEW n \in 1 .. Len(cmd.sigs)
        PROVE  Extract(cmd.data, cmd.sigs[n]) = Extract(io[cmd.dev].inputs, cmd.sigs[n])
    <3>1. cmd.data = io[cmd.dev].inputs \cap Before(cmd.words)
      BY <2>1, <2>3 DEF InputsRead
    <3>2. BitsOf(cmd.sigs[n]) \subseteq Before(cmd.words)
      BY <2>1 DEF CommandSound
    <3>3. cmd.data \cap BitsOf(cmd.sigs[n]) = io[cmd.dev].inputs \cap BitsOf(cmd.sigs[n])
      BY <3>1, <3>2
    <3> QED BY <3>3 DEF Extract
  <2>4. OutSound' /\ SetIsDone' /\ GetReportsInputs'
    BY <2>1, <2>2, <2>3 DEF OutSound, SetIsDone, GetReportsInputs
  <2>5. CASE pc' = "idle"
    BY <1>0, <2>1, <2>4, <2>5, FilesKeep, NoCommandSound DEF IoInv, CommandInv
  <2>6. CASE pc' = "again"
    <3>1. cmd' = cmd
      BY <1>9, <2>6 DEF Report
    <3>2. CommandSound' /\ InputsRead' /\ OutputsTold'
      BY <2>1, <2>6, <3>1 DEF CommandSound, InputsRead, OutputsTold
    <3> QED BY <1>0, <2>1, <2>4, <3>2, FilesKeep DEF IoInv
  <2> QED BY <2>1, <2>5, <2>6
<1>10. CASE Again
  <2>1. cmd.req \in Seq(Entry) \ {<<>>}
    BY <1>10 DEF Again, IoInv, CommandSound
  <2>2. pc' = "select" /\ out' = Quiet /\ UNCHANGED <<file, session>>
    BY <1>10 DEF Again, Begin
  <2>3. CommandSound'
    BY <1>10, <2>1, BeginSound DEF Again
  <2> QED
    BY <1>0, <2>2, <2>3, FilesKeep, NoReportSound
    DEF IoInv, InputsRead, OutputsTold, Quiet
<1>11. ASSUME NEW d \in Device, NEW v \in Inputs, InputsChange(d, v)
       PROVE  IoInv'
  <2>1. /\ UNCHANGED <<file, session, pc, cmd, out>> /\ steady' = FALSE
        /\ \A e \in Device : io'[e].prs = io[e].prs /\ io'[e].outputs = io[e].outputs
    BY <1>0, <1>11 DEF InputsChange, EioInv, Core
  <2>2. pc # "idle" => cmd.dev \in Device
    BY <1>0 DEF EioInv, IsCommand
  <2>3. CommandSound' /\ InputsRead' /\ OutputsTold'
    BY <2>1, <2>2 DEF IoInv, CommandSound, InputsRead, OutputsTold
  <2> QED
    BY <1>0, <2>1, <2>3, FilesKeep, ReportStands DEF IoInv
<1>12. CASE UNCHANGED vars
  <2>1. CommandSound' /\ InputsRead' /\ OutputsTold'
    BY <1>12 DEF vars, IoInv, CommandSound, InputsRead, OutputsTold
  <2> QED
    BY <1>0, <1>12, <2>1, FilesKeep, ReportStands DEF IoInv, vars
<1> QED
  BY <1>1, <1>2, <1>3, <1>4, <1>5, <1>6, <1>7, <1>8, <1>9, <1>10, <1>11, <1>12
  DEF Next, CommandStep

(* Nothing has been told at first.                                          *)
LEMMA InitIo == Init => IoInv
BY InitEio DEF Init, IoInv, FileSound, ProbesSound, Loaded, CommandSound, InputsRead,
  OutputsTold, OutSound, SetIsDone, GetReportsInputs, Quiet

(* IoInv is an invariant of the specification.                              *)
LEMMA IoInvariant == Spec => []IoInv
<1>1. Init => IoInv
  BY InitIo
<1>2. IoInv /\ [Next]_vars => IoInv'
  BY StepKeepsIo
<1> QED BY <1>1, <1>2, PTL DEF Spec

(* A set_io that reports success has set every signal of the command line   *)
(* to the value of the last entry naming it (Ocla::set_io, its read-back    *)
(* and comparison at the end).                                              *)
THEOREM SetIoIsTrue == Spec => []SetIsDone
<1>1. IoInv => SetIsDone
  BY DEF IoInv
<1> QED BY <1>1, IoInvariant, PTL

(* The values get_io reports are those of the inputs, if no input moved     *)
(* while it read (Ocla::get_io, EioIP::read_input_bits).                    *)
THEOREM GetIoIsTrue == Spec => []GetReportsInputs
<1>1. IoInv => GetReportsInputs
  BY DEF IoInv
<1> QED BY <1>1, IoInvariant, PTL

-----------------------------------------------------------------------------
(* Sessions.                                                                *)

(* What load accepts of an assembled design.                                *)
LEMMA LoadedDomains ==
  ASSUME FileSound, file # NoFile, load(file).status = "ok"
  PROVE  DomainsSound(load(file).session.domains)
<1>1. PICK json \in Design :
        extract_ocla_info(json) /\ file = [json EXCEPT !.keys = @ \ {"messages"}]
  BY DEF FileSound
<1>2. IsDesign(json)
  BY DesignAssumption
<1>3. file.ocla = json.ocla /\ file.ocla_debug_subsystem = json.ocla_debug_subsystem
      /\ file.keys = json.keys \ {"messages"}
  BY <1>1, <1>2 DEF IsDesign
<1>4. "ocla" \in file.keys
  BY <1>1, <1>3 DEF extract_ocla_info, DesignKeys
<1>5. /\ load(file).session.domains = parse_ocla(file).domains
      /\ parse_ocla(file).status = "ok"
  BY <1>4 DEF load
<1>6. (\A j \in Design : ProbesNumberedOnce(j)) => ProbesNumberedOnce(file)
  BY <1>1, <1>3 DEF ProbesNumberedOnce
<1>7. file.ocla \in Seq(CoreInfo)
  BY <1>2, <1>3 DEF IsDesign
<1> QED
  BY <1>5, <1>6, <1>7, ParsedOclaSound

(* In every session the analyser's commands are given, domains are numbered  *)
(* by position, no instance is in two, the probes of a domain are of its    *)
(* instances and, if the design numbers no probe twice, a number names one  *)
(* (OclaDebugSession::parse_ocla, both its native and its AXI domains).     *)
THEOREM SessionsAreSound == Spec => []SessionIsSound
<1>1. Init => SessionIsSound
  BY DEF Init, SessionIsSound, Loaded
<1>2. IoInv /\ SessionIsSound /\ [Next]_vars => SessionIsSound'
  <2> SUFFICES ASSUME IoInv, SessionIsSound, [Next]_vars PROVE SessionIsSound'
    OBVIOUS
  <2>1. CASE session' = session
    BY <2>1 DEF SessionIsSound, Loaded
  <2>2. CASE Load
    <3>1. CASE file # NoFile /\ load(file).status = "ok"
      <4>1. session' = load(file).session
        BY <2>2, <3>1, Zenon DEF Load
      <4>2. DomainsSound(session'.domains)
        BY <3>1, <4>1, LoadedDomains DEF IoInv
      <4> QED
        BY <4>2 DEF SessionIsSound, DomainsSound
    <3>2. CASE ~(file # NoFile /\ load(file).status = "ok")
      <4>1. session' = session
        BY <2>2, <3>2, Zenon DEF Load
      <4> QED
        BY <2>1, <4>1
    <3> QED
      BY <3>1, <3>2
  <2>3. CASE Unload
    BY <2>3 DEF Unload, SessionIsSound, Loaded
  <2>4. Load \/ Unload \/ session' = session
    BY DEF Next, Command, CommandStep, Assemble, SetIo, GetIo, Begin, Reject, Select, TooManyWords,
      ReadWord, Update, WriteWord, Written, Confirm, Report, Again, JtagFails, InputsChange, vars
  <2> QED
    BY <2>1, <2>2, <2>3, <2>4
<1> QED
  BY <1>1, <1>2, IoInvariant, PTL DEF Spec

(* An EIO probe takes each of its bits once.                                *)
LEMMA ProbeTakesOnce ==
  ASSUME NEW p, SoundProbe(p)
  PROVE  TakesOnce(p.signal_list, p.probe_width)
<1> DEFINE sigs == p.signal_list
           At(b) == {k \in 1 .. Len(sigs) : b \in BitsOf(sigs[k])}
<1>1. ASSUME NEW b \in 0 .. p.probe_width - 1
      PROVE  Cardinality(At(b)) = 1
  <2>1. PICK k \in 1 .. Len(sigs) : b \in BitsOf(sigs[k])
    BY <1>1 DEF SoundProbe
  <2>2. At(b) = {k}
    BY <2>1 DEF SoundProbe
  <2> QED
    BY <2>2, FS_Singleton
<1> QED
  BY <1>1 DEF TakesOnce

(* The signals of each EIO probe of a session take each bit of the probe    *)
(* once (OclaDebugSession::parse_eio): the half of SignalsTakeEachBitOnce    *)
(* that holds whatever the design says.                                     *)
THEOREM EioProbesAreCut ==
  Spec => [](Loaded => \A k \in 1 .. Len(session.eio) :
               TakesOnce(session.eio[k].signal_list, session.eio[k].probe_width))
<1> DEFINE Cut == Loaded => \A k \in 1 .. Len(session.eio) :
                    TakesOnce(session.eio[k].signal_list, session.eio[k].probe_width)
<1>1. IoInv => Cut
  BY ProbeTakesOnce DEF IoInv, ProbesSound
<1> QED
  BY <1>1, IoInvariant, PTL

-----------------------------------------------------------------------------
(* The probes of a domain.                                                  *)

(* The signals of ss that a probe takes.                                    *)
SignalsOfProbe(ss, info) == FoldLeft(LAMBDA mine, s : TakeSignal(mine, s, info), <<>>, ss)

(* SignalsIn takes signal after signal.                                     *)
TakenTable(g, ss, info, n) ==
  g = [s \in SUBSET (1 .. n) |-> IF s = {} THEN <<>> ELSE TakeSignal(g[s \ {Max(s)}], ss[Max(s)], info)]

(* There is such a table.                                                   *)
LEMMA TakenTableExists ==
  ASSUME NEW ss, NEW info, NEW n \in Nat
  PROVE  \E g : TakenTable(g, ss, info, n)
<1> DEFINE Is(g, k) == TakenTable(g, ss, info, k)
           Q == {k \in Nat : \E g : Is(g, k)}
<1>1. 0 \in Q
  <2>1. Is([s \in SUBSET (1 .. 0) |-> <<>>], 0)
    BY DEF TakenTable
  <2> QED
    BY <2>1, Zenon
<1>2. ASSUME NEW k \in Nat, k \in Q
      PROVE  k + 1 \in Q
  <2>1. PICK g : Is(g, k)
    BY <1>2
  <2> DEFINE rest(s) == g[s \ {k + 1}]
             h == [s \in SUBSET (1 .. k + 1) |->
                     IF k + 1 \in s THEN TakeSignal(rest(s), ss[k + 1], info) ELSE g[s]]
  <2>2. ASSUME NEW s \in SUBSET (1 .. k + 1), k + 1 \in s
        PROVE  h[s] = TakeSignal(h[s \ {Max(s)}], ss[Max(s)], info)
    <3>1. Max(s) = k + 1
      <4>1. k + 1 \in Nat /\ s \subseteq 1 .. k + 1
        BY <2>2
      <4> QED
        BY <2>2, <4>1, MaxIsLast
    <3>2. s \ {k + 1} \in SUBSET (1 .. k + 1)
      BY <2>2
    <3>3. h[s] = TakeSignal(rest(s), ss[k + 1], info)
      BY <2>2
    <3>4. h[s \ {k + 1}] = g[s \ {k + 1}]
      BY <3>2
    <3> QED
      BY <3>1, <3>3, <3>4
  <2>3. ASSUME NEW s \in SUBSET (1 .. k + 1), k + 1 \notin s, s # {}
        PROVE  h[s] = TakeSignal(h[s \ {Max(s)}], ss[Max(s)], info)
    <3>1. s \in SUBSET (1 .. k)
      BY <2>3
    <3>2. g[s] = TakeSignal(g[s \ {Max(s)}], ss[Max(s)], info)
      BY <2>1, <2>3, <3>1 DEF TakenTable
    <3>3. h[s] = g[s]
      BY <2>3
    <3>4. s \ {Max(s)} \in SUBSET (1 .. k + 1) /\ k + 1 \notin s \ {Max(s)}
      BY <2>3
    <3>5. h[s \ {Max(s)}] = g[s \ {Max(s)}]
      BY <3>4
    <3> QED
      BY <3>2, <3>3, <3>5
  <2>4. h[{}] = <<>>
    <3>1. {} \in SUBSET (1 .. k) /\ {} \in SUBSET (1 .. k + 1) /\ k + 1 \notin {}
      OBVIOUS
    <3>2. g[{}] = <<>>
      BY <2>1, <3>1 DEF TakenTable
    <3> QED
      BY <3>1, <3>2
  <2>5. h = [s \in SUBSET (1 .. k + 1) |-> h[s]]
    OBVIOUS
  <2> HIDE DEF h
  <2>6. Is(h, k + 1)
    <3>1. \A s \in SUBSET (1 .. k + 1) :
            h[s] = IF s = {} THEN <<>> ELSE TakeSignal(h[s \ {Max(s)}], ss[Max(s)], info)
      BY <2>2, <2>3, <2>4
    <3> QED
      BY <2>5, <3>1 DEF TakenTable
  <2>7. \E x : Is(x, k + 1)
    BY <2>6, Zenon
  <2> HIDE DEF h, Is
  <2> QED
    BY <2>7
<1> HIDE DEF Q
<1>3. n \in Q
  BY <1>1, <1>2, Induction
<1> QED
  BY <1>3 DEF Q

(* ... and FoldLeft reads it at the whole list.                             *)
LEMMA TakenFold ==
  ASSUME NEW ss, NEW info, NEW n \in Nat, DOMAIN ss = 1 .. n
  PROVE  \E f : /\ f[0] = <<>>
                /\ \A k \in 1 .. n : f[k] = TakeSignal(f[k - 1], ss[k], info)
                /\ SignalsOfProbe(ss, info) = f[n]
<1> DEFINE iter == CHOOSE g : g = [s \in SUBSET (1 .. n) |-> IF s = {} THEN <<>> ELSE TakeSignal(g[s \ {Max(s)}], ss[Max(s)], info)]
<1>1. iter = [s \in SUBSET (1 .. n) |-> IF s = {} THEN <<>> ELSE TakeSignal(iter[s \ {Max(s)}], ss[Max(s)], info)]
  <2>1. PICK g : TakenTable(g, ss, info, n)
    BY TakenTableExists, Zenon
  <2>2. g = [s \in SUBSET (1 .. n) |-> IF s = {} THEN <<>> ELSE TakeSignal(g[s \ {Max(s)}], ss[Max(s)], info)]
    BY <2>1 DEF TakenTable
  <2> QED
    BY <2>2, Zenon
<1>2. SignalsOfProbe(ss, info) = iter[1 .. n]
  BY DEF SignalsOfProbe, FoldLeft, MapThenFoldSet
<1> DEFINE f == [k \in 0 .. n |-> iter[1 .. k]]
<1>3. f[0] = <<>>
  <2>1. 1 .. 0 = {} /\ {} \in SUBSET (1 .. n)
    OBVIOUS
  <2> HIDE DEF iter
  <2> QED
    BY <1>1, <2>1
<1>4. ASSUME NEW k \in 1 .. n
      PROVE  f[k] = TakeSignal(f[k - 1], ss[k], info)
  <2>1. Max(1 .. k) = k
    <3>1. k \in Nat /\ 1 .. k \subseteq 1 .. k /\ k \in 1 .. k
      OBVIOUS
    <3> QED
      BY <3>1, MaxIsLast
  <2>2. 1 .. k \in SUBSET (1 .. n) /\ 1 .. k # {} /\ (1 .. k) \ {k} = 1 .. k - 1
    BY Intervals
  <2> HIDE DEF iter
  <2>3. iter[1 .. k] = TakeSignal(iter[1 .. k - 1], ss[k], info)
    BY <1>1, <2>1, <2>2
  <2>4. k \in 0 .. n /\ k - 1 \in 0 .. n
    OBVIOUS
  <2> QED
    BY <2>3, <2>4
<1>5. f[n] = SignalsOfProbe(ss, info)
  BY <1>2
<1> HIDE DEF f
<1> QED
  BY <1>3, <1>4, <1>5


(* A probe takes each signal that begins in it, once.                       *)
LEMMA TakenOnce ==
  ASSUME NEW ss, NEW info, NEW n \in Nat, DOMAIN ss = 1 .. n,
         \A i, j \in 1 .. n : i # j => ss[i] # ss[j]
  PROVE  LET mine == SignalsOfProbe(ss, info)
         IN  /\ IsList(mine)
             /\ \A i \in 1 .. Len(mine) : \E j \in 1 .. n : InProbe(ss[j], info) /\ mine[i] = ss[j]
             /\ \A j \in 1 .. n : InProbe(ss[j], info) => \E i \in 1 .. Len(mine) : mine[i] = ss[j]
             /\ \A h, i \in 1 .. Len(mine) : mine[h] = mine[i] => h = i
<1>1. PICK f : /\ f[0] = <<>>
               /\ \A k \in 1 .. n : f[k] = TakeSignal(f[k - 1], ss[k], info)
               /\ SignalsOfProbe(ss, info) = f[n]
  BY TakenFold
<1> DEFINE Good(k) ==
      /\ IsList(f[k])
      /\ \A i \in 1 .. Len(f[k]) : \E j \in 1 .. k : InProbe(ss[j], info) /\ f[k][i] = ss[j]
      /\ \A j \in 1 .. k : InProbe(ss[j], info) => \E i \in 1 .. Len(f[k]) : f[k][i] = ss[j]
      /\ \A h, i \in 1 .. Len(f[k]) : f[k][h] = f[k][i] => h = i
    Q == {k \in Nat : k <= n => Good(k)}
<1>2. 0 \in Q
  BY <1>1, EmptyList
<1>3. ASSUME NEW k \in Nat, k \in Q
      PROVE  k + 1 \in Q
  <2> SUFFICES ASSUME k + 1 <= n
               PROVE  Good(k + 1)
    OBVIOUS
  <2>1. k + 1 \in 1 .. n /\ (k + 1) - 1 = k /\ Good(k) /\ 1 .. k \subseteq 1 .. n
    BY <1>3
  <2>2. f[k + 1] = TakeSignal(f[k], ss[k + 1], info)
    BY <1>1, <2>1
  <2>3. \A j \in 1 .. k + 1 : j \in 1 .. k \/ j = k + 1
    OBVIOUS
  <2>4. CASE ~InProbe(ss[k + 1], info)
    <3>1. f[k + 1] = f[k]
      BY <2>2, <2>4 DEF TakeSignal
    <3>2. 1 .. k \subseteq 1 .. k + 1
      OBVIOUS
    <3> QED
      BY <2>1, <2>3, <2>4, <3>1, <3>2
  <2>5. CASE InProbe(ss[k + 1], info)
    <3> DEFINE old == f[k]
               new == f[k + 1]
               x == ss[k + 1]
               size == Len(old)
    <3>1. new = Append(old, x)
      BY <2>2, <2>5 DEF TakeSignal
    <3>2. /\ IsList(old)
          /\ \A i \in 1 .. size : \E j \in 1 .. k : InProbe(ss[j], info) /\ old[i] = ss[j]
          /\ \A j \in 1 .. k : InProbe(ss[j], info) => \E i \in 1 .. size : old[i] = ss[j]
          /\ \A h, i \in 1 .. size : old[h] = old[i] => h = i
      BY <2>1
    <3> HIDE DEF old, new
    <3>3. /\ IsList(new) /\ size \in Nat /\ Len(new) = size + 1
          /\ \A i \in 1 .. size : new[i] = old[i]
          /\ new[size + 1] = x
      BY <3>1, <3>2, Appended
    <3>4. \A i \in 1 .. Len(new) : i \in 1 .. size \/ i = size + 1
      BY <3>3
    <3>5. \A i \in 1 .. size : old[i] # x
      <4>1. \A j \in 1 .. k : ss[j] # x
        BY <2>1
      <4> QED
        BY <3>2, <4>1
    <3>6. \A i \in 1 .. Len(new) : \E j \in 1 .. k + 1 : InProbe(ss[j], info) /\ new[i] = ss[j]
      <4>1. 1 .. k \subseteq 1 .. k + 1 /\ k + 1 \in 1 .. k + 1
        OBVIOUS
      <4> QED
        BY <2>5, <3>2, <3>3, <3>4, <4>1
    <3>7. \A j \in 1 .. k + 1 : InProbe(ss[j], info) => \E i \in 1 .. Len(new) : new[i] = ss[j]
      <4> SUFFICES ASSUME NEW j \in 1 .. k + 1, InProbe(ss[j], info)
                   PROVE  \E i \in 1 .. Len(new) : new[i] = ss[j]
        OBVIOUS
      <4>1. 1 .. size \subseteq 1 .. Len(new) /\ size + 1 \in 1 .. Len(new)
        BY <3>3
      <4>2. CASE j = k + 1
        BY <3>3, <4>1, <4>2
      <4>3. CASE j \in 1 .. k
        <5>1. PICK i \in 1 .. size : old[i] = ss[j]
          BY <3>2, <4>3
        <5> QED
          BY <3>3, <4>1, <5>1
      <4> QED
        BY <2>3, <4>2, <4>3
    <3>8. \A h, i \in 1 .. Len(new) : new[h] = new[i] => h = i
      BY <3>2, <3>3, <3>4, <3>5
    <3> QED
      BY <3>3, <3>6, <3>7, <3>8 DEF new
  <2> QED
    BY <2>4, <2>5
<1> HIDE DEF Q
<1>4. n \in Q
  BY <1>2, <1>3, Induction
<1>5. Good(n)
  <2> HIDE DEF Good
  <2> QED
    BY <1>4 DEF Q
<1> QED
  BY <1>1, <1>5

(* Bit b is in the k-th signal of the p-th probe, one of the instance.      *)
Hit(probes, inst, b, p, k) ==
  /\ p \in 1 .. Len(probes) /\ k \in 1 .. Len(probes[p].signals)
  /\ probes[p].inst = inst
  /\ b \in BitsOf(probes[p].signals[k])

(* Each bit below width is in one signal of the probes of the instance.     *)
CutOnce(probes, inst, width) ==
  \A b \in 0 .. width - 1 :
    \E p, k : /\ Hit(probes, inst, b, p, k)
              /\ \A q, l : Hit(probes, inst, b, q, l) => q = p /\ l = k

(* The probes of a native instance tile it: each bit lies in one of them.   *)
Tiled(o) ==
  o.probe_info # <<>> =>
    \A b \in 0 .. o.NO_OF_PROBES - 1 :
      \E p \in 1 .. Len(o.probe_info) :
        \A q \in 1 .. Len(o.probe_info) :
          q = p <=> b \in o.probe_info[q].offset .. o.probe_info[q].offset + o.probe_info[q].width - 1

(* An instance that passes the checks has its signals laid out.             *)
LEMMA SignalsLaidOut ==
  ASSUME NEW o \in CoreInfo, \A k \in 1 .. Len(o.probes) : parse_ocla_signal(o.probes[k]),
         TotalWidth(o.probes) = o.NO_OF_PROBES
  PROVE  LET ss == LaidOut(o.probes)
             n == Len(o.probes)
         IN  /\ n \in Nat /\ DOMAIN ss = 1 .. n /\ Len(ss) = n /\ IsList(ss)
             /\ \A k \in 1 .. n : ss[k] \in Signal /\ ss[k].idx = k
             /\ \A b \in 0 .. o.NO_OF_PROBES - 1 :
                  \E k \in 1 .. n : \A j \in 1 .. n : j = k <=> b \in BitsOf(ss[j])
             /\ \A k \in 1 .. n : ss[k].bitpos \in 0 .. o.NO_OF_PROBES - 1
<1> DEFINE ts == o.probes
           ss == LaidOut(ts)
           n == Len(ts)
<1>1. ts \in Seq(SignalText)
  BY DEF CoreInfo
<1>2. \A k \in 1 .. n : SignalWidth(ts[k]) \in Nat \ {0}
  <2> TAKE k \in 1 .. n
  <2> DEFINE t == ts[k]
  <2>1. t \in SignalText /\ parse_ocla_signal(t)
    BY <1>1
  <2> HIDE DEF t
  <2>2. t.pat \in Nat /\ t.hi \in Nat /\ t.lo \in Nat /\ t.width \in Nat
    BY <2>1 DEF SignalText
  <2>3. CASE t.pat = 1
    <3>1. t.lo <= t.hi /\ SignalWidth(t) = t.hi - t.lo + 1
      BY <2>1, <2>3 DEF parse_ocla_signal, SignalWidth
    <3> QED
      BY <2>2, <3>1 DEF t
  <2>4. CASE t.pat = 2
    <3>1. t.width # 0 /\ SignalWidth(t) = t.width
      BY <2>1, <2>4 DEF parse_ocla_signal, SignalWidth
    <3> QED
      BY <2>2, <3>1 DEF t
  <2>5. CASE t.pat # 1 /\ t.pat # 2
    <3>1. SignalWidth(t) = 1
      BY <2>5 DEF SignalWidth
    <3> QED
      BY <3>1 DEF t
  <2> QED
    BY <2>3, <2>4, <2>5
<1>3. n \in Nat /\ DOMAIN ss = 1 .. n /\ \A k \in 1 .. n : ss[k].idx = k
  BY <1>1 DEF LaidOut
<1>4. /\ TotalWidth(ts) \in Nat
      /\ ss \in Seq(Signal)
      /\ Len(ss) = n
      /\ \A k \in 1 .. n : ss[k].bitpos + ss[k].bitwidth <= TotalWidth(ts)
      /\ \A b \in 0 .. TotalWidth(ts) - 1 : \E k \in 1 .. n : b \in BitsOf(ss[k])
      /\ \A j, k \in 1 .. n : j # k => BitsOf(ss[j]) \cap BitsOf(ss[k]) = {}
  <2> HIDE DEF ts
  <2> QED
    BY <1>1, <1>2, LaidOutSound
<1> HIDE DEF ss, ts, n
<1>5. IsList(ss) /\ \A k \in 1 .. n : ss[k] \in Signal
  BY <1>4 DEF IsList
<1>6. \A k \in 1 .. n : ss[k].bitpos \in 0 .. o.NO_OF_PROBES - 1
  <2> TAKE k \in 1 .. n
  <2>1. ss[k].bitpos \in Nat /\ ss[k].bitwidth \in Nat \ {0}
    BY <1>5 DEF Signal
  <2>2. ss[k].bitpos + ss[k].bitwidth <= TotalWidth(ts) /\ TotalWidth(ts) = o.NO_OF_PROBES
    BY <1>4 DEF ts
  <2> QED
    BY <1>4, <2>1, <2>2
<1>7. \A b \in 0 .. o.NO_OF_PROBES - 1 :
        \E k \in 1 .. n : \A j \in 1 .. n : j = k <=> b \in BitsOf(ss[j])
  <2> TAKE b \in 0 .. o.NO_OF_PROBES - 1
  <2>1. PICK k \in 1 .. n : b \in BitsOf(ss[k])
    BY <1>4 DEF ts
  <2>2. \A j \in 1 .. n : j = k <=> b \in BitsOf(ss[j])
    BY <1>4, <2>1
  <2> QED
    BY <2>2
<1> QED
  BY <1>3, <1>4, <1>5, <1>6, <1>7 DEF ss, ts, n

(* Where a probe lies.                                                      *)
LEMMA InfoRange ==
  ASSUME NEW o \in CoreInfo, NEW r \in 1 .. Len(o.probe_info)
  PROVE  o.probe_info[r].offset \in Nat /\ o.probe_info[r].width \in Nat
<1> DEFINE S == [index : Nat, offset : Nat, width : Nat]
           l == o.probe_info
<1>1. l \in Seq(S)
  BY DEF CoreInfo
<1> HIDE DEF l, S
<1>2. l[r] \in S
  BY <1>1 DEF l
<1> QED
  BY <1>2 DEF l, S

(* The probes of a native instance: the signals that begin in each.         *)
LEMMA ProbeSignals ==
  ASSUME NEW o \in CoreInfo, \A k \in 1 .. Len(o.probes) : parse_ocla_signal(o.probes[k]),
         TotalWidth(o.probes) = o.NO_OF_PROBES, NEW p \in 1 .. Len(o.probe_info)
  PROVE  LET mine == SignalsOfProbe(LaidOut(o.probes), o.probe_info[p])
             list == NativeProbes(o)[p].signals
         IN  /\ IsList(list) /\ Len(list) = Len(mine)
             /\ \A i \in 1 .. Len(mine) : BitsOf(list[i]) = BitsOf(mine[i])
<1> DEFINE n == Len(o.probe_info)
           mine == SignalsOfProbe(LaidOut(o.probes), o.probe_info[p])
           ss == LaidOut(o.probes)
           size == Len(o.probes)
<1>1. n \in Nat /\ DOMAIN o.probe_info = 1 .. n
  BY DEF CoreInfo
<1> HIDE DEF n
<1>2. PICK f : /\ f[0] = [next |-> 1, probes |-> <<>>]
               /\ \A k \in 1 .. n : f[k] = AddProbe(f[k - 1], o.probe_info[k], o)
               /\ AddProbes(o) = f[n]
  BY <1>1, ProbesFold
<1> DEFINE List(k) == [ i \in 1 .. Len(SignalsIn(o.probe_info[k], o)) |->
                          [SignalsIn(o.probe_info[k], o)[i] EXCEPT !.idx = f[k - 1].next + i - 1] ]
           Good(k) == /\ IsList(f[k].probes) /\ Len(f[k].probes) = k
                      /\ \A q \in 1 .. k : f[k].probes[q].signals = List(q)
           Q == {k \in Nat : k <= n => Good(k)}
<1>3. 0 \in Q
  BY <1>2, EmptyList
<1>4. ASSUME NEW k \in Nat, k \in Q
      PROVE  k + 1 \in Q
  <2> SUFFICES ASSUME k + 1 <= n
               PROVE  Good(k + 1)
    OBVIOUS
  <2>1. k + 1 \in 1 .. n /\ (k + 1) - 1 = k /\ Good(k)
    BY <1>1, <1>4
  <2> HIDE DEF List
  <2>2. PICK x : /\ f[k + 1].probes = Append(f[k].probes, x)
                 /\ x.signals = List(k + 1)
    <3>1. f[k + 1] = AddProbe(f[k], o.probe_info[k + 1], o)
      BY <1>2, <2>1
    <3> DEFINE in == SignalsIn(o.probe_info[k + 1], o)
               signals == [i \in 1 .. Len(in) |-> [in[i] EXCEPT !.idx = f[k].next + i - 1]]
               x == [index |-> o.probe_info[k + 1].index + 1, inst |-> o.INDEX, signals |-> signals]
    <3>2. f[k + 1].probes = Append(f[k].probes, x)
      BY <3>1 DEF AddProbe
    <3>3. x.signals = signals
      OBVIOUS
    <3>4. f[(k + 1) - 1] = f[k]
      BY <2>1
    <3> HIDE DEF in, x
    <3>5. List(k + 1) = [i \in 1 .. Len(in) |-> [in[i] EXCEPT !.idx = f[(k + 1) - 1].next + i - 1]]
      BY Zenon DEF List, in
    <3>6. x.signals = List(k + 1)
      BY <3>3, <3>4, <3>5
    <3> QED
      BY <3>2, <3>6
  <2>3. /\ IsList(f[k + 1].probes) /\ Len(f[k + 1].probes) = k + 1
        /\ \A q \in 1 .. k : f[k + 1].probes[q] = f[k].probes[q]
        /\ f[k + 1].probes[k + 1] = x
    BY <2>1, <2>2, Appended
  <2> QED
    BY <2>1, <2>2, <2>3
<1> HIDE DEF Q
<1>5. n \in Q
  BY <1>1, <1>3, <1>4, Induction
<1>6. Good(n)
  BY <1>1, <1>5 DEF Q
<1>7. NativeProbes(o)[p].signals = List(p)
  BY <1>2, <1>6 DEF NativeProbes, n
<1>8. mine = SignalsIn(o.probe_info[p], o)
  BY DEF SignalsIn, SignalsOfProbe
<1>9. /\ size \in Nat /\ DOMAIN ss = 1 .. size
      /\ \A k \in 1 .. size : ss[k] \in Signal /\ ss[k].idx = k
  BY SignalsLaidOut
<1> HIDE DEF ss, size
<1>10. \A i, j \in 1 .. size : i # j => ss[i] # ss[j]
  BY <1>9
<1>11. IsList(mine) /\ \A i \in 1 .. Len(mine) : \E j \in 1 .. size : mine[i] = ss[j]
  BY <1>9, <1>10, TakenOnce DEF ss
<1> DEFINE list == [i \in 1 .. Len(mine) |-> [mine[i] EXCEPT !.idx = f[p - 1].next + i - 1]]
<1>12. NativeProbes(o)[p].signals = list
  BY <1>7, <1>8
<1> HIDE DEF mine
<1>13. Len(mine) \in Nat
  BY <1>11 DEF IsList
<1>14. IsList(list) /\ Len(list) = Len(mine)
  <2>1. DOMAIN list = 1 .. Len(mine) /\ list = [i \in 1 .. Len(mine) |-> list[i]]
    OBVIOUS
  <2> HIDE DEF list
  <2> QED
    BY <1>13, <2>1, Listed
<1>15. ASSUME NEW i \in 1 .. Len(mine)
       PROVE  BitsOf(list[i]) = BitsOf(mine[i])
  <2>1. mine[i] \in Signal
    BY <1>9, <1>11
  <2>2. ASSUME NEW x, NEW y, x \in Signal, NEW v, y = [x EXCEPT !.idx = v]
        PROVE  BitsOf(y) = BitsOf(x)
    <3>1. y.bitpos = x.bitpos /\ y.bitwidth = x.bitwidth
      BY <2>2 DEF Signal
    <3> QED
      BY <3>1 DEF BitsOf
  <2>3. list[i] = [mine[i] EXCEPT !.idx = f[p - 1].next + i - 1]
    OBVIOUS
  <2> HIDE DEF list
  <2> QED
    BY <2>1, <2>2, <2>3
<1> QED
  BY <1>12, <1>14, <1>15 DEF mine

(* A native instance is cut by its probes, if they tile it.                 *)
LEMMA NativeCut ==
  ASSUME NEW o \in CoreInfo, \A k \in 1 .. Len(o.probes) : parse_ocla_signal(o.probes[k]),
         TotalWidth(o.probes) = o.NO_OF_PROBES, o.probe_info # <<>>, Tiled(o)
  PROVE  /\ CutOnce(NativeProbes(o), o.INDEX, o.NO_OF_PROBES)
         /\ \A p \in 1 .. Len(NativeProbes(o)) : IsList(NativeProbes(o)[p].signals)
<1> DEFINE ss == LaidOut(o.probes)
           n == Len(o.probes)
           infos == o.probe_info
           probes == NativeProbes(o)
           Mine(p) == SignalsOfProbe(ss, infos[p])
<1>1. /\ n \in Nat /\ DOMAIN ss = 1 .. n
      /\ \A k \in 1 .. n : ss[k] \in Signal /\ ss[k].idx = k
      /\ \A b \in 0 .. o.NO_OF_PROBES - 1 :
           \E k \in 1 .. n : \A j \in 1 .. n : j = k <=> b \in BitsOf(ss[j])
      /\ \A k \in 1 .. n : ss[k].bitpos \in 0 .. o.NO_OF_PROBES - 1
  BY SignalsLaidOut
<1>2. /\ Len(probes) = Len(infos) /\ Len(infos) \in Nat
      /\ \A p \in 1 .. Len(infos) : probes[p].inst = o.INDEX
  <2>1. infos \in Seq([index : Nat, offset : Nat, width : Nat])
    BY DEF CoreInfo
  <2>2. Len(infos) \in Nat
    BY <2>1
  <2>3. /\ Len(NativeProbes(o)) = Len(o.probe_info)
        /\ \A p \in 1 .. Len(o.probe_info) : NativeProbes(o)[p].inst = o.INDEX
    BY ProbesOfInstance
  <2> QED
    BY <2>2, <2>3
<1>3. \A p \in 1 .. Len(infos) :
        /\ IsList(probes[p].signals) /\ Len(probes[p].signals) = Len(Mine(p))
        /\ \A i \in 1 .. Len(Mine(p)) : BitsOf(probes[p].signals[i]) = BitsOf(Mine(p)[i])
  BY ProbeSignals
<1>4. \A j \in 1 .. n : \A p \in 1 .. Len(infos) :
        InProbe(ss[j], infos[p]) <=>
          ss[j].bitpos \in infos[p].offset .. infos[p].offset + infos[p].width - 1
  <2> TAKE j \in 1 .. n
  <2> TAKE p \in 1 .. Len(infos)
  <2>1. ss[j].bitpos \in Nat
    BY <1>1 DEF Signal
  <2>2. infos[p].offset \in Nat /\ infos[p].width \in Nat
    BY InfoRange
  <2> QED
    <3> DEFINE x == ss[j].bitpos
               a == infos[p].offset
               w == infos[p].width
    <3>1. x \in Nat /\ a \in Nat /\ w \in Nat
      BY <2>1, <2>2
    <3>2. InProbe(ss[j], infos[p]) <=> x >= a /\ x < a + w
      BY DEF InProbe
    <3> HIDE DEF x, a, w
    <3>3. x \in a .. a + w - 1 <=> x >= a /\ x < a + w
      BY <3>1
    <3> QED
      BY <3>2, <3>3 DEF x, a, w
<1> HIDE DEF ss, n, infos, probes
<1>5. \A i, j \in 1 .. n : i # j => ss[i] # ss[j]
  BY <1>1
<1>6. \A p :
        /\ \A i \in 1 .. Len(Mine(p)) : \E j \in 1 .. n : InProbe(ss[j], infos[p]) /\ Mine(p)[i] = ss[j]
        /\ \A j \in 1 .. n : InProbe(ss[j], infos[p]) => \E i \in 1 .. Len(Mine(p)) : Mine(p)[i] = ss[j]
        /\ \A h, i \in 1 .. Len(Mine(p)) : Mine(p)[h] = Mine(p)[i] => h = i
  BY <1>1, <1>5, TakenOnce
<1> HIDE DEF Mine
<1>7. ASSUME NEW b \in 0 .. o.NO_OF_PROBES - 1
      PROVE  \E p, k : /\ Hit(probes, o.INDEX, b, p, k)
                       /\ \A q, l : Hit(probes, o.INDEX, b, q, l) => q = p /\ l = k
  <2>1. PICK j \in 1 .. n : \A h \in 1 .. n : h = j <=> b \in BitsOf(ss[h])
    BY <1>1
  <2>2. PICK p \in 1 .. Len(infos) : \A q \in 1 .. Len(infos) :
          q = p <=> ss[j].bitpos \in infos[q].offset .. infos[q].offset + infos[q].width - 1
    BY <1>1 DEF Tiled, infos
  <2>3. \A q \in 1 .. Len(infos) : q = p <=> InProbe(ss[j], infos[q])
    BY <1>4, <2>2
  <2>4. PICK k \in 1 .. Len(Mine(p)) : Mine(p)[k] = ss[j]
    BY <1>6, <2>3
  <2>5. Hit(probes, o.INDEX, b, p, k)
    BY <1>2, <1>3, <2>1, <2>4 DEF Hit
  <2>6. ASSUME NEW q, NEW l, Hit(probes, o.INDEX, b, q, l)
        PROVE  q = p /\ l = k
    <3>1. q \in 1 .. Len(infos) /\ l \in 1 .. Len(Mine(q)) /\ b \in BitsOf(Mine(q)[l])
      BY <1>2, <1>3, <2>6 DEF Hit
    <3>2. PICK h \in 1 .. n : InProbe(ss[h], infos[q]) /\ Mine(q)[l] = ss[h]
      BY <1>6, <3>1
    <3>3. h = j
      BY <2>1, <3>1, <3>2
    <3>4. q = p
      BY <2>3, <3>1, <3>2, <3>3
    <3> QED
      BY <1>6, <2>4, <3>1, <3>2, <3>3, <3>4
  <2> QED
    BY <2>5, <2>6
<1>8. CutOnce(probes, o.INDEX, o.NO_OF_PROBES)
  BY <1>7 DEF CutOnce
<1> QED
  BY <1>2, <1>3, <1>8 DEF probes

(* Probes of other instances that come after do not matter ...              *)
LEMMA CutBefore ==
  ASSUME NEW a, NEW c, IsList(a), IsList(c), NEW inst, NEW width,
         CutOnce(a, inst, width), \A p \in 1 .. Len(c) : c[p].inst # inst
  PROVE  CutOnce(a \o c, inst, width)
<1> DEFINE all == a \o c
<1>1. /\ Len(a) \in Nat /\ Len(c) \in Nat /\ Len(all) = Len(a) + Len(c)
      /\ \A p \in 1 .. Len(a) : all[p] = a[p]
      /\ \A p \in 1 .. Len(c) : all[Len(a) + p] = c[p]
      /\ \A p \in 1 .. Len(all) : p \in 1 .. Len(a) \/ p - Len(a) \in 1 .. Len(c)
  BY Joined
<1> HIDE DEF all
<1>2. \A b, p, k : Hit(all, inst, b, p, k) <=> Hit(a, inst, b, p, k)
  <2> TAKE b, p, k
  <2>1. CASE p \in 1 .. Len(a)
    <3>1. p \in 1 .. Len(all) /\ all[p] = a[p]
      BY <1>1, <2>1
    <3> QED
      BY <2>1, <3>1 DEF Hit
  <2>2. CASE p \notin 1 .. Len(a) /\ p \in 1 .. Len(all)
    <3>1. PICK q \in 1 .. Len(c) : all[p] = c[q]
      <4>1. p - Len(a) \in 1 .. Len(c) /\ Len(a) + (p - Len(a)) = p
        BY <1>1, <2>2
      <4> QED
        BY <1>1, <4>1
    <3> QED
      BY <2>2, <3>1 DEF Hit
  <2>3. CASE p \notin 1 .. Len(a) /\ p \notin 1 .. Len(all)
    BY <2>3 DEF Hit
  <2> QED
    BY <2>1, <2>2, <2>3
<1>3. CutOnce(all, inst, width)
  <2> SUFFICES ASSUME NEW b \in 0 .. width - 1
               PROVE  \E p, k : /\ Hit(all, inst, b, p, k)
                                /\ \A q, l : Hit(all, inst, b, q, l) => q = p /\ l = k
    BY DEF CutOnce
  <2>1. PICK p, k : /\ Hit(a, inst, b, p, k)
                    /\ \A q, l : Hit(a, inst, b, q, l) => q = p /\ l = k
    BY DEF CutOnce
  <2>2. Hit(all, inst, b, p, k) /\ \A q, l : Hit(all, inst, b, q, l) => q = p /\ l = k
    BY <1>2, <2>1
  <2> QED
    BY <2>2
<1> QED
  BY <1>3 DEF all

(* ... nor do those of instances before.                                    *)
LEMMA CutAfter ==
  ASSUME NEW a, NEW c, IsList(a), IsList(c), NEW inst, NEW width,
         CutOnce(c, inst, width), \A p \in 1 .. Len(a) : a[p].inst # inst
  PROVE  CutOnce(a \o c, inst, width)
<1> DEFINE all == a \o c
           size == Len(a)
<1>1. /\ size \in Nat /\ Len(c) \in Nat /\ Len(all) = size + Len(c)
      /\ \A p \in 1 .. size : all[p] = a[p]
      /\ \A p \in 1 .. Len(c) : all[size + p] = c[p]
      /\ \A p \in 1 .. Len(all) : p \in 1 .. size \/ p - size \in 1 .. Len(c)
  BY Joined
<1> HIDE DEF all, size
<1>2. \A b, p, k : Hit(c, inst, b, p, k) => Hit(all, inst, b, size + p, k)
  <2> TAKE b, p, k
  <2> HAVE Hit(c, inst, b, p, k)
  <2>1. p \in 1 .. Len(c)
    BY DEF Hit
  <2>2. size + p \in 1 .. Len(all) /\ all[size + p] = c[p]
    BY <1>1, <2>1
  <2> QED
    BY <2>2 DEF Hit
<1>3. \A b, p, k : Hit(all, inst, b, p, k) =>
        \E q \in 1 .. Len(c) : p = size + q /\ Hit(c, inst, b, q, k)
  <2> TAKE b, p, k
  <2> HAVE Hit(all, inst, b, p, k)
  <2>1. p \in 1 .. Len(all) /\ p \notin 1 .. size
    BY <1>1 DEF Hit, size
  <2>2. p - size \in 1 .. Len(c) /\ p = size + (p - size)
    BY <1>1, <2>1
  <2>3. PICK q \in 1 .. Len(c) : p = size + q
    BY <2>2
  <2>4. all[p] = c[q]
    BY <1>1, <2>3
  <2> QED
    BY <2>3, <2>4 DEF Hit
<1>4. CutOnce(all, inst, width)
  <2> SUFFICES ASSUME NEW b \in 0 .. width - 1
               PROVE  \E p, k : /\ Hit(all, inst, b, p, k)
                                /\ \A q, l : Hit(all, inst, b, q, l) => q = p /\ l = k
    BY DEF CutOnce
  <2>1. PICK p, k : /\ Hit(c, inst, b, p, k)
                    /\ \A q, l : Hit(c, inst, b, q, l) => q = p /\ l = k
    BY DEF CutOnce
  <2>2. Hit(all, inst, b, size + p, k)
    BY <1>2, <2>1
  <2>3. \A q, l : Hit(all, inst, b, q, l) => q = size + p /\ l = k
    BY <1>3, <2>1, Zenon
  <2> QED
    BY <2>2, <2>3
<1> QED
  BY <1>4 DEF all

(* The instances of a domain are cut by its probes.                         *)
DomainCut(d) ==
  /\ \A p \in 1 .. Len(d.probes) : IsList(d.probes[p].signals)
  /\ \A i \in 1 .. Len(d.instances) :
       CutOnce(d.probes, d.instances[i].index, d.instances[i].width)

AllCut(list) == \A m \in 1 .. Len(list) : DomainCut(list[m])

(* The one probe of an AXI instance has all its signals.                    *)
LEMMA AxiCut ==
  ASSUME NEW o \in CoreInfo, \A k \in 1 .. Len(o.probes) : parse_ocla_signal(o.probes[k]),
         TotalWidth(o.probes) = o.NO_OF_PROBES
  PROVE  DomainCut(AxiDomain(o))
<1> DEFINE ss == LaidOut(o.probes)
           n == Len(o.probes)
           probe == [index |-> 1, inst |-> o.INDEX, signals |-> ss]
           d == AxiDomain(o)
<1>1. /\ n \in Nat /\ Len(ss) = n /\ IsList(ss)
      /\ \A b \in 0 .. o.NO_OF_PROBES - 1 :
           \E k \in 1 .. n : \A j \in 1 .. n : j = k <=> b \in BitsOf(ss[j])
  BY SignalsLaidOut
<1>2. d.probes = <<probe>> /\ d.instances = <<OclaInstance(o)>>
  BY DEF AxiDomain
<1>3. probe.signals = ss /\ probe.inst = o.INDEX
  OBVIOUS
<1>4. OclaInstance(o).index = o.INDEX /\ OclaInstance(o).width = o.NO_OF_PROBES
  BY DEF OclaInstance
<1> HIDE DEF ss, n, probe, d
<1>5. \A p : p \in 1 .. Len(<<probe>>) <=> p = 1
  OBVIOUS
<1>6. CutOnce(<<probe>>, o.INDEX, o.NO_OF_PROBES)
  <2> SUFFICES ASSUME NEW b \in 0 .. o.NO_OF_PROBES - 1
               PROVE  \E p, k : /\ Hit(<<probe>>, o.INDEX, b, p, k)
                                /\ \A q, l : Hit(<<probe>>, o.INDEX, b, q, l) => q = p /\ l = k
    BY DEF CutOnce
  <2>1. PICK k \in 1 .. n : \A j \in 1 .. n : j = k <=> b \in BitsOf(ss[j])
    BY <1>1
  <2>2. \A q, l : Hit(<<probe>>, o.INDEX, b, q, l) <=> q = 1 /\ l \in 1 .. n /\ b \in BitsOf(ss[l])
    <3> TAKE q, l
    <3>1. CASE q = 1
      <4>1. <<probe>>[q] = probe
        BY <3>1
      <4> QED
        BY <1>1, <1>3, <1>5, <3>1, <4>1 DEF Hit
    <3>2. CASE q # 1
      BY <1>5, <3>2 DEF Hit
    <3> QED
      BY <3>1, <3>2
  <2>3. Hit(<<probe>>, o.INDEX, b, 1, k)
    BY <2>1, <2>2
  <2>4. \A q, l : Hit(<<probe>>, o.INDEX, b, q, l) => q = 1 /\ l = k
    BY <2>1, <2>2
  <2> QED
    BY <2>3, <2>4
<1>7. Len(<<OclaInstance(o)>>) = 1 /\ <<OclaInstance(o)>>[1] = OclaInstance(o) /\ <<probe>>[1] = probe
  OBVIOUS
<1>8. DomainCut(d)
  <2>1. \A p \in 1 .. Len(<<probe>>) : IsList(<<probe>>[p].signals)
    BY <1>1, <1>3, <1>5, <1>7
  <2>2. \A i \in 1 .. Len(<<OclaInstance(o)>>) :
          CutOnce(<<probe>>, <<OclaInstance(o)>>[i].index, <<OclaInstance(o)>>[i].width)
    <3>1. \A i \in 1 .. Len(<<OclaInstance(o)>>) : i = 1
      BY <1>7
    <3> QED
      BY <1>4, <1>6, <1>7, <3>1
  <2> QED
    BY <1>2, <2>1, <2>2 DEF DomainCut
<1> QED
  BY <1>8 DEF d

(* Domain after domain.                                                     *)
LEMMA CutAppended ==
  ASSUME NEW list, NEW d, IsList(list), AllCut(list), DomainCut(d)
  PROVE  AllCut(Append(list, d))
<1> DEFINE all == Append(list, d)
<1>1. /\ Len(list) \in Nat /\ Len(all) = Len(list) + 1
      /\ \A m \in 1 .. Len(list) : all[m] = list[m]
      /\ all[Len(list) + 1] = d
  BY Appended
<1> HIDE DEF all
<1>2. \A m \in 1 .. Len(all) : m \in 1 .. Len(list) \/ m = Len(list) + 1
  BY <1>1
<1>3. AllCut(all)
  BY <1>1, <1>2 DEF AllCut
<1> QED
  BY <1>3 DEF all

(* A native instance joins a domain: its probes are not those of others.    *)
LEMMA JoinCut ==
  ASSUME NEW domains, NEW axis, NEW seen, NEW json, NEW k \in Nat, NEW o \in CoreInfo,
         AllPlaced(domains, axis, seen, json, k), Len(domains) # 0, o.INDEX \notin seen,
         AllCut(domains), CutOnce(NativeProbes(o), o.INDEX, o.NO_OF_PROBES),
         \A p \in 1 .. Len(NativeProbes(o)) : IsList(NativeProbes(o)[p].signals)
  PROVE  AllCut(Join(domains, o))
<1> DEFINE last == Len(domains)
           d == domains[last]
           news == NativeProbes(o)
           e == WithInstance(d, o)
           ds == Join(domains, o)
<1>1. IsList(domains) /\ last \in 1 .. last /\ last \in Nat
  <2>1. PICK S : domains \in Seq(S)
    BY DEF AllPlaced, IsList
  <2> QED
    BY <2>1 DEF IsList
<1>2. DomainSound(d, json) /\ DomainCut(d)
  BY <1>1 DEF AllPlaced, AllCut
<1>3. /\ Len(ds) = last /\ ds[last] = e
      /\ \A m \in 1 .. last : m # last => ds[m] = domains[m]
  BY <1>1, <1>2, JoinIs
<1>4. e.probes = d.probes \o news /\ e.instances = Append(d.instances, OclaInstance(o))
  BY DEF WithInstance
<1>5. IsList(d.probes) /\ IsList(d.instances)
  BY <1>2 DEF DomainSound
<1>6. IsList(news) /\ \A p \in 1 .. Len(news) : news[p].inst = o.INDEX
  BY ProbesOfInstance
<1>7. \A i \in 1 .. Len(d.instances) : d.instances[i].index \in seen
  BY <1>1 DEF AllPlaced, Within
<1>8. \A p \in 1 .. Len(d.probes) : d.probes[p].inst \in seen
  BY <1>2, <1>7 DEF DomainSound
<1> HIDE DEF d, e, ds, news, last
<1>9. CutOnce(e.probes, o.INDEX, o.NO_OF_PROBES)
  <2>1. CutOnce(d.probes \o news, o.INDEX, o.NO_OF_PROBES)
    <3>1. \A p \in 1 .. Len(d.probes) : d.probes[p].inst # o.INDEX
      BY <1>8
    <3>2. CutOnce(news, o.INDEX, o.NO_OF_PROBES)
      BY DEF news
    <3> QED
      BY <1>5, <1>6, <3>1, <3>2, CutAfter
  <2> QED
    BY <1>4, <2>1
<1>10. \A i \in 1 .. Len(d.instances) : CutOnce(e.probes, d.instances[i].index, d.instances[i].width)
  <2> TAKE i \in 1 .. Len(d.instances)
  <2> DEFINE inst == d.instances[i].index
             width == d.instances[i].width
  <2>1. CutOnce(d.probes, inst, width)
    BY <1>2 DEF DomainCut
  <2>2. \A p \in 1 .. Len(news) : news[p].inst # inst
    BY <1>6, <1>7
  <2> HIDE DEF inst, width
  <2>3. CutOnce(d.probes \o news, inst, width)
    BY <1>5, <1>6, <2>1, <2>2, CutBefore
  <2> QED
    BY <1>4, <2>3 DEF inst, width
<1>11. \A p \in 1 .. Len(e.probes) : IsList(e.probes[p].signals)
  <2>1. \A a, c, u : IsList(a) /\ IsList(c) /\ u = a \o c =>
          \A p \in 1 .. Len(u) : \/ p \in 1 .. Len(a) /\ u[p] = a[p]
                                 \/ \E q \in 1 .. Len(c) : u[p] = c[q]
    <3> SUFFICES ASSUME NEW a, NEW c, IsList(a), IsList(c), NEW p \in 1 .. Len(a \o c),
                        p \notin 1 .. Len(a)
                 PROVE  \E q \in 1 .. Len(c) : (a \o c)[p] = c[q]
      BY Joined
    <3>1. p - Len(a) \in 1 .. Len(c) /\ Len(a) + (p - Len(a)) = p
      BY Joined
    <3> QED
      BY <3>1, Joined
  <2>2. \A p \in 1 .. Len(e.probes) : \/ p \in 1 .. Len(d.probes) /\ e.probes[p] = d.probes[p]
                                      \/ \E q \in 1 .. Len(news) : e.probes[p] = news[q]
    <3>1. \A p \in 1 .. Len(d.probes \o news) :
            \/ p \in 1 .. Len(d.probes) /\ (d.probes \o news)[p] = d.probes[p]
            \/ \E q \in 1 .. Len(news) : (d.probes \o news)[p] = news[q]
      BY <1>5, <1>6, <2>1
    <3> QED
      BY <1>4, <3>1, Zenon
  <2>3. \A q \in 1 .. Len(news) : IsList(news[q].signals)
    BY DEF news
  <2> QED
    BY <1>2, <2>2, <2>3 DEF DomainCut
<1>12. DomainCut(e)
  <2> DEFINE size == Len(d.instances)
             x == OclaInstance(o)
  <2>1. x.index = o.INDEX /\ x.width = o.NO_OF_PROBES
    BY DEF OclaInstance
  <2> HIDE DEF x
  <2>2. /\ size \in Nat /\ Len(e.instances) = size + 1
        /\ \A i \in 1 .. size : e.instances[i] = d.instances[i]
        /\ e.instances[size + 1] = x
    BY <1>4, <1>5, Appended DEF x
  <2> HIDE DEF size
  <2>3. \A i \in 1 .. Len(e.instances) : i \in 1 .. size \/ i = size + 1
    BY <2>2
  <2>4. \A i \in 1 .. Len(e.instances) :
          CutOnce(e.probes, e.instances[i].index, e.instances[i].width)
    BY <1>9, <1>10, <2>1, <2>2, <2>3 DEF size
  <2> QED
    BY <1>11, <2>4 DEF DomainCut
<1>13. AllCut(ds)
  <2> SUFFICES ASSUME NEW m \in 1 .. Len(ds)
               PROVE  DomainCut(ds[m])
    BY DEF AllCut
  <2>1. CASE m = last
    BY <1>3, <1>12, <2>1
  <2>2. CASE m # last
    BY <1>3, <2>2 DEF AllCut, last
  <2> QED
    BY <2>1, <2>2
<1> QED
  BY <1>13 DEF ds

(* What parse_ocla keeps of cuts.                                           *)
AccCut(a) == a.ok => AllCut(a.domains) /\ AllCut(a.deferred)

(* A domain of its own has no instance yet.                                 *)
LEMMA NewDomainCut ==
  ASSUME NEW domains, NEW index, IsList(domains), AllCut(domains)
  PROVE  AllCut(Append(domains, OclaDomain("native", index)))
<1> DEFINE d == OclaDomain("native", index)
<1>1. d.probes = <<>> /\ d.instances = <<>>
  BY DEF OclaDomain
<1> HIDE DEF d
<1>2. DomainCut(d)
  BY <1>1, EmptyList DEF DomainCut
<1>3. AllCut(Append(domains, d))
  BY <1>2, CutAppended
<1> QED
  BY <1>3 DEF d

(* A native instance is placed.                                             *)
LEMMA PlaceNativeCut ==
  ASSUME NEW domains, NEW axis, NEW seen, NEW json, NEW k \in Nat, NEW single \in BOOLEAN,
         NEW o \in CoreInfo, AllPlaced(domains, axis, seen, json, k),
         single => Len(domains) # 0, o.INDEX \notin seen, AllCut(domains),
         CutOnce(NativeProbes(o), o.INDEX, o.NO_OF_PROBES),
         \A p \in 1 .. Len(NativeProbes(o)) : IsList(NativeProbes(o)[p].signals)
  PROVE  AllCut(PlaceNative(domains, o, single))
<1> DEFINE ds == IF single THEN domains
                 ELSE Append(domains, OclaDomain("native", Len(domains) + 1))
<1>1. AllPlaced(ds, axis, seen, json, k) /\ Len(ds) # 0 /\ AllCut(ds)
  <2>1. CASE single
    BY <2>1
  <2>2. CASE ~single
    <3>1. ds = Append(domains, OclaDomain("native", Len(domains) + 1))
      BY <2>2
    <3>2. AllPlaced(Append(domains, OclaDomain("native", Len(domains) + 1)), axis, seen, json, k)
          /\ Len(Append(domains, OclaDomain("native", Len(domains) + 1))) # 0
      BY NewDomain
    <3>3. AllCut(Append(domains, OclaDomain("native", Len(domains) + 1)))
      BY NewDomainCut DEF AllPlaced
    <3> HIDE DEF ds
    <3> QED
      BY <3>1, <3>2, <3>3, Zenon
  <2> QED
    BY <2>1, <2>2
<1>2. PlaceNative(domains, o, single) = Join(ds, o)
  BY DEF PlaceNative, Join
<1> HIDE DEF ds
<1>3. AllCut(Join(ds, o))
  BY <1>1, JoinCut
<1> QED
  BY <1>2, <1>3

(* One more instance.                                                       *)
LEMMA AddInstanceCut ==
  ASSUME NEW acc, NEW json, NEW k \in Nat, NEW single \in BOOLEAN, NEW o \in CoreInfo,
         AccSound(acc, single, json, k), AccCut(acc), Tiled(o)
  PROVE  AccCut(AddInstance(acc, o, single))
<1> DEFINE new == AddInstance(acc, o, single)
           seen == [acc EXCEPT !.indexes = @ \cup {o.INDEX}, !.sum = @ + o.NO_OF_PROBES]
<1>1. CASE ~acc.ok
  <2>1. new = acc
    BY <1>1 DEF AddInstance
  <2> QED
    BY <2>1
<1>2. CASE acc.ok /\ ~InstanceFits(acc, o)
  <2>1. new = [acc EXCEPT !.ok = FALSE]
    BY <1>2 DEF AddInstance
  <2>2. "ok" \in DOMAIN acc
    BY DEF AccSound
  <2> HIDE DEF new
  <2>3. new.ok = FALSE
    BY <2>1, <2>2
  <2>4. AccCut(new)
    BY <2>3 DEF AccCut
  <2> QED
    BY <2>4 DEF new
<1>3. CASE acc.ok /\ InstanceFits(acc, o)
  <2>1. AllPlaced(acc.domains, acc.deferred, acc.indexes, json, k) /\ (single => Len(acc.domains) # 0)
    BY <1>3 DEF AccSound
  <2>2. /\ o.INDEX \notin acc.indexes
        /\ \A m \in 1 .. Len(o.probes) : parse_ocla_signal(o.probes[m])
        /\ TotalWidth(o.probes) = o.NO_OF_PROBES
    BY <1>3 DEF InstanceFits
  <2>3. AllCut(acc.domains) /\ AllCut(acc.deferred)
    BY <1>3 DEF AccCut
  <2>4. /\ {"domains", "deferred"} \subseteq DOMAIN seen
        /\ seen.domains = acc.domains /\ seen.deferred = acc.deferred
    <3>1. ASSUME NEW x, NEW y, NEW u, NEW v,
                 x = [ ok |-> x.ok, indexes |-> x.indexes, sum |-> x.sum,
                       deferred |-> x.deferred, domains |-> x.domains ],
                 y = [x EXCEPT !.indexes = u, !.sum = v]
          PROVE  /\ {"domains", "deferred"} \subseteq DOMAIN y
                 /\ y.domains = x.domains /\ y.deferred = x.deferred
      BY <3>1
    <3>2. seen = [acc EXCEPT !.indexes = acc.indexes \cup {o.INDEX}, !.sum = acc.sum + o.NO_OF_PROBES]
      OBVIOUS
    <3>3. acc = [ ok |-> acc.ok, indexes |-> acc.indexes, sum |-> acc.sum,
                  deferred |-> acc.deferred, domains |-> acc.domains ]
      BY DEF AccSound
    <3> HIDE DEF seen
    <3> QED
      BY <3>1, <3>2, <3>3
  <2> HIDE DEF seen
  <2>5. CASE o.probe_info = <<>>
    <3>1. new = [seen EXCEPT !.deferred = Append(@, AxiDomain(o))]
      BY <1>3, <2>5 DEF AddInstance, seen
    <3>2. new.domains = acc.domains /\ new.deferred = Append(acc.deferred, AxiDomain(o))
      BY <2>4, <3>1
    <3>3. DomainCut(AxiDomain(o))
      BY <2>2, AxiCut
    <3>4. IsList(acc.deferred)
      BY <2>1 DEF AllPlaced
    <3>5. AllCut(Append(acc.deferred, AxiDomain(o)))
      BY <2>3, <3>3, <3>4, CutAppended
    <3> HIDE DEF new
    <3>6. AccCut(new)
      BY <2>3, <3>2, <3>5 DEF AccCut
    <3> QED
      BY <3>6 DEF new
  <2>6. CASE o.probe_info # <<>>
    <3>1. new = [seen EXCEPT !.domains = PlaceNative(@, o, single)]
      BY <1>3, <2>6 DEF AddInstance, seen
    <3>2. new.domains = PlaceNative(acc.domains, o, single) /\ new.deferred = acc.deferred
      BY <2>4, <3>1
    <3>3. /\ CutOnce(NativeProbes(o), o.INDEX, o.NO_OF_PROBES)
          /\ \A p \in 1 .. Len(NativeProbes(o)) : IsList(NativeProbes(o)[p].signals)
      BY <2>2, <2>6, NativeCut
    <3>4. AllCut(PlaceNative(acc.domains, o, single))
      BY <2>1, <2>2, <2>3, <3>3, PlaceNativeCut
    <3> HIDE DEF new
    <3>5. AccCut(new)
      BY <2>3, <3>2, <3>4 DEF AccCut
    <3> QED
      BY <3>5 DEF new
  <2> QED
    BY <2>5, <2>6
<1> QED
  BY <1>1, <1>2, <1>3

(* What a session needs of its domains.                                     *)
ListsCut(ds) ==
  /\ AllCut(ds)
  /\ \A m \in 1 .. Len(ds) : IsList(ds[m].instances) /\ IsList(ds[m].probes)

(* The offsets and widths of probe_info tile each native instance.          *)
ProbesTile(json) == \A j \in 1 .. Len(json.ocla) : Tiled(json.ocla[j])

(* OclaDebugSession::parse_ocla, when the probes of each instance tile it.  *)
LEMMA ParsedOclaCut ==
  ASSUME NEW json, json.ocla \in Seq(CoreInfo), parse_ocla(json).status = "ok",
         ProbesTile(json)
  PROVE  ListsCut(parse_ocla(json).domains)
<1> DEFINE single == json.ocla_debug_subsystem.Sampling_Clk = "SINGLE"
           n == Len(json.ocla)
           acc == AddInstances(json.ocla, single)
<1>1. acc.ok /\ parse_ocla(json).domains = acc.domains \o Deferred(acc)
  BY DEF parse_ocla
<1>2. n \in Nat /\ DOMAIN json.ocla = 1 .. n /\ single \in BOOLEAN
  OBVIOUS
<1> HIDE DEF single
<1>3. PICK f : /\ f[0] = NoInstance(single)
               /\ \A k \in 1 .. n : f[k] = AddInstance(f[k - 1], json.ocla[k], single)
               /\ acc = f[n]
  <2> DEFINE list == json.ocla
  <2>1. n \in Nat /\ DOMAIN list = 1 .. n
    BY <1>2
  <2> HIDE DEF n, list
  <2>2. PICK f : /\ f[0] = NoInstance(single)
                 /\ \A k \in 1 .. n : f[k] = AddInstance(f[k - 1], list[k], single)
                 /\ AddInstances(list, single) = f[n]
    BY <2>1, InstancesFold
  <2> QED
    BY <2>2 DEF list
<1>11. \A k \in 1 .. n : json.ocla[k] \in CoreInfo
  OBVIOUS
<1> DEFINE Q == {k \in Nat : k <= n => AccSound(f[k], single, json, k) /\ AccCut(f[k])}
<1>4. 0 \in Q
  <2> DEFINE none == NoInstance(single)
  <2>1. none.domains = (IF single THEN <<OclaDomain("native", 1)>> ELSE <<>>) /\ none.deferred = <<>>
    BY DEF NoInstance
  <2> HIDE DEF none
  <2>2. AllCut(<<>>)
    BY EmptyList DEF AllCut
  <2>3. AllCut(<<OclaDomain("native", 1)>>)
    <3>1. Append(<<>>, OclaDomain("native", 1)) = <<OclaDomain("native", 1)>>
      OBVIOUS
    <3>2. AllCut(Append(<<>>, OclaDomain("native", 1)))
      BY <2>2, EmptyList, NewDomainCut
    <3> QED
      BY <3>1, <3>2
  <2>4. AccCut(none)
    BY <2>1, <2>2, <2>3 DEF AccCut
  <2>5. AccSound(none, single, json, 0)
    BY <1>2, NoInstanceSound DEF none
  <2> QED
    BY <1>2, <1>3, <2>4, <2>5 DEF none
<1>5. ASSUME NEW k \in Nat, k \in Q
      PROVE  k + 1 \in Q
  <2> SUFFICES ASSUME k + 1 <= n
               PROVE  AccSound(f[k + 1], single, json, k + 1) /\ AccCut(f[k + 1])
    OBVIOUS
  <2>1. k + 1 \in 1 .. n /\ (k + 1) - 1 = k /\ AccSound(f[k], single, json, k) /\ AccCut(f[k])
    BY <1>2, <1>5
  <2>2. f[k + 1] = AddInstance(f[k], json.ocla[k + 1], single)
    BY <1>3, <2>1
  <2>3. AccSound(f[k + 1], single, json, k + 1)
    BY <1>2, <2>1, <2>2, AddInstanceSound
  <2>4. json.ocla[k + 1] \in CoreInfo /\ Tiled(json.ocla[k + 1])
    BY <1>11, <2>1 DEF ProbesTile
  <2>5. AccCut(AddInstance(f[k], json.ocla[k + 1], single))
    BY <1>2, <2>1, <2>4, AddInstanceCut
  <2> QED
    BY <2>2, <2>3, <2>5
<1> HIDE DEF Q
<1>6. n \in Q
  BY <1>2, <1>4, <1>5, Induction
<1>7. AccSound(acc, single, json, n) /\ AccCut(acc)
  BY <1>2, <1>3, <1>6 DEF Q
<1> HIDE DEF acc, n
<1>8. /\ AllPlaced(acc.domains, acc.deferred, acc.indexes, json, n)
      /\ AllCut(acc.domains) /\ AllCut(acc.deferred)
  BY <1>1, <1>7 DEF AccSound, AccCut
<1> DEFINE ds == acc.domains \o Deferred(acc)
<1>12. OneOfEither(acc.domains, acc.deferred, ds)
  BY <1>8, Gathered
<1> HIDE DEF ds
<1>9. ASSUME NEW m \in 1 .. Len(ds)
      PROVE  DomainCut(ds[m]) /\ IsList(ds[m].instances) /\ IsList(ds[m].probes)
  <2>1. PICK d : /\ DomainCut(d) /\ DomainSound(d, json)
                 /\ ds[m].instances = d.instances /\ ds[m].probes = d.probes
    <3>1. CASE m \in 1 .. Len(acc.domains) /\ ds[m] = acc.domains[m]
      BY <1>8, <3>1 DEF AllCut, AllPlaced
    <3>2. CASE \E x \in 1 .. Len(acc.deferred) :
                 ds[m].instances = acc.deferred[x].instances /\ ds[m].probes = acc.deferred[x].probes
      BY <1>8, <3>2 DEF AllCut, AllPlaced
    <3> QED
      BY <1>12, <3>1, <3>2 DEF OneOfEither
  <2> QED
    BY <2>1 DEF DomainCut, DomainSound
<1>10. ListsCut(ds)
  BY <1>9 DEF ListsCut, AllCut
<1> QED
  BY <1>1, <1>10 DEF ds

(* FlattenSeq puts the lists one after the other.                           *)
FlatTable(g, ss, n) == g = [i \in 1 .. n |-> IF i = 1 THEN ss[i] ELSE g[i - 1] \o ss[i]]

(* There is such a table.                                                   *)
LEMMA FlatTableExists ==
  ASSUME NEW ss, NEW n \in Nat
  PROVE  \E g : FlatTable(g, ss, n)
<1> DEFINE Q == {k \in Nat : \E g : FlatTable(g, ss, k)}
<1>1. 0 \in Q
  <2>1. FlatTable([i \in 1 .. 0 |-> ss[i]], ss, 0)
    BY DEF FlatTable
  <2> QED
    BY <2>1
<1>2. ASSUME NEW k \in Nat, k \in Q
      PROVE  k + 1 \in Q
  <2>1. PICK g : FlatTable(g, ss, k)
    BY <1>2
  <2> DEFINE more == g[k] \o ss[k + 1]
             h == [i \in 1 .. k + 1 |-> IF i = k + 1 THEN IF i = 1 THEN ss[i] ELSE more ELSE g[i]]
  <2>2. ASSUME NEW i \in 1 .. k + 1
        PROVE  h[i] = IF i = 1 THEN ss[i] ELSE h[i - 1] \o ss[i]
    <3>1. CASE i = k + 1
      <4>1. CASE i = 1
        BY <3>1, <4>1
      <4>2. CASE i # 1
        <5>1. k \in 1 .. k + 1 /\ k # k + 1 /\ i - 1 = k
          BY <3>1, <4>2
        <5>2. h[k] = g[k]
          BY <5>1
        <5>3. h[i] = more
          BY <3>1, <4>2
        <5> HIDE DEF h
        <5> QED
          BY <3>1, <4>2, <5>1, <5>2, <5>3
      <4> QED
        BY <4>1, <4>2
    <3>2. CASE i # k + 1
      <4>1. i \in 1 .. k
        BY <3>2
      <4>2. h[i] = g[i]
        BY <3>2
      <4>3. g[i] = IF i = 1 THEN ss[i] ELSE g[i - 1] \o ss[i]
        BY <2>1, <4>1 DEF FlatTable
      <4>4. i # 1 => h[i - 1] = g[i - 1]
        <5> SUFFICES ASSUME i # 1 PROVE h[i - 1] = g[i - 1]
          OBVIOUS
        <5>1. i - 1 \in 1 .. k + 1 /\ i - 1 # k + 1
          BY <4>1
        <5> QED
          BY <5>1
      <4> HIDE DEF h
      <4> QED
        BY <4>2, <4>3, <4>4
    <3> QED
      BY <3>1, <3>2
  <2>3. h = [i \in 1 .. k + 1 |-> h[i]]
    OBVIOUS
  <2> HIDE DEF h
  <2>4. FlatTable(h, ss, k + 1)
    BY <2>2, <2>3 DEF FlatTable
  <2> QED
    BY <2>4
<1> HIDE DEF Q
<1>3. n \in Q
  BY <1>1, <1>2, Induction
<1> QED
  BY <1>3 DEF Q

(* ... and FlattenSeq reads it at the whole list.                           *)
LEMMA Flattened ==
  ASSUME NEW ss, NEW n, n \in Nat \ {0}, Len(ss) = n
  PROVE  \E g : FlatTable(g, ss, n) /\ FlattenSeq(ss) = g[n]
<1> DEFINE iter == CHOOSE g : g = [i \in 1 .. Len(ss) |-> IF i = 1 THEN ss[i] ELSE g[i - 1] \o ss[i]]
<1>1. iter = [i \in 1 .. Len(ss) |-> IF i = 1 THEN ss[i] ELSE iter[i - 1] \o ss[i]]
  <2>1. PICK g : FlatTable(g, ss, n)
    BY FlatTableExists, Zenon
  <2>2. g = [i \in 1 .. Len(ss) |-> IF i = 1 THEN ss[i] ELSE g[i - 1] \o ss[i]]
    BY <2>1 DEF FlatTable
  <2> QED
    BY <2>2, Zenon
<1>2. ~(Len(ss) = 0)
  OBVIOUS
<1>3. FlattenSeq(ss) = iter[Len(ss)]
  BY <1>2, Zenon DEF FlattenSeq
<1> HIDE DEF iter
<1>4. FlatTable(iter, ss, n)
  BY <1>1 DEF FlatTable
<1> QED
  BY <1>3, <1>4

(* Of all the lists, one has one signal with bit b.                         *)
OnceAmong(ss, b) ==
  \E p \in 1 .. Len(ss) : \E k \in 1 .. Len(ss[p]) :
    \A q \in 1 .. Len(ss) : \A l \in 1 .. Len(ss[q]) :
      b \in BitsOf(ss[q][l]) <=> q = p /\ l = k

(* ... so that what is in one of them once is in the whole once.            *)
LEMMA FlattenedOnce ==
  ASSUME NEW ss, NEW n \in Nat, Len(ss) = n, \A q \in 1 .. n : IsList(ss[q]),
         NEW b, OnceAmong(ss, b)
  PROVE  \E j \in 1 .. Len(FlattenSeq(ss)) : \A h \in 1 .. Len(FlattenSeq(ss)) :
           b \in BitsOf(FlattenSeq(ss)[h]) <=> h = j
<1>1. PICK p \in 1 .. n : \E k \in 1 .. Len(ss[p]) :
         \A q \in 1 .. n : \A l \in 1 .. Len(ss[q]) :
           b \in BitsOf(ss[q][l]) <=> q = p /\ l = k
  BY DEF OnceAmong
<1>2. PICK k \in 1 .. Len(ss[p]) : \A q \in 1 .. n : \A l \in 1 .. Len(ss[q]) :
         b \in BitsOf(ss[q][l]) <=> q = p /\ l = k
  BY <1>1
<1>3. n \in Nat \ {0}
  OBVIOUS
<1>4. PICK g : FlatTable(g, ss, n) /\ FlattenSeq(ss) = g[n]
  BY <1>3, Flattened
<1>5. \A i \in 1 .. n : g[i] = IF i = 1 THEN ss[i] ELSE g[i - 1] \o ss[i]
  BY <1>4 DEF FlatTable
<1> DEFINE Once(s) == \E j \in 1 .. Len(s) : \A h \in 1 .. Len(s) : b \in BitsOf(s[h]) <=> h = j
           Never(s) == \A h \in 1 .. Len(s) : b \notin BitsOf(s[h])
           Good(i) == /\ IsList(g[i])
                      /\ i < p => Never(g[i])
                      /\ i >= p => Once(g[i])
           Q == {i \in Nat : i \in 1 .. n => Good(i)}
<1>6. \A i \in 1 .. n : /\ IsList(ss[i])
                        /\ i # p => Never(ss[i])
                        /\ i = p => Once(ss[i])
  <2>1. Once(ss[p])
    BY <1>2
  <2>2. \A i \in 1 .. n : i # p => Never(ss[i])
    BY <1>2
  <2> HIDE DEF Once, Never
  <2> QED
    BY <2>1, <2>2
<1>7. ASSUME NEW s, NEW t, IsList(s), IsList(t)
      PROVE  /\ Never(s) /\ Never(t) => Never(s \o t)
             /\ Once(s) /\ Never(t) => Once(s \o t)
             /\ Never(s) /\ Once(t) => Once(s \o t)
  <2> DEFINE u == s \o t
  <2>1. /\ Len(s) \in Nat /\ Len(t) \in Nat
        /\ Len(u) = Len(s) + Len(t)
        /\ \A h \in 1 .. Len(s) : u[h] = s[h]
        /\ \A h \in 1 .. Len(t) : u[Len(s) + h] = t[h]
        /\ \A h \in 1 .. Len(u) : h \in 1 .. Len(s) \/ h - Len(s) \in 1 .. Len(t)
    BY <1>7, Joined
  <2> HIDE DEF u
  <2>2. \A h \in 1 .. Len(u) : h \notin 1 .. Len(s) =>
          \E i \in 1 .. Len(t) : h = Len(s) + i /\ u[h] = t[i]
    <3> TAKE h \in 1 .. Len(u)
    <3> HAVE h \notin 1 .. Len(s)
    <3>1. h - Len(s) \in 1 .. Len(t) /\ Len(s) + (h - Len(s)) = h
      BY <2>1
    <3> QED
      BY <2>1, <3>1
  <2>3. Never(s) /\ Never(t) => Never(u)
    BY <2>1, <2>2
  <2>4. ASSUME Once(s), Never(t) PROVE Once(u)
    <3>1. PICK j \in 1 .. Len(s) : \A h \in 1 .. Len(s) : b \in BitsOf(s[h]) <=> h = j
      BY <2>4
    <3>2. j \in 1 .. Len(u)
      BY <2>1
    <3>3. \A h \in 1 .. Len(u) : b \in BitsOf(u[h]) <=> h = j
      BY <2>1, <2>2, <2>4, <3>1
    <3> QED
      BY <3>2, <3>3
  <2>5. ASSUME Never(s), Once(t) PROVE Once(u)
    <3>1. PICK j \in 1 .. Len(t) : \A h \in 1 .. Len(t) : b \in BitsOf(t[h]) <=> h = j
      BY <2>5
    <3>2. Len(s) + j \in 1 .. Len(u) /\ Len(s) + j \notin 1 .. Len(s)
      BY <2>1
    <3>3. \A h \in 1 .. Len(u) : b \in BitsOf(u[h]) <=> h = Len(s) + j
      <4> TAKE h \in 1 .. Len(u)
      <4>1. CASE h \in 1 .. Len(s)
        BY <2>1, <2>5, <3>2, <4>1
      <4>2. CASE h \notin 1 .. Len(s)
        <5>1. PICK i \in 1 .. Len(t) : h = Len(s) + i /\ u[h] = t[i]
          BY <2>2, <4>2
        <5>2. h = Len(s) + j <=> i = j
          <6>1. Len(s) \in Nat /\ i \in Int /\ j \in Int
            BY <2>1
          <6>2. \A x, y, z \in Int : x + y = x + z <=> y = z
            OBVIOUS
          <6> QED
            BY <5>1, <6>1, <6>2
        <5> QED
          BY <3>1, <5>1, <5>2
      <4> QED
        BY <4>1, <4>2
    <3> QED
      BY <3>2, <3>3
  <2> HIDE DEF Once, Never
  <2> QED
    BY <2>3, <2>4, <2>5 DEF u
<1>8. 0 \in Q
  OBVIOUS
<1> HIDE DEF Once, Never
<1>9. ASSUME NEW i \in Nat, i \in Q
      PROVE  i + 1 \in Q
  <2> SUFFICES ASSUME i + 1 \in 1 .. n
               PROVE  Good(i + 1)
    OBVIOUS
  <2>1. CASE i = 0
    <3>1. g[i + 1] = ss[i + 1]
      BY <1>5, <2>1
    <3>2. i + 1 = 1 /\ (i + 1 < p => i + 1 # p) /\ (i + 1 >= p => i + 1 = p)
      BY <2>1
    <3> QED
      BY <1>6, <3>1, <3>2
  <2>2. CASE i # 0
    <3>1. i \in 1 .. n /\ Good(i) /\ i + 1 # 1 /\ (i + 1) - 1 = i
      BY <1>9, <2>2
    <3>2. g[i + 1] = g[i] \o ss[i + 1]
      BY <1>5, <3>1
    <3>3. IsList(ss[i + 1]) /\ IsList(g[i])
      BY <1>6, <3>1
    <3>4. IsList(g[i + 1])
      BY <3>2, <3>3, Joined
    <3>5. CASE i + 1 < p
      <4>1. i < p /\ i + 1 # p /\ ~(i + 1 >= p)
        BY <3>5
      <4> QED
        BY <1>6, <1>7, <3>1, <3>2, <3>3, <3>4, <4>1
    <3>6. CASE i + 1 = p
      <4>1. i < p /\ i + 1 >= p /\ ~(i + 1 < p)
        BY <3>6
      <4> QED
        BY <1>6, <1>7, <3>1, <3>2, <3>3, <3>4, <3>6, <4>1
    <3>7. CASE i + 1 > p
      <4>1. i >= p /\ i + 1 # p /\ ~(i + 1 < p)
        BY <3>7
      <4> QED
        BY <1>6, <1>7, <3>1, <3>2, <3>3, <3>4, <4>1
    <3> QED
      BY <3>5, <3>6, <3>7
  <2> QED
    BY <2>1, <2>2
<1> HIDE DEF Q
<1>10. n \in Q
  BY <1>8, <1>9, Induction
<1>11. Once(g[n])
  <2>1. n \in 1 .. n /\ n >= p
    BY <1>3
  <2> QED
    BY <1>10, <2>1 DEF Q
<1> QED
  BY <1>4, <1>11 DEF Once

(* SignalsOf are the signals of an instance.                                *)
LEMMA InstanceTakesOnce ==
  ASSUME NEW dom, NEW inst, NEW width, IsList(dom.probes),
         \A p \in 1 .. Len(dom.probes) : IsList(dom.probes[p].signals),
         CutOnce(dom.probes, inst, width)
  PROVE  TakesOnce(SignalsOf(dom, inst), width)
<1> DEFINE probes == dom.probes
           n == Len(probes)
           ss == [p \in 1 .. n |-> IF probes[p].inst = inst THEN probes[p].signals ELSE <<>>]
           sigs == FlattenSeq(ss)
<1>1. SignalsOf(dom, inst) = sigs
  BY DEF SignalsOf
<1>2. n \in Nat
  BY DEF IsList
<1>3. Len(ss) = n
  <2>1. DOMAIN ss = 1 .. n /\ ss = [p \in 1 .. n |-> ss[p]]
    OBVIOUS
  <2> HIDE DEF ss, n
  <2> QED
    BY <1>2, <2>1, Listed
<1>4. \A p \in 1 .. n : /\ probes[p].inst = inst => ss[p] = probes[p].signals
                        /\ probes[p].inst # inst => ss[p] = <<>>
  OBVIOUS
<1>5. \A p \in 1 .. n : IsList(probes[p].signals)
  OBVIOUS
<1> HIDE DEF ss, sigs, n, probes
<1>6. \A p \in 1 .. n : IsList(ss[p])
  BY <1>4, <1>5, EmptyList
<1>7. ASSUME NEW b \in 0 .. width - 1
      PROVE  Cardinality({k \in 1 .. Len(sigs) : b \in BitsOf(sigs[k])}) = 1
  <2>1. PICK p, k : /\ Hit(probes, inst, b, p, k)
                    /\ \A q, l : Hit(probes, inst, b, q, l) => q = p /\ l = k
    BY <1>7 DEF CutOnce, probes
  <2>2. p \in 1 .. n /\ k \in 1 .. Len(ss[p]) /\ b \in BitsOf(ss[p][k])
    BY <1>4, <2>1 DEF Hit, n
  <2>3. \A q \in 1 .. n : \A l \in 1 .. Len(ss[q]) : b \in BitsOf(ss[q][l]) => q = p /\ l = k
    <3> SUFFICES ASSUME NEW q \in 1 .. n, NEW l \in 1 .. Len(ss[q]), b \in BitsOf(ss[q][l])
                 PROVE  q = p /\ l = k
      OBVIOUS
    <3>1. probes[q].inst = inst
      BY <1>4, EmptyList
    <3>2. Hit(probes, inst, b, q, l)
      BY <1>4, <3>1 DEF Hit, n
    <3> QED
      BY <2>1, <3>2
  <2>4. PICK j \in 1 .. Len(sigs) : \A h \in 1 .. Len(sigs) : b \in BitsOf(sigs[h]) <=> h = j
    <3>1. \E j \in 1 .. Len(FlattenSeq(ss)) : \A h \in 1 .. Len(FlattenSeq(ss)) :
            b \in BitsOf(FlattenSeq(ss)[h]) <=> h = j
      <4>1. OnceAmong(ss, b)
        BY <1>3, <2>2, <2>3 DEF OnceAmong
      <4> QED
        BY <1>2, <1>3, <1>6, <4>1, FlattenedOnce
    <3> QED
      BY <3>1 DEF sigs
  <2>5. {k_1 \in 1 .. Len(sigs) : b \in BitsOf(sigs[k_1])} = {j}
    BY <2>4
  <2> QED
    BY <2>5, FS_Singleton
<1>8. TakesOnce(sigs, width)
  BY <1>7 DEF TakesOnce
<1> QED
  BY <1>1, <1>8

(* The two probes of EIO are a list.                                        *)
LEMMA LoadedEio ==
  ASSUME load(file).status = "ok"
  PROVE  IsList(load(file).session.eio)
<1> DEFINE eio == file.eio
           in == EioProbe("input", eio.probes_in)
           out_ == EioProbe("output", eio.probes_out)
           a == Present(eio, "probes_in", in)
           b == Present(eio, "probes_out", out_)
<1>1. CASE "eio" \notin file.keys
  <2>1. load(file).session.eio = <<>>
    BY <1>1 DEF load
  <2> QED
    BY <2>1, EmptyList
<1>2. CASE "eio" \in file.keys
  <2>1. load(file).session.eio = parse_eio(eio).probes /\ parse_eio(eio).status = "ok"
    BY <1>2 DEF load
  <2>2. parse_eio(eio).probes = a \o b
    BY <2>1 DEF parse_eio
  <2> HIDE DEF in, out_
  <2>3. IsList(<<in>>) /\ IsList(<<out_>>)
    <3>1. <<in>> \in Seq({in}) /\ <<out_>> \in Seq({out_})
      OBVIOUS
    <3> QED
      BY <3>1 DEF IsList
  <2>4. IsList(a) /\ IsList(b)
    BY <2>3, EmptyList, Zenon DEF Present
  <2> HIDE DEF a, b
  <2>5. IsList(a \o b)
    BY <2>4, Joined
  <2> QED
    BY <2>1, <2>2, <2>5
<1> QED
  BY <1>1, <1>2

(* What load accepts of an assembled design whose probes tile.              *)
LEMMA LoadedCut ==
  ASSUME FileSound, file # NoFile, load(file).status = "ok",
         \A json \in Design : ProbesTile(json)
  PROVE  ListsCut(load(file).session.domains)
<1>1. PICK json \in Design :
        extract_ocla_info(json) /\ file = [json EXCEPT !.keys = @ \ {"messages"}]
  BY DEF FileSound
<1>2. IsDesign(json)
  BY DesignAssumption
<1>3. file.ocla = json.ocla /\ file.keys = json.keys \ {"messages"}
  BY <1>1, <1>2 DEF IsDesign
<1>4. "ocla" \in file.keys
  BY <1>1, <1>3 DEF extract_ocla_info, DesignKeys
<1>5. /\ load(file).session.domains = parse_ocla(file).domains
      /\ parse_ocla(file).status = "ok"
  BY <1>4 DEF load
<1>6. ProbesTile(file)
  BY <1>3 DEF ProbesTile
<1>7. file.ocla \in Seq(CoreInfo)
  BY <1>2, <1>3 DEF IsDesign
<1> QED
  BY <1>5, <1>6, <1>7, ParsedOclaCut

(* A session's domains are cut.                                             *)
SessionCut == Loaded => ListsCut(session.domains) /\ IsList(session.eio)

(* ... and so they stay: only load makes a session.                         *)
LEMMA SessionsAreCut ==
  ASSUME \A json \in Design : ProbesTile(json)
  PROVE  Spec => []SessionCut
<1>1. Init => SessionCut
  BY DEF Init, SessionCut, Loaded
<1>2. IoInv /\ SessionCut /\ [Next]_vars => SessionCut'
  <2> SUFFICES ASSUME IoInv, SessionCut, [Next]_vars PROVE SessionCut'
    OBVIOUS
  <2>1. CASE session' = session
    BY <2>1 DEF SessionCut, Loaded
  <2>2. CASE Load
    <3>1. CASE file # NoFile /\ load(file).status = "ok"
      <4>1. session' = load(file).session
        BY <2>2, <3>1, Zenon DEF Load
      <4>2. ListsCut(session'.domains)
        BY <3>1, <4>1, LoadedCut DEF IoInv
      <4>3. IsList(session'.eio)
        BY <3>1, <4>1, LoadedEio
      <4> QED
        BY <4>2, <4>3 DEF SessionCut
    <3>2. CASE ~(file # NoFile /\ load(file).status = "ok")
      <4>1. session' = session
        BY <2>2, <3>2, Zenon DEF Load
      <4> QED
        BY <2>1, <4>1
    <3> QED
      BY <3>1, <3>2
  <2>3. CASE Unload
    BY <2>3 DEF Unload, SessionCut, Loaded
  <2>4. Load \/ Unload \/ session' = session
    BY DEF Next, Command, CommandStep, Assemble, SetIo, GetIo, Begin, Reject, Select, TooManyWords,
      ReadWord, Update, WriteWord, Written, Confirm, Report, Again, JtagFails, InputsChange, vars
  <2> QED
    BY <2>1, <2>2, <2>3, <2>4
<1> QED
  BY <1>1, <1>2, IoInvariant, PTL DEF Spec

(* If the probes of each instance of the design tile it, which parse_ocla   *)
(* does not check (it adds up their widths), then in every session the      *)
(* signals found in the probes of an instance, native or AXI, and those of  *)
(* an EIO probe take each bit once: also a signal that reaches over the end *)
(* of the probe it begins in, and whatever else shares the domain.          *)
THEOREM InstancesAreCut ==
  ASSUME \A json \in Design : ProbesTile(json)
  PROVE  Spec => []SignalsTakeEachBitOnce
<1>1. IoInv /\ SessionCut => SignalsTakeEachBitOnce
  <2> SUFFICES ASSUME IoInv, SessionCut, Loaded
               PROVE  /\ \A m \in 1 .. Len(session.domains) :
                           \A i \in Range(session.domains[m].instances) :
                             TakesOnce(SignalsOf(session.domains[m], i.index), i.width)
                      /\ \A p \in Range(session.eio) : TakesOnce(p.signal_list, p.probe_width)
    BY DEF SignalsTakeEachBitOnce
  <2>1. \A s : IsList(s) => \A x \in Range(s) : \E k \in 1 .. Len(s) : x = s[k]
    BY DEF IsList, Range
  <2>2. ASSUME NEW m \in 1 .. Len(session.domains), NEW i \in Range(session.domains[m].instances)
        PROVE  TakesOnce(SignalsOf(session.domains[m], i.index), i.width)
    <3> DEFINE d == session.domains[m]
    <3>1. DomainCut(d) /\ IsList(d.instances) /\ IsList(d.probes)
      BY DEF SessionCut, ListsCut, AllCut
    <3>2. PICK k \in 1 .. Len(d.instances) : i = d.instances[k]
      BY <2>1, <3>1
    <3> HIDE DEF d
    <3>3. /\ CutOnce(d.probes, i.index, i.width)
          /\ \A p \in 1 .. Len(d.probes) : IsList(d.probes[p].signals)
      BY <3>1, <3>2 DEF DomainCut
    <3>4. TakesOnce(SignalsOf(d, i.index), i.width)
      BY <3>1, <3>3, InstanceTakesOnce
    <3> QED
      BY <3>4 DEF d
  <2>3. ASSUME NEW p \in Range(session.eio)
        PROVE  TakesOnce(p.signal_list, p.probe_width)
    <3>1. PICK k \in 1 .. Len(session.eio) : p = session.eio[k]
      BY <2>1 DEF SessionCut
    <3>2. SoundProbe(p)
      BY <3>1 DEF IoInv, ProbesSound
    <3> QED
      BY <3>2, ProbeTakesOnce
  <2> QED
    BY <2>2, <2>3
<1>2. Spec => []SessionCut
  BY SessionsAreCut
<1> QED
  BY <1>1, <1>2, IoInvariant, PTL
=============================================================================
